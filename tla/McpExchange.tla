---------------------------- MODULE McpExchange ----------------------------
(***************************************************************************)
(* internal/mcp: one exchange of JSON-RPC messages with an MCP server, as  *)
(* both transports perform it.  The request is posted; its answer is the   *)
(* body of that same HTTP response, one JSON document or a stream of SSE   *)
(* frames, or 202 Accepted without a body.                                 *)
(*                                                                         *)
(* A message of the server is a result, an error, something of its own (a  *)
(* request or notification, which has neither), or junk that does not      *)
(* decode.  `id' is its JSON-RPC id, 0 for none, and `of' the caller whose *)
(* call it is about.  The server numbers its own requests as it likes.     *)
(* A frame whose closing blank line is missing, or that is longer than the *)
(* scanner's buffer, is not read and therefore not listed.  The HTTP       *)
(* status is not looked at, 202 apart, so an error status shows only in    *)
(* what its body is.                                                       *)
(***************************************************************************)
EXTENDS Integers, Sequences

CONSTANTS Caller,       \* who may be waiting for an answer
          MaxMessages   \* bound: messages in a body

MessageKind == {"result", "error", "request", "junk"}
Message == [kind : MessageKind, id : Nat, of : Caller]

\* What Do returns instead of a message: an error, or nil without an error.
Refused(c) == [kind |-> "failed", id |-> 0, of |-> c]
Nothing(c) == [kind |-> "nil", id |-> 0, of |-> c]

\* Bodies made of the given messages.
Bodies(messages) ==
    [accepted : BOOLEAN, sse : BOOLEAN, frames : UNION {[1 .. n -> messages] : n \in 0 .. MaxMessages}]

\* The frames parseSSEResponse would stop at.
Matching(frames, id) == {k \in DOMAIN frames : frames[k].kind # "junk" /\ frames[k].id = id}

\* Fault: the first frame that decodes is the answer.
ParseSSEUnmatched(frames, id, c) ==
    LET decoded == {k \in DOMAIN frames : frames[k].kind # "junk"}
    IN  IF decoded = {} THEN Refused(c)
        ELSE frames[CHOOSE k \in decoded : \A l \in decoded : k <= l]

\* parseSSEResponse: the first message with the request's id, whatever it is.
ParseSSE(frames, id, c) ==
    IF Matching(frames, id) = {} THEN Refused(c)
    ELSE frames[CHOOSE k \in Matching(frames, id) : \A l \in Matching(frames, id) : k <= l]

\* parseResponse: a single document, whatever its id.
ParseJSON(frames, c) ==
    IF Len(frames) # 1 \/ frames[1].kind = "junk" THEN Refused(c) ELSE frames[1]

\* finishDoResponse, for a request with this id of caller c.
Answer(body, id, c) ==
    IF body.accepted THEN Nothing(c)
    ELSE IF body.sse THEN ParseSSE(body.frames, id, c)
    ELSE ParseJSON(body.frames, c)

\* What Connect, ListTools and CallTool make of it: resp.Error of a nil response
\* panics, and a message without a result does not decode as one.
Outcome == [result |-> "ok", error |-> "error", request |-> "error",
            failed |-> "error", nil |-> "panic"]
=============================================================================
