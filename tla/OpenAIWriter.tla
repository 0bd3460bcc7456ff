---------------------------- MODULE OpenAIWriter ----------------------------
(***************************************************************************)
(* internal/api: sseWriter (sse.go), which turns deltas into the chunks of *)
(* an OpenAI stream.  Its one variable is whether a chunk was written, for *)
(* the role is in the first one only.                                      *)
(***************************************************************************)
EXTENDS ClientStream

VARIABLE first  \* s.first

\* n: how many tool calls are in it; the id, usage and model are left out.
Chunk(role, text, finish, n) ==
    [event |-> "chunk", role |-> role, text |-> text, finish |-> finish, calls |-> n]
Frame(name) == [event |-> name]

\* writeChunk
WriteChunk(text, finish, n) ==
    /\ first' = FALSE
    /\ Written(<<Chunk(first, text, finish, n)>>)

\* Fault: each of the two chunks is taken for the first.
OpenAIBurstRoleTwice(text, n) ==
    (IF text THEN <<Chunk(first, TRUE, "", 0)>> ELSE <<>>)
        \o <<Chunk(first, FALSE, "stop", n)>>

\* writeResponseBurst: the text, then the end, whatever its finish reason.
OpenAIBurst(text, n) ==
    (IF text THEN <<Chunk(first, TRUE, "", 0)>> ELSE <<>>)
        \o <<Chunk(first /\ ~text, FALSE, "stop", n)>>

\* What follows the burst is writeDone.
WriteOpenAIBurst(text, n) ==
    /\ first' = FALSE
    /\ Written(OpenAIBurst(text, n) \o <<Frame("done")>>)

\* writeError and writeDone, their write errors ignored.
WriteErrorFrame == Written(<<Frame("error"), Frame("done")>>) /\ UNCHANGED first

\* writeDone
WriteDone == Written(<<Frame("done")>>) /\ UNCHANGED first
=============================================================================
