--------------------------- MODULE AdapterStream ---------------------------
(***************************************************************************)
(* internal/adapter: what the stream consumers of the three providers have *)
(* in common.  Stream sends one request, then reads the frames of the body *)
(* one by one, calling emit, until a frame ends the stream, the body ends, *)
(* or reading it fails.                                                    *)
(*                                                                         *)
(* The router's emit never fails: it appends the delta to a buffer.  A     *)
(* delta is its text (there or not), its finish reason and its tool calls. *)
(* Tool calls are numbered as the provider numbers them; names, arguments, *)
(* usage and reasoning are not modelled.  "stop" stands for every finish   *)
(* reason but tool_calls and error.                                        *)
(***************************************************************************)
EXTENDS Integers, Sequences, FiniteSets, SequencesExt

CONSTANTS ToolCall,   \* the indices a stream may give its tool calls
          MaxFrames   \* bound: frames in a body

ASSUME StreamAssumption ==
    /\ ToolCall \subseteq Nat /\ IsFiniteSet(ToolCall)
    /\ MaxFrames \in Nat

VARIABLES
    provider,   \* whose stream this is
    frames,     \* frames read
    delivered,  \* st.emitted, st.delivered
    calls,      \* st.acc, st.toolBlocks, st.toolCall: the calls collected
    finish,     \* st.stopReason, st.finishReason
    deltas,     \* history: what emit was called with
    result,     \* unsent, reading, then what Stream returned
    streamed,   \* history: the tool calls in the frames read
    cut         \* history: reading the body failed, or a frame was malformed

readerVars == <<frames, delivered, calls, finish, deltas, result, streamed, cut>>
streamVars == <<provider, readerVars>>

Failure == {"rate", "permanent", "transient"}
Reason == {"stop", "tool_calls", "error"}
Delta == [text : BOOLEAN, finish : Reason \cup {""}, calls : Seq(ToolCall)]

StreamTypeOK ==
    /\ provider \in {"openai", "anthropic", "gemini"}
    /\ frames \in 0 .. MaxFrames
    /\ delivered \in BOOLEAN
    /\ calls \subseteq ToolCall
    /\ finish \in Reason \cup {""}
    /\ deltas \in Seq(Delta)
    /\ result \in {"unsent", "reading", "ok"} \cup Failure
    /\ streamed \subseteq ToolCall
    /\ cut \in BOOLEAN

-----------------------------------------------------------------------------
Text == [text |-> TRUE, finish |-> "", calls |-> <<>>]
Final(reason, listed) == [text |-> FALSE, finish |-> reason, calls |-> listed]
Broken == Final("error", <<>>)

\* d, when it was decided to emit it.
When(condition, d) == IF condition THEN <<d>> ELSE <<>>

StreamInit ==
    /\ provider \in {"openai", "anthropic", "gemini"}
    /\ frames = 0
    /\ delivered = FALSE
    /\ calls = {}
    /\ finish = ""
    /\ deltas = <<>>
    /\ result = "unsent"
    /\ streamed = {}
    /\ cut = FALSE

\* The request is answered: its body is read, or its status is an error (429,
\* 5xx, any other), or it failed without a status, which counts as transient.
Send ==
    /\ result = "unsent"
    /\ result' \in {"reading"} \cup Failure
    /\ UNCHANGED <<provider, frames, delivered, calls, finish, deltas, streamed, cut>>

Reading(who) == provider = who /\ result = "reading"

\* The consumer takes one more frame of the body.
Reads(who) ==
    /\ Reading(who) /\ frames < MaxFrames
    /\ frames' = frames + 1
    /\ UNCHANGED <<provider, cut>>

\* Stream returns.
Return(what) ==
    /\ result' = what
    /\ UNCHANGED <<provider, frames, delivered, calls, finish, streamed>>

\* Reading failed, or a frame did not decode: an error if nothing was delivered,
\* otherwise an error delta that ends the stream.
BreaksOff ==
    /\ cut' = TRUE
    /\ deltas' = deltas \o When(delivered, Broken)
    /\ Return(IF delivered THEN "ok" ELSE "transient")
=============================================================================
