-------------------------- MODULE AnthropicStream --------------------------
(***************************************************************************)
(* The stream consumer of the Anthropic adapter (adapter/anthropic.go).    *)
(* No event ends the stream: the consumer reads on after message_stop and  *)
(* after an error event, and skips what it cannot decode.                  *)
(***************************************************************************)
EXTENDS AdapterStream

\* message_start, input_json_delta, ping, comments and malformed frames change
\* nothing that is modelled.

\* content_block_start of a tool_use block.
AnthropicToolBlock(c) ==
    /\ Reads("anthropic")
    /\ calls' = calls \cup {c}
    /\ streamed' = streamed \cup {c}
    /\ delivered' = TRUE
    /\ UNCHANGED <<finish, deltas, result>>

\* A text_delta, which is emitted and counts as content even if it is empty.
AnthropicText(text) ==
    /\ Reads("anthropic")
    /\ delivered' = TRUE
    /\ deltas' = Append(deltas, IF text THEN Text ELSE Final("", <<>>))
    /\ UNCHANGED <<calls, finish, result, streamed>>

\* message_delta: the stop reason, or none.
AnthropicMessageDelta(reason) ==
    /\ Reads("anthropic")
    /\ finish' = reason
    /\ UNCHANGED <<delivered, calls, deltas, result, streamed>>

\* message_stop: the calls come in the order a map is ranged over.
AnthropicMessageStop ==
    /\ Reads("anthropic")
    /\ \E listed \in SetToSeqs(calls) :
        deltas' = Append(deltas,
                         Final(IF calls = {} THEN finish ELSE "tool_calls", listed))
    /\ UNCHANGED <<delivered, calls, finish, result, streamed>>

\* An error event: an error delta, and the stream goes on, or an error.
AnthropicError ==
    /\ Reads("anthropic")
    /\ deltas' = deltas \o When(delivered, Broken)
    /\ result' = IF delivered THEN "reading" ELSE "transient"
    /\ UNCHANGED <<delivered, calls, finish, streamed>>

\* A scanner error is returned, whatever was delivered.
AnthropicReadFails ==
    /\ Reading("anthropic")
    /\ cut' = TRUE
    /\ Return("transient")
    /\ UNCHANGED deltas

AnthropicEnd ==
    /\ Reading("anthropic")
    /\ Return(IF delivered THEN "ok" ELSE "transient")
    /\ UNCHANGED <<deltas, cut>>

AnthropicNext ==
    \/ \E c \in ToolCall : AnthropicToolBlock(c)
    \/ \E text \in BOOLEAN : AnthropicText(text)
    \/ \E reason \in {"", "stop", "tool_calls"} : AnthropicMessageDelta(reason)
    \/ AnthropicMessageStop \/ AnthropicError
    \/ AnthropicReadFails \/ AnthropicEnd
=============================================================================
