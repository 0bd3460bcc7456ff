---------------------------- MODULE GeminiStream ----------------------------
(* The stream consumer of the Gemini adapter (adapter/gemini.go). *)
EXTENDS AdapterStream

\* A chunk: text, at most one function call (of several in a chunk the last one
\* stays, as from chunk to chunk), a finish reason or none.
GeminiChunk(text, new, reason) ==
    /\ Reads("gemini")
    /\ delivered' = (delivered \/ text)
    /\ deltas' = deltas \o When(text, Text)
    /\ streamed' = streamed \cup new
    /\ calls' = IF new = {} THEN calls ELSE new
    /\ finish' = IF reason = "" THEN finish ELSE reason
    /\ UNCHANGED result

\* Fault: a body that broke off ends like one that ended.
GeminiBreaksOffUnseen ==
    /\ Reading("gemini")
    /\ cut' = TRUE
    /\ deltas' = Append(deltas, Final(finish, <<>>))
    /\ Return("ok")

\* A malformed payload, or a scanner error.
GeminiBreaksOff == Reading("gemini") /\ BreaksOff

\* The end of the body: the pending call, or the finish reason seen, if any.
GeminiEnd ==
    /\ Reading("gemini")
    /\ \E listed \in SetToSeqs(calls) :
        deltas' = Append(deltas,
                         Final(IF calls = {} THEN finish ELSE "tool_calls", listed))
    /\ Return("ok")
    /\ UNCHANGED cut

GeminiNext ==
    \/ \E text \in BOOLEAN, new \in {{}} \cup {{c} : c \in ToolCall},
          reason \in {"", "stop"} : GeminiChunk(text, new, reason)
    \/ GeminiBreaksOff \/ GeminiEnd
=============================================================================
