---------------------------- MODULE OpenAIStream ----------------------------
(* The stream consumer of the OpenAI adapter (adapter/openai.go). *)
EXTENDS AdapterStream

\* The calls collected, in the order of their indices.
Sorted(listed) == \A i, j \in DOMAIN listed : i < j => listed[i] < listed[j]

\* Fault: the consumer reads on after the final chunk.
OpenAIChunkReadsOn(text, new, reason) ==
    /\ Reads("openai")
    /\ streamed' = streamed \cup new
    /\ calls' = calls \cup new
    /\ delivered' = (delivered \/ text)
    /\ \E listed \in SetToSeqs(calls') :
        /\ Sorted(listed)
        /\ deltas' = deltas \o When(text, Text)
                            \o When(reason # "", Final(reason, listed))
    /\ UNCHANGED <<finish, result>>

\* A chunk: text, fragments of the calls in new, and the finish reason if it is
\* the last one, which ends the stream.
OpenAIChunk(text, new, reason) ==
    /\ Reads("openai")
    /\ streamed' = streamed \cup new
    /\ calls' = calls \cup new
    /\ delivered' = (delivered \/ text)
    /\ result' = IF reason = "" THEN "reading" ELSE "ok"
    /\ \E listed \in SetToSeqs(calls') :
        /\ Sorted(listed)
        /\ deltas' = deltas \o When(text, Text)
                            \o When(reason # "", Final(reason, listed))
    /\ UNCHANGED finish

\* Fault: [DONE] does not flush the pending tool calls.
OpenAIDoneUnflushed ==
    /\ Reading("openai")
    /\ Return("ok")
    /\ UNCHANGED <<deltas, cut>>

\* [DONE] flushes pending tool calls, otherwise the stream just ends.
OpenAIDone ==
    /\ Reading("openai")
    /\ \E listed \in SetToSeqs(calls) :
        /\ Sorted(listed)
        /\ deltas' = deltas \o When(calls # {}, Final("stop", listed))
    /\ Return("ok")
    /\ UNCHANGED cut

\* A malformed payload, or a scanner error.
OpenAIBreaksOff == Reading("openai") /\ BreaksOff

\* The body ended without [DONE] or a finish reason.
OpenAIEnd ==
    /\ Reading("openai")
    /\ \/ /\ ~delivered /\ calls = {}
          /\ Return("transient") /\ UNCHANGED deltas
       \/ /\ delivered \/ calls # {}
          /\ \E listed \in SetToSeqs(calls) :
              Sorted(listed) /\ deltas' = Append(deltas, Final("stop", listed))
          /\ Return("ok")
    /\ UNCHANGED cut

OpenAINext ==
    \/ \E text \in BOOLEAN, new \in SUBSET ToolCall, reason \in Reason \cup {""} :
          OpenAIChunk(text, new, reason)
    \/ OpenAIDone \/ OpenAIBreaksOff \/ OpenAIEnd
=============================================================================
