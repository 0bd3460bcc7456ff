--------------------------- MODULE StreamServing ---------------------------
(***************************************************************************)
(* One upstream stream served to a client of either wire: a provider's     *)
(* stream consumer fills the buffer of captureStream, then the handler     *)
(* replays the buffer through the client's SSE writer, or runs the         *)
(* server's tools and writes the outcome, or reports that the (last)       *)
(* candidate failed.                                                       *)
(***************************************************************************)
EXTENDS OpenAIStream, AnthropicStream, GeminiStream, AnthropicWriter, OpenAIWriter

VARIABLES
    client,    \* whose writer it is: anthropic, openai
    replayed,  \* how many deltas of the buffer have been replayed
    served     \* what was served: no (not yet), replay, burst, error

writerVars == <<events, gone, blockVars, first>>
servingVars == <<client, replayed, served>>
vars == <<streamVars, writerVars, servingVars>>

TypeOK ==
    /\ StreamTypeOK
    /\ client \in {"anthropic", "openai"}
    /\ started \in BOOLEAN /\ textOpen \in BOOLEAN /\ first \in BOOLEAN /\ gone \in BOOLEAN
    /\ index \in Nat
    /\ client = "anthropic" => \A k \in DOMAIN events : events[k].block \in -1 .. index
    /\ replayed \in 0 .. Len(deltas)
    /\ served \in {"no", "replay", "burst", "error"}

-----------------------------------------------------------------------------
Init ==
    /\ StreamInit /\ NothingWritten /\ WriterInit /\ first = TRUE
    /\ client \in {"anthropic", "openai"} /\ replayed = 0 /\ served = "no"

\* The writer of the client's wire is used, the other one is not there.
Write(anthropic, openai) ==
    IF client = "anthropic" THEN anthropic /\ UNCHANGED first
    ELSE openai /\ UNCHANGED blockVars

Consume ==
    /\ Send \/ OpenAINext \/ AnthropicNext \/ GeminiNext
    /\ UNCHANGED <<writerVars, servingVars>>

\* Stream has returned: nothing, or what the buffer holds, may be served.
Captured == result \in {"ok"} \cup Failure /\ served = "no"
Finals == {k \in DOMAIN deltas : deltas[k].finish # ""}
EndedInError == \E k \in Finals : deltas[k].finish = "error"

\* responseFromDeltas: the calls of the last delta with a finish reason.
ResponseCalls ==
    IF Finals = {} THEN <<>>
    ELSE deltas[CHOOSE k \in Finals : \A l \in Finals : l <= k].calls

\* Failed before content, and no candidate is left.
GiveUp ==
    /\ Captured /\ result \in Failure /\ deltas = <<>>
    /\ served' = "error"
    /\ Write(WriteError, WriteErrorFrame)
    /\ UNCHANGED <<streamVars, client, replayed>>

\* Every call is the server's: they are run, and the completion that follows,
\* if it does not fail, is written as a burst.
ServeToolBurst ==
    /\ Captured /\ replayed = 0
    /\ result = "ok" /\ ~EndedInError /\ ResponseCalls # <<>>
    /\ \/ /\ \E text \in BOOLEAN, n \in 0 .. Cardinality(ToolCall) :
              Write(WriteResponseBurst(text, n), WriteOpenAIBurst(text, n))
          /\ served' = "burst"
       \/ Write(WriteError, WriteErrorFrame) /\ served' = "error"
    /\ UNCHANGED <<streamVars, client, replayed>>

\* Otherwise the buffer is replayed delta by delta, until a write fails.
Replay ==
    /\ Captured
    /\ result = "ok" \/ deltas # <<>>
    /\ ~gone /\ replayed < Len(deltas)
    /\ LET d == deltas[replayed + 1]
       IN  Write(EmitDelta(d.text, d.finish # "", Len(d.calls)),
                 WriteChunk(d.text, d.finish, Len(d.calls)))
    /\ replayed' = replayed + 1
    /\ UNCHANGED <<streamVars, client, served>>

\* An OpenAI stream is ended by [DONE], an Anthropic one by its last delta.
ReplayEnds ==
    /\ Captured
    /\ result = "ok" \/ deltas # <<>>
    /\ gone \/ replayed = Len(deltas)
    /\ served' = "replay"
    /\ Write(UNCHANGED <<events, gone, blockVars>>, WriteDone)
    /\ UNCHANGED <<streamVars, client, replayed>>

Next == Consume \/ GiveUp \/ ServeToolBurst \/ Replay \/ ReplayEnds

Spec == Init /\ [][Next]_vars

-----------------------------------------------------------------------------
TextDelivered == \E k \in DOMAIN deltas : deltas[k].text

\* The OpenAI and Gemini adapters decide rightly whether a broken stream can
\* still be failed over: Stream returns an error exactly if nothing was
\* delivered, and if text was, an error delta tells the client
\* (chat/port.go:18-22; openai.go:581-588, gemini.go:579-586).
FailsExactlyBeforeContent ==
    provider \in {"openai", "gemini"} =>
        /\ result \in Failure => deltas = <<>>
        /\ cut => (result = "transient" <=> ~TextDelivered)
        /\ cut /\ TextDelivered => EndedInError

Chunks == {k \in DOMAIN events : events[k].event = "chunk"}

\* No tool call an OpenAI upstream streamed is lost on the way to the client,
\* on any of the three ways a stream can end cleanly: a replayed stream gives
\* it to the client once, in a tool_use block or in a chunk (openai.go:484-488,
\* 570-577, 591-598).
NoCallIsLost ==
    /\ provider = "openai"
    /\ served = "replay" /\ ~gone /\ ~EndedInError
    => Cardinality(streamed) =
         IF client = "anthropic"
         THEN Cardinality({k \in DOMAIN events : events[k].event = "tool_start"})
         ELSE FoldSet(LAMBDA k, n : n + events[k].calls, 0, Chunks)

Blocks == {k \in DOMAIN events : events[k].block >= 0}
Starts == {k \in Blocks : events[k].event \in {"text_start", "tool_start"}}
StopOf(i) == {k \in Blocks : events[k].event = "block_stop" /\ events[k].block = i}

\* Whatever the adapters emit and wherever writing stops, an Anthropic client sees
\* a message_start before any block, blocks numbered 0, 1, 2... without a gap,
\* each stopped before the next one starts or the message ends, and fragments
\* only of the block that is open ("indices 0,1,2,... across the whole
\* stream", anthropic_stream.go:14-17).
BlocksInSequence ==
    client = "anthropic" =>
    /\ Blocks # {} => events[1].event = "message_start"
    /\ \A k \in Starts :
        events[k].block = Cardinality({l \in Starts : l < k})
    /\ \A k \in DOMAIN events :
        events[k].event \in {"text_start", "tool_start", "message_delta"} =>
            \A l \in Starts : l < k => \E m \in StopOf(events[l].block) : l < m /\ m < k
    /\ \A k \in Blocks \ Starts :
        \E l \in Starts :
            /\ l < k /\ events[l].block = events[k].block
            /\ \A m \in StopOf(events[l].block) : k <= m

\* An OpenAI client sees one message, on whichever of the ways it was served: the
\* role in the first chunk and in no other, nothing after the chunk with the finish
\* reason but [DONE], and [DONE] once and last (sse.go:41-43, 136-143;
\* chat_completions.go:585-597).  For the Anthropic adapter, which may emit after
\* a final delta, the finish reason is left out.
ChunksAreOneMessage ==
    client = "openai" =>
        LET done == {k \in DOMAIN events : events[k].event = "done"}
        IN  /\ \A k \in Chunks : events[k].role <=> k = 1
            /\ \A k, l \in Chunks : provider # "anthropic" /\ k < l => events[k].finish = ""
            /\ done \subseteq {Len(events)}
            /\ served # "no" /\ ~gone => done # {}

\* A message that was completely replayed to an Anthropic client ends once, at the
\* end, exactly if its last delta had a finish reason; so it does after a burst or
\* an error (anthropic_stream.go:140-170).  For the Anthropic adapter, which may
\* emit after a final delta, this is not claimed.
MessageEndsOnce ==
    client = "anthropic" /\ served # "no" /\ ~gone /\ provider # "anthropic" =>
        LET stops == {k \in DOMAIN events : events[k].event = "message_stop"}
            ends == served = "replay" => deltas # <<>> /\ Last(deltas).finish # ""
        IN  stops = IF ends THEN {Len(events)} ELSE {}

\* Stream "then emits a final chunk with FinishReason set. It returns an error only
\* if the whole stream failed BEFORE any content was delivered"
\* (chat/port.go:18-22): a stream that returned no error has ended with such a
\* chunk, and one that returned an error has emitted nothing.
EndsAsItsPortSays ==
    /\ result = "ok" => deltas # <<>> /\ Last(deltas).finish # ""
    /\ result \in Failure => deltas = <<>>
=============================================================================
