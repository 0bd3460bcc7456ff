------------------------ MODULE StreamServingProofs ------------------------
(* Proofs about streams, for any tool-call indices and bodies of any length. *)
EXTENDS StreamServing, SequenceFacts, FiniteSetTheorems

USE StreamAssumption

-----------------------------------------------------------------------------
\* A list of collected calls is a sequence of calls.
LEMMA ListedCalls ==
    ASSUME NEW collected \in SUBSET ToolCall, NEW listed \in SetToSeqs(collected)
    PROVE  listed \in Seq(ToolCall)
  <1>1. IsFiniteSet(collected)
    BY FS_Subset
  <1>2. Cardinality(collected) \in Nat
    BY <1>1, FS_CardinalityType
  <1>3. listed \in [1 .. Cardinality(collected) -> ToolCall]
    BY DEF SetToSeqs
  <1> QED
    BY <1>2, <1>3, FunctionIsSequence

-----------------------------------------------------------------------------
\* The types of all that is not a delta or a result.
RestTyped ==
    /\ provider \in {"openai", "anthropic", "gemini"}
    /\ frames \in 0 .. MaxFrames
    /\ delivered \in BOOLEAN /\ cut \in BOOLEAN
    /\ calls \subseteq ToolCall /\ streamed \subseteq ToolCall
    /\ finish \in Reason \cup {""}

\* Text and nothing else; and deltas of which only the last may be final.
Texts(new) == \A k \in DOMAIN new : new[k].text = TRUE /\ new[k].finish = ""
Ends(new) == \A k \in DOMAIN new : k < Len(new) => new[k].finish = ""

\* The three effects a step of the OpenAI or the Gemini consumer may have: it emits
\* text and reads on, it fails before content, or it ends.
Effect(new) ==
    \/ /\ result' = "reading" /\ UNCHANGED cut
       /\ Texts(new) /\ (delivered' <=> delivered \/ new # <<>>)
    \/ result' = "transient" /\ new = <<>> /\ ~delivered
    \/ /\ result' = "ok" /\ Ends(new)
       /\ cut' # cut => delivered /\ new = <<Broken>>

LEMMA OneDelta ==
    ASSUME NEW d \in Delta
    PROVE  <<d>> \in Seq(Delta)
  OBVIOUS

LEMMA NoDelta ==
    ASSUME NEW s \in Seq(Delta)
    PROVE  <<>> \in Seq(Delta) /\ s \o <<>> = s
  BY ConcatEmptySeq

LEMMA Regroup ==
    ASSUME NEW s \in Seq(Delta), NEW a \in Seq(Delta), NEW d \in Delta
    PROVE  (s \o a) \o <<d>> = s \o (a \o <<d>>)
  BY OneDelta, ConcatAssociative

\* d, or nothing.
LEMMA Conditional ==
    ASSUME NEW c, NEW d \in Delta
    PROVE  When(c, d) \in Seq(Delta) /\ When(c, d) = IF c THEN <<d>> ELSE <<>>
  BY OneDelta DEF When

LEMMA MaybeText ==
    \A c \in BOOLEAN :
        /\ When(c, Text) \in Seq(Delta)
        /\ Texts(When(c, Text))
        /\ c => When(c, Text) # <<>>
        /\ ~c => When(c, Text) = <<>>
  <1> SUFFICES ASSUME NEW c \in BOOLEAN
               PROVE  /\ When(c, Text) \in Seq(Delta)
                      /\ Texts(When(c, Text))
                      /\ c => When(c, Text) # <<>>
                      /\ ~c => When(c, Text) = <<>>
    OBVIOUS
  <1>1. Text \in Delta /\ Text.text = TRUE /\ Text.finish = ""
    BY DEF Text, Delta
  <1>2. DOMAIN <<Text>> = {1} /\ <<Text>>[1] = Text /\ DOMAIN (<<>>) = {} /\ <<Text>> # <<>>
    OBVIOUS
  <1>3. CASE c
    BY <1>1, <1>2, <1>3, OneDelta DEF When, Texts
  <1>4. CASE ~c
    <2>1. When(c, Text) = <<>>
      BY <1>4 DEF When
    <2>2. <<>> \in Seq(Delta) /\ Texts(<<>>)
      BY <1>2 DEF Texts
    <2> QED
      BY <1>4, <2>1, <2>2, Zenon
  <1> QED
    BY <1>3, <1>4

\* A final delta lists calls.
LEMMA FinalTyped ==
    ASSUME NEW collected \in SUBSET ToolCall, NEW listed \in SetToSeqs(collected),
           NEW reason \in Reason \cup {""}
    PROVE  Final(reason, listed) \in Delta
  <1>1. listed \in Seq(ToolCall)
    BY ListedCalls
  <1> QED
    BY <1>1 DEF Final, Delta

LEMMA FrameCount ==
    ASSUME NEW n \in 0 .. MaxFrames, n < MaxFrames
    PROVE  n + 1 \in 0 .. MaxFrames
  OBVIOUS

LEMMA OneEnds ==
    ASSUME NEW d
    PROVE  Ends(<<d>>) /\ Ends(<<>>)
  <1>1. DOMAIN <<d>> = {1} /\ Len(<<d>>) = 1 /\ DOMAIN (<<>>) = {} /\ ~(1 < 1)
    OBVIOUS
  <1> QED
    BY <1>1 DEF Ends

\* Text before a final delta.
LEMMA TextsThenFinal ==
    ASSUME NEW a \in Seq(Delta), NEW d \in Delta, Texts(a)
    PROVE  a \o <<d>> \in Seq(Delta) /\ Ends(a \o <<d>>)
  <1>1. /\ <<d>> \in Seq(Delta) /\ Len(<<d>>) = 1 /\ DOMAIN <<d>> = {1}
        /\ Len(a) \in Nat /\ DOMAIN a = 1 .. Len(a)
    BY LenProperties
  <1>2. /\ a \o <<d>> \in Seq(Delta)
        /\ \A k \in DOMAIN (a \o <<d>>) :
              \/ k \in DOMAIN a /\ (a \o <<d>>)[k] = a[k]
              \/ \E j \in DOMAIN <<d>> : k = Len(a) + j /\ (a \o <<d>>)[k] = <<d>>[j]
    BY <1>1, Extended
  <1>3. Len(a \o <<d>>) = Len(a) + 1
    BY <1>1, ConcatProperties
  <1> DEFINE b == a \o <<d>>
  <1> HIDE DEF b
  <1>4. ASSUME NEW k \in DOMAIN b, k < Len(b)
        PROVE  b[k].finish = ""
    <2>1. (k \in DOMAIN a /\ b[k] = a[k]) \/ k = Len(a) + 1
      BY <1>1, <1>2 DEF b
    <2>2. k # Len(a) + 1
      BY <1>1, <1>3, <1>4 DEF b
    <2> QED
      BY <2>1, <2>2 DEF Texts
  <1> QED
    BY <1>2, <1>4 DEF b, Ends

LEMMA BreaksOffEffect ==
    ASSUME StreamTypeOK, NEW who, Reading(who), BreaksOff
    PROVE  /\ provider = who /\ result = "reading" /\ RestTyped'
           /\ UNCHANGED provider
           /\ \E ds \in Seq(Delta) : deltas' = deltas \o ds /\ Effect(ds)
  <1>1. /\ provider = who /\ result = "reading" /\ RestTyped' /\ UNCHANGED provider
        /\ deltas' = deltas \o When(delivered, Broken)
        /\ result' = IF delivered THEN "ok" ELSE "transient"
    BY DEF BreaksOff, Reading, Return, StreamTypeOK, RestTyped
  <1> DEFINE ds == When(delivered, Broken)
  <1>2. Broken \in Delta
    BY DEF Broken, Final, Delta, Reason
  <1>3. ds \in Seq(Delta) /\ ds = IF delivered THEN <<Broken>> ELSE <<>>
    BY <1>2, Conditional
  <1> HIDE DEF ds
  <1>4. Effect(ds)
    BY <1>1, <1>3, OneEnds DEF Effect
  <1> QED
    BY <1>1, <1>3, <1>4 DEF ds

LEMMA OpenAIChunkEffect ==
    ASSUME StreamTypeOK, NEW text \in BOOLEAN, NEW new \in SUBSET ToolCall, NEW reason \in Reason \cup {""},
           OpenAIChunk(text, new, reason)
    PROVE  /\ provider = "openai" /\ result = "reading" /\ RestTyped'
           /\ UNCHANGED provider
           /\ \E ds \in Seq(Delta) : deltas' = deltas \o ds /\ Effect(ds)
  <1>1. /\ provider = "openai" /\ result = "reading" /\ UNCHANGED <<provider, cut, finish>>
        /\ frames < MaxFrames /\ frames' = frames + 1
        /\ calls' = calls \cup new /\ streamed' = streamed \cup new
        /\ result' = IF reason = "" THEN "reading" ELSE "ok"
    BY DEF OpenAIChunk, Reads, Reading
  <1>2. delivered' = (delivered \/ text)
    BY DEF OpenAIChunk
  <1>3. RestTyped'
    <2>1. delivered' \in BOOLEAN
      BY <1>2, Zenon
    <2>2. frames' \in 0 .. MaxFrames
      BY <1>1, FrameCount DEF StreamTypeOK
    <2> QED
      BY <1>1, <2>1, <2>2 DEF StreamTypeOK, RestTyped
  <1>4. PICK listed \in SetToSeqs(calls') :
            deltas' = deltas \o When(text, Text) \o When(reason # "", Final(reason, listed))
    BY DEF OpenAIChunk
  <1> DEFINE a == When(text, Text)
             d == Final(reason, listed)
  <1>5. a \in Seq(Delta) /\ Texts(a) /\ (a # <<>> <=> text)
    BY MaybeText, Zenon
  <1>6. d \in Delta /\ deltas \in Seq(Delta)
    BY <1>1, FinalTyped DEF StreamTypeOK
  <1>7. deltas' = deltas \o a \o (IF reason # "" THEN <<d>> ELSE <<>>)
    BY <1>4 DEF When
  <1> HIDE DEF a, d
  <1>8. CASE reason = ""
    <2>1. deltas' = (deltas \o a) \o <<>>
      BY <1>7, <1>8
    <2>2. deltas \o a \in Seq(Delta)
      BY <1>5, <1>6, ConcatProperties
    <2>3. deltas' = deltas \o a
      BY <2>1, <2>2, NoDelta
    <2>4. Effect(a)
      BY <1>1, <1>2, <1>5, <1>8 DEF Effect
    <2> QED
      BY <1>1, <1>3, <1>5, <2>3, <2>4
  <1>9. CASE reason # ""
    <2>1. deltas' = (deltas \o a) \o <<d>>
      BY <1>7, <1>9
    <2>2. deltas' = deltas \o (a \o <<d>>)
      BY <1>5, <1>6, <2>1, Regroup
    <2>3. a \o <<d>> \in Seq(Delta) /\ Ends(a \o <<d>>)
      BY <1>5, <1>6, TextsThenFinal
    <2>4. Effect(a \o <<d>>)
      BY <1>1, <1>9, <2>3 DEF Effect
    <2> QED
      BY <1>1, <1>3, <2>2, <2>3, <2>4
  <1> QED
    BY <1>8, <1>9

LEMMA OpenAIEffect ==
    ASSUME StreamTypeOK, OpenAINext
    PROVE  /\ provider = "openai" /\ result = "reading" /\ RestTyped'
           /\ UNCHANGED provider
           /\ \E ds \in Seq(Delta) : deltas' = deltas \o ds /\ Effect(ds)
  <1>1. deltas \in Seq(Delta) /\ calls \in SUBSET ToolCall
    BY DEF StreamTypeOK
  <1>2. CASE OpenAIDone
    <2>1. /\ provider = "openai" /\ result = "reading" /\ RestTyped'
          /\ UNCHANGED <<provider, cut>> /\ result' = "ok"
      BY <1>2 DEF OpenAIDone, Reading, Return, StreamTypeOK, RestTyped
    <2>2. PICK listed \in SetToSeqs(calls) :
              deltas' = deltas \o When(calls # {}, Final("stop", listed))
      BY <1>2 DEF OpenAIDone
    <2>3. Final("stop", listed) \in Delta
      BY <1>1, FinalTyped DEF Reason
    <2> DEFINE ds == When(calls # {}, Final("stop", listed))
    <2>4. ds \in Seq(Delta) /\ ds = IF calls # {} THEN <<Final("stop", listed)>> ELSE <<>>
      BY <2>3, Conditional
    <2>5. Ends(ds)
      BY <2>4, OneEnds
    <2> HIDE DEF ds
    <2>6. Effect(ds)
      BY <2>1, <2>5 DEF Effect
    <2> QED
      BY <2>1, <2>2, <2>4, <2>6 DEF ds
  <1>3. CASE OpenAIBreaksOff
    BY <1>3, BreaksOffEffect DEF OpenAIBreaksOff
  <1>4. CASE OpenAIEnd
    <2>1. /\ provider = "openai" /\ result = "reading" /\ RestTyped' /\ UNCHANGED <<provider, cut>>
      BY <1>4 DEF OpenAIEnd, Reading, Return, StreamTypeOK, RestTyped
    <2>2. CASE ~delivered /\ calls = {}
      <3>1. UNCHANGED deltas /\ result' = "transient"
        BY <1>4, <2>2 DEF OpenAIEnd, Return
      <3>2. deltas' = deltas \o <<>> /\ <<>> \in Seq(Delta)
        BY <1>1, <3>1, NoDelta
      <3>3. Effect(<<>>)
        BY <2>2, <3>1 DEF Effect
      <3> QED
        BY <2>1, <3>2, <3>3
    <2>3. CASE ~(~delivered /\ calls = {})
      <3>1. result' = "ok"
        BY <1>4, <2>3 DEF OpenAIEnd, Return
      <3>2. PICK listed \in SetToSeqs(calls) : deltas' = Append(deltas, Final("stop", listed))
        BY <1>4, <2>3 DEF OpenAIEnd
      <3>3. Final("stop", listed) \in Delta
        BY <1>1, FinalTyped DEF Reason
      <3>4. deltas' = deltas \o <<Final("stop", listed)>> /\ <<Final("stop", listed)>> \in Seq(Delta)
        BY <1>1, <3>2, <3>3, OneDelta, AppendIsConcat
      <3>5. Effect(<<Final("stop", listed)>>)
        BY <2>1, <3>1, OneEnds DEF Effect
      <3> QED
        BY <2>1, <3>4, <3>5
    <2> QED
      BY <2>2, <2>3
  <1> QED
    BY <1>2, <1>3, <1>4, OpenAIChunkEffect DEF OpenAINext

LEMMA GeminiEffect ==
    ASSUME StreamTypeOK, GeminiNext
    PROVE  /\ provider = "gemini" /\ result = "reading" /\ RestTyped'
           /\ UNCHANGED provider
           /\ \E ds \in Seq(Delta) : deltas' = deltas \o ds /\ Effect(ds)
  <1>1. deltas \in Seq(Delta) /\ calls \in SUBSET ToolCall /\ finish \in Reason \cup {""}
    BY DEF StreamTypeOK
  <1>2. ASSUME NEW text \in BOOLEAN, NEW new \in {{}} \cup {{c} : c \in ToolCall}, NEW reason \in {"", "stop"},
               GeminiChunk(text, new, reason)
        PROVE  /\ provider = "gemini" /\ result = "reading" /\ RestTyped'
               /\ UNCHANGED provider
               /\ \E ds \in Seq(Delta) : deltas' = deltas \o ds /\ Effect(ds)
    <2>1. /\ provider = "gemini" /\ result = "reading" /\ UNCHANGED <<provider, cut, result>>
          /\ frames < MaxFrames /\ frames' = frames + 1
          /\ calls' = (IF new = {} THEN calls ELSE new) /\ streamed' = streamed \cup new
          /\ finish' = (IF reason = "" THEN finish ELSE reason)
          /\ deltas' = deltas \o When(text, Text)
      BY <1>2 DEF GeminiChunk, Reads, Reading
    <2>2. delivered' = (delivered \/ text)
      BY <1>2 DEF GeminiChunk
    <2>3. RestTyped'
      <3>1. delivered' \in BOOLEAN
        BY <2>2, Zenon
      <3>2. frames' \in 0 .. MaxFrames
        BY <2>1, FrameCount DEF StreamTypeOK
      <3>3. new \subseteq ToolCall /\ reason \in Reason \cup {""}
        BY DEF Reason
      <3> QED
        BY <2>1, <3>1, <3>2, <3>3 DEF StreamTypeOK, RestTyped
    <2> DEFINE a == When(text, Text)
    <2>4. a \in Seq(Delta) /\ Texts(a) /\ (a # <<>> <=> text)
      BY MaybeText, Zenon
    <2> HIDE DEF a
    <2>5. Effect(a)
      BY <2>1, <2>2, <2>4 DEF Effect
    <2> QED
      BY <2>1, <2>3, <2>4, <2>5 DEF a
  <1>3. CASE GeminiBreaksOff
    BY <1>3, BreaksOffEffect DEF GeminiBreaksOff
  <1>4. CASE GeminiEnd
    <2>1. /\ provider = "gemini" /\ result = "reading" /\ RestTyped'
          /\ UNCHANGED <<provider, cut>> /\ result' = "ok"
      BY <1>4 DEF GeminiEnd, Reading, Return, StreamTypeOK, RestTyped
    <2>2. PICK listed \in SetToSeqs(calls) :
              deltas' = Append(deltas, Final(IF calls = {} THEN finish ELSE "tool_calls", listed))
      BY <1>4 DEF GeminiEnd
    <2> DEFINE d == Final(IF calls = {} THEN finish ELSE "tool_calls", listed)
    <2>3. d \in Delta
      BY <1>1, FinalTyped DEF Reason
    <2> HIDE DEF d
    <2>4. deltas' = deltas \o <<d>> /\ <<d>> \in Seq(Delta)
      BY <1>1, <2>2, <2>3, OneDelta, AppendIsConcat DEF d
    <2>5. Effect(<<d>>)
      BY <2>1, OneEnds DEF Effect
    <2> QED
      BY <2>1, <2>4, <2>5
  <1> QED
    BY <1>2, <1>3, <1>4 DEF GeminiNext

\* The Anthropic consumer emits what it likes, and knows nothing of `cut'.
LEMMA AnthropicEffect ==
    ASSUME StreamTypeOK, AnthropicNext
    PROVE  /\ provider = "anthropic" /\ result = "reading" /\ RestTyped'
           /\ UNCHANGED provider
           /\ \E ds \in Seq(Delta) : deltas' = deltas \o ds
           /\ result' \in {"reading", "ok", "transient"}
           /\ result' = "reading" => UNCHANGED cut
  <1>1. deltas \in Seq(Delta) /\ calls \in SUBSET ToolCall /\ finish \in Reason \cup {""}
    BY DEF StreamTypeOK
  <1>2. deltas = deltas \o <<>> /\ <<>> \in Seq(Delta)
    BY <1>1, NoDelta
  <1>3. ASSUME NEW c \in ToolCall, AnthropicToolBlock(c)
        PROVE  RestTyped' /\ UNCHANGED <<provider, cut, result, deltas>>
               /\ provider = "anthropic" /\ result = "reading"
    BY <1>3, FrameCount DEF AnthropicToolBlock, Reads, Reading, StreamTypeOK, RestTyped
  <1>4. ASSUME NEW text \in BOOLEAN, AnthropicText(text)
        PROVE  /\ RestTyped' /\ UNCHANGED <<provider, cut, result>>
               /\ provider = "anthropic" /\ result = "reading"
               /\ \E ds \in Seq(Delta) : deltas' = deltas \o ds
    <2>1. /\ RestTyped' /\ UNCHANGED <<provider, cut, result>>
          /\ provider = "anthropic" /\ result = "reading"
          /\ deltas' = Append(deltas, IF text THEN Text ELSE Final("", <<>>))
      BY <1>4, FrameCount DEF AnthropicText, Reads, Reading, StreamTypeOK, RestTyped
    <2> DEFINE d == IF text THEN Text ELSE Final("", <<>>)
    <2>2. d \in Delta
      BY DEF Text, Final, Delta
    <2> HIDE DEF d
    <2>3. deltas' = deltas \o <<d>> /\ <<d>> \in Seq(Delta)
      BY <1>1, <2>1, <2>2, OneDelta, AppendIsConcat DEF d
    <2> QED
      BY <2>1, <2>3
  <1>5. ASSUME NEW reason \in {"", "stop", "tool_calls"}, AnthropicMessageDelta(reason)
        PROVE  RestTyped' /\ UNCHANGED <<provider, cut, result, deltas>>
               /\ provider = "anthropic" /\ result = "reading"
    BY <1>5, FrameCount
       DEF AnthropicMessageDelta, Reads, Reading, StreamTypeOK, RestTyped, Reason
  <1>6. CASE AnthropicMessageStop
    <2>1. /\ RestTyped' /\ UNCHANGED <<provider, cut, result>>
          /\ provider = "anthropic" /\ result = "reading"
      BY <1>6, FrameCount DEF AnthropicMessageStop, Reads, Reading, StreamTypeOK, RestTyped
    <2>2. PICK listed \in SetToSeqs(calls) :
              deltas' = Append(deltas, Final(IF calls = {} THEN finish ELSE "tool_calls", listed))
      BY <1>6 DEF AnthropicMessageStop
    <2> DEFINE d == Final(IF calls = {} THEN finish ELSE "tool_calls", listed)
    <2>3. d \in Delta
      BY <1>1, FinalTyped DEF Reason
    <2> HIDE DEF d
    <2>4. deltas' = deltas \o <<d>> /\ <<d>> \in Seq(Delta)
      BY <1>1, <2>2, <2>3, OneDelta, AppendIsConcat DEF d
    <2> QED
      BY <2>1, <2>4
  <1>7. CASE AnthropicError
    <2>1. /\ RestTyped' /\ UNCHANGED <<provider, cut>>
          /\ provider = "anthropic" /\ result = "reading"
          /\ deltas' = deltas \o When(delivered, Broken)
          /\ result' = IF delivered THEN "reading" ELSE "transient"
      BY <1>7, FrameCount DEF AnthropicError, Reads, Reading, StreamTypeOK, RestTyped
    <2>2. Broken \in Delta
      BY DEF Broken, Final, Delta, Reason
    <2>3. When(delivered, Broken) \in Seq(Delta)
      BY <2>2, Conditional
    <2> QED
      BY <2>1, <2>3
  <1>8. CASE AnthropicReadFails \/ AnthropicEnd
    <2>1. /\ RestTyped' /\ UNCHANGED <<provider, deltas>>
          /\ provider = "anthropic" /\ result = "reading"
          /\ result' \in {"ok", "transient"}
      BY <1>8 DEF AnthropicReadFails, AnthropicEnd, Reading, Return, StreamTypeOK, RestTyped
    <2> QED
      BY <1>2, <2>1
  <1> QED
    BY <1>2, <1>3, <1>4, <1>5, <1>6, <1>7, <1>8 DEF AnthropicNext

-----------------------------------------------------------------------------
\* What was emitted tells what was delivered, while the stream goes on, and only
\* the last delta is final.
Faithful ==
    provider # "anthropic" =>
        /\ result \in {"unsent", "reading"} => Texts(deltas) /\ (delivered <=> deltas # <<>>)
        /\ Ends(deltas)

StreamInv ==
    /\ StreamTypeOK
    /\ result = "unsent" => deltas = <<>> /\ ~delivered
    /\ cut => result \in {"ok", "transient"}
    /\ Faithful
    /\ FailsExactlyBeforeContent

LEMMA InitStreamInv == StreamInit => StreamInv
  <1> SUFFICES ASSUME StreamInit PROVE StreamInv
    OBVIOUS
  <1>1. <<>> \in Seq(Delta) /\ DOMAIN (<<>>) = {}
    BY EmptySeq
  <1>2. deltas = <<>>
    BY Zenon DEF StreamInit
  <1>3. StreamTypeOK
    <2>1. delivered \in BOOLEAN /\ cut \in BOOLEAN /\ deltas \in Seq(Delta)
      BY <1>2, <1>1, Zenon DEF StreamInit
    <2>2. /\ provider \in {"openai", "anthropic", "gemini"}
          /\ frames = 0 /\ calls = {} /\ streamed = {} /\ finish = "" /\ result = "unsent"
      BY Zenon DEF StreamInit
    <2>3. 0 \in 0 .. MaxFrames
      OBVIOUS
    <2> QED
      BY <2>1, <2>2, <2>3, Zenon DEF StreamTypeOK
  <1>4. Texts(<<>>) /\ Ends(<<>>)
    BY <1>1 DEF Texts, Ends
  <1> QED
    BY <1>1, <1>2, <1>3, <1>4
       DEF StreamInit, StreamInv, Faithful, FailsExactlyBeforeContent, TextDelivered, Failure

LEMMA SendKeeps == StreamInv /\ Send => StreamInv'
  <1> SUFFICES ASSUME StreamInv, Send PROVE StreamInv'
    OBVIOUS
  <1>1. /\ result = "unsent" /\ result' \in {"reading"} \cup Failure
        /\ UNCHANGED <<provider, frames, delivered, calls, finish, deltas, streamed, cut>>
        /\ deltas = <<>> /\ ~delivered /\ ~cut
    BY DEF Send, StreamInv, StreamTypeOK
  <1>2. StreamTypeOK'
    BY <1>1 DEF StreamInv, StreamTypeOK
  <1>3. result' # "unsent"
    BY <1>1 DEF Failure
  <1>4. Faithful'
    BY <1>1 DEF StreamInv, Faithful, Texts, Ends
  <1>5. FailsExactlyBeforeContent'
    BY <1>1 DEF FailsExactlyBeforeContent
  <1> QED
    BY <1>1, <1>2, <1>3, <1>4, <1>5 DEF StreamInv

\* A stream in which only text was emitted and that is extended.
LEMMA TextsThenMore ==
    ASSUME NEW s \in Seq(Delta), NEW t \in Seq(Delta), Texts(s)
    PROVE  /\ Texts(t) => Texts(s \o t)
           /\ Ends(t) => Ends(s \o t)
  <1>1. /\ Len(s) \in Nat /\ Len(t) \in Nat
        /\ DOMAIN s = 1 .. Len(s) /\ DOMAIN t = 1 .. Len(t)
        /\ Len(s \o t) = Len(s) + Len(t)
    BY LenProperties, ConcatProperties
  <1>2. \A k \in DOMAIN (s \o t) :
           \/ k \in DOMAIN s /\ (s \o t)[k] = s[k]
           \/ \E j \in DOMAIN t : k = Len(s) + j /\ (s \o t)[k] = t[j]
    BY Extended
  <1> DEFINE u == s \o t
  <1> HIDE DEF u
  <1>3. Texts(t) => Texts(u)
    BY <1>2 DEF Texts, u
  <1>4. ASSUME Ends(t), NEW k \in DOMAIN u, k < Len(u)
        PROVE  u[k].finish = ""
    <2>1. CASE k \in DOMAIN s /\ u[k] = s[k]
      BY <2>1 DEF Texts
    <2>2. ASSUME NEW j \in DOMAIN t, k = Len(s) + j, u[k] = t[j]
          PROVE  u[k].finish = ""
      <3>1. j < Len(t)
        BY <1>1, <1>4, <2>2 DEF u
      <3> QED
        BY <1>4, <2>2, <3>1 DEF Ends
    <2> QED
      BY <1>2, <2>1, <2>2 DEF u
  <1> QED
    BY <1>3, <1>4 DEF u, Ends

LEMMA ReaderKeeps ==
    ASSUME StreamInv, OpenAINext \/ GeminiNext
    PROVE  StreamInv'
  <1>1. /\ provider \in {"openai", "gemini"} /\ result = "reading" /\ RestTyped'
        /\ UNCHANGED provider /\ StreamTypeOK
        /\ \E ds \in Seq(Delta) : deltas' = deltas \o ds /\ Effect(ds)
    BY OpenAIEffect, GeminiEffect DEF StreamInv
  <1>2. PICK ds \in Seq(Delta) : deltas' = deltas \o ds /\ Effect(ds)
    BY <1>1
  <1>3. /\ deltas \in Seq(Delta) /\ delivered \in BOOLEAN /\ cut = FALSE
        /\ Texts(deltas) /\ (delivered <=> deltas # <<>>)
    BY <1>1 DEF StreamInv, StreamTypeOK, Faithful
  <1>4. deltas' \in Seq(Delta) /\ result' \in {"reading", "transient", "ok"}
    BY <1>2, <1>3, ConcatProperties DEF Effect
  <1>5. StreamTypeOK'
    BY <1>1, <1>4 DEF StreamTypeOK, RestTyped, Failure
  <1>6. CASE result' = "reading"
    <2>1. UNCHANGED cut /\ Texts(ds) /\ (delivered' <=> delivered \/ ds # <<>>)
      BY <1>2, <1>6 DEF Effect
    <2>2. Texts(deltas') /\ Ends(deltas')
      BY <1>2, <1>3, <2>1, TextsThenMore DEF Texts, Ends
    <2>3. deltas' # <<>> <=> deltas # <<>> \/ ds # <<>>
      BY <1>2, <1>3, ConcatEqualIffEmpty, NoDelta, ConcatProperties, LenProperties
    <2> QED
      BY <1>1, <1>3, <1>5, <1>6, <2>1, <2>2, <2>3
         DEF StreamInv, Faithful, FailsExactlyBeforeContent, Failure
  <1>7. CASE result' = "transient"
    <2>1. ds = <<>> /\ ~delivered
      BY <1>2, <1>7 DEF Effect
    <2>2. deltas' = <<>> /\ DOMAIN (<<>>) = {}
      BY <1>2, <1>3, <2>1, NoDelta
    <2> QED
      BY <1>1, <1>5, <1>7, <2>2
         DEF StreamInv, Faithful, FailsExactlyBeforeContent, TextDelivered, Ends
  <1>8. CASE result' = "ok"
    <2>1. Ends(ds) /\ (cut' # cut => delivered /\ ds = <<Broken>>)
      BY <1>2, <1>8 DEF Effect
    <2>2. Ends(deltas')
      BY <1>2, <1>3, <2>1, TextsThenMore
    <2>3. ASSUME cut'
          PROVE  TextDelivered' /\ EndedInError'
      <3>1. deltas # <<>> /\ ds = <<Broken>> /\ Broken.finish = "error"
        BY <1>3, <2>1, <2>3 DEF Broken, Final
      <3>2. 1 \in DOMAIN deltas /\ 1 \in DOMAIN ds /\ ds[1] = Broken
        BY <1>3, <3>1, LenProperties
      <3>3. \A k \in DOMAIN deltas : k \in DOMAIN deltas' /\ deltas'[k] = deltas[k]
        BY <1>2, <1>3, Extended
      <3>4. 1 \in DOMAIN deltas' /\ deltas'[1] = deltas[1] /\ deltas[1].text = TRUE
        BY <1>3, <3>2, <3>3 DEF Texts
      <3>5. Len(deltas) + 1 \in DOMAIN deltas' /\ deltas'[Len(deltas) + 1] = Broken
        BY <1>2, <1>3, <3>2, Extended
      <3> QED
        BY <3>1, <3>4, <3>5 DEF TextDelivered, EndedInError, Finals
    <2> QED
      BY <1>1, <1>5, <1>8, <2>2, <2>3
         DEF StreamInv, Faithful, FailsExactlyBeforeContent, Failure
  <1> QED
    BY <1>4, <1>6, <1>7, <1>8

LEMMA AnthropicKeeps ==
    ASSUME StreamInv, AnthropicNext
    PROVE  StreamInv'
  <1>1. /\ provider = "anthropic" /\ result = "reading" /\ RestTyped' /\ UNCHANGED provider
        /\ \E ds \in Seq(Delta) : deltas' = deltas \o ds
        /\ result' \in {"reading", "ok", "transient"}
        /\ result' = "reading" => UNCHANGED cut
    BY AnthropicEffect DEF StreamInv
  <1>2. deltas' \in Seq(Delta)
    BY <1>1, ConcatProperties DEF StreamInv, StreamTypeOK
  <1>3. StreamTypeOK'
    BY <1>1, <1>2 DEF StreamTypeOK, RestTyped, Failure
  <1> QED
    BY <1>1, <1>3 DEF StreamInv, Faithful, FailsExactlyBeforeContent

LEMMA ServingKeeps ==
    ASSUME StreamInv, UNCHANGED streamVars
    PROVE  StreamInv'
  BY DEF StreamInv, StreamTypeOK, Faithful, FailsExactlyBeforeContent, TextDelivered,
         EndedInError, Finals, streamVars, readerVars

LEMMA StreamStep == StreamInv /\ [Next]_vars => StreamInv'
  BY SendKeeps, ReaderKeeps, AnthropicKeeps, ServingKeeps
     DEF Next, Consume, GiveUp, ServeToolBurst, Replay, ReplayEnds, vars

LEMMA StreamInvariance == Spec => []StreamInv
  <1>1. Init => StreamInv
    BY InitStreamInv DEF Init
  <1> QED
    BY <1>1, StreamStep, PTL DEF Spec

\* Bodies of any length, cut or malformed anywhere, with any chunks of text and of
\* tool calls before: the OpenAI and the Gemini adapter fail a stream exactly if
\* nothing of it was emitted, so that failing over repeats nothing and hides
\* nothing (chat/port.go:18-22).
THEOREM FailureMeansNothingDelivered == Spec => []FailsExactlyBeforeContent
  BY StreamInvariance, PTL DEF StreamInv

-----------------------------------------------------------------------------
\* The frames an OpenAI client may be sent.
Frames ==
    [event : {"chunk"}, role : BOOLEAN, text : BOOLEAN, finish : Reason \cup {""}, calls : Nat]
        \cup [event : {"error", "done"}]

IsChunk(f) == f.event = "chunk"

\* One message: the role first, the finish reason last, then [DONE].
OneMessage(sent) ==
    /\ \A k \in DOMAIN sent : IsChunk(sent[k]) => (sent[k].role <=> k = 1)
    /\ provider # "anthropic" =>
          \A k, l \in DOMAIN sent : IsChunk(sent[k]) /\ IsChunk(sent[l]) /\ k < l => sent[k].finish = ""
    /\ \A k \in DOMAIN sent : sent[k].event = "done" => k = Len(sent)

Ended(sent) == \E k \in DOMAIN sent : sent[k].event = "done"

\* The first deltas, chunk by chunk.
Copies(sent) ==
    \A k \in DOMAIN sent :
        /\ IsChunk(sent[k]) /\ (sent[k].role <=> k = 1)
        /\ sent[k].finish = deltas[k].finish

\* The chunks written so far are those of the deltas replayed, or of the first of
\* them if the client is gone.
Replaying ==
    /\ Len(events) <= replayed /\ Copies(events)
    /\ gone = FALSE => Len(events) = replayed /\ (first <=> replayed = 0)

Serving ==
    /\ replayed \in 0 .. Len(deltas)
    /\ result \in {"unsent", "reading"} => served = "no" /\ replayed = 0
    /\ client = "openai" =>
          /\ gone \in BOOLEAN /\ first \in BOOLEAN
          /\ served = "no" /\ replayed = 0 => events = <<>> /\ gone = FALSE /\ first = TRUE
          /\ events \in Seq(Frames) /\ OneMessage(events)
          /\ served = "no" => Replaying
          /\ served # "no" /\ gone = FALSE => Ended(events)

LEMMA ServingShowsIt == Serving => ChunksAreOneMessage
  <1> SUFFICES ASSUME Serving, client = "openai" PROVE ChunksAreOneMessage
    BY DEF ChunksAreOneMessage
  <1>1. OneMessage(events) /\ (served # "no" /\ gone = FALSE => Ended(events)) /\ gone \in BOOLEAN
    BY DEF Serving
  <1>2. \A k \in Chunks : events[k].role <=> k = 1
    BY <1>1 DEF OneMessage, IsChunk, Chunks
  <1>3. \A k, l \in Chunks : provider # "anthropic" /\ k < l => events[k].finish = ""
    BY <1>1 DEF OneMessage, IsChunk, Chunks
  <1>4. \A k \in DOMAIN events : events[k].event = "done" => k = Len(events)
    BY <1>1 DEF OneMessage
  <1>5. served # "no" /\ ~gone => \E k \in DOMAIN events : events[k].event = "done"
    BY <1>1 DEF Ended
  <1> QED
    BY <1>2, <1>3, <1>4, <1>5 DEF ChunksAreOneMessage

\* What is written of new is a beginning of it, and all if the client stays.
LEMMA Beginning ==
    ASSUME NEW new \in Seq(Frames), Written(new), gone = FALSE
    PROVE  \E pre \in Seq(Frames) :
              /\ events' = events \o pre /\ gone' \in BOOLEAN
              /\ Len(pre) <= Len(new) /\ \A k \in DOMAIN pre : k \in DOMAIN new /\ pre[k] = new[k]
              /\ gone' = FALSE => pre = new
  <1>1. Len(new) \in Nat /\ DOMAIN new = 1 .. Len(new)
    BY LenProperties
  <1>2. CASE events' = events \o new /\ gone' = FALSE
    <2>1. \A n \in Nat : n <= n
      OBVIOUS
    <2>2. gone' \in BOOLEAN
      BY <1>2, Zenon
    <2> QED
      BY <1>1, <1>2, <2>1, <2>2, Zenon
  <1>3. ASSUME NEW n \in 0 .. Len(new) - 1, gone' = TRUE, events' = events \o SubSeq(new, 1, n)
        PROVE  \E pre \in Seq(Frames) :
                  /\ events' = events \o pre /\ gone' \in BOOLEAN
                  /\ Len(pre) <= Len(new)
                  /\ \A k \in DOMAIN pre : k \in DOMAIN new /\ pre[k] = new[k]
                  /\ gone' = FALSE => pre = new
    <2> DEFINE pre == SubSeq(new, 1, n)
    <2>1. \A k \in 1 .. n : new[k] \in Frames
      BY <1>1, ElementOfSeq
    <2>2. pre \in Seq(Frames) /\ Len(pre) = n /\ \A k \in 1 .. n : pre[k] = new[k]
      BY <1>1, <2>1, SubSeqProperties
    <2>3. DOMAIN pre = 1 .. n
      BY <2>2, LenProperties
    <2> HIDE DEF pre
    <2>4. Len(pre) <= Len(new) /\ \A k \in DOMAIN pre : k \in DOMAIN new /\ pre[k] = new[k]
      BY <1>1, <2>2, <2>3
    <2> QED
      BY <1>3, <2>2, <2>4 DEF pre
  <1> QED
    BY <1>2, <1>3 DEF Written

LEMMA BeginningOfOne ==
    ASSUME NEW c \in Frames, Written(<<c>>), gone = FALSE
    PROVE  \E pre \in Seq(Frames) :
              /\ events' = events \o pre /\ gone' \in BOOLEAN
              /\ Len(pre) \in {0, 1} /\ \A k \in DOMAIN pre : pre[k] = c
              /\ gone' = FALSE => pre = <<c>> /\ Len(pre) = 1
  <1> DEFINE new == <<c>>
  <1>1. new \in Seq(Frames) /\ Len(new) = 1 /\ DOMAIN new = {1} /\ new[1] = c /\ Written(new)
    OBVIOUS
  <1> HIDE DEF new
  <1>2. PICK pre \in Seq(Frames) :
            /\ events' = events \o pre /\ gone' \in BOOLEAN
            /\ Len(pre) <= Len(new) /\ \A k \in DOMAIN pre : k \in DOMAIN new /\ pre[k] = new[k]
            /\ gone' = FALSE => pre = new
    BY <1>1, Beginning
  <1>3. Len(pre) \in {0, 1}
    <2>1. Len(pre) \in Nat
      BY LenProperties
    <2> QED
      BY <1>1, <1>2, <2>1
  <1>4. \A k \in DOMAIN pre : pre[k] = c
    BY <1>1, <1>2
  <1>5. gone' = FALSE => pre = new /\ Len(pre) = 1
    BY <1>1, <1>2
  <1> QED
    BY <1>2, <1>3, <1>4, <1>5, Zenon DEF new

\* A beginning of a message is one.
LEMMA BeginningOfMessage ==
    ASSUME NEW new \in Seq(Frames), NEW pre \in Seq(Frames), OneMessage(new),
           Len(pre) <= Len(new), \A k \in DOMAIN pre : k \in DOMAIN new /\ pre[k] = new[k]
    PROVE  OneMessage(pre)
  <1>1. /\ Len(new) \in Nat /\ DOMAIN new = 1 .. Len(new)
        /\ Len(pre) \in Nat /\ DOMAIN pre = 1 .. Len(pre)
    BY LenProperties
  <1>2. ASSUME NEW k \in DOMAIN pre, pre[k].event = "done"
        PROVE  k = Len(pre)
    <2>1. k \in DOMAIN new /\ new[k].event = "done"
      BY <1>2
    <2>2. k = Len(new)
      BY <2>1 DEF OneMessage
    <2>3. \A n, p \in Nat : \A i \in 1 .. p : i = n /\ p <= n => i = p
      OBVIOUS
    <2> QED
      BY <1>1, <2>2, <2>3, Zenon
  <1>3. \A k \in DOMAIN pre : IsChunk(pre[k]) => (pre[k].role <=> k = 1)
    BY DEF OneMessage
  <1>4. ASSUME provider # "anthropic", NEW k \in DOMAIN pre, NEW l \in DOMAIN pre,
               IsChunk(pre[k]), IsChunk(pre[l]), k < l
        PROVE  pre[k].finish = ""
    <2>1. k \in DOMAIN new /\ l \in DOMAIN new /\ IsChunk(new[k]) /\ IsChunk(new[l])
          /\ pre[k] = new[k]
      BY <1>4
    <2> QED
      BY <1>4, <2>1 DEF OneMessage
  <1> QED
    BY <1>2, <1>3, <1>4 DEF OneMessage

\* Written at once, by a writer that has written nothing.
LEMMA WholeMessage ==
    ASSUME NEW new \in Seq(Frames), Written(new), OneMessage(new), Ended(new),
           events = <<>>, gone = FALSE, UNCHANGED provider
    PROVE  /\ events' \in Seq(Frames) /\ OneMessage(events)' /\ gone' \in BOOLEAN
           /\ gone' = FALSE => Ended(events)'
  <1>1. PICK pre \in Seq(Frames) :
            /\ events' = events \o pre /\ gone' \in BOOLEAN
            /\ Len(pre) <= Len(new) /\ \A k \in DOMAIN pre : k \in DOMAIN new /\ pre[k] = new[k]
            /\ gone' = FALSE => pre = new
    BY Beginning
  <1>2. events' = pre
    BY <1>1, ConcatEmptySeq
  <1>3. OneMessage(pre)
    BY <1>1, BeginningOfMessage
  <1> QED
    BY <1>1, <1>2, <1>3 DEF OneMessage, Ended

LEMMA ErrorFrames ==
    LET new == <<Frame("error"), Frame("done")>>
    IN  new \in Seq(Frames) /\ OneMessage(new) /\ Ended(new)
  <1> DEFINE new == <<Frame("error"), Frame("done")>>
  <1>1. Frame("error") \in Frames /\ Frame("done") \in Frames
    BY DEF Frame, Frames
  <1>2. /\ new \in Seq(Frames) /\ Len(new) = 2 /\ DOMAIN new = {1, 2}
        /\ new[1] = Frame("error") /\ new[2] = Frame("done")
    BY <1>1
  <1> HIDE DEF new
  <1>3. \A k \in DOMAIN new : ~IsChunk(new[k]) /\ (new[k].event = "done" => k = 2)
    BY <1>2 DEF Frame, IsChunk
  <1>4. new[2].event = "done"
    BY <1>2 DEF Frame
  <1> QED
    BY <1>2, <1>3, <1>4 DEF OneMessage, Ended, new

\* Sequences of one element each, one after the other.
LEMMA TwoElements ==
    ASSUME NEW S, NEW p \in Seq(S), NEW q \in Seq(S), Len(p) = 1, Len(q) = 1
    PROVE  /\ p \o q \in Seq(S) /\ Len(p \o q) = 2 /\ DOMAIN (p \o q) = 1 .. 2
           /\ (p \o q)[1] = p[1] /\ (p \o q)[2] = q[1]
  <1>1. /\ p \o q \in Seq(S) /\ Len(p \o q) = Len(p) + Len(q)
        /\ \A i \in 1 .. Len(p) + Len(q) :
              (p \o q)[i] = IF i <= Len(p) THEN p[i] ELSE q[i - Len(p)]
    BY ConcatProperties
  <1>2. 1 \in 1 .. Len(p) + Len(q) /\ 2 \in 1 .. Len(p) + Len(q)
    OBVIOUS
  <1>3. Len(p \o q) = 2
    BY <1>1
  <1>4. DOMAIN (p \o q) = 1 .. 2
    BY <1>1, <1>3, LenProperties
  <1> QED
    BY <1>1, <1>2, <1>3, <1>4

LEMMA ThreeElements ==
    ASSUME NEW S, NEW p \in Seq(S), NEW q \in Seq(S), NEW r \in Seq(S),
           Len(p) = 1, Len(q) = 1, Len(r) = 1
    PROVE  /\ (p \o q) \o r \in Seq(S) /\ Len((p \o q) \o r) = 3
           /\ DOMAIN ((p \o q) \o r) = 1 .. 3
           /\ ((p \o q) \o r)[1] = p[1]
           /\ ((p \o q) \o r)[2] = q[1]
           /\ ((p \o q) \o r)[3] = r[1]
  <1> DEFINE o == p \o q
  <1>1. o \in Seq(S) /\ Len(o) = 2 /\ o[1] = p[1] /\ o[2] = q[1]
    BY TwoElements
  <1> HIDE DEF o
  <1>2. /\ o \o r \in Seq(S) /\ Len(o \o r) = Len(o) + Len(r)
        /\ \A i \in 1 .. Len(o) + Len(r) :
              (o \o r)[i] = IF i <= Len(o) THEN o[i] ELSE r[i - Len(o)]
    BY <1>1, ConcatProperties
  <1>3. 1 \in 1 .. Len(o) + Len(r) /\ 2 \in 1 .. Len(o) + Len(r) /\ 3 \in 1 .. Len(o) + Len(r)
    BY <1>1
  <1>4. (o \o r)[1] = o[1] /\ (o \o r)[2] = o[2] /\ (o \o r)[3] = r[1] /\ Len(o \o r) = 3
    BY <1>1, <1>2, <1>3
  <1>5. DOMAIN (o \o r) = 1 .. 3
    BY <1>2, <1>4, LenProperties
  <1> QED
    BY <1>1, <1>2, <1>4, <1>5 DEF o

LEMMA OneElement ==
    ASSUME NEW S, NEW a \in S
    PROVE  <<a>> \in Seq(S) /\ Len(<<a>>) = 1 /\ <<a>>[1] = a
  OBVIOUS

LEMMA TwoFrames ==
    ASSUME NEW a \in Frames, NEW b \in Frames, NEW new, new = <<a>> \o <<b>>
    PROVE  /\ new \in Seq(Frames) /\ Len(new) = 2 /\ DOMAIN new = 1 .. 2
           /\ new[1] = a /\ new[2] = b
  <1> DEFINE p == <<a>>
             q == <<b>>
  <1>1. p \in Seq(Frames) /\ Len(p) = 1 /\ p[1] = a
    BY OneElement, Zenon
  <1>2. q \in Seq(Frames) /\ Len(q) = 1 /\ q[1] = b
    BY OneElement, Zenon
  <1>3. new = p \o q
    OBVIOUS
  <1> HIDE DEF p, q
  <1> QED
    BY <1>1, <1>2, <1>3, TwoElements

LEMMA ThreeFrames ==
    ASSUME NEW a \in Frames, NEW b \in Frames, NEW c \in Frames,
           NEW new, new = (<<a>> \o <<b>>) \o <<c>>
    PROVE  /\ new \in Seq(Frames) /\ Len(new) = 3 /\ DOMAIN new = 1 .. 3
           /\ new[1] = a /\ new[2] = b /\ new[3] = c
  <1> DEFINE p == <<a>>
             q == <<b>>
             r == <<c>>
  <1>1. p \in Seq(Frames) /\ Len(p) = 1 /\ p[1] = a
    BY OneElement, Zenon
  <1>2. q \in Seq(Frames) /\ Len(q) = 1 /\ q[1] = b
    BY OneElement, Zenon
  <1>3. r \in Seq(Frames) /\ Len(r) = 1 /\ r[1] = c
    BY OneElement, Zenon
  <1>4. new = (p \o q) \o r
    BY Zenon
  <1> HIDE DEF p, q, r
  <1> QED
    BY <1>1, <1>2, <1>3, <1>4, ThreeElements

LEMMA BurstFrames ==
    ASSUME NEW text \in BOOLEAN, NEW n \in Nat, first = TRUE
    PROVE  LET new == OpenAIBurst(text, n) \o <<Frame("done")>>
           IN  new \in Seq(Frames) /\ OneMessage(new) /\ Ended(new)
  <1> DEFINE c == Frame("done")
             new == OpenAIBurst(text, n) \o <<c>>
  <1>1. c \in Frames /\ c.event = "done"
    BY DEF Frame, Frames
  <1>2. CASE text = TRUE
    <2> DEFINE a == Chunk(TRUE, TRUE, "", 0)
               b == Chunk(FALSE, FALSE, "stop", n)
    <2>1. /\ a \in Frames /\ a.event = "chunk" /\ a.role = TRUE /\ a.finish = ""
          /\ b \in Frames /\ b.event = "chunk" /\ b.role = FALSE
      BY DEF Chunk, Frames, Reason
    <2>2. new = (<<a>> \o <<b>>) \o <<c>>
      BY <1>2 DEF OpenAIBurst, Chunk
    <2> HIDE DEF a, b, c, new
    <2>3. /\ new \in Seq(Frames) /\ Len(new) = 3 /\ DOMAIN new = 1 .. 3
          /\ new[1] = a /\ new[2] = b /\ new[3] = c
      <3>1. a \in Frames /\ b \in Frames /\ c \in Frames
        BY <1>1, <2>1
      <3> QED
        BY <2>2, <3>1, ThreeFrames
    <2>4. \A k \in DOMAIN new : k = 1 \/ k = 2 \/ k = 3
      BY <2>3
    <2>5. \A k \in DOMAIN new : IsChunk(new[k]) => (new[k].role <=> k = 1)
      BY <1>1, <2>1, <2>3, <2>4 DEF IsChunk
    <2>6. ASSUME NEW k \in DOMAIN new, NEW l \in DOMAIN new, IsChunk(new[l]), k < l
          PROVE  new[k].finish = ""
      <3>1. l # 3
        BY <1>1, <2>3, <2>6 DEF IsChunk
      <3>2. k = 1
        BY <2>3, <2>6, <3>1
      <3> QED
        BY <2>1, <2>3, <3>2
    <2>7. \A k \in DOMAIN new : new[k].event = "done" => k = 3
      BY <2>1, <2>3, <2>4
    <2>8. Ended(new)
      BY <1>1, <2>3 DEF Ended
    <2> QED
      BY <2>3, <2>5, <2>6, <2>7, <2>8 DEF OneMessage, new, c
  <1>3. CASE text = FALSE
    <2> DEFINE b == Chunk(TRUE, FALSE, "stop", n)
    <2>1. b \in Frames /\ b.event = "chunk" /\ b.role = TRUE
      BY DEF Chunk, Frames, Reason
    <2>2. OpenAIBurst(text, n) = <<>> \o <<b>>
      BY <1>3 DEF OpenAIBurst, Chunk
    <2>3. OpenAIBurst(text, n) = <<b>>
      <3> HIDE DEF b
      <3>1. <<b>> \in Seq(Frames)
        BY <2>1
      <3> QED
        BY <2>2, <3>1, ConcatEmptySeq
    <2>4. new = <<b>> \o <<c>>
      BY <2>3
    <2> HIDE DEF b, c, new
    <2>5. /\ new \in Seq(Frames) /\ Len(new) = 2 /\ DOMAIN new = 1 .. 2
          /\ new[1] = b /\ new[2] = c
      BY <1>1, <2>1, <2>4, TwoFrames
    <2>6. \A k \in DOMAIN new : k = 1 \/ k = 2
      BY <2>5
    <2>7. \A k \in DOMAIN new : IsChunk(new[k]) => (new[k].role <=> k = 1)
      BY <1>1, <2>1, <2>5, <2>6 DEF IsChunk
    <2>8. ASSUME NEW k \in DOMAIN new, NEW l \in DOMAIN new, IsChunk(new[l]), k < l
          PROVE  FALSE
      <3>1. l # 2
        BY <1>1, <2>5, <2>8 DEF IsChunk
      <3> QED
        BY <2>5, <2>8, <3>1
    <2>9. \A k \in DOMAIN new : new[k].event = "done" => k = 2
      BY <2>1, <2>5, <2>6
    <2>10. Ended(new)
      BY <1>1, <2>5 DEF Ended
    <2> QED
      BY <2>5, <2>7, <2>8, <2>9, <2>10 DEF OneMessage, new, c
  <1> QED
    BY <1>2, <1>3 DEF new, c

\* Deltas of which only the last is final make one message.
LEMMA CopiesAreOneMessage ==
    ASSUME NEW sent \in Seq(Frames), NEW n \in 0 .. Len(deltas), Len(sent) <= n, Copies(sent),
           deltas \in Seq(Delta), provider # "anthropic" => Ends(deltas)
    PROVE  OneMessage(sent)
  <1>1. /\ Len(sent) \in Nat /\ DOMAIN sent = 1 .. Len(sent)
        /\ Len(deltas) \in Nat /\ DOMAIN deltas = 1 .. Len(deltas)
    BY LenProperties
  <1>2. Len(sent) <= Len(deltas)
    BY <1>1
  <1>3. ASSUME NEW k \in DOMAIN sent
        PROVE  (sent[k].role <=> k = 1) /\ sent[k].event # "done"
    BY DEF Copies, IsChunk
  <1>4. ASSUME provider # "anthropic", NEW k \in DOMAIN sent, NEW l \in DOMAIN sent, k < l
        PROVE  sent[k].finish = ""
    <2>1. k \in DOMAIN deltas /\ k < Len(deltas)
      BY <1>1, <1>2, <1>4
    <2>2. deltas[k].finish = ""
      BY <1>4, <2>1 DEF Ends
    <2> QED
      BY <2>2 DEF Copies
  <1> QED
    BY <1>3, <1>4 DEF OneMessage

\* [DONE], or nothing, after chunks.
LEMMA DoneAfterChunks ==
    ASSUME NEW sent \in Seq(Frames), \A k \in DOMAIN sent : IsChunk(sent[k]), OneMessage(sent),
           NEW pre \in Seq(Frames), Len(pre) <= 1, \A k \in DOMAIN pre : pre[k] = Frame("done")
    PROVE  /\ OneMessage(sent \o pre)
           /\ pre = <<Frame("done")>> => Ended(sent \o pre)
  <1> DEFINE u == sent \o pre
  <1>1. /\ Len(sent) \in Nat /\ Len(pre) \in Nat
        /\ DOMAIN sent = 1 .. Len(sent) /\ DOMAIN pre = 1 .. Len(pre)
        /\ Len(u) = Len(sent) + Len(pre)
    BY LenProperties, ConcatProperties
  <1>2. /\ \A k \in DOMAIN u :
              \/ k \in DOMAIN sent /\ u[k] = sent[k]
              \/ \E j \in DOMAIN pre : k = Len(sent) + j /\ u[k] = pre[j]
        /\ \A k \in DOMAIN pre : Len(sent) + k \in DOMAIN u /\ u[Len(sent) + k] = pre[k]
    BY Extended
  <1> HIDE DEF u
  <1>3. Frame("done").event = "done"
    BY DEF Frame
  <1>4. \A k \in DOMAIN u : IsChunk(u[k]) => k \in DOMAIN sent /\ u[k] = sent[k]
    BY <1>2, <1>3 DEF IsChunk
  <1>5. ASSUME NEW k \in DOMAIN u, u[k].event = "done"
        PROVE  k = Len(u)
    <2>1. ~(k \in DOMAIN sent /\ u[k] = sent[k])
      BY <1>5 DEF IsChunk
    <2>2. PICK j \in DOMAIN pre : k = Len(sent) + j
      BY <1>2, <2>1
    <2> QED
      BY <1>1, <2>2
  <1>6. ASSUME pre = <<Frame("done")>>
        PROVE  Ended(u)
    <2>1. 1 \in DOMAIN pre
      BY <1>6
    <2>2. Len(sent) + 1 \in DOMAIN u /\ u[Len(sent) + 1].event = "done"
      BY <1>2, <1>3, <2>1
    <2> QED
      BY <2>2 DEF Ended
  <1>7. \A k \in DOMAIN u : IsChunk(u[k]) => (u[k].role <=> k = 1)
    BY <1>4 DEF OneMessage
  <1>8. ASSUME provider # "anthropic", NEW k \in DOMAIN u, NEW l \in DOMAIN u,
               IsChunk(u[k]), IsChunk(u[l]), k < l
        PROVE  u[k].finish = ""
    <2>1. k \in DOMAIN sent /\ u[k] = sent[k] /\ l \in DOMAIN sent
      BY <1>4, <1>8
    <2> QED
      BY <1>8, <2>1 DEF OneMessage
  <1>9. OneMessage(u)
    BY <1>5, <1>7, <1>8 DEF OneMessage
  <1> QED
    BY <1>6, <1>9 DEF u

-----------------------------------------------------------------------------
LEMMA InitServing == Init => Serving
  <1> SUFFICES ASSUME Init PROVE Serving
    OBVIOUS
  <1>1. /\ events = <<>> /\ gone = FALSE /\ first = TRUE /\ replayed = 0 /\ served = "no"
        /\ deltas = <<>>
    BY Zenon DEF Init, NothingWritten, StreamInit
  <1>2. <<>> \in Seq(Frames) /\ DOMAIN (<<>>) = {} /\ Len(<<>>) = 0
    BY EmptySeq
  <1>3. OneMessage(<<>>) /\ Copies(<<>>)
    BY <1>2 DEF OneMessage, Copies
  <1>4. replayed \in 0 .. Len(deltas) /\ events \in Seq(Frames) /\ Len(events) <= replayed
    BY <1>1, <1>2
  <1>5. OneMessage(events) /\ Copies(events)
    BY <1>1, <1>3, Zenon
  <1>6. Replaying
    BY <1>1, <1>2, <1>4, <1>5 DEF Replaying
  <1> QED
    BY <1>1, <1>4, <1>5, <1>6, Zenon DEF Serving

\* While the stream is read nothing is written.
LEMMA ConsumeKeepsServing ==
    ASSUME StreamInv, StreamInv', Serving, Consume
    PROVE  Serving'
  <1>1. UNCHANGED <<events, gone, first, client, replayed, served>>
    BY Zenon DEF Consume, writerVars, servingVars
  <1>2. result \in {"unsent", "reading"}
    BY OpenAIEffect, AnthropicEffect, GeminiEffect DEF Consume, Send, StreamInv
  <1>3. served = "no" /\ replayed = 0
    BY <1>2 DEF Serving
  <1>4. 0 \in 0 .. Len(deltas')
    <2>1. deltas' \in Seq(Delta)
      BY DEF StreamInv, StreamTypeOK
    <2> QED
      BY <2>1, LenProperties
  <1>5. ASSUME client = "openai"
        PROVE  events = <<>> /\ gone = FALSE /\ first = TRUE
    BY <1>3, <1>5 DEF Serving
  <1>6. <<>> \in Seq(Frames) /\ DOMAIN (<<>>) = {} /\ Len(<<>>) = 0
    BY EmptySeq
  <1>7. events = <<>> => OneMessage(events)' /\ Copies(events)'
    BY <1>1, <1>6 DEF OneMessage, Copies
  <1> QED
    BY <1>1, <1>3, <1>4, <1>5, <1>6, <1>7 DEF Serving, Replaying

\* Served at once: nothing was written before, and what is written is a message.
LEMMA AtOnce ==
    ASSUME Serving, served = "no", replayed = 0, NEW new \in Seq(Frames),
           OneMessage(new), Ended(new),
           client = "openai" => Written(new) /\ first' \in BOOLEAN,
           UNCHANGED <<streamVars, client, replayed>>,
           served' # "no", result \notin {"unsent", "reading"}
    PROVE  Serving'
  <1>1. replayed' \in 0 .. Len(deltas')
    BY DEF Serving, streamVars, readerVars
  <1>2. result' \notin {"unsent", "reading"} /\ UNCHANGED <<provider, client>>
    BY DEF streamVars, readerVars
  <1>3. ASSUME client = "openai"
        PROVE  /\ events' \in Seq(Frames) /\ OneMessage(events)' /\ gone' \in BOOLEAN
               /\ gone' = FALSE => Ended(events)'
    <2>1. events = <<>> /\ gone = FALSE
      BY <1>3 DEF Serving
    <2> QED
      BY <1>2, <1>3, <2>1, WholeMessage
  <1> QED
    BY <1>1, <1>2, <1>3 DEF Serving

LEMMA GiveUpKeepsServing ==
    ASSUME StreamInv, Serving, GiveUp
    PROVE  Serving'
  <1>1. /\ served = "no" /\ result \notin {"unsent", "reading"} /\ served' # "no" /\ deltas = <<>>
        /\ UNCHANGED <<streamVars, client, replayed>>
    BY DEF GiveUp, Captured, Failure
  <1>2. replayed = 0
    <2>1. Len(deltas) = 0
      BY <1>1
    <2> QED
      BY <2>1 DEF Serving
  <1>3. client = "openai" => Written(<<Frame("error"), Frame("done")>>) /\ UNCHANGED first
    BY Zenon DEF GiveUp, Write, WriteErrorFrame
  <1>4. client = "openai" => first' \in BOOLEAN
    BY <1>3, Zenon DEF Serving
  <1> QED
    BY <1>1, <1>2, <1>3, <1>4, ErrorFrames, AtOnce

LEMMA BurstKeepsServing ==
    ASSUME StreamInv, Serving, ServeToolBurst
    PROVE  Serving'
  <1>1. /\ served = "no" /\ replayed = 0 /\ result \notin {"unsent", "reading"}
        /\ served' # "no" /\ UNCHANGED <<streamVars, client, replayed>>
    BY DEF ServeToolBurst, Captured, Failure
  <1>2. CASE Write(WriteError, WriteErrorFrame)
    <2>1. client = "openai" => Written(<<Frame("error"), Frame("done")>>) /\ UNCHANGED first
      BY <1>2, Zenon DEF Write, WriteErrorFrame
    <2>2. client = "openai" => first' \in BOOLEAN
      BY <2>1, Zenon DEF Serving
    <2> QED
      BY <1>1, <2>1, <2>2, ErrorFrames, AtOnce
  <1>3. ASSUME NEW text \in BOOLEAN, NEW n \in 0 .. Cardinality(ToolCall),
               Write(WriteResponseBurst(text, n), WriteOpenAIBurst(text, n))
        PROVE  Serving'
    <2>1. n \in Nat
      OBVIOUS
    <2>2. CASE client = "openai"
      <3> DEFINE new == OpenAIBurst(text, n) \o <<Frame("done")>>
      <3>1. Written(new) /\ first' = FALSE
        BY <1>3, <2>2, Zenon DEF Write, WriteOpenAIBurst
      <3>2. first = TRUE
        BY <1>1, <2>2, Zenon DEF Serving
      <3>3. new \in Seq(Frames) /\ OneMessage(new) /\ Ended(new)
        BY <1>3, <2>1, <3>2, BurstFrames, Zenon
      <3> HIDE DEF new
      <3>4. first' \in BOOLEAN
        BY <3>1, Zenon
      <3> QED
        BY <1>1, <3>1, <3>3, <3>4, AtOnce
    <2>3. CASE client # "openai"
      BY <1>1, <2>3, ErrorFrames, AtOnce
    <2> QED
      BY <2>2, <2>3
  <1> QED
    BY <1>2, <1>3, Zenon DEF ServeToolBurst

\* One chunk, or nothing, after the chunks of the deltas before it.
LEMMA OneMoreCopy ==
    ASSUME NEW sent \in Seq(Frames), Copies(sent), NEW c \in Frames,
           NEW pre \in Seq(Frames), Len(pre) <= 1, \A k \in DOMAIN pre : pre[k] = c,
           IsChunk(c), c.role <=> Len(sent) = 0, c.finish = deltas[Len(sent) + 1].finish
    PROVE  /\ sent \o pre \in Seq(Frames) /\ Len(sent \o pre) = Len(sent) + Len(pre)
           /\ Copies(sent \o pre)
  <1> DEFINE u == sent \o pre
  <1>1. /\ Len(sent) \in Nat /\ Len(pre) \in Nat /\ DOMAIN pre = 1 .. Len(pre)
        /\ DOMAIN sent = 1 .. Len(sent)
        /\ u \in Seq(Frames) /\ Len(u) = Len(sent) + Len(pre)
    BY LenProperties, ConcatProperties
  <1>2. \A k \in DOMAIN u :
           \/ k \in DOMAIN sent /\ u[k] = sent[k]
           \/ \E j \in DOMAIN pre : k = Len(sent) + j /\ u[k] = pre[j]
    BY Extended
  <1> HIDE DEF u
  <1>3. ASSUME NEW k \in DOMAIN u
        PROVE  /\ IsChunk(u[k]) /\ (u[k].role <=> k = 1)
               /\ u[k].finish = deltas[k].finish
    <2>1. CASE k \in DOMAIN sent /\ u[k] = sent[k]
      BY <2>1 DEF Copies
    <2>2. ASSUME NEW j \in DOMAIN pre, k = Len(sent) + j, u[k] = pre[j]
          PROVE  /\ IsChunk(u[k]) /\ (u[k].role <=> k = 1)
                 /\ u[k].finish = deltas[k].finish
      <3>1. j = 1 /\ u[k] = c
        BY <1>1, <2>2
      <3>2. k = Len(sent) + 1 /\ (k = 1 <=> Len(sent) = 0)
        BY <1>1, <2>2, <3>1
      <3> QED
        BY <3>1, <3>2, Zenon
    <2> QED
      BY <1>2, <2>1, <2>2
  <1> QED
    BY <1>1, <1>3 DEF Copies, u

LEMMA ReplayKeepsServing ==
    ASSUME StreamInv, Serving, Replay
    PROVE  Serving'
  <1>1. /\ served = "no" /\ gone # TRUE /\ replayed < Len(deltas) /\ replayed' = replayed + 1
        /\ result \notin {"unsent", "reading"} /\ UNCHANGED <<streamVars, client, served>>
    BY DEF Replay, Captured, Failure
  <1>2. UNCHANGED <<deltas, provider, result>>
    BY <1>1 DEF streamVars, readerVars
  <1>3. deltas \in Seq(Delta) /\ Len(deltas) \in Nat /\ DOMAIN deltas = 1 .. Len(deltas)
    BY LenProperties DEF StreamInv, StreamTypeOK
  <1>4. replayed \in Nat /\ replayed + 1 \in 0 .. Len(deltas) /\ replayed + 1 \in DOMAIN deltas
    BY <1>1, <1>3 DEF Serving
  <1>5. ASSUME client = "openai"
        PROVE  /\ gone' \in BOOLEAN /\ first' = FALSE /\ replayed' # 0
               /\ events' \in Seq(Frames) /\ OneMessage(events)' /\ Replaying'
    <2> DEFINE d == deltas[replayed + 1]
               c == Chunk(first, d.text, d.finish, Len(d.calls))
    <2>1. /\ events \in Seq(Frames) /\ Copies(events) /\ first \in BOOLEAN /\ gone = FALSE
          /\ Len(events) = replayed /\ (first <=> replayed = 0)
      BY <1>1, <1>5, Zenon DEF Serving, Replaying
    <2>2. first' = FALSE /\ Written(<<c>>)
      BY <1>5, Zenon DEF Replay, Write, WriteChunk
    <2>3. d \in Delta
      BY <1>3, <1>4, ElementOfSeq
    <2>4. d.text \in BOOLEAN /\ d.finish \in Reason \cup {""} /\ Len(d.calls) \in Nat
      <3> HIDE DEF d
      <3> QED
        BY <2>3, LenProperties DEF Delta
    <2>5. /\ c \in Frames /\ IsChunk(c) /\ c.finish = d.finish
          /\ c.role = first
      <3> HIDE DEF d
      <3> QED
        BY <2>1, <2>4 DEF Chunk, Frames, IsChunk
    <2>6. c.role <=> Len(events) = 0
      BY <2>1, <2>5, Zenon
    <2>7. c.finish = deltas[Len(events) + 1].finish
      BY <2>1, <2>5
    <2> HIDE DEF c
    <2>8. PICK pre \in Seq(Frames) :
            /\ events' = events \o pre /\ gone' \in BOOLEAN
            /\ Len(pre) \in {0, 1} /\ \A k \in DOMAIN pre : pre[k] = c
            /\ gone' = FALSE => pre = <<c>> /\ Len(pre) = 1
      BY <2>1, <2>2, <2>5, BeginningOfOne
    <2>9. Len(pre) <= 1
      BY <2>8
    <2>10. /\ events' \in Seq(Frames) /\ Len(events') = replayed + Len(pre)
           /\ Copies(events')
      BY <2>1, <2>5, <2>6, <2>7, <2>8, <2>9, OneMoreCopy
    <2>11. Len(events') <= replayed + 1 /\ (gone' = FALSE => Len(events') = replayed + 1)
      BY <1>4, <2>8, <2>10
    <2>12. provider # "anthropic" => Ends(deltas)
      BY DEF StreamInv, Faithful
    <2>13. OneMessage(events')
      BY <1>3, <1>4, <2>10, <2>11, <2>12, CopiesAreOneMessage
    <2>14. OneMessage(events)' /\ Copies(events)'
      BY <1>2, <2>10, <2>13 DEF OneMessage, Copies
    <2>15. replayed' # 0
      BY <1>1, <1>4
    <2>16. Replaying'
      BY <1>1, <2>2, <2>11, <2>14, <2>15 DEF Replaying
    <2> QED
      BY <2>2, <2>8, <2>10, <2>14, <2>15, <2>16
  <1>6. replayed' \in 0 .. Len(deltas')
    BY <1>1, <1>2, <1>4
  <1>7. client = "openai" => first' \in BOOLEAN
    BY <1>5, Zenon
  <1> QED
    BY <1>1, <1>2, <1>5, <1>6, <1>7 DEF Serving

LEMMA ReplayEndsKeepsServing ==
    ASSUME StreamInv, Serving, ReplayEnds
    PROVE  Serving'
  <1>1. /\ served = "no" /\ served' = "replay"
        /\ result \notin {"unsent", "reading"} /\ UNCHANGED <<streamVars, client, replayed>>
    BY DEF ReplayEnds, Captured, Failure
  <1>2. UNCHANGED <<deltas, provider, result>>
    BY <1>1 DEF streamVars, readerVars
  <1>3. ASSUME client = "openai"
        PROVE  /\ gone' \in BOOLEAN /\ first' \in BOOLEAN
               /\ events' \in Seq(Frames) /\ OneMessage(events)'
               /\ gone' = FALSE => Ended(events)'
    <2>1. /\ gone \in BOOLEAN /\ first \in BOOLEAN /\ events \in Seq(Frames)
          /\ OneMessage(events) /\ Copies(events)
      BY <1>1, <1>3, Zenon DEF Serving, Replaying
    <2>2. Written(<<Frame("done")>>) /\ UNCHANGED first
      BY <1>3, Zenon DEF ReplayEnds, Write, WriteDone
    <2>3. first' \in BOOLEAN
      BY <2>1, <2>2, Zenon
    <2>4. CASE gone = TRUE
      <3>1. UNCHANGED <<events, gone>>
        BY <2>2, <2>4 DEF Written
      <3> QED
        BY <1>2, <2>1, <2>3, <2>4, <3>1 DEF OneMessage
    <2>5. CASE gone = FALSE
      <3> DEFINE c == Frame("done")
      <3>1. c \in Frames
        BY DEF Frame, Frames
      <3> HIDE DEF c
      <3>2. Written(<<c>>)
        BY <2>2, Zenon DEF c
      <3>3. PICK pre \in Seq(Frames) :
              /\ events' = events \o pre /\ gone' \in BOOLEAN
              /\ Len(pre) \in {0, 1} /\ \A k \in DOMAIN pre : pre[k] = c
              /\ gone' = FALSE => pre = <<c>> /\ Len(pre) = 1
        BY <2>5, <3>1, <3>2, BeginningOfOne
      <3>4. Len(pre) <= 1
        BY <3>3
      <3>5. \A k \in DOMAIN events : IsChunk(events[k])
        BY <2>1 DEF Copies
      <3>6. OneMessage(events \o pre) /\ (pre = <<c>> => Ended(events \o pre))
        BY <2>1, <3>3, <3>4, <3>5, DoneAfterChunks DEF c
      <3>7. events' \in Seq(Frames)
        BY <2>1, <3>3, ConcatProperties
      <3> QED
        BY <1>2, <2>3, <3>3, <3>6, <3>7 DEF OneMessage, Ended
    <2> QED
      BY <2>1, <2>4, <2>5, Zenon
  <1>4. replayed' \in 0 .. Len(deltas')
    BY <1>1, <1>2 DEF Serving
  <1> QED
    BY <1>1, <1>2, <1>3, <1>4 DEF Serving

LEMMA ServingStep == StreamInv /\ Serving /\ [Next]_vars => Serving'
  <1> SUFFICES ASSUME StreamInv, Serving, [Next]_vars PROVE Serving'
    OBVIOUS
  <1>1. StreamInv'
    BY StreamStep
  <1>2. CASE UNCHANGED vars
    BY <1>2 DEF Serving, Replaying, Copies, OneMessage, Ended, vars, streamVars, readerVars,
               writerVars, servingVars
  <1> QED
    BY <1>1, <1>2, ConsumeKeepsServing, GiveUpKeepsServing, BurstKeepsServing,
       ReplayKeepsServing, ReplayEndsKeepsServing DEF Next

\* Whatever was streamed, wherever the client leaves, and on whichever way it is
\* served, what an OpenAI client gets is (the beginning of) one message: the role in
\* its first chunk, nothing but [DONE] after the chunk with the finish reason
\* (internal/api/sse.go).
THEOREM OneMessagePerStream == Spec => []ChunksAreOneMessage
  <1>1. Init => StreamInv /\ Serving
    BY InitStreamInv, InitServing DEF Init
  <1>2. StreamInv /\ Serving /\ [Next]_vars => (StreamInv /\ Serving)'
    BY StreamStep, ServingStep
  <1>3. StreamInv /\ Serving => ChunksAreOneMessage
    BY ServingShowsIt
  <1> QED
    BY <1>1, <1>2, <1>3, PTL DEF Spec
=============================================================================
