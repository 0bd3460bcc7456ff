--------------------------- MODULE ToolLoopProofs ---------------------------
(* Proofs about the tool loop, for any tools, candidates, batches and caps. *)
EXTENDS ToolLoop, SequenceFacts

USE ToolLoopAssumption

-----------------------------------------------------------------------------
\* Conversations.  A result is linked to a call just before it, by number and by
\* ID; a conversation is whole if calls are followed by their results and
\* results are linked.
Linked(msgs, k) ==
    msgs[k].answers # NoCall =>
        \E i \in 1 .. k - 1 :
            /\ k - i \in DOMAIN msgs[i].calls
            /\ msgs[i].calls[k - i].n = msgs[k].answers
            /\ msgs[i].calls[k - i].id = msgs[k].toolCallID

Whole(msgs) == \A k \in DOMAIN msgs : IsAnswered(msgs, k) /\ Linked(msgs, k)

\* The calls in a conversation.
CallsIn(msgs) == UNION {{msgs[k].calls[j] : j \in DOMAIN msgs[k].calls} : k \in DOMAIN msgs}

\* The ID of a call is its number, or it has none; calls with the same number are
\* calls of the same tool.
Identified(calls) ==
    /\ \A c \in calls : c.id \in {NoID, c.n}
    /\ \A c, d \in calls : c.n = d.n => c.name = d.name

\* Only drops nothing if every position is kept: upto[k] is the first k messages.
LEMMA OnlyAll ==
    ASSUME NEW S, NEW s \in Seq(S)
    PROVE  Only(s, DOMAIN s) = s
  <1> DEFINE step(f) == [k \in 0 .. Len(s) |->
                            IF k = 0 THEN <<>>
                            ELSE IF k \in DOMAIN s THEN Append(f[k - 1], s[k])
                            ELSE f[k - 1]]
             upto == CHOOSE f : f = step(f)
             firsts == [k \in 0 .. Len(s) |-> SubSeq(s, 1, k)]
             differ == {k \in 0 .. Len(s) : upto[k] # firsts[k]}
  <1>1. Only(s, DOMAIN s) = upto[Len(s)]
    BY DEF Only
  <1>2. Len(s) \in Nat /\ DOMAIN s = 1 .. Len(s)
    BY LenProperties
  <1>3. ASSUME NEW k \in 1 .. Len(s)
        PROVE  SubSeq(s, 1, k) = Append(SubSeq(s, 1, k - 1), s[k])
    <2>1. SubSeq(s, 1, k) = SubSeq(s, 1, k - 1) \o <<s[k]>>
      BY <1>2, SubSeqRecursiveSecond
    <2>2. s[k] \in S /\ \A i \in 1 .. k - 1 : s[i] \in S
      BY <1>2, ElementOfSeq
    <2>3. SubSeq(s, 1, k - 1) \in Seq(S)
      BY <1>2, <2>2, SubSeqProperties
    <2> QED
      BY <2>1, <2>2, <2>3, AppendIsConcat
  <1>4. firsts = step(firsts)
    <2>1. ASSUME NEW k \in 0 .. Len(s) PROVE firsts[k] = step(firsts)[k]
      <3>1. CASE k = 0
        BY <1>2, <3>1, SubSeqEmpty
      <3>2. CASE k # 0
        <4>1. k \in 1 .. Len(s) /\ k - 1 \in 0 .. Len(s)
          BY <1>2, <3>2
        <4> QED
          BY <1>2, <1>3, <3>2, <4>1
      <3> QED
        BY <3>1, <3>2
    <2> QED
      BY <2>1
  <1>5. upto = step(upto)
    <2>1. \E f : f = step(f)
      BY <1>4
    <2> HIDE DEF step
    <2> QED
      BY <2>1
  <1> HIDE DEF upto
  <1>6. differ = {}
    <2> SUFFICES ASSUME differ # {} PROVE FALSE
      OBVIOUS
    <2>1. PICK k \in differ : \A l \in differ : k <= l
      <3>1. differ \subseteq Nat
        OBVIOUS
      <3> HIDE DEF differ
      <3> QED
        BY <3>1, SmallestOf
    <2>2. upto[k] = step(upto)[k] /\ firsts[k] = step(firsts)[k]
      BY <1>4, <1>5
    <2>3. CASE k = 0
      BY <1>2, <2>2, <2>3
    <2>4. CASE k # 0
      <3>1. k \in 1 .. Len(s) /\ k - 1 \in 0 .. Len(s) /\ k - 1 < k
        BY <1>2, <2>4
      <3>2. upto[k - 1] = firsts[k - 1]
        BY <2>1, <3>1
      <3>3. upto[k] = Append(upto[k - 1], s[k]) /\ firsts[k] = Append(firsts[k - 1], s[k])
        <4>1. k \in 0 .. Len(s) /\ k \in DOMAIN s
          BY <1>2, <3>1
        <4> HIDE DEF firsts, differ
        <4> QED
          BY <2>2, <2>4, <4>1
      <3> QED
        BY <3>2, <3>3
    <2> QED
      BY <2>3, <2>4
  <1>7. Len(s) \in 0 .. Len(s) /\ firsts[Len(s)] = s
    BY <1>2, SubSeqFull
  <1>8. upto[Len(s)] = firsts[Len(s)]
    BY <1>6, <1>7
  <1> QED
    BY <1>1, <1>2, <1>7, <1>8

\* The calls of a turn are a sequence of calls.
LEMMA CallsOfTurn ==
    ASSUME NEW m \in Turn
    PROVE  /\ m.calls \in Seq(Call) /\ Len(m.calls) \in Nat /\ DOMAIN m.calls = 1 .. Len(m.calls)
           /\ \A j \in DOMAIN m.calls : m.calls[j] \in Call
  <1>1. m.calls \in Seq(Call)
    BY DEF Turn
  <1> QED
    BY <1>1, LenProperties, ElementOfSeq

\* A whole conversation that is continued by a whole one is whole.
LEMMA WholeJoined ==
    ASSUME NEW s \in Seq(Turn), NEW t \in Seq(Turn), Whole(s), Whole(t)
    PROVE  Whole(s \o t)
  <1> DEFINE u == s \o t
  <1>1. /\ Len(s) \in Nat /\ DOMAIN s = 1 .. Len(s)
        /\ Len(t) \in Nat /\ DOMAIN t = 1 .. Len(t)
    BY LenProperties
  <1>2. /\ \A k \in DOMAIN s : k \in DOMAIN u /\ u[k] = s[k]
        /\ \A k \in DOMAIN t : Len(s) + k \in DOMAIN u /\ u[Len(s) + k] = t[k]
        /\ \A k \in DOMAIN u :
              \/ k \in DOMAIN s /\ u[k] = s[k]
              \/ \E j \in DOMAIN t : k = Len(s) + j /\ u[k] = t[j]
    BY Extended
  <1> HIDE DEF u
  <1>3. ASSUME NEW k \in DOMAIN s PROVE IsAnswered(u, k) /\ Linked(u, k)
    <2>1. IsAnswered(s, k) /\ Linked(s, k) /\ u[k] = s[k]
      BY <1>2 DEF Whole
    <2>2. IsAnswered(u, k)
      BY <1>2, <2>1 DEF IsAnswered
    <2>3. \A i \in 1 .. k - 1 : u[i] = s[i]
      BY <1>1, <1>2
    <2> QED
      BY <2>1, <2>2, <2>3 DEF Linked
  <1>4. ASSUME NEW j \in DOMAIN t PROVE IsAnswered(u, Len(s) + j) /\ Linked(u, Len(s) + j)
    <2>1. IsAnswered(t, j) /\ Linked(t, j) /\ u[Len(s) + j] = t[j] /\ j \in 1 .. Len(t)
      BY <1>1, <1>2 DEF Whole
    <2>2. IsAnswered(u, Len(s) + j)
      <3> SUFFICES ASSUME NEW m \in DOMAIN t[j].calls
                   PROVE  /\ (Len(s) + j) + m \in DOMAIN u
                          /\ u[(Len(s) + j) + m].answers = t[j].calls[m].n
        BY <2>1 DEF IsAnswered
      <3>1. j + m \in DOMAIN t /\ t[j + m].answers = t[j].calls[m].n
        BY <2>1 DEF IsAnswered
      <3>2. Len(s) + (j + m) \in DOMAIN u /\ u[Len(s) + (j + m)] = t[j + m]
        BY <1>2, <3>1
      <3>3. t[j] \in Turn
        BY <1>1, ElementOfSeq
      <3>4. m \in Nat
        BY <3>3, CallsOfTurn
      <3>5. Len(s) + (j + m) = (Len(s) + j) + m
        BY <1>1, <2>1, <3>4
      <3> QED
        BY <3>1, <3>2, <3>5
    <2>3. Linked(u, Len(s) + j)
      <3> SUFFICES ASSUME t[j].answers # NoCall
                   PROVE  \E i \in 1 .. (Len(s) + j) - 1 :
                            /\ (Len(s) + j) - i \in DOMAIN u[i].calls
                            /\ u[i].calls[(Len(s) + j) - i].n = t[j].answers
                            /\ u[i].calls[(Len(s) + j) - i].id = t[j].toolCallID
        BY <2>1 DEF Linked
      <3>1. PICK i \in 1 .. j - 1 :
                /\ j - i \in DOMAIN t[i].calls
                /\ t[i].calls[j - i].n = t[j].answers
                /\ t[i].calls[j - i].id = t[j].toolCallID
        BY <2>1 DEF Linked
      <3>2. /\ i \in DOMAIN t /\ Len(s) + i \in 1 .. (Len(s) + j) - 1
            /\ (Len(s) + j) - (Len(s) + i) = j - i
        BY <1>1, <2>1
      <3>3. u[Len(s) + i] = t[i]
        BY <1>2, <3>2
      <3> QED
        BY <3>1, <3>2, <3>3
    <2> QED
      BY <2>2, <2>3
  <1> QED
    BY <1>2, <1>3, <1>4 DEF Whole, u

\* It has the calls of both.
LEMMA CallsJoined ==
    ASSUME NEW s \in Seq(Turn), NEW t \in Seq(Turn)
    PROVE  \A c \in CallsIn(s \o t) : c \in CallsIn(s) \/ c \in CallsIn(t)
  <1> SUFFICES ASSUME NEW c \in CallsIn(s \o t) PROVE c \in CallsIn(s) \/ c \in CallsIn(t)
    OBVIOUS
  <1>1. PICK k \in DOMAIN (s \o t) : \E j \in DOMAIN (s \o t)[k].calls : c = (s \o t)[k].calls[j]
    BY DEF CallsIn
  <1>2. \/ k \in DOMAIN s /\ (s \o t)[k] = s[k]
        \/ \E j \in DOMAIN t : (s \o t)[k] = t[j]
    BY Extended
  <1> QED
    BY <1>1, <1>2 DEF CallsIn

\* Wholeness and calls depend on nothing but calls, numbers and IDs.
SameTurns(s, t) ==
    /\ DOMAIN t = DOMAIN s
    /\ \A k \in DOMAIN s : /\ t[k].calls = s[k].calls /\ t[k].answers = s[k].answers
                           /\ t[k].toolCallID = s[k].toolCallID

LEMMA SameTurnsKeep ==
    ASSUME NEW s \in Seq(Turn), NEW t, SameTurns(s, t), Whole(s)
    PROVE  Whole(t) /\ CallsIn(t) = CallsIn(s)
  <1>1. ASSUME NEW k \in DOMAIN s PROVE IsAnswered(t, k) /\ Linked(t, k)
    <2>1. IsAnswered(s, k) /\ Linked(s, k) /\ DOMAIN s = 1 .. Len(s) /\ Len(s) \in Nat
      BY LenProperties DEF Whole
    <2>2. IsAnswered(t, k)
      BY <2>1 DEF IsAnswered, SameTurns
    <2>3. \A i \in 1 .. k - 1 : i \in DOMAIN s
      BY <2>1
    <2> QED
      BY <2>1, <2>2, <2>3 DEF Linked, SameTurns
  <1>2. CallsIn(t) = CallsIn(s)
    BY DEF CallsIn, SameTurns
  <1> QED
    BY <1>1, <1>2 DEF Whole, SameTurns

-----------------------------------------------------------------------------
\* What a provider gets, of any kind, has the same turns: every role a conversation
\* has is one the Anthropic adapter accepts.
LEMMA SentSame ==
    ASSUME NEW msgs \in Seq(Turn), NEW kind \in Kind
    PROVE  /\ SameTurns(msgs, ToProvider(kind, msgs))
           /\ \A k \in DOMAIN msgs :
                ToProvider(kind, msgs)[k].tool =
                    IF kind = "gemini" THEN ToolNameFor(msgs[k], msgs) ELSE NoName
           /\ kind = "openai" =>
                \A k \in DOMAIN msgs : ToProvider(kind, msgs)[k].reasoning = msgs[k].reasoning
  <1>1. CASE kind = "openai"
    BY <1>1 DEF ToProvider, ToOpenAI, Wire, SameTurns
  <1>2. CASE kind = "gemini"
    BY <1>2 DEF ToProvider, ToGemini, Wire, SameTurns
  <1>3. CASE kind = "anthropic"
    <2>1. \A k \in DOMAIN msgs : AnthropicRole(msgs[k].role) # ""
      <3>1. \A k \in DOMAIN msgs : msgs[k] \in Turn
        BY LenProperties, ElementOfSeq
      <3> QED
        BY <3>1 DEF Turn, AnthropicRole
    <2>2. Only(msgs, {k \in DOMAIN msgs : AnthropicRole(msgs[k].role) # ""}) = msgs
      <3>1. {k \in DOMAIN msgs : AnthropicRole(msgs[k].role) # ""} = DOMAIN msgs
        BY <2>1
      <3> QED
        BY <3>1, OnlyAll
    <2> QED
      BY <1>3, <2>2 DEF ToProvider, ToAnthropic, Wire, SameTurns
  <1> QED
    BY <1>1, <1>2, <1>3 DEF Kind

LEMMA FirstIsIn ==
    ASSUME NEW S, S \subseteq Nat, S # {}
    PROVE  First(S) \in S
  BY SmallestOf DEF First

\* A result is named by the tool of the call it is linked to: all calls with its ID
\* are calls of that tool.
LEMMA NamesItsCall ==
    ASSUME NEW msgs \in Seq(Turn), Identified(CallsIn(msgs)), NEW k \in DOMAIN msgs,
           NEW c \in CallsIn(msgs), c.id = msgs[k].toolCallID
    PROVE  \/ ToolNameFor(msgs[k], msgs) \in {NoName, c.name}
           \/ /\ ToolNameFor(msgs[k], msgs) = "functionCallResponse"
              /\ msgs[k].toolCallID = NoID
  <1> DEFINE Matching(i) == {j \in DOMAIN msgs[i].calls : msgs[i].calls[j].id = msgs[k].toolCallID}
             callers == {i \in DOMAIN msgs : Matching(i) # {}}
  <1> SUFFICES ASSUME msgs[k].role = "tool", msgs[k].toolCallID # NoID
               PROVE  ToolNameFor(msgs[k], msgs) = c.name
    BY DEF ToolNameFor
  <1>1. /\ DOMAIN msgs \subseteq Nat
        /\ \A i \in DOMAIN msgs : DOMAIN msgs[i].calls \subseteq Nat
    <2>1. \A i \in DOMAIN msgs : msgs[i] \in Turn
      BY LenProperties, ElementOfSeq
    <2> QED
      BY <2>1, CallsOfTurn, LenProperties
  <1>2. First(callers) \in callers
    <2>1. \E i \in DOMAIN msgs : \E j \in DOMAIN msgs[i].calls : msgs[i].calls[j] = c
      BY DEF CallsIn
    <2>2. callers # {} /\ callers \subseteq Nat
      BY <1>1, <2>1
    <2> QED
      BY <2>2, FirstIsIn
  <1> DEFINE i == First(callers)
             j == First(Matching(i))
  <1>3. i \in DOMAIN msgs /\ j \in Matching(i)
    <2>1. i \in DOMAIN msgs /\ Matching(i) # {} /\ Matching(i) \subseteq Nat
      BY <1>1, <1>2
    <2> HIDE DEF Matching, i
    <2> QED
      BY <2>1, FirstIsIn
  <1>4. ToolNameFor(msgs[k], msgs) = msgs[i].calls[j].name
    BY <1>2 DEF ToolNameFor
  <1> HIDE DEF i, j
  <1>5. msgs[i].calls[j] \in CallsIn(msgs) /\ msgs[i].calls[j].id = c.id
    BY <1>3 DEF CallsIn
  <1>6. msgs[i].calls[j].n = c.n
    BY <1>5 DEF Identified
  <1> QED
    BY <1>4, <1>5, <1>6 DEF Identified

\* So a whole conversation is whole on every provider's wire.
LEMMA SentWhole ==
    ASSUME NEW msgs \in Seq(Turn), NEW kind \in Kind, Whole(msgs), Identified(CallsIn(msgs)),
           NEW k \in DOMAIN ToProvider(kind, msgs)
    PROVE  /\ IsAnswered(ToProvider(kind, msgs), k)
           /\ FollowsItsCall(ToProvider(kind, msgs), k)
  <1> DEFINE sent == ToProvider(kind, msgs)
  <1>1. /\ SameTurns(msgs, sent) /\ Whole(sent)
        /\ sent[k].tool = IF kind = "gemini" THEN ToolNameFor(msgs[k], msgs) ELSE NoName
    BY SentSame, SameTurnsKeep DEF SameTurns
  <1> HIDE DEF sent
  <1>2. IsAnswered(sent, k) /\ Linked(sent, k) /\ k \in DOMAIN msgs
    BY <1>1 DEF Whole, SameTurns, sent
  <1>3. ASSUME sent[k].answers # NoCall PROVE FollowsItsCall(sent, k)
    <2>1. PICK i \in 1 .. k - 1 :
            /\ k - i \in DOMAIN sent[i].calls
            /\ sent[i].calls[k - i].n = sent[k].answers
            /\ sent[i].calls[k - i].id = sent[k].toolCallID
      BY <1>2, <1>3 DEF Linked
    <2>2. i \in DOMAIN msgs
      BY <1>2, LenProperties
    <2> DEFINE c == msgs[i].calls[k - i]
    <2>3. /\ c \in CallsIn(msgs) /\ c = sent[i].calls[k - i]
          /\ c.id = msgs[k].toolCallID /\ sent[k].toolCallID = msgs[k].toolCallID
      BY <1>1, <1>2, <2>1, <2>2 DEF SameTurns, CallsIn
    <2>4. \/ ToolNameFor(msgs[k], msgs) \in {NoName, c.name}
          \/ ToolNameFor(msgs[k], msgs) = "functionCallResponse" /\ msgs[k].toolCallID = NoID
      BY <1>2, <2>3, NamesItsCall
    <2> QED
      BY <1>1, <2>1, <2>3, <2>4 DEF FollowsItsCall
  <1> QED
    BY <1>2, <1>3 DEF FollowsItsCall, sent

-----------------------------------------------------------------------------
\* What the client sends, on either wire, becomes a conversation of the same turns
\* or one without any calls.
LEMMA FromOpenAISame ==
    ASSUME NEW msgs \in Seq(Turn), NEW recalled
    PROVE  /\ SameTurns(msgs, FromOpenAI(msgs, recalled))
           /\ \A k \in DOMAIN msgs : FromOpenAI(msgs, recalled)[k] = Echo(msgs[k], recalled)
  <1>1. \A k \in DOMAIN msgs : msgs[k] \in Turn
    BY LenProperties, ElementOfSeq
  <1>2. {k \in DOMAIN msgs : msgs[k].role # "system"} = DOMAIN msgs
    BY <1>1 DEF Turn
  <1>3. FromOpenAI(msgs, recalled) = [k \in DOMAIN msgs |-> Echo(msgs[k], recalled)]
    BY <1>2, OnlyAll DEF FromOpenAI
  <1>4. \A k \in DOMAIN msgs :
            /\ Echo(msgs[k], recalled).calls = msgs[k].calls
            /\ Echo(msgs[k], recalled).answers = msgs[k].answers
            /\ Echo(msgs[k], recalled).toolCallID = msgs[k].toolCallID
    BY <1>1 DEF Turn, Echo
  <1> QED
    BY <1>3, <1>4 DEF SameTurns

LEMMA FromAnthropicBare ==
    ASSUME NEW msgs \in Seq(Turn)
    PROVE  /\ DOMAIN FromAnthropic(msgs) = DOMAIN msgs
           /\ \A k \in DOMAIN msgs : FromAnthropic(msgs)[k].calls = <<>>
           /\ Whole(FromAnthropic(msgs)) /\ CallsIn(FromAnthropic(msgs)) = {}
  <1>1. /\ DOMAIN FromAnthropic(msgs) = DOMAIN msgs
        /\ \A k \in DOMAIN msgs : /\ FromAnthropic(msgs)[k].calls = <<>>
                                  /\ FromAnthropic(msgs)[k].answers = NoCall
    BY DEF FromAnthropic, Text
  <1>2. DOMAIN (<<>>) = {}
    OBVIOUS
  <1> QED
    BY <1>1, <1>2 DEF Whole, IsAnswered, Linked, CallsIn

LEMMA TextTyped == \A role \in {"user", "assistant", "tool"} : Text(role) \in Turn
  <1>1. <<>> \in Seq(Call) /\ 0 \in 0 .. MaxCalls /\ 0 \in -1 .. MaxCalls
    OBVIOUS
  <1> QED
    BY <1>1 DEF Turn, Text, NoID, NoCall, NoReasoning

LEMMA FromClientTyped ==
    ASSUME NEW msgs \in Seq(Turn), NEW w \in {"openai", "anthropic"},
           NEW recalled \in [1 .. MaxCalls -> 0 .. MaxCalls]
    PROVE  FromClient(w, msgs, recalled) \in Seq(Turn)
  <1>1. Len(msgs) \in Nat /\ DOMAIN msgs = 1 .. Len(msgs) /\ \A k \in DOMAIN msgs : msgs[k] \in Turn
    BY LenProperties, ElementOfSeq
  <1>2. CASE w = "openai"
    <2>1. {k \in DOMAIN msgs : msgs[k].role # "system"} = DOMAIN msgs
      BY <1>1 DEF Turn
    <2>2. FromOpenAI(msgs, recalled) = [k \in 1 .. Len(msgs) |-> Echo(msgs[k], recalled)]
      BY <1>1, <2>1, OnlyAll DEF FromOpenAI
    <2>3. ASSUME NEW k \in 1 .. Len(msgs) PROVE Echo(msgs[k], recalled) \in Turn
      <3> DEFINE m == msgs[k]
                 r == Echo(m, recalled).reasoning
      <3>1. m \in Turn /\ MaxCalls \in Nat
        BY <1>1
      <3>2. Echo(m, recalled) = m \/ Echo(m, recalled) = [m EXCEPT !.reasoning = r]
        BY <3>1 DEF Echo, Turn
      <3>3. m.reasoning \in -1 .. MaxCalls
        BY <3>1 DEF Turn
      <3>4. \A id \in DOMAIN recalled : recalled[id] \in 0 .. MaxCalls
        OBVIOUS
      <3>5. \/ Echo(m, recalled) = m
            \/ \E id \in DOMAIN recalled : Echo(m, recalled) = [m EXCEPT !.reasoning = recalled[id]]
            \/ Echo(m, recalled) = [m EXCEPT !.reasoning = -1]
        BY DEF Echo, Placeholder
      <3>6. \A x : [m EXCEPT !.reasoning = x].reasoning = x
        BY <3>1 DEF Turn
      <3>7. r \in -1 .. MaxCalls
        <4>1. 0 .. MaxCalls \subseteq -1 .. MaxCalls /\ -1 \in -1 .. MaxCalls
          BY <3>1
        <4> QED
          BY <3>3, <3>4, <3>5, <3>6, <4>1
      <3> HIDE DEF m, r
      <3> QED
        BY <3>1, <3>2, <3>7 DEF Turn, m
    <2>4. FromOpenAI(msgs, recalled) \in [1 .. Len(msgs) -> Turn]
      BY <2>2, <2>3
    <2> QED
      BY <1>1, <1>2, <2>4, FunctionIsSequence DEF FromClient
  <1>3. CASE w = "anthropic"
    <2>1. \A k \in 1 .. Len(msgs) :
            Text(IF msgs[k].role = "tool" THEN "user" ELSE msgs[k].role) \in Turn
      BY <1>1, TextTyped DEF Turn
    <2>2. FromAnthropic(msgs) \in [1 .. Len(msgs) -> Turn]
      BY <1>1, <2>1 DEF FromAnthropic
    <2> QED
      BY <1>1, <1>3, <2>2, FunctionIsSequence DEF FromClient
  <1> QED
    BY <1>2, <1>3

-----------------------------------------------------------------------------
\* The turn of these calls and their results.
TurnOf(calls, reasoning) ==
    <<AssistantMessage(calls, reasoning)>> \o [k \in DOMAIN calls |-> ToolMessage(calls[k])]

\* It is whole, and has these calls.
LEMMA TurnIsWhole ==
    ASSUME NEW calls \in Seq(Call), NEW r \in -1 .. MaxCalls
    PROVE  LET t == TurnOf(calls, r)
           IN  /\ t \in Seq(Turn) /\ Whole(t)
               /\ CallsIn(t) = {calls[k] : k \in DOMAIN calls}
               /\ \A k \in DOMAIN t :
                     \/ t[k] = AssistantMessage(calls, r)
                     \/ t[k].calls = <<>> /\ t[k].reasoning = NoReasoning
               /\ \A k \in DOMAIN calls : 1 + k \in DOMAIN t /\ t[1 + k].answers = calls[k].n
  <1> DEFINE turn == <<AssistantMessage(calls, r)>>
             results == [k \in DOMAIN calls |-> ToolMessage(calls[k])]
             t == turn \o results
  <1>1. /\ Len(calls) \in Nat /\ DOMAIN calls = 1 .. Len(calls)
        /\ \A k \in DOMAIN calls : calls[k] \in Call
    BY LenProperties, ElementOfSeq
  <1>2. AssistantMessage(calls, r) \in Turn
    BY DEF AssistantMessage, Turn, NoID, NoCall
  <1>3. \A k \in DOMAIN calls : ToolMessage(calls[k]) \in Turn
    <2>1. ASSUME NEW c \in Call PROVE ToolMessage(c) \in Turn
      <3>1. c.n \in 0 .. MaxCalls /\ c.id \in 0 .. MaxCalls /\ 0 \in -1 .. MaxCalls /\ <<>> \in Seq(Call)
        BY DEF Call
      <3> QED
        BY <3>1 DEF ToolMessage, Turn, NoReasoning
    <2> QED
      BY <1>1, <2>1
  <1>4. /\ turn \in Seq(Turn) /\ Len(turn) = 1 /\ DOMAIN turn = {1} /\ turn[1] = AssistantMessage(calls, r)
    BY <1>2
  <1>5. results \in Seq(Turn) /\ DOMAIN results = DOMAIN calls
    <2>1. results \in [1 .. Len(calls) -> Turn]
      BY <1>1, <1>3
    <2> QED
      BY <1>1, <2>1, FunctionIsSequence
  <1>6. \A k \in DOMAIN calls : results[k] = ToolMessage(calls[k])
    OBVIOUS
  <1>7. /\ AssistantMessage(calls, r).calls = calls /\ AssistantMessage(calls, r).answers = NoCall
        /\ \A c : /\ ToolMessage(c).calls = <<>> /\ ToolMessage(c).reasoning = NoReasoning
                 /\ ToolMessage(c).answers = c.n /\ ToolMessage(c).toolCallID = c.id
    BY DEF AssistantMessage, ToolMessage
  <1> HIDE DEF turn, results
  <1>8. /\ t \in Seq(Turn)
        /\ 1 \in DOMAIN t /\ t[1] = AssistantMessage(calls, r)
        /\ \A k \in DOMAIN calls : 1 + k \in DOMAIN t /\ t[1 + k] = ToolMessage(calls[k])
        /\ \A k \in DOMAIN t :
              \/ k = 1
              \/ \E j \in DOMAIN calls : k = 1 + j /\ t[k] = ToolMessage(calls[j])
    <2>1. /\ t \in Seq(Turn)
          /\ \A k \in DOMAIN turn : k \in DOMAIN t /\ t[k] = turn[k]
          /\ \A k \in DOMAIN results : Len(turn) + k \in DOMAIN t /\ t[Len(turn) + k] = results[k]
          /\ \A k \in DOMAIN t :
               \/ k \in DOMAIN turn /\ t[k] = turn[k]
               \/ \E j \in DOMAIN results : k = Len(turn) + j /\ t[k] = results[j]
      <3>1. turn \in Seq(Turn) /\ results \in Seq(Turn)
        BY <1>4, <1>5
      <3> QED
        BY <3>1, Extended
    <2> HIDE DEF t
    <2> QED
      BY <1>4, <1>5, <1>6, <2>1
  <1> HIDE DEF t
  <1>9. ASSUME NEW k \in DOMAIN t PROVE IsAnswered(t, k) /\ Linked(t, k)
    <2>1. CASE k = 1
      <3>1. t[1].calls = calls /\ t[1].answers = NoCall
        BY <1>8, <1>7
      <3>2. \A j \in DOMAIN calls : 1 + j \in DOMAIN t /\ t[1 + j].answers = calls[j].n
        BY <1>8, <1>7
      <3> QED
        BY <2>1, <3>1, <3>2 DEF IsAnswered, Linked
    <2>2. ASSUME NEW j \in DOMAIN calls, k = 1 + j, t[k] = ToolMessage(calls[j])
          PROVE  IsAnswered(t, k) /\ Linked(t, k)
      <3>1. IsAnswered(t, k)
        BY <1>7, <2>2 DEF IsAnswered
      <3>2. 1 \in 1 .. k - 1 /\ k - 1 = j
        BY <1>1, <2>2
      <3>3. t[1].calls = calls /\ t[k].answers = calls[j].n /\ t[k].toolCallID = calls[j].id
        BY <1>8, <1>7, <2>2
      <3> QED
        BY <3>1, <3>2, <3>3 DEF Linked
    <2> QED
      BY <1>8, <2>1, <2>2
  <1>10. CallsIn(t) = {calls[k] : k \in DOMAIN calls}
    <2>1. t[1].calls = calls /\ \A k \in DOMAIN t : k = 1 \/ t[k].calls = <<>>
      BY <1>8, <1>7
    <2>2. DOMAIN (<<>>) = {}
      OBVIOUS
    <2>3. \A c \in CallsIn(t) : \E k \in DOMAIN t : \E j \in DOMAIN t[k].calls : c = t[k].calls[j]
      BY DEF CallsIn
    <2>4. \A c \in CallsIn(t) : c \in {calls[k] : k \in DOMAIN calls}
      BY <2>1, <2>2, <2>3
    <2>5. \A k \in DOMAIN calls : calls[k] \in CallsIn(t)
      BY <1>8, <2>1 DEF CallsIn
    <2> QED
      BY <2>4, <2>5
  <1>11. \A k \in DOMAIN t :
            \/ t[k] = AssistantMessage(calls, r)
            \/ t[k].calls = <<>> /\ t[k].reasoning = NoReasoning
    BY <1>8, <1>7
  <1>12. \A k \in DOMAIN calls : 1 + k \in DOMAIN t /\ t[1 + k].answers = calls[k].n
    BY <1>8, <1>7
  <1> QED
    BY <1>8, <1>9, <1>10, <1>11, <1>12 DEF Whole, TurnOf, t, turn, results

\* What a client with these calls adds to its conversation.
Exchange(calls) ==
    IF calls = <<>> THEN <<AssistantMessage(<<>>, NoReasoning), Text("user")>>
    ELSE TurnOf(calls, NoReasoning)

LEMMA ExchangeIsWhole ==
    ASSUME NEW calls \in Seq(Call)
    PROVE  /\ Exchange(calls) \in Seq(Turn) /\ Whole(Exchange(calls))
           /\ CallsIn(Exchange(calls)) = {calls[k] : k \in DOMAIN calls}
           /\ \A k \in DOMAIN Exchange(calls) :
                 /\ Exchange(calls)[k].reasoning = NoReasoning
                 /\ Exchange(calls)[k].calls # <<>> => Exchange(calls)[k].role = "assistant"
  <1>1. CASE calls = <<>>
    <2> DEFINE t == <<AssistantMessage(<<>>, NoReasoning), Text("user")>>
    <2>1. AssistantMessage(<<>>, NoReasoning) \in Turn
      <3>1. <<>> \in Seq(Call) /\ 0 \in 0 .. MaxCalls /\ 0 \in -1 .. MaxCalls
        OBVIOUS
      <3> QED
        BY <3>1 DEF AssistantMessage, Turn, NoID, NoCall, NoReasoning
    <2>2. t \in Seq(Turn) /\ DOMAIN t = 1 .. 2
      BY <2>1, TextTyped
    <2>3. \A k \in DOMAIN t :
            t[k].calls = <<>> /\ t[k].answers = NoCall /\ t[k].reasoning = NoReasoning
      BY DEF AssistantMessage, Text
    <2> HIDE DEF t
    <2>4. DOMAIN calls = {} /\ DOMAIN (<<>>) = {}
      BY <1>1
    <2>5. Whole(t) /\ CallsIn(t) = {}
      BY <2>3, <2>4 DEF Whole, IsAnswered, Linked, CallsIn
    <2> QED
      BY <1>1, <2>2, <2>3, <2>4, <2>5 DEF Exchange, t
  <1>2. CASE calls # <<>>
    <2>1. NoReasoning \in -1 .. MaxCalls
      BY DEF NoReasoning
    <2> QED
      BY <1>2, <2>1, TurnIsWhole DEF Exchange, AssistantMessage
  <1> QED
    BY <1>1, <1>2

LEMMA HandOverExtends ==
    ASSUME NEW calls \in Seq(Call), NEW reasoning, TypeOK,
           HandOver([reasoning |-> reasoning, calls |-> calls])
    PROVE  history' = history \o Exchange(calls)
  <1> DEFINE turn == <<AssistantMessage(calls, NoReasoning)>>
             results == IF calls = <<>> THEN <<Text("user")>>
                        ELSE [k \in DOMAIN calls |-> ToolMessage(calls[k])]
  <1>1. history' = (history \o turn) \o results
    BY DEF HandOver
  <1>2. Exchange(calls) = turn \o results
    <2>1. CASE calls = <<>>
      BY <2>1, PairIsConcat DEF Exchange
    <2>2. CASE calls # <<>>
      BY <2>2 DEF Exchange, TurnOf
    <2> QED
      BY <2>1, <2>2
  <1>3. PICK S : turn \in Seq(S) /\ results \in Seq(S) /\ history \in Seq(S)
    <2> DEFINE T == Turn \cup {AssistantMessage(calls, NoReasoning), Text("user")}
                         \cup {ToolMessage(calls[k]) : k \in DOMAIN calls}
    <2>1. history \in Seq(T)
      <3>1. history \in Seq(Turn)
        BY DEF TypeOK
      <3>2. \A i \in 1 .. Len(history) : history[i] \in T
        BY <3>1
      <3> HIDE DEF T
      <3> QED
        BY <3>1, <3>2
    <2>2. turn \in Seq(T)
      OBVIOUS
    <2>3. CASE calls = <<>>
      BY <2>1, <2>2, <2>3
    <2>4. CASE calls # <<>>
      <3>1. Len(calls) \in Nat /\ DOMAIN calls = 1 .. Len(calls)
        BY LenProperties
      <3>2. results \in [1 .. Len(calls) -> T]
        BY <2>4, <3>1
      <3> HIDE DEF results, T, turn
      <3>3. results \in Seq(T)
        BY <3>1, <3>2, FunctionIsSequence
      <3> QED
        BY <2>1, <2>2, <3>3
    <2> QED
      BY <2>3, <2>4
  <1> HIDE DEF turn, results
  <1>4. (history \o turn) \o results = history \o (turn \o results)
    BY <1>3, ConcatAssociative
  <1> QED
    BY <1>1, <1>2, <1>4

-----------------------------------------------------------------------------
\* Calls numbered from b + 1 on.
Numbered(calls, b) ==
    /\ Len(calls) \in Nat /\ DOMAIN calls = 1 .. Len(calls)
    /\ \A k \in DOMAIN calls : calls[k].n = b + k

\* The response whose tools are being run is the latest any model gave: only the
\* first `done' of its calls have been run, and none has been handed over.
AtWork ==
    phase = "running" =>
        \E b \in Nat :
            /\ Numbered(response.calls, b) /\ b + Len(response.calls) = minted
            /\ done \in 0 .. Len(response.calls)
            /\ \A k \in DOMAIN ran : ran[k] \in 1 .. b + done
            /\ handed \subseteq 1 .. b

Known ==
    /\ minted \in Nat
    /\ ran \in Seq(Nat)
    /\ \A k \in DOMAIN ran : ran[k] \in 1 .. minted
    /\ handed \subseteq 1 .. minted

Flags == stream \in BOOLEAN /\ streaming \in BOOLEAN /\ AnswersAreReadAsAsked

IInv == Known /\ AtWork /\ RunsOnceOrHandsOver /\ Flags

-----------------------------------------------------------------------------
LEMMA InitInv == Init => IInv
  <1> SUFFICES ASSUME Init PROVE IInv
    OBVIOUS
  <1>1. ran \in Seq(Nat) /\ DOMAIN ran = {}
    BY DEF Init
  <1>2. Known /\ RunsOnceOrHandsOver
    BY <1>1 DEF Init, Known, RunsOnceOrHandsOver
  <1>3. AtWork /\ Flags
    BY DEF Init, AtWork, Flags, AnswersAreReadAsAsked, Sending
  <1> QED
    BY <1>2, <1>3 DEF IInv

\* A batch is a sequence of names.
LEMMA BatchLength == \A names \in Batches : Len(names) \in Nat /\ DOMAIN names = 1 .. Len(names)
  OBVIOUS

LEMMA MintedNumbered ==
    ASSUME NEW names \in Batches, NEW thinks
    PROVE  /\ Numbered(Minted(names, thinks).calls, minted)
           /\ Len(Minted(names, thinks).calls) = Len(names)
  <1> DEFINE calls == Minted(names, thinks).calls
  <1>1. Len(names) \in Nat /\ DOMAIN names = 1 .. Len(names)
    BY BatchLength
  <1>2. DOMAIN calls = 1 .. Len(names) /\ \A k \in DOMAIN calls : calls[k].n = minted + k
    BY <1>1 DEF Minted, Response
  <1>3. Len(calls) = Len(names)
    <2> DEFINE S == {calls[k] : k \in DOMAIN calls}
    <2>1. calls = [k \in 1 .. Len(names) |-> calls[k]]
      BY <1>1 DEF Minted, Response
    <2> HIDE DEF calls
    <2>2. calls \in [1 .. Len(names) -> S]
      BY <1>2, <2>1
    <2> QED
      BY <1>1, <2>2, FunctionIsSequence
  <1> QED
    BY <1>1, <1>2, <1>3 DEF Numbered

\* A step that runs nothing and hands nothing over.
LEMMA QuietKeeps ==
    ASSUME Known, RunsOnceOrHandsOver, UNCHANGED <<minted, ran, handed>>
    PROVE  (Known /\ RunsOnceOrHandsOver)'
  BY DEF Known, RunsOnceOrHandsOver

LEMMA EndKeeps == IInv /\ (EndWithout \/ Restart) => IInv'
  <1> SUFFICES ASSUME IInv, EndWithout \/ Restart PROVE IInv'
    OBVIOUS
  <1>1. UNCHANGED <<minted, ran, handed>> /\ phase' = "idle" /\ stream' = FALSE /\ streaming' = FALSE
    BY DEF EndWithout, Restart, Over
  <1> QED
    BY <1>1, QuietKeeps DEF IInv, AtWork, Flags, AnswersAreReadAsAsked, Sending

LEMMA NextCandidateKeeps ==
    ASSUME IInv, NextCandidate, stream = streaming
    PROVE  IInv'
  <1>1. CASE EndWithout
    BY <1>1, EndKeeps
  <1>2. CASE ~ EndWithout
    <2>1. UNCHANGED <<minted, ran, handed, stream, streaming>> /\ phase' = "calling"
      BY <1>2 DEF NextCandidate, clientVars
    <2> QED
      BY <2>1, QuietKeeps DEF IInv, AtWork, Flags, AnswersAreReadAsAsked, Sending
  <1> QED
    BY <1>1, <1>2

\* What a model answers is numbered above all that was run or handed over: the
\* loop may run it or the client may get it.
LEMMA DealKeeps ==
    ASSUME IInv, NEW names \in Batches, NEW thinks \in BOOLEAN, NEW i,
           Answers(names, thinks), Deal(Minted(names, thinks), i)
    PROVE  IInv'
  <1> DEFINE resp == Minted(names, thinks)
  <1>1. Numbered(resp.calls, minted) /\ Len(resp.calls) = Len(names) /\ Len(names) \in Nat
    BY MintedNumbered, BatchLength
  <1>2. minted' = minted + Len(names) /\ minted \in Nat
    BY DEF Answers, IInv, Known
  <1> HIDE DEF resp
  <1>3. CASE HandOver(resp)
    <2>1. UNCHANGED ran /\ phase' = "idle" /\ stream' = FALSE /\ streaming' = FALSE
      BY <1>3 DEF HandOver, Over
    <2>2. handed' = handed \cup {resp.calls[k].n : k \in DOMAIN resp.calls}
      BY <1>3 DEF HandOver
    <2>3. \A k \in DOMAIN resp.calls : resp.calls[k].n \in minted + 1 .. minted'
      BY <1>1, <1>2 DEF Numbered
    <2>4. \A n \in handed' : n \in handed \/ n \in minted + 1 .. minted'
      BY <2>2, <2>3
    <2>5. minted' \in Nat /\ 1 .. minted \subseteq 1 .. minted'
          /\ minted + 1 .. minted' \subseteq 1 .. minted'
          /\ (1 .. minted) \cap (minted + 1 .. minted') = {}
      BY <1>1, <1>2
    <2>6. \A k \in DOMAIN ran : ran[k] \in 1 .. minted
      BY DEF IInv, Known
    <2>7. ran \in Seq(Nat) /\ handed \subseteq 1 .. minted
      BY DEF IInv, Known
    <2>8. handed' \subseteq 1 .. minted'
      BY <2>4, <2>5, <2>7
    <2>9. \A k \in DOMAIN ran : ran[k] \in 1 .. minted'
      BY <2>5, <2>6
    <2>10. Known'
      BY <2>1, <2>5, <2>7, <2>8, <2>9 DEF Known
    <2>11. \A k \in DOMAIN ran : ran[k] \notin handed'
      BY <2>4, <2>5, <2>6 DEF IInv, RunsOnceOrHandsOver
    <2> QED
      BY <2>1, <2>10, <2>11
         DEF IInv, AtWork, RunsOnceOrHandsOver, Flags, AnswersAreReadAsAsked, Sending
  <1>4. CASE ~ HandOver(resp)
    <2>1. /\ UNCHANGED <<ran, handed, stream, streaming>>
          /\ phase' = "running" /\ response' = resp /\ done' = 0
      BY <1>4 DEF Deal, resp, clientVars
    <2>2. minted' \in Nat /\ 1 .. minted \subseteq 1 .. minted' /\ minted + done' = minted
      BY <1>1, <1>2, <2>1
    <2>3. Known' /\ RunsOnceOrHandsOver'
      BY <2>1, <2>2 DEF IInv, Known, RunsOnceOrHandsOver
    <2>4. Numbered(response'.calls, minted) /\ minted + Len(response'.calls) = minted'
      BY <1>1, <1>2, <2>1
    <2>5. done' \in 0 .. Len(response'.calls)
      BY <1>1, <2>1
    <2>6. (\A k \in DOMAIN ran' : ran'[k] \in 1 .. minted + done') /\ handed' \subseteq 1 .. minted
      BY <2>1, <2>2 DEF IInv, Known
    <2>7. AtWork'
      BY <1>2, <2>4, <2>5, <2>6 DEF AtWork, Numbered
    <2> QED
      BY <2>1, <2>3, <2>7 DEF IInv, Flags, AnswersAreReadAsAsked, Sending
  <1> QED
    BY <1>3, <1>4

\* The call that is run comes after all that were.
LEMMA RunToolKeeps == IInv /\ RunTool => IInv'
  <1> SUFFICES ASSUME IInv, RunTool PROVE IInv'
    OBVIOUS
  <1>1. PICK b \in Nat :
            /\ Numbered(response.calls, b) /\ b + Len(response.calls) = minted
            /\ done \in 0 .. Len(response.calls)
            /\ \A k \in DOMAIN ran : ran[k] \in 1 .. b + done
            /\ handed \subseteq 1 .. b
    BY DEF IInv, AtWork, RunTool
  <1>2. /\ done < Len(response.calls) /\ done' = done + 1
        /\ ran' = Append(ran, response.calls[done + 1].n)
        /\ UNCHANGED <<phase, stream, streaming, response, minted, handed>>
    BY DEF RunTool, clientVars
  <1>3. Len(response.calls) \in Nat /\ done \in Nat /\ done + 1 \in DOMAIN response.calls
    BY <1>1, <1>2 DEF Numbered
  <1> DEFINE new == b + done + 1
  <1>4. response.calls[done + 1].n = new
    <2>1. \A k \in DOMAIN response.calls : response.calls[k].n = b + k
      BY <1>1 DEF Numbered
    <2>2. response.calls[done + 1].n = b + (done + 1)
      BY <1>3, <2>1
    <2> QED
      BY <1>3, <2>2
  <1>5. new \in Nat /\ new \in 1 .. minted /\ new \in 1 .. b + done'
        /\ new \notin 1 .. b + done /\ new \notin 1 .. b /\ minted \in Nat
    BY <1>1, <1>2, <1>3
  <1> HIDE DEF new
  <1>6. ran \in Seq(Nat) /\ ran' = Append(ran, new)
    BY <1>2, <1>4 DEF IInv, Known
  <1>7. /\ ran' \in Seq(Nat) /\ Len(ran) \in Nat
        /\ DOMAIN ran' = 1 .. Len(ran) + 1 /\ DOMAIN ran = 1 .. Len(ran)
        /\ ran'[Len(ran) + 1] = new
        /\ \A k \in DOMAIN ran : ran'[k] = ran[k]
    BY <1>5, <1>6
  <1>8. \A k \in DOMAIN ran' : (k \in DOMAIN ran /\ ran'[k] = ran[k]) \/ (k = Len(ran) + 1 /\ ran'[k] = new)
    BY <1>7
  <1>9. \A k \in DOMAIN ran : ran[k] # new /\ ran[k] \in 1 .. b + done' /\ ran[k] \in 1 .. minted
    <2>1. 1 .. b + done \subseteq 1 .. b + done'
      BY <1>2, <1>3
    <2>2. \A k \in DOMAIN ran : ran[k] \in 1 .. b + done
      BY <1>1
    <2>3. \A k \in DOMAIN ran : ran[k] \in 1 .. minted
      BY DEF IInv, Known
    <2> QED
      BY <1>5, <2>1, <2>2, <2>3
  <1>10. \A k \in DOMAIN ran' : ran'[k] \in 1 .. b + done' /\ ran'[k] \in 1 .. minted
    BY <1>5, <1>8, <1>9
  <1>11. Known'
    BY <1>2, <1>7, <1>10 DEF IInv, Known
  <1>12. AtWork'
    <2>1. Numbered(response'.calls, b) /\ b + Len(response'.calls) = minted'
      BY <1>1, <1>2
    <2>2. done' \in 0 .. Len(response'.calls)
      BY <1>2, <1>3
    <2>3. (\A k \in DOMAIN ran' : ran'[k] \in 1 .. b + done') /\ handed' \subseteq 1 .. b
      BY <1>1, <1>2, <1>10
    <2> QED
      BY <2>1, <2>2, <2>3 DEF AtWork, Numbered
  <1>13. \A j, k \in DOMAIN ran' : j # k => ran'[j] # ran'[k]
    BY <1>8, <1>9 DEF IInv, RunsOnceOrHandsOver
  <1>14. new \notin handed
    BY <1>1, <1>5
  <1>15. \A k \in DOMAIN ran' : ran'[k] \notin handed'
    BY <1>2, <1>8, <1>14 DEF IInv, RunsOnceOrHandsOver
  <1> QED
    BY <1>2, <1>11, <1>12, <1>13, <1>15
       DEF IInv, RunsOnceOrHandsOver, Flags, AnswersAreReadAsAsked, Sending, RunTool

LEMMA StepInv == IInv /\ [Next]_vars => IInv'
  <1> SUFFICES ASSUME IInv, [Next]_vars PROVE IInv'
    OBVIOUS
  <1>1. ASSUME NEW candidates \in Orders, NEW streamed \in BOOLEAN, Ask(candidates, streamed)
        PROVE  IInv'
    <2>1. /\ UNCHANGED <<minted, handed>> /\ ran' = <<>>
          /\ phase' = "calling" /\ streaming' = streamed /\ stream' = streamed
      BY <1>1 DEF Ask
    <2> QED
      BY <2>1 DEF IInv, Known, AtWork, RunsOnceOrHandsOver, Flags, AnswersAreReadAsAsked, Sending
  <1>2. CASE CallFails
    BY <1>2, NextCandidateKeeps DEF CallFails, IInv, Flags, AnswersAreReadAsAsked, Sending
  <1>3. CASE StreamBreaks \/ ToolPanics
    BY <1>3, EndKeeps DEF StreamBreaks, ToolPanics
  <1>4. ASSUME NEW names \in Batches, NEW thinks \in BOOLEAN,
               CallReturns(names, thinks) \/ ContinuationReturns(names, thinks)
        PROVE  IInv'
    BY <1>4, DealKeeps DEF CallReturns, ContinuationReturns
  <1>5. CASE RunTool
    BY <1>5, RunToolKeeps
  <1>6. CASE Continue
    <2>1. /\ UNCHANGED <<minted, ran, handed, streaming>>
          /\ phase' = "continuing" /\ stream' = FALSE
      BY <1>6 DEF Continue, clientVars
    <2> QED
      BY <2>1, QuietKeeps DEF IInv, AtWork, Flags, AnswersAreReadAsAsked, Sending
  <1>7. CASE ContinuationFails
    <2>1. CASE streaming
      BY <1>7, <2>1, EndKeeps DEF ContinuationFails
    <2>2. CASE ~ streaming
      BY <1>7, <2>2, NextCandidateKeeps
         DEF ContinuationFails, IInv, Flags, AnswersAreReadAsAsked, Sending
    <2> QED
      BY <2>1, <2>2
  <1>8. CASE Restart
    BY <1>8, EndKeeps
  <1>9. CASE OtherSession \/ UNCHANGED vars
    <2>1. UNCHANGED <<phase, minted, requestVars, clientVars>>
      BY <1>9 DEF OtherSession, vars
    <2> QED
      BY <2>1, QuietKeeps
         DEF requestVars, clientVars, IInv, AtWork, Flags, AnswersAreReadAsAsked, Sending
  <1> QED
    BY <1>1, <1>2, <1>3, <1>4, <1>5, <1>6, <1>7, <1>8, <1>9 DEF Next, Serve, Returns

LEMMA Invariance == Spec => []IInv
  BY InitInv, StepInv, PTL DEF Spec

-----------------------------------------------------------------------------
\* Types.  What a model answers: calls that none has made before, each with the
\* reasoning of the response, and with an ID if there is any.
LEMMA MintedCalls ==
    ASSUME TypeOK, NEW names \in Batches, NEW thinks \in BOOLEAN, Answers(names, thinks)
    PROVE  LET resp == Minted(names, thinks)
           IN  /\ resp \in [reasoning : 0 .. MaxCalls, calls : Seq(Call)]
               /\ resp = [reasoning |-> resp.reasoning, calls |-> resp.calls]
               /\ \A k \in DOMAIN resp.calls :
                     /\ resp.calls[k].n = minted + k
                     /\ resp.calls[k].n \in minted + 1 .. minted'
                     /\ resp.calls[k].thought = resp.reasoning
                     /\ \/ resp.calls[k].id = resp.calls[k].n
                        \/ resp.calls[k].id = NoID /\ resp.reasoning = NoReasoning
               /\ minted' \in minted .. MaxCalls
  <1> DEFINE thought == IF thinks /\ Head(order) = "openai" THEN minted + 1 ELSE NoReasoning
             call(k) == [n |-> minted + k, name |-> names[k],
                         id |-> IF Head(order) = "gemini" THEN NoID ELSE minted + k,
                         thought |-> thought]
             calls == [k \in DOMAIN names |-> call(k)]
  <1>1. Minted(names, thinks) = [reasoning |-> thought, calls |-> calls]
    BY DEF Minted, Response
  <1>2. /\ Len(names) \in Nat /\ DOMAIN names = 1 .. Len(names)
        /\ \A k \in DOMAIN names : names[k] \in ServerTool \cup ClientTool
    <2>1. names \in Seq(ServerTool \cup ClientTool)
      OBVIOUS
    <2> QED
      BY <2>1, LenProperties, ElementOfSeq
  <1>3. /\ minted \in 0 .. MaxCalls /\ MaxCalls \in Nat
        /\ minted' = minted + Len(names) /\ minted + Len(names) <= MaxCalls
    BY DEF TypeOK, Answers
  <1>4. minted' \in minted .. MaxCalls
    BY <1>2, <1>3
  <1>5. \A k \in DOMAIN names : minted + k \in minted + 1 .. minted' /\ minted + k \in 1 .. MaxCalls
    BY <1>2, <1>3
  <1>6. thought \in 0 .. MaxCalls
    <2>1. thought = NoReasoning \/ (thought = minted + 1 /\ names # <<>>)
      BY DEF Answers
    <2>2. names # <<>> => 1 \in DOMAIN names
      BY <1>2, EmptySeq
    <2> QED
      BY <1>3, <1>5, <2>1, <2>2 DEF NoReasoning
  <1>7. thought = NoReasoning \/ Head(order) = "openai"
    OBVIOUS
  <1> HIDE DEF thought
  <1>8. ASSUME NEW k \in DOMAIN names
        PROVE  /\ call(k) \in Call /\ call(k).n = minted + k /\ call(k).thought = thought
               /\ call(k).id = call(k).n \/ (call(k).id = NoID /\ thought = NoReasoning)
    <2>1. minted + k \in 1 .. MaxCalls /\ names[k] \in ServerTool \cup ClientTool
      BY <1>2, <1>5
    <2>2. (IF Head(order) = "gemini" THEN NoID ELSE minted + k) \in 0 .. MaxCalls
      BY <1>3, <2>1 DEF NoID
    <2> QED
      BY <1>6, <1>7, <2>1, <2>2 DEF Call
  <1>9. calls \in Seq(Call) /\ DOMAIN calls = DOMAIN names
    <2>1. calls \in [1 .. Len(names) -> Call]
      BY <1>2, <1>8
    <2> QED
      BY <1>2, <2>1, FunctionIsSequence
  <1>10. \A k \in DOMAIN calls : calls[k] = call(k)
    OBVIOUS
  <1> HIDE DEF calls, call
  <1>11. \A k \in DOMAIN calls :
            /\ calls[k].n = minted + k /\ calls[k].n \in minted + 1 .. minted'
            /\ calls[k].thought = thought
            /\ calls[k].id = calls[k].n \/ (calls[k].id = NoID /\ thought = NoReasoning)
    BY <1>5, <1>8, <1>9, <1>10
  <1> QED
    BY <1>1, <1>4, <1>6, <1>9, <1>11

LEMMA RememberingTyped ==
    ASSUME NEW resp \in [reasoning : 0 .. MaxCalls, calls : Seq(Call)],
           NEW recalled \in [1 .. MaxCalls -> 0 .. MaxCalls]
    PROVE  Remembering(recalled, resp) \in [1 .. MaxCalls -> 0 .. MaxCalls]
  BY DEF Remembering

\* Of the request, nothing is left when it is over.
LEMMA EndTyped == TypeOK /\ EndWithout => TypeOK'
  <1>1. <<>> \in Seq(Kind) /\ <<>> \in Seq(Turn) /\ <<>> \in Seq(Call) /\ Len(<<>>) = 0
    OBVIOUS
  <1>2. None \in [reasoning : 0 .. MaxCalls, calls : Seq(Call)] /\ None.calls = <<>>
    BY <1>1 DEF None, NoReasoning
  <1>3. 0 \in 0 .. MaxIterations - 1 /\ 0 \in 0 .. 0
    OBVIOUS
  <1> QED
    BY <1>1, <1>2, <1>3 DEF TypeOK, EndWithout, Over, cacheVars

LEMMA NextCandidateTyped == TypeOK /\ phase # "idle" /\ NextCandidate => TypeOK'
  <1> SUFFICES ASSUME TypeOK, phase # "idle", NextCandidate PROVE TypeOK'
    OBVIOUS
  <1>1. CASE EndWithout
    BY <1>1, EndTyped
  <1>2. CASE ~ EndWithout
    <2>1. /\ Len(order) # 1 /\ phase' = "calling" /\ order' = Tail(order)
          /\ response' = None /\ done' = 0 /\ round' = 0
          /\ UNCHANGED <<streaming, messages, stream, minted, ran, cacheVars, clientVars>>
      BY <1>2 DEF NextCandidate
    <2>2. order' \in Seq(Kind) /\ order' # <<>>
      <3>1. order \in Seq(Kind) /\ order # <<>>
        BY DEF TypeOK
      <3>2. Tail(order) \in Seq(Kind) /\ Len(Tail(order)) = Len(order) - 1 /\ Len(order) \in Nat
        BY <3>1, HeadTailProperties, LenProperties
      <3>3. Len(Tail(order)) # 0 /\ order' = Tail(order)
        BY <2>1, <3>2
      <3> QED
        BY <3>2, <3>3, EmptySeq
    <2>3. None \in [reasoning : 0 .. MaxCalls, calls : Seq(Call)] /\ Len(None.calls) = 0
      BY DEF None, NoReasoning
    <2>4. 0 \in 0 .. MaxIterations - 1 /\ 0 \in 0 .. 0
      OBVIOUS
    <2> QED
      BY <2>1, <2>2, <2>3, <2>4 DEF TypeOK, clientVars, cacheVars
  <1> QED
    BY <1>1, <1>2

LEMMA DealTyped ==
    ASSUME TypeOK, phase # "idle", NEW names \in Batches, NEW thinks \in BOOLEAN,
           NEW i \in Nat, Answers(names, thinks), Deal(Minted(names, thinks), i),
           Remember(Minted(names, thinks))
    PROVE  TypeOK'
  <1> DEFINE resp == Minted(names, thinks)
  <1>1. /\ resp \in [reasoning : 0 .. MaxCalls, calls : Seq(Call)]
        /\ resp = [reasoning |-> resp.reasoning, calls |-> resp.calls]
        /\ \A k \in DOMAIN resp.calls : resp.calls[k].n \in 1 .. MaxCalls
        /\ resp.calls \in Seq(Call) /\ Len(resp.calls) \in Nat
        /\ minted' \in 0 .. MaxCalls
    <2>1. /\ resp \in [reasoning : 0 .. MaxCalls, calls : Seq(Call)]
          /\ resp = [reasoning |-> resp.reasoning, calls |-> resp.calls]
          /\ minted' \in minted .. MaxCalls
      BY MintedCalls
    <2>2. resp.calls \in Seq(Call)
      BY <2>1
    <2>3. \A k \in DOMAIN resp.calls : resp.calls[k] \in Call
      BY <2>2, LenProperties, ElementOfSeq
    <2>4. minted \in 0 .. MaxCalls
      BY DEF TypeOK
    <2> HIDE DEF resp
    <2>5. \A k \in DOMAIN resp.calls : resp.calls[k].n \in 1 .. MaxCalls
      BY <2>3 DEF Call
    <2> QED
      BY <2>1, <2>2, <2>4, <2>5, LenProperties
  <1>2. /\ remembered' \in [1 .. MaxCalls -> 0 .. MaxCalls]
        /\ saved' \in [1 .. MaxCalls -> 0 .. MaxCalls] /\ lost' \subseteq 1 .. MaxCalls
    <2>1. remembered' \in [1 .. MaxCalls -> 0 .. MaxCalls]
      BY <1>1, RememberingTyped DEF TypeOK, Remember
    <2>2. saved' \in {saved, remembered'} /\ lost' = lost
      BY DEF Remember
    <2> QED
      BY <2>1, <2>2 DEF TypeOK
  <1> HIDE DEF resp
  <1>3. CASE HandOver(resp)
    <2>1. history' \in Seq(Turn)
      <3>1. history' = history \o Exchange(resp.calls)
        BY <1>1, <1>3, HandOverExtends
      <3>2. history \in Seq(Turn) /\ Exchange(resp.calls) \in Seq(Turn)
        BY <1>1, ExchangeIsWhole DEF TypeOK
      <3> QED
        BY <3>1, <3>2, ConcatProperties
    <2>2. handed' \subseteq 1 .. MaxCalls
      <3>1. handed' = handed \cup {resp.calls[k].n : k \in DOMAIN resp.calls}
        BY <1>3 DEF HandOver
      <3>2. handed \subseteq 1 .. MaxCalls
        BY DEF TypeOK
      <3> QED
        BY <1>1, <3>1, <3>2
    <2>3. Over
      BY <1>3 DEF HandOver
    <2>4. <<>> \in Seq(Kind) /\ <<>> \in Seq(Turn) /\ Len(<<>>) = 0
      OBVIOUS
    <2>5. None \in [reasoning : 0 .. MaxCalls, calls : Seq(Call)] /\ None.calls = <<>>
      BY DEF None, NoReasoning
    <2>6. 0 \in 0 .. MaxIterations - 1 /\ 0 \in 0 .. 0
      OBVIOUS
    <2> QED
      BY <1>1, <1>2, <2>1, <2>2, <2>3, <2>4, <2>5, <2>6 DEF TypeOK, Over
  <1>4. CASE ~ HandOver(resp)
    <2>1. /\ i < MaxIterations /\ phase' = "running"
          /\ response' = resp /\ done' = 0 /\ round' = i
          /\ UNCHANGED <<streaming, order, messages, stream, ran, clientVars>>
      BY <1>4 DEF Deal, resp
    <2>2. round' \in 0 .. MaxIterations - 1
      BY <2>1
    <2>3. 0 \in 0 .. Len(resp.calls)
      BY <1>1
    <2> QED
      BY <1>1, <1>2, <2>1, <2>2, <2>3 DEF TypeOK, clientVars
  <1> QED
    BY <1>3, <1>4

\* What running a call adds to the request.
LEMMA RunToolAdds ==
    ASSUME TypeOK, RunTool
    PROVE  LET tc == response.calls[done + 1]
           IN  /\ done + 1 \in DOMAIN response.calls /\ done + 1 \in Nat
               /\ tc \in Call /\ response.reasoning \in 0 .. MaxCalls
               /\ <<tc>> \in Seq(Call) /\ response.reasoning \in -1 .. MaxCalls
               /\ messages' = messages \o TurnOf(<<tc>>, response.reasoning)
  <1> DEFINE tc == response.calls[done + 1]
             calls == <<tc>>
             results == [k \in DOMAIN calls |-> ToolMessage(calls[k])]
  <1>1. /\ response.calls \in Seq(Call) /\ response.reasoning \in 0 .. MaxCalls
        /\ done \in 0 .. Len(response.calls) /\ done < Len(response.calls)
    BY DEF TypeOK, RunTool
  <1>2. Len(response.calls) \in Nat /\ DOMAIN response.calls = 1 .. Len(response.calls)
    BY <1>1, LenProperties
  <1>3. done + 1 \in DOMAIN response.calls /\ done + 1 \in Nat
    BY <1>1, <1>2
  <1>4. tc \in Call
    BY <1>1, <1>2, <1>3, ElementOfSeq
  <1>5. messages' = messages \o <<AssistantMessage(calls, response.reasoning), ToolMessage(tc)>>
    BY DEF RunTool
  <1> HIDE DEF tc
  <1>6. results = <<ToolMessage(tc)>>
    <2>1. DOMAIN calls = {1} /\ calls[1] = tc
      OBVIOUS
    <2>2. results = [k \in {1} |-> ToolMessage(tc)]
      BY <2>1
    <2>3. \A x : <<x>> = [k \in {1} |-> x]
      OBVIOUS
    <2> QED
      BY <2>2, <2>3
  <1>7. <<AssistantMessage(calls, response.reasoning), ToolMessage(tc)>>
            = TurnOf(calls, response.reasoning)
    BY <1>6, PairIsConcat DEF TurnOf
  <1>8. calls \in Seq(Call) /\ response.reasoning \in -1 .. MaxCalls
    BY <1>1, <1>4
  <1> QED
    BY <1>1, <1>3, <1>4, <1>5, <1>7, <1>8 DEF tc

LEMMA RunToolTyped == TypeOK /\ RunTool => TypeOK'
  <1> SUFFICES ASSUME TypeOK, RunTool PROVE TypeOK'
    OBVIOUS
  <1> DEFINE tc == response.calls[done + 1]
  <1>1. /\ done + 1 \in DOMAIN response.calls /\ done + 1 \in Nat /\ tc \in Call
        /\ <<tc>> \in Seq(Call) /\ response.reasoning \in -1 .. MaxCalls
        /\ messages' = messages \o TurnOf(<<tc>>, response.reasoning)
    BY RunToolAdds
  <1>2. /\ ran' = Append(ran, tc.n) /\ done' = done + 1
        /\ UNCHANGED <<phase, streaming, order, stream, response, round, minted, cacheVars,
                       clientVars>>
    BY DEF RunTool
  <1> HIDE DEF tc
  <1>3. messages' \in Seq(Turn)
    <2>1. messages \in Seq(Turn)
      BY DEF TypeOK
    <2>2. TurnOf(<<tc>>, response.reasoning) \in Seq(Turn)
      BY <1>1, TurnIsWhole
    <2> QED
      BY <1>1, <2>1, <2>2, ConcatProperties
  <1>4. ran' \in Seq(1 .. MaxCalls)
    <2>1. ran \in Seq(1 .. MaxCalls) /\ tc.n \in 1 .. MaxCalls
      BY <1>1 DEF TypeOK, Call
    <2> QED
      BY <1>2, <2>1, AppendProperties
  <1>5. done' \in 0 .. Len(response'.calls)
    <2>1. response.calls \in Seq(Call)
      BY DEF TypeOK
    <2>2. Len(response.calls) \in Nat /\ DOMAIN response.calls = 1 .. Len(response.calls)
      BY <2>1, LenProperties
    <2> QED
      BY <1>1, <1>2, <2>2
  <1> QED
    BY <1>2, <1>3, <1>4, <1>5 DEF TypeOK, clientVars, cacheVars

LEMMA AskTyped ==
    ASSUME TypeOK, NEW candidates \in Orders, NEW streamed \in BOOLEAN, Ask(candidates, streamed)
    PROVE  TypeOK'
  <1>1. candidates \in Seq(Kind) /\ candidates # <<>>
    OBVIOUS
  <1>2. messages' \in Seq(Turn)
    <2>1. wire \in {"openai", "anthropic"} /\ history \in Seq(Turn)
          /\ remembered \in [1 .. MaxCalls -> 0 .. MaxCalls]
      BY DEF TypeOK
    <2> QED
      BY <2>1, FromClientTyped DEF Ask
  <1>3. turns' \in 0 .. MaxTurns
    BY DEF Ask, TypeOK
  <1>4. ran' \in Seq(1 .. MaxCalls)
    BY DEF Ask
  <1> QED
    BY <1>1, <1>2, <1>3, <1>4 DEF Ask, TypeOK, cacheVars

LEMMA TypeInit == Init => TypeOK
  <1> SUFFICES ASSUME Init PROVE TypeOK
    OBVIOUS
  <1>1. history \in Seq(Turn)
    <2>1. Text("user") \in Turn
      BY TextTyped
    <2> QED
      BY <2>1 DEF Init
  <1>2. None \in [reasoning : 0 .. MaxCalls, calls : Seq(Call)] /\ Len(None.calls) = 0
    BY DEF None, NoReasoning
  <1>3. <<>> \in Seq(Kind) /\ <<>> \in Seq(Turn) /\ <<>> \in Seq(1 .. MaxCalls)
    OBVIOUS
  <1>4. 0 \in 0 .. MaxIterations - 1 /\ 0 \in 0 .. 0 /\ 0 \in 0 .. MaxCalls /\ 0 \in 0 .. MaxTurns
    OBVIOUS
  <1>5. remembered \in [1 .. MaxCalls -> 0 .. MaxCalls] /\ saved = remembered /\ lost = {}
    BY <1>4 DEF Init, Nothing, NoReasoning
  <1> QED
    BY <1>1, <1>2, <1>3, <1>4, <1>5 DEF Init, TypeOK

LEMMA OtherSessionTyped == TypeOK /\ OtherSession => TypeOK'
  <1> SUFFICES ASSUME TypeOK, OtherSession PROVE TypeOK'
    OBVIOUS
  <1>1. remembered' \in [1 .. MaxCalls -> 0 .. MaxCalls]
    <2>1. Nothing \in [1 .. MaxCalls -> 0 .. MaxCalls]
      BY DEF Nothing, NoReasoning
    <2> QED
      BY <2>1 DEF OtherSession, TypeOK
  <1>2. saved' \in [1 .. MaxCalls -> 0 .. MaxCalls]
    BY <1>1 DEF OtherSession, TypeOK
  <1>3. lost' \subseteq 1 .. MaxCalls
    BY DEF OtherSession, TypeOK, Forgotten
  <1>4. UNCHANGED <<phase, minted, requestVars, clientVars>>
    BY DEF OtherSession
  <1> QED
    BY <1>1, <1>2, <1>3, <1>4 DEF TypeOK, requestVars, clientVars

LEMMA RestartTyped == TypeOK /\ Restart => TypeOK'
  <1> SUFFICES ASSUME TypeOK, Restart PROVE TypeOK'
    OBVIOUS
  <1>1. <<>> \in Seq(Kind) /\ <<>> \in Seq(Turn) /\ Len(<<>>) = 0
    OBVIOUS
  <1>2. None \in [reasoning : 0 .. MaxCalls, calls : Seq(Call)] /\ None.calls = <<>>
    BY DEF None, NoReasoning
  <1>3. 0 \in 0 .. MaxIterations - 1 /\ 0 \in 0 .. 0
    OBVIOUS
  <1>4. /\ remembered' \in [1 .. MaxCalls -> 0 .. MaxCalls]
        /\ saved' \in [1 .. MaxCalls -> 0 .. MaxCalls] /\ lost' \subseteq 1 .. MaxCalls
    BY DEF Restart, TypeOK, Forgotten
  <1>5. Over /\ UNCHANGED <<history, handed, minted>>
    BY DEF Restart
  <1> QED
    BY <1>1, <1>2, <1>3, <1>4, <1>5 DEF TypeOK, Over

LEMMA TypeStep == TypeOK /\ [Next]_vars => TypeOK'
  <1> SUFFICES ASSUME TypeOK, [Next]_vars PROVE TypeOK'
    OBVIOUS
  <1>1. ASSUME NEW candidates \in Orders, NEW streamed \in BOOLEAN, Ask(candidates, streamed)
        PROVE  TypeOK'
    BY <1>1, AskTyped
  <1>2. CASE CallFails
    BY <1>2, NextCandidateTyped DEF CallFails
  <1>3. CASE StreamBreaks \/ ToolPanics
    BY <1>3, EndTyped DEF StreamBreaks, ToolPanics
  <1>4. ASSUME NEW names \in Batches, NEW thinks \in BOOLEAN,
               CallReturns(names, thinks) \/ ContinuationReturns(names, thinks)
        PROVE  TypeOK'
    <2>1. round \in Nat /\ 0 \in Nat /\ round + 1 \in Nat
      BY DEF TypeOK
    <2>2. phase # "idle"
      BY <1>4 DEF CallReturns, ContinuationReturns
    <2> QED
      BY <1>4, <2>1, <2>2, DealTyped DEF CallReturns, ContinuationReturns
  <1>5. CASE RunTool
    BY <1>5, RunToolTyped
  <1>6. CASE Continue
    BY <1>6 DEF Continue, TypeOK, clientVars, cacheVars
  <1>7. CASE ContinuationFails
    BY <1>7, EndTyped, NextCandidateTyped DEF ContinuationFails
  <1>8. CASE UNCHANGED vars
    BY <1>8 DEF vars, requestVars, clientVars, cacheVars, TypeOK
  <1>9. CASE OtherSession \/ Restart
    BY <1>9, OtherSessionTyped, RestartTyped
  <1> QED
    BY <1>1, <1>2, <1>3, <1>4, <1>5, <1>6, <1>7, <1>8, <1>9 DEF Next, Serve, Returns

\* Every state of the loop has the shape the code gives it: the round stays below
\* maxServerToolIterations, the tools are run one by one up to the last of the
\* response at hand, and while a request is served there is a candidate for it
\* (complete_common.go:25-40, chat_completions.go:400-431).
THEOREM TypeCorrect == Spec => []TypeOK
  BY TypeInit, TypeStep, PTL DEF Spec

-----------------------------------------------------------------------------
\* What memory and file know of a call the client has: its reasoning, or nothing
\* where memory has lost it and the file may never have had it.  A call without an
\* ID came without reasoning.
Recalled(c, recalled, kept, gone) ==
    \/ /\ c.id = c.n
       /\ recalled[c.n] = c.thought \/ (recalled[c.n] = NoReasoning /\ c.n \in gone)
       /\ kept[c.n] \in {NoReasoning, c.thought}
    \/ c.id = NoID /\ c.thought = NoReasoning

\* The client's conversation.
Client ==
    /\ Whole(history) /\ Identified(CallsIn(history))
    /\ \A k \in DOMAIN history :
          /\ history[k].reasoning = NoReasoning
          /\ history[k].calls # <<>> => history[k].role = "assistant"
    /\ \A c \in CallsIn(history) :
          c.n <= minted /\ c.n \in handed /\ Recalled(c, remembered, saved, lost)
    /\ \A id \in minted + 1 .. MaxCalls :
          remembered[id] = NoReasoning /\ saved[id] = NoReasoning

\* A turn of calls has the reasoning due with its first call: Due as a function of
\* the calls handed over and those lost.
DueBy(c, given, gone) ==
    IF c.n \notin given THEN {c.thought}
    ELSE IF c.thought = NoReasoning THEN {Placeholder}
    ELSE IF c.n \in gone THEN {c.thought, Placeholder}
    ELSE {c.thought}

Reasons(m, given, gone) == m.calls # <<>> => m.reasoning \in DueBy(m.calls[1], given, gone)

\* What is due stays due when more is lost.
LEMMA ReasonsGrow ==
    ASSUME NEW m, NEW given, NEW gone, NEW more, gone \subseteq more, Reasons(m, given, gone)
    PROVE  Reasons(m, given, more)
  BY DEF Reasons, DueBy

\* The request's conversation.
Working ==
    /\ Whole(messages) /\ Identified(CallsIn(messages))
    /\ \A c \in CallsIn(messages) : c.n <= minted
    /\ \A k \in DOMAIN messages : Reasons(messages[k], handed, lost)
    /\ phase # "idle" =>
          \A k \in DOMAIN ran : \E i \in DOMAIN messages : messages[i].answers = ran[k]

\* The response whose calls are run: those left are later than all in the request.
AtHand ==
    phase = "running" =>
        \A k \in DOMAIN response.calls :
            /\ response.calls[k].thought = response.reasoning
            /\ response.calls[k].id \in {NoID, response.calls[k].n}
            /\ k > done => \A c \in CallsIn(messages) : c.n < response.calls[k].n

CInv == Client /\ Working /\ AtHand

LEMMA CallsTyped ==
    ASSUME NEW msgs \in Seq(Turn)
    PROVE  \A c \in CallsIn(msgs) : c \in Call
  <1>1. \A k \in DOMAIN msgs : msgs[k] \in Turn
    BY LenProperties, ElementOfSeq
  <1> QED
    BY <1>1, CallsOfTurn DEF CallsIn

LEMMA EmptyIsWhole == Whole(<<>>) /\ CallsIn(<<>>) = {}
  <1>1. DOMAIN (<<>>) = {}
    OBVIOUS
  <1> QED
    BY <1>1 DEF Whole, CallsIn

LEMMA IdentifiedJoined ==
    ASSUME NEW A, NEW B, NEW C, Identified(A), Identified(B),
           \A a \in A, b \in B : a.n # b.n,
           \A c \in C : c \in A \/ c \in B
    PROVE  Identified(C)
  BY DEF Identified

LEMMA TurnsInit == Init => CInv
  <1> SUFFICES ASSUME Init PROVE CInv
    OBVIOUS
  <1>1. history = <<Text("user")>> /\ DOMAIN history = {1} /\ history[1] = Text("user")
    BY DEF Init
  <1>2. Text("user").calls = <<>> /\ Text("user").answers = NoCall
        /\ Text("user").reasoning = NoReasoning /\ DOMAIN (<<>>) = {}
    BY DEF Text
  <1>3. Whole(history) /\ CallsIn(history) = {}
    BY <1>1, <1>2 DEF Whole, IsAnswered, Linked, CallsIn
  <1>4. \A id \in minted + 1 .. MaxCalls : remembered[id] = NoReasoning /\ saved[id] = NoReasoning
    BY DEF Init, Nothing
  <1>5. Client
    BY <1>1, <1>2, <1>3, <1>4 DEF Client, Identified
  <1>6. Whole(messages) /\ CallsIn(messages) = {} /\ DOMAIN messages = {}
    BY EmptyIsWhole DEF Init
  <1> QED
    BY <1>5, <1>6 DEF Init, CInv, Working, AtHand, Identified

\* A step that leaves both conversations alone, or drops the request's.
LEMMA EndKeepsTurns == CInv /\ EndWithout => CInv'
  <1> SUFFICES ASSUME CInv, EndWithout PROVE CInv'
    OBVIOUS
  <1>1. messages' = <<>> /\ phase' = "idle" /\ UNCHANGED <<history, handed, minted, cacheVars>>
    BY DEF EndWithout, Over
  <1>2. Whole(messages') /\ CallsIn(messages') = {} /\ DOMAIN messages' = {}
    BY <1>1, EmptyIsWhole
  <1>3. Client'
    BY <1>1 DEF CInv, Client, cacheVars
  <1> QED
    BY <1>1, <1>2, <1>3 DEF CInv, Working, AtHand, Identified

LEMMA QuietKeepsTurns ==
    ASSUME CInv, phase # "idle", phase' # "running",
           UNCHANGED <<history, handed, minted, cacheVars, messages, ran>>
    PROVE  CInv'
  <1>1. Client'
    BY DEF CInv, Client, cacheVars
  <1> QED
    BY <1>1 DEF CInv, Working, AtHand, cacheVars

LEMMA NextCandidateKeepsTurns == CInv /\ phase # "idle" /\ NextCandidate => CInv'
  <1> SUFFICES ASSUME CInv, phase # "idle", NextCandidate PROVE CInv'
    OBVIOUS
  <1>1. CASE EndWithout
    BY <1>1, EndKeepsTurns
  <1>2. CASE ~ EndWithout
    <2>1. phase' = "calling" /\ UNCHANGED <<messages, minted, ran, cacheVars, history, handed>>
      BY <1>2 DEF NextCandidate, clientVars
    <2> QED
      BY <2>1, QuietKeepsTurns
  <1> QED
    BY <1>1, <1>2

\* What the client sends: with the reasoning the cache has for it.
LEMMA EchoReasons ==
    ASSUME TypeOK, Client, NEW k \in DOMAIN history
    PROVE  Reasons(Echo(history[k], remembered), handed, lost)
  <1> DEFINE m == history[k]
             c == m.calls[1]
             e == Echo(m, remembered)
  <1>1. m \in Turn /\ m.reasoning = NoReasoning /\ (m.calls # <<>> => m.role = "assistant")
    <2>1. history \in Seq(Turn)
      BY DEF TypeOK
    <2> QED
      BY <2>1, LenProperties, ElementOfSeq DEF Client
  <1>2. e.calls = m.calls
    BY <1>1 DEF Echo, Turn
  <1> SUFFICES ASSUME m.calls # <<>> PROVE Reasons(e, handed, lost)
    BY <1>2 DEF Reasons
  <1>3. c \in CallsIn(history) /\ c \in Call
    <2>1. 1 \in DOMAIN m.calls
      <3>1. m.calls \in Seq(Call) /\ DOMAIN m.calls = 1 .. Len(m.calls)
        BY <1>1, CallsOfTurn
      <3> QED
        BY <3>1, EmptySeq
    <2> QED
      BY <1>1, <2>1, CallsOfTurn DEF CallsIn
  <1>4. /\ DOMAIN remembered = 1 .. MaxCalls
        /\ \/ /\ c.id = c.n /\ c.n \in 1 .. MaxCalls
              /\ \/ remembered[c.n] = c.thought
                 \/ remembered[c.n] = NoReasoning /\ c.n \in lost
           \/ c.id = NoID /\ c.thought = NoReasoning
        /\ c.n \in handed
    BY <1>3 DEF Client, Recalled, TypeOK, Call
  <1>5. e.reasoning = IF c.id \in DOMAIN remembered /\ remembered[c.id] # NoReasoning
                      THEN remembered[c.id] ELSE Placeholder
    BY <1>1 DEF Echo, Turn
  <1>6. e.reasoning \in DueBy(c, handed, lost)
    <2>1. NoID \notin 1 .. MaxCalls
      BY DEF NoID
    <2> HIDE DEF e, c
    <2> QED
      BY <1>4, <1>5, <2>1 DEF DueBy
  <1> HIDE DEF e
  <1> QED
    BY <1>2, <1>6 DEF Reasons

LEMMA AskKeepsTurns ==
    ASSUME TypeOK, CInv, NEW candidates \in Orders, NEW streamed \in BOOLEAN,
           Ask(candidates, streamed)
    PROVE  CInv'
  <1>1. /\ messages' = FromClient(wire, history, remembered) /\ ran' = <<>>
        /\ phase' = "calling" /\ UNCHANGED <<history, handed, minted, cacheVars>>
    BY DEF Ask
  <1>2. history \in Seq(Turn) /\ wire \in {"openai", "anthropic"}
    BY DEF TypeOK
  <1>3. Client'
    BY <1>1 DEF CInv, Client, cacheVars
  <1>4. /\ Whole(messages') /\ \A c \in CallsIn(messages') : c \in CallsIn(history)
        /\ \A k \in DOMAIN messages' : Reasons(messages'[k], handed, lost)
    <2>1. CASE wire = "openai"
      <3>1. /\ SameTurns(history, messages')
            /\ \A k \in DOMAIN history : messages'[k] = Echo(history[k], remembered)
        BY <1>1, <1>2, <2>1, FromOpenAISame DEF FromClient
      <3>2. Whole(messages') /\ CallsIn(messages') = CallsIn(history)
        BY <1>2, <3>1, SameTurnsKeep DEF CInv, Client
      <3>3. \A k \in DOMAIN history : Reasons(Echo(history[k], remembered), handed, lost)
        BY EchoReasons DEF CInv
      <3> QED
        BY <3>1, <3>2, <3>3 DEF SameTurns
    <2>2. CASE wire = "anthropic"
      BY <1>1, <1>2, <2>2, FromAnthropicBare DEF FromClient, Reasons
    <2> QED
      BY <1>2, <2>1, <2>2
  <1>5. Identified(CallsIn(messages')) /\ \A c \in CallsIn(messages') : c.n <= minted
    BY <1>4 DEF CInv, Client, Identified
  <1>6. DOMAIN ran' = {}
    BY <1>1
  <1> QED
    BY <1>1, <1>3, <1>4, <1>5, <1>6 DEF CInv, Working, AtHand, cacheVars

LEMMA Above ==
    ASSUME NEW low \in Int, NEW mid \in Int, NEW top \in Int, low <= mid
    PROVE  \A id \in mid + 1 .. top : id \in low + 1 .. top /\ id \notin low + 1 .. mid
  OBVIOUS

\* The cache learns the reasoning of the new calls and keeps that of the old.
LEMMA RememberingKeeps ==
    ASSUME TypeOK, Client, NEW names \in Batches, NEW thinks \in BOOLEAN, Answers(names, thinks),
           Remember(Minted(names, thinks))
    PROVE  /\ \A id \in 1 .. minted :
                 remembered'[id] = remembered[id] /\ saved'[id] \in {saved[id], remembered[id]}
           /\ \A id \in minted' + 1 .. MaxCalls :
                 remembered'[id] = NoReasoning /\ saved'[id] = NoReasoning
           /\ \A k \in DOMAIN Minted(names, thinks).calls :
                 Recalled(Minted(names, thinks).calls[k], remembered', saved', lost')
           /\ lost' = lost
  <1> DEFINE resp == Minted(names, thinks)
  <1>1. /\ minted \in Nat /\ MaxCalls \in Nat /\ minted' \in minted .. MaxCalls
        /\ \A k \in DOMAIN resp.calls :
              /\ resp.calls[k].n \in minted + 1 .. minted'
              /\ resp.calls[k].thought = resp.reasoning
              /\ \/ resp.calls[k].id = resp.calls[k].n
                 \/ resp.calls[k].id = NoID /\ resp.reasoning = NoReasoning
    <2>1. minted \in 0 .. MaxCalls
      BY DEF TypeOK
    <2>2. /\ minted' \in minted .. MaxCalls
          /\ \A k \in DOMAIN resp.calls :
                /\ resp.calls[k].n \in minted + 1 .. minted'
                /\ resp.calls[k].thought = resp.reasoning
                /\ \/ resp.calls[k].id = resp.calls[k].n
                   \/ resp.calls[k].id = NoID /\ resp.reasoning = NoReasoning
      BY MintedCalls
    <2> HIDE DEF resp
    <2> QED
      BY <2>1, <2>2
  <1>2. /\ DOMAIN remembered = 1 .. MaxCalls
        /\ \A id \in 1 .. MaxCalls :
              remembered'[id] =
                IF resp.reasoning # NoReasoning /\ \E k \in DOMAIN resp.calls : resp.calls[k].id = id
                THEN resp.reasoning ELSE remembered[id]
    BY DEF TypeOK, Remember, Remembering
  <1>3. \A id \in minted + 1 .. MaxCalls : remembered[id] = NoReasoning /\ saved[id] = NoReasoning
    BY DEF Client
  <1>4. (saved' = saved \/ saved' = remembered') /\ lost' = lost
    BY DEF Remember
  <1> HIDE DEF resp
  <1>5. ASSUME NEW id \in 1 .. minted
        PROVE  remembered'[id] = remembered[id] /\ saved'[id] \in {saved[id], remembered[id]}
    <2>1. id \in 1 .. MaxCalls /\ id # NoID /\ id \notin minted + 1 .. minted'
      BY <1>1 DEF NoID
    <2>2. remembered'[id] = remembered[id]
      BY <1>1, <1>2, <2>1
    <2> QED
      BY <1>4, <2>2
  <1>6. ASSUME NEW id \in minted + 1 .. MaxCalls, id \notin minted + 1 .. minted'
        PROVE  remembered'[id] = NoReasoning /\ saved'[id] = NoReasoning
    <2>1. id \in 1 .. MaxCalls /\ id # NoID
      BY <1>1 DEF NoID
    <2>2. remembered'[id] = NoReasoning
      BY <1>1, <1>2, <1>3, <1>6, <2>1
    <2> QED
      BY <1>3, <1>4, <2>1, <2>2
  <1>7. ASSUME NEW k \in DOMAIN resp.calls
        PROVE  Recalled(resp.calls[k], remembered', saved', lost')
    <2>1. CASE resp.calls[k].id = NoID /\ resp.reasoning = NoReasoning
      BY <1>1, <2>1 DEF Recalled
    <2>2. CASE resp.calls[k].id = resp.calls[k].n
      <3> DEFINE id == resp.calls[k].n
      <3>1. id \in 1 .. MaxCalls /\ id \in minted + 1 .. MaxCalls
        BY <1>1
      <3>2. remembered'[id] = resp.reasoning
        BY <1>1, <1>2, <1>3, <2>2, <3>1
      <3>3. saved'[id] \in {NoReasoning, resp.reasoning}
        BY <1>3, <1>4, <3>1, <3>2
      <3> QED
        BY <1>1, <2>2, <3>2, <3>3 DEF Recalled
    <2> QED
      BY <1>1, <2>1, <2>2
  <1>8. \A id \in minted' + 1 .. MaxCalls :
            id \in minted + 1 .. MaxCalls /\ id \notin minted + 1 .. minted'
    <2>1. minted \in Int /\ minted' \in Int /\ minted <= minted' /\ MaxCalls \in Int
      BY <1>1
    <2> QED
      BY <2>1, Above
  <1> QED
    BY <1>4, <1>5, <1>6, <1>7, <1>8 DEF resp

LEMMA DealKeepsTurns ==
    ASSUME TypeOK, CInv, phase # "idle", NEW names \in Batches, NEW thinks \in BOOLEAN, NEW i,
           Answers(names, thinks), Deal(Minted(names, thinks), i),
           Remember(Minted(names, thinks))
    PROVE  CInv'
  <1> DEFINE resp == Minted(names, thinks)
  <1>1. /\ resp = [reasoning |-> resp.reasoning, calls |-> resp.calls]
        /\ minted \in Nat /\ minted' \in Int /\ minted <= minted'
        /\ \A k \in DOMAIN resp.calls :
              /\ resp.calls[k].n = minted + k
              /\ resp.calls[k].n \in minted + 1 .. minted'
              /\ resp.calls[k].thought = resp.reasoning
              /\ resp.calls[k].id \in {NoID, resp.calls[k].n}
    <2>1. /\ resp = [reasoning |-> resp.reasoning, calls |-> resp.calls]
          /\ minted' \in minted .. MaxCalls /\ minted \in 0 .. MaxCalls
          /\ \A k \in DOMAIN resp.calls :
                /\ resp.calls[k].n = minted + k
                /\ resp.calls[k].n \in minted + 1 .. minted'
                /\ resp.calls[k].thought = resp.reasoning
                /\ \/ resp.calls[k].id = resp.calls[k].n
                   \/ resp.calls[k].id = NoID /\ resp.reasoning = NoReasoning
      BY MintedCalls DEF TypeOK
    <2> HIDE DEF resp
    <2> QED
      BY <2>1
  <1>2. resp.calls \in Seq(Call) /\ \A k \in DOMAIN resp.calls : k \in Int
    <2>1. resp \in [reasoning : 0 .. MaxCalls, calls : Seq(Call)]
      BY MintedCalls
    <2>2. resp.calls \in Seq(Call)
      BY <2>1
    <2> QED
      BY <2>2, LenProperties
  <1>3. /\ \A id \in 1 .. minted :
              remembered'[id] = remembered[id] /\ saved'[id] \in {saved[id], remembered[id]}
        /\ \A id \in minted' + 1 .. MaxCalls :
              remembered'[id] = NoReasoning /\ saved'[id] = NoReasoning
        /\ \A k \in DOMAIN resp.calls : Recalled(resp.calls[k], remembered', saved', lost')
        /\ lost' = lost
    BY RememberingKeeps DEF CInv
  <1> DEFINE new == {resp.calls[k] : k \in DOMAIN resp.calls}
  <1>4. Identified(new)
    <2>1. \A j, k \in DOMAIN resp.calls : resp.calls[j].n = resp.calls[k].n => j = k
      BY <1>1, <1>2
    <2> HIDE DEF resp
    <2> QED
      BY <1>1, <2>1 DEF Identified
  <1> HIDE DEF resp
  <1>5. \A c \in CallsIn(history) :
            /\ c.n \in 1 .. minted /\ c.n <= minted' /\ c.n \in handed
            /\ Recalled(c, remembered', saved', lost')
    <2>1. \A c \in CallsIn(history) :
            /\ c \in Call /\ c.n <= minted /\ c.n \in handed
            /\ Recalled(c, remembered, saved, lost)
      BY CallsTyped DEF TypeOK, CInv, Client
    <2>2. \A c \in CallsIn(history) : c.n \in 1 .. minted /\ c.n <= minted'
      BY <1>1, <2>1 DEF Call
    <2> QED
      BY <1>3, <2>1, <2>2 DEF Recalled
  <1>6. \A c \in CallsIn(messages) : c.n <= minted'
    <2>1. \A c \in CallsIn(messages) : c \in Call /\ c.n <= minted
      BY CallsTyped DEF TypeOK, CInv, Working
    <2> QED
      BY <1>1, <2>1 DEF Call
  <1>7. CASE HandOver(resp)
    <2>1. history' = history \o Exchange(resp.calls)
      BY <1>1, <1>2, <1>7, HandOverExtends
    <2>2. /\ history \in Seq(Turn) /\ Exchange(resp.calls) \in Seq(Turn)
          /\ Whole(Exchange(resp.calls)) /\ CallsIn(Exchange(resp.calls)) = new
          /\ \A k \in DOMAIN Exchange(resp.calls) :
                 /\ Exchange(resp.calls)[k].reasoning = NoReasoning
                 /\ Exchange(resp.calls)[k].calls # <<>> =>
                        Exchange(resp.calls)[k].role = "assistant"
      BY <1>2, ExchangeIsWhole DEF TypeOK
    <2>3. /\ Whole(history) /\ Identified(CallsIn(history))
          /\ \A k \in DOMAIN history :
                /\ history[k].reasoning = NoReasoning
                /\ history[k].calls # <<>> => history[k].role = "assistant"
      BY DEF CInv, Client
    <2>4. Whole(history')
      BY <2>1, <2>2, <2>3, WholeJoined
    <2>5. \A c \in CallsIn(history') : c \in CallsIn(history) \/ c \in new
      BY <2>1, <2>2, CallsJoined
    <2>6. \A a \in CallsIn(history), b \in new : a.n # b.n
      BY <1>1, <1>5
    <2>7. Identified(CallsIn(history'))
      BY <1>4, <2>3, <2>5, <2>6, IdentifiedJoined
    <2>8. \A c \in CallsIn(history') :
             /\ c.n <= minted' /\ c.n \in handed'
             /\ Recalled(c, remembered', saved', lost')
      <3>1. handed' = handed \cup {resp.calls[k].n : k \in DOMAIN resp.calls}
        BY <1>7 DEF HandOver
      <3>2. \A c \in new :
               /\ c.n <= minted' /\ c.n \in handed'
               /\ Recalled(c, remembered', saved', lost')
        BY <1>1, <1>3, <3>1
      <3> QED
        BY <1>5, <2>5, <3>1, <3>2
    <2>9. \A k \in DOMAIN history' :
             /\ history'[k].reasoning = NoReasoning
             /\ history'[k].calls # <<>> => history'[k].role = "assistant"
      <3>1. \A k \in DOMAIN history' :
               \/ k \in DOMAIN history /\ history'[k] = history[k]
               \/ \E j \in DOMAIN Exchange(resp.calls) : history'[k] = Exchange(resp.calls)[j]
        BY <2>1, <2>2, Extended
      <3> QED
        BY <2>2, <2>3, <3>1
    <2>10. Client'
      BY <1>3, <2>4, <2>7, <2>8, <2>9 DEF Client
    <2>11. messages' = <<>> /\ phase' = "idle"
      BY <1>7 DEF HandOver, Over
    <2>12. Whole(messages') /\ CallsIn(messages') = {} /\ DOMAIN messages' = {}
      BY <2>11, EmptyIsWhole
    <2> QED
      BY <2>10, <2>11, <2>12 DEF CInv, Working, AtHand, Identified
  <1>8. CASE ~ HandOver(resp)
    <2>1. /\ phase' = "running" /\ response' = resp /\ done' = 0
          /\ UNCHANGED <<messages, ran, history, handed>>
      BY <1>8 DEF Deal, resp, clientVars
    <2>2. Client'
      BY <1>3, <1>5, <2>1 DEF CInv, Client
    <2>3. Working'
      BY <1>3, <1>6, <2>1 DEF CInv, Working
    <2>4. \A k \in DOMAIN resp.calls : \A c \in CallsIn(messages) : c.n < resp.calls[k].n
      <3>1. \A c \in CallsIn(messages) : c \in Call /\ c.n <= minted
        BY CallsTyped DEF TypeOK, CInv, Working
      <3> QED
        BY <1>1, <3>1 DEF Call
    <2>5. AtHand'
      BY <1>1, <2>1, <2>4 DEF AtHand
    <2> QED
      BY <2>2, <2>3, <2>5 DEF CInv
  <1> QED
    BY <1>7, <1>8

\* A call that is run makes a turn of its own, with its result and with the
\* reasoning of the response.
LEMMA RunToolKeepsTurns == TypeOK /\ AtWork /\ CInv /\ RunTool => CInv'
  <1> SUFFICES ASSUME TypeOK, AtWork, CInv, RunTool PROVE CInv'
    OBVIOUS
  <1> DEFINE tc == response.calls[done + 1]
             turn == TurnOf(<<tc>>, response.reasoning)
  <1>1. /\ done + 1 \in DOMAIN response.calls /\ done + 1 \in Nat /\ tc \in Call
        /\ <<tc>> \in Seq(Call) /\ response.reasoning \in -1 .. MaxCalls
        /\ messages' = messages \o turn /\ messages \in Seq(Turn)
    BY RunToolAdds DEF TypeOK
  <1>2. /\ ran' = Append(ran, tc.n) /\ done' = done + 1 /\ phase = "running"
        /\ UNCHANGED <<phase, response, minted, cacheVars, history, handed>>
    BY DEF RunTool, clientVars
  <1>3. PICK b \in Nat : /\ Numbered(response.calls, b) /\ b + Len(response.calls) = minted
                         /\ done \in 0 .. Len(response.calls) /\ handed \subseteq 1 .. b
    BY <1>2 DEF AtWork
  <1>4. \A k \in DOMAIN response.calls :
            k \in Nat /\ response.calls[k].n = b + k /\ response.calls[k].n <= minted
    BY <1>3 DEF Numbered
  <1>5. tc.thought = response.reasoning /\ tc.id \in {NoID, tc.n} /\ tc.n <= minted
    BY <1>1, <1>2, <1>4 DEF CInv, AtHand
  <1>6. \A c \in CallsIn(messages) : c.n < tc.n /\ c \in Call
    <2>1. done + 1 > done
      BY <1>3
    <2> QED
      BY <1>1, <1>2, <2>1, CallsTyped DEF CInv, AtHand
  <1>7. \A k \in DOMAIN response.calls : k > done' => tc.n < response.calls[k].n
    <2>1. tc.n = b + (done + 1)
      BY <1>1, <1>4
    <2>2. done \in Nat
      BY <1>3 DEF Numbered
    <2> HIDE DEF tc
    <2> QED
      BY <1>2, <1>3, <1>4, <2>1, <2>2
  <1>8. tc.n \notin handed
    <2>1. tc.n = b + (done + 1)
      BY <1>1, <1>4
    <2>2. done \in Nat
      BY <1>3 DEF Numbered
    <2> HIDE DEF tc
    <2> QED
      BY <1>3, <2>1, <2>2
  <1> HIDE DEF tc
  <1>9. /\ turn \in Seq(Turn) /\ Whole(turn) /\ CallsIn(turn) = {tc}
        /\ \A k \in DOMAIN turn :
              \/ turn[k] = AssistantMessage(<<tc>>, response.reasoning)
              \/ turn[k].calls = <<>>
        /\ \E k \in DOMAIN turn : turn[k].answers = tc.n
    <2>1. DOMAIN (<<tc>>) = {1} /\ (<<tc>>)[1] = tc
      OBVIOUS
    <2>2. /\ turn \in Seq(Turn) /\ Whole(turn)
          /\ CallsIn(turn) = {(<<tc>>)[k] : k \in DOMAIN (<<tc>>)}
          /\ \A k \in DOMAIN turn :
                \/ turn[k] = AssistantMessage(<<tc>>, response.reasoning)
                \/ turn[k].calls = <<>> /\ turn[k].reasoning = NoReasoning
          /\ \A k \in DOMAIN (<<tc>>) : 1 + k \in DOMAIN turn /\ turn[1 + k].answers = (<<tc>>)[k].n
      BY <1>1, TurnIsWhole
    <2> HIDE DEF turn
    <2> QED
      BY <2>1, <2>2
  <1> HIDE DEF turn
  <1>10. Whole(messages') /\ \A c \in CallsIn(messages') : c \in CallsIn(messages) \/ c = tc
    BY <1>1, <1>9, WholeJoined, CallsJoined DEF CInv, Working
  <1>11. Identified(CallsIn(messages'))
    <2>1. Identified({tc})
      BY <1>5 DEF Identified
    <2>2. \A a \in CallsIn(messages), c \in {tc} : a.n # c.n
      BY <1>1, <1>6 DEF Call
    <2> QED
      BY <1>10, <2>1, <2>2, IdentifiedJoined DEF CInv, Working
  <1>12. /\ \A k \in DOMAIN messages : k \in DOMAIN messages' /\ messages'[k] = messages[k]
         /\ \A k \in DOMAIN turn : \E i \in DOMAIN messages' : messages'[i] = turn[k]
         /\ \A k \in DOMAIN messages' :
               \/ k \in DOMAIN messages /\ messages'[k] = messages[k]
               \/ \E j \in DOMAIN turn : messages'[k] = turn[j]
    <2> DEFINE u == messages \o turn
    <2>1. /\ \A k \in DOMAIN messages : k \in DOMAIN u /\ u[k] = messages[k]
          /\ \A k \in DOMAIN turn :
                Len(messages) + k \in DOMAIN u /\ u[Len(messages) + k] = turn[k]
          /\ \A k \in DOMAIN u :
                \/ k \in DOMAIN messages /\ u[k] = messages[k]
                \/ \E j \in DOMAIN turn : k = Len(messages) + j /\ u[k] = turn[j]
      <3>1. messages \in Seq(Turn) /\ turn \in Seq(Turn)
        BY <1>1, <1>9
      <3> QED
        BY <3>1, Extended
    <2>2. messages' = u
      BY <1>1
    <2> HIDE DEF u
    <2> QED
      BY <2>1, <2>2
  <1>13. \A k \in DOMAIN messages' : Reasons(messages'[k], handed, lost)
    <2>1. Reasons(AssistantMessage(<<tc>>, response.reasoning), handed, lost)
      <3>1. tc.n \notin handed
        BY <1>8
      <3> QED
        BY <1>5, <3>1 DEF Reasons, DueBy, AssistantMessage
    <2>2. \A k \in DOMAIN turn : Reasons(turn[k], handed, lost)
      BY <1>9, <2>1 DEF Reasons
    <2> QED
      BY <1>12, <2>2 DEF CInv, Working
  <1>14. \A k \in DOMAIN ran' : \E i \in DOMAIN messages' : messages'[i].answers = ran'[k]
    <2>1. \A k \in DOMAIN ran' : (k \in DOMAIN ran /\ ran'[k] = ran[k]) \/ ran'[k] = tc.n
      <3>1. ran \in Seq(1 .. MaxCalls) /\ tc.n \in 1 .. MaxCalls
        BY <1>1 DEF TypeOK, Call
      <3>2. /\ Len(ran) \in Nat /\ DOMAIN ran = 1 .. Len(ran)
            /\ DOMAIN ran' = 1 .. Len(ran) + 1
            /\ \A k \in 1 .. Len(ran) : ran'[k] = ran[k]
            /\ ran'[Len(ran) + 1] = tc.n
        BY <1>2, <3>1, AppendProperties, LenProperties
      <3> QED
        BY <3>2
    <2>2. \A k \in DOMAIN ran : \E i \in DOMAIN messages : messages[i].answers = ran[k]
      BY <1>2 DEF CInv, Working
    <2> QED
      BY <1>9, <1>12, <2>1, <2>2
  <1>15. Working'
    <2>1. \A c \in CallsIn(messages') : c.n <= minted'
      BY <1>2, <1>5, <1>10 DEF CInv, Working
    <2> QED
      BY <1>2, <1>10, <1>11, <1>13, <1>14, <2>1 DEF Working, cacheVars
  <1>16. AtHand'
    <2>1. \A k \in DOMAIN response.calls :
            k > done' => \A c \in CallsIn(messages') : c.n < response.calls[k].n
      <3>1. \A k \in DOMAIN response.calls : k > done' => k > done
        BY <1>2, <1>3, <1>4
      <3> QED
        BY <1>2, <1>7, <1>10, <3>1 DEF CInv, AtHand
    <2> QED
      BY <1>2, <2>1 DEF CInv, AtHand
  <1>17. Client'
    BY <1>2 DEF CInv, Client, cacheVars
  <1> QED
    BY <1>15, <1>16, <1>17 DEF CInv

\* Memory may lose what it knew, and the file has no other reasoning to give back.
LEMMA CacheKeepsTurns ==
    ASSUME TypeOK, Client, OtherSession \/ Restart
    PROVE  Client' /\ lost \subseteq lost'
  <1>1. UNCHANGED <<history, handed, minted>>
    BY DEF OtherSession, Restart, clientVars
  <1>2. /\ lost \subseteq lost'
        /\ \A id \in 1 .. MaxCalls :
              /\ saved'[id] \in {saved[id], remembered[id], NoReasoning}
              /\ \/ remembered'[id] \in {remembered[id], NoReasoning}
                 \/ remembered'[id] = saved[id]
              /\ remembered[id] # NoReasoning /\ remembered'[id] = NoReasoning => id \in lost'
    BY DEF OtherSession, Restart, Forgotten, Nothing
  <1>3. ASSUME NEW c \in CallsIn(history)
        PROVE  c.n <= minted' /\ c.n \in handed' /\ Recalled(c, remembered', saved', lost')
    <2>1. c.n \in 1 .. MaxCalls
      BY CallsTyped DEF TypeOK, Call
    <2>2. c.n <= minted /\ c.n \in handed /\ Recalled(c, remembered, saved, lost)
      BY DEF Client
    <2> QED
      BY <1>1, <1>2, <2>1, <2>2 DEF Recalled
  <1>4. ASSUME NEW id \in minted + 1 .. MaxCalls
        PROVE  remembered'[id] = NoReasoning /\ saved'[id] = NoReasoning
    <2>1. id \in 1 .. MaxCalls
      BY DEF TypeOK
    <2>2. remembered[id] = NoReasoning /\ saved[id] = NoReasoning
      BY DEF Client
    <2> QED
      BY <1>2, <2>1, <2>2
  <1> QED
    BY <1>1, <1>2, <1>3, <1>4 DEF Client

LEMMA TurnsStep == TypeOK /\ AtWork /\ CInv /\ [Next]_vars => CInv'
  <1> SUFFICES ASSUME TypeOK, AtWork, CInv, [Next]_vars PROVE CInv'
    OBVIOUS
  <1>1. ASSUME NEW candidates \in Orders, NEW streamed \in BOOLEAN, Ask(candidates, streamed)
        PROVE  CInv'
    BY <1>1, AskKeepsTurns
  <1>2. CASE CallFails
    BY <1>2, NextCandidateKeepsTurns DEF CallFails
  <1>3. CASE StreamBreaks \/ ToolPanics
    BY <1>3, EndKeepsTurns DEF StreamBreaks, ToolPanics
  <1>4. ASSUME NEW names \in Batches, NEW thinks \in BOOLEAN,
               CallReturns(names, thinks) \/ ContinuationReturns(names, thinks)
        PROVE  CInv'
    <2>1. phase # "idle"
      BY <1>4 DEF CallReturns, ContinuationReturns
    <2> QED
      BY <1>4, <2>1, DealKeepsTurns DEF CallReturns, ContinuationReturns
  <1>5. CASE RunTool
    BY <1>5, RunToolKeepsTurns
  <1>6. CASE Continue
    BY <1>6, QuietKeepsTurns DEF Continue, clientVars
  <1>7. CASE ContinuationFails
    BY <1>7, EndKeepsTurns, NextCandidateKeepsTurns DEF ContinuationFails
  <1>8. CASE UNCHANGED vars
    <2>1. Client'
      BY <1>8 DEF vars, clientVars, cacheVars, CInv, Client
    <2>2. Working' /\ AtHand'
      BY <1>8 DEF vars, requestVars, clientVars, cacheVars, CInv, Working, AtHand
    <2> QED
      BY <2>1, <2>2 DEF CInv
  <1>9. CASE OtherSession
    <2>1. Client' /\ lost \subseteq lost'
      BY <1>9, CacheKeepsTurns DEF CInv
    <2>2. UNCHANGED <<phase, messages, minted, handed, ran, response, done>>
      BY <1>9 DEF OtherSession, requestVars, clientVars
    <2>3. \A k \in DOMAIN messages : Reasons(messages[k], handed, lost')
      BY <2>1, ReasonsGrow DEF CInv, Working
    <2>4. Working' /\ AtHand'
      BY <2>2, <2>3 DEF CInv, Working, AtHand
    <2> QED
      BY <2>1, <2>4 DEF CInv
  <1>10. CASE Restart
    <2>1. Client'
      BY <1>10, CacheKeepsTurns DEF CInv
    <2>2. messages' = <<>> /\ phase' = "idle"
      BY <1>10 DEF Restart, Over
    <2>3. Whole(messages') /\ CallsIn(messages') = {} /\ DOMAIN messages' = {}
      BY <2>2, EmptyIsWhole
    <2> QED
      BY <2>1, <2>2, <2>3 DEF CInv, Working, AtHand, Identified
  <1> QED
    BY <1>1, <1>2, <1>3, <1>4, <1>5, <1>6, <1>7, <1>8, <1>9, <1>10 DEF Next, Serve, Returns

LEMMA TurnsInvariance == Spec => []CInv
  BY TypeInit, TypeStep, InitInv, StepInv, TurnsInit, TurnsStep, PTL DEF Spec, IInv

\* While a provider is called, what it gets has the turns of the request.
LEMMA WhatIsSent ==
    ASSUME TypeOK, Sending
    PROVE  messages \in Seq(Turn) /\ Head(order) \in Kind
  <1>1. order \in Seq(Kind) /\ order # <<>>
    BY DEF TypeOK, Sending
  <1> QED
    BY <1>1, HeadTailProperties DEF TypeOK

\* Every provider, of whatever kind, gets turns of tool calls followed by the
\* results of exactly these calls, whatever was run, handed over or failed over
\* before (chat_completions.go:413-420, complete_common.go:27; anthropic.go:
\* 223-260, gemini.go:173-237).
THEOREM WholeToolTurns == Spec => []ToolTurnsAreWhole
  <1>1. TypeOK /\ CInv => ToolTurnsAreWhole
    BY WhatIsSent, SentWhole DEF ToolTurnsAreWhole, Sent, CInv, Working
  <1> QED
    BY <1>1, TypeCorrect, TurnsInvariance, PTL

\* What a tool did for a request is in everything sent for it from then on, whoever
\* it is sent to (complete_common.go:27).
THEOREM WorkSurvivesFailover == Spec => []WorkIsPassedOn
  <1>1. ASSUME TypeOK, CInv PROVE WorkIsPassedOn
    <2> SUFFICES ASSUME Sending, NEW k \in DOMAIN ran
                 PROVE  \E i \in DOMAIN Sent : Sent[i].answers = ran[k]
      BY DEF WorkIsPassedOn
    <2>1. SameTurns(messages, Sent)
      BY <1>1, WhatIsSent, SentSame DEF Sent
    <2>2. \E i \in DOMAIN messages : messages[i].answers = ran[k]
      BY <1>1 DEF CInv, Working, Sending
    <2> QED
      BY <2>1, <2>2 DEF SameTurns
  <1> QED
    BY <1>1, TypeCorrect, TurnsInvariance, PTL

\* A provider that reads reasoning gets each turn of calls with the reasoning its
\* first call came with, through the client's hands and the session's cache, and the
\* placeholder only for calls that had none or whose reasoning the cache has lost,
\* to another session's cap or to a restart (chat_completions.go:170-190, 319-334,
\* 358-363, 384-398).
THEOREM ReasoningIsReturned == Spec => []ReasoningGoesBack
  <1>1. ASSUME TypeOK, CInv PROVE ReasoningGoesBack
    <2> SUFFICES ASSUME Sending, Head(order) = "openai", NEW k \in DOMAIN Sent,
                        Sent[k].calls # <<>>
                 PROVE  Sent[k].reasoning \in Due(Sent[k].calls[1])
      BY DEF ReasoningGoesBack
    <2>1. /\ SameTurns(messages, Sent)
          /\ \A i \in DOMAIN messages : Sent[i].reasoning = messages[i].reasoning
      BY <1>1, WhatIsSent, SentSame DEF Sent
    <2>2. k \in DOMAIN messages /\ Reasons(messages[k], handed, lost)
      BY <1>1, <2>1 DEF SameTurns, CInv, Working
    <2> QED
      BY <2>1, <2>2 DEF SameTurns, Reasons, DueBy, Due
  <1> QED
    BY <1>1, TypeCorrect, TurnsInvariance, PTL

-----------------------------------------------------------------------------
\* No tool call is run twice, or run and handed over, whatever the models answer,
\* whichever candidates fail and wherever the cap lies (chat_completions.go:
\* 400-431, complete_common.go:25-40): a call leaves the router's hands in the
\* response it came in, and a response is either run or handed over.
THEOREM OneOwnerPerCall == Spec => []RunsOnceOrHandsOver
  BY Invariance, PTL DEF IInv

\* Every request is asked for in the way its answer is read
\* (chat_completions.go:422-424).
THEOREM PlainContinuations == Spec => []AnswersAreReadAsAsked
  BY Invariance, PTL DEF IInv, Flags
=============================================================================
