------------------------ MODULE ServedMessageProofs ------------------------
(* Proofs about what a client is served of a stream: the content blocks and the *)
(* end of an Anthropic message, and the tool calls on either wire.              *)
EXTENDS StreamServingProofs

-----------------------------------------------------------------------------
\* The events an Anthropic client may be sent, and where which of them are.
WireEvents ==
    [event : {"message_start", "text_start", "text_delta", "tool_start", "tool_delta",
              "block_stop", "message_delta", "message_stop", "error"},
     block : {-1} \cup Nat]

IsStart(e) == e.block >= 0 /\ e.event \in {"text_start", "tool_start"}
IsStop(e, i) == e.block >= 0 /\ e.event = "block_stop" /\ e.block = i

StartsIn(s) == {k \in DOMAIN s : IsStart(s[k])}
StopsIn(s, i) == {k \in DOMAIN s : IsStop(s[k], i)}
Named(s, name) == {k \in DOMAIN s : s[k].event = name}

Begun(s) == s # <<>> /\ s[1].event = "message_start"

\* What BlocksInSequence says of the event at k.
Fits(s, k) ==
    /\ s[k].block >= 0 => s[1].event = "message_start"
    /\ IsStart(s[k]) => s[k].block = Cardinality({l \in StartsIn(s) : l < k})
    /\ s[k].event \in {"text_start", "tool_start", "message_delta"} =>
          \A l \in StartsIn(s) : l < k => \E m \in StopsIn(s, s[l].block) : l < m /\ m < k
    /\ s[k].block >= 0 /\ ~IsStart(s[k]) =>
          \E l \in StartsIn(s) : /\ l < k /\ s[l].block = s[k].block
                                 /\ \A m \in StopsIn(s, s[l].block) : k <= m

InSequence(s) == \A k \in DOMAIN s : Fits(s, k)

\* Where a stream of events stands: block i is open, or is the next to be opened;
\* so many tool_use blocks were started, and message_stop was sent there.
At(s, open, i, tools, ends) ==
    /\ s \in Seq(WireEvents) /\ InSequence(s) /\ i \in Nat /\ open \in BOOLEAN
    /\ StartsIn(s) # {} => Begun(s)
    /\ IsFiniteSet(StartsIn(s)) /\ Cardinality(StartsIn(s)) = IF open THEN i + 1 ELSE i
    /\ \A k \in DOMAIN s : s[k].block <= IF open THEN i ELSE i - 1
    /\ \A l \in StartsIn(s) : s[l].block < i => \E m \in StopsIn(s, s[l].block) : l < m
    /\ open => StopsIn(s, i) = {} /\ \E l \in StartsIn(s) : s[l].block = i
    /\ IsFiniteSet(Named(s, "tool_start")) /\ Cardinality(Named(s, "tool_start")) = tools
    /\ Named(s, "message_stop") = ends

-----------------------------------------------------------------------------
\* One more event.
LEMMA OneMore ==
    ASSUME NEW S, NEW s \in Seq(S), NEW e \in S
    PROVE  /\ s \o <<e>> \in Seq(S) /\ Len(s \o <<e>>) = Len(s) + 1 /\ Len(s) \in Nat
           /\ DOMAIN s = 1 .. Len(s) /\ DOMAIN (s \o <<e>>) = 1 .. Len(s) + 1
           /\ (s \o <<e>>)[Len(s) + 1] = e
           /\ \A k \in DOMAIN s : (s \o <<e>>)[k] = s[k]
  <1>1. s \o <<e>> = Append(s, e)
    BY AppendIsConcat
  <1>2. /\ Append(s, e) \in Seq(S) /\ Len(Append(s, e)) = Len(s) + 1
        /\ \A k \in 1 .. Len(s) : Append(s, e)[k] = s[k]
        /\ Append(s, e)[Len(s) + 1] = e
    BY AppendProperties
  <1> QED
    BY <1>1, <1>2, LenProperties

\* It adds to what it is, and only to that.
LEMMA OneMoreAdds ==
    ASSUME NEW s \in Seq(WireEvents), NEW e \in WireEvents
    PROVE  /\ StartsIn(s \o <<e>>) = StartsIn(s) \cup (IF IsStart(e) THEN {Len(s) + 1} ELSE {})
           /\ \A i : StopsIn(s \o <<e>>, i) =
                          StopsIn(s, i) \cup (IF IsStop(e, i) THEN {Len(s) + 1} ELSE {})
           /\ \A name : Named(s \o <<e>>, name) =
                             Named(s, name) \cup (IF e.event = name THEN {Len(s) + 1} ELSE {})
  <1> DEFINE u == s \o <<e>>
  <1>1. /\ u \in Seq(WireEvents) /\ Len(u) = Len(s) + 1 /\ Len(s) \in Nat
        /\ DOMAIN s = 1 .. Len(s) /\ DOMAIN u = 1 .. Len(s) + 1
        /\ u[Len(s) + 1] = e /\ \A k \in DOMAIN s : u[k] = s[k]
    BY OneMore
  <1> HIDE DEF u
  <1>2. DOMAIN u = DOMAIN s \cup {Len(s) + 1}
    BY <1>1
  <1>3. StartsIn(u) = StartsIn(s) \cup (IF IsStart(e) THEN {Len(s) + 1} ELSE {})
    BY <1>1, <1>2 DEF StartsIn
  <1>4. \A i : StopsIn(u, i) = StopsIn(s, i) \cup (IF IsStop(e, i) THEN {Len(s) + 1} ELSE {})
    BY <1>1, <1>2 DEF StopsIn
  <1>5. \A name : Named(u, name) = Named(s, name) \cup (IF e.event = name THEN {Len(s) + 1} ELSE {})
    BY <1>1, <1>2 DEF Named
  <1> QED
    BY <1>3, <1>4, <1>5 DEF u

\* An event that fits keeps the blocks in sequence.
LEMMA OneMoreFits ==
    ASSUME NEW s \in Seq(WireEvents), NEW e \in WireEvents, InSequence(s),
           e.block >= 0 => Begun(s),
           IsStart(e) => e.block = Cardinality(StartsIn(s)),
           e.event \in {"text_start", "tool_start", "message_delta"} =>
               \A l \in StartsIn(s) : \E m \in StopsIn(s, s[l].block) : l < m,
           e.block >= 0 /\ ~IsStart(e) =>
               StopsIn(s, e.block) = {} /\ \E l \in StartsIn(s) : s[l].block = e.block
    PROVE  InSequence(s \o <<e>>)
  <1> DEFINE u == s \o <<e>>
             n == Len(s) + 1
  <1>1. /\ u \in Seq(WireEvents) /\ Len(s) \in Nat /\ n \in Nat
        /\ DOMAIN s = 1 .. Len(s) /\ DOMAIN u = DOMAIN s \cup {n}
        /\ u[n] = e /\ \A k \in DOMAIN s : u[k] = s[k]
        /\ \A k \in DOMAIN s : k < n /\ k \in Nat
    <2>1. /\ u \in Seq(WireEvents) /\ Len(s) \in Nat
          /\ DOMAIN s = 1 .. Len(s) /\ DOMAIN u = 1 .. Len(s) + 1
          /\ u[Len(s) + 1] = e /\ \A k \in DOMAIN s : u[k] = s[k]
      BY OneMore
    <2> HIDE DEF u
    <2> QED
      BY <2>1
  <1>2. /\ StartsIn(u) = StartsIn(s) \cup (IF IsStart(e) THEN {n} ELSE {})
        /\ \A i : StopsIn(u, i) = StopsIn(s, i) \cup (IF IsStop(e, i) THEN {n} ELSE {})
    BY OneMoreAdds
  <1>3. StartsIn(s) \subseteq DOMAIN s /\ \A i : StopsIn(s, i) \subseteq DOMAIN s
    BY DEF StartsIn, StopsIn
  <1> HIDE DEF u, n
  <1>4. ASSUME NEW k \in DOMAIN s
        PROVE  Fits(u, k)
    <2>1. Fits(s, k) /\ u[k] = s[k] /\ k < n /\ k \in Nat
      BY <1>1 DEF InSequence
    <2>2. {l \in StartsIn(u) : l < k} = {l \in StartsIn(s) : l < k}
      BY <1>1, <1>2, <2>1
    <2>3. u[1] = s[1]
      <3>1. 1 \in DOMAIN s
        BY <1>1
      <3> QED
        BY <1>1, <3>1
    <2>4. s[k].event \in {"text_start", "tool_start", "message_delta"} =>
            \A l \in StartsIn(u) : l < k => \E m \in StopsIn(u, u[l].block) : l < m /\ m < k
      <3> SUFFICES ASSUME s[k].event \in {"text_start", "tool_start", "message_delta"},
                          NEW l \in StartsIn(u), l < k
                   PROVE  \E m \in StopsIn(u, u[l].block) : l < m /\ m < k
        OBVIOUS
      <3>1. l \in StartsIn(s) /\ u[l] = s[l]
        BY <1>1, <1>2, <1>3, <2>1
      <3>2. \E m \in StopsIn(s, s[l].block) : l < m /\ m < k
        BY <2>1, <3>1 DEF Fits
      <3> QED
        BY <1>2, <3>1, <3>2
    <2>5. s[k].block >= 0 /\ ~IsStart(s[k]) =>
            \E l \in StartsIn(u) : /\ l < k /\ u[l].block = s[k].block
                                   /\ \A m \in StopsIn(u, u[l].block) : k <= m
      <3> SUFFICES ASSUME s[k].block >= 0, ~IsStart(s[k])
                   PROVE  \E l \in StartsIn(u) : /\ l < k /\ u[l].block = s[k].block
                                                 /\ \A m \in StopsIn(u, u[l].block) : k <= m
        OBVIOUS
      <3>1. PICK l \in StartsIn(s) : /\ l < k /\ s[l].block = s[k].block
                                     /\ \A m \in StopsIn(s, s[l].block) : k <= m
        BY <2>1 DEF Fits
      <3>2. l \in StartsIn(u) /\ u[l] = s[l]
        BY <1>1, <1>2, <1>3, <3>1
      <3>3. k <= n
        BY <1>1, <2>1
      <3>4. \A m \in StopsIn(u, u[l].block) : k <= m
        BY <1>2, <3>1, <3>2, <3>3
      <3> QED
        BY <3>1, <3>2, <3>4
    <2> QED
      BY <2>1, <2>2, <2>3, <2>4, <2>5 DEF Fits
  <1>5. Fits(u, n)
    <2>1. {l \in StartsIn(u) : l < n} = StartsIn(s)
      BY <1>1, <1>2, <1>3
    <2>2. e.block >= 0 => u[1].event = "message_start"
      <3>1. Begun(s) => 1 \in DOMAIN s
        BY <1>1, EmptySeq DEF Begun
      <3> QED
        BY <1>1, <3>1 DEF Begun
    <2>3. e.event \in {"text_start", "tool_start", "message_delta"} =>
            \A l \in StartsIn(u) : l < n => \E m \in StopsIn(u, u[l].block) : l < m /\ m < n
      <3> SUFFICES ASSUME e.event \in {"text_start", "tool_start", "message_delta"},
                          NEW l \in StartsIn(u), l < n
                   PROVE  \E m \in StopsIn(u, u[l].block) : l < m /\ m < n
        OBVIOUS
      <3>1. l \in StartsIn(s) /\ u[l] = s[l]
        BY <1>1, <1>3, <2>1
      <3>2. PICK m \in StopsIn(s, s[l].block) : l < m
        BY <3>1
      <3>3. m < n /\ m \in StopsIn(u, u[l].block)
        BY <1>1, <1>2, <1>3, <3>1
      <3> QED
        BY <3>2, <3>3
    <2>4. e.block >= 0 /\ ~IsStart(e) =>
            \E l \in StartsIn(u) : /\ l < n /\ u[l].block = e.block
                                   /\ \A m \in StopsIn(u, u[l].block) : n <= m
      <3> SUFFICES ASSUME e.block >= 0, ~IsStart(e)
                   PROVE  \E l \in StartsIn(u) : /\ l < n /\ u[l].block = e.block
                                                 /\ \A m \in StopsIn(u, u[l].block) : n <= m
        OBVIOUS
      <3>1. PICK l \in StartsIn(s) : s[l].block = e.block /\ StopsIn(s, e.block) = {}
        OBVIOUS
      <3>2. l \in StartsIn(u) /\ u[l] = s[l] /\ l < n
        BY <1>1, <1>2, <1>3, <3>1
      <3>3. \A m \in StopsIn(u, e.block) : m = n
        BY <1>2, <3>1
      <3>4. n <= n
        BY <1>1
      <3> QED
        BY <3>1, <3>2, <3>3, <3>4
    <2> QED
      BY <1>1, <2>1, <2>2, <2>3, <2>4 DEF Fits
  <1> QED
    BY <1>1, <1>4, <1>5 DEF InSequence, u

-----------------------------------------------------------------------------
\* What begins with message_start goes on doing so.
LEMMA BegunStays ==
    ASSUME NEW S, NEW s \in Seq(S), NEW t \in Seq(S), Begun(s)
    PROVE  Begun(s \o t)
  <1>1. 1 \in DOMAIN s
    BY LenProperties, EmptySeq DEF Begun
  <1>2. 1 \in DOMAIN (s \o t) /\ (s \o t)[1] = s[1]
    BY <1>1, Extended
  <1>3. DOMAIN (<<>>) = {}
    OBVIOUS
  <1> QED
    BY <1>2, <1>3 DEF Begun

\* An event of no block: the blocks stand as they did.
LEMMA PlainKeeps ==
    ASSUME NEW s, NEW open, NEW i, NEW tools, NEW ends, At(s, open, i, tools, ends),
           NEW e \in WireEvents, e.block = -1,
           e.event \in {"message_start", "message_delta", "error", "message_stop"},
           e.event = "message_delta" => ~open
    PROVE  At(s \o <<e>>, open, i, tools,
              ends \cup (IF e.event = "message_stop" THEN {Len(s) + 1} ELSE {}))
  <1> DEFINE u == s \o <<e>>
  <1>1. /\ s \in Seq(WireEvents) /\ InSequence(s) /\ i \in Nat /\ open \in BOOLEAN
        /\ \A k \in DOMAIN s : s[k].block <= IF open THEN i ELSE i - 1
        /\ \A l \in StartsIn(s) : s[l].block < i => \E m \in StopsIn(s, s[l].block) : l < m
    BY DEF At
  <1>2. /\ u \in Seq(WireEvents) /\ Len(s) \in Nat
        /\ DOMAIN s = 1 .. Len(s) /\ DOMAIN u = DOMAIN s \cup {Len(s) + 1}
        /\ u[Len(s) + 1] = e /\ \A k \in DOMAIN s : u[k] = s[k]
    <2>1. /\ u \in Seq(WireEvents) /\ Len(s) \in Nat
          /\ DOMAIN s = 1 .. Len(s) /\ DOMAIN u = 1 .. Len(s) + 1
          /\ u[Len(s) + 1] = e /\ \A k \in DOMAIN s : u[k] = s[k]
      BY <1>1, OneMore
    <2> HIDE DEF u
    <2> QED
      BY <2>1
  <1>3. /\ StartsIn(u) = StartsIn(s) /\ \A j : StopsIn(u, j) = StopsIn(s, j)
        /\ Named(u, "tool_start") = Named(s, "tool_start")
        /\ Named(u, "message_stop") =
               Named(s, "message_stop") \cup (IF e.event = "message_stop" THEN {Len(s) + 1} ELSE {})
    <2>1. ~IsStart(e) /\ \A j : ~IsStop(e, j)
      BY DEF IsStart, IsStop
    <2>2. /\ StartsIn(u) = StartsIn(s) \cup (IF IsStart(e) THEN {Len(s) + 1} ELSE {})
          /\ \A j : StopsIn(u, j) = StopsIn(s, j) \cup (IF IsStop(e, j) THEN {Len(s) + 1} ELSE {})
          /\ \A name : Named(u, name) =
                            Named(s, name) \cup (IF e.event = name THEN {Len(s) + 1} ELSE {})
      BY <1>1, OneMoreAdds
    <2> HIDE DEF u
    <2> QED
      BY <2>1, <2>2
  <1>4. StartsIn(s) \subseteq DOMAIN s
    BY DEF StartsIn
  <1>5. InSequence(u)
    <2>1. ASSUME e.event = "message_delta", NEW l \in StartsIn(s)
          PROVE  \E m \in StopsIn(s, s[l].block) : l < m
      <3> HIDE DEF u
      <3>1. s[l].block \in {-1} \cup Nat
        <4>1. s[l] \in WireEvents
          BY <1>1, <1>2, <1>4, <2>1, ElementOfSeq
        <4> QED
          BY <4>1 DEF WireEvents
      <3>2. s[l].block <= i - 1
        BY <1>1, <1>4, <2>1
      <3>3. s[l].block < i
        BY <1>1, <3>1, <3>2
      <3> QED
        BY <1>1, <3>3
    <2>2. ~IsStart(e) /\ ~(e.block >= 0) /\ e.event \notin {"text_start", "tool_start"}
      BY DEF IsStart
    <2> HIDE DEF u
    <2>3. InSequence(s \o <<e>>)
      BY <1>1, <2>1, <2>2, OneMoreFits
    <2> QED
      BY <2>3 DEF u
  <1>6. Begun(s) => Begun(u)
    <2>1. <<e>> \in Seq(WireEvents)
      OBVIOUS
    <2> QED
      BY <1>1, <2>1, BegunStays
  <1> HIDE DEF u
  <1>7. \A k \in DOMAIN u : u[k].block <= IF open THEN i ELSE i - 1
    BY <1>1, <1>2
  <1>8. \A l \in StartsIn(u) : u[l] = s[l]
    BY <1>2, <1>3, <1>4
  <1> QED
    BY <1>1, <1>2, <1>3, <1>5, <1>6, <1>7, <1>8 DEF At, u

\* The next block is opened.
LEMMA StartKeeps ==
    ASSUME NEW s, NEW i, NEW tools, NEW ends, At(s, FALSE, i, tools, ends), Begun(s),
           NEW e \in WireEvents, e.block = i, e.event \in {"text_start", "tool_start"}
    PROVE  At(s \o <<e>>, TRUE, i, IF e.event = "tool_start" THEN tools + 1 ELSE tools, ends)
  <1> DEFINE u == s \o <<e>>
             n == Len(s) + 1
  <1>1. /\ s \in Seq(WireEvents) /\ InSequence(s) /\ i \in Nat
        /\ IsFiniteSet(StartsIn(s)) /\ Cardinality(StartsIn(s)) = i
        /\ \A k \in DOMAIN s : s[k].block <= i - 1
        /\ \A l \in StartsIn(s) : s[l].block < i => \E m \in StopsIn(s, s[l].block) : l < m
        /\ IsFiniteSet(Named(s, "tool_start")) /\ Cardinality(Named(s, "tool_start")) = tools
        /\ Named(s, "message_stop") = ends
    BY DEF At
  <1>2. /\ u \in Seq(WireEvents) /\ Len(s) \in Nat
        /\ DOMAIN s = 1 .. Len(s) /\ DOMAIN u = DOMAIN s \cup {n} /\ n \notin DOMAIN s
        /\ u[n] = e /\ \A k \in DOMAIN s : u[k] = s[k]
    <2>1. /\ u \in Seq(WireEvents) /\ Len(s) \in Nat
          /\ DOMAIN s = 1 .. Len(s) /\ DOMAIN u = 1 .. Len(s) + 1
          /\ u[Len(s) + 1] = e /\ \A k \in DOMAIN s : u[k] = s[k]
      BY <1>1, OneMore
    <2> HIDE DEF u
    <2> QED
      BY <2>1
  <1>3. /\ StartsIn(s) \subseteq DOMAIN s /\ Named(s, "tool_start") \subseteq DOMAIN s
        /\ \A j : StopsIn(s, j) \subseteq DOMAIN s
    BY DEF StartsIn, Named, StopsIn
  <1>4. IsStart(e) /\ (\A j : ~IsStop(e, j)) /\ e.event # "message_stop" /\ e.event # "message_delta"
    BY <1>1 DEF IsStart, IsStop
  <1>5. /\ StartsIn(u) = StartsIn(s) \cup {n} /\ \A j : StopsIn(u, j) = StopsIn(s, j)
        /\ Named(u, "tool_start") =
               Named(s, "tool_start") \cup (IF e.event = "tool_start" THEN {n} ELSE {})
        /\ Named(u, "message_stop") = ends
    <2>1. /\ StartsIn(u) = StartsIn(s) \cup (IF IsStart(e) THEN {n} ELSE {})
          /\ \A j : StopsIn(u, j) = StopsIn(s, j) \cup (IF IsStop(e, j) THEN {n} ELSE {})
          /\ \A name : Named(u, name) =
                            Named(s, name) \cup (IF e.event = name THEN {n} ELSE {})
      BY <1>1, OneMoreAdds
    <2> HIDE DEF u, n
    <2> QED
      BY <1>1, <1>4, <2>1
  <1>6. ASSUME NEW l \in StartsIn(s)
        PROVE  s[l].block < i /\ \E m \in StopsIn(s, s[l].block) : l < m
    <2> HIDE DEF u, n
    <2>1. s[l].block \in {-1} \cup Nat
      <3>1. s[l] \in WireEvents
        BY <1>1, <1>2, <1>3, <1>6, ElementOfSeq
      <3> QED
        BY <3>1 DEF WireEvents
    <2>2. s[l].block <= i - 1
      BY <1>1, <1>3
    <2>3. s[l].block < i
      BY <1>1, <2>1, <2>2
    <2> QED
      BY <1>1, <2>3
  <1>7. InSequence(u)
    <2> HIDE DEF u
    <2>1. InSequence(s \o <<e>>)
      BY <1>1, <1>4, <1>6, OneMoreFits
    <2> QED
      BY <2>1 DEF u
  <1>8. Begun(u)
    <2>1. <<e>> \in Seq(WireEvents)
      OBVIOUS
    <2> QED
      BY <1>1, <2>1, BegunStays
  <1> HIDE DEF u, n
  <1>9. IsFiniteSet(StartsIn(u)) /\ Cardinality(StartsIn(u)) = i + 1
    BY <1>1, <1>2, <1>3, <1>5, FS_AddElement
  <1>10. /\ IsFiniteSet(Named(u, "tool_start"))
         /\ Cardinality(Named(u, "tool_start")) =
                IF e.event = "tool_start" THEN tools + 1 ELSE tools
    <2>1. CASE e.event = "tool_start"
      <3>1. Named(u, "tool_start") = Named(s, "tool_start") \cup {n} /\ n \notin Named(s, "tool_start")
        BY <1>2, <1>3, <1>5, <2>1
      <3> QED
        BY <1>1, <2>1, <3>1, FS_AddElement
    <2>2. CASE e.event # "tool_start"
      BY <1>1, <1>5, <2>2
    <2> QED
      BY <2>1, <2>2
  <1>11. \A k \in DOMAIN u : u[k].block <= i
    <2>1. \A k \in DOMAIN s : s[k] \in WireEvents
      BY <1>1, <1>2, ElementOfSeq
    <2>2. \A k \in DOMAIN s : s[k].block <= i
      BY <1>1, <2>1 DEF WireEvents
    <2>3. i <= i
      BY <1>1
    <2> QED
      BY <1>2, <2>2, <2>3
  <1>12. \A l \in StartsIn(u) : u[l].block < i => \E m \in StopsIn(u, u[l].block) : l < m
    <2>1. ~(i < i)
      BY <1>1
    <2> QED
      BY <1>2, <1>3, <1>5, <1>6, <2>1
  <1>13. StopsIn(u, i) = {}
    <2>1. \A k \in DOMAIN s : s[k].block # i
      BY <1>1
    <2> QED
      BY <1>5, <2>1 DEF StopsIn, IsStop
  <1>14. \E l \in StartsIn(u) : u[l].block = i
    BY <1>2, <1>5
  <1> QED
    BY <1>1, <1>2, <1>5, <1>7, <1>8, <1>9, <1>10, <1>11, <1>12, <1>13, <1>14 DEF At, u

\* Something of the open block.
LEMMA FragmentKeeps ==
    ASSUME NEW s, NEW i, NEW tools, NEW ends, At(s, TRUE, i, tools, ends),
           NEW e \in WireEvents, e.block = i, e.event \in {"text_delta", "tool_delta", "block_stop"}
    PROVE  IF e.event = "block_stop" THEN At(s \o <<e>>, FALSE, i + 1, tools, ends)
           ELSE At(s \o <<e>>, TRUE, i, tools, ends)
  <1> DEFINE u == s \o <<e>>
             n == Len(s) + 1
             closed == e.event = "block_stop"
  <1>1. /\ s \in Seq(WireEvents) /\ InSequence(s) /\ i \in Nat
        /\ StartsIn(s) # {} => Begun(s)
        /\ IsFiniteSet(StartsIn(s)) /\ Cardinality(StartsIn(s)) = i + 1
        /\ \A k \in DOMAIN s : s[k].block <= i
        /\ \A l \in StartsIn(s) : s[l].block < i => \E m \in StopsIn(s, s[l].block) : l < m
        /\ StopsIn(s, i) = {} /\ \E l \in StartsIn(s) : s[l].block = i
        /\ IsFiniteSet(Named(s, "tool_start")) /\ Cardinality(Named(s, "tool_start")) = tools
        /\ Named(s, "message_stop") = ends
    BY DEF At
  <1>2. /\ u \in Seq(WireEvents) /\ Len(s) \in Nat
        /\ DOMAIN s = 1 .. Len(s) /\ DOMAIN u = DOMAIN s \cup {n}
        /\ u[n] = e /\ \A k \in DOMAIN s : u[k] = s[k] /\ k < n
    <2>1. /\ u \in Seq(WireEvents) /\ Len(s) \in Nat
          /\ DOMAIN s = 1 .. Len(s) /\ DOMAIN u = 1 .. Len(s) + 1
          /\ u[Len(s) + 1] = e /\ \A k \in DOMAIN s : u[k] = s[k]
      BY <1>1, OneMore
    <2> HIDE DEF u
    <2> QED
      BY <2>1
  <1>3. StartsIn(s) \subseteq DOMAIN s
    BY DEF StartsIn
  <1>4. /\ ~IsStart(e) /\ e.block >= 0 /\ e.event \notin {"text_start", "tool_start", "message_delta"}
        /\ e.event # "message_stop" /\ (closed <=> IsStop(e, i)) /\ \A j : j # i => ~IsStop(e, j)
    BY <1>1 DEF IsStart, IsStop
  <1>5. /\ StartsIn(u) = StartsIn(s)
        /\ \A j : StopsIn(u, j) = StopsIn(s, j) \cup (IF IsStop(e, j) THEN {n} ELSE {})
        /\ Named(u, "tool_start") = Named(s, "tool_start")
        /\ Named(u, "message_stop") = ends
    <2>1. /\ StartsIn(u) = StartsIn(s) \cup (IF IsStart(e) THEN {n} ELSE {})
          /\ \A j : StopsIn(u, j) = StopsIn(s, j) \cup (IF IsStop(e, j) THEN {n} ELSE {})
          /\ \A name : Named(u, name) =
                            Named(s, name) \cup (IF e.event = name THEN {n} ELSE {})
      BY <1>1, OneMoreAdds
    <2> HIDE DEF u, n
    <2> QED
      BY <1>1, <1>4, <2>1
  <1>6. InSequence(u)
    <2> HIDE DEF u
    <2>1. InSequence(s \o <<e>>)
      BY <1>1, <1>4, OneMoreFits
    <2> QED
      BY <2>1 DEF u
  <1>7. Begun(u)
    <2>1. <<e>> \in Seq(WireEvents) /\ Begun(s)
      BY <1>1
    <2> QED
      BY <1>1, <2>1, BegunStays
  <1> HIDE DEF u, n
  <1>8. \A k \in DOMAIN u : u[k].block <= i
    <2>1. i <= i
      BY <1>1
    <2> QED
      BY <1>1, <1>2, <2>1
  <1>9. \A l \in StartsIn(u) : u[l].block < i => \E m \in StopsIn(u, u[l].block) : l < m
    BY <1>1, <1>2, <1>3, <1>5
  <1>10. CASE closed
    <2>1. n \in StopsIn(u, i)
      BY <1>4, <1>5, <1>10
    <2>2. \A l \in StartsIn(u) : \E m \in StopsIn(u, u[l].block) : l < m
      <3> SUFFICES ASSUME NEW l \in StartsIn(u)
                   PROVE  \E m \in StopsIn(u, u[l].block) : l < m
        OBVIOUS
      <3>1. l \in DOMAIN s /\ l < n /\ u[l] = s[l]
        BY <1>2, <1>3, <1>5
      <3>2. s[l] \in WireEvents
        BY <1>1, <1>2, <3>1, ElementOfSeq
      <3>3. s[l].block \in {-1} \cup Nat /\ s[l].block <= i
        BY <1>1, <3>1, <3>2 DEF WireEvents
      <3>4. CASE s[l].block < i
        BY <1>9, <3>1, <3>4
      <3>5. CASE s[l].block = i
        BY <2>1, <3>1, <3>5
      <3> QED
        BY <1>1, <3>3, <3>4, <3>5
    <2>3. i + 1 \in Nat /\ (i + 1) - 1 = i
      BY <1>1
    <2> QED
      BY <1>1, <1>2, <1>5, <1>6, <1>7, <1>8, <1>10, <2>2, <2>3 DEF At, u
  <1>11. CASE ~closed
    <2>1. StopsIn(u, i) = {} /\ \E l \in StartsIn(u) : u[l].block = i
      BY <1>1, <1>2, <1>3, <1>4, <1>5, <1>11
    <2> QED
      BY <1>1, <1>2, <1>5, <1>6, <1>7, <1>8, <1>9, <1>11, <2>1 DEF At, u
  <1> QED
    BY <1>10, <1>11

-----------------------------------------------------------------------------
\* FlattenSeq goes from one prefix of its argument to the next.
LEMMA FlattenSteps ==
    ASSUME NEW ss, NEW n \in Nat, n > 0, Len(ss) = n
    PROVE  \E f : /\ f[1] = ss[1]
                  /\ \A k \in 2 .. n : f[k] = f[k - 1] \o ss[k]
                  /\ FlattenSeq(ss) = f[n]
  <1> DEFINE step(m, f) == [k \in 1 .. m |-> IF k = 1 THEN ss[k] ELSE f[k - 1] \o ss[k]]
             missing == {m \in Nat : ~ \E f : f = step(m, f)}
  <1>1. ASSUME NEW m \in Nat, NEW f, f = step(m, f)
        PROVE  \E g : g = step(m + 1, g)
    <2> DEFINE g == [k \in 1 .. m + 1 |-> IF k \in 1 .. m THEN f[k] ELSE
                                          IF k = 1 THEN ss[k] ELSE f[k - 1] \o ss[k]]
    <2>1. ASSUME NEW k \in 1 .. m + 1
          PROVE  g[k] = IF k = 1 THEN ss[k] ELSE g[k - 1] \o ss[k]
      <3>1. CASE k \in 1 .. m
        <4>1. g[k] = f[k] /\ f[k] = IF k = 1 THEN ss[k] ELSE f[k - 1] \o ss[k]
          BY <1>1, <3>1
        <4>2. k # 1 => k - 1 \in 1 .. m /\ k - 1 \in 1 .. m + 1
          BY <1>1, <3>1
        <4>3. k # 1 => g[k - 1] = f[k - 1]
          BY <4>2
        <4> QED
          BY <4>1, <4>3
      <3>2. CASE k \notin 1 .. m
        <4>1. g[k] = IF k = 1 THEN ss[k] ELSE f[k - 1] \o ss[k]
          BY <3>2
        <4>2. k # 1 => k - 1 \in 1 .. m /\ k - 1 \in 1 .. m + 1
          BY <1>1, <3>2
        <4>3. k # 1 => g[k - 1] = f[k - 1]
          BY <4>2
        <4> QED
          BY <4>1, <4>3
      <3> QED
        BY <3>1, <3>2
    <2>2. g = step(m + 1, g)
      BY <2>1
    <2> QED
      BY <2>2
  <1>2. \E f : f = step(0, f)
    <2> DEFINE f == [k \in 1 .. 0 |-> ss[k]]
    <2>1. f = step(0, f)
      OBVIOUS
    <2> QED
      BY <2>1
  <1>3. missing = {}
    <2> SUFFICES ASSUME missing # {} PROVE FALSE
      OBVIOUS
    <2>1. PICK m \in missing : \A l \in missing : m <= l
      <3>1. missing \subseteq Nat
        OBVIOUS
      <3> HIDE DEF missing
      <3> QED
        BY <3>1, SmallestOf
    <2> HIDE DEF step
    <2>2. m # 0
      BY <1>2
    <2>3. m \in Nat /\ m - 1 \in Nat /\ (m - 1) + 1 = m /\ ~(m <= m - 1)
      BY <2>2
    <2>4. \E f : f = step(m - 1, f)
      BY <2>1, <2>3
    <2>5. \E f : f = step(m, f)
      BY <1>1, <2>3, <2>4
    <2> QED
      BY <2>1, <2>5
  <1> DEFINE flatten == CHOOSE f : f = step(n, f)
  <1>4. flatten = step(n, flatten)
    <2> HIDE DEF step
    <2>1. \E f : f = step(n, f)
      BY <1>3
    <2> QED
      BY <2>1
  <1>5. FlattenSeq(ss) = flatten[n]
    BY DEF FlattenSeq
  <1> HIDE DEF flatten
  <1>6. \A k \in 1 .. n : flatten[k] = IF k = 1 THEN ss[k] ELSE flatten[k - 1] \o ss[k]
    BY <1>4
  <1>7. 1 \in 1 .. n /\ \A k \in 2 .. n : k \in 1 .. n /\ k # 1
    OBVIOUS
  <1>8. flatten[1] = ss[1] /\ \A k \in 2 .. n : flatten[k] = flatten[k - 1] \o ss[k]
    BY <1>6, <1>7, Zenon
  <1> QED
    BY <1>5, <1>8

\* A triple is its elements one after the other.
LEMMA TripleIsConcat ==
    ASSUME NEW x, NEW y, NEW z
    PROVE  <<x, y, z>> = (<<x>> \o <<y>>) \o <<z>>
  <1> DEFINE S == {x, y, z}
             s == <<x, y>>
             t == <<z>>
             p == <<x, y, z>>
  <1>1. s \in Seq(S) /\ Len(s) = 2 /\ s[1] = x /\ s[2] = y
    OBVIOUS
  <1>2. t \in Seq(S) /\ Len(t) = 1 /\ t[1] = z
    OBVIOUS
  <1>3. p \in Seq(S) /\ Len(p) = 3 /\ p[1] = x /\ p[2] = y /\ p[3] = z
    OBVIOUS
  <1>4. s = <<x>> \o <<y>>
    BY PairIsConcat
  <1> HIDE DEF S, s, t, p
  <1>5. /\ s \o t \in Seq(S) /\ Len(s \o t) = 3
        /\ (s \o t)[1] = x /\ (s \o t)[2] = y /\ (s \o t)[3] = z
    <2>1. /\ s \o t \in Seq(S) /\ Len(s \o t) = 3
          /\ \A i \in 1 .. 3 : (s \o t)[i] = IF i <= 2 THEN s[i] ELSE t[i - 2]
      <3>1. /\ s \o t \in Seq(S) /\ Len(s \o t) = Len(s) + Len(t)
            /\ \A i \in 1 .. Len(s) + Len(t) :
                  (s \o t)[i] = IF i <= Len(s) THEN s[i] ELSE t[i - Len(s)]
        BY <1>1, <1>2, ConcatProperties
      <3>2. Len(s) + Len(t) = 3
        BY <1>1, <1>2
      <3> QED
        BY <1>1, <3>1, <3>2
    <2>2. (s \o t)[1] = s[1] /\ (s \o t)[2] = s[2] /\ (s \o t)[3] = t[3 - 2]
      BY <2>1
    <2> QED
      BY <1>1, <1>2, <2>1, <2>2
  <1>6. \A i \in 1 .. Len(p) : p[i] = (s \o t)[i]
    BY <1>3, <1>5
  <1>7. p = s \o t
    BY <1>3, <1>5, <1>6, SeqEqual
  <1> QED
    BY <1>4, <1>7 DEF p, t

\* A tool_use block: start, one delta, stop.
ToolBlock(i) == <<OfBlock("tool_start", i), OfBlock("tool_delta", i), OfBlock("block_stop", i)>>

LEMMA BlockEvents ==
    ASSUME NEW i \in Nat,
           NEW name \in {"text_start", "text_delta", "tool_start", "tool_delta", "block_stop"}
    PROVE  /\ OfBlock(name, i) \in WireEvents
           /\ OfBlock(name, i).block = i /\ OfBlock(name, i).event = name
  BY DEF OfBlock, WireEvents

LEMMA OneBlockKeeps ==
    ASSUME NEW s, NEW i, NEW tools, NEW ends, At(s, FALSE, i, tools, ends), Begun(s)
    PROVE  ToolBlock(i) \in Seq(WireEvents) /\ At(s \o ToolBlock(i), FALSE, i + 1, tools + 1, ends)
  <1> DEFINE a == OfBlock("tool_start", i)
             b == OfBlock("tool_delta", i)
             c == OfBlock("block_stop", i)
  <1>1. s \in Seq(WireEvents) /\ i \in Nat
    BY DEF At
  <1>2. /\ a \in WireEvents /\ a.block = i /\ a.event = "tool_start"
        /\ b \in WireEvents /\ b.block = i /\ b.event = "tool_delta"
        /\ c \in WireEvents /\ c.block = i /\ c.event = "block_stop"
    BY <1>1, BlockEvents
  <1>3. ToolBlock(i) = (<<a>> \o <<b>>) \o <<c>>
    BY TripleIsConcat DEF ToolBlock
  <1> HIDE DEF a, b, c
  <1>4. <<a>> \in Seq(WireEvents) /\ <<b>> \in Seq(WireEvents) /\ <<c>> \in Seq(WireEvents)
    BY <1>2
  <1>5. <<a>> \o <<b>> \in Seq(WireEvents)
    BY <1>4, ConcatProperties
  <1>6. ToolBlock(i) \in Seq(WireEvents)
    BY <1>3, <1>4, <1>5, ConcatProperties
  <1>7. s \o ToolBlock(i) = ((s \o <<a>>) \o <<b>>) \o <<c>>
    BY <1>1, <1>3, <1>4, <1>5, ConcatAssociative
  <1>8. At(s \o <<a>>, TRUE, i, tools + 1, ends)
    BY <1>2, StartKeeps
  <1>9. At((s \o <<a>>) \o <<b>>, TRUE, i, tools + 1, ends)
    BY <1>2, <1>8, FragmentKeeps
  <1>10. At(((s \o <<a>>) \o <<b>>) \o <<c>>, FALSE, i + 1, tools + 1, ends)
    BY <1>2, <1>9, FragmentKeeps
  <1> QED
    BY <1>6, <1>7, <1>10

\* Every tool_use block is numbered and stopped before the next.
LEMMA ToolUseBlocksKeep ==
    ASSUME NEW s, NEW i, NEW tools \in Nat, NEW ends, At(s, FALSE, i, tools, ends), Begun(s),
           NEW n \in Nat
    PROVE  /\ ToolUseBlocks(i, n) \in Seq(WireEvents)
           /\ At(s \o ToolUseBlocks(i, n), FALSE, i + n, tools + n, ends)
  <1> DEFINE ss == [k \in 1 .. n |-> ToolBlock(i + k - 1)]
  <1>1. s \in Seq(WireEvents) /\ i \in Nat
    BY DEF At
  <1>2. ToolUseBlocks(i, n) = FlattenSeq(ss)
    BY DEF ToolUseBlocks, ToolBlock
  <1>3. Len(ss) = n
    OBVIOUS
  <1>4. CASE n = 0
    <2>1. ss = <<>>
      BY <1>4
    <2>2. ToolUseBlocks(i, n) = <<>>
      BY <1>2, <1>3, <1>4, <2>1 DEF FlattenSeq
    <2>3. s \o <<>> = s /\ <<>> \in Seq(WireEvents) /\ i + 0 = i /\ tools + 0 = tools
      BY <1>1, ConcatEmptySeq
    <2> QED
      BY <1>4, <2>2, <2>3
  <1>5. CASE n > 0
    <2>1. PICK f : /\ f[1] = ss[1]
                   /\ \A k \in 2 .. n : f[k] = f[k - 1] \o ss[k]
                   /\ FlattenSeq(ss) = f[n]
      <3> HIDE DEF ss
      <3> QED
        BY <1>3, <1>5, FlattenSteps
    <2> DEFINE Keeps(k) == /\ f[k] \in Seq(WireEvents)
                           /\ At(s \o f[k], FALSE, i + k, tools + k, ends)
               wrong == {k \in 1 .. n : ~Keeps(k)}
    <2>2. Keeps(1)
      <3>1. f[1] = ToolBlock(i + 1 - 1) /\ i + 1 - 1 = i
        BY <1>1, <1>5, <2>1
      <3> QED
        BY <3>1, OneBlockKeeps
    <2>3. ASSUME NEW k \in 2 .. n, Keeps(k - 1)
          PROVE  Keeps(k)
      <3> DEFINE t == s \o f[k - 1]
                 b == ToolBlock(i + (k - 1))
      <3> HIDE DEF Keeps, wrong
      <3>1. i + k - 1 = i + (k - 1) /\ (i + (k - 1)) + 1 = i + k /\ (tools + (k - 1)) + 1 = tools + k
        BY <1>1
      <3>2. f[k] = f[k - 1] \o b
        <4>1. ss[k] = ToolBlock(i + k - 1)
          BY <2>3
        <4> HIDE DEF ss
        <4> QED
          BY <2>1, <3>1, <4>1
      <3>3. f[k - 1] \in Seq(WireEvents) /\ At(t, FALSE, i + (k - 1), tools + (k - 1), ends)
        BY <2>3 DEF Keeps
      <3>4. Begun(t)
        BY <1>1, <3>3, BegunStays
      <3> HIDE DEF t
      <3>5. b \in Seq(WireEvents) /\ At(t \o b, FALSE, i + k, tools + k, ends)
        BY <3>3, <3>4, <3>1, OneBlockKeeps
      <3> HIDE DEF b
      <3>6. t \o b = s \o f[k]
        <4>1. (s \o f[k - 1]) \o b = s \o (f[k - 1] \o b)
          <5> DEFINE g == f[k - 1]
          <5>1. s \in Seq(WireEvents) /\ g \in Seq(WireEvents) /\ b \in Seq(WireEvents)
            BY <1>1, <3>3, <3>5
          <5> HIDE DEF g
          <5>2. (s \o g) \o b = s \o (g \o b)
            BY <5>1, ConcatAssociative
          <5> QED
            BY <5>2 DEF g
        <4> HIDE DEF ss
        <4> QED
          BY <3>2, <4>1 DEF t
      <3>7. f[k] \in Seq(WireEvents)
        BY <3>2, <3>3, <3>5, ConcatProperties
      <3> QED
        BY <3>5, <3>6, <3>7 DEF Keeps
    <2> HIDE DEF Keeps
    <2>4. wrong = {}
      <3> SUFFICES ASSUME wrong # {} PROVE FALSE
        OBVIOUS
      <3>1. PICK k \in wrong : \A l \in wrong : k <= l
        <4>1. wrong \subseteq Nat
          OBVIOUS
        <4> HIDE DEF wrong
        <4> QED
          BY <4>1, SmallestOf
      <3>2. k \in 2 .. n
        BY <2>2
      <3>3. k - 1 \in 1 .. n /\ ~(k <= k - 1)
        BY <3>2
      <3>4. Keeps(k - 1)
        BY <3>1, <3>3
      <3> QED
        BY <2>3, <3>2, <3>4
    <2>5. Keeps(n)
      BY <1>5, <2>4
    <2> QED
      BY <1>2, <2>1, <2>5 DEF Keeps
  <1>6. n = 0 \/ n > 0
    OBVIOUS
  <1> QED
    BY <1>4, <1>5, <1>6, Zenon

-----------------------------------------------------------------------------
\* Parts put one after the other.
Joined(S, s, a, b, c) ==
    /\ (a \o b) \o c \in Seq(S)
    /\ ((s \o a) \o b) \o c = s \o ((a \o b) \o c)

LEMMA ThreeParts ==
    ASSUME NEW S, NEW s \in Seq(S), NEW a \in Seq(S), NEW b \in Seq(S), NEW c \in Seq(S)
    PROVE  Joined(S, s, a, b, c)
  <1>1. a \o b \in Seq(S) /\ s \o a \in Seq(S)
    BY ConcatProperties
  <1>2. (a \o b) \o c \in Seq(S)
    BY <1>1, ConcatProperties
  <1>3. (s \o a) \o b = s \o (a \o b)
    BY ConcatAssociative
  <1>4. (s \o (a \o b)) \o c = s \o ((a \o b) \o c)
    <2> DEFINE ab == a \o b
    <2>1. ab \in Seq(S)
      BY <1>1
    <2> HIDE DEF ab
    <2>2. (s \o ab) \o c = s \o (ab \o c)
      BY <2>1, ConcatAssociative
    <2> QED
      BY <2>2 DEF ab
  <1> QED
    BY <1>2, <1>3, <1>4, Zenon DEF Joined

LEMMA PlainEvents ==
    ASSUME NEW name \in {"message_start", "message_delta", "message_stop", "error"}
    PROVE  /\ Event(name) \in WireEvents /\ <<Event(name)>> \in Seq(WireEvents)
           /\ Event(name).block = -1 /\ Event(name).event = name
  <1>1. Event(name) \in WireEvents /\ Event(name).block = -1 /\ Event(name).event = name
    BY DEF Event, WireEvents
  <1> QED
    BY <1>1

LEMMA NothingAdded ==
    ASSUME NEW s \in Seq(WireEvents)
    PROVE  <<>> \in Seq(WireEvents) /\ s \o <<>> = s
  BY ConcatEmptySeq

\* The message is begun when it has to be.
LEMMA MessageStartKeeps ==
    ASSUME NEW tools, NEW ends, At(events, textOpen, index, tools, ends),
           started \in BOOLEAN, IF started THEN Begun(events) ELSE events = <<>>
    PROVE  /\ MessageStart \in Seq(WireEvents)
           /\ At(events \o MessageStart, textOpen, index, tools, ends)
           /\ Begun(events \o MessageStart)
  <1> DEFINE e == Event("message_start")
  <1>1. events \in Seq(WireEvents)
    BY DEF At
  <1>2. e \in WireEvents /\ <<e>> \in Seq(WireEvents) /\ e.block = -1 /\ e.event = "message_start"
    BY PlainEvents
  <1>3. MessageStart = IF started THEN <<>> ELSE <<e>>
    BY DEF MessageStart
  <1> HIDE DEF e
  <1>4. CASE started
    <2>1. MessageStart = <<>> /\ Begun(events)
      BY <1>3, <1>4
    <2>2. events \o <<>> = events /\ <<>> \in Seq(WireEvents)
      BY <1>1, NothingAdded
    <2> QED
      BY <2>1, <2>2
  <1>5. CASE ~started
    <2>1. MessageStart = <<e>> /\ events = <<>>
      BY <1>3, <1>5
    <2>2. At(events \o <<e>>, textOpen, index, tools, ends \cup {})
      BY <1>2, PlainKeeps
    <2>3. ends \cup {} = ends
      OBVIOUS
    <2>4. <<>> \o <<e>> = <<e>>
      BY <1>2, ConcatEmptySeq
    <2>5. Begun(<<e>>)
      BY <1>2 DEF Begun
    <2> QED
      BY <1>2, <2>1, <2>2, <2>3, <2>4, <2>5
  <1> QED
    BY <1>4, <1>5

\* Text goes into the open block, or into the next one.
LEMMA TextKeeps ==
    ASSUME NEW s, NEW open \in BOOLEAN, NEW tools, NEW ends, At(s, open, index, tools, ends),
           Begun(s), NEW text \in BOOLEAN
    PROVE  LET b == IF text THEN TextDelta(open) ELSE <<>>
           IN  /\ b \in Seq(WireEvents) /\ Begun(s \o b)
               /\ At(s \o b, IF text THEN TRUE ELSE open, index, tools, ends)
  <1> DEFINE c == OfBlock("text_start", index)
             d == OfBlock("text_delta", index)
  <1>1. s \in Seq(WireEvents) /\ index \in Nat
    BY DEF At
  <1>2. /\ c \in WireEvents /\ c.block = index /\ c.event = "text_start"
        /\ d \in WireEvents /\ d.block = index /\ d.event = "text_delta"
    BY <1>1, BlockEvents
  <1>3. TextDelta(open) = (IF open THEN <<>> ELSE <<c>>) \o <<d>>
    BY DEF TextDelta
  <1> HIDE DEF c, d
  <1>4. <<c>> \in Seq(WireEvents) /\ <<d>> \in Seq(WireEvents) /\ <<>> \in Seq(WireEvents)
    BY <1>2
  <1>5. CASE ~text
    BY <1>1, <1>4, <1>5, NothingAdded
  <1>6. CASE text
    <2>1. CASE open
      <3>1. At(s, TRUE, index, tools, ends)
        BY <2>1
      <3>2. TextDelta(open) = <<d>>
        BY <1>3, <1>4, <2>1, ConcatEmptySeq
      <3>3. At(s \o <<d>>, TRUE, index, tools, ends)
        BY <1>2, <3>1, FragmentKeeps
      <3>4. Begun(s \o <<d>>)
        BY <1>1, <1>4, BegunStays
      <3> QED
        BY <1>4, <1>6, <3>2, <3>3, <3>4
    <2>2. CASE ~open
      <3>1. At(s, FALSE, index, tools, ends)
        BY <2>2
      <3>2. TextDelta(open) = <<c>> \o <<d>> /\ <<c>> \o <<d>> \in Seq(WireEvents)
        BY <1>3, <1>4, <2>2, ConcatProperties
      <3>3. At(s \o <<c>>, TRUE, index, tools, ends)
        BY <1>2, <3>1, StartKeeps
      <3>4. At((s \o <<c>>) \o <<d>>, TRUE, index, tools, ends)
        BY <1>2, <3>3, FragmentKeeps
      <3>5. (s \o <<c>>) \o <<d>> = s \o (<<c>> \o <<d>>)
        BY <1>1, <1>4, ConcatAssociative
      <3>6. Begun(s \o (<<c>> \o <<d>>))
        BY <1>1, <3>2, BegunStays
      <3> QED
        BY <1>6, <3>2, <3>4, <3>5, <3>6
    <2> QED
      BY <2>1, <2>2
  <1> QED
    BY <1>5, <1>6

\* Where s stands when the rest of the message was added to it.
Finished(s, open, tools, ends, n) ==
    LET u == s \o MessageTail(open, n)
    IN  /\ MessageTail(open, n) \in Seq(WireEvents) /\ Begun(u)
        /\ At(u, FALSE, index + n + (IF open THEN 1 ELSE 0), tools + n, ends \cup {Len(u)})

\* The rest of the message closes the block left open, numbers the tool_use blocks
\* from there, and ends the message.
LEMMA MessageTailKeeps ==
    ASSUME NEW s, NEW open \in BOOLEAN, NEW tools \in Nat, NEW ends,
           At(s, open, index, tools, ends), Begun(s), NEW n \in Nat
    PROVE  Finished(s, open, tools, ends, n)
  <1> DEFINE c == OfBlock("block_stop", index)
             d == Event("message_delta")
             e == Event("message_stop")
             a == IF open THEN <<c>> ELSE <<>>
             i == IF open THEN index + 1 ELSE index
             b == ToolUseBlocks(i, n)
             u == s \o MessageTail(open, n)
             j == index + n + (IF open THEN 1 ELSE 0)
  <1>1. s \in Seq(WireEvents) /\ index \in Nat
    BY DEF At
  <1>2. c \in WireEvents /\ c.block = index /\ c.event = "block_stop"
    BY <1>1, BlockEvents
  <1>3. /\ d \in WireEvents /\ <<d>> \in Seq(WireEvents) /\ d.block = -1 /\ d.event = "message_delta"
        /\ e \in WireEvents /\ <<e>> \in Seq(WireEvents) /\ e.block = -1 /\ e.event = "message_stop"
    BY PlainEvents
  <1>4. MessageTail(open, n) = (a \o b) \o (<<d>> \o <<e>>)
    <2>1. MessageTail(open, n) = (a \o b) \o <<d, e>>
      BY DEF MessageTail
    <2>2. <<d, e>> = <<d>> \o <<e>>
      BY PairIsConcat
    <2> HIDE DEF a, b, d, e
    <2> QED
      BY <2>1, <2>2
  <1> HIDE DEF c, d, e, u
  <1>5. a \in Seq(WireEvents) /\ At(s \o a, FALSE, i, tools, ends)
    <2>1. CASE open
      <3>1. At(s, TRUE, index, tools, ends) /\ <<c>> \in Seq(WireEvents)
        <4>1. open = TRUE
          BY <2>1
        <4>2. <<c>> \in Seq(WireEvents)
          BY <1>2
        <4> QED
          BY <4>1, <4>2
      <3>2. At(s \o <<c>>, FALSE, index + 1, tools, ends)
        BY <1>2, <3>1, FragmentKeeps
      <3> QED
        BY <2>1, <3>1, <3>2
    <2>2. CASE ~open
      <3>1. At(s, FALSE, index, tools, ends)
        BY <2>2
      <3>2. <<>> \in Seq(WireEvents) /\ s \o <<>> = s
        BY <1>1, NothingAdded
      <3> QED
        BY <2>2, <3>1, <3>2
    <2> QED
      BY <2>1, <2>2
  <1>6. i \in Nat /\ i + n = j
    BY <1>1
  <1> HIDE DEF a, b, i, j
  <1>7. s \o a \in Seq(WireEvents) /\ Begun(s \o a)
    BY <1>1, <1>5, ConcatProperties, BegunStays
  <1>8. b \in Seq(WireEvents) /\ At((s \o a) \o b, FALSE, i + n, tools + n, ends)
    BY <1>5, <1>7, ToolUseBlocksKeep DEF b
  <1> DEFINE t == (s \o a) \o b
  <1>9. t \in Seq(WireEvents) /\ At(t, FALSE, i + n, tools + n, ends)
    BY <1>7, <1>8, ConcatProperties
  <1>10. t \o (<<d>> \o <<e>>) = u /\ MessageTail(open, n) \in Seq(WireEvents)
    <2>1. <<d>> \o <<e>> \in Seq(WireEvents)
      BY <1>3, ConcatProperties
    <2> QED
      <3> DEFINE de == <<d>> \o <<e>>
      <3>1. /\ s \in Seq(WireEvents) /\ a \in Seq(WireEvents) /\ b \in Seq(WireEvents)
            /\ de \in Seq(WireEvents)
        BY <1>1, <1>5, <1>8, <2>1
      <3>2. MessageTail(open, n) = (a \o b) \o de
        BY <1>4
      <3> HIDE DEF de, t
      <3>3. Joined(WireEvents, s, a, b, de)
        BY <3>1, ThreeParts
      <3> QED
        BY <3>3, <3>2, Zenon DEF Joined, de, t, u
  <1> HIDE DEF t
  <1> DEFINE v == t \o <<d>>
  <1>11. At(v, FALSE, i + n, tools + n, ends)
    <2>1. At(t \o <<d>>, FALSE, i + n, tools + n, ends \cup {})
      BY <1>3, <1>9, PlainKeeps
    <2>2. ends \cup {} = ends
      OBVIOUS
    <2> QED
      BY <2>1, <2>2
  <1>12. v \in Seq(WireEvents) /\ v \o <<e>> = u
    <2>1. v \in Seq(WireEvents)
      BY <1>3, <1>9, ConcatProperties
    <2>2. (t \o <<d>>) \o <<e>> = t \o (<<d>> \o <<e>>)
      BY <1>3, <1>9, ConcatAssociative
    <2> QED
      BY <1>10, <2>1, <2>2
  <1> HIDE DEF v
  <1>13. At(v \o <<e>>, FALSE, i + n, tools + n, ends \cup {Len(v) + 1})
    BY <1>3, <1>11, PlainKeeps
  <1>14. Len(v \o <<e>>) = Len(v) + 1
    BY <1>3, <1>12, OneMore
  <1>15. Begun(u)
    BY <1>1, <1>10, BegunStays DEF u
  <1> QED
    BY <1>6, <1>10, <1>12, <1>13, <1>14, <1>15 DEF Finished, j, u

\* What emitDelta and writeResponseBurst write.
Composed(open, text, final, n) ==
    MessageStart
        \o (IF text THEN TextDelta(open) ELSE <<>>)
        \o (IF final THEN MessageTail(open \/ text, n) ELSE <<>>)

LEMMA ComposedKeeps ==
    ASSUME NEW tools \in Nat, NEW ends, At(events, textOpen, index, tools, ends),
           started \in BOOLEAN, textOpen \in BOOLEAN,
           IF started THEN Begun(events) ELSE events = <<>>,
           NEW text \in BOOLEAN, NEW final \in BOOLEAN, NEW n \in Nat
    PROVE  LET new == Composed(textOpen, text, final, n)
           IN  /\ new \in Seq(WireEvents) /\ Begun(events \o new)
               /\ IF final
                  THEN At(events \o new, FALSE, index + n + (IF textOpen \/ text THEN 1 ELSE 0),
                          tools + n, ends \cup {Len(events \o new)})
                  ELSE At(events \o new, IF text THEN TRUE ELSE textOpen, index, tools, ends)
  <1> DEFINE a == MessageStart
             b == IF text THEN TextDelta(textOpen) ELSE <<>>
             c == IF final THEN MessageTail(textOpen \/ text, n) ELSE <<>>
             open == IF text THEN TRUE ELSE textOpen
             new == Composed(textOpen, text, final, n)
  <1>1. events \in Seq(WireEvents)
    BY DEF At
  <1>2. /\ a \in Seq(WireEvents) /\ Begun(events \o a)
        /\ At(events \o a, textOpen, index, tools, ends)
    BY MessageStartKeeps
  <1>3. new = (a \o b) \o c
    BY DEF Composed
  <1> HIDE DEF a, new
  <1> DEFINE s == (events \o a) \o b
  <1>4. b \in Seq(WireEvents) /\ Begun(s) /\ At(s, open, index, tools, ends)
    BY <1>2, TextKeeps
  <1>5. open \in BOOLEAN /\ (open <=> textOpen \/ text)
    OBVIOUS
  <1>6. c = IF final THEN MessageTail(open, n) ELSE <<>>
    <2>1. open = (textOpen \/ text)
      BY Zenon
    <2> QED
      BY <2>1, Zenon
  <1>7. s \in Seq(WireEvents)
    BY <1>1, <1>2, <1>4, ConcatProperties
  <1> HIDE DEF b, c, s, open
  <1>8. CASE final
    <2>1. /\ c \in Seq(WireEvents) /\ Begun(s \o c)
          /\ At(s \o c, FALSE, index + n + (IF open THEN 1 ELSE 0), tools + n,
                ends \cup {Len(s \o c)})
      <3>1. c = MessageTail(open, n)
        BY <1>6, <1>8
      <3>2. Finished(s, open, tools, ends, n)
        BY <1>4, <1>5, MessageTailKeeps
      <3> QED
        BY <3>1, <3>2 DEF Finished
    <2>2. s \o c = events \o new /\ new \in Seq(WireEvents)
      <3>1. /\ events \in Seq(WireEvents) /\ a \in Seq(WireEvents) /\ b \in Seq(WireEvents)
            /\ c \in Seq(WireEvents)
        BY <1>1, <1>2, <1>4, <2>1
      <3>2. Joined(WireEvents, events, a, b, c)
        BY <3>1, ThreeParts
      <3> QED
        BY <1>3, <3>2, Zenon DEF Joined, s
    <2> QED
      BY <1>5, <1>8, <2>1, <2>2 DEF new
  <1>9. CASE ~final
    <2>1. c = <<>> /\ c \in Seq(WireEvents) /\ s \o c = s
      BY <1>6, <1>7, <1>9, NothingAdded
    <2>2. s \o c = events \o new /\ new \in Seq(WireEvents)
      <3>1. /\ events \in Seq(WireEvents) /\ a \in Seq(WireEvents) /\ b \in Seq(WireEvents)
            /\ c \in Seq(WireEvents)
        BY <1>1, <1>2, <1>4, <2>1
      <3>2. Joined(WireEvents, events, a, b, c)
        BY <3>1, ThreeParts
      <3> QED
        BY <1>3, <3>2, Zenon DEF Joined, s
    <2> QED
      BY <1>4, <1>9, <2>1, <2>2 DEF new, open
  <1> QED
    BY <1>8, <1>9

-----------------------------------------------------------------------------
\* A beginning of a stream in sequence is in sequence.
Begins(pre, u) ==
    /\ pre \in Seq(WireEvents) /\ Len(pre) <= Len(u)
    /\ \A k \in DOMAIN pre : k \in DOMAIN u /\ pre[k] = u[k]

LEMMA BeginningInSequence ==
    ASSUME NEW u \in Seq(WireEvents), InSequence(u), NEW pre, Begins(pre, u)
    PROVE  InSequence(pre)
  <1>1. /\ Len(u) \in Nat /\ DOMAIN u = 1 .. Len(u)
        /\ Len(pre) \in Nat /\ DOMAIN pre = 1 .. Len(pre) /\ Len(pre) <= Len(u)
        /\ \A k \in DOMAIN pre : k \in DOMAIN u /\ pre[k] = u[k]
    BY LenProperties DEF Begins
  <1>2. /\ \A k \in StartsIn(pre) : k \in StartsIn(u)
        /\ \A i : \A k \in StopsIn(pre, i) : k \in StopsIn(u, i)
    BY <1>1 DEF StartsIn, StopsIn
  <1>3. ASSUME NEW l, NEW k \in DOMAIN pre, l <= k
        PROVE  /\ l \in StartsIn(u) => l \in StartsIn(pre)
               /\ \A i : l \in StopsIn(u, i) => l \in StopsIn(pre, i)
    <2>1. l \in DOMAIN u => l \in DOMAIN pre /\ pre[l] = u[l]
      BY <1>1, <1>3
    <2> QED
      BY <2>1 DEF StartsIn, StopsIn
  <1>4. ASSUME NEW k \in DOMAIN pre
        PROVE  Fits(pre, k)
    <2>1. Fits(u, k) /\ pre[k] = u[k] /\ k \in Nat
      BY <1>1 DEF InSequence
    <2>2. pre[1] = u[1]
      <3>1. 1 \in DOMAIN pre
        BY <1>1
      <3> QED
        BY <1>1, <3>1
    <2>3. /\ StartsIn(u) \subseteq Nat /\ \A i : StopsIn(u, i) \subseteq Nat
      BY <1>1 DEF StartsIn, StopsIn
    <2>4. /\ \A l \in StartsIn(u) : l < k => l \in StartsIn(pre) /\ pre[l] = u[l]
          /\ \A i : \A l \in StopsIn(u, i) : l < k => l \in StopsIn(pre, i)
      <3>1. \A l \in StartsIn(u) : l < k => l <= k
        BY <2>1, <2>3
      <3>2. \A i : \A l \in StopsIn(u, i) : l < k => l <= k
        BY <2>1, <2>3
      <3>3. StartsIn(pre) \subseteq DOMAIN pre
        BY DEF StartsIn
      <3> QED
        BY <1>1, <1>3, <3>1, <3>2, <3>3
    <2>5. {l \in StartsIn(pre) : l < k} = {l \in StartsIn(u) : l < k}
      BY <1>2, <2>4
    <2>6. pre[k].event \in {"text_start", "tool_start", "message_delta"} =>
            \A l \in StartsIn(pre) : l < k => \E m \in StopsIn(pre, pre[l].block) : l < m /\ m < k
      <3> SUFFICES ASSUME pre[k].event \in {"text_start", "tool_start", "message_delta"},
                          NEW l \in StartsIn(pre), l < k
                   PROVE  \E m \in StopsIn(pre, pre[l].block) : l < m /\ m < k
        OBVIOUS
      <3>1. l \in StartsIn(u) /\ pre[l] = u[l]
        BY <1>2, <2>4
      <3>2. PICK m \in StopsIn(u, u[l].block) : l < m /\ m < k
        BY <2>1, <3>1 DEF Fits
      <3> QED
        BY <2>4, <3>1, <3>2
    <2>7. pre[k].block >= 0 /\ ~IsStart(pre[k]) =>
            \E l \in StartsIn(pre) : /\ l < k /\ pre[l].block = pre[k].block
                                     /\ \A m \in StopsIn(pre, pre[l].block) : k <= m
      <3> SUFFICES ASSUME pre[k].block >= 0, ~IsStart(pre[k])
                   PROVE  \E l \in StartsIn(pre) : /\ l < k /\ pre[l].block = pre[k].block
                                                   /\ \A m \in StopsIn(pre, pre[l].block) : k <= m
        OBVIOUS
      <3>1. PICK l \in StartsIn(u) : /\ l < k /\ u[l].block = u[k].block
                                     /\ \A m \in StopsIn(u, u[l].block) : k <= m
        BY <2>1 DEF Fits
      <3>2. l \in StartsIn(pre) /\ pre[l] = u[l]
        BY <2>4, <3>1
      <3>3. \A m \in StopsIn(pre, pre[l].block) : k <= m
        BY <1>2, <3>1, <3>2
      <3> QED
        BY <2>1, <3>1, <3>2, <3>3
    <2> QED
      BY <2>1, <2>2, <2>5, <2>6, <2>7 DEF Fits
  <1> QED
    BY <1>4 DEF InSequence

\* What a write of new made of the events: u, or if the client is gone a beginning.
Wrote(u, i) ==
    /\ gone' \in BOOLEAN /\ events' \in Seq(WireEvents) /\ InSequence(events')
    /\ \A k \in DOMAIN events' : events'[k].block <= i
    /\ gone' = FALSE => events' = u

LEMMA WriteKeeps ==
    ASSUME events \in Seq(WireEvents), gone = FALSE, NEW new \in Seq(WireEvents), Written(new),
           NEW open, NEW i, NEW tools, NEW ends, At(events \o new, open, i, tools, ends)
    PROVE  Wrote(events \o new, i)
  <1> DEFINE u == events \o new
  <1>1. /\ u \in Seq(WireEvents) /\ InSequence(u) /\ i \in Nat /\ open \in BOOLEAN
        /\ \A k \in DOMAIN u : u[k].block <= IF open THEN i ELSE i - 1
    BY DEF At
  <1>2. \A k \in DOMAIN u : u[k].block <= i
    <2> HIDE DEF u
    <2> SUFFICES ASSUME NEW k \in DOMAIN u PROVE u[k].block <= i
      OBVIOUS
    <2>1. u[k] \in WireEvents
      BY <1>1, LenProperties, ElementOfSeq
    <2>2. u[k].block \in {-1} \cup Nat
      BY <2>1 DEF WireEvents
    <2> QED
      BY <1>1, <2>2
  <1>3. Begins(events', u) /\ gone' \in BOOLEAN /\ (gone' = FALSE => events' = u)
    <2>1. /\ Len(events) \in Nat /\ DOMAIN events = 1 .. Len(events)
          /\ Len(new) \in Nat /\ DOMAIN new = 1 .. Len(new)
      BY LenProperties
    <2>2. CASE events' = u /\ gone' = FALSE
      <3> HIDE DEF u
      <3>1. Len(u) <= Len(u)
        BY <1>1, LenProperties
      <3> QED
        BY <1>1, <2>2, <3>1 DEF Begins
    <2>3. ASSUME NEW n \in 0 .. Len(new) - 1, gone' = TRUE, events' = events \o SubSeq(new, 1, n)
          PROVE  Begins(events', u) /\ gone' \in BOOLEAN
      <3> DEFINE pre == SubSeq(new, 1, n)
      <3>1. \A k \in 1 .. n : new[k] \in WireEvents
        BY <2>1, ElementOfSeq
      <3>2. pre \in Seq(WireEvents) /\ Len(pre) = n /\ \A k \in 1 .. n : pre[k] = new[k]
        BY <2>1, <3>1, SubSeqProperties
      <3>3. DOMAIN pre = 1 .. n
        BY <3>2, LenProperties
      <3> HIDE DEF pre
      <3> DEFINE v == events \o pre
      <3>4. /\ v \in Seq(WireEvents) /\ Len(v) = Len(events) + n
            /\ \A k \in DOMAIN v : \/ k \in DOMAIN events /\ v[k] = events[k]
                                   \/ \E j \in DOMAIN pre : k = Len(events) + j /\ v[k] = pre[j]
        <4> HIDE DEF u
        <4>1. v \in Seq(WireEvents) /\ Len(v) = Len(events) + Len(pre)
          BY <3>2, ConcatProperties
        <4>2. \A k \in DOMAIN v : \/ k \in DOMAIN events /\ v[k] = events[k]
                                  \/ \E j \in DOMAIN pre : k = Len(events) + j /\ v[k] = pre[j]
          BY <3>2, Extended
        <4> QED
          BY <3>2, <4>1, <4>2
      <3>5. /\ Len(u) = Len(events) + Len(new)
            /\ \A k \in DOMAIN events : k \in DOMAIN u /\ u[k] = events[k]
            /\ \A k \in DOMAIN new : Len(events) + k \in DOMAIN u /\ u[Len(events) + k] = new[k]
        BY Extended, ConcatProperties
      <3>6. events' = v
        BY <2>3 DEF pre
      <3> HIDE DEF u, v
      <3>7. Len(v) <= Len(u)
        BY <2>1, <3>4, <3>5
      <3>8. \A k \in DOMAIN v : k \in DOMAIN u /\ v[k] = u[k]
        <4> SUFFICES ASSUME NEW k \in DOMAIN v PROVE k \in DOMAIN u /\ v[k] = u[k]
          OBVIOUS
        <4>1. CASE k \in DOMAIN events /\ v[k] = events[k]
          BY <3>5, <4>1
        <4>2. ASSUME NEW j \in DOMAIN pre, k = Len(events) + j, v[k] = pre[j]
              PROVE  k \in DOMAIN u /\ v[k] = u[k]
          <5>1. j \in DOMAIN new /\ pre[j] = new[j]
            BY <2>1, <3>2, <3>3
          <5> QED
            BY <3>5, <4>2, <5>1
        <4> QED
          BY <3>4, <4>1, <4>2
      <3>9. gone' \in BOOLEAN
        BY <2>3, Zenon
      <3> QED
        BY <3>4, <3>6, <3>7, <3>8, <3>9 DEF Begins
    <2>4. gone' = FALSE => gone' # TRUE
      OBVIOUS
    <2>5. FALSE \in BOOLEAN
      OBVIOUS
    <2> QED
      BY <2>2, <2>3, <2>4, <2>5, Zenon DEF Written
  <1> HIDE DEF u
  <1>4. InSequence(events')
    BY <1>1, <1>3, BeginningInSequence
  <1>5. \A k \in DOMAIN events' : events'[k].block <= i
    BY <1>2, <1>3 DEF Begins
  <1>6. events' \in Seq(WireEvents)
    BY <1>3 DEF Begins
  <1>7. Wrote(u, i)
    BY <1>3, <1>4, <1>5, <1>6 DEF Wrote
  <1> QED
    BY <1>7 DEF u

-----------------------------------------------------------------------------
\* The last delta replayed was final.
FinalSent == replayed > 0 /\ deltas[replayed].finish # ""

\* What the deltas replayed have made of the message.
Replayed ==
    provider # "anthropic" =>
        /\ Named(events, "message_stop") = IF FinalSent THEN {Len(events)} ELSE {}
        /\ Cardinality(Named(events, "tool_start")) =
               IF FinalSent THEN Len(deltas[replayed].calls) ELSE 0

\* The state of the writer is that of the message it has written.
Standing ==
    /\ At(events, textOpen, index, Cardinality(Named(events, "tool_start")),
          Named(events, "message_stop"))
    /\ IF started THEN Begun(events) ELSE events = <<>>

\* Only the writer of the client's wire is used, and a replay that was not broken
\* off was complete.
OneWriter ==
    /\ client \in {"anthropic", "openai"} /\ served \in {"no", "replay", "burst", "error"}
    /\ client = "openai" => started = FALSE /\ textOpen = FALSE /\ index = 0
    /\ client = "anthropic" => first = TRUE
    /\ served = "replay" /\ gone = FALSE => replayed = Len(deltas)

\* What is being sent to an Anthropic client, and what was sent when it was served.
Message ==
    client = "anthropic" =>
        /\ started \in BOOLEAN /\ textOpen \in BOOLEAN /\ index \in Nat /\ gone \in BOOLEAN
        /\ events \in Seq(WireEvents) /\ InSequence(events)
        /\ \A k \in DOMAIN events : events[k].block <= index
        /\ served = "no" /\ replayed = 0 =>
              events = <<>> /\ gone = FALSE /\ started = FALSE /\ textOpen = FALSE /\ index = 0
        /\ served = "no" /\ gone = FALSE => Standing
        /\ served \in {"no", "replay"} /\ gone = FALSE => Replayed
        /\ served \in {"burst", "error"} /\ gone = FALSE =>
              Named(events, "message_stop") = {Len(events)}

LEMMA NothingSent ==
    /\ <<>> \in Seq(WireEvents) /\ InSequence(<<>>) /\ At(<<>>, FALSE, 0, 0, {})
    /\ \A name : Named(<<>>, name) = {}
    /\ Cardinality({}) = 0 /\ \A k \in DOMAIN (<<>>) : (<<>>)[k].block <= 0
  <1>1. <<>> \in Seq(WireEvents) /\ DOMAIN (<<>>) = {} /\ IsFiniteSet({}) /\ Cardinality({}) = 0
    BY EmptySeq, FS_EmptySet
  <1>2. /\ StartsIn(<<>>) = {} /\ \A name : Named(<<>>, name) = {}
        /\ \A i : StopsIn(<<>>, i) = {}
    BY <1>1 DEF StartsIn, Named, StopsIn
  <1>3. InSequence(<<>>)
    BY <1>1 DEF InSequence
  <1>4. At(<<>>, FALSE, 0, 0, {})
    BY <1>1, <1>2, <1>3 DEF At
  <1> QED
    BY <1>1, <1>2, <1>3, <1>4

LEMMA InitMessage == Init => OneWriter /\ Message
  <1> SUFFICES ASSUME Init PROVE OneWriter /\ Message
    OBVIOUS
  <1>1. /\ events = <<>> /\ gone = FALSE /\ first = TRUE /\ replayed = 0 /\ served = "no"
        /\ started = FALSE /\ textOpen = FALSE /\ index = 0 /\ client \in {"anthropic", "openai"}
    BY Zenon DEF Init, NothingWritten, WriterInit
  <1>2. ~FinalSent
    BY <1>1 DEF FinalSent
  <1>3. Standing /\ Replayed
    BY <1>1, <1>2, NothingSent DEF Standing, Replayed
  <1>4. OneWriter
    BY <1>1 DEF OneWriter
  <1>5. started \in BOOLEAN /\ textOpen \in BOOLEAN /\ index \in Nat /\ gone \in BOOLEAN
    BY <1>1
  <1> QED
    BY <1>1, <1>3, <1>4, <1>5, NothingSent DEF Message

LEMMA OneWriterStep ==
    ASSUME StreamInv, Serving, OneWriter, [Next]_vars
    PROVE  OneWriter'
  <1>1. ASSUME NEW new, Written(new)
        PROVE  gone' = FALSE => gone = FALSE
    BY <1>1 DEF Written
  <1>2. CASE Consume
    <2>1. UNCHANGED <<writerVars, servingVars>> /\ result \in {"unsent", "reading"}
      BY <1>2, OpenAIEffect, AnthropicEffect, GeminiEffect DEF Consume, Send, StreamInv
    <2>2. served # "replay"
      BY <2>1 DEF Serving
    <2> QED
      BY <2>1, <2>2 DEF OneWriter, writerVars, servingVars, blockVars
  <1>3. CASE GiveUp
    <2>1. /\ UNCHANGED client /\ served' = "error"
          /\ IF client = "anthropic" THEN UNCHANGED <<blockVars, first>> ELSE UNCHANGED blockVars
      BY <1>3, Zenon DEF GiveUp, Write, WriteError
    <2> QED
      BY <2>1 DEF OneWriter, blockVars
  <1>4. CASE ServeToolBurst
    <2>1. /\ UNCHANGED client /\ served' \in {"burst", "error"}
          /\ IF client = "anthropic" THEN UNCHANGED first ELSE UNCHANGED blockVars
      BY <1>4 DEF ServeToolBurst, Write
    <2> QED
      BY <2>1 DEF OneWriter, blockVars
  <1>5. CASE Replay
    <2>1. /\ UNCHANGED <<client, served>> /\ served = "no"
          /\ IF client = "anthropic" THEN UNCHANGED first ELSE UNCHANGED blockVars
      BY <1>5, Zenon DEF Replay, Captured, Write
    <2> QED
      BY <2>1 DEF OneWriter, blockVars
  <1>6. CASE ReplayEnds
    <2>1. /\ UNCHANGED <<streamVars, client, replayed>> /\ served' = "replay"
          /\ gone \/ replayed = Len(deltas)
          /\ IF client = "anthropic" THEN UNCHANGED <<first, gone>>
             ELSE UNCHANGED blockVars /\ Written(<<Frame("done")>>)
      BY <1>6, Zenon DEF ReplayEnds, Write, WriteDone
    <2>2. gone' = FALSE => gone = FALSE
      BY <1>1, <2>1
    <2>3. UNCHANGED deltas
      BY <2>1 DEF streamVars, readerVars
    <2> QED
      BY <2>1, <2>2, <2>3 DEF OneWriter, blockVars
  <1>7. CASE UNCHANGED vars
    BY <1>7 DEF OneWriter, vars, streamVars, readerVars, writerVars, servingVars, blockVars
  <1> QED
    BY <1>2, <1>3, <1>4, <1>5, <1>6, <1>7 DEF Next

LEMMA ConsumeKeepsMessage ==
    ASSUME StreamInv, Serving, Message, Consume
    PROVE  Message'
  <1>1. /\ UNCHANGED <<events, gone, started, textOpen, index, client, replayed, served>>
        /\ result \in {"unsent", "reading"}
    BY OpenAIEffect, AnthropicEffect, GeminiEffect
       DEF Consume, Send, StreamInv, writerVars, servingVars, blockVars
  <1>2. served = "no" /\ replayed = 0
    BY <1>1 DEF Serving
  <1> SUFFICES ASSUME client = "anthropic" PROVE Message'
    BY <1>1 DEF Message
  <1>3. events = <<>> /\ gone = FALSE /\ Standing
    BY <1>2 DEF Message
  <1>4. Standing'
    BY <1>1, <1>3 DEF Standing
  <1>5. ~FinalSent'
    BY <1>1, <1>2 DEF FinalSent
  <1>6. Replayed'
    BY <1>1, <1>3, <1>5, NothingSent DEF Replayed
  <1> QED
    BY <1>1, <1>2, <1>4, <1>6 DEF Message

\* Served at once: a whole message, or an error, where nothing was sent before.
LEMMA AtOnceKeepsMessage ==
    ASSUME client' = "anthropic", served' \in {"burst", "error"}, NEW u, Wrote(u, index'),
           started' \in BOOLEAN, textOpen' \in BOOLEAN, index' \in Nat,
           Named(u, "message_stop") = {Len(u)}
    PROVE  Message'
  <1>1. /\ gone' \in BOOLEAN /\ events' \in Seq(WireEvents) /\ InSequence(events')
        /\ \A k \in DOMAIN events' : events'[k].block <= index'
        /\ gone' = FALSE => Named(events', "message_stop") = {Len(events')}
    BY DEF Wrote
  <1>2. served' \notin {"no", "replay"} /\ served' # "no"
    OBVIOUS
  <1> QED
    BY <1>1, <1>2 DEF Message

LEMMA ErrorKeeps ==
    ASSUME NEW s, NEW open, NEW i, NEW tools, NEW ends, At(s, open, i, tools, ends)
    PROVE  LET new == <<Event("error"), Event("message_stop")>>
           IN  /\ new \in Seq(WireEvents)
               /\ At(s \o new, open, i, tools, ends \cup {Len(s \o new)})
  <1> DEFINE d == Event("error")
             e == Event("message_stop")
             t == s \o <<d>>
  <1>1. /\ d \in WireEvents /\ <<d>> \in Seq(WireEvents) /\ d.block = -1 /\ d.event = "error"
        /\ e \in WireEvents /\ <<e>> \in Seq(WireEvents) /\ e.block = -1 /\ e.event = "message_stop"
    BY PlainEvents
  <1>2. s \in Seq(WireEvents)
    BY DEF At
  <1>3. <<d, e>> = <<d>> \o <<e>>
    BY PairIsConcat
  <1> HIDE DEF d, e
  <1>4. <<d, e>> \in Seq(WireEvents)
    BY <1>1
  <1>5. t \o <<e>> = s \o <<d, e>>
    <2>1. (s \o <<d>>) \o <<e>> = s \o (<<d>> \o <<e>>)
      BY <1>1, <1>2, ConcatAssociative
    <2> QED
      BY <1>3, <2>1
  <1>6. At(t, open, i, tools, ends)
    <2>1. At(s \o <<d>>, open, i, tools, ends \cup {})
      BY <1>1, PlainKeeps
    <2>2. ends \cup {} = ends
      OBVIOUS
    <2> QED
      BY <2>1, <2>2
  <1>7. t \in Seq(WireEvents)
    BY <1>6 DEF At
  <1> HIDE DEF t
  <1>8. At(t \o <<e>>, open, i, tools, ends \cup {Len(t) + 1})
    BY <1>1, <1>6, PlainKeeps
  <1>9. Len(t \o <<e>>) = Len(t) + 1
    BY <1>1, <1>7, OneMore
  <1>10. At(s \o <<d, e>>, open, i, tools, ends \cup {Len(s \o <<d, e>>)})
    BY <1>5, <1>8, <1>9, Zenon
  <1> QED
    BY <1>4, <1>10 DEF d, e

LEMMA ErrorKeepsMessage ==
    ASSUME Message, client = "anthropic", client' = client, served = "no", replayed = 0,
           WriteError, served' = "error"
    PROVE  Message'
  <1> DEFINE new == <<Event("error"), Event("message_stop")>>
             u == events \o new
  <1>1. /\ events = <<>> /\ gone = FALSE /\ started = FALSE /\ textOpen = FALSE /\ index = 0
    BY DEF Message
  <1>2. Written(new) /\ UNCHANGED <<started, textOpen, index>>
    BY Zenon DEF WriteError, blockVars
  <1>3. At(events, FALSE, 0, 0, {}) /\ events \in Seq(WireEvents)
    BY <1>1, NothingSent
  <1>4. new \in Seq(WireEvents) /\ At(u, FALSE, 0, 0, {} \cup {Len(u)})
    BY <1>3, ErrorKeeps
  <1> HIDE DEF new
  <1>5. Wrote(u, 0)
    BY <1>1, <1>2, <1>3, <1>4, WriteKeeps
  <1> HIDE DEF u
  <1>6. Named(u, "message_stop") = {Len(u)}
    BY <1>4 DEF At
  <1>7. index' = 0 /\ index' \in Nat /\ started' \in BOOLEAN /\ textOpen' \in BOOLEAN
    BY <1>1, <1>2, Zenon
  <1> QED
    BY <1>5, <1>6, <1>7, AtOnceKeepsMessage

LEMMA BurstKeepsMessage ==
    ASSUME Message, client = "anthropic", client' = client, served = "no", replayed = 0,
           NEW text \in BOOLEAN, NEW n \in Nat, WriteResponseBurst(text, n), served' = "burst"
    PROVE  Message'
  <1> DEFINE new == Composed(textOpen, text, TRUE, n)
             u == events \o new
             i == index + n + (IF textOpen \/ text THEN 1 ELSE 0)
  <1>1. /\ events = <<>> /\ gone = FALSE /\ started = FALSE /\ textOpen = FALSE /\ index = 0
    BY DEF Message
  <1>2. (FALSE \/ text) = text /\ (textOpen \/ text) = text
    BY <1>1
  <1>3. new = MessageStart \o (IF text THEN TextDelta(FALSE) ELSE <<>>) \o MessageTail(text, n)
    BY <1>1, <1>2, Zenon DEF Composed
  <1>4. /\ started' = TRUE /\ textOpen' = FALSE /\ index' = index + n + (IF text THEN 1 ELSE 0)
        /\ Written(new)
    <2> HIDE DEF new
    <2> QED
      BY <1>3, Zenon DEF WriteResponseBurst
  <1>5. /\ At(events, textOpen, index, 0, {}) /\ events \in Seq(WireEvents)
        /\ started \in BOOLEAN /\ textOpen \in BOOLEAN /\ (IF started THEN Begun(events) ELSE events = <<>>)
    BY <1>1, NothingSent
  <1>6. new \in Seq(WireEvents) /\ At(u, FALSE, i, 0 + n, {} \cup {Len(u)})
    <2>1. TRUE \in BOOLEAN /\ 0 \in Nat
      OBVIOUS
    <2> QED
      BY <1>5, <2>1, ComposedKeeps
  <1> HIDE DEF new
  <1>7. Wrote(u, i)
    BY <1>1, <1>4, <1>5, <1>6, WriteKeeps
  <1>8. index' = i /\ i \in Nat
    BY <1>1, <1>2, <1>4
  <1> HIDE DEF u, i
  <1>9. Named(u, "message_stop") = {Len(u)}
    BY <1>6 DEF At
  <1>10. started' \in BOOLEAN /\ textOpen' \in BOOLEAN
    BY <1>4, Zenon
  <1> QED
    BY <1>7, <1>8, <1>9, <1>10, AtOnceKeepsMessage

LEMMA ReplayKeepsMessage ==
    ASSUME StreamInv, Serving, Message, Replay, client = "anthropic"
    PROVE  Message'
  <1> DEFINE d == deltas[replayed + 1]
             n == Len(d.calls)
             final == d.finish # ""
             new == Composed(textOpen, d.text, final, n)
             u == events \o new
             tools == Cardinality(Named(events, "tool_start"))
             ends == Named(events, "message_stop")
             i == index + n + (IF textOpen \/ d.text THEN 1 ELSE 0)
  <1>1. /\ served = "no" /\ gone = FALSE /\ replayed < Len(deltas) /\ replayed' = replayed + 1
        /\ UNCHANGED <<deltas, provider, client, served>>
    BY DEF Replay, Captured, Message, streamVars, readerVars
  <1>2. /\ deltas \in Seq(Delta) /\ Len(deltas) \in Nat /\ DOMAIN deltas = 1 .. Len(deltas)
        /\ replayed \in Nat /\ replayed + 1 \in DOMAIN deltas
    <2>1. deltas \in Seq(Delta)
      BY DEF StreamInv, StreamTypeOK
    <2>2. Len(deltas) \in Nat /\ DOMAIN deltas = 1 .. Len(deltas)
      BY <2>1, LenProperties
    <2> QED
      BY <1>1, <2>1, <2>2 DEF Serving
  <1>3. d \in Delta
    BY <1>2, ElementOfSeq
  <1>4. d.text \in BOOLEAN /\ n \in Nat /\ final \in BOOLEAN
    <2> HIDE DEF d
    <2>1. d.text \in BOOLEAN /\ d.calls \in Seq(ToolCall)
      BY <1>3 DEF Delta
    <2> QED
      BY <2>1, LenProperties
  <1>5. /\ started' = TRUE
        /\ textOpen' = ((textOpen \/ d.text) /\ ~final)
        /\ index' = IF final THEN i ELSE index
        /\ Written(new)
    BY Zenon DEF Replay, Write, EmitDelta, Composed
  <1>6. /\ started \in BOOLEAN /\ textOpen \in BOOLEAN /\ index \in Nat /\ events \in Seq(WireEvents)
        /\ Standing /\ Replayed
    BY <1>1 DEF Message
  <1>7. /\ At(events, textOpen, index, tools, ends)
        /\ IF started THEN Begun(events) ELSE events = <<>>
    BY <1>6 DEF Standing
  <1>8. tools \in Nat
    <2>1. IsFiniteSet(Named(events, "tool_start"))
      BY <1>7 DEF At
    <2> QED
      BY <2>1, FS_CardinalityType
  <1> HIDE DEF d, n, final, tools, ends
  <1>9. /\ new \in Seq(WireEvents) /\ Begun(u)
        /\ IF final THEN At(u, FALSE, i, tools + n, ends \cup {Len(u)})
           ELSE At(u, IF d.text THEN TRUE ELSE textOpen, index, tools, ends)
    BY <1>4, <1>6, <1>7, <1>8, ComposedKeeps
  <1> HIDE DEF new
  <1>10. CASE final
    <2>1. /\ At(u, FALSE, i, tools + n, ends \cup {Len(u)})
          /\ textOpen' = FALSE /\ index' = i /\ index' \in Nat
      <3>1. i \in Nat
        BY <1>4, <1>6
      <3> HIDE DEF i, u
      <3> QED
        BY <1>5, <1>9, <1>10, <3>1
    <2>2. Wrote(u, i)
      BY <1>1, <1>5, <1>6, <1>9, <2>1, WriteKeeps
    <2> HIDE DEF u, i
    <2>3. /\ Cardinality(Named(u, "tool_start")) = tools + n
          /\ Named(u, "message_stop") = ends \cup {Len(u)}
      BY <2>1 DEF At
    <2> QED
      <3>1. ASSUME gone' = FALSE
            PROVE  Standing' /\ Replayed'
        <4>1. events' = u
          BY <2>2, <3>1 DEF Wrote
        <4>2. Standing'
          BY <1>5, <1>9, <2>1, <2>3, <4>1 DEF Standing
        <4>3. FinalSent'
          <5>1. replayed' > 0 /\ deltas'[replayed'] = d
            BY <1>1, <1>2 DEF d
          <5> QED
            BY <1>10, <5>1 DEF FinalSent, final
        <4>4. provider # "anthropic" => tools = 0 /\ ends = {} /\ Len(deltas'[replayed'].calls) = n
          <5> SUFFICES ASSUME provider # "anthropic"
                       PROVE  tools = 0 /\ ends = {} /\ Len(deltas'[replayed'].calls) = n
            OBVIOUS
          <5>1. Ends(deltas)
            BY DEF StreamInv, Faithful
          <5>2. ~FinalSent
            <6>1. replayed > 0 => replayed \in DOMAIN deltas
              BY <1>1, <1>2
            <6> QED
              BY <1>1, <5>1, <6>1 DEF FinalSent, Ends
          <5>3. tools = 0 /\ ends = {}
            BY <1>6, <5>2 DEF Replayed, tools, ends
          <5> QED
            BY <1>1, <5>3 DEF n, d
        <4>5. provider # "anthropic" => tools + n = n /\ ends \cup {Len(u)} = {Len(u)}
          BY <1>4, <4>4
        <4>6. Replayed'
          BY <1>1, <2>3, <4>1, <4>3, <4>4, <4>5 DEF Replayed
        <4> QED
          BY <4>2, <4>6
      <3>2. started' \in BOOLEAN /\ textOpen' \in BOOLEAN /\ replayed' # 0
        BY <1>1, <1>2, <1>5, <2>1
      <3> QED
        BY <1>1, <2>1, <2>2, <3>1, <3>2 DEF Message, Wrote
  <1>11. CASE ~final
    <2>1. At(u, textOpen', index, tools, ends) /\ index' = index /\ textOpen' \in BOOLEAN
      <3>1. textOpen' = IF d.text THEN TRUE ELSE textOpen
        BY <1>4, <1>5, <1>6, <1>11
      <3> HIDE DEF u, i
      <3>2. index' = index
        BY <1>5, <1>11
      <3> QED
        BY <1>6, <1>9, <1>11, <3>1, <3>2
    <2>2. Wrote(u, index)
      BY <1>1, <1>5, <1>6, <1>9, <2>1, WriteKeeps
    <2> HIDE DEF u, i
    <2>3. Cardinality(Named(u, "tool_start")) = tools /\ Named(u, "message_stop") = ends
      BY <2>1 DEF At
    <2> QED
      <3>1. ASSUME gone' = FALSE
            PROVE  Standing' /\ Replayed'
        <4>1. events' = u
          BY <2>2, <3>1 DEF Wrote
        <4>2. Standing'
          BY <1>5, <1>9, <2>1, <2>3, <4>1 DEF Standing
        <4>3. ~FinalSent'
          <5>1. deltas'[replayed'] = d
            BY <1>1 DEF d
          <5> QED
            BY <1>11, <5>1 DEF FinalSent, final
        <4>4. provider # "anthropic" => tools = 0 /\ ends = {}
          <5> SUFFICES ASSUME provider # "anthropic"
                       PROVE  tools = 0 /\ ends = {}
            OBVIOUS
          <5>1. Ends(deltas)
            BY DEF StreamInv, Faithful
          <5>2. ~FinalSent
            <6>1. replayed > 0 => replayed \in DOMAIN deltas
              BY <1>1, <1>2
            <6> QED
              BY <1>1, <5>1, <6>1 DEF FinalSent, Ends
          <5> QED
            BY <1>6, <5>2 DEF Replayed, tools, ends
        <4>5. Replayed'
          BY <1>1, <2>3, <4>1, <4>3, <4>4 DEF Replayed
        <4> QED
          BY <4>2, <4>5
      <3>2. started' \in BOOLEAN /\ index' \in Nat /\ replayed' # 0
        BY <1>1, <1>2, <1>5, <1>6, <2>1
      <3> QED
        BY <1>1, <2>1, <2>2, <3>1, <3>2 DEF Message, Wrote
  <1> QED
    BY <1>10, <1>11

LEMMA ReplayEndsKeepsMessage ==
    ASSUME Message, ReplayEnds, client = "anthropic"
    PROVE  Message'
  <1>1. /\ served = "no" /\ served' = "replay" /\ UNCHANGED <<client, replayed, deltas, provider>>
        /\ UNCHANGED <<events, gone, started, textOpen, index>>
    BY DEF ReplayEnds, Captured, Write, streamVars, readerVars, blockVars
  <1>2. Replayed => Replayed'
    BY <1>1 DEF Replayed, FinalSent
  <1> QED
    BY <1>1, <1>2 DEF Message

LEMMA MessageStep ==
    ASSUME StreamInv, Serving, OneWriter, Message, [Next]_vars
    PROVE  Message'
  <1>1. CASE Consume
    BY <1>1, ConsumeKeepsMessage
  <1>2. ASSUME ~Consume, [Next]_vars
        PROVE  UNCHANGED client
    BY <1>2 DEF Next, GiveUp, ServeToolBurst, Replay, ReplayEnds, vars, servingVars
  <1>3. CASE client # "anthropic"
    BY <1>1, <1>2, <1>3 DEF Message
  <1> SUFFICES ASSUME ~Consume, client = "anthropic", client' = client
               PROVE  Message'
    BY <1>1, <1>2, <1>3
  <1>4. CASE GiveUp
    <2>1. served = "no" /\ served' = "error" /\ deltas = <<>> /\ WriteError
      BY <1>4, Zenon DEF GiveUp, Captured, Write
    <2>2. replayed = 0
      BY <2>1 DEF Serving
    <2> QED
      BY <2>1, <2>2, ErrorKeepsMessage
  <1>5. CASE ServeToolBurst
    <2>1. served = "no" /\ replayed = 0
      BY <1>5 DEF ServeToolBurst, Captured
    <2>2. CASE Write(WriteError, WriteErrorFrame) /\ served' = "error"
      <3>1. WriteError
        BY <2>2, Zenon DEF Write
      <3> QED
        BY <2>1, <2>2, <3>1, ErrorKeepsMessage
    <2>3. ASSUME NEW text \in BOOLEAN, NEW n \in 0 .. Cardinality(ToolCall), served' = "burst",
                 Write(WriteResponseBurst(text, n), WriteOpenAIBurst(text, n))
          PROVE  Message'
      <3>1. WriteResponseBurst(text, n)
        BY <2>3, Zenon DEF Write
      <3>2. n \in Nat
        OBVIOUS
      <3> QED
        BY <2>1, <2>3, <3>1, <3>2, BurstKeepsMessage
    <2> QED
      BY <1>5, <2>2, <2>3, Zenon DEF ServeToolBurst
  <1>6. CASE Replay
    BY <1>6, ReplayKeepsMessage
  <1>7. CASE ReplayEnds
    BY <1>7, ReplayEndsKeepsMessage
  <1>8. CASE UNCHANGED vars
    BY <1>8 DEF Message, Standing, Replayed, FinalSent, vars, streamVars, readerVars, writerVars,
                servingVars, blockVars
  <1> QED
    BY <1>4, <1>5, <1>6, <1>7, <1>8 DEF Next

-----------------------------------------------------------------------------
\* All of it together is inductive.
ServingInv == StreamInv /\ Serving /\ OneWriter /\ Message

LEMMA ServingInvariance == Spec => []ServingInv
  <1>1. Init => ServingInv
    BY InitStreamInv, InitServing, InitMessage DEF Init, ServingInv
  <1>2. ServingInv /\ [Next]_vars => ServingInv'
    BY StreamStep, ServingStep, OneWriterStep, MessageStep DEF ServingInv
  <1> QED
    BY <1>1, <1>2, PTL DEF Spec

\* The writers' states stay of their types, and no event is of a block the Anthropic
\* writer has not come to (anthropic_stream.go:23-25).
THEOREM WritersTypeCorrect == Spec => []TypeOK
  <1>1. ServingInv => TypeOK
    <2> SUFFICES ASSUME ServingInv PROVE TypeOK
      OBVIOUS
    <2>1. /\ StreamTypeOK /\ OneWriter /\ Serving /\ Message
      BY DEF ServingInv, StreamInv
    <2>2. replayed \in 0 .. Len(deltas)
      BY <2>1 DEF Serving
    <2>3. CASE client = "anthropic"
      <3>1. /\ started \in BOOLEAN /\ textOpen \in BOOLEAN /\ index \in Nat /\ gone \in BOOLEAN
            /\ events \in Seq(WireEvents) /\ \A k \in DOMAIN events : events[k].block <= index
        BY <2>1, <2>3 DEF Message
      <3>2. first \in BOOLEAN
        BY <2>1, <2>3, Zenon DEF OneWriter
      <3>3. ASSUME NEW k \in DOMAIN events
            PROVE  events[k].block \in -1 .. index
        <4>1. events[k] \in WireEvents
          BY <3>1, LenProperties, ElementOfSeq
        <4>2. events[k].block \in {-1} \cup Nat
          BY <4>1 DEF WireEvents
        <4> QED
          BY <3>1, <4>2
      <3> QED
        BY <2>1, <2>2, <2>3, <3>1, <3>2, <3>3 DEF TypeOK, OneWriter
    <2>4. CASE client = "openai"
      <3>1. gone \in BOOLEAN /\ first \in BOOLEAN
        BY <2>1, <2>4 DEF Serving
      <3>2. started \in BOOLEAN /\ textOpen \in BOOLEAN /\ index \in Nat
        <4>1. started = FALSE /\ textOpen = FALSE /\ index = 0
          BY <2>1, <2>4, Zenon DEF OneWriter
        <4> QED
          BY <4>1
      <3> QED
        BY <2>1, <2>2, <2>4, <3>1, <3>2 DEF TypeOK, OneWriter
    <2> QED
      BY <2>1, <2>3, <2>4 DEF OneWriter
  <1> QED
    BY <1>1, ServingInvariance, PTL

\* Whatever deltas are replayed, however many tool calls they list and wherever the
\* client leaves: an Anthropic client gets message_start before any block, and blocks
\* numbered without a gap, each stopped before the next begins or the message ends
\* (anthropic_stream.go:14-17).
THEOREM BlocksAreInSequence == Spec => []BlocksInSequence
  <1>1. ServingInv => BlocksInSequence
    <2> SUFFICES ASSUME ServingInv, client = "anthropic" PROVE BlocksInSequence
      BY DEF BlocksInSequence
    <2>1. events \in Seq(WireEvents) /\ InSequence(events)
      BY DEF ServingInv, Message
    <2>2. \A k \in DOMAIN events : Fits(events, k) /\ k \in DOMAIN events
      BY <2>1 DEF InSequence
    <2>3. Starts = StartsIn(events) /\ \A i : StopOf(i) = StopsIn(events, i)
      BY DEF Starts, Blocks, StartsIn, StopOf, StopsIn, IsStart, IsStop
    <2>4. Blocks # {} => events[1].event = "message_start"
      BY <2>2 DEF Blocks, Fits
    <2>5. \A k \in Starts : events[k].block = Cardinality({l \in Starts : l < k})
      <3> SUFFICES ASSUME NEW k \in StartsIn(events)
                   PROVE  events[k].block = Cardinality({l \in StartsIn(events) : l < k})
        BY <2>3
      <3>1. k \in DOMAIN events /\ IsStart(events[k])
        BY DEF StartsIn
      <3> QED
        BY <2>2, <3>1 DEF Fits
    <2>6. \A k \in DOMAIN events :
              events[k].event \in {"text_start", "tool_start", "message_delta"} =>
                  \A l \in Starts : l < k => \E m \in StopOf(events[l].block) : l < m /\ m < k
      BY <2>2, <2>3 DEF Fits
    <2>7. \A k \in Blocks \ Starts :
              \E l \in Starts : /\ l < k /\ events[l].block = events[k].block
                                /\ \A m \in StopOf(events[l].block) : k <= m
      <3> SUFFICES ASSUME NEW k \in Blocks \ Starts
                   PROVE  \E l \in StartsIn(events) :
                              /\ l < k /\ events[l].block = events[k].block
                              /\ \A m \in StopsIn(events, events[l].block) : k <= m
        BY <2>3
      <3>1. k \in DOMAIN events /\ events[k].block >= 0 /\ ~IsStart(events[k])
        BY DEF Blocks, Starts, IsStart
      <3> QED
        BY <2>2, <3>1 DEF Fits
    <2> QED
      BY <2>4, <2>5, <2>6, <2>7 DEF BlocksInSequence
  <1> QED
    BY <1>1, ServingInvariance, PTL

\* However the OpenAI or the Gemini stream was, a message that was completely sent to
\* an Anthropic client has one message_stop, at its end, if it is over at all; a burst
\* and an error always are (anthropic_stream.go:140-170).
THEOREM MessagesEndOnce == Spec => []MessageEndsOnce
  <1>1. ServingInv => MessageEndsOnce
    <2> SUFFICES ASSUME ServingInv, client = "anthropic", served # "no", ~gone,
                        provider # "anthropic"
                 PROVE  LET ends == served = "replay" => deltas # <<>> /\ Last(deltas).finish # ""
                        IN  Named(events, "message_stop") = IF ends THEN {Len(events)} ELSE {}
      BY DEF MessageEndsOnce, Named
    <2>1. OneWriter /\ Serving /\ Message /\ deltas \in Seq(Delta)
      BY DEF ServingInv, StreamInv, StreamTypeOK
    <2>2. gone = FALSE
      BY <2>1 DEF Message
    <2>3. CASE served = "replay"
      <3>1. replayed = Len(deltas) /\ Replayed
        BY <2>1, <2>2, <2>3 DEF OneWriter, Message
      <3>2. FinalSent <=> deltas # <<>> /\ Last(deltas).finish # ""
        <4>1. Len(deltas) \in Nat /\ (Len(deltas) > 0 <=> deltas # <<>>)
          BY <2>1, EmptySeq, LenProperties
        <4> QED
          BY <3>1, <4>1 DEF FinalSent, Last
      <3> QED
        BY <2>3, <3>1, <3>2 DEF Replayed
    <2>4. CASE served # "replay"
      <3>1. Named(events, "message_stop") = {Len(events)}
        BY <2>1, <2>2, <2>4 DEF OneWriter, Message
      <3> QED
        BY <2>4, <3>1
    <2> QED
      BY <2>3, <2>4
  <1> QED
    BY <1>1, ServingInvariance, PTL

-----------------------------------------------------------------------------
\* The sum over a set of frames of which at most one lists tool calls.
LEMMA SumOfOne ==
    ASSUME NEW S, IsFiniteSet(S), NEW m,
           \A k \in S : events[k].calls \in Nat /\ (k # m => events[k].calls = 0)
    PROVE  FoldSet(LAMBDA k, n : n + events[k].calls, 0, S)
               = IF m \in S THEN events[m].calls ELSE 0
  <1> DEFINE step(f) == [s \in SUBSET S |->
                            IF s = {} THEN 0
                            ELSE LET x == CHOOSE x \in s : TRUE
                                 IN  f[s \ {x}] + events[x].calls]
             iter == CHOOSE f : f = step(f)
             sum == [s \in SUBSET S |-> IF m \in s THEN events[m].calls ELSE 0]
             wrong == {n \in Nat : \E s \in SUBSET S : Cardinality(s) = n /\ iter[s] # sum[s]}
  <1>1. FoldSet(LAMBDA k, n : n + events[k].calls, 0, S) = iter[S]
    BY DEF FoldSet, MapThenFoldSet
  <1>2. ASSUME NEW s \in SUBSET S
        PROVE  sum[s] = step(sum)[s]
    <2>1. CASE s = {}
      BY <2>1
    <2>2. CASE s # {}
      <3> DEFINE x == CHOOSE x \in s : TRUE
      <3>1. x \in s /\ s \ {x} \in SUBSET S
        BY <2>2
      <3>2. step(sum)[s] = sum[s \ {x}] + events[x].calls
        BY <2>2
      <3> HIDE DEF x
      <3>3. sum[s \ {x}] = IF m \in s \ {x} THEN events[m].calls ELSE 0
        BY <3>1
      <3>4. x \in S
        BY <3>1
      <3> QED
        BY <3>1, <3>2, <3>3, <3>4
    <2> QED
      BY <2>1, <2>2
  <1>3. iter = step(iter)
    <2>1. sum = step(sum)
      BY <1>2
    <2>2. \E f : f = step(f)
      BY <2>1
    <2> HIDE DEF step
    <2> QED
      BY <2>2
  <1> HIDE DEF iter
  <1>4. ASSUME NEW s \in SUBSET S, s # {},
               \A t \in SUBSET S : Cardinality(t) < Cardinality(s) => iter[t] = sum[t]
        PROVE  iter[s] = sum[s]
    <2> DEFINE x == CHOOSE x \in s : TRUE
    <2>1. x \in s /\ s \ {x} \in SUBSET S
      BY <1>4
    <2>2. /\ iter[s] = step(iter)[s] /\ step(iter)[s] = iter[s \ {x}] + events[x].calls
          /\ sum[s] = step(sum)[s] /\ step(sum)[s] = sum[s \ {x}] + events[x].calls
      BY <1>2, <1>3, <1>4
    <2> HIDE DEF x, sum, step
    <2>3. Cardinality(s \ {x}) < Cardinality(s)
      <3>1. IsFiniteSet(s)
        BY FS_Subset
      <3>2. Cardinality(s \ {x}) = Cardinality(s) - 1 /\ Cardinality(s) \in Nat
        BY <2>1, <3>1, FS_RemoveElement, FS_CardinalityType
      <3> QED
        BY <3>2
    <2>4. iter[s \ {x}] = sum[s \ {x}]
      BY <1>4, <2>1, <2>3
    <2> QED
      BY <2>2, <2>4
  <1>5. wrong = {}
    <2> SUFFICES ASSUME wrong # {} PROVE FALSE
      OBVIOUS
    <2>1. PICK n \in wrong : \A l \in wrong : n <= l
      <3>1. wrong \subseteq Nat
        OBVIOUS
      <3> HIDE DEF wrong
      <3> QED
        BY <3>1, SmallestOf
    <2>2. PICK s \in SUBSET S : Cardinality(s) = n /\ iter[s] # sum[s]
      BY <2>1
    <2>3. s # {}
      <3>1. iter[{}] = step(iter)[{}] /\ step(iter)[{}] = 0 /\ sum[{}] = 0
        BY <1>3
      <3> QED
        BY <2>2, <3>1
    <2> HIDE DEF sum, step
    <2>4. ASSUME NEW t \in SUBSET S, Cardinality(t) < Cardinality(s), iter[t] # sum[t]
          PROVE  FALSE
      <3>1. Cardinality(t) \in Nat /\ n \in Nat
        BY FS_Subset, FS_CardinalityType
      <3>2. Cardinality(t) \in wrong
        BY <2>4, <3>1
      <3>3. n <= Cardinality(t)
        BY <2>1, <3>2
      <3> HIDE DEF wrong
      <3> QED
        BY <2>2, <2>4, <3>1, <3>3
    <2> QED
      BY <1>4, <2>2, <2>3, <2>4
  <1>6. iter[S] = sum[S]
    <2>1. Cardinality(S) \in Nat /\ S \in SUBSET S
      BY FS_CardinalityType
    <2> HIDE DEF sum
    <2> QED
      BY <1>5, <2>1
  <1>7. sum[S] = IF m \in S THEN events[m].calls ELSE 0
    OBVIOUS
  <1> QED
    BY <1>1, <1>6, <1>7

-----------------------------------------------------------------------------
\* Only a final delta lists calls, and how many the last one lists.
Quiet(s) == \A k \in DOMAIN s : s[k].finish = "" => s[k].calls = <<>>
LastListed(s) == IF s = <<>> THEN 0 ELSE Len(s[Len(s)].calls)

\* The OpenAI consumer has every call that was streamed, and lists them all in the
\* last delta of a stream that ended cleanly.
AllListed ==
    provider = "openai" =>
        /\ calls = streamed /\ Quiet(deltas)
        /\ result = "ok" /\ ~EndedInError => Cardinality(streamed) = LastListed(deltas)

\* A chunk has the calls of its delta, and every delta got its chunk.
ChunksListThem ==
    /\ served = "replay" => result = "ok" \/ deltas # <<>>
    /\ client = "openai" /\ served \in {"no", "replay"} =>
          /\ \A k \in Chunks : k \in DOMAIN deltas /\ events[k].calls = Len(deltas[k].calls)
          /\ served = "replay" /\ gone = FALSE => Chunks = DOMAIN deltas

\* One more delta.
LEMMA OneMoreDelta ==
    ASSUME NEW s \in Seq(Delta), Quiet(s), NEW d \in Delta
    PROVE  /\ s \o <<d>> \in Seq(Delta) /\ LastListed(s \o <<d>>) = Len(d.calls)
           /\ (d.finish = "" => d.calls = <<>>) => Quiet(s \o <<d>>)
           /\ d.finish = "error" => \E k \in DOMAIN (s \o <<d>>) : (s \o <<d>>)[k].finish = "error"
  <1> DEFINE u == s \o <<d>>
  <1>1. /\ u \in Seq(Delta) /\ Len(u) = Len(s) + 1 /\ Len(s) \in Nat
        /\ DOMAIN s = 1 .. Len(s) /\ DOMAIN u = 1 .. Len(s) + 1
        /\ u[Len(s) + 1] = d /\ \A k \in DOMAIN s : u[k] = s[k]
    BY OneMore
  <1> HIDE DEF u
  <1>2. u # <<>>
    BY <1>1
  <1>3. LastListed(u) = Len(d.calls)
    BY <1>1, <1>2 DEF LastListed
  <1>4. (d.finish = "" => d.calls = <<>>) => Quiet(u)
    <2>1. \A k \in DOMAIN u : k \in DOMAIN s \/ k = Len(s) + 1
      BY <1>1
    <2> QED
      BY <1>1, <2>1 DEF Quiet
  <1>5. Len(s) + 1 \in DOMAIN u
    BY <1>1
  <1> QED
    BY <1>1, <1>3, <1>4, <1>5 DEF u

\* The calls listed are as many as were collected.
LEMMA ListedInFull ==
    ASSUME NEW collected \in SUBSET ToolCall, NEW listed \in SetToSeqs(collected),
           NEW reason \in Reason
    PROVE  /\ Final(reason, listed) \in Delta /\ Final(reason, listed).finish # ""
           /\ Final(reason, listed).finish = reason
           /\ Len(Final(reason, listed).calls) = Cardinality(collected)
  <1>1. Final(reason, listed) \in Delta
    BY FinalTyped
  <1>2. Cardinality(collected) \in Nat
    <2>1. IsFiniteSet(collected)
      BY StreamAssumption, FS_Subset
    <2> QED
      BY <2>1, FS_CardinalityType
  <1>3. listed \in [1 .. Cardinality(collected) -> ToolCall]
    BY DEF SetToSeqs
  <1>4. Len(listed) = Cardinality(collected)
    BY <1>2, <1>3, FunctionIsSequence
  <1>5. /\ Final(reason, listed).finish = reason /\ Final(reason, listed).calls = listed
        /\ reason # ""
    BY DEF Final, Reason
  <1> QED
    BY <1>1, <1>4, <1>5

\* A final delta is emitted after s that lists them, or the stream ended in an error.
LEMMA EndsListed ==
    ASSUME NEW s \in Seq(Delta), Quiet(s), NEW collected \in SUBSET ToolCall,
           NEW listed \in SetToSeqs(collected), NEW reason \in Reason,
           deltas' = s \o <<Final(reason, listed)>>, calls' = collected, streamed' = collected
    PROVE  AllListed'
  <1> DEFINE d == Final(reason, listed)
             u == s \o <<d>>
  <1>1. d \in Delta /\ d.finish # "" /\ Len(d.calls) = Cardinality(collected)
    BY ListedInFull
  <1>2. deltas' = u
    OBVIOUS
  <1> HIDE DEF d
  <1>3. LastListed(u) = Len(d.calls) /\ Quiet(u)
    BY <1>1, OneMoreDelta
  <1> HIDE DEF u
  <1>4. LastListed(deltas') = Cardinality(streamed') /\ Quiet(deltas')
    BY <1>1, <1>2, <1>3
  <1> QED
    BY <1>4 DEF AllListed

LEMMA OpenAIListsAll ==
    ASSUME StreamInv, AllListed, OpenAINext
    PROVE  AllListed'
  <1>1. /\ deltas \in Seq(Delta) /\ calls \in SUBSET ToolCall /\ provider = "openai"
        /\ result = "reading" /\ provider' = provider
    BY OpenAIEffect DEF StreamInv, StreamTypeOK
  <1>2. calls = streamed /\ Quiet(deltas)
    BY <1>1 DEF AllListed
  <1>3. \A k \in DOMAIN deltas : deltas[k].finish = ""
    BY <1>1 DEF StreamInv, Faithful, Texts
  <1>4. LastListed(deltas) = 0
    <2>1. CASE deltas = <<>>
      BY <2>1 DEF LastListed
    <2>2. CASE deltas # <<>>
      <3>1. Len(deltas) \in DOMAIN deltas
        BY <1>1, <2>2, LenProperties, EmptySeq
      <3>2. deltas[Len(deltas)].calls = <<>>
        BY <1>2, <1>3, <3>1 DEF Quiet
      <3> QED
        BY <2>2, <3>2 DEF LastListed
    <2> QED
      BY <2>1, <2>2
  <1>5. ASSUME NEW text \in BOOLEAN, NEW new \in SUBSET ToolCall, NEW reason \in Reason \cup {""},
               OpenAIChunk(text, new, reason)
        PROVE  AllListed'
    <2> DEFINE s == deltas \o When(text, Text)
               collected == calls \cup new
    <2>1. /\ calls' = collected /\ streamed' = collected /\ collected \in SUBSET ToolCall
          /\ result' = IF reason = "" THEN "reading" ELSE "ok"
      BY <1>1, <1>2, <1>5 DEF OpenAIChunk
    <2>2. PICK listed \in SetToSeqs(collected) :
              deltas' = s \o When(reason # "", Final(reason, listed))
      BY <2>1, <1>5 DEF OpenAIChunk
    <2>3. s \in Seq(Delta) /\ Quiet(s)
      <3>1. Text \in Delta /\ (Text.finish = "" => Text.calls = <<>>)
        <4> HIDE DEF s, collected
        <4>1. Text \in Delta
          BY EmptySeq, MaybeText DEF Text, Delta
        <4>2. Text.calls = <<>>
          BY DEF Text
        <4> QED
          BY <4>1, <4>2
      <3>2. CASE text
        <4>1. s = deltas \o <<Text>>
          BY <3>2 DEF When
        <4>2. deltas \o <<Text>> \in Seq(Delta) /\ Quiet(deltas \o <<Text>>)
          BY <1>1, <1>2, <3>1, OneMoreDelta
        <4> QED
          BY <4>1, <4>2, Zenon
      <3>3. CASE ~text
        <4>1. s = deltas \o <<>>
          BY <3>3 DEF When
        <4>2. deltas \o <<>> = deltas
          BY <1>1, NoDelta
        <4>3. s = deltas
          BY <4>1, <4>2, Zenon
        <4> HIDE DEF s
        <4> QED
          BY <1>1, <1>2, <4>3
      <3> QED
        BY <3>2, <3>3
    <2> HIDE DEF s, collected
    <2>4. CASE reason = ""
      <3>1. deltas' = s \o <<>>
        BY <2>2, <2>4 DEF When
      <3>2. deltas' = s
        BY <2>3, <3>1, NoDelta
      <3>3. result' = "reading"
        BY <2>1, <2>4
      <3> QED
        BY <2>1, <2>3, <3>2, <3>3 DEF AllListed
    <2>5. CASE reason # ""
      <3>1. deltas' = s \o <<Final(reason, listed)>>
        BY <2>2, <2>5 DEF When
      <3>2. reason \in Reason
        BY <2>5
      <3> QED
        BY <2>1, <2>3, <3>1, <3>2, EndsListed
    <2> QED
      BY <2>4, <2>5
  <1>6. ASSUME calls = {}, UNCHANGED <<deltas, calls, streamed>>
        PROVE  AllListed'
    <2>1. Cardinality(streamed') = 0 /\ LastListed(deltas') = 0 /\ Quiet(deltas')
      BY <1>2, <1>4, <1>6, FS_EmptySet
    <2>2. calls' = streamed'
      BY <1>2, <1>6
    <2> QED
      BY <2>1, <2>2 DEF AllListed
  <1>7. "stop" \in Reason /\ "error" \in Reason
    BY DEF Reason
  <1>8. CASE OpenAIDone
    <2>1. UNCHANGED <<calls, streamed>>
      BY <1>8 DEF OpenAIDone, Return
    <2>2. PICK listed \in SetToSeqs(calls) :
              deltas' = deltas \o When(calls # {}, Final("stop", listed))
      BY <1>8 DEF OpenAIDone
    <2>3. CASE calls = {}
      <3>1. deltas' = deltas \o <<>>
        BY <2>2, <2>3 DEF When
      <3>2. deltas' = deltas
        BY <1>1, <3>1, NoDelta
      <3> QED
        BY <1>6, <2>1, <2>3, <3>2
    <2>4. CASE calls # {}
      <3>1. deltas' = deltas \o <<Final("stop", listed)>>
        BY <2>2, <2>4 DEF When
      <3> QED
        BY <1>1, <1>2, <1>7, <2>1, <3>1, EndsListed
    <2> QED
      BY <2>3, <2>4
  <1>9. CASE OpenAIBreaksOff
    <2>1. /\ UNCHANGED <<calls, streamed>> /\ deltas' = deltas \o When(delivered, Broken)
          /\ result' = IF delivered THEN "ok" ELSE "transient"
      BY <1>9 DEF OpenAIBreaksOff, BreaksOff, Return
    <2>2. CASE delivered
      <3>1. deltas' = deltas \o <<Broken>>
        BY <2>1, <2>2 DEF When
      <3>2. Broken \in Delta /\ Broken.finish = "error"
        BY <1>7 DEF Broken, Final, Delta
      <3>3. /\ Quiet(deltas \o <<Broken>>)
            /\ \E k \in DOMAIN (deltas \o <<Broken>>) : (deltas \o <<Broken>>)[k].finish = "error"
        BY <1>1, <1>2, <3>2, OneMoreDelta
      <3>4. Quiet(deltas') /\ \E k \in DOMAIN deltas' : deltas'[k].finish = "error"
        BY <3>1, <3>3, Zenon
      <3>5. EndedInError'
        BY <3>4 DEF EndedInError, Finals
      <3> QED
        BY <1>2, <2>1, <3>4, <3>5 DEF AllListed
    <2>3. CASE ~delivered
      <3>1. deltas' = deltas \o <<>>
        BY <2>1, <2>3 DEF When
      <3>2. deltas' = deltas /\ result' # "ok"
        BY <1>1, <2>1, <2>3, <3>1, NoDelta
      <3> QED
        BY <1>2, <2>1, <3>2 DEF AllListed
    <2> QED
      BY <2>2, <2>3
  <1>10. CASE OpenAIEnd
    <2>1. UNCHANGED <<calls, streamed>>
      BY <1>10 DEF OpenAIEnd, Return
    <2>2. CASE calls = {} /\ UNCHANGED deltas
      BY <1>6, <2>1, <2>2
    <2>3. ASSUME NEW listed \in SetToSeqs(calls), deltas' = Append(deltas, Final("stop", listed))
          PROVE  AllListed'
      <3>1. Final("stop", listed) \in Delta
        BY <1>1, <1>7, FinalTyped
      <3>2. deltas' = deltas \o <<Final("stop", listed)>>
        BY <1>1, <2>3, <3>1, AppendIsConcat
      <3> QED
        BY <1>1, <1>2, <1>7, <2>1, <3>2, EndsListed
    <2> QED
      BY <1>10, <2>2, <2>3 DEF OpenAIEnd
  <1> QED
    BY <1>5, <1>8, <1>9, <1>10 DEF OpenAINext

\* Whatever happens to the stream, its calls are all listed.
LEMMA AllListedStep == StreamInv /\ AllListed /\ [Next]_vars => AllListed'
  <1> SUFFICES ASSUME StreamInv, AllListed, [Next]_vars PROVE AllListed'
    OBVIOUS
  <1>1. CASE OpenAINext
    BY <1>1, OpenAIListsAll
  <1>2. CASE AnthropicNext
    <2>1. provider' = "anthropic"
      BY <1>2, AnthropicEffect DEF StreamInv
    <2> QED
      BY <2>1 DEF AllListed
  <1>3. CASE GeminiNext
    <2>1. provider' = "gemini"
      BY <1>3, GeminiEffect DEF StreamInv
    <2> QED
      BY <2>1 DEF AllListed
  <1>4. CASE Send
    <2>1. result' # "ok" /\ UNCHANGED <<provider, calls, streamed, deltas>>
      BY <1>4 DEF Send, Failure
    <2> QED
      BY <2>1 DEF AllListed
  <1>5. CASE UNCHANGED streamVars
    BY <1>5 DEF AllListed, EndedInError, Finals, streamVars, readerVars
  <1> QED
    BY <1>1, <1>2, <1>3, <1>4, <1>5
       DEF Next, Consume, GiveUp, ServeToolBurst, Replay, ReplayEnds, vars

\* The chunks after one more write.
LEMMA MoreChunks ==
    ASSUME events \in Seq(Frames), NEW pre \in Seq(Frames), events' = events \o pre
    PROVE  /\ \A k \in Chunks : k \in Chunks' /\ events'[k] = events[k]
           /\ \A k \in Chunks' :
                 \/ k \in Chunks /\ events'[k] = events[k]
                 \/ \E j \in DOMAIN pre :
                       k = Len(events) + j /\ events'[k] = pre[j] /\ pre[j].event = "chunk"
  <1> DEFINE u == events \o pre
  <1>1. /\ \A k \in DOMAIN events : k \in DOMAIN u /\ u[k] = events[k]
        /\ \A k \in DOMAIN u :
              \/ k \in DOMAIN events /\ u[k] = events[k]
              \/ \E j \in DOMAIN pre : k = Len(events) + j /\ u[k] = pre[j]
    BY Extended
  <1>2. events' = u
    OBVIOUS
  <1> HIDE DEF u
  <1>3. Chunks' = {k \in DOMAIN u : u[k].event = "chunk"}
    BY <1>2 DEF Chunks
  <1> QED
    BY <1>1, <1>2, <1>3 DEF Chunks

LEMMA ReplayListsThem ==
    ASSUME StreamInv, Serving, ChunksListThem, Replay
    PROVE  ChunksListThem'
  <1>1. /\ served = "no" /\ gone # TRUE /\ replayed < Len(deltas)
        /\ UNCHANGED <<client, served, deltas>>
    BY DEF Replay, Captured, streamVars, readerVars
  <1>2. ASSUME client = "openai"
        PROVE  \A k \in Chunks' : k \in DOMAIN deltas /\ events'[k].calls = Len(deltas[k].calls)
    <2> DEFINE d == deltas[replayed + 1]
               c == Chunk(first, d.text, d.finish, Len(d.calls))
    <2>1. /\ events \in Seq(Frames) /\ first \in BOOLEAN /\ gone = FALSE
          /\ Len(events) = replayed
      BY <1>1, <1>2, Zenon DEF Serving, Replaying
    <2>2. Written(<<c>>)
      BY <1>2, Zenon DEF Replay, Write, WriteChunk
    <2>3. /\ replayed + 1 \in DOMAIN deltas /\ d \in Delta
      <3>1. deltas \in Seq(Delta) /\ Len(deltas) \in Nat /\ DOMAIN deltas = 1 .. Len(deltas)
        BY LenProperties DEF StreamInv, StreamTypeOK
      <3>2. replayed + 1 \in DOMAIN deltas
        BY <1>1, <3>1 DEF Serving
      <3> QED
        BY <3>1, <3>2, ElementOfSeq
    <2>4. c \in Frames /\ c.calls = Len(d.calls)
      <3> HIDE DEF d
      <3>1. d.text \in BOOLEAN /\ d.finish \in Reason \cup {""} /\ Len(d.calls) \in Nat
        BY <2>3, LenProperties DEF Delta
      <3> QED
        BY <2>1, <3>1 DEF Chunk, Frames
    <2> HIDE DEF c
    <2>5. PICK pre \in Seq(Frames) :
            /\ events' = events \o pre
            /\ Len(pre) \in {0, 1} /\ \A k \in DOMAIN pre : pre[k] = c
      BY <2>1, <2>2, <2>4, BeginningOfOne
    <2>6. \A j \in DOMAIN pre : j = 1 /\ pre[j].calls = Len(deltas[replayed + 1].calls)
      BY <2>4, <2>5, LenProperties
    <2>7. \A k \in Chunks' :
             \/ k \in Chunks /\ events'[k] = events[k]
             \/ k = replayed + 1 /\ events'[k].calls = Len(deltas[replayed + 1].calls)
      <3>1. \A k \in Chunks' :
               \/ k \in Chunks /\ events'[k] = events[k]
               \/ \E j \in DOMAIN pre :
                     k = Len(events) + j /\ events'[k] = pre[j] /\ pre[j].event = "chunk"
        BY <2>1, <2>5, MoreChunks
      <3> QED
        BY <2>1, <2>6, <3>1
    <2>8. \A k \in Chunks : k \in DOMAIN deltas /\ events[k].calls = Len(deltas[k].calls)
      BY <1>1, <1>2 DEF ChunksListThem
    <2> QED
      BY <2>3, <2>7, <2>8
  <1> QED
    BY <1>1, <1>2 DEF ChunksListThem

LEMMA ReplayEndListsThem ==
    ASSUME StreamInv, Serving, ChunksListThem, ReplayEnds
    PROVE  ChunksListThem'
  <1>1. /\ served = "no" /\ (result = "ok" \/ deltas # <<>>)
        /\ (gone \/ replayed = Len(deltas))
        /\ UNCHANGED <<client, deltas, result>>
    BY DEF ReplayEnds, Captured, streamVars, readerVars
  <1>2. ASSUME client = "openai"
        PROVE  /\ \A k \in Chunks' : k \in DOMAIN deltas /\ events'[k].calls = Len(deltas[k].calls)
               /\ gone' = FALSE => Chunks' = DOMAIN deltas
    <2> DEFINE c == Frame("done")
    <2>1. /\ events \in Seq(Frames) /\ gone \in BOOLEAN /\ Copies(events)
          /\ gone = FALSE => Len(events) = replayed
      BY <1>1, <1>2, Zenon DEF Serving, Replaying
    <2>2. Written(<<c>>)
      BY <1>2, Zenon DEF ReplayEnds, Write, WriteDone
    <2>3. c \in Frames /\ c.event = "done"
      BY DEF Frame, Frames
    <2>4. \A k \in Chunks : k \in DOMAIN deltas /\ events[k].calls = Len(deltas[k].calls)
      BY <1>1, <1>2 DEF ChunksListThem
    <2> HIDE DEF c
    <2>5. CASE gone = TRUE
      <3>1. UNCHANGED <<events, gone>>
        BY <2>2, <2>5 DEF Written
      <3> QED
        BY <2>4, <2>5, <3>1 DEF Chunks
    <2>6. CASE gone = FALSE
      <3>1. PICK pre \in Seq(Frames) : events' = events \o pre /\ \A k \in DOMAIN pre : pre[k] = c
        BY <2>2, <2>3, <2>6, BeginningOfOne
      <3>2. Chunks' = Chunks /\ \A k \in Chunks : events'[k] = events[k]
        <4>1. /\ \A k \in Chunks : k \in Chunks' /\ events'[k] = events[k]
              /\ \A k \in Chunks' :
                    \/ k \in Chunks /\ events'[k] = events[k]
                    \/ \E j \in DOMAIN pre :
                          k = Len(events) + j /\ events'[k] = pre[j] /\ pre[j].event = "chunk"
          BY <2>1, <3>1, MoreChunks
        <4>2. \A j \in DOMAIN pre : pre[j].event # "chunk"
          BY <2>3, <3>1
        <4> QED
          BY <4>1, <4>2
      <3>3. Chunks = DOMAIN events
        BY <2>1 DEF Chunks, Copies, IsChunk
      <3>4. DOMAIN events = DOMAIN deltas
        <4>1. deltas \in Seq(Delta)
          BY DEF StreamInv, StreamTypeOK
        <4>2. Len(events) = Len(deltas)
          BY <1>1, <2>1, <2>6
        <4> QED
          BY <2>1, <4>1, <4>2, LenProperties
      <3> QED
        BY <2>4, <3>2, <3>3, <3>4
    <2> QED
      BY <2>1, <2>5, <2>6
  <1> QED
    BY <1>1, <1>2 DEF ChunksListThem

LEMMA ChunksListThemStep ==
    ASSUME StreamInv, Serving, ChunksListThem, [Next]_vars
    PROVE  ChunksListThem'
  <1>1. CASE Consume
    <2>1. /\ UNCHANGED <<events, gone, client, replayed, served>>
          /\ result \in {"unsent", "reading"}
      BY <1>1, OpenAIEffect, AnthropicEffect, GeminiEffect
         DEF Consume, Send, StreamInv, writerVars, servingVars
    <2>2. served = "no" /\ replayed = 0
      BY <2>1 DEF Serving
    <2>3. client = "openai" => events = <<>>
      BY <2>2 DEF Serving
    <2>4. client = "openai" => Chunks' = {}
      BY <2>1, <2>3 DEF Chunks
    <2> QED
      BY <2>1, <2>2, <2>4 DEF ChunksListThem
  <1>2. CASE GiveUp \/ ServeToolBurst
    <2>1. served' \in {"error", "burst"}
      BY <1>2, Zenon DEF GiveUp, ServeToolBurst
    <2> QED
      BY <2>1 DEF ChunksListThem
  <1>3. CASE Replay
    BY <1>3, ReplayListsThem
  <1>4. CASE ReplayEnds
    BY <1>4, ReplayEndListsThem
  <1>5. CASE UNCHANGED vars
    BY <1>5 DEF ChunksListThem, Chunks, vars, streamVars, readerVars, writerVars, servingVars
  <1> QED
    BY <1>1, <1>2, <1>3, <1>4, <1>5 DEF Next

-----------------------------------------------------------------------------
\* How many calls the last delta lists is what the client of either wire got.
LEMMA ListedIsReceived ==
    ASSUME ServingInv, AllListed, ChunksListThem,
           provider = "openai", served = "replay", gone = FALSE
    PROVE  LastListed(deltas) =
             IF client = "anthropic"
             THEN Cardinality({k \in DOMAIN events : events[k].event = "tool_start"})
             ELSE FoldSet(LAMBDA k, n : n + events[k].calls, 0, Chunks)
  <1>1. /\ StreamInv /\ Serving /\ OneWriter /\ Message /\ deltas \in Seq(Delta)
        /\ Quiet(deltas) /\ Ends(deltas)
    BY DEF ServingInv, StreamInv, StreamTypeOK, Faithful, AllListed
  <1>2. Len(deltas) \in Nat /\ DOMAIN deltas = 1 .. Len(deltas) /\ (deltas = <<>> <=> Len(deltas) = 0)
    BY <1>1, LenProperties, EmptySeq
  <1>3. CASE client = "anthropic"
    <2>1. replayed = Len(deltas) /\ Replayed
      BY <1>1, <1>3 DEF OneWriter, Message
    <2>2. Cardinality(Named(events, "tool_start")) =
              IF FinalSent THEN Len(deltas[replayed].calls) ELSE 0
      BY <2>1 DEF Replayed
    <2>3. CASE deltas = <<>>
      <3>1. ~FinalSent
        BY <1>2, <2>1, <2>3 DEF FinalSent
      <3>2. LastListed(deltas) = 0
        BY <2>3 DEF LastListed
      <3> QED
        BY <1>3, <2>2, <3>1, <3>2 DEF Named
    <2>4. CASE deltas # <<>>
      <3>1. replayed \in DOMAIN deltas /\ LastListed(deltas) = Len(deltas[replayed].calls)
        BY <1>2, <2>1, <2>4 DEF LastListed
      <3>2. ~FinalSent => Len(deltas[replayed].calls) = 0
        <4>1. ~FinalSent => deltas[replayed].finish = ""
          <5>1. replayed > 0
            BY <1>2, <3>1
          <5> QED
            BY <5>1 DEF FinalSent
        <4>2. ~FinalSent => deltas[replayed].calls = <<>>
          BY <1>1, <3>1, <4>1 DEF Quiet
        <4> QED
          BY <4>2, EmptySeq
      <3> QED
        BY <1>3, <2>2, <3>1, <3>2 DEF Named
    <2> QED
      BY <2>3, <2>4
  <1>4. CASE client = "openai"
    <2>1. /\ Chunks = DOMAIN deltas
          /\ \A k \in Chunks : events[k].calls = Len(deltas[k].calls)
      BY <1>4 DEF ChunksListThem
    <2>2. IsFiniteSet(Chunks)
      BY <1>2, <2>1, FS_Interval
    <2>3. ASSUME NEW k \in Chunks
          PROVE  events[k].calls \in Nat /\ (k # Len(deltas) => events[k].calls = 0)
      <3>1. deltas[k] \in Delta
        BY <1>1, <2>1, ElementOfSeq
      <3>2. Len(deltas[k].calls) \in Nat
        BY <3>1, LenProperties DEF Delta
      <3>3. k # Len(deltas) => Len(deltas[k].calls) = 0
        <4>1. k # Len(deltas) => deltas[k].finish = ""
          <5>1. k \in DOMAIN deltas /\ (k # Len(deltas) => k < Len(deltas))
            BY <1>2, <2>1
          <5> QED
            BY <1>1, <5>1 DEF Ends
        <4>2. k # Len(deltas) => deltas[k].calls = <<>>
          BY <1>1, <2>1, <4>1 DEF Quiet
        <4> QED
          BY <4>2, EmptySeq
      <3> QED
        BY <2>1, <3>2, <3>3
    <2>4. FoldSet(LAMBDA k, n : n + events[k].calls, 0, Chunks)
              = IF Len(deltas) \in Chunks THEN events[Len(deltas)].calls ELSE 0
      BY <2>2, <2>3, SumOfOne
    <2>5. LastListed(deltas) = IF Len(deltas) \in Chunks THEN events[Len(deltas)].calls ELSE 0
      BY <1>2, <2>1 DEF LastListed
    <2> QED
      BY <1>4, <2>4, <2>5
  <1> QED
    BY <1>1, <1>3, <1>4 DEF OneWriter

\* Whatever calls an OpenAI upstream streams, in however many frames, and whichever
\* of the three ways the stream ends cleanly on, a client of either wire to whom it
\* is replayed gets each of them once (openai.go:484-488, 570-577, 591-598).
THEOREM NoStreamedCallIsLost == Spec => []NoCallIsLost
  <1>1. Init => AllListed /\ ChunksListThem
    <2> SUFFICES ASSUME Init PROVE AllListed /\ ChunksListThem
      OBVIOUS
    <2>1. /\ deltas = <<>> /\ calls = {} /\ streamed = {} /\ result = "unsent"
          /\ events = <<>> /\ served = "no"
      BY DEF Init, StreamInit, NothingWritten
    <2> QED
      BY <2>1 DEF AllListed, Quiet, ChunksListThem, Chunks
  <1>2. ServingInv /\ AllListed /\ ChunksListThem /\ [Next]_vars => (AllListed /\ ChunksListThem)'
    BY AllListedStep, ChunksListThemStep DEF ServingInv
  <1>3. ServingInv /\ AllListed /\ ChunksListThem => NoCallIsLost
    <2> SUFFICES ASSUME ServingInv, AllListed, ChunksListThem, provider = "openai",
                        served = "replay", ~gone, ~EndedInError
                 PROVE  NoCallIsLost
      BY DEF NoCallIsLost
    <2>1. gone = FALSE
      <3>1. gone \in BOOLEAN
        BY DEF ServingInv, OneWriter, Serving, Message
      <3> QED
        BY <3>1
    <2>2. result = "ok"
      <3>1. result = "ok" \/ deltas # <<>>
        BY DEF ChunksListThem
      <3>2. result \notin {"unsent", "reading"} /\ result \in {"unsent", "reading", "ok"} \cup Failure
        BY DEF ServingInv, Serving, StreamInv, StreamTypeOK
      <3>3. result \in Failure => deltas = <<>>
        BY DEF ServingInv, StreamInv, FailsExactlyBeforeContent
      <3> QED
        BY <3>1, <3>2, <3>3
    <2>3. Cardinality(streamed) = LastListed(deltas)
      BY <2>2 DEF AllListed
    <2> QED
      BY <2>1, <2>3, ListedIsReceived DEF NoCallIsLost
  <1> QED
    BY <1>1, <1>2, <1>3, ServingInvariance, PTL DEF Spec
=============================================================================
