--------------------------- MODULE SelectorProofs ---------------------------
(* Proofs about the selector, for any number of requests and candidates.  *)
EXTENDS SelectorRotation, TLAPS

USE SelectorAssumption DEF Index

-----------------------------------------------------------------------------
\* Ring arithmetic: (i + 1) % N and the distance between two positions are
\* positions (routing.go:95, 107, 121).
LEMMA RingStep == \A i \in Index : (i + 1) % N \in Index
  OBVIOUS

LEMMA DistanceFromZero == \A i \in Index : Distance(0, i) = i
  BY DEF Distance

\* Moving the cursor keeps it a position, and only round robin moves it.
LEMMA AdvancePastType ==
    ASSUME NEW i \in Index, cursor \in Index, AdvancePast(i)
    PROVE  /\ cursor' \in Index
           /\ Strategy = "failover" => cursor' = cursor
  BY RingStep DEF AdvancePast

-----------------------------------------------------------------------------
\* With failover no snapshot starts anywhere but at the beginning of the
\* configuration, and the cursor never leaves it.
CursorAtRest ==
    Strategy = "failover" =>
        cursor = 0 /\ \A r \in Request : start[r] = 0

\* What a request has left behind came before, in ring order from the start
\* of its snapshot, everything it has still to try.
SnapshotInRingOrder ==
    \A r \in Request : \A i \in left[r], j \in offered[r] \ left[r] :
        Distance(start[r], j) < Distance(start[r], i)

IInv == TypeOK /\ CursorAtRest /\ SnapshotInRingOrder

\* Two positions of the ring at the same distance from a third are the same.
LEMMA DistanceInjective ==
    ASSUME NEW s \in Index, NEW i \in Index, NEW j \in Index,
           Distance(s, i) = Distance(s, j)
    PROVE  i = j
  BY DEF Distance

LEMMA DistanceType ==
    ASSUME NEW s \in Index, NEW i \in Index
    PROVE  Distance(s, i) \in Index
  BY DEF Distance

-----------------------------------------------------------------------------
LEMMA InitInv == Init => IInv
  <1> SUFFICES ASSUME Init PROVE IInv
    OBVIOUS
  <1>1. TypeOK
    BY DEF Init, TypeOK
  <1>2. CursorAtRest
    BY DEF Init, CursorAtRest
  <1>3. SnapshotInRingOrder
    BY DEF Init, SnapshotInRingOrder
  <1> QED
    BY <1>1, <1>2, <1>3 DEF IInv

\* A snapshot starts with nothing left behind, from the cursor.
LEMMA BeginInv ==
    ASSUME IInv, NEW r \in Request, Begin(r)
    PROVE  IInv'
  <1> DEFINE out == {i \in Index : ~Benched(CandidateAt[i])}
  <1> USE DEF IInv
  <1>1. /\ cursor' \in Index
        /\ Strategy = "failover" => cursor' = cursor
    <2>1. CASE out = {} /\ cursor' = cursor
      BY <2>1 DEF TypeOK
    <2>2. CASE \E first \in out : IsFirst(first, out, cursor) /\ AdvancePast(first)
      BY <2>2, AdvancePastType DEF TypeOK
    <2> QED
      BY <2>1, <2>2 DEF Begin
  <1>2. TypeOK'
    BY <1>1 DEF Begin, TypeOK
  <1>3. CursorAtRest'
    BY <1>1 DEF Begin, TypeOK, CursorAtRest
  <1>4. SnapshotInRingOrder'
    <2> SUFFICES ASSUME NEW q \in Request,
                        NEW i \in left'[q], NEW j \in offered'[q] \ left'[q]
                 PROVE  Distance(start'[q], j) < Distance(start'[q], i)
      BY DEF SnapshotInRingOrder
    <2>1. q # r
      BY DEF Begin, TypeOK
    <2> QED
      BY <2>1 DEF Begin, TypeOK, SnapshotInRingOrder
  <1> QED
    BY <1>2, <1>3, <1>4

\* What a request keeps of its snapshot: the parts of the invariant about it.
SnapshotInv ==
    /\ start \in [Request -> Index]
    /\ offered \in [Request -> SUBSET Index]
    /\ left \in [Request -> SUBSET Index]
    /\ \A r \in Request : left[r] \subseteq offered[r]
    /\ Strategy = "failover" => \A r \in Request : start[r] = 0
    /\ SnapshotInRingOrder

\* A request may drop any prefix, in ring order, of what it has left.
LEMMA KeepInv ==
    ASSUME SnapshotInv, NEW r \in Request, NEW rest \in SUBSET left[r], Keep(r, rest),
           \A k \in rest, j \in left[r] \ rest :
                Distance(start[r], j) < Distance(start[r], k)
    PROVE  SnapshotInv' /\ \A q \in Request : left'[q] \subseteq left[q]
  <1> USE DEF SnapshotInv
  <1>1. /\ start' \in [Request -> Index]
        /\ offered' \in [Request -> SUBSET Index]
        /\ left' \in [Request -> SUBSET Index]
    BY DEF Keep
  <1>2. \A q \in Request : q # r => /\ left'[q] = left[q]
                                    /\ offered'[q] = offered[q]
                                    /\ start'[q] = start[q]
    BY DEF Keep
  <1>3. CASE rest = {}
    <2>1. left'[r] = {} /\ offered'[r] = {} /\ start'[r] = 0
      BY <1>3 DEF Keep
    <2> QED
      BY <1>1, <1>2, <2>1 DEF SnapshotInRingOrder
  <1>4. CASE rest # {}
    <2>1. left'[r] = rest /\ offered'[r] = offered[r] /\ start'[r] = start[r]
      BY <1>4 DEF Keep
    <2>2. ASSUME NEW k \in rest, NEW j \in offered[r] \ rest
          PROVE  Distance(start[r], j) < Distance(start[r], k)
      BY <2>2 DEF SnapshotInRingOrder
    <2>3. SnapshotInRingOrder'
      BY <1>2, <2>1, <2>2 DEF SnapshotInRingOrder
    <2> QED
      BY <1>1, <1>2, <2>1, <2>3
  <1> QED
    BY <1>3, <1>4

\* A request leaves its current candidate, or all of its snapshot.
LEMMA LeaveInv ==
    ASSUME SnapshotInv, NEW r \in Request, NEW i \in left[r], IsCurrent(i, r),
           Drop(r, i) \/ Finish(r)
    PROVE  SnapshotInv' /\ \A q \in Request : left'[q] \subseteq left[q]
  <1>1. CASE Finish(r)
    BY <1>1, KeepInv DEF Finish
  <1>2. CASE Drop(r, i)
    <2>1. ASSUME NEW k \in left[r] \ {i}
          PROVE  Distance(start[r], i) < Distance(start[r], k)
      <3>1. start[r] \in Index /\ i \in Index /\ k \in Index
        BY DEF SnapshotInv
      <3>2. Distance(start[r], i) <= Distance(start[r], k)
        BY DEF IsCurrent, IsFirst
      <3>3. Distance(start[r], i) # Distance(start[r], k)
        BY <3>1, DistanceInjective
      <3>4. Distance(start[r], i) \in Index /\ Distance(start[r], k) \in Index
        BY <3>1, DistanceType
      <3> QED
        BY <3>2, <3>3, <3>4
    <2>2. \A k \in left[r] \ {i}, j \in left[r] \ (left[r] \ {i}) :
             Distance(start[r], j) < Distance(start[r], k)
      BY <2>1
    <2> QED
      BY <1>2, <2>2, KeepInv DEF Drop
  <1> QED
    BY <1>1, <1>2

\* RecordFailure's effect on the selector.
LEMMA BenchType ==
    ASSUME TypeOK, NEW c \in Candidate, Bench(c)
    PROVE  /\ cooldowns' \in [Candidate -> 0 .. Cooldown]
           /\ cursor' \in Index
           /\ Strategy = "failover" => cursor' = cursor
  <1>1. PICK k \in Index : AdvancePast(k)
    BY DEF Bench
  <1> QED
    BY <1>1, AdvancePastType DEF Bench, TypeOK

-----------------------------------------------------------------------------
\* The steps by which a request reports on its current candidate or leaves it.
LEMMA UseInv ==
    ASSUME IInv, NEW r \in Request, Use(r)
    PROVE  IInv'
  <1>1. CASE Begin(r)
    BY <1>1, BeginInv
  <1>2. ASSUME NEW i \in left[r], IsCurrent(i, r), Drop(r, i) \/ Finish(r),
               cooldowns' \in [Candidate -> 0 .. Cooldown],
               cursor' \in Index,
               Strategy = "failover" => cursor' = cursor
        PROVE  IInv'
    <2>1. SnapshotInv
      BY DEF SnapshotInv, IInv, TypeOK, CursorAtRest
    <2>2. SnapshotInv'
      BY <1>2, <2>1, LeaveInv
    <2> QED
      BY <1>2, <2>2 DEF SnapshotInv, IInv, TypeOK, CursorAtRest
  <1>3. CASE RecordFailure(r) \/ RecordFinalFailure(r)
    <2>1. PICK i \in left[r] : /\ IsCurrent(i, r)
                               /\ Bench(CandidateAt[i])
                               /\ Drop(r, i) \/ Finish(r)
      BY <1>3 DEF RecordFailure, RecordFinalFailure
    <2>2. CandidateAt[i] \in Candidate
      BY DEF IInv, TypeOK
    <2> QED
      BY <1>2, <2>1, <2>2, BenchType DEF IInv
  <1>4. CASE RecordSuccess(r)
    <2>1. PICK i \in left[r] : /\ IsCurrent(i, r)
                               /\ \E k \in Index : AdvancePast(k)
                               /\ Finish(r)
                               /\ UNCHANGED cooldowns
      BY <1>4 DEF RecordSuccess
    <2>2. /\ cursor' \in Index
          /\ Strategy = "failover" => cursor' = cursor
      BY <2>1, AdvancePastType DEF IInv, TypeOK
    <2> QED
      BY <1>2, <2>1, <2>2 DEF IInv, TypeOK
  <1>5. CASE Skip(r)
    <2>1. PICK i \in left[r] : IsCurrent(i, r) /\ Drop(r, i)
      BY <1>5 DEF Skip
    <2> QED
      BY <1>2, <1>5, <2>1 DEF Skip, IInv, TypeOK
  <1>6. CASE Abandon(r)
    <2>1. SnapshotInv
      BY DEF SnapshotInv, IInv, TypeOK, CursorAtRest
    <2>2. SnapshotInv'
      BY <1>6, <2>1, KeepInv DEF Abandon, Finish
    <2> QED
      BY <1>6, <2>2 DEF Abandon, SnapshotInv, IInv, TypeOK, CursorAtRest
  <1> QED
    BY <1>1, <1>3, <1>4, <1>5, <1>6 DEF Use

LEMMA TickInv ==
    ASSUME IInv, Tick
    PROVE  IInv'
  <1>1. cooldowns' \in [Candidate -> 0 .. Cooldown]
    BY DEF Tick, Benched, IInv, TypeOK
  <1> QED
    BY <1>1 DEF Tick, IInv, TypeOK, CursorAtRest, SnapshotInRingOrder

LEMMA StepInv == IInv /\ [Next]_vars => IInv'
  <1>1. CASE UNCHANGED vars
    BY <1>1 DEF vars, IInv, TypeOK, CursorAtRest, SnapshotInRingOrder
  <1> QED
    BY <1>1, UseInv, TickInv DEF Next

LEMMA Invariance == Spec => []IInv
  BY InitInv, StepInv, PTL DEF Spec

-----------------------------------------------------------------------------
\* The selector's state is well formed, whatever the order in which requests
\* report.
THEOREM TypeCorrect == Spec => []TypeOK
  BY Invariance, PTL DEF IInv

\* Failover tries candidates in configuration order (routing.go:37): the
\* cursor stays at 0, so ring order from the start of a snapshot is the order
\* of the configuration.
THEOREM FailoverOrder == Spec => []FailoverKeepsConfigOrder
  <1>1. IInv => FailoverKeepsConfigOrder
    <2> SUFFICES ASSUME IInv, Strategy = "failover", NEW r \in Request,
                        NEW i \in left[r], NEW j \in offered[r] \ left[r]
                 PROVE  j < i
      BY DEF FailoverKeepsConfigOrder
    <2>1. i \in Index /\ j \in Index
      BY DEF IInv, TypeOK
    <2>2. Distance(0, j) < Distance(0, i)
      BY DEF IInv, CursorAtRest, SnapshotInRingOrder
    <2> QED
      BY <2>1, <2>2, DistanceFromZero
  <1> QED
    BY <1>1, Invariance, PTL

\* Only a request whose snapshot is older than the cooldown may still call a
\* benched candidate (routing.go:97, 114-118): Begin is the one step that
\* gives a request new candidates, and it offers no benched one.
THEOREM BenchedIsolation == Spec => BenchedGainsNoHolder
  <1> DEFINE A == \A c \in Candidate : Benched(c) => Holders(c)' \subseteq Holders(c)
  <1>1. IInv /\ [Next]_vars => [A]_vars
    <2> SUFFICES ASSUME IInv, Next, NEW c \in Candidate, Benched(c),
                        NEW q \in Request, NEW i \in left'[q], CandidateAt[i] = c
                 PROVE  i \in left[q]
      BY DEF Holders
    <2>1. CASE Tick
      BY <2>1 DEF Tick
    <2>2. ASSUME NEW r \in Request, Use(r)
          PROVE  i \in left[q]
      <3>1. CASE Begin(r)
        <4>1. q # r
          BY <3>1 DEF Begin, IInv, TypeOK
        <4> QED
          BY <3>1, <4>1 DEF Begin, IInv, TypeOK
      <3>2. \A rest \in SUBSET left[r] : Keep(r, rest) => i \in left[q]
        BY DEF Keep, IInv, TypeOK
      <3>3. ~Begin(r) => Finish(r) \/ \E k \in left[r] : Drop(r, k)
        BY <2>2 DEF Use, RecordFailure, RecordFinalFailure, RecordSuccess, Skip,
                    Abandon
      <3>4. Finish(r) \/ (\E k \in left[r] : Drop(r, k)) => i \in left[q]
        BY <3>2 DEF Finish, Drop
      <3> QED
        BY <3>1, <3>3, <3>4
    <2> QED
      BY <2>1, <2>2 DEF Next
  <1> QED
    BY <1>1, Invariance, PTL DEF Spec, BenchedGainsNoHolder
-----------------------------------------------------------------------------
\* The one candidate that was served since the last call is the one before the
\* cursor, and no request is at work.
ServedIsBehind ==
    justServed # {} =>
        /\ \A r \in Request : left[r] = {}
        /\ \E i \in Index : justServed = {CandidateAt[i]} /\ cursor = (i + 1) % N

SerialInv == IInv /\ OneAtATime /\ ServedIsBehind

\* The position before s is the last one reached from s.
LEMMA BehindIsLast ==
    ASSUME NEW i \in Index, NEW j \in Index, j # i
    PROVE  Distance((i + 1) % N, j) < Distance((i + 1) % N, i)
  <1>1. CASE i < N - 1
    <2>1. (i + 1) % N = i + 1
      BY <1>1
    <2> QED
      BY <2>1 DEF Distance
  <1>2. CASE i = N - 1
    <2>1. (i + 1) % N = 0
      BY <1>2
    <2> QED
      BY <1>2, <2>1 DEF Distance
  <1> QED
    BY <1>1, <1>2

\* Where the candidates differ, a success of one leaves the cursor behind it and,
\* as there is no other request, nobody at work.
LEMMA SuccessIsBehind ==
    ASSUME SerialInv, NEW r \in Request, RecordSuccess(r),
           justServed' = justServed \cup CurrentCandidate(r),
           Strategy = "round_robin",
           \A i, j \in Index : CandidateAt[i] = CandidateAt[j] => i = j
    PROVE  ServedIsBehind'
  <1>1. PICK i \in left[r] :
            /\ IsCurrent(i, r) /\ Finish(r)
            /\ \E k \in Index : IsIndexOf(k, CandidateAt[i]) /\ AdvancePast(k)
    BY DEF RecordSuccess
  <1>2. /\ left \in [Request -> SUBSET Index] /\ start[r] \in Index
        /\ i \in Index /\ left[r] \subseteq Index
    BY DEF SerialInv, IInv, TypeOK
  <1>3. cursor' = (i + 1) % N
    BY <1>1, <1>2 DEF IsIndexOf, AdvancePast
  <1>4. justServed = {}
    BY <1>1 DEF SerialInv, ServedIsBehind
  <1>5. ASSUME NEW j \in left[r], IsCurrent(j, r)
        PROVE  j = i
    <2>1. /\ Distance(start[r], i) <= Distance(start[r], j)
          /\ Distance(start[r], j) <= Distance(start[r], i)
      BY <1>1, <1>5 DEF IsCurrent, IsFirst
    <2>2. Distance(start[r], i) \in Index /\ Distance(start[r], j) \in Index
      BY <1>2, DistanceType
    <2>3. Distance(start[r], i) = Distance(start[r], j)
      BY <2>1, <2>2
    <2> QED
      BY <1>2, <2>3, DistanceInjective
  <1>6. CurrentCandidate(r) = {CandidateAt[i]}
    BY <1>1, <1>5 DEF CurrentCandidate
  <1>7. \A q \in Request : left'[q] = {}
    BY <1>1, <1>2 DEF Finish, Keep, SerialInv, OneAtATime
  <1> QED
    BY <1>2, <1>3, <1>4, <1>6, <1>7 DEF ServedIsBehind

LEMMA SerialStep ==
    ASSUME SerialInv, [RotationNext /\ OneAtATime']_rotationVars,
           Strategy = "round_robin",
           \A i, j \in Index : CandidateAt[i] = CandidateAt[j] => i = j
    PROVE  SerialInv'
  <1>1. CASE UNCHANGED rotationVars
    <2>1. IInv'
      BY <1>1, StepInv DEF SerialInv, rotationVars
    <2> QED
      BY <1>1, <2>1 DEF SerialInv, OneAtATime, ServedIsBehind, rotationVars, vars
  <1>2. CASE RotationNext /\ OneAtATime'
    <2>1. Next
      BY <1>2 DEF RotationNext, Next, Use
    <2>2. IInv'
      BY <2>1, StepInv DEF SerialInv
    <2>3. ASSUME Tick, UNCHANGED justServed
          PROVE  ServedIsBehind'
      BY <2>3 DEF SerialInv, ServedIsBehind, Tick
    <2>4. ASSUME NEW r \in Request, Begin(r),
                 justServed' = IF offered'[r] = {} THEN justServed ELSE {}
          PROVE  ServedIsBehind'
      <3>1. CASE offered'[r] = {}
        <4>1. UNCHANGED cursor /\ \A q \in Request : left'[q] \subseteq left[q]
          BY <2>4, <3>1 DEF Begin, IsFirst, SerialInv, IInv, TypeOK
        <4> QED
          BY <2>4, <3>1, <4>1 DEF SerialInv, ServedIsBehind
      <3>2. CASE offered'[r] # {}
        BY <2>4, <3>2 DEF ServedIsBehind
      <3> QED
        BY <3>1, <3>2
    <2>5. ASSUME NEW r \in Request, RecordSuccess(r),
                 justServed' = justServed \cup CurrentCandidate(r)
          PROVE  ServedIsBehind'
      BY <2>5, SuccessIsBehind
    <2>6. ASSUME NEW r \in Request, UNCHANGED justServed,
                 RecordFailure(r) \/ RecordFinalFailure(r) \/ Skip(r) \/ Abandon(r)
          PROVE  ServedIsBehind'
      <3>1. left[r] # {}
        BY <2>6 DEF RecordFailure, RecordFinalFailure, Skip, Abandon
      <3>2. justServed = {}
        BY <3>1 DEF SerialInv, ServedIsBehind
      <3> QED
        BY <2>6, <3>2 DEF ServedIsBehind
    <2> QED
      BY <1>2, <2>2, <2>3, <2>4, <2>5, <2>6 DEF RotationNext, SerialInv
  <1> QED
    BY <1>1, <1>2

\* With round robin over different candidates, as long as a model's requests do not
\* overlap, "the next call starts differently" (routing.go:45-46): not with the
\* candidate that served the call before, while another is available, whichever
\* were benched, skipped or given up in between.
THEOREM SerialCallsRotate ==
    ASSUME Strategy = "round_robin",
           \A i, j \in Index : CandidateAt[i] = CandidateAt[j] => i = j
    PROVE  SerialSpec => NextCallStartsDifferently
  <1>1. RotationInit => SerialInv
    BY InitInv DEF RotationInit, Init, SerialInv, OneAtATime, ServedIsBehind
  <1>2. SerialInv /\ [RotationNext /\ OneAtATime']_rotationVars => SerialInv'
    BY SerialStep
  <1>3. SerialInv => [\A r \in Request : Begin(r) => ~RepeatsServed(r)]_rotationVars
    <2> SUFFICES ASSUME SerialInv, NEW r \in Request, Begin(r), RepeatsServed(r)
                 PROVE  FALSE
      OBVIOUS
    <2>1. PICK i \in offered'[r], j \in offered'[r] :
              /\ IsFirst(i, offered'[r], start'[r]) /\ CandidateAt[i] \in justServed
              /\ CandidateAt[j] \notin justServed
      BY DEF RepeatsServed
    <2>2. i \in Index /\ j \in Index /\ i # j /\ start'[r] = cursor
      BY <2>1 DEF Begin, SerialInv, IInv, TypeOK
    <2>3. cursor = (i + 1) % N
      BY <2>1, <2>2 DEF SerialInv, ServedIsBehind
    <2>4. Distance(cursor, i) <= Distance(cursor, j)
      BY <2>1, <2>2 DEF IsFirst
    <2>5. Distance(cursor, j) < Distance(cursor, i)
      BY <2>2, <2>3, BehindIsLast
    <2>6. Distance(cursor, i) \in Index /\ Distance(cursor, j) \in Index
      BY <2>2, DistanceType DEF SerialInv, IInv, TypeOK
    <2> QED
      BY <2>4, <2>5, <2>6
  <1> QED
    BY <1>1, <1>2, <1>3, PTL DEF SerialSpec, NextCallStartsDifferently
=============================================================================
