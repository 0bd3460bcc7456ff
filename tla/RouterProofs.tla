---------------------------- MODULE RouterProofs ----------------------------
(* Proofs about the failover loops, for any requests, candidates and bounds. *)
EXTENDS Router, FiniteSetTheorems, TLAPS

-----------------------------------------------------------------------------
\* What each return of an upstream call does to the selector: one report about
\* the current candidate, or nothing.
SelectorStep(r) ==
    \/ Selector!RecordFailure(r) \/ Selector!RecordFinalFailure(r)
    \/ Selector!RecordSuccess(r) \/ Selector!Skip(r) \/ Selector!Abandon(r)
    \/ UNCHANGED selectorVars

LEMMA CallUsesSelector == \A r \in Request : CallReturns(r) => SelectorStep(r)
  BY DEF CallReturns, Failed, Succeeded, ToolLoop, SelectorStep, RateLimited,
         PermanentFailure, Retry, RetriesExhausted, AnthropicFailure, Completed,
         CompletedWithTools, StreamDelivered, StreamErrored, ToolLoopContinues,
         ToolLoopEnds, ToolLoopFails, ToolPanics

LEMMA NextUsesSelector == [Next]_vars => [Selector!Next]_selectorVars
  <1> SUFFICES ASSUME [Next]_vars PROVE [Selector!Next]_selectorVars
    OBVIOUS
  <1>1. CASE Tick
    BY <1>1 DEF Tick, Selector!Next
  <1>2. ASSUME NEW r \in Request, Arrive(r) PROVE Selector!Next
    BY <1>2 DEF Arrive, Selector!Next, Selector!Use
  <1>3. ASSUME NEW r \in Request, CallReturns(r)
        PROVE  Selector!Next \/ UNCHANGED selectorVars
    BY <1>3, CallUsesSelector DEF SelectorStep, Selector!Next, Selector!Use
  <1>4. ASSUME NEW r \in Request, Cancel(r) PROVE UNCHANGED selectorVars
    BY <1>4 DEF Cancel
  <1>5. CASE UNCHANGED vars
    BY <1>5 DEF vars
  <1> QED
    BY <1>1, <1>2, <1>3, <1>4, <1>5 DEF Next

\* Every behaviour of the four handlers is one of the selector's protocol
\* (chat_completions.go:461-512, anthropic_messages.go:210-238): what is proved
\* of the selector for all its users holds under the router.
THEOREM SelectorProtocol == Spec => UsesSelector
  <1>1. Init => Selector!Init
    BY DEF Init
  <1> QED
    BY <1>1, NextUsesSelector, PTL DEF Spec, UsesSelector

-----------------------------------------------------------------------------
\* The selector's own results hold for its use by the router; what the rotation
\* property remembers of successes is not needed here.
S == INSTANCE SelectorProofs WITH justServed <- {}

LEMMA SelectorParameters == S!SelectorAssumption
  BY RouterAssumption DEF S!Index

\* S and Router's Selector are two instances of one module.
LEMMA SameSelector ==
    /\ Selector!Next <=> S!Next
    /\ Selector!TypeOK <=> S!TypeOK
  <1> USE DEF Selector!Index, S!Index, Selector!Benched, S!Benched,
              Selector!Distance, S!Distance, Selector!IsFirst, S!IsFirst,
              Selector!IsIndexOf, S!IsIndexOf, Selector!IsCurrent, S!IsCurrent,
              Selector!AdvancePast, S!AdvancePast, Selector!Keep, S!Keep,
              Selector!Drop, S!Drop, Selector!Finish, S!Finish,
              Selector!Bench, S!Bench
  <1>1. Selector!Tick <=> S!Tick
    BY DEF Selector!Tick, S!Tick
  <1>2. \A r : Selector!Begin(r) <=> S!Begin(r)
    BY DEF Selector!Begin, S!Begin
  <1>3. \A r : Selector!RecordFailure(r) <=> S!RecordFailure(r)
    BY DEF Selector!RecordFailure, S!RecordFailure
  <1>4. \A r : Selector!RecordFinalFailure(r) <=> S!RecordFinalFailure(r)
    BY DEF Selector!RecordFinalFailure, S!RecordFinalFailure
  <1>5. \A r : Selector!RecordSuccess(r) <=> S!RecordSuccess(r)
    BY DEF Selector!RecordSuccess, S!RecordSuccess
  <1>6. \A r : (Selector!Skip(r) \/ Selector!Abandon(r)) <=> (S!Skip(r) \/ S!Abandon(r))
    BY DEF Selector!Skip, S!Skip, Selector!Abandon, S!Abandon
  <1>7. Selector!Next <=> S!Next
    BY <1>1, <1>2, <1>3, <1>4, <1>5, <1>6 DEF Selector!Next, S!Next, Selector!Use, S!Use
  <1>8. Selector!TypeOK <=> S!TypeOK
    BY DEF Selector!TypeOK, S!TypeOK
  <1> QED
    BY <1>7, <1>8

LEMMA SelectorInitInv == Init => Selector!TypeOK /\ S!IInv
  <1>1. Init => S!Init
    BY DEF Init, S!Init, Selector!Init
  <1> QED
    BY <1>1, SameSelector, SelectorParameters, S!InitInv DEF S!IInv

LEMMA SelectorStepInv ==
    ASSUME S!IInv, [Next]_vars
    PROVE  Selector!TypeOK' /\ S!IInv'
  <1>1. [S!Next]_(S!vars)
    BY NextUsesSelector, SameSelector DEF selectorVars, S!vars
  <1>2. S!IInv'
    BY <1>1, SelectorParameters, S!StepInv
  <1>3. Selector!TypeOK' <=> S!TypeOK'
    BY DEF Selector!TypeOK, S!TypeOK, Selector!Index, S!Index
  <1> QED
    BY <1>2, <1>3 DEF S!IInv

-----------------------------------------------------------------------------
\* What the return of an upstream call, or the panic of a tool, makes of a
\* request, whichever handler it is.  It gives up the candidate; tries it again; is served; starts or
\* goes on with the tool loop, a stream giving the rest of its snapshot up.
GivesUp(r) ==
    /\ \E i \in left[r] : left' = [left EXCEPT ![r] = @ \ {i}]
    /\ pc[r] = "tools" => ~kind[r].stream
    /\ FailOver(r)

TriesAgain(r) ==
    /\ pc[r] = "call" /\ attempt[r] < MaxAttempts
    /\ attempt' = [attempt EXCEPT ![r] = @ + 1]
    /\ UNCHANGED <<left, pc, round, cancelled, answer>>

IsServed(r) ==
    /\ left' = [left EXCEPT ![r] = {}]
    /\ \E what \in Answers \ {"none", "failed"} :
          Serve(r, what) /\ (what = "recovered" => pc[r] = "tools")

RunsTools(r) ==
    /\ pc[r] = "call"
    /\ left' = IF kind[r].stream THEN [left EXCEPT ![r] = {}] ELSE left
    /\ EnterToolLoop(r)

RunsMoreTools(r) ==
    /\ pc[r] = "tools" /\ round[r] + 1 < MaxServerToolIterations
    /\ round' = [round EXCEPT ![r] = @ + 1]
    /\ UNCHANGED <<left, pc, attempt, cancelled, answer>>

Effect(r) ==
    GivesUp(r) \/ TriesAgain(r) \/ IsServed(r) \/ RunsTools(r) \/ RunsMoreTools(r)

\* Where a request is in its snapshot: it holds candidates exactly while
\* another may still be tried, and its tool loop is within its bound.
Position(r) ==
    /\ pc[r] = "idle" => left[r] = {}
    /\ pc[r] = "call" => left[r] # {}
    /\ pc[r] = "tools" => (left[r] = {} <=> kind[r].stream)
    /\ pc[r] = "tools" => round[r] < MaxServerToolIterations

IInv == TypeOK /\ S!IInv /\ \A r \in Request : Position(r)

\* The selector's steps, by what they leave of the snapshot.
LEMMA SelectorDrops ==
    ASSUME NEW r \in Request
    PROVE  /\ Selector!RecordFailure(r) \/ Selector!Skip(r) =>
                  \E i \in left[r] : left' = [left EXCEPT ![r] = @ \ {i}]
           /\ \/ Selector!RecordSuccess(r) \/ Selector!RecordFinalFailure(r)
              \/ Selector!Abandon(r)
              => left' = [left EXCEPT ![r] = {}]
  BY DEF Selector!RecordFailure, Selector!Skip, Selector!RecordSuccess,
         Selector!RecordFinalFailure, Selector!Abandon, Selector!Drop,
         Selector!Finish, Selector!Keep

LEMMA CallHasEffect ==
    ASSUME IInv, NEW r \in Request, CallReturns(r)
    PROVE  /\ pc[r] \in {"call", "tools"}
           /\ Effect(r)
           /\ kind' = kind
           /\ last' = last \/ \E res \in Results : last' = [last EXCEPT ![r] = res]
  <1> USE SelectorDrops
  <1>1. left \in [Request -> SUBSET Selector!Index]
    BY DEF IInv, TypeOK, Selector!TypeOK
  <1>2. CASE RateLimited(r) \/ PermanentFailure(r) \/ RetriesExhausted(r) \/ AnthropicFailure(r)
    <2>1. pc[r] = "call" /\ GivesUp(r)
      BY <1>2 DEF RateLimited, PermanentFailure, RetriesExhausted, AnthropicFailure,
                  Calling, GivesUp
    <2>2. \E res \in Failure : Returns(r, res)
      BY <1>2 DEF RateLimited, PermanentFailure, RetriesExhausted, RetriableFailure,
                  AnthropicFailure, Failure
    <2> QED
      BY <2>1, <2>2 DEF Effect, Returns, Results
  <1>3. CASE Retry(r)
    BY <1>3 DEF Retry, Calling, RetriableFailure, Returns, Results, Failure, Effect, TriesAgain,
                selectorVars
  <1>4. CASE Completed(r) \/ StreamErrored(r)
    BY <1>4 DEF Completed, StreamErrored, Returns, Results, Completion, StreamEnd, Effect,
                IsServed, Answers
  <1>5. CASE CompletedWithTools(r)
    BY <1>5 DEF CompletedWithTools, Returns, Results, Completion, Effect, RunsTools,
                selectorVars
  <1>6. CASE StreamDelivered(r)
    BY <1>6 DEF StreamDelivered, Returns, Results, Completion, StreamEnd, Effect, IsServed,
                RunsTools, Answers
  <1>7. CASE ToolLoopContinues(r)
    BY <1>7 DEF ToolLoopContinues, Returns, Results, Completion, Effect, RunsMoreTools,
                selectorVars
  <1>8. CASE ToolLoopEnds(r)
    <2>1. kind[r].stream => left[r] = {}
      BY <1>8 DEF ToolLoopEnds, IInv, Position
    <2>2. left' = [left EXCEPT ![r] = {}]
      BY <1>1, <1>8, <2>1 DEF ToolLoopEnds, selectorVars
    <2> QED
      BY <1>8, <2>2 DEF ToolLoopEnds, Returns, Results, Completion, Effect, IsServed, Answers
  <1>9. CASE ToolLoopFails(r)
    <2>1. CASE kind[r].stream
      <3>1. left' = [left EXCEPT ![r] = {}]
        BY <1>1, <1>9, <2>1 DEF ToolLoopFails, selectorVars, IInv, Position
      <3> QED
        BY <1>9, <2>1, <3>1 DEF ToolLoopFails, Returns, Results, Effect, IsServed, Answers
    <2>2. CASE ~kind[r].stream
      BY <1>9, <2>2 DEF ToolLoopFails, Returns, Results, Effect, GivesUp
    <2> QED
      BY <2>1, <2>2
  <1>10. CASE ToolPanics(r)
    <2>1. kind[r].stream => left[r] = {}
      BY <1>10 DEF ToolPanics, IInv, Position
    <2>2. left' = [left EXCEPT ![r] = {}]
      BY <1>1, <1>10, <2>1 DEF ToolPanics, selectorVars
    <2> QED
      BY <1>10, <2>2 DEF ToolPanics, Effect, IsServed, Answers
  <1> QED
    BY <1>2, <1>3, <1>4, <1>5, <1>6, <1>7, <1>8, <1>9, <1>10
       DEF CallReturns, Failed, Succeeded, ToolLoop

-----------------------------------------------------------------------------
LEMMA InitInv == Init => IInv
  <1> SUFFICES ASSUME Init PROVE IInv
    OBVIOUS
  <1>1. Selector!TypeOK /\ S!IInv
    BY SelectorInitInv
  <1>2. kind \in [Request -> Kind]
    BY DEF Init
  <1>3. TypeOK
    BY <1>1, <1>2, RouterAssumption DEF Init, TypeOK, Answers
  <1>4. \A r \in Request : Position(r)
    BY DEF Init, Selector!Init, Position
  <1> QED
    BY <1>1, <1>3, <1>4 DEF IInv

\* Requests do not touch each other's loops.
Untouched(q) ==
    /\ left'[q] = left[q] /\ pc'[q] = pc[q] /\ kind'[q] = kind[q]
    /\ attempt'[q] = attempt[q] /\ round'[q] = round[q]

LEMMA UntouchedStays ==
    ASSUME NEW q \in Request, Position(q), Untouched(q)
    PROVE  Position(q)'
  BY DEF Position, Untouched

\* A call that returns leaves the loops well-formed and every request where it
\* should be in its snapshot.
LEMMA CallKeepsInv ==
    ASSUME IInv, NEW r \in Request, CallReturns(r), Selector!TypeOK', S!IInv'
    PROVE  IInv'
  <1>1. /\ pc[r] \in {"call", "tools"}
        /\ Effect(r)
        /\ kind' = kind
        /\ last' = last \/ \E res \in Results : last' = [last EXCEPT ![r] = res]
    BY CallHasEffect
  <1> USE RouterAssumption DEF IInv, TypeOK, Selector!TypeOK
  <1>typed. last' \in [Request -> Results \cup {"none"}]
    BY <1>1
  <1>2. CASE GivesUp(r)
    <2>1. PICK i \in left[r] : left' = [left EXCEPT ![r] = @ \ {i}]
      BY <1>2 DEF GivesUp
    <2>2. CASE left'[r] = {} /\ Serve(r, "failed")
      <3>1. TypeOK'
        BY <1>1, <1>typed, <2>2 DEF Serve, Answers
      <3>2. \A q \in Request \ {r} : Untouched(q)
        BY <1>1, <2>1, <2>2 DEF Serve, Untouched
      <3>3. Position(r)'
        BY <2>1, <2>2 DEF Serve, Position
      <3> QED
        BY <3>1, <3>2, <3>3, UntouchedStays
    <2>3. CASE /\ left'[r] # {}
               /\ pc' = [pc EXCEPT ![r] = "call"]
               /\ attempt' = [attempt EXCEPT ![r] = 1]
               /\ round' = [round EXCEPT ![r] = 0]
               /\ UNCHANGED <<cancelled, answer>>
      <3>1. TypeOK'
        BY <1>1, <1>typed, <2>3
      <3>2. \A q \in Request \ {r} : Untouched(q)
        BY <1>1, <2>1, <2>3 DEF Untouched
      <3>3. Position(r)'
        BY <2>1, <2>3 DEF Position
      <3> QED
        BY <3>1, <3>2, <3>3, UntouchedStays
    <2> QED
      BY <1>2, <2>2, <2>3 DEF GivesUp, FailOver
  <1>3. CASE IsServed(r)
    <2>1. PICK what \in Answers \ {"none", "failed"} : Serve(r, what)
      BY <1>3 DEF IsServed
    <2>2. TypeOK'
      BY <1>1, <1>typed, <2>1 DEF Serve
    <2>3. \A q \in Request \ {r} : Untouched(q)
      BY <1>1, <1>3, <2>1 DEF IsServed, Serve, Untouched
    <2>4. Position(r)'
      BY <1>3, <2>1 DEF IsServed, Serve, Position
    <2> QED
      BY <2>2, <2>3, <2>4, UntouchedStays
  <1>4. CASE TriesAgain(r)
    <2>1. TypeOK'
      BY <1>1, <1>typed, <1>4 DEF TriesAgain
    <2>2. \A q \in Request \ {r} : Untouched(q)
      BY <1>1, <1>4 DEF TriesAgain, Untouched
    <2>3. Position(r)'
      BY <1>1, <1>4 DEF TriesAgain, Position
    <2> QED
      BY <2>1, <2>2, <2>3, UntouchedStays
  <1>5. CASE RunsTools(r)
    <2>1. TypeOK'
      BY <1>1, <1>typed, <1>5 DEF RunsTools, EnterToolLoop
    <2>2. \A q \in Request \ {r} : Untouched(q)
      BY <1>1, <1>5 DEF RunsTools, EnterToolLoop, Untouched
    <2>3. Position(r)'
      BY <1>1, <1>5 DEF RunsTools, EnterToolLoop, Position
    <2> QED
      BY <2>1, <2>2, <2>3, UntouchedStays
  <1>6. CASE RunsMoreTools(r)
    <2>1. TypeOK'
      <3>1. round[r] + 1 \in 0 .. MaxServerToolIterations
        BY <1>6, <1>typed, RouterAssumption DEF RunsMoreTools
      <3>2. round' \in [Request -> 0 .. MaxServerToolIterations]
        BY <1>6, <1>typed, <3>1 DEF RunsMoreTools
      <3> QED
        BY <1>1, <1>typed, <1>6, <3>2 DEF RunsMoreTools
    <2>2. \A q \in Request \ {r} : Untouched(q)
      BY <1>1, <1>6 DEF RunsMoreTools, Untouched
    <2>3. Position(r)'
      BY <1>1, <1>6 DEF RunsMoreTools, Position
    <2> QED
      BY <2>1, <2>2, <2>3, UntouchedStays
  <1> QED
    BY <1>1, <1>2, <1>3, <1>4, <1>5, <1>6 DEF Effect

\* Begin gives a request that holds nothing some candidates, or none.
LEMMA ArriveKeepsInv ==
    ASSUME IInv, NEW r \in Request, Arrive(r), Selector!TypeOK', S!IInv'
    PROVE  IInv'
  <1> USE DEF IInv, TypeOK, Selector!TypeOK
  <1>1. \E out \in SUBSET Selector!Index :
            /\ left' = [left EXCEPT ![r] = out]
            /\ offered' = [offered EXCEPT ![r] = out]
    BY DEF Arrive, Selector!Begin
  <1>2. left'[r] = offered'[r] /\ \A q \in Request \ {r} : left'[q] = left[q]
    BY <1>1
  <1>3. TypeOK'
    BY DEF Arrive, Answers
  <1>4. \A q \in Request \ {r} : Untouched(q)
    BY <1>2 DEF Arrive, Untouched
  <1>5. Position(r)'
    BY <1>2 DEF Arrive, Position
  <1> QED
    BY <1>3, <1>4, <1>5, UntouchedStays

LEMMA StepInv == IInv /\ [Next]_vars => IInv'
  <1> SUFFICES ASSUME IInv, [Next]_vars PROVE IInv'
    OBVIOUS
  <1>1. Selector!TypeOK' /\ S!IInv'
    BY SelectorStepInv DEF IInv
  <1>2. ASSUME NEW r \in Request, Arrive(r) PROVE IInv'
    BY <1>1, <1>2, ArriveKeepsInv
  <1>3. ASSUME NEW r \in Request, CallReturns(r) PROVE IInv'
    BY <1>1, <1>3, CallKeepsInv
  <1>4. ASSUME NEW r \in Request, Cancel(r) PROVE IInv'
    BY <1>1, <1>4 DEF Cancel, IInv, TypeOK, Position, selectorVars
  <1>5. CASE Tick
    BY <1>1, <1>5 DEF Tick, Selector!Tick, loopVars, IInv, TypeOK, Position
  <1>6. CASE UNCHANGED vars
    BY <1>1, <1>6 DEF vars, selectorVars, loopVars, IInv, TypeOK, Position
  <1> QED
    BY <1>2, <1>3, <1>4, <1>5, <1>6 DEF Next

LEMMA Invariance == Spec => []IInv
  BY InitInv, StepInv, PTL DEF Spec

\* The state of selector and loops is well formed under every interleaving of
\* the handlers: no try or tool iteration beyond its bound.
THEOREM TypeCorrect == Spec => []TypeOK
  BY Invariance, PTL DEF IInv

-----------------------------------------------------------------------------
\* The budget, case by case, before a step and after it.
LEMMA Budget ==
    ASSUME NEW r \in Request
    PROVE  /\ pc[r] = "call" =>
                  CallsLeft(r) = Cardinality(left[r]) * CallsPerCandidate - (attempt[r] - 1)
           /\ pc[r] = "tools" =>
                  CallsLeft(r) = (IF kind[r].stream THEN 0 ELSE Cardinality(left[r]) - 1)
                                     * CallsPerCandidate
                                 + MaxServerToolIterations - round[r]
           /\ pc[r] = "idle" => CallsLeft(r) = 0
  BY Zenon DEF CallsLeft

LEMMA NextBudget ==
    ASSUME NEW r \in Request
    PROVE  /\ pc'[r] = "call" =>
                  CallsLeft(r)' = Cardinality(left'[r]) * CallsPerCandidate - (attempt'[r] - 1)
           /\ pc'[r] = "tools" =>
                  CallsLeft(r)' = (IF kind'[r].stream THEN 0 ELSE Cardinality(left'[r]) - 1)
                                      * CallsPerCandidate
                                  + MaxServerToolIterations - round'[r]
           /\ pc'[r] = "idle" => CallsLeft(r)' = 0
  BY Zenon DEF CallsLeft

\* Snapshots are finite, and giving a candidate up makes one smaller by one.
LEMMA SnapshotSize ==
    ASSUME Selector!TypeOK, NEW r \in Request
    PROVE  /\ Cardinality(left[r]) \in Nat
           /\ left[r] = {} <=> Cardinality(left[r]) = 0
           /\ \A i \in left[r] : Cardinality(left[r] \ {i}) = Cardinality(left[r]) - 1
  <1>1. IsFiniteSet(0 .. N - 1)
    BY FS_Interval, RouterAssumption
  <1>2. left[r] \subseteq 0 .. N - 1
    BY DEF Selector!TypeOK, Selector!Index
  <1>3. IsFiniteSet(left[r])
    BY <1>1, <1>2, FS_Subset
  <1> QED
    BY <1>3, FS_CardinalityType, FS_EmptySet, FS_RemoveElement

\* One candidate fewer is one candidate's calls fewer.
LEMMA OneFewer ==
    ASSUME NEW n \in Nat \ {0}
    PROVE  /\ n * CallsPerCandidate = (n - 1) * CallsPerCandidate + CallsPerCandidate
           /\ (n - 1) * CallsPerCandidate \in Nat
  <1>1. CallsPerCandidate \in Nat
    BY RouterAssumption DEF CallsPerCandidate
  <1> QED
    BY <1>1

\* No combination of retries, tool iterations and failover exceeds the budget
\* (chat_completions.go:273, 278, 465-512): each call that returns uses some of
\* it up, by a try, by a tool iteration, or by all that was left for the
\* candidate given up.
THEOREM CallBudget == Spec => EveryCallCountsDown
  <1>1. ASSUME IInv, NEW r \in Request, CallReturns(r)
        PROVE  0 <= CallsLeft(r)' /\ CallsLeft(r)' < CallsLeft(r)
    <2> DEFINE n == Cardinality(left[r])
               k == CallsPerCandidate
               rest == (n - 1) * k
    <2>1. pc[r] \in {"call", "tools"} /\ Effect(r) /\ kind' = kind
      BY <1>1, CallHasEffect
    <2>2. /\ pc \in [Request -> {"idle", "call", "tools"}]
          /\ attempt \in [Request -> 1 .. MaxAttempts]
          /\ round \in [Request -> 0 .. MaxServerToolIterations]
          /\ left \in [Request -> SUBSET Selector!Index]
          /\ kind[r].stream \in BOOLEAN
      BY <1>1 DEF IInv, TypeOK, Selector!TypeOK, Kind
    <2>3. n \in Nat /\ (left[r] # {} => n \in Nat \ {0})
      BY <1>1, SnapshotSize DEF IInv, TypeOK
    <2>4. Position(r)
      BY <1>1 DEF IInv
    <2>5. k = MaxAttempts + MaxServerToolIterations
      BY DEF CallsPerCandidate
    <2>6. left[r] # {} => n * k = rest + k /\ rest \in Nat
      BY <2>3, OneFewer
    <2> USE RouterAssumption
    \* A call of a candidate in the snapshot: something is left for the candidate,
    \* besides what is left for those after it.
    <2>7. left[r] # {} =>
             /\ CallsLeft(r) \in Int /\ CallsLeft(r) > rest
             /\ pc[r] = "call" => CallsLeft(r) > rest + MaxServerToolIterations
      <3>1. CASE pc[r] = "call"
        <4>1. CallsLeft(r) = n * k - (attempt[r] - 1)
          BY <3>1, Budget
        <4>2. attempt[r] \in 1 .. MaxAttempts
          BY <2>2
        <4> HIDE DEF n, k, rest
        <4> QED
          BY <4>1, <4>2, <2>3, <2>5, <2>6
      <3>2. CASE pc[r] = "tools" /\ left[r] # {}
        <4>1. CallsLeft(r) = rest + MaxServerToolIterations - round[r]
          BY <3>2, <2>4, Budget DEF Position
        <4>2. round[r] \in 0 .. MaxServerToolIterations /\ round[r] < MaxServerToolIterations
          BY <3>2, <2>2, <2>4 DEF Position
        <4> HIDE DEF n, k, rest
        <4> QED
          BY <3>2, <4>1, <4>2, <2>6
      <3> QED
        BY <2>1, <3>1, <3>2
    <2>8. CallsLeft(r) \in Int /\ CallsLeft(r) > 0
      <3>1. CASE left[r] # {}
        <4> HIDE DEF n, k, rest
        <4> QED
          BY <3>1, <2>6, <2>7
      <3>2. CASE left[r] = {}
        <4>1. CallsLeft(r) = 0 * k + MaxServerToolIterations - round[r]
          BY <3>2, <2>1, <2>4, Budget DEF Position
        <4>2. round[r] \in 0 .. MaxServerToolIterations /\ round[r] < MaxServerToolIterations
          BY <3>2, <2>1, <2>2, <2>4 DEF Position
        <4> QED
          BY <4>1, <4>2, <2>5
      <3> QED
        BY <3>1, <3>2
    <2>9. CASE GivesUp(r)
      <3>1. PICK i \in left[r] : left'[r] = left[r] \ {i}
        BY <2>2, <2>9 DEF GivesUp
      <3>2. Cardinality(left'[r]) = n - 1
        BY <1>1, <3>1, SnapshotSize DEF IInv, TypeOK
      <3>3. \/ pc'[r] = "idle"
            \/ pc'[r] = "call" /\ attempt'[r] = 1
        BY <2>2, <2>9 DEF GivesUp, FailOver, Serve
      <3>4. CallsLeft(r)' \in {0, rest}
        <4>1. CASE pc'[r] = "idle"
          BY <4>1, NextBudget
        <4>2. CASE pc'[r] = "call" /\ attempt'[r] = 1
          <5>1. CallsLeft(r)' = rest - (1 - 1)
            BY <4>2, <3>2, NextBudget
          <5>2. rest \in Nat
            BY <3>1, <2>6
          <5> HIDE DEF rest
          <5> QED
            BY <5>1, <5>2
        <4> QED
          BY <3>3, <4>1, <4>2
      <3> HIDE DEF n, k, rest
      <3> QED
        BY <3>1, <3>4, <2>6, <2>7
    <2>10. CASE IsServed(r)
      <3>1. pc'[r] = "idle"
        BY <2>2, <2>10 DEF IsServed, Serve
      <3> QED
        BY <3>1, <2>8, NextBudget
    <2>11. CASE TriesAgain(r)
      <3>1. /\ CallsLeft(r) = n * k - (attempt[r] - 1)
            /\ CallsLeft(r)' = n * k - (attempt[r] + 1 - 1)
        BY <2>2, <2>11, Budget, NextBudget DEF TriesAgain
      <3>2. attempt[r] \in 1 .. MaxAttempts /\ attempt[r] < MaxAttempts /\ left[r] # {}
        BY <2>2, <2>4, <2>11 DEF TriesAgain, Position
      <3> HIDE DEF n, k, rest
      <3> QED
        BY <3>1, <3>2, <2>5, <2>6
    <2>12. CASE RunsTools(r)
      <3>1. pc'[r] = "tools" /\ round'[r] = 0 /\ left[r] # {}
        BY <2>2, <2>4, <2>12 DEF RunsTools, EnterToolLoop, Position
      <3>2. CASE kind[r].stream
        <4>1. CallsLeft(r)' = 0 * k + MaxServerToolIterations - 0
          BY <2>1, <3>1, <3>2, NextBudget
        <4> HIDE DEF n, rest
        <4> QED
          BY <4>1, <3>1, <2>5, <2>6, <2>7, <2>12 DEF RunsTools
      <3>3. CASE ~kind[r].stream
        <4>1. CallsLeft(r)' = rest + MaxServerToolIterations - 0
          BY <2>1, <3>1, <3>3, <2>12, NextBudget DEF RunsTools
        <4> HIDE DEF n, k, rest
        <4> QED
          BY <4>1, <3>1, <2>6, <2>7, <2>12 DEF RunsTools
      <3> QED
        BY <2>2, <3>2, <3>3
    <2>13. CASE RunsMoreTools(r)
      <3> DEFINE before == (IF kind[r].stream THEN 0 ELSE n - 1) * k
      <3>1. /\ CallsLeft(r) = before + MaxServerToolIterations - round[r]
            /\ CallsLeft(r)' = before + MaxServerToolIterations - (round[r] + 1)
        BY <2>1, <2>2, <2>13, Budget, NextBudget DEF RunsMoreTools
      <3>2. before \in Nat
        BY <2>4, <2>5, <2>6, <2>13 DEF RunsMoreTools, Position
      <3>3. round[r] \in 0 .. MaxServerToolIterations /\ round[r] + 1 < MaxServerToolIterations
        BY <2>2, <2>13 DEF RunsMoreTools
      <3> HIDE DEF before
      <3> QED
        BY <3>1, <3>2, <3>3
    <2> QED
      BY <2>1, <2>9, <2>10, <2>11, <2>12, <2>13 DEF Effect
  <1>2. IInv /\ [Next]_vars =>
           [\A r \in Request :
               CallReturns(r) => 0 <= CallsLeft(r)' /\ CallsLeft(r)' < CallsLeft(r)]_vars
    BY <1>1
  <1> QED
    BY <1>2, Invariance, PTL DEF Spec, EveryCallCountsDown

-----------------------------------------------------------------------------
\* A candidate is benched by RecordFailure alone.
LEMMA OnlyFailuresBench ==
    ASSUME IInv, NEW r \in Request,
           \/ Selector!RecordSuccess(r) \/ Selector!Skip(r) \/ Selector!Abandon(r)
           \/ UNCHANGED selectorVars
    PROVE  ~BenchedBy(r)
  <1>1. cooldowns' = cooldowns /\ cooldowns \in [Candidate -> 0 .. Cooldown]
    BY DEF IInv, TypeOK, Selector!TypeOK, Selector!RecordSuccess, Selector!Skip,
           Selector!Abandon, selectorVars
  <1> QED
    BY <1>1, RouterAssumption DEF BenchedBy

\* Only a 429 to the first try, and a failure inside the tool loop, make the
\* OpenAI handlers call RecordFailure (chat_completions.go:475-502,
\* complete_common.go:28-32): no candidate goes into cooldown for a transient
\* failure, a rejected request or a client that left.
THEOREM OnlyRateLimitsBench == Spec => TransientFailuresNeverBench
  <1>1. ASSUME IInv, NEW r \in Request, CallReturns(r), BenchedBy(r),
               kind[r].wire = "openai"
        PROVE  last'[r] = "rate" \/ pc[r] = "tools"
    <2>1. last \in [Request -> Results \cup {"none"}]
      BY <1>1 DEF IInv, TypeOK
    <2>2. CASE RateLimited(r)
      BY <2>1, <2>2 DEF RateLimited, Returns
    <2>3. CASE PermanentFailure(r) \/ Retry(r) \/ RetriesExhausted(r)
      BY <1>1, <2>3, OnlyFailuresBench DEF PermanentFailure, Retry, RetriesExhausted
    <2>4. CASE AnthropicFailure(r)
      BY <1>1, <2>4 DEF AnthropicFailure, Calling
    <2>5. CASE Succeeded(r)
      BY <1>1, <2>5, OnlyFailuresBench
         DEF Succeeded, Completed, CompletedWithTools, StreamDelivered, StreamErrored
    <2>6. CASE ToolLoop(r)
      BY <2>6 DEF ToolLoop, ToolLoopContinues, ToolLoopEnds, ToolLoopFails, ToolPanics
    <2> QED
      BY <1>1, <2>2, <2>3, <2>4, <2>5, <2>6 DEF CallReturns, Failed
  <1>2. IInv /\ [Next]_vars =>
           [\A r \in Request :
               BenchedBy(r) /\ kind[r].wire = "openai" =>
                   last'[r] = "rate" \/ pc[r] = "tools"]_vars
    BY <1>1 DEF BenchedBy
  <1> QED
    BY <1>2, Invariance, PTL DEF Spec, TransientFailuresNeverBench

-----------------------------------------------------------------------------
\* The refinement mapping, case by case.
LEMMA StatusCases ==
    ASSUME NEW r \in Request
    PROVE  /\ pc[r] = "call" => Status(r) = "trying"
           /\ pc[r] = "tools" => Status(r) = IF kind[r].stream THEN "committed" ELSE "working"
           /\ pc[r] = "idle" => Status(r) = IF answer[r] \in {"none", "failed"} THEN answer[r]
                                            ELSE IF answer[r] = "recovered" THEN "brokenoff"
                                            ELSE "answered"
  BY Zenon DEF Status

LEMMA NextStatusCases ==
    ASSUME NEW r \in Request
    PROVE  /\ pc'[r] = "call" => Status(r)' = "trying"
           /\ pc'[r] = "tools" => Status(r)' = IF kind'[r].stream THEN "committed" ELSE "working"
           /\ pc'[r] = "idle" => Status(r)' = IF answer'[r] \in {"none", "failed"} THEN answer'[r]
                                              ELSE IF answer'[r] = "recovered" THEN "brokenoff"
                                              ELSE "answered"
  BY Zenon DEF Status

\* A step of request r that changes nobody else's status.
LEMMA StatusOfOne ==
    ASSUME IInv, NEW r \in Request, kind' = kind,
           \A q \in Request \ {r} : pc'[q] = pc[q] /\ answer'[q] = answer[q]
    PROVE  [q \in Request |-> Status(q)]'
             = [[q \in Request |-> Status(q)] EXCEPT ![r] = Status(r)']
  <1>1. \A q \in Request \ {r} : Status(q)' = Status(q)
    BY DEF Status
  <1> QED
    BY <1>1

\* The return of a call is a step of the promise, or none that it can see.
LEMMA CallMapsToPromise ==
    ASSUME IInv, NEW r \in Request, CallReturns(r)
    PROVE  Promise!Resolve(r) \/ UNCHANGED Promise!vars
  <1> DEFINE status == [q \in Request |-> Status(q)]
             Others == \A q \in Request \ {r} : pc'[q] = pc[q] /\ answer'[q] = answer[q]
  <1>1. pc[r] \in {"call", "tools"} /\ Effect(r) /\ kind' = kind /\ Position(r)
    BY CallHasEffect DEF IInv
  <1>2. /\ pc \in [Request -> {"idle", "call", "tools"}]
        /\ answer \in [Request -> Answers]
        /\ left \in [Request -> SUBSET Selector!Index]
    BY DEF IInv, TypeOK, Selector!TypeOK
  <1>3. Others => status' = [status EXCEPT ![r] = Status(r)']
    BY <1>1, StatusOfOne
  <1> HIDE DEF status
  <1>4. status[r] = Status(r)
    BY DEF status
  <1>5. left[r] # {} => status[r] = IF pc[r] = "call" THEN "trying" ELSE "working"
    BY <1>1, <1>4, StatusCases DEF Position
  <1>6. left[r] = {} => status[r] = "committed"
    BY <1>1, <1>4, StatusCases DEF Position
  <1>7. CASE GivesUp(r)
    <2>1. PICK i \in left[r] : left' = [left EXCEPT ![r] = @ \ {i}]
      BY <1>7 DEF GivesUp
    <2>2. Others
      BY <1>2, <1>7 DEF GivesUp, FailOver, Serve
    <2>3. Status(r)' = IF left[r] = {i} THEN "failed" ELSE "trying"
      <3>1. CASE left'[r] = {} /\ Serve(r, "failed")
        BY <1>2, <2>1, <3>1, NextStatusCases DEF Serve
      <3>2. CASE left'[r] # {} /\ pc' = [pc EXCEPT ![r] = "call"]
        BY <1>2, <2>1, <3>2, NextStatusCases
      <3> QED
        BY <1>7, <3>1, <3>2 DEF GivesUp, FailOver
    <2> QED
      BY <1>3, <1>5, <2>1, <2>2, <2>3 DEF Promise!Resolve, Promise!Reject, status
  <1>8. CASE IsServed(r)
    <2>1. PICK what \in Answers \ {"none", "failed"} :
              Serve(r, what) /\ (what = "recovered" => pc[r] = "tools")
      BY <1>8 DEF IsServed
    <2>2. Others /\ pc'[r] = "idle" /\ answer'[r] = what
      BY <1>2, <2>1 DEF Serve
    <2>3. CASE what = "recovered"
      <3>1. Status(r)' = "brokenoff"
        BY <2>2, <2>3, NextStatusCases
      <3>2. status[r] \in {"working", "committed"}
        BY <1>1, <1>5, <1>6, <2>1, <2>3
      <3> QED
        BY <1>3, <1>8, <2>2, <3>1, <3>2 DEF Promise!Resolve, Promise!BreakOff, IsServed, status
    <2>4. CASE what # "recovered"
      <3>1. Status(r)' = "answered"
        BY <2>1, <2>2, <2>4, NextStatusCases
      <3> QED
        BY <1>1, <1>3, <1>5, <1>6, <1>8, <2>2, <3>1
           DEF Promise!Resolve, Promise!Answer, IsServed, status
    <2> QED
      BY <2>3, <2>4
  <1>9. CASE RunsTools(r)
    <2>1. left[r] # {}
      BY <1>1, <1>9 DEF RunsTools, Position
    <2>2. Others /\ Status(r)' = IF kind[r].stream THEN "committed" ELSE "working"
      BY <1>1, <1>2, <1>9, NextStatusCases DEF RunsTools, EnterToolLoop
    <2>3. CASE kind[r].stream
      BY <1>3, <1>5, <1>9, <2>1, <2>2, <2>3
         DEF Promise!Resolve, Promise!Commit, RunsTools, status
    <2>4. CASE ~kind[r].stream
      BY <1>3, <1>5, <1>9, <2>1, <2>2, <2>4
         DEF Promise!Resolve, Promise!Work, RunsTools, status
    <2> QED
      BY <2>3, <2>4
  <1>10. CASE TriesAgain(r) \/ RunsMoreTools(r)
    <2>1. UNCHANGED <<left, pc, answer, kind>>
      BY <1>1, <1>10 DEF TriesAgain, RunsMoreTools
    <2>2. status' = status
      BY <2>1, Zenon DEF status, Status
    <2> QED
      BY <2>1, <2>2 DEF Promise!vars, status
  <1> QED
    BY <1>1, <1>7, <1>8, <1>9, <1>10 DEF Effect

\* An arriving request is accepted, with what Begin offers it.
LEMMA ArriveMapsToPromise ==
    ASSUME IInv, NEW r \in Request, Arrive(r)
    PROVE  Promise!Accept(r)
  <1> DEFINE status == [q \in Request |-> Status(q)]
  <1>1. PICK out \in SUBSET Selector!Index :
            left' = [left EXCEPT ![r] = out] /\ offered' = [offered EXCEPT ![r] = out]
    BY DEF Arrive, Selector!Begin
  <1>2. /\ pc \in [Request -> {"idle", "call", "tools"}]
        /\ answer \in [Request -> Answers]
        /\ offered'[r] = out
    BY <1>1 DEF IInv, TypeOK, Selector!TypeOK
  <1>3. kind' = kind /\ \A q \in Request \ {r} : pc'[q] = pc[q] /\ answer'[q] = answer[q]
    BY <1>2 DEF Arrive
  <1>4. status' = [status EXCEPT ![r] = Status(r)']
    BY <1>3, StatusOfOne
  <1>5. Status(r)' = IF out = {} THEN "failed" ELSE "trying"
    BY <1>2, NextStatusCases DEF Arrive
  <1>6. Status(r) \notin {"trying", "working", "committed"}
    BY StatusCases DEF Arrive
  <1> QED
    BY <1>1, <1>4, <1>5, <1>6 DEF Promise!Accept, Promise!Pending

\* The safety part of what the router promises: it implements RouterPromise,
\* so a client is told that all candidates failed only after every one it was
\* offered has failed it, nothing but the panic of a server tool that a candidate
\* called ends a request with candidates untried and no answer, and a stream that
\* was accepted is never followed by another candidate's (chat_completions.go:413,
\* 568-597, anthropic_messages.go:210-238, middleware.go:46-62).
THEOREM PromiseIsKept == Spec => Promise!Init /\ [][Promise!Next]_(Promise!vars)
  <1>1. Init => Promise!Init
    <2> SUFFICES ASSUME Init PROVE Promise!Init
      OBVIOUS
    <2>1. \A r \in Request : Status(r) = "none"
      BY StatusCases DEF Init
    <2> QED
      BY <2>1 DEF Promise!Init, Init, Selector!Init
  <1>2. IInv /\ [Next]_vars => [Promise!Next]_(Promise!vars)
    <2> SUFFICES ASSUME IInv, [Next]_vars
                 PROVE  Promise!Next \/ UNCHANGED Promise!vars
      OBVIOUS
    <2>1. ASSUME NEW r \in Request, Arrive(r) PROVE Promise!Next
      BY <2>1, ArriveMapsToPromise DEF Promise!Next
    <2>2. ASSUME NEW r \in Request, CallReturns(r)
          PROVE  Promise!Next \/ UNCHANGED Promise!vars
      BY <2>2, CallMapsToPromise DEF Promise!Next
    <2>3. CASE Tick \/ (\E r \in Request : Cancel(r)) \/ UNCHANGED vars
      <3>1. UNCHANGED <<left, pc, answer, kind>>
        BY <2>3 DEF Tick, Selector!Tick, Cancel, vars, selectorVars, loopVars
      <3>2. [q \in Request |-> Status(q)]' = [q \in Request |-> Status(q)]
        BY <3>1, Zenon DEF Status
      <3> QED
        BY <3>1, <3>2 DEF Promise!vars
    <2> QED
      BY <2>1, <2>2, <2>3 DEF Next
  <1> QED
    BY <1>1, <1>2, Invariance, PTL DEF Spec
=============================================================================
