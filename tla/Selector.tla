------------------------------ MODULE Selector ------------------------------
(***************************************************************************)
(* internal/routing: the selector of one virtual model, and the protocol   *)
(* in which the request handlers call it.                                  *)
(*                                                                         *)
(* A request calls Begin once and receives a snapshot: the candidates not  *)
(* in a cooldown, in ring order from the cursor.  It then works through    *)
(* that snapshot without ever reading the selector again, telling it only  *)
(* RecordFailure and RecordSuccess, so the calls of concurrent requests    *)
(* interleave and a snapshot may be older than a cooldown.  Each method    *)
(* holds mu from its first line to its last: each is one action.           *)
(*                                                                         *)
(* Two abstractions.  The clock: cooldowns[c] is the time left until the   *)
(* recorded deadline, floored at 0 (no entry, or nowT not Before it), and  *)
(* Tick lets time pass; the code reads the clock for nothing else.  The    *)
(* snapshot: the slice `out' is the pair of the ring position it starts    *)
(* from and the indices it holds, `left' being those not yet dealt with.   *)
(* Candidates may be listed twice in a model's configuration, so slices    *)
(* hold indices while cooldowns are kept by candidate, as in the code.     *)
(***************************************************************************)
EXTENDS Integers, FiniteSets

CONSTANTS Request,      \* the requests that may be in flight
          Candidate,    \* {provider, model} pairs
          N,            \* len(s.candidates)
          CandidateAt,  \* s.candidates, by index
          Strategy,     \* m.Strategy
          Cooldown      \* m.CooldownDuration(), in ticks; <= 0 never benches

Index == 0 .. N - 1

\* NewRegistry refuses an empty candidate list; Validate accepts exactly these
\* strategies.
ASSUME SelectorAssumption ==
    /\ N \in Nat \ {0}
    /\ CandidateAt \in [Index -> Candidate]
    /\ Strategy \in {"failover", "round_robin"}
    /\ Cooldown \in Nat

VARIABLES
    cursor,     \* s.cursor
    cooldowns,  \* s.cooldowns, as time left
    start,      \* per request: the ring position its snapshot starts from
    offered,    \* per request: the indices in its snapshot
    left        \* per request: those it has not yet finished with

vars == <<cursor, cooldowns, start, offered, left>>

TypeOK ==
    /\ cursor \in Index
    /\ cooldowns \in [Candidate -> 0 .. Cooldown]
    /\ start \in [Request -> Index]
    /\ offered \in [Request -> SUBSET Index]
    /\ left \in [Request -> SUBSET Index]
    /\ \A r \in Request : left[r] \subseteq offered[r]

-----------------------------------------------------------------------------
Benched(c) == cooldowns[c] > 0

\* Steps from ring position s forward to index i = (s + Distance(s, i)) % N.
Distance(s, i) == IF i >= s THEN i - s ELSE N + i - s

\* i is the first index of S reached walking the ring from s.
IsFirst(i, S, s) == i \in S /\ \A j \in S : Distance(s, i) <= Distance(s, j)

\* s.indexOf(c): the least index that holds c.
IsIndexOf(i, c) ==
    /\ i \in Index
    /\ CandidateAt[i] = c
    /\ \A j \in Index : CandidateAt[j] = c => i <= j

\* The candidate request r is dealing with: the first left in its snapshot.
IsCurrent(i, r) == IsFirst(i, left[r], start[r])

\* Fault: the strategy is not looked at.
AdvanceAnyStrategy(i) == cursor' = (i + 1) % N

\* Round robin only: move the cursor past index i, modulo the ring.
AdvancePast(i) ==
    cursor' = IF Strategy = "round_robin" THEN (i + 1) % N ELSE cursor

-----------------------------------------------------------------------------
Init ==
    /\ cursor = 0
    /\ cooldowns = [c \in Candidate |-> 0]
    /\ start = [r \in Request |-> 0]
    /\ offered = [r \in Request |-> {}]
    /\ left = [r \in Request |-> {}]

\* Fault: cooldowns are not looked at.
BeginIgnoringCooldowns(r) ==
    /\ left[r] = {}
    /\ start' = [start EXCEPT ![r] = cursor]
    /\ offered' = [offered EXCEPT ![r] = Index]
    /\ left' = [left EXCEPT ![r] = Index]
    /\ AdvancePast(cursor)
    /\ UNCHANGED cooldowns

\* Begin(): the snapshot, and for round robin the cursor past its first element.
Begin(r) ==
    LET out == {i \in Index : ~Benched(CandidateAt[i])}
    IN  /\ left[r] = {}
        /\ start' = [start EXCEPT ![r] = IF out = {} THEN 0 ELSE cursor]
        /\ offered' = [offered EXCEPT ![r] = out]
        /\ left' = [left EXCEPT ![r] = out]
        /\ \/ out = {} /\ cursor' = cursor
           \/ \E first \in out : IsFirst(first, out, cursor) /\ AdvancePast(first)
        /\ UNCHANGED cooldowns

\* What is left of r's snapshot after candidate i: the rest of it when the
\* request goes on to the next candidate, nothing when it is served.  The
\* snapshot is a local of the handler and goes with it.
Keep(r, rest) ==
    /\ left' = [left EXCEPT ![r] = rest]
    /\ offered' = [offered EXCEPT ![r] = IF rest = {} THEN {} ELSE @]
    /\ start' = [start EXCEPT ![r] = IF rest = {} THEN 0 ELSE @]

Drop(r, i) == Keep(r, left[r] \ {i})
Finish(r) == Keep(r, {})

\* Fault: failures add up their windows.
BenchLonger(c) ==
    /\ cooldowns' = [cooldowns EXCEPT ![c] = @ + Cooldown]
    /\ \E k \in Index : IsIndexOf(k, c) /\ AdvancePast(k)

\* RecordFailure(c)
Bench(c) ==
    /\ cooldowns' = [cooldowns EXCEPT ![c] = Cooldown]
    /\ \E k \in Index : IsIndexOf(k, c) /\ AdvancePast(k)

\* Fault: the request goes on with the same candidate.
RecordFailureAndStay(r) ==
    \E i \in left[r] :
        /\ IsCurrent(i, r)
        /\ Bench(CandidateAt[i])
        /\ UNCHANGED <<start, offered, left>>

\* r's candidate failed in a way that benches it; r moves on.
RecordFailure(r) ==
    \E i \in left[r] :
        /\ IsCurrent(i, r)
        /\ Bench(CandidateAt[i])
        /\ Drop(r, i)

\* r's candidate failed after its content had been delivered: it is benched,
\* and r is finished.
RecordFinalFailure(r) ==
    \E i \in left[r] :
        /\ IsCurrent(i, r)
        /\ Bench(CandidateAt[i])
        /\ Finish(r)

\* RecordSuccess(c): r is served.
RecordSuccess(r) ==
    \E i \in left[r] :
        /\ IsCurrent(i, r)
        /\ \E k \in Index : IsIndexOf(k, CandidateAt[i]) /\ AdvancePast(k)
        /\ Finish(r)
        /\ UNCHANGED cooldowns

\* r leaves its candidate without telling the selector anything, for the next
\* candidate (Skip) or because r is over (Abandon).
Skip(r) ==
    /\ \E i \in left[r] : IsCurrent(i, r) /\ Drop(r, i)
    /\ UNCHANGED <<cursor, cooldowns>>

Abandon(r) ==
    /\ left[r] # {}
    /\ Finish(r)
    /\ UNCHANGED <<cursor, cooldowns>>

\* Time passes by one unit.
Tick ==
    /\ \E c \in Candidate : Benched(c)
    /\ cooldowns' = [c \in Candidate |->
                        IF Benched(c) THEN cooldowns[c] - 1 ELSE 0]
    /\ UNCHANGED <<cursor, start, offered, left>>

Use(r) ==
    \/ Begin(r)
    \/ RecordFailure(r)
    \/ RecordFinalFailure(r)
    \/ RecordSuccess(r)
    \/ Skip(r)
    \/ Abandon(r)

Next == Tick \/ \E r \in Request : Use(r)

\* Time passes; nothing else is promised, requests may stop at any point.
Spec == Init /\ [][Next]_vars /\ WF_vars(Tick)

-----------------------------------------------------------------------------
\* The requests that hold a place for candidate c in the unfinished part of
\* their snapshot: each may still send a call to c, and bench it again.
Holders(c) == {r \in Request : \E i \in left[r] : CandidateAt[i] = c}

\* A benched candidate gains no holder: while its cooldown lasts the only
\* calls it can still receive are those of requests whose snapshot is older
\* than the cooldown (routing.go:36-39, "Candidates currently in a failure
\* cooldown are skipped").
BenchedGainsNoHolder ==
    [][\A c \in Candidate : Benched(c) => Holders(c)' \subseteq Holders(c)]_vars

\* With the failover strategy every request in flight works through the model's
\* configuration from its beginning, whatever other requests recorded in the
\* meantime (routing.go:37, "failover: all candidates in config order"):
\* nothing it still has to try precedes something it has already left.
FailoverKeepsConfigOrder ==
    Strategy = "failover" =>
        \A r \in Request : \A i \in left[r], j \in offered[r] \ left[r] : j < i

\* A benched candidate always comes back, although requests with old snapshots
\* may bench it again while it waits (routing.go:97: the deadline is finite and
\* only a call that was sent to the candidate renews it).
BenchedComesBack == \A c \in Candidate : []<>~Benched(c)
=============================================================================
