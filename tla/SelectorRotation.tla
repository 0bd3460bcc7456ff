-------------------------- MODULE SelectorRotation --------------------------
(***************************************************************************)
(* What round robin promises from one call to the next.  The selector's    *)
(* steps are unchanged; justServed remembers, for the property below, the  *)
(* candidates reported successful since the last Begin that offered any.   *)
(***************************************************************************)
EXTENDS Selector

VARIABLE justServed

RotationInit == Init /\ justServed = {}

\* The candidate request r is dealing with, as a set of at most one element.
CurrentCandidate(r) == {CandidateAt[i] : i \in {j \in left[r] : IsCurrent(j, r)}}

RotationNext ==
    \/ Tick /\ UNCHANGED justServed
    \/ \E r \in Request :
        \/ /\ Begin(r)
           /\ justServed' = IF offered'[r] = {} THEN justServed ELSE {}
        \/ /\ RecordSuccess(r)
           /\ justServed' = justServed \cup CurrentCandidate(r)
        \/ /\ RecordFailure(r) \/ RecordFinalFailure(r) \/ Skip(r) \/ Abandon(r)
           /\ UNCHANGED justServed

rotationVars == <<vars, justServed>>

RotationSpec == RotationInit /\ [][RotationNext]_rotationVars

\* The same when a model's requests do not overlap: at most one has a snapshot it
\* is not through with.
OneAtATime == \A r, q \in Request : left[r] # {} /\ left[q] # {} => r = q

SerialSpec == RotationInit /\ [][RotationNext /\ OneAtATime']_rotationVars

\* r's snapshot is about to start with a candidate that has just been served
\* although it also holds one that has not.
RepeatsServed(r) ==
    /\ \E i \in offered'[r] :
        IsFirst(i, offered'[r], start'[r]) /\ CandidateAt[i] \in justServed
    /\ \E i \in offered'[r] : CandidateAt[i] \notin justServed

\* "For round_robin the cursor advances past c so the next call starts
\* differently" (routing.go:45-46): a call does not start with a candidate
\* reported successful since the previous call while another is available.
\* It holds when a model's requests do not overlap and its candidates differ;
\* concurrent requests move the cursor back by reporting late, and a candidate
\* that is listed twice in a row is next after itself.
NextCallStartsDifferently ==
    [][\A r \in Request : Begin(r) => ~RepeatsServed(r)]_rotationVars
=============================================================================
