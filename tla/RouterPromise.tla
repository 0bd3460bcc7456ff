---------------------------- MODULE RouterPromise ----------------------------
(***************************************************************************)
(* What the router promises each client, whichever endpoint it calls: the  *)
(* request is tried on the candidates it was offered, and is given up only *)
(* when every one of them has failed it.  Once a candidate's stream has    *)
(* been accepted as the answer no other candidate is tried.  A candidate   *)
(* may first put the router to work, on tools of the server's; only such   *)
(* work can break a request off while candidates are left.  Providers,     *)
(* retries, cooldowns and tool calls do not appear here.                   *)
(***************************************************************************)
CONSTANTS Request, Offer    \* Offer: what can be offered

VARIABLES
    status,  \* per request: how far it is
    open     \* per request: the candidates that have not failed it yet

vars == <<status, open>>

Status == {"none", "trying", "working", "committed", "answered", "failed", "brokenoff"}

TypeOK ==
    /\ status \in [Request -> Status]
    /\ open \in [Request -> SUBSET Offer]

Pending(r) == status[r] \in {"trying", "working", "committed"}

Init ==
    /\ status = [r \in Request |-> "none"]
    /\ open = [r \in Request |-> {}]

\* A request arrives and is offered some candidates, possibly none.
Accept(r) ==
    /\ ~Pending(r)
    /\ \E S \in SUBSET Offer :
        /\ open' = [open EXCEPT ![r] = S]
        /\ status' = [status EXCEPT ![r] = IF S = {} THEN "failed" ELSE "trying"]

\* One of the candidates fails the request, at once or after work was done for it;
\* the last one to do so ends it.
Reject(r) ==
    /\ status[r] \in {"trying", "working"}
    /\ \E i \in open[r] :
        /\ open' = [open EXCEPT ![r] = @ \ {i}]
        /\ status' = [status EXCEPT ![r] =
                        IF open[r] = {i} THEN "failed" ELSE "trying"]

\* A candidate has answered with work for the router.
Work(r) ==
    /\ status[r] = "trying"
    /\ open[r] # {}
    /\ status' = [status EXCEPT ![r] = "working"]
    /\ UNCHANGED open

\* A candidate's stream is accepted, with such work in it; it alone will answer.
Commit(r) ==
    /\ status[r] = "trying"
    /\ open[r] # {}
    /\ open' = [open EXCEPT ![r] = {}]
    /\ status' = [status EXCEPT ![r] = "committed"]

\* The client has its answer, or as much of it as there is.
Answer(r) ==
    /\ \/ status[r] \in {"trying", "working"} /\ open[r] # {}
       \/ status[r] = "committed"
    /\ open' = [open EXCEPT ![r] = {}]
    /\ status' = [status EXCEPT ![r] = "answered"]

\* The work itself goes wrong, and nobody else is asked.
BreakOff(r) ==
    /\ status[r] \in {"working", "committed"}
    /\ open' = [open EXCEPT ![r] = {}]
    /\ status' = [status EXCEPT ![r] = "brokenoff"]

Resolve(r) == Reject(r) \/ Work(r) \/ Commit(r) \/ Answer(r) \/ BreakOff(r)

Next == \E r \in Request : Accept(r) \/ Resolve(r)

Spec == Init /\ [][Next]_vars /\ \A r \in Request : WF_vars(Resolve(r))
=============================================================================
