-------------------------- MODULE LifecycleProofs --------------------------
(* Proofs about the wiring of tools and the calls of remote ones, for any     *)
(* servers, tools, requests and answers.                                      *)
EXTENDS Lifecycle, SequenceFacts

USE LifecycleAssumption DEF Server

-----------------------------------------------------------------------------
\* Only servers whose turn is over have listed tools.
NothingAhead == \A s \in Server : advertised[s] # {} => s < next

\* No tool is called before the router listens.
NoCallsYet == phase = "wiring" => \A r \in Request : active[r] = NoTool

\* How many ids the client being connected has given.
Handshake ==
    phase = "wiring" =>
        \A s \in Server :
            /\ s > next => nextID[s] = 0
            /\ s = next => nextID[s] = IF step \in {"notify", "list"} THEN 1 ELSE 0

\* The server of the tool r is calling.
Callee(r) == registry[active[r]]

\* Calls of one server that are in flight carry ids its client has given, no two
\* the same.
IdsAreTaken == \A r \in Request : Awaiting(r) => exchange[r].id \in 1 .. nextID[Callee(r)]
IdsAreDistinct ==
    \A q, r \in Request :
        q # r /\ Awaiting(q) /\ Awaiting(r) /\ Callee(q) = Callee(r)
            => exchange[q].id # exchange[r].id

\* A client has the session its server issued.
SessionsKnown == \A s \in Server : session[s] = issued[s]

Calls == NoCallsYet /\ IdsAreTaken /\ IdsAreDistinct /\ SessionsKnown
            /\ SessionIsKept /\ AnswersReachTheirCaller
Wiring == NothingAhead /\ FirstAdvertiserOwns /\ RemoteToolsHaveClients

IInv == TypeOK /\ Wiring /\ Handshake /\ Calls

\* The steps that leave the wiring alone: everything once the router listens,
\* and the end of the process.
Wired == UNCHANGED <<next, registry, advertised, clients>>

LEMMA WiredKeeps ==
    ASSUME Wiring, Wired
    PROVE  Wiring'
  BY DEF Wiring, NothingAhead, FirstAdvertiserOwns, OwnedByOrder, Advertisers,
         RemoteToolsHaveClients, Wired

-----------------------------------------------------------------------------
\* parseSSEResponse returns an error or a frame with the request's id.
LEMMA StreamedAnswer ==
    ASSUME NEW messages, NEW body \in Bodies(messages), NEW id, NEW c,
           body.sse, ~ body.accepted, NEW m, m = Answer(body, id, c)
    PROVE  m.kind = "failed" \/ (m \in messages /\ m.id = id)
  <1> DEFINE frames == body.frames
             hits == Matching(frames, id)
  <1>1. PICK n \in 0 .. MaxMessages : frames \in [1 .. n -> messages]
    BY DEF Bodies
  <1>2. hits \subseteq Nat /\ hits \subseteq DOMAIN frames
    BY <1>1 DEF Matching
  <1>3. m = ParseSSE(frames, id, c)
    BY DEF Answer
  <1>4. CASE hits = {}
    BY <1>3, <1>4 DEF ParseSSE, Refused
  <1>5. CASE hits # {}
    <2>1. \E k \in hits : \A l \in hits : k <= l
      BY <1>2, <1>5, SmallestOf
    <2> DEFINE k == CHOOSE k \in hits : \A l \in hits : k <= l
    <2>2. k \in hits
      BY <2>1
    <2>3. m = frames[k]
      BY <1>3, <1>5 DEF ParseSSE
    <2> HIDE DEF k
    <2>4. m \in messages /\ m.id = id
      BY <1>1, <2>2, <2>3 DEF Matching
    <2> QED
      BY <2>4
  <1> QED
    BY <1>4, <1>5

-----------------------------------------------------------------------------
LEMMA FirstStepType == \A s : FirstStep(s) \in Steps /\ FirstStep(s) \notin {"notify", "list"}
  BY DEF FirstStep, Steps

LEMMA InitInv == Init => IInv
  <1> SUFFICES ASSUME Init PROVE IInv
    OBVIOUS
  <1>1. TypeOK
    BY FirstStepType DEF Init, TypeOK, Outcomes, NoExchange
  <1>2. \A t \in Tool : OwnedByOrder(t)
    BY DEF Init, OwnedByOrder, Advertisers
  <1>3. NothingAhead /\ RemoteToolsHaveClients
    BY DEF Init, NothingAhead, RemoteToolsHaveClients
  <1>4. Handshake
    BY FirstStepType DEF Init, Handshake
  <1>5. Calls
    BY DEF Init, Calls, NoCallsYet, IdsAreTaken, IdsAreDistinct, SessionsKnown,
           SessionIsKept, AnswersReachTheirCaller, Awaiting
  <1> QED
    BY <1>1, <1>2, <1>3, <1>4, <1>5 DEF IInv, Wiring, FirstAdvertiserOwns

\* A client has the session its server issued before and after any answer.
LEMMA RememberKnows ==
    ASSUME TypeOK, SessionsKnown, NEW s \in Server, NEW given \in BOOLEAN, Remember(s, given)
    PROVE  /\ session' \in [Server -> BOOLEAN] /\ issued' \in [Server -> BOOLEAN]
           /\ SessionsKnown'
           /\ (given => issued[s]) => issued' = issued
  <1>1. \A q \in Server : session'[q] = (IF q = s THEN session[q] \/ given ELSE session[q])
    BY DEF TypeOK, Remember
  <1>2. \A q \in Server : issued'[q] = (IF q = s THEN issued[q] \/ given ELSE issued[q])
    BY DEF TypeOK, Remember
  <1>3. session' \in [Server -> BOOLEAN] /\ issued' \in [Server -> BOOLEAN]
    BY DEF TypeOK, Remember
  <1>4. SessionsKnown'
    BY <1>1, <1>2 DEF SessionsKnown
  <1>5. ASSUME given => issued[s] PROVE issued' = issued
    <2>1. issued[s] \in BOOLEAN /\ ((issued[s] \/ given) <=> issued[s])
      BY <1>5 DEF TypeOK
    <2>2. (issued[s] \/ given) = issued[s]
      BY <2>1
    <2>3. \A q \in Server : issued'[q] = issued[q]
      BY <1>2, <2>2
    <2> QED
      BY <1>3, <2>3 DEF TypeOK
  <1> QED
    BY <1>3, <1>4, <1>5

LEMMA TakeIDType ==
    ASSUME TypeOK, NEW s \in Server, nextID[s] < MaxID, TakeID(s)
    PROVE  /\ nextID' \in [Server -> 0 .. MaxID]
           /\ nextID'[s] = nextID[s] + 1
           /\ \A q \in Server : q # s => nextID'[q] = nextID[q]
  BY DEF TypeOK, TakeID

-----------------------------------------------------------------------------
\* A step of wiring: what it does to the clients, and to no call.
WireClients ==
    /\ nextID' \in [Server -> 0 .. MaxID]
    /\ session' \in [Server -> BOOLEAN] /\ issued' \in [Server -> BOOLEAN]
    /\ SessionsKnown'
    /\ Handshake'
    /\ UNCHANGED <<phase, exit, requestVars>>

LEMMA EndpointClients == IInv /\ EndpointFound => WireClients
  <1> SUFFICES ASSUME IInv, EndpointFound PROVE WireClients
    OBVIOUS
  <1>1. next \in Server /\ TypeOK /\ SessionsKnown /\ Handshake
    BY DEF EndpointFound, Connecting, IInv, Calls
  <1>2. PICK given \in BOOLEAN : Remember(next, given)
    BY DEF EndpointFound
  <1>3. Handshake'
    BY <1>1 DEF EndpointFound, Connecting, GoTo, Handshake
  <1> QED
    BY <1>1, <1>2, <1>3, RememberKnows DEF EndpointFound, WireClients, TypeOK

LEMMA InitializedClients == IInv /\ Initialized => WireClients
  <1> SUFFICES ASSUME IInv, Initialized PROVE WireClients
    OBVIOUS
  <1>1. next \in Server /\ TypeOK /\ SessionsKnown /\ Handshake /\ phase = "wiring"
    BY DEF Initialized, Connecting, IInv, Calls
  <1>2. PICK given \in BOOLEAN : Remember(next, given)
    BY DEF Initialized
  <1>3. nextID[next] = 0
    BY <1>1 DEF Initialized, Connecting, Handshake
  <1>4. /\ nextID' \in [Server -> 0 .. MaxID]
        /\ nextID'[next] = 1
        /\ \A q \in Server : q # next => nextID'[q] = nextID[q]
    BY <1>1, <1>3, TakeIDType DEF Initialized
  <1>5. Handshake'
    BY <1>1, <1>4 DEF Initialized, GoTo, Handshake, TypeOK
  <1> QED
    BY <1>1, <1>2, <1>4, <1>5, RememberKnows DEF Initialized, WireClients, requestVars

LEMMA NotifiedClients == IInv /\ Notified => WireClients
  <1> SUFFICES ASSUME IInv, Notified PROVE WireClients
    OBVIOUS
  <1>1. next \in Server /\ TypeOK /\ SessionsKnown /\ Handshake
    BY DEF Notified, Connecting, IInv, Calls
  <1>2. PICK given \in BOOLEAN : Remember(next, given /\ issued[next])
    BY DEF Notified
  <1>3. (given /\ issued[next]) \in BOOLEAN
    BY <1>2
  <1>4. Handshake'
    BY <1>1 DEF Notified, Connecting, GoTo, Handshake
  <1> QED
    BY <1>1, <1>2, <1>3, <1>4, RememberKnows DEF Notified, WireClients, TypeOK

LEMMA SkipClients == IInv /\ SkipServer => WireClients
  <1> SUFFICES ASSUME IInv, SkipServer PROVE WireClients
    OBVIOUS
  <1>1. next \in Server /\ TypeOK /\ SessionsKnown /\ Handshake /\ phase = "wiring"
    BY DEF SkipServer, Connecting, IInv, Calls
  <1>2. Handshake'
    BY <1>1, FirstStepType DEF SkipServer, NextServer, GoTo, Handshake, clientVars, TypeOK
  <1> QED
    BY <1>1, <1>2 DEF SkipServer, WireClients, clientVars, TypeOK, SessionsKnown

LEMMA RegisterClients ==
    ASSUME IInv, NEW tools \in SUBSET Tool, Register(tools)
    PROVE  WireClients
  <1>1. next \in Server /\ TypeOK /\ SessionsKnown /\ Handshake /\ phase = "wiring"
    BY DEF Register, Connecting, IInv, Calls
  <1>2. PICK given \in BOOLEAN : Remember(next, given /\ issued[next])
    BY DEF Register
  <1>3. (given /\ issued[next]) \in BOOLEAN
    BY <1>2
  <1>4. nextID[next] = 1
    BY <1>1 DEF Register, Connecting, Handshake
  <1>5. /\ nextID' \in [Server -> 0 .. MaxID]
        /\ \A q \in Server : q # next => nextID'[q] = nextID[q]
    BY <1>1, <1>4, TakeIDType DEF Register
  <1>6. Handshake'
    BY <1>1, <1>5, FirstStepType DEF Register, NextServer, GoTo, Handshake, TypeOK
  <1> QED
    BY <1>1, <1>2, <1>3, <1>5, <1>6, RememberKnows DEF Register, WireClients

-----------------------------------------------------------------------------
\* When nobody calls, nothing about calls can be wrong but what was answered.
LEMMA IdleCalls ==
    ASSUME \A r \in Request : active'[r] = NoTool
    PROVE  (NoCallsYet /\ IdsAreTaken /\ IdsAreDistinct /\ SessionIsKept)'
  BY DEF NoCallsYet, IdsAreTaken, IdsAreDistinct, SessionIsKept, Awaiting

LEMMA WireClientsKeep ==
    ASSUME IInv, phase = "wiring", WireClients
    PROVE  Handshake' /\ Calls'
  <1>1. \A r \in Request : active'[r] = NoTool
    BY DEF IInv, Calls, NoCallsYet, WireClients, requestVars
  <1>2. (NoCallsYet /\ IdsAreTaken /\ IdsAreDistinct /\ SessionIsKept)'
    BY <1>1, IdleCalls
  <1>3. AnswersReachTheirCaller'
    BY DEF IInv, Calls, AnswersReachTheirCaller, WireClients, requestVars
  <1> QED
    BY <1>2, <1>3 DEF WireClients, Calls

LEMMA ExitKeeps ==
    ASSUME IInv, NEW why \in {"ok", "error", "panic"}, Exit(why), UNCHANGED <<wiringVars, clientVars>>
    PROVE  TypeOK' /\ Handshake' /\ Calls'
  <1>1. TypeOK'
    BY DEF IInv, TypeOK, Exit, wiringVars, clientVars, Outcomes, NoExchange
  <1>2. Handshake'
    BY DEF Exit, Handshake
  <1>3. \A r \in Request : active'[r] = NoTool
    BY DEF Exit
  <1>4. (NoCallsYet /\ IdsAreTaken /\ IdsAreDistinct /\ SessionIsKept)'
    BY <1>3, IdleCalls
  <1>5. AnswersReachTheirCaller'
    BY DEF IInv, Calls, AnswersReachTheirCaller, Exit
  <1>6. SessionsKnown'
    BY DEF IInv, Calls, SessionsKnown, clientVars
  <1> QED
    BY <1>1, <1>2, <1>4, <1>5, <1>6 DEF Calls

-----------------------------------------------------------------------------
\* RegisterRemote keeps every name with its first advertiser: a name without an
\* owner has been listed by nobody before, and a name with one keeps it, who
\* came before the server being registered (registry.go:66-80).
LEMMA RegisterOwns ==
    ASSUME IInv, NEW tools \in SUBSET Tool, Register(tools)
    PROVE  Wiring'
  <1> USE DEF IInv, TypeOK, Wiring
  <1>1. /\ next \in Server
        /\ next' = next + 1
        /\ clients' = clients \cup {next}
        /\ advertised' = [advertised EXCEPT ![next] = tools]
        /\ registry' = [t \in Tool |->
                IF t \in tools /\ registry[t] = Absent THEN next ELSE registry[t]]
    BY DEF Register, Connecting, NextServer, GoTo
  <1>2. NothingAhead'
    BY <1>1 DEF NothingAhead
  <1>3. RemoteToolsHaveClients'
    BY <1>1 DEF RemoteToolsHaveClients
  <1>4. ASSUME NEW t \in Tool PROVE OwnedByOrder(t)'
    <2>1. OwnedByOrder(t)
      BY DEF FirstAdvertiserOwns
    <2>2. \A s \in Advertisers(t) : s \in Server /\ s < next
      BY DEF Advertisers, NothingAhead
    <2>3. Advertisers(t)' = Advertisers(t) \cup (IF t \in tools THEN {next} ELSE {})
      BY <1>1, <2>2 DEF Advertisers
    <2>4. CASE t \in LocalTool
      BY <1>1, <2>1, <2>4 DEF OwnedByOrder
    <2>5. CASE t \notin LocalTool /\ Advertisers(t) = {}
      BY <1>1, <2>1, <2>3, <2>5 DEF OwnedByOrder
    <2>6. CASE t \notin LocalTool /\ Advertisers(t) # {}
      <3>1. registry[t] \in Server /\ registry'[t] = registry[t]
        BY <1>1, <2>1, <2>2, <2>6 DEF OwnedByOrder
      <3> QED
        BY <1>1, <2>1, <2>2, <2>3, <2>6, <3>1 DEF OwnedByOrder
    <2> QED
      BY <2>4, <2>5, <2>6
  <1> QED
    BY <1>2, <1>3, <1>4 DEF FirstAdvertiserOwns

-----------------------------------------------------------------------------
\* A call that waits for no server.
LEMMA StartKeeps ==
    ASSUME IInv, NEW r \in Request, NEW t \in Tool, CallUnknown(r, t) \/ CallLocal(r, t)
    PROVE  TypeOK' /\ Handshake' /\ Calls'
  <1>1. /\ UNCHANGED <<phase, next, step, registry, nextID, session, issued, exchange>>
        /\ phase # "wiring"
        /\ outcome'[r] # "foreign"
        /\ \A q \in Request : q # r => active'[q] = active[q] /\ outcome'[q] = outcome[q]
    BY DEF CallUnknown, CallLocal, Start, Listening, wiringVars, clientVars, IInv, TypeOK
  <1>2. TypeOK'
    BY DEF IInv, TypeOK, CallUnknown, CallLocal, Start, wiringVars, clientVars, Outcomes
  <1>3. \A q \in Request : Awaiting(q)' => Awaiting(q) /\ active'[q] = active[q]
    <2>1. CASE CallUnknown(r, t)
      BY <2>1 DEF CallUnknown, wiringVars, Awaiting
    <2>2. CASE CallLocal(r, t)
      <3>1. active'[r] = t /\ registry'[t] = Local
        BY <2>2 DEF CallLocal, Start, wiringVars, IInv, TypeOK
      <3> QED
        BY <1>1, <3>1 DEF Awaiting
    <2> QED
      BY <2>1, <2>2
  <1>4. Handshake'
    BY <1>1 DEF Handshake
  <1>5. (IdsAreTaken /\ IdsAreDistinct /\ SessionIsKept)'
    BY <1>1, <1>3 DEF IInv, Calls, IdsAreTaken, IdsAreDistinct, SessionIsKept, Callee
  <1>6. AnswersReachTheirCaller'
    BY <1>1 DEF IInv, Calls, AnswersReachTheirCaller
  <1> QED
    BY <1>1, <1>2, <1>4, <1>5, <1>6 DEF IInv, Calls, NoCallsYet, SessionsKnown

\* The id a call takes is above those in flight, and the session it carries is
\* the one its server issued.
LEMMA CallRemoteKeeps ==
    ASSUME IInv, NEW r \in Request, NEW t \in Tool, CallRemote(r, t)
    PROVE  TypeOK' /\ Handshake' /\ Calls'
  <1> DEFINE s == registry[t]
  <1>1. /\ s \in Server /\ nextID[s] < MaxID /\ TakeID(s)
        /\ UNCHANGED <<phase, exit, next, step, registry, advertised, clients, session, issued>>
        /\ phase # "wiring"
        /\ exchange' = [exchange EXCEPT ![r] = [id |-> nextID'[s], session |-> session[s]]]
        /\ active' = [active EXCEPT ![r] = t]
        /\ outcome' = [outcome EXCEPT ![r] = "none"]
    BY DEF CallRemote, Start, Listening, wiringVars
  <1>2. TypeOK /\ Calls
    BY DEF IInv
  <1>3. /\ nextID' \in [Server -> 0 .. MaxID]
        /\ nextID'[s] = nextID[s] + 1
        /\ \A p \in Server : nextID'[p] = (IF p = s THEN nextID[p] + 1 ELSE nextID[p])
    BY <1>1, <1>2, TakeIDType
  <1>4. TypeOK'
    <2>1. [id |-> nextID'[s], session |-> session[s]] \in [id : 0 .. MaxID, session : BOOLEAN]
      BY <1>1, <1>2, <1>3 DEF TypeOK
    <2>2. exchange' \in [Request -> [id : 0 .. MaxID, session : BOOLEAN]]
      BY <1>1, <1>2, <2>1 DEF TypeOK
    <2>3. active' \in [Request -> Tool \cup {NoTool}] /\ outcome' \in [Request -> Outcomes]
      BY <1>1, <1>2 DEF TypeOK, Outcomes
    <2> HIDE DEF s
    <2> QED
      BY <1>1, <1>2, <1>3, <2>2, <2>3 DEF TypeOK
  <1>5. Handshake' /\ NoCallsYet' /\ SessionsKnown'
    BY <1>1, <1>2 DEF Handshake, NoCallsYet, Calls, SessionsKnown
  <1>6. /\ Callee(r)' = s
        /\ exchange'[r].id = nextID[s] + 1
        /\ exchange'[r].session = session[s]
        /\ \A q \in Request \ {r} :
               exchange'[q] = exchange[q] /\ Callee(q)' = Callee(q) /\ Awaiting(q)' = Awaiting(q)
    BY <1>1, <1>2, <1>3 DEF TypeOK, Callee, Awaiting
  <1>7. \A q \in Request : Awaiting(q) => Callee(q) \in Server
    BY DEF Awaiting, Callee
  <1>8. ASSUME NEW q \in Request, Awaiting(q)' PROVE exchange'[q].id \in 1 .. nextID'[Callee(q)']
    <2>1. CASE q = r
      BY <1>1, <1>2, <1>3, <1>6, <2>1 DEF TypeOK
    <2>2. CASE q # r
      <3>1. /\ exchange[q].id \in 1 .. nextID[Callee(q)]
            /\ exchange'[q] = exchange[q] /\ Callee(q)' = Callee(q) /\ Callee(q) \in Server
        BY <1>2, <1>6, <1>7, <1>8, <2>2 DEF Calls, IdsAreTaken
      <3>2. \A p \in Server : nextID[p] \in Nat /\ nextID'[p] \in Nat /\ nextID[p] <= nextID'[p]
        <4>1. nextID \in [Server -> 0 .. MaxID]
          BY <1>2 DEF TypeOK
        <4>2. ASSUME NEW p \in Server PROVE nextID[p] \in Nat /\ nextID'[p] \in {nextID[p], nextID[p] + 1}
          BY <1>3, <4>1
        <4> QED
          BY <4>2
      <3>3. exchange[q].id \in 1 .. nextID'[Callee(q)]
        BY <3>1, <3>2
      <3> QED
        BY <3>1, <3>3
    <2> QED
      BY <2>1, <2>2
  <1>9. IdsAreTaken'
    BY <1>8 DEF IdsAreTaken
  <1>10. ASSUME NEW q \in Request \ {r}, Awaiting(q), Callee(q) = s
         PROVE  exchange[q].id # nextID[s] + 1
    <2>1. exchange[q].id \in 1 .. nextID[s] /\ nextID[s] \in Nat
      BY <1>1, <1>2, <1>10 DEF Calls, IdsAreTaken, TypeOK
    <2> QED
      BY <2>1
  <1>11. IdsAreDistinct'
    BY <1>2, <1>6, <1>10 DEF Calls, IdsAreDistinct
  <1>12. SessionIsKept'
    BY <1>1, <1>2, <1>6 DEF Calls, SessionIsKept, SessionsKnown, Callee, Awaiting
  <1>13. AnswersReachTheirCaller'
    BY <1>1, <1>2 DEF Calls, AnswersReachTheirCaller, TypeOK
  <1> QED
    BY <1>4, <1>5, <1>9, <1>11, <1>12, <1>13 DEF Calls

-----------------------------------------------------------------------------
\* Whatever the messages in a stream of frames, the one taken for r's answer is
\* not the result of another call: it has r's id, and theirs are different.
LEMMA NothingForeign ==
    ASSUME IInv, NEW r \in Request, Awaiting(r),
           NEW body \in Bodies(Own(exchange[r].id, r) \cup Strays(r))
    PROVE  Delivered(Answer(body, exchange[r].id, r), r, body.sse) \in Outcomes \ {"foreign", "dropped"}
  <1> DEFINE id == exchange[r].id
             m == Answer(body, id, r)
             messages == Own(id, r) \cup Strays(r)
  <1>1. CASE body.accepted
    BY <1>1 DEF Answer, Nothing, Delivered, Outcome, Outcomes
  <1>2. CASE ~ body.accepted /\ ~ body.sse
    BY <1>2 DEF Delivered, Outcomes
  <1>3. CASE ~ body.accepted /\ body.sse
    <2>1. m.kind = "failed" \/ (m \in messages /\ m.id = id)
      BY <1>3, StreamedAnswer
    <2>2. CASE m.kind = "failed"
      BY <2>2 DEF Delivered, Outcome, Outcomes
    <2>3. CASE m \in Own(id, r)
      BY <2>3 DEF Own, Delivered, Outcomes
    <2>4. CASE m \in Strays(r) /\ m.id = id
      <3> HIDE DEF m
      <3>1. PICK q \in Request \ {r} :
               /\ Awaiting(q) /\ registry[active[q]] = registry[active[r]]
               /\ m = [kind |-> "result", id |-> exchange[q].id, of |-> q]
        BY <2>4 DEF Strays
      <3> QED
        BY <2>4, <3>1 DEF IInv, Calls, IdsAreDistinct, Callee
    <2> QED
      BY <2>1, <2>2, <2>3, <2>4
  <1> QED
    BY <1>1, <1>2, <1>3

\* The end of a call: with something that is its own.
LEMMA FinishKeeps ==
    ASSUME IInv, NEW r \in Request, NEW what \in Outcomes \ {"foreign"}, Finish(r, what),
           session' \in [Server -> BOOLEAN], issued' = issued, SessionsKnown'
    PROVE  TypeOK' /\ Handshake' /\ Calls'
  <1>1. TypeOK /\ Calls /\ Handshake
    BY DEF IInv
  <1>2. TypeOK'
    BY <1>1 DEF Finish, TypeOK, wiringVars, NoExchange
  <1>3. /\ UNCHANGED <<phase, next, step, registry, nextID, issued>>
        /\ active'[r] = NoTool
        /\ \A q \in Request \ {r} : active'[q] = active[q] /\ exchange'[q] = exchange[q]
    BY <1>1 DEF Finish, wiringVars, TypeOK
  <1>4. Handshake'
    BY <1>1, <1>3 DEF Handshake
  <1>5. NoCallsYet'
    BY <1>1, <1>3 DEF Calls, NoCallsYet
  <1>6. \A q \in Request : Awaiting(q)' => /\ Awaiting(q) /\ Callee(q)' = Callee(q)
                                           /\ exchange'[q] = exchange[q]
    BY <1>3 DEF Awaiting, Callee
  <1>7. (IdsAreTaken /\ IdsAreDistinct)'
    BY <1>1, <1>3, <1>6 DEF Calls, IdsAreTaken, IdsAreDistinct
  <1>8. SessionIsKept'
    BY <1>1, <1>3, <1>6 DEF Calls, SessionIsKept, Callee
  <1>9. AnswersReachTheirCaller'
    BY <1>1 DEF Calls, AnswersReachTheirCaller, Finish, TypeOK
  <1> QED
    BY <1>2, <1>4, <1>5, <1>7, <1>8, <1>9 DEF Calls

LEMMA ReplyKeeps ==
    ASSUME IInv, NEW r \in Request, Reply(r)
    PROVE  TypeOK' /\ Handshake' /\ Calls'
  <1>1. CASE ReplyLocal(r)
    <2>1. Finish(r, "result")
      BY <1>1 DEF ReplyLocal
    <2>2. session' \in [Server -> BOOLEAN] /\ issued' = issued /\ SessionsKnown'
      BY <1>1 DEF ReplyLocal, IInv, TypeOK, Calls, SessionsKnown
    <2> QED
      BY <2>1, <2>2, FinishKeeps DEF Outcomes
  <1>2. CASE ReplyRemote(r) /\ Finish(r, "upstream") /\ UNCHANGED <<session, issued>>
    <2>1. session' \in [Server -> BOOLEAN] /\ issued' = issued /\ SessionsKnown'
      BY <1>2 DEF IInv, TypeOK, Calls, SessionsKnown
    <2> QED
      BY <1>2, <2>1, FinishKeeps DEF Outcomes
  <1>3. ASSUME Awaiting(r),
               NEW body \in Bodies(Own(exchange[r].id, r) \cup Strays(r)),
               Finish(r, Delivered(Answer(body, exchange[r].id, r), r, body.sse)),
               NEW given \in BOOLEAN,
               Remember(registry[active[r]], given /\ issued[registry[active[r]]])
        PROVE  TypeOK' /\ Handshake' /\ Calls'
    <2>1. registry[active[r]] \in Server /\ (given /\ issued[registry[active[r]]]) \in BOOLEAN
      BY <1>3 DEF Awaiting
    <2>2. session' \in [Server -> BOOLEAN] /\ issued' = issued /\ SessionsKnown'
      BY <1>3, <2>1, RememberKnows DEF IInv, Calls
    <2>3. Delivered(Answer(body, exchange[r].id, r), r, body.sse) \in Outcomes \ {"foreign"}
      BY <1>3, NothingForeign
    <2> QED
      BY <1>3, <2>2, <2>3, FinishKeeps
  <1> QED
    BY <1>1, <1>2, <1>3 DEF Reply, ReplyRemote

-----------------------------------------------------------------------------
LEMMA StepInv == IInv /\ [Next]_vars => IInv'
  <1> SUFFICES ASSUME IInv, [Next]_vars PROVE IInv'
    OBVIOUS
  <1> DEFINE Rest == TypeOK /\ Handshake /\ Calls
  <1>1. ASSUME NEW tools \in SUBSET Tool, Register(tools) PROVE IInv'
    <2>1. WireClients
      BY <1>1, RegisterClients
    <2>2. TypeOK'
      <3>1. /\ next' \in 1 .. Servers + 1 /\ step' \in Steps
            /\ registry' \in [Tool -> Server \cup {Absent, Local}]
            /\ advertised' \in [Server -> SUBSET Tool] /\ clients' \subseteq Server
        BY <1>1, FirstStepType DEF IInv, TypeOK, Register, Connecting, NextServer, GoTo
      <3> QED
        BY <2>1, <3>1 DEF IInv, TypeOK, WireClients, requestVars
    <2>3. phase = "wiring"
      BY <1>1 DEF Register, Connecting
    <2> QED
      BY <1>1, <2>1, <2>2, <2>3, WireClientsKeep, RegisterOwns DEF IInv
  <1>2. ASSUME EndpointFound \/ Initialized \/ Notified \/ SkipServer PROVE IInv'
    <2>1. WireClients
      BY <1>2, EndpointClients, InitializedClients, NotifiedClients, SkipClients
    <2>2. /\ UNCHANGED <<registry, advertised, clients>>
          /\ next \in Server /\ next' \in {next, next + 1}
          /\ phase = "wiring"
      BY <1>2 DEF EndpointFound, Initialized, Notified, SkipServer, Connecting, NextServer, GoTo
    <2>3. step' \in Steps
      BY <1>2, FirstStepType
         DEF EndpointFound, Initialized, Notified, SkipServer, NextServer, GoTo, Steps
    <2>4. TypeOK'
      BY <2>1, <2>2, <2>3 DEF IInv, TypeOK, WireClients, requestVars
    <2>5. NothingAhead'
      BY <2>2 DEF IInv, TypeOK, Wiring, NothingAhead
    <2>6. Wiring'
      BY <2>2, <2>5
         DEF IInv, Wiring, FirstAdvertiserOwns, OwnedByOrder, Advertisers, RemoteToolsHaveClients
    <2> QED
      BY <2>1, <2>2, <2>4, <2>6, WireClientsKeep DEF IInv
  <1>3. (StartupPanic \/ ListenFails \/ Shutdown) => Rest'
    BY ExitKeeps DEF StartupPanic, ListenFails, Shutdown
  <1>4. ASSUME Listen \/ Signal PROVE Rest'
    <2>1. phase' \in {"serving", "stopping"}
          /\ UNCHANGED <<exit, wiringVars, clientVars, requestVars>>
      BY <1>4 DEF Listen, Signal
    <2> QED
      BY <2>1 DEF IInv, TypeOK, Handshake, Calls, NoCallsYet, IdsAreTaken, IdsAreDistinct,
                  SessionsKnown, SessionIsKept, AnswersReachTheirCaller, Awaiting, Callee,
                  wiringVars, clientVars, requestVars
  <1>5. ASSUME NEW r \in Request, NEW t \in Tool, Call(r, t) PROVE Rest'
    BY <1>5, StartKeeps, CallRemoteKeeps DEF Call
  <1>6. ASSUME NEW r \in Request, Reply(r) PROVE Rest'
    BY <1>6, ReplyKeeps
  <1>7. ASSUME UNCHANGED vars PROVE Rest'
    BY <1>7 DEF vars, IInv, TypeOK, Handshake, Calls, NoCallsYet, IdsAreTaken, IdsAreDistinct,
                SessionsKnown, SessionIsKept, AnswersReachTheirCaller, Awaiting, Callee,
                wiringVars, clientVars, requestVars
  <1>8. Wired => Wiring'
    BY WiredKeeps DEF IInv
  <1>9. (\E r \in Request : Reply(r) \/ \E t \in Tool : Call(r, t)) => Wired
    BY DEF Reply, ReplyLocal, ReplyRemote, Finish, Call, CallUnknown, CallLocal, CallRemote,
           Start, Wired, wiringVars
  <1>10. StartupPanic \/ Listen \/ ListenFails \/ Signal \/ Shutdown \/ UNCHANGED vars => Wired
    BY DEF StartupPanic, Listen, ListenFails, Signal, Shutdown, vars, Wired, wiringVars
  <1> QED
    BY <1>1, <1>2, <1>3, <1>4, <1>5, <1>6, <1>7, <1>8, <1>9, <1>10 DEF Next, Wire, IInv

LEMMA Invariance == Spec => []IInv
  BY InitInv, StepInv, PTL DEF Spec

-----------------------------------------------------------------------------
\* The program's state stays well formed whatever the servers answer.
THEOREM TypeCorrect == Spec => []TypeOK
  BY Invariance, PTL DEF IInv

\* Whatever servers fail at whatever step, a name's tool is settled by
\* configuration order (registry.go:66-80): servers are wired in that order, and
\* none has listed anything before its turn.
THEOREM OwnershipByOrder == Spec => []FirstAdvertiserOwns
  BY Invariance, PTL DEF IInv, Wiring

\* No registered tool is left with a client that was not kept (app.go:143-158).
THEOREM NoOrphanTools == Spec => []RemoteToolsHaveClients
  BY Invariance, PTL DEF IInv, Wiring

\* However many requests share a client and whatever an SSE answer contains, no
\* call is answered with another one's result (jsonrpc.go:80-98): the ids of the
\* calls in flight are distinct, since each was taken above all those before.
THEOREM AnswersCorrelate == Spec => []AnswersReachTheirCaller
  BY Invariance, PTL DEF IInv, Calls

\* No call to a server that issued a session goes out without it
\* (sse_common.go:18-20): the transport knows it before the answer is returned.
THEOREM SessionsCarried == Spec => []SessionIsKept
  BY Invariance, PTL DEF IInv, Calls
=============================================================================
