----------------------------- MODULE Lifecycle -----------------------------
(***************************************************************************)
(* internal/app and cmd/server: wiring the tool registry from the MCP      *)
(* servers, serving, and shutting down; with the parts of internal/mcp and *)
(* internal/tools that these steps go through.                             *)
(*                                                                         *)
(* Servers are connected one after the other before the router listens.    *)
(* What an exchange with one comes to is defined in McpExchange: ok, an    *)
(* error, or a panic when it answers 202 Accepted.  At startup a panic     *)
(* ends the process; in a request the recovery middleware turns it into a  *)
(* 500.  Tool calls of different requests share a server's client: its     *)
(* counter of request ids and its session.                                 *)
(***************************************************************************)
EXTENDS Integers, FiniteSets, Sequences

CONSTANTS Servers,     \* len(cfg.MCP.Servers)
          SSEServer,   \* the indices of those using the legacy SSE transport
          Tool,        \* tool names
          LocalTool,   \* the built-in ones
          Request,     \* clients calling POST /v1/tools/call
          Absent, Local, NoTool,  \* registry and request values
          Main,        \* the goroutine that wires the servers
          MaxID,       \* bound: the last id a client gives a request
          MaxMessages  \* bound: messages in the body of an MCP answer

Server == 1 .. Servers

ASSUME LifecycleAssumption ==
    /\ Servers \in Nat
    /\ SSEServer \subseteq Server
    /\ LocalTool \subseteq Tool
    /\ Absent \notin Server /\ Local \notin Server /\ Absent # Local
    /\ NoTool \notin Tool
    /\ Main \notin Request
    /\ MaxID \in Nat /\ MaxID >= 2
    /\ MaxMessages \in Nat

INSTANCE McpExchange WITH Caller <- Request \cup {Main}

VARIABLES
    phase,       \* wiring, serving, stopping, exited
    exit,        \* why the process ended: none, ok, error or panic
    next,        \* the server being connected
    step,        \* how far its handshake is
    registry,    \* tool name to its owner: r.entry
    advertised,  \* history: what each server listed
    clients,     \* a.mcClients
    nextID,      \* per server: c.nextID of its client
    session,     \* per server: whether t.sessionID is set
    issued,      \* history: whether the server has issued a session
    active,      \* per request: the tool it is calling
    exchange,    \* per request: id and session of the MCP request it waits for
    outcome      \* per request: what its client got last

wiringVars == <<next, step, registry, advertised, clients>>
clientVars == <<nextID, session, issued>>
requestVars == <<active, exchange, outcome>>
vars == <<phase, exit, wiringVars, clientVars, requestVars>>

Steps == {"endpoint", "initialize", "notify", "list"}
Outcomes == {"none", "result", "notfound", "upstream", "recovered", "dropped",
             "foreign", "uncorrelated"}
NoExchange == [id |-> 0, session |-> FALSE]

TypeOK ==
    /\ phase \in {"wiring", "serving", "stopping", "exited"}
    /\ exit \in {"none", "ok", "error", "panic"}
    /\ next \in 1 .. Servers + 1
    /\ step \in Steps
    /\ registry \in [Tool -> Server \cup {Absent, Local}]
    /\ advertised \in [Server -> SUBSET Tool]
    /\ clients \subseteq Server
    /\ nextID \in [Server -> 0 .. MaxID]
    /\ session \in [Server -> BOOLEAN]
    /\ issued \in [Server -> BOOLEAN]
    /\ active \in [Request -> Tool \cup {NoTool}]
    /\ exchange \in [Request -> [id : 0 .. MaxID, session : BOOLEAN]]
    /\ outcome \in [Request -> Outcomes]

-----------------------------------------------------------------------------
\* New creates a client, which does not connect yet: SSE starts with discovery.
FirstStep(s) == IF s \in SSEServer THEN "endpoint" ELSE "initialize"

\* RegisterBuiltin comes before any server.
Init ==
    /\ phase = "wiring"
    /\ exit = "none"
    /\ next = 1
    /\ step = FirstStep(1)
    /\ registry = [t \in Tool |-> IF t \in LocalTool THEN Local ELSE Absent]
    /\ advertised = [s \in Server |-> {}]
    /\ clients = {}
    /\ nextID = [s \in Server |-> 0]
    /\ session = [s \in Server |-> FALSE]
    /\ issued = [s \in Server |-> FALSE]
    /\ exchange = [r \in Request |-> NoExchange]
    /\ active = [r \in Request |-> NoTool]
    /\ outcome = [r \in Request |-> "none"]

Connecting(what) == phase = "wiring" /\ next \in Server /\ step = what

GoTo(s, what) == next' = s /\ step' = what
NextServer == GoTo(next + 1, FirstStep(next + 1))

\* c.nextID.Add(1), which is atomic: nextID'[s] is the id taken.
TakeID(s) == nextID' = [nextID EXCEPT ![s] = @ + 1]

\* Fault: an answer without the header clears the session.
RememberAnyHeader(s, given) ==
    /\ session' = [session EXCEPT ![s] = given]
    /\ issued' = [issued EXCEPT ![s] = @ \/ given]

\* An answer with a session header, or without: the transport remembers it.
Remember(s, given) ==
    /\ session' = [session EXCEPT ![s] = @ \/ given]
    /\ issued' = [issued EXCEPT ![s] = @ \/ given]

\* What an answer to the request with this id of c may hold: its result or
\* error, junk, and requests of the server's own, with any id or none.
Own(id, c) ==
    [kind : {"result", "error"}, id : {id}, of : {c}]
        \cup [kind : {"request"}, id : {0, id}, of : {c}]
        \cup [kind : {"junk"}, id : {0}, of : {c}]

\* The server being connected can answer so that it comes to `what'.
Answers(what) ==
    LET id == nextID[next] + 1
    IN  \E body \in Bodies(Own(id, Main)) : Outcome[Answer(body, id, Main).kind] = what

\* SSETransport.Connect found the endpoint to post to.
EndpointFound ==
    /\ Connecting("endpoint")
    /\ \E given \in BOOLEAN : Remember(next, given)
    /\ GoTo(next, "initialize")
    /\ UNCHANGED <<phase, exit, registry, advertised, clients, nextID, requestVars>>

\* Connect: the initialize result arrived.
Initialized ==
    /\ Connecting("initialize") /\ Answers("ok")
    /\ TakeID(next)
    /\ \E given \in BOOLEAN : Remember(next, given)
    /\ GoTo(next, "notify")
    /\ UNCHANGED <<phase, exit, registry, advertised, clients, requestVars>>

\* Connect: notifications/initialized was posted, without an id and whatever the
\* answer.
Notified ==
    /\ Connecting("notify")
    /\ \E given \in BOOLEAN : Remember(next, given /\ issued[next])
    /\ GoTo(next, "list")
    /\ UNCHANGED <<phase, exit, registry, advertised, clients, nextID, requestVars>>

\* Fault: a server that failed is tried again.
SkipServerRetrying ==
    /\ \E what \in Steps : Connecting(what)
    /\ GoTo(next, FirstStep(next))
    /\ UNCHANGED <<phase, exit, registry, advertised, clients, clientVars, requestVars>>

\* Connect or ListTools returned an error: the server is skipped, and its client
\* is dropped.
SkipServer ==
    /\ \E what \in Steps : Connecting(what)
    /\ NextServer
    /\ UNCHANGED <<phase, exit, registry, advertised, clients, clientVars, requestVars>>

\* Fault: the last server to list a name takes it.
RegisterOverwriting(tools) ==
    /\ Connecting("list") /\ Answers("ok")
    /\ TakeID(next)
    /\ \E given \in BOOLEAN : Remember(next, given /\ issued[next])
    /\ registry' = [t \in Tool |-> IF t \in tools THEN next ELSE registry[t]]
    /\ advertised' = [advertised EXCEPT ![next] = tools]
    /\ clients' = clients \cup {next}
    /\ NextServer
    /\ UNCHANGED <<phase, exit, requestVars>>

\* Fault: a refused name makes the server be skipped.
RegisterAllOrSkip(tools) ==
    /\ Connecting("list") /\ Answers("ok")
    /\ TakeID(next)
    /\ \E given \in BOOLEAN : Remember(next, given /\ issued[next])
    /\ registry' = [t \in Tool |->
                       IF t \in tools /\ registry[t] = Absent THEN next ELSE registry[t]]
    /\ advertised' = [advertised EXCEPT ![next] = tools]
    /\ clients' = IF \A t \in tools : registry[t] = Absent THEN clients \cup {next} ELSE clients
    /\ NextServer
    /\ UNCHANGED <<phase, exit, requestVars>>

\* ListTools succeeded: RegisterRemote refuses, one by one, the names taken.
Register(tools) ==
    /\ Connecting("list") /\ Answers("ok")
    /\ TakeID(next)
    /\ \E given \in BOOLEAN : Remember(next, given /\ issued[next])
    /\ registry' = [t \in Tool |->
                       IF t \in tools /\ registry[t] = Absent THEN next ELSE registry[t]]
    /\ advertised' = [advertised EXCEPT ![next] = tools]
    /\ clients' = clients \cup {next}
    /\ NextServer
    /\ UNCHANGED <<phase, exit, requestVars>>

\* The process ends; what was being served is lost.
Exit(why) ==
    /\ phase' = "exited"
    /\ exit' = why
    /\ outcome' = [r \in Request |-> IF active[r] = NoTool THEN outcome[r] ELSE "dropped"]
    /\ active' = [r \in Request |-> NoTool]
    /\ exchange' = [r \in Request |-> NoExchange]

\* initialize or tools/list was answered 202: resp.Error with a nil resp.
StartupPanic ==
    /\ Connecting("initialize") \/ Connecting("list")
    /\ Answers("panic")
    /\ Exit("panic")
    /\ UNCHANGED <<wiringVars, clientVars>>

\* Every server was dealt with: Run listens.
Listen ==
    /\ phase = "wiring" /\ next = Servers + 1
    /\ phase' = "serving"
    /\ UNCHANGED <<exit, wiringVars, clientVars, requestVars>>

\* ListenAndServe failed: main exits with an error.
ListenFails ==
    /\ phase = "wiring" /\ next = Servers + 1
    /\ Exit("error")
    /\ UNCHANGED <<wiringVars, clientVars>>

-----------------------------------------------------------------------------
\* The listener stays open until the process ends.
Listening == phase \in {"serving", "stopping"}

\* POST /v1/tools/call for a name that is not registered.
CallUnknown(r, t) ==
    /\ Listening /\ active[r] = NoTool
    /\ registry[t] = Absent
    /\ outcome' = [outcome EXCEPT ![r] = "notfound"]
    /\ UNCHANGED <<phase, exit, wiringVars, clientVars, active, exchange>>

\* For a tool that is: it runs without the registry's lock.
Start(r, t) ==
    /\ Listening /\ active[r] = NoTool
    /\ active' = [active EXCEPT ![r] = t]
    /\ outcome' = [outcome EXCEPT ![r] = "none"]
    /\ UNCHANGED <<phase, exit, wiringVars>>

CallLocal(r, t) ==
    /\ registry[t] = Local
    /\ Start(r, t)
    /\ UNCHANGED <<clientVars, exchange>>

\* remoteCall: the server's client posts tools/call.
CallRemote(r, t) ==
    LET s == registry[t]
    IN  /\ s \in Server /\ nextID[s] < MaxID
        /\ Start(r, t)
        /\ TakeID(s)
        /\ exchange' = [exchange EXCEPT ![r] = [id |-> nextID'[s], session |-> session[s]]]
        /\ UNCHANGED <<session, issued>>

Call(r, t) == CallUnknown(r, t) \/ CallLocal(r, t) \/ CallRemote(r, t)

\* Its client gets what came of it.
Finish(r, what) ==
    /\ Listening /\ active[r] # NoTool
    /\ outcome' = [outcome EXCEPT ![r] = what]
    /\ active' = [active EXCEPT ![r] = NoTool]
    /\ exchange' = [exchange EXCEPT ![r] = NoExchange]
    /\ UNCHANGED <<phase, exit, wiringVars, nextID>>

\* A built-in tool returns its text: neither of the two can fail.
ReplyLocal(r) ==
    /\ active[r] # NoTool /\ registry[active[r]] = Local
    /\ Finish(r, "result")
    /\ UNCHANGED <<session, issued>>

Awaiting(r) == active[r] # NoTool /\ registry[active[r]] \in Server

\* Results of other calls to the same server that are in flight.
Strays(r) ==
    {[kind |-> "result", id |-> exchange[q].id, of |-> q] :
        q \in {p \in Request \ {r} : Awaiting(p) /\ registry[active[p]] = registry[active[r]]}}

\* What r's client gets for message m, told apart by whose result it is.
Delivered(m, r, sse) ==
    IF Outcome[m.kind] = "panic" THEN "recovered"
    ELSE IF Outcome[m.kind] = "error" THEN "upstream"
    ELSE IF m.of = r THEN "result"
    ELSE IF sse THEN "foreign" ELSE "uncorrelated"

\* The MCP server answers, or the exchange fails.  A server does not issue a
\* session in the middle.
ReplyRemote(r) ==
    /\ Awaiting(r)
    /\ \/ Finish(r, "upstream") /\ UNCHANGED <<session, issued>>
       \/ /\ \E what \in {Delivered(Answer(body, exchange[r].id, r), r, body.sse) :
                            body \in Bodies(Own(exchange[r].id, r) \cup Strays(r))} :
              Finish(r, what)
          /\ \E given \in BOOLEAN :
              Remember(registry[active[r]], given /\ issued[registry[active[r]]])

\* The call ends: with its text, with an error, or in a panic that recovery
\* catches.
Reply(r) == ReplyLocal(r) \/ ReplyRemote(r)

\* SIGINT or SIGTERM.
Signal ==
    /\ phase = "serving"
    /\ phase' = "stopping"
    /\ UNCHANGED <<exit, wiringVars, clientVars, requestVars>>

\* Shutdown shuts down a server it has just created, which has no connection
\* to wait for, and closes the MCP clients; main then returns.
Shutdown ==
    /\ phase = "stopping"
    /\ Exit("ok")
    /\ UNCHANGED <<wiringVars, clientVars>>

-----------------------------------------------------------------------------
Wire ==
    \/ EndpointFound \/ Initialized \/ Notified \/ SkipServer
    \/ \E tools \in SUBSET Tool : Register(tools)
    \/ StartupPanic \/ Listen \/ ListenFails

Next ==
    \/ Wire
    \/ \E r \in Request : Reply(r) \/ \E t \in Tool : Call(r, t)
    \/ Signal
    \/ Shutdown

\* Exchanges with the MCP servers come to an end (their HTTP client has a timeout),
\* so startup goes on; no call and no signal need ever come.
Spec == Init /\ [][Next]_vars /\ WF_vars(Wire)

-----------------------------------------------------------------------------
\* The servers that listed tool t.
Advertisers(t) == {s \in Server : t \in advertised[s]}

\* What the registry holds under t is settled by configuration order.
OwnedByOrder(t) ==
    /\ t \in LocalTool => registry[t] = Local
    /\ t \notin LocalTool /\ Advertisers(t) = {} => registry[t] = Absent
    /\ t \notin LocalTool /\ Advertisers(t) # {} =>
           registry[t] \in Advertisers(t) /\ \A s \in Advertisers(t) : registry[t] <= s

\* The tool a name runs is settled by configuration order alone: a built-in is
\* never replaced, and otherwise the first server in the configuration that
\* listed the name owns it, whichever servers before it were skipped or listed
\* it too (registry.go:66-80, app.go:153-157).
FirstAdvertiserOwns == \A t \in Tool : OwnedByOrder(t)

\* A remote tool never outlives its server's handshake:
\* every registered remote tool belongs to a connected client (a server whose
\* Connect or ListTools failed leaves none behind, app.go:143-158).
RemoteToolsHaveClients ==
    \A t \in Tool : registry[t] \in Server => registry[t] \in clients

\* A result that came over a stream of frames is the result of the very call
\* that was made, although calls of other requests share the client, the server
\* numbers its own requests and results of others may be in the stream (client.go:
\* 161, jsonrpc.go:65-67, 80-98).  A plain JSON answer is taken whatever its id.
AnswersReachTheirCaller == \A r \in Request : outcome[r] # "foreign"

\* A server that has issued a session never gets a call without it, whichever
\* of its answers repeat the header (sse_common.go:18-20, streamable.go:48-52).
SessionIsKept ==
    \A r \in Request : Awaiting(r) => exchange[r].session = issued[registry[active[r]]]

\* Startup always comes to an end, with the router listening or the process ended:
\* a server that fails at any step of its handshake is left behind for good
\* (app.go:135-160).
StartupEnds == <>(phase # "wiring")

\* "A server that fails to connect at startup is skipped (logged) rather than
\* failing the whole app" (README.md:287, app.go:121-122): no answer of an MCP
\* server ends the process.
BadServerIsSkipped == exit # "panic"

\* "Graceful shutdown - drains in-flight requests on SIGINT/SIGTERM"
\* (README.md:41; app.go:210-211, "waiting up to ctx's deadline for in-flight
\* requests to complete"): a shutdown that reports success drops nobody.
ShutdownDrains == \A r \in Request : exit = "ok" => outcome[r] # "dropped"
=============================================================================
