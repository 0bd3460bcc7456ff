------------------------------ MODULE ToolLoop ------------------------------
(***************************************************************************)
(* internal/api: a client's conversation through the router, and the loop  *)
(* that runs the tools of the server between its turns: complete_common.go *)
(* and executeServerTools, with the candidates that fail over and the      *)
(* reasoning cache of the client's session, which another session's cap or *)
(* a restart may empty.                                                    *)
(*                                                                         *)
(* What a model answers is up to it: the names of the tools it calls.  The *)
(* client repeats its conversation with every request, runs the calls it   *)
(* was handed, and has never seen any reasoning.  Retries on the same      *)
(* candidate change nothing here, and which candidates are cooling down is *)
(* the choice of an order: both are Router's.                              *)
(***************************************************************************)
EXTENDS Conversation, FiniteSets

CONSTANTS ServerTool,     \* the registry's tools
          ClientTool,     \* the ones the client declares
          Batches,        \* the calls a model may answer with: sequences of names
          Orders,         \* the candidates of a request: sequences of provider kinds
          Clients,        \* wires a client may use: openai, anthropic
          MaxIterations,  \* maxServerToolIterations
          MaxTurns,       \* bound: requests of the client
          MaxCalls        \* bound: calls made by models in all

Kind == {"openai", "anthropic", "gemini"}

ASSUME ToolLoopAssumption ==
    /\ Batches \subseteq Seq(ServerTool \cup ClientTool) /\ <<>> \in Batches
    /\ Orders \subseteq Seq(Kind) \ {<<>>}
    /\ Clients \subseteq {"openai", "anthropic"}
    /\ MaxIterations \in Nat \ {0} /\ MaxTurns \in Nat /\ MaxCalls \in Nat

VARIABLES
    wire,        \* the client's wire
    history,     \* the conversation as the client has it
    turns,       \* requests made
    streaming,   \* whether the request asked for a stream
    phase,       \* idle, calling, running, continuing
    order,       \* the candidates left, the one at work first
    messages,    \* cReq.Messages
    stream,      \* cReq.Stream
    response,    \* the response at hand
    done,        \* how many of its calls have been run
    round,       \* i of the loop
    minted,      \* calls made so far, by any model
    ran,         \* history: the calls run for this request, in order
    handed,      \* history: the calls handed to the client
    remembered,  \* reasoningByCallID, for the client's session
    saved,       \* what its file has for that session
    lost         \* history: the IDs whose reasoning was once gone from memory

requestVars == <<streaming, order, messages, stream, response, done, round, ran>>
clientVars == <<wire, history, turns, handed>>
cacheVars == <<remembered, saved, lost>>
vars == <<phase, minted, requestVars, clientVars, cacheVars>>

None == [reasoning |-> NoReasoning, calls |-> <<>>]

Nothing == [id \in 1 .. MaxCalls |-> NoReasoning]

Init ==
    /\ wire \in Clients
    /\ history = <<Text("user")>>
    /\ turns = 0
    /\ streaming = FALSE
    /\ phase = "idle"
    /\ order = <<>>
    /\ messages = <<>>
    /\ stream = FALSE
    /\ response = None
    /\ done = 0
    /\ round = 0
    /\ minted = 0
    /\ ran = <<>>
    /\ handed = {}
    /\ remembered = Nothing /\ saved = Nothing
    /\ lost = {}

-----------------------------------------------------------------------------
\* serverOwned: a name of the registry the client does not declare itself.
ServerOwned(tc) == tc.name \in ServerTool /\ tc.name \notin ClientTool

\* allServerToolCalls
AllServerToolCalls(calls) == calls # <<>> /\ \A k \in DOMAIN calls : ServerOwned(calls[k])

\* The request is over, and what it worked on is gone.
Over ==
    /\ phase' = "idle"
    /\ streaming' = FALSE /\ order' = <<>> /\ messages' = <<>> /\ stream' = FALSE
    /\ response' = None /\ done' = 0 /\ round' = 0
    /\ UNCHANGED <<wire, turns, ran>>

\* Without an answer: 502, 500, an error frame or a broken stream.
EndWithout == Over /\ UNCHANGED <<history, handed, minted, cacheVars>>

\* The client has the answer, runs the calls in it and will send their results.
HandOver(resp) ==
    /\ Over
    /\ handed' = handed \cup {resp.calls[k].n : k \in DOMAIN resp.calls}
    /\ history' = history
           \o <<AssistantMessage(resp.calls, NoReasoning)>>
           \o IF resp.calls = <<>> THEN <<Text("user")>>
              ELSE [k \in DOMAIN resp.calls |-> ToolMessage(resp.calls[k])]

-----------------------------------------------------------------------------
\* The client sends its conversation; Begin gives the candidates.
Ask(candidates, streamed) ==
    /\ phase = "idle" /\ turns < MaxTurns
    /\ phase' = "calling"
    /\ turns' = turns + 1
    /\ streaming' = streamed /\ stream' = streamed
    /\ order' = candidates
    /\ messages' = FromClient(wire, history, remembered)
    /\ ran' = <<>>
    /\ UNCHANGED <<wire, history, response, done, round, minted, handed, cacheVars>>

\* Fault: the first candidate comes again after the last.
NextCandidateRotating ==
    /\ phase' = "calling"
    /\ order' = Append(Tail(order), Head(order))
    /\ response' = None /\ done' = 0 /\ round' = 0
    /\ UNCHANGED <<streaming, messages, stream, minted, ran, cacheVars, clientVars>>

\* Fault: the next candidate starts afresh.
NextCandidateAfresh ==
    IF Len(order) = 1 THEN EndWithout
    ELSE /\ phase' = "calling"
         /\ order' = Tail(order)
         /\ messages' = FromClient(wire, history, remembered)
         /\ response' = None /\ done' = 0 /\ round' = 0
         /\ UNCHANGED <<streaming, stream, minted, ran, cacheVars, clientVars>>

\* The candidate at work is given up for the next, or for a 502.
NextCandidate ==
    IF Len(order) = 1 THEN EndWithout
    ELSE /\ phase' = "calling"
         /\ order' = Tail(order)
         /\ response' = None /\ done' = 0 /\ round' = 0
         /\ UNCHANGED <<streaming, messages, stream, minted, ran, cacheVars, clientVars>>

\* It fails before it has delivered anything, every time it is tried.
CallFails == phase = "calling" /\ NextCandidate

\* Its stream breaks off: what there was of it is replayed.
StreamBreaks == phase = "calling" /\ streaming /\ EndWithout

\* It answers with these calls, with reasoning or without.
Answers(names, thinks) ==
    /\ minted + Len(names) <= MaxCalls
    /\ thinks => Head(order) = "openai" /\ names # <<>>
    /\ minted' = minted + Len(names)

Minted(names, thinks) == Response(Head(order), names, minted, thinks)

\* Fault: the cap is forgotten.
DealUncapped(resp, i) ==
    IF AllServerToolCalls(resp.calls)
    THEN /\ phase' = "running"
         /\ response' = resp /\ done' = 0 /\ round' = i
         /\ UNCHANGED <<streaming, order, messages, stream, ran, clientVars>>
    ELSE HandOver(resp)

\* executeServerTools at iteration i: the server's own calls are run, unless the
\* cap is reached; anything else is the client's.
Deal(resp, i) ==
    IF i < MaxIterations /\ AllServerToolCalls(resp.calls)
    THEN /\ phase' = "running"
         /\ response' = resp /\ done' = 0 /\ round' = i
         /\ UNCHANGED <<streaming, order, messages, stream, ran, clientVars>>
    ELSE HandOver(resp)

\* rememberReasoning: only a response with reasoning reaches remember, whose save may
\* fail.  The cap drops other sessions, never the one that remembers.
Remember(resp) ==
    /\ remembered' = Remembering(remembered, resp)
    /\ saved' \in IF resp.reasoning = NoReasoning THEN {saved} ELSE {saved, remembered'}
    /\ UNCHANGED lost

CallReturns(names, thinks) ==
    /\ phase = "calling"
    /\ Answers(names, thinks)
    /\ Remember(Minted(names, thinks))
    /\ Deal(Minted(names, thinks), 0)

\* The next of its calls is run; an error's text is its result.
RunTool ==
    LET tc == response.calls[done + 1]
    IN  /\ phase = "running" /\ done < Len(response.calls)
        /\ messages' = messages \o <<AssistantMessage(<<tc>>, response.reasoning), ToolMessage(tc)>>
        /\ ran' = Append(ran, tc.n)
        /\ done' = done + 1
        /\ UNCHANGED <<phase, streaming, order, stream, response, round, minted, cacheVars,
                       clientVars>>

\* Or it panics (an MCP server's 202), and recovery ends the request.
ToolPanics == phase = "running" /\ done < Len(response.calls) /\ EndWithout

\* Fault: the client's wish for a stream is passed on.
ContinueAsAsked ==
    /\ phase = "running" /\ done = Len(response.calls)
    /\ phase' = "continuing"
    /\ UNCHANGED <<streaming, order, messages, stream, response, done, round, minted, ran,
                   cacheVars, clientVars>>

\* All were: the same provider is called again, for a plain completion.
Continue ==
    /\ phase = "running" /\ done = Len(response.calls)
    /\ phase' = "continuing"
    /\ stream' = FALSE
    /\ UNCHANGED <<streaming, order, messages, response, done, round, minted, ran, cacheVars,
                   clientVars>>

\* Fault: the response at hand is served for want of another.
ContinuationFailsServing ==
    /\ phase = "continuing"
    /\ HandOver(response)
    /\ UNCHANGED <<minted, cacheVars>>

\* The continuation fails: a stream ends in an error, and otherwise the next
\* candidate gets the request as it was extended.
ContinuationFails ==
    /\ phase = "continuing"
    /\ IF streaming THEN EndWithout ELSE NextCandidate

\* Fault: only the first response's reasoning is kept.
ContinuationReturnsUnremembered(names, thinks) ==
    /\ phase = "continuing"
    /\ Answers(names, thinks)
    /\ UNCHANGED cacheVars
    /\ Deal(Minted(names, thinks), round + 1)

\* It returns, and the loop goes round.
ContinuationReturns(names, thinks) ==
    /\ phase = "continuing"
    /\ Answers(names, thinks)
    /\ Remember(Minted(names, thinks))
    /\ Deal(Minted(names, thinks), round + 1)

-----------------------------------------------------------------------------
\* What the memory loses in this step.
Forgotten == {id \in 1 .. MaxCalls : remembered[id] # NoReasoning /\ remembered'[id] = NoReasoning}

\* Another session's remember: past the cap this session goes.  Its save may fail.
OtherSession ==
    /\ remembered' \in {remembered, Nothing}
    /\ saved' \in {saved, remembered'}
    /\ lost' = lost \cup Forgotten
    /\ UNCHANGED <<phase, minted, requestVars, clientVars>>

\* The process is killed, with the request at work, and reloads the file.
Restart ==
    /\ Over
    /\ remembered' = saved
    /\ lost' = lost \cup Forgotten
    /\ UNCHANGED <<history, handed, minted, saved>>

Returns ==
    \E names \in Batches, thinks \in BOOLEAN :
        CallReturns(names, thinks) \/ ContinuationReturns(names, thinks)

Serve ==
    \/ CallFails \/ StreamBreaks \/ Returns
    \/ RunTool \/ ToolPanics \/ Continue \/ ContinuationFails

Next ==
    \/ \E candidates \in Orders, streamed \in BOOLEAN : Ask(candidates, streamed)
    \/ Serve
    \/ OtherSession \/ Restart

\* Calls of providers and tools come to an end, by their timeouts.
Spec == Init /\ [][Next]_vars /\ WF_vars(Serve)

-----------------------------------------------------------------------------
Call == [n : 1 .. MaxCalls, name : ServerTool \cup ClientTool, id : 0 .. MaxCalls,
         thought : 0 .. MaxCalls]
Turn == [role : {"user", "assistant", "tool"}, calls : Seq(Call), toolCallID : 0 .. MaxCalls,
         answers : 0 .. MaxCalls, reasoning : -1 .. MaxCalls]

TypeOK ==
    /\ wire \in Clients
    /\ history \in Seq(Turn)
    /\ turns \in 0 .. MaxTurns
    /\ streaming \in BOOLEAN /\ stream \in BOOLEAN
    /\ phase \in {"idle", "calling", "running", "continuing"}
    /\ order \in Seq(Kind) /\ (phase # "idle" => order # <<>>)
    /\ messages \in Seq(Turn)
    /\ response \in [reasoning : 0 .. MaxCalls, calls : Seq(Call)]
    /\ done \in 0 .. Len(response.calls)
    /\ round \in 0 .. MaxIterations - 1
    /\ minted \in 0 .. MaxCalls
    /\ ran \in Seq(1 .. MaxCalls)
    /\ handed \subseteq 1 .. MaxCalls
    /\ remembered \in [1 .. MaxCalls -> 0 .. MaxCalls]
    /\ saved \in [1 .. MaxCalls -> 0 .. MaxCalls]
    /\ lost \subseteq 1 .. MaxCalls

\* A provider is being called, with this.
Sending == phase \in {"calling", "continuing"}
Sent == ToProvider(Head(order), messages)

\* The results of all its calls follow message k, in order.
IsAnswered(sent, k) ==
    \A j \in DOMAIN sent[k].calls :
        k + j \in DOMAIN sent /\ sent[k + j].answers = sent[k].calls[j].n

\* A result at k belongs to a call just before it, and is named by that call's
\* tool where results are named and the call has an ID.
FollowsItsCall(sent, k) ==
    sent[k].answers # NoCall =>
        \E i \in 1 .. k - 1 :
            /\ k - i \in DOMAIN sent[i].calls
            /\ sent[i].calls[k - i].n = sent[k].answers
            /\ \/ sent[k].tool \in {NoName, sent[i].calls[k - i].name}
               \/ sent[k].tool = "functionCallResponse" /\ sent[k].toolCallID = NoID

\* Whatever was run, handed over, failed over or converted before, every provider
\* gets a conversation in which each turn of tool calls is followed by the results
\* of exactly these calls: all three reject one that is not
\* (chat_completions.go:413-420, complete_common.go:27; anthropic.go:223-260,
\* gemini.go:173-237).
ToolTurnsAreWhole ==
    Sending => \A k \in DOMAIN Sent : IsAnswered(Sent, k) /\ FollowsItsCall(Sent, k)

\* No call is both run by the router and handed to the client, which would run it
\* again, and none is run twice, whatever fails on the way (chat_completions.go:
\* 256-269, 400-431).
RunsOnceOrHandsOver ==
    /\ \A j, k \in DOMAIN ran : j # k => ran[j] # ran[k]
    /\ \A k \in DOMAIN ran : ran[k] \notin handed

\* What a tool did is not forgotten by a failover: every call run for the request
\* is, with its result, in all that is sent from then on (complete_common.go:27:
\* the request is extended in place).
WorkIsPassedOn ==
    Sending => \A k \in DOMAIN ran : \E i \in DOMAIN Sent : Sent[i].answers = ran[k]

\* The reasoning due with a turn of calls: the one they came with, inside the tool
\* loop and when the client repeats them, unless the cache has lost it since, and
\* the placeholder where the client repeats calls without any.
Due(c) ==
    IF c.n \notin handed THEN {c.thought}
    ELSE IF c.thought = NoReasoning THEN {Placeholder}
    ELSE IF c.n \in lost THEN {c.thought, Placeholder}
    ELSE {c.thought}

\* A provider that reads reasoning gets back, with every turn of tool calls, the
\* reasoning these calls came with and nobody else's, although the client, the
\* rounds of the tool loop and other providers come in between.  The placeholder
\* stands in only where there was no reasoning, or where another session's cap or a
\* restart with an older file took it from the cache (chat_completions.go:170-190,
\* 319-334, 358-363, 384-398; README.md:136-138).
ReasoningGoesBack ==
    Sending /\ Head(order) = "openai" =>
        \A k \in DOMAIN Sent :
            Sent[k].calls # <<>> => Sent[k].reasoning \in Due(Sent[k].calls[1])

\* A provider is asked for a stream exactly when a stream is what its answer is
\* read as, in any round and for any candidate: a completion that is answered with
\* SSE fails to decode (chat_completions.go:422-424).
AnswersAreReadAsAsked == Sending => (stream <=> streaming /\ phase = "calling")

\* Every request comes to an end: no candidate comes twice, a failed continuation
\* starts no round again, and nothing that goes wrong leaves the client waiting
\* (chat_completions.go:408-431, 465).
EveryRequestEnds == phase # "idle" ~> phase = "idle"

\* "ToolCallID links a role==\"tool\" message to the assistant tool call it answers"
\* (chat/domain.go:27-28): each result in a request carries the ID of a call before it.
ResultsLinkToTheirCalls ==
    Sending => \A k \in DOMAIN messages :
        messages[k].role = "tool" =>
            /\ messages[k].toolCallID # NoID
            /\ \E i \in 1 .. k - 1 : \E j \in DOMAIN messages[i].calls :
                   messages[i].calls[j].id = messages[k].toolCallID
=============================================================================
