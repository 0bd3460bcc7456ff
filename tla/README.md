# aibattery in TLA+

aibattery is an HTTP router between OpenAI- or Anthropic-speaking clients and
several LLM providers. A *virtual model* names a list of `{provider, model}`
candidates and a strategy; the router tries the candidates, fails over, runs
server-owned tools between upstream calls, and replays what the provider said
in the client's wire format.

This directory holds TLA+ models of it, translated from the Go source, the TLC
configurations that check them on small instances, and proofs, checked by
TLAPS, of what holds for every instance. Paths below are relative to `src/`.

- `tlc -config <run>.cfg <Module>.tla` runs a check (see [Runs](#runs)).
- `tlapm <Module>Proofs.tla` checks proofs (see [Proofs](#proofs)).
- `PROJECT.json` lists components, runs, the source lines each definition
  stands for, findings, hazards and theorems.

## Inventory

| Component | State | Operations | Made correct by |
|---|---|---|---|
| Routing selector `internal/routing` | ring cursor, cooldown deadlines, one mutex | `Begin`, `RecordFailure`, `RecordSuccess` | benched candidates get no new callers and come back; failover keeps configuration order; round robin rotates |
| Failover loops `internal/api` (4 handlers: OpenAI and Anthropic wire, streaming and not) | per request: snapshot, attempt, tool iteration | call, classify, retry, record, fail over, run tools, answer | every request answered, bounded upstream calls, no failover on an accepted stream, cooldown only for what deserves it |
| Reasoning cache `internal/api/chat_completions.go` | map session -> call ID -> text, mutex, file | `remember`, `lookup`, `save`, load at start | sessions isolated, cap kept, file never half-written |
| Server tool loop and conversation `internal/api`, `internal/chat` | per request: messages, response at hand, round | convert, run a tool, call again, fail over, hand over | every provider gets a consistent conversation with its own reasoning; no call has two owners |
| Stream consumers `internal/adapter` (OpenAI, Anthropic, Gemini) | per stream: delivered, collected tool calls, finish reason | one SSE frame, end of body, read error | a broken stream is an error only if nothing was delivered; tool calls survive; a final chunk |
| Message conversion `internal/adapter` | none | `openAIMessages`, `anthropicMessages`, `buildGeminiRequest` | results stay next to the calls they answer |
| SSE writers `internal/api/sse.go`, `anthropic_stream.go` | role sent; started, open block, block index | chunk or event, burst, error, done | one well-formed message whatever is emitted, wherever it stops |
| Tool registry `internal/tools`, `POST /v1/tools/call` | name -> owner | register built-ins, register remote, call | ownership follows the configuration |
| MCP client `internal/mcp` (streamable HTTP, legacy SSE) | session ID, request IDs, endpoint | `Connect`, `ListTools`, `CallTool`, `Close` | a failing server does no harm; answers reach the call that asked; a session is kept |
| Lifecycle `internal/app`, `cmd/server` | MCP clients, HTTP server | wire, listen, signal, shut down | startup ends, shutdown drains |
| HTTP handler, middleware, request parsing | none | - | - |
| Configuration `internal/config` | none after startup | validate | - |

How they interact. A handler validates the request, takes one snapshot from
the virtual model's selector (`Begin`), and from then on only reports to the
selector; it calls one provider at a time. A streaming handler lets the
provider's consumer fill a buffer through the `emit` callback
(`captureStream`), decides from the last chunk whether the tool calls are the
server's own, and then either replays the buffer through an SSE writer or runs
the tools and completes again on the same provider. Handlers of different
requests run concurrently and share only the selectors, the reasoning cache
and the tool registry, which does not change after startup.

What is hard: snapshots that outlive the state they were cut from; outcome
reports in any order; retries, failover and tool iterations that multiply; a
stream that breaks before, inside or after its content, in three adapters that
each decide alone what that means; a client that leaves in the middle; a
process killed inside a two-step save; a request extended in place that the
next candidate inherits; MCP servers that fail at any step of a handshake or
send what was not asked for; a shutdown that races requests. `PROJECT.json`
lists each of these hazards at its line, with the property that would catch it.

## Modules

| Module | Models | Extends / uses |
|---|---|---|
| `Selector` | one virtual model's selector and the snapshots requests hold | |
| `SelectorRotation` | the same with a history of successes, for the rotation property; also with requests that do not overlap | `Selector` |
| `RouterPromise` | abstract: what a client is promised | |
| `Router` | the four failover loops over one selector | instances of `Selector` and `RouterPromise` |
| `ReasoningCache` | the cache, its file, crashes | |
| `AdapterStream` | what the three stream consumers share | |
| `OpenAIStream`, `AnthropicStream`, `GeminiStream` | the consumers | `AdapterStream` |
| `ClientStream`, `AnthropicWriter`, `OpenAIWriter` | a client that may leave, and the two SSE writers | |
| `StreamServing` | one upstream stream served to a client of either wire | the three consumers and both writers |
| `Conversation` | messages, and their conversion from a client and to a provider | |
| `ToolLoop` | a client's turns, the server tool loop, failover of the extended request, the reasoning echo | `Conversation` |
| `McpExchange` | what one answer of an MCP server comes to | |
| `Lifecycle` | startup, tool registry, tool calls with their ids and sessions, shutdown | instance of `McpExchange` |
| `MC*` | constants of the runs | |
| `SelectorProofs`, `RouterProofs`, `ReasoningCacheProofs`, `LifecycleProofs`, `ToolLoopProofs`, `StreamServingProofs` | proofs | the module named (`SelectorProofs`: `SelectorRotation` as well) |
| `ServedMessageProofs` | proofs: the Anthropic wire and the tool calls of a stream | `StreamServingProofs` |
| `SequenceFacts` | lemmas about sequences that these proofs share | |

### Selector

`cursor` and `cooldowns` are the selector's fields. A cooldown is kept as time
left rather than as a deadline; `Tick` lets time pass for all of them, and a
negative configured cooldown, which like zero never benches, is left out. Each
method holds the mutex throughout, so each is one action. A snapshot (the slice
`Begin` returns) is a local of the handler: the ring position it starts from
(`start`), the indices in it (`offered`), those still to be tried (`left`).
`RecordFailure` and `RecordSuccess` are given a candidate, not an index, and
look its first index up (`IsIndexOf`); a candidate may be listed twice in a
configuration and the instance checked does so. `Skip`, `Abandon` and
`RecordFinalFailure` are the other ways in which the handlers leave a
candidate.

### Router

Each action is the return of one upstream call with everything the handler
does up to its next upstream call: classification (`chat.IsRateLimit`,
`chat.IsRetryable`), retry, report to the selector, failover, answer. Between
two such returns a handler touches nothing shared except through the selector,
so no interleaving is lost. `pc[r]` says whether request `r` is in an ordinary
call or in the tool loop's; `attempt` and `round` are the two loop counters.
What an upstream call may return is spelled out in the module's header; what a
stream can return is what `StreamServing` shows the adapters to do, the error
returned after content included. `Cancel` is the client's disconnect: from then
on calls fail as transport errors, or break if content was already delivered.

Besides a return, a request in the tool loop may meet `ToolPanics`: a tool of an
MCP server that answers `tools/call` with 202 makes `CallTool` read a nil
response, and the recovery middleware ends the request then and there, with
candidates untried and nothing reported to the selector.

`RouterPromise` is the abstract specification: a request is offered
candidates, each may reject it, the last rejection fails it, a committed stream
rules the others out, and it is answered. A candidate may first put the router
to work, and only such work may break a request off while candidates are left
(`BreakOff`); an ordinary call never may. `Router` maps to it with `open <- left`
and `status` read off `pc`, the kind of request and the answer.

Left out: the conversation (`ToolLoop`), wire formats, the branch for a candidate
whose provider does not exist (configuration validation rejects it).

### ReasoningCache

`remember` runs under the mutex to its end, in three steps a crash may come
between: update the map (`Remember`), write the temporary file (`WriteTmp`),
rename it (`Rename`). `mu` is the mutex together with its holder's next step.
`lookup` is the operator `Lookup`. `Restart` is a kill at any point, a half
written temporary file included, and the load at the next start. Reasoning text
is not modelled, only which pairs of session and call ID have some.

### The streams and the writers

A delta is its text (there or not), its finish reason and its tool calls, which
are the indices the provider gave them. Each consumer is one action per kind of
frame, plus the end of the body and the failure of reading it; a malformed
frame is treated like a failed read by two adapters and is skipped by the third.
`streamed` (the calls that were in the frames) and `cut` (the body broke off)
are histories.

Both writers write to the same kind of client (`ClientStream`): any write may
fail, the methods then return at once, and what comes after fails too, so the
client has a beginning of what was meant for it. `AnthropicWriter` writes
events, each with the number of the block it is about; `OpenAIWriter` writes
chunks, each with its role, text, finish reason and number of tool calls.

`StreamServing` puts a consumer, the buffer and the writer of the client's wire
together, and gives the last candidate's failure (`GiveUp`), the server tool
burst, the replay and its end. What the tool loop does before its burst is
`ToolLoop`'s business, several candidates are the Router's.

Left out: usage, names, arguments and reasoning text; and what the client of a
stream sees of a server tool's panic, which is the recovery middleware's error
body after the 200 of the stream, with neither an end nor `[DONE]`. So "one end"
and "`[DONE]` last" are claimed for streams whose tools do not panic.

### Conversation and ToolLoop

A tool call is known by `n`, its number among all calls any model made; its
`id` is what the program sees, which for Gemini is none. A message has a role,
calls, the `toolCallID` of a result, reasoning, and `answers`, a history: the
call it is the result of. `FromOpenAI`, `FromAnthropic`, `ToOpenAI`,
`ToAnthropic` and `ToGemini` are the conversions in the code, with roles that
are promoted, renamed or dropped and with `toolNameFor`; texts, arguments and
schemas are left out.

`ToolLoop` runs one client's conversation. `Ask` converts the whole history,
which the client repeats with every request and from which it omits reasoning.
`messages` and `stream` are the fields of `cReq`, the request that the handler
extends in place, and outlive a candidate. `CallReturns` and
`ContinuationReturns` end in `Deal`, an iteration of `executeServerTools`: all
calls the server's own and the cap not reached, and they are run one by one
(`RunTool`), otherwise the response is handed over and the client sends back the
results of what is in it. A continuation that fails (`ContinuationFails`) ends a
stream and otherwise gives the extended request to the next candidate.

`remembered` is the reasoning cache for the client's session, and `saved` what
its file has for it. `Remember` may fail to save (an in-memory cache always
does). `OtherSession` is a `remember` of any other session, at any moment: past
the cap it drops this session's entries, and it may save what is left. `Restart`
kills the process with the request at work and loads the file. A session's own
`remember` never drops its own entries. What becomes of the reasoning then is
`Echo`'s: a turn whose entry is gone goes out with the placeholder, and `lost`, a
history, says for which calls that is excused. That sessions are apart and what
the file goes through are `ReasoningCache`'s.

Retries and cooldowns are the Router's: `Ask` takes any order of candidates. In a stream, the Gemini adapter
keeps only the last function call; the model lets it keep several.

### Lifecycle and McpExchange

Servers are wired one after the other, before the router listens. `next` and
`step` are where the loop in `wireMCPServers` is. `registry` is the tool
registry, `advertised` a history of what each server listed.

`McpExchange` says what the body of an answer comes to: the first SSE frame
with the request's id, a JSON document whatever its id, nothing at all for `202
Accepted`. `Lifecycle` lets every exchange end in any body of up to
`MaxMessages` messages: the result, an error, junk, requests of the server's own
under any id, and results of other calls in flight on the same client.
`nextID` and `session` are the client's and the transport's fields, taken and
read by `CallRemote`, and `exchange` is what a call took with it; `issued` is a
history. A call of `POST /v1/tools/call` begins in `Call` and ends in `Reply`;
that a result of another call came over JSON is told apart (`uncorrelated`) from
one over SSE (`foreign`). `Signal`, `Shutdown` and `Exit` are the end of the
process.

It is assumed of a server that it issues a session during its handshake and not
in the middle; a session that expires is not renewed by the code either. So
`SessionIsKept` says that an answer without the header does not clear a session
and that none is forgotten from one call to the next; it says nothing about
calls in flight while a session is replaced.

Left out: how the endpoint's URL is resolved, what the built-in tools compute,
`Close`, which does nothing in both transports.

### Fault operators

An operator commented `Fault:` stands beside the definition it distorts and is
used by no specification. Each is a plausible bug (a dropped guard, a missing
reset, an index that does not advance); put in the place of the original it
makes TLC report the property that `PROJECT.json` names with it, which shows
that the property depends on the code.

## Runs

| Run | Distinct states | Instance | Shows |
|---|---|---|---|
| `selector_failover` | 2,742 | 3 requests, 2 candidates over 3 entries, cooldown of 2 ticks | stale snapshots neither reorder a request's candidates nor bring a benched candidate new callers; it always comes back |
| `router` | 129,192 | an OpenAI and an Anthropic client, 2 candidates, 3 tries, 2 tool iterations, cooldown of 1 tick | the four handlers, panicking tools included, implement `RouterPromise` with its liveness, use the selector by its protocol, and stay within the budget of calls; the OpenAI handlers bench for nothing but a 429 or a failed tool loop |
| `reasoning_cache` | 20,813 | 2 sessions, 3 call IDs, cap of 2 | isolation of sessions, crash safety of the file, what the cap guarantees |
| `streaming` | 76,729 | bodies of up to 4 frames, 2 tool-call indices, each provider, either wire | failures classified by what was delivered, no tool call lost, well-formed events, chunks that are one message, one end |
| `lifecycle` | 34,317 | 2 servers, one of each transport, 2 tools of which one built in, 2 callers, 2 messages in a body | ownership of names, no orphan tools, results reach the call that asked, sessions carried, startup ends |
| `tool_loop` | 221,632 | a client of either wire, 3 requests, 3 pairs of candidates, 2 tool iterations, 3 tool calls in all, a cache that others and restarts may empty | consistent conversations for every provider, one owner per call, no work lost by a failover, reasoning returned to its call unless the cache lost it, continuations asked for plainly, every request ends |

Four more runs look for a disagreement between the code and what a comment or
the documentation says, and find one (`tool_links` a bug as well); two more find a
bug. Each checks one property and ends in a counterexample:

| Run | What the text says | What the code does |
|---|---|---|
| `rotation_concurrent` | "the cursor advances past c so the next call starts differently" (`routing.go:45`) | a success reported late moves the cursor back onto candidates just used; for requests that do not overlap it holds (`SerialCallsRotate`) |
| `router_cooldown` | the cooldown "applies only to HTTP 429" (`README.md:124`), and a 429 "goes straight to cooldown + failover" (`chat_completions.go:276`) | the Anthropic handlers bench on any error, and so does a failed tool loop; and the 429 that answers a retry is retried |
| `streaming_contract` | "then emits a final chunk with FinishReason set", an error only before any content (`chat/port.go:18-22`) | all three adapters can return nil without one, and the Anthropic adapter returns read errors after content |
| `tool_links` | "ToolCallID links a role=="tool" message to the assistant tool call it answers" (`chat/domain.go:27`) | a function call of Gemini's gets no ID, and its result is linked to nothing and named by a placeholder |
| `lifecycle_mcp` | "A server that fails to connect at startup is skipped" (`README.md:287`) | one that answers `initialize` with 202 ends the process by a nil dereference |
| `lifecycle_drain` | "drains in-flight requests" (`README.md:41`) | `Shutdown` shuts down a server it has just created; requests in flight are dropped |

### Bounds

Every bound is a constant or is named in the configuration. Three requests in
`selector_failover` are one whose snapshot is old, one that benches and one that
arrives; the property speaks of one candidate and one request at a time, and the
theorem covers the rest. Two candidates in `router` are one to fail and one to
fail over to; 3 tries are the code's `maxAttempts`; 2 tool iterations (the code
has 5) are one that continues and one that meets the cap. Each client of
`router` sticks to one wire format and chooses streaming or not, so that every
pair of an OpenAI and an Anthropic handler interleaves. A cap of 2 and 3 call
IDs let one session alone exceed the cap, two together reach it, and a reset
come in between. Two messages in an MCP answer are the one asked for and one
that was not, in either order; two callers and five ids, of which the handshake
takes two, let two calls be in flight on a client that has been used before
(`MaxID` caps a counter that the code does not bound). Three requests in
`tool_loop` are one whose call is run by the router or handed over, one that
brings results and reasoning back, and one after it; two iterations are one that
continues and one that meets the cap; three calls are one response that meets the
cap after two rounds, or one for each request, or a round of two and one more
(`tool_links` has four); the candidate pairs have each kind first or second to a
different one. `MaxCalls` also ends every tool loop, so `EveryRequestEnds` says
nothing about the code's cap: that is `round`'s bound in `TypeOK` here, and in
`Router`, where calls are not counted, `TypeOK`, `EveryCallCountsDown` and the
liveness of `KeepsPromise`. Four frames are enough for text, two tool calls and
an end in any order, and for what follows an end in the adapter that reads on.
Two MCP servers are one that may fail and one that must still be wired, or two
that collide. The counters that the code does not bound by itself are named
bounds: `MaxFrames`, `MaxMessages`, `MaxID`, `MaxTurns`, `MaxCalls`.

`reasoning_cache` uses symmetry of sessions and of call IDs; it checks no
liveness property.

### Fairness

- `Selector`: `WF(Tick)`, time passes. Nothing is assumed of requests.
- `Router`: `WF(CallReturns(r))`, each upstream call returns. Each runs under a
  deadline of its own: the provider's `timeout` for completions, five minutes
  for streams. Requests need not come or be cancelled, and nothing is said about
  what calls return.
- `Lifecycle`: weak fairness of wiring, whose exchanges end because the MCP
  transports' HTTP clients have a timeout. A configured timeout of `0s` would take
  it away. Nothing is assumed of calls, of signals or of the shutdown.
- `ToolLoop`: `WF(Serve)`, the calls of providers and tools that a request makes
  come to an end, again by their deadlines, whatever they return. The client
  need not ask, other sessions need not remember, and nothing need restart.
- The other specifications have none; their properties are safety.

Deadlock is checked where the system must go on. It is off for `StreamServing`,
which ends when its one stream is served, for `Lifecycle`, which ends with the
process, and for `ToolLoop`, where the client makes `MaxTurns` requests.

## Proofs

For any number of requests, candidates, sessions, servers, tools, frames and
messages and any values of the bounds, under the assumptions on constants that
the modules declare (a non-empty ring, known strategies, positive bounds,
distinct special values):

| Module | Theorem | Establishes |
|---|---|---|
| `SelectorProofs` | `TypeCorrect` | `[]TypeOK` |
| | `FailoverOrder` | `[]FailoverKeepsConfigOrder` |
| | `BenchedIsolation` | `BenchedGainsNoHolder` |
| | `SerialCallsRotate` | `NextCallStartsDifferently`, for requests that do not overlap and candidates that differ |
| `RouterProofs` | `SelectorProtocol` | `UsesSelector`: the router's steps are steps of `Selector` |
| | `TypeCorrect` | `[]TypeOK` |
| | `CallBudget` | `EveryCallCountsDown` |
| | `OnlyRateLimitsBench` | `TransientFailuresNeverBench` |
| | `PromiseIsKept` | `Router` implements the safety part of `RouterPromise` |
| `ReasoningCacheProofs` | `TypeCorrect` | `[]TypeOK` |
| | `SessionIsolation` | `[]EchoesOnlyOwnReasoning` |
| | `CrashSafety` | `[]FileIsComplete` |
| | `CapIsPerSession` | `[]OverflowIsOneSession` |
| | `SavesAreCurrent` | `RenamePublishesCurrentMap` |
| `LifecycleProofs` | `TypeCorrect` | `[]TypeOK` |
| | `OwnershipByOrder` | `[]FirstAdvertiserOwns` |
| | `NoOrphanTools` | `[]RemoteToolsHaveClients` |
| | `AnswersCorrelate` | `[]AnswersReachTheirCaller` |
| | `SessionsCarried` | `[]SessionIsKept` |
| `ToolLoopProofs` | `OneOwnerPerCall` | `[]RunsOnceOrHandsOver` |
| | `PlainContinuations` | `[]AnswersAreReadAsAsked` |
| | `TypeCorrect` | `[]TypeOK` |
| | `WholeToolTurns` | `[]ToolTurnsAreWhole` |
| | `WorkSurvivesFailover` | `[]WorkIsPassedOn` |
| | `ReasoningIsReturned` | `[]ReasoningGoesBack` |
| `StreamServingProofs` | `FailureMeansNothingDelivered` | `[]FailsExactlyBeforeContent` |
| | `OneMessagePerStream` | `[]ChunksAreOneMessage` |
| `ServedMessageProofs` | `WritersTypeCorrect` | `[]TypeOK` |
| | `BlocksAreInSequence` | `[]BlocksInSequence` |
| | `MessagesEndOnce` | `[]MessageEndsOnce` |
| | `NoStreamedCallIsLost` | `[]NoCallIsLost` |

The arguments:

- *Selector.* That nothing left in a snapshot precedes something already dealt
  with is not inductive: it depends on where the snapshot starts. `IInv` adds
  that under failover the cursor and every snapshot start at 0 (`CursorAtRest`)
  and that, for either strategy, what was left behind is nearer to the start of
  the snapshot in ring order (`SnapshotInRingOrder`). Candidates leave a
  snapshot from its front, so the order is kept; distances from 0 are indices.
  For the rotation, `ServedIsBehind` says that while nobody is at work and a
  candidate has been served since the last call, it is the one before the cursor:
  the last one that a snapshot from the cursor comes to (`BehindIsLast`). Both
  hypotheses are needed: `rotation_concurrent` violates the property without the
  first, and a candidate listed twice in a row is next after itself. With
  `SerialSpec` in its place, that run's instance has 471 states and no violation.
- *Router.* The selector's invariant is taken over through `SelectorProtocol`.
  `Position` adds that a request holds candidates exactly while another may
  still be tried, and that the tool loop is within its bound. `CallHasEffect`
  reduces the thirteen ways in which a call can end to five effects on a
  request (it gives the candidate up, tries again, is served, starts the tool
  loop, goes on with it); invariant, budget and refinement are each proved
  from these five.
- *ReasoningCache.* Any copy of the map may become the map again, the file by a
  restart and the temporary file by a rename, so each property of the map has
  to hold of all three copies (`CopiesSound`). While the lock is held for the
  rename, the temporary file is the map (`TmpIsCurrent`).
- *Lifecycle.* `IInv` is `TypeOK` with `Wiring`, `Handshake` and `Calls`.
  Ownership needs that no server has listed a tool before its turn
  (`NothingAhead`). That an answer reaches the call that asked is a matter of
  ids: `Handshake` knows how many ids the client being connected has given,
  and from then on the calls in flight on one client carry ids it has given
  (`IdsAreTaken`), no two the same (`IdsAreDistinct`), since an id is taken and
  counted in one step. `StreamedAnswer` says of the parser that what it returns
  has the id asked for; it finds the first such frame by the well-foundedness
  of `<`. That sessions are kept follows from `SessionsKnown`: the client's
  session is the one issued.
- *ToolLoop.* That no call has two owners is not inductive: the step that runs
  a tool must know that this one has not been run. Calls are numbered as they are
  made. `AtWork` says that while tools run, the calls at hand are the last ones
  made, numbered from some `b` on, that what was run is at most `b + done` and
  what was handed over at most `b`. `Flags` adds types to
  `AnswersAreReadAsAsked`.
- *Conversations.* What a provider is sent is computed from the client's history
  and extended in place, so `CInv` speaks of both, and of the response at hand.
  In each conversation calls are followed by their results and results are linked
  back to their calls (`Whole`, a local condition, so that it is kept when two
  whole conversations are put together, `WholeJoined`); the client's
  has no reasoning, but the cache and its file know of every call in it either its
  own or nothing, and nothing in memory only where it was lost (`Client`, by
  `Recalled`), and nothing yet of ids not given out, which is why a new call cannot
  be echoed old reasoning; the request's has each turn's own or, where the client
  repeats it and the cache had lost it, the placeholder (`Working`). What is due
  (`Due`) only grows with `lost` and with what is handed over, so a loss does not
  unsettle a request at work. `Identified`, that
  an id is the call's number or nothing and the number decides the tool, is what
  lets the conversion to Gemini name a result by its id. Each conversion is shown to
  keep whole turns whole, or, from an Anthropic client, to leave no tool turn at all.
- *Streams.* `Effect` reduces the steps of the OpenAI and Gemini consumers to
  three: emit text and read on, fail before content, end. The Anthropic
  consumer is shown to keep types only. The invariant says that while such a
  stream is read its deltas are text only and there are some exactly if
  `delivered`, and that only the last delta is ever final. On top of it, what the
  OpenAI writer has written so far are the chunks of the deltas replayed so far,
  or a beginning of them once the client is gone, with the role in the first.
- *The Anthropic message.* `BlocksInSequence` compares every event with all others;
  `Fits` says it of one event and those before it, so that whatever is a beginning
  of a sequence in order is in order, which settles a client that leaves in the
  middle of a write. `At` is where a sequence stands: which block is open, which is
  next, how many tool blocks there were and whether it is over. Each fragment the
  writer composes (start, text, tail with its tool blocks) takes one `At` to
  another, and `Message` says that the writer's variables are the `At` of what it
  has written. That every call arrives (`NoCallIsLost`) joins three facts: the
  consumer lists all it collected in its last delta and none before (`AllListed`),
  the writer turns the last delta's calls into as many blocks (`Replayed`) or
  into its chunk's (`ChunksListThem`), and a complete replay is one of all deltas
  (`OneWriter`).

Induction over data needs an operator for its hypothesis and is out of the
prover's reach. Where a recursive function has a closed form, there is a way around
it: the closed form satisfies the function's equation, so that one does, and a least
input on which the two differ does not exist, least elements coming from the
well-foundedness of `<` (`SmallestOf`). So it is done for the messages a conversion
keeps (`OnlyAll`), for the tool blocks of a message's tail, which are a flattened
sequence, and for the sum over chunks (`SumOfOne`).

Every safety property that a passing run checks is stated by a theorem. Only
model-checked is liveness, since the prover does not reach it under fairness:
`BenchedComesBack`, `StartupEnds`, `EveryRequestEnds`, and the
liveness part of `KeepsPromise`.

## Seen while modelling

Without a run of their own:

- `maxReasoningEntries` "caps total cached entries" (`chat_completions.go:315`),
  but a single session's own entry is never trimmed, so the cap can be passed;
  `OverflowIsOneSession` is what does hold.
- A failed tool loop leaves its tool rounds in the request, and the next
  candidate is called with them (`complete_common.go:27`). `WorkIsPassedOn` and
  `ToolTurnsAreWhole` say that what it is called with makes sense. One thing is
  missing: rounds of a provider that gave no reasoning carry none
  (`chat_completions.go:418`), nor the placeholder that turns from a client get, so
  a next candidate in thinking mode may reject them.
- The text that comes with a server tool call is dropped from the conversation
  of the tool loop (`chat_completions.go:418`).
- When the tool loop's cap is reached, the client is handed calls of tools that
  only the server can run (`chat_completions.go:408`).
- Pending tool calls flushed by `[DONE]` carry the finish reason `stop`, not
  `tool_calls` (`openai.go:486`).
- Tool calls in OpenAI stream chunks carry no `index` (`sse.go:48`).
- When all candidates are down, `message_stop` is written without a
  `message_start` (`anthropic_stream.go:231`).
- `tool_use` and `tool_result` blocks of an Anthropic client are dropped
  (`anthropic_messages.go:105`), so its tool turns reach no provider; roles that
  the Anthropic adapter does not know, `developer` among them, are dropped as
  well (`anthropic.go:338`).
- A request of an MCP server's own under the id of a call in flight is taken for
  the answer, and the call fails (`jsonrpc.go:92`). A plain JSON answer is taken
  for the answer whatever its id (`sse_common.go:33`); the model tells this apart
  as `uncorrelated`.
- `isError` of an MCP result does not reach the model that called the tool
  (`app.go:115`).
- A line of an MCP stream may have 64 KB, the scanner's default
  (`jsonrpc.go:81`); the adapters allow 1 MB.
- `isGemini3Model` accepts any name with a 3 in it (`gemini.go:271`).

## Not modelled

- The HTTP handler, the middleware and the parsing of requests: stateless, each
  request by itself. What the recovery middleware does with the panic of a tool
  is in `Router`, `ToolLoop` and `Lifecycle`.
- Configuration: a validator that runs once, before anything else. What it
  guarantees (known strategies and providers), and `routing.NewRegistry` with it
  (at least one candidate per model), are assumptions on constants.
- Of the adapters: options, `max_tokens`, the thinking parameters, usage,
  arguments, tool schemas and texts, that is, functions of one request or one
  response with no state and no order of events to go wrong. This is what
  `PROJECT.json` calls partly modelled.
- The bodies of the two built-in tools, `GET /v1/tools` and `GET /v1/models`, the
  resolution of an MCP endpoint's URL: likewise.
