------------------------------- MODULE Router -------------------------------
(***************************************************************************)
(* internal/api: chat completions and Anthropic messages, streaming and    *)
(* not, served concurrently over the selector of one virtual model.        *)
(*                                                                         *)
(* A handler is a loop over the snapshot Begin gave it; the candidate it   *)
(* is trying is the first left in that snapshot.  Each action is the       *)
(* return of one upstream call with all the handler does before its next   *)
(* upstream call: classify, retry, record, fail over, answer.  What may    *)
(* come in between is a server tool that panics.  Only the selector is     *)
(* shared, through methods that hold its lock.                             *)
(*                                                                         *)
(* What an upstream call may return is Results below: a failure of one of  *)
(* the kinds chat.IsRateLimit and chat.IsRetryable tell apart, a           *)
(* completion whose tool calls are all server-owned ("tools") or any other *)
(* completion ("text").  A stream may also end having delivered nothing    *)
(* ("empty"), with an error chunk ("errored"), or with an error returned   *)
(* after content was delivered ("aborted"), which the Anthropic adapter    *)
(* does (see StreamServing).  Once the client is gone calls fail as        *)
(* transport errors, or break if they are streams already delivering.      *)
(* Providers are always found: configuration validation rejects a          *)
(* candidate of an unknown provider.                                       *)
(***************************************************************************)
EXTENDS Integers, FiniteSets

CONSTANTS Request, Candidate, N, CandidateAt, Strategy, Cooldown,
          Kinds,                   \* per request: what its client may ask for
          MaxAttempts,             \* maxAttempts
          MaxServerToolIterations  \* maxServerToolIterations

Kind == [wire : {"openai", "anthropic"}, stream : BOOLEAN]

\* The first three as in Selector.
ASSUME RouterAssumption ==
    /\ N \in Nat \ {0} /\ CandidateAt \in [0 .. N - 1 -> Candidate]
    /\ Strategy \in {"failover", "round_robin"}
    /\ Cooldown \in Nat
    /\ Kinds \in [Request -> SUBSET Kind]
    /\ MaxAttempts \in Nat \ {0}
    /\ MaxServerToolIterations \in Nat \ {0}
    /\ IsFiniteSet(Request)

VARIABLES
    cursor, cooldowns, start, offered, left,  \* the selector, and snapshots
    kind,       \* per request: the endpoint, and streaming or not
    pc,         \* idle, in an upstream call, or in the tool loop
    attempt,    \* which try of the current candidate
    round,      \* completed iterations of the tool loop
    cancelled,  \* the client has gone away
    last,       \* what the last upstream call returned
    answer      \* what the client has got

selectorVars == <<cursor, cooldowns, start, offered, left>>
loopVars == <<kind, pc, attempt, round, cancelled, last, answer>>
vars == <<selectorVars, loopVars>>

Selector == INSTANCE Selector

Failure == {"rate", "permanent", "transient"}
Completion == {"text", "tools"}
StreamEnd == {"empty", "errored", "aborted"}
Results == Failure \cup Completion \cup StreamEnd
Answers == {"none", "content", "servertools", "empty",
            "truncated", "broken", "recovered", "failed"}

TypeOK ==
    /\ Selector!TypeOK
    /\ kind \in [Request -> Kind]
    /\ pc \in [Request -> {"idle", "call", "tools"}]
    /\ attempt \in [Request -> 1 .. MaxAttempts]
    /\ round \in [Request -> 0 .. MaxServerToolIterations]
    /\ cancelled \in [Request -> BOOLEAN]
    /\ last \in [Request -> Results \cup {"none"}]
    /\ answer \in [Request -> Answers]

-----------------------------------------------------------------------------
Init ==
    /\ Selector!Init
    /\ kind \in {k \in [Request -> Kind] : \A r \in Request : k[r] \in Kinds[r]}
    /\ pc = [r \in Request |-> "idle"]
    /\ attempt = [r \in Request |-> 1]
    /\ round = [r \in Request |-> 0]
    /\ cancelled = [r \in Request |-> FALSE]
    /\ last = [r \in Request |-> "none"]
    /\ answer = [r \in Request |-> "none"]

\* A validated request reaches the failover loop.
Arrive(r) ==
    /\ pc[r] = "idle"
    /\ Selector!Begin(r)
    /\ last' = [last EXCEPT ![r] = "none"]
    /\ IF offered'[r] = {}
          THEN pc' = pc /\ answer' = [answer EXCEPT ![r] = "failed"]
          ELSE /\ pc' = [pc EXCEPT ![r] = "call"]
               /\ answer' = [answer EXCEPT ![r] = "none"]
    /\ UNCHANGED <<kind, attempt, round, cancelled>>

\* The upstream call in progress returns res.
Returns(r, res) ==
    /\ cancelled[r] => res \in {"transient", "errored", "aborted"}
    /\ last' = [last EXCEPT ![r] = res]
    /\ UNCHANGED kind

\* Write the answer and end the request; its local state goes with it.
Serve(r, what) ==
    /\ pc' = [pc EXCEPT ![r] = "idle"]
    /\ answer' = [answer EXCEPT ![r] = what]
    /\ attempt' = [attempt EXCEPT ![r] = 1]
    /\ round' = [round EXCEPT ![r] = 0]
    /\ cancelled' = [cancelled EXCEPT ![r] = FALSE]

\* Go on to the next candidate, or tell the client that none is left.
FailOver(r) ==
    \/ left'[r] = {} /\ Serve(r, "failed")
    \/ /\ left'[r] # {}
       /\ pc' = [pc EXCEPT ![r] = "call"]
       /\ attempt' = [attempt EXCEPT ![r] = 1]
       /\ round' = [round EXCEPT ![r] = 0]
       /\ UNCHANGED <<cancelled, answer>>

\* Start the tool loop on the current response.
EnterToolLoop(r) ==
    /\ pc' = [pc EXCEPT ![r] = "tools"]
    /\ round' = [round EXCEPT ![r] = 0]
    /\ UNCHANGED <<attempt, cancelled, answer>>

Calling(r, wire) == pc[r] = "call" /\ kind[r].wire = wire

-----------------------------------------------------------------------------
\* Fault: a 429 benches the candidate but does not leave it.
RateLimitedStays(r) ==
    /\ Calling(r, "openai") /\ attempt[r] = 1
    /\ Returns(r, "rate")
    /\ \E i \in left[r] : Selector!IsCurrent(i, r) /\ Selector!Bench(CandidateAt[i])
    /\ attempt' = [attempt EXCEPT ![r] = @ + 1]
    /\ UNCHANGED <<start, offered, left, pc, round, cancelled, answer>>

\* OpenAI endpoint, upstream call failed before delivering anything.  Only the
\* first failure of a candidate is classified; the retry loop repeats the call
\* on any error.
RateLimited(r) ==
    /\ Calling(r, "openai") /\ attempt[r] = 1
    /\ Returns(r, "rate")
    /\ Selector!RecordFailure(r)
    /\ FailOver(r)

PermanentFailure(r) ==
    /\ Calling(r, "openai") /\ attempt[r] = 1
    /\ Returns(r, "permanent")
    /\ Selector!Skip(r)
    /\ FailOver(r)

RetriableFailure(r) ==
    \E res \in Failure : (attempt[r] = 1 => res = "transient") /\ Returns(r, res)

\* Fault: no bound on retries.
RetryForever(r) ==
    /\ Calling(r, "openai")
    /\ RetriableFailure(r)
    /\ attempt' = [attempt EXCEPT ![r] = @ + 1]
    /\ UNCHANGED <<selectorVars, pc, round, cancelled, answer>>

\* Fault: tries are not counted.
RetryUncounted(r) ==
    /\ Calling(r, "openai") /\ attempt[r] < MaxAttempts
    /\ RetriableFailure(r)
    /\ UNCHANGED <<selectorVars, pc, attempt, round, cancelled, answer>>

Retry(r) ==
    /\ Calling(r, "openai") /\ attempt[r] < MaxAttempts
    /\ RetriableFailure(r)
    /\ attempt' = [attempt EXCEPT ![r] = @ + 1]
    /\ UNCHANGED <<selectorVars, pc, round, cancelled, answer>>

\* Fault: a candidate whose retries ran out is benched.
RetriesExhaustedBench(r) ==
    /\ Calling(r, "openai") /\ attempt[r] = MaxAttempts
    /\ RetriableFailure(r)
    /\ Selector!RecordFailure(r)
    /\ FailOver(r)

RetriesExhausted(r) ==
    /\ Calling(r, "openai") /\ attempt[r] = MaxAttempts
    /\ RetriableFailure(r)
    /\ Selector!Skip(r)
    /\ FailOver(r)

\* Anthropic endpoint: no failure is classified or retried, every one benches.
AnthropicFailure(r) ==
    /\ Calling(r, "anthropic")
    /\ \E res \in Failure : Returns(r, res)
    /\ Selector!RecordFailure(r)
    /\ FailOver(r)

\* A completion, not streaming.
Completed(r) ==
    /\ pc[r] = "call" /\ ~kind[r].stream
    /\ Returns(r, "text")
    /\ Selector!RecordSuccess(r)
    /\ Serve(r, "content")

CompletedWithTools(r) ==
    /\ pc[r] = "call" /\ ~kind[r].stream
    /\ Returns(r, "tools")
    /\ EnterToolLoop(r)
    /\ UNCHANGED selectorVars

\* A captured stream, delivered or empty: its outcome is recorded, then it is
\* replayed to the client, or its server tools are run.
StreamDelivered(r) ==
    /\ pc[r] = "call" /\ kind[r].stream
    /\ \/ Returns(r, "text") /\ Serve(r, "content")
       \/ Returns(r, "empty") /\ Serve(r, "empty")
       \/ Returns(r, "aborted") /\ Serve(r, "truncated")
       \/ Returns(r, "tools") /\ EnterToolLoop(r)
    /\ Selector!RecordSuccess(r)

StreamErrored(r) ==
    /\ pc[r] = "call" /\ kind[r].stream
    /\ Returns(r, "errored")
    /\ IF kind[r].wire = "anthropic"
          THEN Selector!RecordFinalFailure(r)
          ELSE Selector!Abandon(r)
    /\ Serve(r, "broken")

-----------------------------------------------------------------------------
\* One iteration of executeServerTools: run the calls, extend the conversation
\* and complete it on the same provider.  A streaming request has already
\* recorded its success, so its failure here is only reported to the client.
ToolLoopContinues(r) ==
    /\ pc[r] = "tools" /\ round[r] + 1 < MaxServerToolIterations
    /\ Returns(r, "tools")
    /\ round' = [round EXCEPT ![r] = @ + 1]
    /\ UNCHANGED <<selectorVars, pc, attempt, cancelled, answer>>

ToolLoopEnds(r) ==
    /\ pc[r] = "tools"
    /\ \/ Returns(r, "text") /\ Serve(r, "content")
       \/ /\ round[r] + 1 = MaxServerToolIterations
          /\ Returns(r, "tools") /\ Serve(r, "servertools")
    /\ IF kind[r].stream
          THEN UNCHANGED selectorVars
          ELSE Selector!RecordSuccess(r)

\* Fault: a stream already accepted fails over too.
ToolLoopAlwaysFailsOver(r) ==
    /\ pc[r] = "tools"
    /\ \E res \in Failure : Returns(r, res)
    /\ IF kind[r].stream THEN UNCHANGED selectorVars ELSE Selector!RecordFailure(r)
    /\ FailOver(r)

ToolLoopFails(r) ==
    /\ pc[r] = "tools"
    /\ \E res \in Failure : Returns(r, res)
    /\ IF kind[r].stream
          THEN Serve(r, "broken") /\ UNCHANGED selectorVars
          ELSE Selector!RecordFailure(r) /\ FailOver(r)

\* A tool panics: CallTool reads the nil answer that a 202 makes.  Nothing between
\* it and the recovery middleware stops it, so the candidates left are not tried
\* and nothing is reported; the client gets a 500, or its text in a stream.
ToolPanics(r) ==
    /\ pc[r] = "tools"
    /\ IF kind[r].stream THEN UNCHANGED selectorVars ELSE Selector!Abandon(r)
    /\ Serve(r, "recovered")
    /\ UNCHANGED <<kind, last>>

-----------------------------------------------------------------------------
\* The client disconnects: the request's context is cancelled.
Cancel(r) ==
    /\ pc[r] # "idle" /\ ~cancelled[r]
    /\ cancelled' = [cancelled EXCEPT ![r] = TRUE]
    /\ UNCHANGED <<selectorVars, kind, pc, attempt, round, last, answer>>

Tick == Selector!Tick /\ UNCHANGED loopVars

Failed(r) ==
    \/ RateLimited(r)
    \/ PermanentFailure(r)
    \/ Retry(r)
    \/ RetriesExhausted(r)
    \/ AnthropicFailure(r)

Succeeded(r) ==
    \/ Completed(r)
    \/ CompletedWithTools(r)
    \/ StreamDelivered(r)
    \/ StreamErrored(r)

ToolLoop(r) ==
    ToolLoopContinues(r) \/ ToolLoopEnds(r) \/ ToolLoopFails(r) \/ ToolPanics(r)

CallReturns(r) == Failed(r) \/ Succeeded(r) \/ ToolLoop(r)

Next == Tick \/ \E r \in Request : Arrive(r) \/ CallReturns(r) \/ Cancel(r)

\* Every upstream call returns: the adapters give each its own deadline.
\* Clients need not come, or leave.
Spec == Init /\ [][Next]_vars /\ \A r \in Request : WF_vars(CallReturns(r))

-----------------------------------------------------------------------------
\* What the client can tell of a request.
Status(r) ==
    CASE pc[r] = "call" -> "trying"
      [] pc[r] = "tools" -> IF kind[r].stream THEN "committed" ELSE "working"
      [] OTHER -> IF answer[r] \in {"none", "failed"} THEN answer[r]
                  ELSE IF answer[r] = "recovered" THEN "brokenoff" ELSE "answered"

Promise == INSTANCE RouterPromise WITH
    Offer <- Selector!Index,
    status <- [r \in Request |-> Status(r)],
    open <- left

\* All four endpoint variants keep the promise of RouterPromise, liveness
\* included: a request is reported as failed only after every candidate it was
\* offered has failed it, it is broken off with candidates left only while a
\* server tool runs for one that answered, a stream that delivered is final, and
\* every request comes to one of these ends (chat_completions.go:413, 568-597,
\* anthropic_messages.go:210-238, middleware.go:46-62).
KeepsPromise == Promise!Spec

\* The handlers use the selector by its protocol: one Begin per request, then
\* one report or none for each candidate in snapshot order, none after success.
UsesSelector == Selector!Init /\ [][Selector!Next]_selectorVars

\* An upper bound on the upstream calls request r may still make.
CallsPerCandidate == MaxAttempts + MaxServerToolIterations

CallsLeft(r) ==
    CASE pc[r] = "call" ->
            Cardinality(left[r]) * CallsPerCandidate - (attempt[r] - 1)
      [] pc[r] = "tools" ->
            (IF kind[r].stream THEN 0 ELSE Cardinality(left[r]) - 1) * CallsPerCandidate
                + MaxServerToolIterations - round[r]
      [] OTHER -> 0

\* Retries, tool iterations and failover together stay within a budget of
\* maxAttempts + maxServerToolIterations calls per candidate offered: every
\* call that returns brings the request nearer to its end, so no combination
\* of failures makes one client request hammer the providers
\* (chat_completions.go:273, 278, 465-512).
EveryCallCountsDown ==
    [][\A r \in Request : CallReturns(r) => 0 <= CallsLeft(r)' /\ CallsLeft(r)' < CallsLeft(r)]_vars

\* A candidate is benched by the return of a call of request r.
BenchedBy(r) ==
    CallReturns(r) /\ \E c \in Candidate : cooldowns'[c] > cooldowns[c]

\* On the OpenAI endpoint, transient and permanent failures, cancelled clients
\* and broken streams never bench a candidate: a 429, or a failure inside the
\* tool loop, does (chat_completions.go:475-502, complete_common.go:28-32).
TransientFailuresNeverBench ==
    [][\A r \in Request :
        BenchedBy(r) /\ kind[r].wire = "openai" => last'[r] = "rate" \/ pc[r] = "tools"]_vars

\* The cooldown "applies only to HTTP 429 (rate limit) responses" (README.md:124),
\* and a 429 "goes straight to cooldown + failover" (chat_completions.go:276-277).
CooldownExactlyForRateLimit ==
    [][\A r \in Request : CallReturns(r) => (BenchedBy(r) <=> last'[r] = "rate")]_vars
=============================================================================
