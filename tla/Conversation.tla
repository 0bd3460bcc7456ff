---------------------------- MODULE Conversation ----------------------------
(***************************************************************************)
(* internal/chat messages and their conversions: from a client's wire      *)
(* (internal/api) and to a provider's (internal/adapter).                  *)
(*                                                                         *)
(* A tool call is [n, name, id, thought]: the n-th call any model made, of *)
(* the named tool.  id is its ID, n itself or NoID.  thought is the        *)
(* reasoning it came with, NoReasoning or a number.  A message has a role, *)
(* the calls of an assistant, the ToolCallID a tool result carries and the *)
(* reasoning beside it; `answers' is the call whose result it is, which    *)
(* the program does not see.  Texts are left out; an assistant's text next *)
(* to its calls is one of them.                                            *)
(***************************************************************************)
EXTENDS Integers, Sequences

NoID == 0
NoCall == 0
NoReasoning == 0
Placeholder == -1      \* reasoningPlaceholder

ToolMessage(tc) ==
    [role |-> "tool", calls |-> <<>>, toolCallID |-> tc.id, answers |-> tc.n,
     reasoning |-> NoReasoning]
AssistantMessage(calls, reasoning) ==
    [role |-> "assistant", calls |-> calls, toolCallID |-> NoID, answers |-> NoCall,
     reasoning |-> reasoning]
Text(role) ==
    [role |-> role, calls |-> <<>>, toolCallID |-> NoID, answers |-> NoCall,
     reasoning |-> NoReasoning]

-----------------------------------------------------------------------------
\* What a model's answer becomes.  Only the OpenAI adapter reports reasoning, and
\* the Gemini adapter drops the ID of a function call.  The calls are numbered on
\* from `minted'.
Response(kind, names, minted, thinks) ==
    LET thought == IF thinks /\ kind = "openai" THEN minted + 1 ELSE NoReasoning
    IN  [reasoning |-> thought,
         calls |-> [k \in DOMAIN names |->
                       [n |-> minted + k, name |-> names[k],
                        id |-> IF kind = "gemini" THEN NoID ELSE minted + k,
                        thought |-> thought]]]

\* rememberReasoning: under the ID of every call that has one.
Remembering(remembered, resp) ==
    [id \in DOMAIN remembered |->
        IF resp.reasoning # NoReasoning /\ \E k \in DOMAIN resp.calls : resp.calls[k].id = id
        THEN resp.reasoning ELSE remembered[id]]

-----------------------------------------------------------------------------
\* fillReasoningEcho: what the cache holds for the first call, or the placeholder.
Echo(m, remembered) ==
    IF m.role # "assistant" \/ m.calls = <<>> \/ m.reasoning # NoReasoning THEN m
    ELSE LET id == m.calls[1].id
         IN  [m EXCEPT !.reasoning =
                IF id \in DOMAIN remembered /\ remembered[id] # NoReasoning
                THEN remembered[id] ELSE Placeholder]

\* The messages at these positions, in order: SelectSeq as a function of the
\* positions, whose definition the provers can expand.
Only(messages, positions) ==
    LET upto[k \in 0 .. Len(messages)] ==
            IF k = 0 THEN <<>>
            ELSE IF k \in positions THEN Append(upto[k - 1], messages[k])
            ELSE upto[k - 1]
    IN  upto[Len(messages)]

\* buildChatMessages: system messages are promoted, the others kept, with their
\* calls, tool_call_id and reasoning.
FromOpenAI(messages, remembered) ==
    LET kept == Only(messages, {k \in DOMAIN messages : messages[k].role # "system"})
    IN  [k \in DOMAIN kept |-> Echo(kept[k], remembered)]

\* parseAnthropicMessageRequest: only role and text; a tool_result is in a
\* message of the user.
FromAnthropic(messages) ==
    [k \in DOMAIN messages |->
        Text(IF messages[k].role = "tool" THEN "user" ELSE messages[k].role)]

FromClient(wire, messages, remembered) ==
    IF wire = "openai" THEN FromOpenAI(messages, remembered) ELSE FromAnthropic(messages)

-----------------------------------------------------------------------------
\* A message on a provider's wire: whose it is, the calls it repeats, the result it
\* holds with the ID and tool it names, and the reasoning.
Wire(role, m, name, reasoning) ==
    [role |-> role, calls |-> m.calls, toolCallID |-> m.toolCallID, answers |-> m.answers,
     tool |-> name, reasoning |-> reasoning]

NoName == "none"

\* openAIMessages: one to one.
ToOpenAI(messages) ==
    [k \in DOMAIN messages |->
        Wire(messages[k].role, messages[k], NoName, messages[k].reasoning)]

\* Fault: the case for tool results is missing.
AnthropicRoleWithoutTools(role) ==
    IF role \in {"user", "assistant"} THEN role ELSE ""

\* anthropicRole: tool results are sent as the user's; "" has no place in messages.
AnthropicRole(role) ==
    IF role \in {"user", "assistant"} THEN role ELSE IF role = "tool" THEN "user" ELSE ""

\* anthropicMessages: roles it does not accept are skipped, reasoning left out.
ToAnthropic(messages) ==
    LET kept == Only(messages, {k \in DOMAIN messages : AnthropicRole(messages[k].role) # ""})
    IN  [k \in DOMAIN kept |->
            Wire(AnthropicRole(kept[k].role), kept[k], NoName, NoReasoning)]

First(S) == CHOOSE k \in S : \A l \in S : k <= l

\* toolNameFor: the name of the first call with the result's ID, if it has one.
ToolNameFor(m, messages) ==
    LET Matching(k) == {j \in DOMAIN messages[k].calls : messages[k].calls[j].id = m.toolCallID}
        callers == {k \in DOMAIN messages : Matching(k) # {}}
    IN  IF m.role # "tool" THEN NoName
        ELSE IF m.toolCallID = NoID \/ callers = {} THEN "functionCallResponse"
        ELSE messages[First(callers)].calls[First(Matching(First(callers)))].name

\* buildGeminiRequest: model and user only, a result named by its tool.
ToGemini(messages) ==
    [k \in DOMAIN messages |->
        Wire(IF messages[k].role = "assistant" THEN "model" ELSE "user", messages[k],
             ToolNameFor(messages[k], messages), NoReasoning)]

ToProvider(kind, messages) ==
    CASE kind = "openai" -> ToOpenAI(messages)
      [] kind = "anthropic" -> ToAnthropic(messages)
      [] kind = "gemini" -> ToGemini(messages)
=============================================================================
