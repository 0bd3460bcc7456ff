-------------------------- MODULE AnthropicWriter --------------------------
(***************************************************************************)
(* internal/api: anthropicSSEWriter, which turns deltas into the events of *)
(* an Anthropic message stream and numbers its content blocks.             *)
(***************************************************************************)
EXTENDS ClientStream

VARIABLES
    started,   \* a.started
    textOpen,  \* a.textOpen
    index      \* a.index

blockVars == <<started, textOpen, index>>

\* An event and the block it is about, -1 for none.
Event(name) == [event |-> name, block |-> -1]
OfBlock(name, i) == [event |-> name, block |-> i]

WriterInit ==
    /\ started = FALSE
    /\ textOpen = FALSE
    /\ index = 0

MessageStart == IF started THEN <<>> ELSE <<Event("message_start")>>

\* Text goes into the open block, or into a new one.
TextDelta(open) ==
    (IF open THEN <<>> ELSE <<OfBlock("text_start", index)>>)
        \o <<OfBlock("text_delta", index)>>

\* n tool_use blocks, numbered from i: start, one delta, stop.
ToolUseBlocks(i, n) ==
    FlattenSeq([k \in 1 .. n |-> <<OfBlock("tool_start", i + k - 1),
                                    OfBlock("tool_delta", i + k - 1),
                                    OfBlock("block_stop", i + k - 1)>>])

\* The rest of a message: close the text block, tool_use blocks, the end.
MessageTail(open, n) ==
    (IF open THEN <<OfBlock("block_stop", index)>> ELSE <<>>)
        \o ToolUseBlocks(IF open THEN index + 1 ELSE index, n)
        \o <<Event("message_delta"), Event("message_stop")>>

\* Fault: a text block left open is not closed.
EmitDeltaUnclosed(text, final, n) ==
    LET open == textOpen \/ text
    IN  /\ started' = TRUE
        /\ textOpen' = (open /\ ~final)
        /\ index' = IF final THEN index + n + (IF open THEN 1 ELSE 0) ELSE index
        /\ Written(MessageStart
                     \o (IF text THEN TextDelta(textOpen) ELSE <<>>)
                     \o (IF final THEN MessageTail(FALSE, n) ELSE <<>>))

\* Fault: tool_use blocks do not advance the index.
EmitDeltaStaleIndex(text, final, n) ==
    LET open == textOpen \/ text
    IN  /\ started' = TRUE
        /\ textOpen' = (open /\ ~final)
        /\ index' = IF final /\ open THEN index + 1 ELSE index
        /\ Written(MessageStart
                     \o (IF text THEN TextDelta(textOpen) ELSE <<>>)
                     \o (IF final THEN MessageTail(open, n) ELSE <<>>))

\* emitDelta: text or none, the end of the message or not, n tool calls.
EmitDelta(text, final, n) ==
    LET open == textOpen \/ text
    IN  /\ started' = TRUE
        /\ textOpen' = (open /\ ~final)
        /\ index' = IF final THEN index + n + (IF open THEN 1 ELSE 0) ELSE index
        /\ Written(MessageStart
                     \o (IF text THEN TextDelta(textOpen) ELSE <<>>)
                     \o (IF final THEN MessageTail(open, n) ELSE <<>>))

\* writeResponseBurst: a whole message at once.
WriteResponseBurst(text, n) ==
    /\ started' = TRUE
    /\ textOpen' = FALSE
    /\ index' = index + n + (IF text THEN 1 ELSE 0)
    /\ Written(MessageStart
                 \o (IF text THEN TextDelta(FALSE) ELSE <<>>)
                 \o MessageTail(text, n))

\* errorEvent and messageStop, their write errors ignored.
WriteError ==
    /\ Written(<<Event("error"), Event("message_stop")>>)
    /\ UNCHANGED blockVars
=============================================================================
