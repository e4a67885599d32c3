----------------------------- MODULE ChatStream -----------------------------
(***************************************************************************)
(* One streamed answer of an OpenAI-compatible provider, translated into   *)
(* Anthropic events (providers/openai_compat.py with the SSE builder, the  *)
(* holdback buffer and the recovery of core/anthropic).                    *)
(*                                                                         *)
(* The parts of a chunk (reasoning, text, calls) are handled one after the *)
(* other with nothing in between: a chunk with several of them is here one *)
(* chunk for each.  Texts are never blank.  The arguments of a call are    *)
(* "none", "part" of a JSON object or "whole" and valid for its schema.    *)
(* Opening a stream stands for all that the limiter does for it (see       *)
(* ProviderLimiter).                                                       *)
(***************************************************************************)
EXTENDS Downstream

CONSTANTS
    Tools,         \* indexes of native tool calls
    Buffered,      \* those of Task or of a tool with aliased arguments
    MaxRetries,    \* EARLY_TRANSPARENT_MAX_RETRIES
    MaxChunks      \* bound: chunks of one attempt

ASSUME BufferedAssumption == Buffered \subseteq Tools
ASSUME BoundAssumption == MaxRetries \in Nat /\ MaxChunks \in Nat

VARIABLES
    thinking_enabled,
    early_retries,
    chunks,          \* chunks read in this attempt
    sse,             \* the builder
    kept,            \* what think_parser holds back between two chunks
    calling,         \* heuristic_parser is inside a tool call
    finish_reason    \* whether one was seen

readVars == <<chunks, kept, calling, finish_reason>>
vars == <<thinking_enabled, pc, early_retries, sse, readVars, holdVars, clientVars, salvaged>>

-----------------------------------------------------------------------------
(* SSEBuilder.  An operator takes a builder to the one after it; the events *)
(* it makes are added to those of the step.                                *)

NewTool == [named |-> FALSE, index |-> -1, sent |-> "none", waiting |-> "none"]

\* Every attempt has a builder.  The error of a message of which nothing was
\* shown has one too, here that of attempt -1.
NewBuilder(attempt) ==
    [next_index |-> 0, text_index |-> -1, thinking_index |-> -1,
     text_started |-> FALSE, thinking_started |-> FALSE,
     tools |-> [t \in Tools |-> NewTool], attempt |-> attempt, events |-> <<>>]

\* _format_event
Emit(b, name, i, kind, args) ==
    [b EXCEPT !.events = Append(@, Event(name, i, kind, args, b.attempt))]
EmitPlain(b, name) == Emit(b, name, -1, "none", "none")
Delta(b, i, kind) == Emit(b, "content_block_delta", i, kind, "none")
StopBlock(b, i, kind) == Emit(b, "content_block_stop", i, kind, "none")

\* allocate_index and content_block_start.
StartBlock(b, kind) ==
    [Emit(b, "content_block_start", b.next_index, kind, "none") EXCEPT !.next_index = @ + 1]

StopText(b) ==
    IF b.text_started
    THEN [StopBlock(b, b.text_index, "text") EXCEPT !.text_started = FALSE] ELSE b
StopThinking(b) ==
    IF b.thinking_started
    THEN [StopBlock(b, b.thinking_index, "thinking") EXCEPT !.thinking_started = FALSE] ELSE b

\* ensure_text_block, ensure_thinking_block
EnsureText(b) ==
    LET c == StopThinking(b)
    IN  IF c.text_started THEN c
        ELSE [StartBlock(c, "text") EXCEPT !.text_index = c.next_index, !.text_started = TRUE]
EnsureThinking(b) ==
    LET c == StopText(b)
    IN  IF c.thinking_started THEN c
        ELSE [StartBlock(c, "thinking") EXCEPT !.thinking_index = c.next_index,
                                               !.thinking_started = TRUE]

EmitText(b) == LET c == EnsureText(b) IN Delta(c, c.text_index, "text")
EmitThinking(b) == LET c == EnsureThinking(b) IN Delta(c, c.thinking_index, "thinking")

CloseContentBlocks(b) == StopText(StopThinking(b))

\* The native calls whose block was started.
Started(b) == {t \in Tools : b.tools[t].index >= 0}

StartTool(b, t) ==
    [StartBlock(b, "tool_use") EXCEPT !.tools[t].index = b.next_index]

\* An event for the block of each call in T, one after the other.
EmitEach(b, T, name, args) ==
    LET order == SetToSeq(T)
    IN  [b EXCEPT !.events = @ \o
            [k \in DOMAIN order |->
                Event(name, b.tools[order[k]].index, "tool_use", args, b.attempt)]]
EmitToolDeltas(b, T, args) ==
    [EmitEach(b, T, "content_block_delta", args) EXCEPT
        !.tools = [t \in Tools |->
                      IF t \in T THEN [b.tools[t] EXCEPT !.sent = args, !.waiting = "none"]
                      ELSE b.tools[t]]]
EmitToolDelta(b, t, args) == EmitToolDeltas(b, {t}, args)

\* mutant: the blocks of native calls are left open.
CloseContentOnly(b) == CloseContentBlocks(b)
CloseAllBlocks(b) ==
    EmitEach(CloseContentBlocks(b), Started(b), "content_block_stop", "none")

\* _iter_heuristic_tool_use_sse: a block of its own with all its arguments.
HeuristicTool(b) ==
    LET c == StartBlock(CloseContentBlocks(b), "tool_use")
        i == c.next_index - 1
    IN  StopBlock(Emit(c, "content_block_delta", i, "tool_use", "whole"), i, "tool_use")

EmitError(b) ==
    LET c == StartBlock(b, "text")
        i == c.next_index - 1
    IN  StopBlock(Delta(c, i, "text"), i, "text")

EndMessage(b) == EmitPlain(EmitPlain(b, "message_delta"), "message_stop")

-----------------------------------------------------------------------------
Init ==
    /\ thinking_enabled \in BOOLEAN
    /\ pc = "opening"
    /\ early_retries = 0
    /\ chunks = 0
    /\ sse = NewBuilder(0)
    /\ kept = "none"
    /\ calling = FALSE
    /\ finish_reason = FALSE
    /\ InitDownstream(<<PlainEvent("message_start", 0)>>)
    /\ salvaged = FALSE

-----------------------------------------------------------------------------
(* The client. *)

Deliver ==
    TakeEvent /\ UNCHANGED <<thinking_enabled, early_retries, sse, readVars, salvaged>>

Disconnect ==
    Disconnects /\ UNCHANGED <<thinking_enabled, early_retries, sse, readVars, salvaged>>

-----------------------------------------------------------------------------
(* A chunk arrives. *)

\* The events of b go into the holdback buffer.
Chunk(b) ==
    /\ At("reading")
    /\ chunks < MaxChunks
    /\ chunks' = chunks + 1
    /\ Hold(b.events)
    /\ sse' = [b EXCEPT !.events = <<>>]
    /\ UNCHANGED <<thinking_enabled, pc, early_retries, clientVars, salvaged>>

\* Thinking is shown to those who want it.
Thought(b) == IF thinking_enabled THEN EmitThinking(b) ELSE b

Reasoning ==
    /\ Chunk(Thought(sse))
    /\ UNCHANGED <<kept, calling, finish_reason>>

\* Text inside think tags; what may be the beginning of a tag is held back.
Think ==
    /\ \/ Chunk(Thought(sse)) /\ kept' \in {"none", "thinking"}
       \/ Chunk(sse) /\ kept' = "thinking"
    /\ UNCHANGED <<calling, finish_reason>>

Text ==
    /\ \/ Chunk(EmitText(sse)) /\ kept' \in {"none", "text"}
       \/ Chunk(sse) /\ kept' = "text"
    /\ UNCHANGED <<calling, finish_reason>>

\* A tool call written as text begins, and is complete.
CallBegins ==
    /\ ~calling
    /\ Chunk(sse)
    /\ calling' = TRUE
    /\ kept' = "none"
    /\ UNCHANGED finish_reason

CallEnds ==
    /\ Chunk(HeuristicTool(sse))
    /\ calling' = FALSE
    /\ kept' = "none"
    /\ UNCHANGED finish_reason

\* _emit_tool_arg_delta: args is what has arrived of the arguments of call t
\* now.  Those of Task and of aliased tools wait until they are whole.
SendArgs(b, t, args) ==
    IF args = "none" THEN b
    ELSE IF t \in Buffered /\ args # "whole" THEN [b EXCEPT !.tools[t].waiting = args]
    ELSE EmitToolDelta(b, t, args)

\* _process_tool_call: a name, or some arguments, or both.  A block cannot be
\* started without a name; arguments wait for it.
ProcessToolCall(b, t, named, args) ==
    LET tool == b.tools[t]
        c == [b EXCEPT !.tools[t].named = @ \/ named]
    IN  IF tool.index >= 0 THEN SendArgs(c, t, args)
        ELSE IF ~c.tools[t].named
             THEN [c EXCEPT !.tools[t].waiting = IF args = "none" THEN @ ELSE args]
             ELSE SendArgs(SendArgs(StartTool(c, t), t, tool.waiting), t, args)

ToolCall(t) ==
    /\ \E named \in BOOLEAN, args \in Args :
        /\ "whole" \in {sse.tools[t].sent, sse.tools[t].waiting} => args = "none"
        /\ Chunk(ProcessToolCall(CloseContentBlocks(sse), t, named, args))
    /\ UNCHANGED <<kept, calling, finish_reason>>

FinishReason ==
    /\ Chunk(sse)
    /\ finish_reason' = TRUE
    /\ UNCHANGED <<kept, calling>>

-----------------------------------------------------------------------------
(* The stream ends, well or not. *)

Opens ==
    /\ At("opening")
    /\ pc' = "reading"
    /\ UNCHANGED <<thinking_enabled, early_retries, sse, readVars, holdVars, clientVars,
                   salvaged>>

\* Everything left goes out and the generator returns.
Return(b) ==
    /\ FlushAndReturn(b.events)
    /\ sse' = [b EXCEPT !.events = <<>>]
    /\ UNCHANGED <<thinking_enabled, early_retries, readVars, clientVars>>

FlushParsers(b) ==
    LET c == CASE kept = "text" -> EmitText(b)
               [] kept = "thinking" -> Thought(b)
               [] OTHER -> b
    IN  IF calling THEN HeuristicTool(c) ELSE c

\* A message with thoughts at most, or with nothing, gets a text.
SomeText(b) ==
    IF Started(b) = {} /\ b.text_index = -1 THEN EmitText(b) ELSE b

\* _flush_tool_argument_alias_buffers and _flush_task_arg_buffers
FlushArgs(b) == EmitToolDeltas(b, {t \in Started(b) : b.tools[t].waiting # "none"}, "part")

Completes ==
    /\ At("reading")
    /\ finish_reason
    /\ Return(EndMessage(CloseAllBlocks(FlushArgs(SomeText(FlushParsers(sse))))))
    /\ UNCHANGED salvaged

\* _has_committed_sse_output; a call written as text does not count.
HasOutput == sse.text_index # -1 \/ sse.thinking_index # -1 \/ Started(sse) # {}

AllToolsComplete ==
    Started(sse) # {} /\ \A t \in Started(sse) : sse.tools[t].sent = "whole"

\* _emit_openai_error_tail.  mutant: the message is left without an end.
ErrorTailOnly ==
    LET b == CloseAllBlocks(IF ~committed /\ held = <<>> THEN NewBuilder(-1) ELSE sse)
    IN  Return(IF Started(b) # {} THEN EmitPlain(b, "error") ELSE EmitError(b))
ErrorTail ==
    LET b == CloseAllBlocks(IF ~committed /\ held = <<>> THEN NewBuilder(-1) ELSE sse)
    IN  Return(EndMessage(IF Started(b) # {} THEN EmitPlain(b, "error") ELSE EmitError(b)))

\* A stream that broke before anything was shown is opened again, unless its
\* tools are complete.  mutant: also one of which something was shown.
MayRetryShown(opened) ==
    opened /\ ~AllToolsComplete /\ early_retries < MaxRetries
MayRetry(opened) ==
    opened /\ ~committed /\ ~AllToolsComplete /\ early_retries < MaxRetries

Retry ==
    /\ Reopens
    /\ early_retries' = early_retries + 1
    /\ sse' = NewBuilder(early_retries + 1)
    /\ chunks' = 0
    /\ kept' = "none"
    /\ calling' = FALSE
    /\ finish_reason' = FALSE
    /\ UNCHANGED <<thinking_enabled, salvaged>>

Recover ==
    Recovers /\ UNCHANGED <<thinking_enabled, early_retries, sse, readVars, salvaged>>

\* The exception handler of the stream loop.
Handle(opened, retryable) ==
    IF retryable /\ MayRetry(opened) THEN Retry
    ELSE IF retryable /\ HasOutput THEN Recover
    ELSE ErrorTail /\ UNCHANGED salvaged

OpenFails ==
    /\ At("opening")
    /\ Handle(FALSE, TRUE) \/ Handle(FALSE, FALSE)

\* The connection breaks, or the provider answers with an error.
Breaks ==
    /\ At("reading")
    /\ Handle(TRUE, TRUE) \/ Handle(TRUE, FALSE)

\* The stream ends without a finish_reason.
Truncated ==
    /\ At("reading")
    /\ ~finish_reason
    /\ Handle(TRUE, TRUE)

-----------------------------------------------------------------------------
(* _openai_recovery_events. *)

\* _repair_openai_tool_args: what is missing of the arguments, asked for and
\* checked.  mutant: only the first call is repaired.
Unrepaired(b) == {t \in Started(b) : b.tools[t].sent # "whole"}
RepairFirst(b) ==
    IF Unrepaired(b) = {} THEN b
    ELSE EmitToolDelta(b, CHOOSE t \in Unrepaired(b) : TRUE, "whole")
RepairTools(b) == EmitToolDeltas(b, Unrepaired(b), "whole")

RecoverTools ==
    /\ At("recovering")
    /\ Started(sse) # {}
    /\ Return(EndMessage(CloseAllBlocks(RepairTools(sse))))
    /\ salvaged' = TRUE

\* The model goes on where it stopped; what it repeats is cut off.
RecoverText ==
    /\ At("recovering")
    /\ Started(sse) = {}
    /\ \E b \in {EmitThinking(sse), EmitText(sse), EmitText(EmitThinking(sse))} :
           Return(EndMessage(CloseAllBlocks(b)))
    /\ UNCHANGED salvaged

\* Nothing usable came, or the recovery failed itself.
RecoveryFails ==
    /\ At("recovering")
    /\ ~AllToolsComplete
    /\ ErrorTail
    /\ UNCHANGED salvaged

-----------------------------------------------------------------------------
Reads == Reasoning \/ Think \/ Text \/ CallBegins \/ CallEnds \/ FinishReason
Ends == Breaks \/ Truncated \/ Completes
Recoveries == RecoverTools \/ RecoverText \/ RecoveryFails

Generator ==
    \/ Opens \/ OpenFails
    \/ Ends
    \/ Reads \/ \E t \in Tools : ToolCall(t)
    \/ Recoveries

Next == Generator \/ Deliver \/ Disconnect

Spec == Init /\ [][Next]_vars

\* A stream brings a chunk, ends or times out, and so does a recovery; the
\* client takes what it is handed, or leaves.
FairSpec == Spec /\ WF_vars(Generator) /\ WF_vars(Deliver)

-----------------------------------------------------------------------------
Builder ==
    [next_index : Nat, text_index : Nat \union {-1}, thinking_index : Nat \union {-1},
     text_started : BOOLEAN, thinking_started : BOOLEAN,
     tools : [Tools -> [named : BOOLEAN, index : Nat \union {-1}, sent : Args, waiting : Args]],
     attempt : -1 .. MaxRetries, events : {<<>>}]

\* Every variable ranges over what its Python counterpart can hold; blocks have
\* indexes that were given out, and one of text and thinking is open at most.
TypeOK ==
    /\ DownstreamOK
    /\ thinking_enabled \in BOOLEAN
    /\ early_retries \in 0 .. MaxRetries
    /\ chunks \in 0 .. MaxChunks
    /\ sse \in Builder
    /\ kept \in {"none", "text", "thinking"}
    /\ {calling, finish_reason, salvaged} \subseteq BOOLEAN
    /\ ~(sse.text_started /\ sse.thinking_started)
    /\ \A t \in Tools : sse.tools[t].index < sse.next_index
    /\ attempts \subseteq 0 .. MaxRetries
=============================================================================
