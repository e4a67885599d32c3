---------------------------- MODULE NativeStream ----------------------------
(***************************************************************************)
(* One streamed answer of a provider that speaks the Anthropic API itself  *)
(* (providers/anthropic_messages.py): its events are renumbered, filtered  *)
(* and freed of overlaps (native_sse_block_policy.py), tracked             *)
(* (emitted_sse_tracker.py), held back and handed out, and a stream that   *)
(* breaks is retried, recovered or ended.                                  *)
(*                                                                         *)
(* The provider's events begin with message_start, and no index is started *)
(* twice.  Else they come as they like: blocks overlap, have no start, no  *)
(* stop or two, and go on after it; message_delta may be missing or early, *)
(* has a stop reason, and comes with blocks open, as message_stop does.    *)
(* The policy repairs what overlaps and passes on the rest.                *)
(*                                                                         *)
(* An event reaches the client whole, although it is handed out line by    *)
(* line: the stream can break between two events only.  Opening a stream   *)
(* stands for all that the limiter does for it (ProviderLimiter).          *)
(***************************************************************************)
EXTENDS Downstream

CONSTANTS
    Indexes,       \* indexes the provider gives its blocks
    MaxRetries,    \* EARLY_TRANSPARENT_MAX_RETRIES
    MaxEvents      \* bound: block events of one attempt

ASSUME EventBoundAssumption == MaxRetries \in Nat /\ MaxEvents \in Nat

VARIABLES
    thinking_enabled,
    early_retries,
    upstream,        \* what the provider has sent of its message
    segment,         \* by_upstream: the block an index goes into, -1 before
    dropped,         \* dropped_indexes: indexes of hidden thinking
    suppressed,      \* pending_suppressed_stops
    blocks,          \* the tracker's blocks, in the order of their indexes
    stop_reason,     \* whether it saw one
    message_stopped

policyVars  == <<upstream, segment, dropped, suppressed>>
trackerVars == <<blocks, stop_reason, message_stopped>>
vars == <<thinking_enabled, early_retries, policyVars, trackerVars, pc, holdVars,
          clientVars, salvaged>>

-----------------------------------------------------------------------------
(* The provider's message: its stage, the number of block events, and for  *)
(* each index it used a kind and the arguments so far.                     *)

NoBlock == [kind |-> "none", args |-> "none"]
NoMessage == [stage |-> "before", count |-> 0, block |-> [i \in Indexes |-> NoBlock]]

\* How the arguments of a tool may go on; text and thoughts have some or none.
MoreArgs(block) ==
    CASE block.kind # "tool_use" -> {"part"}
      [] block.args = "whole"    -> {}
      [] OTHER                   -> {"part", "whole"}

-----------------------------------------------------------------------------
(* EmittedNativeSseTracker.  The index of a block is its place, from 0.    *)

Index(b) == b - 1
ToolBlocks == {b \in DOMAIN blocks : blocks[b].kind = "tool_use"}

NewBlock(kind, named) == [kind |-> kind, open |-> TRUE, args |-> "none", named |-> named]

\* The content of a block after a delta.  Arguments whose first piece went into
\* another block ("rest") are never completed.
Content(block, args, before) ==
    IF block.kind = "tool_use"
       /\ (block.args = "rest" \/ (block.args = "none" /\ before # "none"))
    THEN "rest" ELSE args

\* can_salvage_tool_use
Complete(b) == blocks[b].named /\ blocks[b].args = "whole"
CanSalvage == ToolBlocks # {} /\ \A b \in ToolBlocks : Complete(b)

BlockEvent(name, b, kind, args) == Event(name, Index(b), kind, args, early_retries)
Start(b, kind) == BlockEvent("content_block_start", b, kind, "none")
Delta(b, kind, args) == BlockEvent("content_block_delta", b, kind, args)
Stop(b, kind) == BlockEvent("content_block_stop", b, kind, "none")
Plain(name) == PlainEvent(name, early_retries)

Close(bs, B) ==
    [b \in DOMAIN bs |-> IF b \in B THEN [bs[b] EXCEPT !.open = FALSE] ELSE bs[b]]

\* Blocks in the order of their indexes.
InOrder(B) ==
    CHOOSE s \in SetToSeqs(B) : \A i, j \in DOMAIN s : i < j => s[i] < s[j]

\* iter_close_unclosed_blocks, the youngest first.
OpenOf(bs) == {b \in DOMAIN bs : bs[b].open}
CloseAll(bs) ==
    LET open == Reverse(InOrder(OpenOf(bs)))
    IN  [i \in DOMAIN open |-> Stop(open[i], bs[open[i]].kind)]

-----------------------------------------------------------------------------
Init ==
    /\ thinking_enabled \in BOOLEAN
    /\ early_retries = 0
    /\ upstream = NoMessage
    /\ segment = [i \in Indexes |-> -1]
    /\ dropped = {}
    /\ suppressed = {}
    /\ blocks = <<>>
    /\ stop_reason = FALSE
    /\ message_stopped = FALSE
    /\ salvaged = FALSE
    /\ pc = "opening"
    /\ InitDownstream(<<>>)

Deliver ==
    TakeEvent /\ UNCHANGED <<thinking_enabled, early_retries, policyVars, trackerVars, salvaged>>

Disconnect ==
    Disconnects /\ UNCHANGED <<thinking_enabled, early_retries, policyVars, trackerVars, salvaged>>

-----------------------------------------------------------------------------
(* An event of the provider arrives; events are what is made of it. *)

Arrives(events) ==
    /\ At("reading")
    /\ Hold(events)
    /\ UNCHANGED <<thinking_enabled, early_retries, pc, clientVars, salvaged>>

MessageStart ==
    /\ upstream.stage = "before"
    /\ upstream' = [upstream EXCEPT !.stage = "content"]
    /\ Arrives(<<Plain("message_start")>>)
    /\ UNCHANGED <<segment, dropped, suppressed, trackerVars>>

BlockArrives(i, to, events) ==
    /\ upstream.stage \in {"content", "ending"}
    /\ upstream.count < MaxEvents
    /\ upstream' = [upstream EXCEPT !.count = @ + 1, !.block[i] = to]
    /\ Arrives(events)
    /\ UNCHANGED <<stop_reason, message_stopped>>

\* _should_drop_block_type.  mutant: the switch is read the wrong way round.
HiddenIfWanted(kind) == kind = "thinking" /\ thinking_enabled
Hidden(kind) == kind = "thinking" /\ ~thinking_enabled

\* _synthetic_close_other_open_blocks: the blocks of the other indexes, whose
\* own stops are not passed on.
Others(i) == {j \in Indexes \ {i} : segment[j] # -1 /\ blocks[segment[j]].open}

Unused(i) == upstream.block[i].kind = "none"

StartDropped(i, kind) ==
    /\ Unused(i)
    /\ Hidden(kind)
    /\ BlockArrives(i, [kind |-> kind, args |-> "none"], <<>>)
    /\ dropped' = dropped \union {i}
    /\ UNCHANGED <<segment, suppressed, blocks>>

StartPassed(i, kind) ==
    /\ Unused(i)
    /\ ~Hidden(kind)
    /\ LET d == Len(blocks) + 1
           others == SetToSeq(Others(i))
       IN  /\ BlockArrives(i, [kind |-> kind, args |-> "none"],
                  Append([j \in DOMAIN others |->
                              Stop(segment[others[j]], blocks[segment[others[j]]].kind)],
                         Start(d, kind)))
           /\ blocks' = Append(Close(blocks, {segment[j] : j \in Others(i)}), NewBlock(kind, TRUE))
           /\ segment' = [segment EXCEPT ![i] = d]
    /\ suppressed' = suppressed \union Others(i)
    /\ UNCHANGED dropped

\* A delta goes into the block of its index.  A block that was closed, for another
\* one or by its own stop, is started again, with a new index; so is one that had
\* no start, which cannot have a name.
DeltaPassed(i) ==
    LET up == upstream.block[i]
        d == segment[i]
        now == IF blocks[d].open THEN d ELSE Len(blocks) + 1
        shown == IF blocks[d].open THEN blocks ELSE Append(blocks, NewBlock(up.kind, blocks[d].named))
    IN  /\ d # -1
        /\ \E args \in MoreArgs(up) :
              LET content == Content(shown[now], args, up.args)
              IN  /\ BlockArrives(i, [up EXCEPT !.args = args],
                                  (IF now = d THEN <<>> ELSE <<Start(now, up.kind)>>)
                                  \o <<Delta(now, up.kind, IF content = "rest" THEN "part" ELSE content)>>)
                  /\ blocks' = [shown EXCEPT ![now].args = content]
        /\ segment' = [segment EXCEPT ![i] = now]
        /\ suppressed' = suppressed \ {i}
        /\ UNCHANGED dropped

DeltaDropped(i) ==
    LET up == upstream.block[i]
    IN  /\ i \in dropped
        /\ BlockArrives(i, [up EXCEPT !.args = "part"], <<>>)
        /\ UNCHANGED <<segment, dropped, suppressed, blocks>>

DeltaWithoutStart(i, kind) ==
    LET d == Len(blocks) + 1
    IN  /\ Unused(i)
        /\ kind # "thinking"
        /\ \E args \in MoreArgs([NoBlock EXCEPT !.kind = kind]) :
              /\ BlockArrives(i, [kind |-> kind, args |-> args],
                              <<Start(d, kind), Delta(d, kind, args)>>)
              /\ blocks' = Append(blocks, [NewBlock(kind, kind # "tool_use") EXCEPT !.args = args])
        /\ segment' = [segment EXCEPT ![i] = d]
        /\ UNCHANGED <<dropped, suppressed>>

\* A stop is passed on when the block is open, and dropped when it was hidden or
\* closed already.
StopPassed(i) ==
    LET d == segment[i]
        passed == d # -1 /\ i \notin suppressed /\ blocks[d].open
    IN  /\ ~Unused(i)
        /\ BlockArrives(i, upstream.block[i],
                        IF passed THEN <<Stop(d, blocks[d].kind)>> ELSE <<>>)
        /\ blocks' = IF passed THEN Close(blocks, {d}) ELSE blocks
        /\ suppressed' = suppressed \ (IF i \in dropped THEN {} ELSE {i})
        /\ UNCHANGED <<segment, dropped>>

\* The provider reports an error in its stream, which is passed on; the stream
\* ends then.
ErrorArrives ==
    /\ upstream.stage \in {"before", "content", "ending"}
    /\ upstream' = [upstream EXCEPT !.stage = "failed"]
    /\ Arrives(<<Plain("error")>>)
    /\ UNCHANGED <<segment, dropped, suppressed, trackerVars>>

\* The end of the message is passed on as it comes, whatever blocks are open.
MessageDelta ==
    /\ upstream.stage = "content"
    /\ upstream' = [upstream EXCEPT !.stage = "ending"]
    /\ Arrives(<<Plain("message_delta")>>)
    /\ stop_reason' = TRUE
    /\ UNCHANGED <<segment, dropped, suppressed, blocks, message_stopped>>

MessageStop ==
    /\ upstream.stage \in {"content", "ending"}
    /\ upstream' = [upstream EXCEPT !.stage = "stopped"]
    /\ Arrives(<<Plain("message_stop")>>)
    /\ message_stopped' = TRUE
    /\ UNCHANGED <<segment, dropped, suppressed, blocks, stop_reason>>

-----------------------------------------------------------------------------
(* The stream ends, well or not. *)

Opens ==
    /\ At("opening")
    /\ pc' = "reading"
    /\ UNCHANGED <<thinking_enabled, early_retries, policyVars, trackerVars, holdVars,
                   clientVars, salvaged>>

\* The last events go out; bs are the tracker's blocks then.
Return(events, bs) ==
    /\ FlushAndReturn(events)
    /\ blocks' = bs
    /\ UNCHANGED <<thinking_enabled, early_retries, policyVars, stop_reason, message_stopped,
                   clientVars>>

Completes ==
    /\ At("reading")
    /\ message_stopped
    /\ Return(<<>>, blocks)
    /\ UNCHANGED salvaged

\* emit_error and the end of the message.  mutant: without message_stop.
ErrorTextUnended(b, attempt) ==
    LET e(name) == Event(name, Index(b), "text", "none", attempt)
    IN  << e("content_block_start"), e("content_block_delta"), e("content_block_stop"),
           PlainEvent("message_delta", attempt) >>
ErrorText(b, attempt) ==
    LET e(name) == Event(name, Index(b), "text", "none", attempt)
    IN  << e("content_block_start"), e("content_block_delta"), e("content_block_stop"),
           PlainEvent("message_delta", attempt), PlainEvent("message_stop", attempt) >>

\* What was shown or held is ended with the error, as a text of its own; when
\* there is nothing, the error is a message.  mutant: the open blocks are left.
ErrorTailOnly ==
    IF committed \/ held # <<>>
    THEN Return(ErrorText(Len(blocks) + 1, early_retries), blocks)
    ELSE Return(<<PlainEvent("message_start", -1)>> \o ErrorText(1, -1), blocks)
ErrorTail ==
    IF committed \/ held # <<>>
    THEN Return(CloseAll(blocks) \o ErrorText(Len(blocks) + 1, early_retries), blocks)
    ELSE Return(<<PlainEvent("message_start", -1)>> \o ErrorText(1, -1), blocks)

\* A stream that broke before anything was shown is opened again, unless its
\* tools are complete.
MayRetry(opened) ==
    opened /\ ~committed /\ ~CanSalvage /\ early_retries < MaxRetries

\* mutant: the next attempt goes on with the policy state of this one.
RetryWithState ==
    /\ Reopens
    /\ early_retries' = early_retries + 1
    /\ upstream' = NoMessage
    /\ blocks' = <<>>
    /\ stop_reason' = FALSE
    /\ message_stopped' = FALSE
    /\ UNCHANGED <<thinking_enabled, segment, dropped, suppressed, salvaged>>
Retry ==
    /\ Reopens
    /\ early_retries' = early_retries + 1
    /\ upstream' = NoMessage
    /\ segment' = [i \in Indexes |-> -1]
    /\ dropped' = {}
    /\ suppressed' = {}
    /\ blocks' = <<>>
    /\ stop_reason' = FALSE
    /\ message_stopped' = FALSE
    /\ UNCHANGED <<thinking_enabled, salvaged>>

Recover ==
    Recovers /\ UNCHANGED <<thinking_enabled, early_retries, policyVars, trackerVars, salvaged>>

\* The exception handler of the stream loop.
Handle(opened, retryable) ==
    IF retryable /\ MayRetry(opened) THEN Retry
    ELSE IF retryable /\ blocks # <<>> THEN Recover
    ELSE ErrorTail /\ UNCHANGED salvaged

OpenFails ==
    /\ At("opening")
    /\ Handle(FALSE, TRUE)

\* The connection breaks, in a way that may be retried or not.
Breaks ==
    /\ At("reading")
    /\ \E retryable \in BOOLEAN : Handle(TRUE, retryable)

\* The stream ends without message_stop.
Truncated ==
    /\ At("reading")
    /\ ~message_stopped
    /\ Handle(TRUE, TRUE)

-----------------------------------------------------------------------------
(* _native_recovery_events *)

\* iter_success_tail, after events that left the blocks bs.
Succeed(events, bs) ==
    Return(events \o CloseAll(bs)
           \o (IF stop_reason THEN <<>> ELSE <<Plain("message_delta")>>)
           \o (IF message_stopped THEN <<>> ELSE <<Plain("message_stop")>>), bs)

\* What is missing of the arguments is asked for, checked, and added to the
\* block, open or not.  It fails when a block has no name or does not begin
\* with the beginning of its arguments.
Repairable == \A b \in ToolBlocks : blocks[b].named /\ blocks[b].args # "rest"
Incomplete == InOrder({b \in ToolBlocks : ~Complete(b)})

\* mutant: only the first of them is repaired.
RepairFirst ==
    IF Incomplete = <<>> THEN <<>> ELSE <<Delta(Head(Incomplete), "tool_use", "whole")>>
Repairs == [i \in DOMAIN Incomplete |-> Delta(Incomplete[i], "tool_use", "whole")]

RecoverTools ==
    /\ At("recovering")
    /\ ToolBlocks # {}
    /\ Repairable
    /\ Succeed(Repairs, [b \in DOMAIN blocks |->
                            IF b \in ToolBlocks THEN [blocks[b] EXCEPT !.args = "whole"]
                            ELSE blocks[b]])
    /\ salvaged' = TRUE

\* append_text_suffix, append_thinking_suffix: into the youngest open block of
\* that kind, or a new one.
LastOpen(bs, kind) == SelectLastInSeq(bs, LAMBDA block : block.open /\ block.kind = kind)
Suffixed(bs, kind) ==
    IF LastOpen(bs, kind) # 0 THEN bs
    ELSE Append(bs, [NewBlock(kind, TRUE) EXCEPT !.args = "part"])
Suffix(bs, kind) ==
    LET b == LastOpen(bs, kind)
    IN  IF b # 0 THEN <<Delta(b, kind, "part")>>
        ELSE <<Start(Len(bs) + 1, kind), Delta(Len(bs) + 1, kind, "part")>>

\* The model goes on where it stopped, with text, thoughts or both.
RecoverText ==
    LET thoughtful == Suffixed(blocks, "thinking")
    IN  /\ At("recovering")
        /\ ToolBlocks = {}
        /\ \E b \in DOMAIN blocks : blocks[b].args # "none"
        /\ \/ Succeed(Suffix(blocks, "text"), Suffixed(blocks, "text"))
           \/ thinking_enabled /\ Succeed(Suffix(blocks, "thinking"), thoughtful)
           \/ /\ thinking_enabled
              /\ Succeed(Suffix(blocks, "thinking") \o Suffix(thoughtful, "text"),
                         Suffixed(thoughtful, "text"))
        /\ UNCHANGED salvaged

RecoveryFails ==
    /\ At("recovering")
    /\ ~CanSalvage
    /\ ErrorTail
    /\ UNCHANGED salvaged

-----------------------------------------------------------------------------
Starts(i) ==
    \E kind \in Contract!Kinds :
        StartDropped(i, kind) \/ StartPassed(i, kind) \/ DeltaWithoutStart(i, kind)
Continues(i) == DeltaPassed(i) \/ DeltaDropped(i) \/ StopPassed(i)

Generator ==
    \/ Opens \/ OpenFails
    \/ Completes \/ Breaks \/ Truncated
    \/ MessageStart \/ MessageDelta \/ MessageStop \/ ErrorArrives
    \/ \E i \in Indexes : Starts(i) \/ Continues(i)
    \/ RecoverTools \/ RecoverText \/ RecoveryFails

Next == Generator \/ Deliver \/ Disconnect

Spec == Init /\ [][Next]_vars

\* A stream brings an event, ends or times out, and so does a recovery; the
\* client takes what it is handed, or leaves.
FairSpec == Spec /\ WF_vars(Generator) /\ WF_vars(Deliver)

-----------------------------------------------------------------------------
Block == [kind : Contract!Kinds, open : BOOLEAN, args : Args \union {"rest"}, named : BOOLEAN]

\* Every variable ranges over what its Python counterpart can hold; an index of
\* the provider goes into a block of its kind, and no two into the same one.
TypeOK ==
    /\ DownstreamOK
    /\ thinking_enabled \in BOOLEAN
    /\ early_retries \in 0 .. MaxRetries
    /\ upstream.stage \in {"before", "content", "failed", "ending", "stopped"}
    /\ blocks \in Seq(Block)
    /\ \A i \in Indexes :
          segment[i] # -1 => /\ segment[i] \in DOMAIN blocks
                             /\ blocks[segment[i]].kind = upstream.block[i].kind
    /\ \A i, j \in Indexes : segment[i] = segment[j] /\ segment[i] # -1 => i = j
    /\ dropped \union suppressed \subseteq Indexes
    /\ {stop_reason, message_stopped, salvaged} \subseteq BOOLEAN

\* The client sees blocks with fresh indexes, deltas and stops of open blocks only,
\* and a message_delta and a message_stop only when a block was there and all are
\* closed: in whatever way the provider's blocks overlap, and wherever its stream
\* breaks, is opened again or recovered.  There are two exceptions.  A recovery may
\* complete the arguments of a tool whose block is closed.  And message_delta and
\* message_stop that the provider itself sent go out when it sent them, with blocks
\* open or none at all: after the one the order of the message is its own, but an
\* end that the transport adds is one with every block closed.
WellFormed ==
    [][LET e == wire'.last
           repair == /\ salvaged
                     /\ e.event = "content_block_delta"
                     /\ e.kind = "tool_use" /\ e.args = "whole" /\ e.index \in wire.used
           passed == \/ e.event = "message_delta" /\ stop_reason
                     \/ e.event = "message_stop" /\ message_stopped
       IN  wire' # wire =>
              /\ wire.stage = "content" => Contract!Allowed(wire, e) \/ repair \/ passed
              /\ e.event = "message_stop" => wire.open = {} \/ passed]_vars

\* Thinking is shown to those who want it, in an attempt, in a block that is
\* started again and in a recovery.
ThinkingHidden == \A b \in wire.open : b[2] = "thinking" => thinking_enabled

\* A client that took all of a message that a recovery ended with its tools has
\* all their arguments.
RepairedWhole == salvaged /\ outbox = <<>> /\ ~gone => broken = {}

\* The client gets one answer, and gets it whole: the content of one attempt only,
\* and tool calls that a recovery vouched for with everything they need.
OneWholeAnswer == OneAttempt /\ RepairedWhole
=============================================================================
