----------------------------- MODULE Downstream -----------------------------
(***************************************************************************)
(* What both stream transports share: the generator that hands events out, *)
(* the holdback buffer in front of it (RecoveryHoldbackBuffer), and the    *)
(* client.                                                                 *)
(*                                                                         *)
(* A generator hands its events out one by one and does nothing before the *)
(* last of them was taken: outbox holds those it is about to hand out, and *)
(* every other action of a transport waits until it is empty.              *)
(*                                                                         *)
(* An event is a record [event, index, kind, args, attempt].  Block events *)
(* have the index and the kind of their block, the deltas of a tool how    *)
(* much of its arguments is there with them, and every event the attempt   *)
(* (the request to the provider) it comes from, -1 for an error message of *)
(* which no attempt showed anything.                                       *)
(***************************************************************************)
EXTENDS Integers, Sequences, SequencesExt

VARIABLES
    pc,              \* opening, reading, recovering or done
    held,            \* events in the holdback buffer
    committed,       \* whether it lets events through
    outbox,          \* events about to be handed out
    wire, gone,      \* what the client saw, and whether it left
    \* --- history ---
    attempts,        \* attempts whose content the client saw
    broken,          \* tool blocks the client saw without all their arguments
    salvaged         \* the message ended with tools a recovery vouched for

holdVars   == <<held, committed, outbox>>
clientVars == <<wire, gone, attempts, broken>>

Contract == INSTANCE StreamContract

Args == {"none", "part", "whole"}

Event(name, i, kind, args, attempt) ==
    [event |-> name, index |-> i, kind |-> kind, args |-> args, attempt |-> attempt]
PlainEvent(name, attempt) == Event(name, -1, "none", "none", attempt)

InitDownstream(out) ==
    /\ held = <<>>
    /\ committed = FALSE
    /\ outbox = out
    /\ wire = Contract!Nothing
    /\ gone = FALSE
    /\ attempts = {}
    /\ broken = {}

\* The client takes an event.
TakeEvent ==
    /\ ~gone
    /\ outbox # <<>>
    /\ outbox' = Tail(outbox)
    /\ LET e == Head(outbox)
       IN  /\ wire' = Contract!Seen(wire, e)
           /\ attempts' = IF e.event = "content_block_delta" /\ e.attempt >= 0
                          THEN attempts \union {e.attempt} ELSE attempts
           /\ broken' = IF e.kind # "tool_use" \/ e.event = "content_block_stop" THEN broken
                        ELSE IF e.args = "whole" THEN broken \ {e.index}
                        ELSE broken \union {e.index}
    /\ UNCHANGED <<pc, held, committed, gone>>

\* The client leaves: the generator is closed where it stands, and what it has
\* not handed out is lost.
Disconnects ==
    /\ ~gone
    /\ gone' = TRUE
    /\ pc' = "done"
    /\ held' = <<>>
    /\ outbox' = <<>>
    /\ UNCHANGED <<committed, wire, attempts, broken>>

\* The generator runs when all it handed out was taken.
At(place) == pc = place /\ outbox = <<>> /\ ~gone

\* push: new events go into the buffer; when it has been long enough, or too
\* much, all it holds goes out, and from then on everything does.
Hold(events) ==
    \/ committed /\ outbox' = events /\ UNCHANGED <<held, committed>>
    \/ ~committed /\ held' = held \o events /\ UNCHANGED <<committed, outbox>>
    \/ /\ ~committed /\ events # <<>>
       /\ outbox' = held \o events
       /\ held' = <<>>
       /\ committed' = TRUE

\* flush, the last events, and the return.
FlushAndReturn(events) ==
    /\ outbox' = held \o events
    /\ held' = <<>>
    /\ committed' = TRUE
    /\ pc' = "done"

\* discard: the next attempt begins with a new buffer.
Reopens ==
    /\ pc' = "opening"
    /\ held' = <<>>
    /\ committed' = FALSE
    /\ UNCHANGED <<outbox, clientVars>>

Recovers ==
    /\ pc' = "recovering"
    /\ UNCHANGED <<holdVars, clientVars>>

-----------------------------------------------------------------------------
(***************************************************************************)
(* What a stream may promise its client.  ChatStream keeps all of it,      *)
(* NativeStream what its own module says, OneAttempt and MessageEnds.      *)
(***************************************************************************)
\* "Briefly hold downstream SSE so early stream cutoffs can be retried
\* invisibly": a client sees the content of one attempt only.
OneAttempt == \A a, b \in attempts : a = b

\* A message that a recovery ends with its tool calls has all their arguments.
SalvagedWhole == salvaged /\ wire.stage = "stopped" => broken = {}

\* A stream implements what its client may see: the events come in the order of
\* the contract, whatever the provider sends, wherever its stream breaks and
\* however often it is retried and recovered.
StreamContract == Contract!Spec

\* A client that stays sees the message end.
MessageEnds == <>(wire.stage = "stopped" \/ gone)

DownstreamOK ==
    /\ pc \in {"opening", "reading", "recovering", "done"}
    /\ {committed, gone} \subseteq BOOLEAN
    /\ committed => held = <<>>
    /\ wire.open \subseteq Nat \X Contract!Kinds
    /\ broken \subseteq wire.used
=============================================================================
