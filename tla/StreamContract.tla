--------------------------- MODULE StreamContract ---------------------------
(***************************************************************************)
(* What a client of the proxy may see: the shape of one streamed message   *)
(* as assert_anthropic_stream_contract (core/anthropic/stream_contracts.py)*)
(* demands it, and the order of message_start, the blocks, message_delta   *)
(* and message_stop besides.                                               *)
(***************************************************************************)
EXTENDS Integers

\* Kinds of content blocks; a delta has the kind of its block.
Kinds == {"text", "thinking", "tool_use"}

VARIABLES
    wire,      \* what the client saw: the stage of the message, the open
               \* blocks <<index, kind>>, the indexes used, the last event
    gone       \* the client left

Nothing == [stage |-> "before", open |-> {}, used |-> {}, last |-> [event |-> "none"]]

\* What the client saw once event e arrived too.
Seen(w, e) ==
    [w EXCEPT
        !.last = e,
        !.stage = CASE e.event = "message_start" -> "content"
                    [] e.event = "message_delta" -> "ending"
                    [] e.event = "message_stop"  -> "stopped"
                    [] OTHER -> @,
        !.open = CASE e.event = "content_block_start" -> @ \union {<<e.index, e.kind>>}
                   [] e.event = "content_block_stop"  -> {b \in @ : b[1] # e.index}
                   [] OTHER -> @,
        !.used = IF e.event = "content_block_start" THEN @ \union {e.index} ELSE @]

\* Whether e may follow: one start, blocks whose indexes are never used twice,
\* deltas and stops of open blocks only, no end before every block is closed
\* and some block was there.
Allowed(w, e) ==
    \/ e.event = "message_start" /\ w.stage = "before"
    \/ e.event = "content_block_start" /\ w.stage = "content" /\ e.index \notin w.used
    \/ e.event = "content_block_delta" /\ <<e.index, e.kind>> \in w.open
    \/ e.event = "content_block_stop" /\ \E k \in Kinds : <<e.index, k>> \in w.open
    \/ e.event = "error" /\ w.stage = "content"
    \/ e.event = "message_delta" /\ w.stage = "content" /\ w.open = {} /\ w.used # {}
    \/ e.event = "message_stop" /\ w.stage = "ending"

Init == wire = Nothing /\ gone = FALSE

Receive ==
    /\ ~gone
    /\ LET e == wire'.last
       IN  Allowed(wire, e) /\ wire' = Seen(wire, e)
    /\ UNCHANGED gone

Leave ==
    /\ gone' = TRUE
    /\ UNCHANGED wire

Spec == Init /\ [][Receive \/ Leave]_<<wire, gone>>
=============================================================================
