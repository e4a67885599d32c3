----------------------------- MODULE SessionStore -----------------------------
(***************************************************************************)
(* The persistent store of the chat bot (messaging/session.py): what it    *)
(* holds in memory, the debounce timer, and the file.                      *)
(*                                                                         *)
(* Its callers run on the event loop; a timer callback runs in a thread of *)
(* its own.  _lock covers the memory, never the writing of the file: what  *)
(* happens under the lock is one action and writing is another one.  The   *)
(* loop does nothing else while it writes itself.  A file is replaced as a *)
(* whole (_write_data), so a write ends at once or not at all.             *)
(*                                                                         *)
(* The trees are their roots and the message log is that of one chat; the  *)
(* field at numbers the saves, so that contents can be told older or newer.*)
(***************************************************************************)
EXTENDS Integers, Sequences, SequencesExt

CONSTANTS
    Roots,        \* trees that may be saved
    Messages,     \* message ids that may be recorded
    LogCap,       \* _message_log_cap; 0 for none
    Timers,       \* bound: the timer threads that exist at once
    None,         \* Python's None where a timer is expected
    MaxSaves,     \* bound: numbered changes of the content
    MaxFailures   \* bound: writes that fail

ASSUME NoneAssumption == None \notin Timers
ASSUME BoundAssumption ==
    LogCap \in Nat /\ MaxSaves \in Nat /\ MaxFailures \in Nat

VARIABLES
    mem,         \* _trees, _node_to_tree and _message_log
    seen,        \* _message_log_ids of the chat
    dirty,       \* _dirty
    save_timer,  \* _save_timer
    stage,       \* where timer t stands; a waiting one wants the lock
    snapshot,    \* what timer t is about to write
    loop,        \* whether the event loop runs, or writes the file itself
    flushing,    \* what the loop is about to write
    file,        \* what a new process would load
    failures,    \* writes that failed so far
    \* --- history ---
    taken,       \* newest content in any snapshot of this process
    written,     \* newest content this process found in or put into the file
    failed,      \* newest content in a write that failed
    alone,       \* whether no timer was writing when the loop began to
    promised     \* content of the last flush or clear that was alone and returned

memVars   == <<mem, seen, dirty, save_timer>>
timerVars == <<stage, snapshot>>
loopVars  == <<loop, flushing, alone>>
histVars  == <<taken, written, failed, promised>>
vars == <<memVars, timerVars, loopVars, file, failures, histVars>>

Content == [at : Nat, trees : SUBSET Roots, log : Seq(Messages)]
Empty   == [at |-> 0, trees |-> {}, log |-> <<>>]

Later(a, b) == IF a >= b THEN a ELSE b

-----------------------------------------------------------------------------
Init ==
    /\ mem = Empty
    /\ seen = {}
    /\ dirty = FALSE
    /\ save_timer = None
    /\ stage = [t \in Timers |-> "free"]
    /\ snapshot = [t \in Timers |-> Empty]
    /\ loop = "runs"
    /\ flushing = Empty
    /\ file = Empty
    /\ failures = 0
    /\ taken = 0
    /\ written = 0
    /\ failed = 0
    /\ alone = TRUE
    /\ promised = 0

-----------------------------------------------------------------------------
(* Changes of the content.  They run on the event loop and hold the lock.  *)

\* cancel() stops a timer that has not fired; it cannot call a waiting one back.
Cancelled(s) ==
    IF save_timer # None /\ s[save_timer] = "armed"
    THEN [s EXCEPT ![save_timer] = "free"] ELSE s

\* _schedule_save: dirty, and a new timer in place of the old one.
\* mutant: dirty is taken for a promise that a timer runs.
ScheduleOnce ==
    /\ dirty' = TRUE
    /\ IF dirty THEN UNCHANGED <<save_timer, stage>>
       ELSE \E t \in Timers :
                /\ stage[t] = "free"
                /\ save_timer' = t
                /\ stage' = [stage EXCEPT ![t] = "armed"]

ScheduleSave ==
    /\ dirty' = TRUE
    /\ \E t \in Timers :
        /\ stage[t] = "free"
        /\ save_timer' = t
        /\ stage' = [Cancelled(stage) EXCEPT ![t] = "armed"]

\* The lock is taken, the content changed to c, and a save scheduled.
Change(c) ==
    /\ loop = "runs"
    /\ mem.at < MaxSaves
    /\ mem' = [c EXCEPT !.at = mem.at + 1]
    /\ ScheduleSave
    /\ UNCHANGED <<snapshot, loopVars, file, failures, histVars>>

\* save_tree; register_node, remove_node_mappings and sync_from_tree_data
\* change the node map in the same way.
SaveTree(r) ==
    /\ Change([mem EXCEPT !.trees = @ \union {r}])
    /\ UNCHANGED seen

\* remove_tree; a root that is not there is no change.
RemoveTree(r) ==
    /\ r \in mem.trees
    /\ Change([mem EXCEPT !.trees = @ \ {r}])
    /\ UNCHANGED seen

\* The log once it is cut to its cap: the newest entries stay.
Capped(s) ==
    IF LogCap > 0 /\ Len(s) > LogCap THEN SubSeq(s, Len(s) - LogCap + 1, Len(s)) ELSE s

\* record_message_id: once per id; _message_log_ids forgets what is cut from the log.
RecordMessageId(m) ==
    /\ m \notin seen
    /\ LET log == Capped(Append(mem.log, m))
       IN  /\ Change([mem EXCEPT !.log = log])
           /\ seen' = ToSet(log)

-----------------------------------------------------------------------------
(* The timer thread: _save_from_timer. *)

TimerFires(t) ==
    /\ stage[t] = "armed"
    /\ stage' = [stage EXCEPT ![t] = "waiting"]
    /\ UNCHANGED <<memVars, snapshot, loopVars, file, failures, histVars>>

\* With the lock: snapshot and forget the timer, whichever timer that is.
TimerLocks(t) ==
    /\ stage[t] = "waiting"
    /\ save_timer' = None
    /\ IF dirty
       THEN /\ snapshot' = [snapshot EXCEPT ![t] = mem]
            /\ stage' = [stage EXCEPT ![t] = "writing"]
            /\ taken' = mem.at
            /\ dirty' = FALSE
       ELSE /\ stage' = [stage EXCEPT ![t] = "free"]
            /\ UNCHANGED <<snapshot, taken, dirty>>
    /\ UNCHANGED <<mem, seen, loopVars, file, failures, written, failed, promised>>

TimerEnds(t) ==
    /\ stage[t] = "writing"
    /\ stage' = [stage EXCEPT ![t] = "free"]
    /\ snapshot' = [snapshot EXCEPT ![t] = Empty]

Replace(c) ==
    /\ file' = c
    /\ written' = Later(written, c.at)

TimerWrites(t) ==
    /\ TimerEnds(t)
    /\ Replace(snapshot[t])
    /\ UNCHANGED <<memVars, loopVars, failures, taken, failed, promised>>

\* The write fails: dirty again, and no new timer.
Fails(c) ==
    /\ failures < MaxFailures
    /\ failures' = failures + 1
    /\ failed' = Later(failed, c.at)
    /\ dirty' = TRUE

TimerFails(t) ==
    /\ TimerEnds(t)
    /\ Fails(snapshot[t])
    /\ UNCHANGED <<mem, seen, save_timer, loopVars, file, taken, written,
                   promised>>

-----------------------------------------------------------------------------
(* The loop writes the file itself. *)

\* _flush_save with content c: no timer, not dirty, and a snapshot to write.
FlushSave(c) ==
    /\ loop' = "writes"
    /\ flushing' = c
    /\ taken' = c.at
    /\ alone' = \A t \in Timers : stage[t] # "writing"
    /\ dirty' = FALSE
    /\ save_timer' = None
    /\ stage' = Cancelled(stage)

FlushPendingSave ==
    /\ loop = "runs"
    /\ FlushSave(mem)
    /\ UNCHANGED <<mem, seen, snapshot, file, failures, written, failed, promised>>

\* clear_all: an empty store, written at once.  mutant: what it writes is the
\* content it found.
ClearTooLate ==
    /\ loop = "runs"
    /\ mem.at < MaxSaves
    /\ mem' = [Empty EXCEPT !.at = mem.at + 1]
    /\ seen' = {}
    /\ FlushSave(mem)
    /\ UNCHANGED <<snapshot, file, failures, written, failed, promised>>

ClearAll ==
    /\ loop = "runs"
    /\ mem.at < MaxSaves
    /\ mem' = [Empty EXCEPT !.at = mem.at + 1]
    /\ seen' = {}
    /\ FlushSave(mem')
    /\ UNCHANGED <<snapshot, file, failures, written, failed, promised>>

FlushEnds ==
    /\ loop = "writes"
    /\ loop' = "runs"
    /\ flushing' = Empty
    /\ alone' = TRUE

FlushWrites ==
    /\ FlushEnds
    /\ Replace(flushing)
    /\ promised' = IF alone THEN mem.at ELSE promised
    /\ UNCHANGED <<memVars, timerVars, failures, taken, failed>>

FlushFails ==
    /\ FlushEnds
    /\ Fails(flushing)
    /\ UNCHANGED <<mem, seen, save_timer, timerVars, file, taken, written, promised>>

-----------------------------------------------------------------------------
\* The process dies, its daemon timers with it, and a new one loads the file:
\* __init__ and _load.  It may die by a signal, or because it is done: shutdown
\* flushes first and stops the callers of the store afterwards.
Restart ==
    /\ mem' = file
    /\ seen' = ToSet(file.log)
    /\ dirty' = FALSE
    /\ save_timer' = None
    /\ stage' = [t \in Timers |-> "free"]
    /\ snapshot' = [t \in Timers |-> Empty]
    /\ loop' = "runs"
    /\ flushing' = Empty
    /\ alone' = TRUE
    /\ taken' = file.at
    /\ written' = file.at
    /\ failed' = 0
    /\ promised' = file.at
    /\ UNCHANGED <<file, failures>>

-----------------------------------------------------------------------------
TimerStep(t) == TimerFires(t) \/ TimerLocks(t) \/ TimerWrites(t) \/ TimerFails(t)
LoopWrites == FlushWrites \/ FlushFails

Next ==
    \/ \E r \in Roots : SaveTree(r) \/ RemoveTree(r)
    \/ \E m \in Messages : RecordMessageId(m)
    \/ \E t \in Timers : TimerStep(t)
    \/ FlushPendingSave
    \/ ClearAll
    \/ LoopWrites
    \/ Restart

Spec == Init /\ [][Next]_vars

\* Timers fire, threads get the lock, and writing ends.
FairSpec ==
    /\ Spec
    /\ \A t \in Timers : WF_vars(TimerStep(t))
    /\ WF_vars(LoopWrites)

-----------------------------------------------------------------------------
\* Every variable ranges over what its Python counterpart can hold.
TypeOK ==
    /\ mem \in Content
    /\ seen \in SUBSET Messages
    /\ dirty \in BOOLEAN
    /\ save_timer \in Timers \union {None}
    /\ stage \in [Timers -> {"free", "armed", "waiting", "writing"}]
    /\ snapshot \in [Timers -> Content]
    /\ loop \in {"runs", "writes"}
    /\ flushing \in Content
    /\ file \in Content
    /\ failures \in Nat
    /\ {taken, written, failed, promised} \subseteq Nat
    /\ alone \in BOOLEAN

\* A change that no snapshot has taken yet is dirty, and the timer the store
\* knows of is on its way to take it: neither a cancelled timer, nor one that
\* could not be cancelled, nor a failed write leaves a change behind.
NothingForgotten ==
    mem.at > taken =>
        /\ dirty
        /\ save_timer # None
        /\ stage[save_timer] \in {"armed", "waiting"}

\* "Call on shutdown to avoid losing data": a flush or a clear that began while
\* no timer was writing is never undone, neither by a timer it could not cancel
\* nor by a restart.  (Beside a timer that was writing it may be.)
FlushAloneIsDurable == file.at >= promised

\* record_message_id: _message_log_ids, the log and its cap agree, also after a
\* restart; an id cut from the log may be recorded again.
LogSound ==
    /\ seen = ToSet(mem.log)
    /\ \A i, j \in DOMAIN mem.log : mem.log[i] = mem.log[j] => i = j
    /\ LogCap > 0 => Len(mem.log) <= LogCap

\* Every change reaches the file at some time, unless a write with it failed or
\* the process died before.
ChangesAreWritten ==
    \A v \in 1 .. MaxSaves :
        mem.at >= v ~> (written >= v \/ failed >= v \/ mem.at < v)
=============================================================================
