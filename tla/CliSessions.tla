----------------------------- MODULE CliSessions -----------------------------
(***************************************************************************)
(* The sessions of the claude command line tool: CLISessionManager         *)
(* (cli/manager.py), CLISession (cli/session.py), and the turns that use   *)
(* them (_process_node_impl and handle_session_info_event).                *)
(*                                                                         *)
(* Unlike the locks of the trees, the lock of the manager is held across a *)
(* real suspension: remove_session and stop_all wait under it until the    *)
(* subprocess they stop is dead.  It is a queue here, its holder in front, *)
(* as asyncio.Lock serves its waiters in order.                            *)
(*                                                                         *)
(* A turn is named by its message.  The CLISession it creates, the process *)
(* it spawns and the session id this process announces bear its name.      *)
(***************************************************************************)
EXTENDS Integers, Sequences, SequencesExt, Functions

CONSTANTS
    Turns,     \* the messages that get a turn
    None,      \* Python's None
    ReplyTo,   \* ReplyTo[t]: the turn that t replies to, or None
    TreeOf,    \* TreeOf[t]: the tree of t
    MaxStops   \* bound: calls of stop_all

ASSUME NoneAssumption == None \notin Turns \union ({"real", "pending"} \X Turns)
ASSUME StopsAssumption == MaxStops \in Nat /\ Turns \cap 1 .. MaxStops = {}
ASSUME ReplyAssumption ==
    /\ ReplyTo \in [Turns -> Turns \union {None}]
    /\ \A t \in Turns : ReplyTo[t] # None => TreeOf[ReplyTo[t]] = TreeOf[t]

VARIABLES
    \* --- a turn ---
    stage,      \* where turn t stands
    resume,     \* parent_session_id
    session,    \* cli_session: the turn that created it
    temp,       \* temp_session_id
    captured,   \* captured_session_id
    recorded,   \* session_id of the node in its tree
    cancel,     \* turns on whose task cancel() was called, until it is delivered
    ended,      \* turns whose node is COMPLETED or ERROR
    \* --- the trees ---
    current,    \* _current_node_id; a tree is free when it has none
    task,       \* _current_task, named by its turn
    cleared,    \* trees that /clear has removed
    \* --- CLISessionManager ---
    lock,       \* _lock: its holder, then those that wait for it
    pending,    \* _pending_sessions: a session by its temporary id
    sessions,   \* _sessions: a session by its real id
    temp_to_real, \* _temp_to_real
    real_to_temp, \* _real_to_temp
    \* --- CLISession and processes ---
    cli_lock,   \* cli_lock[s]: the turn whose start_task holds _cli_lock of s
    process,    \* process[s]: the turn whose subprocess is .process of s
    proc,       \* the subprocess of turn t
    \* --- stop_all ---
    up,         \* whether the chat platform still runs
    stop,       \* where call c stands
    victims,    \* the sessions it has not come to yet
    killing,    \* the process it waits for
    before,     \* history: the processes that were alive when it got the lock
    removing,   \* removing[t]: the process turn t waits for in remove_session
    beside,     \* history: turns that began beside another turn of their tree
    unremoved,  \* history: ids whose removal was cancelled before it got the lock
    unmapped    \* history: ids whose removal was cancelled after it took the session

Stops == 1 .. MaxStops     \* the calls of stop_all, in their order
Trees == {TreeOf[t] : t \in Turns}

turnVars == <<stage, resume, session, temp, captured, recorded>>
mapVars  == <<pending, sessions, temp_to_real, real_to_temp>>
cliVars  == <<cli_lock, process, proc>>
stopVars == <<up, stop, victims, killing, before>>
nodeVars == <<cancel, ended>>
treeVars == <<current, task, cleared>>
histVars == <<beside, unremoved, unmapped>>
vars == <<turnVars, removing, nodeVars, treeVars, lock, mapVars, cliVars, stopVars, histVars>>

\* Session ids: what a process announces, and the handle of a fresh session.
Real(t)  == <<"real", t>>
Fresh(t) == <<"pending", t>>
Ids      == {"real", "pending"} \X Turns

Stages == {"idle", "wants", "spawning", "reading", "registers", "kills", "drains",
           "leaves", "removing", "done"}

Empty == [i \in {} |-> None]

\* f without the keys of K, and with value v for key k.
Without(f, K) == Restrict(f, DOMAIN f \ K)
With(f, k, v) == [i \in DOMAIN f \union {k} |-> IF i = k THEN v ELSE f[i]]

Moves(t, from, to) ==
    /\ stage[t] = from
    /\ stage' = [stage EXCEPT ![t] = to]

Begun(t)  == stage[t] \notin {"idle", "done"}
Locked    == lock # <<>>
Holds(x)  == lock # <<>> /\ Head(lock) = x

\* x no longer holds the lock or waits for it; mutant: it stays in line.
StayInLock(x) == lock
LeaveLock(x) == RemoveFirst(lock, x)

-----------------------------------------------------------------------------
Init ==
    /\ stage = [t \in Turns |-> "idle"]
    /\ resume = [t \in Turns |-> None]
    /\ session = [t \in Turns |-> None]
    /\ temp = [t \in Turns |-> None]
    /\ captured = [t \in Turns |-> None]
    /\ recorded = [t \in Turns |-> None]
    /\ cancel = {}
    /\ ended = {}
    /\ current = [r \in Trees |-> None]
    /\ task = [r \in Trees |-> None]
    /\ cleared = {}
    /\ lock = <<>>
    /\ pending = Empty
    /\ sessions = Empty
    /\ temp_to_real = Empty
    /\ real_to_temp = Empty
    /\ cli_lock = [s \in Turns |-> None]
    /\ process = [s \in Turns |-> None]
    /\ proc = [t \in Turns |-> "none"]
    /\ up = TRUE
    /\ stop = [c \in Stops |-> "idle"]
    /\ victims = [c \in Stops |-> {}]
    /\ killing = [c \in Stops |-> None]
    /\ before = [c \in Stops |-> {}]
    /\ removing = [t \in Turns |-> None]
    /\ beside = {}
    /\ unremoved = {}
    /\ unmapped = {}

-----------------------------------------------------------------------------
(* get_or_create_session and the start of start_task. *)

\* The generator takes _cli_lock of session s, or waits for it.
EntersTask(t, s) ==
    /\ stage' = [stage EXCEPT ![t] = "spawning"]
    /\ cli_lock' = [cli_lock EXCEPT ![s] = IF @ = None THEN t ELSE @]

\* The id under which a new session is pending.  mutant: always the one asked for.
IdAsked(t, parent) == parent
TempId(t, parent) == IF parent = None THEN Fresh(t) ELSE parent

\* The session of a parent that is still around, or a new one under the id of
\* the parent's session, if there is a parent, and a fresh id otherwise.
GetOrCreate(t, parent) ==
    LET known == IF parent \in DOMAIN temp_to_real THEN temp_to_real[parent] ELSE parent
        id    == TempId(t, parent)
        reuse(s) == /\ session' = [session EXCEPT ![t] = s]
                    /\ captured' = [captured EXCEPT ![t] = known]
                    /\ EntersTask(t, s)
                    /\ UNCHANGED <<temp, pending>>
    IN  /\ \/ known \in DOMAIN sessions /\ reuse(sessions[known])
           \/ known \in DOMAIN pending \ DOMAIN sessions /\ reuse(pending[known])
           \/ /\ known \notin DOMAIN sessions \union DOMAIN pending
              /\ session' = [session EXCEPT ![t] = t]
              /\ temp' = [temp EXCEPT ![t] = id]
              /\ pending' = With(pending, id, t)
              /\ EntersTask(t, t)
              /\ UNCHANGED captured
        /\ UNCHANGED <<sessions, temp_to_real, real_to_temp>>

Rivals(t) == {o \in Turns \ {t} : TreeOf[o] = TreeOf[t] /\ Begun(o)}

\* The tree of t is free and starts it.  Its other turns are over, unless a /stop or
\* the end of a turn that ran beside them has freed it: clear_current_node does not
\* ask whose turn it is.
Start(t) ==
    LET r      == TreeOf[t]
        parent == IF ReplyTo[t] = None THEN None ELSE recorded[ReplyTo[t]]
    IN  /\ stage[t] = "idle"
        /\ ReplyTo[t] # None => stage[ReplyTo[t]] # "idle"
        /\ r \notin cleared
        /\ current[r] = None
        /\ current' = [current EXCEPT ![r] = t]
        /\ task' = [task EXCEPT ![r] = t]
        /\ beside' = IF Rivals(t) = {} THEN beside ELSE beside \union {t}
        /\ resume' = [resume EXCEPT ![t] = parent]
        /\ IF Locked
           THEN /\ lock' = Append(lock, t)
                /\ stage' = [stage EXCEPT ![t] = "wants"]
                /\ UNCHANGED <<session, temp, captured, mapVars, cli_lock>>
           ELSE GetOrCreate(t, parent) /\ UNCHANGED lock
        /\ UNCHANGED <<recorded, removing, nodeVars, cleared, process, proc, stopVars,
                       unremoved, unmapped>>

GetsLock(t) ==
    /\ stage[t] = "wants"
    /\ Holds(t)
    /\ t \notin cancel
    /\ GetOrCreate(t, resume[t])
    /\ lock' = Tail(lock)
    /\ UNCHANGED <<resume, recorded, removing, nodeVars, treeVars, process, proc, stopVars, histVars>>

-----------------------------------------------------------------------------
(* The finally clause of a turn. *)

\* The turn is over, and with it the turn of its tree: process_node.
Done(t) ==
    /\ stage' = [stage EXCEPT ![t] = "done"]
    /\ current' = [current EXCEPT ![TreeOf[t]] = None]

\* Session s has a process that still runs.
Running(s) == process[s] # None /\ proc[process[s]] \in {"alive", "dying"}

\* CLISession.stop, up to where it waits for the end of the process it found.  mutant:
\* it waits without asking for it.
SignalNobody(S) == UNCHANGED proc
Signals(S) ==
    proc' = [t \in Turns |->
        IF proc[t] = "alive" /\ \E s \in S : process[s] = t THEN "dying" ELSE proc[t]]

\* The id under which the finally clause looks for the session.  mutant: only
\* sessions with a real id are removed.
HandleIfReal(t) == captured[t]
Handle(t) == IF captured[t] # None THEN captured[t] ELSE temp[t]

\* remove_session: the session leaves its map, then its process is stopped with
\* the lock held, then the mapping of the ids goes.
Forget(id) ==
    /\ pending' = Without(pending, {id})
    /\ sessions' = IF id \in DOMAIN pending THEN sessions ELSE Without(sessions, {id})

\* mutant: only one of the two mappings goes.
ForgetReal(id) == real_to_temp' = Without(real_to_temp, {id}) /\ UNCHANGED temp_to_real
ForgetMapping(id) ==
    /\ real_to_temp' = Without(real_to_temp, {id})
    /\ temp_to_real' =
        IF id \in DOMAIN real_to_temp THEN Without(temp_to_real, {real_to_temp[id]})
        ELSE temp_to_real

\* With the lock, for which the turns in q wait.
RemoveSession(t, q) ==
    LET id    == Handle(t)
        real  == id \notin DOMAIN pending
        found == {s \in Turns : \/ ~real /\ pending[id] = s
                                \/ real /\ id \in DOMAIN sessions /\ sessions[id] = s}
    IN  /\ Forget(id)
        /\ Signals(found)
        /\ \/ \E s \in found :
                /\ Running(s)
                /\ lock' = <<t>> \o q
                /\ stage' = [stage EXCEPT ![t] = "removing"]
                /\ removing' = [removing EXCEPT ![t] = [process |-> process[s], real |-> real]]
                /\ UNCHANGED <<current, temp_to_real, real_to_temp>>
           \/ /\ ~\E s \in found : Running(s)
              /\ lock' = q
              /\ Done(t)
              /\ IF real /\ found # {} THEN ForgetMapping(id)
                 ELSE UNCHANGED <<temp_to_real, real_to_temp>>
              /\ UNCHANGED removing

\* The turn is over; q is the lock without it.
Finally(t, q) ==
    \/ /\ Handle(t) = None
       /\ Done(t)
       /\ lock' = q
       /\ UNCHANGED <<mapVars, proc, removing>>
    \/ /\ Handle(t) # None /\ q # <<>>
       /\ stage' = [stage EXCEPT ![t] = "leaves"]
       /\ lock' = Append(q, t)
       /\ UNCHANGED <<current, mapVars, proc, removing>>
    \/ Handle(t) # None /\ q = <<>> /\ RemoveSession(t, <<>>)

Leaves(t) ==
    /\ stage[t] = "leaves"
    /\ Holds(t)
    /\ t \notin cancel
    /\ RemoveSession(t, Tail(lock))
    /\ UNCHANGED <<resume, session, temp, captured, recorded, nodeVars, task, cleared,
                   cli_lock, process, stopVars, histVars>>

\* The process is dead; the mapping of the ids follows the session.
Removed(t) ==
    /\ t \notin cancel
    /\ stage[t] = "removing"
    /\ Done(t)
    /\ proc[removing[t].process] = "dead"
    /\ lock' = Tail(lock)
    /\ removing' = [removing EXCEPT ![t] = None]
    /\ IF removing[t].real THEN ForgetMapping(Handle(t))
       ELSE UNCHANGED <<temp_to_real, real_to_temp>>
    /\ UNCHANGED <<resume, session, temp, captured, recorded, nodeVars, task, cleared, pending,
                   sessions, cliVars, stopVars, histVars>>

-----------------------------------------------------------------------------
(* start_task: the subprocess and its output. *)

LeavesTask(t) == cli_lock' = [cli_lock EXCEPT ![session[t]] = IF @ = t THEN None ELSE @]

\* Once _cli_lock is its own: it may have waited for it.
InTask(t) == stage[t] = "spawning" /\ cli_lock[session[t]] \in {None, t}

Spawns(t) ==
    /\ t \notin cancel
    /\ InTask(t)
    /\ Moves(t, "spawning", "reading")
    /\ cli_lock' = [cli_lock EXCEPT ![session[t]] = t]
    /\ proc' = [proc EXCEPT ![t] = "alive"]
    /\ process' = [process EXCEPT ![session[t]] = t]
    /\ UNCHANGED <<resume, session, temp, captured, recorded, removing, nodeVars, treeVars,
                   lock, mapVars, stopVars, histVars>>

\* An exception of start_task, before there is a process.
SpawnFails(t) ==
    /\ t \notin cancel
    /\ InTask(t)
    /\ LeavesTask(t)
    /\ ended' = ended \union {t}
    /\ Finally(t, lock)
    /\ UNCHANGED <<resume, session, temp, captured, recorded, cancel, task, cleared, process,
                   stopVars, histVars>>

\* An exception while the turn handles what the process said: the generator stays
\* paused, its process may still run.
Raises(t) ==
    /\ t \notin cancel
    /\ stage[t] = "reading"
    /\ ended' = ended \union {t}
    /\ Finally(t, lock)
    /\ UNCHANGED <<resume, session, temp, captured, recorded, cancel, task, cleared, cli_lock,
                   process, stopVars, histVars>>

\* register_real_session_id and what its caller makes of it, whether or not the
\* manager still knew the temporary id.
Register(t) ==
    /\ IF temp[t] \in DOMAIN pending
       THEN /\ pending' = Without(pending, {temp[t]})
            /\ sessions' = With(sessions, Real(t), pending[temp[t]])
            /\ temp_to_real' = With(temp_to_real, temp[t], Real(t))
            /\ real_to_temp' = With(real_to_temp, Real(t), temp[t])
       ELSE UNCHANGED mapVars
    /\ captured' = [captured EXCEPT ![t] = Real(t)]
    /\ temp' = [temp EXCEPT ![t] = None]
    /\ recorded' = [recorded EXCEPT ![t] = Real(t)]

\* The first line with a session id; a turn without a temporary id ignores it.
SessionInfo(t) ==
    /\ temp[t] # None
    /\ t \notin cancel
    /\ IF Locked
       THEN /\ Moves(t, "reading", "registers")
            /\ lock' = Append(lock, t)
            /\ UNCHANGED <<temp, captured, recorded, mapVars>>
       ELSE stage[t] = "reading" /\ Register(t) /\ UNCHANGED <<stage, lock>>
    /\ UNCHANGED <<resume, session, removing, nodeVars, treeVars, cliVars, stopVars, histVars>>

Registered(t) ==
    /\ Holds(t)
    /\ t \notin cancel
    /\ Moves(t, "registers", "reading")
    /\ Register(t)
    /\ lock' = Tail(lock)
    /\ UNCHANGED <<resume, session, removing, nodeVars, treeVars, cliVars, stopVars, histVars>>

\* End of the output; the generator is over.  After a good exit the node is
\* COMPLETED, and has its session id, but without one it stays IN_PROGRESS; after a
\* bad one it is ERROR.
Exits(t) ==
    /\ t \notin cancel
    /\ stage[t] = "reading"
    /\ proc[t] = "dead"
    /\ LeavesTask(t)
    /\ \/ captured[t] = None /\ UNCHANGED <<recorded, ended>>
       \/ /\ captured[t] # None
          /\ recorded' = [recorded EXCEPT ![t] = captured[t]]
          /\ ended' = ended \union {t}
       \/ ended' = ended \union {t} /\ UNCHANGED recorded
    /\ Finally(t, lock)
    /\ UNCHANGED <<resume, session, temp, captured, cancel, task, cleared, process, stopVars,
                   histVars>>

\* The subprocess ends by itself, or because it was told to (at the latest when
\* it is killed, five seconds later).
Ends(t) ==
    /\ proc[t] = "alive"
    /\ proc' = [proc EXCEPT ![t] = "dead"]
    /\ UNCHANGED <<turnVars, removing, nodeVars, treeVars, lock, mapVars, cli_lock, process,
                   stopVars, histVars>>

Dies(t) ==
    /\ proc[t] = "dying"
    /\ proc' = [proc EXCEPT ![t] = "dead"]
    /\ UNCHANGED <<turnVars, removing, nodeVars, treeVars, lock, mapVars, cli_lock, process,
                   stopVars, histVars>>

\* A generator that was paused when its turn left it is closed:
\* it waits for the end of the error output, and lets go of the session.
GeneratorCloses(s) ==
    LET t == cli_lock[s]
    IN  /\ t # None
        /\ stage[t] \in {"leaves", "removing", "done"}
        /\ proc[t] = "dead"
        /\ cli_lock' = [cli_lock EXCEPT ![s] = None]
        /\ UNCHANGED <<turnVars, removing, nodeVars, treeVars, lock, mapVars, process, proc,
                       stopVars, histVars>>

-----------------------------------------------------------------------------
(* The end of a turn: cancellation, and the finally clause. *)

\* /stop in a reply, or /clear of a branch.  The turn is cancelled if it is the one
\* its tree knows of, and its node neither COMPLETED nor ERROR; any other turn runs
\* on, whatever becomes of its node.
Cancel(t) ==
    /\ up
    /\ TreeOf[t] \notin cleared
    /\ current[TreeOf[t]] = t
    /\ t \notin ended
    /\ cancel' = cancel \union {t}
    /\ ended' = ended \union {t}
    /\ UNCHANGED <<turnVars, removing, treeVars, lock, mapVars, cliVars, stopVars, histVars>>

\* The turns that begun in the trees of R, and the newest of them, whose tasks
\* cancel_tree cancels although their nodes may be COMPLETED or ERROR.
BegunIn(R) == {t \in Turns : Begun(t) /\ TreeOf[t] \in R}
NewestOf(R) == {t \in BegunIn(R) : task[TreeOf[t]] = t}

CancelTrees(R) ==
    /\ cancel' = cancel \union NewestOf(R)
    /\ ended' = ended \union BegunIn(R)
    /\ current' = [r \in Trees |-> IF r \in R THEN None ELSE current[r]]
    /\ UNCHANGED task

\* /clear in a reply to the root of r, after its Cancel.
ClearTree(r) ==
    /\ up
    /\ r \notin cleared
    /\ task[r] # None
    /\ CancelTrees({r})
    /\ cleared' = cleared \union {r}
    /\ UNCHANGED <<turnVars, removing, lock, mapVars, cliVars, stopVars, histVars>>

\* CancelledError reaches the turn where it is suspended.  start_task stops its
\* process and waits for its end; cancelled again, it waits for the end of the
\* error output.
CancelledReading(t) ==
    /\ t \in cancel
    /\ \/ Moves(t, "reading", "kills") /\ Signals({session[t]})
       \/ Moves(t, "kills", "drains") /\ UNCHANGED proc
    /\ cancel' = cancel \ {t}
    /\ UNCHANGED <<resume, session, temp, captured, recorded, removing, ended, treeVars, lock,
                   mapVars, cli_lock, process, stopVars, histVars>>

Killed(t) ==
    /\ t \notin cancel
    /\ stage[t] \in {"kills", "drains"}
    /\ proc[t] = "dead"
    /\ LeavesTask(t)
    /\ Finally(t, lock)
    /\ UNCHANGED <<resume, session, temp, captured, recorded, nodeVars, task, cleared, process,
                   stopVars, histVars>>

\* A process that is being spawned is killed by asyncio; the end of the error
\* output is no longer waited for.
CancelledTask(t) ==
    /\ t \in cancel
    /\ stage[t] \in {"spawning", "drains"}
    /\ cancel' = cancel \ {t}
    /\ LeavesTask(t)
    /\ Finally(t, lock)
    /\ UNCHANGED <<resume, session, temp, captured, recorded, ended, task, cleared, process,
                   stopVars, histVars>>

\* It waited for the lock of the manager, with its generator paused, if it had one.
CancelledWaiting(t) ==
    /\ t \in cancel
    /\ stage[t] \in {"wants", "registers"}
    /\ cancel' = cancel \ {t}
    /\ Finally(t, LeaveLock(t))
    /\ UNCHANGED <<resume, session, temp, captured, recorded, ended, task, cleared,
                   cli_lock, process, stopVars, histVars>>

\* In the finally clause: the removal is given up where it stands.
CancelledLeaving(t) ==
    /\ t \in cancel
    /\ stage[t] \in {"leaves", "removing"}
    /\ cancel' = cancel \ {t}
    /\ Done(t)
    /\ lock' = LeaveLock(t)
    /\ removing' = [removing EXCEPT ![t] = None]
    /\ unremoved' = IF stage[t] = "leaves" THEN unremoved \union {Handle(t)} ELSE unremoved
    /\ unmapped' = IF stage[t] = "removing" THEN unmapped \union {Handle(t)} ELSE unmapped
    /\ UNCHANGED <<resume, session, temp, captured, recorded, ended, task, cleared, mapVars,
                   cliVars, stopVars, beside>>

-----------------------------------------------------------------------------
(* stop_all_tasks, and stop_all alone when the program shuts down. *)

\* With the lock, call c looks which sessions there are.  mutant: it forgets
\* those that have no real id yet.
RegisteredOnly == Range(sessions)
AllSessions == Range(sessions) \union Range(pending)

EmptyMaps ==
    /\ pending' = Empty
    /\ sessions' = Empty
    /\ temp_to_real' = Empty
    /\ real_to_temp' = Empty

\* One session of V after the other: the loop stops at a process that it has to wait
\* for, or ends with the maps empty and the lock free for q.
StopsIn(c, V, q) ==
    \/ \E s \in V : \E W \in SUBSET (V \ {s}) :
        /\ Running(s)
        /\ \A v \in V \ (W \union {s}) : ~Running(v)
        /\ Signals({s})
        /\ killing' = [killing EXCEPT ![c] = process[s]]
        /\ victims' = [victims EXCEPT ![c] = W]
        /\ stop' = [stop EXCEPT ![c] = "stops"]
        /\ lock' = <<c>> \o q
        /\ UNCHANGED mapVars
    \/ /\ \A s \in V : ~Running(s)
       /\ stop' = [stop EXCEPT ![c] = "done"]
       /\ killing' = [killing EXCEPT ![c] = None]
       /\ victims' = [victims EXCEPT ![c] = {}]
       /\ EmptyMaps
       /\ lock' = q
       /\ UNCHANGED proc

Collects(c, q) ==
    /\ before' = [before EXCEPT ![c] = {t \in Turns : proc[t] = "alive"}]
    /\ StopsIn(c, AllSessions, q)

\* Call c gets the lock at once, or waits for it.
StopAll(c) ==
    /\ stop[c] = "idle"
    /\ \A d \in 1 .. c - 1 : stop[d] # "idle"
    /\ IF Locked
       THEN /\ stop' = [stop EXCEPT ![c] = "waits"]
            /\ lock' = Append(lock, c)
            /\ UNCHANGED <<mapVars, victims, killing, before, proc>>
       ELSE Collects(c, <<>>)
    /\ UNCHANGED <<turnVars, removing, cli_lock, process, histVars>>

\* /stop or /clear outside a reply: cancel_all, and then stop_all.
StopAllTasks(c) ==
    /\ up
    /\ StopAll(c)
    /\ CancelTrees(Trees \ cleared)
    /\ UNCHANGED <<cleared, up>>

\* A shutdown stops the chat platform first, and no command arrives any more.
Shutdown(c) ==
    /\ up
    /\ StopAll(c)
    /\ up' = FALSE
    /\ UNCHANGED <<nodeVars, treeVars>>

StopGetsLock(c) ==
    /\ stop[c] = "waits"
    /\ Holds(c)
    /\ Collects(c, Tail(lock))
    /\ UNCHANGED <<turnVars, removing, nodeVars, treeVars, cli_lock, process, up, histVars>>

\* The process it waited for is dead.
StopsNext(c) ==
    /\ stop[c] = "stops"
    /\ proc[killing[c]] = "dead"
    /\ StopsIn(c, victims[c], Tail(lock))
    /\ UNCHANGED <<turnVars, removing, nodeVars, treeVars, cli_lock, process, up, before,
                   histVars>>

\* The last call, that of the shutdown, is given up after five seconds, wherever it
\* stands: best_effort.
GivesUp(c) ==
    /\ ~up
    /\ stop[c] \in {"waits", "stops"}
    /\ \A d \in Stops : d > c => stop[d] = "idle"
    /\ stop' = [stop EXCEPT ![c] = "given_up"]
    /\ lock' = LeaveLock(c)
    /\ killing' = [killing EXCEPT ![c] = None]
    /\ victims' = [victims EXCEPT ![c] = {}]
    /\ UNCHANGED <<turnVars, removing, nodeVars, treeVars, mapVars, cliVars, up, before,
                   histVars>>

-----------------------------------------------------------------------------
\* What a turn does by itself, without its process.
TurnStep(t) ==
    \/ GetsLock(t) \/ Spawns(t) \/ SpawnFails(t)
    \/ Registered(t) \/ Exits(t) \/ Killed(t) \/ Leaves(t) \/ Removed(t)
    \/ CancelledReading(t) \/ CancelledTask(t) \/ CancelledWaiting(t) \/ CancelledLeaving(t)

StopStep(c) == StopGetsLock(c) \/ StopsNext(c)

Next ==
    \/ \E t \in Turns :
        \/ Start(t) \/ SessionInfo(t) \/ Ends(t) \/ Cancel(t)
        \/ Dies(t) \/ GeneratorCloses(t)
        \/ Raises(t) \/ TurnStep(t)
    \/ \E r \in Trees : ClearTree(r)
    \/ \E c \in Stops : StopAllTasks(c) \/ Shutdown(c) \/ GivesUp(c) \/ StopStep(c)

Spec == Init /\ [][Next]_vars

\* The event loop runs what is ready and a process that is told to end ends.  No
\* process has to end by itself.  No step comes back for ever, so that fairness of
\* all steps together is fairness of each.
FairSpec ==
    /\ Spec
    /\ WF_vars(\/ \E t \in Turns : TurnStep(t) \/ Dies(t) \/ GeneratorCloses(t)
               \/ \E c \in Stops : StopStep(c))

-----------------------------------------------------------------------------
\* Every variable ranges over what its Python counterpart can hold.
PartialTo(f, K, V) == DOMAIN f \subseteq K /\ Range(f) \subseteq V

TypeOK ==
    /\ stage \in [Turns -> Stages]
    /\ {resume[t] : t \in Turns} \union {temp[t] : t \in Turns}
        \union {captured[t] : t \in Turns} \union {recorded[t] : t \in Turns}
        \subseteq Ids \union {None}
    /\ session \in [Turns -> Turns \union {None}]
    /\ PartialTo(pending, Ids, Turns)
    /\ PartialTo(sessions, Ids, Turns)
    /\ PartialTo(temp_to_real, Ids, Ids)
    /\ PartialTo(real_to_temp, Ids, Ids)
    /\ Range(lock) \subseteq Turns \union Stops
    /\ cli_lock \in [Turns -> Turns \union {None}]
    /\ process \in [Turns -> Turns \union {None}]
    /\ proc \in [Turns -> {"none", "alive", "dying", "dead"}]
    /\ up \in BOOLEAN
    /\ stop \in [Stops -> {"idle", "waits", "stops", "done", "given_up"}]
    /\ current \in [Trees -> Turns \union {None}]
    /\ task \in [Trees -> Turns \union {None}]
    /\ cleared \subseteq Trees

Stopping == \E c \in Stops : stop[c] \in {"waits", "stops"}

\* "this kills subprocesses and ensures everything is dead": what ran when
\* stop_all got the lock is not alive when it returns.
StopAllKills ==
    \A c \in Stops : stop[c] = "done" => \A t \in before[c] \ beside : proc[t] # "alive"

\* The maps of ids, while nobody is at them: a registered session has one temporary
\* id, which leads back to it, and no session is both pending and registered.  A
\* removal that was cancelled may leave ids behind, but never the id of a session
\* that is still registered.
MapsAgree ==
    lock = <<>> =>
        /\ \A id \in DOMAIN sessions :
            id \in DOMAIN real_to_temp /\ temp_to_real[real_to_temp[id]] = id
        /\ DOMAIN real_to_temp \ DOMAIN sessions \subseteq unmapped
        /\ DOMAIN temp_to_real \subseteq Range(real_to_temp)
        /\ Range(pending) \intersect Range(sessions) = {}

\* No two turns share a session: the parent of a reply is over, or a stop_all that
\* came before in the lock has emptied the maps, when the reply looks for one.  Only
\* a removal that was cancelled in the line for the lock leaves its session to others.
SessionsUnshared ==
    \A t \in Turns :
        session[t] \in {None, t} \/ t \in beside \/ captured[t] \in unremoved

\* A cancelled turn ends, and its process with it, although the process alone
\* may run for ever, unless the cancellation hit the removal of its session while it
\* was in the line for the lock; and stop_all returns.
CancelledEnds ==
    \A t \in Turns :
        t \in cancel ~>
            \/ t \in beside
            \/ stage[t] = "done" /\ (proc[t] \in {"none", "dead"} \/ Handle(t) \in unremoved)
StopAllReturns ==
    \A c \in Stops : stop[c] = "waits" ~> stop[c] = "done" \/ (~up /\ stop[c] = "given_up")
=============================================================================
