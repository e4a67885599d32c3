------------------------------ MODULE TreeQueue ------------------------------
(***************************************************************************)
(* The conversation trees of the messaging bot (messaging/trees/) with     *)
(* everything that drives them: message handlers, processor tasks, the     *)
(* /stop and /clear commands and a restart of the process.                 *)
(*                                                                         *)
(* The code is single-threaded asyncio.  No critical section of            *)
(* MessageTree._lock or TreeQueueManager._lock contains a suspension       *)
(* point, so the locks are never contended and one action of this module   *)
(* is the code between two real suspension points:                         *)
(*   - sending a message's status message (a network call);                *)
(*   - a task created but not yet scheduled;                               *)
(*   - waiting for the next event of the claude subprocess;                *)
(*   - freeing the CLI session when a turn is over;                        *)
(*   - stopping every CLI session, and deleting messages for /clear.       *)
(*                                                                         *)
(* A node is the message that created it; its status message resolves to   *)
(* the same node (resolve_parent_node_id) and is not modelled apart.  A    *)
(* tree is named by its root node.                                         *)
(***************************************************************************)
EXTENDS Naturals, Sequences, SequencesExt

CONSTANTS
    Nodes,         \* the messages users may send
    None,          \* Python's None where a node is expected
    Clears,        \* the commands that suspend half-way (/stop, /clear) running at once
    Commands,      \* the user commands and faults of this instance
    MaxRestarts    \* bound: how often the process may restart

ASSUME NoneAssumption == None \notin Nodes
ASSUME CommandsAssumption ==
    Commands \subseteq {"stop", "stop_all", "clear_branch", "clear_all", "restart"}
ASSUME RestartsAssumption == MaxRestarts \in Nat

VARIABLES
    \* --- handlers and commands ---
    handler,   \* handler[n]: where message n's handle_message stands
    cmd,       \* cmd[c]: the suspended command c and the nodes it remembers
    restarts,  \* restarts so far
    \* --- the repository and its trees ---
    parent,    \* parent[n]: the node n replies to
    root,      \* root[n]: the tree n was added to
    known,     \* nodes the current repository maps to one of its trees
    member,    \* nodes present in _nodes of their tree object
    state,     \* MessageNode.state
    \* --- per tree, indexed by the root ---
    queue,     \* _queue
    busy,      \* _is_processing
    current,   \* _current_node_id
    ctask,     \* _current_task, named by the node it processes
    \* --- per processor task, indexed by its node ---
    task,      \* where process_node stands
    cancel,    \* live tasks on which cancel() was called
    captured,  \* tasks whose captured_session_id is set
    held,      \* tasks whose local variable tree is not None
    \* --- the session store ---
    saved      \* state of each node in the tree the store last saved

handlerVars == <<handler, cmd, restarts>>
treeVars    == <<parent, root, known, member>>
queueVars   == <<queue, busy, current, ctask>>
turnVars    == <<captured, held>>
vars == <<handlerVars, treeVars, state, queueVars, task, cancel, turnVars, saved>>

States   == {"pending", "in_progress", "completed", "error"}
Terminal == {"completed", "error"}
Unsaved  == "unsaved"
Idle     == [op |-> "idle", nodes |-> {}]

-----------------------------------------------------------------------------
Active(n) == state[n] \notin Terminal

\* A task that asyncio has not finished.
Live(n) == task[n] \in {"created", "running", "closing"}

\* _current_task.cancel() takes effect only while that task is not done.
Cancellable(r) == ctask[r] # None /\ Live(ctask[r])

\* Nodes of T reachable from b by child links that stay inside T.
Below(b, T) ==
    {n \in T : \A S \in SUBSET T :
        (\A m \in T : parent[m] \in S \union {b} => m \in S) => n \in S}

\* get_descendants; mutant: the children are left behind.
BranchRootOnly(b) == {b}
Descendants(b) == {b} \union Below(b, member)

\* get_pending_children.
PendingChildren(b) == Below(b, {n \in member : state[n] = "pending"})

NodesOf(R) == {n \in member : root[n] \in R}
Trees      == {root[n] : n \in known}

\* Mutated forms, marked "mutant", are plausible bugs that the properties below
\* have to catch; no specification uses them.

WithState(S, s) == [n \in Nodes |-> IF n \in S THEN s ELSE state[n]]

\* process_node skips such a node; mutant: it does not look.
NeverSkips(n) == n \in {}
AlreadyFailed(n) == state[n] = "error"

\* enqueue_and_start may start a task; mutant: it looks at the queue only.
QueueIsEmpty(r) == queue[r] = <<>>
TreeFree(r) == ~busy[r]

\* The queue s once remove_if_present took the nodes of S out, as a set with that
\* one sequence: what stays keeps its order.  (SelectSeq, stated without
\* recursion; MCTreeQueue compares the two.)
Without(s, S) ==
    LET kept == {i \in DOMAIN s : s[i] \notin S}
    IN  {t \in SeqOf(ToSet(s), Len(s)) :
            \E f \in [DOMAIN t -> kept] :
                /\ \A i, j \in DOMAIN t : i < j => f[i] < f[j]
                /\ \A k \in kept : \E i \in DOMAIN t : f[i] = k
                /\ \A i \in DOMAIN t : t[i] = s[f[i]]}

\* drain_queue_and_mark_cancelled for the trees in R; mutant: marks, but keeps.
MarkedOnly(R) == queue
Drained(R) == [r \in Nodes |-> IF r \in R THEN <<>> ELSE queue[r]]

\* SessionStore.save_tree of every tree in R, as the step leaves it; mutant: it
\* serialises the tree before the step changed it.
SaveTreesBefore(R) ==
    saved' = [n \in Nodes |->
        IF root'[n] \notin R THEN saved[n]
        ELSE IF n \in member' THEN state[n] ELSE Unsaved]

SaveTrees(R) ==
    saved' = [n \in Nodes |->
        IF root'[n] \notin R THEN saved[n]
        ELSE IF n \in member' THEN state'[n] ELSE Unsaved]

\* The tree local of task n, used to write node n: dropped nodes are ignored.
Writable(n) == n \in held /\ n \in member

\* mark_node_error: the node and its pending descendants, found through the
\* repository, become ERROR.  They stay in the queue and nothing is saved.
ErrorNodes(n) == IF n \in known THEN {n} \union PendingChildren(n) ELSE {}

-----------------------------------------------------------------------------
Init ==
    /\ handler = [n \in Nodes |-> "idle"]
    /\ cmd = [c \in Clears |-> Idle]
    /\ restarts = 0
    /\ parent = [n \in Nodes |-> None]
    /\ root = [n \in Nodes |-> None]
    /\ known = {}
    /\ member = {}
    /\ state = [n \in Nodes |-> "pending"]
    /\ queue = [n \in Nodes |-> <<>>]
    /\ busy = [n \in Nodes |-> FALSE]
    /\ current = [n \in Nodes |-> None]
    /\ ctask = [n \in Nodes |-> None]
    /\ task = [n \in Nodes |-> "none"]
    /\ cancel = {}
    /\ captured = {}
    /\ held = {}
    /\ saved = [n \in Nodes |-> Unsaved]

-----------------------------------------------------------------------------
(* Message handlers: _handle_message_impl. *)

\* Look up the replied-to node, then suspend sending the status message.
Receive(n, p) ==
    /\ handler[n] = "idle"
    /\ p \in known \union {None}
    /\ handler' = [handler EXCEPT ![n] = "status"]
    /\ parent' = [parent EXCEPT ![n] = p]
    /\ UNCHANGED <<cmd, restarts, root, known, member, state, queueVars, task,
                   cancel, turnVars, saved>>

\* Sending the status message failed: the exception ends the handler.
StatusFails(n) ==
    /\ handler[n] = "status"
    /\ handler' = [handler EXCEPT ![n] = "done"]
    /\ parent' = [parent EXCEPT ![n] = None]
    /\ UNCHANGED <<cmd, restarts, root, known, member, state, queueVars, task, cancel,
                   turnVars, saved>>

\* enqueue_and_start: wait behind a busy tree, or take it and start a task.
EnqueueAndStart(n, r) ==
    IF TreeFree(r)
    THEN /\ busy' = [busy EXCEPT ![r] = TRUE]
         /\ current' = [current EXCEPT ![r] = n]
         /\ ctask' = [ctask EXCEPT ![r] = n]
         /\ task' = [task EXCEPT ![n] = "created"]
         /\ UNCHANGED queue
    ELSE /\ queue' = [queue EXCEPT ![r] = Append(@, n)]
         /\ UNCHANGED <<busy, current, ctask, task>>

\* Add node n to tree r, save the tree and enqueue the node.
Attach(n, r) ==
    /\ handler' = [handler EXCEPT ![n] = "done"]
    /\ root' = [root EXCEPT ![n] = r]
    /\ known' = known \union {n}
    /\ member' = member \union {n}
    /\ state' = [state EXCEPT ![n] = "pending"]
    /\ SaveTrees({r})
    /\ EnqueueAndStart(n, r)
    /\ UNCHANGED <<cmd, restarts, parent, cancel, turnVars>>

CreateTree(n) ==
    /\ handler[n] = "status"
    /\ parent[n] = None
    /\ Attach(n, n)

\* add_to_tree looks the parent up again, in the repository of this moment.
AddToTree(n) ==
    /\ handler[n] = "status"
    /\ parent[n] \in known
    /\ Attach(n, root[parent[n]])

\* The parent went away while the status message was being sent: ValueError.
ParentGone(n) ==
    /\ handler[n] = "status"
    /\ parent[n] # None
    /\ parent[n] \notin known
    /\ handler' = [handler EXCEPT ![n] = "done"]
    /\ parent' = [parent EXCEPT ![n] = None]
    /\ UNCHANGED <<cmd, restarts, root, known, member, state, queueVars, task, cancel,
                   turnVars, saved>>

-----------------------------------------------------------------------------
(* Processor tasks: process_node around _process_node_impl. *)

\* The task of n is over: its locals are gone and it cannot be cancelled.
TaskEnds(n) ==
    /\ cancel' = cancel \ {n}
    /\ captured' = captured \ {n}
    /\ held' = held \ {n}

\* _process_next, as the last thing the task of n does for its tree.  A node
\* that left the tree is dequeued like any other, but gets no task.
ProcessNext(n) ==
    LET r == root[n]
        next == Head(queue[r])
    IN  IF queue[r] = <<>>
        THEN /\ busy' = [busy EXCEPT ![r] = FALSE]
             /\ current' = [current EXCEPT ![r] = None]
             /\ task' = [task EXCEPT ![n] = "done"]
             /\ UNCHANGED <<queue, ctask>>
        ELSE /\ queue' = [queue EXCEPT ![r] = Tail(@)]
             /\ busy' = [busy EXCEPT ![r] = TRUE]
             /\ current' = [current EXCEPT ![r] = next]
             /\ IF next \in member
                THEN /\ ctask' = [ctask EXCEPT ![r] = next]
                     /\ task' = [task EXCEPT ![n] = "done", ![next] = "created"]
                ELSE /\ task' = [task EXCEPT ![n] = "done"]
                     /\ UNCHANGED ctask

\* A task cancelled before its first step never runs any of its body, the
\* finally clause of process_node included.
Dropped(n) ==
    /\ task[n] = "created"
    /\ n \in cancel
    /\ task' = [task EXCEPT ![n] = "done"]
    /\ TaskEnds(n)
    /\ UNCHANGED <<handlerVars, treeVars, state, queueVars, saved>>

\* A node that became ERROR while it waited is skipped.
Skip(n) ==
    /\ task[n] = "created"
    /\ n \notin cancel
    /\ AlreadyFailed(n)
    /\ ProcessNext(n)
    /\ TaskEnds(n)
    /\ UNCHANGED <<handlerVars, treeVars, state, saved>>

\* The turn starts: the tree is found again through the repository.
Begin(n) ==
    /\ task[n] = "created"
    /\ n \notin cancel
    /\ ~AlreadyFailed(n)
    /\ task' = [task EXCEPT ![n] = "running"]
    /\ held' = IF n \in known THEN held \union {n} ELSE held
    /\ state' = WithState({n} \intersect known \intersect member, "in_progress")
    /\ UNCHANGED <<handlerVars, treeVars, queueVars, cancel, captured, saved>>

\* The task is resumed by an event of its claude subprocess.
OnEvent(n) == task[n] = "running" /\ n \notin cancel

\* session_info: the real session id is known and persisted.
SessionInfo(n) ==
    /\ OnEvent(n)
    /\ n \notin captured
    /\ captured' = captured \union {n}
    /\ state' = WithState(IF Writable(n) THEN {n} ELSE {}, "in_progress")
    /\ UNCHANGED <<handlerVars, treeVars, queueVars, task, cancel, held>>
    /\ SaveTrees(IF n \in held THEN {root[n]} ELSE {})

\* An error event; the turn goes on reading.
ErrorEvent(n) ==
    /\ OnEvent(n)
    /\ state' = WithState(IF n \in held THEN ErrorNodes(n) ELSE {}, "error")
    /\ UNCHANGED <<handlerVars, treeVars, queueVars, task, cancel, captured, held, saved>>

\* An event that is not the last one raises, or the subprocess cannot start.
Raises(n) ==
    /\ OnEvent(n)
    /\ state' = WithState(IF n \in held THEN ErrorNodes(n) ELSE {}, "error")
    /\ task' = [task EXCEPT ![n] = "closing"]
    /\ UNCHANGED <<handlerVars, treeVars, queueVars, cancel, captured, held, saved>>

\* exit: code 0 parses to complete, any other code to error then complete.
\* complete marks the node COMPLETED when the session id was captured.
Exit(n, ok) ==
    /\ OnEvent(n)
    /\ task' = [task EXCEPT ![n] = "closing"]
    /\ LET complete == n \in held /\ n \in captured
           errors   == IF ok \/ n \notin held THEN {} ELSE ErrorNodes(n)
       IN  /\ state' = [m \in Nodes |->
                CASE complete /\ m = n /\ n \in member -> "completed"
                  [] m \in errors /\ ~(complete /\ m = n) -> "error"
                  [] OTHER -> state[m]]
           /\ UNCHANGED <<handlerVars, treeVars, queueVars, cancel, captured, held>>
           /\ SaveTrees(IF complete THEN {root[n]} ELSE {})

\* CancelledError arrives once the subprocess is stopped; it is not re-raised.
Cancelled(n) ==
    /\ task[n] = "running"
    /\ n \in cancel
    /\ task' = [task EXCEPT ![n] = "closing"]
    /\ state' = WithState(IF Writable(n) THEN {n} ELSE {}, "error")
    /\ UNCHANGED <<handlerVars, treeVars, queueVars, cancel, turnVars, saved>>

\* mutant: the end of a turn frees the tree without looking at the queue.
FinishForgets(n) ==
    /\ task[n] = "closing"
    /\ busy' = [busy EXCEPT ![root[n]] = FALSE]
    /\ current' = [current EXCEPT ![root[n]] = None]
    /\ task' = [task EXCEPT ![n] = "done"]
    /\ TaskEnds(n)
    /\ UNCHANGED <<handlerVars, treeVars, state, queue, ctask, saved>>

\* remove_session returned (or was cancelled): the finally of process_node.
Finish(n) ==
    /\ task[n] = "closing"
    /\ ProcessNext(n)
    /\ TaskEnds(n)
    /\ UNCHANGED <<handlerVars, treeVars, state, saved>>

-----------------------------------------------------------------------------
(* Commands: handle_stop_command, handle_clear_command, stop_task,         *)
(* stop_all_tasks and the manager operations they call.                    *)

\* /stop in reply to a message: cancel_node, then save its tree.
StopNode(n) ==
    LET r == root[n]
    IN  /\ "stop" \in Commands
        /\ n \in known
        /\ Active(n)
        /\ cancel' = IF current[r] = n /\ Cancellable(r)
                     THEN cancel \union {ctask[r]} ELSE cancel
        /\ \E q \in Without(queue[r], {n}) : queue' = [queue EXCEPT ![r] = q]
        /\ state' = WithState({n}, "error")
        /\ UNCHANGED <<handlerVars, treeVars, busy, current, ctask, task, turnVars>>
        /\ SaveTrees({r})

\* The nodes cancel_tree reports for the trees in R.
CancelledIn(R) ==
    {n \in NodesOf(R) :
        \/ n \in ToSet(queue[root[n]])
        \/ current[root[n]] = n /\ Cancellable(root[n]) /\ Active(n)}

\* cancel_tree for every tree in R: the current task is cancelled, the queue
\* drained, every unfinished node becomes ERROR and the flags are reset.
CancelTrees(R) ==
    /\ cancel' = cancel \union {ctask[r] : r \in {q \in R : Cancellable(q)}}
    /\ state' = WithState({n \in NodesOf(R) : Active(n)} \union CancelledIn(R), "error")
    /\ queue' = Drained(R)
    /\ busy' = [r \in Nodes |-> r \notin R /\ busy[r]]
    /\ current' = [r \in Nodes |-> IF r \in R THEN None ELSE current[r]]
    /\ UNCHANGED <<ctask, task>>

\* /stop and /clear outside a reply: cancel_all, then suspend stopping the CLI
\* sessions while the cancelled nodes are remembered.
StopAll(c, op) ==
    /\ op \in {"stop_all", "clear_all"} \intersect Commands
    /\ cmd[c] = Idle
    /\ cmd' = [cmd EXCEPT ![c] = [op |-> op, nodes |-> CancelledIn(Trees)]]
    /\ CancelTrees(Trees)
    /\ UNCHANGED <<handler, restarts, treeVars, turnVars, saved>>

\* CLISessionManager.stop_all returned: save the trees of the remembered nodes
\* that are still in the repository.  /stop is over, /clear deletes messages.
StopAllReturns(c) ==
    /\ cmd[c].op \in {"stop_all", "clear_all"}
    /\ cmd' = [cmd EXCEPT ![c] =
                IF cmd[c].op = "stop_all" THEN Idle ELSE [op |-> "deleting", nodes |-> {}]]
    /\ UNCHANGED <<handler, restarts, treeVars, state, queueVars, task, cancel, turnVars>>
    /\ SaveTrees({root[n] : n \in cmd[c].nodes \intersect known})

\* The messages are deleted: clear_all of the store, then a new manager.  The
\* old trees live on in the tasks that still hold them.
ReplaceManager(c) ==
    /\ cmd[c].op = "deleting"
    /\ cmd' = [cmd EXCEPT ![c] = Idle]
    /\ known' = {}
    /\ saved' = [n \in Nodes |-> Unsaved]
    /\ UNCHANGED <<handler, restarts, parent, root, member, state, queueVars, task,
                   cancel, turnVars>>

\* /clear in reply to a message: cancel_branch, then suspend deleting messages.
ClearBranch(c, b) ==
    LET r      == root[b]
        active == {n \in Descendants(b) : Active(n)}
    IN  /\ "clear_branch" \in Commands
        /\ cmd[c] = Idle
        /\ b \in known
        /\ cmd' = [cmd EXCEPT ![c] = [op |-> "clear_branch", nodes |-> {b}]]
        /\ cancel' = IF current[r] \in active /\ Cancellable(r)
                     THEN cancel \union {ctask[r]} ELSE cancel
        /\ \E q \in Without(queue[r], active \ {current[r]}) :
               queue' = [queue EXCEPT ![r] = q]
        /\ state' = WithState(active, "error")
        /\ UNCHANGED <<handler, restarts, treeVars, busy, current, ctask, task, turnVars>>
        /\ SaveTrees(IF active = {} THEN {} ELSE {r})

\* The messages are deleted: remove_branch.  Removing the root cancels and
\* forgets the whole tree, whose object keeps its nodes.
RemoveBranch(c, b) ==
    LET r    == root[b]
        gone == IF b = r THEN NodesOf({r}) ELSE Descendants(b)
    IN  /\ cmd[c].op = "clear_branch"
        /\ cmd[c].nodes = {b}
        /\ b \in known
        /\ cmd' = [cmd EXCEPT ![c] = Idle]
        /\ known' = known \ gone
        /\ UNCHANGED <<handler, restarts, parent, root, turnVars>>
        /\ IF b = r
           THEN /\ CancelTrees({r})
                /\ saved' = [n \in Nodes |-> IF root[n] = r THEN Unsaved ELSE saved[n]]
                /\ UNCHANGED member
           ELSE /\ member' = member \ gone
                /\ UNCHANGED <<state, queueVars, task, cancel>>
                /\ SaveTrees({r})

\* Somebody else removed the branch first.
BranchGone(c, b) ==
    /\ cmd[c].op = "clear_branch"
    /\ cmd[c].nodes = {b}
    /\ b \notin known
    /\ cmd' = [cmd EXCEPT ![c] = Idle]
    /\ UNCHANGED <<handler, restarts, treeVars, state, queueVars, task, cancel,
                   turnVars, saved>>

-----------------------------------------------------------------------------
\* The process ends after flushing the store, and a new one restores the saved
\* trees: _restore_tree_state with cleanup_stale_nodes.
Restart ==
    LET restored == {n \in Nodes : saved[n] # Unsaved}
    IN  /\ "restart" \in Commands
        /\ restarts < MaxRestarts
        /\ restarts' = restarts + 1
        /\ handler' = [n \in Nodes |-> IF handler[n] = "status" THEN "done" ELSE handler[n]]
        /\ cmd' = [c \in Clears |-> Idle]
        /\ known' = restored
        /\ member' = restored
        /\ state' = [n \in Nodes |->
                        IF n \notin restored THEN state[n]
                        ELSE IF saved[n] \in Terminal THEN saved[n] ELSE "error"]
        /\ saved' = [n \in Nodes |-> IF n \in restored THEN state'[n] ELSE Unsaved]
        /\ queue' = [r \in Nodes |-> <<>>]
        /\ busy' = [r \in Nodes |-> FALSE]
        /\ current' = [r \in Nodes |-> None]
        /\ ctask' = [r \in Nodes |-> None]
        /\ task' = [n \in Nodes |-> IF Live(n) THEN "done" ELSE task[n]]
        /\ cancel' = {}
        /\ held' = {}
        /\ captured' = {}
        /\ UNCHANGED <<parent, root>>

HandlerStep(n) ==
    \/ \E p \in Nodes \union {None} : Receive(n, p)
    \/ StatusFails(n)
    \/ CreateTree(n)
    \/ AddToTree(n)
    \/ ParentGone(n)

CliStep(n) ==
    \/ SessionInfo(n)
    \/ ErrorEvent(n)
    \/ Raises(n)
    \/ \E ok \in BOOLEAN : Exit(n, ok)

TaskStep(n) ==
    \/ Dropped(n)
    \/ Skip(n)
    \/ Begin(n)
    \/ Cancelled(n)
    \/ Finish(n)

CommandStep(c) ==
    \/ \E op \in {"stop_all", "clear_all"} : StopAll(c, op)
    \/ StopAllReturns(c)
    \/ ReplaceManager(c)
    \/ \E b \in Nodes : ClearBranch(c, b) \/ RemoveBranch(c, b) \/ BranchGone(c, b)

Next ==
    \/ \E n \in Nodes : HandlerStep(n) \/ CliStep(n) \/ TaskStep(n) \/ StopNode(n)
    \/ \E c \in Clears : CommandStep(c)
    \/ Restart

Spec == Init /\ [][Next]_vars

\* The event loop runs every scheduled task, and a claude subprocess that is
\* not stopped exits: both are assumed, neither is promised for user input.
Fairness ==
    \A n \in Nodes :
        /\ WF_vars(TaskStep(n))
        /\ WF_vars(Raises(n) \/ \E ok \in BOOLEAN : Exit(n, ok))

FairSpec == Spec /\ Fairness

-----------------------------------------------------------------------------
NodeOrNone == Nodes \union {None}

\* Every variable ranges over the values its Python counterpart can hold.
TypeOK ==
    /\ handler \in [Nodes -> {"idle", "status", "done"}]
    /\ cmd \in [Clears -> [op : {"idle", "stop_all", "clear_all", "deleting", "clear_branch"},
                           nodes : SUBSET Nodes]]
    /\ restarts \in 0 .. MaxRestarts
    /\ parent \in [Nodes -> NodeOrNone]
    /\ root \in [Nodes -> NodeOrNone]
    /\ known \in SUBSET Nodes
    /\ member \in SUBSET Nodes
    /\ state \in [Nodes -> States]
    /\ queue \in [Nodes -> Seq(Nodes)]
    /\ busy \in [Nodes -> BOOLEAN]
    /\ current \in [Nodes -> NodeOrNone]
    /\ ctask \in [Nodes -> NodeOrNone]
    /\ task \in [Nodes -> {"none", "created", "running", "closing", "done"}]
    /\ cancel \in SUBSET Nodes
    /\ captured \in SUBSET Nodes
    /\ held \in SUBSET Nodes
    /\ saved \in [Nodes -> States \union {Unsaved}]

\* A node without a tree has no task and no trace in the repository or the
\* store, and a message gets its tree at the end of its handler only.
FreshMessages ==
    \A n \in Nodes :
        /\ handler[n] # "done" => root[n] = None
        /\ root[n] = None =>
            n \notin known \union member /\ task[n] = "none" /\ saved[n] = Unsaved

Waiting(n) == root[n] # None /\ n \in ToSet(queue[root[n]])

\* The queue of a tree: an idle tree has nobody waiting, no node waits twice,
\* and a waiting node belongs to the tree and was never started.
QueueSound ==
    \A r \in Nodes :
        /\ ~busy[r] => queue[r] = <<>>
        /\ \A i \in DOMAIN queue[r] :
            /\ root[queue[r][i]] = r
            /\ task[queue[r][i]] = "none"
            /\ \A j \in DOMAIN queue[r] : queue[r][i] = queue[r][j] => i = j

\* The repository is closed: a node it maps is in its tree, with its root and
\* its parent, so no reply hangs on a message that /clear removed.
NoOrphans ==
    \A n \in known :
        /\ n \in member
        /\ root[n] \in known /\ root[root[n]] = root[n]
        /\ parent[n] # None => parent[n] \in known /\ root[parent[n]] = root[n]

\* A restart loses no finished turn and forgets no node: what the store holds
\* of a mapped node agrees with memory on whether the turn completed.
StoreCurrent ==
    \A n \in known :
        /\ saved[n] # Unsaved
        /\ saved[n] = "completed" <=> state[n] = "completed"

\* Nobody overtakes: a node that starts was first in its tree's queue, or the
\* queue was empty (handler.py: the per-tree queue ensures ordered processing).
StartsInOrder ==
    [][\A n \in Nodes :
        task[n] = "none" /\ task'[n] = "created" =>
            LET q == queue[root'[n]] IN q = <<>> \/ Head(q) = n]_vars

\* A turn cancelled or failed before its first step stays ERROR and never runs,
\* whoever else still writes to the tree.
NeverRevived ==
    [][\A n \in Nodes :
        n \in member /\ task[n] \in {"none", "created"} /\ state[n] = "error" =>
            state'[n] = "error" /\ task'[n] # "running"]_vars

\* Ordered processing: a tree never runs two turns at once.  It needs Commands
\* without "stop_all" and "clear_all", whose cancel_tree frees the tree while
\* the task it cancelled has yet to run its finally clause.
OneTurnPerTree ==
    \A m, n \in Nodes :
        Live(m) /\ Live(n) /\ root[m] = root[n] => m = n

\* A command cancels the task of tree r before its first step, while r counts on it:
\* the task is dropped, and nothing frees the tree.
CutShort(r) ==
    current[r] # None /\ task[current[r]] = "created" /\ current[r] \in cancel

\* Tree r was handed to a node that a /clear took out of it: no task was made for it.
HandedToNobody(r) ==
    current[r] # None /\ current[r] \notin member /\ task[current[r]] = "none"

\* A queued message gets its turn, or leaves the queue because a command cancelled
\* it, whatever /stop and /clear do, unless its tree (any tree, as long as it has
\* none) loses its processor in one of two ways: a command in a reply cancels the
\* task before it begins, or a /clear leaves a removed node in the queue.  A global
\* /stop is no exception: it drops tasks, but takes the queue along and frees the tree.
QueuedGetsTurn ==
    \A n \in Nodes :
        [](\A r \in Nodes : CutShort(r) \/ HandedToNobody(r) => root[n] \notin {r, None})
            => (Waiting(n) ~> ~Waiting(n))

=============================================================================
