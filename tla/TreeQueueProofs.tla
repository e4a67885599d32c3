--------------------------- MODULE TreeQueueProofs ---------------------------
(***************************************************************************)
(* What TLAPS proves about TreeQueue for every set of messages, every set  *)
(* of commands and any number of restarts: the types and the queues, then  *)
(* the shape of the trees, ordered processing, the agreement of the store  *)
(* with the memory, and the turns that are never revived.                  *)
(***************************************************************************)
EXTENDS TreeQueue, SequenceTheorems, TLAPS

(***************************************************************************)
(* The queue without some nodes keeps only nodes of the queue, keeps them  *)
(* distinct if they were, and stays empty if it was (remove_if_present).   *)
(***************************************************************************)
LEMMA WithoutFacts ==
    ASSUME NEW s \in Seq(Nodes), NEW S, NEW t \in Without(s, S)
    PROVE  /\ t \in Seq(Nodes)
           /\ \A i \in DOMAIN t : \E k \in DOMAIN s : t[i] = s[k] /\ t[i] \notin S
           /\ (\A i, j \in DOMAIN s : s[i] = s[j] => i = j)
                => \A i, j \in DOMAIN t : t[i] = t[j] => i = j
           /\ s = <<>> => t = <<>>
<1> DEFINE kept == {i \in DOMAIN s : s[i] \notin S}
<1>1. t \in SeqOf(ToSet(s), Len(s))
  BY DEF Without
<1>2. PICK f \in [DOMAIN t -> kept] :
          /\ \A i, j \in DOMAIN t : i < j => f[i] < f[j]
          /\ \A i \in DOMAIN t : t[i] = s[f[i]]
  BY DEF Without
<1>3. PICK m \in 0 .. Len(s) : t \in [1 .. m -> ToSet(s)]
  BY <1>1 DEF SeqOf
<1>4. ToSet(s) \subseteq Nodes
  BY DEF ToSet
<1>5. t \in Seq(Nodes)
  BY <1>3, <1>4
<1>6. \A i \in DOMAIN t : f[i] \in DOMAIN s /\ t[i] = s[f[i]] /\ t[i] \notin S
  BY <1>2
<1>7. ASSUME \A i, j \in DOMAIN s : s[i] = s[j] => i = j,
             NEW i \in DOMAIN t, NEW j \in DOMAIN t, t[i] = t[j]
      PROVE  i = j
  <2>1. f[i] = f[j]
    BY <1>6, <1>7
  <2>2. i \in Nat /\ j \in Nat /\ f[i] \in Nat
    BY <1>3, <1>6
  <2>3. ~(i < j) /\ ~(j < i)
    BY <1>2, <2>1, <2>2
  <2> QED
    BY <2>2, <2>3
<1>8. s = <<>> => t = <<>>
  BY <1>3
<1> QED
  BY <1>5, <1>6, <1>7, <1>8

-----------------------------------------------------------------------------
(***************************************************************************)
(* Every variable keeps to its values, and messages get their tree at the  *)
(* end of their handler only.  The two need each other: the trees that     *)
(* cancel_all visits are the roots of mapped nodes, which exist because a  *)
(* node without a tree is never mapped.                                    *)
(***************************************************************************)
TypeInv == TypeOK /\ FreshMessages

LEMMA RootExists ==
    ASSUME TypeInv, NEW n \in Nodes, n \in known \union member \/ task[n] # "none" \/ saved[n] # Unsaved
    PROVE  root[n] \in Nodes
  BY DEF TypeInv, TypeOK, FreshMessages, NodeOrNone

LEMMA CancelTreesTypes ==
    ASSUME TypeInv, NEW R \in SUBSET Nodes, CancelTrees(R)
    PROVE  /\ cancel' \in SUBSET Nodes
           /\ state' \in [Nodes -> States]
           /\ queue' \in [Nodes -> Seq(Nodes)]
           /\ busy' \in [Nodes -> BOOLEAN]
           /\ current' \in [Nodes -> NodeOrNone]
           /\ UNCHANGED <<ctask, task>>
  BY DEF TypeInv, TypeOK, CancelTrees, Cancellable, NodeOrNone, WithState, States, Drained

LEMMA ProcessNextTypes ==
    ASSUME TypeInv, NEW n \in Nodes, task[n] # "none", ProcessNext(n)
    PROVE  /\ queue' \in [Nodes -> Seq(Nodes)]
           /\ busy' \in [Nodes -> BOOLEAN]
           /\ current' \in [Nodes -> NodeOrNone]
           /\ ctask' \in [Nodes -> NodeOrNone]
           /\ task' \in [Nodes -> {"none", "created", "running", "closing", "done"}]
           /\ \A m \in Nodes : m \notin member /\ m # n => task'[m] = task[m]
<1> DEFINE r == root[n]
           next == Head(queue[r])
<1>1. r \in Nodes
  BY RootExists
<1>2. /\ queue \in [Nodes -> Seq(Nodes)] /\ queue[r] \in Seq(Nodes)
      /\ busy \in [Nodes -> BOOLEAN]
      /\ current \in [Nodes -> NodeOrNone]
      /\ ctask \in [Nodes -> NodeOrNone]
      /\ task \in [Nodes -> {"none", "created", "running", "closing", "done"}]
  BY <1>1 DEF TypeInv, TypeOK
<1>3. None \in NodeOrNone /\ Nodes \subseteq NodeOrNone
  BY DEF NodeOrNone
<1>4. CASE queue[r] = <<>>
  BY <1>1, <1>2, <1>3, <1>4 DEF ProcessNext
<1>5. CASE queue[r] # <<>>
  <2>1. next \in Nodes /\ Tail(queue[r]) \in Seq(Nodes)
    BY <1>2, <1>5, HeadTailProperties
  <2>2. /\ queue' = [queue EXCEPT ![r] = Tail(@)]
        /\ busy' = [busy EXCEPT ![r] = TRUE]
        /\ current' = [current EXCEPT ![r] = next]
    BY <1>5 DEF ProcessNext
  <2>3. CASE next \in member
    <3>1. /\ ctask' = [ctask EXCEPT ![r] = next]
          /\ task' = [task EXCEPT ![n] = "done", ![next] = "created"]
      BY <1>5, <2>3 DEF ProcessNext
    <3> HIDE DEF r, next
    <3> QED
      BY <1>1, <1>2, <1>3, <2>1, <2>2, <2>3, <3>1
  <2>4. CASE next \notin member
    <3>1. /\ ctask' = ctask
          /\ task' = [task EXCEPT ![n] = "done"]
      BY <1>5, <2>4 DEF ProcessNext
    <3> HIDE DEF r, next
    <3> QED
      BY <1>1, <1>2, <1>3, <2>1, <2>2, <2>4, <3>1
  <2> QED
    BY <2>3, <2>4
<1> QED
  BY <1>4, <1>5

LEMMA SaveTreesTypes ==
    ASSUME TypeInv, NEW R, state' \in [Nodes -> States], SaveTrees(R)
    PROVE  /\ saved' \in [Nodes -> States \union {Unsaved}]
           /\ \A m \in Nodes : root'[m] \notin R => saved'[m] = saved[m]
  BY DEF TypeInv, TypeOK, SaveTrees

LEMMA WithStateTypes ==
    ASSUME TypeInv, NEW S, NEW v \in States
    PROVE  WithState(S, v) \in [Nodes -> States]
  BY DEF TypeInv, TypeOK, WithState

LEMMA TypeInvInit == Init => TypeInv
  BY RestartsAssumption, EmptySeq
     DEF Init, TypeInv, TypeOK, FreshMessages, NodeOrNone, States, Idle

LEMMA TypeInvHandler ==
    ASSUME TypeInv, NEW n \in Nodes, HandlerStep(n)
    PROVE  TypeInv'
<1> USE DEF TypeInv, TypeOK, FreshMessages, NodeOrNone, queueVars, turnVars, treeVars
<1>1. ASSUME NEW p \in Nodes \union {None}, Receive(n, p)
      PROVE  TypeInv'
  BY <1>1 DEF Receive
<1>2. CASE StatusFails(n)
  BY <1>2 DEF StatusFails
<1>3. CASE ParentGone(n)
  BY <1>3 DEF ParentGone
<1>4. ASSUME NEW r \in Nodes, handler[n] = "status", Attach(n, r)
      PROVE  TypeInv'
  <2>1. /\ handler' = [handler EXCEPT ![n] = "done"]
        /\ root' = [root EXCEPT ![n] = r]
        /\ known' = known \union {n}
        /\ member' = member \union {n}
        /\ state' = [state EXCEPT ![n] = "pending"]
        /\ SaveTrees({r})
        /\ EnqueueAndStart(n, r)
        /\ UNCHANGED <<cmd, restarts, parent, cancel, captured, held>>
    BY <1>4 DEF Attach
  <2>2. state' \in [Nodes -> States]
    BY <2>1 DEF States
  <2>3. /\ saved' \in [Nodes -> States \union {Unsaved}]
        /\ \A m \in Nodes : root'[m] \notin {r} => saved'[m] = saved[m]
    BY <2>1, <2>2, SaveTreesTypes
  <2>4. Append(queue[r], n) \in Seq(Nodes)
    BY AppendProperties
  <2>5. /\ queue' \in [Nodes -> Seq(Nodes)]
        /\ busy' \in [Nodes -> BOOLEAN]
        /\ current' \in [Nodes -> NodeOrNone]
        /\ ctask' \in [Nodes -> NodeOrNone]
        /\ task' \in [Nodes -> {"none", "created", "running", "closing", "done"}]
        /\ \A m \in Nodes : m # n => task'[m] = task[m]
    <3>1. CASE TreeFree(r)
      <4>1. /\ busy' = [busy EXCEPT ![r] = TRUE]
            /\ current' = [current EXCEPT ![r] = n]
            /\ ctask' = [ctask EXCEPT ![r] = n]
            /\ task' = [task EXCEPT ![n] = "created"]
            /\ queue' = queue
        BY <2>1, <3>1 DEF EnqueueAndStart
      <4> QED
        BY <4>1
    <3>2. CASE ~TreeFree(r)
      <4>1. /\ queue' = [queue EXCEPT ![r] = Append(queue[r], n)]
            /\ UNCHANGED <<busy, current, ctask, task>>
        BY <2>1, <3>2 DEF EnqueueAndStart
      <4> QED
        BY <2>4, <4>1
    <3> QED
      BY <3>1, <3>2
  <2>6. TypeOK'
    BY <2>1, <2>2, <2>3, <2>5
  <2>7. FreshMessages'
    BY <1>4, <2>1, <2>3, <2>5, NoneAssumption
  <2> QED
    BY <2>6, <2>7
<1>5. CASE CreateTree(n)
  BY <1>4, <1>5 DEF CreateTree
<1>6. CASE AddToTree(n)
  <2>1. parent[n] \in Nodes /\ root[parent[n]] \in Nodes
    BY <1>6, RootExists DEF AddToTree
  <2> QED
    BY <1>4, <1>6, <2>1 DEF AddToTree
<1> QED
  BY <1>1, <1>2, <1>3, <1>5, <1>6 DEF HandlerStep

LEMMA TypeInvTask ==
    ASSUME TypeInv, NEW n \in Nodes, TaskStep(n)
    PROVE  TypeInv'
<1> USE DEF TypeInv, TypeOK, FreshMessages, handlerVars, treeVars, queueVars, turnVars
<1>1. CASE Dropped(n)
  BY <1>1 DEF Dropped, TaskEnds
<1>2. ASSUME task[n] # "none", ProcessNext(n), TaskEnds(n),
             UNCHANGED <<handlerVars, treeVars, state, saved>>
      PROVE  TypeInv'
  <2>1. /\ queue' \in [Nodes -> Seq(Nodes)]
        /\ busy' \in [Nodes -> BOOLEAN]
        /\ current' \in [Nodes -> NodeOrNone]
        /\ ctask' \in [Nodes -> NodeOrNone]
        /\ task' \in [Nodes -> {"none", "created", "running", "closing", "done"}]
        /\ \A m \in Nodes : m \notin member /\ m # n => task'[m] = task[m]
    BY <1>2, ProcessNextTypes
  <2> QED
    BY <1>2, <2>1 DEF TaskEnds
<1>3. CASE Skip(n)
  BY <1>2, <1>3 DEF Skip
<1>4. CASE Finish(n)
  BY <1>2, <1>4 DEF Finish
<1>5. CASE Begin(n)
  BY <1>5, WithStateTypes DEF Begin, States
<1>6. CASE Cancelled(n)
  BY <1>6, WithStateTypes DEF Cancelled, States
<1> QED
  BY <1>1, <1>3, <1>4, <1>5, <1>6 DEF TaskStep

LEMMA TypeInvCli ==
    ASSUME TypeInv, NEW n \in Nodes, CliStep(n)
    PROVE  TypeInv'
<1> USE DEF TypeInv, TypeOK, FreshMessages, handlerVars, treeVars, queueVars, turnVars
<1>1. task[n] = "running" /\ root[n] \in Nodes
  BY RootExists DEF CliStep, OnEvent, SessionInfo, ErrorEvent, Raises, Exit
<1>2. "in_progress" \in States /\ "error" \in States /\ "completed" \in States
  BY DEF States
<1>3. CASE SessionInfo(n)
  <2>1. state' \in [Nodes -> States]
    BY <1>2, <1>3, WithStateTypes DEF SessionInfo
  <2>2. PICK R : R \subseteq {root[n]} /\ SaveTrees(R)
    BY <1>3 DEF SessionInfo
  <2>3. /\ saved' \in [Nodes -> States \union {Unsaved}]
        /\ \A m \in Nodes : root'[m] \notin R => saved'[m] = saved[m]
    BY <2>1, <2>2, SaveTreesTypes
  <2> QED
    BY <1>1, <1>3, <2>1, <2>2, <2>3, NoneAssumption DEF SessionInfo
<1>4. CASE ErrorEvent(n)
  BY <1>2, <1>4, WithStateTypes DEF ErrorEvent
<1>5. CASE Raises(n)
  BY <1>2, <1>5, WithStateTypes DEF Raises, OnEvent
<1>6. ASSUME NEW ok \in BOOLEAN, Exit(n, ok)
      PROVE  TypeInv'
  <2>1. state' \in [Nodes -> States]
    BY <1>2, <1>6 DEF Exit
  <2>2. PICK R : R \subseteq {root[n]} /\ SaveTrees(R)
    BY <1>6 DEF Exit
  <2>3. /\ saved' \in [Nodes -> States \union {Unsaved}]
        /\ \A m \in Nodes : root'[m] \notin R => saved'[m] = saved[m]
    BY <2>1, <2>2, SaveTreesTypes
  <2>4. /\ task' = [task EXCEPT ![n] = "closing"]
        /\ UNCHANGED <<handlerVars, treeVars, queueVars, cancel, captured, held>>
    BY <1>6 DEF Exit
  <2> QED
    BY <1>1, <2>1, <2>2, <2>3, <2>4, NoneAssumption
<1> QED
  BY <1>3, <1>4, <1>5, <1>6 DEF CliStep

LEMMA TypeInvStopNode ==
    ASSUME TypeInv, NEW n \in Nodes, StopNode(n)
    PROVE  TypeInv'
<1> USE DEF TypeInv, TypeOK, FreshMessages, handlerVars, treeVars, queueVars, turnVars
<1>1. root[n] \in Nodes
  BY RootExists DEF StopNode
<1>2. state' \in [Nodes -> States]
  BY WithStateTypes DEF StopNode, States
<1>3. /\ saved' \in [Nodes -> States \union {Unsaved}]
      /\ \A m \in Nodes : root'[m] \notin {root[n]} => saved'[m] = saved[m]
  BY <1>2, SaveTreesTypes DEF StopNode
<1>4. cancel' \in SUBSET Nodes
  BY <1>1 DEF StopNode, Cancellable, NodeOrNone
<1>5. queue' \in [Nodes -> Seq(Nodes)]
  <2>1. queue[root[n]] \in Seq(Nodes)
    BY <1>1
  <2>2. PICK q \in Without(queue[root[n]], {n}) : queue' = [queue EXCEPT ![root[n]] = q]
    BY DEF StopNode
  <2>3. q \in Seq(Nodes)
    BY <2>1, <2>2, WithoutFacts
  <2> QED
    BY <2>2, <2>3
<1> QED
  BY <1>1, <1>2, <1>3, <1>4, <1>5, NoneAssumption DEF StopNode

LEMMA TypeInvCommand ==
    ASSUME TypeInv, NEW c \in Clears, CommandStep(c)
    PROVE  TypeInv'
<1> USE DEF TypeInv, TypeOK, FreshMessages, treeVars, queueVars, turnVars, Idle
<1>1. ASSUME NEW op \in {"stop_all", "clear_all"}, StopAll(c, op)
      PROVE  TypeInv'
  <2>1. Trees \in SUBSET Nodes
    BY RootExists DEF Trees
  <2>2. CancelledIn(Trees) \in SUBSET Nodes
    BY DEF CancelledIn, NodesOf
  <2>3. cmd' = [cmd EXCEPT ![c] = [op |-> op, nodes |-> CancelledIn(Trees)]]
    BY <1>1 DEF StopAll
  <2>4. cmd' \in [Clears -> [op : {"idle", "stop_all", "clear_all", "deleting", "clear_branch"},
                             nodes : SUBSET Nodes]]
    BY <2>2, <2>3
  <2> QED
    BY <1>1, <2>1, <2>4, CancelTreesTypes DEF StopAll
<1>2. CASE StopAllReturns(c)
  <2>1. state' \in [Nodes -> States]
    BY <1>2 DEF StopAllReturns
  <2>2. PICK R : R = {root[n] : n \in cmd[c].nodes \intersect known} /\ SaveTrees(R)
    BY <1>2 DEF StopAllReturns
  <2>3. R \subseteq Nodes
    BY <2>2, RootExists
  <2>4. /\ saved' \in [Nodes -> States \union {Unsaved}]
        /\ \A m \in Nodes : root'[m] \notin R => saved'[m] = saved[m]
    BY <2>1, <2>2, SaveTreesTypes
  <2> QED
    BY <1>2, <2>1, <2>3, <2>4, NoneAssumption DEF StopAllReturns
<1>3. CASE ReplaceManager(c)
  BY <1>3 DEF ReplaceManager
<1>4. ASSUME NEW b \in Nodes, ClearBranch(c, b)
      PROVE  TypeInv'
  <2> DEFINE active == {n \in Descendants(b) : Active(n)}
  <2>1. root[b] \in Nodes
    BY <1>4, RootExists DEF ClearBranch
  <2>2. state' \in [Nodes -> States]
    BY <1>4, WithStateTypes DEF ClearBranch, States
  <2>3. PICK R : R \subseteq {root[b]} /\ SaveTrees(R)
    BY <1>4 DEF ClearBranch
  <2>4. /\ saved' \in [Nodes -> States \union {Unsaved}]
        /\ \A m \in Nodes : root'[m] \notin R => saved'[m] = saved[m]
    BY <2>2, <2>3, SaveTreesTypes
  <2>5. cancel' \in SUBSET Nodes
    BY <1>4, <2>1 DEF ClearBranch, Cancellable, NodeOrNone
  <2>6. queue' \in [Nodes -> Seq(Nodes)]
    <3>1. queue[root[b]] \in Seq(Nodes)
      BY <2>1
    <3>2. PICK q \in Without(queue[root[b]], active \ {current[root[b]]}) :
              queue' = [queue EXCEPT ![root[b]] = q]
      BY <1>4 DEF ClearBranch
    <3>3. q \in Seq(Nodes)
      BY <3>1, <3>2, WithoutFacts
    <3> QED
      BY <3>2, <3>3
  <2>7. cmd' = [cmd EXCEPT ![c] = [op |-> "clear_branch", nodes |-> {b}]]
    BY <1>4 DEF ClearBranch
  <2>8. cmd' \in [Clears -> [op : {"idle", "stop_all", "clear_all", "deleting", "clear_branch"},
                             nodes : SUBSET Nodes]]
    BY <2>7
  <2>9. UNCHANGED <<handler, restarts, treeVars, busy, current, ctask, task, turnVars>>
    BY <1>4 DEF ClearBranch
  <2> QED
    BY <2>1, <2>2, <2>3, <2>4, <2>5, <2>6, <2>8, <2>9, NoneAssumption
<1>5. ASSUME NEW b \in Nodes, RemoveBranch(c, b)
      PROVE  TypeInv'
  <2>1. root[b] \in Nodes
    BY <1>5, RootExists DEF RemoveBranch
  <2>2. /\ known' \subseteq known
        /\ cmd' = [cmd EXCEPT ![c] = Idle]
        /\ UNCHANGED <<handler, restarts, parent, root, turnVars>>
    BY <1>5 DEF RemoveBranch
  <2>3. CASE b = root[b]
    <3>1. /\ CancelTrees({root[b]})
          /\ saved' = [n \in Nodes |-> IF root[n] = root[b] THEN Unsaved ELSE saved[n]]
          /\ member' = member
      BY <1>5, <2>3 DEF RemoveBranch
    <3>2. /\ cancel' \in SUBSET Nodes
          /\ state' \in [Nodes -> States]
          /\ queue' \in [Nodes -> Seq(Nodes)]
          /\ busy' \in [Nodes -> BOOLEAN]
          /\ current' \in [Nodes -> NodeOrNone]
          /\ UNCHANGED <<ctask, task>>
      BY <2>1, <3>1, CancelTreesTypes
    <3> QED
      BY <2>2, <3>1, <3>2
  <2>4. CASE b # root[b]
    <3>1. /\ member' \subseteq member
          /\ UNCHANGED <<state, queueVars, task, cancel>>
          /\ SaveTrees({root[b]})
      BY <1>5, <2>4 DEF RemoveBranch
    <3>2. /\ saved' \in [Nodes -> States \union {Unsaved}]
          /\ \A m \in Nodes : root'[m] \notin {root[b]} => saved'[m] = saved[m]
      BY <3>1, SaveTreesTypes
    <3> QED
      BY <2>1, <2>2, <3>1, <3>2, NoneAssumption
  <2> QED
    BY <2>3, <2>4
<1>6. ASSUME NEW b \in Nodes, BranchGone(c, b)
      PROVE  TypeInv'
  BY <1>6 DEF BranchGone
<1> QED
  BY <1>1, <1>2, <1>3, <1>4, <1>5, <1>6 DEF CommandStep

LEMMA TypeInvRestart ==
    ASSUME TypeInv, Restart
    PROVE  TypeInv'
<1>1. state' \in [Nodes -> States]
  BY DEF TypeInv, TypeOK, Restart, Terminal, States
<1>2. TypeOK'
  BY <1>1, RestartsAssumption, EmptySeq DEF TypeInv, TypeOK, Restart, Idle, NodeOrNone
<1>3. FreshMessages'
  BY DEF TypeInv, TypeOK, FreshMessages, Restart, Live
<1> QED
  BY <1>2, <1>3 DEF TypeInv

LEMMA TypeInvStep == TypeInv /\ [Next]_vars => TypeInv'
<1> SUFFICES ASSUME TypeInv, [Next]_vars
             PROVE  TypeInv'
  OBVIOUS
<1>1. CASE UNCHANGED vars
  BY <1>1 DEF TypeInv, TypeOK, FreshMessages, vars, handlerVars, treeVars, queueVars, turnVars
<1>2. CASE Next
  BY <1>2, TypeInvHandler, TypeInvCli, TypeInvTask, TypeInvStopNode, TypeInvCommand,
     TypeInvRestart DEF Next
<1> QED
  BY <1>1, <1>2

\* The inductive invariant: the types, and that a message has no tree before its
\* handler is done.
LEMMA TypeInvAlways == Spec => []TypeInv
  BY TypeInvInit, TypeInvStep, PTL DEF Spec

(***************************************************************************)
(* Type correctness: every variable ranges over the values its Python      *)
(* counterpart can hold (states of MessageState, nodes the bot was sent).  *)
(***************************************************************************)
THEOREM TypeCorrect == Spec => []TypeOK
<1>1. TypeInv => TypeOK
  BY DEF TypeInv
<1> QED
  BY <1>1, TypeInvAlways, PTL

-----------------------------------------------------------------------------
(***************************************************************************)
(* The queue of a tree.  QueueSound is inductive relative to TypeInv: each *)
(* lemma takes one way in which a step can touch a queue.                  *)
(***************************************************************************)
LEMMA QueueUntouched ==
    ASSUME QueueSound, UNCHANGED <<queue, busy, root>>, TypeInv,
           \A m \in Nodes : task[m] = "none" => task'[m] = "none"
    PROVE  QueueSound'
  BY DEF QueueSound, TypeInv, TypeOK

LEMMA QueueShortened ==
    ASSUME QueueSound, TypeInv, NEW r \in Nodes, NEW S, NEW t \in Without(queue[r], S),
           queue' = [queue EXCEPT ![r] = t], UNCHANGED <<busy, root, task>>
    PROVE  QueueSound'
<1>1. queue \in [Nodes -> Seq(Nodes)] /\ queue[r] \in Seq(Nodes)
  BY DEF TypeInv, TypeOK
<1>2. /\ \A i \in DOMAIN t : \E k \in DOMAIN queue[r] : t[i] = queue[r][k] /\ t[i] \notin S
      /\ (\A i, j \in DOMAIN queue[r] : queue[r][i] = queue[r][j] => i = j)
            => \A i, j \in DOMAIN t : t[i] = t[j] => i = j
      /\ queue[r] = <<>> => t = <<>>
  BY <1>1, WithoutFacts
<1> QED
  BY <1>1, <1>2 DEF QueueSound

LEMMA QueuesDrained ==
    ASSUME QueueSound, TypeInv, NEW R, CancelTrees(R), root' = root
    PROVE  QueueSound'
  BY DEF QueueSound, TypeInv, TypeOK, CancelTrees, Drained

LEMMA QueueExtended ==
    ASSUME QueueSound, TypeInv, NEW n \in Nodes, NEW r \in Nodes,
           handler[n] = "status", Attach(n, r)
    PROVE  QueueSound'
<1>1. /\ root[n] = None /\ task[n] = "none"
      /\ queue \in [Nodes -> Seq(Nodes)] /\ queue[r] \in Seq(Nodes)
      /\ root \in [Nodes -> NodeOrNone] /\ busy \in [Nodes -> BOOLEAN]
      /\ task \in [Nodes -> {"none", "created", "running", "closing", "done"}]
  BY DEF TypeInv, TypeOK, FreshMessages
<1>2. root' = [root EXCEPT ![n] = r]
  BY DEF Attach
<1>3. \A q \in Nodes : \A i \in DOMAIN queue[q] : queue[q][i] # n
  BY <1>1, NoneAssumption DEF QueueSound
<1>4. CASE TreeFree(r)
  <2>1. /\ busy' = [busy EXCEPT ![r] = TRUE]
        /\ task' = [task EXCEPT ![n] = "created"]
        /\ queue' = queue
    BY <1>4 DEF Attach, EnqueueAndStart
  <2> QED
    BY <1>1, <1>2, <1>3, <2>1, ElementOfSeq DEF QueueSound
<1>5. CASE ~TreeFree(r)
  <2>1. /\ queue' = [queue EXCEPT ![r] = Append(queue[r], n)]
        /\ UNCHANGED <<busy, task>>
    BY <1>5 DEF Attach, EnqueueAndStart
  <2>2. /\ busy[r]
        /\ DOMAIN Append(queue[r], n) = DOMAIN queue[r] \union {Len(queue[r]) + 1}
        /\ \A i \in DOMAIN queue[r] : Append(queue[r], n)[i] = queue[r][i]
        /\ Append(queue[r], n)[Len(queue[r]) + 1] = n
    BY <1>1, <1>5, AppendProperties, LenProperties DEF TreeFree
  <2>3. \A i \in DOMAIN queue[r] : queue[r][i] \in Nodes
    BY <1>1, ElementOfSeq
  <2>4. \A i \in DOMAIN queue'[r] :
            /\ root'[queue'[r][i]] = r
            /\ task'[queue'[r][i]] = "none"
            /\ \A j \in DOMAIN queue'[r] : queue'[r][i] = queue'[r][j] => i = j
    BY <1>1, <1>2, <1>3, <2>1, <2>2, <2>3 DEF QueueSound
  <2>5. ASSUME NEW q \in Nodes, q # r
        PROVE  /\ ~busy'[q] => queue'[q] = <<>>
               /\ \A i \in DOMAIN queue'[q] :
                    /\ root'[queue'[q][i]] = q
                    /\ task'[queue'[q][i]] = "none"
                    /\ \A j \in DOMAIN queue'[q] : queue'[q][i] = queue'[q][j] => i = j
    <3>1. queue'[q] = queue[q] /\ queue[q] \in Seq(Nodes)
      BY <1>1, <2>1, <2>5
    <3>2. \A i \in DOMAIN queue[q] : queue[q][i] \in Nodes
      BY <3>1, ElementOfSeq
    <3> QED
      BY <1>1, <1>2, <1>3, <2>1, <3>1, <3>2 DEF QueueSound
  <2> QED
    BY <2>1, <2>2, <2>4, <2>5 DEF QueueSound
<1> QED
  BY <1>4, <1>5

LEMMA QueueAdvanced ==
    ASSUME QueueSound, TypeInv, NEW n \in Nodes, task[n] # "none", ProcessNext(n),
           root' = root
    PROVE  QueueSound'
<1> DEFINE r == root[n]
           next == Head(queue[r])
<1>1. /\ r \in Nodes
      /\ queue \in [Nodes -> Seq(Nodes)] /\ queue[r] \in Seq(Nodes)
      /\ busy \in [Nodes -> BOOLEAN]
      /\ task \in [Nodes -> {"none", "created", "running", "closing", "done"}]
  BY RootExists DEF TypeInv, TypeOK
<1>2. \A q \in Nodes : \A i \in DOMAIN queue[q] :
        /\ queue[q][i] \in Nodes
        /\ root[queue[q][i]] = q
        /\ task[queue[q][i]] = "none"
        /\ queue[q][i] # n
        /\ \A j \in DOMAIN queue[q] : queue[q][i] = queue[q][j] => i = j
  BY <1>1, ElementOfSeq DEF QueueSound
<1>3. \A q \in Nodes : ~busy[q] => queue[q] = <<>>
  BY DEF QueueSound
<1>4. CASE queue[r] = <<>>
  <2>1. /\ busy' = [busy EXCEPT ![r] = FALSE]
        /\ task' = [task EXCEPT ![n] = "done"]
        /\ queue' = queue
    BY <1>4 DEF ProcessNext
  <2> HIDE DEF r, next
  <2> QED
    BY <1>1, <1>2, <1>3, <1>4, <2>1 DEF QueueSound
<1>5. CASE queue[r] # <<>>
  <2>1. /\ queue' = [queue EXCEPT ![r] = Tail(queue[r])]
        /\ busy' = [busy EXCEPT ![r] = TRUE]
    BY <1>5 DEF ProcessNext
  <2>2. \A m \in Nodes : task'[m] = task[m] \/ m = n \/ m = next
    BY <1>1, <1>5 DEF ProcessNext
  <2>3. /\ Tail(queue[r]) \in Seq(Nodes)
        /\ next = queue[r][1] /\ 1 \in DOMAIN queue[r]
        /\ \A i \in DOMAIN Tail(queue[r]) :
              i \in Nat /\ i + 1 \in DOMAIN queue[r] /\ i + 1 # 1
              /\ Tail(queue[r])[i] = queue[r][i + 1]
    BY <1>1, <1>5, HeadTailProperties, EmptySeq
  <2> HIDE DEF r, next
  <2>4. root[next] = r
    BY <1>1, <1>2, <2>3
  <2>5. \A i \in DOMAIN queue'[r] :
            /\ root[queue'[r][i]] = r
            /\ task'[queue'[r][i]] = "none"
            /\ \A j \in DOMAIN queue'[r] : queue'[r][i] = queue'[r][j] => i = j
    <3> DEFINE t == Tail(queue[r])
    <3>1. queue'[r] = t
      BY <1>1, <2>1
    <3>2. ASSUME NEW i \in DOMAIN t
          PROVE  /\ root[t[i]] = r /\ task'[t[i]] = "none"
                 /\ \A j \in DOMAIN t : t[i] = t[j] => i = j
      <4>1. t[i] = queue[r][i + 1] /\ i + 1 \in DOMAIN queue[r] /\ i + 1 # 1 /\ i \in Nat
        BY <2>3
      <4>2. t[i] \in Nodes /\ t[i] # n /\ t[i] # next /\ root[t[i]] = r /\ task[t[i]] = "none"
        BY <1>1, <1>2, <2>3, <4>1
      <4>3. ASSUME NEW j \in DOMAIN t, t[i] = t[j]
            PROVE  i = j
        <5>1. t[j] = queue[r][j + 1] /\ j + 1 \in DOMAIN queue[r] /\ j \in Nat
          BY <2>3
        <5>2. i + 1 = j + 1
          BY <1>1, <1>2, <4>1, <4>3, <5>1
        <5> QED
          BY <4>1, <5>1, <5>2
      <4> QED
        BY <2>2, <4>2, <4>3
    <3> HIDE DEF t
    <3> QED
      BY <3>1, <3>2
  <2>6. ASSUME NEW q \in Nodes, q # r
        PROVE  /\ ~busy'[q] => queue'[q] = <<>>
               /\ \A i \in DOMAIN queue'[q] :
                    /\ root[queue'[q][i]] = q
                    /\ task'[queue'[q][i]] = "none"
                    /\ \A j \in DOMAIN queue'[q] : queue'[q][i] = queue'[q][j] => i = j
    BY <1>1, <1>2, <1>3, <2>1, <2>2, <2>4, <2>6
  <2> QED
    BY <1>1, <2>1, <2>5, <2>6 DEF QueueSound
<1> QED
  BY <1>4, <1>5

LEMMA QueueSoundStep ==
    ASSUME QueueSound, TypeInv, Next
    PROVE  QueueSound'
<1> USE DEF handlerVars, treeVars, queueVars, turnVars
<1>1. ASSUME NEW n \in Nodes, HandlerStep(n)
      PROVE  QueueSound'
  <2>1. ASSUME NEW p \in Nodes \union {None}, Receive(n, p)
        PROVE  QueueSound'
    BY <2>1, QueueUntouched DEF Receive
  <2>2. CASE StatusFails(n) \/ ParentGone(n)
    BY <2>2, QueueUntouched DEF StatusFails, ParentGone
  <2>3. CASE CreateTree(n)
    BY <2>3, QueueExtended DEF CreateTree
  <2>4. CASE AddToTree(n)
    <3>1. parent[n] \in Nodes /\ root[parent[n]] \in Nodes
      BY <2>4, RootExists DEF AddToTree, TypeInv, TypeOK
    <3> QED
      BY <2>4, <3>1, QueueExtended DEF AddToTree
  <2> QED
    BY <1>1, <2>1, <2>2, <2>3, <2>4 DEF HandlerStep
<1>2. ASSUME NEW n \in Nodes, CliStep(n)
      PROVE  QueueSound'
  <2>1. task \in [Nodes -> {"none", "created", "running", "closing", "done"}]
    BY DEF TypeInv, TypeOK
  <2>2. CASE SessionInfo(n) \/ ErrorEvent(n) \/ Raises(n)
    BY <2>1, <2>2, QueueUntouched DEF SessionInfo, ErrorEvent, Raises, OnEvent
  <2>3. ASSUME NEW ok \in BOOLEAN, Exit(n, ok)
        PROVE  QueueSound'
    <3>1. task[n] = "running" /\ task' = [task EXCEPT ![n] = "closing"]
          /\ UNCHANGED <<queue, busy, root>>
      BY <2>3 DEF Exit, OnEvent
    <3> QED
      BY <2>1, <3>1, QueueUntouched
  <2> QED
    BY <1>2, <2>2, <2>3 DEF CliStep
<1>3. ASSUME NEW n \in Nodes, TaskStep(n)
      PROVE  QueueSound'
  <2>1. task \in [Nodes -> {"none", "created", "running", "closing", "done"}]
    BY DEF TypeInv, TypeOK
  <2>2. CASE Dropped(n) \/ Begin(n) \/ Cancelled(n)
    BY <2>1, <2>2, QueueUntouched DEF Dropped, Begin, Cancelled
  <2>3. CASE Skip(n) \/ Finish(n)
    BY <2>3, QueueAdvanced DEF Skip, Finish
  <2> QED
    BY <1>3, <2>2, <2>3 DEF TaskStep
<1>4. ASSUME NEW n \in Nodes, StopNode(n)
      PROVE  QueueSound'
  <2>1. root[n] \in Nodes
    BY <1>4, RootExists DEF StopNode
  <2>2. PICK q \in Without(queue[root[n]], {n}) : queue' = [queue EXCEPT ![root[n]] = q]
    BY <1>4 DEF StopNode
  <2>3. UNCHANGED <<busy, root, task>>
    BY <1>4 DEF StopNode
  <2> QED
    BY <2>1, <2>2, <2>3, QueueShortened
<1>5. ASSUME NEW c \in Clears, CommandStep(c)
      PROVE  QueueSound'
  <2>1. CASE \E op \in {"stop_all", "clear_all"} : StopAll(c, op)
    BY <2>1, QueuesDrained DEF StopAll
  <2>2. CASE StopAllReturns(c) \/ ReplaceManager(c)
    BY <2>2, QueueUntouched DEF StopAllReturns, ReplaceManager
  <2>3. ASSUME NEW b \in Nodes, ClearBranch(c, b)
        PROVE  QueueSound'
    <3>1. root[b] \in Nodes
      BY <2>3, RootExists DEF ClearBranch
    <3> DEFINE S == {n \in Descendants(b) : Active(n)} \ {current[root[b]]}
    <3>2. PICK q \in Without(queue[root[b]], S) : queue' = [queue EXCEPT ![root[b]] = q]
      BY <2>3 DEF ClearBranch
    <3> HIDE DEF S
    <3>3. UNCHANGED <<busy, root, task>>
      BY <2>3 DEF ClearBranch
    <3> QED
      BY <3>1, <3>2, <3>3, QueueShortened
  <2>4. ASSUME NEW b \in Nodes, RemoveBranch(c, b)
        PROVE  QueueSound'
    <3>1. CASE b = root[b]
      BY <2>4, <3>1, QueuesDrained DEF RemoveBranch
    <3>2. CASE b # root[b]
      BY <2>4, <3>2, QueueUntouched DEF RemoveBranch
    <3> QED
      BY <3>1, <3>2
  <2>5. CASE \E b \in Nodes : BranchGone(c, b)
    BY <2>5, QueueUntouched DEF BranchGone
  <2> QED
    BY <1>5, <2>1, <2>2, <2>3, <2>4, <2>5 DEF CommandStep
<1>6. CASE Restart
  <2>1. queue' = [r \in Nodes |-> <<>>]
    BY <1>6 DEF Restart
  <2> QED
    BY <2>1 DEF QueueSound
<1> QED
  BY <1>1, <1>2, <1>3, <1>4, <1>5, <1>6 DEF Next

(***************************************************************************)
(* No message waits for an idle tree or waits twice, and a waiting message *)
(* is in the queue of its own tree and was never started.                  *)
(***************************************************************************)
THEOREM QueueCorrect == Spec => []QueueSound
<1>1. Init => QueueSound
  BY DEF Init, QueueSound
<1>2. QueueSound /\ TypeInv /\ [Next]_vars => QueueSound'
  <2> SUFFICES ASSUME QueueSound, TypeInv, [Next]_vars
               PROVE  QueueSound'
    OBVIOUS
  <2>1. CASE UNCHANGED vars
    BY <2>1, QueueUntouched DEF vars, treeVars, queueVars
  <2>2. CASE Next
    BY <2>2, QueueSoundStep
  <2> QED
    BY <2>1, <2>2
<1> QED
  BY <1>1, <1>2, TypeInvAlways, PTL DEF Spec

(***************************************************************************)
(* Nobody overtakes in the queue of a tree: a node starts either because   *)
(* its tree was idle, and then its queue was empty, or as the head of it.  *)
(***************************************************************************)
THEOREM OrderCorrect == Spec => StartsInOrder
<1> DEFINE InOrder == \A n \in Nodes :
        task[n] = "none" /\ task'[n] = "created" =>
            queue[root'[n]] = <<>> \/ Head(queue[root'[n]]) = n
<1>1. ASSUME TypeInv, QueueSound, Next
      PROVE  InOrder
  <2> SUFFICES ASSUME NEW n \in Nodes, task[n] = "none", task'[n] = "created"
               PROVE  queue[root'[n]] = <<>> \/ Head(queue[root'[n]]) = n
    OBVIOUS
  <2>1. task \in [Nodes -> {"none", "created", "running", "closing", "done"}]
    BY <1>1 DEF TypeInv, TypeOK
  <2>2. ASSUME NEW m \in Nodes, HandlerStep(m)
        PROVE  queue[root'[n]] = <<>> \/ Head(queue[root'[n]]) = n
    <3>1. task' # task
      BY <2>1
    <3>2. PICK r \in Nodes : Attach(m, r)
      BY <1>1, <2>2, <3>1, RootExists
         DEF HandlerStep, Receive, StatusFails, ParentGone, CreateTree, AddToTree, TypeInv, TypeOK
    <3>3. TreeFree(r) /\ task' = [task EXCEPT ![m] = "created"]
      BY <3>1, <3>2 DEF Attach, EnqueueAndStart
    <3>4. n = m /\ root' = [root EXCEPT ![m] = r]
      BY <2>1, <3>2, <3>3 DEF Attach
    <3> QED
      BY <1>1, <3>3, <3>4 DEF QueueSound, TreeFree, TypeInv, TypeOK
  <2>3. ASSUME NEW m \in Nodes, CliStep(m)
        PROVE  FALSE
    BY <2>1, <2>3 DEF CliStep, SessionInfo, ErrorEvent, Raises, Exit
  <2>4. ASSUME NEW m \in Nodes, TaskStep(m)
        PROVE  queue[root'[n]] = <<>> \/ Head(queue[root'[n]]) = n
    <3>1. ProcessNext(m) /\ root' = root /\ task[m] # "none"
      BY <2>1, <2>4 DEF TaskStep, Dropped, Skip, Begin, Cancelled, Finish, treeVars
    <3>2. queue[root[m]] # <<>> /\ n = Head(queue[root[m]])
      BY <2>1, <3>1 DEF ProcessNext
    <3>3. root[m] \in Nodes /\ queue[root[m]] \in Seq(Nodes)
      BY <1>1, <3>1, RootExists DEF TypeInv, TypeOK
    <3>4. root[n] = root[m]
      BY <1>1, <3>2, <3>3, HeadTailProperties, EmptySeq DEF QueueSound
    <3> QED
      BY <3>1, <3>2, <3>4
  <2>5. ASSUME NEW m \in Nodes, StopNode(m)
        PROVE  FALSE
    BY <2>5 DEF StopNode
  <2>6. ASSUME NEW c \in Clears, CommandStep(c)
        PROVE  FALSE
    BY <2>6 DEF CommandStep, StopAll, CancelTrees, StopAllReturns, ReplaceManager, ClearBranch,
                RemoveBranch, BranchGone, queueVars
  <2>7. CASE Restart
    BY <2>1, <2>7 DEF Restart
  <2> QED
    BY <1>1, <2>2, <2>3, <2>4, <2>5, <2>6, <2>7 DEF Next
<1>2. TypeInv /\ QueueSound /\ [Next]_vars => [InOrder]_vars
  BY <1>1
<1> QED
  BY <1>2, TypeInvAlways, QueueCorrect, PTL DEF Spec, StartsInOrder

-----------------------------------------------------------------------------
(***************************************************************************)
(* NoOrphans is not inductive: a restart rebuilds the repository from the  *)
(* store, so what the store holds must be closed as well, and so must the  *)
(* nodes of the tree objects, from which the store is written.             *)
(***************************************************************************)
Closed(S) == \A n \in S : root[n] \in S /\ (parent[n] # None => parent[n] \in S)
Stored == {n \in Nodes : saved[n] # Unsaved}

Rooted ==
    \A n \in Nodes : root[n] # None =>
        /\ root[root[n]] = root[n]
        /\ parent[root[n]] = None
        /\ parent[n] # None => root[parent[n]] = root[n]

ShapeInv ==
    /\ Rooted
    /\ known \subseteq member
    /\ Closed(known) /\ Closed(member) /\ Closed(Stored)

Inv == TypeInv /\ ShapeInv

LEMMA ShapeKept ==
    ASSUME ShapeInv, UNCHANGED <<parent, root, known, member, saved>>
    PROVE  ShapeInv'
  BY DEF ShapeInv, Rooted, Closed, Stored

(***************************************************************************)
(* Saving whole trees whose objects are closed leaves the store closed.    *)
(***************************************************************************)
LEMMA StoreClosed ==
    ASSUME TypeInv, TypeInv', Rooted', Closed(member)', Closed(Stored), NEW R, SaveTrees(R),
           \A n \in Stored : root'[n] = root[n] /\ parent'[n] = parent[n]
    PROVE  Closed(Stored)'
<1> SUFFICES ASSUME NEW n \in Nodes, saved'[n] # Unsaved
             PROVE  /\ root'[n] \in Stored'
                    /\ parent'[n] # None => parent'[n] \in Stored'
  BY DEF Closed, Stored
<1>1. \A m \in Nodes : saved'[m] =
        IF root'[m] \notin R THEN saved[m]
        ELSE IF m \in member' THEN state'[m] ELSE Unsaved
  BY DEF SaveTrees
<1>2. /\ \A m \in Nodes : state'[m] # Unsaved
      /\ member' \subseteq Nodes
      /\ parent' \in [Nodes -> NodeOrNone] /\ root' \in [Nodes -> NodeOrNone]
  BY DEF TypeInv, TypeOK, States, Unsaved
<1>3. root'[n] \in Nodes
  BY <1>2 DEF TypeInv, FreshMessages, NodeOrNone
<1>4. CASE root'[n] \in R
  <2>1. n \in member'
    BY <1>1, <1>4
  <2>2. /\ root'[n] \in member' /\ root'[root'[n]] = root'[n]
        /\ parent'[n] # None => parent'[n] \in member' /\ root'[parent'[n]] = root'[n]
    BY <1>3, <2>1, NoneAssumption DEF Closed, Rooted
  <2> QED
    BY <1>1, <1>2, <1>4, <2>2 DEF Stored
<1>5. CASE root'[n] \notin R
  <2>1. n \in Stored
    BY <1>1, <1>5 DEF Stored
  <2>2. /\ root'[n] = root[n] /\ parent'[n] = parent[n]
        /\ root[n] \in Stored
        /\ parent[n] # None => parent[n] \in Stored
    BY <2>1 DEF Closed
  <2>3. /\ root'[root[n]] = root[root[n]]
        /\ parent[n] # None => root'[parent[n]] = root[parent[n]]
    BY <2>2
  <2>4. /\ root'[root'[n]] = root'[n]
        /\ parent'[n] # None => root'[parent'[n]] = root'[n]
    BY <1>3, NoneAssumption DEF Rooted
  <2> QED
    BY <1>1, <1>5, <2>2, <2>4 DEF Stored
<1> QED
  BY <1>4, <1>5

LEMMA ShapeSaved ==
    ASSUME Inv, TypeInv', NEW R, SaveTrees(R), UNCHANGED <<parent, root, known, member>>
    PROVE  ShapeInv'
<1>1. Rooted' /\ Closed(member)' /\ Closed(known)' /\ known' \subseteq member'
  BY DEF Inv, ShapeInv, Rooted, Closed
<1>2. Closed(Stored)'
  BY <1>1, StoreClosed DEF Inv, ShapeInv
<1> QED
  BY <1>1, <1>2 DEF ShapeInv

(***************************************************************************)
(* A message that has no tree yet may change its parent freely.            *)
(***************************************************************************)
LEMMA ShapeReparented ==
    ASSUME Inv, NEW n \in Nodes, root[n] = None, NEW p, parent' = [parent EXCEPT ![n] = p],
           UNCHANGED <<root, known, member, saved>>
    PROVE  ShapeInv'
<1>1. n \notin known /\ n \notin member /\ n \notin Stored
  BY DEF Inv, TypeInv, FreshMessages, Stored
<1>2. \A m \in Nodes : m # n => parent'[m] = parent[m]
  BY DEF Inv, TypeInv, TypeOK
<1>3. known \subseteq Nodes /\ member \subseteq Nodes /\ root \in [Nodes -> NodeOrNone]
  BY DEF Inv, TypeInv, TypeOK
<1>4. \A m \in Nodes : root[m] # None => root[m] \in Nodes /\ root[m] # n /\ m # n
  BY <1>3, NoneAssumption DEF Inv, ShapeInv, Rooted, NodeOrNone
<1>5. Rooted'
  BY <1>2, <1>4 DEF Inv, ShapeInv, Rooted
<1>6. Closed(known)' /\ Closed(member)' /\ Closed(Stored)'
  BY <1>1, <1>2, <1>3 DEF Inv, ShapeInv, Closed, Stored
<1> QED
  BY <1>5, <1>6 DEF Inv, ShapeInv

(***************************************************************************)
(* A new node joins the tree of a mapped parent, or is a tree of its own.  *)
(***************************************************************************)
LEMMA ShapeAttached ==
    ASSUME Inv, TypeInv', NEW n \in Nodes, CreateTree(n) \/ AddToTree(n)
    PROVE  ShapeInv'
<1>1. PICK r \in Nodes :
        /\ handler[n] = "status" /\ Attach(n, r)
        /\ \/ parent[n] = None /\ r = n
           \/ /\ parent[n] \in known /\ parent[n] \in Nodes
              /\ r = root[parent[n]] /\ r \in known
  <2>1. CASE CreateTree(n)
    BY <2>1 DEF CreateTree
  <2>2. CASE AddToTree(n)
    <3>1. parent[n] \in known /\ parent[n] \in Nodes /\ root[parent[n]] \in known
      BY <2>2 DEF AddToTree, Inv, ShapeInv, Closed, TypeInv, TypeOK
    <3>2. root[parent[n]] \in Nodes
      BY <3>1, RootExists DEF Inv
    <3> QED
      BY <2>2, <3>1, <3>2 DEF AddToTree
  <2> QED
    BY <2>1, <2>2
<1>2. /\ root' = [root EXCEPT ![n] = r]
      /\ known' = known \union {n} /\ member' = member \union {n}
      /\ SaveTrees({r}) /\ parent' = parent
  BY <1>1 DEF Attach
<1>3. /\ root \in [Nodes -> NodeOrNone] /\ parent \in [Nodes -> NodeOrNone]
      /\ known \subseteq Nodes /\ member \subseteq Nodes
  BY DEF Inv, TypeInv, TypeOK
<1>4. root[n] = None /\ n \notin known /\ n \notin member /\ n \notin Stored
  BY <1>1 DEF Inv, TypeInv, FreshMessages, Stored
<1>5. \A m \in Nodes : m # n => root'[m] = root[m]
  BY <1>2, <1>3
<1>6. root'[n] = r
  BY <1>2, <1>3
<1>7. ASSUME NEW m \in Nodes, root[m] # None
      PROVE  /\ m # n /\ root[m] \in Nodes /\ root[m] # n
             /\ root[root[m]] = root[m] /\ parent[root[m]] = None
             /\ parent[m] # None => parent[m] # n /\ parent[m] \in Nodes /\ root[parent[m]] = root[m]
  <2>1. root[m] \in Nodes
    BY <1>3, <1>7 DEF NodeOrNone
  <2>2. /\ root[root[m]] = root[m] /\ parent[root[m]] = None
        /\ parent[m] # None => root[parent[m]] = root[m]
    BY <1>7 DEF Inv, ShapeInv, Rooted
  <2>3. parent[m] # None => parent[m] \in Nodes
    BY <1>3 DEF NodeOrNone
  <2> QED
    BY <1>4, <1>7, <2>1, <2>2, <2>3
<1>8. /\ r = n => parent[n] = None
      /\ r # n => root[r] = r /\ parent[r] = None /\ parent[n] \in Nodes /\ parent[n] # n
                  /\ root[parent[n]] = r
  <2>1. CASE parent[n] = None /\ r = n
    BY <2>1
  <2>2. CASE parent[n] \in known /\ parent[n] \in Nodes /\ r = root[parent[n]] /\ r \in known
    <3>1. root[parent[n]] # None
      BY <2>2, NoneAssumption DEF Inv, TypeInv, FreshMessages
    <3> QED
      BY <1>4, <1>7, <2>2, <3>1
  <2> QED
    BY <1>1, <2>1, <2>2
<1>9. ASSUME NEW m \in Nodes, root'[m] # None
      PROVE  /\ root'[root'[m]] = root'[m]
             /\ parent'[root'[m]] = None
             /\ parent'[m] # None => root'[parent'[m]] = root'[m]
  <2>1. CASE m = n
    BY <1>2, <1>5, <1>6, <1>8, <2>1
  <2>2. CASE m # n
    BY <1>2, <1>5, <1>7, <1>9, <2>2
  <2> QED
    BY <2>1, <2>2
<1>10. Rooted'
  BY <1>9 DEF Rooted
<1>11. /\ Closed(known)' /\ Closed(member)' /\ known' \subseteq member'
  BY <1>1, <1>2, <1>3, <1>4, <1>5, <1>6 DEF Inv, ShapeInv, Closed
<1>12. Closed(Stored)'
  <2>1. \A m \in Stored : root'[m] = root[m] /\ parent'[m] = parent[m]
    BY <1>2, <1>4, <1>5 DEF Stored
  <2> QED
    BY <1>2, <1>10, <1>11, <2>1, StoreClosed DEF Inv, ShapeInv
<1> QED
  BY <1>10, <1>11, <1>12 DEF ShapeInv

(***************************************************************************)
(* A branch is closed under replies, and the root is in no branch but the  *)
(* whole tree (get_descendants).                                           *)
(***************************************************************************)
LEMMA BranchFacts ==
    ASSUME Inv, NEW b \in known
    PROVE  /\ b \in Nodes /\ b \in member
           /\ \A n \in member : parent[n] \in Descendants(b) => n \in Descendants(b)
           /\ b # root[b] => root[b] \notin Descendants(b)
           /\ \A n \in Descendants(b) : n \in member /\ root[n] = root[b]
<1>1. /\ b \in Nodes /\ b \in member /\ member \subseteq Nodes
      /\ root[b] \in Nodes
      /\ b \notin {None} /\ parent[root[b]] = None
  BY RootExists, NoneAssumption DEF Inv, ShapeInv, Rooted, TypeInv, TypeOK
<1>2. ASSUME NEW n \in member, parent[n] \in Descendants(b)
      PROVE  n \in Descendants(b)
  BY <1>2 DEF Descendants, Below
<1>3. \A n \in Descendants(b) : n \in member
  BY <1>1 DEF Descendants, Below
<1>4. ASSUME b # root[b]
      PROVE  root[b] \notin Descendants(b)
  <2> DEFINE S == member \ {root[b]}
  <2>1. \A m \in member : parent[m] \in S \union {b} => m \in S
    BY <1>1, NoneAssumption
  <2>2. S \in SUBSET member /\ root[b] \notin S
    OBVIOUS
  <2> QED
    BY <1>4, <2>1, <2>2 DEF Descendants, Below
<1>5. ASSUME NEW n \in Descendants(b)
      PROVE  root[n] = root[b]
  <2> DEFINE S == {m \in member : root[m] = root[b]}
  <2>1. \A m \in member : parent[m] \in S \union {b} => m \in S
    <3> SUFFICES ASSUME NEW m \in member, parent[m] \in S \union {b}
                 PROVE  root[m] = root[b]
      OBVIOUS
    <3>1. parent[m] # None /\ m \in Nodes /\ root[m] # None
      BY <1>1, NoneAssumption DEF Inv, TypeInv, FreshMessages
    <3>2. root[parent[m]] = root[m]
      BY <3>1 DEF Inv, ShapeInv, Rooted
    <3> QED
      BY <3>2
  <2>2. S \in SUBSET member
    OBVIOUS
  <2> QED
    BY <1>1, <2>1, <2>2 DEF Descendants, Below
<1> QED
  BY <1>1, <1>2, <1>3, <1>4, <1>5

LEMMA ShapeRemoved ==
    ASSUME Inv, TypeInv', NEW c \in Clears, NEW b \in Nodes, RemoveBranch(c, b)
    PROVE  ShapeInv'
<1>1. /\ b \in known /\ root[b] \in Nodes
      /\ UNCHANGED <<parent, root>>
  BY RootExists DEF RemoveBranch, Inv
<1>2. /\ known \subseteq member /\ Rooted' /\ Closed(known) /\ Closed(member) /\ Closed(Stored)
  BY <1>1 DEF Inv, ShapeInv, Rooted
<1>3. CASE b = root[b]
  <2>1. /\ known' = known \ NodesOf({root[b]})
        /\ member' = member
        /\ saved' = [n \in Nodes |-> IF root[n] = root[b] THEN Unsaved ELSE saved[n]]
    BY <1>3 DEF RemoveBranch
  <2>2. Stored' = {n \in Stored : root[n] # root[b]}
    BY <2>1 DEF Stored
  <2>3. known' = {n \in known : root[n] # root[b]}
    BY <1>2, <2>1 DEF NodesOf
  <2>4. \A n \in known \union Stored :
          /\ root[n] # None /\ root[root[n]] = root[n]
          /\ parent[n] # None => root[parent[n]] = root[n]
    BY NoneAssumption DEF Inv, ShapeInv, Rooted, TypeInv, TypeOK, FreshMessages, Stored
  <2>5. Closed(known)' /\ Closed(Stored)'
    BY <1>1, <1>2, <2>2, <2>3, <2>4 DEF Closed
  <2> QED
    BY <1>1, <1>2, <2>1, <2>3, <2>5 DEF ShapeInv, Closed
<1>4. CASE b # root[b]
  <2>1. /\ known' = known \ Descendants(b)
        /\ member' = member \ Descendants(b)
        /\ SaveTrees({root[b]})
    BY <1>4 DEF RemoveBranch
  <2>2. /\ \A n \in member : parent[n] \in Descendants(b) => n \in Descendants(b)
        /\ root[b] \notin Descendants(b)
        /\ \A n \in Descendants(b) : n \in member /\ root[n] = root[b]
    BY <1>1, <1>4, BranchFacts
  <2>3. ASSUME NEW n \in member, n \notin Descendants(b)
        PROVE  root[n] \notin Descendants(b)
    <3>1. root[n] # None /\ n \in Nodes
      BY NoneAssumption DEF Inv, TypeInv, TypeOK, FreshMessages
    <3>2. root[root[n]] = root[n]
      BY <3>1 DEF Inv, ShapeInv, Rooted
    <3> QED
      BY <2>2, <3>2
  <2>4. Closed(known)' /\ Closed(member)'
    BY <1>1, <1>2, <2>1, <2>2, <2>3 DEF Closed
  <2>5. Closed(Stored)'
    BY <1>1, <1>2, <2>1, <2>4, StoreClosed DEF Inv
  <2> QED
    BY <1>2, <2>1, <2>4, <2>5 DEF ShapeInv
<1> QED
  BY <1>3, <1>4

LEMMA ShapeStep ==
    ASSUME Inv, TypeInv', Next
    PROVE  ShapeInv'
<1> USE DEF handlerVars, treeVars, queueVars, turnVars
<1>1. ASSUME NEW n \in Nodes, HandlerStep(n)
      PROVE  ShapeInv'
  <2>1. CASE CreateTree(n) \/ AddToTree(n)
    BY <2>1, ShapeAttached
  <2>2. CASE StatusFails(n) \/ ParentGone(n) \/ \E p \in Nodes \union {None} : Receive(n, p)
    <3>1. root[n] = None
      BY <2>2 DEF StatusFails, ParentGone, Receive, Inv, TypeInv, FreshMessages
    <3>2. PICK p : parent' = [parent EXCEPT ![n] = p]
      BY <2>2 DEF StatusFails, ParentGone, Receive
    <3>3. UNCHANGED <<root, known, member, saved>>
      BY <2>2 DEF StatusFails, ParentGone, Receive
    <3> QED
      BY <3>1, <3>2, <3>3, ShapeReparented
  <2> QED
    BY <1>1, <2>1, <2>2 DEF HandlerStep
<1>2. ASSUME NEW n \in Nodes, CliStep(n)
      PROVE  ShapeInv'
  <2>1. CASE SessionInfo(n)
    BY <2>1, ShapeSaved DEF SessionInfo
  <2>2. CASE ErrorEvent(n) \/ Raises(n)
    BY <2>2, ShapeKept DEF ErrorEvent, Raises, Inv
  <2>3. CASE \E ok \in BOOLEAN : Exit(n, ok)
    BY <2>3, ShapeSaved DEF Exit
  <2> QED
    BY <1>2, <2>1, <2>2, <2>3 DEF CliStep
<1>3. ASSUME NEW n \in Nodes, TaskStep(n)
      PROVE  ShapeInv'
  BY <1>3, ShapeKept DEF TaskStep, Dropped, Skip, Begin, Cancelled, Finish, Inv
<1>4. ASSUME NEW n \in Nodes, StopNode(n)
      PROVE  ShapeInv'
  BY <1>4, ShapeSaved DEF StopNode
<1>5. ASSUME NEW c \in Clears, CommandStep(c)
      PROVE  ShapeInv'
  <2>1. CASE \E op \in {"stop_all", "clear_all"} : StopAll(c, op)
    BY <2>1, ShapeKept DEF StopAll, Inv
  <2>2. CASE StopAllReturns(c)
    BY <2>2, ShapeSaved DEF StopAllReturns
  <2>3. CASE ReplaceManager(c)
    <3>1. known' = {} /\ Stored' = {} /\ UNCHANGED <<parent, root, member>>
      BY <2>3 DEF ReplaceManager, Stored
    <3> QED
      BY <3>1 DEF Inv, ShapeInv, Rooted, Closed
  <2>4. CASE \E b \in Nodes : ClearBranch(c, b)
    BY <2>4, ShapeSaved DEF ClearBranch
  <2>5. CASE \E b \in Nodes : RemoveBranch(c, b)
    BY <2>5, ShapeRemoved
  <2>6. CASE \E b \in Nodes : BranchGone(c, b)
    BY <2>6, ShapeKept DEF BranchGone, Inv
  <2> QED
    BY <1>5, <2>1, <2>2, <2>3, <2>4, <2>5, <2>6 DEF CommandStep
<1>6. CASE Restart
  <2>1. /\ known' = Stored /\ member' = Stored
        /\ UNCHANGED <<parent, root>>
        /\ saved' = [n \in Nodes |-> IF n \in Stored THEN state'[n] ELSE Unsaved]
    BY <1>6 DEF Restart, Stored
  <2>2. Stored' = Stored
    BY <2>1 DEF Stored, TypeInv, TypeOK, States, Unsaved
  <2> QED
    BY <2>1, <2>2 DEF Inv, ShapeInv, Rooted, Closed
<1> QED
  BY <1>1, <1>2, <1>3, <1>4, <1>5, <1>6 DEF Next

THEOREM ShapeCorrect == Spec => []Inv
<1>1. Init => ShapeInv
  BY DEF Init, ShapeInv, Rooted, Closed, Stored
<1>2. Inv /\ TypeInv' /\ [Next]_vars => ShapeInv'
  <2> SUFFICES ASSUME Inv, TypeInv', [Next]_vars
               PROVE  ShapeInv'
    OBVIOUS
  <2>1. CASE UNCHANGED vars
    BY <2>1, ShapeKept DEF Inv, vars, treeVars
  <2>2. CASE Next
    BY <2>2, ShapeStep
  <2> QED
    BY <2>1, <2>2
<1> QED
  BY <1>1, <1>2, TypeInvAlways, PTL DEF Spec, Inv

(***************************************************************************)
(* No reply in the repository hangs on a message that is gone.             *)
(***************************************************************************)
THEOREM NoOrphansCorrect == Spec => []NoOrphans
<1>1. Inv => NoOrphans
  <2> SUFFICES ASSUME Inv, NEW n \in known
               PROVE  /\ n \in member
                      /\ root[n] \in known /\ root[root[n]] = root[n]
                      /\ parent[n] # None => parent[n] \in known /\ root[parent[n]] = root[n]
    BY DEF NoOrphans
  <2>1. n \in Nodes /\ root[n] # None
    BY NoneAssumption DEF Inv, TypeInv, TypeOK, FreshMessages
  <2> QED
    BY <2>1 DEF Inv, ShapeInv, Rooted, Closed
<1> QED
  BY <1>1, ShapeCorrect, PTL

-----------------------------------------------------------------------------
(***************************************************************************)
(* Ordered processing.  The tree of a task that is not over is taken as    *)
(* long as the repository can reach it, so nobody starts a second one.     *)
(***************************************************************************)
TreeTaken == \A n \in Nodes : Live(n) /\ root[n] \in known => busy[root[n]]
TurnInv == OneTurnPerTree /\ TreeTaken

LEMMA TurnKept ==
    ASSUME TurnInv, UNCHANGED <<root, busy>>, known' \subseteq known,
           \A n \in Nodes : Live(n)' => Live(n)
    PROVE  TurnInv'
  BY DEF TurnInv, OneTurnPerTree, TreeTaken

LEMMA TurnStarted ==
    ASSUME Inv, TurnInv, NEW n \in Nodes, CreateTree(n) \/ AddToTree(n)
    PROVE  TurnInv'
<1>1. PICK r \in Nodes : handler[n] = "status" /\ Attach(n, r) /\ (r = n \/ r \in known)
  <2>1. CASE CreateTree(n)
    BY <2>1 DEF CreateTree
  <2>2. CASE AddToTree(n)
    <3>1. parent[n] \in known /\ root[parent[n]] \in known
      BY <2>2 DEF AddToTree, Inv, ShapeInv, Closed
    <3>2. root[parent[n]] \in Nodes
      BY <3>1 DEF Inv, TypeInv, TypeOK
    <3> QED
      BY <2>2, <3>1, <3>2 DEF AddToTree
  <2> QED
    BY <2>1, <2>2
<1>2. /\ root \in [Nodes -> NodeOrNone] /\ busy \in [Nodes -> BOOLEAN]
      /\ task \in [Nodes -> {"none", "created", "running", "closing", "done"}]
      /\ root[n] = None /\ task[n] = "none"
  BY <1>1 DEF Inv, TypeInv, TypeOK, FreshMessages
<1>3. root' = [root EXCEPT ![n] = r] /\ known' = known \union {n}
  BY <1>1 DEF Attach
<1>4. ASSUME NEW m \in Nodes, Live(m)
      PROVE  m # n /\ root'[m] = root[m] /\ root[m] # n /\ (root[m] \in known => busy[root[m]])
  <2>1. m # n /\ root[m] # None
    BY <1>2, <1>4 DEF Live, Inv, TypeInv, FreshMessages
  <2>2. root[m] # n
    BY <1>2, <2>1 DEF Inv, ShapeInv, Rooted
  <2> QED
    BY <1>2, <1>3, <1>4, <2>1, <2>2 DEF TurnInv, TreeTaken
<1>5. CASE TreeFree(r)
  <2>1. busy' = [busy EXCEPT ![r] = TRUE] /\ task' = [task EXCEPT ![n] = "created"]
    BY <1>1, <1>5 DEF Attach, EnqueueAndStart
  <2>2. \A m \in Nodes : Live(m) => root[m] # r
    BY <1>1, <1>4, <1>5 DEF TreeFree
  <2>3. \A m \in Nodes : Live(m)' => m = n \/ Live(m)
    BY <1>2, <2>1 DEF Live
  <2>4. root'[n] = r /\ busy'[r]
    BY <1>2, <1>3, <2>1
  <2>5. OneTurnPerTree'
    BY <1>4, <2>2, <2>3, <2>4 DEF TurnInv, OneTurnPerTree
  <2>6. TreeTaken'
    BY <1>2, <1>3, <1>4, <2>1, <2>3, <2>4 DEF TreeTaken
  <2> QED
    BY <2>5, <2>6 DEF TurnInv
<1>6. CASE ~TreeFree(r)
  <2>1. UNCHANGED <<busy, task>>
    BY <1>1, <1>6 DEF Attach, EnqueueAndStart
  <2>2. \A m \in Nodes : Live(m)' = Live(m)
    BY <2>1 DEF Live
  <2> QED
    BY <1>3, <1>4, <2>1, <2>2 DEF TurnInv, OneTurnPerTree, TreeTaken
<1> QED
  BY <1>5, <1>6

LEMMA TurnPassedOn ==
    ASSUME Inv, QueueSound, TurnInv, NEW n \in Nodes, Live(n), ProcessNext(n),
           UNCHANGED <<root, known>>
    PROVE  TurnInv'
<1> DEFINE r == root[n]
           next == Head(queue[r])
<1>1. /\ r \in Nodes /\ queue[r] \in Seq(Nodes)
      /\ busy \in [Nodes -> BOOLEAN]
      /\ task \in [Nodes -> {"none", "created", "running", "closing", "done"}]
  BY RootExists DEF Inv, TypeInv, TypeOK, Live
<1>2. \A m \in Nodes : Live(m) /\ root[m] = r => m = n
  BY DEF TurnInv, OneTurnPerTree
<1>3. CASE queue[r] = <<>>
  <2>1. busy' = [busy EXCEPT ![r] = FALSE] /\ task' = [task EXCEPT ![n] = "done"]
    BY <1>3 DEF ProcessNext
  <2> HIDE DEF r, next
  <2>2. \A m \in Nodes : Live(m)' => m # n /\ Live(m)
    BY <1>1, <2>1 DEF Live
  <2> QED
    BY <1>1, <1>2, <2>1, <2>2 DEF TurnInv, OneTurnPerTree, TreeTaken
<1>4. CASE queue[r] # <<>>
  <2>1. /\ busy' = [busy EXCEPT ![r] = TRUE]
        /\ \/ task' = [task EXCEPT ![n] = "done"]
           \/ task' = [task EXCEPT ![n] = "done", ![next] = "created"]
    BY <1>4 DEF ProcessNext
  <2>2. next \in Nodes /\ root[next] = r /\ task[next] = "none"
    BY <1>1, <1>4, HeadTailProperties, EmptySeq DEF QueueSound
  <2> HIDE DEF r, next
  <2>3. \A m \in Nodes : Live(m)' => m = next \/ (m # n /\ Live(m))
    BY <1>1, <2>1, <2>2 DEF Live
  <2>4. \A m \in Nodes : Live(m)' /\ root[m] = r => m = next
    BY <1>2, <2>3
  <2> QED
    BY <1>1, <2>1, <2>2, <2>3, <2>4 DEF TurnInv, OneTurnPerTree, TreeTaken
<1> QED
  BY <1>3, <1>4

LEMMA TurnStep ==
    ASSUME Commands \intersect {"stop_all", "clear_all"} = {},
           Inv, QueueSound, TurnInv, Next
    PROVE  TurnInv'
<1> USE DEF handlerVars, treeVars, queueVars, turnVars
<1>1. ASSUME UNCHANGED task, NEW m \in Nodes
      PROVE  Live(m)' = Live(m)
  BY <1>1 DEF Live
<1>2. ASSUME NEW n \in Nodes, HandlerStep(n)
      PROVE  TurnInv'
  <2>1. CASE CreateTree(n) \/ AddToTree(n)
    BY <2>1, TurnStarted
  <2>2. CASE StatusFails(n) \/ ParentGone(n) \/ \E p \in Nodes \union {None} : Receive(n, p)
    BY <1>1, <2>2, TurnKept DEF StatusFails, ParentGone, Receive
  <2> QED
    BY <1>2, <2>1, <2>2 DEF HandlerStep
<1>3. ASSUME NEW n \in Nodes, Live(n), NEW t, task' = [task EXCEPT ![n] = t]
      PROVE  \A m \in Nodes : Live(m)' => Live(m)
  BY <1>3 DEF Live, Inv, TypeInv, TypeOK
<1>4. ASSUME NEW n \in Nodes, CliStep(n)
      PROVE  TurnInv'
  <2>1. CASE SessionInfo(n) \/ ErrorEvent(n)
    BY <1>1, <2>1, TurnKept DEF SessionInfo, ErrorEvent
  <2>2. CASE Raises(n)
    BY <1>3, <2>2, TurnKept DEF Raises, OnEvent, Live
  <2>3. ASSUME NEW ok \in BOOLEAN, Exit(n, ok)
        PROVE  TurnInv'
    <3>1. /\ Live(n) /\ task' = [task EXCEPT ![n] = "closing"]
          /\ UNCHANGED <<root, busy, known>>
      BY <2>3 DEF Exit, OnEvent, Live
    <3> QED
      BY <1>3, <3>1, TurnKept
  <2> QED
    BY <1>4, <2>1, <2>2, <2>3 DEF CliStep
<1>5. ASSUME NEW n \in Nodes, TaskStep(n)
      PROVE  TurnInv'
  <2>1. CASE Dropped(n) \/ Begin(n) \/ Cancelled(n)
    <3>1. /\ Live(n) /\ UNCHANGED <<root, busy, known>>
          /\ \E t : task' = [task EXCEPT ![n] = t]
      BY <2>1 DEF Dropped, Begin, Cancelled, Live
    <3> QED
      BY <1>3, <3>1, TurnKept
  <2>2. CASE Skip(n) \/ Finish(n)
    BY <2>2, TurnPassedOn DEF Skip, Finish, Live
  <2> QED
    BY <1>5, <2>1, <2>2 DEF TaskStep
<1>6. ASSUME NEW n \in Nodes, StopNode(n)
      PROVE  TurnInv'
  BY <1>1, <1>6, TurnKept DEF StopNode
<1>7. ASSUME NEW c \in Clears, CommandStep(c)
      PROVE  TurnInv'
  <2>1. CASE \E op \in {"stop_all", "clear_all"} : StopAll(c, op)
    BY <2>1 DEF StopAll
  <2>2. CASE StopAllReturns(c) \/ ReplaceManager(c) \/ \E b \in Nodes : ClearBranch(c, b)
    BY <1>1, <2>2, TurnKept DEF StopAllReturns, ReplaceManager, ClearBranch
  <2>3. CASE \E b \in Nodes : BranchGone(c, b)
    BY <1>1, <2>3, TurnKept DEF BranchGone
  <2>4. ASSUME NEW b \in Nodes, RemoveBranch(c, b)
        PROVE  TurnInv'
    <3>1. CASE b # root[b]
      BY <1>1, <2>4, <3>1, TurnKept DEF RemoveBranch
    <3>2. CASE b = root[b]
      <4>1. /\ known' = known \ NodesOf({b}) /\ UNCHANGED <<root, task>>
            /\ busy' = [r \in Nodes |-> r \notin {b} /\ busy[r]]
        BY <2>4, <3>2 DEF RemoveBranch, CancelTrees
      <4>2. b \notin known'
        BY <2>4, <3>2, <4>1 DEF RemoveBranch, NodesOf, Inv, ShapeInv
      <4>3. known' \subseteq Nodes /\ known' \subseteq known
        BY <4>1 DEF Inv, TypeInv, TypeOK
      <4> QED
        BY <1>1, <4>1, <4>2, <4>3 DEF TurnInv, OneTurnPerTree, TreeTaken
    <3> QED
      BY <3>1, <3>2
  <2> QED
    BY <1>7, <2>1, <2>2, <2>3, <2>4 DEF CommandStep
<1>8. CASE Restart
  <2>1. \A n \in Nodes : ~Live(n)'
    BY <1>8 DEF Restart, Live
  <2> QED
    BY <2>1 DEF TurnInv, OneTurnPerTree, TreeTaken
<1> QED
  BY <1>2, <1>4, <1>5, <1>6, <1>7, <1>8 DEF Next

(***************************************************************************)
(* A tree never runs two turns at once, as long as nobody uses /stop or    *)
(* /clear outside a reply: process_node always hands the tree on in its    *)
(* finally clause, and enqueue_and_start never takes a busy tree.          *)
(***************************************************************************)
THEOREM OneTurnCorrect ==
    ASSUME Commands \intersect {"stop_all", "clear_all"} = {}
    PROVE  Spec => []OneTurnPerTree
<1>1. Init => TurnInv
  BY DEF Init, TurnInv, OneTurnPerTree, TreeTaken, Live
<1>2. Inv /\ QueueSound /\ TurnInv /\ [Next]_vars => TurnInv'
  <2> SUFFICES ASSUME Inv, QueueSound, TurnInv, [Next]_vars
               PROVE  TurnInv'
    OBVIOUS
  <2>1. CASE UNCHANGED vars
    BY <2>1, TurnKept DEF vars, treeVars, queueVars, Live
  <2>2. CASE Next
    BY <2>2, TurnStep
  <2> QED
    BY <2>1, <2>2
<1>3. TurnInv => OneTurnPerTree
  BY DEF TurnInv
<1> QED
  BY <1>1, <1>2, <1>3, ShapeCorrect, QueueCorrect, PTL DEF Spec

-----------------------------------------------------------------------------
(***************************************************************************)
(* The store and the memory.  StoreCurrent is not inductive: a turn that   *)
(* starts writes its node without a save, and a restart takes the state    *)
(* from the store.  Neither undoes a completed turn, because a turn that   *)
(* is not over is completed neither in memory nor in the store.            *)
(***************************************************************************)
TurnAhead(n) == task[n] \in {"none", "created", "running"}
AheadNotDone ==
    \A n \in Nodes : TurnAhead(n) => state[n] # "completed" /\ saved[n] # "completed"
StoreInv == StoreCurrent /\ AheadNotDone

(***************************************************************************)
(* A step without a save may rewrite any state but a completed one.        *)
(***************************************************************************)
LEMMA StoreKept ==
    ASSUME Inv, StoreInv, saved' = saved, known' \subseteq known,
           \A n \in Nodes : state'[n] = "completed" <=> state[n] = "completed",
           \A n \in Nodes : TurnAhead(n)' => TurnAhead(n)
    PROVE  StoreInv'
<1>1. known \subseteq Nodes
  BY DEF Inv, TypeInv, TypeOK
<1> QED
  BY <1>1 DEF StoreInv, StoreCurrent, AheadNotDone

(***************************************************************************)
(* A step that saves the trees of R may also complete turns in them.       *)
(***************************************************************************)
LEMMA StoreSaved ==
    ASSUME Inv, Inv', StoreInv, NEW R, SaveTrees(R),
           \A n \in known' : n \in known \/ root'[n] \in R,
           \A n \in Nodes : root'[n] \notin R =>
               (state'[n] = "completed" <=> state[n] = "completed"),
           \A n \in Nodes : TurnAhead(n)' => TurnAhead(n) /\ state'[n] # "completed"
    PROVE  StoreInv'
<1>1. /\ \A n \in Nodes : saved'[n] =
            IF root'[n] \notin R THEN saved[n]
            ELSE IF n \in member' THEN state'[n] ELSE Unsaved
      /\ known' \subseteq Nodes /\ known' \subseteq member'
      /\ \A n \in Nodes : state'[n] # Unsaved
      /\ Unsaved # "completed"
  BY DEF SaveTrees, Inv, ShapeInv, TypeInv, TypeOK, States, Unsaved
<1>2. StoreCurrent'
  BY <1>1 DEF StoreInv, StoreCurrent
<1>3. AheadNotDone'
  BY <1>1 DEF StoreInv, AheadNotDone
<1> QED
  BY <1>2, <1>3 DEF StoreInv

LEMMA StoreOfTasks ==
    ASSUME Inv, Inv', QueueSound, StoreInv, NEW n \in Nodes, CliStep(n) \/ TaskStep(n)
    PROVE  StoreInv'
<1> USE DEF handlerVars, treeVars, queueVars, turnVars
<1>1. /\ task \in [Nodes -> {"none", "created", "running", "closing", "done"}]
      /\ state \in [Nodes -> States]
  BY DEF Inv, TypeInv, TypeOK
<1>2. \A m \in Nodes : TurnAhead(m) => state[m] # "completed"
  BY DEF StoreInv, AheadNotDone
<1>3. ASSUME NEW m \in ErrorNodes(n) \union {n}, TurnAhead(n)
      PROVE  state[m] # "completed"
  BY <1>2, <1>3 DEF ErrorNodes, PendingChildren, Below
<1>4. ASSUME NEW v, NEW S \in SUBSET (ErrorNodes(n) \union {n}), v # "completed",
             TurnAhead(n), state' = WithState(S, v)
      PROVE  \A m \in Nodes : state'[m] = "completed" <=> state[m] = "completed"
  BY <1>3, <1>4 DEF WithState
<1>5. ASSUME NEW t, t # "none", task' = [task EXCEPT ![n] = t], TurnAhead(n)
      PROVE  \A m \in Nodes : TurnAhead(m)' => TurnAhead(m)
  BY <1>1, <1>5 DEF TurnAhead
<1>6. CASE Dropped(n)
  <2>1. TurnAhead(n) /\ task' = [task EXCEPT ![n] = "done"] /\ UNCHANGED <<known, state, saved>>
    BY <1>6 DEF Dropped, TurnAhead
  <2> QED
    BY <1>5, <2>1, StoreKept
<1>7. CASE Skip(n) \/ Finish(n)
  <2>1. /\ task[n] # "none" /\ ProcessNext(n) /\ UNCHANGED <<known, state, saved, root>>
    BY <1>7 DEF Skip, Finish
  <2>2. \A m \in Nodes : TurnAhead(m)' => TurnAhead(m)
    <3> DEFINE r == root[n]
               next == Head(queue[r])
    <3>1. r \in Nodes /\ queue[r] \in Seq(Nodes)
      BY <2>1, RootExists DEF Inv, TypeInv, TypeOK
    <3>2. CASE queue[r] = <<>>
      BY <1>1, <2>1, <3>2 DEF ProcessNext, TurnAhead
    <3>3. CASE queue[r] # <<>>
      <4>1. next \in Nodes /\ task[next] = "none"
        BY <3>1, <3>3, HeadTailProperties, EmptySeq DEF QueueSound
      <4>2. \/ task' = [task EXCEPT ![n] = "done"]
            \/ task' = [task EXCEPT ![n] = "done", ![next] = "created"]
        BY <2>1, <3>3 DEF ProcessNext
      <4> HIDE DEF next
      <4> QED
        BY <1>1, <4>1, <4>2 DEF TurnAhead
    <3> QED
      BY <3>2, <3>3
  <2> QED
    BY <2>1, <2>2, StoreKept
<1>8. CASE Begin(n)
  <2>1. /\ TurnAhead(n) /\ task' = [task EXCEPT ![n] = "running"] /\ UNCHANGED <<known, saved>>
        /\ state' = WithState({n} \intersect known \intersect member, "in_progress")
    BY <1>8 DEF Begin, TurnAhead
  <2> QED
    BY <1>4, <1>5, <2>1, StoreKept
<1>9. CASE Cancelled(n)
  <2>1. /\ TurnAhead(n) /\ task' = [task EXCEPT ![n] = "closing"] /\ UNCHANGED <<known, saved>>
        /\ state' = WithState(IF Writable(n) THEN {n} ELSE {}, "error")
    BY <1>9 DEF Cancelled, TurnAhead
  <2> QED
    BY <1>4, <1>5, <2>1, StoreKept
<1>10. CASE SessionInfo(n)
  <2>1. /\ TurnAhead(n) /\ UNCHANGED <<task, known>>
        /\ state' = WithState(IF Writable(n) THEN {n} ELSE {}, "in_progress")
        /\ SaveTrees(IF n \in held THEN {root[n]} ELSE {})
    BY <1>10 DEF SessionInfo, OnEvent, TurnAhead
  <2>2. \A m \in Nodes : state'[m] = "completed" <=> state[m] = "completed"
    BY <1>4, <2>1
  <2>3. \A m \in Nodes : TurnAhead(m)' = TurnAhead(m)
    BY <2>1 DEF TurnAhead
  <2> QED
    BY <1>2, <2>1, <2>2, <2>3, StoreSaved
<1>11. CASE ErrorEvent(n) \/ Raises(n)
  <2>1. /\ TurnAhead(n) /\ UNCHANGED <<saved, known>>
        /\ task' = task \/ task' = [task EXCEPT ![n] = "closing"]
        /\ state' = WithState(IF n \in held THEN ErrorNodes(n) ELSE {}, "error")
    BY <1>11 DEF ErrorEvent, Raises, OnEvent, TurnAhead
  <2>2. \A m \in Nodes : TurnAhead(m)' => TurnAhead(m)
    BY <1>5, <2>1 DEF TurnAhead
  <2> QED
    BY <1>4, <2>1, <2>2, StoreKept
<1>12. ASSUME NEW ok \in BOOLEAN, Exit(n, ok)
       PROVE  StoreInv'
  <2> DEFINE complete == n \in held /\ n \in captured
             errors == IF ok \/ n \notin held THEN {} ELSE ErrorNodes(n)
  <2>1. /\ TurnAhead(n) /\ task' = [task EXCEPT ![n] = "closing"] /\ UNCHANGED <<known, root>>
        /\ state' = [m \in Nodes |->
                CASE complete /\ m = n /\ n \in member -> "completed"
                  [] m \in errors /\ ~(complete /\ m = n) -> "error"
                  [] OTHER -> state[m]]
        /\ SaveTrees(IF complete THEN {root[n]} ELSE {})
    BY <1>12 DEF Exit, OnEvent, TurnAhead
  <2>2. \A m \in errors : state[m] # "completed"
    BY <1>3, <2>1
  <2> HIDE DEF complete, errors
  <2>3. ASSUME NEW m \in Nodes
        PROVE  \/ state'[m] = "completed" <=> state[m] = "completed"
               \/ m = n /\ complete
    <3>1. CASE complete /\ m = n /\ n \in member
      BY <3>1
    <3>2. CASE m \in errors /\ ~(complete /\ m = n)
      BY <2>1, <2>2, <3>2
    <3>3. CASE ~(complete /\ m = n /\ n \in member) /\ ~(m \in errors /\ ~(complete /\ m = n))
      BY <2>1, <3>3
    <3> QED
      BY <3>1, <3>2, <3>3
  <2>4. \A m \in Nodes : TurnAhead(m)' => m # n /\ TurnAhead(m)
    BY <1>1, <2>1 DEF TurnAhead
  <2> QED
    BY <1>2, <2>1, <2>3, <2>4, StoreSaved
<1> QED
  BY <1>6, <1>7, <1>8, <1>9, <1>10, <1>11, <1>12 DEF CliStep, TaskStep

LEMMA StoreOfCommands ==
    ASSUME Inv, Inv', QueueSound, StoreInv,
           (\E n \in Nodes : StopNode(n)) \/ \E c \in Clears : CommandStep(c)
    PROVE  StoreInv'
<1> USE DEF treeVars, queueVars, turnVars, handlerVars
<1>1. ASSUME task' = task
      PROVE  \A m \in Nodes : TurnAhead(m)' = TurnAhead(m)
  BY <1>1 DEF TurnAhead
<1>2. \A m \in Nodes : TurnAhead(m) => state[m] # "completed"
  BY DEF StoreInv, AheadNotDone
<1>3. ASSUME NEW S, \A m \in S : state[m] # "completed", state' = WithState(S, "error")
      PROVE  \A m \in Nodes : state'[m] = "completed" <=> state[m] = "completed"
  BY <1>3 DEF WithState
<1>4. ASSUME NEW R \in SUBSET Nodes, CancelTrees(R)
      PROVE  /\ \A m \in Nodes : state'[m] = "completed" <=> state[m] = "completed"
             /\ \A m \in Nodes : TurnAhead(m)' = TurnAhead(m)
  <2>1. \A m \in CancelledIn(R) : state[m] # "completed"
    <3> SUFFICES ASSUME NEW m \in CancelledIn(R), ~Active(m)
                 PROVE  state[m] # "completed"
      BY DEF Active, Terminal
    <3>1. m \in member /\ m \in Nodes /\ m \in ToSet(queue[root[m]])
      BY DEF CancelledIn, NodesOf, Inv, TypeInv, TypeOK
    <3>2. root[m] \in Nodes
      BY <3>1, RootExists DEF Inv
    <3>3. task[m] = "none"
      BY <3>1, <3>2 DEF ToSet, QueueSound
    <3> QED
      BY <1>2, <3>1, <3>3 DEF TurnAhead
  <2>2. \A m \in {n \in NodesOf(R) : Active(n)} : state[m] # "completed"
    BY DEF Active, Terminal
  <2>3. /\ task' = task
        /\ state' = WithState({n \in NodesOf(R) : Active(n)} \union CancelledIn(R), "error")
    BY <1>4 DEF CancelTrees
  <2> QED
    BY <1>1, <1>3, <2>1, <2>2, <2>3
<1>5. ASSUME NEW n \in Nodes, StopNode(n)
      PROVE  StoreInv'
  <2>1. /\ state[n] # "completed" /\ state' = WithState({n}, "error")
        /\ UNCHANGED <<task, known>> /\ SaveTrees({root[n]})
    BY <1>5 DEF StopNode, Active, Terminal
  <2>2. \A m \in Nodes : state'[m] = "completed" <=> state[m] = "completed"
    BY <1>3, <2>1
  <2> QED
    BY <1>1, <1>2, <2>1, <2>2, StoreSaved
<1>6. ASSUME NEW c \in Clears, \E op \in {"stop_all", "clear_all"} : StopAll(c, op)
      PROVE  StoreInv'
  <2>1. CancelTrees(Trees) /\ UNCHANGED <<known, saved>>
    BY <1>6 DEF StopAll
  <2>2. Trees \in SUBSET Nodes
    BY RootExists DEF Trees, Inv, TypeInv, TypeOK
  <2> QED
    BY <1>4, <2>1, <2>2, StoreKept
<1>7. ASSUME NEW c \in Clears, StopAllReturns(c)
      PROVE  StoreInv'
  <2>1. /\ UNCHANGED <<known, state, task>>
        /\ SaveTrees({root[n] : n \in cmd[c].nodes \intersect known})
    BY <1>7 DEF StopAllReturns
  <2> QED
    BY <1>1, <1>2, <2>1, StoreSaved
<1>8. ASSUME NEW c \in Clears, ReplaceManager(c)
      PROVE  StoreInv'
  <2>1. /\ known' = {} /\ UNCHANGED <<state, task>>
        /\ \A n \in Nodes : saved'[n] = "unsaved"
    BY <1>8 DEF ReplaceManager, Unsaved
  <2> QED
    BY <1>1, <1>2, <2>1 DEF StoreInv, StoreCurrent, AheadNotDone
<1>9. ASSUME NEW c \in Clears, NEW b \in Nodes, ClearBranch(c, b)
      PROVE  StoreInv'
  <2> DEFINE active == {n \in Descendants(b) : Active(n)}
  <2>1. /\ UNCHANGED <<task, known>> /\ state' = WithState(active, "error")
        /\ SaveTrees(IF active = {} THEN {} ELSE {root[b]})
    BY <1>9 DEF ClearBranch
  <2>2. \A m \in active : state[m] # "completed"
    BY DEF Active, Terminal
  <2> HIDE DEF active
  <2>3. \A m \in Nodes : state'[m] = "completed" <=> state[m] = "completed"
    BY <1>3, <2>1, <2>2
  <2> QED
    BY <1>1, <1>2, <2>1, <2>3, StoreSaved
<1>10. ASSUME NEW c \in Clears, NEW b \in Nodes, RemoveBranch(c, b)
       PROVE  StoreInv'
  <2>1. CASE b = root[b]
    <3>1. /\ CancelTrees({b}) /\ known' = known \ NodesOf({b}) /\ member' = member
          /\ \A n \in Nodes : saved'[n] = IF root[n] = b THEN "unsaved" ELSE saved[n]
      BY <1>10, <2>1 DEF RemoveBranch, Unsaved
    <3>2. \A n \in known' : n \in known /\ n \in Nodes /\ root[n] # b
      BY <3>1 DEF NodesOf, Inv, ShapeInv, TypeInv, TypeOK
    <3>3. /\ \A m \in Nodes : state'[m] = "completed" <=> state[m] = "completed"
          /\ \A m \in Nodes : TurnAhead(m)' = TurnAhead(m)
      BY <1>4, <3>1
    <3> QED
      BY <3>1, <3>2, <3>3 DEF StoreInv, StoreCurrent, AheadNotDone, Unsaved
  <2>2. CASE b # root[b]
    <3>1. /\ SaveTrees({root[b]}) /\ UNCHANGED <<state, task>> /\ known' \subseteq known
      BY <1>10, <2>2 DEF RemoveBranch
    <3> QED
      BY <1>1, <1>2, <3>1, StoreSaved
  <2> QED
    BY <2>1, <2>2
<1>11. ASSUME NEW c \in Clears, NEW b \in Nodes, BranchGone(c, b)
       PROVE  StoreInv'
  <2>1. UNCHANGED <<known, state, task, saved>>
    BY <1>11 DEF BranchGone
  <2> QED
    BY <1>1, <2>1, StoreKept
<1> QED
  BY <1>5, <1>6, <1>7, <1>8, <1>9, <1>10, <1>11 DEF CommandStep

LEMMA StoreStep ==
    ASSUME Inv, Inv', QueueSound, StoreInv, Next
    PROVE  StoreInv'
<1>1. ASSUME NEW n \in Nodes, HandlerStep(n)
      PROVE  StoreInv'
  <2>1. ASSUME NEW r, handler[n] = "status", Attach(n, r)
        PROVE  StoreInv'
    <3>1. /\ state' = [state EXCEPT ![n] = "pending"] \/ state' = WithState({n}, "pending")
          /\ known' = known \union {n} /\ root' = [root EXCEPT ![n] = r] /\ SaveTrees({r})
          /\ task' = task \/ task' = [task EXCEPT ![n] = "created"]
      BY <2>1 DEF Attach, EnqueueAndStart
    <3>2. /\ root[n] = None /\ task[n] = "none" /\ state[n] # "completed"
      BY <2>1 DEF Inv, TypeInv, FreshMessages, StoreInv, AheadNotDone, TurnAhead
    <3>3. /\ root'[n] = r
          /\ \A m \in Nodes : state'[m] = "completed" <=> state[m] = "completed"
          /\ \A m \in Nodes : TurnAhead(m)' => TurnAhead(m)
      BY <3>1, <3>2 DEF Inv, TypeInv, TypeOK, WithState, TurnAhead
    <3>4. \A m \in Nodes : TurnAhead(m) => state[m] # "completed"
      BY DEF StoreInv, AheadNotDone
    <3> QED
      BY <3>1, <3>3, <3>4, StoreSaved
  <2>2. CASE StatusFails(n) \/ ParentGone(n) \/ \E p \in Nodes \union {None} : Receive(n, p)
    <3>1. UNCHANGED <<known, state, task, saved>>
      BY <2>2 DEF StatusFails, ParentGone, Receive
    <3> QED
      BY <3>1, StoreKept DEF TurnAhead
  <2> QED
    BY <1>1, <2>1, <2>2 DEF HandlerStep, CreateTree, AddToTree
<1>2. CASE Restart
  <2>1. /\ known' = Stored
        /\ \A n \in Nodes : state'[n] = IF n \notin Stored THEN state[n]
                            ELSE IF saved[n] \in Terminal THEN saved[n] ELSE "error"
        /\ \A n \in Nodes : saved'[n] = IF n \in Stored THEN state'[n] ELSE "unsaved"
        /\ \A n \in Nodes : task'[n] = IF Live(n) THEN "done" ELSE task[n]
    BY <1>2 DEF Restart, Stored, Unsaved
  <2>2. StoreCurrent'
    BY <2>1 DEF StoreCurrent, Stored, Unsaved, Terminal
  <2>3. \A n \in Nodes : TurnAhead(n)' => TurnAhead(n)
    BY <2>1 DEF TurnAhead
  <2>4. AheadNotDone'
    BY <2>1, <2>3 DEF StoreInv, AheadNotDone
  <2> QED
    BY <2>2, <2>4 DEF StoreInv
<1> QED
  BY <1>1, <1>2, StoreOfTasks, StoreOfCommands DEF Next

LEMMA StoreInvAlways == Spec => []StoreInv
<1>1. Init => StoreInv
  BY DEF Init, StoreInv, StoreCurrent, AheadNotDone, Unsaved
<1>2. Inv /\ Inv' /\ QueueSound /\ StoreInv /\ [Next]_vars => StoreInv'
  <2> SUFFICES ASSUME Inv, Inv', QueueSound, StoreInv, [Next]_vars
               PROVE  StoreInv'
    OBVIOUS
  <2>1. CASE UNCHANGED vars
    BY <2>1, StoreKept DEF vars, treeVars, TurnAhead
  <2>2. CASE Next
    BY <2>2, StoreStep
  <2> QED
    BY <2>1, <2>2
<1> QED
  BY <1>1, <1>2, ShapeCorrect, QueueCorrect, PTL DEF Spec

(***************************************************************************)
(* A restart loses no finished turn and forgets no message: what the store *)
(* holds of a mapped node agrees with the memory on whether its turn       *)
(* completed, with any number of commands, restarts and messages.          *)
(***************************************************************************)
THEOREM StoreCorrect == Spec => []StoreCurrent
<1>1. StoreInv => StoreCurrent
  BY DEF StoreInv
<1> QED
  BY <1>1, StoreInvAlways, PTL

(***************************************************************************)
(* A turn cancelled or failed before its first step stays ERROR and never  *)
(* runs: nobody who still writes to the tree writes such a node.           *)
(***************************************************************************)
THEOREM NeverRevivedCorrect == Spec => NeverRevived
<1> DEFINE StaysFailed ==
        \A n \in Nodes :
            n \in member /\ task[n] \in {"none", "created"} /\ state[n] = "error" =>
                state'[n] = "error" /\ task'[n] # "running"
<1> USE DEF handlerVars, treeVars, queueVars, turnVars
<1>1. ASSUME Inv, StoreInv, Next, NEW n \in Nodes, n \in member,
             task[n] \in {"none", "created"}, state[n] = "error"
      PROVE  state'[n] = "error" /\ task'[n] # "running"
  <2>1. task \in [Nodes -> {"none", "created", "running", "closing", "done"}]
    BY <1>1 DEF Inv, TypeInv, TypeOK
  <2>2. ASSUME NEW m \in Nodes, HandlerStep(m)
        PROVE  state'[n] = "error" /\ task'[n] # "running"
    <3>1. CASE CreateTree(m) \/ AddToTree(m)
      <4>1. handler[m] = "status" /\ \E r : Attach(m, r)
        BY <3>1 DEF CreateTree, AddToTree
      <4>2. m # n
        BY <1>1, <4>1 DEF Inv, TypeInv, FreshMessages
      <4> QED
        BY <1>1, <2>1, <4>1, <4>2 DEF Attach, EnqueueAndStart
    <3>2. CASE StatusFails(m) \/ ParentGone(m) \/ \E p \in Nodes \union {None} : Receive(m, p)
      BY <1>1, <3>2 DEF StatusFails, ParentGone, Receive
    <3> QED
      BY <2>2, <3>1, <3>2 DEF HandlerStep
  <2>3. ASSUME NEW m \in Nodes, CliStep(m)
        PROVE  state'[n] = "error" /\ task'[n] # "running"
    <3>1. m # n
      BY <1>1, <2>3 DEF CliStep, SessionInfo, ErrorEvent, Raises, Exit, OnEvent
    <3>2. CASE SessionInfo(m) \/ ErrorEvent(m) \/ Raises(m)
      BY <1>1, <2>1, <3>1, <3>2 DEF SessionInfo, ErrorEvent, Raises, WithState
    <3>3. ASSUME NEW ok \in BOOLEAN, Exit(m, ok)
          PROVE  state'[n] = "error" /\ task'[n] # "running"
      <4> DEFINE complete == m \in held /\ m \in captured
                 errors == IF ok \/ m \notin held THEN {} ELSE ErrorNodes(m)
      <4>1. /\ task' = [task EXCEPT ![m] = "closing"]
            /\ state' = [x \in Nodes |->
                    CASE complete /\ x = m /\ m \in member -> "completed"
                      [] x \in errors /\ ~(complete /\ x = m) -> "error"
                      [] OTHER -> state[x]]
        BY <3>3 DEF Exit
      <4> HIDE DEF complete, errors
      <4>2. CASE n \in errors
        BY <1>1, <2>1, <3>1, <4>1, <4>2
      <4>3. CASE n \notin errors
        BY <1>1, <2>1, <3>1, <4>1, <4>3
      <4> QED
        BY <4>2, <4>3
    <3> QED
      BY <2>3, <3>2, <3>3 DEF CliStep
  <2>4. ASSUME NEW m \in Nodes, TaskStep(m)
        PROVE  state'[n] = "error" /\ task'[n] # "running"
    <3>1. CASE Dropped(m)
      BY <1>1, <2>1, <3>1 DEF Dropped
    <3>2. CASE Skip(m) \/ Finish(m)
      BY <1>1, <2>1, <3>2 DEF Skip, Finish, ProcessNext
    <3>3. CASE Begin(m) \/ Cancelled(m)
      <4>1. m # n
        BY <1>1, <3>3 DEF Begin, Cancelled, AlreadyFailed
      <4> QED
        BY <1>1, <2>1, <3>3, <4>1 DEF Begin, Cancelled, WithState
    <3> QED
      BY <2>4, <3>1, <3>2, <3>3 DEF TaskStep
  <2>5. ASSUME NEW R, CancelTrees(R)
        PROVE  state'[n] = "error" /\ task'[n] # "running"
    BY <1>1, <2>5 DEF CancelTrees, WithState
  <2>6. CASE \E m \in Nodes : StopNode(m)
    BY <1>1, <2>6 DEF StopNode, WithState
  <2>7. ASSUME NEW c \in Clears, CommandStep(c)
        PROVE  state'[n] = "error" /\ task'[n] # "running"
    <3>1. CASE \E op \in {"stop_all", "clear_all"} : StopAll(c, op)
      BY <2>5, <3>1 DEF StopAll
    <3>2. CASE StopAllReturns(c) \/ ReplaceManager(c) \/ \E b \in Nodes : BranchGone(c, b)
      BY <1>1, <3>2 DEF StopAllReturns, ReplaceManager, BranchGone
    <3>3. CASE \E b \in Nodes : ClearBranch(c, b)
      BY <1>1, <3>3 DEF ClearBranch, WithState
    <3>4. CASE \E b \in Nodes : RemoveBranch(c, b)
      BY <1>1, <2>5, <3>4 DEF RemoveBranch
    <3> QED
      BY <2>7, <3>1, <3>2, <3>3, <3>4 DEF CommandStep
  <2>8. CASE Restart
    <3>1. saved[n] # "completed"
      BY <1>1 DEF StoreInv, AheadNotDone, TurnAhead
    <3>2. /\ state'[n] \in {state[n], "error"} \/ (saved[n] \in Terminal /\ state'[n] = saved[n])
          /\ task'[n] \in {"done", task[n]}
      BY <2>8 DEF Restart
    <3> QED
      BY <1>1, <3>1, <3>2 DEF Terminal
  <2> QED
    BY <1>1, <2>2, <2>3, <2>4, <2>6, <2>7, <2>8 DEF Next
<1>2. Inv /\ StoreInv /\ [Next]_vars => [StaysFailed]_vars
  BY <1>1
<1> QED
  BY <1>2, ShapeCorrect, StoreInvAlways, PTL DEF Spec, NeverRevived
=============================================================================
