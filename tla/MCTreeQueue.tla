----------------------------- MODULE MCTreeQueue -----------------------------
\* Instances of TreeQueue for TLC.
EXTENDS TreeQueue, TLC

CONSTANTS m1, m2, m3, c1, c2

ThreeMessages == {m1, m2, m3}
TwoMessages == {m1, m2}
OneCommand == {c1}
TwoCommands == {c1, c2}
AllCommands == {"stop", "stop_all", "clear_branch", "clear_all", "restart"}

\* Without is SelectSeq on every queue of these messages.
ASSUME WithoutIsSelectSeq ==
    \A s \in SeqOf(ThreeMessages, 3), S \in SUBSET ThreeMessages :
        Without(s, S) = {SelectSeq(s, LAMBDA q : q \notin S)}

\* Messages are interchangeable: no action compares them but for equality.
MessageSymmetry == Permutations(ThreeMessages) \union Permutations(TwoCommands)

\* For the run with liveness, which cannot use the symmetry: the messages arrive in
\* one order, which is any order with the messages renamed, and talk in one tree,
\* since the queue of a tree knows nothing of another tree.
OneTree ==
    /\ handler[m2] # "idle" => handler[m1] # "idle"
    /\ handler[m3] # "idle" => handler[m2] # "idle"
    /\ \A m \in {m2, m3} : handler[m] = "status" => parent[m] # None
=============================================================================
