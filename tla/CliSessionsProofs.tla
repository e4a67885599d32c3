-------------------------- MODULE CliSessionsProofs --------------------------
(***************************************************************************)
(* What TLAPS proves about CliSessions, for any turns, trees and replies   *)
(* and any number of calls of stop_all: every variable has its type, no    *)
(* two turns share a session, the maps of ids agree, and stop_all kills    *)
(* what ran when it got the lock, with the exceptions these properties     *)
(* name.                                                                   *)
(*                                                                         *)
(* The argument.  An id in the maps belongs to a turn that has not left it *)
(* yet, or its removal was cancelled (Owned); ids do not pass from tree to *)
(* tree (TurnSound, MapsSound); and a turn that is to get a session, and   *)
(* began beside no other, is alone in its tree until a cancellation is on  *)
(* its way to it (Alone).  Hence what it finds was left behind.  The maps  *)
(* of ids change under the lock only, and an id is registered once: a      *)
(* process announces it once (Known).                                      *)
(* A session leaves the maps only with a signal to its process: the turn   *)
(* of a process that runs has its session where remove_session and         *)
(* stop_all look for it, and no other turn gets at it, since they wait     *)
(* behind a call of stop_all or there are none (Guarded).  A process that  *)
(* outlives its turn belongs to a node that is over, which no /stop        *)
(* cancels a second time (EndSound).  stop_all relies on the order of the  *)
(* lock: a turn that waited before it was cancelled, if the call is one of *)
(* a command (StopSound).                                                  *)
(***************************************************************************)
EXTENDS CliSessions, SequenceTheorems, TLAPS

(***************************************************************************)
(* The lock of the manager: who is in line, and in which order.            *)
(***************************************************************************)
Distinct(s) == \A i, j \in DOMAIN s : s[i] = s[j] => i = j
Occurs(s, x) == \E i \in DOMAIN s : s[i] = x
Precedes(s, x, y) == \E i, j \in DOMAIN s : i < j /\ s[i] = x /\ s[j] = y

InLine(x) == Occurs(lock, x)
Ahead(x, y) == Precedes(lock, x, y)

LockSound ==
    /\ lock \in Seq(Turns \union Stops)
    /\ Distinct(lock)
    /\ \A t \in Turns : InLine(t) <=> stage[t] \in {"wants", "registers", "leaves", "removing"}
    /\ \A c \in Stops : InLine(c) <=> stop[c] \in {"waits", "stops"}
    /\ \A t \in Turns : stage[t] = "removing" => Holds(t)
    /\ \A c \in Stops : stop[c] = "stops" => Holds(c)

\* The calls of stop_all are in line in the order in which they were made.
StopsInOrder ==
    \A c, d \in Stops : d < c =>
        /\ stop[c] # "idle" => stop[d] # "idle"
        /\ InLine(c) /\ InLine(d) => Ahead(d, c)

(***************************************************************************)
(* The turns.                                                              *)
(***************************************************************************)
Removal == [process : Turns, real : BOOLEAN]

Types ==
    /\ stage \in [Turns -> Stages]
    /\ resume \in [Turns -> Ids \union {None}] /\ temp \in [Turns -> Ids \union {None}]
    /\ captured \in [Turns -> Ids \union {None}] /\ recorded \in [Turns -> Ids \union {None}]
    /\ session \in [Turns -> Turns \union {None}]
    /\ removing \in [Turns -> {None} \union Removal]
    /\ cancel \subseteq Turns /\ ended \subseteq Turns /\ beside \subseteq Turns
    /\ current \in [Trees -> Turns \union {None}] /\ task \in [Trees -> Turns \union {None}]
    /\ cleared \subseteq Trees
    /\ cli_lock \in [Turns -> Turns \union {None}]
    /\ process \in [Turns -> Turns \union {None}]
    /\ proc \in [Turns -> {"none", "alive", "dying", "dead"}]
    /\ up \in BOOLEAN
    /\ stop \in [Stops -> {"idle", "waits", "stops", "done", "given_up"}]
    /\ victims \in [Stops -> SUBSET Turns] /\ before \in [Stops -> SUBSET Turns]
    /\ killing \in [Stops -> Turns \union {None}]

\* The id of a process was announced, and that of a fresh session is in use.
Known(id) == IF id[1] = "real" THEN captured[id[2]] = id ELSE session[id[2]] = id[2]

\* The turns of a tree only know ids of their tree.
IdTree(id) == TreeOf[id[2]]
OfTurn(t, id) == id # None => Known(id) /\ IdTree(id) = TreeOf[t]

TurnSound ==
    \A t \in Turns :
        /\ stage[t] \in {"idle", "wants"} => session[t] = None
        /\ Begun(t) /\ stage[t] # "wants" => session[t] # None
        /\ session[t] = None => temp[t] = None /\ captured[t] = None /\ recorded[t] = None
        /\ session[t] # None => /\ ~(temp[t] = None <=> captured[t] = None)
                                /\ TreeOf[session[t]] = TreeOf[t]
        /\ temp[t] # None => session[t] = t
        /\ stage[t] = "registers" => temp[t] # None
        /\ stage[t] = "removing" => removing[t] \in Removal
        /\ OfTurn(t, resume[t]) /\ OfTurn(t, temp[t])
        /\ OfTurn(t, captured[t]) /\ OfTurn(t, recorded[t])

Mates(t, u) == t # u /\ TreeOf[t] = TreeOf[u]

\* A turn on its way to a session or to a process, unless it is to be cancelled.
Coming(t) == stage[t] \in {"wants", "spawning"} /\ t \notin cancel

Alone ==
    \A t \in Turns \ beside : Coming(t) =>
        /\ current[TreeOf[t]] = t /\ task[TreeOf[t]] = t /\ TreeOf[t] \notin cleared
        /\ \A u \in Turns : Mates(t, u) => ~Begun(u)

(***************************************************************************)
(* The maps of the manager.                                                *)
(***************************************************************************)
Owns(u, id) ==
    /\ Handle(u) = id
    /\ stage[u] \in {"spawning", "reading", "registers", "kills", "drains", "leaves"}

Owned ==
    \A id \in DOMAIN pending \union DOMAIN sessions :
        id \in unremoved \/ \E u \in Turns : Owns(u, id)

\* The id of a session that is registered, or that is being removed.
Mapped(id) ==
    \/ id \in DOMAIN sessions
    \/ \E t \in Turns : stage[t] = "removing" /\ removing[t].real /\ Handle(t) = id

MapsTyped ==
    /\ PartialTo(pending, Ids, Turns) /\ PartialTo(sessions, Ids, Turns)
    /\ PartialTo(temp_to_real, Ids, Ids) /\ PartialTo(real_to_temp, Ids, Ids)

\* Every session is in one place.
SessionsSound ==
    /\ \A id \in DOMAIN pending :
        /\ Known(id) /\ session[pending[id]] = pending[id]
        /\ TreeOf[pending[id]] = IdTree(id)
        /\ \A j \in DOMAIN pending : pending[j] = pending[id] => j = id
        /\ \A j \in DOMAIN sessions : sessions[j] # pending[id]
    /\ \A id \in DOMAIN sessions :
        /\ Known(id) /\ session[sessions[id]] = sessions[id]
        /\ TreeOf[sessions[id]] = IdTree(id)
        /\ \A j \in DOMAIN sessions : sessions[j] = sessions[id] => j = id
    /\ \A t \in Turns :
        /\ temp[t] \notin DOMAIN sessions
        /\ stage[t] = "removing" => Handle(t) \notin DOMAIN pending \union DOMAIN sessions

IdsSound ==
    /\ \A id \in DOMAIN temp_to_real :
        /\ Known(id) /\ Known(temp_to_real[id])
        /\ IdTree(temp_to_real[id]) = IdTree(id)
        /\ \E j \in DOMAIN real_to_temp : real_to_temp[j] = id
    /\ \A id \in DOMAIN real_to_temp : Known(id) /\ (Mapped(id) \/ id \in unmapped)
    /\ \A id : Mapped(id) =>
        /\ id \in DOMAIN real_to_temp /\ real_to_temp[id] \in DOMAIN temp_to_real
        /\ temp_to_real[real_to_temp[id]] = id
        /\ real_to_temp[id] \notin DOMAIN pending
        /\ id \notin DOMAIN pending \union DOMAIN temp_to_real

MapsSound == MapsTyped /\ SessionsSound /\ IdsSound

(***************************************************************************)
(* stop_all and the processes.                                             *)
(***************************************************************************)
\* Call c of stop_all cancelled all trees first: it is not the one of the shutdown.
OfCommand(c) == up \/ \E d \in Stops : c < d /\ stop[d] # "idle"

ShutDown == ~up /\ ~Stopping

ProcSound ==
    \A t \in Turns :
        /\ proc[t] = "alive" => /\ session[t] # None /\ process[session[t]] = t
                                /\ cli_lock[session[t]] = t
        /\ stage[t] \in {"idle", "wants", "spawning"} => proc[t] = "none"
        /\ stage[t] \in {"kills", "drains"} => proc[t] # "alive"

\* A process that runs on when its turn leaves it: the node of the turn is over.
EndSound ==
    /\ cancel \subseteq ended
    /\ \A t \in Turns :
        proc[t] = "alive" /\ stage[t] \in {"leaves", "removing", "done"} => t \in ended

\* The session of a turn is where its finally clause looks for it.
Filed(s, id) ==
    \/ id \in DOMAIN pending /\ pending[id] = s
    \/ id \in DOMAIN sessions /\ sessions[id] = s
InMaps(t) == Filed(session[t], Handle(t))

Working(t) == proc[t] = "alive" \/ (stage[t] = "spawning" /\ t \notin cancel)

\* No other turn of its tree gets at the session of u: they wait behind call c; or
\* there are none, as the tree is gone or still has u, which cannot be cancelled twice.
StopComes(u, c) ==
    /\ stop[c] \in {"waits", "stops"} /\ OfCommand(c)
    /\ \A t \in Turns : Mates(u, t) /\ Begun(t) => stage[t] = "wants" /\ Ahead(c, t)
Unrivalled(u) ==
    /\ \A t \in Turns : Mates(u, t) => ~Begun(t)
    /\ \/ TreeOf[u] \in cleared
       \/ /\ current[TreeOf[u]] = u
          /\ stage[u] \in {"leaves", "removing"} => u \notin cancel
Undisturbed(u) == Unrivalled(u) \/ \E c \in Stops : StopComes(u, c)

Guarded ==
    \A t \in Turns \ beside : Working(t) => (InMaps(t) /\ Undisturbed(t)) \/ ShutDown

StopSound ==
    \A c \in Stops :
        /\ \A t \in before[c] : proc[t] # "none"
        /\ stop[c] = "stops" =>
              \A t \in before[c] \ beside : proc[t] = "alive" => session[t] \in victims[c]
        /\ stop[c] \in {"waits", "stops"} /\ OfCommand(c) => \A t \in Turns \ beside :
              /\ stage[t] = "spawning" => t \in cancel
              /\ stage[t] = "wants" /\ Ahead(t, c) => t \in cancel
              /\ stop[c] = "stops" /\ proc[t] = "alive" => session[t] \in victims[c]

Inv ==
    /\ Types /\ LockSound /\ StopsInOrder /\ TurnSound /\ Alone /\ Owned /\ MapsSound
    /\ SessionsUnshared /\ ProcSound /\ EndSound /\ Guarded /\ StopSound /\ StopAllKills

(* Maps and lines. *)

LEMMA WithoutFacts ==
    ASSUME NEW f, NEW K
    PROVE  /\ DOMAIN Without(f, K) = DOMAIN f \ K
           /\ \A i \in DOMAIN f \ K : Without(f, K)[i] = f[i]
  BY DEF Without, Restrict

LEMMA RangeFacts ==
    ASSUME NEW f, NEW y
    PROVE  y \in Range(f) <=> \E x \in DOMAIN f : f[x] = y
  BY DEF Range

LEMMA EmptyFacts == DOMAIN Empty = {} /\ Range(Empty) = {}
  BY DEF Empty, Range

LEMMA RemoveAtFacts ==
    ASSUME NEW S, NEW s \in Seq(S), NEW i \in DOMAIN s
    PROVE  /\ RemoveAt(s, i) \in Seq(S)
           /\ Len(RemoveAt(s, i)) = Len(s) - 1
           /\ \A h \in 1 .. Len(s) - 1 :
                  RemoveAt(s, i)[h] = IF h < i THEN s[h] ELSE s[h + 1]
<1> DEFINE front == SubSeq(s, 1, i - 1)
           back  == SubSeq(s, i + 1, Len(s))
<1>1. Len(s) \in Nat /\ i \in 1 .. Len(s)
  BY LenProperties
<1>2. front \in Seq(S) /\ Len(front) = i - 1 /\ \A h \in 1 .. i - 1 : front[h] = s[h]
  BY <1>1
<1>3. /\ back \in Seq(S) /\ Len(back) = Len(s) - i
      /\ \A h \in 1 .. Len(s) - i : back[h] = s[i + h]
  BY <1>1
<1>4. RemoveAt(s, i) = front \o back
  BY DEF RemoveAt
<1> HIDE DEF front, back
<1>5. /\ front \o back \in Seq(S)
      /\ Len(front \o back) = Len(s) - 1
  BY <1>1, <1>2, <1>3, ConcatProperties
<1>6. \A h \in 1 .. Len(s) - 1 : (front \o back)[h] = IF h < i THEN s[h] ELSE s[h + 1]
  <2> SUFFICES ASSUME NEW h \in 1 .. Len(s) - 1
               PROVE  (front \o back)[h] = IF h < i THEN s[h] ELSE s[h + 1]
    OBVIOUS
  <2>1. (front \o back)[h] = IF h <= Len(front) THEN front[h] ELSE back[h - Len(front)]
    BY <1>1, <1>2, <1>3, ConcatProperties
  <2>2. CASE h < i
    BY <1>1, <1>2, <2>1, <2>2
  <2>3. CASE ~(h < i)
    <3>1. h - Len(front) \in 1 .. Len(s) - i /\ i + (h - Len(front)) = h + 1
      BY <1>1, <1>2, <2>3
    <3> QED
      BY <1>1, <1>2, <1>3, <2>1, <2>3, <3>1
  <2> QED
    BY <2>2, <2>3
<1> QED
  BY <1>4, <1>5, <1>6

\* What is left of a line once one of it has left: the others, in their order.
LEMMA RemoveAtOrder ==
    ASSUME NEW S, NEW s \in Seq(S), Distinct(s), NEW n \in DOMAIN s
    PROVE  /\ RemoveAt(s, n) \in Seq(S) /\ Distinct(RemoveAt(s, n))
           /\ \A y : Occurs(RemoveAt(s, n), y) <=> y # s[n] /\ Occurs(s, y)
           /\ \A y, z : Precedes(RemoveAt(s, n), y, z)
                           <=> y # s[n] /\ z # s[n] /\ Precedes(s, y, z)
<1> DEFINE t == RemoveAt(s, n)
           at(h) == IF h < n THEN h ELSE h + 1
<1>1. Len(s) \in Nat /\ n \in 1 .. Len(s) /\ DOMAIN s = 1 .. Len(s)
  BY LenProperties
<1>2. t \in Seq(S) /\ Len(t) = Len(s) - 1 /\ \A h \in 1 .. Len(s) - 1 : t[h] = s[at(h)]
  BY RemoveAtFacts
<1>3. DOMAIN t = 1 .. Len(s) - 1
  BY <1>2, LenProperties
<1>4. \A h \in DOMAIN t : at(h) \in DOMAIN s /\ at(h) # n
  BY <1>1, <1>3
<1>5. \A g, h \in DOMAIN t : /\ at(g) = at(h) => g = h
                             /\ g < h <=> at(g) < at(h)
  BY <1>1, <1>3
<1>6. \A i \in DOMAIN s : i # n => \E h \in DOMAIN t : at(h) = i
  <2> SUFFICES ASSUME NEW i \in DOMAIN s, i # n
               PROVE  \E h \in 1 .. Len(s) - 1 : at(h) = i
    BY <1>3
  <2>1. CASE i < n
    <3>1. i \in 1 .. Len(s) - 1 /\ at(i) = i
      BY <1>1, <2>1
    <3> QED
      BY <3>1
  <2>2. CASE ~(i < n)
    <3>1. i - 1 \in 1 .. Len(s) - 1 /\ at(i - 1) = i
      BY <1>1, <2>2
    <3> QED
      BY <3>1
  <2> QED
    BY <2>1, <2>2
<1>7. \A h \in DOMAIN t : t[h] = s[at(h)] /\ t[h] # s[n]
  BY <1>2, <1>3, <1>4 DEF Distinct
<1> HIDE DEF t, at
<1>8. Distinct(t)
  BY <1>4, <1>5, <1>7 DEF Distinct
<1>9. \A y : Occurs(t, y) <=> y # s[n] /\ Occurs(s, y)
  BY <1>4, <1>6, <1>7 DEF Occurs
<1>10. \A y, z : Precedes(t, y, z) <=> y # s[n] /\ z # s[n] /\ Precedes(s, y, z)
  <2> SUFFICES ASSUME NEW y, NEW z
               PROVE  Precedes(t, y, z) <=> y # s[n] /\ z # s[n] /\ Precedes(s, y, z)
    OBVIOUS
  <2>1. ASSUME Precedes(t, y, z)
        PROVE  y # s[n] /\ z # s[n] /\ Precedes(s, y, z)
    BY <1>4, <1>5, <1>7, <2>1 DEF Precedes
  <2>2. ASSUME y # s[n], z # s[n], Precedes(s, y, z)
        PROVE  Precedes(t, y, z)
    <3>1. PICK i, j \in DOMAIN s : i < j /\ s[i] = y /\ s[j] = z
      BY <2>2 DEF Precedes
    <3>2. PICK g \in DOMAIN t : at(g) = i
      BY <1>6, <2>2, <3>1
    <3>3. PICK h \in DOMAIN t : at(h) = j
      BY <1>6, <2>2, <3>1
    <3>4. g < h /\ t[g] = y /\ t[h] = z
      BY <1>5, <1>7, <3>1, <3>2, <3>3
    <3> QED
      BY <3>4 DEF Precedes
  <2> QED
    BY <2>1, <2>2
<1> QED
  BY <1>2, <1>8, <1>9, <1>10 DEF t

LEMMA RemoveFirstOrder ==
    ASSUME NEW S, NEW s \in Seq(S), Distinct(s), NEW x
    PROVE  /\ RemoveFirst(s, x) \in Seq(S) /\ Distinct(RemoveFirst(s, x))
           /\ \A y : Occurs(RemoveFirst(s, x), y) <=> y # x /\ Occurs(s, y)
           /\ \A y, z : Precedes(RemoveFirst(s, x), y, z)
                           <=> y # x /\ z # x /\ Precedes(s, y, z)
<1>1. Len(s) \in Nat /\ DOMAIN s = 1 .. Len(s)
  BY LenProperties
<1>2. CASE ~Occurs(s, x)
  <2>1. RemoveFirst(s, x) = s
    BY <1>1, <1>2 DEF RemoveFirst, Occurs
  <2> QED
    BY <1>2, <2>1 DEF Occurs, Precedes
<1>3. CASE Occurs(s, x)
  <2>1. PICK n \in DOMAIN s : s[n] = x
    BY <1>3 DEF Occurs
  <2>2. {i \in 1 .. Len(s) : s[i] = x} = {n}
    BY <1>1, <2>1 DEF Distinct
  <2>3. SelectInSeq(s, LAMBDA v : v = x) = Min({n})
    BY <2>2 DEF SelectInSeq
  <2>4. Min({n}) = n
    BY <1>1, <2>1 DEF Min
  <2>5. RemoveFirst(s, x) = RemoveAt(s, n)
    BY <1>1, <2>1, <2>3, <2>4 DEF RemoveFirst
  <2> QED
    BY <2>1, <2>5, RemoveAtOrder
<1> QED
  BY <1>2, <1>3

LEMMA TailOrder ==
    ASSUME NEW S, NEW s \in Seq(S), Distinct(s), s # <<>>
    PROVE  /\ Tail(s) \in Seq(S) /\ Distinct(Tail(s))
           /\ \A y : Occurs(Tail(s), y) <=> y # Head(s) /\ Occurs(s, y)
           /\ \A y, z : Precedes(Tail(s), y, z)
                           <=> y # Head(s) /\ z # Head(s) /\ Precedes(s, y, z)
<1>1. /\ Len(s) \in Nat /\ Len(s) > 0 /\ DOMAIN s = 1 .. Len(s)
      /\ Head(s) = s[1] /\ 1 \in DOMAIN s
  BY EmptySeq, LenProperties, HeadTailProperties
<1>2. /\ Tail(s) \in Seq(S) /\ Len(Tail(s)) = Len(s) - 1
      /\ \A i \in 1 .. Len(Tail(s)) : Tail(s)[i] = s[i + 1]
  BY HeadTailProperties
<1>3. DOMAIN Tail(s) = 1 .. Len(s) - 1
  BY <1>2, LenProperties
<1> DEFINE t == Tail(s)
<1>4. \A i \in DOMAIN t : t[i] = s[i + 1] /\ i + 1 \in DOMAIN s /\ i + 1 # 1 /\ i \in Int
  BY <1>1, <1>2, <1>3
<1>5. \A i \in DOMAIN s : i # 1 => i - 1 \in DOMAIN t /\ s[i] = t[i - 1] /\ i \in Int
  BY <1>1, <1>2, <1>3
<1> HIDE DEF t
<1>6. \A i \in DOMAIN t : t[i] # Head(s)
  BY <1>1, <1>4 DEF Distinct
<1>7. Distinct(t)
  BY <1>4 DEF Distinct
<1>8. \A y : Occurs(t, y) <=> y # Head(s) /\ Occurs(s, y)
  BY <1>1, <1>4, <1>5, <1>6 DEF Occurs
<1>9. \A y, z : Precedes(t, y, z) <=> y # Head(s) /\ z # Head(s) /\ Precedes(s, y, z)
  <2> SUFFICES ASSUME NEW y, NEW z
               PROVE  Precedes(t, y, z) <=> y # Head(s) /\ z # Head(s) /\ Precedes(s, y, z)
    OBVIOUS
  <2>1. ASSUME Precedes(t, y, z)
        PROVE  y # Head(s) /\ z # Head(s) /\ Precedes(s, y, z)
    <3>1. PICK i, j \in DOMAIN t : i < j /\ t[i] = y /\ t[j] = z
      BY <2>1 DEF Precedes
    <3>2. i + 1 \in DOMAIN s /\ j + 1 \in DOMAIN s /\ i + 1 < j + 1 /\ s[i + 1] = y /\ s[j + 1] = z
      BY <1>4, <3>1
    <3> QED
      BY <1>6, <3>1, <3>2 DEF Precedes
  <2>2. ASSUME y # Head(s), z # Head(s), Precedes(s, y, z)
        PROVE  Precedes(t, y, z)
    <3>1. PICK i, j \in DOMAIN s : i < j /\ s[i] = y /\ s[j] = z
      BY <2>2 DEF Precedes
    <3>2. i - 1 \in DOMAIN t /\ j - 1 \in DOMAIN t /\ i - 1 < j - 1 /\ t[i - 1] = y /\ t[j - 1] = z
      BY <1>1, <1>5, <2>2, <3>1
    <3> QED
      BY <3>2 DEF Precedes
  <2> QED
    BY <2>1, <2>2
<1> QED
  BY <1>2, <1>7, <1>8, <1>9 DEF t

LEMMA AppendOrder ==
    ASSUME NEW S, NEW s \in Seq(S), Distinct(s), NEW x \in S, ~Occurs(s, x)
    PROVE  /\ Append(s, x) \in Seq(S) /\ Distinct(Append(s, x))
           /\ \A y : Occurs(Append(s, x), y) <=> y = x \/ Occurs(s, y)
           /\ \A y, z : Precedes(Append(s, x), y, z)
                           <=> Precedes(s, y, z) \/ (z = x /\ Occurs(s, y))
<1> DEFINE t == Append(s, x)
           n == Len(s) + 1
<1>1. Len(s) \in Nat /\ DOMAIN s = 1 .. Len(s)
  BY LenProperties
<1>2. t \in Seq(S) /\ Len(t) = n /\ t[n] = x /\ \A i \in 1 .. Len(s) : t[i] = s[i]
  BY AppendProperties
<1>3. DOMAIN t = 1 .. n
  BY <1>2, LenProperties
<1>4. /\ n \in DOMAIN t /\ n \notin DOMAIN s
      /\ \A i \in DOMAIN t : i = n \/ i \in DOMAIN s
      /\ \A i \in DOMAIN s : i \in DOMAIN t /\ i < n /\ t[i] = s[i] /\ ~(n < i) /\ s[i] # x
  BY <1>1, <1>2, <1>3 DEF Occurs
<1>5. ~(n < n) /\ t[n] = x
  BY <1>1, <1>2
<1> HIDE DEF t, n
<1>6. Distinct(t)
  BY <1>4, <1>5 DEF Distinct
<1>7. \A y : Occurs(t, y) <=> y = x \/ Occurs(s, y)
  BY <1>4, <1>5 DEF Occurs
<1>8. \A y, z : Precedes(t, y, z) <=> Precedes(s, y, z) \/ (z = x /\ Occurs(s, y))
  <2> SUFFICES ASSUME NEW y, NEW z
               PROVE  Precedes(t, y, z) <=> Precedes(s, y, z) \/ (z = x /\ Occurs(s, y))
    OBVIOUS
  <2>1. ASSUME Precedes(t, y, z)
        PROVE  Precedes(s, y, z) \/ (z = x /\ Occurs(s, y))
    BY <1>4, <1>5, <2>1 DEF Precedes, Occurs
  <2>2. ASSUME Precedes(s, y, z) \/ (z = x /\ Occurs(s, y))
        PROVE  Precedes(t, y, z)
    BY <1>4, <1>5, <2>2 DEF Precedes, Occurs
  <2> QED
    BY <2>1, <2>2
<1> QED
  BY <1>2, <1>6, <1>7, <1>8 DEF t

LEMMA HeadOrder ==
    ASSUME NEW S, NEW s \in Seq(S), Distinct(s), s # <<>>
    PROVE  /\ Head(s) \in S /\ Occurs(s, Head(s))
           /\ \A y : ~Precedes(s, y, Head(s))
           /\ \A y : Occurs(s, y) /\ y # Head(s) => Precedes(s, Head(s), y)
<1>1. /\ Len(s) \in Nat /\ DOMAIN s = 1 .. Len(s) /\ 1 \in DOMAIN s /\ Head(s) = s[1]
      /\ Head(s) \in S
  BY EmptySeq, LenProperties, HeadTailProperties
<1>2. \A i \in DOMAIN s : (i = 1 \/ 1 < i) /\ ~(i < 1)
  BY <1>1
<1> QED
  BY <1>1, <1>2 DEF Occurs, Precedes, Distinct

LEMMA NobodyAhead ==
    ASSUME NEW S, NEW s \in Seq(S), Distinct(s), NEW x, Occurs(s, x),
           \A y \in S : ~Precedes(s, y, x)
    PROVE  s # <<>> /\ Head(s) = x
<1>1. s # <<>>
  <2>1. PICK i \in DOMAIN s : s[i] = x
    BY DEF Occurs
  <2> QED
    BY <2>1, EmptySeq, LenProperties
<1> QED
  BY <1>1, HeadOrder

\* Only t may change its place in line: it leaves it, or goes to its end.
KeepsOrder(t) ==
    /\ lock' \in Seq(Turns \union Stops) /\ Distinct(lock')
    /\ \A x \in Turns \union Stops : x # t => (Occurs(lock', x) <=> Occurs(lock, x))
    /\ \A x, y \in Turns \union Stops :
          x # t /\ y # t => (Precedes(lock', x, y) <=> Precedes(lock, x, y))

Requeues(t) == KeepsOrder(t) /\ \A x \in Turns \union Stops : ~Precedes(lock', t, x)

\* q is the line without t.
LineWithout(t, q) ==
    /\ q \in Seq(Turns \union Stops) /\ Distinct(q) /\ ~Occurs(q, t)
    /\ \A x \in Turns \union Stops : x # t => (Occurs(q, x) <=> Occurs(lock, x))
    /\ \A x, y \in Turns \union Stops :
          x # t /\ y # t => (Precedes(q, x, y) <=> Precedes(lock, x, y))

LEMMA PrecedesOccurs ==
    ASSUME NEW s, NEW x, NEW y, Precedes(s, x, y)
    PROVE  Occurs(s, x) /\ Occurs(s, y)
  BY DEF Precedes, Occurs

LEMMA LineWithoutLeft ==
    ASSUME LockSound, NEW t \in Turns \union Stops
    PROVE  /\ LineWithout(t, LeaveLock(t))
           /\ ~Occurs(lock, t) => LineWithout(t, lock)
           /\ Holds(t) => LineWithout(t, Tail(lock)) /\ lock = <<t>> \o Tail(lock)
<1>1. lock \in Seq(Turns \union Stops) /\ Distinct(lock)
  BY DEF LockSound
<1>2. LineWithout(t, LeaveLock(t))
  BY <1>1, RemoveFirstOrder DEF LeaveLock, LineWithout
<1>3. ~Occurs(lock, t) => LineWithout(t, lock)
  BY <1>1 DEF LineWithout
<1>4. Holds(t) => LineWithout(t, Tail(lock)) /\ lock = <<t>> \o Tail(lock)
  BY <1>1, TailOrder, HeadTailProperties DEF Holds, LineWithout
<1> QED
  BY <1>2, <1>3, <1>4

LEMMA LineChanges ==
    ASSUME LockSound, NEW t \in Turns \union Stops, NEW q, LineWithout(t, q)
    PROVE  /\ lock' = q => Requeues(t) /\ ~Occurs(lock', t)
           /\ lock' = Append(q, t) => Requeues(t) /\ Occurs(lock', t)
           /\ lock' = <<t>> \o q /\ q = <<>> =>
                Requeues(t) /\ Occurs(lock', t) /\ Holds(t)'
<1>1. ASSUME lock' = q
      PROVE  Requeues(t) /\ ~Occurs(lock', t)
  BY <1>1, PrecedesOccurs DEF Requeues, KeepsOrder, LineWithout
<1>2. ASSUME lock' = Append(q, t)
      PROVE  Requeues(t) /\ Occurs(lock', t)
  <2> DEFINE a == Append(q, t)
  <2>1. /\ a \in Seq(Turns \union Stops) /\ Distinct(a)
        /\ \A y : Occurs(a, y) <=> y = t \/ Occurs(q, y)
        /\ \A y, z : Precedes(a, y, z) <=> Precedes(q, y, z) \/ (z = t /\ Occurs(q, y))
    BY AppendOrder DEF LineWithout
  <2>2. lock' = a
    BY <1>2
  <2> HIDE DEF a
  <2>3. \A x : ~Precedes(q, t, x)
    BY PrecedesOccurs DEF LineWithout
  <2> QED
    BY <2>1, <2>2, <2>3 DEF Requeues, KeepsOrder, LineWithout
<1>3. ASSUME lock' = <<t>> \o q, q = <<>>
      PROVE  Requeues(t) /\ Occurs(lock', t) /\ Holds(t)'
  <2>1. Append(q, t) = <<t>> /\ <<t>> \o q = <<t>>
    BY <1>3
  <2>2. lock' = Append(q, t) /\ lock' = <<t>>
    BY <1>3, <2>1
  <2>3. Head(<<t>>) = t /\ <<t>> # <<>>
    OBVIOUS
  <2> QED
    BY <1>2, <2>2, <2>3 DEF Holds
<1> QED
  BY <1>1, <1>2, <1>3

\* The lock stays sound when one turn, or one call of stop_all, moves.
LEMMA HolderKept ==
    ASSUME LockSound, NEW t \in Turns \union Stops, Requeues(t),
           NEW h \in Turns \union Stops, h # t, Holds(h)
    PROVE  Holds(h)'
<1>1. lock \in Seq(Turns \union Stops) /\ Distinct(lock) /\ lock # <<>> /\ Head(lock) = h
  BY DEF LockSound, Holds
<1>2. Occurs(lock, h) /\ \A y : ~Precedes(lock, y, h)
  BY <1>1, HeadOrder
<1>3. Occurs(lock', h) /\ \A y \in Turns \union Stops : ~Precedes(lock', y, h)
  BY <1>2 DEF Requeues, KeepsOrder
<1> DEFINE S == Turns \union Stops
<1>4. PICK s : s = lock'
  OBVIOUS
<1>5. s \in Seq(S) /\ Distinct(s) /\ Occurs(s, h) /\ \A y \in S : ~Precedes(s, y, h)
  BY <1>3, <1>4 DEF Requeues, KeepsOrder
<1>6. s # <<>> /\ Head(s) = h
  BY <1>5, NobodyAhead
<1> QED
  BY <1>4, <1>6 DEF Holds

LEMMA TurnKeepsLock ==
    ASSUME LockSound, NEW t \in Turns, Requeues(t), stop' = stop,
           \A u \in Turns \ {t} : stage'[u] = stage[u],
           Occurs(lock', t) <=> stage'[t] \in {"wants", "registers", "leaves", "removing"},
           stage'[t] = "removing" => Holds(t)'
    PROVE  LockSound'
<1>1. \A c \in Stops : c # t
  BY StopsAssumption DEF Stops
<1>2. \A u \in Turns :
        InLine(u)' <=> stage'[u] \in {"wants", "registers", "leaves", "removing"}
  BY DEF LockSound, Requeues, KeepsOrder, InLine
<1>3. \A c \in Stops : InLine(c)' <=> stop'[c] \in {"waits", "stops"}
  BY <1>1 DEF LockSound, Requeues, KeepsOrder, InLine
<1>4. \A u \in Turns : stage'[u] = "removing" => Holds(u)'
  BY HolderKept DEF LockSound
<1>5. \A c \in Stops : stop'[c] = "stops" => Holds(c)'
  BY <1>1, HolderKept DEF LockSound
<1> QED
  BY <1>2, <1>3, <1>4, <1>5 DEF LockSound, Requeues, KeepsOrder

LEMMA StopKeepsLock ==
    ASSUME LockSound, NEW c \in Stops, Requeues(c), stage' = stage,
           \A d \in Stops \ {c} : stop'[d] = stop[d],
           Occurs(lock', c) <=> stop'[c] \in {"waits", "stops"},
           stop'[c] = "stops" => Holds(c)'
    PROVE  LockSound'
<1>1. \A t \in Turns : c # t
  BY StopsAssumption DEF Stops
<1>2. \A u \in Turns :
        InLine(u)' <=> stage'[u] \in {"wants", "registers", "leaves", "removing"}
  BY <1>1 DEF LockSound, Requeues, KeepsOrder, InLine
<1>3. \A d \in Stops : InLine(d)' <=> stop'[d] \in {"waits", "stops"}
  BY DEF LockSound, Requeues, KeepsOrder, InLine
<1>4. \A u \in Turns : stage'[u] = "removing" => Holds(u)'
  BY <1>1, HolderKept DEF LockSound
<1>5. \A d \in Stops : stop'[d] = "stops" => Holds(d)'
  BY HolderKept DEF LockSound
<1> QED
  BY <1>2, <1>3, <1>4, <1>5 DEF LockSound, Requeues, KeepsOrder

LEMMA LineStaysSound ==
    ASSUME LockSound, NEW t \in Turns, lock' = lock, stop' = stop,
           \A u \in Turns \ {t} : stage'[u] = stage[u],
           stage[t] \in {"wants", "registers", "leaves", "removing"}
              <=> stage'[t] \in {"wants", "registers", "leaves", "removing"},
           stage'[t] = "removing" => Holds(t)
    PROVE  LockSound'
  BY DEF LockSound, InLine, Holds
-----------------------------------------------------------------------------
(* The ids of sessions. *)

LEMMA IdFacts ==
    /\ \A t \in Turns : Real(t) \in Ids /\ Fresh(t) \in Ids
    /\ \A t, u : Real(t) = Real(u) => t = u
    /\ \A t, u : Fresh(t) = Fresh(u) => t = u
    /\ \A t, u : Real(t) # Fresh(u)
    /\ None \notin Ids /\ None \notin Turns
    /\ \A t : IdTree(Real(t)) = TreeOf[t] /\ IdTree(Fresh(t)) = TreeOf[t]
    /\ \A t : Known(Real(t)) <=> captured[t] = Real(t)
    /\ \A t : Known(Fresh(t)) <=> session[t] = t
  BY NoneAssumption DEF Real, Fresh, Ids, IdTree, Known

\* An id stays known: a turn keeps its session, and the id it has captured.
Keeps ==
    /\ \A u \in Turns : captured[u] # None => captured'[u] = captured[u]
    /\ \A u \in Turns : session[u] # None => session'[u] = session[u]

LEMMA KnownStays ==
    ASSUME Keeps, NEW id \in Ids, Known(id)
    PROVE  Known(id)'
<1>1. id[2] \in Turns /\ id # None
  BY NoneAssumption DEF Ids
<1>2. None \notin Turns
  BY IdFacts
<1> QED
  BY <1>1, <1>2 DEF Keeps, Known

LEMMA HandleFacts ==
    ASSUME Types, TurnSound, NEW t \in Turns
    PROVE  /\ Handle(t) \in Ids \union {None}
           /\ Handle(t) = None <=> session[t] = None
           /\ Handle(t) # None => Known(Handle(t)) /\ IdTree(Handle(t)) = TreeOf[t]
  BY DEF Types, TurnSound, Handle, OfTurn

LEMMA TreeFacts == \A t \in Turns : TreeOf[t] \in Trees
  BY DEF Trees

\* While x has the lock, or nobody, nobody else is at a removal.
LEMMA NobodyRemoves ==
    ASSUME LockSound, NEW x, Holds(x) \/ lock = <<>>, NEW u \in Turns, u # x
    PROVE  stage[u] # "removing"
  BY DEF LockSound, Holds

-----------------------------------------------------------------------------
(* A step of one turn that is neither its start nor its way to a session. *)

\* Only t moves, and it is not on its way to a session.
TurnMoves(t) ==
    /\ UNCHANGED <<resume, session, task, cleared, stopVars, beside>>
    /\ cancel' \in {cancel, cancel \ {t}}
    /\ current' \in {current, [current EXCEPT ![TreeOf[t]] = None]}
    /\ unremoved \subseteq unremoved'
    /\ KeepsOrder(t)
    /\ Begun(t) /\ stage'[t] \notin {"idle", "wants", "spawning"}
    /\ captured'[t] = captured[t] \/ temp[t] # None
    /\ \A u \in Turns \ {t} :
          stage'[u] = stage[u] /\ captured'[u] = captured[u] /\ temp'[u] = temp[u]

\* No process is started, and the session of a process that runs stays where it is.
ProcsMove(t) ==
    /\ \A u \in Turns :
          /\ proc'[u] = "none" <=> proc[u] = "none"
          /\ proc'[u] = "alive" =>
                /\ proc[u] = "alive"
                /\ process'[session[u]] = process[session[u]]
                /\ cli_lock'[session[u]] = cli_lock[session[u]]
    /\ stage'[t] \in {"kills", "drains"} => proc'[t] # "alive"

FilesMove(t) ==
    /\ \A s \in Turns, id \in Ids :
          Filed(s, id) /\ (IdTree(id) # TreeOf[t] \/ stage[t] = "wants") => Filed(s, id)'
    /\ stage[t] = "wants" => stage'[t] = "done"
    /\ InMaps(t) /\ proc'[t] = "alive" =>
          /\ InMaps(t)'
          /\ \/ current' = current /\ (stage'[t] \in {"leaves", "removing"} => t \notin cancel')
             \/ t \in cancel /\ stage[t] \in {"leaves", "removing"}

LEMMA StepOfTurn ==
    ASSUME Inv, NEW t \in Turns, TurnMoves(t), ProcsMove(t), FilesMove(t),
           Types', LockSound', TurnSound', Owned', MapsSound', EndSound'
    PROVE  Inv'
<1> USE DEF Inv
<1>0. None \notin Turns /\ TreeOf[t] \in Trees
  BY IdFacts, TreeFacts
<1>1. StopsInOrder'
  <2>1. \A c \in Stops : c # t /\ c \in Turns \union Stops
    BY StopsAssumption DEF Stops
  <2> QED
    BY <2>1 DEF StopsInOrder, TurnMoves, KeepsOrder, stopVars, InLine, Ahead
<1>2. \A u \in Turns : Begun(u)' => Begun(u)
  BY DEF TurnMoves, Begun
<1>3. \A u \in Turns : Coming(u)' => u # t /\ Coming(u) /\ stage'[u] = stage[u]
  BY DEF TurnMoves, Coming
<1>4. Alone'
  <2> SUFFICES ASSUME NEW u \in Turns, u \notin beside, Coming(u)'
               PROVE  /\ current'[TreeOf[u]] = u /\ task'[TreeOf[u]] = u
                      /\ TreeOf[u] \notin cleared'
                      /\ \A v \in Turns : Mates(u, v) => ~Begun(v)'
    BY DEF Alone, TurnMoves
  <2>1. Coming(u) /\ u # t
    BY <1>3
  <2>2. /\ current[TreeOf[u]] = u /\ task[TreeOf[u]] = u /\ TreeOf[u] \notin cleared
        /\ \A v \in Turns : Mates(u, v) => ~Begun(v)
    BY <2>1 DEF Alone
  <2>3. TreeOf[u] # TreeOf[t]
    BY <2>1, <2>2 DEF TurnMoves, Mates
  <2>4. current'[TreeOf[u]] = current[TreeOf[u]]
    BY <1>0, <2>3, TreeFacts DEF TurnMoves, Types
  <2> QED
    BY <1>2, <2>2, <2>4 DEF TurnMoves
<1>5. SessionsUnshared'
  <2> SUFFICES ASSUME NEW u \in Turns
               PROVE  session[u] \in {None, u} \/ u \in beside \/ captured'[u] \in unremoved'
    BY DEF SessionsUnshared, TurnMoves
  <2>1. CASE u = t /\ temp[t] # None
    BY <2>1 DEF TurnSound
  <2>2. CASE captured'[u] = captured[u]
    BY <2>2 DEF SessionsUnshared, TurnMoves
  <2> QED
    BY <2>1, <2>2 DEF TurnMoves
<1>6. ShutDown' = ShutDown /\ \A c : OfCommand(c)' = OfCommand(c)
  BY DEF ShutDown, Stopping, OfCommand, TurnMoves, stopVars
<1>7. ProcSound'
  BY DEF ProcSound, ProcsMove, TurnMoves
<1>10. Guarded'
  <2> SUFFICES ASSUME NEW u \in Turns, u \notin beside, Working(u)', ~ShutDown
               PROVE  InMaps(u)' /\ Undisturbed(u)'
    BY <1>6 DEF Guarded, TurnMoves
  <2>1. Working(u)
    BY <1>3 DEF Working, Coming, ProcsMove
  <2>2. InMaps(u) /\ Undisturbed(u)
    BY <2>1 DEF Guarded
  <2>3. session[u] \in Turns /\ Handle(u) \in Ids /\ IdTree(Handle(u)) = TreeOf[u]
    <3>1. session[u] # None
      BY <2>1 DEF ProcSound, Working, TurnSound, Begun
    <3> QED
      BY <3>1, HandleFacts DEF Types
  <2>4. \A c \in Stops, v \in Turns : v # t => (Ahead(c, v)' <=> Ahead(c, v))
    <3>1. \A c \in Stops : c # t
      BY StopsAssumption DEF Stops
    <3> QED
      BY <3>1 DEF TurnMoves, KeepsOrder, Ahead
  <2>5. \A c \in Stops : stop'[c] = stop[c]
    BY DEF TurnMoves, stopVars
  <2>6. ASSUME NEW c \in Stops, StopComes(u, c), Mates(u, t) => stage'[t] = "done"
        PROVE  Undisturbed(u)'
    <3>1. \A v \in Turns : Mates(u, v) /\ Begun(v)' => v # t /\ stage'[v] = stage[v] /\ Begun(v)
      BY <2>6 DEF TurnMoves, Begun
    <3>2. StopComes(u, c)'
      BY <1>6, <2>4, <2>5, <2>6, <3>1 DEF StopComes, Mates
    <3> QED
      BY <3>2 DEF Undisturbed
  <2>7. CASE u = t
    <3>1. proc'[t] = "alive"
      BY <2>7 DEF Working, TurnMoves
    <3>2. InMaps(t)'
      BY <2>2, <2>7, <3>1 DEF FilesMove
    <3>3. CASE Unrivalled(u)
      <4>1. Unrivalled(u)'
        BY <1>2, <2>2, <2>7, <3>1, <3>3 DEF Unrivalled, FilesMove, TurnMoves, Mates
      <4> QED
        BY <2>7, <3>2, <4>1 DEF Undisturbed
    <3>4. CASE \E c \in Stops : StopComes(u, c)
      BY <2>6, <2>7, <3>2, <3>4 DEF Mates
    <3> QED
      BY <2>2, <3>3, <3>4 DEF Undisturbed
  <2>8. CASE u # t
    <3>1. Handle(u)' = Handle(u) /\ session'[u] = session[u]
      BY <2>8 DEF TurnMoves, Handle
    <3>2. stage'[u] = stage[u] /\ (u \in cancel' <=> u \in cancel)
      BY <2>8 DEF TurnMoves
    <3>5. PICK s \in Turns, id \in Ids : s = session[u] /\ id = Handle(u)
      BY <2>3
    <3>6. Filed(s, id) /\ (Filed(s, id)' => InMaps(u)')
      BY <2>2, <3>1, <3>5 DEF InMaps, Filed, Handle
    <3>3. CASE Mates(u, t)
      <4>1. PICK c \in Stops : StopComes(u, c)
        BY <2>2, <3>3 DEF Undisturbed, Unrivalled, TurnMoves
      <4>2. stage[t] = "wants"
        BY <3>3, <4>1 DEF StopComes, TurnMoves
      <4>3. stage'[t] = "done" /\ Filed(s, id)'
        BY <3>6, <4>2 DEF FilesMove
      <4> QED
        BY <2>6, <3>6, <4>1, <4>3
    <3>4. CASE ~Mates(u, t)
      <4>1. TreeOf[u] # TreeOf[t]
        BY <2>8, <3>4 DEF Mates
      <4>2. Filed(s, id)'
        BY <2>3, <3>5, <3>6, <4>1 DEF FilesMove
      <4>3. current'[TreeOf[u]] = current[TreeOf[u]]
        BY <1>0, <4>1, TreeFacts DEF TurnMoves, Types
      <4>4. ASSUME Unrivalled(u)
            PROVE  Unrivalled(u)'
        BY <1>2, <3>2, <4>3, <4>4 DEF Unrivalled, TurnMoves, Mates
      <4> QED
        BY <2>2, <2>6, <3>4, <3>6, <4>2, <4>4 DEF Undisturbed
    <3> QED
      BY <3>3, <3>4
  <2> QED
    BY <2>7, <2>8
<1>8. StopSound'
  <2> SUFFICES ASSUME NEW c \in Stops
               PROVE  /\ \A u \in before[c] : proc'[u] # "none"
                      /\ stop[c] = "stops" =>
                            \A u \in before[c] \ beside :
                                proc'[u] = "alive" => session[u] \in victims[c]
                      /\ stop[c] \in {"waits", "stops"} /\ OfCommand(c) =>
                            \A u \in Turns \ beside :
                              /\ stage'[u] = "spawning" => u \in cancel'
                              /\ stage'[u] = "wants" /\ Ahead(u, c)' => u \in cancel'
                              /\ stop[c] = "stops" /\ proc'[u] = "alive"
                                    => session[u] \in victims[c]
    BY <1>6 DEF StopSound, TurnMoves, stopVars
  <2>1. before[c] \subseteq Turns
    BY DEF Types
  <2>2. c # t
    BY StopsAssumption DEF Stops
  <2>3. \A u \in Turns : stage'[u] \in {"wants", "spawning"} /\ u \notin cancel' =>
            u # t /\ stage'[u] = stage[u] /\ u \notin cancel
    BY DEF TurnMoves
  <2>4. \A u \in Turns : u # t => (Ahead(u, c)' <=> Ahead(u, c))
    BY <2>2 DEF TurnMoves, KeepsOrder, Ahead
  <2> QED
    BY <2>1, <2>3, <2>4 DEF StopSound, ProcsMove
<1>9. StopAllKills'
  <2>1. \A c \in Stops : before[c] \subseteq Turns
    BY DEF Types
  <2> QED
    BY <2>1 DEF StopAllKills, ProcsMove, TurnMoves, stopVars
<1> QED
  BY <1>1, <1>4, <1>5, <1>7, <1>8, <1>9, <1>10
-----------------------------------------------------------------------------
(* Steps that no turn takes: of the processes, and of the commands for a tree. *)

\* What becomes of the trees: one that changes hands has its newest turn cancelled.
TreesMove ==
    /\ task' = task /\ cancel \subseteq cancel'
    /\ \A t \in Turns :
          /\ task[TreeOf[t]] = t /\ Begun(t) /\ t \notin cancel' =>
                /\ current'[TreeOf[t]] = current[TreeOf[t]]
                /\ TreeOf[t] \in cleared' => TreeOf[t] \in cleared

LEMMA AloneStays ==
    ASSUME Alone, TreesMove, UNCHANGED <<stage, beside>>
    PROVE  Alone'
<1> SUFFICES ASSUME NEW t \in Turns, t \notin beside, Coming(t)'
             PROVE  /\ current'[TreeOf[t]] = t /\ task'[TreeOf[t]] = t
                    /\ TreeOf[t] \notin cleared'
                    /\ \A u \in Turns : Mates(t, u) => ~Begun(u)'
  BY DEF Alone
<1>1. Coming(t) /\ Begun(t) /\ t \notin cancel'
  BY DEF Coming, TreesMove, Begun
<1>2. \A u : Begun(u)' = Begun(u)
  BY DEF Begun
<1> QED
  BY <1>1, <1>2 DEF Alone, TreesMove

LEMMA StepOutside ==
    ASSUME Inv, TreesMove, Types',
           UNCHANGED <<turnVars, removing, lock, mapVars, stopVars, histVars>>,
           \A u \in Turns :
              /\ proc'[u] = "none" <=> proc[u] = "none"
              /\ proc'[u] = "alive" =>
                    /\ proc[u] = "alive"
                    /\ process'[session[u]] = process[session[u]]
                    /\ cli_lock'[session[u]] = cli_lock[session[u]],
           EndSound', \A u \in Turns : proc'[u] = "alive" /\ Unrivalled(u) => Unrivalled(u)'
    PROVE  Inv'
<1> USE DEF Inv
<1>1. LockSound' /\ StopsInOrder'
  BY DEF LockSound, StopsInOrder, InLine, Ahead, Holds, turnVars, stopVars
<1>2. TurnSound' /\ SessionsUnshared'
  BY DEF TurnSound, SessionsUnshared, OfTurn, Known, IdTree, Begun, turnVars, histVars
<1>3. Alone'
  BY AloneStays DEF turnVars, histVars
<1>4. Owned' /\ MapsTyped' /\ AllSessions' = AllSessions
  BY DEF Owned, Owns, Handle, MapsSound, MapsTyped, AllSessions, turnVars, mapVars, histVars
<1>5. \A id : Mapped(id)' = Mapped(id) /\ Known(id)' = Known(id)
  BY DEF Mapped, Handle, Known, turnVars, mapVars
<1>6. SessionsSound' /\ IdsSound'
  BY <1>5 DEF SessionsSound, IdsSound, MapsSound, IdTree, Handle, turnVars, mapVars, histVars
<1>7. ShutDown' = ShutDown /\ \A c : OfCommand(c)' = OfCommand(c)
  BY DEF ShutDown, Stopping, OfCommand, stopVars
<1>8. ProcSound'
  BY DEF ProcSound, turnVars
<1>11. Guarded'
  <2> SUFFICES ASSUME NEW u \in Turns, u \notin beside, Working(u)', ~ShutDown
               PROVE  InMaps(u)' /\ Undisturbed(u)'
    BY <1>7 DEF Guarded, histVars
  <2>1. Working(u) /\ stage'[u] = stage[u]
    BY DEF Working, TreesMove, turnVars
  <2>2. InMaps(u) /\ Undisturbed(u)
    BY <2>1 DEF Guarded
  <2>3. InMaps(u)'
    BY <2>2 DEF InMaps, Filed, Handle, turnVars, mapVars
  <2>4. ASSUME NEW c \in Stops, StopComes(u, c)
        PROVE  StopComes(u, c)'
    BY <1>7, <2>4 DEF StopComes, Mates, Begun, Ahead, turnVars, stopVars
  <2>5. CASE proc'[u] # "alive"
    <3>1. Coming(u)'
      BY <2>5 DEF Working, Coming
    <3>2. Unrivalled(u)'
      BY <1>3, <3>1, <2>5 DEF Alone, Unrivalled, Coming, Working, histVars
    <3> QED
      BY <2>3, <3>2 DEF Undisturbed
  <2> QED
    BY <2>2, <2>3, <2>4, <2>5 DEF Undisturbed
<1>9. StopSound'
  <2>1. \A c \in Stops : before[c] \subseteq Turns
    BY DEF Types
  <2>2. \A t, c : Ahead(t, c)' = Ahead(t, c)
    BY DEF Ahead
  <2> QED
    BY <1>7, <2>1, <2>2 DEF StopSound, TreesMove, turnVars, stopVars, histVars
<1>10. StopAllKills'
  <2>1. \A c \in Stops : before[c] \subseteq Turns
    BY DEF Types
  <2> QED
    BY <2>1 DEF StopAllKills, stopVars, histVars
<1> QED
  BY <1>1, <1>2, <1>3, <1>4, <1>6, <1>8, <1>9, <1>10, <1>11 DEF MapsSound

LEMMA OutsideSteps ==
    ASSUME Inv,
           \/ \E t \in Turns : Ends(t) \/ Dies(t) \/ GeneratorCloses(t) \/ Cancel(t)
           \/ \E r \in Trees : ClearTree(r)
           \/ UNCHANGED vars
    PROVE  Inv'
<1> USE DEF Inv
<1>1. ASSUME NEW t \in Turns, Ends(t) \/ Dies(t)
      PROVE  Inv'
  <2>1. UNCHANGED <<turnVars, removing, nodeVars, treeVars, lock, mapVars, cli_lock, process,
                    stopVars, histVars>>
    BY <1>1 DEF Ends, Dies
  <2>2. proc' = [proc EXCEPT ![t] = "dead"] /\ proc[t] \in {"alive", "dying"}
    BY <1>1 DEF Ends, Dies
  <2>3. Types'
    BY <2>1, <2>2 DEF Types, turnVars, nodeVars, treeVars, stopVars, histVars
  <2>4. TreesMove
    BY <2>1 DEF TreesMove, nodeVars, treeVars
  <2>5. EndSound' /\ \A u \in Turns : Unrivalled(u)' = Unrivalled(u)
    BY <2>1, <2>2 DEF EndSound, Unrivalled, Begun, Types, turnVars, nodeVars, treeVars
  <2> QED
    BY <2>1, <2>2, <2>3, <2>4, <2>5, StepOutside DEF Types
<1>2. ASSUME NEW s \in Turns, GeneratorCloses(s)
      PROVE  Inv'
  <2>1. UNCHANGED <<turnVars, removing, nodeVars, treeVars, lock, mapVars, process, proc,
                    stopVars, histVars>>
    BY <1>2 DEF GeneratorCloses
  <2>2. PICK t : /\ t = cli_lock[s] /\ t # None /\ proc[t] = "dead"
                 /\ cli_lock' = [cli_lock EXCEPT ![s] = None]
    BY <1>2 DEF GeneratorCloses
  <2>3. Types'
    BY <2>1, <2>2 DEF Types, turnVars, nodeVars, treeVars, stopVars, histVars
  <2>4. TreesMove
    BY <2>1 DEF TreesMove, nodeVars, treeVars
  <2>5. ASSUME NEW u \in Turns, proc[u] = "alive"
        PROVE  cli_lock'[session[u]] = cli_lock[session[u]]
    BY <2>2, <2>5 DEF ProcSound, Types
  <2>6. EndSound' /\ \A u \in Turns : Unrivalled(u)' = Unrivalled(u)
    BY <2>1 DEF EndSound, Unrivalled, Begun, turnVars, nodeVars, treeVars
  <2> QED
    BY <2>1, <2>3, <2>4, <2>5, <2>6, StepOutside
<1>3. ASSUME NEW t \in Turns, Cancel(t)
      PROVE  Inv'
  <2>1. /\ UNCHANGED <<turnVars, removing, treeVars, lock, mapVars, cliVars, stopVars, histVars>>
        /\ cancel' = cancel \union {t} /\ ended' = ended \union {t} /\ t \notin ended
    BY <1>3 DEF Cancel
  <2>2. Types'
    BY <2>1 DEF Types, turnVars, treeVars, cliVars, stopVars, histVars
  <2>3. TreesMove
    BY <2>1 DEF TreesMove, treeVars
  <2>4. EndSound'
    BY <2>1 DEF EndSound, turnVars, cliVars
  <2>5. ASSUME NEW u \in Turns, proc'[u] = "alive", Unrivalled(u)
        PROVE  Unrivalled(u)'
    BY <2>1, <2>5 DEF Unrivalled, EndSound, Begun, turnVars, treeVars, cliVars
  <2> QED
    BY <2>1, <2>2, <2>3, <2>4, <2>5, StepOutside DEF cliVars
<1>4. ASSUME NEW r \in Trees, ClearTree(r)
      PROVE  Inv'
  <2>1. /\ UNCHANGED <<turnVars, removing, task, lock, mapVars, cliVars, stopVars, histVars>>
        /\ cancel' = cancel \union NewestOf({r}) /\ ended' = ended \union BegunIn({r})
        /\ current' = [q \in Trees |-> IF q \in {r} THEN None ELSE current[q]]
        /\ cleared' = cleared \union {r}
    BY <1>4 DEF ClearTree, CancelTrees
  <2>2. NewestOf({r}) \subseteq Turns /\ BegunIn({r}) \subseteq Turns
    BY DEF NewestOf, BegunIn
  <2>3. current' \in [Trees -> Turns \union {None}] /\ cleared' \subseteq Trees
    BY <2>1 DEF Types
  <2>4. Types'
    BY <2>1, <2>2, <2>3 DEF Types, turnVars, cliVars, stopVars, histVars
  <2>5. TreesMove
    BY <2>1, TreeFacts DEF TreesMove, NewestOf, BegunIn
  <2>6. EndSound'
    <3>1. NewestOf({r}) \subseteq BegunIn({r})
      BY DEF NewestOf
    <3> QED
      BY <2>1, <3>1 DEF EndSound, turnVars, cliVars
  <2>7. ASSUME NEW u \in Turns, Unrivalled(u)
        PROVE  Unrivalled(u)'
    <3>1. \A v \in Turns : Begun(v)' = Begun(v)
      BY <2>1 DEF Begun, turnVars
    <3>2. CASE TreeOf[u] \in cleared'
      BY <2>7, <3>1, <3>2 DEF Unrivalled
    <3>3. CASE TreeOf[u] \notin cleared'
      <4>1. TreeOf[u] # r /\ TreeOf[u] \notin cleared /\ current'[TreeOf[u]] = current[TreeOf[u]]
        BY <2>1, <3>3, TreeFacts
      <4>2. u \in cancel' => u \in cancel
        BY <2>1, <4>1 DEF NewestOf, BegunIn
      <4> QED
        BY <2>1, <2>7, <3>1, <4>1, <4>2 DEF Unrivalled, turnVars
    <3> QED
      BY <3>2, <3>3
  <2> QED
    BY <2>1, <2>4, <2>5, <2>6, <2>7, StepOutside DEF cliVars
<1>5. CASE UNCHANGED vars
  <2>1. Types'
    BY <1>5 DEF Types, vars, turnVars, nodeVars, treeVars, cliVars, stopVars, histVars
  <2>2. TreesMove
    BY <1>5 DEF TreesMove, vars, nodeVars, treeVars
  <2>3. EndSound' /\ \A u \in Turns : Unrivalled(u)' = Unrivalled(u)
    BY <1>5 DEF EndSound, Unrivalled, Begun, vars, turnVars, nodeVars, treeVars, cliVars
  <2> QED
    BY <1>5, <2>1, <2>2, <2>3, StepOutside DEF vars, cliVars
<1> QED
  BY <1>1, <1>2, <1>3, <1>4, <1>5
-----------------------------------------------------------------------------
(* The maps when a session leaves them, or stays. *)

MapsShrink ==
    /\ DOMAIN pending' \subseteq DOMAIN pending /\ DOMAIN sessions' \subseteq DOMAIN sessions
    /\ \A i \in DOMAIN pending' : pending'[i] = pending[i]
    /\ \A i \in DOMAIN sessions' : sessions'[i] = sessions[i]

LEMMA PartialFacts ==
    ASSUME NEW f, NEW K, NEW V
    PROVE  PartialTo(f, K, V) <=> DOMAIN f \subseteq K /\ \A i \in DOMAIN f : f[i] \in V
  BY RangeFacts DEF PartialTo

LEMMA SessionsShrink ==
    ASSUME Types, MapsSound, Keeps, MapsShrink,
           \A u \in Turns : temp'[u] \in {temp[u], None},
           \A u \in Turns :
              stage'[u] = "removing" => Handle(u)' \notin DOMAIN pending' \union DOMAIN sessions'
    PROVE  /\ PartialTo(pending, Ids, Turns)' /\ PartialTo(sessions, Ids, Turns)'
           /\ SessionsSound'
<1>1. PartialTo(pending, Ids, Turns) /\ PartialTo(sessions, Ids, Turns) /\ SessionsSound
  BY DEF MapsSound, MapsTyped
<1>2. PartialTo(pending, Ids, Turns)' /\ PartialTo(sessions, Ids, Turns)'
  BY <1>1, PartialFacts DEF MapsShrink
<1>3. /\ DOMAIN pending \subseteq Ids /\ DOMAIN sessions \subseteq Ids
      /\ \A i \in DOMAIN pending : pending[i] \in Turns
      /\ \A i \in DOMAIN sessions : sessions[i] \in Turns
  BY <1>1, PartialFacts
<1>4. \A id \in Ids : Known(id) => Known(id)'
  BY KnownStays
<1>5. \A s \in Turns : session[s] = s => session'[s] = s
  BY IdFacts DEF Keeps
<1>6. ASSUME NEW id \in DOMAIN pending'
      PROVE  /\ Known(id)' /\ session'[pending'[id]] = pending'[id]
             /\ TreeOf[pending'[id]] = IdTree(id)
             /\ \A j \in DOMAIN pending' : pending'[j] = pending'[id] => j = id
             /\ \A j \in DOMAIN sessions' : sessions'[j] # pending'[id]
  BY <1>1, <1>3, <1>4, <1>5, <1>6 DEF SessionsSound, MapsShrink
<1>7. ASSUME NEW id \in DOMAIN sessions'
      PROVE  /\ Known(id)' /\ session'[sessions'[id]] = sessions'[id]
             /\ TreeOf[sessions'[id]] = IdTree(id)
             /\ \A j \in DOMAIN sessions' : sessions'[j] = sessions'[id] => j = id
  BY <1>1, <1>3, <1>4, <1>5, <1>7 DEF SessionsSound, MapsShrink
<1>8. \A u \in Turns : temp'[u] \notin DOMAIN sessions'
  BY <1>1, <1>3, IdFacts DEF SessionsSound, MapsShrink
<1> QED
  BY <1>2, <1>6, <1>7, <1>8 DEF SessionsSound, IdTree

LEMMA IdsStay ==
    ASSUME MapsSound, Keeps, UNCHANGED <<temp_to_real, real_to_temp>>,
           DOMAIN pending' \subseteq DOMAIN pending, unmapped \subseteq unmapped',
           \A id : Mapped(id)' => Mapped(id),
           \A id : Mapped(id) => Mapped(id)' \/ id \in unmapped'
    PROVE  PartialTo(temp_to_real, Ids, Ids)' /\ PartialTo(real_to_temp, Ids, Ids)' /\ IdsSound'
<1>1. PartialTo(temp_to_real, Ids, Ids) /\ PartialTo(real_to_temp, Ids, Ids) /\ IdsSound
  BY DEF MapsSound, MapsTyped
<1>2. PartialTo(temp_to_real, Ids, Ids)' /\ PartialTo(real_to_temp, Ids, Ids)'
  BY <1>1 DEF PartialTo
<1>3. /\ DOMAIN temp_to_real \subseteq Ids /\ DOMAIN real_to_temp \subseteq Ids
      /\ \A i \in DOMAIN temp_to_real : temp_to_real[i] \in Ids
  BY <1>1, PartialFacts
<1>4. \A id \in Ids : Known(id) => Known(id)'
  BY KnownStays
<1>5. \A id \in DOMAIN temp_to_real' :
        /\ Known(id)' /\ Known(temp_to_real[id])' /\ IdTree(temp_to_real[id]) = IdTree(id)
        /\ \E j \in DOMAIN real_to_temp : real_to_temp[j] = id
  <2> SUFFICES ASSUME NEW id \in DOMAIN temp_to_real
               PROVE  /\ Known(id)' /\ Known(temp_to_real[id])'
                      /\ IdTree(temp_to_real[id]) = IdTree(id)
                      /\ \E j \in DOMAIN real_to_temp : real_to_temp[j] = id
    OBVIOUS
  <2>1. PICK k \in Ids : k = temp_to_real[id]
    BY <1>3
  <2>2. Known(id)' /\ Known(k)'
    BY <1>1, <1>3, <1>4, <2>1 DEF IdsSound
  <2>3. Known(temp_to_real[id])'
    BY <2>1, <2>2 DEF Known
  <2> QED
    BY <1>1, <2>2, <2>3 DEF IdsSound
<1>6. \A id \in DOMAIN real_to_temp' : Known(id)' /\ (Mapped(id)' \/ id \in unmapped')
  BY <1>1, <1>3, <1>4 DEF IdsSound
<1>7. \A id : Mapped(id)' =>
        /\ id \in DOMAIN real_to_temp /\ real_to_temp[id] \in DOMAIN temp_to_real
        /\ temp_to_real[real_to_temp[id]] = id
        /\ real_to_temp[id] \notin DOMAIN pending'
        /\ id \notin DOMAIN pending' \union DOMAIN temp_to_real
  BY <1>1 DEF IdsSound
<1> QED
  BY <1>2, <1>5, <1>6, <1>7 DEF IdsSound, IdTree, Known

LEMMA IdsForget ==
    ASSUME MapsSound, Keeps, NEW gone, Mapped(gone), ForgetMapping(gone),
           DOMAIN pending' \subseteq DOMAIN pending, unmapped \subseteq unmapped',
           \A id : Mapped(id)' <=> Mapped(id) /\ id # gone
    PROVE  PartialTo(temp_to_real, Ids, Ids)' /\ PartialTo(real_to_temp, Ids, Ids)' /\ IdsSound'
<1>1. PartialTo(temp_to_real, Ids, Ids) /\ PartialTo(real_to_temp, Ids, Ids) /\ IdsSound
  BY DEF MapsSound, MapsTyped
<1>2. /\ gone \in DOMAIN real_to_temp /\ real_to_temp[gone] \in DOMAIN temp_to_real
      /\ temp_to_real[real_to_temp[gone]] = gone
  BY <1>1 DEF IdsSound
<1> DEFINE lost == real_to_temp[gone]
<1>3. /\ real_to_temp' = Without(real_to_temp, {gone})
      /\ temp_to_real' = Without(temp_to_real, {lost})
  BY <1>2 DEF ForgetMapping
<1> HIDE DEF lost
<1>4. /\ DOMAIN real_to_temp' = DOMAIN real_to_temp \ {gone}
      /\ \A i \in DOMAIN real_to_temp' : real_to_temp'[i] = real_to_temp[i]
      /\ DOMAIN temp_to_real' = DOMAIN temp_to_real \ {lost}
      /\ \A i \in DOMAIN temp_to_real' : temp_to_real'[i] = temp_to_real[i]
  <2>1. PICK f : f = real_to_temp
    OBVIOUS
  <2>2. PICK g : g = temp_to_real
    OBVIOUS
  <2>3. /\ DOMAIN Without(f, {gone}) = DOMAIN f \ {gone}
        /\ \A i \in DOMAIN f \ {gone} : Without(f, {gone})[i] = f[i]
        /\ DOMAIN Without(g, {lost}) = DOMAIN g \ {lost}
        /\ \A i \in DOMAIN g \ {lost} : Without(g, {lost})[i] = g[i]
    BY WithoutFacts
  <2> QED
    BY <1>3, <2>1, <2>2, <2>3
<1>5. /\ DOMAIN temp_to_real \subseteq Ids /\ DOMAIN real_to_temp \subseteq Ids
      /\ \A i \in DOMAIN temp_to_real : temp_to_real[i] \in Ids
      /\ \A i \in DOMAIN real_to_temp : real_to_temp[i] \in Ids
  BY <1>1, PartialFacts
<1>6. PartialTo(temp_to_real, Ids, Ids)' /\ PartialTo(real_to_temp, Ids, Ids)'
  BY <1>4, <1>5, PartialFacts
<1>7. \A id \in Ids : Known(id) => Known(id)'
  BY KnownStays
<1>8. \A id \in DOMAIN temp_to_real' :
        /\ Known(id)' /\ Known(temp_to_real[id])' /\ IdTree(temp_to_real'[id]) = IdTree(id)
        /\ \E j \in DOMAIN real_to_temp' : real_to_temp'[j] = id
  <2> SUFFICES ASSUME NEW id \in DOMAIN temp_to_real, id # lost
               PROVE  /\ Known(id)' /\ Known(temp_to_real[id])'
                      /\ IdTree(temp_to_real'[id]) = IdTree(id)
                      /\ \E j \in DOMAIN real_to_temp' : real_to_temp'[j] = id
    BY <1>4
  <2>1. PICK k \in Ids : k = temp_to_real[id] /\ k = temp_to_real'[id]
    BY <1>4, <1>5
  <2>2. Known(id)' /\ Known(k)'
    BY <1>1, <1>5, <1>7, <2>1 DEF IdsSound
  <2>3. Known(temp_to_real[id])'
    BY <2>1, <2>2 DEF Known
  <2>4. PICK j \in DOMAIN real_to_temp : real_to_temp[j] = id
    BY <1>1 DEF IdsSound
  <2>5. j # gone
    BY <2>4 DEF lost
  <2> QED
    BY <1>1, <1>4, <2>1, <2>2, <2>3, <2>4, <2>5 DEF IdsSound
<1>9. \A id \in DOMAIN real_to_temp' : Known(id)' /\ (Mapped(id)' \/ id \in unmapped')
  BY <1>1, <1>4, <1>5, <1>7 DEF IdsSound
<1>10. ASSUME NEW id, Mapped(id)'
       PROVE  /\ id \in DOMAIN real_to_temp' /\ real_to_temp'[id] \in DOMAIN temp_to_real'
              /\ temp_to_real'[real_to_temp'[id]] = id
              /\ real_to_temp'[id] \notin DOMAIN pending'
              /\ id \notin DOMAIN pending' \union DOMAIN temp_to_real'
  <2>1. Mapped(id) /\ id # gone
    BY <1>10
  <2>2. /\ id \in DOMAIN real_to_temp /\ real_to_temp[id] \in DOMAIN temp_to_real
        /\ temp_to_real[real_to_temp[id]] = id
        /\ real_to_temp[id] \notin DOMAIN pending
        /\ id \notin DOMAIN pending \union DOMAIN temp_to_real
    BY <1>1, <2>1 DEF IdsSound
  <2>3. real_to_temp[id] # lost
    BY <1>2, <2>1, <2>2 DEF lost
  <2> QED
    BY <1>4, <2>1, <2>2, <2>3
<1> QED
  BY <1>6, <1>8, <1>9, <1>10 DEF IdsSound, IdTree
-----------------------------------------------------------------------------
(* Steps of a turn within its session. *)

LEMMA TurnStaysSound ==
    ASSUME Types, TurnSound, NEW t \in Turns,
           UNCHANGED <<resume, session, temp, captured>>,
           recorded' \in {recorded, [recorded EXCEPT ![t] = captured[t]]},
           \A u \in Turns \ {t} : stage'[u] = stage[u] /\ removing'[u] = removing[u],
           stage'[t] \notin {"idle", "wants"}, Begun(t)' => session[t] # None,
           stage'[t] = "registers" => temp[t] # None,
           stage'[t] = "removing" => removing'[t] \in Removal
    PROVE  TurnSound'
<1>1. \A u \in Turns : \A id : OfTurn(u, id)' = OfTurn(u, id)
  BY DEF OfTurn, Known, IdTree
<1>2. \A u \in Turns : OfTurn(u, recorded[u])'
  BY <1>1 DEF TurnSound, OfTurn, Known, IdTree, Types
<1>3. \A u \in Turns : /\ OfTurn(u, resume[u])' /\ OfTurn(u, temp[u])'
                       /\ OfTurn(u, captured[u])'
  BY DEF TurnSound, OfTurn, Known, IdTree
<1> QED
  BY <1>2, <1>3 DEF TurnSound, Begun, Types

\* The turn stays where its session is; the maps do not change.
LEMMA StepWithin ==
    ASSUME Inv, NEW t \in Turns, TurnMoves(t), ProcsMove(t), Types', LockSound',
           UNCHANGED <<temp, captured, recorded, removing, mapVars, current, ended, unremoved,
                       unmapped>>,
           stage[t] \in {"reading", "kills", "drains"},
           stage'[t] \in {"registers", "kills", "drains"},
           stage'[t] = "registers" => temp[t] # None
    PROVE  Inv'
<1> USE DEF Inv
<1>1. Keeps /\ MapsShrink
  BY DEF Keeps, TurnMoves, MapsShrink, mapVars
<1>2. session[t] # None /\ session' = session
  BY DEF TurnMoves, TurnSound, Begun
<1>3. TurnSound'
  BY <1>2, TurnStaysSound DEF TurnMoves
<1>4. \A u \in Turns : Handle(u)' = Handle(u)
  BY DEF Handle
<1>5. Owned'
  <2>1. \A u \in Turns : \A id : Owns(u, id) => Owns(u, id)'
    BY <1>4 DEF Owns, TurnMoves
  <2> QED
    BY <2>1 DEF Owned, mapVars
<1>6. \A id : Mapped(id)' <=> Mapped(id)
  BY <1>4 DEF Mapped, TurnMoves, mapVars
<1>7. MapsSound'
  <2>1. \A u \in Turns :
            stage'[u] = "removing" => Handle(u)' \notin DOMAIN pending' \union DOMAIN sessions'
    BY <1>4 DEF MapsSound, SessionsSound, TurnMoves, mapVars
  <2>2. PartialTo(pending, Ids, Turns)' /\ PartialTo(sessions, Ids, Turns)' /\ SessionsSound'
    BY <1>1, <2>1, SessionsShrink
  <2>3. PartialTo(temp_to_real, Ids, Ids)' /\ PartialTo(real_to_temp, Ids, Ids)' /\ IdsSound'
    BY <1>1, <1>6, IdsStay DEF mapVars, MapsShrink
  <2> QED
    BY <2>2, <2>3 DEF MapsSound, MapsTyped
<1>8. FilesMove(t)
  BY <1>4 DEF FilesMove, Filed, InMaps, TurnMoves, mapVars
<1>9. EndSound'
  BY DEF EndSound, TurnMoves, ProcsMove
<1> QED
  BY <1>3, <1>5, <1>7, <1>8, <1>9, StepOfTurn

LEMMA SignalFacts ==
    ASSUME Types, NEW S, Signals(S)
    PROVE  /\ proc' \in [Turns -> {"none", "alive", "dying", "dead"}]
           /\ \A u \in Turns :
                /\ proc'[u] = "none" <=> proc[u] = "none"
                /\ proc'[u] = "alive" => proc[u] = "alive" /\ \A s \in S : process[s] # u
  BY DEF Types, Signals

LEMMA SameLine ==
    ASSUME LockSound, NEW t, lock' = lock
    PROVE  KeepsOrder(t)
  BY DEF LockSound, KeepsOrder

LEMMA ReadingSteps ==
    ASSUME Inv, NEW t \in Turns, CancelledReading(t) \/ (SessionInfo(t) /\ Locked)
    PROVE  Inv'
<1> USE DEF Inv
<1>1. CASE CancelledReading(t)
  <2>1. /\ UNCHANGED <<resume, session, temp, captured, recorded, removing, ended, treeVars, lock,
                       mapVars, cli_lock, process, stopVars, histVars>>
        /\ t \in cancel /\ cancel' = cancel \ {t}
    BY <1>1 DEF CancelledReading
  <2>2. /\ stage[t] \in {"reading", "kills"} /\ stage'[t] \in {"kills", "drains"}
        /\ stage' = [stage EXCEPT ![t] = IF stage[t] = "reading" THEN "kills" ELSE "drains"]
    BY <1>1 DEF CancelledReading, Moves, Types
  <2>3. proc' = proc \/ Signals({session[t]})
    BY <1>1 DEF CancelledReading
  <2>4. stage[t] = "reading" => Signals({session[t]})
    BY <1>1 DEF CancelledReading, Moves
  <2>5. /\ proc' \in [Turns -> {"none", "alive", "dying", "dead"}]
        /\ \A u \in Turns : /\ proc'[u] = "none" <=> proc[u] = "none"
                            /\ proc'[u] = "alive" => proc[u] = "alive"
    BY <2>3, SignalFacts DEF Types
  <2>6. proc'[t] # "alive"
    BY <2>2, <2>4, <2>5, SignalFacts DEF ProcSound
  <2>7. Types'
    BY <2>1, <2>2, <2>5 DEF Types, Stages, treeVars, stopVars, histVars
  <2>8. \A u \in Turns \ {t} : stage'[u] = stage[u]
    BY <2>2 DEF Types
  <2>9. LockSound'
    BY <2>1, <2>2, <2>8, LineStaysSound DEF stopVars
  <2>10. TurnMoves(t)
    BY <2>1, <2>2, <2>8, SameLine DEF TurnMoves, Begun, treeVars, histVars
  <2>11. ProcsMove(t)
    BY <2>1, <2>5, <2>6 DEF ProcsMove
  <2> QED
    BY <2>1, <2>2, <2>7, <2>9, <2>10, <2>11, StepWithin DEF treeVars, histVars
<1>2. CASE SessionInfo(t) /\ Locked
  <2>1. /\ UNCHANGED <<resume, session, removing, nodeVars, treeVars, cliVars, stopVars, histVars>>
        /\ UNCHANGED <<temp, captured, recorded, mapVars>>
        /\ temp[t] # None /\ lock' = Append(lock, t)
        /\ stage[t] = "reading" /\ stage' = [stage EXCEPT ![t] = "registers"]
    BY <1>2 DEF SessionInfo, Moves
  <2>2. /\ stage'[t] = "registers" /\ \A u \in Turns \ {t} : stage'[u] = stage[u]
    BY <2>1 DEF Types
  <2>3. Types'
    BY <2>1 DEF Types, Stages, nodeVars, treeVars, cliVars, stopVars, histVars
  <2>4. ~Occurs(lock, t)
    BY <2>1 DEF LockSound, InLine
  <2>5. Requeues(t) /\ Occurs(lock', t)
    BY <2>1, <2>4, LineWithoutLeft, LineChanges
  <2>6. LockSound'
    BY <2>1, <2>2, <2>5, TurnKeepsLock DEF stopVars
  <2>7. TurnMoves(t)
    BY <2>1, <2>2, <2>5 DEF TurnMoves, Requeues, Begun, nodeVars, treeVars, histVars
  <2>8. ProcsMove(t)
    BY <2>1, <2>2 DEF ProcsMove, cliVars
  <2> QED
    BY <2>1, <2>2, <2>3, <2>6, <2>7, <2>8, StepWithin DEF nodeVars, treeVars, histVars
<1> QED
  BY <1>1, <1>2
-----------------------------------------------------------------------------
(* The finally clause. *)

\* What the steps that end in the finally clause have in common.
Departs(t) ==
    /\ UNCHANGED <<resume, session, temp, captured, task, cleared, process, stopVars, histVars>>
    /\ cancel' \in {cancel, cancel \ {t}} /\ t \notin cancel'
    /\ ended' \in {ended, ended \union {t}} /\ (proc[t] = "alive" => t \in ended')
    /\ recorded' \in {recorded, [recorded EXCEPT ![t] = captured[t]]}
    /\ Begun(t) /\ stage[t] # "removing"
    /\ cli_lock' = cli_lock \/ (proc[t] # "alive" /\ LeavesTask(t))

LEMMA Departure ==
    ASSUME Inv, NEW t \in Turns, Departs(t), KeepsOrder(t), LockSound',
           NEW x \in {"leaves", "removing", "done"}, stage' = [stage EXCEPT ![t] = x],
           x # "done" => session[t] # None,
           current' \in {current, [current EXCEPT ![TreeOf[t]] = None]},
           removing' \in [Turns -> {None} \union Removal],
           \A u \in Turns \ {t} : removing'[u] = removing[u],
           x = "removing" => removing'[t] \in Removal,
           proc' \in [Turns -> {"none", "alive", "dying", "dead"}],
           \A u \in Turns : /\ proc'[u] = "none" <=> proc[u] = "none"
                            /\ proc'[u] = "alive" => proc[u] = "alive",
           FilesMove(t), Owned', MapsSound'
    PROVE  Inv'
<1> USE DEF Inv
<1>1. stage'[t] = x /\ \A u \in Turns \ {t} : stage'[u] = stage[u]
  BY DEF Types
<1>2. cli_lock' \in [Turns -> Turns \union {None}]
  BY DEF Departs, LeavesTask, Types
<1>3. recorded' \in [Turns -> Ids \union {None}] /\ current' \in [Trees -> Turns \union {None}]
  BY DEF Departs, Types
<1>4. Types'
  BY <1>2, <1>3 DEF Departs, Types, Stages, stopVars, histVars
<1>6. TurnSound'
  BY <1>1, TurnStaysSound DEF Departs, Begun
<1>7. TurnMoves(t)
  BY <1>1 DEF Departs, TurnMoves, histVars
<1>8. ASSUME NEW u \in Turns, proc[u] = "alive"
      PROVE  cli_lock'[session[u]] = cli_lock[session[u]]
  BY <1>8, IdFacts DEF Departs, LeavesTask, ProcSound, Types
<1>9. ProcsMove(t)
  BY <1>1, <1>8 DEF ProcsMove, Departs
<1>10. EndSound'
  BY <1>1 DEF EndSound, Departs
<1> QED
  BY <1>4, <1>6, <1>7, <1>9, <1>10, StepOfTurn

\* The turn that leaves had nothing in the maps, or waits for the lock.
LEMMA LeavesMapsAlone ==
    ASSUME Inv, NEW t \in Turns, Departs(t), NEW q, LineWithout(t, q), UNCHANGED <<mapVars, proc, removing>>,
           \/ Handle(t) = None /\ Done(t) /\ lock' = q
           \/ /\ Handle(t) # None /\ stage' = [stage EXCEPT ![t] = "leaves"]
              /\ lock' = Append(q, t) /\ current' = current
    PROVE  Inv'
<1> USE DEF Inv
<1>1. PICK x \in {"leaves", "done"} :
        /\ stage' = [stage EXCEPT ![t] = x]
        /\ x = "done" <=> Handle(t) = None
        /\ x # "done" => current' = current
        /\ current' \in {current, [current EXCEPT ![TreeOf[t]] = None]}
        /\ lock' = IF x = "done" THEN q ELSE Append(q, t)
  BY DEF Done
<1>2. stage'[t] = x /\ \A u \in Turns \ {t} : stage'[u] = stage[u]
  BY <1>1 DEF Types
<1>3. KeepsOrder(t) /\ LockSound'
  <2>1. Requeues(t) /\ (Occurs(lock', t) <=> x # "done")
    BY <1>1, LineChanges
  <2> QED
    BY <1>1, <1>2, <2>1, TurnKeepsLock DEF Requeues, Departs, stopVars
<1>4. x # "done" <=> session[t] # None
  BY <1>1, HandleFacts
<1>5. Keeps /\ MapsShrink
  BY DEF Keeps, Departs, MapsShrink, mapVars
<1>6. \A u \in Turns : Handle(u)' = Handle(u)
  BY DEF Handle, Departs
<1>7. DOMAIN pending \subseteq Ids /\ DOMAIN sessions \subseteq Ids
  BY PartialFacts DEF MapsSound, MapsTyped
<1>8. Owned'
  <2>1. \A u \in Turns, id \in Ids : Owns(u, id) => Owns(u, id)'
    <3> SUFFICES ASSUME NEW u \in Turns, NEW id \in Ids, Owns(u, id)
                 PROVE  Owns(u, id)'
      OBVIOUS
    <3>1. u = t => x = "leaves"
      BY <1>1, IdFacts DEF Owns
    <3> QED
      BY <1>2, <1>6, <3>1 DEF Owns
  <2> QED
    BY <1>7, <2>1 DEF Owned, mapVars, Departs, histVars
<1>9. \A id : Mapped(id)' <=> Mapped(id)
  BY <1>2, <1>6 DEF Mapped, mapVars, Departs
<1>10. MapsSound'
  <2>1. \A u \in Turns :
            stage'[u] = "removing" => Handle(u)' \notin DOMAIN pending' \union DOMAIN sessions'
    BY <1>2, <1>6 DEF MapsSound, SessionsSound, mapVars
  <2>2. PartialTo(pending, Ids, Turns)' /\ PartialTo(sessions, Ids, Turns)' /\ SessionsSound'
    BY <1>5, <2>1, SessionsShrink DEF Departs
  <2>3. PartialTo(temp_to_real, Ids, Ids)' /\ PartialTo(real_to_temp, Ids, Ids)' /\ IdsSound'
    BY <1>5, <1>9, IdsStay DEF mapVars, MapsShrink, Departs, histVars
  <2> QED
    BY <2>2, <2>3 DEF MapsSound, MapsTyped
<1>11. FilesMove(t)
  <2>1. \A s, id : Filed(s, id) => Filed(s, id)'
    BY DEF Filed, mapVars
  <2>2. stage[t] = "wants" => stage'[t] = "done"
    BY <1>2, <1>4 DEF TurnSound
  <2>3. InMaps(t) => InMaps(t)' /\ x = "leaves"
    BY <1>1, <1>6, <1>7, IdFacts DEF InMaps, Filed, mapVars, Departs
  <2> QED
    BY <1>1, <1>2, <2>1, <2>2, <2>3 DEF FilesMove, Departs
<1> QED
  BY <1>1, <1>2, <1>3, <1>4, <1>8, <1>10, <1>11, Departure DEF Types

\* remove_session, up to the end of the process.
LEMMA RemovalStep ==
    ASSUME Inv, NEW t \in Turns, Departs(t), session[t] # None, NEW q, LineWithout(t, q),
           RemoveSession(t, q), q = <<>> \/ (Holds(t) /\ q = Tail(lock))
    PROVE  Inv'
<1> USE DEF Inv
<1> DEFINE id == Handle(t)
           real == id \notin DOMAIN pending
           found == {s \in Turns : \/ ~real /\ pending[id] = s
                                   \/ real /\ id \in DOMAIN sessions /\ sessions[id] = s}
<1>1. id \in Ids /\ id # None /\ IdTree(id) = TreeOf[t]
  BY HandleFacts, IdFacts
<1>2. /\ DOMAIN pending \subseteq Ids /\ DOMAIN sessions \subseteq Ids
      /\ \A i \in DOMAIN pending : pending[i] \in Turns
      /\ \A i \in DOMAIN sessions : sessions[i] \in Turns
  BY PartialFacts DEF MapsSound, MapsTyped
<1>3. \A u \in Turns \ {t} : stage[u] # "removing"
  BY NobodyRemoves DEF LineWithout, LockSound, InLine, Occurs
<1>4. Forget(id) /\ Signals(found)
  BY DEF RemoveSession
<1>5. \/ /\ \E s \in found :
              Running(s) /\ removing' = [removing EXCEPT ![t] = [process |-> process[s], real |-> real]]
         /\ lock' = <<t>> \o q
         /\ stage' = [stage EXCEPT ![t] = "removing"]
         /\ UNCHANGED <<current, temp_to_real, real_to_temp>>
      \/ /\ lock' = q
         /\ Done(t)
         /\ IF real /\ found # {} THEN ForgetMapping(id) ELSE UNCHANGED <<temp_to_real, real_to_temp>>
         /\ UNCHANGED removing
  BY DEF RemoveSession
<1>6. found \subseteq Turns /\ (~real => pending[id] \in found)
      /\ (real /\ id \in DOMAIN sessions => sessions[id] \in found)
      /\ (found # {} => ~real \/ id \in DOMAIN sessions)
  BY <1>2
<1>7. id \in DOMAIN sessions => real
  BY DEF MapsSound, IdsSound, Mapped
<1> HIDE DEF found, real
<1>8. PICK x \in {"removing", "done"} :
        /\ stage' = [stage EXCEPT ![t] = x]
        /\ x = "done" => Done(t) /\ lock' = q /\ removing' = removing
        /\ x # "done" => /\ current' = current /\ lock' = <<t>> \o q
                         /\ found # {}
                         /\ \E p \in Turns : removing' = [removing EXCEPT ![t] = [process |-> p, real |-> real]]
                         /\ UNCHANGED <<temp_to_real, real_to_temp>>
        /\ x = "done" => IF real /\ found # {} THEN ForgetMapping(id) ELSE UNCHANGED <<temp_to_real, real_to_temp>>
  <2>1. \A s \in found : Running(s) => process[s] \in Turns
    BY <1>6 DEF Running, Types
  <2> QED
    BY <1>5, <2>1 DEF Done
<1>9. stage'[t] = x /\ \A u \in Turns \ {t} : stage'[u] = stage[u]
  BY <1>8 DEF Types
<1>10. KeepsOrder(t) /\ LockSound'
  <2>1. CASE x = "done" \/ q = <<>>
    <3>1. /\ Requeues(t) /\ (Occurs(lock', t) <=> x # "done")
          /\ x = "removing" => Holds(t)'
      BY <1>8, <2>1, LineChanges
    <3> QED
      BY <1>9, <3>1, TurnKeepsLock DEF Requeues, Departs, stopVars
  <2>2. CASE x = "removing" /\ Holds(t) /\ q = Tail(lock)
    <3>1. lock' = lock
      BY <1>8, <2>2, LineWithoutLeft
    <3>2. stage[t] \in {"wants", "registers", "leaves", "removing"}
      BY <2>2, HeadOrder DEF LockSound, InLine, Holds
    <3> QED
      BY <1>9, <2>2, <3>1, <3>2, SameLine, LineStaysSound DEF Departs, stopVars
  <2> QED
    BY <2>1, <2>2
<1>11. /\ MapsShrink
       /\ \A i \in DOMAIN pending : i # id => i \in DOMAIN pending'
       /\ \A i \in DOMAIN sessions : i # id => i \in DOMAIN sessions'
       /\ id \notin DOMAIN pending' \union DOMAIN sessions'
       /\ ~real => DOMAIN sessions' = DOMAIN sessions
  <2>1. PICK f : f = pending
    OBVIOUS
  <2>2. PICK g : g = sessions
    OBVIOUS
  <2>3. /\ DOMAIN Without(f, {id}) = DOMAIN f \ {id}
        /\ \A i \in DOMAIN f \ {id} : Without(f, {id})[i] = f[i]
        /\ DOMAIN Without(g, {id}) = DOMAIN g \ {id}
        /\ \A i \in DOMAIN g \ {id} : Without(g, {id})[i] = g[i]
    BY WithoutFacts
  <2>4. /\ pending' = Without(f, {id})
        /\ sessions' = IF real THEN Without(g, {id}) ELSE g
    BY <1>4, <2>1, <2>2 DEF Forget, real
  <2> QED
    BY <1>7, <2>1, <2>2, <2>3, <2>4 DEF MapsShrink
<1>12. Keeps /\ \A u \in Turns : Handle(u)' = Handle(u)
  BY DEF Keeps, Departs, Handle
<1>13. Owned'
  <2>1. ASSUME NEW i \in DOMAIN pending' \union DOMAIN sessions', NEW u \in Turns, Owns(u, i)
        PROVE  Owns(u, i)'
    <3>1. u # t
      BY <1>11, <2>1 DEF Owns
    <3> QED
      BY <1>9, <1>12, <2>1, <3>1 DEF Owns
  <2> QED
    BY <1>11, <2>1 DEF Owned, MapsShrink, Departs, histVars
<1>14. MapsSound'
  <2>1. PartialTo(pending, Ids, Turns)' /\ PartialTo(sessions, Ids, Turns)' /\ SessionsSound'
    <3>1. \A u \in Turns :
              stage'[u] = "removing" => Handle(u)' \notin DOMAIN pending' \union DOMAIN sessions'
      BY <1>3, <1>9, <1>11, <1>12
    <3> QED
      BY <1>11, <1>12, <3>1, SessionsShrink DEF Departs
  <2>2. PartialTo(temp_to_real, Ids, Ids)' /\ PartialTo(real_to_temp, Ids, Ids)' /\ IdsSound'
    <3>1. ASSUME NEW i
          PROVE  Mapped(i) <=> i \in DOMAIN sessions
      BY <1>3 DEF Mapped, Departs
    <3>2. ASSUME NEW i
          PROVE  Mapped(i)' <=> \/ i \in DOMAIN sessions'
                                \/ x = "removing" /\ removing'[t].real /\ i = id
      BY <1>3, <1>9, <1>12 DEF Mapped
    <3>3. CASE x = "removing"
      <4>1. removing'[t].real = real
        BY <1>8, <3>3 DEF Types
      <4>2. \A i : Mapped(i)' <=> Mapped(i)
        BY <1>6, <1>7, <1>8, <1>11, <3>1, <3>2, <3>3, <4>1 DEF MapsShrink
      <4> QED
        BY <1>8, <1>11, <1>12, <3>3, <4>2, IdsStay DEF MapsShrink, Departs, histVars
    <3>4. CASE x = "done" /\ real /\ found # {}
      <4>1. Mapped(id) /\ \A i : Mapped(i)' <=> Mapped(i) /\ i # id
        BY <1>6, <1>11, <3>1, <3>2, <3>4 DEF MapsShrink
      <4> QED
        BY <1>8, <1>11, <1>12, <3>4, <4>1, IdsForget DEF MapsShrink, Departs, histVars
    <3>5. CASE x = "done" /\ ~(real /\ found # {})
      <4>1. \A i : Mapped(i)' <=> Mapped(i)
        BY <1>6, <1>7, <1>11, <3>1, <3>2, <3>5 DEF MapsShrink
      <4> QED
        BY <1>8, <1>11, <1>12, <3>5, <4>1, IdsStay DEF MapsShrink, Departs, histVars
    <3> QED
      BY <3>3, <3>4, <3>5
  <2> QED
    BY <2>1, <2>2 DEF MapsSound, MapsTyped
<1>15. FilesMove(t)
  <2>1. ASSUME NEW s \in Turns, NEW i \in Ids, Filed(s, i), i # id
        PROVE  Filed(s, i)'
    BY <1>11, <2>1 DEF Filed, MapsShrink
  <2>2. stage[t] # "wants"
    BY DEF TurnSound
  <2>3. ASSUME InMaps(t)
        PROVE  proc'[t] # "alive"
    <3>1. session[t] \in found
      BY <1>2, <1>7, <2>3 DEF InMaps, Filed, found, real, Types
    <3> QED
      BY <1>4, <3>1, SignalFacts DEF ProcSound
  <2> QED
    BY <1>1, <2>1, <2>2, <2>3 DEF FilesMove
<1>16. /\ proc' \in [Turns -> {"none", "alive", "dying", "dead"}]
       /\ \A u \in Turns : /\ proc'[u] = "none" <=> proc[u] = "none"
                           /\ proc'[u] = "alive" => proc[u] = "alive"
  BY <1>4, SignalFacts
<1>17. /\ removing' \in [Turns -> {None} \union Removal]
       /\ \A u \in Turns \ {t} : removing'[u] = removing[u]
       /\ x = "removing" => removing'[t] \in Removal
  <2>1. real \in BOOLEAN
    BY DEF real
  <2>2. CASE x = "done"
    BY <1>8, <2>2 DEF Types
  <2>3. CASE x = "removing"
    <3>1. PICK p \in Turns : removing' = [removing EXCEPT ![t] = [process |-> p, real |-> real]]
      BY <1>8, <2>3
    <3>2. PICK r : r = [process |-> p, real |-> real]
      OBVIOUS
    <3>3. r \in Removal
      BY <2>1, <3>2 DEF Removal
    <3> QED
      BY <3>1, <3>2, <3>3 DEF Types
  <2> QED
    BY <2>2, <2>3
<1>18. current' \in {current, [current EXCEPT ![TreeOf[t]] = None]}
  BY <1>8 DEF Done
<1> QED
  BY <1>8, <1>10, <1>13, <1>14, <1>15, <1>16, <1>17, <1>18, Departure

LEMMA FinallyStep ==
    ASSUME Inv, NEW t \in Turns, Departs(t), NEW q, LineWithout(t, q), Finally(t, q)
    PROVE  Inv'
<1> USE DEF Inv
<1>1. Handle(t) = None <=> session[t] = None
  BY HandleFacts
<1>2. CASE \/ Handle(t) = None /\ Done(t) /\ lock' = q
           \/ /\ Handle(t) # None /\ stage' = [stage EXCEPT ![t] = "leaves"]
              /\ lock' = Append(q, t) /\ current' = current
  <2>1. CASE UNCHANGED <<mapVars, proc, removing>>
    BY <1>2, <2>1, LeavesMapsAlone
  <2>2. CASE Handle(t) # None /\ q = <<>> /\ RemoveSession(t, <<>>)
    BY <1>1, <2>2, RemovalStep
  <2> QED
    BY <2>1, <2>2 DEF Finally
<1>3. CASE Handle(t) # None /\ q = <<>> /\ RemoveSession(t, <<>>)
  BY <1>1, <1>3, RemovalStep
<1> QED
  BY <1>2, <1>3 DEF Finally

LEMMA FinallySteps ==
    ASSUME Inv, NEW t \in Turns,
           \/ SpawnFails(t) \/ Raises(t) \/ Exits(t) \/ Killed(t)
           \/ CancelledTask(t) \/ CancelledWaiting(t) \/ Leaves(t)
    PROVE  Inv'
<1> USE DEF Inv
<1>1. CASE SpawnFails(t)
  <2>1. Departs(t)
    BY <1>1 DEF SpawnFails, InTask, Departs, Begun, ProcSound
  <2> QED
    BY <1>1, <2>1, LineWithoutLeft, FinallyStep DEF SpawnFails, InTask, LockSound, InLine
<1>2. CASE Raises(t)
  <2>1. Departs(t)
    BY <1>2 DEF Raises, Departs, Begun
  <2> QED
    BY <1>2, <2>1, LineWithoutLeft, FinallyStep DEF Raises, LockSound, InLine
<1>3. CASE Exits(t)
  <2>1. Departs(t)
    BY <1>3 DEF Exits, Departs, Begun
  <2> QED
    BY <1>3, <2>1, LineWithoutLeft, FinallyStep DEF Exits, LockSound, InLine
<1>4. CASE Killed(t)
  <2>1. Departs(t)
    BY <1>4 DEF Killed, Departs, Begun, nodeVars
  <2> QED
    BY <1>4, <2>1, LineWithoutLeft, FinallyStep DEF Killed, LockSound, InLine
<1>5. CASE CancelledTask(t)
  <2>1. Departs(t)
    BY <1>5 DEF CancelledTask, Departs, Begun, ProcSound
  <2> QED
    BY <1>5, <2>1, LineWithoutLeft, FinallyStep DEF CancelledTask, LockSound, InLine
<1>6. CASE CancelledWaiting(t)
  <2>1. Departs(t)
    BY <1>6 DEF CancelledWaiting, Departs, Begun, EndSound
  <2> QED
    BY <1>6, <2>1, LineWithoutLeft, FinallyStep DEF CancelledWaiting
<1>7. CASE Leaves(t)
  <2>1. Departs(t)
    BY <1>7 DEF Leaves, Departs, Begun, EndSound, nodeVars
  <2>2. session[t] # None /\ Holds(t) /\ RemoveSession(t, Tail(lock))
    BY <1>7 DEF Leaves, TurnSound, Begun
  <2>3. LineWithout(t, Tail(lock))
    BY <2>2, LineWithoutLeft
  <2> QED
    BY <2>1, <2>2, <2>3, RemovalStep
<1> QED
  BY <1>1, <1>2, <1>3, <1>4, <1>5, <1>6, <1>7

\* The end of remove_session, in its own time or by a cancellation.
LEMMA RemovalEnds ==
    ASSUME Inv, NEW t \in Turns, Removed(t) \/ CancelledLeaving(t)
    PROVE  Inv'
<1> USE DEF Inv
<1>1. /\ UNCHANGED <<resume, session, temp, captured, recorded, ended, task, cleared, pending,
                     sessions, cliVars, stopVars, beside>>
      /\ Done(t) /\ cancel' \in {cancel, cancel \ {t}}
      /\ stage[t] \in {"leaves", "removing"} /\ stage' = [stage EXCEPT ![t] = "done"]
      /\ removing' = [removing EXCEPT ![t] = None]
      /\ unremoved \subseteq unremoved' /\ unmapped \subseteq unmapped'
      /\ stage[t] = "leaves" => Handle(t) \in unremoved'
      /\ stage[t] = "leaves" => t \in cancel
      /\ t \in cancel \/ ~removing[t].real => UNCHANGED <<temp_to_real, real_to_temp>>
      /\ t \in cancel /\ stage[t] = "removing" => Handle(t) \in unmapped'
      /\ t \notin cancel /\ removing[t].real => ForgetMapping(Handle(t))
  <2>1. CASE Removed(t)
    BY <2>1 DEF Removed, Done, nodeVars, histVars
  <2>2. CASE CancelledLeaving(t)
    <3>1. /\ unremoved \subseteq unremoved' /\ unmapped \subseteq unmapped'
          /\ stage[t] = "leaves" => Handle(t) \in unremoved'
          /\ stage[t] = "removing" => Handle(t) \in unmapped'
      BY <2>2 DEF CancelledLeaving
    <3>2. UNCHANGED mapVars /\ UNCHANGED <<resume, session, temp, captured, recorded, ended, task,
                                          cleared, cliVars, stopVars, beside>>
      BY <2>2 DEF CancelledLeaving
    <3> QED
      BY <2>2, <3>1, <3>2 DEF CancelledLeaving, Done, mapVars
  <2> QED
    BY <2>1, <2>2
<1>2. lock' = LeaveLock(t) \/ (Holds(t) /\ lock' = Tail(lock))
  BY DEF Removed, CancelledLeaving, LockSound
<1>3. stage'[t] = "done" /\ \A u \in Turns \ {t} : stage'[u] = stage[u] /\ removing'[u] = removing[u]
  BY <1>1 DEF Types
<1>4. Requeues(t) /\ ~Occurs(lock', t)
  BY <1>2, LineWithoutLeft, LineChanges
<1>5. KeepsOrder(t) /\ LockSound'
  BY <1>1, <1>3, <1>4, TurnKeepsLock DEF Requeues, stopVars
<1>6. current' = [current EXCEPT ![TreeOf[t]] = None]
  BY <1>1 DEF Done
<1>7. Types'
  <2>2. stage' \in [Turns -> Stages] /\ removing' \in [Turns -> {None} \union Removal]
    BY <1>1 DEF Types, Stages
  <2>3. current' \in [Trees -> Turns \union {None}] /\ cancel' \subseteq Turns
    BY <1>1, <1>6 DEF Types
  <2> QED
    BY <1>1, <2>2, <2>3 DEF Types, cliVars, stopVars
<1>8. TurnSound'
  BY <1>1, <1>3, TurnStaysSound DEF Begun
<1>9. TurnMoves(t)
  BY <1>1, <1>3, <1>5, <1>6 DEF TurnMoves, Begun
<1>10. ProcsMove(t)
  BY <1>1, <1>3 DEF ProcsMove, cliVars
<1>11. Keeps /\ MapsShrink /\ \A u \in Turns : Handle(u)' = Handle(u)
  BY <1>1 DEF Keeps, MapsShrink, Handle
<1>12. Owned'
  <2>1. ASSUME NEW i \in DOMAIN pending \union DOMAIN sessions, NEW u \in Turns, Owns(u, i)
        PROVE  i \in unremoved' \/ Owns(u, i)'
    BY <1>1, <1>3, <1>11, <2>1 DEF Owns
  <2> QED
    BY <1>1, <2>1 DEF Owned
<1>13. MapsSound'
  <2>1. \A u \in Turns :
            stage'[u] = "removing" => Handle(u)' \notin DOMAIN pending' \union DOMAIN sessions'
    BY <1>1, <1>3, <1>11 DEF MapsSound, SessionsSound
  <2>2. PartialTo(pending, Ids, Turns)' /\ PartialTo(sessions, Ids, Turns)' /\ SessionsSound'
    BY <1>1, <1>11, <2>1, SessionsShrink
  <2>3. \A i : Mapped(i)' => Mapped(i)
    BY <1>1, <1>3, <1>11 DEF Mapped
  <2>4. \A i : Mapped(i) => Mapped(i)' \/ (i = Handle(t) /\ stage[t] = "removing" /\ removing[t].real)
    BY <1>1, <1>3, <1>11 DEF Mapped
  <2>5. PartialTo(temp_to_real, Ids, Ids)' /\ PartialTo(real_to_temp, Ids, Ids)' /\ IdsSound'
    <3>1. CASE t \in cancel \/ ~removing[t].real
      BY <1>1, <1>11, <2>3, <2>4, <3>1, IdsStay DEF MapsShrink
    <3>2. CASE t \notin cancel /\ removing[t].real
      <4>1. stage[t] = "removing" /\ Handle(t) \notin DOMAIN sessions /\ Mapped(Handle(t))
        BY <1>1, <3>2 DEF MapsSound, SessionsSound, Mapped
      <4>2. \A u \in Turns \ {t} : stage[u] # "removing"
        BY <4>1, NobodyRemoves DEF LockSound
      <4>3. \A i : Mapped(i)' <=> i \in DOMAIN sessions
        BY <1>1, <1>3, <4>2 DEF Mapped
      <4>4. \A i : Mapped(i)' <=> Mapped(i) /\ i # Handle(t)
        BY <2>3, <2>4, <4>1, <4>3
      <4> QED
        BY <1>1, <1>11, <3>2, <4>1, <4>4, IdsForget DEF MapsShrink
    <3> QED
      BY <3>1, <3>2
  <2> QED
    BY <2>2, <2>5 DEF MapsSound, MapsTyped
<1>14. FilesMove(t)
  <2>1. \A s, i : Filed(s, i) => Filed(s, i)'
    BY <1>1 DEF Filed
  <2>2. InMaps(t) => InMaps(t)'
    BY <1>1, <1>11 DEF InMaps, Filed
  <2>3. InMaps(t) => t \in cancel
    BY <1>1 DEF MapsSound, SessionsSound, InMaps, Filed
  <2> QED
    BY <1>1, <2>1, <2>2, <2>3 DEF FilesMove, cliVars
<1>15. EndSound'
  BY <1>1, <1>3 DEF EndSound, cliVars
<1> QED
  BY <1>7, <1>5, <1>8, <1>9, <1>10, <1>12, <1>13, <1>14, <1>15, StepOfTurn
-----------------------------------------------------------------------------
(* register_real_session_id. *)

\* The session changes its map; no id of the turn was in use.
LEMMA RegisterMaps ==
    ASSUME Inv, NEW t \in Turns, Register(t), temp[t] # None, temp[t] \in DOMAIN pending,
           \A u \in Turns : stage[u] # "removing" /\ stage'[u] # "removing",
           UNCHANGED <<session, unmapped>>
    PROVE  MapsSound'
<1> USE DEF Inv
<1> DEFINE id == temp[t]
           s  == pending[temp[t]]
           R  == Real(t)
<1>1. /\ captured' = [captured EXCEPT ![t] = R] /\ temp' = [temp EXCEPT ![t] = None]
      /\ id \in Ids /\ id \in DOMAIN pending /\ captured[t] = None /\ session[t] # None
  BY DEF Register, Types, TurnSound
<1>2. R \in Ids /\ IdTree(R) = TreeOf[t] /\ ~Known(R) /\ IdTree(id) = TreeOf[t] /\ Known(id)
  BY <1>1, IdFacts DEF TurnSound, OfTurn
<1>3. /\ DOMAIN pending \subseteq Ids /\ DOMAIN sessions \subseteq Ids
      /\ DOMAIN temp_to_real \subseteq Ids /\ DOMAIN real_to_temp \subseteq Ids
      /\ \A i \in DOMAIN pending : pending[i] \in Turns
      /\ \A i \in DOMAIN sessions : sessions[i] \in Turns
      /\ \A i \in DOMAIN temp_to_real : temp_to_real[i] \in Ids
      /\ \A i \in DOMAIN real_to_temp : real_to_temp[i] \in Ids
  BY PartialFacts DEF MapsSound, MapsTyped
<1>4. SessionsSound /\ IdsSound
  BY DEF MapsSound
<1>5. R \notin DOMAIN pending \union DOMAIN sessions \union DOMAIN temp_to_real
              \union DOMAIN real_to_temp
  BY <1>2, <1>4 DEF SessionsSound, IdsSound
<1>18. /\ pending' = Without(pending, {id}) /\ sessions' = With(sessions, R, s)
       /\ temp_to_real' = With(temp_to_real, id, R) /\ real_to_temp' = With(real_to_temp, R, id)
  BY DEF Register
<1>9. s \in Turns /\ session[s] = s /\ TreeOf[s] = TreeOf[t]
  BY <1>1, <1>2, <1>3, <1>4 DEF SessionsSound
<1> HIDE DEF id, s, R
<1>6. /\ DOMAIN pending' = DOMAIN pending \ {id}
      /\ \A i \in DOMAIN pending' : pending'[i] = pending[i]
      /\ DOMAIN sessions' = DOMAIN sessions \union {R} /\ sessions'[R] = s
      /\ \A i \in DOMAIN sessions : sessions'[i] = sessions[i]
  <2>1. PICK f : f = pending
    OBVIOUS
  <2>2. PICK g : g = sessions
    OBVIOUS
  <2>3. /\ DOMAIN Without(f, {id}) = DOMAIN f \ {id}
        /\ \A i \in DOMAIN f \ {id} : Without(f, {id})[i] = f[i]
    BY WithoutFacts
  <2>5. /\ DOMAIN With(g, R, s) = DOMAIN g \union {R} /\ With(g, R, s)[R] = s
        /\ \A i \in DOMAIN g : i # R => With(g, R, s)[i] = g[i]
    BY DEF With
  <2>4. pending' = Without(f, {id}) /\ sessions' = With(g, R, s)
    BY <1>18, <2>1, <2>2
  <2> QED
    BY <1>5, <2>1, <2>2, <2>3, <2>4, <2>5
<1>7. /\ DOMAIN temp_to_real' = DOMAIN temp_to_real \union {id} /\ temp_to_real'[id] = R
      /\ \A i \in DOMAIN temp_to_real : i # id => temp_to_real'[i] = temp_to_real[i]
      /\ DOMAIN real_to_temp' = DOMAIN real_to_temp \union {R} /\ real_to_temp'[R] = id
      /\ \A i \in DOMAIN real_to_temp : real_to_temp'[i] = real_to_temp[i]
  <2>1. PICK f : f = temp_to_real
    OBVIOUS
  <2>2. PICK g : g = real_to_temp
    OBVIOUS
  <2>3. /\ DOMAIN With(f, id, R) = DOMAIN f \union {id} /\ With(f, id, R)[id] = R
        /\ \A i \in DOMAIN f : i # id => With(f, id, R)[i] = f[i]
    BY DEF With
  <2>5. /\ DOMAIN With(g, R, id) = DOMAIN g \union {R} /\ With(g, R, id)[R] = id
        /\ \A i \in DOMAIN g : i # R => With(g, R, id)[i] = g[i]
    BY DEF With
  <2>4. temp_to_real' = With(f, id, R) /\ real_to_temp' = With(g, R, id)
    BY <1>18, <2>1, <2>2
  <2> QED
    BY <1>5, <2>1, <2>2, <2>3, <2>4, <2>5
<1>8. /\ \A i \in Ids : Known(i) => Known(i)'
      /\ Known(R)' /\ \A u \in Turns : session'[u] = session[u]
  <2>1. Keeps
    BY <1>1 DEF Keeps, Types
  <2>2. captured'[t] = R
    BY <1>1 DEF Types
  <2>3. Known(R)'
    BY <2>2 DEF Known, Real, R
  <2> QED
    BY <2>1, <2>3, KnownStays
<1>10. \A i : Mapped(i) <=> i \in DOMAIN sessions
  BY DEF Mapped
<1>11. \A i : Mapped(i)' <=> i \in DOMAIN sessions'
  BY DEF Mapped
<1>12. MapsTyped'
  BY <1>1, <1>2, <1>3, <1>6, <1>7, <1>9, PartialFacts DEF MapsTyped
<1>13. SessionsSound'
  <2>1. ASSUME NEW i \in DOMAIN pending'
        PROVE  /\ Known(i)' /\ session'[pending'[i]] = pending'[i]
               /\ TreeOf[pending'[i]] = IdTree(i)
               /\ \A j \in DOMAIN pending' : pending'[j] = pending'[i] => j = i
               /\ \A j \in DOMAIN sessions' : sessions'[j] # pending'[i]
    <3>1. i \in DOMAIN pending /\ i # id /\ i \in Ids /\ pending'[i] = pending[i]
      BY <1>3, <1>6
    <3>2. pending[i] # s
      BY <1>1, <1>4, <3>1 DEF SessionsSound, s, id
    <3> QED
      BY <1>3, <1>4, <1>6, <1>8, <3>1, <3>2 DEF SessionsSound
  <2>2. ASSUME NEW i \in DOMAIN sessions'
        PROVE  /\ Known(i)' /\ session'[sessions'[i]] = sessions'[i]
               /\ TreeOf[sessions'[i]] = IdTree(i)
               /\ \A j \in DOMAIN sessions' : sessions'[j] = sessions'[i] => j = i
    <3>1. \A j \in DOMAIN sessions : sessions[j] # s
      BY <1>1, <1>4 DEF SessionsSound, s, id
    <3>2. CASE i = R
      BY <1>2, <1>6, <1>8, <1>9, <3>1, <3>2
    <3>3. CASE i \in DOMAIN sessions
      BY <1>3, <1>4, <1>6, <1>8, <3>1, <3>3 DEF SessionsSound
    <3> QED
      BY <1>6, <3>2, <3>3
  <2>3. ASSUME NEW u \in Turns
        PROVE  temp'[u] \notin DOMAIN sessions'
    <3>1. CASE u = t
      BY <1>1, <1>2, <1>3, <1>6, <3>1, IdFacts DEF Types
    <3>2. CASE u # t
      <4>1. temp'[u] = temp[u]
        BY <1>1, <3>2 DEF Types
      <4>2. temp[u] # R
        BY <1>2, IdFacts DEF TurnSound, OfTurn
      <4> QED
        BY <1>4, <1>6, <4>1, <4>2 DEF SessionsSound
    <3> QED
      BY <3>1, <3>2
  <2> QED
    BY <2>1, <2>2, <2>3 DEF SessionsSound, IdTree
<1>14. ASSUME NEW i \in DOMAIN temp_to_real'
       PROVE  /\ Known(i)' /\ Known(temp_to_real[i])'
              /\ IdTree(temp_to_real'[i]) = IdTree(i)
              /\ \E j \in DOMAIN real_to_temp' : real_to_temp'[j] = i
  <2>1. PICK k \in Ids : k = temp_to_real'[i]
    BY <1>2, <1>3, <1>7
  <2>2. CASE i = id
    BY <1>1, <1>2, <1>7, <1>8, <2>1, <2>2 DEF Known
  <2>3. CASE i # id
    <3>1. i \in DOMAIN temp_to_real /\ k = temp_to_real[i]
      BY <1>7, <2>1, <2>3
    <3>2. Known(i) /\ Known(k) /\ IdTree(k) = IdTree(i)
      BY <1>4, <3>1 DEF IdsSound
    <3>3. Known(i)' /\ Known(k)'
      BY <1>3, <1>8, <3>1, <3>2
    <3>4. Known(temp_to_real[i])'
      BY <2>1, <3>3 DEF Known
    <3>5. \E j \in DOMAIN real_to_temp' : real_to_temp'[j] = i
      BY <1>4, <1>7, <3>1 DEF IdsSound
    <3> QED
      BY <2>1, <3>2, <3>3, <3>4, <3>5
  <2> QED
    BY <2>2, <2>3
<1>15. \A i \in DOMAIN real_to_temp' : Known(i)' /\ (Mapped(i)' \/ i \in unmapped')
  BY <1>3, <1>4, <1>6, <1>7, <1>8, <1>10, <1>11 DEF IdsSound
<1>16. ASSUME NEW i \in DOMAIN sessions'
       PROVE  /\ i \in DOMAIN real_to_temp' /\ real_to_temp'[i] \in DOMAIN temp_to_real'
              /\ temp_to_real'[real_to_temp'[i]] = i
              /\ real_to_temp'[i] \notin DOMAIN pending'
              /\ i \notin DOMAIN pending' \union DOMAIN temp_to_real'
  <2>1. CASE i = R
    BY <1>2, <1>5, <1>6, <1>7, <2>1
  <2>2. CASE i \in DOMAIN sessions
    <3>1. /\ i \in DOMAIN real_to_temp /\ real_to_temp[i] \in DOMAIN temp_to_real
          /\ temp_to_real[real_to_temp[i]] = i
          /\ real_to_temp[i] \notin DOMAIN pending
          /\ i \notin DOMAIN pending \union DOMAIN temp_to_real
      BY <1>4, <1>10, <2>2 DEF IdsSound
    <3>2. real_to_temp[i] # id /\ i # id
      BY <1>1, <3>1
    <3> QED
      BY <1>6, <1>7, <3>1, <3>2
  <2> QED
    BY <1>6, <2>1, <2>2
<1>17. IdsSound'
  BY <1>11, <1>14, <1>15, <1>16 DEF IdsSound, IdTree
<1> QED
  BY <1>12, <1>13, <1>17 DEF MapsSound

LEMMA RegisterStep ==
    ASSUME Inv, NEW t \in Turns, Register(t), temp[t] # None,
           stage[t] \in {"reading", "registers"}, stage' = [stage EXCEPT ![t] = "reading"],
           \A u \in Turns : u # t => stage[u] # "removing", KeepsOrder(t), LockSound',
           UNCHANGED <<resume, session, removing, nodeVars, treeVars, cliVars, stopVars, histVars>>
    PROVE  Inv'
<1> USE DEF Inv
<1>1. /\ captured' = [captured EXCEPT ![t] = Real(t)] /\ temp' = [temp EXCEPT ![t] = None]
      /\ recorded' = [recorded EXCEPT ![t] = Real(t)]
      /\ temp[t] \in Ids /\ captured[t] = None /\ session[t] # None
  BY DEF Register, Types, TurnSound
<1>2. /\ stage'[t] = "reading" /\ captured'[t] = Real(t) /\ temp'[t] = None /\ recorded'[t] = Real(t)
      /\ \A u \in Turns \ {t} : /\ stage'[u] = stage[u] /\ captured'[u] = captured[u]
                                /\ temp'[u] = temp[u] /\ recorded'[u] = recorded[u]
  BY <1>1 DEF Types
<1>3. Keeps
  BY <1>1, <1>2 DEF Keeps
<1>4. Real(t) \in Ids /\ IdTree(Real(t)) = TreeOf[t] /\ Real(t) # None /\ Known(Real(t))'
  BY <1>2, IdFacts DEF Known, Real
<1>5. Types'
  BY <1>1, <1>4 DEF Types, Stages, nodeVars, treeVars, cliVars, stopVars, histVars
<1>6. TurnSound'
  <2>1. ASSUME NEW u \in Turns, NEW i \in Ids \union {None}, OfTurn(u, i)
        PROVE  i # None => Known(i)' /\ IdTree(i) = TreeOf[u]
    BY <1>3, <2>1, KnownStays DEF OfTurn
  <2>2. ASSUME NEW u \in Turns, NEW i \in Ids \union {None}, i = None \/ (Known(i)' /\ IdTree(i) = TreeOf[u])
        PROVE  OfTurn(u, i)'
    BY <2>2 DEF OfTurn, IdTree
  <2>3. ASSUME NEW u \in Turns
        PROVE  OfTurn(u, resume[u])' /\ OfTurn(u, temp[u])'
    <3>1. OfTurn(u, resume[u]) /\ OfTurn(u, temp[u]) /\ resume' = resume
      BY DEF TurnSound
    <3>2. PICK i \in Ids \union {None} : i = resume[u]
      BY DEF Types
    <3>3. PICK j \in Ids \union {None} : j = temp'[u]
      BY <1>5 DEF Types
    <3>4. OfTurn(u, i)' /\ OfTurn(u, j)'
      <4>1. OfTurn(u, i) /\ (j # None => OfTurn(u, j))
        BY <1>2, <3>1, <3>2, <3>3
      <4> QED
        BY <2>1, <2>2, <4>1
    <3> QED
      BY <3>1, <3>2, <3>3, <3>4 DEF OfTurn, Known, IdTree
  <2>4. ASSUME NEW u \in Turns
        PROVE  OfTurn(u, captured[u])' /\ OfTurn(u, recorded[u])'
    <3>1. PICK i \in Ids \union {None} : i = captured'[u]
      BY <1>5 DEF Types
    <3>2. PICK j \in Ids \union {None} : j = recorded'[u]
      BY <1>5 DEF Types
    <3>3. OfTurn(u, i)' /\ OfTurn(u, j)'
      <4>1. CASE u = t
        <5>1. i = Real(t) /\ j = Real(t)
          BY <1>2, <3>1, <3>2, <4>1
        <5>2. Known(i)' /\ Known(j)'
          BY <1>4, <5>1 DEF Known, Real
        <5> QED
          BY <1>4, <2>2, <4>1, <5>1, <5>2
      <4>2. CASE u # t
        <5>1. OfTurn(u, i) /\ OfTurn(u, j)
          BY <1>2, <3>1, <3>2, <4>2 DEF TurnSound
        <5> QED
          BY <2>1, <2>2, <5>1
      <4> QED
        BY <4>1, <4>2
    <3> QED
      BY <3>1, <3>2, <3>3 DEF OfTurn, Known, IdTree
  <2>5. ASSUME NEW u \in Turns
        PROVE  /\ stage'[u] \in {"idle", "wants"} => session'[u] = None
               /\ Begun(u)' /\ stage'[u] # "wants" => session'[u] # None
               /\ session'[u] = None => temp'[u] = None /\ captured'[u] = None /\ recorded'[u] = None
               /\ session'[u] # None => /\ ~(temp'[u] = None <=> captured'[u] = None)
                                        /\ TreeOf[session'[u]] = TreeOf[u]
               /\ temp'[u] # None => session'[u] = u
               /\ stage'[u] = "registers" => temp'[u] # None
               /\ stage'[u] = "removing" => removing'[u] \in Removal
    <3>1. CASE u = t
      BY <1>1, <1>2, <1>4, <3>1 DEF TurnSound
    <3>2. CASE u # t
      BY <1>2, <3>2 DEF TurnSound, Begun
    <3> QED
      BY <3>1, <3>2
  <2> QED
    BY <2>3, <2>4, <2>5 DEF TurnSound
<1>7. /\ DOMAIN pending \subseteq Ids /\ DOMAIN sessions \subseteq Ids
  BY PartialFacts DEF MapsSound, MapsTyped
<1>8. \A u \in Turns : stage[u] # "removing" /\ stage'[u] # "removing"
  BY <1>2
<1>9. Handle(t) = temp[t] /\ Handle(t)' = Real(t) /\ \A u \in Turns \ {t} : Handle(u)' = Handle(u)
  BY <1>1, <1>2, <1>4 DEF Handle
<1>10. temp[t] \notin DOMAIN sessions
  BY DEF MapsSound, SessionsSound
<1>11. MapsSound'
  <2>1. CASE temp[t] \in DOMAIN pending
    BY <1>8, <2>1, RegisterMaps DEF histVars
  <2>2. CASE temp[t] \notin DOMAIN pending
    <3>1. UNCHANGED mapVars
      BY <2>2 DEF Register
    <3>2. MapsShrink /\ \A u \in Turns : temp'[u] \in {temp[u], None}
      BY <1>2, <3>1 DEF MapsShrink, mapVars
    <3>3. PartialTo(pending, Ids, Turns)' /\ PartialTo(sessions, Ids, Turns)' /\ SessionsSound'
      BY <1>3, <1>8, <3>2, SessionsShrink
    <3>4. \A i : Mapped(i)' <=> Mapped(i)
      BY <1>8, <3>1 DEF Mapped, mapVars
    <3>5. PartialTo(temp_to_real, Ids, Ids)' /\ PartialTo(real_to_temp, Ids, Ids)' /\ IdsSound'
      BY <1>3, <3>1, <3>4, IdsStay DEF mapVars, histVars
    <3> QED
      BY <3>3, <3>5 DEF MapsSound, MapsTyped
  <2> QED
    BY <2>1, <2>2
<1>12. /\ \A s \in Turns, i \in Ids : Filed(s, i) /\ i # temp[t] => Filed(s, i)'
       /\ \A i \in DOMAIN pending' \union DOMAIN sessions' :
             i = Real(t) \/ (i # temp[t] /\ i \in DOMAIN pending \union DOMAIN sessions)
       /\ \A s \in Turns : Filed(s, temp[t]) => Filed(s, Real(t))' \/ temp[t] \notin DOMAIN pending
  <2>1. CASE temp[t] \in DOMAIN pending
    <3>1. PICK f, g : f = pending /\ g = sessions
      OBVIOUS
    <3>2. PICK i \in Ids : i = temp[t]
      BY <1>1
    <3>3. PICK s : s = pending[temp[t]]
      OBVIOUS
    <3>4. PICK R \in Ids : R = Real(t)
      BY <1>4
    <3>5. /\ DOMAIN Without(f, {i}) = DOMAIN f \ {i}
          /\ \A j \in DOMAIN f \ {i} : Without(f, {i})[j] = f[j]
      BY WithoutFacts
    <3>6. /\ DOMAIN With(g, R, s) = DOMAIN g \union {R} /\ With(g, R, s)[R] = s
          /\ \A j \in DOMAIN g : j # R => With(g, R, s)[j] = g[j]
      BY DEF With
    <3>7. pending' = Without(f, {i}) /\ sessions' = With(g, R, s)
      BY <2>1, <3>1, <3>2, <3>3, <3>4 DEF Register
    <3>8. R \notin DOMAIN sessions
      <4>1. ~Known(R)
        BY <1>1, <1>4, <3>4, IdFacts
      <4> QED
        BY <4>1 DEF MapsSound, SessionsSound
    <3> QED
      BY <1>10, <3>1, <3>2, <3>3, <3>4, <3>5, <3>6, <3>7, <3>8 DEF Filed
  <2>2. CASE temp[t] \notin DOMAIN pending
    BY <1>10, <2>2 DEF Register, Filed, mapVars
  <2> QED
    BY <2>1, <2>2
<1>13. Owned'
  <2> SUFFICES ASSUME NEW i \in DOMAIN pending' \union DOMAIN sessions'
               PROVE  i \in unremoved \/ \E u \in Turns : Owns(u, i)'
    BY DEF Owned, histVars
  <2>1. CASE i = Real(t)
    <3>1. Owns(t, i)'
      BY <1>2, <1>9, <2>1 DEF Owns
    <3> QED
      BY <3>1
  <2>2. CASE i # temp[t] /\ i \in DOMAIN pending \union DOMAIN sessions
    <3>1. ASSUME NEW u \in Turns, Owns(u, i)
          PROVE  Owns(u, i)'
      BY <1>2, <1>9, <2>2, <3>1 DEF Owns
    <3> QED
      BY <2>2, <3>1 DEF Owned
  <2> QED
    BY <1>12, <2>1, <2>2
<1>14. FilesMove(t)
  <2>1. IdTree(temp[t]) = TreeOf[t]
    BY DEF TurnSound, OfTurn
  <2>2. InMaps(t) => InMaps(t)'
    <3> SUFFICES ASSUME InMaps(t)
                 PROVE  InMaps(t)'
      OBVIOUS
    <3>1. PICK s \in Turns : s = session[t]
      BY <1>1 DEF Types
    <3>2. Filed(s, temp[t]) /\ temp[t] \in DOMAIN pending
      BY <1>9, <1>10, <3>1 DEF InMaps, Filed
    <3>3. PICK R \in Ids : R = Real(t)
      BY <1>4
    <3>4. Filed(s, R)'
      BY <1>12, <3>2, <3>3 DEF Filed
    <3> QED
      BY <1>9, <3>1, <3>3, <3>4 DEF InMaps, Filed
  <2> QED
    BY <1>2, <1>12, <2>1, <2>2 DEF FilesMove, treeVars
<1>15. TurnMoves(t)
  BY <1>1, <1>2 DEF TurnMoves, Begun, nodeVars, treeVars, histVars
<1>16. ProcsMove(t)
  BY <1>2 DEF ProcsMove, cliVars
<1>17. EndSound'
  BY <1>2 DEF EndSound, nodeVars, cliVars
<1> QED
  BY <1>5, <1>6, <1>11, <1>13, <1>14, <1>15, <1>16, <1>17, StepOfTurn

LEMMA RegisterSteps ==
    ASSUME Inv, NEW t \in Turns, Registered(t) \/ (SessionInfo(t) /\ ~Locked)
    PROVE  Inv'
<1> USE DEF Inv
<1>1. CASE Registered(t)
  <2>1. /\ UNCHANGED <<resume, session, removing, nodeVars, treeVars, cliVars, stopVars, histVars>>
        /\ Holds(t) /\ stage[t] = "registers" /\ stage' = [stage EXCEPT ![t] = "reading"]
        /\ Register(t) /\ lock' = Tail(lock) /\ temp[t] # None
    BY <1>1 DEF Registered, Moves, TurnSound
  <2>2. stage'[t] = "reading" /\ \A u \in Turns \ {t} : stage'[u] = stage[u]
    BY <2>1 DEF Types
  <2>3. Requeues(t) /\ ~Occurs(lock', t)
    BY <2>1, LineWithoutLeft, LineChanges
  <2>4. LockSound' /\ KeepsOrder(t)
    BY <2>1, <2>2, <2>3, TurnKeepsLock DEF Requeues, stopVars
  <2>5. \A u \in Turns : u # t => stage[u] # "removing"
    BY <2>1, NobodyRemoves
  <2> QED
    BY <2>1, <2>4, <2>5, RegisterStep
<1>2. CASE SessionInfo(t) /\ ~Locked
  <2>1. /\ UNCHANGED <<resume, session, removing, nodeVars, treeVars, cliVars, stopVars, histVars>>
        /\ stage[t] = "reading" /\ stage' = stage /\ lock' = lock /\ lock = <<>>
        /\ Register(t) /\ temp[t] # None
    BY <1>2 DEF SessionInfo, Locked
  <2>2. stage' = [stage EXCEPT ![t] = "reading"]
    BY <2>1 DEF Types
  <2>3. LockSound' /\ KeepsOrder(t)
    BY <2>1, SameLine, LineStaysSound DEF stopVars
  <2>4. \A u \in Turns : u # t => stage[u] # "removing"
    BY <2>1, NobodyRemoves
  <2> QED
    BY <2>1, <2>2, <2>3, <2>4, RegisterStep
<1> QED
  BY <1>1, <1>2
-----------------------------------------------------------------------------
(* The subprocess. *)

LEMMA SpawnStep ==
    ASSUME Inv, NEW t \in Turns, Spawns(t)
    PROVE  Inv'
<1> USE DEF Inv
<1>1. /\ UNCHANGED <<resume, session, temp, captured, recorded, removing, nodeVars, treeVars,
                     lock, mapVars, stopVars, histVars>>
      /\ stage[t] = "spawning" /\ stage' = [stage EXCEPT ![t] = "reading"]
      /\ cli_lock[session[t]] \in {None, t} /\ t \notin cancel
      /\ cli_lock' = [cli_lock EXCEPT ![session[t]] = t]
      /\ proc' = [proc EXCEPT ![t] = "alive"]
      /\ process' = [process EXCEPT ![session[t]] = t]
  BY DEF Spawns, InTask, Moves
<1>2. /\ stage'[t] = "reading" /\ proc'[t] = "alive" /\ proc[t] = "none"
      /\ session[t] \in Turns /\ cli_lock'[session[t]] = t /\ process'[session[t]] = t
      /\ \A u \in Turns \ {t} : stage'[u] = stage[u] /\ proc'[u] = proc[u]
  BY <1>1 DEF Types, ProcSound, TurnSound, Begun
<1>3. Types'
  BY <1>1 DEF Types, Stages, nodeVars, treeVars, stopVars, histVars
<1>4. LockSound' /\ StopsInOrder'
  <2>1. LockSound'
    BY <1>1, <1>2, LineStaysSound DEF stopVars
  <2>2. StopsInOrder'
    BY <1>1 DEF StopsInOrder, InLine, Ahead, stopVars
  <2> QED
    BY <2>1, <2>2
<1>5. TurnSound' /\ SessionsUnshared'
  <2>1. TurnSound'
    BY <1>1, <1>2, IdFacts, TurnStaysSound
  <2>2. SessionsUnshared'
    BY <1>1 DEF SessionsUnshared, histVars
  <2> QED
    BY <2>1, <2>2
<1>6. /\ \A u \in Turns : Begun(u)' <=> Begun(u)
      /\ \A u \in Turns : Coming(u)' => Coming(u)
  BY <1>1, <1>2 DEF Begun, Coming, nodeVars
<1>7. Alone'
  BY <1>1, <1>6 DEF Alone, treeVars, histVars
<1>8. Keeps /\ MapsShrink /\ \A u \in Turns : Handle(u)' = Handle(u)
  BY <1>1 DEF Keeps, MapsShrink, Handle, mapVars
<1>9. Owned'
  <2>1. \A u \in Turns : \A i : Owns(u, i) => Owns(u, i)'
    BY <1>2, <1>8 DEF Owns
  <2> QED
    BY <1>1, <2>1 DEF Owned, mapVars, histVars
<1>10. MapsSound'
  <2>1. \A u \in Turns :
            stage'[u] = "removing" => Handle(u)' \notin DOMAIN pending' \union DOMAIN sessions'
    BY <1>1, <1>2, <1>8 DEF MapsSound, SessionsSound, mapVars
  <2>2. PartialTo(pending, Ids, Turns)' /\ PartialTo(sessions, Ids, Turns)' /\ SessionsSound'
    BY <1>1, <1>8, <2>1, SessionsShrink
  <2>3. \A i : Mapped(i)' <=> Mapped(i)
    BY <1>1, <1>2, <1>8 DEF Mapped, mapVars
  <2>4. PartialTo(temp_to_real, Ids, Ids)' /\ PartialTo(real_to_temp, Ids, Ids)' /\ IdsSound'
    BY <1>1, <1>8, <2>3, IdsStay DEF mapVars, histVars
  <2> QED
    BY <2>2, <2>4 DEF MapsSound, MapsTyped
<1>11. ShutDown' = ShutDown /\ \A c : OfCommand(c)' = OfCommand(c)
  BY <1>1 DEF ShutDown, Stopping, OfCommand, stopVars
<1>12. ProcSound'
  <2>1. ASSUME NEW u \in Turns, u # t, proc'[u] = "alive"
        PROVE  /\ session'[u] # None /\ process'[session'[u]] = u
               /\ cli_lock'[session'[u]] = u
    <3>1. proc[u] = "alive" /\ session[u] # None /\ process[session[u]] = u /\ cli_lock[session[u]] = u
      BY <1>2, <2>1 DEF ProcSound
    <3>2. session[u] # session[t]
      BY <1>1, <2>1, <3>1, IdFacts
    <3> QED
      BY <1>1, <3>1, <3>2 DEF Types
  <2>2. /\ proc'[t] = "alive" => session'[t] # None /\ process'[session'[t]] = t
                                 /\ cli_lock'[session'[t]] = t
    BY <1>1, <1>2, IdFacts
  <2>3. \A u \in Turns : /\ stage'[u] \in {"idle", "wants", "spawning"} => proc'[u] = "none"
                         /\ stage'[u] \in {"kills", "drains"} => proc'[u] # "alive"
    BY <1>2 DEF ProcSound
  <2> QED
    BY <2>1, <2>2, <2>3 DEF ProcSound
<1>13. EndSound'
  BY <1>1, <1>2 DEF EndSound, nodeVars
<1>14. Guarded'
  <2> SUFFICES ASSUME NEW u \in Turns, u \notin beside, Working(u)', ~ShutDown
               PROVE  InMaps(u)' /\ Undisturbed(u)'
    BY <1>1, <1>11 DEF Guarded, histVars
  <2>1. Working(u)
    BY <1>1, <1>2 DEF Working, nodeVars
  <2>2. InMaps(u) /\ Undisturbed(u)
    BY <2>1 DEF Guarded
  <2>3. InMaps(u)'
    BY <1>1, <1>8, <2>2 DEF InMaps, Filed, mapVars
  <2>4. Unrivalled(u) => Unrivalled(u)'
    BY <1>1, <1>2, <1>6 DEF Unrivalled, nodeVars, treeVars, Mates
  <2>5. ASSUME NEW c \in Stops, StopComes(u, c)
        PROVE  StopComes(u, c)'
    <3>1. ~Mates(u, t)
      BY <1>1, <2>5 DEF StopComes, Begun
    <3>2. \A v \in Turns : Mates(u, v) /\ Begun(v)' => stage'[v] = "wants" /\ Ahead(c, v)'
      BY <1>1, <1>2, <1>6, <2>5, <3>1 DEF StopComes, Ahead
    <3> QED
      BY <1>1, <1>11, <2>5, <3>2 DEF StopComes, Mates, stopVars
  <2> QED
    BY <2>2, <2>3, <2>4, <2>5 DEF Undisturbed
<1>15. StopSound'
  <2> SUFFICES ASSUME NEW c \in Stops
               PROVE  /\ \A u \in before[c] : proc'[u] # "none"
                      /\ stop[c] = "stops" =>
                            \A u \in before[c] \ beside :
                                proc'[u] = "alive" => session[u] \in victims[c]
                      /\ stop[c] \in {"waits", "stops"} /\ OfCommand(c) =>
                            \A u \in Turns \ beside :
                              /\ stage'[u] = "spawning" => u \in cancel'
                              /\ stage'[u] = "wants" /\ Ahead(u, c)' => u \in cancel'
                              /\ stop[c] = "stops" /\ proc'[u] = "alive"
                                    => session[u] \in victims[c]
    BY <1>1, <1>11 DEF StopSound, stopVars, histVars
  <2>1. before[c] \subseteq Turns /\ t \notin before[c]
    BY <1>2 DEF Types, StopSound
  <2>2. stop[c] \in {"waits", "stops"} /\ OfCommand(c) => t \in beside
    BY <1>1 DEF StopSound
  <2>3. \A u : Ahead(u, c)' <=> Ahead(u, c)
    BY <1>1 DEF Ahead
  <2> QED
    BY <1>1, <1>2, <2>1, <2>2, <2>3 DEF StopSound, nodeVars
<1>16. StopAllKills'
  <2>1. \A c \in Stops : before[c] \subseteq Turns /\ t \notin before[c]
    BY <1>2 DEF Types, StopSound
  <2> QED
    BY <1>1, <1>2, <2>1 DEF StopAllKills, stopVars, histVars
<1> QED
  BY <1>3, <1>4, <1>5, <1>7, <1>9, <1>10, <1>12, <1>13, <1>14, <1>15, <1>16
-----------------------------------------------------------------------------
(* get_or_create_session. *)

\* A new session, under an id that no session of the maps leads to.
LEMMA NewMaps ==
    ASSUME Inv, NEW t \in Turns, NEW id \in Ids, session[t] = None, IdTree(id) = TreeOf[t],
           \/ id = Fresh(t)
           \/ /\ Known(id) /\ id \notin DOMAIN sessions
              /\ id \in DOMAIN temp_to_real => temp_to_real[id] \notin DOMAIN sessions,
           \A u \in Turns : stage[u] # "removing" /\ stage'[u] # "removing",
           session' = [session EXCEPT ![t] = t], temp' = [temp EXCEPT ![t] = id],
           captured' = captured, pending' = With(pending, id, t),
           UNCHANGED <<sessions, temp_to_real, real_to_temp, unmapped>>
    PROVE  MapsSound'
<1> USE DEF Inv
<1>1. /\ DOMAIN pending \subseteq Ids /\ DOMAIN sessions \subseteq Ids
      /\ DOMAIN temp_to_real \subseteq Ids /\ DOMAIN real_to_temp \subseteq Ids
      /\ \A i \in DOMAIN pending : pending[i] \in Turns
      /\ \A i \in DOMAIN sessions : sessions[i] \in Turns
      /\ \A i \in DOMAIN temp_to_real : temp_to_real[i] \in Ids
      /\ \A i \in DOMAIN real_to_temp : real_to_temp[i] \in Ids
  BY PartialFacts DEF MapsSound, MapsTyped
<1>2. SessionsSound /\ IdsSound
  BY DEF MapsSound
<1>3. \A i : (Mapped(i) <=> i \in DOMAIN sessions) /\ (Mapped(i)' <=> i \in DOMAIN sessions')
  BY DEF Mapped
<1>4. ~Known(Fresh(t))
  BY IdFacts
<1>5. id \notin DOMAIN sessions
  BY <1>2, <1>4 DEF SessionsSound
<1>6. \A i \in DOMAIN sessions : real_to_temp[i] # id
  <2> SUFFICES ASSUME NEW i \in DOMAIN sessions
               PROVE  real_to_temp[i] # id
    OBVIOUS
  <2>1. /\ real_to_temp[i] \in DOMAIN temp_to_real /\ temp_to_real[real_to_temp[i]] = i
        /\ Known(real_to_temp[i])
    BY <1>2, <1>3 DEF IdsSound
  <2> QED
    BY <1>4, <2>1
<1>7. /\ DOMAIN pending' = DOMAIN pending \union {id} /\ pending'[id] = t
      /\ \A i \in DOMAIN pending : i # id => pending'[i] = pending[i]
  <2>1. PICK f : f = pending
    OBVIOUS
  <2>2. /\ DOMAIN With(f, id, t) = DOMAIN f \union {id} /\ With(f, id, t)[id] = t
        /\ \A i \in DOMAIN f : i # id => With(f, id, t)[i] = f[i]
    BY DEF With
  <2> QED
    BY <2>1, <2>2
<1>8. Keeps /\ session'[t] = t /\ temp'[t] = id
      /\ \A u \in Turns \ {t} : session'[u] = session[u] /\ temp'[u] = temp[u]
  BY DEF Keeps, Types
<1>9. Known(id)'
  <2>1. CASE id = Fresh(t)
    BY <1>8, <2>1 DEF Known, Fresh
  <2>2. CASE Known(id)
    BY <1>8, <2>2, KnownStays
  <2> QED
    BY <2>1, <2>2
<1>10. \A i \in Ids : Known(i) => Known(i)'
  BY <1>8, KnownStays
<1>11. /\ \A i \in DOMAIN pending : pending[i] # t
       /\ \A i \in DOMAIN sessions : sessions[i] # t
  BY <1>2, IdFacts DEF SessionsSound
<1>12. MapsTyped'
  BY <1>1, <1>7, PartialFacts DEF MapsTyped
<1>13. SessionsSound'
  <2>1. ASSUME NEW i \in DOMAIN pending'
        PROVE  /\ Known(i)' /\ session'[pending'[i]] = pending'[i]
               /\ TreeOf[pending'[i]] = IdTree(i)
               /\ \A j \in DOMAIN pending' : pending'[j] = pending'[i] => j = i
               /\ \A j \in DOMAIN sessions' : sessions'[j] # pending'[i]
    <3>1. CASE i = id
      BY <1>7, <1>8, <1>9, <1>11, <3>1
    <3>2. CASE i # id
      <4>1. i \in DOMAIN pending /\ pending'[i] = pending[i] /\ pending[i] # t
        BY <1>7, <1>11, <3>2
      <4> QED
        BY <1>1, <1>2, <1>7, <1>8, <1>10, <4>1 DEF SessionsSound
    <3> QED
      BY <3>1, <3>2
  <2>2. ASSUME NEW i \in DOMAIN sessions
        PROVE  /\ Known(i)' /\ session'[sessions[i]] = sessions[i]
               /\ TreeOf[sessions[i]] = IdTree(i)
               /\ \A j \in DOMAIN sessions : sessions[j] = sessions[i] => j = i
    BY <1>1, <1>2, <1>8, <1>10, <1>11 DEF SessionsSound
  <2>3. \A u \in Turns : temp'[u] \notin DOMAIN sessions
    BY <1>2, <1>5, <1>8 DEF SessionsSound
  <2> QED
    BY <2>1, <2>2, <2>3 DEF SessionsSound, IdTree
<1>14. ASSUME NEW i \in DOMAIN temp_to_real
       PROVE  /\ Known(i)' /\ Known(temp_to_real[i])'
              /\ IdTree(temp_to_real[i]) = IdTree(i)
              /\ \E j \in DOMAIN real_to_temp : real_to_temp[j] = i
  <2>1. PICK k \in Ids : k = temp_to_real[i]
    BY <1>1
  <2>2. Known(i)' /\ Known(k)'
    BY <1>1, <1>2, <1>10, <2>1 DEF IdsSound
  <2>3. Known(temp_to_real[i])'
    BY <2>1, <2>2 DEF Known
  <2> QED
    BY <1>2, <2>2, <2>3 DEF IdsSound
<1>15. \A i \in DOMAIN real_to_temp : Known(i)' /\ (Mapped(i)' \/ i \in unmapped')
  BY <1>1, <1>2, <1>3, <1>10 DEF IdsSound
<1>16. ASSUME NEW i \in DOMAIN sessions
       PROVE  /\ i \in DOMAIN real_to_temp /\ real_to_temp[i] \in DOMAIN temp_to_real
              /\ temp_to_real[real_to_temp[i]] = i
              /\ real_to_temp[i] \notin DOMAIN pending'
              /\ i \notin DOMAIN pending' \union DOMAIN temp_to_real
  BY <1>2, <1>3, <1>5, <1>6, <1>7 DEF IdsSound
<1>17. IdsSound'
  BY <1>3, <1>14, <1>15, <1>16 DEF IdsSound, IdTree, Known
<1> QED
  BY <1>12, <1>13, <1>17 DEF MapsSound

\* What the turn gets, session s under id, and what becomes of the maps.
Gets(t, s, id) ==
    /\ session' = [session EXCEPT ![t] = s] /\ TreeOf[s] = TreeOf[t]
    /\ cli_lock' = [cli_lock EXCEPT ![s] = IF @ = None THEN t ELSE @]
    /\ Filed(s, id)' /\ Known(id)' /\ IdTree(id) = TreeOf[t]
    /\ \/ temp' = [temp EXCEPT ![t] = id] /\ captured' = captured /\ s = t
       \/ /\ captured' = [captured EXCEPT ![t] = id] /\ temp' = temp
          /\ id \in DOMAIN pending \union DOMAIN sessions
    /\ DOMAIN pending' \subseteq DOMAIN pending \union {id}
    /\ DOMAIN sessions' = DOMAIN sessions
    /\ \A r \in Turns, i \in Ids :
          Filed(r, i) /\ IdTree(i) # TreeOf[t] => Filed(r, i)'

LEMMA CreateFacts ==
    ASSUME Inv, NEW t \in Turns, NEW parent \in Ids \union {None}, OfTurn(t, parent),
           stage[t] \in {"idle", "wants"}, Holds(t) \/ lock = <<>>, GetOrCreate(t, parent),
           UNCHANGED <<removing, unremoved, unmapped>>
    PROVE  /\ stage' = [stage EXCEPT ![t] = "spawning"]
           /\ \E s \in Turns, id \in Ids : Gets(t, s, id)
           /\ MapsSound'
<1> USE DEF Inv
<1>1. /\ DOMAIN pending \subseteq Ids /\ DOMAIN sessions \subseteq Ids
      /\ DOMAIN temp_to_real \subseteq Ids
      /\ \A i \in DOMAIN pending : pending[i] \in Turns
      /\ \A i \in DOMAIN sessions : sessions[i] \in Turns
      /\ \A i \in DOMAIN temp_to_real : temp_to_real[i] \in Ids
  BY PartialFacts DEF MapsSound, MapsTyped
<1>2. SessionsSound /\ IdsSound
  BY DEF MapsSound
<1>3. session[t] = None /\ temp[t] = None /\ captured[t] = None
  BY DEF TurnSound
<1>10. PICK k : k = IF parent \in DOMAIN temp_to_real THEN temp_to_real[parent] ELSE parent
  OBVIOUS
<1>4. k \in Ids \union {None} /\ (k # None => IdTree(k) = TreeOf[t] /\ Known(k))
  <2>1. CASE parent \in DOMAIN temp_to_real
    <3>1. IdTree(k) = IdTree(parent) /\ Known(k) /\ parent \in Ids /\ k \in Ids
      BY <1>1, <1>2, <1>10, <2>1 DEF IdsSound
    <3> QED
      BY <3>1, IdFacts DEF OfTurn
  <2>2. CASE parent \notin DOMAIN temp_to_real
    BY <1>10, <2>2 DEF OfTurn
  <2> QED
    BY <2>1, <2>2
<1>5. stage' = [stage EXCEPT ![t] = "spawning"] /\ UNCHANGED <<sessions, temp_to_real, real_to_temp>>
  BY DEF GetOrCreate, EntersTask
<1>6. \A u \in Turns : stage[u] # "removing" /\ stage'[u] # "removing"
  <2>1. \A u \in Turns : stage[u] # "removing"
    BY NobodyRemoves
  <2> QED
    BY <1>5, <2>1 DEF Types
<1>7. ASSUME NEW s, k \in DOMAIN pending \union DOMAIN sessions, Filed(s, k),
             session' = [session EXCEPT ![t] = s], captured' = [captured EXCEPT ![t] = k],
             UNCHANGED <<temp, pending>>
      PROVE  /\ s \in Turns /\ TreeOf[s] = TreeOf[t] /\ k \in Ids
             /\ Filed(s, k)' /\ Known(k)' /\ MapsSound'
             /\ \A r, id : Filed(r, id) => Filed(r, id)'
  <2>1. s \in Turns /\ k \in Ids /\ TreeOf[s] = IdTree(k) /\ Known(k)
    BY <1>1, <1>2, <1>7 DEF Filed, SessionsSound
  <2>2. k # None
    BY <2>1, IdFacts
  <2>3. Keeps /\ MapsShrink
    BY <1>3, <1>5, <1>7 DEF Keeps, MapsShrink, Types
  <2>4. Known(k)'
    BY <2>1, <2>3, KnownStays
  <2>5. \A r, id : Filed(r, id) => Filed(r, id)'
    BY <1>5, <1>7 DEF Filed
  <2>6. PartialTo(pending, Ids, Turns)' /\ PartialTo(sessions, Ids, Turns)' /\ SessionsSound'
    BY <1>6, <1>7, <2>3, SessionsShrink
  <2>7. \A i : Mapped(i)' <=> Mapped(i)
    BY <1>5, <1>6 DEF Mapped
  <2>8. PartialTo(temp_to_real, Ids, Ids)' /\ PartialTo(real_to_temp, Ids, Ids)' /\ IdsSound'
    BY <1>5, <1>7, <2>3, <2>7, IdsStay
  <2>9. MapsSound'
    BY <2>6, <2>8 DEF MapsSound, MapsTyped
  <2> QED
    BY <1>4, <1>7, <2>1, <2>2, <2>4, <2>5, <2>9
<1>8. ASSUME NEW s, k \in DOMAIN pending \union DOMAIN sessions, Filed(s, k),
             session' = [session EXCEPT ![t] = s], captured' = [captured EXCEPT ![t] = k],
             EntersTask(t, s), UNCHANGED <<temp, pending>>
      PROVE  (\E r \in Turns, id \in Ids : Gets(t, r, id)) /\ MapsSound'
  <2>1. /\ s \in Turns /\ TreeOf[s] = TreeOf[t] /\ k \in Ids
        /\ Filed(s, k)' /\ Known(k)' /\ MapsSound'
        /\ \A r, id : Filed(r, id) => Filed(r, id)'
    BY <1>7, <1>8
  <2>2. IdTree(k) = TreeOf[t]
    BY <1>4, <2>1, IdFacts
  <2>3. Gets(t, s, k)
    BY <1>5, <1>8, <2>1, <2>2 DEF Gets, EntersTask
  <2> QED
    BY <2>1, <2>3
<1>9. ASSUME k \notin DOMAIN pending \union DOMAIN sessions, NEW id, id = TempId(t, parent),
             session' = [session EXCEPT ![t] = t], temp' = [temp EXCEPT ![t] = id],
             pending' = With(pending, id, t), EntersTask(t, t), UNCHANGED captured
      PROVE  (\E r \in Turns, i \in Ids : Gets(t, r, i)) /\ MapsSound'
  <2>1. id \in Ids /\ IdTree(id) = TreeOf[t]
    BY <1>9, IdFacts DEF TempId, OfTurn
  <2>2. \/ id = Fresh(t)
        \/ /\ Known(id) /\ id \notin DOMAIN sessions
           /\ id \in DOMAIN temp_to_real => temp_to_real[id] \notin DOMAIN sessions
    <3>1. CASE parent = None
      BY <1>9, <3>1 DEF TempId
    <3>2. CASE parent # None
      <4>1. id = parent /\ Known(id)
        BY <1>9, <3>2 DEF TempId, OfTurn
      <4>2. id \in DOMAIN temp_to_real => k = temp_to_real[id] /\ ~Mapped(id)
        BY <1>2, <1>10, <4>1 DEF IdsSound
      <4>3. id \notin DOMAIN temp_to_real => k = id
        BY <1>10, <4>1
      <4> QED
        BY <1>9, <4>1, <4>2, <4>3 DEF Mapped
    <3> QED
      BY <3>1, <3>2
  <2>3. MapsSound'
    BY <1>3, <1>5, <1>6, <1>9, <2>1, <2>2, NewMaps
  <2>4. Known(id)'
    <3>1. Keeps /\ session'[t] = t
      BY <1>3, <1>9 DEF Keeps, Types
    <3>2. CASE id = Fresh(t)
      BY <3>1, <3>2 DEF Known, Fresh
    <3>3. CASE Known(id)
      BY <2>1, <3>1, <3>3, KnownStays
    <3> QED
      BY <2>2, <3>2, <3>3
  <2>5. /\ DOMAIN pending' = DOMAIN pending \union {id} /\ pending'[id] = t
        /\ \A i \in DOMAIN pending : i # id => pending'[i] = pending[i]
    <3>1. PICK f : f = pending
      OBVIOUS
    <3>2. /\ DOMAIN With(f, id, t) = DOMAIN f \union {id} /\ With(f, id, t)[id] = t
          /\ \A i \in DOMAIN f : i # id => With(f, id, t)[i] = f[i]
      BY DEF With
    <3> QED
      BY <1>9, <3>1, <3>2
  <2>6. Filed(t, id)' /\ \A r, i : Filed(r, i) /\ IdTree(i) # TreeOf[t] => Filed(r, i)'
    BY <1>5, <2>1, <2>5 DEF Filed
  <2>7. Gets(t, t, id)
    BY <1>5, <1>9, <2>1, <2>4, <2>5, <2>6 DEF Gets, EntersTask
  <2> QED
    BY <2>1, <2>3, <2>7
<1> QED
  <2>1. CASE k \in DOMAIN sessions
    <3>1. PICK s : s = sessions[k]
      OBVIOUS
    <3>2. /\ session' = [session EXCEPT ![t] = s] /\ captured' = [captured EXCEPT ![t] = k]
          /\ EntersTask(t, s) /\ UNCHANGED <<temp, pending>>
      BY <1>10, <2>1, <3>1 DEF GetOrCreate
    <3> QED
      BY <1>5, <1>8, <2>1, <3>1, <3>2 DEF Filed
  <2>2. CASE k \in DOMAIN pending \ DOMAIN sessions
    <3>1. PICK s : s = pending[k]
      OBVIOUS
    <3>2. /\ session' = [session EXCEPT ![t] = s] /\ captured' = [captured EXCEPT ![t] = k]
          /\ EntersTask(t, s) /\ UNCHANGED <<temp, pending>>
      BY <1>10, <2>2, <3>1 DEF GetOrCreate
    <3> QED
      BY <1>5, <1>8, <2>2, <3>1, <3>2 DEF Filed
  <2>3. CASE k \notin DOMAIN pending \union DOMAIN sessions
    <3>1. PICK id : id = TempId(t, parent)
      OBVIOUS
    <3>2. /\ session' = [session EXCEPT ![t] = t] /\ temp' = [temp EXCEPT ![t] = id]
          /\ pending' = With(pending, id, t) /\ EntersTask(t, t) /\ UNCHANGED captured
      BY <1>10, <2>3, <3>1 DEF GetOrCreate
    <3> QED
      BY <1>5, <1>9, <2>3, <3>1, <3>2
  <2> QED
    BY <2>1, <2>2, <2>3

LEMMA CreateStep ==
    ASSUME Inv, NEW t \in Turns, NEW parent \in Ids \union {None}, OfTurn(t, parent),
           stage[t] \in {"idle", "wants"}, Holds(t) \/ lock = <<>>, GetOrCreate(t, parent),
           resume' \in {resume, [resume EXCEPT ![t] = parent]},
           UNCHANGED <<recorded, removing, nodeVars, cleared, process, proc, stopVars,
                       unremoved, unmapped>>,
           LockSound', KeepsOrder(t), beside' \in {beside, beside \union {t}},
           current' \in [Trees -> Turns \union {None}], task' \in [Trees -> Turns \union {None}],
           \A u \in Turns : TreeOf[u] # TreeOf[t] =>
              current'[TreeOf[u]] = current[TreeOf[u]] /\ task'[TreeOf[u]] = task[TreeOf[u]],
           t \notin beside' =>
              /\ current'[TreeOf[t]] = t /\ task'[TreeOf[t]] = t /\ TreeOf[t] \notin cleared
              /\ \A u \in Turns : Mates(t, u) => ~Begun(u),
           \A u \in Turns \ beside : Mates(u, t) => ~Coming(u) /\ (Working(u) => ShutDown),
           \A c \in Stops : stop[c] \in {"waits", "stops"} /\ OfCommand(c) => t \in beside'
    PROVE  Inv'
<1> USE DEF Inv
<1>1. /\ stage' = [stage EXCEPT ![t] = "spawning"] /\ MapsSound'
      /\ \E s \in Turns, id \in Ids : Gets(t, s, id)
  BY CreateFacts
<1>2. PICK s \in Turns, id \in Ids : Gets(t, s, id)
  BY <1>1
<1>3. session[t] = None /\ temp[t] = None /\ captured[t] = None /\ recorded[t] = None /\ proc[t] = "none"
  BY DEF TurnSound, ProcSound
<1>4. /\ stage'[t] = "spawning" /\ session'[t] = s /\ TreeOf[s] = TreeOf[t]
      /\ \/ temp'[t] = id /\ captured'[t] = None /\ s = t
         \/ temp'[t] = None /\ captured'[t] = id
      /\ Known(id)' /\ IdTree(id) = TreeOf[t]
      /\ \A u \in Turns \ {t} : /\ stage'[u] = stage[u] /\ session'[u] = session[u]
                                /\ temp'[u] = temp[u] /\ captured'[u] = captured[u]
  BY <1>1, <1>2, <1>3 DEF Gets, Types
<1>5. Keeps
  BY <1>3, <1>4 DEF Keeps
<1>6. Handle(t)' = id /\ \A u \in Turns \ {t} : Handle(u)' = Handle(u)
  BY <1>4, IdFacts DEF Handle
<1>7. Types'
  <2>1. /\ session' \in [Turns -> Turns \union {None}] /\ cli_lock' \in [Turns -> Turns \union {None}]
        /\ temp' \in [Turns -> Ids \union {None}] /\ captured' \in [Turns -> Ids \union {None}]
    BY <1>2 DEF Gets, Types
  <2>2. stage' \in [Turns -> Stages] /\ resume' \in [Turns -> Ids \union {None}]
    BY <1>1 DEF Types, Stages
  <2>3. beside' \subseteq Turns
    BY DEF Types
  <2> QED
    BY <2>1, <2>2, <2>3 DEF Types, nodeVars, stopVars
<1>8. TurnSound'
  <2>1. ASSUME NEW u \in Turns, NEW i \in Ids \union {None}, OfTurn(u, i)
        PROVE  OfTurn(u, i)'
    <3>1. i # None => Known(i)'
      BY <1>5, <2>1, KnownStays DEF OfTurn
    <3> QED
      BY <2>1, <3>1 DEF OfTurn, IdTree
  <2>2. ASSUME NEW u \in Turns, NEW i, i = resume'[u] \/ i = temp'[u] \/ i = captured'[u] \/ i = recorded'[u]
        PROVE  OfTurn(u, i)'
    <3>1. i \in Ids \union {None}
      BY <1>7, <2>2 DEF Types
    <3>2. CASE i = id /\ u = t
      BY <1>4, <3>2 DEF OfTurn, IdTree
    <3>3. CASE i = None
      BY <3>3 DEF OfTurn
    <3>4. CASE OfTurn(u, i)
      BY <2>1, <3>1, <3>4
    <3>5. (i = id /\ u = t) \/ i = None \/ OfTurn(u, i)
      <4>1. u # t => OfTurn(u, i)
        BY <1>4, <2>2 DEF TurnSound, Types
      <4>2. u = t => i = id \/ i = None \/ OfTurn(t, i)
        BY <1>3, <1>4, <2>2 DEF TurnSound, Types
      <4> QED
        BY <4>1, <4>2
    <3> QED
      BY <3>2, <3>3, <3>4, <3>5
  <2>3. ASSUME NEW u \in Turns
        PROVE  /\ OfTurn(u, resume[u])' /\ OfTurn(u, temp[u])'
               /\ OfTurn(u, captured[u])' /\ OfTurn(u, recorded[u])'
    <3>1. PICK i, j, k, l : i = resume'[u] /\ j = temp'[u] /\ k = captured'[u] /\ l = recorded'[u]
      OBVIOUS
    <3>2. OfTurn(u, i)' /\ OfTurn(u, j)' /\ OfTurn(u, k)' /\ OfTurn(u, l)'
      BY <2>2, <3>1
    <3> QED
      BY <3>1, <3>2 DEF OfTurn, Known, IdTree
  <2>4. ASSUME NEW u \in Turns
        PROVE  /\ stage'[u] \in {"idle", "wants"} => session'[u] = None
               /\ Begun(u)' /\ stage'[u] # "wants" => session'[u] # None
               /\ session'[u] = None => temp'[u] = None /\ captured'[u] = None /\ recorded'[u] = None
               /\ session'[u] # None => /\ ~(temp'[u] = None <=> captured'[u] = None)
                                        /\ TreeOf[session'[u]] = TreeOf[u]
               /\ temp'[u] # None => session'[u] = u
               /\ stage'[u] = "registers" => temp'[u] # None
               /\ stage'[u] = "removing" => removing'[u] \in Removal
    <3>1. CASE u = t
      BY <1>4, <3>1, IdFacts
    <3>2. CASE u # t
      BY <1>4, <3>2 DEF TurnSound, Begun
    <3> QED
      BY <3>1, <3>2
  <2> QED
    BY <2>3, <2>4 DEF TurnSound
<1>9. StopsInOrder'
  <2>1. \A c \in Stops : c # t /\ c \in Turns \union Stops
    BY StopsAssumption DEF Stops
  <2> QED
    BY <2>1 DEF StopsInOrder, KeepsOrder, stopVars, InLine, Ahead
<1>10. \A u \in Turns : u # t => (Begun(u)' <=> Begun(u)) /\ (Coming(u)' <=> Coming(u))
  BY <1>4 DEF Begun, Coming, nodeVars
<1>11. Alone'
  <2> SUFFICES ASSUME NEW u \in Turns, u \notin beside', Coming(u)'
               PROVE  /\ current'[TreeOf[u]] = u /\ task'[TreeOf[u]] = u
                      /\ TreeOf[u] \notin cleared
                      /\ \A v \in Turns : Mates(u, v) => ~Begun(v)'
    BY DEF Alone
  <2>1. CASE u = t
    BY <1>10, <2>1 DEF Mates
  <2>2. CASE u # t
    <3>1. Coming(u) /\ u \notin beside
      BY <1>10, <2>2
    <3>2. TreeOf[u] # TreeOf[t]
      BY <2>2, <3>1 DEF Mates
    <3>3. \A v \in Turns : Mates(u, v) => v # t /\ ~Begun(v)
      BY <3>1, <3>2 DEF Alone, Mates
    <3> QED
      BY <1>10, <3>1, <3>2, <3>3 DEF Alone
  <2> QED
    BY <2>1, <2>2
<1>12. Owned'
  <2>1. Owns(t, id)'
    BY <1>4, <1>6 DEF Owns
  <2>2. ASSUME NEW i \in DOMAIN pending \union DOMAIN sessions, NEW u \in Turns, Owns(u, i)
        PROVE  Owns(u, i)'
    BY <1>4, <1>6, <2>2 DEF Owns
  <2>3. \A i \in DOMAIN pending' \union DOMAIN sessions' : i = id \/ i \in DOMAIN pending \union DOMAIN sessions
    BY <1>2 DEF Gets
  <2> QED
    BY <2>1, <2>2, <2>3 DEF Owned
<1>13. SessionsUnshared'
  <2>1. ASSUME NEW u \in Turns, u # t
        PROVE  session'[u] \in {None, u} \/ u \in beside' \/ captured'[u] \in unremoved
    BY <1>4, <2>1 DEF SessionsUnshared
  <2>2. s = t \/ t \in beside' \/ captured'[t] \in unremoved
    <3>1. CASE captured'[t] = id /\ id \in DOMAIN pending \union DOMAIN sessions
      <4>1. ASSUME NEW u \in Turns, Owns(u, id)
            PROVE  Mates(t, u) /\ Begun(u)
        BY <4>1, HandleFacts, IdFacts, <1>4 DEF Owns, Mates, Begun
      <4> QED
        BY <3>1, <4>1 DEF Owned
    <3>2. CASE s = t
      BY <3>2
    <3> QED
      BY <1>2, <1>4, <3>1, <3>2 DEF Gets
  <2> QED
    BY <1>4, <2>1, <2>2 DEF SessionsUnshared
<1>14. ShutDown' = ShutDown /\ \A c : OfCommand(c)' = OfCommand(c)
  BY DEF ShutDown, Stopping, OfCommand, stopVars
<1>15. ProcSound'
  <2>1. ASSUME NEW u \in Turns, proc[u] = "alive"
        PROVE  u # t /\ session'[u] = session[u] /\ cli_lock'[session[u]] = u
    <3>1. u # t /\ session'[u] = session[u]
      BY <1>3, <1>4, <2>1
    <3>2. session[u] \in Turns /\ cli_lock[session[u]] = u /\ u # None
      BY <2>1, IdFacts DEF ProcSound, Types
    <3> QED
      BY <1>2, <3>1, <3>2 DEF Gets, Types
  <2> QED
    BY <1>3, <1>4, <2>1 DEF ProcSound
<1>16. EndSound'
  BY <1>3, <1>4 DEF EndSound, nodeVars
<1>17. Guarded'
  <2> SUFFICES ASSUME NEW u \in Turns, u \notin beside', Working(u)', ~ShutDown
               PROVE  InMaps(u)' /\ Undisturbed(u)'
    BY <1>14 DEF Guarded
  <2>1. CASE u = t
    <3>1. InMaps(t)'
      BY <1>2, <1>4, <1>6 DEF InMaps, Gets, Filed
    <3>2. Unrivalled(t)'
      BY <1>4, <1>10, <2>1 DEF Unrivalled, Mates
    <3> QED
      BY <2>1, <3>1, <3>2 DEF Undisturbed
  <2>2. CASE u # t
    <3>1. Working(u) /\ u \notin beside
      BY <1>4, <2>2 DEF Working, nodeVars
    <3>2. InMaps(u) /\ Undisturbed(u) /\ ~Mates(u, t)
      BY <3>1 DEF Guarded
    <3>3. TreeOf[u] # TreeOf[t]
      BY <2>2, <3>2 DEF Mates
    <3>4. InMaps(u)'
      <4>1. session[u] # None
        BY <3>1 DEF ProcSound, Working, TurnSound, Begun
      <4>2. session[u] \in Turns /\ Handle(u) \in Ids /\ IdTree(Handle(u)) # TreeOf[t]
        BY <3>3, <4>1, HandleFacts DEF Types
      <4>3. PICK r \in Turns, i \in Ids : r = session[u] /\ i = Handle(u)
        BY <4>2
      <4>4. Filed(r, i)'
        BY <1>2, <3>2, <4>2, <4>3 DEF Gets, InMaps
      <4> QED
        BY <1>4, <1>6, <2>2, <4>3, <4>4 DEF InMaps, Filed
    <3>5. \A v \in Turns : Mates(u, v) => v # t
      BY <3>3 DEF Mates
    <3>6. Unrivalled(u) => Unrivalled(u)'
      BY <1>4, <1>10, <2>2, <3>3, <3>5 DEF Unrivalled, nodeVars, Mates
    <3>7. ASSUME NEW c \in Stops, StopComes(u, c)
          PROVE  StopComes(u, c)'
      <4>1. \A v \in Turns : v # t => (Ahead(c, v)' <=> Ahead(c, v))
        <5>1. c # t
          BY StopsAssumption DEF Stops
        <5> QED
          BY <5>1 DEF KeepsOrder, Ahead
      <4>2. \A v \in Turns : Mates(u, v) /\ Begun(v)' => stage'[v] = "wants" /\ Ahead(c, v)'
        BY <1>4, <1>10, <3>5, <3>7, <4>1 DEF StopComes
      <4> QED
        BY <1>14, <3>7, <4>2 DEF StopComes, Mates, stopVars
    <3> QED
      BY <3>2, <3>4, <3>6, <3>7 DEF Undisturbed
  <2> QED
    BY <2>1, <2>2
<1>18. StopSound'
  <2> SUFFICES ASSUME NEW c \in Stops
               PROVE  /\ \A u \in before[c] : proc[u] # "none"
                      /\ stop[c] = "stops" =>
                            \A u \in before[c] \ beside' :
                                proc[u] = "alive" => session'[u] \in victims[c]
                      /\ stop[c] \in {"waits", "stops"} /\ OfCommand(c) =>
                            \A u \in Turns \ beside' :
                              /\ stage'[u] = "spawning" => u \in cancel
                              /\ stage'[u] = "wants" /\ Ahead(u, c)' => u \in cancel
                              /\ stop[c] = "stops" /\ proc[u] = "alive"
                                    => session'[u] \in victims[c]
    BY <1>14 DEF StopSound, stopVars, nodeVars
  <2>1. before[c] \subseteq Turns /\ c # t
    BY StopsAssumption DEF Types, Stops
  <2>2. \A u \in Turns : u # t => (Ahead(u, c)' <=> Ahead(u, c))
    BY <2>1 DEF KeepsOrder, Ahead
  <2>3. stop[c] \in {"waits", "stops"} /\ OfCommand(c) => t \in beside'
    OBVIOUS
  <2>4. ASSUME NEW u \in Turns, u \notin beside', u # t
        PROVE  u \notin beside /\ stage'[u] = stage[u] /\ session'[u] = session[u]
    BY <1>4, <2>4
  <2>5. proc[t] # "alive"
    BY <1>3
  <2>6. \A u \in before[c] : proc[u] # "none"
    BY DEF StopSound
  <2>7. ASSUME NEW u \in Turns, u \notin beside', proc[u] = "alive", stop[c] = "stops",
               u \in before[c] \/ OfCommand(c)
        PROVE  session'[u] \in victims[c]
    BY <2>4, <2>5, <2>7 DEF StopSound
  <2>8. ASSUME stop[c] \in {"waits", "stops"}, OfCommand(c), NEW u \in Turns, u \notin beside'
        PROVE  /\ stage'[u] = "spawning" => u \in cancel
               /\ stage'[u] = "wants" /\ Ahead(u, c)' => u \in cancel
    BY <2>2, <2>3, <2>4, <2>8 DEF StopSound
  <2> QED
    BY <2>1, <2>6, <2>7, <2>8
<1>19. StopAllKills'
  BY DEF StopAllKills, stopVars
<1> QED
  BY <1>1, <1>7, <1>8, <1>9, <1>11, <1>12, <1>13, <1>15, <1>16, <1>17, <1>18, <1>19
-----------------------------------------------------------------------------
(* Steps of a turn on its way to a session. *)

LEMMA GetsLockStep ==
    ASSUME Inv, NEW t \in Turns, GetsLock(t)
    PROVE  Inv'
<1> USE DEF Inv
<1>1. /\ stage[t] = "wants" /\ Holds(t) /\ t \notin cancel /\ GetOrCreate(t, resume[t])
      /\ lock' = Tail(lock)
      /\ UNCHANGED <<resume, recorded, removing, nodeVars, treeVars, process, proc, stopVars,
                     histVars>>
  BY DEF GetsLock
<1>2. PICK parent \in Ids \union {None} : parent = resume[t]
  BY DEF Types
<1>3. OfTurn(t, parent) /\ GetOrCreate(t, parent) /\ resume' = resume
  BY <1>1, <1>2 DEF TurnSound
<1>4. stage' = [stage EXCEPT ![t] = "spawning"]
  BY <1>1 DEF GetOrCreate, EntersTask
<1>5. LineWithout(t, Tail(lock))
  BY <1>1, LineWithoutLeft
<1>6. Requeues(t) /\ ~Occurs(lock', t)
  <2>1. PICK q : q = Tail(lock)
    OBVIOUS
  <2> QED
    BY <1>1, <1>5, <2>1, LineChanges
<1>7. LockSound'
  <2>1. stop' = stop /\ stage'[t] = "spawning" /\ \A u \in Turns \ {t} : stage'[u] = stage[u]
    BY <1>1, <1>4 DEF Types, stopVars
  <2> QED
    BY <1>6, <2>1, TurnKeepsLock
<1>8. Coming(t) /\ Begun(t)
  BY <1>1 DEF Coming, Begun
<1>9. \A c \in Stops : ~Ahead(c, t) /\ (InLine(c) => Ahead(t, c))
  <2>1. lock \in Seq(Turns \union Stops) /\ Distinct(lock) /\ lock # <<>> /\ Head(lock) = t
    BY <1>1 DEF LockSound, Holds
  <2>2. \A c \in Stops : c # t
    BY StopsAssumption DEF Stops
  <2> QED
    BY <2>1, <2>2, HeadOrder DEF Ahead, InLine
<1>10. ASSUME NEW u \in Turns \ beside, Mates(u, t)
       PROVE  ~Coming(u) /\ (Working(u) => ShutDown)
  <2>1. ~Coming(u)
    BY <1>8, <1>10 DEF Alone
  <2>2. ~Undisturbed(u)
    BY <1>8, <1>9, <1>10 DEF Undisturbed, Unrivalled, StopComes
  <2> QED
    BY <2>1, <2>2 DEF Guarded
<1>11. ASSUME NEW c \in Stops, stop[c] \in {"waits", "stops"}, OfCommand(c)
       PROVE  t \in beside
  BY <1>1, <1>9, <1>11 DEF StopSound, LockSound
<1>12. t \notin beside =>
        /\ current[TreeOf[t]] = t /\ task[TreeOf[t]] = t /\ TreeOf[t] \notin cleared
        /\ \A u \in Turns : Mates(t, u) => ~Begun(u)
  BY <1>8 DEF Alone
<1>13. /\ UNCHANGED <<recorded, removing, nodeVars, cleared, process, proc, stopVars,
                      unremoved, unmapped>>
       /\ beside' = beside /\ current' = current /\ task' = task
       /\ current \in [Trees -> Turns \union {None}] /\ task \in [Trees -> Turns \union {None}]
  BY <1>1 DEF treeVars, histVars, Types
<1> QED
  BY <1>1, <1>3, <1>6, <1>7, <1>10, <1>11, <1>12, <1>13, CreateStep DEF Requeues

\* What a start looks up, and whom it finds in its tree.
LEMMA StartFacts ==
    ASSUME Inv, NEW t \in Turns, Start(t)
    PROVE  /\ stage[t] = "idle" /\ TreeOf[t] \notin cleared /\ current[TreeOf[t]] = None
           /\ current' = [current EXCEPT ![TreeOf[t]] = t] /\ current'[TreeOf[t]] = t
           /\ task' = [task EXCEPT ![TreeOf[t]] = t] /\ task'[TreeOf[t]] = t
           /\ current' \in [Trees -> Turns \union {None}]
           /\ task' \in [Trees -> Turns \union {None}]
           /\ \A u \in Turns : TreeOf[u] # TreeOf[t] =>
                 current'[TreeOf[u]] = current[TreeOf[u]] /\ task'[TreeOf[u]] = task[TreeOf[u]]
           /\ beside' \in {beside, beside \union {t}}
           /\ t \notin beside' => \A u \in Turns : Mates(t, u) => ~Begun(u)
           /\ \E parent \in Ids \union {None} :
                /\ OfTurn(t, parent) /\ resume' = [resume EXCEPT ![t] = parent]
                /\ ~Locked => GetOrCreate(t, parent)
           /\ \A u \in Turns \ beside : Mates(u, t) => ~Coming(u) /\ ~Unrivalled(u)
<1> USE DEF Inv
<1>1. PICK parent : parent = IF ReplyTo[t] = None THEN None ELSE recorded[ReplyTo[t]]
  OBVIOUS
<1>2. /\ stage[t] = "idle" /\ TreeOf[t] \notin cleared /\ current[TreeOf[t]] = None
      /\ current' = [current EXCEPT ![TreeOf[t]] = t]
      /\ task' = [task EXCEPT ![TreeOf[t]] = t]
      /\ beside' = IF Rivals(t) = {} THEN beside ELSE beside \union {t}
      /\ resume' = [resume EXCEPT ![t] = parent]
      /\ ~Locked => GetOrCreate(t, parent)
  BY <1>1 DEF Start
<1>3. parent \in Ids \union {None} /\ OfTurn(t, parent)
  <2>1. CASE ReplyTo[t] = None
    BY <1>1, <2>1 DEF OfTurn
  <2>2. CASE ReplyTo[t] # None
    <3>1. PICK p \in Turns : p = ReplyTo[t] /\ TreeOf[p] = TreeOf[t]
      BY <2>2, ReplyAssumption
    <3>2. parent = recorded[p]
      BY <1>1, <2>2, <3>1
    <3> QED
      BY <3>1, <3>2 DEF Types, TurnSound, OfTurn
  <2> QED
    BY <2>1, <2>2
<1>4. /\ current'[TreeOf[t]] = t /\ task'[TreeOf[t]] = t
      /\ current' \in [Trees -> Turns \union {None}] /\ task' \in [Trees -> Turns \union {None}]
      /\ \A u \in Turns : TreeOf[u] # TreeOf[t] =>
            current'[TreeOf[u]] = current[TreeOf[u]] /\ task'[TreeOf[u]] = task[TreeOf[u]]
  BY <1>2, TreeFacts DEF Types
<1>5. t \notin beside' => \A u \in Turns : Mates(t, u) => ~Begun(u)
  <2>1. \A u \in Turns : Mates(t, u) /\ Begun(u) => u \in Rivals(t)
    BY DEF Mates, Rivals
  <2> QED
    BY <1>2, <2>1
<1>6. ASSUME NEW u \in Turns \ beside, Mates(u, t)
      PROVE  ~Coming(u) /\ ~Unrivalled(u)
  <2>1. TreeOf[u] \notin cleared /\ current[TreeOf[u]] # u
    BY <1>2, <1>6, IdFacts DEF Mates
  <2> QED
    BY <2>1 DEF Alone, Unrivalled
<1>7. beside' \in {beside, beside \union {t}}
  BY <1>2
<1> QED
  BY <1>2, <1>3, <1>4, <1>5, <1>6, <1>7

LEMMA StartCreates ==
    ASSUME Inv, NEW t \in Turns, Start(t), ~Locked
    PROVE  Inv'
<1> USE DEF Inv
<1>1. /\ UNCHANGED <<lock, recorded, removing, nodeVars, cleared, process, proc, stopVars,
                     unremoved, unmapped>>
      /\ lock = <<>>
  BY DEF Start, Locked
<1>2. /\ stage[t] = "idle" /\ TreeOf[t] \notin cleared
      /\ current'[TreeOf[t]] = t /\ task'[TreeOf[t]] = t
      /\ current' \in [Trees -> Turns \union {None}] /\ task' \in [Trees -> Turns \union {None}]
      /\ \A u \in Turns : TreeOf[u] # TreeOf[t] =>
            current'[TreeOf[u]] = current[TreeOf[u]] /\ task'[TreeOf[u]] = task[TreeOf[u]]
      /\ beside' \in {beside, beside \union {t}}
      /\ t \notin beside' => \A u \in Turns : Mates(t, u) => ~Begun(u)
      /\ \A u \in Turns \ beside : Mates(u, t) => ~Coming(u) /\ ~Unrivalled(u)
  BY StartFacts
<1>3. PICK parent \in Ids \union {None} :
        /\ OfTurn(t, parent) /\ resume' = [resume EXCEPT ![t] = parent]
        /\ GetOrCreate(t, parent)
  BY StartFacts
<1>4. \A x : ~InLine(x)
  <2>1. DOMAIN lock = {}
    BY <1>1
  <2> QED
    BY <2>1 DEF InLine, Occurs
<1>5. \A c \in Stops : stop[c] \notin {"waits", "stops"}
  BY <1>4 DEF LockSound
<1>6. LockSound' /\ KeepsOrder(t)
  <2>1. stage' = [stage EXCEPT ![t] = "spawning"]
    BY <1>3 DEF GetOrCreate, EntersTask
  <2>2. LockSound'
    BY <1>1, <1>2, <2>1, LineStaysSound DEF Types, stopVars
  <2> QED
    BY <1>1, <2>2 DEF KeepsOrder, LockSound
<1>7. ASSUME NEW u \in Turns \ beside, Mates(u, t)
      PROVE  ~Coming(u) /\ (Working(u) => ShutDown)
  BY <1>2, <1>5, <1>7 DEF Guarded, Undisturbed, StopComes
<1> QED
  BY <1>1, <1>2, <1>3, <1>5, <1>6, <1>7, CreateStep

LEMMA StartWaits ==
    ASSUME Inv, NEW t \in Turns, Start(t), Locked
    PROVE  Inv'
<1> USE DEF Inv
<1>1. /\ UNCHANGED <<session, temp, captured, mapVars, cli_lock, recorded, removing, nodeVars,
                     cleared, process, proc, stopVars, unremoved, unmapped>>
      /\ lock' = Append(lock, t) /\ stage' = [stage EXCEPT ![t] = "wants"]
  BY DEF Start
<1>2. /\ stage[t] = "idle"
      /\ current'[TreeOf[t]] = t /\ task'[TreeOf[t]] = t /\ TreeOf[t] \notin cleared
      /\ current' \in [Trees -> Turns \union {None}] /\ task' \in [Trees -> Turns \union {None}]
      /\ \A u \in Turns : TreeOf[u] # TreeOf[t] =>
            current'[TreeOf[u]] = current[TreeOf[u]] /\ task'[TreeOf[u]] = task[TreeOf[u]]
      /\ beside' \in {beside, beside \union {t}}
      /\ t \notin beside' => \A u \in Turns : Mates(t, u) => ~Begun(u)
      /\ \A u \in Turns \ beside : Mates(u, t) => ~Coming(u) /\ ~Unrivalled(u)
  BY StartFacts
<1>3. PICK parent \in Ids \union {None} :
        OfTurn(t, parent) /\ resume' = [resume EXCEPT ![t] = parent]
  BY StartFacts
<1>4. stage'[t] = "wants" /\ \A u \in Turns \ {t} : stage'[u] = stage[u]
  BY <1>1 DEF Types
<1>5. proc[t] = "none" /\ session[t] = None /\ temp[t] = None /\ captured[t] = None
  BY <1>2 DEF ProcSound, TurnSound
<1>6. ~InLine(t)
  BY <1>2 DEF LockSound
<1>7. Requeues(t) /\ Occurs(lock', t) /\ \A x : InLine(x) => Precedes(lock', x, t)
  <2>1. PICK q : q = lock
    OBVIOUS
  <2>2. LineWithout(t, q)
    BY <1>6, <2>1, LineWithoutLeft DEF InLine
  <2>3. Requeues(t) /\ Occurs(lock', t)
    BY <1>1, <2>1, <2>2, LineChanges
  <2>4. \A x : Occurs(q, x) => Precedes(Append(q, t), x, t)
    BY <2>2, AppendOrder DEF LineWithout
  <2> QED
    BY <1>1, <2>1, <2>3, <2>4 DEF InLine
<1>8. Types'
  <2>1. stage' \in [Turns -> Stages] /\ resume' \in [Turns -> Ids \union {None}]
    BY <1>1, <1>3 DEF Types, Stages
  <2>2. beside' \subseteq Turns
    BY <1>2 DEF Types
  <2> QED
    BY <1>1, <1>2, <2>1, <2>2 DEF Types, nodeVars, stopVars
<1>9. LockSound'
  <2>1. stop' = stop
    BY <1>1 DEF stopVars
  <2> QED
    BY <1>4, <1>7, <2>1, TurnKeepsLock
<1>10. KeepsOrder(t)
  BY <1>7 DEF Requeues
<1>11. StopsInOrder'
  <2>1. \A c \in Stops : c # t /\ c \in Turns \union Stops
    BY StopsAssumption DEF Stops
  <2> QED
    BY <1>1, <1>10, <2>1 DEF StopsInOrder, KeepsOrder, stopVars, InLine, Ahead
<1>12. /\ \A u \in Turns : u # t => (Begun(u)' <=> Begun(u)) /\ (Coming(u)' <=> Coming(u))
       /\ \A u : Handle(u)' = Handle(u)
       /\ \A i : Known(i)' = Known(i)
  BY <1>1, <1>4 DEF Begun, Coming, nodeVars, Handle, Known
<1>13. TurnSound'
  <2>1. \A u, i : OfTurn(u, i)' = OfTurn(u, i)
    BY <1>12 DEF OfTurn, IdTree
  <2>3. ASSUME NEW u \in Turns
        PROVE  /\ OfTurn(u, resume[u])' /\ OfTurn(u, temp[u])'
               /\ OfTurn(u, captured[u])' /\ OfTurn(u, recorded[u])'
    <3>1. PICK i : i = resume'[u]
      OBVIOUS
    <3>2. OfTurn(u, i)
      BY <1>3, <3>1 DEF TurnSound, Types
    <3>3. OfTurn(u, i)'
      BY <2>1, <3>2
    <3>4. OfTurn(u, resume[u])'
      BY <3>1, <3>3 DEF OfTurn, Known, IdTree
    <3>5. OfTurn(u, temp[u]) /\ OfTurn(u, captured[u]) /\ OfTurn(u, recorded[u])
      BY DEF TurnSound
    <3>6. OfTurn(u, temp[u])' /\ OfTurn(u, captured[u])' /\ OfTurn(u, recorded[u])'
      BY <1>1, <3>5 DEF OfTurn, Known, IdTree
    <3> QED
      BY <3>4, <3>6
  <2>4. ASSUME NEW u \in Turns
        PROVE  /\ stage'[u] \in {"idle", "wants"} => session[u] = None
               /\ Begun(u)' /\ stage'[u] # "wants" => session[u] # None
               /\ stage'[u] = "registers" => temp[u] # None
               /\ stage'[u] = "removing" => removing[u] \in Removal
    BY <1>4, <1>5, <1>12 DEF TurnSound
  <2> QED
    BY <1>1, <2>3, <2>4 DEF TurnSound
<1>14. Alone'
  <2> SUFFICES ASSUME NEW u \in Turns, u \notin beside', Coming(u)'
               PROVE  /\ current'[TreeOf[u]] = u /\ task'[TreeOf[u]] = u
                      /\ TreeOf[u] \notin cleared
                      /\ \A v \in Turns : Mates(u, v) => ~Begun(v)'
    BY <1>1 DEF Alone
  <2>1. CASE u = t
    BY <1>2, <1>12, <2>1 DEF Mates
  <2>2. CASE u # t
    <3>1. Coming(u) /\ u \notin beside
      BY <1>2, <1>12, <2>2
    <3>2. TreeOf[u] # TreeOf[t]
      BY <1>2, <2>2, <3>1 DEF Mates
    <3>3. \A v \in Turns : Mates(u, v) => v # t /\ ~Begun(v)
      BY <3>1, <3>2 DEF Alone, Mates
    <3> QED
      BY <1>2, <1>12, <3>1, <3>2, <3>3 DEF Alone
  <2> QED
    BY <2>1, <2>2
<1>15. Owned'
  <2>1. \A u \in Turns : \A i : Owns(u, i) => Owns(u, i)'
    BY <1>2, <1>4, <1>12 DEF Owns
  <2> QED
    BY <1>1, <2>1 DEF Owned, mapVars
<1>16. MapsSound'
  <2>1. \A u \in Turns : stage'[u] = "removing" <=> stage[u] = "removing"
    BY <1>2, <1>4
  <2>2. \A i : Mapped(i)' <=> Mapped(i)
    BY <1>1, <1>12, <2>1 DEF Mapped, mapVars
  <2>3. MapsTyped'
    BY <1>1 DEF MapsSound, MapsTyped, mapVars
  <2>4. SessionsSound'
    BY <1>1, <1>12, <2>1 DEF MapsSound, SessionsSound, IdTree, mapVars
  <2>5. IdsSound'
    BY <1>1, <1>12, <2>2 DEF MapsSound, IdsSound, IdTree, mapVars, Known
  <2> QED
    BY <2>3, <2>4, <2>5 DEF MapsSound
<1>17. SessionsUnshared'
  BY <1>1, <1>2 DEF SessionsUnshared
<1>18. ProcSound' /\ EndSound'
  BY <1>1, <1>2, <1>4, <1>5 DEF ProcSound, EndSound, nodeVars
<1>19. ShutDown' = ShutDown /\ \A c : OfCommand(c)' = OfCommand(c)
  BY <1>1 DEF ShutDown, Stopping, OfCommand, stopVars
<1>20. \A c \in Stops : c # t /\ c \in Turns \union Stops
  BY StopsAssumption DEF Stops
<1>21. Guarded'
  <2> SUFFICES ASSUME NEW u \in Turns, u \notin beside', Working(u)', ~ShutDown
               PROVE  InMaps(u)' /\ Undisturbed(u)'
    BY <1>19 DEF Guarded
  <2>1. u # t
    BY <1>1, <1>4, <1>5 DEF Working
  <2>2. Working(u) /\ u \notin beside /\ stage'[u] = stage[u]
    BY <1>1, <1>2, <1>4, <2>1 DEF Working, nodeVars
  <2>3. InMaps(u) /\ Undisturbed(u)
    BY <2>2 DEF Guarded
  <2>4. InMaps(u)'
    BY <1>1, <1>12, <2>3 DEF InMaps, Filed, mapVars
  <2>5. ASSUME NEW c \in Stops, StopComes(u, c)
        PROVE  StopComes(u, c)'
    <3>1. \A v \in Turns : v # t => (Ahead(c, v)' <=> Ahead(c, v))
      BY <1>10, <1>20 DEF KeepsOrder, Ahead
    <3>2. Ahead(c, t)'
      BY <1>7, <2>5 DEF StopComes, LockSound, Ahead
    <3>3. \A v \in Turns : Mates(u, v) /\ Begun(v)' => stage'[v] = "wants" /\ Ahead(c, v)'
      BY <1>4, <1>12, <2>5, <3>1, <3>2 DEF StopComes
    <3> QED
      BY <1>1, <1>19, <2>5, <3>3 DEF StopComes, Mates, stopVars
  <2>6. ASSUME Unrivalled(u)
        PROVE  Unrivalled(u)'
    <3>1. TreeOf[u] # TreeOf[t]
      BY <1>2, <2>1, <2>2, <2>6 DEF Mates
    <3>2. \A v \in Turns : Mates(u, v) => v # t
      BY <3>1 DEF Mates
    <3> QED
      BY <1>1, <1>2, <1>12, <2>2, <2>6, <3>1, <3>2 DEF Unrivalled, Mates, nodeVars
  <2> QED
    BY <2>3, <2>4, <2>5, <2>6 DEF Undisturbed
<1>22. StopSound'
  <2> SUFFICES ASSUME NEW c \in Stops
               PROVE  /\ \A u \in before[c] : proc[u] # "none"
                      /\ stop[c] = "stops" =>
                            \A u \in before[c] \ beside' :
                                proc[u] = "alive" => session[u] \in victims[c]
                      /\ stop[c] \in {"waits", "stops"} /\ OfCommand(c) =>
                            \A u \in Turns \ beside' :
                              /\ stage'[u] = "spawning" => u \in cancel
                              /\ stage'[u] = "wants" /\ Ahead(u, c)' => u \in cancel
                              /\ stop[c] = "stops" /\ proc[u] = "alive"
                                    => session[u] \in victims[c]
    BY <1>1, <1>19 DEF StopSound, stopVars, nodeVars
  <2>1. \A u \in Turns : u # t => (Ahead(u, c)' <=> Ahead(u, c))
    BY <1>10, <1>20 DEF KeepsOrder, Ahead
  <2>2. ~Ahead(t, c)'
    BY <1>7, <1>20 DEF Requeues, Ahead
  <2>3. ASSUME NEW u \in Turns, u \notin beside', stop[c] \in {"waits", "stops"}, OfCommand(c)
        PROVE  /\ stage'[u] = "spawning" => u \in cancel
               /\ stage'[u] = "wants" /\ Ahead(u, c)' => u \in cancel
    BY <1>2, <1>4, <2>1, <2>2, <2>3 DEF StopSound
  <2>4. before[c] \subseteq Turns
    BY DEF Types
  <2> QED
    BY <1>2, <2>3, <2>4 DEF StopSound
<1>23. StopAllKills'
  BY <1>1, <1>2 DEF StopAllKills, stopVars
<1> QED
  BY <1>8, <1>9, <1>11, <1>13, <1>14, <1>15, <1>16, <1>17, <1>18, <1>21, <1>22, <1>23
-----------------------------------------------------------------------------
(* The calls of stop_all. *)

\* Only call c moves; it may cancel turns and tell processes to end.
CallMoves(c) ==
    /\ UNCHANGED <<turnVars, removing, cli_lock, process, histVars>>
    /\ TreesMove /\ cancel' \subseteq ended' /\ ended \subseteq ended'
    /\ KeepsOrder(c)
    /\ \A d \in Stops \ {c} :
          /\ stop'[d] = stop[d] /\ victims'[d] = victims[d] /\ before'[d] = before[d]
          /\ stop[d] \in {"waits", "stops"} => (OfCommand(d)' <=> OfCommand(d))
    /\ \A u \in Turns :
          /\ proc'[u] = "none" <=> proc[u] = "none"
          /\ proc'[u] = "alive" => proc[u] = "alive"

\* What StopSound and StopAllKills say of call c.
CallSound(c) ==
    /\ \A t \in before[c] : proc[t] # "none"
    /\ stop[c] \in {"stops", "done"} =>
          \A t \in before[c] \ beside :
              proc[t] = "alive" => stop[c] = "stops" /\ session[t] \in victims[c]
    /\ stop[c] \in {"waits", "stops"} /\ OfCommand(c) => \A t \in Turns \ beside :
          /\ stage[t] = "spawning" => t \in cancel
          /\ stage[t] = "wants" /\ Ahead(t, c) => t \in cancel
          /\ stop[c] = "stops" /\ proc[t] = "alive" => session[t] \in victims[c]

\* Every process that runs still has its session in the maps, out of reach of others.
NothingLost(c) ==
    \/ ShutDown'
    \/ \A u \in Turns \ beside : ~Working(u)'
    \/ /\ UNCHANGED mapVars
       /\ \A u \in Turns : Unrivalled(u) => Unrivalled(u)' \/ StopComes(u, c)'
       /\ \A u \in Turns : StopComes(u, c) => StopComes(u, c)'

LEMMA EmptyMapsSound ==
    ASSUME Inv, EmptyMaps, NEW c, Holds(c) \/ lock = <<>>, c \notin Turns,
           UNCHANGED <<turnVars, removing>>
    PROVE  MapsSound' /\ AllSessions' = {}
<1>1. /\ DOMAIN pending' = {} /\ DOMAIN sessions' = {}
      /\ DOMAIN temp_to_real' = {} /\ DOMAIN real_to_temp' = {}
      /\ Range(pending') = {} /\ Range(sessions') = {}
      /\ Range(temp_to_real') = {} /\ Range(real_to_temp') = {}
  BY EmptyFacts DEF EmptyMaps
<1>2. \A u \in Turns : stage'[u] # "removing"
  BY NobodyRemoves DEF Inv, turnVars
<1>3. \A i : ~Mapped(i)'
  BY <1>1, <1>2 DEF Mapped
<1>4. MapsTyped'
  BY <1>1 DEF MapsTyped, PartialTo
<1>5. SessionsSound'
  BY <1>1, <1>2 DEF SessionsSound
<1>6. IdsSound'
  BY <1>1, <1>3 DEF IdsSound
<1> QED
  BY <1>1, <1>4, <1>5, <1>6 DEF MapsSound, AllSessions

LEMMA StepOfCall ==
    ASSUME Inv, NEW c \in Stops, ~ShutDown, CallMoves(c), NothingLost(c), CallSound(c)',
           Types', LockSound', StopsInOrder', UNCHANGED mapVars \/ (EmptyMaps /\ MapsSound')
    PROVE  Inv'
<1> USE DEF Inv
<1>1. TurnSound' /\ SessionsUnshared'
  BY DEF TurnSound, SessionsUnshared, OfTurn, Known, IdTree, Begun, turnVars, histVars, CallMoves
<1>2. Alone'
  BY AloneStays DEF turnVars, histVars, CallMoves
<1>3. Owned'
  <2>1. CASE UNCHANGED mapVars
    BY <2>1 DEF Owned, Owns, Handle, turnVars, mapVars, histVars, CallMoves
  <2>2. CASE EmptyMaps
    <3>1. DOMAIN pending' = {} /\ DOMAIN sessions' = {}
      BY <2>2, EmptyFacts DEF EmptyMaps
    <3> QED
      BY <3>1 DEF Owned
  <2> QED
    BY <2>1, <2>2
<1>4. MapsSound'
  <2>1. CASE UNCHANGED mapVars
    <3>1. \A id : Mapped(id)' = Mapped(id) /\ Known(id)' = Known(id)
      BY <2>1 DEF Mapped, Handle, Known, turnVars, mapVars, CallMoves
    <3>2. MapsTyped'
      BY <2>1 DEF MapsSound, MapsTyped, mapVars
    <3>3. SessionsSound'
      BY <2>1, <3>1 DEF MapsSound, SessionsSound, IdTree, Handle, turnVars, mapVars, CallMoves
    <3>4. IdsSound'
      BY <2>1, <3>1 DEF MapsSound, IdsSound, IdTree, turnVars, mapVars, histVars, CallMoves, Known
    <3> QED
      BY <3>2, <3>3, <3>4 DEF MapsSound
  <2> QED
    BY <2>1
<1>5. ProcSound' /\ EndSound'
  BY DEF ProcSound, EndSound, turnVars, CallMoves
<1>6. \A d \in Stops, t \in Turns : d # c => (Ahead(d, t)' <=> Ahead(d, t)) /\ (Ahead(t, d)' <=> Ahead(t, d))
  <2>1. \A t \in Turns : t # c
    BY StopsAssumption DEF Stops
  <2> QED
    BY <2>1 DEF CallMoves, KeepsOrder, Ahead
<1>7. Guarded'
  <2> SUFFICES ASSUME NEW u \in Turns, u \notin beside, Working(u)', ~ShutDown'
               PROVE  InMaps(u)' /\ Undisturbed(u)'
    BY DEF Guarded, histVars, CallMoves
  <2>1. Working(u)
    BY DEF Working, TreesMove, turnVars, CallMoves
  <2>2. InMaps(u) /\ Undisturbed(u)
    BY <2>1 DEF Guarded
  <2>3. /\ UNCHANGED mapVars
        /\ Unrivalled(u) => Unrivalled(u)' \/ StopComes(u, c)'
        /\ StopComes(u, c) => StopComes(u, c)'
    BY DEF NothingLost
  <2>4. InMaps(u)'
    BY <2>2, <2>3 DEF InMaps, Filed, Handle, turnVars, mapVars, CallMoves
  <2>5. ASSUME NEW d \in Stops \ {c}, StopComes(u, d)
        PROVE  StopComes(u, d)'
    <3>1. \A t \in Turns : Begun(t)' = Begun(t) /\ stage'[t] = stage[t]
      BY DEF Begun, turnVars, CallMoves
    <3>2. stop'[d] = stop[d] /\ OfCommand(d)'
      BY <2>5 DEF StopComes, CallMoves
    <3> QED
      BY <1>6, <2>5, <3>1, <3>2 DEF StopComes, Mates
  <2> QED
    BY <2>2, <2>3, <2>4, <2>5 DEF Undisturbed
<1>8. StopSound'
  <2> SUFFICES ASSUME NEW d \in Stops, d # c
               PROVE  /\ \A t \in before'[d] : proc'[t] # "none"
                      /\ stop'[d] = "stops" => \A t \in before'[d] \ beside' :
                            proc'[t] = "alive" => session'[t] \in victims'[d]
                      /\ stop'[d] \in {"waits", "stops"} /\ OfCommand(d)' =>
                            \A t \in Turns \ beside' :
                              /\ stage'[t] = "spawning" => t \in cancel'
                              /\ stage'[t] = "wants" /\ Ahead(t, d)' => t \in cancel'
                              /\ stop'[d] = "stops" /\ proc'[t] = "alive"
                                    => session'[t] \in victims'[d]
    BY DEF StopSound, CallSound
  <2>1. /\ stop'[d] = stop[d] /\ victims'[d] = victims[d] /\ before'[d] = before[d]
        /\ stop[d] \in {"waits", "stops"} => (OfCommand(d)' <=> OfCommand(d))
    BY DEF CallMoves
  <2>2. before[d] \subseteq Turns
    BY DEF Types
  <2>3. stage' = stage /\ session' = session /\ beside' = beside /\ cancel \subseteq cancel'
    BY DEF CallMoves, turnVars, histVars, TreesMove
  <2>4. \A u \in Turns : (proc'[u] = "none" <=> proc[u] = "none") /\ (proc'[u] = "alive" => proc[u] = "alive")
    BY DEF CallMoves
  <2>5. /\ \A t \in before[d] : proc[t] # "none"
        /\ stop[d] = "stops" => \A t \in before[d] \ beside :
              proc[t] = "alive" => session[t] \in victims[d]
        /\ stop[d] \in {"waits", "stops"} /\ OfCommand(d) => \A t \in Turns \ beside :
              /\ stage[t] = "spawning" => t \in cancel
              /\ stage[t] = "wants" /\ Ahead(t, d) => t \in cancel
              /\ stop[d] = "stops" /\ proc[t] = "alive" => session[t] \in victims[d]
    BY DEF StopSound
  <2> QED
    BY <1>6, <2>1, <2>2, <2>3, <2>4, <2>5
<1>9. StopAllKills'
  <2> SUFFICES ASSUME NEW d \in Stops, stop'[d] = "done", NEW t \in before'[d] \ beside'
               PROVE  proc'[t] # "alive"
    BY DEF StopAllKills
  <2>1. CASE d = c
    BY <2>1 DEF CallSound
  <2>2. CASE d # c
    <3>1. stop[d] = "done" /\ before'[d] = before[d] /\ t \in Turns /\ beside' = beside
      BY <2>2 DEF CallMoves, Types, histVars
    <3> QED
      BY <3>1 DEF StopAllKills, CallMoves
  <2> QED
    BY <2>1, <2>2
<1> QED
  BY <1>1, <1>2, <1>3, <1>4, <1>5, <1>7, <1>8, <1>9

LEMMA StopsInFacts ==
    ASSUME Inv, NEW c \in Stops, NEW V \in SUBSET Turns, NEW q, StopsIn(c, V, q)
    PROVE  /\ stop' \in [Stops -> {"idle", "waits", "stops", "done", "given_up"}]
           /\ victims' \in [Stops -> SUBSET Turns]
           /\ killing' \in [Stops -> Turns \union {None}]
           /\ proc' \in [Turns -> {"none", "alive", "dying", "dead"}]
           /\ \A d \in Stops \ {c} : stop'[d] = stop[d] /\ victims'[d] = victims[d]
           /\ \A u \in Turns : /\ proc'[u] = "none" <=> proc[u] = "none"
                               /\ proc'[u] = "alive" => proc[u] = "alive"
           /\ \/ /\ stop'[c] = "stops" /\ UNCHANGED mapVars /\ lock' = <<c>> \o q
                 /\ \A u \in Turns : proc'[u] = "alive" /\ session[u] \in V
                                        => session[u] \in victims'[c]
              \/ /\ stop'[c] = "done" /\ EmptyMaps /\ lock' = q
                 /\ \A u \in Turns : proc'[u] = "alive" => session[u] \notin V
<1> USE DEF Inv
<1>1. \A u \in Turns : proc[u] = "alive" => process[session[u]] = u /\ Running(session[u])
  BY IdFacts DEF ProcSound, Running
<1>2. ASSUME NEW s \in V, NEW W \in SUBSET (V \ {s}),
             \A v \in V \ (W \union {s}) : ~Running(v), Signals({s}),
             killing' = [killing EXCEPT ![c] = process[s]],
             victims' = [victims EXCEPT ![c] = W], stop' = [stop EXCEPT ![c] = "stops"]
      PROVE  /\ stop' \in [Stops -> {"idle", "waits", "stops", "done", "given_up"}]
             /\ victims' \in [Stops -> SUBSET Turns]
             /\ killing' \in [Stops -> Turns \union {None}]
             /\ proc' \in [Turns -> {"none", "alive", "dying", "dead"}]
             /\ \A d \in Stops \ {c} : stop'[d] = stop[d] /\ victims'[d] = victims[d]
             /\ \A u \in Turns : /\ proc'[u] = "none" <=> proc[u] = "none"
                                 /\ proc'[u] = "alive" => proc[u] = "alive"
             /\ stop'[c] = "stops"
             /\ \A u \in Turns : proc'[u] = "alive" /\ session[u] \in V
                                    => session[u] \in victims'[c]
  <2>1. /\ stop' \in [Stops -> {"idle", "waits", "stops", "done", "given_up"}]
        /\ stop'[c] = "stops" /\ \A d \in Stops \ {c} : stop'[d] = stop[d]
    BY <1>2 DEF Types
  <2>2. /\ W \subseteq Turns /\ victims' \in [Stops -> SUBSET Turns]
        /\ victims'[c] = W /\ \A d \in Stops \ {c} : victims'[d] = victims[d]
    BY <1>2 DEF Types
  <2>3. killing' \in [Stops -> Turns \union {None}]
    BY <1>2 DEF Types
  <2>4. /\ proc' \in [Turns -> {"none", "alive", "dying", "dead"}]
        /\ \A u \in Turns : /\ proc'[u] = "none" <=> proc[u] = "none"
                            /\ proc'[u] = "alive" => proc[u] = "alive" /\ process[s] # u
    BY <1>2 DEF Types, Signals
  <2>5. ASSUME NEW u \in Turns, proc'[u] = "alive", session[u] \in V
        PROVE  session[u] \in W
    BY <1>1, <1>2, <2>4, <2>5
  <2> QED
    BY <2>1, <2>2, <2>3, <2>4, <2>5
<1>3. ASSUME \A s \in V : ~Running(s), stop' = [stop EXCEPT ![c] = "done"],
             killing' = [killing EXCEPT ![c] = None], victims' = [victims EXCEPT ![c] = {}],
             proc' = proc
      PROVE  /\ stop' \in [Stops -> {"idle", "waits", "stops", "done", "given_up"}]
             /\ victims' \in [Stops -> SUBSET Turns]
             /\ killing' \in [Stops -> Turns \union {None}]
             /\ proc' \in [Turns -> {"none", "alive", "dying", "dead"}]
             /\ \A d \in Stops \ {c} : stop'[d] = stop[d] /\ victims'[d] = victims[d]
             /\ stop'[c] = "done"
             /\ \A u \in Turns : proc'[u] = "alive" => session[u] \notin V
  <2>1. /\ stop' \in [Stops -> {"idle", "waits", "stops", "done", "given_up"}]
        /\ stop'[c] = "done" /\ \A d \in Stops \ {c} : stop'[d] = stop[d]
    BY <1>3 DEF Types
  <2>2. victims' \in [Stops -> SUBSET Turns] /\ \A d \in Stops \ {c} : victims'[d] = victims[d]
    BY <1>3 DEF Types
  <2>3. killing' \in [Stops -> Turns \union {None}]
    BY <1>3 DEF Types
  <2>4. \A u \in Turns : proc'[u] = "alive" => session[u] \notin V
    BY <1>1, <1>3
  <2> QED
    BY <1>3, <2>1, <2>2, <2>3, <2>4 DEF Types
<1>4. CASE \E s \in V : \E W \in SUBSET (V \ {s}) :
            /\ Running(s)
            /\ \A v \in V \ (W \union {s}) : ~Running(v)
            /\ Signals({s})
            /\ killing' = [killing EXCEPT ![c] = process[s]]
            /\ victims' = [victims EXCEPT ![c] = W]
            /\ stop' = [stop EXCEPT ![c] = "stops"]
            /\ lock' = <<c>> \o q
            /\ UNCHANGED mapVars
  BY <1>2, <1>4
<1>5. CASE /\ \A s \in V : ~Running(s)
           /\ stop' = [stop EXCEPT ![c] = "done"]
           /\ killing' = [killing EXCEPT ![c] = None]
           /\ victims' = [victims EXCEPT ![c] = {}]
           /\ EmptyMaps
           /\ lock' = q
           /\ UNCHANGED proc
  BY <1>3, <1>5
<1> QED
  BY <1>4, <1>5 DEF StopsIn

LEMMA LivingKnown ==
    ASSUME Inv, ~ShutDown
    PROVE  /\ AllSessions \subseteq Turns
           /\ \A u \in Turns \ beside : Working(u) => session[u] \in AllSessions
<1>1. AllSessions \subseteq Turns
  BY DEF Inv, MapsSound, MapsTyped, PartialTo, AllSessions
<1>2. ASSUME NEW u \in Turns \ beside, Working(u)
      PROVE  session[u] \in AllSessions
  <2>1. InMaps(u)
    BY <1>2 DEF Inv, Guarded
  <2> QED
    BY <2>1, RangeFacts DEF InMaps, Filed, AllSessions
<1> QED
  BY <1>1, <1>2

\* A call of stop_all is made: by a command, which cancels what is on its way, or
\* as the program shuts down.
LEMMA StopCalled ==
    ASSUME Inv, NEW c \in Stops, StopAllTasks(c) \/ Shutdown(c)
    PROVE  /\ up /\ ~ShutDown /\ stop[c] = "idle" /\ StopAll(c)
           /\ UNCHANGED <<turnVars, removing, cli_lock, process, histVars, task, cleared>>
           /\ TreesMove /\ cancel' \subseteq ended' /\ ended \subseteq ended'
           /\ ended' \subseteq Turns /\ up' \in BOOLEAN
           /\ current' \in [Trees -> Turns \union {None}]
           /\ \A d \in Stops : d < c => stop[d] # "idle"
           /\ \A d \in Stops : c < d => stop[d] = "idle"
           /\ \A d \in Stops : OfCommand(d)
           /\ \/ up' /\ \A u \in Turns \ beside : Coming(u) => u \in cancel'
              \/ ~up' /\ \A u \in Turns : Unrivalled(u) => Unrivalled(u)'
<1> USE DEF Inv
<1>1. /\ up /\ StopAll(c) /\ stop[c] = "idle" /\ \A d \in 1 .. c - 1 : stop[d] # "idle"
      /\ UNCHANGED <<turnVars, removing, cli_lock, process, histVars, task, cleared>>
  BY DEF StopAllTasks, Shutdown, StopAll, CancelTrees, treeVars
<1>2. \A d \in Stops : d < c => stop[d] # "idle"
  <2>1. \A d \in Stops : d < c => d \in 1 .. c - 1
    BY StopsAssumption DEF Stops
  <2> QED
    BY <1>1, <2>1
<1>3. \A d \in Stops : c < d => stop[d] = "idle"
  BY <1>1 DEF StopsInOrder
<1>4. ~ShutDown /\ \A d \in Stops : OfCommand(d)
  BY <1>1 DEF ShutDown, OfCommand
<1>5. CASE StopAllTasks(c)
  <2>1. /\ cancel' = cancel \union NewestOf(Trees \ cleared)
        /\ ended' = ended \union BegunIn(Trees \ cleared)
        /\ current' = [r \in Trees |-> IF r \in Trees \ cleared THEN None ELSE current[r]]
        /\ task' = task /\ cleared' = cleared /\ up' = up
    BY <1>5 DEF StopAllTasks, CancelTrees
  <2>2. /\ NewestOf(Trees \ cleared) \subseteq BegunIn(Trees \ cleared)
        /\ BegunIn(Trees \ cleared) \subseteq Turns
    BY DEF NewestOf, BegunIn
  <2>3. cancel' \subseteq ended' /\ ended \subseteq ended' /\ ended' \subseteq Turns
    BY <2>1, <2>2 DEF EndSound, Types
  <2>4. current' \in [Trees -> Turns \union {None}]
    BY <2>1 DEF Types
  <2>5. ASSUME NEW u \in Turns, task[TreeOf[u]] = u, Begun(u), u \notin cancel'
        PROVE  TreeOf[u] \in cleared /\ current'[TreeOf[u]] = current[TreeOf[u]]
    <3>1. TreeOf[u] \in cleared
      BY <2>1, <2>5, TreeFacts DEF NewestOf, BegunIn
    <3> QED
      BY <2>1, <3>1, TreeFacts
  <2>6. TreesMove
    BY <2>1, <2>5 DEF TreesMove
  <2>7. ASSUME NEW u \in Turns \ beside, Coming(u)
        PROVE  u \in cancel'
    <3>1. Begun(u) /\ task[TreeOf[u]] = u /\ TreeOf[u] \notin cleared
      BY <2>7 DEF Coming, Begun, Alone
    <3> QED
      BY <2>5, <3>1
  <2> QED
    BY <1>1, <1>2, <1>3, <1>4, <2>1, <2>3, <2>4, <2>6, <2>7 DEF Types
<1>6. CASE Shutdown(c)
  <2>1. up' = FALSE /\ UNCHANGED <<nodeVars, treeVars>>
    BY <1>6 DEF Shutdown
  <2>2. \A u \in Turns : Unrivalled(u) => Unrivalled(u)'
    BY <1>1, <2>1 DEF Unrivalled, Begun, Mates, nodeVars, treeVars, turnVars
  <2>3. TreesMove /\ cancel' \subseteq ended' /\ ended \subseteq ended'
    BY <2>1 DEF TreesMove, EndSound, nodeVars, treeVars
  <2> QED
    BY <1>1, <1>2, <1>3, <1>4, <2>1, <2>2, <2>3 DEF Types, nodeVars, treeVars
<1> QED
  BY <1>5, <1>6

LEMMA StopWaits ==
    ASSUME Inv, NEW c \in Stops, StopAllTasks(c) \/ Shutdown(c), Locked
    PROVE  Inv'
<1> USE DEF Inv
<1>1. /\ up /\ ~ShutDown /\ stop[c] = "idle" /\ StopAll(c)
      /\ UNCHANGED <<turnVars, removing, cli_lock, process, histVars, task, cleared>>
      /\ TreesMove /\ cancel' \subseteq ended' /\ ended \subseteq ended'
      /\ ended' \subseteq Turns /\ up' \in BOOLEAN
      /\ current' \in [Trees -> Turns \union {None}]
      /\ \A d \in Stops : d < c => stop[d] # "idle"
      /\ \A d \in Stops : c < d => stop[d] = "idle"
      /\ \A d \in Stops : OfCommand(d)
      /\ \/ up' /\ \A u \in Turns \ beside : Coming(u) => u \in cancel'
         \/ ~up' /\ \A u \in Turns : Unrivalled(u) => Unrivalled(u)'
  BY StopCalled
<1>2. /\ stop' = [stop EXCEPT ![c] = "waits"] /\ lock' = Append(lock, c)
      /\ UNCHANGED <<mapVars, victims, killing, before, proc>>
  BY <1>1 DEF StopAll
<1>3. stop'[c] = "waits" /\ \A d \in Stops \ {c} : stop'[d] = stop[d]
  BY <1>2 DEF Types
<1>4. ~InLine(c)
  BY <1>1 DEF LockSound
<1>5. Requeues(c) /\ Occurs(lock', c) /\ \A x : InLine(x) => Precedes(lock', x, c)
  <2>1. PICK q : q = lock
    OBVIOUS
  <2>2. LineWithout(c, q)
    BY <1>4, <2>1, LineWithoutLeft DEF InLine
  <2>3. Requeues(c) /\ Occurs(lock', c)
    BY <1>2, <2>1, <2>2, LineChanges
  <2>4. \A x : Occurs(q, x) => Precedes(Append(q, c), x, c)
    BY <2>2, AppendOrder DEF LineWithout
  <2> QED
    BY <1>2, <2>1, <2>3, <2>4 DEF InLine
<1>6. LockSound'
  BY <1>1, <1>3, <1>5, StopKeepsLock DEF turnVars
<1>7. Types'
  <2>1. stop' \in [Stops -> {"idle", "waits", "stops", "done", "given_up"}]
    BY <1>2 DEF Types
  <2> QED
    BY <1>1, <1>2, <2>1 DEF Types, turnVars, histVars
<1>8. \A d, e \in Stops : d < e \/ e < d \/ d = e
  BY StopsAssumption DEF Stops
<1>9. StopsInOrder'
  <2> SUFFICES ASSUME NEW d \in Stops, NEW e \in Stops, e < d
               PROVE  /\ stop'[d] # "idle" => stop'[e] # "idle"
                      /\ InLine(d)' /\ InLine(e)' => Ahead(e, d)'
    BY DEF StopsInOrder
  <2>1. stop'[d] # "idle" => stop'[e] # "idle"
    BY <1>1, <1>3 DEF StopsInOrder
  <2>2. e # d
    BY StopsAssumption DEF Stops
  <2>3. CASE d = c
    <3>1. InLine(e)' => InLine(e)
      BY <1>5, <2>2, <2>3 DEF Requeues, KeepsOrder, InLine
    <3> QED
      BY <1>5, <2>1, <2>3, <3>1 DEF Ahead
  <2>4. CASE e = c
    <3>1. stop'[d] = "idle"
      BY <1>1, <1>3, <2>2, <2>4
    <3> QED
      BY <1>6, <2>1, <3>1 DEF LockSound
  <2>5. CASE d # c /\ e # c
    BY <1>5, <2>1, <2>5 DEF StopsInOrder, Requeues, KeepsOrder, InLine, Ahead
  <2> QED
    BY <2>3, <2>4, <2>5
<1>10. \A d \in Stops \ {c} : stop[d] \in {"waits", "stops"} => (OfCommand(d)' <=> OfCommand(d))
  <2> SUFFICES ASSUME NEW d \in Stops, d # c, stop[d] \in {"waits", "stops"}
               PROVE  OfCommand(d)'
    BY <1>1
  <2>1. d < c
    BY <1>1, <1>8
  <2> QED
    BY <1>3, <2>1 DEF OfCommand
<1>11. CallMoves(c)
  BY <1>1, <1>2, <1>3, <1>5, <1>10 DEF CallMoves, Requeues
<1>12. OfCommand(c)' => up'
  <2>1. \A d \in Stops : c < d => stop'[d] = "idle"
    <3>1. \A d \in Stops : c < d => d # c
      BY StopsAssumption DEF Stops
    <3> QED
      BY <1>1, <1>3, <3>1
  <2> QED
    BY <2>1 DEF OfCommand
<1>13. NothingLost(c)
  <2>1. ASSUME NEW u \in Turns, Unrivalled(u), up'
        PROVE  StopComes(u, c)'
    <3>1. OfCommand(c)'
      BY <2>1 DEF OfCommand
    <3>2. \A v \in Turns : ~(Mates(u, v) /\ Begun(v)')
      BY <1>1, <2>1 DEF Unrivalled, Begun, turnVars
    <3> QED
      BY <1>3, <3>1, <3>2 DEF StopComes, Mates
  <2>2. \A u \in Turns : ~StopComes(u, c)
    BY <1>1 DEF StopComes
  <2> QED
    BY <1>1, <1>2, <2>1, <2>2 DEF NothingLost
<1>14. CallSound(c)'
  <2>1. \A u \in before[c] : proc[u] # "none"
    BY DEF StopSound
  <2>2. ASSUME OfCommand(c)', NEW u \in Turns, u \notin beside, stage[u] \in {"wants", "spawning"}
        PROVE  u \in cancel'
    <3>1. cancel \subseteq cancel'
      BY <1>1 DEF TreesMove
    <3> QED
      BY <1>1, <1>12, <2>2, <3>1 DEF Coming
  <2> QED
    BY <1>1, <1>2, <1>3, <2>1, <2>2 DEF CallSound, turnVars, histVars
<1>15. ~ShutDown /\ UNCHANGED mapVars
  BY <1>1, <1>2
<1> QED
  BY <1>6, <1>7, <1>9, <1>11, <1>13, <1>14, <1>15, StepOfCall

LEMMA StopCollectsAtOnce ==
    ASSUME Inv, NEW c \in Stops, StopAllTasks(c) \/ Shutdown(c), ~Locked
    PROVE  Inv'
<1> USE DEF Inv
<1>1. /\ up /\ ~ShutDown /\ stop[c] = "idle" /\ StopAll(c)
      /\ UNCHANGED <<turnVars, removing, cli_lock, process, histVars, task, cleared>>
      /\ TreesMove /\ cancel' \subseteq ended' /\ ended \subseteq ended'
      /\ ended' \subseteq Turns /\ up' \in BOOLEAN
      /\ current' \in [Trees -> Turns \union {None}]
      /\ \A d \in Stops : d < c => stop[d] # "idle"
      /\ \A d \in Stops : c < d => stop[d] = "idle"
      /\ \A d \in Stops : OfCommand(d)
      /\ \/ up' /\ \A u \in Turns \ beside : Coming(u) => u \in cancel'
         \/ ~up' /\ \A u \in Turns : Unrivalled(u) => Unrivalled(u)'
  BY StopCalled
<1>2. PICK q : q = <<>>
  OBVIOUS
<1>3. /\ lock = <<>> /\ StopsIn(c, AllSessions, q)
      /\ before' = [before EXCEPT ![c] = {t \in Turns : proc[t] = "alive"}]
  BY <1>1, <1>2 DEF StopAll, Collects, Locked
<1>4. AllSessions \subseteq Turns /\ \A u \in Turns \ beside : Working(u) => session[u] \in AllSessions
  BY <1>1, LivingKnown
<1>5. /\ stop' \in [Stops -> {"idle", "waits", "stops", "done", "given_up"}]
      /\ victims' \in [Stops -> SUBSET Turns]
      /\ killing' \in [Stops -> Turns \union {None}]
      /\ proc' \in [Turns -> {"none", "alive", "dying", "dead"}]
      /\ \A d \in Stops \ {c} : stop'[d] = stop[d] /\ victims'[d] = victims[d]
      /\ \A u \in Turns : /\ proc'[u] = "none" <=> proc[u] = "none"
                          /\ proc'[u] = "alive" => proc[u] = "alive"
      /\ \/ /\ stop'[c] = "stops" /\ UNCHANGED mapVars /\ lock' = <<c>> \o q
            /\ \A u \in Turns : proc'[u] = "alive" /\ session[u] \in AllSessions
                                   => session[u] \in victims'[c]
         \/ /\ stop'[c] = "done" /\ EmptyMaps /\ lock' = q
            /\ \A u \in Turns : proc'[u] = "alive" => session[u] \notin AllSessions
  BY <1>3, <1>4, StopsInFacts
<1>6. \A x : ~InLine(x)
  <2>1. DOMAIN lock = {}
    BY <1>3
  <2> QED
    BY <2>1 DEF InLine, Occurs
<1>7. /\ Requeues(c)
      /\ Occurs(lock', c) <=> stop'[c] = "stops"
      /\ stop'[c] = "stops" => Holds(c)'
  <2>1. LineWithout(c, q)
    BY <1>2, <1>3, <1>6, LineWithoutLeft DEF InLine
  <2> QED
    BY <1>2, <1>5, <2>1, LineChanges
<1>8. LockSound'
  BY <1>1, <1>5, <1>7, StopKeepsLock DEF turnVars
<1>9. /\ before' \in [Stops -> SUBSET Turns] /\ before'[c] = {t \in Turns : proc[t] = "alive"}
      /\ \A d \in Stops \ {c} : before'[d] = before[d]
  BY <1>3 DEF Types
<1>10. Types'
  BY <1>1, <1>5, <1>9 DEF Types, turnVars, histVars
<1>11. \A d \in Stops : d # c => ~InLine(d)' /\ stop[d] \notin {"waits", "stops"}
  BY <1>6, <1>7 DEF Requeues, KeepsOrder, InLine, LockSound
<1>12. StopsInOrder'
  <2> SUFFICES ASSUME NEW d \in Stops, NEW e \in Stops, e < d
               PROVE  /\ stop'[d] # "idle" => stop'[e] # "idle"
                      /\ ~(InLine(d)' /\ InLine(e)')
    BY DEF StopsInOrder
  <2>1. e # d
    BY StopsAssumption DEF Stops
  <2>2. stop'[d] # "idle" => stop'[e] # "idle"
    BY <1>1, <1>5, <2>1 DEF StopsInOrder
  <2> QED
    BY <1>11, <2>1, <2>2
<1>13. CallMoves(c)
  BY <1>1, <1>5, <1>7, <1>9, <1>11 DEF CallMoves, Requeues
<1>14. OfCommand(c)' => up'
  <2>1. \A d \in Stops : c < d => stop'[d] = "idle"
    <3>1. \A d \in Stops : c < d => d # c
      BY StopsAssumption DEF Stops
    <3> QED
      BY <1>1, <1>5, <3>1
  <2> QED
    BY <2>1 DEF OfCommand
<1>15. ASSUME up', NEW u \in Turns, u \notin beside, stage[u] \in {"wants", "spawning"}
       PROVE  u \in cancel'
  <2>1. cancel \subseteq cancel'
    BY <1>1 DEF TreesMove
  <2> QED
    BY <1>1, <1>15, <2>1 DEF Coming
<1>16. \A u \in Turns \ beside : proc'[u] = "alive" => session[u] \in AllSessions
  BY <1>4, <1>5 DEF Working
<1>17. NothingLost(c)
  <2>1. \A u \in Turns : ~StopComes(u, c)
    BY <1>1 DEF StopComes
  <2>2. CASE stop'[c] = "stops"
    <3>1. ASSUME NEW u \in Turns, Unrivalled(u), up'
          PROVE  StopComes(u, c)'
      <4>1. OfCommand(c)'
        BY <3>1 DEF OfCommand
      <4>2. \A v \in Turns : ~(Mates(u, v) /\ Begun(v)')
        BY <1>1, <3>1 DEF Unrivalled, Begun, turnVars
      <4> QED
        BY <2>2, <4>1, <4>2 DEF StopComes, Mates
    <3> QED
      BY <1>1, <1>5, <2>1, <2>2, <3>1 DEF NothingLost
  <2>3. CASE stop'[c] = "done"
    <3>1. CASE up'
      BY <1>1, <1>5, <1>15, <1>16, <2>3, <3>1 DEF NothingLost, Working, turnVars
    <3>2. CASE ~up'
      BY <1>5, <1>11, <2>3, <3>2 DEF NothingLost, ShutDown, Stopping
    <3> QED
      BY <3>1, <3>2
  <2> QED
    BY <1>5, <2>2, <2>3
<1>18. CallSound(c)'
  <2>1. \A u \in before'[c] : proc'[u] # "none"
    BY <1>5, <1>9
  <2>2. ASSUME NEW u \in Turns, u \notin beside, proc'[u] = "alive"
        PROVE  stop'[c] = "stops" /\ session[u] \in victims'[c]
    BY <1>5, <1>16, <2>2
  <2>3. before'[c] \subseteq Turns
    BY <1>9
  <2> QED
    BY <1>1, <1>14, <1>15, <2>1, <2>2, <2>3 DEF CallSound, turnVars, histVars
<1>19. EmptyMaps => MapsSound'
  <2>1. c \notin Turns
    BY StopsAssumption DEF Stops
  <2> QED
    BY <1>1, <1>3, <2>1, EmptyMapsSound
<1>20. ~ShutDown /\ (UNCHANGED mapVars \/ (EmptyMaps /\ MapsSound'))
  BY <1>1, <1>5, <1>19
<1> QED
  BY <1>8, <1>10, <1>12, <1>13, <1>17, <1>18, <1>20, StepOfCall

\* Once the last call has left the line, no other is in it.
LEMMA LastCall ==
    ASSUME Inv, NEW c \in Stops, Holds(c), InLine(c), ~OfCommand(c), up' = up,
           stop'[c] \notin {"waits", "stops"}, \A d \in Stops \ {c} : stop'[d] = stop[d]
    PROVE  ShutDown'
<1> USE DEF Inv
<1>1. ~up /\ \A d \in Stops : c < d => stop[d] = "idle"
  BY DEF OfCommand
<1>2. ASSUME NEW d \in Stops, d # c
      PROVE  stop'[d] \notin {"waits", "stops"}
  <2>1. CASE c < d
    BY <1>1, <1>2, <2>1
  <2>2. CASE d < c
    <3>1. ~Ahead(d, c)
      BY HeadOrder DEF LockSound, Holds, Ahead
    <3>2. ~InLine(d)
      BY <2>2, <3>1 DEF StopsInOrder
    <3> QED
      BY <1>2, <3>2 DEF LockSound
  <2>3. c < d \/ d < c
    BY <1>2, StopsAssumption DEF Stops
  <2> QED
    BY <2>1, <2>2, <2>3
<1> QED
  BY <1>1, <1>2 DEF ShutDown, Stopping

\* Call c does not change which calls were made.
LEMMA SameCommands ==
    ASSUME NEW c \in Stops, up' = up, stop[c] # "idle", stop'[c] # "idle",
           \A d \in Stops \ {c} : stop'[d] = stop[d]
    PROVE  \A d \in Stops : OfCommand(d)' <=> OfCommand(d)
<1>1. \A d \in Stops : stop'[d] = "idle" <=> stop[d] = "idle"
  OBVIOUS
<1> QED
  BY <1>1 DEF OfCommand

LEMMA CallsInOrder ==
    ASSUME Inv, NEW c \in Stops, KeepsOrder(c), stop[c] # "idle", stop'[c] # "idle",
           \A d \in Stops \ {c} : stop'[d] = stop[d],
           lock' = lock \/ ~InLine(c)'
    PROVE  StopsInOrder'
<1> SUFFICES ASSUME NEW d \in Stops, NEW e \in Stops, e < d
             PROVE  /\ stop'[d] # "idle" => stop'[e] # "idle"
                    /\ InLine(d)' /\ InLine(e)' => Ahead(e, d)'
  BY DEF StopsInOrder
<1>1. stop'[d] # "idle" => stop'[e] # "idle"
  BY DEF Inv, StopsInOrder
<1>2. InLine(d) /\ InLine(e) => Ahead(e, d)
  BY DEF Inv, StopsInOrder
<1>3. CASE lock' = lock
  BY <1>1, <1>2, <1>3 DEF InLine, Ahead
<1>4. CASE ~InLine(c)'
  BY <1>1, <1>2, <1>4 DEF KeepsOrder, InLine, Ahead
<1> QED
  BY <1>3, <1>4

\* A call that has the lock, with the sessions V before it.
LEMMA HolderMoves ==
    ASSUME Inv, NEW c \in Stops, Holds(c), stop[c] \in {"waits", "stops"},
           NEW V \in SUBSET Turns, StopsIn(c, V, Tail(lock)),
           UNCHANGED <<turnVars, removing, nodeVars, treeVars, cli_lock, process, up, histVars>>,
           before' \in [Stops -> SUBSET Turns], \A d \in Stops \ {c} : before'[d] = before[d],
           \A u \in before'[c] : proc[u] # "none",
           \A u \in before'[c] \ beside : proc[u] = "alive" => session[u] \in V,
           OfCommand(c) => \A u \in Turns \ beside : proc[u] = "alive" => session[u] \in V
    PROVE  Inv'
<1> USE DEF Inv
<1>1. ~ShutDown /\ InLine(c) /\ c \notin Turns
  BY StopsAssumption DEF ShutDown, Stopping, LockSound, Stops
<1>2. PICK q : q = Tail(lock)
  OBVIOUS
<1>3. LineWithout(c, q) /\ <<c>> \o q = lock
  BY <1>2, LineWithoutLeft
<1>4. /\ stop' \in [Stops -> {"idle", "waits", "stops", "done", "given_up"}]
      /\ victims' \in [Stops -> SUBSET Turns]
      /\ killing' \in [Stops -> Turns \union {None}]
      /\ proc' \in [Turns -> {"none", "alive", "dying", "dead"}]
      /\ \A d \in Stops \ {c} : stop'[d] = stop[d] /\ victims'[d] = victims[d]
      /\ \A u \in Turns : /\ proc'[u] = "none" <=> proc[u] = "none"
                          /\ proc'[u] = "alive" => proc[u] = "alive"
      /\ \/ /\ stop'[c] = "stops" /\ UNCHANGED mapVars /\ lock' = <<c>> \o q
            /\ \A u \in Turns : proc'[u] = "alive" /\ session[u] \in V
                                   => session[u] \in victims'[c]
         \/ /\ stop'[c] = "done" /\ EmptyMaps /\ lock' = q
            /\ \A u \in Turns : proc'[u] = "alive" => session[u] \notin V
  BY <1>2, StopsInFacts
<1>5. Types'
  BY <1>4 DEF Types, turnVars, nodeVars, treeVars, histVars
<1>6. \A d \in Stops : OfCommand(d)' <=> OfCommand(d)
  BY <1>4, SameCommands
<1>7. KeepsOrder(c) /\ LockSound' /\ (lock' = lock \/ ~InLine(c)')
  <2>1. CASE stop'[c] = "stops" /\ lock' = lock
    <3>1. KeepsOrder(c)
      BY <2>1 DEF KeepsOrder, LockSound
    <3>2. \A d \in Stops : InLine(d)' <=> stop'[d] \in {"waits", "stops"}
      BY <1>4, <2>1 DEF LockSound, InLine
    <3>3. \A d \in Stops : stop'[d] = "stops" => Holds(d)'
      BY <1>4, <2>1 DEF LockSound, Holds
    <3> QED
      BY <2>1, <3>1, <3>2, <3>3 DEF LockSound, InLine, Holds, turnVars
  <2>2. CASE stop'[c] = "done" /\ lock' = q
    <3>1. Requeues(c) /\ ~Occurs(lock', c)
      BY <1>3, <2>2, LineChanges
    <3> QED
      BY <1>4, <2>2, <3>1, StopKeepsLock DEF Requeues, turnVars, InLine
  <2> QED
    BY <1>3, <1>4, <2>1, <2>2
<1>8. StopsInOrder'
  BY <1>4, <1>7, CallsInOrder
<1>9. CallMoves(c)
  <2>1. TreesMove /\ cancel' \subseteq ended' /\ ended \subseteq ended'
    BY DEF TreesMove, EndSound, nodeVars, treeVars
  <2> QED
    BY <1>4, <1>6, <1>7, <2>1 DEF CallMoves
<1>10. CallSound(c)'
  <2>1. stage' = stage /\ session' = session /\ cancel' = cancel /\ beside' = beside
    BY DEF turnVars, nodeVars, histVars
  <2>2. before'[c] \subseteq Turns
    OBVIOUS
  <2>3. \A u \in before'[c] : proc'[u] # "none"
    BY <1>4, <2>2
  <2>4. ASSUME NEW u \in before'[c] \ beside, proc'[u] = "alive"
        PROVE  stop'[c] = "stops" /\ session[u] \in victims'[c]
    BY <1>4, <2>2, <2>4
  <2>5. ASSUME stop'[c] = "stops", OfCommand(c), NEW u \in Turns \ beside
        PROVE  /\ stage[u] = "spawning" => u \in cancel
               /\ stage[u] = "wants" /\ Ahead(u, c)' => u \in cancel
               /\ proc'[u] = "alive" => session[u] \in victims'[c]
    <3>1. Ahead(u, c)' => Ahead(u, c)
      BY <1>3, <1>4, <2>5 DEF Ahead
    <3> QED
      BY <1>4, <2>5, <3>1 DEF StopSound
  <2>6. stop'[c] \in {"stops", "done"}
    BY <1>4
  <2> QED
    BY <1>6, <2>1, <2>3, <2>4, <2>5, <2>6 DEF CallSound
<1>11. NothingLost(c)
  <2>1. CASE stop'[c] = "stops"
    <3>1. \A u \in Turns : Unrivalled(u) => Unrivalled(u)'
      BY DEF Unrivalled, Begun, Mates, turnVars, nodeVars, treeVars
    <3>2. \A u : Ahead(c, u)' = Ahead(c, u)
      BY <1>3, <1>4, <2>1 DEF Ahead
    <3>3. \A u \in Turns : StopComes(u, c) => StopComes(u, c)'
      BY <1>6, <2>1, <3>2 DEF StopComes, Mates, Begun, turnVars
    <3> QED
      BY <1>4, <2>1, <3>1, <3>3 DEF NothingLost
  <2>2. CASE stop'[c] = "done" /\ ~OfCommand(c)
    <3>1. ShutDown'
      BY <1>1, <1>4, <2>2, LastCall
    <3> QED
      BY <3>1 DEF NothingLost
  <2>3. CASE stop'[c] = "done" /\ OfCommand(c)
    <3>1. ASSUME NEW u \in Turns \ beside
          PROVE  proc'[u] # "alive" /\ (stage[u] = "spawning" => u \in cancel)
      BY <1>4, <2>3 DEF StopSound
    <3> QED
      BY <3>1 DEF NothingLost, Working, turnVars, nodeVars
  <2> QED
    BY <1>4, <2>1, <2>2, <2>3
<1>12. UNCHANGED mapVars \/ (EmptyMaps /\ MapsSound')
  BY <1>1, <1>4, EmptyMapsSound
<1> QED
  BY <1>1, <1>5, <1>7, <1>8, <1>9, <1>10, <1>11, <1>12, StepOfCall

LEMMA HolderSteps ==
    ASSUME Inv, NEW c \in Stops, StopGetsLock(c) \/ StopsNext(c)
    PROVE  Inv'
<1> USE DEF Inv
<1>1. CASE StopGetsLock(c)
  <2>1. /\ stop[c] = "waits" /\ Holds(c) /\ StopsIn(c, AllSessions, Tail(lock))
        /\ before' = [before EXCEPT ![c] = {t \in Turns : proc[t] = "alive"}]
        /\ UNCHANGED <<turnVars, removing, nodeVars, treeVars, cli_lock, process, up, histVars>>
    BY <1>1 DEF StopGetsLock, Collects
  <2>2. ~ShutDown
    BY <2>1 DEF ShutDown, Stopping
  <2>3. /\ AllSessions \subseteq Turns
        /\ \A u \in Turns \ beside : proc[u] = "alive" => session[u] \in AllSessions
    BY <2>2, LivingKnown DEF Working
  <2>4. /\ before' \in [Stops -> SUBSET Turns] /\ before'[c] = {t \in Turns : proc[t] = "alive"}
        /\ \A d \in Stops \ {c} : before'[d] = before[d]
    BY <2>1 DEF Types
  <2>5. PICK V \in SUBSET Turns : V = AllSessions
    BY <2>3
  <2>6. /\ \A u \in before'[c] : proc[u] # "none"
        /\ \A u \in Turns \ beside : proc[u] = "alive" => session[u] \in V
        /\ \A u \in before'[c] \ beside : proc[u] = "alive" => session[u] \in V
    BY <2>3, <2>4, <2>5
  <2>7. StopsIn(c, V, Tail(lock))
    BY <2>1, <2>5
  <2> QED
    BY <2>1, <2>4, <2>6, <2>7, HolderMoves
<1>2. CASE StopsNext(c)
  <2>1. /\ stop[c] = "stops" /\ StopsIn(c, victims[c], Tail(lock))
        /\ UNCHANGED <<turnVars, removing, nodeVars, treeVars, cli_lock, process, up, before,
                       histVars>>
    BY <1>2 DEF StopsNext
  <2>2. Holds(c) /\ before' \in [Stops -> SUBSET Turns] /\ victims[c] \in SUBSET Turns
    BY <2>1 DEF LockSound, Types
  <2>3. /\ \A u \in before'[c] : proc[u] # "none"
        /\ \A u \in before'[c] \ beside : proc[u] = "alive" => session[u] \in victims[c]
        /\ OfCommand(c) => \A u \in Turns \ beside :
              proc[u] = "alive" => session[u] \in victims[c]
    BY <2>1 DEF StopSound
  <2> QED
    BY <2>1, <2>2, <2>3, HolderMoves
<1> QED
  BY <1>1, <1>2

LEMMA GivesUpStep ==
    ASSUME Inv, NEW c \in Stops, GivesUp(c)
    PROVE  Inv'
<1> USE DEF Inv
<1>1. /\ ~up /\ stop[c] \in {"waits", "stops"} /\ \A d \in Stops : d > c => stop[d] = "idle"
      /\ stop' = [stop EXCEPT ![c] = "given_up"] /\ lock' = LeaveLock(c)
      /\ killing' = [killing EXCEPT ![c] = None] /\ victims' = [victims EXCEPT ![c] = {}]
      /\ UNCHANGED <<turnVars, removing, nodeVars, treeVars, mapVars, cliVars, up, before,
                     histVars>>
  BY DEF GivesUp
<1>2. ~ShutDown /\ ~OfCommand(c)
  <2>1. \A d \in Stops : c < d => stop[d] = "idle"
    <3>1. \A d \in Stops : c < d => d > c
      BY StopsAssumption DEF Stops
    <3> QED
      BY <1>1, <3>1
  <2> QED
    BY <1>1, <2>1 DEF ShutDown, Stopping, OfCommand
<1>3. stop'[c] = "given_up" /\ \A d \in Stops \ {c} : stop'[d] = stop[d] /\ victims'[d] = victims[d]
  BY <1>1 DEF Types
<1>4. Types'
  BY <1>1 DEF Types, turnVars, nodeVars, treeVars, cliVars, histVars
<1>5. PICK q : q = LeaveLock(c)
  OBVIOUS
<1>6. Requeues(c) /\ ~Occurs(lock', c)
  <2>1. LineWithout(c, q)
    BY <1>5, LineWithoutLeft
  <2> QED
    BY <1>1, <1>5, <2>1, LineChanges
<1>7. LockSound'
  BY <1>1, <1>3, <1>6, StopKeepsLock DEF turnVars
<1>8. StopsInOrder'
  BY <1>1, <1>3, <1>6, CallsInOrder DEF Requeues, InLine
<1>9. \A d \in Stops : OfCommand(d)' <=> OfCommand(d)
  BY <1>1, <1>3, SameCommands
<1>10. CallMoves(c)
  <2>1. TreesMove /\ cancel' \subseteq ended' /\ ended \subseteq ended'
    BY <1>1 DEF TreesMove, EndSound, nodeVars, treeVars
  <2> QED
    BY <1>1, <1>3, <1>6, <1>9, <2>1 DEF CallMoves, Requeues, cliVars
<1>11. NothingLost(c)
  <2>1. \A u \in Turns : Unrivalled(u) => Unrivalled(u)'
    BY <1>1 DEF Unrivalled, Begun, Mates, turnVars, nodeVars, treeVars
  <2>2. \A u \in Turns : ~StopComes(u, c)
    BY <1>2 DEF StopComes
  <2> QED
    BY <1>1, <2>1, <2>2 DEF NothingLost
<1>12. CallSound(c)'
  <2>1. \A u \in before[c] : proc[u] # "none"
    BY DEF StopSound
  <2> QED
    BY <1>1, <1>3, <2>1 DEF CallSound, cliVars
<1>13. UNCHANGED mapVars
  BY <1>1
<1> QED
  BY <1>2, <1>4, <1>7, <1>8, <1>10, <1>11, <1>12, <1>13, StepOfCall
-----------------------------------------------------------------------------
(* The invariant, and what follows from it. *)

LEMMA InitInv == Init => Inv
<1> SUFFICES ASSUME Init
             PROVE  Inv
  OBVIOUS
<1>1. Types
  BY DEF Init, Types, Stages
<1>2. \A x : ~Occurs(lock, x)
  <2>1. DOMAIN <<>> = {}
    OBVIOUS
  <2> QED
    BY <2>1 DEF Init, Occurs
<1>3. LockSound
  <2>1. lock \in Seq(Turns \union Stops) /\ Distinct(lock)
    BY DEF Init, Distinct
  <2> QED
    BY <1>2, <2>1 DEF Init, LockSound, InLine
<1>4. StopsInOrder
  BY <1>2 DEF Init, StopsInOrder, InLine
<1>5. TurnSound
  BY IdFacts DEF Init, TurnSound, Begun, OfTurn
<1>6. Alone /\ SessionsUnshared
  BY DEF Init, Alone, Coming, SessionsUnshared
<1>7. /\ DOMAIN pending = {} /\ DOMAIN sessions = {} /\ DOMAIN temp_to_real = {}
      /\ DOMAIN real_to_temp = {}
      /\ Range(pending) = {} /\ Range(sessions) = {} /\ Range(temp_to_real) = {}
      /\ Range(real_to_temp) = {}
  BY EmptyFacts DEF Init
<1>8. Owned
  BY <1>7 DEF Owned
<1>9. MapsSound
  <2>1. \A id : ~Mapped(id)
    BY <1>7 DEF Init, Mapped
  <2> QED
    BY <1>7, <2>1 DEF Init, MapsSound, MapsTyped, PartialTo, SessionsSound, IdsSound
<1>10. ProcSound /\ EndSound
  BY DEF Init, ProcSound, EndSound
<1>11. Guarded
  BY DEF Init, Guarded, Working
<1>12. StopSound /\ StopAllKills
  BY DEF Init, StopSound, StopAllKills
<1> QED
  BY <1>1, <1>3, <1>4, <1>5, <1>6, <1>8, <1>9, <1>10, <1>11, <1>12 DEF Inv

LEMMA InvStep == Inv /\ [Next]_vars => Inv'
<1> SUFFICES ASSUME Inv, [Next]_vars
             PROVE  Inv'
  OBVIOUS
<1>1. ASSUME NEW t \in Turns, Start(t)
      PROVE  Inv'
  BY <1>1, StartCreates, StartWaits
<1>2. ASSUME NEW t \in Turns, SessionInfo(t)
      PROVE  Inv'
  BY <1>2, ReadingSteps, RegisterSteps
<1>3. ASSUME NEW t \in Turns, Ends(t) \/ Dies(t) \/ GeneratorCloses(t) \/ Cancel(t)
      PROVE  Inv'
  BY <1>3, OutsideSteps
<1>4. ASSUME NEW t \in Turns, Raises(t)
      PROVE  Inv'
  BY <1>4, FinallySteps
<1>5. ASSUME NEW t \in Turns, TurnStep(t)
      PROVE  Inv'
  <2>1. CASE GetsLock(t)
    BY <2>1, GetsLockStep
  <2>2. CASE Spawns(t)
    BY <2>2, SpawnStep
  <2>3. CASE \/ SpawnFails(t) \/ Exits(t) \/ Killed(t) \/ Leaves(t)
             \/ CancelledTask(t) \/ CancelledWaiting(t)
    BY <2>3, FinallySteps
  <2>4. CASE Registered(t)
    BY <2>4, RegisterSteps
  <2>5. CASE CancelledReading(t)
    BY <2>5, ReadingSteps
  <2>6. CASE Removed(t) \/ CancelledLeaving(t)
    BY <2>6, RemovalEnds
  <2> QED
    BY <1>5, <2>1, <2>2, <2>3, <2>4, <2>5, <2>6 DEF TurnStep
<1>6. ASSUME NEW r \in Trees, ClearTree(r)
      PROVE  Inv'
  BY <1>6, OutsideSteps
<1>7. ASSUME NEW c \in Stops, StopAllTasks(c) \/ Shutdown(c)
      PROVE  Inv'
  BY <1>7, StopWaits, StopCollectsAtOnce
<1>8. ASSUME NEW c \in Stops, GivesUp(c) \/ StopStep(c)
      PROVE  Inv'
  BY <1>8, GivesUpStep, HolderSteps DEF StopStep
<1>9. CASE UNCHANGED vars
  BY <1>9, OutsideSteps
<1> QED
  BY <1>1, <1>2, <1>3, <1>4, <1>5, <1>6, <1>7, <1>8, <1>9 DEF Next

LEMMA InvAlways == Spec => []Inv
  BY InitInv, InvStep, PTL DEF Spec

\* Every variable of the manager, of its turns and of their trees keeps to what its
\* Python counterpart can hold.
THEOREM SessionsTypeCorrect == Spec => []TypeOK
<1>1. Inv => TypeOK
  <2> SUFFICES ASSUME Inv
               PROVE  TypeOK
    OBVIOUS
  <2>1. Types /\ MapsTyped /\ lock \in Seq(Turns \union Stops)
    BY DEF Inv, LockSound, MapsSound
  <2>2. Range(lock) \subseteq Turns \union Stops
    <3>1. \A i \in DOMAIN lock : lock[i] \in Turns \union Stops
      BY <2>1, LenProperties
    <3> QED
      BY <3>1, RangeFacts
  <2>3. {resume[t] : t \in Turns} \union {temp[t] : t \in Turns}
          \union {captured[t] : t \in Turns} \union {recorded[t] : t \in Turns}
          \subseteq Ids \union {None}
    BY <2>1 DEF Types
  <2> QED
    BY <2>1, <2>2, <2>3 DEF TypeOK, Types, MapsTyped
<1> QED
  BY <1>1, InvAlways, PTL

\* get_or_create_session hands the session of one turn to another only if these two ran
\* beside each other, or the removal of the session was cancelled before it got the
\* lock: every other turn works on the CLISession that it created, however many
\* cancellations, failures and calls of stop_all come between.
THEOREM UnsharedCorrect == Spec => []SessionsUnshared
<1>1. Inv => SessionsUnshared
  BY DEF Inv
<1> QED
  BY <1>1, InvAlways, PTL

\* Whenever the lock of the manager is free, every registered session is found by its
\* two ids, the maps of ids hold nothing else but what a cancelled removal left, and no
\* session is both pending and registered.
THEOREM MapsAgreeCorrect == Spec => []MapsAgree
<1>1. Inv => MapsAgree
  <2> SUFFICES ASSUME Inv, lock = <<>>
               PROVE  /\ \A id \in DOMAIN sessions :
                            /\ id \in DOMAIN real_to_temp
                            /\ temp_to_real[real_to_temp[id]] = id
                      /\ DOMAIN real_to_temp \ DOMAIN sessions \subseteq unmapped
                      /\ DOMAIN temp_to_real \subseteq Range(real_to_temp)
                      /\ Range(pending) \intersect Range(sessions) = {}
    BY DEF MapsAgree
  <2>1. IdsSound /\ SessionsSound /\ LockSound
    BY DEF Inv, MapsSound
  <2>2. \A u \in Turns : stage[u] # "removing"
    BY <2>1 DEF LockSound, Holds
  <2>3. \A id : Mapped(id) <=> id \in DOMAIN sessions
    BY <2>2 DEF Mapped
  <2>4. \A id \in DOMAIN sessions :
           id \in DOMAIN real_to_temp /\ temp_to_real[real_to_temp[id]] = id
    BY <2>1, <2>3 DEF IdsSound
  <2>5. DOMAIN real_to_temp \ DOMAIN sessions \subseteq unmapped
    BY <2>1, <2>3 DEF IdsSound
  <2>6. DOMAIN temp_to_real \subseteq Range(real_to_temp)
    BY <2>1, RangeFacts DEF IdsSound
  <2>7. Range(pending) \intersect Range(sessions) = {}
    BY <2>1, RangeFacts DEF SessionsSound
  <2> QED
    BY <2>4, <2>5, <2>6, <2>7
<1> QED
  BY <1>1, InvAlways, PTL

\* stop_all kills what it found: a process that was alive when the call got the
\* lock, and whose turn did not begin beside another of its tree, is dead or has
\* been told to end when the call returns.
THEOREM StopAllKillsCorrect == Spec => []StopAllKills
<1>1. Inv => StopAllKills
  BY DEF Inv
<1> QED
  BY <1>1, InvAlways, PTL
=============================================================================
