------------------------- MODULE SessionStoreProofs -------------------------
(***************************************************************************)
(* What TLAPS proves about SessionStore for any trees, messages and        *)
(* timers, any cap of the log, and any number of changes and failures.     *)
(***************************************************************************)
EXTENDS SessionStore, SequenceTheorems, TLAPS

(***************************************************************************)
(* The log.                                                                *)
(***************************************************************************)
LogOK(log) ==
    /\ \A i, j \in DOMAIN log : log[i] = log[j] => i = j
    /\ LogCap > 0 => Len(log) <= LogCap

LEMMA CappedLog ==
    ASSUME NEW log \in Seq(Messages), LogOK(log), NEW m \in Messages, m \notin ToSet(log)
    PROVE  /\ Capped(Append(log, m)) \in Seq(Messages)
           /\ LogOK(Capped(Append(log, m)))
           /\ ToSet(Capped(Append(log, m))) \subseteq Messages
<1> DEFINE s == Append(log, m)
           n == Len(s)
<1>1. LogCap \in Nat
  BY BoundAssumption
<1>2. /\ s \in Seq(Messages) /\ n = Len(log) + 1 /\ Len(log) \in Nat
      /\ \A i \in 1 .. Len(log) : s[i] = log[i]
      /\ s[n] = m
  BY AppendProperties, LenProperties
<1>3. \A i, j \in 1 .. n : s[i] = s[j] => i = j
  <2>1. \A i \in 1 .. Len(log) : log[i] # m
    BY DEF ToSet
  <2> QED
    BY <1>2, <2>1 DEF LogOK
<1>4. CASE LogCap > 0 /\ n > LogCap
  <2> DEFINE c == SubSeq(s, n - LogCap + 1, n)
  <2>1. c \in Seq(Messages) /\ Len(c) = LogCap
        /\ \A i \in 1 .. LogCap : c[i] = s[n - LogCap + i]
    BY <1>1, <1>2, <1>4
  <2>2. \A i, j \in 1 .. LogCap : c[i] = c[j] => i = j
    <3> SUFFICES ASSUME NEW i \in 1 .. LogCap, NEW j \in 1 .. LogCap, c[i] = c[j]
                 PROVE  i = j
      OBVIOUS
    <3>1. s[n - LogCap + i] = s[n - LogCap + j]
      BY <2>1
    <3>2. n - LogCap + i \in 1 .. n /\ n - LogCap + j \in 1 .. n
      BY <1>1, <1>2, <1>4
    <3>3. n - LogCap + i = n - LogCap + j
      BY <1>3, <3>1, <3>2
    <3> QED
      BY <1>1, <1>2, <3>3
  <2>3. Capped(s) = c
    BY <1>4 DEF Capped
  <2>4. DOMAIN c = 1 .. LogCap /\ \A i \in 1 .. LogCap : c[i] \in Messages
    BY <2>1, LenProperties, ElementOfSeq
  <2>5. LogOK(c)
    <3> HIDE DEF c
    <3> QED
      BY <2>1, <2>2, <2>4 DEF LogOK
  <2>6. ToSet(c) \subseteq Messages
    BY <2>4 DEF ToSet
  <2> QED
    BY <2>1, <2>3, <2>5, <2>6
<1>5. CASE ~(LogCap > 0 /\ n > LogCap)
  <2>1. Capped(s) = s
    BY <1>5 DEF Capped
  <2>2. DOMAIN s = 1 .. n /\ \A i \in 1 .. n : s[i] \in Messages
    BY <1>2, LenProperties, ElementOfSeq
  <2> QED
    BY <1>1, <1>2, <1>3, <1>5, <2>1, <2>2 DEF LogOK, ToSet
<1> QED
  BY <1>4, <1>5

(***************************************************************************)
(* The log and its index agree, in memory and in everything that is, or is *)
(* about to be, in the file: a restart takes them from there.              *)
(***************************************************************************)
LogInv ==
    /\ TypeOK
    /\ seen = ToSet(mem.log)
    /\ LogOK(mem.log) /\ LogOK(flushing.log) /\ LogOK(file.log)
    /\ \A t \in Timers : LogOK(snapshot[t].log)

LEMMA EmptyFacts == Empty \in Content /\ LogOK(Empty.log) /\ ToSet(Empty.log) = {}
<1>1. LogCap \in Nat
  BY BoundAssumption
<1> QED
  BY <1>1 DEF Empty, Content, LogOK, ToSet

LEMMA ScheduleTypes ==
    ASSUME TypeOK, ScheduleSave
    PROVE  /\ dirty' = TRUE
           /\ save_timer' \in Timers
           /\ stage' \in [Timers -> {"free", "armed", "waiting", "writing"}]
           /\ stage'[save_timer'] = "armed"
           /\ \A t \in Timers : stage'[t] = "writing" <=> stage[t] = "writing"
<1>1. PICK t \in Timers : /\ stage[t] = "free"
                          /\ save_timer' = t
                          /\ stage' = [Cancelled(stage) EXCEPT ![t] = "armed"]
  BY DEF ScheduleSave
<1>2. /\ Cancelled(stage) \in [Timers -> {"free", "armed", "waiting", "writing"}]
      /\ \A u \in Timers : Cancelled(stage)[u] = "writing" <=> stage[u] = "writing"
  BY NoneAssumption DEF TypeOK, Cancelled
<1> QED
  BY <1>1, <1>2 DEF ScheduleSave

LEMMA ChangeTypes ==
    ASSUME LogInv, NEW c, Change(c), c \in Content, LogOK(c.log)
    PROVE  /\ mem' \in Content /\ mem'.log = c.log /\ mem'.at = mem.at + 1 /\ LogOK(mem'.log)
           /\ dirty' = TRUE /\ save_timer' \in Timers
           /\ stage' \in [Timers -> {"free", "armed", "waiting", "writing"}]
           /\ UNCHANGED <<snapshot, loopVars, file, failures, histVars>>
<1>1. mem.at \in Nat
  BY DEF LogInv, TypeOK, Content
<1>2. mem' = [c EXCEPT !.at = mem.at + 1] /\ ScheduleSave
      /\ UNCHANGED <<snapshot, loopVars, file, failures, histVars>>
  BY DEF Change
<1>3. mem' \in Content /\ mem'.log = c.log /\ mem'.at = mem.at + 1
  BY <1>1, <1>2 DEF Content
<1>4. TypeOK
  BY DEF LogInv
<1> QED
  BY <1>2, <1>3, <1>4, ScheduleTypes

LEMMA FlushTypes ==
    ASSUME LogInv, NEW c, FlushSave(c), c \in Content
    PROVE  /\ loop' = "writes" /\ flushing' = c /\ taken' = c.at /\ taken' \in Nat
           /\ dirty' = FALSE /\ save_timer' = None /\ alone' \in BOOLEAN
           /\ stage' \in [Timers -> {"free", "armed", "waiting", "writing"}]
           /\ \A t \in Timers : stage'[t] = "writing" <=> stage[t] = "writing"
<1>1. /\ Cancelled(stage) \in [Timers -> {"free", "armed", "waiting", "writing"}]
      /\ \A u \in Timers : Cancelled(stage)[u] = "writing" <=> stage[u] = "writing"
  BY NoneAssumption DEF LogInv, TypeOK, Cancelled
<1> QED
  BY <1>1 DEF FlushSave, Content

LEMMA LaterFacts == \A a, b \in Nat : Later(a, b) \in Nat /\ Later(a, b) >= a /\ Later(a, b) >= b
BY DEF Later

LEMMA LogStep == LogInv /\ [Next]_vars => LogInv'
<1> SUFFICES ASSUME LogInv, [Next]_vars PROVE LogInv'
  OBVIOUS
<1> USE DEF histVars, loopVars, memVars, timerVars
<1>e. Empty \in Content /\ LogOK(Empty.log) /\ ToSet(Empty.log) = {} /\ Empty.at = 0
  BY EmptyFacts DEF Empty
<1>t. /\ mem \in Content /\ file \in Content /\ flushing \in Content
      /\ snapshot \in [Timers -> Content]
      /\ mem.at \in Nat /\ file.at \in Nat /\ flushing.at \in Nat
      /\ \A t \in Timers : snapshot[t].at \in Nat
      /\ mem.log \in Seq(Messages) /\ mem.trees \in SUBSET Roots
      /\ LogOK(mem.log) /\ seen = ToSet(mem.log)
  BY DEF LogInv, TypeOK, Content
<1>1. ASSUME NEW r \in Roots, SaveTree(r) PROVE LogInv'
  <2> DEFINE c == [mem EXCEPT !.trees = @ \union {r}]
  <2>1. c \in Content /\ c.log = mem.log
    BY <1>t DEF Content
  <2>2. Change(c) /\ seen' = seen
    BY <1>1 DEF SaveTree
  <2> HIDE DEF c
  <2>3. /\ mem' \in Content /\ mem'.log = mem.log /\ dirty' = TRUE /\ save_timer' \in Timers
        /\ stage' \in [Timers -> {"free", "armed", "waiting", "writing"}]
        /\ UNCHANGED <<snapshot, loopVars, file, failures, histVars>>
    BY <1>t, <2>1, <2>2, ChangeTypes
  <2> QED
    BY <2>2, <2>3 DEF LogInv, TypeOK
<1>2. ASSUME NEW r \in Roots, RemoveTree(r) PROVE LogInv'
  <2> DEFINE c == [mem EXCEPT !.trees = @ \ {r}]
  <2>1. c \in Content /\ c.log = mem.log
    BY <1>t DEF Content
  <2>2. Change(c) /\ seen' = seen
    BY <1>2 DEF RemoveTree
  <2> HIDE DEF c
  <2>3. /\ mem' \in Content /\ mem'.log = mem.log /\ dirty' = TRUE /\ save_timer' \in Timers
        /\ stage' \in [Timers -> {"free", "armed", "waiting", "writing"}]
        /\ UNCHANGED <<snapshot, loopVars, file, failures, histVars>>
    BY <1>t, <2>1, <2>2, ChangeTypes
  <2> QED
    BY <2>2, <2>3 DEF LogInv, TypeOK
<1>3. ASSUME NEW m \in Messages, RecordMessageId(m) PROVE LogInv'
  <2> DEFINE log == Capped(Append(mem.log, m))
             c == [mem EXCEPT !.log = log]
  <2>1. m \notin ToSet(mem.log) /\ Change(c) /\ seen' = ToSet(log)
    BY <1>3, <1>t DEF RecordMessageId
  <2>2. log \in Seq(Messages) /\ LogOK(log) /\ ToSet(log) \subseteq Messages
    BY <1>t, <2>1, CappedLog
  <2> HIDE DEF log
  <2>3. c \in Content /\ c.log = log
    BY <1>t, <2>2 DEF Content
  <2> HIDE DEF c
  <2>4. /\ mem' \in Content /\ mem'.log = log /\ dirty' = TRUE /\ save_timer' \in Timers
        /\ stage' \in [Timers -> {"free", "armed", "waiting", "writing"}]
        /\ UNCHANGED <<snapshot, loopVars, file, failures, histVars>>
    BY <2>1, <2>2, <2>3, ChangeTypes
  <2> QED
    BY <2>1, <2>2, <2>4 DEF LogInv, TypeOK
<1>4. ASSUME NEW t \in Timers, TimerFires(t) PROVE LogInv'
  BY <1>4 DEF LogInv, TypeOK, TimerFires
<1>5. ASSUME NEW t \in Timers, TimerLocks(t) PROVE LogInv'
  BY <1>5, <1>t DEF LogInv, TypeOK, TimerLocks
<1>6. ASSUME NEW t \in Timers, TimerWrites(t) PROVE LogInv'
  <2>1. written' \in Nat
    BY <1>6, <1>t, LaterFacts DEF TimerWrites, Replace, LogInv, TypeOK
  <2> QED
    BY <1>6, <1>e, <1>t, <2>1 DEF LogInv, TypeOK, TimerWrites, TimerEnds, Replace
<1>7. ASSUME NEW t \in Timers, TimerFails(t) PROVE LogInv'
  <2>1. failed' \in Nat /\ failures' \in Nat
    <3>1. failed \in Nat /\ failures \in Nat
      BY DEF LogInv, TypeOK
    <3>2. failed' = Later(failed, snapshot[t].at) /\ failures' = failures + 1
      BY <1>7 DEF TimerFails, Fails
    <3>3. failed' \in Nat
      BY <1>t, <3>1, <3>2, LaterFacts
    <3> QED
      BY <3>1, <3>2, <3>3
  <2> QED
    BY <1>7, <1>e, <1>t, <2>1 DEF LogInv, TypeOK, TimerFails, TimerEnds, Fails
<1>8. ASSUME FlushPendingSave PROVE LogInv'
  <2>1. /\ FlushSave(mem)
        /\ UNCHANGED <<mem, seen, snapshot, file, failures, written, failed, promised>>
    BY <1>8 DEF FlushPendingSave
  <2>2. /\ loop' = "writes" /\ flushing' = mem /\ taken' \in Nat
        /\ dirty' = FALSE /\ save_timer' = None /\ alone' \in BOOLEAN
        /\ stage' \in [Timers -> {"free", "armed", "waiting", "writing"}]
    BY <1>t, <2>1, FlushTypes
  <2> QED
    BY <1>t, <2>1, <2>2 DEF LogInv, TypeOK
<1>9. ASSUME ClearAll PROVE LogInv'
  <2>1. /\ mem' = [Empty EXCEPT !.at = mem.at + 1] /\ seen' = {} /\ FlushSave(mem')
        /\ UNCHANGED <<snapshot, file, failures, written, failed, promised>>
    BY <1>9 DEF ClearAll
  <2>2. mem' \in Content /\ mem'.log = Empty.log
    <3>1. mem.at + 1 \in Nat
      BY <1>t
    <3>2. Empty \in Content
      BY <1>e
    <3> QED
      BY <2>1, <3>1, <3>2 DEF Content
  <2>3. /\ loop' = "writes" /\ flushing' = mem' /\ taken' \in Nat
        /\ dirty' = FALSE /\ save_timer' = None /\ alone' \in BOOLEAN
        /\ stage' \in [Timers -> {"free", "armed", "waiting", "writing"}]
    BY <2>1, <2>2, FlushTypes
  <2> QED
    BY <1>e, <2>1, <2>2, <2>3 DEF LogInv, TypeOK
<1>10. ASSUME FlushWrites PROVE LogInv'
  <2>1. written' \in Nat
    BY <1>10, <1>t, LaterFacts DEF FlushWrites, Replace, LogInv, TypeOK
  <2> QED
    BY <1>10, <1>e, <1>t, <2>1 DEF LogInv, TypeOK, FlushWrites, FlushEnds, Replace
<1>11. ASSUME FlushFails PROVE LogInv'
  <2>1. failed' \in Nat /\ failures' \in Nat
    <3>1. failed \in Nat /\ failures \in Nat
      BY DEF LogInv, TypeOK
    <3>2. failed' = Later(failed, flushing.at) /\ failures' = failures + 1
      BY <1>11 DEF FlushFails, Fails
    <3>3. failed' \in Nat
      BY <1>t, <3>1, <3>2, LaterFacts
    <3> QED
      BY <3>1, <3>2, <3>3
  <2> QED
    BY <1>11, <1>e, <1>t, <2>1 DEF LogInv, TypeOK, FlushFails, FlushEnds, Fails
<1>12. ASSUME Restart PROVE LogInv'
  <2>1. ToSet(file.log) \subseteq Messages /\ file.log \in Seq(Messages)
    BY <1>t, LenProperties, ElementOfSeq DEF Content, ToSet
  <2>2. /\ mem' = file /\ file' = file /\ flushing' = Empty
        /\ snapshot' = [t \in Timers |-> Empty] /\ seen' = ToSet(file.log)
    BY <1>12 DEF Restart
  <2>3. /\ mem' \in Content /\ flushing' \in Content /\ file' \in Content
        /\ snapshot' \in [Timers -> Content] /\ seen' \in SUBSET Messages
    BY <1>e, <1>t, <2>1, <2>2
  <2>4. dirty' \in BOOLEAN /\ save_timer' \in Timers \union {None}
    BY <1>12 DEF Restart
  <2>5. loop' \in {"runs", "writes"} /\ alone' \in BOOLEAN
    BY <1>12 DEF Restart
  <2>6. stage' \in [Timers -> {"free", "armed", "waiting", "writing"}]
    BY <1>12 DEF Restart
  <2>7. failures' \in Nat
    BY <1>12 DEF Restart, LogInv, TypeOK
  <2>8. {taken', written', failed', promised'} \subseteq Nat
    BY <1>12, <1>t DEF Restart
  <2>9. TypeOK'
    BY <2>3, <2>4, <2>5, <2>6, <2>7, <2>8 DEF TypeOK
  <2> QED
    BY <1>e, <2>2, <2>9 DEF LogInv
<1>13. CASE UNCHANGED vars
  BY <1>13 DEF vars, LogInv, TypeOK
<1> QED
  BY <1>1, <1>2, <1>3, <1>4, <1>5, <1>6, <1>7, <1>8, <1>9, <1>10, <1>11, <1>12, <1>13
     DEF Next, TimerStep, LoopWrites

LEMMA LogInit == Init => LogInv
<1> SUFFICES ASSUME Init PROVE LogInv
  OBVIOUS
<1>1. Empty \in Content /\ LogOK(Empty.log) /\ ToSet(Empty.log) = {}
  BY EmptyFacts
<1>2. TypeOK
  <2>1. /\ mem \in Content /\ flushing \in Content /\ file \in Content
        /\ snapshot \in [Timers -> Content]
    BY <1>1 DEF Init
  <2>2. seen \in SUBSET Messages /\ dirty \in BOOLEAN
    BY DEF Init
  <2>3. save_timer \in Timers \union {None} /\ loop \in {"runs", "writes"}
    BY DEF Init
  <2>4. stage \in [Timers -> {"free", "armed", "waiting", "writing"}]
    BY DEF Init
  <2>5. failures \in Nat /\ {taken, written, failed, promised} \subseteq Nat
    BY DEF Init
  <2>6. alone \in BOOLEAN
    BY DEF Init
  <2> QED
    BY <2>1, <2>2, <2>3, <2>4, <2>5, <2>6 DEF TypeOK
<1> QED
  BY <1>1, <1>2 DEF Init, LogInv

\* In every reachable state the content is well typed: the log, its index and
\* its cap agree, in memory and in the file.
THEOREM StoreTypeCorrect == Spec => []TypeOK
<1>1. LogInv => TypeOK
  BY DEF LogInv
<1> QED
  BY <1>1, LogInit, LogStep, PTL DEF Spec

\* record_message_id with the restarts and the cap: LogSound, for any messages.
THEOREM LogCorrect == Spec => []LogSound
<1>1. LogInv => LogSound
  BY DEF LogInv, LogSound, LogOK
<1> QED
  BY <1>1, LogInit, LogStep, PTL DEF Spec

(***************************************************************************)
(* A change is taken by the timer the store knows of, or was taken.        *)
(***************************************************************************)
LEMMA ForgottenStep == LogInv /\ NothingForgotten /\ [Next]_vars => NothingForgotten'
<1> SUFFICES ASSUME LogInv, NothingForgotten, [Next]_vars PROVE NothingForgotten'
  OBVIOUS
<1> USE DEF histVars, loopVars, memVars, timerVars
<1>t. /\ TypeOK
      /\ mem.at \in Nat /\ file.at \in Nat /\ taken \in Nat
      /\ stage \in [Timers -> {"free", "armed", "waiting", "writing"}]
      /\ save_timer \in Timers \union {None}
  BY DEF LogInv, TypeOK, Content
<1>1. ASSUME NEW c, Change(c) PROVE NothingForgotten'
  <2>1. dirty' = TRUE /\ save_timer' \in Timers /\ stage'[save_timer'] = "armed"
    BY <1>1, <1>t, ScheduleTypes DEF Change
  <2> QED
    BY <2>1, NoneAssumption DEF NothingForgotten
<1>2. ASSUME NEW t \in Timers, TimerFires(t) PROVE NothingForgotten'
  BY <1>2, <1>t DEF NothingForgotten, TimerFires
<1>3. ASSUME NEW t \in Timers, TimerLocks(t) PROVE NothingForgotten'
  <2>1. mem.at <= taken'
    BY <1>3, <1>t DEF NothingForgotten, TimerLocks
  <2>2. taken' \in Nat /\ mem' = mem
    BY <1>3, <1>t DEF TimerLocks
  <2> QED
    BY <1>t, <2>1, <2>2 DEF NothingForgotten
<1>4. ASSUME NEW t \in Timers, TimerEnds(t),
             mem' = mem, taken' = taken, save_timer' = save_timer, dirty' = dirty \/ dirty' = TRUE
      PROVE  NothingForgotten'
  BY <1>4, <1>t DEF NothingForgotten, TimerEnds
<1>5. ASSUME FlushPendingSave \/ ClearAll PROVE NothingForgotten'
  <2>1. taken' = mem'.at
    BY <1>5 DEF FlushPendingSave, ClearAll, FlushSave
  <2>2. mem'.at \in Nat
    BY <1>5, <1>t, LogStep DEF Next, LogInv, TypeOK, Content
  <2> QED
    BY <2>1, <2>2 DEF NothingForgotten
<1>6. ASSUME FlushWrites \/ FlushFails PROVE NothingForgotten'
  BY <1>6, <1>t DEF NothingForgotten, FlushWrites, FlushFails, Fails
<1>7. ASSUME Restart PROVE NothingForgotten'
  BY <1>7, <1>t DEF NothingForgotten, Restart
<1>8. CASE UNCHANGED vars
  BY <1>8 DEF vars, NothingForgotten
<1> QED
  BY <1>1, <1>2, <1>3, <1>4, <1>5, <1>6, <1>7, <1>8
     DEF Next, TimerStep, LoopWrites, SaveTree, RemoveTree, RecordMessageId, TimerWrites,
         TimerFails, Fails

\* Whatever timers run, could not be cancelled or fail: no change is left without
\* a timer that will save it.
THEOREM NothingForgottenCorrect == Spec => []NothingForgotten
<1>1. Init => NothingForgotten
  BY DEF Init, NothingForgotten, Empty
<1> QED
  BY <1>1, LogInit, LogStep, ForgottenStep, PTL DEF Spec

(***************************************************************************)
(* What a flush that was alone promises is in the file, and nothing older  *)
(* is about to be written: the timers that began to write after it began   *)
(* write what it writes.                                                   *)
(***************************************************************************)
FlushInv ==
    /\ promised <= mem.at /\ promised <= file.at
    /\ \A t \in Timers : stage[t] = "writing" => promised <= snapshot[t].at
    /\ loop = "writes" => flushing.at = mem.at
    /\ loop = "writes" /\ alone =>
          \A t \in Timers : stage[t] = "writing" => snapshot[t].at = mem.at

LEMMA FlushStep == LogInv /\ FlushInv /\ [Next]_vars => FlushInv'
<1> SUFFICES ASSUME LogInv, FlushInv, [Next]_vars PROVE FlushInv'
  OBVIOUS
<1> USE DEF histVars, loopVars, memVars, timerVars
<1>t. /\ TypeOK
      /\ mem.at \in Nat /\ file.at \in Nat /\ promised \in Nat /\ flushing.at \in Nat
      /\ mem \in Content /\ flushing \in Content
      /\ \A t \in Timers : snapshot[t].at \in Nat
      /\ snapshot \in [Timers -> Content]
      /\ stage \in [Timers -> {"free", "armed", "waiting", "writing"}]
  BY DEF LogInv, TypeOK, Content
<1>1. ASSUME NEW c \in Content, Change(c) PROVE FlushInv'
  <2>1. mem'.at = mem.at + 1 /\ loop = "runs" /\ loop' = "runs"
        /\ UNCHANGED <<promised, file, snapshot>>
    BY <1>1 DEF Change, Content
  <2>2. \A t \in Timers : stage'[t] = "writing" <=> stage[t] = "writing"
    BY <1>1, <1>t, ScheduleTypes DEF Change
  <2> QED
    BY <1>t, <2>1, <2>2 DEF FlushInv
<1>2. ASSUME NEW t \in Timers, TimerFires(t) PROVE FlushInv'
  BY <1>2, <1>t DEF FlushInv, TimerFires
<1>3. ASSUME NEW t \in Timers, TimerLocks(t) PROVE FlushInv'
  BY <1>3, <1>t DEF FlushInv, TimerLocks
<1>4. ASSUME NEW t \in Timers, TimerWrites(t) PROVE FlushInv'
  BY <1>4, <1>t DEF FlushInv, TimerWrites, TimerEnds, Replace
<1>5. ASSUME NEW t \in Timers, TimerFails(t) PROVE FlushInv'
  BY <1>5, <1>t DEF FlushInv, TimerFails, TimerEnds, Fails
<1>6. ASSUME FlushPendingSave PROVE FlushInv'
  <2>1. \A t \in Timers : stage'[t] = "writing" <=> stage[t] = "writing"
    BY <1>6, <1>t, FlushTypes DEF FlushPendingSave
  <2> QED
    BY <1>6, <1>t, <2>1 DEF FlushInv, FlushPendingSave, FlushSave
<1>7. ASSUME ClearAll PROVE FlushInv'
  <2>1. mem'.at = mem.at + 1 /\ mem' \in Content
    BY <1>7, <1>t, LogStep DEF ClearAll, Empty, Next, LogInv, TypeOK
  <2>2. \A t \in Timers : stage'[t] = "writing" <=> stage[t] = "writing"
    BY <1>7, <1>t, <2>1, FlushTypes DEF ClearAll
  <2> QED
    BY <1>7, <1>t, <2>1, <2>2 DEF FlushInv, ClearAll, FlushSave
<1>8. ASSUME FlushWrites PROVE FlushInv'
  BY <1>8, <1>t DEF FlushInv, FlushWrites, FlushEnds, Replace
<1>9. ASSUME FlushFails PROVE FlushInv'
  BY <1>9, <1>t DEF FlushInv, FlushFails, FlushEnds, Fails
<1>10. ASSUME Restart PROVE FlushInv'
  BY <1>10, <1>t DEF FlushInv, Restart
<1>11. CASE UNCHANGED vars
  BY <1>11 DEF vars, FlushInv
<1>12. ASSUME NEW r \in Roots, SaveTree(r) \/ RemoveTree(r) PROVE FlushInv'
  <2>1. /\ [mem EXCEPT !.trees = @ \union {r}] \in Content
        /\ [mem EXCEPT !.trees = @ \ {r}] \in Content
    BY <1>t DEF Content
  <2> QED
    BY <1>1, <1>12, <2>1 DEF SaveTree, RemoveTree
<1>13. ASSUME NEW m \in Messages, RecordMessageId(m) PROVE FlushInv'
  <2>1. m \notin ToSet(mem.log) /\ LogOK(mem.log) /\ mem.log \in Seq(Messages)
    BY <1>13, <1>t DEF RecordMessageId, LogInv, Content
  <2>2. Capped(Append(mem.log, m)) \in Seq(Messages)
    BY <2>1, CappedLog
  <2>3. [mem EXCEPT !.log = Capped(Append(mem.log, m))] \in Content
    BY <1>t, <2>2 DEF Content
  <2> QED
    BY <1>1, <1>13, <2>3 DEF RecordMessageId
<1> QED
  BY <1>2, <1>3, <1>4, <1>5, <1>6, <1>7, <1>8, <1>9, <1>10, <1>11, <1>12, <1>13
     DEF Next, TimerStep, LoopWrites

\* flush_pending_save and clear_all: what returned while no timer was writing is
\* never undone, by any timer, failure or restart.
THEOREM FlushAloneCorrect == Spec => []FlushAloneIsDurable
<1>1. Init => FlushInv
  BY DEF Init, FlushInv, Empty
<1>2. LogInv /\ FlushInv => FlushAloneIsDurable
  BY DEF LogInv, TypeOK, Content, FlushInv, FlushAloneIsDurable
<1> QED
  BY <1>1, <1>2, LogInit, LogStep, FlushStep, PTL DEF Spec
=============================================================================
