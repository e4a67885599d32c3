---------------------------- MODULE StreamProofs ----------------------------
(***************************************************************************)
(* What TLAPS proves about the two stream transports.  Of NativeStream:    *)
(* its types, that thinking is hidden from those who do not want it, that  *)
(* a client gets the content of one attempt and whole tools, and that the  *)
(* events it takes are in order.  Of ChatStream: its types, one attempt,   *)
(* whole tools, and that it implements StreamContract.                     *)
(*                                                                         *)
(* The argument is about sequences of events: Reaches(rule, c, s, d) says  *)
(* that the events s may come one after the other to the client c, and     *)
(* take it to d.  The rule is {}, that of StreamContract, which ChatStream *)
(* keeps to, or has the liberties that NativeStream takes (see             *)
(* Proper).  Both inductive invariants, Inv and ChatInv, say that what the *)
(* generator has handed out and still holds takes the client to what the   *)
(* tracker, or the builder, has.                                           *)
(*                                                                         *)
(* The module has, in this order: sequences of events; what stops and      *)
(* repairs of many blocks come to; the events of NativeStream and where    *)
(* they lead; Inv; a lemma for every action; the theorems.  Then the same  *)
(* for ChatStream: the operators of the builder and where their events     *)
(* lead; ChatInv; a lemma for every action; the theorems.                  *)
(***************************************************************************)
EXTENDS NativeStream, FiniteSetTheorems, SequenceTheorems, TLAPS

(***************************************************************************)
(* A client that takes events.  What counts of it is the stage of its      *)
(* message, the blocks it saw open, the indexes it saw used, and the tool  *)
(* blocks it has without all their arguments.                              *)
(***************************************************************************)
Client == [stage |-> wire.stage, open |-> wire.open, used |-> wire.used, broken |-> broken]

Took(c, e) ==
    [stage  |-> CASE e.event = "message_start" -> "content"
                  [] e.event = "message_delta" -> "ending"
                  [] e.event = "message_stop"  -> "stopped"
                  [] OTHER -> c.stage,
     open   |-> CASE e.event = "content_block_start" -> c.open \union {<<e.index, e.kind>>}
                  [] e.event = "content_block_stop"  -> {b \in c.open : b[1] # e.index}
                  [] OTHER -> c.open,
     used   |-> IF e.event = "content_block_start" THEN c.used \union {e.index} ELSE c.used,
     broken |-> IF e.kind # "tool_use" \/ e.event = "content_block_stop" THEN c.broken
                ELSE IF e.args = "whole" THEN c.broken \ {e.index}
                ELSE c.broken \union {e.index}]

\* Which events may come next.  A rule is a set of liberties: none of them for the
\* contract of StreamContract.  A provider that speaks the Anthropic API itself has
\* that of an "answer", whose order counts in the content of the message only, and
\* as WellFormed says "repairs" once a recovery vouches for its tools, and "delta"
\* and "stop" once it has ended its message itself.  And what else belongs to a tool
\* belongs to a block that was started.
Proper(rule, c, e) ==
    /\ \/ Contract!Allowed(c, e)
       \/ /\ "answer" \in rule
          /\ c.stage = "content" =>
               \/ /\ "repairs" \in rule
                  /\ e.event = "content_block_delta"
                  /\ e.kind = "tool_use" /\ e.args = "whole" /\ e.index \in c.used
               \/ "delta" \in rule /\ e.event = "message_delta"
               \/ "stop" \in rule /\ e.event = "message_stop"
    /\ "answer" \in rule /\ e.event = "message_stop" => "stop" \in rule \/ c.open = {}
    /\ e.kind = "tool_use" /\ e.event \notin {"content_block_start", "content_block_stop"}
        => e.index \in c.used

\* p is what the client goes through with the events of s.
Path(rule, c, s, p) ==
    /\ p[0] = c
    /\ \A k \in 1 .. Len(s) :
        Proper(rule, p[k - 1], s[k]) /\ p[k] = Took(p[k - 1], s[k])

Reaches(rule, c, s, d) == \E p : Path(rule, c, s, p) /\ p[Len(s)] = d

LEMMA ReachesNothing ==
    ASSUME NEW v, NEW c
    PROVE  Reaches(v, c, <<>>, c)
<1> DEFINE p == [k \in {0} |-> c]
<1>1. Path(v, c, <<>>, p) /\ p[Len(<<>>)] = c
  BY DEF Path
<1> HIDE DEF p
<1> QED
  BY <1>1 DEF Reaches

LEMMA ReachesOne ==
    ASSUME NEW v, NEW c, NEW e, Proper(v, c, e)
    PROVE  Reaches(v, c, <<e>>, Took(c, e))
<1> DEFINE p == [k \in 0 .. 1 |-> IF k = 0 THEN c ELSE Took(c, e)]
<1>1. p[0] = c /\ p[1] = Took(c, e)
  OBVIOUS
<1>2. Len(<<e>>) = 1 /\ <<e>>[1] = e
  OBVIOUS
<1> HIDE DEF p
<1>3. Path(v, c, <<e>>, p)
  <2> SUFFICES ASSUME NEW k \in 1 .. Len(<<e>>)
               PROVE  Proper(v, p[k - 1], <<e>>[k]) /\ p[k] = Took(p[k - 1], <<e>>[k])
    BY <1>1 DEF Path
  <2>1. k = 1
    BY <1>2
  <2> QED
    BY <1>1, <1>2, <2>1
<1> QED
  BY <1>1, <1>2, <1>3 DEF Reaches

LEMMA ReachesConcat ==
    ASSUME NEW v, NEW c, NEW S, NEW s \in Seq(S), NEW t \in Seq(S), NEW d, NEW f,
           Reaches(v, c, s, d), Reaches(v, d, t, f)
    PROVE  Reaches(v, c, s \o t, f)
<1>1. PICK p : Path(v, c, s, p) /\ p[Len(s)] = d
  BY DEF Reaches
<1>2. PICK q : Path(v, d, t, q) /\ q[Len(t)] = f
  BY DEF Reaches
<1>3. /\ Len(s) \in Nat /\ Len(t) \in Nat
      /\ Len(s \o t) = Len(s) + Len(t)
      /\ \A i \in 1 .. Len(s) + Len(t) :
             (s \o t)[i] = IF i <= Len(s) THEN s[i] ELSE t[i - Len(s)]
  BY ConcatProperties, LenProperties
<1> DEFINE r == [k \in 0 .. Len(s) + Len(t) |-> IF k <= Len(s) THEN p[k] ELSE q[k - Len(s)]]
<1>4. \A k \in 0 .. Len(s) + Len(t) : r[k] = IF k <= Len(s) THEN p[k] ELSE q[k - Len(s)]
  OBVIOUS
<1> HIDE DEF r
<1>5. r[0] = c
  BY <1>1, <1>3, <1>4 DEF Path
<1>6. r[Len(s) + Len(t)] = f
  <2>1. CASE Len(t) = 0
    BY <1>1, <1>2, <1>3, <1>4, <2>1 DEF Path
  <2>2. CASE Len(t) > 0
    BY <1>2, <1>3, <1>4, <2>2
  <2> QED
    BY <1>3, <2>1, <2>2
<1>7. ASSUME NEW k \in 1 .. Len(s) + Len(t)
      PROVE  Proper(v, r[k - 1], (s \o t)[k]) /\ r[k] = Took(r[k - 1], (s \o t)[k])
  <2>1. CASE k <= Len(s)
    <3>1. k \in 1 .. Len(s) /\ k - 1 \in 0 .. Len(s) + Len(t) /\ k - 1 <= Len(s)
      BY <1>3, <2>1
    <3>2. r[k] = p[k] /\ r[k - 1] = p[k - 1] /\ (s \o t)[k] = s[k]
      BY <1>3, <1>4, <2>1, <3>1
    <3> QED
      BY <1>1, <3>1, <3>2 DEF Path
  <2>2. CASE k > Len(s)
    <3>1. /\ k - Len(s) \in 1 .. Len(t) /\ k - 1 \in 0 .. Len(s) + Len(t)
          /\ (k - 1) - Len(s) = (k - Len(s)) - 1
      BY <1>3, <2>2
    <3>2. r[k] = q[k - Len(s)] /\ (s \o t)[k] = t[k - Len(s)]
      <4>1. k \in 0 .. Len(s) + Len(t) /\ ~(k <= Len(s))
        BY <1>3, <2>2
      <4>2. r[k] = q[k - Len(s)]
        BY <1>4, <4>1
      <4>3. (s \o t)[k] = t[k - Len(s)]
        BY <1>3, <4>1
      <4> QED
        BY <4>2, <4>3
    <3>3. r[k - 1] = q[(k - Len(s)) - 1]
      <4>1. CASE k - 1 = Len(s)
        <5>1. (k - Len(s)) - 1 = 0
          BY <1>3, <4>1
        <5> QED
          BY <1>1, <1>2, <1>3, <1>4, <3>1, <4>1, <5>1 DEF Path
      <4>2. CASE k - 1 > Len(s)
        BY <1>3, <1>4, <3>1, <4>2
      <4> QED
        BY <1>3, <2>2, <4>1, <4>2
    <3> QED
      BY <1>2, <3>1, <3>2, <3>3 DEF Path
  <2> QED
    BY <1>3, <2>1, <2>2
<1>8. Path(v, c, s \o t, r)
  BY <1>3, <1>5, <1>7 DEF Path
<1> QED
  BY <1>3, <1>6, <1>8 DEF Reaches

LEMMA ReachesTail ==
    ASSUME NEW v, NEW c, NEW S, NEW s \in Seq(S), s # <<>>, NEW d, Reaches(v, c, s, d)
    PROVE  Proper(v, c, Head(s)) /\ Reaches(v, Took(c, Head(s)), Tail(s), d)
<1>1. PICK p : Path(v, c, s, p) /\ p[Len(s)] = d
  BY DEF Reaches
<1>2. /\ Len(s) \in Nat /\ Len(s) > 0 /\ Head(s) = s[1]
      /\ Len(Tail(s)) = Len(s) - 1
      /\ \A i \in 1 .. Len(s) - 1 : Tail(s)[i] = s[i + 1]
  BY HeadTailProperties, LenProperties, EmptySeq
<1> DEFINE r == [k \in 0 .. Len(s) - 1 |-> p[k + 1]]
<1>3. \A k \in 0 .. Len(s) - 1 : r[k] = p[k + 1]
  OBVIOUS
<1> HIDE DEF r
<1>4. 1 \in 1 .. Len(s)
  BY <1>2
<1>5. Proper(v, c, s[1]) /\ p[1] = Took(c, s[1])
  BY <1>1, <1>4 DEF Path
<1>6. r[0] = Took(c, Head(s))
  BY <1>2, <1>3, <1>5
<1>7. ASSUME NEW k \in 1 .. Len(s) - 1
      PROVE  Proper(v, r[k - 1], Tail(s)[k]) /\ r[k] = Took(r[k - 1], Tail(s)[k])
  <2>1. k + 1 \in 1 .. Len(s) /\ (k - 1) + 1 = (k + 1) - 1 /\ k - 1 \in 0 .. Len(s) - 1
    BY <1>2
  <2>2. r[k] = p[k + 1] /\ r[k - 1] = p[(k + 1) - 1] /\ Tail(s)[k] = s[k + 1]
    BY <1>2, <1>3, <2>1
  <2> QED
    BY <1>1, <2>1, <2>2 DEF Path
<1>8. r[Len(s) - 1] = d
  BY <1>1, <1>2, <1>3
<1> QED
  BY <1>2, <1>5, <1>6, <1>7, <1>8 DEF Path, Reaches

\* More liberties, as the provider ends its message or a recovery vouches for it.
LEMMA ReachesFreely ==
    ASSUME NEW v, NEW w, "answer" \in v, v \subseteq w,
           NEW c, NEW s, NEW d, Reaches(v, c, s, d)
    PROVE  Reaches(w, c, s, d)
<1>1. ASSUME NEW x, NEW e, Proper(v, x, e) PROVE Proper(w, x, e)
  BY <1>1 DEF Proper
<1> QED
  BY <1>1 DEF Reaches, Path

-----------------------------------------------------------------------------
(***************************************************************************)
(* Blocks in the order of their indexes.                                   *)
(***************************************************************************)
LEMMA SeqsOfSet ==
    ASSUME NEW S, IsFiniteSet(S), NEW s \in SetToSeqs(S)
    PROVE  /\ s \in Seq(S)
           /\ \A x \in S : \E k \in DOMAIN s : s[k] = x
           /\ \A i, j \in DOMAIN s : s[i] = s[j] => i = j
<1>1. Cardinality(S) \in Nat
  BY FS_CardinalityType
<1>2. s \in [1 .. Cardinality(S) -> S] /\ \A i, j \in DOMAIN s : s[i] = s[j] => i = j
  BY DEF SetToSeqs
<1>3. s \in Injection(1 .. Cardinality(S), S)
  BY <1>2 DEF Injection, IsInjective
<1>4. Cardinality(1 .. Cardinality(S)) = Cardinality(S)
  BY <1>1, FS_Interval
<1>5. s \in Surjection(1 .. Cardinality(S), S)
  BY <1>3, <1>4, FS_Injection
<1>6. s \in Seq(S)
  BY <1>1, <1>2
<1> QED
  BY <1>2, <1>5, <1>6 DEF Surjection

LEMMA InOrderExists ==
    ASSUME NEW B, \A b \in B : b \in Nat, IsFiniteSet(B)
    PROVE  \E s \in SetToSeqs(B) : \A i, j \in DOMAIN s : i < j => s[i] < s[j]
<1> DEFINE upTo(b) == {c \in B : c <= b}
           n == Cardinality(B)
           rank == [b \in B |-> Cardinality(upTo(b))]
<1>0. \A c \in B : c \in Nat
  OBVIOUS
<1>1. n \in Nat /\ IsFiniteSet(1 .. n) /\ Cardinality(1 .. n) = n
  BY FS_CardinalityType, FS_Interval
<1>2. ASSUME NEW b \in B
      PROVE  IsFiniteSet(upTo(b)) /\ rank[b] \in 1 .. n
  <2>1. upTo(b) \subseteq B /\ b \in upTo(b)
    OBVIOUS
  <2>2. IsFiniteSet(upTo(b)) /\ Cardinality(upTo(b)) <= n
    BY <2>1, FS_Subset
  <2>3. Cardinality(upTo(b)) \in Nat /\ Cardinality(upTo(b)) # 0
    BY <2>1, <2>2, FS_CardinalityType, FS_EmptySet
  <2> QED
    BY <1>1, <2>2, <2>3
<1>3. ASSUME NEW a \in B, NEW b \in B, a < b
      PROVE  rank[a] < rank[b]
  <2>1. upTo(a) \subseteq upTo(b) /\ b \in upTo(b) /\ b \notin upTo(a)
    <3>1. a \in Int /\ b \in Int /\ a < b /\ \A c \in B : c \in Int
      BY <1>0, <1>3
    <3>2. ASSUME NEW c \in B, c <= a PROVE c <= b
      <4>1. c \in Int
        BY <3>1
      <4> QED
        BY <3>1, <3>2, <4>1
    <3>3. b <= b /\ ~(b <= a)
      BY <3>1
    <3> QED
      BY <3>2, <3>3, Zenon
  <2>2. upTo(a) # upTo(b)
    BY <2>1
  <2>3. Cardinality(upTo(a)) < Cardinality(upTo(b))
    BY <1>2, <2>1, <2>2, FS_Subset
  <2> QED
    BY <2>3
<1> HIDE DEF rank
<1>4. rank \in [B -> 1 .. n]
  BY <1>2 DEF rank
<1>5. \A a, b \in B : rank[a] = rank[b] => a = b
  BY <1>1, <1>3, <1>4
<1>6. rank \in Injection(B, 1 .. n)
  BY <1>4, <1>5 DEF Injection, IsInjective
<1>7. \A k \in 1 .. n : \E b \in B : rank[b] = k
  <2>1. rank \in Surjection(B, 1 .. n)
    BY <1>1, <1>6, FS_Injection
  <2> QED
    BY <2>1 DEF Surjection
<1> DEFINE s == [k \in 1 .. n |-> CHOOSE b \in B : rank[b] = k]
<1>8. \A k \in 1 .. n : s[k] \in B /\ rank[s[k]] = k
  BY <1>7
<1>9. s \in [1 .. n -> B]
  BY <1>8
<1> HIDE DEF s
<1>10. \A i, j \in 1 .. n : i < j => s[i] < s[j]
  <2> SUFFICES ASSUME NEW i \in 1 .. n, NEW j \in 1 .. n, i < j, ~(s[i] < s[j])
               PROVE  FALSE
    OBVIOUS
  <2>1. s[i] = s[j] \/ s[j] < s[i]
    <3>1. s[i] \in B /\ s[j] \in B
      BY <1>8
    <3>2. s[i] \in Int /\ s[j] \in Int
      BY <1>0, <3>1
    <3> QED
      BY <3>2
  <2>2. rank[s[i]] = i /\ rank[s[j]] = j /\ s[i] \in B /\ s[j] \in B
    BY <1>8
  <2>3. CASE s[i] = s[j]
    BY <1>1, <2>2, <2>3
  <2>4. CASE s[j] < s[i]
    BY <1>1, <1>3, <2>2, <2>4
  <2> QED
    BY <2>1, <2>3, <2>4
<1>11. s \in SetToSeqs(B)
  BY <1>1, <1>8, <1>9 DEF SetToSeqs
<1> QED
  BY <1>9, <1>10, <1>11

LEMMA InOrderFacts ==
    ASSUME NEW B, \A b \in B : b \in Nat, IsFiniteSet(B)
    PROVE  /\ InOrder(B) \in Seq(B)
           /\ \A b \in B : \E k \in DOMAIN InOrder(B) : InOrder(B)[k] = b
           /\ \A i, j \in DOMAIN InOrder(B) : InOrder(B)[i] = InOrder(B)[j] => i = j
           /\ \A i, j \in DOMAIN InOrder(B) : i < j => InOrder(B)[i] < InOrder(B)[j]
<1>1. /\ InOrder(B) \in SetToSeqs(B)
      /\ \A i, j \in DOMAIN InOrder(B) : i < j => InOrder(B)[i] < InOrder(B)[j]
  BY InOrderExists DEF InOrder
<1> QED
  BY <1>1, SeqsOfSet

-----------------------------------------------------------------------------
(***************************************************************************)
(* What the client makes of many stops, and of many repairs.               *)
(***************************************************************************)
IsClient(c) ==
    c = [stage |-> c.stage, open |-> c.open, used |-> c.used, broken |-> c.broken]

\* The client after stops of blocks, or repairs of tools, with the indexes of I.
Stopped(c, I) ==
    [stage |-> c.stage, open |-> {x \in c.open : x[1] \notin I}, used |-> c.used,
     broken |-> c.broken]
Repaired(c, I) ==
    [stage |-> c.stage, open |-> c.open, used |-> c.used, broken |-> c.broken \ I]

IndexesIn(s) == {s[k].index : k \in DOMAIN s}

LEMMA StopsReach ==
    ASSUME NEW v, NEW c, IsClient(c), NEW S, NEW s \in Seq(S),
           \A k \in DOMAIN s :
               /\ s[k].event = "content_block_stop"
               /\ \E kind \in Contract!Kinds : <<s[k].index, kind>> \in c.open,
           \A i, j \in DOMAIN s : s[i].index = s[j].index => i = j
    PROVE  Reaches(v, c, s, Stopped(c, IndexesIn(s)))
<1> DEFINE left(k) == {x \in c.open : \A j \in 1 .. k : x[1] # s[j].index}
           p == [k \in 0 .. Len(s) |->
                    [stage |-> c.stage, open |-> left(k), used |-> c.used, broken |-> c.broken]]
<1>1. Len(s) \in Nat /\ DOMAIN s = 1 .. Len(s)
  BY LenProperties
<1>2. \A k \in 0 .. Len(s) :
          p[k] = [stage |-> c.stage, open |-> left(k), used |-> c.used, broken |-> c.broken]
  OBVIOUS
<1> HIDE DEF p
<1>3. p[0] = c
  <2>1. left(0) = c.open
    OBVIOUS
  <2>2. 0 \in 0 .. Len(s)
    BY <1>1
  <2> QED
    BY <1>2, <2>1, <2>2 DEF IsClient
<1>4. ASSUME NEW k \in 1 .. Len(s)
      PROVE  Proper(v, p[k - 1], s[k]) /\ p[k] = Took(p[k - 1], s[k])
  <2>1. k - 1 \in 0 .. Len(s) /\ k \in 0 .. Len(s) /\ k \in DOMAIN s
    BY <1>1
  <2>2. PICK kind \in Contract!Kinds : <<s[k].index, kind>> \in c.open
    BY <2>1
  <2>3. <<s[k].index, kind>> \in left(k - 1)
    <3> SUFFICES ASSUME NEW j \in 1 .. k - 1 PROVE s[k].index # s[j].index
      BY <2>2
    <3>1. j \in DOMAIN s /\ j # k
      BY <1>1
    <3> QED
      BY <2>1, <3>1
  <2>4. left(k) = {x \in left(k - 1) : x[1] # s[k].index}
    <3>1. \A j : j \in 1 .. k <=> j \in 1 .. k - 1 \/ j = k
      BY <1>1
    <3> QED
      BY <3>1, Zenon
  <2>5. p[k - 1] = [stage |-> c.stage, open |-> left(k - 1), used |-> c.used, broken |-> c.broken]
    BY <1>2, <2>1
  <2>6. p[k] = [stage |-> c.stage, open |-> left(k), used |-> c.used, broken |-> c.broken]
    BY <1>2, <2>1
  <2>7. s[k].event = "content_block_stop"
    BY <2>1
  <2> HIDE DEF left
  <2>8. Contract!Allowed(p[k - 1], s[k])
    BY <2>3, <2>5, <2>7 DEF Contract!Allowed
  <2> QED
    BY <2>4, <2>5, <2>6, <2>7, <2>8 DEF Proper, Took
<1>5. left(Len(s)) = {x \in c.open : x[1] \notin IndexesIn(s)}
  BY <1>1 DEF IndexesIn
<1>6. p[Len(s)] = Stopped(c, IndexesIn(s))
  <2>1. Len(s) \in 0 .. Len(s)
    BY <1>1
  <2> QED
    BY <1>2, <1>5, <2>1 DEF Stopped
<1> QED
  BY <1>3, <1>4, <1>6 DEF Path, Reaches

LEMMA RepairsReach ==
    ASSUME NEW v, {"answer", "repairs"} \subseteq v,
           NEW c, IsClient(c), NEW S, NEW s \in Seq(S),
           \A k \in DOMAIN s :
               /\ s[k].event = "content_block_delta"
               /\ s[k].kind = "tool_use" /\ s[k].args = "whole"
               /\ s[k].index \in c.used
    PROVE  Reaches(v, c, s, Repaired(c, IndexesIn(s)))
<1> DEFINE left(k) == {x \in c.broken : \A j \in 1 .. k : x # s[j].index}
           p == [k \in 0 .. Len(s) |->
                    [stage |-> c.stage, open |-> c.open, used |-> c.used, broken |-> left(k)]]
<1>1. Len(s) \in Nat /\ DOMAIN s = 1 .. Len(s)
  BY LenProperties
<1>2. \A k \in 0 .. Len(s) :
          p[k] = [stage |-> c.stage, open |-> c.open, used |-> c.used, broken |-> left(k)]
  OBVIOUS
<1> HIDE DEF p
<1>3. p[0] = c
  <2>1. left(0) = c.broken
    OBVIOUS
  <2>2. 0 \in 0 .. Len(s)
    BY <1>1
  <2> QED
    BY <1>2, <2>1, <2>2 DEF IsClient
<1>4. ASSUME NEW k \in 1 .. Len(s)
      PROVE  Proper(v, p[k - 1], s[k]) /\ p[k] = Took(p[k - 1], s[k])
  <2>1. k - 1 \in 0 .. Len(s) /\ k \in 0 .. Len(s) /\ k \in DOMAIN s
    BY <1>1
  <2>2. left(k) = left(k - 1) \ {s[k].index}
    <3>1. \A j : j \in 1 .. k <=> j \in 1 .. k - 1 \/ j = k
      BY <1>1
    <3> QED
      BY <3>1, Zenon
  <2>3. p[k - 1] = [stage |-> c.stage, open |-> c.open, used |-> c.used, broken |-> left(k - 1)]
    BY <1>2, <2>1
  <2>4. p[k] = [stage |-> c.stage, open |-> c.open, used |-> c.used, broken |-> left(k)]
    BY <1>2, <2>1
  <2>5. /\ s[k].event = "content_block_delta"
        /\ s[k].kind = "tool_use" /\ s[k].args = "whole"
        /\ s[k].index \in c.used
    BY <2>1
  <2> HIDE DEF left
  <2> QED
    BY <2>2, <2>3, <2>4, <2>5 DEF Proper, Took
<1>5. left(Len(s)) = c.broken \ IndexesIn(s)
  BY <1>1 DEF IndexesIn
<1>6. p[Len(s)] = Repaired(c, IndexesIn(s))
  <2>1. Len(s) \in 0 .. Len(s)
    BY <1>1
  <2> QED
    BY <1>2, <1>5, <2>1 DEF Repaired
<1> QED
  BY <1>3, <1>4, <1>6 DEF Path, Reaches

-----------------------------------------------------------------------------
(***************************************************************************)
(* What the client sees of the tracker's blocks once it took all of their  *)
(* events.                                                                 *)
(***************************************************************************)
View(stage, bs) ==
    [stage  |-> stage,
     open   |-> {<<Index(b), bs[b].kind>> : b \in OpenOf(bs)},
     used   |-> {Index(b) : b \in DOMAIN bs},
     broken |-> {Index(b) : b \in {x \in DOMAIN bs :
                                       bs[x].kind = "tool_use" /\ bs[x].args # "whole"}}]

LEMMA ViewIsClient == ASSUME NEW stage, NEW bs PROVE IsClient(View(stage, bs))
  BY DEF IsClient, View

LEMMA AppendFacts ==
    ASSUME NEW S, NEW bs \in Seq(S), NEW x \in S
    PROVE  /\ Append(bs, x) \in Seq(S)
           /\ Len(bs) \in Nat /\ DOMAIN bs = 1 .. Len(bs)
           /\ DOMAIN Append(bs, x) = 1 .. Len(bs) + 1
           /\ Append(bs, x)[Len(bs) + 1] = x
           /\ \A i \in 1 .. Len(bs) : Append(bs, x)[i] = bs[i]
<1>1. Len(bs) \in Nat /\ DOMAIN bs = 1 .. Len(bs)
  BY LenProperties
<1>2. Append(bs, x) \in Seq(S) /\ Len(Append(bs, x)) = Len(bs) + 1
  BY AppendProperties
<1>3. \A i \in 1 .. Len(bs) + 1 : Append(bs, x)[i] = IF i <= Len(bs) THEN bs[i] ELSE x
  BY AppendProperties
<1>4. DOMAIN Append(bs, x) = 1 .. Len(bs) + 1
  BY <1>2, LenProperties
<1> QED
  BY <1>1, <1>2, <1>3, <1>4

\* A block starts, with the next index.
LEMMA StartTaken ==
    ASSUME NEW v, "answer" \in v, NEW stage, NEW bs \in Seq(Block), NEW new \in Block, NEW e,
           new.open, new.args = "none",
           e.event = "content_block_start", e.index = Index(Len(bs) + 1), e.kind = new.kind,
           e.args = "none"
    PROVE  /\ Took(View(stage, bs), e) = View(stage, Append(bs, new))
           /\ Proper(v, View(stage, bs), e)
<1> DEFINE n == Len(bs) + 1
           more == Append(bs, new)
<1>1. /\ Len(bs) \in Nat /\ DOMAIN bs = 1 .. Len(bs) /\ DOMAIN more = DOMAIN bs \union {n}
      /\ n \notin DOMAIN bs /\ more[n] = new
      /\ \A b \in DOMAIN bs : more[b] = bs[b] /\ b \in Int
  BY AppendFacts
<1> HIDE DEF more, n
<1>2. OpenOf(more) = OpenOf(bs) \union {n}
  BY <1>1 DEF OpenOf
<1>3. {<<Index(b), more[b].kind>> : b \in OpenOf(more)}
        = {<<Index(b), bs[b].kind>> : b \in OpenOf(bs)} \union {<<Index(n), new.kind>>}
  BY <1>1, <1>2 DEF OpenOf
<1>4. {Index(b) : b \in DOMAIN more} = {Index(b) : b \in DOMAIN bs} \union {Index(n)}
  BY <1>1
<1>5. {x \in DOMAIN more : more[x].kind = "tool_use" /\ more[x].args # "whole"}
        = {x \in DOMAIN bs : bs[x].kind = "tool_use" /\ bs[x].args # "whole"}
            \union (IF new.kind = "tool_use" THEN {n} ELSE {})
  BY <1>1
<1>6. View(stage, more).broken
        = IF new.kind = "tool_use" THEN View(stage, bs).broken \union {Index(n)}
          ELSE View(stage, bs).broken
  BY <1>5 DEF View
<1>7. e.index = Index(n)
  BY DEF n
<1>8. Index(n) \notin {Index(b) : b \in DOMAIN bs}
  BY <1>1 DEF Index, n
<1>9. Took(View(stage, bs), e) = View(stage, more)
  <2>1. Took(View(stage, bs), e)
          = [stage |-> stage,
             open |-> View(stage, bs).open \union {<<Index(n), new.kind>>},
             used |-> View(stage, bs).used \union {Index(n)},
             broken |-> IF new.kind # "tool_use" THEN View(stage, bs).broken
                        ELSE View(stage, bs).broken \union {Index(n)}]
    BY <1>7 DEF Took, View
  <2> QED
    BY <2>1, <1>3, <1>4, <1>6 DEF View
<1>10. Proper(v, View(stage, bs), e)
  BY <1>7, <1>8 DEF Proper, Contract!Allowed, View
<1> QED
  BY <1>9, <1>10 DEF more

LEMMA ReachedNothing ==
    ASSUME NEW v, NEW c, NEW d, Reaches(v, c, <<>>, d)
    PROVE  d = c
<1>1. Len(<<>>) = 0
  OBVIOUS
<1> QED
  BY <1>1 DEF Reaches, Path

LEMMA SeqMade ==
    ASSUME NEW S, NEW n \in Nat, NEW f, f = [i \in 1 .. n |-> f[i]],
           \A i \in 1 .. n : f[i] \in S
    PROVE  f \in Seq(S) /\ Len(f) = n /\ DOMAIN f = 1 .. n
<1>1. f \in [1 .. n -> S]
  OBVIOUS
<1>2. f \in Seq(S)
  BY <1>1, SeqDef
<1>3. DOMAIN f = 1 .. n
  BY <1>1
<1>4. Len(f) \in Nat /\ DOMAIN f = 1 .. Len(f)
  BY <1>2, LenProperties
<1> QED
  BY <1>2, <1>3, <1>4

LEMMA BlocksFacts ==
    ASSUME NEW bs \in Seq(Block)
    PROVE  /\ Len(bs) \in Nat /\ DOMAIN bs = 1 .. Len(bs)
           /\ bs = [b \in 1 .. Len(bs) |-> bs[b]]
           /\ \A b \in DOMAIN bs : /\ b \in Int /\ Index(b) \in Nat
                                   /\ bs[b] \in Block /\ bs[b].kind \in Contract!Kinds
                                   /\ bs[b].open \in BOOLEAN
           /\ \A a, b \in DOMAIN bs : Index(a) = Index(b) => a = b
<1>1. Len(bs) \in Nat /\ DOMAIN bs = 1 .. Len(bs)
  BY LenProperties
<1>2. bs \in [1 .. Len(bs) -> Block]
  BY LenProperties
<1>3. \A b \in DOMAIN bs : bs[b] \in Block
  BY <1>1, <1>2
<1>4. bs = [b \in 1 .. Len(bs) |-> bs[b]]
  BY <1>2
<1> QED
  BY <1>1, <1>3, <1>4 DEF Block, Index

\* More arguments go into a block.
LEMMA DeltaTaken ==
    ASSUME NEW v, NEW stage, NEW bs \in Seq(Block), NEW b \in DOMAIN bs, NEW e,
           NEW content \in Args \union {"rest"},
           e.event = "content_block_delta", e.index = Index(b), e.kind = bs[b].kind,
           e.kind = "tool_use" => (e.args = "whole" <=> content = "whole"),
           bs[b].open
    PROVE  /\ [bs EXCEPT ![b].args = content] \in Seq(Block)
           /\ Took(View(stage, bs), e) = View(stage, [bs EXCEPT ![b].args = content])
           /\ Proper(v, View(stage, bs), e)
<1> DEFINE more == [bs EXCEPT ![b].args = content]
<1>1. /\ Len(bs) \in Nat /\ DOMAIN bs = 1 .. Len(bs) /\ DOMAIN more = DOMAIN bs
      /\ \A x \in DOMAIN bs : bs[x] \in Block /\ x \in Int
  BY BlocksFacts
<1>2. /\ \A x \in DOMAIN bs : x # b => more[x] = bs[x]
      /\ more[b] = [bs[b] EXCEPT !.args = content]
  OBVIOUS
<1>3. /\ more[b] \in Block /\ more[b].kind = bs[b].kind /\ more[b].open = bs[b].open
      /\ more[b].args = content
  BY <1>1, <1>2 DEF Block
<1>4. more \in Seq(Block)
  <2>1. \A x \in DOMAIN bs : more[x] \in Block
    BY <1>1, <1>2, <1>3
  <2>2. more = [x \in 1 .. Len(bs) |-> more[x]]
    BY <1>1
  <2> HIDE DEF more
  <2> QED
    BY <1>1, <2>1, <2>2, SeqMade
<1> HIDE DEF more
<1>5. OpenOf(more) = OpenOf(bs)
  BY <1>1, <1>2, <1>3 DEF OpenOf
<1>6. {<<Index(x), more[x].kind>> : x \in OpenOf(more)}
        = {<<Index(x), bs[x].kind>> : x \in OpenOf(bs)}
  <2>1. \A x \in OpenOf(bs) : more[x].kind = bs[x].kind
    BY <1>2, <1>3 DEF OpenOf
  <2> QED
    BY <1>5, <2>1
<1>7. {x \in DOMAIN more : more[x].kind = "tool_use" /\ more[x].args # "whole"}
        = IF e.kind # "tool_use"
          THEN {x \in DOMAIN bs : bs[x].kind = "tool_use" /\ bs[x].args # "whole"}
          ELSE IF e.args = "whole"
          THEN {x \in DOMAIN bs : bs[x].kind = "tool_use" /\ bs[x].args # "whole"} \ {b}
          ELSE {x \in DOMAIN bs : bs[x].kind = "tool_use" /\ bs[x].args # "whole"} \union {b}
  <2>1. \A x \in DOMAIN bs :
            more[x].kind = bs[x].kind /\ (x # b => more[x].args = bs[x].args)
    BY <1>2, <1>3
  <2>2. more[b].args = content /\ (e.kind = "tool_use" => (e.args = "whole" <=> content = "whole"))
    BY <1>3
  <2>3. CASE e.kind # "tool_use"
    BY <1>1, <2>1, <2>3
  <2>4. CASE e.kind = "tool_use" /\ e.args = "whole"
    BY <1>1, <2>1, <2>2, <2>4
  <2>5. CASE e.kind = "tool_use" /\ e.args # "whole"
    BY <1>1, <2>1, <2>2, <2>5
  <2> QED
    BY <2>3, <2>4, <2>5
<1>8. \A x \in DOMAIN bs : Index(x) = Index(b) => x = b
  BY BlocksFacts
<1>9. View(stage, more).broken
        = IF e.kind # "tool_use" THEN View(stage, bs).broken
          ELSE IF e.args = "whole" THEN View(stage, bs).broken \ {Index(b)}
          ELSE View(stage, bs).broken \union {Index(b)}
  BY <1>7, <1>8 DEF View
<1>10. Took(View(stage, bs), e) = View(stage, more)
  <2>1. Took(View(stage, bs), e)
          = [stage |-> stage, open |-> View(stage, bs).open, used |-> View(stage, bs).used,
             broken |-> View(stage, more).broken]
    BY <1>9 DEF Took, View
  <2> QED
    BY <2>1, <1>1, <1>6 DEF View
<1>11. Proper(v, View(stage, bs), e)
  BY DEF Proper, Contract!Allowed, View, OpenOf
<1> QED
  BY <1>4, <1>10, <1>11 DEF more

\* Blocks are closed, in any order.
LEMMA CloseFacts ==
    ASSUME NEW bs \in Seq(Block), NEW B
    PROVE  /\ Close(bs, B) \in Seq(Block)
           /\ Len(Close(bs, B)) = Len(bs)
           /\ DOMAIN Close(bs, B) = DOMAIN bs
           /\ OpenOf(Close(bs, B)) = OpenOf(bs) \ B
           /\ \A b \in DOMAIN bs : /\ Close(bs, B)[b].kind = bs[b].kind
                                   /\ Close(bs, B)[b].args = bs[b].args
                                   /\ Close(bs, B)[b].named = bs[b].named
                                   /\ Close(bs, B)[b].open = (bs[b].open /\ b \notin B)
<1>1. /\ Len(bs) \in Nat /\ DOMAIN bs = 1 .. Len(bs) /\ \A x \in DOMAIN bs : bs[x] \in Block
  BY BlocksFacts
<1>2. DOMAIN Close(bs, B) = DOMAIN bs
  BY DEF Close
<1>3. \A b \in DOMAIN bs : /\ Close(bs, B)[b] \in Block
                           /\ Close(bs, B)[b].kind = bs[b].kind
                           /\ Close(bs, B)[b].args = bs[b].args
                           /\ Close(bs, B)[b].named = bs[b].named
                           /\ Close(bs, B)[b].open = (bs[b].open /\ b \notin B)
  BY <1>1 DEF Close, Block
<1>4. Close(bs, B) \in Seq(Block)
  <2>1. Close(bs, B) = [b \in 1 .. Len(bs) |-> Close(bs, B)[b]]
    BY <1>1 DEF Close
  <2> QED
    BY <1>1, <1>3, <2>1, SeqMade
<1>5. Len(Close(bs, B)) = Len(bs)
  BY <1>1, <1>2, <1>4, LenProperties
<1>6. OpenOf(Close(bs, B)) = OpenOf(bs) \ B
  BY <1>2, <1>3 DEF OpenOf
<1> QED
  BY <1>2, <1>3, <1>4, <1>5, <1>6

IndexesOf(B) == {Index(b) : b \in B}

LEMMA ViewClosed ==
    ASSUME NEW stage, NEW bs \in Seq(Block), NEW B, B \subseteq DOMAIN bs
    PROVE  View(stage, Close(bs, B)) = Stopped(View(stage, bs), IndexesOf(B))
<1> DEFINE closed == Close(bs, B)
<1>1. /\ DOMAIN closed = DOMAIN bs
      /\ OpenOf(closed) = OpenOf(bs) \ B
      /\ \A b \in DOMAIN bs : closed[b].kind = bs[b].kind /\ closed[b].args = bs[b].args
  BY CloseFacts
<1>2. \A x, y \in DOMAIN bs : Index(x) = Index(y) => x = y
  BY BlocksFacts
<1> HIDE DEF closed
<1>3. {<<Index(b), closed[b].kind>> : b \in OpenOf(closed)}
        = {x \in {<<Index(b), bs[b].kind>> : b \in OpenOf(bs)} : x[1] \notin IndexesOf(B)}
  BY <1>1, <1>2 DEF OpenOf, IndexesOf
<1>4. {x \in DOMAIN closed : closed[x].kind = "tool_use" /\ closed[x].args # "whole"}
        = {x \in DOMAIN bs : bs[x].kind = "tool_use" /\ bs[x].args # "whole"}
  BY <1>1
<1> QED
  BY <1>1, <1>3, <1>4 DEF View, Stopped, closed

LEMMA StopsTaken ==
    ASSUME NEW v, NEW stage, NEW bs \in Seq(Block), NEW B, B \subseteq OpenOf(bs),
           NEW S, NEW s \in Seq(S),
           \A k \in DOMAIN s : s[k].event = "content_block_stop",
           IndexesIn(s) = IndexesOf(B),
           \A i, j \in DOMAIN s : s[i].index = s[j].index => i = j
    PROVE  Reaches(v, View(stage, bs), s, View(stage, Close(bs, B)))
<1>1. B \subseteq DOMAIN bs
  BY DEF OpenOf
<1>2. ASSUME NEW k \in DOMAIN s
      PROVE  \E kind \in Contract!Kinds : <<s[k].index, kind>> \in View(stage, bs).open
  <2>1. PICK b \in B : s[k].index = Index(b)
    BY DEF IndexesIn, IndexesOf
  <2>2. bs[b].kind \in Contract!Kinds
    BY <1>1, BlocksFacts
  <2> QED
    BY <2>1, <2>2 DEF View
<1>3. IsClient(View(stage, bs))
  BY ViewIsClient
<1>4. Reaches(v, View(stage, bs), s, Stopped(View(stage, bs), IndexesIn(s)))
  BY <1>2, <1>3, StopsReach
<1> QED
  BY <1>1, <1>4, ViewClosed

-----------------------------------------------------------------------------
(***************************************************************************)
(* The events of the generator: those it may send in attempt n to a client *)
(* with thoughts or without.                                               *)
(***************************************************************************)
Names == {"message_start", "content_block_start", "content_block_delta", "content_block_stop",
          "message_delta", "message_stop", "error"}

Sendable(thoughts, n) ==
    {e \in [event : Names, index : Nat \union {-1}, kind : Contract!Kinds \union {"none"},
            args : Args, attempt : Int] :
        /\ e.kind = "thinking" => thoughts
        /\ e.attempt >= 0 => e.attempt = n
        /\ e.event = "content_block_start" => e.index \in Nat /\ e.kind \in Contract!Kinds}

\* Blocks of a client that has them with thoughts or without.
Shown(thoughts, bs) ==
    bs \in Seq(Block) /\ \A b \in DOMAIN bs : bs[b].kind = "thinking" => thoughts

LEMMA SendableEvent ==
    ASSUME NEW thoughts, NEW n, NEW name \in Names, NEW i \in Nat \union {-1},
           NEW kind \in Contract!Kinds \union {"none"}, NEW args \in Args, NEW attempt \in Int,
           kind = "thinking" => thoughts, attempt >= 0 => attempt = n,
           name = "content_block_start" => i \in Nat /\ kind \in Contract!Kinds
    PROVE  /\ Event(name, i, kind, args, attempt) \in Sendable(thoughts, n)
           /\ Event(name, i, kind, args, attempt).event = name
           /\ Event(name, i, kind, args, attempt).index = i
           /\ Event(name, i, kind, args, attempt).kind = kind
           /\ Event(name, i, kind, args, attempt).args = args
  BY DEF Event, Sendable

LEMMA OpenFinite ==
    ASSUME NEW bs \in Seq(Block), NEW B, B \subseteq DOMAIN bs
    PROVE  IsFiniteSet(B) /\ \A b \in B : b \in Nat
<1>1. Len(bs) \in Nat /\ DOMAIN bs = 1 .. Len(bs)
  BY BlocksFacts
<1>2. IsFiniteSet(1 .. Len(bs))
  BY <1>1, FS_Interval
<1> QED
  BY <1>1, <1>2, FS_Subset

\* The blocks of B are stopped in some order.
LEMMA StopSequence ==
    ASSUME NEW v, NEW stage, NEW thoughts, NEW bs, Shown(thoughts, bs), early_retries \in Nat,
           NEW B, B \subseteq OpenOf(bs),
           NEW o \in Seq(B), \A b \in B : \E k \in DOMAIN o : o[k] = b,
           \A i, j \in DOMAIN o : o[i] = o[j] => i = j,
           NEW s, s = [k \in DOMAIN o |-> Stop(o[k], bs[o[k]].kind)]
    PROVE  /\ s \in Seq(Sendable(thoughts, early_retries))
           /\ Reaches(v, View(stage, bs), s, View(stage, Close(bs, B)))
<1>1. bs \in Seq(Block) /\ B \subseteq DOMAIN bs
  BY DEF Shown, OpenOf
<1>2. Len(o) \in Nat /\ DOMAIN o = 1 .. Len(o) /\ \A k \in DOMAIN o : o[k] \in B
  BY LenProperties, ElementOfSeq
<1>3. ASSUME NEW k \in DOMAIN o
      PROVE  /\ s[k] \in Sendable(thoughts, early_retries)
             /\ s[k].event = "content_block_stop" /\ s[k].index = Index(o[k])
  <2>1. /\ Index(o[k]) \in Nat /\ bs[o[k]].kind \in Contract!Kinds
        /\ bs[o[k]].kind = "thinking" => thoughts
    BY <1>1, <1>2, BlocksFacts DEF Shown
  <2>2. s[k] = Event("content_block_stop", Index(o[k]), bs[o[k]].kind, "none", early_retries)
    BY DEF Stop, BlockEvent
  <2>3. "content_block_stop" \in Names /\ "none" \in Args /\ early_retries \in Int
    BY DEF Names, Args
  <2>4. Event("content_block_stop", Index(o[k]), bs[o[k]].kind, "none", early_retries)
          \in Sendable(thoughts, early_retries)
    BY <2>1, <2>3, SendableEvent
  <2> QED
    BY <2>2, <2>4 DEF Event
<1>4. s = [k \in 1 .. Len(o) |-> s[k]]
  BY <1>2
<1>5. s \in Seq(Sendable(thoughts, early_retries)) /\ DOMAIN s = DOMAIN o
  BY <1>2, <1>3, <1>4, SeqMade
<1>6. IndexesIn(s) = IndexesOf(B)
  BY <1>2, <1>3, <1>5 DEF IndexesIn, IndexesOf
<1>7. \A i, j \in DOMAIN s : s[i].index = s[j].index => i = j
  <2> SUFFICES ASSUME NEW i \in DOMAIN o, NEW j \in DOMAIN o, s[i].index = s[j].index
               PROVE  i = j
    BY <1>5
  <2>1. Index(o[i]) = Index(o[j]) /\ o[i] \in DOMAIN bs /\ o[j] \in DOMAIN bs
    BY <1>1, <1>2, <1>3
  <2>2. o[i] = o[j]
    BY <1>1, <2>1, BlocksFacts
  <2> QED
    BY <2>2
<1> QED
  BY <1>1, <1>3, <1>5, <1>6, <1>7, StopsTaken, ZenonT(40)

LEMMA ReverseFacts ==
    ASSUME NEW S, NEW o \in Seq(S), \A x \in S : \E k \in DOMAIN o : o[k] = x,
           \A i, j \in DOMAIN o : o[i] = o[j] => i = j
    PROVE  /\ Reverse(o) \in Seq(S)
           /\ \A x \in S : \E k \in DOMAIN Reverse(o) : Reverse(o)[k] = x
           /\ \A i, j \in DOMAIN Reverse(o) : Reverse(o)[i] = Reverse(o)[j] => i = j
<1> DEFINE r == Reverse(o)
<1>1. Len(o) \in Nat /\ DOMAIN o = 1 .. Len(o) /\ \A k \in DOMAIN o : o[k] \in S
  BY LenProperties, ElementOfSeq
<1>2. DOMAIN r = 1 .. Len(o) /\ \A k \in 1 .. Len(o) : r[k] = o[(Len(o) - k) + 1]
  BY DEF Reverse
<1>3. \A k \in 1 .. Len(o) : (Len(o) - k) + 1 \in 1 .. Len(o) /\ (Len(o) - ((Len(o) - k) + 1)) + 1 = k
  BY <1>1
<1>4. r = [k \in 1 .. Len(o) |-> r[k]]
  BY <1>2 DEF Reverse
<1> HIDE DEF r
<1>5. r \in Seq(S)
  BY <1>1, <1>2, <1>3, <1>4, SeqMade
<1>6. \A x \in S : \E k \in DOMAIN r : r[k] = x
  <2> SUFFICES ASSUME NEW x \in S PROVE \E k \in DOMAIN r : r[k] = x
    OBVIOUS
  <2>1. PICK k \in DOMAIN o : o[k] = x
    OBVIOUS
  <2> QED
    BY <1>1, <1>2, <1>3, <2>1
<1>7. \A i, j \in DOMAIN r : r[i] = r[j] => i = j
  <2> SUFFICES ASSUME NEW i \in 1 .. Len(o), NEW j \in 1 .. Len(o), r[i] = r[j]
               PROVE  i = j
    BY <1>2
  <2>1. /\ (Len(o) - i) + 1 \in DOMAIN o /\ (Len(o) - j) + 1 \in DOMAIN o
        /\ o[(Len(o) - i) + 1] = o[(Len(o) - j) + 1]
    BY <1>1, <1>2, <1>3
  <2>2. (Len(o) - i) + 1 = (Len(o) - j) + 1
    BY <2>1
  <2> QED
    BY <1>1, <2>2
<1> QED
  BY <1>5, <1>6, <1>7 DEF r

\* iter_close_unclosed_blocks: every open block is stopped.
LEMMA CloseAllTaken ==
    ASSUME NEW v, NEW stage, NEW thoughts, NEW bs, Shown(thoughts, bs), early_retries \in Nat
    PROVE  /\ CloseAll(bs) \in Seq(Sendable(thoughts, early_retries))
           /\ Reaches(v, View(stage, bs), CloseAll(bs), View(stage, Close(bs, OpenOf(bs))))
<1> DEFINE o == Reverse(InOrder(OpenOf(bs)))
<1>1. bs \in Seq(Block) /\ OpenOf(bs) \subseteq DOMAIN bs
  BY DEF Shown, OpenOf
<1>2. IsFiniteSet(OpenOf(bs)) /\ \A b \in OpenOf(bs) : b \in Nat
  BY <1>1, OpenFinite
<1>3. /\ InOrder(OpenOf(bs)) \in Seq(OpenOf(bs))
      /\ \A b \in OpenOf(bs) : \E k \in DOMAIN InOrder(OpenOf(bs)) : InOrder(OpenOf(bs))[k] = b
      /\ \A i, j \in DOMAIN InOrder(OpenOf(bs)) :
             InOrder(OpenOf(bs))[i] = InOrder(OpenOf(bs))[j] => i = j
  BY <1>2, InOrderFacts
<1>4. /\ o \in Seq(OpenOf(bs))
      /\ \A b \in OpenOf(bs) : \E k \in DOMAIN o : o[k] = b
      /\ \A i, j \in DOMAIN o : o[i] = o[j] => i = j
  BY <1>3, ReverseFacts
<1>5. CloseAll(bs) = [k \in DOMAIN o |-> Stop(o[k], bs[o[k]].kind)]
  BY DEF CloseAll
<1> HIDE DEF o
<1> QED
  BY <1>4, <1>5, StopSequence

\* What is missing of the arguments of the tools is added.
Whole(bs, B) == [b \in DOMAIN bs |-> IF b \in B THEN [bs[b] EXCEPT !.args = "whole"] ELSE bs[b]]

LEMMA WholeFacts ==
    ASSUME NEW bs \in Seq(Block), NEW B
    PROVE  /\ Whole(bs, B) \in Seq(Block)
           /\ DOMAIN Whole(bs, B) = DOMAIN bs
           /\ OpenOf(Whole(bs, B)) = OpenOf(bs)
           /\ \A b \in DOMAIN bs : /\ Whole(bs, B)[b].kind = bs[b].kind
                                   /\ Whole(bs, B)[b].args
                                        = IF b \in B THEN "whole" ELSE bs[b].args
<1>1. Len(bs) \in Nat /\ DOMAIN bs = 1 .. Len(bs) /\ \A x \in DOMAIN bs : bs[x] \in Block
  BY BlocksFacts
<1>2. DOMAIN Whole(bs, B) = DOMAIN bs
  BY DEF Whole
<1>3. \A b \in DOMAIN bs : /\ Whole(bs, B)[b] \in Block
                           /\ Whole(bs, B)[b].kind = bs[b].kind
                           /\ Whole(bs, B)[b].open = bs[b].open
                           /\ Whole(bs, B)[b].args = IF b \in B THEN "whole" ELSE bs[b].args
  BY <1>1 DEF Whole, Block, Args
<1>4. Whole(bs, B) \in Seq(Block)
  <2>1. Whole(bs, B) = [b \in 1 .. Len(bs) |-> Whole(bs, B)[b]]
    BY <1>1 DEF Whole
  <2> QED
    BY <1>1, <1>3, <2>1, SeqMade
<1>5. OpenOf(Whole(bs, B)) = OpenOf(bs)
  BY <1>2, <1>3 DEF OpenOf
<1> QED
  BY <1>2, <1>3, <1>4, <1>5

LEMMA RepairsTaken ==
    ASSUME NEW v, {"answer", "repairs"} \subseteq v,
           NEW stage, NEW thoughts, Shown(thoughts, blocks), early_retries \in Nat
    PROVE  /\ Repairs \in Seq(Sendable(thoughts, early_retries))
           /\ Reaches(v, View(stage, blocks), Repairs, View(stage, Whole(blocks, ToolBlocks)))
           /\ View(stage, Whole(blocks, ToolBlocks)).broken = {}
<1> DEFINE B == {b \in ToolBlocks : ~Complete(b)}
           o == Incomplete
           whole == Whole(blocks, ToolBlocks)
<1>1. blocks \in Seq(Block) /\ ToolBlocks \subseteq DOMAIN blocks /\ B \subseteq DOMAIN blocks
  BY DEF Shown, ToolBlocks
<1>2. IsFiniteSet(B) /\ \A b \in B : b \in Nat
  BY <1>1, OpenFinite
<1>3. o \in Seq(B) /\ \A b \in B : \E k \in DOMAIN o : o[k] = b
  BY <1>2, InOrderFacts DEF Incomplete
<1>4. Len(o) \in Nat /\ DOMAIN o = 1 .. Len(o) /\ \A k \in DOMAIN o : o[k] \in B
  <2> HIDE DEF o, B
  <2> QED
    BY <1>3, LenProperties, ElementOfSeq
<1>5. ASSUME NEW k \in DOMAIN o
      PROVE  /\ Repairs[k] \in Sendable(thoughts, early_retries)
             /\ Repairs[k].event = "content_block_delta" /\ Repairs[k].index = Index(o[k])
             /\ Repairs[k].kind = "tool_use" /\ Repairs[k].args = "whole"
  <2>1. Index(o[k]) \in Nat
    BY <1>1, <1>4, BlocksFacts
  <2>2. Repairs[k] = Event("content_block_delta", Index(o[k]), "tool_use", "whole", early_retries)
    BY DEF Repairs, Delta, BlockEvent
  <2>3. Event("content_block_delta", Index(o[k]), "tool_use", "whole", early_retries)
          \in Sendable(thoughts, early_retries)
    BY <2>1 DEF Event, Sendable, Names, Args, Contract!Kinds
  <2> QED
    BY <2>2, <2>3 DEF Event
<1>6. Repairs = [k \in 1 .. Len(o) |-> Repairs[k]]
  BY <1>4 DEF Repairs
<1> HIDE DEF o
<1>7. Repairs \in Seq(Sendable(thoughts, early_retries)) /\ DOMAIN Repairs = DOMAIN o
  BY <1>4, <1>5, <1>6, SeqMade
<1>8. /\ DOMAIN whole = DOMAIN blocks
      /\ OpenOf(whole) = OpenOf(blocks)
      /\ \A b \in DOMAIN blocks :
             /\ whole[b].kind = blocks[b].kind
             /\ whole[b].args = IF b \in ToolBlocks THEN "whole" ELSE blocks[b].args
  BY <1>1, WholeFacts
<1>9. View(stage, whole).broken = {}
  BY <1>8 DEF View, ToolBlocks
<1>10. \A b \in DOMAIN blocks :
          blocks[b].kind = "tool_use" /\ blocks[b].args # "whole" => b \in B
  BY DEF ToolBlocks, Complete
<1>11. View(stage, blocks).broken \ IndexesIn(Repairs) = {}
  <2> SUFFICES ASSUME NEW b \in B PROVE Index(b) \in IndexesIn(Repairs)
    <3> HIDE DEF B
    <3> QED
      BY <1>10 DEF View
  <2>1. PICK k \in DOMAIN o : o[k] = b
    BY <1>3
  <2> QED
    BY <1>5, <1>7, <2>1 DEF IndexesIn
<1>12. View(stage, whole) = Repaired(View(stage, blocks), IndexesIn(Repairs))
  <2>1. {<<Index(b), whole[b].kind>> : b \in OpenOf(whole)}
          = {<<Index(b), blocks[b].kind>> : b \in OpenOf(blocks)}
    <3>1. \A b \in OpenOf(blocks) : whole[b].kind = blocks[b].kind
      BY <1>8 DEF OpenOf
    <3> HIDE DEF whole
    <3> QED
      BY <1>8, <3>1
  <2>2. View(stage, whole).open = View(stage, blocks).open
        /\ View(stage, whole).used = View(stage, blocks).used
        /\ View(stage, whole).stage = View(stage, blocks).stage
    <3> HIDE DEF whole
    <3> QED
      BY <1>8, <2>1 DEF View
  <2>3. IsClient(View(stage, whole))
    BY ViewIsClient
  <2> HIDE DEF whole
  <2> QED
    BY <1>9, <1>11, <2>2, <2>3 DEF Repaired, IsClient
<1>13. ASSUME NEW k \in DOMAIN Repairs PROVE Repairs[k].index \in View(stage, blocks).used
  BY <1>1, <1>4, <1>5, <1>7 DEF View
<1>14. IsClient(View(stage, blocks))
  BY ViewIsClient
<1>15. Reaches(v, View(stage, blocks), Repairs,
               Repaired(View(stage, blocks), IndexesIn(Repairs)))
  BY <1>5, <1>7, <1>13, <1>14, RepairsReach
<1> QED
  BY <1>7, <1>9, <1>12, <1>15

-----------------------------------------------------------------------------
(***************************************************************************)
(* Sequences of events that attempt n may send, and that take the client   *)
(* from c to d.                                                            *)
(***************************************************************************)
Sends(v, thoughts, n, c, s, d) == s \in Seq(Sendable(thoughts, n)) /\ Reaches(v, c, s, d)

LEMMA SendsNothing ==
    ASSUME NEW v, NEW thoughts, NEW n, NEW c
    PROVE  Sends(v, thoughts, n, c, <<>>, c)
  BY ReachesNothing, EmptySeq DEF Sends

LEMMA SendsOne ==
    ASSUME NEW v, NEW thoughts, NEW n, NEW c, NEW e \in Sendable(thoughts, n), Proper(v, c, e)
    PROVE  Sends(v, thoughts, n, c, <<e>>, Took(c, e))
<1>1. <<e>> \in Seq(Sendable(thoughts, n))
  OBVIOUS
<1> QED
  BY <1>1, ReachesOne DEF Sends

LEMMA SendsConcat ==
    ASSUME NEW v, NEW thoughts, NEW n, NEW c, NEW s, NEW d, NEW t, NEW f,
           Sends(v, thoughts, n, c, s, d), Sends(v, thoughts, n, d, t, f)
    PROVE  Sends(v, thoughts, n, c, s \o t, f)
<1>1. s \o t \in Seq(Sendable(thoughts, n))
  BY ConcatProperties DEF Sends
<1>2. Reaches(v, c, s \o t, f)
  BY ReachesConcat DEF Sends
<1> QED
  BY <1>1, <1>2 DEF Sends

LEMMA SendsFreely ==
    ASSUME NEW v, NEW w, "answer" \in v, v \subseteq w,
           NEW thoughts, NEW n, NEW c, NEW s, NEW d, Sends(v, thoughts, n, c, s, d)
    PROVE  Sends(w, thoughts, n, c, s, d)
  BY ReachesFreely DEF Sends

\* Attempts an event of attempt n may name: this one, or -1.
OfAttempt(attempt, n) == attempt \in Int /\ (attempt >= 0 => attempt = n)

LEMMA PlainSendable ==
    ASSUME NEW thoughts, NEW n, NEW attempt, OfAttempt(attempt, n),
           NEW name \in Names \ {"content_block_start"}
    PROVE  PlainEvent(name, attempt) \in Sendable(thoughts, n)
  BY DEF OfAttempt, PlainEvent, Event, Sendable, Args

LEMMA MessageStartSent ==
    ASSUME NEW v, "answer" \in v, NEW thoughts, NEW n, NEW attempt, OfAttempt(attempt, n),
           NEW stage, stage # "content", NEW bs
    PROVE  Sends(v, thoughts, n, View(stage, bs), <<PlainEvent("message_start", attempt)>>,
                 View("content", bs))
<1> DEFINE e == PlainEvent("message_start", attempt)
<1>1. e \in Sendable(thoughts, n)
  BY PlainSendable DEF Names
<1>2. Took(View(stage, bs), e) = View("content", bs)
  BY DEF Took, View, PlainEvent, Event
<1>3. Proper(v, View(stage, bs), e)
  BY DEF Proper, View, PlainEvent, Event
<1> HIDE DEF e
<1>4. Sends(v, thoughts, n, View(stage, bs), <<e>>, Took(View(stage, bs), e))
  BY <1>1, <1>3, SendsOne
<1> QED
  BY <1>2, <1>4 DEF e

LEMMA MessageDeltaSent ==
    ASSUME NEW v, "answer" \in v, NEW thoughts, NEW n, NEW attempt, OfAttempt(attempt, n),
           NEW stage, NEW bs, "delta" \in v \/ (OpenOf(bs) = {} /\ DOMAIN bs # {})
    PROVE  Sends(v, thoughts, n, View(stage, bs), <<PlainEvent("message_delta", attempt)>>,
                 View("ending", bs))
<1> DEFINE e == PlainEvent("message_delta", attempt)
<1>1. e \in Sendable(thoughts, n)
  BY PlainSendable DEF Names
<1>2. Took(View(stage, bs), e) = View("ending", bs)
  BY DEF Took, View, PlainEvent, Event
<1>3. Proper(v, View(stage, bs), e)
  <2>1. /\ e.event = "message_delta" /\ e.kind = "none"
        /\ "answer" \in v
    BY DEF PlainEvent, Event
  <2>2. \/ "delta" \in v
        \/ View(stage, bs).open = {} /\ View(stage, bs).used # {}
    BY DEF View
  <2> HIDE DEF e
  <2> QED
    BY <2>1, <2>2 DEF Proper, Contract!Allowed
<1> HIDE DEF e
<1>4. Sends(v, thoughts, n, View(stage, bs), <<e>>, Took(View(stage, bs), e))
  BY <1>1, <1>3, SendsOne
<1> QED
  BY <1>2, <1>4 DEF e

LEMMA MessageStopSent ==
    ASSUME NEW v, "answer" \in v, NEW thoughts, NEW n, NEW attempt, OfAttempt(attempt, n),
           NEW stage, NEW bs,
           "stop" \in v \/ (stage # "content" /\ OpenOf(bs) = {})
    PROVE  Sends(v, thoughts, n, View(stage, bs), <<PlainEvent("message_stop", attempt)>>,
                 View("stopped", bs))
<1> DEFINE e == PlainEvent("message_stop", attempt)
<1>1. e \in Sendable(thoughts, n)
  BY PlainSendable DEF Names
<1>2. Took(View(stage, bs), e) = View("stopped", bs)
  BY DEF Took, View, PlainEvent, Event
<1>3. Proper(v, View(stage, bs), e)
  <2>1. /\ e.event = "message_stop" /\ e.kind = "none"
        /\ "answer" \in v
    BY DEF PlainEvent, Event
  <2>2. \/ "stop" \in v
        \/ View(stage, bs).open = {} /\ View(stage, bs).stage # "content"
    BY DEF View
  <2> HIDE DEF e
  <2> QED
    BY <2>1, <2>2 DEF Proper, Contract!Allowed
<1> HIDE DEF e
<1>4. Sends(v, thoughts, n, View(stage, bs), <<e>>, Took(View(stage, bs), e))
  BY <1>1, <1>3, SendsOne
<1> QED
  BY <1>2, <1>4 DEF e

LEMMA ErrorSent ==
    ASSUME NEW v, "answer" \in v, NEW thoughts, NEW n, NEW attempt, OfAttempt(attempt, n),
           NEW stage, NEW bs
    PROVE  Sends(v, thoughts, n, View(stage, bs), <<PlainEvent("error", attempt)>>,
                 View(stage, bs))
<1> DEFINE e == PlainEvent("error", attempt)
<1>1. e \in Sendable(thoughts, n)
  BY PlainSendable DEF Names
<1>2. Took(View(stage, bs), e) = View(stage, bs)
  BY DEF Took, View, PlainEvent, Event
<1>3. Proper(v, View(stage, bs), e)
  BY DEF Proper, Contract!Allowed, View, PlainEvent, Event
<1> HIDE DEF e
<1>4. Sends(v, thoughts, n, View(stage, bs), <<e>>, Took(View(stage, bs), e))
  BY <1>1, <1>3, SendsOne
<1> QED
  BY <1>2, <1>4 DEF e

LEMMA StartSent ==
    ASSUME NEW v, "answer" \in v, NEW thoughts, NEW n, NEW attempt, OfAttempt(attempt, n),
           NEW stage, NEW bs, Shown(thoughts, bs),
           NEW kind \in Contract!Kinds, kind = "thinking" => thoughts, NEW named \in BOOLEAN
    PROVE  /\ Shown(thoughts, Append(bs, NewBlock(kind, named)))
           /\ Sends(v, thoughts, n, View(stage, bs),
                    <<Event("content_block_start", Index(Len(bs) + 1), kind, "none", attempt)>>,
                    View(stage, Append(bs, NewBlock(kind, named))))
<1> DEFINE e == Event("content_block_start", Index(Len(bs) + 1), kind, "none", attempt)
           new == NewBlock(kind, named)
<1>1. /\ new \in Block /\ new.open /\ new.args = "none" /\ new.kind = kind
  BY DEF NewBlock, Block, Args
<1>2. /\ e.event = "content_block_start" /\ e.index = Index(Len(bs) + 1) /\ e.kind = kind
      /\ e.args = "none"
  BY DEF Event
<1>3. bs \in Seq(Block) /\ Len(bs) \in Nat /\ Index(Len(bs) + 1) \in Nat
  BY BlocksFacts DEF Shown, Index
<1>4. e \in Sendable(thoughts, n)
  BY <1>3 DEF Sendable, Event, OfAttempt, Names, Args
<1>5. Shown(thoughts, Append(bs, new))
  <2>1. /\ Append(bs, new) \in Seq(Block)
        /\ \A b \in DOMAIN Append(bs, new) :
              \/ b \in DOMAIN bs /\ Append(bs, new)[b] = bs[b]
              \/ Append(bs, new)[b] = new
    <3> HIDE DEF new
    <3> QED
      BY <1>1, <1>3, AppendFacts
  <2> QED
    BY <1>1, <2>1 DEF Shown
<1> HIDE DEF e, new
<1>6. Took(View(stage, bs), e) = View(stage, Append(bs, new)) /\ Proper(v, View(stage, bs), e)
  BY <1>1, <1>2, <1>3, StartTaken
<1>7. Sends(v, thoughts, n, View(stage, bs), <<e>>, Took(View(stage, bs), e))
  BY <1>4, <1>6, SendsOne
<1> QED
  BY <1>5, <1>6, <1>7 DEF e, new

LEMMA DeltaSent ==
    ASSUME NEW v, NEW thoughts, NEW n, NEW attempt, OfAttempt(attempt, n),
           NEW stage, NEW bs, Shown(thoughts, bs), NEW b \in OpenOf(bs),
           NEW content \in Args \union {"rest"}, NEW args \in Args,
           bs[b].kind = "tool_use" => (args = "whole" <=> content = "whole")
    PROVE  /\ Shown(thoughts, [bs EXCEPT ![b].args = content])
           /\ Sends(v, thoughts, n, View(stage, bs),
                    <<Event("content_block_delta", Index(b), bs[b].kind, args, attempt)>>,
                    View(stage, [bs EXCEPT ![b].args = content]))
<1> DEFINE e == Event("content_block_delta", Index(b), bs[b].kind, args, attempt)
           more == [bs EXCEPT ![b].args = content]
<1>1. bs \in Seq(Block) /\ b \in DOMAIN bs /\ bs[b].open
  BY DEF Shown, OpenOf
<1>2. /\ e.event = "content_block_delta" /\ e.index = Index(b) /\ e.kind = bs[b].kind
      /\ e.args = args
  BY DEF Event
<1>3. Index(b) \in Nat /\ bs[b].kind \in Contract!Kinds /\ bs[b] \in Block
      /\ (bs[b].kind = "thinking" => thoughts)
  BY <1>1, BlocksFacts DEF Shown
<1>4. e \in Sendable(thoughts, n)
  BY <1>3 DEF Sendable, Event, OfAttempt, Names
<1>5. /\ more \in Seq(Block)
      /\ Took(View(stage, bs), e) = View(stage, more) /\ Proper(v, View(stage, bs), e)
  <2> HIDE DEF e
  <2> QED
    BY <1>1, <1>2, DeltaTaken
<1>6. Shown(thoughts, more)
  <2>1. DOMAIN more = DOMAIN bs /\ \A x \in DOMAIN bs : more[x].kind = bs[x].kind
    BY <1>1, <1>3 DEF Block
  <2> QED
    BY <1>5, <2>1 DEF Shown
<1> HIDE DEF e, more
<1>7. Sends(v, thoughts, n, View(stage, bs), <<e>>, Took(View(stage, bs), e))
  BY <1>4, <1>5, SendsOne
<1> QED
  BY <1>5, <1>6, <1>7 DEF e, more

LEMMA ClosedShown ==
    ASSUME NEW thoughts, NEW bs, Shown(thoughts, bs), NEW B
    PROVE  Shown(thoughts, Close(bs, B))
  BY CloseFacts DEF Shown

LEMMA StopSent ==
    ASSUME NEW v, NEW thoughts, NEW n, NEW attempt, OfAttempt(attempt, n),
           NEW stage, NEW bs, Shown(thoughts, bs), NEW b \in OpenOf(bs)
    PROVE  Sends(v, thoughts, n, View(stage, bs),
                 <<Event("content_block_stop", Index(b), bs[b].kind, "none", attempt)>>,
                 View(stage, Close(bs, {b})))
<1> DEFINE e == Event("content_block_stop", Index(b), bs[b].kind, "none", attempt)
<1>1. bs \in Seq(Block) /\ b \in DOMAIN bs
  BY DEF Shown, OpenOf
<1>2. e.event = "content_block_stop" /\ e.index = Index(b)
  BY DEF Event
<1>3. Index(b) \in Nat /\ bs[b].kind \in Contract!Kinds
      /\ (bs[b].kind = "thinking" => thoughts)
  BY <1>1, BlocksFacts DEF Shown
<1>4. e \in Sendable(thoughts, n)
  BY <1>3 DEF Sendable, Event, OfAttempt, Names, Args
<1> HIDE DEF e
<1>5. <<e>> \in Seq(Sendable(thoughts, n)) /\ DOMAIN <<e>> = {1} /\ <<e>>[1] = e
  BY <1>4
<1>6. IndexesIn(<<e>>) = IndexesOf({b})
  BY <1>2, <1>5 DEF IndexesIn, IndexesOf
<1>7. Reaches(v, View(stage, bs), <<e>>, View(stage, Close(bs, {b})))
  BY <1>1, <1>2, <1>5, <1>6, StopsTaken
<1> QED
  BY <1>5, <1>7 DEF Sends, e

LEMMA NewBlockFacts ==
    ASSUME NEW bs \in Seq(Block), NEW kind \in Contract!Kinds, NEW named \in BOOLEAN
    PROVE  /\ Append(bs, NewBlock(kind, named)) \in Seq(Block)
           /\ DOMAIN Append(bs, NewBlock(kind, named)) = 1 .. Len(bs) + 1
           /\ Append(bs, NewBlock(kind, named))[Len(bs) + 1] = NewBlock(kind, named)
           /\ \A x \in 1 .. Len(bs) : Append(bs, NewBlock(kind, named))[x] = bs[x]
           /\ OpenOf(Append(bs, NewBlock(kind, named))) = OpenOf(bs) \union {Len(bs) + 1}
           /\ NewBlock(kind, named).kind = kind /\ NewBlock(kind, named).open
           /\ NewBlock(kind, named).args = "none" /\ NewBlock(kind, named).named = named
<1> DEFINE new == NewBlock(kind, named)
           more == Append(bs, new)
<1>1. new \in Block /\ new.kind = kind /\ new.open /\ new.args = "none" /\ new.named = named
  BY DEF NewBlock, Block, Args
<1> HIDE DEF new
<1>2. /\ more \in Seq(Block) /\ DOMAIN more = 1 .. Len(bs) + 1 /\ more[Len(bs) + 1] = new
      /\ \A x \in 1 .. Len(bs) : more[x] = bs[x]
      /\ Len(bs) \in Nat /\ DOMAIN bs = 1 .. Len(bs)
  BY <1>1, AppendFacts
<1> HIDE DEF more
<1>3. OpenOf(more) = OpenOf(bs) \union {Len(bs) + 1}
  <2>1. \A x \in DOMAIN more : x \in DOMAIN bs \/ x = Len(bs) + 1
    BY <1>2
  <2>2. Len(bs) + 1 \in DOMAIN more /\ \A x \in DOMAIN bs : x \in DOMAIN more /\ more[x] = bs[x]
    BY <1>2
  <2>3. more[Len(bs) + 1].open
    BY <1>1, <1>2
  <2> QED
    BY <2>1, <2>2, <2>3 DEF OpenOf
<1> QED
  BY <1>1, <1>2, <1>3 DEF more, new

\* emit_error and the end of the message, when every block is closed.
LEMMA ErrorTextSent ==
    ASSUME NEW v, "answer" \in v, NEW thoughts, NEW n, NEW attempt, OfAttempt(attempt, n),
           NEW stage, NEW bs, Shown(thoughts, bs), OpenOf(bs) = {}
    PROVE  \E d : Sends(v, thoughts, n, View(stage, bs), ErrorText(Len(bs) + 1, attempt), d)
<1> DEFINE b == Len(bs) + 1
           e(name) == Event(name, Index(b), "text", "none", attempt)
           started == Append(bs, NewBlock("text", TRUE))
           written == [started EXCEPT ![b].args = "none"]
           stopped == Close(written, {b})
           A == <<e("content_block_start")>> \o <<e("content_block_delta")>>
           B == A \o <<e("content_block_stop")>>
           C == B \o <<PlainEvent("message_delta", attempt)>>
           D == C \o <<PlainEvent("message_stop", attempt)>>
<1>1. bs \in Seq(Block) /\ Len(bs) \in Nat /\ DOMAIN bs = 1 .. Len(bs) /\ b \notin DOMAIN bs
  BY BlocksFacts DEF Shown
<1>2. /\ Shown(thoughts, started)
      /\ Sends(v, thoughts, n, View(stage, bs), <<e("content_block_start")>>,
               View(stage, started))
  <2>1. "text" \in Contract!Kinds /\ "text" # "thinking" /\ TRUE \in BOOLEAN
    BY DEF Contract!Kinds
  <2> QED
    BY <2>1, StartSent
<1>3. /\ started \in Seq(Block) /\ DOMAIN started = 1 .. b /\ started[b] = NewBlock("text", TRUE)
      /\ OpenOf(started) = OpenOf(bs) \union {b} /\ NewBlock("text", TRUE).kind = "text"
  <2>1. "text" \in Contract!Kinds /\ TRUE \in BOOLEAN
    BY DEF Contract!Kinds
  <2> QED
    BY <1>1, <2>1, NewBlockFacts
<1>4. OpenOf(started) = {b} /\ started[b].kind = "text"
  BY <1>3
<1> HIDE DEF b, started
<1>5. /\ Shown(thoughts, written)
      /\ Sends(v, thoughts, n, View(stage, started), <<e("content_block_delta")>>,
               View(stage, written))
  <2>1. "none" \in Args /\ "none" \in Args \union {"rest"}
    BY DEF Args
  <2>2. b \in OpenOf(started)
    BY <1>4
  <2> QED
    BY <1>2, <1>4, <2>1, <2>2, DeltaSent
<1>6. OpenOf(written) = {b} /\ written[b].kind = "text"
  <2>1. /\ DOMAIN written = DOMAIN started
        /\ \A x \in DOMAIN started : x # b => written[x] = started[x]
        /\ b \in DOMAIN started => written[b] = [started[b] EXCEPT !.args = "none"]
    OBVIOUS
  <2>2. b \in DOMAIN started
    BY <1>4 DEF OpenOf
  <2>3. /\ written[b].open = started[b].open /\ written[b].kind = started[b].kind
    BY <1>3, <2>1, <2>2 DEF NewBlock
  <2> HIDE DEF written
  <2> QED
    BY <1>4, <2>1, <2>2, <2>3 DEF OpenOf
<1> HIDE DEF written
<1>7. Sends(v, thoughts, n, View(stage, written), <<e("content_block_stop")>>,
            View(stage, stopped))
  BY <1>5, <1>6, StopSent
<1>8. OpenOf(stopped) = {} /\ DOMAIN stopped # {}
  <2>1. OpenOf(stopped) = OpenOf(written) \ {b} /\ DOMAIN stopped = DOMAIN written
    BY <1>5, CloseFacts DEF Shown
  <2>2. DOMAIN written # {}
    BY <1>6 DEF OpenOf
  <2> HIDE DEF stopped
  <2> QED
    BY <1>6, <2>1, <2>2
<1> HIDE DEF stopped
<1>9. Sends(v, thoughts, n, View(stage, stopped), <<PlainEvent("message_delta", attempt)>>,
            View("ending", stopped))
  BY <1>8, MessageDeltaSent
<1>10. Sends(v, thoughts, n, View("ending", stopped), <<PlainEvent("message_stop", attempt)>>,
             View("stopped", stopped))
  BY <1>8, MessageStopSent
<1>11. ErrorText(b, attempt) = D
  BY DEF ErrorText
<1> HIDE DEF e
<1>12. Sends(v, thoughts, n, View(stage, bs), A, View(stage, written))
  BY <1>2, <1>5, SendsConcat
<1>13. Sends(v, thoughts, n, View(stage, bs), B, View(stage, stopped))
  BY <1>7, <1>12, SendsConcat
<1>14. Sends(v, thoughts, n, View(stage, bs), C, View("ending", stopped))
  BY <1>9, <1>13, SendsConcat
<1>15. Sends(v, thoughts, n, View(stage, bs), D, View("stopped", stopped))
  BY <1>10, <1>14, SendsConcat
<1> QED
  BY <1>11, <1>15 DEF b

\* iter_success_tail
LEMMA SuccessSent ==
    ASSUME NEW v, "answer" \in v, NEW thoughts, NEW c, NEW stage, NEW bs, NEW events,
           Sends(v, thoughts, early_retries, c, events, View(stage, bs)),
           Shown(thoughts, bs), DOMAIN bs # {}, early_retries \in Nat,
           stop_reason => stage # "content"
    PROVE  \E d : /\ Sends(v, thoughts, early_retries, c,
                           events \o CloseAll(bs)
                           \o (IF stop_reason THEN <<>> ELSE <<Plain("message_delta")>>)
                           \o (IF message_stopped THEN <<>> ELSE <<Plain("message_stop")>>), d)
                  /\ d.broken = View(stage, bs).broken
<1> DEFINE X == IF stop_reason THEN <<>> ELSE <<Plain("message_delta")>>
           Y == IF message_stopped THEN <<>> ELSE <<Plain("message_stop")>>
           closed == Close(bs, OpenOf(bs))
           ended == IF stop_reason THEN stage ELSE "ending"
           last == IF message_stopped THEN ended ELSE "stopped"
<1>1. OfAttempt(early_retries, early_retries)
  BY DEF OfAttempt
<1>2. Sends(v, thoughts, early_retries, View(stage, bs), CloseAll(bs), View(stage, closed))
  BY CloseAllTaken DEF Sends
<1>3. /\ OpenOf(closed) = {} /\ DOMAIN closed # {}
      /\ View(stage, closed).broken = View(stage, bs).broken
  <2>1. bs \in Seq(Block) /\ OpenOf(bs) \subseteq DOMAIN bs
    BY DEF Shown, OpenOf
  <2>2. OpenOf(closed) = {} /\ DOMAIN closed # {}
    BY <2>1, CloseFacts
  <2>3. View(stage, closed) = Stopped(View(stage, bs), IndexesOf(OpenOf(bs)))
    BY <2>1, ViewClosed
  <2> HIDE DEF closed
  <2> QED
    BY <2>2, <2>3 DEF Stopped
<1> HIDE DEF closed
<1>4. Sends(v, thoughts, early_retries, View(stage, closed), X, View(ended, closed))
  <2>1. CASE stop_reason
    BY <2>1, SendsNothing
  <2>2. CASE ~stop_reason
    BY <1>1, <1>3, <2>2, MessageDeltaSent DEF Plain
  <2> QED
    BY <2>1, <2>2
<1>5. Sends(v, thoughts, early_retries, View(ended, closed), Y, View(last, closed))
  <2>1. CASE message_stopped
    BY <2>1, SendsNothing
  <2>2. CASE ~message_stopped
    <3>1. ended # "content"
      OBVIOUS
    <3> HIDE DEF ended
    <3> QED
      BY <1>1, <1>3, <2>2, <3>1, MessageStopSent DEF Plain
  <2> QED
    BY <2>1, <2>2
<1> HIDE DEF X, Y, ended, last
<1>6. Sends(v, thoughts, early_retries, c, events \o CloseAll(bs), View(stage, closed))
  BY <1>2, SendsConcat
<1>7. Sends(v, thoughts, early_retries, c, events \o CloseAll(bs) \o X, View(ended, closed))
  BY <1>4, <1>6, SendsConcat
<1>8. Sends(v, thoughts, early_retries, c, events \o CloseAll(bs) \o X \o Y, View(last, closed))
  BY <1>5, <1>7, SendsConcat
<1>9. View(last, closed).broken = View(stage, bs).broken
  BY <1>3 DEF View
<1> QED
  BY <1>8, <1>9 DEF X, Y

\* The youngest open block of a kind.
LEMMA LastOpenFacts ==
    ASSUME NEW bs \in Seq(Block), NEW kind, LastOpen(bs, kind) # 0
    PROVE  LastOpen(bs, kind) \in OpenOf(bs) /\ bs[LastOpen(bs, kind)].kind = kind
<1> DEFINE I == {i \in 1 .. Len(bs) : bs[i].open /\ bs[i].kind = kind}
           s == InOrder(I)
<1>1. Len(bs) \in Nat /\ DOMAIN bs = 1 .. Len(bs)
  BY BlocksFacts
<1>2. LastOpen(bs, kind) = IF I # {} THEN Max(I) ELSE 0
  BY DEF LastOpen, SelectLastInSeq
<1>3. IsFiniteSet(I) /\ \A b \in I : b \in Nat
  <2>1. I \subseteq DOMAIN bs
    BY <1>1
  <2> QED
    BY <2>1, OpenFinite
<1> HIDE DEF I
<1>4. I # {}
  BY <1>2
<1>5. /\ s \in Seq(I) /\ \A b \in I : \E k \in DOMAIN s : s[k] = b
      /\ \A i, j \in DOMAIN s : i < j => s[i] < s[j]
  BY <1>3, InOrderFacts
<1> HIDE DEF s
<1>6. Len(s) \in Nat /\ DOMAIN s = 1 .. Len(s) /\ \A k \in DOMAIN s : s[k] \in I
  BY <1>5, LenProperties, ElementOfSeq
<1>7. Len(s) \in DOMAIN s
  BY <1>4, <1>5, <1>6
<1>8. \A b \in I : s[Len(s)] >= b
  <2> SUFFICES ASSUME NEW b \in I PROVE s[Len(s)] >= b
    OBVIOUS
  <2>1. PICK k \in DOMAIN s : s[k] = b
    BY <1>5
  <2>2. s[Len(s)] \in Nat /\ b \in Nat
    BY <1>3, <1>6, <1>7
  <2>3. k = Len(s) \/ k < Len(s)
    BY <1>6
  <2>4. CASE k < Len(s)
    <3>1. s[k] < s[Len(s)]
      BY <1>5, <1>7, <2>4
    <3> QED
      BY <2>1, <2>2, <3>1
  <2> QED
    BY <2>1, <2>2, <2>3, <2>4
<1>9. Max(I) \in I
  BY <1>6, <1>7, <1>8 DEF Max
<1> QED
  BY <1>1, <1>2, <1>4, <1>9 DEF I, OpenOf

\* append_text_suffix, append_thinking_suffix
LEMMA SuffixSent ==
    ASSUME NEW v, "answer" \in v, NEW thoughts, NEW stage, NEW bs, Shown(thoughts, bs), early_retries \in Nat,
           NEW kind \in {"text", "thinking"}, kind = "thinking" => thoughts
    PROVE  /\ Shown(thoughts, Suffixed(bs, kind))
           /\ Sends(v, thoughts, early_retries, View(stage, bs), Suffix(bs, kind),
                    View(stage, Suffixed(bs, kind)))
<1>1. /\ bs \in Seq(Block) /\ Len(bs) \in Nat /\ DOMAIN bs = 1 .. Len(bs)
      /\ kind \in Contract!Kinds /\ kind # "tool_use" /\ TRUE \in BOOLEAN
      /\ OfAttempt(early_retries, early_retries)
      /\ "part" \in Args /\ "part" \in Args \union {"rest"}
  BY BlocksFacts DEF Shown, Contract!Kinds, OfAttempt, Args
<1>2. CASE LastOpen(bs, kind) # 0
  <2> DEFINE b == LastOpen(bs, kind)
  <2>1. b \in OpenOf(bs) /\ bs[b].kind = kind
    BY <1>1, <1>2, LastOpenFacts
  <2>2. Suffixed(bs, kind) = bs /\ Suffix(bs, kind) = <<Delta(b, kind, "part")>>
    BY <1>2 DEF Suffixed, Suffix
  <2> HIDE DEF b
  <2>3. bs[b].args \in Args \union {"rest"} /\ [bs EXCEPT ![b].args = bs[b].args] = bs
    <3>1. b \in DOMAIN bs
      BY <2>1 DEF OpenOf
    <3>2. bs[b] \in Block
      BY <1>1, <3>1, BlocksFacts
    <3>3. bs[b].args \in Args \union {"rest"} /\ [bs[b] EXCEPT !.args = bs[b].args] = bs[b]
      BY <3>2 DEF Block
    <3>4. bs = [x \in 1 .. Len(bs) |-> bs[x]]
      BY <1>1, BlocksFacts
    <3> QED
      BY <3>1, <3>3, <3>4
  <2>4. Sends(v, thoughts, early_retries, View(stage, bs),
              <<Event("content_block_delta", Index(b), bs[b].kind, "part", early_retries)>>,
              View(stage, [bs EXCEPT ![b].args = bs[b].args]))
    BY <1>1, <2>1, <2>3, DeltaSent
  <2> QED
    BY <2>1, <2>2, <2>3, <2>4 DEF Delta, BlockEvent
<1>3. CASE LastOpen(bs, kind) = 0
  <2> DEFINE n == Len(bs) + 1
             new == Append(bs, NewBlock(kind, TRUE))
             more == [new EXCEPT ![n].args = "part"]
  <2>1. /\ new \in Seq(Block) /\ DOMAIN new = 1 .. n /\ new[n] = NewBlock(kind, TRUE)
        /\ NewBlock(kind, TRUE).kind = kind /\ OpenOf(new) = OpenOf(bs) \union {n}
        /\ \A x \in 1 .. Len(bs) : new[x] = bs[x]
    BY <1>1, NewBlockFacts
  <2>2. Suffixed(bs, kind) = more
    <3> DEFINE longer == Append(bs, [NewBlock(kind, TRUE) EXCEPT !.args = "part"])
    <3>1. Suffixed(bs, kind) = longer
      BY <1>3 DEF Suffixed
    <3>2. [NewBlock(kind, TRUE) EXCEPT !.args = "part"] \in Block
      BY <1>1 DEF NewBlock, Block
    <3>3. /\ longer \in Seq(Block) /\ DOMAIN longer = 1 .. n
          /\ longer[n] = [NewBlock(kind, TRUE) EXCEPT !.args = "part"]
          /\ \A x \in 1 .. Len(bs) : longer[x] = bs[x]
      BY <1>1, <3>2, AppendFacts
    <3>4. longer = [x \in 1 .. Len(longer) |-> longer[x]] /\ DOMAIN longer = 1 .. Len(longer)
      BY <3>3, BlocksFacts
    <3> HIDE DEF longer
    <3>5. longer = [x \in 1 .. n |-> longer[x]]
      BY <3>3, <3>4
    <3>6. more = [x \in 1 .. n |-> more[x]]
      <4> HIDE DEF new, n
      <4>1. DOMAIN more = 1 .. n
        BY <2>1
      <4> QED
        BY <4>1
    <3>7. n \in 1 .. n /\ \A x \in 1 .. n : x = n \/ (x \in 1 .. Len(bs) /\ x # n)
      BY <1>1
    <3>8. /\ more[n] = [new[n] EXCEPT !.args = "part"]
          /\ \A x \in 1 .. n : x # n => more[x] = new[x]
      <4> HIDE DEF new, n
      <4> QED
        BY <2>1, <3>7
    <3> HIDE DEF more, new
    <3>9. \A x \in 1 .. n : longer[x] = more[x]
      BY <2>1, <3>3, <3>7, <3>8
    <3> QED
      BY <3>1, <3>5, <3>6, <3>9
  <2>3. /\ Shown(thoughts, new)
        /\ Sends(v, thoughts, early_retries, View(stage, bs),
                 <<Event("content_block_start", Index(n), kind, "none", early_retries)>>,
                 View(stage, new))
    BY <1>1, StartSent
  <2>4. Suffix(bs, kind) = <<Event("content_block_start", Index(n), kind, "none", early_retries)>>
                           \o <<Event("content_block_delta", Index(n), kind, "part", early_retries)>>
    BY <1>3 DEF Suffix, Start, Delta, BlockEvent
  <2> HIDE DEF new, n
  <2>5. /\ Shown(thoughts, more)
        /\ Sends(v, thoughts, early_retries, View(stage, new),
                 <<Event("content_block_delta", Index(n), new[n].kind, "part", early_retries)>>,
                 View(stage, more))
    <3>1. n \in OpenOf(new) /\ new[n].kind # "tool_use"
      BY <1>1, <2>1
    <3> QED
      BY <1>1, <2>3, <3>1, DeltaSent
  <2>6. new[n].kind = kind
    BY <2>1
  <2> HIDE DEF more
  <2>7. Sends(v, thoughts, early_retries, View(stage, bs), Suffix(bs, kind), View(stage, more))
    BY <2>3, <2>4, <2>5, <2>6, SendsConcat
  <2> QED
    BY <2>2, <2>5, <2>7
<1> QED
  BY <1>2, <1>3

-----------------------------------------------------------------------------
(***************************************************************************)
(* The inductive invariant.                                                *)
(***************************************************************************)
UpstreamBlock ==
    [kind : Contract!Kinds \union {"none"}, args : Args]
Upstream ==
    [stage : {"before", "content", "failed", "ending", "stopped"}, count : Nat,
     block : [Indexes -> UpstreamBlock]]

\* An index of the provider goes into a block of its kind, no two into the same.
SegmentSound ==
    /\ segment \in [Indexes -> Nat \union {-1}]
    /\ \A i \in Indexes : segment[i] # -1 => /\ segment[i] \in DOMAIN blocks
                                             /\ blocks[segment[i]].kind = upstream.block[i].kind
    /\ \A i, j \in Indexes : segment[i] = segment[j] /\ segment[i] # -1 => i = j

PolicySound ==
    /\ upstream \in Upstream
    /\ Shown(thinking_enabled, blocks)
    /\ dropped \subseteq Indexes /\ suppressed \subseteq Indexes
    /\ stop_reason \in BOOLEAN /\ message_stopped \in BOOLEAN
    /\ upstream.stage = "before" => ~stop_reason
    /\ SegmentSound

IsWire == wire = [stage |-> wire.stage, open |-> wire.open, used |-> wire.used, last |-> wire.last]

\* The client sees nothing before the holdback buffer lets events through, and
\* then of one attempt only.
HandedOut ==
    /\ DownstreamOK
    /\ thinking_enabled \in BOOLEAN
    /\ early_retries \in 0 .. MaxRetries
    /\ salvaged \in BOOLEAN
    /\ outbox \in Seq(Sendable(thinking_enabled, early_retries))
    /\ held \in Seq(Sendable(thinking_enabled, early_retries))
    /\ IsWire
    /\ ThinkingHidden
    /\ attempts \subseteq {early_retries}
    /\ ~committed => attempts = {} /\ outbox = <<>> /\ wire = Contract!Nothing /\ broken = {}
    /\ salvaged => pc = "done"
    /\ pc = "done" /\ ~gone => committed
    /\ gone => pc = "done" /\ outbox = <<>> /\ held = <<>>

Rule == {x \in {"answer", "repairs", "delta", "stop"} :
            /\ x = "repairs" => salvaged
            /\ x = "delta" => stop_reason
            /\ x = "stop" => message_stopped}

LEMMA RuleFacts ==
    /\ "answer" \in Rule /\ "answer" \in Rule'
    /\ "repairs" \in Rule <=> salvaged
    /\ "delta" \in Rule <=> stop_reason
    /\ "stop" \in Rule <=> message_stopped
    /\ UNCHANGED <<salvaged, stop_reason, message_stopped>> => Rule' = Rule
  BY DEF Rule

\* The client has seen no message_delta while it is in the content of the message.
StageSound(stage) == stage = "content" => upstream.stage # "before" /\ ~stop_reason

\* What is handed out and held takes the client to d.
Pending(d) ==
    Sends(Rule, thinking_enabled, early_retries, Client, outbox \o held, d)

\* The client will see what the tracker has.
ClientSound ==
    ~gone =>
        /\ pc # "done" => \E stage : Pending(View(stage, blocks)) /\ StageSound(stage)
        /\ pc = "done" => \E d : Pending(d) /\ (salvaged => d.broken = {})

Inv == PolicySound /\ HandedOut /\ ClientSound

LEMMA InvInit == Init => Inv
<1> SUFFICES ASSUME Init PROVE Inv
  OBVIOUS
<1> USE DEF Init, InitDownstream
<1>1. /\ upstream \in Upstream
      /\ upstream.stage = "before"
  BY DEF NoMessage, NoBlock, Upstream, UpstreamBlock, Args
<1>2. blocks \in Seq(Block) /\ DOMAIN blocks = {} /\ Shown(thinking_enabled, blocks)
  BY EmptySeq DEF Shown
<1>3. segment \in [Indexes -> Nat \union {-1}] /\ \A i \in Indexes : segment[i] = -1
  OBVIOUS
<1>4. SegmentSound
  BY <1>3 DEF SegmentSound
<1>5. PolicySound
  BY <1>1, <1>2, <1>4 DEF PolicySound
<1>7. wire.open = {} /\ wire.used = {} /\ wire.stage = "before" /\ IsWire /\ wire = Contract!Nothing
  BY DEF IsWire, Contract!Nothing
<1>8. HandedOut
  <2>1. outbox \in Seq(Sendable(thinking_enabled, early_retries))
        /\ held \in Seq(Sendable(thinking_enabled, early_retries))
    BY EmptySeq
  <2>2. early_retries \in 0 .. MaxRetries
    BY EventBoundAssumption
  <2> QED
    BY <1>7, <2>1, <2>2 DEF HandedOut, DownstreamOK, ThinkingHidden
<1>9. Client = View("before", blocks)
  BY <1>2, <1>7 DEF Client, View, OpenOf
<1>10. outbox \o held = <<>>
  OBVIOUS
<1>11. Pending(View("before", blocks))
  <2>1. Sends(Rule, thinking_enabled, early_retries, Client, <<>>, Client)
    BY SendsNothing
  <2> QED
    BY <1>9, <1>10, <2>1 DEF Pending
<1>12. ClientSound
  BY <1>1, <1>11 DEF ClientSound, StageSound
<1> QED
  BY <1>5, <1>8, <1>12 DEF Inv

-----------------------------------------------------------------------------
(***************************************************************************)
(* The client's steps.                                                     *)
(***************************************************************************)
LEMMA TookSeen ==
    ASSUME IsWire, TakeEvent
    PROVE  /\ Client' = Took(Client, Head(outbox))
           /\ IsWire'
           /\ wire'.last = Head(outbox)
           /\ wire'.open = Took(Client, Head(outbox)).open
           /\ wire'.used = Took(Client, Head(outbox)).used
           /\ broken' = Took(Client, Head(outbox)).broken
<1> DEFINE e == Head(outbox)
<1>1. /\ wire' = Contract!Seen(wire, e)
      /\ broken' = IF e.kind # "tool_use" \/ e.event = "content_block_stop" THEN broken
                   ELSE IF e.args = "whole" THEN broken \ {e.index}
                   ELSE broken \union {e.index}
  BY DEF TakeEvent
<1> HIDE DEF e
<1>2. wire' = [stage |-> CASE e.event = "message_start" -> "content"
                           [] e.event = "message_delta" -> "ending"
                           [] e.event = "message_stop"  -> "stopped"
                           [] OTHER -> wire.stage,
               open |-> CASE e.event = "content_block_start" -> wire.open \union {<<e.index, e.kind>>}
                          [] e.event = "content_block_stop"  -> {b \in wire.open : b[1] # e.index}
                          [] OTHER -> wire.open,
               used |-> IF e.event = "content_block_start" THEN wire.used \union {e.index}
                        ELSE wire.used,
               last |-> e]
  BY <1>1 DEF IsWire, Contract!Seen
<1>3. IsWire'
  BY <1>2 DEF IsWire
<1>4. Client' = Took(Client, e)
  BY <1>1, <1>2 DEF Client, Took
<1>5. /\ wire'.last = e /\ wire'.open = Client'.open /\ wire'.used = Client'.used
      /\ broken' = Client'.broken
  BY <1>2 DEF Client
<1> QED
  BY <1>3, <1>4, <1>5 DEF e

LEMMA DeliverInv ==
    ASSUME Inv, Deliver
    PROVE  Inv' /\ Proper(Rule, Client, Head(outbox))
<1> DEFINE e == Head(outbox)
           th == thinking_enabled
           n == early_retries
<1>1. /\ ~gone /\ outbox # <<>> /\ outbox' = Tail(outbox)
      /\ attempts' = (IF e.event = "content_block_delta" /\ e.attempt >= 0
                      THEN attempts \union {e.attempt} ELSE attempts)
      /\ UNCHANGED <<pc, held, committed, gone, thinking_enabled, early_retries, upstream,
                     segment, dropped, suppressed, blocks, stop_reason, message_stopped, salvaged>>
  BY DEF Deliver, TakeEvent, policyVars, trackerVars
<1>2. committed /\ held = <<>> /\ outbox \in Seq(Sendable(th, n))
  BY <1>1 DEF Inv, HandedOut, DownstreamOK
<1>3. e \in Sendable(th, n) /\ Tail(outbox) \in Seq(Sendable(th, n))
  BY <1>1, <1>2, HeadTailProperties
<1>4. outbox \o held = outbox /\ outbox' \o held' = Tail(outbox)
  BY <1>1, <1>2, <1>3, ConcatEmptySeq
<1>5. /\ Client' = Took(Client, e) /\ IsWire'
      /\ wire'.open = Took(Client, e).open
      /\ wire'.used = Took(Client, e).used
      /\ broken' = Took(Client, e).broken
  BY TookSeen DEF Inv, HandedOut, Deliver
<1>6. ASSUME NEW d, Pending(d)
      PROVE  Proper(Rule, Client, e) /\ Pending(d)'
  <2>1. Reaches(Rule, Client, outbox, d)
    BY <1>4, <1>6 DEF Pending, Sends
  <2>2. Proper(Rule, Client, e) /\ Reaches(Rule, Took(Client, e), Tail(outbox), d)
    BY <1>1, <1>2, <2>1, ReachesTail
  <2>3. Sends(Rule', th', n', Client', outbox' \o held', d)
    BY <1>1, <1>3, <1>4, <1>5, <2>2, RuleFacts DEF Sends
  <2> QED
    BY <2>2, <2>3 DEF Pending
<1>7. Proper(Rule, Client, e) /\ ClientSound'
  <2>1. CASE pc # "done"
    <3>1. PICK stage : Pending(View(stage, blocks)) /\ StageSound(stage)
      BY <1>1, <2>1 DEF Inv, ClientSound
    <3>2. Proper(Rule, Client, e) /\ Sends(Rule', th', n', Client', outbox' \o held', View(stage, blocks))
      BY <1>6, <3>1 DEF Pending
    <3>3. blocks' = blocks /\ pc' # "done" /\ StageSound(stage)'
      BY <1>1, <2>1, <3>1 DEF StageSound
    <3>4. Sends(Rule', th', n', Client', outbox' \o held', View(stage, blocks'))
      BY <3>2, <3>3
    <3> HIDE DEF th, n
    <3> QED
      BY <3>1, <3>2, <3>3, <3>4 DEF ClientSound, Pending, th, n
  <2>2. CASE pc = "done"
    <3>1. PICK d : Pending(d) /\ (salvaged => d.broken = {})
      BY <1>1, <2>2 DEF Inv, ClientSound
    <3> QED
      BY <1>1, <1>6, <2>2, <3>1 DEF ClientSound
  <2> QED
    BY <2>1, <2>2
<1>8. PolicySound'
  BY <1>1 DEF Inv, PolicySound, SegmentSound, Shown
<1>9. HandedOut'
  <2>1. /\ wire.open \subseteq Nat \X Contract!Kinds /\ broken \subseteq wire.used
        /\ \A b \in wire.open : b[2] = "thinking" => th
        /\ attempts \subseteq {n}
    BY DEF Inv, HandedOut, DownstreamOK, ThinkingHidden
  <2>2. /\ e.kind = "thinking" => th
        /\ e.attempt \in Int /\ (e.attempt >= 0 => e.attempt = n)
        /\ e.event = "content_block_start" => e.index \in Nat /\ e.kind \in Contract!Kinds
    BY <1>3 DEF Sendable
  <2>3. wire'.open = CASE e.event = "content_block_start" -> wire.open \union {<<e.index, e.kind>>}
                       [] e.event = "content_block_stop"  -> {b \in wire.open : b[1] # e.index}
                       [] OTHER -> wire.open
    BY <1>5 DEF Took, Client
  <2>4. wire'.used = IF e.event = "content_block_start" THEN wire.used \union {e.index}
                     ELSE wire.used
    BY <1>5 DEF Took, Client
  <2>5. broken' = IF e.kind # "tool_use" \/ e.event = "content_block_stop" THEN broken
                  ELSE IF e.args = "whole" THEN broken \ {e.index}
                  ELSE broken \union {e.index}
    BY <1>5 DEF Took, Client
  <2> HIDE DEF e
  <2>6. wire'.open \subseteq Nat \X Contract!Kinds /\ \A b \in wire'.open : b[2] = "thinking" => th
    <3>1. CASE e.event = "content_block_start"
      <4>1. wire'.open = wire.open \union {<<e.index, e.kind>>}
        BY <2>3, <3>1
      <4> QED
        BY <2>1, <2>2, <3>1, <4>1
    <3>2. CASE e.event # "content_block_start"
      <4>1. wire'.open \subseteq wire.open
        BY <2>3, <3>2
      <4> QED
        BY <2>1, <4>1
    <3> QED
      BY <3>1, <3>2
  <2>7. broken' \subseteq wire'.used
    <3>1. e.kind = "tool_use" /\ e.event \notin {"content_block_start", "content_block_stop"}
          => e.index \in wire.used
      BY <1>7 DEF Proper, Client
    <3> QED
      BY <2>1, <2>4, <2>5, <3>1
  <2>8. attempts' \subseteq {n}
    BY <1>1, <2>1, <2>2
  <2>9. ThinkingHidden' /\ DownstreamOK'
    <3>1. /\ pc \in {"opening", "reading", "recovering", "done"}
          /\ {committed, gone} \subseteq BOOLEAN
      BY DEF Inv, HandedOut, DownstreamOK
    <3> QED
      BY <1>1, <1>2, <2>6, <2>7, <3>1 DEF ThinkingHidden, DownstreamOK
  <2>10. outbox' \in Seq(Sendable(th', n')) /\ held' \in Seq(Sendable(th', n'))
    BY <1>1, <1>2, <1>3, EmptySeq
  <2> QED
    BY <1>1, <1>2, <1>5, <2>8, <2>9, <2>10 DEF Inv, HandedOut
<1> QED
  BY <1>7, <1>8, <1>9 DEF Inv

LEMMA DisconnectInv ==
    ASSUME Inv, Disconnect
    PROVE  Inv'
<1>1. /\ gone' = TRUE /\ pc' = "done" /\ held' = <<>> /\ outbox' = <<>>
      /\ UNCHANGED <<committed, wire, attempts, broken, thinking_enabled, early_retries, upstream,
                     segment, dropped, suppressed, blocks, stop_reason, message_stopped, salvaged>>
  BY DEF Disconnect, Disconnects, policyVars, trackerVars
<1>2. PolicySound' /\ ClientSound'
  BY <1>1 DEF Inv, PolicySound, ClientSound, SegmentSound, Shown
<1>3. HandedOut'
  <2>1. outbox' \in Seq(Sendable(thinking_enabled', early_retries'))
        /\ held' \in Seq(Sendable(thinking_enabled', early_retries'))
    BY <1>1, EmptySeq
  <2> QED
    BY <1>1, <2>1 DEF Inv, HandedOut, DownstreamOK, ThinkingHidden, IsWire
<1> QED
  BY <1>2, <1>3 DEF Inv

-----------------------------------------------------------------------------
(***************************************************************************)
(* The generator's steps: what an event of the provider, and what the end  *)
(* of the stream, must do for the client.                                  *)
(***************************************************************************)
\* push hands out and holds what it did, and the new events.
LEMMA HoldFacts ==
    ASSUME NEW S, held \in Seq(S), NEW events \in Seq(S), outbox = <<>>,
           committed => held = <<>>, committed \in BOOLEAN, Hold(events)
    PROVE  /\ outbox' \in Seq(S) /\ held' \in Seq(S) /\ committed' \in BOOLEAN
           /\ outbox' \o held' = held \o events
           /\ committed' => held' = <<>>
           /\ ~committed' => ~committed /\ outbox' = <<>>
<1>1. held \o events \in Seq(S) /\ <<>> \in Seq(S)
  BY ConcatProperties, EmptySeq
<1>2. CASE committed /\ outbox' = events /\ UNCHANGED <<held, committed>>
  <2>1. events \o <<>> = events /\ <<>> \o events = events
    BY ConcatEmptySeq
  <2> QED
    BY <1>1, <1>2, <2>1
<1>3. CASE ~committed /\ held' = held \o events /\ UNCHANGED <<committed, outbox>>
  <2>1. <<>> \o held' = held'
    BY <1>1, <1>3, ConcatEmptySeq
  <2> QED
    BY <1>1, <1>3, <2>1
<1>4. CASE /\ ~committed /\ events # <<>> /\ outbox' = held \o events
           /\ held' = <<>> /\ committed' = TRUE
  <2>1. outbox' \o <<>> = outbox'
    BY <1>1, <1>4, ConcatEmptySeq
  <2> QED
    BY <1>1, <1>4, <2>1
<1> QED
  BY <1>2, <1>3, <1>4 DEF Hold

LEMMA ArrivesSound ==
    ASSUME Inv, NEW events, Arrives(events), NEW stage, NEW to,
           Pending(View(stage, blocks)),
           Sends(Rule', thinking_enabled, early_retries, View(stage, blocks), events,
                 View(to, blocks')),
           StageSound(to)', stop_reason => stop_reason', message_stopped => message_stopped'
    PROVE  HandedOut' /\ ClientSound'
<1> DEFINE S == Sendable(thinking_enabled, early_retries)
<1>1. /\ pc = "reading" /\ outbox = <<>> /\ ~gone /\ Hold(events)
      /\ UNCHANGED <<thinking_enabled, early_retries, pc, wire, gone, attempts, broken, salvaged>>
  BY DEF Arrives, At, clientVars
<1>2. held \in Seq(S) /\ events \in Seq(S) /\ committed \in BOOLEAN /\ (committed => held = <<>>)
  BY DEF Inv, HandedOut, DownstreamOK, Sends
<1>3. /\ outbox' \in Seq(S) /\ held' \in Seq(S) /\ committed' \in BOOLEAN
      /\ outbox' \o held' = held \o events
      /\ committed' => held' = <<>>
      /\ ~committed' => ~committed /\ outbox' = <<>>
  <2> HIDE DEF S
  <2> QED
    BY <1>1, <1>2, HoldFacts
<1>4. outbox \o held = held
  BY <1>1, <1>2, ConcatEmptySeq
<1>5. Sends(Rule, thinking_enabled, early_retries, Client, held, View(stage, blocks))
  BY <1>4 DEF Pending
<1>6. Sends(Rule', thinking_enabled, early_retries, Client, held \o events, View(to, blocks'))
  <2>1. "answer" \in Rule /\ Rule \subseteq Rule'
    BY <1>1 DEF Rule
  <2>2. Sends(Rule', thinking_enabled, early_retries, Client, held, View(stage, blocks))
    BY <1>5, <2>1, SendsFreely
  <2> QED
    BY <2>2, SendsConcat
<1>7. Client' = Client
  BY <1>1 DEF Client
<1>8. Sends(Rule', thinking_enabled', early_retries', Client', outbox' \o held',
            View(to, blocks'))
  BY <1>1, <1>3, <1>6, <1>7
<1>9. ClientSound'
  BY <1>1, <1>8 DEF ClientSound, Pending
<1>10. HandedOut'
  BY <1>1, <1>3 DEF Inv, HandedOut, DownstreamOK, ThinkingHidden, IsWire
<1> QED
  BY <1>9, <1>10

LEMMA ReturnSound ==
    ASSUME Inv, NEW place \in {"opening", "reading", "recovering"}, At(place),
           NEW events, NEW bs, Return(events, bs), salvaged' \in BOOLEAN,
           NEW d, Sends(Rule', thinking_enabled, early_retries, Client, held \o events, d),
           salvaged' => d.broken = {},
           events \in Seq(Sendable(thinking_enabled, early_retries)),
           Shown(thinking_enabled, bs),
           \A b \in DOMAIN blocks : b \in DOMAIN bs /\ bs[b].kind = blocks[b].kind
    PROVE  Inv'
<1> DEFINE S == Sendable(thinking_enabled, early_retries)
<1>1. /\ pc = place /\ outbox = <<>> /\ ~gone
      /\ outbox' = held \o events /\ held' = <<>> /\ committed' = TRUE /\ pc' = "done"
      /\ blocks' = bs
      /\ UNCHANGED <<thinking_enabled, early_retries, upstream, segment, dropped, suppressed,
                     stop_reason, message_stopped, wire, gone, attempts, broken>>
  BY DEF At, Return, FlushAndReturn, policyVars, clientVars
<1>2. held \in Seq(S)
  BY DEF Inv, HandedOut
<1>3. outbox' \in Seq(S) /\ held' \in Seq(S) /\ outbox' \o held' = held \o events
  <2>1. held \o events \in Seq(S)
    BY <1>2, ConcatProperties
  <2> HIDE DEF S
  <2> QED
    BY <1>1, <2>1, EmptySeq, ConcatEmptySeq
<1>4. Client' = Client
  BY <1>1 DEF Client
<1>5. Sends(Rule', thinking_enabled', early_retries', Client', outbox' \o held', d)
  BY <1>1, <1>3, <1>4
<1>6. ClientSound'
  BY <1>1, <1>5 DEF ClientSound, Pending
<1>7. HandedOut'
  BY <1>1, <1>3 DEF Inv, HandedOut, DownstreamOK, ThinkingHidden, IsWire
<1>8. SegmentSound'
  <2> USE <1>1
  <2>1. \A i \in Indexes : segment[i] # -1 => /\ segment[i] \in DOMAIN bs
                                              /\ bs[segment[i]].kind = upstream.block[i].kind
    BY DEF Inv, PolicySound, SegmentSound
  <2> QED
    BY <2>1 DEF Inv, PolicySound, SegmentSound
<1>9. PolicySound'
  BY <1>1, <1>8 DEF Inv, PolicySound
<1> QED
  BY <1>6, <1>7, <1>9 DEF Inv

\* Where the client will be before a step of the generator.
LEMMA Standing ==
    ASSUME Inv, NEW place \in {"opening", "reading", "recovering"}, At(place)
    PROVE  /\ \E stage : /\ Pending(View(stage, blocks))
                         /\ Sends(Rule, thinking_enabled, early_retries, Client, held,
                                  View(stage, blocks))
                         /\ StageSound(stage)
           /\ ~salvaged /\ salvaged = FALSE
           /\ Shown(thinking_enabled, blocks)
           /\ early_retries \in Nat /\ OfAttempt(early_retries, early_retries)
<1>1. pc = place /\ pc # "done" /\ ~gone /\ outbox = <<>>
  BY DEF At
<1>2. ~salvaged /\ salvaged = FALSE
  BY <1>1 DEF Inv, HandedOut
<1>3. PICK stage : Pending(View(stage, blocks)) /\ StageSound(stage)
  BY <1>1 DEF Inv, ClientSound
<1>4. outbox \o held = held
  BY <1>1, ConcatEmptySeq DEF Inv, HandedOut
<1>5. Sends(Rule, thinking_enabled, early_retries, Client, held, View(stage, blocks))
  BY <1>3, <1>4 DEF Pending
<1>6. early_retries \in Nat /\ OfAttempt(early_retries, early_retries)
  BY EventBoundAssumption DEF Inv, HandedOut, OfAttempt
<1> QED
  BY <1>2, <1>3, <1>5, <1>6 DEF Inv, PolicySound

-----------------------------------------------------------------------------
(***************************************************************************)
(* The end of the stream.                                                  *)
(***************************************************************************)
LEMMA CompletesInv ==
    ASSUME Inv, Completes
    PROVE  Inv'
<1>1. At("reading") /\ Return(<<>>, blocks) /\ salvaged' = salvaged
  BY DEF Completes
<1>2. PICK stage : Sends(Rule, thinking_enabled, early_retries, Client, held,
                         View(stage, blocks))
  BY <1>1, Standing
<1>3. ~salvaged /\ salvaged = FALSE /\ Shown(thinking_enabled, blocks)
  BY <1>1, Standing
<1>4. held \o <<>> = held
  BY ConcatEmptySeq DEF Inv, HandedOut
<1>5. Sends(Rule', thinking_enabled, early_retries, Client, held \o <<>>, View(stage, blocks))
  BY <1>1, <1>2, <1>4, RuleFacts DEF Return
<1>6. <<>> \in Seq(Sendable(thinking_enabled, early_retries))
  BY EmptySeq
<1> QED
  BY <1>1, <1>3, <1>5, <1>6, ReturnSound

\* emit_error: what was shown or held is ended, or the error is a message.
LEMMA ErrorTailInv ==
    ASSUME Inv, NEW place \in {"opening", "reading", "recovering"}, At(place),
           ErrorTail, UNCHANGED salvaged
    PROVE  Inv'
<1> DEFINE th == thinking_enabled
           n == early_retries
<1>1. PICK stage : Sends(Rule, th, n, Client, held, View(stage, blocks))
  BY Standing
<1>2. ~salvaged /\ salvaged = FALSE /\ Shown(th, blocks) /\ n \in Nat /\ OfAttempt(n, n)
  BY Standing
<1>5. Rule' = Rule
  BY RuleFacts DEF ErrorTail, Return
<1>3. CASE committed \/ held # <<>>
  <2> DEFINE closed == Close(blocks, OpenOf(blocks))
             text == ErrorText(Len(blocks) + 1, n)
  <2>1. Return(CloseAll(blocks) \o text, blocks)
    BY <1>3 DEF ErrorTail
  <2>2. Sends(Rule, th, n, View(stage, blocks), CloseAll(blocks), View(stage, closed))
    BY <1>2, CloseAllTaken DEF Sends
  <2>3. Shown(th, closed) /\ OpenOf(closed) = {} /\ Len(closed) = Len(blocks)
    BY <1>2, ClosedShown, CloseFacts DEF Shown
  <2> HIDE DEF closed
  <2>4. PICK d : Sends(Rule, th, n, View(stage, closed), text, d)
    BY <1>2, <2>3, ErrorTextSent, RuleFacts
  <2> HIDE DEF text
  <2>5. Sends(Rule, th, n, View(stage, blocks), CloseAll(blocks) \o text, d)
    BY <2>2, <2>4, SendsConcat
  <2> DEFINE events == CloseAll(blocks) \o text
  <2> HIDE DEF events, th, n
  <2>6. Sends(Rule', th, n, Client, held \o events, d) /\ events \in Seq(Sendable(th, n))
    <3>1. Sends(Rule, th, n, View(stage, blocks), events, d)
      BY <2>5 DEF events
    <3> QED
      BY <1>1, <1>5, <3>1, SendsConcat DEF Sends
  <2> QED
    BY <1>2, <2>1, <2>6, ReturnSound DEF th, n, events
<1>4. CASE ~committed /\ held = <<>>
  <2> DEFINE start == <<PlainEvent("message_start", -1)>>
             text == ErrorText(1, -1)
  <2>1. Return(start \o text, blocks)
    BY <1>4 DEF ErrorTail
  <2>2. Client = View("before", <<>>)
    <3>1. wire = Contract!Nothing /\ broken = {}
      BY <1>4 DEF Inv, HandedOut
    <3>2. wire.stage = "before" /\ wire.open = {} /\ wire.used = {}
      BY <3>1 DEF Contract!Nothing
    <3>3. DOMAIN <<>> = {}
      OBVIOUS
    <3> QED
      BY <3>1, <3>2, <3>3 DEF Client, View, OpenOf
  <2>3. /\ <<>> \in Seq(Block) /\ Len(<<>>) = 0 /\ Shown(th, <<>>) /\ OpenOf(<<>>) = {}
        /\ OfAttempt(-1, n) /\ Len(<<>>) + 1 = 1
    <3>1. <<>> \in Seq(Block) /\ Len(<<>>) = 0 /\ DOMAIN <<>> = {}
      BY EmptySeq
    <3> QED
      BY <3>1 DEF Shown, OpenOf, OfAttempt
  <2>4. Sends(Rule, th, n, View("before", <<>>), start, View("content", <<>>))
    BY <2>3, MessageStartSent, RuleFacts
  <2>5. PICK d : Sends(Rule, th, n, View("content", <<>>), text, d)
    <3>1. \E d : Sends(Rule, th, n, View("content", <<>>), ErrorText(Len(<<>>) + 1, -1), d)
      BY <2>3, ErrorTextSent, RuleFacts
    <3> QED
      BY <2>3, <3>1
  <2> DEFINE events == start \o text
  <2> HIDE DEF start, text, th, n
  <2>6. Sends(Rule, th, n, Client, events, d)
    BY <2>2, <2>4, <2>5, SendsConcat
  <2>7. held \o events = events /\ events \in Seq(Sendable(th, n))
    <3>1. events \in Seq(Sendable(th, n))
      BY <2>6 DEF Sends
    <3> HIDE DEF events
    <3> QED
      BY <1>4, <3>1, ConcatEmptySeq
  <2> HIDE DEF events
  <2>8. Sends(Rule', th, n, Client, held \o events, d)
    BY <1>5, <2>6, <2>7
  <2> QED
    BY <1>2, <2>1, <2>7, <2>8, ReturnSound DEF th, n, events
<1> QED
  BY <1>3, <1>4

LEMMA RecoverToolsInv ==
    ASSUME Inv, RecoverTools
    PROVE  Inv'
<1> DEFINE th == thinking_enabled
           n == early_retries
           vouched == Rule \union {"repairs"}
           whole == Whole(blocks, ToolBlocks)
           events == Repairs \o CloseAll(whole)
                     \o (IF stop_reason THEN <<>> ELSE <<Plain("message_delta")>>)
                     \o (IF message_stopped THEN <<>> ELSE <<Plain("message_stop")>>)
<1>1. At("recovering") /\ Return(events, whole) /\ salvaged' = TRUE
  BY DEF RecoverTools, Succeed, Whole
<1>2. PICK stage : /\ Sends(Rule, th, n, Client, held, View(stage, blocks))
                   /\ StageSound(stage)
  BY <1>1, Standing
<1>3. Shown(th, blocks) /\ n \in Nat
  BY <1>1, Standing
<1>4. stop_reason => stage # "content"
  BY <1>2 DEF StageSound
<1>9. "answer" \in vouched /\ {"answer", "repairs"} \subseteq vouched /\ Rule \subseteq vouched
  BY RuleFacts
<1>10. Rule' = vouched
  <2>1. UNCHANGED <<stop_reason, message_stopped>>
    BY <1>1 DEF Return
  <2> QED
    BY <1>1, <2>1 DEF Rule
<1> HIDE DEF vouched
<1>5. /\ Sends(vouched, th, n, View(stage, blocks), Repairs, View(stage, whole))
      /\ View(stage, whole).broken = {}
  BY <1>3, <1>9, RepairsTaken DEF Sends
<1>6. /\ Shown(th, whole) /\ DOMAIN whole # {}
      /\ \A b \in DOMAIN blocks : b \in DOMAIN whole /\ whole[b].kind = blocks[b].kind
  <2>1. /\ whole \in Seq(Block) /\ DOMAIN whole = DOMAIN blocks
        /\ \A b \in DOMAIN blocks : whole[b].kind = blocks[b].kind
    BY <1>3, WholeFacts DEF Shown
  <2>2. DOMAIN blocks # {}
    BY DEF RecoverTools, ToolBlocks
  <2> HIDE DEF whole
  <2> QED
    BY <1>3, <2>1, <2>2 DEF Shown
<1> HIDE DEF whole
<1>7. PICK d : Sends(vouched, th, n, View(stage, blocks), events, d) /\ d.broken = {}
  <2>1. \E d : /\ Sends(vouched, th, n, View(stage, blocks), events, d)
               /\ d.broken = View(stage, whole).broken
    BY <1>3, <1>4, <1>5, <1>6, <1>9, SuccessSent
  <2> HIDE DEF events
  <2> QED
    BY <1>5, <2>1
<1> HIDE DEF events
<1>8. Sends(vouched, th, n, Client, held \o events, d) /\ events \in Seq(Sendable(th, n))
  <2>1. Sends(vouched, th, n, Client, held, View(stage, blocks))
    BY <1>2, <1>9, RuleFacts, SendsFreely
  <2> HIDE DEF th, n
  <2> QED
    BY <1>7, <2>1, SendsConcat DEF Sends
<1> QED
  <2>1. salvaged' \in BOOLEAN
    BY <1>1
  <2> HIDE DEF events
  <2> QED
    BY <1>1, <1>6, <1>7, <1>8, <1>10, <2>1, ReturnSound

\* A message that goes on with more text ends.
LEMMA SuccessInv ==
    ASSUME Inv, At("recovering"), UNCHANGED salvaged, NEW events, NEW bs, Succeed(events, bs),
           Shown(thinking_enabled, bs),
           \A stage : Sends(Rule, thinking_enabled, early_retries, View(stage, blocks),
                            events, View(stage, bs)),
           DOMAIN blocks # {},
           \A b \in DOMAIN blocks : b \in DOMAIN bs /\ bs[b].kind = blocks[b].kind
    PROVE  Inv'
<1> DEFINE th == thinking_enabled
           n == early_retries
           all == events \o CloseAll(bs)
                  \o (IF stop_reason THEN <<>> ELSE <<Plain("message_delta")>>)
                  \o (IF message_stopped THEN <<>> ELSE <<Plain("message_stop")>>)
<1>1. Return(all, bs)
  BY DEF Succeed
<1>2. PICK stage : /\ Sends(Rule, th, n, Client, held, View(stage, blocks))
                   /\ StageSound(stage)
  BY Standing
<1>3. ~salvaged /\ salvaged = FALSE /\ n \in Nat
  BY Standing
<1>4. (stop_reason => stage # "content") /\ DOMAIN bs # {}
  BY <1>2 DEF StageSound
<1>5. Sends(Rule, th, n, View(stage, blocks), events, View(stage, bs))
  OBVIOUS
<1>6. PICK d : Sends(Rule, th, n, View(stage, blocks), all, d)
  BY <1>3, <1>4, <1>5, SuccessSent, RuleFacts
<1> HIDE DEF all
<1>7. Sends(Rule', th, n, Client, held \o all, d) /\ all \in Seq(Sendable(th, n))
  <2> HIDE DEF th, n
  <2> QED
    BY <1>1, <1>2, <1>6, SendsConcat, RuleFacts DEF Sends, Return
<1> QED
  BY <1>1, <1>3, <1>7, ReturnSound

LEMMA SuffixedFacts ==
    ASSUME NEW bs \in Seq(Block), NEW kind \in {"text", "thinking"}
    PROVE  \A b \in DOMAIN bs : /\ b \in DOMAIN Suffixed(bs, kind)
                                /\ Suffixed(bs, kind)[b].kind = bs[b].kind
<1>1. CASE LastOpen(bs, kind) # 0
  BY <1>1 DEF Suffixed
<1>2. CASE LastOpen(bs, kind) = 0
  <2> DEFINE new == [NewBlock(kind, TRUE) EXCEPT !.args = "part"]
  <2>1. new \in Block
    BY DEF NewBlock, Block, Args, Contract!Kinds
  <2>2. Suffixed(bs, kind) = Append(bs, new)
    BY <1>2 DEF Suffixed
  <2> HIDE DEF new
  <2>3. /\ DOMAIN Append(bs, new) = 1 .. Len(bs) + 1 /\ DOMAIN bs = 1 .. Len(bs)
        /\ Len(bs) \in Nat
        /\ \A b \in 1 .. Len(bs) : Append(bs, new)[b] = bs[b]
    BY <2>1, AppendFacts
  <2> QED
    BY <2>2, <2>3
<1> QED
  BY <1>1, <1>2

LEMMA RecoverTextInv ==
    ASSUME Inv, RecoverText
    PROVE  Inv'
<1> DEFINE th == thinking_enabled
           n == early_retries
           thoughtful == Suffixed(blocks, "thinking")
           both == Suffixed(thoughtful, "text")
<1>1. At("recovering") /\ UNCHANGED salvaged
  BY DEF RecoverText
<1>2. Shown(th, blocks) /\ n \in Nat /\ blocks \in Seq(Block) /\ DOMAIN blocks # {}
  BY <1>1, Standing DEF Shown, RecoverText
<1>3. CASE Succeed(Suffix(blocks, "text"), Suffixed(blocks, "text"))
  <2>1. /\ Shown(th, Suffixed(blocks, "text"))
        /\ \A stage : Sends(Rule, th, n, View(stage, blocks), Suffix(blocks, "text"),
                            View(stage, Suffixed(blocks, "text")))
    BY <1>2, SuffixSent, RuleFacts
  <2>2. \A b \in DOMAIN blocks : /\ b \in DOMAIN Suffixed(blocks, "text")
                                 /\ Suffixed(blocks, "text")[b].kind = blocks[b].kind
    BY <1>2, SuffixedFacts
  <2> QED
    BY <1>1, <1>2, <1>3, <2>1, <2>2, SuccessInv
<1>4. ASSUME th
      PROVE  /\ Shown(th, thoughtful)
             /\ \A stage : Sends(Rule, th, n, View(stage, blocks), Suffix(blocks, "thinking"),
                                 View(stage, thoughtful))
             /\ \A b \in DOMAIN blocks : /\ b \in DOMAIN thoughtful
                                         /\ thoughtful[b].kind = blocks[b].kind
  <2>1. /\ Shown(th, thoughtful)
        /\ \A stage : Sends(Rule, th, n, View(stage, blocks), Suffix(blocks, "thinking"),
                            View(stage, thoughtful))
    BY <1>2, <1>4, SuffixSent, RuleFacts
  <2>2. \A b \in DOMAIN blocks : /\ b \in DOMAIN thoughtful
                                 /\ thoughtful[b].kind = blocks[b].kind
    BY <1>2, SuffixedFacts
  <2> QED
    BY <2>1, <2>2
<1>5. CASE th /\ Succeed(Suffix(blocks, "thinking"), thoughtful)
  <2> HIDE DEF thoughtful
  <2> QED
    BY <1>1, <1>2, <1>4, <1>5, SuccessInv
<1>6. CASE th /\ Succeed(Suffix(blocks, "thinking") \o Suffix(thoughtful, "text"), both)
  <2> DEFINE events == Suffix(blocks, "thinking") \o Suffix(thoughtful, "text")
  <2> HIDE DEF thoughtful
  <2>1. /\ Shown(th, both)
        /\ \A stage : Sends(Rule, th, n, View(stage, thoughtful), Suffix(thoughtful, "text"),
                            View(stage, both))
    <3>1. Shown(th, thoughtful) /\ "answer" \in Rule /\ n \in Nat
      BY <1>2, <1>4, <1>6, RuleFacts
    <3> QED
      BY <3>1, SuffixSent
  <2>2. \A b \in DOMAIN thoughtful : /\ b \in DOMAIN both
                                     /\ both[b].kind = thoughtful[b].kind
    BY <1>4, <1>6, SuffixedFacts DEF Shown
  <2> HIDE DEF both
  <2>3. \A stage : Sends(Rule, th, n, View(stage, blocks), events, View(stage, both))
    BY <1>4, <1>6, <2>1, SendsConcat
  <2>4. \A b \in DOMAIN blocks : /\ b \in DOMAIN both
                                 /\ both[b].kind = blocks[b].kind
    BY <1>4, <1>6, <2>2
  <2>5. Succeed(events, both)
    BY <1>6
  <2> HIDE DEF events
  <2> QED
    BY <1>1, <1>2, <2>1, <2>3, <2>4, <2>5, SuccessInv
<1> QED
  BY <1>3, <1>5, <1>6 DEF RecoverText

\* A stream of which nothing was handed out begins anew.
LEMMA RetryInv ==
    ASSUME Inv, NEW place \in {"opening", "reading"}, At(place), Retry, ~committed,
           early_retries < MaxRetries
    PROVE  Inv'
<1>1. /\ pc = place /\ outbox = <<>> /\ ~gone
      /\ pc' = "opening" /\ held' = <<>> /\ committed' = FALSE
      /\ early_retries' = early_retries + 1 /\ upstream' = NoMessage
      /\ segment' = [i \in Indexes |-> -1] /\ dropped' = {} /\ suppressed' = {}
      /\ blocks' = <<>> /\ stop_reason' = FALSE /\ message_stopped' = FALSE
      /\ UNCHANGED <<outbox, wire, gone, attempts, broken, thinking_enabled, salvaged>>
  BY DEF At, Retry, Reopens, clientVars
<1>2. upstream' \in Upstream /\ upstream'.stage = "before"
  BY <1>1 DEF NoMessage, NoBlock, Upstream, UpstreamBlock, Args
<1>3. blocks' \in Seq(Block) /\ DOMAIN blocks' = {} /\ Shown(thinking_enabled', blocks')
  BY <1>1, EmptySeq DEF Shown
<1>4. PolicySound'
  <2>1. segment' \in [Indexes -> Nat \union {-1}] /\ \A i \in Indexes : segment'[i] = -1
    BY <1>1
  <2>2. SegmentSound'
    BY <1>1, <2>1 DEF SegmentSound
  <2> QED
    BY <1>1, <1>2, <1>3, <2>2 DEF PolicySound
<1>6. attempts = {} /\ wire = Contract!Nothing /\ broken = {} /\ ~salvaged
  BY <1>1 DEF Inv, HandedOut
<1>7. HandedOut'
  <2>1. outbox' \in Seq(Sendable(thinking_enabled', early_retries'))
        /\ held' \in Seq(Sendable(thinking_enabled', early_retries'))
    BY <1>1, EmptySeq
  <2>2. early_retries' \in 0 .. MaxRetries
    BY <1>1, EventBoundAssumption DEF Inv, HandedOut
  <2>3. DownstreamOK'
    BY <1>1 DEF Inv, HandedOut, DownstreamOK
  <2>4. ThinkingHidden' /\ IsWire'
    BY <1>1 DEF Inv, HandedOut, ThinkingHidden, IsWire
  <2> QED
    BY <1>1, <1>6, <2>1, <2>2, <2>3, <2>4 DEF Inv, HandedOut
<1>8. Client' = View("before", blocks')
  <2>1. wire.stage = "before" /\ wire.open = {} /\ wire.used = {}
    BY <1>6 DEF Contract!Nothing
  <2> QED
    BY <1>1, <1>3, <1>6, <2>1 DEF Client, View, OpenOf
<1>9. outbox' \o held' = <<>>
  BY <1>1
<1>10. Sends(Rule', thinking_enabled', early_retries', Client', outbox' \o held',
             View("before", blocks'))
  <2>1. Sends(Rule', thinking_enabled', early_retries', Client', <<>>, Client')
    BY SendsNothing
  <2> QED
    BY <1>8, <1>9, <2>1
<1>11. ClientSound'
  BY <1>1, <1>2, <1>10 DEF ClientSound, StageSound, Pending
<1> QED
  BY <1>4, <1>7, <1>11 DEF Inv

\* A step that only goes from one place to the next.
LEMMA MoveInv ==
    ASSUME Inv, NEW place \in {"opening", "reading"}, At(place),
           pc' \in {"reading", "recovering"},
           UNCHANGED <<thinking_enabled, early_retries, policyVars, trackerVars, holdVars,
                       clientVars, salvaged>>
    PROVE  Inv'
<1>1. pc = place /\ pc # "done" /\ pc' # "done" /\ ~gone
  BY DEF At
<1>2. UNCHANGED <<thinking_enabled, early_retries, upstream, segment, dropped, suppressed,
                  blocks, stop_reason, message_stopped, held, committed, outbox, wire, gone,
                  attempts, broken, salvaged>>
  BY DEF policyVars, trackerVars, holdVars, clientVars
<1>3. PolicySound'
  BY <1>1, <1>2 DEF Inv, PolicySound, SegmentSound, Shown
<1>4. HandedOut'
  BY <1>1, <1>2 DEF Inv, HandedOut, DownstreamOK, ThinkingHidden, IsWire
<1>5. PICK stage : /\ Sends(Rule, thinking_enabled, early_retries, Client, outbox \o held,
                            View(stage, blocks))
                   /\ StageSound(stage)
  BY Standing DEF Pending
<1>6. Client' = Client
  BY <1>2 DEF Client
<1>7. ClientSound'
  BY <1>1, <1>2, <1>5, <1>6, RuleFacts DEF ClientSound, StageSound, Pending
<1> QED
  BY <1>3, <1>4, <1>7 DEF Inv

LEMMA HandleInv ==
    ASSUME Inv, NEW place \in {"opening", "reading"}, At(place),
           NEW opened \in BOOLEAN, NEW retryable \in BOOLEAN, Handle(opened, retryable)
    PROVE  Inv'
<1>1. CASE MayRetry(opened) /\ Retry
  BY <1>1, RetryInv DEF MayRetry
<1>2. CASE Recover
  BY <1>2, MoveInv DEF Recover, Recovers
<1>3. CASE ErrorTail /\ UNCHANGED salvaged
  BY <1>3, ErrorTailInv
<1> QED
  BY <1>1, <1>2, <1>3 DEF Handle

-----------------------------------------------------------------------------
(***************************************************************************)
(* The events of the provider.                                             *)
(***************************************************************************)
\* Events of the message itself, which leave the blocks alone.
LEMMA StageInv ==
    ASSUME Inv, NEW stage \in {"before", "content", "failed", "ending", "stopped"},
           upstream' = [upstream EXCEPT !.stage = stage], NEW events, Arrives(events),
           UNCHANGED <<segment, dropped, suppressed, blocks>>,
           stop_reason' \in BOOLEAN, message_stopped' \in BOOLEAN,
           stop_reason => stop_reason', message_stopped => message_stopped',
           stage # "before",
           NEW from, Pending(View(from, blocks)), NEW to,
           Sends(Rule', thinking_enabled, early_retries, View(from, blocks), events,
                 View(to, blocks)),
           to = "content" => ~stop_reason'
    PROVE  Inv'
<1>1. /\ upstream' \in Upstream /\ upstream'.stage = stage /\ upstream'.block = upstream.block
  BY DEF Inv, PolicySound, Upstream
<1>2. pc' = pc /\ thinking_enabled' = thinking_enabled /\ blocks' = blocks
  BY DEF Arrives
<1>3. HandedOut' /\ ClientSound'
  <2>1. StageSound(to)'
    BY <1>1 DEF StageSound
  <2> QED
    BY <1>2, <2>1, ArrivesSound
<1>4. SegmentSound'
  BY <1>1, <1>2 DEF Inv, PolicySound, SegmentSound
<1>5. PolicySound'
  BY <1>1, <1>2, <1>4 DEF Inv, PolicySound, Shown
<1> QED
  BY <1>3, <1>4, <1>5 DEF Inv

LEMMA MessageEventsInv ==
    ASSUME Inv, \/ MessageStart \/ MessageDelta \/ MessageStop \/ ErrorArrives
    PROVE  Inv'
<1>1. At("reading")
  BY DEF MessageStart, MessageDelta, MessageStop, ErrorArrives, Arrives
<1>2. PICK from : Pending(View(from, blocks)) /\ StageSound(from)
  BY <1>1, Standing
<1>3. OfAttempt(early_retries, early_retries)
  BY <1>1, Standing
<1>4. /\ stop_reason \in BOOLEAN /\ message_stopped \in BOOLEAN
      /\ upstream.stage = "before" => ~stop_reason
  BY DEF Inv, PolicySound
<1>5. CASE MessageStart
  <2>1. /\ upstream.stage = "before" /\ upstream' = [upstream EXCEPT !.stage = "content"]
        /\ Arrives(<<Plain("message_start")>>)
        /\ UNCHANGED <<segment, dropped, suppressed, blocks, stop_reason, message_stopped>>
    BY <1>5 DEF MessageStart, trackerVars
  <2>2. from # "content"
    BY <1>2, <2>1 DEF StageSound
  <2>3. Sends(Rule', thinking_enabled, early_retries, View(from, blocks),
              <<Plain("message_start")>>, View("content", blocks))
    BY <1>3, <2>2, MessageStartSent, RuleFacts DEF Plain
  <2> QED
    BY <1>2, <1>4, <2>1, <2>3, StageInv
<1>6. CASE MessageDelta
  <2>1. /\ upstream.stage = "content" /\ upstream' = [upstream EXCEPT !.stage = "ending"]
        /\ Arrives(<<Plain("message_delta")>>) /\ stop_reason' = TRUE
        /\ UNCHANGED <<segment, dropped, suppressed, blocks, message_stopped>>
    BY <1>6 DEF MessageDelta
  <2>2. "answer" \in Rule' /\ "delta" \in Rule'
    BY <2>1 DEF Rule
  <2>3. Sends(Rule', thinking_enabled, early_retries, View(from, blocks),
              <<Plain("message_delta")>>, View("ending", blocks))
    BY <1>3, <2>2, MessageDeltaSent DEF Plain
  <2>4. stop_reason' \in BOOLEAN /\ message_stopped' \in BOOLEAN
    BY <1>4, <2>1
  <2> QED
    BY <1>2, <2>1, <2>3, <2>4, StageInv
<1>7. CASE MessageStop
  <2>1. /\ upstream' = [upstream EXCEPT !.stage = "stopped"]
        /\ Arrives(<<Plain("message_stop")>>) /\ message_stopped' = TRUE
        /\ UNCHANGED <<segment, dropped, suppressed, blocks, stop_reason>>
    BY <1>7 DEF MessageStop
  <2>2. "answer" \in Rule' /\ "stop" \in Rule'
    BY <2>1 DEF Rule
  <2>3. Sends(Rule', thinking_enabled, early_retries, View(from, blocks),
              <<Plain("message_stop")>>, View("stopped", blocks))
    BY <1>3, <2>2, MessageStopSent DEF Plain
  <2>4. stop_reason' \in BOOLEAN /\ message_stopped' \in BOOLEAN
    BY <1>4, <2>1
  <2> QED
    BY <1>2, <2>1, <2>3, <2>4, StageInv
<1>8. CASE ErrorArrives
  <2>1. /\ upstream' = [upstream EXCEPT !.stage = "failed"]
        /\ Arrives(<<Plain("error")>>)
        /\ UNCHANGED <<segment, dropped, suppressed, blocks, stop_reason, message_stopped>>
    BY <1>8 DEF ErrorArrives, trackerVars
  <2>2. Sends(Rule', thinking_enabled, early_retries, View(from, blocks),
              <<Plain("error")>>, View(from, blocks))
    BY <1>3, ErrorSent, RuleFacts DEF Plain
  <2>3. stop_reason' \in BOOLEAN /\ message_stopped' \in BOOLEAN
        /\ (from = "content" => ~stop_reason')
    BY <1>2, <1>4, <2>1 DEF StageSound
  <2> QED
    BY <1>2, <2>1, <2>2, <2>3, StageInv
<1> QED
  BY <1>5, <1>6, <1>7, <1>8

LEMMA UpstreamMoves ==
    ASSUME upstream \in Upstream, NEW i \in Indexes, NEW to \in UpstreamBlock,
           upstream' = [upstream EXCEPT !.count = @ + 1, !.block[i] = to]
    PROVE  /\ upstream' \in Upstream /\ upstream'.stage = upstream.stage
           /\ upstream'.block[i] = to
           /\ \A j \in Indexes : j # i => upstream'.block[j] = upstream.block[j]
<1>1. upstream.block \in [Indexes -> UpstreamBlock]
  BY DEF Upstream
<1> DEFINE block == [upstream.block EXCEPT ![i] = to]
<1>2. /\ block \in [Indexes -> UpstreamBlock] /\ block[i] = to
      /\ \A j \in Indexes : j # i => block[j] = upstream.block[j]
  BY <1>1
<1>3. upstream' = [upstream EXCEPT !.count = @ + 1, !.block = block]
  OBVIOUS
<1> HIDE DEF block
<1>4. upstream.count + 1 \in Nat
  BY DEF Upstream
<1>5. upstream' = [stage |-> upstream.stage, count |-> upstream.count + 1, block |-> block]
  BY <1>3 DEF Upstream
<1>6. upstream.stage \in {"before", "content", "failed", "ending", "stopped"}
  BY DEF Upstream
<1> QED
  BY <1>2, <1>4, <1>5, <1>6 DEF Upstream

\* An event of a block: what it must do to the policy, the tracker and the client.
LEMMA BlockArrivesInv ==
    ASSUME Inv, NEW i \in Indexes, NEW to \in UpstreamBlock, NEW events,
           BlockArrives(i, to, events),
           \A stage : Sends(Rule, thinking_enabled, early_retries, View(stage, blocks), events,
                            View(stage, blocks')),
           Shown(thinking_enabled, blocks'), dropped' \subseteq Indexes,
           suppressed' \subseteq Indexes, SegmentSound'
    PROVE  Inv'
<1>1. /\ upstream.stage \in {"content", "ending"} /\ Arrives(events) /\ At("reading")
      /\ upstream' = [upstream EXCEPT !.count = @ + 1, !.block[i] = to]
      /\ UNCHANGED <<stop_reason, message_stopped, thinking_enabled, salvaged>>
  BY DEF BlockArrives, Arrives
<1>2. upstream' \in Upstream /\ upstream'.stage = upstream.stage
  BY <1>1, UpstreamMoves DEF Inv, PolicySound
<1>3. PICK stage : Pending(View(stage, blocks)) /\ StageSound(stage)
  BY <1>1, Standing
<1>4. HandedOut' /\ ClientSound'
  <2>1. StageSound(stage)'
    BY <1>1, <1>2, <1>3 DEF StageSound
  <2>2. Sends(Rule', thinking_enabled, early_retries, View(stage, blocks), events,
              View(stage, blocks'))
    BY <1>1, RuleFacts
  <2> QED
    BY <1>1, <1>3, <2>1, <2>2, ArrivesSound
<1>5. PolicySound'
  BY <1>1, <1>2 DEF Inv, PolicySound
<1> QED
  BY <1>4, <1>5 DEF Inv

\* What is known of the provider's blocks before and after an event of index i.
LEMMA BlockArrivesFacts ==
    ASSUME Inv, NEW i \in Indexes, NEW to \in UpstreamBlock, NEW events,
           BlockArrives(i, to, events)
    PROVE  /\ upstream.block[i] \in UpstreamBlock
           /\ upstream'.block[i] = to
           /\ \A j \in Indexes : j # i => upstream'.block[j] = upstream.block[j]
           /\ thinking_enabled' = thinking_enabled
           /\ OfAttempt(early_retries, early_retries) /\ early_retries \in Nat
           /\ Shown(thinking_enabled, blocks) /\ blocks \in Seq(Block)
           /\ dropped \subseteq Indexes /\ suppressed \subseteq Indexes
<1>1. /\ Arrives(events) /\ At("reading")
      /\ upstream' = [upstream EXCEPT !.count = @ + 1, !.block[i] = to]
      /\ UNCHANGED thinking_enabled
  BY DEF BlockArrives, Arrives
<1>2. /\ upstream'.block[i] = to
      /\ \A j \in Indexes : j # i => upstream'.block[j] = upstream.block[j]
  BY <1>1, UpstreamMoves DEF Inv, PolicySound
<1>3. upstream.block[i] \in UpstreamBlock
  BY DEF Inv, PolicySound, Upstream
<1>4. /\ OfAttempt(early_retries, early_retries) /\ early_retries \in Nat
      /\ Shown(thinking_enabled, blocks) /\ blocks \in Seq(Block)
  BY <1>1, Standing DEF Shown
<1> QED
  BY <1>1, <1>2, <1>3, <1>4 DEF Inv, PolicySound

\* An event that leaves the blocks alone, and of which the client sees nothing:
\* hidden thinking, and stops that are not passed on.
LEMMA QuietInv ==
    ASSUME Inv, NEW i \in Indexes, NEW to \in UpstreamBlock,
           BlockArrives(i, to, <<>>), UNCHANGED <<segment, blocks>>,
           segment[i] # -1 => to.kind = upstream.block[i].kind,
           dropped' \subseteq Indexes, suppressed' \subseteq suppressed
    PROVE  Inv'
<1>1. /\ upstream'.block[i] = to
      /\ \A j \in Indexes : j # i => upstream'.block[j] = upstream.block[j]
      /\ thinking_enabled' = thinking_enabled
      /\ Shown(thinking_enabled, blocks) /\ suppressed \subseteq Indexes
  BY BlockArrivesFacts
<1>2. SegmentSound
  BY DEF Inv, PolicySound
<1>3. SegmentSound'
  <2>1. ASSUME NEW j \in Indexes, segment'[j] # -1
        PROVE  /\ segment'[j] \in DOMAIN blocks'
               /\ blocks'[segment'[j]].kind = upstream'.block[j].kind
    <3>1. CASE j = i
      BY <1>1, <1>2, <2>1, <3>1 DEF SegmentSound
    <3>2. CASE j # i
      BY <1>1, <1>2, <2>1, <3>2 DEF SegmentSound
    <3> QED
      BY <3>1, <3>2
  <2> QED
    BY <1>2, <2>1 DEF SegmentSound
<1>5. \A stage : Sends(Rule, thinking_enabled, early_retries, View(stage, blocks), <<>>,
                       View(stage, blocks'))
  BY SendsNothing
<1> QED
  BY <1>1, <1>3, <1>5, BlockArrivesInv

\* The provider has not used an index that has no block.
LEMMA UnusedFacts ==
    ASSUME Inv, NEW i \in Indexes, Unused(i)
    PROVE  segment[i] = -1
<1> SUFFICES ASSUME segment[i] # -1 PROVE FALSE
  OBVIOUS
<1>1. segment[i] \in DOMAIN blocks /\ blocks[segment[i]].kind = "none" /\ blocks \in Seq(Block)
  BY DEF Inv, PolicySound, SegmentSound, Unused, Shown
<1> QED
  BY <1>1, BlocksFacts DEF Contract!Kinds

LEMMA StartDroppedInv ==
    ASSUME Inv, NEW i \in Indexes, NEW kind \in Contract!Kinds, StartDropped(i, kind)
    PROVE  Inv'
<1> DEFINE to == [kind |-> kind, args |-> "none"]
<1>1. /\ BlockArrives(i, to, <<>>) /\ dropped' = dropped \union {i} /\ Unused(i)
      /\ UNCHANGED <<segment, suppressed, blocks>>
  BY DEF StartDropped
<1>2. to \in UpstreamBlock
  BY DEF UpstreamBlock, Args
<1> HIDE DEF to
<1>3. dropped \subseteq Indexes
  BY <1>1, <1>2, BlockArrivesFacts
<1>4. segment[i] = -1
  BY <1>1, UnusedFacts
<1> QED
  BY <1>1, <1>2, <1>3, <1>4, QuietInv

LEMMA DeltaDroppedInv ==
    ASSUME Inv, NEW i \in Indexes, DeltaDropped(i)
    PROVE  Inv'
<1> DEFINE to == [upstream.block[i] EXCEPT !.args = "part"]
<1>1. /\ BlockArrives(i, to, <<>>)
      /\ UNCHANGED <<segment, dropped, suppressed, blocks>>
  BY DEF DeltaDropped
<1>2. upstream.block[i] \in UpstreamBlock
  BY DEF Inv, PolicySound, Upstream
<1>3. to \in UpstreamBlock /\ to.kind = upstream.block[i].kind
  BY <1>2 DEF UpstreamBlock, Args
<1> HIDE DEF to
<1>4. dropped' \subseteq Indexes /\ suppressed' \subseteq suppressed
  BY <1>1, <1>3, BlockArrivesFacts
<1> QED
  BY <1>1, <1>3, <1>4, QuietInv

LEMMA StopPassedInv ==
    ASSUME Inv, NEW i \in Indexes, StopPassed(i)
    PROVE  Inv'
<1> DEFINE up == upstream.block[i]
           d == segment[i]
           passed == d # -1 /\ i \notin suppressed /\ blocks[d].open
           events == IF passed THEN <<Stop(d, blocks[d].kind)>> ELSE <<>>
<1>1. /\ BlockArrives(i, up, events)
      /\ blocks' = (IF passed THEN Close(blocks, {d}) ELSE blocks)
      /\ suppressed' \subseteq suppressed
      /\ UNCHANGED <<segment, dropped>>
  BY DEF StopPassed
<1>2. up \in UpstreamBlock
  BY DEF Inv, PolicySound, Upstream
<1> HIDE DEF events
<1>4. /\ upstream'.block[i] = up
      /\ \A j \in Indexes : j # i => upstream'.block[j] = upstream.block[j]
      /\ thinking_enabled' = thinking_enabled
      /\ OfAttempt(early_retries, early_retries)
      /\ Shown(thinking_enabled, blocks) /\ blocks \in Seq(Block)
      /\ dropped \subseteq Indexes /\ suppressed \subseteq Indexes
  BY <1>1, <1>2, BlockArrivesFacts
<1>5. SegmentSound
  BY DEF Inv, PolicySound
<1>6. CASE passed
  <2>1. d \in DOMAIN blocks /\ d \in OpenOf(blocks)
    BY <1>5, <1>6 DEF SegmentSound, OpenOf
  <2>2. blocks' = Close(blocks, {d}) /\ events = <<Stop(d, blocks[d].kind)>>
    BY <1>1, <1>6 DEF events
  <2>3. /\ DOMAIN blocks' = DOMAIN blocks
        /\ \A b \in DOMAIN blocks : blocks'[b].kind = blocks[b].kind
    BY <1>4, <2>2, CloseFacts
  <2>4. Shown(thinking_enabled, blocks')
    BY <1>4, <2>2, ClosedShown
  <2>5. ASSUME NEW stage
        PROVE  Sends(Rule, thinking_enabled, early_retries, View(stage, blocks), events,
                     View(stage, blocks'))
    <3>1. Sends(Rule, thinking_enabled, early_retries, View(stage, blocks),
                <<Event("content_block_stop", Index(d), blocks[d].kind, "none", early_retries)>>,
                View(stage, Close(blocks, {d})))
      BY <1>4, <2>1, StopSent
    <3> QED
      BY <2>2, <3>1 DEF Stop, BlockEvent
  <2>6. SegmentSound'
    <3>1. ASSUME NEW j \in Indexes, segment'[j] # -1
          PROVE  /\ segment'[j] \in DOMAIN blocks'
                 /\ blocks'[segment'[j]].kind = upstream'.block[j].kind
      <4>1. /\ segment[j] \in DOMAIN blocks /\ blocks[segment[j]].kind = upstream.block[j].kind
            /\ segment'[j] = segment[j]
        BY <1>1, <1>5, <3>1 DEF SegmentSound
      <4>2. upstream'.block[j] = upstream.block[j]
        BY <1>4
      <4> QED
        BY <2>3, <4>1, <4>2
    <3> QED
      BY <1>1, <1>5, <3>1 DEF SegmentSound
  <2>8. dropped' \subseteq Indexes /\ suppressed' \subseteq Indexes
    BY <1>1, <1>4
  <2> HIDE DEF up
  <2> QED
    BY <1>1, <1>2, <2>4, <2>5, <2>6, <2>8, BlockArrivesInv
<1>7. CASE ~passed
  <2>1. events = <<>> /\ blocks' = blocks
    BY <1>1, <1>7 DEF events
  <2> QED
    BY <1>1, <1>2, <1>4, <2>1, QuietInv
<1> QED
  BY <1>6, <1>7

\* The events of index i go into block now, a new one or its own.
LEMMA IntoBlock ==
    ASSUME Inv, NEW i \in Indexes, NEW to, upstream'.block[i] = to,
           \A j \in Indexes : j # i => upstream'.block[j] = upstream.block[j],
           NEW now \in Nat, segment' = [segment EXCEPT ![i] = now],
           now \notin DOMAIN blocks \/ now = segment[i],
           now \in DOMAIN blocks', blocks'[now].kind = to.kind,
           \A b \in DOMAIN blocks : b \in DOMAIN blocks' /\ blocks'[b].kind = blocks[b].kind
    PROVE  SegmentSound'
<1>1. /\ segment \in [Indexes -> Nat \union {-1}]
      /\ \A j \in Indexes : segment[j] # -1 => /\ segment[j] \in DOMAIN blocks
                                               /\ blocks[segment[j]].kind = upstream.block[j].kind
      /\ \A j, k \in Indexes : segment[j] = segment[k] /\ segment[j] # -1 => j = k
  BY DEF Inv, PolicySound, SegmentSound
<1>2. /\ segment' \in [Indexes -> Nat \union {-1}] /\ segment'[i] = now
      /\ \A j \in Indexes : j # i => segment'[j] = segment[j]
  BY <1>1
<1>3. \A j \in Indexes : j # i => segment[j] # now
  <2> SUFFICES ASSUME NEW j \in Indexes, j # i, segment[j] = now PROVE FALSE
    OBVIOUS
  <2>1. now # -1 /\ now \in DOMAIN blocks
    BY <1>1
  <2> QED
    BY <1>1, <2>1
<1>4. ASSUME NEW j \in Indexes, segment'[j] # -1
      PROVE  /\ segment'[j] \in DOMAIN blocks'
             /\ blocks'[segment'[j]].kind = upstream'.block[j].kind
  <2>1. CASE j = i
    BY <1>2, <2>1
  <2>2. CASE j # i
    <3>1. segment'[j] = segment[j] /\ segment[j] # -1
      BY <1>2, <1>4, <2>2
    <3>2. segment[j] \in DOMAIN blocks /\ blocks[segment[j]].kind = upstream.block[j].kind
      BY <1>1, <3>1
    <3>3. upstream'.block[j] = upstream.block[j]
      BY <2>2
    <3> QED
      BY <3>1, <3>2, <3>3
  <2> QED
    BY <2>1, <2>2
<1>5. \A j, k \in Indexes : segment'[j] = segment'[k] /\ segment'[j] # -1 => j = k
  <2> SUFFICES ASSUME NEW j \in Indexes, NEW k \in Indexes, segment'[j] = segment'[k],
                      segment'[j] # -1
               PROVE  j = k
    OBVIOUS
  <2>1. CASE j = i /\ k # i
    BY <1>2, <1>3, <2>1
  <2>2. CASE j # i /\ k = i
    BY <1>2, <1>3, <2>2
  <2>3. CASE j # i /\ k # i
    BY <1>1, <1>2, <2>3
  <2> QED
    BY <2>1, <2>2, <2>3
<1> QED
  BY <1>2, <1>4, <1>5 DEF SegmentSound

LEMMA DeltaWithoutStartInv ==
    ASSUME Inv, NEW i \in Indexes, NEW kind \in Contract!Kinds, DeltaWithoutStart(i, kind)
    PROVE  Inv'
<1> DEFINE d == Len(blocks) + 1
           named == kind # "tool_use"
           started == Append(blocks, NewBlock(kind, named))
<1>1. PICK args \in MoreArgs([NoBlock EXCEPT !.kind = kind]) :
          /\ BlockArrives(i, [kind |-> kind, args |-> args],
                          <<Start(d, kind), Delta(d, kind, args)>>)
          /\ blocks' = Append(blocks, [NewBlock(kind, named) EXCEPT !.args = args])
  BY DEF DeltaWithoutStart
<1>2. /\ Unused(i) /\ kind # "thinking" /\ segment' = [segment EXCEPT ![i] = d]
      /\ UNCHANGED <<dropped, suppressed>>
  BY DEF DeltaWithoutStart
<1>3. args \in {"part", "whole"} /\ args \in Args /\ args \in Args \union {"rest"}
  BY <1>1 DEF MoreArgs, NoBlock, Args
<1> DEFINE to == [kind |-> kind, args |-> args]
           more == [started EXCEPT ![d].args = args]
           events == <<Start(d, kind), Delta(d, kind, args)>>
<1>4. to \in UpstreamBlock /\ to.kind = kind
  BY <1>3 DEF UpstreamBlock
<1>5. BlockArrives(i, to, events)
  BY <1>1
<1> HIDE DEF to, events
<1>6. /\ upstream'.block[i] = to
      /\ \A j \in Indexes : j # i => upstream'.block[j] = upstream.block[j]
      /\ thinking_enabled' = thinking_enabled
      /\ OfAttempt(early_retries, early_retries)
      /\ Shown(thinking_enabled, blocks) /\ blocks \in Seq(Block)
      /\ dropped \subseteq Indexes /\ suppressed \subseteq Indexes
  BY <1>4, <1>5, BlockArrivesFacts, ZenonT(40)
<1>7. segment[i] = -1
  BY <1>2, UnusedFacts
<1>8. named \in BOOLEAN /\ Len(blocks) \in Nat /\ DOMAIN blocks = 1 .. Len(blocks)
  BY <1>6, BlocksFacts
<1> HIDE DEF named
<1>9. /\ Shown(thinking_enabled, started)
      /\ \A stage :
            Sends(Rule, thinking_enabled, early_retries, View(stage, blocks),
                  <<Event("content_block_start", Index(d), kind, "none", early_retries)>>,
                  View(stage, started))
  BY <1>2, <1>6, <1>8, StartSent, RuleFacts
<1>10. /\ DOMAIN started = 1 .. d /\ started[d] = NewBlock(kind, named)
       /\ \A x \in 1 .. Len(blocks) : started[x] = blocks[x]
       /\ OpenOf(started) = OpenOf(blocks) \union {d}
       /\ NewBlock(kind, named).kind = kind
  BY <1>6, <1>8, NewBlockFacts
<1>11. blocks' = more /\ DOMAIN more = 1 .. d /\ more[d].kind = kind
       /\ \A x \in 1 .. Len(blocks) : more[x] = blocks[x]
  <2> DEFINE longer == Append(blocks, [NewBlock(kind, named) EXCEPT !.args = args])
  <2>1. [NewBlock(kind, named) EXCEPT !.args = args] \in Block
    BY <1>3, <1>8 DEF NewBlock, Block
  <2>2. /\ longer \in Seq(Block) /\ DOMAIN longer = 1 .. d
        /\ longer[d] = [NewBlock(kind, named) EXCEPT !.args = args]
        /\ \A x \in 1 .. Len(blocks) : longer[x] = blocks[x]
    BY <1>6, <2>1, AppendFacts
  <2>3. longer = [x \in 1 .. Len(longer) |-> longer[x]] /\ DOMAIN longer = 1 .. Len(longer)
    BY <2>2, BlocksFacts
  <2>4. blocks' = longer
    BY <1>1
  <2> HIDE DEF longer
  <2>5. longer = [x \in 1 .. d |-> longer[x]]
    BY <2>2, <2>3
  <2>6. d \in 1 .. d /\ \A x \in 1 .. d : x = d \/ (x \in 1 .. Len(blocks) /\ x # d)
    BY <1>8
  <2>7. \A x \in 1 .. Len(blocks) : x \in 1 .. d /\ x # d
    BY <1>8
  <2> HIDE DEF d, started
  <2>8. DOMAIN more = 1 .. d
    BY <1>10
  <2>9. more = [x \in 1 .. d |-> more[x]]
    BY <2>8
  <2>10. /\ more[d] = [started[d] EXCEPT !.args = args]
         /\ \A x \in 1 .. d : x # d => more[x] = started[x]
    BY <1>10, <2>6
  <2>11. more[d].kind = kind
    BY <1>10, <2>10 DEF NewBlock
  <2> HIDE DEF more
  <2>12. \A x \in 1 .. d : longer[x] = more[x]
    BY <1>10, <2>2, <2>6, <2>10
  <2>13. longer = more
    BY <2>5, <2>9, <2>12
  <2> QED
    BY <1>10, <2>4, <2>7, <2>8, <2>10, <2>11, <2>13
<1>12. /\ Shown(thinking_enabled, more)
       /\ \A stage :
             Sends(Rule, thinking_enabled, early_retries, View(stage, started),
                   <<Event("content_block_delta", Index(d), kind, args, early_retries)>>,
                   View(stage, more))
  <2>1. d \in OpenOf(started) /\ started[d].kind = kind
    BY <1>10
  <2> HIDE DEF started, d
  <2> QED
    BY <1>3, <1>6, <1>9, <2>1, DeltaSent
<1>13. ASSUME NEW stage
       PROVE  Sends(Rule, thinking_enabled, early_retries, View(stage, blocks), events,
                    View(stage, blocks'))
  <2>1. events
          = <<Event("content_block_start", Index(d), kind, "none", early_retries)>>
            \o <<Event("content_block_delta", Index(d), kind, args, early_retries)>>
    BY DEF Start, Delta, BlockEvent, events
  <2> HIDE DEF started, d, more
  <2> QED
    BY <1>9, <1>11, <1>12, <2>1, SendsConcat
<1> HIDE DEF started, more
<1>15. /\ d \in Nat /\ d \notin DOMAIN blocks /\ d \in DOMAIN blocks' /\ blocks'[d].kind = to.kind
       /\ \A b \in DOMAIN blocks : b \in DOMAIN blocks' /\ blocks'[b].kind = blocks[b].kind
  BY <1>4, <1>8, <1>11
<1> HIDE DEF d
<1>17. SegmentSound'
  BY <1>2, <1>6, <1>15, IntoBlock
<1>18. Shown(thinking_enabled, blocks') /\ dropped' \subseteq Indexes /\ suppressed' \subseteq Indexes
  BY <1>2, <1>6, <1>11, <1>12
<1> QED
  BY <1>4, <1>5, <1>13, <1>17, <1>18, BlockArrivesInv

\* A delta of kind for the block d of bs goes into the block now of shown, which
\* the events start have made of bs: d when it is open, or a new one.
Continued(bs, d, kind, now, shown, start) ==
    /\ d \in DOMAIN bs
    /\ kind = bs[d].kind
    /\ now = IF bs[d].open THEN d ELSE Len(bs) + 1
    /\ shown = IF bs[d].open THEN bs ELSE Append(bs, NewBlock(kind, bs[d].named))
    /\ start = IF now = d THEN <<>> ELSE <<Start(now, kind)>>

LEMMA Reopened ==
    ASSUME NEW thoughts, OfAttempt(early_retries, early_retries), NEW bs, Shown(thoughts, bs),
           NEW d, NEW kind, NEW now, NEW shown, NEW start,
           Continued(bs, d, kind, now, shown, start)
    PROVE  /\ Shown(thoughts, shown)
           /\ shown[now].kind = kind /\ now \in Nat
           /\ now = d \/ now \notin DOMAIN bs
           /\ OpenOf(shown) = OpenOf(bs) \union {now}
           /\ \A b \in DOMAIN bs : b \in DOMAIN shown /\ shown[b] = bs[b]
           /\ \A v, stage : "answer" \in v =>
                  Sends(v, thoughts, early_retries, View(stage, bs), start, View(stage, shown))
<1>0. /\ d \in DOMAIN bs
      /\ kind = bs[d].kind
      /\ now = IF bs[d].open THEN d ELSE Len(bs) + 1
      /\ shown = IF bs[d].open THEN bs ELSE Append(bs, NewBlock(kind, bs[d].named))
      /\ start = IF now = d THEN <<>> ELSE <<Start(now, kind)>>
  BY DEF Continued
<1>1. /\ bs \in Seq(Block) /\ Len(bs) \in Nat /\ DOMAIN bs = 1 .. Len(bs)
      /\ kind \in Contract!Kinds /\ d \in Nat
      /\ kind = "thinking" => thoughts
  BY <1>0, BlocksFacts DEF Shown
<1>2. bs[d].named \in BOOLEAN
  BY <1>0, <1>1, BlocksFacts DEF Block
<1>3. CASE bs[d].open
  <2>1. now = d /\ shown = bs
    BY <1>0, <1>3
  <2>2. ASSUME NEW v, NEW stage
        PROVE  Sends(v, thoughts, early_retries, View(stage, bs), start, View(stage, shown))
    BY <1>0, <2>1, SendsNothing
  <2> QED
    BY <1>0, <1>1, <1>3, <2>1, <2>2 DEF OpenOf
<1>4. CASE ~bs[d].open
  <2>1. now = Len(bs) + 1 /\ shown = Append(bs, NewBlock(kind, bs[d].named)) /\ now # d
    BY <1>0, <1>1, <1>4
  <2> DEFINE named == bs[d].named
  <2>2. /\ DOMAIN shown = 1 .. now /\ shown[now] = NewBlock(kind, named)
        /\ \A x \in 1 .. Len(bs) : shown[x] = bs[x]
        /\ OpenOf(shown) = OpenOf(bs) \union {now}
        /\ NewBlock(kind, named).kind = kind
    BY <1>1, <1>2, <2>1, NewBlockFacts
  <2>3. ASSUME NEW v, "answer" \in v, NEW stage
        PROVE  /\ Shown(thoughts, shown)
               /\ Sends(v, thoughts, early_retries, View(stage, bs),
                        <<Event("content_block_start", Index(Len(bs) + 1), kind, "none",
                                early_retries)>>,
                        View(stage, shown))
    BY <1>0, <1>1, <1>2, <2>1, <2>3, StartSent
  <2>4. start
          = <<Event("content_block_start", Index(Len(bs) + 1), kind, "none", early_retries)>>
    BY <1>0, <2>1 DEF Start, BlockEvent
  <2>5. \A x \in 1 .. Len(bs) : x \in 1 .. now
    BY <1>1, <2>1
  <2>6. Shown(thoughts, shown)
    <3>1. "answer" \in {"answer"}
      OBVIOUS
    <3>2. \A v, stage : "answer" \in v => Shown(thoughts, shown)
      BY <2>3
    <3> QED
      BY ONLY <3>1, <3>2
  <2>7. /\ shown[now].kind = kind /\ now \in Nat /\ (now = d \/ now \notin DOMAIN bs)
        /\ \A b \in DOMAIN bs : b \in DOMAIN shown /\ shown[b] = bs[b]
    BY <1>0, <1>1, <2>1, <2>2, <2>5
  <2> HIDE DEF named
  <2> QED
    BY <2>2, <2>3, <2>4, <2>6, <2>7
<1> QED
  BY <1>3, <1>4

LEMMA DeltaPassedInv ==
    ASSUME Inv, NEW i \in Indexes, DeltaPassed(i)
    PROVE  Inv'
<1> DEFINE up == upstream.block[i]
           d == segment[i]
           now == IF blocks[d].open THEN d ELSE Len(blocks) + 1
           shown == IF blocks[d].open THEN blocks
                    ELSE Append(blocks, NewBlock(up.kind, blocks[d].named))
           start == IF now = d THEN <<>> ELSE <<Start(now, up.kind)>>
<1>1. /\ d # -1 /\ segment' = [segment EXCEPT ![i] = now]
      /\ suppressed' = suppressed \ {i} /\ dropped' = dropped
  BY DEF DeltaPassed
<1>2. PICK args \in MoreArgs(up) :
          LET content == Content(shown[now], args, up.args)
          IN  /\ BlockArrives(i, [up EXCEPT !.args = args],
                              start \o <<Delta(now, up.kind, IF content = "rest" THEN "part"
                                                             ELSE content)>>)
              /\ blocks' = [shown EXCEPT ![now].args = content]
  BY DEF DeltaPassed
<1> DEFINE content == Content(shown[now], args, up.args)
           arg == IF content = "rest" THEN "part" ELSE content
           to == [up EXCEPT !.args = args]
           events == start \o <<Delta(now, up.kind, arg)>>
           more == [shown EXCEPT ![now].args = content]
<1>3. BlockArrives(i, to, events) /\ blocks' = more
  BY <1>2
<1>4. args \in Args
  BY <1>2 DEF MoreArgs, Args
<1>5. /\ content \in Args \union {"rest"} /\ arg \in Args
      /\ (arg = "whole" <=> content = "whole")
  <2>1. content = "rest" \/ content = args
    BY DEF Content
  <2> HIDE DEF content
  <2> QED
    BY <1>4, <2>1 DEF Args
<1>6. up \in UpstreamBlock
  BY DEF Inv, PolicySound, Upstream
<1>7. to \in UpstreamBlock /\ to.kind = up.kind
  BY <1>4, <1>6 DEF UpstreamBlock
<1> HIDE DEF to, events
<1>8. /\ upstream'.block[i] = to
      /\ \A j \in Indexes : j # i => upstream'.block[j] = upstream.block[j]
      /\ thinking_enabled' = thinking_enabled
      /\ OfAttempt(early_retries, early_retries)
      /\ Shown(thinking_enabled, blocks) /\ blocks \in Seq(Block)
      /\ dropped \subseteq Indexes /\ suppressed \subseteq Indexes
  <2>1. BlockArrives(i, to, events) /\ to \in UpstreamBlock
    BY <1>3, <1>7
  <2> HIDE DEF now, shown, start, content, arg, more
  <2> QED
    BY <2>1, BlockArrivesFacts, ZenonT(40)
<1>9. d \in DOMAIN blocks /\ blocks[d].kind = up.kind
  BY <1>1 DEF Inv, PolicySound, SegmentSound
<1>10. /\ Shown(thinking_enabled, shown)
       /\ now \in OpenOf(shown) /\ shown[now].kind = up.kind /\ now \in Nat
       /\ now = d \/ now \notin DOMAIN blocks
       /\ OpenOf(shown) = OpenOf(blocks) \union {now}
       /\ \A b \in DOMAIN blocks : b \in DOMAIN shown /\ shown[b] = blocks[b]
       /\ \A stage : Sends(Rule, thinking_enabled, early_retries, View(stage, blocks), start,
                            View(stage, shown))
  <2>1. Continued(blocks, d, up.kind, now, shown, start)
    BY <1>9 DEF Continued
  <2> HIDE DEF now, shown, start, d, up
  <2>2. /\ Shown(thinking_enabled, blocks) /\ OfAttempt(early_retries, early_retries)
        /\ "answer" \in Rule
    BY <1>8, RuleFacts
  <2>3. Shown(thinking_enabled, shown)
    BY ONLY <2>1, <2>2, Reopened
  <2>4. shown[now].kind = up.kind
    <3>1. CASE blocks[d].open
      BY <1>9, <3>1 DEF now, shown
    <3>2. CASE ~blocks[d].open
      <4>1. now = Len(blocks) + 1 /\ shown = Append(blocks, NewBlock(up.kind, blocks[d].named))
        BY <3>2 DEF now, shown
      <4>2. up.kind \in Contract!Kinds /\ blocks[d].named \in BOOLEAN
        BY <1>8, <1>9, BlocksFacts DEF Block
      <4>3. /\ shown[now] = NewBlock(up.kind, blocks[d].named)
            /\ NewBlock(up.kind, blocks[d].named).kind = up.kind
        BY <1>8, <4>1, <4>2, NewBlockFacts
      <4> QED
        BY <4>3
    <3> QED
      BY <3>1, <3>2
  <2>9. now \in Nat
    BY ONLY <2>1, <2>2, Reopened
  <2>5. now = d \/ now \notin DOMAIN blocks
    BY ONLY <2>1, <2>2, Reopened
  <2>6. OpenOf(shown) = OpenOf(blocks) \union {now}
    BY ONLY <2>1, <2>2, Reopened
  <2>7. \A b \in DOMAIN blocks : b \in DOMAIN shown /\ shown[b] = blocks[b]
    BY ONLY <2>1, <2>2, Reopened
  <2>8. \A stage : Sends(Rule, thinking_enabled, early_retries, View(stage, blocks), start,
                         View(stage, shown))
    BY ONLY <2>1, <2>2, Reopened
  <2> QED
    BY <2>3, <2>4, <2>5, <2>6, <2>7, <2>8, <2>9
<1> HIDE DEF now, shown, start, content, arg
<1>12. /\ Shown(thinking_enabled, more)
       /\ \A stage :
             Sends(Rule, thinking_enabled, early_retries, View(stage, shown),
                   <<Event("content_block_delta", Index(now), shown[now].kind, arg, early_retries)>>,
                   View(stage, more))
  BY <1>5, <1>8, <1>10, DeltaSent
<1>13. /\ DOMAIN more = DOMAIN shown
       /\ \A x \in DOMAIN shown : more[x].kind = shown[x].kind /\ more[x].open = shown[x].open
  <2>1. /\ DOMAIN more = DOMAIN shown
        /\ \A x \in DOMAIN shown : x # now => more[x] = shown[x]
        /\ now \in DOMAIN shown => more[now] = [shown[now] EXCEPT !.args = content]
    OBVIOUS
  <2>2. now \in DOMAIN shown
    BY <1>10 DEF OpenOf
  <2>3. shown[now] \in Block
    BY <1>10, <2>2, BlocksFacts DEF Shown
  <2>4. more[now].kind = shown[now].kind /\ more[now].open = shown[now].open
    BY <2>1, <2>2, <2>3 DEF Block
  <2> QED
    BY <2>1, <2>4
<1> HIDE DEF more
<1>14. ASSUME NEW stage
       PROVE  Sends(Rule, thinking_enabled, early_retries, View(stage, blocks), events,
                    View(stage, blocks'))
  <2>1. events = start \o <<Event("content_block_delta", Index(now), shown[now].kind, arg,
                                  early_retries)>>
    BY <1>10 DEF events, Delta, BlockEvent
  <2> QED
    BY <1>3, <1>10, <1>12, <2>1, SendsConcat
<1>16. /\ now \in DOMAIN blocks' /\ blocks'[now].kind = to.kind
       /\ \A b \in DOMAIN blocks : b \in DOMAIN blocks' /\ blocks'[b].kind = blocks[b].kind
  BY <1>3, <1>7, <1>8, <1>10, <1>13 DEF OpenOf
<1>19. now \notin DOMAIN blocks \/ now = segment[i]
  BY <1>10
<1> HIDE DEF d, up
<1>20. SegmentSound'
  BY <1>1, <1>8, <1>10, <1>16, <1>19, IntoBlock
<1>21. Shown(thinking_enabled, blocks') /\ dropped' \subseteq Indexes /\ suppressed' \subseteq Indexes
  BY <1>1, <1>3, <1>8, <1>12
<1> QED
  BY <1>3, <1>7, <1>14, <1>20, <1>21, BlockArrivesInv

-----------------------------------------------------------------------------
(***************************************************************************)
(* A block is started, and the blocks of the other indexes are closed.     *)
(***************************************************************************)
LEMMA SetToSeqFacts ==
    ASSUME NEW S, IsFiniteSet(S)
    PROVE  /\ SetToSeq(S) \in Seq(S)
           /\ \A x \in S : \E k \in DOMAIN SetToSeq(S) : SetToSeq(S)[k] = x
           /\ \A i, j \in DOMAIN SetToSeq(S) : SetToSeq(S)[i] = SetToSeq(S)[j] => i = j
<1>1. Cardinality(S) \in Nat /\ ExistsBijection(1 .. Cardinality(S), S)
  BY FS_CardinalityType
<1>2. \E f \in [1 .. Cardinality(S) -> S] : IsInjective(f)
  BY <1>1 DEF ExistsBijection, Bijection, Injection
<1>3. SetToSeq(S) \in [1 .. Cardinality(S) -> S] /\ IsInjective(SetToSeq(S))
  BY <1>2 DEF SetToSeq
<1>4. SetToSeq(S) \in SetToSeqs(S)
  BY <1>3 DEF SetToSeqs, IsInjective
<1> QED
  BY <1>4, SeqsOfSet

\* The blocks of the other indexes.
OtherBlocks(i) == {segment[j] : j \in Others(i)}
OtherStops(i) ==
    [k \in DOMAIN SetToSeq(Others(i)) |->
        Stop(segment[SetToSeq(Others(i))[k]], blocks[segment[SetToSeq(Others(i))[k]]].kind)]

LEMMA OthersFacts ==
    ASSUME Inv, NEW i
    PROVE  /\ \A j \in Others(i) : /\ j \in Indexes /\ j # i /\ segment[j] # -1
                                   /\ segment[j] \in OpenOf(blocks)
           /\ \A j, k \in Others(i) : segment[j] = segment[k] => j = k
           /\ IsFiniteSet(Others(i))
<1>1. ASSUME NEW j \in Others(i)
      PROVE  j \in Indexes /\ j # i /\ segment[j] # -1 /\ segment[j] \in OpenOf(blocks)
  BY DEF Others, OpenOf, Inv, PolicySound, SegmentSound
<1>2. \A j, k \in Others(i) : segment[j] = segment[k] => j = k
  BY <1>1 DEF Inv, PolicySound, SegmentSound
<1> DEFINE into == [j \in Others(i) |-> segment[j]]
<1>3. into \in Injection(Others(i), OpenOf(blocks))
  BY <1>1, <1>2 DEF Injection, IsInjective
<1>4. IsFiniteSet(OpenOf(blocks))
  BY OpenFinite DEF OpenOf, Inv, PolicySound, Shown
<1>5. IsFiniteSet(Others(i))
  BY <1>3, <1>4, FS_Injection
<1> QED
  BY <1>1, <1>2, <1>5

LEMMA OthersStopped ==
    ASSUME Inv, NEW i, NEW stage
    PROVE  /\ Sends(Rule, thinking_enabled, early_retries, View(stage, blocks), OtherStops(i),
                    View(stage, Close(blocks, OtherBlocks(i))))
           /\ OtherStops(i) \in Seq(Sendable(thinking_enabled, early_retries))
<1> DEFINE others == SetToSeq(Others(i))
           B == OtherBlocks(i)
           o == [k \in DOMAIN others |-> segment[others[k]]]
<1>1. /\ \A j \in Others(i) : segment[j] \in OpenOf(blocks)
      /\ \A j, k \in Others(i) : segment[j] = segment[k] => j = k
      /\ IsFiniteSet(Others(i))
  BY OthersFacts
<1>2. /\ others \in Seq(Others(i))
      /\ \A x \in Others(i) : \E k \in DOMAIN others : others[k] = x
      /\ \A j, k \in DOMAIN others : others[j] = others[k] => j = k
  BY <1>1, SetToSeqFacts
<1> HIDE DEF others
<1>3. Len(others) \in Nat /\ DOMAIN others = 1 .. Len(others)
      /\ \A k \in DOMAIN others : others[k] \in Others(i)
  BY <1>2, LenProperties, ElementOfSeq
<1>4. B \subseteq OpenOf(blocks) /\ \A j \in Others(i) : segment[j] \in B
  BY <1>1 DEF OtherBlocks
<1>5. \A b \in B : \E j \in Others(i) : segment[j] = b
  BY DEF OtherBlocks
<1> HIDE DEF B
<1>6. DOMAIN o = 1 .. Len(others) /\ \A k \in 1 .. Len(others) : o[k] = segment[others[k]]
  BY <1>3
<1>7. o = [k \in 1 .. Len(others) |-> o[k]]
  BY <1>3
<1> HIDE DEF o
<1>8. o \in Seq(B) /\ DOMAIN o = 1 .. Len(others)
  BY <1>3, <1>4, <1>6, <1>7, SeqMade
<1>9. \A b \in B : \E k \in DOMAIN o : o[k] = b
  BY <1>2, <1>3, <1>5, <1>6
<1>10. \A j, k \in DOMAIN o : o[j] = o[k] => j = k
  BY <1>1, <1>2, <1>3, <1>6
<1>11. OtherStops(i) = [k \in DOMAIN o |-> Stop(o[k], blocks[o[k]].kind)]
  BY <1>3, <1>6 DEF OtherStops, others
<1>12. Shown(thinking_enabled, blocks) /\ early_retries \in Nat
  BY DEF Inv, PolicySound, HandedOut
<1>13. /\ OtherStops(i) \in Seq(Sendable(thinking_enabled, early_retries))
       /\ Reaches(Rule, View(stage, blocks), OtherStops(i), View(stage, Close(blocks, B)))
  BY <1>4, <1>8, <1>9, <1>10, <1>11, <1>12, StopSequence
<1> QED
  BY <1>13 DEF Sends, B

LEMMA StartPassedInv ==
    ASSUME Inv, NEW i \in Indexes, NEW kind \in Contract!Kinds, StartPassed(i, kind)
    PROVE  Inv'
<1> DEFINE d == Len(blocks) + 1
           B == OtherBlocks(i)
           closed == Close(blocks, B)
           to == [kind |-> kind, args |-> "none"]
           events == Append(OtherStops(i), Start(d, kind))
           more == Append(closed, NewBlock(kind, TRUE))
<1>1. /\ Unused(i) /\ ~Hidden(kind)
      /\ BlockArrives(i, to, events)
      /\ blocks' = more
      /\ segment' = [segment EXCEPT ![i] = d]
      /\ suppressed' = suppressed \union Others(i)
      /\ dropped' = dropped
  BY DEF StartPassed, OtherStops, OtherBlocks
<1>2. to \in UpstreamBlock /\ to.kind = kind
  BY DEF UpstreamBlock, Args
<1> HIDE DEF to, events
<1>3. /\ upstream'.block[i] = to
      /\ \A j \in Indexes : j # i => upstream'.block[j] = upstream.block[j]
      /\ thinking_enabled' = thinking_enabled
      /\ OfAttempt(early_retries, early_retries)
      /\ Shown(thinking_enabled, blocks) /\ blocks \in Seq(Block)
      /\ dropped \subseteq Indexes /\ suppressed \subseteq Indexes
  BY <1>1, <1>2, BlockArrivesFacts, ZenonT(40)
<1>5. Others(i) \subseteq Indexes
  BY OthersFacts
<1>6. /\ \A stage : Sends(Rule, thinking_enabled, early_retries, View(stage, blocks),
                         OtherStops(i), View(stage, closed))
      /\ OtherStops(i) \in Seq(Sendable(thinking_enabled, early_retries))
  BY OthersStopped
<1> HIDE DEF B
<1>7. /\ closed \in Seq(Block) /\ Len(closed) = Len(blocks) /\ DOMAIN closed = DOMAIN blocks
      /\ \A b \in DOMAIN blocks : closed[b].kind = blocks[b].kind
      /\ Len(blocks) \in Nat /\ DOMAIN blocks = 1 .. Len(blocks)
  BY <1>3, CloseFacts, BlocksFacts
<1>8. Shown(thinking_enabled, closed)
  BY <1>3, ClosedShown
<1> HIDE DEF closed
<1>9. kind = "thinking" => thinking_enabled
  BY <1>1 DEF Hidden
<1>10. /\ Shown(thinking_enabled, more)
       /\ \A stage :
             Sends(Rule, thinking_enabled, early_retries, View(stage, closed),
                   <<Event("content_block_start", Index(d), kind, "none", early_retries)>>,
                   View(stage, more))
  BY <1>3, <1>7, <1>8, <1>9, StartSent, RuleFacts
<1>11. /\ DOMAIN more = 1 .. d /\ more[d].kind = kind
       /\ \A x \in 1 .. Len(blocks) : more[x] = closed[x]
  <2> DEFINE named == TRUE
  <2>1. named \in BOOLEAN /\ more = Append(closed, NewBlock(kind, named))
    OBVIOUS
  <2> HIDE DEF named, more
  <2>2. /\ DOMAIN more = 1 .. d /\ more[d] = NewBlock(kind, named)
        /\ \A x \in 1 .. Len(blocks) : more[x] = closed[x]
        /\ NewBlock(kind, named).kind = kind
    BY <1>7, <2>1, NewBlockFacts
  <2> QED
    BY <2>2
<1> HIDE DEF more
<1>12. ASSUME NEW stage
       PROVE  Sends(Rule, thinking_enabled, early_retries, View(stage, blocks), events,
                    View(stage, blocks'))
  <2> DEFINE start == Event("content_block_start", Index(d), kind, "none", early_retries)
  <2>1. start = Start(d, kind)
    BY DEF Start, BlockEvent
  <2>2. start \in Sendable(thinking_enabled, early_retries)
    <3>1. <<start>> \in Seq(Sendable(thinking_enabled, early_retries))
      BY <1>10 DEF Sends
    <3> HIDE DEF start
    <3> QED
      BY <3>1, ElementOfSeq
  <2> HIDE DEF start
  <2>3. events = OtherStops(i) \o <<start>>
    BY <1>6, <2>1, <2>2, AppendIsConcat DEF events
  <2> QED
    BY <1>1, <1>6, <1>10, <2>3, SendsConcat DEF start
<1>13. /\ d \in Nat /\ d \notin DOMAIN blocks /\ d \in DOMAIN blocks' /\ blocks'[d].kind = to.kind
       /\ \A b \in DOMAIN blocks : b \in DOMAIN blocks' /\ blocks'[b].kind = blocks[b].kind
  BY <1>1, <1>2, <1>7, <1>11
<1> HIDE DEF d
<1>15. SegmentSound'
  BY <1>1, <1>3, <1>13, IntoBlock
<1>16. Shown(thinking_enabled, blocks') /\ dropped' \subseteq Indexes /\ suppressed' \subseteq Indexes
  BY <1>1, <1>3, <1>5, <1>10
<1> QED
  BY <1>1, <1>2, <1>12, <1>15, <1>16, BlockArrivesInv

-----------------------------------------------------------------------------
(***************************************************************************)
(* Every step.                                                             *)
(***************************************************************************)
LEMMA BlockEventsInv ==
    ASSUME Inv, NEW i \in Indexes, Starts(i) \/ Continues(i)
    PROVE  Inv'
<1>1. ASSUME NEW kind \in Contract!Kinds, StartDropped(i, kind) PROVE Inv'
  BY <1>1, StartDroppedInv
<1>2. ASSUME NEW kind \in Contract!Kinds, StartPassed(i, kind) PROVE Inv'
  BY <1>2, StartPassedInv
<1>3. ASSUME NEW kind \in Contract!Kinds, DeltaWithoutStart(i, kind) PROVE Inv'
  BY <1>3, DeltaWithoutStartInv
<1>4. CASE DeltaPassed(i)
  BY <1>4, DeltaPassedInv
<1>5. CASE DeltaDropped(i)
  BY <1>5, DeltaDroppedInv
<1>6. CASE StopPassed(i)
  BY <1>6, StopPassedInv
<1> QED
  BY <1>1, <1>2, <1>3, <1>4, <1>5, <1>6 DEF Starts, Continues

LEMMA GeneratorInv ==
    ASSUME Inv, Generator
    PROVE  Inv'
<1>1. CASE Opens
  <2>1. At("opening") /\ pc' \in {"reading", "recovering"}
    BY <1>1 DEF Opens
  <2>2. UNCHANGED <<thinking_enabled, early_retries, policyVars, trackerVars, holdVars,
                    clientVars, salvaged>>
    BY <1>1 DEF Opens
  <2> QED
    BY <2>1, <2>2, MoveInv
<1>2. CASE OpenFails
  BY <1>2, HandleInv DEF OpenFails
<1>3. CASE Breaks
  <2>1. PICK retryable \in BOOLEAN : At("reading") /\ Handle(TRUE, retryable)
    BY <1>3 DEF Breaks
  <2> DEFINE opened == TRUE
  <2>2. opened \in BOOLEAN /\ Handle(opened, retryable)
    BY <2>1
  <2> HIDE DEF opened
  <2> QED
    BY <2>1, <2>2, HandleInv
<1>4. CASE Truncated
  BY <1>4, HandleInv DEF Truncated
<1>5. CASE Completes
  BY <1>5, CompletesInv
<1>6. CASE MessageStart \/ MessageDelta \/ MessageStop \/ ErrorArrives
  BY <1>6, MessageEventsInv
<1>7. CASE \E i \in Indexes : Starts(i) \/ Continues(i)
  BY <1>7, BlockEventsInv
<1>8. CASE RecoverTools
  BY <1>8, RecoverToolsInv
<1>9. CASE RecoverText
  BY <1>9, RecoverTextInv
<1>10. CASE RecoveryFails
  BY <1>10, ErrorTailInv DEF RecoveryFails
<1> QED
  BY <1>1, <1>2, <1>3, <1>4, <1>5, <1>6, <1>7, <1>8, <1>9, <1>10 DEF Generator

LEMMA StutterInv ==
    ASSUME Inv, UNCHANGED vars
    PROVE  Inv'
<1>1. UNCHANGED <<thinking_enabled, early_retries, upstream, segment, dropped, suppressed,
                  blocks, stop_reason, message_stopped, pc, held, committed, outbox, wire, gone,
                  attempts, broken, salvaged>>
  BY DEF vars, policyVars, trackerVars, holdVars, clientVars
<1>2. PolicySound'
  BY <1>1 DEF Inv, PolicySound, SegmentSound, Shown
<1>3. HandedOut'
  BY <1>1 DEF Inv, HandedOut, DownstreamOK, ThinkingHidden, IsWire
<1>4. Client' = Client
  BY <1>1 DEF Client
<1>5. ClientSound'
  BY <1>1, <1>4, RuleFacts DEF Inv, ClientSound, StageSound, Pending
<1> QED
  BY <1>2, <1>3, <1>5 DEF Inv

LEMMA StepInv == Inv /\ [Next]_vars => Inv'
<1> SUFFICES ASSUME Inv, [Next]_vars PROVE Inv'
  OBVIOUS
<1>1. CASE Generator
  BY <1>1, GeneratorInv
<1>2. CASE Deliver
  BY <1>2, DeliverInv
<1>3. CASE Disconnect
  BY <1>3, DisconnectInv
<1>4. CASE UNCHANGED vars
  BY <1>4, StutterInv
<1> QED
  BY <1>1, <1>2, <1>3, <1>4 DEF Next

LEMMA Invariant == Spec => []Inv
<1>1. Init => Inv
  BY InvInit
<1>2. Inv /\ [Next]_vars => Inv'
  BY StepInv
<1> QED
  BY <1>1, <1>2, PTL DEF Spec

-----------------------------------------------------------------------------
(***************************************************************************)
(* What follows.                                                           *)
(***************************************************************************)
LEMMA TypeFollows == Inv => TypeOK
<1> SUFFICES ASSUME Inv PROVE TypeOK
  OBVIOUS
<1>1. DownstreamOK /\ thinking_enabled \in BOOLEAN /\ early_retries \in 0 .. MaxRetries
  BY DEF Inv, HandedOut
<1>2. upstream.stage \in {"before", "content", "failed", "ending", "stopped"}
  BY DEF Inv, PolicySound, Upstream
<1>3. /\ blocks \in Seq(Block)
      /\ dropped \union suppressed \subseteq Indexes
      /\ {stop_reason, message_stopped, salvaged} \subseteq BOOLEAN
  BY DEF Inv, PolicySound, HandedOut, Shown
<1>4. /\ \A i \in Indexes :
            segment[i] # -1 => /\ segment[i] \in DOMAIN blocks
                               /\ blocks[segment[i]].kind = upstream.block[i].kind
      /\ \A i, j \in Indexes : segment[i] = segment[j] /\ segment[i] # -1 => i = j
  BY DEF Inv, PolicySound, SegmentSound
<1> QED
  BY <1>1, <1>2, <1>3, <1>4 DEF TypeOK

LEMMA OneWholeFollows == Inv => OneWholeAnswer
<1> SUFFICES ASSUME Inv PROVE OneWholeAnswer
  OBVIOUS
<1>1. OneAttempt
  BY DEF Inv, HandedOut, OneAttempt
<1>2. RepairedWhole
  <2> SUFFICES ASSUME salvaged, outbox = <<>>, ~gone PROVE broken = {}
    BY DEF RepairedWhole
  <2>1. pc = "done" /\ committed
    BY DEF Inv, HandedOut
  <2>2. held = <<>> /\ outbox \o held = <<>>
    BY <2>1 DEF Inv, HandedOut, DownstreamOK
  <2>3. PICK d : Pending(d) /\ d.broken = {}
    BY <2>1 DEF Inv, ClientSound
  <2>4. Reaches(Rule, Client, <<>>, d)
    BY <2>2, <2>3 DEF Pending, Sends
  <2>5. d = Client
    BY <2>4, ReachedNothing
  <2> QED
    BY <2>3, <2>5 DEF Client
<1> QED
  BY <1>1, <1>2 DEF OneWholeAnswer

\* What WellFormed says of one step.
WellFormedStep ==
    LET e == wire'.last
        repair == /\ salvaged
                  /\ e.event = "content_block_delta"
                  /\ e.kind = "tool_use" /\ e.args = "whole" /\ e.index \in wire.used
        passed == \/ e.event = "message_delta" /\ stop_reason
                  \/ e.event = "message_stop" /\ message_stopped
    IN  wire' # wire =>
           /\ wire.stage = "content" => Contract!Allowed(wire, e) \/ repair \/ passed
           /\ e.event = "message_stop" => wire.open = {} \/ passed

\* Only a delivery changes what the client saw.
LEMMA WireMoves == Next /\ wire' # wire => Deliver
<1> SUFFICES ASSUME Next, ~Deliver PROVE wire' = wire
  OBVIOUS
<1>1. CASE Disconnect
  BY <1>1 DEF Disconnect, Disconnects
<1>2. CASE Generator
  <2>1. ASSUME NEW events, Arrives(events) PROVE wire' = wire
    BY <2>1 DEF Arrives, clientVars
  <2>2. ASSUME NEW events, NEW bs, Return(events, bs) PROVE wire' = wire
    BY <2>2 DEF Return, clientVars
  <2>3. ASSUME NEW opened, NEW retryable, Handle(opened, retryable) PROVE wire' = wire
    BY <2>2, <2>3 DEF Handle, Retry, Reopens, Recover, Recovers, ErrorTail, clientVars
  <2>4. ASSUME NEW i, Starts(i) \/ Continues(i) PROVE wire' = wire
    BY <2>1, <2>4 DEF Starts, Continues, StartDropped, StartPassed, DeltaWithoutStart,
                      DeltaPassed, DeltaDropped, StopPassed, BlockArrives
  <2>5. CASE Opens
    BY <2>5 DEF Opens, clientVars
  <2>6. CASE OpenFails \/ Breaks \/ Truncated
    BY <2>3, <2>6 DEF OpenFails, Breaks, Truncated
  <2>7. CASE MessageStart \/ MessageDelta \/ MessageStop \/ ErrorArrives
    BY <2>1, <2>7 DEF MessageStart, MessageDelta, MessageStop, ErrorArrives
  <2>8. CASE Completes \/ RecoverTools \/ RecoverText \/ RecoveryFails
    BY <2>2, <2>8 DEF Completes, RecoverTools, RecoverText, RecoveryFails, Succeed, ErrorTail
  <2> QED
    BY <1>2, <2>4, <2>5, <2>6, <2>7, <2>8 DEF Generator
<1> QED
  BY <1>1, <1>2 DEF Next

LEMMA WellFormedFollows == Inv /\ [Next]_vars => WellFormedStep \/ UNCHANGED vars
<1> SUFFICES ASSUME Inv, Next, wire' # wire PROVE WellFormedStep
  BY DEF WellFormedStep
<1>1. Deliver
  BY WireMoves
<1>2. Proper(Rule, Client, Head(outbox))
  BY <1>1, DeliverInv
<1>3. wire'.last = Head(outbox)
  BY <1>1, TookSeen DEF Inv, HandedOut, Deliver
<1>4. /\ Client.stage = wire.stage /\ Client.open = wire.open /\ Client.used = wire.used
  BY DEF Client
<1> DEFINE e == Head(outbox)
<1>5. Contract!Allowed(Client, e) <=> Contract!Allowed(wire, e)
  BY <1>4 DEF Contract!Allowed
<1> QED
  BY <1>2, <1>3, <1>4, <1>5, RuleFacts DEF Proper, Rule, WellFormedStep

\* Every variable keeps to what its Python counterpart can hold, and an index of
\* the provider to the one block of its kind it was given: NativeSseBlockPolicy
\* and the tracker agree, whatever arrives.
THEOREM StreamTypeCorrect == Spec => []TypeOK
  BY Invariant, TypeFollows, PTL

\* No client sees thinking it did not ask for, in whatever attempt, block or
\* recovery.
THEOREM ThinkingHiddenCorrect == Spec => []ThinkingHidden
<1>1. Inv => ThinkingHidden
  BY DEF Inv, HandedOut
<1> QED
  BY <1>1, Invariant, PTL

\* The client sees the content of one attempt only, and a message that ends with
\* tools a recovery vouched for has all their arguments, for every number of
\* blocks, of retries and of overlaps.
THEOREM OneWholeAnswerCorrect == Spec => []OneWholeAnswer
  BY Invariant, OneWholeFollows, PTL

\* Every event the client takes in the content of a message is one that the stream
\* contract allows, the repair of a tool's arguments, or the provider's own end of
\* the message; and what the transport adds to end a message it adds when every
\* block is closed.
THEOREM WellFormedCorrect == Spec => WellFormed
<1>1. Inv /\ [Next]_vars => [WellFormedStep]_vars
  BY WellFormedFollows
<1>2. WellFormed <=> [][WellFormedStep]_vars
  BY PTL DEF WellFormed, WellFormedStep
<1> QED
  BY <1>1, <1>2, Invariant, PTL DEF Spec

-----------------------------------------------------------------------------
(***************************************************************************)
(* The OpenAI-compatible stream.  It shares the generator, the buffer and  *)
(* the client with the native one, so the variables of Downstream are the  *)
(* same here; of its own it has those below.                               *)
(***************************************************************************)
CONSTANTS Tools, Buffered, MaxChunks
VARIABLES chunks, sse, kept, calling, finish_reason

Chat == INSTANCE ChatStream

-----------------------------------------------------------------------------
(***************************************************************************)
(* The builder, with events that attempt n may send, and what the client   *)
(* sees of its blocks once it took all of them.                            *)
(***************************************************************************)
ToolOf == [named : BOOLEAN, index : Nat \union {-1}, sent : Args, waiting : Args]

BuilderOf(n) ==
    [next_index : Nat, text_index : Nat \union {-1}, thinking_index : Nat \union {-1},
     text_started : BOOLEAN, thinking_started : BOOLEAN, tools : [Tools -> ToolOf],
     attempt : {n, -1}, events : Seq(Sendable(TRUE, n))]

\* Open blocks have indexes of their own, all of them given out.
Building(n, b) ==
    /\ n \in Nat
    /\ b \in BuilderOf(n)
    /\ ~(b.text_started /\ b.thinking_started)
    /\ b.text_started => b.text_index \in Nat
    /\ b.thinking_started => b.thinking_index \in Nat
    /\ b.text_index < b.next_index /\ b.thinking_index < b.next_index
    /\ \A t \in Tools : b.tools[t].index < b.next_index
    /\ \A t \in Tools : b.tools[t].index = -1 => b.tools[t].sent # "whole"
    /\ \A t, u \in Chat!Started(b) : b.tools[t].index = b.tools[u].index => t = u
    /\ \A t \in Chat!Started(b) :
           /\ b.text_started => b.tools[t].index # b.text_index
           /\ b.thinking_started => b.tools[t].index # b.thinking_index

TextOf(b) == IF b.text_started THEN {<<b.text_index, "text">>} ELSE {}
ThinkingOf(b) == IF b.thinking_started THEN {<<b.thinking_index, "thinking">>} ELSE {}
ToolsOf(b) == {<<b.tools[t].index, "tool_use">> : t \in Chat!Started(b)}
UsedOf(b) == {i \in Nat : i < b.next_index}
BrokenOf(b) == {b.tools[t].index : t \in Chat!Unrepaired(b)}

Showing(b) ==
    [stage |-> "content", open |-> TextOf(b) \union ThinkingOf(b) \union ToolsOf(b),
     used |-> UsedOf(b), broken |-> BrokenOf(b)]

\* The events of b take the client from c to what the builder has.
Builds(n, c, b) ==
    Building(n, b) /\ Sends({}, TRUE, n, c, b.events, Showing(b))

LEMMA BuilderFacts ==
    ASSUME NEW n, NEW b, Building(n, b)
    PROVE  /\ n \in Nat /\ b \in BuilderOf(n) /\ OfAttempt(b.attempt, n)
           /\ b.next_index \in Nat /\ b.next_index + 1 \in Nat
           /\ b.text_index \in Int /\ b.thinking_index \in Int
           /\ b.text_started \in BOOLEAN /\ b.thinking_started \in BOOLEAN
           /\ \A t \in Tools : b.tools[t] \in ToolOf /\ b.tools[t].index \in Int
<1>1. n \in Nat /\ b \in BuilderOf(n)
  BY DEF Building
<1>2. OfAttempt(b.attempt, n)
  BY <1>1 DEF BuilderOf, OfAttempt
<1>3. \A t \in Tools : b.tools[t] \in ToolOf
  BY <1>1 DEF BuilderOf
<1>4. \A t \in Tools : b.tools[t].index \in Int
  BY <1>3 DEF ToolOf
<1>5. b.next_index \in Nat /\ b.text_index \in Int /\ b.thinking_index \in Int
      /\ b.text_started \in BOOLEAN /\ b.thinking_started \in BOOLEAN
  BY <1>1 DEF BuilderOf
<1> QED
  BY <1>1, <1>2, <1>3, <1>4, <1>5

LEMMA SendsMore ==
    ASSUME NEW n, NEW c, NEW s, NEW d, Sends({}, TRUE, n, c, s, d),
           NEW e \in Sendable(TRUE, n), Proper({}, d, e)
    PROVE  /\ Append(s, e) \in Seq(Sendable(TRUE, n))
           /\ Sends({}, TRUE, n, c, Append(s, e), Took(d, e))
<1>1. s \in Seq(Sendable(TRUE, n))
  BY DEF Sends
<1>2. Append(s, e) = s \o <<e>> /\ Append(s, e) \in Seq(Sendable(TRUE, n))
  BY <1>1, AppendIsConcat, AppendProperties
<1>3. Sends({}, TRUE, n, d, <<e>>, Took(d, e))
  BY SendsOne
<1>4. Sends({}, TRUE, n, c, s \o <<e>>, Took(d, e))
  BY <1>3, SendsConcat
<1> QED
  BY <1>2, <1>4

\* An event for a block.
LEMMA EventOf ==
    ASSUME NEW n, NEW attempt, OfAttempt(attempt, n), NEW name \in Names, NEW i \in Nat,
           NEW kind \in Contract!Kinds, NEW args \in Args
    PROVE  Event(name, i, kind, args, attempt) \in Sendable(TRUE, n)
  BY DEF OfAttempt, Event, Sendable

Opening(b, kind) == Event("content_block_start", b.next_index, kind, "none", b.attempt)

LEMMA StopTextBuilds ==
    ASSUME NEW n, NEW c, NEW b, Builds(n, c, b)
    PROVE  /\ Builds(n, c, Chat!StopText(b))
           /\ ~Chat!StopText(b).text_started
           /\ Chat!StopText(b).thinking_started = b.thinking_started
           /\ Chat!StopText(b).tools = b.tools
           /\ Chat!StopText(b).next_index = b.next_index
<1> DEFINE e == Event("content_block_stop", b.text_index, "text", "none", b.attempt)
           a == [b EXCEPT !.events = Append(@, e), !.text_started = FALSE]
<1>0. Building(n, b) /\ b \in BuilderOf(n)
  BY DEF Builds, Building
<1>1. CASE ~b.text_started
  BY <1>0, <1>1 DEF Chat!StopText
<1>2. CASE b.text_started
  <2>1. Chat!StopText(b) = a
    BY <1>0, <1>2 DEF Chat!StopText, Chat!StopBlock, Chat!Emit, BuilderOf, Chat!Event, Event
  <2>2. e \in Sendable(TRUE, n) /\ e.event = "content_block_stop" /\ e.index = b.text_index
        /\ e.kind = "text"
    BY <1>0, <1>2 DEF Building, BuilderOf, Sendable, Event, Names, Args, Contract!Kinds
  <2> HIDE DEF e
  <2>3. Proper({}, Showing(b), e)
    <3>1. <<e.index, "text">> \in Showing(b).open /\ "text" \in Contract!Kinds
      BY <1>2, <2>2 DEF Showing, TextOf, Contract!Kinds
    <3> QED
      BY <2>2, <3>1 DEF Proper, Contract!Allowed
  <2>4. /\ a.next_index = b.next_index /\ a.text_index = b.text_index
        /\ a.thinking_index = b.thinking_index /\ a.text_started = FALSE
        /\ a.thinking_started = b.thinking_started /\ a.tools = b.tools
        /\ a.attempt = b.attempt /\ a.events = Append(b.events, e)
    BY <1>0 DEF BuilderOf
  <2>5. /\ Append(b.events, e) \in Seq(Sendable(TRUE, n))
        /\ Sends({}, TRUE, n, c, Append(b.events, e), Took(Showing(b), e))
    BY <2>2, <2>3, SendsMore DEF Builds
  <2>6. a \in BuilderOf(n)
    BY <1>0, <2>5 DEF BuilderOf
  <2> HIDE DEF a
  <2>7. Building(n, a)
    BY <1>0, <1>2, <2>4, <2>6 DEF Building, Chat!Started
  <2>8. Took(Showing(b), e) = Showing(a)
    <3>1. TextOf(a) = {} /\ ThinkingOf(a) = ThinkingOf(b) /\ ToolsOf(a) = ToolsOf(b)
          /\ UsedOf(a) = UsedOf(b) /\ BrokenOf(a) = BrokenOf(b)
      BY <2>4 DEF TextOf, ThinkingOf, ToolsOf, UsedOf, BrokenOf, Chat!Started, Chat!Unrepaired
    <3>2. {x \in Showing(b).open : x[1] # e.index} = ThinkingOf(b) \union ToolsOf(b)
      <4>1. ThinkingOf(b) = {}
        BY <1>0, <1>2 DEF Building, ThinkingOf
      <4>2. \A x \in ToolsOf(b) : x[1] # e.index
        BY <1>0, <1>2, <2>2 DEF Building, ToolsOf
      <4>3. \A x \in TextOf(b) : x[1] = e.index
        BY <2>2 DEF TextOf
      <4> QED
        BY <4>1, <4>2, <4>3 DEF Showing
    <3> QED
      BY <2>2, <3>1, <3>2 DEF Took, Showing
  <2> QED
    BY <2>1, <2>4, <2>5, <2>7, <2>8 DEF Builds
<1> QED
  BY <1>1, <1>2

LEMMA StopThinkingBuilds ==
    ASSUME NEW n, NEW c, NEW b, Builds(n, c, b)
    PROVE  /\ Builds(n, c, Chat!StopThinking(b))
           /\ ~Chat!StopThinking(b).thinking_started
           /\ Chat!StopThinking(b).text_started = b.text_started
           /\ Chat!StopThinking(b).tools = b.tools
           /\ Chat!StopThinking(b).next_index = b.next_index
<1> DEFINE e == Event("content_block_stop", b.thinking_index, "thinking", "none", b.attempt)
           a == [b EXCEPT !.events = Append(@, e), !.thinking_started = FALSE]
<1>0. Building(n, b) /\ b \in BuilderOf(n)
  BY DEF Builds, Building
<1>1. CASE ~b.thinking_started
  BY <1>0, <1>1 DEF Chat!StopThinking
<1>2. CASE b.thinking_started
  <2>1. Chat!StopThinking(b) = a
    BY <1>0, <1>2 DEF Chat!StopThinking, Chat!StopBlock, Chat!Emit, BuilderOf, Chat!Event, Event
  <2>2. e \in Sendable(TRUE, n) /\ e.event = "content_block_stop" /\ e.index = b.thinking_index
        /\ e.kind = "thinking"
    BY <1>0, <1>2 DEF Building, BuilderOf, Sendable, Event, Names, Args, Contract!Kinds
  <2> HIDE DEF e
  <2>3. Proper({}, Showing(b), e)
    <3>1. <<e.index, "thinking">> \in Showing(b).open /\ "thinking" \in Contract!Kinds
      BY <1>2, <2>2 DEF Showing, ThinkingOf, Contract!Kinds
    <3> QED
      BY <2>2, <3>1 DEF Proper, Contract!Allowed
  <2>4. /\ a.next_index = b.next_index /\ a.text_index = b.text_index
        /\ a.thinking_index = b.thinking_index /\ a.thinking_started = FALSE
        /\ a.text_started = b.text_started /\ a.tools = b.tools
        /\ a.attempt = b.attempt /\ a.events = Append(b.events, e)
    BY <1>0 DEF BuilderOf
  <2>5. /\ Append(b.events, e) \in Seq(Sendable(TRUE, n))
        /\ Sends({}, TRUE, n, c, Append(b.events, e), Took(Showing(b), e))
    BY <2>2, <2>3, SendsMore DEF Builds
  <2>6. a \in BuilderOf(n)
    BY <1>0, <2>5 DEF BuilderOf
  <2> HIDE DEF a
  <2>7. Building(n, a)
    BY <1>0, <1>2, <2>4, <2>6 DEF Building, Chat!Started
  <2>8. Took(Showing(b), e) = Showing(a)
    <3>1. ThinkingOf(a) = {} /\ TextOf(a) = TextOf(b) /\ ToolsOf(a) = ToolsOf(b)
          /\ UsedOf(a) = UsedOf(b) /\ BrokenOf(a) = BrokenOf(b)
      BY <2>4 DEF TextOf, ThinkingOf, ToolsOf, UsedOf, BrokenOf, Chat!Started, Chat!Unrepaired
    <3>2. {x \in Showing(b).open : x[1] # e.index} = TextOf(b) \union ToolsOf(b)
      <4>1. TextOf(b) = {}
        BY <1>0, <1>2 DEF Building, TextOf
      <4>2. \A x \in ToolsOf(b) : x[1] # e.index
        BY <1>0, <1>2, <2>2 DEF Building, ToolsOf
      <4>3. \A x \in ThinkingOf(b) : x[1] = e.index
        BY <2>2 DEF ThinkingOf
      <4> QED
        BY <4>1, <4>2, <4>3 DEF Showing
    <3> QED
      BY <2>2, <3>1, <3>2 DEF Took, Showing
  <2> QED
    BY <2>1, <2>4, <2>5, <2>7, <2>8 DEF Builds
<1> QED
  BY <1>1, <1>2

\* A block starts, with the next index.
LEMMA StartAllowed ==
    ASSUME NEW n, NEW b, Building(n, b), NEW kind \in Contract!Kinds
    PROVE  /\ Opening(b, kind) \in Sendable(TRUE, n)
           /\ Proper({}, Showing(b), Opening(b, kind))
           /\ Took(Showing(b), Opening(b, kind))
                = [stage |-> "content", open |-> Showing(b).open \union {<<b.next_index, kind>>},
                   used |-> UsedOf(b) \union {b.next_index},
                   broken |-> IF kind = "tool_use" THEN BrokenOf(b) \union {b.next_index}
                              ELSE BrokenOf(b)]
           /\ \A x \in Showing(b).open : x[1] < b.next_index
           /\ b.next_index \in Nat /\ b.next_index \notin UsedOf(b)
           /\ b.next_index \notin BrokenOf(b)
<1> DEFINE e == Opening(b, kind)
<1>1. b \in BuilderOf(n) /\ b.next_index \in Nat
  BY DEF Building, BuilderOf
<1>2. e \in Sendable(TRUE, n)
  <2>1. "content_block_start" \in Names /\ "none" \in Args /\ OfAttempt(b.attempt, n)
    BY <1>1 DEF Building, BuilderOf, Names, Args, OfAttempt
  <2> QED
    BY <1>1, <2>1, EventOf DEF Opening
<1>8. e.event = "content_block_start" /\ e.index = b.next_index /\ e.kind = kind
      /\ e.args = "none"
  BY DEF Opening, Event
<1> HIDE DEF e
<1>3. b.next_index \notin UsedOf(b)
  BY <1>1 DEF UsedOf
<1>4. b.next_index \notin BrokenOf(b)
  <2>1. \A t \in Tools : b.tools[t].index < b.next_index
    BY DEF Building
  <2>2. \A t \in Tools : b.tools[t].index # b.next_index
    BY <1>1, <2>1
  <2> QED
    BY <2>2 DEF BrokenOf, Chat!Unrepaired, Chat!Started
<1>5. Proper({}, Showing(b), e)
  BY <1>8, <1>3 DEF Proper, Contract!Allowed, Showing
<1>6. \A x \in Showing(b).open : x[1] < b.next_index
  <2>1. \A x \in TextOf(b) : x[1] < b.next_index
    BY DEF Building, TextOf
  <2>2. \A x \in ThinkingOf(b) : x[1] < b.next_index
    BY DEF Building, ThinkingOf
  <2>3. \A x \in ToolsOf(b) : x[1] < b.next_index
    BY DEF Building, ToolsOf, Chat!Started
  <2> QED
    BY <2>1, <2>2, <2>3 DEF Showing
<1>7. Took(Showing(b), e)
        = [stage |-> "content", open |-> Showing(b).open \union {<<b.next_index, kind>>},
           used |-> UsedOf(b) \union {b.next_index},
           broken |-> IF kind = "tool_use" THEN BrokenOf(b) \union {b.next_index} ELSE BrokenOf(b)]
  BY <1>8 DEF Took, Showing
<1> QED
  BY <1>1, <1>2, <1>3, <1>4, <1>5, <1>6, <1>7 DEF e

\* ensure_text_block, once thinking is closed.
LEMMA StartTextBuilds ==
    ASSUME NEW n, NEW c, NEW b, Builds(n, c, b), ~b.text_started, ~b.thinking_started,
           NEW a, a = [Chat!StartBlock(b, "text") EXCEPT !.text_index = b.next_index,
                                                         !.text_started = TRUE]
    PROVE  Builds(n, c, a) /\ a.text_started
<1> DEFINE e == Opening(b, "text")
<1>0. Building(n, b) /\ b \in BuilderOf(n) /\ "text" \in Contract!Kinds
  BY DEF Builds, Building, Contract!Kinds
<1>1. /\ a.next_index = b.next_index + 1 /\ a.text_index = b.next_index
      /\ a.thinking_index = b.thinking_index /\ a.text_started = TRUE
      /\ a.thinking_started = b.thinking_started /\ a.tools = b.tools
      /\ a.attempt = b.attempt /\ a.events = Append(b.events, e)
  BY <1>0 DEF Chat!StartBlock, Chat!Emit, BuilderOf, Chat!Event, Event, Opening
<1>2. /\ e \in Sendable(TRUE, n) /\ Proper({}, Showing(b), e)
      /\ Took(Showing(b), e)
           = [stage |-> "content", open |-> Showing(b).open \union {<<b.next_index, "text">>},
              used |-> UsedOf(b) \union {b.next_index}, broken |-> BrokenOf(b)]
      /\ b.next_index \in Nat
  <2>1. "text" # "tool_use"
    OBVIOUS
  <2> QED
    BY <1>0, <2>1, StartAllowed
<1> HIDE DEF e
<1>3. /\ Append(b.events, e) \in Seq(Sendable(TRUE, n))
      /\ Sends({}, TRUE, n, c, Append(b.events, e), Took(Showing(b), e))
  BY <1>2, SendsMore DEF Builds
<1>9. /\ b.next_index + 1 \in Nat /\ b.next_index \in Nat \union {-1}
      /\ b.text_index \in Int /\ b.thinking_index \in Int
      /\ \A t \in Tools : b.tools[t].index \in Int
  BY <1>0, BuilderFacts
<1>4. a \in BuilderOf(n)
  <2>1. a = [b EXCEPT !.events = Append(b.events, e), !.next_index = b.next_index + 1,
                      !.text_index = b.next_index, !.text_started = TRUE]
    BY <1>0 DEF Chat!StartBlock, Chat!Emit, BuilderOf, Chat!Event, Event, Opening, e
  <2> QED
    BY <1>0, <1>9, <1>3, <2>1 DEF BuilderOf
<1>5. Building(n, a)
  <2>1. a.text_index < a.next_index /\ a.thinking_index < a.next_index
    BY <1>0, <1>1, <1>2, <1>9 DEF Building
  <2>2. \A t \in Tools : a.tools[t].index < a.next_index
    BY <1>0, <1>1, <1>2, <1>9 DEF Building
  <2>3. Chat!Started(a) = Chat!Started(b)
    BY <1>1 DEF Chat!Started
  <2>4. \A t \in Chat!Started(a) : a.tools[t].index # a.text_index
    BY <1>0, <1>1, <1>2, <1>9 DEF Building, Chat!Started
  <2> QED
    BY <1>0, <1>1, <1>2, <1>4, <2>1, <2>2, <2>3, <2>4 DEF Building
<1>6. Took(Showing(b), e) = Showing(a)
  <2>1. TextOf(a) = {<<b.next_index, "text">>} /\ TextOf(b) = {}
        /\ ThinkingOf(a) = ThinkingOf(b) /\ ToolsOf(a) = ToolsOf(b)
        /\ BrokenOf(a) = BrokenOf(b)
    BY <1>1 DEF TextOf, ThinkingOf, ToolsOf, BrokenOf, Chat!Started, Chat!Unrepaired
  <2>2. UsedOf(a) = UsedOf(b) \union {b.next_index}
    BY <1>1, <1>2 DEF UsedOf
  <2>3. Showing(a).open = Showing(b).open \union {<<b.next_index, "text">>}
    BY <2>1 DEF Showing
  <2> QED
    BY <1>2, <2>1, <2>2, <2>3 DEF Showing
<1> QED
  BY <1>1, <1>3, <1>5, <1>6 DEF Builds

LEMMA StartThinkingBuilds ==
    ASSUME NEW n, NEW c, NEW b, Builds(n, c, b), ~b.text_started, ~b.thinking_started,
           NEW a, a = [Chat!StartBlock(b, "thinking") EXCEPT !.thinking_index = b.next_index,
                                                             !.thinking_started = TRUE]
    PROVE  Builds(n, c, a) /\ a.thinking_started
<1> DEFINE e == Opening(b, "thinking")
<1>0. Building(n, b) /\ b \in BuilderOf(n) /\ "thinking" \in Contract!Kinds
  BY DEF Builds, Building, Contract!Kinds
<1>1. /\ a.next_index = b.next_index + 1 /\ a.thinking_index = b.next_index
      /\ a.text_index = b.text_index /\ a.thinking_started = TRUE
      /\ a.text_started = b.text_started /\ a.tools = b.tools
      /\ a.attempt = b.attempt /\ a.events = Append(b.events, e)
  BY <1>0 DEF Chat!StartBlock, Chat!Emit, BuilderOf, Chat!Event, Event, Opening
<1>2. /\ e \in Sendable(TRUE, n) /\ Proper({}, Showing(b), e)
      /\ Took(Showing(b), e)
           = [stage |-> "content", open |-> Showing(b).open \union {<<b.next_index, "thinking">>},
              used |-> UsedOf(b) \union {b.next_index}, broken |-> BrokenOf(b)]
      /\ b.next_index \in Nat
  <2>1. "thinking" # "tool_use"
    OBVIOUS
  <2> QED
    BY <1>0, <2>1, StartAllowed
<1> HIDE DEF e
<1>3. /\ Append(b.events, e) \in Seq(Sendable(TRUE, n))
      /\ Sends({}, TRUE, n, c, Append(b.events, e), Took(Showing(b), e))
  BY <1>2, SendsMore DEF Builds
<1>9. /\ b.next_index + 1 \in Nat /\ b.next_index \in Nat \union {-1}
      /\ b.text_index \in Int /\ b.thinking_index \in Int
      /\ \A t \in Tools : b.tools[t].index \in Int
  BY <1>0, BuilderFacts
<1>4. a \in BuilderOf(n)
  <2>1. a = [b EXCEPT !.events = Append(b.events, e), !.next_index = b.next_index + 1,
                      !.thinking_index = b.next_index, !.thinking_started = TRUE]
    BY <1>0 DEF Chat!StartBlock, Chat!Emit, BuilderOf, Chat!Event, Event, Opening, e
  <2> QED
    BY <1>0, <1>9, <1>3, <2>1 DEF BuilderOf
<1>5. Building(n, a)
  <2>1. a.text_index < a.next_index /\ a.thinking_index < a.next_index
    BY <1>0, <1>1, <1>2, <1>9 DEF Building
  <2>2. \A t \in Tools : a.tools[t].index < a.next_index
    BY <1>0, <1>1, <1>2, <1>9 DEF Building
  <2>3. Chat!Started(a) = Chat!Started(b)
    BY <1>1 DEF Chat!Started
  <2>4. \A t \in Chat!Started(a) : a.tools[t].index # a.thinking_index
    BY <1>0, <1>1, <1>2, <1>9 DEF Building, Chat!Started
  <2> QED
    BY <1>0, <1>1, <1>2, <1>4, <2>1, <2>2, <2>3, <2>4 DEF Building
<1>6. Took(Showing(b), e) = Showing(a)
  <2>1. ThinkingOf(a) = {<<b.next_index, "thinking">>} /\ ThinkingOf(b) = {}
        /\ TextOf(a) = TextOf(b) /\ ToolsOf(a) = ToolsOf(b)
        /\ BrokenOf(a) = BrokenOf(b)
    BY <1>1 DEF TextOf, ThinkingOf, ToolsOf, BrokenOf, Chat!Started, Chat!Unrepaired
  <2>2. UsedOf(a) = UsedOf(b) \union {b.next_index}
    BY <1>1, <1>2 DEF UsedOf
  <2>3. Showing(a).open = Showing(b).open \union {<<b.next_index, "thinking">>}
    BY <2>1 DEF Showing
  <2> QED
    BY <1>2, <2>1, <2>2, <2>3 DEF Showing
<1> QED
  BY <1>1, <1>3, <1>5, <1>6 DEF Builds

\* start_tool_block
LEMMA StartToolBuilds ==
    ASSUME NEW n, NEW c, NEW b, Builds(n, c, b), NEW t \in Tools, b.tools[t].index = -1,
           NEW a, a = Chat!StartTool(b, t)
    PROVE  /\ Builds(n, c, a) /\ t \in Chat!Started(a)
           /\ a.tools = [b.tools EXCEPT ![t].index = b.next_index]
<1> DEFINE e == Opening(b, "tool_use")
<1>0. Building(n, b) /\ b \in BuilderOf(n) /\ "tool_use" \in Contract!Kinds
  BY DEF Builds, Building, Contract!Kinds
<1>1. /\ a.next_index = b.next_index + 1 /\ a.thinking_index = b.thinking_index
      /\ a.text_index = b.text_index /\ a.thinking_started = b.thinking_started
      /\ a.text_started = b.text_started
      /\ a.tools = [b.tools EXCEPT ![t].index = b.next_index]
      /\ a.attempt = b.attempt /\ a.events = Append(b.events, e)
  BY <1>0 DEF Chat!StartTool, Chat!StartBlock, Chat!Emit, BuilderOf, Chat!Event, Event, Opening
<1>2. /\ e \in Sendable(TRUE, n) /\ Proper({}, Showing(b), e)
      /\ Took(Showing(b), e)
           = [stage |-> "content", open |-> Showing(b).open \union {<<b.next_index, "tool_use">>},
              used |-> UsedOf(b) \union {b.next_index},
              broken |-> BrokenOf(b) \union {b.next_index}]
      /\ b.next_index \in Nat
  BY <1>0, StartAllowed
<1> HIDE DEF e
<1>3. /\ Append(b.events, e) \in Seq(Sendable(TRUE, n))
      /\ Sends({}, TRUE, n, c, Append(b.events, e), Took(Showing(b), e))
  BY <1>2, SendsMore DEF Builds
<1>9. /\ b.next_index + 1 \in Nat /\ b.next_index \in Nat \union {-1}
      /\ b.text_index \in Int /\ b.thinking_index \in Int
      /\ \A x \in Tools : b.tools[x] \in ToolOf /\ b.tools[x].index \in Int
  BY <1>0, BuilderFacts
<1>10. /\ \A x \in Tools : x # t => a.tools[x] = b.tools[x]
       /\ a.tools[t] = [b.tools[t] EXCEPT !.index = b.next_index]
       /\ a.tools[t].index = b.next_index /\ a.tools[t].sent = b.tools[t].sent
       /\ a.tools[t] \in ToolOf /\ a.tools \in [Tools -> ToolOf]
  <2>1. /\ \A x \in Tools : x # t => a.tools[x] = b.tools[x]
        /\ a.tools[t] = [b.tools[t] EXCEPT !.index = b.next_index]
        /\ a.tools = [x \in Tools |-> a.tools[x]]
    BY <1>0, <1>1 DEF BuilderOf
  <2>2. /\ a.tools[t].index = b.next_index /\ a.tools[t].sent = b.tools[t].sent
        /\ a.tools[t] \in ToolOf
    BY <1>9, <2>1 DEF ToolOf
  <2>3. \A x \in Tools : a.tools[x] \in ToolOf
    BY <1>9, <2>1, <2>2
  <2> QED
    BY <2>1, <2>2, <2>3
<1>4. a \in BuilderOf(n)
  <2>1. a = [b EXCEPT !.events = Append(b.events, e), !.next_index = b.next_index + 1,
                      !.tools = a.tools]
    BY <1>0 DEF Chat!StartTool, Chat!StartBlock, Chat!Emit, BuilderOf, Chat!Event, Event,
                Opening, e
  <2> QED
    BY <1>0, <1>9, <1>3, <1>10, <2>1 DEF BuilderOf
<1>12. /\ \A x \in Tools : x # t => a.tools[x].index = b.tools[x].index
       /\ \A x \in Tools : a.tools[x].sent = b.tools[x].sent
       /\ a.tools[t].index = b.next_index
  BY <1>10
<1>11. Chat!Started(a) = Chat!Started(b) \union {t} /\ t \notin Chat!Started(b)
  <2>1. b.next_index >= 0 /\ ~(b.tools[t].index >= 0)
    BY <1>2
  <2> QED
    BY <1>12, <2>1 DEF Chat!Started
<1>5. Building(n, a)
  <2>1. a.text_index < a.next_index /\ a.thinking_index < a.next_index
    BY <1>0, <1>1, <1>2, <1>9 DEF Building
  <2>2. \A x \in Tools : b.tools[x].index < b.next_index
    BY <1>0 DEF Building
  <2>3. \A x \in Tools : a.tools[x].index < a.next_index
    BY <1>1, <1>2, <1>9, <1>10, <2>2
  <2>4. \A x \in Tools : a.tools[x].index = -1 => a.tools[x].sent # "whole"
    <3>1. \A x \in Tools : b.tools[x].index = -1 => b.tools[x].sent # "whole"
      BY <1>0 DEF Building
    <3>2. a.tools[t].index # -1
      BY <1>2, <1>12
    <3> QED
      BY <1>12, <3>1, <3>2
  <2>5. \A x, y \in Chat!Started(a) : a.tools[x].index = a.tools[y].index => x = y
    <3>1. \A x \in Chat!Started(b) : x \in Tools /\ b.tools[x].index # b.next_index /\ x # t
      BY <1>9, <1>2, <1>11, <2>2 DEF Chat!Started
    <3>2. \A x, y \in Chat!Started(b) : b.tools[x].index = b.tools[y].index => x = y
      BY <1>0 DEF Building
    <3> SUFFICES ASSUME NEW x \in Chat!Started(a), NEW y \in Chat!Started(a),
                        a.tools[x].index = a.tools[y].index
                 PROVE  x = y
      OBVIOUS
    <3>3. CASE x = t
      BY <1>11, <1>12, <3>1, <3>3
    <3>4. CASE y = t
      BY <1>11, <1>12, <3>1, <3>4
    <3>5. CASE x # t /\ y # t
      BY <1>11, <1>12, <3>1, <3>2, <3>5
    <3> QED
      BY <3>3, <3>4, <3>5
  <2>6. \A x \in Chat!Started(a) :
           /\ a.text_started => a.tools[x].index # a.text_index
           /\ a.thinking_started => a.tools[x].index # a.thinking_index
    <3>1. \A x \in Chat!Started(b) :
             /\ x \in Tools /\ x # t
             /\ b.text_started => b.tools[x].index # b.text_index
             /\ b.thinking_started => b.tools[x].index # b.thinking_index
      BY <1>0, <1>11 DEF Building, Chat!Started
    <3>2. b.next_index # b.text_index /\ b.next_index # b.thinking_index
      BY <1>0, <1>2, <1>9 DEF Building
    <3> QED
      BY <1>1, <1>10, <1>11, <3>1, <3>2
  <2> QED
    BY <1>0, <1>1, <1>4, <2>1, <2>3, <2>4, <2>5, <2>6 DEF Building
<1>6. Took(Showing(b), e) = Showing(a)
  <2>1. TextOf(a) = TextOf(b) /\ ThinkingOf(a) = ThinkingOf(b)
    BY <1>1 DEF TextOf, ThinkingOf
  <2>2. UsedOf(a) = UsedOf(b) \union {b.next_index}
    BY <1>1, <1>2 DEF UsedOf
  <2>3. ToolsOf(a) = ToolsOf(b) \union {<<b.next_index, "tool_use">>}
    <3>1. \A x \in Chat!Started(b) : a.tools[x].index = b.tools[x].index
      BY <1>11, <1>12 DEF Chat!Started
    <3>2. a.tools[t].index = b.next_index
      BY <1>12
    <3> QED
      BY <1>11, <3>1, <3>2 DEF ToolsOf
  <2>4. BrokenOf(a) = BrokenOf(b) \union {b.next_index}
    <3>1. b.tools[t].sent # "whole"
      BY <1>0 DEF Building
    <3>2. Chat!Unrepaired(a) = Chat!Unrepaired(b) \union {t} /\ t \notin Chat!Unrepaired(b)
      <4>1. \A x \in Chat!Started(b) \union {t} : a.tools[x].sent = b.tools[x].sent
        BY <1>12 DEF Chat!Started
      <4> QED
        BY <1>11, <3>1, <4>1 DEF Chat!Unrepaired
    <3>3. \A x \in Chat!Unrepaired(b) : a.tools[x].index = b.tools[x].index
      BY <1>12, <1>11 DEF Chat!Unrepaired, Chat!Started
    <3>4. a.tools[t].index = b.next_index
      BY <1>12
    <3> QED
      BY <3>2, <3>3, <3>4 DEF BrokenOf
  <2> QED
    BY <1>2, <2>1, <2>2, <2>3, <2>4 DEF Showing
<1> QED
  BY <1>1, <1>3, <1>5, <1>6, <1>11 DEF Builds

\* A delta of an open block of text or of thinking.
LEMMA DeltaBuilds ==
    ASSUME NEW n, NEW c, NEW b, Builds(n, c, b), NEW i \in Nat, NEW kind \in {"text", "thinking"},
           <<i, kind>> \in Showing(b).open
    PROVE  /\ Builds(n, c, Chat!Delta(b, i, kind))
           /\ Chat!Delta(b, i, kind).tools = b.tools
           /\ Chat!Delta(b, i, kind).text_started = b.text_started
           /\ Chat!Delta(b, i, kind).thinking_started = b.thinking_started
<1> DEFINE a == Chat!Delta(b, i, kind)
           e == Event("content_block_delta", i, kind, "none", b.attempt)
<1>0. Building(n, b) /\ b \in BuilderOf(n) /\ OfAttempt(b.attempt, n)
  BY BuilderFacts DEF Builds
<1>1. a = [b EXCEPT !.events = Append(b.events, e)]
  BY <1>0 DEF Chat!Delta, Chat!Emit, BuilderOf, Chat!Event, Event
<1> HIDE DEF a
<1>2. e \in Sendable(TRUE, n)
  BY <1>0 DEF Event, Sendable, OfAttempt, Names, Args, Contract!Kinds
<1>3. e.event = "content_block_delta" /\ e.index = i /\ e.kind = kind /\ e.kind # "tool_use"
  BY DEF Event
<1> HIDE DEF e
<1>4. Proper({}, Showing(b), e)
  BY <1>3 DEF Proper, Contract!Allowed
<1>5. /\ Append(b.events, e) \in Seq(Sendable(TRUE, n))
      /\ Sends({}, TRUE, n, c, Append(b.events, e), Took(Showing(b), e))
  BY <1>2, <1>4, SendsMore DEF Builds
<1>6. a \in BuilderOf(n)
  BY <1>0, <1>1, <1>5 DEF BuilderOf
<1>7. /\ a.next_index = b.next_index /\ a.text_index = b.text_index
      /\ a.thinking_index = b.thinking_index /\ a.text_started = b.text_started
      /\ a.thinking_started = b.thinking_started /\ a.tools = b.tools
      /\ a.events = Append(b.events, e)
  BY <1>0, <1>1 DEF BuilderOf
<1>8. Building(n, a)
  BY <1>0, <1>6, <1>7 DEF Building, Chat!Started
<1>9. Took(Showing(b), e) = Showing(a)
  <2>1. TextOf(a) = TextOf(b) /\ ThinkingOf(a) = ThinkingOf(b) /\ ToolsOf(a) = ToolsOf(b)
        /\ UsedOf(a) = UsedOf(b) /\ BrokenOf(a) = BrokenOf(b)
    BY <1>7 DEF TextOf, ThinkingOf, ToolsOf, UsedOf, BrokenOf, Chat!Started, Chat!Unrepaired
  <2> QED
    BY <1>3, <2>1 DEF Took, Showing
<1> QED
  BY <1>5, <1>7, <1>8, <1>9 DEF Builds, a

\* emit_text_delta, emit_thinking_delta
LEMMA EmitTextBuilds ==
    ASSUME NEW n, NEW c, NEW b, Builds(n, c, b)
    PROVE  Builds(n, c, Chat!EmitText(b)) /\ Chat!EmitText(b).text_started
<1> DEFINE s == Chat!StopThinking(b)
           t == Chat!EnsureText(b)
<1>1. Builds(n, c, s) /\ ~s.thinking_started
  BY StopThinkingBuilds
<1> HIDE DEF s
<1>2. Builds(n, c, t) /\ t.text_started
  <2>1. t = IF s.text_started THEN s
            ELSE [Chat!StartBlock(s, "text") EXCEPT !.text_index = s.next_index,
                                                    !.text_started = TRUE]
    BY DEF Chat!EnsureText, s
  <2>2. CASE s.text_started
    BY <1>1, <2>1, <2>2
  <2>3. CASE ~s.text_started
    <3> HIDE DEF t
    <3> QED
      BY <1>1, <2>1, <2>3, StartTextBuilds
  <2> HIDE DEF t
  <2> QED
    BY <2>2, <2>3
<1> HIDE DEF t
<1>3. <<t.text_index, "text">> \in Showing(t).open /\ t.text_index \in Nat
      /\ "text" \in {"text", "thinking"}
  BY <1>2 DEF Showing, TextOf, Builds, Building
<1>4. Chat!EmitText(b) = Chat!Delta(t, t.text_index, "text")
  BY DEF Chat!EmitText, t
<1>5. Builds(n, c, Chat!Delta(t, t.text_index, "text"))
      /\ Chat!Delta(t, t.text_index, "text").text_started = t.text_started
  BY <1>2, <1>3, DeltaBuilds
<1> QED
  BY <1>2, <1>4, <1>5

LEMMA EmitThinkingBuilds ==
    ASSUME NEW n, NEW c, NEW b, Builds(n, c, b)
    PROVE  Builds(n, c, Chat!EmitThinking(b)) /\ Chat!EmitThinking(b).thinking_started
<1> DEFINE s == Chat!StopText(b)
           t == Chat!EnsureThinking(b)
<1>1. Builds(n, c, s) /\ ~s.text_started
  BY StopTextBuilds
<1> HIDE DEF s
<1>2. Builds(n, c, t) /\ t.thinking_started
  <2>1. t = IF s.thinking_started THEN s
            ELSE [Chat!StartBlock(s, "thinking") EXCEPT !.thinking_index = s.next_index,
                                                        !.thinking_started = TRUE]
    BY DEF Chat!EnsureThinking, s
  <2>2. CASE s.thinking_started
    BY <1>1, <2>1, <2>2
  <2>3. CASE ~s.thinking_started
    <3> HIDE DEF t
    <3> QED
      BY <1>1, <2>1, <2>3, StartThinkingBuilds
  <2> HIDE DEF t
  <2> QED
    BY <2>2, <2>3
<1> HIDE DEF t
<1>3. <<t.thinking_index, "thinking">> \in Showing(t).open /\ t.thinking_index \in Nat
      /\ "thinking" \in {"text", "thinking"}
  BY <1>2 DEF Showing, ThinkingOf, Builds, Building
<1>4. Chat!EmitThinking(b) = Chat!Delta(t, t.thinking_index, "thinking")
  BY DEF Chat!EmitThinking, t
<1>5. Builds(n, c, Chat!Delta(t, t.thinking_index, "thinking"))
      /\ Chat!Delta(t, t.thinking_index, "thinking").thinking_started = t.thinking_started
  BY <1>2, <1>3, DeltaBuilds
<1> QED
  BY <1>2, <1>4, <1>5

-----------------------------------------------------------------------------
(***************************************************************************)
(* Events for the blocks of several calls.                                 *)
(***************************************************************************)
Each(b, T, name, args) ==
    [k \in DOMAIN SetToSeq(T) |->
        Event(name, b.tools[SetToSeq(T)[k]].index, "tool_use", args, b.attempt)]
ToolIndexes(b, T) == {b.tools[t].index : t \in T}

LEMMA SameOrder == ASSUME NEW T PROVE Chat!SetToSeq(T) = SetToSeq(T)
<1>1. Chat!Cardinality(T) = Cardinality(T)
  BY DEF Chat!Cardinality, Cardinality
<1> QED
  BY <1>1 DEF Chat!SetToSeq, SetToSeq, Chat!IsInjective, IsInjective

LEMMA EmitEachMade ==
    ASSUME NEW n, NEW b, Building(n, b), NEW T, NEW name, NEW args
    PROVE  Chat!EmitEach(b, T, name, args)
             = [b EXCEPT !.events = b.events \o Each(b, T, name, args)]
<1>1. Each(b, T, name, args)
        = [k \in DOMAIN Chat!SetToSeq(T) |->
              Chat!Event(name, b.tools[Chat!SetToSeq(T)[k]].index, "tool_use", args, b.attempt)]
  BY SameOrder, Zenon DEF Each, Event, Chat!Event
<1> DEFINE s == [k \in DOMAIN Chat!SetToSeq(T) |->
              Chat!Event(name, b.tools[Chat!SetToSeq(T)[k]].index, "tool_use", args, b.attempt)]
<1>2. Chat!EmitEach(b, T, name, args) = [b EXCEPT !.events = b.events \o s]
  BY DEF Chat!EmitEach, Building, BuilderOf
<1>3. Each(b, T, name, args) = s
  BY <1>1
<1> HIDE DEF s
<1> QED
  BY <1>2, <1>3

\* Such events are those of s: one for each of the indexes of I.
AreEach(s, n, name, args, I) ==
    /\ s \in Seq(Sendable(TRUE, n))
    /\ \A k \in DOMAIN s : s[k].event = name /\ s[k].kind = "tool_use" /\ s[k].args = args
    /\ \A k \in DOMAIN s : s[k].index \in I
    /\ \A j, k \in DOMAIN s : s[j].index = s[k].index => j = k
    /\ IndexesIn(s) = I
Calls(b, T) == T \subseteq Chat!Started(b)

LEMMA StartedFacts ==
    ASSUME NEW n, NEW b, Building(n, b)
    PROVE  /\ IsFiniteSet(Chat!Started(b))
           /\ \A t \in Chat!Started(b) : b.tools[t].index \in UsedOf(b)
           /\ \A t, u \in Chat!Started(b) : b.tools[t].index = b.tools[u].index => t = u
<1>1. b.next_index \in Nat /\ \A t \in Tools : b.tools[t].index \in Int
  BY BuilderFacts
<1>2. \A t \in Chat!Started(b) : b.tools[t].index \in UsedOf(b)
  BY <1>1 DEF Building, UsedOf, Chat!Started
<1>3. \A t, u \in Chat!Started(b) : b.tools[t].index = b.tools[u].index => t = u
  BY DEF Building
<1> DEFINE place == [t \in Chat!Started(b) |-> b.tools[t].index]
<1>4. place \in Injection(Chat!Started(b), 0 .. b.next_index)
  <2>1. \A t \in Chat!Started(b) : b.tools[t].index \in 0 .. b.next_index
    BY <1>1, <1>2 DEF UsedOf
  <2> QED
    BY <1>3, <2>1 DEF Injection, IsInjective
<1>5. IsFiniteSet(0 .. b.next_index)
  BY <1>1, FS_Interval
<1> QED
  BY <1>2, <1>3, <1>4, <1>5, FS_Injection

LEMMA EachFacts ==
    ASSUME NEW n, NEW b, Building(n, b), NEW T, Calls(b, T), NEW name, name \in Names,
           NEW args, args \in Args
    PROVE  AreEach(Each(b, T, name, args), n, name, args, ToolIndexes(b, T))
<1> DEFINE o == SetToSeq(T)
           s == Each(b, T, name, args)
<1>1. /\ \A t \in T : b.tools[t].index \in Nat
      /\ \A t, u \in T : b.tools[t].index = b.tools[u].index => t = u
      /\ IsFiniteSet(T)
  BY StartedFacts, FS_Subset DEF UsedOf, Calls
<1>2. /\ o \in Seq(T)
      /\ \A t \in T : \E k \in DOMAIN o : o[k] = t
      /\ \A j, k \in DOMAIN o : o[j] = o[k] => j = k
  BY <1>1, SetToSeqFacts
<1>3. /\ DOMAIN s = DOMAIN o /\ s = [k \in DOMAIN o |-> s[k]]
      /\ \A k \in DOMAIN o :
             s[k] = Event(name, b.tools[o[k]].index, "tool_use", args, b.attempt)
  BY DEF Each
<1> HIDE DEF o, s
<1>4. Len(o) \in Nat /\ DOMAIN o = 1 .. Len(o) /\ \A k \in DOMAIN o : o[k] \in T
  BY <1>2, LenProperties, ElementOfSeq
<1>5. ASSUME NEW k \in DOMAIN o
      PROVE  /\ s[k] \in Sendable(TRUE, n) /\ s[k].event = name
             /\ s[k].kind = "tool_use" /\ s[k].args = args
             /\ s[k].index = b.tools[o[k]].index
  <2>1. b.tools[o[k]].index \in Nat /\ OfAttempt(b.attempt, n)
        /\ "tool_use" \in Contract!Kinds
    BY <1>1, <1>4, BuilderFacts DEF Contract!Kinds
  <2>2. Event(name, b.tools[o[k]].index, "tool_use", args, b.attempt) \in Sendable(TRUE, n)
    BY <2>1, EventOf
  <2>3. s[k] = Event(name, b.tools[o[k]].index, "tool_use", args, b.attempt)
    BY <1>3
  <2>4. s[k] \in Sendable(TRUE, n)
    BY <2>2, <2>3
  <2>5. /\ s[k].event = name /\ s[k].kind = "tool_use" /\ s[k].args = args
        /\ s[k].index = b.tools[o[k]].index
    BY <2>3 DEF Event
  <2> QED
    BY <2>4, <2>5
<1>6. s \in Seq(Sendable(TRUE, n))
  BY <1>3, <1>4, <1>5, SeqMade
<1>7. \A k \in DOMAIN s : s[k].index \in ToolIndexes(b, T)
  BY <1>3, <1>4, <1>5 DEF ToolIndexes
<1>8. \A j, k \in DOMAIN s : s[j].index = s[k].index => j = k
  <2> SUFFICES ASSUME NEW j \in DOMAIN o, NEW k \in DOMAIN o, s[j].index = s[k].index
               PROVE  j = k
    BY <1>3
  <2>1. o[j] \in T /\ o[k] \in T /\ b.tools[o[j]].index = b.tools[o[k]].index
    BY <1>4, <1>5
  <2>2. o[j] = o[k]
    BY <1>1, <2>1
  <2> QED
    BY <1>2, <2>2
<1>9. IndexesIn(s) = ToolIndexes(b, T)
  <2>1. ASSUME NEW t \in T PROVE \E k \in DOMAIN s : s[k].index = b.tools[t].index
    <3>1. PICK k \in DOMAIN o : o[k] = t
      BY <1>2
    <3>2. s[k].index = b.tools[t].index
      BY <1>5, <3>1
    <3> QED
      BY <1>3, <3>2
  <2> QED
    BY <1>7, <2>1 DEF IndexesIn, ToolIndexes
<1> QED
  BY <1>3, <1>5, <1>6, <1>7, <1>8, <1>9 DEF s, AreEach

\* The client after such events brought arguments.
Argued(c, args, I) ==
    [stage |-> c.stage, open |-> c.open, used |-> c.used,
     broken |-> IF args = "whole" THEN c.broken \ I ELSE c.broken \union I]

LEMMA DeltasReach ==
    ASSUME NEW c, IsClient(c), NEW S, NEW s \in Seq(S), NEW args \in {"part", "whole"},
           \A k \in DOMAIN s :
               /\ s[k].event = "content_block_delta"
               /\ s[k].kind = "tool_use" /\ s[k].args = args
               /\ <<s[k].index, "tool_use">> \in c.open /\ s[k].index \in c.used
    PROVE  Reaches({}, c, s, Argued(c, args, IndexesIn(s)))
<1> DEFINE upTo(k) == {s[j].index : j \in 1 .. k}
           p == [k \in 0 .. Len(s) |-> Argued(c, args, upTo(k))]
<1>1. Len(s) \in Nat /\ DOMAIN s = 1 .. Len(s)
  BY LenProperties
<1>2. \A k \in 0 .. Len(s) : p[k] = Argued(c, args, upTo(k))
  OBVIOUS
<1> HIDE DEF p
<1>3. p[0] = c
  <2>1. upTo(0) = {} /\ 0 \in 0 .. Len(s)
    BY <1>1
  <2> HIDE DEF upTo
  <2>2. Argued(c, args, {}) = c
    BY DEF Argued, IsClient
  <2> QED
    BY <1>2, <2>1, <2>2
<1>4. ASSUME NEW k \in 1 .. Len(s)
      PROVE  Proper({}, p[k - 1], s[k]) /\ p[k] = Took(p[k - 1], s[k])
  <2>1. k - 1 \in 0 .. Len(s) /\ k \in 0 .. Len(s) /\ k \in DOMAIN s
    BY <1>1
  <2>2. upTo(k) = upTo(k - 1) \union {s[k].index}
    <3>1. \A j : j \in 1 .. k <=> j \in 1 .. k - 1 \/ j = k
      BY <1>1
    <3> QED
      BY <3>1, Zenon
  <2>3. p[k - 1] = Argued(c, args, upTo(k - 1)) /\ p[k] = Argued(c, args, upTo(k))
    BY <1>2, <2>1
  <2>4. /\ s[k].event = "content_block_delta"
        /\ s[k].kind = "tool_use" /\ s[k].args = args
        /\ <<s[k].index, "tool_use">> \in c.open /\ s[k].index \in c.used
    BY <2>1
  <2> HIDE DEF upTo
  <2>5. p[k] = Took(p[k - 1], s[k])
    <3>1. CASE args = "whole"
      <4>1. (c.broken \ upTo(k - 1)) \ {s[k].index} = c.broken \ upTo(k)
        BY <2>2
      <4>2. Took(p[k - 1], s[k])
              = [stage |-> c.stage, open |-> c.open, used |-> c.used,
                 broken |-> (c.broken \ upTo(k - 1)) \ {s[k].index}]
        BY <2>3, <2>4, <3>1 DEF Argued, Took
      <4> QED
        BY <2>3, <3>1, <4>1, <4>2 DEF Argued
    <3>2. CASE args = "part"
      <4>1. (c.broken \union upTo(k - 1)) \union {s[k].index} = c.broken \union upTo(k)
        BY <2>2
      <4>2. Took(p[k - 1], s[k])
              = [stage |-> c.stage, open |-> c.open, used |-> c.used,
                 broken |-> (c.broken \union upTo(k - 1)) \union {s[k].index}]
        BY <2>3, <2>4, <3>2 DEF Argued, Took
      <4> QED
        BY <2>3, <3>2, <4>1, <4>2 DEF Argued
    <3> QED
      BY <3>1, <3>2
  <2> QED
    BY <2>3, <2>4, <2>5 DEF Argued, Proper, Contract!Allowed
<1>5. upTo(Len(s)) = IndexesIn(s) /\ Len(s) \in 0 .. Len(s)
  BY <1>1 DEF IndexesIn
<1> HIDE DEF upTo
<1>6. p[Len(s)] = Argued(c, args, IndexesIn(s))
  BY <1>2, <1>5
<1> QED
  BY <1>3, <1>4, <1>6 DEF Path, Reaches

LEMMA ShowingTool ==
    ASSUME NEW n, NEW b, Building(n, b), NEW t \in Chat!Started(b)
    PROVE  <<b.tools[t].index, "tool_use">> \in Showing(b).open
           /\ b.tools[t].index \in Showing(b).used
  BY StartedFacts DEF Showing, ToolsOf

\* emit_tool_delta
LEMMA EmitToolDeltasBuilds ==
    ASSUME NEW n, NEW c, NEW b, Builds(n, c, b), NEW T, Calls(b, T),
           NEW args \in {"part", "whole"}
    PROVE  /\ Builds(n, c, Chat!EmitToolDeltas(b, T, args))
           /\ \A t \in Tools :
                  Chat!EmitToolDeltas(b, T, args).tools[t].index = b.tools[t].index
           /\ \A t \in Tools :
                  Chat!EmitToolDeltas(b, T, args).tools[t].sent
                      = IF t \in T THEN args ELSE b.tools[t].sent
           /\ Chat!EmitToolDeltas(b, T, args).next_index = b.next_index
<1> DEFINE a == Chat!EmitToolDeltas(b, T, args)
           s == Each(b, T, "content_block_delta", args)
           tools == [t \in Tools |-> IF t \in T
                                     THEN [b.tools[t] EXCEPT !.sent = args, !.waiting = "none"]
                                     ELSE b.tools[t]]
<1>0. Building(n, b) /\ b \in BuilderOf(n) /\ b.events \in Seq(Sendable(TRUE, n))
  BY DEF Builds, Building, Sends
<1>1. a = [b EXCEPT !.events = b.events \o s, !.tools = tools]
  <2>1. Chat!EmitEach(b, T, "content_block_delta", args) = [b EXCEPT !.events = b.events \o s]
    BY <1>0, EmitEachMade
  <2> HIDE DEF s
  <2>2. a = [[b EXCEPT !.events = b.events \o s] EXCEPT !.tools = tools]
    BY <2>1 DEF Chat!EmitToolDeltas
  <2> HIDE DEF tools, a
  <2> QED
    BY <1>0, <2>2 DEF BuilderOf
<1>2. AreEach(s, n, "content_block_delta", args, ToolIndexes(b, T))
  <2>1. "content_block_delta" \in Names /\ args \in Args
    BY DEF Names, Args
  <2> QED
    BY <1>0, <2>1, EachFacts
<1>3. /\ \A t \in Tools : tools[t].index = b.tools[t].index /\ tools[t] \in ToolOf
      /\ \A t \in Tools : tools[t].sent = IF t \in T THEN args ELSE b.tools[t].sent
      /\ tools \in [Tools -> ToolOf]
  <2>1. \A t \in Tools : b.tools[t] \in ToolOf
    BY <1>0, BuilderFacts
  <2>2. \A t \in Tools : /\ tools[t].index = b.tools[t].index /\ tools[t] \in ToolOf
                         /\ tools[t].sent = IF t \in T THEN args ELSE b.tools[t].sent
    BY <2>1 DEF ToolOf, Args
  <2> HIDE DEF tools
  <2>3. tools = [t \in Tools |-> tools[t]]
    BY DEF tools
  <2> QED
    BY <2>2, <2>3
<1> HIDE DEF a, s, tools
<1>4. /\ a.next_index = b.next_index /\ a.text_index = b.text_index
      /\ a.thinking_index = b.thinking_index /\ a.text_started = b.text_started
      /\ a.thinking_started = b.thinking_started /\ a.tools = tools
      /\ a.events = b.events \o s
  BY <1>0, <1>1 DEF BuilderOf
<1>5. Sends({}, TRUE, n, Showing(b), s, Argued(Showing(b), args, ToolIndexes(b, T)))
  <2>1. \A i \in ToolIndexes(b, T) :
            <<i, "tool_use">> \in Showing(b).open /\ i \in Showing(b).used
    BY <1>0, ShowingTool DEF ToolIndexes, Calls
  <2>2. IsClient(Showing(b))
    BY DEF IsClient, Showing
  <2>3. Reaches({}, Showing(b), s, Argued(Showing(b), args, IndexesIn(s)))
    <3> HIDE DEF s
    <3> QED
      BY <1>2, <2>1, <2>2, DeltasReach DEF AreEach
  <2> QED
    BY <1>2, <2>3 DEF Sends, AreEach
<1>6. Sends({}, TRUE, n, c, a.events, Argued(Showing(b), args, ToolIndexes(b, T)))
  BY <1>4, <1>5, SendsConcat DEF Builds
<1>7. a \in BuilderOf(n)
  <2>1. b.events \o s \in Seq(Sendable(TRUE, n))
    BY <1>0, <1>2, ConcatProperties DEF AreEach
  <2> QED
    BY <1>0, <1>1, <1>3, <2>1 DEF BuilderOf
<1>8. Chat!Started(a) = Chat!Started(b)
  BY <1>3, <1>4 DEF Chat!Started
<1>9. Building(n, a)
  <2>1. \A t \in Tools : a.tools[t].index < a.next_index
    BY <1>0, <1>3, <1>4 DEF Building
  <2>2. \A t \in Tools : a.tools[t].index = -1 => a.tools[t].sent # "whole"
    <3> SUFFICES ASSUME NEW t \in Tools, b.tools[t].index = -1
                 PROVE  a.tools[t].sent # "whole"
      BY <1>3, <1>4
    <3>1. t \notin T /\ b.tools[t].sent # "whole"
      BY <1>0 DEF Building, Chat!Started, Calls
    <3> QED
      BY <1>3, <1>4, <3>1
  <2>3. \A t, u \in Chat!Started(a) : a.tools[t].index = a.tools[u].index => t = u
    <3>1. \A t \in Chat!Started(b) : a.tools[t].index = b.tools[t].index
      BY <1>3, <1>4 DEF Chat!Started
    <3> QED
      BY <1>0, <1>8, <3>1 DEF Building
  <2>4. \A t \in Chat!Started(a) :
            /\ a.text_started => a.tools[t].index # a.text_index
            /\ a.thinking_started => a.tools[t].index # a.thinking_index
    <3>1. \A t \in Chat!Started(b) : a.tools[t].index = b.tools[t].index
      BY <1>3, <1>4 DEF Chat!Started
    <3> QED
      BY <1>0, <1>4, <1>8, <3>1 DEF Building
  <2> QED
    BY <1>0, <1>4, <1>7, <2>1, <2>2, <2>3, <2>4 DEF Building
<1>10. Argued(Showing(b), args, ToolIndexes(b, T)) = Showing(a)
  <2>1. TextOf(a) = TextOf(b) /\ ThinkingOf(a) = ThinkingOf(b) /\ UsedOf(a) = UsedOf(b)
    BY <1>4 DEF TextOf, ThinkingOf, UsedOf
  <2>2. \A t \in Chat!Started(b) : t \in Tools /\ a.tools[t].index = b.tools[t].index
    BY <1>3, <1>4 DEF Chat!Started
  <2>3. ToolsOf(a) = ToolsOf(b)
    BY <1>8, <2>2 DEF ToolsOf
  <2>4. Chat!Unrepaired(a)
          = IF args = "whole" THEN Chat!Unrepaired(b) \ T ELSE Chat!Unrepaired(b) \union T
    <3>1. \A t \in Chat!Started(b) : a.tools[t].sent = IF t \in T THEN args ELSE b.tools[t].sent
      BY <1>3, <1>4, <2>2
    <3>2. CASE args = "whole"
      BY <1>8, <3>1, <3>2 DEF Chat!Unrepaired
    <3>3. CASE args = "part"
      BY <1>8, <3>1, <3>3 DEF Chat!Unrepaired, Calls
    <3> QED
      BY <3>2, <3>3
  <2>5. BrokenOf(a) = IF args = "whole" THEN BrokenOf(b) \ ToolIndexes(b, T)
                      ELSE BrokenOf(b) \union ToolIndexes(b, T)
    <3>1. Chat!Unrepaired(b) \subseteq Chat!Started(b)
      BY DEF Chat!Unrepaired
    <3>2. \A t, u \in Chat!Started(b) : b.tools[t].index = b.tools[u].index => t = u
      BY <1>0 DEF Building
    <3>3. BrokenOf(a) = {b.tools[t].index : t \in Chat!Unrepaired(a)}
      <4>1. \A t \in Chat!Unrepaired(a) : a.tools[t].index = b.tools[t].index
        BY <1>8, <2>2 DEF Chat!Unrepaired
      <4> HIDE DEF a
      <4> QED
        BY <4>1 DEF BrokenOf
    <3>4. CASE args = "whole"
      <4>1. Chat!Unrepaired(a) = Chat!Unrepaired(b) \ T
        BY <2>4, <3>4
      <4>2. \A t \in Chat!Unrepaired(b) \ T : b.tools[t].index \notin ToolIndexes(b, T)
        BY <3>1, <3>2 DEF ToolIndexes, Calls
      <4> QED
        BY <3>3, <3>4, <4>1, <4>2 DEF BrokenOf, ToolIndexes
    <3>5. CASE args = "part"
      <4>1. Chat!Unrepaired(a) = Chat!Unrepaired(b) \union T
        BY <2>4, <3>5
      <4> HIDE DEF a
      <4>2. BrokenOf(a) = BrokenOf(b) \union ToolIndexes(b, T)
        BY <3>3, <4>1 DEF BrokenOf, ToolIndexes
      <4> QED
        BY <3>5, <4>2
    <3> QED
      BY <3>4, <3>5
  <2> QED
    BY <2>1, <2>3, <2>5 DEF Argued, Showing
<1> QED
  BY <1>3, <1>4, <1>6, <1>9, <1>10 DEF Builds, a

\* What else is noted of a call.
Noted(b, t, x) == [b EXCEPT !.tools = [b.tools EXCEPT ![t] = x]]

LEMMA NotedBuilds ==
    ASSUME NEW n, NEW c, NEW b, Builds(n, c, b), NEW t \in Tools, NEW x \in ToolOf,
           x.index = b.tools[t].index, x.sent = b.tools[t].sent
    PROVE  Builds(n, c, Noted(b, t, x)) /\ Noted(b, t, x).tools[t] = x
<1> DEFINE a == Noted(b, t, x)
<1>0. Building(n, b) /\ b \in BuilderOf(n)
  BY DEF Builds, Building
<1>1. /\ a.next_index = b.next_index /\ a.text_index = b.text_index
      /\ a.thinking_index = b.thinking_index /\ a.text_started = b.text_started
      /\ a.thinking_started = b.thinking_started
      /\ a.tools = [b.tools EXCEPT ![t] = x]
      /\ a.events = b.events
  BY <1>0 DEF BuilderOf, Noted
<1>2. /\ a.tools[t] = x /\ a.tools \in [Tools -> ToolOf]
      /\ \A u \in Tools : a.tools[u].index = b.tools[u].index
      /\ \A u \in Tools : a.tools[u].sent = b.tools[u].sent
  <2>1. b.tools \in [Tools -> ToolOf]
    BY <1>0 DEF BuilderOf
  <2>2. \A u \in Tools : a.tools[u] = IF u = t THEN x ELSE b.tools[u]
    BY <1>1, <2>1
  <2>3. a.tools \in [Tools -> ToolOf]
    BY <1>1, <2>1
  <2> QED
    BY <2>2, <2>3
<1>3. a \in BuilderOf(n)
  <2>1. a = [b EXCEPT !.tools = a.tools]
    BY <1>1 DEF Noted
  <2> HIDE DEF a
  <2> QED
    BY <1>0, <1>2, <2>1 DEF BuilderOf
<1> HIDE DEF a
<1>4. Chat!Started(a) = Chat!Started(b) /\ \A u \in Chat!Started(b) : u \in Tools
  BY <1>2 DEF Chat!Started
<1>5. Building(n, a)
  <2>1. \A u \in Tools : a.tools[u].index < a.next_index
    BY <1>0, <1>1, <1>2 DEF Building
  <2>2. \A u \in Tools : a.tools[u].index = -1 => a.tools[u].sent # "whole"
    BY <1>0, <1>2 DEF Building
  <2>3. \A u, w \in Chat!Started(a) : a.tools[u].index = a.tools[w].index => u = w
    BY <1>0, <1>2, <1>4 DEF Building
  <2>4. \A u \in Chat!Started(a) :
            /\ a.text_started => a.tools[u].index # a.text_index
            /\ a.thinking_started => a.tools[u].index # a.thinking_index
    BY <1>0, <1>1, <1>2, <1>4 DEF Building
  <2> QED
    BY <1>0, <1>1, <1>3, <2>1, <2>2, <2>3, <2>4 DEF Building
<1>6. Showing(a) = Showing(b)
  <2>1. TextOf(a) = TextOf(b) /\ ThinkingOf(a) = ThinkingOf(b) /\ UsedOf(a) = UsedOf(b)
    BY <1>1 DEF TextOf, ThinkingOf, UsedOf
  <2>2. ToolsOf(a) = ToolsOf(b)
    BY <1>2, <1>4 DEF ToolsOf
  <2>3. Chat!Unrepaired(a) = Chat!Unrepaired(b)
        /\ \A u \in Chat!Unrepaired(b) : u \in Tools
    BY <1>2, <1>4 DEF Chat!Unrepaired
  <2>4. BrokenOf(a) = BrokenOf(b)
    BY <1>2, <2>3 DEF BrokenOf
  <2> QED
    BY <2>1, <2>2, <2>4 DEF Showing
<1> QED
  BY <1>0, <1>1, <1>2, <1>5, <1>6 DEF Builds, a

\* _emit_tool_arg_delta
LEMMA SendArgsBuilds ==
    ASSUME NEW n, NEW c, NEW b, Builds(n, c, b), NEW t, t \in Chat!Started(b),
           NEW args, args \in Args
    PROVE  /\ Builds(n, c, Chat!SendArgs(b, t, args))
           /\ t \in Chat!Started(Chat!SendArgs(b, t, args))
<1>0. Building(n, b) /\ b \in BuilderOf(n) /\ t \in Tools /\ b.tools[t] \in ToolOf
  BY BuilderFacts DEF Builds, Chat!Started
<1>1. CASE args = "none"
  BY <1>1 DEF Chat!SendArgs
<1>2. CASE args # "none" /\ t \in Buffered /\ args # "whole"
  <2> DEFINE x == [b.tools[t] EXCEPT !.waiting = args]
             a == Noted(b, t, x)
  <2>1. Chat!SendArgs(b, t, args) = a
    BY <1>0, <1>2 DEF Chat!SendArgs, Noted
  <2>2. x \in ToolOf /\ x.index = b.tools[t].index /\ x.sent = b.tools[t].sent
    BY <1>0 DEF ToolOf
  <2> HIDE DEF x
  <2>3. Builds(n, c, Noted(b, t, x)) /\ Noted(b, t, x).tools[t] = x
    BY <1>0, <2>2, NotedBuilds
  <2> QED
    BY <1>0, <2>1, <2>2, <2>3 DEF Chat!Started
<1>3. CASE args # "none" /\ ~(t \in Buffered /\ args # "whole")
  <2>1. Chat!SendArgs(b, t, args) = Chat!EmitToolDeltas(b, {t}, args)
    BY <1>3 DEF Chat!SendArgs, Chat!EmitToolDelta
  <2>2. Calls(b, {t}) /\ args \in {"part", "whole"}
    BY <1>3 DEF Calls, Args
  <2>3. /\ Builds(n, c, Chat!EmitToolDeltas(b, {t}, args))
        /\ Chat!EmitToolDeltas(b, {t}, args).tools[t].index = b.tools[t].index
    BY <1>0, <2>2, EmitToolDeltasBuilds
  <2> QED
    BY <1>0, <2>1, <2>3 DEF Chat!Started
<1> QED
  BY <1>1, <1>2, <1>3

\* _process_tool_call
LEMMA ProcessToolCallBuilds ==
    ASSUME NEW n, NEW c, NEW b, Builds(n, c, b), NEW t \in Tools, NEW named \in BOOLEAN,
           NEW args \in Args
    PROVE  Builds(n, c, Chat!ProcessToolCall(b, t, named, args))
<1> DEFINE x == [b.tools[t] EXCEPT !.named = @ \/ named]
           m == [b EXCEPT !.tools[t].named = @ \/ named]
<1>0. Building(n, b) /\ b \in BuilderOf(n) /\ b.tools[t] \in ToolOf
  BY BuilderFacts DEF Builds
<1>1. Chat!ProcessToolCall(b, t, named, args)
        = IF b.tools[t].index >= 0 THEN Chat!SendArgs(m, t, args)
          ELSE IF ~m.tools[t].named
               THEN [m EXCEPT !.tools[t].waiting = IF args = "none" THEN @ ELSE args]
               ELSE Chat!SendArgs(Chat!SendArgs(Chat!StartTool(m, t), t, b.tools[t].waiting),
                                  t, args)
  BY DEF Chat!ProcessToolCall
<1>2. x \in ToolOf /\ x.index = b.tools[t].index /\ x.sent = b.tools[t].sent
  BY <1>0 DEF ToolOf
<1>4. m = Noted(b, t, x)
  BY <1>0 DEF BuilderOf, Noted
<1> HIDE DEF x, m
<1>3. Builds(n, c, m) /\ m.tools[t] = x
  <2>1. Builds(n, c, Noted(b, t, x)) /\ Noted(b, t, x).tools[t] = x
    BY <1>2, NotedBuilds
  <2> QED
    BY <1>4, <2>1
<1>5. CASE b.tools[t].index >= 0
  <2>1. t \in Chat!Started(m)
    BY <1>2, <1>3, <1>5 DEF Chat!Started
  <2> QED
    BY <1>1, <1>3, <1>5, <2>1, SendArgsBuilds
<1>6. CASE ~(b.tools[t].index >= 0) /\ ~m.tools[t].named
  <2> DEFINE y == [x EXCEPT !.waiting = IF args = "none" THEN @ ELSE args]
  <2>1. Chat!ProcessToolCall(b, t, named, args) = Noted(m, t, y)
    BY <1>1, <1>3, <1>6 DEF Noted
  <2>2. y \in ToolOf /\ y.index = x.index /\ y.sent = x.sent
    BY <1>2 DEF ToolOf
  <2> HIDE DEF y
  <2>3. Builds(n, c, Noted(m, t, y))
    BY <1>3, <2>2, NotedBuilds
  <2> QED
    BY <2>1, <2>3
<1>7. CASE ~(b.tools[t].index >= 0) /\ m.tools[t].named
  <2> DEFINE s == Chat!StartTool(m, t)
             w == Chat!SendArgs(s, t, b.tools[t].waiting)
  <2>1. m.tools[t].index = -1
    BY <1>0, <1>2, <1>3, <1>7 DEF ToolOf
  <2>2. Builds(n, c, s) /\ t \in Chat!Started(s)
    BY <1>3, <2>1, StartToolBuilds
  <2>3. b.tools[t].waiting \in Args
    BY <1>0 DEF ToolOf
  <2> HIDE DEF s
  <2>4. Builds(n, c, w) /\ t \in Chat!Started(w)
    BY <2>2, <2>3, SendArgsBuilds
  <2> HIDE DEF w
  <2>5. Builds(n, c, Chat!SendArgs(w, t, args))
    BY <2>4, SendArgsBuilds
  <2> QED
    BY <1>1, <1>7, <2>5 DEF s, w
<1> QED
  BY <1>5, <1>6, <1>7

-----------------------------------------------------------------------------
(***************************************************************************)
(* Blocks that are opened and closed at once, and the end of the message.  *)
(***************************************************************************)
Leads(n, c, b, d) == Building(n, b) /\ Sends({}, TRUE, n, c, b.events, d)

\* close_content_blocks
LEMMA CloseContentBuilds ==
    ASSUME NEW n, NEW c, NEW b, Builds(n, c, b)
    PROVE  /\ Builds(n, c, Chat!CloseContentBlocks(b))
           /\ ~Chat!CloseContentBlocks(b).text_started
           /\ ~Chat!CloseContentBlocks(b).thinking_started
           /\ Chat!CloseContentBlocks(b).tools = b.tools
           /\ Chat!CloseContentBlocks(b).next_index = b.next_index
<1> DEFINE s == Chat!StopThinking(b)
<1>1. /\ Builds(n, c, s) /\ ~s.thinking_started /\ s.tools = b.tools
      /\ s.next_index = b.next_index
  BY StopThinkingBuilds
<1>2. Chat!CloseContentBlocks(b) = Chat!StopText(s)
  BY DEF Chat!CloseContentBlocks
<1> HIDE DEF s
<1>3. /\ Builds(n, c, Chat!StopText(s)) /\ ~Chat!StopText(s).text_started
      /\ Chat!StopText(s).thinking_started = s.thinking_started
      /\ Chat!StopText(s).tools = s.tools
      /\ Chat!StopText(s).next_index = s.next_index
  BY <1>1, StopTextBuilds
<1> QED
  BY <1>1, <1>2, <1>3

\* More events, and maybe more indexes.
Grown(b, s, i) == [b EXCEPT !.events = s, !.next_index = i]

LEMMA GrownBuilding ==
    ASSUME NEW n, NEW b, Building(n, b), NEW s \in Seq(Sendable(TRUE, n)),
           NEW i \in Nat, b.next_index <= i
    PROVE  Building(n, Grown(b, s, i))
<1> DEFINE a == Grown(b, s, i)
<1>1. b \in BuilderOf(n)
  BY DEF Building
<1>2. a \in BuilderOf(n)
  BY <1>1 DEF BuilderOf, Grown
<1>3. /\ a.next_index = i /\ a.text_index = b.text_index
      /\ a.thinking_index = b.thinking_index /\ a.text_started = b.text_started
      /\ a.thinking_started = b.thinking_started /\ a.tools = b.tools
  BY <1>1 DEF BuilderOf, Grown
<1> HIDE DEF a
<1>4. a.text_index < a.next_index /\ a.thinking_index < a.next_index
  BY <1>3, BuilderFacts DEF Building
<1>5. \A t \in Tools : a.tools[t].index < a.next_index
  BY <1>3, BuilderFacts DEF Building
<1>6. Building(n, a)
  BY <1>2, <1>3, <1>4, <1>5 DEF Building, Chat!Started
<1> QED
  BY <1>6 DEF a

LEMMA PlainLeads ==
    ASSUME NEW n, NEW c, NEW b, NEW d, Leads(n, c, b, d),
           NEW name, name \in {"error", "message_delta", "message_stop"},
           Contract!Allowed(d, PlainEvent(name, b.attempt))
    PROVE  /\ Leads(n, c, Chat!EmitPlain(b, name), Took(d, PlainEvent(name, b.attempt)))
           /\ Chat!EmitPlain(b, name).attempt = b.attempt
<1> DEFINE e == PlainEvent(name, b.attempt)
<1>1. Building(n, b) /\ b \in BuilderOf(n) /\ OfAttempt(b.attempt, n) /\ b.next_index \in Nat
  BY BuilderFacts DEF Leads
<1>2. e \in Sendable(TRUE, n)
  BY <1>1, PlainSendable DEF Names
<1>3. Proper({}, d, e)
  BY DEF Proper, PlainEvent, Event
<1>4. Chat!EmitPlain(b, name) = [b EXCEPT !.events = Append(b.events, e)]
  BY DEF Chat!EmitPlain, Chat!Emit, Chat!Event, PlainEvent, Event
<1> HIDE DEF e
<1>5. /\ Append(b.events, e) \in Seq(Sendable(TRUE, n))
      /\ Sends({}, TRUE, n, c, Append(b.events, e), Took(d, e))
  BY <1>2, <1>3, SendsMore DEF Leads
<1> DEFINE a == [b EXCEPT !.events = Append(b.events, e)]
<1>6. a = [b EXCEPT !.events = Append(b.events, e), !.next_index = b.next_index]
  BY <1>1 DEF BuilderOf
<1>7. Building(n, Grown(b, Append(b.events, e), b.next_index))
  <2>1. b.next_index <= b.next_index
    BY <1>1
  <2> QED
    BY <1>1, <1>5, <2>1, GrownBuilding
<1>8. a.events = Append(b.events, e) /\ a.attempt = b.attempt
  BY <1>1 DEF BuilderOf
<1> HIDE DEF a
<1>9. Building(n, a)
  BY <1>6, <1>7 DEF Grown
<1> QED
  BY <1>4, <1>5, <1>8, <1>9 DEF Leads, a, e

\* message_delta and message_stop
LEMMA EndLeads ==
    ASSUME NEW n, NEW c, NEW b, NEW used, used # {}, NEW unfinished,
           Leads(n, c, b, [stage |-> "content", open |-> {}, used |-> used,
                           broken |-> unfinished])
    PROVE  Leads(n, c, Chat!EndMessage(b),
                 [stage |-> "stopped", open |-> {}, used |-> used, broken |-> unfinished])
<1> DEFINE d(stage) == [stage |-> stage, open |-> {}, used |-> used, broken |-> unfinished]
           a == Chat!EmitPlain(b, "message_delta")
<1>1. Contract!Allowed(d("content"), PlainEvent("message_delta", b.attempt))
  BY DEF Contract!Allowed, PlainEvent, Event
<1>2. Took(d("content"), PlainEvent("message_delta", b.attempt)) = d("ending")
  BY DEF Took, PlainEvent, Event
<1>3. Leads(n, c, a, Took(d("content"), PlainEvent("message_delta", b.attempt)))
  BY <1>1, PlainLeads
<1>4. Leads(n, c, a, d("ending"))
  BY <1>2, <1>3
<1> HIDE DEF a
<1>5. Contract!Allowed(d("ending"), PlainEvent("message_stop", a.attempt))
  BY DEF Contract!Allowed, PlainEvent, Event
<1>6. Took(d("ending"), PlainEvent("message_stop", a.attempt)) = d("stopped")
  BY DEF Took, PlainEvent, Event
<1>7. Leads(n, c, Chat!EmitPlain(a, "message_stop"),
            Took(d("ending"), PlainEvent("message_stop", a.attempt)))
  BY <1>4, <1>5, PlainLeads
<1> QED
  BY <1>6, <1>7 DEF Chat!EndMessage, a

\* A block with all that goes into it.
WholeBlock(b, kind, args) ==
    Chat!StopBlock(Chat!Emit(Chat!StartBlock(b, kind), "content_block_delta", b.next_index, kind,
                             args),
                   b.next_index, kind)

LEMMA WholeBlockLeads ==
    ASSUME NEW n, NEW c, NEW b, NEW open, NEW unfinished,
           Leads(n, c, b, [stage |-> "content", open |-> open, used |-> UsedOf(b),
                           broken |-> unfinished]),
           \A x \in open : x[1] # b.next_index, b.next_index \notin unfinished,
           NEW kind, NEW args,
           (kind = "text" /\ args = "none") \/ (kind = "tool_use" /\ args = "whole")
    PROVE  /\ Leads(n, c, WholeBlock(b, kind, args),
                    [stage |-> "content", open |-> open,
                     used |-> UsedOf(WholeBlock(b, kind, args)), broken |-> unfinished])
           /\ WholeBlock(b, kind, args).next_index = b.next_index + 1
           /\ WholeBlock(b, kind, args).tools = b.tools
           /\ WholeBlock(b, kind, args).text_started = b.text_started
           /\ WholeBlock(b, kind, args).thinking_started = b.thinking_started
           /\ WholeBlock(b, kind, args).attempt = b.attempt
<1> DEFINE i == b.next_index
           e1 == Event("content_block_start", i, kind, "none", b.attempt)
           e2 == Event("content_block_delta", i, kind, args, b.attempt)
           e3 == Event("content_block_stop", i, kind, "none", b.attempt)
           d0 == [stage |-> "content", open |-> open, used |-> UsedOf(b), broken |-> unfinished]
           d1 == [stage |-> "content", open |-> open \union {<<i, kind>>},
                  used |-> UsedOf(b) \union {i},
                  broken |-> IF kind = "tool_use" THEN unfinished \union {i} ELSE unfinished]
           d2 == [stage |-> "content", open |-> open \union {<<i, kind>>},
                  used |-> UsedOf(b) \union {i}, broken |-> unfinished]
           d3 == [stage |-> "content", open |-> open, used |-> UsedOf(b) \union {i},
                  broken |-> unfinished]
           s == Append(Append(Append(b.events, e1), e2), e3)
           a == [b EXCEPT !.events = s, !.next_index = i + 1]
<1>1. Building(n, b) /\ b \in BuilderOf(n) /\ OfAttempt(b.attempt, n) /\ i \in Nat
      /\ i \notin UsedOf(b) /\ kind \in Contract!Kinds /\ args \in Args
  BY BuilderFacts DEF Leads, UsedOf, Contract!Kinds, Args
<1>2. e1 \in Sendable(TRUE, n) /\ e2 \in Sendable(TRUE, n) /\ e3 \in Sendable(TRUE, n)
  BY <1>1 DEF Event, Sendable, OfAttempt, Names, Args
<1>3. Proper({}, d0, e1) /\ Took(d0, e1) = d1
  BY <1>1 DEF Proper, Contract!Allowed, Took, Event
<1>4. Proper({}, d1, e2)
  BY DEF Proper, Contract!Allowed, Event
<1>5. Took(d1, e2) = d2
  <2>1. (unfinished \union {i}) \ {i} = unfinished
    OBVIOUS
  <2>2. CASE kind = "tool_use" /\ args = "whole"
    BY <2>1, <2>2 DEF Took, Event
  <2>3. CASE kind = "text"
    BY <2>3 DEF Took, Event
  <2> QED
    BY <2>2, <2>3
<1>6. Proper({}, d2, e3)
  BY <1>1 DEF Proper, Contract!Allowed, Event
<1>7. Took(d2, e3) = d3
  <2>1. {x \in open \union {<<i, kind>>} : x[1] # i} = open
    OBVIOUS
  <2> QED
    BY <2>1 DEF Took, Event
<1>8. WholeBlock(b, kind, args) = a
  <2> DEFINE a1 == [b EXCEPT !.events = Append(b.events, e1), !.next_index = i + 1]
             a2 == [b EXCEPT !.events = Append(Append(b.events, e1), e2), !.next_index = i + 1]
  <2>1. Chat!StartBlock(b, kind) = a1
    BY <1>1 DEF Chat!Emit, Chat!StartBlock, BuilderOf, Chat!Event, Event
  <2>2. Chat!Emit(a1, "content_block_delta", i, kind, args) = a2
    BY <1>1 DEF Chat!Emit, BuilderOf, Chat!Event, Event
  <2>3. Chat!StopBlock(a2, i, kind) = a
    BY <1>1 DEF Chat!StopBlock, Chat!Emit, BuilderOf, Chat!Event, Event
  <2> QED
    BY <2>1, <2>2, <2>3 DEF WholeBlock
<1>9. Sends({}, TRUE, n, c, b.events, d0)
  BY DEF Leads
<1> HIDE DEF e1, e2, e3, d0, d1, d2, d3
<1>10. Sends({}, TRUE, n, c, Append(b.events, e1), d1)
  BY <1>2, <1>3, <1>9, SendsMore
<1>11. Sends({}, TRUE, n, c, Append(Append(b.events, e1), e2), d2)
  BY <1>2, <1>4, <1>5, <1>10, SendsMore
<1>12. s \in Seq(Sendable(TRUE, n)) /\ Sends({}, TRUE, n, c, s, d3)
  BY <1>2, <1>6, <1>7, <1>11, SendsMore
<1> HIDE DEF s
<1>13. Building(n, a)
  <2>1. i + 1 \in Nat /\ i <= i + 1
    BY <1>1
  <2>2. Building(n, Grown(b, s, i + 1))
    BY <1>1, <1>12, <2>1, GrownBuilding
  <2> QED
    BY <2>2 DEF Grown
<1>14. /\ a.next_index = i + 1 /\ a.tools = b.tools /\ a.text_started = b.text_started
       /\ a.thinking_started = b.thinking_started /\ a.attempt = b.attempt /\ a.events = s
  BY <1>1 DEF BuilderOf
<1> HIDE DEF a
<1>15. UsedOf(a) = UsedOf(b) \union {i}
  BY <1>1, <1>14 DEF UsedOf
<1>16. Leads(n, c, a, [stage |-> "content", open |-> open, used |-> UsedOf(a),
                       broken |-> unfinished])
  BY <1>12, <1>13, <1>14, <1>15 DEF Leads, d3
<1> QED
  BY <1>8, <1>14, <1>16

\* _iter_heuristic_tool_use_sse
LEMMA HeuristicToolBuilds ==
    ASSUME NEW n, NEW c, NEW b, Builds(n, c, b)
    PROVE  Builds(n, c, Chat!HeuristicTool(b))
<1> DEFINE s == Chat!CloseContentBlocks(b)
           a == WholeBlock(s, "tool_use", "whole")
<1>1. Builds(n, c, s) /\ ~s.text_started /\ ~s.thinking_started
  BY CloseContentBuilds
<1>2. Chat!HeuristicTool(b) = a
  <2>1. s \in BuilderOf(n) /\ s.next_index \in Nat
    BY <1>1, BuilderFacts DEF Builds
  <2> DEFINE u == Chat!StartBlock(s, "tool_use")
  <2>2. u.next_index - 1 = s.next_index
    <3>1. u.next_index = s.next_index + 1
      BY <2>1 DEF Chat!StartBlock, Chat!Emit, BuilderOf
    <3> QED
      BY <2>1, <3>1
  <2>3. Chat!HeuristicTool(b)
          = Chat!StopBlock(Chat!Emit(u, "content_block_delta", u.next_index - 1, "tool_use",
                                     "whole"),
                           u.next_index - 1, "tool_use")
    BY DEF Chat!HeuristicTool
  <2> QED
    BY <2>2, <2>3 DEF WholeBlock
<1> HIDE DEF s
<1>3. /\ Building(n, s) /\ s.next_index \notin BrokenOf(s)
      /\ \A x \in Showing(s).open : x[1] # s.next_index
  <2>1. Building(n, s) /\ "tool_use" \in Contract!Kinds
    BY <1>1 DEF Builds, Contract!Kinds
  <2>2. /\ \A x \in Showing(s).open : x[1] < s.next_index
        /\ s.next_index \in Nat /\ s.next_index \notin BrokenOf(s)
    BY <2>1, StartAllowed
  <2> QED
    BY <2>1, <2>2
<1>4. Leads(n, c, s, [stage |-> "content", open |-> Showing(s).open, used |-> UsedOf(s),
                      broken |-> BrokenOf(s)])
  BY <1>1 DEF Builds, Leads, Showing
<1>5. /\ Leads(n, c, a, [stage |-> "content", open |-> Showing(s).open,
                         used |-> UsedOf(a), broken |-> BrokenOf(s)])
      /\ a.tools = s.tools /\ a.text_started = s.text_started
      /\ a.thinking_started = s.thinking_started
  BY <1>3, <1>4, WholeBlockLeads
<1> HIDE DEF a
<1>6. Showing(a) = [stage |-> "content", open |-> Showing(s).open, used |-> UsedOf(a),
                    broken |-> BrokenOf(s)]
  BY <1>1, <1>5 DEF Showing, TextOf, ThinkingOf, ToolsOf, BrokenOf, Chat!Started,
                    Chat!Unrepaired
<1> QED
  BY <1>2, <1>5, <1>6 DEF Leads, Builds

\* emit_error
LEMMA EmitErrorMade ==
    ASSUME NEW n, NEW b, Building(n, b)
    PROVE  Chat!EmitError(b) = WholeBlock(b, "text", "none")
<1> DEFINE u == Chat!StartBlock(b, "text")
<1>1. b \in BuilderOf(n) /\ b.next_index \in Nat
  BY BuilderFacts
<1>2. u.next_index - 1 = b.next_index
  <2>1. u.next_index = b.next_index + 1
    BY <1>1 DEF Chat!StartBlock, Chat!Emit, BuilderOf
  <2> QED
    BY <1>1, <2>1
<1>3. Chat!EmitError(b)
        = Chat!StopBlock(Chat!Emit(u, "content_block_delta", u.next_index - 1, "text", "none"),
                         u.next_index - 1, "text")
  BY DEF Chat!EmitError, Chat!Delta
<1> QED
  BY <1>2, <1>3 DEF WholeBlock

\* close_all_blocks
LEMMA CloseAllLeads ==
    ASSUME NEW n, NEW c, NEW b, Builds(n, c, b)
    PROVE  /\ Leads(n, c, Chat!CloseAllBlocks(b),
                    [stage |-> "content", open |-> {}, used |-> UsedOf(b),
                     broken |-> BrokenOf(b)])
           /\ Chat!CloseAllBlocks(b).tools = b.tools
           /\ Chat!CloseAllBlocks(b).next_index = b.next_index
<1> DEFINE s == Chat!CloseContentBlocks(b)
           T == Chat!Started(b)
           stops == Each(s, T, "content_block_stop", "none")
           a == Grown(s, s.events \o stops, s.next_index)
<1>1. /\ Builds(n, c, s) /\ ~s.text_started /\ ~s.thinking_started /\ s.tools = b.tools
      /\ s.next_index = b.next_index
  BY CloseContentBuilds
<1>9. Chat!CloseAllBlocks(b) = Chat!EmitEach(s, T, "content_block_stop", "none")
  BY DEF Chat!CloseAllBlocks
<1> HIDE DEF s
<1>2. Building(n, s) /\ s \in BuilderOf(n) /\ s.events \in Seq(Sendable(TRUE, n))
      /\ s.next_index \in Nat
  BY <1>1, BuilderFacts DEF Builds, Sends
<1>3. T = Chat!Started(s) /\ Calls(s, T)
  BY <1>1 DEF Chat!Started, Calls
<1>4. Chat!CloseAllBlocks(b) = a
  <2>1. Chat!EmitEach(s, T, "content_block_stop", "none") = [s EXCEPT !.events = s.events \o stops]
    BY <1>2, EmitEachMade
  <2>2. a = [s EXCEPT !.events = s.events \o stops]
    BY <1>2 DEF Grown, BuilderOf
  <2> QED
    BY <1>9, <2>1, <2>2
<1> HIDE DEF T
<1>5. AreEach(stops, n, "content_block_stop", "none", ToolIndexes(s, T))
  <2>1. "content_block_stop" \in Names /\ "none" \in Args
    BY DEF Names, Args
  <2> QED
    BY <1>2, <1>3, <2>1, EachFacts
<1> HIDE DEF stops
<1>6. Showing(s).open = {<<i, "tool_use">> : i \in ToolIndexes(s, T)}
  BY <1>1, <1>3 DEF Showing, TextOf, ThinkingOf, ToolsOf, ToolIndexes
<1>7. Sends({}, TRUE, n, Showing(s), stops, Stopped(Showing(s), ToolIndexes(s, T)))
  <2>1. IsClient(Showing(s))
    BY DEF IsClient, Showing
  <2>2. \A k \in DOMAIN stops :
            /\ stops[k].event = "content_block_stop"
            /\ \E kind \in Contract!Kinds : <<stops[k].index, kind>> \in Showing(s).open
    BY <1>5, <1>6 DEF AreEach, Contract!Kinds
  <2>3. Reaches({}, Showing(s), stops, Stopped(Showing(s), IndexesIn(stops)))
    BY <1>5, <2>1, <2>2, StopsReach DEF AreEach
  <2> QED
    BY <1>5, <2>3 DEF AreEach, Sends
<1>8. Stopped(Showing(s), ToolIndexes(s, T))
        = [stage |-> "content", open |-> {}, used |-> UsedOf(b), broken |-> BrokenOf(b)]
  <2>1. {x \in Showing(s).open : x[1] \notin ToolIndexes(s, T)} = {}
    BY <1>6
  <2>2. UsedOf(s) = UsedOf(b) /\ BrokenOf(s) = BrokenOf(b)
    BY <1>1 DEF UsedOf, BrokenOf, Chat!Unrepaired, Chat!Started
  <2>3. Showing(s).stage = "content" /\ Showing(s).used = UsedOf(s)
        /\ Showing(s).broken = BrokenOf(s)
    BY DEF Showing
  <2> QED
    BY <2>1, <2>2, <2>3 DEF Stopped
<1>10. Sends({}, TRUE, n, c, s.events \o stops,
             [stage |-> "content", open |-> {}, used |-> UsedOf(b), broken |-> BrokenOf(b)])
  BY <1>1, <1>7, <1>8, SendsConcat DEF Builds
<1>11. Building(n, a)
  <2>1. s.events \o stops \in Seq(Sendable(TRUE, n))
    BY <1>2, <1>5, ConcatProperties DEF AreEach
  <2>2. s.next_index <= s.next_index
    BY <1>2
  <2> QED
    BY <1>2, <2>1, <2>2, GrownBuilding
<1>12. a.events = s.events \o stops /\ a.tools = s.tools /\ a.next_index = s.next_index
  BY <1>2 DEF Grown, BuilderOf
<1> HIDE DEF a
<1> QED
  BY <1>1, <1>4, <1>10, <1>11, <1>12 DEF Leads

\* An index that was given out.
LEMMA SomeIndex ==
    ASSUME NEW n, NEW b, Building(n, b),
           \/ b.text_started \/ b.thinking_started
           \/ b.text_index # -1 \/ Chat!Started(b) # {} \/ b.next_index > 0
    PROVE  b.next_index > 0 /\ UsedOf(b) # {}
<1>1. b \in BuilderOf(n) /\ b.next_index \in Nat
  BY BuilderFacts
<1>2. b.next_index > 0
  <2>1. CASE b.text_started \/ b.thinking_started \/ b.text_index # -1
    <3>1. b.text_index \in Nat \/ b.thinking_index \in Nat
      BY <1>1, <2>1 DEF Building, BuilderOf
    <3> QED
      BY <1>1, <3>1 DEF Building
  <2>2. CASE Chat!Started(b) # {}
    <3>1. PICK t : t \in Chat!Started(b)
      BY <2>2
    <3>2. b.tools[t].index \in UsedOf(b)
      BY <3>1, StartedFacts
    <3> QED
      BY <1>1, <3>2 DEF UsedOf
  <2> QED
    BY <2>1, <2>2
<1>3. 0 \in UsedOf(b)
  BY <1>2 DEF UsedOf
<1> QED
  BY <1>2, <1>3

\* The message is ended, and the tools with it.
LEMMA EndingLeads ==
    ASSUME NEW n, NEW c, NEW b, Builds(n, c, b), b.next_index > 0
    PROVE  Leads(n, c, Chat!EndMessage(Chat!CloseAllBlocks(b)),
                 [stage |-> "stopped", open |-> {}, used |-> UsedOf(b), broken |-> BrokenOf(b)])
<1>1. UsedOf(b) # {}
  BY SomeIndex DEF Builds
<1>2. Leads(n, c, Chat!CloseAllBlocks(b),
            [stage |-> "content", open |-> {}, used |-> UsedOf(b), broken |-> BrokenOf(b)])
  BY CloseAllLeads
<1> QED
  BY <1>1, <1>2, EndLeads

\* The message is ended with an error.
LEMMA ErrorEndingLeads ==
    ASSUME NEW n, NEW c, NEW b, Builds(n, c, b), NEW a, a = Chat!CloseAllBlocks(b)
    PROVE  \E used, unfinished :
               Leads(n, c, Chat!EndMessage(IF Chat!Started(a) # {} THEN Chat!EmitPlain(a, "error")
                                           ELSE Chat!EmitError(a)),
                     [stage |-> "stopped", open |-> {}, used |-> used, broken |-> unfinished])
<1> DEFINE d == [stage |-> "content", open |-> {}, used |-> UsedOf(b), broken |-> BrokenOf(b)]
<1>1. Leads(n, c, a, d) /\ a.tools = b.tools /\ a.next_index = b.next_index
  BY CloseAllLeads
<1>2. Building(n, a) /\ Building(n, b)
  BY <1>1 DEF Leads, Builds
<1>3. CASE Chat!Started(a) # {}
  <2>1. UsedOf(b) # {}
    <3>1. Chat!Started(b) # {}
      BY <1>1, <1>3 DEF Chat!Started
    <3> QED
      BY <1>2, <3>1, SomeIndex
  <2>2. Contract!Allowed(d, PlainEvent("error", a.attempt))
        /\ Took(d, PlainEvent("error", a.attempt)) = d
    BY DEF Contract!Allowed, Took, PlainEvent, Event
  <2> HIDE DEF d
  <2>3. Leads(n, c, Chat!EmitPlain(a, "error"), d)
    <3>1. Leads(n, c, Chat!EmitPlain(a, "error"), Took(d, PlainEvent("error", a.attempt)))
      BY <1>1, <2>2, PlainLeads
    <3> QED
      BY <2>2, <3>1
  <2>4. Leads(n, c, Chat!EndMessage(Chat!EmitPlain(a, "error")),
              [stage |-> "stopped", open |-> {}, used |-> UsedOf(b), broken |-> BrokenOf(b)])
    BY <2>1, <2>3, EndLeads DEF d
  <2> QED
    BY <1>3, <2>4
<1>4. CASE Chat!Started(a) = {}
  <2> DEFINE w == WholeBlock(a, "text", "none")
  <2>1. Chat!EmitError(a) = w
    BY <1>2, EmitErrorMade
  <2>2. UsedOf(a) = UsedOf(b) /\ a.next_index \notin BrokenOf(b)
    <3>1. b.next_index \notin BrokenOf(b)
      <4>1. "text" \in Contract!Kinds
        BY DEF Contract!Kinds
      <4> QED
        BY <1>2, <4>1, StartAllowed
    <3> QED
      BY <1>1, <3>1 DEF UsedOf
  <2>3. Leads(n, c, a, [stage |-> "content", open |-> {}, used |-> UsedOf(a),
                        broken |-> BrokenOf(b)])
    BY <1>1, <2>2
  <2>4. /\ Leads(n, c, w, [stage |-> "content", open |-> {}, used |-> UsedOf(w),
                           broken |-> BrokenOf(b)])
        /\ w.next_index = a.next_index + 1
    BY <2>2, <2>3, WholeBlockLeads
  <2> HIDE DEF w
  <2>5. UsedOf(w) # {}
    <3>1. Building(n, w) /\ w.next_index > 0
      BY <1>2, <2>4, BuilderFacts DEF Leads
    <3> QED
      BY <3>1, SomeIndex
  <2>6. Leads(n, c, Chat!EndMessage(w),
              [stage |-> "stopped", open |-> {}, used |-> UsedOf(w), broken |-> BrokenOf(b)])
    BY <2>4, <2>5, EndLeads
  <2> QED
    BY <1>4, <2>1, <2>6
<1> QED
  BY <1>3, <1>4

-----------------------------------------------------------------------------
(***************************************************************************)
(* What the handlers make of the builder.                                  *)
(***************************************************************************)
LEMMA ThoughtBuilds ==
    ASSUME NEW n, NEW c, NEW b, Builds(n, c, b)
    PROVE  Builds(n, c, Chat!Thought(b))
  BY EmitThinkingBuilds DEF Chat!Thought

LEMMA FlushParsersBuilds ==
    ASSUME NEW n, NEW c, NEW b, Builds(n, c, b)
    PROVE  Builds(n, c, Chat!FlushParsers(b))
<1> DEFINE s == CASE kept = "text" -> Chat!EmitText(b)
                  [] kept = "thinking" -> Chat!Thought(b)
                  [] OTHER -> b
<1>1. Builds(n, c, s)
  BY EmitTextBuilds, ThoughtBuilds
<1>2. Chat!FlushParsers(b) = IF calling THEN Chat!HeuristicTool(s) ELSE s
  BY DEF Chat!FlushParsers
<1> HIDE DEF s
<1> QED
  BY <1>1, <1>2, HeuristicToolBuilds

LEMMA SomeTextBuilds ==
    ASSUME NEW n, NEW c, NEW b, Builds(n, c, b)
    PROVE  Builds(n, c, Chat!SomeText(b)) /\ Chat!SomeText(b).next_index > 0
<1>1. CASE Chat!Started(b) = {} /\ b.text_index = -1
  <2>1. Chat!SomeText(b) = Chat!EmitText(b)
    BY <1>1 DEF Chat!SomeText
  <2>2. Builds(n, c, Chat!EmitText(b)) /\ Chat!EmitText(b).text_started
    BY EmitTextBuilds
  <2> QED
    BY <2>1, <2>2, SomeIndex DEF Builds
<1>2. CASE ~(Chat!Started(b) = {} /\ b.text_index = -1)
  <2>1. Chat!SomeText(b) = b
    BY <1>2 DEF Chat!SomeText
  <2> QED
    BY <1>2, <2>1, SomeIndex DEF Builds
<1> QED
  BY <1>1, <1>2

LEMMA FlushArgsBuilds ==
    ASSUME NEW n, NEW c, NEW b, Builds(n, c, b)
    PROVE  Builds(n, c, Chat!FlushArgs(b)) /\ Chat!FlushArgs(b).next_index = b.next_index
<1> DEFINE T == {t \in Chat!Started(b) : b.tools[t].waiting # "none"}
<1>1. Calls(b, T) /\ "part" \in {"part", "whole"}
  BY DEF Calls
<1>2. Chat!FlushArgs(b) = Chat!EmitToolDeltas(b, T, "part")
  BY DEF Chat!FlushArgs
<1> HIDE DEF T
<1> QED
  BY <1>1, <1>2, EmitToolDeltasBuilds

\* _repair_openai_tool_args: nothing is missing after it.
LEMMA RepairToolsBuilds ==
    ASSUME NEW n, NEW c, NEW b, Builds(n, c, b)
    PROVE  /\ Builds(n, c, Chat!RepairTools(b))
           /\ Chat!RepairTools(b).next_index = b.next_index
           /\ BrokenOf(Chat!RepairTools(b)) = {}
<1> DEFINE T == Chat!Unrepaired(b)
           a == Chat!EmitToolDeltas(b, T, "whole")
<1>1. Calls(b, T) /\ "whole" \in {"part", "whole"}
  BY DEF Calls, Chat!Unrepaired
<1>2. Chat!RepairTools(b) = a
  BY DEF Chat!RepairTools
<1> HIDE DEF T
<1>3. /\ Builds(n, c, a) /\ a.next_index = b.next_index
      /\ \A t \in Tools : a.tools[t].index = b.tools[t].index
      /\ \A t \in Tools : a.tools[t].sent = IF t \in T THEN "whole" ELSE b.tools[t].sent
  BY <1>1, EmitToolDeltasBuilds
<1> HIDE DEF a
<1>4. \A t \in Chat!Started(a) : a.tools[t].sent = "whole"
  <2> SUFFICES ASSUME NEW t \in Chat!Started(a), t \notin T
               PROVE  b.tools[t].sent = "whole"
    BY <1>3 DEF Chat!Started
  <2>1. t \in Chat!Started(b)
    BY <1>3 DEF Chat!Started
  <2> QED
    BY <2>1 DEF T, Chat!Unrepaired
<1>5. Chat!Unrepaired(a) = {}
  BY <1>4 DEF Chat!Unrepaired
<1> QED
  BY <1>2, <1>3, <1>5 DEF BrokenOf

\* What a client has of a message that has only begun.
Blank == [stage |-> "content", open |-> {}, used |-> {}, broken |-> {}]

LEMMA NewBuilderBuilds ==
    ASSUME NEW n \in Nat, NEW k \in {n, -1}
    PROVE  /\ Builds(n, Blank, Chat!NewBuilder(k))
           /\ Showing(Chat!NewBuilder(k)) = Blank
           /\ Chat!NewBuilder(k).events = <<>>
<1> DEFINE b == Chat!NewBuilder(k)
           tools == [t \in Tools |-> Chat!NewTool]
<1>1. b = [next_index |-> 0, text_index |-> -1, thinking_index |-> -1,
           text_started |-> FALSE, thinking_started |-> FALSE,
           tools |-> tools, attempt |-> k, events |-> <<>>]
  BY DEF Chat!NewBuilder
<1>2. /\ \A t \in Tools : tools[t] \in ToolOf /\ tools[t].index = -1
      /\ \A t \in Tools : tools[t].sent = "none"
      /\ tools \in [Tools -> ToolOf]
  BY DEF Chat!NewTool, ToolOf, Args
<1>3. <<>> \in Seq(Sendable(TRUE, n))
  BY EmptySeq
<1> HIDE DEF b, tools
<1>4. b \in BuilderOf(n)
  BY <1>1, <1>2, <1>3 DEF BuilderOf
<1>5. /\ b.next_index = 0 /\ b.text_index = -1 /\ b.thinking_index = -1
      /\ b.text_started = FALSE /\ b.thinking_started = FALSE /\ b.tools = tools
      /\ b.events = <<>>
  BY <1>1
<1>6. Chat!Started(b) = {}
  BY <1>2, <1>5 DEF Chat!Started
<1>7. Building(n, b)
  <2>1. \A t \in Tools : b.tools[t].index < b.next_index /\ b.tools[t].sent # "whole"
    BY <1>2, <1>5
  <2> QED
    BY <1>4, <1>5, <1>6, <2>1 DEF Building
<1>8. Showing(b) = Blank
  <2>1. TextOf(b) = {} /\ ThinkingOf(b) = {} /\ ToolsOf(b) = {} /\ UsedOf(b) = {}
    BY <1>5, <1>6 DEF TextOf, ThinkingOf, ToolsOf, UsedOf
  <2>2. BrokenOf(b) = {}
    BY <1>6 DEF BrokenOf, Chat!Unrepaired
  <2> QED
    BY <2>1, <2>2 DEF Showing, Blank
<1> QED
  BY <1>5, <1>7, <1>8, SendsNothing DEF Builds, b

-----------------------------------------------------------------------------
(***************************************************************************)
(* The inductive invariant of ChatStream: what was handed out and what is  *)
(* held take the client to what the builder shows, as the contract wants   *)
(* it, or, once the generator has returned, to the end of the message.     *)
(***************************************************************************)
ChatTyped ==
    /\ MaxChunks \in Nat
    /\ thinking_enabled \in BOOLEAN
    /\ early_retries \in 0 .. MaxRetries
    /\ chunks \in 0 .. MaxChunks
    /\ kept \in {"none", "text", "thinking"}
    /\ calling \in BOOLEAN /\ finish_reason \in BOOLEAN /\ salvaged \in BOOLEAN
    /\ Building(early_retries, sse) /\ sse.events = <<>>

ChatHanded ==
    /\ DownstreamOK /\ IsWire
    /\ outbox \in Seq(Sendable(TRUE, early_retries))
    /\ held \in Seq(Sendable(TRUE, early_retries))
    /\ outbox # <<>> => held = <<>>
    /\ attempts \subseteq {early_retries}
    /\ ~committed => attempts = {}
    /\ ~committed => outbox \in {<<>>, <<PlainEvent("message_start", 0)>>}
    /\ salvaged => pc = "done"
    /\ gone => pc = "done" /\ outbox = <<>> /\ held = <<>>
    /\ pc = "done" /\ ~gone => committed
    /\ wire.stage \in {"ending", "stopped"} => wire.open = {}
    /\ salvaged /\ wire.stage = "stopped" => broken = {}

ChatLeads(s, d) == Sends({}, TRUE, early_retries, Client, s, d)

ChatClient ==
    /\ ~gone /\ pc # "done" => ChatLeads(outbox \o held, Showing(sse))
    /\ ~gone /\ ~committed => ChatLeads(outbox, Blank)
    /\ ~gone /\ pc = "done" =>
          \E d : /\ ChatLeads(outbox \o held, d)
                 /\ d.stage = "stopped"
                 /\ salvaged => d.broken = {}

ChatInv == ChatTyped /\ ChatHanded /\ ChatClient

\* Nothing comes after the end of a message.
LEMMA NothingAfter ==
    ASSUME NEW n, NEW c, c.stage = "stopped", c.open = {}, NEW s, NEW d,
           Sends({}, TRUE, n, c, s, d)
    PROVE  d = c
<1>1. s \in Seq(Sendable(TRUE, n)) /\ Reaches({}, c, s, d)
  BY DEF Sends
<1>2. s = <<>>
  <2> SUFFICES ASSUME s # <<>> PROVE FALSE
    OBVIOUS
  <2>1. Proper({}, c, Head(s))
    BY <1>1, ReachesTail
  <2> QED
    BY <2>1 DEF Proper, Contract!Allowed
<1> QED
  BY <1>1, <1>2, ReachedNothing

LEMMA ChatInitInv ==
    ASSUME MaxChunks \in Nat, Chat!Init
    PROVE  ChatInv
<1> DEFINE e == PlainEvent("message_start", 0)
           c == [stage |-> "before", open |-> {}, used |-> {}, broken |-> {}]
<1>1. /\ thinking_enabled \in BOOLEAN /\ pc = "opening" /\ early_retries = 0
      /\ chunks = 0 /\ sse = Chat!NewBuilder(0) /\ kept = "none" /\ calling = FALSE
      /\ finish_reason = FALSE /\ salvaged = FALSE
      /\ held = <<>> /\ committed = FALSE /\ outbox = <<e>>
      /\ wire = [stage |-> "before", open |-> {}, used |-> {}, last |-> [event |-> "none"]]
      /\ gone = FALSE /\ attempts = {} /\ broken = {}
  BY DEF Chat!Init, Chat!InitDownstream, Chat!PlainEvent, Chat!Event, PlainEvent, Event,
         Chat!Contract!Nothing
<1>2. Client = c
  BY <1>1 DEF Client
<1>3. e \in Sendable(TRUE, 0)
  <2>1. OfAttempt(0, 0)
    BY DEF OfAttempt
  <2> QED
    BY <2>1, PlainSendable DEF Names
<1>4. Proper({}, c, e) /\ Took(c, e) = Blank
  BY DEF Proper, Contract!Allowed, Took, PlainEvent, Event, Blank
<1> HIDE DEF e, c
<1>5. Sends({}, TRUE, 0, c, <<e>>, Blank)
  BY <1>3, <1>4, SendsOne
<1>6. /\ <<e>> \in Seq(Sendable(TRUE, 0)) /\ <<>> \in Seq(Sendable(TRUE, 0))
      /\ <<e>> \o <<>> = <<e>>
  <2>1. <<e>> \in Seq(Sendable(TRUE, 0))
    BY <1>5 DEF Sends
  <2> QED
    BY <2>1, ConcatEmptySeq, EmptySeq, Zenon
<1>7. Building(0, sse) /\ sse.events = <<>> /\ Showing(sse) = Blank
  <2>1. 0 \in {0, -1} /\ 0 \in Nat
    OBVIOUS
  <2> QED
    BY <1>1, <2>1, NewBuilderBuilds DEF Builds
<1>8. ChatClient
  BY <1>1, <1>2, <1>5, <1>6, <1>7 DEF ChatClient, ChatLeads
<1>9. ChatHanded
  BY <1>1, <1>6 DEF ChatHanded, DownstreamOK, IsWire, e
<1>10. ChatTyped
  <2>1. early_retries \in 0 .. MaxRetries /\ chunks \in 0 .. MaxChunks
    BY <1>1, EventBoundAssumption
  <2>2. calling \in BOOLEAN /\ finish_reason \in BOOLEAN /\ salvaged \in BOOLEAN
    BY <1>1
  <2>3. kept \in {"none", "text", "thinking"} /\ early_retries = 0
    BY <1>1
  <2> QED
    BY <1>1, <1>7, <2>1, <2>2, <2>3, Zenon DEF ChatTyped
<1> QED
  BY <1>8, <1>9, <1>10 DEF ChatInv

-----------------------------------------------------------------------------
(***************************************************************************)
(* Both transports hand events out alike.                                  *)
(***************************************************************************)
LEMMA SameDownstream ==
    /\ Chat!TakeEvent => TakeEvent
    /\ Chat!DownstreamOK <=> DownstreamOK
    /\ \A events : Chat!Hold(events) <=> Hold(events)
<1>1. \A events : Chat!Hold(events) <=> Hold(events)
  BY DEF Chat!Hold, Hold
<1>2. Chat!DownstreamOK <=> DownstreamOK
  BY DEF Chat!DownstreamOK, DownstreamOK, Chat!Contract!Kinds, Contract!Kinds
<1>3. Chat!TakeEvent => TakeEvent
  BY DEF Chat!TakeEvent, TakeEvent, Chat!Contract!Seen, Contract!Seen
<1> QED
  BY <1>1, <1>2, <1>3

\* An event the client takes, for the types alone.
LEMMA TookDownstream ==
    ASSUME DownstreamOK, IsWire, TakeEvent, NEW n, attempts \subseteq {n},
           Head(outbox) \in Sendable(TRUE, n), Proper({}, Client, Head(outbox)),
           wire.stage \in {"ending", "stopped"} => wire.open = {}
    PROVE  /\ DownstreamOK' /\ attempts' \subseteq {n}
           /\ wire'.stage \in {"ending", "stopped"} => wire'.open = {}
<1> DEFINE e == Head(outbox)
<1>1. /\ UNCHANGED <<pc, held, committed, gone>>
      /\ attempts' = (IF e.event = "content_block_delta" /\ e.attempt >= 0
                      THEN attempts \union {e.attempt} ELSE attempts)
  BY DEF TakeEvent
<1>2. /\ e.attempt \in Int /\ (e.attempt >= 0 => e.attempt = n)
      /\ e.event = "content_block_start" => e.index \in Nat /\ e.kind \in Contract!Kinds
  BY DEF Sendable
<1>3. /\ wire'.open = Took(Client, e).open /\ wire'.used = Took(Client, e).used
      /\ broken' = Took(Client, e).broken /\ wire'.stage = Took(Client, e).stage
  <2>1. Client' = Took(Client, e)
    BY TookSeen
  <2>2. Client'.stage = wire'.stage
    BY DEF Client
  <2> QED
    BY <2>1, <2>2, TookSeen
<1>4. Proper({}, Client, e)
  OBVIOUS
<1> HIDE DEF e
<1>5. /\ wire'.open = (CASE e.event = "content_block_start" -> wire.open \union {<<e.index, e.kind>>}
                         [] e.event = "content_block_stop"  -> {b \in wire.open : b[1] # e.index}
                         [] OTHER -> wire.open)
      /\ wire'.used = (IF e.event = "content_block_start" THEN wire.used \union {e.index}
                       ELSE wire.used)
      /\ broken' = (IF e.kind # "tool_use" \/ e.event = "content_block_stop" THEN broken
                    ELSE IF e.args = "whole" THEN broken \ {e.index}
                    ELSE broken \union {e.index})
      /\ wire'.stage = (CASE e.event = "message_start" -> "content"
                          [] e.event = "message_delta" -> "ending"
                          [] e.event = "message_stop"  -> "stopped"
                          [] OTHER -> wire.stage)
  BY <1>3 DEF Took, Client
<1>6. Contract!Allowed(wire, e)
  <2>1. /\ Client.stage = wire.stage /\ Client.open = wire.open /\ Client.used = wire.used
    BY DEF Client
  <2> QED
    BY <1>4, <2>1 DEF Proper, Contract!Allowed
<1>7. /\ wire.open \subseteq Nat \X Contract!Kinds /\ broken \subseteq wire.used
  BY DEF DownstreamOK
<1>8. wire'.open \subseteq Nat \X Contract!Kinds
  <2>1. CASE e.event = "content_block_start"
    <3>1. wire'.open = wire.open \union {<<e.index, e.kind>>}
      BY <1>5, <2>1
    <3> QED
      BY <1>2, <1>7, <2>1, <3>1
  <2>2. CASE e.event # "content_block_start"
    <3>1. wire'.open \subseteq wire.open
      BY <1>5, <2>2
    <3> QED
      BY <1>7, <3>1
  <2> QED
    BY <2>1, <2>2
<1>9. broken' \subseteq wire'.used
  <2>1. e.kind = "tool_use" /\ e.event \notin {"content_block_start", "content_block_stop"}
        => e.index \in wire.used
    BY <1>4 DEF Proper, Client
  <2> QED
    BY <1>5, <1>7, <2>1
<1>10. DownstreamOK'
  BY <1>1, <1>8, <1>9 DEF DownstreamOK
<1>11. attempts' \subseteq {n}
  BY <1>1, <1>2
<1>12. wire'.stage \in {"ending", "stopped"} => wire'.open = {}
  <2> SUFFICES ASSUME wire'.stage \in {"ending", "stopped"} PROVE wire'.open = {}
    OBVIOUS
  <2>1. CASE e.event = "message_delta"
    <3>1. wire.open = {}
      BY <1>6, <2>1 DEF Contract!Allowed
    <3> QED
      BY <1>5, <2>1, <3>1
  <2>2. CASE e.event = "message_stop"
    <3>1. wire.stage = "ending"
      BY <1>6, <2>2 DEF Contract!Allowed
    <3> QED
      BY <1>5, <2>2, <3>1
  <2>3. CASE e.event \notin {"message_delta", "message_stop"}
    <3>1. wire.stage \in {"ending", "stopped"} /\ e.event # "message_start"
      BY <1>5, <2>3
    <3>2. wire.open = {}
      BY <3>1
    <3> QED
      BY <1>6, <2>3, <3>1, <3>2 DEF Contract!Allowed
  <2> QED
    BY <2>1, <2>2, <2>3
<1> QED
  BY <1>10, <1>11, <1>12

-----------------------------------------------------------------------------
(***************************************************************************)
(* The steps of the client.                                                *)
(***************************************************************************)
LEMMA ChatDeliverInv ==
    ASSUME ChatInv, Chat!Deliver
    PROVE  ChatInv' /\ Proper({}, Client, Head(outbox))
<1> DEFINE e == Head(outbox)
           n == early_retries
           S == Sendable(TRUE, n)
<1>1. /\ ~gone /\ outbox # <<>> /\ outbox' = Tail(outbox) /\ TakeEvent
      /\ attempts' = (IF e.event = "content_block_delta" /\ e.attempt >= 0
                      THEN attempts \union {e.attempt} ELSE attempts)
      /\ UNCHANGED <<pc, held, committed, gone, thinking_enabled, early_retries, sse, chunks,
                     kept, calling, finish_reason, salvaged>>
  <2>1. TakeEvent
    BY SameDownstream DEF Chat!Deliver
  <2> QED
    BY <2>1 DEF Chat!Deliver, TakeEvent, Chat!readVars
<1>2. held = <<>> /\ outbox \in Seq(S)
  BY <1>1 DEF ChatInv, ChatHanded
<1>3. e \in S /\ Tail(outbox) \in Seq(S)
  BY <1>1, <1>2, HeadTailProperties
<1>4. outbox \o held = outbox /\ outbox' \o held' = outbox'
  BY <1>1, <1>2, <1>3, ConcatEmptySeq
<1>5. Client' = Took(Client, e) /\ IsWire'
  BY <1>1, TookSeen DEF ChatInv, ChatHanded
<1>6. ASSUME NEW d, ChatLeads(outbox, d)
      PROVE  Proper({}, Client, e) /\ Sends({}, TRUE, n', Client', outbox', d)
  <2>1. Reaches({}, Client, outbox, d)
    BY <1>6 DEF ChatLeads, Sends
  <2>2. Proper({}, Client, e) /\ Reaches({}, Took(Client, e), Tail(outbox), d)
    BY <1>1, <1>2, <2>1, ReachesTail
  <2> QED
    BY <1>1, <1>3, <1>5, <2>2 DEF Sends
<1>7. ASSUME pc # "done" PROVE Proper({}, Client, e)
  <2>1. ChatLeads(outbox, Showing(sse))
    BY <1>1, <1>4, <1>7 DEF ChatInv, ChatClient
  <2> QED
    BY <1>6, <2>1
<1>8. ASSUME pc = "done"
      PROVE  \E d : /\ Proper({}, Client, e)
                    /\ Sends({}, TRUE, n', Client', outbox', d)
                    /\ d.stage = "stopped" /\ (salvaged => d.broken = {})
  <2>1. PICK d : ChatLeads(outbox, d) /\ d.stage = "stopped" /\ (salvaged => d.broken = {})
    BY <1>1, <1>4, <1>8 DEF ChatInv, ChatClient
  <2> QED
    BY <1>6, <2>1
<1>9. Proper({}, Client, e)
  BY <1>7, <1>8
<1>10. ChatClient'
  <2>1. ASSUME pc # "done" PROVE Sends({}, TRUE, n', Client', outbox', Showing(sse'))
    <3>1. ChatLeads(outbox, Showing(sse))
      BY <1>1, <1>4, <2>1 DEF ChatInv, ChatClient
    <3>2. Sends({}, TRUE, n', Client', outbox', Showing(sse))
      BY <1>6, <3>1
    <3> QED
      BY <1>1, <3>2
  <2>2. ASSUME ~committed PROVE Sends({}, TRUE, n', Client', outbox', Blank)
    <3>1. ChatLeads(outbox, Blank)
      BY <1>1, <2>2 DEF ChatInv, ChatClient
    <3> QED
      BY <1>6, <3>1
  <2> QED
    BY <1>1, <1>4, <1>8, <2>1, <2>2 DEF ChatClient, ChatLeads
<1>11. /\ DownstreamOK' /\ attempts' \subseteq {n}
       /\ wire'.stage \in {"ending", "stopped"} => wire'.open = {}
  <2>1. /\ DownstreamOK /\ IsWire /\ attempts \subseteq {n}
        /\ wire.stage \in {"ending", "stopped"} => wire.open = {}
    BY DEF ChatInv, ChatHanded
  <2> QED
    BY <1>1, <1>3, <1>9, <2>1, TookDownstream
<1>12. outbox' \in Seq(S) /\ held' \in Seq(S)
  BY <1>1, <1>2, <1>3, EmptySeq
<1>13. ~committed => attempts' = {} /\ outbox' = <<>>
  <2> SUFFICES ASSUME ~committed PROVE attempts' = {} /\ outbox' = <<>>
    OBVIOUS
  <2> DEFINE x == PlainEvent("message_start", 0)
  <2>1. attempts = {} /\ outbox = <<x>>
    BY <1>1 DEF ChatInv, ChatHanded
  <2>2. x.event = "message_start"
    BY DEF PlainEvent, Event
  <2> HIDE DEF x
  <2>3. Head(<<x>>) = x /\ Tail(<<x>>) = <<>>
    OBVIOUS
  <2> QED
    BY <1>1, <2>1, <2>2, <2>3
<1>14. salvaged /\ wire'.stage = "stopped" => broken' = {}
  <2> SUFFICES ASSUME salvaged, wire'.stage = "stopped" PROVE broken' = {}
    OBVIOUS
  <2>1. pc = "done"
    BY DEF ChatInv, ChatHanded
  <2>2. PICK d : Sends({}, TRUE, n', Client', outbox', d) /\ d.broken = {}
    BY <1>8, <2>1
  <2>3. Client'.stage = "stopped" /\ Client'.open = {} /\ Client'.broken = broken'
    BY <1>11 DEF Client
  <2>4. d = Client'
    BY <2>2, <2>3, NothingAfter
  <2> QED
    BY <2>2, <2>3, <2>4
<1>15. ChatHanded'
  <2>1. /\ salvaged => pc = "done"
        /\ pc = "done" /\ ~gone => committed
    BY DEF ChatInv, ChatHanded
  <2>2. outbox' # <<>> => held' = <<>>
    BY <1>1, <1>2
  <2> HIDE DEF e
  <2> QED
    BY <1>1, <1>5, <1>11, <1>12, <1>13, <1>14, <2>1, <2>2 DEF ChatHanded
<1>16. ChatTyped'
  BY <1>1 DEF ChatInv, ChatTyped, Building, Chat!Started
<1> QED
  BY <1>9, <1>10, <1>15, <1>16 DEF ChatInv

LEMMA ChatDisconnectInv ==
    ASSUME ChatInv, Chat!Disconnect
    PROVE  ChatInv'
<1>1. /\ gone' = TRUE /\ pc' = "done" /\ held' = <<>> /\ outbox' = <<>>
      /\ UNCHANGED <<committed, wire, attempts, broken, thinking_enabled, early_retries, sse,
                     chunks, kept, calling, finish_reason, salvaged>>
  BY DEF Chat!Disconnect, Chat!Disconnects, Chat!readVars
<1>2. ChatClient'
  BY <1>1 DEF ChatClient
<1>3. ChatHanded'
  <2>1. outbox' \in Seq(Sendable(TRUE, early_retries')) /\ held' \in Seq(Sendable(TRUE, early_retries'))
    BY <1>1, EmptySeq
  <2>2. DownstreamOK' /\ IsWire'
    BY <1>1 DEF ChatInv, ChatHanded, DownstreamOK, IsWire
  <2> QED
    BY <1>1, <2>1, <2>2 DEF ChatInv, ChatHanded
<1>4. ChatTyped'
  BY <1>1 DEF ChatInv, ChatTyped, Building, Chat!Started
<1> QED
  BY <1>2, <1>3, <1>4 DEF ChatInv

LEMMA ChatStutterInv ==
    ASSUME ChatInv, UNCHANGED Chat!vars
    PROVE  ChatInv'
<1>1. UNCHANGED <<thinking_enabled, early_retries, sse, chunks, kept, calling, finish_reason,
                  pc, held, committed, outbox, wire, gone, attempts, broken, salvaged>>
  BY DEF Chat!vars, Chat!readVars, Chat!holdVars, Chat!clientVars
<1>2. Client' = Client
  BY <1>1 DEF Client
<1>3. ChatClient'
  BY <1>1, <1>2 DEF ChatInv, ChatClient, ChatLeads
<1>4. ChatHanded'
  BY <1>1 DEF ChatInv, ChatHanded, DownstreamOK, IsWire
<1>5. ChatTyped'
  BY <1>1 DEF ChatInv, ChatTyped, Building, Chat!Started
<1> QED
  BY <1>3, <1>4, <1>5 DEF ChatInv

-----------------------------------------------------------------------------
(***************************************************************************)
(* What the steps of the generator have in common.                         *)
(***************************************************************************)
\* Once its events went into the buffer, a builder shows what it showed.
LEMMA EmptiedBuilding ==
    ASSUME NEW n, NEW b, Building(n, b)
    PROVE  /\ Building(n, [b EXCEPT !.events = <<>>])
           /\ Showing([b EXCEPT !.events = <<>>]) = Showing(b)
           /\ [b EXCEPT !.events = <<>>].events = <<>>
<1> DEFINE a == [b EXCEPT !.events = <<>>]
<1>1. n \in Nat /\ b \in BuilderOf(n)
  BY DEF Building
<1>2. /\ a.next_index = b.next_index /\ a.text_index = b.text_index
      /\ a.thinking_index = b.thinking_index /\ a.text_started = b.text_started
      /\ a.thinking_started = b.thinking_started /\ a.tools = b.tools
      /\ a.events = <<>>
  BY <1>1 DEF BuilderOf
<1>3. a \in BuilderOf(n)
  BY <1>1, EmptySeq DEF BuilderOf
<1> HIDE DEF a
<1>4. Chat!Started(a) = Chat!Started(b)
  BY <1>2 DEF Chat!Started
<1>5. Building(n, a)
  BY <1>1, <1>2, <1>3, <1>4 DEF Building
<1>6. Showing(a) = Showing(b)
  <2>1. /\ TextOf(a) = TextOf(b) /\ ThinkingOf(a) = ThinkingOf(b)
        /\ ToolsOf(a) = ToolsOf(b) /\ UsedOf(a) = UsedOf(b)
    BY <1>2, <1>4 DEF TextOf, ThinkingOf, ToolsOf, UsedOf
  <2>2. BrokenOf(a) = BrokenOf(b)
    BY <1>2, <1>4 DEF BrokenOf, Chat!Unrepaired
  <2> QED
    BY <2>1, <2>2 DEF Showing
<1> QED
  BY <1>2, <1>5, <1>6 DEF a

\* Where the client will be before a step of the generator.
LEMMA ChatStanding ==
    ASSUME ChatInv, NEW place \in {"opening", "reading", "recovering"}, Chat!At(place)
    PROVE  /\ pc = place /\ outbox = <<>> /\ ~gone /\ salvaged = FALSE
           /\ early_retries \in Nat /\ MaxRetries \in Nat
           /\ Builds(early_retries, Showing(sse), sse)
           /\ Sends({}, TRUE, early_retries, Client, held, Showing(sse))
           /\ ~committed => Client = Blank
           /\ wire.stage # "stopped"
<1>1. pc = place /\ outbox = <<>> /\ ~gone /\ pc # "done"
  BY DEF Chat!At
<1>2. salvaged = FALSE
  BY <1>1 DEF ChatInv, ChatHanded, ChatTyped
<1>3. early_retries \in Nat /\ MaxRetries \in Nat
  BY EventBoundAssumption DEF ChatInv, ChatTyped
<1>4. Builds(early_retries, Showing(sse), sse)
  BY SendsNothing DEF ChatInv, ChatTyped, Builds
<1>5. outbox \o held = held
  BY <1>1, ConcatEmptySeq DEF ChatInv, ChatHanded
<1>6. Sends({}, TRUE, early_retries, Client, held, Showing(sse))
  BY <1>1, <1>5 DEF ChatInv, ChatClient, ChatLeads
<1>7. ASSUME ~committed PROVE Client = Blank
  <2>1. Sends({}, TRUE, early_retries, Client, <<>>, Blank)
    BY <1>1, <1>7 DEF ChatInv, ChatClient, ChatLeads
  <2> QED
    BY <2>1, ReachedNothing DEF Sends
<1>8. wire.stage # "stopped"
  <2> SUFFICES ASSUME wire.stage = "stopped" PROVE FALSE
    OBVIOUS
  <2>1. wire.open = {}
    BY DEF ChatInv, ChatHanded
  <2>2. Client.stage = "stopped" /\ Client.open = {}
    BY <2>1 DEF Client
  <2>3. Showing(sse) = Client
    BY <1>6, <2>2, NothingAfter
  <2>4. Showing(sse).stage = "content"
    BY DEF Showing
  <2> QED
    BY <2>2, <2>3, <2>4
<1> QED
  BY <1>1, <1>2, <1>3, <1>4, <1>6, <1>7, <1>8

\* A chunk arrives, and the builder makes events of it.
LEMMA ChunkInv ==
    ASSUME ChatInv, NEW b, Chat!Chunk(b), Builds(early_retries, Showing(sse), b),
           kept' \in {"none", "text", "thinking"}, calling' \in BOOLEAN,
           finish_reason' \in BOOLEAN
    PROVE  ChatInv'
<1> DEFINE n == early_retries
           S == Sendable(TRUE, n)
           shown == Showing(sse)
<1>1. /\ Chat!At("reading") /\ chunks < MaxChunks /\ chunks' = chunks + 1
      /\ Hold(b.events) /\ sse' = [b EXCEPT !.events = <<>>]
      /\ UNCHANGED <<thinking_enabled, pc, early_retries, wire, gone, attempts, broken, salvaged>>
  BY SameDownstream DEF Chat!Chunk, Chat!clientVars
<1>2. /\ pc = "reading" /\ outbox = <<>> /\ ~gone /\ salvaged = FALSE /\ n \in Nat
      /\ Sends({}, TRUE, n, Client, held, shown)
      /\ ~committed => Client = Blank
  BY <1>1, ChatStanding
<1>3. /\ held \in Seq(S) /\ b.events \in Seq(S) /\ committed \in BOOLEAN
      /\ committed => held = <<>>
  BY DEF ChatInv, ChatHanded, DownstreamOK, Builds, Sends
<1>4. /\ outbox' \in Seq(S) /\ held' \in Seq(S) /\ committed' \in BOOLEAN
      /\ outbox' \o held' = held \o b.events
      /\ committed' => held' = <<>>
      /\ ~committed' => ~committed /\ outbox' = <<>>
  <2> HIDE DEF S
  <2> QED
    BY <1>1, <1>2, <1>3, HoldFacts
<1>5. Building(n, b) /\ Sends({}, TRUE, n, shown, b.events, Showing(b))
  BY DEF Builds
<1>6. Building(n, sse') /\ Showing(sse') = Showing(b) /\ sse'.events = <<>>
  BY <1>1, <1>5, EmptiedBuilding
<1> HIDE DEF shown
<1>7. Sends({}, TRUE, n, Client, held \o b.events, Showing(b))
  BY <1>2, <1>5, SendsConcat
<1>8. Client' = Client
  BY <1>1 DEF Client
<1>9. ChatClient'
  <2>1. Sends({}, TRUE, n', Client', outbox' \o held', Showing(sse'))
    BY <1>1, <1>4, <1>6, <1>7, <1>8
  <2>2. ~committed' => Sends({}, TRUE, n', Client', outbox', Blank)
    BY <1>1, <1>2, <1>4, <1>8, SendsNothing
  <2>3. pc' # "done"
    BY <1>1, <1>2
  <2> QED
    BY <2>1, <2>2, <2>3 DEF ChatClient, ChatLeads
<1>10. ChatHanded'
  <2>1. DownstreamOK' /\ IsWire'
    BY <1>1, <1>4 DEF ChatInv, ChatHanded, DownstreamOK, IsWire
  <2>2. outbox' # <<>> => held' = <<>>
    BY <1>4
  <2>3. /\ attempts \subseteq {n} /\ (~committed => attempts = {})
        /\ wire.stage \in {"ending", "stopped"} => wire.open = {}
    BY DEF ChatInv, ChatHanded
  <2> QED
    BY <1>1, <1>2, <1>4, <2>1, <2>2, <2>3 DEF ChatHanded
<1>11. ChatTyped'
  <2>1. Building(n', sse')
    BY <1>1, <1>6
  <2>2. chunks' \in 0 .. MaxChunks
    BY <1>1 DEF ChatInv, ChatTyped
  <2> QED
    BY <1>1, <1>6, <2>1, <2>2 DEF ChatInv, ChatTyped
<1> QED
  BY <1>9, <1>10, <1>11 DEF ChatInv

\* The generator hands everything out that is left, and returns.
LEMMA ChatReturnInv ==
    ASSUME ChatInv, NEW place \in {"opening", "reading", "recovering"}, Chat!At(place),
           NEW b, Chat!Return(b), NEW c, NEW d,
           Sends({}, TRUE, early_retries, Client, held, c),
           Leads(early_retries, c, b, d), d.stage = "stopped",
           salvaged' \in BOOLEAN, salvaged' => d.broken = {}
    PROVE  ChatInv'
<1> DEFINE n == early_retries
           S == Sendable(TRUE, n)
<1>1. /\ outbox' = held \o b.events /\ held' = <<>> /\ committed' = TRUE /\ pc' = "done"
      /\ sse' = [b EXCEPT !.events = <<>>]
      /\ UNCHANGED <<thinking_enabled, early_retries, chunks, kept, calling, finish_reason,
                     wire, gone, attempts, broken>>
  BY DEF Chat!Return, Chat!FlushAndReturn, Chat!readVars, Chat!clientVars
<1>2. ~gone /\ wire.stage # "stopped"
  BY ChatStanding
<1>3. Building(n, b) /\ Sends({}, TRUE, n, c, b.events, d)
  BY DEF Leads
<1>4. Building(n, sse') /\ sse'.events = <<>>
  BY <1>1, <1>3, EmptiedBuilding
<1>5. Sends({}, TRUE, n, Client, outbox', d)
  BY <1>1, <1>3, SendsConcat
<1>6. outbox' \in Seq(S) /\ held' \in Seq(S) /\ outbox' \o held' = outbox'
  <2>1. outbox' \in Seq(S)
    BY <1>5 DEF Sends
  <2> HIDE DEF S
  <2> QED
    BY <1>1, <2>1, EmptySeq, ConcatEmptySeq
<1>7. Client' = Client
  BY <1>1 DEF Client
<1>8. ChatClient'
  <2>1. Sends({}, TRUE, n', Client', outbox' \o held', d)
    BY <1>1, <1>5, <1>6, <1>7
  <2> QED
    BY <1>1, <2>1 DEF ChatClient, ChatLeads
<1>9. ChatHanded'
  <2>1. DownstreamOK' /\ IsWire'
    BY <1>1 DEF ChatInv, ChatHanded, DownstreamOK, IsWire
  <2>2. /\ attempts \subseteq {n}
        /\ wire.stage \in {"ending", "stopped"} => wire.open = {}
    BY DEF ChatInv, ChatHanded
  <2> QED
    BY <1>1, <1>2, <1>6, <2>1, <2>2 DEF ChatHanded
<1>10. ChatTyped'
  <2>1. Building(n', sse')
    BY <1>1, <1>4
  <2> QED
    BY <1>1, <1>4, <2>1 DEF ChatInv, ChatTyped
<1> QED
  BY <1>8, <1>9, <1>10 DEF ChatInv

\* A step that only goes from one place to the next.
LEMMA ChatMoveInv ==
    ASSUME ChatInv, NEW place \in {"opening", "reading"}, Chat!At(place),
           pc' \in {"reading", "recovering"},
           UNCHANGED <<thinking_enabled, early_retries, sse, chunks, kept, calling,
                       finish_reason, held, committed, outbox, wire, gone, attempts, broken,
                       salvaged>>
    PROVE  ChatInv'
<1>1. /\ pc = place /\ outbox = <<>> /\ ~gone /\ pc # "done" /\ pc' # "done"
      /\ salvaged = FALSE
  BY ChatStanding
<1>2. Client' = Client
  BY DEF Client
<1>3. ChatClient'
  BY <1>1, <1>2 DEF ChatInv, ChatClient, ChatLeads
<1>4. ChatHanded'
  BY <1>1 DEF ChatInv, ChatHanded, DownstreamOK, IsWire
<1>5. ChatTyped'
  BY DEF ChatInv, ChatTyped, Building, Chat!Started
<1> QED
  BY <1>3, <1>4, <1>5 DEF ChatInv

-----------------------------------------------------------------------------
(***************************************************************************)
(* The steps of the generator.                                             *)
(***************************************************************************)
LEMMA ReadsInv ==
    ASSUME ChatInv, Chat!Reads
    PROVE  ChatInv'
<1> DEFINE n == early_retries
           c == Showing(sse)
<1>1. Chat!At("reading")
  BY DEF Chat!Reads, Chat!Reasoning, Chat!Think, Chat!Text, Chat!CallBegins, Chat!CallEnds,
         Chat!FinishReason, Chat!Chunk
<1>2. Builds(n, c, sse)
  BY <1>1, ChatStanding
<1>3. /\ kept \in {"none", "text", "thinking"}
      /\ calling \in BOOLEAN /\ finish_reason \in BOOLEAN
  BY DEF ChatInv, ChatTyped
<1>4. CASE Chat!Reasoning
  <2>1. Builds(n, c, Chat!Thought(sse))
    BY <1>2, ThoughtBuilds
  <2>2. Chat!Chunk(Chat!Thought(sse)) /\ UNCHANGED <<kept, calling, finish_reason>>
    BY <1>4 DEF Chat!Reasoning
  <2> QED
    BY <1>3, <2>1, <2>2, ChunkInv
<1>5. CASE Chat!Think
  <2>1. Builds(n, c, Chat!Thought(sse))
    BY <1>2, ThoughtBuilds
  <2>2. /\ Chat!Chunk(Chat!Thought(sse)) \/ Chat!Chunk(sse)
        /\ kept' \in {"none", "text", "thinking"} /\ UNCHANGED <<calling, finish_reason>>
    BY <1>5 DEF Chat!Think
  <2> QED
    BY <1>2, <1>3, <2>1, <2>2, ChunkInv
<1>6. CASE Chat!Text
  <2>1. Builds(n, c, Chat!EmitText(sse))
    BY <1>2, EmitTextBuilds
  <2>2. /\ Chat!Chunk(Chat!EmitText(sse)) \/ Chat!Chunk(sse)
        /\ kept' \in {"none", "text", "thinking"} /\ UNCHANGED <<calling, finish_reason>>
    BY <1>6 DEF Chat!Text
  <2> QED
    BY <1>2, <1>3, <2>1, <2>2, ChunkInv
<1>7. CASE Chat!CallBegins
  <2>1. Chat!Chunk(sse) /\ calling' = TRUE /\ kept' = "none" /\ UNCHANGED finish_reason
    BY <1>7 DEF Chat!CallBegins
  <2> QED
    BY <1>2, <1>3, <2>1, ChunkInv
<1>8. CASE Chat!CallEnds
  <2>1. Builds(n, c, Chat!HeuristicTool(sse))
    BY <1>2, HeuristicToolBuilds
  <2>2. /\ Chat!Chunk(Chat!HeuristicTool(sse)) /\ calling' = FALSE /\ kept' = "none"
        /\ UNCHANGED finish_reason
    BY <1>8 DEF Chat!CallEnds
  <2> QED
    BY <1>3, <2>1, <2>2, ChunkInv
<1>9. CASE Chat!FinishReason
  <2>1. Chat!Chunk(sse) /\ finish_reason' = TRUE /\ UNCHANGED <<kept, calling>>
    BY <1>9 DEF Chat!FinishReason
  <2> QED
    BY <1>2, <1>3, <2>1, ChunkInv
<1> QED
  BY <1>4, <1>5, <1>6, <1>7, <1>8, <1>9 DEF Chat!Reads

LEMMA ToolCallInv ==
    ASSUME ChatInv, NEW t \in Tools, Chat!ToolCall(t)
    PROVE  ChatInv'
<1> DEFINE n == early_retries
           c == Showing(sse)
           s == Chat!CloseContentBlocks(sse)
<1>1. PICK named \in BOOLEAN, args \in Args :
          Chat!Chunk(Chat!ProcessToolCall(s, t, named, args))
  BY DEF Chat!ToolCall, Chat!Args, Args
<1>2. UNCHANGED <<kept, calling, finish_reason>>
  BY DEF Chat!ToolCall
<1>3. Chat!At("reading")
  BY <1>1 DEF Chat!Chunk
<1>4. Builds(n, c, s)
  BY <1>3, ChatStanding, CloseContentBuilds
<1> HIDE DEF s
<1>5. Builds(n, c, Chat!ProcessToolCall(s, t, named, args))
  BY <1>4, ProcessToolCallBuilds
<1>6. /\ kept \in {"none", "text", "thinking"}
      /\ calling \in BOOLEAN /\ finish_reason \in BOOLEAN
  BY DEF ChatInv, ChatTyped
<1> QED
  BY <1>1, <1>2, <1>5, <1>6, ChunkInv

\* The end of the message follows what a builder with a block shows.
LEMMA EndsInv ==
    ASSUME ChatInv, NEW place \in {"opening", "reading", "recovering"}, Chat!At(place),
           NEW b, Chat!Return(Chat!EndMessage(Chat!CloseAllBlocks(b))),
           Builds(early_retries, Showing(sse), b), b.next_index > 0,
           salvaged' \in BOOLEAN, salvaged' => BrokenOf(b) = {}
    PROVE  ChatInv'
<1> DEFINE n == early_retries
           c == Showing(sse)
           a == Chat!EndMessage(Chat!CloseAllBlocks(b))
           d == [stage |-> "stopped", open |-> {}, used |-> UsedOf(b), broken |-> BrokenOf(b)]
<1>1. Leads(n, c, a, d)
  BY EndingLeads
<1>2. Sends({}, TRUE, n, Client, held, c)
  BY ChatStanding
<1>3. d.stage = "stopped" /\ d.broken = BrokenOf(b)
  OBVIOUS
<1>4. Chat!Return(a)
  OBVIOUS
<1> HIDE DEF a, c, d
<1> QED
  BY <1>1, <1>2, <1>3, <1>4, ChatReturnInv

LEMMA ChatCompletesInv ==
    ASSUME ChatInv, Chat!Completes
    PROVE  ChatInv'
<1> DEFINE n == early_retries
           c == Showing(sse)
           u == Chat!FlushParsers(sse)
           v == Chat!SomeText(u)
           b == Chat!FlushArgs(v)
<1>1. /\ Chat!At("reading") /\ Chat!Return(Chat!EndMessage(Chat!CloseAllBlocks(b)))
      /\ UNCHANGED salvaged
  BY DEF Chat!Completes
<1>2. Builds(n, c, u)
  BY <1>1, ChatStanding, FlushParsersBuilds
<1> HIDE DEF u
<1>3. Builds(n, c, v) /\ v.next_index > 0
  BY <1>2, SomeTextBuilds
<1> HIDE DEF v
<1>4. Builds(n, c, b) /\ b.next_index > 0
  BY <1>3, FlushArgsBuilds
<1> HIDE DEF b
<1>5. salvaged' = FALSE
  BY <1>1, ChatStanding
<1> QED
  BY <1>1, <1>4, <1>5, EndsInv

\* The error of a stream ends what was shown or held, or is a message itself.
LEMMA ChatErrorTailInv ==
    ASSUME ChatInv, NEW place \in {"opening", "reading", "recovering"}, Chat!At(place),
           Chat!ErrorTail, UNCHANGED salvaged
    PROVE  ChatInv'
<1> DEFINE n == early_retries
           b == IF ~committed /\ held = <<>> THEN Chat!NewBuilder(-1) ELSE sse
           c == IF ~committed /\ held = <<>> THEN Blank ELSE Showing(sse)
           a == Chat!CloseAllBlocks(b)
           x == Chat!EndMessage(IF Chat!Started(a) # {} THEN Chat!EmitPlain(a, "error")
                                ELSE Chat!EmitError(a))
<1>1. Chat!Return(x)
  BY DEF Chat!ErrorTail
<1>2. salvaged = FALSE /\ n \in Nat
  BY ChatStanding
<1>3. Builds(n, c, b)
  <2>1. CASE ~committed /\ held = <<>>
    <3>1. -1 \in {n, -1}
      OBVIOUS
    <3>2. Builds(n, Blank, Chat!NewBuilder(-1))
      BY <1>2, <3>1, NewBuilderBuilds
    <3> QED
      BY <2>1, <3>2
  <2>2. CASE ~(~committed /\ held = <<>>)
    BY <2>2, ChatStanding
  <2> QED
    BY <2>1, <2>2
<1>4. Sends({}, TRUE, n, Client, held, c)
  <2>1. CASE ~committed /\ held = <<>>
    BY <2>1, ChatStanding, SendsNothing
  <2>2. CASE ~(~committed /\ held = <<>>)
    BY <2>2, ChatStanding
  <2> QED
    BY <2>1, <2>2
<1> HIDE DEF b, c
<1>5. PICK used, unfinished :
          Leads(n, c, x, [stage |-> "stopped", open |-> {}, used |-> used,
                          broken |-> unfinished])
  <2>1. a = Chat!CloseAllBlocks(b)
    OBVIOUS
  <2> HIDE DEF a
  <2> QED
    BY <1>3, <2>1, ErrorEndingLeads
<1> DEFINE d == [stage |-> "stopped", open |-> {}, used |-> used, broken |-> unfinished]
<1>6. Leads(n, c, x, d) /\ d.stage = "stopped"
  BY <1>5
<1> HIDE DEF d, x, a
<1> QED
  BY <1>1, <1>2, <1>4, <1>6, ChatReturnInv

\* A stream that broke before anything was shown is opened again.
LEMMA ChatRetryInv ==
    ASSUME ChatInv, NEW place \in {"opening", "reading"}, Chat!At(place), Chat!Retry,
           ~committed, early_retries < MaxRetries
    PROVE  ChatInv'
<1> DEFINE m == early_retries + 1
<1>1. /\ pc' = "opening" /\ held' = <<>> /\ committed' = FALSE
      /\ early_retries' = m /\ sse' = Chat!NewBuilder(m) /\ chunks' = 0
      /\ kept' = "none" /\ calling' = FALSE /\ finish_reason' = FALSE
      /\ UNCHANGED <<outbox, wire, gone, attempts, broken, thinking_enabled, salvaged>>
  BY DEF Chat!Retry, Chat!Reopens, Chat!clientVars
<1>2. /\ outbox = <<>> /\ ~gone /\ salvaged = FALSE /\ Client = Blank
      /\ early_retries \in Nat /\ MaxRetries \in Nat
  BY ChatStanding
<1>3. m \in Nat /\ m \in 0 .. MaxRetries /\ m \in {m, -1}
  BY <1>2
<1>4. attempts = {}
  BY DEF ChatInv, ChatHanded
<1> HIDE DEF m
<1>5. Building(m, sse') /\ Showing(sse') = Blank /\ sse'.events = <<>>
  <2> DEFINE b == Chat!NewBuilder(m)
  <2>1. Building(m, b) /\ Showing(b) = Blank /\ b.events = <<>>
    BY <1>3, NewBuilderBuilds DEF Builds
  <2>2. sse' = b
    BY <1>1
  <2> HIDE DEF b
  <2> QED
    BY <2>1, <2>2
<1>6. Client' = Blank
  BY <1>1, <1>2 DEF Client
<1>7. outbox' = <<>> /\ outbox' \o held' = <<>>
  BY <1>1, <1>2
<1>8. Sends({}, TRUE, m, Blank, <<>>, Blank)
  BY SendsNothing
<1>9. ChatClient'
  BY <1>1, <1>5, <1>6, <1>7, <1>8 DEF ChatClient, ChatLeads
<1>10. ChatHanded'
  <2>1. outbox' \in Seq(Sendable(TRUE, m)) /\ held' \in Seq(Sendable(TRUE, m))
    BY <1>1, <1>7, EmptySeq
  <2>2. DownstreamOK' /\ IsWire'
    BY <1>1 DEF ChatInv, ChatHanded, DownstreamOK, IsWire
  <2>3. wire.stage \in {"ending", "stopped"} => wire.open = {}
    BY DEF ChatInv, ChatHanded
  <2> QED
    BY <1>1, <1>2, <1>4, <1>7, <2>1, <2>2, <2>3 DEF ChatHanded
<1>11. ChatTyped'
  <2>1. MaxChunks \in Nat /\ thinking_enabled \in BOOLEAN /\ salvaged \in BOOLEAN
    BY DEF ChatInv, ChatTyped
  <2>2. early_retries' \in 0 .. MaxRetries /\ chunks' \in 0 .. MaxChunks
    BY <1>1, <1>3, <2>1
  <2> QED
    BY <1>1, <1>5, <2>1, <2>2 DEF ChatTyped
<1> QED
  BY <1>9, <1>10, <1>11 DEF ChatInv

\* The exception handler of the stream loop.
LEMMA ChatHandleInv ==
    ASSUME ChatInv, NEW place \in {"opening", "reading"}, Chat!At(place),
           NEW opened \in BOOLEAN, NEW retryable \in BOOLEAN, Chat!Handle(opened, retryable)
    PROVE  ChatInv'
<1>1. \/ Chat!Retry /\ ~committed /\ early_retries < MaxRetries
      \/ Chat!Recover
      \/ Chat!ErrorTail /\ UNCHANGED salvaged
  BY DEF Chat!Handle, Chat!MayRetry
<1>2. CASE Chat!Retry /\ ~committed /\ early_retries < MaxRetries
  BY <1>2, ChatRetryInv
<1>3. CASE Chat!Recover
  <2>1. pc' = "recovering"
    BY <1>3 DEF Chat!Recover, Chat!Recovers
  <2>2. UNCHANGED <<thinking_enabled, early_retries, sse, chunks, kept, calling,
                    finish_reason, held, committed, outbox, wire, gone, attempts, broken,
                    salvaged>>
    BY <1>3 DEF Chat!Recover, Chat!Recovers, Chat!holdVars, Chat!clientVars, Chat!readVars
  <2> QED
    BY <2>1, <2>2, ChatMoveInv
<1>4. CASE Chat!ErrorTail /\ UNCHANGED salvaged
  BY <1>4, ChatErrorTailInv
<1> QED
  BY <1>1, <1>2, <1>3, <1>4

\* _openai_recovery_events
LEMMA RecoveriesInv ==
    ASSUME ChatInv, Chat!Recoveries
    PROVE  ChatInv'
<1> DEFINE n == early_retries
           c == Showing(sse)
<1>1. Chat!At("recovering")
  BY DEF Chat!Recoveries, Chat!RecoverTools, Chat!RecoverText, Chat!RecoveryFails
<1>2. Builds(n, c, sse) /\ salvaged = FALSE
  BY <1>1, ChatStanding
<1>3. CASE Chat!RecoverTools
  <2> DEFINE b == Chat!RepairTools(sse)
  <2>1. /\ Chat!Started(sse) # {} /\ salvaged' = TRUE
        /\ Chat!Return(Chat!EndMessage(Chat!CloseAllBlocks(b)))
    BY <1>3 DEF Chat!RecoverTools
  <2>2. sse.next_index > 0
    BY <1>2, <2>1, SomeIndex DEF Builds
  <2>3. Builds(n, c, b) /\ b.next_index > 0 /\ BrokenOf(b) = {}
    BY <1>2, <2>2, RepairToolsBuilds
  <2> HIDE DEF b
  <2> QED
    BY <1>1, <2>1, <2>3, EndsInv
<1>4. CASE Chat!RecoverText
  <2>1. PICK b \in {Chat!EmitThinking(sse), Chat!EmitText(sse),
                    Chat!EmitText(Chat!EmitThinking(sse))} :
            Chat!Return(Chat!EndMessage(Chat!CloseAllBlocks(b)))
    BY <1>4 DEF Chat!RecoverText
  <2>2. salvaged' = FALSE
    BY <1>2, <1>4 DEF Chat!RecoverText
  <2>3. Builds(n, c, b) /\ (b.text_started \/ b.thinking_started)
    <3>1. /\ Builds(n, c, Chat!EmitThinking(sse)) /\ Chat!EmitThinking(sse).thinking_started
          /\ Builds(n, c, Chat!EmitText(sse)) /\ Chat!EmitText(sse).text_started
      BY <1>2, EmitThinkingBuilds, EmitTextBuilds
    <3>2. /\ Builds(n, c, Chat!EmitText(Chat!EmitThinking(sse)))
          /\ Chat!EmitText(Chat!EmitThinking(sse)).text_started
      BY <3>1, EmitTextBuilds
    <3> QED
      BY <3>1, <3>2
  <2>4. b.next_index > 0
    BY <2>3, SomeIndex DEF Builds
  <2> QED
    BY <1>1, <2>1, <2>2, <2>3, <2>4, EndsInv
<1>5. CASE Chat!RecoveryFails
  BY <1>1, <1>5, ChatErrorTailInv DEF Chat!RecoveryFails
<1> QED
  BY <1>3, <1>4, <1>5 DEF Chat!Recoveries

LEMMA ChatGeneratorInv ==
    ASSUME ChatInv, Chat!Generator
    PROVE  ChatInv'
<1>1. CASE Chat!Opens
  <2>1. Chat!At("opening") /\ pc' \in {"reading", "recovering"}
    BY <1>1 DEF Chat!Opens
  <2>2. UNCHANGED <<thinking_enabled, early_retries, sse, chunks, kept, calling,
                    finish_reason, held, committed, outbox, wire, gone, attempts, broken,
                    salvaged>>
    BY <1>1 DEF Chat!Opens, Chat!holdVars, Chat!clientVars, Chat!readVars
  <2> QED
    BY <2>1, <2>2, ChatMoveInv
<1>2. ASSUME NEW place \in {"opening", "reading"}, Chat!At(place),
             NEW opened \in BOOLEAN, NEW retryable \in BOOLEAN, Chat!Handle(opened, retryable)
      PROVE  ChatInv'
  BY <1>2, ChatHandleInv
<1>3. CASE Chat!OpenFails
  <2>1. /\ Chat!At("opening") /\ TRUE \in BOOLEAN /\ FALSE \in BOOLEAN
        /\ Chat!Handle(FALSE, TRUE) \/ Chat!Handle(FALSE, FALSE)
    BY <1>3 DEF Chat!OpenFails
  <2>2. CASE Chat!Handle(FALSE, TRUE)
    BY <1>2, <2>1, <2>2
  <2>3. CASE Chat!Handle(FALSE, FALSE)
    BY <1>2, <2>1, <2>3
  <2> QED
    BY <2>1, <2>2, <2>3
<1>4. CASE Chat!Breaks
  <2>1. /\ Chat!At("reading") /\ TRUE \in BOOLEAN /\ FALSE \in BOOLEAN
        /\ Chat!Handle(TRUE, TRUE) \/ Chat!Handle(TRUE, FALSE)
    BY <1>4 DEF Chat!Breaks
  <2>2. CASE Chat!Handle(TRUE, TRUE)
    BY <1>2, <2>1, <2>2
  <2>3. CASE Chat!Handle(TRUE, FALSE)
    BY <1>2, <2>1, <2>3
  <2> QED
    BY <2>1, <2>2, <2>3
<1>5. CASE Chat!Truncated
  <2>1. Chat!At("reading") /\ TRUE \in BOOLEAN /\ Chat!Handle(TRUE, TRUE)
    BY <1>5 DEF Chat!Truncated
  <2> QED
    BY <1>2, <2>1
<1>6. CASE Chat!Completes
  BY <1>6, ChatCompletesInv
<1>7. CASE Chat!Reads
  BY <1>7, ReadsInv
<1>8. CASE \E t \in Tools : Chat!ToolCall(t)
  BY <1>8, ToolCallInv
<1>9. CASE Chat!Recoveries
  BY <1>9, RecoveriesInv
<1> QED
  BY <1>1, <1>3, <1>4, <1>5, <1>6, <1>7, <1>8, <1>9 DEF Chat!Generator, Chat!Ends

LEMMA ChatStepInv == ChatInv /\ [Chat!Next]_(Chat!vars) => ChatInv'
<1> SUFFICES ASSUME ChatInv, [Chat!Next]_(Chat!vars) PROVE ChatInv'
  OBVIOUS
<1>1. CASE Chat!Generator
  BY <1>1, ChatGeneratorInv
<1>2. CASE Chat!Deliver
  BY <1>2, ChatDeliverInv
<1>3. CASE Chat!Disconnect
  BY <1>3, ChatDisconnectInv
<1>4. CASE UNCHANGED Chat!vars
  BY <1>4, ChatStutterInv
<1> QED
  BY <1>1, <1>2, <1>3, <1>4 DEF Chat!Next

LEMMA ChatInvariant ==
    ASSUME Chat!BoundAssumption
    PROVE  Chat!Spec => []ChatInv
<1>1. Chat!Init => ChatInv
  BY ChatInitInv DEF Chat!BoundAssumption
<1>2. ChatInv /\ [Chat!Next]_(Chat!vars) => ChatInv'
  BY ChatStepInv
<1> QED
  BY <1>1, <1>2, PTL DEF Chat!Spec

-----------------------------------------------------------------------------
(***************************************************************************)
(* What follows for ChatStream.                                            *)
(***************************************************************************)
LEMMA ChatTypeFollows == ChatInv => Chat!TypeOK
<1> SUFFICES ASSUME ChatInv PROVE Chat!TypeOK
  OBVIOUS
<1>1. /\ Chat!DownstreamOK /\ thinking_enabled \in BOOLEAN
      /\ early_retries \in 0 .. MaxRetries /\ chunks \in 0 .. MaxChunks
      /\ kept \in {"none", "text", "thinking"}
      /\ {calling, finish_reason, salvaged} \subseteq BOOLEAN
  BY SameDownstream DEF ChatInv, ChatHanded, ChatTyped
<1>2. /\ Building(early_retries, sse) /\ sse.events = <<>>
      /\ attempts \subseteq {early_retries} /\ MaxRetries \in Nat
  BY EventBoundAssumption DEF ChatInv, ChatHanded, ChatTyped
<1>3. /\ sse \in BuilderOf(early_retries)
      /\ ~(sse.text_started /\ sse.thinking_started)
      /\ \A t \in Tools : sse.tools[t].index < sse.next_index
  BY <1>2 DEF Building
<1>4. sse \in Chat!Builder
  <2>1. sse = [next_index |-> sse.next_index, text_index |-> sse.text_index,
               thinking_index |-> sse.thinking_index, text_started |-> sse.text_started,
               thinking_started |-> sse.thinking_started, tools |-> sse.tools,
               attempt |-> sse.attempt, events |-> sse.events]
    BY <1>3 DEF BuilderOf
  <2>2. /\ sse.next_index \in Nat /\ sse.text_index \in Nat \union {-1}
        /\ sse.thinking_index \in Nat \union {-1} /\ sse.text_started \in BOOLEAN
        /\ sse.thinking_started \in BOOLEAN
        /\ sse.tools \in [Tools -> [named : BOOLEAN, index : Nat \union {-1},
                                    sent : Args, waiting : Args]]
        /\ sse.attempt \in {early_retries, -1}
    BY <1>3 DEF BuilderOf, ToolOf
  <2>3. sse.attempt \in -1 .. MaxRetries /\ sse.events \in {<<>>}
    BY <1>1, <1>2, <2>2
  <2>4. Chat!Args = Args
    BY DEF Chat!Args, Args
  <2> QED
    BY <2>1, <2>2, <2>3, <2>4 DEF Chat!Builder
<1>5. attempts \subseteq 0 .. MaxRetries
  BY <1>1, <1>2
<1> QED
  BY <1>1, <1>3, <1>4, <1>5 DEF Chat!TypeOK

\* Only a delivery changes what the client saw, and only its leaving that it is
\* there.
LEMMA ChatWireMoves ==
    Chat!Next => \/ Chat!Deliver \/ Chat!Disconnect
                 \/ UNCHANGED <<wire, gone>>
<1> SUFFICES ASSUME Chat!Generator PROVE UNCHANGED <<wire, gone>>
  BY DEF Chat!Next
<1>1. ASSUME NEW b, Chat!Chunk(b) PROVE UNCHANGED <<wire, gone>>
  BY <1>1 DEF Chat!Chunk, Chat!clientVars
<1>2. ASSUME NEW b, Chat!Return(b) PROVE UNCHANGED <<wire, gone>>
  BY <1>2 DEF Chat!Return, Chat!clientVars
<1>3. ASSUME NEW opened, NEW retryable, Chat!Handle(opened, retryable)
      PROVE  UNCHANGED <<wire, gone>>
  BY <1>2, <1>3 DEF Chat!Handle, Chat!Retry, Chat!Reopens, Chat!Recover, Chat!Recovers,
                    Chat!ErrorTail, Chat!clientVars
<1>4. CASE Chat!Opens
  BY <1>4 DEF Chat!Opens, Chat!clientVars
<1>5. CASE Chat!OpenFails \/ Chat!Breaks \/ Chat!Truncated
  BY <1>3, <1>5 DEF Chat!OpenFails, Chat!Breaks, Chat!Truncated
<1>6. CASE Chat!Completes
  BY <1>2, <1>6 DEF Chat!Completes
<1>7. CASE Chat!Reads
  BY <1>1, <1>7 DEF Chat!Reads, Chat!Reasoning, Chat!Think, Chat!Text, Chat!CallBegins,
                    Chat!CallEnds, Chat!FinishReason
<1>8. CASE \E t \in Tools : Chat!ToolCall(t)
  BY <1>1, <1>8 DEF Chat!ToolCall
<1>9. CASE Chat!Recoveries
  BY <1>2, <1>9 DEF Chat!Recoveries, Chat!RecoverTools, Chat!RecoverText,
                    Chat!RecoveryFails, Chat!ErrorTail
<1> QED
  BY <1>4, <1>5, <1>6, <1>7, <1>8, <1>9 DEF Chat!Generator, Chat!Ends

\* A step of the stream is one of the contract, or none.
LEMMA ContractStep ==
    ChatInv /\ [Chat!Next]_(Chat!vars)
        => [Contract!Receive \/ Contract!Leave]_<<wire, gone>>
<1> SUFFICES ASSUME ChatInv, [Chat!Next]_(Chat!vars)
             PROVE  Contract!Receive \/ Contract!Leave \/ UNCHANGED <<wire, gone>>
  OBVIOUS
<1>1. CASE Chat!Deliver
  <2>1. TakeEvent /\ Proper({}, Client, Head(outbox))
    BY <1>1, SameDownstream, ChatDeliverInv DEF Chat!Deliver
  <2>2. wire'.last = Head(outbox)
    BY <2>1, TookSeen DEF ChatInv, ChatHanded
  <2>3. wire' = Contract!Seen(wire, Head(outbox)) /\ ~gone /\ gone' = gone
    BY <2>1 DEF TakeEvent
  <2>4. /\ Client.stage = wire.stage /\ Client.open = wire.open /\ Client.used = wire.used
    BY DEF Client
  <2> DEFINE e == Head(outbox)
  <2> HIDE DEF e
  <2>5. Contract!Allowed(wire, e)
    BY <2>1, <2>4 DEF Proper, Contract!Allowed, e
  <2>6. wire'.last = e /\ wire' = Contract!Seen(wire, e)
    BY <2>2, <2>3 DEF e
  <2> QED
    BY <2>3, <2>5, <2>6 DEF Contract!Receive
<1>2. CASE Chat!Disconnect
  BY <1>2 DEF Chat!Disconnect, Chat!Disconnects, Contract!Leave
<1>3. CASE UNCHANGED Chat!vars
  BY <1>3 DEF Chat!vars, Chat!clientVars
<1> QED
  BY <1>1, <1>2, <1>3, ChatWireMoves

\* The builder of an OpenAI-compatible stream keeps to what its Python
\* counterpart can hold: the indexes of its blocks were given out, and text and
\* thinking are never open at once.
THEOREM ChatTypeCorrect ==
    ASSUME Chat!BoundAssumption
    PROVE  Chat!Spec => []Chat!TypeOK
  BY ChatInvariant, ChatTypeFollows, PTL

\* What ChatStream and NativeStream extend is the same Downstream, so OneAttempt,
\* SalvagedWhole and StreamContract need no prefix below: their variables are those
\* of Chat too.

\* A client of an OpenAI-compatible stream sees the content of one attempt only:
\* what the holdback buffer discards was not handed out.
THEOREM ChatOneAttemptCorrect ==
    ASSUME Chat!BoundAssumption
    PROVE  Chat!Spec => []OneAttempt
<1>1. ChatInv => OneAttempt
  BY DEF ChatInv, ChatHanded, OneAttempt
<1> QED
  BY <1>1, ChatInvariant, PTL

\* When a recovery vouched for the tool calls of a message and the client saw its
\* end, it has all arguments of each of them, however many there are.
THEOREM ChatSalvagedWholeCorrect ==
    ASSUME Chat!BoundAssumption
    PROVE  Chat!Spec => []SalvagedWhole
<1>1. ChatInv => SalvagedWhole
  BY DEF ChatInv, ChatHanded, SalvagedWhole
<1> QED
  BY <1>1, ChatInvariant, PTL

\* The OpenAI-compatible stream implements the contract of Anthropic streams:
\* whatever chunks arrive, wherever it breaks and however it is recovered, every
\* event its client takes is one that may come next.
THEOREM ChatImplementsContract ==
    ASSUME Chat!BoundAssumption
    PROVE  Chat!Spec => StreamContract
<1>1. Chat!Init => Contract!Init
  BY DEF Chat!Init, Chat!InitDownstream, Chat!Contract!Nothing, Contract!Init, Contract!Nothing
<1>2. ChatInv /\ [Chat!Next]_(Chat!vars)
        => [Contract!Receive \/ Contract!Leave]_<<wire, gone>>
  BY ContractStep
<1> QED
  BY <1>1, <1>2, ChatInvariant, PTL DEF Chat!Spec, StreamContract, Contract!Spec
=============================================================================
