---------------------------- MODULE RotationProofs ----------------------------
(***************************************************************************)
(* Theorems about Rotation, for any number of threads, hazard pointers and *)
(* nodes, and for smr_lazy.c and smr_membar_lazy.c.                        *)
(*                                                                         *)
(* Inv is inductive whatever the workload: it says where a node is, what a *)
(* thread's loop variables can be, and that vlist is longer than H when it *)
(* is rotated.  That neither rotation nor the scan frees a node in use     *)
(* needs allocators that do not run out (~Exhausts): Safe then says how    *)
(* far from the tail an unmarked node in use is.                           *)
(***************************************************************************)
EXTENDS Rotation, FiniteSetTheorems, SequenceTheorems, WellFoundedInduction, TLAPS

\* Where the control of a thread is, what its loop variables can be, and which
\* slot it validates.
ControlOf(t) ==
    /\ victim[t] # NULL <=> pc[t] = "free"
    /\ pc[t] \in {"mark", "rotate"} => Len(vlist[t]) > H
    /\ pc[t] = "clear" => idx[t] < K /\ \A i \in Own(t) : guarded[i] = NULL
    /\ pc[t] \notin {"clear", "scan"} => idx[t] = 0
    /\ pc[t] = "scan" /\ ~Exhausts => caller[t] = "exit"
    /\ slot[t] \in Own(t)

ControlInv == \A t \in Threads : ControlOf(t)

\* A node has one place.
NotTwice(n) ==
    /\ n \in linked =>
          \A t \in Threads : n \notin pool[t] /\ n # victim[t] /\ n \notin RetiredBy(t)
    /\ \A t, u \in Threads :
          /\ n \in pool[t] => /\ n # victim[u] /\ n \notin RetiredBy(u)
                              /\ (n \in pool[u] => t = u)
          /\ n = victim[t] => n \notin RetiredBy(u) /\ (n = victim[u] => t = u)
          /\ n \in RetiredBy(t) /\ n \in RetiredBy(u) => t = u

Located == \A n \in Nodes : NotTwice(n)

\* No node is in the two lists of a thread, or twice in one of them.
Apart(r, v) ==
    /\ IsInjective(r) /\ IsInjective(v)
    /\ \A e \in DOMAIN r, f \in DOMAIN v : r[e] # v[f]

ListsInv == \A t \in Threads : Apart(rlist[t], vlist[t])

\* A slot names the node that is dereferenced under it.
GuardsArePublished == \A i \in Slots : guarded[i] # NULL => HP[i] = guarded[i]

Inv == /\ TypeOK /\ ControlInv /\ RcountIsLength
       /\ Located /\ ListsInv /\ GuardsArePublished

\* MarkedInTime, and what the rotation in progress has read already.
InTime(t, e, i) ==
    /\ SlotsBefore(t, i) <= Len(vlist[t]) - e
    /\ pc[t] = "rotate" /\ i = HPcur[t] => cur[t] = guarded[i]

RotateOf(t) ==
    pc[t] \in {"op", "check", "free", "mark", "rotate"} =>
       \A e \in DOMAIN vlist[t] : \A i \in Slots :
          guarded[i] = vlist[t][e] /\ vlist[t][e] \notin marked => InTime(t, e, i)

RotateInv == \A t \in Threads : RotateOf(t)

\* A scan has seen the hazard pointers of nodes in use, up to the next to read.
ScanOf(t) ==
    pc[t] = "scan" =>
       \A i \in Slots : i < idx[t] /\ guarded[i] \in RetiredBy(t) => guarded[i] \in plist[t]

ScanInv == \A t \in Threads : ScanOf(t)

Safe == RotateInv /\ ScanInv /\ NoUseAfterFree

-----------------------------------------------------------------------------
(* Slots.                                                                  *)

Owner(i) == i \div K    \* the thread whose slot i is

LEMMA Multiples ==
    ASSUME NEW k \in Nat \ {0}, NEW a \in Nat, NEW b \in Nat, a < b
    PROVE  k * a \in Nat /\ k * a + k <= k * b
<1>1. \A x \in Nat : k * x \in Nat
  OBVIOUS
<1>2. b - a - 1 \in Nat /\ k * (b - a - 1) \in Nat
  BY <1>1
<1>3. k * b = k * a + k + k * (b - a - 1)
  OBVIOUS
<1>4. QED
  BY <1>1, <1>2, <1>3

LEMMA QuotientIs ==
    ASSUME NEW k \in Nat \ {0}, NEW a \in Nat, NEW i \in Nat
    PROVE  /\ i \div k \in Nat
           /\ k * (i \div k) <= i /\ i < k * (i \div k) + k
           /\ k * a <= i /\ i < k * a + k => i \div k = a
<1>1. /\ i \div k \in Nat
      /\ k * (i \div k) <= i /\ i < k * (i \div k) + k
  OBVIOUS
<1>2. ASSUME k * a <= i, i < k * a + k PROVE i \div k = a
  <2> DEFINE q == i \div k
  <2>1. q \in Nat /\ k * q <= i /\ i < k * q + k
    BY <1>1
  <2> HIDE DEF q
  <2>2. k * a \in Nat /\ k * q \in Nat
    BY <2>1
  <2>3. ~(q < a)
    <3>1. q < a => k * q + k <= k * a
      BY <2>1, Multiples
    <3>2. QED
      BY <2>1, <2>2, <3>1, <1>2
  <2>4. ~(a < q)
    <3>1. a < q => k * a + k <= k * q
      BY <2>1, Multiples
    <3>2. QED
      BY <2>1, <2>2, <3>1, <1>2
  <2>5. QED
    BY <2>1, <2>3, <2>4 DEF q
<1>3. QED
  BY <1>1, <1>2

LEMMA SlotFacts ==
    /\ H \in Nat \ {0} /\ K \in Nat \ {0} /\ K <= H
    /\ \A t \in Threads : \A i \in Own(t) : i \in Slots /\ Owner(i) = t
    /\ \A i \in Slots : Owner(i) \in Threads /\ i \in Own(Owner(i))
    /\ \A t \in Threads : \A k \in 0 .. K - 1 : K * t + k \in Own(t)
<1>1. H \in Nat /\ K <= H /\ K \in Nat \ {0}
  <2>1. K * 0 + K <= K * N
    BY NAssumption, Multiples
  <2>2. QED
    BY <2>1, NAssumption DEF H
<1>2. ASSUME NEW t \in Threads, NEW i \in Own(t)
      PROVE  i \in Slots /\ Owner(i) = t
  <2>1. t \in Nat /\ N \in Nat /\ t < N
    BY NAssumption DEF Threads
  <2>2. K * t \in Nat /\ K * t + K <= H
    BY <1>1, <2>1, Multiples DEF H
  <2>3. i \in Nat /\ K * t <= i /\ i < K * t + K
    BY <1>1, <2>1, <2>2 DEF Own
  <2>4. i \div K = t
    BY <1>1, <2>1, <2>3, QuotientIs
  <2>5. QED
    BY <1>1, <2>1, <2>2, <2>3, <2>4 DEF Slots, Owner
<1>3. ASSUME NEW i \in Slots
      PROVE  Owner(i) \in Threads /\ i \in Own(Owner(i))
  <2> DEFINE q == Owner(i)
  <2>1. i \in Nat /\ i < K * N /\ N \in Nat
    BY <1>1, NAssumption DEF Slots, H
  <2>2. q \in Nat /\ K * q <= i /\ i < K * q + K
    BY <1>1, <2>1, QuotientIs DEF Owner
  <2> HIDE DEF q
  <2>3. K * q \in Nat /\ K * N \in Nat
    BY <1>1, <2>1, <2>2
  <2>4. ~(N < q)
    <3>1. N < q => K * N + K <= K * q
      BY <1>1, <2>1, <2>2, Multiples
    <3>2. QED
      BY <1>1, <2>1, <2>2, <2>3, <3>1
  <2>5. N # q
    BY <1>1, <2>1, <2>2, <2>3
  <2>6. q < N
    BY <2>1, <2>2, <2>4, <2>5
  <2>7. q \in Threads
    BY <2>1, <2>2, <2>6 DEF Threads
  <2>8. i \in Own(q)
    BY <1>1, <2>1, <2>2, <2>3 DEF Own
  <2>9. QED
    BY <2>7, <2>8 DEF q
<1>4. ASSUME NEW t \in Threads, NEW k \in 0 .. K - 1 PROVE K * t + k \in Own(t)
  <2>1. K * t \in Nat
    BY <1>1 DEF Threads
  <2>2. QED
    BY <1>1, <2>1 DEF Own
<1>5. QED
  BY <1>1, <1>2, <1>3, <1>4, NAssumption

\* No slot has two owners.
LEMMA OwnDisjoint ==
    ASSUME NEW t \in Threads, NEW u \in Threads, NEW i \in Own(t), i \in Own(u)
    PROVE  t = u
BY SlotFacts

\* What is left of d after a number of rounds of h.
LEMMA RemainderIs ==
    ASSUME NEW h \in Nat \ {0}, NEW d \in Int
    PROVE  /\ d \in 0 .. h - 1 => d % h = d
           /\ d \in h .. 2 * h - 1 => d % h = d - h
           /\ d \in -h .. -1 => d % h = d + h
OBVIOUS

\* The slot that is looked at moves on by one, and each of the other slots comes
\* one nearer.
LEMMA SlotsBeforeIs ==
    ASSUME NEW t \in Threads, HPcur[t] \in Slots, NEW i \in Slots
    PROVE  /\ NextSlot(t) \in Slots
           /\ SlotsBefore(t, i) \in 0 .. H - 1
           /\ SlotsBefore(t, i) = 0 => i = HPcur[t]
           /\ HPcur'[t] = NextSlot(t) /\ i # HPcur[t] =>
                 SlotsBefore(t, i)' = SlotsBefore(t, i) - 1
<1> DEFINE c == HPcur[t]
           d == IF c + 1 < H THEN c + 1 ELSE 0
           Before(j) == IF c <= j THEN j - c ELSE j - c + H
           BeforeNext(j) == IF d <= j THEN j - d ELSE j - d + H
<1>1. H \in Nat \ {0} /\ c \in 0 .. H - 1 /\ i \in 0 .. H - 1
  BY SlotFacts DEF Slots
<1>2. NextSlot(t) = d
  BY <1>1, RemainderIs DEF NextSlot
<1>3. SlotsBefore(t, i) = Before(i)
  BY <1>1, RemainderIs DEF SlotsBefore
<1>4. ASSUME HPcur'[t] = d PROVE SlotsBefore(t, i)' = BeforeNext(i)
  <2>1. SlotsBefore(t, i)' = (i - d) % H
    BY <1>4 DEF SlotsBefore
  <2>2. d \in 0 .. H - 1
    BY <1>1
  <2> HIDE DEF d
  <2>3. CASE d <= i
    <3>1. i - d \in 0 .. H - 1
      BY <1>1, <2>2, <2>3
    <3>2. (i - d) % H = i - d
      BY <1>1, <3>1, RemainderIs
    <3>3. QED
      BY <2>1, <2>3, <3>2
  <2>4. CASE ~(d <= i)
    <3>1. i - d \in -H .. -1
      BY <1>1, <2>2, <2>4
    <3>2. (i - d) % H = i - d + H
      BY <1>1, <3>1, RemainderIs
    <3>3. QED
      BY <2>1, <2>4, <3>2
  <2>5. QED
    BY <2>3, <2>4
<1> HIDE DEF c
<1>5. d \in 0 .. H - 1
  BY <1>1
<1>6. Before(i) \in 0 .. H - 1 /\ (Before(i) = 0 => i = c)
  BY <1>1
<1>7. i # c => BeforeNext(i) = Before(i) - 1
  BY <1>1
<1>8. QED
  BY <1>2, <1>3, <1>4, <1>5, <1>6, <1>7 DEF c, Slots

LEMMA HasGreatest ==
    ASSUME NEW S \in SUBSET Nat, S # {}, NEW b \in Nat, \A x \in S : x <= b
    PROVE  \E m \in S : \A x \in S : x <= m
<1> DEFINE T == {y \in Nat : y <= b /\ b - y \in S}
<1>1. T \subseteq Nat /\ T # {}
  <2>1. PICK x \in S : TRUE
    OBVIOUS
  <2>2. x \in Nat /\ b - x \in Nat /\ b - x <= b /\ b - (b - x) = x
    OBVIOUS
  <2>3. b - x \in T
    BY <2>1, <2>2
  <2>4. QED
    BY <2>3
<1>2. \E y \in T : \A z \in T : <<z, y>> \notin OpToRel(<, Nat)
  <2> HIDE DEF T
  <2>1. QED
    BY <1>1, WFMin, NatLessThanWellFounded
<1>3. PICK y \in T : \A z \in T : <<z, y>> \notin OpToRel(<, Nat)
  BY <1>2
<1>4. \A z \in T : ~(z < y)
  BY <1>1, <1>3 DEF OpToRel
<1>5. b - y \in S /\ y \in Nat
  OBVIOUS
<1>6. ASSUME NEW x \in S PROVE x <= b - y
  <2>1. x \in Nat /\ b - x \in Nat /\ b - x <= b /\ b - (b - x) = x
    OBVIOUS
  <2>2. b - x \in T
    BY <2>1
  <2>3. ~(b - x < y)
    BY <1>4, <2>2
  <2>4. QED
    BY <2>1, <2>3, <1>5
<1>7. QED
  BY <1>5, <1>6

-----------------------------------------------------------------------------
(* Sequences.                                                              *)

LEMMA SeqFacts ==
    ASSUME NEW S, NEW s \in Seq(S)
    PROVE  /\ Len(s) \in Nat /\ DOMAIN s = 1 .. Len(s)
           /\ \A e \in DOMAIN s : s[e] \in S /\ s[e] \in ToSet(s)
           /\ \A x \in ToSet(s) : \E e \in DOMAIN s : s[e] = x
           /\ ToSet(s) \subseteq S
<1>1. Len(s) \in Nat /\ DOMAIN s = 1 .. Len(s)
  BY LenProperties
<1>2. \A e \in DOMAIN s : s[e] \in S
  BY <1>1, ElementOfSeq
<1>3. QED
  BY <1>1, <1>2 DEF ToSet

LEMMA ConsIs ==
    ASSUME NEW S, NEW x \in S, NEW s \in Seq(S)
    PROVE  /\ <<x>> \o s \in Seq(S) /\ Len(<<x>> \o s) = Len(s) + 1
           /\ (<<x>> \o s)[1] = x
           /\ \A e \in 1 .. Len(s) : (<<x>> \o s)[e + 1] = s[e]
<1>1. <<x>> \in Seq(S) /\ Len(<<x>>) = 1 /\ <<x>>[1] = x
  OBVIOUS
<1>2. Len(s) \in Nat
  BY LenProperties
<1>3. /\ <<x>> \o s \in Seq(S) /\ Len(<<x>> \o s) = 1 + Len(s)
      /\ \A i \in 1 .. 1 + Len(s) : (<<x>> \o s)[i] = IF i <= 1 THEN <<x>>[i] ELSE s[i - 1]
  <2> DEFINE o == <<x>>
  <2>1. o \in Seq(S) /\ Len(o) = 1
    BY <1>1
  <2> HIDE DEF o
  <2>2. /\ o \o s \in Seq(S)
        /\ Len(o \o s) = Len(o) + Len(s)
        /\ \A i \in 1 .. Len(o) + Len(s) :
              (o \o s)[i] = IF i <= Len(o) THEN o[i] ELSE s[i - Len(o)]
    BY <2>1, ConcatProperties
  <2>3. QED
    BY <2>1, <2>2 DEF o
<1> DEFINE c == <<x>> \o s
<1> HIDE DEF c
<1>4. c[1] = x
  BY <1>1, <1>2, <1>3 DEF c
<1>5. ASSUME NEW e \in 1 .. Len(s) PROVE c[e + 1] = s[e]
  <2>1. e + 1 \in 1 .. 1 + Len(s) /\ ~(e + 1 <= 1) /\ (e + 1) - 1 = e
    BY <1>2
  <2>2. QED
    BY <1>3, <2>1 DEF c
<1>6. QED
  BY <1>2, <1>3, <1>4, <1>5 DEF c

LEMMA FrontLast ==
    ASSUME NEW S, NEW s \in Seq(S), Len(s) > 0
    PROVE  /\ Front(s) \in Seq(S) /\ Len(Front(s)) = Len(s) - 1
           /\ \A e \in 1 .. Len(s) - 1 : Front(s)[e] = s[e]
           /\ Last(s) = s[Len(s)] /\ Last(s) \in S
<1>1. Len(s) \in Nat /\ Len(s) \in 1 .. Len(s)
  BY LenProperties
<1>2. \A i \in 1 .. Len(s) : s[i] \in S
  BY ElementOfSeq
<1> DEFINE l == Len(s)
<1>3. l \in Nat /\ l > 0 /\ l - 1 \in Int /\ 1 \in Int /\ \A i \in 1 .. l - 1 : s[i] \in S
  BY <1>1, <1>2
<1> HIDE DEF l
<1>4. /\ SubSeq(s, 1, l - 1) \in Seq(S)
      /\ Len(SubSeq(s, 1, l - 1)) = IF 1 <= l - 1 THEN (l - 1) - 1 + 1 ELSE 0
      /\ \A i \in 1 .. (l - 1) - 1 + 1 : SubSeq(s, 1, l - 1)[i] = s[1 + i - 1]
  BY <1>3, SubSeqProperties
<1>5. Len(SubSeq(s, 1, l - 1)) = l - 1
  BY <1>3, <1>4
<1>6. ASSUME NEW e \in 1 .. l - 1 PROVE SubSeq(s, 1, l - 1)[e] = s[e]
  <2>1. e \in 1 .. (l - 1) - 1 + 1 /\ 1 + e - 1 = e
    BY <1>3
  <2>2. QED
    BY <1>4, <2>1
<1>7. QED
  BY <1>1, <1>2, <1>4, <1>5, <1>6 DEF l, Front, Last

\* A part of a sequence.
LEMMA PartIs ==
    ASSUME NEW S, NEW s \in Seq(S), NEW a \in Nat, NEW b \in 0 .. Len(s),
           a <= b
    PROVE  /\ SubSeq(s, a + 1, b) \in Seq(S) /\ Len(SubSeq(s, a + 1, b)) = b - a
           /\ \A e \in 1 .. b - a : SubSeq(s, a + 1, b)[e] = s[a + e]
<1>1. Len(s) \in Nat
  BY LenProperties
<1>2. \A i \in 1 .. Len(s) : s[i] \in S
  BY ElementOfSeq
<1>3. a + 1 \in Int /\ b \in Int /\ \A i \in a + 1 .. b : s[i] \in S
  BY <1>1, <1>2
<1> DEFINE m == a + 1
<1>4. m \in Int /\ b \in Int /\ \A i \in m .. b : s[i] \in S
  BY <1>3
<1> HIDE DEF m
<1>5. /\ SubSeq(s, m, b) \in Seq(S)
      /\ Len(SubSeq(s, m, b)) = IF m <= b THEN b - m + 1 ELSE 0
      /\ \A i \in 1 .. b - m + 1 : SubSeq(s, m, b)[i] = s[m + i - 1]
  BY <1>4, SubSeqProperties
<1>6. b - m + 1 = b - a /\ (m <= b <=> a < b)
  BY <1>1 DEF m
<1>7. Len(SubSeq(s, m, b)) = b - a
  BY <1>1, <1>5, <1>6
<1>8. ASSUME NEW e \in 1 .. b - a PROVE SubSeq(s, m, b)[e] = s[a + e]
  <2>1. m + e - 1 = a + e
    BY <1>1 DEF m
  <2>2. QED
    BY <1>5, <1>6, <2>1
<1>9. QED
  BY <1>5, <1>7, <1>8 DEF m

\* The nodes of l that are in T, in their order.
LEMMA SublistIs ==
    ASSUME NEW S, NEW l \in Seq(S), NEW T
    PROVE  /\ Sublist(l, T) \in Seq(S)
           /\ \A j \in DOMAIN Sublist(l, T) :
                 \E e \in DOMAIN l : l[e] \in T /\ Sublist(l, T)[j] = l[e]
           /\ \A e \in DOMAIN l : l[e] \in T =>
                 \E j \in DOMAIN Sublist(l, T) : Sublist(l, T)[j] = l[e]
           /\ IsInjective(l) => IsInjective(Sublist(l, T))
<1> DEFINE I == {e \in DOMAIN l : l[e] \in T}
           UpTo(e) == {f \in I : f <= e}
           c == Cardinality(I)
           Rank == [e \in I |-> Cardinality(UpTo(e))]
           Nth(k) == CHOOSE e \in I : Cardinality({f \in I : f <= e}) = k
           s == Sublist(l, T)
<1>1. Len(l) \in Nat /\ DOMAIN l = 1 .. Len(l) /\ \A e \in DOMAIN l : l[e] \in S
  BY SeqFacts
<1>2. IsFiniteSet(I) /\ c \in Nat
  <2>1. IsFiniteSet(1 .. Len(l))
    BY <1>1, FS_Interval
  <2>2. I \subseteq 1 .. Len(l)
    BY <1>1
  <2> HIDE DEF I
  <2>3. IsFiniteSet(I)
    BY <2>1, <2>2, FS_Subset
  <2>4. QED
    BY <2>3, FS_CardinalityType
<1>3. I \subseteq DOMAIN l /\ \A e \in DOMAIN l : e \in I <=> l[e] \in T
  OBVIOUS
<1>4. s = [k \in 1 .. c |-> l[Nth(k)]]
  BY DEF Sublist
<1> HIDE DEF I, s
<1>5. ASSUME NEW e \in I
      PROVE  IsFiniteSet(UpTo(e)) /\ Cardinality(UpTo(e)) \in 1 .. c
  <2> DEFINE U == UpTo(e)
  <2>1. U \in SUBSET I /\ e \in U
    BY <1>1, <1>3
  <2> HIDE DEF U
  <2>2. IsFiniteSet(U) /\ Cardinality(U) <= c
    BY <1>2, <2>1, FS_Subset
  <2>3. Cardinality(U) \in Nat /\ Cardinality(U) # 0
    BY <2>1, <2>2, FS_CardinalityType, FS_EmptySet
  <2>4. QED
    BY <1>2, <2>2, <2>3 DEF U
<1>6. ASSUME NEW e \in I, NEW f \in I, e < f
      PROVE  Cardinality(UpTo(e)) < Cardinality(UpTo(f))
  <2> DEFINE U == UpTo(e)  V == UpTo(f)
  <2>1. U \in SUBSET V /\ f \in V /\ f \notin U
    BY <1>1, <1>3, <1>6
  <2>2. IsFiniteSet(V) /\ Cardinality(V) \in 1 .. c /\ Cardinality(U) \in 1 .. c
    BY <1>5
  <2> HIDE DEF U, V
  <2>3. Cardinality(U) <= Cardinality(V) /\ Cardinality(U) # Cardinality(V)
    BY <2>1, <2>2, FS_Subset
  <2>4. Cardinality(U) < Cardinality(V)
    BY <1>2, <2>2, <2>3
  <2>5. QED
    BY <2>4 DEF U, V
<1> DEFINE Count(e) == Cardinality(UpTo(e))
<1>a. c \in Nat /\ \A e \in I : Count(e) \in 1 .. c
  BY <1>2, <1>5
<1>b. \A e, f \in I : e < f => Count(e) < Count(f)
  BY <1>6
<1>c. Rank = [e \in I |-> Count(e)]
  OBVIOUS
<1>d. \A e \in I : Count(e) = Cardinality({f \in I : f <= e})
  OBVIOUS
<1> HIDE DEF Count, c, Rank
<1>7. Rank \in Injection(I, 1 .. c)
  <2>1. Rank \in [I -> 1 .. c]
    BY <1>a, <1>c
  <2>2. ASSUME NEW e \in I, NEW f \in I, Rank[e] = Rank[f] PROVE e = f
    <3>1. Count(e) = Count(f) /\ Count(e) \in 1 .. c /\ e \in Nat /\ f \in Nat
      BY <1>1, <1>3, <1>a, <1>c, <2>2
    <3>2. ~(e < f) /\ ~(f < e)
      BY <1>a, <1>b, <3>1
    <3>3. QED
      BY <3>1, <3>2
  <2>3. QED
    BY <2>1, <2>2 DEF Injection, IsInjective
<1>8. Rank \in Surjection(I, 1 .. c)
  <2> DEFINE J == 1 .. c
  <2>1. IsFiniteSet(J) /\ Cardinality(J) = Cardinality(I)
    BY <1>a, FS_Interval DEF c
  <2>2. Rank \in Injection(I, J)
    BY <1>7
  <2> HIDE DEF J
  <2>3. Rank \in Surjection(I, J)
    BY <2>1, <2>2, FS_Injection
  <2>4. QED
    BY <2>3 DEF J
<1>9. \A e \in I : Rank[e] = Cardinality({f \in I : f <= e}) /\ Rank[e] \in 1 .. c
  BY <1>a, <1>c, <1>d
<1>10. \A k \in 1 .. c : \E e \in I : Rank[e] = k
  BY <1>8 DEF Surjection
<1>11. \A e, f \in I : Rank[e] = Rank[f] => e = f
  BY <1>7 DEF Injection, IsInjective
<1>12. ASSUME NEW k \in 1 .. c PROVE Nth(k) \in I /\ Rank[Nth(k)] = k
  <2>1. \E e \in I : Cardinality({f \in I : f <= e}) = k
    BY <1>9, <1>10
  <2>2. Nth(k) \in I /\ Cardinality({f \in I : f <= Nth(k)}) = k
    BY <2>1
  <2> HIDE DEF Nth
  <2>3. QED
    BY <1>9, <2>2
<1> HIDE DEF Nth
<1>13. ASSUME NEW e \in I PROVE Nth(Rank[e]) = e /\ Rank[e] \in 1 .. c
  BY <1>9, <1>11, <1>12
<1>14. DOMAIN s = 1 .. c /\ \A k \in 1 .. c : s[k] = l[Nth(k)]
  BY <1>4
<1>15. s \in Seq(S)
  <2>1. s \in [1 .. c -> S]
    BY <1>1, <1>3, <1>4, <1>12
  <2>2. QED
    BY <1>a, <2>1, SeqDef
<1>16. ASSUME NEW j \in DOMAIN s PROVE \E e \in DOMAIN l : l[e] \in T /\ s[j] = l[e]
  BY <1>3, <1>12, <1>14
<1>17. ASSUME NEW e \in DOMAIN l, l[e] \in T PROVE \E j \in DOMAIN s : s[j] = l[e]
  <2>1. e \in I
    BY <1>3, <1>17
  <2>2. QED
    BY <1>13, <1>14, <2>1
<1>18. ASSUME IsInjective(l) PROVE IsInjective(s)
  <2>1. ASSUME NEW j \in DOMAIN s, NEW k \in DOMAIN s, s[j] = s[k] PROVE j = k
    <3>1. l[Nth(j)] = l[Nth(k)] /\ Nth(j) \in I /\ Nth(k) \in I
      BY <1>12, <1>14, <2>1
    <3>2. Nth(j) = Nth(k)
      BY <1>3, <1>18, <3>1 DEF IsInjective
    <3>3. QED
      BY <1>12, <1>14, <3>2
  <2>2. QED
    BY <2>1 DEF IsInjective
<1>19. QED
  BY <1>15, <1>16, <1>17, <1>18 DEF s

\* Nothing moves to a list that is long enough.
LEMMA MovingIs ==
    ASSUME NEW S, NEW T, NEW r \in Seq(S), NEW v \in Seq(T)
    PROVE  /\ Moving(r, v) \in 0 .. Len(r)
           /\ Len(v) > H => Moving(r, v) = 0
<1> DEFINE room == IF Len(v) <= H THEN H + 1 - Len(v) ELSE 0
           M == {m \in 0 .. Len(r) : m <= room /\ \A e \in Len(r) - m + 1 .. Len(r) :
                                                     IsOldEnough(r[e])}
<1>1. Moving(r, v) = Max(M)
  BY DEF Moving
<1>2. H \in Nat /\ Len(r) \in Nat /\ Len(v) \in Nat
  BY SlotFacts, LenProperties
<1>3. room \in Nat
  BY <1>2
<1>4. M \in SUBSET Nat /\ M \subseteq 0 .. Len(r) /\ \A m \in M : m <= Len(r) /\ m <= room
  BY <1>2
<1>5. 0 \in M
  BY <1>2, <1>3
<1> HIDE DEF M
<1>6. \E m \in M : \A x \in M : x <= m
  BY <1>2, <1>4, <1>5, HasGreatest
<1>7. \E m \in M : \A x \in M : m >= x
  BY <1>4, <1>6
<1>8. Max(M) \in M
  BY <1>7 DEF Max
<1>9. Len(v) > H => room = 0
  BY <1>2
<1> DEFINE m == Max(M)
<1>10. m \in 0 .. Len(r) /\ m \in Nat /\ m <= room
  BY <1>4, <1>8
<1> HIDE DEF room, m
<1>11. Len(v) > H => m = 0
  BY <1>9, <1>10
<1>12. QED
  BY <1>1, <1>10, <1>11 DEF m

\* r2 and v2 are r and v after the last k entries of r have gone to the head of v.
MovedOver(r, v, k, r2, v2) ==
    /\ Len(r2) = Len(r) - k
    /\ \A e \in 1 .. Len(r) - k : r2[e] = r[e]
    /\ Len(v2) = k + Len(v)
    /\ \A e \in 1 .. k : v2[e] = r[Len(r) - k + e]
    /\ \A e \in 1 .. Len(v) : v2[k + e] = v[e]

LEMMA PartsAreMoved ==
    ASSUME NEW S, NEW r \in Seq(S), NEW v \in Seq(S), NEW k \in 0 .. Len(r)
    PROVE  /\ SubSeq(r, 1, Len(r) - k) \in Seq(S)
           /\ SubSeq(r, Len(r) - k + 1, Len(r)) \in Seq(S)
           /\ SubSeq(r, Len(r) - k + 1, Len(r)) \o v \in Seq(S)
           /\ Len(SubSeq(r, Len(r) - k + 1, Len(r))) = k
           /\ Len(SubSeq(r, 1, Len(r) - k)) = Len(r) - k
           /\ MovedOver(r, v, k, SubSeq(r, 1, Len(r) - k),
                                 SubSeq(r, Len(r) - k + 1, Len(r)) \o v)
<1> DEFINE L == Len(r)
           a == L - k
           low == SubSeq(r, 1, a)
           up == SubSeq(r, a + 1, L)
<1>1. L \in Nat /\ a \in 0 .. L /\ k \in 0 .. L /\ L - a = k /\ Len(v) \in Nat /\ a \in Nat
  BY LenProperties
<1>2. low \in Seq(S) /\ Len(low) = a /\ \A e \in 1 .. a : low[e] = r[e]
  <2>1. /\ SubSeq(r, 0 + 1, a) \in Seq(S) /\ Len(SubSeq(r, 0 + 1, a)) = a - 0
        /\ \A e \in 1 .. a - 0 : SubSeq(r, 0 + 1, a)[e] = r[0 + e]
    <3> HIDE DEF a
    <3>1. 0 \in Nat /\ a \in 0 .. Len(r) /\ 0 <= a
      BY <1>1
    <3>2. QED
      BY <3>1, PartIs
  <2>2. 0 + 1 = 1 /\ a - 0 = a /\ \A e \in 1 .. a : 0 + e = e
    BY <1>1
  <2> HIDE DEF a
  <2>3. QED
    BY <2>1, <2>2
<1>3. up \in Seq(S) /\ Len(up) = k /\ \A e \in 1 .. k : up[e] = r[a + e]
  <2>1. a \in Nat /\ L \in 0 .. Len(r) /\ a <= L
    BY <1>1
  <2> HIDE DEF a, L
  <2>2. /\ SubSeq(r, a + 1, L) \in Seq(S) /\ Len(SubSeq(r, a + 1, L)) = L - a
        /\ \A e \in 1 .. L - a : SubSeq(r, a + 1, L)[e] = r[a + e]
    BY <2>1, PartIs
  <2>3. QED
    BY <1>1, <2>2
<1> HIDE DEF low, up
<1>4. /\ up \o v \in Seq(S)
      /\ Len(up \o v) = Len(up) + Len(v)
      /\ \A i \in 1 .. Len(up) + Len(v) :
            (up \o v)[i] = IF i <= Len(up) THEN up[i] ELSE v[i - Len(up)]
  BY <1>3, ConcatProperties
<1>5. ASSUME NEW e \in 1 .. k PROVE (up \o v)[e] = r[a + e]
  <2>1. e \in 1 .. k + Len(v) /\ e <= k
    BY <1>1
  <2>2. QED
    BY <1>3, <1>4, <2>1
<1>6. ASSUME NEW e \in 1 .. Len(v) PROVE (up \o v)[k + e] = v[e]
  <2>1. k + e \in 1 .. k + Len(v) /\ ~(k + e <= k) /\ (k + e) - k = e
    BY <1>1
  <2>2. QED
    BY <1>3, <1>4, <2>1
<1>7. Len(up \o v) = k + Len(v)
  BY <1>3, <1>4
<1> HIDE DEF a
<1>8. MovedOver(r, v, k, low, up \o v) /\ Len(low) = a /\ Len(up) = k
  BY <1>2, <1>3, <1>5, <1>6, <1>7 DEF MovedOver, a
<1>9. QED
  BY <1>2, <1>3, <1>4, <1>8 DEF a, low, up

\* To move i entries and then m is to move i + m entries.
LEMMA MovedTwice ==
    ASSUME NEW S, NEW r \in Seq(S), NEW v \in Seq(S), NEW i \in 0 .. Len(r),
           NEW r1 \in Seq(S), NEW v1 \in Seq(S), NEW m \in 0 .. Len(r1),
           NEW r2, NEW v2,
           MovedOver(r, v, i, r1, v1), MovedOver(r1, v1, m, r2, v2)
    PROVE  MovedOver(r, v, i + m, r2, v2) /\ i + m \in 0 .. Len(r)
<1>1. Len(r) \in Nat /\ Len(v) \in Nat /\ Len(r1) = Len(r) - i /\ Len(v1) = i + Len(v)
  BY LenProperties DEF MovedOver
<1>2. i + m \in 0 .. Len(r) /\ Len(r) - (i + m) = Len(r1) - m
  BY <1>1
<1>3. Len(r2) = Len(r) - (i + m) /\ Len(v2) = (i + m) + Len(v)
  BY <1>1 DEF MovedOver
<1>4. ASSUME NEW e \in 1 .. Len(r) - (i + m) PROVE r2[e] = r[e]
  <2>1. e \in 1 .. Len(r1) - m /\ e \in 1 .. Len(r) - i
    BY <1>1
  <2>2. QED
    BY <2>1 DEF MovedOver
<1>5. ASSUME NEW e \in 1 .. i + m PROVE v2[e] = r[Len(r) - (i + m) + e]
  <2>1. CASE e <= m
    <3>1. e \in 1 .. m /\ Len(r1) - m + e \in 1 .. Len(r) - i
             /\ Len(r1) - m + e = Len(r) - (i + m) + e
      BY <1>1, <2>1
    <3>2. v2[e] = r1[Len(r1) - m + e]
      BY <3>1 DEF MovedOver
    <3>3. QED
      BY <3>1, <3>2 DEF MovedOver
  <2>2. CASE ~(e <= m)
    <3> DEFINE d == e - m
    <3>1. d \in 1 .. i /\ m + d = e /\ d \in 1 .. Len(v1)
             /\ Len(r) - i + d = Len(r) - (i + m) + e
      BY <1>1, <2>2
    <3> HIDE DEF d
    <3>2. v2[m + d] = v1[d] /\ v1[d] = r[Len(r) - i + d]
      BY <3>1 DEF MovedOver
    <3>3. QED
      BY <3>1, <3>2
  <2>3. QED
    BY <2>1, <2>2
<1>6. ASSUME NEW e \in 1 .. Len(v) PROVE v2[(i + m) + e] = v[e]
  <2>1. i + e \in 1 .. Len(v1) /\ m + (i + e) = (i + m) + e
    BY <1>1
  <2>2. v2[m + (i + e)] = v1[i + e] /\ v1[i + e] = v[e]
    BY <2>1 DEF MovedOver
  <2>3. QED
    BY <2>1, <2>2
<1>7. QED
  BY <1>2, <1>3, <1>4, <1>5, <1>6 DEF MovedOver

\* What free_node_later does to the lists: one list, the new node first, of which
\* the tail goes over to vlist; the nodes that do are marked, but for the one that
\* smr_lazy.c adds to a vlist that is long enough.
LEMMA ListsAfterFree ==
    ASSUME TypeOK, NEW t \in Threads, victim[t] \in Nodes, FreeNodeLater(t)
    PROVE  LET r0 == <<victim[t]>> \o rlist[t]
           IN /\ rlist'[t] \in Seq(Nodes) /\ vlist'[t] \in Seq(Nodes)
              /\ marked \subseteq marked' /\ marked' \subseteq Nodes
              /\ pc'[t] = "mark" => Len(vlist'[t]) > H
              /\ \E k \in 0 .. Len(r0) :
                    /\ MovedOver(r0, vlist[t], k, rlist'[t], vlist'[t])
                    /\ \/ \A e \in 1 .. k : vlist'[t][e] \in marked'
                       \/ k = 1 /\ Len(vlist'[t]) > H
<1> DEFINE r0 == <<victim[t]>> \o rlist[t]
           v == vlist[t]
           i == FirstMove(r0)
           r1 == SubSeq(r0, 1, Len(r0) - i)
           v1 == SubSeq(r0, Len(r1) + 1, Len(r0)) \o vlist[t]
           m1 == IF i = 1 /\ FirstMark(v1) THEN {Head(v1)} ELSE {}
           m  == Moving(r1, v1)
           r2 == SubSeq(r1, 1, Len(r1) - m)
           up == SubSeq(r1, Len(r1) - m + 1, Len(r1))
           v2 == up \o v1
<1>1. rlist[t] \in Seq(Nodes) /\ v \in Seq(Nodes) /\ H \in Nat \ {0} /\ Len(v) \in Nat
  BY SlotFacts, LenProperties DEF TypeOK
<1>2. r0 \in Seq(Nodes) /\ Len(r0) \in Nat \ {0}
  <2>1. Len(rlist[t]) \in Nat
    BY <1>1, LenProperties
  <2>2. r0 \in Seq(Nodes) /\ Len(r0) = Len(rlist[t]) + 1
    BY <1>1, ConsIs
  <2>3. QED
    BY <2>1, <2>2
<1>3. /\ rlist'[t] = r2 /\ vlist'[t] = v2
      /\ marked' = marked \cup m1 \cup ToSet(up)
      /\ pc'[t] = IF IF Aged THEN Len(v1) > H ELSE Len(v2) > H THEN "mark" ELSE "op"
  BY DEF TypeOK, FreeNodeLater, EntryMarks
<1> HIDE DEF r0, v
<1>4. i \in 0 .. Len(r0) /\ i \in {0, 1}
  BY <1>2 DEF FirstMove
<1> HIDE DEF i
<1>5. /\ r1 \in Seq(Nodes) /\ Len(r1) = Len(r0) - i
      /\ v1 \in Seq(Nodes)
      /\ MovedOver(r0, v, i, r1, v1)
  <2>1. /\ SubSeq(r0, 1, Len(r0) - i) \in Seq(Nodes)
        /\ Len(SubSeq(r0, 1, Len(r0) - i)) = Len(r0) - i
        /\ SubSeq(r0, Len(r0) - i + 1, Len(r0)) \o v \in Seq(Nodes)
        /\ MovedOver(r0, v, i, SubSeq(r0, 1, Len(r0) - i),
                               SubSeq(r0, Len(r0) - i + 1, Len(r0)) \o v)
    BY <1>1, <1>2, <1>4, PartsAreMoved
  <2>2. Len(r1) = Len(r0) - i
    BY <2>1
  <2>3. v1 = SubSeq(r0, Len(r0) - i + 1, Len(r0)) \o v
    BY <2>2 DEF v
  <2>4. QED
    BY <2>1, <2>2, <2>3
<1> HIDE DEF r1, v1
<1>6. Len(v1) > 0 => Head(v1) = v1[1]
  <2>1. Len(v1) \in Nat /\ DOMAIN v1 = 1 .. Len(v1)
    BY <1>5, LenProperties
  <2>2. QED
    BY <1>5, <2>1
<1>7. m \in 0 .. Len(r1) /\ (Len(v1) > H => m = 0)
  BY <1>5, MovingIs
<1> HIDE DEF m
<1>8. /\ r2 \in Seq(Nodes) /\ up \in Seq(Nodes) /\ v2 \in Seq(Nodes) /\ Len(up) = m
      /\ MovedOver(r1, v1, m, r2, v2)
  BY <1>5, <1>7, PartsAreMoved
<1>9. \A e \in 1 .. m : up[e] \in ToSet(up) /\ v2[e] = up[e]
  <2>1. \A e \in 1 .. m : up[e] \in ToSet(up)
    BY <1>8, SeqFacts
  <2>2. /\ Len(up \o v1) = Len(up) + Len(v1)
        /\ \A j \in 1 .. Len(up) + Len(v1) :
              (up \o v1)[j] = IF j <= Len(up) THEN up[j] ELSE v1[j - Len(up)]
    BY <1>5, <1>8, ConcatProperties
  <2>3. Len(v1) \in Nat /\ m \in Nat
    BY <1>5, <1>7, LenProperties
  <2> HIDE DEF up
  <2>4. QED
    BY <1>8, <2>1, <2>2, <2>3
<1> HIDE DEF r2, up, v2
<1>10. MovedOver(r0, v, i + m, r2, v2) /\ i + m \in 0 .. Len(r0)
  BY <1>1, <1>2, <1>4, <1>5, <1>7, <1>8, MovedTwice
<1>11. Len(v1) = i + Len(v) /\ Len(v2) = m + Len(v1) /\ m \in Nat
  BY <1>5, <1>7, <1>8, LenProperties DEF MovedOver
<1>12. i = 1 => v1[1] \in Nodes /\ Len(v1) > 0
  <2>1. i = 1 => 1 \in 1 .. Len(v1)
    BY <1>1, <1>11
  <2>2. QED
    BY <1>1, <1>5, <1>11, <2>1, ElementOfSeq
<1>13. m1 \subseteq Nodes /\ ToSet(up) \subseteq Nodes
  BY <1>6, <1>8, <1>12, SeqFacts
<1>14. marked \subseteq marked' /\ marked' \subseteq Nodes
  BY <1>3, <1>13 DEF TypeOK
<1>15. pc'[t] = "mark" => Len(v2) > H
  BY <1>1, <1>3, <1>4, <1>11
<1>16. (\A e \in 1 .. i + m : v2[e] \in marked') \/ (i + m = 1 /\ Len(v2) > H)
  <2>1. CASE i = 1 /\ Len(v1) > H
    BY <1>7, <1>11, <2>1
  <2>2. CASE ~(i = 1 /\ Len(v1) > H)
    <3>1. ASSUME NEW e \in 1 .. i + m PROVE v2[e] \in marked'
      <4>1. CASE e \in 1 .. m
        BY <1>3, <1>9, <4>1
      <4>2. CASE e \notin 1 .. m
        <5>1. e = m + 1 /\ i = 1 /\ Len(v1) <= H /\ 1 \in 1 .. Len(v1)
          BY <1>1, <1>4, <1>11, <2>2, <4>2
        <5>2. v2[e] = v1[1]
          BY <1>8, <5>1 DEF MovedOver
        <5>3. v1[1] \in m1
          BY <1>6, <1>12, <5>1 DEF FirstMark
        <5>4. QED
          BY <1>3, <5>2, <5>3
      <4>3. QED
        BY <4>1, <4>2
    <3>2. QED
      BY <3>1
  <2>3. QED
    BY <2>1, <2>2
<1>17. QED
  BY <1>3, <1>8, <1>10, <1>14, <1>15, <1>16 DEF r0, v

\* What a rotation does to vlist.
RotationKeeps(t) ==
    LET x == Last(vlist[t])
    IN /\ x \in Marked(t) /\ marked' = Marked(t) \ {x}
       /\ Len(vlist'[t]) = Len(vlist[t]) /\ vlist'[t][1] = x
       /\ \A e \in 1 .. Len(vlist[t]) - 1 : vlist'[t][e + 1] = vlist[t][e]
       /\ pool'[t] = pool[t] /\ rcount'[t] = rcount[t]

RotationFrees(t) ==
    LET x == Last(vlist[t])
    IN /\ x \notin Marked(t) /\ marked' = Marked(t)
       /\ Len(vlist'[t]) = Len(vlist[t]) - 1
       /\ \A e \in 1 .. Len(vlist[t]) - 1 : vlist'[t][e] = vlist[t][e]
       /\ pool'[t] = pool[t] \cup {x} /\ rcount'[t] = rcount[t] - 1

LEMMA RotateIs ==
    ASSUME TypeOK, NEW t \in Threads, Len(vlist[t]) > 0, Rotate(t)
    PROVE  /\ vlist'[t] \in Seq(Nodes) /\ rlist'[t] = rlist[t]
           /\ Last(vlist[t]) \in Nodes /\ Last(vlist[t]) = vlist[t][Len(vlist[t])]
           /\ Len(vlist[t]) \in Nat \ {0}
           /\ RotationKeeps(t) \/ RotationFrees(t)
<1> DEFINE v == vlist[t]  x == Last(vlist[t])  f == Front(vlist[t])
<1>1. v \in Seq(Nodes) /\ Len(v) \in Nat \ {0}
  BY LenProperties DEF TypeOK
<1>2. /\ f \in Seq(Nodes) /\ Len(f) = Len(v) - 1 /\ \A e \in 1 .. Len(v) - 1 : f[e] = v[e]
      /\ x \in Nodes /\ x = v[Len(v)]
  BY <1>1, FrontLast
<1>3. /\ DOMAIN vlist = Threads /\ DOMAIN rlist = Threads /\ DOMAIN pool = Threads
      /\ DOMAIN rcount = Threads
  BY DEF TypeOK
<1>4. rlist'[t] = rlist[t]
  BY DEF Rotate
<1>5. CASE x \in Marked(t)
  <2>1. /\ marked' = Marked(t) \ {x} /\ vlist' = [vlist EXCEPT ![t] = <<Last(@)>> \o Front(@)]
        /\ pool'[t] = pool[t] /\ rcount'[t] = rcount[t]
    BY <1>5 DEF Rotate, Unmarked
  <2>2. vlist'[t] = <<x>> \o f
    BY <1>3, <2>1
  <2> HIDE DEF v, x, f
  <2>3. /\ <<x>> \o f \in Seq(Nodes) /\ Len(<<x>> \o f) = Len(f) + 1 /\ (<<x>> \o f)[1] = x
        /\ \A e \in 1 .. Len(f) : (<<x>> \o f)[e + 1] = f[e]
    BY <1>2, ConsIs
  <2>4. Len(vlist'[t]) = Len(v)
    BY <1>1, <1>2, <2>2, <2>3
  <2>5. \A e \in 1 .. Len(v) - 1 : vlist'[t][e + 1] = v[e]
    BY <1>2, <2>2, <2>3
  <2>6. RotationKeeps(t)
    BY <1>5, <2>1, <2>2, <2>3, <2>4, <2>5 DEF RotationKeeps, v, x
  <2>7. QED
    BY <1>1, <1>2, <1>4, <2>2, <2>3, <2>6 DEF v, x
<1>6. CASE x \notin Marked(t)
  <2>1. /\ marked' = Marked(t) /\ vlist' = [vlist EXCEPT ![t] = Front(@)]
        /\ pool'[t] = pool[t] \cup {x} /\ rcount'[t] = rcount[t] - 1
    BY <1>3, <1>6 DEF Rotate, Give, FreedCount
  <2>2. vlist'[t] = f
    BY <1>3, <2>1
  <2>3. RotationFrees(t)
    BY <1>2, <1>6, <2>1, <2>2 DEF RotationFrees
  <2>4. QED
    BY <1>1, <1>2, <1>4, <2>2, <2>3
<1>7. QED
  BY <1>5, <1>6

\* The last step of a scan: what it keeps of the two lists, and what it frees.
LastOfScan(t) == ScanStep(t) /\ ~(idx[t] + 1 < H)

SeenAll(t) == plist[t] \cup ({HP[idx[t]]} \ {NULL})

LEMMA ScanKeeps ==
    ASSUME TypeOK, NEW t \in Threads, LastOfScan(t)
    PROVE  /\ rlist'[t] \in Seq(Nodes) /\ vlist'[t] \in Seq(Nodes)
           /\ rcount'[t] = Len(rlist'[t]) + Len(vlist'[t])
           /\ \A e \in DOMAIN rlist'[t] : rlist'[t][e] \in ToSet(rlist[t])
           /\ \A e \in DOMAIN vlist'[t] : vlist'[t][e] \in ToSet(vlist[t])
           /\ IsInjective(rlist[t]) => IsInjective(rlist'[t])
           /\ IsInjective(vlist[t]) => IsInjective(vlist'[t])
           /\ RetiredBy(t) \cap SeenAll(t) \subseteq RetiredBy(t)'
           /\ RetiredBy(t)' \subseteq RetiredBy(t)
           /\ pool'[t] = pool[t] \cup (RetiredBy(t) \ RetiredBy(t)')
<1> DEFINE seen == SeenAll(t)
           S == seen \cup {n \in RetiredBy(t) : ~IsOldEnough(n)}
           kr == Sublist(rlist[t], S)
           kv == Sublist(vlist[t], seen)
<1>1. rlist[t] \in Seq(Nodes) /\ vlist[t] \in Seq(Nodes)
  BY DEF TypeOK
<1>2. DOMAIN rlist = Threads /\ DOMAIN vlist = Threads /\ DOMAIN rcount = Threads
         /\ DOMAIN pool = Threads
  BY DEF TypeOK
<1>3. Kept(t, seen) = [rlist |-> kr, vlist |-> kv]
  BY DEF Kept
<1>4. /\ rlist'[t] = kr /\ vlist'[t] = kv /\ rcount'[t] = Len(kr) + Len(kv)
      /\ pool'[t] = pool[t] \cup (RetiredBy(t) \ (ToSet(kr) \cup ToSet(kv)))
  <2> HIDE DEF kr, kv
  <2>1. /\ rlist' = [rlist EXCEPT ![t] = Kept(t, seen).rlist]
        /\ vlist' = [vlist EXCEPT ![t] = Kept(t, seen).vlist]
        /\ rcount' = [rcount EXCEPT ![t] = Counted(Kept(t, seen))]
        /\ Give(t, RetiredBy(t) \ (ToSet(Kept(t, seen).rlist) \cup ToSet(Kept(t, seen).vlist)))
    BY DEF LastOfScan, ScanStep, SeenAll
  <2>2. Kept(t, seen).rlist = kr /\ Kept(t, seen).vlist = kv
           /\ Counted(Kept(t, seen)) = Len(kr) + Len(kv)
    BY <1>3 DEF Counted
  <2> HIDE DEF seen
  <2>3. rlist'[t] = kr /\ vlist'[t] = kv /\ rcount'[t] = Len(kr) + Len(kv)
    BY <1>2, <2>1, <2>2
  <2>4. pool'[t] = pool[t] \cup (RetiredBy(t) \ (ToSet(kr) \cup ToSet(kv)))
    BY <1>2, <2>1, <2>2 DEF Give
  <2>5. QED
    BY <2>3, <2>4
<1> HIDE DEF S, seen
<1>5. /\ kr \in Seq(Nodes)
      /\ \A j \in DOMAIN kr : \E e \in DOMAIN rlist[t] : rlist[t][e] \in S /\ kr[j] = rlist[t][e]
      /\ \A e \in DOMAIN rlist[t] : rlist[t][e] \in S => \E j \in DOMAIN kr : kr[j] = rlist[t][e]
      /\ IsInjective(rlist[t]) => IsInjective(kr)
  BY <1>1, SublistIs
<1>6. /\ kv \in Seq(Nodes)
      /\ \A j \in DOMAIN kv :
            \E e \in DOMAIN vlist[t] : vlist[t][e] \in seen /\ kv[j] = vlist[t][e]
      /\ \A e \in DOMAIN vlist[t] :
            vlist[t][e] \in seen => \E j \in DOMAIN kv : kv[j] = vlist[t][e]
      /\ IsInjective(vlist[t]) => IsInjective(kv)
  BY <1>1, SublistIs
<1> HIDE DEF kr, kv
<1>7. /\ \A e \in DOMAIN kr : kr[e] \in ToSet(rlist[t])
      /\ \A e \in DOMAIN kv : kv[e] \in ToSet(vlist[t])
  BY <1>5, <1>6 DEF ToSet
<1>8. RetiredBy(t)' = ToSet(kr) \cup ToSet(kv)
  BY <1>4 DEF RetiredBy, ToSet
<1>9. RetiredBy(t) \cap seen \subseteq ToSet(kr) \cup ToSet(kv)
  <2>1. seen \subseteq S
    BY DEF S
  <2>2. QED
    BY <1>5, <1>6, <2>1 DEF RetiredBy, ToSet
<1>10. ToSet(kr) \cup ToSet(kv) \subseteq RetiredBy(t)
  BY <1>7 DEF RetiredBy, ToSet
<1>11. QED
  BY <1>4, <1>5, <1>6, <1>7, <1>8, <1>9, <1>10 DEF seen

-----------------------------------------------------------------------------
(* Typing.                                                                 *)

LEMMA InitType == Init => TypeOK
<1> SUFFICES ASSUME Init PROVE TypeOK
  OBVIOUS
<1>1. linked \in SUBSET Nodes /\ pool \in [Threads -> SUBSET Nodes]
  BY DEF Init
<1>2. /\ guarded \in [Slots -> Nodes \cup {NULL}] /\ HP \in [Slots -> Nodes \cup {NULL}]
      /\ victim \in [Threads -> Nodes \cup {NULL}] /\ cur \in [Threads -> Nodes \cup {NULL}]
  BY DEF Init
<1>3. slot \in [Threads -> Slots]
  <2>1. \A t \in Threads : K * t + 0 \in Own(t) /\ K * t + 0 = K * t
    <3>1. 0 \in 0 .. K - 1 /\ \A t \in Threads : K * t \in Nat
      BY NAssumption DEF Threads
    <3>2. QED
      BY <3>1, SlotFacts
  <2>2. QED
    BY <2>1, SlotFacts DEF Init
<1>4. rlist \in [Threads -> Seq(Nodes)] /\ vlist \in [Threads -> Seq(Nodes)]
  <2>1. <<>> \in Seq(Nodes)
    OBVIOUS
  <2>2. QED
    BY <2>1 DEF Init
<1>5. old \in SUBSET Nodes /\ marked \in SUBSET Nodes /\ plist \in [Threads -> SUBSET Nodes]
  BY DEF Init
<1>6. /\ rcount \in [Threads -> Nat] /\ HPcur \in [Threads -> Slots]
      /\ idx \in [Threads -> 0 .. H - 1]
  BY SlotFacts DEF Init, Slots
<1>7. pc \in [Threads -> PCs] /\ caller \in [Threads -> Callers]
  BY DEF Init, PCs, Callers
<1>8. QED
  BY <1>1, <1>2, <1>3, <1>4, <1>5, <1>6, <1>7 DEF TypeOK

\* There is a node at the tail when vlist is rotated, and rcount counts it.
LEMMA VlistIsLong ==
    ASSUME TypeOK, ControlInv, RcountIsLength, NEW t \in Threads,
           pc[t] \in {"mark", "rotate"}
    PROVE  Len(vlist[t]) \in Nat /\ Len(vlist[t]) > H /\ Len(vlist[t]) > 0
              /\ rcount[t] - 1 \in Nat
<1>1. Len(vlist[t]) \in Nat /\ Len(rlist[t]) \in Nat
  BY LenProperties DEF TypeOK
<1>2. Len(vlist[t]) > H
  BY DEF ControlInv, ControlOf
<1>3. rcount[t] = Len(rlist[t]) + Len(vlist[t])
  BY DEF RcountIsLength
<1>4. H \in Nat \ {0}
  BY SlotFacts
<1> DEFINE l == Len(vlist[t])  m == Len(rlist[t])  c == rcount[t]
<1>5. l \in Nat /\ m \in Nat /\ l > H /\ c = m + l
  BY <1>1, <1>2, <1>3
<1> HIDE DEF l, m, c
<1>6. l > 0 /\ c - 1 \in Nat
  BY <1>4, <1>5
<1>7. QED
  BY <1>5, <1>6 DEF l, m, c

LEMMA UnguardType ==
    ASSUME TypeOK, NEW t \in Threads, Unguard(t)
    PROVE  guarded' \in [Slots -> Nodes \cup {NULL}]
BY DEF TypeOK, Unguard

LEMMA CallScanType ==
    ASSUME TypeOK, NEW t \in Threads, NEW c \in Callers, CallScan(t, c)
    PROVE  /\ pc' \in [Threads -> PCs] /\ caller' \in [Threads -> Callers]
           /\ plist' \in [Threads -> SUBSET Nodes] /\ idx' \in [Threads -> 0 .. H - 1]
<1>1. "scan" \in PCs /\ 0 \in 0 .. H - 1
  BY SlotFacts DEF PCs
<1>2. QED
  BY <1>1 DEF CallScan, TypeOK


LEMMA TypeStep ==
    ASSUME TypeOK, ControlInv, RcountIsLength, NEW t \in Threads, Step(t)
    PROVE  TypeOK'
<1> USE DEF TypeOK, Goto, client, lists, scanner, control
<1>pcs. /\ "op" \in PCs /\ "check" \in PCs /\ "free" \in PCs /\ "mark" \in PCs
        /\ "rotate" \in PCs /\ "clear" \in PCs /\ "exit" \in PCs /\ "exited" \in PCs
        /\ "scan" \in PCs /\ "insert" \in Callers /\ "exit" \in Callers
  BY DEF PCs, Callers
<1>h. H \in Nat \ {0} /\ K \in Nat \ {0} /\ K <= H /\ Slots = 0 .. H - 1
  BY SlotFacts DEF Slots
<1>1. ASSUME NEW i \in Own(t), NEW n \in Nodes \cup {NULL}, Publish(t, i, n) PROVE TypeOK'
  <2>1. i \in Slots
    BY SlotFacts
  <2>2. HP' \in [Slots -> Nodes \cup {NULL}] /\ guarded' \in [Slots -> Nodes \cup {NULL}]
    BY <1>1, <2>1 DEF Publish
  <2>3. pc' \in [Threads -> PCs] /\ slot' \in [Threads -> Slots]
    BY <1>1, <1>pcs, <2>1 DEF Publish
  <2>4. QED
    BY <1>1, <2>2, <2>3 DEF Publish
<1>2. ASSUME NEW n \in Nodes, Insert(t, n) PROVE TypeOK'
  <2>1. /\ linked' \in SUBSET Nodes /\ pool' \in [Threads -> SUBSET Nodes]
        /\ marked' \in SUBSET Nodes
    BY <1>2 DEF Insert
  <2>2. QED
    BY <1>2, <2>1, UnguardType DEF Insert
<1>3. ASSUME NEW n \in Nodes, Unlink(t, n) PROVE TypeOK'
  <2>1. /\ linked' \in SUBSET Nodes /\ victim' \in [Threads -> Nodes \cup {NULL}]
        /\ pc' \in [Threads -> PCs]
    BY <1>3, <1>pcs DEF Unlink
  <2>2. QED
    BY <1>3, <2>1 DEF Unlink
<1>4. CASE EndOperation(t)
  BY <1>4, UnguardType DEF EndOperation
<1>5. CASE InsertFindsNoNode(t)
  BY <1>5, <1>pcs, CallScanType DEF InsertFindsNoNode
<1>6. CASE Validate(t)
  <2>1. guarded' \in [Slots -> Nodes \cup {NULL}] /\ pc' \in [Threads -> PCs]
    BY <1>6, <1>pcs DEF Validate
  <2>2. QED
    BY <1>6, <2>1 DEF Validate
<1>7. CASE FreeNodeLater(t)
  <2>1. victim[t] \in Nodes
    BY <1>7 DEF FreeNodeLater, ControlInv, ControlOf
  <2>2. rlist'[t] \in Seq(Nodes) /\ vlist'[t] \in Seq(Nodes) /\ marked' \in SUBSET Nodes
    <3>1. TypeOK
      OBVIOUS
    <3> HIDE DEF TypeOK
    <3>2. QED
      BY <1>7, <2>1, <3>1, ListsAfterFree
  <2>3. rlist' \in [Threads -> Seq(Nodes)] /\ vlist' \in [Threads -> Seq(Nodes)]
    BY <1>7, <2>2 DEF FreeNodeLater
  <2>4. /\ rcount' = [rcount EXCEPT ![t] = @ + 1] /\ victim' = [victim EXCEPT ![t] = NULL]
        /\ \E c \in {"mark", "op"} : pc' = [pc EXCEPT ![t] = c]
    BY <1>7 DEF FreeNodeLater
  <2>5. rcount' \in [Threads -> Nat] /\ victim' \in [Threads -> Nodes \cup {NULL}]
    BY <2>4
  <2>6. pc' \in [Threads -> PCs]
    BY <1>pcs, <2>4
  <2>7. QED
    BY <1>7, <2>2, <2>3, <2>5, <2>6 DEF FreeNodeLater
<1>8. CASE ReadHPcur(t)
  <2>1. cur' \in [Threads -> Nodes \cup {NULL}] /\ pc' \in [Threads -> PCs]
    BY <1>8, <1>pcs DEF ReadHPcur
  <2>2. QED
    BY <1>8, <2>1 DEF ReadHPcur
<1>9. CASE Rotate(t)
  <2>1. Len(vlist[t]) > 0 /\ rcount[t] - 1 \in Nat
    BY <1>9, VlistIsLong DEF Rotate
  <2>2. /\ vlist'[t] \in Seq(Nodes) /\ Last(vlist[t]) \in Nodes
        /\ RotationKeeps(t) \/ RotationFrees(t)
    <3>1. TypeOK
      OBVIOUS
    <3> HIDE DEF TypeOK
    <3>2. QED
      BY <1>9, <2>1, <3>1, RotateIs
  <2>3. vlist' \in [Threads -> Seq(Nodes)]
    BY <1>9, <2>2 DEF Rotate
  <2>4. marked' \in SUBSET Nodes
    BY <1>9 DEF Rotate, Marked, Unmarked
  <2>5. /\ pool' \in [Threads -> SUBSET Nodes] /\ old' \in SUBSET Nodes
        /\ rcount' \in [Threads -> Nat]
    <3>1. rcount' = rcount \/ rcount' = [rcount EXCEPT ![t] = rcount[t] - 1]
      BY <1>9 DEF Rotate, FreedCount
    <3>2. rcount' \in [Threads -> Nat]
      BY <2>1, <3>1
    <3>3. \/ pool' = pool /\ old' = old
          \/ /\ pool' = [pool EXCEPT ![t] = @ \cup {Last(vlist[t])}]
             /\ old' = old \ {Last(vlist[t])}
      BY <1>9 DEF Rotate, Give
    <3>4. pool' \in [Threads -> SUBSET Nodes] /\ old' \in SUBSET Nodes
      <4>1. CASE pool' = pool /\ old' = old
        BY <4>1
      <4>2. CASE pool' # pool \/ old' # old
        <5>1. PICK x \in Nodes : /\ pool' = [pool EXCEPT ![t] = @ \cup {x}]
                                 /\ old' = old \ {x}
          BY <2>2, <3>3, <4>2
        <5>2. QED
          BY <5>1
      <4>3. QED
        BY <4>1, <4>2
    <3>5. QED
      BY <3>2, <3>4
  <2>6. HPcur' \in [Threads -> Slots]
    <3>1. NextSlot(t) \in Slots
      BY SlotsBeforeIs, SlotFacts DEF Slots
    <3>2. QED
      BY <1>9, <3>1 DEF Rotate
  <2>7. cur' \in [Threads -> Nodes \cup {NULL}] /\ pc' \in [Threads -> PCs]
    BY <1>9, <1>pcs DEF Rotate
  <2>8. QED
    BY <1>9, <2>3, <2>4, <2>5, <2>6, <2>7 DEF Rotate
<1>10. CASE ScanStep(t)
  <2>1. CASE idx[t] + 1 < H
    <3>1. idx[t] \in Slots /\ idx[t] \in 0 .. H - 1
      BY <1>h
    <3>2. idx[t] + 1 \in 0 .. H - 1
      BY <1>h, <2>1, <3>1
    <3> DEFINE seen == plist[t] \cup ({HP[idx[t]]} \ {NULL})
    <3>3. seen \subseteq Nodes
      BY <3>1
    <3>4. /\ plist' = [plist EXCEPT ![t] = seen]
          /\ idx' = [idx EXCEPT ![t] = idx[t] + 1]
      BY <1>10, <2>1 DEF ScanStep
    <3> HIDE DEF seen
    <3>5. plist' \in [Threads -> SUBSET Nodes]
      BY <3>3, <3>4
    <3>6. idx' \in [Threads -> 0 .. H - 1]
      BY <3>2, <3>4
    <3>7. QED
      BY <1>10, <2>1, <3>5, <3>6 DEF ScanStep
  <2>2. CASE ~(idx[t] + 1 < H)
    <3>1. /\ rlist'[t] \in Seq(Nodes) /\ vlist'[t] \in Seq(Nodes)
          /\ rcount'[t] = Len(rlist'[t]) + Len(vlist'[t])
      <4>1. TypeOK /\ LastOfScan(t)
        BY <1>10, <2>2 DEF LastOfScan
      <4> HIDE DEF TypeOK
      <4>2. QED
        BY <4>1, ScanKeeps
    <3>2. rlist' \in [Threads -> Seq(Nodes)] /\ vlist' \in [Threads -> Seq(Nodes)]
      BY <1>10, <2>2, <3>1 DEF ScanStep
    <3>3. rcount'[t] \in Nat
      <4>1. Len(rlist'[t]) \in Nat /\ Len(vlist'[t]) \in Nat
        BY <3>1, LenProperties
      <4> DEFINE a == Len(rlist'[t])  b == Len(vlist'[t])
      <4>2. a \in Nat /\ b \in Nat /\ rcount'[t] = a + b
        BY <3>1, <4>1
      <4> HIDE DEF a, b, TypeOK
      <4>3. QED
        BY <4>2
    <3>4. rcount' \in [Threads -> Nat]
      BY <1>10, <2>2, <3>3 DEF ScanStep
    <3>5. RetiredBy(t) \subseteq Nodes
      BY SeqFacts DEF RetiredBy
    <3>6. pool' \in [Threads -> SUBSET Nodes] /\ old' \in SUBSET Nodes
      <4>1. PICK freed \in SUBSET RetiredBy(t) : Give(t, freed)
        BY <1>10, <2>2 DEF ScanStep
      <4>2. QED
        BY <3>5, <4>1 DEF Give
    <3>7. plist' \in [Threads -> SUBSET Nodes] /\ idx' \in [Threads -> 0 .. H - 1]
      <4>1. plist' = [plist EXCEPT ![t] = {}] /\ idx' = [idx EXCEPT ![t] = 0]
        BY <1>10, <2>2 DEF ScanStep
      <4>2. 0 \in 0 .. H - 1
        BY <1>h
      <4>3. QED
        BY <4>1, <4>2
    <3>8. pc' \in [Threads -> PCs] /\ caller' \in [Threads -> Callers]
      <4>1. AfterScan[caller[t]] \in PCs
        BY <1>pcs DEF AfterScan, Callers
      <4>2. /\ pc' = [pc EXCEPT ![t] = AfterScan[caller[t]]]
            /\ caller' = [caller EXCEPT ![t] = "insert"]
        BY <1>10, <2>2 DEF ScanStep
      <4>3. QED
        BY <1>pcs, <4>1, <4>2
    <3>9. QED
      BY <1>10, <3>2, <3>4, <3>6, <3>7, <3>8 DEF ScanStep
  <2>3. QED
    BY <2>1, <2>2
<1>11. CASE StartExit(t)
  <2>1. rlist' \in [Threads -> Seq(Nodes)] /\ vlist' \in [Threads -> Seq(Nodes)]
    <3>1. vlist[t] \o rlist[t] \in Seq(Nodes) /\ <<>> \in Seq(Nodes)
      BY ConcatProperties
    <3>2. QED
      BY <1>11, <3>1 DEF StartExit
  <2>2. pc' \in [Threads -> PCs]
    BY <1>11, <1>pcs DEF StartExit
  <2>3. QED
    BY <1>11, <2>1, <2>2, UnguardType DEF StartExit
<1>12. CASE ClearHazardPointer(t)
  <2>1. K * t + idx[t] \in Slots /\ idx[t] < K
    <3>1. idx[t] < K /\ idx[t] \in 0 .. K - 1
      BY <1>12, SlotFacts DEF ClearHazardPointer, ControlInv, ControlOf
    <3>2. QED
      BY <3>1, SlotFacts
  <2>2. HP' \in [Slots -> Nodes \cup {NULL}]
    BY <1>12, <2>1 DEF ClearHazardPointer, Cleared
  <2>3. idx' \in [Threads -> 0 .. H - 1]
    <3>1. 0 \in 0 .. H - 1 /\ (idx[t] + 1 < K => idx[t] + 1 \in 0 .. H - 1)
      <4>1. idx[t] \in 0 .. H - 1
        OBVIOUS
      <4>2. QED
        BY <1>h, <4>1
    <3>2. QED
      BY <1>12, <3>1 DEF ClearHazardPointer
  <2>4. pc' \in [Threads -> PCs]
    BY <1>12, <1>pcs DEF ClearHazardPointer
  <2>5. QED
    BY <1>12, <2>2, <2>3, <2>4 DEF ClearHazardPointer
<1>13. CASE ScanAtExit(t)
  BY <1>13, <1>pcs, CallScanType DEF ScanAtExit
<1>14. CASE FinishExit(t)
  BY <1>14, <1>pcs DEF FinishExit
<1>15. QED
  BY <1>1, <1>2, <1>3, <1>4, <1>5, <1>6, <1>7, <1>8, <1>9, <1>10, <1>11, <1>12,
     <1>13, <1>14 DEF Step, Operate, Proceed

LEMMA TypeElapse == ASSUME TypeOK, Elapse PROVE TypeOK'
BY DEF TypeOK, Elapse, TurnOld, client, scanner, control

-----------------------------------------------------------------------------
(* Control.                                                                *)

\* A step of t leaves alone what belongs to the other threads.
LEMMA ThreadsFrame ==
    ASSUME TypeOK, NEW t \in Threads, Step(t), NEW u \in Threads, u # t
    PROVE  /\ pc'[u] = pc[u] /\ caller'[u] = caller[u] /\ victim'[u] = victim[u]
           /\ slot'[u] = slot[u] /\ idx'[u] = idx[u] /\ plist'[u] = plist[u]
           /\ HPcur'[u] = HPcur[u] /\ cur'[u] = cur[u] /\ rcount'[u] = rcount[u]
           /\ rlist'[u] = rlist[u] /\ vlist'[u] = vlist[u] /\ pool'[u] = pool[u]
<1>dom. /\ DOMAIN pc = Threads /\ DOMAIN caller = Threads /\ DOMAIN victim = Threads
        /\ DOMAIN slot = Threads /\ DOMAIN idx = Threads /\ DOMAIN plist = Threads
        /\ DOMAIN HPcur = Threads /\ DOMAIN cur = Threads /\ DOMAIN rcount = Threads
        /\ DOMAIN rlist = Threads /\ DOMAIN vlist = Threads /\ DOMAIN pool = Threads
  BY DEF TypeOK
<1> USE <1>dom DEF Goto, client, lists, scanner, control
<1>1. CASE \E i \in Own(t), n \in Nodes \cup {NULL} : Publish(t, i, n)
  BY <1>1 DEF Publish
<1>2. CASE \E n \in Nodes : Insert(t, n) \/ Unlink(t, n)
  BY <1>2 DEF Insert, Unlink
<1>3. CASE EndOperation(t) \/ StartExit(t) \/ FinishExit(t)
  BY <1>3 DEF EndOperation, StartExit, FinishExit
<1>4. CASE InsertFindsNoNode(t) \/ ScanAtExit(t)
  BY <1>4 DEF InsertFindsNoNode, ScanAtExit, CallScan
<1>5. CASE Validate(t)
  BY <1>5 DEF Validate
<1>6. CASE FreeNodeLater(t)
  BY <1>6 DEF FreeNodeLater
<1>7. CASE ReadHPcur(t)
  BY <1>7 DEF ReadHPcur
<1>8. CASE Rotate(t)
  BY <1>8 DEF Rotate, Give
<1>9. CASE ScanStep(t)
  BY <1>9 DEF ScanStep, Give
<1>10. CASE ClearHazardPointer(t)
  BY <1>10 DEF ClearHazardPointer
<1>11. QED
  BY <1>1, <1>2, <1>3, <1>4, <1>5, <1>6, <1>7, <1>8, <1>9, <1>10
     DEF Step, Operate, Proceed

\* Nor does it change the slots of others.
LEMMA SlotsFrame ==
    ASSUME TypeOK, ControlInv, NEW t \in Threads, Step(t),
           NEW i \in Slots, i \notin Own(t)
    PROVE  guarded'[i] = guarded[i] /\ HP'[i] = HP[i]
<1>dom. DOMAIN guarded = Slots /\ DOMAIN HP = Slots /\ slot[t] \in Own(t)
  BY DEF TypeOK, ControlInv, ControlOf
<1> USE <1>dom DEF Goto, client, lists, scanner, control
<1>1. CASE \E j \in Own(t), n \in Nodes \cup {NULL} : Publish(t, j, n)
  BY <1>1 DEF Publish
<1>2. CASE Validate(t)
  BY <1>2 DEF Validate
<1>3. ASSUME Unguard(t), UNCHANGED HP PROVE guarded'[i] = guarded[i] /\ HP'[i] = HP[i]
  BY <1>3 DEF Unguard
<1>4. CASE ClearHazardPointer(t)
  <2>1. idx[t] < K /\ idx[t] \in Nat
    BY <1>4, SlotFacts DEF ClearHazardPointer, ControlInv, ControlOf, TypeOK
  <2>2. K * t + idx[t] \in Own(t)
    BY <2>1, SlotFacts
  <2>3. QED
    BY <1>4, <2>2 DEF ClearHazardPointer
<1>5. CASE UNCHANGED <<guarded, HP>>
  BY <1>5
<1>6. QED
  BY <1>1, <1>2, <1>3, <1>4, <1>5
     DEF Step, Operate, Proceed, Insert, Unlink, EndOperation, InsertFindsNoNode,
         FreeNodeLater, ReadHPcur, Rotate, ScanStep, ScanAtExit, FinishExit, StartExit

LEMMA OwnControlStep ==
    ASSUME TypeOK, ControlInv, NEW t \in Threads, Step(t)
    PROVE  ControlOf(t)'
<1>dom. /\ DOMAIN pc = Threads /\ DOMAIN victim = Threads /\ DOMAIN slot = Threads
        /\ DOMAIN idx = Threads /\ DOMAIN vlist = Threads /\ DOMAIN caller = Threads
        /\ DOMAIN guarded = Slots
        /\ \A i \in Own(t) : i \in Slots
        /\ idx[t] \in Nat /\ H \in Nat \ {0} /\ K \in Nat \ {0} /\ NULL \notin Nodes
  BY SlotFacts, NodesAssumption DEF TypeOK
<1>old. ControlOf(t)
  BY DEF ControlInv
<1> USE <1>dom, <1>old DEF ControlOf, Goto, client, lists, scanner, control
<1>1. CASE \E i \in Own(t), n \in Nodes \cup {NULL} : Publish(t, i, n)
  BY <1>1 DEF Publish
<1>2. CASE \E n \in Nodes : Insert(t, n)
  BY <1>2 DEF Insert
<1>3. CASE \E n \in Nodes : Unlink(t, n)
  BY <1>3 DEF Unlink
<1>4. CASE EndOperation(t)
  BY <1>4 DEF EndOperation
<1>5. CASE InsertFindsNoNode(t)
  BY <1>5 DEF InsertFindsNoNode, CallScan
<1>6. CASE Validate(t)
  BY <1>6 DEF Validate
<1>7. CASE FreeNodeLater(t)
  <2>1. victim[t] \in Nodes
    BY <1>7 DEF FreeNodeLater, TypeOK
  <2>2. pc'[t] = "mark" => Len(vlist'[t]) > H
    <3>1. ControlInv
      OBVIOUS
    <3> HIDE DEF ControlOf
    <3>2. QED
      BY <1>7, <2>1, <3>1, ListsAfterFree
  <2>3. /\ pc'[t] \in {"mark", "op"} /\ victim'[t] = NULL /\ slot' = slot /\ idx' = idx
        /\ pc[t] = "free"
    BY <1>7 DEF FreeNodeLater
  <2>4. QED
    BY <2>2, <2>3
<1>8. CASE ReadHPcur(t)
  BY <1>8 DEF ReadHPcur
<1>9. CASE Rotate(t)
  BY <1>9 DEF Rotate
<1>10. CASE ScanStep(t)
  <2>1. CASE idx[t] + 1 < H
    BY <1>10, <2>1 DEF ScanStep
  <2>2. CASE ~(idx[t] + 1 < H)
    <3>1. AfterScan[caller[t]] \in {"op", "exit"}
      BY DEF AfterScan, TypeOK, Callers
    <3>2. /\ pc'[t] \in {"op", "exit"} /\ victim' = victim /\ slot' = slot /\ idx'[t] = 0
          /\ pc[t] = "scan"
      BY <1>10, <2>2, <3>1 DEF ScanStep
    <3>3. QED
      BY <3>2
  <2>3. QED
    BY <2>1, <2>2
<1>11. CASE StartExit(t)
  <2>1. \A i \in Own(t) : guarded'[i] = NULL
    BY <1>11 DEF StartExit, Unguard
  <2>2. /\ pc'[t] = "clear" /\ victim' = victim /\ slot' = slot /\ idx' = idx /\ pc[t] = "op"
    BY <1>11 DEF StartExit
  <2>3. QED
    BY <2>1, <2>2
<1>12. CASE ClearHazardPointer(t)
  BY <1>12 DEF ClearHazardPointer
<1>13. CASE ScanAtExit(t)
  BY <1>13 DEF ScanAtExit, CallScan
<1>14. CASE FinishExit(t)
  BY <1>14 DEF FinishExit
<1>15. QED
  BY <1>1, <1>2, <1>3, <1>4, <1>5, <1>6, <1>7, <1>8, <1>9, <1>10, <1>11, <1>12,
     <1>13, <1>14 DEF Step, Operate, Proceed

LEMMA ControlStep ==
    ASSUME TypeOK, ControlInv, NEW t \in Threads, Step(t)
    PROVE  ControlInv'
<1>1. ControlOf(t)'
  BY OwnControlStep
<1>2. ASSUME NEW u \in Threads, u # t PROVE ControlOf(u)'
  <2>1. \A i \in Own(u) : guarded'[i] = guarded[i]
    <3>1. \A i \in Own(u) : i \in Slots /\ i \notin Own(t)
      BY <1>2, SlotFacts, OwnDisjoint
    <3>2. QED
      BY <3>1, SlotsFrame
  <2>2. QED
    BY <1>2, <2>1, ThreadsFrame DEF ControlInv, ControlOf
<1>3. QED
  BY <1>1, <1>2 DEF ControlInv

-----------------------------------------------------------------------------
(* What is in the two lists.                                               *)

LEMMA ConsKeeps ==
    ASSUME NEW S, NEW x \in S, NEW r \in Seq(S), NEW v \in Seq(S)
    PROVE  LET r0 == <<x>> \o r
           IN /\ r0 \in Seq(S) /\ Len(r0) = Len(r) + 1
              /\ ToSet(r0) = ToSet(r) \cup {x}
              /\ Apart(r, v) /\ x \notin ToSet(r) \cup ToSet(v) => Apart(r0, v)
<1> DEFINE r0 == <<x>> \o r
<1>1. /\ r0 \in Seq(S) /\ Len(r0) = Len(r) + 1 /\ r0[1] = x
      /\ \A e \in 1 .. Len(r) : r0[e + 1] = r[e]
  BY ConsIs
<1>2. /\ Len(r) \in Nat /\ DOMAIN r = 1 .. Len(r) /\ DOMAIN r0 = 1 .. Len(r0)
  BY <1>1, LenProperties
<1> HIDE DEF r0
<1>3. ASSUME NEW e \in DOMAIN r0
      PROVE  e = 1 \/ (e - 1 \in DOMAIN r /\ r0[e] = r[e - 1])
  <2>1. e # 1 => e - 1 \in 1 .. Len(r) /\ (e - 1) + 1 = e
    BY <1>1, <1>2
  <2>2. QED
    BY <1>1, <1>2, <2>1
<1>4. 1 \in DOMAIN r0 /\ \A e \in DOMAIN r : e + 1 \in DOMAIN r0 /\ r0[e + 1] = r[e]
  BY <1>1, <1>2
<1>5. ToSet(r0) = ToSet(r) \cup {x}
  <2>1. ToSet(r0) \subseteq ToSet(r) \cup {x}
    <3>1. ASSUME NEW y \in ToSet(r0) PROVE y \in ToSet(r) \cup {x}
      <4>1. PICK e \in DOMAIN r0 : r0[e] = y
        BY DEF ToSet
      <4>2. e # 1 => r[e - 1] \in ToSet(r)
        BY <1>3 DEF ToSet
      <4>3. QED
        BY <1>1, <1>3, <4>1, <4>2
    <3>2. QED
      BY <3>1
  <2>2. ToSet(r) \cup {x} \subseteq ToSet(r0)
    BY <1>1, <1>4 DEF ToSet
  <2>3. QED
    BY <2>1, <2>2
<1>6. ASSUME Apart(r, v), x \notin ToSet(r) \cup ToSet(v) PROVE Apart(r0, v)
  <2>1. \A e \in DOMAIN r : r[e] # x
    BY <1>6 DEF ToSet
  <2>2. \A e \in DOMAIN v : v[e] # x
    BY <1>6 DEF ToSet
  <2>3. ASSUME NEW e \in DOMAIN r0, NEW f \in DOMAIN r0, r0[e] = r0[f] PROVE e = f
    <3>1. CASE e = 1 \/ f = 1
      BY <1>1, <1>3, <2>1, <2>3, <3>1
    <3>2. CASE e # 1 /\ f # 1
      <4>1. e - 1 = f - 1
        BY <1>3, <1>6, <2>3, <3>2 DEF Apart, IsInjective
      <4>2. QED
        BY <1>1, <1>2, <4>1
    <3>3. QED
      BY <3>1, <3>2
  <2>4. \A e \in DOMAIN r0, f \in DOMAIN v : r0[e] # v[f]
    BY <1>1, <1>3, <1>6, <2>2 DEF Apart
  <2>5. QED
    BY <1>6, <2>3, <2>4 DEF Apart, IsInjective
<1>7. QED
  BY <1>1, <1>5, <1>6 DEF r0

LEMMA MovedKeeps ==
    ASSUME NEW S, NEW r \in Seq(S), NEW v \in Seq(S), NEW r2 \in Seq(S), NEW v2 \in Seq(S),
           NEW k \in 0 .. Len(r), MovedOver(r, v, k, r2, v2)
    PROVE  /\ ToSet(r2) \cup ToSet(v2) = ToSet(r) \cup ToSet(v)
           /\ Apart(r, v) => Apart(r2, v2)
<1>1. /\ Len(r) \in Nat /\ DOMAIN r = 1 .. Len(r)
      /\ Len(v) \in Nat /\ DOMAIN v = 1 .. Len(v)
      /\ DOMAIN r2 = 1 .. Len(r2) /\ DOMAIN v2 = 1 .. Len(v2)
  BY LenProperties
<1> DEFINE a == Len(r) - k
<1>2. a \in Nat /\ a + k = Len(r) /\ k \in Nat /\ Len(r2) = a /\ Len(v2) = k + Len(v)
  BY <1>1 DEF MovedOver
<1>3. /\ \A e \in 1 .. a : r2[e] = r[e]
      /\ \A e \in 1 .. k : v2[e] = r[a + e]
      /\ \A e \in 1 .. Len(v) : v2[k + e] = v[e]
  BY DEF MovedOver
<1> HIDE DEF a
<1>4. \A e \in DOMAIN r2 : e \in DOMAIN r /\ e <= a /\ r2[e] = r[e]
  BY <1>1, <1>2, <1>3
<1>5. ASSUME NEW e \in DOMAIN v2
      PROVE  \/ e <= k /\ a + e \in DOMAIN r /\ v2[e] = r[a + e]
             \/ e > k /\ e - k \in DOMAIN v /\ v2[e] = v[e - k]
  <2>1. e > k => e - k \in 1 .. Len(v) /\ k + (e - k) = e
    BY <1>1, <1>2
  <2>2. e <= k => e \in 1 .. k /\ a + e \in 1 .. Len(r)
    BY <1>1, <1>2
  <2>3. e > k \/ e <= k
    BY <1>1, <1>2
  <2>4. QED
    BY <1>1, <1>3, <2>1, <2>2, <2>3
<1>6. ASSUME NEW e \in DOMAIN r
      PROVE  \/ e \in DOMAIN r2 /\ r2[e] = r[e]
             \/ e - a \in DOMAIN v2 /\ v2[e - a] = r[e]
  <2>1. e <= a => e \in 1 .. a
    BY <1>1, <1>2
  <2>2. ~(e <= a) => e - a \in 1 .. k /\ a + (e - a) = e /\ e - a \in 1 .. Len(v2)
    BY <1>1, <1>2
  <2>3. QED
    BY <1>1, <1>2, <1>3, <2>1, <2>2
<1>7. \A e \in DOMAIN v : k + e \in DOMAIN v2 /\ v2[k + e] = v[e]
  BY <1>1, <1>2, <1>3
<1>8. ToSet(r2) \cup ToSet(v2) = ToSet(r) \cup ToSet(v)
  <2>1. ToSet(r2) \cup ToSet(v2) \subseteq ToSet(r) \cup ToSet(v)
    <3>1. ToSet(r2) \subseteq ToSet(r)
      BY <1>4 DEF ToSet
    <3>2. ASSUME NEW y \in ToSet(v2) PROVE y \in ToSet(r) \cup ToSet(v)
      <4>1. PICK e \in DOMAIN v2 : v2[e] = y
        BY DEF ToSet
      <4>2. CASE a + e \in DOMAIN r /\ y = r[a + e]
        BY <4>2 DEF ToSet
      <4>3. CASE e - k \in DOMAIN v /\ y = v[e - k]
        BY <4>3 DEF ToSet
      <4>4. QED
        BY <1>5, <4>1, <4>2, <4>3
    <3>3. QED
      BY <3>1, <3>2
  <2>2. ToSet(r) \cup ToSet(v) \subseteq ToSet(r2) \cup ToSet(v2)
    BY <1>6, <1>7 DEF ToSet
  <2>3. QED
    BY <2>1, <2>2
<1>9. ASSUME Apart(r, v) PROVE Apart(r2, v2)
  <2>1. IsInjective(r2)
    BY <1>4, <1>9 DEF Apart, IsInjective
  <2>2. ASSUME NEW e \in DOMAIN v2, NEW f \in DOMAIN v2, v2[e] = v2[f] PROVE e = f
    <3>1. CASE e <= k /\ f <= k
      <4>1. a + e \in DOMAIN r /\ a + f \in DOMAIN r /\ r[a + e] = r[a + f]
        BY <1>1, <1>2, <1>5, <2>2, <3>1
      <4>2. a + e = a + f
        BY <1>9, <4>1 DEF Apart, IsInjective
      <4>3. QED
        BY <1>1, <1>2, <4>2
    <3>2. CASE e > k /\ f > k
      <4>1. e - k \in DOMAIN v /\ f - k \in DOMAIN v /\ v[e - k] = v[f - k]
        BY <1>1, <1>2, <1>5, <2>2, <3>2
      <4>2. e - k = f - k
        BY <1>9, <4>1 DEF Apart, IsInjective
      <4>3. QED
        BY <1>1, <1>2, <4>2
    <3>3. CASE e <= k /\ f > k
      BY <1>1, <1>2, <1>5, <1>9, <2>2, <3>3 DEF Apart
    <3>4. CASE e > k /\ f <= k
      BY <1>1, <1>2, <1>5, <1>9, <2>2, <3>4 DEF Apart
    <3>5. QED
      BY <1>1, <1>2, <3>1, <3>2, <3>3, <3>4
  <2>3. ASSUME NEW e \in DOMAIN r2, NEW f \in DOMAIN v2 PROVE r2[e] # v2[f]
    <3>1. e \in DOMAIN r /\ e <= a /\ r2[e] = r[e]
      BY <1>4
    <3>2. CASE f <= k /\ a + f \in DOMAIN r /\ v2[f] = r[a + f]
      <4>1. e # a + f
        BY <1>1, <1>2, <3>1
      <4>2. QED
        BY <1>9, <3>1, <3>2, <4>1 DEF Apart, IsInjective
    <3>3. CASE f - k \in DOMAIN v /\ v2[f] = v[f - k]
      BY <1>9, <3>1, <3>3 DEF Apart
    <3>4. QED
      BY <1>5, <3>2, <3>3
  <2>4. QED
    BY <2>1, <2>2, <2>3 DEF Apart, IsInjective
<1>10. QED
  BY <1>8, <1>9

LEMMA RotatedKeeps ==
    ASSUME NEW S, NEW r \in Seq(S), NEW v \in Seq(S), NEW v2 \in Seq(S), Len(v) > 0,
           Len(v2) = Len(v), v2[1] = v[Len(v)],
           \A e \in 1 .. Len(v) - 1 : v2[e + 1] = v[e]
    PROVE  /\ ToSet(v2) = ToSet(v)
           /\ Apart(r, v) => Apart(r, v2)
<1>1. /\ Len(v) \in Nat \ {0} /\ DOMAIN v = 1 .. Len(v) /\ DOMAIN v2 = 1 .. Len(v)
  BY LenProperties
<1> DEFINE Back(e) == IF e = 1 THEN Len(v) ELSE e - 1
<1>2. ASSUME NEW e \in DOMAIN v2 PROVE Back(e) \in DOMAIN v /\ v2[e] = v[Back(e)]
  <2>1. e # 1 => e - 1 \in 1 .. Len(v) - 1 /\ (e - 1) + 1 = e
    BY <1>1
  <2>2. QED
    BY <1>1, <2>1
<1>3. ASSUME NEW e \in DOMAIN v PROVE \E f \in DOMAIN v2 : v2[f] = v[e]
  <2>1. e # Len(v) => e \in 1 .. Len(v) - 1 /\ e + 1 \in 1 .. Len(v)
    BY <1>1
  <2>2. 1 \in DOMAIN v2
    BY <1>1
  <2>3. QED
    BY <1>1, <2>1, <2>2
<1>4. \A e, f \in DOMAIN v2 : Back(e) = Back(f) => e = f
  BY <1>1
<1> HIDE DEF Back
<1>5. ToSet(v2) = ToSet(v)
  <2>1. ToSet(v2) \subseteq ToSet(v)
    BY <1>2 DEF ToSet
  <2>2. ToSet(v) \subseteq ToSet(v2)
    BY <1>3 DEF ToSet
  <2>3. QED
    BY <2>1, <2>2
<1>6. ASSUME Apart(r, v) PROVE Apart(r, v2)
  BY <1>2, <1>4, <1>6 DEF Apart, IsInjective
<1>7. QED
  BY <1>5, <1>6

LEMMA WithoutLast ==
    ASSUME NEW S, NEW r \in Seq(S), NEW v \in Seq(S), NEW v2 \in Seq(S), Len(v) > 0,
           Len(v2) = Len(v) - 1, \A e \in 1 .. Len(v) - 1 : v2[e] = v[e],
           Apart(r, v)
    PROVE  /\ ToSet(v2) = ToSet(v) \ {v[Len(v)]} /\ v[Len(v)] \notin ToSet(r)
           /\ v[Len(v)] \in ToSet(v)
           /\ Apart(r, v2)
<1>1. /\ Len(v) \in Nat \ {0} /\ DOMAIN v = 1 .. Len(v) /\ DOMAIN v2 = 1 .. Len(v) - 1
  BY LenProperties
<1>2. \A e \in DOMAIN v2 : e \in DOMAIN v /\ e # Len(v) /\ v2[e] = v[e]
  BY <1>1
<1>3. \A e \in DOMAIN v : e # Len(v) => e \in DOMAIN v2 /\ v2[e] = v[e]
  BY <1>1
<1>4. Len(v) \in DOMAIN v
  BY <1>1
<1>5. ToSet(v2) = ToSet(v) \ {v[Len(v)]}
  <2>1. ToSet(v2) \subseteq ToSet(v) \ {v[Len(v)]}
    BY <1>2, <1>4 DEF Apart, IsInjective, ToSet
  <2>2. ToSet(v) \ {v[Len(v)]} \subseteq ToSet(v2)
    BY <1>3 DEF ToSet
  <2>3. QED
    BY <2>1, <2>2
<1>6. v[Len(v)] \notin ToSet(r) /\ v[Len(v)] \in ToSet(v)
  BY <1>4 DEF Apart, ToSet
<1>7. Apart(r, v2)
  BY <1>2 DEF Apart, IsInjective
<1>8. QED
  BY <1>5, <1>6, <1>7

LEMMA JoinedKeeps ==
    ASSUME NEW S, NEW r \in Seq(S), NEW v \in Seq(S)
    PROVE  /\ v \o r \in Seq(S) /\ Len(v \o r) = Len(r) + Len(v)
           /\ ToSet(v \o r) = ToSet(r) \cup ToSet(v)
           /\ Apart(r, v) => Apart(v \o r, <<>>)
<1> DEFINE j == v \o r
<1>1. /\ Len(v) \in Nat /\ DOMAIN v = 1 .. Len(v) /\ Len(r) \in Nat /\ DOMAIN r = 1 .. Len(r)
  BY LenProperties
<1>2. /\ j \in Seq(S) /\ Len(j) = Len(v) + Len(r)
      /\ \A i \in 1 .. Len(v) + Len(r) : j[i] = IF i <= Len(v) THEN v[i] ELSE r[i - Len(v)]
  BY ConcatProperties
<1>3. DOMAIN j = 1 .. Len(v) + Len(r)
  BY <1>2, LenProperties
<1> HIDE DEF j
<1>4. ASSUME NEW i \in DOMAIN j
      PROVE  \/ i <= Len(v) /\ i \in DOMAIN v /\ j[i] = v[i]
             \/ ~(i <= Len(v)) /\ i - Len(v) \in DOMAIN r /\ j[i] = r[i - Len(v)]
  BY <1>1, <1>2, <1>3
<1>5. \A i \in DOMAIN v : i \in DOMAIN j /\ j[i] = v[i]
  BY <1>1, <1>2, <1>3
<1>6. ASSUME NEW i \in DOMAIN r PROVE Len(v) + i \in DOMAIN j /\ j[Len(v) + i] = r[i]
  <2>1. /\ Len(v) + i \in 1 .. Len(v) + Len(r) /\ ~(Len(v) + i <= Len(v))
        /\ (Len(v) + i) - Len(v) = i
    BY <1>1
  <2>2. QED
    BY <1>2, <1>3, <2>1
<1>7. ToSet(j) = ToSet(r) \cup ToSet(v)
  <2>1. ASSUME NEW y \in ToSet(j) PROVE y \in ToSet(r) \cup ToSet(v)
    <3>1. PICK i \in DOMAIN j : j[i] = y
      BY DEF ToSet
    <3>2. CASE i \in DOMAIN v /\ j[i] = v[i]
      BY <3>1, <3>2 DEF ToSet
    <3>3. CASE i - Len(v) \in DOMAIN r /\ j[i] = r[i - Len(v)]
      BY <3>1, <3>3 DEF ToSet
    <3>4. QED
      BY <1>4, <3>2, <3>3
  <2>2. ToSet(r) \cup ToSet(v) \subseteq ToSet(j)
    BY <1>5, <1>6 DEF ToSet
  <2>3. QED
    BY <2>1, <2>2
<1>8. ASSUME Apart(r, v) PROVE Apart(j, <<>>)
  <2>1. ASSUME NEW e \in DOMAIN j, NEW f \in DOMAIN j, j[e] = j[f] PROVE e = f
    <3>1. e \in Nat /\ f \in Nat
      BY <1>3
    <3>2. ~(e <= Len(v)) /\ ~(f <= Len(v)) => e - Len(v) = f - Len(v)
      BY <1>4, <1>8, <2>1 DEF Apart, IsInjective
    <3>3. e <= Len(v) /\ f <= Len(v) => e = f
      BY <1>4, <1>8, <2>1 DEF Apart, IsInjective
    <3>4. e <= Len(v) <=> f <= Len(v)
      BY <1>4, <1>8, <2>1 DEF Apart
    <3>5. QED
      BY <1>1, <3>1, <3>2, <3>3, <3>4
  <2>2. QED
    BY <2>1 DEF Apart, IsInjective
<1>9. QED
  BY <1>1, <1>2, <1>7, <1>8 DEF j

-----------------------------------------------------------------------------
(* Where nodes are.                                                        *)

\* The steps that may give nodes of the two lists back.
Frees(t) == Rotate(t) \/ LastOfScan(t)

\* What a step of t does to its two lists, and to rcount.
ListsOf(t) ==
    /\ Apart(rlist[t], vlist[t]) /\ RetiredBy(t) \subseteq Nodes
    /\ rcount[t] = Len(rlist[t]) + Len(vlist[t])

LEMMA ListsOfStep ==
    ASSUME TypeOK, ControlInv, RcountIsLength, Located, ListsInv, NEW t \in Threads, Step(t)
    PROVE  /\ ListsOf(t)'
           /\ FreeNodeLater(t) => RetiredBy(t)' = RetiredBy(t) \cup {victim[t]}
           /\ Frees(t) => /\ RetiredBy(t)' \subseteq RetiredBy(t)
                          /\ pool'[t] = pool[t] \cup (RetiredBy(t) \ RetiredBy(t)')
           /\ ~FreeNodeLater(t) /\ ~Frees(t) => RetiredBy(t)' = RetiredBy(t)
<1> DEFINE r == rlist[t]  v == vlist[t]  r2 == rlist'[t]  v2 == vlist'[t]
<1>1. /\ r \in Seq(Nodes) /\ v \in Seq(Nodes) /\ Apart(r, v)
      /\ rcount[t] = Len(r) + Len(v)
      /\ Len(r) \in Nat /\ Len(v) \in Nat
  BY LenProperties DEF TypeOK, ListsInv, RcountIsLength
<1>2. TypeOK'
  BY TypeStep
<1>3. r2 \in Seq(Nodes) /\ v2 \in Seq(Nodes) /\ RetiredBy(t)' \subseteq Nodes
  <2>1. r2 \in Seq(Nodes) /\ v2 \in Seq(Nodes)
    BY <1>2 DEF TypeOK
  <2>2. ToSet(r2) \subseteq Nodes /\ ToSet(v2) \subseteq Nodes
    BY <2>1, SeqFacts
  <2>3. QED
    BY <2>1, <2>2 DEF RetiredBy, ToSet
<1>4. RetiredBy(t) = ToSet(r) \cup ToSet(v) /\ RetiredBy(t)' = ToSet(r2) \cup ToSet(v2)
  BY DEF RetiredBy, ToSet
<1>dom. /\ DOMAIN rlist = Threads /\ DOMAIN vlist = Threads /\ DOMAIN rcount = Threads
        /\ DOMAIN pool = Threads
  BY DEF TypeOK
<1> HIDE DEF r, v, r2, v2
<1>5. CASE FreeNodeLater(t)
  <2> DEFINE r0 == <<victim[t]>> \o rlist[t]
  <2>1. victim[t] \in Nodes
    BY <1>5 DEF FreeNodeLater, ControlInv, ControlOf, TypeOK
  <2>2. victim[t] \notin RetiredBy(t)
    BY <2>1 DEF Located, NotTwice
  <2>3. /\ r0 \in Seq(Nodes) /\ Len(r0) = Len(r) + 1 /\ ToSet(r0) = ToSet(r) \cup {victim[t]}
        /\ Apart(r0, v)
    BY <1>1, <1>4, <2>1, <2>2, ConsKeeps DEF r
  <2>4. PICK k \in 0 .. Len(r0) : MovedOver(r0, v, k, r2, v2)
    BY <1>5, <2>1, ListsAfterFree DEF v, r2, v2
  <2> HIDE DEF r0
  <2>5. ToSet(r2) \cup ToSet(v2) = ToSet(r0) \cup ToSet(v) /\ Apart(r2, v2)
    BY <1>1, <1>3, <2>3, <2>4, MovedKeeps
  <2>6. Len(r2) = Len(r0) - k /\ Len(v2) = k + Len(v)
    BY <2>4 DEF MovedOver
  <2>7. rcount'[t] = rcount[t] + 1
    BY <1>5, <1>dom DEF FreeNodeLater
  <2>8. rcount'[t] = Len(r2) + Len(v2)
    BY <1>1, <2>3, <2>4, <2>6, <2>7
  <2>9. ~Frees(t)
    BY <1>5 DEF Frees, LastOfScan, FreeNodeLater, Rotate, ScanStep, Goto
  <2>10. QED
    BY <1>3, <1>4, <1>5, <2>3, <2>5, <2>8, <2>9 DEF ListsOf, r2, v2
<1>6. CASE Rotate(t)
  <2>1. Len(v) > 0
    BY <1>6, VlistIsLong DEF Rotate, Goto, v
  <2>2. /\ r2 = r /\ Last(v) = v[Len(v)]
        /\ RotationKeeps(t) \/ RotationFrees(t)
    BY <1>6, <2>1, RotateIs DEF v, r, r2
  <2>3. ~FreeNodeLater(t) /\ Frees(t)
    BY <1>6 DEF Frees, FreeNodeLater, Rotate, Goto
  <2>4. CASE RotationKeeps(t)
    <3>1. /\ Len(v2) = Len(v) /\ v2[1] = v[Len(v)] /\ pool'[t] = pool[t]
          /\ \A e \in 1 .. Len(v) - 1 : v2[e + 1] = v[e]
          /\ rcount'[t] = rcount[t]
      BY <2>2, <2>4 DEF RotationKeeps, v, v2
    <3>2. ToSet(v2) = ToSet(v) /\ Apart(r, v2)
      BY <1>1, <1>3, <2>1, <3>1, RotatedKeeps
    <3>3. RetiredBy(t)' = RetiredBy(t)
      BY <1>4, <2>2, <3>2
    <3>4. QED
      BY <1>1, <1>3, <2>2, <2>3, <3>1, <3>2, <3>3 DEF ListsOf, r2, v2
  <2>5. CASE RotationFrees(t)
    <3>1. /\ Len(v2) = Len(v) - 1 /\ pool'[t] = pool[t] \cup {v[Len(v)]}
          /\ \A e \in 1 .. Len(v) - 1 : v2[e] = v[e]
          /\ rcount'[t] = rcount[t] - 1
      BY <2>2, <2>5 DEF RotationFrees, v, v2
    <3>2. /\ ToSet(v2) = ToSet(v) \ {v[Len(v)]} /\ v[Len(v)] \notin ToSet(r)
          /\ v[Len(v)] \in ToSet(v) /\ Apart(r, v2)
      BY <1>1, <1>3, <2>1, <3>1, WithoutLast
    <3>3. RetiredBy(t)' = RetiredBy(t) \ {v[Len(v)]} /\ v[Len(v)] \in RetiredBy(t)
      BY <1>4, <2>2, <3>2
    <3>4. RetiredBy(t) \ RetiredBy(t)' = {v[Len(v)]}
      BY <3>3
    <3>5. rcount'[t] = Len(r2) + Len(v2)
      BY <1>1, <2>2, <3>1
    <3>6. QED
      BY <1>3, <2>2, <2>3, <3>1, <3>2, <3>3, <3>4, <3>5 DEF ListsOf, r2, v2
  <2>6. QED
    BY <2>2, <2>4, <2>5
<1>7. CASE LastOfScan(t)
  <2>1. ~FreeNodeLater(t) /\ Frees(t)
    BY <1>7 DEF Frees, FreeNodeLater, LastOfScan, ScanStep
  <2>2. /\ rcount'[t] = Len(r2) + Len(v2)
        /\ \A e \in DOMAIN r2 : r2[e] \in ToSet(r)
        /\ \A e \in DOMAIN v2 : v2[e] \in ToSet(v)
        /\ IsInjective(r) => IsInjective(r2)
        /\ IsInjective(v) => IsInjective(v2)
        /\ RetiredBy(t)' \subseteq RetiredBy(t)
        /\ pool'[t] = pool[t] \cup (RetiredBy(t) \ RetiredBy(t)')
    BY <1>7, ScanKeeps DEF r, v, r2, v2
  <2>3. \A x \in ToSet(r), y \in ToSet(v) : x # y
    BY <1>1 DEF Apart, ToSet
  <2>4. Apart(r2, v2)
    BY <1>1, <2>2, <2>3 DEF Apart
  <2>5. QED
    BY <1>3, <2>1, <2>2, <2>4 DEF ListsOf, r2, v2
<1>8. CASE StartExit(t)
  <2>1. ~FreeNodeLater(t) /\ ~Frees(t)
    BY <1>8 DEF Frees, FreeNodeLater, LastOfScan, ScanStep, Rotate, StartExit, Goto
  <2>2. rcount'[t] = rcount[t]
    BY <1>8 DEF StartExit
  <2>3. CASE Aged
    <3>1. r2 = v \o r /\ v2 = <<>>
      BY <1>8, <1>dom, <2>3 DEF StartExit, r, v, r2, v2
    <3>2. Len(r2) = Len(r) + Len(v) /\ ToSet(r2) = ToSet(r) \cup ToSet(v) /\ Apart(r2, v2)
      BY <1>1, <3>1, JoinedKeeps
    <3>3. ToSet(v2) = {} /\ Len(v2) = 0
      BY <3>1 DEF ToSet
    <3>4. RetiredBy(t)' = RetiredBy(t)
      BY <1>4, <3>2, <3>3
    <3>5. rcount'[t] = Len(r2) + Len(v2)
      BY <1>1, <2>2, <3>2, <3>3
    <3>6. QED
      BY <1>3, <2>1, <3>2, <3>4, <3>5 DEF ListsOf, r2, v2
  <2>4. CASE ~Aged
    <3>1. r2 = r /\ v2 = v
      BY <1>8, <2>4 DEF StartExit, r, v, r2, v2
    <3>2. QED
      BY <1>1, <1>3, <1>4, <2>1, <2>2, <3>1 DEF ListsOf, r2, v2
  <2>5. QED
    BY <2>3, <2>4
<1>9. CASE ~FreeNodeLater(t) /\ ~Frees(t) /\ ~StartExit(t)
  <2>1. r2 = r /\ v2 = v /\ rcount'[t] = rcount[t]
    <3> USE DEF r, v, r2, v2, client, lists, scanner, control
    <3>1. CASE ScanStep(t)
      BY <1>9, <3>1 DEF Frees, LastOfScan, ScanStep
    <3>2. CASE UNCHANGED <<rlist, vlist, rcount>>
      BY <3>2
    <3>3. QED
      BY <1>9, <3>1, <3>2
         DEF Step, Operate, Proceed, Frees, Publish, Insert, Unlink, EndOperation,
             InsertFindsNoNode, Validate, ReadHPcur, ClearHazardPointer, ScanAtExit,
             FinishExit
  <2>2. QED
    BY <1>1, <1>3, <1>4, <1>9, <2>1 DEF ListsOf, r2, v2
<1>10. QED
  BY <1>5, <1>6, <1>7, <1>8, <1>9 DEF Frees

\* The lists of the other threads stay.
LEMMA RetiredByOthers ==
    ASSUME TypeOK, NEW t \in Threads, Step(t), NEW u \in Threads, u # t
    PROVE  RetiredBy(u)' = RetiredBy(u) /\ ListsOf(u)' = ListsOf(u)
BY ThreadsFrame DEF RetiredBy, ListsOf

LEMMA ListsStep ==
    ASSUME TypeOK, ControlInv, RcountIsLength, Located, ListsInv, NEW t \in Threads, Step(t)
    PROVE  RcountIsLength' /\ ListsInv'
<1>1. ASSUME NEW u \in Threads PROVE ListsOf(u)'
  <2>1. CASE u = t
    BY <2>1, ListsOfStep
  <2>2. CASE u # t
    <3>1. ListsOf(u)
      <4>1. RetiredBy(u) \subseteq Nodes
        BY SeqFacts DEF RetiredBy, TypeOK
      <4>2. QED
        BY <4>1 DEF ListsOf, ListsInv, RcountIsLength
    <3>2. QED
      BY <2>2, <3>1, RetiredByOthers
  <2>3. QED
    BY <2>1, <2>2
<1>2. QED
  BY <1>1 DEF ListsOf, ListsInv, RcountIsLength

\* What else changes the places of nodes.
LEMMA PlacesOfStep ==
    ASSUME TypeOK, ControlInv, NEW t \in Threads, Step(t)
    PROVE  \/ \E n \in Nodes : /\ Insert(t, n) /\ n \in pool[t]
                               /\ linked' = linked \cup {n} /\ pool'[t] = pool[t] \ {n}
                               /\ victim'[t] = victim[t]
           \/ \E n \in Nodes : /\ Unlink(t, n) /\ n \in linked /\ n \in Held(t)
                               /\ linked' = linked \ {n} /\ victim'[t] = n
                               /\ pool'[t] = pool[t] /\ victim[t] = NULL
           \/ /\ FreeNodeLater(t) /\ victim[t] \in Nodes /\ victim'[t] = NULL
              /\ linked' = linked /\ pool'[t] = pool[t]
           \/ Frees(t) /\ linked' = linked /\ victim'[t] = victim[t]
           \/ /\ ~(\E n \in Nodes : Insert(t, n) \/ Unlink(t, n))
              /\ ~FreeNodeLater(t) /\ ~Frees(t)
              /\ linked' = linked /\ pool'[t] = pool[t] /\ victim'[t] = victim[t]
<1>dom. DOMAIN pool = Threads /\ DOMAIN victim = Threads
  BY DEF TypeOK
<1> USE <1>dom DEF client, lists, scanner, control
<1>1. CASE \E n \in Nodes : Insert(t, n)
  BY <1>1 DEF Insert
<1>2. CASE \E n \in Nodes : Unlink(t, n)
  <2>1. PICK n \in Nodes : Unlink(t, n)
    BY <1>2
  <2>2. victim[t] = NULL
    BY <2>1 DEF Unlink, Goto, ControlInv, ControlOf
  <2>3. QED
    BY <2>1, <2>2 DEF Unlink
<1>3. CASE FreeNodeLater(t)
  BY <1>3 DEF FreeNodeLater, ControlInv, ControlOf, TypeOK
<1>4. CASE Frees(t)
  BY <1>4 DEF Frees, Rotate, LastOfScan, ScanStep
<1>5. CASE ~(\E n \in Nodes : Insert(t, n) \/ Unlink(t, n)) /\ ~FreeNodeLater(t) /\ ~Frees(t)
  <2>1. CASE ScanStep(t)
    BY <1>5, <2>1 DEF Frees, LastOfScan, ScanStep
  <2>2. CASE UNCHANGED <<linked, pool, victim>>
    BY <1>5, <2>2
  <2>3. QED
    BY <1>5, <2>1, <2>2
       DEF Step, Operate, Proceed, Frees, Publish, EndOperation, InsertFindsNoNode,
           Validate, ReadHPcur, ClearHazardPointer, ScanAtExit, FinishExit, StartExit
<1>6. QED
  BY <1>1, <1>2, <1>3, <1>4, <1>5

LEMMA PlaceStep ==
    ASSUME TypeOK, ControlInv, RcountIsLength, Located, ListsInv, NEW t \in Threads, Step(t)
    PROVE  Located'
<1> SUFFICES ASSUME NEW n \in Nodes PROVE NotTwice(n)'
  BY DEF Located
<1>old. NotTwice(n) /\ \A m \in Nodes : NotTwice(m)
  BY DEF Located
<1>null. NULL \notin Nodes
  BY NodesAssumption
<1>others. \A u \in Threads : u # t => /\ pool'[u] = pool[u] /\ victim'[u] = victim[u]
                                       /\ RetiredBy(u)' = RetiredBy(u)
  BY ThreadsFrame, RetiredByOthers
<1>own. /\ FreeNodeLater(t) => RetiredBy(t)' = RetiredBy(t) \cup {victim[t]}
        /\ Frees(t) => /\ RetiredBy(t)' \subseteq RetiredBy(t)
                       /\ pool'[t] = pool[t] \cup (RetiredBy(t) \ RetiredBy(t)')
        /\ ~FreeNodeLater(t) /\ ~Frees(t) => RetiredBy(t)' = RetiredBy(t)
  BY ListsOfStep
<1>1. ASSUME NEW m \in Nodes, Insert(t, m), m \in pool[t], linked' = linked \cup {m},
             pool'[t] = pool[t] \ {m}, victim'[t] = victim[t]
      PROVE  NotTwice(n)'
  <2>1. RetiredBy(t)' = RetiredBy(t)
    BY <1>1, <1>own DEF Insert, FreeNodeLater, Frees, Rotate, LastOfScan, ScanStep, Goto
  <2>2. QED
    BY <1>1, <1>old, <1>others, <2>1 DEF NotTwice
<1>2. ASSUME NEW m \in Nodes, Unlink(t, m), m \in linked, linked' = linked \ {m},
             victim'[t] = m, pool'[t] = pool[t], victim[t] = NULL
      PROVE  NotTwice(n)'
  <2>1. RetiredBy(t)' = RetiredBy(t)
    BY <1>2, <1>own DEF Unlink, FreeNodeLater, Frees, Rotate, LastOfScan, ScanStep, Goto
  <2>2. QED
    BY <1>2, <1>old, <1>others, <2>1 DEF NotTwice
<1>3. CASE /\ FreeNodeLater(t) /\ victim[t] \in Nodes /\ victim'[t] = NULL
           /\ linked' = linked /\ pool'[t] = pool[t]
  BY <1>3, <1>old, <1>others, <1>own, <1>null DEF NotTwice
<1>4. CASE Frees(t) /\ linked' = linked /\ victim'[t] = victim[t]
  BY <1>4, <1>old, <1>others, <1>own DEF NotTwice
<1>5. CASE /\ ~FreeNodeLater(t) /\ ~Frees(t)
           /\ linked' = linked /\ pool'[t] = pool[t] /\ victim'[t] = victim[t]
  BY <1>5, <1>old, <1>others, <1>own DEF NotTwice
<1>6. QED
  BY <1>1, <1>2, <1>3, <1>4, <1>5, PlacesOfStep

-----------------------------------------------------------------------------
(* Guards.                                                                 *)

\* A thread takes up a reference to a linked node only, and stores to a slot only
\* what it does not dereference.
LEMMA GuardsOfStep ==
    ASSUME TypeOK, ControlInv, GuardsArePublished, NEW t \in Threads, Step(t),
           NEW i \in Slots
    PROVE  /\ \/ guarded'[i] = guarded[i]
              \/ guarded'[i] = NULL
              \/ guarded'[i] \in linked /\ guarded'[i] = HP[i]
           /\ guarded'[i] # NULL => HP'[i] = HP[i]
           /\ \/ guarded'[i] = guarded[i]
              \/ pc[t] \in {"op", "check"}
<1>dom. DOMAIN guarded = Slots /\ DOMAIN HP = Slots /\ slot[t] \in Own(t)
  BY DEF TypeOK, ControlInv, ControlOf
<1> USE <1>dom DEF Goto, client, lists, scanner, control
<1>1. CASE \E j \in Own(t), n \in Nodes \cup {NULL} : Publish(t, j, n)
  BY <1>1 DEF Publish
<1>2. CASE Validate(t)
  BY <1>2 DEF Validate
<1>3. CASE Unguard(t) /\ pc[t] = "op" /\ UNCHANGED HP
  BY <1>3 DEF Unguard
<1>4. CASE ClearHazardPointer(t)
  <2>1. idx[t] < K /\ idx[t] \in Nat /\ \A j \in Own(t) : guarded[j] = NULL
    BY <1>4, SlotFacts DEF ClearHazardPointer, ControlInv, ControlOf, TypeOK
  <2>2. K * t + idx[t] \in Own(t)
    BY <2>1, SlotFacts
  <2>3. HP' = [HP EXCEPT ![K * t + idx[t]] = NULL] /\ guarded' = guarded
    BY <1>4 DEF ClearHazardPointer, Cleared
  <2> DEFINE j == K * t + idx[t]
  <2>4. j \in Own(t) /\ HP' = [HP EXCEPT ![j] = NULL]
    BY <2>2, <2>3
  <2> HIDE DEF j
  <2>5. i # j => HP'[i] = HP[i]
    BY <2>4
  <2>6. i = j => guarded[i] = NULL
    BY <2>1, <2>4
  <2>7. QED
    BY <2>3, <2>5, <2>6
<1>5. CASE UNCHANGED <<guarded, HP>>
  BY <1>5
<1>6. QED
  BY <1>1, <1>2, <1>3, <1>4, <1>5
     DEF Step, Operate, Proceed, Insert, Unlink, EndOperation, InsertFindsNoNode,
         FreeNodeLater, ReadHPcur, Rotate, ScanStep, ScanAtExit, FinishExit, StartExit

LEMMA PublishedStep ==
    ASSUME TypeOK, ControlInv, GuardsArePublished, NEW t \in Threads, Step(t)
    PROVE  GuardsArePublished'
<1>1. ASSUME NEW i \in Slots, guarded'[i] # NULL PROVE HP'[i] = guarded'[i]
  BY <1>1, GuardsOfStep DEF GuardsArePublished
<1>2. QED
  BY <1>1 DEF GuardsArePublished

-----------------------------------------------------------------------------
(* The invariant of the code, whatever the workload.                       *)

LEMMA InitInv == Init => Inv
<1> SUFFICES ASSUME Init PROVE Inv
  OBVIOUS
<1>1. TypeOK
  BY InitType
<1>2. ControlInv
  <2>1. \A t \in Threads : K * t \in Own(t)
    <3>1. 0 \in 0 .. K - 1 /\ \A t \in Threads : K * t \in Nat
      BY NAssumption DEF Threads
    <3>2. \A t \in Threads : K * t + 0 \in Own(t) /\ K * t + 0 = K * t
      BY <3>1, SlotFacts
    <3>3. QED
      BY <3>2
  <2>2. QED
    BY <2>1 DEF Init, ControlInv, ControlOf
<1>3. \A t \in Threads : rlist[t] = <<>> /\ vlist[t] = <<>> /\ victim[t] = NULL
  BY DEF Init
<1>4. \A t \in Threads : RetiredBy(t) = {}
  BY <1>3 DEF RetiredBy, ToSet
<1>5. RcountIsLength /\ ListsInv
  <2>1. Len(<<>>) = 0 /\ Apart(<<>>, <<>>) /\ 0 + 0 = 0
    BY DEF Apart, IsInjective
  <2>2. \A t \in Threads : rcount[t] = 0
    BY DEF Init
  <2>3. QED
    BY <1>3, <2>1, <2>2 DEF RcountIsLength, ListsInv
<1>6. Located
  <2>1. ASSUME NEW n \in Nodes PROVE NotTwice(n)
    <3>1. PICK owner : pool = [t \in Threads |-> {x \in Nodes \ linked : owner[x] = t}]
      BY DEF Init
    <3>2. \A t \in Threads : n \in pool[t] => n \notin linked /\ owner[n] = t
      BY <3>1
    <3>3. QED
      BY <1>3, <1>4, <3>2, NodesAssumption DEF NotTwice
  <2>2. QED
    BY <2>1 DEF Located
<1>7. GuardsArePublished
  BY DEF Init, GuardsArePublished
<1>8. QED
  BY <1>1, <1>2, <1>5, <1>6, <1>7 DEF Inv

LEMMA StepInv == ASSUME Inv, NEW t \in Threads, Step(t) PROVE Inv'
<1>1. TypeOK /\ ControlInv /\ RcountIsLength /\ Located /\ ListsInv /\ GuardsArePublished
  BY DEF Inv
<1>2. TypeOK' /\ ControlInv'
  BY <1>1, TypeStep, ControlStep
<1>3. RcountIsLength' /\ ListsInv' /\ Located' /\ GuardsArePublished'
  BY <1>1, ListsStep, PlaceStep, PublishedStep
<1>4. QED
  BY <1>2, <1>3 DEF Inv

\* Nodes that turn old move nothing.
LEMMA ElapseIs ==
    ASSUME Elapse \/ UNCHANGED vars
    PROVE  UNCHANGED <<client, HP, rlist, vlist, marked, rcount, scanner, control>>
BY DEF Elapse, TurnOld, vars, lists

LEMMA ElapseInv == ASSUME Inv, Elapse \/ UNCHANGED vars PROVE Inv'
<1>1. UNCHANGED <<client, HP, rlist, vlist, marked, rcount, scanner, control>>
  BY ElapseIs
<1>2. TypeOK'
  BY TypeElapse DEF Inv, TypeOK, vars, client, lists, scanner, control
<1> USE <1>1 DEF Inv, client, scanner, control
<1>3. ControlInv'
  BY DEF ControlInv, ControlOf
<1>4. RcountIsLength' /\ ListsInv' /\ GuardsArePublished'
  BY DEF RcountIsLength, ListsInv, GuardsArePublished
<1>5. Located'
  BY DEF Located, NotTwice, RetiredBy
<1>6. QED
  BY <1>2, <1>3, <1>4, <1>5

LEMMA Invariance == Spec => []Inv
<1>1. Inv /\ [Next]_vars => Inv'
  BY StepInv, ElapseInv DEF Next
<1>2. QED
  BY InitInv, <1>1, PTL DEF Spec

-----------------------------------------------------------------------------
(* Rotation is in time.                                                    *)

\* A node loses its mark when it is inserted and when it gets to the tail.
LEMMA MarksOfStep ==
    ASSUME TypeOK, NEW t \in Threads, Step(t), NEW x \in marked, x \notin marked'
    PROVE  x \in pool[t] \/ (Rotate(t) /\ x = Last(vlist[t]))
<1> USE DEF client, lists, scanner, control
<1>1. CASE \E n \in Nodes : Insert(t, n)
  BY <1>1 DEF Insert
<1>2. CASE Rotate(t)
  BY <1>2 DEF Rotate, Marked, Unmarked
<1>3. CASE marked \subseteq marked'
  BY <1>3
<1>4. QED
  BY <1>1, <1>2, <1>3
     DEF Step, Operate, Proceed, Publish, Unlink, EndOperation, InsertFindsNoNode,
         Validate, FreeNodeLater, ReadHPcur, ScanStep, ClearHazardPointer, ScanAtExit,
         FinishExit, StartExit

\* Nobody takes up a reference to a retired node.
LEMMA RetiredGuards ==
    ASSUME Inv, NEW t \in Threads, Step(t), NEW i \in Slots, NEW u \in Threads,
           guarded'[i] \in RetiredBy(u)
    PROVE  guarded'[i] = guarded[i]
<1>1. RetiredBy(u) \subseteq Nodes
  BY SeqFacts DEF RetiredBy, Inv, TypeOK
<1>2. guarded'[i] \in Nodes /\ guarded'[i] # NULL
  BY <1>1, NodesAssumption
<1>3. guarded'[i] \notin linked
  BY <1>2 DEF Inv, Located, NotTwice
<1>4. QED
  BY <1>2, <1>3, GuardsOfStep DEF Inv

\* Nor does a retired node lose its mark, but at the tail of its own vlist.
LEMMA RetiredMarks ==
    ASSUME Inv, NEW t \in Threads, Step(t), NEW u \in Threads,
           NEW x \in RetiredBy(u), x \in marked, x \notin marked'
    PROVE  u = t /\ Rotate(t) /\ x = Last(vlist[t])
<1>1. x \in Nodes
  BY SeqFacts DEF RetiredBy, Inv, TypeOK
<1>2. Rotate(t) /\ x = Last(vlist[t])
  BY <1>1, MarksOfStep DEF Inv, Located, NotTwice
<1>3. Last(vlist[t]) \in RetiredBy(t)
  <2>1. Len(vlist[t]) > 0 /\ vlist[t] \in Seq(Nodes) /\ Len(vlist[t]) \in Nat
    BY <1>2, VlistIsLong DEF Rotate, Goto, Inv, TypeOK
  <2>2. Len(vlist[t]) \in DOMAIN vlist[t] /\ Last(vlist[t]) = vlist[t][Len(vlist[t])]
    <3>1. Last(vlist[t]) = vlist[t][Len(vlist[t])]
      BY DEF Last
    <3>2. DOMAIN vlist[t] = 1 .. Len(vlist[t])
      BY <2>1, LenProperties
    <3>3. QED
      BY <2>1, <3>1, <3>2
  <2>3. QED
    BY <2>2 DEF RetiredBy, ToSet
<1>4. QED
  BY <1>1, <1>2, <1>3 DEF Inv, Located, NotTwice

\* vlist of another thread.
LEMMA OthersRotate ==
    ASSUME Inv, RotateInv, NEW t \in Threads, Step(t), NEW u \in Threads, u # t
    PROVE  RotateOf(u)'
<1>1. /\ pc'[u] = pc[u] /\ vlist'[u] = vlist[u] /\ HPcur'[u] = HPcur[u] /\ cur'[u] = cur[u]
  BY ThreadsFrame DEF Inv
<1>2. SUFFICES ASSUME pc[u] \in {"op", "check", "free", "mark", "rotate"},
                      NEW e \in DOMAIN vlist[u], NEW i \in Slots,
                      guarded'[i] = vlist[u][e], vlist[u][e] \notin marked'
               PROVE  InTime(u, e, i)'
  BY <1>1 DEF RotateOf
<1>3. vlist[u][e] \in RetiredBy(u)
  BY DEF RetiredBy, ToSet
<1>4. guarded[i] = vlist[u][e] /\ guarded'[i] = guarded[i]
  BY <1>2, <1>3, RetiredGuards
<1>5. vlist[u][e] \notin marked
  BY <1>2, <1>3, RetiredMarks
<1>6. InTime(u, e, i)
  BY <1>2, <1>4, <1>5 DEF RotateInv, RotateOf
<1>7. QED
  BY <1>1, <1>4, <1>6 DEF InTime, SlotsBefore

\* vlist of the thread that steps, when it stays as it is.
LEMMA KeptRotate ==
    ASSUME Inv, RotateInv, NEW t \in Threads, Step(t), ~Exhausts,
           ~FreeNodeLater(t), ~Frees(t), ~StartExit(t)
    PROVE  RotateOf(t)'
<1>1. vlist'[t] = vlist[t] /\ HPcur'[t] = HPcur[t]
  <2> USE DEF client, lists, scanner, control
  <2>1. CASE ScanStep(t)
    BY <2>1 DEF Frees, LastOfScan, ScanStep
  <2>2. CASE UNCHANGED <<vlist, HPcur>>
    BY <2>2
  <2>3. QED
    BY <2>1, <2>2
       DEF Step, Operate, Proceed, Frees, Publish, Insert, Unlink, EndOperation,
           InsertFindsNoNode, Validate, ReadHPcur, ClearHazardPointer, ScanAtExit, FinishExit
<1>2. /\ pc'[t] \in {"op", "check", "free", "mark", "rotate"}
            => pc[t] \in {"op", "check", "free", "mark", "rotate"}
      /\ pc'[t] = "rotate" => ReadHPcur(t)
  <2>1. DOMAIN pc = Threads /\ caller[t] \in Callers
    BY DEF Inv, TypeOK
  <2> USE <2>1 DEF Goto, client, lists, scanner, control
  <2>2. CASE \E i \in Own(t), n \in Nodes \cup {NULL} : Publish(t, i, n)
    BY <2>2 DEF Publish
  <2>3. CASE \E n \in Nodes : Insert(t, n) \/ Unlink(t, n)
    BY <2>3 DEF Insert, Unlink
  <2>4. CASE EndOperation(t) \/ Validate(t) \/ FinishExit(t)
    BY <2>4 DEF EndOperation, Validate, FinishExit
  <2>5. CASE InsertFindsNoNode(t) \/ ScanAtExit(t)
    BY <2>5 DEF InsertFindsNoNode, ScanAtExit, CallScan
  <2>6. CASE ReadHPcur(t)
    BY <2>6 DEF ReadHPcur
  <2>7. CASE ScanStep(t)
    BY <2>7 DEF ScanStep, Frees, LastOfScan
  <2>8. CASE ClearHazardPointer(t)
    BY <2>8 DEF ClearHazardPointer
  <2>9. QED
    BY <2>2, <2>3, <2>4, <2>5, <2>6, <2>7, <2>8 DEF Step, Operate, Proceed, Frees
<1>3. SUFFICES ASSUME pc'[t] \in {"op", "check", "free", "mark", "rotate"},
                      NEW e \in DOMAIN vlist[t], NEW i \in Slots,
                      guarded'[i] = vlist[t][e], vlist[t][e] \notin marked'
               PROVE  InTime(t, e, i)'
  BY <1>1 DEF RotateOf
<1>4. vlist[t][e] \in RetiredBy(t)
  BY DEF RetiredBy, ToSet
<1>5. guarded[i] = vlist[t][e] /\ guarded'[i] = guarded[i]
  BY <1>3, <1>4, RetiredGuards
<1>6. vlist[t][e] \notin marked
  BY <1>3, <1>4, RetiredMarks DEF Frees
<1>7. InTime(t, e, i)
  BY <1>2, <1>3, <1>5, <1>6 DEF RotateInv, RotateOf
<1>8. ReadHPcur(t) /\ i = HPcur[t] => cur'[t] = guarded[i]
  <2>1. vlist[t][e] \in Nodes
    BY SeqFacts DEF Inv, TypeOK
  <2>2. HP[i] = guarded[i]
    BY <1>5, <2>1, NodesAssumption DEF Inv, GuardsArePublished
  <2>3. ReadHPcur(t) => cur'[t] = HP[HPcur[t]]
    BY DEF ReadHPcur, Inv, TypeOK
  <2>4. QED
    BY <2>2, <2>3
<1>9. QED
  BY <1>1, <1>2, <1>5, <1>7, <1>8 DEF InTime, SlotsBefore

\* free_node_later: each node of vlist stays as far from the tail as it was, and
\* those that come in are marked or at the head of a long list.
LEMMA FreeRotate ==
    ASSUME Inv, RotateInv, NEW t \in Threads, Step(t), FreeNodeLater(t)
    PROVE  RotateOf(t)'
<1> DEFINE r0 == <<victim[t]>> \o rlist[t]  v == vlist[t]  v2 == vlist'[t]
<1>1. TypeOK /\ victim[t] \in Nodes /\ pc[t] = "free" /\ pc'[t] \in {"mark", "op"}
  BY DEF FreeNodeLater, Inv, ControlInv, ControlOf, TypeOK
<1>2. PICK k \in 0 .. Len(r0) :
         /\ MovedOver(r0, v, k, rlist'[t], v2)
         /\ \/ \A e \in 1 .. k : v2[e] \in marked'
            \/ k = 1 /\ Len(v2) > H
  BY <1>1, ListsAfterFree
<1>3. rlist[t] \in Seq(Nodes) /\ v \in Seq(Nodes) /\ Len(v) \in Nat /\ DOMAIN v = 1 .. Len(v)
  BY <1>1, LenProperties DEF TypeOK
<1>4. Len(r0) \in Nat
  BY <1>1, <1>3, ConsIs, LenProperties
<1>5. TypeOK'
  BY <1>1, TypeStep DEF Inv
<1>6. v2 \in Seq(Nodes) /\ DOMAIN v2 = 1 .. Len(v2) /\ Len(v2) = k + Len(v)
  BY <1>2, <1>5, LenProperties DEF TypeOK, MovedOver
<1>7. HPcur' = HPcur /\ guarded' = guarded
  BY DEF FreeNodeLater, scanner
<1>8. H \in Nat \ {0} /\ HPcur[t] \in Slots
  BY <1>1, SlotFacts DEF TypeOK
<1> HIDE DEF r0, v, v2
<1>9. SUFFICES ASSUME NEW e \in DOMAIN v2, NEW i \in Slots,
                      guarded'[i] = v2[e], v2[e] \notin marked'
               PROVE  InTime(t, e, i)'
  BY DEF RotateOf, v2
<1>10. SlotsBefore(t, i) \in 0 .. H - 1 /\ SlotsBefore(t, i)' = SlotsBefore(t, i)
  BY <1>7, <1>8, SlotsBeforeIs DEF SlotsBefore
<1>11. SlotsBefore(t, i) <= Len(v2) - e
  <2>1. CASE e <= k
    <3>1. e \in 1 .. k
      BY <1>4, <1>6, <2>1
    <3>2. k = 1 /\ Len(v2) > H /\ e = 1
      BY <1>2, <1>9, <3>1
    <3>3. QED
      BY <1>3, <1>6, <1>8, <1>10, <3>2
  <2>2. CASE ~(e <= k)
    <3> DEFINE f == e - k
    <3>1. f \in 1 .. Len(v) /\ k + f = e /\ Len(v2) - e = Len(v) - f
      BY <1>3, <1>4, <1>6, <2>2
    <3> HIDE DEF f
    <3>2. v2[k + f] = v[f]
      BY <1>2, <3>1 DEF MovedOver
    <3>3. v[f] = guarded[i] /\ v[f] \notin marked' /\ f \in DOMAIN v
      BY <1>3, <1>7, <1>9, <3>1, <3>2
    <3>4. v[f] \in RetiredBy(t)
      BY <3>3 DEF RetiredBy, ToSet, v
    <3>5. v[f] \notin marked
      BY <1>1, <3>3, <3>4, RetiredMarks DEF Rotate, Goto
    <3>6. InTime(t, f, i)
      BY <1>1, <3>3, <3>5 DEF RotateInv, RotateOf, v
    <3>7. QED
      BY <3>1, <3>6 DEF InTime, v
  <2>3. QED
    BY <2>1, <2>2
<1>12. QED
  BY <1>1, <1>10, <1>11 DEF InTime, v2

\* A rotation brings each node of vlist one nearer to the tail, and each slot but
\* the one it looks at one nearer.
LEMMA RotationRotate ==
    ASSUME Inv, RotateInv, NEW t \in Threads, Step(t), Rotate(t)
    PROVE  RotateOf(t)'
<1> DEFINE v == vlist[t]  v2 == vlist'[t]  l == Len(v)  x == Last(vlist[t])
<1>1. TypeOK /\ TypeOK' /\ pc[t] = "rotate" /\ pc'[t] = "op"
  <2>1. TypeOK /\ TypeOK'
    BY TypeStep DEF Inv
  <2>2. QED
    BY <2>1 DEF Rotate, Goto, TypeOK
<1>2. l \in Nat /\ l > H /\ l > 0 /\ H \in Nat \ {0}
  BY <1>1, VlistIsLong, SlotFacts DEF Inv
<1>3. x \in Nodes /\ x = v[l] /\ (RotationKeeps(t) \/ RotationFrees(t))
  BY <1>1, <1>2, RotateIs
<1>4. /\ v \in Seq(Nodes) /\ DOMAIN v = 1 .. l
      /\ v2 \in Seq(Nodes) /\ DOMAIN v2 = 1 .. Len(v2) /\ Len(v2) \in Nat
  BY <1>1, LenProperties DEF TypeOK
<1>5. HPcur[t] \in Slots /\ HPcur'[t] = NextSlot(t) /\ guarded' = guarded
  BY <1>1 DEF TypeOK, Rotate
<1>6. marked' = Marked(t) \/ marked' = Marked(t) \ {x}
  BY <1>3 DEF RotationKeeps, RotationFrees
<1>7. SUFFICES ASSUME NEW e \in DOMAIN v2, NEW i \in Slots,
                      guarded'[i] = v2[e], v2[e] \notin marked'
               PROVE  SlotsBefore(t, i)' <= Len(v2) - e
  BY <1>1 DEF RotateOf, InTime
<1> DEFINE d == SlotsBefore(t, i)  d2 == SlotsBefore(t, i)'
<1>8. d \in 0 .. H - 1 /\ d2 \in 0 .. H - 1 /\ (i # HPcur[t] => d2 = d - 1)
  <2>1. /\ NextSlot(t) \in Slots /\ d \in 0 .. H - 1 /\ (d = 0 => i = HPcur[t])
        /\ HPcur'[t] = NextSlot(t) /\ i # HPcur[t] => d2 = d - 1
    BY <1>5, SlotsBeforeIs
  <2>2. d2 \in 0 .. H - 1
    <3>1. HPcur'[t] \in Slots
      BY <1>1 DEF TypeOK
    <3>2. (i - HPcur'[t]) % H \in 0 .. H - 1
      BY <1>2, <3>1 DEF Slots
    <3>3. QED
      BY <3>2 DEF SlotsBefore
  <2>3. QED
    BY <1>5, <2>1, <2>2
<1> HIDE DEF v, v2, l, d, d2
\* A node that was at position f and is in use and unmarked now.
<1>9. ASSUME NEW f \in 1 .. l, v[f] = v2[e], f # l
      PROVE  d2 <= l - f - 1
  <2>1. v[f] # x
    <3>1. ListsInv /\ l \in DOMAIN v
      BY <1>2, <1>4 DEF Inv
    <3>2. QED
      BY <1>3, <1>4, <1>9, <3>1 DEF ListsInv, Apart, IsInjective, v
  <2>2. v[f] \notin Marked(t)
    BY <1>6, <1>7, <1>9, <2>1
  <2>3. v[f] \notin marked /\ guarded[i] = v[f]
    BY <1>5, <1>7, <1>9, <2>2 DEF Marked
  <2>4. InTime(t, f, i)
    BY <1>1, <1>4, <2>3 DEF RotateInv, RotateOf, v
  <2>5. i # HPcur[t]
    <3>1. v[f] \in Nodes /\ v[f] # NULL
      BY <1>4, NodesAssumption, SeqFacts
    <3>2. i = HPcur[t] => cur[t] = v[f]
      BY <1>1, <2>3, <2>4 DEF InTime
    <3>3. QED
      BY <2>2, <3>1, <3>2 DEF Marked
  <2>6. d <= l - f
    BY <2>4 DEF InTime, d, l, v
  <2>7. QED
    BY <1>2, <1>8, <2>5, <2>6
<1>10. CASE RotationKeeps(t)
  <2>1. /\ Len(v2) = l /\ v2[1] = x /\ \A f \in 1 .. l - 1 : v2[f + 1] = v[f]
    BY <1>10 DEF RotationKeeps, v, v2, l
  <2>2. CASE e = 1
    BY <1>2, <1>8, <2>1, <2>2 DEF d2
  <2>3. CASE e # 1
    <3> DEFINE f == e - 1
    <3>1. f \in 1 .. l /\ f # l /\ f \in 1 .. l - 1 /\ f + 1 = e /\ l - f - 1 = l - e
      BY <1>2, <1>4, <2>1, <2>3
    <3> HIDE DEF f
    <3>2. v[f] = v2[e]
      BY <2>1, <3>1
    <3>3. d2 <= l - f - 1
      BY <1>9, <3>1, <3>2
    <3>4. QED
      BY <2>1, <3>1, <3>3 DEF d2
  <2>4. QED
    BY <2>2, <2>3
<1>11. CASE RotationFrees(t)
  <2>1. Len(v2) = l - 1 /\ \A f \in 1 .. l - 1 : v2[f] = v[f]
    BY <1>11 DEF RotationFrees, v, v2, l
  <2>2. e \in 1 .. l - 1 /\ e \in 1 .. l /\ e # l /\ l - e - 1 = Len(v2) - e
    BY <1>2, <1>4, <2>1
  <2>3. v[e] = v2[e]
    BY <2>1, <2>2
  <2>4. d2 <= l - e - 1
    BY <1>9, <2>2, <2>3
  <2>5. QED
    BY <2>2, <2>4 DEF d2
<1>12. QED
  BY <1>3, <1>10, <1>11

LEMMA RotateStep ==
    ASSUME Inv, RotateInv, NEW t \in Threads, Step(t), ~Exhausts
    PROVE  RotateInv'
<1>1. RotateOf(t)'
  <2>1. CASE LastOfScan(t)
    <3>1. pc[t] = "scan" /\ caller[t] = "exit"
      BY <2>1 DEF LastOfScan, ScanStep, Inv, ControlInv, ControlOf
    <3>2. pc'[t] = "exit"
      BY <2>1, <3>1 DEF LastOfScan, ScanStep, AfterScan, Inv, TypeOK
    <3>3. QED
      BY <3>2 DEF RotateOf
  <2>2. CASE StartExit(t)
    <3>1. pc'[t] = "clear"
      BY <2>2 DEF StartExit, Goto, Inv, TypeOK
    <3>2. QED
      BY <3>1 DEF RotateOf
  <2>3. QED
    BY <2>1, <2>2, KeptRotate, FreeRotate, RotationRotate DEF Frees
<1>2. QED
  BY <1>1, OthersRotate DEF RotateInv

-----------------------------------------------------------------------------
(* A scan keeps what is in use.                                            *)

LEMMA OwnScan ==
    ASSUME Inv, ScanInv, NEW t \in Threads, Step(t)
    PROVE  ScanOf(t)'
<1>1. SUFFICES ASSUME pc'[t] = "scan", NEW i \in Slots, i < idx'[t],
                      guarded'[i] \in RetiredBy(t)'
               PROVE  guarded'[i] \in plist'[t]
  BY DEF ScanOf
<1>2. DOMAIN pc = Threads /\ DOMAIN idx = Threads /\ DOMAIN plist = Threads
         /\ caller[t] \in Callers /\ idx[t] \in Nat /\ i \in Nat
  BY SlotFacts DEF Inv, TypeOK, Slots
<1>3. CASE CallScan(t, "insert") \/ CallScan(t, "exit")
  <2>1. idx'[t] = 0
    BY <1>2, <1>3 DEF CallScan
  <2>2. QED
    BY <1>1, <1>2, <2>1
<1>4. CASE ScanStep(t)
  <2>1. idx[t] + 1 < H
    <3>1. AfterScan[caller[t]] # "scan"
      BY <1>2 DEF AfterScan, Callers
    <3>2. QED
      BY <1>1, <1>2, <1>4, <3>1 DEF ScanStep
  <2>2. /\ plist'[t] = SeenAll(t) /\ idx'[t] = idx[t] + 1 /\ guarded' = guarded
        /\ pc[t] = "scan"
    BY <1>2, <1>4, <2>1 DEF ScanStep, SeenAll
  <2>3. RetiredBy(t)' = RetiredBy(t)
    BY <1>4, <2>1 DEF ScanStep, RetiredBy
  <2>4. CASE i < idx[t]
    BY <1>1, <2>2, <2>3, <2>4 DEF ScanInv, ScanOf, SeenAll
  <2>5. CASE i = idx[t]
    <3>1. guarded[i] \in Nodes /\ guarded[i] # NULL
      BY <1>1, <2>2, <2>3, NodesAssumption, SeqFacts DEF RetiredBy, Inv, TypeOK
    <3>2. HP[i] = guarded[i]
      BY <3>1 DEF Inv, GuardsArePublished
    <3>3. QED
      BY <2>2, <2>5, <3>1, <3>2 DEF SeenAll
  <2>6. QED
    BY <1>1, <1>2, <2>2, <2>4, <2>5
<1>5. CASE ~(CallScan(t, "insert") \/ CallScan(t, "exit")) /\ ~ScanStep(t)
  <2> USE <1>2 DEF Goto, client, lists, scanner, control
  <2>1. CASE FreeNodeLater(t)
    BY <1>1, <2>1 DEF FreeNodeLater
  <2>2. CASE ~FreeNodeLater(t)
    BY <1>1, <1>5, <2>2
       DEF Step, Operate, Proceed, Publish, Insert, Unlink, EndOperation,
           InsertFindsNoNode, Validate, ReadHPcur, Rotate, ClearHazardPointer, ScanAtExit,
           FinishExit, StartExit
  <2>3. QED
    BY <2>1, <2>2
<1>6. QED
  BY <1>3, <1>4, <1>5

LEMMA ScanInvStep ==
    ASSUME Inv, ScanInv, NEW t \in Threads, Step(t)
    PROVE  ScanInv'
<1>1. ASSUME NEW u \in Threads, u # t PROVE ScanOf(u)'
  <2>1. /\ pc'[u] = pc[u] /\ idx'[u] = idx[u] /\ plist'[u] = plist[u]
        /\ RetiredBy(u)' = RetiredBy(u)
    BY <1>1, ThreadsFrame, RetiredByOthers DEF Inv
  <2>2. SUFFICES ASSUME pc[u] = "scan", NEW i \in Slots, i < idx[u],
                        guarded'[i] \in RetiredBy(u)
                 PROVE  guarded'[i] \in plist[u]
    BY <2>1 DEF ScanOf
  <2>3. guarded'[i] = guarded[i]
    BY <2>2, RetiredGuards
  <2>4. QED
    BY <2>2, <2>3 DEF ScanInv, ScanOf
<1>2. QED
  BY <1>1, OwnScan DEF ScanInv

-----------------------------------------------------------------------------
(* No node in use is freed.                                                *)

LEMMA FreedIsUnguarded ==
    ASSUME Inv, Safe, NEW t \in Threads, Step(t), Frees(t), NEW i \in Slots
    PROVE  guarded[i] \notin RetiredBy(t) \ RetiredBy(t)'
<1> SUFFICES ASSUME guarded[i] \in RetiredBy(t), guarded[i] \notin RetiredBy(t)'
             PROVE  FALSE
  OBVIOUS
<1> DEFINE x == guarded[i]
<1>1. TypeOK /\ x \in Nodes /\ x # NULL
  BY NodesAssumption, SeqFacts DEF RetiredBy, Inv, TypeOK
<1>2. HP[i] = x
  BY <1>1 DEF Inv, GuardsArePublished
<1>3. CASE Rotate(t)
  <2> DEFINE v == vlist[t]  l == Len(v)
  <2>1. pc[t] = "rotate" /\ l \in Nat /\ l > 0
    BY <1>3, VlistIsLong DEF Rotate, Goto, Inv
  <2>2. /\ Last(v) = v[l] /\ v \in Seq(Nodes) /\ DOMAIN v = 1 .. l /\ rlist'[t] = rlist[t]
        /\ RotationKeeps(t) \/ RotationFrees(t)
    BY <1>1, <1>3, <2>1, RotateIs, LenProperties DEF TypeOK
  <2>3. Apart(rlist[t], v) /\ vlist'[t] \in Seq(Nodes) /\ rlist[t] \in Seq(Nodes)
    BY <1>1, <1>3, <2>1, RotateIs DEF Inv, ListsInv, TypeOK
  <2>4. RetiredBy(t) = ToSet(rlist[t]) \cup ToSet(v)
           /\ RetiredBy(t)' = ToSet(rlist[t]) \cup ToSet(vlist'[t])
    BY <2>2 DEF RetiredBy, ToSet
  <2>5. RotationFrees(t) /\ x = v[l]
    <3>1. CASE RotationKeeps(t)
      <4>1. /\ Len(vlist'[t]) = l /\ vlist'[t][1] = v[l]
            /\ \A e \in 1 .. l - 1 : vlist'[t][e + 1] = v[e]
        BY <2>2, <3>1 DEF RotationKeeps
      <4> HIDE DEF v
      <4>2. ToSet(vlist'[t]) = ToSet(v)
        BY <2>1, <2>2, <2>3, <4>1, RotatedKeeps
      <4>3. QED
        BY <2>4, <4>2
    <3>2. CASE RotationFrees(t)
      <4>1. Len(vlist'[t]) = l - 1 /\ \A e \in 1 .. l - 1 : vlist'[t][e] = v[e]
        BY <3>2 DEF RotationFrees
      <4> HIDE DEF v
      <4>2. ToSet(vlist'[t]) = ToSet(v) \ {v[l]}
        BY <2>1, <2>2, <2>3, <4>1, WithoutLast
      <4>3. QED
        BY <2>4, <3>2, <4>2
    <3>3. QED
      BY <2>2, <3>1, <3>2
  <2>6. x \notin Marked(t)
    BY <2>2, <2>5 DEF RotationFrees
  <2>7. l \in DOMAIN v /\ x \notin marked
    BY <2>1, <2>2, <2>6 DEF Marked
  <2>8. InTime(t, l, i)
    BY <2>1, <2>5, <2>7 DEF Safe, RotateInv, RotateOf
  <2>9. SlotsBefore(t, i) <= 0 /\ HPcur[t] \in Slots
    BY <1>1, <2>1, <2>8 DEF InTime, TypeOK
  <2>10. i = HPcur[t]
    <3>1. SlotsBefore(t, i) \in 0 .. H - 1 /\ (SlotsBefore(t, i) = 0 => i = HPcur[t])
      BY <2>9, SlotsBeforeIs
    <3>2. QED
      BY <2>9, <3>1, SlotFacts
  <2>11. cur[t] = x
    BY <2>1, <2>8, <2>10 DEF InTime
  <2>12. QED
    BY <1>1, <2>6, <2>11 DEF Marked
<1>4. CASE LastOfScan(t)
  <2>1. pc[t] = "scan" /\ ~(idx[t] + 1 < H) /\ idx[t] \in 0 .. H - 1 /\ i \in 0 .. H - 1
    BY <1>1, <1>4 DEF LastOfScan, ScanStep, TypeOK, Slots
  <2>2. i < idx[t] \/ i = idx[t]
    BY <2>1, SlotFacts
  <2>3. x \in SeenAll(t)
    <3>1. CASE i < idx[t]
      BY <2>1, <3>1 DEF Safe, ScanInv, ScanOf, SeenAll
    <3>2. CASE i = idx[t]
      BY <1>1, <1>2, <3>2 DEF SeenAll
    <3>3. QED
      BY <2>2, <3>1, <3>2
  <2>4. RetiredBy(t) \cap SeenAll(t) \subseteq RetiredBy(t)'
    BY <1>1, <1>4, ScanKeeps
  <2>5. QED
    BY <2>3, <2>4
<1>5. QED
  BY <1>3, <1>4 DEF Frees

\* Nodes come to an allocator from the lists of its owner only.
LEMMA PoolOfStep ==
    ASSUME Inv, NEW t \in Threads, Step(t), NEW u \in Threads
    PROVE  \/ pool'[u] \subseteq pool[u]
           \/ /\ Frees(t) /\ u = t
              /\ pool'[t] = pool[t] \cup (RetiredBy(t) \ RetiredBy(t)')
<1>1. CASE u # t
  BY <1>1, ThreadsFrame DEF Inv
<1>2. CASE u = t
  BY <1>2, PlacesOfStep, ListsOfStep DEF Inv
<1>3. QED
  BY <1>1, <1>2

LEMMA AliveStep ==
    ASSUME Inv, Safe, NEW t \in Threads, Step(t)
    PROVE  NoUseAfterFree'
<1> SUFFICES ASSUME NEW i \in Slots, NEW u \in Threads, guarded'[i] \in pool'[u]
             PROVE  FALSE
  BY DEF NoUseAfterFree, Free
<1>1. guarded'[i] \in Nodes /\ guarded'[i] # NULL
  <2>1. TypeOK'
    BY TypeStep DEF Inv
  <2>2. QED
    BY <2>1, NodesAssumption DEF TypeOK
<1>2. CASE pool'[u] \subseteq pool[u]
  <2>1. guarded'[i] \in pool[u]
    BY <1>2
  <2>2. guarded'[i] \notin linked
    BY <1>1, <2>1 DEF Inv, Located, NotTwice
  <2>3. guarded'[i] = guarded[i]
    BY <1>1, <2>2, GuardsOfStep DEF Inv
  <2>4. QED
    BY <2>1, <2>3 DEF Safe, NoUseAfterFree, Free
<1>3. CASE Frees(t) /\ u = t /\ pool'[t] = pool[t] \cup (RetiredBy(t) \ RetiredBy(t)')
  <2>1. guarded' = guarded
    BY <1>3 DEF Frees, Rotate, LastOfScan, ScanStep
  <2>2. guarded[i] \notin RetiredBy(t) \ RetiredBy(t)'
    BY <1>3, FreedIsUnguarded
  <2>3. guarded[i] \notin pool[t]
    BY DEF Safe, NoUseAfterFree, Free
  <2>4. QED
    BY <1>3, <2>1, <2>2, <2>3
<1>4. QED
  BY <1>2, <1>3, PoolOfStep

LEMMA InitSafe == Init => Safe
<1> SUFFICES ASSUME Init PROVE Safe
  OBVIOUS
<1>1. \A t \in Threads : DOMAIN vlist[t] = {}
  BY DEF Init
<1>2. RotateInv
  BY <1>1 DEF RotateInv, RotateOf
<1>3. ScanInv
  BY DEF Init, ScanInv, ScanOf
<1>4. NoUseAfterFree
  BY NodesAssumption DEF Init, NoUseAfterFree, Free
<1>5. QED
  BY <1>2, <1>3, <1>4 DEF Safe

LEMMA StepSafe == ASSUME Inv, Safe, NEW t \in Threads, Step(t), ~Exhausts PROVE Safe'
<1>1. RotateInv' /\ ScanInv'
  BY RotateStep, ScanInvStep DEF Safe
<1>2. NoUseAfterFree'
  BY AliveStep
<1>3. QED
  BY <1>1, <1>2 DEF Safe

LEMMA ElapseSafe == ASSUME Safe, Elapse \/ UNCHANGED vars PROVE Safe'
<1> USE ElapseIs DEF client, scanner, control
<1>1. RotateInv'
  BY DEF Safe, RotateInv, RotateOf, InTime, SlotsBefore
<1>2. ScanInv'
  BY DEF Safe, ScanInv, ScanOf, RetiredBy
<1>3. NoUseAfterFree'
  BY DEF Safe, NoUseAfterFree, Free
<1>4. QED
  BY <1>1, <1>2, <1>3 DEF Safe

LEMMA SafeInvariance == ASSUME ~Exhausts PROVE Spec => []Safe
<1>1. Inv /\ Safe /\ [Next]_vars => Safe'
  BY StepSafe, ElapseSafe DEF Next
<1>2. QED
  BY InitSafe, Invariance, <1>1, PTL DEF Spec

-----------------------------------------------------------------------------
(* Every step is a step of the contract.                                   *)

LEMMA HeldMembers ==
    ASSUME NEW t \in Threads, NEW n
    PROVE  /\ n \in Held(t) <=> n # NULL /\ \E i \in Own(t) : guarded[i] = n
           /\ n \in Held(t)' <=> n # NULL /\ \E i \in Own(t) : guarded'[i] = n
BY DEF Held

LEMMA RefsAfter ==
    ASSUME Inv, Inv', NEW t \in Threads, Step(t)
    PROVE  Contract!RefsStep
<1>1. Refs' \in [Threads -> SUBSET Nodes]
  <2>1. \A i \in Slots : guarded'[i] \in Nodes \cup {NULL}
    BY DEF Inv, TypeOK
  <2>2. \A u \in Threads : Held(u)' \subseteq Nodes
    BY <2>1, SlotFacts, HeldMembers
  <2>3. QED
    BY <2>2 DEF Refs
<1>2. \A i \in Slots : guarded'[i] \in {guarded[i], NULL} \cup linked'
  <2>1. ASSUME NEW i \in Slots, guarded'[i] # guarded[i], guarded'[i] # NULL
        PROVE  guarded'[i] \in linked'
    <3>1. guarded'[i] \in linked /\ pc[t] \in {"op", "check"}
      BY <2>1, GuardsOfStep DEF Inv
    <3>2. \A n \in Nodes : ~Unlink(t, n)
      BY <2>1 DEF Unlink
    <3>3. linked \subseteq linked'
      BY <3>2, PlacesOfStep DEF Inv
    <3>4. QED
      BY <3>1, <3>3
  <2>2. QED
    BY <2>1
<1>3. ASSUME NEW u \in Threads PROVE Held(u)' \subseteq Held(u) \cup linked'
  BY <1>2, SlotFacts, HeldMembers
<1>4. QED
  BY <1>1, <1>3 DEF Contract!RefsStep, Refs

\* What is retired, before a step and after it.
RetiredFacts ==
    /\ Retired \subseteq Nodes
    /\ \A n \in Nodes : n \in Retired <=>
          \E t \in Threads : n \in RetiredBy(t) \/ n = victim[t]

LEMMA RetiredIs == TypeOK => RetiredFacts
<1> SUFFICES ASSUME TypeOK PROVE RetiredFacts
  OBVIOUS
<1>1. \A t \in Threads : RetiredBy(t) \subseteq Nodes /\ victim[t] \in Nodes \cup {NULL}
  BY SeqFacts DEF RetiredBy, TypeOK
<1>2. \A n : n \in Retired <=>
         \/ \E t \in Threads : n \in RetiredBy(t)
         \/ n # NULL /\ \E t \in Threads : n = victim[t]
  BY DEF Retired
<1>3. Retired \subseteq Nodes
  BY <1>1, <1>2
<1>4. QED
  BY <1>2, <1>3, NodesAssumption DEF RetiredFacts

LEMMA RetiredIsNext == TypeOK' => RetiredFacts'
<1> SUFFICES ASSUME TypeOK' PROVE RetiredFacts'
  OBVIOUS
<1>1. \A t \in Threads : RetiredBy(t)' \subseteq Nodes /\ victim'[t] \in Nodes \cup {NULL}
  BY SeqFacts DEF RetiredBy, TypeOK
<1>2. \A n : n \in Retired' <=>
         \/ \E t \in Threads : n \in RetiredBy(t)'
         \/ n # NULL /\ \E t \in Threads : n = victim'[t]
  BY DEF Retired
<1>3. Retired' \subseteq Nodes
  BY <1>1, <1>2
<1>4. QED
  BY <1>2, <1>3, NodesAssumption DEF RetiredFacts

\* The places of the other threads' nodes stay.
OthersStay(t) ==
    \A u \in Threads : u # t => /\ pool'[u] = pool[u] /\ victim'[u] = victim[u]
                                /\ RetiredBy(u)' = RetiredBy(u)

LEMMA OthersFrame == ASSUME Inv, NEW t \in Threads, Step(t) PROVE OthersStay(t)
BY ThreadsFrame, RetiredByOthers DEF OthersStay, Inv

LEMMA InsertIsInsert ==
    ASSUME Inv, Inv', NEW t \in Threads, Step(t), OthersStay(t), NEW n \in Nodes,
           n \in pool[t], linked' = linked \cup {n}, pool'[t] = pool[t] \ {n},
           victim'[t] = victim[t], RetiredBy(t)' = RetiredBy(t)
    PROVE  Contract!Insert(n)
<1>1. \A u \in Threads : n \in pool[u] => u = t
  BY DEF Inv, Located, NotTwice
<1>2. Free' = Free \ {n}
  BY <1>1 DEF Free, OthersStay
<1>3. Retired' = Retired
  <2>1. \A u \in Threads : RetiredBy(u)' = RetiredBy(u) /\ victim'[u] = victim[u]
    BY DEF OthersStay
  <2>2. RetiredFacts /\ RetiredFacts'
    BY RetiredIs, RetiredIsNext DEF Inv
  <2>3. \A m \in Nodes : m \in Retired' <=> m \in Retired
    BY <2>1, <2>2 DEF RetiredFacts
  <2>4. QED
    BY <2>2, <2>3 DEF RetiredFacts
<1>4. n \in Free
  BY DEF Free
<1>5. QED
  BY <1>2, <1>3, <1>4, RefsAfter DEF Contract!Insert

LEMMA UnlinkIsRetire ==
    ASSUME Inv, Inv', NEW t \in Threads, Step(t), OthersStay(t), NEW n \in Nodes,
           n \in linked, linked' = linked \ {n}, pool'[t] = pool[t],
           victim[t] = NULL, victim'[t] = n, RetiredBy(t)' = RetiredBy(t)
    PROVE  Contract!Retire(n)
<1>1. Free' = Free
  BY DEF Free, OthersStay
<1>2. RetiredFacts /\ RetiredFacts'
  BY RetiredIs, RetiredIsNext DEF Inv
<1>3. ASSUME NEW m \in Nodes PROVE m \in Retired' <=> m \in Retired \cup {n}
  <2>1. m \in Retired <=> \E u \in Threads : m \in RetiredBy(u) \/ m = victim[u]
    BY <1>2 DEF RetiredFacts
  <2>2. m \in Retired' <=> \E u \in Threads : m \in RetiredBy(u)' \/ m = victim'[u]
    BY <1>2 DEF RetiredFacts
  <2>3. QED
    BY <2>1, <2>2, NodesAssumption DEF OthersStay
<1>4. Retired' = Retired \cup {n}
  BY <1>2, <1>3 DEF RetiredFacts
<1>5. QED
  BY <1>1, <1>4, RefsAfter DEF Contract!Retire

\* free_node_later puts the node on the lists: it is retired before and after.
LEMMA RetireIsAccess ==
    ASSUME Inv, Inv', NEW t \in Threads, Step(t), OthersStay(t),
           linked' = linked, pool'[t] = pool[t], victim[t] \in Nodes, victim'[t] = NULL,
           RetiredBy(t)' = RetiredBy(t) \cup {victim[t]}
    PROVE  Contract!Access
<1>1. Free' = Free
  BY DEF Free, OthersStay
<1>2. RetiredFacts /\ RetiredFacts'
  BY RetiredIs, RetiredIsNext DEF Inv
<1>3. ASSUME NEW m \in Nodes PROVE m \in Retired' <=> m \in Retired
  <2>1. m \in Retired <=> \E u \in Threads : m \in RetiredBy(u) \/ m = victim[u]
    BY <1>2 DEF RetiredFacts
  <2>2. m \in Retired' <=> \E u \in Threads : m \in RetiredBy(u)' \/ m = victim'[u]
    BY <1>2 DEF RetiredFacts
  <2>3. QED
    BY <2>1, <2>2, NodesAssumption DEF OthersStay
<1>4. Retired' = Retired
  BY <1>2, <1>3 DEF RetiredFacts
<1>5. QED
  BY <1>1, <1>4, RefsAfter DEF Contract!Access

\* A rotation and the end of a scan free what nobody holds.
LEMMA FreesIsFree ==
    ASSUME Inv, Inv', Safe, NEW t \in Threads, Step(t), OthersStay(t), Frees(t),
           linked' = linked, victim'[t] = victim[t],
           RetiredBy(t)' \subseteq RetiredBy(t),
           NEW S, S = RetiredBy(t) \ RetiredBy(t)', pool'[t] = pool[t] \cup S
    PROVE  Contract!Free(S)
<1>1. Free' = Free \cup S
  BY DEF Free, OthersStay
<1>2. RetiredFacts /\ RetiredFacts'
  BY RetiredIs, RetiredIsNext DEF Inv
<1>3. S \subseteq Nodes /\ RetiredBy(t) \subseteq Nodes
  BY SeqFacts DEF RetiredBy, Inv, TypeOK
<1>4. ASSUME NEW m \in Nodes PROVE m \in Retired' <=> m \in Retired \ S
  <2>1. m \in Retired <=> \E u \in Threads : m \in RetiredBy(u) \/ m = victim[u]
    BY <1>2 DEF RetiredFacts
  <2>2. m \in Retired' <=> \E u \in Threads : m \in RetiredBy(u)' \/ m = victim'[u]
    BY <1>2 DEF RetiredFacts
  <2>3. NotTwice(m)
    BY DEF Inv, Located
  <2>4. m \in S => \A u \in Threads : m # victim[u] /\ (m \in RetiredBy(u) => u = t)
    BY <2>3 DEF NotTwice
  <2>5. QED
    BY <2>1, <2>2, <2>4 DEF OthersStay
<1>5. Retired' = Retired \ S
  BY <1>2, <1>4 DEF RetiredFacts
<1>6. S \subseteq Retired
  BY <1>2, <1>3 DEF RetiredFacts
<1>7. \A u \in Threads : Held(u) \cap S = {}
  BY FreedIsUnguarded, SlotFacts, HeldMembers
<1>8. guarded' = guarded
  BY DEF Frees, Rotate, LastOfScan, ScanStep
<1>9. Refs' = Refs
  BY <1>8 DEF Refs, Held
<1>10. QED
  BY <1>1, <1>5, <1>6, <1>7, <1>9 DEF Contract!Free, Refs

LEMMA StepRefines ==
    ASSUME Inv, Inv', Safe, NEW t \in Threads, Step(t)
    PROVE  Contract!Next
<1>1. OthersStay(t)
  BY OthersFrame
<1>2. /\ FreeNodeLater(t) => RetiredBy(t)' = RetiredBy(t) \cup {victim[t]}
      /\ Frees(t) => /\ RetiredBy(t)' \subseteq RetiredBy(t)
                     /\ pool'[t] = pool[t] \cup (RetiredBy(t) \ RetiredBy(t)')
      /\ ~FreeNodeLater(t) /\ ~Frees(t) => RetiredBy(t)' = RetiredBy(t)
  BY ListsOfStep DEF Inv
<1>3. ASSUME NEW n \in Nodes, Insert(t, n) \/ Unlink(t, n)
      PROVE  ~FreeNodeLater(t) /\ ~Frees(t)
  BY <1>3 DEF Insert, Unlink, FreeNodeLater, Frees, Rotate, LastOfScan, ScanStep, Goto
<1>4. ASSUME NEW n \in Nodes, Insert(t, n), n \in pool[t], linked' = linked \cup {n},
             pool'[t] = pool[t] \ {n}, victim'[t] = victim[t]
      PROVE  Contract!Next
  BY <1>1, <1>2, <1>3, <1>4, InsertIsInsert DEF Contract!Next
<1>5. ASSUME NEW n \in Nodes, Unlink(t, n), n \in linked, linked' = linked \ {n},
             victim'[t] = n, pool'[t] = pool[t], victim[t] = NULL
      PROVE  Contract!Next
  BY <1>1, <1>2, <1>3, <1>5, UnlinkIsRetire DEF Contract!Next
<1>6. CASE /\ FreeNodeLater(t) /\ victim[t] \in Nodes /\ victim'[t] = NULL
           /\ linked' = linked /\ pool'[t] = pool[t]
  BY <1>1, <1>2, <1>6, RetireIsAccess DEF Contract!Next
<1>7. CASE Frees(t) /\ linked' = linked /\ victim'[t] = victim[t]
  <2>1. RetiredBy(t) \subseteq Nodes
    BY SeqFacts DEF RetiredBy, Inv, TypeOK
  <2>2. PICK S \in SUBSET Nodes : S = RetiredBy(t) \ RetiredBy(t)'
    BY <2>1
  <2>3. Contract!Free(S)
    BY <1>1, <1>2, <1>7, <2>2, FreesIsFree
  <2>4. QED
    BY <2>3 DEF Contract!Next
<1>8. CASE /\ ~FreeNodeLater(t) /\ ~Frees(t)
           /\ linked' = linked /\ pool'[t] = pool[t] /\ victim'[t] = victim[t]
  <2>1. \A u \in Threads : /\ RetiredBy(u)' = RetiredBy(u) /\ victim'[u] = victim[u]
                           /\ pool'[u] = pool[u]
    BY <1>1, <1>2, <1>8 DEF OthersStay
  <2>2. RetiredFacts /\ RetiredFacts'
    BY RetiredIs, RetiredIsNext DEF Inv
  <2>3. Retired' = Retired
    <3>1. \A m \in Nodes : m \in Retired' <=> m \in Retired
      BY <2>1, <2>2 DEF RetiredFacts
    <3>2. QED
      BY <2>2, <3>1 DEF RetiredFacts
  <2>4. Free' = Free
    BY <2>1 DEF Free
  <2>5. Contract!Access
    BY <1>8, <2>3, <2>4, RefsAfter DEF Contract!Access
  <2>6. QED
    BY <2>5 DEF Contract!Next
<1>9. QED
  BY <1>4, <1>5, <1>6, <1>7, <1>8, PlacesOfStep DEF Inv

LEMMA InitRefines == Init => Contract!Init
<1> SUFFICES ASSUME Init PROVE Contract!Init
  OBVIOUS
<1>1. linked \in SUBSET Nodes
  BY DEF Init
<1>2. Free = Nodes \ linked
  <2>1. PICK owner \in [Nodes -> Inserters \cup Deleters] :
           pool = [t \in Threads |-> {n \in Nodes \ linked : owner[n] = t}]
    BY DEF Init
  <2>2. \A n \in Nodes : owner[n] \in Threads
    BY <2>1, WorkloadAssumption DEF Threads
  <2>3. QED
    BY <2>1, <2>2 DEF Free
<1>3. Retired = {}
  BY DEF Init, Retired, RetiredBy, ToSet
<1>4. \A t \in Threads : Held(t) = {}
  BY SlotFacts DEF Init, Held
<1>5. Refs \in [Threads -> SUBSET linked]
  BY <1>4 DEF Refs
<1>6. QED
  BY <1>1, <1>2, <1>3, <1>5 DEF Contract!Init

\* Nodes that turn old, and the steps that leave the program alone, are stutters.
LEMMA NextRefines ==
    ASSUME Inv, Inv', Safe, [Next]_vars
    PROVE  [Contract!Next]_Contract!vars
<1>1. CASE Elapse \/ UNCHANGED vars
  <2>1. UNCHANGED <<client, HP, rlist, vlist, marked, rcount, scanner, control>>
    BY <1>1, ElapseIs
  <2>2. QED
    BY <2>1 DEF Contract!vars, Free, Retired, RetiredBy, Refs, Held, client
<1>2. ASSUME NEW t \in Threads, Step(t) PROVE Contract!Next
  BY <1>2, StepRefines
<1>3. QED
  BY <1>1, <1>2 DEF Next

-----------------------------------------------------------------------------
(* The theorems.                                                           *)

\* Every variable keeps its type: vlist is never empty when rotation takes its
\* tail, and rcount is never counted below zero.
THEOREM TypeCorrect == Spec => []TypeOK
<1>1. Inv => TypeOK
  BY DEF Inv
<1>2. QED
  BY <1>1, Invariance, PTL

\* rcount, on which mr_thread_exit leaves its loop, is the length of rlist and of
\* vlist together, whatever free_node_later, rotation and scan have moved or freed.
THEOREM RcountCorrect == Spec => []RcountIsLength
<1>1. Inv => RcountIsLength
  BY DEF Inv
<1>2. QED
  BY <1>1, Invariance, PTL

\* Rotation is in time, for any number of threads and hazard pointers: as long as
\* no allocator runs out, a node in use that is not marked is at least as far from
\* the tail of vlist as its slot is from the slot that is looked at next.
THEOREM MarkedCorrect ==
    ASSUME ~Exhausts
    PROVE  Spec => []MarkedInTime
<1>1. Safe => MarkedInTime
  BY DEF Safe, RotateInv, RotateOf, InTime, MarkedInTime
<1>2. QED
  BY <1>1, SafeInvariance, PTL

\* Then neither rotation, which looks at one hazard pointer per call of
\* free_node_later, nor the scan of mr_thread_exit frees a node in use.
THEOREM Safety ==
    ASSUME ~Exhausts
    PROVE  Spec => []NoUseAfterFree
<1>1. Safe => NoUseAfterFree
  BY DEF Safe
<1>2. QED
  BY <1>1, SafeInvariance, PTL

\* Under the same condition smr_lazy.c and smr_membar_lazy.c keep the contract of a
\* reclamation scheme.
THEOREM Refinement ==
    ASSUME ~Exhausts
    PROVE  Spec => RefinesReclamation
<1>1. Inv /\ Inv' /\ Safe /\ [Next]_vars => [Contract!Next]_Contract!vars
  BY NextRefines
<1>2. QED
  BY <1>1, InitRefines, Invariance, SafeInvariance, PTL
     DEF Spec, RefinesReclamation, Contract!Spec
===============================================================================
