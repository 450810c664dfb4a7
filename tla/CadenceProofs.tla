----------------------------- MODULE CadenceProofs -----------------------------
(***************************************************************************)
(* Theorems about Cadence, for any number of threads, hazard pointers and  *)
(* nodes, any sizes of the store buffers and any bounds on time, and for   *)
(* all variants of the code (Opt, Bloom, PerOp).                           *)
(*                                                                         *)
(* Inv is inductive whatever the times are: it says where a node is, what  *)
(* a thread's latest store to a slot is, and how old a node can be while   *)
(* the store of a hazard pointer that names it still waits in a buffer.    *)
(* That a scan frees no node in use needs one thing more, TimesSuffice:    *)
(* a node has to be older than the longest sleep and the longest scan      *)
(* together.                                                               *)
(***************************************************************************)
EXTENDS Cadence, FiniteSetTheorems, SequenceTheorems, WellFoundedInduction, TLAPS

\* SLEEP_AMOUNT + MARGIN, with what a sleeper oversleeps and the length of a scan.
TimesSuffice == MaxSleep + ScanTime < MaxAge

\* Where the control of a thread is, what its loop variables can be, and which
\* slots it uses and stores to.
ControlOf(t) ==
    /\ victim[t] # NULL <=> pc[t] = "free"
    /\ pc[t] # "sweep" => todo[t] = {}
    /\ pc[t] \in {"op", "check", "free", "exit", "exited"} => idx[t] = 0
    /\ pc[t] = "clear" => idx[t] < K /\ \A i \in Own(t) : guarded[i] = NULL
    /\ pc[t] = "scan" => idx[t] < H
    /\ pc[t] = "sweep" => idx[t] = H
    /\ slot[t] \in Own(t)
    /\ \A e \in DOMAIN buf[t] : buf[t][e].slot \in Own(t)

ControlInv == \A t \in Threads : ControlOf(t)

\* A node has one place.
Somewhere(n) ==
    \/ n \in linked
    \/ \E t \in Threads : \/ n \in pool[t] \/ n = victim[t]
                          \/ n \in rlist[t] \/ n \in todo[t]

NotTwice(n) ==
    /\ n \in linked =>
          \A t \in Threads : n \notin pool[t] /\ n # victim[t]
                               /\ n \notin rlist[t] /\ n \notin todo[t]
    /\ \A t, u \in Threads :
          /\ n \in pool[t] => /\ n # victim[u] /\ n \notin rlist[u]
                              /\ n \notin todo[u] /\ (n \in pool[u] => t = u)
          /\ n = victim[t] => /\ n \notin rlist[u] /\ n \notin todo[u]
                              /\ (n = victim[u] => t = u)
          /\ n \in rlist[t] => n \notin todo[u] /\ (n \in rlist[u] => t = u)
          /\ n \in todo[t] /\ n \in todo[u] => t = u

Located == \A n \in Nodes : Somewhere(n) /\ NotTwice(n)

\* rcount is the number of retired nodes, or of those the scan has counted.
RcountInv ==
    \A t \in Threads :
       rcount[t] = Cardinality(rlist[t])
                     + (IF Opt THEN Cardinality(todo[t]) ELSE 0)

\* The owner of a slot reads there what it guards.
GuardsAreStored ==
    \A i \in Slots : guarded[i] # NULL => Read(Owner(i), i) = guarded[i]

\* Age is counted from the call of free_node_later.
OthersHaveNoAge ==
    \A n \in Nodes :
       (\A t \in Threads : n \notin rlist[t] /\ n \notin todo[t]) => age[n] = 0

\* A retired node whose reader has a store to the slot that guards it on its way
\* to memory has been retired since the reader's core was switched last.
PendingGuardsAreYoung ==
    \A i \in Slots :
       guarded[i] \in Retired /\ Pending(Owner(i), i) # {}
          => age[guarded[i]] <= asleep[Owner(i)]

Inv ==
    /\ TypeOK /\ ControlInv /\ Located /\ RcountInv
    /\ GuardsAreStored /\ OthersHaveNoAge /\ PendingGuardsAreYoung
    /\ MissedGuardsAreYoung

\* No node in use has been freed.
GuardsAreAlive == \A i \in Slots : guarded[i] \notin Free

-----------------------------------------------------------------------------
(* The slots of a thread.                                                  *)

LEMMA Multiples ==
    ASSUME NEW k \in Nat \ {0}, NEW a \in Nat, NEW b \in Nat, a < b
    PROVE  k * a \in Nat /\ k * a + k <= k * b
<1>1. \A x \in Nat : k * x \in Nat
  OBVIOUS
<1>2. b - a - 1 \in Nat /\ k * (b - a - 1) \in Nat
  BY <1>1
<1>3. k * b = k * a + k + k * (b - a - 1)
  OBVIOUS
<1>4. QED
  BY <1>1, <1>2, <1>3

LEMMA QuotientIs ==
    ASSUME NEW k \in Nat \ {0}, NEW a \in Nat, NEW i \in Nat
    PROVE  /\ i \div k \in Nat
           /\ k * (i \div k) <= i /\ i < k * (i \div k) + k
           /\ k * a <= i /\ i < k * a + k => i \div k = a
<1>1. /\ i \div k \in Nat
      /\ k * (i \div k) <= i /\ i < k * (i \div k) + k
  OBVIOUS
<1>2. ASSUME k * a <= i, i < k * a + k PROVE i \div k = a
  <2> DEFINE q == i \div k
  <2>1. q \in Nat /\ k * q <= i /\ i < k * q + k
    BY <1>1
  <2> HIDE DEF q
  <2>2. k * a \in Nat /\ k * q \in Nat
    BY <2>1
  <2>3. ~(q < a)
    <3>1. q < a => k * q + k <= k * a
      BY <2>1, Multiples
    <3>2. QED
      BY <2>1, <2>2, <3>1, <1>2
  <2>4. ~(a < q)
    <3>1. a < q => k * a + k <= k * q
      BY <2>1, Multiples
    <3>2. QED
      BY <2>1, <2>2, <3>1, <1>2
  <2>5. QED
    BY <2>1, <2>3, <2>4 DEF q
<1>3. QED
  BY <1>1, <1>2

LEMMA SlotFacts ==
    /\ H \in Nat \ {0} /\ K <= H
    /\ \A t \in Threads : \A i \in Own(t) : i \in Slots /\ Owner(i) = t
    /\ \A i \in Slots : Owner(i) \in Threads /\ i \in Own(Owner(i))
    /\ \A t \in Threads : \A k \in 0 .. K - 1 : K * t + k \in Own(t)
<1>1. H \in Nat /\ K <= H
  <2>1. K * 0 + K <= K * N
    BY NAssumption, Multiples
  <2>2. QED
    BY <2>1, NAssumption DEF H
<1>2. ASSUME NEW t \in Threads, NEW i \in Own(t)
      PROVE  i \in Slots /\ Owner(i) = t
  <2>1. t \in Nat /\ N \in Nat /\ t < N /\ K \in Nat \ {0}
    BY NAssumption DEF Threads
  <2>2. K * t \in Nat /\ K * t + K <= H
    BY <2>1, Multiples DEF H
  <2>3. i \in Nat /\ K * t <= i /\ i < K * t + K
    BY <2>1, <2>2 DEF Own
  <2>4. i \div K = t
    BY <2>1, <2>3, QuotientIs
  <2>5. QED
    BY <1>1, <2>1, <2>2, <2>3, <2>4 DEF Slots, Owner
<1>3. ASSUME NEW i \in Slots
      PROVE  Owner(i) \in Threads /\ i \in Own(Owner(i))
  <2> DEFINE q == Owner(i)
  <2>1. i \in Nat /\ i < K * N /\ K \in Nat \ {0} /\ N \in Nat
    BY <1>1, NAssumption DEF Slots, H
  <2>2. q \in Nat /\ K * q <= i /\ i < K * q + K
    BY <2>1, QuotientIs DEF Owner
  <2> HIDE DEF q
  <2>3. K * q \in Nat /\ K * N \in Nat
    BY <2>1, <2>2
  <2>4. ~(N < q)
    <3>1. N < q => K * N + K <= K * q
      BY <2>1, <2>2, Multiples
    <3>2. QED
      BY <2>1, <2>2, <2>3, <3>1
  <2>5. N # q
    BY <2>1, <2>2
  <2>6. q < N
    BY <2>1, <2>2, <2>4, <2>5
  <2>7. q \in Threads
    BY <2>1, <2>2, <2>6 DEF Threads
  <2>8. i \in Own(q)
    BY <2>1, <2>2, <2>3 DEF Own
  <2>9. QED
    BY <2>7, <2>8 DEF q
<1>4. ASSUME NEW t \in Threads, NEW k \in 0 .. K - 1 PROVE K * t + k \in Own(t)
  <2>1. K * t \in Nat /\ K \in Nat
    BY NAssumption DEF Threads
  <2>2. QED
    BY <2>1 DEF Own
<1>5. QED
  BY <1>1, <1>2, <1>3, <1>4, NAssumption

\* The owners of two slots differ only if the slots do.
LEMMA OwnDisjoint ==
    ASSUME NEW t \in Threads, NEW u \in Threads, NEW i \in Own(t), i \in Own(u)
    PROVE  t = u
BY SlotFacts

-----------------------------------------------------------------------------
(* Store buffers.                                                          *)

\* The entries of a buffer that are for slot i, the last one of them, and what
\* their owner reads over the memory h.
StoresTo(s, i) == {e \in DOMAIN s : s[e].slot = i}
LastTo(s, i) == CHOOSE e \in StoresTo(s, i) : \A f \in StoresTo(s, i) : f <= e
ValueOf(h, s, i) == IF StoresTo(s, i) = {} THEN h[i] ELSE s[LastTo(s, i)].node

LEMMA HasGreatest ==
    ASSUME NEW S \in SUBSET Nat, S # {}, NEW b \in Nat, \A x \in S : x <= b
    PROVE  \E m \in S : \A x \in S : x <= m
<1> DEFINE T == {y \in Nat : y <= b /\ b - y \in S}
<1>1. T \subseteq Nat /\ T # {}
  <2>1. PICK x \in S : TRUE
    OBVIOUS
  <2>2. x \in Nat /\ b - x \in Nat /\ b - x <= b /\ b - (b - x) = x
    OBVIOUS
  <2>3. b - x \in T
    BY <2>1, <2>2
  <2>4. QED
    BY <2>3
<1>2. \E y \in T : \A z \in T : <<z, y>> \notin OpToRel(<, Nat)
  <2> HIDE DEF T
  <2>1. QED
    BY <1>1, WFMin, NatLessThanWellFounded
<1>3. PICK y \in T : \A z \in T : <<z, y>> \notin OpToRel(<, Nat)
  BY <1>2
<1>4. \A z \in T : ~(z < y)
  BY <1>1, <1>3 DEF OpToRel
<1>5. b - y \in S /\ y \in Nat
  OBVIOUS
<1>6. ASSUME NEW x \in S PROVE x <= b - y
  <2>1. x \in Nat /\ b - x \in Nat /\ b - x <= b /\ b - (b - x) = x
    OBVIOUS
  <2>2. b - x \in T
    BY <2>1
  <2>3. ~(b - x < y)
    BY <1>4, <2>2
  <2>4. QED
    BY <2>1, <2>3, <1>5
<1>7. QED
  BY <1>5, <1>6

LEMMA LastToIs ==
    ASSUME NEW s \in Seq(Stores), NEW i, StoresTo(s, i) # {}
    PROVE  /\ LastTo(s, i) \in StoresTo(s, i)
           /\ \A f \in StoresTo(s, i) : f <= LastTo(s, i)
<1>1. StoresTo(s, i) \in SUBSET Nat /\ Len(s) \in Nat
  BY LenProperties DEF StoresTo
<1>2. \A x \in StoresTo(s, i) : x <= Len(s)
  BY LenProperties DEF StoresTo
<1>3. \E m \in StoresTo(s, i) : \A x \in StoresTo(s, i) : x <= m
  BY <1>1, <1>2, HasGreatest
<1>4. QED
  BY <1>3 DEF LastTo

\* There is one last store.
LEMMA LastToIsIt ==
    ASSUME NEW s \in Seq(Stores), NEW i, NEW e \in StoresTo(s, i),
           \A f \in StoresTo(s, i) : f <= e
    PROVE  LastTo(s, i) = e
<1>1. /\ LastTo(s, i) \in StoresTo(s, i)
      /\ \A f \in StoresTo(s, i) : f <= LastTo(s, i)
  BY LastToIs
<1>2. LastTo(s, i) \in Nat /\ e \in Nat
  BY <1>1, LenProperties DEF StoresTo
<1>3. e <= LastTo(s, i) /\ LastTo(s, i) <= e
  BY <1>1
<1>4. QED
  BY <1>2, <1>3

LEMMA ValueOfEmpty ==
    ASSUME NEW h, NEW i
    PROVE  StoresTo(<<>>, i) = {} /\ ValueOf(h, <<>>, i) = h[i]
BY DEF StoresTo, ValueOf

LEMMA AppendIs ==
    ASSUME NEW s \in Seq(Stores), NEW x \in Stores
    PROVE  LET s2 == Append(s, x)
           IN  /\ s2 \in Seq(Stores) /\ Len(s2) = Len(s) + 1 /\ Len(s) \in Nat
               /\ DOMAIN s2 = 1 .. Len(s) + 1 /\ DOMAIN s = 1 .. Len(s)
               /\ \A e \in 1 .. Len(s) : s2[e] = s[e]
               /\ s2[Len(s) + 1] = x
BY AppendProperties, LenProperties

LEMMA OthersAfterAppend ==
    ASSUME NEW s \in Seq(Stores), NEW x \in Stores, NEW h, NEW i, i # x.slot
    PROVE  /\ StoresTo(Append(s, x), i) = StoresTo(s, i)
           /\ ValueOf(h, Append(s, x), i) = ValueOf(h, s, i)
<1> DEFINE s2 == Append(s, x)
<1>1. /\ s2 \in Seq(Stores) /\ Len(s) \in Nat
      /\ DOMAIN s2 = 1 .. Len(s) + 1 /\ DOMAIN s = 1 .. Len(s)
      /\ \A e \in 1 .. Len(s) : s2[e] = s[e]
      /\ s2[Len(s) + 1] = x
  BY AppendIs
<1> HIDE DEF s2
<1>2. StoresTo(s2, i) = StoresTo(s, i)
  BY <1>1 DEF StoresTo
<1>3. LastTo(s2, i) = LastTo(s, i)
  BY <1>2 DEF LastTo
<1>4. StoresTo(s, i) # {} => s2[LastTo(s, i)] = s[LastTo(s, i)]
  <2>1. StoresTo(s, i) # {} => LastTo(s, i) \in StoresTo(s, i)
    BY LastToIs
  <2>2. QED
    BY <1>1, <2>1 DEF StoresTo
<1>5. ValueOf(h, s2, i) = ValueOf(h, s, i)
  BY <1>2, <1>3, <1>4 DEF ValueOf
<1>6. QED
  BY <1>2, <1>5 DEF s2

\* When the oldest store reaches memory its owner sees no difference.
LEMMA AfterTail ==
    ASSUME NEW s \in Seq(Stores), s # <<>>, NEW h, NEW i \in DOMAIN h
    PROVE  /\ StoresTo(Tail(s), i) # {} => StoresTo(s, i) # {}
           /\ ValueOf([h EXCEPT ![Head(s).slot] = Head(s).node], Tail(s), i)
                = ValueOf(h, s, i)
<1> DEFINE s2 == Tail(s)
           h2 == [h EXCEPT ![Head(s).slot] = Head(s).node]
<1>1. /\ s2 \in Seq(Stores) /\ Len(s) \in Nat \ {0} /\ DOMAIN s = 1 .. Len(s)
      /\ DOMAIN s2 = 1 .. Len(s) - 1
      /\ \A e \in 1 .. Len(s) - 1 : s2[e] = s[e + 1]
      /\ Head(s) = s[1]
  BY HeadTailProperties, LenProperties, EmptySeq
<1>2. h2[i] = IF i = s[1].slot THEN s[1].node ELSE h[i]
  BY <1>1
<1> HIDE DEF s2, h2
<1>3. \A e \in 1 .. Len(s) - 1 : e \in StoresTo(s2, i) <=> e + 1 \in StoresTo(s, i)
  BY <1>1 DEF StoresTo
<1>4. 1 \in StoresTo(s, i) <=> i = s[1].slot
  BY <1>1 DEF StoresTo
<1>5. \A e \in StoresTo(s, i) : e \in 1 .. Len(s) /\ (e = 1 \/ e - 1 \in StoresTo(s2, i))
  <2>1. SUFFICES ASSUME NEW e \in StoresTo(s, i), e # 1
                 PROVE  e \in 1 .. Len(s) /\ e - 1 \in StoresTo(s2, i)
    BY <1>1 DEF StoresTo
  <2>2. e \in 1 .. Len(s) /\ e - 1 \in 1 .. Len(s) - 1 /\ (e - 1) + 1 = e
    BY <1>1, <2>1 DEF StoresTo
  <2>3. QED
    BY <1>3, <2>2
<1>6. \A e \in StoresTo(s2, i) : e \in 1 .. Len(s) - 1 /\ e + 1 \in StoresTo(s, i)
  BY <1>1, <1>3 DEF StoresTo
<1>7. CASE StoresTo(s2, i) # {}
  <2> DEFINE m == LastTo(s2, i)
  <2>1. m \in StoresTo(s2, i) /\ \A f \in StoresTo(s2, i) : f <= m
    BY <1>1, <1>7, LastToIs
  <2> HIDE DEF m
  <2>2. m \in 1 .. Len(s) - 1 /\ m + 1 \in StoresTo(s, i)
    BY <1>6, <2>1
  <2>3. \A f \in StoresTo(s, i) : f <= m + 1
    <3>1. SUFFICES ASSUME NEW f \in StoresTo(s, i) PROVE f <= m + 1
      OBVIOUS
    <3>2. f \in 1 .. Len(s) /\ (f = 1 \/ f - 1 \in StoresTo(s2, i))
      BY <1>5
    <3>3. f = 1 \/ f - 1 <= m
      BY <2>1, <3>2
    <3>4. QED
      BY <1>1, <2>2, <3>2, <3>3
  <2>4. LastTo(s, i) = m + 1
    BY <2>2, <2>3, LastToIsIt
  <2>5. s2[m] = s[m + 1]
    BY <1>1, <2>2
  <2>6. ValueOf(h2, s2, i) = s2[m].node
    BY <1>7 DEF ValueOf, m
  <2>7. ValueOf(h, s, i) = s[m + 1].node
    BY <2>2, <2>4 DEF ValueOf
  <2>8. QED
    BY <2>2, <2>5, <2>6, <2>7 DEF s2, h2
<1>8. CASE StoresTo(s2, i) = {}
  <2>1. ValueOf(h2, s2, i) = h2[i]
    BY <1>8 DEF ValueOf
  <2>2. CASE i = s[1].slot
    <3>1. 1 \in StoresTo(s, i) /\ \A f \in StoresTo(s, i) : f <= 1
      BY <1>4, <1>5, <1>8, <2>2
    <3>2. LastTo(s, i) = 1
      BY <3>1, LastToIsIt
    <3>3. ValueOf(h, s, i) = s[1].node
      BY <3>1, <3>2 DEF ValueOf
    <3>4. QED
      BY <1>2, <1>8, <2>1, <2>2, <3>3 DEF s2, h2
  <2>3. CASE i # s[1].slot
    <3>1. StoresTo(s, i) = {}
      BY <1>4, <1>5, <1>8, <2>3
    <3>2. ValueOf(h, s, i) = h[i]
      BY <3>1 DEF ValueOf
    <3>3. QED
      BY <1>2, <1>8, <2>1, <2>3, <3>2 DEF s2, h2
  <2>4. QED
    BY <2>2, <2>3
<1>9. QED
  BY <1>7, <1>8

LEMMA ReadIs ==
    ASSUME NEW t, NEW i
    PROVE  /\ Pending(t, i) = StoresTo(buf[t], i)
           /\ Read(t, i) = ValueOf(HP, buf[t], i)
BY DEF Pending, Read, StoresTo, LastTo, ValueOf

LEMMA ReadIsNode ==
    ASSUME HP \in [Slots -> Nodes \cup {NULL}], buf \in [Threads -> Seq(Stores)],
           NEW t \in Threads, NEW i \in Slots
    PROVE  Read(t, i) \in Nodes \cup {NULL}
<1>1. buf[t] \in Seq(Stores)
  OBVIOUS
<1>2. CASE StoresTo(buf[t], i) = {}
  BY <1>2, ReadIs DEF ValueOf
<1>3. CASE StoresTo(buf[t], i) # {}
  <2>1. LastTo(buf[t], i) \in DOMAIN buf[t]
    BY <1>1, <1>3, LastToIs DEF StoresTo
  <2>2. buf[t][LastTo(buf[t], i)] \in Stores
    BY <1>1, <2>1, ElementOfSeq, LenProperties
  <2>3. QED
    BY <1>3, <2>2, ReadIs DEF ValueOf, Stores
<1>4. QED
  BY <1>2, <1>3

-----------------------------------------------------------------------------
(* Typing.                                                                 *)

LEMMA InitType == Init => TypeOK
<1> SUFFICES ASSUME Init PROVE TypeOK
  OBVIOUS
<1>1. linked \in SUBSET Nodes /\ pool \in [Threads -> SUBSET Nodes]
  BY DEF Init
<1>2. /\ guarded \in [Slots -> Nodes \cup {NULL}] /\ HP \in [Slots -> Nodes \cup {NULL}]
      /\ victim \in [Threads -> Nodes \cup {NULL}]
  BY DEF Init
<1>3. slot \in [Threads -> Slots]
  <2>1. \A t \in Threads : K * t + 0 \in Own(t) /\ K * t + 0 = K * t
    <3>1. 0 \in 0 .. K - 1 /\ \A t \in Threads : K * t \in Nat
      BY NAssumption DEF Threads
    <3>2. QED
      BY <3>1, SlotFacts
  <2>2. QED
    BY <2>1, SlotFacts DEF Init
<1>4. buf \in [Threads -> Seq(Stores)]
  <2>1. <<>> \in Seq(Stores)
    OBVIOUS
  <2>2. QED
    BY <2>1 DEF Init
<1>5. /\ asleep \in [Threads -> 0 .. MaxSleep] /\ age \in [Nodes -> 0 .. MaxAge]
      /\ scanAge \in [Threads -> 0 .. ScanTime]
  BY TimesAssumption DEF Init
<1>6. /\ rlist \in [Threads -> SUBSET Nodes] /\ todo \in [Threads -> SUBSET Nodes]
      /\ plist \in [Threads -> SUBSET Nodes]
  BY DEF Init
<1>7. /\ rcount \in [Threads -> Nat] /\ calls \in [Threads -> 0 .. CallsMod - 1]
      /\ idx \in [Threads -> 0 .. H] /\ retries \in [Threads -> 0 .. MaxExitRetries]
  BY LimitsAssumption, SlotFacts DEF Init
<1>8. pc \in [Threads -> PCs] /\ caller \in [Threads -> Callers]
  BY DEF Init, PCs, Scanning, Callers
<1>9. QED
  BY <1>1, <1>2, <1>3, <1>4, <1>5, <1>6, <1>7, <1>8 DEF TypeOK

LEMMA ListsAreFinite ==
    ASSUME TypeOK, NEW t \in Threads
    PROVE  /\ IsFiniteSet(rlist[t]) /\ Cardinality(rlist[t]) \in Nat
           /\ IsFiniteSet(todo[t]) /\ Cardinality(todo[t]) \in Nat
<1>1. rlist[t] \subseteq Nodes /\ todo[t] \subseteq Nodes
  BY DEF TypeOK
<1>2. IsFiniteSet(rlist[t]) /\ IsFiniteSet(todo[t])
  BY <1>1, NodesAssumption, FS_Subset
<1>3. QED
  BY <1>2, FS_CardinalityType

\* What smr_no_membar_opt.c counts down is not zero.
LEMMA RcountCovers ==
    ASSUME TypeOK, RcountInv, NEW t \in Threads, NEW n \in todo[t], Opt
    PROVE  rcount[t] - 1 \in Nat
<1>1. /\ Cardinality(rlist[t]) \in Nat /\ Cardinality(todo[t]) \in Nat
      /\ IsFiniteSet(todo[t])
  BY ListsAreFinite
<1>2. Cardinality(todo[t]) # 0
  BY <1>1, FS_EmptySet
<1>3. rcount[t] = Cardinality(rlist[t]) + Cardinality(todo[t])
  BY DEF RcountInv
<1>4. QED
  BY <1>1, <1>2, <1>3

LEMMA StoreType ==
    ASSUME TypeOK, NEW t \in Threads, NEW i \in Slots, NEW n \in Nodes \cup {NULL},
           Store(t, i, n)
    PROVE  /\ buf' \in [Threads -> Seq(Stores)]
           /\ [slot |-> i, node |-> n] \in Stores
           /\ buf'[t] = Append(buf[t], [slot |-> i, node |-> n])
           /\ \A u \in Threads \ {t} : buf'[u] = buf[u]
<1>1. [slot |-> i, node |-> n] \in Stores
  BY DEF Stores
<1>2. buf \in [Threads -> Seq(Stores)]
  BY DEF TypeOK
<1>3. Append(buf[t], [slot |-> i, node |-> n]) \in Seq(Stores)
  BY <1>1, <1>2, AppendProperties
<1>4. buf' = [buf EXCEPT ![t] = Append(buf[t], [slot |-> i, node |-> n])]
  BY DEF Store
<1>5. QED
  BY <1>1, <1>2, <1>3, <1>4

LEMMA UnguardType ==
    ASSUME TypeOK, NEW t \in Threads, Unguard(t)
    PROVE  guarded' \in [Slots -> Nodes \cup {NULL}]
BY DEF TypeOK, Unguard

LEMMA CallScanType ==
    ASSUME TypeOK, NEW t \in Threads, NEW c \in Callers, CallScan(t, c)
    PROVE  /\ pc' \in [Threads -> PCs] /\ caller' \in [Threads -> Callers]
           /\ plist' \in [Threads -> SUBSET Nodes] /\ idx' \in [Threads -> 0 .. H]
           /\ scanAge' \in [Threads -> 0 .. ScanTime]
<1>1. "scan" \in PCs /\ 0 \in 0 .. H /\ 0 \in 0 .. ScanTime
  BY SlotFacts, TimesAssumption DEF PCs, Scanning
<1>2. QED
  BY <1>1 DEF CallScan, TypeOK

LEMMA TickType ==
    ASSUME TypeOK, Tick
    PROVE  TypeOK'
<1>1. asleep' \in [Threads -> 0 .. MaxSleep]
  <2>1. \A t \in Threads : asleep[t] + 1 \in 0 .. MaxSleep
    BY TimesAssumption DEF Tick, TypeOK
  <2>2. QED
    BY <2>1 DEF Tick
<1>2. scanAge' \in [Threads -> 0 .. ScanTime]
  <2>1. \A t \in Threads : scanAge[t] \in 0 .. ScanTime
    BY DEF TypeOK
  <2>2. \A t \in Threads : pc[t] \in Scanning => scanAge[t] + 1 \in 0 .. ScanTime
    BY <2>1, TimesAssumption DEF Tick
  <2>3. QED
    BY <2>1, <2>2 DEF Tick
<1>3. age' \in [Nodes -> 0 .. MaxAge]
  <2>1. \A n \in Nodes : age[n] \in 0 .. MaxAge
    BY DEF TypeOK
  <2>2. \A n \in Nodes : age[n] < MaxAge => age[n] + 1 \in 0 .. MaxAge
    BY <2>1, TimesAssumption
  <2>3. QED
    BY <2>1, <2>2 DEF Tick
<1>4. QED
  BY <1>1, <1>2, <1>3 DEF Tick, TypeOK, client, memory, retire, scanner, control

LEMMA TypeStep ==
    ASSUME TypeOK, ControlInv, RcountInv, NEW t \in Threads, Step(t)
    PROVE  TypeOK'
<1> USE DEF TypeOK, Goto, client, memory, time, retire, scanner, control
<1>pcs. /\ "op" \in PCs /\ "check" \in PCs /\ "free" \in PCs /\ "clear" \in PCs
        /\ "exit" \in PCs /\ "exited" \in PCs /\ "scan" \in PCs /\ "sweep" \in PCs
        /\ "free" \in Callers /\ "insert" \in Callers /\ "exit" \in Callers
  BY DEF PCs, Scanning, Callers
<1>1. ASSUME NEW i \in Own(t), NEW n \in Nodes \cup {NULL}, Publish(t, i, n) PROVE TypeOK'
  <2>1. i \in Slots
    BY SlotFacts
  <2>2. buf' \in [Threads -> Seq(Stores)]
    BY <1>1, <2>1, StoreType DEF Publish
  <2>3. pc' \in [Threads -> PCs] /\ slot' \in [Threads -> Slots]
        /\ guarded' \in [Slots -> Nodes \cup {NULL}]
    BY <1>1, <1>pcs, <2>1 DEF Publish
  <2>4. QED
    BY <1>1, <2>2, <2>3 DEF Publish
<1>2. ASSUME NEW n \in Nodes, Insert(t, n) PROVE TypeOK'
  <2>1. linked' \in SUBSET Nodes /\ pool' \in [Threads -> SUBSET Nodes]
    BY <1>2 DEF Insert
  <2>2. QED
    BY <1>2, <2>1, UnguardType DEF Insert
<1>3. ASSUME NEW n \in Nodes, Unlink(t, n) PROVE TypeOK'
  <2>1. /\ linked' \in SUBSET Nodes /\ victim' \in [Threads -> Nodes \cup {NULL}]
        /\ pc' \in [Threads -> PCs]
    BY <1>3, <1>pcs DEF Unlink
  <2>2. QED
    BY <1>3, <2>1 DEF Unlink
<1>4. CASE EndOperation(t)
  BY <1>4, UnguardType DEF EndOperation
<1>5. CASE InsertFindsNoNode(t)
  BY <1>5, <1>pcs, CallScanType DEF InsertFindsNoNode
<1>6. CASE Validate(t)
  <2>1. Read(t, slot[t]) \in Nodes \cup {NULL}
    BY ReadIsNode
  <2>2. guarded' \in [Slots -> Nodes \cup {NULL}] /\ pc' \in [Threads -> PCs]
    BY <1>6, <1>pcs, <2>1 DEF Validate
  <2>3. QED
    BY <1>6, <2>2 DEF Validate
<1>7. CASE FreeNodeLater(t)
  <2>1. victim[t] \in Nodes
    BY <1>7 DEF FreeNodeLater, ControlInv, ControlOf
  <2>2. /\ rlist' \in [Threads -> SUBSET Nodes] /\ rcount' \in [Threads -> Nat]
        /\ victim' \in [Threads -> Nodes \cup {NULL}]
    BY <1>7, <2>1 DEF FreeNodeLater
  <2>3. calls' \in [Threads -> 0 .. CallsMod - 1]
    <3>1. 0 \in 0 .. CallsMod - 1 /\ calls[t] \in 0 .. CallsMod - 1
      BY LimitsAssumption
    <3>2. (calls[t] + 1) % CallsMod \in 0 .. CallsMod - 1
      BY <3>1, LimitsAssumption
    <3>3. NextCall(t) \in 0 .. CallsMod - 1
      BY <3>1, <3>2 DEF NextCall
    <3>4. \/ calls' = [calls EXCEPT ![t] = 0]
          \/ calls' = [calls EXCEPT ![t] = NextCall(t)]
      BY <1>7 DEF FreeNodeLater
    <3>5. calls \in [Threads -> 0 .. CallsMod - 1]
      OBVIOUS
    <3> HIDE DEF TypeOK
    <3>6. QED
      BY <3>1, <3>3, <3>4, <3>5
  <2>4. /\ pc' \in [Threads -> PCs] /\ caller' \in [Threads -> Callers]
        /\ plist' \in [Threads -> SUBSET Nodes] /\ idx' \in [Threads -> 0 .. H]
        /\ scanAge' \in [Threads -> 0 .. ScanTime]
    <3>1. CASE ScanIsDue(t)
      <4>1. CallScan(t, "free")
        BY <1>7, <3>1 DEF FreeNodeLater
      <4>2. QED
        BY <4>1, <1>pcs, CallScanType
    <3>2. CASE ~ScanIsDue(t)
      <4>1. /\ pc' = [pc EXCEPT ![t] = "op"]
            /\ UNCHANGED <<caller, plist, scanAge, idx>>
        BY <1>7, <3>2 DEF FreeNodeLater
      <4>2. QED
        BY <4>1, <1>pcs
    <3>3. QED
      BY <3>1, <3>2
  <2>5. QED
    BY <1>7, <2>2, <2>3, <2>4 DEF FreeNodeLater
<1>8. CASE ReadHazardPointer(t)
  <2>1. idx[t] \in Slots /\ idx[t] + 1 \in 0 .. H
    <3>1. idx[t] \in 0 .. H /\ idx[t] < H
      BY <1>8 DEF ReadHazardPointer, ControlInv, ControlOf
    <3>2. H \in Nat
      BY SlotFacts
    <3> HIDE DEF TypeOK
    <3>3. QED
      BY <3>1, <3>2 DEF Slots
  <2>2. Read(t, idx[t]) \in Nodes \cup {NULL}
    BY <2>1, ReadIsNode
  <2>3. plist' \in [Threads -> SUBSET Nodes] /\ idx' \in [Threads -> 0 .. H]
    BY <1>8, <2>1, <2>2 DEF ReadHazardPointer
  <2>4. /\ pc' \in [Threads -> PCs] /\ rcount' \in [Threads -> Nat]
        /\ rlist' \in [Threads -> SUBSET Nodes] /\ todo' \in [Threads -> SUBSET Nodes]
    <3>1. StartCount(t) \in Nat
      BY DEF StartCount
    <3>2. \/ UNCHANGED <<pc, rlist, todo, rcount>>
          \/ /\ pc' = [pc EXCEPT ![t] = "sweep"]
             /\ todo' = [todo EXCEPT ![t] = rlist[t]]
             /\ rlist' = [rlist EXCEPT ![t] = {}]
             /\ rcount' = [rcount EXCEPT ![t] = StartCount(t)]
      BY <1>8 DEF ReadHazardPointer
    <3>3. /\ pc \in [Threads -> PCs] /\ rcount \in [Threads -> Nat]
          /\ rlist \in [Threads -> SUBSET Nodes] /\ todo \in [Threads -> SUBSET Nodes]
      OBVIOUS
    <3> HIDE DEF TypeOK
    <3>4. pc' \in [Threads -> PCs] /\ rcount' \in [Threads -> Nat]
      BY <3>1, <3>2, <3>3, <1>pcs
    <3>5. rlist' \in [Threads -> SUBSET Nodes] /\ todo' \in [Threads -> SUBSET Nodes]
      BY <3>2, <3>3
    <3>6. QED
      BY <3>4, <3>5
  <2>5. QED
    BY <1>8, <2>3, <2>4 DEF ReadHazardPointer
<1>9. ASSUME NEW n \in Nodes, SweepNode(t, n) PROVE TypeOK'
  <2>1. todo' \in [Threads -> SUBSET Nodes] /\ n \in todo[t]
    BY <1>9 DEF SweepNode
  <2>2. CASE Freed(t, n)
    <3>1. FreeCount(t) \in Nat
      BY <2>1, RcountCovers DEF FreeCount
    <3>2. /\ pool' = [pool EXCEPT ![t] = @ \cup {n}]
          /\ age' = [age EXCEPT ![n] = 0]
          /\ rcount' = [rcount EXCEPT ![t] = FreeCount(t)]
          /\ UNCHANGED rlist
      BY <1>9, <2>2 DEF SweepNode
    <3>3. age' \in [Nodes -> 0 .. MaxAge]
      BY <3>2, TimesAssumption
    <3>4. pool' \in [Threads -> SUBSET Nodes]
      BY <3>2
    <3>5. rcount' \in [Threads -> Nat]
      BY <3>1, <3>2
    <3>6. QED
      BY <1>9, <2>1, <3>2, <3>3, <3>4, <3>5 DEF SweepNode
  <2>3. CASE ~Freed(t, n)
    <3>1. KeepCount(t) \in Nat
      BY DEF KeepCount
    <3>2. /\ rlist' = [rlist EXCEPT ![t] = @ \cup {n}]
          /\ rcount' = [rcount EXCEPT ![t] = KeepCount(t)]
          /\ UNCHANGED <<pool, age>>
      BY <1>9, <2>3 DEF SweepNode
    <3>3. rlist' \in [Threads -> SUBSET Nodes]
      BY <3>2
    <3>4. rcount' \in [Threads -> Nat]
      BY <3>1, <3>2
    <3>5. QED
      BY <1>9, <2>1, <3>2, <3>3, <3>4 DEF SweepNode
  <2>4. QED
    BY <2>2, <2>3
<1>10. CASE EndScan(t)
  <2>1. AfterScan[caller[t]] \in PCs
    BY <1>pcs DEF AfterScan, Callers
  <2>2. 0 \in 0 .. H /\ 0 \in 0 .. ScanTime
    BY SlotFacts, TimesAssumption
  <2>3. /\ pc' \in [Threads -> PCs] /\ caller' \in [Threads -> Callers]
        /\ plist' \in [Threads -> SUBSET Nodes] /\ idx' \in [Threads -> 0 .. H]
        /\ scanAge' \in [Threads -> 0 .. ScanTime]
    BY <1>10, <1>pcs, <2>1, <2>2 DEF EndScan
  <2>4. QED
    BY <1>10, <2>3 DEF EndScan
<1>11. CASE StartExit(t)
  <2>1. pc' \in [Threads -> PCs]
    BY <1>11, <1>pcs DEF StartExit
  <2>2. QED
    BY <1>11, <2>1, UnguardType DEF StartExit
<1>12. CASE ClearHazardPointer(t)
  <2>1. idx[t] \in 0 .. K - 1
    BY <1>12, NAssumption, SlotFacts DEF ClearHazardPointer, ControlInv, ControlOf
  <2>2. K * t + idx[t] \in Slots
    BY <2>1, SlotFacts
  <2>3. buf' \in [Threads -> Seq(Stores)]
    BY <1>12, <2>2, StoreType DEF ClearHazardPointer, Cleared
  <2>4. idx' \in [Threads -> 0 .. H]
    <3>0. H \in Nat \ {0} /\ K \in Nat /\ K <= H
      BY NAssumption, SlotFacts
    <3>1. 0 \in 0 .. H /\ (idx[t] + 1 < K => idx[t] + 1 \in 0 .. H)
      BY <2>1, <3>0
    <3>2. QED
      BY <1>12, <3>1 DEF ClearHazardPointer
  <2>5. pc' \in [Threads -> PCs]
    BY <1>12, <1>pcs DEF ClearHazardPointer
  <2>6. QED
    BY <1>12, <2>3, <2>4, <2>5 DEF ClearHazardPointer
<1>13. CASE ScanAtExit(t)
  <2>1. retries' \in [Threads -> 0 .. MaxExitRetries]
    <3>1. ~Opt => retries[t] + 1 \in 0 .. MaxExitRetries
      BY <1>13, LimitsAssumption DEF ScanAtExit, GivesUp
    <3>2. QED
      BY <1>13, <3>1 DEF ScanAtExit
  <2>2. QED
    BY <1>13, <1>pcs, <2>1, CallScanType DEF ScanAtExit
<1>14. CASE FinishExit(t)
  <2>1. pc' \in [Threads -> PCs]
    BY <1>14, <1>pcs DEF FinishExit
  <2>2. QED
    BY <1>14, <2>1 DEF FinishExit
<1>15. CASE Drain(t)
  <2>1. /\ buf[t] \in Seq(Stores) /\ buf[t] # <<>>
    BY <1>15 DEF Drain
  <2>2. Head(buf[t]) \in Stores /\ Tail(buf[t]) \in Seq(Stores)
    BY <2>1, HeadTailProperties
  <2>3. HP' \in [Slots -> Nodes \cup {NULL}] /\ buf' \in [Threads -> Seq(Stores)]
    BY <1>15, <2>2 DEF Drain, Stores
  <2>4. QED
    BY <1>15, <2>3 DEF Drain
<1>16. CASE Wakeup(t)
  <2>1. HP' \in [Slots -> Nodes \cup {NULL}]
    <3>1. \A i \in Slots : Read(t, i) \in Nodes \cup {NULL}
      BY ReadIsNode
    <3>2. Flushed(t) \in [Slots -> Nodes \cup {NULL}]
      BY <3>1 DEF Flushed
    <3>3. QED
      BY <1>16, <3>2 DEF Wakeup
  <2>2. buf' \in [Threads -> Seq(Stores)] /\ asleep' \in [Threads -> 0 .. MaxSleep]
    <3>1. <<>> \in Seq(Stores) /\ 0 \in 0 .. MaxSleep
      BY TimesAssumption
    <3>2. QED
      BY <1>16, <3>1 DEF Wakeup
  <2>3. QED
    BY <1>16, <2>1, <2>2 DEF Wakeup
<1>17. QED
  BY <1>1, <1>2, <1>3, <1>4, <1>5, <1>6, <1>7, <1>8, <1>9, <1>10, <1>11, <1>12,
     <1>13, <1>14, <1>15, <1>16 DEF Step, Operate, Proceed

-----------------------------------------------------------------------------
(* Control.                                                                *)

\* A step of t leaves alone what belongs to the other threads.
LEMMA ThreadsFrame ==
    ASSUME TypeOK, NEW t \in Threads, Step(t), NEW u \in Threads, u # t
    PROVE  /\ pc'[u] = pc[u] /\ victim'[u] = victim[u] /\ slot'[u] = slot[u]
           /\ idx'[u] = idx[u] /\ plist'[u] = plist[u] /\ scanAge'[u] = scanAge[u]
           /\ rlist'[u] = rlist[u] /\ todo'[u] = todo[u] /\ rcount'[u] = rcount[u]
           /\ pool'[u] = pool[u] /\ buf'[u] = buf[u] /\ asleep'[u] = asleep[u]
<1>dom. /\ DOMAIN pc = Threads /\ DOMAIN victim = Threads /\ DOMAIN slot = Threads
        /\ DOMAIN idx = Threads /\ DOMAIN plist = Threads /\ DOMAIN scanAge = Threads
        /\ DOMAIN rlist = Threads /\ DOMAIN todo = Threads /\ DOMAIN rcount = Threads
        /\ DOMAIN pool = Threads /\ DOMAIN buf = Threads /\ DOMAIN asleep = Threads
  BY DEF TypeOK
<1> USE <1>dom DEF Goto, client, memory, time, retire, scanner, control
<1>1. CASE \E i \in Own(t), n \in Nodes \cup {NULL} : Publish(t, i, n)
  BY <1>1 DEF Publish, Store
<1>2. CASE \E n \in Nodes : Insert(t, n) \/ Unlink(t, n)
  BY <1>2 DEF Insert, Unlink
<1>3. CASE EndOperation(t) \/ StartExit(t) \/ FinishExit(t)
  BY <1>3 DEF EndOperation, StartExit, FinishExit
<1>4. CASE InsertFindsNoNode(t)
  BY <1>4 DEF InsertFindsNoNode, CallScan
<1>5. CASE Validate(t)
  BY <1>5 DEF Validate
<1>6. CASE FreeNodeLater(t)
  BY <1>6 DEF FreeNodeLater, CallScan
<1>7. CASE ReadHazardPointer(t)
  BY <1>7 DEF ReadHazardPointer
<1>8. CASE EndScan(t)
  BY <1>8 DEF EndScan
<1>9. CASE \E n \in Nodes : SweepNode(t, n)
  BY <1>9 DEF SweepNode
<1>10. CASE ClearHazardPointer(t)
  BY <1>10 DEF ClearHazardPointer, Store
<1>11. CASE ScanAtExit(t)
  BY <1>11 DEF ScanAtExit, CallScan
<1>12. CASE Drain(t)
  BY <1>12 DEF Drain
<1>13. CASE Wakeup(t)
  BY <1>13 DEF Wakeup
<1>14. QED
  BY <1>1, <1>2, <1>3, <1>4, <1>5, <1>6, <1>7, <1>8, <1>9, <1>10, <1>11, <1>12,
     <1>13 DEF Step, Operate, Proceed

\* Nor does it change what slots of others guard.
LEMMA SlotsFrame ==
    ASSUME TypeOK, ControlInv, NEW t \in Threads, Step(t),
           NEW i \in Slots, i \notin Own(t)
    PROVE  guarded'[i] = guarded[i]
<1>dom. DOMAIN guarded = Slots /\ slot[t] \in Own(t)
  BY DEF TypeOK, ControlInv, ControlOf
<1> USE <1>dom DEF Goto, client, memory, time, retire, scanner, control
<1>1. CASE \E j \in Own(t), n \in Nodes \cup {NULL} : Publish(t, j, n)
  BY <1>1 DEF Publish
<1>2. CASE Validate(t)
  BY <1>2 DEF Validate
<1>3. ASSUME Unguard(t) PROVE guarded'[i] = guarded[i]
  BY <1>3 DEF Unguard
<1>4. CASE UNCHANGED guarded
  BY <1>4
<1>5. QED
  BY <1>1, <1>2, <1>3, <1>4
     DEF Step, Operate, Proceed, Insert, Unlink, EndOperation, InsertFindsNoNode,
         FreeNodeLater, ReadHazardPointer, EndScan, SweepNode, ClearHazardPointer,
         ScanAtExit, FinishExit, StartExit, Drain, Wakeup

LEMMA OwnControlStep ==
    ASSUME TypeOK, ControlInv, NEW t \in Threads, Step(t)
    PROVE  ControlOf(t)'
<1>dom. /\ DOMAIN pc = Threads /\ DOMAIN victim = Threads /\ DOMAIN slot = Threads
        /\ DOMAIN idx = Threads /\ DOMAIN todo = Threads /\ DOMAIN buf = Threads
        /\ DOMAIN guarded = Slots /\ DOMAIN caller = Threads
        /\ \A i \in Own(t) : i \in Slots
        /\ idx[t] \in Nat /\ H \in Nat \ {0} /\ K \in Nat \ {0} /\ NULL \notin Nodes
  BY SlotFacts, NodesAssumption, NAssumption DEF TypeOK
<1>old. ControlOf(t)
  BY DEF ControlInv
<1> USE <1>dom, <1>old DEF ControlOf, Goto, client, memory, time, retire, scanner, control
\* A store to a slot of its own.
<1>store. ASSUME NEW i \in Own(t), NEW n \in Nodes \cup {NULL}, Store(t, i, n)
          PROVE  \A e \in DOMAIN buf'[t] : buf'[t][e].slot \in Own(t)
  <2>1. /\ buf[t] \in Seq(Stores) /\ [slot |-> i, node |-> n] \in Stores
        /\ buf'[t] = Append(buf[t], [slot |-> i, node |-> n])
    <3>1. i \in Slots
      OBVIOUS
    <3>2. buf[t] \in Seq(Stores)
      BY DEF TypeOK
    <3>3. QED
      BY <1>store, <3>1, <3>2, StoreType
  <2>2. /\ Len(buf[t]) \in Nat
        /\ DOMAIN buf'[t] = 1 .. Len(buf[t]) + 1 /\ DOMAIN buf[t] = 1 .. Len(buf[t])
        /\ \A e \in 1 .. Len(buf[t]) : buf'[t][e] = buf[t][e]
        /\ buf'[t][Len(buf[t]) + 1] = [slot |-> i, node |-> n]
    BY <2>1, AppendIs
  <2>3. QED
    BY <2>2
<1>1. ASSUME NEW i \in Own(t), NEW n \in Nodes \cup {NULL}, Publish(t, i, n)
      PROVE  ControlOf(t)'
  BY <1>1, <1>store DEF Publish
<1>2. ASSUME NEW n \in Nodes, Insert(t, n) PROVE ControlOf(t)'
  BY <1>2 DEF Insert
<1>3. ASSUME NEW n \in Nodes, Unlink(t, n) PROVE ControlOf(t)'
  BY <1>3 DEF Unlink
<1>4. CASE EndOperation(t)
  BY <1>4 DEF EndOperation
<1>5. CASE InsertFindsNoNode(t)
  BY <1>5 DEF InsertFindsNoNode, CallScan
<1>6. CASE Validate(t)
  BY <1>6 DEF Validate
<1>7. CASE FreeNodeLater(t)
  BY <1>7 DEF FreeNodeLater, CallScan
<1>8. CASE ReadHazardPointer(t)
  <2>1. CASE idx[t] + 1 < H
    BY <1>8, <2>1 DEF ReadHazardPointer
  <2>2. CASE ~(idx[t] + 1 < H)
    <3>1. idx'[t] = idx[t] + 1 /\ idx[t] < H
      BY <1>8 DEF ReadHazardPointer
    <3>2. idx'[t] = H
      BY <2>2, <3>1
    <3>3. QED
      BY <1>8, <2>2, <3>2 DEF ReadHazardPointer
  <2>3. QED
    BY <2>1, <2>2
<1>9. ASSUME NEW n \in Nodes, SweepNode(t, n) PROVE ControlOf(t)'
  BY <1>9 DEF SweepNode
<1>10. CASE EndScan(t)
  <2>1. AfterScan[caller[t]] \in {"op", "exit"}
    BY DEF AfterScan, TypeOK, Callers
  <2>2. QED
    BY <1>10, <2>1 DEF EndScan
<1>11. CASE StartExit(t)
  BY <1>11 DEF StartExit, Unguard
<1>12. CASE ClearHazardPointer(t)
  <2>1. K * t + idx[t] \in Own(t)
    BY <1>12, SlotFacts DEF ClearHazardPointer
  <2>2. \A e \in DOMAIN buf'[t] : buf'[t][e].slot \in Own(t)
    BY <1>12, <1>store, <2>1 DEF ClearHazardPointer, Cleared
  <2>3. QED
    BY <1>12, <2>2 DEF ClearHazardPointer
<1>13. CASE ScanAtExit(t)
  BY <1>13 DEF ScanAtExit, CallScan
<1>14. CASE FinishExit(t)
  BY <1>14 DEF FinishExit
<1>15. CASE Drain(t)
  <2>1. /\ buf[t] \in Seq(Stores) /\ buf[t] # <<>> /\ buf'[t] = Tail(buf[t])
    BY <1>15 DEF Drain, TypeOK
  <2>2. \A e \in DOMAIN buf'[t] : e + 1 \in DOMAIN buf[t] /\ buf'[t][e] = buf[t][e + 1]
    BY <2>1, HeadTailProperties, LenProperties
  <2>3. QED
    BY <1>15, <2>2 DEF Drain
<1>16. CASE Wakeup(t)
  <2>1. DOMAIN buf'[t] = {}
    BY <1>16 DEF Wakeup
  <2>2. QED
    BY <1>16, <2>1 DEF Wakeup
<1>17. QED
  BY <1>1, <1>2, <1>3, <1>4, <1>5, <1>6, <1>7, <1>8, <1>9, <1>10, <1>11, <1>12,
     <1>13, <1>14, <1>15, <1>16 DEF Step, Operate, Proceed

LEMMA ControlStep ==
    ASSUME TypeOK, ControlInv, NEW t \in Threads, Step(t)
    PROVE  ControlInv'
<1>1. ASSUME NEW u \in Threads, u # t PROVE ControlOf(u)'
  <2>1. /\ pc'[u] = pc[u] /\ victim'[u] = victim[u] /\ slot'[u] = slot[u]
        /\ idx'[u] = idx[u] /\ todo'[u] = todo[u] /\ buf'[u] = buf[u]
    BY <1>1, ThreadsFrame
  <2>2. \A i \in Own(u) : i \in Slots /\ i \notin Own(t)
    BY <1>1, SlotFacts, OwnDisjoint
  <2>3. \A i \in Own(u) : guarded'[i] = guarded[i]
    BY <2>2, SlotsFrame
  <2>4. QED
    BY <2>1, <2>3 DEF ControlInv, ControlOf
<1>2. QED
  BY <1>1, OwnControlStep DEF ControlInv

-----------------------------------------------------------------------------
(* One place per node.                                                     *)

LEMMA PlaceStep ==
    ASSUME TypeOK, ControlInv, Located, NEW t \in Threads, Step(t)
    PROVE  Located'
<1>dom. /\ DOMAIN pool = Threads /\ DOMAIN victim = Threads
        /\ DOMAIN rlist = Threads /\ DOMAIN todo = Threads
        /\ NULL \notin Nodes
  BY NodesAssumption DEF TypeOK
<1>frame. \A u \in Threads \ {t} : /\ pool'[u] = pool[u] /\ victim'[u] = victim[u]
                                   /\ rlist'[u] = rlist[u] /\ todo'[u] = todo[u]
  BY ThreadsFrame
<1> USE <1>dom, <1>frame
    DEF Goto, client, memory, time, retire, scanner, control
<1>1. ASSUME linked' = linked, pool' = pool, victim' = victim,
             rlist' = rlist, todo' = todo
      PROVE  Located'
  BY <1>1 DEF Located, Somewhere, NotTwice
<1>2. ASSUME NEW n \in Nodes, Insert(t, n) PROVE Located'
  <2>1. /\ n \in pool[t] /\ linked' = linked \cup {n}
        /\ victim' = victim /\ rlist' = rlist /\ todo' = todo
        /\ pool'[t] = pool[t] \ {n}
    BY <1>2 DEF Insert
  <2>2. \A m \in Nodes : Somewhere(m)'
    BY <2>1 DEF Located, Somewhere
  <2>3. \A m \in Nodes : NotTwice(m)'
    BY <2>1 DEF Located, NotTwice
  <2>4. QED
    BY <2>2, <2>3 DEF Located
<1>3. ASSUME NEW n \in Nodes, Unlink(t, n) PROVE Located'
  <2>1. /\ n \in linked /\ linked' = linked \ {n} /\ victim[t] = NULL
        /\ pool' = pool /\ rlist' = rlist /\ todo' = todo /\ victim'[t] = n
    BY <1>3 DEF Unlink, ControlInv, ControlOf
  <2>2. \A m \in Nodes : Somewhere(m)'
    BY <2>1 DEF Located, Somewhere
  <2>3. \A m \in Nodes : NotTwice(m)'
    BY <2>1 DEF Located, NotTwice
  <2>4. QED
    BY <2>2, <2>3 DEF Located
<1>4. CASE FreeNodeLater(t)
  <2>1. /\ victim[t] \in Nodes /\ victim'[t] = NULL
        /\ rlist'[t] = rlist[t] \cup {victim[t]}
        /\ linked' = linked /\ pool' = pool /\ todo' = todo
    BY <1>4 DEF FreeNodeLater, ControlInv, ControlOf, TypeOK
  <2>2. \A m \in Nodes : Somewhere(m)'
    BY <2>1 DEF Located, Somewhere
  <2>3. \A m \in Nodes : NotTwice(m)'
    BY <2>1 DEF Located, NotTwice
  <2>4. QED
    BY <2>2, <2>3 DEF Located
<1>5. CASE ReadHazardPointer(t)
  <2>1. CASE idx[t] + 1 < H
    BY <1>1, <1>5, <2>1 DEF ReadHazardPointer
  <2>2. CASE ~(idx[t] + 1 < H)
    <3>1. /\ todo[t] = {} /\ todo'[t] = rlist[t] /\ rlist'[t] = {}
          /\ linked' = linked /\ pool' = pool /\ victim' = victim
      BY <1>5, <2>2 DEF ReadHazardPointer, ControlInv, ControlOf
    <3>2. \A m \in Nodes : Somewhere(m)'
      BY <3>1 DEF Located, Somewhere
    <3>3. \A m \in Nodes : NotTwice(m)'
      BY <3>1 DEF Located, NotTwice
    <3>4. QED
      BY <3>2, <3>3 DEF Located
  <2>3. QED
    BY <2>1, <2>2
<1>6. ASSUME NEW n \in Nodes, SweepNode(t, n) PROVE Located'
  <2>1. /\ n \in todo[t] /\ todo'[t] = todo[t] \ {n}
        /\ linked' = linked /\ victim' = victim
    BY <1>6 DEF SweepNode
  <2>2. \/ pool'[t] = pool[t] \cup {n} /\ rlist' = rlist
        \/ rlist'[t] = rlist[t] \cup {n} /\ pool' = pool
    BY <1>6 DEF SweepNode
  <2>3. \A m \in Nodes : Somewhere(m)'
    BY <2>1, <2>2 DEF Located, Somewhere
  <2>4. \A m \in Nodes : NotTwice(m)'
    BY <2>1, <2>2 DEF Located, NotTwice
  <2>5. QED
    BY <2>3, <2>4 DEF Located
<1>7. QED
  BY <1>1, <1>2, <1>3, <1>4, <1>5, <1>6
     DEF Step, Operate, Proceed, Publish, EndOperation, InsertFindsNoNode, Validate,
         EndScan, ClearHazardPointer, ScanAtExit, FinishExit, StartExit, Drain, Wakeup

-----------------------------------------------------------------------------
(* rcount.                                                                 *)

LEMMA RcountStep ==
    ASSUME TypeOK, ControlInv, Located, RcountInv, NEW t \in Threads, Step(t)
    PROVE  RcountInv'
<1> DEFINE RcountOf(u) == rcount[u] = Cardinality(rlist[u])
                                       + (IF Opt THEN Cardinality(todo[u]) ELSE 0)
<1>1. ASSUME NEW u \in Threads, u # t PROVE RcountOf(u)'
  <2>1. rcount'[u] = rcount[u] /\ rlist'[u] = rlist[u] /\ todo'[u] = todo[u]
    BY <1>1, ThreadsFrame
  <2>2. QED
    BY <2>1 DEF RcountInv
<1>dom. /\ DOMAIN rlist = Threads /\ DOMAIN todo = Threads /\ DOMAIN rcount = Threads
        /\ IsFiniteSet(rlist[t]) /\ Cardinality(rlist[t]) \in Nat
        /\ IsFiniteSet(todo[t]) /\ Cardinality(todo[t]) \in Nat
        /\ rcount[t] \in Nat
  BY ListsAreFinite DEF TypeOK
<1>old. RcountOf(t)
  BY DEF RcountInv
<1>2. RcountOf(t)'
  <2> USE <1>dom, <1>old DEF Goto, client, memory, time, retire, scanner, control
  <2>1. ASSUME rlist' = rlist, todo' = todo, rcount' = rcount PROVE RcountOf(t)'
    BY <2>1
  <2>2. CASE FreeNodeLater(t)
    <3>1. victim[t] \in Nodes
      BY <2>2 DEF FreeNodeLater, ControlInv, ControlOf, TypeOK
    <3>2. victim[t] \notin rlist[t]
      BY <3>1 DEF Located, NotTwice
    <3>3. Cardinality(rlist[t] \cup {victim[t]}) = Cardinality(rlist[t]) + 1
      BY <3>2, FS_AddElement
    <3>4. /\ rlist'[t] = rlist[t] \cup {victim[t]} /\ rcount'[t] = rcount[t] + 1
          /\ todo' = todo
      BY <2>2 DEF FreeNodeLater
    <3>5. QED
      BY <3>3, <3>4
  <2>3. CASE ReadHazardPointer(t)
    <3>1. CASE idx[t] + 1 < H
      BY <2>1, <2>3, <3>1 DEF ReadHazardPointer
    <3>2. CASE ~(idx[t] + 1 < H)
      <4>1. /\ todo[t] = {} /\ todo'[t] = rlist[t] /\ rlist'[t] = {}
            /\ rcount'[t] = StartCount(t)
        BY <2>3, <3>2 DEF ReadHazardPointer, ControlInv, ControlOf
      <4>2. Cardinality({}) = 0
        BY FS_EmptySet
      <4>3. QED
        BY <4>1, <4>2 DEF StartCount
    <3>3. QED
      BY <3>1, <3>2
  <2>4. ASSUME NEW n \in Nodes, SweepNode(t, n) PROVE RcountOf(t)'
    <3>1. n \in todo[t] /\ todo'[t] = todo[t] \ {n}
      BY <2>4 DEF SweepNode
    <3>2. Cardinality(todo[t] \ {n}) = Cardinality(todo[t]) - 1
      BY <3>1, FS_RemoveElement
    <3>3. CASE Freed(t, n)
      <4>1. rlist' = rlist /\ rcount'[t] = FreeCount(t)
        BY <2>4, <3>3 DEF SweepNode
      <4>2. QED
        BY <3>1, <3>2, <4>1 DEF FreeCount
    <3>4. CASE ~Freed(t, n)
      <4>1. rlist'[t] = rlist[t] \cup {n} /\ rcount'[t] = KeepCount(t)
        BY <2>4, <3>4 DEF SweepNode
      <4>2. n \notin rlist[t]
        BY <3>1 DEF Located, NotTwice
      <4>3. Cardinality(rlist[t] \cup {n}) = Cardinality(rlist[t]) + 1
        BY <4>2, FS_AddElement
      <4>4. QED
        BY <3>1, <3>2, <4>1, <4>3 DEF KeepCount
    <3>5. QED
      BY <3>3, <3>4
  <2>5. QED
    BY <2>1, <2>2, <2>3, <2>4
       DEF Step, Operate, Proceed, Publish, Insert, Unlink, EndOperation,
           InsertFindsNoNode, Validate, EndScan, ClearHazardPointer, ScanAtExit,
           FinishExit, StartExit, Drain, Wakeup
<1>3. QED
  BY <1>1, <1>2 DEF RcountInv

-----------------------------------------------------------------------------
(* Guards.                                                                 *)

\* What a slot guards after a step: what it did, nothing, or a linked node that
\* its owner reads there.
LEMMA GuardsOfStep ==
    ASSUME TypeOK, ControlInv, NEW t \in Threads, Step(t), NEW i \in Slots
    PROVE  \/ guarded'[i] = guarded[i]
           \/ guarded'[i] = NULL
           \/ /\ guarded'[i] = Read(Owner(i), i) /\ guarded'[i] \in linked
              /\ UNCHANGED <<linked, HP, buf>>
<1>dom. DOMAIN guarded = Slots /\ slot[t] \in Own(t) /\ Owner(slot[t]) = t
  BY SlotFacts DEF TypeOK, ControlInv, ControlOf
<1> USE <1>dom DEF Goto, client, memory, time, retire, scanner, control
<1>1. CASE \E j \in Own(t), n \in Nodes \cup {NULL} : Publish(t, j, n)
  BY <1>1 DEF Publish
<1>2. CASE Validate(t)
  BY <1>2 DEF Validate
<1>3. ASSUME Unguard(t) PROVE guarded'[i] \in {guarded[i], NULL}
  BY <1>3 DEF Unguard
<1>4. CASE UNCHANGED guarded
  BY <1>4
<1>5. QED
  BY <1>1, <1>2, <1>3, <1>4
     DEF Step, Operate, Proceed, Insert, Unlink, EndOperation, InsertFindsNoNode,
         FreeNodeLater, ReadHazardPointer, EndScan, SweepNode, ClearHazardPointer,
         ScanAtExit, FinishExit, StartExit, Drain, Wakeup

LEMMA ReadIsNext ==
    ASSUME NEW t, NEW i
    PROVE  /\ Pending(t, i)' = StoresTo(buf'[t], i)
           /\ Read(t, i)' = ValueOf(HP', buf'[t], i)
BY DEF Pending, Read, StoresTo, LastTo, ValueOf

\* What the owner of a slot that guards something reads there, and whether one
\* of its stores is on its way, over a step.
ViewKept(i) ==
    /\ Read(Owner(i), i)' = Read(Owner(i), i)
    /\ Pending(Owner(i), i)' # {} =>
          Pending(Owner(i), i) # {} /\ asleep'[Owner(i)] = asleep[Owner(i)]

LEMMA StoreKeepsViews ==
    ASSUME TypeOK, NEW t \in Threads, NEW j \in Own(t), NEW n \in Nodes \cup {NULL},
           Store(t, j, n), UNCHANGED <<HP, asleep>>, NEW i \in Slots, i # j
    PROVE  ViewKept(i)
<1> DEFINE u == Owner(i)
<1>1. u \in Threads /\ j \in Slots
  BY SlotFacts
<1>2. /\ buf[t] \in Seq(Stores) /\ [slot |-> j, node |-> n] \in Stores
      /\ buf'[t] = Append(buf[t], [slot |-> j, node |-> n])
      /\ (u # t => buf'[u] = buf[u])
  BY <1>1, StoreType DEF TypeOK
<1> HIDE DEF u
<1>3. /\ StoresTo(buf'[u], i) = StoresTo(buf[u], i)
      /\ ValueOf(HP, buf'[u], i) = ValueOf(HP, buf[u], i)
  <2>1. CASE u = t
    <3> DEFINE x == [slot |-> j, node |-> n]
    <3>1. x.slot = j /\ x \in Stores /\ buf'[t] = Append(buf[t], x)
      BY <1>2
    <3> HIDE DEF x
    <3>2. /\ StoresTo(Append(buf[t], x), i) = StoresTo(buf[t], i)
          /\ ValueOf(HP, Append(buf[t], x), i) = ValueOf(HP, buf[t], i)
      BY <1>2, <3>1, OthersAfterAppend
    <3>3. QED
      BY <2>1, <3>1, <3>2
  <2>2. CASE u # t
    BY <1>2, <2>2
  <2>3. QED
    BY <2>1, <2>2
<1>4. Read(u, i)' = Read(u, i) /\ Pending(u, i)' = Pending(u, i)
  BY <1>3, ReadIs, ReadIsNext
<1>5. QED
  BY <1>4 DEF ViewKept, u

LEMMA DrainKeepsViews ==
    ASSUME TypeOK, ControlInv, NEW t \in Threads, Drain(t), NEW i \in Slots
    PROVE  ViewKept(i)
<1> DEFINE u == Owner(i)
<1>1. u \in Threads /\ i \in Own(u)
  BY SlotFacts
<1> HIDE DEF u
<1>2. /\ buf[t] \in Seq(Stores) /\ buf[t] # <<>> /\ buf'[t] = Tail(buf[t])
      /\ HP' = [HP EXCEPT ![Head(buf[t]).slot] = Head(buf[t]).node]
      /\ DOMAIN HP = Slots /\ asleep' = asleep
      /\ (u # t => buf'[u] = buf[u])
  BY <1>1 DEF Drain, TypeOK, time
<1>3. CASE u = t
  <2>1. /\ StoresTo(Tail(buf[t]), i) # {} => StoresTo(buf[t], i) # {}
        /\ ValueOf([HP EXCEPT ![Head(buf[t]).slot] = Head(buf[t]).node], Tail(buf[t]), i)
             = ValueOf(HP, buf[t], i)
    BY <1>2, AfterTail
  <2>2. /\ StoresTo(buf'[u], i) # {} => StoresTo(buf[u], i) # {}
        /\ ValueOf(HP', buf'[u], i) = ValueOf(HP, buf[u], i)
    BY <1>2, <1>3, <2>1
  <2>3. QED
    BY <1>2, <2>2, ReadIs, ReadIsNext DEF ViewKept, u
<1>4. CASE u # t
  <2>1. Head(buf[t]) = buf[t][1] /\ 1 \in DOMAIN buf[t]
    BY <1>2, HeadTailProperties, LenProperties, EmptySeq
  <2>2. Head(buf[t]).slot \in Own(t)
    BY <2>1 DEF ControlInv, ControlOf
  <2>3. i # Head(buf[t]).slot
    BY <1>1, <1>4, <2>2, OwnDisjoint
  <2>4. HP'[i] = HP[i]
    BY <1>2, <2>3
  <2>5. ValueOf(HP', buf'[u], i) = ValueOf(HP, buf[u], i)
    BY <1>2, <1>4, <2>4 DEF ValueOf
  <2>6. QED
    BY <1>2, <1>4, <2>5, ReadIs, ReadIsNext DEF ViewKept, u
<1>5. QED
  BY <1>3, <1>4

LEMMA WakeupKeepsViews ==
    ASSUME TypeOK, NEW t \in Threads, Wakeup(t), NEW i \in Slots
    PROVE  ViewKept(i)
<1> DEFINE u == Owner(i)
<1>1. u \in Threads
  BY SlotFacts
<1> HIDE DEF u
<1>2. /\ HP'[i] = IF u = t THEN Read(t, i) ELSE HP[i]
      /\ buf'[t] = <<>>
      /\ (u # t => buf'[u] = buf[u] /\ asleep'[u] = asleep[u])
  BY <1>1 DEF Wakeup, Flushed, TypeOK, u
<1>3. CASE u = t
  <2>1. StoresTo(buf'[u], i) = {} /\ ValueOf(HP', buf'[u], i) = HP'[i]
    BY <1>2, <1>3, ValueOfEmpty
  <2>2. QED
    BY <1>2, <1>3, <2>1, ReadIsNext DEF ViewKept, u
<1>4. CASE u # t
  <2>1. ValueOf(HP', buf'[u], i) = ValueOf(HP, buf[u], i)
    BY <1>2, <1>4 DEF ValueOf
  <2>2. QED
    BY <1>2, <1>4, <2>1, ReadIs, ReadIsNext DEF ViewKept, u
<1>5. QED
  BY <1>3, <1>4

LEMMA ViewsOfStep ==
    ASSUME TypeOK, ControlInv, NEW t \in Threads, Step(t), NEW i \in Slots,
           guarded'[i] # NULL
    PROVE  ViewKept(i)
<1> USE DEF Goto, client, memory, time, retire, scanner, control
<1>1. ASSUME UNCHANGED <<HP, buf, asleep>> PROVE ViewKept(i)
  BY <1>1 DEF ViewKept, Read, Pending
<1>2. ASSUME NEW j \in Own(t), NEW n \in Nodes \cup {NULL}, Publish(t, j, n)
      PROVE  ViewKept(i)
  <2>1. i # j
    BY <1>2 DEF Publish, TypeOK
  <2>2. Store(t, j, n) /\ UNCHANGED <<HP, asleep>>
    BY <1>2 DEF Publish
  <2>3. QED
    BY <2>1, <2>2, StoreKeepsViews
<1>3. CASE ClearHazardPointer(t)
  <2> DEFINE j == K * t + idx[t]
  <2>1. j \in Own(t)
    <3>1. idx[t] \in 0 .. H /\ idx[t] < K /\ H \in Nat /\ K \in Nat
      BY <1>3, SlotFacts, NAssumption DEF ClearHazardPointer, ControlInv, ControlOf, TypeOK
    <3>2. idx[t] \in 0 .. K - 1
      BY <3>1
    <3>3. QED
      BY <3>2, SlotFacts
  <2>2. guarded'[j] = NULL
    BY <1>3, <2>1 DEF ClearHazardPointer, ControlInv, ControlOf
  <2>3. Store(t, j, NULL) /\ UNCHANGED <<HP, asleep>>
    BY <1>3 DEF ClearHazardPointer, Cleared
  <2> HIDE DEF j
  <2>4. i # j
    BY <2>2
  <2>5. QED
    BY <2>1, <2>3, <2>4, StoreKeepsViews
<1>4. CASE Drain(t)
  BY <1>4, DrainKeepsViews
<1>5. CASE Wakeup(t)
  BY <1>5, WakeupKeepsViews
<1>6. QED
  BY <1>1, <1>2, <1>3, <1>4, <1>5
     DEF Step, Operate, Proceed, Insert, Unlink, EndOperation, InsertFindsNoNode,
         Validate, FreeNodeLater, ReadHazardPointer, EndScan, SweepNode, CallScan,
         ScanAtExit, FinishExit, StartExit

LEMMA GuardsAreStoredStep ==
    ASSUME TypeOK, ControlInv, GuardsAreStored, NEW t \in Threads, Step(t)
    PROVE  GuardsAreStored'
<1> SUFFICES ASSUME NEW i \in Slots, guarded'[i] # NULL
             PROVE  Read(Owner(i), i)' = guarded'[i]
  BY DEF GuardsAreStored
<1>1. Read(Owner(i), i)' = Read(Owner(i), i)
  BY ViewsOfStep DEF ViewKept
<1>2. guarded'[i] = guarded[i] \/ guarded'[i] = Read(Owner(i), i)
  BY GuardsOfStep
<1>3. QED
  BY <1>1, <1>2 DEF GuardsAreStored

-----------------------------------------------------------------------------
(* Ages.                                                                   *)

\* No step but the clock's makes a node older; a node that leaves the lists of
\* its owner has no age.
LEMMA AgesOfStep ==
    ASSUME TypeOK, ControlInv, NEW t \in Threads, Step(t), NEW n \in Nodes
    PROVE  /\ age'[n] = age[n] \/ age'[n] = 0
           /\ age[n] \in Nat /\ age'[n] <= age[n]
           /\ n \in rlist[t] \cup todo[t] /\ n \notin rlist'[t] \cup todo'[t]
                => age'[n] = 0
<1>dom. /\ DOMAIN age = Nodes /\ age[n] \in Nat
        /\ DOMAIN rlist = Threads /\ DOMAIN todo = Threads
  BY TimesAssumption DEF TypeOK
<1> USE <1>dom DEF Goto, client, memory, time, retire, scanner, control
<1>1. CASE UNCHANGED <<age, rlist, todo>>
  BY <1>1
<1>2. CASE FreeNodeLater(t)
  <2>1. age' = age /\ todo' = todo /\ rlist'[t] = rlist[t] \cup {victim[t]}
    BY <1>2 DEF FreeNodeLater
  <2>2. QED
    BY <2>1
<1>3. CASE ReadHazardPointer(t)
  <2>1. /\ age' = age
        /\ \/ UNCHANGED <<rlist, todo>>
           \/ rlist'[t] = {} /\ todo'[t] = rlist[t] /\ pc'[t] = "sweep"
    BY <1>3 DEF ReadHazardPointer, TypeOK
  <2>2. CASE UNCHANGED <<rlist, todo>>
    BY <2>1, <2>2
  <2>3. CASE rlist'[t] = {} /\ todo'[t] = rlist[t]
    <3>1. todo[t] = {}
      BY <1>3 DEF ReadHazardPointer, ControlInv, ControlOf
    <3>2. QED
      BY <2>1, <2>3, <3>1
  <2>4. QED
    BY <2>1, <2>2, <2>3
<1>4. ASSUME NEW m \in Nodes, SweepNode(t, m)
      PROVE  /\ age'[n] = age[n] \/ age'[n] = 0
             /\ n \in rlist[t] \cup todo[t] /\ n \notin rlist'[t] \cup todo'[t]
                  => age'[n] = 0
  <2>1. todo'[t] = todo[t] \ {m}
    BY <1>4 DEF SweepNode
  <2>2. \/ age' = [age EXCEPT ![m] = 0] /\ rlist' = rlist
        \/ age' = age /\ rlist'[t] = rlist[t] \cup {m}
    BY <1>4 DEF SweepNode
  <2>3. QED
    BY <2>1, <2>2
<1>5. QED
  BY <1>1, <1>2, <1>3, <1>4
     DEF Step, Operate, Proceed, Publish, Insert, Unlink, EndOperation,
         InsertFindsNoNode, CallScan, Validate, EndScan, ClearHazardPointer,
         ScanAtExit, FinishExit, StartExit, Drain, Wakeup

LEMMA OthersHaveNoAgeStep ==
    ASSUME TypeOK, ControlInv, OthersHaveNoAge, NEW t \in Threads, Step(t)
    PROVE  OthersHaveNoAge'
<1> SUFFICES ASSUME NEW n \in Nodes,
                    \A u \in Threads : n \notin rlist'[u] /\ n \notin todo'[u]
             PROVE  age'[n] = 0
  BY DEF OthersHaveNoAge
<1>1. \A u \in Threads \ {t} : n \notin rlist[u] /\ n \notin todo[u]
  BY ThreadsFrame
<1>2. CASE n \in rlist[t] \cup todo[t]
  BY <1>2, AgesOfStep
<1>3. CASE n \notin rlist[t] \cup todo[t]
  <2>1. age[n] = 0
    BY <1>1, <1>3 DEF OthersHaveNoAge
  <2>2. QED
    BY <2>1, AgesOfStep
<1>4. QED
  BY <1>2, <1>3

LEMMA RetiredMembers ==
    ASSUME NEW n
    PROVE  n \in Retired <=>
             \E t \in Threads : \/ n \in rlist[t] \/ n \in todo[t]
                                \/ n = victim[t] /\ n # NULL
<1> DEFINE U == UNION {rlist[t] \cup todo[t] : t \in Threads}
           V == {victim[t] : t \in Threads}
<1>1. Retired = U \cup (V \ {NULL})
  BY DEF Retired
<1>2. n \in U <=> \E t \in Threads : n \in rlist[t] \/ n \in todo[t]
  OBVIOUS
<1>3. n \in V <=> \E t \in Threads : n = victim[t]
  OBVIOUS
<1> HIDE DEF U, V
<1>4. QED
  BY <1>1, <1>2, <1>3

\* The same of all nodes, to be stated about the next state as well.
RetiredFacts ==
    \A n \in Nodes \cup {NULL} :
       n \in Retired <=> \E t \in Threads : \/ n \in rlist[t] \/ n \in todo[t]
                                            \/ n = victim[t] /\ n # NULL

LEMMA RetiredIs == RetiredFacts
BY RetiredMembers DEF RetiredFacts

LEMMA RetiredIsNext == RetiredFacts'
BY RetiredIs, PTL

\* A guarded node that is retired after a step was guarded before it.
LEMMA RetiredGuardsOfStep ==
    ASSUME TypeOK, ControlInv, Located, TypeOK', Located',
           NEW t \in Threads, Step(t), NEW i \in Slots, guarded'[i] \in Retired'
    PROVE  /\ guarded'[i] = guarded[i] /\ guarded[i] \in Nodes
           /\ guarded'[i] # NULL
<1>1. guarded'[i] \in Nodes \cup {NULL}
  BY DEF TypeOK
<1>2. guarded'[i] # NULL
  <2>1. \A u \in Threads : NULL \notin rlist'[u] /\ NULL \notin todo'[u]
    BY NodesAssumption DEF TypeOK
  <2>2. NULL \notin Retired'
    BY <2>1, RetiredIsNext DEF RetiredFacts
  <2>3. QED
    BY <2>2
<1>3. \A n \in Nodes : n \in linked' => n \notin Retired'
  <2>1. \A n \in Nodes : n \in linked' =>
           \A u \in Threads : n # victim'[u] /\ n \notin rlist'[u] /\ n \notin todo'[u]
    BY DEF Located, NotTwice
  <2>2. QED
    BY <2>1, RetiredIsNext DEF RetiredFacts
<1>4. ~(guarded'[i] \in linked /\ UNCHANGED linked)
  BY <1>1, <1>2, <1>3
<1>5. guarded'[i] = guarded[i]
  BY <1>2, <1>4, GuardsOfStep
<1>6. QED
  BY <1>1, <1>2, <1>5

LEMMA PendingGuardsAreYoungStep ==
    ASSUME Inv, TypeOK', Located', NEW t \in Threads, Step(t)
    PROVE  PendingGuardsAreYoung'
<1> USE DEF Inv
<1> SUFFICES ASSUME NEW i \in Slots, guarded'[i] \in Retired',
                    Pending(Owner(i), i)' # {}
             PROVE  age'[guarded'[i]] <= asleep'[Owner(i)]
  BY DEF PendingGuardsAreYoung
<1>1. guarded'[i] = guarded[i] /\ guarded[i] \in Nodes /\ guarded'[i] # NULL
  BY RetiredGuardsOfStep
<1> DEFINE g == guarded[i]
<1>2. Pending(Owner(i), i) # {} /\ asleep'[Owner(i)] = asleep[Owner(i)]
  BY <1>1, ViewsOfStep DEF ViewKept
<1>3. asleep[Owner(i)] \in Nat
  BY SlotFacts, TimesAssumption DEF TypeOK
<1>4. age[g] <= asleep[Owner(i)]
  <2>1. CASE g \in Retired
    BY <1>2, <2>1 DEF PendingGuardsAreYoung
  <2>2. CASE g \notin Retired
    <3>1. \A u \in Threads : g \notin rlist[u] /\ g \notin todo[u]
      BY <2>2, RetiredMembers
    <3>2. age[g] = 0
      BY <1>1, <3>1 DEF OthersHaveNoAge
    <3>3. QED
      BY <1>3, <3>2
  <2>3. QED
    BY <2>1, <2>2
<1>5. age[g] \in Nat /\ age'[g] <= age[g] /\ (age'[g] = age[g] \/ age'[g] = 0)
  BY <1>1, AgesOfStep
<1> HIDE DEF g
<1>6. age'[g] <= asleep[Owner(i)]
  BY <1>3, <1>4, <1>5
<1>7. QED
  BY <1>1, <1>2, <1>6 DEF g

\* A guard that memory does not show is on its way.
LEMMA VisibleWhenOld == Inv => OldGuardsAreVisible
<1> SUFFICES ASSUME Inv, NEW i \in Slots, guarded[i] \in Retired, HP[i] # guarded[i]
             PROVE  age[guarded[i]] <= asleep[Owner(i)]
  BY DEF OldGuardsAreVisible
<1> USE DEF Inv
<1>1. guarded[i] # NULL
  <2>1. \A u \in Threads : NULL \notin rlist[u] /\ NULL \notin todo[u]
    BY NodesAssumption DEF TypeOK
  <2>2. QED
    BY <2>1, RetiredMembers
<1>2. Read(Owner(i), i) = guarded[i]
  BY <1>1 DEF GuardsAreStored
<1>3. Pending(Owner(i), i) # {}
  BY <1>2 DEF Read
<1>4. QED
  BY <1>3 DEF PendingGuardsAreYoung

-----------------------------------------------------------------------------
(* Scans.                                                                  *)

\* What a thread that is in a scan after its own step has done.
LEMMA ScanOfStep ==
    ASSUME TypeOK, ControlInv, NEW t \in Threads, Step(t), pc'[t] \in Scanning
    PROVE  \/ idx'[t] = 0
           \/ /\ pc[t] = "scan" /\ idx'[t] = idx[t] + 1
              /\ plist'[t] = plist[t] \cup ({Read(t, idx[t])} \ {NULL})
              /\ rlist'[t] \cup todo'[t] = rlist[t] \cup todo[t]
              /\ scanAge'[t] = scanAge[t] /\ guarded' = guarded
           \/ /\ pc[t] \in Scanning
              /\ idx'[t] = idx[t] /\ plist'[t] = plist[t] /\ scanAge'[t] = scanAge[t]
              /\ rlist'[t] \cup todo'[t] \subseteq rlist[t] \cup todo[t]
<1>dom. /\ DOMAIN pc = Threads /\ DOMAIN idx = Threads /\ DOMAIN plist = Threads
        /\ DOMAIN rlist = Threads /\ DOMAIN todo = Threads
        /\ caller[t] \in Callers
  BY DEF TypeOK
<1> USE <1>dom DEF Goto, client, memory, time, retire, scanner, control
<1>1. ASSUME NEW i \in Own(t), NEW n \in Nodes \cup {NULL}, Publish(t, i, n)
      PROVE  FALSE
  BY <1>1 DEF Publish, Scanning
<1>2. ASSUME NEW n \in Nodes, Insert(t, n) \/ Unlink(t, n) PROVE FALSE
  BY <1>2 DEF Insert, Unlink, Scanning
<1>3. ASSUME \/ EndOperation(t) \/ Validate(t) \/ StartExit(t)
             \/ FinishExit(t) \/ ClearHazardPointer(t)
      PROVE  FALSE
  BY <1>3 DEF EndOperation, Validate, StartExit, FinishExit, ClearHazardPointer, Scanning
<1>4. ASSUME EndScan(t) PROVE FALSE
  BY <1>4 DEF EndScan, AfterScan, Callers, Scanning
<1>5. ASSUME InsertFindsNoNode(t) \/ ScanAtExit(t) PROVE idx'[t] = 0
  BY <1>5 DEF InsertFindsNoNode, ScanAtExit, CallScan
<1>6. ASSUME FreeNodeLater(t) PROVE idx'[t] = 0
  BY <1>6 DEF FreeNodeLater, CallScan, Scanning
<1>7. ASSUME ReadHazardPointer(t)
      PROVE  /\ pc[t] = "scan" /\ idx'[t] = idx[t] + 1
             /\ plist'[t] = plist[t] \cup ({Read(t, idx[t])} \ {NULL})
             /\ rlist'[t] \cup todo'[t] = rlist[t] \cup todo[t]
             /\ scanAge'[t] = scanAge[t] /\ guarded' = guarded
  <2>1. todo[t] = {}
    BY <1>7 DEF ReadHazardPointer, ControlInv, ControlOf
  <2>2. \/ UNCHANGED <<rlist, todo>>
        \/ rlist'[t] = {} /\ todo'[t] = rlist[t]
    BY <1>7 DEF ReadHazardPointer
  <2>3. rlist'[t] \cup todo'[t] = rlist[t] \cup todo[t]
    BY <2>1, <2>2
  <2>4. QED
    BY <1>7, <2>3 DEF ReadHazardPointer
<1>8. ASSUME NEW n \in Nodes, SweepNode(t, n)
      PROVE  /\ pc[t] \in Scanning
             /\ idx'[t] = idx[t] /\ plist'[t] = plist[t] /\ scanAge'[t] = scanAge[t]
             /\ rlist'[t] \cup todo'[t] \subseteq rlist[t] \cup todo[t]
  <2>1. n \in todo[t] /\ todo'[t] = todo[t] \ {n}
    BY <1>8 DEF SweepNode
  <2>2. rlist' = rlist \/ rlist'[t] = rlist[t] \cup {n}
    BY <1>8 DEF SweepNode
  <2>3. rlist'[t] \cup todo'[t] \subseteq rlist[t] \cup todo[t]
    BY <2>1, <2>2
  <2>4. QED
    BY <1>8, <2>3 DEF SweepNode, Scanning
<1>9. ASSUME Drain(t) \/ Wakeup(t)
      PROVE  /\ pc[t] \in Scanning
             /\ idx'[t] = idx[t] /\ plist'[t] = plist[t] /\ scanAge'[t] = scanAge[t]
             /\ rlist'[t] \cup todo'[t] \subseteq rlist[t] \cup todo[t]
  BY <1>9 DEF Drain, Wakeup
<1>10. QED
  BY <1>1, <1>2, <1>3, <1>4, <1>5, <1>6, <1>7, <1>8, <1>9 DEF Step, Operate, Proceed

\* A scan that reads the slot of another thread and finds something else there
\* than it guards is early: the store of the hazard pointer is on its way.
LEMMA ScanReads ==
    ASSUME Inv, NEW t \in Threads, NEW i \in Slots,
           guarded[i] # NULL, Read(t, i) # guarded[i]
    PROVE  Pending(Owner(i), i) # {}
<1> USE DEF Inv
<1>1. Read(Owner(i), i) = guarded[i] /\ i \in Own(Owner(i)) /\ Owner(i) \in Threads
  BY SlotFacts DEF GuardsAreStored
<1>2. Owner(i) # t
  BY <1>1
<1>3. i \notin Own(t)
  BY <1>1, <1>2, OwnDisjoint
<1>4. Pending(t, i) = {}
  BY <1>3 DEF Pending, ControlInv, ControlOf
<1>5. HP[i] # guarded[i]
  BY <1>4 DEF Read
<1>6. QED
  BY <1>1, <1>5 DEF Read

LEMMA MissedGuardsAreYoungStep ==
    ASSUME Inv, TypeOK', Located', NEW t \in Threads, Step(t)
    PROVE  MissedGuardsAreYoung'
<1> USE DEF Inv
<1> SUFFICES ASSUME NEW u \in Threads, NEW i \in Slots,
                    pc'[u] \in Scanning, i < idx'[u],
                    guarded'[i] \in rlist'[u] \cup todo'[u], guarded'[i] \notin plist'[u]
             PROVE  age'[guarded'[i]] <= MaxSleep + scanAge'[u]
  BY DEF MissedGuardsAreYoung
<1> DEFINE g == guarded[i]
<1>1. guarded'[i] = g /\ g \in Nodes /\ g # NULL
  <2>1. guarded'[i] \in Nodes
    BY DEF TypeOK
  <2>2. guarded'[i] \in Retired'
    BY <2>1, RetiredIsNext DEF RetiredFacts
  <2>3. QED
    BY <2>2, RetiredGuardsOfStep
<1>2. age[g] \in Nat /\ age'[g] <= age[g] /\ (age'[g] = age[g] \/ age'[g] = 0)
  BY <1>1, AgesOfStep
<1>3. /\ i \in Nat /\ idx[u] \in Nat /\ MaxSleep \in Nat /\ scanAge[u] \in Nat
  BY SlotFacts, TimesAssumption DEF Slots, TypeOK
<1> SUFFICES age[g] <= MaxSleep + scanAge[u] /\ scanAge'[u] = scanAge[u]
  <2> HIDE DEF g
  <2>1. age'[g] <= MaxSleep + scanAge[u]
    BY <1>2, <1>3
  <2>2. QED
    BY <1>1, <2>1
<1>4. CASE u # t
  <2>1. /\ pc'[u] = pc[u] /\ idx'[u] = idx[u] /\ plist'[u] = plist[u]
        /\ rlist'[u] = rlist[u] /\ todo'[u] = todo[u] /\ scanAge'[u] = scanAge[u]
    BY <1>4, ThreadsFrame
  <2>2. QED
    BY <1>1, <2>1 DEF MissedGuardsAreYoung
<1>5. CASE u = t
  <2>1. idx'[t] # 0
    BY <1>3, <1>5
  <2>2. CASE /\ pc[t] = "scan" /\ idx'[t] = idx[t] + 1
             /\ plist'[t] = plist[t] \cup ({Read(t, idx[t])} \ {NULL})
             /\ rlist'[t] \cup todo'[t] = rlist[t] \cup todo[t]
             /\ scanAge'[t] = scanAge[t] /\ guarded' = guarded
    <3>1. g \in rlist[t] \cup todo[t] /\ g \notin plist[t]
      BY <1>1, <1>5, <2>2
    <3>2. CASE i < idx[t]
      BY <1>5, <2>2, <3>1, <3>2 DEF MissedGuardsAreYoung, Scanning
    <3>3. CASE i = idx[t]
      <4>1. Read(t, i) # g
        BY <1>1, <1>5, <2>2, <3>3
      <4>2. Pending(Owner(i), i) # {}
        BY <1>1, <4>1, ScanReads
      <4>3. g \in Retired
        BY <3>1, RetiredMembers
      <4>4. age[g] <= asleep[Owner(i)]
        BY <4>2, <4>3 DEF PendingGuardsAreYoung
      <4>5. asleep[Owner(i)] \in 0 .. MaxSleep
        BY SlotFacts DEF TypeOK
      <4> HIDE DEF g
      <4>6. QED
        BY <1>2, <1>3, <1>5, <2>2, <4>4, <4>5
    <3>4. i < idx[t] \/ i = idx[t]
      BY <1>3, <1>5, <2>2
    <3>5. QED
      BY <3>2, <3>3, <3>4
  <2>3. CASE /\ pc[t] \in Scanning
             /\ idx'[t] = idx[t] /\ plist'[t] = plist[t] /\ scanAge'[t] = scanAge[t]
             /\ rlist'[t] \cup todo'[t] \subseteq rlist[t] \cup todo[t]
    BY <1>1, <1>5, <2>3 DEF MissedGuardsAreYoung
  <2>4. QED
    BY <1>5, <2>1, <2>2, <2>3, ScanOfStep
<1>6. QED
  BY <1>4, <1>5

-----------------------------------------------------------------------------
(* The clock.                                                              *)

\* A tick ages the nodes on the lists, the sleeps and the scans alike.
LEMMA AgesOfTick ==
    ASSUME TypeOK, Tick, NEW n \in Nodes
    PROVE  /\ age[n] \in Nat /\ age'[n] \in Nat /\ age'[n] <= age[n] + 1
           /\ (\A u \in Threads : n \notin rlist[u] /\ n \notin todo[u])
                => age'[n] = age[n]
BY TimesAssumption DEF Tick, TypeOK

LEMMA TickStep ==
    ASSUME Inv, Tick
    PROVE  Inv'
<1> USE DEF Inv
<1>same. /\ UNCHANGED <<linked, pool, guarded, victim, slot, HP, buf>>
         /\ UNCHANGED <<rlist, todo, rcount, calls, plist, idx, retries, pc, caller>>
  BY DEF Tick, client, memory, retire, scanner, control
<1>1. TypeOK'
  BY TickType
<1>2. ControlInv'
  BY <1>same DEF ControlInv, ControlOf
<1>3. Located'
  BY <1>same DEF Located, Somewhere, NotTwice
<1>4. RcountInv'
  BY <1>same DEF RcountInv
<1>5. GuardsAreStored'
  BY <1>same DEF GuardsAreStored, Read, Pending
<1>6. OthersHaveNoAge'
  BY <1>same, AgesOfTick DEF OthersHaveNoAge
<1>guards. \A i \in Slots : guarded[i] \in Nodes \cup {NULL}
  BY DEF TypeOK
<1>7. PendingGuardsAreYoung'
  <2> SUFFICES ASSUME NEW i \in Slots, guarded'[i] \in Retired',
                      Pending(Owner(i), i)' # {}
               PROVE  age'[guarded'[i]] <= asleep'[Owner(i)]
    BY DEF PendingGuardsAreYoung
  <2> DEFINE g == guarded[i]
             s == asleep[Owner(i)]
  <2>1. guarded' = guarded /\ g \in Retired /\ Pending(Owner(i), i) # {}
    BY <1>same DEF Retired, Pending
  <2>2. age[g] <= s
    BY <2>1 DEF PendingGuardsAreYoung
  <2>3. g \in Nodes
    BY <2>1, <1>guards, RetiredMembers, NodesAssumption DEF TypeOK
  <2>4. s \in Nat /\ asleep'[Owner(i)] = s + 1
    BY SlotFacts, TimesAssumption DEF TypeOK, Tick
  <2> HIDE DEF g, s
  <2>5. age'[g] <= s + 1
    BY <2>2, <2>3, <2>4, AgesOfTick
  <2>6. QED
    BY <2>1, <2>4, <2>5 DEF g
<1>8. MissedGuardsAreYoung'
  <2> SUFFICES ASSUME NEW u \in Threads, NEW i \in Slots,
                      pc[u] \in Scanning, i < idx[u],
                      guarded[i] \in rlist[u] \cup todo[u], guarded[i] \notin plist[u]
               PROVE  age'[guarded[i]] <= MaxSleep + scanAge'[u]
    BY <1>same DEF MissedGuardsAreYoung
  <2> DEFINE g == guarded[i]
             s == scanAge[u]
  <2>1. age[g] <= MaxSleep + s
    BY DEF MissedGuardsAreYoung
  <2>2. g \in Nodes
    BY DEF TypeOK
  <2>3. s \in Nat /\ scanAge'[u] = s + 1
    BY TimesAssumption DEF TypeOK, Tick
  <2> HIDE DEF g, s
  <2>4. age'[g] <= MaxSleep + (s + 1)
    BY <2>1, <2>2, <2>3, AgesOfTick, TimesAssumption
  <2>5. QED
    BY <2>3, <2>4 DEF g
<1>9. QED
  BY <1>1, <1>2, <1>3, <1>4, <1>5, <1>6, <1>7, <1>8

-----------------------------------------------------------------------------
(* Inv is inductive.                                                       *)

LEMMA InitInv == Init => Inv
<1> SUFFICES ASSUME Init PROVE Inv
  OBVIOUS
<1>1. TypeOK
  BY InitType
<1>2. ControlInv
  <2> SUFFICES ASSUME NEW t \in Threads PROVE ControlOf(t)
    BY DEF ControlInv
  <2>1. slot[t] \in Own(t)
    <3>1. K * t \in Nat /\ K \in Nat \ {0}
      BY NAssumption DEF Threads
    <3>2. QED
      BY <3>1 DEF Init, Own
  <2>2. QED
    BY <2>1 DEF Init, ControlOf
<1>3. Located
  <2>1. PICK owner \in [Nodes -> Threads] :
           pool = [t \in Threads |-> {n \in Nodes \ linked : owner[n] = t}]
    BY DEF Init
  <2>2. ASSUME NEW n \in Nodes
        PROVE  /\ n \in linked \/ \E t \in Threads : n \in pool[t]
               /\ \A t \in Threads : n \in pool[t] => n \notin linked
               /\ \A t, u \in Threads : n \in pool[t] /\ n \in pool[u] => t = u
    BY <2>1
  <2>3. \A t \in Threads : rlist[t] = {} /\ todo[t] = {} /\ victim[t] = NULL
    BY DEF Init
  <2>4. \A n \in Nodes : n # NULL
    BY NodesAssumption
  <2>5. QED
    BY <2>2, <2>3, <2>4 DEF Located, Somewhere, NotTwice
<1>4. RcountInv
  BY FS_EmptySet DEF Init, RcountInv
<1>5. GuardsAreStored /\ OthersHaveNoAge
  BY DEF Init, GuardsAreStored, OthersHaveNoAge
<1>6. PendingGuardsAreYoung
  <2>1. \A t \in Threads : buf[t] = <<>>
    BY DEF Init
  <2>2. \A i \in Slots : Pending(Owner(i), i) = {}
    BY <2>1, SlotFacts DEF Pending
  <2>3. QED
    BY <2>2 DEF PendingGuardsAreYoung
<1>7. MissedGuardsAreYoung
  BY DEF Init, MissedGuardsAreYoung, Scanning
<1>8. QED
  BY <1>1, <1>2, <1>3, <1>4, <1>5, <1>6, <1>7 DEF Inv

LEMMA StepInv ==
    ASSUME Inv, NEW t \in Threads, Step(t)
    PROVE  Inv'
<1> USE DEF Inv
<1>1. TypeOK' /\ ControlInv' /\ Located'
  BY TypeStep, ControlStep, PlaceStep
<1>2. RcountInv' /\ GuardsAreStored' /\ OthersHaveNoAge'
  BY RcountStep, GuardsAreStoredStep, OthersHaveNoAgeStep
<1>3. PendingGuardsAreYoung' /\ MissedGuardsAreYoung'
  BY <1>1, PendingGuardsAreYoungStep, MissedGuardsAreYoungStep
<1>4. QED
  BY <1>1, <1>2, <1>3

LEMMA StutterInv ==
    ASSUME Inv, UNCHANGED vars
    PROVE  Inv'
<1> USE DEF Inv
<1>same. /\ UNCHANGED <<linked, pool, guarded, victim, slot, HP, buf, asleep, age, scanAge>>
         /\ UNCHANGED <<rlist, todo, rcount, calls, plist, idx, retries, pc, caller>>
  BY DEF vars, client, memory, time, retire, scanner, control
<1>1. TypeOK'
  BY <1>same DEF TypeOK
<1>2. ControlInv' /\ RcountInv'
  BY <1>same DEF ControlInv, ControlOf, RcountInv
<1>3. Located' /\ OthersHaveNoAge'
  BY <1>same DEF Located, Somewhere, NotTwice, OthersHaveNoAge
<1>4. GuardsAreStored'
  <2>1. HP' = HP /\ buf' = buf
    BY <1>same
  <2>2. \A i \in Slots : Read(Owner(i), i)' = Read(Owner(i), i)
    BY <2>1 DEF Read, Pending
  <2>3. guarded' = guarded
    BY <1>same
  <2>4. QED
    BY <2>2, <2>3 DEF GuardsAreStored
<1>5. PendingGuardsAreYoung'
  <2>1. Retired' = Retired /\ \A i \in Slots : Pending(Owner(i), i)' = Pending(Owner(i), i)
    BY <1>same DEF Retired, Pending
  <2>2. QED
    BY <1>same, <2>1 DEF PendingGuardsAreYoung
<1>6. MissedGuardsAreYoung'
  BY <1>same DEF MissedGuardsAreYoung
<1>7. QED
  BY <1>1, <1>2, <1>3, <1>4, <1>5, <1>6

LEMMA Invariance == Spec => []Inv
<1>1. Init => Inv
  BY InitInv
<1>2. Inv /\ [Next]_vars => Inv'
  BY TickStep, StepInv, StutterInv DEF Next
<1>3. QED
  BY <1>1, <1>2, PTL DEF Spec

-----------------------------------------------------------------------------
(* Nothing in use is freed, when the times suffice.                        *)

\* A node that a scan frees is guarded nowhere.  The scan has read all the slots;
\* a guard it has missed makes the node too young.
LEMMA FreedIsUnguarded ==
    ASSUME TimesSuffice, Inv, NEW t \in Threads, NEW n \in Nodes,
           SweepNode(t, n), Freed(t, n), NEW i \in Slots
    PROVE  guarded[i] # n
<1> USE DEF Inv
<1> SUFFICES ASSUME guarded[i] = n PROVE FALSE
  OBVIOUS
<1>1. pc[t] = "sweep" /\ n \in todo[t] /\ n \notin plist[t] /\ age[n] >= MaxAge
  BY DEF SweepNode, Freed, OldEnough
<1>2. i < idx[t]
  BY <1>1, SlotFacts DEF ControlInv, ControlOf, Slots
<1>3. age[n] <= MaxSleep + scanAge[t]
  BY <1>1, <1>2 DEF MissedGuardsAreYoung, Scanning
<1>4. scanAge[t] \in 0 .. ScanTime /\ age[n] \in Nat
  BY TimesAssumption DEF TypeOK
<1>5. QED
  BY <1>1, <1>3, <1>4, TimesAssumption DEF TimesSuffice

\* A node is freed by a scan.
LEMMA FreeOfStep ==
    ASSUME TypeOK, NEW t \in Threads, Step(t), NEW n \in Free'
    PROVE  n \in Free \/ (SweepNode(t, n) /\ Freed(t, n))
<1>1. PICK u \in Threads : n \in pool'[u]
  BY DEF Free
<1>dom. DOMAIN pool = Threads
  BY DEF TypeOK
<1> USE <1>1, <1>dom DEF Free, Goto, client, memory, time, retire, scanner, control
<1>2. CASE pool' = pool
  BY <1>2
<1>3. ASSUME NEW m \in Nodes, Insert(t, m) PROVE n \in Free
  BY <1>3 DEF Insert
<1>4. ASSUME NEW m \in Nodes, SweepNode(t, m)
      PROVE  n \in Free \/ (SweepNode(t, n) /\ Freed(t, n))
  <2>1. CASE Freed(t, m)
    <3>1. pool' = [pool EXCEPT ![t] = @ \cup {m}]
      BY <1>4, <2>1 DEF SweepNode
    <3>2. n \in pool[u] \/ n = m
      BY <3>1
    <3>3. QED
      BY <1>4, <2>1, <3>2
  <2>2. CASE ~Freed(t, m)
    BY <1>2, <1>4, <2>2 DEF SweepNode
  <2>3. QED
    BY <2>1, <2>2
<1>5. QED
  BY <1>2, <1>3, <1>4
     DEF Step, Operate, Proceed, Publish, Unlink, EndOperation, InsertFindsNoNode,
         Validate, FreeNodeLater, ReadHazardPointer, EndScan, ClearHazardPointer,
         ScanAtExit, FinishExit, StartExit, Drain, Wakeup

LEMMA AliveStep ==
    ASSUME TimesSuffice, Inv, Inv', GuardsAreAlive, NEW t \in Threads, Step(t)
    PROVE  GuardsAreAlive'
<1> SUFFICES ASSUME NEW i \in Slots, guarded'[i] \in Free' PROVE FALSE
  BY DEF GuardsAreAlive
<1> DEFINE g == guarded'[i]
<1>1. g \in Nodes /\ g # NULL
  <2>1. \A u \in Threads : pool'[u] \subseteq Nodes
    BY DEF Inv, TypeOK
  <2>2. QED
    BY <2>1, NodesAssumption DEF Free
<1>2. CASE g = guarded[i]
  <2>1. g \notin Free
    BY <1>2 DEF GuardsAreAlive
  <2>2. SweepNode(t, g) /\ Freed(t, g)
    BY <2>1, FreeOfStep DEF Inv
  <2>3. QED
    BY <1>1, <1>2, <2>2, FreedIsUnguarded
<1>3. CASE g \in linked /\ linked' = linked
  <2>1. \A u \in Threads : g \notin pool'[u]
    BY <1>1, <1>3 DEF Inv, Located, NotTwice
  <2>2. QED
    BY <2>1 DEF Free
<1>4. QED
  BY <1>1, <1>2, <1>3, GuardsOfStep DEF Inv

\* The nodes in use while a thread works: what Safety and Refinement rest on.
Safe == Inv /\ GuardsAreAlive

LEMMA SafeInvariance ==
    ASSUME TimesSuffice
    PROVE  Spec => []Safe
<1>1. Init => Safe
  BY InitInv, NodesAssumption DEF Safe, GuardsAreAlive, Init, Free
<1>2. Safe /\ [Next]_vars /\ Inv' => Safe'
  <2> SUFFICES ASSUME Inv, GuardsAreAlive, [Next]_vars, Inv' PROVE GuardsAreAlive'
    BY DEF Safe
  <2>1. ASSUME UNCHANGED <<guarded, pool>> PROVE GuardsAreAlive'
    BY <2>1 DEF GuardsAreAlive, Free
  <2>2. CASE Tick \/ UNCHANGED vars
    BY <2>1, <2>2 DEF Tick, vars, client
  <2>3. ASSUME NEW t \in Threads, Step(t) PROVE GuardsAreAlive'
    BY <2>3, AliveStep
  <2>4. QED
    BY <2>2, <2>3 DEF Next
<1>3. QED
  BY <1>1, <1>2, Invariance, PTL DEF Spec

-----------------------------------------------------------------------------
(* Every step is a step of the contract.                                   *)

LEMMA HeldMembers ==
    ASSUME NEW t \in Threads, NEW n
    PROVE  /\ n \in Held(t) <=> n # NULL /\ \E i \in Own(t) : guarded[i] = n
           /\ n \in Held(t)' <=> n # NULL /\ \E i \in Own(t) : guarded'[i] = n
BY DEF Held

LEMMA RefsAfter ==
    ASSUME Inv, TypeOK', NEW t \in Threads, Step(t)
    PROVE  Contract!RefsStep
<1>1. Refs' \in [Threads -> SUBSET Nodes]
  <2>1. \A i \in Slots : guarded'[i] \in Nodes \cup {NULL}
    BY DEF TypeOK
  <2>2. \A u \in Threads : Held(u)' \subseteq Nodes
    BY <2>1, SlotFacts, HeldMembers
  <2>3. QED
    BY <2>2 DEF Refs
<1>2. \A i \in Slots : guarded'[i] \in {guarded[i], NULL} \cup linked'
  BY GuardsOfStep DEF Inv
<1>3. ASSUME NEW u \in Threads PROVE Held(u)' \subseteq Held(u) \cup linked'
  BY <1>2, SlotFacts, HeldMembers
<1>4. QED
  BY <1>1, <1>3 DEF Contract!RefsStep, Refs

\* What a step does that moves no node to another place of the contract.
LEMMA OthersAreAccess ==
    ASSUME Inv, TypeOK', NEW t \in Threads, Step(t),
           linked' = linked, pool' = pool,
           \A n \in Nodes : n \in Retired' <=> n \in Retired
    PROVE  Contract!Access
<1>1. Retired \subseteq Nodes /\ Retired' \subseteq Nodes
  BY DEF Inv, TypeOK, Retired
<1>2. Retired' = Retired
  BY <1>1
<1>3. Free' = Free
  BY DEF Free
<1>4. QED
  BY <1>2, <1>3, RefsAfter DEF Contract!Access

LEMMA InsertIsInsert ==
    ASSUME Inv, TypeOK', NEW t \in Threads, NEW n \in Nodes, Insert(t, n)
    PROVE  Contract!Insert(n)
<1>1. /\ n \in pool[t] /\ linked' = linked \cup {n}
      /\ UNCHANGED <<victim, rlist, todo>>
  BY DEF Insert, retire
<1>2. pool'[t] = pool[t] \ {n} /\ \A u \in Threads \ {t} : pool'[u] = pool[u]
  BY DEF Insert, Inv, TypeOK
<1>3. \A u \in Threads : n \in pool[u] => u = t
  BY <1>1 DEF Inv, Located, NotTwice
<1>4. Free' = Free \ {n}
  BY <1>1, <1>2, <1>3 DEF Free
<1>5. Retired' = Retired
  BY <1>1 DEF Retired
<1>6. Contract!RefsStep
  BY RefsAfter DEF Step, Operate
<1>7. QED
  BY <1>1, <1>4, <1>5, <1>6 DEF Contract!Insert, Free

LEMMA UnlinkIsRetire ==
    ASSUME Inv, TypeOK', NEW t \in Threads, NEW n \in Nodes, Unlink(t, n)
    PROVE  Contract!Retire(n)
<1>1. /\ n \in linked /\ linked' = linked \ {n}
      /\ UNCHANGED <<pool, rlist, todo>>
  BY DEF Unlink, retire
<1>2. victim[t] = NULL
  BY DEF Unlink, Goto, Inv, ControlInv, ControlOf
<1>3. victim'[t] = n /\ \A u \in Threads \ {t} : victim'[u] = victim[u]
  BY DEF Unlink, Inv, TypeOK
<1>4. Free' = Free
  BY <1>1 DEF Free
<1>5. Retired' = Retired \cup {n}
  BY <1>1, <1>2, <1>3, NodesAssumption DEF Retired
<1>6. Contract!RefsStep
  BY RefsAfter DEF Step, Operate
<1>7. QED
  BY <1>1, <1>4, <1>5, <1>6 DEF Contract!Retire

\* free_node_later puts the node on the list: it is retired before and after.
LEMMA RetireIsAccess ==
    ASSUME Inv, TypeOK', NEW t \in Threads, FreeNodeLater(t)
    PROVE  Contract!Access
<1>1. linked' = linked /\ pool' = pool /\ todo' = todo
  BY DEF FreeNodeLater
<1>2. victim[t] # NULL
  BY DEF FreeNodeLater, Inv, ControlInv, ControlOf
<1>3. victim'[t] = NULL /\ \A u \in Threads \ {t} : victim'[u] = victim[u]
  BY DEF FreeNodeLater, Inv, TypeOK
<1>4. /\ rlist'[t] = rlist[t] \cup {victim[t]}
      /\ \A u \in Threads \ {t} : rlist'[u] = rlist[u]
  BY DEF FreeNodeLater, Inv, TypeOK
<1>5. \A n \in Nodes : n \in Retired' <=> n \in Retired
  BY <1>1, <1>2, <1>3, <1>4, RetiredIs, RetiredIsNext DEF RetiredFacts
<1>6. QED
  BY <1>1, <1>5, OthersAreAccess DEF Step, Proceed

\* The nodes a scan looks at stay retired until it frees them.
LEMMA ReadIsAccess ==
    ASSUME Inv, TypeOK', NEW t \in Threads, ReadHazardPointer(t)
    PROVE  Contract!Access
<1>1. linked' = linked /\ pool' = pool /\ victim' = victim
  BY DEF ReadHazardPointer, client
<1>2. todo[t] = {}
  BY DEF ReadHazardPointer, Inv, ControlInv, ControlOf
<1>3. \/ UNCHANGED <<rlist, todo>>
      \/ /\ rlist'[t] = {} /\ todo'[t] = rlist[t]
         /\ \A u \in Threads \ {t} : rlist'[u] = rlist[u] /\ todo'[u] = todo[u]
  BY DEF ReadHazardPointer, Inv, TypeOK
<1>4. \A n \in Nodes : n \in Retired' <=> n \in Retired
  BY <1>1, <1>2, <1>3, RetiredIs, RetiredIsNext DEF RetiredFacts
<1>5. QED
  BY <1>1, <1>4, OthersAreAccess DEF Step, Proceed

LEMMA SweepIsFree ==
    ASSUME TimesSuffice, Inv, NEW t \in Threads, NEW n \in Nodes,
           SweepNode(t, n), Freed(t, n)
    PROVE  Contract!Free({n})
<1>1. /\ n \in todo[t] /\ UNCHANGED <<linked, victim, guarded, rlist>>
      /\ pool' = [pool EXCEPT ![t] = @ \cup {n}]
      /\ todo' = [todo EXCEPT ![t] = @ \ {n}]
  BY DEF SweepNode
<1>2. /\ pool'[t] = pool[t] \cup {n} /\ todo'[t] = todo[t] \ {n}
      /\ \A u \in Threads \ {t} : pool'[u] = pool[u] /\ todo'[u] = todo[u]
  BY <1>1 DEF Inv, TypeOK
<1>3. Free' = Free \cup {n}
  BY <1>2 DEF Free
<1>4. /\ \A u \in Threads : n # victim[u] /\ n \notin rlist[u]
      /\ \A u \in Threads : n \in todo[u] => u = t
  BY <1>1 DEF Inv, Located, NotTwice
<1>5. Retired' = Retired \ {n}
  BY <1>1, <1>2, <1>4 DEF Retired
<1>6. n \in Retired
  BY <1>1, RetiredMembers
<1>7. \A u \in Threads : n \notin Held(u)
  BY FreedIsUnguarded, SlotFacts, HeldMembers
<1>8. Refs' = Refs
  BY <1>1 DEF Refs, Held
<1>9. QED
  BY <1>1, <1>3, <1>5, <1>6, <1>7, <1>8 DEF Contract!Free, Refs

LEMMA KeepIsAccess ==
    ASSUME Inv, TypeOK', NEW t \in Threads, NEW n \in Nodes,
           SweepNode(t, n), ~Freed(t, n)
    PROVE  Contract!Access
<1>1. /\ n \in todo[t] /\ UNCHANGED <<linked, pool, victim>>
      /\ rlist' = [rlist EXCEPT ![t] = @ \cup {n}]
      /\ todo' = [todo EXCEPT ![t] = @ \ {n}]
  BY DEF SweepNode
<1>2. /\ rlist'[t] = rlist[t] \cup {n} /\ todo'[t] = todo[t] \ {n}
      /\ \A u \in Threads \ {t} : rlist'[u] = rlist[u] /\ todo'[u] = todo[u]
  BY <1>1 DEF Inv, TypeOK
<1>3. \A m \in Nodes : m \in Retired' <=> m \in Retired
  BY <1>1, <1>2, RetiredIs, RetiredIsNext DEF RetiredFacts
<1>4. QED
  BY <1>1, <1>3, OthersAreAccess DEF Step, Proceed

LEMMA StepRefines ==
    ASSUME TimesSuffice, Inv, TypeOK', NEW t \in Threads, Step(t)
    PROVE  Contract!Next
<1>1. ASSUME UNCHANGED <<linked, pool, victim, rlist, todo>> PROVE Contract!Access
  BY <1>1, RefsAfter DEF Contract!Access, Free, Retired
<1>2. ASSUME NEW n \in Nodes, Insert(t, n) \/ Unlink(t, n) PROVE Contract!Next
  BY <1>2, InsertIsInsert, UnlinkIsRetire DEF Contract!Next
<1>3. CASE FreeNodeLater(t) \/ ReadHazardPointer(t)
  BY <1>3, RetireIsAccess, ReadIsAccess DEF Contract!Next
<1>4. ASSUME NEW n \in Nodes, SweepNode(t, n) PROVE Contract!Next
  <2>1. CASE Freed(t, n)
    BY <1>4, <2>1, SweepIsFree DEF Contract!Next
  <2>2. CASE ~Freed(t, n)
    BY <1>4, <2>2, KeepIsAccess DEF Contract!Next
  <2>3. QED
    BY <2>1, <2>2
<1>5. QED
  BY <1>1, <1>2, <1>3, <1>4
     DEF Contract!Next, Goto, client, memory, time, retire, scanner, control,
         Step, Operate, Proceed, Publish, EndOperation, InsertFindsNoNode, Validate,
         EndScan, ClearHazardPointer, ScanAtExit, FinishExit, StartExit, Drain, Wakeup

LEMMA InitRefines == Init => Contract!Init
<1> SUFFICES ASSUME Init PROVE Contract!Init
  OBVIOUS
<1>1. linked \in SUBSET Nodes
  BY DEF Init
<1>2. Free = Nodes \ linked
  BY DEF Init, Free
<1>3. Retired = {}
  BY DEF Init, Retired
<1>4. \A t \in Threads : Held(t) = {}
  BY SlotFacts DEF Init, Held
<1>5. Refs \in [Threads -> SUBSET linked]
  BY <1>4 DEF Refs
<1>6. QED
  BY <1>1, <1>2, <1>3, <1>5 DEF Contract!Init

\* The clock and the steps that leave the program alone are stutters.
LEMMA NextRefines ==
    ASSUME TimesSuffice, Inv, Inv', [Next]_vars
    PROVE  [Contract!Next]_Contract!vars
<1>1. ASSUME UNCHANGED <<linked, pool, victim, guarded, rlist, todo>>
      PROVE  UNCHANGED Contract!vars
  BY <1>1 DEF Contract!vars, Free, Retired, Refs, Held
<1>2. CASE Tick \/ UNCHANGED vars
  BY <1>1, <1>2 DEF Tick, vars, client, retire
<1>3. ASSUME NEW t \in Threads, Step(t) PROVE Contract!Next
  BY <1>3, StepRefines DEF Inv
<1>4. QED
  BY <1>2, <1>3 DEF Next

-----------------------------------------------------------------------------
(* The theorems.                                                           *)

\* Every variable keeps its type.
THEOREM TypeCorrect == Spec => []TypeOK
<1>1. Inv => TypeOK
  BY DEF Inv
<1>2. QED
  BY <1>1, Invariance, PTL

\* What the age is for, whatever the times are: a hazard pointer that memory does
\* not show yet names a node that was retired after its reader's core was last
\* switched.
THEOREM VisibilityCorrect == Spec => []OldGuardsAreVisible
BY VisibleWhenOld, Invariance, PTL

\* A guard that a scan has missed is no older than the longest sleep and the scan
\* itself, in whatever order the scan, the stores and the clock go on.
THEOREM MissedCorrect == Spec => []MissedGuardsAreYoung
<1>1. Inv => MissedGuardsAreYoung
  BY DEF Inv
<1>2. QED
  BY <1>1, Invariance, PTL

\* Cadence is safe without a barrier after the hazard pointer, for any number of
\* threads and nodes and any R, if a node has to be older than the longest sleep
\* and the longest scan together.
THEOREM Safety ==
    ASSUME TimesSuffice
    PROVE  Spec => []GuardsAreAlive
<1>1. Safe => GuardsAreAlive
  BY DEF Safe
<1>2. QED
  BY <1>1, SafeInvariance, PTL

\* Under the same condition Cadence keeps the contract of a reclamation scheme:
\* every step of the traversals, of free_node_later, scan and mr_thread_exit, of
\* the store buffers, the sleepers and the clock is a step of Reclamation or
\* leaves its state alone.
THEOREM Refinement ==
    ASSUME TimesSuffice
    PROVE  Spec => RefinesReclamation
<1>1. Init => Contract!Init
  BY InitRefines
<1>2. Inv /\ Inv' /\ [Next]_vars => [Contract!Next]_Contract!vars
  BY NextRefines
<1>3. QED
  BY <1>1, <1>2, Invariance, PTL DEF Spec, RefinesReclamation, Contract!Spec
===============================================================================
