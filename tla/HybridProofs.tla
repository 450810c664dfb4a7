----------------------------- MODULE HybridProofs -----------------------------
(***************************************************************************)
(* Theorems about Hybrid, for any number of threads, hazard pointers and   *)
(* nodes and any thresholds: about qsbr_smr_hybrid.c (~Lazy); those about  *)
(* epochs are for timely steps, and about both files; those about safety   *)
(* are for timely steps, if an insert that finds no node gives up          *)
(* left_node before it calls allocate_fail (~KeepsNodes).                  *)
(*                                                                         *)
(* Base says where the threads and the nodes are, EpochInv who can be how  *)
(* far behind in the epochs.  Inv adds that a hazard pointer names what is *)
(* dereferenced under it, whatever the flag, and that a thread which       *)
(* dereferences a node in a limbo list holds up the epoch in which the     *)
(* node would be freed.  The first protects a node from scans, the second  *)
(* from quiescent_state, so the flag can rise and fall at any time.        *)
(***************************************************************************)
EXTENDS Hybrid, FiniteSetTheorems, SequenceTheorems, TLAPS

\* The nodes in the limbo list of epoch e.
At(t, e) == ToSet(limbo_list[t][e])

\* Outside of operations.
Away(t) ==
    \/ pc[t] \in {"fail", "failed", "manage", "decide", "present", "switched",
                  "clear", "exit", "exited"} \cup Quiescent
    \/ pc[t] = "scan" /\ caller[t] # "free"

\* Where the control of a thread is, what its loop variables can be, and which
\* slot it validates.
ControlOf(t) ==
    /\ victim[t] # NULL <=> pc[t] = "free"
    /\ pc[t] \notin {"mark", "rotate"} /\ vlist[t] = <<>>
    /\ pc[t] = "clear" => idx[t] < K
    /\ pc[t] \in {"present", "look", "cmp"} => idx[t] < N
    /\ pc[t] \notin {"clear", "present", "scan"} \cup Locked => idx[t] = 0
    /\ pc[t] = "scan" => caller[t] # "loop"
    /\ pc[t] \in Quiescent => caller[t] \in {"insert", "loop"} /\ left[t] >= 1
    /\ slot[t] \in Own(t)

ControlInv == \A t \in Threads : ControlOf(t)

\* A node has one place.
NotTwice(n) ==
    /\ n \in linked =>
          \A t \in Threads : n \notin pool[t] /\ n # victim[t] /\ n \notin Limbo(t)
    /\ \A t, u \in Threads :
          /\ n \in pool[t] => /\ n # victim[u] /\ n \notin Limbo(u)
                              /\ (n \in pool[u] => t = u)
          /\ n = victim[t] => n \notin Limbo(u) /\ (n = victim[u] => t = u)
          /\ n \in Limbo(t) /\ n \in Limbo(u) => t = u
    /\ \A t \in Threads, e, f \in Epochs : n \in At(t, e) /\ n \in At(t, f) => e = f

Located == \A n \in Nodes : NotTwice(n)

\* A slot names the node that is dereferenced under it.
GuardsArePublished == \A i \in Slots : guarded[i] # NULL => HP[i] = guarded[i]

AwayGuardsNothing == \A t \in Threads : Away(t) => \A i \in Own(t) : guarded[i] = NULL

\* A scan has seen the hazard pointers of nodes in use, up to the next to read.
ScanInv ==
    \A t \in Threads : pc[t] = "scan" =>
       \A i \in Slots : i < idx[t] /\ guarded[i] \in Limbo(t) => guarded[i] \in plist[t]

\* update_lock lets one thread into update_epoch at a time, and the global epoch
\* moves only there.
UpdateIsExclusive ==
    /\ \A t \in Threads : pc[t] \in Locked => update_lock
    /\ \A t, u \in Threads : pc[t] \in Locked /\ pc[u] \in Locked => t = u
    /\ \A t \in Threads : pc[t] \in Locked \ {"unlock"} => curr_epoch[t] = global_epoch

\* Which threads update_epoch waits for.
CriticalInv == \A t \in Threads : in_critical[t] <=> pc[t] \notin Window

\* A thread is in the global epoch or the one before; only one that has just
\* advanced the epoch itself, and is on its way to free the nodes of the new epoch,
\* can be two behind.
LagOf(t) ==
    /\ epoch[t] = NextEpoch(global_epoch) =>
          /\ pc[t] \in {"unlock", "restore", "reread", "process"}
          /\ pc[t] \in {"unlock", "restore"} => res[t]
    /\ pc[t] = "process" => seen[t] = global_epoch /\ epoch[t] # global_epoch

LagInv == \A t \in Threads : LagOf(t)

\* Whom the loop of update_epoch has passed is in the global epoch, and stays in it.
LookOf(t) ==
    pc[t] \in {"look", "cmp", "bump"} =>
       \A u \in Threads \ {t} :
          pc[t] = "bump" \/ u < idx[t] => epoch[u] = global_epoch

LookInv == \A t \in Threads : LookOf(t)

\* What of this is used of the types, of both files.
EpochTypes ==
    /\ pc \in [Threads -> PCs] /\ caller \in [Threads -> Callers]
    /\ idx \in [Threads -> Nat]
    /\ global_epoch \in Epochs /\ update_lock \in BOOLEAN
    /\ epoch \in [Threads -> Epochs] /\ in_critical \in [Threads -> BOOLEAN]
    /\ seen \in [Threads -> Epochs] /\ res \in [Threads -> BOOLEAN]
    /\ curr_epoch \in [Threads -> Epochs]

CallsOf(t) ==
    /\ pc[t] \in Quiescent => caller[t] \in {"insert", "loop"}
    /\ pc[t] \in {"look", "cmp"} => idx[t] \in Threads \ {t}

CodeInv == EpochTypes /\ (\A t \in Threads : CallsOf(t)) /\ UpdateIsExclusive

EpochInv == CodeInv /\ CriticalInv /\ LagInv /\ LookInv

\* A node of limbo_list[t][e] that u still dereferences: it will not be freed before
\* u has announced a quiescent state.
Waits(t, u, e) ==
    /\ epoch[u] = global_epoch => e # NextEpoch(global_epoch)
    /\ epoch[t] # global_epoch => e # global_epoch

GraceInv ==
    \A t, u \in Threads : \A i \in Own(u) : \A e \in Epochs :
       guarded[i] \in At(t, e) => Waits(t, u, e)

Base == TypeOK /\ ControlInv /\ RcountIsLength /\ Located

Inv == /\ Base /\ GuardsArePublished /\ AwayGuardsNothing /\ ScanInv
       /\ EpochInv /\ GraceInv /\ NoUseAfterFree

Step(t) == Operate(t) \/ Proceed(t)

-----------------------------------------------------------------------------
(* Slots.                                                                  *)

Owner(i) == i \div K    \* the thread whose slot i is

LEMMA Multiples ==
    ASSUME NEW k \in Nat \ {0}, NEW a \in Nat, NEW b \in Nat, a < b
    PROVE  k * a \in Nat /\ k * a + k <= k * b
<1>1. \A x \in Nat : k * x \in Nat
  OBVIOUS
<1>2. b - a - 1 \in Nat /\ k * (b - a - 1) \in Nat
  BY <1>1
<1>3. k * b = k * a + k + k * (b - a - 1)
  OBVIOUS
<1>4. QED
  BY <1>1, <1>2, <1>3

LEMMA QuotientIs ==
    ASSUME NEW k \in Nat \ {0}, NEW a \in Nat, NEW i \in Nat
    PROVE  /\ i \div k \in Nat
           /\ k * (i \div k) <= i /\ i < k * (i \div k) + k
           /\ k * a <= i /\ i < k * a + k => i \div k = a
<1>1. /\ i \div k \in Nat
      /\ k * (i \div k) <= i /\ i < k * (i \div k) + k
  OBVIOUS
<1>2. ASSUME k * a <= i, i < k * a + k PROVE i \div k = a
  <2> DEFINE q == i \div k
  <2>1. q \in Nat /\ k * q <= i /\ i < k * q + k
    BY <1>1
  <2> HIDE DEF q
  <2>2. k * a \in Nat /\ k * q \in Nat
    BY <2>1
  <2>3. ~(q < a)
    <3>1. q < a => k * q + k <= k * a
      BY <2>1, Multiples
    <3>2. QED
      BY <2>1, <2>2, <3>1, <1>2
  <2>4. ~(a < q)
    <3>1. a < q => k * a + k <= k * q
      BY <2>1, Multiples
    <3>2. QED
      BY <2>1, <2>2, <3>1, <1>2
  <2>5. QED
    BY <2>1, <2>3, <2>4 DEF q
<1>3. QED
  BY <1>1, <1>2

LEMMA SlotFacts ==
    /\ H \in Nat \ {0} /\ K \in Nat \ {0} /\ K <= H
    /\ \A t \in Threads : \A i \in Own(t) : i \in Slots /\ Owner(i) = t
    /\ \A i \in Slots : Owner(i) \in Threads /\ i \in Own(Owner(i))
    /\ \A t \in Threads : \A k \in 0 .. K - 1 : K * t + k \in Own(t)
<1>1. H \in Nat /\ K <= H /\ K \in Nat \ {0}
  <2>1. K * 0 + K <= K * N
    BY NAssumption, Multiples
  <2>2. QED
    BY <2>1, NAssumption DEF H
<1>2. ASSUME NEW t \in Threads, NEW i \in Own(t)
      PROVE  i \in Slots /\ Owner(i) = t
  <2>1. t \in Nat /\ N \in Nat /\ t < N
    BY NAssumption DEF Threads
  <2>2. K * t \in Nat /\ K * t + K <= H
    BY <1>1, <2>1, Multiples DEF H
  <2>3. i \in Nat /\ K * t <= i /\ i < K * t + K
    BY <1>1, <2>1, <2>2 DEF Own
  <2>4. i \div K = t
    BY <1>1, <2>1, <2>3, QuotientIs
  <2>5. QED
    BY <1>1, <2>1, <2>2, <2>3, <2>4 DEF Slots, Owner
<1>3. ASSUME NEW i \in Slots
      PROVE  Owner(i) \in Threads /\ i \in Own(Owner(i))
  <2> DEFINE q == Owner(i)
  <2>1. i \in Nat /\ i < K * N /\ N \in Nat
    BY <1>1, NAssumption DEF Slots, H
  <2>2. q \in Nat /\ K * q <= i /\ i < K * q + K
    BY <1>1, <2>1, QuotientIs DEF Owner
  <2> HIDE DEF q
  <2>3. K * q \in Nat /\ K * N \in Nat
    BY <1>1, <2>1, <2>2
  <2>4. ~(N < q)
    <3>1. N < q => K * N + K <= K * q
      BY <1>1, <2>1, <2>2, Multiples
    <3>2. QED
      BY <1>1, <2>1, <2>2, <2>3, <3>1
  <2>5. N # q
    BY <1>1, <2>1, <2>2, <2>3
  <2>6. q < N
    BY <2>1, <2>2, <2>4, <2>5
  <2>7. q \in Threads
    BY <2>1, <2>2, <2>6 DEF Threads
  <2>8. i \in Own(q)
    BY <1>1, <2>1, <2>2, <2>3 DEF Own
  <2>9. QED
    BY <2>7, <2>8 DEF q
<1>4. ASSUME NEW t \in Threads, NEW k \in 0 .. K - 1 PROVE K * t + k \in Own(t)
  <2>1. K * t \in Nat
    BY <1>1 DEF Threads
  <2>2. QED
    BY <1>1, <2>1 DEF Own
<1>5. QED
  BY <1>1, <1>2, <1>3, <1>4, NAssumption

\* No slot has two owners.
LEMMA OwnDisjoint ==
    ASSUME NEW t \in Threads, NEW u \in Threads, NEW i \in Own(t), i \in Own(u)
    PROVE  t = u
BY SlotFacts

-----------------------------------------------------------------------------
(* Sequences.                                                              *)

LEMMA SeqFacts ==
    ASSUME NEW S, NEW s \in Seq(S)
    PROVE  /\ Len(s) \in Nat /\ DOMAIN s = 1 .. Len(s)
           /\ \A e \in DOMAIN s : s[e] \in S /\ s[e] \in ToSet(s)
           /\ \A x \in ToSet(s) : \E e \in DOMAIN s : s[e] = x
           /\ ToSet(s) \subseteq S
<1>1. Len(s) \in Nat /\ DOMAIN s = 1 .. Len(s)
  BY LenProperties
<1>2. \A e \in DOMAIN s : s[e] \in S
  BY <1>1, ElementOfSeq
<1>3. QED
  BY <1>1, <1>2 DEF ToSet

LEMMA ConsIs ==
    ASSUME NEW S, NEW x \in S, NEW s \in Seq(S)
    PROVE  /\ <<x>> \o s \in Seq(S) /\ Len(<<x>> \o s) = Len(s) + 1
           /\ (<<x>> \o s)[1] = x
           /\ \A e \in 1 .. Len(s) : (<<x>> \o s)[e + 1] = s[e]
<1>1. <<x>> \in Seq(S) /\ Len(<<x>>) = 1 /\ <<x>>[1] = x
  OBVIOUS
<1>2. Len(s) \in Nat
  BY LenProperties
<1>3. /\ <<x>> \o s \in Seq(S) /\ Len(<<x>> \o s) = 1 + Len(s)
      /\ \A i \in 1 .. 1 + Len(s) : (<<x>> \o s)[i] = IF i <= 1 THEN <<x>>[i] ELSE s[i - 1]
  <2> DEFINE o == <<x>>
  <2>1. o \in Seq(S) /\ Len(o) = 1
    BY <1>1
  <2> HIDE DEF o
  <2>2. /\ o \o s \in Seq(S)
        /\ Len(o \o s) = Len(o) + Len(s)
        /\ \A i \in 1 .. Len(o) + Len(s) :
              (o \o s)[i] = IF i <= Len(o) THEN o[i] ELSE s[i - Len(o)]
    BY <2>1, ConcatProperties
  <2>3. QED
    BY <2>1, <2>2 DEF o
<1> DEFINE c == <<x>> \o s
<1> HIDE DEF c
<1>4. c[1] = x
  BY <1>1, <1>2, <1>3 DEF c
<1>5. ASSUME NEW e \in 1 .. Len(s) PROVE c[e + 1] = s[e]
  <2>1. e + 1 \in 1 .. 1 + Len(s) /\ ~(e + 1 <= 1) /\ (e + 1) - 1 = e
    BY <1>2
  <2>2. QED
    BY <1>3, <2>1 DEF c
<1>6. QED
  BY <1>2, <1>3, <1>4, <1>5 DEF c

\* The nodes of l that are in T, in their order.
LEMMA SublistIs ==
    ASSUME NEW S, NEW l \in Seq(S), NEW T
    PROVE  /\ Sublist(l, T) \in Seq(S)
           /\ \A j \in DOMAIN Sublist(l, T) :
                 \E e \in DOMAIN l : l[e] \in T /\ Sublist(l, T)[j] = l[e]
           /\ \A e \in DOMAIN l : l[e] \in T =>
                 \E j \in DOMAIN Sublist(l, T) : Sublist(l, T)[j] = l[e]
<1> DEFINE I == {e \in DOMAIN l : l[e] \in T}
           UpTo(e) == {f \in I : f <= e}
           c == Cardinality(I)
           Rank == [e \in I |-> Cardinality(UpTo(e))]
           Nth(k) == CHOOSE e \in I : Cardinality({f \in I : f <= e}) = k
           s == Sublist(l, T)
<1>1. Len(l) \in Nat /\ DOMAIN l = 1 .. Len(l) /\ \A e \in DOMAIN l : l[e] \in S
  BY SeqFacts
<1>2. IsFiniteSet(I) /\ c \in Nat
  <2>1. IsFiniteSet(1 .. Len(l))
    BY <1>1, FS_Interval
  <2>2. I \subseteq 1 .. Len(l)
    BY <1>1
  <2> HIDE DEF I
  <2>3. IsFiniteSet(I)
    BY <2>1, <2>2, FS_Subset
  <2>4. QED
    BY <2>3, FS_CardinalityType
<1>3. I \subseteq DOMAIN l /\ \A e \in DOMAIN l : e \in I <=> l[e] \in T
  OBVIOUS
<1>4. s = [k \in 1 .. c |-> l[Nth(k)]]
  BY DEF Sublist
<1> HIDE DEF I, s
<1>5. ASSUME NEW e \in I
      PROVE  IsFiniteSet(UpTo(e)) /\ Cardinality(UpTo(e)) \in 1 .. c
  <2> DEFINE U == UpTo(e)
  <2>1. U \in SUBSET I /\ e \in U
    BY <1>1, <1>3
  <2> HIDE DEF U
  <2>2. IsFiniteSet(U) /\ Cardinality(U) <= c
    BY <1>2, <2>1, FS_Subset
  <2>3. Cardinality(U) \in Nat /\ Cardinality(U) # 0
    BY <2>1, <2>2, FS_CardinalityType, FS_EmptySet
  <2>4. QED
    BY <1>2, <2>2, <2>3 DEF U
<1>6. ASSUME NEW e \in I, NEW f \in I, e < f
      PROVE  Cardinality(UpTo(e)) < Cardinality(UpTo(f))
  <2> DEFINE U == UpTo(e)  V == UpTo(f)
  <2>1. U \in SUBSET V /\ f \in V /\ f \notin U
    BY <1>1, <1>3, <1>6
  <2>2. IsFiniteSet(V) /\ Cardinality(V) \in 1 .. c /\ Cardinality(U) \in 1 .. c
    BY <1>5
  <2> HIDE DEF U, V
  <2>3. Cardinality(U) <= Cardinality(V) /\ Cardinality(U) # Cardinality(V)
    BY <2>1, <2>2, FS_Subset
  <2>4. Cardinality(U) < Cardinality(V)
    BY <1>2, <2>2, <2>3
  <2>5. QED
    BY <2>4 DEF U, V
<1> DEFINE Count(e) == Cardinality(UpTo(e))
<1>a. c \in Nat /\ \A e \in I : Count(e) \in 1 .. c
  BY <1>2, <1>5
<1>b. \A e, f \in I : e < f => Count(e) < Count(f)
  BY <1>6
<1>c. Rank = [e \in I |-> Count(e)]
  OBVIOUS
<1>d. \A e \in I : Count(e) = Cardinality({f \in I : f <= e})
  OBVIOUS
<1> HIDE DEF Count, c, Rank
<1>7. Rank \in Injection(I, 1 .. c)
  <2>1. Rank \in [I -> 1 .. c]
    BY <1>a, <1>c
  <2>2. ASSUME NEW e \in I, NEW f \in I, Rank[e] = Rank[f] PROVE e = f
    <3>1. Count(e) = Count(f) /\ Count(e) \in 1 .. c /\ e \in Nat /\ f \in Nat
      BY <1>1, <1>3, <1>a, <1>c, <2>2
    <3>2. ~(e < f) /\ ~(f < e)
      BY <1>a, <1>b, <3>1
    <3>3. QED
      BY <3>1, <3>2
  <2>3. QED
    BY <2>1, <2>2 DEF Injection, IsInjective
<1>8. Rank \in Surjection(I, 1 .. c)
  <2> DEFINE J == 1 .. c
  <2>1. IsFiniteSet(J) /\ Cardinality(J) = Cardinality(I)
    BY <1>a, FS_Interval DEF c
  <2>2. Rank \in Injection(I, J)
    BY <1>7
  <2> HIDE DEF J
  <2>3. Rank \in Surjection(I, J)
    BY <2>1, <2>2, FS_Injection
  <2>4. QED
    BY <2>3 DEF J
<1>9. \A e \in I : Rank[e] = Cardinality({f \in I : f <= e}) /\ Rank[e] \in 1 .. c
  BY <1>a, <1>c, <1>d
<1>10. \A k \in 1 .. c : \E e \in I : Rank[e] = k
  BY <1>8 DEF Surjection
<1>11. \A e, f \in I : Rank[e] = Rank[f] => e = f
  BY <1>7 DEF Injection, IsInjective
<1>12. ASSUME NEW k \in 1 .. c PROVE Nth(k) \in I /\ Rank[Nth(k)] = k
  <2>1. \E e \in I : Cardinality({f \in I : f <= e}) = k
    BY <1>9, <1>10
  <2>2. Nth(k) \in I /\ Cardinality({f \in I : f <= Nth(k)}) = k
    BY <2>1
  <2> HIDE DEF Nth
  <2>3. QED
    BY <1>9, <2>2
<1> HIDE DEF Nth
<1>13. ASSUME NEW e \in I PROVE Nth(Rank[e]) = e /\ Rank[e] \in 1 .. c
  BY <1>9, <1>11, <1>12
<1>14. DOMAIN s = 1 .. c /\ \A k \in 1 .. c : s[k] = l[Nth(k)]
  BY <1>4
<1>15. s \in Seq(S)
  <2>1. s \in [1 .. c -> S]
    BY <1>1, <1>3, <1>4, <1>12
  <2>2. QED
    BY <1>a, <2>1, SeqDef
<1>16. ASSUME NEW j \in DOMAIN s PROVE \E e \in DOMAIN l : l[e] \in T /\ s[j] = l[e]
  BY <1>3, <1>12, <1>14
<1>17. ASSUME NEW e \in DOMAIN l, l[e] \in T PROVE \E j \in DOMAIN s : s[j] = l[e]
  <2>1. e \in I
    BY <1>3, <1>17
  <2>2. QED
    BY <1>13, <1>14, <2>1
<1>18. QED
  BY <1>15, <1>16, <1>17 DEF s

LEMMA SublistSet ==
    ASSUME NEW S, NEW l \in Seq(S), NEW T
    PROVE  /\ Sublist(l, T) \in Seq(S)
           /\ ToSet(Sublist(l, T)) = ToSet(l) \cap T
           /\ l = <<>> => Sublist(l, T) = <<>>
<1> DEFINE s == Sublist(l, T)
<1>1. /\ s \in Seq(S)
      /\ \A j \in DOMAIN s : \E e \in DOMAIN l : l[e] \in T /\ s[j] = l[e]
      /\ \A e \in DOMAIN l : l[e] \in T => \E j \in DOMAIN s : s[j] = l[e]
  BY SublistIs
<1> HIDE DEF s
<1>2. \A x \in ToSet(s) : x \in ToSet(l) \cap T
  BY <1>1 DEF ToSet
<1>3. \A x \in ToSet(l) \cap T : x \in ToSet(s)
  BY <1>1 DEF ToSet
<1>4. ASSUME l = <<>> PROVE s = <<>>
  <2>1. DOMAIN l = {}
    BY <1>4
  <2>2. DOMAIN s = {}
    BY <1>1, <2>1
  <2>3. Len(s) \in Nat /\ DOMAIN s = 1 .. Len(s)
    BY <1>1, SeqFacts
  <2>4. Len(s) = 0
    BY <2>2, <2>3
  <2>5. QED
    BY <1>1, <2>4, EmptySeq
<1>5. QED
  BY <1>1, <1>2, <1>3, <1>4 DEF s

\* What free_node_later of qsbr_smr_hybrid.c does to a list: nothing leaves its tail.
LEMMA UncutIs ==
    ASSUME NEW S, NEW s \in Seq(S)
    PROVE  /\ SubSeq(s, 1, Len(s) - 0) = s
           /\ SubSeq(s, Len(s) - 0 + 1, Len(s)) = <<>>
<1> DEFINE l == Len(s)
<1>1. l \in Nat /\ \A i \in 1 .. l : s[i] \in S
  BY LenProperties, ElementOfSeq
<1>2. s = [i \in 1 .. l |-> s[i]]
  BY LenProperties
<1> HIDE DEF l
<1>3. l - 0 = l
  BY <1>1
<1>4. SubSeq(s, 1, l) = s
  <2>1. /\ SubSeq(s, 1, l) \in Seq(S)
        /\ Len(SubSeq(s, 1, l)) = IF 1 <= l THEN l - 1 + 1 ELSE 0
        /\ \A i \in 1 .. l - 1 + 1 : SubSeq(s, 1, l)[i] = s[1 + i - 1]
    BY <1>1, SubSeqProperties
  <2>2. Len(SubSeq(s, 1, l)) = l /\ l - 1 + 1 = l
    BY <1>1, <2>1
  <2>3. \A i \in 1 .. l : SubSeq(s, 1, l)[i] = s[i]
    BY <1>1, <2>1, <2>2
  <2>4. QED
    BY <2>1, <2>2, <2>3, SeqEqual DEF l
<1>5. SubSeq(s, l + 1, l) = <<>>
  <2>1. l + 1 \in Int /\ l \in Int /\ \A i \in l + 1 .. l : s[i] \in S
    BY <1>1
  <2>2. /\ SubSeq(s, l + 1, l) \in Seq(S)
        /\ Len(SubSeq(s, l + 1, l)) = IF l + 1 <= l THEN l - (l + 1) + 1 ELSE 0
    BY <2>1, SubSeqProperties
  <2>3. Len(SubSeq(s, l + 1, l)) = 0
    BY <1>1, <2>2
  <2>4. QED
    BY <2>2, <2>3, EmptySeq
<1>6. QED
  BY <1>3, <1>4, <1>5 DEF l

LEMMA NothingBefore ==
    ASSUME NEW S, NEW s \in Seq(S)
    PROVE  <<>> \o s = s /\ <<>> \o <<>> = <<>>
<1>1. <<>> \in Seq(S)
  OBVIOUS
<1>2. <<>> \o s = s /\ \A r \in Seq(S) : <<>> \o r = r
  BY ConcatEmptySeq
<1>3. QED
  BY <1>1, <1>2

-----------------------------------------------------------------------------
(* Epochs.                                                                 *)

\* Three epochs in a row.
LEMMA EpochFacts ==
    /\ \A e \in Epochs : /\ NextEpoch(e) \in Epochs /\ NextEpoch(e) # e
                         /\ NextEpoch(NextEpoch(e)) # e
                         /\ NextEpoch(NextEpoch(e)) # NextEpoch(e)
                         /\ (e - 1) % N_EPOCHS = NextEpoch(NextEpoch(e))
                         /\ \A d \in Epochs : \/ d = e \/ d = NextEpoch(e)
                                              \/ d = NextEpoch(NextEpoch(e))
    /\ Epochs = {0, 1, 2}
<1>1. Epochs = {0, 1, 2} /\ N_EPOCHS = 3
  BY DEF Epochs, N_EPOCHS
<1>2. NextEpoch(0) = 1 /\ NextEpoch(1) = 2 /\ NextEpoch(2) = 0
  BY DEF NextEpoch, N_EPOCHS
<1>3. \A d \in Int : /\ d \in 0 .. 2 => d % 3 = d
                     /\ d \in -3 .. -1 => d % 3 = d + 3
  OBVIOUS
<1>4. \A e \in Epochs : (e - 1) % N_EPOCHS = IF e = 0 THEN 2 ELSE e - 1
  <2> SUFFICES ASSUME NEW e \in {0, 1, 2}
               PROVE  (e - 1) % 3 = IF e = 0 THEN 2 ELSE e - 1
    BY <1>1
  <2> DEFINE d == e - 1
  <2>1. d \in Int /\ (e = 0 => d = -1) /\ (e # 0 => d \in 0 .. 2)
    OBVIOUS
  <2> HIDE DEF d
  <2>2. d % 3 = IF e = 0 THEN 2 ELSE d
    BY <1>3, <2>1
  <2>3. QED
    BY <2>2 DEF d
<1>5. QED
  BY <1>1, <1>2, <1>4

-----------------------------------------------------------------------------
(* What the steps do to the lists.                                         *)

Others(t) == Threads \ {t}

\* free_node_later: the victim joins the list of the thread's epoch.
Retires(t) ==
    /\ victim[t] \in Nodes /\ victim' = [victim EXCEPT ![t] = NULL]
    /\ limbo_list' \in [Threads -> [Epochs -> Seq(Nodes)]]
    /\ \A e \in Epochs :
          At(t, e)' = IF e = epoch[t] THEN At(t, e) \cup {victim[t]} ELSE At(t, e)
    /\ \A u \in Others(t) : limbo_list'[u] = limbo_list[u]
    /\ rcount' = [rcount EXCEPT ![t] = @ + 1]
    /\ UNCHANGED <<linked, pool, guarded, slot, HP, old, vlist, marked>>

\* The nodes S leave the lists of t and go to its allocator.
Frees(t, S) ==
    /\ S \subseteq Limbo(t)
    /\ limbo_list' \in [Threads -> [Epochs -> Seq(Nodes)]]
    /\ \A e \in Epochs : At(t, e)' = At(t, e) \ S
    /\ \A u \in Others(t) : limbo_list'[u] = limbo_list[u]
    /\ pool' = [pool EXCEPT ![t] = @ \cup S]
    /\ old' = old \ S
    /\ rcount' = [rcount EXCEPT ![t] = Cardinality(Limbo(t) \ S)]
    /\ UNCHANGED <<linked, victim, guarded, slot, HP, vlist, marked>>

\* The hazard pointers a scan has seen when it has read the next one; its last
\* step and what it frees; and what process_callbacks frees.
SeenBy(t) == plist[t] \cup ({HP[idx[t]]} \ {NULL})

LastOfScan(t) == ScanStep(t) /\ ~(idx[t] + 1 < H)

Swept(t) == FreedOfLimbo(t, SeenBy(t))

Passed(t) == At(t, seen[t])

Stays == UNCHANGED <<linked, pool, victim, limbo_list, rcount, old, vlist, marked>>

LEMMA LimboIs ==
    ASSUME TypeOK, NEW t \in Threads
    PROVE  /\ \A e \in Epochs : /\ limbo_list[t][e] \in Seq(Nodes)
                                /\ At(t, e) \subseteq Nodes
           /\ \A n : n \in Limbo(t) <=> \E e \in Epochs : n \in At(t, e)
           /\ Limbo(t) \subseteq Nodes
           /\ \A S \in SUBSET Limbo(t) :
                 IsFiniteSet(S) /\ Cardinality(S) \in Nat
<1>1. \A e \in Epochs : limbo_list[t][e] \in Seq(Nodes)
  BY DEF TypeOK
<1>2. \A e \in Epochs : At(t, e) \subseteq Nodes
  BY <1>1, SeqFacts DEF At
<1>3. \A n : n \in Limbo(t) <=> \E e \in Epochs : n \in At(t, e)
  BY DEF Limbo, At
<1>4. Limbo(t) \subseteq Nodes
  BY <1>2, <1>3
<1>5. \A S \in SUBSET Limbo(t) : IsFiniteSet(S) /\ Cardinality(S) \in Nat
  BY <1>4, NodesAssumption, FS_Subset, FS_CardinalityType
<1>6. QED
  BY <1>1, <1>2, <1>3, <1>4, <1>5

LEMMA RetiredIsLimbo ==
    ASSUME NEW t \in Threads, vlist[t] = <<>>
    PROVE  RetiredBy(t) = Limbo(t)
<1>1. ToSet(<<>>) = {}
  BY DEF ToSet
<1>2. QED
  BY <1>1 DEF RetiredBy

LEMMA FreeRetires ==
    ASSUME TypeOK, ControlInv, ~Lazy, NEW t \in Threads, FreeNodeLater(t)
    PROVE  /\ Retires(t)
           /\ \/ /\ pc'[t] = "scan" /\ pc' = [pc EXCEPT ![t] = "scan"]
              \/ /\ pc'[t] = "op" /\ pc' = [pc EXCEPT ![t] = "op"]
<1> DEFINE lim == [limbo_list[t] EXCEPT ![epoch[t]] = <<victim[t]>> \o @]
           moves == Lazy /\ fallback = 1
           len == [e \in Epochs |->
                     LET m0 == Leaving(lim[0], Len(vlist[t]))
                         m1 == Leaving(lim[1], Len(vlist[t]) + m0)
                         m2 == Leaving(lim[2], Len(vlist[t]) + m0 + m1)
                     IN  IF moves THEN <<m0, m1, m2>>[e + 1] ELSE 0]
           up(e) == SubSeq(lim[e], Len(lim[e]) - len[e] + 1, Len(lim[e]))
           v == up(2) \o up(1) \o up(0) \o vlist[t]
<1>1. /\ pc[t] = "free"
      /\ limbo_list' = [limbo_list EXCEPT ![t] =
                          [e \in Epochs |-> SubSeq(lim[e], 1, Len(lim[e]) - len[e])]]
      /\ vlist' = [vlist EXCEPT ![t] = v]
      /\ marked' = marked \cup (ToSet(v) \ ToSet(vlist[t]))
      /\ rcount' = [rcount EXCEPT ![t] = @ + 1]
      /\ victim' = [victim EXCEPT ![t] = NULL]
      /\ Enter(t, IF moves /\ Len(v) > H THEN "mark"
                  ELSE IF ~Lazy /\ fallback = 1 /\ rcount[t] + 1 >= R THEN "scan"
                  ELSE "op",
               "free")
      /\ UNCHANGED <<linked, pool, guarded, slot, HP, old>>
  BY DEF FreeNodeLater
<1>2. ~moves
  OBVIOUS
<1>3. \A e \in Epochs : len[e] = 0
  BY <1>2
<1> HIDE DEF moves, len
<1>4. victim[t] \in Nodes /\ vlist[t] = <<>> /\ epoch[t] \in Epochs
  BY <1>1 DEF ControlInv, ControlOf, TypeOK
<1> DEFINE l == limbo_list[t][epoch[t]]  c == <<victim[t]>> \o l
<1>5. /\ c \in Seq(Nodes)
      /\ ToSet(c) = ToSet(l) \cup {victim[t]}
  <2>1. l \in Seq(Nodes)
    BY <1>4, LimboIs
  <2> HIDE DEF l
  <2>2. /\ c \in Seq(Nodes) /\ Len(c) = Len(l) + 1 /\ c[1] = victim[t]
        /\ \A e \in 1 .. Len(l) : c[e + 1] = l[e]
    BY <1>4, <2>1, ConsIs
  <2> HIDE DEF c
  <2>3. /\ Len(l) \in Nat /\ DOMAIN l = 1 .. Len(l) /\ DOMAIN c = 1 .. Len(l) + 1
    BY <2>1, <2>2, SeqFacts
  <2>4. ASSUME NEW x \in ToSet(c) PROVE x \in ToSet(l) \cup {victim[t]}
    <3>1. PICK i \in 1 .. Len(l) + 1 : c[i] = x
      BY <2>2, <2>3, SeqFacts
    <3>2. CASE i = 1
      BY <2>2, <3>1, <3>2
    <3>3. CASE i # 1
      <4>1. i - 1 \in 1 .. Len(l) /\ (i - 1) + 1 = i
        BY <2>3, <3>3
      <4>2. c[(i - 1) + 1] = l[i - 1] /\ i - 1 \in DOMAIN l
        BY <2>2, <2>3, <4>1
      <4>3. QED
        BY <2>1, <3>1, <4>1, <4>2, SeqFacts
    <3>4. QED
      BY <3>2, <3>3
  <2>5. ASSUME NEW x \in ToSet(l) PROVE x \in ToSet(c)
    <3>1. PICK i \in 1 .. Len(l) : l[i] = x
      BY <2>1, <2>3, SeqFacts
    <3>2. i + 1 \in DOMAIN c /\ c[i + 1] = x
      BY <2>2, <2>3, <3>1
    <3>3. QED
      BY <2>2, <3>2, SeqFacts
  <2>6. victim[t] \in ToSet(c)
    <3>1. 1 \in DOMAIN c
      BY <2>3
    <3>2. QED
      BY <2>2, <3>1, SeqFacts
  <2>7. QED
    BY <2>2, <2>4, <2>5, <2>6
<1>6. /\ lim \in [Epochs -> Seq(Nodes)] /\ lim[epoch[t]] = c
      /\ \A e \in Epochs \ {epoch[t]} : lim[e] = limbo_list[t][e]
  <2> HIDE DEF c
  <2>1. limbo_list[t] \in [Epochs -> Seq(Nodes)]
    BY DEF TypeOK
  <2>2. lim = [limbo_list[t] EXCEPT ![epoch[t]] = c]
    BY DEF c
  <2> HIDE DEF lim
  <2>3. QED
    BY <1>4, <1>5, <2>1, <2>2
<1> HIDE DEF lim, c, l
<1>7. [e \in Epochs |-> SubSeq(lim[e], 1, Len(lim[e]) - len[e])] = lim
  BY <1>3, <1>6, UncutIs
<1>8. \A e \in Epochs : up(e) = <<>>
  BY <1>3, <1>6, UncutIs
<1>9. v = <<>>
  <2>1. 0 \in Epochs /\ 1 \in Epochs /\ 2 \in Epochs
    BY EpochFacts
  <2>2. <<>> \o <<>> = <<>>
    BY NothingBefore
  <2> HIDE DEF up
  <2>3. QED
    BY <1>4, <1>8, <2>1, <2>2
<1> HIDE DEF v
<1>10. vlist' = vlist /\ marked' = marked
  <2>1. vlist' = vlist
    BY <1>1, <1>4, <1>9 DEF TypeOK
  <2>2. QED
    BY <1>1, <1>4, <1>9, <2>1
<1>11. limbo_list' = [limbo_list EXCEPT ![t] = lim]
  BY <1>1, <1>7
<1>12. /\ limbo_list' \in [Threads -> [Epochs -> Seq(Nodes)]] /\ limbo_list'[t] = lim
       /\ \A u \in Others(t) : limbo_list'[u] = limbo_list[u]
  BY <1>6, <1>11 DEF TypeOK, Others
<1>13. ASSUME NEW e \in Epochs
       PROVE  At(t, e)' = IF e = epoch[t] THEN At(t, e) \cup {victim[t]} ELSE At(t, e)
  <2>1. At(t, e)' = ToSet(lim[e])
    BY <1>12 DEF At
  <2>2. CASE e = epoch[t]
    BY <1>5, <1>6, <2>1, <2>2 DEF At, l
  <2>3. CASE e # epoch[t]
    BY <1>6, <2>1, <2>3 DEF At
  <2>4. QED
    BY <2>2, <2>3
<1>14. Retires(t)
  BY <1>1, <1>4, <1>10, <1>12, <1>13 DEF Retires
<1>15. pc' = [pc EXCEPT ![t] = "scan"] \/ pc' = [pc EXCEPT ![t] = "op"]
  BY <1>1, <1>2 DEF Enter
<1>16. QED
  BY <1>14, <1>15 DEF TypeOK

LEMMA ScanFrees ==
    ASSUME TypeOK, ControlInv, NEW t \in Threads, LastOfScan(t)
    PROVE  /\ Frees(t, Swept(t))
           /\ Swept(t) \cap SeenBy(t) = {}
           /\ plist' = [plist EXCEPT ![t] = {}] /\ idx' = [idx EXCEPT ![t] = 0]
           /\ Enter(t, AfterScan[caller[t]], "loop")
<1> DEFINE freed == FreedOfLimbo(t, SeenBy(t)) \cup FreedOfVlist(t, SeenBy(t))
           Keep(l) == Sublist(l, ToSet(l) \ freed)
<1>1. /\ plist' = [plist EXCEPT ![t] = {}]
      /\ idx' = [idx EXCEPT ![t] = 0]
      /\ Enter(t, AfterScan[caller[t]], "loop")
      /\ limbo_list' = [limbo_list EXCEPT ![t] =
                          [e \in Epochs |-> Keep(limbo_list[t][e])]]
      /\ vlist' = [vlist EXCEPT ![t] = Keep(vlist[t])]
      /\ rcount' = [rcount EXCEPT ![t] = Counted(t, RetiredBy(t) \ freed)]
      /\ pool' = [pool EXCEPT ![t] = @ \cup freed]
      /\ old' = old \ freed
      /\ UNCHANGED <<linked, guarded, victim, slot, HP, marked>>
  BY DEF LastOfScan, ScanStep, SeenBy
<1>2. vlist[t] = <<>> /\ RetiredBy(t) = Limbo(t)
  BY RetiredIsLimbo DEF ControlInv, ControlOf
<1>3. freed = Swept(t)
  <2>1. ToSet(<<>>) = {}
    BY DEF ToSet
  <2>2. FreedOfVlist(t, SeenBy(t)) = {}
    BY <1>2, <2>1 DEF FreedOfVlist
  <2>3. QED
    BY <2>2 DEF Swept
<1>4. Swept(t) \subseteq Limbo(t) /\ Swept(t) \cap SeenBy(t) = {}
  BY DEF Swept, FreedOfLimbo
<1> HIDE DEF freed
<1>5. ASSUME NEW e \in Epochs
      PROVE  /\ Keep(limbo_list[t][e]) \in Seq(Nodes)
             /\ ToSet(Keep(limbo_list[t][e])) = At(t, e) \ freed
  <2> DEFINE l == limbo_list[t][e]
  <2>1. l \in Seq(Nodes)
    BY LimboIs
  <2> HIDE DEF l
  <2>2. Keep(l) \in Seq(Nodes) /\ ToSet(Keep(l)) = ToSet(l) \cap (ToSet(l) \ freed)
    BY <2>1, SublistSet
  <2>3. QED
    BY <2>2 DEF At, l
<1>6. Keep(vlist[t]) = <<>>
  <2>1. vlist[t] \in Seq(Nodes)
    BY DEF TypeOK
  <2>2. QED
    BY <1>2, <2>1, SublistSet
<1>7. vlist' = vlist
  BY <1>1, <1>2, <1>6 DEF TypeOK
<1> HIDE DEF Keep
<1>8. /\ limbo_list' \in [Threads -> [Epochs -> Seq(Nodes)]]
      /\ \A e \in Epochs : limbo_list'[t][e] = Keep(limbo_list[t][e])
      /\ \A u \in Others(t) : limbo_list'[u] = limbo_list[u]
  BY <1>1, <1>5 DEF TypeOK, Others
<1>9. \A e \in Epochs : At(t, e)' = At(t, e) \ freed
  BY <1>5, <1>8 DEF At
<1>10. rcount' = [rcount EXCEPT ![t] = Cardinality(Limbo(t) \ freed)]
  BY <1>1, <1>2 DEF Counted
<1>11. Frees(t, Swept(t))
  BY <1>1, <1>3, <1>4, <1>7, <1>8, <1>9, <1>10 DEF Frees
<1>12. QED
  BY <1>1, <1>4, <1>11

LEMMA CallbacksFree ==
    ASSUME TypeOK, ControlInv, RcountIsLength, Located,
           NEW t \in Threads, ProcessCallbacks(t)
    PROVE  Frees(t, Passed(t))
<1> DEFINE g == seen[t]
<1>1. g \in Epochs
  BY DEF TypeOK
<1>2. /\ limbo_list' = [limbo_list EXCEPT ![t][g] = <<>>]
      /\ pool' = [pool EXCEPT ![t] = @ \cup Passed(t)]
      /\ old' = old \ Passed(t)
      /\ rcount' = [rcount EXCEPT ![t] = rcount[t] - Cardinality(Passed(t))]
      /\ UNCHANGED <<linked, guarded, victim, slot, HP, vlist, marked>>
  BY DEF ProcessCallbacks, Passed, At, RcountAfter, still, rotating
<1>3. Passed(t) \subseteq Limbo(t) /\ Passed(t) = At(t, g)
  BY <1>1, LimboIs DEF Passed
<1> HIDE DEF g
<1>4. /\ limbo_list' \in [Threads -> [Epochs -> Seq(Nodes)]]
      /\ limbo_list'[t][g] = <<>>
      /\ \A e \in Epochs \ {g} : limbo_list'[t][e] = limbo_list[t][e]
      /\ \A u \in Others(t) : limbo_list'[u] = limbo_list[u]
  <2> DEFINE f == [limbo_list[t] EXCEPT ![g] = <<>>]
  <2>1. <<>> \in Seq(Nodes) /\ limbo_list \in [Threads -> [Epochs -> Seq(Nodes)]]
    BY DEF TypeOK
  <2>2. limbo_list' = [limbo_list EXCEPT ![t] = f]
    BY <1>2, <2>1
  <2>3. /\ f \in [Epochs -> Seq(Nodes)] /\ f[g] = <<>>
        /\ \A e \in Epochs \ {g} : f[e] = limbo_list[t][e]
    BY <1>1, <2>1
  <2> HIDE DEF f
  <2>4. QED
    BY <2>1, <2>2, <2>3 DEF Others
<1>5. ASSUME NEW e \in Epochs PROVE At(t, e)' = At(t, e) \ Passed(t)
  <2>1. CASE e = g
    <3>1. ToSet(<<>>) = {}
      BY DEF ToSet
    <3>2. QED
      BY <1>3, <1>4, <2>1, <3>1 DEF At
  <2>2. CASE e # g
    <3>1. limbo_list'[t][e] = limbo_list[t][e]
      BY <1>4, <2>2
    <3>2. At(t, e) \cap At(t, g) = {}
      <4>1. \A n \in Nodes : ~(n \in At(t, e) /\ n \in At(t, g))
        BY <1>1, <2>2 DEF Located, NotTwice
      <4>2. QED
        BY <4>1, LimboIs
    <3>3. At(t, e)' = At(t, e)
      BY <3>1 DEF At
    <3>4. QED
      BY <1>3, <3>2, <3>3
  <2>3. QED
    BY <2>1, <2>2
<1>6. rcount[t] - Cardinality(Passed(t)) = Cardinality(Limbo(t) \ Passed(t))
  <2>1. rcount[t] = Cardinality(Limbo(t))
    BY RetiredIsLimbo DEF RcountIsLength, ControlInv, ControlOf
  <2>2. IsFiniteSet(Limbo(t)) /\ IsFiniteSet(Passed(t))
    BY <1>3, LimboIs
  <2>3. Limbo(t) \cap Passed(t) = Passed(t)
    BY <1>3
  <2>4. Cardinality(Limbo(t) \ Passed(t)) = Cardinality(Limbo(t)) - Cardinality(Passed(t))
    BY <2>2, <2>3, FS_Difference
  <2>5. QED
    BY <2>1, <2>4
<1>7. QED
  BY <1>2, <1>3, <1>4, <1>5, <1>6 DEF Frees

\* The other steps of quiescent_state read and write flags and epochs.
Looks(t) ==
    \/ ReadEpoch(t) \/ LeaveCritical(t) \/ UpdateEpoch(t)
    \/ RestoreCritical(t) \/ RereadEpoch(t)

LEMMA LooksStay ==
    ASSUME NEW t \in Threads, Looks(t)
    PROVE  UNCHANGED <<still, stored>> /\ epoch' = epoch
BY DEF Looks, ReadEpoch, LeaveCritical, UpdateEpoch, TryLock, LookAtFlag,
       CompareEpoch, BumpEpoch, Unlock, RestoreCritical, RereadEpoch, epochs

LEMMA QuiescentIs ==
    ASSUME NEW t \in Threads
    PROVE  QuiescentState(t) <=> ProcessCallbacks(t) \/ Looks(t)
BY DEF QuiescentState, Looks

LEMMA QuiescentMoves ==
    ASSUME NEW t \in Threads, QuiescentState(t)
    PROVE  /\ pc[t] \in Quiescent /\ UNCHANGED still
           /\ \/ Return(t)
              \/ /\ \E p \in Quiescent \ {"read"} : pc' = [pc EXCEPT ![t] = p]
                 /\ UNCHANGED <<caller, left>>
<1> USE DEF Quiescent, Window, Locked, Goto, updater, epochs
<1>1. CASE ReadEpoch(t) \/ LeaveCritical(t) \/ BumpEpoch(t) \/ Unlock(t)
  BY <1>1 DEF ReadEpoch, LeaveCritical, BumpEpoch, Unlock
<1>2. CASE ProcessCallbacks(t) \/ RestoreCritical(t) \/ RereadEpoch(t)
  BY <1>2 DEF ProcessCallbacks, RestoreCritical, RereadEpoch
<1>3. CASE TryLock(t) \/ LookAtFlag(t) \/ CompareEpoch(t)
  BY <1>3 DEF TryLock, LookAtFlag, CompareEpoch, LookFrom
<1>4. QED
  BY <1>1, <1>2, <1>3 DEF QuiescentState, UpdateEpoch

\* The next call, or the place in the caller behind the last one.
LEMMA ReturnMoves ==
    ASSUME NEW t \in Threads, caller[t] \in {"insert", "loop"}, Return(t)
    PROVE  /\ left' = [left EXCEPT ![t] = left[t] - 1]
           /\ seen' = [seen EXCEPT ![t] = 0] /\ res' = [res EXCEPT ![t] = FALSE]
           /\ \E p \in {"read", "op", "fail"}, c \in {"insert", "loop"} :
                 Enter(t, p, c) /\ (p = "read" => left[t] > 1)
BY DEF Return, AfterQuiescing

\* The thread that the loop of update_epoch comes to next, or its end.
LEMMA LookFromIs ==
    ASSUME NEW t \in Threads, NEW i \in Nat, LookFrom(t, i)
    PROVE  \/ \E j \in Threads \ {t} :
                 /\ pc' = [pc EXCEPT ![t] = "look"] /\ idx' = [idx EXCEPT ![t] = j]
                 /\ i <= j /\ \A u \in Threads \ {t} : u < j => u < i
           \/ /\ pc' = [pc EXCEPT ![t] = "bump"] /\ idx' = idx
              /\ \A u \in Threads \ {t} : u < i
<1>1. N \in Nat /\ t \in Nat /\ \A u \in Threads : u \in Nat /\ u < N
  BY NAssumption DEF Threads
<1> DEFINE j == From(t, i)
<1>2. /\ j \in Nat /\ j # t /\ i <= j
      /\ \A u \in Threads \ {t} : u < j => u < i
  BY <1>1 DEF From
<1>3. CASE j < N
  <2>1. j \in Threads \ {t}
    BY <1>1, <1>2, <1>3 DEF Threads
  <2>2. pc' = [pc EXCEPT ![t] = "look"] /\ idx' = [idx EXCEPT ![t] = j]
    BY <1>3 DEF LookFrom
  <2> HIDE DEF j
  <2>3. QED
    BY <1>2, <2>1, <2>2
<1>4. CASE ~(j < N)
  <2>1. pc' = [pc EXCEPT ![t] = "bump"] /\ idx' = idx
    BY <1>4 DEF LookFrom
  <2> HIDE DEF j
  <2>2. QED
    BY <1>1, <1>2, <1>4, <2>1
<1>5. QED
  BY <1>3, <1>4

\* idx in quiescent_state.
LEMMA QuiescentIdx ==
    ASSUME EpochTypes, NEW t \in Threads, QuiescentState(t)
    PROVE  \/ idx' = idx
           \/ Unlock(t) /\ idx' = [idx EXCEPT ![t] = 0]
           \/ \E j \in Threads \ {t} :
                 pc' = [pc EXCEPT ![t] = "look"] /\ idx' = [idx EXCEPT ![t] = j]
<1>1. CASE TryLock(t)
  <2>1. LookFrom(t, 0) \/ idx' = idx
    BY <1>1 DEF TryLock
  <2>2. QED
    BY <2>1, LookFromIs
<1>2. CASE LookAtFlag(t) \/ CompareEpoch(t)
  <2>1. LookFrom(t, idx[t] + 1) \/ idx' = idx
    BY <1>2 DEF LookAtFlag, CompareEpoch
  <2>2. idx[t] + 1 \in Nat
    BY DEF EpochTypes
  <2>3. QED
    BY <2>1, <2>2, LookFromIs
<1>3. CASE Unlock(t)
  BY <1>3 DEF Unlock
<1>4. QED
  BY <1>1, <1>2, <1>3 DEF QuiescentState, UpdateEpoch, ReadEpoch, ProcessCallbacks,
     LeaveCritical, BumpEpoch, RestoreCritical, RereadEpoch

\* Every step does one of these to the lists.
LEMMA Kinds ==
    ASSUME TypeOK, ControlInv, RcountIsLength, Located, ~Lazy,
           NEW t \in Threads, Step(t)
    PROVE  \/ Stays
           \/ \E n \in Nodes : Insert(t, n) \/ Unlink(t, n)
           \/ FreeNodeLater(t) /\ Retires(t)
           \/ LastOfScan(t) /\ Frees(t, Swept(t))
           \/ ProcessCallbacks(t) /\ Frees(t, Passed(t))
<1> USE DEF client, lists, rotating
<1>1. CASE \E i \in Own(t), n \in Nodes \cup {NULL} : Publish(t, i, n)
  BY <1>1 DEF Publish, Stays
<1>2. CASE EndOperation(t) \/ InsertFindsNoNode(t)
  BY <1>2 DEF EndOperation, InsertFindsNoNode, Stays
<1>3. CASE StartExit(t)
  <2>1. vlist[t] = <<>>
    BY DEF ControlInv, ControlOf
  <2>2. /\ limbo_list' = [limbo_list EXCEPT ![t][0] = vlist[t] \o @]
        /\ vlist' = [vlist EXCEPT ![t] = <<>>]
        /\ UNCHANGED <<linked, pool, victim, rcount, old, marked>>
    BY <1>3 DEF StartExit, EmptyVlist
  <2>3. vlist[t] \o limbo_list[t][0] = limbo_list[t][0]
    <3>1. limbo_list[t][0] \in Seq(Nodes)
      BY EpochFacts, LimboIs
    <3>2. QED
      BY <2>1, <3>1, NothingBefore
  <2> DEFINE l == vlist[t] \o limbo_list[t][0]
  <2>4. limbo_list' = [limbo_list EXCEPT ![t] = [limbo_list[t] EXCEPT ![0] = l]]
    BY <2>2
  <2> HIDE DEF l
  <2>5. l = limbo_list[t][0] /\ limbo_list[t] \in [Epochs -> Seq(Nodes)]
    BY <2>3 DEF l, TypeOK
  <2>6. [limbo_list[t] EXCEPT ![0] = l] = limbo_list[t]
    BY <2>5
  <2>7. limbo_list' = limbo_list
    BY <2>4, <2>6 DEF TypeOK
  <2>8. vlist' = vlist
    BY <2>1, <2>2 DEF TypeOK
  <2>9. QED
    BY <2>2, <2>7, <2>8 DEF Stays
<1>4. CASE Validate(t)
  BY <1>4 DEF Validate, Stays
<1>5. CASE FreeNodeLater(t)
  BY <1>5, FreeRetires
<1>6. CASE ReadHPcur(t) \/ Rotate(t)
  BY <1>6 DEF ReadHPcur, Rotate, Goto, ControlInv, ControlOf
<1>7. CASE ScanStep(t)
  <2>1. CASE idx[t] + 1 < H
    BY <1>7, <2>1 DEF ScanStep, Stays
  <2>2. CASE ~(idx[t] + 1 < H)
    <3>1. LastOfScan(t)
      BY <1>7, <2>2 DEF LastOfScan
    <3>2. QED
      BY <3>1, ScanFrees
  <2>3. QED
    BY <2>1, <2>2
<1>8. CASE QuiescentState(t)
  <2>1. CASE ProcessCallbacks(t)
    BY <2>1, CallbacksFree
  <2>2. CASE Looks(t)
    BY <2>2, LooksStay DEF still, stored, Stays
  <2>3. QED
    BY <1>8, <2>1, <2>2, QuiescentIs
<1>9. CASE CallAllocateFail(t) \/ AllocateFail(t)
  BY <1>9 DEF CallAllocateFail, AllocateFail, Stays
<1>10. CASE ShowUp(t) \/ ManageHybridState(t) \/ AllThreadsPresent(t) \/ SwitchToQSBR(t)
  BY <1>10 DEF ShowUp, ManageHybridState, AllThreadsPresent, SwitchToQSBR, Stays
<1>11. CASE ClearHazardPointer(t) \/ ScanAtExit(t) \/ FinishExit(t)
  BY <1>11 DEF ClearHazardPointer, ScanAtExit, FinishExit, Stays
<1>12. QED
  BY <1>1, <1>2, <1>3, <1>4, <1>5, <1>6, <1>7, <1>8, <1>9, <1>10, <1>11
     DEF Step, Operate, Proceed

-----------------------------------------------------------------------------
(* Typing.                                                                 *)

LEMMA InitType == Init => TypeOK
<1> SUFFICES ASSUME Init PROVE TypeOK
  OBVIOUS
<1>1. linked \in SUBSET Nodes /\ pool \in [Threads -> SUBSET Nodes]
  BY DEF Init
<1>2. /\ guarded \in [Slots -> Nodes \cup {NULL}] /\ HP \in [Slots -> Nodes \cup {NULL}]
      /\ victim \in [Threads -> Nodes \cup {NULL}] /\ cur \in [Threads -> Nodes \cup {NULL}]
  BY DEF Init
<1>3. slot \in [Threads -> Slots]
  <2>1. \A t \in Threads : K * t + 0 \in Own(t) /\ K * t + 0 = K * t
    <3>1. 0 \in 0 .. K - 1 /\ \A t \in Threads : K * t \in Nat
      BY NAssumption DEF Threads
    <3>2. QED
      BY <3>1, SlotFacts
  <2>2. QED
    BY <2>1, SlotFacts DEF Init
<1>4. limbo_list \in [Threads -> [Epochs -> Seq(Nodes)]] /\ vlist \in [Threads -> Seq(Nodes)]
  <2>1. <<>> \in Seq(Nodes)
    OBVIOUS
  <2>2. QED
    BY <2>1 DEF Init
<1>5. old \in SUBSET Nodes /\ marked \in SUBSET Nodes /\ plist \in [Threads -> SUBSET Nodes]
      /\ present \in SUBSET Threads
  BY DEF Init
<1>6. /\ rcount \in [Threads -> Nat] /\ HPcur \in [Threads -> Slots]
      /\ idx \in [Threads -> 0 .. H - 1]
  BY SlotFacts DEF Init, Slots
<1>7. pc \in [Threads -> PCs] /\ caller \in [Threads -> Callers]
  BY DEF Init, PCs, Callers
<1>8. /\ trials \in [Threads -> 0 .. SwitchThreshold]
      /\ retries \in [Threads -> 0 .. MaxExitRetries]
      /\ left \in [Threads -> 0 .. Many + Few]
  <2>1. 0 \in 0 .. SwitchThreshold /\ 0 \in 0 .. MaxExitRetries /\ 0 \in 0 .. Many + Few
    BY LimitsAssumption
  <2>2. QED
    BY <2>1 DEF Init
<1>9. /\ global_epoch \in Epochs /\ epoch \in [Threads -> Epochs] /\ fallback \in {0, 1}
      /\ last_flag \in [Threads -> {0, 1}] /\ flag \in [Threads -> {0, 1}]
      /\ update_lock \in BOOLEAN /\ in_critical \in [Threads -> BOOLEAN]
      /\ seen \in [Threads -> Epochs] /\ res \in [Threads -> BOOLEAN]
      /\ curr_epoch \in [Threads -> Epochs]
  BY EpochFacts DEF Init
<1>10. QED
  BY <1>1, <1>2, <1>3, <1>4, <1>5, <1>6, <1>7, <1>8, <1>9 DEF TypeOK

\* The types of the lists, the allocators, and what is linked.
ListTypes ==
    /\ linked \in SUBSET Nodes /\ pool \in [Threads -> SUBSET Nodes]
    /\ victim \in [Threads -> Nodes \cup {NULL}]
    /\ limbo_list \in [Threads -> [Epochs -> Seq(Nodes)]] /\ vlist \in [Threads -> Seq(Nodes)]
    /\ rcount \in [Threads -> Nat] /\ old \in SUBSET Nodes /\ marked \in SUBSET Nodes

LEMMA ListTypesStep ==
    ASSUME TypeOK, ControlInv, RcountIsLength, Located, ~Lazy,
           NEW t \in Threads, Step(t)
    PROVE  ListTypes'
<1>0. ListTypes
  BY DEF TypeOK, ListTypes
<1>1. CASE Stays
  BY <1>0, <1>1 DEF Stays, ListTypes
<1>2. ASSUME NEW n \in Nodes, Insert(t, n) PROVE ListTypes'
  BY <1>0, <1>2 DEF Insert, ListTypes, lists
<1>3. ASSUME NEW n \in Nodes, Unlink(t, n) PROVE ListTypes'
  BY <1>0, <1>3 DEF Unlink, ListTypes, lists, rotating
<1>4. CASE Retires(t)
  BY <1>0, <1>4 DEF Retires, ListTypes
<1>5. ASSUME NEW S, Frees(t, S) PROVE ListTypes'
  <2>1. S \subseteq Nodes
    BY <1>5, LimboIs DEF Frees
  <2>2. Cardinality(Limbo(t) \ S) \in Nat
    BY LimboIs
  <2>3. QED
    BY <1>0, <1>5, <2>1, <2>2 DEF Frees, ListTypes
<1>6. QED
  BY <1>1, <1>2, <1>3, <1>4, <1>5, Kinds

LEMMA UnguardType ==
    ASSUME TypeOK, NEW t \in Threads, Unguard(t)
    PROVE  guarded' \in [Slots -> Nodes \cup {NULL}]
BY DEF TypeOK, Unguard

LEMMA EnterType ==
    ASSUME TypeOK, NEW t \in Threads, NEW p \in PCs, NEW c \in Callers, Enter(t, p, c)
    PROVE  /\ pc' \in [Threads -> PCs] /\ pc' = [pc EXCEPT ![t] = p] /\ pc'[t] = p
           /\ caller' \in [Threads -> Callers] /\ caller' = [caller EXCEPT ![t] = c]
           /\ caller'[t] = c
BY DEF Enter, TypeOK

\* The types of what is not in ListTypes.
SlotTypes ==
    /\ guarded \in [Slots -> Nodes \cup {NULL}] /\ HP \in [Slots -> Nodes \cup {NULL}]
    /\ slot \in [Threads -> Slots]

SharedTypes ==
    /\ global_epoch \in Epochs /\ update_lock \in BOOLEAN
    /\ epoch \in [Threads -> Epochs] /\ in_critical \in [Threads -> BOOLEAN]
    /\ seen \in [Threads -> Epochs] /\ res \in [Threads -> BOOLEAN]
    /\ curr_epoch \in [Threads -> Epochs]
    /\ fallback \in {0, 1} /\ present \in SUBSET Threads
    /\ last_flag \in [Threads -> {0, 1}] /\ flag \in [Threads -> {0, 1}]

LoopTypes ==
    /\ plist \in [Threads -> SUBSET Nodes] /\ idx \in [Threads -> 0 .. H - 1]
    /\ trials \in [Threads -> 0 .. SwitchThreshold]
    /\ retries \in [Threads -> 0 .. MaxExitRetries]
    /\ left \in [Threads -> 0 .. Many + Few]

CodeTypes == pc \in [Threads -> PCs] /\ caller \in [Threads -> Callers]

RotatingTypes == HPcur \in [Threads -> Slots] /\ cur \in [Threads -> Nodes \cup {NULL}]

LEMMA TypeOKIs ==
    TypeOK <=> ListTypes /\ SlotTypes /\ SharedTypes /\ LoopTypes /\ CodeTypes /\ RotatingTypes
BY DEF TypeOK, ListTypes, SlotTypes, SharedTypes, LoopTypes, CodeTypes, RotatingTypes

LEMMA TypesOfEpochs == TypeOK => EpochTypes
<1>1. 0 .. H - 1 \subseteq Nat
  BY SlotFacts
<1>2. QED
  BY <1>1 DEF TypeOK, EpochTypes

LEMMA SlotTypesStep ==
    ASSUME TypeOK, ControlInv, NEW t \in Threads, Step(t)
    PROVE  SlotTypes'
<1>0. SlotTypes
  BY TypeOKIs
<1> USE DEF client
<1>1. ASSUME NEW i \in Own(t), NEW n \in Nodes \cup {NULL}, Publish(t, i, n) PROVE SlotTypes'
  <2>1. i \in Slots
    BY SlotFacts
  <2>2. QED
    BY <1>0, <1>1, <2>1 DEF Publish, SlotTypes
<1>2. CASE Validate(t)
  BY <1>0, <1>2 DEF Validate, SlotTypes
<1>3. ASSUME Unguard(t), UNCHANGED <<HP, slot>> PROVE SlotTypes'
  BY <1>0, <1>3, UnguardType DEF SlotTypes
<1>4. CASE ClearHazardPointer(t)
  <2>1. idx[t] \in 0 .. K - 1
    BY <1>4, SlotFacts DEF ClearHazardPointer, Goto, ControlInv, ControlOf, TypeOK
  <2>2. K * t + idx[t] \in Slots
    BY <2>1, SlotFacts
  <2>3. QED
    BY <1>0, <1>4, <2>2 DEF ClearHazardPointer, SlotTypes
<1>5. ASSUME UNCHANGED <<guarded, HP, slot>> PROVE SlotTypes'
  BY <1>0, <1>5 DEF SlotTypes
<1>6. QED
  BY <1>1, <1>2, <1>3, <1>4, <1>5, QuiescentMoves
     DEF Step, Operate, Proceed, Insert, Unlink, EndOperation, InsertFindsNoNode,
         StartExit, FreeNodeLater, ReadHPcur, Rotate, ScanStep, still,
         CallAllocateFail, AllocateFail, ShowUp, ManageHybridState, AllThreadsPresent,
         SwitchToQSBR, ScanAtExit, FinishExit

LEMMA SharedTypesStep ==
    ASSUME TypeOK, NEW t \in Threads, Step(t)
    PROVE  SharedTypes'
<1>0. SharedTypes
  BY TypeOKIs
<1> USE DEF epochs, updater, flags
<1>1. CASE Operate(t)
  BY <1>0, <1>1
     DEF Operate, Publish, Insert, Unlink, EndOperation, InsertFindsNoNode, StartExit,
         SharedTypes
<1>2. CASE Validate(t) \/ FreeNodeLater(t) \/ ReadHPcur(t) \/ Rotate(t) \/ ScanStep(t)
  BY <1>0, <1>2 DEF Validate, FreeNodeLater, ReadHPcur, Rotate, ScanStep, SharedTypes
<1>3. CASE QuiescentState(t)
  <2>1. UNCHANGED <<fallback, present, last_flag, flag>>
    BY <1>3, QuiescentMoves DEF still
  <2> USE DEF SharedTypes
  <2>2. 0 \in Epochs /\ \A e \in Epochs : NextEpoch(e) \in Epochs
    BY EpochFacts
  <2>3. CASE ReadEpoch(t) \/ LeaveCritical(t) \/ Unlock(t)
    BY <1>0, <2>1, <2>2, <2>3 DEF ReadEpoch, LeaveCritical, Unlock, updater
  <2>4. CASE ProcessCallbacks(t) \/ RestoreCritical(t) \/ RereadEpoch(t)
    BY <1>0, <2>1, <2>2, <2>4 DEF ProcessCallbacks, RestoreCritical, RereadEpoch, Return
  <2>5. CASE TryLock(t) \/ LookAtFlag(t) \/ CompareEpoch(t) \/ BumpEpoch(t)
    BY <1>0, <2>1, <2>2, <2>5 DEF TryLock, LookAtFlag, CompareEpoch, BumpEpoch, updater
  <2>6. QED
    BY <1>3, <2>3, <2>4, <2>5 DEF QuiescentState, UpdateEpoch
<1>4. CASE CallAllocateFail(t)
  BY <1>0, <1>4 DEF CallAllocateFail, SharedTypes
<1>5. CASE AllocateFail(t)
  <2>1. flag' \in [Threads -> {0, 1}]
    BY <1>0, <1>5 DEF AllocateFail, SharedTypes
  <2>2. \/ last_flag' = [last_flag EXCEPT ![t] = 0]
        \/ last_flag' = [last_flag EXCEPT ![t] = 1]
        \/ last_flag' = last_flag
    BY <1>5 DEF AllocateFail
  <2>3. last_flag' \in [Threads -> {0, 1}]
    BY <1>0, <2>2 DEF SharedTypes
  <2>4. fallback' \in {0, 1} /\ UNCHANGED <<epochs, present>>
    BY <1>0, <1>5 DEF AllocateFail, SharedTypes
  <2>5. QED
    BY <1>0, <2>1, <2>3, <2>4 DEF SharedTypes, updater
<1>6. CASE ShowUp(t) \/ ManageHybridState(t) \/ AllThreadsPresent(t) \/ SwitchToQSBR(t)
  BY <1>0, <1>6 DEF ShowUp, ManageHybridState, AllThreadsPresent, SwitchToQSBR, SharedTypes
<1>7. CASE ClearHazardPointer(t) \/ ScanAtExit(t) \/ FinishExit(t)
  BY <1>0, <1>7 DEF ClearHazardPointer, ScanAtExit, FinishExit, SharedTypes
<1>8. QED
  BY <1>1, <1>2, <1>3, <1>4, <1>5, <1>6, <1>7 DEF Step, Proceed

LEMMA LoopTypesStep ==
    ASSUME TypeOK, ControlInv, NEW t \in Threads, Step(t)
    PROVE  LoopTypes'
<1>0. LoopTypes
  BY TypeOKIs
<1>h. H \in Nat \ {0} /\ K \in Nat \ {0} /\ K <= H /\ N \in Nat \ {0} /\ 0 \in 0 .. H - 1
      /\ N <= H
  <2>1. N * 0 + N <= N * K
    BY NAssumption, Multiples
  <2>2. QED
    BY <2>1, SlotFacts, NAssumption DEF H
<1>l. /\ 0 \in 0 .. SwitchThreshold /\ 0 \in 0 .. MaxExitRetries
      /\ Many \in 0 .. Many + Few /\ Few \in 0 .. Many + Few /\ 1 \in 0 .. Many + Few
      /\ Many \in Nat /\ Few \in Nat /\ SwitchThreshold \in Nat /\ MaxExitRetries \in Nat
  BY LimitsAssumption
<1>i. idx[t] \in 0 .. H - 1 /\ (idx[t] + 1 < H => idx[t] + 1 \in 0 .. H - 1)
  BY <1>h DEF TypeOK
<1> USE DEF scanner, loops
<1>1. CASE Operate(t)
  BY <1>0, <1>1
     DEF Operate, Publish, Insert, Unlink, EndOperation, InsertFindsNoNode, StartExit,
         LoopTypes
<1>2. CASE Validate(t) \/ FreeNodeLater(t) \/ ReadHPcur(t) \/ Rotate(t)
  BY <1>0, <1>2 DEF Validate, FreeNodeLater, ReadHPcur, Rotate, LoopTypes
<1>3. CASE ScanStep(t)
  <2>1. UNCHANGED <<trials, retries, left>>
    BY <1>3 DEF ScanStep
  <2>2. CASE idx[t] + 1 < H
    <3>1. /\ plist' = [plist EXCEPT ![t] = SeenBy(t)]
          /\ idx' = [idx EXCEPT ![t] = idx[t] + 1]
      BY <1>3, <2>2 DEF ScanStep, SeenBy
    <3>2. SeenBy(t) \subseteq Nodes
      <4>1. idx[t] \in Slots
        BY <1>i DEF Slots
      <4>2. QED
        BY <4>1 DEF SeenBy, TypeOK
    <3>3. QED
      BY <1>0, <1>i, <2>1, <2>2, <3>1, <3>2 DEF LoopTypes
  <2>3. CASE ~(idx[t] + 1 < H)
    <3>1. plist' = [plist EXCEPT ![t] = {}] /\ idx' = [idx EXCEPT ![t] = 0]
      BY <1>3, <2>3 DEF ScanStep
    <3>2. QED
      BY <1>0, <1>h, <2>1, <3>1 DEF LoopTypes
  <2>4. QED
    BY <2>2, <2>3
<1>4. CASE QuiescentState(t)
  <2>1. /\ pc[t] \in Quiescent /\ UNCHANGED <<plist, trials, retries>>
        /\ left' = left \/ Return(t)
    BY <1>4, QuiescentMoves DEF still
  <2>2. left' \in [Threads -> 0 .. Many + Few]
    <3>1. left[t] \in 0 .. Many + Few /\ left[t] >= 1
      BY <2>1 DEF ControlInv, ControlOf, TypeOK
    <3>2. left[t] - 1 \in 0 .. Many + Few
      BY <1>l, <3>1
    <3>3. left' = left \/ left' = [left EXCEPT ![t] = left[t] - 1]
      BY <2>1 DEF Return
    <3>4. QED
      BY <1>0, <3>2, <3>3 DEF LoopTypes
  <2>3. idx' \in [Threads -> 0 .. H - 1]
    <3>1. Threads \subseteq 0 .. H - 1
      BY <1>h DEF Threads
    <3>2. \/ idx' = idx
          \/ idx' = [idx EXCEPT ![t] = 0]
          \/ \E j \in Threads : idx' = [idx EXCEPT ![t] = j]
      BY <1>4, TypesOfEpochs, QuiescentIdx
    <3>3. QED
      BY <1>0, <1>h, <3>1, <3>2 DEF LoopTypes
  <2>4. QED
    BY <1>0, <2>1, <2>2, <2>3 DEF LoopTypes
<1>5. CASE CallAllocateFail(t)
  BY <1>0, <1>l, <1>5 DEF CallAllocateFail, LoopTypes
<1>6. CASE AllocateFail(t)
  <2>1. NextTrial(t) \in 0 .. SwitchThreshold
    <3>1. trials[t] \in 0 .. SwitchThreshold
      BY DEF TypeOK
    <3>2. QED
      BY <1>l, <3>1 DEF NextTrial
  <2>2. trials' = [trials EXCEPT ![t] = NextTrial(t)] /\ UNCHANGED <<plist, idx, retries>>
    BY <1>6 DEF AllocateFail
  <2>3. \/ left' = [left EXCEPT ![t] = Many] \/ left' = [left EXCEPT ![t] = 1]
        \/ left' = left
    BY <1>6 DEF AllocateFail
  <2>4. left' \in [Threads -> 0 .. Many + Few]
    BY <1>0, <1>l, <2>3 DEF LoopTypes
  <2>5. QED
    BY <1>0, <2>1, <2>2, <2>4 DEF LoopTypes
<1>7. CASE ShowUp(t) \/ ManageHybridState(t) \/ SwitchToQSBR(t)
  <2>1. UNCHANGED <<plist, idx, trials, retries>>
    BY <1>7 DEF ShowUp, ManageHybridState, SwitchToQSBR
  <2>2. \/ left' = [left EXCEPT ![t] = Many] \/ left' = [left EXCEPT ![t] = 1]
        \/ left' = [left EXCEPT ![t] = Few] \/ left' = left
    BY <1>7 DEF ShowUp, ManageHybridState, SwitchToQSBR
  <2>3. left' \in [Threads -> 0 .. Many + Few]
    BY <1>0, <1>l, <2>2 DEF LoopTypes
  <2>4. QED
    BY <1>0, <2>1, <2>3 DEF LoopTypes
<1>8. CASE AllThreadsPresent(t)
  <2>1. UNCHANGED <<plist, trials, retries, left>>
    BY <1>8 DEF AllThreadsPresent
  <2>2. \/ idx' = [idx EXCEPT ![t] = 0]
        \/ idx[t] + 1 < N /\ idx' = [idx EXCEPT ![t] = idx[t] + 1]
    BY <1>8 DEF AllThreadsPresent
  <2>3. idx[t] + 1 < N => idx[t] + 1 \in 0 .. H - 1
    BY <1>h, <1>i
  <2>4. idx' \in [Threads -> 0 .. H - 1]
    BY <1>0, <1>h, <2>2, <2>3 DEF LoopTypes
  <2>5. QED
    BY <1>0, <2>1, <2>4 DEF LoopTypes
<1>9. CASE ClearHazardPointer(t)
  <2>1. UNCHANGED <<plist, trials, retries, left>>
    BY <1>9 DEF ClearHazardPointer
  <2>2. idx' = [idx EXCEPT ![t] = IF idx[t] + 1 < K THEN idx[t] + 1 ELSE 0]
    BY <1>9 DEF ClearHazardPointer
  <2>3. idx[t] + 1 < K => idx[t] + 1 \in 0 .. H - 1
    BY <1>h, <1>i
  <2>4. idx' \in [Threads -> 0 .. H - 1]
    BY <1>0, <1>h, <2>2, <2>3 DEF LoopTypes
  <2>5. QED
    BY <1>0, <2>1, <2>4 DEF LoopTypes
<1>10. CASE ScanAtExit(t)
  <2>1. retries[t] + 1 \in 0 .. MaxExitRetries
    <3>1. retries[t] \in 0 .. MaxExitRetries /\ retries[t] < MaxExitRetries
      BY <1>10 DEF ScanAtExit, TypeOK
    <3>2. QED
      BY <1>l, <3>1
  <2>2. retries' = [retries EXCEPT ![t] = retries[t] + 1]
        /\ UNCHANGED <<plist, idx, trials, left>>
    BY <1>10 DEF ScanAtExit, NextRetry
  <2>3. QED
    BY <1>0, <2>1, <2>2 DEF LoopTypes
<1>11. CASE FinishExit(t)
  BY <1>0, <1>l, <1>11 DEF FinishExit, LoopTypes
<1>12. QED
  BY <1>1, <1>2, <1>3, <1>4, <1>5, <1>6, <1>7, <1>8, <1>9, <1>10, <1>11
     DEF Step, Proceed

LEMMA CodeTypesStep ==
    ASSUME TypeOK, ControlInv, NEW t \in Threads, Step(t)
    PROVE  CodeTypes' /\ RotatingTypes'
<1>0. CodeTypes /\ RotatingTypes
  BY TypeOKIs
<1>pcs. PCs = {"op", "check", "free", "mark", "rotate", "scan", "fail", "failed",
               "manage", "decide", "present", "switched", "clear", "exit", "exited"}
                 \cup Quiescent
          /\ "read" \in Quiescent
          /\ Callers = {"free", "insert", "loop", "exit"}
  BY DEF PCs, Callers, Quiescent
<1>1. CASE \E p \in PCs : pc' = [pc EXCEPT ![t] = p] /\ UNCHANGED <<caller, HPcur, cur>>
  BY <1>0, <1>1 DEF CodeTypes, RotatingTypes
<1>2. CASE \E p \in PCs, c \in Callers : Enter(t, p, c) /\ UNCHANGED <<HPcur, cur>>
  BY <1>0, <1>2, EnterType DEF CodeTypes, RotatingTypes
<1>3. CASE UNCHANGED <<pc, caller, HPcur, cur>>
  BY <1>0, <1>3 DEF CodeTypes, RotatingTypes
<1> HIDE <1>1, <1>2, <1>3
<1> USE DEF Goto, control, rotating
<1>4. CASE Operate(t)
  <2>1. ASSUME NEW i \in Own(t), NEW n \in Nodes \cup {NULL}, Publish(t, i, n)
        PROVE  pc' = [pc EXCEPT ![t] = "check"] /\ UNCHANGED <<caller, HPcur, cur>>
    BY <2>1 DEF Publish
  <2>2. ASSUME NEW n \in Nodes, Insert(t, n) PROVE UNCHANGED <<pc, caller, HPcur, cur>>
    BY <2>2 DEF Insert
  <2>3. ASSUME NEW n \in Nodes, Unlink(t, n)
        PROVE  pc' = [pc EXCEPT ![t] = "free"] /\ UNCHANGED <<caller, HPcur, cur>>
    BY <2>3 DEF Unlink
  <2>4. CASE EndOperation(t)
    BY <1>1, <1>3, <1>pcs, <2>4 DEF EndOperation
  <2>5. CASE InsertFindsNoNode(t) \/ StartExit(t)
    BY <1>1, <1>pcs, <2>5 DEF InsertFindsNoNode, StartExit
  <2>6. QED
    BY <1>1, <1>3, <1>4, <1>pcs, <2>1, <2>2, <2>3, <2>4, <2>5 DEF Operate
<1>5. CASE Validate(t)
  BY <1>1, <1>5, <1>pcs DEF Validate
<1>6. CASE FreeNodeLater(t)
  <2>1. UNCHANGED <<HPcur, cur>>
    BY <1>6 DEF FreeNodeLater
  <2>2. \E p \in PCs : Enter(t, p, "free")
    BY <1>6, <1>pcs DEF FreeNodeLater
  <2>3. QED
    BY <1>2, <1>pcs, <2>1, <2>2
<1>7. CASE ReadHPcur(t) \/ Rotate(t)
  BY <1>7 DEF ReadHPcur, Rotate, ControlInv, ControlOf
<1>8. CASE ScanStep(t)
  <2>1. UNCHANGED <<HPcur, cur>>
    BY <1>8 DEF ScanStep
  <2>2. UNCHANGED <<pc, caller>> \/ Enter(t, AfterScan[caller[t]], "loop")
    BY <1>8 DEF ScanStep
  <2>3. AfterScan[caller[t]] \in PCs
    BY <1>0, <1>pcs DEF AfterScan, CodeTypes
  <2>4. QED
    BY <1>2, <1>3, <1>pcs, <2>1, <2>2, <2>3
<1>9. CASE QuiescentState(t)
  <2>1. UNCHANGED <<HPcur, cur>> /\ pc[t] \in Quiescent
    BY <1>9, QuiescentMoves DEF still
  <2>2. CASE Return(t)
    <3>1. caller[t] \in {"insert", "loop"}
      BY <2>1 DEF ControlInv, ControlOf
    <3>2. QED
      BY <1>2, <1>pcs, <2>1, <2>2, <3>1, ReturnMoves
  <2>3. CASE \E p \in Quiescent : pc' = [pc EXCEPT ![t] = p] /\ UNCHANGED caller
    BY <1>1, <1>pcs, <2>1, <2>3
  <2>4. QED
    BY <1>9, <2>2, <2>3, QuiescentMoves
<1>10. CASE CallAllocateFail(t)
  BY <1>1, <1>10, <1>pcs DEF CallAllocateFail
<1>11. CASE AllocateFail(t)
  BY <1>2, <1>11, <1>pcs DEF AllocateFail
<1>12. CASE ManageHybridState(t) \/ SwitchToQSBR(t)
  BY <1>2, <1>12, <1>pcs DEF ManageHybridState, SwitchToQSBR
<1>13. CASE AllThreadsPresent(t)
  BY <1>1, <1>3, <1>13, <1>pcs DEF AllThreadsPresent
<1>14. CASE ShowUp(t) \/ ClearHazardPointer(t) \/ FinishExit(t)
  BY <1>1, <1>14, <1>pcs DEF ShowUp, ClearHazardPointer, FinishExit
<1>15. CASE ScanAtExit(t)
  BY <1>2, <1>15, <1>pcs DEF ScanAtExit
<1>16. QED
  BY <1>4, <1>5, <1>6, <1>7, <1>8, <1>9, <1>10, <1>11, <1>12, <1>13, <1>14, <1>15
     DEF Step, Proceed

LEMMA TypeStep ==
    ASSUME TypeOK, ControlInv, RcountIsLength, Located, ~Lazy,
           NEW t \in Threads, Step(t)
    PROVE  TypeOK'
<1>1. ListTypes' /\ SlotTypes' /\ SharedTypes' /\ LoopTypes' /\ CodeTypes' /\ RotatingTypes'
  BY ListTypesStep, SlotTypesStep, SharedTypesStep, LoopTypesStep, CodeTypesStep
<1>2. QED
  BY <1>1 DEF TypeOK, ListTypes, SlotTypes, SharedTypes, LoopTypes, CodeTypes,
              RotatingTypes

-----------------------------------------------------------------------------
(* Control.                                                                *)

\* A step of t leaves alone what belongs to the other threads, in both files.
LEMMA ControlFrame ==
    ASSUME EpochTypes, NEW t \in Threads, Step(t), NEW u \in Others(t)
    PROVE  pc'[u] = pc[u] /\ caller'[u] = caller[u] /\ idx'[u] = idx[u]
<1>dom. DOMAIN pc = Threads /\ DOMAIN caller = Threads /\ DOMAIN idx = Threads
          /\ u \in Threads /\ u # t
  BY DEF EpochTypes, Others
<1> USE <1>dom DEF Goto, Enter, scanner, control
<1>1. CASE Operate(t)
  BY <1>1 DEF Operate, Publish, Insert, Unlink, EndOperation, InsertFindsNoNode, StartExit
<1>2. CASE Validate(t) \/ FreeNodeLater(t) \/ ReadHPcur(t) \/ Rotate(t) \/ ScanStep(t)
  BY <1>2 DEF Validate, FreeNodeLater, ReadHPcur, Rotate, ScanStep
<1>3. CASE QuiescentState(t)
  <2>1. pc'[u] = pc[u] /\ caller'[u] = caller[u]
    BY <1>3, QuiescentMoves DEF Return
  <2>2. idx'[u] = idx[u]
    BY <1>3, QuiescentIdx
  <2>3. QED
    BY <2>1, <2>2
<1>4. CASE CallAllocateFail(t) \/ AllocateFail(t)
  BY <1>4 DEF CallAllocateFail, AllocateFail
<1>5. CASE ShowUp(t) \/ ManageHybridState(t) \/ AllThreadsPresent(t) \/ SwitchToQSBR(t)
  BY <1>5 DEF ShowUp, ManageHybridState, AllThreadsPresent, SwitchToQSBR
<1>6. CASE ClearHazardPointer(t) \/ ScanAtExit(t) \/ FinishExit(t)
  BY <1>6 DEF ClearHazardPointer, ScanAtExit, FinishExit
<1>7. QED
  BY <1>1, <1>2, <1>3, <1>4, <1>5, <1>6 DEF Step, Proceed

LEMMA OnlyQuiescent ==
    ASSUME NEW t \in Threads, Step(t)
    PROVE  QuiescentState(t) \/ UNCHANGED epochs
BY DEF Step, Operate, Proceed, Publish, Insert, Unlink, EndOperation, InsertFindsNoNode,
       StartExit, Validate, FreeNodeLater, ReadHPcur, Rotate, ScanStep,
       CallAllocateFail, AllocateFail, ShowUp, ManageHybridState, AllThreadsPresent,
       SwitchToQSBR, ClearHazardPointer, ScanAtExit, FinishExit

LEMMA EpochsFrame ==
    ASSUME EpochTypes, NEW t \in Threads, Step(t), NEW u \in Others(t)
    PROVE  /\ epoch'[u] = epoch[u] /\ in_critical'[u] = in_critical[u]
           /\ seen'[u] = seen[u] /\ res'[u] = res[u] /\ curr_epoch'[u] = curr_epoch[u]
<1>dom. /\ DOMAIN epoch = Threads /\ DOMAIN in_critical = Threads /\ DOMAIN seen = Threads
        /\ DOMAIN res = Threads /\ DOMAIN curr_epoch = Threads
        /\ u \in Threads /\ u # t
  BY DEF EpochTypes, Others
<1> USE <1>dom DEF Return, epochs, updater
<1>1. CASE ReadEpoch(t) \/ LeaveCritical(t) \/ Unlock(t)
  BY <1>1 DEF ReadEpoch, LeaveCritical, Unlock
<1>2. CASE ProcessCallbacks(t) \/ RestoreCritical(t) \/ RereadEpoch(t)
  BY <1>2 DEF ProcessCallbacks, RestoreCritical, RereadEpoch
<1>3. CASE TryLock(t) \/ LookAtFlag(t) \/ CompareEpoch(t) \/ BumpEpoch(t)
  BY <1>3 DEF TryLock, LookAtFlag, CompareEpoch, BumpEpoch
<1>4. CASE UNCHANGED epochs
  BY <1>4
<1>5. QED
  BY <1>1, <1>2, <1>3, <1>4, OnlyQuiescent DEF QuiescentState, UpdateEpoch

\* In qsbr_smr_hybrid.c.
LEMMA ThreadsFrame ==
    ASSUME TypeOK, ControlInv, RcountIsLength, Located, ~Lazy,
           NEW t \in Threads, Step(t), NEW u \in Others(t)
    PROVE  /\ pc'[u] = pc[u] /\ caller'[u] = caller[u] /\ victim'[u] = victim[u]
           /\ slot'[u] = slot[u] /\ idx'[u] = idx[u] /\ plist'[u] = plist[u]
           /\ left'[u] = left[u] /\ rcount'[u] = rcount[u] /\ epoch'[u] = epoch[u]
           /\ limbo_list'[u] = limbo_list[u] /\ vlist'[u] = vlist[u] /\ pool'[u] = pool[u]
<1>dom. /\ DOMAIN victim = Threads /\ DOMAIN slot = Threads /\ DOMAIN plist = Threads
        /\ DOMAIN left = Threads /\ DOMAIN rcount = Threads
        /\ DOMAIN limbo_list = Threads /\ DOMAIN vlist = Threads /\ DOMAIN pool = Threads
        /\ u \in Threads /\ u # t
  BY DEF TypeOK, Others
<1>1. /\ victim'[u] = victim[u] /\ rcount'[u] = rcount[u] /\ vlist'[u] = vlist[u]
      /\ limbo_list'[u] = limbo_list[u] /\ pool'[u] = pool[u]
  <2>1. CASE Stays
    BY <2>1 DEF Stays
  <2>2. CASE \E n \in Nodes : Insert(t, n) \/ Unlink(t, n)
    BY <1>dom, <2>2 DEF Insert, Unlink, lists, rotating
  <2>3. CASE Retires(t)
    BY <1>dom, <2>3 DEF Retires
  <2>4. ASSUME NEW S, Frees(t, S)
        PROVE  /\ victim'[u] = victim[u] /\ rcount'[u] = rcount[u] /\ vlist'[u] = vlist[u]
               /\ limbo_list'[u] = limbo_list[u] /\ pool'[u] = pool[u]
    BY <1>dom, <2>4 DEF Frees
  <2>5. QED
    BY <2>1, <2>2, <2>3, <2>4, Kinds
<1>2. /\ pc'[u] = pc[u] /\ caller'[u] = caller[u] /\ idx'[u] = idx[u]
      /\ epoch'[u] = epoch[u]
  BY TypesOfEpochs, ControlFrame, EpochsFrame
<1>3. slot'[u] = slot[u] /\ plist'[u] = plist[u] /\ left'[u] = left[u]
  <2> USE <1>dom DEF client, scanner, loops
  <2>1. CASE Operate(t)
    BY <2>1 DEF Operate, Publish, Insert, Unlink, EndOperation, InsertFindsNoNode, StartExit
  <2>2. CASE Validate(t) \/ FreeNodeLater(t) \/ ReadHPcur(t) \/ Rotate(t) \/ ScanStep(t)
    BY <2>2 DEF Validate, FreeNodeLater, ReadHPcur, Rotate, ScanStep
  <2>3. CASE QuiescentState(t)
    BY <2>3, QuiescentMoves DEF still, Return
  <2>4. CASE CallAllocateFail(t) \/ AllocateFail(t) \/ ShowUp(t) \/ ManageHybridState(t)
               \/ AllThreadsPresent(t) \/ SwitchToQSBR(t)
    BY <2>4 DEF CallAllocateFail, AllocateFail, ShowUp, ManageHybridState,
                AllThreadsPresent, SwitchToQSBR
  <2>5. CASE ClearHazardPointer(t) \/ ScanAtExit(t) \/ FinishExit(t)
    BY <2>5 DEF ClearHazardPointer, ScanAtExit, FinishExit
  <2>6. QED
    BY <2>1, <2>2, <2>3, <2>4, <2>5 DEF Step, Proceed
<1>4. QED
  BY <1>1, <1>2, <1>3

\* Nor does it change the slots of others.
LEMMA SlotsFrame ==
    ASSUME TypeOK, ControlInv, NEW t \in Threads, Step(t),
           NEW i \in Slots, i \notin Own(t)
    PROVE  guarded'[i] = guarded[i] /\ HP'[i] = HP[i]
<1>dom. DOMAIN guarded = Slots /\ DOMAIN HP = Slots /\ slot[t] \in Own(t)
  BY DEF TypeOK, ControlInv, ControlOf
<1> USE <1>dom DEF client
<1>1. CASE \E j \in Own(t), n \in Nodes \cup {NULL} : Publish(t, j, n)
  BY <1>1 DEF Publish
<1>2. CASE Validate(t)
  BY <1>2 DEF Validate
<1>3. ASSUME Unguard(t), UNCHANGED HP PROVE guarded'[i] = guarded[i] /\ HP'[i] = HP[i]
  BY <1>3 DEF Unguard
<1>4. CASE ClearHazardPointer(t)
  <2>1. idx[t] \in 0 .. K - 1
    BY <1>4, SlotFacts DEF ClearHazardPointer, Goto, ControlInv, ControlOf, TypeOK
  <2>2. K * t + idx[t] \in Own(t)
    BY <2>1, SlotFacts
  <2>3. QED
    BY <1>4, <2>2 DEF ClearHazardPointer
<1>5. CASE UNCHANGED <<guarded, HP>>
  BY <1>5
<1>6. QED
  BY <1>1, <1>2, <1>3, <1>4, <1>5, QuiescentMoves
     DEF Step, Operate, Proceed, Insert, Unlink, EndOperation, InsertFindsNoNode,
         StartExit, FreeNodeLater, ReadHPcur, Rotate, ScanStep, still,
         CallAllocateFail, AllocateFail, ShowUp, ManageHybridState, AllThreadsPresent,
         SwitchToQSBR, ScanAtExit, FinishExit

LEMMA OwnControlStep ==
    ASSUME TypeOK, ControlInv, RcountIsLength, Located, ~Lazy,
           NEW t \in Threads, Step(t)
    PROVE  ControlOf(t)'
<1>dom. /\ DOMAIN pc = Threads /\ DOMAIN victim = Threads /\ DOMAIN slot = Threads
        /\ DOMAIN idx = Threads /\ DOMAIN caller = Threads /\ DOMAIN left = Threads
        /\ idx[t] \in Nat /\ H \in Nat \ {0} /\ K \in Nat \ {0} /\ NULL \notin Nodes
        /\ Many \in Nat \ {0} /\ Few \in Nat \ {0} /\ N \in Nat \ {0}
        /\ left[t] \in Nat
        /\ \A p \in Quiescent : p \notin {"op", "check", "free", "mark", "rotate", "scan",
              "fail", "failed", "manage", "decide", "present", "switched", "clear", "exit",
              "exited"}
        /\ "read" \in Quiescent \ Locked /\ Locked = {"look", "cmp", "bump", "unlock"}
  BY SlotFacts, NodesAssumption, LimitsAssumption, NAssumption
     DEF TypeOK, Quiescent, Window, Locked
<1>old. ControlOf(t)
  BY DEF ControlInv
<1>vic. vlist[t] = <<>> /\ vlist'[t] = <<>>
  <2>1. vlist' = vlist
    BY Kinds DEF Stays, Insert, Unlink, Retires, Frees, rotating
  <2>2. QED
    BY <1>old, <2>1 DEF ControlOf
<1> USE <1>dom, <1>old, <1>vic DEF ControlOf, Goto, client, scanner, loops, control
<1>1. CASE \E i \in Own(t), n \in Nodes \cup {NULL} : Publish(t, i, n)
  BY <1>1 DEF Publish
<1>2. CASE \E n \in Nodes : Insert(t, n)
  BY <1>2 DEF Insert
<1>3. CASE \E n \in Nodes : Unlink(t, n)
  BY <1>3 DEF Unlink
<1>4. CASE EndOperation(t)
  BY <1>4 DEF EndOperation
<1>5. CASE InsertFindsNoNode(t)
  BY <1>5 DEF InsertFindsNoNode
<1>6. CASE Validate(t)
  BY <1>6 DEF Validate
<1>7. CASE FreeNodeLater(t)
  <2>1. Retires(t) /\ pc'[t] \in {"scan", "op"}
    <3>1. ControlInv
      OBVIOUS
    <3> HIDE DEF ControlOf
    <3>2. QED
      BY <1>7, <3>1, FreeRetires
  <2>2. victim'[t] = NULL
    BY <2>1 DEF Retires
  <2>3. pc[t] = "free" /\ slot' = slot /\ idx' = idx
    BY <1>7 DEF FreeNodeLater
  <2>4. caller'[t] = "free"
    BY <1>7 DEF FreeNodeLater, Enter
  <2>5. QED
    BY <2>1, <2>2, <2>3, <2>4
<1>8. CASE ReadHPcur(t) \/ Rotate(t)
  BY <1>8 DEF ReadHPcur, Rotate
<1>9. CASE ScanStep(t)
  <2>1. pc[t] = "scan" /\ caller[t] \in {"free", "insert", "exit"} /\ UNCHANGED <<victim, slot>>
    BY <1>9 DEF ScanStep, TypeOK, Callers
  <2>2. CASE idx[t] + 1 < H
    BY <1>9, <2>1, <2>2 DEF ScanStep
  <2>3. CASE ~(idx[t] + 1 < H)
    <3>1. idx'[t] = 0
      BY <1>9, <2>3 DEF ScanStep
    <3>2. pc'[t] = AfterScan[caller[t]]
      BY <1>9, <2>3 DEF ScanStep, Enter
    <3>3. pc'[t] \in {"op", "fail", "exit"}
      BY <2>1, <3>2 DEF AfterScan
    <3>4. QED
      BY <2>1, <3>1, <3>3
  <2>4. QED
    BY <2>2, <2>3
<1>10. CASE QuiescentState(t)
  <2>0. EpochTypes
    BY TypesOfEpochs
  <2>1. pc[t] \in Quiescent /\ caller[t] \in {"insert", "loop"} /\ UNCHANGED <<victim, slot>>
    BY <1>10, QuiescentMoves DEF still
  <2>2. /\ pc'[t] \in {"look", "cmp"} => idx'[t] < N
        /\ pc'[t] \in (Quiescent \ Locked) \cup {"op", "fail"} => idx'[t] = 0
    <3> HIDE <1>old DEF ControlOf
    <3>0. /\ pc[t] \in {"look", "cmp"} => idx[t] < N
          /\ pc[t] \in Quiescent \ Locked => idx[t] = 0
      BY <1>old DEF ControlOf
    <3>1. CASE idx' = idx
      <4> USE DEF updater, epochs
      <4>1. CASE ReadEpoch(t) \/ LeaveCritical(t) \/ ProcessCallbacks(t)
                   \/ RestoreCritical(t) \/ RereadEpoch(t)
        <5>1. pc[t] \in Quiescent \ Locked /\ pc'[t] \notin {"look", "cmp"}
          BY <2>1, <4>1, ReturnMoves DEF ReadEpoch, LeaveCritical, ProcessCallbacks,
             RestoreCritical, RereadEpoch, Enter, Quiescent, Window, Locked
        <5>2. QED
          BY <3>0, <3>1, <5>1
      <4>2. CASE TryLock(t)
        <5>1. pc[t] \in Quiescent \ Locked
          BY <4>2 DEF TryLock, Quiescent, Window, Locked
        <5>2. pc'[t] \in {"bump", "restore"} \/ idx[t] \in Threads
          BY <2>0, <3>1, <4>2, LookFromIs DEF TryLock, EpochTypes
        <5>3. QED
          BY <3>0, <3>1, <5>1, <5>2, NAssumption DEF Threads
      <4>3. CASE LookAtFlag(t) \/ CompareEpoch(t)
        <5>1. pc[t] \in {"look", "cmp"} /\ pc'[t] \in Locked
          BY <4>3 DEF LookAtFlag, CompareEpoch, LookFrom, Locked
        <5>2. QED
          BY <3>0, <3>1, <5>1
      <4>4. CASE BumpEpoch(t)
        BY <4>4 DEF BumpEpoch
      <4>5. CASE Unlock(t)
        <5>1. idx'[t] = 0 /\ pc'[t] = "restore"
          BY <4>5 DEF Unlock
        <5>2. QED
          BY <5>1
      <4>6. QED
        BY <1>10, <4>1, <4>2, <4>3, <4>4, <4>5 DEF QuiescentState, UpdateEpoch
    <3>2. CASE Unlock(t) /\ idx' = [idx EXCEPT ![t] = 0]
      BY <3>2 DEF Unlock
    <3>3. ASSUME NEW j \in Threads \ {t},
                 pc' = [pc EXCEPT ![t] = "look"], idx' = [idx EXCEPT ![t] = j]
          PROVE  pc'[t] = "look" /\ idx'[t] < N
      BY <3>3 DEF Threads
    <3>4. QED
      BY <1>10, <2>0, <3>1, <3>2, <3>3, QuiescentIdx
  <2>3. CASE Return(t)
    <3>1. PICK p \in {"read", "op", "fail"}, c \in {"insert", "loop"} :
             Enter(t, p, c) /\ (p = "read" => left[t] > 1)
      BY <2>1, <2>3, ReturnMoves
    <3>2. pc'[t] = p /\ caller'[t] = c /\ left'[t] = left[t] - 1
      BY <2>3, <3>1 DEF Enter, Return
    <3>3. CASE p = "read"
      BY <2>1, <2>2, <3>1, <3>2, <3>3
    <3>4. CASE p # "read"
      <4>0. pc'[t] \in {"op", "fail"}
        BY <3>1, <3>2, <3>4
      <4>1. idx'[t] = 0 /\ pc'[t] \notin Quiescent
        BY <2>2, <4>0 DEF Quiescent, Window, Locked
      <4>2. victim'[t] = NULL /\ slot'[t] \in Own(t)
        BY <2>1
      <4>3. QED
        BY <4>0, <4>1, <4>2
    <3>5. QED
      BY <3>3, <3>4
  <2>4. CASE (\E p \in Quiescent \ {"read"} : pc' = [pc EXCEPT ![t] = p])
               /\ UNCHANGED <<caller, left>>
    <3>1. pc'[t] \in Quiescent
      BY <2>4
    <3>2. QED
      BY <2>1, <2>2, <2>4, <3>1
  <2>5. QED
    BY <1>10, <2>3, <2>4, QuiescentMoves
<1>11. CASE CallAllocateFail(t)
  BY <1>11 DEF CallAllocateFail
<1>12. CASE AllocateFail(t)
  <2>1. pc[t] = "failed" /\ UNCHANGED <<victim, slot, idx>> /\ caller'[t] = "insert"
    BY <1>12 DEF AllocateFail, Enter
  <2>2. pc'[t] = "scan" \/ (pc'[t] = "read" /\ left'[t] \in {Many, 1})
    BY <1>12 DEF AllocateFail, Enter
  <2>3. QED
    BY <2>1, <2>2
<1>13. CASE ShowUp(t) \/ ManageHybridState(t)
  BY <1>13 DEF ShowUp, ManageHybridState, Enter
<1>14. CASE AllThreadsPresent(t)
  BY <1>14 DEF AllThreadsPresent
<1>15. CASE SwitchToQSBR(t)
  BY <1>15 DEF SwitchToQSBR, Enter
<1>16. CASE StartExit(t)
  BY <1>16 DEF StartExit
<1>17. CASE ClearHazardPointer(t)
  BY <1>17 DEF ClearHazardPointer
<1>18. CASE ScanAtExit(t)
  BY <1>18 DEF ScanAtExit, Enter
<1>19. CASE FinishExit(t)
  BY <1>19 DEF FinishExit
<1>20. QED
  BY <1>1, <1>2, <1>3, <1>4, <1>5, <1>6, <1>7, <1>8, <1>9, <1>10, <1>11, <1>12,
     <1>13, <1>14, <1>15, <1>16, <1>17, <1>18, <1>19 DEF Step, Operate, Proceed

LEMMA ControlStep ==
    ASSUME TypeOK, ControlInv, RcountIsLength, Located, ~Lazy,
           NEW t \in Threads, Step(t)
    PROVE  ControlInv'
<1>1. ASSUME NEW u \in Others(t) PROVE ControlOf(u)'
  <2>1. ControlOf(u)
    BY DEF ControlInv, Others
  <2>2. QED
    BY <2>1, ThreadsFrame DEF ControlOf
<1>2. QED
  BY <1>1, OwnControlStep DEF ControlInv, Others

-----------------------------------------------------------------------------
(* Places.                                                                 *)

LEMMA SameLists ==
    ASSUME NEW u \in Threads, limbo_list'[u] = limbo_list[u]
    PROVE  Limbo(u)' = Limbo(u) /\ \A e \in Epochs : At(u, e)' = At(u, e)
BY DEF Limbo, At

\* The nodes in a thread's lists after a step.
LEMMA LimboAfter ==
    ASSUME TypeOK, NEW t \in Threads
    PROVE  /\ Retires(t) => Limbo(t)' = Limbo(t) \cup {victim[t]}
           /\ \A S : Frees(t, S) => Limbo(t)' = Limbo(t) \ S
<1>0. /\ \A n : n \in Limbo(t) <=> \E e \in Epochs : n \in At(t, e)
      /\ \A n : n \in Limbo(t)' <=> \E e \in Epochs : n \in At(t, e)'
  BY DEF Limbo, At
<1>1. ASSUME Retires(t) PROVE Limbo(t)' = Limbo(t) \cup {victim[t]}
  <2>1. epoch[t] \in Epochs
    BY DEF TypeOK
  <2>2. \A e \in Epochs :
           At(t, e)' = IF e = epoch[t] THEN At(t, e) \cup {victim[t]} ELSE At(t, e)
    BY <1>1 DEF Retires
  <2>3. \A n : n \in Limbo(t)' <=> n \in Limbo(t) \cup {victim[t]}
    BY <1>0, <2>1, <2>2
  <2>4. QED
    BY <2>3
<1>2. ASSUME NEW S, Frees(t, S) PROVE Limbo(t)' = Limbo(t) \ S
  <2>1. \A e \in Epochs : At(t, e)' = At(t, e) \ S
    BY <1>2 DEF Frees
  <2>2. \A n : n \in Limbo(t)' <=> n \in Limbo(t) \ S
    BY <1>0, <2>1
  <2>3. QED
    BY <2>2
<1>3. QED
  BY <1>1, <1>2

\* What changes in the places of nodes: t's own, one way of these.
LEMMA PlacesOfStep ==
    ASSUME TypeOK, ControlInv, RcountIsLength, Located, ~Lazy,
           NEW t \in Threads, Step(t)
    PROVE  \/ Stays
           \/ \E n \in Nodes : /\ Insert(t, n) /\ n \in pool[t]
                               /\ linked' = linked \cup {n} /\ pool'[t] = pool[t] \ {n}
                               /\ victim'[t] = victim[t]
                               /\ UNCHANGED <<limbo_list, rcount>>
           \/ \E n \in Nodes : /\ Unlink(t, n) /\ n \in linked /\ n \in Held(t)
                               /\ linked' = linked \ {n} /\ victim'[t] = n
                               /\ pool'[t] = pool[t] /\ victim[t] = NULL
                               /\ UNCHANGED <<limbo_list, rcount>>
           \/ /\ FreeNodeLater(t) /\ Retires(t) /\ victim[t] \in Nodes /\ victim'[t] = NULL
              /\ linked' = linked /\ pool'[t] = pool[t]
           \/ \E S \in SUBSET Limbo(t) :
                 /\ Frees(t, S)
                 /\ \/ LastOfScan(t) /\ S = Swept(t)
                    \/ ProcessCallbacks(t) /\ S = Passed(t)
                 /\ linked' = linked /\ victim'[t] = victim[t]
                 /\ pool'[t] = pool[t] \cup S
<1>dom. DOMAIN pool = Threads /\ DOMAIN victim = Threads
  BY DEF TypeOK
<1>1. ASSUME NEW n \in Nodes, Insert(t, n)
      PROVE  /\ n \in pool[t]
             /\ linked' = linked \cup {n} /\ pool'[t] = pool[t] \ {n}
             /\ victim'[t] = victim[t]
             /\ UNCHANGED <<limbo_list, rcount>>
  BY <1>dom, <1>1 DEF Insert, lists
<1>2. ASSUME NEW n \in Nodes, Unlink(t, n)
      PROVE  /\ n \in linked /\ n \in Held(t)
             /\ linked' = linked \ {n} /\ victim'[t] = n
             /\ pool'[t] = pool[t] /\ victim[t] = NULL
             /\ UNCHANGED <<limbo_list, rcount>>
  BY <1>dom, <1>2 DEF Unlink, Goto, ControlInv, ControlOf, lists
<1>3. ASSUME FreeNodeLater(t), Retires(t)
      PROVE  /\ victim[t] \in Nodes /\ victim'[t] = NULL
             /\ linked' = linked /\ pool'[t] = pool[t]
  BY <1>dom, <1>3 DEF Retires
<1>4. ASSUME NEW S, Frees(t, S)
      PROVE  /\ S \in SUBSET Limbo(t) /\ linked' = linked /\ victim'[t] = victim[t]
             /\ pool'[t] = pool[t] \cup S
  BY <1>dom, <1>4 DEF Frees
<1>5. QED
  BY <1>1, <1>2, <1>3, <1>4, Kinds

LEMMA PlaceStep ==
    ASSUME TypeOK, ControlInv, RcountIsLength, Located, ~Lazy,
           NEW t \in Threads, Step(t)
    PROVE  Located'
<1> SUFFICES ASSUME NEW n \in Nodes PROVE NotTwice(n)'
  BY DEF Located
<1>old. NotTwice(n) /\ \A m \in Nodes : NotTwice(m)
  BY DEF Located
<1>null. NULL \notin Nodes
  BY NodesAssumption
<1>others. \A u \in Threads : u # t =>
              /\ pool'[u] = pool[u] /\ victim'[u] = victim[u] /\ Limbo(u)' = Limbo(u)
              /\ \A e \in Epochs : At(u, e)' = At(u, e)
  BY ThreadsFrame, SameLists DEF Others
<1>types. /\ epoch[t] \in Epochs
          /\ \A u \in Threads : \A e \in Epochs : At(u, e) \subseteq Limbo(u)
  BY LimboIs DEF TypeOK
<1>0. ASSUME limbo_list' = limbo_list
      PROVE  \A u \in Threads : /\ Limbo(u)' = Limbo(u)
                                /\ \A e \in Epochs : At(u, e)' = At(u, e)
  BY <1>0, SameLists
<1>1. CASE Stays
  <2>1. UNCHANGED <<linked, pool, victim, limbo_list>>
    BY <1>1 DEF Stays
  <2>2. QED
    BY <1>0, <1>old, <2>1 DEF NotTwice
<1>2. ASSUME NEW m \in Nodes, m \in pool[t], linked' = linked \cup {m},
             pool'[t] = pool[t] \ {m}, victim'[t] = victim[t],
             UNCHANGED <<limbo_list, rcount>>
      PROVE  NotTwice(n)'
  BY <1>0, <1>2, <1>old, <1>others DEF NotTwice
<1>3. ASSUME NEW m \in Nodes, m \in linked, linked' = linked \ {m},
             victim'[t] = m, pool'[t] = pool[t], victim[t] = NULL,
             UNCHANGED <<limbo_list, rcount>>
      PROVE  NotTwice(n)'
  BY <1>0, <1>3, <1>old, <1>others DEF NotTwice
<1>4. CASE /\ Retires(t) /\ victim[t] \in Nodes /\ victim'[t] = NULL
           /\ linked' = linked /\ pool'[t] = pool[t]
  <2>1. Limbo(t)' = Limbo(t) \cup {victim[t]}
    BY <1>4, LimboAfter
  <2>2. \A e \in Epochs :
           At(t, e)' = IF e = epoch[t] THEN At(t, e) \cup {victim[t]} ELSE At(t, e)
    BY <1>4 DEF Retires
  <2>3. victim[t] \notin Limbo(t)
    BY <1>4, <1>old DEF NotTwice
  <2>4. \A u \in Threads, e, f \in Epochs : n \in At(u, e)' /\ n \in At(u, f)' => e = f
    <3>1. ASSUME NEW e \in Epochs, NEW f \in Epochs, n \in At(t, e)', n \in At(t, f)'
          PROVE  e = f
      <4>1. CASE n = victim[t]
        BY <1>types, <2>2, <2>3, <3>1, <4>1
      <4>2. CASE n # victim[t]
        BY <1>old, <2>2, <3>1, <4>2 DEF NotTwice
      <4>3. QED
        BY <4>1, <4>2
    <3>2. QED
      BY <1>old, <1>others, <3>1 DEF NotTwice
  <2>5. QED
    BY <1>4, <1>old, <1>others, <1>null, <2>1, <2>4 DEF NotTwice
<1>5. ASSUME NEW S \in SUBSET Limbo(t), Frees(t, S), linked' = linked,
             victim'[t] = victim[t], pool'[t] = pool[t] \cup S
      PROVE  NotTwice(n)'
  <2>1. Limbo(t)' = Limbo(t) \ S
    BY <1>5, LimboAfter
  <2>2. \A e \in Epochs : At(t, e)' = At(t, e) \ S
    BY <1>5 DEF Frees
  <2>3. QED
    BY <1>5, <1>old, <1>others, <2>1, <2>2 DEF NotTwice
<1>6. QED
  BY <1>1, <1>2, <1>3, <1>4, <1>5, PlacesOfStep

LEMMA RcountStep ==
    ASSUME TypeOK, ControlInv, ControlInv', RcountIsLength, Located, ~Lazy,
           NEW t \in Threads, Step(t)
    PROVE  RcountIsLength'
<1>1. \A u \in Threads : RetiredBy(u) = Limbo(u) /\ rcount[u] = Cardinality(Limbo(u))
  BY RetiredIsLimbo DEF ControlInv, ControlOf, RcountIsLength
<1>2. \A u \in Threads : RetiredBy(u)' = Limbo(u)'
  <2>1. ToSet(<<>>) = {}
    BY DEF ToSet
  <2>2. QED
    BY <2>1 DEF ControlInv, ControlOf, RetiredBy
<1>3. ASSUME NEW u \in Others(t) PROVE rcount'[u] = Cardinality(Limbo(u)')
  <2>1. rcount'[u] = rcount[u] /\ Limbo(u)' = Limbo(u)
    BY <1>3, ThreadsFrame, SameLists DEF Others
  <2>2. QED
    BY <1>1, <2>1 DEF Others
<1>4. rcount'[t] = Cardinality(Limbo(t)')
  <2>dom. DOMAIN rcount = Threads
    BY DEF TypeOK
  <2>1. CASE UNCHANGED <<limbo_list, rcount>>
    BY <1>1, <2>1, SameLists
  <2>2. CASE Retires(t)
    <3>1. Limbo(t)' = Limbo(t) \cup {victim[t]} /\ rcount'[t] = rcount[t] + 1
      BY <2>dom, <2>2, LimboAfter DEF Retires
    <3>2. victim[t] \notin Limbo(t)
      BY <2>2 DEF Retires, Located, NotTwice
    <3>3. IsFiniteSet(Limbo(t))
      BY LimboIs
    <3>4. Cardinality(Limbo(t) \cup {victim[t]}) = Cardinality(Limbo(t)) + 1
      BY <3>2, <3>3, FS_AddElement
    <3>5. QED
      BY <1>1, <3>1, <3>4
  <2>3. ASSUME NEW S, Frees(t, S) PROVE rcount'[t] = Cardinality(Limbo(t)')
    BY <2>dom, <2>3, LimboAfter DEF Frees
  <2>4. QED
    BY <2>1, <2>2, <2>3, Kinds DEF Stays, Insert, Unlink, lists
<1>5. QED
  BY <1>2, <1>3, <1>4 DEF RcountIsLength, Others

-----------------------------------------------------------------------------
(* Guards.                                                                 *)

\* A thread takes up a reference to a linked node only, and stores to a slot only
\* what it does not dereference.
LEMMA GuardsOfStep ==
    ASSUME TypeOK, ControlInv, AwayGuardsNothing, NEW t \in Threads, Step(t),
           NEW i \in Slots
    PROVE  /\ \/ guarded'[i] = guarded[i]
              \/ guarded'[i] = NULL
              \/ /\ guarded'[i] \in linked /\ guarded'[i] = HP[i]
                 /\ linked' = linked /\ limbo_list' = limbo_list
           /\ guarded'[i] # NULL => HP'[i] = HP[i]
<1>dom. DOMAIN guarded = Slots /\ DOMAIN HP = Slots /\ slot[t] \in Own(t)
  BY DEF TypeOK, ControlInv, ControlOf
<1> USE <1>dom DEF client, lists
<1>1. CASE \E j \in Own(t), n \in Nodes \cup {NULL} : Publish(t, j, n)
  BY <1>1 DEF Publish
<1>2. CASE Validate(t)
  BY <1>2 DEF Validate
<1>3. CASE Unguard(t) /\ UNCHANGED HP
  BY <1>3 DEF Unguard
<1>4. CASE ClearHazardPointer(t)
  <2>1. /\ idx[t] \in 0 .. K - 1 /\ pc[t] = "clear"
        /\ guarded' = guarded /\ HP' = [HP EXCEPT ![K * t + idx[t]] = NULL]
    BY <1>4, SlotFacts DEF ClearHazardPointer, Goto, ControlInv, ControlOf, TypeOK
  <2>a. \A j \in Own(t) : guarded[j] = NULL
    BY <2>1 DEF AwayGuardsNothing, Away
  <2> DEFINE j == K * t + idx[t]
  <2>2. j \in Own(t) /\ HP' = [HP EXCEPT ![j] = NULL] /\ guarded' = guarded
    BY <2>1, SlotFacts
  <2> HIDE DEF j
  <2>3. QED
    BY <2>a, <2>2
<1>5. CASE UNCHANGED <<guarded, HP>>
  BY <1>5
<1>6. QED
  BY <1>1, <1>2, <1>3, <1>4, <1>5, QuiescentMoves
     DEF Step, Operate, Proceed, Insert, Unlink, EndOperation, InsertFindsNoNode,
         StartExit, FreeNodeLater, ReadHPcur, Rotate, ScanStep, still,
         CallAllocateFail, AllocateFail, ShowUp, ManageHybridState, AllThreadsPresent,
         SwitchToQSBR, ScanAtExit, FinishExit

LEMMA PublishedStep ==
    ASSUME TypeOK, ControlInv, AwayGuardsNothing, GuardsArePublished, ~Lazy, ~KeepsNodes,
           NEW t \in Threads, Step(t)
    PROVE  GuardsArePublished'
<1>1. ASSUME NEW i \in Slots, guarded'[i] # NULL PROVE HP'[i] = guarded'[i]
  BY <1>1, GuardsOfStep DEF GuardsArePublished
<1>2. QED
  BY <1>1 DEF GuardsArePublished

LEMMA AwayStep ==
    ASSUME TypeOK, ControlInv, RcountIsLength, Located, AwayGuardsNothing, ~Lazy, ~KeepsNodes,
           NEW t \in Threads, Step(t)
    PROVE  AwayGuardsNothing'
<1>1. ASSUME NEW u \in Others(t), Away(u)' PROVE \A i \in Own(u) : guarded'[i] = NULL
  <2>1. Away(u) /\ u \in Threads /\ u # t
    BY <1>1, ThreadsFrame DEF Away, Others
  <2>2. \A i \in Own(u) : i \in Slots /\ i \notin Own(t)
    BY <2>1, SlotFacts, OwnDisjoint
  <2>3. QED
    BY <2>1, <2>2, SlotsFrame DEF AwayGuardsNothing
<1>2. ASSUME Away(t)' PROVE \A i \in Own(t) : guarded'[i] = NULL
  <2>own. \A i \in Own(t) : i \in Slots
    BY SlotFacts
  <2>1. CASE Unguard(t)
    BY <2>1, <2>own DEF Unguard
  <2>2. CASE Away(t) /\ UNCHANGED guarded
    BY <2>2 DEF AwayGuardsNothing
  <2>dom. /\ DOMAIN pc = Threads /\ DOMAIN caller = Threads
          /\ pc[t] \in Quiescent => Away(t)
          /\ {"op", "check", "free"} \cap Quiescent = {}
    BY DEF TypeOK, Away, Quiescent, Window, Locked
  <2>3. CASE Operate(t)
    <3>1. pc'[t] = "check" \/ pc'[t] = "op" \/ pc'[t] = "free" \/ Unguard(t)
      BY <2>3, <2>dom DEF Operate, Publish, Insert, Unlink, EndOperation,
         InsertFindsNoNode, StartExit, Goto
    <3>2. Unguard(t)
      BY <1>2, <2>dom, <3>1 DEF Away
    <3>3. QED
      BY <2>1, <3>2
  <2>4. CASE Validate(t)
    BY <1>2, <2>4, <2>dom DEF Validate, Goto, Away
  <2>5. CASE FreeNodeLater(t)
    <3>1. pc'[t] \in {"scan", "op"}
      BY <2>5, FreeRetires
    <3>2. caller'[t] = "free"
      BY <2>5, <2>dom DEF FreeNodeLater, Enter
    <3>3. QED
      BY <1>2, <3>1, <3>2 DEF Away, Quiescent, Window, Locked
  <2>6. CASE ReadHPcur(t) \/ Rotate(t)
    BY <2>6 DEF ReadHPcur, Rotate, Goto, ControlInv, ControlOf
  <2>7. CASE ScanStep(t)
    <3>1. pc[t] = "scan" /\ UNCHANGED guarded /\ caller[t] \in {"free", "insert", "exit"}
      BY <2>7 DEF ScanStep, ControlInv, ControlOf, TypeOK, Callers
    <3>2. CASE caller[t] # "free"
      BY <2>2, <3>1, <3>2 DEF Away
    <3>3. CASE caller[t] = "free"
      <4>1. CASE UNCHANGED <<pc, caller>>
        BY <1>2, <3>1, <3>3, <4>1 DEF Away, Quiescent, Window, Locked
      <4>2. CASE Enter(t, AfterScan[caller[t]], "loop")
        <5>1. pc'[t] = "op"
          BY <2>dom, <3>3, <4>2 DEF Enter, AfterScan
        <5>2. QED
          BY <1>2, <2>dom, <5>1 DEF Away
      <4>3. QED
        BY <2>7, <4>1, <4>2 DEF ScanStep
    <3>4. QED
      BY <3>2, <3>3
  <2>8. CASE QuiescentState(t) \/ CallAllocateFail(t) \/ AllocateFail(t) \/ ShowUp(t)
               \/ ManageHybridState(t) \/ AllThreadsPresent(t) \/ SwitchToQSBR(t)
    <3>1. Away(t) /\ UNCHANGED guarded
      BY <2>dom, <2>8, QuiescentMoves DEF still, CallAllocateFail, AllocateFail, ShowUp,
         ManageHybridState, AllThreadsPresent, SwitchToQSBR, Goto, client, Away
    <3>2. QED
      BY <2>2, <3>1
  <2>9. CASE ClearHazardPointer(t) \/ ScanAtExit(t) \/ FinishExit(t)
    <3>1. Away(t) /\ UNCHANGED guarded
      BY <2>9 DEF ClearHazardPointer, ScanAtExit, FinishExit, Goto, client, Away
    <3>2. QED
      BY <2>2, <3>1
  <2>10. QED
    BY <2>3, <2>4, <2>5, <2>6, <2>7, <2>8, <2>9 DEF Step, Proceed
<1>3. QED
  BY <1>1, <1>2 DEF AwayGuardsNothing, Others

-----------------------------------------------------------------------------
(* Scans.                                                                  *)

\* A node in a limbo list that is dereferenced after a step was so before it.
LEMMA GuardWasThere ==
    ASSUME TypeOK, ControlInv, RcountIsLength, Located, AwayGuardsNothing, NoUseAfterFree,
           ~Lazy, ~KeepsNodes, Located', NEW t \in Threads, Step(t), NEW i \in Slots,
           NEW u \in Threads, guarded'[i] \in Limbo(u)', guarded'[i] \in Nodes
    PROVE  guarded'[i] = guarded[i]
<1> DEFINE n == guarded'[i]
<1>1. n # NULL
  BY NodesAssumption
<1>2. \/ n = guarded[i]
      \/ n \in linked /\ linked' = linked
  BY <1>1, GuardsOfStep
<1> HIDE DEF n
<1>3. n \in Nodes /\ n \in Limbo(u)'
  BY DEF n
<1>4. n \notin linked'
  BY <1>3 DEF Located, NotTwice
<1>5. QED
  BY <1>2, <1>4 DEF n

LEMMA ScanInvStep ==
    ASSUME TypeOK, TypeOK', ControlInv, ControlInv', RcountIsLength, Located, Located',
           GuardsArePublished, AwayGuardsNothing, NoUseAfterFree, ScanInv, ~Lazy, ~KeepsNodes,
           NEW t \in Threads, Step(t)
    PROVE  ScanInv'
<1> SUFFICES ASSUME NEW u \in Threads, pc'[u] = "scan", NEW i \in Slots,
                    i < idx'[u], guarded'[i] \in Limbo(u)'
             PROVE  guarded'[i] \in plist'[u]
  BY DEF ScanInv
<1>1. guarded'[i] \in Nodes
  <2>1. PICK e \in Epochs : guarded'[i] \in ToSet(limbo_list'[u][e])
    BY DEF Limbo
  <2>2. limbo_list'[u][e] \in Seq(Nodes)
    BY DEF TypeOK
  <2>3. QED
    BY <2>1, <2>2, SeqFacts
<1>2. guarded'[i] = guarded[i]
  BY <1>1, GuardWasThere
<1>3. CASE u # t
  <2>1. pc[u] = "scan" /\ idx'[u] = idx[u] /\ plist'[u] = plist[u] /\ Limbo(u)' = Limbo(u)
    BY <1>3, ThreadsFrame, SameLists DEF Others
  <2>2. QED
    BY <1>2, <2>1 DEF ScanInv
<1>4. CASE u = t /\ pc[t] = "scan"
  <2>1. ScanStep(t)
    <3>1. ~QuiescentState(t)
      BY <1>4, QuiescentMoves DEF Quiescent, Window, Locked
    <3>2. QED
      BY <1>4, <3>1 DEF Step, Operate, Proceed, Goto, Publish, Insert, Unlink, EndOperation,
         InsertFindsNoNode, StartExit, Validate, FreeNodeLater, ReadHPcur, Rotate,
         CallAllocateFail, AllocateFail, ShowUp, ManageHybridState,
         AllThreadsPresent, SwitchToQSBR, ClearHazardPointer, ScanAtExit, FinishExit
  <2>2. CASE idx[t] + 1 < H
    <3>1. /\ plist' = [plist EXCEPT ![t] = SeenBy(t)]
          /\ idx' = [idx EXCEPT ![t] = idx[t] + 1]
          /\ UNCHANGED limbo_list
      BY <2>1, <2>2 DEF ScanStep, SeenBy, lists
    <3>2. plist'[t] = SeenBy(t) /\ idx'[t] = idx[t] + 1 /\ Limbo(t)' = Limbo(t)
      BY <3>1, SameLists DEF TypeOK
    <3>3. idx[t] \in Nat /\ i \in Nat
      BY SlotFacts DEF TypeOK, Slots
    <3>4. i < idx[t] \/ i = idx[t]
      BY <1>4, <3>2, <3>3
    <3>5. CASE i < idx[t]
      <4>1. guarded[i] \in plist[t]
        BY <1>2, <1>4, <3>2, <3>5 DEF ScanInv
      <4>2. QED
        BY <1>2, <1>4, <3>2, <4>1 DEF SeenBy
    <3>6. CASE i = idx[t]
      <4>1. HP[i] = guarded[i] /\ guarded[i] # NULL
        BY <1>1, <1>2, NodesAssumption DEF GuardsArePublished
      <4>2. QED
        BY <1>2, <1>4, <3>2, <3>6, <4>1 DEF SeenBy
    <3>7. QED
      BY <3>4, <3>5, <3>6
  <2>3. CASE ~(idx[t] + 1 < H)
    <3>1. idx'[t] = 0
      BY <2>1, <2>3 DEF ScanStep, TypeOK
    <3>2. i \in Nat
      BY SlotFacts DEF Slots
    <3>3. QED
      BY <1>4, <3>1, <3>2
  <2>4. QED
    BY <2>2, <2>3
<1>5. CASE u = t /\ pc[t] # "scan"
  <2>1. idx'[t] = 0
    <3>1. CASE FreeNodeLater(t)
      BY <1>5, <3>1 DEF FreeNodeLater, scanner, Locked, ControlInv, ControlOf
    <3>2. CASE AllocateFail(t)
      BY <1>5, <3>2 DEF AllocateFail, scanner, Locked, ControlInv, ControlOf
    <3>3. CASE ScanAtExit(t)
      BY <1>5, <3>3 DEF ScanAtExit, scanner, Locked, ControlInv, ControlOf
    <3>4. FreeNodeLater(t) \/ AllocateFail(t) \/ ScanAtExit(t)
      <4>dom. DOMAIN pc = Threads /\ pc'[t] = "scan" /\ pc[t] # "scan"
        BY <1>5 DEF TypeOK
      <4>1. ~Operate(t)
        BY <4>dom DEF Operate, Publish, Insert, Unlink, EndOperation,
           InsertFindsNoNode, StartExit, Goto, control
      <4>2. ~Validate(t) /\ ~ReadHPcur(t) /\ ~Rotate(t) /\ ~ScanStep(t)
        BY <4>dom DEF Validate, ReadHPcur, Rotate, ScanStep, Goto
      <4>3. ~QuiescentState(t)
        <5> SUFFICES ASSUME QuiescentState(t) PROVE FALSE
          OBVIOUS
        <5>1. pc[t] \in Quiescent /\ caller[t] \in {"insert", "loop"}
          BY QuiescentMoves DEF ControlInv, ControlOf
        <5>2. pc'[t] \in Quiescent \cup {"op", "fail"}
          BY <4>dom, <5>1, QuiescentMoves, ReturnMoves DEF Enter, Quiescent
        <5>3. QED
          BY <4>dom, <5>2 DEF Quiescent, Window, Locked
      <4>4. ~CallAllocateFail(t) /\ ~ShowUp(t) /\ ~ManageHybridState(t)
              /\ ~AllThreadsPresent(t) /\ ~SwitchToQSBR(t)
        BY <4>dom DEF CallAllocateFail, ShowUp, ManageHybridState, Goto, AllThreadsPresent,
           SwitchToQSBR, Enter
      <4>5. ~ClearHazardPointer(t) /\ ~FinishExit(t)
        BY <4>dom DEF ClearHazardPointer, FinishExit, Goto
      <4>6. QED
        BY <4>1, <4>2, <4>3, <4>4, <4>5 DEF Step, Proceed
    <3>5. QED
      BY <3>1, <3>2, <3>3, <3>4
  <2>2. i \in Nat
    BY SlotFacts DEF Slots
  <2>3. QED
    BY <1>5, <2>1, <2>2
<1>6. QED
  BY <1>3, <1>4, <1>5

\* No slot guards what a scan frees.
LEMMA SweptIsUnguarded ==
    ASSUME TypeOK, ControlInv, GuardsArePublished, ScanInv,
           NEW t \in Threads, LastOfScan(t), NEW i \in Slots
    PROVE  guarded[i] \notin Swept(t)
<1> SUFFICES ASSUME guarded[i] \in Swept(t) PROVE FALSE
  OBVIOUS
<1>1. Swept(t) \subseteq Limbo(t) /\ Swept(t) \cap SeenBy(t) = {}
  BY DEF Swept, FreedOfLimbo
<1>2. guarded[i] \in Limbo(t) /\ guarded[i] # NULL
  BY <1>1, LimboIs, NodesAssumption
<1>3. pc[t] = "scan" /\ ~(idx[t] + 1 < H)
  BY DEF LastOfScan, ScanStep
<1>4. i < idx[t] \/ i = idx[t]
  <2>1. H \in Nat /\ i \in 0 .. H - 1 /\ idx[t] \in 0 .. H - 1
    BY SlotFacts DEF Slots, TypeOK
  <2>2. QED
    BY <1>3, <2>1
<1>5. guarded[i] \in SeenBy(t)
  BY <1>2, <1>3, <1>4 DEF ScanInv, GuardsArePublished, SeenBy
<1>6. QED
  BY <1>1, <1>5

-----------------------------------------------------------------------------
(* Epochs, in both files.                                                  *)

\* Steps outside of quiescent_state enter it at its beginning only.
LEMMA Elsewhere ==
    ASSUME EpochTypes, NEW t \in Threads, Step(t), ~QuiescentState(t)
    PROVE  /\ UNCHANGED epochs /\ pc[t] \notin Quiescent
           /\ pc' \in [Threads -> PCs] /\ caller' \in [Threads -> Callers]
           /\ idx' \in [Threads -> Nat]
           /\ pc'[t] \in Quiescent => pc'[t] = "read" /\ caller'[t] \in {"insert", "loop"}
<1>types. /\ pc \in [Threads -> PCs] /\ caller \in [Threads -> Callers]
          /\ idx \in [Threads -> Nat]
  BY DEF EpochTypes
<1>1. UNCHANGED epochs
  BY OnlyQuiescent
<1> USE <1>types, <1>1 DEF PCs, Callers, Quiescent, Window, Locked, Goto, Enter, scanner, control
<1>2. CASE Operate(t)
  BY <1>2 DEF Operate, Publish, Insert, Unlink, EndOperation, InsertFindsNoNode, StartExit
<1>3. CASE Validate(t) \/ ReadHPcur(t) \/ Rotate(t)
  BY <1>3 DEF Validate, ReadHPcur, Rotate
<1>4. CASE FreeNodeLater(t)
  <2>1. PICK p \in {"mark", "scan", "op"} : Enter(t, p, "free")
    BY <1>4 DEF FreeNodeLater
  <2>2. pc[t] = "free" /\ idx' = idx
    BY <1>4 DEF FreeNodeLater
  <2>3. QED
    BY <2>1, <2>2
<1>5. CASE ScanStep(t)
  <2>1. pc[t] = "scan" /\ (idx' = [idx EXCEPT ![t] = @ + 1] \/ idx' = [idx EXCEPT ![t] = 0])
    BY <1>5 DEF ScanStep
  <2>2. UNCHANGED <<pc, caller>> \/ Enter(t, AfterScan[caller[t]], "loop")
    BY <1>5 DEF ScanStep
  <2>3. AfterScan[caller[t]] \in {"op", "fail", "exit"}
    BY DEF AfterScan
  <2>4. QED
    BY <2>1, <2>2, <2>3
<1>6. CASE CallAllocateFail(t) \/ AllocateFail(t)
  BY <1>6 DEF CallAllocateFail, AllocateFail
<1>7. CASE ShowUp(t) \/ ManageHybridState(t) \/ AllThreadsPresent(t) \/ SwitchToQSBR(t)
  BY <1>7 DEF ShowUp, ManageHybridState, AllThreadsPresent, SwitchToQSBR
<1>8. CASE ClearHazardPointer(t) \/ ScanAtExit(t) \/ FinishExit(t)
  BY <1>8 DEF ClearHazardPointer, ScanAtExit, FinishExit
<1>9. QED
  BY <1>2, <1>3, <1>4, <1>5, <1>6, <1>7, <1>8 DEF Step, Proceed

\* Where a call of quiescent_state returns to.
LEMMA Returns ==
    ASSUME EpochTypes, NEW t \in Threads, CallsOf(t), pc[t] \in Quiescent, Return(t)
    PROVE  /\ pc'[t] \in {"read", "op", "fail"} /\ pc' \in [Threads -> PCs]
           /\ caller'[t] \in {"insert", "loop"} /\ caller' \in [Threads -> Callers]
           /\ seen' = [seen EXCEPT ![t] = 0] /\ res' = [res EXCEPT ![t] = FALSE]
<1>1. caller[t] \in {"insert", "loop"}
  BY DEF CallsOf
<1>2. PICK p \in {"read", "op", "fail"}, c \in {"insert", "loop"} : Enter(t, p, c)
  BY <1>1, ReturnMoves
<1>3. seen' = [seen EXCEPT ![t] = 0] /\ res' = [res EXCEPT ![t] = FALSE]
  BY DEF Return
<1>4. QED
  BY <1>2, <1>3 DEF EpochTypes, Enter, PCs, Quiescent, Callers

LEMMA EpochTypesStep ==
    ASSUME CodeInv, NEW t \in Threads, Step(t)
    PROVE  EpochTypes'
<1>0. EpochTypes /\ CallsOf(t)
  BY DEF CodeInv
<1>1. CASE ~QuiescentState(t)
  BY <1>0, <1>1, Elsewhere DEF EpochTypes, epochs, updater
<1>2. CASE QuiescentState(t)
  <2>1. pc' \in [Threads -> PCs] /\ caller' \in [Threads -> Callers]
    <3>1. CASE Return(t)
      BY <1>0, <1>2, <3>1, QuiescentMoves, Returns
    <3>2. CASE ~Return(t)
      BY <1>0, <1>2, <3>2, QuiescentMoves DEF EpochTypes, PCs
    <3>3. QED
      BY <3>1, <3>2
  <2>2. idx' \in [Threads -> Nat]
    <3>1. Threads \subseteq Nat
      BY DEF Threads
    <3>2. QED
      BY <1>0, <1>2, <3>1, QuiescentIdx DEF EpochTypes
  <2>3. 0 \in Epochs /\ \A e \in Epochs : NextEpoch(e) \in Epochs
    BY EpochFacts
  <2> USE <1>0, <2>1, <2>2, <2>3 DEF EpochTypes
  <2>4. CASE ReadEpoch(t) \/ LeaveCritical(t) \/ Unlock(t)
    BY <2>4 DEF ReadEpoch, LeaveCritical, Unlock, updater
  <2>5. CASE ProcessCallbacks(t) \/ RestoreCritical(t) \/ RereadEpoch(t)
    BY <2>5 DEF ProcessCallbacks, RestoreCritical, RereadEpoch, Return
  <2>6. CASE TryLock(t) \/ LookAtFlag(t) \/ CompareEpoch(t) \/ BumpEpoch(t)
    BY <2>6 DEF TryLock, LookAtFlag, CompareEpoch, BumpEpoch, updater, epochs
  <2>7. QED
    BY <1>2, <2>4, <2>5, <2>6 DEF QuiescentState, UpdateEpoch
<1>3. QED
  BY <1>1, <1>2

\* How quiescent_state moves from line to line.
LEMMA QuiescentPath ==
    ASSUME EpochTypes, NEW t \in Threads, CallsOf(t), QuiescentState(t)
    PROVE  /\ ReadEpoch(t) => pc[t] = "read" /\ pc'[t] \in {"process", "leave"}
           /\ ProcessCallbacks(t) => pc[t] = "process" /\ pc'[t] \in {"read", "op", "fail"}
           /\ LeaveCritical(t) => pc[t] = "leave" /\ pc'[t] = "trylock"
           /\ TryLock(t) => pc[t] = "trylock" /\ pc'[t] \in {"look", "bump", "restore"}
           /\ LookAtFlag(t) => pc[t] = "look" /\ pc'[t] \in {"look", "cmp", "bump"}
           /\ CompareEpoch(t) => pc[t] = "cmp" /\ pc'[t] \in {"look", "unlock", "bump"}
           /\ BumpEpoch(t) => pc[t] = "bump" /\ pc'[t] = "unlock"
           /\ Unlock(t) => pc[t] = "unlock" /\ pc'[t] = "restore"
           /\ RestoreCritical(t) => /\ pc[t] = "restore"
                                    /\ pc'[t] \in {"reread", "read", "op", "fail"}
           /\ RereadEpoch(t) => /\ pc[t] = "reread"
                                /\ pc'[t] \in {"process", "read", "op", "fail"}
<1>1. DOMAIN pc = Threads /\ pc[t] \in Quiescent
  BY QuiescentMoves DEF EpochTypes
<1>2. Return(t) => pc'[t] \in {"read", "op", "fail"}
  BY <1>1, Returns
<1> USE <1>1, <1>2 DEF Goto
<1>3. ReadEpoch(t) => pc[t] = "read" /\ pc'[t] \in {"process", "leave"}
  BY DEF ReadEpoch
<1>4. ProcessCallbacks(t) => pc[t] = "process" /\ pc'[t] \in {"read", "op", "fail"}
  BY DEF ProcessCallbacks
<1>5. LeaveCritical(t) => pc[t] = "leave" /\ pc'[t] = "trylock"
  BY DEF LeaveCritical
<1>6. TryLock(t) => pc[t] = "trylock" /\ pc'[t] \in {"look", "bump", "restore"}
  BY DEF TryLock, LookFrom
<1>7. LookAtFlag(t) => pc[t] = "look" /\ pc'[t] \in {"look", "cmp", "bump"}
  BY DEF LookAtFlag, LookFrom
<1>8. CompareEpoch(t) => pc[t] = "cmp" /\ pc'[t] \in {"look", "unlock", "bump"}
  BY DEF CompareEpoch, LookFrom
<1>9. /\ BumpEpoch(t) => pc[t] = "bump" /\ pc'[t] = "unlock"
      /\ Unlock(t) => pc[t] = "unlock" /\ pc'[t] = "restore"
  BY DEF BumpEpoch, Unlock
<1>10. RestoreCritical(t) => /\ pc[t] = "restore"
                             /\ pc'[t] \in {"reread", "read", "op", "fail"}
  BY DEF RestoreCritical
<1>11. RereadEpoch(t) => /\ pc[t] = "reread"
                         /\ pc'[t] \in {"process", "read", "op", "fail"}
  BY DEF RereadEpoch
<1>12. QED
  BY <1>3, <1>4, <1>5, <1>6, <1>7, <1>8, <1>9, <1>10, <1>11

LEMMA CallsStep ==
    ASSUME CodeInv, NEW t \in Threads, Step(t), NEW u \in Threads
    PROVE  CallsOf(u)'
<1>0. EpochTypes /\ CallsOf(u)
  BY DEF CodeInv
<1>1. CASE u # t
  BY <1>0, <1>1, ControlFrame DEF CallsOf, Others
<1>2. CASE u = t /\ ~QuiescentState(t)
  BY <1>0, <1>2, Elsewhere DEF CallsOf, Quiescent, Window, Locked
<1>3. CASE u = t /\ QuiescentState(t)
  <2>1. pc[t] \in Quiescent /\ caller[t] \in {"insert", "loop"}
    BY <1>0, <1>3, QuiescentMoves DEF CallsOf
  <2>2. caller'[t] \in {"insert", "loop"}
    BY <1>0, <1>3, <2>1, QuiescentMoves, Returns
  <2>3. pc'[t] \in {"look", "cmp"} => idx'[t] \in Threads \ {t}
    <3>1. CASE \E j \in Threads \ {t} :
                  pc' = [pc EXCEPT ![t] = "look"] /\ idx' = [idx EXCEPT ![t] = j]
      BY <1>0, <3>1 DEF EpochTypes
    <3>2. CASE Unlock(t)
      BY <1>0, <1>3, <3>2, QuiescentPath
    <3>3. CASE idx' = idx /\ TryLock(t)
      <4>1. CASE LookFrom(t, 0)
        BY <1>0, <3>3, <4>1, LookFromIs DEF EpochTypes
      <4>2. CASE pc' = [pc EXCEPT ![t] = "restore"]
        BY <1>0, <4>2 DEF EpochTypes
      <4>3. QED
        BY <3>3, <4>1, <4>2 DEF TryLock
    <3>4. CASE idx' = idx /\ ~TryLock(t)
      BY <1>0, <1>3, <3>4, QuiescentPath DEF CallsOf, QuiescentState, UpdateEpoch
    <3>5. QED
      BY <1>0, <1>3, <3>1, <3>2, <3>3, <3>4, QuiescentIdx
  <2>4. QED
    BY <1>3, <2>2, <2>3 DEF CallsOf
<1>4. QED
  BY <1>1, <1>2, <1>3

LEMMA UpdateStep ==
    ASSUME CodeInv, NEW t \in Threads, Step(t)
    PROVE  UpdateIsExclusive'
<1>0. EpochTypes /\ CallsOf(t) /\ UpdateIsExclusive
  BY DEF CodeInv
<1>others. \A u \in Threads \ {t} : pc'[u] = pc[u] /\ curr_epoch'[u] = curr_epoch[u]
  BY <1>0, ControlFrame, EpochsFrame DEF Others
<1> USE DEF Locked
<1>out. ASSUME pc'[t] \notin Locked, UNCHANGED <<update_lock, curr_epoch, global_epoch>>
        PROVE  UpdateIsExclusive'
  BY <1>0, <1>others, <1>out DEF UpdateIsExclusive
<1>1. CASE ~QuiescentState(t)
  BY <1>0, <1>1, <1>out, Elsewhere DEF Quiescent, Window, epochs, updater
<1>2. CASE QuiescentState(t)
  <2>1. CASE \/ ReadEpoch(t) \/ ProcessCallbacks(t) \/ LeaveCritical(t)
             \/ RestoreCritical(t) \/ RereadEpoch(t)
    <3>1. pc'[t] \notin Locked
      BY <1>0, <1>2, <2>1, QuiescentPath
    <3>2. UNCHANGED <<update_lock, curr_epoch, global_epoch>>
      BY <2>1 DEF ReadEpoch, ProcessCallbacks, LeaveCritical, RestoreCritical,
                  RereadEpoch, updater
    <3>3. QED
      BY <3>1, <3>2, <1>out
  <2>2. CASE TryLock(t)
    <3>1. CASE update_lock
      <4>1. /\ pc' = [pc EXCEPT ![t] = "restore"]
            /\ UNCHANGED <<update_lock, curr_epoch, global_epoch>>
        BY <2>2, <3>1 DEF TryLock
      <4>2. QED
        BY <1>0, <1>out, <4>1 DEF EpochTypes
    <3>2. CASE ~update_lock
      <4>1. /\ update_lock' = TRUE /\ global_epoch' = global_epoch
            /\ curr_epoch' = [curr_epoch EXCEPT ![t] = global_epoch]
        BY <2>2, <3>2 DEF TryLock
      <4>2. \A u \in Threads : pc[u] \notin Locked
        BY <1>0, <3>2 DEF UpdateIsExclusive
      <4>3. \A u \in Threads : pc'[u] \in Locked => u = t
        BY <1>others, <4>2
      <4>4. curr_epoch'[t] = global_epoch'
        BY <1>0, <4>1 DEF EpochTypes
      <4>5. QED
        BY <4>1, <4>3, <4>4 DEF UpdateIsExclusive
    <3>3. QED
      BY <3>1, <3>2
  <2>3. CASE LookAtFlag(t) \/ CompareEpoch(t)
    <3>1. pc[t] \in Locked \ {"unlock"} /\ UNCHANGED epochs
      BY <2>3 DEF LookAtFlag, CompareEpoch
    <3>2. \A u \in Threads : /\ pc'[u] \in Locked => pc[u] \in Locked
                             /\ pc'[u] \in Locked \ {"unlock"} => pc[u] \in Locked \ {"unlock"}
      BY <1>others, <3>1
    <3>3. QED
      BY <1>0, <3>1, <3>2 DEF UpdateIsExclusive, epochs, updater
  <2>4. CASE BumpEpoch(t)
    <3>1. pc[t] = "bump" /\ pc'[t] = "unlock" /\ update_lock' = update_lock
      BY <1>0, <1>2, <2>4, QuiescentPath DEF BumpEpoch
    <3>2. \A u \in Threads : pc'[u] \in Locked => u = t
      BY <1>0, <1>others, <3>1 DEF UpdateIsExclusive
    <3>3. update_lock
      BY <1>0, <3>1 DEF UpdateIsExclusive
    <3>4. QED
      BY <3>1, <3>2, <3>3 DEF UpdateIsExclusive
  <2>5. CASE Unlock(t)
    <3>1. pc[t] = "unlock" /\ pc'[t] = "restore"
      BY <1>0, <1>2, <2>5, QuiescentPath
    <3>2. \A u \in Threads : pc'[u] \notin Locked
      BY <1>0, <1>others, <3>1 DEF UpdateIsExclusive
    <3>3. QED
      BY <3>2 DEF UpdateIsExclusive
  <2>6. QED
    BY <1>2, <2>1, <2>2, <2>3, <2>4, <2>5 DEF QuiescentState, UpdateEpoch
<1>3. QED
  BY <1>1, <1>2

LEMMA CriticalStep ==
    ASSUME CodeInv, CriticalInv, NEW t \in Threads, Step(t)
    PROVE  CriticalInv'
<1>0. EpochTypes /\ CallsOf(t) /\ (in_critical[t] <=> pc[t] \notin Window)
  BY DEF CodeInv, CriticalInv
<1>1. ASSUME NEW u \in Threads \ {t} PROVE in_critical'[u] <=> pc'[u] \notin Window
  BY <1>0, <1>1, ControlFrame, EpochsFrame DEF CriticalInv, Others
<1>2. in_critical'[t] <=> pc'[t] \notin Window
  <2> USE <1>0 DEF Window, Locked
  <2>1. CASE ~QuiescentState(t)
    BY <2>1, Elsewhere DEF Quiescent, epochs
  <2>2. CASE QuiescentState(t)
    <3>dom. DOMAIN in_critical = Threads
      BY DEF EpochTypes
    <3>1. CASE ReadEpoch(t) \/ ProcessCallbacks(t) \/ RereadEpoch(t)
      <4>1. in_critical' = in_critical
        BY <3>1 DEF ReadEpoch, ProcessCallbacks, RereadEpoch
      <4>2. QED
        BY <2>2, <3>1, <4>1, QuiescentPath
    <3>2. CASE LeaveCritical(t) \/ RestoreCritical(t)
      <4>1. LeaveCritical(t) => ~in_critical'[t]
        BY <3>dom DEF LeaveCritical
      <4>2. RestoreCritical(t) => in_critical'[t]
        BY <3>dom DEF RestoreCritical
      <4>3. QED
        BY <2>2, <3>2, <4>1, <4>2, QuiescentPath
    <3>3. CASE UpdateEpoch(t)
      <4>1. in_critical' = in_critical
        BY <3>3 DEF UpdateEpoch, TryLock, LookAtFlag, CompareEpoch, BumpEpoch, Unlock, epochs
      <4>2. QED
        BY <2>2, <3>3, <4>1, QuiescentPath DEF UpdateEpoch
    <3>4. QED
      BY <2>2, <3>1, <3>2, <3>3 DEF QuiescentState
  <2>3. QED
    BY <2>1, <2>2
<1>3. QED
  BY <1>1, <1>2 DEF CriticalInv

\* The global epoch moves only when update_epoch has looked at all the others, and
\* the epoch of a thread when it has freed what is old enough.
LEMMA EpochsOfStep ==
    ASSUME CodeInv, NEW t \in Threads, Step(t)
    PROVE  \/ UNCHANGED <<global_epoch, epoch>>
           \/ /\ BumpEpoch(t) /\ pc[t] = "bump" /\ pc'[t] = "unlock" /\ res'[t] = TRUE
              /\ global_epoch' = NextEpoch(global_epoch) /\ UNCHANGED <<epoch, seen>>
           \/ /\ ProcessCallbacks(t) /\ pc[t] = "process"
              /\ epoch' = [epoch EXCEPT ![t] = seen[t]] /\ global_epoch' = global_epoch
<1>0. EpochTypes /\ CallsOf(t)
  BY DEF CodeInv
<1>1. CASE BumpEpoch(t)
  <2>1. pc[t] = "bump" /\ pc'[t] = "unlock"
    BY <1>0, <1>1 DEF BumpEpoch, Goto, EpochTypes
  <2>2. curr_epoch[t] = global_epoch
    BY <2>1 DEF CodeInv, UpdateIsExclusive, Locked
  <2>3. QED
    BY <1>0, <1>1, <2>1, <2>2 DEF BumpEpoch, EpochTypes
<1>2. CASE ProcessCallbacks(t)
  BY <1>2 DEF ProcessCallbacks
<1>3. CASE ReadEpoch(t) \/ LeaveCritical(t) \/ RestoreCritical(t) \/ RereadEpoch(t)
  BY <1>3 DEF ReadEpoch, LeaveCritical, RestoreCritical, RereadEpoch
<1>4. CASE TryLock(t) \/ LookAtFlag(t) \/ CompareEpoch(t) \/ Unlock(t)
  BY <1>4 DEF TryLock, LookAtFlag, CompareEpoch, Unlock, epochs
<1>5. CASE UNCHANGED epochs
  BY <1>5 DEF epochs
<1>6. QED
  BY <1>1, <1>2, <1>3, <1>4, <1>5, OnlyQuiescent DEF QuiescentState, UpdateEpoch


LEMMA LagStep ==
    ASSUME CodeInv, LagInv, LookInv, NEW t \in Threads, Step(t)
    PROVE  LagInv'
<1>types. EpochTypes /\ CallsOf(t)
  BY DEF CodeInv
<1>next. /\ NextEpoch(global_epoch) # global_epoch
         /\ NextEpoch(NextEpoch(global_epoch)) # global_epoch
         /\ NextEpoch(NextEpoch(global_epoch)) # NextEpoch(global_epoch)
  BY <1>types, EpochFacts DEF EpochTypes
<1>1. ASSUME NEW u \in Threads, u # t PROVE LagOf(u)'
  <2>1. /\ pc'[u] = pc[u] /\ epoch'[u] = epoch[u]
        /\ seen'[u] = seen[u] /\ res'[u] = res[u]
    BY <1>types, <1>1, ControlFrame, EpochsFrame DEF Others
  <2>2. LagOf(u)
    BY DEF LagInv
  <2>3. CASE global_epoch' = global_epoch
    BY <2>1, <2>2, <2>3 DEF LagOf
  <2>4. CASE pc[t] = "bump" /\ global_epoch' = NextEpoch(global_epoch)
    <3>1. epoch[u] = global_epoch
      BY <1>1, <2>4 DEF LookInv, LookOf
    <3>2. pc[u] # "process"
      BY <2>2, <3>1 DEF LagOf
    <3>3. QED
      BY <1>next, <2>1, <2>4, <3>1, <3>2 DEF LagOf
  <2>5. QED
    BY <2>3, <2>4, EpochsOfStep
<1>2. LagOf(t)'
  <2>old. LagOf(t) /\ DOMAIN pc = Threads
    BY <1>types DEF LagInv, EpochTypes
  <2> USE <1>types, <1>next, <2>old DEF LagOf
  <2>1. CASE ~QuiescentState(t)
    BY <2>1, Elsewhere DEF Quiescent, Window, Locked, epochs, updater
  <2>2. CASE QuiescentState(t)
    <3>1. CASE ReadEpoch(t) \/ RereadEpoch(t)
      <4>1. /\ global_epoch' = global_epoch /\ epoch' = epoch
            /\ pc'[t] = "process" => seen'[t] = global_epoch /\ epoch[t] # global_epoch
            /\ epoch[t] = NextEpoch(global_epoch) => pc'[t] = "process"
        <5>1. CASE ReadEpoch(t)
          BY <5>1 DEF ReadEpoch, Goto, EpochTypes
        <5>2. CASE RereadEpoch(t)
          <6>1. CASE epoch[t] # global_epoch
            BY <5>2, <6>1 DEF RereadEpoch, EpochTypes
          <6>2. CASE epoch[t] = global_epoch
            <7>1. Return(t) /\ global_epoch' = global_epoch /\ epoch' = epoch
              BY <5>2, <6>2 DEF RereadEpoch
            <7>2. pc'[t] # "process"
              BY <2>2, <7>1, QuiescentMoves, Returns
            <7>3. QED
              BY <6>2, <7>1, <7>2
          <6>3. QED
            BY <6>1, <6>2
        <5>3. QED
          BY <3>1, <5>1, <5>2
      <4>2. pc'[t] \notin {"unlock", "restore"}
        BY <2>2, <3>1, QuiescentPath
      <4>3. QED
        BY <4>1, <4>2
    <3>2. CASE ProcessCallbacks(t)
      <4>1. /\ global_epoch' = global_epoch /\ epoch' = [epoch EXCEPT ![t] = seen[t]]
            /\ pc[t] = "process"
        BY <3>2 DEF ProcessCallbacks
      <4>2. epoch'[t] = global_epoch
        BY <4>1 DEF EpochTypes
      <4>3. pc'[t] # "process"
        BY <2>2, <3>2, QuiescentPath
      <4>4. QED
        BY <4>1, <4>2, <4>3
    <3>3. CASE RestoreCritical(t)
      <4>1. global_epoch' = global_epoch /\ epoch' = epoch
        BY <3>3 DEF RestoreCritical
      <4>2. CASE res[t]
        BY <3>3, <4>1, <4>2 DEF RestoreCritical, Goto
      <4>3. CASE ~res[t]
        BY <2>2, <3>3, <4>1, <4>3, QuiescentPath
      <4>4. QED
        BY <4>2, <4>3
    <3>4. CASE LeaveCritical(t) \/ TryLock(t) \/ LookAtFlag(t) \/ CompareEpoch(t)
      <4>1. global_epoch' = global_epoch /\ epoch' = epoch
        BY <3>4 DEF LeaveCritical, TryLock, LookAtFlag, CompareEpoch, epochs
      <4>2. epoch[t] # NextEpoch(global_epoch) /\ pc'[t] # "process"
        BY <2>2, <3>4, QuiescentPath
      <4>3. QED
        BY <4>1, <4>2
    <3>5. CASE BumpEpoch(t)
      <4>1. /\ pc'[t] = "unlock" /\ res'[t] = TRUE /\ pc[t] = "bump"
            /\ global_epoch' = NextEpoch(global_epoch) /\ epoch' = epoch
        <5>1. pc[t] = "bump" /\ pc'[t] = "unlock"
          BY <2>2, <3>5, QuiescentPath
        <5>2. curr_epoch[t] = global_epoch
          BY <5>1 DEF CodeInv, UpdateIsExclusive, Locked
        <5>3. QED
          BY <3>5, <5>1, <5>2 DEF BumpEpoch, EpochTypes
      <4>2. QED
        BY <4>1
    <3>6. CASE Unlock(t)
      <4>1. pc'[t] = "restore" /\ pc[t] = "unlock"
        BY <2>2, <3>6, QuiescentPath
      <4>2. UNCHANGED <<global_epoch, epoch, res>>
        BY <3>6 DEF Unlock
      <4>3. QED
        BY <4>1, <4>2
    <3>7. QED
      BY <2>2, <3>1, <3>2, <3>3, <3>4, <3>5, <3>6 DEF QuiescentState, UpdateEpoch
  <2>3. QED
    BY <2>1, <2>2
<1>3. QED
  BY <1>1, <1>2 DEF LagInv

\* Whom a timely update_epoch passes has taken over the global epoch.
LEMMA PassedIsTimely ==
    ASSUME CodeInv, CriticalInv, TimelyStep, NEW t \in Threads,
           LookAtFlag(t) \/ CompareEpoch(t), LookFrom(t, idx[t] + 1)
    PROVE  epoch[idx[t]] = global_epoch
<1>1. EpochTypes /\ CallsOf(t)
  BY DEF CodeInv
<1>2. pc[t] \in {"look", "cmp"}
  BY DEF LookAtFlag, CompareEpoch
<1>3. curr_epoch[t] = global_epoch /\ idx[t] \in Threads \ {t}
  BY <1>1, <1>2 DEF CodeInv, UpdateIsExclusive, Locked, CallsOf
<1>4. pc'[t] = "bump" \/ (pc'[t] = "look" /\ idx'[t] # idx[t])
  <2>1. idx[t] + 1 \in Nat /\ idx[t] \in Nat
    BY <1>1 DEF EpochTypes
  <2>2. \/ pc' = [pc EXCEPT ![t] = "bump"]
        \/ \E j \in Threads : /\ pc' = [pc EXCEPT ![t] = "look"]
                              /\ idx' = [idx EXCEPT ![t] = j] /\ idx[t] + 1 <= j
    BY <2>1, LookFromIs
  <2>3. Threads \subseteq Nat
    BY DEF Threads
  <2>4. CASE pc' = [pc EXCEPT ![t] = "bump"]
    BY <1>1, <2>4 DEF EpochTypes
  <2>5. ASSUME NEW j \in Threads, pc' = [pc EXCEPT ![t] = "look"],
               idx' = [idx EXCEPT ![t] = j], idx[t] + 1 <= j
        PROVE  pc'[t] = "look" /\ idx'[t] # idx[t]
    <3>1. pc'[t] = "look" /\ idx'[t] = j
      BY <1>1, <2>5 DEF EpochTypes
    <3>2. j \in Nat /\ j # idx[t]
      BY <2>1, <2>3, <2>5
    <3>3. QED
      BY <3>1, <3>2
  <2>6. QED
    BY <2>2, <2>4, <2>5
<1>5. CASE CompareEpoch(t)
  <2>1. LagsBehind(t) => pc' = [pc EXCEPT ![t] = "unlock"]
    BY <1>5 DEF CompareEpoch
  <2>2. ~LagsBehind(t)
    BY <1>1, <1>4, <2>1 DEF EpochTypes
  <2>3. QED
    BY <1>3, <2>2 DEF LagsBehind
<1>6. CASE LookAtFlag(t)
  <2>1. in_critical[idx[t]] => pc' = [pc EXCEPT ![t] = "cmp"]
    BY <1>6 DEF LookAtFlag
  <2>2. ~in_critical[idx[t]]
    BY <1>1, <1>4, <2>1 DEF EpochTypes
  <2>3. pc[idx[t]] \in Window
    BY <1>3, <2>2 DEF CriticalInv
  <2>4. pc[t] = "look"
    BY <1>6 DEF LookAtFlag
  <2>5. QED
    BY <1>3, <1>4, <2>3, <2>4 DEF TimelyStep
<1>7. QED
  BY <1>5, <1>6

LEMMA LookedAt ==
    ASSUME EpochTypes, NEW t \in Threads, NEW i \in Nat, LookFrom(t, i),
           NEW u \in Threads \ {t}, pc'[t] = "bump" \/ u < idx'[t]
    PROVE  u < i
<1>dom. DOMAIN pc = Threads /\ DOMAIN idx = Threads
  BY DEF EpochTypes
<1>1. ASSUME NEW j \in Threads \ {t}, pc' = [pc EXCEPT ![t] = "look"],
             idx' = [idx EXCEPT ![t] = j], \A v \in Threads \ {t} : v < j => v < i
      PROVE  u < i
  <2>1. pc'[t] = "look" /\ idx'[t] = j
    BY <1>dom, <1>1
  <2>2. QED
    BY <1>1, <2>1
<1>2. QED
  BY <1>1, LookFromIs

LEMMA LookStep ==
    ASSUME EpochInv, CodeInv', TimelyStep, NEW t \in Threads, Step(t)
    PROVE  LookInv'
<1>inv. CodeInv /\ CriticalInv /\ LagInv /\ LookInv /\ EpochTypes /\ CallsOf(t)
  BY DEF EpochInv, CodeInv
<1> SUFFICES ASSUME NEW s \in Threads, pc'[s] \in {"look", "cmp", "bump"},
                    NEW u \in Threads \ {s}, pc'[s] = "bump" \/ u < idx'[s]
             PROVE  epoch'[u] = global_epoch'
  BY DEF LookInv, LookOf
<1>types. \A v \in Threads : v \in Nat /\ idx[v] \in Nat
  BY <1>inv DEF EpochTypes, Threads
<1>1. global_epoch' = global_epoch
  <2>1. SUFFICES ASSUME pc[t] = "bump", pc'[t] = "unlock" PROVE FALSE
    BY <1>inv, EpochsOfStep
  <2>2. s # t
    BY <2>1
  <2>3. pc[s] \in Locked /\ pc[t] \in Locked
    BY <1>inv, <2>1, <2>2, ControlFrame DEF Others, Locked
  <2>4. QED
    BY <1>inv, <2>2, <2>3 DEF CodeInv, UpdateIsExclusive
<1>2. epoch'[u] = epoch[u] \/ epoch'[u] = global_epoch
  <2>1. CASE epoch' = [epoch EXCEPT ![t] = seen[t]] /\ pc[t] = "process"
    BY <1>inv, <2>1 DEF LagInv, LagOf, EpochTypes
  <2>2. QED
    BY <1>inv, <2>1, EpochsOfStep
<1>3. SUFFICES epoch[u] = global_epoch
  BY <1>1, <1>2
<1>4. CASE s # t
  <2>1. pc'[s] = pc[s] /\ idx'[s] = idx[s]
    BY <1>inv, <1>4, ControlFrame DEF Others
  <2>2. QED
    BY <1>inv, <2>1 DEF LookInv, LookOf
<1>5. CASE s = t
  <2>0. QuiescentState(t)
    BY <1>inv, <1>5, Elsewhere DEF Quiescent, Window, Locked
  <2>1. CASE TryLock(t)
    <3>1. LookFrom(t, 0)
      <4>1. pc'[t] # "restore"
        BY <1>5
      <4>2. QED
        BY <1>inv, <2>1, <4>1 DEF TryLock, EpochTypes
    <3>2. u < 0
      BY <1>5, <1>inv, <3>1, LookedAt
    <3>3. QED
      BY <1>types, <3>2
  <2>2. CASE LookAtFlag(t) \/ CompareEpoch(t)
    <3>1. pc[t] \in {"look", "cmp"}
      BY <2>2 DEF LookAtFlag, CompareEpoch
    <3>2. CASE LookFrom(t, idx[t] + 1)
      <4>1. idx[t] + 1 \in Nat
        BY <1>types
      <4>2. u < idx[t] + 1
        BY <1>5, <1>inv, <3>2, <4>1, LookedAt
      <4>3. u < idx[t] \/ u = idx[t]
        BY <1>types, <4>2
      <4>4. CASE u = idx[t]
        BY <1>inv, <2>2, <3>2, <4>4, PassedIsTimely
      <4>5. CASE u < idx[t]
        BY <1>5, <1>inv, <3>1, <4>5 DEF LookInv, LookOf
      <4>6. QED
        BY <4>3, <4>4, <4>5
    <3>3. CASE ~LookFrom(t, idx[t] + 1)
      <4>1. idx' = idx /\ pc'[t] \in {"cmp", "unlock"}
        BY <1>inv, <2>2, <3>3 DEF LookAtFlag, CompareEpoch, EpochTypes
      <4>2. QED
        BY <1>5, <1>inv, <3>1, <4>1 DEF LookInv, LookOf
    <3>4. QED
      BY <3>2, <3>3
  <2>3. QED
    BY <1>5, <1>inv, <2>0, <2>1, <2>2, QuiescentPath DEF QuiescentState, UpdateEpoch
<1>6. QED
  BY <1>4, <1>5

LEMMA EpochStep ==
    ASSUME EpochInv, TimelyStep, NEW t \in Threads, Step(t)
    PROVE  EpochInv'
<1>1. CodeInv'
  BY EpochTypesStep, CallsStep, UpdateStep DEF EpochInv, CodeInv
<1>2. QED
  BY <1>1, CriticalStep, LagStep, LookStep DEF EpochInv

-----------------------------------------------------------------------------
(* Grace periods, in qsbr_smr_hybrid.c.                                    *)

\* Only free_node_later puts a node into a limbo list, that of the thread's epoch.
LEMMA OlderLists ==
    ASSUME TypeOK, ControlInv, RcountIsLength, Located, ~Lazy,
           NEW t \in Threads, Step(t), NEW u \in Threads, NEW e \in Epochs,
           ~FreeNodeLater(t) \/ e # epoch[u] \/ u # t
    PROVE  At(u, e)' \subseteq At(u, e)
<1>1. CASE u # t
  <2>1. limbo_list'[u] = limbo_list[u]
    BY <1>1, ThreadsFrame DEF Others
  <2>2. QED
    BY <2>1, SameLists
<1>2. CASE u = t /\ limbo_list' = limbo_list
  BY <1>2, SameLists
<1>3. CASE u = t /\ FreeNodeLater(t) /\ Retires(t)
  BY <1>3 DEF Retires
<1>4. ASSUME u = t, NEW S, Frees(t, S) PROVE At(u, e)' \subseteq At(u, e)
  BY <1>4 DEF Frees
<1>5. QED
  BY <1>1, <1>2, <1>3, <1>4, Kinds DEF Stays, Insert, Unlink, lists

LEMMA GraceStep ==
    ASSUME TypeOK, TypeOK', ControlInv, RcountIsLength, Located, Located',
           AwayGuardsNothing, NoUseAfterFree, EpochInv, GraceInv, ~Lazy, ~KeepsNodes,
           NEW w \in Threads, Step(w)
    PROVE  GraceInv'
<1> SUFFICES ASSUME NEW t \in Threads, NEW u \in Threads, NEW i \in Own(u),
                    NEW e \in Epochs, guarded'[i] \in At(t, e)'
             PROVE  Waits(t, u, e)'
  BY DEF GraceInv
<1>inv. CodeInv /\ LagInv /\ LookInv
  BY DEF EpochInv
<1>slot. i \in Slots
  BY SlotFacts
<1>next. NextEpoch(global_epoch) # global_epoch
  BY EpochFacts DEF TypeOK
<1>1. guarded[i] = guarded'[i] /\ guarded[i] # NULL
  <2>1. guarded'[i] \in Limbo(t)'
    BY DEF Limbo, At
  <2>2. limbo_list'[t][e] \in Seq(Nodes)
    BY DEF TypeOK
  <2>3. guarded'[i] \in Nodes
    BY <2>2, SeqFacts DEF At
  <2>4. QED
    BY <1>slot, <2>1, <2>3, GuardWasThere, NodesAssumption
<1>2. CASE FreeNodeLater(w) /\ t = w /\ e = epoch[w]
  <2>1. pc[w] = "free" /\ UNCHANGED <<global_epoch, epoch>>
    BY <1>2 DEF FreeNodeLater, epochs
  <2>2. e # NextEpoch(global_epoch)
    BY <1>2, <1>inv, <2>1 DEF LagInv, LagOf
  <2>3. QED
    BY <1>2, <2>1, <2>2 DEF Waits
<1>3. CASE ~(FreeNodeLater(w) /\ t = w /\ e = epoch[w])
  <2>1. At(t, e)' \subseteq At(t, e)
    BY <1>3, OlderLists
  <2>2. Waits(t, u, e)
    BY <1>1, <2>1 DEF GraceInv
  <2>3. CASE UNCHANGED <<global_epoch, epoch>>
    BY <2>2, <2>3 DEF Waits
  <2>4. ASSUME pc[w] \in Quiescent PROVE u # w
    <3>1. Away(w)
      BY <2>4 DEF Away
    <3>2. QED
      BY <1>1, <3>1 DEF AwayGuardsNothing
  <2>5. CASE /\ pc[w] = "bump" /\ epoch' = epoch
             /\ global_epoch' = NextEpoch(global_epoch)
    <3>1. u # w
      BY <2>4, <2>5 DEF Quiescent, Window, Locked
    <3>2. epoch[u] = global_epoch
      BY <1>inv, <2>5, <3>1 DEF LookInv, LookOf
    <3>3. QED
      BY <1>next, <2>2, <2>5, <3>2 DEF Waits
  <2>6. CASE /\ pc[w] = "process" /\ global_epoch' = global_epoch
             /\ epoch' = [epoch EXCEPT ![w] = seen[w]]
    <3>1. u # w
      BY <2>4, <2>6 DEF Quiescent
    <3>2. epoch'[w] = global_epoch /\ \A x \in Threads \ {w} : epoch'[x] = epoch[x]
      BY <1>inv, <2>6 DEF LagInv, LagOf, TypeOK
    <3>3. QED
      BY <2>2, <2>6, <3>1, <3>2 DEF Waits
  <2>7. QED
    BY <1>inv, <2>3, <2>5, <2>6, EpochsOfStep
<1>4. QED
  BY <1>2, <1>3

\* No slot guards what process_callbacks frees.
LEMMA PassedIsUnguarded ==
    ASSUME TypeOK, EpochInv, GraceInv,
           NEW t \in Threads, ProcessCallbacks(t), NEW i \in Slots
    PROVE  guarded[i] \notin Passed(t)
<1> SUFFICES ASSUME guarded[i] \in Passed(t) PROVE FALSE
  OBVIOUS
<1> DEFINE u == Owner(i)
<1>1. u \in Threads /\ i \in Own(u)
  BY SlotFacts
<1> HIDE DEF u
<1>2. seen[t] = global_epoch /\ epoch[t] # global_epoch /\ seen[t] \in Epochs
  BY DEF ProcessCallbacks, EpochInv, LagInv, LagOf, TypeOK
<1>3. Waits(t, u, seen[t])
  BY <1>1, <1>2 DEF GraceInv, Passed
<1>4. QED
  BY <1>2, <1>3 DEF Waits

-----------------------------------------------------------------------------
(* The invariant.                                                          *)

\* Neither a scan nor process_callbacks gives away a node in use.
LEMMA FreedIsUnguarded ==
    ASSUME Inv, NEW t \in Threads, NEW S, NEW i \in Slots,
           \/ LastOfScan(t) /\ S = Swept(t)
           \/ ProcessCallbacks(t) /\ S = Passed(t)
    PROVE  guarded[i] \notin S
BY SweptIsUnguarded, PassedIsUnguarded DEF Inv, Base

LEMMA UseStep ==
    ASSUME Inv, ~Lazy, ~KeepsNodes, NEW t \in Threads, Step(t)
    PROVE  NoUseAfterFree'
<1>inv. /\ TypeOK /\ ControlInv /\ RcountIsLength /\ Located /\ GuardsArePublished
        /\ AwayGuardsNothing /\ NoUseAfterFree
  BY DEF Inv, Base
<1> SUFFICES ASSUME NEW i \in Slots PROVE guarded'[i] \notin Free'
  BY DEF NoUseAfterFree
<1>1. \/ guarded'[i] = guarded[i]
      \/ guarded'[i] = NULL
      \/ guarded'[i] \in linked
  BY <1>inv, GuardsOfStep
<1>2. guarded'[i] \notin Free
  <2>1. NULL \notin Free /\ linked \cap Free = {}
    BY <1>inv, NodesAssumption DEF Free, TypeOK, Located, NotTwice
  <2>2. QED
    BY <1>inv, <1>1, <2>1 DEF NoUseAfterFree
<1>3. CASE Free' \subseteq Free
  BY <1>2, <1>3
<1>others. \A u \in Threads : u # t => pool'[u] = pool[u]
  BY <1>inv, ThreadsFrame DEF Others
<1>4. ASSUME NEW S, pool'[t] = pool[t] \cup S, guarded' = guarded, guarded[i] \notin S
      PROVE  guarded'[i] \notin Free'
  <2>1. Free' \subseteq Free \cup S
    BY <1>4, <1>others DEF Free
  <2>2. QED
    BY <1>2, <1>4, <2>1
<1>5. ASSUME pool'[t] \subseteq pool[t] PROVE Free' \subseteq Free
  BY <1>5, <1>others DEF Free
<1>6. \/ pool'[t] \subseteq pool[t]
      \/ \E S : /\ pool'[t] = pool[t] \cup S /\ guarded' = guarded
                /\ \/ LastOfScan(t) /\ S = Swept(t)
                   \/ ProcessCallbacks(t) /\ S = Passed(t)
  BY <1>inv, PlacesOfStep DEF Stays, Frees
<1>7. QED
  BY <1>3, <1>4, <1>5, <1>6, FreedIsUnguarded

\* In both files.
LEMMA InitEpochs == Init => EpochInv
<1> SUFFICES ASSUME Init PROVE EpochInv
  OBVIOUS
<1>1. EpochTypes
  <2>1. 0 \in Epochs /\ 1 \in Epochs
    BY EpochFacts
  <2>2. "op" \in PCs /\ "loop" \in Callers
    BY DEF PCs, Callers
  <2>3. QED
    BY <2>1, <2>2 DEF Init, EpochTypes
<1>2. \A t \in Threads : pc[t] = "op" /\ in_critical[t] /\ epoch[t] = 0
  BY DEF Init
<1> USE DEF Quiescent, Window, Locked
<1>3. CodeInv /\ CriticalInv /\ LookInv
  BY <1>1, <1>2 DEF CodeInv, CallsOf, UpdateIsExclusive, CriticalInv, LookInv, LookOf
<1>4. LagInv
  <2>1. NextEpoch(global_epoch) = 2
    BY DEF Init, NextEpoch, N_EPOCHS
  <2>2. QED
    BY <1>2, <2>1 DEF LagInv, LagOf
<1>5. QED
  BY <1>3, <1>4 DEF EpochInv

LEMMA InitInv == Init => Inv
<1> SUFFICES ASSUME Init PROVE Inv
  OBVIOUS
<1>1. TypeOK
  BY InitType
<1>2. ControlInv
  <2>1. \A t \in Threads : K * t \in Own(t)
    <3>1. 0 \in 0 .. K - 1 /\ \A t \in Threads : K * t \in Nat
      BY NAssumption DEF Threads
    <3>2. \A t \in Threads : K * t + 0 \in Own(t) /\ K * t + 0 = K * t
      BY <3>1, SlotFacts
    <3>3. QED
      BY <3>2
  <2>2. QED
    BY <2>1 DEF Init, ControlInv, ControlOf, Quiescent, Window, Locked
<1>3. \A t \in Threads : /\ victim[t] = NULL /\ vlist[t] = <<>> /\ rcount[t] = 0
                         /\ \A e \in Epochs : limbo_list[t][e] = <<>>
  BY DEF Init
<1>4. /\ \A t \in Threads : Limbo(t) = {} /\ RetiredBy(t) = {}
      /\ \A t \in Threads, e \in Epochs : At(t, e) = {}
  <2>1. ToSet(<<>>) = {}
    BY DEF ToSet
  <2>2. QED
    BY <1>3, <2>1 DEF Limbo, RetiredBy, At
<1>5. RcountIsLength
  BY <1>3, <1>4, FS_EmptySet DEF RcountIsLength
<1>pool. \A n \in Nodes : \A t, u \in Threads :
            n \in pool[t] => n \notin linked /\ (n \in pool[u] => t = u)
  <2>1. PICK owner : pool = [t \in Threads |-> {x \in Nodes \ linked : owner[x] = t}]
    BY DEF Init
  <2>2. QED
    BY <2>1
<1>6. Located
  BY <1>3, <1>4, <1>pool, NodesAssumption DEF Located, NotTwice
<1>7. \A i \in Slots : guarded[i] = NULL
  BY DEF Init
<1>8. GuardsArePublished /\ AwayGuardsNothing
  BY <1>7, SlotFacts DEF GuardsArePublished, AwayGuardsNothing
<1>9. ScanInv
  BY DEF Init, ScanInv
<1>10. EpochInv
  BY InitEpochs
<1>11. GraceInv
  BY <1>4 DEF GraceInv
<1>12. NoUseAfterFree
  BY <1>7, NodesAssumption, <1>1 DEF NoUseAfterFree, Free, TypeOK
<1>13. QED
  BY <1>1, <1>2, <1>5, <1>6, <1>8, <1>9, <1>10, <1>11, <1>12 DEF Inv, Base

LEMMA BaseStep == ASSUME Base, ~Lazy, NEW t \in Threads, Step(t) PROVE Base'
<1>1. TypeOK /\ ControlInv /\ RcountIsLength /\ Located
  BY DEF Base
<1>2. TypeOK' /\ ControlInv' /\ Located'
  BY <1>1, TypeStep, ControlStep, PlaceStep
<1>3. RcountIsLength'
  BY <1>1, <1>2, RcountStep
<1>4. QED
  BY <1>2, <1>3 DEF Base

LEMMA StepInv ==
    ASSUME Inv, ~Lazy, ~KeepsNodes, TimelyStep, NEW t \in Threads, Step(t)
    PROVE  Inv'
<1>1. /\ TypeOK /\ ControlInv /\ RcountIsLength /\ Located /\ GuardsArePublished
      /\ AwayGuardsNothing /\ ScanInv /\ EpochInv /\ GraceInv /\ NoUseAfterFree
  BY DEF Inv, Base
<1>2. TypeOK' /\ ControlInv' /\ Located' /\ RcountIsLength'
  BY <1>1, BaseStep DEF Base
<1>3. GuardsArePublished' /\ AwayGuardsNothing'
  BY <1>1, <1>2, PublishedStep, AwayStep
<1>4. ScanInv' /\ GraceInv'
  BY <1>1, <1>2, <1>3, ScanInvStep, GraceStep
<1>5. EpochInv'
  BY <1>1, EpochStep
<1>6. NoUseAfterFree'
  BY UseStep
<1>7. QED
  BY <1>2, <1>3, <1>4, <1>5, <1>6 DEF Inv, Base

\* Nodes turn old, and the sleeper clears the presence vector.
Around == \E t \in Threads : ResetPresence(t) \/ \E n \in Nodes : TurnOld(t, n)

AroundFrame ==
    /\ UNCHANGED <<client, HP, epochs, fallback, limbo_list, rcount, rotating, flags,
                   scanner, loops, control>>
    /\ present' \subseteq present
    /\ old' \subseteq old \cup UNION {Limbo(t) : t \in Threads}

LEMMA AroundIs == Around \/ UNCHANGED vars => AroundFrame
BY DEF Around, AroundFrame, ResetPresence, TurnOld, vars, lists

LEMMA AroundBase == ASSUME Base, AroundFrame PROVE Base'
<1> USE DEF AroundFrame, Base, client, epochs, updater, rotating, flags, scanner, loops, control
<1>1. TypeOK'
  <2>1. \A t \in Threads : Limbo(t) \subseteq Nodes
    BY LimboIs
  <2>2. old' \in SUBSET Nodes /\ present' \in SUBSET Threads
    BY <2>1 DEF TypeOK
  <2>3. QED
    BY <2>2 DEF TypeOK
<1>2. ControlInv'
  BY DEF ControlInv, ControlOf
<1>3. RcountIsLength' /\ Located'
  BY DEF RcountIsLength, RetiredBy, Limbo, Located, NotTwice, At
<1>4. QED
  BY <1>1, <1>2, <1>3

LEMMA AroundEpochs == ASSUME EpochInv, AroundFrame PROVE EpochInv'
<1> USE DEF AroundFrame, epochs, updater, scanner, control
<1>1. CodeInv'
  BY DEF EpochInv, CodeInv, EpochTypes, CallsOf, UpdateIsExclusive
<1>2. CriticalInv' /\ LagInv' /\ LookInv'
  BY DEF EpochInv, CriticalInv, LagInv, LagOf, LookInv, LookOf
<1>3. QED
  BY <1>1, <1>2 DEF EpochInv

LEMMA AroundInv == ASSUME Inv, AroundFrame PROVE Inv'
<1>1. Base'
  BY AroundBase DEF Inv
<1> USE DEF AroundFrame, Inv, client, epochs, rotating, flags, scanner, loops, control
<1>2. GuardsArePublished' /\ AwayGuardsNothing' /\ NoUseAfterFree'
  BY DEF GuardsArePublished, AwayGuardsNothing, Away, NoUseAfterFree, Free
<1>3. ScanInv' /\ GraceInv'
  BY DEF ScanInv, Limbo, GraceInv, Waits, At
<1>4. QED
  BY <1>1, <1>2, <1>3, AroundEpochs

LEMMA Steps == Next <=> Around \/ \E t \in Threads : Step(t)
BY DEF Next, Around, Step

\* Whether or not insert keeps left_node.
LEMMA BaseInvariance == ASSUME ~Lazy PROVE Spec => []Base
<1>1. Init => Base
  BY InitInv DEF Inv
<1>2. Base /\ [Next]_vars => Base'
  BY BaseStep, AroundBase, AroundIs, Steps
<1>3. QED
  BY <1>1, <1>2, PTL DEF Spec

LEMMA Invariance == ASSUME ~Lazy, ~KeepsNodes PROVE TimelySpec => []Inv
<1>1. Inv /\ [Next /\ TimelyStep]_vars => Inv'
  BY StepInv, AroundInv, AroundIs, Steps
<1>2. QED
  BY InitInv, <1>1, PTL DEF TimelySpec

-----------------------------------------------------------------------------
(* Every step is a step of the contract.                                   *)

LEMMA HeldMembers ==
    ASSUME NEW t \in Threads, NEW n
    PROVE  /\ n \in Held(t) <=> n # NULL /\ \E i \in Own(t) : guarded[i] = n
           /\ n \in Held(t)' <=> n # NULL /\ \E i \in Own(t) : guarded'[i] = n
BY DEF Held

LEMMA RefsAfter ==
    ASSUME Inv, Inv', ~Lazy, ~KeepsNodes, NEW t \in Threads, Step(t)
    PROVE  Contract!RefsStep
<1>1. Refs' \in [Threads -> SUBSET Nodes]
  <2>1. \A i \in Slots : guarded'[i] \in Nodes \cup {NULL}
    BY DEF Inv, Base, TypeOK
  <2>2. \A u \in Threads : Held(u)' \subseteq Nodes
    BY <2>1, SlotFacts, HeldMembers
  <2>3. QED
    BY <2>2 DEF Refs
<1>2. \A i \in Slots : guarded'[i] \in {guarded[i], NULL} \cup linked'
  BY GuardsOfStep DEF Inv, Base
<1>3. ASSUME NEW u \in Threads PROVE Held(u)' \subseteq Held(u) \cup linked'
  BY <1>2, SlotFacts, HeldMembers
<1>4. QED
  BY <1>1, <1>3 DEF Contract!RefsStep, Refs

\* What is retired, before a step and after it.
RetiredFacts ==
    /\ Retired \subseteq Nodes
    /\ \A n \in Nodes : n \in Retired <=>
          \E t \in Threads : n \in Limbo(t) \/ n = victim[t]

LEMMA RetiredIs == Inv => RetiredFacts
<1> SUFFICES ASSUME Inv PROVE RetiredFacts
  OBVIOUS
<1>1. \A t \in Threads : /\ RetiredBy(t) = Limbo(t) /\ Limbo(t) \subseteq Nodes
                         /\ victim[t] \in Nodes \cup {NULL}
  BY RetiredIsLimbo, LimboIs DEF Inv, Base, TypeOK, ControlInv, ControlOf
<1>2. \A n : n \in Retired <=>
         \/ \E t \in Threads : n \in RetiredBy(t)
         \/ n # NULL /\ \E t \in Threads : n = victim[t]
  BY DEF Retired
<1>3. QED
  BY <1>1, <1>2, NodesAssumption DEF RetiredFacts

LEMMA RetiredIsNext == Inv' => RetiredFacts'
<1> SUFFICES ASSUME Inv' PROVE RetiredFacts'
  OBVIOUS
<1>1. ASSUME NEW t \in Threads
      PROVE  /\ RetiredBy(t)' = Limbo(t)' /\ Limbo(t)' \subseteq Nodes
             /\ victim'[t] \in Nodes \cup {NULL}
  <2>1. ToSet(<<>>) = {}
    BY DEF ToSet
  <2>2. \A e \in Epochs : ToSet(limbo_list'[t][e]) \subseteq Nodes
    BY SeqFacts DEF Inv, Base, TypeOK
  <2>3. QED
    BY <2>1, <2>2 DEF Inv, Base, TypeOK, ControlInv, ControlOf, RetiredBy, Limbo
<1>2. \A n : n \in Retired' <=>
         \/ \E t \in Threads : n \in RetiredBy(t)'
         \/ n # NULL /\ \E t \in Threads : n = victim'[t]
  BY DEF Retired
<1>3. QED
  BY <1>1, <1>2, NodesAssumption DEF RetiredFacts

\* The places of the other threads' nodes stay.
OthersStay(t) ==
    \A u \in Threads : u # t => /\ pool'[u] = pool[u] /\ victim'[u] = victim[u]
                                /\ Limbo(u)' = Limbo(u)

LEMMA OthersFrame ==
    ASSUME Inv, ~Lazy, NEW t \in Threads, Step(t)
    PROVE  OthersStay(t)
BY ThreadsFrame, SameLists DEF OthersStay, Others, Inv, Base

\* Contract!Insert, Contract!Retire and Contract!Access are about Retired and Free.
LEMMA InsertIsInsert ==
    ASSUME Inv, Inv', ~Lazy, ~KeepsNodes, NEW t \in Threads, Step(t), OthersStay(t),
           NEW n \in Nodes,
           n \in pool[t], linked' = linked \cup {n}, pool'[t] = pool[t] \ {n},
           victim'[t] = victim[t], Limbo(t)' = Limbo(t)
    PROVE  Contract!Insert(n)
<1>1. \A u \in Threads : n \in pool[u] => u = t
  BY DEF Inv, Base, Located, NotTwice
<1>2. Free' = Free \ {n}
  BY <1>1 DEF Free, OthersStay
<1>3. Retired' = Retired
  <2>1. \A u \in Threads : Limbo(u)' = Limbo(u) /\ victim'[u] = victim[u]
    BY DEF OthersStay
  <2>2. RetiredFacts /\ RetiredFacts'
    BY RetiredIs, RetiredIsNext
  <2>3. \A m \in Nodes : m \in Retired' <=> m \in Retired
    BY <2>1, <2>2 DEF RetiredFacts
  <2>4. QED
    BY <2>2, <2>3 DEF RetiredFacts
<1>4. n \in Free
  BY DEF Free
<1>5. QED
  BY <1>2, <1>3, <1>4, RefsAfter DEF Contract!Insert

LEMMA UnlinkIsRetire ==
    ASSUME Inv, Inv', ~Lazy, ~KeepsNodes, NEW t \in Threads, Step(t), OthersStay(t),
           NEW n \in Nodes,
           n \in linked, linked' = linked \ {n}, pool'[t] = pool[t],
           victim[t] = NULL, victim'[t] = n, Limbo(t)' = Limbo(t)
    PROVE  Contract!Retire(n)
<1>1. Free' = Free
  BY DEF Free, OthersStay
<1>2. RetiredFacts /\ RetiredFacts'
  BY RetiredIs, RetiredIsNext
<1>3. ASSUME NEW m \in Nodes PROVE m \in Retired' <=> m \in Retired \cup {n}
  <2>1. m \in Retired <=> \E u \in Threads : m \in Limbo(u) \/ m = victim[u]
    BY <1>2 DEF RetiredFacts
  <2>2. m \in Retired' <=> \E u \in Threads : m \in Limbo(u)' \/ m = victim'[u]
    BY <1>2 DEF RetiredFacts
  <2>3. QED
    BY <2>1, <2>2, NodesAssumption DEF OthersStay
<1>4. Retired' = Retired \cup {n}
  BY <1>2, <1>3 DEF RetiredFacts
<1>5. QED
  BY <1>1, <1>4, RefsAfter DEF Contract!Retire

\* free_node_later puts the node on a list: it is retired before and after.
LEMMA RetireIsAccess ==
    ASSUME Inv, Inv', ~Lazy, ~KeepsNodes, NEW t \in Threads, Step(t), OthersStay(t),
           linked' = linked, pool'[t] = pool[t], victim[t] \in Nodes, victim'[t] = NULL,
           Limbo(t)' = Limbo(t) \cup {victim[t]}
    PROVE  Contract!Access
<1>1. Free' = Free
  BY DEF Free, OthersStay
<1>2. RetiredFacts /\ RetiredFacts'
  BY RetiredIs, RetiredIsNext
<1>3. ASSUME NEW m \in Nodes PROVE m \in Retired' <=> m \in Retired
  <2>1. m \in Retired <=> \E u \in Threads : m \in Limbo(u) \/ m = victim[u]
    BY <1>2 DEF RetiredFacts
  <2>2. m \in Retired' <=> \E u \in Threads : m \in Limbo(u)' \/ m = victim'[u]
    BY <1>2 DEF RetiredFacts
  <2>3. QED
    BY <2>1, <2>2, NodesAssumption DEF OthersStay
<1>4. Retired' = Retired
  BY <1>2, <1>3 DEF RetiredFacts
<1>5. QED
  BY <1>1, <1>4, RefsAfter DEF Contract!Access

\* A scan and process_callbacks free what nobody holds.
LEMMA FreesIsFree ==
    ASSUME Inv, Inv', NEW t \in Threads, OthersStay(t), NEW S \in SUBSET Limbo(t),
           \/ LastOfScan(t) /\ S = Swept(t)
           \/ ProcessCallbacks(t) /\ S = Passed(t),
           linked' = linked, guarded' = guarded, victim'[t] = victim[t],
           pool'[t] = pool[t] \cup S, Limbo(t)' = Limbo(t) \ S
    PROVE  Contract!Free(S) /\ S \in SUBSET Nodes
<1>1. Free' = Free \cup S
  BY DEF Free, OthersStay
<1>2. RetiredFacts /\ RetiredFacts'
  BY RetiredIs, RetiredIsNext
<1>3. S \subseteq Nodes
  BY LimboIs DEF Inv, Base
<1>4. ASSUME NEW m \in Nodes PROVE m \in Retired' <=> m \in Retired \ S
  <2>1. m \in Retired <=> \E u \in Threads : m \in Limbo(u) \/ m = victim[u]
    BY <1>2 DEF RetiredFacts
  <2>2. m \in Retired' <=> \E u \in Threads : m \in Limbo(u)' \/ m = victim'[u]
    BY <1>2 DEF RetiredFacts
  <2>3. NotTwice(m)
    BY DEF Inv, Base, Located
  <2>4. m \in S => \A u \in Threads : m # victim[u] /\ (m \in Limbo(u) => u = t)
    BY <2>3 DEF NotTwice
  <2>5. QED
    BY <2>1, <2>2, <2>4 DEF OthersStay
<1>5. Retired' = Retired \ S
  BY <1>2, <1>4 DEF RetiredFacts
<1>6. S \subseteq Retired
  BY <1>2, <1>3 DEF RetiredFacts
<1>7. \A u \in Threads : Held(u) \cap S = {}
  BY FreedIsUnguarded, SlotFacts, HeldMembers
<1>8. Refs' = Refs
  BY DEF Refs, Held
<1>9. QED
  BY <1>1, <1>3, <1>5, <1>6, <1>7, <1>8 DEF Contract!Free, Refs

LEMMA StepRefines ==
    ASSUME Inv, Inv', ~Lazy, ~KeepsNodes, NEW t \in Threads, Step(t)
    PROVE  Contract!Next
<1>1. OthersStay(t)
  BY OthersFrame
<1>2. TypeOK /\ (limbo_list' = limbo_list => Limbo(t)' = Limbo(t))
  BY SameLists DEF Inv, Base
<1>3. ASSUME NEW n \in Nodes, n \in pool[t], linked' = linked \cup {n},
             pool'[t] = pool[t] \ {n}, victim'[t] = victim[t],
             UNCHANGED <<limbo_list, rcount>>
      PROVE  Contract!Next
  BY <1>1, <1>2, <1>3, InsertIsInsert DEF Contract!Next
<1>4. ASSUME NEW n \in Nodes, n \in linked, linked' = linked \ {n},
             victim'[t] = n, pool'[t] = pool[t], victim[t] = NULL,
             UNCHANGED <<limbo_list, rcount>>
      PROVE  Contract!Next
  BY <1>1, <1>2, <1>4, UnlinkIsRetire DEF Contract!Next
<1>5. CASE /\ Retires(t) /\ victim[t] \in Nodes /\ victim'[t] = NULL
           /\ linked' = linked /\ pool'[t] = pool[t]
  BY <1>1, <1>2, <1>5, LimboAfter, RetireIsAccess DEF Contract!Next
<1>6. ASSUME NEW S \in SUBSET Limbo(t), Frees(t, S),
             \/ LastOfScan(t) /\ S = Swept(t)
             \/ ProcessCallbacks(t) /\ S = Passed(t),
             linked' = linked, victim'[t] = victim[t], pool'[t] = pool[t] \cup S
      PROVE  Contract!Next
  <2>1. guarded' = guarded /\ Limbo(t)' = Limbo(t) \ S
    BY <1>2, <1>6, LimboAfter DEF Frees
  <2>2. Contract!Free(S) /\ S \in SUBSET Nodes
    BY <1>1, <1>6, <2>1, FreesIsFree
  <2>3. QED
    BY <2>2 DEF Contract!Next
<1>7. CASE Stays
  <2>1. \A u \in Threads : /\ Limbo(u)' = Limbo(u) /\ victim'[u] = victim[u]
                           /\ pool'[u] = pool[u]
    BY <1>1, <1>2, <1>7 DEF OthersStay, Stays
  <2>2. RetiredFacts /\ RetiredFacts'
    BY RetiredIs, RetiredIsNext
  <2>3. Retired' = Retired
    <3>1. \A m \in Nodes : m \in Retired' <=> m \in Retired
      BY <2>1, <2>2 DEF RetiredFacts
    <3>2. QED
      BY <2>2, <3>1 DEF RetiredFacts
  <2>4. Free' = Free
    BY <2>1 DEF Free
  <2>5. Contract!Access
    BY <1>7, <2>3, <2>4, RefsAfter DEF Contract!Access, Stays
  <2>6. QED
    BY <2>5 DEF Contract!Next
<1>8. QED
  BY <1>3, <1>4, <1>5, <1>6, <1>7, PlacesOfStep DEF Inv, Base

LEMMA InitRefines == Init => Contract!Init
<1> SUFFICES ASSUME Init PROVE Contract!Init
  OBVIOUS
<1>1. linked \in SUBSET Nodes
  BY DEF Init
<1>2. Free = Nodes \ linked
  <2>1. PICK owner \in [Nodes -> Updaters] :
           pool = [t \in Threads |-> {n \in Nodes \ linked : owner[n] = t}]
    BY DEF Init
  <2>2. \A n \in Nodes : owner[n] \in Threads
    BY <2>1, ThreadsAssumption DEF Threads
  <2>3. QED
    BY <2>1, <2>2 DEF Free
<1>3. Retired = {}
  <2>1. ToSet(<<>>) = {}
    BY DEF ToSet
  <2>2. QED
    BY <2>1 DEF Init, Retired, RetiredBy, Limbo
<1>4. \A t \in Threads : Held(t) = {}
  BY SlotFacts DEF Init, Held
<1>5. Refs \in [Threads -> SUBSET linked]
  BY <1>4 DEF Refs
<1>6. QED
  BY <1>1, <1>2, <1>3, <1>5 DEF Contract!Init

\* What happens around the program, and the steps that leave it alone, are stutters.
LEMMA NextRefines ==
    ASSUME Inv, Inv', ~Lazy, ~KeepsNodes, [Next]_vars
    PROVE  [Contract!Next]_Contract!vars
<1>1. CASE Around \/ UNCHANGED vars
  <2>1. UNCHANGED <<client, limbo_list, rotating>>
    BY <1>1 DEF Around, ResetPresence, TurnOld, vars, lists
  <2>2. QED
    BY <2>1 DEF Contract!vars, Free, Retired, RetiredBy, Limbo, Refs, Held, client, rotating
<1>2. ASSUME NEW t \in Threads, Step(t) PROVE Contract!Next
  BY <1>2, StepRefines
<1>3. QED
  BY <1>1, <1>2, Steps

-----------------------------------------------------------------------------
(* The theorems.                                                           *)

\* In both files, for timely steps: update_epoch waits for the threads that are
\* behind, so that none falls two epochs behind but the one that has just advanced
\* the epoch itself, whichever way the flag falls or rises.
THEOREM OneEpochBehindCorrect == TimelySpec => []OneEpochBehind
<1>1. EpochInv /\ [Next /\ TimelyStep]_vars => EpochInv'
  BY EpochStep, AroundEpochs, AroundIs, Steps
<1>2. ASSUME EpochInv PROVE OneEpochBehind
  <2>1. ASSUME NEW t \in Threads
        PROVE  \/ epoch[t] \in {global_epoch, (global_epoch - 1) % N_EPOCHS}
               \/ pc[t] \in {"unlock", "restore", "reread", "process"}
    <3>1. epoch[t] \in Epochs /\ global_epoch \in Epochs
      BY <1>2 DEF EpochInv, CodeInv, EpochTypes
    <3>2. \/ epoch[t] = global_epoch \/ epoch[t] = NextEpoch(global_epoch)
          \/ epoch[t] = (global_epoch - 1) % N_EPOCHS
      BY <3>1, EpochFacts
    <3>3. QED
      BY <1>2, <3>2 DEF EpochInv, LagInv, LagOf
  <2>2. QED
    BY <2>1 DEF OneEpochBehind
<1>3. QED
  BY <1>1, <1>2, InitEpochs, PTL DEF TimelySpec

\* Every variable of qsbr_smr_hybrid.c keeps its type: rcount is not counted below
\* zero by process_callbacks or scan, and the loops end at their bounds.
THEOREM TypeCorrect == ASSUME ~Lazy PROVE Spec => []TypeOK
<1>1. Base => TypeOK
  BY DEF Base
<1>2. QED
  BY <1>1, BaseInvariance, PTL

\* rcount, on which free_node_later and mr_thread_exit decide, is the length of the
\* limbo lists, whether nodes leave them through an epoch or a scan.
THEOREM RcountCorrect == ASSUME ~Lazy PROVE Spec => []RcountIsLength
<1>1. Base => RcountIsLength
  BY DEF Base
<1>2. QED
  BY <1>1, BaseInvariance, PTL

\* For timely steps, a node in use is freed neither by process_callbacks, while
\* memory lasts, nor by scan, after the fallback, nor by one of them while other
\* threads still do the other.
THEOREM Safety == ASSUME ~Lazy, ~KeepsNodes PROVE TimelySpec => []NoUseAfterFree
<1>1. Inv => NoUseAfterFree
  BY DEF Inv, Base
<1>2. QED
  BY <1>1, Invariance, PTL

\* For timely steps, qsbr_smr_hybrid.c keeps the contract of a reclamation scheme,
\* also while it switches from epochs to hazard pointers and back.
THEOREM Refinement == ASSUME ~Lazy, ~KeepsNodes PROVE TimelySpec => RefinesReclamation
<1>1. Inv /\ Inv' /\ [Next /\ TimelyStep]_vars => [Contract!Next]_Contract!vars
  BY NextRefines
<1>2. QED
  BY <1>1, InitRefines, Invariance, PTL DEF TimelySpec, RefinesReclamation, Contract!Spec
===============================================================================
