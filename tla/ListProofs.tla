------------------------------ MODULE ListProofs ------------------------------
(*****************************************************************************)
(* The lists are linearizable sets, for any number of threads, keys and      *)
(* calls: Harris's (HarrisList, src/src/linkedlist/harris.c), Michael's      *)
(* (MichaelList, src/src/linkedlist-michael/michael.c), the one of           *)
(* src/src/linkedlist-harris_opt/harris_opt.c (MichaelList's Opt) and the    *)
(* same over QSBR, src/src/linkedlist-qsbr-harris_opt/harris_opt.c           *)
(* (QsbrLists' Opt), which frees its nodes and uses them again.              *)
(*                                                                           *)
(* The set that a list holds at a moment is that of the keys of its          *)
(* unmarked nodes.  Feasible says that it is what the operations begun so    *)
(* far make of the first set, whichever answers the unfinished ones are      *)
(* given among those that they may still give.                               *)
(*****************************************************************************)
EXTENDS HarrisList, FiniteSetTheorems, WellFoundedInduction, TLAPS

\* The retired and freed nodes, of the list over QSBR.
VARIABLE gc

Michael == INSTANCE MichaelList
Grace == INSTANCE QsbrLists

\* Any number of threads and of keys; the keys are 1 .. n, as in ListSet.
ListAssumption ==
    /\ IsFiniteSet(Threads)
    /\ \E n \in Nat : Keys = 1 .. n

Answers == {"none", "pending", "yes", "no"}
Configs == [set : SUBSET Nat, ans : [Threads -> Answers]]

\* D goes on with every operation that has begun.
Closed(D) ==
    \A c \in D, t \in Threads : c.ans[t] = "pending" => Applied(c, t) \in D

\* Some way to linearize leads to the set S, with any answers out of A.
Feasible(S, A) ==
    \A f \in [Threads -> Answers] :
       (\A t \in Threads : f[t] \in A[t]) => [set |-> S, ans |-> f] \in Extended(lin)

-----------------------------------------------------------------------------
(* The list.                                                               *)

Live(n) == ~Marked(mem[n].next)

NodeType == [key : 0 .. KEY_MAX, next : Nat \X {0, 1}, marked : BOOLEAN, lock : Nat]
MemOK == \E m \in Nat : mem \in [0 .. m -> NodeType]

\* Links lead to greater keys, also those of nodes that were unlinked; the first
\* and the last node are not marked.
NodesOK ==
    /\ head \in DOMAIN mem /\ Key(head) = KEY_MIN
    /\ \A n \in DOMAIN mem :
          IF Key(n) = KEY_MAX THEN Live(n)
          ELSE Succ(n) \in DOMAIN mem /\ Key(n) < Key(Succ(n))
    /\ \A n \in DOMAIN mem : Key(n) = KEY_MIN => Live(n)

\* L is the list, marked nodes that have not been unlinked yet included.
ListOK(L) ==
    /\ head \in L /\ L \subseteq DOMAIN mem
    /\ \A n \in DOMAIN mem : Live(n) => n \in L
    /\ \A a \in L : Key(a) # KEY_MAX =>
          /\ Succ(a) \in L
          /\ \A n \in L : Key(n) <= Key(a) \/ Key(Succ(a)) <= Key(n)
    /\ \A a, b \in L : Key(a) = Key(b) => a = b

\* The set it holds.
Contents == {k \in Keys : \E n \in DOMAIN mem : Live(n) /\ Key(n) = k}

PCs == {"search", "check", "unlink_run", "check_again", "found", "mark", "unlink",
        "done"}
LocalsType == [pc : PCs, left : DOMAIN mem, right : DOMAIN mem,
               link : (DOMAIN mem) \X {0, 1}, then : {"found", "done"}]
Busy(t) == th[t] # Idle

ThOK ==
    /\ th = [t \in Threads |-> th[t]]
    /\ \A t \in Threads : Busy(t) => th[t] \in LocalsType

ReqOK ==
    /\ req = [t \in Threads |-> req[t]]
    /\ \A t \in Threads :
          /\ req[t].op \in Ops /\ req[t].key \in Nat
          /\ Busy(t) => req[t].key \in Keys

\* Where an operation stands.
PlaceOK(t) ==
    LET pc == th[t].pc  k == req[t].key IN
    /\ Key(Left(t)) < k
    /\ pc \in {"check", "unlink_run", "check_again", "found"} => k <= Key(Right(t))
    /\ pc \in {"mark", "unlink"} => Key(Right(t)) = k /\ req[t].op = "delete"
    /\ pc \in {"search", "check", "unlink_run", "mark", "unlink"} => ~Marked(th[t].link)
    /\ pc \in {"search", "check"} => Key(th[t].link[1]) <= Key(Right(t))
    /\ pc = "unlink" => mem[Right(t)].next = WithMark(th[t].link)
    /\ pc \in {"found", "mark", "unlink"} => th[t].then = "found"
    /\ pc = "done" => th[t].then = "done"
    /\ th[t].then = "done" => req[t].op = "delete"

\* No node between c and r is in the set, if c is in the list at all.
Run(c, r, L) ==
    c \in L =>
       /\ r \in L /\ Key(c) <= Key(r)
       /\ \A n \in L : Live(n) => Key(n) < Key(c) \/ Key(r) <= Key(n)

\* What the search has walked over, from the node it read in left: marked nodes
\* that lead to right.
RunOK(t, L) ==
    th[t].pc \in {"search", "check", "unlink_run"} => Run(th[t].link[1], Right(t), L)

\* t has seen that its key is not in the list: left and right were neighbours.
SeenAbsent(t) ==
    /\ req[t].op # "insert" /\ req[t].key < Key(Right(t))
    /\ \/ th[t].pc \in {"search", "check"} /\ th[t].link = <<Right(t), 0>>
       \/ th[t].pc \in {"check_again", "found"}

\* t has seen that it is: right was not marked.
SeenPresent(t) == th[t].pc = "found" /\ req[t].key = Key(Right(t))

\* The answers t may still give.
MayAnswer(t) ==
    CASE ~Busy(t) -> {"none"}
      [] Busy(t) /\ (th[t].then = "done" \/ th[t].pc = "unlink") -> {"yes"}
      [] OTHER -> {"pending"}
                    \cup (IF SeenAbsent(t) THEN {"no"} ELSE {})
                    \cup (IF SeenPresent(t) /\ req[t].op = "find" THEN {"yes"} ELSE {})
                    \cup (IF SeenPresent(t) /\ req[t].op = "insert" THEN {"no"} ELSE {})

LinOK ==
    /\ lin \subseteq Configs
    /\ Feasible(Contents, [t \in Threads |-> MayAnswer(t)])

Shape(L) == MemOK /\ NodesOK /\ ListOK(L)

InvWith(L) ==
    /\ Shape(L) /\ ThOK /\ ReqOK /\ LinOK
    /\ \A t \in Threads : Busy(t) => PlaceOK(t) /\ RunOK(t, L)

Inv == \E L \in SUBSET DOMAIN mem : InvWith(L)

-----------------------------------------------------------------------------
(* How the list changes.                                                   *)

LEMMA KeysAre ==
    ASSUME ListAssumption
    PROVE  /\ KEY_MIN = 0 /\ KEY_MAX \in Nat \ {0}
           /\ \A k \in Keys : k \in 1 .. KEY_MAX - 1
           /\ IsFiniteSet(Keys) /\ Keys \subseteq Nat
<1>1. PICK n \in Nat : Keys = 1 .. n
  BY DEF ListAssumption
<1>2. IsFiniteSet(Keys) /\ Cardinality(Keys) = n
  <2>1. IsFiniteSet(1 .. n) /\ Cardinality(1 .. n) = IF 1 > n THEN 0 ELSE n - 1 + 1
    BY FS_Interval
  <2> QED  BY <1>1, <2>1
<1>3. KEY_MAX = 1 + n /\ KEY_MIN = 0
  BY <1>2 DEF KEY_MAX, KEY_MIN
<1> QED  BY <1>1, <1>2, <1>3

LEMMA NodesAre ==
    ASSUME ListAssumption, MemOK, NEW n \in DOMAIN mem
    PROVE  /\ mem[n] \in NodeType /\ n \in Nat
           /\ Key(n) \in 0 .. KEY_MAX /\ Key(n) \in Nat /\ Key(n) <= KEY_MAX
           /\ Succ(n) \in Nat /\ mem[n].next \in Nat \X {0, 1}
           /\ Live(n) => mem[n].next = <<Succ(n), 0>>
           /\ ~Live(n) => mem[n].next = <<Succ(n), 1>>
<1>1. mem[n] \in NodeType /\ n \in Nat
  BY DEF MemOK
<1>2. KEY_MAX \in Nat
  BY KeysAre
<1>3. Key(n) \in 0 .. KEY_MAX /\ mem[n].next \in Nat \X {0, 1}
  BY <1>1 DEF NodeType, Key
<1>4. /\ Succ(n) = mem[n].next[1] /\ (Live(n) <=> mem[n].next[2] = 0)
      /\ mem[n].next = <<mem[n].next[1], mem[n].next[2]>>
      /\ mem[n].next[1] \in Nat /\ mem[n].next[2] \in {0, 1}
  BY <1>3 DEF Succ, Live, Marked
<1> QED  BY <1>1, <1>2, <1>3, <1>4

\* A compare-and-swap of the link of w.
LEMMA Changed ==
    ASSUME ListAssumption, MemOK, NEW w \in DOMAIN mem, NEW l \in Nat \X {0, 1},
           mem' = [mem EXCEPT ![w].next = l]
    PROVE  /\ MemOK' /\ DOMAIN mem' = DOMAIN mem
           /\ \A n \in DOMAIN mem :
                 /\ Key(n)' = Key(n)
                 /\ mem'[n].next = IF n = w THEN l ELSE mem[n].next
<1>1. PICK m \in Nat : mem \in [0 .. m -> NodeType]
  BY DEF MemOK
<1>2. [mem[w] EXCEPT !.next = l] \in NodeType
  BY NodesAre DEF NodeType
<1>3. mem' = [mem EXCEPT ![w] = [mem[w] EXCEPT !.next = l]]
  OBVIOUS
<1>4. mem' \in [0 .. m -> NodeType]
  BY <1>1, <1>2, <1>3
<1>5. MemOK'
  BY <1>4 DEF MemOK
<1>6. \A n \in DOMAIN mem : mem'[n] = IF n = w THEN [mem[w] EXCEPT !.next = l] ELSE mem[n]
  BY <1>1, <1>3
<1>7. [mem[w] EXCEPT !.next = l].key = mem[w].key /\ [mem[w] EXCEPT !.next = l].next = l
  BY NodesAre DEF NodeType
<1>8. DOMAIN mem' = DOMAIN mem
  BY <1>1, <1>4
<1> QED  BY <1>5, <1>6, <1>7, <1>8 DEF Key

\* A new node with the key k in front of r, behind w.
LEMMA LinkedIs ==
    ASSUME ListAssumption, MemOK, NEW w \in DOMAIN mem, NEW r \in Nat,
           NEW k \in 0 .. KEY_MAX, mem' = Linked(node(k, r), w)
    PROVE  /\ MemOK' /\ Fresh \notin DOMAIN mem /\ Fresh \in Nat
           /\ DOMAIN mem' = (DOMAIN mem) \cup {Fresh}
           /\ \A n \in DOMAIN mem :
                 /\ Key(n)' = Key(n)
                 /\ mem'[n].next = IF n = w THEN <<Fresh, 0>> ELSE mem[n].next
           /\ mem'[Fresh].key = k /\ mem'[Fresh].next = <<r, 0>>
<1>1. PICK m \in Nat : mem \in [0 .. m -> NodeType]
  BY DEF MemOK
<1>2. Fresh = m + 1 /\ DOMAIN mem = 0 .. m
  <2>1. Cardinality(0 .. m) = IF 0 > m THEN 0 ELSE m - 0 + 1
    BY FS_Interval
  <2> QED  BY <1>1, <2>1 DEF Fresh
<1> DEFINE x == node(k, r)
           y == [mem[w] EXCEPT !.next = <<Fresh, 0>>]
<1>3. x \in NodeType /\ x.key = k /\ x.next = <<r, 0>>
  BY DEF node, NodeType
<1>4. y \in NodeType /\ y.key = mem[w].key /\ y.next = <<Fresh, 0>>
  <2>1. mem[w] \in NodeType
    BY NodesAre
  <2>2. Fresh \in Nat
    BY <1>2
  <2> QED  BY <2>1, <2>2 DEF NodeType
<1>5. mem' = [i \in 0 .. m + 1 |-> IF i = Fresh THEN x ELSE IF i = w THEN y ELSE mem[i]]
  <2>1. (DOMAIN mem) \cup {Fresh} = 0 .. m + 1
    BY <1>2
  <2> QED  BY <2>1 DEF Linked
<1> HIDE DEF x, y
<1>6. mem' \in [0 .. m + 1 -> NodeType]
  <2>1. \A i \in 0 .. m + 1 : i # Fresh => i \in 0 .. m
    BY <1>2
  <2> QED  BY <1>1, <1>3, <1>4, <1>5, <2>1
<1>7. MemOK'
  <2>1. m + 1 \in Nat
    OBVIOUS
  <2> QED  BY <1>6, <2>1 DEF MemOK
<1>8. Fresh \notin DOMAIN mem /\ Fresh \in Nat /\ Fresh \in 0 .. m + 1
  BY <1>2
<1>9. \A n \in DOMAIN mem : mem'[n] = IF n = w THEN y ELSE mem[n]
  BY <1>2, <1>5, <1>8
<1>10. mem'[Fresh] = x
  BY <1>5, <1>8
<1>11. DOMAIN mem' = (DOMAIN mem) \cup {Fresh}
  BY <1>2, <1>5
<1> QED  BY <1>3, <1>4, <1>7, <1>8, <1>9, <1>10, <1>11 DEF Key

\* What a step does for those who hold a node: keys stay, and so do marked links.
Grows ==
    /\ DOMAIN mem \subseteq DOMAIN mem'
    /\ \A n \in DOMAIN mem :
          Key(n)' = Key(n) /\ (~Live(n) => mem'[n].next = mem[n].next)

RunsKept(L, M) == \A c, r \in DOMAIN mem : Run(c, r, L) => Run(c, r, M)'

\* A step takes the list from L to M.
Becomes(L, M) == Shape(M)' /\ Grows /\ RunsKept(L, M)

-----------------------------------------------------------------------------
(* The ways to linearize.                                                  *)

ReqTyped == \A t \in Threads : req[t].op \in Ops /\ req[t].key \in Nat

LEMMA AppliedIs ==
    ASSUME ReqTyped, NEW c \in Configs, NEW t \in Threads
    PROVE  /\ Applied(c, t) \in Configs
           /\ Applied(c, t).ans[t] \in {"yes", "no"}
           /\ \A u \in Threads \ {t} : Applied(c, t).ans[u] = c.ans[u]
<1> DEFINE k == req[t].key
           S == CASE req[t].op = "find" -> c.set
                  [] req[t].op = "insert" -> c.set \cup {k}
                  [] req[t].op = "delete" -> c.set \ {k}
           y == IF (k \in c.set) = (req[t].op # "insert") THEN "yes" ELSE "no"
<1>1. c.set \in SUBSET Nat /\ c.ans \in [Threads -> Answers]
  BY DEF Configs
<1>2. Applied(c, t) = [set |-> S, ans |-> [c.ans EXCEPT ![t] = y]]
  BY DEF Applied
<1>3. S \in SUBSET Nat
  BY <1>1 DEF ReqTyped, Ops
<1>4. y \in {"yes", "no"} /\ y \in Answers
  BY DEF Answers
<1> HIDE DEF S, y
<1>5. [c.ans EXCEPT ![t] = y] \in [Threads -> Answers]
  BY <1>1, <1>4
<1> QED  BY <1>1, <1>2, <1>3, <1>4, <1>5 DEF Configs

\* The layers that Extended goes through exist.
Layers(C, m, g) ==
    g = [n \in 0 .. m |-> IF n = 0 THEN C ELSE OneMore(g[n - 1])]

LEMMA LayersExist ==
    ASSUME NEW C, NEW m \in Nat
    PROVE  \E g : Layers(C, m, g)
<1> DEFINE T == {n \in Nat : ~\E g : Layers(C, n, g)}
<1> SUFFICES ASSUME T # {} PROVE FALSE
  OBVIOUS
<1>1. \E n \in T : \A z \in T : <<z, n>> \notin OpToRel(<, Nat)
  <2>1. T \subseteq Nat
    OBVIOUS
  <2> HIDE DEF T
  <2> QED  BY <2>1, WFMin, NatLessThanWellFounded
<1>2. PICK n \in T : \A z \in T : <<z, n>> \notin OpToRel(<, Nat)
  BY <1>1
<1>3. n \in Nat /\ \A z \in T : ~(z < n)
  BY <1>2 DEF OpToRel
<1>4. ~\E g : Layers(C, n, g)
  OBVIOUS
<1>5. n # 0
  <2>1. Layers(C, 0, [i \in 0 .. 0 |-> C])
    BY DEF Layers
  <2>2. \E g : Layers(C, 0, g)
    BY <2>1
  <2> QED  BY <1>4, <2>2, Zenon
<1>6. n - 1 \in Nat /\ n - 1 < n
  BY <1>3, <1>5
<1>7. PICK g : Layers(C, n - 1, g)
  BY <1>3, <1>6
<1>8. g = [i \in 0 .. n - 1 |-> IF i = 0 THEN C ELSE OneMore(g[i - 1])]
  BY <1>7 DEF Layers
<1>9. Layers(C, n, [i \in 0 .. n |-> IF i = n THEN OneMore(g[n - 1]) ELSE g[i]])
  <2> DEFINE h == [i \in 0 .. n |-> IF i = n THEN OneMore(g[n - 1]) ELSE g[i]]
  <2>1. ASSUME NEW i \in 0 .. n
        PROVE  h[i] = IF i = 0 THEN C ELSE OneMore(h[i - 1])
    <3>1. CASE i = 0
      <4>1. 0 # n /\ 0 \in 0 .. n /\ 0 \in 0 .. n - 1
        BY <1>3, <1>5, <1>6
      <4>2. g[0] = C
        BY <1>8, <4>1
      <4> QED  BY <3>1, <4>1, <4>2
    <3>2. CASE i # 0 /\ i # n
      <4>1. i \in 0 .. n - 1 /\ i - 1 \in 0 .. n /\ i - 1 # n
        BY <1>3, <3>2
      <4>2. g[i] = OneMore(g[i - 1])
        BY <1>8, <3>2, <4>1
      <4>3. h[i - 1] = g[i - 1] /\ h[i] = g[i]
        BY <3>2, <4>1
      <4> QED  BY <3>2, <4>2, <4>3
    <3>3. CASE i = n
      <4>1. i # 0 /\ i - 1 \in 0 .. n /\ i - 1 # n /\ i - 1 = n - 1
        BY <1>3, <1>5, <3>3
      <4>2. h[i - 1] = g[n - 1]
        BY <4>1
      <4> QED  BY <3>3, <4>1, <4>2
    <3> QED  BY <3>1, <3>2, <3>3
  <2>2. h = [i \in 0 .. n |-> h[i]]
    OBVIOUS
  <2> HIDE DEF h
  <2>3. h = [i \in 0 .. n |-> IF i = 0 THEN C ELSE OneMore(h[i - 1])]
    BY <2>1, <2>2
  <2>4. Layers(C, n, h)
    BY <2>3 DEF Layers
  <2> QED  BY <2>4 DEF h
<1> QED  BY <1>4, <1>9

LEMMA ExtendedIs ==
    ASSUME IsFiniteSet(Threads), NEW C
    PROVE  \E g : /\ g[0] = C
                  /\ \A n \in Nat : n + 1 <= Cardinality(Threads) =>
                        g[n + 1] = OneMore(g[n])
                  /\ Extended(C) = g[Cardinality(Threads)]
<1> DEFINE N == Cardinality(Threads)
<1>1. N \in Nat
  BY FS_CardinalityType
<1> DEFINE ext == CHOOSE ext : ext = [n \in 0 .. N |-> IF n = 0 THEN C
                                                       ELSE OneMore(ext[n - 1])]
<1>2. Extended(C) = ext[N]
  BY DEF Extended
<1>3. \E g : g = [n \in 0 .. N |-> IF n = 0 THEN C ELSE OneMore(g[n - 1])]
  <2> HIDE DEF N
  <2>1. \E g : Layers(C, N, g)
    BY <1>1, LayersExist
  <2> QED  BY <2>1 DEF Layers
<1>4. ext = [n \in 0 .. N |-> IF n = 0 THEN C ELSE OneMore(ext[n - 1])]
  <2> HIDE DEF N
  <2> QED  BY <1>3, Zenon
<1> HIDE DEF ext, N
<1>5. ext[0] = C
  BY <1>1, <1>4
<1>6. ASSUME NEW n \in Nat, n + 1 <= N PROVE ext[n + 1] = OneMore(ext[n])
  <2>1. n + 1 \in 0 .. N /\ n + 1 # 0 /\ n + 1 - 1 = n
    BY <1>1, <1>6
  <2>2. \A i \in 0 .. N : ext[i] = IF i = 0 THEN C ELSE OneMore(ext[i - 1])
    BY <1>4, Zenon
  <2>3. ext[n + 1] = OneMore(ext[n + 1 - 1])
    BY <2>1, <2>2
  <2> QED  BY <2>1, <2>3
<1> QED  BY <1>2, <1>5, <1>6 DEF N

LEMMA OneMoreIs ==
    ASSUME NEW C
    PROVE  /\ C \subseteq OneMore(C)
           /\ \A c \in C, t \in Threads :
                 c.ans[t] = "pending" => Applied(c, t) \in OneMore(C)
           /\ \A d \in OneMore(C) : d \in C \/
                 \E c \in C, t \in Threads : c.ans[t] = "pending" /\ d = Applied(c, t)
BY DEF OneMore

\* The threads whose operations have not taken effect yet.
PendingIn(c) == {t \in Threads : c.ans[t] = "pending"}

LEMMA FewerPending ==
    ASSUME IsFiniteSet(Threads), ReqTyped, NEW c \in Configs, NEW t \in Threads,
           c.ans[t] = "pending"
    PROVE  Cardinality(PendingIn(Applied(c, t))) = Cardinality(PendingIn(c)) - 1
<1>1. PendingIn(Applied(c, t)) = PendingIn(c) \ {t}
  BY AppliedIs DEF PendingIn
<1>2. IsFiniteSet(PendingIn(c)) /\ t \in PendingIn(c)
  <2>1. PendingIn(c) \subseteq Threads
    BY DEF PendingIn
  <2> QED  BY <2>1, FS_Subset DEF PendingIn
<1> QED  BY <1>1, <1>2, FS_RemoveElement

LEMMA PendingIsNat ==
    ASSUME IsFiniteSet(Threads), NEW c
    PROVE  /\ Cardinality(PendingIn(c)) \in Nat
           /\ Cardinality(PendingIn(c)) <= Cardinality(Threads)
           /\ \A t \in Threads : c.ans[t] = "pending" => Cardinality(PendingIn(c)) >= 1
<1>1. PendingIn(c) \subseteq Threads
  BY DEF PendingIn
<1>2. /\ IsFiniteSet(PendingIn(c)) /\ Cardinality(PendingIn(c)) \in Nat
      /\ Cardinality(PendingIn(c)) <= Cardinality(Threads)
  BY <1>1, FS_Subset, FS_CardinalityType
<1>3. ASSUME NEW t \in Threads, c.ans[t] = "pending"
      PROVE  Cardinality(PendingIn(c)) >= 1
  <2>1. PendingIn(c) # {}
    BY <1>3 DEF PendingIn
  <2>2. Cardinality(PendingIn(c)) # 0
    BY <1>2, <2>1, FS_EmptySet
  <2> QED  BY <1>2, <2>2
<1> QED  BY <1>2, <1>3

\* A set of natural numbers with 0 and with the successor of each up to N.
LEMMA UpTo ==
    ASSUME NEW N \in Nat, NEW T, 0 \in T,
           \A n \in Nat : n \in T /\ n + 1 <= N => n + 1 \in T
    PROVE  \A n \in 0 .. N : n \in T
<1> DEFINE B == {n \in Nat : n <= N /\ n \notin T}
<1> SUFFICES ASSUME B # {} PROVE FALSE
  OBVIOUS
<1>1. \E n \in B : \A z \in B : <<z, n>> \notin OpToRel(<, Nat)
  <2>1. B \subseteq Nat
    OBVIOUS
  <2> HIDE DEF B
  <2> QED  BY <2>1, WFMin, NatLessThanWellFounded
<1>2. PICK n \in B : \A z \in B : <<z, n>> \notin OpToRel(<, Nat)
  BY <1>1
<1>3. n \in Nat /\ n <= N /\ n \notin T /\ \A z \in B : ~(z < n)
  BY <1>2 DEF OpToRel
<1>4. n # 0
  BY <1>3
<1>5. n - 1 \in Nat /\ n - 1 <= N /\ n - 1 < n /\ n - 1 + 1 = n
  BY <1>3, <1>4
<1>6. n - 1 \in T
  BY <1>3, <1>5
<1> QED  BY <1>3, <1>5, <1>6

\* Extended(C) is the least closed set around C.
LEMMA ExtendedIsClosure ==
    ASSUME IsFiniteSet(Threads), ReqTyped, NEW C \in SUBSET Configs
    PROVE  /\ C \subseteq Extended(C)
           /\ Extended(C) \subseteq Configs
           /\ Closed(Extended(C))
           /\ \A D : C \subseteq D /\ Closed(D) => Extended(C) \subseteq D
<1> DEFINE N == Cardinality(Threads)
<1>1. N \in Nat
  BY FS_CardinalityType
<1>2. PICK g : /\ g[0] = C
               /\ \A n \in Nat : n + 1 <= N => g[n + 1] = OneMore(g[n])
               /\ Extended(C) = g[N]
  BY ExtendedIs
<1> HIDE DEF N
<1>3. ASSUME NEW D, C \subseteq D, Closed(D)
      PROVE  \A n \in 0 .. N : g[n] \subseteq D
  <2> DEFINE T == {n \in Nat : g[n] \subseteq D}
  <2>1. 0 \in T
    BY <1>2, <1>3
  <2>2. ASSUME NEW n \in Nat, n \in T, n + 1 <= N PROVE n + 1 \in T
    <3>1. \A d \in OneMore(g[n]) : d \in D
      BY <1>3, <2>2, OneMoreIs DEF Closed
    <3> QED  BY <1>2, <2>2, <3>1
  <2> HIDE DEF T
  <2>3. \A n \in 0 .. N : n \in T
    BY <1>1, <2>1, <2>2, UpTo
  <2> QED  BY <2>3 DEF T
<1>4. ASSUME NEW D, C \subseteq D, Closed(D) PROVE Extended(C) \subseteq D
  BY <1>1, <1>2, <1>3, <1>4
<1>5. Closed(Configs)
  BY AppliedIs DEF Closed
<1>6. \A n \in 0 .. N : g[n] \subseteq Configs
  BY <1>3, <1>5
<1>7. \A n \in 0 .. N : C \subseteq g[n]
  <2> DEFINE T == {n \in Nat : C \subseteq g[n]}
  <2>1. 0 \in T
    BY <1>2
  <2>2. ASSUME NEW n \in Nat, n \in T, n + 1 <= N PROVE n + 1 \in T
    <3>1. g[n] \subseteq OneMore(g[n])
      BY OneMoreIs
    <3> QED  BY <1>2, <2>2, <3>1
  <2> HIDE DEF T
  <2>3. \A n \in 0 .. N : n \in T
    BY <1>1, <2>1, <2>2, UpTo
  <2> QED  BY <2>3 DEF T
\* What a layer adds has fewer operations that go on.
<1> DEFINE New(n) == \A c \in g[n] : (n >= 1 /\ c \in g[n - 1])
                                        \/ Cardinality(PendingIn(c)) <= N - n
<1>8. \A n \in 0 .. N : New(n)
  <2> DEFINE T == {n \in Nat : New(n)}
  <2>1. 0 \in T
    <3>1. \A c \in g[0] : Cardinality(PendingIn(c)) <= N - 0
      BY <1>1, PendingIsNat DEF N
    <3> QED  BY <3>1
  <2>2. ASSUME NEW n \in Nat, n \in T, n + 1 <= N PROVE n + 1 \in T
    <3>1. SUFFICES ASSUME NEW d \in g[n + 1], d \notin g[n]
                   PROVE  Cardinality(PendingIn(d)) <= N - (n + 1)
      BY <2>2
    <3>2. g[n + 1] = OneMore(g[n])
      BY <1>2, <2>2
    <3>3. PICK c \in g[n], t \in Threads : c.ans[t] = "pending" /\ d = Applied(c, t)
      BY <3>1, <3>2, OneMoreIs
    <3>4. c \in Configs
      BY <1>1, <1>6, <2>2
    <3>5. n >= 1 => c \notin g[n - 1]
      <4> SUFFICES ASSUME n >= 1, c \in g[n - 1] PROVE FALSE
        OBVIOUS
      <4>1. n - 1 \in Nat /\ n - 1 + 1 <= N /\ n - 1 + 1 = n
        BY <1>1, <2>2
      <4>2. g[n] = OneMore(g[n - 1])
        BY <1>2, <4>1
      <4>3. d \in g[n]
        BY <3>3, <4>2, OneMoreIs
      <4> QED  BY <3>1, <4>3
    <3>6. Cardinality(PendingIn(c)) <= N - n
      BY <2>2, <3>3, <3>5
    <3>7. Cardinality(PendingIn(d)) = Cardinality(PendingIn(c)) - 1
      BY <3>3, <3>4, FewerPending
    <3>8. Cardinality(PendingIn(c)) \in Nat
      BY PendingIsNat
    <3> QED  BY <1>1, <3>6, <3>7, <3>8
  <2> HIDE DEF T
  <2>3. \A n \in 0 .. N : n \in T
    BY <1>1, <2>1, <2>2, UpTo
  <2> QED  BY <2>3 DEF T
<1>9. ASSUME NEW c \in g[N], NEW t \in Threads, c.ans[t] = "pending"
      PROVE  Applied(c, t) \in g[N]
  <2>1. Cardinality(PendingIn(c)) >= 1 /\ Cardinality(PendingIn(c)) \in Nat
    BY <1>9, PendingIsNat
  <2>2. New(N)
    BY <1>1, <1>8
  <2>3. N >= 1 /\ c \in g[N - 1]
    BY <1>1, <2>1, <2>2
  <2>4. g[N] = OneMore(g[N - 1])
    <3>1. N - 1 \in Nat /\ N - 1 + 1 <= N /\ N - 1 + 1 = N
      BY <1>1, <2>3
    <3> QED  BY <1>2, <3>1
  <2> QED  BY <1>9, <2>3, <2>4, OneMoreIs
<1>10. Closed(Extended(C))
  BY <1>2, <1>9 DEF Closed
<1> QED  BY <1>1, <1>2, <1>4, <1>6, <1>7, <1>10

\* The same, of lin, in every state.
LinFacts ==
    ReqTyped /\ lin \subseteq Configs =>
       /\ lin \subseteq Extended(lin)
       /\ Extended(lin) \subseteq Configs
       /\ Closed(Extended(lin))
       /\ \A D : lin \subseteq D /\ Closed(D) => Extended(lin) \subseteq D

LEMMA LinHasFacts == ASSUME IsFiniteSet(Threads) PROVE LinFacts /\ LinFacts'
<1>1. LinFacts
  BY ExtendedIsClosure DEF LinFacts
<1> QED  BY <1>1, PTL

-----------------------------------------------------------------------------
(* How a step of t changes what is feasible.                               *)

\* The set S after the operation of t, and what it answers.
Made(t, S) ==
    CASE req[t].op = "find" -> S
      [] req[t].op = "insert" -> S \cup {req[t].key}
      [] req[t].op = "delete" -> S \ {req[t].key}
Answer(t, S) ==
    IF (req[t].key \in S) = (req[t].op # "insert") THEN "yes" ELSE "no"

\* The others may answer what they might before.
OthersKeep(t, A, B) == \A u \in Threads \ {t} : B[u] \subseteq A[u]

LEMMA Effect ==
    ASSUME IsFiniteSet(Threads), ReqTyped, lin \subseteq Configs, NEW t \in Threads,
           NEW S \in SUBSET Nat, NEW A, NEW B, Feasible(S, A), OthersKeep(t, A, B),
           "pending" \in A[t], B[t] \subseteq {Answer(t, S)}
    PROVE  Feasible(Made(t, S), B)
<1> SUFFICES ASSUME NEW f \in [Threads -> Answers], \A u \in Threads : f[u] \in B[u]
             PROVE  [set |-> Made(t, S), ans |-> f] \in Extended(lin)
  BY DEF Feasible
<1> DEFINE g == [f EXCEPT ![t] = "pending"]
           c == [set |-> S, ans |-> g]
<1>1. g \in [Threads -> Answers] /\ g[t] = "pending"
  BY DEF Answers
<1>2. \A u \in Threads : g[u] \in A[u]
  BY DEF OthersKeep
<1>3. c \in Extended(lin)
  BY <1>1, <1>2 DEF Feasible
<1>4. Closed(Extended(lin))
  BY LinHasFacts DEF LinFacts
<1>5. Applied(c, t) \in Extended(lin)
  BY <1>1, <1>3, <1>4 DEF Closed
<1>6. Applied(c, t) = [set |-> Made(t, S), ans |-> [g EXCEPT ![t] = Answer(t, S)]]
  BY DEF Applied, Made, Answer
<1>7. [g EXCEPT ![t] = Answer(t, S)] = f
  <2>1. f[t] = Answer(t, S)
    OBVIOUS
  <2> QED  BY <2>1
<1> QED  BY <1>5, <1>6, <1>7

\* An operation that changes nothing may have taken effect.
LEMMA Observe ==
    ASSUME IsFiniteSet(Threads), ReqTyped, lin \subseteq Configs, NEW t \in Threads,
           NEW S \in SUBSET Nat, NEW A, NEW B, Feasible(S, A), OthersKeep(t, A, B),
           "pending" \in A[t], Made(t, S) = S, B[t] \subseteq A[t] \cup {Answer(t, S)}
    PROVE  Feasible(S, B)
<1> SUFFICES ASSUME NEW f \in [Threads -> Answers], \A u \in Threads : f[u] \in B[u]
             PROVE  [set |-> S, ans |-> f] \in Extended(lin)
  BY DEF Feasible
<1>1. CASE f[t] \in A[t]
  BY <1>1 DEF Feasible, OthersKeep
<1>2. CASE f[t] = Answer(t, S)
  <2> DEFINE D == [u \in Threads |-> {f[u]}]
  <2>1. OthersKeep(t, A, D) /\ D[t] \subseteq {Answer(t, S)}
    BY <1>2 DEF OthersKeep
  <2>2. \A u \in Threads : f[u] \in D[u]
    OBVIOUS
  <2> HIDE DEF D
  <2>3. Feasible(Made(t, S), D)
    BY <2>1, Effect
  <2> QED  BY <2>2, <2>3 DEF Feasible
<1> QED  BY <1>1, <1>2

LEMMA Weaker ==
    ASSUME NEW t \in Threads, NEW S, NEW A, NEW B, Feasible(S, A), OthersKeep(t, A, B),
           B[t] \subseteq A[t]
    PROVE  Feasible(S, B)
BY DEF Feasible, OthersKeep

\* A step within an operation leaves what is feasible.
LEMMA OnKeeps ==
    ASSUME IsFiniteSet(Threads), ReqTyped, lin \subseteq Configs, UNCHANGED <<req, lin>>,
           NEW S, NEW A, Feasible(S, A)
    PROVE  Feasible(S, A)'
<1>1. ReqTyped' /\ (lin \subseteq Configs)'
  BY DEF ReqTyped
<1>2. Closed(Extended(lin)') /\ lin \subseteq Extended(lin)'
  <2>1. Closed(Extended(lin))' /\ lin' \subseteq Extended(lin)'
    BY <1>1, LinHasFacts DEF LinFacts
  <2>2. \A c, t : Applied(c, t)' = Applied(c, t)
    BY DEF Applied
  <2> QED  BY <2>1, <2>2 DEF Closed
<1>3. Extended(lin) \subseteq Extended(lin)'
  BY <1>2, LinHasFacts DEF LinFacts
<1> QED  BY <1>3 DEF Feasible

\* So does a return, of an answer that t may give.
LEMMA ReturnKeeps ==
    ASSUME IsFiniteSet(Threads), ReqTyped, lin \subseteq Configs, ReqTyped',
           NEW t \in Threads, NEW a \in Answers,
           lin' = {[c EXCEPT !.ans[t] = "none"] :
                      c \in {d \in Extended(lin) : d.ans[t] = a}},
           NEW S, NEW A, NEW B, Feasible(S, A), OthersKeep(t, A, B),
           a \in A[t], B[t] \subseteq {"none"}
    PROVE  (lin \subseteq Configs)' /\ Feasible(S, B)'
<1>1. Extended(lin) \subseteq Configs
  BY LinHasFacts DEF LinFacts
<1>2. \A c \in Configs : [c EXCEPT !.ans[t] = "none"] \in Configs
  BY DEF Configs, Answers
<1>3. (lin \subseteq Configs)'
  BY <1>1, <1>2
<1>4. lin' \subseteq Extended(lin)'
  BY <1>3, LinHasFacts DEF LinFacts
<1>5. ASSUME NEW f \in [Threads -> Answers], \A u \in Threads : f[u] \in B[u]
      PROVE  [set |-> S, ans |-> f] \in lin'
  <2> DEFINE g == [f EXCEPT ![t] = a]
             c == [set |-> S, ans |-> g]
  <2>1. g \in [Threads -> Answers] /\ g[t] = a
    OBVIOUS
  <2>2. \A u \in Threads : g[u] \in A[u]
    BY <1>5 DEF OthersKeep
  <2>3. c \in Extended(lin)
    BY <2>1, <2>2 DEF Feasible
  <2>4. [g EXCEPT ![t] = "none"] = f
    <3>1. f[t] = "none"
      BY <1>5
    <3> QED  BY <3>1
  <2>5. [c EXCEPT !.ans[t] = "none"] = [set |-> S, ans |-> f]
    BY <2>4
  <2> QED  BY <2>1, <2>3, <2>5
<1> QED  BY <1>3, <1>4, <1>5 DEF Feasible

\* And a call.
LEMMA CallKeeps ==
    ASSUME IsFiniteSet(Threads), ReqTyped, lin \subseteq Configs, ReqTyped',
           NEW t \in Threads,
           \A u \in Threads \ {t} : req'[u] = req[u],
           lin' = {[c EXCEPT !.ans[t] = "pending"] : c \in lin},
           NEW S, NEW A, NEW B, Feasible(S, A), OthersKeep(t, A, B),
           "none" \in A[t], B[t] \subseteq {"pending"}
    PROVE  (lin \subseteq Configs)' /\ Feasible(S, B)'
<1>1. \A c \in Configs : [c EXCEPT !.ans[t] = "pending"] \in Configs
  BY DEF Configs, Answers
<1>2. (lin \subseteq Configs)'
  BY <1>1
<1>3. lin' \subseteq Extended(lin)' /\ Closed(Extended(lin))'
  BY <1>2, LinHasFacts DEF LinFacts
<1> DEFINE E == {c \in Configs : c.ans[t] = "none" =>
                    [c EXCEPT !.ans[t] = "pending"] \in Extended(lin)'}
<1>4. lin \subseteq E
  BY <1>3
<1>5. Closed(E)
  <2> SUFFICES ASSUME NEW c \in E, NEW u \in Threads, c.ans[u] = "pending"
               PROVE  Applied(c, u) \in E
    BY DEF Closed
  <2>1. Applied(c, u) \in Configs
    BY AppliedIs
  <2>2. ASSUME Applied(c, u).ans[t] = "none"
        PROVE  [Applied(c, u) EXCEPT !.ans[t] = "pending"] \in Extended(lin)'
    <3>1. u # t
      BY <2>2, AppliedIs
    <3>2. c.ans[t] = "none"
      BY <2>2, <3>1, AppliedIs
    <3> DEFINE d == [c EXCEPT !.ans[t] = "pending"]
    <3>3. d \in Extended(lin)' /\ d.ans[u] = "pending"
      BY <3>1, <3>2 DEF Configs
    <3>4. Applied(d, u)' \in Extended(lin)'
      BY <1>3, <3>3 DEF Closed
    <3>5. Applied(d, u)' = [Applied(c, u) EXCEPT !.ans[t] = "pending"]
      <4> DEFINE y == IF (req[u].key \in c.set) = (req[u].op # "insert") THEN "yes" ELSE "no"
      <4>1. req'[u] = req[u] /\ d.set = c.set
        BY <3>1 DEF Configs
      <4>2. /\ Applied(d, u)' = [set |-> Made(u, c.set), ans |-> [d.ans EXCEPT ![u] = y]]
            /\ Applied(c, u) = [set |-> Made(u, c.set), ans |-> [c.ans EXCEPT ![u] = y]]
        BY <4>1 DEF Applied, Made
      <4> HIDE DEF y
      <4>3. [Applied(c, u) EXCEPT !.ans[t] = "pending"]
              = [set |-> Made(u, c.set),
                 ans |-> [[c.ans EXCEPT ![u] = y] EXCEPT ![t] = "pending"]]
        BY <4>2
      <4>4. c.ans \in [Threads -> Answers] /\ d.ans = [c.ans EXCEPT ![t] = "pending"]
        BY DEF Configs
      <4>5. [[c.ans EXCEPT ![u] = y] EXCEPT ![t] = "pending"] = [d.ans EXCEPT ![u] = y]
        BY <3>1, <4>4
      <4> QED  BY <4>2, <4>3, <4>5
    <3> QED  BY <3>4, <3>5
  <2> QED  BY <2>1, <2>2
<1>6. Extended(lin) \subseteq E
  <2> HIDE DEF E
  <2> QED  BY <1>4, <1>5, LinHasFacts DEF LinFacts
<1>7. ASSUME NEW f \in [Threads -> Answers], \A u \in Threads : f[u] \in B[u]
      PROVE  [set |-> S, ans |-> f] \in Extended(lin)'
  <2> DEFINE g == [f EXCEPT ![t] = "none"]
             c == [set |-> S, ans |-> g]
  <2>1. g \in [Threads -> Answers] /\ g[t] = "none"
    BY DEF Answers
  <2>2. \A u \in Threads : g[u] \in A[u]
    BY <1>7 DEF OthersKeep
  <2>3. c \in Extended(lin)
    BY <2>1, <2>2 DEF Feasible
  <2>4. [g EXCEPT ![t] = "pending"] = f
    <3>1. f[t] = "pending"
      BY <1>7
    <3> QED  BY <3>1
  <2>5. [c EXCEPT !.ans[t] = "pending"] = [set |-> S, ans |-> f]
    BY <2>4
  <2> QED  BY <1>6, <2>1, <2>3, <2>5
<1> QED  BY <1>2, <1>7 DEF Feasible

\* If every operation may still give some answer, there is a way to linearize.
LEMMA FeasibleIsEnough ==
    ASSUME IsFiniteSet(Threads), ReqTyped, lin \subseteq Configs, NEW S, NEW A,
           Feasible(S, A), \A t \in Threads : \E a \in Answers : a \in A[t]
    PROVE  Linearizable
<1> DEFINE f == [t \in Threads |-> CHOOSE a \in Answers : a \in A[t]]
<1>1. \A t \in Threads : f[t] \in Answers /\ f[t] \in A[t]
  OBVIOUS
<1>2. f \in [Threads -> Answers]
  BY <1>1
<1> HIDE DEF f
<1>3. [set |-> S, ans |-> f] \in Extended(lin)
  BY <1>1, <1>2 DEF Feasible
<1>4. lin = {} => Extended(lin) \subseteq {}
  <2>1. Closed({})
    BY DEF Closed
  <2>2. lin = {} => lin \subseteq {}
    OBVIOUS
  <2> QED  BY <2>1, <2>2, LinHasFacts DEF LinFacts
<1> QED  BY <1>3, <1>4 DEF Linearizable

\* What the list is, at a node that is not the last one.
LEMMA Neighbours ==
    ASSUME ListAssumption, NEW L, Shape(L), NEW w \in DOMAIN mem, Key(w) < KEY_MAX
    PROVE  /\ Succ(w) \in DOMAIN mem /\ Key(w) < Key(Succ(w))
           /\ w \in L => Succ(w) \in L
           /\ w \in L => \A n \in L : Key(n) <= Key(w) \/ Key(Succ(w)) <= Key(n)
           /\ Live(w) => w \in L
<1>1. Key(w) # KEY_MAX
  BY NodesAre, KeysAre DEF Shape
<1> QED  BY <1>1 DEF Shape, NodesOK, ListOK

LEMMA Nodes ==
    ASSUME ListAssumption, NEW L, Shape(L)
    PROVE  /\ L \subseteq DOMAIN mem /\ head \in L /\ Live(head)
           /\ \A n \in DOMAIN mem : Key(n) \in Nat /\ 0 <= Key(n) /\ Key(n) <= KEY_MAX
           /\ KEY_MAX \in Nat \ {0} /\ Key(head) = 0
<1>1. \A n \in DOMAIN mem : Key(n) \in Nat /\ Key(n) <= KEY_MAX
  BY NodesAre DEF Shape
<1> QED  BY <1>1, KeysAre DEF Shape, NodesOK, ListOK

\* The node r gets its mark.
LEMMA MarkChange ==
    ASSUME ListAssumption, NEW L, Shape(L), NEW r \in DOMAIN mem, Live(r),
           Key(r) \in Keys, mem' = [mem EXCEPT ![r].next = WithMark(mem[r].next)]
    PROVE  Becomes(L, L) /\ Contents' = Contents \ {Key(r)}
<1>1. 0 < Key(r) /\ Key(r) < KEY_MAX
  BY KeysAre
<1>2. MemOK /\ mem[r].next = <<Succ(r), 0>> /\ Succ(r) \in Nat
  BY NodesAre DEF Shape
<1>3. WithMark(mem[r].next) = <<Succ(r), 1>> /\ <<Succ(r), 1>> \in Nat \X {0, 1}
  BY <1>2 DEF WithMark
<1>4. /\ MemOK' /\ DOMAIN mem' = DOMAIN mem
      /\ \A n \in DOMAIN mem :
            /\ Key(n)' = Key(n)
            /\ mem'[n].next = IF n = r THEN <<Succ(r), 1>> ELSE mem[n].next
  BY <1>2, <1>3, Changed
<1>5. \A n \in DOMAIN mem : Succ(n)' = Succ(n) /\ (Live(n)' <=> Live(n) /\ n # r)
  BY <1>4 DEF Succ, Live, Marked
<1>6. UNCHANGED <<head, KEY_MAX, KEY_MIN>>
  BY DEF head, KEY_MAX, KEY_MIN
<1>7. NodesOK'
  <2>1. (head \in DOMAIN mem /\ Key(head) = KEY_MIN)'
    BY <1>4, <1>6 DEF Shape, NodesOK
  <2>2. ASSUME NEW n \in DOMAIN mem
        PROVE  IF Key(n) = KEY_MAX THEN Live(n)'
               ELSE Succ(n) \in DOMAIN mem /\ Key(n) < Key(Succ(n))
    <3>1. Key(n) = KEY_MAX => Live(n) /\ n # r
      BY <1>1, KeysAre DEF Shape, NodesOK
    <3> QED  BY <1>5, <3>1 DEF Shape, NodesOK
  <2>3. ASSUME NEW n \in DOMAIN mem, Key(n) = KEY_MIN PROVE Live(n)'
    <3>1. Live(n) /\ n # r
      BY <1>1, <2>3, KeysAre DEF Shape, NodesOK
    <3> QED  BY <1>5, <3>1
  <2> QED  BY <1>4, <1>5, <1>6, <2>1, <2>2, <2>3 DEF NodesOK
<1>8. L \subseteq DOMAIN mem
  BY DEF Shape, ListOK
<1>9. ListOK(L)'
  BY <1>4, <1>5, <1>6, <1>8 DEF Shape, NodesOK, ListOK
<1>10. Shape(L)'
  BY <1>4, <1>7, <1>9 DEF Shape
<1>11. Grows
  BY <1>4 DEF Grows
<1>12. RunsKept(L, L)
  <2> SUFFICES ASSUME NEW c \in DOMAIN mem, NEW d \in DOMAIN mem, Run(c, d, L)
               PROVE  Run(c, d, L)'
    BY DEF RunsKept
  <2> QED  BY <1>4, <1>5, <1>8 DEF Run
<1>13. Contents' = Contents \ {Key(r)}
  <2>1. \A a, b \in L : Key(a) = Key(b) => a = b
    BY DEF Shape, ListOK
  <2>2. \A n \in DOMAIN mem : Live(n) => n \in L
    BY DEF Shape, ListOK
  <2>3. \A n \in DOMAIN mem : Live(n) /\ Key(n) = Key(r) => n = r
    BY <2>1, <2>2
  <2>4. \A k : k \in Contents' <=> k \in Keys /\ \E n \in DOMAIN mem : Live(n) /\ n # r /\ Key(n) = k
    BY <1>4, <1>5 DEF Contents
  <2>5. \A k : k \in Contents \ {Key(r)} <=>
           k \in Keys /\ k # Key(r) /\ \E n \in DOMAIN mem : Live(n) /\ Key(n) = k
    BY DEF Contents
  <2>6. \A k : k \in Contents' <=> k \in Contents \ {Key(r)}
    BY <2>3, <2>4, <2>5
  <2> QED  BY <2>6
<1> QED  BY <1>10, <1>11, <1>12, <1>13 DEF Becomes

\* The link of w skips the nodes up to r, all of them marked.
LEMMA UnlinkChange ==
    ASSUME ListAssumption, NEW L, Shape(L), NEW w \in DOMAIN mem, Live(w),
           NEW r \in L, Key(w) < Key(r),
           \A n \in L : Live(n) => Key(n) <= Key(w) \/ Key(r) <= Key(n),
           mem' = [mem EXCEPT ![w].next = <<r, 0>>]
    PROVE  /\ \E M \in SUBSET DOMAIN mem' : Becomes(L, M)
           /\ Contents' = Contents
<1>0. PICK M : M = {n \in L : Key(n) <= Key(w) \/ Key(r) <= Key(n)}
  OBVIOUS
<1>1. L \subseteq DOMAIN mem /\ MemOK /\ r \in Nat
  BY NodesAre DEF Shape, ListOK
<1>2. w \in L
  BY DEF Shape, ListOK
<1>3. <<r, 0>> \in Nat \X {0, 1}
  BY <1>1
<1>4. /\ MemOK' /\ DOMAIN mem' = DOMAIN mem
      /\ \A n \in DOMAIN mem :
            /\ Key(n)' = Key(n)
            /\ mem'[n].next = IF n = w THEN <<r, 0>> ELSE mem[n].next
  BY <1>1, <1>3, Changed
<1>5. \A n \in DOMAIN mem : /\ Succ(n)' = IF n = w THEN r ELSE Succ(n)
                            /\ Live(n)' <=> Live(n)
  BY <1>4 DEF Succ, Live, Marked
<1>6. /\ \A n \in DOMAIN mem : Key(n) \in Nat /\ Key(n) <= KEY_MAX
      /\ KEY_MAX \in Nat /\ Key(head) = 0
  BY Nodes
<1>7. UNCHANGED <<head, KEY_MAX, KEY_MIN>>
  BY DEF head, KEY_MAX, KEY_MIN
<1>8. NodesOK'
  <2>1. ASSUME NEW n \in DOMAIN mem
        PROVE  IF Key(n) = KEY_MAX THEN Live(n)'
               ELSE (Succ(n) \in DOMAIN mem /\ Key(n) < Key(Succ(n)))'
    <3>1. CASE n = w
      BY <1>1, <1>4, <1>5, <1>6, <3>1
    <3>2. CASE n # w
      BY <1>4, <1>5, <3>2 DEF Shape, NodesOK
    <3> QED  BY <3>1, <3>2
  <2> QED  BY <1>4, <1>5, <1>7, <2>1 DEF Shape, NodesOK
<1>9. M \subseteq L /\ w \in M /\ r \in M /\ head \in M
  <2>1. head \in L
    BY Nodes
  <2> QED  BY <1>0, <1>1, <1>2, <1>6, <2>1
<1>10. \A n \in DOMAIN mem : Live(n) => n \in M
  BY <1>0 DEF Shape, ListOK
<1>11. ASSUME NEW a \in M, Key(a) # KEY_MAX
       PROVE  Succ(a)' \in M /\ \A n \in M : Key(n) <= Key(a) \/ Key(Succ(a)') <= Key(n)
  <2>1. CASE a = w
    BY <1>0, <1>1, <1>5, <1>9, <2>1
  <2>2. CASE a # w
    <3>1. /\ Succ(a) \in L
          /\ \A n \in L : Key(n) <= Key(a) \/ Key(Succ(a)) <= Key(n)
          /\ Key(a) < Key(Succ(a))
      BY <1>1, <1>9, <1>11 DEF Shape, NodesOK, ListOK
    <3>2. Succ(a)' = Succ(a)
      BY <1>1, <1>5, <1>9, <2>2
    <3>3. Key(a) # Key(w)
      BY <1>2, <1>9, <2>2 DEF Shape, ListOK
    <3>4. Key(a) < Key(w) \/ Key(r) <= Key(a)
      BY <1>0, <1>1, <1>2, <1>6, <3>3
    <3>5. Key(Succ(a)) <= Key(w) \/ Key(r) <= Key(Succ(a))
      <4>1. Succ(a) \in DOMAIN mem
        BY <1>1, <3>1
      <4> QED  BY <1>1, <1>2, <1>6, <1>9, <3>1, <3>4, <4>1
    <3> QED  BY <1>0, <1>9, <3>1, <3>2, <3>5
  <2> QED  BY <2>1, <2>2
<1>12. \A a, b \in M : Key(a) = Key(b) => a = b
  BY <1>9 DEF Shape, ListOK
<1>13. ListOK(M)'
  <2>1. M \subseteq DOMAIN mem
    BY <1>1, <1>9
  <2>2. ASSUME NEW a \in M, Key(a)' # KEY_MAX'
        PROVE  /\ Succ(a)' \in M
               /\ \A n \in M : Key(n)' <= Key(a)' \/ Key(Succ(a))' <= Key(n)'
    <3>1. a \in DOMAIN mem /\ Key(a)' = Key(a) /\ Key(a) # KEY_MAX
      BY <1>4, <1>7, <2>1, <2>2
    <3>2. Succ(a)' \in M /\ \A n \in M : Key(n) <= Key(a) \/ Key(Succ(a)') <= Key(n)
      BY <1>11, <3>1
    <3>3. Key(Succ(a))' = Key(Succ(a)')
      <4> PICK s \in M : s = Succ(a)'
        BY <3>2
      <4>1. Key(s)' = Key(s)
        BY <1>4, <2>1
      <4> QED  BY <4>1 DEF Key
    <3> QED  BY <1>4, <2>1, <3>1, <3>2, <3>3
  <2>3. \A n \in DOMAIN mem' : Live(n)' => n \in M
    BY <1>4, <1>5, <1>10
  <2>4. \A a, b \in M : Key(a)' = Key(b)' => a = b
    BY <1>4, <1>12, <2>1
  <2> QED  BY <1>4, <1>7, <1>9, <2>1, <2>2, <2>3, <2>4 DEF ListOK
<1>14. Shape(M)'
  BY <1>4, <1>8, <1>13 DEF Shape
<1>15. Grows
  <2>1. \A n \in DOMAIN mem : ~Live(n) => mem'[n].next = mem[n].next
    BY <1>4
  <2> QED  BY <1>4, <2>1 DEF Grows
<1>16. RunsKept(L, M)
  <2> SUFFICES ASSUME NEW c \in DOMAIN mem, NEW d \in DOMAIN mem, Run(c, d, L), c \in M
               PROVE  /\ d \in M /\ Key(c)' <= Key(d)'
                      /\ \A n \in M : Live(n)' => Key(n)' < Key(c)' \/ Key(d)' <= Key(n)'
    BY DEF RunsKept, Run
  <2>1. /\ c \in L /\ d \in L /\ Key(c) <= Key(d)
        /\ \A n \in L : Live(n) => Key(n) < Key(c) \/ Key(d) <= Key(n)
    BY <1>9 DEF Run
  <2>2. d \in M
    <3>1. Key(w) < Key(c) \/ Key(d) <= Key(w)
      BY <1>2, <2>1
    <3>2. Key(c) <= Key(w) \/ Key(r) <= Key(c)
      BY <1>0
    <3>3. Key(d) <= Key(w) \/ Key(r) <= Key(d)
      BY <1>1, <1>2, <1>6, <2>1, <3>1, <3>2
    <3> QED  BY <1>0, <2>1, <3>3
  <2> QED  BY <1>1, <1>4, <1>5, <1>9, <2>1, <2>2
<1>17. Contents' = Contents
  BY <1>4, <1>5 DEF Contents
<1> QED  BY <1>1, <1>4, <1>9, <1>14, <1>15, <1>16, <1>17 DEF Becomes

\* A new node with the key k, between w and r.
LEMMA InsertChange ==
    ASSUME ListAssumption, NEW L, Shape(L), NEW w \in DOMAIN mem, NEW r \in DOMAIN mem,
           mem[w].next = <<r, 0>>, NEW k \in Keys, Key(w) < k, k < Key(r),
           mem' = Linked(node(k, r), w)
    PROVE  /\ \E M \in SUBSET DOMAIN mem' : Becomes(L, M)
           /\ Contents' = Contents \cup {k} /\ k \notin Contents
<1> DEFINE x == Fresh
<1>1. L \subseteq DOMAIN mem /\ MemOK /\ r \in Nat /\ Live(w) /\ Succ(w) = r
  BY NodesAre DEF Shape, ListOK, Live, Marked, Succ
<1>2. /\ \A n \in DOMAIN mem : Key(n) \in Nat /\ Key(n) <= KEY_MAX
      /\ KEY_MAX \in Nat /\ Key(head) = 0 /\ head \in L
      /\ k \in Nat /\ 0 < k /\ k < KEY_MAX /\ k \in 0 .. KEY_MAX
  BY Nodes, KeysAre
<1>3. /\ w \in L /\ r \in L /\ Key(w) < KEY_MAX
      /\ \A n \in L : Key(n) <= Key(w) \/ Key(r) <= Key(n)
  BY <1>1, <1>2, Neighbours
<1>4. /\ MemOK' /\ x \notin DOMAIN mem /\ DOMAIN mem' = (DOMAIN mem) \cup {x}
      /\ \A n \in DOMAIN mem :
            /\ Key(n)' = Key(n)
            /\ mem'[n].next = IF n = w THEN <<x, 0>> ELSE mem[n].next
      /\ mem'[x].key = k /\ mem'[x].next = <<r, 0>>
  BY <1>1, <1>2, LinkedIs
<1> HIDE DEF x
<1>5. PICK y : y = x
  OBVIOUS
<1>6. /\ MemOK' /\ y \notin DOMAIN mem /\ DOMAIN mem' = (DOMAIN mem) \cup {y}
      /\ \A n \in DOMAIN mem : /\ Key(n)' = Key(n)
                               /\ Succ(n)' = IF n = w THEN y ELSE Succ(n)
                               /\ Live(n)' <=> Live(n)
      /\ Key(y)' = k /\ Succ(y)' = r /\ Live(y)'
  BY <1>1, <1>4, <1>5 DEF Key, Succ, Live, Marked
<1> DEFINE M == L \cup {y}
<1>7. UNCHANGED <<head, KEY_MAX, KEY_MIN>>
  BY DEF head, KEY_MAX, KEY_MIN
<1>8. \A n \in L : n \in DOMAIN mem /\ n # y
  BY <1>1, <1>6
<1>9. NodesOK'
  <2>1. ASSUME NEW n \in DOMAIN mem'
        PROVE  IF Key(n)' = KEY_MAX THEN Live(n)'
               ELSE (Succ(n) \in DOMAIN mem /\ Key(n) < Key(Succ(n)))'
    <3>0. \A m : Key(m)' = mem'[m].key
      BY DEF Key
    <3>1. CASE n = w
      <4>1. Succ(n)' = y /\ Key(n)' = Key(w)
        BY <1>6, <3>1
      <4>2. Key(Succ(n))' = Key(y)'
        BY <4>1 DEF Key
      <4>3. Key(w) \in Nat /\ KEY_MAX \in Nat
        BY <1>2
      <4> QED  BY <1>3, <1>6, <4>1, <4>2, <4>3
    <3>2. CASE n = y
      <4>1. Key(Succ(n))' = Key(r)'
        BY <1>6, <3>2 DEF Key
      <4> QED  BY <1>6, <3>2, <4>1
    <3>3. CASE n \in (DOMAIN mem) \ {w}
      <4>1. Key(n)' = Key(n) /\ Succ(n)' = Succ(n) /\ (Live(n)' <=> Live(n))
        BY <1>6, <3>3
      <4>2. CASE Key(n) = KEY_MAX
        BY <3>3, <4>1, <4>2 DEF Shape, NodesOK
      <4>3. CASE Key(n) # KEY_MAX
        <5>1. Succ(n) \in DOMAIN mem /\ Key(n) < Key(Succ(n))
          BY <3>3, <4>3 DEF Shape, NodesOK
        <5>2. Key(Succ(n))' = Key(Succ(n))
          <6> PICK s \in DOMAIN mem : s = Succ(n)
            BY <5>1
          <6>1. Key(s)' = Key(s)
            BY <1>6
          <6> QED  BY <4>1, <6>1 DEF Key
        <5> QED  BY <1>6, <4>1, <4>3, <5>1, <5>2
      <4> QED  BY <4>2, <4>3
    <3> QED  BY <1>6, <3>1, <3>2, <3>3
  <2>2. ASSUME NEW n \in DOMAIN mem', Key(n)' = KEY_MIN PROVE Live(n)'
    BY <1>2, <1>6, <2>2, KeysAre DEF Shape, NodesOK
  <2>3. head \in DOMAIN mem' /\ Key(head)' = KEY_MIN
    <3>1. head \in DOMAIN mem /\ Key(head) = KEY_MIN /\ head' = head
      BY <1>7 DEF Shape, NodesOK
    <3> PICK h \in DOMAIN mem : h = head
      BY <3>1
    <3>2. Key(h)' = Key(h)
      BY <1>6
    <3> QED  BY <1>6, <3>1, <3>2 DEF Key
  <2> QED  BY <1>7, <2>1, <2>2, <2>3 DEF NodesOK
<1>10. ListOK(M)'
  <2>1. ASSUME NEW a \in M, Key(a)' # KEY_MAX
        PROVE  /\ Succ(a)' \in M
               /\ \A n \in M : Key(n)' <= Key(a)' \/ Key(Succ(a))' <= Key(n)'
    <3>1. CASE a = w
      <4>1. Succ(a)' = y /\ Key(Succ(a))' = k /\ Key(a)' = Key(w)
        BY <1>6, <3>1 DEF Key
      <4>2. \A n \in L : Key(n)' <= Key(a)' \/ k <= Key(n)'
        BY <1>2, <1>3, <1>6, <1>8, <4>1
      <4> QED  BY <1>2, <1>6, <4>1, <4>2
    <3>2. CASE a = y
      <4>1. Succ(a)' = r /\ Key(Succ(a))' = Key(r) /\ Key(a)' = k
        BY <1>6, <3>2 DEF Key
      <4>2. \A n \in L : Key(n)' <= k \/ Key(r) <= Key(n)'
        BY <1>2, <1>3, <1>6, <1>8
      <4> QED  BY <1>2, <1>3, <1>6, <4>1, <4>2
    <3>3. CASE a \in L \ {w}
      <4>1. Key(a)' = Key(a) /\ Succ(a)' = Succ(a) /\ a \in DOMAIN mem
        BY <1>6, <1>8, <3>3
      <4>2. /\ Succ(a) \in L /\ Succ(a) \in DOMAIN mem
            /\ \A n \in L : Key(n) <= Key(a) \/ Key(Succ(a)) <= Key(n)
        BY <1>8, <2>1, <3>3, <4>1 DEF Shape, ListOK
      <4>3. Key(Succ(a))' = Key(Succ(a))
        <5> PICK s \in DOMAIN mem : s = Succ(a)
          BY <4>2
        <5>1. Key(s)' = Key(s)
          BY <1>6
        <5> QED  BY <4>1, <5>1 DEF Key
      <4>4. \A n \in L : Key(n)' <= Key(a)' \/ Key(Succ(a))' <= Key(n)'
        BY <1>6, <1>8, <4>1, <4>2, <4>3
      <4>5. k <= Key(a) \/ Key(Succ(a)) <= k
        <5>1. Key(a) # Key(w)
          BY <1>3, <3>3 DEF Shape, ListOK
        <5>2. Key(a) <= Key(w) \/ Key(r) <= Key(a)
          BY <1>3, <3>3
        <5>3. Key(w) <= Key(a) \/ Key(Succ(a)) <= Key(w)
          BY <1>3, <4>2
        <5>4. /\ k \in Nat /\ Key(a) \in Nat /\ Key(w) \in Nat /\ Key(r) \in Nat
              /\ Key(Succ(a)) \in Nat
          BY <1>2, <4>1, <4>2
        <5> QED  BY <5>1, <5>2, <5>3, <5>4
      <4>6. Key(y)' <= Key(a)' \/ Key(Succ(a))' <= Key(y)'
        BY <1>6, <4>1, <4>3, <4>5
      <4> QED  BY <4>1, <4>2, <4>4, <4>6
    <3> QED  BY <3>1, <3>2, <3>3
  <2>2. \A n \in DOMAIN mem' : Live(n)' => n \in M
    BY <1>6 DEF Shape, ListOK
  <2>3. ASSUME NEW a \in M, NEW b \in M, Key(a)' = Key(b)' PROVE a = b
    <3>1. \A n \in L : Key(n)' # k
      BY <1>2, <1>3, <1>6, <1>8
    <3>2. CASE a \in L /\ b \in L
      BY <1>6, <1>8, <2>3, <3>2 DEF Shape, ListOK
    <3> QED  BY <1>6, <2>3, <3>1, <3>2
  <2>4. head' \in M /\ M \subseteq DOMAIN mem'
    BY <1>2, <1>6, <1>7, <1>8
  <2> HIDE DEF M
  <2> QED  BY <1>7, <2>1, <2>2, <2>3, <2>4 DEF ListOK
<1>11. Shape(M)'
  BY <1>6, <1>9, <1>10 DEF Shape
<1>12. Grows
  <2>1. \A n \in DOMAIN mem : ~Live(n) => mem'[n].next = mem[n].next
    BY <1>1, <1>4
  <2> QED  BY <1>6, <2>1 DEF Grows
<1>13. RunsKept(L, M)
  <2> SUFFICES ASSUME NEW c \in DOMAIN mem, NEW d \in DOMAIN mem, Run(c, d, L), c \in M
               PROVE  /\ d \in M /\ Key(c)' <= Key(d)'
                      /\ \A n \in M : Live(n)' => Key(n)' < Key(c)' \/ Key(d)' <= Key(n)'
    BY DEF RunsKept, Run
  <2>1. /\ c \in L /\ d \in L /\ Key(c) <= Key(d)
        /\ \A n \in L : Live(n) => Key(n) < Key(c) \/ Key(d) <= Key(n)
    BY <1>6 DEF Run
  <2>2. Key(c)' = Key(c) /\ Key(d)' = Key(d)
    BY <1>6
  <2>3. \A n \in L : Live(n)' => Key(n)' < Key(c) \/ Key(d) <= Key(n)'
    BY <1>6, <1>8, <2>1
  <2>4. k < Key(c) \/ Key(d) <= k
    <3>1. Key(w) < Key(c) \/ Key(d) <= Key(w)
      BY <1>1, <1>3, <2>1
    <3>2. Key(c) <= Key(w) \/ Key(r) <= Key(c)
      BY <1>3, <2>1
    <3>3. /\ k \in Nat /\ Key(c) \in Nat /\ Key(d) \in Nat /\ Key(w) \in Nat
          /\ Key(r) \in Nat
      BY <1>2
    <3> QED  BY <3>1, <3>2, <3>3
  <2> QED  BY <1>6, <2>1, <2>2, <2>3, <2>4
<1>14. Contents' = Contents \cup {k} /\ k \notin Contents
  <2>1. \A n \in DOMAIN mem : Live(n) => Key(n) # k
    BY <1>1, <1>2, <1>3 DEF Shape, ListOK
  <2>2. \A j : j \in Contents' <=> j \in Contents \cup {k}
    BY <1>6 DEF Contents
  <2> QED  BY <2>1, <2>2 DEF Contents
<1>15. M \in SUBSET DOMAIN mem'
  BY <1>6, <1>8
<1> QED  BY <1>11, <1>12, <1>13, <1>14, <1>15 DEF Becomes

-----------------------------------------------------------------------------
(* What a step of one thread leaves to the others.                         *)

LEMMA Stays ==
    ASSUME NEW L, Shape(L), UNCHANGED mem
    PROVE  Becomes(L, L) /\ Contents' = Contents
<1>1. UNCHANGED <<head, KEY_MAX, KEY_MIN, Contents>>
  BY DEF head, KEY_MAX, KEY_MIN, Contents, Live, Key
<1>2. \A n : UNCHANGED <<Key(n), Succ(n), Live(n)>>
  BY DEF Key, Succ, Live
<1>3. Shape(L)'
  BY <1>1, <1>2 DEF Shape, MemOK, NodesOK, ListOK, NodeType
<1>4. Grows
  BY <1>2 DEF Grows
<1>5. RunsKept(L, L)
  BY <1>2 DEF RunsKept, Run
<1> QED  BY <1>1, <1>3, <1>4, <1>5 DEF Becomes

LEMMA OthersStay ==
    ASSUME NEW L, InvWith(L), NEW M, Becomes(L, M), NEW u \in Threads,
           th'[u] = th[u], req'[u] = req[u]
    PROVE  /\ Busy(u)' <=> Busy(u)
           /\ Busy(u) => th[u] \in LocalsType' /\ PlaceOK(u)' /\ RunOK(u, M)'
           /\ MayAnswer(u)' = MayAnswer(u)
<1>1. Busy(u)' <=> Busy(u)
  BY DEF Busy, Idle
<1>2. CASE ~Busy(u)
  BY <1>1, <1>2 DEF MayAnswer
<1>3. CASE Busy(u)
  <2>1. /\ th[u] \in LocalsType /\ Left(u) \in DOMAIN mem /\ Right(u) \in DOMAIN mem
        /\ th[u].link[1] \in DOMAIN mem
    BY <1>3 DEF InvWith, ThOK, LocalsType, Left, Right
  <2>2. /\ Left(u)' = Left(u) /\ Right(u)' = Right(u)
        /\ Key(Left(u))' = Key(Left(u)) /\ Key(Right(u))' = Key(Right(u))
        /\ Key(th[u].link[1])' = Key(th[u].link[1])
    <3>1. \A n \in DOMAIN mem : mem'[n].key = mem[n].key
      BY DEF Becomes, Grows, Key
    <3> QED  BY <2>1, <3>1 DEF Left, Right, Key
  <2>3. th[u] \in LocalsType'
    BY <2>1 DEF LocalsType, Becomes, Grows, PCs
  <2>4. mem[Right(u)].next = WithMark(th[u].link) => mem'[Right(u)].next = WithMark(th[u].link)
    BY <2>1 DEF Becomes, Grows, Live, Marked, WithMark
  <2>5. PlaceOK(u)'
    BY <1>3, <2>2, <2>4 DEF InvWith, PlaceOK, Marked, WithMark
  <2>6. RunOK(u, M)'
    <3> SUFFICES ASSUME th[u].pc \in {"search", "check", "unlink_run"}
                 PROVE  Run(th[u].link[1], Right(u), M)'
      BY DEF RunOK, Right
    <3>1. Run(th[u].link[1], Right(u), L)
      BY <1>3 DEF InvWith, RunOK
    <3> PICK c, r \in DOMAIN mem : c = th[u].link[1] /\ r = Right(u)
      BY <2>1
    <3>2. Run(c, r, M)'
      BY <3>1 DEF Becomes, RunsKept
    <3> QED  BY <2>2, <3>2 DEF Run, Key
  <2>7. MayAnswer(u)' = MayAnswer(u)
    BY <1>1, <2>2 DEF MayAnswer, SeenAbsent, SeenPresent
  <2> QED  BY <1>1, <2>3, <2>5, <2>6, <2>7
<1> QED  BY <1>2, <1>3

LEMMA StepInv ==
    ASSUME NEW L, InvWith(L), NEW M \in SUBSET DOMAIN mem', Becomes(L, M),
           NEW t \in Threads, NEW s, th' = [th EXCEPT ![t] = s],
           NEW q, req' = [req EXCEPT ![t] = q], q.op \in Ops, q.key \in Nat,
           s # Idle => s \in LocalsType' /\ PlaceOK(t)' /\ RunOK(t, M)' /\ q.key \in Keys,
           LinOK'
    PROVE  Inv'
<1>1. \A u \in Threads \ {t} : th'[u] = th[u] /\ req'[u] = req[u]
  BY DEF InvWith, ThOK, ReqOK
<1>2. th'[t] = s /\ req'[t] = q
  BY DEF InvWith, ThOK, ReqOK
<1>3. \A u \in Threads \ {t} :
         /\ Busy(u)' <=> Busy(u)
         /\ Busy(u) => th[u] \in LocalsType' /\ PlaceOK(u)' /\ RunOK(u, M)'
  BY <1>1, OthersStay
<1>4. Busy(t)' => th'[t] \in LocalsType' /\ PlaceOK(t)' /\ RunOK(t, M)'
  BY <1>2 DEF Busy, Idle
<1>5. ThOK'
  <2>1. th' = [u \in Threads |-> th'[u]]
    BY DEF InvWith, ThOK
  <2>2. \A u \in Threads : Busy(u)' => th'[u] \in LocalsType'
    BY <1>1, <1>3, <1>4
  <2> QED  BY <2>1, <2>2 DEF ThOK
<1>6. ReqOK'
  <2>1. req' = [u \in Threads |-> req'[u]]
    BY DEF InvWith, ReqOK
  <2>2. \A u \in Threads : Busy(u)' => req'[u].key \in Keys
    BY <1>1, <1>2, <1>3 DEF InvWith, ReqOK, Busy, Idle
  <2>3. \A u \in Threads : req'[u].op \in Ops /\ req'[u].key \in Nat
    BY <1>1, <1>2 DEF InvWith, ReqOK
  <2> QED  BY <2>1, <2>2, <2>3 DEF ReqOK
<1>7. \A u \in Threads : Busy(u)' => PlaceOK(u)' /\ RunOK(u, M)'
  BY <1>3, <1>4
<1>8. InvWith(M)'
  BY <1>5, <1>6, <1>7 DEF InvWith, Becomes
<1> QED  BY <1>8 DEF Inv

-----------------------------------------------------------------------------
(* What it does to the ways to linearize.                                  *)

LEMMA LinIs ==
    ASSUME ListAssumption, NEW L, InvWith(L)
    PROVE  /\ IsFiniteSet(Threads) /\ ReqTyped /\ lin \subseteq Configs
           /\ Contents \in SUBSET Nat
           /\ Feasible(Contents, [t \in Threads |-> MayAnswer(t)])
<1>1. Contents \subseteq Keys /\ Keys \subseteq Nat
  BY KeysAre DEF Contents
<1> QED  BY <1>1 DEF ListAssumption, InvWith, ReqOK, ReqTyped, LinOK

\* Its operation took effect at this step, or it may have, or t goes on.
Takes(t, a) ==
    /\ "pending" \in MayAnswer(t)
    /\ Contents' = Made(t, Contents) /\ a = {Answer(t, Contents)}
MayTake(t, a) ==
    /\ "pending" \in MayAnswer(t) /\ Made(t, Contents) = Contents
    /\ Contents' = Contents /\ a \subseteq MayAnswer(t) \cup {Answer(t, Contents)}
GoesOn(t, a) == Contents' = Contents /\ a \subseteq MayAnswer(t)

LEMMA AnswersBecome ==
    ASSUME ListAssumption, NEW L, InvWith(L), NEW M, Becomes(L, M), NEW t \in Threads,
           \A u \in Threads \ {t} : th'[u] = th[u] /\ req'[u] = req[u],
           NEW a, Takes(t, a) \/ MayTake(t, a) \/ GoesOn(t, a)
    PROVE  \E S, A :
              /\ S \in SUBSET Nat /\ S = Contents' /\ A[t] = a /\ Feasible(S, A)
              /\ \A u \in Threads \ {t} : A[u] = MayAnswer(u)'
<1>1. /\ IsFiniteSet(Threads) /\ ReqTyped /\ lin \subseteq Configs
      /\ Contents \in SUBSET Nat
      /\ Feasible(Contents, [u \in Threads |-> MayAnswer(u)])
  BY LinIs
<1>2. PICK A0, S0 : A0 = [u \in Threads |-> MayAnswer(u)] /\ S0 = Contents
  OBVIOUS
<1>3. PICK A : A = [u \in Threads |-> IF u = t THEN a ELSE MayAnswer(u)']
  OBVIOUS
<1>4. Feasible(S0, A0) /\ S0 \in SUBSET Nat
  BY <1>1, <1>2
<1>5. OthersKeep(t, A0, A) /\ A[t] = a /\ A0[t] = MayAnswer(t)
  BY <1>2, <1>3, OthersStay DEF OthersKeep
<1>6. \A u \in Threads \ {t} : A[u] = MayAnswer(u)'
  BY <1>3
<1>7. CASE Takes(t, a)
  <2>1. Feasible(Made(t, S0), A)
    BY <1>1, <1>2, <1>4, <1>5, <1>7, Effect DEF Takes
  <2>2. Made(t, S0) = Contents'
    BY <1>2, <1>7 DEF Takes
  <2>3. Made(t, S0) \in SUBSET Nat
    BY <1>1, <1>4 DEF Made, ReqTyped, Ops
  <2> QED  BY <1>5, <1>6, <2>1, <2>2, <2>3
<1>8. CASE MayTake(t, a)
  <2>1. Feasible(S0, A)
    BY <1>1, <1>2, <1>4, <1>5, <1>8, Observe DEF MayTake
  <2> QED  BY <1>2, <1>4, <1>5, <1>6, <1>8, <2>1 DEF MayTake
<1>9. CASE GoesOn(t, a)
  <2>1. Feasible(S0, A)
    BY <1>4, <1>5, <1>9, Weaker DEF GoesOn
  <2> QED  BY <1>2, <1>4, <1>5, <1>6, <1>9, <2>1 DEF GoesOn
<1> QED  BY <1>7, <1>8, <1>9

LEMMA LinOn ==
    ASSUME ListAssumption, NEW L, InvWith(L), NEW M, Becomes(L, M), NEW t \in Threads,
           NEW s, On(t, s), NEW a, a = MayAnswer(t)',
           Takes(t, a) \/ MayTake(t, a) \/ GoesOn(t, a)
    PROVE  LinOK'
<1>1. \A u \in Threads \ {t} : th'[u] = th[u] /\ req'[u] = req[u]
  BY DEF On, InvWith, ThOK
<1>2. PICK S, A :
         /\ S \in SUBSET Nat /\ S = Contents' /\ A[t] = a /\ Feasible(S, A)
         /\ \A u \in Threads \ {t} : A[u] = MayAnswer(u)'
  BY <1>1, AnswersBecome
<1>3. UNCHANGED <<req, lin>>
  BY DEF On
<1>4. Feasible(S, A)'
  BY <1>2, <1>3, LinIs, OnKeeps
<1>5. (lin \subseteq Configs)'
  BY <1>3, LinIs DEF Configs
<1>6. \A u \in Threads : A[u] = MayAnswer(u)'
  BY <1>2
<1> QED  BY <1>2, <1>4, <1>5, <1>6 DEF LinOK, Feasible

LEMMA LinReturn ==
    ASSUME ListAssumption, NEW L, InvWith(L), NEW M, Becomes(L, M), NEW t \in Threads,
           NEW r \in Answers, Return(t, r),
           Takes(t, {r}) \/ MayTake(t, {r}) \/ GoesOn(t, {r})
    PROVE  LinOK'
<1>1. \A u \in Threads \ {t} : th'[u] = th[u] /\ req'[u] = req[u]
  BY DEF Return, InvWith, ThOK, ReqOK
<1>2. PICK S, A :
         /\ S \in SUBSET Nat /\ S = Contents' /\ A[t] = {r} /\ Feasible(S, A)
         /\ \A u \in Threads \ {t} : A[u] = MayAnswer(u)'
  BY <1>1, AnswersBecome
<1>3. req'[t].op \in Ops /\ req'[t].key \in Nat /\ th'[t] = Idle
  BY DEF Return, InvWith, ReqOK, ThOK, Ops
<1>4. MayAnswer(t)' = {"none"}
  BY <1>3 DEF MayAnswer, Busy, Idle
<1>5. PICK B : B = [u \in Threads |-> IF u = t THEN {"none"} ELSE A[u]]
  OBVIOUS
<1>6. ReqTyped'
  BY <1>1, <1>3 DEF ReqTyped, InvWith, ReqOK
<1>7. OthersKeep(t, A, B) /\ B[t] \subseteq {"none"} /\ r \in A[t]
  BY <1>2, <1>5 DEF OthersKeep
<1>8. lin' = {[c EXCEPT !.ans[t] = "none"] : c \in {d \in Extended(lin) : d.ans[t] = r}}
  BY DEF Return
<1>9. (lin \subseteq Configs)' /\ Feasible(S, B)'
  BY <1>2, <1>6, <1>7, <1>8, LinIs, ReturnKeeps
<1>10. \A u \in Threads : B[u] = MayAnswer(u)'
  BY <1>2, <1>4, <1>5
<1> QED  BY <1>2, <1>9, <1>10 DEF LinOK, Feasible

LEMMA LinCall ==
    ASSUME ListAssumption, NEW L, InvWith(L), UNCHANGED mem, NEW t \in Threads,
           NEW o \in Ops, NEW k \in Keys, NEW s, Call(t, o, k, s),
           MayAnswer(t)' = {"pending"}
    PROVE  LinOK'
<1>1. \A u \in Threads \ {t} : th'[u] = th[u] /\ req'[u] = req[u]
  BY DEF Call, InvWith, ThOK, ReqOK
<1>2. Becomes(L, L) /\ Contents' = Contents
  BY Stays DEF InvWith
<1>3. req'[t].op \in Ops /\ req'[t].key \in Nat
  BY KeysAre DEF Call, InvWith, ReqOK
<1>4. MayAnswer(t) = {"none"}
  <2>1. th[t] = Idle
    <3>1. th[t].pc = "idle"
      BY DEF Call
    <3> QED  BY <3>1 DEF InvWith, ThOK, LocalsType, PCs, Busy
  <2> QED  BY <2>1 DEF MayAnswer, Busy
<1>5. PICK S, A :
         /\ S \in SUBSET Nat /\ S = Contents' /\ A[t] = {"none"} /\ Feasible(S, A)
         /\ \A u \in Threads \ {t} : A[u] = MayAnswer(u)'
  <2>1. GoesOn(t, {"none"})
    BY <1>2, <1>4 DEF GoesOn
  <2> QED  BY <1>1, <1>2, <2>1, AnswersBecome
<1>6. PICK B : B = [u \in Threads |-> IF u = t THEN {"pending"} ELSE A[u]]
  OBVIOUS
<1>7. ReqTyped'
  BY <1>1, <1>3 DEF ReqTyped, InvWith, ReqOK
<1>8. OthersKeep(t, A, B) /\ B[t] \subseteq {"pending"} /\ "none" \in A[t]
  BY <1>5, <1>6 DEF OthersKeep
<1>9. lin' = {[c EXCEPT !.ans[t] = "pending"] : c \in lin}
  BY DEF Call
<1>10. (lin \subseteq Configs)' /\ Feasible(S, B)'
  BY <1>1, <1>5, <1>7, <1>8, <1>9, LinIs, CallKeeps
<1>11. \A u \in Threads : B[u] = MayAnswer(u)'
  BY <1>5, <1>6
<1> QED  BY <1>5, <1>10, <1>11 DEF LinOK, Feasible

-----------------------------------------------------------------------------
(* The steps.                                                              *)

\* What is known of an operation that goes on.
LEMMA OperationIs ==
    ASSUME ListAssumption, NEW L, InvWith(L), NEW t \in Threads, Busy(t)
    PROVE  /\ Shape(L) /\ th[t] \in LocalsType /\ PlaceOK(t) /\ RunOK(t, L)
           /\ Left(t) \in DOMAIN mem /\ Right(t) \in DOMAIN mem
           /\ th[t].link[1] \in DOMAIN mem
           /\ ~Marked(th[t].link) => th[t].link = <<th[t].link[1], 0>>
           /\ Key(Left(t)) \in Nat /\ Key(Right(t)) \in Nat
           /\ Key(Left(t)) < req[t].key /\ Key(Left(t)) < KEY_MAX
           /\ req[t].key \in Keys /\ req[t].key \in Nat /\ req[t].op \in Ops
           /\ 0 < req[t].key /\ req[t].key < KEY_MAX
           /\ KEY_MAX \in Nat
<1>1. Shape(L) /\ th[t] \in LocalsType /\ PlaceOK(t) /\ RunOK(t, L)
  BY DEF InvWith, ThOK
<1>2. req[t].key \in Keys /\ req[t].op \in Ops
  BY DEF InvWith, ReqOK
<1>3. /\ req[t].key \in Nat /\ 0 < req[t].key /\ req[t].key < KEY_MAX
      /\ KEY_MAX \in Nat
  BY <1>2, KeysAre
<1>4. /\ Left(t) \in DOMAIN mem /\ Right(t) \in DOMAIN mem
      /\ th[t].link[1] \in DOMAIN mem
      /\ ~Marked(th[t].link) => th[t].link = <<th[t].link[1], 0>>
  BY <1>1 DEF LocalsType, Left, Right, Marked
<1>5. Key(Left(t)) \in Nat /\ Key(Right(t)) \in Nat
  BY <1>1, <1>4, Nodes
<1>6. Key(Left(t)) < req[t].key
  BY <1>1 DEF PlaceOK
<1> QED  BY <1>1, <1>2, <1>3, <1>4, <1>5, <1>6

\* The answer, whether or not the key is in the set.
LEMMA AnswerIs ==
    ASSUME NEW S, NEW t \in Threads, req[t].op \in Ops
    PROVE  /\ req[t].key \notin S /\ req[t].op # "insert" =>
                Made(t, S) = S /\ Answer(t, S) = "no"
           /\ req[t].key \notin S /\ req[t].op = "insert" =>
                Made(t, S) = S \cup {req[t].key} /\ Answer(t, S) = "yes"
           /\ req[t].key \in S /\ req[t].op = "find" =>
                Made(t, S) = S /\ Answer(t, S) = "yes"
           /\ req[t].key \in S /\ req[t].op = "insert" =>
                Made(t, S) = S /\ Answer(t, S) = "no"
           /\ req[t].op = "delete" => Made(t, S) = S \ {req[t].key}
           /\ req[t].key \in S /\ req[t].op = "delete" => Answer(t, S) = "yes"
BY DEF Made, Answer, Ops

\* What t may answer, for a state that is not idle.
LEMMA Undecided ==
    ASSUME NEW t \in Threads, Busy(t)
    PROVE  /\ th[t].then = "done" \/ th[t].pc = "unlink" => MayAnswer(t) = {"yes"}
           /\ th[t].then # "done" /\ th[t].pc # "unlink" =>
                 /\ "pending" \in MayAnswer(t)
                 /\ SeenAbsent(t) => "no" \in MayAnswer(t)
                 /\ \A a \in MayAnswer(t) : a = "pending"
                      \/ (a = "no" /\ SeenAbsent(t))
                      \/ (SeenPresent(t) /\ req[t].op = "find" /\ a = "yes")
                      \/ (SeenPresent(t) /\ req[t].op = "insert" /\ a = "no")
                 /\ SeenPresent(t) /\ req[t].op = "find" => "yes" \in MayAnswer(t)
                 /\ SeenPresent(t) /\ req[t].op = "insert" => "no" \in MayAnswer(t)
<1>1. CASE th[t].then = "done" \/ th[t].pc = "unlink"
  BY <1>1 DEF MayAnswer
<1>2. CASE ~(th[t].then = "done" \/ th[t].pc = "unlink")
  <2>1. MayAnswer(t) =
          {"pending"} \cup (IF SeenAbsent(t) THEN {"no"} ELSE {})
            \cup (IF SeenPresent(t) /\ req[t].op = "find" THEN {"yes"} ELSE {})
            \cup (IF SeenPresent(t) /\ req[t].op = "insert" THEN {"no"} ELSE {})
    BY <1>2 DEF MayAnswer
  <2>2. \A a : a \in MayAnswer(t) <=>
           \/ a = "pending"
           \/ (a = "no" /\ SeenAbsent(t))
           \/ (SeenPresent(t) /\ req[t].op = "find" /\ a = "yes")
           \/ (SeenPresent(t) /\ req[t].op = "insert" /\ a = "no")
    BY <2>1
  <2>3. "pending" \in MayAnswer(t) /\ (SeenAbsent(t) => "no" \in MayAnswer(t))
    BY <2>2
  <2>4. /\ SeenPresent(t) /\ req[t].op = "find" => "yes" \in MayAnswer(t)
        /\ SeenPresent(t) /\ req[t].op = "insert" => "no" \in MayAnswer(t)
    BY <2>2
  <2>5. \A a \in MayAnswer(t) : a = "pending"
                      \/ (a = "no" /\ SeenAbsent(t))
                      \/ (SeenPresent(t) /\ req[t].op = "find" /\ a = "yes")
                      \/ (SeenPresent(t) /\ req[t].op = "insert" /\ a = "no")
    BY <2>2
  <2> QED  BY <1>2, <2>3, <2>4, <2>5
<1> QED  BY <1>1, <1>2

\* The state predicate of the lemma, in the next state too.
Undecides(t) ==
    Busy(t) =>
       /\ th[t].then = "done" \/ th[t].pc = "unlink" => MayAnswer(t) = {"yes"}
       /\ th[t].then # "done" /\ th[t].pc # "unlink" =>
             \A a \in MayAnswer(t) : a = "pending"
                      \/ (a = "no" /\ SeenAbsent(t))
                      \/ (SeenPresent(t) /\ req[t].op = "find" /\ a = "yes")
                      \/ (SeenPresent(t) /\ req[t].op = "insert" /\ a = "no")

LEMMA UndecidedNext == ASSUME NEW t \in Threads PROVE Undecides(t)'
<1>1. Undecides(t)
  BY Undecided DEF Undecides
<1> QED  BY <1>1, PTL

\* A step within an operation.
LEMMA OnStep ==
    ASSUME ListAssumption, NEW L, InvWith(L), NEW M \in SUBSET DOMAIN mem', Becomes(L, M),
           NEW t \in Threads, Busy(t), NEW s \in LocalsType, On(t, s),
           PlaceOK(t)', RunOK(t, M)', NEW a, a = MayAnswer(t)',
           Takes(t, a) \/ MayTake(t, a) \/ GoesOn(t, a)
    PROVE  Inv'
<1>1. LinOK'
  BY LinOn
<1>2. s \in LocalsType'
  BY DEF LocalsType, PCs, Becomes, Grows
<1>3. req' = [req EXCEPT ![t] = req[t]]
  BY DEF On, InvWith, ReqOK
<1>4. req[t].op \in Ops /\ req[t].key \in Nat /\ req[t].key \in Keys
  BY OperationIs
<1>5. th' = [th EXCEPT ![t] = s]
  BY DEF On
<1> QED  BY <1>1, <1>2, <1>3, <1>4, <1>5, StepInv

LEMMA ReturnStep ==
    ASSUME ListAssumption, NEW L, InvWith(L), NEW M \in SUBSET DOMAIN mem', Becomes(L, M),
           NEW t \in Threads, NEW r \in Answers, Return(t, r),
           Takes(t, {r}) \/ GoesOn(t, {r})
    PROVE  Inv'
<1>1. LinOK'
  BY LinReturn
<1>2. PICK q : q = [op |-> "find", key |-> 0, left |-> req[t].left]
  OBVIOUS
<1>3. req' = [req EXCEPT ![t] = q] /\ q.op \in Ops /\ q.key \in Nat
  BY <1>2 DEF Return, Ops
<1>4. th' = [th EXCEPT ![t] = Idle]
  BY DEF Return
<1> QED  BY <1>1, <1>3, <1>4, StepInv

\* A search begins, or starts over.
Start(x) == [Locals("search", head, head, <<head, 0>>) EXCEPT !.then = x]

LEMMA StartIs ==
    ASSUME ListAssumption, NEW L, InvWith(L), UNCHANGED mem, NEW t \in Threads,
           NEW x \in {"found", "done"}, th'[t] = Start(x), req'[t].key \in Keys,
           x = "done" => req'[t].op = "delete"
    PROVE  /\ Start(x) \in LocalsType /\ PlaceOK(t)' /\ RunOK(t, L)'
           /\ MayAnswer(t)' = IF x = "done" THEN {"yes"} ELSE {"pending"}
<1>1. head \in L /\ L \subseteq DOMAIN mem /\ Key(head) = 0
  BY Nodes DEF InvWith
<1>2. /\ Start(x).pc = "search" /\ Start(x).left = head /\ Start(x).right = head
      /\ Start(x).link = <<head, 0>> /\ Start(x).then = x
  BY DEF Start, Locals
<1>3. Start(x) \in LocalsType
  BY <1>1, <1>2 DEF Start, Locals, LocalsType, PCs
<1>4. UNCHANGED head /\ Key(head)' = 0 /\ \A n : Key(n)' = Key(n)
  BY <1>1 DEF head, Key
<1>5. req'[t].key \in Nat /\ 0 < req'[t].key
  BY KeysAre
<1>6. Left(t)' = head /\ Right(t)' = head /\ th'[t].pc = "search"
  BY <1>2 DEF Left, Right
<1>7. PlaceOK(t)'
  <2>1. Key(Left(t))' = 0 /\ Key(Right(t))' = 0 /\ Key(th[t].link[1])' = 0
    BY <1>2, <1>4, <1>6 DEF Key
  <2> QED  BY <1>2, <1>5, <1>6, <2>1 DEF PlaceOK, Marked
<1>8. RunOK(t, L)'
  <2>1. \A n \in L : Key(n)' \in Nat
    BY <1>1, <1>4, Nodes DEF InvWith
  <2>2. th'[t].link[1] = head
    BY <1>2
  <2>3. Run(head, head, L)'
    BY <1>1, <1>4, <2>1 DEF Run
  <2> QED  BY <1>4, <1>6, <2>2, <2>3 DEF RunOK, Run, Key
<1>9. MayAnswer(t)' = IF x = "done" THEN {"yes"} ELSE {"pending"}
  <2>1. Busy(t)'
    BY <1>6 DEF Busy, Idle
  <2>2. ~SeenAbsent(t)' /\ ~SeenPresent(t)'
    <3>1. Key(Right(t))' = 0
      BY <1>4, <1>6 DEF Key
    <3> QED  BY <1>5, <1>6, <3>1 DEF SeenAbsent, SeenPresent
  <2> QED  BY <1>2, <1>6, <2>1, <2>2 DEF MayAnswer
<1> QED  BY <1>3, <1>7, <1>8, <1>9

LEMMA RestartInv ==
    ASSUME ListAssumption, NEW L \in SUBSET DOMAIN mem, InvWith(L), UNCHANGED mem,
           NEW t \in Threads, Busy(t), NEW x \in {"found", "done"}, On(t, Start(x)),
           x = "done" => req[t].op = "delete" /\ (th[t].then = "done" \/ th[t].pc = "unlink"),
           x = "found" => th[t].then # "done" /\ th[t].pc # "unlink"
    PROVE  Inv'
<1>1. Becomes(L, L) /\ Contents' = Contents
  BY Stays DEF InvWith
<1>2. th'[t] = Start(x) /\ req' = req
  BY DEF On, InvWith, ThOK
<1>3. /\ Start(x) \in LocalsType /\ PlaceOK(t)' /\ RunOK(t, L)'
      /\ MayAnswer(t)' = IF x = "done" THEN {"yes"} ELSE {"pending"}
  BY <1>2, StartIs, OperationIs
<1>4. PICK a : a = MayAnswer(t)'
  OBVIOUS
<1>5. GoesOn(t, a)
  BY <1>1, <1>3, <1>4, Undecided DEF GoesOn
<1>6. L \in SUBSET DOMAIN mem'
  OBVIOUS
<1> QED  BY <1>1, <1>3, <1>4, <1>5, <1>6, OnStep

LEMMA BeginSearchInv ==
    ASSUME ListAssumption, NEW L \in SUBSET DOMAIN mem, InvWith(L), NEW t \in Threads,
           BeginSearch(t)
    PROVE  Inv'
<1>1. PICK o \in Ops, k \in Keys : Call(t, o, k, Start("found"))
  BY DEF BeginSearch, Start, Locals
<1>2. UNCHANGED mem /\ Becomes(L, L)
  BY Stays DEF BeginSearch, InvWith
<1>3. PICK q : q = [op |-> o, key |-> k, left |-> req[t].left - 1]
  OBVIOUS
<1>4. /\ req' = [req EXCEPT ![t] = q] /\ q.op \in Ops /\ q.key \in Nat /\ q.key \in Keys
      /\ th' = [th EXCEPT ![t] = Start("found")]
  BY <1>1, <1>3, KeysAre DEF Call
<1>5. th'[t] = Start("found") /\ req'[t] = q
  BY <1>4 DEF InvWith, ThOK, ReqOK
<1>6. /\ Start("found") \in LocalsType /\ PlaceOK(t)' /\ RunOK(t, L)'
      /\ MayAnswer(t)' = {"pending"}
  BY <1>2, <1>4, <1>5, StartIs
<1>7. LinOK'
  BY <1>1, <1>2, <1>6, LinCall
<1>8. Start("found") \in LocalsType' /\ L \in SUBSET DOMAIN mem'
  BY <1>2, <1>6 DEF LocalsType, PCs
<1> QED  BY <1>2, <1>4, <1>6, <1>7, <1>8, StepInv

\* A step of t to another point of its search, or on from there.
LEMMA GotoIs ==
    ASSUME NEW L, InvWith(L), UNCHANGED mem, NEW t \in Threads, Busy(t),
           NEW s \in LocalsType, On(t, s)
    PROVE  /\ Becomes(L, L) /\ Contents' = Contents /\ th'[t] = s /\ req' = req
           /\ Busy(t)' /\ \A n : Key(n)' = Key(n) /\ (Live(n)' <=> Live(n))
           /\ \A c, r : Run(c, r, L)' <=> Run(c, r, L)
<1>1. Becomes(L, L) /\ Contents' = Contents
  BY Stays DEF InvWith
<1>2. th'[t] = s /\ req' = req
  BY DEF On, InvWith, ThOK
<1>3. Busy(t)'
  <2>1. s.pc \in PCs
    BY DEF LocalsType
  <2> QED  BY <1>2, <2>1 DEF Busy, Idle, PCs
<1>4. \A n : Key(n)' = Key(n) /\ (Live(n)' <=> Live(n))
  BY DEF Key, Live
<1>5. \A c, r : Run(c, r, L)' <=> Run(c, r, L)
  BY <1>4 DEF Run
<1> QED  BY <1>1, <1>2, <1>3, <1>4, <1>5

\* The walk stops at right.
LEMMA WalkStopsInv ==
    ASSUME ListAssumption, NEW L \in SUBSET DOMAIN mem, InvWith(L), UNCHANGED mem,
           NEW t \in Threads, Busy(t), th[t].pc = "search",
           Key(Right(t)) >= req[t].key, Goto(t, "check")
    PROVE  Inv'
<1>1. PICK s : s = [th[t] EXCEPT !.pc = "check"]
  OBVIOUS
<1>2. th[t] \in LocalsType
  BY OperationIs
<1>3. /\ s \in LocalsType /\ s.pc = "check" /\ s.left = th[t].left /\ s.right = th[t].right
      /\ s.link = th[t].link /\ s.then = th[t].then
  BY <1>1, <1>2 DEF LocalsType, PCs
<1>4. On(t, s)
  BY <1>1 DEF Goto
<1>5. /\ Becomes(L, L) /\ Contents' = Contents /\ th'[t] = s /\ req' = req /\ Busy(t)'
      /\ \A n : Key(n)' = Key(n)
      /\ \A c, r : Run(c, r, L)' <=> Run(c, r, L)
  BY <1>3, <1>4, GotoIs
<1>6. Left(t)' = Left(t) /\ Right(t)' = Right(t)
  BY <1>3, <1>5 DEF Left, Right
<1>7. /\ Key(Left(t))' = Key(Left(t)) /\ Key(Right(t))' = Key(Right(t))
      /\ Key(th[t].link[1])' = Key(th[t].link[1])
  BY <1>3, <1>5, <1>6 DEF Key
<1>8. PlaceOK(t)'
  <2>1. PlaceOK(t) /\ req[t].key <= Key(Right(t))
    BY OperationIs
  <2> QED  BY <1>3, <1>5, <1>7, <2>1 DEF PlaceOK, Marked
<1>9. RunOK(t, L)'
  <2>1. Run(th[t].link[1], Right(t), L)
    BY OperationIs DEF RunOK
  <2>2. Run(th[t].link[1], Right(t), L)'
    BY <1>3, <1>5, <1>6, <1>7, <2>1 DEF Run, Key, Live
  <2> QED  BY <2>2 DEF RunOK
<1>10. MayAnswer(t)' = MayAnswer(t)
  BY <1>3, <1>5, <1>6, <1>7 DEF MayAnswer, SeenAbsent, SeenPresent
<1>11. PICK a : a = MayAnswer(t)'
  OBVIOUS
<1>12. GoesOn(t, a) /\ L \in SUBSET DOMAIN mem'
  BY <1>5, <1>10, <1>11 DEF GoesOn
<1> QED  BY <1>3, <1>4, <1>5, <1>8, <1>9, <1>11, <1>12, OnStep

\* It goes over a marked node.
LEMMA WalkOverInv ==
    ASSUME ListAssumption, NEW L \in SUBSET DOMAIN mem, InvWith(L), UNCHANGED mem,
           NEW t \in Threads, Busy(t), th[t].pc = "search", ~Live(Right(t)),
           On(t, [th[t] EXCEPT !.right = Succ(Right(t))])
    PROVE  Inv'
<1> PICK h \in DOMAIN mem : h = Right(t)
  BY OperationIs
<1>1. PICK s : s = [th[t] EXCEPT !.right = Succ(h)]
  OBVIOUS
<1>2. /\ th[t] \in LocalsType /\ PlaceOK(t) /\ Run(th[t].link[1], h, L) /\ Shape(L)
      /\ th[t].link[1] \in DOMAIN mem /\ L \subseteq DOMAIN mem
  BY OperationIs DEF RunOK
<1>3. Key(h) # KEY_MAX /\ Succ(h) \in DOMAIN mem /\ Key(h) < Key(Succ(h))
  BY <1>2 DEF Shape, NodesOK
<1>4. /\ s \in LocalsType /\ s.pc = "search" /\ s.left = th[t].left /\ s.right = Succ(h)
      /\ s.link = th[t].link /\ s.then = th[t].then
  BY <1>1, <1>2, <1>3 DEF LocalsType
<1>5. On(t, s)
  BY <1>1
<1>6. /\ Becomes(L, L) /\ Contents' = Contents /\ th'[t] = s /\ req' = req /\ Busy(t)'
      /\ \A n : Key(n)' = Key(n)
      /\ \A c, r : Run(c, r, L)' <=> Run(c, r, L)
  BY <1>4, <1>5, GotoIs
<1>7. Left(t)' = Left(t) /\ Right(t)' = Succ(h)
  BY <1>4, <1>6 DEF Left, Right
<1> PICK c, r \in DOMAIN mem : c = th[t].link[1] /\ r = Succ(h)
  BY <1>2, <1>3
<1>8. /\ Key(Left(t))' = Key(Left(t)) /\ Key(Right(t))' = Key(r)
      /\ Key(th[t].link[1])' = Key(c)
  BY <1>4, <1>6, <1>7 DEF Key
<1>9. \A n \in DOMAIN mem : Key(n) \in Nat
  BY <1>2, Nodes
<1>10. Key(c) < Key(r)
  <2>1. Key(c) <= Key(h)
    BY <1>2 DEF PlaceOK
  <2> QED  BY <1>3, <1>9, <2>1
<1>11. PlaceOK(t)'
  BY <1>2, <1>4, <1>6, <1>8, <1>9, <1>10 DEF PlaceOK, Marked
<1>12. Run(c, r, L)
  <2> SUFFICES ASSUME c \in L
               PROVE  /\ r \in L /\ Key(c) <= Key(r)
                      /\ \A n \in L : Live(n) => Key(n) < Key(c) \/ Key(r) <= Key(n)
    BY DEF Run
  <2>1. h \in L /\ \A n \in L : Live(n) => Key(n) < Key(c) \/ Key(h) <= Key(n)
    BY <1>2 DEF Run
  <2>2. r \in L /\ \A n \in L : Key(n) <= Key(h) \/ Key(r) <= Key(n)
    BY <1>2, <1>3, <2>1 DEF Shape, ListOK
  <2>3. \A n \in L : Live(n) => Key(n) # Key(h)
    BY <1>2, <2>1 DEF Shape, ListOK
  <2>4. ASSUME NEW n \in L, Live(n) PROVE Key(n) < Key(c) \/ Key(r) <= Key(n)
    <3>1. Key(n) \in Nat /\ Key(h) \in Nat
      BY <1>2, <1>9
    <3> QED  BY <2>1, <2>2, <2>3, <2>4, <3>1
  <2> QED  BY <1>9, <1>10, <2>2, <2>4
<1>13. RunOK(t, L)'
  <2>1. Run(c, r, L)'
    BY <1>6, <1>12
  <2>2. th'[t].link[1] = c /\ Right(t)' = r
    BY <1>4, <1>6, <1>7
  <2> QED  BY <2>1, <2>2 DEF RunOK, Run, Key
<1>14. ~SeenAbsent(t)' /\ ~SeenPresent(t)'
  <2>1. th'[t].link # <<Right(t)', 0>>
    <3>1. c # r
      BY <1>9, <1>10
    <3> QED  BY <1>4, <1>6, <1>7, <3>1
  <2> QED  BY <1>4, <1>6, <2>1 DEF SeenAbsent, SeenPresent
<1>15. PICK a : a = MayAnswer(t)'
  OBVIOUS
<1>16. a \subseteq MayAnswer(t)
  BY <1>4, <1>6, <1>14, <1>15 DEF MayAnswer
<1>17. GoesOn(t, a) /\ L \in SUBSET DOMAIN mem'
  BY <1>6, <1>16 DEF GoesOn
<1> QED  BY <1>4, <1>5, <1>6, <1>11, <1>13, <1>15, <1>17, OnStep

\* It makes right the node that it comes from, left; if the next one has a greater
\* key than its own, the operation may have taken effect here.
LEMMA WalkOnInv ==
    ASSUME ListAssumption, NEW L \in SUBSET DOMAIN mem, InvWith(L), UNCHANGED mem,
           NEW t \in Threads, Busy(t), th[t].pc = "search", Live(Right(t)),
           Key(Right(t)) < req[t].key,
           On(t, [th[t] EXCEPT !.left = Right(t), !.right = Succ(Right(t)),
                               !.link = mem[Right(t)].next])
    PROVE  Inv'
<1> PICK h \in DOMAIN mem : h = Right(t)
  BY OperationIs
<1> PICK k \in Nat : k = req[t].key
  BY OperationIs
<1>1. PICK s : s = [th[t] EXCEPT !.left = h, !.right = Succ(h), !.link = mem[h].next]
  OBVIOUS
<1>2. /\ th[t] \in LocalsType /\ PlaceOK(t) /\ Shape(L) /\ L \subseteq DOMAIN mem
      /\ req[t].op \in Ops
      /\ mem[h].next = <<Succ(h), 0>>
  BY OperationIs, NodesAre DEF Shape
<1>3. /\ h \in L /\ Succ(h) \in L /\ Key(h) < KEY_MAX
      /\ \A n \in L : Key(n) <= Key(h) \/ Key(Succ(h)) <= Key(n)
  <2>1. Key(h) < KEY_MAX
    <3>1. Key(h) < k /\ k < KEY_MAX
      BY OperationIs
    <3>2. Key(h) \in Nat /\ KEY_MAX \in Nat
      BY <1>2, Nodes
    <3> QED  BY <3>1, <3>2
  <2> QED  BY <1>2, <2>1, Neighbours
<1> PICK r \in DOMAIN mem : r = Succ(h)
  BY <1>2, <1>3
<1>4. /\ s \in LocalsType /\ s.pc = "search" /\ s.left = h /\ s.right = r
      /\ s.link = <<r, 0>> /\ s.then = th[t].then
  <2>1. mem[h].next = <<r, 0>> /\ <<r, 0>> \in (DOMAIN mem) \X {0, 1}
    BY <1>2
  <2>2. s = [th[t] EXCEPT !.left = h, !.right = r, !.link = <<r, 0>>]
    BY <1>1, <2>1
  <2>3. th[t] \in LocalsType
    BY <1>2
  <2> QED  BY <2>1, <2>2, <2>3 DEF LocalsType
<1>5. On(t, s)
  BY <1>1
<1>6. /\ Becomes(L, L) /\ Contents' = Contents /\ th'[t] = s /\ req' = req /\ Busy(t)'
      /\ \A n : Key(n)' = Key(n)
      /\ \A c, d : Run(c, d, L)' <=> Run(c, d, L)
  BY <1>4, <1>5, GotoIs
<1>7. Left(t)' = h /\ Right(t)' = r /\ th'[t].link[1] = r
  BY <1>4, <1>6 DEF Left, Right
<1>8. /\ Key(Left(t))' = Key(h) /\ Key(Right(t))' = Key(r)
      /\ Key(th[t].link[1])' = Key(r)
  BY <1>4, <1>6, <1>7 DEF Key
<1>9. \A n \in DOMAIN mem : Key(n) \in Nat
  BY <1>2, Nodes
<1>10. PlaceOK(t)'
  BY <1>2, <1>4, <1>6, <1>8, <1>9 DEF PlaceOK, Marked
<1>11. RunOK(t, L)'
  <2>1. Run(r, r, L)'
    BY <1>2, <1>6, <1>9 DEF Run
  <2> QED  BY <1>7, <2>1 DEF RunOK, Run, Key
<1>12. k < Key(r) => k \notin Contents
  <2>1. \A n \in DOMAIN mem : Live(n) => Key(n) # k \/ Key(r) <= k
    BY <1>2, <1>3, <1>9 DEF Shape, ListOK
  <2>2. k < Key(r) => ~(Key(r) <= k)
    BY <1>9
  <2> QED  BY <2>1, <2>2 DEF Contents
<1>13. PICK a : a = MayAnswer(t)'
  OBVIOUS
<1>14. MayTake(t, a) \/ GoesOn(t, a)
  <2>1. ~SeenPresent(t)'
    BY <1>4, <1>6 DEF SeenPresent
  <2>2. CASE th[t].then = "done"
    <3>1. a = {"yes"} /\ MayAnswer(t) = {"yes"}
      BY <1>4, <1>6, <1>13, <2>2 DEF MayAnswer
    <3> QED  BY <1>6, <3>1 DEF GoesOn
  <2>3. CASE th[t].then # "done" /\ SeenAbsent(t)'
    <3>1. a \subseteq {"pending", "no"} /\ "pending" \in MayAnswer(t)
      BY <1>4, <1>6, <1>13, <2>1, <2>3 DEF MayAnswer
    <3>2. req[t].op # "insert" /\ k < Key(r)
      BY <1>6, <1>8, <2>3 DEF SeenAbsent
    <3>3. Made(t, Contents) = Contents /\ Answer(t, Contents) = "no"
      BY <1>2, <1>12, <3>2, AnswerIs
    <3> QED  BY <1>6, <3>1, <3>3 DEF MayTake
  <2>4. CASE th[t].then # "done" /\ ~SeenAbsent(t)'
    <3>1. a \subseteq {"pending"} /\ "pending" \in MayAnswer(t)
      BY <1>4, <1>6, <1>13, <2>1, <2>4 DEF MayAnswer
    <3> QED  BY <1>6, <3>1 DEF GoesOn
  <2> QED  BY <2>2, <2>3, <2>4
<1>15. L \in SUBSET DOMAIN mem'
  OBVIOUS
<1> QED  BY <1>4, <1>5, <1>6, <1>10, <1>11, <1>13, <1>14, <1>15, OnStep

LEMMA BusyIs ==
    ASSUME NEW L, InvWith(L), NEW t \in Threads
    PROVE  Busy(t) <=> th[t].pc \in PCs
BY DEF InvWith, ThOK, LocalsType, Busy, Idle, PCs

LEMMA WalkInv ==
    ASSUME ListAssumption, NEW L \in SUBSET DOMAIN mem, InvWith(L), NEW t \in Threads,
           Walk(t)
    PROVE  Inv'
<1>1. Busy(t) /\ th[t].pc = "search" /\ UNCHANGED mem
  BY BusyIs DEF Walk, PCs
<1>2. Live(Right(t)) <=> ~Marked(mem[Right(t)].next)
  BY DEF Live
<1>3. Right(t) = head => Live(Right(t)) /\ Key(Right(t)) < req[t].key
  BY <1>1, OperationIs, Nodes
<1>4. CASE ~Live(Right(t))
  <2>1. On(t, [th[t] EXCEPT !.right = Succ(Right(t))])
    BY <1>2, <1>4 DEF Walk, Succ
  <2> QED  BY <1>1, <1>4, <2>1, WalkOverInv
<1>5. CASE Live(Right(t)) /\ Right(t) # head /\ Key(Right(t)) >= req[t].key
  <2>1. Goto(t, "check")
    BY <1>2, <1>5 DEF Walk
  <2> QED  BY <1>1, <1>5, <2>1, WalkStopsInv
<1>6. CASE Live(Right(t)) /\ ~(Right(t) # head /\ Key(Right(t)) >= req[t].key)
  <2>1. Key(Right(t)) < req[t].key
    BY <1>1, <1>3, <1>6, OperationIs
  <2>2. On(t, [th[t] EXCEPT !.left = Right(t), !.right = Succ(Right(t)),
                            !.link = mem[Right(t)].next])
    BY <1>2, <1>6 DEF Walk, Succ
  <2> QED  BY <1>1, <1>6, <2>1, <2>2, WalkOnInv
<1> QED  BY <1>4, <1>5, <1>6

\* The search returns if right is not marked; the operation may have taken effect
\* then, if right has its key.
LEMMA ReturnIfUnmarkedInv ==
    ASSUME ListAssumption, NEW L \in SUBSET DOMAIN mem, InvWith(L), UNCHANGED mem,
           NEW t \in Threads, Busy(t), ReturnIfUnmarked(t),
           th[t].pc = "check_again" \/ (th[t].pc = "check" /\ th[t].link = <<Right(t), 0>>)
    PROVE  Inv'
<1> PICK h \in DOMAIN mem : h = Right(t)
  BY OperationIs
<1> PICK k \in Keys : k = req[t].key
  BY OperationIs
<1>1. /\ th[t] \in LocalsType /\ PlaceOK(t) /\ Shape(L) /\ L \subseteq DOMAIN mem
      /\ req[t].op \in Ops /\ k \in Nat /\ Key(h) \in Nat
  BY OperationIs
<1>2. th[t].then \in {"found", "done"} /\ (th[t].then = "done" => req[t].op = "delete")
  BY <1>1 DEF LocalsType, PlaceOK
<1>3. CASE ~Live(h)
  <2>1. On(t, Start(th[t].then))
    BY <1>3 DEF ReturnIfUnmarked, SearchAgain, Start, Live
  <2>2. PICK x \in {"found", "done"} : x = th[t].then
    BY <1>2
  <2> QED  BY <1>2, <2>1, <2>2, RestartInv
<1>4. CASE Live(h)
  <2>1. PICK s : s = [th[t] EXCEPT !.pc = th[t].then]
    OBVIOUS
  <2>2. /\ s \in LocalsType /\ s.pc = th[t].then /\ s.left = th[t].left
        /\ s.right = th[t].right /\ s.link = th[t].link /\ s.then = th[t].then
    BY <1>1, <1>2, <2>1 DEF LocalsType, PCs
  <2>3. On(t, s)
    BY <1>4, <2>1 DEF ReturnIfUnmarked, Goto, Live
  <2>4. /\ Becomes(L, L) /\ Contents' = Contents /\ th'[t] = s /\ req' = req /\ Busy(t)'
        /\ \A n : Key(n)' = Key(n)
    BY <2>2, <2>3, GotoIs
  <2>5. Left(t)' = Left(t) /\ Right(t)' = h
    BY <2>2, <2>4 DEF Left, Right
  <2>6. Key(Left(t))' = Key(Left(t)) /\ Key(Right(t))' = Key(h)
    BY <2>4, <2>5 DEF Key
  <2>7. k <= Key(h)
    BY <1>1 DEF PlaceOK
  <2>8. PlaceOK(t)'
    BY <1>1, <1>2, <2>2, <2>4, <2>6, <2>7 DEF PlaceOK
  <2>9. RunOK(t, L)'
    BY <1>2, <2>2, <2>4 DEF RunOK
  <2>10. PICK a : a = MayAnswer(t)'
    OBVIOUS
  <2>11. Undecides(t)'
    BY UndecidedNext
  <2>12. MayTake(t, a) \/ GoesOn(t, a)
    <3>1. CASE th[t].then = "done"
      <4>1. a = {"yes"} /\ MayAnswer(t) = {"yes"}
        BY <2>2, <2>4, <2>10, <3>1 DEF MayAnswer
      <4> QED  BY <2>4, <4>1 DEF GoesOn
    <3> SUFFICES ASSUME th[t].then # "done" PROVE MayTake(t, a) \/ GoesOn(t, a)
      BY <3>1
    <3>2. th'[t].then = "found" /\ th'[t].pc = "found" /\ req' = req /\ Busy(t)'
      BY <1>2, <2>2, <2>4
    <3>3. \A b \in a : b = "pending"
                      \/ (b = "no" /\ SeenAbsent(t)')
                      \/ (SeenPresent(t)' /\ req[t].op = "find" /\ b = "yes")
                      \/ (SeenPresent(t)' /\ req[t].op = "insert" /\ b = "no")
      BY <2>10, <2>11, <3>2 DEF Undecides
    <3>4. "pending" \in MayAnswer(t) /\ (SeenAbsent(t) => "no" \in MayAnswer(t))
      BY Undecided
    <3>5. CASE k < Key(h)
      <4>1. ~SeenPresent(t)'
        BY <1>1, <2>4, <2>6, <3>5 DEF SeenPresent
      <4>2. SeenAbsent(t)' => SeenAbsent(t)
        BY <2>4, <2>6, <3>5 DEF SeenAbsent
      <4>3. a \subseteq MayAnswer(t)
        BY <3>3, <3>4, <4>1, <4>2
      <4> QED  BY <2>4, <4>3 DEF GoesOn
    <3>6. CASE k = Key(h)
      <4>1. ~SeenAbsent(t)'
        BY <1>1, <2>4, <2>6, <3>6 DEF SeenAbsent
      <4>2. k \in Contents
        BY <1>4, <3>6 DEF Contents
      <4>3. CASE req[t].op = "delete"
        <5>1. a \subseteq MayAnswer(t)
          BY <3>3, <3>4, <4>1, <4>3
        <5> QED  BY <2>4, <5>1 DEF GoesOn
      <4>4. CASE req[t].op # "delete"
        <5>1. /\ Made(t, Contents) = Contents
              /\ req[t].op = "find" => Answer(t, Contents) = "yes"
              /\ req[t].op = "insert" => Answer(t, Contents) = "no"
          BY <1>1, <4>2, <4>4, AnswerIs DEF Ops
        <5>2. a \subseteq MayAnswer(t) \cup {Answer(t, Contents)}
          BY <3>3, <3>4, <4>1, <5>1
        <5> QED  BY <2>4, <3>4, <5>1, <5>2 DEF MayTake
      <4> QED  BY <4>3, <4>4
    <3> QED  BY <1>1, <2>7, <3>5, <3>6
  <2>13. L \in SUBSET DOMAIN mem'
    OBVIOUS
  <2> QED  BY <2>2, <2>3, <2>4, <2>8, <2>9, <2>10, <2>12, <2>13, OnStep
<1> QED  BY <1>3, <1>4

LEMMA CheckAdjacentInv ==
    ASSUME ListAssumption, NEW L \in SUBSET DOMAIN mem, InvWith(L), NEW t \in Threads,
           CheckAdjacent(t)
    PROVE  Inv'
<1>1. Busy(t) /\ th[t].pc = "check" /\ UNCHANGED mem
  BY BusyIs DEF CheckAdjacent, PCs
<1>2. CASE th[t].link = <<Right(t), 0>>
  <2>1. ReturnIfUnmarked(t)
    BY <1>2 DEF CheckAdjacent
  <2> QED  BY <1>1, <1>2, <2>1, ReturnIfUnmarkedInv
<1>3. CASE th[t].link # <<Right(t), 0>>
  <2> PICK h \in DOMAIN mem : h = Right(t)
    BY <1>1, OperationIs
  <2>1. PICK s : s = [th[t] EXCEPT !.pc = "unlink_run"]
    OBVIOUS
  <2>2. th[t] \in LocalsType /\ PlaceOK(t) /\ Run(th[t].link[1], h, L)
    BY <1>1, OperationIs DEF RunOK
  <2>3. /\ s \in LocalsType /\ s.pc = "unlink_run" /\ s.left = th[t].left
        /\ s.right = th[t].right /\ s.link = th[t].link /\ s.then = th[t].then
    BY <2>1, <2>2 DEF LocalsType, PCs
  <2>4. On(t, s)
    BY <1>3, <2>1 DEF CheckAdjacent, Goto
  <2>5. /\ Becomes(L, L) /\ Contents' = Contents /\ th'[t] = s /\ req' = req /\ Busy(t)'
        /\ \A n : Key(n)' = Key(n)
        /\ \A c, r : Run(c, r, L)' <=> Run(c, r, L)
    BY <1>1, <2>3, <2>4, GotoIs
  <2>6. Left(t)' = Left(t) /\ Right(t)' = h
    BY <2>3, <2>5 DEF Left, Right
  <2>7. Key(Left(t))' = Key(Left(t)) /\ Key(Right(t))' = Key(h)
    BY <2>5, <2>6 DEF Key
  <2>8. PlaceOK(t)'
    BY <1>1, <2>2, <2>3, <2>5, <2>7 DEF PlaceOK, Marked
  <2>9. RunOK(t, L)'
    <3> PICK c : c = th[t].link[1]
      OBVIOUS
    <3>1. Run(c, h, L)'
      BY <2>2, <2>5
    <3> QED  BY <2>3, <2>5, <2>6, <3>1 DEF RunOK, Run, Key
  <2>10. PICK a : a = MayAnswer(t)'
    OBVIOUS
  <2>11. GoesOn(t, a)
    <3>1. ~SeenAbsent(t)' /\ ~SeenPresent(t)'
      BY <2>3, <2>5 DEF SeenAbsent, SeenPresent
    <3>2. a \subseteq MayAnswer(t)
      BY <1>1, <2>3, <2>5, <2>10, <3>1 DEF MayAnswer
    <3> QED  BY <2>5, <3>2 DEF GoesOn
  <2>12. L \in SUBSET DOMAIN mem'
    BY <1>1
  <2> QED  BY <1>1, <2>3, <2>4, <2>5, <2>8, <2>9, <2>10, <2>11, <2>12, OnStep
<1> QED  BY <1>2, <1>3

LEMMA CheckAgainInv ==
    ASSUME ListAssumption, NEW L \in SUBSET DOMAIN mem, InvWith(L), NEW t \in Threads,
           CheckAgain(t)
    PROVE  Inv'
<1>1. Busy(t) /\ th[t].pc = "check_again" /\ UNCHANGED mem
  BY BusyIs DEF CheckAgain, PCs
<1>2. ReturnIfUnmarked(t)
  BY DEF CheckAgain
<1>3. th[t].pc = "check_again" \/ (th[t].pc = "check" /\ th[t].link = <<Right(t), 0>>)
  BY <1>1
<1> QED  BY <1>1, <1>2, <1>3, ReturnIfUnmarkedInv

\* The search unlinks the nodes between left and right; its key is not in the list
\* then if right has a greater one.
LEMMA UnlinkRunInv ==
    ASSUME ListAssumption, NEW L \in SUBSET DOMAIN mem, InvWith(L), NEW t \in Threads,
           UnlinkRun(t)
    PROVE  Inv'
<1>1. Busy(t) /\ th[t].pc = "unlink_run"
  BY BusyIs DEF UnlinkRun, PCs
<1> PICK w, h, c \in DOMAIN mem : w = Left(t) /\ h = Right(t) /\ c = th[t].link[1]
  BY <1>1, OperationIs
<1> PICK k \in Keys : k = req[t].key
  BY <1>1, OperationIs
<1>2. /\ th[t] \in LocalsType /\ PlaceOK(t) /\ Shape(L) /\ L \subseteq DOMAIN mem
      /\ req[t].op \in Ops /\ k \in Nat
      /\ \A n \in DOMAIN mem : Key(n) \in Nat
      /\ Run(c, h, L) /\ th[t].link = <<c, 0>> /\ Key(w) < k /\ Key(w) < KEY_MAX
      /\ k <= Key(h)
  <2>1. PlaceOK(t)
    BY <1>1, OperationIs
  <2> QED  BY <1>1, <2>1, OperationIs, Nodes DEF RunOK, PlaceOK
<1>3. th[t].then \in {"found", "done"} /\ (th[t].then = "done" => req[t].op = "delete")
  BY <1>2 DEF LocalsType, PlaceOK
<1>4. CASE CASFails(w, th[t].link) /\ SearchAgain(t)
  <2>1. On(t, Start(th[t].then)) /\ UNCHANGED mem
    BY <1>4 DEF SearchAgain, Start, CASFails
  <2>2. PICK x \in {"found", "done"} : x = th[t].then
    BY <1>3
  <2> QED  BY <1>1, <1>3, <2>1, <2>2, RestartInv
<1>5. CASE CAS(w, th[t].link, <<h, 0>>) /\ Goto(t, "check_again")
  <2>1. mem[w].next = <<c, 0>> /\ mem' = [mem EXCEPT ![w].next = <<h, 0>>]
    BY <1>2, <1>5 DEF CAS
  <2>2. Live(w) /\ Succ(w) = c
    BY <2>1 DEF Live, Marked, Succ
  <2>3. /\ w \in L /\ c \in L
        /\ \A n \in L : Key(n) <= Key(w) \/ Key(c) <= Key(n)
    BY <1>2, <2>2, Neighbours
  <2>4. /\ h \in L
        /\ \A n \in L : Live(n) => Key(n) <= Key(w) \/ Key(h) <= Key(n)
    <3>1. /\ h \in L
          /\ \A n \in L : Live(n) => Key(n) < Key(c) \/ Key(h) <= Key(n)
      BY <1>2, <2>3 DEF Run
    <3> QED  BY <1>2, <2>3, <3>1
  <2>5. Key(w) < Key(h)
    BY <1>2
  <2>6. PICK M \in SUBSET DOMAIN mem' : Becomes(L, M)
    BY <1>2, <2>1, <2>2, <2>4, <2>5, UnlinkChange
  <2>7. Contents' = Contents
    BY <1>2, <2>1, <2>2, <2>4, <2>5, UnlinkChange
  <2>8. PICK s : s = [th[t] EXCEPT !.pc = "check_again"]
    OBVIOUS
  <2>9. /\ s \in LocalsType /\ s.pc = "check_again" /\ s.left = w
        /\ s.right = h /\ s.then = th[t].then
    BY <1>2, <2>8 DEF LocalsType, PCs, Left, Right
  <2>10. On(t, s)
    BY <1>5, <2>8 DEF Goto
  <2>11. th'[t] = s /\ req' = req
    BY <2>10 DEF On, InvWith, ThOK
  <2>12. Busy(t)'
    BY <2>9, <2>11 DEF Busy, Idle
  <2>13. Key(Left(t))' = Key(w) /\ Key(Right(t))' = Key(h)
    <3>1. Key(w)' = Key(w) /\ Key(h)' = Key(h)
      BY <2>6 DEF Becomes, Grows
    <3> QED  BY <2>9, <2>11, <3>1 DEF Left, Right, Key
  <2>14. PlaceOK(t)'
    BY <1>2, <1>3, <2>9, <2>11, <2>13 DEF PlaceOK
  <2>15. RunOK(t, M)'
    BY <2>9, <2>11 DEF RunOK
  <2>16. PICK a : a = MayAnswer(t)'
    OBVIOUS
  <2>17. MayTake(t, a) \/ GoesOn(t, a)
    <3>1. CASE th[t].then = "done"
      <4>1. a = {"yes"} /\ MayAnswer(t) = {"yes"}
        BY <1>1, <2>9, <2>11, <2>12, <2>16, <3>1 DEF MayAnswer
      <4> QED  BY <2>7, <4>1 DEF GoesOn
    <3>2. ASSUME th[t].then # "done" PROVE MayTake(t, a) \/ GoesOn(t, a)
      <4>1. "pending" \in MayAnswer(t)
        BY <1>1, <3>2, Undecided
      <4>2. ~SeenPresent(t)'
        BY <2>9, <2>11 DEF SeenPresent
      <4>3. \A b \in a : b = "pending" \/ (b = "no" /\ SeenAbsent(t)')
        BY <2>9, <2>11, <2>12, <2>16, <3>2, <4>2, UndecidedNext DEF Undecides
      <4>4. CASE ~SeenAbsent(t)'
        <5>1. a \subseteq MayAnswer(t)
          BY <4>1, <4>3, <4>4
        <5> QED  BY <2>7, <5>1 DEF GoesOn
      <4>5. CASE SeenAbsent(t)'
        <5>1. k < Key(h) /\ req[t].op # "insert"
          BY <2>11, <2>13, <4>5 DEF SeenAbsent
        <5>2. k \notin Contents
          <6>1. \A n \in DOMAIN mem : Live(n) => Key(n) # k
            BY <1>2, <2>4, <5>1 DEF Shape, ListOK
          <6> QED  BY <6>1 DEF Contents
        <5>3. Made(t, Contents) = Contents /\ Answer(t, Contents) = "no"
          BY <1>2, <5>1, <5>2, AnswerIs
        <5>4. a \subseteq MayAnswer(t) \cup {Answer(t, Contents)}
          BY <4>1, <4>3, <5>3
        <5> QED  BY <2>7, <4>1, <5>3, <5>4 DEF MayTake
      <4> QED  BY <4>4, <4>5
    <3> QED  BY <3>1, <3>2
  <2> QED  BY <1>1, <2>6, <2>9, <2>10, <2>14, <2>15, <2>16, <2>17, OnStep
<1> QED  BY <1>4, <1>5 DEF UnlinkRun

\* harris_find returns.
LEMMA FindInv ==
    ASSUME ListAssumption, NEW L \in SUBSET DOMAIN mem, InvWith(L), NEW t \in Threads,
           harris_find(t)
    PROVE  Inv'
<1>1. Busy(t) /\ th[t].pc = "found" /\ req[t].op = "find" /\ UNCHANGED mem
  BY BusyIs DEF harris_find, Found, PCs
<1>2. /\ PlaceOK(t) /\ req[t].key \in Nat /\ Key(Right(t)) \in Nat
  BY <1>1, OperationIs
<1>3. th[t].then = "found" /\ req[t].key <= Key(Right(t))
  BY <1>1, <1>2 DEF PlaceOK
<1>4. PICK r \in Answers : r = IF IsThere(t) THEN "yes" ELSE "no"
  BY DEF Answers
<1>5. r \in MayAnswer(t)
  <2>1. CASE IsThere(t)
    BY <1>1, <1>3, <1>4, <2>1, Undecided DEF SeenPresent, IsThere
  <2>2. CASE ~IsThere(t)
    <3>1. req[t].key < Key(Right(t))
      BY <1>2, <1>3, <2>2 DEF IsThere
    <3>2. SeenAbsent(t)
      BY <1>1, <3>1 DEF SeenAbsent
    <3> QED  BY <1>1, <1>3, <1>4, <2>2, <3>2, Undecided
  <2> QED  BY <2>1, <2>2
<1>6. Becomes(L, L) /\ Contents' = Contents /\ L \in SUBSET DOMAIN mem'
  BY <1>1, Stays DEF InvWith
<1>7. GoesOn(t, {r}) /\ Return(t, r)
  BY <1>4, <1>5, <1>6 DEF GoesOn, harris_find
<1> QED  BY <1>6, <1>7, ReturnStep

\* So do an insertion and a deletion that find nothing to change.
LEMMA NothingToDoInv ==
    ASSUME ListAssumption, NEW L \in SUBSET DOMAIN mem, InvWith(L), NEW t \in Threads,
           NothingToDo(t)
    PROVE  Inv'
<1>1. Busy(t) /\ th[t].pc = "found" /\ UNCHANGED mem
  BY BusyIs DEF NothingToDo, Found, PCs
<1>2. PlaceOK(t) /\ req[t].key \in Nat /\ Key(Right(t)) \in Nat
  BY <1>1, OperationIs
<1>3. th[t].then = "found" /\ req[t].key <= Key(Right(t))
  BY <1>1, <1>2 DEF PlaceOK
<1>4. "no" \in MayAnswer(t)
  <2>1. CASE Found(t, "insert") /\ IsThere(t)
    BY <1>1, <1>3, <2>1, Undecided DEF SeenPresent, IsThere, Found
  <2>2. CASE Found(t, "delete") /\ ~IsThere(t)
    <3>1. req[t].key < Key(Right(t))
      BY <1>2, <1>3, <2>2 DEF IsThere
    <3>2. SeenAbsent(t)
      BY <1>1, <2>2, <3>1 DEF SeenAbsent, Found
    <3> QED  BY <1>1, <1>3, <3>2, Undecided
  <2> QED  BY <2>1, <2>2 DEF NothingToDo
<1>5. Becomes(L, L) /\ Contents' = Contents /\ L \in SUBSET DOMAIN mem'
  BY <1>1, Stays DEF InvWith
<1>6. GoesOn(t, {"no"}) /\ Return(t, "no") /\ "no" \in Answers
  BY <1>4, <1>5 DEF GoesOn, NothingToDo, Answers
<1> QED  BY <1>5, <1>6, ReturnStep

\* An operation that starts over.
LEMMA AgainInv ==
    ASSUME ListAssumption, NEW L \in SUBSET DOMAIN mem, InvWith(L), UNCHANGED mem,
           NEW t \in Threads, th[t].pc \in {"found", "mark"}, Again(t)
    PROVE  Inv'
<1>1. Busy(t)
  BY BusyIs DEF PCs
<1>2. th[t].then = "found"
  BY <1>1, OperationIs DEF PlaceOK
<1>3. On(t, Start("found"))
  BY DEF Again, Start, Locals
<1> QED  BY <1>1, <1>2, <1>3, RestartInv

LEMMA DoneInv ==
    ASSUME ListAssumption, NEW L \in SUBSET DOMAIN mem, InvWith(L), NEW t \in Threads,
           Done(t)
    PROVE  Inv'
<1>1. Busy(t) /\ th[t].pc = "done" /\ UNCHANGED mem
  BY BusyIs DEF Done, PCs
<1>2. "yes" \in MayAnswer(t)
  BY <1>1, OperationIs, Undecided DEF PlaceOK
<1>3. Becomes(L, L) /\ Contents' = Contents /\ L \in SUBSET DOMAIN mem'
  BY <1>1, Stays DEF InvWith
<1>4. GoesOn(t, {"yes"}) /\ Return(t, "yes") /\ "yes" \in Answers
  BY <1>2, <1>3 DEF GoesOn, Done, Answers
<1> QED  BY <1>3, <1>4, ReturnStep

\* harris_insert takes effect when the new node is linked.
LEMMA InsertInv ==
    ASSUME ListAssumption, NEW L \in SUBSET DOMAIN mem, InvWith(L), NEW t \in Threads,
           harris_insert(t)
    PROVE  Inv'
<1>1. Busy(t) /\ th[t].pc = "found" /\ req[t].op = "insert"
  BY BusyIs DEF harris_insert, LinkNew, Found, PCs
<1>2. CASE CASFails(Left(t), <<Right(t), 0>>) /\ Again(t)
  BY <1>1, <1>2, AgainInv DEF CASFails
<1>3. CASE MayLink(t) /\ mem' = Linked(node(req[t].key, Right(t)), Left(t))
             /\ Return(t, "yes")
  <2> PICK w, h \in DOMAIN mem : w = Left(t) /\ h = Right(t)
    BY <1>1, OperationIs
  <2> PICK k \in Keys : k = req[t].key
    BY <1>1, OperationIs
  <2>1. /\ PlaceOK(t) /\ Shape(L) /\ req[t].op \in Ops /\ k \in Nat
        /\ Key(h) \in Nat /\ Key(w) < k
    BY <1>1, OperationIs
  <2>2. mem[w].next = <<h, 0>> /\ mem' = Linked(node(k, h), w)
    BY <1>3 DEF MayLink
  <2>3. k < Key(h)
    <3>1. k <= Key(h)
      BY <1>1, <2>1 DEF PlaceOK
    <3>2. Key(h) # k
      BY DEF harris_insert, LinkNew, IsThere
    <3> QED  BY <2>1, <3>1, <3>2
  <2>4. /\ \E M \in SUBSET DOMAIN mem' : Becomes(L, M)
        /\ Contents' = Contents \cup {k} /\ k \notin Contents
    BY <2>1, <2>2, <2>3, InsertChange
  <2>5. Made(t, Contents) = Contents \cup {k} /\ Answer(t, Contents) = "yes"
    BY <1>1, <2>1, <2>4, AnswerIs
  <2>6. "pending" \in MayAnswer(t)
    BY <1>1, <2>1, Undecided DEF PlaceOK
  <2>7. Takes(t, {"yes"}) /\ "yes" \in Answers
    BY <2>4, <2>5, <2>6 DEF Takes, Answers
  <2> QED  BY <1>3, <2>4, <2>7, ReturnStep
<1> QED  BY <1>2, <1>3 DEF harris_insert, LinkNew

\* harris_delete reads the link of right.
LEMMA ReadNextInv ==
    ASSUME ListAssumption, NEW L \in SUBSET DOMAIN mem, InvWith(L), NEW t \in Threads,
           ReadNext(t)
    PROVE  Inv'
<1>1. Busy(t) /\ th[t].pc = "found" /\ req[t].op = "delete" /\ UNCHANGED mem /\ IsThere(t)
  BY BusyIs DEF ReadNext, Found, PCs
<1>2. CASE Deleted(Right(t))
  BY <1>1, <1>2, AgainInv DEF ReadNext
<1>3. CASE ~Deleted(Right(t))
  <2> PICK h \in DOMAIN mem : h = Right(t)
    BY <1>1, OperationIs
  <2>1. /\ th[t] \in LocalsType /\ PlaceOK(t) /\ Shape(L) /\ Live(h) /\ Key(h) = req[t].key
        /\ Key(h) < KEY_MAX
    BY <1>1, <1>3, OperationIs DEF Deleted, Live, IsThere
  <2>2. mem[h].next = <<Succ(h), 0>> /\ Succ(h) \in DOMAIN mem
    BY <2>1, NodesAre, Neighbours DEF Shape
  <2> PICK r \in DOMAIN mem : r = Succ(h)
    BY <2>2
  <2>3. PICK s : s = [th[t] EXCEPT !.pc = "mark", !.link = <<r, 0>>]
    OBVIOUS
  <2>4. /\ s \in LocalsType /\ s.pc = "mark" /\ s.left = th[t].left
        /\ s.right = h /\ s.link = <<r, 0>> /\ s.then = th[t].then
    BY <2>1, <2>3 DEF LocalsType, PCs, Right
  <2>5. On(t, s)
    BY <1>3, <2>2, <2>3 DEF ReadNext
  <2>6. /\ Becomes(L, L) /\ Contents' = Contents /\ th'[t] = s /\ req' = req /\ Busy(t)'
        /\ \A n : Key(n)' = Key(n)
    BY <1>1, <2>4, <2>5, GotoIs
  <2>7. Left(t)' = Left(t) /\ Right(t)' = h
    BY <2>4, <2>6 DEF Left, Right
  <2>8. Key(Left(t))' = Key(Left(t)) /\ Key(Right(t))' = Key(h)
    BY <2>6, <2>7 DEF Key
  <2>9. PlaceOK(t)'
    BY <1>1, <2>1, <2>4, <2>6, <2>8 DEF PlaceOK, Marked
  <2>10. RunOK(t, L)'
    BY <2>4, <2>6 DEF RunOK
  <2>11. PICK a : a = MayAnswer(t)'
    OBVIOUS
  <2>12. GoesOn(t, a)
    <3>1. ~SeenAbsent(t)' /\ ~SeenPresent(t)'
      BY <2>4, <2>6 DEF SeenAbsent, SeenPresent
    <3>2. th[t].then = "found"
      BY <1>1, <2>1 DEF PlaceOK
    <3>3. a \subseteq MayAnswer(t)
      BY <1>1, <2>4, <2>6, <2>11, <3>1, <3>2 DEF MayAnswer
    <3> QED  BY <2>6, <3>3 DEF GoesOn
  <2>13. L \in SUBSET DOMAIN mem'
    BY <1>1
  <2> QED  BY <1>1, <2>4, <2>5, <2>6, <2>9, <2>10, <2>11, <2>12, <2>13, OnStep
<1> QED  BY <1>2, <1>3

\* harris_delete takes effect when right gets its mark.
LEMMA MarkInv ==
    ASSUME ListAssumption, NEW L \in SUBSET DOMAIN mem, InvWith(L), NEW t \in Threads,
           Mark(t)
    PROVE  Inv'
<1>1. Busy(t) /\ th[t].pc = "mark"
  BY BusyIs DEF Mark, MarkRight, PCs
<1>2. CASE CASFails(Right(t), th[t].link) /\ Again(t)
  BY <1>1, <1>2, AgainInv DEF CASFails
<1>3. CASE CAS(Right(t), th[t].link, WithMark(th[t].link)) /\ Goto(t, "unlink")
  <2> PICK h, c \in DOMAIN mem : h = Right(t) /\ c = th[t].link[1]
    BY <1>1, OperationIs
  <2> PICK k \in Keys : k = req[t].key
    BY <1>1, OperationIs
  <2>1. /\ th[t] \in LocalsType /\ PlaceOK(t) /\ Shape(L) /\ req[t].op \in Ops
    BY <1>1, OperationIs
  <2>2. /\ Key(h) = k /\ req[t].op = "delete" /\ th[t].link = <<c, 0>>
        /\ th[t].then = "found"
    BY <1>1, <2>1, OperationIs DEF PlaceOK
  <2>3. mem[h].next = <<c, 0>> /\ mem' = [mem EXCEPT ![h].next = WithMark(mem[h].next)]
    BY <1>3, <2>2 DEF CAS
  <2>4. Live(h)
    BY <2>3 DEF Live, Marked
  <2>5. Becomes(L, L) /\ Contents' = Contents \ {k}
    BY <2>1, <2>2, <2>3, <2>4, MarkChange
  <2>6. k \in Contents
    BY <2>2, <2>4 DEF Contents
  <2>7. PICK s : s = [th[t] EXCEPT !.pc = "unlink"]
    OBVIOUS
  <2>8. /\ s \in LocalsType /\ s.pc = "unlink" /\ s.left = th[t].left
        /\ s.right = h /\ s.link = <<c, 0>> /\ s.then = "found"
    BY <2>1, <2>2, <2>7 DEF LocalsType, PCs, Right
  <2>9. On(t, s)
    BY <1>3, <2>7 DEF Goto
  <2>10. th'[t] = s /\ req' = req
    BY <2>9 DEF On, InvWith, ThOK
  <2>11. Busy(t)'
    BY <2>8, <2>10 DEF Busy, Idle
  <2> PICK w \in DOMAIN mem : w = Left(t)
    BY <1>1, OperationIs
  <2>12. Key(Left(t))' = Key(w) /\ Key(Right(t))' = Key(h) /\ Right(t)' = h
    <3>1. Key(w)' = Key(w) /\ Key(h)' = Key(h)
      BY <2>5 DEF Becomes, Grows
    <3> QED  BY <2>8, <2>10, <3>1 DEF Left, Right, Key
  <2>13. mem'[h].next = WithMark(<<c, 0>>)
    <3>1. mem[h] \in NodeType /\ mem[h].next = <<c, 0>>
      BY <2>1, <2>3, NodesAre DEF Shape
    <3> QED  BY <2>3, <3>1 DEF NodeType
  <2>14. PlaceOK(t)'
    <3>1. Key(w) < k
      BY <2>1 DEF PlaceOK
    <3>2. /\ th'[t].pc = "unlink" /\ th'[t].link = <<c, 0>> /\ th'[t].then = "found"
          /\ req'[t].key = k /\ req'[t].op = "delete"
      BY <2>2, <2>8, <2>10
    <3>3. mem'[Right(t)'].next = WithMark(th'[t].link)
      BY <2>12, <2>13, <3>2
    <3>4. ~Marked(th'[t].link)
      BY <3>2 DEF Marked
    <3> QED  BY <2>2, <2>12, <3>1, <3>2, <3>3, <3>4 DEF PlaceOK, Marked, WithMark
  <2>15. RunOK(t, L)'
    BY <2>8, <2>10 DEF RunOK
  <2>16. PICK a : a = MayAnswer(t)'
    OBVIOUS
  <2>17. a = {"yes"}
    BY <2>8, <2>10, <2>11, <2>16 DEF MayAnswer
  <2>18. Takes(t, a)
    <3>1. Made(t, Contents) = Contents \ {k} /\ Answer(t, Contents) = "yes"
      BY <2>1, <2>2, <2>6, AnswerIs
    <3>2. "pending" \in MayAnswer(t)
      BY <1>1, <2>2, Undecided
    <3> QED  BY <2>5, <2>17, <3>1, <3>2 DEF Takes
  <2>19. L \in SUBSET DOMAIN mem'
    BY <2>5 DEF Becomes, Grows
  <2> QED  BY <1>1, <2>5, <2>8, <2>9, <2>14, <2>15, <2>16, <2>18, <2>19, OnStep
<1> QED  BY <1>2, <1>3 DEF Mark, MarkRight

\* It unlinks the node, or searches for it once more so that the search does.
LEMMA UnlinkInv ==
    ASSUME ListAssumption, NEW L \in SUBSET DOMAIN mem, InvWith(L), NEW t \in Threads,
           Unlink(t)
    PROVE  Inv'
<1>1. Busy(t) /\ th[t].pc = "unlink"
  BY BusyIs DEF Unlink, PCs
<1>2. req[t].op = "delete"
  BY <1>1, OperationIs DEF PlaceOK
<1>3. CASE CASFails(Left(t), <<Right(t), 0>>) /\ On(t, Start("done"))
  BY <1>1, <1>2, <1>3, RestartInv DEF CASFails
<1>4. CASE CAS(Left(t), <<Right(t), 0>>, th[t].link) /\ Return(t, "yes")
  <2> PICK w, h, c \in DOMAIN mem : w = Left(t) /\ h = Right(t) /\ c = th[t].link[1]
    BY <1>1, OperationIs
  <2>1. /\ PlaceOK(t) /\ Shape(L) /\ L \subseteq DOMAIN mem
        /\ \A n \in DOMAIN mem : Key(n) \in Nat
        /\ Key(w) < KEY_MAX /\ Key(w) < req[t].key /\ req[t].key < KEY_MAX
    BY <1>1, OperationIs, Nodes
  <2>2. Key(h) = req[t].key /\ mem[h].next = WithMark(th[t].link)
    BY <1>1, <2>1 DEF PlaceOK
  <2>3. th[t].link = <<c, th[t].link[2]>>
    BY <1>1, OperationIs DEF LocalsType
  <2>4. Succ(h) = c /\ ~Live(h)
    BY <2>2 DEF Succ, Live, Marked, WithMark
  <2>5. mem[w].next = <<h, 0>> /\ mem' = [mem EXCEPT ![w].next = th[t].link]
    BY <1>4 DEF CAS
  <2>6. Live(w) /\ Succ(w) = h
    BY <2>5 DEF Live, Marked, Succ
  <2>7. /\ w \in L /\ h \in L
        /\ \A n \in L : Key(n) <= Key(w) \/ Key(h) <= Key(n)
    BY <2>1, <2>6, Neighbours
  <2>8. /\ c \in L /\ Key(h) < Key(c)
        /\ \A n \in L : Key(n) <= Key(h) \/ Key(c) <= Key(n)
    <3>1. Key(h) < KEY_MAX
      BY <2>1, <2>2
    <3> QED  BY <2>1, <2>4, <2>7, <3>1, Neighbours
  <2>9. \A n \in L : Live(n) => Key(n) <= Key(w) \/ Key(c) <= Key(n)
    <3> SUFFICES ASSUME NEW n \in L, Live(n) PROVE Key(n) <= Key(w) \/ Key(c) <= Key(n)
      OBVIOUS
    <3>1. Key(n) # Key(h)
      BY <2>1, <2>4, <2>7 DEF Shape, ListOK
    <3> QED  BY <2>1, <2>7, <2>8, <3>1
  <2>10. mem' = [mem EXCEPT ![w].next = <<c, 0>>]
    <3>1. th[t].link = <<c, 0>>
      BY <1>1, <2>1, OperationIs DEF PlaceOK
    <3> QED  BY <2>5, <3>1
  <2>11. /\ \E M \in SUBSET DOMAIN mem' : Becomes(L, M)
         /\ Contents' = Contents
    <3>1. Key(w) < Key(c)
      BY <2>1, <2>2, <2>8
    <3> QED  BY <2>1, <2>6, <2>8, <2>9, <2>10, <3>1, UnlinkChange
  <2>12. GoesOn(t, {"yes"}) /\ "yes" \in Answers
    BY <1>1, <2>11, Undecided DEF GoesOn, Answers
  <2> QED  BY <1>4, <2>11, <2>12, ReturnStep
<1>5. [Locals("search", head, head, <<head, 0>>) EXCEPT !.then = "done"] = Start("done")
  BY DEF Start
<1> QED  BY <1>3, <1>4, <1>5 DEF Unlink

-----------------------------------------------------------------------------
(* The list that the program starts with, and the theorem.                  *)

\* How many of the keys are less than k.
Rank(order, k) == Cardinality({j \in order : j < k})

LEMMA RankIs ==
    ASSUME NEW order \in SUBSET Nat, IsFiniteSet(order)
    PROVE  /\ \A k \in order : Rank(order, k) \in 0 .. Cardinality(order) - 1
           /\ \A k, j \in order : j < k => Rank(order, j) < Rank(order, k)
           /\ \A i \in 0 .. Cardinality(order) - 1 : \E k \in order : Rank(order, k) = i
<1> DEFINE N == Cardinality(order)
           Less(k) == {j \in order : j < k}
<1>1. N \in Nat
  BY FS_CardinalityType
<1>2. \A k : Less(k) \subseteq order /\ IsFiniteSet(Less(k)) /\ Cardinality(Less(k)) \in Nat
  <2>1. \A k : Less(k) \subseteq order
    OBVIOUS
  <2> HIDE DEF Less
  <2> QED  BY <2>1, FS_Subset, FS_CardinalityType
<1>3. ASSUME NEW k \in order PROVE Cardinality(Less(k)) < N
  <2>1. Less(k) # order
    <3>1. k \notin Less(k)
      OBVIOUS
    <3> QED  BY <1>3, <3>1
  <2>2. Less(k) \subseteq order /\ IsFiniteSet(Less(k))
    BY <1>2
  <2> HIDE DEF Less
  <2>3. /\ Cardinality(Less(k)) <= Cardinality(order)
        /\ Cardinality(order) = Cardinality(Less(k)) => order = Less(k)
    BY <2>2, FS_Subset
  <2>4. Cardinality(Less(k)) \in Nat
    BY <1>2
  <2> QED  BY <1>1, <2>1, <2>3, <2>4
<1>4. ASSUME NEW k \in order, NEW j \in order, j < k
      PROVE  Cardinality(Less(j)) < Cardinality(Less(k))
  <2>1. Less(j) \subseteq Less(k) /\ Less(j) # Less(k)
    <3>1. k \in Nat /\ j \in Nat
      OBVIOUS
    <3>2. j \in Less(k) /\ j \notin Less(j)
      BY <1>4, <3>1
    <3>3. \A i \in Less(j) : i \in Nat /\ i < j
      OBVIOUS
    <3>4. \A i \in Less(j) : i \in Less(k)
      BY <1>4, <3>1, <3>3
    <3> QED  BY <3>2, <3>4
  <2>2. IsFiniteSet(Less(k)) /\ IsFiniteSet(Less(j))
    BY <1>2
  <2>3. Cardinality(Less(j)) \in Nat /\ Cardinality(Less(k)) \in Nat
    BY <1>2
  <2> HIDE DEF Less
  <2> QED  BY <2>1, <2>2, <2>3, FS_Subset
<1> HIDE DEF Less
<1>5. PICK f : f = [k \in order |-> Cardinality(Less(k))]
  OBVIOUS
<1>6. \A k \in order : f[k] \in 0 .. N - 1
  BY <1>1, <1>2, <1>3, <1>5
<1>7. f \in Injection(order, 0 .. N - 1)
  <2>1. \A k, j \in order : f[k] = f[j] => k = j
    <3> SUFFICES ASSUME NEW k \in order, NEW j \in order, f[k] = f[j], k # j PROVE FALSE
      OBVIOUS
    <3>1. j < k \/ k < j
      OBVIOUS
    <3>2. f[k] \in Nat /\ f[j] \in Nat
      BY <1>1, <1>6
    <3> QED  BY <1>4, <1>5, <3>1, <3>2
  <2> QED  BY <1>5, <1>6, <2>1 DEF Injection, IsInjective
<1>8. \A i \in 0 .. N - 1 : \E k \in order : f[k] = i
  <2>1. IsFiniteSet(0 .. N - 1) /\ Cardinality(0 .. N - 1) = N
    <3> HIDE DEF N
    <3>1. N - 1 \in Int
      BY <1>1
    <3>2. /\ IsFiniteSet(0 .. N - 1)
          /\ Cardinality(0 .. N - 1) = IF 0 > N - 1 THEN 0 ELSE N - 1 - 0 + 1
      BY <3>1, FS_Interval
    <3> QED  BY <1>1, <3>2
  <2>2. f \in Surjection(order, 0 .. N - 1)
    BY <1>7, <2>1, FS_Injection, FS_Surjection
  <2> QED  BY <2>2 DEF Surjection
<1>9. \A k : Rank(order, k) = Cardinality(Less(k))
  BY DEF Rank, Less
<1> HIDE DEF N
<1> QED  BY <1>4, <1>5, <1>6, <1>8, <1>9 DEF N

LEMMA InitInv == ASSUME ListAssumption, Init PROVE Inv
<1>1. PICK s \in SUBSET Keys : ListInit(s)
  BY DEF Init
<1>2. /\ KEY_MIN = 0 /\ KEY_MAX \in Nat \ {0}
      /\ \A k \in Keys : k \in 1 .. KEY_MAX - 1
      /\ IsFiniteSet(Keys) /\ Keys \subseteq Nat
  BY KeysAre
<1>3. PICK order : order = {KEY_MIN, KEY_MAX} \cup s
  OBVIOUS
<1>4. PICK N : N = Cardinality(s) + 2
  OBVIOUS
<1>5. /\ order \in SUBSET Nat /\ IsFiniteSet(order) /\ Cardinality(order) = N
      /\ Cardinality(s) \in Nat /\ N \in Nat /\ N >= 2
  <2>1. IsFiniteSet(s) /\ Cardinality(s) \in Nat
    BY <1>1, <1>2, FS_Subset, FS_CardinalityType
  <2>2. KEY_MIN \notin s /\ KEY_MAX \notin s /\ KEY_MIN # KEY_MAX
    BY <1>1, <1>2
  <2>3. /\ IsFiniteSet(s \cup {KEY_MIN})
        /\ Cardinality(s \cup {KEY_MIN}) = Cardinality(s) + 1
    BY <2>1, <2>2, FS_AddElement
  <2>4. KEY_MAX \notin s \cup {KEY_MIN}
    BY <2>2
  <2>5. /\ IsFiniteSet(s \cup {KEY_MIN} \cup {KEY_MAX})
        /\ Cardinality(s \cup {KEY_MIN} \cup {KEY_MAX}) = Cardinality(s) + 1 + 1
    BY <2>3, <2>4, FS_AddElement
  <2>6. order = s \cup {KEY_MIN} \cup {KEY_MAX}
    BY <1>3
  <2>7. Cardinality(s) + 1 + 1 = N /\ N \in Nat /\ N >= 2
    BY <1>4, <2>1
  <2>8. order \in SUBSET Nat
    BY <1>1, <1>2, <1>3
  <2> QED  BY <2>1, <2>5, <2>6, <2>7, <2>8
<1>6. /\ \A k \in order : Rank(order, k) \in 0 .. N - 1
      /\ \A k, j \in order : j < k => Rank(order, j) < Rank(order, k)
      /\ \A i \in 0 .. N - 1 : \E k \in order : Rank(order, k) = i
  BY <1>5, RankIs
<1>7. PICK at : at = [i \in 0 .. N - 1 |-> CHOOSE k \in order : Rank(order, k) = i]
  OBVIOUS
<1>8. \A i \in 0 .. N - 1 : at[i] \in order /\ Rank(order, at[i]) = i
  BY <1>6, <1>7
<1>9. mem = [i \in 0 .. N - 1 |-> node(at[i], i + 1)]
  <2>1. mem = [i \in 0 .. Cardinality(s) + 1 |->
                 LET k == CHOOSE k \in {KEY_MIN, KEY_MAX} \cup s :
                            Cardinality({j \in {KEY_MIN, KEY_MAX} \cup s : j < k}) = i
                 IN node(k, i + 1)]
    BY <1>1 DEF ListInit
  <2>2. Cardinality(s) + 1 = N - 1
    BY <1>4, <1>5
  <2> QED  BY <1>3, <1>7, <2>1, <2>2 DEF Rank
<1>10. \A k \in order : k \in 0 .. KEY_MAX
  BY <1>1, <1>2, <1>3
<1>11. /\ DOMAIN mem = 0 .. N - 1
       /\ \A i \in 0 .. N - 1 : /\ mem[i] = node(at[i], i + 1)
                                /\ Key(i) = at[i] /\ Succ(i) = i + 1 /\ Live(i)
                                /\ Key(i) \in order /\ Rank(order, Key(i)) = i
                                /\ Key(i) \in Nat
  <2>1. \A i \in 0 .. N - 1 : mem[i] = node(at[i], i + 1)
    BY <1>9
  <2>2. \A i \in 0 .. N - 1 : mem[i].key = at[i] /\ mem[i].next = <<i + 1, 0>>
    <3>1. \A k, n : node(k, n).key = k /\ node(k, n).next = <<n, 0>>
      BY DEF node
    <3> QED  BY <2>1, <3>1
  <2>3. \A i \in 0 .. N - 1 : Key(i) = at[i] /\ Succ(i) = i + 1 /\ Live(i)
    BY <2>2 DEF Key, Succ, Live, Marked
  <2>4. \A k \in order : k \in Nat
    BY <1>5
  <2>5. DOMAIN mem = 0 .. N - 1
    BY <1>9
  <2> QED  BY <1>8, <2>1, <2>3, <2>4, <2>5
<1>12. MemOK
  <2>1. N - 1 \in Nat
    BY <1>5
  <2>2. \A i \in 0 .. N - 1 : node(at[i], i + 1) \in NodeType
    BY <1>8, <1>10 DEF node, NodeType
  <2> QED  BY <1>9, <2>1, <2>2 DEF MemOK
\* The keys ascend along the list.
<1>13. \A i, j \in 0 .. N - 1 : i < j <=> Key(i) < Key(j)
  <2> SUFFICES ASSUME NEW i \in 0 .. N - 1, NEW j \in 0 .. N - 1
               PROVE  i < j <=> Key(i) < Key(j)
    OBVIOUS
  <2>1. Key(i) < Key(j) => i < j
    BY <1>6, <1>11
  <2>2. Key(j) < Key(i) => j < i
    BY <1>6, <1>11
  <2>3. Key(i) = Key(j) => i = j
    BY <1>11
  <2>4. Key(i) \in Nat /\ Key(j) \in Nat /\ i \in Nat /\ j \in Nat
    BY <1>11
  <2> QED  BY <2>1, <2>2, <2>3, <2>4
<1>14. Key(0) = KEY_MIN /\ 0 \in 0 .. N - 1 /\ head = 0
  <2>1. 0 \in 0 .. N - 1
    BY <1>5
  <2>2. KEY_MIN \in order
    BY <1>3
  <2>3. Rank(order, KEY_MIN) \in 0 .. N - 1
    BY <1>6, <2>2
  <2> PICK i \in 0 .. N - 1 : i = Rank(order, KEY_MIN)
    BY <2>3
  <2>4. ~(KEY_MIN < Key(0))
    <3>1. KEY_MIN < Key(0) => Rank(order, KEY_MIN) < Rank(order, Key(0))
      BY <1>6, <1>11, <2>1, <2>2
    <3> QED  BY <1>11, <2>1, <3>1
  <2> QED  BY <1>2, <1>11, <2>1, <2>4 DEF head
<1>15. \A i \in 0 .. N - 1 : Key(i) = KEY_MAX <=> i = N - 1
  <2>1. KEY_MAX \in order /\ N - 1 \in 0 .. N - 1
    BY <1>3, <1>5
  <2>2. ~(Key(N - 1) < KEY_MAX)
    <3>1. Key(N - 1) < KEY_MAX => Rank(order, Key(N - 1)) < Rank(order, KEY_MAX)
      BY <1>6, <1>11, <2>1
    <3>2. Rank(order, KEY_MAX) \in 0 .. N - 1
      BY <1>6, <2>1
    <3> QED  BY <1>5, <1>11, <2>1, <3>1, <3>2
  <2>3. Key(N - 1) = KEY_MAX
    BY <1>2, <1>10, <1>11, <2>1, <2>2
  <2>4. \A i \in 0 .. N - 1 : Key(i) = KEY_MAX => i = N - 1
    <3>1. \A i \in 0 .. N - 1 : Key(i) = Key(N - 1) => Rank(order, Key(i)) = Rank(order, Key(N - 1))
      OBVIOUS
    <3> QED  BY <1>11, <2>1, <2>3, <3>1
  <2> QED  BY <2>3, <2>4
<1>16. NodesOK
  <2>1. ASSUME NEW i \in 0 .. N - 1, Key(i) # KEY_MAX
        PROVE  Succ(i) \in 0 .. N - 1 /\ Key(i) < Key(Succ(i))
    <3>1. i # N - 1 /\ Succ(i) = i + 1
      BY <1>11, <1>15, <2>1
    <3>2. i + 1 \in 0 .. N - 1 /\ i < i + 1
      BY <1>5, <3>1
    <3> QED  BY <1>13, <3>1, <3>2
  <2> QED  BY <1>11, <1>14, <2>1 DEF NodesOK
<1> PICK L : L = DOMAIN mem
  OBVIOUS
<1>17. ListOK(L)
  <2>1. ASSUME NEW i \in 0 .. N - 1, Key(i) # KEY_MAX
        PROVE  /\ Succ(i) \in 0 .. N - 1
               /\ \A n \in 0 .. N - 1 : Key(n) <= Key(i) \/ Key(Succ(i)) <= Key(n)
    <3>1. i # N - 1 /\ Succ(i) = i + 1
      BY <1>11, <1>15, <2>1
    <3>2. i + 1 \in 0 .. N - 1
      BY <1>5, <3>1
    <3>3. ASSUME NEW n \in 0 .. N - 1 PROVE Key(n) <= Key(i) \/ Key(i + 1) <= Key(n)
      <4>1. Key(n) \in Nat /\ Key(i) \in Nat /\ Key(i + 1) \in Nat
        BY <1>11, <3>2
      <4>2. n <= i \/ i + 1 <= n
        OBVIOUS
      <4>3. (i < n <=> Key(i) < Key(n)) /\ (n < i + 1 <=> Key(n) < Key(i + 1))
        BY <1>13, <3>2
      <4> QED  BY <4>1, <4>2, <4>3
    <3> QED  BY <3>1, <3>2, <3>3
  <2>2. \A a, b \in 0 .. N - 1 : Key(a) = Key(b) => a = b
    BY <1>11
  <2> QED  BY <1>11, <1>14, <2>1, <2>2 DEF ListOK
<1>18. Contents = s
  <2>1. \A k : k \in Contents <=> k \in Keys /\ k \in order
    <3>1. \A k \in order : \E i \in 0 .. N - 1 : Key(i) = k
      <4> SUFFICES ASSUME NEW k \in order PROVE \E i \in 0 .. N - 1 : Key(i) = k
        OBVIOUS
      <4> PICK i \in 0 .. N - 1 : i = Rank(order, k)
        BY <1>6
      <4>1. Rank(order, Key(i)) = Rank(order, k) /\ Key(i) \in order
        BY <1>11
      <4>2. ~(Key(i) < k) /\ ~(k < Key(i))
        <5>1. Rank(order, k) \in Nat
          BY <1>6
        <5> QED  BY <1>6, <4>1, <5>1
      <4>3. Key(i) \in Nat /\ k \in Nat
        BY <1>5, <1>11
      <4> QED  BY <4>2, <4>3
    <3> QED  BY <1>11, <3>1 DEF Contents
  <2>2. \A k \in Keys : k \in order <=> k \in s
    BY <1>2, <1>3
  <2> QED  BY <1>1, <2>1, <2>2
<1>19. \A t \in Threads : th[t] = Idle /\ ~Busy(t)
  BY <1>1 DEF ListInit, SetInit, Busy
<1>20. ThOK /\ ReqOK
  <2>1. req = [t \in Threads |-> req[t]] /\ th = [t \in Threads |-> th[t]]
    BY <1>1 DEF ListInit, SetInit
  <2>2. \A t \in Threads : req[t].op \in Ops /\ req[t].key \in Nat
    BY <1>1 DEF ListInit, SetInit, Ops
  <2> QED  BY <1>19, <2>1, <2>2 DEF ThOK, ReqOK
<1>21. LinOK
  <2>1. lin = {[set |-> s, ans |-> [t \in Threads |-> "none"]]}
    BY <1>1 DEF ListInit, SetInit
  <2>2. lin \subseteq Configs
    BY <1>1, <1>2, <2>1 DEF Configs, Answers
  <2>3. ReqTyped
    BY <1>20 DEF ReqOK, ReqTyped
  <2>4. lin \subseteq Extended(lin)
    BY <2>2, <2>3, LinHasFacts DEF LinFacts, ListAssumption
  <2>5. \A t \in Threads : MayAnswer(t) = {"none"}
    BY <1>19 DEF MayAnswer
  <2>6. Feasible(Contents, [t \in Threads |-> MayAnswer(t)])
    <3> SUFFICES ASSUME NEW f \in [Threads -> Answers], \A t \in Threads : f[t] \in MayAnswer(t)
                 PROVE  [set |-> Contents, ans |-> f] \in Extended(lin)
      BY DEF Feasible
    <3>1. f = [t \in Threads |-> "none"]
      BY <2>5
    <3> QED  BY <1>18, <2>1, <2>4, <3>1
  <2> QED  BY <2>2, <2>6 DEF LinOK
<1>22. InvWith(L)
  BY <1>12, <1>16, <1>17, <1>19, <1>20, <1>21 DEF InvWith, Shape
<1> QED  BY <1>22 DEF Inv

LEMMA StutterInv ==
    ASSUME ListAssumption, NEW L \in SUBSET DOMAIN mem, InvWith(L), UNCHANGED vars
    PROVE  Inv'
<1>1. UNCHANGED <<mem, th, req, lin>>
  BY DEF vars
<1>2. Becomes(L, L) /\ Contents' = Contents
  BY <1>1, Stays DEF InvWith
<1>3. \A u \in Threads :
         /\ Busy(u)' <=> Busy(u)
         /\ Busy(u) => th[u] \in LocalsType' /\ PlaceOK(u)' /\ RunOK(u, L)'
         /\ MayAnswer(u)' = MayAnswer(u)
  BY <1>1, <1>2, OthersStay
<1>4. ThOK' /\ ReqOK'
  BY <1>1, <1>3 DEF InvWith, ThOK, ReqOK
<1>5. LinOK'
  <2>1. PICK S, A : S = Contents /\ A = [t \in Threads |-> MayAnswer(t)]
    OBVIOUS
  <2>2. Feasible(S, A)'
    BY <1>1, <2>1, LinIs, OnKeeps
  <2>3. (lin \subseteq Configs)'
    BY <1>1, LinIs DEF Configs
  <2>4. [t \in Threads |-> MayAnswer(t)]' = A /\ Contents' = S
    BY <1>2, <1>3, <2>1
  <2> QED  BY <2>2, <2>3, <2>4 DEF LinOK, Feasible
<1>6. InvWith(L)' /\ L \in SUBSET DOMAIN mem'
  BY <1>1, <1>2, <1>3, <1>4, <1>5 DEF InvWith, Becomes
<1> QED  BY <1>6 DEF Inv

LEMMA NextInv == ASSUME ListAssumption, Inv, [Next]_vars PROVE Inv'
<1>1. PICK L \in SUBSET DOMAIN mem : InvWith(L)
  BY DEF Inv
<1>2. CASE UNCHANGED vars
  BY <1>1, <1>2, StutterInv
<1>3. CASE Next
  <2>1. CASE AllDone
    BY <1>1, <2>1, StutterInv DEF AllDone
  <2>2. ASSUME NEW t \in Threads,
               \/ BeginSearch(t) \/ Walk(t) \/ CheckAdjacent(t) \/ UnlinkRun(t)
               \/ CheckAgain(t) \/ harris_find(t) \/ NothingToDo(t)
               \/ harris_insert(t) \/ ReadNext(t) \/ Mark(t) \/ Unlink(t) \/ Done(t)
        PROVE  Inv'
    BY <1>1, <2>2, BeginSearchInv, WalkInv, CheckAdjacentInv, UnlinkRunInv, CheckAgainInv,
       FindInv, NothingToDoInv, InsertInv, ReadNextInv, MarkInv, UnlinkInv, DoneInv
  <2> QED  BY <1>3, <2>1, <2>2 DEF Next
<1> QED  BY <1>2, <1>3

\* Every answer of harris_find, harris_insert and harris_delete is that of a set to
\* which the operations are applied one after the other, each between its call and its
\* return: for any number of threads, keys and calls.
THEOREM HarrisLinearizable == ASSUME ListAssumption PROVE Spec => []Linearizable
<1>1. Inv => Linearizable
  <2> SUFFICES ASSUME Inv PROVE Linearizable
    OBVIOUS
  <2>1. PICK L \in SUBSET DOMAIN mem : InvWith(L)
    BY DEF Inv
  <2>2. PICK S, A : S = Contents /\ A = [t \in Threads |-> MayAnswer(t)]
    OBVIOUS
  <2>3. \A t \in Threads : \E a \in Answers : a \in MayAnswer(t)
    BY DEF MayAnswer, Answers
  <2> QED  BY <2>1, <2>2, <2>3, LinIs, FeasibleIsEnough
<1> QED  BY <1>1, InitInv, NextInv, PTL DEF Spec
\* What the lists share, as MichaelList sees it.
LEMMA MichaelShares ==
    /\ \A t, s : Michael!On(t, s) <=> On(t, s)
    /\ \A t, l : Michael!Goto(t, l) <=> Goto(t, l)
    /\ \A t : Michael!Again(t) <=> Again(t)
    /\ \A t, a : Michael!Return(t, a) <=> Return(t, a)
    /\ \A n, l, m : (Michael!CAS(n, l, m) <=> CAS(n, l, m)) /\ (Michael!CASFails(n, l) <=> CASFails(n, l))
    /\ \A t, l : Michael!MarkRight(t, l) <=> MarkRight(t, l)
    /\ \A t, o : Michael!Found(t, o) <=> Found(t, o)
    /\ \A t : (Michael!IsThere(t) <=> IsThere(t)) /\ Michael!Left(t) = Left(t) /\ Michael!Right(t) = Right(t)
    /\ \A n : Michael!Key(n) = Key(n) /\ Michael!Succ(n) = Succ(n)
    /\ \A l : (Michael!Marked(l) <=> Marked(l)) /\ Michael!Unmarked(l) = Unmarked(l)
    /\ \A s, l, r, k : Michael!Locals(s, l, r, k) = Locals(s, l, r, k)
    /\ Michael!head = head
    /\ \A t : (Michael!BeginSearch(t) <=> BeginSearch(t)) /\ (Michael!NothingToDo(t) <=> NothingToDo(t))
    /\ \A t : Michael!LinkNew(t) <=> LinkNew(t)
    /\ (Michael!Init <=> Init) /\ (Michael!AllDone <=> AllDone) /\ Michael!vars = vars
    /\ Michael!Linearizable <=> Linearizable
<1>1. \A S : Michael!Cardinality(S) = Cardinality(S)
  BY Zenon DEF Michael!Cardinality, Cardinality
<1>2. \A n : Michael!Key(n) = Key(n) /\ Michael!Succ(n) = Succ(n)
  BY DEF Michael!Key, Key, Michael!Succ, Succ
<1>3. \A l : (Michael!Marked(l) <=> Marked(l)) /\ Michael!Unmarked(l) = Unmarked(l) /\ Michael!WithMark(l) = WithMark(l)
  BY DEF Michael!Marked, Marked, Michael!Unmarked, Unmarked, Michael!WithMark, WithMark
<1>4. \A t : Michael!Left(t) = Left(t) /\ Michael!Right(t) = Right(t) /\ (Michael!IsThere(t) <=> IsThere(t))
  BY <1>2 DEF Michael!Left, Left, Michael!Right, Right, Michael!IsThere, IsThere
<1>5. Michael!head = head /\ \A s, l, r, k : Michael!Locals(s, l, r, k) = Locals(s, l, r, k)
  BY DEF Michael!Locals, Locals, Michael!head, head
<1>6. \A t, s : Michael!On(t, s) <=> On(t, s)
  BY DEF Michael!On, On
<1>7. \A t, l : Michael!Goto(t, l) <=> Goto(t, l)
  BY <1>6, Zenon DEF Michael!Goto, Goto
<1>8. \A t : Michael!Again(t) <=> Again(t)
  BY <1>5, <1>6 DEF Michael!Again, Again
<1>9. \A c, t : Michael!Applied(c, t) = Applied(c, t)
  BY Zenon DEF Michael!Applied, Applied
<1>10. \A C : Michael!OneMore(C) = OneMore(C)
  BY Zenon DEF Michael!OneMore, OneMore, Michael!Applied, Applied
<1>11. \A C : Michael!Extended(C) = Extended(C)
  BY <1>1, Zenon DEF Michael!Extended, Extended, Michael!OneMore, OneMore, Michael!Applied, Applied
<1>12. Michael!Idle = Idle
  BY DEF Michael!Idle, Idle
<1>13. \A t, a : Michael!Return(t, a) <=> Return(t, a)
  BY <1>11, <1>12, Zenon DEF Michael!Return, Return
<1>14. \A n, l, m : (Michael!CAS(n, l, m) <=> CAS(n, l, m)) /\ (Michael!CASFails(n, l) <=> CASFails(n, l))
  BY DEF Michael!CAS, CAS, Michael!CASFails, CASFails
<1>15. \A t, l : Michael!MarkRight(t, l) <=> MarkRight(t, l)
  BY <1>3, <1>4, <1>7, <1>8, <1>14, Zenon DEF Michael!MarkRight, MarkRight
<1>16. \A t, o : Michael!Found(t, o) <=> Found(t, o)
  BY DEF Michael!Found, Found
<1>17. \A t, o, k, s : Michael!Call(t, o, k, s) <=> Call(t, o, k, s)
  BY Zenon DEF Michael!Call, Call, Michael!Filling, Filling, Michael!Filler, Filler, Michael!NextToFill, NextToFill
<1>18. \A t : Michael!BeginSearch(t) <=> BeginSearch(t)
  BY <1>5, <1>17, Zenon DEF Michael!BeginSearch, BeginSearch, Michael!Ops, Ops
<1>19. \A t : Michael!NothingToDo(t) <=> NothingToDo(t)
  BY <1>4, <1>13, <1>16, Zenon DEF Michael!NothingToDo, NothingToDo
<1>20. Michael!vars = vars /\ (Michael!AllDone <=> AllDone) /\ (Michael!Linearizable <=> Linearizable)
  BY Zenon DEF Michael!vars, vars, Michael!AllDone, AllDone, Michael!Linearizable, Linearizable
<1>21. Michael!KEY_MAX = KEY_MAX /\ Michael!KEY_MIN = KEY_MIN /\ Michael!Fresh = Fresh
  BY <1>1, Zenon DEF Michael!KEY_MAX, KEY_MAX, Michael!KEY_MIN, KEY_MIN, Michael!Fresh, Fresh
<1>22. \A k, n : Michael!node(k, n) = node(k, n)
  BY Zenon DEF Michael!node, node
<1>23. \A s, n : Michael!SetInit(s, n) <=> SetInit(s, n)
  BY Zenon DEF Michael!SetInit, SetInit, Michael!Filler, Filler, Michael!Idle, Idle
<1>24. \A s : Michael!ListInit(s) <=> ListInit(s)
  BY <1>23, Zenon DEF Michael!ListInit, ListInit, Michael!node, node, Michael!KEY_MIN, KEY_MIN, Michael!KEY_MAX, KEY_MAX, Michael!Cardinality, Cardinality
<1>25. Michael!Init <=> Init
  BY <1>24, Zenon DEF Michael!Init, Init
<1>26. \A n, w : Michael!Linked(n, w) = Linked(n, w)
  BY <1>21, Zenon DEF Michael!Linked, Linked
<1>27. \A t : Michael!LinkNew(t) <=> LinkNew(t)
  BY <1>4, <1>8, <1>13, <1>14, <1>16, <1>22, <1>26, Zenon DEF Michael!LinkNew, LinkNew, Michael!MayLink, MayLink
<1> QED  BY <1>2, <1>3, <1>4, <1>5, <1>6, <1>7, <1>8, <1>13, <1>14, <1>15, <1>16, <1>18, <1>19, <1>20, <1>25, <1>27, Zenon

-----------------------------------------------------------------------------
(* Searches that look at nodes one by one.                                 *)
(*                                                                         *)
(* A thread meets nodes that are in the list at some time of its operation. *)
(* Those that have left it since keep their marks and links, so that they   *)
(* lead back, and wherever they lead past the key, the key was absent when   *)
(* they left.                                                              *)

\* Of freed nodes the key is none of the list's.
AnyNode == [key : Nat, next : Nat \X {0, 1}, marked : BOOLEAN, lock : Nat]
MemTyped == \E m \in Nat : mem \in [0 .. m -> AnyNode]

\* L is the list, marked nodes that have not been unlinked yet included.
Chain(L) ==
    /\ head \in L /\ L \subseteq DOMAIN mem /\ Key(head) = KEY_MIN
    /\ \A a \in L : Key(a) <= KEY_MAX /\ (Key(a) \in {KEY_MIN, KEY_MAX} => Live(a))
    /\ \A a \in L : Key(a) # KEY_MAX =>
          /\ Succ(a) \in L /\ Key(a) < Key(Succ(a))
          /\ \A n \in L : Key(n) <= Key(a) \/ Key(Succ(a)) <= Key(n)
    /\ \A a, b \in L : Key(a) = Key(b) => a = b

Holds(L) == {k \in Keys : \E n \in L : Live(n) /\ Key(n) = k}

\* M are the nodes that the operation q may meet; no: it may answer "no".
Met(q, L, M, no) ==
    /\ L \subseteq M /\ M \subseteq DOMAIN mem
    /\ \A x \in M \ L :
          /\ ~Live(x) /\ Key(x) < KEY_MAX
          /\ Succ(x) \in M /\ Key(x) < Key(Succ(x))
          /\ q.op # "insert" /\ Key(x) < q.key /\ q.key < Key(Succ(x)) => no
    /\ \A x \in M : q.op # "insert" /\ Key(x) = q.key /\ ~Live(x) => no

Places ==
    [pc : {"search", "validate", "look", "pass", "delete_right", "step", "found", "link",
           "mark", "unlink", "return"},
     left : Nat, right : Nat, link : Nat \X {0, 1}, then : {"found", "return"}]

\* Where the operation q stands.
Fine(s, q, M, no) ==
    /\ s \in Places /\ s.left \in M /\ s.right \in M
    /\ Key(s.left) < q.key
    /\ s.pc = "pass" => q.op = "find"
    /\ s.pc \in {"delete_right", "unlink"} => ~Live(s.right)
    /\ s.pc = "step" => Key(s.right) < q.key \/ ~Live(s.right)
    /\ s.pc \in {"found", "link"} => q.key <= Key(s.right)
    /\ s.pc = "link" => q.key < Key(s.right) /\ q.op = "insert"
    /\ s.pc \in {"mark", "unlink"} => Key(s.right) = q.key /\ q.op = "delete"
    /\ s.pc = "mark" => ~Marked(s.link)
    /\ s.pc \in {"found", "link", "mark", "unlink"} => s.then = "found"
    /\ s.then = "return" => q.op = "delete"
    /\ s.pc # "validate" /\ q.op # "insert" /\ q.key < Key(s.right) => no
    /\ s.pc = "found" /\ q.op = "insert" /\ q.key = Key(s.right) => no

\* A delete has marked its node.
Decided(s) == s.then = "return" \/ s.pc \in {"unlink", "return"}

StillAnswers(s, no) ==
    CASE s = Idle -> {"none"}
      [] s # Idle /\ Decided(s) -> {"yes"}
      [] OTHER -> {"pending"} \cup (IF no THEN {"no"} ELSE {})

MayStill(N) == [t \in Threads |-> StillAnswers(th[t], t \in N)]

\* A[t] are the nodes that t may meet, N the threads that may answer "no".
Core(L, A, N) ==
    /\ MemTyped /\ Chain(L)
    /\ A \in [Threads -> SUBSET Nat] /\ N \in SUBSET Threads
    /\ th = [t \in Threads |-> th[t]] /\ ReqOK
    /\ \A t \in Threads : Busy(t) => /\ Met(req[t], L, A[t], t \in N)
                                     /\ Fine(th[t], req[t], A[t], t \in N)
    /\ lin \subseteq Configs /\ Feasible(Holds(L), MayStill(N))

-----------------------------------------------------------------------------
(* What several operations may have observed.                              *)

\* B gives answers that A does, or that S has for operations not changing it.
Observed(S, A, B) ==
    \A t \in Threads :
       B[t] \subseteq A[t] \cup (IF "pending" \in A[t] /\ Made(t, S) = S
                                 THEN {Answer(t, S)} ELSE {})

LEMMA ObserveAll ==
    ASSUME IsFiniteSet(Threads), ReqTyped, lin \subseteq Configs,
           NEW S \in SUBSET Nat, NEW A, NEW B, Feasible(S, A), Observed(S, A, B)
    PROVE  Feasible(S, B)
<1> DEFINE P(f) == {t \in Threads : f[t] \notin A[t]}
           Good(f) == \A t \in Threads : f[t] \in A[t] \/
                         ("pending" \in A[t] /\ Made(t, S) = S /\ f[t] = Answer(t, S))
           Fails(f) == Good(f) /\ [set |-> S, ans |-> f] \notin Extended(lin)
           T == {n \in Nat : \E f \in [Threads -> Answers] :
                               Fails(f) /\ Cardinality(P(f)) = n}
<1>1. \A f \in [Threads -> Answers] : IsFiniteSet(P(f)) /\ Cardinality(P(f)) \in Nat
  <2> TAKE f \in [Threads -> Answers]
  <2>1. P(f) \subseteq Threads
    OBVIOUS
  <2> HIDE DEF P
  <2>2. IsFiniteSet(P(f))
    BY <2>1, FS_Subset
  <2> QED  BY <2>2, FS_CardinalityType
<1>2. SUFFICES ASSUME T # {} PROVE FALSE
  <2> SUFFICES ASSUME NEW f \in [Threads -> Answers], \A t \in Threads : f[t] \in B[t],
                      [set |-> S, ans |-> f] \notin Extended(lin)
               PROVE  FALSE
    BY DEF Feasible
  <2>1. Good(f)
    BY DEF Observed
  <2>2. Fails(f)
    BY <2>1
  <2> HIDE DEF Fails, P
  <2>3. Cardinality(P(f)) \in T
    BY <1>1, <2>2
  <2> QED  BY <1>2, <2>3
<1>3. \E n \in T : \A z \in T : <<z, n>> \notin OpToRel(<, Nat)
  <2>1. T \subseteq Nat
    OBVIOUS
  <2> HIDE DEF T
  <2> QED  BY <1>2, <2>1, WFMin, NatLessThanWellFounded
<1>4. PICK n \in T : \A z \in T : <<z, n>> \notin OpToRel(<, Nat)
  BY <1>3
<1>5. n \in Nat /\ \A z \in T : ~(z < n)
  BY <1>4 DEF OpToRel
<1>6. PICK f \in [Threads -> Answers] : Fails(f) /\ Cardinality(P(f)) = n
  OBVIOUS
<1>7. PICK t \in Threads : f[t] \notin A[t]
  BY <1>6 DEF Feasible
<1>8. "pending" \in A[t] /\ Made(t, S) = S /\ f[t] = Answer(t, S)
  BY <1>6, <1>7
<1> DEFINE g == [f EXCEPT ![t] = "pending"]
           c == [set |-> S, ans |-> g]
<1>9. g \in [Threads -> Answers] /\ g[t] = "pending" /\ \A u \in Threads \ {t} : g[u] = f[u]
  BY DEF Answers
<1>10. P(g) = P(f) \ {t} /\ t \in P(f)
  BY <1>7, <1>8, <1>9
<1>11. Good(g)
  BY <1>6, <1>8, <1>9
<1> HIDE DEF P, Good
<1>12. Cardinality(P(g)) = n - 1 /\ n - 1 < n /\ Cardinality(P(g)) \in Nat
  <2>1. IsFiniteSet(P(f)) /\ Cardinality(P(g)) \in Nat
    BY <1>1, <1>9
  <2>2. Cardinality(P(f) \ {t}) = Cardinality(P(f)) - 1
    BY <1>10, <2>1, FS_RemoveElement
  <2>3. Cardinality(P(g)) = n - 1
    BY <1>6, <1>10, <2>2
  <2> QED  BY <1>5, <2>1, <2>3
<1>13. c \in Extended(lin)
  <2>1. Cardinality(P(g)) \notin T
    BY <1>5, <1>12
  <2> QED  BY <1>9, <1>11, <1>12, <2>1
<1>14. Applied(c, t) \in Extended(lin)
  <2>1. Closed(Extended(lin))
    BY LinHasFacts DEF LinFacts
  <2> QED  BY <1>9, <1>13, <2>1 DEF Closed
<1>15. Applied(c, t) = [set |-> Made(t, S), ans |-> [g EXCEPT ![t] = Answer(t, S)]]
  BY DEF Applied, Made, Answer
<1>16. [g EXCEPT ![t] = Answer(t, S)] = f
  BY <1>8
<1> QED  BY <1>6, <1>8, <1>14, <1>15, <1>16

Observing ==
    \A S \in SUBSET Nat : \A A, B :
       ReqTyped /\ lin \subseteq Configs /\ Feasible(S, A) /\ Observed(S, A, B) => Feasible(S, B)

LEMMA ObservingHolds == ASSUME IsFiniteSet(Threads) PROVE Observing /\ Observing'
<1>1. Observing
  BY ObserveAll DEF Observing
<1> QED  BY <1>1, PTL

-----------------------------------------------------------------------------
(* How the list changes, and what its nodes keep.                           *)

LEMMA AnyNodesAre ==
    ASSUME MemTyped, NEW n \in DOMAIN mem
    PROVE  /\ n \in Nat /\ mem[n] \in AnyNode
           /\ Key(n) \in Nat /\ Succ(n) \in Nat /\ mem[n].next \in Nat \X {0, 1}
           /\ Live(n) => mem[n].next = <<Succ(n), 0>>
           /\ ~Live(n) => mem[n].next = <<Succ(n), 1>>
<1>1. mem[n] \in AnyNode /\ n \in Nat
  BY DEF MemTyped
<1>2. Key(n) \in Nat /\ mem[n].next \in Nat \X {0, 1}
  BY <1>1 DEF AnyNode, Key
<1>3. /\ Succ(n) = mem[n].next[1] /\ (Live(n) <=> mem[n].next[2] = 0)
      /\ mem[n].next = <<mem[n].next[1], mem[n].next[2]>>
      /\ mem[n].next[1] \in Nat /\ mem[n].next[2] \in {0, 1}
  BY <1>2 DEF Succ, Live, Marked
<1> QED  BY <1>1, <1>2, <1>3

\* A node that an operation may meet leads to another, with a greater key.
LEMMA MetAre ==
    ASSUME ListAssumption, MemTyped, NEW L, Chain(L), NEW q, NEW M, NEW no,
           Met(q, L, M, no), NEW x \in M
    PROVE  /\ x \in DOMAIN mem /\ x \in Nat
           /\ Key(x) \in Nat /\ Key(x) <= KEY_MAX /\ KEY_MAX \in Nat
           /\ Live(x) => x \in L
           /\ ~Live(x) => Key(x) # KEY_MAX
           /\ Key(x) # KEY_MAX => /\ Key(x) < KEY_MAX
                                  /\ Succ(x) \in M /\ Key(x) < Key(Succ(x))
                                  /\ Succ(x) \in DOMAIN mem /\ Key(Succ(x)) \in Nat
<1>1. x \in DOMAIN mem /\ M \subseteq DOMAIN mem /\ L \subseteq M
  BY DEF Met
<1>2. KEY_MAX \in Nat
  BY KeysAre
<1>3. \A n \in M : n \in Nat /\ Key(n) \in Nat
  BY <1>1, AnyNodesAre
<1>4. CASE x \in L
  BY <1>1, <1>2, <1>3, <1>4 DEF Chain
<1>5. CASE x \notin L
  BY <1>1, <1>2, <1>3, <1>5 DEF Met
<1> QED  BY <1>4, <1>5

\* What no one changes.
Kept(M) ==
    \A n \in M : n \in DOMAIN mem' /\ Key(n)' = Key(n) /\ mem'[n].next = mem[n].next

\* Marks and the links behind them are never changed.
Frozen(M) ==
    \A n \in M :
       n \in DOMAIN mem' /\ Key(n)' = Key(n) /\ (~Live(n) => mem'[n].next = mem[n].next)

LEMMA KeptIs ==
    ASSUME NEW M, Kept(M), NEW n \in M
    PROVE  /\ n \in DOMAIN mem' /\ Key(n)' = Key(n)
           /\ Succ(n)' = Succ(n) /\ (Live(n)' <=> Live(n))
           /\ Succ(n) \in M => Key(Succ(n))' = Key(Succ(n))
<1>1. n \in DOMAIN mem' /\ Key(n)' = Key(n) /\ mem'[n].next = mem[n].next
  BY DEF Kept
<1>2. Succ(n)' = Succ(n) /\ (Live(n)' <=> Live(n))
  BY <1>1 DEF Succ, Live, Marked
<1>3. ASSUME Succ(n) \in M PROVE Key(Succ(n))' = Key(Succ(n))
  <2> PICK s \in M : s = Succ(n)
    BY <1>3
  <2>1. Key(s)' = Key(s)
    BY DEF Kept
  <2> QED  BY <1>2, <2>1 DEF Key
<1> QED  BY <1>1, <1>2, <1>3

LEMMA FrozenIs ==
    ASSUME NEW M, Frozen(M), NEW n \in M, ~Live(n)
    PROVE  /\ n \in DOMAIN mem' /\ Key(n)' = Key(n)
           /\ Succ(n)' = Succ(n) /\ ~Live(n)'
           /\ Succ(n) \in M => Key(Succ(n))' = Key(Succ(n))
<1>1. n \in DOMAIN mem' /\ Key(n)' = Key(n) /\ mem'[n].next = mem[n].next
  BY DEF Frozen
<1>2. Succ(n)' = Succ(n) /\ ~Live(n)'
  BY <1>1 DEF Succ, Live, Marked
<1>3. ASSUME Succ(n) \in M PROVE Key(Succ(n))' = Key(Succ(n))
  <2> PICK s \in M : s = Succ(n)
    BY <1>3
  <2>1. Key(s)' = Key(s)
    BY DEF Frozen
  <2> QED  BY <1>2, <2>1 DEF Key
<1> QED  BY <1>1, <1>2, <1>3

LEMMA ListConstants == UNCHANGED <<head, KEY_MAX, KEY_MIN>>
BY DEF head, KEY_MAX, KEY_MIN

LEMMA ChainKept ==
    ASSUME ListAssumption, MemTyped, NEW L, Chain(L), Kept(L)
    PROVE  Chain(L)' /\ Holds(L)' = Holds(L)
<1>1. \A n \in L : /\ n \in DOMAIN mem' /\ Key(n)' = Key(n)
                   /\ Succ(n)' = Succ(n) /\ (Live(n)' <=> Live(n))
                   /\ Succ(n) \in L => Key(Succ(n))' = Key(Succ(n))
  BY KeptIs
<1>2. (head \in L /\ L \subseteq DOMAIN mem /\ Key(head) = KEY_MIN)'
  <2>1. head \in L /\ Key(head) = KEY_MIN /\ head' = head /\ KEY_MIN' = KEY_MIN
    BY ListConstants DEF Chain
  <2> PICK h \in L : h = head
    BY <2>1
  <2>2. Key(h)' = Key(h)
    BY <1>1
  <2> QED  BY <1>1, <2>1, <2>2 DEF Key
<1>3. (\A a \in L : Key(a) <= KEY_MAX /\ (Key(a) \in {KEY_MIN, KEY_MAX} => Live(a)))'
  BY <1>1, ListConstants DEF Chain
<1>4. ASSUME NEW a \in L, Key(a)' # KEY_MAX'
      PROVE  /\ Succ(a)' \in L /\ Key(a)' < Key(Succ(a))'
             /\ \A n \in L : Key(n)' <= Key(a)' \/ Key(Succ(a))' <= Key(n)'
  <2>1. Key(a) # KEY_MAX
    BY <1>1, <1>4, ListConstants
  <2>2. /\ Succ(a) \in L /\ Key(a) < Key(Succ(a))
        /\ \A n \in L : Key(n) <= Key(a) \/ Key(Succ(a)) <= Key(n)
    BY <2>1 DEF Chain
  <2> QED  BY <1>1, <2>2
<1>5. \A a, b \in L : Key(a)' = Key(b)' => a = b
  BY <1>1 DEF Chain
<1>6. Chain(L)'
  BY <1>2, <1>3, <1>4, <1>5 DEF Chain
<1>7. Holds(L)' = Holds(L)
  BY <1>1 DEF Holds
<1> QED  BY <1>6, <1>7

LEMMA MetKept ==
    ASSUME NEW q, NEW L, NEW M, NEW no, Met(q, L, M, no), Kept(M)
    PROVE  Met(q, L, M, no)'
<1>1. \A n \in M : /\ n \in DOMAIN mem' /\ Key(n)' = Key(n)
                   /\ Succ(n)' = Succ(n) /\ (Live(n)' <=> Live(n))
                   /\ Succ(n) \in M => Key(Succ(n))' = Key(Succ(n))
  BY KeptIs
<1>2. L \subseteq M /\ M \subseteq DOMAIN mem'
  BY <1>1 DEF Met
<1>3. ASSUME NEW x \in M \ L
      PROVE  /\ ~Live(x)' /\ Key(x)' < KEY_MAX'
             /\ Succ(x)' \in M /\ Key(x)' < Key(Succ(x))'
             /\ q.op # "insert" /\ Key(x)' < q.key /\ q.key < Key(Succ(x))' => no
  <2>1. /\ ~Live(x) /\ Key(x) < KEY_MAX
        /\ Succ(x) \in M /\ Key(x) < Key(Succ(x))
        /\ q.op # "insert" /\ Key(x) < q.key /\ q.key < Key(Succ(x)) => no
    BY DEF Met
  <2> QED  BY <1>1, <2>1, ListConstants
<1>4. \A x \in M : q.op # "insert" /\ Key(x)' = q.key /\ ~Live(x)' => no
  BY <1>1 DEF Met
<1> QED  BY <1>2, <1>3, <1>4 DEF Met

LEMMA MetWeaker ==
    ASSUME NEW q, NEW L, NEW M, NEW no, NEW may, Met(q, L, M, no), no => may
    PROVE  Met(q, L, M, may)
BY DEF Met

\* The link of w becomes l, and nothing else changes.
Sets(w, l) ==
    /\ w \in DOMAIN mem /\ MemTyped' /\ DOMAIN mem' = DOMAIN mem
    /\ \A n \in DOMAIN mem :
          Key(n)' = Key(n) /\ mem'[n].next = IF n = w THEN l ELSE mem[n].next

LEMMA SetsAre ==
    ASSUME MemTyped, NEW w \in DOMAIN mem, NEW l \in Nat \X {0, 1},
           mem' = [mem EXCEPT ![w].next = l]
    PROVE  Sets(w, l)
<1>1. PICK m \in Nat : mem \in [0 .. m -> AnyNode]
  BY DEF MemTyped
<1>2. [mem[w] EXCEPT !.next = l] \in AnyNode
  BY AnyNodesAre DEF AnyNode
<1>3. mem' = [mem EXCEPT ![w] = [mem[w] EXCEPT !.next = l]]
  OBVIOUS
<1>4. mem' \in [0 .. m -> AnyNode]
  BY <1>1, <1>2, <1>3
<1>5. MemTyped'
  BY <1>4 DEF MemTyped
<1>6. \A n \in DOMAIN mem : mem'[n] = IF n = w THEN [mem[w] EXCEPT !.next = l] ELSE mem[n]
  BY <1>1, <1>3
<1>7. [mem[w] EXCEPT !.next = l].key = mem[w].key /\ [mem[w] EXCEPT !.next = l].next = l
  BY AnyNodesAre DEF AnyNode
<1>8. DOMAIN mem' = DOMAIN mem
  BY <1>1, <1>4
<1> QED  BY <1>5, <1>6, <1>7, <1>8 DEF Sets, Key

LEMMA AfterSets ==
    ASSUME NEW w, NEW l, Sets(w, l), NEW n \in DOMAIN mem
    PROVE  /\ n \in DOMAIN mem' /\ Key(n)' = Key(n)
           /\ n # w => /\ Succ(n)' = Succ(n) /\ (Live(n)' <=> Live(n))
                       /\ Succ(n) \in DOMAIN mem => Key(Succ(n))' = Key(Succ(n))
           /\ n = w => /\ Succ(n)' = l[1] /\ (Live(n)' <=> l[2] # 1)
                       /\ l[1] \in DOMAIN mem => Key(Succ(n))' = Key(l[1])
<1>1. \A s \in DOMAIN mem : mem'[s].key = mem[s].key
  BY DEF Sets, Key
<1>2. n \in DOMAIN mem' /\ mem'[n].next = IF n = w THEN l ELSE mem[n].next
  BY DEF Sets
<1> QED  BY <1>1, <1>2 DEF Key, Succ, Live, Marked

\* The head and the key of the list stay what they are.
LEMMA HeadStays ==
    ASSUME NEW L, Chain(L), NEW w, NEW l, Sets(w, l)
    PROVE  (head \in L /\ L \subseteq DOMAIN mem /\ Key(head) = KEY_MIN)'
<1>1. head \in L /\ Key(head) = KEY_MIN /\ head' = head /\ KEY_MIN' = KEY_MIN
      /\ L \subseteq DOMAIN mem
  BY ListConstants DEF Chain
<1>2. Key(head)' = Key(head)
  BY <1>1, AfterSets DEF Sets, Key
<1> QED  BY <1>1, <1>2 DEF Sets

LEMMA ChainMark ==
    ASSUME ListAssumption, MemTyped, NEW L, Chain(L), NEW r \in L, Live(r),
           Key(r) \in Keys, Sets(r, WithMark(mem[r].next))
    PROVE  Chain(L)' /\ Holds(L)' = Holds(L) \ {Key(r)}
<1>1. L \subseteq DOMAIN mem /\ Key(r) # KEY_MIN /\ Key(r) # KEY_MAX
  BY KeysAre DEF Chain
<1>2. WithMark(mem[r].next)[1] = Succ(r) /\ WithMark(mem[r].next)[2] = 1
  BY <1>1, AnyNodesAre DEF WithMark
<1>3. \A n \in L : /\ n \in DOMAIN mem' /\ Key(n)' = Key(n) /\ Succ(n)' = Succ(n)
                   /\ Live(n)' <=> Live(n) /\ n # r
                   /\ Succ(n) \in DOMAIN mem => Key(Succ(n))' = Key(Succ(n))
  BY <1>1, <1>2, AfterSets
<1>4. (head \in L /\ L \subseteq DOMAIN mem /\ Key(head) = KEY_MIN)'
  BY HeadStays
<1>5. (\A a \in L : Key(a) <= KEY_MAX /\ (Key(a) \in {KEY_MIN, KEY_MAX} => Live(a)))'
  BY <1>1, <1>3, ListConstants DEF Chain
<1>6. ASSUME NEW a \in L, Key(a)' # KEY_MAX'
      PROVE  /\ Succ(a)' \in L /\ Key(a)' < Key(Succ(a))'
             /\ \A n \in L : Key(n)' <= Key(a)' \/ Key(Succ(a))' <= Key(n)'
  <2>1. Key(a) # KEY_MAX
    BY <1>3, <1>6, ListConstants
  <2>2. /\ Succ(a) \in L /\ Key(a) < Key(Succ(a))
        /\ \A n \in L : Key(n) <= Key(a) \/ Key(Succ(a)) <= Key(n)
    BY <2>1 DEF Chain
  <2> QED  BY <1>1, <1>3, <2>2
<1>7. \A a, b \in L : Key(a)' = Key(b)' => a = b
  BY <1>3 DEF Chain
<1>8. Chain(L)'
  BY <1>4, <1>5, <1>6, <1>7 DEF Chain
<1>9. Holds(L)' = Holds(L) \ {Key(r)}
  <2>1. \A n \in L : Key(n) = Key(r) => n = r
    BY DEF Chain
  <2>2. \A k : k \in Holds(L)' <=> k \in Keys /\ \E n \in L : Live(n) /\ n # r /\ Key(n) = k
    BY <1>3 DEF Holds
  <2>3. \A k : k \in Holds(L) \ {Key(r)}
                  <=> k \in Keys /\ k # Key(r) /\ \E n \in L : Live(n) /\ Key(n) = k
    BY DEF Holds
  <2>4. \A k : k \in Holds(L)' <=> k \in Holds(L) \ {Key(r)}
    BY <2>1, <2>2, <2>3
  <2> QED  BY <2>4
<1> QED  BY <1>8, <1>9

LEMMA FrozenBySets ==
    ASSUME NEW w, NEW l, Sets(w, l), Live(w), NEW M, M \subseteq DOMAIN mem
    PROVE  Frozen(M)
BY DEF Sets, Frozen

LEMMA MetMark ==
    ASSUME MemTyped, NEW q, NEW L, NEW M, NEW no, Met(q, L, M, no),
           NEW r \in L, Live(r), NEW l, Sets(r, l),
           NEW may, no => may, q.op # "insert" /\ q.key = Key(r) => may
    PROVE  Met(q, L, M, may)'
<1>1. L \subseteq M /\ M \subseteq DOMAIN mem /\ M \subseteq DOMAIN mem'
  BY DEF Met, Sets
<1>2. ASSUME NEW x \in M \ L
      PROVE  /\ ~Live(x)' /\ Key(x)' < KEY_MAX'
             /\ Succ(x)' \in M /\ Key(x)' < Key(Succ(x))'
             /\ q.op # "insert" /\ Key(x)' < q.key /\ q.key < Key(Succ(x))' => may
  <2>1. /\ ~Live(x) /\ Key(x) < KEY_MAX
        /\ Succ(x) \in M /\ Key(x) < Key(Succ(x))
        /\ q.op # "insert" /\ Key(x) < q.key /\ q.key < Key(Succ(x)) => no
    BY DEF Met
  <2> QED  BY <1>1, <2>1, AfterSets, ListConstants
<1>3. ASSUME NEW x \in M, q.op # "insert", Key(x)' = q.key, ~Live(x)' PROVE may
  <2>1. CASE x = r
    BY <1>1, <1>3, <2>1, AfterSets
  <2>2. CASE x # r
    <3>1. Key(x) = q.key /\ ~Live(x)
      BY <1>1, <1>3, <2>2, AfterSets
    <3> QED  BY <1>3, <3>1 DEF Met
  <2> QED  BY <2>1, <2>2
<1> QED  BY <1>1, <1>2, <1>3 DEF Met

\* The link of w skips r.
LEMMA ChainUnlink ==
    ASSUME ListAssumption, MemTyped, NEW L, Chain(L), NEW w \in L, NEW r \in L,
           Key(w) < KEY_MAX, mem[w].next = <<r, 0>>, ~Live(r), Sets(w, <<Succ(r), 0>>)
    PROVE  /\ Chain(L \ {r})' /\ Holds(L \ {r})' = Holds(L)
           /\ Succ(r) \in L /\ Key(r) < KEY_MAX /\ Key(r) < Key(Succ(r)) /\ r # w
           /\ \A n \in L : Key(n) <= Key(r) \/ Key(Succ(r)) <= Key(n)
<1>1. /\ L \subseteq DOMAIN mem /\ Live(w) /\ Succ(w) = r
      /\ Key(r) # KEY_MAX /\ Key(r) # KEY_MIN /\ r # w
  BY DEF Chain, Live, Marked, Succ
<1>2. /\ \A n \in L : Key(n) \in Nat /\ Key(n) <= KEY_MAX
      /\ KEY_MAX \in Nat
  BY <1>1, AnyNodesAre, KeysAre DEF Chain
<1>3. /\ Succ(r) \in L /\ Key(r) < Key(Succ(r))
      /\ \A n \in L : Key(n) <= Key(r) \/ Key(Succ(r)) <= Key(n)
  BY <1>1 DEF Chain
<1>4. Key(w) < Key(r) /\ \A n \in L : Key(n) <= Key(w) \/ Key(r) <= Key(n)
  <2>1. Key(w) # KEY_MAX
    BY <1>2
  <2> QED  BY <1>1, <2>1 DEF Chain
<1>5. \A a, b \in L : Key(a) = Key(b) => a = b
  BY DEF Chain
<1>6. \A n \in L : /\ n \in DOMAIN mem' /\ Key(n)' = Key(n) /\ (Live(n)' <=> Live(n))
                   /\ Succ(n)' = IF n = w THEN Succ(r) ELSE Succ(n)
                   /\ Succ(n) \in L => Key(Succ(n))' = IF n = w THEN Key(Succ(r)) ELSE Key(Succ(n))
  BY <1>1, <1>3, AfterSets
<1>7. ASSUME NEW a \in L \ {r}, Key(a) # KEY_MAX
      PROVE  /\ Succ(a)' \in L \ {r} /\ Key(a)' < Key(Succ(a))'
             /\ \A n \in L \ {r} : Key(n)' <= Key(a)' \/ Key(Succ(a))' <= Key(n)'
  <2>1. CASE a = w
    <3>1. Succ(a)' = Succ(r) /\ Key(Succ(a))' = Key(Succ(r)) /\ Key(a)' = Key(w)
      BY <1>1, <1>6, <2>1
    <3>2. Succ(r) # r /\ Key(w) < Key(Succ(r))
      BY <1>2, <1>3, <1>4
    <3>3. ASSUME NEW n \in L \ {r} PROVE Key(n) <= Key(w) \/ Key(Succ(r)) <= Key(n)
      <4>1. Key(n) # Key(r) /\ Key(n) \in Nat /\ Key(r) \in Nat
        BY <1>2, <1>5
      <4>2. (Key(n) <= Key(w) \/ Key(r) <= Key(n)) /\ (Key(n) <= Key(r) \/ Key(Succ(r)) <= Key(n))
        BY <1>3, <1>4
      <4> QED  BY <4>1, <4>2
    <3> QED  BY <1>3, <1>6, <3>1, <3>2, <3>3
  <2>2. CASE a # w
    <3>1. /\ Succ(a) \in L /\ Key(a) < Key(Succ(a))
          /\ \A n \in L : Key(n) <= Key(a) \/ Key(Succ(a)) <= Key(n)
      BY <1>7 DEF Chain
    <3>2. Succ(a) # r
      <4> SUFFICES ASSUME Succ(a) = r PROVE FALSE
        OBVIOUS
      <4>1. Key(w) <= Key(a) \/ Key(r) <= Key(w)
        BY <3>1
      <4>2. Key(a) <= Key(w) \/ Key(r) <= Key(a)
        BY <1>4
      <4>3. Key(a) \in Nat /\ Key(w) \in Nat /\ Key(r) \in Nat /\ Key(a) < Key(r)
        BY <1>2, <3>1
      <4>4. Key(a) = Key(w)
        BY <1>4, <4>1, <4>2, <4>3
      <4> QED  BY <1>5, <2>2, <4>4
    <3> QED  BY <1>6, <2>2, <3>1, <3>2
  <2> QED  BY <2>1, <2>2
<1>8. (head \in L \ {r} /\ L \ {r} \subseteq DOMAIN mem /\ Key(head) = KEY_MIN)'
  <2>1. head \in L /\ Key(head) = KEY_MIN /\ head' = head
    BY ListConstants DEF Chain
  <2>2. (head \in L /\ L \subseteq DOMAIN mem /\ Key(head) = KEY_MIN)'
    BY HeadStays
  <2>3. head # r
    BY <1>1, <2>1
  <2> QED  BY <2>1, <2>2, <2>3
<1>9. \A a \in L \ {r} : /\ Key(a)' <= KEY_MAX'
                         /\ Key(a)' \in {KEY_MIN, KEY_MAX}' => Live(a)'
  BY <1>6, ListConstants DEF Chain
<1>10. \A a, b \in L \ {r} : Key(a)' = Key(b)' => a = b
  BY <1>5, <1>6
<1>11. \A a \in L \ {r} : Key(a)' # KEY_MAX' => Key(a) # KEY_MAX
  BY <1>6, ListConstants
<1>12. Chain(L \ {r})'
  BY <1>7, <1>8, <1>9, <1>10, <1>11 DEF Chain
<1>13. Holds(L \ {r})' = Holds(L)
  <2>1. \A k : k \in Holds(L \ {r})' <=> k \in Holds(L)
    BY <1>6 DEF Holds
  <2> QED  BY <2>1
<1> QED  BY <1>1, <1>2, <1>3, <1>12, <1>13

LEMMA MetUnlink ==
    ASSUME ListAssumption, MemTyped, NEW q, NEW L, NEW M, NEW no, Met(q, L, M, no), Chain(L),
           NEW w \in L, NEW r \in L,
           Key(w) < KEY_MAX, mem[w].next = <<r, 0>>, ~Live(r), Sets(w, <<Succ(r), 0>>),
           NEW may, no => may,
           q.op # "insert" /\ Key(r) < q.key /\ q.key < Key(Succ(r)) => may
    PROVE  Met(q, L \ {r}, M, may)'
<1>1. L \subseteq M /\ M \subseteq DOMAIN mem /\ M \subseteq DOMAIN mem'
  BY DEF Met, Sets
<1>2. Succ(r) \in L /\ Key(r) < KEY_MAX /\ Key(r) < Key(Succ(r)) /\ r # w
  BY ChainUnlink
<1>3. Live(w)
  BY DEF Live, Marked
<1>4. \A n \in M : n # w => /\ Key(n)' = Key(n) /\ Succ(n)' = Succ(n) /\ (Live(n)' <=> Live(n))
                            /\ Succ(n) \in M => Key(Succ(n))' = Key(Succ(n))
  BY <1>1, AfterSets
<1>5. Key(w)' = Key(w) /\ Live(w)'
  BY <1>1, AfterSets
<1>6. ASSUME NEW x \in M \ (L \ {r})
      PROVE  /\ ~Live(x)' /\ Key(x)' < KEY_MAX'
             /\ Succ(x)' \in M /\ Key(x)' < Key(Succ(x))'
             /\ q.op # "insert" /\ Key(x)' < q.key /\ q.key < Key(Succ(x))' => may
  <2>1. CASE x = r
    BY <1>1, <1>2, <1>4, <2>1, ListConstants
  <2>2. CASE x # r
    <3>1. x \in M \ L /\ x # w
      BY <2>2
    <3>2. /\ ~Live(x) /\ Key(x) < KEY_MAX
          /\ Succ(x) \in M /\ Key(x) < Key(Succ(x))
          /\ q.op # "insert" /\ Key(x) < q.key /\ q.key < Key(Succ(x)) => no
      BY <3>1 DEF Met
    <3> QED  BY <1>4, <3>1, <3>2, ListConstants
  <2> QED  BY <2>1, <2>2
<1>7. ASSUME NEW x \in M, q.op # "insert", Key(x)' = q.key, ~Live(x)' PROVE may
  <2>1. x # w
    BY <1>5, <1>7
  <2>2. Key(x) = q.key /\ ~Live(x)
    BY <1>4, <1>7, <2>1
  <2> QED  BY <1>7, <2>2 DEF Met
<1> QED  BY <1>1, <1>6, <1>7 DEF Met

\* A node y, with the key k, comes between w and r.
Links(w, y, k, r) ==
    /\ MemTyped' /\ DOMAIN mem' = (DOMAIN mem) \cup {y}
    /\ \A n \in (DOMAIN mem) \ {y} :
          Key(n)' = Key(n) /\ mem'[n].next = IF n = w THEN <<y, 0>> ELSE mem[n].next
    /\ Key(y)' = k /\ mem'[y].next = <<r, 0>>

LEMMA AfterLinks ==
    ASSUME NEW w, NEW y, NEW k, NEW r, Links(w, y, k, r), NEW n \in (DOMAIN mem) \ {y}
    PROVE  /\ n \in DOMAIN mem' /\ Key(n)' = Key(n)
           /\ n # w => /\ Succ(n)' = Succ(n) /\ (Live(n)' <=> Live(n))
                       /\ Succ(n) \in (DOMAIN mem) \ {y} => Key(Succ(n))' = Key(Succ(n))
           /\ n = w => Succ(n)' = y /\ Live(n)' /\ Key(Succ(n))' = k
           /\ y \in DOMAIN mem' /\ Key(y)' = k /\ Succ(y)' = r /\ Live(y)'
           /\ r \in (DOMAIN mem) \ {y} => Key(Succ(y))' = Key(r)
<1>1. \A s \in (DOMAIN mem) \ {y} : mem'[s].key = mem[s].key
  BY DEF Links, Key
<1>2. n \in DOMAIN mem' /\ mem'[n].next = IF n = w THEN <<y, 0>> ELSE mem[n].next
  BY DEF Links
<1>3. y \in DOMAIN mem' /\ mem'[y].key = k /\ mem'[y].next = <<r, 0>>
  BY DEF Links, Key
<1> QED  BY <1>1, <1>2, <1>3 DEF Key, Succ, Live, Marked

LEMMA ChainLink ==
    ASSUME ListAssumption, MemTyped, NEW L, Chain(L), NEW w \in L, NEW y, y \notin L,
           NEW k \in Keys, NEW r,
           Key(w) < k, k < Key(r), mem[w].next = <<r, 0>>, Links(w, y, k, r)
    PROVE  /\ Chain(L \cup {y})' /\ Holds(L \cup {y})' = Holds(L) \cup {k}
           /\ k \notin Holds(L)
<1>1. /\ L \subseteq (DOMAIN mem) \ {y} /\ Live(w) /\ Succ(w) = r
  BY DEF Chain, Live, Marked, Succ
<1>2. /\ \A n \in L : Key(n) \in Nat /\ Key(n) <= KEY_MAX
      /\ KEY_MAX \in Nat /\ k \in Nat /\ 0 < k /\ k < KEY_MAX /\ KEY_MIN = 0
  BY <1>1, AnyNodesAre, KeysAre DEF Chain
<1>3. /\ r \in L /\ Key(w) < Key(r)
      /\ \A n \in L : Key(n) <= Key(w) \/ Key(r) <= Key(n)
  <2>1. Key(w) # KEY_MAX
    BY <1>2
  <2> QED  BY <1>1, <2>1 DEF Chain
<1>4. /\ \A n \in L : Key(n) # k
      /\ \A n \in L : Key(n) < k => Key(n) <= Key(w)
      /\ \A n \in L : k < Key(n) => Key(r) <= Key(n)
  BY <1>2, <1>3
<1>5. \A n \in L : n # w => /\ Key(n)' = Key(n) /\ Succ(n)' = Succ(n)
                            /\ Live(n)' <=> Live(n)
                            /\ Succ(n) \in L => Key(Succ(n))' = Key(Succ(n))
  BY <1>1, AfterLinks
<1>6. Key(w)' = Key(w) /\ Succ(w)' = y /\ Live(w)' /\ Key(Succ(w))' = k
  BY <1>1, AfterLinks
<1>7. Key(y)' = k /\ Succ(y)' = r /\ Live(y)' /\ Key(Succ(y))' = Key(r)
  <2>1. w \in (DOMAIN mem) \ {y} /\ r \in (DOMAIN mem) \ {y}
    BY <1>1, <1>3
  <2> QED  BY <2>1, AfterLinks
<1>8. \A n \in L : Key(n)' = Key(n)
  BY <1>5, <1>6
<1>9. \A a, b \in L : Key(a) = Key(b) => a = b
  BY DEF Chain
<1> DEFINE M == L \cup {y}
<1>10. (head \in M /\ M \subseteq DOMAIN mem /\ Key(head) = KEY_MIN)'
  <2>1. head \in L /\ Key(head) = KEY_MIN /\ head' = head /\ KEY_MIN' = KEY_MIN
    BY ListConstants DEF Chain
  <2> PICK h \in L : h = head
    BY <2>1
  <2>2. Key(h)' = Key(h)
    BY <1>8
  <2>3. Key(head)' = KEY_MIN'
    BY <2>1, <2>2 DEF Key
  <2> QED  BY <1>1, <2>1, <2>3 DEF Links
<1>11. \A a \in M : /\ Key(a)' <= KEY_MAX'
                    /\ Key(a)' \in {KEY_MIN, KEY_MAX}' => Live(a)'
  BY <1>2, <1>5, <1>6, <1>7, ListConstants DEF Chain
<1>12. ASSUME NEW a \in L, a # w, Key(a) # KEY_MAX
       PROVE  /\ Succ(a)' \in M /\ Key(a)' < Key(Succ(a))'
              /\ \A n \in M : Key(n)' <= Key(a)' \/ Key(Succ(a))' <= Key(n)'
  <2>1. /\ Succ(a) \in L /\ Key(a) < Key(Succ(a))
        /\ \A n \in L : Key(n) <= Key(a) \/ Key(Succ(a)) <= Key(n)
    BY <1>12 DEF Chain
  <2>2. Key(a)' = Key(a) /\ Succ(a)' = Succ(a) /\ Key(Succ(a))' = Key(Succ(a))
    BY <1>5, <1>12, <2>1
  <2>3. k <= Key(a) \/ Key(Succ(a)) <= k
    <3>1. Key(a) # Key(w)
      BY <1>9, <1>12
    <3>2. (Key(a) <= Key(w) \/ Key(r) <= Key(a)) /\ (Key(w) <= Key(a) \/ Key(Succ(a)) <= Key(w))
      BY <1>3, <2>1
    <3>3. Key(a) \in Nat /\ Key(w) \in Nat /\ Key(r) \in Nat /\ Key(Succ(a)) \in Nat
      BY <1>2, <1>3, <2>1
    <3> QED  BY <1>2, <3>1, <3>2, <3>3
  <2>4. \A n \in L : Key(n)' <= Key(a)' \/ Key(Succ(a))' <= Key(n)'
    BY <1>8, <2>1, <2>2
  <2> QED  BY <1>7, <2>1, <2>2, <2>3, <2>4
<1>13. /\ Succ(w)' \in M /\ Key(w)' < Key(Succ(w))'
       /\ \A n \in M : Key(n)' <= Key(w)' \/ Key(Succ(w))' <= Key(n)'
  <2>1. \A n \in L : Key(n) <= Key(w) \/ k <= Key(n)
    BY <1>2, <1>3
  <2> QED  BY <1>2, <1>6, <1>7, <1>8, <2>1
<1>14. /\ Succ(y)' \in M /\ Key(y)' < Key(Succ(y))'
       /\ \A n \in M : Key(n)' <= Key(y)' \/ Key(Succ(y))' <= Key(n)'
  <2>1. \A n \in L : Key(n) <= k \/ Key(r) <= Key(n)
    BY <1>2, <1>3
  <2> QED  BY <1>2, <1>3, <1>7, <1>8, <2>1
<1>15. \A a, b \in M : Key(a)' = Key(b)' => a = b
  BY <1>4, <1>7, <1>8, <1>9
<1>16. \A a \in L : Key(a)' # KEY_MAX' => Key(a) # KEY_MAX
  BY <1>8, ListConstants
<1>17. Chain(M)'
  <2>1. ASSUME NEW a \in M, Key(a)' # KEY_MAX'
        PROVE  /\ Succ(a)' \in M /\ Key(a)' < Key(Succ(a))'
               /\ \A n \in M : Key(n)' <= Key(a)' \/ Key(Succ(a))' <= Key(n)'
    <3>1. CASE a = w
      BY <1>13, <3>1
    <3>2. CASE a = y
      BY <1>14, <3>2
    <3>3. CASE a \in L /\ a # w
      BY <1>12, <1>16, <2>1, <3>3
    <3> QED  BY <3>1, <3>2, <3>3
  <2> HIDE DEF M
  <2> QED  BY <1>10, <1>11, <1>15, <2>1 DEF Chain
<1>18. k \notin Holds(L)
  BY <1>4 DEF Holds
<1>19. Holds(M)' = Holds(L) \cup {k}
  <2>1. \A n \in L : Live(n)' <=> Live(n)
    BY <1>1, <1>5, <1>6
  <2>2. \A j : j \in Holds(M)' <=> j \in Keys /\ \E n \in M : Live(n)' /\ Key(n)' = j
    BY DEF Holds
  <2>3. \A j : j \in Holds(L) \cup {k} <=> j = k \/ (j \in Keys /\ \E n \in L : Live(n) /\ Key(n) = j)
    BY DEF Holds
  <2>4. \A j : j \in Holds(M)' <=> j \in Holds(L) \cup {k}
    BY <1>7, <1>8, <2>1, <2>2, <2>3
  <2> QED  BY <2>4
<1> QED  BY <1>17, <1>18, <1>19

LEMMA MetLink ==
    ASSUME NEW q, NEW L, NEW M, NEW no, Met(q, L, M, no),
           NEW w \in L, NEW y, y \notin M, NEW k, NEW r, Live(w), Links(w, y, k, r)
    PROVE  Met(q, L \cup {y}, M \cup {y}, no)' /\ Frozen(M)
<1>1. L \subseteq M /\ M \subseteq (DOMAIN mem) \ {y} /\ M \cup {y} \subseteq DOMAIN mem'
  BY DEF Met, Links
<1>2. \A n \in M : n # w => /\ Key(n)' = Key(n) /\ Succ(n)' = Succ(n) /\ (Live(n)' <=> Live(n))
                            /\ Succ(n) \in M => Key(Succ(n))' = Key(Succ(n))
  BY <1>1, AfterLinks
<1>3. Key(w)' = Key(w) /\ Live(w)' /\ Live(y)'
  BY <1>1, AfterLinks
<1>4. ASSUME NEW x \in (M \cup {y}) \ (L \cup {y})
      PROVE  /\ ~Live(x)' /\ Key(x)' < KEY_MAX'
             /\ Succ(x)' \in M \cup {y} /\ Key(x)' < Key(Succ(x))'
             /\ q.op # "insert" /\ Key(x)' < q.key /\ q.key < Key(Succ(x))' => no
  <2>1. x \in M \ L /\ x # w
    OBVIOUS
  <2>2. /\ ~Live(x) /\ Key(x) < KEY_MAX
        /\ Succ(x) \in M /\ Key(x) < Key(Succ(x))
        /\ q.op # "insert" /\ Key(x) < q.key /\ q.key < Key(Succ(x)) => no
    BY <2>1 DEF Met
  <2> QED  BY <1>2, <2>1, <2>2, ListConstants
<1>5. ASSUME NEW x \in M \cup {y}, q.op # "insert", Key(x)' = q.key, ~Live(x)' PROVE no
  <2>1. x # w /\ x # y
    BY <1>3, <1>5
  <2>2. Key(x) = q.key /\ ~Live(x)
    BY <1>2, <1>5, <2>1
  <2> QED  BY <1>5, <2>1, <2>2 DEF Met
<1>6. Met(q, L \cup {y}, M \cup {y}, no)'
  BY <1>1, <1>4, <1>5 DEF Met
<1>7. Frozen(M)
  BY <1>1 DEF Frozen, Links
<1> QED  BY <1>6, <1>7

-----------------------------------------------------------------------------
(* A step of t: what it keeps for the others, and how it answers.           *)

LEMMA FineKept ==
    ASSUME NEW s, NEW q, NEW M, NEW no, Fine(s, q, M, no), Frozen(M),
           NEW O, M \subseteq O, NEW may, no => may
    PROVE  Fine(s, q, O, may)'
<1>1. s \in Places /\ s.left \in M /\ s.right \in M
  BY DEF Fine
<1>2. Key(s.left)' = Key(s.left) /\ Key(s.right)' = Key(s.right)
  BY <1>1 DEF Frozen
<1>3. ~Live(s.right) => ~Live(s.right)'
  BY <1>1, FrozenIs
<1> QED  BY <1>1, <1>2, <1>3 DEF Fine

\* The operation q would now answer "no", and change nothing, if the set is S.
Sees(q, S) == IF q.op = "insert" THEN q.key \in S ELSE q.key \notin S

LEMMA SeesNo ==
    ASSUME NEW t \in Threads, NEW S, req[t].op \in Ops
    PROVE  Sees(req[t], S) => Made(t, S) = S /\ Answer(t, S) = "no"
BY DEF Sees, Made, Answer, Ops

LEMMA CoreIs ==
    ASSUME ListAssumption, NEW L, NEW A, NEW N, Core(L, A, N)
    PROVE  /\ IsFiniteSet(Threads) /\ ReqTyped /\ lin \subseteq Configs
           /\ Holds(L) \in SUBSET Nat /\ Feasible(Holds(L), MayStill(N))
BY KeysAre DEF ListAssumption, Core, ReqTyped, ReqOK, Holds

\* The place of t becomes s.
Moves(t, s) == th' = [th EXCEPT ![t] = s]

LEMMA MovesIs ==
    ASSUME th = [t \in Threads |-> th[t]], NEW t \in Threads, NEW s, Moves(t, s)
    PROVE  /\ th' = [u \in Threads |-> th'[u]] /\ th'[t] = s
           /\ \A u \in Threads \ {t} : th'[u] = th[u]
BY DEF Moves

LEMMA PlacesBusy == ASSUME NEW s \in Places PROVE s # Idle
BY DEF Places, Idle

\* Who may answer "no" after a step that leaves S.
MoreNo(N, N2, S) ==
    N \subseteq N2 /\ \A u \in N2 \ N : Busy(u) => Sees(req[u], S)

LEMMA LinObserves ==
    ASSUME ListAssumption, NEW L, NEW A, NEW N, Core(L, A, N), NEW t \in Threads, NEW s,
           Busy(t), s # Idle, Decided(s) <=> Decided(th[t]),
           Moves(t, s), UNCHANGED <<req, lin>>,
           NEW S, S = Holds(L), NEW N2 \in SUBSET Threads, MoreNo(N, N2, S)
    PROVE  (lin \subseteq Configs)' /\ Feasible(S, MayStill(N2))'
<1>1. PICK a, b : /\ a = MayStill(N)
                  /\ b = [u \in Threads |-> StillAnswers(th'[u], u \in N2)]
  OBVIOUS
<1>2. th = [u \in Threads |-> th[u]] /\ \A u \in Threads : req[u].op \in Ops
  BY DEF Core, ReqOK
<1>3. th'[t] = s /\ \A u \in Threads \ {t} : th'[u] = th[u]
  BY <1>2, MovesIs
<1>4. Observed(S, a, b)
  <2> SUFFICES ASSUME NEW u \in Threads
               PROVE  b[u] \subseteq a[u] \cup (IF "pending" \in a[u] /\ Made(u, S) = S
                                                THEN {Answer(u, S)} ELSE {})
    BY DEF Observed
  <2>1. a[u] = StillAnswers(th[u], u \in N) /\ b[u] = StillAnswers(th'[u], u \in N2)
    BY <1>1 DEF MayStill
  <2>2. /\ th'[u] = Idle <=> th[u] = Idle
        /\ th[u] # Idle => (Decided(th'[u]) <=> Decided(th[u]))
    BY <1>3 DEF Busy
  <2>3. CASE th[u] = Idle \/ Decided(th[u]) \/ u \in N \/ u \notin N2
    BY <2>1, <2>2, <2>3 DEF StillAnswers, MoreNo
  <2>4. CASE th[u] # Idle /\ ~Decided(th[u]) /\ u \in N2 \ N
    <3>1. Made(u, S) = S /\ Answer(u, S) = "no"
      BY <1>1, <1>2, <2>4, SeesNo DEF MoreNo, Busy
    <3>2. b[u] = {"pending", "no"} /\ "pending" \in a[u]
      BY <2>1, <2>2, <2>4 DEF StillAnswers
    <3> QED  BY <3>1, <3>2
  <2> QED  BY <2>3, <2>4
<1>5. Feasible(S, b)
  BY <1>1, <1>4, CoreIs, ObservingHolds DEF Observing
<1>6. Feasible(S, b)'
  BY <1>5, CoreIs, OnKeeps
<1>7. (lin \subseteq Configs)'
  BY CoreIs DEF Configs
<1>8. MayStill(N2)' = b
  BY <1>1 DEF MayStill
<1> QED  BY <1>1, <1>6, <1>7, <1>8

\* t answers y, and the others what they may.
Giving(t, N, y, b) ==
    b[t] = {y} /\ \A u \in Threads \ {t} : b[u] = StillAnswers(th[u], u \in N)

OthersSee(t, N, N2, S) ==
    \A u \in Threads \ {t} : Busy(u) /\ u \in N2 \ N => Sees(req[u], S)

LEMMA OthersObserve ==
    ASSUME ListAssumption, ReqTyped, lin \subseteq Configs, NEW N, NEW t \in Threads,
           NEW S \in SUBSET Nat, NEW y, NEW a, Feasible(S, a), Giving(t, N, y, a),
           NEW N2, OthersSee(t, N, N2, S), NEW b, Giving(t, N2, y, b)
    PROVE  Feasible(S, b)
<1>1. Observed(S, a, b)
  <2> SUFFICES ASSUME NEW u \in Threads
               PROVE  b[u] \subseteq a[u] \cup (IF "pending" \in a[u] /\ Made(u, S) = S
                                                THEN {Answer(u, S)} ELSE {})
    BY DEF Observed
  <2>1. CASE u = t
    BY <2>1 DEF Giving
  <2>2. CASE u # t /\ (th[u] = Idle \/ Decided(th[u]) \/ u \in N \/ u \notin N2)
    BY <2>2 DEF Giving, StillAnswers
  <2>3. CASE u # t /\ th[u] # Idle /\ ~Decided(th[u]) /\ u \in N2 \ N
    <3>1. Made(u, S) = S /\ Answer(u, S) = "no"
      BY <2>3, SeesNo DEF Busy, ReqTyped, OthersSee
    <3>2. b[u] \subseteq {"pending", "no"} /\ "pending" \in a[u]
      BY <2>3 DEF Giving, StillAnswers
    <3> QED  BY <3>1, <3>2
  <2> QED  BY <2>1, <2>2, <2>3
<1> QED  BY <1>1, ObservingHolds DEF Observing, ListAssumption

\* The operation of t answers y: it could already, or it takes effect now, which
\* others see.
Ends(t, N, S, y, S2) ==
    \/ S2 = S /\ y \in StillAnswers(th[t], t \in N)
    \/ ~Decided(th[t]) /\ S2 = Made(t, S) /\ y = Answer(t, S)

LEMMA Answered ==
    ASSUME ListAssumption, NEW L, NEW A, NEW N, Core(L, A, N), NEW t \in Threads,
           Busy(t), NEW S, S = Holds(L), NEW y, NEW S2,
           Ends(t, N, S, y, S2), NEW N2, OthersSee(t, N, N2, S2), NEW b, Giving(t, N2, y, b)
    PROVE  Feasible(S2, b)
<1>1. PICK a, c : /\ a = MayStill(N)
                  /\ c = [u \in Threads |-> IF u = t THEN {y} ELSE a[u]]
  OBVIOUS
<1>2. /\ \A u \in Threads : a[u] = StillAnswers(th[u], u \in N)
      /\ c[t] = {y} /\ \A u \in Threads \ {t} : c[u] = StillAnswers(th[u], u \in N)
      /\ Giving(t, N, y, c)
  BY <1>1 DEF MayStill, Giving
<1>3. Feasible(S, a) /\ ReqTyped /\ lin \subseteq Configs /\ S \in SUBSET Nat /\ IsFiniteSet(Threads)
  BY <1>1, CoreIs
<1>4. OthersKeep(t, a, c)
  BY <1>2 DEF OthersKeep
<1>5. Feasible(S2, c) /\ S2 \in SUBSET Nat
  <2>1. CASE S2 = S /\ y \in StillAnswers(th[t], t \in N)
    BY <1>2, <1>3, <1>4, <2>1, Weaker
  <2>2. CASE ~Decided(th[t]) /\ S2 = Made(t, S) /\ y = Answer(t, S)
    <3>1. "pending" \in a[t]
      BY <1>2, <2>2 DEF StillAnswers, Busy
    <3>2. Feasible(Made(t, S), c)
      BY <1>2, <1>3, <1>4, <2>2, <3>1, Effect
    <3>3. S2 \in SUBSET Nat
      BY <1>3, <2>2 DEF Made, ReqTyped, Ops
    <3> QED  BY <2>2, <3>2, <3>3
  <2> QED  BY <2>1, <2>2 DEF Ends
<1> HIDE DEF Core
<1> QED  BY <1>2, <1>3, <1>5, OthersObserve

\* A delete takes effect within the operation.
LEMMA LinDecides ==
    ASSUME ListAssumption, NEW L, NEW A, NEW N, Core(L, A, N), NEW t \in Threads, NEW s,
           Busy(t), ~Decided(th[t]), s # Idle, Decided(s), Moves(t, s), UNCHANGED <<req, lin>>,
           NEW S2, S2 = Made(t, Holds(L)), Answer(t, Holds(L)) = "yes",
           NEW N2 \in SUBSET Threads, MoreNo(N, N2, S2)
    PROVE  (lin \subseteq Configs)' /\ Feasible(S2, MayStill(N2))'
<1>1. PICK S, b : /\ S = Holds(L)
                  /\ b = [u \in Threads |-> StillAnswers(th'[u], u \in N2)]
  OBVIOUS
<1>2. th = [u \in Threads |-> th[u]]
  BY DEF Core
<1>3. th'[t] = s /\ \A u \in Threads \ {t} : th'[u] = th[u]
  BY <1>2, MovesIs
<1>4. b[t] = {"yes"} /\ \A u \in Threads \ {t} : b[u] = StillAnswers(th[u], u \in N2)
  BY <1>1, <1>3 DEF StillAnswers
<1>5. Feasible(S2, b)
  <2>1. OthersSee(t, N, N2, S2)
    BY DEF MoreNo, OthersSee
  <2>2. Ends(t, N, S, "yes", S2)
    BY <1>1 DEF Ends
  <2>3. Giving(t, N2, "yes", b)
    BY <1>4 DEF Giving
  <2> QED  BY <1>1, <2>1, <2>2, <2>3, Answered
<1>6. Feasible(S2, b)'
  BY <1>5, CoreIs, OnKeeps
<1>7. (lin \subseteq Configs)'
  BY CoreIs DEF Configs
<1>8. MayStill(N2)' = b
  BY <1>1 DEF MayStill
<1> QED  BY <1>6, <1>7, <1>8

LEMMA LinReturns ==
    ASSUME ListAssumption, NEW L, NEW A, NEW N, Core(L, A, N), NEW t \in Threads,
           Busy(t), NEW y \in {"yes", "no"}, Return(t, y), NEW S, S = Holds(L), NEW S2,
           Ends(t, N, S, y, S2), NEW N2 \in SUBSET Threads, MoreNo(N, N2, S2)
    PROVE  (lin \subseteq Configs)' /\ Feasible(S2, MayStill(N2))' /\ ReqOK'
<1>1. PICK b, c : /\ b = [u \in Threads |-> StillAnswers(th'[u], u \in N2)]
                  /\ c = [u \in Threads |-> IF u = t THEN {y} ELSE b[u]]
  OBVIOUS
<1>2. th = [u \in Threads |-> th[u]] /\ ReqOK
  BY DEF Core
<1>3. Moves(t, Idle)
  BY DEF Return, Moves
<1>4. th'[t] = Idle /\ \A u \in Threads \ {t} : th'[u] = th[u]
  BY <1>2, <1>3, MovesIs
<1>5. b[t] = {"none"} /\ c[t] = {y}
      /\ \A u \in Threads \ {t} : b[u] = StillAnswers(th[u], u \in N2) /\ c[u] = b[u]
  BY <1>1, <1>4 DEF StillAnswers
<1>6. Feasible(S2, c)
  <2>1. OthersSee(t, N, N2, S2)
    BY DEF MoreNo, OthersSee
  <2>2. Giving(t, N2, y, c)
    BY <1>5 DEF Giving
  <2> QED  BY <2>1, <2>2, Answered
<1>7. ReqOK'
  <2>1. req' = [req EXCEPT ![t] = [op |-> "find", key |-> 0, left |-> req[t].left]]
    BY DEF Return
  <2>2. req'[t] = [op |-> "find", key |-> 0, left |-> req[t].left]
        /\ \A u \in Threads \ {t} : req'[u] = req[u]
    BY <1>2, <2>1 DEF ReqOK
  <2>3. req' = [u \in Threads |-> req'[u]]
    BY <1>2, <2>1 DEF ReqOK
  <2>4. ASSUME NEW u \in Threads
        PROVE  /\ req'[u].op \in Ops /\ req'[u].key \in Nat
               /\ Busy(u)' => req'[u].key \in Keys
    <3>1. CASE u = t
      BY <1>4, <2>2, <3>1 DEF Ops, Busy
    <3>2. CASE u # t
      BY <1>2, <1>4, <2>2, <3>2 DEF ReqOK, Busy
    <3> QED  BY <3>1, <3>2
  <2> QED  BY <2>3, <2>4 DEF ReqOK, Ops
<1>8. ReqTyped'
  BY <1>7 DEF ReqOK, ReqTyped
<1>9. lin' = {[d EXCEPT !.ans[t] = "none"] : d \in {e \in Extended(lin) : e.ans[t] = y}}
  BY DEF Return
<1>10. y \in Answers /\ OthersKeep(t, c, b) /\ y \in c[t] /\ b[t] \subseteq {"none"}
  BY <1>5 DEF Answers, OthersKeep
<1>11. (lin \subseteq Configs)' /\ Feasible(S2, b)'
  BY <1>6, <1>8, <1>9, <1>10, CoreIs, ReturnKeeps
<1>12. MayStill(N2)' = b
  BY <1>1 DEF MayStill
<1> QED  BY <1>7, <1>11, <1>12

\* t begins: what it sees at once it may answer.
LEMMA LinBegins ==
    ASSUME ListAssumption, NEW L, NEW A, NEW N, Core(L, A, N), NEW t \in Threads,
           NEW o \in Ops, NEW k \in Keys, NEW s, s # Idle, ~Decided(s), Call(t, o, k, s),
           NEW S, S = Holds(L), NEW N2 \in SUBSET Threads,
           \A u \in Threads \ {t} : u \in N2 => u \in N,
           t \in N2 => Sees(req'[t], S)
    PROVE  /\ (lin \subseteq Configs)' /\ Feasible(S, MayStill(N2))' /\ ReqOK'
           /\ ~Busy(t) /\ Moves(t, s) /\ req'[t].op = o /\ req'[t].key = k
           /\ \A u \in Threads \ {t} : req'[u] = req[u]
<1>1. PICK a, b, c : /\ a = MayStill(N)
                     /\ b = [u \in Threads |-> StillAnswers(th'[u], u \in N2)]
                     /\ c = [u \in Threads |-> IF u = t THEN {"pending"} ELSE b[u]]
  OBVIOUS
<1>2. /\ th = [u \in Threads |-> th[u]] /\ ReqOK
      /\ \A u \in Threads : Busy(u) => th[u] \in Places
  BY DEF Core, Fine
<1>3. Moves(t, s) /\ th[t].pc = "idle"
  BY DEF Call, Moves
<1>4. ~Busy(t)
  BY <1>2, <1>3 DEF Places
<1>5. th'[t] = s /\ \A u \in Threads \ {t} : th'[u] = th[u]
  BY <1>2, <1>3, MovesIs
<1>6. req' = [req EXCEPT ![t] = [op |-> o, key |-> k, left |-> req[t].left - 1]]
  BY DEF Call
<1>7. /\ req'[t].op = o /\ req'[t].key = k
      /\ \A u \in Threads \ {t} : req'[u] = req[u]
      /\ req' = [u \in Threads |-> req'[u]]
  BY <1>2, <1>6 DEF ReqOK
<1>8. ReqOK'
  <2>1. ASSUME NEW u \in Threads
        PROVE  /\ req'[u].op \in Ops /\ req'[u].key \in Nat
               /\ Busy(u)' => req'[u].key \in Keys
    <3>1. CASE u = t
      BY <1>7, <3>1, KeysAre
    <3>2. CASE u # t
      BY <1>2, <1>5, <1>7, <3>2 DEF ReqOK, Busy
    <3> QED  BY <3>1, <3>2
  <2> QED  BY <1>7, <2>1 DEF ReqOK, Ops
<1>9. ReqTyped'
  BY <1>8 DEF ReqOK, ReqTyped
<1>10. /\ a[t] = {"none"} /\ c[t] = {"pending"}
       /\ \A u \in Threads \ {t} : c[u] = b[u] /\ b[u] \subseteq a[u]
       /\ b[t] \subseteq {"pending"} \cup (IF t \in N2 THEN {"no"} ELSE {})
  BY <1>1, <1>4, <1>5 DEF StillAnswers, MayStill, Busy
<1>11. lin' = {[d EXCEPT !.ans[t] = "pending"] : d \in lin}
  BY DEF Call
<1>12. OthersKeep(t, a, c) /\ "none" \in a[t] /\ c[t] \subseteq {"pending"}
  BY <1>10 DEF OthersKeep
<1>13. (lin \subseteq Configs)' /\ Feasible(S, c)'
  <2>1. Feasible(S, a)
    BY <1>1, CoreIs
  <2> QED  BY <1>7, <1>9, <1>11, <1>12, <2>1, CoreIs, CallKeeps
<1>14. Observed(S, c, b)'
  <2>1. t \in N2 => (Made(t, S) = S /\ Answer(t, S) = "no")'
    <3>1. req'[t].op \in Ops
      BY <1>7
    <3> QED  BY <3>1 DEF Sees, Made, Answer, Ops
  <2>2. ASSUME NEW u \in Threads
        PROVE  (b[u] \subseteq c[u] \cup (IF "pending" \in c[u] /\ Made(u, S) = S
                                          THEN {Answer(u, S)} ELSE {}))'
    <3>1. CASE u = t
      BY <1>10, <2>1, <3>1
    <3>2. CASE u # t
      BY <1>10, <3>2
    <3> QED  BY <3>1, <3>2
  <2> QED  BY <2>2 DEF Observed
<1>15. Feasible(S, b)'
  <2>1. S \in SUBSET Nat /\ IsFiniteSet(Threads)
    BY CoreIs
  <2> QED  BY <1>9, <1>13, <1>14, <2>1, ObservingHolds DEF Observing
<1>16. MayStill(N2)' = b
  BY <1>1 DEF MayStill
<1> QED  BY <1>3, <1>4, <1>7, <1>8, <1>13, <1>15, <1>16

\* What the others have met, they have met after the step.
Preserves(t, L2, A, A2, N2) ==
    \A u \in Threads \ {t} : Busy(u) =>
       /\ A[u] \subseteq A2[u] /\ Frozen(A[u])
       /\ \A q : q = req[u] => Met(q, L2, A2[u], u \in N2)'

\* And t, if it goes on.
GoesOnAt(t, s, L2, A2, N2) ==
    \A q : q = req'[t] => Met(q, L2, A2[t], t \in N2)' /\ Fine(s, q, A2[t], t \in N2)'

LEMMA CoreNext ==
    ASSUME NEW L, NEW A, NEW N, Core(L, A, N), NEW t \in Threads, NEW s, Moves(t, s),
           NEW L2, NEW A2 \in [Threads -> SUBSET Nat], NEW N2 \in SUBSET Threads,
           \A u \in Threads \ {t} : u \in N => u \in N2,
           ReqOK', \A u \in Threads \ {t} : req'[u] = req[u],
           MemTyped', Chain(L2)', Preserves(t, L2, A, A2, N2),
           s # Idle => GoesOnAt(t, s, L2, A2, N2),
           (lin \subseteq Configs)', NEW S2, S2 = Holds(L2)', Feasible(S2, MayStill(N2))'
    PROVE  Core(L2, A2, N2)'
<1>1. th' = [u \in Threads |-> th'[u]] /\ th'[t] = s /\ \A u \in Threads \ {t} : th'[u] = th[u]
  BY MovesIs DEF Core
<1>2. ASSUME NEW u \in Threads, Busy(u)'
      PROVE  (Met(req[u], L2, A2[u], u \in N2) /\ Fine(th[u], req[u], A2[u], u \in N2))'
  <2>1. CASE u = t
    <3>1. s # Idle
      BY <1>1, <1>2, <2>1 DEF Busy
    <3>2. PICK q : q = req'[t]
      OBVIOUS
    <3>3. Met(q, L2, A2[t], t \in N2)' /\ Fine(s, q, A2[t], t \in N2)'
      BY <3>1, <3>2 DEF GoesOnAt
    <3> QED  BY <1>1, <2>1, <3>2, <3>3 DEF Met, Fine
  <2>2. CASE u # t
    <3>1. Busy(u)
      BY <1>1, <1>2, <2>2 DEF Busy
    <3>2. PICK q, p : q = req[u] /\ p = th[u]
      OBVIOUS
    <3>3. Fine(p, q, A[u], u \in N)
      BY <3>1, <3>2 DEF Core
    <3>4. /\ A[u] \subseteq A2[u] /\ Frozen(A[u]) /\ Met(q, L2, A2[u], u \in N2)'
          /\ u \in N => u \in N2
      BY <2>2, <3>1, <3>2 DEF Preserves
    <3>5. Fine(p, q, A2[u], u \in N2)'
      BY <3>3, <3>4, FineKept
    <3>6. p = th'[u] /\ q = req'[u]
      BY <1>1, <2>2, <3>2
    <3> QED  BY <3>4, <3>5, <3>6 DEF Met, Fine
  <2> QED  BY <2>1, <2>2
<1>3. Feasible(Holds(L2), MayStill(N2))'
  BY DEF Feasible
<1> QED  BY <1>1, <1>2, <1>3 DEF Core

\* Nothing changes of what anybody may meet.
Calm(L, A) ==
    MemTyped' /\ Kept(L) /\ \A u \in Threads : Busy(u) => Kept(A[u])

LEMMA StillCalm ==
    ASSUME NEW L, NEW A, NEW N, Core(L, A, N), UNCHANGED mem
    PROVE  Calm(L, A)
<1>1. MemTyped'
  BY DEF Core, MemTyped, AnyNode
<1>2. \A M : M \subseteq DOMAIN mem => Kept(M)
  BY DEF Kept, Key
<1>3. L \subseteq DOMAIN mem /\ \A u \in Threads : Busy(u) => A[u] \subseteq DOMAIN mem
  BY DEF Core, Chain, Met
<1> QED  BY <1>1, <1>2, <1>3 DEF Calm

LEMMA CalmPreserves ==
    ASSUME NEW L, NEW A, NEW N, Core(L, A, N), Calm(L, A), NEW t \in Threads,
           NEW N2, \A u \in Threads \ {t} : u \in N => u \in N2
    PROVE  Preserves(t, L, A, A, N2)
<1> SUFFICES ASSUME NEW u \in Threads \ {t}, Busy(u), NEW q, q = req[u]
             PROVE  Frozen(A[u]) /\ Met(q, L, A[u], u \in N2)'
  BY DEF Preserves
<1>1. Kept(A[u])
  BY DEF Calm
<1>2. Met(q, L, A[u], u \in N)
  BY DEF Core
<1>3. Met(q, L, A[u], u \in N2)
  BY <1>2 DEF Met
<1>4. Met(q, L, A[u], u \in N2)'
  BY <1>1, <1>3, MetKept
<1>5. Frozen(A[u])
  BY <1>1 DEF Kept, Frozen
<1> QED  BY <1>4, <1>5

\* t goes on; it may answer "no" from now on, if it sees that.
LEMMA GoOn ==
    ASSUME ListAssumption, NEW L, NEW A, NEW N, Core(L, A, N), Calm(L, A), NEW t \in Threads,
           Busy(t), NEW s, Decided(s) <=> Decided(th[t]), On(t, s),
           NEW N2, N2 = N \/ (N2 = N \cup {t} /\ Sees(req[t], Holds(L))),
           Fine(s, req[t], A[t], t \in N2)
    PROVE  Core(L, A, N2)'
<1>1. /\ MemTyped /\ Chain(L) /\ A \in [Threads -> SUBSET Nat] /\ N2 \in SUBSET Threads
      /\ ReqOK
  BY DEF Core
<1>2. Moves(t, s) /\ UNCHANGED <<req, lin>>
  BY DEF On, Moves
<1>3. s \in Places /\ s # Idle
  BY PlacesBusy DEF Fine
<1>4. MoreNo(N, N2, Holds(L)) /\ \A u \in Threads \ {t} : u \in N => u \in N2
  BY DEF MoreNo
<1>5. PICK S : S = Holds(L)
  OBVIOUS
<1>6. (lin \subseteq Configs)' /\ Feasible(S, MayStill(N2))'
  BY <1>1, <1>2, <1>3, <1>4, <1>5, LinObserves
<1>7. MemTyped' /\ Chain(L)' /\ S = Holds(L)'
  BY <1>1, <1>5, ChainKept DEF Calm
<1>8. Preserves(t, L, A, A, N2)
  BY <1>4, CalmPreserves
<1>9. Kept(A[t]) /\ Frozen(A[t])
  BY DEF Calm, Kept, Frozen
<1>10. GoesOnAt(t, s, L, A, N2)
  <2> SUFFICES ASSUME NEW q, q = req'[t]
               PROVE  Met(q, L, A[t], t \in N2)' /\ Fine(s, q, A[t], t \in N2)'
    BY DEF GoesOnAt
  <2>1. q = req[t]
    BY <1>2
  <2>2. Met(q, L, A[t], t \in N)
    BY <2>1 DEF Core
  <2>3. Met(q, L, A[t], t \in N2)
    BY <2>2, MetWeaker
  <2>4. Met(q, L, A[t], t \in N2)'
    BY <1>9, <2>3, MetKept
  <2>5. Fine(s, q, A[t], t \in N2)
    BY <2>1
  <2>6. Fine(s, q, A[t], t \in N2)'
    BY <1>9, <2>5, FineKept
  <2> QED  BY <2>4, <2>6
<1>11. ReqOK'
  <2>1. \A u \in Threads : Busy(u)' <=> Busy(u)
    BY <1>2, <1>3, MovesIs DEF Busy, Core
  <2> QED  BY <1>1, <1>2, <2>1 DEF ReqOK, Ops
<1> HIDE DEF Core, Calm
<1> QED  BY <1>1, <1>2, <1>4, <1>6, <1>7, <1>8, <1>10, <1>11, CoreNext

\* t returns, and the list stays.
LEMMA GoHome ==
    ASSUME ListAssumption, NEW L, NEW A, NEW N, Core(L, A, N), Calm(L, A), NEW t \in Threads,
           Busy(t), NEW y \in {"yes", "no"}, Return(t, y), Ends(t, N, Holds(L), y, Holds(L))
    PROVE  Core(L, A, N)'
<1>1. MemTyped /\ Chain(L) /\ A \in [Threads -> SUBSET Nat] /\ N \in SUBSET Threads
  BY DEF Core
<1>2. /\ Moves(t, Idle)
      /\ \A u \in Threads \ {t} : req'[u] = req[u]
  BY DEF Return, Moves, Core, ReqOK
<1>3. PICK S : S = Holds(L)
  OBVIOUS
<1>4. Ends(t, N, S, y, S) /\ MoreNo(N, N, S)
  BY <1>3 DEF MoreNo
<1>5. (lin \subseteq Configs)' /\ Feasible(S, MayStill(N))' /\ ReqOK'
  BY <1>1, <1>3, <1>4, LinReturns
<1>6. MemTyped' /\ Chain(L)' /\ S = Holds(L)'
  BY <1>1, <1>3, ChainKept DEF Calm
<1>7. Preserves(t, L, A, A, N)
  BY CalmPreserves
<1> HIDE DEF Core, Calm
<1> QED  BY <1>1, <1>2, <1>5, <1>6, <1>7, CoreNext

LEMMA BusyPlace ==
    ASSUME ListAssumption, NEW L, NEW A, NEW N, Core(L, A, N), NEW t \in Threads, Busy(t)
    PROVE  /\ Met(req[t], L, A[t], t \in N) /\ Fine(th[t], req[t], A[t], t \in N)
           /\ th[t] \in Places /\ th[t] # Idle
           /\ Left(t) \in A[t] /\ Right(t) \in A[t] /\ Key(Left(t)) < req[t].key
           /\ Left(t) = th[t].left /\ Right(t) = th[t].right
           /\ req[t].key \in Keys /\ req[t].key \in Nat /\ req[t].op \in Ops
           /\ 0 < req[t].key /\ req[t].key < KEY_MAX /\ KEY_MAX \in Nat
           /\ MemTyped /\ Chain(L) /\ L \subseteq DOMAIN mem
<1>1. Met(req[t], L, A[t], t \in N) /\ Fine(th[t], req[t], A[t], t \in N)
  BY DEF Core
<1>2. MemTyped /\ Chain(L) /\ L \subseteq DOMAIN mem
  BY DEF Core, Chain
<1>3. req[t].key \in Keys /\ req[t].key \in Nat /\ req[t].op \in Ops
  BY DEF Core, ReqOK
<1> QED  BY <1>1, <1>2, <1>3, KeysAre DEF Fine, Left, Right, Busy

\* What t may meet is where it says, in the list if it is not marked.
LEMMA TMeets ==
    ASSUME ListAssumption, NEW L, NEW A, NEW N, Core(L, A, N), NEW t \in Threads, Busy(t),
           NEW x \in A[t]
    PROVE  /\ x \in DOMAIN mem /\ x \in Nat
           /\ Key(x) \in Nat /\ Key(x) <= KEY_MAX
           /\ Live(x) => x \in L
           /\ ~Live(x) => Key(x) # KEY_MAX
           /\ Key(x) # KEY_MAX => /\ Key(x) < KEY_MAX
                                  /\ Succ(x) \in A[t] /\ Key(x) < Key(Succ(x))
                                  /\ Succ(x) \in DOMAIN mem /\ Key(Succ(x)) \in Nat
<1>1. PICK q, no : q = req[t] /\ no = (t \in N)
  OBVIOUS
<1>2. Met(q, L, A[t], no) /\ MemTyped /\ Chain(L)
  BY <1>1, BusyPlace
<1> HIDE DEF Core
<1> QED  BY <1>2, MetAre

\* The compare-and-swap of delete that marks right.
LEMMA Marking ==
    ASSUME ListAssumption, NEW L, NEW A, NEW N, Core(L, A, N), NEW t \in Threads,
           Busy(t), th[t].pc = "mark", CAS(Right(t), th[t].link, WithMark(th[t].link)),
           Goto(t, "unlink")
    PROVE  \E N2 : Core(L, A, N2)'
<1>0. PICK r, k, s : r = Right(t) /\ k = req[t].key /\ s = [th[t] EXCEPT !.pc = "unlink"]
  OBVIOUS
<1>1. /\ th[t] \in Places /\ Fine(th[t], req[t], A[t], t \in N)
      /\ MemTyped /\ Chain(L) /\ r \in A[t] /\ r = th[t].right
      /\ k \in Keys /\ A \in [Threads -> SUBSET Nat] /\ N \in SUBSET Threads
  BY <1>0, BusyPlace DEF Core
<1>2. /\ Key(r) = k /\ req[t].op = "delete" /\ ~Marked(th[t].link)
      /\ th[t].then = "found" /\ ~Decided(th[t])
  BY <1>0, <1>1 DEF Fine, Decided
<1>3. mem[r].next = th[t].link /\ mem' = [mem EXCEPT ![r].next = WithMark(th[t].link)]
  BY <1>0 DEF CAS
<1>4. Live(r) /\ r \in L /\ r \in DOMAIN mem
  BY <1>1, <1>2, <1>3, TMeets DEF Live
<1>5. PICK l : l = WithMark(mem[r].next) /\ l \in Nat \X {0, 1}
  <2>1. mem[r].next = <<Succ(r), 0>> /\ Succ(r) \in Nat
    BY <1>1, <1>4, AnyNodesAre
  <2>2. WithMark(mem[r].next) = <<mem[r].next[1], 1>>
    BY DEF WithMark
  <2>3. <<mem[r].next[1], 1>> \in Nat \X {0, 1}
    BY <2>1 DEF Succ
  <2> QED  BY <2>2, <2>3
<1>6. Sets(r, l)
  BY <1>1, <1>3, <1>4, <1>5, SetsAre
<1>7. Chain(L)' /\ Holds(L)' = Holds(L) \ {k} /\ MemTyped'
  BY <1>1, <1>2, <1>4, <1>5, <1>6, ChainMark DEF Sets
<1>8. k \in Holds(L)
  BY <1>1, <1>2, <1>4 DEF Holds
<1>9. PICK N2 : N2 = N \cup {u \in Threads : Busy(u) /\ req[u].op # "insert" /\ req[u].key = k}
  OBVIOUS
<1>10. PICK S2 : S2 = Holds(L) \ {k}
  OBVIOUS
<1>11. MoreNo(N, N2, S2) /\ N2 \in SUBSET Threads /\ \A u \in Threads \ {t} : u \in N => u \in N2
  BY <1>1, <1>9, <1>10 DEF MoreNo, Sees
<1>12. Made(t, Holds(L)) = S2 /\ Answer(t, Holds(L)) = "yes"
  BY <1>0, <1>2, <1>8, <1>10 DEF Made, Answer
<1>13. /\ s \in Places /\ s # Idle /\ Decided(s) /\ Moves(t, s) /\ UNCHANGED <<req, lin>>
  <2>1. s \in Places /\ s.pc = "unlink"
    BY <1>0, <1>1 DEF Places
  <2> QED  BY <1>0, <2>1, PlacesBusy DEF Goto, On, Moves, Decided
<1>14. (lin \subseteq Configs)' /\ Feasible(S2, MayStill(N2))'
  BY <1>2, <1>10, <1>11, <1>12, <1>13, LinDecides
\* r is marked for whoever may meet it.
<1>15. ASSUME NEW u \in Threads, Busy(u)
       PROVE  /\ Frozen(A[u])
              /\ \A q : q = req[u] => Met(q, L, A[u], u \in N2)'
  <2>1. Met(req[u], L, A[u], u \in N) /\ A[u] \subseteq DOMAIN mem
    BY <1>15 DEF Core, Met
  <2>2. Frozen(A[u])
    BY <1>4, <1>6, <2>1, FrozenBySets
  <2>3. ASSUME NEW q, q = req[u] PROVE Met(q, L, A[u], u \in N2)'
    <3>1. PICK no, may : no = (u \in N) /\ may = (u \in N2)
      OBVIOUS
    <3>2. Met(q, L, A[u], no)
      BY <2>1, <2>3, <3>1
    <3>3. (no => may) /\ (q.op # "insert" /\ q.key = Key(r) => may)
      BY <1>2, <1>9, <1>15, <2>3, <3>1
    <3>4. Met(q, L, A[u], may)'
      BY <1>1, <1>4, <1>6, <3>2, <3>3, MetMark
    <3> QED  BY <3>1, <3>4
  <2> QED  BY <2>2, <2>3
<1>16. Preserves(t, L, A, A, N2)
  BY <1>15 DEF Preserves
<1>17. GoesOnAt(t, s, L, A, N2)
  <2> SUFFICES ASSUME NEW q, q = req'[t]
               PROVE  Met(q, L, A[t], t \in N2)' /\ Fine(s, q, A[t], t \in N2)'
    BY DEF GoesOnAt
  <2>1. q = req[t] /\ Met(q, L, A[t], t \in N2)' /\ Frozen(A[t])
    BY <1>13, <1>15
  <2>2. \A n \in A[t] : Key(n)' = Key(n)
    BY <2>1 DEF Frozen
  <2>3. ~Live(r)'
    <3>1. l[2] = 1
      BY <1>5 DEF WithMark
    <3> QED  BY <1>4, <1>6, <3>1, AfterSets
  <2>4. /\ s.left \in A[t] /\ s.right \in A[t] /\ Key(s.left) < q.key /\ s.right = r
        /\ s.pc = "unlink" /\ s.then = "found" /\ s \in Places /\ Key(r) = q.key
        /\ q.op = "delete"
    BY <1>0, <1>1, <1>2, <1>13, <2>1 DEF Fine, Places
  <2>5. q.key \in Nat
    BY <2>1, BusyPlace
  <2> QED  BY <2>1, <2>2, <2>3, <2>4, <2>5 DEF Fine
<1>18. ReqOK'
  <2>1. \A u \in Threads : Busy(u)' <=> Busy(u)
    BY <1>13, MovesIs DEF Busy, Core
  <2> QED  BY <1>13, <2>1 DEF Core, ReqOK, Ops
<1> HIDE DEF Core
<1>19. \A u \in Threads \ {t} : req'[u] = req[u]
  BY <1>13
<1>20. S2 = Holds(L)'
  BY <1>7, <1>10
<1>21. Core(L, A, N2)'
  BY <1>1, <1>7, <1>11, <1>13, <1>14, <1>16, <1>17, <1>18, <1>19, <1>20, CoreNext
<1> QED  BY <1>21

\* The list becomes M by a step that marks nothing and unlinks: whoever looks for
\* a key between what is unlinked and what comes after it may answer "no".
Unlinked(L, M, A, N, N2) ==
    /\ MemTyped' /\ Chain(M)' /\ Holds(M)' = Holds(L)
    /\ N2 \in SUBSET Threads /\ MoreNo(N, N2, Holds(L))
    /\ \A u \in Threads : Busy(u) =>
          Frozen(A[u]) /\ \A q : q = req[u] => Met(q, M, A[u], u \in N2)'

LEMMA Unlinking ==
    ASSUME ListAssumption, NEW L, NEW A, NEW N, Core(L, A, N), NEW t \in Threads,
           Busy(t), NEW r, r = Right(t), ~Live(r),
           CAS(Left(t), <<r, 0>>, Unmarked(mem[r].next))
    PROVE  r \in L /\ \E N2 : Unlinked(L, L \ {r}, A, N, N2)
<1>0. PICK w : w = Left(t)
  OBVIOUS
<1>1. /\ MemTyped /\ Chain(L) /\ L \subseteq DOMAIN mem /\ w \in A[t]
      /\ Key(w) < KEY_MAX /\ N \in SUBSET Threads
  <2>1. Key(w) \in Nat
    BY <1>0, BusyPlace, TMeets
  <2> QED  BY <1>0, <2>1, BusyPlace DEF Core
<1>2. mem[w].next = <<r, 0>> /\ mem' = [mem EXCEPT ![w].next = Unmarked(mem[r].next)]
  BY <1>0 DEF CAS
<1>3. Live(w) /\ Succ(w) = r
  BY <1>2 DEF Live, Marked, Succ
<1>4. w \in L /\ r \in L
  <2>1. w \in L
    BY <1>1, <1>3, TMeets
  <2>2. Key(w) # KEY_MAX /\ KEY_MAX \in Nat
    BY <1>1, KeysAre
  <2> QED  BY <1>1, <1>3, <2>1, <2>2 DEF Chain
<1>5. Unmarked(mem[r].next) = <<Succ(r), 0>> /\ <<Succ(r), 0>> \in Nat \X {0, 1}
  <2>1. Succ(r) \in Nat
    BY <1>1, <1>4, AnyNodesAre
  <2> QED  BY <2>1 DEF Unmarked, Succ
<1>6. Sets(w, <<Succ(r), 0>>)
  BY <1>1, <1>2, <1>4, <1>5, SetsAre
<1>7. /\ Chain(L \ {r})' /\ Holds(L \ {r})' = Holds(L)
      /\ Succ(r) \in L /\ Key(r) < KEY_MAX /\ Key(r) < Key(Succ(r)) /\ r # w
      /\ \A n \in L : Key(n) <= Key(r) \/ Key(Succ(r)) <= Key(n)
  BY <1>1, <1>2, <1>4, <1>6, ChainUnlink
<1>8. PICK N2 : N2 = N \cup {u \in Threads : /\ Busy(u) /\ req[u].op # "insert"
                                             /\ Key(r) < req[u].key
                                             /\ req[u].key < Key(Succ(r))}
  OBVIOUS
<1>9. N2 \in SUBSET Threads /\ MoreNo(N, N2, Holds(L))
  <2>1. ASSUME NEW u \in N2 \ N PROVE Sees(req[u], Holds(L))
    <3>1. /\ req[u].op # "insert" /\ Key(r) < req[u].key /\ req[u].key < Key(Succ(r))
          /\ u \in Threads
      BY <1>8
    <3>2. \A n \in L : Key(n) \in Nat
      BY <1>1, AnyNodesAre
    <3>3. req[u].key \in Nat
      BY <3>1 DEF Core, ReqOK
    <3>4. \A n \in L : Key(n) # req[u].key
      BY <1>4, <1>7, <3>1, <3>2, <3>3
    <3> QED  BY <3>1, <3>4 DEF Sees, Holds
  <2> QED  BY <1>1, <1>8, <2>1 DEF MoreNo
<1>10. ASSUME NEW u \in Threads, Busy(u)
       PROVE  Frozen(A[u]) /\ \A q : q = req[u] => Met(q, L \ {r}, A[u], u \in N2)'
  <2>1. Met(req[u], L, A[u], u \in N) /\ A[u] \subseteq DOMAIN mem
    BY <1>10 DEF Core, Met
  <2>2. Frozen(A[u])
    BY <1>3, <1>6, <2>1, FrozenBySets
  <2>3. ASSUME NEW q, q = req[u] PROVE Met(q, L \ {r}, A[u], u \in N2)'
    <3>1. PICK no, may : no = (u \in N) /\ may = (u \in N2)
      OBVIOUS
    <3>2. Met(q, L, A[u], no)
      BY <2>1, <2>3, <3>1
    <3>3. /\ no => may
          /\ q.op # "insert" /\ Key(r) < q.key /\ q.key < Key(Succ(r)) => may
      BY <1>8, <1>10, <2>3, <3>1
    <3> HIDE DEF Core
    <3>4. Met(q, L \ {r}, A[u], may)'
      BY <1>1, <1>2, <1>4, <1>6, <3>2, <3>3, MetUnlink
    <3> QED  BY <3>1, <3>4
  <2> QED  BY <2>2, <2>3
<1> HIDE DEF Core
<1>11. Unlinked(L, L \ {r}, A, N, N2)
  BY <1>1, <1>6, <1>7, <1>9, <1>10 DEF Unlinked, Sets
<1> QED  BY <1>4, <1>11

\* And t goes on.
LEMMA UnlinkOn ==
    ASSUME ListAssumption, NEW L, NEW A, NEW N, Core(L, A, N), NEW t \in Threads,
           Busy(t), NEW r, r = Right(t), ~Live(r),
           CAS(Left(t), <<r, 0>>, Unmarked(mem[r].next)),
           NEW s, Decided(s) <=> Decided(th[t]), On(t, s), Fine(s, req[t], A[t], t \in N)
    PROVE  r \in L /\ \E N2 : Core(L \ {r}, A, N2)'
<1>1. PICK N2 : Unlinked(L, L \ {r}, A, N, N2) /\ r \in L
  BY Unlinking
<1>2. PICK M, S : M = L \ {r} /\ S = Holds(L)
  OBVIOUS
<1>3. /\ MemTyped' /\ Chain(M)' /\ Holds(M)' = S
      /\ N2 \in SUBSET Threads /\ MoreNo(N, N2, S)
      /\ \A u \in Threads : Busy(u) =>
            Frozen(A[u]) /\ \A q : q = req[u] => Met(q, M, A[u], u \in N2)'
  BY <1>1, <1>2 DEF Unlinked
<1>4. A \in [Threads -> SUBSET Nat] /\ ReqOK
  BY DEF Core
<1>5. s \in Places /\ s # Idle /\ Moves(t, s) /\ UNCHANGED <<req, lin>>
  BY PlacesBusy DEF Fine, On, Moves
<1>6. (lin \subseteq Configs)' /\ Feasible(S, MayStill(N2))'
  BY <1>2, <1>3, <1>5, LinObserves
<1>7. Preserves(t, M, A, A, N2)
  BY <1>3 DEF Preserves
<1>8. GoesOnAt(t, s, M, A, N2)
  <2> SUFFICES ASSUME NEW q, q = req'[t]
               PROVE  Met(q, M, A[t], t \in N2)' /\ Fine(s, q, A[t], t \in N2)'
    BY DEF GoesOnAt
  <2>1. q = req[t] /\ Met(q, M, A[t], t \in N2)' /\ Frozen(A[t])
    BY <1>3, <1>5
  <2>2. PICK no, may : no = (t \in N) /\ may = (t \in N2)
    OBVIOUS
  <2>3. no => may
    BY <1>3, <2>2 DEF MoreNo
  <2>4. Fine(s, q, A[t], no)
    BY <2>1, <2>2
  <2>5. Fine(s, q, A[t], may)'
    BY <2>1, <2>3, <2>4, FineKept
  <2> QED  BY <2>1, <2>2, <2>5
<1>9. ReqOK'
  <2>1. \A u \in Threads : Busy(u)' <=> Busy(u)
    BY <1>5, MovesIs DEF Busy, Core
  <2> QED  BY <1>4, <1>5, <2>1 DEF ReqOK, Ops
<1>10. /\ \A u \in Threads \ {t} : u \in N => u \in N2
       /\ \A u \in Threads \ {t} : req'[u] = req[u]
  BY <1>3, <1>5 DEF MoreNo
<1> HIDE DEF Core
<1>11. Core(M, A, N2)'
  BY <1>3, <1>4, <1>5, <1>6, <1>7, <1>8, <1>9, <1>10, CoreNext
<1> QED  BY <1>1, <1>2, <1>11

\* Or returns.
LEMMA UnlinkHome ==
    ASSUME ListAssumption, NEW L, NEW A, NEW N, Core(L, A, N), NEW t \in Threads,
           Busy(t), NEW r, r = Right(t), ~Live(r),
           CAS(Left(t), <<r, 0>>, Unmarked(mem[r].next)),
           NEW y \in {"yes", "no"}, Return(t, y), Ends(t, N, Holds(L), y, Holds(L))
    PROVE  r \in L /\ \E N2 : Core(L \ {r}, A, N2)'
<1>1. PICK N2 : Unlinked(L, L \ {r}, A, N, N2) /\ r \in L
  BY Unlinking
<1>2. PICK M, S : M = L \ {r} /\ S = Holds(L)
  OBVIOUS
<1>3. /\ MemTyped' /\ Chain(M)' /\ Holds(M)' = S
      /\ N2 \in SUBSET Threads /\ MoreNo(N, N2, S)
      /\ \A u \in Threads : Busy(u) =>
            Frozen(A[u]) /\ \A q : q = req[u] => Met(q, M, A[u], u \in N2)'
  BY <1>1, <1>2 DEF Unlinked
<1>4. A \in [Threads -> SUBSET Nat]
  BY DEF Core
<1>5. Moves(t, Idle) /\ \A u \in Threads \ {t} : req'[u] = req[u]
  BY DEF Return, Moves, Core, ReqOK
<1>6. (lin \subseteq Configs)' /\ Feasible(S, MayStill(N2))' /\ ReqOK'
  <2>1. Ends(t, N, S, y, S)
    BY <1>2
  <2> QED  BY <1>2, <1>3, <2>1, LinReturns
<1>7. Preserves(t, M, A, A, N2)
  BY <1>3 DEF Preserves
<1>8. \A u \in Threads \ {t} : u \in N => u \in N2
  BY <1>3 DEF MoreNo
<1> HIDE DEF Core
<1>9. Core(M, A, N2)'
  BY <1>3, <1>4, <1>5, <1>6, <1>7, <1>8, CoreNext
<1> QED  BY <1>1, <1>2, <1>9

\* An insert links its node.
LEMMA LinkHome ==
    ASSUME ListAssumption, NEW L, NEW A, NEW N, Core(L, A, N), NEW t \in Threads,
           Busy(t), th[t].pc \in {"found", "link"}, req[t].op = "insert", ~IsThere(t),
           mem[Left(t)].next = <<Right(t), 0>>,
           NEW y \in Nat, y \notin L, \A u \in Threads : Busy(u) => y \notin A[u],
           Links(Left(t), y, req[t].key, Right(t)), Return(t, "yes")
    PROVE  Core(L \cup {y}, [u \in Threads |-> A[u] \cup {y}], N)'
<1>0. PICK w, r, k : w = Left(t) /\ r = Right(t) /\ k = req[t].key
  OBVIOUS
<1>1. /\ Met(req[t], L, A[t], t \in N) /\ Fine(th[t], req[t], A[t], t \in N)
      /\ MemTyped /\ Chain(L) /\ w \in A[t] /\ r \in A[t] /\ r = th[t].right /\ w = th[t].left
      /\ k \in Keys /\ k \in Nat /\ A \in [Threads -> SUBSET Nat] /\ N \in SUBSET Threads
  BY <1>0, BusyPlace DEF Core
<1>2. Key(w) < k /\ Key(r) \in Nat /\ k < Key(r) /\ ~Decided(th[t])
  <2>1. Key(w) < k /\ k <= Key(r) /\ ~Decided(th[t])
    BY <1>0, <1>1 DEF Fine, Decided
  <2>2. Key(r) # k /\ Key(r) \in Nat
    BY <1>0, <1>1, TMeets DEF IsThere
  <2> QED  BY <1>1, <2>1, <2>2
<1>3. Live(w) /\ w \in L /\ mem[w].next = <<r, 0>>
  <2>1. mem[w].next = <<r, 0>>
    BY <1>0
  <2>2. Live(w)
    BY <2>1 DEF Live, Marked
  <2> QED  BY <1>1, <2>1, <2>2, TMeets
<1>4. Links(w, y, k, r)
  BY <1>0
<1>5. /\ Chain(L \cup {y})' /\ Holds(L \cup {y})' = Holds(L) \cup {k}
      /\ k \notin Holds(L)
  BY <1>1, <1>2, <1>3, <1>4, ChainLink
<1>6. PICK M, S, S2, B : /\ M = L \cup {y} /\ S = Holds(L) /\ S2 = Holds(L) \cup {k}
                         /\ B = [u \in Threads |-> A[u] \cup {y}]
  OBVIOUS
<1>7. Ends(t, N, S, "yes", S2)
  <2>1. Made(t, S) = S2 /\ Answer(t, S) = "yes"
    BY <1>0, <1>5, <1>6 DEF Made, Answer
  <2> QED  BY <1>2, <2>1 DEF Ends
<1>8. MoreNo(N, N, S2) /\ B \in [Threads -> SUBSET Nat]
  BY <1>1, <1>6 DEF MoreNo
<1>9. (lin \subseteq Configs)' /\ Feasible(S2, MayStill(N))' /\ ReqOK'
  BY <1>1, <1>6, <1>7, <1>8, LinReturns
<1>10. Moves(t, Idle) /\ \A u \in Threads \ {t} : req'[u] = req[u]
  BY DEF Return, Moves, Core, ReqOK
<1>11. Preserves(t, M, A, B, N)
  <2> SUFFICES ASSUME NEW u \in Threads \ {t}, Busy(u), NEW q, q = req[u]
               PROVE  /\ A[u] \subseteq B[u] /\ Frozen(A[u])
                      /\ Met(q, M, B[u], u \in N)'
    BY DEF Preserves
  <2>1. PICK no : no = (u \in N)
    OBVIOUS
  <2>2. Met(q, L, A[u], no) /\ y \notin A[u] /\ B[u] = A[u] \cup {y}
    BY <1>6, <2>1 DEF Core
  <2> HIDE DEF Core
  <2>3. Met(q, L \cup {y}, A[u] \cup {y}, no)' /\ Frozen(A[u])
    BY <1>3, <1>4, <2>2, MetLink
  <2> QED  BY <1>6, <2>1, <2>2, <2>3
<1>12. MemTyped' /\ Chain(M)' /\ S2 = Holds(M)'
  BY <1>4, <1>5, <1>6 DEF Links
<1> HIDE DEF Core
<1>13. Core(M, B, N)'
  BY <1>1, <1>8, <1>9, <1>10, <1>11, <1>12, CoreNext
<1> QED  BY <1>6, <1>13

\* A thread begins, and may meet what is in the list.
LEMMA Begin ==
    ASSUME ListAssumption, NEW L, NEW A, NEW N, Core(L, A, N), NEW t \in Threads, BeginSearch(t)
    PROVE  \E N2 : Core(L, [A EXCEPT ![t] = L], N2)' /\ ~Busy(t)
<1>1. PICK o \in Ops, k \in Keys : Call(t, o, k, Locals("search", head, head, <<head, 0>>))
  BY DEF BeginSearch
<1>2. UNCHANGED mem
  BY DEF BeginSearch
<1>3. PICK s : s = Locals("search", head, head, <<head, 0>>)
  OBVIOUS
<1>4. /\ s \in Places /\ s # Idle /\ ~Decided(s) /\ s.pc = "search"
      /\ s.left = head /\ s.right = head /\ s.then = "found"
  <2>1. s \in Places
    BY <1>3 DEF Places, Locals, head
  <2> QED  BY <1>3, <2>1, PlacesBusy DEF Locals, Decided
<1>5. /\ MemTyped /\ Chain(L) /\ A \in [Threads -> SUBSET Nat] /\ N \in SUBSET Threads
      /\ L \subseteq DOMAIN mem /\ head \in L /\ Key(head) = 0
  BY DEF Core, Chain, KEY_MIN
<1>6. PICK N2 : N2 = (N \ {t}) \cup
                     {u \in {t} : o # "insert" /\ \E x \in L : Key(x) = k /\ ~Live(x)}
  OBVIOUS
<1>7. PICK S, B : S = Holds(L) /\ B = [A EXCEPT ![t] = L]
  OBVIOUS
<1>8. /\ N2 \in SUBSET Threads /\ \A u \in Threads \ {t} : u \in N2 <=> u \in N
      /\ t \in N2 <=> o # "insert" /\ \E x \in L : Key(x) = k /\ ~Live(x)
  BY <1>5, <1>6
<1>9. Call(t, o, k, s)
  BY <1>1, <1>3
<1>10. req'[t].op = o /\ req'[t].key = k
  BY <1>9 DEF Call, Core, ReqOK
<1>11. t \in N2 => Sees(req'[t], S)
  <2>1. \A a, b \in L : Key(a) = Key(b) => a = b
    BY <1>5 DEF Chain
  <2> QED  BY <1>7, <1>8, <1>10, <2>1 DEF Sees, Holds
<1>12. /\ (lin \subseteq Configs)' /\ Feasible(S, MayStill(N2))' /\ ReqOK'
       /\ ~Busy(t) /\ Moves(t, s)
       /\ \A u \in Threads \ {t} : req'[u] = req[u]
  BY <1>4, <1>7, <1>8, <1>9, <1>11, LinBegins
<1>13. Calm(L, A) /\ Kept(L)
  BY <1>2, StillCalm DEF Calm
<1>14. MemTyped' /\ Chain(L)' /\ S = Holds(L)'
  BY <1>5, <1>7, <1>13, ChainKept DEF Calm
<1>15. L \subseteq Nat /\ B \in [Threads -> SUBSET Nat] /\ B[t] = L
       /\ \A u \in Threads \ {t} : B[u] = A[u]
  <2>1. L \subseteq Nat
    BY <1>5, AnyNodesAre
  <2> QED  BY <1>5, <1>7, <2>1
<1>16. Preserves(t, L, A, B, N2)
  <2>1. Preserves(t, L, A, A, N2)
    BY <1>8, <1>13, CalmPreserves
  <2> QED  BY <1>15, <2>1 DEF Preserves
<1>17. GoesOnAt(t, s, L, B, N2)
  <2> SUFFICES ASSUME NEW q, q = req'[t]
               PROVE  Met(q, L, L, t \in N2)' /\ Fine(s, q, L, t \in N2)'
    BY <1>15 DEF GoesOnAt
  <2>1. q.op = o /\ q.key = k /\ k \in Nat /\ 0 < k
    BY <1>10, KeysAre
  <2>2. PICK no : no = (t \in N2)
    OBVIOUS
  <2>3. Met(q, L, L, no)
    BY <1>5, <1>8, <2>1, <2>2 DEF Met
  <2>4. Met(q, L, L, no)'
    BY <1>13, <2>3, MetKept
  <2>5. Frozen(L)
    BY <1>13 DEF Kept, Frozen
  <2>6. Fine(s, q, L, no)
    BY <1>4, <1>5, <2>1 DEF Fine
  <2>7. Fine(s, q, L, no)'
    BY <2>5, <2>6, FineKept
  <2> QED  BY <2>2, <2>4, <2>7
<1> HIDE DEF Core
<1>18. Core(L, B, N2)'
  BY <1>4, <1>8, <1>12, <1>14, <1>15, <1>16, <1>17, CoreNext
<1> QED  BY <1>7, <1>12, <1>18

-----------------------------------------------------------------------------
(* The steps that the lists share; they leave the list as it is.             *)

LEMMA GoesOnSeeing ==
    ASSUME ListAssumption, NEW L, NEW A, NEW N, Core(L, A, N), Calm(L, A), NEW t \in Threads,
           Busy(t), NEW s, Decided(s) <=> Decided(th[t]), On(t, s),
           NEW no \in BOOLEAN, no <=> t \in N \/ Sees(req[t], Holds(L)),
           Fine(s, req[t], A[t], no)
    PROVE  \E N2 : Core(L, A, N2)'
<1>1. PICK N2 : N2 = IF Sees(req[t], Holds(L)) THEN N \cup {t} ELSE N
  OBVIOUS
<1>2. N2 = N \/ (N2 = N \cup {t} /\ Sees(req[t], Holds(L)))
  BY <1>1
<1>3. no <=> t \in N2
  BY <1>1
<1>4. Fine(s, req[t], A[t], t \in N2)
  BY <1>3 DEF Fine
<1> HIDE DEF Core
<1>5. Core(L, A, N2)'
  BY <1>2, <1>4, GoOn
<1> QED  BY <1>5

\* Past the key of a find or delete: it was absent at some time.
LEMMA Passing ==
    ASSUME ListAssumption, NEW L, NEW A, NEW N, Core(L, A, N), NEW t \in Threads, Busy(t),
           NEW x \in A[t],
           Key(x) < req[t].key \/ (x = Right(t) /\ th[t].pc # "validate" /\ ~Live(x)),
           req[t].op # "insert", req[t].key < Key(Succ(x))
    PROVE  t \in N \/ Sees(req[t], Holds(L))
<1>1. PICK k : k = req[t].key
  OBVIOUS
<1>2. /\ Met(req[t], L, A[t], t \in N) /\ Fine(th[t], req[t], A[t], t \in N)
      /\ Chain(L) /\ L \subseteq DOMAIN mem /\ k \in Nat /\ k < KEY_MAX /\ KEY_MAX \in Nat
      /\ Right(t) = th[t].right /\ MemTyped
  BY <1>1, BusyPlace
<1>3. Key(x) \in Nat
  BY TMeets
<1>4. CASE Key(x) < k /\ x \in L
  <2>1. Key(x) # KEY_MAX
    BY <1>2, <1>3, <1>4
  <2>2. \A n \in L : Key(n) <= Key(x) \/ Key(Succ(x)) <= Key(n)
    BY <1>2, <1>4, <2>1 DEF Chain
  <2>3. /\ \A n \in L : Key(n) \in Nat
        /\ Key(Succ(x)) \in Nat
    BY <1>2, <1>3, <2>1, TMeets, AnyNodesAre
  <2>4. \A n \in L : Key(n) # k
    BY <1>1, <1>2, <1>3, <1>4, <2>2, <2>3
  <2> QED  BY <1>1, <2>4 DEF Sees, Holds
<1>5. CASE Key(x) < k /\ x \notin L
  BY <1>1, <1>2, <1>5 DEF Met
<1>6. CASE Key(x) = k /\ ~Live(x)
  BY <1>1, <1>2, <1>6 DEF Met
<1>7. CASE k < Key(x) /\ x = Right(t) /\ th[t].pc # "validate"
  BY <1>1, <1>2, <1>7 DEF Fine
<1> QED  BY <1>1, <1>2, <1>3, <1>4, <1>5, <1>6, <1>7

\* Where an operation starts over.
LEMMA Restarts ==
    ASSUME ListAssumption, NEW L, NEW A, NEW N, Core(L, A, N), NEW t \in Threads, Busy(t),
           UNCHANGED mem, NEW x \in {"found", "return"}, x = "return" <=> Decided(th[t]),
           x = "return" => req[t].op = "delete",
           On(t, [Locals("search", head, head, <<head, 0>>) EXCEPT !.then = x])
    PROVE  \E N2 : Core(L, A, N2)'
<1>1. PICK s, no : /\ s = [Locals("search", head, head, <<head, 0>>) EXCEPT !.then = x]
                   /\ no = (t \in N \/ Sees(req[t], Holds(L)))
  OBVIOUS
<1>2. /\ s \in Places /\ s.pc = "search" /\ s.left = head /\ s.right = head
      /\ s.then = x
  BY <1>1 DEF Locals, Places, head
<1>3. head \in A[t] /\ Key(head) = 0 /\ req[t].key \in Nat /\ 0 < req[t].key
  BY BusyPlace DEF Met, Chain, KEY_MIN
<1>4. Fine(s, req[t], A[t], no)
  BY <1>2, <1>3 DEF Fine
<1>5. Decided(s) <=> Decided(th[t])
  BY <1>2 DEF Decided
<1> HIDE DEF Core
<1> QED  BY <1>1, <1>4, <1>5, StillCalm, GoesOnSeeing

LEMMA AgainIs ==
    ASSUME NEW t, Again(t)
    PROVE  On(t, [Locals("search", head, head, <<head, 0>>) EXCEPT !.then = "found"])
<1>1. Locals("search", head, head, <<head, 0>>)
        = [Locals("search", head, head, <<head, 0>>) EXCEPT !.then = "found"]
  BY DEF Locals
<1> QED  BY <1>1 DEF Again

LEMMA StartsAgain ==
    ASSUME ListAssumption, NEW L, NEW A, NEW N, Core(L, A, N), NEW t \in Threads, Busy(t),
           UNCHANGED mem, ~Decided(th[t]), Again(t)
    PROVE  \E N2 : Core(L, A, N2)'
<1> HIDE DEF Core
<1> QED  BY AgainIs, Restarts

\* It looks at the first node.
LEMMA Enters ==
    ASSUME ListAssumption, NEW L, NEW A, NEW N, Core(L, A, N), NEW t \in Threads, Busy(t),
           UNCHANGED mem, th[t].pc = "search", NEW p \in {"validate", "look", "pass"},
           p = "pass" => req[t].op = "find",
           On(t, [Locals(p, head, Succ(head), <<head, 0>>) EXCEPT !.then = th[t].then])
    PROVE  \E N2 : Core(L, A, N2)'
<1>1. PICK s, no : /\ s = [Locals(p, head, Succ(head), <<head, 0>>) EXCEPT !.then = th[t].then]
                   /\ no = (t \in N \/ Sees(req[t], Holds(L)))
  OBVIOUS
<1>2. /\ Fine(th[t], req[t], A[t], t \in N) /\ th[t] \in Places
      /\ head \in A[t] /\ Key(head) = 0 /\ req[t].key \in Nat /\ 0 < req[t].key
      /\ Key(head) # KEY_MAX
  BY BusyPlace DEF Met, Chain, KEY_MIN
<1>3. Succ(head) \in A[t] /\ Succ(head) \in Nat
  BY <1>2, TMeets
<1>4. /\ s \in Places /\ s.pc = p /\ s.left = head /\ s.right = Succ(head)
      /\ s.then = th[t].then
  BY <1>1, <1>2, <1>3 DEF Locals, Places, head
<1>5. s.then = "return" => req[t].op = "delete"
  BY <1>2, <1>4 DEF Fine
<1>6. req[t].op # "insert" /\ req[t].key < Key(Succ(head)) => no
  BY <1>1, <1>2, Passing
<1>7. Fine(s, req[t], A[t], no)
  BY <1>2, <1>3, <1>4, <1>5, <1>6 DEF Fine
<1>8. Decided(s) <=> Decided(th[t])
  BY <1>4 DEF Decided
<1> HIDE DEF Core
<1> QED  BY <1>1, <1>7, <1>8, StillCalm, GoesOnSeeing

\* Of a place, the program counter changes.
LEMMA PlaceWithPc ==
    ASSUME NEW s \in Places, NEW p
    PROVE  /\ [s EXCEPT !.pc = p].pc = p /\ [s EXCEPT !.pc = p].left = s.left
           /\ [s EXCEPT !.pc = p].right = s.right /\ [s EXCEPT !.pc = p].then = s.then
           /\ [s EXCEPT !.pc = p].link = s.link
           /\ p \in {"search", "validate", "look", "pass", "delete_right", "step", "found",
                     "link", "mark", "unlink", "return"} => [s EXCEPT !.pc = p] \in Places
BY DEF Places

\* left_node is followed by right_node.
LEMMA Validates ==
    ASSUME ListAssumption, NEW L, NEW A, NEW N, Core(L, A, N), NEW t \in Threads, Busy(t),
           UNCHANGED mem, th[t].pc = "validate", mem[Left(t)].next = <<Right(t), 0>>,
           Goto(t, "look")
    PROVE  \E N2 : Core(L, A, N2)'
<1>1. PICK s, no : s = [th[t] EXCEPT !.pc = "look"] /\ no = (t \in N \/ Sees(req[t], Holds(L)))
  OBVIOUS
<1>2. /\ Fine(th[t], req[t], A[t], t \in N) /\ th[t] \in Places
      /\ Left(t) \in A[t] /\ Key(Left(t)) < req[t].key
      /\ Right(t) = th[t].right /\ Left(t) = th[t].left
  BY BusyPlace
<1>3. /\ s \in Places /\ s.pc = "look" /\ s.left = Left(t) /\ s.right = Right(t)
      /\ s.then = th[t].then
  BY <1>1, <1>2, PlaceWithPc
<1>4. Succ(Left(t)) = Right(t)
  BY DEF Succ
<1>5. req[t].op # "insert" /\ req[t].key < Key(Right(t)) => no
  BY <1>1, <1>2, <1>4, Passing
<1>6. Fine(s, req[t], A[t], no)
  BY <1>2, <1>3, <1>5 DEF Fine
<1>7. Decided(s) <=> Decided(th[t])
  BY <1>3 DEF Decided
<1> HIDE DEF Core
<1> QED  BY <1>1, <1>6, <1>7, StillCalm, GoesOnSeeing DEF Goto

\* It looks at right_node.
LEMMA Looks ==
    ASSUME ListAssumption, NEW L, NEW A, NEW N, Core(L, A, N), NEW t \in Threads, Busy(t),
           UNCHANGED mem, th[t].pc = "look",
           IF Marked(mem[Right(t)].next) THEN Goto(t, "delete_right")
           ELSE IF Key(Right(t)) >= req[t].key THEN Goto(t, th[t].then)
           ELSE On(t, [th[t] EXCEPT !.pc = "step", !.left = Right(t)])
    PROVE  \E N2 : Core(L, A, N2)'
<1>1. PICK q, r, no : q = req[t] /\ r = Right(t) /\ no = (t \in N \/ Sees(q, Holds(L)))
  OBVIOUS
<1>2. /\ Fine(th[t], q, A[t], t \in N) /\ th[t] \in Places /\ r = th[t].right
      /\ r \in A[t] /\ Key(r) \in Nat /\ q.key \in Nat /\ q.key \in Keys
      /\ Live(r) => r \in L
  BY <1>1, BusyPlace, TMeets
<1>3. CASE Marked(mem[r].next)
  <2>1. PICK s : s = [th[t] EXCEPT !.pc = "delete_right"]
    OBVIOUS
  <2>2. /\ s \in Places /\ s.pc = "delete_right" /\ s.left = th[t].left /\ s.right = r
        /\ s.then = th[t].then
    BY <1>2, <2>1, PlaceWithPc
  <2>3. Fine(s, q, A[t], no)
    BY <1>1, <1>2, <1>3, <2>2 DEF Fine, Live
  <2>4. Decided(s) <=> Decided(th[t])
    BY <2>2 DEF Decided
  <2> HIDE DEF Core
  <2> QED  BY <1>1, <1>3, <2>1, <2>3, <2>4, StillCalm, GoesOnSeeing DEF Goto
<1>4. CASE ~Marked(mem[r].next) /\ Key(r) >= q.key
  <2>1. PICK s : s = [th[t] EXCEPT !.pc = th[t].then]
    OBVIOUS
  <2>2. th[t].then \in {"found", "return"}
    BY <1>2 DEF Places
  <2>3. /\ s \in Places /\ s.pc = th[t].then /\ s.left = th[t].left /\ s.right = r
        /\ s.then = th[t].then
    BY <1>2, <2>1, <2>2, PlaceWithPc
  <2>4. q.op = "insert" /\ q.key = Key(r) => no
    BY <1>1, <1>2, <1>4 DEF Sees, Holds, Live
  <2>5. Fine(s, q, A[t], no)
    BY <1>1, <1>2, <1>4, <2>2, <2>3, <2>4 DEF Fine
  <2>6. Decided(s) <=> Decided(th[t])
    BY <2>2, <2>3 DEF Decided
  <2> HIDE DEF Core
  <2> QED  BY <1>1, <1>4, <2>1, <2>5, <2>6, StillCalm, GoesOnSeeing DEF Goto
<1>5. CASE ~Marked(mem[r].next) /\ ~(Key(r) >= q.key)
  <2>1. PICK s : s = [th[t] EXCEPT !.pc = "step", !.left = r]
    OBVIOUS
  <2>2. /\ s \in Places /\ s.pc = "step" /\ s.left = r /\ s.right = r
        /\ s.then = th[t].then
    <3>1. r \in Nat
      BY <1>2, TMeets
    <3> QED  BY <1>2, <2>1, <3>1 DEF Places
  <2>3. Fine(s, q, A[t], no)
    BY <1>1, <1>2, <1>5, <2>2 DEF Fine
  <2>4. Decided(s) <=> Decided(th[t])
    BY <2>2 DEF Decided
  <2> HIDE DEF Core
  <2> QED  BY <1>1, <1>5, <2>1, <2>3, <2>4, StillCalm, GoesOnSeeing
<1> QED  BY <1>1, <1>3, <1>4, <1>5

\* right_node becomes the next one.
LEMMA Advances ==
    ASSUME ListAssumption, NEW L, NEW A, NEW N, Core(L, A, N), NEW t \in Threads, Busy(t),
           UNCHANGED mem, th[t].pc \in {"step", "pass"},
           th[t].pc = "pass" => Key(Right(t)) < req[t].key,
           NEW p \in {"validate", "look", "pass"}, p = "pass" => th[t].pc = "pass",
           On(t, [th[t] EXCEPT !.pc = p, !.right = Succ(Right(t))])
    PROVE  \E N2 : Core(L, A, N2)'
<1>1. PICK q, r, no, s : /\ q = req[t] /\ r = Right(t)
                         /\ no = (t \in N \/ Sees(q, Holds(L)))
                         /\ s = [th[t] EXCEPT !.pc = p, !.right = Succ(r)]
  OBVIOUS
<1>2. /\ Fine(th[t], q, A[t], t \in N) /\ th[t] \in Places /\ r = th[t].right
      /\ r \in A[t] /\ Key(r) \in Nat /\ q.key \in Nat
      /\ Key(r) < q.key \/ ~Live(r)
  BY <1>1, BusyPlace, TMeets DEF Fine
<1>3. Key(r) # KEY_MAX
  <2>1. q.key < KEY_MAX /\ KEY_MAX \in Nat
    BY <1>1, BusyPlace
  <2> QED  BY <1>2, <2>1, TMeets
<1>4. Succ(r) \in A[t] /\ Succ(r) \in Nat
  BY <1>2, <1>3, TMeets
<1>5. /\ s \in Places /\ s.pc = p /\ s.left = th[t].left /\ s.right = Succ(r)
      /\ s.then = th[t].then
  BY <1>1, <1>2, <1>4 DEF Places
<1>6. q.op # "insert" /\ q.key < Key(Succ(r)) => no
  BY <1>1, <1>2, Passing
<1>7. Fine(s, q, A[t], no)
  BY <1>2, <1>4, <1>5, <1>6 DEF Fine
<1>8. Decided(s) <=> Decided(th[t])
  BY <1>5 DEF Decided
<1> HIDE DEF Core
<1> QED  BY <1>1, <1>7, <1>8, StillCalm, GoesOnSeeing

\* It passes the marked node that it could not unlink, or unlinks it.
LEMMA GoesToStep ==
    ASSUME ListAssumption, NEW L, NEW A, NEW N, Core(L, A, N), NEW t \in Threads, Busy(t),
           th[t].pc = "delete_right", Goto(t, "step"), NEW r, r = Right(t)
    PROVE  /\ UNCHANGED mem => \E N2 : Core(L, A, N2)'
           /\ CAS(Left(t), <<r, 0>>, Unmarked(mem[r].next))
                 => r \in L /\ \E N2 : Core(L \ {r}, A, N2)'
<1>1. PICK s, no : /\ s = [th[t] EXCEPT !.pc = "step"]
                   /\ no = (t \in N \/ Sees(req[t], Holds(L)))
  OBVIOUS
<1>2. /\ Fine(th[t], req[t], A[t], t \in N) /\ th[t] \in Places /\ r = th[t].right
  BY <1>1, BusyPlace
<1>3. /\ s \in Places /\ s.pc = "step" /\ s.left = th[t].left /\ s.right = r
      /\ s.then = th[t].then /\ ~Live(r)
  <2>1. ~Live(r)
    BY <1>2 DEF Fine
  <2> QED  BY <1>1, <1>2, <2>1, PlaceWithPc
<1>4. Fine(s, req[t], A[t], t \in N) /\ Fine(s, req[t], A[t], no)
  BY <1>1, <1>2, <1>3 DEF Fine
<1>5. (Decided(s) <=> Decided(th[t])) /\ On(t, s)
  BY <1>1, <1>3 DEF Decided, Goto
<1> HIDE DEF Core
<1>6. ASSUME UNCHANGED mem PROVE \E N2 : Core(L, A, N2)'
  BY <1>1, <1>4, <1>5, <1>6, StillCalm, GoesOnSeeing
<1>7. ASSUME CAS(Left(t), <<r, 0>>, Unmarked(mem[r].next))
      PROVE  r \in L /\ \E N2 : Core(L \ {r}, A, N2)'
  BY <1>1, <1>3, <1>4, <1>5, <1>7, UnlinkOn
<1> QED  BY <1>1, <1>6, <1>7

\* A find answers what it saw.
LEMMA FindsAnswer ==
    ASSUME ListAssumption, NEW L, NEW A, NEW N, Core(L, A, N), NEW t \in Threads, Busy(t),
           UNCHANGED mem, req[t].op = "find", th[t].pc \in {"pass", "found"},
           req[t].key <= Key(Right(t)),
           Return(t, IF IsThere(t) /\ ~Marked(mem[Right(t)].next) THEN "yes" ELSE "no")
    PROVE  Core(L, A, N)'
<1>1. PICK k, r, S : k = req[t].key /\ r = Right(t) /\ S = Holds(L)
  OBVIOUS
<1>2. /\ Met(req[t], L, A[t], t \in N) /\ Fine(th[t], req[t], A[t], t \in N)
      /\ r \in A[t] /\ k \in Keys /\ k \in Nat /\ Key(r) \in Nat /\ r = th[t].right
      /\ Live(r) => r \in L
  BY <1>1, BusyPlace, TMeets
<1>3. ~Decided(th[t]) /\ th[t] # Idle
  BY <1>2 DEF Fine, Decided, Busy
<1> HIDE DEF Core
<1>4. CASE Key(r) = k /\ Live(r)
  <2>1. k \in S
    BY <1>1, <1>2, <1>4 DEF Holds
  <2>2. Made(t, S) = S /\ Answer(t, S) = "yes"
    BY <1>1, <2>1 DEF Made, Answer
  <2>3. Ends(t, N, S, "yes", S)
    BY <1>3, <2>2 DEF Ends
  <2>4. Return(t, "yes")
    BY <1>1, <1>4 DEF IsThere, Live
  <2> QED  BY <1>1, <2>3, <2>4, StillCalm, GoHome
<1>5. CASE ~(Key(r) = k /\ Live(r))
  <2>1. t \in N
    BY <1>1, <1>2, <1>5 DEF Fine, Met
  <2>2. Ends(t, N, S, "no", S)
    BY <1>3, <2>1 DEF Ends, StillAnswers
  <2>3. Return(t, "no")
    BY <1>1, <1>5 DEF IsThere, Live
  <2> QED  BY <1>1, <2>2, <2>3, StillCalm, GoHome
<1> QED  BY <1>4, <1>5

LEMMA NothingAnswers ==
    ASSUME ListAssumption, NEW L, NEW A, NEW N, Core(L, A, N), NEW t \in Threads, Busy(t),
           NothingToDo(t)
    PROVE  Core(L, A, N)'
<1>1. PICK k, r, S : k = req[t].key /\ r = Right(t) /\ S = Holds(L)
  OBVIOUS
<1>2. /\ Fine(th[t], req[t], A[t], t \in N)
      /\ r \in A[t] /\ k \in Nat /\ Key(r) \in Nat /\ r = th[t].right
  BY <1>1, BusyPlace, TMeets
<1>3. /\ th[t].pc = "found" /\ Return(t, "no") /\ UNCHANGED mem
      /\ (req[t].op = "insert" /\ Key(r) = k) \/ (req[t].op = "delete" /\ Key(r) # k)
  BY <1>1 DEF NothingToDo, Found, IsThere
<1>4. t \in N /\ ~Decided(th[t]) /\ th[t] # Idle
  BY <1>1, <1>2, <1>3 DEF Fine, Decided, Busy
<1>5. Ends(t, N, S, "no", S)
  BY <1>4 DEF Ends, StillAnswers
<1> HIDE DEF Core
<1> QED  BY <1>1, <1>3, <1>5, StillCalm, GoHome

\* A delete reads the link of right_node.
LEMMA ReadsNext ==
    ASSUME ListAssumption, NEW L, NEW A, NEW N, Core(L, A, N), NEW t \in Threads, Busy(t),
           Found(t, "delete"), IsThere(t), UNCHANGED mem,
           On(t, [th[t] EXCEPT !.pc = "mark", !.link = Unmarked(mem[Right(t)].next)])
    PROVE  \E N2 : Core(L, A, N2)'
<1>1. PICK r, l, s, no : /\ r = Right(t) /\ l = Unmarked(mem[r].next)
                         /\ s = [th[t] EXCEPT !.pc = "mark", !.link = l]
                         /\ no = (t \in N \/ Sees(req[t], Holds(L)))
  OBVIOUS
<1>2. /\ Fine(th[t], req[t], A[t], t \in N) /\ th[t] \in Places /\ r = th[t].right
      /\ r \in A[t] /\ r \in DOMAIN mem /\ MemTyped
  BY <1>1, BusyPlace, TMeets
<1>3. l \in Nat \X {0, 1} /\ ~Marked(l)
  <2>1. mem[r].next \in Nat \X {0, 1}
    BY <1>2, AnyNodesAre
  <2> QED  BY <1>1, <2>1 DEF Unmarked, Marked
<1>4. /\ s \in Places /\ s.pc = "mark" /\ s.left = th[t].left /\ s.right = r
      /\ s.then = th[t].then /\ s.link = l
  BY <1>1, <1>2, <1>3 DEF Places
<1>5. th[t].pc = "found" /\ req[t].op = "delete" /\ Key(r) = req[t].key
  BY <1>1 DEF Found, IsThere
<1>6. Fine(s, req[t], A[t], no)
  BY <1>1, <1>2, <1>3, <1>4, <1>5 DEF Fine
<1>7. Decided(s) <=> Decided(th[t])
  BY <1>4, <1>5 DEF Decided
<1> HIDE DEF Core
<1> QED  BY <1>1, <1>6, <1>7, StillCalm, GoesOnSeeing

\* And marks it, or starts over.
LEMMA Marks ==
    ASSUME ListAssumption, NEW L, NEW A, NEW N, Core(L, A, N), NEW t \in Threads, Busy(t),
           MarkRight(t, "unlink")
    PROVE  \E N2 : Core(L, A, N2)'
<1>1. PICK l : l = th[t].link
  OBVIOUS
<1>2. /\ th[t].pc = "mark"
      /\ \/ CAS(Right(t), l, WithMark(l)) /\ Goto(t, "unlink")
         \/ CASFails(Right(t), l) /\ Again(t)
  BY <1>1 DEF MarkRight
<1>3. CASE CAS(Right(t), l, WithMark(l)) /\ Goto(t, "unlink")
  <2> HIDE DEF Core
  <2> QED  BY <1>1, <1>2, <1>3, Marking
<1>4. CASE CASFails(Right(t), l) /\ Again(t)
  <2>1. UNCHANGED mem
    BY <1>4 DEF CASFails
  <2>2. ~Decided(th[t])
    BY <1>2, BusyPlace DEF Fine, Decided
  <2> HIDE DEF Core
  <2> QED  BY <1>4, <2>1, <2>2, StartsAgain
<1> QED  BY <1>2, <1>3, <1>4

\* A delete returns once it has marked its node.
LEMMA DeleteReturns ==
    ASSUME ListAssumption, NEW L, NEW A, NEW N, Core(L, A, N), NEW t \in Threads, Busy(t),
           th[t].pc \in {"unlink", "return"}, Return(t, "yes"), NEW r, r = Right(t)
    PROVE  /\ UNCHANGED mem => Core(L, A, N)'
           /\ th[t].pc = "unlink" /\ CAS(Left(t), <<r, 0>>, Unmarked(mem[r].next))
                 => r \in L /\ \E N2 : Core(L \ {r}, A, N2)'
<1>1. PICK S : S = Holds(L)
  OBVIOUS
<1>2. Ends(t, N, S, "yes", S)
  BY DEF Ends, StillAnswers, Decided, Busy
<1>3. th[t].pc = "unlink" => ~Live(r)
  BY <1>1, BusyPlace DEF Fine
<1> HIDE DEF Core
<1>4. ASSUME UNCHANGED mem PROVE Core(L, A, N)'
  BY <1>1, <1>2, <1>4, StillCalm, GoHome
<1>5. ASSUME th[t].pc = "unlink", CAS(Left(t), <<r, 0>>, Unmarked(mem[r].next))
      PROVE  r \in L /\ \E N2 : Core(L \ {r}, A, N2)'
  BY <1>1, <1>2, <1>3, <1>5, UnlinkHome
<1> QED  BY <1>1, <1>4, <1>5

-----------------------------------------------------------------------------
(* Michael's list, and linkedlist-harris_opt: nothing is freed.              *)

LEMMA LinkedAre ==
    ASSUME MemTyped, NEW w \in DOMAIN mem, NEW k \in Nat, NEW r \in Nat,
           NEW y, y = Fresh, mem' = Linked(node(k, r), w)
    PROVE  y \in Nat /\ y \notin DOMAIN mem /\ Links(w, y, k, r)
<1>1. PICK m \in Nat : mem \in [0 .. m -> AnyNode]
  BY DEF MemTyped
<1>2. y = m + 1 /\ DOMAIN mem = 0 .. m
  <2>1. Cardinality(0 .. m) = IF 0 > m THEN 0 ELSE m - 0 + 1
    BY FS_Interval
  <2> QED  BY <1>1, <2>1 DEF Fresh
<1> DEFINE x == node(k, r)
           v == [mem[w] EXCEPT !.next = <<y, 0>>]
<1>3. x \in AnyNode /\ x.key = k /\ x.next = <<r, 0>>
  BY DEF node, AnyNode
<1>4. v \in AnyNode /\ v.key = mem[w].key /\ v.next = <<y, 0>>
  <2>1. mem[w] \in AnyNode
    BY AnyNodesAre
  <2>2. y \in Nat
    BY <1>2
  <2> QED  BY <2>1, <2>2 DEF AnyNode
<1>5. mem' = [i \in 0 .. m + 1 |-> IF i = y THEN x ELSE IF i = w THEN v ELSE mem[i]]
  <2>1. (DOMAIN mem) \cup {y} = 0 .. m + 1
    BY <1>2
  <2> QED  BY <2>1 DEF Linked
<1> HIDE DEF x, v
<1>6. mem' \in [0 .. m + 1 -> AnyNode]
  <2>1. \A i \in 0 .. m + 1 : i # y => i \in 0 .. m
    BY <1>2
  <2> QED  BY <1>1, <1>3, <1>4, <1>5, <2>1
<1>7. MemTyped'
  <2>1. m + 1 \in Nat
    OBVIOUS
  <2> QED  BY <1>6, <2>1 DEF MemTyped
<1>8. y \notin DOMAIN mem /\ y \in Nat /\ y \in 0 .. m + 1
  BY <1>2
<1>9. \A n \in DOMAIN mem : mem'[n] = IF n = w THEN v ELSE mem[n]
  BY <1>2, <1>5, <1>8
<1>10. mem'[y] = x
  BY <1>5, <1>8
<1>11. DOMAIN mem' = (DOMAIN mem) \cup {y}
  BY <1>2, <1>5
<1>12. (DOMAIN mem) \ {y} = DOMAIN mem
  BY <1>8
<1>13. Links(w, y, k, r)
  BY <1>3, <1>4, <1>7, <1>9, <1>10, <1>11, <1>12 DEF Links, Key
<1> QED  BY <1>8, <1>13

\* What the invariant of Harris's list says at first, it says of any list.
LEMMA CoreFirst ==
    ASSUME ListAssumption, Init
    PROVE  /\ \E L : Core(L, [t \in Threads |-> {}], {})
           /\ \A t \in Threads : ~Busy(t)
<1>1. PICK L \in SUBSET DOMAIN mem : InvWith(L)
  BY InitInv DEF Inv
<1>2. \A t \in Threads : ~Busy(t)
  BY DEF Init, ListInit, SetInit, Busy
<1>3. MemOK /\ NodesOK /\ ListOK(L) /\ ThOK /\ ReqOK /\ LinOK
  BY <1>1 DEF InvWith, Shape
<1>4. MemTyped
  <2>1. NodeType \subseteq AnyNode
    BY KeysAre DEF NodeType, AnyNode
  <2>2. PICK m \in Nat : mem \in [0 .. m -> NodeType]
    BY <1>3 DEF MemOK
  <2>3. mem \in [0 .. m -> AnyNode]
    BY <2>1, <2>2
  <2> QED  BY <2>3 DEF MemTyped
<1>5. Chain(L)
  <2>1. head \in L /\ L \subseteq DOMAIN mem /\ Key(head) = KEY_MIN
    BY <1>3 DEF NodesOK, ListOK
  <2>2. \A a \in L : Key(a) <= KEY_MAX
    <3>1. \A a \in DOMAIN mem : Key(a) \in 0 .. KEY_MAX
      BY <1>3 DEF MemOK, NodeType, Key
    <3>2. KEY_MAX \in Nat
      BY KeysAre
    <3> QED  BY <2>1, <3>1, <3>2
  <2>3. \A a \in L : Key(a) \in {KEY_MIN, KEY_MAX} => Live(a)
    BY <1>3, <2>1 DEF NodesOK
  <2>4. \A a \in L : Key(a) # KEY_MAX => Key(a) < Key(Succ(a))
    BY <1>3, <2>1 DEF NodesOK
  <2> QED  BY <1>3, <2>1, <2>2, <2>3, <2>4 DEF Chain, ListOK
<1>6. Contents = Holds(L)
  BY <1>3 DEF Contents, Holds, ListOK
<1>7. [t \in Threads |-> MayAnswer(t)] = MayStill({})
  BY <1>2 DEF MayAnswer, MayStill, StillAnswers, Busy
<1>8. lin \subseteq Configs /\ Feasible(Holds(L), MayStill({}))
  BY <1>3, <1>6, <1>7 DEF LinOK
<1>9. Core(L, [t \in Threads |-> {}], {})
  BY <1>2, <1>3, <1>4, <1>5, <1>8 DEF Core, ThOK
<1> QED  BY <1>2, <1>9

LEMMA CoreCalm ==
    ASSUME ListAssumption, NEW L, NEW A, NEW N, Core(L, A, N), Calm(L, A),
           UNCHANGED <<th, req, lin>>
    PROVE  Core(L, A, N)'
<1>1. UNCHANGED <<th, req, lin>>
  OBVIOUS
<1>2. Calm(L, A) /\ MemTyped /\ Chain(L)
  BY DEF Core
<1>3. MemTyped' /\ Chain(L)' /\ Holds(L)' = Holds(L)
  BY <1>2, ChainKept DEF Calm
<1>4. \A u \in Threads : Busy(u)' <=> Busy(u)
  BY <1>1 DEF Busy
<1>5. ASSUME NEW u \in Threads, Busy(u)
      PROVE  (Met(req[u], L, A[u], u \in N) /\ Fine(th[u], req[u], A[u], u \in N))'
  <2>1. PICK q, p, no : q = req[u] /\ p = th[u] /\ no = (u \in N)
    OBVIOUS
  <2>2. Met(q, L, A[u], no) /\ Fine(p, q, A[u], no)
    BY <1>5, <2>1 DEF Core
  <2>3. Kept(A[u]) /\ Frozen(A[u])
    BY <1>2, <1>5 DEF Calm, Kept, Frozen
  <2>4. Met(q, L, A[u], no)' /\ Fine(p, q, A[u], no)'
    BY <2>2, <2>3, MetKept, FineKept
  <2>5. q = req'[u] /\ p = th'[u]
    BY <1>1, <2>1
  <2> QED  BY <2>1, <2>4, <2>5 DEF Met, Fine
<1>6. PICK S, b : S = Holds(L) /\ b = MayStill(N)
  OBVIOUS
<1>7. Feasible(S, b)' /\ (lin \subseteq Configs)'
  BY <1>1, <1>6, CoreIs, OnKeeps DEF Configs
<1>8. MayStill(N)' = b
  BY <1>1, <1>6 DEF MayStill
<1>9. th' = [t \in Threads |-> th'[t]] /\ ReqOK'
  BY <1>1, <1>4 DEF Core, ReqOK, Ops
<1>10. A \in [Threads -> SUBSET Nat] /\ N \in SUBSET Threads
  BY DEF Core
<1> QED  BY <1>3, <1>4, <1>5, <1>6, <1>7, <1>8, <1>9, <1>10 DEF Core

LEMMA CoreStutters ==
    ASSUME ListAssumption, NEW L, NEW A, NEW N, Core(L, A, N), UNCHANGED vars
    PROVE  Core(L, A, N)'
<1>1. UNCHANGED <<mem, th, req, lin>>
  BY DEF vars
<1>2. Calm(L, A)
  BY <1>1, StillCalm
<1> HIDE DEF Core
<1> QED  BY <1>1, <1>2, CoreCalm

\* Somebody is in an operation.
LEMMA BusyAt ==
    ASSUME NEW t, th[t].pc \in {"search", "validate", "look", "pass", "delete_right", "step",
                                "found", "link", "mark", "unlink", "return"}
    PROVE  Busy(t)
BY DEF Busy, Idle

CoreHolds == \E L, A, N : Core(L, A, N)
AllForUpdate == \A t \in Threads : Busy(t) => th[t].then = "found"

\* An insert whose compare-and-swap is on the link of left_node.
LEMMA LinksNew ==
    ASSUME ListAssumption, NEW L, NEW A, NEW N, Core(L, A, N), NEW t \in Threads, LinkNew(t)
    PROVE  CoreHolds'
<1>1. th[t].pc = "found" /\ req[t].op = "insert" /\ ~IsThere(t) /\ Busy(t)
  BY BusyAt DEF LinkNew, Found
<1>2. CASE MayLink(t) /\ mem' = Linked(node(req[t].key, Right(t)), Left(t)) /\ Return(t, "yes")
  <2>1. PICK w, r, k, y : w = Left(t) /\ r = Right(t) /\ k = req[t].key /\ y = Fresh
    OBVIOUS
  <2>2. /\ w \in DOMAIN mem /\ r \in Nat /\ k \in Nat /\ MemTyped /\ L \subseteq DOMAIN mem
        /\ \A u \in Threads : Busy(u) => A[u] \subseteq DOMAIN mem
    <3>1. \A u \in Threads : Busy(u) => A[u] \subseteq DOMAIN mem
      BY DEF Core, Met
    <3> QED  BY <1>1, <2>1, <3>1, BusyPlace, TMeets
  <2>3. y \in Nat /\ y \notin DOMAIN mem /\ Links(w, y, k, r)
    BY <1>2, <2>1, <2>2, LinkedAre
  <2>4. mem[Left(t)].next = <<Right(t), 0>>
    BY <1>2 DEF MayLink
  <2>5. y \notin L /\ \A u \in Threads : Busy(u) => y \notin A[u]
    BY <2>2, <2>3
  <2> HIDE DEF Core
  <2>6. Links(Left(t), y, req[t].key, Right(t))
    BY <2>1, <2>3
  <2>7. Core(L \cup {y}, [u \in Threads |-> A[u] \cup {y}], N)'
    BY <1>1, <1>2, <2>3, <2>4, <2>5, <2>6, LinkHome
  <2> QED  BY <2>7 DEF CoreHolds
<1>3. CASE CASFails(Left(t), <<Right(t), 0>>) /\ Again(t)
  <2>1. UNCHANGED mem
    BY <1>3 DEF CASFails
  <2>2. ~Decided(th[t])
    BY <1>1, BusyPlace DEF Fine, Decided
  <2> HIDE DEF Core
  <2> QED  BY <1>1, <1>3, <2>1, <2>2, StartsAgain DEF CoreHolds
<1> QED  BY <1>2, <1>3 DEF LinkNew

\* What MichaelList's actions say in terms of ListSet.
LEMMA MichaelActions ==
    ASSUME NEW t
    PROVE  /\ Michael!Enter(t) =>
                 /\ th[t].pc = "search" /\ UNCHANGED mem
                 /\ On(t, Locals("validate", head, Succ(head), <<head, 0>>))
           /\ Michael!Validate(t) =>
                 /\ th[t].pc = "validate" /\ UNCHANGED mem
                 /\ IF mem[Left(t)].next = <<Right(t), 0>> THEN Goto(t, "look") ELSE Again(t)
           /\ Michael!Look(t) =>
                 /\ th[t].pc = "look" /\ UNCHANGED mem
                 /\ IF Marked(mem[Right(t)].next) THEN Goto(t, "delete_right")
                    ELSE IF Key(Right(t)) >= req[t].key THEN Goto(t, "found")
                    ELSE On(t, [th[t] EXCEPT !.pc = "step", !.left = Right(t)])
           /\ Michael!DeleteRight(t) =>
                 /\ th[t].pc = "delete_right"
                 /\ \/ /\ CAS(Left(t), <<Right(t), 0>>, Unmarked(mem[Right(t)].next))
                       /\ Goto(t, "step")
                    \/ CASFails(Left(t), <<Right(t), 0>>) /\ Again(t)
           /\ Michael!Step(t) =>
                 /\ th[t].pc = "step" /\ UNCHANGED mem
                 /\ On(t, [th[t] EXCEPT !.pc = "validate", !.right = Succ(Right(t))])
           /\ Michael!michael_find(t) =>
                 /\ Found(t, "find") /\ UNCHANGED mem
                 /\ Return(t, IF IsThere(t) /\ ~Marked(mem[Right(t)].next) THEN "yes" ELSE "no")
           /\ Michael!ReadNext(t) =>
                 /\ Found(t, "delete") /\ IsThere(t) /\ UNCHANGED mem
                 /\ On(t, [th[t] EXCEPT !.pc = "mark",
                                        !.link = Unmarked(mem[Right(t)].next)])
           /\ Michael!Mark(t) => MarkRight(t, "unlink")
           /\ Michael!physical_delete_right(t) =>
                 /\ th[t].pc = "unlink" /\ Return(t, "yes")
                 /\ \/ CAS(Left(t), <<Right(t), 0>>, Unmarked(mem[Right(t)].next))
                    \/ CASFails(Left(t), <<Right(t), 0>>)
<1>1. Michael!Enter(t) =>
         /\ th[t].pc = "search" /\ UNCHANGED mem
         /\ On(t, Locals("validate", head, Succ(head), <<head, 0>>))
  BY MichaelShares, Zenon DEF Michael!Enter
<1>2. Michael!Validate(t) =>
         /\ th[t].pc = "validate" /\ UNCHANGED mem
         /\ IF mem[Left(t)].next = <<Right(t), 0>> THEN Goto(t, "look") ELSE Again(t)
  BY MichaelShares, Zenon DEF Michael!Validate, Michael!InPlace
<1>3. Michael!Look(t) =>
         /\ th[t].pc = "look" /\ UNCHANGED mem
         /\ IF Marked(mem[Right(t)].next) THEN Goto(t, "delete_right")
            ELSE IF Key(Right(t)) >= req[t].key THEN Goto(t, "found")
            ELSE On(t, [th[t] EXCEPT !.pc = "step", !.left = Right(t)])
  BY MichaelShares, Zenon DEF Michael!Look
<1>4. Michael!DeleteRight(t) =>
         /\ th[t].pc = "delete_right"
         /\ \/ /\ CAS(Left(t), <<Right(t), 0>>, Unmarked(mem[Right(t)].next))
               /\ Goto(t, "step")
            \/ CASFails(Left(t), <<Right(t), 0>>) /\ Again(t)
  BY MichaelShares, Zenon DEF Michael!DeleteRight
<1>5. Michael!Step(t) =>
         /\ th[t].pc = "step" /\ UNCHANGED mem
         /\ On(t, [th[t] EXCEPT !.pc = "validate", !.right = Succ(Right(t))])
  BY MichaelShares, Zenon DEF Michael!Step
<1>6. Michael!michael_find(t) =>
         /\ Found(t, "find") /\ UNCHANGED mem
         /\ Return(t, IF IsThere(t) /\ ~Marked(mem[Right(t)].next) THEN "yes" ELSE "no")
  BY MichaelShares, Zenon DEF Michael!michael_find
<1>7. Michael!ReadNext(t) =>
         /\ Found(t, "delete") /\ IsThere(t) /\ UNCHANGED mem
         /\ On(t, [th[t] EXCEPT !.pc = "mark", !.link = Unmarked(mem[Right(t)].next)])
  BY MichaelShares, Zenon DEF Michael!ReadNext
<1>8. Michael!Mark(t) => MarkRight(t, "unlink")
  BY MichaelShares, Zenon DEF Michael!Mark
<1>9. Michael!physical_delete_right(t) =>
         /\ th[t].pc = "unlink" /\ Return(t, "yes")
         /\ \/ CAS(Left(t), <<Right(t), 0>>, Unmarked(mem[Right(t)].next))
            \/ CASFails(Left(t), <<Right(t), 0>>)
  BY MichaelShares, Zenon DEF Michael!physical_delete_right
<1> QED  BY <1>1, <1>2, <1>3, <1>4, <1>5, <1>6, <1>7, <1>8, <1>9

LEMMA OptActions ==
    ASSUME NEW t
    PROVE  /\ Michael!OptEnter(t) =>
                 /\ th[t].pc = "search" /\ UNCHANGED mem
                 /\ On(t, Locals(IF req[t].op = "find" THEN "pass" ELSE "look",
                                 head, Succ(head), <<head, 0>>))
           /\ Michael!OptDeleteRight(t) =>
                 /\ th[t].pc = "delete_right" /\ Goto(t, "step")
                 /\ \/ CAS(Left(t), <<Right(t), 0>>, Unmarked(mem[Right(t)].next))
                    \/ CASFails(Left(t), <<Right(t), 0>>)
           /\ Michael!OptStep(t) =>
                 /\ th[t].pc = "step" /\ UNCHANGED mem
                 /\ On(t, [th[t] EXCEPT !.pc = "look", !.right = Succ(Right(t))])
           /\ Michael!Pass(t) =>
                 /\ th[t].pc = "pass" /\ Key(Right(t)) < req[t].key /\ UNCHANGED mem
                 /\ On(t, [th[t] EXCEPT !.right = Succ(Right(t))])
           /\ Michael!harris_find(t) =>
                 /\ th[t].pc = "pass" /\ Key(Right(t)) >= req[t].key /\ UNCHANGED mem
                 /\ Return(t, IF IsThere(t) /\ ~Marked(mem[Right(t)].next) THEN "yes" ELSE "no")
<1>1. Michael!OptEnter(t) =>
         /\ th[t].pc = "search" /\ UNCHANGED mem
         /\ On(t, Locals(IF req[t].op = "find" THEN "pass" ELSE "look",
                         head, Succ(head), <<head, 0>>))
  BY MichaelShares, Zenon DEF Michael!OptEnter
<1>2. Michael!OptDeleteRight(t) =>
         /\ th[t].pc = "delete_right" /\ Goto(t, "step")
         /\ \/ CAS(Left(t), <<Right(t), 0>>, Unmarked(mem[Right(t)].next))
            \/ CASFails(Left(t), <<Right(t), 0>>)
  BY MichaelShares, Zenon DEF Michael!OptDeleteRight
<1>3. Michael!OptStep(t) =>
         /\ th[t].pc = "step" /\ UNCHANGED mem
         /\ On(t, [th[t] EXCEPT !.pc = "look", !.right = Succ(Right(t))])
  BY MichaelShares, Zenon DEF Michael!OptStep
<1>4. Michael!Pass(t) =>
         /\ th[t].pc = "pass" /\ Key(Right(t)) < req[t].key /\ UNCHANGED mem
         /\ On(t, [th[t] EXCEPT !.right = Succ(Right(t))])
  BY MichaelShares, Zenon DEF Michael!Pass
<1>5. Michael!harris_find(t) =>
         /\ th[t].pc = "pass" /\ Key(Right(t)) >= req[t].key /\ UNCHANGED mem
         /\ Return(t, IF IsThere(t) /\ ~Marked(mem[Right(t)].next) THEN "yes" ELSE "no")
  BY MichaelShares, Zenon DEF Michael!harris_find, Michael!IsIn
<1> QED  BY <1>1, <1>2, <1>3, <1>4, <1>5

\* Of one thread the place changes, to one from where a search goes to "found".
Simply(t) == \E s : Moves(t, s) /\ (s = Idle \/ s.then = "found")

LEMMA AllForUpdateKept ==
    ASSUME NEW L, NEW A, NEW N, Core(L, A, N), AllForUpdate, NEW t \in Threads, Simply(t)
    PROVE  AllForUpdate'
<1>1. PICK s : Moves(t, s) /\ (s = Idle \/ s.then = "found")
  BY DEF Simply
<1>2. th'[t] = s /\ \A u \in Threads \ {t} : th'[u] = th[u]
  BY <1>1, MovesIs DEF Core
<1>3. ASSUME NEW u \in Threads, Busy(u)' PROVE th'[u].then = "found"
  <2>1. CASE u = t
    BY <1>1, <1>2, <1>3, <2>1 DEF Busy
  <2>2. CASE u # t
    BY <1>2, <1>3, <2>2 DEF Busy, AllForUpdate
  <2> QED  BY <2>1, <2>2
<1> QED  BY <1>3 DEF AllForUpdate

LEMMA SimplyReturns == ASSUME NEW t, NEW y, Return(t, y) PROVE Simply(t)
BY DEF Return, Simply, Moves

LEMMA SimplyAgain == ASSUME NEW t, Again(t) PROVE Simply(t)
<1>1. PICK s : s = Locals("search", head, head, <<head, 0>>)
  OBVIOUS
<1>2. Moves(t, s) /\ s.then = "found"
  BY <1>1 DEF Again, On, Moves, Locals
<1> QED  BY <1>2 DEF Simply

LEMMA SimplyOn ==
    ASSUME NEW t, NEW s, s.then = "found", On(t, s)
    PROVE  Simply(t)
BY DEF On, Simply, Moves

LEMMA SimplyGoto ==
    ASSUME NEW L, NEW A, NEW N, Core(L, A, N), AllForUpdate, NEW t \in Threads, Busy(t),
           NEW p, Goto(t, p)
    PROVE  Simply(t)
<1>1. th[t] \in Places /\ th[t].then = "found"
  BY DEF Core, Fine, AllForUpdate
<1>2. [th[t] EXCEPT !.pc = p].then = "found"
  BY <1>1, PlaceWithPc
<1> QED  BY <1>2, SimplyOn DEF Goto

LEMMA SimplyBegins == ASSUME NEW t, BeginSearch(t) PROVE Simply(t)
<1>1. PICK s : s = Locals("search", head, head, <<head, 0>>)
  OBVIOUS
<1>2. Moves(t, s)
  BY <1>1 DEF BeginSearch, Call, Moves
<1>3. s.then = "found"
  BY <1>1 DEF Locals
<1> QED  BY <1>2, <1>3 DEF Simply

\* The steps that both lists have.
SharedStep(t) ==
    \/ BeginSearch(t) \/ NothingToDo(t) \/ LinkNew(t) \/ Michael!Look(t)
    \/ Michael!ReadNext(t) \/ Michael!Mark(t) \/ Michael!physical_delete_right(t)

LEMMA SharedStepKeeps ==
    ASSUME ListAssumption, NEW L, NEW A, NEW N, Core(L, A, N), AllForUpdate, NEW t \in Threads,
           SharedStep(t)
    PROVE  CoreHolds' /\ AllForUpdate'
<1>1. SUFFICES CoreHolds' /\ Simply(t)
  BY AllForUpdateKept
<1>2. PICK r : r = Right(t)
  OBVIOUS
<1>3. CASE BeginSearch(t)
  <2> HIDE DEF Core
  <2>1. \E N2 : Core(L, [A EXCEPT ![t] = L], N2)'
    BY <1>3, Begin
  <2> QED  BY <1>3, <2>1, SimplyBegins DEF CoreHolds
<1>4. CASE NothingToDo(t)
  <2>1. Busy(t)
    BY <1>4, BusyAt DEF NothingToDo, Found
  <2> HIDE DEF Core
  <2>2. Core(L, A, N)'
    BY <1>4, <2>1, NothingAnswers
  <2> QED  BY <1>4, <2>2, SimplyReturns DEF CoreHolds, NothingToDo
<1>5. CASE LinkNew(t)
  <2>1. CoreHolds'
    BY <1>5, LinksNew
  <2> QED  BY <1>5, <2>1, SimplyReturns, SimplyAgain DEF LinkNew
<1>6. CASE Michael!Look(t)
  <2>1. /\ th[t].pc = "look" /\ UNCHANGED mem
        /\ IF Marked(mem[Right(t)].next) THEN Goto(t, "delete_right")
           ELSE IF Key(Right(t)) >= req[t].key THEN Goto(t, "found")
           ELSE On(t, [th[t] EXCEPT !.pc = "step", !.left = Right(t)])
    BY <1>6, MichaelActions
  <2>2. Busy(t) /\ th[t].then = "found" /\ th[t] \in Places
    BY <2>1, BusyAt, BusyPlace DEF AllForUpdate
  <2>3. [th[t] EXCEPT !.pc = "step", !.left = Right(t)].then = "found"
    BY <2>2 DEF Places
  <2> HIDE DEF Core
  <2>4. \E N2 : Core(L, A, N2)'
    BY <2>1, <2>2, Looks
  <2> QED  BY <2>1, <2>2, <2>3, <2>4, SimplyGoto, SimplyOn DEF CoreHolds
<1>7. CASE Michael!ReadNext(t)
  <2>1. /\ Found(t, "delete") /\ IsThere(t) /\ UNCHANGED mem
        /\ On(t, [th[t] EXCEPT !.pc = "mark", !.link = Unmarked(mem[Right(t)].next)])
    BY <1>7, MichaelActions
  <2>2. Busy(t) /\ th[t].then = "found" /\ th[t] \in Places
    BY <2>1, BusyAt, BusyPlace DEF AllForUpdate, Found
  <2>3. [th[t] EXCEPT !.pc = "mark", !.link = Unmarked(mem[Right(t)].next)].then = "found"
    BY <2>2 DEF Places
  <2> HIDE DEF Core
  <2>4. \E N2 : Core(L, A, N2)'
    BY <2>1, <2>2, ReadsNext
  <2> QED  BY <2>1, <2>3, <2>4, SimplyOn DEF CoreHolds
<1>8. CASE Michael!Mark(t)
  <2>1. MarkRight(t, "unlink")
    BY <1>8, MichaelActions
  <2>2. Busy(t)
    BY <2>1, BusyAt DEF MarkRight
  <2> HIDE DEF Core
  <2>3. \E N2 : Core(L, A, N2)'
    BY <2>1, <2>2, Marks
  <2>4. Simply(t)
    BY <2>1, <2>2, SimplyGoto, SimplyAgain DEF MarkRight
  <2> QED  BY <2>3, <2>4 DEF CoreHolds
<1>9. CASE Michael!physical_delete_right(t)
  <2>1. /\ th[t].pc = "unlink" /\ Return(t, "yes")
        /\ \/ CAS(Left(t), <<r, 0>>, Unmarked(mem[r].next))
           \/ CASFails(Left(t), <<r, 0>>)
    BY <1>2, <1>9, MichaelActions
  <2>2. Busy(t)
    BY <2>1, BusyAt
  <2> HIDE DEF Core
  <2>3. CASE CAS(Left(t), <<r, 0>>, Unmarked(mem[r].next))
    <3>1. \E N2 : Core(L \ {r}, A, N2)'
      BY <1>2, <2>1, <2>2, <2>3, DeleteReturns
    <3> QED  BY <2>1, <3>1, SimplyReturns DEF CoreHolds
  <2>4. CASE CASFails(Left(t), <<r, 0>>)
    <3>1. Core(L, A, N)'
      BY <1>2, <2>1, <2>2, <2>4, DeleteReturns DEF CASFails
    <3> QED  BY <2>1, <3>1, SimplyReturns DEF CoreHolds
  <2> QED  BY <2>1, <2>3, <2>4
<1> QED  BY <1>3, <1>4, <1>5, <1>6, <1>7, <1>8, <1>9 DEF SharedStep

LEMMA MichaelStep ==
    ASSUME ListAssumption, NEW L, NEW A, NEW N, Core(L, A, N), AllForUpdate, NEW t \in Threads,
           \/ Michael!Enter(t) \/ Michael!Validate(t) \/ Michael!DeleteRight(t)
           \/ Michael!Step(t) \/ Michael!michael_find(t)
    PROVE  CoreHolds' /\ AllForUpdate'
<1>1. SUFFICES CoreHolds' /\ Simply(t)
  BY AllForUpdateKept
<1>2. PICK r : r = Right(t)
  OBVIOUS
<1>3. CASE Michael!Enter(t)
  <2>1. /\ th[t].pc = "search" /\ UNCHANGED mem
        /\ On(t, Locals("validate", head, Succ(head), <<head, 0>>))
    BY <1>3, MichaelActions
  <2>2. Busy(t) /\ th[t].then = "found"
    BY <2>1, BusyAt DEF AllForUpdate
  <2>3. PICK p : p = "validate"
    OBVIOUS
  <2>4. [Locals(p, head, Succ(head), <<head, 0>>) EXCEPT !.then = th[t].then]
          = Locals(p, head, Succ(head), <<head, 0>>)
        /\ Locals(p, head, Succ(head), <<head, 0>>).then = "found"
    BY <2>2 DEF Locals
  <2>5. p \in {"validate", "look", "pass"}
    BY <2>3
  <2>6. /\ On(t, [Locals(p, head, Succ(head), <<head, 0>>) EXCEPT !.then = th[t].then])
        /\ On(t, Locals(p, head, Succ(head), <<head, 0>>))
    BY <2>1, <2>3, <2>4
  <2> HIDE DEF Core
  <2>7. \E N2 : Core(L, A, N2)'
    BY <2>1, <2>2, <2>3, <2>5, <2>6, Enters
  <2> QED  BY <2>4, <2>6, <2>7, SimplyOn DEF CoreHolds
<1>4. CASE Michael!Validate(t)
  <2>1. /\ th[t].pc = "validate" /\ UNCHANGED mem
        /\ IF mem[Left(t)].next = <<Right(t), 0>> THEN Goto(t, "look") ELSE Again(t)
    BY <1>4, MichaelActions
  <2>2. Busy(t) /\ th[t].then = "found" /\ ~Decided(th[t])
    BY <2>1, BusyAt DEF AllForUpdate, Decided
  <2> HIDE DEF Core
  <2>3. CASE mem[Left(t)].next = <<Right(t), 0>>
    <3>1. \E N2 : Core(L, A, N2)'
      BY <2>1, <2>2, <2>3, Validates
    <3> QED  BY <2>1, <2>2, <2>3, <3>1, SimplyGoto DEF CoreHolds
  <2>4. CASE mem[Left(t)].next # <<Right(t), 0>>
    <3>1. \E N2 : Core(L, A, N2)'
      BY <2>1, <2>2, <2>4, StartsAgain
    <3> QED  BY <2>1, <2>4, <3>1, SimplyAgain DEF CoreHolds
  <2> QED  BY <2>3, <2>4
<1>5. CASE Michael!DeleteRight(t)
  <2>1. /\ th[t].pc = "delete_right"
        /\ \/ CAS(Left(t), <<r, 0>>, Unmarked(mem[r].next)) /\ Goto(t, "step")
           \/ CASFails(Left(t), <<r, 0>>) /\ Again(t)
    BY <1>2, <1>5, MichaelActions
  <2>2. Busy(t) /\ th[t].then = "found" /\ ~Decided(th[t])
    BY <2>1, BusyAt DEF AllForUpdate, Decided
  <2> HIDE DEF Core
  <2>3. CASE CAS(Left(t), <<r, 0>>, Unmarked(mem[r].next)) /\ Goto(t, "step")
    <3>1. \E N2 : Core(L \ {r}, A, N2)'
      BY <1>2, <2>1, <2>2, <2>3, GoesToStep
    <3> QED  BY <2>2, <2>3, <3>1, SimplyGoto DEF CoreHolds
  <2>4. CASE CASFails(Left(t), <<r, 0>>) /\ Again(t)
    <3>1. \E N2 : Core(L, A, N2)'
      BY <2>2, <2>4, StartsAgain DEF CASFails
    <3> QED  BY <2>4, <3>1, SimplyAgain DEF CoreHolds
  <2> QED  BY <2>1, <2>3, <2>4
<1>6. CASE Michael!Step(t)
  <2>1. PICK p : p = "validate"
    OBVIOUS
  <2>2. /\ th[t].pc = "step" /\ UNCHANGED mem
        /\ On(t, [th[t] EXCEPT !.pc = p, !.right = Succ(Right(t))])
    BY <1>6, <2>1, MichaelActions
  <2>3. Busy(t) /\ th[t].then = "found" /\ th[t] \in Places
    BY <2>2, BusyAt, BusyPlace DEF AllForUpdate
  <2>4. [th[t] EXCEPT !.pc = p, !.right = Succ(Right(t))].then = "found"
    BY <2>3 DEF Places
  <2> HIDE DEF Core
  <2>5. \E N2 : Core(L, A, N2)'
    BY <2>1, <2>2, <2>3, Advances
  <2> QED  BY <2>2, <2>4, <2>5, SimplyOn DEF CoreHolds
<1>7. CASE Michael!michael_find(t)
  <2>1. /\ th[t].pc = "found" /\ req[t].op = "find" /\ UNCHANGED mem
        /\ Return(t, IF IsThere(t) /\ ~Marked(mem[Right(t)].next) THEN "yes" ELSE "no")
    BY <1>7, MichaelActions DEF Found
  <2>2. Busy(t)
    BY <2>1, BusyAt
  <2>3. req[t].key <= Key(Right(t))
    BY <2>1, <2>2, BusyPlace DEF Fine
  <2> HIDE DEF Core
  <2>4. Core(L, A, N)'
    BY <2>1, <2>2, <2>3, FindsAnswer
  <2> QED  BY <2>1, <2>4, SimplyReturns DEF CoreHolds
<1> QED  BY <1>3, <1>4, <1>5, <1>6, <1>7

LEMMA OptStepKeeps ==
    ASSUME ListAssumption, NEW L, NEW A, NEW N, Core(L, A, N), AllForUpdate, NEW t \in Threads,
           \/ Michael!OptEnter(t) \/ Michael!OptDeleteRight(t) \/ Michael!OptStep(t)
           \/ Michael!Pass(t) \/ Michael!harris_find(t)
    PROVE  CoreHolds' /\ AllForUpdate'
<1>1. SUFFICES CoreHolds' /\ Simply(t)
  BY AllForUpdateKept
<1>2. PICK r : r = Right(t)
  OBVIOUS
<1>3. CASE Michael!OptEnter(t)
  <2>1. PICK p : p = IF req[t].op = "find" THEN "pass" ELSE "look"
    OBVIOUS
  <2>2. /\ th[t].pc = "search" /\ UNCHANGED mem
        /\ On(t, Locals(p, head, Succ(head), <<head, 0>>))
    BY <1>3, <2>1, MichaelActions, OptActions
  <2>3. Busy(t) /\ th[t].then = "found" /\ p \in {"validate", "look", "pass"}
    BY <2>1, <2>2, BusyAt DEF AllForUpdate
  <2>4. [Locals(p, head, Succ(head), <<head, 0>>) EXCEPT !.then = th[t].then]
          = Locals(p, head, Succ(head), <<head, 0>>)
        /\ Locals(p, head, Succ(head), <<head, 0>>).then = "found"
    BY <2>3 DEF Locals
  <2>5. On(t, [Locals(p, head, Succ(head), <<head, 0>>) EXCEPT !.then = th[t].then])
    BY <2>2, <2>4
  <2> HIDE DEF Core
  <2>6. \E N2 : Core(L, A, N2)'
    BY <2>1, <2>2, <2>3, <2>5, Enters
  <2> QED  BY <2>2, <2>4, <2>6, SimplyOn DEF CoreHolds
<1>4. CASE Michael!OptDeleteRight(t)
  <2>1. /\ th[t].pc = "delete_right" /\ Goto(t, "step")
        /\ \/ CAS(Left(t), <<r, 0>>, Unmarked(mem[r].next))
           \/ CASFails(Left(t), <<r, 0>>)
    BY <1>2, <1>4, OptActions
  <2>2. Busy(t)
    BY <2>1, BusyAt
  <2>3. Simply(t)
    BY <2>1, <2>2, SimplyGoto
  <2> HIDE DEF Core
  <2>4. CASE CAS(Left(t), <<r, 0>>, Unmarked(mem[r].next))
    <3>1. \E N2 : Core(L \ {r}, A, N2)'
      BY <1>2, <2>1, <2>2, <2>4, GoesToStep
    <3> QED  BY <2>3, <3>1 DEF CoreHolds
  <2>5. CASE CASFails(Left(t), <<r, 0>>)
    <3>1. \E N2 : Core(L, A, N2)'
      BY <1>2, <2>1, <2>2, <2>5, GoesToStep DEF CASFails
    <3> QED  BY <2>3, <3>1 DEF CoreHolds
  <2> QED  BY <2>1, <2>4, <2>5
<1>5. CASE Michael!OptStep(t)
  <2>1. PICK p : p = "look"
    OBVIOUS
  <2>2. /\ th[t].pc = "step" /\ UNCHANGED mem
        /\ On(t, [th[t] EXCEPT !.pc = p, !.right = Succ(Right(t))])
    BY <1>5, <2>1, OptActions
  <2>3. Busy(t) /\ th[t].then = "found" /\ th[t] \in Places
    BY <2>2, BusyAt, BusyPlace DEF AllForUpdate
  <2>4. [th[t] EXCEPT !.pc = p, !.right = Succ(Right(t))].then = "found"
    BY <2>3 DEF Places
  <2> HIDE DEF Core
  <2>5. \E N2 : Core(L, A, N2)'
    BY <2>1, <2>2, <2>3, Advances
  <2> QED  BY <2>2, <2>4, <2>5, SimplyOn DEF CoreHolds
<1>6. CASE Michael!Pass(t)
  <2>1. PICK p : p = "pass"
    OBVIOUS
  <2>2. /\ th[t].pc = "pass" /\ Key(Right(t)) < req[t].key /\ UNCHANGED mem
        /\ On(t, [th[t] EXCEPT !.right = Succ(Right(t))])
    BY <1>6, OptActions
  <2>3. Busy(t) /\ th[t].then = "found" /\ th[t] \in Places
    BY <2>2, BusyAt, BusyPlace DEF AllForUpdate
  <2>4. /\ [th[t] EXCEPT !.pc = p, !.right = Succ(Right(t))].then = "found"
        /\ [th[t] EXCEPT !.pc = p, !.right = Succ(Right(t))]
             = [th[t] EXCEPT !.right = Succ(Right(t))]
    BY <2>1, <2>2, <2>3 DEF Places
  <2>5. On(t, [th[t] EXCEPT !.pc = p, !.right = Succ(Right(t))])
    BY <2>2, <2>4
  <2> HIDE DEF Core
  <2>6. \E N2 : Core(L, A, N2)'
    BY <2>1, <2>2, <2>3, <2>5, Advances
  <2> QED  BY <2>4, <2>5, <2>6, SimplyOn DEF CoreHolds
<1>7. CASE Michael!harris_find(t)
  <2>1. /\ th[t].pc = "pass" /\ Key(Right(t)) >= req[t].key /\ UNCHANGED mem
        /\ Return(t, IF IsThere(t) /\ ~Marked(mem[Right(t)].next) THEN "yes" ELSE "no")
    BY <1>7, OptActions
  <2>2. Busy(t)
    BY <2>1, BusyAt
  <2>3. req[t].key <= Key(Right(t)) /\ req[t].op = "find"
    BY <2>1, <2>2, BusyPlace, TMeets DEF Fine
  <2> HIDE DEF Core
  <2>4. Core(L, A, N)'
    BY <2>1, <2>2, <2>3, FindsAnswer
  <2> QED  BY <2>1, <2>4, SimplyReturns DEF CoreHolds
<1> QED  BY <1>3, <1>4, <1>5, <1>6, <1>7

LEMMA CoreIsEnough == ASSUME ListAssumption, CoreHolds PROVE Linearizable
<1>1. PICK L, A, N : Core(L, A, N)
  BY DEF CoreHolds
<1>2. PICK S, b : S = Holds(L) /\ b = MayStill(N)
  OBVIOUS
<1>3. \A t \in Threads : \E a \in Answers : a \in b[t]
  BY <1>2 DEF MayStill, StillAnswers, Answers
<1> QED  BY <1>1, <1>2, <1>3, CoreIs, FeasibleIsEnough

LEMMA FirstAndLast ==
    ASSUME ListAssumption
    PROVE  /\ Init => CoreHolds /\ AllForUpdate
           /\ CoreHolds /\ AllForUpdate /\ (UNCHANGED vars \/ AllDone)
                 => CoreHolds' /\ AllForUpdate'
<1>1. ASSUME Init PROVE CoreHolds /\ AllForUpdate
  BY <1>1, CoreFirst DEF CoreHolds, AllForUpdate
<1>2. ASSUME CoreHolds, AllForUpdate, UNCHANGED vars \/ AllDone
      PROVE  CoreHolds' /\ AllForUpdate'
  <2>1. PICK L, A, N : Core(L, A, N)
    BY <1>2 DEF CoreHolds
  <2>2. UNCHANGED vars
    BY <1>2 DEF AllDone
  <2> HIDE DEF Core
  <2>3. Core(L, A, N)'
    BY <2>1, <2>2, CoreStutters
  <2>4. AllForUpdate'
    BY <1>2, <2>2 DEF AllForUpdate, Busy, vars
  <2> QED  BY <2>3, <2>4 DEF CoreHolds
<1> QED  BY <1>1, <1>2

\* Michael's list (src/src/linkedlist-michael/michael.c) is a linearizable set, for any
\* number of threads, keys and calls: every answer of michael_find, michael_insert and
\* michael_delete is that of a set to which the operations are applied one after the
\* other, each between its call and its return.
THEOREM MichaelLinearizable ==
    ASSUME ListAssumption PROVE Michael!Spec => []Michael!Linearizable
<1>1. Michael!Init => CoreHolds /\ AllForUpdate
  BY MichaelShares, FirstAndLast
<1>2. CoreHolds /\ AllForUpdate /\ [Michael!Next]_Michael!vars => CoreHolds' /\ AllForUpdate'
  <2> SUFFICES ASSUME CoreHolds, AllForUpdate, [Michael!Next]_Michael!vars
               PROVE  CoreHolds' /\ AllForUpdate'
    OBVIOUS
  <2>1. PICK L, A, N : Core(L, A, N)
    BY DEF CoreHolds
  <2>2. CASE UNCHANGED vars \/ AllDone
    BY <2>2, FirstAndLast
  <2> HIDE DEF Core
  <2>3. ASSUME NEW t \in Threads,
               \/ SharedStep(t) \/ Michael!Enter(t) \/ Michael!Validate(t)
               \/ Michael!DeleteRight(t) \/ Michael!Step(t) \/ Michael!michael_find(t)
        PROVE  CoreHolds' /\ AllForUpdate'
    BY <2>1, <2>3, SharedStepKeeps, MichaelStep
  <2>4. CASE Michael!Next
    <3>1. \/ AllDone
          \/ \E t \in Threads :
                \/ SharedStep(t) \/ Michael!Enter(t) \/ Michael!Validate(t)
                \/ Michael!DeleteRight(t) \/ Michael!Step(t) \/ Michael!michael_find(t)
      BY <2>4, MichaelShares, Zenon DEF Michael!Next, Michael!michael_insert, SharedStep
    <3> QED  BY <2>2, <2>3, <3>1
  <2>5. CASE UNCHANGED Michael!vars
    BY <2>2, <2>5 DEF Michael!vars, vars
  <2> QED  BY <2>4, <2>5
<1>3. CoreHolds => Michael!Linearizable
  BY CoreIsEnough, MichaelShares
<1> QED  BY <1>1, <1>2, <1>3, PTL DEF Michael!Spec

\* So is the list of src/src/linkedlist-harris_opt/harris_opt.c, whose searches never
\* start over and whose finds pass by marks.
THEOREM HarrisOptLinearizable ==
    ASSUME ListAssumption PROVE Michael!OptSpec => []Michael!Linearizable
<1>1. Michael!Init => CoreHolds /\ AllForUpdate
  BY MichaelShares, FirstAndLast
<1>2. CoreHolds /\ AllForUpdate /\ [Michael!OptNext]_Michael!vars => CoreHolds' /\ AllForUpdate'
  <2> SUFFICES ASSUME CoreHolds, AllForUpdate, [Michael!OptNext]_Michael!vars
               PROVE  CoreHolds' /\ AllForUpdate'
    OBVIOUS
  <2>1. PICK L, A, N : Core(L, A, N)
    BY DEF CoreHolds
  <2>2. CASE UNCHANGED vars \/ AllDone
    BY <2>2, FirstAndLast
  <2> HIDE DEF Core
  <2>3. ASSUME NEW t \in Threads,
               \/ SharedStep(t) \/ Michael!OptEnter(t) \/ Michael!OptDeleteRight(t)
               \/ Michael!OptStep(t) \/ Michael!Pass(t) \/ Michael!harris_find(t)
        PROVE  CoreHolds' /\ AllForUpdate'
    BY <2>1, <2>3, SharedStepKeeps, OptStepKeeps
  <2>4. CASE Michael!OptNext
    <3>1. \/ AllDone
          \/ \E t \in Threads :
                \/ SharedStep(t) \/ Michael!OptEnter(t) \/ Michael!OptDeleteRight(t)
                \/ Michael!OptStep(t) \/ Michael!Pass(t) \/ Michael!harris_find(t)
      BY <2>4, MichaelShares, Zenon
         DEF Michael!OptNext, Michael!harris_insert, Michael!harris_delete, SharedStep
    <3> QED  BY <2>2, <2>3, <3>1
  <2>5. CASE UNCHANGED Michael!vars
    BY <2>2, <2>5 DEF Michael!vars, vars
  <2> QED  BY <2>4, <2>5
<1>3. CoreHolds => Michael!Linearizable
  BY CoreIsEnough, MichaelShares
<1> QED  BY <1>1, <1>2, <1>3, PTL DEF Michael!OptSpec

-----------------------------------------------------------------------------
(* linkedlist-qsbr-harris_opt: nodes are retired, freed and used again.      *)

\* As QsbrLists sees it.
LEMMA GraceShares ==
    /\ \A t, s : Grace!On(t, s) <=> On(t, s)
    /\ \A t, l : Grace!Goto(t, l) <=> Goto(t, l)
    /\ \A t : Grace!Again(t) <=> Again(t)
    /\ \A t, a : Grace!Return(t, a) <=> Return(t, a)
    /\ \A n, l, m : (Grace!CAS(n, l, m) <=> CAS(n, l, m)) /\ (Grace!CASFails(n, l) <=> CASFails(n, l))
    /\ \A t, l : Grace!MarkRight(t, l) <=> MarkRight(t, l)
    /\ \A t, o : Grace!Found(t, o) <=> Found(t, o)
    /\ \A t : (Grace!IsThere(t) <=> IsThere(t)) /\ Grace!Left(t) = Left(t) /\ Grace!Right(t) = Right(t)
    /\ \A n : Grace!Key(n) = Key(n) /\ Grace!Succ(n) = Succ(n)
    /\ \A l : (Grace!Marked(l) <=> Marked(l)) /\ Grace!Unmarked(l) = Unmarked(l)
    /\ \A s, l, r, k : Grace!Locals(s, l, r, k) = Locals(s, l, r, k)
    /\ Grace!head = head
    /\ \A t : (Grace!BeginSearch(t) <=> BeginSearch(t)) /\ (Grace!NothingToDo(t) <=> NothingToDo(t))
    /\ Grace!Fresh = Fresh /\ Grace!KEY_MAX = KEY_MAX
    /\ \A k, n : Grace!node(k, n) = node(k, n)
    /\ (Grace!Init <=> Init) /\ (Grace!AllDone <=> AllDone) /\ Grace!vars = vars
    /\ Grace!Linearizable <=> Linearizable
<1>1. \A S : Grace!Cardinality(S) = Cardinality(S)
  BY Zenon DEF Grace!Cardinality, Cardinality
<1>2. \A n : Grace!Key(n) = Key(n) /\ Grace!Succ(n) = Succ(n)
  BY DEF Grace!Key, Key, Grace!Succ, Succ
<1>3. \A l : (Grace!Marked(l) <=> Marked(l)) /\ Grace!Unmarked(l) = Unmarked(l) /\ Grace!WithMark(l) = WithMark(l)
  BY DEF Grace!Marked, Marked, Grace!Unmarked, Unmarked, Grace!WithMark, WithMark
<1>4. \A t : Grace!Left(t) = Left(t) /\ Grace!Right(t) = Right(t) /\ (Grace!IsThere(t) <=> IsThere(t))
  BY <1>2 DEF Grace!Left, Left, Grace!Right, Right, Grace!IsThere, IsThere
<1>5. Grace!head = head /\ \A s, l, r, k : Grace!Locals(s, l, r, k) = Locals(s, l, r, k)
  BY DEF Grace!Locals, Locals, Grace!head, head
<1>6. \A t, s : Grace!On(t, s) <=> On(t, s)
  BY DEF Grace!On, On
<1>7. \A t, l : Grace!Goto(t, l) <=> Goto(t, l)
  BY <1>6, Zenon DEF Grace!Goto, Goto
<1>8. \A t : Grace!Again(t) <=> Again(t)
  BY <1>5, <1>6 DEF Grace!Again, Again
<1>9. \A c, t : Grace!Applied(c, t) = Applied(c, t)
  BY Zenon DEF Grace!Applied, Applied
<1>10. \A C : Grace!OneMore(C) = OneMore(C)
  BY Zenon DEF Grace!OneMore, OneMore, Grace!Applied, Applied
<1>11. \A C : Grace!Extended(C) = Extended(C)
  BY <1>1, Zenon DEF Grace!Extended, Extended, Grace!OneMore, OneMore, Grace!Applied, Applied
<1>12. Grace!Idle = Idle
  BY DEF Grace!Idle, Idle
<1>13. \A t, a : Grace!Return(t, a) <=> Return(t, a)
  BY <1>11, <1>12, Zenon DEF Grace!Return, Return
<1>14. \A n, l, m : (Grace!CAS(n, l, m) <=> CAS(n, l, m)) /\ (Grace!CASFails(n, l) <=> CASFails(n, l))
  BY DEF Grace!CAS, CAS, Grace!CASFails, CASFails
<1>15. \A t, l : Grace!MarkRight(t, l) <=> MarkRight(t, l)
  BY <1>3, <1>4, <1>7, <1>8, <1>14, Zenon DEF Grace!MarkRight, MarkRight
<1>16. \A t, o : Grace!Found(t, o) <=> Found(t, o)
  BY DEF Grace!Found, Found
<1>17. \A t, o, k, s : Grace!Call(t, o, k, s) <=> Call(t, o, k, s)
  BY Zenon DEF Grace!Call, Call, Grace!Filling, Filling, Grace!Filler, Filler, Grace!NextToFill, NextToFill
<1>18. \A t : Grace!BeginSearch(t) <=> BeginSearch(t)
  BY <1>5, <1>17, Zenon DEF Grace!BeginSearch, BeginSearch, Grace!Ops, Ops
<1>19. \A t : Grace!NothingToDo(t) <=> NothingToDo(t)
  BY <1>4, <1>13, <1>16, Zenon DEF Grace!NothingToDo, NothingToDo
<1>20. Grace!vars = vars /\ (Grace!AllDone <=> AllDone) /\ (Grace!Linearizable <=> Linearizable)
  BY Zenon DEF Grace!vars, vars, Grace!AllDone, AllDone, Grace!Linearizable, Linearizable
<1>21. Grace!KEY_MAX = KEY_MAX /\ Grace!KEY_MIN = KEY_MIN /\ Grace!Fresh = Fresh
  BY <1>1, Zenon DEF Grace!KEY_MAX, KEY_MAX, Grace!KEY_MIN, KEY_MIN, Grace!Fresh, Fresh
<1>22. \A k, n : Grace!node(k, n) = node(k, n)
  BY Zenon DEF Grace!node, node
<1>23. \A s, n : Grace!SetInit(s, n) <=> SetInit(s, n)
  BY Zenon DEF Grace!SetInit, SetInit, Grace!Filler, Filler, Grace!Idle, Idle
<1>24. \A s : Grace!ListInit(s) <=> ListInit(s)
  BY <1>23, Zenon DEF Grace!ListInit, ListInit, Grace!node, node, Grace!KEY_MIN, KEY_MIN, Grace!KEY_MAX, KEY_MAX, Grace!Cardinality, Cardinality
<1>25. Grace!Init <=> Init
  BY <1>24, Zenon DEF Grace!Init, Init
<1> QED  BY <1>2, <1>3, <1>4, <1>5, <1>6, <1>7, <1>8, <1>13, <1>14, <1>15, <1>16, <1>18, <1>19, <1>20, <1>21, <1>22, <1>25, Zenon

\* And as it sees MichaelList.
LEMMA OptShares ==
    /\ \A t, s : Grace!Opt!On(t, s) <=> On(t, s)
    /\ \A t, l : Grace!Opt!Goto(t, l) <=> Goto(t, l)
    /\ \A t : Grace!Opt!Again(t) <=> Again(t)
    /\ \A t, a : Grace!Opt!Return(t, a) <=> Return(t, a)
    /\ \A n, l, m : (Grace!Opt!CAS(n, l, m) <=> CAS(n, l, m)) /\ (Grace!Opt!CASFails(n, l) <=> CASFails(n, l))
    /\ \A t, l : Grace!Opt!MarkRight(t, l) <=> MarkRight(t, l)
    /\ \A t, o : Grace!Opt!Found(t, o) <=> Found(t, o)
    /\ \A t : (Grace!Opt!IsThere(t) <=> IsThere(t)) /\ Grace!Opt!Left(t) = Left(t) /\ Grace!Opt!Right(t) = Right(t)
    /\ \A n : Grace!Opt!Key(n) = Key(n) /\ Grace!Opt!Succ(n) = Succ(n)
    /\ \A l : (Grace!Opt!Marked(l) <=> Marked(l)) /\ Grace!Opt!Unmarked(l) = Unmarked(l)
    /\ \A s, l, r, k : Grace!Opt!Locals(s, l, r, k) = Locals(s, l, r, k)
    /\ Grace!Opt!head = head
<1>1. \A S : Grace!Opt!Cardinality(S) = Cardinality(S)
  BY Zenon DEF Grace!Opt!Cardinality, Cardinality
<1>2. \A n : Grace!Opt!Key(n) = Key(n) /\ Grace!Opt!Succ(n) = Succ(n)
  BY DEF Grace!Opt!Key, Key, Grace!Opt!Succ, Succ
<1>3. \A l : (Grace!Opt!Marked(l) <=> Marked(l)) /\ Grace!Opt!Unmarked(l) = Unmarked(l) /\ Grace!Opt!WithMark(l) = WithMark(l)
  BY DEF Grace!Opt!Marked, Marked, Grace!Opt!Unmarked, Unmarked, Grace!Opt!WithMark, WithMark
<1>4. \A t : Grace!Opt!Left(t) = Left(t) /\ Grace!Opt!Right(t) = Right(t) /\ (Grace!Opt!IsThere(t) <=> IsThere(t))
  BY <1>2 DEF Grace!Opt!Left, Left, Grace!Opt!Right, Right, Grace!Opt!IsThere, IsThere
<1>5. Grace!Opt!head = head /\ \A s, l, r, k : Grace!Opt!Locals(s, l, r, k) = Locals(s, l, r, k)
  BY DEF Grace!Opt!Locals, Locals, Grace!Opt!head, head
<1>6. \A t, s : Grace!Opt!On(t, s) <=> On(t, s)
  BY DEF Grace!Opt!On, On
<1>7. \A t, l : Grace!Opt!Goto(t, l) <=> Goto(t, l)
  BY <1>6, Zenon DEF Grace!Opt!Goto, Goto
<1>8. \A t : Grace!Opt!Again(t) <=> Again(t)
  BY <1>5, <1>6 DEF Grace!Opt!Again, Again
<1>9. \A c, t : Grace!Opt!Applied(c, t) = Applied(c, t)
  BY Zenon DEF Grace!Opt!Applied, Applied
<1>10. \A C : Grace!Opt!OneMore(C) = OneMore(C)
  BY Zenon DEF Grace!Opt!OneMore, OneMore, Grace!Opt!Applied, Applied
<1>11. \A C : Grace!Opt!Extended(C) = Extended(C)
  BY <1>1, Zenon DEF Grace!Opt!Extended, Extended, Grace!Opt!OneMore, OneMore, Grace!Opt!Applied, Applied
<1>12. Grace!Opt!Idle = Idle
  BY DEF Grace!Opt!Idle, Idle
<1>13. \A t, a : Grace!Opt!Return(t, a) <=> Return(t, a)
  BY <1>11, <1>12, Zenon DEF Grace!Opt!Return, Return
<1>14. \A n, l, m : (Grace!Opt!CAS(n, l, m) <=> CAS(n, l, m)) /\ (Grace!Opt!CASFails(n, l) <=> CASFails(n, l))
  BY DEF Grace!Opt!CAS, CAS, Grace!Opt!CASFails, CASFails
<1>15. \A t, l : Grace!Opt!MarkRight(t, l) <=> MarkRight(t, l)
  BY <1>3, <1>4, <1>7, <1>8, <1>14, Zenon DEF Grace!Opt!MarkRight, MarkRight
<1>16. \A t, o : Grace!Opt!Found(t, o) <=> Found(t, o)
  BY DEF Grace!Opt!Found, Found
<1> QED  BY <1>2, <1>3, <1>4, <1>5, <1>6, <1>7, <1>8, <1>13, <1>14, <1>15, <1>16, Zenon

NULL == 0 - 1

\* What t has taken out of the list, and what it may put into it.
Waiting(t) == {r.node : r \in gc[t].limbo}
Unused(t) == gc[t].pool \cup ({gc[t].newnode} \ {NULL})
Holding(t) == Waiting(t) \cup Unused(t)

\* Every node is in one place, and what is linked is what new_node made.
GcOK(L) ==
    /\ gc = [t \in Threads |-> gc[t]]
    /\ \A t \in Threads :
          /\ gc[t] = [limbo |-> gc[t].limbo, pool |-> gc[t].pool, newnode |-> gc[t].newnode]
          /\ Holding(t) \subseteq DOMAIN mem /\ Holding(t) \cap L = {}
          /\ Waiting(t) \cap Unused(t) = {} /\ gc[t].newnode \notin gc[t].pool
          /\ \A r, s \in gc[t].limbo : r.node = s.node => r = s
          /\ gc[t].newnode # NULL <=> th[t].pc = "link"
          /\ th[t].pc = "link" => /\ mem[gc[t].newnode].key = req[t].key
                                  /\ mem[gc[t].newnode].next = <<Right(t), 0>>
    /\ \A t, u \in Threads : t # u => Holding(t) \cap Holding(u) = {}

\* What an operation may meet outside the list was retired while it was running.
Seen(L, A) ==
    \A t \in Threads : Busy(t) =>
       \A x \in A[t] \ L : \E u \in Threads : \E r \in gc[u].limbo :
          r.node = x /\ <<t, req[t].left>> \in r.while

GraceCore(L, A, N) == Core(L, A, N) /\ GcOK(L) /\ Seen(L, A)
GraceHolds == \E L, A, N : GraceCore(L, A, N)

\* Of t, what it has retired, its pool and its new node become l, p and n.
GcSets(t, l, p, n) ==
    /\ gc' = [u \in Threads |-> gc'[u]]
    /\ gc'[t] = [limbo |-> l, pool |-> p, newnode |-> n]
    /\ \A u \in Threads \ {t} : gc'[u] = gc[u]

LEMMA GcSetsIs ==
    ASSUME NEW L, GcOK(L), NEW t \in Threads, NEW l, NEW p, NEW n,
           gc' = [gc EXCEPT ![t] = [limbo |-> l, pool |-> p, newnode |-> n]]
    PROVE  GcSets(t, l, p, n)
BY DEF GcOK, GcSets

\* The fields of one thread, and functions that set one of them.
Of(l, p, n) == [limbo |-> l, pool |-> p, newnode |-> n]
OfAll(f) == f = [u \in Threads |-> f[u]]
SetLimbo(f, t, x) == [f EXCEPT ![t].limbo = x]
SetPool(f, t, x) == [f EXCEPT ![t].pool = x]
SetNew(f, t, x) == [f EXCEPT ![t].newnode = x]
SetOf(f, t, x) == [f EXCEPT ![t] = x]

LEMMA FieldSet ==
    ASSUME NEW t \in Threads, NEW f, OfAll(f), NEW l, NEW p, NEW n, f[t] = Of(l, p, n), NEW x
    PROVE  /\ SetLimbo(f, t, x) = SetOf(f, t, Of(x, p, n))
           /\ SetPool(f, t, x) = SetOf(f, t, Of(l, x, n))
           /\ SetNew(f, t, x) = SetOf(f, t, Of(l, p, x))
<1>1. PICK g : g = f[t]
  OBVIOUS
<1>2. g = [limbo |-> l, pool |-> p, newnode |-> n]
  BY <1>1 DEF Of
<1>3. [f EXCEPT ![t].limbo = x] = [f EXCEPT ![t] = [limbo |-> x, pool |-> p, newnode |-> n]]
  <2>1. [g EXCEPT !.limbo = x] \in [limbo : {x}, pool : {p}, newnode : {n}]
    BY ONLY <1>2
  <2>2. [g EXCEPT !.limbo = x] = [limbo |-> x, pool |-> p, newnode |-> n]
    BY ONLY <2>1
  <2>3. [f EXCEPT ![t].limbo = x] = [f EXCEPT ![t] = [g EXCEPT !.limbo = x]]
    BY <1>1 DEF OfAll
  <2> QED  BY <2>2, <2>3
<1>4. [f EXCEPT ![t].pool = x] = [f EXCEPT ![t] = [limbo |-> l, pool |-> x, newnode |-> n]]
  <2>1. [g EXCEPT !.pool = x] \in [limbo : {l}, pool : {x}, newnode : {n}]
    BY ONLY <1>2
  <2>2. [g EXCEPT !.pool = x] = [limbo |-> l, pool |-> x, newnode |-> n]
    BY ONLY <2>1
  <2>3. [f EXCEPT ![t].pool = x] = [f EXCEPT ![t] = [g EXCEPT !.pool = x]]
    BY <1>1 DEF OfAll
  <2> QED  BY <2>2, <2>3
<1>5. [f EXCEPT ![t].newnode = x] = [f EXCEPT ![t] = [limbo |-> l, pool |-> p, newnode |-> x]]
  <2>1. [g EXCEPT !.newnode = x] \in [limbo : {l}, pool : {p}, newnode : {x}]
    BY ONLY <1>2
  <2>2. [g EXCEPT !.newnode = x] = [limbo |-> l, pool |-> p, newnode |-> x]
    BY ONLY <2>1
  <2>3. [f EXCEPT ![t].newnode = x] = [f EXCEPT ![t] = [g EXCEPT !.newnode = x]]
    BY <1>1 DEF OfAll
  <2> QED  BY <2>2, <2>3
<1> QED  BY <1>3, <1>4, <1>5 DEF Of, SetLimbo, SetPool, SetNew, SetOf

LEMMA GcLimboIs ==
    ASSUME NEW L, GcOK(L), NEW t \in Threads, NEW x, gc' = [gc EXCEPT ![t].limbo = x]
    PROVE  GcSets(t, x, gc[t].pool, gc[t].newnode)
<1>1. PICK l, p, n : l = gc[t].limbo /\ p = gc[t].pool /\ n = gc[t].newnode
  OBVIOUS
<1>2. OfAll(gc) /\ gc[t] = Of(l, p, n)
  BY <1>1 DEF GcOK, Of, OfAll
<1>3. gc' = SetLimbo(gc, t, x)
  BY DEF SetLimbo
<1>4. gc' = SetOf(gc, t, Of(x, p, n))
  BY <1>2, <1>3, FieldSet
<1> QED  BY <1>1, <1>4, GcSetsIs DEF SetOf, Of

LEMMA GcNewIs ==
    ASSUME NEW L, GcOK(L), NEW t \in Threads, NEW x, gc' = [gc EXCEPT ![t].newnode = x]
    PROVE  GcSets(t, gc[t].limbo, gc[t].pool, x)
<1>1. PICK l, p, n : l = gc[t].limbo /\ p = gc[t].pool /\ n = gc[t].newnode
  OBVIOUS
<1>2. OfAll(gc) /\ gc[t] = Of(l, p, n)
  BY <1>1 DEF GcOK, Of, OfAll
<1>3. gc' = SetNew(gc, t, x)
  BY DEF SetNew
<1>4. gc' = SetOf(gc, t, Of(l, p, x))
  BY <1>2, <1>3, FieldSet
<1> QED  BY <1>1, <1>4, GcSetsIs DEF SetOf, Of

LEMMA GcPoolAndNewIs ==
    ASSUME NEW L, GcOK(L), NEW t \in Threads, NEW x, NEW y,
           gc' = [gc EXCEPT ![t].pool = x, ![t].newnode = y]
    PROVE  GcSets(t, gc[t].limbo, x, y)
<1>1. PICK l, p, n : l = gc[t].limbo /\ p = gc[t].pool /\ n = gc[t].newnode
  OBVIOUS
<1>2. OfAll(gc) /\ gc[t] = Of(l, p, n)
  BY <1>1 DEF GcOK, Of, OfAll
<1>3. PICK h : h = SetPool(gc, t, x)
  OBVIOUS
<1>4. h = SetOf(gc, t, Of(l, x, n))
  BY <1>2, <1>3, FieldSet
<1>5. OfAll(h) /\ h[t] = Of(l, x, n)
  BY <1>2, <1>4 DEF OfAll, SetOf
<1>6. gc' = SetNew(h, t, y)
  BY <1>3, Zenon DEF SetNew, SetPool
<1>7. SetNew(h, t, y) = SetOf(h, t, Of(l, x, y))
  BY <1>5, FieldSet
<1>8. gc' = SetOf(gc, t, Of(l, x, y))
  BY <1>2, <1>4, <1>6, <1>7 DEF SetOf, OfAll
<1> QED  BY <1>1, <1>8, GcSetsIs DEF SetOf, Of

LEMMA GcLimboAndPoolIs ==
    ASSUME NEW L, GcOK(L), NEW t \in Threads, NEW x, NEW y,
           gc' = [gc EXCEPT ![t].limbo = x, ![t].pool = y]
    PROVE  GcSets(t, x, y, gc[t].newnode)
<1>1. PICK l, p, n : l = gc[t].limbo /\ p = gc[t].pool /\ n = gc[t].newnode
  OBVIOUS
<1>2. OfAll(gc) /\ gc[t] = Of(l, p, n)
  BY <1>1 DEF GcOK, Of, OfAll
<1>3. PICK h : h = SetLimbo(gc, t, x)
  OBVIOUS
<1>4. h = SetOf(gc, t, Of(x, p, n))
  BY <1>2, <1>3, FieldSet
<1>5. OfAll(h) /\ h[t] = Of(x, p, n)
  BY <1>2, <1>4 DEF OfAll, SetOf
<1>6. gc' = SetPool(h, t, y)
  BY <1>3, Zenon DEF SetLimbo, SetPool
<1>7. SetPool(h, t, y) = SetOf(h, t, Of(x, y, n))
  BY <1>5, FieldSet
<1>8. gc' = SetOf(gc, t, Of(x, y, n))
  BY <1>2, <1>4, <1>6, <1>7 DEF SetOf, OfAll
<1> QED  BY <1>1, <1>8, GcSetsIs DEF SetOf, Of

\* New nodes, but that of t, stay what they are.
OthersNew(t) ==
    \A u \in Threads \ {t} :
       th'[u] = th[u] /\ req'[u] = req[u]
       /\ (th[u].pc = "link" => mem'[gc[u].newnode] = mem[gc[u].newnode])

\* Where the nodes of t are, if the list becomes M.
OneKeeps(t, L, M, l, p, n) ==
    LET W == {r.node : r \in l}
        H == W \cup p \cup ({n} \ {NULL})
    IN /\ H \subseteq DOMAIN mem' /\ H \cap M = {}
       /\ W \cap (p \cup ({n} \ {NULL})) = {} /\ n \notin p
       /\ \A r, s \in l : r.node = s.node => r = s
       /\ \A u \in Threads \ {t} : Holding(u) \cap (H \cup M) = {}

LEMMA GcOKNext ==
    ASSUME NEW L, GcOK(L), NEW t \in Threads, NEW l, NEW p, NEW n, NEW M,
           GcSets(t, l, p, n), OthersNew(t), OneKeeps(t, L, M, l, p, n),
           DOMAIN mem \subseteq DOMAIN mem',
           n # NULL <=> th'[t].pc = "link",
           n # NULL => /\ mem'[n].key = req'[t].key
                       /\ mem'[n].next = <<th'[t].right, 0>>
    PROVE  GcOK(M)'
<1>1. gc' = [u \in Threads |-> gc'[u]]
  BY DEF GcSets
<1>2. \A u \in Threads \ {t} : gc'[u] = gc[u] /\ th'[u] = th[u] /\ req'[u] = req[u]
  BY DEF GcSets, OthersNew
<1>3. \A u \in Threads \ {t} : Waiting(u)' = Waiting(u) /\ Unused(u)' = Unused(u)
                               /\ Holding(u)' = Holding(u)
  BY <1>2 DEF Waiting, Unused, Holding
<1>4. gc'[t].limbo = l /\ gc'[t].pool = p /\ gc'[t].newnode = n
      /\ gc'[t] = [limbo |-> l, pool |-> p, newnode |-> n]
  BY DEF GcSets
<1>5. PICK W, H : W = {r.node : r \in l} /\ H = W \cup p \cup ({n} \ {NULL})
  OBVIOUS
<1>6. Waiting(t)' = W /\ Unused(t)' = p \cup ({n} \ {NULL}) /\ Holding(t)' = H
  BY <1>4, <1>5 DEF Waiting, Unused, Holding, NULL
<1>7. /\ H \subseteq DOMAIN mem' /\ H \cap M = {}
      /\ W \cap (p \cup ({n} \ {NULL})) = {} /\ n \notin p
      /\ \A r, s \in l : r.node = s.node => r = s
      /\ \A u \in Threads \ {t} : Holding(u) \cap (H \cup M) = {}
  BY <1>5 DEF OneKeeps
<1>8. ASSUME NEW u \in Threads
      PROVE  (/\ gc[u] = [limbo |-> gc[u].limbo, pool |-> gc[u].pool, newnode |-> gc[u].newnode]
              /\ Holding(u) \subseteq DOMAIN mem /\ Holding(u) \cap M = {}
              /\ Waiting(u) \cap Unused(u) = {} /\ gc[u].newnode \notin gc[u].pool
              /\ \A r, s \in gc[u].limbo : r.node = s.node => r = s
              /\ gc[u].newnode # NULL <=> th[u].pc = "link"
              /\ th[u].pc = "link" => /\ mem[gc[u].newnode].key = req[u].key
                                      /\ mem[gc[u].newnode].next = <<Right(u), 0>>)'
  <2>1. CASE u = t
    BY <1>4, <1>6, <1>7, <2>1 DEF Right, NULL
  <2>2. CASE u # t
    <3>1. th'[u].right = th[u].right
      BY <1>2, <2>2
    <3>2. /\ gc[u] = [limbo |-> gc[u].limbo, pool |-> gc[u].pool, newnode |-> gc[u].newnode]
          /\ Holding(u) \subseteq DOMAIN mem
          /\ Waiting(u) \cap Unused(u) = {} /\ gc[u].newnode \notin gc[u].pool
          /\ \A r, s \in gc[u].limbo : r.node = s.node => r = s
          /\ gc[u].newnode # NULL <=> th[u].pc = "link"
          /\ th[u].pc = "link" => /\ mem[gc[u].newnode].key = req[u].key
                                  /\ mem[gc[u].newnode].next = <<Right(u), 0>>
      BY <2>2 DEF GcOK
    <3>3. th[u].pc = "link" => mem'[gc[u].newnode] = mem[gc[u].newnode]
      BY <2>2 DEF OthersNew
    <3>4. (Holding(u) \subseteq DOMAIN mem /\ Holding(u) \cap M = {}
           /\ Waiting(u) \cap Unused(u) = {})'
      BY <1>3, <1>7, <2>2, <3>2
    <3>5. NULL' = NULL /\ gc'[u] = gc[u] /\ th'[u] = th[u] /\ req'[u] = req[u]
      BY <1>2, <2>2 DEF NULL
    <3>6. (th[u].pc = "link" => /\ mem[gc[u].newnode].key = req[u].key
                                /\ mem[gc[u].newnode].next = <<Right(u), 0>>)'
      BY <3>1, <3>2, <3>3, <3>5 DEF Right
    <3> QED  BY <3>2, <3>4, <3>5, <3>6
  <2> QED  BY <2>1, <2>2
<1>9. ASSUME NEW u \in Threads, NEW v \in Threads, u # v
      PROVE  (Holding(u) \cap Holding(v) = {})'
  <2>1. u # t /\ v # t => Holding(u) \cap Holding(v) = {}
    BY <1>9 DEF GcOK
  <2> QED  BY <1>3, <1>6, <1>7, <1>9, <2>1
<1> QED  BY <1>1, <1>8, <1>9 DEF GcOK

\* What is met outside the list was met before, or is retired now.
LimboGrows(F) == \A u \in Threads : \A r \in gc[u].limbo \ F : r \in gc'[u].limbo

MeetsSeen(t, L, A, M, B, F) ==
    \A u \in Threads : Busy(u)' => \A x \in B[u] \ M :
       \/ /\ x \in A[u] \ L /\ Busy(u) /\ req'[u].left = req[u].left
          /\ \A r \in F : r.node # x
       \/ \E r \in gc'[t].limbo : r.node = x /\ <<u, req'[u].left>> \in r.while

LEMMA SeenNext ==
    ASSUME NEW L, NEW A, Seen(L, A), NEW M, NEW B, NEW t \in Threads, NEW F,
           LimboGrows(F), MeetsSeen(t, L, A, M, B, F)
    PROVE  Seen(M, B)'
<1> SUFFICES ASSUME NEW u \in Threads, Busy(u)', NEW x \in B[u] \ M
             PROVE  \E v \in Threads : \E r \in gc'[v].limbo :
                       r.node = x /\ <<u, req'[u].left>> \in r.while
  BY DEF Seen
<1>0. \/ /\ x \in A[u] \ L /\ Busy(u) /\ req'[u].left = req[u].left
         /\ \A r \in F : r.node # x
      \/ \E r \in gc'[t].limbo : r.node = x /\ <<u, req'[u].left>> \in r.while
  BY DEF MeetsSeen
<1>1. CASE /\ x \in A[u] \ L /\ Busy(u) /\ req'[u].left = req[u].left
           /\ \A r \in F : r.node # x
  <2>1. PICK v \in Threads : \E r \in gc[v].limbo :
           r.node = x /\ <<u, req[u].left>> \in r.while
    BY <1>1 DEF Seen
  <2>2. PICK r \in gc[v].limbo : r.node = x /\ <<u, req[u].left>> \in r.while
    BY <2>1
  <2>3. r \in gc'[v].limbo
    BY <1>1, <2>2 DEF LimboGrows
  <2> QED  BY <1>1, <2>2, <2>3
<1>2. CASE \E r \in gc'[t].limbo : r.node = x /\ <<u, req'[u].left>> \in r.while
  BY <1>2
<1> QED  BY <1>0, <1>1, <1>2

\* Nodes outside the list stay what they are, unless t has to do with them.
Outside(L) == \A n \in (DOMAIN mem) \ L : mem'[n] = mem[n]

LEMMA OthersNewIs ==
    ASSUME NEW L, GcOK(L), NEW t \in Threads, Outside(L), NEW s,
           th = [u \in Threads |-> th[u]], Moves(t, s),
           \A u \in Threads \ {t} : req'[u] = req[u]
    PROVE  OthersNew(t) /\ th'[t] = s
<1>1. th'[t] = s /\ \A u \in Threads \ {t} : th'[u] = th[u]
  BY MovesIs
<1>2. ASSUME NEW u \in Threads \ {t}, th[u].pc = "link"
      PROVE  mem'[gc[u].newnode] = mem[gc[u].newnode]
  <2>1. gc[u].newnode \in Holding(u) /\ Holding(u) \subseteq DOMAIN mem /\ Holding(u) \cap L = {}
    BY <1>2 DEF GcOK, Holding, Unused
  <2> QED  BY <2>1 DEF Outside
<1> QED  BY <1>1, <1>2 DEF OthersNew

\* A step that retires nothing.
LEMMA GcStays ==
    ASSUME NEW L, NEW A, NEW N, Core(L, A, N), GcOK(L), Seen(L, A), NEW t \in Threads, NEW s,
           Moves(t, s), th[t].pc # "link", s.pc # "link", UNCHANGED gc,
           DOMAIN mem \subseteq DOMAIN mem', Outside(L),
           \A u \in Threads \ {t} : req'[u] = req[u],
           NEW B, \A u \in Threads \ {t} : B[u] = A[u],
           \/ B[t] = L
           \/ B[t] = A[t] /\ Busy(t) /\ (s # Idle => req'[t].left = req[t].left)
    PROVE  GcOK(L)' /\ Seen(L, B)'
<1>1. th = [u \in Threads |-> th[u]]
  BY DEF Core
<1>2. OthersNew(t) /\ th'[t] = s /\ \A u \in Threads \ {t} : th'[u] = th[u]
  BY <1>1, OthersNewIs, MovesIs
<1>3. PICK l, p, n : l = gc[t].limbo /\ p = gc[t].pool /\ n = gc[t].newnode
  OBVIOUS
<1>4. GcSets(t, l, p, n) /\ n = NULL
  BY <1>3 DEF GcSets, GcOK
<1>5. OneKeeps(t, L, L, l, p, n)
  <2>1. /\ Holding(t) \subseteq DOMAIN mem /\ Holding(t) \cap L = {}
        /\ Waiting(t) \cap Unused(t) = {} /\ gc[t].newnode \notin gc[t].pool
        /\ \A r, x \in gc[t].limbo : r.node = x.node => r = x
        /\ \A u \in Threads \ {t} : Holding(u) \cap Holding(t) = {} /\ Holding(u) \cap L = {}
    BY DEF GcOK
  <2> QED  BY <1>3, <2>1 DEF OneKeeps, Holding, Waiting, Unused
<1>6. GcOK(L)'
  BY <1>2, <1>4, <1>5, GcOKNext
<1>7. \A u \in Threads : Busy(u)' => \A x \in B[u] \ L :
         x \in A[u] \ L /\ Busy(u) /\ req'[u].left = req[u].left
  BY <1>2 DEF Busy
<1>8. Seen(L, B)'
  <2>1. PICK F : F = {}
    OBVIOUS
  <2>2. LimboGrows(F)
    BY DEF LimboGrows
  <2>3. MeetsSeen(t, L, A, L, B, F)
    BY <1>7, <2>1 DEF MeetsSeen
  <2> QED  BY <2>2, <2>3, SeenNext
<1> QED  BY <1>6, <1>8

\* A step that retires r, which it has taken out of the list.
LEMMA GcRetires ==
    ASSUME NEW L, NEW A, NEW N, Core(L, A, N), GcOK(L), Seen(L, A), NEW t \in Threads, NEW s,
           Moves(t, s), th[t].pc # "link", s.pc # "link", s # Idle, Busy(t),
           NEW r \in L, NEW x, x.node = r,
           \A u \in Threads : Busy(u) => <<u, req[u].left>> \in x.while,
           gc' = [gc EXCEPT ![t].limbo = @ \cup {x}],
           DOMAIN mem \subseteq DOMAIN mem', Outside(L), UNCHANGED req
    PROVE  GcOK(L \ {r})' /\ Seen(L \ {r}, A)'
<1>1. th = [u \in Threads |-> th[u]] /\ r \in DOMAIN mem
  BY DEF Core, Chain
<1>2. OthersNew(t) /\ th'[t] = s /\ \A u \in Threads \ {t} : th'[u] = th[u]
  BY <1>1, OthersNewIs, MovesIs
<1>3. PICK l, p, n : l = gc[t].limbo \cup {x} /\ p = gc[t].pool /\ n = gc[t].newnode
  OBVIOUS
<1>4. GcSets(t, l, p, n) /\ n = NULL
  <2>1. gc' = [gc EXCEPT ![t].limbo = l]
    BY <1>3
  <2> QED  BY <1>3, <2>1, GcLimboIs DEF GcOK
<1>5. PICK M : M = L \ {r}
  OBVIOUS
<1>6. OneKeeps(t, L, M, l, p, n)
  <2>1. /\ Holding(t) \subseteq DOMAIN mem /\ Holding(t) \cap L = {}
        /\ Waiting(t) \cap Unused(t) = {} /\ gc[t].newnode \notin gc[t].pool
        /\ \A y, z \in gc[t].limbo : y.node = z.node => y = z
        /\ \A u \in Threads \ {t} : Holding(u) \cap Holding(t) = {} /\ Holding(u) \cap L = {}
    BY DEF GcOK
  <2>2. {y.node : y \in l} = Waiting(t) \cup {r}
    BY <1>3 DEF Waiting
  <2>3. \A y, z \in l : y.node = z.node => y = z
    <3>1. \A y \in gc[t].limbo : y.node # r
      BY <2>1 DEF Holding, Waiting
    <3> QED  BY <1>3, <2>1, <3>1
  <2>4. Holding(t) = Waiting(t) \cup p \cup ({n} \ {NULL}) /\ Unused(t) = p \cup ({n} \ {NULL})
    BY <1>3 DEF Holding, Unused
  <2>5. PICK W, H : W = {y.node : y \in l} /\ H = W \cup p \cup ({n} \ {NULL})
    OBVIOUS
  <2>6. W = Waiting(t) \cup {r} /\ H = Holding(t) \cup {r}
    BY <2>2, <2>4, <2>5
  <2>7. /\ H \subseteq DOMAIN mem' /\ H \cap M = {} /\ n \notin p
        /\ W \cap (p \cup ({n} \ {NULL})) = {}
        /\ \A u \in Threads \ {t} : Holding(u) \cap (H \cup M) = {}
    <3>1. r \notin Unused(t)
      BY <2>1 DEF Holding
    <3> QED  BY <1>1, <1>3, <1>5, <2>1, <2>4, <2>6, <3>1
  <2> QED  BY <2>3, <2>5, <2>7 DEF OneKeeps
<1>7. GcOK(M)'
  BY <1>2, <1>4, <1>6, GcOKNext
<1>8. x \in gc'[t].limbo /\ \A u \in Threads : \A y \in gc[u].limbo : y \in gc'[u].limbo
  BY <1>3, <1>4 DEF GcSets
<1>9. \A u \in Threads : Busy(u)' => Busy(u) /\ req'[u].left = req[u].left
  BY <1>2 DEF Busy
<1>10. Seen(M, A)'
  <2>1. ASSUME NEW u \in Threads, Busy(u)', NEW y \in A[u] \ M
        PROVE  \/ y \in A[u] \ L /\ Busy(u) /\ req'[u].left = req[u].left
               \/ \E z \in gc'[t].limbo : z.node = y /\ <<u, req'[u].left>> \in z.while
    <3>1. CASE y = r
      <4>1. x.node = y /\ <<u, req'[u].left>> \in x.while
        BY <1>9, <2>1, <3>1
      <4> QED  BY <1>8, <4>1
    <3>2. CASE y # r
      BY <1>5, <1>9, <2>1, <3>2
    <3> QED  BY <3>1, <3>2
  <2>2. PICK F : F = {}
    OBVIOUS
  <2>3. LimboGrows(F)
    BY <1>8 DEF LimboGrows
  <2>4. MeetsSeen(t, L, A, M, A, F)
    BY <2>1, <2>2 DEF MeetsSeen
  <2> QED  BY <2>3, <2>4, SeenNext
<1> QED  BY <1>5, <1>7, <1>10

\* What a thread may link is not met by anybody.
LEMMA NotMet ==
    ASSUME NEW L, NEW A, NEW N, Core(L, A, N), GcOK(L), Seen(L, A), NEW y,
           y \notin L, \A u \in Threads : y \notin Waiting(u)
    PROVE  \A u \in Threads : Busy(u) => y \notin A[u]
<1> SUFFICES ASSUME NEW u \in Threads, Busy(u), y \in A[u] PROVE FALSE
  OBVIOUS
<1>1. PICK v \in Threads : \E r \in gc[v].limbo : r.node = y
  BY DEF Seen
<1> QED  BY <1>1 DEF Waiting

LEMMA UnusedIsNotMet ==
    ASSUME NEW L, NEW A, NEW N, Core(L, A, N), GcOK(L), Seen(L, A), NEW t \in Threads,
           NEW y \in Unused(t)
    PROVE  /\ y \in DOMAIN mem /\ y \notin L /\ \A u \in Threads : Busy(u) => y \notin A[u]
           /\ \A u \in Threads : y \notin Waiting(u)
           /\ \A u \in Threads \ {t} : y \notin Holding(u)
<1>1. y \in Holding(t) /\ y \in DOMAIN mem /\ y \notin L /\ y \notin Waiting(t)
  BY DEF GcOK, Holding
<1>2. \A u \in Threads \ {t} : y \notin Holding(u) /\ y \notin Waiting(u)
  BY <1>1 DEF GcOK, Holding
<1> QED  BY <1>1, <1>2, NotMet

\* A node that nobody meets changes, and perhaps it is a new one.
Elsewhere(y, x) ==
    /\ DOMAIN mem' = (DOMAIN mem) \cup {y} /\ mem'[y] = x
    /\ \A n \in (DOMAIN mem) \ {y} : mem'[n] = mem[n]

LEMMA FreshIs ==
    ASSUME MemTyped
    PROVE  Fresh \in Nat /\ Fresh \notin DOMAIN mem
           /\ \A m \in Nat : DOMAIN mem = 0 .. m => Fresh = m + 1
<1>1. PICK m \in Nat : mem \in [0 .. m -> AnyNode]
  BY DEF MemTyped
<1>2. Fresh = m + 1 /\ DOMAIN mem = 0 .. m
  <2>1. Cardinality(0 .. m) = IF 0 > m THEN 0 ELSE m - 0 + 1
    BY FS_Interval
  <2> QED  BY <1>1, <2>1 DEF Fresh
<1>3. ASSUME NEW k \in Nat, DOMAIN mem = 0 .. k PROVE Fresh = k + 1
  <2>1. k \in 0 .. m /\ m \in 0 .. k
    BY <1>2, <1>3
  <2> QED  BY <1>2, <2>1
<1> QED  BY <1>2, <1>3

LEMMA ElsewhereCalm ==
    ASSUME NEW L, NEW A, NEW N, Core(L, A, N), NEW y, NEW x \in AnyNode,
           y \in DOMAIN mem \/ y = Fresh,
           mem' = [m \in (DOMAIN mem) \cup {y} |-> IF m = y THEN x ELSE mem[m]],
           y \notin L, \A u \in Threads : Busy(u) => y \notin A[u]
    PROVE  Calm(L, A) /\ Elsewhere(y, x)
<1>1. PICK m \in Nat : mem \in [0 .. m -> AnyNode]
  BY DEF Core, MemTyped
<1>2. PICK k \in Nat : (DOMAIN mem) \cup {y} = 0 .. k
  <2>1. CASE y \in DOMAIN mem
    <3>1. (DOMAIN mem) \cup {y} = 0 .. m
      BY <1>1, <2>1
    <3> QED  BY <3>1
  <2>2. CASE y = Fresh
    <3>1. y = m + 1
      BY <1>1, <2>2, FreshIs DEF Core
    <3>2. (DOMAIN mem) \cup {y} = 0 .. (m + 1) /\ m + 1 \in Nat
      BY <1>1, <3>1
    <3> QED  BY <3>2
  <2> QED  BY <2>1, <2>2
<1>3. Elsewhere(y, x)
  BY DEF Elsewhere
<1>4. mem' \in [0 .. k -> AnyNode]
  <2>1. mem' = [n \in 0 .. k |-> IF n = y THEN x ELSE mem[n]]
    BY <1>2
  <2>2. \A n \in 0 .. k : n # y => mem[n] \in AnyNode
    BY <1>1, <1>2
  <2> QED  BY <2>1, <2>2
<1>5. MemTyped'
  BY <1>4 DEF MemTyped, AnyNode
<1>6. ASSUME NEW M, M \subseteq DOMAIN mem, y \notin M PROVE Kept(M)
  BY <1>3, <1>6 DEF Elsewhere, Kept, Key
<1>7. L \subseteq DOMAIN mem /\ \A u \in Threads : Busy(u) => A[u] \subseteq DOMAIN mem
  BY DEF Core, Chain, Met
<1> QED  BY <1>3, <1>5, <1>6, <1>7 DEF Calm

\* new_node, by an insert that has found its place.
Allocating(t, n, x) ==
    /\ n \in IF gc[t].pool = {} THEN {Fresh} ELSE gc[t].pool
    /\ x = node(req[t].key, Right(t))
    /\ mem' = [m \in (DOMAIN mem) \cup {n} |-> IF m = n THEN x ELSE mem[m]]
    /\ gc' = [gc EXCEPT ![t].pool = @ \ {n}, ![t].newnode = n]

LEMMA Allocates ==
    ASSUME ListAssumption, NEW L, NEW A, NEW N, GraceCore(L, A, N), NEW t \in Threads,
           Found(t, "insert"), ~IsThere(t), NEW n, NEW x, Allocating(t, n, x),
           Goto(t, "link")
    PROVE  GraceHolds'
<1> USE DEF Allocating
<1>1. Core(L, A, N) /\ GcOK(L) /\ Seen(L, A)
  BY DEF GraceCore
<1>2. th[t].pc = "found" /\ req[t].op = "insert" /\ Busy(t)
  BY BusyAt DEF Found
<1>3. PICK k, r : k = req[t].key /\ r = Right(t)
  OBVIOUS
<1>4. /\ k \in Nat /\ r \in Nat /\ Key(r) \in Nat /\ MemTyped /\ th[t] \in Places
      /\ Fine(th[t], req[t], A[t], t \in N)
  BY <1>1, <1>2, <1>3, BusyPlace, TMeets
<1>5. x \in AnyNode /\ x.key = k /\ x.next = <<r, 0>>
  BY <1>3, <1>4 DEF node, AnyNode
<1>6. /\ n \in DOMAIN mem \/ n = Fresh
      /\ n \notin L /\ n \in Nat /\ \A u \in Threads : Busy(u) => n \notin A[u]
      /\ \A u \in Threads : n \notin Waiting(u)
      /\ \A u \in Threads \ {t} : n \notin Holding(u)
  <2>1. CASE n \in gc[t].pool
    <3>1. n \in Unused(t)
      BY <2>1 DEF Unused
    <3>2. n \in DOMAIN mem
      BY <1>1, <3>1, UnusedIsNotMet
    <3>3. n \in Nat
      BY <1>4, <3>2, AnyNodesAre
    <3> QED  BY <1>1, <3>1, <3>2, <3>3, UnusedIsNotMet
  <2>2. CASE n = Fresh
    <3>1. n \notin DOMAIN mem /\ n \in Nat
      BY <1>4, <2>2, FreshIs
    <3>2. L \subseteq DOMAIN mem /\ \A u \in Threads : Holding(u) \subseteq DOMAIN mem
      BY <1>1 DEF Core, Chain, GcOK
    <3>3. \A u \in Threads : n \notin Waiting(u)
      BY <3>1, <3>2 DEF Holding
    <3> QED  BY <1>1, <2>2, <3>1, <3>2, <3>3, NotMet
  <2> QED  BY <2>1, <2>2
<1>7. Calm(L, A) /\ Elsewhere(n, x)
  BY <1>1, <1>5, <1>6, ElsewhereCalm
<1>8. PICK s : s = [th[t] EXCEPT !.pc = "link"]
  OBVIOUS
<1>9. /\ s \in Places /\ s.pc = "link" /\ s.left = th[t].left /\ s.right = th[t].right
      /\ s.then = th[t].then /\ s.link = th[t].link
  BY <1>4, <1>8, PlaceWithPc
<1>10. On(t, s) /\ Moves(t, s) /\ UNCHANGED req
  BY <1>8 DEF Goto, On, Moves
<1>11. Fine(s, req[t], A[t], t \in N)
  <2>1. k # Key(r) /\ r = th[t].right
    BY <1>3 DEF IsThere, Right
  <2> QED  BY <1>2, <1>3, <1>4, <1>9, <2>1 DEF Fine
<1>12. Decided(s) <=> Decided(th[t])
  BY <1>2, <1>9 DEF Decided
<1>13. Core(L, A, N)'
  BY <1>1, <1>2, <1>7, <1>10, <1>11, <1>12, GoOn
<1>14. PICK l, p : l = gc[t].limbo /\ p = gc[t].pool \ {n}
  OBVIOUS
<1>15. GcSets(t, l, p, n) /\ gc[t].newnode = NULL
  <2>1. gc' = [gc EXCEPT ![t].pool = p, ![t].newnode = n]
    BY <1>14
  <2> QED  BY <1>1, <1>2, <1>14, <2>1, GcPoolAndNewIs DEF GcOK
<1>16. DOMAIN mem \subseteq DOMAIN mem' /\ n \in DOMAIN mem' /\ n # NULL
  BY <1>6, <1>7 DEF Elsewhere, NULL
<1>17. th'[t] = s /\ \A u \in Threads \ {t} : th'[u] = th[u]
  BY <1>1, <1>10, MovesIs DEF Core
<1>18. OthersNew(t)
  <2>1. ASSUME NEW u \in Threads \ {t}, th[u].pc = "link"
        PROVE  mem'[gc[u].newnode] = mem[gc[u].newnode]
    <3>1. gc[u].newnode \in Holding(u) /\ Holding(u) \subseteq DOMAIN mem
      BY <1>1, <2>1 DEF GcOK, Holding, Unused
    <3> QED  BY <1>6, <1>7, <3>1 DEF Elsewhere
  <2> QED  BY <1>10, <1>17, <2>1 DEF OthersNew
<1>19. OneKeeps(t, L, L, l, p, n)
  <2>1. /\ Holding(t) \subseteq DOMAIN mem /\ Holding(t) \cap L = {}
        /\ Waiting(t) \cap Unused(t) = {}
        /\ \A y, z \in gc[t].limbo : y.node = z.node => y = z
        /\ \A u \in Threads \ {t} : Holding(u) \cap Holding(t) = {} /\ Holding(u) \cap L = {}
    BY <1>1 DEF GcOK
  <2>2. PICK W, H : W = {y.node : y \in l} /\ H = W \cup p \cup ({n} \ {NULL})
    OBVIOUS
  <2>3. W = Waiting(t) /\ p \subseteq Unused(t) /\ H \subseteq Holding(t) \cup {n} /\ n \notin p
    BY <1>14, <2>2 DEF Waiting, Unused, Holding
  <2>4. /\ H \subseteq DOMAIN mem' /\ H \cap L = {} /\ n \notin p
        /\ W \cap (p \cup ({n} \ {NULL})) = {}
        /\ \A u \in Threads \ {t} : Holding(u) \cap (H \cup L) = {}
    BY <1>6, <1>16, <2>1, <2>3
  <2>5. \A y, z \in l : y.node = z.node => y = z
    BY <1>14, <2>1
  <2> QED  BY <2>2, <2>4, <2>5 DEF OneKeeps
<1>20. GcOK(L)'
  <2>1. mem'[n].key = req'[t].key /\ mem'[n].next = <<th'[t].right, 0>>
    BY <1>3, <1>5, <1>7, <1>9, <1>10, <1>17 DEF Elsewhere, Right
  <2> QED  BY <1>1, <1>9, <1>15, <1>16, <1>17, <1>18, <1>19, <2>1, GcOKNext
<1>21. Seen(L, A)'
  <2>1. PICK F : F = {}
    OBVIOUS
  <2>2. LimboGrows(F)
    <3>1. gc'[t].limbo = l
      BY <1>15 DEF GcSets
    <3>2. \A u \in Threads : gc'[u].limbo = gc[u].limbo
      BY <1>14, <1>15, <3>1 DEF GcSets
    <3> QED  BY <3>2 DEF LimboGrows
  <2>3. \A u \in Threads : Busy(u)' => Busy(u)
    BY <1>2, <1>17 DEF Busy
  <2>4. MeetsSeen(t, L, A, L, A, F)
    BY <1>10, <2>1, <2>3 DEF MeetsSeen
  <2> QED  BY <1>1, <2>2, <2>4, SeenNext
<1> QED  BY <1>13, <1>20, <1>21 DEF GraceHolds, GraceCore

\* The compare-and-swap that puts it into the list.
LEMMA LinksMine ==
    ASSUME ListAssumption, NEW L, NEW A, NEW N, GraceCore(L, A, N), NEW t \in Threads,
           th[t].pc = "link", NEW n, n = gc[t].newnode,
           CAS(Left(t), <<Right(t), 0>>, <<n, 0>>),
           gc' = [gc EXCEPT ![t].newnode = NULL], Return(t, "yes")
    PROVE  GraceHolds'
<1>1. Core(L, A, N) /\ GcOK(L) /\ Seen(L, A)
  BY DEF GraceCore
<1>2. Busy(t)
  BY BusyAt
<1>3. PICK k, w, r : k = req[t].key /\ w = Left(t) /\ r = Right(t)
  OBVIOUS
<1>4. /\ req[t].op = "insert" /\ k < Key(r) /\ w \in A[t] /\ k \in Nat /\ Key(r) \in Nat
      /\ MemTyped /\ A \in [Threads -> SUBSET Nat]
  <2>1. Fine(th[t], req[t], A[t], t \in N) /\ r = th[t].right /\ r \in A[t] /\ w \in A[t]
        /\ MemTyped /\ k \in Nat
    BY <1>1, <1>2, <1>3, BusyPlace
  <2>2. Key(r) \in Nat
    BY <1>1, <1>2, <2>1, TMeets
  <2> QED  BY <1>1, <1>3, <2>1, <2>2 DEF Fine, Core
<1>5. ~IsThere(t)
  BY <1>3, <1>4 DEF IsThere
<1>6. n # NULL /\ n \in Unused(t) /\ mem[n].key = k /\ mem[n].next = <<r, 0>>
  BY <1>1, <1>3 DEF GcOK, Unused
<1>7. /\ n \in DOMAIN mem /\ n \notin L /\ \A u \in Threads : Busy(u) => n \notin A[u]
      /\ \A u \in Threads : n \notin Waiting(u)
      /\ \A u \in Threads \ {t} : n \notin Holding(u)
  BY <1>1, <1>6, UnusedIsNotMet
<1>8. n \in Nat /\ w \in DOMAIN mem /\ w # n
  <2>1. n \in Nat
    BY <1>4, <1>7, AnyNodesAre
  <2> QED  BY <1>1, <1>2, <1>4, <1>7, <2>1, TMeets
<1>9. mem[w].next = <<r, 0>> /\ mem' = [mem EXCEPT ![w].next = <<n, 0>>]
  BY <1>3 DEF CAS
<1>10. Sets(w, <<n, 0>>)
  <2>1. PICK z : z = <<n, 0>>
    OBVIOUS
  <2>2. z \in Nat \X {0, 1}
    BY <1>8, <2>1
  <2> QED  BY <1>4, <1>8, <1>9, <2>1, <2>2, SetsAre
<1>11. Links(w, n, k, r)
  BY <1>6, <1>7, <1>8, <1>10 DEF Sets, Links, Key
<1>12. PICK M, B : M = L \cup {n} /\ B = [u \in Threads |-> A[u] \cup {n}]
  OBVIOUS
<1>13. Core(M, B, N)'
  <2>1. Core(L \cup {n}, [u \in Threads |-> A[u] \cup {n}], N)'
    BY <1>1, <1>2, <1>3, <1>4, <1>5, <1>7, <1>8, <1>9, <1>11, LinkHome
  <2> QED  BY <1>12, <2>1
<1>14. w \in L
  <2>1. Live(w)
    BY <1>9 DEF Live, Marked
  <2> QED  BY <1>1, <1>2, <1>4, <2>1, TMeets
<1>15. Moves(t, Idle) /\ \A u \in Threads \ {t} : req'[u] = req[u]
  BY <1>1 DEF Return, Moves, Core, ReqOK
<1>16. Outside(L) /\ DOMAIN mem \subseteq DOMAIN mem'
  BY <1>9, <1>14 DEF Outside
<1>17. OthersNew(t) /\ th'[t] = Idle /\ \A u \in Threads \ {t} : th'[u] = th[u]
  BY <1>1, <1>15, <1>16, OthersNewIs, MovesIs DEF Core
<1>18. PICK l, p, z : l = gc[t].limbo /\ p = gc[t].pool /\ z = NULL
  OBVIOUS
<1>19. GcSets(t, l, p, z)
  <2>1. gc' = [gc EXCEPT ![t].newnode = z]
    BY <1>18
  <2> QED  BY <1>1, <1>18, <2>1, GcNewIs
<1>20. OneKeeps(t, L, M, l, p, z)
  <2>1. /\ Holding(t) \subseteq DOMAIN mem /\ Holding(t) \cap L = {}
        /\ Waiting(t) \cap Unused(t) = {} /\ n \notin p
        /\ \A x, y \in gc[t].limbo : x.node = y.node => x = y
        /\ \A u \in Threads \ {t} : Holding(u) \cap Holding(t) = {} /\ Holding(u) \cap L = {}
    BY <1>1, <1>18 DEF GcOK
  <2>2. PICK W, H : W = {y.node : y \in l} /\ H = W \cup p \cup ({z} \ {NULL})
    OBVIOUS
  <2>3. W = Waiting(t) /\ p \subseteq Unused(t) /\ H \subseteq Holding(t) /\ n \notin H
        /\ {z} \ {NULL} = {}
    BY <1>7, <1>18, <2>1, <2>2 DEF Waiting, Unused, Holding
  <2>4. z \notin p
    <3>1. p \subseteq DOMAIN mem
      BY <2>1, <2>3 DEF Holding
    <3>2. \A y \in DOMAIN mem : y \in Nat
      BY <1>4, AnyNodesAre
    <3> QED  BY <1>18, <3>1, <3>2 DEF NULL
  <2>5. /\ H \subseteq DOMAIN mem' /\ H \cap M = {}
        /\ W \cap (p \cup ({z} \ {NULL})) = {}
        /\ \A u \in Threads \ {t} : Holding(u) \cap (H \cup M) = {}
    BY <1>7, <1>12, <1>16, <2>1, <2>3
  <2>6. \A x, y \in l : x.node = y.node => x = y
    BY <1>18, <2>1
  <2> QED  BY <2>2, <2>4, <2>5, <2>6 DEF OneKeeps
<1>21. GcOK(M)'
  <2>1. z = NULL /\ th'[t].pc # "link"
    BY <1>17, <1>18 DEF Idle
  <2> QED  BY <1>1, <1>16, <1>17, <1>19, <1>20, <2>1, GcOKNext
<1>22. Seen(M, B)'
  <2>1. PICK F : F = {}
    OBVIOUS
  <2>2. LimboGrows(F)
    <3>1. gc'[t].limbo = l
      BY <1>19 DEF GcSets
    <3>2. \A u \in Threads : gc'[u].limbo = gc[u].limbo
      BY <1>18, <1>19, <3>1 DEF GcSets
    <3> QED  BY <3>2 DEF LimboGrows
  <2>3. \A u \in Threads : Busy(u)' => Busy(u) /\ req'[u].left = req[u].left
    BY <1>15, <1>17 DEF Busy
  <2>4. \A u \in Threads : B[u] \ M \subseteq A[u] \ L
    BY <1>12
  <2>5. MeetsSeen(t, L, A, M, B, F)
    BY <2>1, <2>3, <2>4 DEF MeetsSeen
  <2> QED  BY <1>1, <2>2, <2>5, SeenNext
<1> QED  BY <1>13, <1>21, <1>22 DEF GraceHolds, GraceCore

\* When it fails, the node goes back to the allocator.
LEMMA GivesBack ==
    ASSUME ListAssumption, NEW L, NEW A, NEW N, GraceCore(L, A, N), NEW t \in Threads,
           th[t].pc = "link", UNCHANGED mem, NEW n, n = gc[t].newnode,
           gc' = [gc EXCEPT ![t].pool = @ \cup {n}, ![t].newnode = NULL], Again(t)
    PROVE  GraceHolds'
<1>1. Core(L, A, N) /\ GcOK(L) /\ Seen(L, A)
  BY DEF GraceCore
<1>2. Busy(t) /\ ~Decided(th[t])
  <2>1. Busy(t)
    BY BusyAt
  <2>2. Fine(th[t], req[t], A[t], t \in N)
    BY <1>1, <2>1 DEF Core
  <2> QED  BY <2>1, <2>2 DEF Decided, Fine
<1>3. PICK N2 : Core(L, A, N2)'
  BY <1>1, <1>2, StartsAgain
<1>4. PICK s : s = Locals("search", head, head, <<head, 0>>)
  OBVIOUS
<1>5. Moves(t, s) /\ UNCHANGED req /\ s.pc = "search"
  BY <1>4 DEF Again, On, Moves, Locals
<1>6. Outside(L) /\ DOMAIN mem \subseteq DOMAIN mem'
  BY DEF Outside
<1>7. OthersNew(t) /\ th'[t] = s /\ \A u \in Threads \ {t} : th'[u] = th[u]
  BY <1>1, <1>5, <1>6, OthersNewIs, MovesIs DEF Core
<1>8. PICK l, p, z : l = gc[t].limbo /\ p = gc[t].pool \cup {n} /\ z = NULL
  OBVIOUS
<1>9. GcSets(t, l, p, z)
  <2>1. gc' = [gc EXCEPT ![t].pool = p, ![t].newnode = z]
    BY <1>8
  <2> QED  BY <1>1, <1>8, <2>1, GcPoolAndNewIs
<1>10. OneKeeps(t, L, L, l, p, z)
  <2>1. /\ Holding(t) \subseteq DOMAIN mem /\ Holding(t) \cap L = {} /\ n # NULL
        /\ Waiting(t) \cap Unused(t) = {}
        /\ \A x, y \in gc[t].limbo : x.node = y.node => x = y
        /\ \A u \in Threads \ {t} : Holding(u) \cap Holding(t) = {} /\ Holding(u) \cap L = {}
    BY <1>1 DEF GcOK
  <2>2. PICK W, H : W = {y.node : y \in l} /\ H = W \cup p \cup ({z} \ {NULL})
    OBVIOUS
  <2>3. W = Waiting(t) /\ p = Unused(t) /\ H = Holding(t) /\ {z} \ {NULL} = {}
    BY <1>8, <2>1, <2>2 DEF Waiting, Unused, Holding
  <2>4. z \notin p
    <3>1. p \subseteq DOMAIN mem
      BY <2>1, <2>3 DEF Holding
    <3>2. \A y \in DOMAIN mem : y \in Nat
      BY <1>1, AnyNodesAre DEF Core
    <3> QED  BY <1>8, <3>1, <3>2 DEF NULL
  <2>5. /\ H \subseteq DOMAIN mem' /\ H \cap L = {}
        /\ W \cap (p \cup ({z} \ {NULL})) = {}
        /\ \A u \in Threads \ {t} : Holding(u) \cap (H \cup L) = {}
    BY <1>6, <2>1, <2>3
  <2>6. \A x, y \in l : x.node = y.node => x = y
    BY <1>8, <2>1
  <2> QED  BY <2>2, <2>4, <2>5, <2>6 DEF OneKeeps
<1>11. GcOK(L)'
  <2>1. z = NULL /\ th'[t].pc # "link"
    BY <1>5, <1>7, <1>8
  <2> QED  BY <1>1, <1>6, <1>7, <1>9, <1>10, <2>1, GcOKNext
<1>12. Seen(L, A)'
  <2>1. PICK F : F = {}
    OBVIOUS
  <2>2. LimboGrows(F)
    <3>1. gc'[t].limbo = l
      BY <1>9 DEF GcSets
    <3>2. \A u \in Threads : gc'[u].limbo = gc[u].limbo
      BY <1>8, <1>9, <3>1 DEF GcSets
    <3> QED  BY <3>2 DEF LimboGrows
  <2>3. \A u \in Threads : Busy(u)' => Busy(u)
    BY <1>2, <1>7 DEF Busy
  <2>4. MeetsSeen(t, L, A, L, A, F)
    BY <1>5, <2>1, <2>3 DEF MeetsSeen
  <2> QED  BY <1>1, <2>2, <2>4, SeenNext
<1> QED  BY <1>3, <1>11, <1>12 DEF GraceHolds, GraceCore

\* process_callbacks: what F says may be freed nobody meets.
Freeing(t, F, X, p) ==
    /\ th[t].pc = "idle" /\ F \subseteq gc[t].limbo
    /\ \A r \in F, u \in Threads : th[u].pc # "idle" => <<u, req[u].left>> \notin r.while
    /\ X = {r.node : r \in F}
    /\ mem' = [n \in DOMAIN mem |-> IF n \in X THEN [mem[n] EXCEPT !.key = p] ELSE mem[n]]
    /\ gc' = [gc EXCEPT ![t].limbo = @ \ F, ![t].pool = @ \cup X]
    /\ UNCHANGED <<th, req, lin>>

LEMMA Frees ==
    ASSUME ListAssumption, NEW L, NEW A, NEW N, GraceCore(L, A, N), NEW t \in Threads,
           NEW F, NEW X, NEW p \in Nat, Freeing(t, F, X, p)
    PROVE  GraceHolds'
<1> USE DEF Freeing
<1>1. Core(L, A, N) /\ GcOK(L) /\ Seen(L, A)
  BY DEF GraceCore
<1>2. /\ Holding(t) \subseteq DOMAIN mem /\ Holding(t) \cap L = {}
      /\ Waiting(t) \cap Unused(t) = {} /\ gc[t].newnode = NULL
      /\ \A x, y \in gc[t].limbo : x.node = y.node => x = y
      /\ \A u \in Threads \ {t} : Holding(u) \cap Holding(t) = {} /\ Holding(u) \cap L = {}
  BY <1>1 DEF GcOK
<1>3. /\ X \subseteq Waiting(t) /\ X \subseteq Holding(t) /\ X \subseteq DOMAIN mem
      /\ X \cap L = {}
  BY <1>2 DEF Waiting, Holding
<1>4. ASSUME NEW u \in Threads, Busy(u) PROVE X \cap A[u] = {} /\ th[u].pc # "idle"
  <2>1. th[u].pc # "idle"
    BY <1>1, <1>4, BusyPlace DEF Places
  <2>2. ASSUME NEW x \in X, x \in A[u] PROVE FALSE
    <3>1. PICK v \in Threads : \E r \in gc[v].limbo :
             r.node = x /\ <<u, req[u].left>> \in r.while
      BY <1>1, <1>3, <1>4, <2>2 DEF Seen
    <3>2. PICK r \in gc[v].limbo : r.node = x /\ <<u, req[u].left>> \in r.while
      BY <3>1
    <3>3. v = t
      <4>1. x \in Holding(v) /\ x \in Holding(t)
        BY <1>3, <3>2 DEF Holding, Waiting
      <4> QED  BY <1>2, <4>1
    <3>4. PICK y \in F : y.node = x
      BY <2>2
    <3>5. r = y
      BY <1>2, <3>2, <3>3, <3>4
    <3> QED  BY <2>1, <3>2, <3>4, <3>5
  <2> QED  BY <2>1, <2>2
<1>5. Calm(L, A) /\ \A n \in (DOMAIN mem) \ X : mem'[n] = mem[n]
  <2>1. PICK m \in Nat : mem \in [0 .. m -> AnyNode]
    BY <1>1 DEF Core, MemTyped
  <2>2. ASSUME NEW n \in 0 .. m
        PROVE  (IF n \in X THEN [mem[n] EXCEPT !.key = p] ELSE mem[n]) \in AnyNode
    <3>1. mem[n] \in AnyNode
      BY <2>1
    <3> QED  BY <3>1 DEF AnyNode
  <2>3. mem' \in [0 .. m -> AnyNode]
    BY <2>1, <2>2
  <2>4. MemTyped'
    BY <2>3 DEF MemTyped, AnyNode
  <2>5. DOMAIN mem' = DOMAIN mem /\ \A n \in (DOMAIN mem) \ X : mem'[n] = mem[n]
    OBVIOUS
  <2>6. ASSUME NEW M, M \subseteq DOMAIN mem, M \cap X = {} PROVE Kept(M)
    BY <2>5, <2>6 DEF Kept, Key
  <2>7. L \subseteq DOMAIN mem /\ \A u \in Threads : Busy(u) => A[u] \subseteq DOMAIN mem
    BY <1>1 DEF Core, Chain, Met
  <2> QED  BY <1>3, <1>4, <2>4, <2>5, <2>6, <2>7 DEF Calm
<1>6. Core(L, A, N)'
  BY <1>1, <1>5, CoreCalm
<1>7. PICK l, q, z : l = gc[t].limbo \ F /\ q = gc[t].pool \cup X /\ z = gc[t].newnode
  OBVIOUS
<1>8. GcSets(t, l, q, z) /\ z = NULL
  <2>1. gc' = [gc EXCEPT ![t].limbo = l, ![t].pool = q]
    BY <1>7
  <2> QED  BY <1>1, <1>2, <1>7, <2>1, GcLimboAndPoolIs
<1>9. OthersNew(t)
  <2>1. ASSUME NEW u \in Threads \ {t}, th[u].pc = "link"
        PROVE  mem'[gc[u].newnode] = mem[gc[u].newnode]
    <3>1. gc[u].newnode \in Holding(u) /\ Holding(u) \subseteq DOMAIN mem
      BY <1>1, <2>1 DEF GcOK, Holding, Unused
    <3> QED  BY <1>2, <1>3, <1>5, <3>1
  <2> QED  BY <2>1 DEF OthersNew
<1>10. OneKeeps(t, L, L, l, q, z)
  <2>1. PICK W, H : W = {y.node : y \in l} /\ H = W \cup q \cup ({z} \ {NULL})
    OBVIOUS
  <2>2. {z} \ {NULL} = {} /\ Unused(t) = gc[t].pool
    BY <1>2, <1>8 DEF Unused
  <2>3. W \subseteq Waiting(t) /\ W \cap X = {}
    <3>1. \A x \in l, y \in F : x.node # y.node
      BY <1>2, <1>7
    <3> QED  BY <1>7, <2>1, <3>1 DEF Waiting
  <2>4. H \subseteq Holding(t) /\ W \cap q = {}
    BY <1>2, <1>3, <1>7, <2>1, <2>2, <2>3 DEF Holding
  <2>5. z \notin q
    <3>1. q \subseteq DOMAIN mem
      BY <1>2, <1>3, <1>7, <2>2 DEF Holding
    <3>2. \A y \in DOMAIN mem : y \in Nat
      BY <1>1, AnyNodesAre DEF Core
    <3> QED  BY <1>8, <3>1, <3>2 DEF NULL
  <2>6. /\ H \subseteq DOMAIN mem' /\ H \cap L = {}
        /\ W \cap (q \cup ({z} \ {NULL})) = {}
        /\ \A u \in Threads \ {t} : Holding(u) \cap (H \cup L) = {}
    BY <1>2, <2>2, <2>4
  <2>7. \A x, y \in l : x.node = y.node => x = y
    BY <1>2, <1>7
  <2> QED  BY <2>1, <2>5, <2>6, <2>7 DEF OneKeeps
<1>11. GcOK(L)'
  <2>1. z = NULL /\ th'[t].pc # "link" /\ DOMAIN mem \subseteq DOMAIN mem'
    BY <1>8
  <2> QED  BY <1>1, <1>8, <1>9, <1>10, <2>1, GcOKNext
<1>12. Seen(L, A)'
  <2>1. LimboGrows(F)
    <3>1. gc'[t].limbo = l
      BY <1>8 DEF GcSets
    <3>2. \A u \in Threads : \A r \in gc[u].limbo \ F : r \in gc'[u].limbo
      BY <1>7, <1>8, <3>1 DEF GcSets
    <3> QED  BY <3>2 DEF LimboGrows
  <2>2. \A u \in Threads : Busy(u)' => Busy(u)
    BY DEF Busy
  <2>3. \A u \in Threads : Busy(u) => \A x \in A[u] : \A r \in F : r.node # x
    BY <1>4
  <2>4. MeetsSeen(t, L, A, L, A, F)
    BY <2>2, <2>3 DEF MeetsSeen
  <2> QED  BY <1>1, <2>1, <2>4, SeenNext
<1> QED  BY <1>6, <1>11, <1>12 DEF GraceHolds, GraceCore

-----------------------------------------------------------------------------
\* A step that retires nothing and links nothing.
Quiet(t, L) ==
    /\ th[t].pc # "link" /\ UNCHANGED gc
    /\ DOMAIN mem \subseteq DOMAIN mem' /\ Outside(L)
    /\ \A u \in Threads \ {t} : req'[u] = req[u]
    /\ \E s : Moves(t, s) /\ s.pc # "link" /\ (s # Idle => req'[t].left = req[t].left)

LEMMA Quietly ==
    ASSUME NEW L, NEW A, NEW N, GraceCore(L, A, N), NEW t \in Threads, Busy(t), Quiet(t, L),
           NEW N2, Core(L, A, N2)'
    PROVE  GraceHolds'
<1>1. PICK s : Moves(t, s) /\ s.pc # "link" /\ (s # Idle => req'[t].left = req[t].left)
  BY DEF Quiet
<1>2. Core(L, A, N) /\ GcOK(L) /\ Seen(L, A)
  BY DEF GraceCore
<1>3. GcOK(L)' /\ Seen(L, A)'
  BY <1>1, <1>2, GcStays DEF Quiet
<1> QED  BY <1>3 DEF GraceHolds, GraceCore

\* As long as the memory stays.
LEMMA QuietOn ==
    ASSUME NEW L, NEW t \in Threads, NEW s, th[t].pc # "link", UNCHANGED <<mem, gc>>, On(t, s),
           s.pc # "link"
    PROVE  Quiet(t, L)
BY DEF Quiet, Outside, On, Moves

LEMMA QuietGoto ==
    ASSUME NEW L, NEW A, NEW N, Core(L, A, N), NEW t \in Threads, Busy(t),
           NEW p, th[t].pc # "link", UNCHANGED <<mem, gc>>, Goto(t, p), p # "link"
    PROVE  Quiet(t, L)
<1>1. th[t] \in Places
  BY DEF Core, Fine
<1>2. [th[t] EXCEPT !.pc = p].pc = p
  BY <1>1, PlaceWithPc
<1> QED  BY <1>2, QuietOn DEF Goto

LEMMA QuietReturns ==
    ASSUME NEW L, NEW A, NEW N, Core(L, A, N), NEW t \in Threads,
           NEW y, th[t].pc # "link", UNCHANGED <<mem, gc>>, Return(t, y)
    PROVE  Quiet(t, L)
<1>1. Moves(t, Idle) /\ Idle.pc # "link" /\ \A u \in Threads \ {t} : req'[u] = req[u]
  BY DEF Return, Moves, Idle, Core, ReqOK
<1> QED  BY <1>1 DEF Quiet, Outside

\* A new operation meets what is in the list.
LEMMA GraceBegins ==
    ASSUME ListAssumption, NEW L, NEW A, NEW N, GraceCore(L, A, N), NEW t \in Threads,
           BeginSearch(t), UNCHANGED gc
    PROVE  GraceHolds'
<1>1. Core(L, A, N) /\ GcOK(L) /\ Seen(L, A)
  BY DEF GraceCore
<1>2. PICK N2 : Core(L, [A EXCEPT ![t] = L], N2)'
  BY <1>1, Begin
<1>3. PICK s : s = Locals("search", head, head, <<head, 0>>)
  OBVIOUS
<1>4. /\ Moves(t, s) /\ th[t].pc = "idle" /\ UNCHANGED mem
      /\ \A u \in Threads \ {t} : req'[u] = req[u]
  BY <1>1, <1>3 DEF BeginSearch, Call, Moves, Core, ReqOK
<1>5. s.pc = "search"
  BY <1>3 DEF Locals
<1>6. PICK B : B = [A EXCEPT ![t] = L]
  OBVIOUS
<1>7. B[t] = L /\ \A u \in Threads \ {t} : B[u] = A[u]
  <2>1. A \in [Threads -> SUBSET Nat]
    BY <1>1 DEF Core
  <2> QED  BY <1>6, <2>1
<1>8. Outside(L) /\ DOMAIN mem \subseteq DOMAIN mem'
  BY <1>4 DEF Outside
<1>9. GcOK(L)' /\ Seen(L, B)'
  BY <1>1, <1>4, <1>5, <1>7, <1>8, GcStays
<1> QED  BY <1>2, <1>6, <1>9 DEF GraceHolds, GraceCore

-----------------------------------------------------------------------------
\* What the actions of QsbrLists are, said here.
LEMMA SchemeActions ==
    ASSUME NEW t
    PROVE  /\ Grace!StartOperation(t) => BeginSearch(t) /\ UNCHANGED gc
           /\ Grace!process_callbacks(t) => \E F, X : Freeing(t, F, X, KEY_MAX + 1)
<1>1. Grace!StartOperation(t) => BeginSearch(t) /\ UNCHANGED gc
  BY GraceShares, Zenon DEF Grace!StartOperation
<1>2. ASSUME Grace!process_callbacks(t)
      PROVE  \E F, X : Freeing(t, F, X, KEY_MAX + 1)
  <2>1. PICK F, X : F = {r \in gc[t].limbo : Grace!Freeable(r)} /\ X = {r.node : r \in F}
    OBVIOUS
  <2>2. /\ th[t].pc = "idle" /\ UNCHANGED <<th, req, lin>>
        /\ mem' = [n \in DOMAIN mem |->
                     IF n \in X THEN [mem[n] EXCEPT !.key = KEY_MAX + 1] ELSE mem[n]]
        /\ gc' = [gc EXCEPT ![t].limbo = @ \ F, ![t].pool = @ \cup X]
    BY <1>2, <2>1, GraceShares, Zenon DEF Grace!process_callbacks, Grace!POISON
  <2>3. \A r \in F, u \in Threads : th[u].pc # "idle" => <<u, req[u].left>> \notin r.while
    BY <2>1 DEF Grace!Freeable, Grace!Ended, Grace!Operations
  <2>4. F \subseteq gc[t].limbo
    BY <2>1
  <2>5. Freeing(t, F, X, KEY_MAX + 1)
    BY <2>1, <2>2, <2>3, <2>4, Zenon DEF Freeing
  <2> QED  BY <2>5
<1> QED  BY <1>1, <1>2

LEMMA RetiresIs ==
    ASSUME NEW t, NEW r, Grace!free_node_later(t, {r})
    PROVE  \E x : /\ x.node = r
                  /\ \A u \in Threads : th[u].pc # "idle" => <<u, req[u].left>> \in x.while
                  /\ gc' = [gc EXCEPT ![t].limbo = @ \cup {x}]
<1>1. PICK x : x = Grace!Retired(r)
  OBVIOUS
<1>2. {Grace!Retired(n) : n \in {r}} = {x}
  BY <1>1
<1>3. gc' = [gc EXCEPT ![t].limbo = @ \cup {x}]
  BY <1>2, Zenon DEF Grace!free_node_later
<1>4. x.node = r /\ x.while = {<<u, req[u].left>> : u \in {v \in Threads : th[v].pc # "idle"}}
  BY <1>1 DEF Grace!Retired, Grace!Operations
<1> QED  BY <1>3, <1>4

LEMMA SearchActions ==
    ASSUME NEW t, Grace!OptSearch(t)
    PROVE  \/ /\ th[t].pc = "search" /\ UNCHANGED <<mem, gc>>
              /\ On(t, [Locals(IF req[t].op = "find" THEN "pass" ELSE "look",
                               head, Succ(head), <<head, 0>>) EXCEPT !.then = th[t].then])
           \/ /\ th[t].pc = "look" /\ UNCHANGED <<mem, gc>>
              /\ IF Marked(mem[Right(t)].next) THEN Goto(t, "delete_right")
                 ELSE IF Key(Right(t)) >= req[t].key THEN Goto(t, th[t].then)
                 ELSE On(t, [th[t] EXCEPT !.pc = "step", !.left = Right(t)])
           \/ /\ th[t].pc = "delete_right" /\ Goto(t, "step")
              /\ \/ /\ CAS(Left(t), <<Right(t), 0>>, Unmarked(mem[Right(t)].next))
                    /\ Grace!free_node_later(t, {Right(t)})
                 \/ CASFails(Left(t), <<Right(t), 0>>) /\ UNCHANGED gc
           \/ /\ th[t].pc = "step" /\ UNCHANGED <<mem, gc>>
              /\ On(t, [th[t] EXCEPT !.pc = "look", !.right = Succ(Right(t))])
<1>1. "step" # "return"
  OBVIOUS
<1>2. Grace!Opt!OptStep(t) =>
         /\ th[t].pc = "step" /\ UNCHANGED mem
         /\ On(t, [th[t] EXCEPT !.pc = "look", !.right = Succ(Right(t))])
  BY OptShares, Zenon DEF Grace!Opt!OptStep
<1>3. Grace!physical_delete_right(t, "step") =>
         /\ Goto(t, "step")
         /\ \/ /\ CAS(Left(t), <<Right(t), 0>>, Unmarked(mem[Right(t)].next))
               /\ Grace!free_node_later(t, {Right(t)})
            \/ CASFails(Left(t), <<Right(t), 0>>) /\ UNCHANGED gc
  BY <1>1, GraceShares, Zenon DEF Grace!physical_delete_right
<1> QED  BY <1>2, <1>3, GraceShares, Zenon DEF Grace!OptSearch

LEMMA UpdateActions ==
    ASSUME NEW t
    PROVE  /\ Grace!OptFind(t) =>
                 \/ /\ th[t].pc = "pass" /\ Key(Right(t)) < req[t].key /\ UNCHANGED <<mem, gc>>
                    /\ On(t, [th[t] EXCEPT !.right = Succ(Right(t))])
                 \/ /\ th[t].pc = "pass" /\ Key(Right(t)) >= req[t].key /\ UNCHANGED <<mem, gc>>
                    /\ Return(t, IF IsThere(t) /\ ~Marked(mem[Right(t)].next)
                                 THEN "yes" ELSE "no")
           /\ Grace!OptInsert(t) =>
                 \/ NothingToDo(t) /\ UNCHANGED gc
                 \/ /\ Found(t, "insert") /\ ~IsThere(t) /\ Goto(t, "link")
                    /\ \E n, x : Allocating(t, n, x)
                 \/ /\ th[t].pc = "link" /\ Return(t, "yes")
                    /\ CAS(Left(t), <<Right(t), 0>>, <<gc[t].newnode, 0>>)
                    /\ gc' = [gc EXCEPT ![t].newnode = NULL]
                 \/ /\ th[t].pc = "link" /\ UNCHANGED mem /\ Again(t)
                    /\ gc' = [gc EXCEPT ![t].pool = @ \cup {gc[t].newnode}, ![t].newnode = NULL]
           /\ Grace!OptDelete(t) =>
                 \/ NothingToDo(t) /\ UNCHANGED gc
                 \/ /\ Found(t, "delete") /\ IsThere(t) /\ UNCHANGED <<mem, gc>>
                    /\ On(t, [th[t] EXCEPT !.pc = "mark", !.link = Unmarked(mem[Right(t)].next)])
                 \/ MarkRight(t, "unlink") /\ UNCHANGED gc
                 \/ /\ th[t].pc = "unlink" /\ Goto(t, "return")
                    /\ CAS(Left(t), <<Right(t), 0>>, Unmarked(mem[Right(t)].next))
                    /\ Grace!free_node_later(t, {Right(t)})
                 \/ /\ th[t].pc = "unlink" /\ UNCHANGED <<mem, gc>>
                    /\ On(t, [Locals("search", head, head, <<head, 0>>) EXCEPT !.then = "return"])
                 \/ th[t].pc = "return" /\ Return(t, "yes") /\ UNCHANGED <<mem, gc>>
<1>1. Grace!NULL = NULL
  BY DEF Grace!NULL, NULL
<1>2. Grace!OptFind(t) =>
         \/ /\ th[t].pc = "pass" /\ Key(Right(t)) < req[t].key /\ UNCHANGED <<mem, gc>>
            /\ On(t, [th[t] EXCEPT !.right = Succ(Right(t))])
         \/ /\ th[t].pc = "pass" /\ Key(Right(t)) >= req[t].key /\ UNCHANGED <<mem, gc>>
            /\ Return(t, IF IsThere(t) /\ ~Marked(mem[Right(t)].next) THEN "yes" ELSE "no")
  <2>1. Grace!Opt!Pass(t) =>
           /\ th[t].pc = "pass" /\ Key(Right(t)) < req[t].key /\ UNCHANGED mem
           /\ On(t, [th[t] EXCEPT !.right = Succ(Right(t))])
    BY OptShares, Zenon DEF Grace!Opt!Pass
  <2>2. Grace!Opt!harris_find(t) =>
           /\ th[t].pc = "pass" /\ Key(Right(t)) >= req[t].key /\ UNCHANGED mem
           /\ Return(t, IF IsThere(t) /\ ~Marked(mem[Right(t)].next) THEN "yes" ELSE "no")
    BY OptShares, Zenon DEF Grace!Opt!harris_find, Grace!Opt!IsIn
  <2> QED  BY <2>1, <2>2 DEF Grace!OptFind
<1>3. ASSUME Grace!Allocate(t, Right(t), "link")
      PROVE  /\ Goto(t, "link")
             /\ \E n, x : Allocating(t, n, x)
  <2>1. PICK n \in IF gc[t].pool = {} THEN {Fresh} ELSE gc[t].pool :
           /\ mem' = [m \in (DOMAIN mem) \cup {n} |->
                        IF m = n THEN node(req[t].key, Right(t)) ELSE mem[m]]
           /\ gc' = [gc EXCEPT ![t].pool = @ \ {n}, ![t].newnode = n]
           /\ Goto(t, "link")
    BY <1>3, GraceShares, Zenon DEF Grace!Allocate
  <2>2. PICK x : x = node(req[t].key, Right(t))
    OBVIOUS
  <2>3. mem' = [m \in (DOMAIN mem) \cup {n} |-> IF m = n THEN x ELSE mem[m]]
    BY <2>1, <2>2, Zenon
  <2>4. Allocating(t, n, x)
    BY <2>1, <2>2, <2>3, Zenon DEF Allocating
  <2> QED  BY <2>1, <2>4
<1>4. Grace!OptInsert(t) =>
         \/ NothingToDo(t) /\ UNCHANGED gc
         \/ Found(t, "insert") /\ ~IsThere(t) /\ Grace!Allocate(t, Right(t), "link")
         \/ /\ th[t].pc = "link" /\ Return(t, "yes")
            /\ CAS(Left(t), <<Right(t), 0>>, <<gc[t].newnode, 0>>)
            /\ gc' = [gc EXCEPT ![t].newnode = NULL]
         \/ /\ th[t].pc = "link" /\ UNCHANGED mem /\ Again(t)
            /\ gc' = [gc EXCEPT ![t].pool = @ \cup {gc[t].newnode}, ![t].newnode = NULL]
  BY <1>1, GraceShares, Zenon
     DEF Grace!OptInsert, Grace!Linking, Grace!GiveBack, Grace!New, CASFails
<1>5. Grace!physical_delete_right(t, "return") =>
         \/ /\ Goto(t, "return")
            /\ CAS(Left(t), <<Right(t), 0>>, Unmarked(mem[Right(t)].next))
            /\ Grace!free_node_later(t, {Right(t)})
         \/ /\ UNCHANGED <<mem, gc>>
            /\ On(t, [Locals("search", head, head, <<head, 0>>) EXCEPT !.then = "return"])
  BY GraceShares, Zenon DEF Grace!physical_delete_right, CASFails
<1>6. Grace!Opt!ReadNext(t) =>
         /\ Found(t, "delete") /\ IsThere(t) /\ UNCHANGED mem
         /\ On(t, [th[t] EXCEPT !.pc = "mark", !.link = Unmarked(mem[Right(t)].next)])
  BY OptShares, Zenon DEF Grace!Opt!ReadNext
<1>7. Grace!Opt!Mark(t) => MarkRight(t, "unlink")
  BY OptShares, Zenon DEF Grace!Opt!Mark
<1>8. Grace!OptDelete(t) =>
         \/ NothingToDo(t) /\ UNCHANGED gc
         \/ (Grace!Opt!ReadNext(t) \/ Grace!Opt!Mark(t)) /\ UNCHANGED gc
         \/ th[t].pc = "unlink" /\ Grace!physical_delete_right(t, "return")
         \/ th[t].pc = "return" /\ Return(t, "yes") /\ UNCHANGED <<mem, gc>>
  BY GraceShares, Zenon DEF Grace!OptDelete
<1>9. Grace!OptInsert(t) =>
         \/ NothingToDo(t) /\ UNCHANGED gc
         \/ /\ Found(t, "insert") /\ ~IsThere(t) /\ Goto(t, "link")
            /\ \E n, x : Allocating(t, n, x)
         \/ /\ th[t].pc = "link" /\ Return(t, "yes")
            /\ CAS(Left(t), <<Right(t), 0>>, <<gc[t].newnode, 0>>)
            /\ gc' = [gc EXCEPT ![t].newnode = NULL]
         \/ /\ th[t].pc = "link" /\ UNCHANGED mem /\ Again(t)
            /\ gc' = [gc EXCEPT ![t].pool = @ \cup {gc[t].newnode}, ![t].newnode = NULL]
  BY <1>3, <1>4, Zenon
<1>10. Grace!OptDelete(t) =>
          \/ NothingToDo(t) /\ UNCHANGED gc
          \/ /\ Found(t, "delete") /\ IsThere(t) /\ UNCHANGED <<mem, gc>>
             /\ On(t, [th[t] EXCEPT !.pc = "mark", !.link = Unmarked(mem[Right(t)].next)])
          \/ MarkRight(t, "unlink") /\ UNCHANGED gc
          \/ /\ th[t].pc = "unlink" /\ Goto(t, "return")
             /\ CAS(Left(t), <<Right(t), 0>>, Unmarked(mem[Right(t)].next))
             /\ Grace!free_node_later(t, {Right(t)})
          \/ /\ th[t].pc = "unlink" /\ UNCHANGED <<mem, gc>>
             /\ On(t, [Locals("search", head, head, <<head, 0>>) EXCEPT !.then = "return"])
          \/ th[t].pc = "return" /\ Return(t, "yes") /\ UNCHANGED <<mem, gc>>
  BY <1>5, <1>6, <1>7, <1>8, Zenon
<1> QED  BY <1>2, <1>9, <1>10, Zenon

\* A node is taken out of the list and retired.
LEMMA Retiring ==
    ASSUME ListAssumption, NEW L, NEW A, NEW N, GraceCore(L, A, N), NEW t \in Threads, Busy(t),
           th[t].pc # "link", NEW p, p # "link", Goto(t, p),
           NEW r \in L, NEW l, CAS(Left(t), <<r, 0>>, l), Grace!free_node_later(t, {r}),
           NEW N2, Core(L \ {r}, A, N2)'
    PROVE  GraceHolds'
<1>1. Core(L, A, N) /\ GcOK(L) /\ Seen(L, A)
  BY DEF GraceCore
<1>2. PICK w : w = Left(t)
  OBVIOUS
<1>3. mem[w].next = <<r, 0>> /\ mem' = [mem EXCEPT ![w].next = l]
  BY <1>2 DEF CAS
<1>4. w \in L
  <2>1. Live(w) /\ w \in A[t]
    BY <1>1, <1>2, <1>3, BusyPlace DEF Live, Marked
  <2> QED  BY <1>1, <2>1, TMeets
<1>5. Outside(L) /\ DOMAIN mem \subseteq DOMAIN mem'
  BY <1>3, <1>4 DEF Outside
<1>6. PICK s : s = [th[t] EXCEPT !.pc = p]
  OBVIOUS
<1>7. th[t] \in Places
  BY <1>1, BusyPlace
<1>8. s.pc = p /\ s.left = th[t].left
  BY <1>6, <1>7, PlaceWithPc
<1>9. s # Idle
  BY <1>6, <1>7 DEF Places, Idle
<1>10. Moves(t, s) /\ UNCHANGED req
  BY <1>6 DEF Goto, On, Moves
<1>11. PICK x : /\ x.node = r
                /\ \A u \in Threads : th[u].pc # "idle" => <<u, req[u].left>> \in x.while
                /\ gc' = [gc EXCEPT ![t].limbo = @ \cup {x}]
  BY RetiresIs, Zenon
<1>12. \A u \in Threads : Busy(u) => <<u, req[u].left>> \in x.while
  <2>1. \A u \in Threads : Busy(u) => th[u].pc # "idle"
    BY <1>1, BusyPlace DEF Places
  <2> QED  BY <1>11, <2>1
<1>13. GcOK(L \ {r})' /\ Seen(L \ {r}, A)'
  BY <1>1, <1>5, <1>8, <1>9, <1>10, <1>11, <1>12, GcRetires
<1> QED  BY <1>13 DEF GraceHolds, GraceCore

LEMMA SearchKeeps ==
    ASSUME ListAssumption, NEW L, NEW A, NEW N, GraceCore(L, A, N), NEW t \in Threads,
           Grace!OptSearch(t)
    PROVE  GraceHolds'
<1>1. Core(L, A, N)
  BY DEF GraceCore
<1>2. PICK r : r = Right(t)
  OBVIOUS
<1> HIDE DEF Core, GraceCore, GraceHolds
<1>3. CASE /\ th[t].pc = "search" /\ UNCHANGED <<mem, gc>>
           /\ On(t, [Locals(IF req[t].op = "find" THEN "pass" ELSE "look",
                            head, Succ(head), <<head, 0>>) EXCEPT !.then = th[t].then])
  <2>1. PICK p : p = IF req[t].op = "find" THEN "pass" ELSE "look"
    OBVIOUS
  <2>2. PICK s : s = [Locals(p, head, Succ(head), <<head, 0>>) EXCEPT !.then = th[t].then]
    OBVIOUS
  <2>3. On(t, s) /\ On(t, [Locals(p, head, Succ(head), <<head, 0>>) EXCEPT !.then = th[t].then])
    BY <1>3, <2>1, <2>2
  <2>4. s.pc = p /\ p \in {"validate", "look", "pass"}
        /\ (p = "pass" => req[t].op = "find") /\ p # "link"
    BY <2>1, <2>2 DEF Locals
  <2>5. Busy(t)
    BY <1>3, BusyAt
  <2>6. \E N2 : Core(L, A, N2)'
    BY <1>1, <1>3, <2>3, <2>4, <2>5, Enters
  <2>7. Quiet(t, L)
    BY <1>3, <2>3, <2>4, QuietOn
  <2> QED  BY <2>5, <2>6, <2>7, Quietly
<1>4. CASE /\ th[t].pc = "look" /\ UNCHANGED <<mem, gc>>
           /\ IF Marked(mem[Right(t)].next) THEN Goto(t, "delete_right")
              ELSE IF Key(Right(t)) >= req[t].key THEN Goto(t, th[t].then)
              ELSE On(t, [th[t] EXCEPT !.pc = "step", !.left = Right(t)])
  <2>1. Busy(t)
    BY <1>4, BusyAt
  <2>2. th[t] \in Places
    BY <1>1, <2>1, BusyPlace
  <2>3. \E N2 : Core(L, A, N2)'
    BY <1>1, <1>4, <2>1, Looks
  <2>4. \/ Goto(t, "delete_right") \/ Goto(t, th[t].then)
        \/ On(t, [th[t] EXCEPT !.pc = "step", !.left = Right(t)])
    BY <1>4
  <2>5. th[t].then # "link"
    BY <2>2 DEF Places
  <2>6. [th[t] EXCEPT !.pc = "step", !.left = Right(t)].pc # "link"
    BY <2>2 DEF Places
  <2>7. Quiet(t, L)
    BY <1>1, <1>4, <2>1, <2>4, <2>5, <2>6, QuietGoto, QuietOn
  <2> QED  BY <2>1, <2>3, <2>7, Quietly
<1>5. CASE /\ th[t].pc = "delete_right" /\ Goto(t, "step")
           /\ CAS(Left(t), <<Right(t), 0>>, Unmarked(mem[Right(t)].next))
           /\ Grace!free_node_later(t, {Right(t)})
  <2>1. Busy(t)
    BY <1>5, BusyAt
  <2>2. CAS(Left(t), <<r, 0>>, Unmarked(mem[r].next)) /\ Grace!free_node_later(t, {r})
    BY <1>2, <1>5
  <2>3. r \in L /\ \E N2 : Core(L \ {r}, A, N2)'
    BY <1>1, <1>2, <1>5, <2>1, <2>2, GoesToStep
  <2> QED  BY <1>5, <2>1, <2>2, <2>3, Retiring
<1>6. CASE /\ th[t].pc = "delete_right" /\ Goto(t, "step")
           /\ CASFails(Left(t), <<Right(t), 0>>) /\ UNCHANGED gc
  <2>1. Busy(t)
    BY <1>6, BusyAt
  <2>2. UNCHANGED <<mem, gc>>
    BY <1>6 DEF CASFails
  <2>3. \E N2 : Core(L, A, N2)'
    BY <1>1, <1>2, <1>6, <2>1, <2>2, GoesToStep
  <2>4. Quiet(t, L)
    BY <1>1, <1>6, <2>1, <2>2, QuietGoto
  <2> QED  BY <2>1, <2>3, <2>4, Quietly
<1>7. CASE /\ th[t].pc = "step" /\ UNCHANGED <<mem, gc>>
           /\ On(t, [th[t] EXCEPT !.pc = "look", !.right = Succ(Right(t))])
  <2>1. Busy(t)
    BY <1>7, BusyAt
  <2>2. th[t] \in Places
    BY <1>1, <2>1, BusyPlace
  <2>3. PICK p : p = "look"
    OBVIOUS
  <2>4. On(t, [th[t] EXCEPT !.pc = p, !.right = Succ(Right(t))])
    BY <1>7, <2>3
  <2>5. \E N2 : Core(L, A, N2)'
    BY <1>1, <1>7, <2>1, <2>3, <2>4, Advances
  <2>6. [th[t] EXCEPT !.pc = p, !.right = Succ(Right(t))].pc # "link"
    BY <2>2, <2>3 DEF Places
  <2>7. Quiet(t, L)
    BY <1>7, <2>4, <2>6, QuietOn
  <2> QED  BY <2>1, <2>5, <2>7, Quietly
<1> QED  BY <1>3, <1>4, <1>5, <1>6, <1>7, SearchActions

LEMMA FindKeeps ==
    ASSUME ListAssumption, NEW L, NEW A, NEW N, GraceCore(L, A, N), NEW t \in Threads,
           Grace!OptFind(t)
    PROVE  GraceHolds'
<1>1. Core(L, A, N)
  BY DEF GraceCore
<1> HIDE DEF Core, GraceCore, GraceHolds
<1>2. CASE /\ th[t].pc = "pass" /\ Key(Right(t)) < req[t].key /\ UNCHANGED <<mem, gc>>
           /\ On(t, [th[t] EXCEPT !.right = Succ(Right(t))])
  <2>1. Busy(t)
    BY <1>2, BusyAt
  <2>2. th[t] \in Places
    BY <1>1, <2>1, BusyPlace
  <2>3. PICK p : p = "pass"
    OBVIOUS
  <2>4. PICK s : s = [th[t] EXCEPT !.pc = p, !.right = Succ(Right(t))]
    OBVIOUS
  <2>5. s = [th[t] EXCEPT !.right = Succ(Right(t))] /\ s.pc = "pass"
    BY <1>2, <2>2, <2>3, <2>4 DEF Places
  <2>6. On(t, s) /\ On(t, [th[t] EXCEPT !.pc = p, !.right = Succ(Right(t))])
    BY <1>2, <2>4, <2>5
  <2>7. \E N2 : Core(L, A, N2)'
    BY <1>1, <1>2, <2>1, <2>3, <2>6, Advances
  <2>8. Quiet(t, L)
    BY <1>2, <2>5, <2>6, QuietOn
  <2> QED  BY <2>1, <2>7, <2>8, Quietly
<1>3. CASE /\ th[t].pc = "pass" /\ Key(Right(t)) >= req[t].key /\ UNCHANGED <<mem, gc>>
           /\ Return(t, IF IsThere(t) /\ ~Marked(mem[Right(t)].next) THEN "yes" ELSE "no")
  <2>1. Busy(t)
    BY <1>3, BusyAt
  <2>2. req[t].key <= Key(Right(t)) /\ req[t].op = "find"
    BY <1>1, <1>3, <2>1, BusyPlace, TMeets DEF Fine
  <2>3. Core(L, A, N)'
    BY <1>1, <1>3, <2>1, <2>2, FindsAnswer
  <2>4. Quiet(t, L)
    BY <1>1, <1>3, QuietReturns
  <2> QED  BY <2>1, <2>3, <2>4, Quietly
<1> QED  BY <1>2, <1>3, UpdateActions

LEMMA NothingKeeps ==
    ASSUME ListAssumption, NEW L, NEW A, NEW N, GraceCore(L, A, N), NEW t \in Threads,
           NothingToDo(t), UNCHANGED gc
    PROVE  GraceHolds'
<1>1. Core(L, A, N)
  BY DEF GraceCore
<1>2. th[t].pc = "found" /\ Return(t, "no") /\ UNCHANGED mem
  BY DEF NothingToDo, Found
<1>3. Busy(t)
  BY <1>2, BusyAt
<1> HIDE DEF Core, GraceCore, GraceHolds
<1>4. Core(L, A, N)'
  BY <1>1, <1>3, NothingAnswers
<1>5. Quiet(t, L)
  BY <1>1, <1>2, QuietReturns
<1> QED  BY <1>3, <1>4, <1>5, Quietly

LEMMA InsertKeeps ==
    ASSUME ListAssumption, NEW L, NEW A, NEW N, GraceCore(L, A, N), NEW t \in Threads,
           Grace!OptInsert(t)
    PROVE  GraceHolds'
<1> HIDE DEF GraceCore, GraceHolds
<1>1. CASE NothingToDo(t) /\ UNCHANGED gc
  BY <1>1, NothingKeeps
<1>2. CASE /\ Found(t, "insert") /\ ~IsThere(t) /\ Goto(t, "link")
           /\ \E n, x : Allocating(t, n, x)
  BY <1>2, Allocates
<1>3. CASE /\ th[t].pc = "link" /\ Return(t, "yes")
           /\ CAS(Left(t), <<Right(t), 0>>, <<gc[t].newnode, 0>>)
           /\ gc' = [gc EXCEPT ![t].newnode = NULL]
  <2>1. PICK n : n = gc[t].newnode
    OBVIOUS
  <2>2. CAS(Left(t), <<Right(t), 0>>, <<n, 0>>)
    BY <1>3, <2>1
  <2> QED  BY <1>3, <2>1, <2>2, LinksMine
<1>4. CASE /\ th[t].pc = "link" /\ UNCHANGED mem /\ Again(t)
           /\ gc' = [gc EXCEPT ![t].pool = @ \cup {gc[t].newnode}, ![t].newnode = NULL]
  <2>1. PICK n : n = gc[t].newnode
    OBVIOUS
  <2>2. gc' = [gc EXCEPT ![t].pool = @ \cup {n}, ![t].newnode = NULL]
    BY <1>4, <2>1, Zenon
  <2> QED  BY <1>4, <2>1, <2>2, GivesBack
<1> QED  BY <1>1, <1>2, <1>3, <1>4, UpdateActions

LEMMA DeleteKeeps ==
    ASSUME ListAssumption, NEW L, NEW A, NEW N, GraceCore(L, A, N), NEW t \in Threads,
           Grace!OptDelete(t)
    PROVE  GraceHolds'
<1>1. Core(L, A, N)
  BY DEF GraceCore
<1>2. PICK r : r = Right(t)
  OBVIOUS
<1> HIDE DEF Core, GraceCore, GraceHolds
<1>3. CASE NothingToDo(t) /\ UNCHANGED gc
  BY <1>3, NothingKeeps
<1>4. CASE /\ Found(t, "delete") /\ IsThere(t) /\ UNCHANGED <<mem, gc>>
           /\ On(t, [th[t] EXCEPT !.pc = "mark", !.link = Unmarked(mem[Right(t)].next)])
  <2>1. Busy(t) /\ th[t].pc = "found"
    BY <1>4, BusyAt DEF Found
  <2>2. th[t] \in Places
    BY <1>1, <2>1, BusyPlace
  <2>3. \E N2 : Core(L, A, N2)'
    BY <1>1, <1>4, <2>1, ReadsNext
  <2>4. [th[t] EXCEPT !.pc = "mark", !.link = Unmarked(mem[Right(t)].next)].pc # "link"
    BY <2>2 DEF Places
  <2>5. Quiet(t, L)
    BY <1>4, <2>1, <2>4, QuietOn
  <2> QED  BY <2>1, <2>3, <2>5, Quietly
<1>5. CASE MarkRight(t, "unlink") /\ UNCHANGED gc
  <2>1. th[t].pc = "mark" /\ Busy(t)
    BY <1>5, BusyAt DEF MarkRight
  <2>2. \E N2 : Core(L, A, N2)'
    BY <1>1, <1>5, <2>1, Marks
  <2>3. CASE CASFails(r, th[t].link) /\ Again(t)
    <3>1. PICK s : s = Locals("search", head, head, <<head, 0>>)
      OBVIOUS
    <3>2. On(t, s) /\ s.pc = "search" /\ UNCHANGED <<mem, gc>>
      BY <1>5, <2>3, <3>1 DEF Again, Locals, CASFails
    <3>3. Quiet(t, L)
      BY <2>1, <3>2, QuietOn
    <3> QED  BY <2>1, <2>2, <3>3, Quietly
  <2>4. CASE CAS(r, th[t].link, WithMark(th[t].link)) /\ Goto(t, "unlink")
    <3>1. PICK s, l : s = [th[t] EXCEPT !.pc = "unlink"] /\ l = WithMark(th[t].link)
      OBVIOUS
    <3>2. Fine(th[t], req[t], A[t], t \in N) /\ th[t] \in Places /\ r \in A[t] /\ r = th[t].right
      BY <1>1, <1>2, <2>1, BusyPlace
    <3>3. s.pc = "unlink" /\ Moves(t, s) /\ UNCHANGED req
      BY <2>4, <3>1, <3>2, PlaceWithPc DEF Goto, On, Moves
    <3>4. mem' = [mem EXCEPT ![r].next = l] /\ mem[r].next = th[t].link
      BY <2>4, <3>1 DEF CAS
    <3>5. r \in L
      <4>1. Live(r)
        BY <2>1, <3>2, <3>4 DEF Fine, Live
      <4> QED  BY <1>1, <2>1, <3>2, <4>1, TMeets
    <3>6. Outside(L) /\ DOMAIN mem \subseteq DOMAIN mem'
      BY <3>4, <3>5 DEF Outside
    <3>7. Quiet(t, L)
      BY <1>5, <2>1, <3>3, <3>6 DEF Quiet
    <3> QED  BY <2>1, <2>2, <3>7, Quietly
  <2> QED  BY <1>2, <1>5, <2>3, <2>4 DEF MarkRight
<1>6. CASE /\ th[t].pc = "unlink" /\ Goto(t, "return")
           /\ CAS(Left(t), <<Right(t), 0>>, Unmarked(mem[Right(t)].next))
           /\ Grace!free_node_later(t, {Right(t)})
  <2>1. Busy(t)
    BY <1>6, BusyAt
  <2>2. CAS(Left(t), <<r, 0>>, Unmarked(mem[r].next)) /\ Grace!free_node_later(t, {r})
    BY <1>2, <1>6
  <2>3. PICK s : s = [th[t] EXCEPT !.pc = "return"]
    OBVIOUS
  <2>4. Fine(th[t], req[t], A[t], t \in N) /\ th[t] \in Places /\ r = th[t].right
    BY <1>1, <1>2, <2>1, BusyPlace
  <2>5. /\ s.pc = "return" /\ s.left = th[t].left /\ s.right = th[t].right
        /\ s.then = th[t].then /\ s.link = th[t].link /\ s \in Places
    BY <2>3, <2>4, PlaceWithPc
  <2>6. ~Live(r) /\ On(t, s)
    BY <1>6, <2>3, <2>4 DEF Fine, Goto
  <2>7. Fine(s, req[t], A[t], t \in N)
    BY <1>6, <2>4, <2>5 DEF Fine
  <2>8. Decided(s) <=> Decided(th[t])
    BY <1>6, <2>5 DEF Decided
  <2>9. r \in L /\ \E N2 : Core(L \ {r}, A, N2)'
    BY <1>1, <1>2, <2>1, <2>2, <2>6, <2>7, <2>8, UnlinkOn
  <2> QED  BY <1>6, <2>1, <2>2, <2>9, Retiring
<1>7. CASE /\ th[t].pc = "unlink" /\ UNCHANGED <<mem, gc>>
           /\ On(t, [Locals("search", head, head, <<head, 0>>) EXCEPT !.then = "return"])
  <2>1. Busy(t)
    BY <1>7, BusyAt
  <2>2. PICK x, s : x = "return" /\ s = [Locals("search", head, head, <<head, 0>>) EXCEPT !.then = x]
    OBVIOUS
  <2>3. On(t, s) /\ On(t, [Locals("search", head, head, <<head, 0>>) EXCEPT !.then = x])
        /\ s.pc = "search"
    BY <1>7, <2>2 DEF Locals
  <2>4. Decided(th[t]) /\ req[t].op = "delete"
    <3>1. Fine(th[t], req[t], A[t], t \in N)
      BY <1>1, <2>1, BusyPlace
    <3> QED  BY <1>7, <3>1 DEF Decided, Fine
  <2>5. \E N2 : Core(L, A, N2)'
    BY <1>1, <1>7, <2>1, <2>2, <2>3, <2>4, Restarts
  <2>6. Quiet(t, L)
    BY <1>7, <2>3, QuietOn
  <2> QED  BY <2>1, <2>5, <2>6, Quietly
<1>8. CASE th[t].pc = "return" /\ Return(t, "yes") /\ UNCHANGED <<mem, gc>>
  <2>1. Busy(t)
    BY <1>8, BusyAt
  <2>2. Core(L, A, N)'
    BY <1>1, <1>2, <1>8, <2>1, DeleteReturns
  <2>3. Quiet(t, L)
    BY <1>1, <1>8, QuietReturns
  <2> QED  BY <2>1, <2>2, <2>3, Quietly
<1> QED  BY <1>3, <1>4, <1>5, <1>6, <1>7, <1>8, UpdateActions

-----------------------------------------------------------------------------
LEMMA GraceFirst == ASSUME ListAssumption, Grace!GraceInit PROVE GraceHolds
<1>1. Init /\ gc = [t \in Threads |-> [limbo |-> {}, pool |-> {}, newnode |-> NULL]]
  BY GraceShares DEF Grace!GraceInit, Grace!NULL, NULL
<1>2. PICK A, N, L : /\ A = [t \in Threads |-> {}] /\ N = {} /\ Core(L, A, N)
                     /\ \A t \in Threads : ~Busy(t)
  BY <1>1, CoreFirst
<1>3. \A t \in Threads : /\ gc[t] = [limbo |-> {}, pool |-> {}, newnode |-> NULL]
                         /\ th[t].pc = "idle"
  BY <1>1, <1>2 DEF Busy, Idle
<1>4. \A t \in Threads : Waiting(t) = {} /\ Unused(t) = {} /\ Holding(t) = {}
  BY <1>3 DEF Waiting, Unused, Holding
<1>5. GcOK(L)
  BY <1>1, <1>3, <1>4 DEF GcOK
<1>6. Seen(L, A)
  BY <1>2 DEF Seen
<1> QED  BY <1>2, <1>5, <1>6 DEF GraceHolds, GraceCore

LEMMA GraceStutters ==
    ASSUME ListAssumption, NEW L, NEW A, NEW N, GraceCore(L, A, N), UNCHANGED <<vars, gc>>
    PROVE  GraceHolds'
<1>1. Core(L, A, N)'
  <2>1. Core(L, A, N) /\ UNCHANGED vars
    BY DEF GraceCore
  <2> QED  BY <2>1, CoreStutters
<1>2. GcOK(L)' /\ Seen(L, A)'
  BY DEF GraceCore, GcOK, Seen, vars, Holding, Waiting, Unused, NULL, Right, Busy, Idle
<1> QED  BY <1>1, <1>2 DEF GraceHolds, GraceCore

\* The list of src/src/linkedlist-qsbr-harris_opt/harris_opt.c, whose nodes are used again
\* when the operations that may have met them have ended, is a linearizable set too.
THEOREM QsbrHarrisOptLinearizable ==
    ASSUME ListAssumption PROVE Grace!OptSpec => []Grace!Linearizable
<1>1. Grace!GraceInit => GraceHolds
  BY GraceFirst
<1>2. GraceHolds /\ [Grace!OptNext]_Grace!graceVars => GraceHolds'
  <2> SUFFICES ASSUME GraceHolds, [Grace!OptNext]_Grace!graceVars PROVE GraceHolds'
    OBVIOUS
  <2>1. PICK L, A, N : GraceCore(L, A, N)
    BY DEF GraceHolds
  <2> HIDE DEF GraceCore, GraceHolds
  <2>2. CASE UNCHANGED <<vars, gc>>
    BY <2>1, <2>2, GraceStutters
  <2>3. ASSUME NEW t \in Threads, Grace!StartOperation(t) PROVE GraceHolds'
    BY <2>1, <2>3, SchemeActions, GraceBegins
  <2>4. ASSUME NEW t \in Threads, Grace!process_callbacks(t) PROVE GraceHolds'
    <3>1. KEY_MAX + 1 \in Nat
      BY KeysAre
    <3>2. PICK F, X : Freeing(t, F, X, KEY_MAX + 1)
      BY <2>4, SchemeActions
    <3> QED  BY <2>1, <3>1, <3>2, Frees
  <2>5. ASSUME NEW t \in Threads,
               Grace!OptSearch(t) \/ Grace!OptFind(t) \/ Grace!OptInsert(t) \/ Grace!OptDelete(t)
        PROVE  GraceHolds'
    BY <2>1, <2>5, SearchKeeps, FindKeeps, InsertKeeps, DeleteKeeps
  <2>6. CASE Grace!OptNext
    <3>1. \/ AllDone /\ UNCHANGED gc
          \/ \E t \in Threads :
                \/ Grace!StartOperation(t) \/ Grace!process_callbacks(t)
                \/ Grace!OptSearch(t) \/ Grace!OptFind(t) \/ Grace!OptInsert(t)
                \/ Grace!OptDelete(t)
      BY <2>6, GraceShares, Zenon DEF Grace!OptNext
    <3>2. AllDone /\ UNCHANGED gc => UNCHANGED <<vars, gc>>
      BY DEF AllDone
    <3> QED  BY <2>2, <2>3, <2>4, <2>5, <3>1, <3>2
  <2>7. UNCHANGED Grace!graceVars => UNCHANGED <<vars, gc>>
    BY DEF Grace!graceVars, Grace!vars, vars
  <2> QED  BY <2>2, <2>6, <2>7
<1>3. GraceHolds => Grace!Linearizable
  <2>1. GraceHolds => CoreHolds
    BY DEF GraceHolds, GraceCore, CoreHolds
  <2> QED  BY <2>1, CoreIsEnough, GraceShares
<1> QED  BY <1>1, <1>2, <1>3, PTL DEF Grace!OptSpec
===============================================================================
