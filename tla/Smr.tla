--------------------------------- MODULE Smr ---------------------------------
(***************************************************************************)
(* Hazard-pointer reclamation, src/src/smr.c, driven by the traversals of  *)
(* src/src/linkedlist-smr-harris_opt and linkedlist-smr-hart: publish the  *)
(* next node in a hazard pointer, barrier, read the link again, and only   *)
(* then dereference the node.                                              *)
(*                                                                         *)
(* HP is the shared array of the code, K slots per thread.  guarded[i] is  *)
(* the node its owner dereferences on the strength of slot i: it has been  *)
(* validated since the slot was last written, and the operation that did   *)
(* it is still running.  MEM_BARRIER orders the store before the second    *)
(* read, so memory is sequentially consistent here (it is not in the       *)
(* variants without barrier).                                              *)
(***************************************************************************)
EXTENDS Integers, FiniteSetTheorems, TLAPS

CONSTANTS
    N,          \* sd.nthreads
    Nodes,      \* the nodes of allocator 0
    NULL,       \* no node
    R           \* rcount at which free_node_later scans

ASSUME NAssumption == N \in Nat \ {0}
ASSUME NodesAssumption == IsFiniteSet(Nodes) /\ NULL \notin Nodes
ASSUME RAssumption == R \in Nat

K == 2
H == K * N
Threads == 0 .. N - 1
Slots   == 0 .. H - 1

VARIABLES
    \* the client
    linked,     \* nodes inserted and not yet unlinked
    pool,       \* pool[t]: nodes in thread t's own allocator 0
    guarded,    \* guarded[i]: node dereferenced under slot i, or NULL
    victim,     \* victim[t]: argument of t's free_node_later, or NULL
    slot,       \* slot[t]: the slot whose node t is validating
    \* smr.c
    HP,         \* the hazard pointers
    rlist,      \* rlist[t]: nodes t has retired
    rcount,
    plist,      \* plist[t]: hazard pointers seen by t's scan
    idx,        \* scan: i; mr_thread_exit: i
    \* control
    pc,
    caller      \* who called scan

client  == <<linked, pool, guarded, victim, slot>>
retire  == <<rlist, rcount>>
scanner == <<plist, idx>>
control == <<pc, caller>>
vars    == <<client, HP, retire, scanner, control>>

\* Thread t's hazard pointers: base .. base + K - 1.
Base(t) == K * t
Own(t)  == Base(t) .. Base(t) + K - 1

Held(t) == {guarded[i] : i \in Own(t)} \ {NULL}
Free    == UNION {pool[t] : t \in Threads}
Retired == (UNION {rlist[t] : t \in Threads})
             \cup ({victim[t] : t \in Threads} \ {NULL})
Refs    == [t \in Threads |-> Held(t)]

Callers == {"free", "insert", "exit"}
PCs == {"op", "check", "free", "scan", "sweep", "clear", "exit", "exited"}

Goto(t, from, to) == pc[t] = from /\ pc' = [pc EXCEPT ![t] = to]

-----------------------------------------------------------------------------
Init ==
    /\ linked \in SUBSET Nodes
    /\ \E owner \in [Nodes -> Threads] :
         pool = [t \in Threads |-> {n \in Nodes \ linked : owner[n] = t}]
    /\ guarded = [i \in Slots |-> NULL]
    /\ victim = [t \in Threads |-> NULL]
    /\ slot = [t \in Threads |-> Base(t)]
    /\ HP = [i \in Slots |-> NULL]
    /\ rlist = [t \in Threads |-> {}]
    /\ rcount = [t \in Threads |-> 0]
    /\ plist = [t \in Threads |-> {}]
    /\ idx = [t \in Threads |-> 0]
    /\ pc = [t \in Threads |-> "op"]
    /\ caller = [t \in Threads |-> "free"]

-----------------------------------------------------------------------------
(* Traversal.                                                              *)

\* HP[base + offset].p = right_node.  right_node was read from a link some time
\* ago: it may have been unlinked, retired and even freed since.  It may also be
\* the tail of the list, which is never retired: NULL stands for it.  What the
\* slot guarded before is given up.
Publish(t, i, n) ==
    /\ i \in Own(t)
    /\ Goto(t, "op", "check")
    /\ HP' = [HP EXCEPT ![i] = n]
    /\ guarded' = [guarded EXCEPT ![i] = NULL]
    /\ slot' = [slot EXCEPT ![t] = i]
    /\ UNCHANGED <<linked, pool, victim, retire, scanner, caller>>

\* right_node != left_node->next: the link is read again.  It still leads to the
\* node only if the node is linked: the link of an unlinked left_node is marked
\* and differs from any node's address.
StillLinked_Assumed(n) == TRUE
StillLinked(n) == n \in linked

Validate(t) ==
    /\ Goto(t, "check", "op")
    /\ guarded' = [guarded EXCEPT ![slot[t]] =
                     IF StillLinked(HP[slot[t]]) THEN HP[slot[t]] ELSE NULL]
    /\ UNCHANGED <<linked, pool, victim, slot, HP, retire, scanner, caller>>

\* The operation returns.  Its hazard pointers stay as they are.
EndOperation(t) ==
    /\ pc[t] = "op"
    /\ guarded' = [i \in Slots |-> IF i \in Own(t) THEN NULL ELSE guarded[i]]
    /\ UNCHANGED <<linked, pool, victim, slot, HP, retire, scanner, control>>

\* harris_insert links a node of the thread's own allocator and returns.
Insert(t, n) ==
    /\ pc[t] = "op"
    /\ n \in pool[t]
    /\ linked' = linked \cup {n}
    /\ pool' = [pool EXCEPT ![t] = @ \ {n}]
    /\ guarded' = [i \in Slots |-> IF i \in Own(t) THEN NULL ELSE guarded[i]]
    /\ UNCHANGED <<victim, slot, HP, retire, scanner, control>>

-----------------------------------------------------------------------------
(* scan.                                                                   *)

\* The local list of hazard pointers is empty and i = 0.
CallScan(t, c) ==
    /\ pc' = [pc EXCEPT ![t] = "scan"]
    /\ caller' = [caller EXCEPT ![t] = c]
    /\ plist' = [plist EXCEPT ![t] = {}]
    /\ idx' = [idx EXCEPT ![t] = 0]

\* Stage 1 reads one hazard pointer after the other.
SlotsRead_HalfOf == N
SlotsRead == H

ReadHazardPointer(t) ==
    /\ pc[t] = "scan"
    /\ plist' = [plist EXCEPT ![t] = @ \cup ({HP[idx[t]]} \ {NULL})]
    /\ idx' = [idx EXCEPT ![t] = @ + 1]
    /\ pc' = [pc EXCEPT ![t] = IF idx[t] + 1 < SlotsRead THEN "scan" ELSE "sweep"]
    /\ UNCHANGED <<client, HP, retire, caller>>

\* Stage 3: what no slot names is freed, the rest is counted again.
Kept_Reversed(t) == rlist[t] \ plist[t]
Kept(t) == rlist[t] \cap plist[t]

Recount_Nothing(t) == 0
Recount_Decremented(t) == 0 - Cardinality(rlist[t] \ Kept(t))
Recount(t) == Cardinality(Kept(t))

AfterScan == [free |-> "op", insert |-> "op", exit |-> "exit"]

FreeNonHazardous(t) ==
    /\ Goto(t, "sweep", AfterScan[caller[t]])
    /\ pool' = [pool EXCEPT ![t] = @ \cup (rlist[t] \ Kept(t))]
    /\ rlist' = [rlist EXCEPT ![t] = Kept(t)]
    /\ rcount' = [rcount EXCEPT ![t] = Recount(t)]
    /\ plist' = [plist EXCEPT ![t] = {}]
    /\ idx' = [idx EXCEPT ![t] = 0]
    /\ caller' = [caller EXCEPT ![t] = "free"]
    /\ UNCHANGED <<linked, guarded, victim, slot, HP>>

-----------------------------------------------------------------------------
(* Retiring.                                                               *)

\* physical_delete_right: the node is guarded by one of the thread's slots, and
\* stays so (list_search goes on with right_node->next).
Unlink(t, n) ==
    /\ Goto(t, "op", "free")
    /\ n \in linked /\ n \in Held(t)
    /\ linked' = linked \ {n}
    /\ victim' = [victim EXCEPT ![t] = n]
    /\ UNCHANGED <<pool, guarded, slot, HP, retire, scanner, caller>>

FreeNodeLater(t) ==
    /\ pc[t] = "free"
    /\ rlist' = [rlist EXCEPT ![t] = @ \cup {victim[t]}]
    /\ rcount' = [rcount EXCEPT ![t] = @ + 1]
    /\ victim' = [victim EXCEPT ![t] = NULL]
    /\ IF rcount[t] + 1 >= R
       THEN CallScan(t, "free")
       ELSE /\ pc' = [pc EXCEPT ![t] = "op"]
            /\ UNCHANGED <<caller, scanner>>
    /\ UNCHANGED <<linked, pool, guarded, slot, HP>>

\* new_node returns NULL in harris_insert: scan() with left_node and right_node
\* still in use.
InsertFindsNoNode(t) ==
    /\ pc[t] = "op"
    /\ pool[t] = {}
    /\ CallScan(t, "insert")
    /\ UNCHANGED <<client, HP, retire>>

-----------------------------------------------------------------------------
(* mr_thread_exit.                                                         *)

StartExit(t) ==
    /\ Goto(t, "op", "clear")
    /\ guarded' = [i \in Slots |-> IF i \in Own(t) THEN NULL ELSE guarded[i]]
    /\ UNCHANGED <<linked, pool, victim, slot, HP, retire, scanner, caller>>

Cleared_Kept(i) == HP[i]
Cleared(i) == NULL

ClearHazardPointer(t) ==
    /\ Goto(t, "clear", IF idx[t] + 1 < K THEN "clear" ELSE "exit")
    /\ HP' = [HP EXCEPT ![Base(t) + idx[t]] = Cleared(Base(t) + idx[t])]
    /\ idx' = [idx EXCEPT ![t] = IF idx[t] + 1 < K THEN @ + 1 ELSE 0]
    /\ UNCHANGED <<client, retire, plist, caller>>

ScanAtExit(t) ==
    /\ pc[t] = "exit"
    /\ rcount[t] > 0
    /\ CallScan(t, "exit")
    /\ UNCHANGED <<client, HP, retire>>

FinishExit(t) ==
    /\ Goto(t, "exit", "exited")
    /\ rcount[t] = 0
    /\ UNCHANGED <<client, HP, retire, scanner, caller>>

-----------------------------------------------------------------------------
Operate(t) ==
    \/ \E i \in Own(t), n \in Nodes \cup {NULL} : Publish(t, i, n)
    \/ \E n \in Nodes : Insert(t, n) \/ Unlink(t, n)
    \/ EndOperation(t) \/ InsertFindsNoNode(t)

Proceed(t) ==
    \/ Validate(t) \/ FreeNodeLater(t)
    \/ ReadHazardPointer(t) \/ FreeNonHazardous(t)
    \/ ClearHazardPointer(t) \/ ScanAtExit(t) \/ FinishExit(t)

Terminated ==
    /\ \A t \in Threads : pc[t] = "exited"
    /\ UNCHANGED vars

Next ==
    \/ \E t \in Threads : Operate(t) \/ Proceed(t) \/ StartExit(t)
    \/ Terminated

Spec == Init /\ [][Next]_vars

\* No thread is starved by the operating system, and the test sets stop after
\* its duration: every thread leaves its loop at the end of some operation.
Fairness ==
    \A t \in Threads : WF_vars(Proceed(t)) /\ SF_vars(StartExit(t))

FairSpec == Spec /\ Fairness

-----------------------------------------------------------------------------
TypeOK ==
    /\ linked \in SUBSET Nodes
    /\ pool \in [Threads -> SUBSET Nodes]
    /\ guarded \in [Slots -> Nodes \cup {NULL}]
    /\ victim \in [Threads -> Nodes \cup {NULL}]
    /\ slot \in [Threads -> Slots] /\ \A t \in Threads : slot[t] \in Own(t)
    /\ HP \in [Slots -> Nodes \cup {NULL}]
    /\ rlist \in [Threads -> SUBSET Nodes]
    /\ rcount \in [Threads -> Nat]
    /\ plist \in [Threads -> SUBSET Nodes]
    /\ idx \in [Threads -> 0 .. H]
    /\ pc \in [Threads -> PCs]
    /\ caller \in [Threads -> Callers]

-----------------------------------------------------------------------------
(* Properties.                                                             *)

\* A validated node is not given back to an allocator before its slot is
\* rewritten or its operation returns ("Touched illegal node in search").
NoUseAfterFree == \A i \in Slots : guarded[i] \notin Free

\* The reason: a scan that has passed the slot of a node it could free has
\* either seen the node there, or the node was unlinked by then and validating
\* it failed.
ScanSeesGuards ==
    \A t \in Threads : \A i \in Slots :
       pc[t] \in {"scan", "sweep"} /\ i < idx[t] /\ guarded[i] \in rlist[t]
          => guarded[i] \in plist[t]

\* Bookkeeping: rcount, which scan sets to zero and counts up again, is the
\* length of the list: mr_thread_exit leaves its loop when nothing is left.
RcountIsLength == \A t \in Threads : rcount[t] = Cardinality(rlist[t])

\* mr_thread_exit ends: sooner or later the others stop naming the nodes the
\* thread has retired.
ExitEnds == \A t \in Threads : pc[t] = "clear" ~> pc[t] = "exited"

Contract == INSTANCE Reclamation
              WITH retired <- Retired, free <- Free, refs <- Refs

RefinesReclamation == Contract!Spec

-----------------------------------------------------------------------------
(* Theorems, for any number of threads and nodes and any R.                *)
(*                                                                         *)
(* That no guarded node is free is not inductive by itself.  Safe adds why *)
(* a sweep cannot free one: the slot still holds the node, and the scan has*)
(* read the slot after the node was retired.                               *)

\* What the counters and the victim are at each point of a thread.
ControlInv ==
    \A t \in Threads :
       /\ victim[t] # NULL <=> pc[t] = "free"
       /\ pc[t] = "scan" => idx[t] < H
       /\ pc[t] = "sweep" => idx[t] = H
       /\ pc[t] = "clear" => idx[t] < K
       /\ pc[t] \in {"op", "check", "free", "exit"} => idx[t] = 0

\* A node is in at most one place.
NotTwice(n) ==
    /\ n \in linked =>
          \A t \in Threads : n \notin pool[t] /\ n \notin rlist[t] /\ n # victim[t]
    /\ \A t, u \in Threads :
          /\ n \in pool[t] => n \notin rlist[u] /\ n # victim[u] /\ (n \in pool[u] => t = u)
          /\ n \in rlist[t] => n # victim[u] /\ (n \in rlist[u] => t = u)
          /\ n = victim[t] /\ n = victim[u] => t = u

OnePlace == \A n \in Nodes : NotTwice(n)

\* A slot guards the node it holds.
GuardIsPublished ==
    \A i \in Slots : guarded[i] # NULL => guarded[i] = HP[i]

\* A thread that clears its hazard pointers has no operation running.
LeavingGuardsNothing ==
    \A t \in Threads : pc[t] = "clear" => \A i \in Own(t) : guarded[i] = NULL

Safe ==
    /\ TypeOK /\ ControlInv /\ OnePlace /\ RcountIsLength
    /\ GuardIsPublished /\ LeavingGuardsNothing /\ ScanSeesGuards /\ NoUseAfterFree

Step(t) ==
    \/ \E i \in Own(t), n \in Nodes \cup {NULL} : Publish(t, i, n)
    \/ \E n \in Nodes : Insert(t, n) \/ Unlink(t, n)
    \/ EndOperation(t) \/ InsertFindsNoNode(t) \/ Validate(t) \/ FreeNodeLater(t)
    \/ ReadHazardPointer(t) \/ FreeNonHazardous(t) \/ StartExit(t)
    \/ ClearHazardPointer(t) \/ ScanAtExit(t) \/ FinishExit(t)

LEMMA NextIsStep ==
    ASSUME [Next]_vars
    PROVE  UNCHANGED vars \/ \E t \in Threads : Step(t)
BY DEF Next, Terminated, Operate, Proceed, Step

LEMMA SlotsFacts ==
    /\ 0 \in 0 .. H /\ 0 < H
    /\ \A t \in Threads : Base(t) \in Own(t) /\ Own(t) \subseteq Slots
    /\ \A t \in Threads : \A j \in 0 .. H : j < K => Base(t) + j \in Slots
    /\ \A j \in 0 .. H : j < H => j \in Slots /\ j + 1 \in 0 .. H
    /\ \A i \in Slots : i < H /\ i \in Nat
    /\ H \in Nat
BY NAssumption DEF Slots, Threads, Own, Base, H, K

LEMMA OwnDisjoint ==
    ASSUME NEW t \in Threads, NEW u \in Threads, NEW i \in Slots,
           i \in Own(t), i \in Own(u)
    PROVE  t = u
BY DEF Threads, Slots, Own, Base, K

-----------------------------------------------------------------------------
(* Typing.                                                                 *)

LEMMA InitType == Init => TypeOK
<1> SUFFICES ASSUME Init PROVE TypeOK
  OBVIOUS
<1>1. linked \in SUBSET Nodes /\ pool \in [Threads -> SUBSET Nodes]
  BY DEF Init
<1>2. /\ guarded \in [Slots -> Nodes \cup {NULL}] /\ HP \in [Slots -> Nodes \cup {NULL}]
      /\ victim \in [Threads -> Nodes \cup {NULL}]
  BY DEF Init
<1>3. slot \in [Threads -> Slots] /\ \A t \in Threads : slot[t] \in Own(t)
  BY SlotsFacts DEF Init
<1>4. /\ rlist \in [Threads -> SUBSET Nodes] /\ rcount \in [Threads -> Nat]
      /\ plist \in [Threads -> SUBSET Nodes] /\ idx \in [Threads -> 0 .. H]
  BY SlotsFacts DEF Init
<1>5. pc \in [Threads -> PCs] /\ caller \in [Threads -> Callers]
  BY DEF Init, PCs, Callers
<1>6. QED
  BY <1>1, <1>2, <1>3, <1>4, <1>5 DEF TypeOK

LEMMA KeptFinite ==
    ASSUME TypeOK, NEW t \in Threads
    PROVE  /\ IsFiniteSet(rlist[t]) /\ Recount(t) \in Nat
           /\ Kept(t) \subseteq Nodes
<1>1. rlist[t] \subseteq Nodes
  BY DEF TypeOK
<1>2. IsFiniteSet(rlist[t]) /\ IsFiniteSet(Kept(t))
  BY <1>1, NodesAssumption, FS_Subset DEF Kept
<1>3. QED
  BY <1>1, <1>2, FS_CardinalityType DEF Kept, Recount

LEMMA CallScanType ==
    ASSUME TypeOK, NEW t \in Threads, NEW c \in Callers, CallScan(t, c)
    PROVE  /\ pc' \in [Threads -> PCs] /\ caller' \in [Threads -> Callers]
           /\ plist' \in [Threads -> SUBSET Nodes] /\ idx' \in [Threads -> 0 .. H]
BY SlotsFacts DEF CallScan, TypeOK, PCs

LEMMA TypeStep ==
    ASSUME TypeOK, ControlInv, NEW t \in Threads, Step(t)
    PROVE  TypeOK'
<1> USE DEF TypeOK, Goto, client, retire, scanner, control
<1>1. ASSUME NEW i \in Own(t), NEW n \in Nodes \cup {NULL}, Publish(t, i, n) PROVE TypeOK'
  BY <1>1, SlotsFacts DEF Publish, PCs
<1>2. ASSUME NEW n \in Nodes, Insert(t, n) PROVE TypeOK'
  BY <1>2 DEF Insert
<1>3. ASSUME NEW n \in Nodes, Unlink(t, n) PROVE TypeOK'
  BY <1>3 DEF Unlink, PCs
<1>4. CASE EndOperation(t)
  BY <1>4 DEF EndOperation
<1>5. CASE InsertFindsNoNode(t)
  BY <1>5, CallScanType DEF InsertFindsNoNode, Callers
<1>6. CASE Validate(t)
  BY <1>6 DEF Validate, PCs
<1>7. CASE FreeNodeLater(t)
  <2>1. victim[t] \in Nodes
    BY <1>7 DEF FreeNodeLater, ControlInv
  <2>2. /\ rlist' \in [Threads -> SUBSET Nodes] /\ rcount' \in [Threads -> Nat]
        /\ victim' \in [Threads -> Nodes \cup {NULL}]
    BY <1>7, <2>1 DEF FreeNodeLater
  <2>3. /\ pc' \in [Threads -> PCs] /\ caller' \in [Threads -> Callers]
        /\ plist' \in [Threads -> SUBSET Nodes] /\ idx' \in [Threads -> 0 .. H]
    BY <1>7, CallScanType DEF FreeNodeLater, PCs, Callers
  <2>4. QED
    BY <1>7, <2>2, <2>3 DEF FreeNodeLater
<1>8. CASE ReadHazardPointer(t)
  <2>1. idx[t] \in Slots /\ idx[t] + 1 \in 0 .. H
    BY <1>8, SlotsFacts DEF ReadHazardPointer, ControlInv
  <2>2. plist' \in [Threads -> SUBSET Nodes] /\ idx' \in [Threads -> 0 .. H]
    BY <1>8, <2>1 DEF ReadHazardPointer
  <2>3. QED
    BY <1>8, <2>2 DEF ReadHazardPointer, PCs
<1>9. CASE FreeNonHazardous(t)
  <2>1. AfterScan[caller[t]] \in PCs
    BY DEF AfterScan, Callers, PCs
  <2>2. QED
    BY <1>9, <2>1, KeptFinite, SlotsFacts DEF FreeNonHazardous, Callers
<1>10. CASE StartExit(t)
  BY <1>10 DEF StartExit, PCs
<1>11. CASE ClearHazardPointer(t)
  <2>1. Base(t) + idx[t] \in Slots
    BY <1>11, SlotsFacts DEF ClearHazardPointer, ControlInv
  <2>2. idx' \in [Threads -> 0 .. H]
    <3>1. idx[t] + 1 < K => idx[t] + 1 \in 0 .. H
      BY NAssumption DEF K, H
    <3>2. QED
      BY <1>11, <3>1, SlotsFacts DEF ClearHazardPointer
  <2>3. QED
    BY <1>11, <2>1, <2>2 DEF ClearHazardPointer, Cleared, PCs
<1>12. CASE ScanAtExit(t)
  BY <1>12, CallScanType DEF ScanAtExit, Callers
<1>13. CASE FinishExit(t)
  BY <1>13 DEF FinishExit, PCs
<1>14. QED
  BY <1>1, <1>2, <1>3, <1>4, <1>5, <1>6, <1>7, <1>8, <1>9, <1>10, <1>11, <1>12,
     <1>13 DEF Step

-----------------------------------------------------------------------------
(* Control.                                                                *)

LEMMA ControlStep ==
    ASSUME TypeOK, ControlInv, NEW t \in Threads, Step(t)
    PROVE  ControlInv'
<1> USE NodesAssumption DEF TypeOK, ControlInv, Goto, client, retire, scanner, control
<1>1. ASSUME NEW i \in Own(t), NEW n \in Nodes \cup {NULL}, Publish(t, i, n) PROVE ControlInv'
  BY <1>1 DEF Publish
<1>2. ASSUME NEW n \in Nodes, Insert(t, n) PROVE ControlInv'
  BY <1>2 DEF Insert
<1>3. ASSUME NEW n \in Nodes, Unlink(t, n) PROVE ControlInv'
  BY <1>3 DEF Unlink
<1>4. CASE EndOperation(t)
  BY <1>4 DEF EndOperation
<1>5. CASE InsertFindsNoNode(t)
  BY <1>5, SlotsFacts DEF InsertFindsNoNode, CallScan
<1>6. CASE Validate(t)
  BY <1>6 DEF Validate
<1>7. CASE FreeNodeLater(t)
  BY <1>7, SlotsFacts DEF FreeNodeLater, CallScan
<1>8. CASE ReadHazardPointer(t)
  <2>1. /\ pc[t] = "scan" /\ idx[t] < H /\ idx[t] \in Nat
        /\ idx'[t] = idx[t] + 1
    BY <1>8 DEF ReadHazardPointer
  <2>2. CASE idx[t] + 1 < H
    BY <1>8, <2>1, <2>2 DEF ReadHazardPointer, SlotsRead
  <2>3. CASE idx[t] + 1 = H
    BY <1>8, <2>1, <2>3, SlotsFacts DEF ReadHazardPointer, SlotsRead
  <2>4. QED
    BY <2>1, <2>2, <2>3, SlotsFacts
<1>9. CASE FreeNonHazardous(t)
  BY <1>9 DEF FreeNonHazardous, AfterScan, Callers
<1>10. CASE StartExit(t)
  BY <1>10 DEF StartExit, K
<1>11. CASE ClearHazardPointer(t)
  BY <1>11 DEF ClearHazardPointer, K
<1>12. CASE ScanAtExit(t)
  BY <1>12, SlotsFacts DEF ScanAtExit, CallScan
<1>13. CASE FinishExit(t)
  BY <1>13 DEF FinishExit
<1>14. QED
  BY <1>1, <1>2, <1>3, <1>4, <1>5, <1>6, <1>7, <1>8, <1>9, <1>10, <1>11, <1>12,
     <1>13 DEF Step

-----------------------------------------------------------------------------
(* One place per node.                                                     *)

LEMMA PlaceStep ==
    ASSUME TypeOK, ControlInv, OnePlace, NEW t \in Threads, Step(t)
    PROVE  OnePlace'
<1> USE NodesAssumption DEF Goto, client, retire, scanner, control
<1>1. ASSUME UNCHANGED <<linked, pool, victim, rlist>> PROVE OnePlace'
  BY <1>1 DEF OnePlace, NotTwice
<1>2. ASSUME NEW n \in Nodes, Insert(t, n) PROVE OnePlace'
  <2>1. n \in pool[t] /\ linked' = linked \cup {n} /\ UNCHANGED <<victim, rlist>>
    BY <1>2 DEF Insert
  <2>2. pool'[t] = pool[t] \ {n} /\ \A u \in Threads \ {t} : pool'[u] = pool[u]
    BY <1>2 DEF Insert, TypeOK
  <2>3. QED
    BY <2>1, <2>2 DEF OnePlace, NotTwice
<1>3. ASSUME NEW n \in Nodes, Unlink(t, n) PROVE OnePlace'
  <2>1. n \in linked /\ linked' = linked \ {n} /\ UNCHANGED <<pool, rlist>>
    BY <1>3 DEF Unlink
  <2>2. victim[t] = NULL
    BY <1>3 DEF Unlink, ControlInv
  <2>3. victim'[t] = n /\ \A u \in Threads \ {t} : victim'[u] = victim[u]
    BY <1>3 DEF Unlink, TypeOK
  <2>4. QED
    BY <2>1, <2>2, <2>3 DEF OnePlace, NotTwice
<1>4. CASE FreeNodeLater(t)
  <2>1. victim[t] \in Nodes
    BY <1>4 DEF FreeNodeLater, ControlInv, TypeOK
  <2>2. UNCHANGED <<linked, pool>>
    BY <1>4 DEF FreeNodeLater
  <2>3. victim'[t] = NULL /\ \A u \in Threads \ {t} : victim'[u] = victim[u]
    BY <1>4 DEF FreeNodeLater, TypeOK
  <2>4. /\ rlist'[t] = rlist[t] \cup {victim[t]}
        /\ \A u \in Threads \ {t} : rlist'[u] = rlist[u]
    BY <1>4 DEF FreeNodeLater, TypeOK
  <2>5. QED
    BY <2>1, <2>2, <2>3, <2>4 DEF OnePlace, NotTwice
<1>5. CASE FreeNonHazardous(t)
  <2>1. UNCHANGED <<linked, victim>>
    BY <1>5 DEF FreeNonHazardous
  <2>2. /\ pool'[t] = pool[t] \cup (rlist[t] \ Kept(t))
        /\ \A u \in Threads \ {t} : pool'[u] = pool[u]
    BY <1>5 DEF FreeNonHazardous, TypeOK
  <2>3. rlist'[t] = Kept(t) /\ \A u \in Threads \ {t} : rlist'[u] = rlist[u]
    BY <1>5 DEF FreeNonHazardous, TypeOK
  <2>4. QED
    BY <2>1, <2>2, <2>3 DEF OnePlace, NotTwice, Kept
<1>6. QED
  BY <1>1, <1>2, <1>3, <1>4, <1>5
     DEF Step, Publish, EndOperation, InsertFindsNoNode, Validate,
         ReadHazardPointer, StartExit, ClearHazardPointer, ScanAtExit, FinishExit

-----------------------------------------------------------------------------
(* rcount.                                                                 *)

LEMMA RcountStep ==
    ASSUME TypeOK, ControlInv, OnePlace, RcountIsLength, NEW t \in Threads, Step(t)
    PROVE  RcountIsLength'
<1> USE DEF Goto, client, retire, scanner, control
<1>1. ASSUME UNCHANGED <<rlist, rcount>> PROVE RcountIsLength'
  BY <1>1 DEF RcountIsLength
<1>2. CASE FreeNodeLater(t)
  <2>1. victim[t] \in Nodes
    BY <1>2 DEF FreeNodeLater, ControlInv, TypeOK
  <2>2. victim[t] \notin rlist[t]
    BY <2>1 DEF OnePlace, NotTwice
  <2>3. Cardinality(rlist[t] \cup {victim[t]}) = Cardinality(rlist[t]) + 1
    BY <2>2, KeptFinite, FS_AddElement
  <2>4. /\ rlist' = [rlist EXCEPT ![t] = @ \cup {victim[t]}]
        /\ rcount' = [rcount EXCEPT ![t] = @ + 1]
    BY <1>2 DEF FreeNodeLater
  <2>5. QED
    BY <2>3, <2>4 DEF RcountIsLength, TypeOK
<1>3. CASE FreeNonHazardous(t)
  BY <1>3 DEF FreeNonHazardous, RcountIsLength, Recount, TypeOK
<1>4. QED
  BY <1>1, <1>2, <1>3
     DEF Step, Publish, Insert, Unlink, EndOperation, InsertFindsNoNode, Validate,
         ReadHazardPointer, StartExit, ClearHazardPointer, ScanAtExit, FinishExit

-----------------------------------------------------------------------------
(* Guards.                                                                 *)

LEMMA GuardStep ==
    ASSUME TypeOK, ControlInv, GuardIsPublished, LeavingGuardsNothing,
           NEW t \in Threads, Step(t)
    PROVE  GuardIsPublished'
<1> USE DEF Goto, client, retire, scanner, control
<1>1. ASSUME UNCHANGED HP,
             \A i \in Slots : guarded'[i] \in {guarded[i], HP[i], NULL}
      PROVE  GuardIsPublished'
  BY <1>1 DEF GuardIsPublished
<1>2. ASSUME NEW i \in Own(t), NEW n \in Nodes \cup {NULL}, Publish(t, i, n)
      PROVE  GuardIsPublished'
  BY <1>2, SlotsFacts DEF Publish, GuardIsPublished, TypeOK
<1>3. CASE Validate(t)
  <2>1. UNCHANGED HP
    BY <1>3 DEF Validate
  <2>2. \A i \in Slots : guarded'[i] \in {guarded[i], HP[i], NULL}
    BY <1>3 DEF Validate, TypeOK
  <2>3. QED
    BY <1>1, <2>1, <2>2
<1>4. CASE ClearHazardPointer(t)
  <2> DEFINE j == Base(t) + idx[t]
  <2>1. j \in Own(t) /\ guarded[j] = NULL
    BY <1>4, SlotsFacts DEF ClearHazardPointer, ControlInv, LeavingGuardsNothing,
       TypeOK, Own, Base, K, Threads
  <2>2. HP' = [HP EXCEPT ![j] = NULL] /\ UNCHANGED guarded
    BY <1>4 DEF ClearHazardPointer, Cleared
  <2> HIDE DEF j
  <2>3. QED
    BY <2>1, <2>2 DEF GuardIsPublished, TypeOK
<1>5. CASE EndOperation(t) \/ StartExit(t)
  <2>1. UNCHANGED HP /\ \A i \in Slots : guarded'[i] \in {guarded[i], HP[i], NULL}
    BY <1>5 DEF EndOperation, StartExit
  <2>2. QED
    BY <1>1, <2>1
<1>6. ASSUME NEW n \in Nodes, Insert(t, n) PROVE GuardIsPublished'
  <2>1. UNCHANGED HP /\ \A i \in Slots : guarded'[i] \in {guarded[i], HP[i], NULL}
    BY <1>6 DEF Insert
  <2>2. QED
    BY <1>1, <2>1
<1>7. QED
  BY <1>1, <1>2, <1>3, <1>4, <1>5, <1>6
     DEF Step, Unlink, InsertFindsNoNode, FreeNodeLater, ReadHazardPointer,
         FreeNonHazardous, ScanAtExit, FinishExit

\* Only the owner of a slot changes what it guards, and a leaving thread
\* does not.
LEMMA OthersGuards ==
    ASSUME TypeOK, NEW t \in Threads, Step(t), NEW i \in Slots, i \notin Own(t)
    PROVE  guarded'[i] = guarded[i]
<1> USE DEF Goto, client, retire, scanner, control
<1>1. ASSUME NEW j \in Own(t), NEW n \in Nodes \cup {NULL}, Publish(t, j, n)
      PROVE  guarded'[i] = guarded[i]
  BY <1>1 DEF Publish, TypeOK
<1>2. CASE Validate(t)
  BY <1>2 DEF Validate, TypeOK
<1>3. ASSUME NEW n \in Nodes, Insert(t, n) PROVE guarded'[i] = guarded[i]
  BY <1>3 DEF Insert
<1>4. CASE EndOperation(t) \/ StartExit(t)
  BY <1>4 DEF EndOperation, StartExit
<1>5. QED
  BY <1>1, <1>2, <1>3, <1>4
     DEF Step, Unlink, InsertFindsNoNode, FreeNodeLater, ReadHazardPointer,
         FreeNonHazardous, ClearHazardPointer, ScanAtExit, FinishExit

LEMMA LeavingStep ==
    ASSUME TypeOK, ControlInv, LeavingGuardsNothing, NEW t \in Threads, Step(t)
    PROVE  LeavingGuardsNothing'
<1> USE DEF Goto, client, retire, scanner, control
<1>1. ASSUME NEW u \in Threads, pc'[u] = "clear", u # t
      PROVE  \A i \in Own(u) : guarded'[i] = NULL
  <2>1. pc[u] = "clear"
    BY <1>1 DEF TypeOK, Step, Publish, Validate, Insert, EndOperation, StartExit,
       Unlink, InsertFindsNoNode, FreeNodeLater, ReadHazardPointer, CallScan,
       FreeNonHazardous, ClearHazardPointer, ScanAtExit, FinishExit
  <2>2. \A i \in Own(u) : i \in Slots /\ i \notin Own(t)
    BY <1>1, SlotsFacts, OwnDisjoint
  <2>3. QED
    BY <2>1, <2>2, OthersGuards DEF LeavingGuardsNothing
<1>2. ASSUME pc'[t] = "clear"
      PROVE  \A i \in Own(t) : guarded'[i] = NULL
  <2>1. StartExit(t) \/ ClearHazardPointer(t)
    BY <1>2 DEF TypeOK, Step, Publish, Validate, Insert, EndOperation,
       Unlink, InsertFindsNoNode, FreeNodeLater, ReadHazardPointer, CallScan,
       FreeNonHazardous, AfterScan, Callers, ScanAtExit, FinishExit
  <2>2. CASE StartExit(t)
    BY <2>2, SlotsFacts DEF StartExit
  <2>3. CASE ClearHazardPointer(t)
    BY <2>3 DEF ClearHazardPointer, LeavingGuardsNothing
  <2>4. QED
    BY <2>1, <2>2, <2>3
<1>3. QED
  BY <1>1, <1>2 DEF LeavingGuardsNothing

\* What a slot guards after a step: what it did, nothing, or a linked node.
LEMMA GuardedAfter ==
    ASSUME TypeOK, NEW t \in Threads, Step(t), NEW i \in Slots
    PROVE  guarded'[i] \in {guarded[i], NULL} \cup linked
<1> USE DEF Goto, client, retire, scanner, control
<1>1. ASSUME NEW j \in Own(t), NEW n \in Nodes \cup {NULL}, Publish(t, j, n)
      PROVE  guarded'[i] \in {guarded[i], NULL}
  BY <1>1 DEF Publish, TypeOK
<1>2. CASE Validate(t)
  BY <1>2 DEF Validate, StillLinked, TypeOK
<1>3. ASSUME NEW n \in Nodes, Insert(t, n) PROVE guarded'[i] \in {guarded[i], NULL}
  BY <1>3 DEF Insert
<1>4. CASE EndOperation(t) \/ StartExit(t)
  BY <1>4 DEF EndOperation, StartExit
<1>5. QED
  BY <1>1, <1>2, <1>3, <1>4
     DEF Step, Unlink, InsertFindsNoNode, FreeNodeLater, ReadHazardPointer,
         FreeNonHazardous, ClearHazardPointer, ScanAtExit, FinishExit

\* A step of t leaves the scans and the lists of the others alone.
LEMMA OthersScans ==
    ASSUME TypeOK, NEW t \in Threads, Step(t), NEW u \in Threads, u # t
    PROVE  /\ pc'[u] = pc[u] /\ idx'[u] = idx[u]
           /\ plist'[u] = plist[u] /\ rlist'[u] = rlist[u]
BY DEF Goto, client, retire, scanner, control, TypeOK, Step, Publish, Validate, Insert, EndOperation, StartExit, Unlink,
       InsertFindsNoNode, FreeNodeLater, ReadHazardPointer, CallScan,
       FreeNonHazardous, ClearHazardPointer, ScanAtExit, FinishExit

\* A thread that is in a scan after its own step has just called it, or has
\* just read one hazard pointer.
LEMMA OwnScan ==
    ASSUME TypeOK, NEW t \in Threads, Step(t), pc'[t] \in {"scan", "sweep"}
    PROVE  \/ idx'[t] = 0
           \/ /\ pc[t] = "scan" /\ idx'[t] = idx[t] + 1
              /\ plist'[t] = plist[t] \cup ({HP[idx[t]]} \ {NULL})
              /\ UNCHANGED <<rlist, guarded>>
BY DEF Goto, client, retire, scanner, control, TypeOK, AfterScan, Callers, Step, Publish, Validate, Insert, EndOperation, StartExit, Unlink,
       InsertFindsNoNode, FreeNodeLater, ReadHazardPointer, CallScan,
       FreeNonHazardous, ClearHazardPointer, ScanAtExit, FinishExit

LEMMA ScanStep ==
    ASSUME Safe, NEW t \in Threads, Step(t)
    PROVE  ScanSeesGuards'
<1> USE DEF Safe
<1>1. ASSUME NEW u \in Threads, NEW i \in Slots,
             pc'[u] \in {"scan", "sweep"}, i < idx'[u], guarded'[i] \in rlist'[u],
             u # t
      PROVE  guarded'[i] \in plist'[u]
  <2>1. /\ pc'[u] = pc[u] /\ idx'[u] = idx[u]
        /\ plist'[u] = plist[u] /\ rlist'[u] = rlist[u]
    BY <1>1, OthersScans
  <2>2. guarded'[i] \in Nodes /\ guarded'[i] \notin linked /\ guarded'[i] # NULL
    BY <1>1, <2>1, NodesAssumption DEF TypeOK, OnePlace, NotTwice
  <2>3. guarded'[i] = guarded[i]
    BY <2>2, GuardedAfter
  <2>4. QED
    BY <1>1, <2>1, <2>3 DEF ScanSeesGuards
<1>2. ASSUME NEW i \in Slots,
             pc'[t] \in {"scan", "sweep"}, i < idx'[t], guarded'[i] \in rlist'[t]
      PROVE  guarded'[i] \in plist'[t]
  <2>1. idx'[t] # 0
    BY <1>2, SlotsFacts
  <2>2. /\ pc[t] = "scan" /\ idx'[t] = idx[t] + 1
        /\ plist'[t] = plist[t] \cup ({HP[idx[t]]} \ {NULL})
        /\ UNCHANGED <<rlist, guarded>>
    BY <1>2, <2>1, OwnScan
  <2>3. guarded[i] \in Nodes /\ guarded[i] # NULL
    BY <1>2, <2>2, NodesAssumption DEF TypeOK
  <2>4. CASE i < idx[t]
    BY <1>2, <2>2, <2>4 DEF ScanSeesGuards
  <2>5. CASE i = idx[t]
    BY <2>2, <2>3, <2>5 DEF GuardIsPublished
  <2>6. QED
    <3>1. i \in Nat /\ idx[t] \in Nat
      BY SlotsFacts DEF TypeOK
    <3>2. QED
      BY <1>2, <2>2, <2>4, <2>5, <3>1
<1>3. QED
  BY <1>1, <1>2 DEF ScanSeesGuards

LEMMA SafetyStep ==
    ASSUME Safe, NEW t \in Threads, Step(t)
    PROVE  NoUseAfterFree'
<1> USE DEF Safe
<1>1. \A i \in Slots : \A u \in Threads : guarded[i] \notin pool[u]
  BY DEF NoUseAfterFree, Free
<1>2. \A n \in linked : n \in Nodes /\ \A u \in Threads : n \notin pool[u]
  BY DEF TypeOK, OnePlace, NotTwice
<1>3. \A u \in Threads : NULL \notin pool[u]
  BY NodesAssumption DEF TypeOK
<1>4. CASE FreeNonHazardous(t)
  <2>1. /\ pool'[t] = pool[t] \cup (rlist[t] \ plist[t])
        /\ \A u \in Threads \ {t} : pool'[u] = pool[u]
        /\ UNCHANGED guarded
    BY <1>4 DEF FreeNonHazardous, Kept, TypeOK
  <2>2. pc[t] = "sweep" /\ idx[t] = H
    BY <1>4 DEF FreeNonHazardous, Goto, ControlInv
  <2>3. \A i \in Slots : guarded[i] \in rlist[t] => guarded[i] \in plist[t]
    BY <2>2, SlotsFacts DEF ScanSeesGuards
  <2>4. QED
    BY <1>1, <2>1, <2>3 DEF NoUseAfterFree, Free
<1>5. CASE ~FreeNonHazardous(t)
  <2>1. \A u \in Threads : pool'[u] \subseteq pool[u]
    BY <1>5 DEF Goto, client, retire, scanner, control, TypeOK, Step, Publish, Validate, Insert, EndOperation, StartExit, Unlink,
       InsertFindsNoNode, FreeNodeLater, ReadHazardPointer, CallScan,
       FreeNonHazardous, ClearHazardPointer, ScanAtExit, FinishExit
  <2>2. QED
    BY <1>1, <1>2, <1>3, <2>1, GuardedAfter DEF NoUseAfterFree, Free
<1>6. QED
  BY <1>4, <1>5

-----------------------------------------------------------------------------
(* The invariant.                                                          *)

LEMMA InitSafe == Init => Safe
<1> SUFFICES ASSUME Init PROVE Safe
  OBVIOUS
<1>1. TypeOK
  BY InitType
<1>2. ControlInv /\ GuardIsPublished /\ LeavingGuardsNothing /\ ScanSeesGuards
  BY SlotsFacts DEF Init, ControlInv, GuardIsPublished, LeavingGuardsNothing,
     ScanSeesGuards
<1>3. OnePlace
  BY NodesAssumption DEF Init, OnePlace, NotTwice
<1>4. RcountIsLength
  BY FS_EmptySet DEF Init, RcountIsLength
<1>5. NoUseAfterFree
  BY NodesAssumption DEF Init, NoUseAfterFree, Free
<1>6. QED
  BY <1>1, <1>2, <1>3, <1>4, <1>5 DEF Safe

LEMMA SafeStep == Safe /\ [Next]_vars => Safe'
<1> SUFFICES ASSUME Safe, [Next]_vars PROVE Safe'
  OBVIOUS
<1>1. CASE UNCHANGED vars
  BY <1>1 DEF vars, client, retire, scanner, control, Safe, TypeOK, ControlInv,
     OnePlace, NotTwice, RcountIsLength, GuardIsPublished,
     LeavingGuardsNothing, ScanSeesGuards, NoUseAfterFree, Free
<1>2. ASSUME NEW t \in Threads, Step(t) PROVE Safe'
  <2>1. TypeOK' /\ ControlInv' /\ OnePlace' /\ RcountIsLength'
    BY <1>2, TypeStep, ControlStep, PlaceStep, RcountStep DEF Safe
  <2>2. GuardIsPublished' /\ LeavingGuardsNothing'
    BY <1>2, GuardStep, LeavingStep DEF Safe
  <2>3. ScanSeesGuards' /\ NoUseAfterFree'
    BY <1>2, ScanStep, SafetyStep
  <2>4. QED
    BY <2>1, <2>2, <2>3 DEF Safe
<1>3. QED
  BY <1>1, <1>2, NextIsStep

LEMMA Invariance == Spec => []Safe
BY InitSafe, SafeStep, PTL DEF Spec

-----------------------------------------------------------------------------
(* Smr implements Reclamation.                                             *)

LEMMA RefsAfter ==
    ASSUME Safe, Safe', NEW t \in Threads, Step(t)
    PROVE  Contract!RefsStep
<1> USE DEF Safe
<1>1. Refs' \in [Threads -> SUBSET Nodes]
  BY SlotsFacts DEF Refs, Held, TypeOK
<1>2. linked \subseteq linked' \/ UNCHANGED guarded
  BY DEF Goto, client, retire, scanner, control, Step, Publish, Validate, Insert,
     EndOperation, StartExit, Unlink, InsertFindsNoNode, FreeNodeLater,
     ReadHazardPointer, FreeNonHazardous, ClearHazardPointer, ScanAtExit, FinishExit
<1>3. \A i \in Slots : guarded'[i] \in {guarded[i], NULL} \cup linked'
  BY <1>2, GuardedAfter
<1>4. ASSUME NEW u \in Threads PROVE Refs'[u] \subseteq Refs[u] \cup linked'
  BY <1>3, SlotsFacts DEF Refs, Held
<1>5. QED
  BY <1>1, <1>4 DEF Contract!RefsStep

LEMMA InsertIsInsert ==
    ASSUME Safe, Safe', NEW t \in Threads, NEW n \in Nodes, Insert(t, n)
    PROVE  Contract!Insert(n)
<1> USE DEF Safe
<1>1. /\ n \in pool[t] /\ linked' = linked \cup {n}
      /\ UNCHANGED <<victim, rlist>>
  BY DEF Insert, retire
<1>2. pool'[t] = pool[t] \ {n} /\ \A u \in Threads \ {t} : pool'[u] = pool[u]
  BY DEF Insert, TypeOK
<1>3. Free' = Free \ {n}
  BY <1>1, <1>2 DEF Free, OnePlace, NotTwice
<1>4. Retired' = Retired
  BY <1>1 DEF Retired
<1>5. Contract!RefsStep
  BY RefsAfter DEF Step
<1>6. QED
  BY <1>1, <1>3, <1>4, <1>5 DEF Contract!Insert, Free

LEMMA UnlinkIsRetire ==
    ASSUME Safe, Safe', NEW t \in Threads, NEW n \in Nodes, Unlink(t, n)
    PROVE  Contract!Retire(n)
<1> USE DEF Safe
<1>1. /\ n \in linked /\ linked' = linked \ {n}
      /\ UNCHANGED <<pool, rlist>>
  BY DEF Unlink, retire
<1>2. victim[t] = NULL
  BY DEF Unlink, Goto, ControlInv
<1>3. victim'[t] = n /\ \A u \in Threads \ {t} : victim'[u] = victim[u]
  BY DEF Unlink, TypeOK
<1>4. Free' = Free
  BY <1>1 DEF Free
<1>5. Retired' = Retired \cup {n}
  BY <1>1, <1>2, <1>3, NodesAssumption DEF Retired
<1>6. Contract!RefsStep
  BY RefsAfter DEF Step
<1>7. QED
  BY <1>1, <1>4, <1>5, <1>6 DEF Contract!Retire

LEMMA SweepIsFree ==
    ASSUME Safe, Safe', NEW t \in Threads, FreeNonHazardous(t)
    PROVE  Contract!Free(rlist[t] \ Kept(t))
<1> USE DEF Safe
<1> DEFINE S == rlist[t] \ Kept(t)
<1>1. UNCHANGED <<linked, victim, guarded>>
  BY DEF FreeNonHazardous
<1>2. /\ pool'[t] = pool[t] \cup S
      /\ \A u \in Threads \ {t} : pool'[u] = pool[u]
  BY DEF FreeNonHazardous, TypeOK
<1>3. rlist'[t] = rlist[t] \ S /\ \A u \in Threads \ {t} : rlist'[u] = rlist[u]
  BY DEF FreeNonHazardous, Kept, TypeOK
<1>4. S \subseteq Nodes /\ NULL \notin S
  BY NodesAssumption DEF TypeOK
<1> HIDE DEF S
<1>5. Free' = Free \cup S
  BY <1>2 DEF Free
<1>6. S \subseteq rlist[t]
  BY DEF S
<1>7. \A u \in Threads : victim[u] \notin S /\ (u # t => rlist[u] \cap S = {})
  BY <1>4, <1>6 DEF OnePlace, NotTwice
<1>8. Retired' = Retired \ S
  BY <1>1, <1>3, <1>7 DEF Retired
<1>9. \A u \in Threads : Refs[u] \cap S = {}
  <2>1. \A i \in Slots : guarded[i] \notin S
    BY <1>1, <1>5 DEF NoUseAfterFree
  <2>2. QED
    BY <2>1, SlotsFacts DEF Refs, Held
<1>10. Refs' = Refs
  BY <1>1 DEF Refs, Held
<1>11. S \subseteq Retired
  BY <1>6 DEF Retired
<1>12. QED
  BY <1>1, <1>5, <1>8, <1>9, <1>10, <1>11 DEF Contract!Free, S

\* free_node_later moves the node into rlist: it is retired before and after.
LEMMA RetireIsAccess ==
    ASSUME Safe, Safe', NEW t \in Threads, FreeNodeLater(t)
    PROVE  Contract!Access
<1> USE DEF Safe
<1>1. UNCHANGED <<linked, pool>>
  BY DEF FreeNodeLater
<1>2. victim[t] # NULL
  BY DEF FreeNodeLater, ControlInv
<1>3. victim'[t] = NULL /\ \A u \in Threads \ {t} : victim'[u] = victim[u]
  BY DEF FreeNodeLater, TypeOK
<1>4. /\ rlist'[t] = rlist[t] \cup {victim[t]}
      /\ \A u \in Threads \ {t} : rlist'[u] = rlist[u]
  BY DEF FreeNodeLater, TypeOK
<1>5. Retired' = Retired
  BY <1>2, <1>3, <1>4 DEF Retired
<1>6. Free' = Free
  BY <1>1 DEF Free
<1>7. Contract!RefsStep
  BY RefsAfter DEF Step
<1>8. QED
  BY <1>1, <1>5, <1>6, <1>7 DEF Contract!Access

LEMMA StepRefines ==
    ASSUME Safe, Safe', NEW t \in Threads, Step(t)
    PROVE  Contract!Next
<1>1. ASSUME UNCHANGED <<linked, pool, victim, rlist>> PROVE Contract!Access
  BY <1>1, RefsAfter DEF Contract!Access, Free, Retired
<1>2. ASSUME NEW n \in Nodes, Insert(t, n) PROVE Contract!Next
  BY <1>2, InsertIsInsert DEF Contract!Next
<1>3. ASSUME NEW n \in Nodes, Unlink(t, n) PROVE Contract!Next
  BY <1>3, UnlinkIsRetire DEF Contract!Next
<1>4. CASE FreeNodeLater(t)
  BY <1>4, RetireIsAccess DEF Contract!Next
<1>5. CASE FreeNonHazardous(t)
  <2>1. rlist[t] \ Kept(t) \in SUBSET Nodes
    BY DEF Safe, TypeOK
  <2>2. QED
    BY <1>5, <2>1, SweepIsFree DEF Contract!Next
<1>6. QED
  BY <1>1, <1>2, <1>3, <1>4, <1>5
     DEF Contract!Next, Goto, client, retire, scanner, control, Step, Publish,
         EndOperation, InsertFindsNoNode, Validate, ReadHazardPointer, StartExit,
         ClearHazardPointer, ScanAtExit, FinishExit

LEMMA InitRefines == Init => Contract!Init
<1> SUFFICES ASSUME Init PROVE Contract!Init
  OBVIOUS
<1>1. linked \in SUBSET Nodes
  BY DEF Init
<1>2. Free = Nodes \ linked
  BY DEF Init, Free
<1>3. Retired = {}
  BY DEF Init, Retired
<1>4. Refs \in [Threads -> SUBSET linked]
  BY SlotsFacts DEF Init, Refs, Held
<1>5. QED
  BY <1>1, <1>2, <1>3, <1>4 DEF Contract!Init

LEMMA NextRefines == Safe /\ Safe' /\ [Next]_vars => [Contract!Next]_Contract!vars
<1> SUFFICES ASSUME Safe, Safe', [Next]_vars
             PROVE  [Contract!Next]_Contract!vars
  OBVIOUS
<1>1. CASE UNCHANGED vars
  BY <1>1 DEF vars, client, retire, Contract!vars, Free, Retired, Refs, Held
<1>2. ASSUME NEW t \in Threads, Step(t) PROVE Contract!Next
  BY <1>2, StepRefines
<1>3. QED
  BY <1>1, <1>2, NextIsStep

-----------------------------------------------------------------------------
(* The theorems.                                                           *)

\* Every variable keeps its type.
THEOREM TypeCorrect == Spec => []TypeOK
<1>1. Safe => TypeOK
  BY DEF Safe
<1>2. QED
  BY <1>1, Invariance, PTL

\* Hazard pointers are safe for any number of threads and nodes, any R, and
\* whatever slots a traversal uses, as long as it dereferences a node only
\* under the slot it has validated it in.
THEOREM Safety == Spec => []NoUseAfterFree
<1>1. Safe => NoUseAfterFree
  BY DEF Safe
<1>2. QED
  BY <1>1, Invariance, PTL

\* A scan that has passed the slot guarding one of its nodes has seen it.
THEOREM ScanCorrect == Spec => []ScanSeesGuards
<1>1. Safe => ScanSeesGuards
  BY DEF Safe
<1>2. QED
  BY <1>1, Invariance, PTL

\* rcount is the length of the list, so mr_thread_exit leaves nothing behind.
THEOREM RcountCorrect == Spec => []RcountIsLength
<1>1. Safe => RcountIsLength
  BY DEF Safe
<1>2. QED
  BY <1>1, Invariance, PTL

\* Hazard pointers keep the contract of a reclamation scheme: every step of the
\* traversals, of free_node_later, scan and mr_thread_exit is a step of
\* Reclamation or leaves its state alone.
THEOREM Refinement == Spec => RefinesReclamation
<1>1. Init => Contract!Init
  BY InitRefines
<1>2. Safe /\ Safe' /\ [Next]_vars => [Contract!Next]_Contract!vars
  BY NextRefines
<1>3. QED
  BY <1>1, <1>2, Invariance, PTL DEF Spec, RefinesReclamation, Contract!Spec
===============================================================================
