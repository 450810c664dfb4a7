------------------------------- MODULE Rotation -------------------------------
(***************************************************************************)
(* Hazard pointers with amortised scans: src/src/smr_lazy.c (no barrier,   *)
(* ages) and smr_membar_lazy.c (barrier, no ages), driven by the traversal *)
(* of linkedlist-smr-lazy and linkedlist-smr-membar-lazy.                  *)
(*                                                                         *)
(* A retired node waits in rlist and then in vlist, a list of a little     *)
(* more than H nodes.  Each call of free_node_later rotates vlist by one:  *)
(* it marks the node that ONE hazard pointer names, and takes the node at  *)
(* the tail, which is freed if unmarked and goes back to the head, without *)
(* its mark, if marked.  From the head to the tail it takes H rotations at *)
(* least, so all hazard pointers have been looked at when it gets there.   *)
(*                                                                         *)
(* Memory is sequentially consistent here.  That the hazard pointer of a   *)
(* node is visible once the node is old is what Cadence shows; a node      *)
(* turns old at any time here.                                             *)
(***************************************************************************)
EXTENDS Integers, Sequences, FiniteSets, SequencesExt

CONSTANTS
    N,          \* sd.nthreads
    K,          \* hazard pointers per thread
    Nodes,      \* the nodes of allocator 0
    NULL,       \* no node, and the tail of the list
    Inserters,  \* the threads that insert,
    Deleters,   \* and those that delete; all of them search
    Aged,       \* smr_lazy.c, rather than smr_membar_lazy.c
    Exhausts    \* the allocators may run out of nodes

ASSUME NAssumption == N \in Nat \ {0} /\ K \in Nat \ {0}
ASSUME NodesAssumption == IsFiniteSet(Nodes) /\ NULL \notin Nodes
ASSUME VariantAssumption == Aged \in BOOLEAN /\ Exhausts \in BOOLEAN

ASSUME WorkloadAssumption ==
    Inserters \subseteq 0 .. N - 1 /\ Deleters \subseteq 0 .. N - 1

H == K * N
Threads == 0 .. N - 1
Slots   == 0 .. H - 1

VARIABLES
    \* the client
    linked,     \* nodes inserted and not yet unlinked
    pool,       \* pool[t]: nodes in thread t's own allocator 0
    guarded,    \* guarded[i]: node dereferenced under slot i, or NULL
    victim,     \* victim[t]: argument of t's free_node_later, or NULL
    slot,       \* slot[t]: the slot whose node t is validating
    \* the scheme
    HP,         \* the hazard pointers
    old,        \* retired nodes for which is_old_enough holds
    rlist,      \* rlist[t]: nodes t has retired, the last one first
    vlist,      \* vlist[t]: the list that is rotated, head first
    marked,     \* nodes whose field marked is set
    rcount,
    HPcur,      \* HP_cur: the hazard pointer to look at next
    cur,        \* rotation: cur_HP_node
    plist,      \* scan: hazard pointers seen so far
    idx,        \* scan, mr_thread_exit: i
    \* control
    pc,
    caller      \* who called scan

client  == <<linked, pool, guarded, victim, slot>>
lists   == <<rlist, vlist, old, marked, rcount>>
scanner == <<HPcur, cur, plist, idx>>
control == <<pc, caller>>
vars    == <<client, HP, lists, scanner, control>>

Own(t) == K * t .. K * t + K - 1

Held(t)    == {guarded[i] : i \in Own(t)} \ {NULL}
Free       == UNION {pool[t] : t \in Threads}
RetiredBy(t) == ToSet(rlist[t]) \cup ToSet(vlist[t])
Retired    == (UNION {RetiredBy(t) : t \in Threads})
                \cup ({victim[t] : t \in Threads} \ {NULL})
Refs       == [t \in Threads |-> Held(t)]

PCs == {"op", "check", "free", "mark", "rotate", "scan", "clear", "exit", "exited"}
Callers == {"insert", "exit"}

Goto(t, from, to) == pc[t] = from /\ pc' = [pc EXCEPT ![t] = to]

-----------------------------------------------------------------------------
Init ==
    /\ linked \in SUBSET Nodes
    /\ \E owner \in [Nodes -> Inserters \cup Deleters] :
         pool = [t \in Threads |-> {n \in Nodes \ linked : owner[n] = t}]
    /\ guarded = [i \in Slots |-> NULL]
    /\ victim = [t \in Threads |-> NULL]
    /\ slot = [t \in Threads |-> K * t]
    /\ HP = [i \in Slots |-> NULL]
    /\ old = {}
    /\ rlist = [t \in Threads |-> <<>>]
    /\ vlist = [t \in Threads |-> <<>>]
    /\ marked = {}
    /\ rcount = [t \in Threads |-> 0]
    /\ HPcur = [t \in Threads |-> 0]
    /\ cur = [t \in Threads |-> NULL]
    /\ plist = [t \in Threads |-> {}]
    /\ idx = [t \in Threads |-> 0]
    /\ pc = [t \in Threads |-> "op"]
    /\ caller = [t \in Threads |-> "insert"]

-----------------------------------------------------------------------------
(* Age.                                                                    *)

\* A retired node gets old, after those that were retired before it.  It does not
\* while its owner is in a scan, which is shorter than the margin.
TurnOld(t, n) ==
    /\ Aged
    /\ pc[t] # "scan"
    /\ n \in RetiredBy(t) \ old
    /\ \A e \in DOMAIN rlist[t], f \in DOMAIN rlist[t] :
         e < f /\ rlist[t][e] = n => rlist[t][f] \in old
    /\ old' = old \cup {n}
    /\ UNCHANGED <<client, HP, rlist, vlist, marked, rcount, scanner, control>>

IsOldEnough(n) == Aged => n \in old

-----------------------------------------------------------------------------
(* Traversal.                                                              *)

\* HP[base + offset].p = right_node: any node the thread has read from a link.
Publish(t, i, n) ==
    /\ i \in Own(t)
    /\ Goto(t, "op", "check")
    /\ HP' = [HP EXCEPT ![i] = n]
    /\ guarded' = [guarded EXCEPT ![i] = NULL]
    /\ slot' = [slot EXCEPT ![t] = i]
    /\ UNCHANGED <<linked, pool, victim, lists, scanner, caller>>

\* right_node != left_node->next: the link leads to the node only if linked.
Validate(t) ==
    /\ Goto(t, "check", "op")
    /\ guarded' = [guarded EXCEPT ![slot[t]] =
                     IF HP[slot[t]] \in linked THEN HP[slot[t]] ELSE NULL]
    /\ UNCHANGED <<linked, pool, victim, slot, HP, lists, scanner, caller>>

\* The operation returns.  Its hazard pointers stay as they are.
Unguard(t) == guarded' = [i \in Slots |-> IF i \in Own(t) THEN NULL ELSE guarded[i]]

EndOperation(t) ==
    /\ pc[t] = "op"
    /\ Held(t) # {}
    /\ Unguard(t)
    /\ UNCHANGED <<linked, pool, victim, slot, HP, lists, scanner, control>>

\* new_node clears marked; the CAS links the node, and harris_insert returns.
Insert(t, n) ==
    /\ t \in Inserters
    /\ pc[t] = "op"
    /\ n \in pool[t]
    /\ linked' = linked \cup {n}
    /\ pool' = [pool EXCEPT ![t] = @ \ {n}]
    /\ marked' = marked \ {n}
    /\ Unguard(t)
    /\ UNCHANGED <<victim, slot, HP, rlist, vlist, old, rcount, scanner, control>>

\* physical_delete_right: the CAS that unlinks a node the thread has guarded.
Unlink(t, n) ==
    /\ t \in Deleters
    /\ Goto(t, "op", "free")
    /\ n \in linked /\ n \in Held(t)
    /\ linked' = linked \ {n}
    /\ victim' = [victim EXCEPT ![t] = n]
    /\ UNCHANGED <<pool, guarded, slot, HP, lists, scanner, caller>>

-----------------------------------------------------------------------------
(* free_node_later and rotation.                                           *)

\* The nodes that leave the tail of r for the head of v: as long as v has no
\* more than H and the tail of r is old.  They are marked on the way.
Moving(r, v) ==
    LET room == IF Len(v) <= H THEN H + 1 - Len(v) ELSE 0
    IN  Max({m \in 0 .. Len(r) : m <= room /\ \A e \in Len(r) - m + 1 .. Len(r) :
                                                IsOldEnough(r[e])})

\* smr_lazy.c first takes one old node over to vlist, whatever its length, and
\* marks it only if vlist is short.
FirstMove(r) == IF Aged /\ IsOldEnough(Last(r)) THEN 1 ELSE 0
FirstMark(v) == Len(v) <= H

\* vlist entries start marked.
EntryMarks_None(up) == {}
EntryMarks(up) == ToSet(up)

FreeNodeLater(t) ==
    LET r0 == <<victim[t]>> \o rlist[t]
        r1 == SubSeq(r0, 1, Len(r0) - FirstMove(r0))
        v1 == SubSeq(r0, Len(r1) + 1, Len(r0)) \o vlist[t]
        m1 == IF FirstMove(r0) = 1 /\ FirstMark(v1) THEN {Head(v1)} ELSE {}
        m  == Moving(r1, v1)
        r2 == SubSeq(r1, 1, Len(r1) - m)
        up == SubSeq(r1, Len(r1) - m + 1, Len(r1))
    IN /\ pc[t] = "free"
       /\ rlist' = [rlist EXCEPT ![t] = r2]
       /\ vlist' = [vlist EXCEPT ![t] = up \o v1]
       /\ marked' = marked \cup m1 \cup EntryMarks(up)
       /\ rcount' = [rcount EXCEPT ![t] = @ + 1]
       /\ victim' = [victim EXCEPT ![t] = NULL]
       /\ pc' = [pc EXCEPT ![t] =
                   IF IF Aged THEN Len(v1) > H ELSE Len(up \o v1) > H
                   THEN "mark" ELSE "op"]
       /\ UNCHANGED <<linked, pool, guarded, slot, HP, old, scanner, caller>>

\* cur_HP_node = HP[HP_cur].p
ReadHPcur(t) ==
    /\ Goto(t, "mark", "rotate")
    /\ cur' = [cur EXCEPT ![t] = HP[HPcur[t]]]
    /\ UNCHANGED <<client, HP, lists, HPcur, plist, idx, caller>>

\* cur_HP_node->marked = 1, whatever has become of that node in the meantime.
Marked(t) == marked \cup ({cur[t]} \ {NULL})

\* A node that is freed leaves its age behind.
Give(t, freed) ==
    /\ pool' = [pool EXCEPT ![t] = @ \cup freed]
    /\ old' = old \ freed

\* The tail goes back to the head, unmarked, or is freed.
Unmarked(t) == Marked(t) \ {Last(vlist[t])}

\* HP_cur = (HP_cur + 1) % H, and rcount-- for a freed node.
NextSlot_NoWrap(t) == HPcur[t] + 1
NextSlot(t) == (HPcur[t] + 1) % H
FreedCount(t) == rcount[t] - 1

Rotate(t) ==
    /\ Goto(t, "rotate", "op")
    /\ cur' = [cur EXCEPT ![t] = NULL]
    /\ HPcur' = [HPcur EXCEPT ![t] = NextSlot(t)]
    /\ IF Last(vlist[t]) \in Marked(t)
       THEN /\ marked' = Unmarked(t)
            /\ vlist' = [vlist EXCEPT ![t] = <<Last(@)>> \o Front(@)]
            /\ UNCHANGED <<pool, old, rcount>>
       ELSE /\ marked' = Marked(t)
            /\ vlist' = [vlist EXCEPT ![t] = Front(@)]
            /\ Give(t, {Last(vlist[t])})
            /\ rcount' = [rcount EXCEPT ![t] = FreedCount(t)]
    /\ UNCHANGED <<linked, guarded, victim, slot, HP, rlist, plist, idx, caller>>

-----------------------------------------------------------------------------
(* scan.                                                                   *)

CallScan(t, c) ==
    /\ pc' = [pc EXCEPT ![t] = "scan"]
    /\ caller' = [caller EXCEPT ![t] = c]
    /\ plist' = [plist EXCEPT ![t] = {}]
    /\ idx' = [idx EXCEPT ![t] = 0]

AfterScan == [insert |-> "op", exit |-> "exit"]

\* What is left of a list when the nodes outside S have been taken out.
Sublist(l, S) ==
    LET I == {e \in DOMAIN l : l[e] \in S}
        Nth(k) == CHOOSE e \in I : Cardinality({f \in I : f <= e}) = k
    IN  [k \in 1 .. Cardinality(I) |-> l[Nth(k)]]

\* Stage 3, with the hazard pointers seen: the nodes of rlist that are neither
\* young nor named stay, and so do those of vlist that are not named.
Kept(t, seen) ==
    [rlist |-> Sublist(rlist[t], seen \cup {n \in RetiredBy(t) : ~IsOldEnough(n)}),
     vlist |-> Sublist(vlist[t], seen)]

Counted_RlistOnly(kept) == Len(kept.rlist)
Counted(kept) == Len(kept.rlist) + Len(kept.vlist)

\* MEM_BARRIER; stage 1 reads one hazard pointer after the other.  With the last
\* one, stage 3 frees the rest.
ScanStep(t) ==
    LET seen == plist[t] \cup ({HP[idx[t]]} \ {NULL})
        kept == Kept(t, seen)
    IN /\ pc[t] = "scan"
       /\ IF idx[t] + 1 < H
          THEN /\ plist' = [plist EXCEPT ![t] = seen]
               /\ idx' = [idx EXCEPT ![t] = @ + 1]
               /\ UNCHANGED <<pc, caller, rlist, vlist, rcount, pool, old>>
          ELSE /\ plist' = [plist EXCEPT ![t] = {}]
               /\ idx' = [idx EXCEPT ![t] = 0]
               /\ pc' = [pc EXCEPT ![t] = AfterScan[caller[t]]]
               /\ caller' = [caller EXCEPT ![t] = "insert"]
               /\ rlist' = [rlist EXCEPT ![t] = kept.rlist]
               /\ vlist' = [vlist EXCEPT ![t] = kept.vlist]
               /\ rcount' = [rcount EXCEPT ![t] = Counted(kept)]
               /\ Give(t, RetiredBy(t) \ (ToSet(kept.rlist) \cup ToSet(kept.vlist)))
       /\ UNCHANGED <<linked, guarded, victim, slot, HP, marked, HPcur, cur>>

\* new_node returns NULL in harris_insert: scan() with left_node and right_node
\* still in use.
InsertFindsNoNode(t) ==
    /\ Exhausts /\ t \in Inserters
    /\ pc[t] = "op"
    /\ pool[t] = {}
    /\ CallScan(t, "insert")
    /\ UNCHANGED <<client, HP, lists, HPcur, cur>>

-----------------------------------------------------------------------------
(* mr_thread_exit.                                                         *)

\* smr_lazy.c moves vlist to the head of rlist.
StartExit(t) ==
    /\ Goto(t, "op", "clear")
    /\ Unguard(t)
    /\ IF Aged
       THEN /\ rlist' = [rlist EXCEPT ![t] = vlist[t] \o @]
            /\ vlist' = [vlist EXCEPT ![t] = <<>>]
       ELSE UNCHANGED <<rlist, vlist>>
    /\ UNCHANGED <<linked, pool, victim, slot, HP, old, marked, rcount, scanner, caller>>

Cleared_Kept(i) == HP[i]
Cleared(i) == NULL

ClearHazardPointer(t) ==
    /\ Goto(t, "clear", IF idx[t] + 1 < K THEN "clear" ELSE "exit")
    /\ HP' = [HP EXCEPT ![K * t + idx[t]] = Cleared(K * t + idx[t])]
    /\ idx' = [idx EXCEPT ![t] = IF idx[t] + 1 < K THEN @ + 1 ELSE 0]
    /\ UNCHANGED <<client, lists, HPcur, cur, plist, caller>>

ScanAtExit(t) ==
    /\ pc[t] = "exit"
    /\ rcount[t] > 0
    /\ CallScan(t, "exit")
    /\ UNCHANGED <<client, HP, lists, HPcur, cur>>

FinishExit(t) ==
    /\ Goto(t, "exit", "exited")
    /\ rcount[t] = 0
    /\ UNCHANGED <<client, HP, lists, scanner, caller>>

-----------------------------------------------------------------------------
Operate(t) ==
    \/ \E i \in Own(t), n \in Nodes \cup {NULL} : Publish(t, i, n)
    \/ \E n \in Nodes : Insert(t, n) \/ Unlink(t, n)
    \/ EndOperation(t) \/ InsertFindsNoNode(t)

Proceed(t) ==
    \/ Validate(t) \/ FreeNodeLater(t) \/ ReadHPcur(t) \/ Rotate(t)
    \/ ScanStep(t) \/ ClearHazardPointer(t) \/ ScanAtExit(t) \/ FinishExit(t)

Step(t) == Operate(t) \/ Proceed(t) \/ StartExit(t)

Elapse == \E t \in Threads, n \in Nodes : TurnOld(t, n)

Next == Elapse \/ \E t \in Threads : Step(t)

Spec == Init /\ [][Next]_vars

-----------------------------------------------------------------------------
TypeOK ==
    /\ linked \in SUBSET Nodes
    /\ pool \in [Threads -> SUBSET Nodes]
    /\ guarded \in [Slots -> Nodes \cup {NULL}]
    /\ victim \in [Threads -> Nodes \cup {NULL}]
    /\ slot \in [Threads -> Slots]
    /\ HP \in [Slots -> Nodes \cup {NULL}]
    /\ old \in SUBSET Nodes
    /\ rlist \in [Threads -> Seq(Nodes)]
    /\ vlist \in [Threads -> Seq(Nodes)]
    /\ marked \in SUBSET Nodes
    /\ rcount \in [Threads -> Nat]
    /\ HPcur \in [Threads -> Slots]
    /\ cur \in [Threads -> Nodes \cup {NULL}]
    /\ plist \in [Threads -> SUBSET Nodes]
    /\ idx \in [Threads -> 0 .. H - 1]
    /\ pc \in [Threads -> PCs]
    /\ caller \in [Threads -> Callers]

-----------------------------------------------------------------------------
(* Properties.                                                             *)

\* A node that a traversal dereferences is not given back to an allocator
\* ("Touched illegal node in search").
NoUseAfterFree == \A i \in Slots : guarded[i] \notin Free

\* How many slots rotation looks at before it comes to slot i.
SlotsBefore(t, i) == (i - HPcur[t]) % H

\* Why rotation is safe: an unmarked node that somebody uses is so far from the
\* tail that its hazard pointer is looked at, and the node marked, before it gets
\* there.
MarkedInTime ==
    \A t \in Threads : pc[t] \in {"op", "check", "free", "mark"} =>
       \A e \in DOMAIN vlist[t] : \A i \in Slots :
          guarded[i] = vlist[t][e] /\ vlist[t][e] \notin marked
             => SlotsBefore(t, i) <= Len(vlist[t]) - e

\* rcount, on which mr_thread_exit leaves its loop, is what the two lists hold.
RcountIsLength ==
    \A t \in Threads : rcount[t] = Len(rlist[t]) + Len(vlist[t])

Contract == INSTANCE Reclamation
              WITH retired <- Retired, free <- Free, refs <- Refs

RefinesReclamation == Contract!Spec
===============================================================================
