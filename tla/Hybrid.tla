-------------------------------- MODULE Hybrid --------------------------------
(***************************************************************************)
(* QSense: src/src/qsbr_smr_hybrid.c, and hybrid_lazy.c, which rotates as  *)
(* Rotation does, with the sleeper thread that resets the presence vector  *)
(* (sleeper_threads.c) and the lists linkedlist-qsbr-smr-hybrid and        *)
(* linkedlist-hybrid-lazy.                                                 *)
(*                                                                         *)
(* Threads reclaim through epochs as long as memory lasts.  A thread that  *)
(* fails to allocate too often raises the fallback flag: from then on old  *)
(* nodes that no hazard pointer names are freed by scans.  The flag falls  *)
(* when all threads have shown up since the presence vector was reset.     *)
(*                                                                         *)
(* quiescent_state and update_epoch are those of Qsbr, access by access,   *)
(* but always FUZZY and several times in a row.  Memory is sequentially    *)
(* consistent and nodes get old at any time: Cadence has the store buffers *)
(* and the clock.                                                          *)
(***************************************************************************)
EXTENDS Integers, Sequences, FiniteSets, SequencesExt

CONSTANTS
    N,              \* ltd.nthreads
    K,              \* hazard pointers per thread
    Nodes,          \* the nodes of allocator 0
    NULL,           \* no node, and the tail of the list
    R,              \* rcount at which free_node_later scans
    SwitchThreshold,
    Many,           \* quiescent states before QSBR is resumed (100)
    Few,            \* quiescent states after the flag has fallen (10)
    MaxExitRetries,
    Lazy,           \* hybrid_lazy.c, rather than qsbr_smr_hybrid.c
    KeepsNodes,     \* harris_insert goes on with left_node after allocate_fail;
                    \* if not, left_node is the head of the list
    Searchers,      \* the threads that search
    Updaters,       \* those of them that also insert and delete
    Leavers,        \* the threads that may leave (mr_thread_exit)
    Live            \* the threads that never stall

ASSUME NAssumption == N \in Nat \ {0} /\ K \in Nat \ {0}
ASSUME NodesAssumption == IsFiniteSet(Nodes) /\ NULL \notin Nodes
ASSUME LimitsAssumption ==
    /\ R \in Nat /\ SwitchThreshold \in Nat /\ MaxExitRetries \in Nat
    /\ Many \in Nat \ {0} /\ Few \in Nat \ {0}
ASSUME VariantAssumption ==
    Lazy \in BOOLEAN /\ KeepsNodes \in BOOLEAN
ASSUME ThreadsAssumption ==
    Updaters \subseteq 0 .. N - 1 /\ Live \subseteq 0 .. N - 1

H == K * N
N_EPOCHS == 3
Threads == 0 .. N - 1
Slots   == 0 .. H - 1
Epochs  == 0 .. N_EPOCHS - 1

VARIABLES
    \* the client
    linked, pool, guarded, victim, slot,        \* as in Rotation
    trials,         \* harris_insert: calls of allocate_fail so far
    \* shared
    HP,
    old,            \* retired nodes for which is_old_enough holds
    global_epoch, update_lock,
    epoch,          \* shtd[t].epoch
    in_critical,    \* shtd[t].in_critical
    fallback,       \* fallback.flag
    present,        \* the threads whose byte of is_present_vect is set
    \* local
    limbo_list, vlist, marked, rcount, HPcur, cur,
    last_flag, flag,
    seen, res,      \* quiescent_state: epoch, res
    curr_epoch,     \* update_epoch: curr_epoch
    plist, idx, retries,
    left,           \* calls of quiescent_state still to make in a row
    \* control
    pc,
    caller          \* who called scan or quiescent_state

client   == <<linked, pool, guarded, victim, slot>>
updater  == <<seen, res, curr_epoch>>
epochs   == <<global_epoch, update_lock, epoch, in_critical, updater>>
lists    == <<limbo_list, old, rcount>>
rotating == <<vlist, marked, HPcur, cur>>
flags    == <<last_flag, flag>>
scanner  == <<plist, idx>>
loops    == <<trials, retries, left>>
control  == <<pc, caller>>
vars     == <<client, HP, epochs, fallback, present, lists, rotating, flags,
              scanner, loops, control>>

Own(t)  == K * t .. K * t + K - 1
Held(t) == {guarded[i] : i \in Own(t)} \ {NULL}
Limbo(t) == UNION {ToSet(limbo_list[t][e]) : e \in Epochs}
RetiredBy(t) == Limbo(t) \cup ToSet(vlist[t])
Free    == UNION {pool[t] : t \in Threads}
Retired == (UNION {RetiredBy(t) : t \in Threads})
             \cup ({victim[t] : t \in Threads} \ {NULL})
Refs    == [t \in Threads |-> Held(t)]

Callers == {"free", "insert", "loop", "exit"}
\* in_critical is 0, and update_lock held, at these points of quiescent_state.
Locked    == {"look", "cmp", "bump", "unlock"}
Window    == {"trylock", "restore"} \cup Locked
Quiescent == {"read", "leave", "reread", "process"} \cup Window
PCs == {"op", "check", "free", "mark", "rotate", "scan", "fail", "failed", "manage",
        "decide", "present", "switched", "clear", "exit", "exited"} \cup Quiescent

Goto(t, from, to) == pc[t] = from /\ pc' = [pc EXCEPT ![t] = to]
Enter(t, to, c) ==
    pc' = [pc EXCEPT ![t] = to] /\ caller' = [caller EXCEPT ![t] = c]

-----------------------------------------------------------------------------
Init ==
    /\ linked \in SUBSET Nodes
    /\ \E owner \in [Nodes -> Updaters] :
         pool = [t \in Threads |-> {n \in Nodes \ linked : owner[n] = t}]
    /\ guarded = [i \in Slots |-> NULL]
    /\ victim = [t \in Threads |-> NULL]
    /\ slot = [t \in Threads |-> K * t]
    /\ HP = [i \in Slots |-> NULL]
    /\ old = {}
    /\ global_epoch = 1 /\ update_lock = FALSE
    /\ epoch = [t \in Threads |-> 0] /\ in_critical = [t \in Threads |-> TRUE]
    /\ fallback = 0
    /\ present = Threads
    /\ limbo_list = [t \in Threads |-> [e \in Epochs |-> <<>>]]
    /\ vlist = [t \in Threads |-> <<>>]
    /\ marked = {}
    /\ HPcur = [t \in Threads |-> 0]
    /\ cur = [t \in Threads |-> NULL]
    /\ rcount = [t \in Threads |-> 0]
    /\ last_flag = [t \in Threads |-> 0]
    /\ flag = [t \in Threads |-> 0]
    /\ seen = [t \in Threads |-> 0]
    /\ res = [t \in Threads |-> FALSE]
    /\ curr_epoch = [t \in Threads |-> 0]
    /\ plist = [t \in Threads |-> {}]
    /\ idx = [t \in Threads |-> 0]
    /\ trials = [t \in Threads |-> 0]
    /\ retries = [t \in Threads |-> 0]
    /\ left = [t \in Threads |-> 0]
    /\ pc = [t \in Threads |-> "op"]
    /\ caller = [t \in Threads |-> "loop"]

-----------------------------------------------------------------------------
(* Time and the sleeper thread.                                            *)

\* A retired node gets old, after those before it in its limbo list, and not while
\* its owner is in a scan, which is shorter than the margin.
TurnOld(t, n) ==
    /\ pc[t] # "scan"
    /\ n \in Limbo(t) \ old
    /\ \A e \in Epochs : LET l == limbo_list[t][e] IN
         \A f, g \in DOMAIN l : f < g /\ l[f] = n => l[g] \in old
    /\ old' = old \cup {n}
    /\ UNCHANGED <<client, HP, epochs, fallback, present, limbo_list, rcount,
                   rotating, flags, scanner, loops, control>>

\* reset_presence, byte by byte, again and again.
ResetPresence(t) ==
    /\ present' = present \ {t}
    /\ UNCHANGED <<client, HP, epochs, fallback, lists, rotating, flags, scanner,
                   loops, control>>

-----------------------------------------------------------------------------
(* Traversal.                                                              *)

\* HP[base + offset].p = right_node: any node the thread has read from a link.
Publish(t, i, n) ==
    /\ t \in Searchers /\ i \in Own(t)
    /\ Goto(t, "op", "check")
    /\ HP' = [HP EXCEPT ![i] = n]
    /\ guarded' = [guarded EXCEPT ![i] = NULL]
    /\ slot' = [slot EXCEPT ![t] = i]
    /\ UNCHANGED <<linked, pool, victim, epochs, fallback, present, lists,
                   rotating, flags, scanner, loops, caller>>

\* right_node != left_node->next: the link leads to the node only if linked.
Validate(t) ==
    /\ Goto(t, "check", "op")
    /\ guarded' = [guarded EXCEPT ![slot[t]] =
                     IF HP[slot[t]] \in linked THEN HP[slot[t]] ELSE NULL]
    /\ UNCHANGED <<linked, pool, victim, slot, HP, epochs, fallback, present,
                   lists, rotating, flags, scanner, loops, caller>>

Unguard(t) == guarded' = [i \in Slots |-> IF i \in Own(t) THEN NULL ELSE guarded[i]]

\* new_node clears marked; the CAS links the node, and harris_insert returns.
Insert(t, n) ==
    /\ pc[t] = "op" /\ t \in Updaters
    /\ n \in pool[t]
    /\ linked' = linked \cup {n}
    /\ pool' = [pool EXCEPT ![t] = @ \ {n}]
    /\ marked' = marked \ {n}
    /\ Unguard(t)
    /\ UNCHANGED <<victim, slot, HP, epochs, fallback, present, lists, vlist,
                   HPcur, cur, flags, scanner, loops, control>>

\* physical_delete_right: the CAS that unlinks a node the thread has guarded.
Unlink(t, n) ==
    /\ Goto(t, "op", "free") /\ t \in Updaters
    /\ n \in linked /\ n \in Held(t)
    /\ linked' = linked \ {n}
    /\ victim' = [victim EXCEPT ![t] = n]
    /\ UNCHANGED <<pool, guarded, slot, HP, epochs, fallback, present, lists,
                   rotating, flags, scanner, loops, caller>>

\* The operation returns, and after QUIESCENCE_THRESHOLD of them the test calls
\* manage_hybrid_state.
EndOperation(t) ==
    /\ pc[t] = "op"
    /\ \/ pc' = [pc EXCEPT ![t] = "manage"]
       \/ Held(t) # {} /\ UNCHANGED pc
    /\ Unguard(t)
    /\ UNCHANGED <<linked, pool, victim, slot, HP, epochs, fallback, present,
                   lists, rotating, flags, scanner, loops, caller>>

-----------------------------------------------------------------------------
(* Scan, shared by all its callers.                                        *)

AfterScan == [free |-> "op", insert |-> "fail", exit |-> "exit", loop |-> "op"]

\* Stage 3: old nodes of the limbo lists that are not among the hazard pointers go,
\* and in hybrid_lazy.c those of vlist.
FreedOfLimbo_Old(t, named) == Limbo(t) \cap old
FreedOfLimbo(t, named) == {n \in Limbo(t) : n \in old /\ n \notin named}
FreedOfVlist(t, named) == ToSet(vlist[t]) \ named

\* What is left of a list when the nodes outside S have been taken out.
Sublist(l, S) ==
    LET I == {e \in DOMAIN l : l[e] \in S}
        Nth(k) == CHOOSE e \in I : Cardinality({f \in I : f <= e}) = k
    IN  [k \in 1 .. Cardinality(I) |-> l[Nth(k)]]

Counted_Limbo(t, kept) == Cardinality(kept \cap Limbo(t))
Counted(t, kept) == Cardinality(kept)

ScanStep(t) ==
    LET named == plist[t] \cup ({HP[idx[t]]} \ {NULL})
        freed == FreedOfLimbo(t, named) \cup FreedOfVlist(t, named)
        Keep(l) == Sublist(l, ToSet(l) \ freed)
    IN /\ pc[t] = "scan"
       /\ IF idx[t] + 1 < H
          THEN /\ plist' = [plist EXCEPT ![t] = named]
               /\ idx' = [idx EXCEPT ![t] = @ + 1]
               /\ UNCHANGED <<pc, caller, lists, vlist, pool>>
          ELSE /\ plist' = [plist EXCEPT ![t] = {}]
               /\ idx' = [idx EXCEPT ![t] = 0]
               /\ Enter(t, AfterScan[caller[t]], "loop")
               /\ limbo_list' = [limbo_list EXCEPT ![t] =
                                   [e \in Epochs |-> Keep(limbo_list[t][e])]]
               /\ vlist' = [vlist EXCEPT ![t] = Keep(vlist[t])]
               /\ rcount' = [rcount EXCEPT ![t] = Counted(t, RetiredBy(t) \ freed)]
               /\ pool' = [pool EXCEPT ![t] = @ \cup freed]
               /\ old' = old \ freed
       /\ UNCHANGED <<linked, guarded, victim, slot, HP, epochs, fallback, present,
                      marked, HPcur, cur, flags, loops>>

-----------------------------------------------------------------------------
(* Retiring.                                                               *)

\* update_lists: the old nodes that leave the tails of the limbo lists, epoch 0
\* first, for the head of a vlist of length len.
Leaving(l, len) ==
    Max({m \in 0 .. Len(l) : /\ len + m <= H + 1 \/ m = 0
                             /\ \A f \in Len(l) - m + 1 .. Len(l) : l[f] \in old})

FreeNodeLater(t) ==
    LET lim == [limbo_list[t] EXCEPT ![epoch[t]] = <<victim[t]>> \o @]
        moves == Lazy /\ fallback = 1
        len == [e \in Epochs |->
                  LET m0 == Leaving(lim[0], Len(vlist[t]))
                      m1 == Leaving(lim[1], Len(vlist[t]) + m0)
                      m2 == Leaving(lim[2], Len(vlist[t]) + m0 + m1)
                  IN  IF moves THEN <<m0, m1, m2>>[e + 1] ELSE 0]
        up(e) == SubSeq(lim[e], Len(lim[e]) - len[e] + 1, Len(lim[e]))
        v == up(2) \o up(1) \o up(0) \o vlist[t]
    IN /\ pc[t] = "free"
       /\ limbo_list' = [limbo_list EXCEPT ![t] =
                           [e \in Epochs |-> SubSeq(lim[e], 1, Len(lim[e]) - len[e])]]
       /\ vlist' = [vlist EXCEPT ![t] = v]
       /\ marked' = marked \cup (ToSet(v) \ ToSet(vlist[t]))
       /\ rcount' = [rcount EXCEPT ![t] = @ + 1]
       /\ victim' = [victim EXCEPT ![t] = NULL]
       /\ Enter(t, IF moves /\ Len(v) > H THEN "mark"
                   ELSE IF ~Lazy /\ fallback = 1 /\ rcount[t] + 1 >= R THEN "scan"
                   ELSE "op",
                "free")
       /\ UNCHANGED <<linked, pool, guarded, slot, HP, epochs, fallback, present,
                      old, HPcur, cur, flags, scanner, loops>>

\* rotation, as in Rotation.
ReadHPcur(t) ==
    /\ Goto(t, "mark", "rotate")
    /\ cur' = [cur EXCEPT ![t] = HP[HPcur[t]]]
    /\ UNCHANGED <<client, HP, epochs, fallback, present, lists, vlist, marked,
                   HPcur, flags, scanner, loops, caller>>

Rotate(t) ==
    LET now == marked \cup ({cur[t]} \ {NULL})
    IN /\ Goto(t, "rotate", "op")
       /\ cur' = [cur EXCEPT ![t] = NULL]
       /\ HPcur' = [HPcur EXCEPT ![t] = (@ + 1) % H]
       /\ IF Last(vlist[t]) \in now
          THEN /\ marked' = now \ {Last(vlist[t])}
               /\ vlist' = [vlist EXCEPT ![t] = <<Last(@)>> \o Front(@)]
               /\ UNCHANGED <<pool, old, rcount>>
          ELSE /\ marked' = now
               /\ vlist' = [vlist EXCEPT ![t] = Front(@)]
               /\ pool' = [pool EXCEPT ![t] = @ \cup {Last(vlist[t])}]
               /\ old' = old \ {Last(vlist[t])}
               /\ rcount' = [rcount EXCEPT ![t] = @ - 1]
       /\ UNCHANGED <<linked, guarded, victim, slot, HP, epochs, fallback, present,
                      limbo_list, flags, scanner, loops, caller>>

-----------------------------------------------------------------------------
(* quiescent_state(FUZZY), left[t] times in a row.                         *)

\* What only process_callbacks changes, and what no step of the call changes.
stored == <<pool, lists>>
still  == <<linked, guarded, victim, slot, HP, fallback, present, rotating, flags,
            plist, trials, retries>>

ReadEpoch(t) ==
    /\ Goto(t, "read", IF epoch[t] # global_epoch THEN "process" ELSE "leave")
    /\ seen' = [seen EXCEPT ![t] = global_epoch]
    /\ UNCHANGED <<still, stored, global_epoch, update_lock, epoch, in_critical, res,
                   curr_epoch, idx, left, caller>>

RcountAfter_Reset(t, num) == 0
RcountAfter(t, num) == rcount[t] - num

\* Where the last call returns to: harris_insert tries to allocate again.
AfterQuiescing == [insert |-> "fail", loop |-> "op", free |-> "op", exit |-> "exit"]

\* The call returns, its local variables go out of scope; the next one follows.
Return(t) ==
    /\ left' = [left EXCEPT ![t] = @ - 1]
    /\ IF left[t] > 1 THEN Enter(t, "read", caller[t])
       ELSE Enter(t, AfterQuiescing[caller[t]], "loop")
    /\ seen' = [seen EXCEPT ![t] = 0]
    /\ res' = [res EXCEPT ![t] = FALSE]

\* process_callbacks touches nothing of the other threads: it is one step with the
\* write of the thread's epoch after it.
ProcessCallbacks(t) ==
    LET list == ToSet(limbo_list[t][seen[t]])
    IN /\ pc[t] = "process"
       /\ limbo_list' = [limbo_list EXCEPT ![t][seen[t]] = <<>>]
       /\ pool' = [pool EXCEPT ![t] = @ \cup list]
       /\ old' = old \ list
       /\ rcount' = [rcount EXCEPT ![t] = RcountAfter(t, Cardinality(list))]
       /\ epoch' = [epoch EXCEPT ![t] = seen[t]]
       /\ Return(t)
       /\ UNCHANGED <<still, global_epoch, update_lock, in_critical, curr_epoch, idx>>

\* orig is 1: nothing else in this file clears in_critical.
LeaveCritical(t) ==
    /\ Goto(t, "leave", "trylock")
    /\ in_critical' = [in_critical EXCEPT ![t] = FALSE]
    /\ UNCHANGED <<still, stored, global_epoch, update_lock, epoch, updater, idx, left,
                   caller>>

\* The loop of update_epoch goes on at thread i.  It passes the thread itself, whose
\* in_critical is 0, without a step.
From(t, i) == IF i = t THEN i + 1 ELSE i
LookFrom(t, i) ==
    IF From(t, i) < N
    THEN pc' = [pc EXCEPT ![t] = "look"] /\ idx' = [idx EXCEPT ![t] = From(t, i)]
    ELSE pc' = [pc EXCEPT ![t] = "bump"] /\ UNCHANGED idx

\* update_epoch begins; it fails when another thread is in it.
TryLock(t) ==
    /\ pc[t] = "trylock"
    /\ IF ~update_lock
       THEN /\ LookFrom(t, 0)
            /\ update_lock' = TRUE
            /\ curr_epoch' = [curr_epoch EXCEPT ![t] = global_epoch]
       ELSE /\ pc' = [pc EXCEPT ![t] = "restore"]
            /\ UNCHANGED <<update_lock, curr_epoch, idx>>
    /\ UNCHANGED <<still, stored, global_epoch, epoch, in_critical, seen, res, left,
                   caller>>

\* The first read of the condition: in_critical.
LookAtFlag(t) ==
    /\ pc[t] = "look"
    /\ IF in_critical[idx[t]]
       THEN pc' = [pc EXCEPT ![t] = "cmp"] /\ UNCHANGED idx
       ELSE LookFrom(t, idx[t] + 1)
    /\ UNCHANGED <<still, stored, epochs, left, caller>>

LagsBehind_Never(t) == FALSE
LagsBehind(t) == epoch[idx[t]] # curr_epoch[t]

\* The second: epoch.
CompareEpoch(t) ==
    /\ pc[t] = "cmp"
    /\ IF LagsBehind(t)
       THEN pc' = [pc EXCEPT ![t] = "unlock"] /\ UNCHANGED idx
       ELSE LookFrom(t, idx[t] + 1)
    /\ UNCHANGED <<still, stored, epochs, left, caller>>

NextEpoch_NotWrapped(e) == e + 1
NextEpoch(e) == (e + 1) % N_EPOCHS

BumpEpoch(t) ==
    /\ Goto(t, "bump", "unlock")
    /\ global_epoch' = NextEpoch(curr_epoch[t])
    /\ res' = [res EXCEPT ![t] = TRUE]
    /\ UNCHANGED <<still, stored, update_lock, epoch, in_critical, seen, curr_epoch,
                   idx, left, caller>>

\* update_epoch returns.
Unlock(t) ==
    /\ Goto(t, "unlock", "restore")
    /\ update_lock' = FALSE
    /\ curr_epoch' = [curr_epoch EXCEPT ![t] = 0]
    /\ idx' = [idx EXCEPT ![t] = 0]
    /\ UNCHANGED <<still, stored, global_epoch, epoch, in_critical, seen, res, left,
                   caller>>

RestoreCritical(t) ==
    /\ in_critical' = [in_critical EXCEPT ![t] = TRUE]
    /\ \/ res[t] /\ Goto(t, "restore", "reread") /\ UNCHANGED <<caller, left, seen, res>>
       \/ ~res[t] /\ pc[t] = "restore" /\ Return(t)
    /\ UNCHANGED <<still, stored, global_epoch, update_lock, epoch, curr_epoch, idx>>

RereadEpoch(t) ==
    /\ pc[t] = "reread"
    /\ IF epoch[t] # global_epoch
       THEN /\ pc' = [pc EXCEPT ![t] = "process"]
            /\ seen' = [seen EXCEPT ![t] = global_epoch]
            /\ UNCHANGED <<caller, left, res>>
       ELSE Return(t)
    /\ UNCHANGED <<still, stored, global_epoch, update_lock, epoch, in_critical,
                   curr_epoch, idx>>

UpdateEpoch(t) ==
    TryLock(t) \/ LookAtFlag(t) \/ CompareEpoch(t) \/ BumpEpoch(t) \/ Unlock(t)

QuiescentState(t) ==
    \/ ReadEpoch(t) \/ ProcessCallbacks(t) \/ LeaveCritical(t)
    \/ UpdateEpoch(t) \/ RestoreCritical(t) \/ RereadEpoch(t)

-----------------------------------------------------------------------------
(* allocate_fail.                                                          *)

\* new_node returns NULL in harris_insert.
InsertFindsNoNode(t) ==
    /\ Goto(t, "op", "fail")
    /\ pool[t] = {} /\ t \in Updaters
    /\ IF KeepsNodes THEN UNCHANGED guarded ELSE Unguard(t)
    /\ UNCHANGED <<linked, pool, victim, slot, HP, epochs, fallback, present, lists,
                   rotating, flags, scanner, loops, caller>>

\* The flag is read once per call.  While there is no node, allocate_fail is
\* called again.
CallAllocateFail(t) ==
    /\ pc[t] = "fail"
    /\ IF pool[t] = {}
       THEN /\ pc' = [pc EXCEPT ![t] = "failed"]
            /\ flag' = [flag EXCEPT ![t] = fallback]
            /\ UNCHANGED trials
       ELSE /\ pc' = [pc EXCEPT ![t] = "op"]
            /\ trials' = [trials EXCEPT ![t] = 0]
            /\ UNCHANGED flag
    /\ UNCHANGED <<client, HP, epochs, fallback, present, lists, rotating,
                   last_flag, scanner, retries, left, caller>>

GiveUpQSBR_Never(t) == FALSE
GiveUpQSBR(t) == flag[t] = 0 /\ trials[t] >= SwitchThreshold

\* trials++ in harris_insert.  The code does not stop counting: what lies above the
\* threshold is not told apart here.
NextTrial(t) == IF trials[t] < SwitchThreshold THEN trials[t] + 1 ELSE trials[t]

AllocateFail(t) ==
    /\ pc[t] = "failed"
    /\ trials' = [trials EXCEPT ![t] = NextTrial(t)]
    /\ \/ /\ last_flag[t] = 1 /\ flag[t] = 0
          /\ Enter(t, "read", "insert")
          /\ left' = [left EXCEPT ![t] = Many]
          /\ last_flag' = [last_flag EXCEPT ![t] = 0]
          /\ UNCHANGED fallback
       \/ /\ flag[t] = 1
          /\ Enter(t, "scan", "insert")
          /\ last_flag' = [last_flag EXCEPT ![t] = 1]
          /\ UNCHANGED <<left, fallback>>
       \/ /\ last_flag[t] = 0 /\ GiveUpQSBR(t)
          /\ fallback' = 1
          /\ Enter(t, "scan", "insert")
          /\ last_flag' = [last_flag EXCEPT ![t] = 1]
          /\ UNCHANGED left
       \/ /\ last_flag[t] = 0 /\ flag[t] = 0 /\ ~GiveUpQSBR(t)
          /\ Enter(t, "read", "insert")
          /\ left' = [left EXCEPT ![t] = 1]
          /\ UNCHANGED <<last_flag, fallback>>
    /\ flag' = [flag EXCEPT ![t] = 0]
    /\ UNCHANGED <<client, HP, epochs, present, lists, rotating, scanner, retries>>

-----------------------------------------------------------------------------
(* manage_hybrid_state.                                                    *)

\* is_present_vect[my_index] = 1
ShowUp(t) ==
    /\ Goto(t, "manage", "decide")
    /\ present' = present \cup {t}
    /\ UNCHANGED <<client, HP, epochs, fallback, lists, rotating, flags, scanner,
                   loops, caller>>

\* flag = fallback.flag, once per call.
ManageHybridState(t) ==
    /\ pc[t] = "decide"
    /\ IF fallback = 0
       THEN /\ Enter(t, "read", "loop")
            /\ left' = [left EXCEPT ![t] = IF last_flag[t] = 1 THEN Many ELSE 1]
            /\ last_flag' = [last_flag EXCEPT ![t] = 0]
       ELSE /\ Enter(t, "present", "loop")
            /\ UNCHANGED <<left, last_flag>>
    /\ UNCHANGED <<client, HP, epochs, fallback, present, lists, rotating, flag,
                   scanner, trials, retries>>

\* all_threads_present, byte by byte.  last_flag is 1 when the call returns.
AllThreadsPresent(t) ==
    /\ pc[t] = "present"
    /\ last_flag' = [last_flag EXCEPT ![t] = 1]
    /\ IF idx[t] \notin present
       THEN pc' = [pc EXCEPT ![t] = "op"] /\ idx' = [idx EXCEPT ![t] = 0]
       ELSE IF idx[t] + 1 < N
       THEN idx' = [idx EXCEPT ![t] = @ + 1] /\ UNCHANGED pc
       ELSE pc' = [pc EXCEPT ![t] = "switched"] /\ idx' = [idx EXCEPT ![t] = 0]
    /\ UNCHANGED <<client, HP, epochs, fallback, present, lists, rotating, flag,
                   plist, loops, caller>>

SwitchToQSBR(t) ==
    /\ pc[t] = "switched"
    /\ fallback' = 0
    /\ Enter(t, "read", "loop")
    /\ left' = [left EXCEPT ![t] = Few]
    /\ UNCHANGED <<client, HP, epochs, present, lists, rotating, flags, scanner,
                   trials, retries>>

-----------------------------------------------------------------------------
(* mr_thread_exit.  The thread stays in the epochs and in the presence     *)
(* vector.                                                                 *)

\* hybrid_lazy.c: vlist goes to the head of limbo_list[0].
EmptyVlist(t) ==
    /\ limbo_list' = [limbo_list EXCEPT ![t][0] = vlist[t] \o @]
    /\ vlist' = [vlist EXCEPT ![t] = <<>>]

StartExit(t) ==
    /\ t \in Leavers /\ Goto(t, "op", "clear")
    /\ Unguard(t)
    /\ EmptyVlist(t)
    /\ UNCHANGED <<linked, pool, victim, slot, HP, epochs, fallback, present, old,
                   rcount, marked, HPcur, cur, flags, scanner, loops, caller>>

ClearHazardPointer(t) ==
    /\ Goto(t, "clear", IF idx[t] + 1 < K THEN "clear" ELSE "exit")
    /\ HP' = [HP EXCEPT ![K * t + idx[t]] = NULL]
    /\ idx' = [idx EXCEPT ![t] = IF idx[t] + 1 < K THEN @ + 1 ELSE 0]
    /\ UNCHANGED <<client, epochs, fallback, present, lists, rotating, flags,
                   plist, loops, caller>>

NextRetry(t) == retries[t] + 1

ScanAtExit(t) ==
    /\ pc[t] = "exit"
    /\ rcount[t] > 0 /\ retries[t] < MaxExitRetries
    /\ Enter(t, "scan", "exit")
    /\ retries' = [retries EXCEPT ![t] = NextRetry(t)]
    /\ UNCHANGED <<client, HP, epochs, fallback, present, lists, rotating, flags,
                   scanner, trials, left>>

FinishExit(t) ==
    /\ Goto(t, "exit", "exited")
    /\ rcount[t] = 0 \/ retries[t] >= MaxExitRetries
    /\ retries' = [retries EXCEPT ![t] = 0]
    /\ UNCHANGED <<client, HP, epochs, fallback, present, lists, rotating, flags,
                   scanner, trials, left, caller>>

-----------------------------------------------------------------------------
Operate(t) ==
    \/ \E i \in Own(t), n \in Nodes \cup {NULL} : Publish(t, i, n)
    \/ \E n \in Nodes : Insert(t, n) \/ Unlink(t, n)
    \/ EndOperation(t) \/ InsertFindsNoNode(t) \/ StartExit(t)

Proceed(t) ==
    \/ Validate(t) \/ FreeNodeLater(t) \/ ReadHPcur(t) \/ Rotate(t) \/ ScanStep(t)
    \/ QuiescentState(t) \/ CallAllocateFail(t) \/ AllocateFail(t)
    \/ ShowUp(t) \/ ManageHybridState(t) \/ AllThreadsPresent(t) \/ SwitchToQSBR(t)
    \/ ClearHazardPointer(t) \/ ScanAtExit(t) \/ FinishExit(t)

Next ==
    \/ \E t \in Threads : Operate(t) \/ Proceed(t) \/ \E n \in Nodes : TurnOld(t, n)
    \/ \E t \in Threads : ResetPresence(t)

Spec == Init /\ [][Next]_vars

\* Between in_critical = 0 and its restoration update_epoch does not wait for a
\* thread, whatever its epoch.  A step is timely when no scan of update_epoch passes
\* a thread that is in that window from an earlier epoch.  The code does not enforce it.
TimelyStep ==
    \A t \in Threads :
       pc[t] = "look" /\ pc[idx[t]] \in Window /\ epoch[idx[t]] # curr_epoch[t]
          => pc'[t] = "look" /\ idx'[t] = idx[t]

TimelySpec == Init /\ [][Next /\ TimelyStep]_vars

\* Time passes; the threads in Live run, the others may stall for ever anywhere.
Fairness ==
    \A t \in Live : /\ WF_vars(Proceed(t))
                    /\ \A n \in Nodes : SF_vars(TurnOld(t, n))

FairSpec == Spec /\ Fairness

-----------------------------------------------------------------------------
TypeOK ==
    /\ linked \in SUBSET Nodes
    /\ pool \in [Threads -> SUBSET Nodes]
    /\ guarded \in [Slots -> Nodes \cup {NULL}]
    /\ victim \in [Threads -> Nodes \cup {NULL}]
    /\ slot \in [Threads -> Slots]
    /\ HP \in [Slots -> Nodes \cup {NULL}]
    /\ old \in SUBSET Nodes
    /\ global_epoch \in Epochs /\ update_lock \in BOOLEAN
    /\ epoch \in [Threads -> Epochs] /\ in_critical \in [Threads -> BOOLEAN]
    /\ fallback \in {0, 1}
    /\ present \in SUBSET Threads
    /\ limbo_list \in [Threads -> [Epochs -> Seq(Nodes)]]
    /\ vlist \in [Threads -> Seq(Nodes)]
    /\ marked \in SUBSET Nodes
    /\ HPcur \in [Threads -> Slots]
    /\ cur \in [Threads -> Nodes \cup {NULL}]
    /\ rcount \in [Threads -> Nat]
    /\ last_flag \in [Threads -> {0, 1}] /\ flag \in [Threads -> {0, 1}]
    /\ seen \in [Threads -> Epochs] /\ res \in [Threads -> BOOLEAN]
    /\ curr_epoch \in [Threads -> Epochs]
    /\ plist \in [Threads -> SUBSET Nodes]
    /\ idx \in [Threads -> 0 .. H - 1]
    /\ trials \in [Threads -> 0 .. SwitchThreshold]
    /\ retries \in [Threads -> 0 .. MaxExitRetries]
    /\ left \in [Threads -> 0 .. Many + Few]
    /\ pc \in [Threads -> PCs] /\ caller \in [Threads -> Callers]

-----------------------------------------------------------------------------
(* Properties.                                                             *)

\* A node that a traversal dereferences is not given back to an allocator, by the
\* epochs or by a scan ("Touched illegal node in search").
NoUseAfterFree == \A i \in Slots : guarded[i] \notin Free

\* rcount, on which free_node_later and mr_thread_exit decide, is what the lists
\* hold, whichever way nodes leave them.
RcountIsLength == \A t \in Threads : rcount[t] = Cardinality(RetiredBy(t))

\* A thread is at the global epoch or one behind, unless it has just advanced the
\* global epoch itself and is about to take over the new one: epochs are compared
\* modulo 3, and one who is two behind takes the current epoch's limbo list for the
\* next one's.  Holds for timely steps.
OneEpochBehind ==
    \A t \in Threads :
       \/ epoch[t] \in {global_epoch, (global_epoch - 1) % N_EPOCHS}
       \/ pc[t] \in {"unlock", "restore", "reread", "process"}

\* Waiting in harris_insert for a node.
Failing(t) == pc[t] \in {"fail", "failed"}
                \/ (pc[t] \in Quiescent \cup {"scan"} /\ caller[t] = "insert")

Named(n) == \E i \in Slots : HP[i] = n

\* What QSense adds to QSBR: a stalled thread does not keep the others from
\* allocating, as long as they own a retired node that no hazard pointer names.
StalledThreadsDoNotBlock ==
    \A t \in Live, n \in Nodes :
       Failing(t) /\ n \in RetiredBy(t) ~> ~Failing(t) \/ Named(n)

Contract == INSTANCE Reclamation
              WITH retired <- Retired, free <- Free, refs <- Refs

RefinesReclamation == Contract!Spec
===============================================================================
