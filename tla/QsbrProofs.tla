------------------------------ MODULE QsbrProofs ------------------------------
(***************************************************************************)
(* Theorems about Qsbr, for any number of threads and nodes.               *)
(*                                                                         *)
(* With the code as it is, whatever the scheduling: Inv is the inductive   *)
(* invariant.  Typing and bookkeeping need each other, since rcount -= num *)
(* stays a natural number only while rcount counts the limbo lists, and    *)
(* FreeNodeLater adds one node to them only while the node being retired   *)
(* is in no other place.                                                   *)
(*                                                                         *)
(* When update_epoch passes no thread that is still in its window from an  *)
(* earlier epoch (TimelySpec), and quiescence is announced between list    *)
(* operations only (BetweenOperations): Safe is the inductive invariant.   *)
(* It bounds how far a thread lags behind the global epoch, and says which *)
(* nodes of which limbo list a thread may still refer to.                  *)
(***************************************************************************)
EXTENDS Qsbr, FiniteSetTheorems, TLAPS

\* A node is in the hands of free_node_later exactly while the thread is in it,
\* and quiescent_state has a caller other than the default only while it runs.
CallInv ==
    \A t \in Threads :
       /\ victim[t] # NoNode <=> pc[t] = "free" \/ caller[t] = "free"
       /\ pc[t] \in {"op", "free", "exit", "exited"} => caller[t] = "loop"

\* OnePlace, node by node.
Somewhere(n) ==
    \/ n \in linked
    \/ \E t \in Threads : n \in pool[t] \/ n = victim[t]
    \/ \E t \in Threads : \E e \in Epochs : n \in limbo_list[t][e]

NotTwice(n) ==
    /\ n \in linked =>
          \A t \in Threads : /\ n \notin pool[t] /\ n # victim[t]
                            /\ \A e \in Epochs : n \notin limbo_list[t][e]
    /\ \A t, u \in Threads :
          /\ n \in pool[t] => n # victim[u] /\ (n \in pool[u] => t = u)
          /\ n = victim[t] /\ n = victim[u] => t = u
          /\ \A e \in Epochs : n \in limbo_list[t][e] =>
                /\ n \notin pool[u] /\ n # victim[u]
                /\ \A f \in Epochs : n \in limbo_list[u][f] => t = u /\ e = f

Located == \A n \in Nodes : Somewhere(n) /\ NotTwice(n)

Inv == TypeOK /\ CallInv /\ Located /\ RcountIsLimbo

\* One step of a thread, action by action.
Step(t) ==
    \/ \E n \in Nodes : Insert(t, n) \/ Unlink(t, n)
    \/ InsertFindsNoNode(t) \/ FreeNodeLater(t) \/ FreeFindsNoWrapper(t)
    \/ Quiesce(t) \/ StartExit(t) \/ RetryExit(t) \/ FinishExit(t)
    \/ ReadEpoch(t) \/ ProcessCallbacks(t) \/ AdvanceEpoch(t)
    \/ LeaveCritical(t) \/ RestoreCritical(t) \/ RereadEpoch(t) \/ Return(t)
    \/ TryLock(t) \/ ScanCritical(t) \/ ScanEpoch(t) \/ BumpEpoch(t) \/ Unlock(t)

LEMMA NextIsStep ==
    ASSUME [Next]_vars
    PROVE  UNCHANGED vars \/ \E t \in Threads : Step(t)
BY DEF Next, Terminated, ListStep, FreeStep, ExitStep, QuiescentState,
       UpdateEpoch, Step

LEMMA ThreadsFacts ==
    /\ 0 \in Threads
    /\ \A t \in Threads : t \in Nat /\ t < N /\ (t + 1 < N => t + 1 \in Threads)
BY NAssumption DEF Threads

LEMMA EpochsFacts ==
    /\ 0 \in Epochs /\ 1 \in Epochs /\ 2 \in Epochs
    /\ \A e \in Epochs : e = 0 \/ e = 1 \/ e = 2
    /\ \A e \in Epochs : NextEpoch(e) \in Epochs
BY DEF Epochs, N_EPOCHS, NextEpoch

LEMMA InitType == Init => TypeOK
<1> SUFFICES ASSUME Init PROVE TypeOK
  OBVIOUS
<1>1. linked \in SUBSET Nodes /\ pool \in [Threads -> SUBSET Nodes]
  BY DEF Init
<1>2. held \in [Threads -> SUBSET Nodes] /\ victim \in [Threads -> Nodes \cup {NoNode}]
  BY <1>1 DEF Init
<1>3. /\ global_epoch \in Epochs /\ update_lock \in BOOLEAN
      /\ limbo_list \in [Threads -> [Epochs -> SUBSET Nodes]]
      /\ rcount \in [Threads -> Nat] /\ epoch \in [Threads -> Epochs]
      /\ in_critical \in [Threads -> BOOLEAN]
  BY EpochsFacts DEF Init
<1>4. /\ pc \in [Threads -> PCs] /\ caller \in [Threads -> Callers]
      /\ seen \in [Threads -> Epochs] /\ orig \in [Threads -> BOOLEAN]
      /\ res \in [Threads -> BOOLEAN] /\ curr_epoch \in [Threads -> Epochs]
      /\ idx \in [Threads -> Threads]
      /\ retries \in [Threads -> 0 .. MaxExitRetries]
  BY EpochsFacts, ThreadsFacts, BoundsAssumption DEF Init, PCs, Callers
<1>5. QED
  BY <1>1, <1>2, <1>3, <1>4 DEF TypeOK

-----------------------------------------------------------------------------
(* Typing.                                                                 *)

LEMMA LimboFinite ==
    ASSUME TypeOK, NEW t \in Threads, NEW e \in Epochs
    PROVE  /\ IsFiniteSet(limbo_list[t][e])
           /\ Cardinality(limbo_list[t][e]) \in Nat
<1>1. limbo_list[t][e] \subseteq Nodes
  BY DEF TypeOK
<1>2. IsFiniteSet(limbo_list[t][e])
  BY <1>1, NodesAssumption, FS_Subset
<1>3. QED
  BY <1>2, FS_CardinalityType

LEMMA RcountCovers ==
    ASSUME TypeOK, RcountIsLimbo, NEW t \in Threads, NEW e \in Epochs
    PROVE  RcountAfter(t, Cardinality(limbo_list[t][e])) \in Nat
<1>1. \A f \in Epochs : Cardinality(limbo_list[t][f]) \in Nat
  BY LimboFinite
<1>2. rcount[t] = Cardinality(limbo_list[t][0]) + Cardinality(limbo_list[t][1])
                    + Cardinality(limbo_list[t][2])
  BY DEF RcountIsLimbo
<1>3. QED
  BY <1>1, <1>2, EpochsFacts DEF RcountAfter

LEMMA VictimIsNode ==
    ASSUME TypeOK, CallInv, NEW t \in Threads, pc[t] = "free"
    PROVE  victim[t] \in Nodes /\ victim[t] # NoNode
BY DEF TypeOK, CallInv

LEMMA NextThreadType ==
    ASSUME TypeOK, NEW t \in Threads, NextThread(t)
    PROVE  pc' \in [Threads -> PCs] /\ idx' \in [Threads -> Threads]
<1>1. pc' \in [Threads -> PCs]
  BY DEF NextThread, TypeOK, PCs, InUpdate
<1>2. idx[t] \in Threads
  BY DEF TypeOK
<1>3. CASE MoreThreads(idx[t])
  <2>1. idx[t] + 1 \in Threads
    BY <1>2, <1>3, ThreadsFacts DEF MoreThreads
  <2>2. idx' = [idx EXCEPT ![t] = idx[t] + 1]
    BY <1>3 DEF NextThread
  <2>3. QED
    BY <1>1, <2>1, <2>2 DEF TypeOK
<1>4. CASE ~MoreThreads(idx[t])
  BY <1>1, <1>2, <1>4 DEF NextThread, TypeOK
<1>5. QED
  BY <1>3, <1>4

LEMMA TypeStep ==
    ASSUME TypeOK, CallInv, RcountIsLimbo, NEW t \in Threads, Step(t)
    PROVE  TypeOK'
<1> USE DEF TypeOK, Goto, client, globals, limbo, flags, locals
<1>1. ASSUME NEW n \in Nodes, Insert(t, n) PROVE TypeOK'
  BY <1>1 DEF Insert, PCs
<1>2. ASSUME NEW n \in Nodes, Unlink(t, n) PROVE TypeOK'
  BY <1>2 DEF Unlink, PCs
<1>3. CASE InsertFindsNoNode(t)
  BY <1>3 DEF InsertFindsNoNode, PCs, Callers
<1>4. CASE FreeNodeLater(t)
  <2>1. victim[t] \in Nodes /\ epoch[t] \in Epochs
    BY <1>4, VictimIsNode DEF FreeNodeLater
  <2>2. limbo_list' \in [Threads -> [Epochs -> SUBSET Nodes]]
    BY <1>4, <2>1 DEF FreeNodeLater
  <2>3. rcount' \in [Threads -> Nat]
    BY <1>4 DEF FreeNodeLater
  <2>4. QED
    BY <1>4, <2>2, <2>3 DEF FreeNodeLater, PCs
<1>5. CASE FreeFindsNoWrapper(t)
  BY <1>5 DEF FreeFindsNoWrapper, PCs, Callers
<1>6. CASE Quiesce(t)
  BY <1>6 DEF Quiesce, PCs, Callers
<1>7. CASE StartExit(t)
  BY <1>7, BoundsAssumption DEF StartExit, PCs, Callers, ExitFlag
<1>8. CASE RetryExit(t)
  BY <1>8, BoundsAssumption DEF RetryExit, PCs, Callers, NextRetry
<1>9. CASE FinishExit(t)
  BY <1>9 DEF FinishExit, PCs, Callers
<1>10. CASE ReadEpoch(t)
  BY <1>10 DEF ReadEpoch, PCs, Callers
<1>11. CASE ProcessCallbacks(t)
  BY <1>11, RcountCovers DEF ProcessCallbacks, PCs, Callers, ExpiredEpoch
<1>12. CASE AdvanceEpoch(t)
  BY <1>12 DEF AdvanceEpoch, PCs, Callers
<1>13. CASE LeaveCritical(t)
  BY <1>13 DEF LeaveCritical, PCs, Callers
<1>14. CASE RestoreCritical(t)
  BY <1>14 DEF RestoreCritical, PCs, Callers
<1>15. CASE RereadEpoch(t)
  BY <1>15 DEF RereadEpoch, PCs, Callers
<1>16. CASE Return(t)
  BY <1>16, EpochsFacts, ThreadsFacts DEF Return, PCs, Callers, ReturnPC
<1>17. CASE TryLock(t)
  <2>1. pc' \in [Threads -> PCs]
    <3>1. \E l \in PCs : pc' = [pc EXCEPT ![t] = l]
      BY <1>17 DEF TryLock, PCs, InUpdate
    <3>2. QED
      BY <3>1
  <2>2. update_lock' \in BOOLEAN
    BY <1>17 DEF TryLock
  <2>3. idx' \in [Threads -> Threads]
    BY <1>17, ThreadsFacts DEF TryLock
  <2>4. curr_epoch' \in [Threads -> Epochs]
    <3>1. curr_epoch' = [curr_epoch EXCEPT ![t] = global_epoch] \/ curr_epoch' = curr_epoch
      BY <1>17 DEF TryLock
    <3>2. QED
      BY <3>1
  <2>5. res' \in [Threads -> BOOLEAN]
    <3>1. res' = [res EXCEPT ![t] = FALSE] \/ res' = res
      BY <1>17 DEF TryLock
    <3>2. QED
      BY <3>1
  <2>6. QED
    BY <1>17, <2>1, <2>2, <2>3, <2>4, <2>5 DEF TryLock
<1>18. CASE ScanCritical(t)
  <2>1. pc' \in [Threads -> PCs] /\ idx' \in [Threads -> Threads]
    BY <1>18, NextThreadType DEF ScanCritical, PCs, InUpdate, AfterAbort
  <2>2. QED
    BY <1>18, <2>1 DEF ScanCritical
<1>19. CASE ScanEpoch(t)
  <2>1. pc' \in [Threads -> PCs] /\ idx' \in [Threads -> Threads]
    BY <1>19, NextThreadType DEF ScanEpoch, PCs, InUpdate, AfterAbort
  <2>2. QED
    BY <1>19, <2>1 DEF ScanEpoch
<1>20. CASE BumpEpoch(t)
  BY <1>20, EpochsFacts DEF BumpEpoch, PCs, Callers, InUpdate
<1>21. CASE Unlock(t)
  BY <1>21 DEF Unlock, PCs, Callers, InUpdate
<1>22. QED
  BY <1>1, <1>2, <1>3, <1>4, <1>5, <1>6, <1>7, <1>8, <1>9, <1>10, <1>11, <1>12, <1>13, <1>14, <1>15, <1>16, <1>17, <1>18, <1>19, <1>20, <1>21 DEF Step

-----------------------------------------------------------------------------
(* Who is in quiescent_state, and on whose behalf.                         *)

LEMMA CallStep ==
    ASSUME TypeOK, CallInv, NEW t \in Threads, Step(t)
    PROVE  CallInv'
<1> USE NodesAssumption DEF TypeOK, CallInv, Goto, client, globals, limbo, flags, locals
<1>1. ASSUME NEW n \in Nodes, Insert(t, n) PROVE CallInv'
  BY <1>1 DEF Insert
<1>2. ASSUME NEW n \in Nodes, Unlink(t, n) PROVE CallInv'
  BY <1>2 DEF Unlink
<1>3. CASE InsertFindsNoNode(t)
  BY <1>3 DEF InsertFindsNoNode
<1>4. CASE FreeNodeLater(t)
  BY <1>4 DEF FreeNodeLater
<1>5. CASE FreeFindsNoWrapper(t)
  BY <1>5 DEF FreeFindsNoWrapper
<1>6. CASE Quiesce(t)
  BY <1>6 DEF Quiesce
<1>7. CASE StartExit(t)
  BY <1>7 DEF StartExit
<1>8. CASE RetryExit(t)
  BY <1>8 DEF RetryExit
<1>9. CASE FinishExit(t)
  BY <1>9 DEF FinishExit
<1>10. CASE ReadEpoch(t)
  BY <1>10 DEF ReadEpoch
<1>11. CASE ProcessCallbacks(t)
  BY <1>11 DEF ProcessCallbacks
<1>12. CASE AdvanceEpoch(t)
  BY <1>12 DEF AdvanceEpoch
<1>13. CASE LeaveCritical(t)
  BY <1>13 DEF LeaveCritical
<1>14. CASE RestoreCritical(t)
  BY <1>14 DEF RestoreCritical
<1>15. CASE RereadEpoch(t)
  BY <1>15 DEF RereadEpoch
<1>16. CASE Return(t)
  BY <1>16 DEF Return, ReturnPC, Callers
<1>17. CASE TryLock(t)
  BY <1>17 DEF TryLock
<1>18. CASE ScanCritical(t)
  BY <1>18 DEF ScanCritical, NextThread
<1>19. CASE ScanEpoch(t)
  BY <1>19 DEF ScanEpoch, NextThread, AfterAbort
<1>20. CASE BumpEpoch(t)
  BY <1>20 DEF BumpEpoch
<1>21. CASE Unlock(t)
  BY <1>21 DEF Unlock
<1>22. QED
  BY <1>1, <1>2, <1>3, <1>4, <1>5, <1>6, <1>7, <1>8, <1>9, <1>10, <1>11, <1>12, <1>13, <1>14, <1>15, <1>16, <1>17, <1>18, <1>19, <1>20, <1>21 DEF Step

-----------------------------------------------------------------------------
(* The update lock.                                                        *)

\* A step that leaves the lock and the epochs alone disturbs nothing when the
\* thread stays outside, and nothing when it stays inside and has not come from
\* the end.
LEMMA UpdateKept ==
    ASSUME pc \in [Threads -> PCs], UpdateIsExclusive, NEW t \in Threads, NEW l,
           pc' = [pc EXCEPT ![t] = l],
           UNCHANGED <<update_lock, curr_epoch, global_epoch>>,
           \/ l \notin InUpdate
           \/ pc[t] \in InUpdate \ {"unlock"} /\ l \in InUpdate
    PROVE  UpdateIsExclusive'
<1>1. pc'[t] = l /\ \A u \in Threads : u # t => pc'[u] = pc[u]
  OBVIOUS
<1>2. \A u \in Threads : pc'[u] \in InUpdate => pc[u] \in InUpdate
  BY <1>1
<1>3. \A u \in Threads :
         pc'[u] \in InUpdate \ {"unlock"} => pc[u] \in InUpdate \ {"unlock"}
  BY <1>1
<1>4. QED
  BY <1>2, <1>3 DEF UpdateIsExclusive

\* curr_epoch and global_epoch matter only while a thread is inside.
LEMMA NobodyInside ==
    ASSUME pc \in [Threads -> PCs], NEW t \in Threads, NEW l, l \notin InUpdate,
           pc' = [pc EXCEPT ![t] = l],
           \A u \in Threads : pc[u] \in InUpdate => u = t
    PROVE  \A u \in Threads : pc'[u] \notin InUpdate
OBVIOUS

LEMMA UpdateStep ==
    ASSUME TypeOK, UpdateIsExclusive, NEW t \in Threads, Step(t)
    PROVE  UpdateIsExclusive'
<1>pc. pc \in [Threads -> PCs]
  BY DEF TypeOK
<1> DEFINE Outside(l) == /\ pc' = [pc EXCEPT ![t] = l] /\ l \notin InUpdate
                         /\ UNCHANGED <<update_lock, curr_epoch, global_epoch>>
           Inside(l) == /\ pc' = [pc EXCEPT ![t] = l] /\ l \in InUpdate
                        /\ pc[t] \in InUpdate \ {"unlock"}
                        /\ UNCHANGED <<update_lock, curr_epoch, global_epoch>>
<1>out. ASSUME NEW l, Outside(l) PROVE UpdateIsExclusive'
  BY <1>pc, <1>out, UpdateKept
<1>in. ASSUME NEW l, Inside(l) PROVE UpdateIsExclusive'
  BY <1>pc, <1>in, UpdateKept
<1>1. ASSUME NEW n \in Nodes, Insert(t, n) PROVE Outside("op")
  BY <1>1 DEF Insert, Goto, InUpdate, globals, locals
<1>2. ASSUME NEW n \in Nodes, Unlink(t, n) PROVE Outside("free")
  BY <1>2 DEF Unlink, Goto, InUpdate, globals, locals
<1>3. CASE InsertFindsNoNode(t)
  <2>1. Outside("read")
    BY <1>3 DEF InsertFindsNoNode, Goto, InUpdate, globals, locals
  <2>2. QED
    BY <2>1, <1>out
<1>4. CASE FreeNodeLater(t)
  <2>1. Outside("op")
    BY <1>4 DEF FreeNodeLater, Goto, InUpdate, globals, locals
  <2>2. QED
    BY <2>1, <1>out
<1>5. CASE FreeFindsNoWrapper(t)
  <2>1. Outside("read")
    BY <1>5 DEF FreeFindsNoWrapper, Goto, InUpdate, globals, locals
  <2>2. QED
    BY <2>1, <1>out
<1>6. CASE Quiesce(t)
  <2>1. Outside("read")
    BY <1>6 DEF Quiesce, Goto, InUpdate, globals, locals
  <2>2. QED
    BY <2>1, <1>out
<1>7. CASE StartExit(t)
  <2>1. Outside("exit")
    BY <1>7 DEF StartExit, Goto, InUpdate, globals
  <2>2. QED
    BY <2>1, <1>out
<1>8. CASE RetryExit(t)
  <2>1. Outside("read")
    BY <1>8 DEF RetryExit, Goto, InUpdate, globals
  <2>2. QED
    BY <2>1, <1>out
<1>9. CASE FinishExit(t)
  <2>1. Outside("exited")
    BY <1>9 DEF FinishExit, Goto, InUpdate, globals, locals
  <2>2. QED
    BY <2>1, <1>out
<1>10. CASE ReadEpoch(t)
  <2>1. Outside(IF epoch[t] # global_epoch THEN "process" ELSE "leave")
    BY <1>10 DEF ReadEpoch, Goto, InUpdate, globals
  <2>2. QED
    BY <2>1, <1>out
<1>11. CASE ProcessCallbacks(t)
  <2>1. Outside("advance")
    BY <1>11 DEF ProcessCallbacks, Goto, InUpdate, globals, locals
  <2>2. QED
    BY <2>1, <1>out
<1>12. CASE AdvanceEpoch(t)
  <2>1. Outside("ret")
    BY <1>12 DEF AdvanceEpoch, Goto, InUpdate, globals, locals
  <2>2. QED
    BY <2>1, <1>out
<1>13. CASE LeaveCritical(t)
  <2>1. Outside("trylock")
    BY <1>13 DEF LeaveCritical, Goto, InUpdate, globals
  <2>2. QED
    BY <2>1, <1>out
<1>14. CASE RestoreCritical(t)
  <2>1. Outside(IF res[t] THEN "reread" ELSE IF Blocking(t) THEN "read" ELSE "ret")
    BY <1>14 DEF RestoreCritical, Goto, InUpdate, globals, locals
  <2>2. QED
    BY <2>1, <1>out
<1>15. CASE RereadEpoch(t)
  <2>1. Outside(IF epoch[t] # global_epoch THEN "process" ELSE "ret")
    BY <1>15 DEF RereadEpoch, Goto, InUpdate, globals
  <2>2. QED
    BY <2>1, <1>out
<1>16. CASE Return(t)
  <2>1. ReturnPC(t) \in {"op", "read", "free", "exit"}
    BY DEF ReturnPC, TypeOK, Callers
  <2>2. pc' = [pc EXCEPT ![t] = ReturnPC(t)] /\ UNCHANGED <<update_lock, global_epoch>>
    BY <1>16 DEF Return, Goto, globals
  <2>3. pc[t] = "ret" /\ curr_epoch' = [curr_epoch EXCEPT ![t] = 0]
    BY <1>16 DEF Return, Goto
  <2>4. ReturnPC(t) \notin InUpdate /\ pc[t] \notin InUpdate
    BY <2>1, <2>3 DEF InUpdate
  <2>5. \A u \in Threads : pc'[u] \in InUpdate =>
           u # t /\ pc'[u] = pc[u] /\ curr_epoch'[u] = curr_epoch[u]
    BY <1>pc, <2>2, <2>3, <2>4 DEF TypeOK
  <2>6. QED
    BY <2>2, <2>5 DEF UpdateIsExclusive
<1>17. CASE TryLock(t)
  <2>1. CASE LockIsFree
    <3>1. \A u \in Threads : pc[u] \notin InUpdate
      BY <2>1 DEF LockIsFree, UpdateIsExclusive
    <3>2. /\ pc' = [pc EXCEPT ![t] = "scan"] /\ update_lock' = TRUE
          /\ curr_epoch' = [curr_epoch EXCEPT ![t] = global_epoch]
          /\ global_epoch' = global_epoch
      BY <1>17, <2>1 DEF TryLock
    <3>3. \A u \in Threads : pc'[u] \in InUpdate => u = t
      BY <1>pc, <3>1, <3>2
    <3>4. curr_epoch'[t] = global_epoch'
      BY <3>2 DEF TypeOK
    <3>5. QED
      BY <3>2, <3>3, <3>4 DEF UpdateIsExclusive
  <2>2. CASE ~LockIsFree
    <3>1. Outside("restore")
      BY <1>17, <2>2 DEF TryLock, InUpdate
    <3>2. QED
      BY <3>1, <1>out
  <2>3. QED
    BY <2>1, <2>2
<1>18. CASE ScanCritical(t)
  <2>1. Inside("cmp") \/ Inside("scan") \/ Inside("bump")
    BY <1>18 DEF ScanCritical, NextThread, InUpdate, globals
  <2>2. QED
    BY <2>1, <1>in
<1>19. CASE ScanEpoch(t)
  <2>1. Inside("scan") \/ Inside("unlock") \/ Inside("bump")
    BY <1>19 DEF ScanEpoch, NextThread, AfterAbort, InUpdate, globals
  <2>2. QED
    BY <2>1, <1>in
<1>20. CASE BumpEpoch(t)
  <2>1. pc[t] = "bump" /\ pc' = [pc EXCEPT ![t] = "unlock"] /\ update_lock' = update_lock
    BY <1>20 DEF BumpEpoch, Goto
  <2>2. \A u \in Threads : pc'[u] \in InUpdate => u = t /\ pc'[u] = "unlock"
    BY <1>pc, <2>1 DEF UpdateIsExclusive, InUpdate
  <2>3. update_lock
    BY <2>1 DEF UpdateIsExclusive, InUpdate
  <2>4. QED
    BY <2>1, <2>2, <2>3 DEF UpdateIsExclusive
<1>21. CASE Unlock(t)
  <2>1. pc[t] = "unlock" /\ pc' = [pc EXCEPT ![t] = "restore"]
    BY <1>21 DEF Unlock, Goto
  <2>2. \A u \in Threads : pc[u] \in InUpdate => u = t
    BY <2>1 DEF UpdateIsExclusive, InUpdate
  <2>3. \A u \in Threads : pc'[u] \notin InUpdate
    BY <1>pc, <2>1, <2>2, NobodyInside DEF InUpdate
  <2>4. QED
    BY <2>3 DEF UpdateIsExclusive
<1>22. QED
  BY <1>out, <1>1, <1>2, <1>3, <1>4, <1>5, <1>6, <1>7, <1>8, <1>9, <1>10, <1>11, <1>12, <1>13, <1>14, <1>15, <1>16, <1>17, <1>18, <1>19, <1>20, <1>21 DEF Step

-----------------------------------------------------------------------------
(* One place per node, and rcount.                                         *)

LEMMA RcountStep ==
    ASSUME TypeOK, CallInv, Located, RcountIsLimbo, NEW t \in Threads, Step(t)
    PROVE  RcountIsLimbo'
<1> USE DEF Goto, client, globals, limbo, flags, locals
<1>1. ASSUME UNCHANGED limbo PROVE RcountIsLimbo'
  BY <1>1 DEF RcountIsLimbo
<1>2. CASE FreeNodeLater(t)
  <2> DEFINE e == epoch[t]
             v == victim[t]
  <2>1. e \in Epochs /\ v \in Nodes
    BY <1>2, VictimIsNode DEF FreeNodeLater, TypeOK
  <2>2. v \notin limbo_list[t][e]
    BY <2>1 DEF Located, NotTwice
  <2>3. IsFiniteSet(limbo_list[t][e])
    BY <2>1, LimboFinite
  <2>4. Cardinality(limbo_list[t][e] \cup {v}) = Cardinality(limbo_list[t][e]) + 1
    BY <2>2, <2>3, FS_AddElement
  <2>5. /\ limbo_list' = [limbo_list EXCEPT ![t][e] = @ \cup {v}]
        /\ rcount' = [rcount EXCEPT ![t] = @ + 1]
    BY <1>2 DEF FreeNodeLater
  <2> HIDE DEF e, v
  <2>6. ASSUME NEW u \in Threads, u # t
        PROVE  limbo_list'[u] = limbo_list[u] /\ rcount'[u] = rcount[u]
    BY <2>5, <2>6 DEF TypeOK
  <2>7. /\ rcount'[t] = rcount[t] + 1
        /\ limbo_list'[t][e] = limbo_list[t][e] \cup {v}
        /\ \A f \in Epochs \ {e} : limbo_list'[t][f] = limbo_list[t][f]
    BY <2>1, <2>5 DEF TypeOK
  <2>8. \A f \in Epochs : Cardinality(limbo_list[t][f]) \in Nat
    BY LimboFinite
  <2>9. ASSUME NEW f \in Epochs
        PROVE  Cardinality(limbo_list'[t][f])
                 = IF f = e THEN Cardinality(limbo_list[t][f]) + 1
                            ELSE Cardinality(limbo_list[t][f])
    BY <2>4, <2>7
  <2>10. rcount'[t] = Cardinality(limbo_list'[t][0])
          + Cardinality(limbo_list'[t][1]) + Cardinality(limbo_list'[t][2])
    BY <2>1, <2>7, <2>8, <2>9, EpochsFacts DEF RcountIsLimbo
  <2>11. QED
    BY <2>6, <2>10 DEF RcountIsLimbo
<1>3. CASE ProcessCallbacks(t)
  <2> DEFINE e == seen[t]
  <2>1. e \in Epochs
    BY DEF TypeOK
  <2>2. /\ limbo_list' = [limbo_list EXCEPT ![t][e] = {}]
        /\ rcount' = [rcount EXCEPT ![t] = rcount[t] - Cardinality(limbo_list[t][e])]
    BY <1>3 DEF ProcessCallbacks, ExpiredEpoch, RcountAfter
  <2> HIDE DEF e
  <2>3. ASSUME NEW u \in Threads, u # t
        PROVE  limbo_list'[u] = limbo_list[u] /\ rcount'[u] = rcount[u]
    BY <2>2, <2>3 DEF TypeOK
  <2>4. /\ rcount'[t] = rcount[t] - Cardinality(limbo_list[t][e])
        /\ limbo_list'[t][e] = {}
        /\ \A f \in Epochs \ {e} : limbo_list'[t][f] = limbo_list[t][f]
    BY <2>1, <2>2 DEF TypeOK
  <2>5. \A f \in Epochs : Cardinality(limbo_list[t][f]) \in Nat
    BY LimboFinite
  <2>6. ASSUME NEW f \in Epochs
        PROVE  Cardinality(limbo_list'[t][f])
                 = IF f = e THEN 0 ELSE Cardinality(limbo_list[t][f])
    BY <2>4, FS_EmptySet
  <2>7. rcount'[t] = Cardinality(limbo_list'[t][0])
          + Cardinality(limbo_list'[t][1]) + Cardinality(limbo_list'[t][2])
    BY <2>1, <2>4, <2>5, <2>6, EpochsFacts DEF RcountIsLimbo
  <2>8. QED
    BY <2>3, <2>7 DEF RcountIsLimbo
<1>4. QED
  BY <1>1, <1>2, <1>3
     DEF Step, Insert, Unlink, InsertFindsNoNode, FreeFindsNoWrapper, Quiesce, StartExit, RetryExit, FinishExit, ReadEpoch, AdvanceEpoch, LeaveCritical, RestoreCritical, RereadEpoch, Return, TryLock, ScanCritical, ScanEpoch, BumpEpoch, Unlock

LEMMA PlaceStep ==
    ASSUME TypeOK, CallInv, Located, NEW t \in Threads, Step(t)
    PROVE  Located'
<1> USE DEF Goto, client, globals, limbo, flags, locals
<1>1. ASSUME UNCHANGED <<linked, pool, victim, limbo_list>> PROVE Located'
  BY <1>1 DEF Located, Somewhere, NotTwice
<1>2. ASSUME NEW n \in Nodes, Insert(t, n) PROVE Located'
  <2>1. n \in pool[t] /\ linked' = linked \cup {n} /\ UNCHANGED <<victim, limbo_list>>
    BY <1>2 DEF Insert
  <2>2. pool'[t] = pool[t] \ {n} /\ \A u \in Threads \ {t} : pool'[u] = pool[u]
    BY <1>2 DEF Insert, TypeOK
  <2>3. ASSUME NEW m \in Nodes PROVE Somewhere(m)' /\ NotTwice(m)'
    <3>1. Somewhere(m) /\ NotTwice(m)
      BY DEF Located
    <3>2. Somewhere(m)'
      BY <2>1, <2>2, <3>1 DEF Somewhere
    <3>3. NotTwice(m)'
      BY <2>1, <2>2, <3>1, NodesAssumption DEF NotTwice
    <3>4. QED
      BY <3>2, <3>3
  <2>4. QED
    BY <2>3 DEF Located
<1>3. ASSUME NEW n \in Nodes, Unlink(t, n) PROVE Located'
  <2>1. n \in linked /\ linked' = linked \ {n} /\ UNCHANGED <<pool, limbo_list>>
    BY <1>3 DEF Unlink, Removed
  <2>2. victim[t] = NoNode
    BY <1>3 DEF Unlink, CallInv
  <2>3. victim'[t] = n /\ \A u \in Threads \ {t} : victim'[u] = victim[u]
    BY <1>3 DEF Unlink, TypeOK
  <2>4. ASSUME NEW m \in Nodes PROVE Somewhere(m)' /\ NotTwice(m)'
    <3>1. Somewhere(m) /\ NotTwice(m)
      BY DEF Located
    <3>2. Somewhere(m)'
      BY <2>1, <2>2, <2>3, <3>1, NodesAssumption DEF Somewhere
    <3>3. NotTwice(m)'
      BY <2>1, <2>2, <2>3, <3>1, NodesAssumption DEF NotTwice
    <3>4. QED
      BY <3>2, <3>3
  <2>5. QED
    BY <2>4 DEF Located
<1>4. CASE FreeNodeLater(t)
  <2>1. victim[t] \in Nodes /\ epoch[t] \in Epochs
    BY <1>4, VictimIsNode DEF FreeNodeLater, TypeOK
  <2>2. UNCHANGED <<linked, pool>>
    BY <1>4 DEF FreeNodeLater
  <2>3. victim'[t] = NoNode /\ \A u \in Threads \ {t} : victim'[u] = victim[u]
    BY <1>4 DEF FreeNodeLater, TypeOK
  <2>4. limbo_list'[t][epoch[t]] = limbo_list[t][epoch[t]] \cup {victim[t]}
    BY <1>4, <2>1 DEF FreeNodeLater, TypeOK
  <2>5. \A u \in Threads : \A e \in Epochs :
          u # t \/ e # epoch[t] => limbo_list'[u][e] = limbo_list[u][e]
    BY <1>4, <2>1 DEF FreeNodeLater, TypeOK
  <2>6. ASSUME NEW m \in Nodes PROVE Somewhere(m)' /\ NotTwice(m)'
    <3>1. Somewhere(m) /\ NotTwice(m)
      BY DEF Located
    <3>2. Somewhere(m)'
      BY <2>1, <2>2, <2>3, <2>4, <2>5, <3>1 DEF Somewhere
    <3>3. NotTwice(m)'
      BY <2>1, <2>2, <2>3, <2>4, <2>5, <3>1, NodesAssumption DEF NotTwice
    <3>4. QED
      BY <3>2, <3>3
  <2>7. QED
    BY <2>6 DEF Located
<1>5. CASE ProcessCallbacks(t)
  <2>1. seen[t] \in Epochs /\ UNCHANGED <<linked, victim>>
    BY <1>5 DEF ProcessCallbacks, TypeOK
  <2>2. /\ pool'[t] = pool[t] \cup limbo_list[t][seen[t]]
        /\ \A u \in Threads \ {t} : pool'[u] = pool[u]
    BY <1>5 DEF ProcessCallbacks, ExpiredEpoch, TypeOK
  <2>3. limbo_list'[t][seen[t]] = {}
    BY <1>5, <2>1 DEF ProcessCallbacks, ExpiredEpoch, TypeOK
  <2>4. \A u \in Threads : \A e \in Epochs :
          u # t \/ e # seen[t] => limbo_list'[u][e] = limbo_list[u][e]
    BY <1>5, <2>1 DEF ProcessCallbacks, ExpiredEpoch, TypeOK
  <2>5. ASSUME NEW m \in Nodes PROVE Somewhere(m)' /\ NotTwice(m)'
    <3>1. Somewhere(m) /\ NotTwice(m)
      BY DEF Located
    <3>2. Somewhere(m)'
      BY <2>1, <2>2, <2>3, <2>4, <3>1 DEF Somewhere
    <3>3. NotTwice(m)'
      BY <2>1, <2>2, <2>3, <2>4, <3>1, NodesAssumption DEF NotTwice
    <3>4. QED
      BY <3>2, <3>3
  <2>6. QED
    BY <2>5 DEF Located
<1>6. QED
  BY <1>1, <1>2, <1>3, <1>4, <1>5
     DEF Step, InsertFindsNoNode, FreeFindsNoWrapper, Quiesce, StartExit, RetryExit, FinishExit, ReadEpoch, AdvanceEpoch, LeaveCritical, RestoreCritical, RereadEpoch, Return, TryLock, ScanCritical, ScanEpoch, BumpEpoch, Unlock

LEMMA LocatedIsOnePlace == TypeOK /\ Located => OnePlace
<1> SUFFICES ASSUME TypeOK, Located PROVE OnePlace
  OBVIOUS
<1>1. \A n \in Nodes : Somewhere(n) /\ NotTwice(n)
  BY DEF Located
<1>2. ASSUME NEW n \in Nodes PROVE n \in linked \cup Free \cup Retired
  BY <1>1, NodesAssumption DEF Somewhere, Free, Retired, InLimbo
<1>3. linked \cup Free \cup Retired \subseteq Nodes
  BY DEF TypeOK, Free, Retired, InLimbo
<1>4. ASSUME NEW t \in Threads
      PROVE  /\ linked \cap (pool[t] \cup InLimbo(t) \cup {victim[t]}) = {}
             /\ \A e, f \in Epochs :
                   e # f => limbo_list[t][e] \cap limbo_list[t][f] = {}
  <2>1. \A n \in linked :
           n \notin pool[t] /\ n \notin InLimbo(t) /\ n # victim[t]
    BY <1>1 DEF TypeOK, NotTwice, InLimbo
  <2>2. \A e, f \in Epochs : \A n \in limbo_list[t][e] \cap limbo_list[t][f] :
           n \in Nodes /\ e = f
    BY <1>1 DEF TypeOK, NotTwice
  <2>3. QED
    BY <2>1, <2>2
<1>5. ASSUME NEW t \in Threads, NEW u \in Threads
      PROVE  /\ pool[t] \cap (InLimbo(u) \cup {victim[u]}) = {}
             /\ victim[t] \notin InLimbo(u)
             /\ t # u => /\ pool[t] \cap pool[u] = {}
                         /\ InLimbo(t) \cap InLimbo(u) = {}
                         /\ victim[t] = victim[u] => victim[t] = NoNode
  <2>1. \A n \in pool[t] :
           /\ n \notin InLimbo(u) /\ n # victim[u]
           /\ n \in pool[u] => t = u
    BY <1>1 DEF TypeOK, NotTwice, InLimbo
  <2>2. \A n \in InLimbo(u) : n # victim[t] /\ (n \in InLimbo(t) => t = u)
    BY <1>1 DEF TypeOK, NotTwice, InLimbo
  <2>3. victim[t] = victim[u] => victim[t] = NoNode \/ t = u
    BY <1>1 DEF TypeOK, NotTwice
  <2>4. QED
    BY <2>1, <2>2, <2>3
<1>6. QED
  BY <1>2, <1>3, <1>4, <1>5 DEF OnePlace

-----------------------------------------------------------------------------
(* The invariant of the code as it is.                                     *)

LEMMA InitInv == Init => Inv /\ UpdateIsExclusive
<1> SUFFICES ASSUME Init PROVE Inv /\ UpdateIsExclusive
  OBVIOUS
<1>1. TypeOK
  BY InitType
<1>2. CallInv
  BY DEF Init, CallInv
<1>3. Located
  BY NodesAssumption DEF Init, Located, Somewhere, NotTwice
<1>4. RcountIsLimbo
  BY FS_EmptySet, EpochsFacts DEF Init, RcountIsLimbo
<1>5. UpdateIsExclusive
  BY DEF Init, UpdateIsExclusive, InUpdate
<1>6. QED
  BY <1>1, <1>2, <1>3, <1>4, <1>5 DEF Inv

LEMMA InvStep == Inv /\ UpdateIsExclusive /\ [Next]_vars => Inv' /\ UpdateIsExclusive'
<1> SUFFICES ASSUME Inv, UpdateIsExclusive, [Next]_vars
             PROVE  Inv' /\ UpdateIsExclusive'
  OBVIOUS
<1> USE DEF Inv
<1>1. CASE UNCHANGED vars
  BY <1>1 DEF vars, client, globals, limbo, flags, control, locals,
       TypeOK, CallInv, Located, Somewhere, NotTwice, RcountIsLimbo,
       UpdateIsExclusive
<1>2. ASSUME NEW t \in Threads, Step(t) PROVE Inv' /\ UpdateIsExclusive'
  BY <1>2, TypeStep, CallStep, PlaceStep, RcountStep, UpdateStep
<1>3. QED
  BY <1>1, <1>2, NextIsStep

LEMMA Invariance == Spec => [](Inv /\ UpdateIsExclusive)
BY InitInv, InvStep, PTL DEF Spec

-----------------------------------------------------------------------------
(* Grace periods.  From here on scheduling is timely, and quiescence is    *)
(* announced between operations only.                                      *)

\* new_node always finds a node, and free_node_later a wrapper.
BetweenOperations == ~InsertWhenEmpty /\ Cardinality(Nodes) <= WrapperCap

Window == {"trylock", "scan", "cmp", "bump", "unlock", "restore"}

\* In mr_thread_exit: update_epoch waits for this thread no more.
Leaving(t) == pc[t] \in {"exit", "exited"} \/ caller[t] = "exit"

\* Which threads update_epoch waits for, and which ones hold references.
CriticalOf(t) ==
    /\ caller[t] \in {"loop", "exit"}
    /\ in_critical[t] <=> ~Leaving(t) /\ pc[t] \notin Window
    /\ pc[t] \in Window => (orig[t] <=> ~Leaving(t))
    /\ pc[t] \notin {"op", "free"} => held[t] = {}

\* A thread that update_epoch waits for is in the global epoch or the one before;
\* only one that has just advanced the epoch itself, and is on its way to free
\* the nodes of that epoch, can be two behind.
LagOf(t) ==
    ~Leaving(t) =>
       /\ epoch[t] = NextEpoch(global_epoch) =>
             /\ pc[t] \in {"unlock", "restore", "reread", "process", "advance"}
             /\ pc[t] \in {"unlock", "restore"} => res[t]
       /\ pc[t] \in {"process", "advance"} =>
             seen[t] = global_epoch /\ epoch[t] # global_epoch

\* Whom the scan of t has passed is in the global epoch, and stays in it.
ScanOf(t) ==
    pc[t] \in {"scan", "cmp", "bump"} =>
       \A u \in Threads \ {t} :
          ~Leaving(u) /\ (pc[t] = "bump" \/ u < idx[t]) => epoch[u] = global_epoch

\* A node of limbo_list[t][e] that u still refers to: it will not be freed before
\* u has announced a quiescent state.
Waits(t, u, e) ==
    /\ epoch[u] = global_epoch => e # NextEpoch(global_epoch)
    /\ epoch[t] # global_epoch => e # global_epoch
    /\ pc[t] \in {"process", "advance"} /\ seen[t] # global_epoch => e # global_epoch
    /\ pc[t] = "process" => e # seen[t]

CriticalInv == \A t \in Threads : CriticalOf(t)
LagInv      == \A t \in Threads : LagOf(t)
ScanInv     == \A t \in Threads : ScanOf(t)
GraceInv    ==
    \A t, u \in Threads : \A e \in Epochs :
       limbo_list[t][e] \cap held[u] # {} => Waits(t, u, e)

Safe ==
    /\ Inv /\ UpdateIsExclusive
    /\ CriticalInv /\ LagInv /\ ScanInv /\ GraceInv /\ NoUseAfterFree

\* Three epochs in a row.
LEMMA ThreeEpochs ==
    ASSUME NEW g \in Epochs
    PROVE  /\ NextEpoch(g) \in Epochs /\ NextEpoch(g) # g
           /\ NextEpoch(NextEpoch(g)) # g
           /\ NextEpoch(NextEpoch(g)) # NextEpoch(g)
BY DEF Epochs, N_EPOCHS, NextEpoch

\* A thread that calls free_node_later has a wrapper left: its limbo lists are
\* disjoint and do not hold the node it retires.
LEMMA WrapperLeft ==
    ASSUME Inv, BetweenOperations, NEW t \in Threads, pc[t] = "free"
    PROVE  rcount[t] < WrapperCap
<1> DEFINE L == limbo_list[t]
<1>1. \A e \in Epochs : L[e] \subseteq Nodes /\ IsFiniteSet(L[e]) /\ Cardinality(L[e]) \in Nat
  BY LimboFinite DEF Inv, TypeOK
<1>2. victim[t] \in Nodes
  BY VictimIsNode DEF Inv
<1>3. /\ \A e, f \in Epochs : e # f => L[e] \cap L[f] = {}
      /\ \A e \in Epochs : victim[t] \notin L[e]
  <2>1. \A e, f \in Epochs : \A n \in L[e] : n \in L[f] => e = f
    BY <1>1 DEF Inv, Located, NotTwice
  <2>2. QED
    BY <1>2, <2>1 DEF Inv, Located, NotTwice
<1>4. rcount[t] = Cardinality(L[0]) + Cardinality(L[1]) + Cardinality(L[2])
  BY DEF Inv, RcountIsLimbo
<1> DEFINE A == L[0]
           B == L[1]
           C == L[2]
           v == victim[t]
<1>5. /\ IsFiniteSet(A) /\ IsFiniteSet(B) /\ IsFiniteSet(C)
      /\ Cardinality(A) \in Nat /\ Cardinality(B) \in Nat /\ Cardinality(C) \in Nat
      /\ A \cap B = {} /\ (A \cup B) \cap C = {} /\ v \notin (A \cup B) \cup C
      /\ ((A \cup B) \cup C) \cup {v} \subseteq Nodes
  BY <1>1, <1>2, <1>3, EpochsFacts
<1>6. rcount[t] = Cardinality(A) + Cardinality(B) + Cardinality(C)
  BY <1>4
<1> HIDE DEF A, B, C, v
<1>empty. Cardinality(A \cap B) = 0 /\ Cardinality((A \cup B) \cap C) = 0
  BY <1>5, FS_EmptySet
<1>7. /\ IsFiniteSet(A \cup B)
      /\ Cardinality(A \cup B) = Cardinality(A) + Cardinality(B) - Cardinality(A \cap B)
  BY <1>5, FS_Union
<1>8. /\ IsFiniteSet((A \cup B) \cup C)
      /\ Cardinality((A \cup B) \cup C)
           = Cardinality(A \cup B) + Cardinality(C) - Cardinality((A \cup B) \cap C)
  BY <1>5, <1>7, FS_Union
<1>9. Cardinality(((A \cup B) \cup C) \cup {v}) = Cardinality((A \cup B) \cup C) + 1
  BY <1>5, <1>8, FS_AddElement
<1>10. Cardinality(((A \cup B) \cup C) \cup {v}) <= Cardinality(Nodes)
  BY <1>5, NodesAssumption, FS_Subset
<1>11. Cardinality(Nodes) \in Nat
  BY NodesAssumption, FS_CardinalityType
<1>12. QED
  BY <1>5, <1>6, <1>empty, <1>7, <1>8, <1>9, <1>10, <1>11, BoundsAssumption
     DEF BetweenOperations

\* A step of t leaves alone what belongs to the other threads, except that they
\* may reach a node it inserts.
LEMMA OthersFrame ==
    ASSUME TypeOK, NEW t \in Threads, Step(t), NEW u \in Threads, u # t
    PROVE  /\ pc'[u] = pc[u] /\ caller'[u] = caller[u] /\ in_critical'[u] = in_critical[u]
           /\ epoch'[u] = epoch[u] /\ seen'[u] = seen[u] /\ orig'[u] = orig[u]
           /\ res'[u] = res[u] /\ idx'[u] = idx[u] /\ limbo_list'[u] = limbo_list[u]
           /\ held'[u] = held[u] \/ (pc[u] = "op" /\ held'[u] \subseteq held[u] \cup linked')
<1>dom. /\ DOMAIN pc = Threads /\ DOMAIN caller = Threads /\ DOMAIN in_critical = Threads
        /\ DOMAIN epoch = Threads /\ DOMAIN seen = Threads /\ DOMAIN orig = Threads
        /\ DOMAIN res = Threads /\ DOMAIN idx = Threads /\ DOMAIN limbo_list = Threads
        /\ DOMAIN held = Threads
  BY DEF TypeOK
<1> USE <1>dom DEF Goto, client, globals, limbo, flags, locals
<1>1. CASE \E n \in Nodes : Insert(t, n) \/ Unlink(t, n)
  BY <1>1 DEF Insert, Unlink
<1>2. CASE InsertFindsNoNode(t) \/ FreeNodeLater(t) \/ FreeFindsNoWrapper(t)
  BY <1>2 DEF InsertFindsNoNode, FreeNodeLater, FreeFindsNoWrapper
<1>3. CASE Quiesce(t) \/ StartExit(t) \/ RetryExit(t) \/ FinishExit(t)
  BY <1>3 DEF Quiesce, StartExit, RetryExit, FinishExit
<1>4. CASE ReadEpoch(t) \/ ProcessCallbacks(t) \/ AdvanceEpoch(t)
  BY <1>4 DEF ReadEpoch, ProcessCallbacks, AdvanceEpoch
<1>5. CASE LeaveCritical(t) \/ RestoreCritical(t) \/ RereadEpoch(t) \/ Return(t)
  BY <1>5 DEF LeaveCritical, RestoreCritical, RereadEpoch, Return
<1>6. CASE TryLock(t) \/ BumpEpoch(t) \/ Unlock(t)
  BY <1>6 DEF TryLock, BumpEpoch, Unlock
<1>7. CASE ScanCritical(t) \/ ScanEpoch(t)
  BY <1>7 DEF ScanCritical, ScanEpoch, NextThread
<1>8. QED
  BY <1>1, <1>2, <1>3, <1>4, <1>5, <1>6, <1>7 DEF Step

LEMMA CriticalStep ==
    ASSUME Inv, BetweenOperations, CriticalInv, NEW t \in Threads, Step(t)
    PROVE  CriticalInv'
<1>1. ASSUME NEW u \in Threads, u # t PROVE CriticalOf(u)'
  BY <1>1, OthersFrame DEF Inv, CriticalInv, CriticalOf, Leaving
<1>2. CriticalOf(t)'
  <2>dom. /\ DOMAIN pc = Threads /\ DOMAIN caller = Threads
          /\ DOMAIN in_critical = Threads /\ DOMAIN orig = Threads
          /\ DOMAIN held = Threads /\ orig[t] \in BOOLEAN /\ in_critical[t] \in BOOLEAN
    BY DEF Inv, TypeOK
  <2>old. CriticalOf(t)
    BY DEF CriticalInv
  <2> USE <2>dom, <2>old
      DEF CriticalOf, Leaving, Window, Goto, client, globals, limbo, flags, locals
  <2>callers. pc[t] \in {"op", "free", "exit", "exited"} => caller[t] = "loop"
    BY DEF Inv, CallInv
  <2>1. ASSUME NEW n \in Nodes, Insert(t, n) \/ Unlink(t, n) PROVE CriticalOf(t)'
    BY <2>1 DEF Insert, Unlink
  <2>2. ASSUME InsertFindsNoNode(t) \/ FreeFindsNoWrapper(t) PROVE FALSE
    <3>1. ~InsertFindsNoNode(t)
      BY DEF InsertFindsNoNode, BetweenOperations
    <3>2. FreeFindsNoWrapper(t)
      BY <2>2, <3>1
    <3>3. pc[t] = "free" /\ rcount[t] >= WrapperCap
      BY <3>2 DEF FreeFindsNoWrapper
    <3>4. rcount[t] \in Nat /\ rcount[t] < WrapperCap
      BY <3>3, WrapperLeft DEF Inv, TypeOK
    <3>5. QED
      BY <3>3, <3>4, BoundsAssumption
  <2>3. CASE FreeNodeLater(t) \/ Quiesce(t)
    BY <2>3, <2>callers DEF FreeNodeLater, Quiesce
  <2>4. CASE StartExit(t)
    BY <2>4 DEF StartExit, ExitFlag
  <2>5. CASE RetryExit(t) \/ FinishExit(t)
    BY <2>5 DEF RetryExit, FinishExit
  <2>6. CASE ReadEpoch(t) \/ ProcessCallbacks(t) \/ AdvanceEpoch(t) \/ RereadEpoch(t)
    BY <2>6 DEF ReadEpoch, ProcessCallbacks, AdvanceEpoch, RereadEpoch
  <2>7. CASE LeaveCritical(t)
    BY <2>7 DEF LeaveCritical
  <2>8. CASE RestoreCritical(t)
    BY <2>8 DEF RestoreCritical, Blocking
  <2>9. CASE Return(t)
    BY <2>9 DEF Return, ReturnPC
  <2>10. CASE TryLock(t) \/ BumpEpoch(t) \/ Unlock(t)
    BY <2>10 DEF TryLock, BumpEpoch, Unlock
  <2>11. CASE ScanCritical(t) \/ ScanEpoch(t)
    BY <2>11 DEF ScanCritical, ScanEpoch, NextThread, AfterAbort
  <2>12. QED
    BY <2>1, <2>2, <2>3, <2>4, <2>5, <2>6, <2>7, <2>8, <2>9, <2>10, <2>11 DEF Step
<1>3. QED
  BY <1>1, <1>2 DEF CriticalInv

\* The global epoch moves only when a thread has scanned all the others.
LEMMA GlobalEpochOfStep ==
    ASSUME TypeOK, UpdateIsExclusive, NEW t \in Threads, Step(t)
    PROVE  \/ global_epoch' = global_epoch
           \/ /\ pc[t] = "bump" /\ global_epoch' = NextEpoch(global_epoch)
              /\ pc'[t] = "unlock" /\ res'[t] = TRUE
              /\ caller' = caller /\ epoch' = epoch /\ seen' = seen
              /\ limbo_list' = limbo_list /\ held' = held /\ pool' = pool
<1> USE DEF Goto, client, globals, limbo, flags, locals
<1>1. CASE global_epoch' = global_epoch
  BY <1>1
<1>2. CASE BumpEpoch(t)
  <2>1. curr_epoch[t] = global_epoch
    BY <1>2 DEF BumpEpoch, UpdateIsExclusive, InUpdate
  <2>2. QED
    BY <1>2, <2>1 DEF BumpEpoch, TypeOK
<1>3. QED
  BY <1>1, <1>2
     DEF Step, Insert, Unlink, InsertFindsNoNode, FreeNodeLater, FreeFindsNoWrapper,
         Quiesce, StartExit, RetryExit, FinishExit, ReadEpoch, ProcessCallbacks,
         AdvanceEpoch, LeaveCritical, RestoreCritical, RereadEpoch, Return, TryLock,
         ScanCritical, ScanEpoch, Unlock

\* How the epoch of a thread and the one it has seen change.
LEMMA EpochOfStep ==
    ASSUME TypeOK, NEW t \in Threads, Step(t)
    PROVE  /\ \/ epoch'[t] = epoch[t] /\ pc[t] # "advance"
              \/ pc[t] = "advance" /\ pc'[t] = "ret" /\ epoch'[t] = seen[t]
           /\ pc'[t] \in {"process", "advance"} =>
                 \/ /\ pc[t] \in {"read", "reread"} /\ pc'[t] = "process"
                    /\ seen'[t] = global_epoch /\ epoch[t] # global_epoch
                    /\ global_epoch' = global_epoch
                 \/ /\ pc[t] = "process" /\ pc'[t] = "advance" /\ seen'[t] = seen[t]
                    /\ global_epoch' = global_epoch
<1>dom. /\ DOMAIN pc = Threads /\ DOMAIN epoch = Threads /\ DOMAIN seen = Threads
        /\ caller[t] \in Callers
  BY DEF TypeOK
<1> USE <1>dom DEF Goto, client, globals, limbo, flags, locals
<1>1. ASSUME \/ \E n \in Nodes : Insert(t, n) \/ Unlink(t, n)
             \/ InsertFindsNoNode(t) \/ FreeNodeLater(t) \/ FreeFindsNoWrapper(t)
             \/ Quiesce(t) \/ StartExit(t) \/ RetryExit(t) \/ FinishExit(t)
             \/ LeaveCritical(t)
      PROVE  /\ epoch'[t] = epoch[t] /\ pc[t] # "advance"
             /\ pc'[t] \notin {"process", "advance"}
  BY <1>1 DEF Insert, Unlink, InsertFindsNoNode, FreeNodeLater, FreeFindsNoWrapper,
              Quiesce, StartExit, RetryExit, FinishExit, LeaveCritical
<1>2. ASSUME RestoreCritical(t) \/ Return(t) \/ TryLock(t) \/ BumpEpoch(t) \/ Unlock(t)
      PROVE  /\ epoch'[t] = epoch[t] /\ pc[t] # "advance"
             /\ pc'[t] \notin {"process", "advance"}
  BY <1>2 DEF RestoreCritical, Return, ReturnPC, Callers, TryLock, BumpEpoch, Unlock
<1>3. ASSUME ScanCritical(t) \/ ScanEpoch(t)
      PROVE  /\ epoch'[t] = epoch[t] /\ pc[t] # "advance"
             /\ pc'[t] \notin {"process", "advance"}
  BY <1>3 DEF ScanCritical, ScanEpoch, NextThread, AfterAbort
<1>4. CASE ReadEpoch(t) \/ RereadEpoch(t)
  BY <1>4 DEF ReadEpoch, RereadEpoch
<1>5. CASE ProcessCallbacks(t) \/ AdvanceEpoch(t)
  BY <1>5 DEF ProcessCallbacks, AdvanceEpoch
<1>6. QED
  BY <1>1, <1>2, <1>3, <1>4, <1>5 DEF Step

\* mr_thread_exit is for good.
LEMMA LeavingStays ==
    ASSUME TypeOK, CallInv, NEW t \in Threads, Step(t), ~Leaving(t)'
    PROVE  ~Leaving(t)
<1>dom. /\ DOMAIN pc = Threads /\ DOMAIN caller = Threads
        /\ pc[t] \in {"op", "free", "exit", "exited"} => caller[t] = "loop"
  BY DEF TypeOK, CallInv
<1> USE <1>dom DEF Leaving, Goto, client, globals, limbo, flags, locals
<1>1. CASE \/ \E n \in Nodes : Insert(t, n) \/ Unlink(t, n)
           \/ InsertFindsNoNode(t) \/ FreeNodeLater(t) \/ FreeFindsNoWrapper(t)
           \/ Quiesce(t) \/ StartExit(t) \/ RetryExit(t) \/ FinishExit(t)
  BY <1>1 DEF Insert, Unlink, InsertFindsNoNode, FreeNodeLater, FreeFindsNoWrapper,
              Quiesce, StartExit, RetryExit, FinishExit
<1>2. CASE ReadEpoch(t) \/ ProcessCallbacks(t) \/ AdvanceEpoch(t) \/ LeaveCritical(t)
  BY <1>2 DEF ReadEpoch, ProcessCallbacks, AdvanceEpoch, LeaveCritical
<1>3. CASE RestoreCritical(t) \/ RereadEpoch(t) \/ Return(t)
  BY <1>3 DEF RestoreCritical, RereadEpoch, Return, ReturnPC
<1>4. CASE TryLock(t) \/ ScanCritical(t) \/ ScanEpoch(t) \/ BumpEpoch(t) \/ Unlock(t)
  BY <1>4 DEF TryLock, ScanCritical, ScanEpoch, NextThread, BumpEpoch, Unlock
<1>5. QED
  BY <1>1, <1>2, <1>3, <1>4 DEF Step

\* What a thread that has been left behind in its own advance of the epoch does.
LEMMA LagStep ==
    ASSUME Inv, UpdateIsExclusive, CriticalInv, CriticalInv', LagInv, ScanInv,
           NEW t \in Threads, Step(t)
    PROVE  LagInv'
<1>types. /\ global_epoch \in Epochs /\ \A u \in Threads : epoch[u] \in Epochs
          /\ DOMAIN pc = Threads /\ DOMAIN res = Threads /\ DOMAIN epoch = Threads
          /\ DOMAIN seen = Threads /\ DOMAIN caller = Threads
  BY DEF Inv, TypeOK
<1>next. /\ NextEpoch(global_epoch) # global_epoch
         /\ NextEpoch(NextEpoch(global_epoch)) # global_epoch
         /\ NextEpoch(NextEpoch(global_epoch)) # NextEpoch(global_epoch)
  BY <1>types, ThreeEpochs
<1>step. \/ global_epoch' = global_epoch
         \/ /\ pc[t] = "bump" /\ global_epoch' = NextEpoch(global_epoch)
            /\ pc'[t] = "unlock" /\ res'[t] = TRUE
            /\ caller' = caller /\ epoch' = epoch /\ seen' = seen
  BY GlobalEpochOfStep DEF Inv
<1>1. ASSUME NEW u \in Threads, u # t PROVE LagOf(u)'
  <2>1. /\ pc'[u] = pc[u] /\ caller'[u] = caller[u] /\ epoch'[u] = epoch[u]
        /\ seen'[u] = seen[u] /\ res'[u] = res[u]
    BY <1>1, OthersFrame DEF Inv
  <2>2. LagOf(u)
    BY DEF LagInv
  <2>3. CASE global_epoch' = global_epoch
    BY <2>1, <2>2, <2>3 DEF LagOf, Leaving
  <2>4. CASE pc[t] = "bump" /\ global_epoch' = NextEpoch(global_epoch)
    <3>1. ~Leaving(u) => epoch[u] = global_epoch
      BY <1>1, <2>4 DEF ScanInv, ScanOf
    <3>2. ~Leaving(u) => pc[u] \notin {"process", "advance"}
      BY <2>2, <3>1 DEF LagOf
    <3>3. QED
      BY <1>next, <2>1, <2>4, <3>1, <3>2 DEF LagOf, Leaving
  <2>5. QED
    BY <1>step, <2>3, <2>4
<1>2. LagOf(t)'
  <2> SUFFICES ASSUME ~Leaving(t)' PROVE LagOf(t)'
    BY DEF LagOf
  <2>old. LagOf(t)
    BY DEF LagInv
  <2>stays. ~Leaving(t)
    BY LeavingStays DEF Inv
  <2> USE <1>types, <1>next, <2>old, <2>stays
      DEF LagOf, Goto, client, globals, limbo, flags, locals
  <2>1. ASSUME \/ \E n \in Nodes : Insert(t, n) \/ Unlink(t, n)
               \/ InsertFindsNoNode(t) \/ FreeNodeLater(t) \/ FreeFindsNoWrapper(t)
               \/ Quiesce(t) \/ StartExit(t) \/ RetryExit(t) \/ FinishExit(t)
               \/ LeaveCritical(t)
        PROVE  LagOf(t)'
    BY <2>1 DEF Insert, Unlink, InsertFindsNoNode, FreeNodeLater, FreeFindsNoWrapper,
                Quiesce, StartExit, RetryExit, FinishExit, LeaveCritical
  <2>2. CASE ReadEpoch(t) \/ RereadEpoch(t)
    BY <2>2 DEF ReadEpoch, RereadEpoch
  <2>3. CASE ProcessCallbacks(t) \/ AdvanceEpoch(t)
    BY <2>3 DEF ProcessCallbacks, AdvanceEpoch
  <2>4. CASE RestoreCritical(t)
    BY <2>4 DEF RestoreCritical
  <2>5. CASE Return(t)
    <3>1. pc'[t] \in {"op", "read", "free", "exit"}
      BY <2>5 DEF Return, ReturnPC, Inv, TypeOK, Callers
    <3>2. QED
      BY <2>5, <3>1 DEF Return
  <2>6. CASE TryLock(t)
    BY <2>6 DEF TryLock
  <2>7. CASE ScanCritical(t) \/ ScanEpoch(t)
    BY <2>7 DEF ScanCritical, ScanEpoch, NextThread, AfterAbort
  <2>8. CASE BumpEpoch(t)
    <3>1. /\ global_epoch' = NextEpoch(global_epoch) /\ pc'[t] = "unlock"
          /\ res'[t] = TRUE
      BY <1>step, <2>8, GlobalEpochOfStep DEF BumpEpoch, UpdateIsExclusive, InUpdate
    <3>2. QED
      BY <3>1
  <2>9. CASE Unlock(t)
    BY <2>9 DEF Unlock
  <2>10. QED
    BY <2>1, <2>2, <2>3, <2>4, <2>5, <2>6, <2>7, <2>8, <2>9 DEF Step
<1>3. QED
  BY <1>1, <1>2 DEF LagInv

\* Whom a timely scan passes has announced a quiescent state in this epoch, or is
\* leaving.
LEMMA PassedIsTimely ==
    ASSUME Inv, UpdateIsExclusive, CriticalInv, NEW t \in Threads,
           ScanCritical(t) \/ ScanEpoch(t), TimelyStep,
           NextThread(t), NEW u \in Threads \ {t}, u = idx[t], ~Leaving(u)
    PROVE  epoch[u] = global_epoch
<1>1. curr_epoch[t] = global_epoch
  BY DEF ScanCritical, ScanEpoch, UpdateIsExclusive, InUpdate
<1>dom. DOMAIN pc = Threads /\ DOMAIN idx = Threads /\ idx[t] \in Nat
  BY ThreadsFacts DEF Inv, TypeOK
<1>2. ~(pc'[t] = "scan" /\ idx'[t] = idx[t])
  BY <1>dom DEF NextThread
<1>3. CASE ScanEpoch(t)
  <2>1. pc[t] = "cmp"
    BY <1>3 DEF ScanEpoch
  <2>2. CASE epoch[u] # curr_epoch[t]
    <3>1. pc' = [pc EXCEPT ![t] = "unlock"]
      BY <1>3, <2>2 DEF ScanEpoch, AfterAbort
    <3>2. pc'[t] \in {"scan", "bump"}
      BY <1>dom DEF NextThread
    <3>3. QED
      BY <1>dom, <3>1, <3>2
  <2>3. QED
    BY <1>1, <2>2
<1>4. CASE ScanCritical(t)
  <2>1. pc[t] = "scan"
    BY <1>4 DEF ScanCritical
  <2>2. CASE in_critical[u]
    <3>1. pc' = [pc EXCEPT ![t] = "cmp"]
      BY <1>4, <2>2 DEF ScanCritical
    <3>2. pc'[t] \in {"scan", "bump"}
      BY <1>dom DEF NextThread
    <3>3. QED
      BY <1>dom, <3>1, <3>2
  <2>3. CASE ~in_critical[u]
    <3>1. pc[u] \in Window /\ orig[u]
      BY <2>3 DEF CriticalInv, CriticalOf
    <3>2. InWindow(u)
      BY <3>1 DEF InWindow, Window
    <3>3. QED
      BY <1>1, <1>2, <2>1, <3>2 DEF TimelyStep
  <2>4. QED
    BY <2>2, <2>3
<1>5. QED
  BY <1>3, <1>4

\* A thread that update_epoch waits for enters no other epoch than the global one.
LEMMA EpochIsGlobal ==
    ASSUME Inv, LagInv, NEW t \in Threads, Step(t), ~Leaving(t)
    PROVE  epoch'[t] = epoch[t] \/ epoch'[t] = global_epoch
BY EpochOfStep DEF Inv, LagInv, LagOf

LEMMA ScanStep ==
    ASSUME Inv, UpdateIsExclusive, CriticalInv, LagInv, ScanInv,
           NEW t \in Threads, Step(t), TimelyStep, UpdateIsExclusive'
    PROVE  ScanInv'
<1> SUFFICES ASSUME NEW s \in Threads, pc'[s] \in {"scan", "cmp", "bump"},
                    NEW u \in Threads \ {s}, ~Leaving(u)',
                    pc'[s] = "bump" \/ u < idx'[s]
             PROVE  epoch'[u] = global_epoch'
  BY DEF ScanInv, ScanOf
<1>types. /\ DOMAIN pc = Threads /\ DOMAIN idx = Threads /\ idx[s] \in Nat /\ s \in Nat
          /\ \A v \in Threads : v \in Nat
  BY ThreadsFacts DEF Inv, TypeOK
<1>1. ~Leaving(u)
  <2>1. CASE u = t
    BY <2>1, LeavingStays DEF Inv
  <2>2. CASE u # t
    BY <2>2, OthersFrame DEF Inv, Leaving
  <2>3. QED
    BY <2>1, <2>2
<1>2. global_epoch' = global_epoch
  <2>1. SUFFICES ASSUME pc[t] = "bump" /\ pc'[t] = "unlock" PROVE FALSE
    BY GlobalEpochOfStep DEF Inv
  <2>2. s # t
    BY <2>1
  <2>3. pc[s] \in InUpdate /\ pc[t] \in InUpdate
    BY <2>1, <2>2, OthersFrame DEF Inv, InUpdate
  <2>4. QED
    BY <2>2, <2>3 DEF UpdateIsExclusive
<1>3. epoch'[u] = epoch[u] \/ epoch'[u] = global_epoch
  <2>1. CASE u = t
    BY <1>1, <2>1, EpochIsGlobal
  <2>2. CASE u # t
    BY <2>2, OthersFrame DEF Inv
  <2>3. QED
    BY <2>1, <2>2
<1>4. CASE pc[s] \in {"scan", "cmp", "bump"} /\ (pc[s] = "bump" \/ u < idx[s])
  <2>1. epoch[u] = global_epoch
    BY <1>1, <1>4 DEF ScanInv, ScanOf
  <2>2. QED
    BY <1>2, <1>3, <2>1
<1>5. CASE ~(pc[s] \in {"scan", "cmp", "bump"} /\ (pc[s] = "bump" \/ u < idx[s]))
  <2>1. s = t
    BY <1>5, OthersFrame DEF Inv
  <2> USE <1>types, <1>5, <2>1 DEF Goto, client, globals, limbo, flags, locals
  <2>2. TryLock(t) \/ ScanCritical(t) \/ ScanEpoch(t)
    <3>1. ASSUME \/ \E n \in Nodes : Insert(t, n) \/ Unlink(t, n)
                 \/ InsertFindsNoNode(t) \/ FreeNodeLater(t) \/ FreeFindsNoWrapper(t)
                 \/ Quiesce(t) \/ StartExit(t) \/ RetryExit(t) \/ FinishExit(t)
          PROVE  FALSE
      BY <3>1 DEF Insert, Unlink, InsertFindsNoNode, FreeNodeLater,
                  FreeFindsNoWrapper, Quiesce, StartExit, RetryExit, FinishExit
    <3>2. ASSUME \/ ReadEpoch(t) \/ ProcessCallbacks(t) \/ AdvanceEpoch(t)
                 \/ LeaveCritical(t) \/ RestoreCritical(t) \/ RereadEpoch(t)
                 \/ BumpEpoch(t) \/ Unlock(t)
          PROVE  FALSE
      BY <3>2 DEF ReadEpoch, ProcessCallbacks, AdvanceEpoch, LeaveCritical,
                  RestoreCritical, RereadEpoch, BumpEpoch, Unlock
    <3>3. ASSUME Return(t) PROVE FALSE
      BY <3>3 DEF Return, ReturnPC, Inv, TypeOK, Callers
    <3>4. QED
      BY <3>1, <3>2, <3>3 DEF Step
  <2>3. ~TryLock(t)
    BY DEF TryLock
  <2>4. /\ NextThread(t) /\ pc[t] \in {"scan", "cmp"}
    <3>1. pc[t] \in {"scan", "cmp"}
      BY <2>2, <2>3 DEF ScanCritical, ScanEpoch
    <3>2. pc'[t] # "unlock" /\ (idx' = idx => pc'[t] = "bump")
      BY <3>1
    <3>3. QED
      BY <2>2, <2>3, <3>1, <3>2 DEF ScanCritical, ScanEpoch, AfterAbort
  <2>5. u = idx[t]
    <3>1. NextThread(t) /\ s = t /\ (pc'[s] = "bump" \/ u < idx'[s])
      BY <2>1, <2>4
    <3>2. u < N /\ ~(u < idx[t]) /\ N \in Nat /\ u \in Nat /\ idx[t] \in Nat
      BY <2>4, ThreadsFacts, NAssumption
    <3> HIDE <1>types, <1>5, <2>1 DEF Goto, client, globals, limbo, flags, locals
    <3>3. CASE idx[t] + 1 < N
      <4>1. idx' = [idx EXCEPT ![t] = idx[t] + 1] /\ pc' = [pc EXCEPT ![t] = "scan"]
        BY <3>1, <3>3 DEF NextThread, MoreThreads
      <4>2. idx'[t] = idx[t] + 1 /\ pc'[t] = "scan"
        BY <4>1, <1>types
      <4>3. u < idx[t] + 1
        BY <3>1, <4>2
      <4>4. QED
        BY <3>2, <4>3
    <3>4. CASE ~(idx[t] + 1 < N)
      BY <3>2, <3>4
    <3>5. QED
      BY <3>3, <3>4
  <2>6. epoch[u] = global_epoch
    BY <1>1, <2>2, <2>3, <2>4, <2>5, PassedIsTimely
  <2>7. QED
    BY <1>2, <1>3, <2>6
<1>6. QED
  BY <1>4, <1>5

\* A thread comes to refer only to nodes that are linked.
LEMMA HeldOfStep ==
    ASSUME TypeOK, NEW t \in Threads, Step(t), NEW u \in Threads
    PROVE  held'[u] \subseteq held[u] \cup linked'
<1>1. CASE u # t
  BY <1>1, OthersFrame
<1>2. CASE u = t
  <2>dom. DOMAIN held = Threads
    BY DEF TypeOK
  <2> USE <1>2, <2>dom DEF client
  <2>1. CASE \E n \in Nodes : Insert(t, n) \/ Unlink(t, n)
    BY <2>1 DEF Insert, Unlink
  <2>2. CASE FreeNodeLater(t) \/ Quiesce(t) \/ StartExit(t) \/ Return(t)
    BY <2>2 DEF FreeNodeLater, Quiesce, StartExit, Return
  <2>3. CASE held' = held
    BY <2>3
  <2>4. QED
    BY <2>1, <2>2, <2>3
       DEF Step, InsertFindsNoNode, FreeFindsNoWrapper, RetryExit, FinishExit,
           ReadEpoch, ProcessCallbacks, AdvanceEpoch, LeaveCritical, RestoreCritical,
           RereadEpoch, TryLock, ScanCritical, ScanEpoch, BumpEpoch, Unlock
<1>3. QED
  BY <1>1, <1>2

\* What free_node_later and process_callbacks do to the limbo lists.
LEMMA LimboOfStep ==
    ASSUME TypeOK, NEW t \in Threads, Step(t), NEW v \in Threads, NEW e \in Epochs
    PROVE  \/ limbo_list'[v][e] \subseteq limbo_list[v][e]
           \/ FreeNodeLater(t) /\ v = t /\ e = epoch[t]
<1>dom. limbo_list \in [Threads -> [Epochs -> SUBSET Nodes]]
  BY DEF TypeOK
<1>1. CASE FreeNodeLater(t)
  <2>1. limbo_list' = [limbo_list EXCEPT ![t][epoch[t]] = @ \cup {victim[t]}]
    BY <1>1 DEF FreeNodeLater
  <2>2. QED
    BY <1>dom, <1>1, <2>1
<1>2. CASE ProcessCallbacks(t)
  <2>1. limbo_list' = [limbo_list EXCEPT ![t][seen[t]] = {}]
    BY <1>2 DEF ProcessCallbacks, ExpiredEpoch
  <2>2. QED
    BY <1>dom, <2>1
<1>3. CASE limbo_list' = limbo_list
  BY <1>3
<1>4. QED
  BY <1>1, <1>2, <1>3
     DEF limbo, Step, Insert, Unlink, InsertFindsNoNode, FreeFindsNoWrapper, Quiesce,
         StartExit, RetryExit, FinishExit, ReadEpoch, AdvanceEpoch, LeaveCritical,
         RestoreCritical, RereadEpoch, Return, TryLock, ScanCritical, ScanEpoch,
         BumpEpoch, Unlock

\* Only process_callbacks gives nodes back to an allocator.
LEMMA PoolOfStep ==
    ASSUME TypeOK, NEW t \in Threads, Step(t), NEW w \in Threads
    PROVE  \/ pool'[w] \subseteq pool[w]
           \/ /\ pc[t] = "process" /\ w = t
              /\ pool'[t] = pool[t] \cup limbo_list[t][seen[t]]
<1>dom. DOMAIN pool = Threads
  BY DEF TypeOK
<1>1. CASE \E n \in Nodes : Insert(t, n)
  BY <1>dom, <1>1 DEF Insert
<1>2. CASE ProcessCallbacks(t)
  BY <1>dom, <1>2 DEF ProcessCallbacks, ExpiredEpoch, Goto
<1>3. CASE pool' = pool
  BY <1>3
<1>4. QED
  BY <1>1, <1>2, <1>3
     DEF client, Step, Unlink, InsertFindsNoNode, FreeNodeLater, FreeFindsNoWrapper,
         Quiesce, StartExit, RetryExit, FinishExit, ReadEpoch, AdvanceEpoch,
         LeaveCritical, RestoreCritical, RereadEpoch, Return, TryLock, ScanCritical,
         ScanEpoch, BumpEpoch, Unlock

\* A thread with references is between two calls of quiescent_state.
LEMMA HolderIsOutside ==
    ASSUME Inv, CriticalInv, NEW u \in Threads, held[u] # {}
    PROVE  pc[u] \in {"op", "free"} /\ ~Leaving(u)
BY DEF Inv, CallInv, CriticalInv, CriticalOf, Leaving

LEMMA GraceStep ==
    ASSUME Inv, Inv', UpdateIsExclusive, CriticalInv, LagInv, ScanInv, GraceInv,
           NEW t \in Threads, Step(t)
    PROVE  GraceInv'
<1> SUFFICES ASSUME NEW v \in Threads, NEW u \in Threads, NEW e \in Epochs,
                    NEW n \in limbo_list'[v][e] \cap held'[u]
             PROVE  Waits(v, u, e)'
  BY DEF GraceInv
<1>types. global_epoch \in Epochs /\ epoch[t] \in Epochs
  BY DEF Inv, TypeOK
<1>1. n \in held[u] /\ pc[u] \in {"op", "free"} /\ ~Leaving(u)
  <2>1. n \notin linked'
    BY DEF Inv, TypeOK, Located, NotTwice
  <2>2. n \in held[u]
    BY <2>1, HeldOfStep DEF Inv
  <2>3. QED
    BY <2>2, HolderIsOutside
<1>2. CASE FreeNodeLater(t) /\ v = t /\ e = epoch[t]
  <2>1. /\ pc[t] = "free" /\ pc'[t] = "op"
        /\ epoch' = epoch /\ global_epoch' = global_epoch
    BY <1>2 DEF FreeNodeLater, Goto, globals, flags, Inv, TypeOK
  <2>2. ~Leaving(t)
    BY <2>1 DEF Leaving, Inv, CallInv
  <2>3. epoch[t] # NextEpoch(global_epoch)
    BY <2>1, <2>2 DEF LagInv, LagOf
  <2>4. QED
    BY <1>2, <2>1, <2>3 DEF Waits
<1>3. CASE limbo_list'[v][e] \subseteq limbo_list[v][e]
  <2>1. Waits(v, u, e)
    BY <1>1, <1>3 DEF GraceInv
  <2>2. CASE global_epoch' # global_epoch
    <3>1. /\ pc[t] = "bump" /\ global_epoch' = NextEpoch(global_epoch)
          /\ pc'[t] = "unlock" /\ epoch' = epoch /\ seen' = seen
      BY <2>2, GlobalEpochOfStep DEF Inv
    <3>2. epoch[u] = global_epoch
      BY <1>1, <3>1 DEF ScanInv, ScanOf
    <3>3. e # global_epoch' /\ epoch'[u] # global_epoch'
      BY <1>types, <2>1, <3>1, <3>2, ThreeEpochs DEF Waits
    <3>4. pc'[v] = "process" => pc[v] = "process"
      BY <3>1, OthersFrame DEF Inv
    <3>5. QED
      BY <2>1, <3>1, <3>3, <3>4 DEF Waits
  <2>3. CASE global_epoch' = global_epoch
    <3>1. epoch'[u] = epoch[u]
      BY <1>1, EpochOfStep, OthersFrame DEF Inv
    <3>2. CASE v # t
      <4>1. pc'[v] = pc[v] /\ epoch'[v] = epoch[v] /\ seen'[v] = seen[v]
        BY <3>2, OthersFrame DEF Inv
      <4>2. QED
        BY <2>1, <2>3, <3>1, <4>1 DEF Waits
    <3>3. CASE v = t
      <4>ok. TypeOK
        BY DEF Inv
      <4>1. \/ epoch'[t] = epoch[t] /\ pc[t] # "advance"
            \/ pc[t] = "advance" /\ pc'[t] = "ret" /\ epoch'[t] = seen[t]
        BY <4>ok, EpochOfStep
      <4>2. pc'[t] \in {"process", "advance"} =>
               \/ pc'[t] = "process" /\ seen'[t] = global_epoch /\ epoch[t] # global_epoch
               \/ pc[t] = "process" /\ pc'[t] = "advance" /\ seen'[t] = seen[t]
        BY <4>ok, EpochOfStep
      <4>3. epoch'[t] # global_epoch => e # global_epoch
        BY <2>1, <3>3, <4>1 DEF Waits
      <4>4. QED
        BY <2>1, <2>3, <3>1, <3>3, <4>2, <4>3 DEF Waits
    <3>4. QED
      BY <3>2, <3>3
  <2>4. QED
    BY <2>2, <2>3
<1>4. QED
  BY <1>2, <1>3, LimboOfStep DEF Inv

LEMMA AliveStep ==
    ASSUME Inv, Inv', CriticalInv, GraceInv, NoUseAfterFree,
           NEW t \in Threads, Step(t)
    PROVE  NoUseAfterFree'
<1> SUFFICES ASSUME NEW u \in Threads, NEW w \in Threads,
                    NEW n \in held'[u], n \in pool'[w]
             PROVE  FALSE
  BY DEF NoUseAfterFree, Free
<1>1. n \in held[u]
  <2>1. n \notin linked'
    BY DEF Inv, TypeOK, Located, NotTwice
  <2>2. QED
    BY <2>1, HeldOfStep DEF Inv
<1>2. n \notin pool[w]
  BY <1>1 DEF NoUseAfterFree, Free
<1>3. pc[t] = "process" /\ n \in limbo_list[t][seen[t]]
  BY <1>2, PoolOfStep DEF Inv
<1>4. seen[t] \in Epochs
  BY DEF Inv, TypeOK
<1>5. Waits(t, u, seen[t])
  BY <1>1, <1>3, <1>4 DEF GraceInv
<1>6. QED
  BY <1>3, <1>5 DEF Waits

LEMMA SafeStep ==
    ASSUME BetweenOperations, Safe, [Next /\ TimelyStep]_vars
    PROVE  Safe'
<1>1. CASE UNCHANGED vars
  BY <1>1 DEF vars, client, globals, limbo, flags, control, locals, Safe, Inv,
       TypeOK, CallInv, Located, Somewhere, NotTwice, RcountIsLimbo, UpdateIsExclusive,
       CriticalInv, CriticalOf, LagInv, LagOf, ScanInv, ScanOf, GraceInv, Waits, Leaving,
       NoUseAfterFree, Free
<1>2. CASE Next /\ TimelyStep /\ ~UNCHANGED vars
  <2>1. PICK t \in Threads : Step(t)
    BY <1>2, NextIsStep
  <2>2. Inv' /\ UpdateIsExclusive'
    BY <1>2, InvStep DEF Safe
  <2>3. CriticalInv'
    BY <2>1, CriticalStep DEF Safe
  <2>4. LagInv'
    BY <2>1, <2>3, LagStep DEF Safe
  <2>5. ScanInv'
    BY <1>2, <2>1, <2>2, ScanStep DEF Safe
  <2>6. GraceInv'
    BY <2>1, <2>2, GraceStep DEF Safe
  <2>7. NoUseAfterFree'
    BY <2>1, <2>2, AliveStep DEF Safe
  <2>8. QED
    BY <2>2, <2>3, <2>4, <2>5, <2>6, <2>7 DEF Safe
<1>3. QED
  BY <1>1, <1>2

LEMMA InitSafe == Init => Safe
<1> SUFFICES ASSUME Init PROVE Safe
  OBVIOUS
<1>1. Inv /\ UpdateIsExclusive
  BY InitInv
<1>2. CriticalInv /\ LagInv /\ ScanInv /\ GraceInv
  BY ThreeEpochs DEF Init, CriticalInv, CriticalOf, LagInv, LagOf, ScanInv, ScanOf,
     GraceInv, Waits, Leaving, Window, NextEpoch, N_EPOCHS
<1>3. NoUseAfterFree
  BY DEF Init, NoUseAfterFree, Free
<1>4. QED
  BY <1>1, <1>2, <1>3 DEF Safe

LEMMA SafeInvariance == ASSUME BetweenOperations PROVE TimelySpec => []Safe
<1>1. Safe /\ [Next /\ TimelyStep]_vars => Safe'
  BY SafeStep
<1>2. QED
  BY <1>1, InitSafe, PTL DEF TimelySpec

-----------------------------------------------------------------------------
(* Reclamation, step by step: process_callbacks frees a limbo list, and    *)
(* every other step of quiescent_state only changes references.            *)

LEMMA RefsAfter ==
    ASSUME Inv, Inv', NEW t \in Threads, Step(t)
    PROVE  R!RefsStep
<1>1. held' \in [Threads -> SUBSET Nodes]
  BY DEF Inv, TypeOK
<1>2. ASSUME NEW u \in Threads PROVE held'[u] \subseteq held[u] \cup linked'
  BY HeldOfStep DEF Inv
<1>3. QED
  BY <1>1, <1>2 DEF R!RefsStep

LEMMA InsertIsInsert ==
    ASSUME Inv, Inv', NEW t \in Threads, NEW n \in Nodes, Insert(t, n)
    PROVE  R!Insert(n)
<1>1. /\ n \in pool[t] /\ linked' = linked \cup {n}
      /\ UNCHANGED <<victim, limbo_list>>
  BY DEF Insert, limbo
<1>2. pool'[t] = pool[t] \ {n} /\ \A u \in Threads \ {t} : pool'[u] = pool[u]
  BY DEF Insert, Inv, TypeOK
<1>3. \A u \in Threads : n \in pool[u] => u = t
  BY <1>1 DEF Inv, Located, NotTwice
<1>4. Free' = Free \ {n}
  BY <1>2, <1>3 DEF Free
<1>5. Retired' = Retired
  BY <1>1 DEF Retired, InLimbo
<1>6. R!RefsStep
  BY RefsAfter DEF Step
<1>7. QED
  BY <1>1, <1>4, <1>5, <1>6 DEF R!Insert, Free

LEMMA UnlinkIsRetire ==
    ASSUME Inv, Inv', NEW t \in Threads, NEW n \in Nodes, Unlink(t, n)
    PROVE  R!Retire(n)
<1>1. /\ n \in linked /\ linked' = linked \ {n}
      /\ UNCHANGED <<pool, limbo_list>>
  BY DEF Unlink, Removed, limbo
<1>2. victim[t] = NoNode
  BY DEF Unlink, Goto, Inv, CallInv
<1>3. victim'[t] = n /\ \A u \in Threads \ {t} : victim'[u] = victim[u]
  BY DEF Unlink, Inv, TypeOK
<1>4. Free' = Free
  BY <1>1 DEF Free
<1>5. {victim'[u] : u \in Threads} \ {NoNode}
         = ({victim[u] : u \in Threads} \ {NoNode}) \cup {n}
  BY <1>2, <1>3, NodesAssumption
<1>6. Retired' = Retired \cup {n}
  BY <1>1, <1>5 DEF Retired, InLimbo
<1>7. R!RefsStep
  BY RefsAfter DEF Step
<1>8. QED
  BY <1>1, <1>4, <1>6, <1>7 DEF R!Retire

\* Retired, node by node.
LEMMA RetiredNodes ==
    ASSUME NEW n
    PROVE  n \in Retired <=>
              \/ \E v \in Threads : \E e \in Epochs : n \in limbo_list[v][e]
              \/ n # NoNode /\ \E v \in Threads : n = victim[v]
BY DEF Retired, InLimbo

LEMMA RetiredNodesAfter ==
    ASSUME NEW n
    PROVE  n \in Retired' <=>
              \/ \E v \in Threads : \E e \in Epochs : n \in limbo_list'[v][e]
              \/ n # NoNode /\ \E v \in Threads : n = victim'[v]
BY DEF Retired, InLimbo

LEMMA RetireIsAccess ==
    ASSUME Inv, Inv', NEW t \in Threads, FreeNodeLater(t)
    PROVE  R!Access
<1>1. UNCHANGED <<linked, pool>>
  BY DEF FreeNodeLater
<1>2. victim[t] # NoNode /\ epoch[t] \in Epochs
  BY VictimIsNode DEF FreeNodeLater, Goto, Inv, TypeOK
<1>3. victim'[t] = NoNode /\ \A u \in Threads \ {t} : victim'[u] = victim[u]
  BY DEF FreeNodeLater, Inv, TypeOK
<1>4. /\ limbo_list'[t][epoch[t]] = limbo_list[t][epoch[t]] \cup {victim[t]}
      /\ \A u \in Threads : \A e \in Epochs :
            u # t \/ e # epoch[t] => limbo_list'[u][e] = limbo_list[u][e]
  BY <1>2 DEF FreeNodeLater, Inv, TypeOK
<1>5. ASSUME NEW n PROVE n \in Retired' <=> n \in Retired
  BY <1>2, <1>3, <1>4, RetiredNodes, RetiredNodesAfter
<1>6. R!RefsStep
  BY RefsAfter DEF Step
<1>7. Retired' = Retired /\ Free' = Free
  BY <1>1, <1>5 DEF Free
<1>8. QED
  BY <1>1, <1>6, <1>7 DEF R!Access

LEMMA CallbacksAreFree ==
    ASSUME Safe, Inv', NEW t \in Threads, ProcessCallbacks(t)
    PROVE  R!Free(limbo_list[t][seen[t]])
<1> DEFINE S == limbo_list[t][seen[t]]
<1>1. /\ pc[t] = "process" /\ seen[t] \in Epochs
      /\ UNCHANGED <<linked, victim, held>>
  BY DEF ProcessCallbacks, Goto, Safe, Inv, TypeOK
<1>2. /\ limbo_list'[t][seen[t]] = {}
      /\ \A u \in Threads : \A e \in Epochs :
            u # t \/ e # seen[t] => limbo_list'[u][e] = limbo_list[u][e]
  BY <1>1 DEF ProcessCallbacks, ExpiredEpoch, Safe, Inv, TypeOK
<1>3. pool'[t] = pool[t] \cup S /\ \A u \in Threads \ {t} : pool'[u] = pool[u]
  BY DEF ProcessCallbacks, ExpiredEpoch, Safe, Inv, TypeOK
<1>4. S \subseteq Nodes
  BY <1>1 DEF Safe, Inv, TypeOK
<1>5. ASSUME NEW n \in S
      PROVE  /\ \A v \in Threads : n # victim[v]
             /\ \A v \in Threads : \A e \in Epochs :
                   n \in limbo_list[v][e] => v = t /\ e = seen[t]
  BY <1>1, <1>4 DEF Safe, Inv, Located, NotTwice
<1>6. S \subseteq Retired
  BY <1>1, RetiredNodes
<1>7. ASSUME NEW n PROVE n \in Retired' <=> n \in Retired \ S
  BY <1>1, <1>2, <1>5, RetiredNodes, RetiredNodesAfter
<1>8. Free' = Free \cup S
  BY <1>3 DEF Free
<1>9. ASSUME NEW u \in Threads PROVE held[u] \cap S = {}
  <2>1. held[u] \cap S # {} => Waits(t, u, seen[t])
    BY <1>1 DEF Safe, GraceInv
  <2>2. QED
    BY <1>1, <2>1 DEF Waits
<1>10. Retired' = Retired \ S
  BY <1>7
<1>11. QED
  BY <1>1, <1>6, <1>8, <1>9, <1>10 DEF R!Free

LEMMA StepRefines ==
    ASSUME Safe, Inv', NEW t \in Threads, Step(t)
    PROVE  R!Next
<1>1. ASSUME UNCHANGED <<linked, pool, victim, limbo_list>> PROVE R!Access
  <2>1. Free' = Free /\ Retired' = Retired
    BY <1>1 DEF Free, Retired, InLimbo
  <2>2. QED
    BY <1>1, <2>1, RefsAfter DEF R!Access, Safe
<1>2. ASSUME NEW n \in Nodes, Insert(t, n) PROVE R!Next
  BY <1>2, InsertIsInsert DEF R!Next, Safe
<1>3. ASSUME NEW n \in Nodes, Unlink(t, n) PROVE R!Next
  BY <1>3, UnlinkIsRetire DEF R!Next, Safe
<1>4. CASE FreeNodeLater(t)
  BY <1>4, RetireIsAccess DEF R!Next, Safe
<1>5. CASE ProcessCallbacks(t)
  <2>1. limbo_list[t][seen[t]] \in SUBSET Nodes
    BY DEF Safe, Inv, TypeOK
  <2>2. QED
    BY <1>5, <2>1, CallbacksAreFree DEF R!Next
<1>6. QED
  BY <1>1, <1>2, <1>3, <1>4, <1>5
     DEF R!Next, client, limbo, Step, InsertFindsNoNode, FreeFindsNoWrapper, Quiesce,
         StartExit, RetryExit, FinishExit, ReadEpoch, AdvanceEpoch, LeaveCritical,
         RestoreCritical, RereadEpoch, Return, TryLock, ScanCritical, ScanEpoch,
         BumpEpoch, Unlock

LEMMA InitRefines == Init => R!Init
<1> SUFFICES ASSUME Init PROVE R!Init
  OBVIOUS
<1>1. linked \in SUBSET Nodes
  BY DEF Init
<1>2. Free = Nodes \ linked
  BY DEF Init, Free
<1>3. Retired = {}
  BY DEF Init, Retired, InLimbo
<1>4. held \in [Threads -> SUBSET linked]
  BY DEF Init
<1>5. QED
  BY <1>1, <1>2, <1>3, <1>4 DEF R!Init

LEMMA NextRefines == Safe /\ Inv' /\ [Next]_vars => [R!Next]_R!vars
<1> SUFFICES ASSUME Safe, Inv', [Next]_vars
             PROVE  [R!Next]_R!vars
  OBVIOUS
<1>1. CASE UNCHANGED vars
  BY <1>1 DEF vars, client, limbo, R!vars, Free, Retired, InLimbo
<1>2. ASSUME NEW t \in Threads, Step(t) PROVE R!Next
  BY <1>2, StepRefines
<1>3. QED
  BY <1>1, <1>2, NextIsStep

-----------------------------------------------------------------------------
(* The theorems.                                                           *)

\* Every variable keeps its type: in particular rcount never wraps below zero
\* and the epochs stay in 0 .. N_EPOCHS - 1.
THEOREM TypeCorrect == Spec => []TypeOK
<1>1. Inv /\ UpdateIsExclusive => TypeOK
  BY DEF Inv
<1>2. QED
  BY <1>1, Invariance, PTL

\* rcount is the number of nodes in the three limbo lists: mr_thread_exit stops
\* at rcount = 0 exactly when nothing is left to free.
THEOREM RcountCorrect == Spec => []RcountIsLimbo
<1>1. Inv /\ UpdateIsExclusive => RcountIsLimbo
  BY DEF Inv
<1>2. QED
  BY <1>1, Invariance, PTL

\* No node is leaked, retired twice or freed twice, whatever the interleaving
\* of quiescent_state, free_node_later and the list operations.
THEOREM NodesConserved == Spec => []OnePlace
<1>1. Inv /\ UpdateIsExclusive => OnePlace
  BY LocatedIsOnePlace DEF Inv
<1>2. QED
  BY <1>1, Invariance, PTL

\* update_epoch is mutually exclusive, and the epoch it advances is the one it
\* has read.
THEOREM UpdateCorrect == Spec => []UpdateIsExclusive
BY Invariance, PTL

\* Under timely scheduling, and with quiescence announced between operations only,
\* process_callbacks gives no node back to an allocator while a thread can still
\* dereference it, whoever leaves with mr_thread_exit: two epochs after the node
\* was unlinked every other thread has passed a quiescent state.
THEOREM Safety == ASSUME BetweenOperations PROVE TimelySpec => []NoUseAfterFree
<1>1. Safe => NoUseAfterFree
  BY DEF Safe
<1>2. QED
  BY <1>1, SafeInvariance, PTL

\* Under the same two conditions quiescent-state-based reclamation keeps the
\* promise of Reclamation: process_callbacks is its Free, and free_node_later and
\* quiescent_state only change references.
THEOREM Refinement == ASSUME BetweenOperations PROVE TimelySpec => RefinesReclamation
<1>1. Safe => Inv
  BY DEF Safe
<1>2. [Next /\ TimelyStep]_vars => [Next]_vars
  OBVIOUS
<1>3. QED
  BY <1>1, <1>2, InitRefines, NextRefines, SafeInvariance, PTL
     DEF TimelySpec, RefinesReclamation, R!Spec
===============================================================================
