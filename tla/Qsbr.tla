-------------------------------- MODULE Qsbr --------------------------------
(***************************************************************************)
(* Quiescent-state-based reclamation, src/src/qsbr.c, driven by the        *)
(* threads of src/src/linkedlist-qsbr-harris_opt.                          *)
(*                                                                         *)
(* Each thread performs list operations (pc "op"), and every               *)
(* QUIESCENCE_THRESHOLD operations calls quiescent_state(FUZZY).  Each     *)
(* access of quiescent_state and update_epoch to memory that another       *)
(* thread may read or write is a step of its own; pc[t] names the next one.*)
(*                                                                         *)
(* The list is the set of its linked nodes.  held[t] is every node thread  *)
(* t may still dereference: all the nodes that were linked at some moment  *)
(* since its current stretch of operations began.                          *)
(***************************************************************************)
EXTENDS Naturals, FiniteSets

CONSTANTS
    N,               \* qad.nthreads
    Nodes,           \* the nodes of allocator 0
    NoNode,          \* no node
    WrapperCap,      \* mr_node_t wrappers each thread's allocator 1 can hold
    MaxExitRetries,  \* MAX_EXIT_RETRIES
    InsertWhenEmpty, \* whether the workload inserts with its allocator empty
    MayExit          \* whether threads leave (mr_thread_exit)

ASSUME NAssumption == N \in Nat \ {0}
ASSUME NodesAssumption == IsFiniteSet(Nodes) /\ NoNode \notin Nodes
ASSUME BoundsAssumption ==
    /\ WrapperCap \in Nat \ {0}
    /\ MaxExitRetries \in Nat
    /\ InsertWhenEmpty \in BOOLEAN
    /\ MayExit \in BOOLEAN

Threads  == 0 .. N - 1
N_EPOCHS == 3
Epochs   == 0 .. N_EPOCHS - 1

VARIABLES
    \* the client: the list, the allocators and the references
    linked,         \* nodes reachable from the head of the list
    pool,           \* pool[t]: nodes in thread t's own allocator 0
    held,           \* held[t]: nodes t may still dereference
    victim,         \* victim[t]: argument of t's free_node_later
    \* struct qsbr_globals
    global_epoch,
    update_lock,
    \* struct qsbr_data
    limbo_list,     \* limbo_list[t][e]: nodes awaiting physical deletion
    rcount,
    epoch,
    in_critical,
    \* control and local variables of a thread
    pc,
    caller,         \* who called quiescent_state
    seen,           \* quiescent_state: epoch
    orig,           \* quiescent_state: orig
    res,            \* quiescent_state: res, what update_epoch returned
    curr_epoch,     \* update_epoch: curr_epoch
    idx,            \* update_epoch: i
    retries         \* mr_thread_exit: retries

client  == <<linked, pool, held, victim>>
limbo   == <<limbo_list, rcount>>
globals == <<global_epoch, update_lock>>
flags   == <<epoch, in_critical>>
locals  == <<seen, orig, res, curr_epoch, idx, retries>>
control == <<pc, caller>>
vars    == <<client, globals, limbo, flags, control, locals>>

Callers == {"loop", "insert", "free", "exit"}

\* update_epoch runs with update_lock held at these points
InUpdate == {"scan", "cmp", "bump", "unlock"}

PCs == {"op", "free", "exit", "exited", "read", "process", "advance",
        "leave", "trylock", "restore", "reread", "ret"} \cup InUpdate

Blocking(t) == caller[t] \in {"insert", "free"}   \* NOT_FUZZY

InLimbo(t) == UNION {limbo_list[t][e] : e \in Epochs}
Retired    == (UNION {InLimbo(t) : t \in Threads})
                \cup ({victim[t] : t \in Threads} \ {NoNode})
Free       == UNION {pool[t] : t \in Threads}

Goto(t, from, to) == pc[t] = from /\ pc' = [pc EXCEPT ![t] = to]

-----------------------------------------------------------------------------
Init ==
    /\ linked \in SUBSET Nodes
    /\ \E owner \in [Nodes -> Threads] :
         pool = [t \in Threads |-> {n \in Nodes \ linked : owner[n] = t}]
    /\ held = [t \in Threads |-> linked]
    /\ victim = [t \in Threads |-> NoNode]
    /\ global_epoch = 1
    /\ update_lock = FALSE
    /\ limbo_list = [t \in Threads |-> [e \in Epochs |-> {}]]
    /\ rcount = [t \in Threads |-> 0]
    /\ epoch = [t \in Threads |-> 0]
    /\ in_critical = [t \in Threads |-> TRUE]
    /\ pc = [t \in Threads |-> "op"]
    /\ caller = [t \in Threads |-> "loop"]
    /\ seen = [t \in Threads |-> 0]
    /\ orig = [t \in Threads |-> TRUE]
    /\ res = [t \in Threads |-> FALSE]
    /\ curr_epoch = [t \in Threads |-> 0]
    /\ idx = [t \in Threads |-> 0]
    /\ retries = [t \in Threads |-> 0]

-----------------------------------------------------------------------------
(* List operations, as reclamation sees them.                              *)

\* harris_insert links a node of the thread's own allocator; every thread in
\* the middle of an operation may reach it.  t's operation ends.
Insert(t, n) ==
    /\ Goto(t, "op", "op")
    /\ n \in pool[t]
    /\ linked' = linked \cup {n}
    /\ pool' = [pool EXCEPT ![t] = @ \ {n}]
    /\ held' = [u \in Threads |->
                  IF u = t THEN linked'
                  ELSE IF pc[u] = "op" THEN held[u] \cup {n} ELSE held[u]]
    /\ UNCHANGED <<victim, globals, limbo, flags, caller, locals>>

\* new_node returns NULL in harris_insert, between list_search and the CAS:
\* left_node and right_node stay in use after quiescent_state(NOT_FUZZY).
InsertFindsNoNode(t) ==
    /\ InsertWhenEmpty
    /\ pool[t] = {}
    /\ Goto(t, "op", "read")
    /\ caller' = [caller EXCEPT ![t] = "insert"]
    /\ UNCHANGED <<client, globals, limbo, flags, locals>>

\* physical_delete_right retires the node only if its CAS removed it.
Removed_Ignored(n) == TRUE
Removed(n) == n \in linked

\* physical_delete_right unlinks a marked node and calls free_node_later.  The
\* node stays in use: list_search goes on with right_node->next.
Unlink(t, n) ==
    /\ Goto(t, "op", "free")
    /\ Removed(n)
    /\ linked' = linked \ {n}
    /\ victim' = [victim EXCEPT ![t] = n]
    /\ UNCHANGED <<pool, held, globals, limbo, flags, caller, locals>>

\* free_node_later with a wrapper: into the limbo list of the thread's epoch.
FreeNodeLater(t) ==
    /\ Goto(t, "free", "op")
    /\ rcount[t] < WrapperCap
    /\ limbo_list' = [limbo_list EXCEPT ![t][epoch[t]] = @ \cup {victim[t]}]
    /\ rcount' = [rcount EXCEPT ![t] = @ + 1]
    /\ victim' = [victim EXCEPT ![t] = NoNode]
    /\ held' = [held EXCEPT ![t] = @ \cup linked]
    /\ UNCHANGED <<linked, pool, globals, flags, caller, locals>>

\* free_node_later without one: quiescent_state(NOT_FUZZY) inside the
\* operation.  A thread's wrappers are the ones in its limbo lists.
FreeFindsNoWrapper(t) ==
    /\ rcount[t] >= WrapperCap
    /\ Goto(t, "free", "read")
    /\ caller' = [caller EXCEPT ![t] = "free"]
    /\ UNCHANGED <<client, globals, limbo, flags, locals>>

\* The test loop calls quiescent_state(FUZZY) between two operations.
Quiesce(t) ==
    /\ Goto(t, "op", "read")
    /\ caller' = [caller EXCEPT ![t] = "loop"]
    /\ held' = [held EXCEPT ![t] = {}]
    /\ UNCHANGED <<linked, pool, victim, globals, limbo, flags, locals>>

-----------------------------------------------------------------------------
(* mr_thread_exit.                                                         *)

ExitFlag_Kept(t) == in_critical[t]
ExitFlag(t) == FALSE

StartExit(t) ==
    /\ MayExit
    /\ Goto(t, "op", "exit")
    /\ in_critical' = [in_critical EXCEPT ![t] = ExitFlag(t)]
    /\ retries' = [retries EXCEPT ![t] = 0]
    /\ held' = [held EXCEPT ![t] = {}]
    /\ UNCHANGED <<linked, pool, victim, globals, limbo, epoch, caller,
                   seen, orig, res, curr_epoch, idx>>

NextRetry_NotCounted(t) == retries[t]
NextRetry(t) == retries[t] + 1

RetryExit(t) ==
    /\ rcount[t] > 0
    /\ retries[t] < MaxExitRetries
    /\ Goto(t, "exit", "read")
    /\ caller' = [caller EXCEPT ![t] = "exit"]
    /\ retries' = [retries EXCEPT ![t] = NextRetry(t)]
    /\ UNCHANGED <<client, globals, limbo, flags,
                   seen, orig, res, curr_epoch, idx>>

FinishExit(t) ==
    /\ rcount[t] = 0 \/ retries[t] >= MaxExitRetries
    /\ Goto(t, "exit", "exited")
    /\ UNCHANGED <<client, globals, limbo, flags, caller, locals>>

-----------------------------------------------------------------------------
(* quiescent_state.                                                        *)

ReadEpoch(t) ==
    /\ Goto(t, "read", IF epoch[t] # global_epoch THEN "process" ELSE "leave")
    /\ seen' = [seen EXCEPT ![t] = global_epoch]
    /\ UNCHANGED <<client, globals, limbo, flags, caller,
                   orig, res, curr_epoch, idx, retries>>

\* The limbo list whose grace period is over: the one of the epoch just seen.
ExpiredEpoch_OfThread(t) == epoch[t]
ExpiredEpoch(t) == seen[t]

\* What is left of rcount after num nodes have been freed.
RcountAfter_Reset(t, num) == 0
RcountAfter(t, num) == rcount[t] - num

\* process_callbacks: the nodes go to the allocator of the thread that frees
\* them.
ProcessCallbacks(t) ==
    LET list == limbo_list[t][ExpiredEpoch(t)] IN
    /\ Goto(t, "process", "advance")
    /\ pool' = [pool EXCEPT ![t] = @ \cup list]
    /\ limbo_list' = [limbo_list EXCEPT ![t][ExpiredEpoch(t)] = {}]
    /\ rcount' = [rcount EXCEPT ![t] = RcountAfter(t, Cardinality(list))]
    /\ UNCHANGED <<linked, held, victim, globals, flags, caller, locals>>

AdvanceEpoch(t) ==
    /\ Goto(t, "advance", "ret")
    /\ epoch' = [epoch EXCEPT ![t] = seen[t]]
    /\ UNCHANGED <<client, globals, limbo, in_critical, caller, locals>>

LeaveCritical(t) ==
    /\ Goto(t, "leave", "trylock")
    /\ orig' = [orig EXCEPT ![t] = in_critical[t]]
    /\ in_critical' = [in_critical EXCEPT ![t] = FALSE]
    /\ UNCHANGED <<client, globals, limbo, epoch, caller,
                   seen, res, curr_epoch, idx, retries>>

\* in_critical := orig; retry when blocking, else return or look again.
RestoreCritical(t) ==
    /\ Goto(t, "restore", IF res[t] THEN "reread"
                          ELSE IF Blocking(t) THEN "read" ELSE "ret")
    /\ in_critical' = [in_critical EXCEPT ![t] = orig[t]]
    /\ UNCHANGED <<client, globals, limbo, epoch, caller, locals>>

RereadEpoch(t) ==
    /\ Goto(t, "reread", IF epoch[t] # global_epoch THEN "process" ELSE "ret")
    /\ seen' = [seen EXCEPT ![t] = global_epoch]
    /\ UNCHANGED <<client, globals, limbo, flags, caller,
                   orig, res, curr_epoch, idx, retries>>

\* Back in the caller: harris_insert asks its allocator again, free_node_later
\* too, mr_thread_exit tests its loop condition, and the test loop goes on
\* with the next operation.
ReturnPC(t) ==
    CASE caller[t] = "loop"   -> "op"
      [] caller[t] = "insert" -> IF pool[t] = {} THEN "read" ELSE "op"
      [] caller[t] = "free"   -> "free"
      [] caller[t] = "exit"   -> "exit"

\* The local variables of the call go out of scope.
Return(t) ==
    /\ Goto(t, "ret", ReturnPC(t))
    /\ held' = [held EXCEPT ![t] = IF ReturnPC(t) = "op" THEN @ \cup linked
                                   ELSE @]
    /\ caller' = [caller EXCEPT ![t] = IF ReturnPC(t) = "read" THEN @
                                       ELSE "loop"]
    /\ seen' = [seen EXCEPT ![t] = 0]
    /\ orig' = [orig EXCEPT ![t] = TRUE]
    /\ res' = [res EXCEPT ![t] = FALSE]
    /\ curr_epoch' = [curr_epoch EXCEPT ![t] = 0]
    /\ idx' = [idx EXCEPT ![t] = 0]
    /\ UNCHANGED <<linked, pool, victim, globals, limbo, flags, retries>>

-----------------------------------------------------------------------------
(* update_epoch.                                                           *)

LockIsFree_Ignored == TRUE
LockIsFree == ~update_lock

TryLock(t) ==
    /\ pc[t] = "trylock"
    /\ \/ /\ ~LockIsFree
          /\ pc' = [pc EXCEPT ![t] = "restore"]
          /\ res' = [res EXCEPT ![t] = FALSE]
          /\ UNCHANGED <<update_lock, curr_epoch, idx>>
       \/ /\ LockIsFree
          /\ update_lock' = TRUE
          /\ pc' = [pc EXCEPT ![t] = "scan"]
          /\ curr_epoch' = [curr_epoch EXCEPT ![t] = global_epoch]
          /\ idx' = [idx EXCEPT ![t] = 0]
          /\ UNCHANGED res
    /\ UNCHANGED <<client, global_epoch, limbo, flags, caller,
                   seen, orig, retries>>

\* The loop goes on with thread idx[t] + 1, or ends.
MoreThreads(i) == i + 1 < N

NextThread(t) ==
    /\ pc' = [pc EXCEPT ![t] = IF MoreThreads(idx[t]) THEN "scan" ELSE "bump"]
    /\ idx' = [idx EXCEPT ![t] = IF MoreThreads(idx[t]) THEN @ + 1 ELSE @]

\* The first read of the condition: qd[i].in_critical (and i itself).
ScanCritical(t) ==
    /\ pc[t] = "scan"
    /\ IF in_critical[idx[t]] /\ idx[t] # t
       THEN pc' = [pc EXCEPT ![t] = "cmp"] /\ idx' = idx
       ELSE NextThread(t)
    /\ UNCHANGED <<client, globals, limbo, flags, caller,
                   seen, orig, res, curr_epoch, retries>>

\* A thread lags behind: the attempt is aborted, and the lock released.
AfterAbort_LockKept == "restore"
AfterAbort == "unlock"

\* The second read: qd[i].epoch.
ScanEpoch(t) ==
    /\ pc[t] = "cmp"
    /\ IF epoch[idx[t]] # curr_epoch[t]
       THEN /\ pc' = [pc EXCEPT ![t] = AfterAbort]
            /\ res' = [res EXCEPT ![t] = FALSE]
            /\ idx' = idx
       ELSE NextThread(t) /\ res' = res
    /\ UNCHANGED <<client, globals, limbo, flags, caller,
                   seen, orig, curr_epoch, retries>>

NextEpoch_NotWrapped(e) == e + 1
NextEpoch(e) == (e + 1) % N_EPOCHS

BumpEpoch(t) ==
    /\ Goto(t, "bump", "unlock")
    /\ global_epoch' = NextEpoch(curr_epoch[t])
    /\ res' = [res EXCEPT ![t] = TRUE]
    /\ UNCHANGED <<client, update_lock, limbo, flags, caller,
                   seen, orig, curr_epoch, idx, retries>>

Unlock(t) ==
    /\ Goto(t, "unlock", "restore")
    /\ update_lock' = FALSE
    /\ UNCHANGED <<client, global_epoch, limbo, flags, caller, locals>>

-----------------------------------------------------------------------------
UpdateEpoch(t) ==
    TryLock(t) \/ ScanCritical(t) \/ ScanEpoch(t) \/ BumpEpoch(t) \/ Unlock(t)

QuiescentState(t) ==
    \/ ReadEpoch(t) \/ ProcessCallbacks(t) \/ AdvanceEpoch(t)
    \/ LeaveCritical(t) \/ UpdateEpoch(t) \/ RestoreCritical(t)
    \/ RereadEpoch(t) \/ Return(t)

FreeStep(t) == FreeNodeLater(t) \/ FreeFindsNoWrapper(t)

ListStep(t) ==
    \/ \E n \in Nodes : Insert(t, n) \/ Unlink(t, n)
    \/ InsertFindsNoNode(t)

ExitStep(t) == RetryExit(t) \/ FinishExit(t)

\* Every thread has left: the program ends.
Terminated ==
    /\ \A t \in Threads : pc[t] = "exited"
    /\ UNCHANGED vars

Next ==
    \/ \E t \in Threads : \/ ListStep(t) \/ FreeStep(t) \/ Quiesce(t)
                          \/ StartExit(t) \/ ExitStep(t) \/ QuiescentState(t)
    \/ Terminated

Spec == Init /\ [][Next]_vars

\* Between in_critical := 0 and in_critical := orig update_epoch does not wait
\* for a thread, whatever its epoch.  A step is timely when the scan does not
\* pass a thread that is still in that window from an earlier epoch and will go
\* on with list operations.  Nothing in the code enforces it.
InWindow(t) ==
    pc[t] \in {"trylock", "scan", "cmp", "bump", "unlock", "restore"} /\ orig[t]

TimelyStep ==
    \A t \in Threads :
       pc[t] = "scan" /\ idx[t] # t /\ InWindow(idx[t])
                      /\ epoch[idx[t]] # curr_epoch[t]
          => pc'[t] = "scan" /\ idx'[t] = idx[t]

TimelySpec == Init /\ [][Next /\ TimelyStep]_vars

\* No thread is starved by the operating system, and the test loop reaches its
\* next quiescent_state after finitely many operations, however many calls of
\* quiescent_state those operations make themselves.
Fairness ==
    \A t \in Threads :
       /\ WF_vars(QuiescentState(t))
       /\ WF_vars(FreeStep(t))
       /\ WF_vars(ExitStep(t))
       /\ SF_vars(Quiesce(t))

FairSpec == Spec /\ Fairness

-----------------------------------------------------------------------------
TypeOK ==
    /\ linked \in SUBSET Nodes
    /\ pool \in [Threads -> SUBSET Nodes]
    /\ held \in [Threads -> SUBSET Nodes]
    /\ victim \in [Threads -> Nodes \cup {NoNode}]
    /\ global_epoch \in Epochs
    /\ update_lock \in BOOLEAN
    /\ limbo_list \in [Threads -> [Epochs -> SUBSET Nodes]]
    /\ rcount \in [Threads -> Nat]
    /\ epoch \in [Threads -> Epochs]
    /\ in_critical \in [Threads -> BOOLEAN]
    /\ pc \in [Threads -> PCs]
    /\ caller \in [Threads -> Callers]
    /\ seen \in [Threads -> Epochs]
    /\ orig \in [Threads -> BOOLEAN]
    /\ res \in [Threads -> BOOLEAN]
    /\ curr_epoch \in [Threads -> Epochs]
    /\ idx \in [Threads -> Threads]
    /\ retries \in [Threads -> 0 .. MaxExitRetries]

-----------------------------------------------------------------------------
(* Properties.                                                             *)

\* A node goes back to an allocator only when no thread can still dereference
\* it: process_callbacks never poisons (key = 600000) a node a search holds.
NoUseAfterFree == \A t \in Threads : held[t] \cap Free = {}

\* Bookkeeping: rcount is the length of the three limbo lists at every step,
\* also between the calls that process_callbacks makes from mr_thread_exit and
\* free_node_later.
RcountIsLimbo ==
    \A t \in Threads :
       rcount[t] = Cardinality(limbo_list[t][0]) + Cardinality(limbo_list[t][1])
                    + Cardinality(limbo_list[t][2])

\* A node is in one place: linked, in one allocator, in one limbo list or in
\* the hands of one free_node_later.  Nothing leaks and nothing is retired or
\* freed twice.
OnePlace ==
    /\ Nodes = linked \cup Free \cup Retired
    /\ \A t \in Threads :
          /\ linked \cap (pool[t] \cup InLimbo(t) \cup {victim[t]}) = {}
          /\ \A e, f \in Epochs :
                e # f => limbo_list[t][e] \cap limbo_list[t][f] = {}
    /\ \A t, u \in Threads :
          /\ pool[t] \cap (InLimbo(u) \cup {victim[u]}) = {}
          /\ victim[t] \notin InLimbo(u)
          /\ t # u => /\ pool[t] \cap pool[u] = {}
                      /\ InLimbo(t) \cap InLimbo(u) = {}
                      /\ victim[t] = victim[u] => victim[t] = NoNode

\* update_lock makes update_epoch's read, scan and write of global_epoch one
\* transaction: one thread at a time is inside, and the epoch it has read is
\* still the global one when it writes the next (the comment on the missing
\* CAS).
UpdateIsExclusive ==
    /\ \A t, u \in Threads :
          pc[t] \in InUpdate /\ pc[u] \in InUpdate => t = u
    /\ \A t \in Threads :
          /\ pc[t] \in InUpdate => update_lock
          /\ pc[t] \in InUpdate \ {"unlock"} => curr_epoch[t] = global_epoch

\* As long as a thread is left, grace periods go on ending.
EpochAdvances ==
    \A e \in Epochs : global_epoch = e ~>
        global_epoch # e \/ \A t \in Threads : pc[t] = "exited"

\* mr_thread_exit ends, whatever the others do.
ExitEnds == \A t \in Threads : pc[t] = "exit" ~> pc[t] = "exited"

\* Once the others have left, a thread that goes on frees all it has retired.
AloneDrains ==
    \A t \in Threads : \A n \in Nodes :
       (n \in InLimbo(t) /\ \A u \in Threads \ {t} : pc[u] = "exited")
          ~> (n \notin InLimbo(t) \/ pc[t] = "exited")

R == INSTANCE Reclamation
        WITH retired <- Retired, free <- Free, refs <- held

RefinesReclamation == R!Spec
===============================================================================
