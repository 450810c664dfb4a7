------------------------------- MODULE Cadence -------------------------------
(***************************************************************************)
(* Hazard pointers without a barrier: src/src/smr_no_membar.c and its      *)
(* optimised variant smr_no_membar_opt.c, driven by the traversal of       *)
(* linkedlist-smr-no-membar-harris_opt, with the sleeper threads of        *)
(* sleeper_threads.c.                                                      *)
(*                                                                         *)
(* A hazard pointer is stored, and the link read again, with nothing in    *)
(* between: the store waits in the processor's store buffer, buf[t].  It   *)
(* leaves the buffer some time, at the latest when the sleeper thread of   *)
(* the core wakes up and the worker is switched out.  A retired node is    *)
(* freed only when it is old: older than any store can wait.               *)
(*                                                                         *)
(* Time is counted in ticks.  Ages stop growing at MaxAge, which is all    *)
(* is_old_enough can tell apart.                                           *)
(***************************************************************************)
EXTENDS Integers, Sequences, FiniteSets

CONSTANTS
    N,              \* sd.nthreads; thread t runs on core t
    K,              \* hazard pointers per thread
    Nodes,          \* the nodes of allocator 0
    NULL,           \* no node, and the tail of the list
    R,              \* rcount, or calls, at which free_node_later scans
    MaxAge,         \* SLEEP_AMOUNT + MARGIN
    MaxSleep,       \* SLEEP_AMOUNT and the most a sleeper oversleeps
    ScanTime,       \* the longest scan
    BufferSize,     \* entries of a store buffer
    Opt,            \* smr_no_membar_opt.c, rather than smr_no_membar.c
    Bloom,          \* IGOR_OPT_LEVEL & 1: a Bloom filter, and no barrier in scan
    PerOp,          \* IGOR_OPT_LEVEL & 2: scan every R calls
    CallsMod,       \* free_calls counts modulo CallsMod
    MaxExitRetries

ASSUME NAssumption == N \in Nat \ {0} /\ K \in Nat \ {0}
ASSUME NodesAssumption == IsFiniteSet(Nodes) /\ NULL \notin Nodes
ASSUME TimesAssumption ==
    /\ MaxAge \in Nat /\ MaxSleep \in Nat /\ ScanTime \in Nat
ASSUME LimitsAssumption ==
    /\ R \in Nat /\ BufferSize \in Nat /\ MaxExitRetries \in Nat
    /\ CallsMod \in Nat \ {0}
ASSUME VariantAssumption ==
    /\ Opt \in BOOLEAN /\ Bloom \in BOOLEAN /\ PerOp \in BOOLEAN
    /\ (Bloom \/ PerOp) => Opt

H == K * N
Threads == 0 .. N - 1
Slots   == 0 .. H - 1

VARIABLES
    \* the client
    linked,     \* nodes inserted and not yet unlinked
    pool,       \* pool[t]: nodes in thread t's own allocator 0
    guarded,    \* guarded[i]: node dereferenced under slot i, or NULL
    victim,     \* victim[t]: argument of t's free_node_later, or NULL
    slot,       \* slot[t]: the slot whose node t is validating
    \* memory and time
    HP,         \* the hazard pointers, as memory has them
    buf,        \* buf[t]: stores of thread t on their way to HP, oldest first
    asleep,     \* asleep[t]: time since the sleeper of core t woke up
    age,        \* age[n]: time since n was given to free_node_later
    \* the scheme
    rlist,      \* rlist[t]: nodes t has retired
    todo,       \* todo[t]: those the running scan has yet to look at
    rcount,
    calls,      \* sd.free_calls
    plist,      \* plist[t]: hazard pointers seen by t's scan
    scanAge,    \* scanAge[t]: time since t's scan began
    idx,        \* scan: i; mr_thread_exit: i
    retries,    \* mr_thread_exit
    \* control
    pc,
    caller      \* who called scan

client  == <<linked, pool, guarded, victim, slot>>
memory  == <<HP, buf>>
time    == <<asleep, age, scanAge>>
retire  == <<rlist, todo, rcount, calls>>
scanner == <<plist, idx, retries>>
control == <<pc, caller>>
vars    == <<client, memory, time, retire, scanner, control>>

Own(t)   == K * t .. K * t + K - 1
Owner(i) == i \div K

Held(t) == {guarded[i] : i \in Own(t)} \ {NULL}
Free    == UNION {pool[t] : t \in Threads}
Retired == (UNION {rlist[t] \cup todo[t] : t \in Threads})
             \cup ({victim[t] : t \in Threads} \ {NULL})
Refs    == [t \in Threads |-> Held(t)]

Callers  == {"free", "insert", "exit"}
Scanning == {"scan", "sweep"}
PCs      == {"op", "check", "free", "clear", "exit", "exited"} \cup Scanning
Stores   == [slot : Slots, node : Nodes \cup {NULL}]

Goto(t, from, to) == pc[t] = from /\ pc' = [pc EXCEPT ![t] = to]

-----------------------------------------------------------------------------
Init ==
    /\ linked \in SUBSET Nodes
    /\ \E owner \in [Nodes -> Threads] :
         pool = [t \in Threads |-> {n \in Nodes \ linked : owner[n] = t}]
    /\ guarded = [i \in Slots |-> NULL]
    /\ victim = [t \in Threads |-> NULL]
    /\ slot = [t \in Threads |-> K * t]
    /\ HP = [i \in Slots |-> NULL]
    /\ buf = [t \in Threads |-> <<>>]
    /\ asleep = [t \in Threads |-> 0]
    /\ age = [n \in Nodes |-> 0]
    /\ rlist = [t \in Threads |-> {}]
    /\ todo = [t \in Threads |-> {}]
    /\ rcount = [t \in Threads |-> 0]
    /\ calls = [t \in Threads |-> 0]
    /\ plist = [t \in Threads |-> {}]
    /\ scanAge = [t \in Threads |-> 0]
    /\ idx = [t \in Threads |-> 0]
    /\ retries = [t \in Threads |-> 0]
    /\ pc = [t \in Threads |-> "op"]
    /\ caller = [t \in Threads |-> "free"]

-----------------------------------------------------------------------------
(* Memory and time.                                                        *)

\* HP[i].p = n: the store enters the buffer.
Store(t, i, n) ==
    /\ Len(buf[t]) < BufferSize
    /\ buf' = [buf EXCEPT ![t] = Append(@, [slot |-> i, node |-> n])]

\* A locked instruction or a fence completes when the buffer is empty.
Fenced(t) == buf[t] = <<>>

\* The oldest store reaches memory.
Drain(t) ==
    /\ buf[t] # <<>>
    /\ HP' = [HP EXCEPT ![Head(buf[t]).slot] = Head(buf[t]).node]
    /\ buf' = [buf EXCEPT ![t] = Tail(@)]
    /\ UNCHANGED <<client, time, retire, scanner, control>>

\* The stores to slot i among the entries of t's buffer.
Pending(t, i) == {e \in DOMAIN buf[t] : buf[t][e].slot = i}

\* What thread t reads from slot i: its own latest store, if still buffered.
Read(t, i) ==
    IF Pending(t, i) = {} THEN HP[i]
    ELSE buf[t][CHOOSE e \in Pending(t, i) : \A f \in Pending(t, i) : f <= e].node

\* The memory once all the stores of t have reached it.
Flushed_Nothing(t) == HP
Flushed(t) == [i \in Slots |-> IF Owner(i) = t THEN Read(t, i) ELSE HP[i]]

\* wakeup() on core t: the worker is switched out, which empties its buffer.
Wakeup(t) ==
    /\ HP' = Flushed(t)
    /\ buf' = [buf EXCEPT ![t] = <<>>]
    /\ asleep' = [asleep EXCEPT ![t] = 0]
    /\ UNCHANGED <<client, age, scanAge, retire, scanner, control>>

\* A tick of the clock.  Nobody oversleeps by more than the margin allows for,
\* and no scan takes longer than ScanTime.
Tick ==
    /\ \A t \in Threads : asleep[t] < MaxSleep
    /\ \A t \in Threads : pc[t] \in Scanning => scanAge[t] < ScanTime
    /\ asleep' = [t \in Threads |-> asleep[t] + 1]
    /\ scanAge' = [t \in Threads |->
                     IF pc[t] \in Scanning THEN scanAge[t] + 1 ELSE scanAge[t]]
    /\ age' = [n \in Nodes |->
                 IF (\E t \in Threads : n \in rlist[t] \cup todo[t])
                      /\ age[n] < MaxAge
                 THEN age[n] + 1 ELSE age[n]]
    /\ UNCHANGED <<client, memory, retire, scanner, control>>

-----------------------------------------------------------------------------
(* Traversal.                                                              *)

\* HP[base + offset].p = right_node.  right_node was read from a link some time
\* ago: it may have been unlinked, retired and even freed since.  What the slot
\* guarded before is given up.
Publish(t, i, n) ==
    /\ i \in Own(t)
    /\ Goto(t, "op", "check")
    /\ Store(t, i, n)
    /\ guarded' = [guarded EXCEPT ![i] = NULL]
    /\ slot' = [slot EXCEPT ![t] = i]
    /\ UNCHANGED <<linked, pool, victim, HP, time, retire, scanner, caller>>

\* right_node != left_node->next: the link leads to the node only if the node is
\* linked.
Validate(t) ==
    /\ Goto(t, "check", "op")
    /\ guarded' = [guarded EXCEPT ![slot[t]] =
                     IF Read(t, slot[t]) \in linked THEN Read(t, slot[t]) ELSE NULL]
    /\ UNCHANGED <<linked, pool, victim, slot, memory, time, retire, scanner, caller>>

\* The operation returns.  Its hazard pointers stay as they are.
Unguard(t) == guarded' = [i \in Slots |-> IF i \in Own(t) THEN NULL ELSE guarded[i]]

EndOperation(t) ==
    /\ pc[t] = "op"
    /\ Held(t) # {}
    /\ Unguard(t)
    /\ UNCHANGED <<linked, pool, victim, slot, memory, time, retire, scanner, control>>

\* harris_insert links a node of the thread's own allocator, by CAS, and returns.
Insert(t, n) ==
    /\ pc[t] = "op" /\ Fenced(t)
    /\ n \in pool[t]
    /\ linked' = linked \cup {n}
    /\ pool' = [pool EXCEPT ![t] = @ \ {n}]
    /\ Unguard(t)
    /\ UNCHANGED <<victim, slot, memory, time, retire, scanner, control>>

\* physical_delete_right: the CAS that unlinks a node the thread has guarded.
Unlink(t, n) ==
    /\ Goto(t, "op", "free") /\ Fenced(t)
    /\ n \in linked /\ n \in Held(t)
    /\ linked' = linked \ {n}
    /\ victim' = [victim EXCEPT ![t] = n]
    /\ UNCHANGED <<pool, guarded, slot, memory, time, retire, scanner, caller>>

-----------------------------------------------------------------------------
(* scan.                                                                   *)

CallScan(t, c) ==
    /\ pc' = [pc EXCEPT ![t] = "scan"]
    /\ caller' = [caller EXCEPT ![t] = c]
    /\ plist' = [plist EXCEPT ![t] = {}]
    /\ scanAge' = [scanAge EXCEPT ![t] = 0]
    /\ idx' = [idx EXCEPT ![t] = 0]

\* smr_no_membar.c sets rcount to zero and counts again what it keeps;
\* smr_no_membar_opt.c counts down what it frees.
StartCount(t) == IF Opt THEN rcount[t] ELSE 0
KeepCount(t) == IF Opt THEN rcount[t] ELSE rcount[t] + 1
FreeCount_Always(t) == rcount[t] - 1
FreeCount(t) == IF Opt THEN rcount[t] - 1 ELSE rcount[t]

\* MEM_BARRIER, which bloom_refresh does without; stage 1 reads one hazard
\* pointer after the other.  With the last one, stage 3 begins.
ReadHazardPointer(t) ==
    /\ pc[t] = "scan"
    /\ Bloom \/ Fenced(t)
    /\ plist' = [plist EXCEPT ![t] = @ \cup ({Read(t, idx[t])} \ {NULL})]
    /\ idx' = [idx EXCEPT ![t] = @ + 1]
    /\ IF idx[t] + 1 < H
       THEN UNCHANGED <<pc, rlist, todo, rcount>>
       ELSE /\ pc' = [pc EXCEPT ![t] = "sweep"]
            /\ todo' = [todo EXCEPT ![t] = rlist[t]]
            /\ rlist' = [rlist EXCEPT ![t] = {}]
            /\ rcount' = [rcount EXCEPT ![t] = StartCount(t)]
    /\ UNCHANGED <<client, memory, time, calls, retries, caller>>

\* is_old_enough, and not among the hazard pointers.
OldEnough_Always(n) == TRUE
OldEnough(n) == age[n] >= MaxAge

Freed(t, n) == OldEnough(n) /\ n \notin plist[t]

\* Stage 3 looks at one node after the other, at its own time.  The two files go
\* through the list in different orders, and the sorted one stops at the first
\* node that is not old.
SweepNode(t, n) ==
    /\ pc[t] = "sweep"
    /\ n \in todo[t]
    /\ todo' = [todo EXCEPT ![t] = @ \ {n}]
    /\ IF Freed(t, n)
       THEN /\ pool' = [pool EXCEPT ![t] = @ \cup {n}]
            /\ age' = [age EXCEPT ![n] = 0]
            /\ rcount' = [rcount EXCEPT ![t] = FreeCount(t)]
            /\ UNCHANGED rlist
       ELSE /\ rlist' = [rlist EXCEPT ![t] = @ \cup {n}]
            /\ rcount' = [rcount EXCEPT ![t] = KeepCount(t)]
            /\ UNCHANGED <<pool, age>>
    /\ UNCHANGED <<linked, guarded, victim, slot, memory, asleep, scanAge, calls,
                   scanner, control>>

AfterScan == [free |-> "op", insert |-> "op", exit |-> "exit"]

EndScan(t) ==
    /\ Goto(t, "sweep", AfterScan[caller[t]])
    /\ todo[t] = {}
    /\ plist' = [plist EXCEPT ![t] = {}]
    /\ scanAge' = [scanAge EXCEPT ![t] = 0]
    /\ idx' = [idx EXCEPT ![t] = 0]
    /\ caller' = [caller EXCEPT ![t] = "free"]
    /\ UNCHANGED <<client, memory, asleep, age, retire, retries>>

-----------------------------------------------------------------------------
(* Retiring.                                                               *)

\* Every R-th call (PerOp), or as soon as the list is R long.
NextCall(t) == IF PerOp THEN (calls[t] + 1) % CallsMod ELSE calls[t]
ScanIsDue(t) == IF PerOp THEN NextCall(t) >= R ELSE rcount[t] + 1 >= R

\* The wrapper is stamped with the time and the node added to the list.
FreeNodeLater(t) ==
    /\ pc[t] = "free"
    /\ rlist' = [rlist EXCEPT ![t] = @ \cup {victim[t]}]
    /\ rcount' = [rcount EXCEPT ![t] = @ + 1]
    /\ victim' = [victim EXCEPT ![t] = NULL]
    /\ IF ScanIsDue(t)
       THEN /\ calls' = [calls EXCEPT ![t] = 0]
            /\ CallScan(t, "free")
       ELSE /\ calls' = [calls EXCEPT ![t] = NextCall(t)]
            /\ pc' = [pc EXCEPT ![t] = "op"]
            /\ UNCHANGED <<caller, plist, scanAge, idx>>
    /\ UNCHANGED <<linked, pool, guarded, slot, memory, asleep, age, todo, retries>>

\* new_node returns NULL in harris_insert: scan() with left_node and right_node
\* still in use.
InsertFindsNoNode(t) ==
    /\ pc[t] = "op"
    /\ pool[t] = {}
    /\ CallScan(t, "insert")
    /\ UNCHANGED <<client, memory, asleep, age, retire, retries>>

-----------------------------------------------------------------------------
(* mr_thread_exit.                                                         *)

StartExit(t) ==
    /\ Goto(t, "op", "clear")
    /\ Unguard(t)
    /\ UNCHANGED <<linked, pool, victim, slot, memory, time, retire, scanner, caller>>

Cleared_Kept(t, i) == Read(t, i)
Cleared(t, i) == NULL

ClearHazardPointer(t) ==
    /\ Goto(t, "clear", IF idx[t] + 1 < K THEN "clear" ELSE "exit")
    /\ Store(t, K * t + idx[t], Cleared(t, K * t + idx[t]))
    /\ idx' = [idx EXCEPT ![t] = IF idx[t] + 1 < K THEN @ + 1 ELSE 0]
    /\ UNCHANGED <<client, HP, time, retire, plist, retries, caller>>

\* smr_no_membar.c gives up after MAX_EXIT_RETRIES scans.
GivesUp(t) == ~Opt /\ retries[t] = MaxExitRetries

ScanAtExit(t) ==
    /\ pc[t] = "exit"
    /\ rcount[t] > 0 /\ ~GivesUp(t)
    /\ CallScan(t, "exit")
    /\ retries' = [retries EXCEPT ![t] = IF Opt THEN @ ELSE @ + 1]
    /\ UNCHANGED <<client, memory, asleep, age, retire>>

FinishExit(t) ==
    /\ Goto(t, "exit", "exited")
    /\ rcount[t] = 0 \/ GivesUp(t)
    /\ UNCHANGED <<client, memory, time, retire, scanner, caller>>

-----------------------------------------------------------------------------
Operate(t) ==
    \/ \E i \in Own(t), n \in Nodes \cup {NULL} : Publish(t, i, n)
    \/ \E n \in Nodes : Insert(t, n) \/ Unlink(t, n)
    \/ EndOperation(t) \/ InsertFindsNoNode(t)

Proceed(t) ==
    \/ Validate(t) \/ FreeNodeLater(t)
    \/ ReadHazardPointer(t) \/ EndScan(t) \/ \E n \in Nodes : SweepNode(t, n)
    \/ ClearHazardPointer(t) \/ ScanAtExit(t) \/ FinishExit(t)

Step(t) == Operate(t) \/ Proceed(t) \/ StartExit(t) \/ Drain(t) \/ Wakeup(t)

Next == Tick \/ \E t \in Threads : Step(t)

Spec == Init /\ [][Next]_vars

-----------------------------------------------------------------------------
TypeOK ==
    /\ linked \in SUBSET Nodes
    /\ pool \in [Threads -> SUBSET Nodes]
    /\ guarded \in [Slots -> Nodes \cup {NULL}]
    /\ victim \in [Threads -> Nodes \cup {NULL}]
    /\ slot \in [Threads -> Slots]
    /\ HP \in [Slots -> Nodes \cup {NULL}]
    /\ buf \in [Threads -> Seq(Stores)]
    /\ asleep \in [Threads -> 0 .. MaxSleep]
    /\ age \in [Nodes -> 0 .. MaxAge]
    /\ rlist \in [Threads -> SUBSET Nodes]
    /\ todo \in [Threads -> SUBSET Nodes]
    /\ rcount \in [Threads -> Nat]
    /\ calls \in [Threads -> 0 .. CallsMod - 1]
    /\ plist \in [Threads -> SUBSET Nodes]
    /\ scanAge \in [Threads -> 0 .. ScanTime]
    /\ idx \in [Threads -> 0 .. H]
    /\ retries \in [Threads -> 0 .. MaxExitRetries]
    /\ pc \in [Threads -> PCs]
    /\ caller \in [Threads -> Callers]

-----------------------------------------------------------------------------
(* Properties.                                                             *)

\* What the age is for: when a retired node is older than the time its reader's
\* core has gone without a switch, the hazard pointer that guards it has reached
\* memory.
OldGuardsAreVisible ==
    \A i \in Slots :
       guarded[i] \in Retired /\ HP[i] # guarded[i]
          => age[guarded[i]] <= asleep[Owner(i)]

\* A guarded node that a scan has missed is too young to be freed, and stays so
\* while the scan goes on.
MissedGuardsAreYoung ==
    \A t \in Threads : \A i \in Slots :
       (/\ pc[t] \in Scanning /\ i < idx[t]
        /\ guarded[i] \in rlist[t] \cup todo[t] /\ guarded[i] \notin plist[t])
       => age[guarded[i]] <= MaxSleep + scanAge[t]

Contract == INSTANCE Reclamation
              WITH retired <- Retired, free <- Free, refs <- Refs

\* What a scan frees no thread refers to ("Touched illegal node in search"), and
\* it is freed once.  It needs MaxSleep + ScanTime < MaxAge: the hazard pointers
\* are read first and the ages afterwards.
RefinesReclamation == Contract!Spec
===============================================================================
