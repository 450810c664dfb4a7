-------------------------------- MODULE ClhLock --------------------------------
(***************************************************************************)
(* The CLH queue lock, src/src/clh.c, as LOCK and UNLOCK of                *)
(* src/include/lock_if.h use it (-DCLH): a thread has one queue node, in   *)
(* clh_local_p, which it lends to the lock while it holds it, and takes    *)
(* its predecessor's in exchange.  So a thread can hold one lock at a time. *)
(***************************************************************************)
EXTENDS Naturals

CONSTANTS
    Threads,
    Locks

Qnodes == Threads \cup Locks    \* the node each of them was created with

VARIABLES
    the_lock,           \* the_lock[l]: the last node in l's queue
    locked,             \* clh_qnode.locked
    my_qnode, my_pred,  \* clh_local_p
    at,                 \* at[t]: the lock t waits for or holds, or None
    pc                  \* "out", "enqueue", "spin" or "in"

vars == <<the_lock, locked, my_qnode, my_pred, at, pc>>

Init ==
    /\ the_lock = [l \in Locks |-> l]
    /\ locked = [q \in Qnodes |-> 0]
    /\ my_qnode = [t \in Threads |-> t]
    /\ my_pred = [t \in Threads |-> t]  \* NULL; not read before it is set
    /\ at \in [Threads -> Locks]
    /\ pc = [t \in Threads |-> "out"]

Goto(t, l) == pc' = [pc EXCEPT ![t] = l]

Wait_Nothing(t) == locked
Wait(t) == [locked EXCEPT ![my_qnode[t]] = 1]

\* clh_acquire: my_qnode->locked = 1.
Prepare(t, l) ==
    /\ pc[t] = "out" /\ Goto(t, "enqueue")
    /\ at' = [at EXCEPT ![t] = l]
    /\ locked' = Wait(t)
    /\ UNCHANGED <<the_lock, my_qnode, my_pred>>

\* SWAP_PTR.
Enqueue(t) ==
    /\ pc[t] = "enqueue" /\ Goto(t, "spin")
    /\ my_pred' = [my_pred EXCEPT ![t] = the_lock[at[t]]]
    /\ the_lock' = [the_lock EXCEPT ![at[t]] = my_qnode[t]]
    /\ UNCHANGED <<locked, my_qnode, at>>

Spin(t) ==
    /\ pc[t] = "spin" /\ locked[my_pred[t]] = 0
    /\ Goto(t, "in")
    /\ UNCHANGED <<the_lock, locked, my_qnode, my_pred, at>>

KeepNode(t) == my_qnode[t]
TakeNode(t) == my_pred[t]

clh_release(t) ==
    /\ pc[t] = "in" /\ Goto(t, "out")
    /\ locked' = [locked EXCEPT ![my_qnode[t]] = 0]
    /\ my_qnode' = [my_qnode EXCEPT ![t] = TakeNode(t)]
    /\ UNCHANGED <<the_lock, my_pred, at>>

Next ==
    \E t \in Threads :
       \/ \E l \in Locks : Prepare(t, l)
       \/ Enqueue(t) \/ Spin(t) \/ clh_release(t)

Spec == Init /\ [][Next]_vars

-----------------------------------------------------------------------------
\* Every queue node has one owner, a thread or the lock whose queue it ends, but
\* for the nodes lent to a queue: a node is not recycled while a successor spins
\* on it.
OneOwner ==
    /\ \A t, u \in Threads : my_qnode[t] = my_qnode[u] => t = u
    /\ \A t, u \in Threads :
          /\ pc[t] \in {"spin", "in"} /\ pc[u] \in {"out", "enqueue"}
          => my_pred[t] # my_qnode[u]

Lock(l) == INSTANCE Mutex
             WITH holders <- {t \in Threads : pc[t] = "in" /\ at[t] = l}

\* Each lock is held by one thread at a time, although the nodes of all locks
\* and threads get mixed.
RefinesMutex ==
    /\ \A l \in Locks : Lock(l)!Init
    /\ [][\A l \in Locks : Lock(l)!NextOrSame]_vars
===============================================================================
