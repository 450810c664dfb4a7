----------------------------- MODULE Reclamation -----------------------------
(***************************************************************************)
(* What a memory-reclamation scheme promises to a lock-free list, whatever *)
(* the scheme is (mr.h: mr_init_*, free_node_later, mr_thread_exit).       *)
(*                                                                         *)
(* A node is linked in the list, retired (unlinked and handed to           *)
(* free_node_later) or free (back in an allocator).  A thread may pick up  *)
(* a reference only to a node that is linked; it may keep a reference as   *)
(* long as it likes.  The promise is the guard of Free: memory goes back   *)
(* to the allocator only when no thread has a reference to it.             *)
(***************************************************************************)
CONSTANTS
    Threads,    \* the threads that share the list
    Nodes       \* the nodes of allocator 0

VARIABLES
    linked,     \* nodes reachable from the head of the list
    retired,    \* nodes unlinked, not yet given back to the allocator
    free,       \* nodes in an allocator
    refs        \* refs[t]: the nodes thread t may still dereference

vars == <<linked, retired, free, refs>>

Init ==
    /\ linked \in SUBSET Nodes
    /\ free = Nodes \ linked
    /\ retired = {}
    /\ refs \in [Threads -> SUBSET linked]

\* References change on every step: a thread drops some, and picks up nodes
\* that are linked.
RefsStep ==
    /\ refs' \in [Threads -> SUBSET Nodes]
    /\ \A t \in Threads : refs'[t] \subseteq refs[t] \cup linked'

Insert(n) ==
    /\ n \in free
    /\ linked' = linked \cup {n}
    /\ free' = free \ {n}
    /\ retired' = retired
    /\ RefsStep

Retire(n) ==
    /\ n \in linked
    /\ linked' = linked \ {n}
    /\ retired' = retired \cup {n}
    /\ free' = free
    /\ RefsStep

Free(S) ==
    /\ S \subseteq retired
    /\ \A t \in Threads : refs[t] \cap S = {}
    /\ retired' = retired \ S
    /\ free' = free \cup S
    /\ UNCHANGED <<linked, refs>>

Access ==
    /\ RefsStep
    /\ UNCHANGED <<linked, retired, free>>

Next ==
    \/ \E n \in Nodes : Insert(n) \/ Retire(n)
    \/ \E S \in SUBSET Nodes : Free(S)
    \/ Access

Spec == Init /\ [][Next]_vars
===============================================================================
