------------------------------ MODULE HelperProofs ------------------------------
(***************************************************************************)
(* That the CLH lock (module ClhLock) and the ticket lock (TicketLock)      *)
(* exclude, and in which order they serve, proved for any threads and, the  *)
(* CLH lock, any locks; and that the allocator (Ssalloc) never hands out an *)
(* object that is in use.                                                  *)
(***************************************************************************)
EXTENDS ClhLock, Integers, Sequences, FiniteSetTheorems, TLAPS

-----------------------------------------------------------------------------
(* Mutual exclusion for any sets of threads and of locks.                  *)

\* The threads in the queue of lock l, and the nodes in it, from the one that its
\* first thread looks at to the one at its end.
Queued(l) == {t \in Threads : at[t] = l /\ pc[t] \in {"spin", "in"}}
Queue(l)  == {the_lock[l]} \cup {my_pred[t] : t \in Queued(l)}

TypeOK ==
    /\ the_lock \in [Locks -> Qnodes]
    /\ locked \in [Qnodes -> {0, 1}]
    /\ my_qnode \in [Threads -> Qnodes]
    /\ my_pred \in [Threads -> Qnodes]
    /\ at \in [Threads -> Locks]
    /\ pc \in [Threads -> {"out", "enqueue", "spin", "in"}]

\* No two threads own the same node, no two locks end in it, and the node of a
\* thread that is in no queue is in none.
NodesApart ==
    /\ \A t, u \in Threads : my_qnode[t] = my_qnode[u] => t = u
    /\ \A k, l \in Locks : the_lock[k] = the_lock[l] => k = l
    /\ \A l \in Locks, t \in Threads :
          pc[t] \in {"out", "enqueue"} => my_qnode[t] \notin Queue(l)

\* No two threads wait on the same node, and none waits on the last one.
PredsApart ==
    \A t \in Threads : pc[t] \in {"spin", "in"} =>
       /\ \A u \in Threads : pc[u] \in {"spin", "in"} /\ my_pred[t] = my_pred[u] => t = u
       /\ \A l \in Locks : my_pred[t] # the_lock[l]

\* A node is locked from the call of LOCK to that of UNLOCK; who is in has seen
\* its predecessor's unlocked.
LockedInQueue ==
    \A t \in Threads :
       /\ pc[t] # "out" => locked[my_qnode[t]] = 1
       /\ pc[t] = "in" => locked[my_pred[t]] = 0

\* All nodes in a queue but the first belong to the threads in it.
OneHead ==
    \A l \in Locks : \E h \in Qnodes : \A q \in Queue(l) \ {h} :
       \E t \in Queued(l) : my_qnode[t] = q

Inv == TypeOK /\ NodesApart /\ PredsApart /\ LockedInQueue /\ OneHead

\* A thread in the queue of l whose predecessor's node is unlocked is the only one
\* of that kind: clh_acquire lets one thread at a time out of its loop.
LEMMA FirstIsUnique ==
    ASSUME Inv, NEW l \in Locks, NEW t \in Queued(l), NEW u \in Queued(l),
           locked[my_pred[t]] = 0, locked[my_pred[u]] = 0
    PROVE  t = u
<1> USE DEF Inv
<1>1. PICK h \in Qnodes : \A q \in Queue(l) \ {h} : \E w \in Queued(l) : my_qnode[w] = q
  BY DEF OneHead
<1>2. \A w \in Queued(l) : w \in Threads /\ pc[w] \in {"spin", "in"} /\ pc[w] # "out"
  BY DEF Queued
<1>3. \A w \in Queued(l) : locked[my_qnode[w]] = 1
  BY <1>2 DEF LockedInQueue
<1>4. my_pred[t] \in Queue(l) /\ my_pred[u] \in Queue(l)
  BY DEF Queue
<1>5. my_pred[t] = h /\ my_pred[u] = h
  BY <1>1, <1>3, <1>4
<1> QED  BY <1>2, <1>5 DEF PredsApart

LEMMA InitInv == ASSUME Init, Threads \cap Locks = {} PROVE Inv
<1> USE DEF Init, Qnodes
<1>1. TypeOK
  BY DEF TypeOK
<1>2. \A l \in Locks : Queued(l) = {} /\ Queue(l) = {l}
  BY DEF Queued, Queue
<1>3. NodesApart
  BY <1>2 DEF NodesApart
<1>4. PredsApart /\ LockedInQueue
  BY DEF PredsApart, LockedInQueue
<1>5. OneHead
  BY <1>2 DEF OneHead
<1> QED  BY <1>1, <1>3, <1>4, <1>5 DEF Inv

LEMMA PrepareInv ==
    ASSUME Inv, NEW t \in Threads, NEW k \in Locks, Prepare(t, k)
    PROVE  Inv'
<1> USE DEF Inv
<1>1. TypeOK'
  BY DEF TypeOK, Prepare, Goto, Wait
<1>2. /\ pc[t] = "out" /\ pc'[t] = "enqueue"
      /\ \A u \in Threads \ {t} : pc'[u] = pc[u] /\ at'[u] = at[u]
  BY DEF TypeOK, Prepare, Goto
<1>3. /\ locked'[my_qnode[t]] = 1
      /\ \A q \in Qnodes \ {my_qnode[t]} : locked'[q] = locked[q]
  BY DEF TypeOK, Prepare, Wait
<1>4. UNCHANGED <<the_lock, my_qnode, my_pred>>
  BY DEF Prepare
<1>5. \A l \in Locks : Queued(l)' = Queued(l)
  BY <1>2 DEF Queued
<1>6. \A l \in Locks : Queue(l)' = Queue(l)
  BY <1>4, <1>5 DEF Queue
<1>7. NodesApart'
  BY <1>2, <1>4, <1>6 DEF NodesApart
<1>8. PredsApart'
  BY <1>2, <1>4 DEF PredsApart
<1>9. \A u \in Threads : pc[u] \in {"spin", "in"} => my_pred[u] # my_qnode[t]
  BY <1>2 DEF NodesApart, Queue, Queued, TypeOK
<1>10. LockedInQueue'
  BY <1>2, <1>3, <1>4, <1>9 DEF LockedInQueue, NodesApart, TypeOK
<1>11. OneHead'
  BY <1>4, <1>5, <1>6 DEF OneHead
<1> QED  BY <1>1, <1>7, <1>8, <1>10, <1>11

LEMMA EnqueueInv ==
    ASSUME Inv, NEW t \in Threads, Enqueue(t)
    PROVE  Inv'
<1> USE DEF Inv
<1> PICK k \in Locks : k = at[t]
  BY DEF TypeOK
<1> DEFINE p == the_lock[k]  q == my_qnode[t]
<1>1. k \in Locks /\ p \in Qnodes /\ q \in Qnodes
  BY DEF TypeOK
<1>2. /\ pc[t] = "enqueue" /\ pc'[t] = "spin"
      /\ \A u \in Threads \ {t} : pc'[u] = pc[u]
  BY DEF TypeOK, Enqueue, Goto
<1>3. /\ my_pred'[t] = p
      /\ \A u \in Threads \ {t} : my_pred'[u] = my_pred[u]
  BY DEF TypeOK, Enqueue
<1>4. /\ the_lock'[k] = q
      /\ \A l \in Locks \ {k} : the_lock'[l] = the_lock[l]
  BY <1>1 DEF TypeOK, Enqueue
<1>5. UNCHANGED <<locked, my_qnode, at>>
  BY DEF Enqueue
<1>6. TypeOK'
  BY DEF TypeOK, Enqueue, Goto
<1>7. /\ Queued(k)' = Queued(k) \cup {t}
      /\ \A l \in Locks \ {k} : Queued(l)' = Queued(l)
      /\ \A l \in Locks : t \notin Queued(l)
  BY <1>1, <1>2, <1>5 DEF Queued
<1>8. /\ Queue(k)' = Queue(k) \cup {q}
      /\ \A l \in Locks \ {k} : Queue(l)' = Queue(l)
  <2>1. \A l \in Locks : \A u \in Queued(l) : u \in Threads \ {t}
    BY <1>7 DEF Queued
  <2>2. Queue(k)' = Queue(k) \cup {q}
    BY <1>1, <1>3, <1>4, <1>7, <2>1 DEF Queue
  <2>3. \A l \in Locks \ {k} : Queue(l)' = Queue(l)
    BY <1>1, <1>3, <1>4, <1>7, <2>1 DEF Queue
  <2> QED  BY <2>2, <2>3
<1>9. \A l \in Locks : q \notin Queue(l) /\ the_lock[l] \in Queue(l) /\ q # the_lock[l]
  BY <1>2 DEF NodesApart, Queue
<1>10. \A u \in Threads : pc[u] \in {"spin", "in"} =>
         /\ my_pred[u] # q /\ my_pred[u] # p
  <2>1. \A u \in Threads : pc[u] \in {"spin", "in"} => my_pred[u] \in Queue(at[u])
    BY DEF Queue, Queued
  <2>2. \A u \in Threads : at[u] \in Locks
    BY DEF TypeOK
  <2> QED  BY <1>1, <1>9, <2>1, <2>2 DEF PredsApart
<1>11. NodesApart'
  <2>1. \A u \in Threads \ {t} : my_qnode[u] # q
    BY DEF NodesApart
  <2>2. \A l, m \in Locks : the_lock'[l] = the_lock'[m] => l = m
    BY <1>1, <1>4, <1>9 DEF NodesApart
  <2>3. \A l \in Locks, u \in Threads :
           pc'[u] \in {"out", "enqueue"} => my_qnode[u] \notin Queue(l)'
    BY <1>1, <1>2, <1>8, <2>1 DEF NodesApart
  <2> QED  BY <1>5, <2>2, <2>3 DEF NodesApart
<1>12. PredsApart'
  <2> SUFFICES ASSUME NEW u \in Threads, pc'[u] \in {"spin", "in"}
               PROVE  /\ \A v \in Threads : pc'[v] \in {"spin", "in"}
                           /\ my_pred'[u] = my_pred'[v] => u = v
                      /\ \A l \in Locks : my_pred'[u] # the_lock'[l]
    BY DEF PredsApart
  <2>1. CASE u = t
    <3>1. \A l \in Locks : p # the_lock'[l]
      BY <1>1, <1>4, <1>9 DEF NodesApart
    <3> QED  BY <1>2, <1>3, <1>10, <2>1, <3>1
  <2>2. CASE u # t
    <3>1. pc[u] \in {"spin", "in"} /\ my_pred'[u] = my_pred[u]
      BY <1>2, <1>3, <2>2
    <3>2. \A l \in Locks : my_pred[u] # the_lock'[l]
      BY <1>1, <1>4, <1>10, <3>1 DEF PredsApart
    <3> QED  BY <1>2, <1>3, <1>10, <3>1, <3>2 DEF PredsApart
  <2> QED  BY <2>1, <2>2
<1>13. LockedInQueue'
  BY <1>2, <1>3, <1>5 DEF LockedInQueue
<1>14. OneHead'
  <2> SUFFICES ASSUME NEW l \in Locks
               PROVE  \E h \in Qnodes : \A r \in Queue(l)' \ {h} :
                        \E u \in Queued(l)' : my_qnode'[u] = r
    BY DEF OneHead
  <2>1. PICK h \in Qnodes : \A r \in Queue(l) \ {h} : \E u \in Queued(l) : my_qnode[u] = r
    BY DEF OneHead
  <2> WITNESS h \in Qnodes
  <2> QED  BY <1>1, <1>5, <1>7, <1>8, <2>1
<1> QED  BY <1>6, <1>11, <1>12, <1>13, <1>14

LEMMA SpinInv ==
    ASSUME Inv, NEW t \in Threads, Spin(t)
    PROVE  Inv'
<1> USE DEF Inv
<1>1. TypeOK'
  BY DEF TypeOK, Spin, Goto
<1>2. /\ pc[t] = "spin" /\ pc'[t] = "in" /\ locked[my_pred[t]] = 0
      /\ \A u \in Threads \ {t} : pc'[u] = pc[u]
      /\ UNCHANGED <<the_lock, locked, my_qnode, my_pred, at>>
  BY DEF TypeOK, Spin, Goto
<1>3. \A u \in Threads : pc'[u] \in {"spin", "in"} <=> pc[u] \in {"spin", "in"}
  BY <1>2
<1>4. \A l \in Locks : Queued(l)' = Queued(l)
  BY <1>2, <1>3 DEF Queued
<1>5. \A l \in Locks : Queue(l)' = Queue(l)
  BY <1>2, <1>4 DEF Queue
<1>6. NodesApart' /\ PredsApart'
  BY <1>2, <1>3, <1>5 DEF NodesApart, PredsApart
<1>7. LockedInQueue'
  BY <1>2 DEF LockedInQueue
<1>8. OneHead'
  BY <1>2, <1>4, <1>5 DEF OneHead
<1> QED  BY <1>1, <1>6, <1>7, <1>8

\* clh_release passes the lock on to the thread behind, and the predecessor's node,
\* which was the first of the queue, to the thread that leaves.
LEMMA ReleaseInv ==
    ASSUME Inv, NEW t \in Threads, clh_release(t)
    PROVE  Inv'
<1> USE DEF Inv
<1> PICK k \in Locks : k = at[t]
  BY DEF TypeOK
<1> DEFINE p == my_pred[t]  q == my_qnode[t]
<1>1. k \in Locks /\ p \in Qnodes /\ q \in Qnodes
  BY DEF TypeOK
<1>2. /\ pc[t] = "in" /\ pc'[t] = "out"
      /\ \A u \in Threads \ {t} : pc'[u] = pc[u]
  BY DEF TypeOK, clh_release, Goto
<1>3. /\ locked'[q] = 0
      /\ \A r \in Qnodes \ {q} : locked'[r] = locked[r]
  BY <1>1 DEF TypeOK, clh_release
<1>4. /\ my_qnode'[t] = p
      /\ \A u \in Threads \ {t} : my_qnode'[u] = my_qnode[u]
  BY DEF TypeOK, clh_release, TakeNode
<1>5. UNCHANGED <<the_lock, my_pred, at>>
  BY DEF clh_release
<1>6. TypeOK'
  BY DEF TypeOK, clh_release, TakeNode, Goto
<1>7. /\ Queued(k)' = Queued(k) \ {t} /\ t \in Queued(k)
      /\ \A l \in Locks \ {k} : Queued(l)' = Queued(l)
  BY <1>1, <1>2, <1>5 DEF Queued
<1>8. locked[p] = 0
  BY <1>2 DEF LockedInQueue
<1>9. \A u \in Threads : pc[u] \in {"spin", "in"} /\ u # t => my_pred[u] # p
  BY <1>2 DEF PredsApart
<1>10. \A l \in Locks : the_lock[l] # p
  BY <1>2 DEF PredsApart
<1>11. Queue(k)' = Queue(k) \ {p}
  <2>1. \A u \in Queued(k) : u # t => my_pred[u] # p
    BY <1>9 DEF Queued
  <2> QED  BY <1>1, <1>5, <1>7, <1>10, <2>1 DEF Queue
<1>12. \A l \in Locks \ {k} : Queue(l)' = Queue(l) /\ p \notin Queue(l)
  <2>1. \A l \in Locks \ {k} : \A u \in Queued(l) : my_pred[u] # p
    BY <1>9 DEF Queued
  <2> QED  BY <1>5, <1>7, <1>10, <2>1 DEF Queue
<1>13. \A u \in Threads \ {t} : my_qnode[u] # p
  <2> SUFFICES ASSUME NEW u \in Threads \ {t} PROVE my_qnode[u] # p
    OBVIOUS
  <2>1. p \in Queue(k)
    BY <1>7 DEF Queue
  <2>2. CASE pc[u] \in {"out", "enqueue"}
    BY <1>1, <2>1, <2>2 DEF NodesApart
  <2>3. CASE pc[u] \in {"spin", "in"}
    BY <1>8, <2>3 DEF LockedInQueue
  <2> QED  BY <2>2, <2>3 DEF TypeOK
<1>14. NodesApart'
  <2>1. \A u, v \in Threads : my_qnode'[u] = my_qnode'[v] => u = v
    BY <1>4, <1>13 DEF NodesApart
  <2>2. \A l \in Locks : p \notin Queue(l)'
    BY <1>11, <1>12
  <2>3. \A l \in Locks : Queue(l)' \subseteq Queue(l)
    BY <1>11, <1>12
  <2>4. \A l \in Locks, u \in Threads :
           pc'[u] \in {"out", "enqueue"} => my_qnode'[u] \notin Queue(l)'
    BY <1>2, <1>4, <2>2, <2>3 DEF NodesApart
  <2> QED  BY <1>5, <2>1, <2>4 DEF NodesApart
<1>15. PredsApart'
  BY <1>2, <1>5 DEF PredsApart
<1>16. LockedInQueue'
  <2>1. \A u \in Threads \ {t} : my_qnode'[u] = my_qnode[u] /\ my_qnode[u] # q
    BY <1>4 DEF NodesApart
  <2>2. \A u \in Threads \ {t} : pc'[u] # "out" => locked'[my_qnode'[u]] = 1
    BY <1>2, <1>3, <2>1 DEF LockedInQueue, TypeOK
  <2>3. \A u \in Threads \ {t} : pc'[u] = "in" => locked'[my_pred[u]] = 0
    BY <1>2, <1>3 DEF LockedInQueue, TypeOK
  <2> QED  BY <1>2, <1>5, <2>2, <2>3 DEF LockedInQueue
<1>17. OneHead'
  <2> SUFFICES ASSUME NEW l \in Locks
               PROVE  \E h \in Qnodes : \A r \in Queue(l)' \ {h} :
                        \E u \in Queued(l)' : my_qnode'[u] = r
    BY DEF OneHead
  <2>1. PICK h \in Qnodes : \A r \in Queue(l) \ {h} : \E u \in Queued(l) : my_qnode[u] = r
    BY DEF OneHead
  <2>2. \A u \in Queued(l) : u \in Threads /\ pc[u] # "out"
    BY DEF Queued
  <2>3. CASE l = k
    <3>1. p = h
      <4>1. p \in Queue(k)
        BY <1>7 DEF Queue
      <4>2. \A u \in Queued(l) : my_qnode[u] # p
        BY <1>8, <2>2 DEF LockedInQueue
      <4> QED  BY <2>1, <2>3, <4>1, <4>2
    <3>2. \A r \in Queue(k)' \ {q} : \E u \in Queued(k)' : my_qnode'[u] = r
      <4> SUFFICES ASSUME NEW r \in Queue(k)' \ {q}
                   PROVE  \E u \in Queued(k)' : my_qnode'[u] = r
        OBVIOUS
      <4>1. PICK u \in Queued(k) : my_qnode[u] = r
        BY <1>11, <2>1, <2>3, <3>1
      <4>2. u # t /\ u \in Queued(k)' /\ my_qnode'[u] = r
        BY <1>4, <1>7, <2>2, <2>3, <4>1
      <4> QED  BY <4>2
    <3> QED  BY <1>1, <2>3, <3>2
  <2>4. CASE l # k
    <3>1. \A u \in Queued(l) : my_qnode'[u] = my_qnode[u]
      BY <1>4, <2>4 DEF Queued
    <3> QED  BY <1>7, <1>12, <2>1, <2>4, <3>1
  <2> QED  BY <2>3, <2>4
<1> QED  BY <1>6, <1>14, <1>15, <1>16, <1>17

LEMMA NextInv == ASSUME Inv, [Next]_vars PROVE Inv'
<1>1. CASE Next
  BY <1>1, PrepareInv, EnqueueInv, SpinInv, ReleaseInv DEF Next
<1>2. CASE UNCHANGED vars
  BY <1>2 DEF vars, Inv, TypeOK, NodesApart, PredsApart, LockedInQueue, OneHead,
              Queue, Queued
<1> QED  BY <1>1, <1>2

\* For any sets of threads and of locks, the queue nodes keep one owner each,
\* though clh_release hands them from thread to thread and from lock to lock.
THEOREM NodesHaveOneOwner == ASSUME Threads \cap Locks = {} PROVE Spec => []OneOwner
<1>1. Inv => OneOwner
  <2> SUFFICES ASSUME Inv, NEW t \in Threads, NEW u \in Threads,
                      pc[t] \in {"spin", "in"}, pc[u] \in {"out", "enqueue"}
               PROVE  my_pred[t] # my_qnode[u]
    BY DEF OneOwner, Inv, NodesApart
  <2>1. at[t] \in Locks /\ my_pred[t] \in Queue(at[t])
    BY DEF Inv, TypeOK, Queue, Queued
  <2> QED  BY <2>1 DEF Inv, NodesApart
<1> QED  BY <1>1, InitInv, NextInv, PTL DEF Spec

\* For any sets of threads and of locks, no thread gets past the loop of
\* clh_acquire while another is between LOCK and UNLOCK of the same lock.
THEOREM ClhExcludes == ASSUME Threads \cap Locks = {} PROVE Spec => RefinesMutex
<1>1. ASSUME Init PROVE \A l \in Locks : Lock(l)!Init
  BY <1>1 DEF Init, Lock!Init
<1>2. ASSUME Inv, [Next]_vars, NEW l \in Locks PROVE Lock(l)!NextOrSame
  <2> DEFINE holders == {u \in Threads : pc[u] = "in" /\ at[u] = l}
  <2>1. ASSUME NEW t \in Threads, NEW k \in Locks, Prepare(t, k) PROVE holders' = holders
    BY <1>2, <2>1 DEF Inv, TypeOK, Prepare, Goto
  <2>2. ASSUME NEW t \in Threads, Enqueue(t) PROVE holders' = holders
    BY <1>2, <2>2 DEF Inv, TypeOK, Enqueue, Goto
  <2>3. ASSUME NEW t \in Threads, Spin(t), at[t] = l
        PROVE  holders = {} /\ holders' = {t}
    <3>1. t \in Queued(l) /\ locked[my_pred[t]] = 0 /\ pc[t] = "spin"
      BY <2>3 DEF Spin, Queued
    <3>2. \A u \in holders : u \in Queued(l) /\ locked[my_pred[u]] = 0
      BY <1>2 DEF Queued, Inv, LockedInQueue
    <3>3. \A u \in holders : u = t
      BY <1>2, <3>1, <3>2, FirstIsUnique
    <3>4. holders = {}
      BY <3>1, <3>3
    <3>5. holders' = holders \cup {t}
      BY <1>2, <2>3 DEF Inv, TypeOK, Spin, Goto
    <3> QED  BY <3>4, <3>5
  <2>4. ASSUME NEW t \in Threads, Spin(t), at[t] # l PROVE holders' = holders
    BY <1>2, <2>4 DEF Inv, TypeOK, Spin, Goto
  <2>5. ASSUME NEW t \in Threads, clh_release(t), at[t] = l
        PROVE  holders = {t} /\ holders' = {}
    <3>1. t \in Queued(l) /\ t \in holders
      BY <2>5 DEF clh_release, Queued
    <3>2. \A u \in holders : u \in Queued(l) /\ locked[my_pred[u]] = 0
      BY <1>2 DEF Queued, Inv, LockedInQueue
    <3>3. holders = {t}
      BY <1>2, <3>1, <3>2, FirstIsUnique
    <3>4. holders' = holders \ {t}
      BY <1>2, <2>5 DEF Inv, TypeOK, clh_release, Goto
    <3> QED  BY <3>3, <3>4
  <2>6. ASSUME NEW t \in Threads, clh_release(t), at[t] # l PROVE holders' = holders
    BY <1>2, <2>6 DEF Inv, TypeOK, clh_release, Goto
  <2>7. CASE UNCHANGED vars
    BY <2>7 DEF vars, Lock!NextOrSame
  <2>8. CASE Next
    BY <2>1, <2>2, <2>3, <2>4, <2>5, <2>6, <2>8
       DEF Next, Lock!NextOrSame, Lock!Next, Lock!Acquire, Lock!Release
  <2> QED  BY <1>2, <2>7, <2>8
<1>3. ASSUME Inv, [Next]_vars PROVE [\A l \in Locks : Lock(l)!NextOrSame]_vars
  BY <1>2, <1>3
<1> QED  BY <1>1, <1>3, InitInv, NextInv, PTL DEF Spec, RefinesMutex

-----------------------------------------------------------------------------
(* The ticket lock, among the same threads; place is its pc.               *)

CONSTANT Mod

VARIABLES ticket, curr, place, mine, line

Ticket == INSTANCE TicketLock WITH pc <- place

(* Mutual exclusion for any threads, as long as there are no more of them  *)
(* than tickets.                                                           *)

EnoughTickets ==
    IsFiniteSet(Threads) /\ Mod \in Nat \ {0} /\ Cardinality(Threads) <= Mod

Tickets == 0 .. Mod - 1

\* The ticket n turns after c.
After(c, n) == IF c + n < Mod THEN c + n ELSE c + n - Mod

TicketTypeOK ==
    /\ ticket \in Tickets /\ curr \in Tickets
    /\ place \in [Threads -> {"out", "wait", "try", "in"}]
    /\ mine \in [Threads -> Tickets]
    /\ line \in Seq(Threads)

\* The line is of the threads that wait or are in, each once, and only its head can
\* be in.
LineOfThreads ==
    /\ \A i, j \in 1 .. Len(line) : line[i] = line[j] => i = j
    /\ \A t \in Threads :
          place[t] \in {"wait", "in"} <=> \E i \in 1 .. Len(line) : line[i] = t
    /\ \A i \in 2 .. Len(line) : place[line[i]] = "wait"

\* Its tickets follow each other from curr to ticket.
LineOfTickets ==
    /\ \A i \in 1 .. Len(line) : mine[line[i]] = After(curr, i - 1)
    /\ ticket = After(curr, Len(line))
    /\ Len(line) <= Mod

TicketInv == TicketTypeOK /\ LineOfThreads /\ LineOfTickets

\* A line without repetitions is no longer than there are tickets.
LEMMA LineIsShort ==
    ASSUME EnoughTickets, NEW s \in Seq(Threads),
           \A i, j \in 1 .. Len(s) : s[i] = s[j] => i = j
    PROVE  Len(s) <= Mod
<1>1. Len(s) \in Nat /\ s \in [1 .. Len(s) -> Threads]
  OBVIOUS
<1>2. s \in Injection(1 .. Len(s), Threads)
  BY <1>1 DEF Injection, IsInjective
<1>3. Cardinality(1 .. Len(s)) <= Cardinality(Threads)
  BY <1>2, FS_Injection DEF EnoughTickets
<1>4. Cardinality(1 .. Len(s)) = Len(s)
  BY <1>1, FS_Interval
<1>5. Cardinality(Threads) \in Nat
  BY FS_CardinalityType DEF EnoughTickets
<1> QED  BY <1>1, <1>3, <1>4, <1>5 DEF EnoughTickets

\* The 32-bit increment of either counter, and how it moves After along.
LEMMA IncIsNext ==
    ASSUME EnoughTickets, NEW c \in Tickets
    PROVE  /\ Ticket!Inc(c) \in Tickets
           /\ Ticket!Inc(c) = IF c + 1 = Mod THEN 0 ELSE c + 1
<1> USE DEF EnoughTickets, Tickets
<1>1. CASE c + 1 = Mod
  <2>1. Mod % Mod = 0
    OBVIOUS
  <2> QED  BY <1>1, <2>1 DEF Ticket!Inc
<1>2. CASE c + 1 < Mod
  <2>1. (c + 1) % Mod = c + 1
    BY <1>2
  <2> QED  BY <1>2, <2>1 DEF Ticket!Inc
<1> QED  BY <1>1, <1>2

LEMMA AfterInc ==
    ASSUME EnoughTickets, NEW c \in Tickets, NEW n \in 0 .. Mod - 1
    PROVE  /\ After(c, n) \in Tickets
           /\ Ticket!Inc(After(c, n)) = After(c, n + 1)
           /\ After(Ticket!Inc(c), n) = After(c, n + 1)
           /\ After(c, n) = c => n = 0
<1>1. After(c, n) \in Tickets
  BY DEF EnoughTickets, Tickets, After
<1>2. /\ Ticket!Inc(After(c, n)) = IF After(c, n) + 1 = Mod THEN 0 ELSE After(c, n) + 1
      /\ Ticket!Inc(c) = IF c + 1 = Mod THEN 0 ELSE c + 1
  BY <1>1, IncIsNext
<1> QED  BY <1>1, <1>2 DEF EnoughTickets, Tickets, After

LEMMA TicketInitInv == ASSUME EnoughTickets, Ticket!Init PROVE TicketInv
BY DEF EnoughTickets, Ticket!Init, TicketInv, TicketTypeOK, LineOfThreads, LineOfTickets, After, Tickets

\* Who takes the ticket of the counter goes to the end of the line; both calls that
\* do so leave pc as it should be at the head.
LEMMA JoinInv ==
    ASSUME EnoughTickets, TicketInv, NEW t \in Threads, place[t] \in {"out", "try"},
           ticket' = Ticket!Inc(ticket), line' = Append(line, t), UNCHANGED curr,
           NEW l \in {"wait", "in"}, Ticket!Goto(t, l), l = "in" => line = <<>>,
           mine' \in [Threads -> Tickets], mine'[t] = ticket,
           \A u \in Threads \ {t} : mine'[u] = mine[u]
    PROVE  TicketInv'
<1> USE DEF TicketInv
<1>1. /\ Len(line) \in Nat /\ Len(line') = Len(line) + 1 /\ line' \in Seq(Threads)
      /\ \A i \in 1 .. Len(line) : line'[i] = line[i] /\ line[i] \in Threads
      /\ line'[Len(line) + 1] = t
  BY DEF TicketTypeOK
<1>2. /\ place'[t] = l
      /\ \A u \in Threads \ {t} : place'[u] = place[u]
      /\ place' \in [Threads -> {"out", "wait", "try", "in"}]
  BY DEF TicketTypeOK, Ticket!Goto
<1>3. \A i \in 1 .. Len(line) : line[i] # t
  BY DEF LineOfThreads
<1>4. TicketTypeOK'
  BY <1>1, <1>2, IncIsNext DEF TicketTypeOK
<1>5. LineOfThreads'
  <2>1. \A i, j \in 1 .. Len(line') : line'[i] = line'[j] => i = j
    BY <1>1, <1>3 DEF LineOfThreads
  <2>2. \A u \in Threads :
           place'[u] \in {"wait", "in"} <=> \E i \in 1 .. Len(line') : line'[i] = u
    <3> SUFFICES ASSUME NEW u \in Threads
                 PROVE  place'[u] \in {"wait", "in"}
                          <=> \E i \in 1 .. Len(line') : line'[i] = u
      OBVIOUS
    <3>1. CASE u = t
      <4>1. Len(line) + 1 \in 1 .. Len(line')
        BY <1>1
      <4> QED  BY <1>1, <1>2, <3>1, <4>1
    <3>2. CASE u # t
      <4>1. (\E i \in 1 .. Len(line') : line'[i] = u)
              <=> \E i \in 1 .. Len(line) : line[i] = u
        BY <1>1, <3>2
      <4> QED  BY <1>2, <3>2, <4>1 DEF LineOfThreads
    <3> QED  BY <3>1, <3>2
  <2>3. \A i \in 2 .. Len(line') : place'[line'[i]] = "wait"
    <3>1. \A i \in 2 .. Len(line) : place'[line'[i]] = "wait"
      BY <1>1, <1>2, <1>3 DEF LineOfThreads
    <3>2. Len(line) > 0 => place'[line'[Len(line) + 1]] = "wait"
      BY <1>1, <1>2
    <3> QED  BY <1>1, <3>1, <3>2
  <2> QED  BY <2>1, <2>2, <2>3 DEF LineOfThreads
<1>6. Len(line') <= Mod
  BY <1>1, <1>5, LineIsShort DEF LineOfThreads
<1>7. LineOfTickets'
  <2>1. Len(line) \in 0 .. Mod - 1 /\ curr \in Tickets
    BY <1>1, <1>6 DEF TicketTypeOK, EnoughTickets
  <2>2. ticket' = After(curr, Len(line'))
    BY <1>1, <2>1, AfterInc DEF LineOfTickets
  <2>3. \A i \in 1 .. Len(line) : mine'[line'[i]] = After(curr, i - 1)
    BY <1>1, <1>3 DEF LineOfTickets
  <2>4. mine'[line'[Len(line) + 1]] = After(curr, Len(line) + 1 - 1)
    BY <1>1 DEF LineOfTickets
  <2>5. \A i \in 1 .. Len(line') : mine'[line'[i]] = After(curr, i - 1)
    BY <1>1, <2>3, <2>4
  <2> QED  BY <1>6, <2>2, <2>5 DEF LineOfTickets
<1> QED  BY <1>4, <1>5, <1>7

\* ticket_trylock's compare-and-swap succeeds only when nobody is in line: the two
\* counters are then equal, and the line is too short to have gone round.
LEMMA SwapFindsNobody ==
    ASSUME EnoughTickets, TicketInv, NEW t \in Threads, place[t] = "try", ticket = curr
    PROVE  line = <<>>
<1> USE DEF TicketInv
<1> DEFINE s == Append(line, t)
<1>1. /\ Len(line) \in Nat /\ Len(s) = Len(line) + 1 /\ s \in Seq(Threads)
      /\ \A i \in 1 .. Len(line) : s[i] = line[i]
      /\ s[Len(line) + 1] = t
  BY DEF TicketTypeOK
<1>2. \A i \in 1 .. Len(line) : line[i] # t
  BY DEF LineOfThreads
<1>3. \A i, j \in 1 .. Len(s) : s[i] = s[j] => i = j
  BY <1>1, <1>2 DEF LineOfThreads
<1> HIDE DEF s
<1>4. Len(s) <= Mod
  BY <1>1, <1>3, LineIsShort
<1>5. Len(line) \in 0 .. Mod - 1
  BY <1>1, <1>4 DEF EnoughTickets
<1>6. curr \in Tickets /\ After(curr, Len(line)) = curr
  BY DEF TicketTypeOK, LineOfTickets
<1>7. Len(line) = 0
  BY <1>5, <1>6, AfterInc
<1> QED  BY <1>7 DEF TicketTypeOK

\* A thread that is in is the head of the line.
LEMMA HeadIsIn ==
    ASSUME TicketInv, NEW t \in Threads, place[t] = "in"
    PROVE  Len(line) >= 1 /\ line[1] = t
<1>1. PICK i \in 1 .. Len(line) : line[i] = t
  BY DEF TicketInv, LineOfThreads
<1>2. i \notin 2 .. Len(line)
  BY <1>1 DEF TicketInv, LineOfThreads
<1>3. Len(line) \in Nat
  BY DEF TicketInv, TicketTypeOK
<1> QED  BY <1>1, <1>2, <1>3

\* A thread whose turn it is waits at the head of the line.
LEMMA TurnIsOfHead ==
    ASSUME EnoughTickets, TicketInv, NEW t \in Threads, place[t] = "wait", curr = mine[t]
    PROVE  Len(line) >= 1 /\ line[1] = t
<1> USE DEF TicketInv
<1>1. PICK i \in 1 .. Len(line) : line[i] = t
  BY DEF LineOfThreads
<1>2. Len(line) \in Nat /\ Len(line) <= Mod /\ i \in Nat /\ i - 1 \in 0 .. Mod - 1
  BY DEF TicketTypeOK, LineOfTickets, EnoughTickets
<1>3. After(curr, i - 1) = curr
  BY <1>1 DEF LineOfTickets
<1>4. i = 1
  BY <1>2, <1>3, AfterInc DEF TicketTypeOK
<1> QED  BY <1>1, <1>2, <1>4

LEMMA TurnInv ==
    ASSUME EnoughTickets, TicketInv, NEW t \in Threads, Ticket!Turn(t)
    PROVE  TicketInv'
<1> USE DEF TicketInv
<1>1. /\ place[t] = "wait" /\ place'[t] = "in" /\ UNCHANGED <<ticket, curr, mine, line>>
      /\ \A u \in Threads \ {t} : place'[u] = place[u]
      /\ place' \in [Threads -> {"out", "wait", "try", "in"}]
  BY DEF Ticket!Turn, Ticket!Goto, TicketTypeOK
<1>2. Len(line) >= 1 /\ line[1] = t
  BY TurnIsOfHead DEF Ticket!Turn
<1>3. \A u \in Threads : place'[u] \in {"wait", "in"} <=> place[u] \in {"wait", "in"}
  BY <1>1
<1>4. \A i \in 2 .. Len(line) : line[i] \in Threads /\ line[i] # t
  BY <1>2 DEF LineOfThreads, TicketTypeOK
<1>5. TicketTypeOK'
  BY <1>1 DEF TicketTypeOK
<1>6. LineOfThreads'
  BY <1>1, <1>3, <1>4 DEF LineOfThreads
<1>7. LineOfTickets'
  BY <1>1 DEF LineOfTickets
<1> QED  BY <1>5, <1>6, <1>7

\* Look and a compare-and-swap that fails change nothing for the line.
LEMMA AsideInv ==
    ASSUME EnoughTickets, TicketInv, NEW t \in Threads, place[t] \in {"out", "try"},
           NEW l \in {"out", "try"}, Ticket!Goto(t, l), UNCHANGED <<ticket, curr, line>>,
           mine' \in [Threads -> Tickets],
           \A u \in Threads \ {t} : mine'[u] = mine[u]
    PROVE  TicketInv'
<1> USE DEF TicketInv
<1>1. /\ place'[t] = l
      /\ \A u \in Threads \ {t} : place'[u] = place[u]
      /\ place' \in [Threads -> {"out", "wait", "try", "in"}]
  BY DEF TicketTypeOK, Ticket!Goto
<1>2. \A i \in 1 .. Len(line) : line[i] \in Threads /\ line[i] # t
  BY DEF LineOfThreads, TicketTypeOK
<1>3. TicketTypeOK'
  BY <1>1 DEF TicketTypeOK
<1>4. LineOfThreads'
  <2>1. \A u \in Threads : place'[u] \in {"wait", "in"} <=> place[u] \in {"wait", "in"}
    BY <1>1
  <2>2. \A i \in 2 .. Len(line) : place'[line[i]] = place[line[i]]
    BY <1>1, <1>2
  <2> QED  BY <2>1, <2>2 DEF LineOfThreads
<1>5. LineOfTickets'
  BY <1>2 DEF LineOfTickets
<1> QED  BY <1>3, <1>4, <1>5

LEMMA UnlockInv ==
    ASSUME EnoughTickets, TicketInv, NEW t \in Threads, Ticket!ticket_unlock(t)
    PROVE  TicketInv'
<1> USE DEF TicketInv
<1>1. /\ place[t] = "in" /\ place'[t] = "out" /\ curr' = Ticket!Inc(curr)
      /\ line' = Tail(line) /\ UNCHANGED <<ticket, mine>>
      /\ \A u \in Threads \ {t} : place'[u] = place[u]
      /\ place' \in [Threads -> {"out", "wait", "try", "in"}]
  BY DEF Ticket!ticket_unlock, Ticket!Goto, TicketTypeOK
<1>2. Len(line) >= 1 /\ line[1] = t
  BY <1>1, HeadIsIn
<1>3. /\ Len(line) \in Nat \ {0} /\ Len(line') = Len(line) - 1
      /\ line' \in Seq(Threads)
      /\ \A i \in 1 .. Len(line') : line'[i] = line[i + 1] /\ i + 1 \in 2 .. Len(line)
  BY <1>1, <1>2 DEF TicketTypeOK
<1>4. \A i \in 2 .. Len(line) : line[i] \in Threads /\ line[i] # t
  BY <1>2 DEF LineOfThreads, TicketTypeOK
<1>5. curr \in Tickets /\ Ticket!Inc(curr) \in Tickets
  BY IncIsNext DEF TicketTypeOK
<1>6. TicketTypeOK'
  BY <1>1, <1>3, <1>5 DEF TicketTypeOK
<1>7. LineOfThreads'
  <2>1. \A i, j \in 1 .. Len(line') : line'[i] = line'[j] => i = j
    <3> SUFFICES ASSUME NEW i \in 1 .. Len(line'), NEW j \in 1 .. Len(line'),
                        line'[i] = line'[j]
                 PROVE  i = j
      OBVIOUS
    <3>1. i + 1 \in 1 .. Len(line) /\ j + 1 \in 1 .. Len(line) /\ line[i + 1] = line[j + 1]
      BY <1>3
    <3>2. i + 1 = j + 1
      BY <3>1 DEF LineOfThreads
    <3> QED  BY <3>2, <1>3
  <2>2. \A u \in Threads :
           place'[u] \in {"wait", "in"} <=> \E i \in 1 .. Len(line') : line'[i] = u
    <3> SUFFICES ASSUME NEW u \in Threads
                 PROVE  place'[u] \in {"wait", "in"}
                          <=> \E i \in 1 .. Len(line') : line'[i] = u
      OBVIOUS
    <3>1. CASE u = t
      BY <1>1, <1>3, <1>4, <3>1
    <3>2. CASE u # t
      <4>1. ASSUME NEW i \in 1 .. Len(line), line[i] = u
            PROVE  \E j \in 1 .. Len(line') : line'[j] = u
        <5>1. i - 1 \in 1 .. Len(line')
          BY <1>2, <1>3, <3>2, <4>1
        <5>2. line'[i - 1] = line[i]
          BY <1>3, <5>1
        <5> QED  BY <4>1, <5>1, <5>2
      <4>2. ASSUME NEW j \in 1 .. Len(line'), line'[j] = u
            PROVE  \E i \in 1 .. Len(line) : line[i] = u
        <5>1. j + 1 \in 1 .. Len(line) /\ line[j + 1] = u
          BY <1>3, <4>2
        <5> QED  BY <5>1
      <4> QED  BY <1>1, <3>2, <4>1, <4>2 DEF LineOfThreads
    <3> QED  BY <3>1, <3>2
  <2>3. \A i \in 2 .. Len(line') : place'[line'[i]] = "wait"
    BY <1>1, <1>3, <1>4 DEF LineOfThreads
  <2> QED  BY <2>1, <2>2, <2>3 DEF LineOfThreads
<1>8. LineOfTickets'
  <2>1. \A n \in 0 .. Mod - 1 : After(curr', n) = After(curr, n + 1)
    BY <1>1, <1>5, AfterInc
  <2>2. Len(line) <= Mod /\ Mod \in Nat
    BY DEF LineOfTickets, EnoughTickets
  <2>3. ticket' = After(curr', Len(line'))
    <3>1. Len(line') \in 0 .. Mod - 1 /\ Len(line') + 1 = Len(line)
      BY <1>3, <2>2
    <3> QED  BY <1>1, <2>1, <3>1 DEF LineOfTickets
  <2>4. \A i \in 1 .. Len(line') : mine'[line'[i]] = After(curr', i - 1)
    <3> SUFFICES ASSUME NEW i \in 1 .. Len(line')
                 PROVE  mine'[line'[i]] = After(curr', i - 1)
      OBVIOUS
    <3>1. i - 1 \in 0 .. Mod - 1 /\ i + 1 \in 1 .. Len(line) /\ (i - 1) + 1 = (i + 1) - 1
      BY <1>3, <2>2
    <3>2. mine[line[i + 1]] = After(curr, (i + 1) - 1)
      BY <3>1 DEF LineOfTickets
    <3>3. After(curr', i - 1) = After(curr, (i - 1) + 1)
      BY <2>1, <3>1
    <3> QED  BY <1>1, <1>3, <3>1, <3>2, <3>3
  <2>5. Len(line') <= Mod
    BY <1>3, <2>2
  <2> QED  BY <2>3, <2>4, <2>5 DEF LineOfTickets
<1> QED  BY <1>6, <1>7, <1>8

LEMMA TicketNextInv == ASSUME EnoughTickets, TicketInv, [Ticket!Next]_(Ticket!vars) PROVE TicketInv'
<1>1. ASSUME NEW t \in Threads, Ticket!ticket_lock(t) PROVE TicketInv'
  <2>1. /\ mine' \in [Threads -> Tickets] /\ mine'[t] = ticket
        /\ \A u \in Threads \ {t} : mine'[u] = mine[u]
    BY <1>1 DEF TicketInv, TicketTypeOK, Ticket!ticket_lock
  <2> QED  BY <1>1, <2>1, JoinInv DEF Ticket!ticket_lock
<1>2. ASSUME NEW t \in Threads, Ticket!Turn(t) PROVE TicketInv'
  BY <1>2, TurnInv
<1>3. ASSUME NEW t \in Threads, Ticket!Look(t) PROVE TicketInv'
  <2>1. /\ mine' \in [Threads -> Tickets]
        /\ \A u \in Threads \ {t} : mine'[u] = mine[u]
    BY <1>3 DEF TicketInv, TicketTypeOK, Ticket!Look
  <2> QED  BY <1>3, <2>1, AsideInv DEF Ticket!Look
<1>4. ASSUME NEW t \in Threads, Ticket!ticket_trylock(t) PROVE TicketInv'
  <2>1. /\ place[t] = "try" /\ UNCHANGED <<curr, mine>> /\ mine' \in [Threads -> Tickets]
    BY <1>4 DEF TicketInv, TicketTypeOK, Ticket!ticket_trylock
  <2>2. CASE Ticket!SwapBoth(t)
    <3>1. line = <<>> /\ mine'[t] = ticket
      BY <2>1, <2>2, SwapFindsNobody DEF Ticket!SwapBoth
    <3> QED  BY <1>4, <2>1, <2>2, <3>1, JoinInv DEF Ticket!ticket_trylock
  <2>3. CASE ~Ticket!SwapBoth(t)
    BY <1>4, <2>1, <2>3, AsideInv DEF Ticket!ticket_trylock
  <2> QED  BY <2>2, <2>3
<1>5. ASSUME NEW t \in Threads, Ticket!ticket_unlock(t) PROVE TicketInv'
  BY <1>5, UnlockInv
<1>6. CASE UNCHANGED Ticket!vars
  BY <1>6 DEF Ticket!vars, TicketInv, TicketTypeOK, LineOfThreads, LineOfTickets
<1>7. CASE Ticket!Next
  BY <1>1, <1>2, <1>3, <1>4, <1>5, <1>7 DEF Ticket!Next
<1> QED  BY <1>6, <1>7

\* For any number of threads up to that of the tickets, threads are in in the order
\* in which they drew their tickets.
THEOREM TicketsAreServedInOrder ==
    ASSUME EnoughTickets PROVE Ticket!Spec => []Ticket!FirstComeFirstServed
<1>1. ASSUME TicketInv PROVE Ticket!FirstComeFirstServed
  <2>1. line = <<>> => Len(line) = 0
    OBVIOUS
  <2>2. Head(line) = line[1]
    BY <1>1 DEF TicketInv, TicketTypeOK
  <2> QED  BY <1>1, <2>1, <2>2, HeadIsIn DEF Ticket!FirstComeFirstServed
<1> QED  BY <1>1, TicketInitInv, TicketNextInv, PTL DEF Ticket!Spec

\* For any number of threads up to that of the tickets, one at a time holds the
\* lock, by whichever call, also when the counters wrap.
THEOREM TicketsExclude == ASSUME EnoughTickets PROVE Ticket!Spec => Ticket!RefinesMutex
<1> DEFINE holders == {t \in Threads : place[t] = "in"}
<1>1. ASSUME Ticket!Init PROVE Ticket!Lock!Init
  BY <1>1 DEF Ticket!Init, Ticket!Lock!Init
<1>2. ASSUME TicketInv, [Ticket!Next]_(Ticket!vars) PROVE [Ticket!Lock!Next]_holders
  <2> USE <1>2
  <2>1. ASSUME NEW t \in Threads, Ticket!ticket_lock(t) \/ Ticket!Look(t) PROVE holders' = holders
    BY <2>1 DEF TicketInv, TicketTypeOK, Ticket!ticket_lock, Ticket!Look, Ticket!Goto
  <2>2. ASSUME NEW t \in Threads, Ticket!Turn(t) PROVE holders = {} /\ holders' = {t}
    <3>1. line[1] = t /\ place[t] = "wait"
      BY <2>2, TurnIsOfHead DEF Ticket!Turn
    <3>2. \A u \in holders : u = t
      BY <3>1, HeadIsIn
    <3>3. holders = {}
      BY <3>1, <3>2
    <3>4. holders' = holders \cup {t}
      BY <2>2 DEF TicketInv, TicketTypeOK, Ticket!Turn, Ticket!Goto
    <3> QED  BY <3>3, <3>4
  <2>3. ASSUME NEW t \in Threads, Ticket!ticket_trylock(t), Ticket!SwapBoth(t)
        PROVE  holders = {} /\ holders' = {t}
    <3>1. line = <<>>
      BY <2>3, SwapFindsNobody DEF Ticket!ticket_trylock, Ticket!SwapBoth
    <3>2. holders = {}
      BY <3>1, HeadIsIn
    <3>3. holders' = holders \cup {t}
      BY <2>3 DEF TicketInv, TicketTypeOK, Ticket!ticket_trylock, Ticket!Goto
    <3> QED  BY <3>2, <3>3
  <2>4. ASSUME NEW t \in Threads, Ticket!ticket_trylock(t), ~Ticket!SwapBoth(t)
        PROVE  holders' = holders
    BY <2>4 DEF TicketInv, TicketTypeOK, Ticket!ticket_trylock, Ticket!Goto
  <2>5. ASSUME NEW t \in Threads, Ticket!ticket_unlock(t) PROVE holders = {t} /\ holders' = {}
    <3>1. line[1] = t /\ t \in holders
      BY <2>5, HeadIsIn DEF Ticket!ticket_unlock
    <3>2. holders = {t}
      BY <3>1, HeadIsIn
    <3>3. holders' = holders \ {t}
      BY <2>5 DEF TicketInv, TicketTypeOK, Ticket!ticket_unlock, Ticket!Goto
    <3> QED  BY <3>2, <3>3
  <2>6. CASE UNCHANGED Ticket!vars
    BY <2>6 DEF Ticket!vars
  <2>7. CASE Ticket!Next
    BY <2>1, <2>2, <2>3, <2>4, <2>5, <2>7
       DEF Ticket!Next, Ticket!Lock!Next, Ticket!Lock!Acquire, Ticket!Lock!Release
  <2> QED  BY <2>6, <2>7
<1> QED  BY <1>1, <1>2, TicketInitInv, TicketNextInv, PTL DEF Ticket!Spec, Ticket!RefinesMutex, Ticket!Lock!Spec

-----------------------------------------------------------------------------
(* The allocator; Mod is the length of its rings.                          *)

CONSTANTS Size, Alignment

VARIABLES alloc_next, free_list, free_cur, free_num, live, freed

Alloc == INSTANCE Ssalloc

\* Any threads and arenas, rings of any size and alignments.
Arenas ==
    /\ Mod \in Nat \ {0} /\ Alignment \in Nat \ {0}
    /\ Size \in [Threads -> Nat]

Places == 0 .. Mod - 1

\* The place n places after c in a ring.
Ahead(c, n) == IF c + n < Mod THEN c + n ELSE c + n - Mod

\* What the ring of t hands out after n other objects.
Offered(t, n) == free_list[t][Ahead(Alloc!Spot(t), n)]

\* What the arenas have been cut into.
Pieces == UNION {{u} \X (0 .. alloc_next[u] - 1) : u \in Threads}

RingInv ==
    /\ alloc_next \in [Threads -> Nat] /\ \A t \in Threads : alloc_next[t] <= Size[t]
    /\ free_list \in [Threads -> [Places -> Alloc!Objects \cup {<<>>}]]
    /\ free_cur \in [Threads -> Places] /\ free_num \in [Threads -> Places]
    /\ live \subseteq Pieces
    /\ \A t \in Threads : \A n \in 0 .. free_num[t] - 1 :
          /\ Offered(t, n) \notin live /\ Offered(t, n) \in Pieces
          /\ \A u \in Threads : \A m \in 0 .. free_num[u] - 1 :
                Offered(t, n) = Offered(u, m) => t = u /\ n = m

\* Both counters count modulo Mod, in free and in ssalloc_alloc, and so does the
\* index computed from them.
LEMMA ModIs ==
    ASSUME Arenas, NEW x \in Int, -Mod <= x, x < Mod + Mod
    PROVE  x % Mod = IF x < 0 THEN x + Mod ELSE IF x < Mod THEN x ELSE x - Mod
<1> USE DEF Arenas
<1>1. CASE x < 0
  <2>1. (x + Mod) % Mod = x % Mod
    OBVIOUS
  <2> QED  BY <1>1, <2>1
<1>2. CASE x >= 0 /\ x < Mod
  BY <1>2
<1>3. CASE x >= Mod
  <2>1. (x - Mod) % Mod = x % Mod
    OBVIOUS
  <2> QED  BY <1>3, <2>1
<1> QED  BY <1>1, <1>2, <1>3

\* The places that a ring offers end before free_cur.
LEMMA SpotIs ==
    ASSUME Arenas, RingInv, NEW t \in Threads
    PROVE  /\ Alloc!Spot(t) = IF free_cur[t] < free_num[t] THEN free_cur[t] - free_num[t] + Mod
                        ELSE free_cur[t] - free_num[t]
           /\ Alloc!Spot(t) \in Places
           /\ \A n \in Places : Ahead(Alloc!Spot(t), n) \in Places
           /\ \A n \in Places : n < free_num[t] => Ahead(Alloc!Spot(t), n) # free_cur[t]
           /\ Ahead(Alloc!Spot(t), free_num[t]) = free_cur[t]
<1>1. free_cur[t] \in Places /\ free_num[t] \in Places
  BY DEF RingInv
<1>2. Alloc!Spot(t) = IF free_cur[t] < free_num[t] THEN free_cur[t] - free_num[t] + Mod
                ELSE free_cur[t] - free_num[t]
  BY <1>1, ModIs DEF Arenas, Places, Alloc!Spot
<1> QED  BY <1>1, <1>2 DEF Arenas, Places, Ahead

\* A piece is an object of some arena.
LEMMA PiecesIn ==
    ASSUME Arenas, RingInv
    PROVE  /\ Pieces \subseteq Alloc!Objects
           /\ \A o \in Pieces : o # <<>> /\ o[2] < alloc_next[o[1]]
<1> SUFFICES ASSUME NEW o \in Pieces
             PROVE  o \in Alloc!Objects /\ o # <<>> /\ o[2] < alloc_next[o[1]]
  OBVIOUS
<1>1. PICK u \in Threads : o \in {u} \X (0 .. alloc_next[u] - 1)
  BY DEF Pieces
<1>2. alloc_next[u] \in Nat /\ Size[u] \in Nat /\ alloc_next[u] <= Size[u]
  BY DEF RingInv, Arenas
<1>3. o[1] = u /\ o[2] \in 0 .. alloc_next[u] - 1 /\ o = <<u, o[2]>>
  BY <1>1
<1>4. o[2] \in 0 .. Size[u] - 1
  BY <1>2, <1>3
<1>5. o \in {u} \X (0 .. Size[u] - 1)
  BY <1>3, <1>4
<1>6. o # <<>>
  <2>1. \A x, y : <<x, y>> # <<>>
    OBVIOUS
  <2> QED  BY <1>3, <2>1
<1> QED  BY <1>2, <1>3, <1>5, <1>6 DEF Alloc!Objects

\* A thread that takes objects from its own arena only.
LEMMA CutKeeps ==
    ASSUME Arenas, RingInv, NEW t \in Threads, NEW a \in Nat, alloc_next[t] <= a, a + 1 <= Size[t],
           live' = live \cup {<<t, a>>}, alloc_next' = [alloc_next EXCEPT ![t] = a + 1],
           UNCHANGED Alloc!ring
    PROVE  RingInv'
<1>1. UNCHANGED <<free_list, free_cur, free_num>>
  BY DEF Alloc!ring
<1>2. \A u \in Threads : Alloc!Spot(u)' = Alloc!Spot(u) /\ \A n : Offered(u, n)' = Offered(u, n)
  BY <1>1 DEF Alloc!Spot, Offered
<1>3. alloc_next' \in [Threads -> Nat] /\ alloc_next'[t] = a + 1
      /\ \A u \in Threads : alloc_next[u] <= alloc_next'[u] /\ alloc_next'[u] <= Size[u]
  BY DEF RingInv, Arenas
<1>4. Pieces \subseteq Pieces' /\ <<t, a>> \notin Pieces
  BY <1>3 DEF Pieces, RingInv
<1>5. <<t, a>> \in Pieces'
  BY <1>3 DEF Pieces
<1>6. live' \subseteq Pieces'
  BY <1>4, <1>5 DEF RingInv
<1>7. \A u \in Threads : \A n \in 0 .. free_num[u] - 1 :
         Offered(u, n)' \notin live' /\ Offered(u, n)' \in Pieces'
  <2>1. \A u \in Threads : \A n \in 0 .. free_num[u] - 1 :
           Offered(u, n) \notin live /\ Offered(u, n) \in Pieces
    BY DEF RingInv
  <2> QED  BY <1>2, <1>4, <2>1
<1> QED  BY <1>1, <1>2, <1>3, <1>6, <1>7 DEF RingInv

\* What a ring hands out, it hands out once.
LEMMA ReuseKeeps ==
    ASSUME Arenas, RingInv, NEW t \in Threads, Alloc!Reuse(t)
    PROVE  RingInv'
<1> DEFINE ret == free_list[t][Alloc!Spot(t)]
<1>1. /\ UNCHANGED <<alloc_next, free_list, free_cur>> /\ live' = live \cup {ret}
      /\ free_num[t] > 2 /\ free_num' = [free_num EXCEPT ![t] = @ - 1]
  BY DEF Alloc!Reuse, Alloc!Reuses
<1>2. free_num' \in [Threads -> Places] /\ free_num[t] \in Places
      /\ free_num'[t] = free_num[t] - 1
      /\ \A u \in Threads \ {t} : free_num'[u] = free_num[u]
  BY <1>1 DEF RingInv, Places, Arenas
<1>3. ret = Offered(t, 0)
  <2>1. Ahead(Alloc!Spot(t), 0) = Alloc!Spot(t)
    BY SpotIs DEF Ahead, Places, Arenas
  <2> QED  BY <2>1 DEF Offered
<1>4. \A u \in Threads \ {t} : \A n : Offered(u, n)' = Offered(u, n)
  BY <1>1, <1>2 DEF Alloc!Spot, Offered
<1>5. \A n \in 0 .. free_num'[t] - 1 : Offered(t, n)' = Offered(t, n + 1)
  <2>1. Alloc!Spot(t)' = Ahead(Alloc!Spot(t), 1)
    <3>1. free_cur[t] \in Places /\ free_cur'[t] = free_cur[t]
      BY <1>1 DEF RingInv
    <3>2. Alloc!Spot(t)' = (free_cur[t] - (free_num[t] - 1)) % Mod
      BY <1>2, <3>1 DEF Alloc!Spot
    <3> DEFINE x == free_cur[t] - (free_num[t] - 1)
    <3>3. x \in Int /\ -Mod <= x /\ x < Mod
      BY <1>1, <1>2, <3>1 DEF Places, Arenas
    <3>4. Alloc!Spot(t)' = IF x < 0 THEN x + Mod ELSE x
      <4> HIDE DEF x
      <4>1. x < Mod + Mod
        BY <3>3 DEF Arenas
      <4> QED  BY <3>2, <3>3, <4>1, ModIs DEF x
    <3>5. Alloc!Spot(t) = IF free_cur[t] < free_num[t] THEN free_cur[t] - free_num[t] + Mod
                          ELSE free_cur[t] - free_num[t]
      BY SpotIs
    <3>6. CASE x < 0
      BY <1>1, <1>2, <3>1, <3>3, <3>4, <3>5, <3>6 DEF Places, Arenas, Ahead
    <3>7. CASE x >= 0
      BY <1>1, <1>2, <3>1, <3>3, <3>4, <3>5, <3>7 DEF Places, Arenas, Ahead
    <3> QED  BY <3>3, <3>6, <3>7
  <2>2. \A n \in 0 .. free_num'[t] - 1 :
           Ahead(Ahead(Alloc!Spot(t), 1), n) = Ahead(Alloc!Spot(t), n + 1)
    <3>1. Alloc!Spot(t) \in Places
      BY SpotIs
    <3> QED  BY <1>1, <1>2, <3>1 DEF Places, Arenas, Ahead
  <2> QED  BY <1>1, <2>1, <2>2 DEF Offered
<1>6. \A n \in 0 .. free_num'[t] - 1 : n + 1 \in 0 .. free_num[t] - 1 /\ n + 1 # 0
  BY <1>1, <1>2 DEF Places, Arenas
<1>7. 0 \in 0 .. free_num[t] - 1
  BY <1>1, <1>2 DEF Places, Arenas
<1>8. Pieces' = Pieces
  BY <1>1 DEF Pieces
<1>9. live' \subseteq Pieces'
  BY <1>1, <1>3, <1>7, <1>8 DEF RingInv
<1> DEFINE Past(u, n) == IF u = t THEN n + 1 ELSE n
<1>10. \A u \in Threads : \A n \in 0 .. free_num'[u] - 1 :
          /\ Past(u, n) \in 0 .. free_num[u] - 1 /\ <<u, Past(u, n)>> # <<t, 0>>
          /\ Offered(u, n)' = Offered(u, Past(u, n))
  BY <1>2, <1>4, <1>5, <1>6
<1>11. \A u \in Threads : \A n \in 0 .. free_num'[u] - 1 :
          Offered(u, n)' \notin live' /\ Offered(u, n)' \in Pieces'
  <2> SUFFICES ASSUME NEW u \in Threads, NEW n \in 0 .. free_num'[u] - 1
               PROVE  Offered(u, n)' \notin live' /\ Offered(u, n)' \in Pieces'
    OBVIOUS
  <2> DEFINE k == Past(u, n)
  <2>1. k \in 0 .. free_num[u] - 1 /\ ~(u = t /\ k = 0) /\ Offered(u, n)' = Offered(u, k)
    BY <1>10
  <2> HIDE DEF k
  <2>2. Offered(u, k) # ret /\ Offered(u, k) \notin live /\ Offered(u, k) \in Pieces
    BY <1>3, <1>7, <2>1 DEF RingInv
  <2> QED  BY <1>1, <1>8, <2>1, <2>2
<1>12. ASSUME NEW u \in Threads, NEW n \in 0 .. free_num'[u] - 1,
              NEW v \in Threads, NEW m \in 0 .. free_num'[v] - 1,
              Offered(u, n)' = Offered(v, m)'
       PROVE  u = v /\ n = m
  <2>1. Offered(u, Past(u, n)) = Offered(v, Past(v, m))
    BY <1>10, <1>12
  <2>2. u = v /\ Past(u, n) = Past(v, m)
    <3> HIDE DEF Past
    <3> QED  BY <1>10, <2>1 DEF RingInv
  <2> QED  BY <1>2, <2>2
<1> QED  BY <1>1, <1>2, <1>9, <1>11, <1>12 DEF RingInv

\* A freed object joins the ring behind the others.  When the counter passes its
\* limit the ring offers nothing.
LEMMA FreeKeeps ==
    ASSUME Arenas, RingInv, NEW t \in Threads, NEW o \in live, Alloc!Free(t, o)
    PROVE  RingInv'
<1> DEFINE c == free_cur[t]  k == free_num[t]
<1>1. /\ free_num' = [free_num EXCEPT ![t] = Alloc!Inc(@)]
      /\ free_list' = [free_list EXCEPT ![t][free_cur[t]] = o]
      /\ free_cur' = [free_cur EXCEPT ![t] = Alloc!Inc(@)]
      /\ live' = live \ {o} /\ alloc_next' = alloc_next
  BY DEF Alloc!Free
<1>2. c \in Places /\ k \in Places
  BY DEF RingInv
<1>3. \A n \in Places : Alloc!Inc(n) = IF n + 1 = Mod THEN 0 ELSE n + 1
  BY ModIs DEF Alloc!Inc, Places, Arenas
<1>4. /\ free_cur' \in [Threads -> Places] /\ free_num' \in [Threads -> Places]
      /\ free_cur'[t] = Alloc!Inc(c) /\ free_num'[t] = Alloc!Inc(k)
      /\ \A u \in Threads \ {t} : free_cur'[u] = free_cur[u] /\ free_num'[u] = free_num[u]
  <2>1. \A n \in Places : Alloc!Inc(n) \in Places
    BY <1>3 DEF Places, Arenas
  <2> QED  BY <1>1, <2>1 DEF RingInv
<1> o \in Alloc!Objects
  BY PiecesIn DEF RingInv
<1>5. /\ free_list' \in [Threads -> [Places -> Alloc!Objects \cup {<<>>}]]
      /\ free_list'[t][c] = o
      /\ \A p \in Places \ {c} : free_list'[t][p] = free_list[t][p]
      /\ \A u \in Threads \ {t} : free_list'[u] = free_list[u]
  BY <1>1, <1>2 DEF RingInv
<1>6. \A u \in Threads \ {t} : \A n : Offered(u, n)' = Offered(u, n)
  BY <1>4, <1>5 DEF Offered, Alloc!Spot
<1>7. ASSUME k + 1 < Mod
      PROVE  \A n \in 0 .. free_num'[t] - 1 :
                Offered(t, n)' = IF n = k THEN o ELSE Offered(t, n)
  <2>1. Alloc!Spot(t)' = Alloc!Spot(t)
    <3>1. Alloc!Spot(t)' = (Alloc!Inc(c) - Alloc!Inc(k)) % Mod
      BY <1>4 DEF Alloc!Spot
    <3>2. Alloc!Inc(k) = k + 1 /\ Alloc!Inc(c) \in Places /\ Alloc!Inc(k) \in Places
      BY <1>2, <1>3, <1>7 DEF Places, Arenas
    <3> DEFINE x == Alloc!Inc(c) - Alloc!Inc(k)
    <3>3. x \in Int /\ -Mod <= x /\ x < Mod
      BY <3>2 DEF Places, Arenas
    <3>4. Alloc!Spot(t)' = IF x < 0 THEN x + Mod ELSE x
      <4> HIDE DEF x
      <4>1. x < Mod + Mod
        BY <3>3 DEF Arenas
      <4> QED  BY <3>1, <3>3, <4>1, ModIs DEF x
    <3> QED  BY <1>2, <1>3, <3>2, <3>3, <3>4, SpotIs DEF Places, Arenas
  <2>2. \A n \in 0 .. free_num'[t] - 1 : n \in Places /\ (n = k \/ n < k)
    BY <1>2, <1>3, <1>4, <1>7 DEF Places, Arenas
  <2> QED  BY <1>5, <2>1, <2>2, SpotIs DEF Offered
<1>8. k + 1 = Mod => free_num'[t] = 0
  BY <1>2, <1>3, <1>4
<1>9. Pieces' = Pieces
  BY <1>1 DEF Pieces
<1>10. \A u \in Threads : \A n \in 0 .. free_num'[u] - 1 :
          \/ u = t /\ n = k /\ Offered(u, n)' = o
          \/ n \in 0 .. free_num[u] - 1 /\ Offered(u, n)' = Offered(u, n) /\ ~(u = t /\ n = k)
  <2> SUFFICES ASSUME NEW u \in Threads, NEW n \in 0 .. free_num'[u] - 1
               PROVE  \/ u = t /\ n = k /\ Offered(u, n)' = o
                      \/ /\ n \in 0 .. free_num[u] - 1 /\ Offered(u, n)' = Offered(u, n)
                         /\ ~(u = t /\ n = k)
    OBVIOUS
  <2>1. CASE u # t
    BY <1>4, <1>6, <2>1
  <2>2. CASE u = t
    <3>1. k + 1 < Mod /\ free_num'[t] = k + 1
      BY <1>2, <1>3, <1>4, <1>8, <2>2 DEF Places, Arenas
    <3> QED  BY <1>2, <1>7, <2>2, <3>1 DEF Places, Arenas
  <2> QED  BY <2>1, <2>2
<1>11. \A u \in Threads : \A n \in 0 .. free_num[u] - 1 : Offered(u, n) # o
  BY DEF RingInv
<1>12. \A u \in Threads : \A n \in 0 .. free_num'[u] - 1 :
          Offered(u, n)' \notin live' /\ Offered(u, n)' \in Pieces'
  BY <1>1, <1>9, <1>10 DEF RingInv
<1>13. ASSUME NEW u \in Threads, NEW n \in 0 .. free_num'[u] - 1,
              NEW v \in Threads, NEW m \in 0 .. free_num'[v] - 1,
              Offered(u, n)' = Offered(v, m)'
       PROVE  u = v /\ n = m
  <2> DEFINE Old(w, i) == i \in 0 .. free_num[w] - 1 /\ Offered(w, i)' = Offered(w, i)
  <2>1. CASE Old(u, n) /\ Old(v, m)
    BY <1>13, <2>1 DEF RingInv
  <2>2. CASE ~Old(u, n)
    BY <1>10, <1>11, <1>13, <2>2
  <2>3. CASE ~Old(v, m)
    BY <1>10, <1>11, <1>13, <2>3
  <2> QED  BY <2>1, <2>2, <2>3
<1>14. live' \subseteq Pieces'
  BY <1>1, <1>9 DEF RingInv
<1> QED  BY <1>1, <1>4, <1>5, <1>12, <1>13, <1>14 DEF RingInv

LEMMA InitRing == ASSUME Arenas, Alloc!Init PROVE RingInv
<1>1. \A t \in Threads : free_num[t] = 0 /\ 0 .. free_num[t] - 1 = {}
  <2>1. \A t \in Threads : free_num[t] = 0
    BY DEF Alloc!Init
  <2>2. 0 .. 0 - 1 = {}
    OBVIOUS
  <2> QED  BY <2>1, <2>2
<1>2. 0 \in Places
  BY DEF Arenas, Places
<1> QED  BY <1>1, <1>2 DEF Alloc!Init, RingInv, Places, Arenas

LEMMA NextRing == ASSUME Arenas, RingInv, [Alloc!Next]_(Alloc!vars) PROVE RingInv'
<1>1. ASSUME NEW t \in Threads, Alloc!Cut(t) PROVE RingInv'
  <2>1. alloc_next[t] \in Nat /\ alloc_next[t] <= alloc_next[t]
    BY DEF RingInv
  <2>2. /\ alloc_next[t] + 1 <= Size[t] /\ live' = live \cup {<<t, alloc_next[t]>>}
        /\ alloc_next' = [alloc_next EXCEPT ![t] = alloc_next[t] + 1] /\ UNCHANGED Alloc!ring
    BY <1>1 DEF Alloc!Cut, Alloc!Fits
  <2> QED  BY <2>1, <2>2, CutKeeps
<1>2. ASSUME NEW t \in Threads, Alloc!AlignedAlloc(t) PROVE RingInv'
  <2>1. alloc_next[t] \in Nat
    BY DEF RingInv
  <2>2. alloc_next[t] % Alignment \in Nat
    BY <2>1 DEF Arenas
  <2>3. (Alignment - (alloc_next[t] % Alignment)) % Alignment \in Nat
    BY <2>2 DEF Arenas
  <2>4. Alloc!Aligned(alloc_next[t]) \in Nat /\ alloc_next[t] <= Alloc!Aligned(alloc_next[t])
    BY <2>1, <2>3 DEF Alloc!Aligned
  <2> QED  BY <1>2, <2>4, CutKeeps DEF Alloc!AlignedAlloc
<1>3. UNCHANGED Alloc!vars => RingInv'
  BY DEF Alloc!vars, Alloc!ring, RingInv, Pieces, Offered, Alloc!Spot
<1> QED  BY <1>1, <1>2, <1>3, ReuseKeeps, FreeKeeps DEF Alloc!Next, Alloc!Fail

\* For any threads, arenas, alignments and lengths of rings, ssalloc_alloc takes
\* from a ring no object that is in use, none twice and none that was never cut,
\* whichever thread freed it, and also after the 16-bit counters have wrapped.
THEOREM RingsOfferUnused == ASSUME Arenas PROVE Alloc!Spec => []Alloc!NotInUseTwice
<1>1. ASSUME Arenas, RingInv PROVE Alloc!NotInUseTwice
  <2>1. ASSUME NEW t \in Threads
        PROVE  /\ DOMAIN Alloc!Window(t) = 1 .. free_num[t]
               /\ \A i \in 1 .. free_num[t] :
                     i - 1 \in 0 .. free_num[t] - 1 /\ Alloc!Window(t)[i] = Offered(t, i - 1)
    <3>1. free_num[t] \in Places /\ Alloc!Spot(t) \in Places
      BY <1>1, SpotIs DEF RingInv
    <3>2. \A i \in 1 .. free_num[t] : (Alloc!Spot(t) + i - 1) % Mod = Ahead(Alloc!Spot(t), i - 1)
      BY <1>1, <3>1, ModIs DEF Places, Arenas, Ahead
    <3> QED  BY <3>1, <3>2 DEF Alloc!Window, Offered, Places
  <2>2. \A o \in Pieces : o # <<>> /\ o[2] < alloc_next[o[1]]
    BY <1>1, PiecesIn
  <2>3. ASSUME NEW t \in Threads, NEW u \in Threads, NEW i \in DOMAIN Alloc!Window(t)
        PROVE  /\ Alloc!Window(t)[i] \notin live /\ Alloc!Window(t)[i] \in Pieces
               /\ \A j \in DOMAIN Alloc!Window(u) :
                     Alloc!Window(t)[i] = Alloc!Window(u)[j] => t = u /\ i - 1 = j - 1
    <3>1. i - 1 \in 0 .. free_num[t] - 1 /\ Alloc!Window(t)[i] = Offered(t, i - 1)
      BY <2>1, <2>3
    <3>2. Alloc!Window(t)[i] \notin live /\ Alloc!Window(t)[i] \in Pieces
      BY <1>1, <3>1 DEF RingInv
    <3>3. ASSUME NEW j \in DOMAIN Alloc!Window(u), Alloc!Window(t)[i] = Alloc!Window(u)[j]
          PROVE  t = u /\ i - 1 = j - 1
      <4>1. j - 1 \in 0 .. free_num[u] - 1 /\ Alloc!Window(u)[j] = Offered(u, j - 1)
        BY <2>1, <2>3
      <4> QED  BY <1>1, <3>1, <3>3, <4>1 DEF RingInv
    <3> QED  BY <3>2, <3>3
  <2>4. \A t \in Threads : DOMAIN Alloc!Window(t) \subseteq Int
    <3>1. \A t \in Threads : free_num[t] \in Int
      <4>1. Places \subseteq Int
        BY DEF Places, Arenas
      <4> QED  BY <1>1, <4>1 DEF RingInv
    <3>2. \A n \in Int : 1 .. n \subseteq Int
      OBVIOUS
    <3> QED  BY <2>1, <3>1, <3>2
  <2> QED  BY <2>2, <2>3, <2>4 DEF Alloc!NotInUseTwice
<1> QED  BY <1>1, InitRing, NextRing, PTL DEF Alloc!Spec
===============================================================================
