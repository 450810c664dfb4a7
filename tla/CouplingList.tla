----------------------------- MODULE CouplingList -----------------------------
(***************************************************************************)
(* The list with hand-over-hand locking,                                   *)
(* src/src/linkedlist-coupling/coupling.c, with one lock per node.  A      *)
(* deleted node is freed at once: its fields are gone, and nobody may be    *)
(* waiting for its lock.                                                   *)
(***************************************************************************)
EXTENDS ListSet

Pair(l, c, n) == [pc |-> l, curr |-> c, next |-> n]

Begin(t) ==
    /\ \E o \in Ops, k \in Keys : Call(t, o, k, Pair("lock head", head, head))
    /\ UNCHANGED mem

LockHead(t) ==
    /\ th[t].pc = "lock head" /\ LOCK(t, head)
    /\ Goto(t, "lock next")

\* LOCK of what curr->next is; curr is locked, so it stays that.
Hold_Nothing(t, n) == mem[n].lock = 0 /\ UNCHANGED mem
Hold(t, n) == LOCK(t, n)

LockNext(t) ==
    /\ th[t].pc = "lock next"
    /\ Hold(t, Succ(th[t].curr))
    /\ On(t, Pair("compare", th[t].curr, Succ(th[t].curr)))

\* The loop: unlock curr and step on, with next locked.
StepOn(t) ==
    /\ th[t].pc = "compare" /\ Key(th[t].next) < req[t].key
    /\ UNLOCK(th[t].curr)
    /\ On(t, Pair("lock next", th[t].next, th[t].next))

There(t) == th[t].pc = "compare" /\ Key(th[t].next) >= req[t].key
Present(t) == Key(th[t].next) = req[t].key

\* lockc_find, and updates that change nothing.
Answer(t) ==
    /\ There(t)
    /\ Present(t) = (req[t].op # "delete") \/ req[t].op = "find"
    /\ Goto(t, IF Present(t) = (req[t].op # "insert")
               THEN "unlock curr, yes" ELSE "unlock curr, no")
    /\ UNCHANGED mem

lockc_insert(t) ==
    /\ There(t) /\ ~Present(t) /\ req[t].op = "insert"
    /\ mem' = Linked(node(req[t].key, th[t].next), th[t].curr)
    /\ Goto(t, "unlock curr, yes")

lockc_delete(t) ==
    /\ There(t) /\ Present(t) /\ req[t].op = "delete"
    /\ mem' = [mem EXCEPT ![th[t].curr].next = mem[th[t].next].next]
    /\ Goto(t, "unlock next, free it")

\* UNLOCK of next and node_delete_l, before curr is unlocked.  A lock that was
\* freed is never free again here: who waits for it would wait for ever.
Free(t) ==
    /\ th[t].pc = "unlock next, free it" /\ Goto(t, "last, yes")
    /\ mem' = [mem EXCEPT ![th[t].next] =
                 [key |-> KEY_MIN, next |-> <<head, 0>>, marked |-> TRUE, lock |-> -1]]

UnlockCurr(t) ==
    /\ \/ th[t].pc = "unlock curr, yes" /\ Goto(t, "unlock next, yes")
       \/ th[t].pc = "unlock curr, no" /\ Goto(t, "unlock next, no")
    /\ UNLOCK(th[t].curr)

Last(t) ==
    \/ th[t].pc = "unlock next, yes" /\ UNLOCK(th[t].next) /\ Return(t, "yes")
    \/ th[t].pc = "unlock next, no" /\ UNLOCK(th[t].next) /\ Return(t, "no")
    \/ th[t].pc = "last, yes" /\ UNLOCK(th[t].curr) /\ Return(t, "yes")

Next ==
    \/ \E t \in Threads :
          \/ Begin(t) \/ LockHead(t) \/ LockNext(t) \/ StepOn(t) \/ Answer(t)
          \/ lockc_insert(t) \/ lockc_delete(t) \/ Free(t)
          \/ UnlockCurr(t) \/ Last(t)
    \/ AllDone

Spec == Init /\ [][Next]_vars

-----------------------------------------------------------------------------
\* A thread holds on to nodes that are in the list, and to neighbours: no node is
\* freed while another thread stands on it or waits for its lock.
NobodyStandsOnFreed ==
    \A t \in Threads :
       /\ th[t].pc \in {"compare", "lock next"} =>
             ~mem[th[t].curr].marked /\ ~mem[th[t].next].marked
       /\ th[t].pc = "lock next" => ~mem[Succ(th[t].curr)].marked
       /\ th[t].pc = "compare" => Succ(th[t].curr) = th[t].next
===============================================================================
