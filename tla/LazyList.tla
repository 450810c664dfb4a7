------------------------------- MODULE LazyList -------------------------------
(***************************************************************************)
(* The lazy list, src/src/linkedlist-lazy/lazy.c: searches take no lock,    *)
(* updates lock what they found and validate it.  The lock of a node is    *)
(* who holds it (module Mutex).                                            *)
(***************************************************************************)
EXTENDS ListSet

CONSTANT RO_FAIL    \* whether an update that need not change anything locks

\* Where t is in the list.
From(l, p, c) == [pc |-> l, pred |-> p, curr |-> c]

MyKey(t) == Key(th[t].curr)
IsMarked(n) == mem[n].marked

Begin(t) ==
    /\ \E o \in Ops, k \in Keys :
          Call(t, o, k, From("search", head, head))
    /\ UNCHANGED mem

\* The loops at the start of parse_find, parse_insert and parse_delete.
Search(t) ==
    /\ th[t].pc = "search" /\ MyKey(t) < req[t].key
    /\ On(t, From("search", th[t].curr, Succ(th[t].curr)))
    /\ UNCHANGED mem

IsFound(t) == th[t].pc = "search" /\ MyKey(t) >= req[t].key

parse_find(t) ==
    /\ IsFound(t) /\ req[t].op = "find"
    /\ Return(t, IF MyKey(t) = req[t].key /\ ~IsMarked(th[t].curr)
                 THEN "yes" ELSE "no")
    /\ UNCHANGED mem

Restart(t) == On(t, From("search", head, head))

\* LAZY_RO_FAIL, and otherwise on to the locks.
Decide(t) ==
    /\ IsFound(t) /\ req[t].op # "find"
    /\ IF RO_FAIL /\ (MyKey(t) = req[t].key) = (req[t].op = "insert")
       THEN IF IsMarked(th[t].curr) THEN Restart(t) ELSE Return(t, "no")
       ELSE Goto(t, "lock pred")
    /\ UNCHANGED mem

LockPred(t) ==
    /\ th[t].pc = "lock pred" /\ LOCK(t, th[t].pred)
    /\ Goto(t, IF req[t].op = "delete" THEN "lock curr" ELSE "validate")

LockCurr(t) ==
    /\ th[t].pc = "lock curr" /\ LOCK(t, th[t].curr)
    /\ Goto(t, "validate")

ValidateLinkOnly(pred, curr) == Succ(pred) = curr

parse_validate(pred, curr) ==
    ~IsMarked(pred) /\ ~IsMarked(curr) /\ Succ(pred) = curr

Validate(t) ==
    /\ th[t].pc = "validate"
    /\ LET valid == parse_validate(th[t].pred, th[t].curr)
           changes == (MyKey(t) = req[t].key) = (req[t].op = "delete")
       IN Goto(t, CASE ~valid             -> "unlock, retry"
                    [] valid /\ ~changes  -> "unlock, no"
                    [] valid /\ changes   -> req[t].op)
    /\ UNCHANGED mem

Insert(t) ==
    /\ th[t].pc = "insert" /\ Goto(t, "unlock, yes")
    /\ mem' = Linked(node(req[t].key, th[t].curr), th[t].pred)

\* The mark comes before the unlinking.
Mark(t) ==
    /\ th[t].pc = "delete" /\ Goto(t, "unlink")
    /\ mem' = [mem EXCEPT ![th[t].curr].marked = TRUE]

Unlink(t) ==
    /\ th[t].pc = "unlink" /\ Goto(t, "unlock, yes")
    /\ mem' = [mem EXCEPT ![th[t].pred].next = mem[th[t].curr].next]

\* UNLOCK of curr and then of pred.
UnlockCurr(t) ==
    /\ th[t].pc \in {"unlock, retry", "unlock, no", "unlock, yes"}
    /\ mem[th[t].curr].lock = t
    /\ UNLOCK(th[t].curr)
    /\ UNCHANGED <<th, req, lin>>

UnlockPred(t) ==
    /\ \/ th[t].pc = "unlock, retry" /\ Restart(t)
       \/ th[t].pc = "unlock, no" /\ Return(t, "no")
       \/ th[t].pc = "unlock, yes" /\ Return(t, "yes")
    /\ mem[th[t].curr].lock # t
    /\ UNLOCK(th[t].pred)

Next ==
    \/ \E t \in Threads :
          \/ Begin(t) \/ Search(t) \/ parse_find(t) \/ Decide(t)
          \/ LockPred(t) \/ LockCurr(t) \/ Validate(t)
          \/ Insert(t) \/ Mark(t) \/ Unlink(t)
          \/ UnlockCurr(t) \/ UnlockPred(t)
    \/ AllDone

Spec == Init /\ [][Next]_vars
===============================================================================
