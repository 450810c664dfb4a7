------------------------------- MODULE PughList -------------------------------
(***************************************************************************)
(* Pugh's list, src/src/linkedlist-pugh/pugh.c: a search takes no lock; an  *)
(* update locks the node it wants to link from and goes on from there hand  *)
(* in hand.  A deleted node points back to its predecessor.                 *)
(***************************************************************************)
EXTENDS ListSet

CONSTANTS
    PUGH_RO_FAIL,   \* updates may give up before they lock (the default build)
    Believed        \* whether the answer of a delete that gives up counts

At(l, p) == [pc |-> l, pred |-> p, succ |-> head]

Begin(t) ==
    /\ \E o \in Ops, k \in Keys : Call(t, o, k, At("weak", head))
    /\ UNCHANGED mem

\* search_weak_left and search_weak_right: one step reads pred->next.
Weak(t) ==
    LET succ == Succ(th[t].pred)
    IN /\ th[t].pc = "weak"
       /\ IF Key(succ) < req[t].key THEN On(t, At("weak", succ))
          ELSE IF req[t].op = "find"
          THEN Return(t, IF Key(succ) = req[t].key THEN "yes" ELSE "no")
          ELSE Goto(t, IF PUGH_RO_FAIL THEN "look again" ELSE "lock")
       /\ UNCHANGED mem

\* The answer is "no", from which only that nothing was done is concluded.
ReturnUnbelieved(t) ==
    /\ th' = [th EXCEPT ![t] = Idle]
    /\ lin' = {[c EXCEPT !.ans[t] = "none"] :
                 c \in {d \in Extended(lin) : d.ans[t] # "yes"}}
    /\ req' = [req EXCEPT ![t] = [op |-> "find", key |-> 0, left |-> @.left]]

GiveUp(t) ==
    IF req[t].op = "delete" /\ ~Believed THEN ReturnUnbelieved(t) ELSE Return(t, "no")

\* search_strong_cond reads pred->next once more, and may give up: a delete also
\* when a smaller key has been inserted since, or pred unlinked.
LookAgain(t) ==
    /\ th[t].pc = "look again"
    /\ IF (Key(Succ(th[t].pred)) = req[t].key) = (req[t].op = "insert")
       THEN GiveUp(t) ELSE Goto(t, "lock")
    /\ UNCHANGED mem

LockPred(t) ==
    /\ th[t].pc = "lock" /\ LOCK(t, th[t].pred)
    /\ Goto(t, "strong")

BehindPlace_Never(t) == FALSE
BehindPlace(t) == Key(Succ(th[t].pred)) < req[t].key

\* search_strong: on to the right place, also back from a deleted node.
StepOn(t) ==
    /\ th[t].pc = "strong" /\ BehindPlace(t)
    /\ UNLOCK(th[t].pred)
    /\ On(t, At("lock", Succ(th[t].pred)))

There(t) == th[t].pc = "strong" /\ ~BehindPlace(t)
Present(t) == Key(Succ(th[t].pred)) = req[t].key

Unchanged(t) ==
    /\ There(t) /\ Present(t) = (req[t].op = "insert")
    /\ UNLOCK(th[t].pred) /\ Return(t, "no")

list_insert(t) ==
    /\ There(t) /\ ~Present(t) /\ req[t].op = "insert"
    /\ mem' = Linked(node(req[t].key, Succ(th[t].pred)), th[t].pred)
    /\ Goto(t, "unlock")

\* list_delete.
LockRight(t) ==
    /\ There(t) /\ Present(t) /\ req[t].op = "delete"
    /\ LOCK(t, Succ(th[t].pred))
    /\ On(t, [pc |-> "unlink", pred |-> th[t].pred, succ |-> Succ(th[t].pred)])

Unlink(t) ==
    /\ th[t].pc = "unlink" /\ Goto(t, "point back")
    /\ mem' = [mem EXCEPT ![th[t].pred].next = mem[th[t].succ].next]

PointBack(t) ==
    /\ th[t].pc = "point back" /\ Goto(t, "unlock right")
    /\ mem' = [mem EXCEPT ![th[t].succ].next = <<th[t].pred, 0>>]

UnlockRight(t) ==
    /\ th[t].pc = "unlock right" /\ Goto(t, "unlock")
    /\ UNLOCK(th[t].succ)

Unlock(t) ==
    /\ th[t].pc = "unlock" /\ Return(t, "yes")
    /\ UNLOCK(th[t].pred)

Next ==
    \/ \E t \in Threads :
          \/ Begin(t) \/ Weak(t) \/ LookAgain(t) \/ LockPred(t) \/ StepOn(t)
          \/ Unchanged(t) \/ list_insert(t) \/ LockRight(t) \/ Unlink(t)
          \/ PointBack(t) \/ UnlockRight(t) \/ Unlock(t)
    \/ AllDone

Spec == Init /\ [][Next]_vars
===============================================================================
