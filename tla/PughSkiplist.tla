----------------------------- MODULE PughSkiplist -----------------------------
(***************************************************************************)
(* Pugh's skip list, src/src/skiplist-pugh/pugh.c: levels are linked and    *)
(* unlinked one at a time, each under the lock of the node before.  A       *)
(* deleted node points back, at each level; insertions and deletions keep   *)
(* the lock of the node they insert or delete to the end.                   *)
(***************************************************************************)
EXTENDS SkipListSet

\* lvl: the level; node: the one inserted or deleted; then: where get_lock
\* returns to.
Locals(l) ==
    [pc |-> l, then |-> l, lvl |-> levelmax - 1, pred |-> head, node |-> head,
     toplevel |-> 0, update |-> [j \in Levels |-> head]]

Init == SkipInit

\* get_rand_level.
Begin(t) ==
    /\ \E o \in Ops, k \in Keys :
          \E top \in IF o = "insert" THEN 1 .. levelmax ELSE {0} :
             Call(t, o, k, [Locals("search") EXCEPT !.toplevel = top])
    /\ UNCHANGED mem

\* optimistic_find and the first loops of the updates: pred->next[lvl].
Search(t) ==
    LET i == th[t].lvl
        succ == Succ(th[t].pred, i)
        noted == [th[t] EXCEPT !.update[i] = th[t].pred]
    IN /\ th[t].pc = "search"
       /\ IF Key(succ) < req[t].key THEN On(t, [th[t] EXCEPT !.pred = succ])
          ELSE IF Key(succ) = req[t].key /\ req[t].op # "delete"
          THEN Return(t, IF req[t].op = "find" THEN "yes" ELSE "no")
          ELSE IF i > 0 THEN On(t, [noted EXCEPT !.lvl = i - 1])
          ELSE CASE req[t].op = "find" -> Return(t, "no")
                 [] req[t].op = "insert" ->
                      On(t, [noted EXCEPT !.pc = "weak", !.then = "insert"])
                 [] req[t].op = "delete" ->
                      On(t, [noted EXCEPT !.pc = "next", !.node = th[t].pred])
       /\ UNCHANGED mem

-----------------------------------------------------------------------------
\* get_lock(n, key, i), for l.
GetLock(t, n, i, l) ==
    On(t, [th[t] EXCEPT !.pc = "weak", !.pred = n, !.lvl = i, !.then = l])

Weak(t) ==
    LET succ == Succ(th[t].pred, th[t].lvl)
    IN /\ th[t].pc = "weak"
       /\ IF Key(succ) < req[t].key THEN On(t, [th[t] EXCEPT !.pred = succ])
          ELSE Goto(t, "lock")
       /\ UNCHANGED mem

Lock(t) ==
    /\ th[t].pc = "lock" /\ LOCK(t, th[t].pred)
    /\ Goto(t, "strong")

BehindPlace_Never(t) == FALSE
BehindPlace(t) == Key(Succ(th[t].pred, th[t].lvl)) < req[t].key

StepOn(t) ==
    /\ th[t].pc = "strong" /\ BehindPlace(t)
    /\ UNLOCK(th[t].pred)
    /\ On(t, [th[t] EXCEPT !.pc = "lock", !.pred = Succ(th[t].pred, th[t].lvl)])

There(t, l) == th[t].pc = "strong" /\ ~BehindPlace(t) /\ th[t].then = l

-----------------------------------------------------------------------------
\* optimistic_insert.
IsThere(t) ==
    /\ There(t, "insert") /\ Key(Succ(th[t].pred, 0)) = req[t].key
    /\ UNLOCK(th[t].pred) /\ Return(t, "no")

\* The new node is linked with its lock held.
Link0(t) ==
    LET new == [node(req[t].key, th[t].toplevel, mem[th[t].pred].next)
                  EXCEPT !.lock = t]
    IN /\ There(t, "insert") /\ Key(Succ(th[t].pred, 0)) # req[t].key
       /\ mem' = LinkedNew(new, th[t].pred)
       /\ On(t, [th[t] EXCEPT !.pc = "unlock pred", !.node = Fresh])

\* Its link at level lvl, and then the one of pred.
Link(t) ==
    LET i == th[t].lvl
    IN /\ There(t, "link") /\ Goto(t, "unlock pred")
       /\ mem' = [mem EXCEPT ![th[t].node].next[i] = mem[th[t].pred].next[i],
                             ![th[t].pred].next[i] = <<th[t].node, 0>>]

\* A level up for an insertion, a level down for a deletion.
UnlockPred(t) ==
    LET i == IF req[t].op = "insert" THEN th[t].lvl + 1 ELSE th[t].lvl - 1
    IN /\ th[t].pc = "unlock pred" /\ UNLOCK(th[t].pred)
       /\ IF i \in 0 .. th[t].toplevel - 1
          THEN GetLock(t, th[t].update[i], i,
                       IF req[t].op = "insert" THEN "link" ELSE "unlink")
          ELSE Goto(t, "unlock node")

UnlockNode(t) ==
    /\ th[t].pc = "unlock node" /\ UNLOCK(th[t].node)
    /\ Return(t, "yes")

-----------------------------------------------------------------------------
\* optimistic_delete: the loop that locks the node to delete.
NextNode(t) ==
    LET succ == Succ(th[t].node, 0)
    IN /\ th[t].pc = "next"
       /\ IF Key(succ) > req[t].key THEN Return(t, "no")
          ELSE On(t, [th[t] EXCEPT !.pc = "lock node", !.node = succ])
       /\ UNCHANGED mem

LockNode(t) ==
    /\ th[t].pc = "lock node" /\ LOCK(t, th[t].node)
    /\ Goto(t, "check node")

is_garbage(n) == Key(n) > Key(Succ(n, 0))

CheckNode(t) ==
    LET n == th[t].node
    IN /\ th[t].pc = "check node"
       /\ IF is_garbage(n) \/ Key(n) # req[t].key
          THEN UNLOCK(n) /\ Goto(t, "next")
          ELSE LET i == mem[n].toplevel - 1
               IN /\ On(t, [th[t] EXCEPT !.pc = "weak", !.then = "unlink",
                              !.lvl = i, !.pred = th[t].update[i],
                              !.toplevel = mem[n].toplevel])
                  /\ UNCHANGED mem

Unlink(t) ==
    /\ There(t, "unlink") /\ Goto(t, "reverse")
    /\ SetLink(th[t].pred, th[t].lvl, Succ(th[t].node, th[t].lvl))

Reverse(t) ==
    /\ th[t].pc = "reverse" /\ Goto(t, "unlock pred")
    /\ SetLink(th[t].node, th[t].lvl, th[t].pred)

Next ==
    \/ \E t \in Threads :
          \/ Begin(t) \/ Search(t) \/ Weak(t) \/ Lock(t) \/ StepOn(t)
          \/ IsThere(t) \/ Link0(t) \/ Link(t) \/ UnlockPred(t) \/ UnlockNode(t)
          \/ NextNode(t) \/ LockNode(t) \/ CheckNode(t) \/ Unlink(t) \/ Reverse(t)
    \/ AllDone

Spec == Init /\ [][Next]_vars
===============================================================================
