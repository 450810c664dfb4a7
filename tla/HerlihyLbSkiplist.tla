--------------------------- MODULE HerlihyLbSkiplist ---------------------------
(***************************************************************************)
(* The optimistic skip list, src/src/skiplist-herlihy_lb/herlihy.c, with    *)
(* one lock per node.                                                       *)
(***************************************************************************)
EXTENDS SkipListSet

None == -1
At(l, lvl, pred) ==
    [pc |-> l, i |-> lvl, pred |-> pred, found |-> None, toplevel |-> 0,
     preds |-> [j \in Levels |-> head], succs |-> [j \in Levels |-> head],
     victim |-> None]   \* node_todel, once it is locked

Init == SkipInit

\* get_rand_level, once for an insert.
Begin(t) ==
    /\ \E o \in Ops, k \in Keys :
          \E top \in IF o = "insert" THEN 1 .. levelmax ELSE {0} :
             Call(t, o, k, [At("search", levelmax - 1, head) EXCEPT !.toplevel = top])
    /\ UNCHANGED mem

\* The next round of the loop of an update.
Retry(t) ==
    On(t, [th[t] EXCEPT !.pc = "search", !.i = levelmax - 1, !.pred = head,
                        !.found = None])

\* optimistic_search and optimistic_left_search read pred->next[i].
Search(t) ==
    LET i == th[t].i
        curr == Succ(th[t].pred, i)
        here == Key(curr) = req[t].key
        noted == [th[t] EXCEPT !.preds[i] = th[t].pred, !.succs[i] = curr,
                    !.found = IF th[t].found = None /\ here THEN i ELSE @]
    IN /\ th[t].pc = "search"
       /\ IF Key(curr) < req[t].key THEN On(t, [th[t] EXCEPT !.pred = curr])
          ELSE IF i = 0 \/ (req[t].op = "find" /\ here)
          THEN On(t, [noted EXCEPT !.pc = req[t].op])
          ELSE On(t, [noted EXCEPT !.i = i - 1])
       /\ UNCHANGED mem

FoundNode(t) == mem[th[t].succs[th[t].found]]

\* optimistic_find: marked, and then fullylinked.
Find(t) ==
    /\ th[t].pc = "find"
    /\ IF th[t].found = None \/ FoundNode(t).marked
       THEN Return(t, "no") ELSE Goto(t, "find linked")
    /\ UNCHANGED mem

FindLinked(t) ==
    /\ th[t].pc = "find linked"
    /\ Return(t, IF FoundNode(t).fullylinked THEN "yes" ELSE "no")
    /\ UNCHANGED mem

-----------------------------------------------------------------------------
\* optimistic_insert: the key is there, or is being deleted, or is not there.
Insert(t) ==
    /\ th[t].pc = "insert"
    /\ IF th[t].found = None THEN On(t, [th[t] EXCEPT !.pc = "lock", !.i = 0])
       ELSE IF FoundNode(t).marked THEN Retry(t) ELSE Goto(t, "await link")
    /\ UNCHANGED mem

AwaitLink(t) ==
    /\ th[t].pc = "await link" /\ FoundNode(t).fullylinked
    /\ Return(t, "no")
    /\ UNCHANGED mem

\* The loop that locks and validates the predecessors, of inserts and deletes.
Lock(t) ==
    LET i == th[t].i
        pred == th[t].preds[i]
    IN /\ th[t].pc = "lock" /\ Goto(t, "validate")
       /\ IF i > 0 /\ pred = th[t].preds[i - 1] THEN UNCHANGED mem
          ELSE LOCK(t, pred)

ValidNoMarks(t, pred, succ, i) == Succ(pred, i) = succ
valid(t, pred, succ, i) ==
    /\ ~mem[pred].marked
    /\ req[t].op = "insert" => ~mem[succ].marked
    /\ Succ(pred, i) = succ

Locked(t) == {n \in DOMAIN mem : mem[n].lock = t}

Validate(t) ==
    LET i == th[t].i
    IN /\ th[t].pc = "validate"
       /\ IF valid(t, th[t].preds[i], th[t].succs[i], i)
          THEN IF i + 1 < th[t].toplevel
               THEN On(t, [th[t] EXCEPT !.pc = "lock", !.i = i + 1])
               ELSE IF req[t].op = "insert" THEN Goto(t, "link 0")
               ELSE Goto(t, "unlink")
          ELSE Goto(t, "unlock and retry")
       /\ UNCHANGED mem

\* unlock_levels; a marked node_todel stays locked.
UnlockAndRetry(t) ==
    /\ th[t].pc = "unlock and retry" /\ Retry(t)
    /\ UnlockAll(Locked(t) \ {th[t].victim})

Link0(t) ==
    LET new == node(req[t].key, th[t].toplevel, Links(th[t].succs))
    IN /\ th[t].pc = "link 0"
       /\ mem' = LinkedNew(new, th[t].preds[0])
       /\ On(t, [th[t] EXCEPT !.pc = "link", !.pred = Fresh, !.i = 1])

Link(t) ==
    LET i == th[t].i
    IN /\ th[t].pc = "link"
       /\ IF i < th[t].toplevel
          THEN /\ SetLink(th[t].preds[i], i, th[t].pred)
               /\ On(t, [th[t] EXCEPT !.i = i + 1])
          ELSE /\ mem' = [mem EXCEPT ![th[t].pred].fullylinked = TRUE]
               /\ Goto(t, "unlock, yes")

UnlockAndReturn(t) ==
    /\ th[t].pc = "unlock, yes" /\ Return(t, "yes")
    /\ UnlockAll(Locked(t))

-----------------------------------------------------------------------------
ok_to_delete(n, found) == n.fullylinked /\ n.toplevel - 1 = found /\ ~n.marked

\* optimistic_delete.
Delete(t) ==
    /\ th[t].pc = "delete"
    /\ IF th[t].victim # None THEN On(t, [th[t] EXCEPT !.pc = "lock", !.i = 0])
       ELSE IF th[t].found # None /\ ok_to_delete(FoundNode(t), th[t].found)
       THEN Goto(t, "lock victim")
       ELSE Return(t, "no")
    /\ UNCHANGED mem

LockVictim(t) ==
    LET n == th[t].succs[th[t].found]
    IN /\ th[t].pc = "lock victim" /\ LOCK(t, n)
       /\ On(t, [th[t] EXCEPT !.pc = "mark", !.victim = n,
                              !.toplevel = mem[n].toplevel])

Mark(t) ==
    LET n == th[t].victim
    IN /\ th[t].pc = "mark"
       /\ IF mem[n].marked THEN UNLOCK(n) /\ Return(t, "no")
          ELSE /\ mem' = [mem EXCEPT ![n].marked = TRUE]
               /\ On(t, [th[t] EXCEPT !.pc = "lock", !.i = 0])

\* From the top level down; i is the last level that was validated.
Unlink(t) ==
    LET i == th[t].i
    IN /\ th[t].pc = "unlink"
       /\ SetLink(th[t].preds[i], i, Succ(th[t].victim, i))
       /\ IF i = 0 THEN Goto(t, "unlock, yes") ELSE On(t, [th[t] EXCEPT !.i = i - 1])

Next ==
    \/ \E t \in Threads :
          \/ Begin(t) \/ Search(t) \/ Find(t) \/ FindLinked(t)
          \/ Insert(t) \/ AwaitLink(t) \/ Lock(t) \/ Validate(t)
          \/ UnlockAndRetry(t) \/ Link0(t) \/ Link(t) \/ UnlockAndReturn(t)
          \/ Delete(t) \/ LockVictim(t) \/ Mark(t) \/ Unlink(t)
    \/ AllDone

Spec == Init /\ [][Next]_vars
===============================================================================
