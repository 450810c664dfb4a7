--------------------------- MODULE HerlihyLfSkiplist ---------------------------
(***************************************************************************)
(* The lock-free skip list of src/src/skiplist-herlihy_lf/herlihy.c: the    *)
(* searches of finds and updates pass by marks and change nothing; a        *)
(* deletion, or an insertion that fails higher up, has fraser_search clean, *)
(* which is that of skiplist-fraser.                                        *)
(***************************************************************************)
EXTENDS SkipListSet

Fraser == INSTANCE FraserSkiplist

Init == SkipInit

Begin(t) ==
    /\ \E o \in Ops, k \in Keys :
          Call(t, o, k, [Fraser!Locals("down") EXCEPT !.then = o])
    /\ UNCHANGED mem

IsThere(t) == Key(th[t].right) = req[t].key
IsMarked(n, i) == Fraser!Marked(mem[n].next[i])

\* fraser_search_no_cleanup and .._succs, and fraser_left_search: left->next[i].
StepDown(t) ==
    /\ th[t].pc = "down"
    /\ On(t, [th[t] EXCEPT !.pc = "look", !.right = Succ(th[t].left, th[t].i)])
    /\ UNCHANGED mem

\* The end of a level; fraser_left_search leaves when it sees the key.
LevelDone(t) ==
    LET i == th[t].i
        noted == [th[t] EXCEPT !.preds[i] = th[t].left, !.succs[i] = th[t].right]
    IN IF i = 0 \/ (req[t].op = "find" /\ IsThere(t))
       THEN On(t, [noted EXCEPT !.pc = th[t].then])
       ELSE On(t, [noted EXCEPT !.pc = "down", !.i = i - 1])

StopAtMarked(t) == FALSE
PassBy(t) == IsMarked(th[t].right, th[t].i)

Look(t) ==
    /\ th[t].pc = "look"
    /\ IF PassBy(t) THEN Goto(t, "step")
       ELSE IF Key(th[t].right) >= req[t].key THEN LevelDone(t)
       ELSE On(t, [th[t] EXCEPT !.pc = "step", !.left = th[t].right])
    /\ UNCHANGED mem

Step(t) ==
    /\ th[t].pc = "step"
    /\ On(t, [th[t] EXCEPT !.pc = "look", !.right = Succ(th[t].right, th[t].i)])
    /\ UNCHANGED mem

fraser_find(t) ==
    /\ th[t].pc = "find" /\ Return(t, IF IsThere(t) THEN "yes" ELSE "no")
    /\ UNCHANGED mem

-----------------------------------------------------------------------------
\* fraser_remove.
Remove(t) ==
    /\ th[t].pc = "delete"
    /\ IF IsThere(t)
       THEN On(t, [th[t] EXCEPT !.pc = "mark", !.i = mem[th[t].right].toplevel - 1])
       ELSE Return(t, "no")
    /\ UNCHANGED mem

\* mark_node_ptrs: the one who marks level 0 has deleted the node.
Mark(t) ==
    LET i == th[t].i
        already == IsMarked(th[t].right, i)
    IN /\ th[t].pc = "mark"
       /\ Fraser!SetMark(th[t].right, i)
       /\ IF i > 0 THEN On(t, [th[t] EXCEPT !.i = i - 1])
          ELSE IF already THEN Return(t, "no") ELSE Fraser!SearchFor(t, "done")

Done(t) ==
    /\ th[t].pc = "done" /\ Return(t, "yes")
    /\ UNCHANGED mem

-----------------------------------------------------------------------------
\* fraser_insert: a new node, of a level drawn anew, for each try.
Insert(t) ==
    /\ th[t].pc = "insert"
    /\ IF IsThere(t) THEN Return(t, "no")
       ELSE \E top \in 1 .. levelmax :
               On(t, [th[t] EXCEPT !.pc = "link 0", !.toplevel = top])
    /\ UNCHANGED mem

Link0(t) ==
    LET succ == <<th[t].succs[0], 0>>
        pred == th[t].preds[0]
    IN /\ th[t].pc = "link 0"
       /\ \/ /\ mem[pred].next[0] = succ
             /\ LET new == node(req[t].key, th[t].toplevel, Links(th[t].succs))
                IN mem' = LinkedNew(new, pred)
             /\ On(t, [th[t] EXCEPT !.pc = "raise", !.new = Fresh])
          \/ /\ Fraser!CASFails(pred, 0, succ)
             /\ On(t, [Fraser!Locals("down") EXCEPT !.then = "insert"])

Raise(t) ==
    /\ th[t].pc = "raise"
    /\ IF th[t].lvl >= th[t].toplevel \/ IsMarked(th[t].new, th[t].lvl)
       THEN Return(t, "yes") ELSE Goto(t, "link")
    /\ UNCHANGED mem

\* The link of the new node itself stays as the first search found it.
Link(t) ==
    LET i == th[t].lvl
        succ == <<th[t].succs[i], 0>>
    IN /\ th[t].pc = "link"
       /\ \/ /\ Fraser!CAS(th[t].preds[i], i, succ, th[t].new)
             /\ On(t, [th[t] EXCEPT !.pc = "raise", !.lvl = i + 1])
          \/ Fraser!CASFails(th[t].preds[i], i, succ) /\ Fraser!SearchFor(t, "raise")

Next ==
    \/ \E t \in Threads :
          \/ Begin(t) \/ StepDown(t) \/ Look(t) \/ Step(t) \/ fraser_find(t)
          \/ Fraser!fraser_search(t) \/ Remove(t) \/ Mark(t) \/ Done(t)
          \/ Insert(t) \/ Link0(t) \/ Raise(t) \/ Link(t)
    \/ AllDone

Spec == Init /\ [][Next]_vars
===============================================================================
