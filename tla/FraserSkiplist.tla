---------------------------- MODULE FraserSkiplist ----------------------------
(***************************************************************************)
(* Fraser's skip list, src/src/skiplist-fraser/fraser.c.  A node is deleted *)
(* when its counter leaves 0 (marked here); then its links are marked, and  *)
(* searches unlink it.                                                      *)
(***************************************************************************)
EXTENDS SkipListSet

\* then: where a search returns to; new: the node an insert has linked, and lvl
\* the level it links it at; left_next or new_next is link.
Locals(l) ==
    [pc |-> l, then |-> l, i |-> levelmax - 1, left |-> head, right |-> head,
     link |-> <<head, 0>>, toplevel |-> 0, new |-> head, lvl |-> 1,
     preds |-> [j \in Levels |-> head], succs |-> [j \in Levels |-> head]]

Init == SkipInit

Marked(l) == l[2] = 1
NextOf(n, i) == mem[n].next[i]

CAS(n, i, old, m) == NextOf(n, i) = old /\ SetLink(n, i, m)
CASFails(n, i, old) == NextOf(n, i) # old /\ mem' = mem

\* A search starts at the top of the list, and goes on at l when it is done.
SearchFor(t, l) ==
    On(t, [th[t] EXCEPT !.pc = "enter", !.then = l, !.i = levelmax - 1,
                        !.left = head])
Retry(t) == SearchFor(t, th[t].then)

\* left->next[i].
Enter(t) ==
    LET link == NextOf(th[t].left, th[t].i)
    IN /\ th[t].pc = "enter"
       /\ IF Marked(link) THEN Retry(t)
          ELSE On(t, [th[t] EXCEPT !.pc = "walk", !.link = link, !.right = link[1]])
       /\ UNCHANGED mem

\* left_list[i] = left, right_list[i] = right, and down.
Down(t) ==
    LET i == th[t].i
        noted == [th[t] EXCEPT !.preds[i] = th[t].left, !.succs[i] = th[t].right]
    IN On(t, IF i = 0 THEN [noted EXCEPT !.pc = th[t].then]
             ELSE [noted EXCEPT !.pc = "enter", !.i = i - 1])

\* right->next[i]: pass a marked node, or one before the key, or stop.
Walk(t) ==
    LET right == th[t].right
        link == NextOf(right, th[t].i)
    IN /\ th[t].pc = "walk"
       /\ IF Marked(link) THEN On(t, [th[t] EXCEPT !.right = link[1]])
          ELSE IF Key(right) < req[t].key
          THEN On(t, [th[t] EXCEPT !.left = right, !.link = link, !.right = link[1]])
          ELSE IF th[t].link = <<right, 0>> THEN Down(t) ELSE Goto(t, "cut")
       /\ UNCHANGED mem

\* Unlink the marked nodes between left and right.
Cut(t) ==
    /\ th[t].pc = "cut"
    /\ \/ CAS(th[t].left, th[t].i, th[t].link, th[t].right) /\ Down(t)
       \/ CASFails(th[t].left, th[t].i, th[t].link) /\ Retry(t)

fraser_search(t) == Enter(t) \/ Walk(t) \/ Cut(t)

\* One level of mark_node_ptrs: its loop ends when the link is marked.
SetMark(n, i) == mem' = [mem EXCEPT ![n].next[i][2] = 1]

-----------------------------------------------------------------------------
\* get_rand_level.
Begin(t) ==
    /\ \E o \in Ops, k \in Keys :
          \E top \in IF o = "insert" THEN 1 .. levelmax ELSE {0} :
             Call(t, o, k, [Locals("enter") EXCEPT !.then = o, !.toplevel = top])
    /\ UNCHANGED mem

First(t) == th[t].succs[0]
IsThere(t) == Key(First(t)) = req[t].key
Deleted(n) == mem[n].marked

fraser_find(t) ==
    /\ th[t].pc = "find"
    /\ Return(t, IF IsThere(t) /\ ~Deleted(First(t)) THEN "yes" ELSE "no")
    /\ UNCHANGED mem

-----------------------------------------------------------------------------
\* fraser_remove.
Remove(t) ==
    /\ th[t].pc = "delete"
    /\ IF IsThere(t) /\ ~Deleted(First(t)) THEN Goto(t, "take") ELSE Return(t, "no")
    /\ UNCHANGED mem

Mine_Always(t) == TRUE
Mine(t) == ~Deleted(First(t))

\* ATOMIC_FETCH_AND_INC_FULL of deleted.
Take(t) ==
    /\ th[t].pc = "take"
    /\ mem' = [mem EXCEPT ![First(t)].marked = TRUE]
    /\ IF Mine(t)
       THEN On(t, [th[t] EXCEPT !.pc = "mark", !.i = mem[First(t)].toplevel - 1])
       ELSE Return(t, "no")

\* mark_node_ptrs, and the search after it: to unlink the node, or to try anew.
Mark(t) ==
    LET i == th[t].i
    IN /\ th[t].pc = "mark"
       /\ SetMark(First(t), i)
       /\ IF i > 0 THEN On(t, [th[t] EXCEPT !.i = i - 1])
          ELSE SearchFor(t, IF req[t].op = "delete" THEN "done" ELSE "insert")

Done(t) ==
    /\ th[t].pc = "done" /\ Return(t, "yes")
    /\ UNCHANGED mem

-----------------------------------------------------------------------------
\* fraser_insert.
Insert(t) ==
    /\ th[t].pc = "insert"
    /\ IF ~IsThere(t) THEN Goto(t, "link 0")
       ELSE IF Deleted(First(t))
       THEN On(t, [th[t] EXCEPT !.pc = "mark", !.i = mem[First(t)].toplevel - 1])
       ELSE Return(t, "no")
    /\ UNCHANGED mem

\* The node is in the set once it is linked at the lowest level.
Link0(t) ==
    /\ th[t].pc = "link 0"
    /\ \/ /\ NextOf(th[t].preds[0], 0) = <<First(t), 0>>
          /\ mem' = LinkedNew(node(req[t].key, th[t].toplevel, Links(th[t].succs)),
                              th[t].preds[0])
          /\ On(t, [th[t] EXCEPT !.pc = "raise", !.new = Fresh])
       \/ CASFails(th[t].preds[0], 0, <<First(t), 0>>) /\ SearchFor(t, "insert")

\* One level further; preds and succs are those of the last search.
Raise(t) ==
    LET i == th[t].lvl
        link == NextOf(th[t].new, i)
    IN /\ th[t].pc = "raise"
       /\ IF i >= th[t].toplevel \/ Marked(link) THEN Return(t, "yes")
          ELSE IF link[1] = th[t].succs[i] THEN Goto(t, "link")
          ELSE On(t, [th[t] EXCEPT !.pc = "refresh", !.link = link])
       /\ UNCHANGED mem

NextLevel(t) == On(t, [th[t] EXCEPT !.pc = "raise", !.lvl = @ + 1])

\* The pointer is stale; give the level up if it has been marked.
Refresh(t) ==
    LET i == th[t].lvl
    IN /\ th[t].pc = "refresh"
       /\ \/ CAS(th[t].new, i, th[t].link, th[t].succs[i]) /\ Goto(t, "link")
          \/ CASFails(th[t].new, i, th[t].link) /\ NextLevel(t)

\* For a successor with the same key the code compares with succ->next, which is
\* an array, so with an address that no link has: the comparison fails.
Link(t) ==
    LET i == th[t].lvl
        succ == th[t].succs[i]
    IN /\ th[t].pc = "link"
       /\ \/ /\ Key(succ) # req[t].key
             /\ CAS(th[t].preds[i], i, <<succ, 0>>, th[t].new) /\ NextLevel(t)
          \/ /\ Key(succ) = req[t].key \/ NextOf(th[t].preds[i], i) # <<succ, 0>>
             /\ SearchFor(t, "raise") /\ UNCHANGED mem

Next ==
    \/ \E t \in Threads :
          \/ Begin(t) \/ fraser_search(t) \/ fraser_find(t)
          \/ Remove(t) \/ Take(t) \/ Mark(t) \/ Done(t)
          \/ Insert(t) \/ Link0(t) \/ Raise(t) \/ Refresh(t) \/ Link(t)
    \/ AllDone

Spec == Init /\ [][Next]_vars
===============================================================================
