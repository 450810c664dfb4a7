------------------------------ MODULE HarrisList ------------------------------
(***************************************************************************)
(* Harris's list, src/src/linkedlist/harris.c: harris_search unlinks whole  *)
(* runs of marked nodes, and finds go through it as well.                   *)
(***************************************************************************)
EXTENDS ListSet

\* The inner loop of harris_search, where right is t: one step reads t->next.
Walk(t) ==
    LET here == Right(t)
        link == mem[here].next
    IN /\ th[t].pc = "search"
       /\ IF here # head /\ ~Marked(link) /\ Key(here) >= req[t].key
          THEN Goto(t, "check")
          ELSE On(t, IF Marked(link) THEN [th[t] EXCEPT !.right = link[1]]
                     ELSE [th[t] EXCEPT !.left = here, !.right = link[1],
                                        !.link = link])
       /\ UNCHANGED mem

\* A search starts over, for the same caller.
SearchAgain(t) ==
    On(t, [Locals("search", head, head, <<head, 0>>) EXCEPT !.then = th[t].then])

\* It returns if right is not marked, by now.
ReturnIfUnmarked(t) ==
    IF Marked(mem[Right(t)].next) THEN SearchAgain(t) ELSE Goto(t, th[t].then)

CheckAdjacent(t) ==
    /\ th[t].pc = "check"
    /\ IF th[t].link = <<Right(t), 0>> THEN ReturnIfUnmarked(t)
       ELSE Goto(t, "unlink_run")
    /\ UNCHANGED mem

UnlinkRun(t) ==
    /\ th[t].pc = "unlink_run"
    /\ \/ /\ CAS(Left(t), th[t].link, <<Right(t), 0>>)
          /\ Goto(t, "check_again")
       \/ CASFails(Left(t), th[t].link) /\ SearchAgain(t)

CheckAgain(t) ==
    /\ th[t].pc = "check_again" /\ ReturnIfUnmarked(t)
    /\ UNCHANGED mem

harris_find(t) ==
    /\ Found(t, "find")
    /\ Return(t, IF IsThere(t) THEN "yes" ELSE "no")
    /\ UNCHANGED mem

harris_insert(t) == LinkNew(t)

\* harris_delete: right_node->next; marked already, another search.
Deleted_Ignored(n) == FALSE
Deleted(n) == Marked(mem[n].next)

ReadNext(t) ==
    LET next == mem[Right(t)].next
    IN /\ Found(t, "delete") /\ IsThere(t)
       /\ IF Deleted(Right(t)) THEN Again(t)
          ELSE On(t, [th[t] EXCEPT !.pc = "mark", !.link = next])
       /\ UNCHANGED mem

Mark(t) == MarkRight(t, "unlink")

\* It is unlinked here, or else by a search.
Unlink(t) ==
    /\ th[t].pc = "unlink"
    /\ \/ CAS(Left(t), <<Right(t), 0>>, th[t].link) /\ Return(t, "yes")
       \/ /\ CASFails(Left(t), <<Right(t), 0>>)
          /\ On(t, [Locals("search", head, head, <<head, 0>>) EXCEPT !.then = "done"])

Done(t) ==
    /\ th[t].pc = "done" /\ Return(t, "yes")
    /\ UNCHANGED mem

Next ==
    \/ \E t \in Threads :
          \/ BeginSearch(t) \/ Walk(t) \/ CheckAdjacent(t) \/ UnlinkRun(t)
          \/ CheckAgain(t) \/ harris_find(t) \/ NothingToDo(t)
          \/ harris_insert(t) \/ ReadNext(t) \/ Mark(t) \/ Unlink(t) \/ Done(t)
    \/ AllDone

Spec == Init /\ [][Next]_vars
===============================================================================
