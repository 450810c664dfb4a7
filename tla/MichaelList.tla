------------------------------ MODULE MichaelList ------------------------------
(***************************************************************************)
(* Michael's list, src/src/linkedlist-michael/michael.c: a search unlinks   *)
(* marked nodes one by one and starts over when the list has changed under  *)
(* it.  And src/src/linkedlist-harris_opt/harris_opt.c (Opt), the same but  *)
(* that a search never starts over, whatever it finds changed, and finds    *)
(* pass by marks and unlink nothing; the lists over QSBR are made from it.  *)
(***************************************************************************)
EXTENDS ListSet

\* list_search, from right_node = head->next on.
Enter(t) ==
    /\ th[t].pc = "search"
    /\ On(t, Locals("validate", head, Succ(head), <<head, 0>>))
    /\ UNCHANGED mem

InPlace(t) == mem[Left(t)].next = <<Right(t), 0>>

Validate(t) ==
    /\ th[t].pc = "validate"
    /\ IF InPlace(t) THEN Goto(t, "look") ELSE Again(t)
    /\ UNCHANGED mem

Look(t) ==
    /\ th[t].pc = "look"
    /\ IF Marked(mem[Right(t)].next) THEN Goto(t, "delete_right")
       ELSE IF Key(Right(t)) >= req[t].key THEN Goto(t, "found")
       ELSE On(t, [th[t] EXCEPT !.pc = "step", !.left = Right(t)])
    /\ UNCHANGED mem

\* physical_delete_right within the search; right_node, marked, keeps its link.
DeleteRight(t) ==
    LET next == Unmarked(mem[Right(t)].next)
    IN /\ th[t].pc = "delete_right"
       /\ \/ CAS(Left(t), <<Right(t), 0>>, next) /\ Goto(t, "step")
          \/ CASFails(Left(t), <<Right(t), 0>>) /\ Again(t)

Step(t) ==
    /\ th[t].pc = "step"
    /\ On(t, [th[t] EXCEPT !.pc = "validate", !.right = Succ(Right(t))])
    /\ UNCHANGED mem

michael_find(t) ==
    /\ Found(t, "find")
    /\ Return(t, IF IsThere(t) /\ ~Marked(mem[Right(t)].next)
                 THEN "yes" ELSE "no")
    /\ UNCHANGED mem

michael_insert(t) == LinkNew(t)

\* michael_delete.
ReadNext(t) ==
    /\ Found(t, "delete") /\ IsThere(t)
    /\ On(t, [th[t] EXCEPT !.pc = "mark", !.link = Unmarked(mem[Right(t)].next)])
    /\ UNCHANGED mem

Mark(t) == MarkRight(t, "unlink")

physical_delete_right(t) ==
    LET next == Unmarked(mem[Right(t)].next)
    IN /\ th[t].pc = "unlink" /\ Return(t, "yes")
       /\ CAS(Left(t), <<Right(t), 0>>, next) \/ CASFails(Left(t), <<Right(t), 0>>)

Next ==
    \/ \E t \in Threads :
          \/ BeginSearch(t) \/ Enter(t) \/ Validate(t) \/ Look(t) \/ DeleteRight(t)
          \/ Step(t) \/ michael_find(t) \/ NothingToDo(t) \/ michael_insert(t)
          \/ ReadNext(t) \/ Mark(t) \/ physical_delete_right(t)
    \/ AllDone

Spec == Init /\ [][Next]_vars
-----------------------------------------------------------------------------
(* linkedlist-harris_opt.                                                   *)

\* list_search; of harris_find the same with left_node left alone.
OptEnter(t) ==
    /\ th[t].pc = "search"
    /\ On(t, Locals(IF req[t].op = "find" THEN "pass" ELSE "look",
                    head, Succ(head), <<head, 0>>))
    /\ UNCHANGED mem

\* physical_delete_right; the search goes on whether it succeeds or not.
OptDeleteRight(t) ==
    LET next == Unmarked(mem[Right(t)].next)
    IN /\ th[t].pc = "delete_right" /\ Goto(t, "step")
       /\ CAS(Left(t), <<Right(t), 0>>, next) \/ CASFails(Left(t), <<Right(t), 0>>)

OptStep(t) ==
    /\ th[t].pc = "step"
    /\ On(t, [th[t] EXCEPT !.pc = "look", !.right = Succ(Right(t))])
    /\ UNCHANGED mem

Pass(t) ==
    /\ th[t].pc = "pass" /\ Key(Right(t)) < req[t].key
    /\ On(t, [th[t] EXCEPT !.right = Succ(Right(t))])
    /\ UNCHANGED mem

IgnoreMark(t) == IsThere(t)
IsIn(t) == IsThere(t) /\ ~Marked(mem[Right(t)].next)

harris_find(t) ==
    /\ th[t].pc = "pass" /\ Key(Right(t)) >= req[t].key
    /\ Return(t, IF IsIn(t) THEN "yes" ELSE "no")
    /\ UNCHANGED mem

harris_insert(t) == LinkNew(t)

harris_delete(t) == ReadNext(t) \/ Mark(t) \/ physical_delete_right(t)

OptNext ==
    \/ \E t \in Threads :
          \/ BeginSearch(t) \/ OptEnter(t) \/ Look(t) \/ OptDeleteRight(t)
          \/ OptStep(t) \/ Pass(t) \/ harris_find(t) \/ NothingToDo(t)
          \/ harris_insert(t) \/ harris_delete(t)
    \/ AllDone

OptSpec == Init /\ [][OptNext]_vars
===============================================================================
