------------------------------- MODULE BstHowley -------------------------------
(***************************************************************************)
(* The non-blocking internal search tree of Howley and Jones,              *)
(* src/src/bst-howley/bst_howley.c.  A node's op field says what happens to *)
(* the node: an edge of it changes, its key is replaced, or it is removed.  *)
(* Values go with the keys and are left out.                               *)
(***************************************************************************)
EXTENDS ConcurrentSet

NULL == 0 - 1

\* An op field: a record of an operation, and STATE_OP_...
Op(o, s) == [op |-> o, state |-> s]
NONE(o)     == Op(o, "NONE")
CHILDCAS(o) == Op(o, "CHILDCAS")
RELOCATE(o) == Op(o, "RELOCATE")
MARK(o)     == Op(o, "MARK")

\* A link; a null one may say whose place was there (SETNULL).
ref(n) == [to |-> n, null |-> n = NULL]
SETNULL(n) == [to |-> n, null |-> TRUE]

create_node(k) == [key |-> k, op |-> NONE(NULL), left |-> ref(NULL),
                   right |-> ref(NULL)]

root == 0

\* bst_initialize: the tree is to the right of the root.
Init ==
    /\ SetInit({}, Len(Fill))
    /\ mem = root :> create_node(0)

\* What bst_find keeps, and of a removal with two children the node (target);
\* h is the helping that is going on, and then what comes after it.
NoHelp == [op |-> NULL, pred |-> NULL, pred_op |-> NONE(NULL), curr |-> NULL,
           link |-> <<>>, seen |-> "none"]

Start ==
    [pc |-> "find", aux |-> root, pred |-> root, pred_op |-> NONE(NULL),
     curr |-> root, curr_op |-> NONE(NULL), next |-> ref(NULL),
     last_right |-> root, last_right_op |-> NONE(NULL), result |-> "R",
     target |-> root, target_op |-> NONE(NULL), h |-> NoHelp, then |-> "find"]

Begin(t) ==
    /\ \E o \in Ops, k \in Keys : Call(t, o, k, Start)
    /\ UNCHANGED mem

Again(t) == On(t, Start)
Retry(t) == Goto(t, "find")

\* CAS_PTR of a field of a node or of a record.
CAS(n, f, old, new) ==
    mem' = IF mem[n][f] = old THEN [mem EXCEPT ![n][f] = new] ELSE mem

-----------------------------------------------------------------------------
(* bst_find.                                                               *)

HelpChildCas(t, o, dest, then) ==
    On(t, [th[t] EXCEPT !.pc = "child cas", !.then = then,
                        !.h = [NoHelp EXCEPT !.op = o, !.curr = dest]])

HelpMarked(t, s, then) == On(t, [s EXCEPT !.pc = "marked", !.then = then])

\* bst_help.
Help(t, pred, pred_op, curr, curr_op) ==
    LET s == [th[t] EXCEPT !.pc = "relocate", !.then = "find",
                           !.h = [NoHelp EXCEPT !.op = curr_op.op, !.pred = pred,
                                                !.pred_op = pred_op, !.curr = curr]]
    IN CASE curr_op.state = "CHILDCAS" -> HelpChildCas(t, curr_op.op, curr, "find")
         [] curr_op.state = "RELOCATE" -> On(t, s)
         [] curr_op.state = "MARK"     -> HelpMarked(t, s, "find")

\* From aux_root on: ABORT if that is not the root and something happens to it.
Find(t) ==
    LET s == th[t]
        o == mem[s.aux].op
    IN /\ s.pc = "find"
       /\ IF o.state = "NONE"
          THEN On(t, [s EXCEPT !.pc = "first", !.curr = s.aux, !.curr_op = o,
                               !.last_right = s.aux, !.last_right_op = o,
                               !.result = "R"])
          ELSE IF s.aux = root THEN HelpChildCas(t, o.op, root, "find")
          ELSE Again(t)
       /\ UNCHANGED mem

First(t) ==
    /\ th[t].pc = "first"
    /\ On(t, [th[t] EXCEPT !.pc = "loop", !.next = mem[th[t].curr].right])
    /\ UNCHANGED mem

Loop(t) ==
    LET s == th[t]
        next == s.next.to
        o == mem[next].op
    IN /\ s.pc = "loop" /\ ~s.next.null
       /\ IF o.state = "NONE"
          THEN On(t, [s EXCEPT !.pc = "compare", !.pred = s.curr,
                               !.pred_op = s.curr_op, !.curr = next, !.curr_op = o])
          ELSE Help(t, s.curr, s.curr_op, next, o)
       /\ UNCHANGED mem

Compare(t) ==
    LET s == th[t]
        k == mem[s.curr].key
    IN /\ s.pc = "compare"
       /\ On(t, IF req[t].key < k THEN [s EXCEPT !.pc = "left", !.result = "L"]
                ELSE IF req[t].key > k
                THEN [s EXCEPT !.pc = "right", !.result = "R",
                               !.last_right = s.curr, !.last_right_op = s.curr_op]
                ELSE [s EXCEPT !.pc = "same op", !.result = "found"])
       /\ UNCHANGED mem

Descend(t) ==
    LET n == mem[th[t].curr]
    IN /\ th[t].pc \in {"left", "right"}
       /\ On(t, [th[t] EXCEPT !.pc = "loop", !.next = IF th[t].pc = "left" THEN n.left
                                                                         ELSE n.right])
       /\ UNCHANGED mem

\* A key that was not found may have moved up to where the search turned right.
Moved_Never(s) == FALSE
Moved(s) == mem[s.last_right].op # s.last_right_op

SameLastRight(t) ==
    /\ th[t].pc = "loop" /\ th[t].next.null
    /\ IF Moved(th[t]) THEN Retry(t) ELSE Goto(t, "same op")
    /\ UNCHANGED mem

SameOp(t) ==
    /\ th[t].pc = "same op"
    /\ IF mem[th[t].curr].op # th[t].curr_op THEN Retry(t)
       ELSE Goto(t, IF th[t].aux = root THEN "at" ELSE "replace")
    /\ UNCHANGED mem

At(t, o) == th[t].pc = "at" /\ req[t].op = o
Here(t) == th[t].result = "found"

\* bst_contains, and updates that find nothing to do.
Answer(t) ==
    /\ \/ At(t, "find")
       \/ At(t, "insert") /\ Here(t)
       \/ At(t, "delete") /\ ~Here(t)
    /\ Return(t, IF req[t].op = "find" /\ Here(t) THEN "yes" ELSE "no")
    /\ UNCHANGED mem

-----------------------------------------------------------------------------
(* bst_add and bst_help_child_cas.                                         *)

Side(t) == IF th[t].result = "L" THEN "left" ELSE "right"

ReadOld(t) ==
    /\ At(t, "insert") /\ ~Here(t)
    /\ On(t, [th[t] EXCEPT !.pc = "add", !.next = mem[th[t].curr][Side(t)]])
    /\ UNCHANGED mem

child_cas_op(side, old, new) == [side |-> side, expected |-> old, update |-> new]

Add(t) ==
    LET s == th[t]
        new == Fresh
    IN /\ s.pc = "add"
       /\ IF mem[s.curr].op # s.curr_op THEN Again(t) /\ UNCHANGED mem
          ELSE /\ mem' = new :> create_node(req[t].key)
                         @@ (new + 1) :> child_cas_op(Side(t), s.next, ref(new))
                         @@ [mem EXCEPT ![s.curr].op = CHILDCAS(new + 1)]
               /\ HelpChildCas(t, new + 1, s.curr, "return")

After(t) == Goto(t, th[t].then)

bst_help_child_cas(t) ==
    LET h == th[t].h
        o == mem[h.op]
    IN \/ /\ th[t].pc = "child cas" /\ Goto(t, "unflag")
          /\ CAS(h.curr, o.side, o.expected, o.update)
       \/ /\ th[t].pc = "unflag" /\ After(t)
          /\ CAS(h.curr, "op", CHILDCAS(h.op), NONE(h.op))

Yes(t) ==
    /\ th[t].pc = "return" /\ Return(t, "yes")
    /\ UNCHANGED mem

-----------------------------------------------------------------------------
(* bst_remove.                                                             *)

\* Has the node two children?
Right(t) ==
    /\ At(t, "delete") /\ Here(t)
    /\ Goto(t, IF mem[th[t].curr].right.null THEN "mark" ELSE "left?")
    /\ UNCHANGED mem

Left(t) ==
    LET s == th[t]
    IN /\ s.pc = "left?"
       /\ IF mem[s.curr].left.null THEN Goto(t, "mark")
          ELSE On(t, [s EXCEPT !.pc = "find", !.aux = s.curr, !.target = s.curr,
                               !.target_op = s.curr_op])
       /\ UNCHANGED mem

\* If not, it is marked and its child moves up, unless something has happened.
Mark(t) ==
    LET s == th[t]
    IN /\ s.pc = "mark"
       /\ IF mem[s.curr].op # s.curr_op THEN Again(t)
          ELSE HelpMarked(t, [s EXCEPT !.h = [NoHelp EXCEPT
                 !.pred = s.pred, !.pred_op = s.pred_op, !.curr = s.curr]], "return")
       /\ CAS(s.curr, "op", s.curr_op, MARK(s.curr_op.op))

\* If it has, the next key, which bst_find has looked for from the node on, is
\* to take its place.
Replace(t) ==
    /\ th[t].pc = "replace"
    /\ IF mem[th[t].target].op # th[t].target_op THEN Again(t)
       ELSE On(t, [th[t] EXCEPT !.pc = "start relocation",
                                !.next = mem[th[t].curr].key])
    /\ UNCHANGED mem

relocate_op(s, k) ==
    [state |-> "ONGOING", dest |-> s.target, dest_op |-> s.target_op,
     remove_key |-> k, replace_key |-> s.next]

StartRelocation(t) ==
    LET s == th[t]
    IN /\ s.pc = "start relocation"
       /\ IF mem[s.curr].op # s.curr_op THEN Again(t) /\ UNCHANGED mem
          ELSE /\ mem' = Fresh :> relocate_op(s, req[t].key)
                         @@ [mem EXCEPT ![s.curr].op = RELOCATE(Fresh)]
               /\ On(t, [s EXCEPT !.pc = "relocate", !.then = "return",
                                  !.h = [NoHelp EXCEPT !.op = Fresh, !.pred = s.pred,
                                           !.pred_op = s.pred_op, !.curr = s.curr]])

-----------------------------------------------------------------------------
(* bst_help_relocate and bst_help_marked.                                  *)

See(t, l, seen) == On(t, [th[t] EXCEPT !.pc = l, !.h.seen = seen])

\* The flag of dest decides.
Decide(t) ==
    LET me == th[t].h.op
        o == mem[me]
        dest == mem[o.dest].op
    IN \/ /\ th[t].pc = "relocate"
          /\ See(t, IF o.state = "ONGOING" THEN "flag dest" ELSE "key", o.state)
          /\ UNCHANGED mem
       \/ /\ th[t].pc = "flag dest"
          /\ Goto(t, IF dest \in {o.dest_op, RELOCATE(me)} THEN "succeed" ELSE "fail")
          /\ CAS(o.dest, "op", o.dest_op, RELOCATE(me))
       \/ /\ th[t].pc = "succeed" /\ See(t, "key", "SUCCESSFUL")
          /\ CAS(me, "state", "ONGOING", "SUCCESSFUL")
       \/ /\ th[t].pc = "fail" /\ See(t, "key", o.state)
          /\ CAS(me, "state", "ONGOING", "FAILED")

Succeeded(t) == th[t].h.seen = "SUCCESSFUL"

\* dest gets its new key.
MoveKey(t) ==
    LET o == mem[th[t].h.op]
    IN \/ /\ th[t].pc = "key"
          /\ Goto(t, IF Succeeded(t) THEN "unflag dest" ELSE "curr")
          /\ IF Succeeded(t) THEN CAS(o.dest, "key", o.remove_key, o.replace_key)
                             ELSE UNCHANGED mem
       \/ /\ th[t].pc = "unflag dest" /\ Goto(t, "curr")
          /\ CAS(o.dest, "op", RELOCATE(th[t].h.op), NONE(th[t].h.op))

\* The owner of a relocation that has failed starts again.
Finish(t, ok) == IF ok \/ th[t].then # "return" THEN Goto(t, th[t].then) ELSE Again(t)

\* The node the key came from is marked, or released.
MarkSource(t) ==
    LET h == th[t].h
        o == mem[h.op]
        pred_op == IF o.dest = h.pred THEN NONE(h.op) ELSE h.pred_op
    IN /\ th[t].pc = "curr"
       /\ IF o.dest = h.curr THEN Finish(t, Succeeded(t)) /\ UNCHANGED mem
          ELSE /\ CAS(h.curr, "op", RELOCATE(h.op),
                      IF Succeeded(t) THEN MARK(h.op) ELSE NONE(h.op))
               /\ IF Succeeded(t)
                  THEN On(t, [th[t] EXCEPT !.pc = "marked", !.h.pred_op = pred_op])
                  ELSE Finish(t, FALSE)

\* What a marked node leaves in its place; its links do not change any more.
Heir(n) ==
    IF ~mem[n].left.null THEN mem[n].left
    ELSE IF ~mem[n].right.null THEN mem[n].right ELSE SETNULL(n)

bst_help_marked(t) ==
    LET h == th[t].h
        side == IF mem[h.pred].left = ref(h.curr) THEN "left" ELSE "right"
    IN \/ /\ th[t].pc = "marked"
          /\ On(t, [th[t] EXCEPT !.pc = "move up", !.h.link =
                      child_cas_op(side, ref(h.curr), Heir(h.curr))])
          /\ UNCHANGED mem
       \/ /\ th[t].pc = "move up"
          /\ IF mem[h.pred].op # h.pred_op THEN After(t) /\ UNCHANGED mem
             ELSE /\ mem' = Fresh :> h.link
                            @@ [mem EXCEPT ![h.pred].op = CHILDCAS(Fresh)]
                  /\ HelpChildCas(t, Fresh, h.pred, th[t].then)

Next ==
    \/ \E t \in Threads :
          \/ Begin(t) \/ Find(t) \/ First(t) \/ Loop(t) \/ Compare(t) \/ Descend(t)
          \/ SameLastRight(t) \/ SameOp(t) \/ Answer(t)
          \/ ReadOld(t) \/ Add(t) \/ bst_help_child_cas(t) \/ Yes(t)
          \/ Right(t) \/ Left(t) \/ Mark(t) \/ Replace(t) \/ StartRelocation(t)
          \/ Decide(t) \/ MoveKey(t) \/ MarkSource(t) \/ bst_help_marked(t)
    \/ AllDone

Spec == Init /\ [][Next]_vars
===============================================================================
