-------------------------------- MODULE BstEllen --------------------------------
(***************************************************************************)
(* The non-blocking external search tree of Ellen et al.,                  *)
(* src/src/bst/bst_ellen.c.  An update flags the inner nodes it is about to *)
(* change with a record of what it does, and whoever meets a flag helps.    *)
(***************************************************************************)
EXTENDS ConcurrentSet

INF1 == 1 + Cardinality(Keys)
INF2 == INF1 + 1

NULL == 0 - 1
Sides == {0, 1}     \* 0 is left

\* An update field: a record of an operation (info_t), and a state.
CLEAN(op) == [op |-> op, state |-> "CLEAN"]
IFLAG(op) == [op |-> op, state |-> "IFLAG"]
DFLAG(op) == [op |-> op, state |-> "DFLAG"]
MARK(op)  == [op |-> op, state |-> "MARK"]

\* A leaf has no children; freed counts calls of ssmem_free.
create_node(k, children) ==
    [key |-> k, child |-> children, update |-> CLEAN(NULL), freed |-> 0]
leaf(n) == mem[n].child = <<>>

root == 0

\* bst_initialize.
Init ==
    /\ SetInit({}, Len(Fill))
    /\ mem = root :> create_node(INF2, 0 :> 1 @@ 1 :> 2)
          @@ 1 :> create_node(INF1, <<>>) @@ 2 :> create_node(INF2, <<>>)

\* What bst_search returns.  calls are the calls of bst_help and its kind that
\* have begun, the innermost first, and then is what comes after them.
Start ==
    [pc |-> "update", gp |-> NULL, p |-> NULL, l |-> root,
     gpupdate |-> CLEAN(NULL), pupdate |-> CLEAN(NULL),
     calls |-> <<>>, then |-> "search"]

Begin(t) ==
    /\ \E o \in Ops, k \in Keys : Call(t, o, k, Start)
    /\ UNCHANGED mem

Search(t) == On(t, Start)

-----------------------------------------------------------------------------
\* bst_search: the update field is read before the child.
ReadUpdate(t) ==
    LET s == th[t]
    IN /\ s.pc = "update"
       /\ On(t, [s EXCEPT !.pc = "child", !.gp = s.p, !.p = s.l,
                          !.gpupdate = s.pupdate, !.pupdate = mem[s.l].update])
       /\ UNCHANGED mem

Side(n, k) == IF k < mem[n].key THEN 0 ELSE 1

ReadChild(t) ==
    LET next == mem[th[t].p].child[Side(th[t].p, req[t].key)]
    IN /\ th[t].pc = "child"
       /\ On(t, [th[t] EXCEPT !.pc = IF leaf(next) THEN "leaf" ELSE "update",
                              !.l = next])
       /\ UNCHANGED mem

At(t, o) == th[t].pc = "leaf" /\ req[t].op = o
IsThere(t) == mem[th[t].l].key = req[t].key

\* bst_find, and updates that find nothing to do.
Answer(t) ==
    /\ \/ At(t, "find")
       \/ At(t, "insert") /\ IsThere(t)
       \/ At(t, "delete") /\ ~IsThere(t)
    /\ Return(t, IF req[t].op = "find" /\ IsThere(t) THEN "yes" ELSE "no")
    /\ UNCHANGED mem

-----------------------------------------------------------------------------
(* Helping.  A call is <<what comes next in it, op>>.                      *)

Helps(u) == CASE u.state = "IFLAG" -> <<<<"insert", u.op>>>>
              [] u.state = "DFLAG" -> <<<<"delete", u.op>>>>
              [] u.state = "MARK"  -> <<<<"unlink", u.op>>>>
              [] u.state = "CLEAN" -> <<>>

\* bst_help(u) within the operation, and then another search.
Help(t, u) ==
    IF u.state = "CLEAN" THEN Search(t)
    ELSE On(t, [th[t] EXCEPT !.pc = "help", !.calls = Helps(u), !.then = "search"])

Top(t) == Head(th[t].calls)
Helping(t, step) == th[t].pc = "help" /\ Top(t)[1] = step
op(t) == mem[Top(t)[2]]

Continue(t, step) ==
    On(t, [th[t] EXCEPT !.calls = <<<<step, Top(t)[2]>>>> \o Tail(@)])

\* The innermost call returns; ok is what bst_help_delete does.
Done(t, ok) ==
    IF Len(th[t].calls) > 1 THEN On(t, [th[t] EXCEPT !.calls = Tail(@)])
    ELSE IF th[t].then = "return" /\ ok THEN Goto(t, "free")
    ELSE Search(t)

\* bst_cas_child, and ssmem_free if it succeeds.
CasChild(parent, old, new, gone) ==
    LET s == Side(parent, mem[new].key)
    IN mem' = IF mem[parent].child[s] # old THEN mem
              ELSE [n \in DOMAIN mem |->
                      IF n = parent THEN [mem[n] EXCEPT !.child[s] = new]
                      ELSE IF n \in gone THEN [mem[n] EXCEPT !.freed = @ + 1]
                      ELSE mem[n]]

CasUpdate(n, old, new) ==
    mem' = IF mem[n].update = old THEN [mem EXCEPT ![n].update = new] ELSE mem

\* bst_help_insert.
HelpInsert(t) ==
    \/ /\ Helping(t, "insert") /\ Continue(t, "insert, unflag")
       /\ CasChild(op(t).p, op(t).l, op(t).new_internal, {op(t).l})
    \/ /\ Helping(t, "insert, unflag") /\ Done(t, TRUE)
       /\ CasUpdate(op(t).p, IFLAG(Top(t)[2]), CLEAN(Top(t)[2]))

\* bst_help_delete: mark the parent, or help the update that is in the way and
\* take the flag back.
HelpDelete(t) ==
    LET me == Top(t)[2]
        result == mem[op(t).p].update
        marks == result = op(t).pupdate
    IN /\ Helping(t, "delete")
       /\ IF marks \/ result = MARK(me)
          THEN /\ Continue(t, "unlink")
               /\ mem' = [n \in DOMAIN mem |->
                            IF n = op(t).p THEN [mem[n] EXCEPT !.update = MARK(me)]
                            ELSE IF marks /\ n = result.op
                            THEN [mem[n] EXCEPT !.freed = @ + 1]
                            ELSE mem[n]]
          ELSE /\ On(t, [th[t] EXCEPT !.calls =
                           Helps(result) \o <<<<"give up", me>>>> \o Tail(@)])
               /\ UNCHANGED mem

GiveUp(t) ==
    /\ Helping(t, "give up") /\ Done(t, FALSE)
    /\ CasUpdate(op(t).gp, DFLAG(Top(t)[2]), CLEAN(Top(t)[2]))

\* bst_help_marked; the children of a marked node do not change.
Other(t) ==
    LET c == mem[op(t).p].child IN IF c[1] = op(t).l THEN c[0] ELSE c[1]

HelpMarked(t) ==
    \/ /\ Helping(t, "unlink") /\ Continue(t, "unlink, unflag")
       /\ CasChild(op(t).gp, op(t).p, Other(t), {op(t).l, op(t).p})
    \/ /\ Helping(t, "unlink, unflag") /\ Done(t, TRUE)
       /\ CasUpdate(op(t).gp, DFLAG(Top(t)[2]), CLEAN(Top(t)[2]))

-----------------------------------------------------------------------------
\* bst_insert: the flag on the parent.
iinfo(p, ni, l) == [p |-> p, new_internal |-> ni, l |-> l, freed |-> 0]

Own(t, o) ==
    On(t, [th[t] EXCEPT !.pc = "help", !.calls = <<o>>, !.then = "return"])

Insert(t) ==
    LET s == th[t]
        k == req[t].key
        other == mem[s.l].key
        new == Fresh
        inner == create_node(IF k < other THEN other ELSE k,
                             IF k < other THEN 0 :> new @@ 1 :> new + 1
                                          ELSE 0 :> new + 1 @@ 1 :> new)
        result == mem[s.p].update
    IN /\ At(t, "insert") /\ ~IsThere(t)
       /\ IF s.pupdate.state # "CLEAN" THEN Help(t, s.pupdate) /\ UNCHANGED mem
          ELSE IF result # s.pupdate THEN Help(t, result) /\ UNCHANGED mem
          ELSE /\ mem' = new :> create_node(k, <<>>)
                         @@ (new + 1) :> create_node(other, <<>>)
                         @@ (new + 2) :> inner
                         @@ (new + 3) :> iinfo(s.p, new + 2, s.l)
                         @@ [mem EXCEPT ![s.p].update = IFLAG(new + 3)]
               /\ Own(t, <<"insert", new + 3>>)

\* bst_delete: the flag on the grandparent.
dinfo(s) == [gp |-> s.gp, p |-> s.p, l |-> s.l, pupdate |-> s.pupdate, freed |-> 0]

MayFlag_Unchecked(s) == s.gpupdate.state = "CLEAN"
MayFlag(s) == s.gpupdate.state = "CLEAN" /\ s.pupdate.state = "CLEAN"

Delete(t) ==
    LET s == th[t]
        busy == IF s.gpupdate.state # "CLEAN" THEN s.gpupdate ELSE s.pupdate
        result == mem[s.gp].update
    IN /\ At(t, "delete") /\ IsThere(t)
       /\ IF ~MayFlag(s) THEN Help(t, busy) /\ UNCHANGED mem
          ELSE IF result # s.gpupdate THEN Help(t, result) /\ UNCHANGED mem
          ELSE /\ mem' = Fresh :> dinfo(s)
                         @@ [mem EXCEPT ![s.gp].update = DFLAG(Fresh)]
               /\ Own(t, <<"delete", Fresh>>)

\* The record that the flag has replaced is freed, and the operation returns.
Free(t) ==
    LET u == IF req[t].op = "insert" THEN th[t].pupdate ELSE th[t].gpupdate
    IN /\ th[t].pc = "free" /\ Return(t, "yes")
       /\ mem' = IF u.op = NULL THEN mem ELSE [mem EXCEPT ![u.op].freed = @ + 1]

Next ==
    \/ \E t \in Threads :
          \/ Begin(t) \/ ReadUpdate(t) \/ ReadChild(t) \/ Answer(t)
          \/ HelpInsert(t) \/ HelpDelete(t) \/ GiveUp(t) \/ HelpMarked(t)
          \/ Insert(t) \/ Delete(t) \/ Free(t)
    \/ AllDone

Spec == Init /\ [][Next]_vars

-----------------------------------------------------------------------------
Children(n) == {mem[n].child[s] : s \in DOMAIN mem[n].child}

Reachable ==
    LET below(S) == S \cup UNION {Children(n) : n \in S}
        level[i \in 0 .. Cardinality(DOMAIN mem)] ==
          IF i = 0 THEN {root} ELSE below(level[i - 1])
    IN level[Cardinality(DOMAIN mem)]

\* ssmem_free gets each node, and each record of an operation, once, and not
\* while the tree leads to the node or a node of the tree to the record.
FreesTheUnlinkedOnce ==
    LET inUse == Reachable \cup {mem[n].update.op : n \in Reachable}
    IN \A n \in DOMAIN mem : mem[n].freed <= (IF n \in inUse THEN 0 ELSE 1)
===============================================================================
