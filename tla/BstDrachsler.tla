------------------------------ MODULE BstDrachsler ------------------------------
(***************************************************************************)
(* The internal search tree with logical ordering of Drachsler et al.,     *)
(* src/src/bst-drachsler/bst-drachsler.c, without rebalancing.  The nodes   *)
(* are also in a doubly linked list, in the order of their keys: searches   *)
(* take no lock, and walk along it when the tree has misled them.          *)
(***************************************************************************)
EXTENDS ConcurrentSet

CONSTANTS
    RO_FAIL,    \* whether an update that need not change anything locks
    Calls       \* bound: Calls[t] is what t calls

MIN_KEY == 0
MAX_KEY == 1 + Cardinality(Keys)
NULL == 0 - 1

create_node(k) ==
    [key |-> k, left |-> NULL, right |-> NULL, parent |-> NULL, succ |-> NULL,
     pred |-> NULL, mark |-> FALSE, tree_lock |-> 0, succ_lock |-> 0]

root == 1

\* initialize_tree.
Init ==
    /\ SetInit({}, Len(Fill))
    /\ mem = 0 :> [create_node(MIN_KEY) EXCEPT !.right = root, !.succ = root]
          @@ root :> [create_node(MAX_KEY) EXCEPT !.pred = 0, !.succ = 0, !.parent = 0]

\* node, n, p, s and parent as in the code; cand is the candidate of
\* choose_parent, node_p what lock_parent has read; todo is what is left to
\* write, in that order, when all the locks have been taken.
Start ==
    [pc |-> "search", node |-> root, n |-> root, p |-> NULL, s |-> NULL,
     parent |-> NULL, cand |-> NULL, node_p |-> NULL, todo |-> <<>>]

Begin(t) ==
    /\ \E o \in IF Filling THEN {"insert"} ELSE Calls[t], k \in Keys : Call(t, o, k, Start)
    /\ UNCHANGED mem

Retry(t) == On(t, Start)
Step(t, l, f, v) == On(t, [th[t] EXCEPT !.pc = l, ![f] = v])
MyKey(t) == req[t].key
Key(n) == mem[n].key

-----------------------------------------------------------------------------
(* Searching.                                                              *)

bst_search(t) ==
    LET n == th[t].node
        child == IF Key(n) < MyKey(t) THEN mem[n].right ELSE mem[n].left
    IN /\ th[t].pc = "search"
       /\ IF Key(n) = MyKey(t) \/ child = NULL THEN Step(t, "found", "n", n)
                                               ELSE Step(t, "search", "node", child)
       /\ UNCHANGED mem

\* An update reads where the key's predecessor should be.
Pred(t) ==
    /\ th[t].pc = "found" /\ req[t].op # "find"
    /\ Step(t, IF RO_FAIL THEN "walk" ELSE "lock p", "p",
            IF Key(th[t].node) >= MyKey(t) THEN mem[th[t].node].pred ELSE th[t].node)
    /\ UNCHANGED mem

Walking(t) == th[t].pc = "walk" \/ (th[t].pc = "found" /\ req[t].op = "find")

\* Along the list, first back and then forth.
Walk(t) ==
    LET n == th[t].n
    IN /\ Walking(t)
       /\ \/ Key(n) > MyKey(t) /\ Step(t, "walk", "n", mem[n].pred)
          \/ Key(n) < MyKey(t) /\ Step(t, "forth", "n", mem[n].succ)
          \/ Key(n) = MyKey(t) /\ Goto(t, "there")
       /\ UNCHANGED mem

Forth(t) ==
    LET n == th[t].n
    IN /\ th[t].pc = "forth"
       /\ IF Key(n) < MyKey(t) THEN Step(t, "forth", "n", mem[n].succ)
                               ELSE Goto(t, "there")
       /\ UNCHANGED mem

IsIn_InTree(t) == Key(th[t].node) = MyKey(t) /\ ~mem[th[t].node].mark
IsIn(t) == Key(th[t].n) = MyKey(t) /\ ~mem[th[t].n].mark
IsOut(t) == Key(th[t].n) # MyKey(t) /\ ~mem[th[t].n].mark

\* bst_contains, and DRACHSLER_RO_FAIL in bst_insert and bst_remove.
Look(t) ==
    /\ th[t].pc = "there"
    /\ CASE req[t].op = "find"   -> Return(t, IF IsIn(t) THEN "yes" ELSE "no")
         [] req[t].op = "insert" -> IF IsIn(t) THEN Return(t, "no") ELSE Goto(t, "lock p")
         [] req[t].op = "delete" -> IF IsOut(t) THEN Return(t, "no") ELSE Goto(t, "lock p")
    /\ UNCHANGED mem

-----------------------------------------------------------------------------
(* Locks.                                                                  *)

LOCK(t, n, l) == mem[n][l] = 0 /\ mem' = [mem EXCEPT ![n][l] = t]
UNLOCK(S, l) ==
    mem' = [n \in DOMAIN mem |-> IF n \in S THEN [mem[n] EXCEPT ![l] = 0] ELSE mem[n]]

LockPred(t) ==
    /\ th[t].pc = "lock p" /\ LOCK(t, th[t].p, "succ_lock")
    /\ Goto(t, "validate")

Between_Unmarked(t, p, s) == MyKey(t) > Key(p) /\ MyKey(t) <= Key(s)
Between(t, p, s) == MyKey(t) > Key(p) /\ MyKey(t) <= Key(s) /\ ~mem[p].mark

Validate(t) ==
    LET p == th[t].p
        s == mem[p].succ
        there == Key(s) = MyKey(t)
    IN /\ th[t].pc = "validate"
       /\ IF ~Between(t, p, s) THEN UNLOCK({p}, "succ_lock") /\ Retry(t)
          ELSE IF there = (req[t].op = "insert")
          THEN UNLOCK({p}, "succ_lock") /\ Return(t, "no")
          ELSE /\ UNCHANGED mem
               /\ IF req[t].op = "delete" THEN Step(t, "lock s", "s", s)
                  ELSE On(t, [th[t] EXCEPT !.pc = "choose", !.s = s, !.cand =
                                IF th[t].node \in {p, s} THEN th[t].node ELSE p])

\* choose_parent.
Choose(t) ==
    LET c == th[t].cand
        free == IF c = th[t].p THEN mem[c].right = NULL ELSE mem[c].left = NULL
        next == IF c = th[t].p THEN th[t].s ELSE th[t].p
    IN \/ /\ th[t].pc = "choose" /\ LOCK(t, c, "tree_lock")
          /\ Goto(t, "candidate")
       \/ /\ th[t].pc = "candidate" /\ free
          /\ Step(t, "insert", "parent", c) /\ UNCHANGED mem
       \/ /\ th[t].pc = "candidate" /\ ~free
          /\ UNLOCK({c}, "tree_lock") /\ Step(t, "choose", "cand", next)

LockSucc(t) ==
    /\ th[t].pc = "lock s" /\ LOCK(t, th[t].s, "succ_lock")
    /\ Goto(t, "lock tree")

\* acquire_tree_locks: of the node, and if it has two children of its successor
\* and of the successor's parent.
TwoChildren(n) == mem[n].left # NULL /\ mem[n].right # NULL

AcquireTreeLocks(t) ==
    LET n == th[t].s
        s == mem[n].succ
        mine == {m \in {n, th[t].parent} \ {NULL} : mem[m].tree_lock = t}
        giveUp == UNLOCK(mine, "tree_lock") /\ Step(t, "lock tree", "parent", NULL)
    IN \/ /\ th[t].pc = "lock tree" /\ LOCK(t, n, "tree_lock")
          /\ Goto(t, IF TwoChildren(n) THEN "find sp" ELSE "read parent")
       \/ /\ th[t].pc = "find sp" /\ UNCHANGED mem
          /\ Step(t, IF mem[s].parent = n THEN "try s" ELSE "try sp", "parent",
                  IF mem[s].parent = n THEN NULL ELSE mem[s].parent)
       \/ /\ th[t].pc = "try sp"
          /\ IF mem[th[t].parent].tree_lock = 0
             THEN LOCK(t, th[t].parent, "tree_lock") /\ Goto(t, "check sp")
             ELSE giveUp
       \/ /\ th[t].pc = "check sp"
          /\ IF th[t].parent # mem[s].parent \/ mem[th[t].parent].mark THEN giveUp
             ELSE Goto(t, "try s") /\ UNCHANGED mem
       \/ /\ th[t].pc = "try s"
          /\ IF mem[s].tree_lock = 0
             THEN LOCK(t, s, "tree_lock") /\ Goto(t, "read parent")
             ELSE giveUp

\* lock_parent.
LockParent(t) ==
    LET n == th[t].s
        p == th[t].node_p
    IN \/ /\ th[t].pc = "read parent" /\ UNCHANGED mem
          /\ Step(t, "lock parent", "node_p", mem[n].parent)
       \/ /\ th[t].pc = "lock parent" /\ LOCK(t, p, "tree_lock")
          /\ Goto(t, "check parent")
       \/ /\ th[t].pc = "check parent"
          /\ IF mem[n].parent = p /\ ~mem[p].mark
             THEN Goto(t, "delete") /\ UNCHANGED mem
             ELSE UNLOCK({p}, "tree_lock") /\ Goto(t, "read parent")

-----------------------------------------------------------------------------
(* Writing.  What follows depends on nothing that others may change.       *)

update_child(parent, old, new) ==
    <<<<parent, IF mem[parent].left = old THEN "left" ELSE "right", new>>>>
      \o (IF new = NULL THEN <<>> ELSE <<<<new, "parent", parent>>>>)

\* bst_insert and insert_to_tree.
Insert(t) ==
    LET th_ == th[t]
        new == Fresh
        fresh == [create_node(MyKey(t)) EXCEPT
                    !.succ = th_.s, !.pred = th_.p, !.parent = th_.parent]
        side == IF Key(th_.parent) < MyKey(t) THEN "right" ELSE "left"
    IN /\ th_.pc = "insert"
       /\ mem' = new :> fresh @@ mem
       /\ Step(t, "write", "todo",
               << <<th_.s, "pred", new>>, <<th_.p, "succ", new>>,
                  <<th_.p, "succ_lock", 0>>,
                  <<th_.parent, side, new>>, <<th_.parent, "tree_lock", 0>> >>)

\* remove_from_tree: a child takes the place of n, or its successor does.
RemoveFromTree(n, p) ==
    LET s == mem[n].succ
        parent == mem[s].parent
        child == IF mem[n].right = NULL THEN mem[n].left ELSE mem[n].right
        right == IF parent = n THEN mem[s].right ELSE mem[n].right
    IN IF ~TwoChildren(n) THEN update_child(p, n, child)
       ELSE update_child(parent, s, mem[s].right)
            \o << <<s, "left", mem[n].left>>, <<s, "right", right>>,
                  <<mem[n].left, "parent", s>> >>
            \o (IF right = NULL THEN <<>> ELSE << <<right, "parent", s>> >>)
            \o update_child(p, n, s)
            \o (IF parent = n THEN <<>> ELSE << <<s, "tree_lock", 0>> >>)
            \o << <<IF parent = n THEN s ELSE parent, "tree_lock", 0>> >>

\* bst_remove.
MarkFirst(n, p) == << <<n, "mark", TRUE>>, <<mem[n].succ, "pred", p>>,
                      <<p, "succ", mem[n].succ>> >>

Remove(t) ==
    LET n == th[t].s
        p == th[t].p
    IN /\ th[t].pc = "delete" /\ UNCHANGED mem
       /\ Step(t, "write", "todo",
               MarkFirst(n, p)
                 \o << <<n, "succ_lock", 0>>, <<p, "succ_lock", 0>> >>
                 \o RemoveFromTree(n, th[t].node_p)
                 \o << <<th[t].node_p, "tree_lock", 0>>, <<n, "tree_lock", 0>> >>)

Write(t) ==
    LET w == Head(th[t].todo)
    IN /\ th[t].pc = "write"
       /\ mem' = [mem EXCEPT ![w[1]][w[2]] = w[3]]
       /\ IF Len(th[t].todo) = 1 THEN Return(t, "yes")
          ELSE On(t, [th[t] EXCEPT !.todo = Tail(@)])

Next ==
    \/ \E t \in Threads :
          \/ Begin(t) \/ bst_search(t) \/ Pred(t) \/ Walk(t) \/ Forth(t) \/ Look(t)
          \/ LockPred(t) \/ Validate(t) \/ Choose(t) \/ LockSucc(t)
          \/ AcquireTreeLocks(t) \/ LockParent(t)
          \/ Insert(t) \/ Remove(t) \/ Write(t)
    \/ AllDone

Spec == Init /\ [][Next]_vars

-----------------------------------------------------------------------------
\* The list and the tree agree: when nobody is writing, the successor of a node
\* in the list has that node as predecessor, and the tree holds the same keys.
Quiescent == \A t \in Threads : th[t].pc = "idle"

InTree ==
    LET below(S) ==
          S \cup (({mem[n].left : n \in S} \cup {mem[n].right : n \in S}) \ {NULL})
        level[i \in 0 .. Cardinality(DOMAIN mem)] ==
          IF i = 0 THEN {root} ELSE below(level[i - 1])
    IN level[Cardinality(DOMAIN mem)]

TreeMatchesList ==
    Quiescent =>
      \A n \in DOMAIN mem \ {0, root} :
         /\ (n \in InTree) = ~mem[n].mark
         /\ ~mem[n].mark => mem[mem[n].succ].pred = n /\ mem[mem[n].pred].succ = n
===============================================================================
