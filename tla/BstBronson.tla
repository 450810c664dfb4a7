------------------------------ MODULE BstBronson ------------------------------
(***************************************************************************)
(* The partially external AVL tree of Bronson et al.,                      *)
(* src/src/bst-lock2/bst_bronson_java.c.  A node without a value only      *)
(* routes; searches take no lock, and go back to the parent when the        *)
(* version of a node says that it has shrunk: that keys have moved out of   *)
(* the part of the tree below it.                                          *)
(*                                                                         *)
(* A value is only there or not.  (In the code one that is NOT_FOUND or     *)
(* RETRY, 2 or 3, passes for an answer, see README.md.)                    *)
(*                                                                         *)
(* Rebalancing is written once for both sides: side is where a subtree is   *)
(* too high, and where the names of the code say left.                     *)
(***************************************************************************)
EXTENDS ConcurrentSet

CONSTANT Calls      \* bound: Calls[t] is what t calls, as <<operation, key>>

NULL == 0 - 1
UNLINK_REQUIRED    == 0 - 1
REBALANCE_REQUIRED == 0 - 2
NOTHING_REQUIRED   == 0 - 3
UNLINKED_OVL == 2

IS_UNLINKED(ovl) == ovl % 4 \in {2, 3}
IS_SHRINKING_OR_UNLINKED(ovl) == ovl % 4 # 0
BEGIN_CHANGE(ovl) == IF ovl % 2 = 0 THEN ovl + 1 ELSE ovl
END_CHANGE(ovl) == 4 * (ovl \div 4) + 4

max(a, b) == IF a > b THEN a ELSE b
Uneven(a, b) == a - b > 1 \/ b - a > 1
mirror(side) == IF side = "left" THEN "right" ELSE "left"

new_node(height, k, value, parent) ==
    [height |-> height, key |-> k, value |-> value, version |-> 0,
     parent |-> parent, left |-> NULL, right |-> NULL, lock |-> 0]

root == 0

\* bst_initialize.
Init ==
    /\ SetInit({}, Len(Fill))
    /\ mem = root :> new_node(0, 0, FALSE, NULL)

\* path: the calls of attempt_get or attempt_update that have not returned, with
\* the root's version standing for "none"; child and ovl as in them.  node is
\* the argument of fix_height_and_rebalance; x is what node_conditon looks at, c
\* what it has read, then what comes next.  parent, n, nl, side, hr, hll, hlrl
\* are arguments of the rebalancing; todo is what is left to write, damaged what
\* to repair after that.
Start ==
    [pc |-> "child", path |-> <<[node |-> root, ovl |-> 0]>>, child |-> NULL,
     ovl |-> 0, node |-> NULL, x |-> NULL, c |-> <<>>, then |-> "",
     parent |-> NULL, n |-> NULL, nl |-> NULL, side |-> "left",
     hr |-> 0, hll |-> 0, hlrl |-> 0, todo |-> <<>>, damaged |-> NULL]

Begin(t) ==
    /\ \E c \in IF Filling THEN {<<"insert", NextToFill>>} ELSE Calls[t] :
          Call(t, c[1], c[2], Start)
    /\ UNCHANGED mem

MyKey(t) == req[t].key
Finding(t) == req[t].op = "find"
Step(t, l, f, v) == On(t, [th[t] EXCEPT !.pc = l, ![f] = v])
HEIGHT(n) == IF n = NULL THEN 0 ELSE mem[n].height

\* LOCK, together with what is done first under it (m is the memory after that);
\* locks that are released at once need only be free.
Free(n) == mem[n].lock = 0
LOCK(t, n) == Free(n) /\ mem' = [mem EXCEPT ![n].lock = t]
Unlocked(t, m) ==
    [n \in DOMAIN m |-> IF m[n].lock = t THEN [m[n] EXCEPT !.lock = 0] ELSE m[n]]

-----------------------------------------------------------------------------
(* bst_contains, update_under_root, attempt_get and attempt_update.        *)

Here(t) == Head(th[t].path).node
Side(t) == IF MyKey(t) < mem[Here(t)].key THEN "left" ELSE "right"
Unchanged_Always(t) == TRUE
Unchanged(t) == mem[Here(t)].version = Head(th[t].path).ovl
RETRY(t) == On(t, [th[t] EXCEPT !.pc = "child", !.path = Tail(@)])

Child(t) ==
    LET child == mem[Here(t)][Side(t)]
    IN /\ th[t].pc = "child"
       /\ Step(t, IF ~Finding(t) \/ child = NULL THEN "unchanged"
                  ELSE IF mem[child].key = MyKey(t) THEN "value" ELSE "version",
               "child", child)
       /\ UNCHANGED mem

Value(t) ==
    /\ th[t].pc = "value"
    /\ Return(t, IF mem[th[t].child].value THEN "yes" ELSE "no")
    /\ UNCHANGED mem

NothingBelow(t) ==
    /\ th[t].pc = "unchanged"
    /\ IF ~Unchanged(t) THEN RETRY(t)
       ELSE IF th[t].child # NULL THEN Goto(t, "version")
       ELSE IF req[t].op = "insert" THEN Goto(t, "insert") ELSE Return(t, "no")
    /\ UNCHANGED mem

\* A find checks its node also when it will not go down; wait_until_not_changing
\* only waits.
NotDown(t) == Step(t, IF Finding(t) THEN "check" ELSE "child", "child", NULL)

ChildVersion(t) ==
    LET ovl == mem[th[t].child].version
    IN /\ th[t].pc = "version"
       /\ IF IS_SHRINKING_OR_UNLINKED(ovl) THEN NotDown(t)
                                           ELSE Step(t, "again", "ovl", ovl)
       /\ UNCHANGED mem

Again(t) ==
    /\ th[t].pc = "again"
    /\ IF th[t].child # mem[Here(t)][Side(t)] THEN NotDown(t) ELSE Goto(t, "check")
    /\ UNCHANGED mem

Descend(t) ==
    LET s == th[t]
    IN /\ s.pc = "check"
       /\ IF ~Unchanged(t) THEN RETRY(t)
          ELSE IF s.child = NULL THEN Goto(t, "child")
          ELSE On(t, [s EXCEPT !.path = <<[node |-> s.child, ovl |-> s.ovl]>> \o @,
                        !.pc = IF Finding(t) \/ mem[s.child].key # MyKey(t) THEN "child"
                               ELSE IF req[t].op = "insert" THEN "change" ELSE "present"])
       /\ UNCHANGED mem

-----------------------------------------------------------------------------
(* node_conditon and fix_height_nl.                                        *)

\* What node_conditon reads, one after the other; the first four are stable when
\* the node is locked.
Fields == <<"left", "right", "value", "height">>
Locked(m, x) == <<m[x].left, m[x].right, m[x].value, m[x].height>>

Condition(t) ==
    LET c == th[t].c
    IN /\ th[t].pc = "condition"
       /\ On(t, [th[t] EXCEPT
                  !.c = Append(c, IF Len(c) < 4 THEN mem[th[t].x][Fields[Len(c) + 1]]
                                  ELSE HEIGHT(c[Len(c) - 3])),
                  !.pc = IF Len(c) = 5 THEN th[t].then ELSE @])
       /\ UNCHANGED mem

Unneeded(c) == (c[1] = NULL \/ c[2] = NULL) /\ ~c[3]
node_conditon(c) ==
    CASE Unneeded(c)        -> UNLINK_REQUIRED
      [] ~Unneeded(c) /\ Uneven(c[5], c[6]) -> REBALANCE_REQUIRED
      [] OTHER -> IF c[4] # 1 + max(c[5], c[6]) THEN 1 + max(c[5], c[6])
                                                ELSE NOTHING_REQUIRED

\* s, when it goes on with fix_height_nl(x) and x is locked in m.
FixHeight(s, m, x) ==
    [s EXCEPT !.pc = "condition", !.x = x, !.c = Locked(m, x), !.then = "fix height"]

\* The locks are released, and what is damaged is repaired next.
Repair(t, damaged) == mem' = Unlocked(t, mem) /\ Step(t, "repair", "node", damaged)

fix_height_nl(t) ==
    LET x == th[t].x
        k == node_conditon(th[t].c)
    IN \/ /\ th[t].pc = "fix height"
          /\ CASE k \in {REBALANCE_REQUIRED, UNLINK_REQUIRED} -> Repair(t, x)
               [] k = NOTHING_REQUIRED -> Repair(t, NULL)
               [] OTHER -> mem' = [mem EXCEPT ![x].height = k] /\ Goto(t, "above")
       \/ th[t].pc = "above" /\ Repair(t, mem[x].parent)

-----------------------------------------------------------------------------
(* What updates change.                                                    *)

\* attempt_update below a leaf, and attempt_insert_into_empty below the root.
Insert(t) ==
    LET n == Here(t)
        new == Fresh
        m == new :> new_node(1, MyKey(t), TRUE, n) @@ [mem EXCEPT ![n][Side(t)] = new]
    IN /\ th[t].pc = "insert" /\ Free(n)
       /\ IF ~Unchanged(t) THEN RETRY(t) /\ UNCHANGED mem
          ELSE IF mem[n][Side(t)] # NULL THEN Goto(t, "child") /\ UNCHANGED mem
          ELSE IF n = root THEN mem' = [m EXCEPT ![n].height = 2] /\ Return(t, "yes")
          ELSE mem' = [m EXCEPT ![n].lock = t] /\ On(t, FixHeight(th[t], m, n))

\* attempt_node_update: a removal looks whether the node has a value and two
\* children.
Present(t) ==
    LET n == mem[Here(t)]
    IN \/ /\ th[t].pc = "present" /\ UNCHANGED mem
          /\ IF n.value THEN Goto(t, "left?") ELSE Return(t, "no")
       \/ /\ th[t].pc \in {"left?", "right?"} /\ UNCHANGED mem
          /\ Goto(t, IF (IF th[t].pc = "left?" THEN n.left ELSE n.right) = NULL
                     THEN "lock parent"
                     ELSE IF th[t].pc = "left?" THEN "right?" ELSE "change")

\* With two children, or to insert: the value changes.
Change(t) ==
    LET n == Here(t)
        inserts == req[t].op = "insert"
    IN /\ th[t].pc = "change" /\ Free(n)
       /\ \/ IS_UNLINKED(mem[n].version) /\ RETRY(t) /\ UNCHANGED mem
          \/ /\ ~IS_UNLINKED(mem[n].version) /\ mem[n].value = inserts
             /\ Return(t, "no") /\ UNCHANGED mem
          \/ /\ ~IS_UNLINKED(mem[n].version) /\ mem[n].value # inserts
             /\ IF ~inserts /\ (mem[n].left = NULL \/ mem[n].right = NULL)
                THEN RETRY(t) /\ UNCHANGED mem
                ELSE mem' = [mem EXCEPT ![n].value = inserts] /\ Return(t, "yes")

IsParent(p, n) == ~IS_UNLINKED(mem[p].version) /\ mem[n].parent = p

\* With one: the node is unlinked.
LockParent(t) ==
    LET n == Here(t)
        p == th[t].path[2].node
    IN /\ th[t].pc = "lock parent" /\ Free(p)
       /\ IF IsParent(p, n) THEN LOCK(t, p) /\ Step(t, "unlink", "parent", p)
                            ELSE RETRY(t) /\ UNCHANGED mem

MayUnlink(p, n) ==
    /\ n \in {mem[p].left, mem[p].right}
    /\ mem[n].left = NULL \/ mem[n].right = NULL

Link(p, n) == IF mem[p].left = n THEN "left" ELSE "right"
Adopt_Not(n, p) == <<>>
Adopt(n, p) == IF n = NULL THEN <<>> ELSE << <<n, "parent", p>> >>

\* attempt_unlink_nl: what it writes.
Unlink(p, n) ==
    LET splice == IF mem[n].left # NULL THEN mem[n].left ELSE mem[n].right
    IN << <<p, Link(p, n), splice>> >> \o Adopt(splice, p)
         \o << <<n, "version", UNLINKED_OVL>>, <<n, "value", FALSE>> >>

\* Write todo; then damaged is to be repaired, or fix_height_nl(parent) says what.
Writing(s, todo, damaged) ==
    [s EXCEPT !.pc = "write", !.todo = todo, !.damaged = damaged]
ParentHeight == 0 - 2

UnlinkNode(t) ==
    LET n == Here(t)
        p == th[t].parent
        release == mem' = Unlocked(t, mem)
    IN /\ th[t].pc = "unlink" /\ Free(n)
       /\ IF ~mem[n].value THEN release /\ Return(t, "no")
          ELSE IF ~MayUnlink(p, n) THEN release /\ RETRY(t)
          ELSE /\ LOCK(t, n)
               /\ On(t, Writing(th[t], Append(Unlink(p, n), <<n, "lock", 0>>),
                                ParentHeight))

Write(t) ==
    LET s == th[t]
        w == Head(s.todo)
        m == [mem EXCEPT ![w[1]][w[2]] = w[3]]
    IN /\ s.pc = "write"
       /\ IF Len(s.todo) > 1 THEN On(t, [s EXCEPT !.todo = Tail(@)])
          ELSE IF s.damaged = ParentHeight
          THEN On(t, FixHeight([s EXCEPT !.todo = <<>>], m, s.parent))
          ELSE On(t, [s EXCEPT !.todo = <<>>, !.node = s.damaged, !.pc = "release"])
       /\ mem' = m

Release(t) ==
    /\ th[t].pc = "release"
    /\ Repair(t, th[t].node)

-----------------------------------------------------------------------------
(* fix_height_and_rebalance and rebalance_nl.                              *)

RepairNext(t) ==
    LET n == th[t].node
    IN /\ th[t].pc = "repair"
       /\ IF n = NULL \/ (n # NULL /\ mem[n].parent = NULL) THEN Return(t, "yes")
          ELSE On(t, [th[t] EXCEPT !.pc = "condition", !.x = n, !.c = <<>>,
                                   !.then = "decide"])
       /\ UNCHANGED mem

Decide(t) ==
    LET k == node_conditon(th[t].c)
    IN /\ th[t].pc = "decide"
       /\ IF k = NOTHING_REQUIRED \/ IS_UNLINKED(mem[th[t].node].version)
          THEN Return(t, "yes")
          ELSE Goto(t, IF k \in {UNLINK_REQUIRED, REBALANCE_REQUIRED}
                       THEN "get parent" ELSE "lock")
       /\ UNCHANGED mem

LockToFix(t) ==
    /\ th[t].pc = "lock" /\ LOCK(t, th[t].node)
    /\ On(t, FixHeight(th[t], mem, th[t].node))

LockToRebalance(t) ==
    LET n == th[t].node
        p == th[t].parent
    IN \/ /\ th[t].pc = "get parent" /\ UNCHANGED mem
          /\ Step(t, "lock above", "parent", mem[n].parent)
       \/ /\ th[t].pc = "lock above" /\ Free(p)
          /\ IF IsParent(p, n) THEN LOCK(t, p) /\ Goto(t, "lock node")
                               ELSE Goto(t, "repair") /\ UNCHANGED mem
       \/ /\ th[t].pc = "lock node" /\ LOCK(t, n)
          /\ On(t, [th[t] EXCEPT !.pc = "condition", !.x = n, !.c = Locked(mem, n),
                                 !.then = "rebalance"])

\* The higher child, on one side or the other, and the height of the other.
Higher(s, side, nl, hr) ==
    [s EXCEPT !.pc = "lock nl", !.side = side, !.n = s.node, !.nl = nl, !.hr = hr]

rebalance_nl(t) ==
    LET s == th[t]
        c == s.c
        height == 1 + max(c[5], c[6])
        m == [mem EXCEPT ![s.node].height = height]
    IN /\ s.pc = "rebalance"
       /\ IF Unneeded(c)
          THEN IF MayUnlink(s.parent, s.node)
               THEN UNCHANGED mem
                    /\ On(t, Writing(s, Unlink(s.parent, s.node), ParentHeight))
               ELSE Repair(t, s.node)
          ELSE \/ c[5] - c[6] > 1 /\ On(t, Higher(s, "left", c[1], c[6])) /\ UNCHANGED mem
               \/ c[6] - c[5] > 1 /\ On(t, Higher(s, "right", c[2], c[5])) /\ UNCHANGED mem
               \/ /\ ~Uneven(c[5], c[6]) /\ height # c[4]
                  /\ mem' = m /\ On(t, FixHeight(s, m, s.parent))
               \/ ~Uneven(c[5], c[6]) /\ height = c[4] /\ Repair(t, NULL)

-----------------------------------------------------------------------------
(* rebalance_to_right_nl and rebalance_to_left_nl.                         *)

\* rotate_right_nl and rotate_left_nl.
Rotate(t, s, hlr) ==
    LET p == s.parent
        n == s.n
        nl == s.nl
        nlr == mem[nl][mirror(s.side)]
        hn == 1 + max(hlr, s.hr)
    IN Writing(s,
         << <<n, "version", BEGIN_CHANGE(mem[n].version)>>, <<n, s.side, nlr>> >>
           \o Adopt(nlr, n)
           \o << <<nl, mirror(s.side), n>>, <<n, "parent", nl>>,
                 <<p, Link(p, n), nl>>, <<nl, "parent", p>>,
                 <<n, "height", hn>>, <<nl, "height", 1 + max(s.hll, hn)>>,
                 <<n, "version", END_CHANGE(mem[n].version)>> >>,
         CASE \/ Uneven(hlr, s.hr)
              \/ (nlr = NULL \/ s.hr = 0) /\ ~mem[n].value   -> n
           [] \/ Uneven(s.hll, hn)
              \/ s.hll = 0 /\ ~mem[nl].value                 -> nl
           [] OTHER                                          -> ParentHeight)

\* rotate_right_over_left_nl and rotate_left_over_right_nl; hlrr is the height
\* of the inner grandchild's other subtree.
RotateTwice(t, s, hlrr) ==
    LET p == s.parent
        n == s.n
        nl == s.nl
        nlr == mem[nl][mirror(s.side)]
        nlrl == mem[nlr][s.side]
        nlrr == mem[nlr][mirror(s.side)]
        hn == 1 + max(hlrr, s.hr)
        hl == 1 + max(s.hll, s.hlrl)
    IN Writing(s,
         << <<n, "version", BEGIN_CHANGE(mem[n].version)>>,
            <<nl, "version", BEGIN_CHANGE(mem[nl].version)>>, <<n, s.side, nlrr>> >>
           \o Adopt(nlrr, n) \o << <<nl, mirror(s.side), nlrl>> >> \o Adopt(nlrl, nl)
           \o << <<nlr, s.side, nl>>, <<nl, "parent", nlr>>,
                 <<nlr, mirror(s.side), n>>, <<n, "parent", nlr>>,
                 <<p, Link(p, n), nlr>>, <<nlr, "parent", p>>,
                 <<n, "height", hn>>, <<nl, "height", hl>>,
                 <<nlr, "height", 1 + max(hl, hn)>>,
                 <<n, "version", END_CHANGE(mem[n].version)>>,
                 <<nl, "version", END_CHANGE(mem[nl].version)>> >>,
         CASE \/ Uneven(hlrr, s.hr)
              \/ (nlrr = NULL \/ s.hr = 0) /\ ~mem[n].value  -> n
           [] Uneven(hl, hn)                                 -> nlr
           [] OTHER                                          -> ParentHeight)

Outer(t) == mem[th[t].nl][th[t].side]
Inner(t) == mem[th[t].nl][mirror(th[t].side)]

\* The height of the left one of the two is read first.
RebalanceChild(t) ==
    LET s == th[t]
        hll == IF s.side = "left" THEN s.hll ELSE HEIGHT(Outer(t))
        hlr == IF s.side = "left" THEN HEIGHT(Inner(t)) ELSE s.hll
    IN \/ /\ s.pc = "lock nl" /\ Free(s.nl)
          /\ IF mem[s.nl].height - s.hr <= 1 THEN Repair(t, s.n)
             ELSE LOCK(t, s.nl) /\ Goto(t, "left height")
       \/ /\ s.pc = "left height" /\ UNCHANGED mem
          /\ Step(t, "right height", "hll", HEIGHT(mem[s.nl].left))
       \/ /\ s.pc = "right height" /\ UNCHANGED mem
          /\ IF hll >= hlr THEN On(t, Rotate(t, [s EXCEPT !.hll = hll], hlr))
             ELSE Step(t, "lock nlr", "hll", hll)

\* Two rotations, unless they would leave nl damaged: then nl is balanced alone.
RebalanceInner(t) ==
    LET s == th[t]
        nlr == Inner(t)
        spoilt == \/ Uneven(s.hll, s.hlrl)
                  \/ (s.hll = 0 \/ s.hlrl = 0) /\ ~mem[s.nl].value
    IN \/ /\ s.pc = "lock nlr" /\ LOCK(t, nlr)
          /\ IF s.hll >= mem[nlr].height THEN On(t, Rotate(t, s, mem[nlr].height))
             ELSE Goto(t, "innermost")
       \/ /\ s.pc = "innermost" /\ UNCHANGED mem
          /\ Step(t, "twice?", "hlrl", HEIGHT(mem[nlr][s.side]))
       \/ /\ s.pc = "twice?" /\ ~spoilt /\ UNCHANGED mem
          /\ On(t, RotateTwice(t, s, HEIGHT(mem[nlr][mirror(s.side)])))
       \/ /\ s.pc = "twice?" /\ spoilt
          /\ mem' = [mem EXCEPT ![nlr].lock = 0]
          /\ On(t, [s EXCEPT !.pc = "lock nl", !.parent = s.n, !.n = s.nl, !.nl = nlr,
                             !.side = mirror(@), !.hr = s.hll])

Next ==
    \/ \E t \in Threads :
          \/ Begin(t) \/ Child(t) \/ Value(t) \/ NothingBelow(t) \/ ChildVersion(t)
          \/ Again(t) \/ Descend(t) \/ Condition(t) \/ fix_height_nl(t)
          \/ Insert(t) \/ Present(t) \/ Change(t) \/ LockParent(t) \/ UnlinkNode(t)
          \/ Write(t) \/ Release(t) \/ RepairNext(t) \/ Decide(t) \/ LockToFix(t)
          \/ LockToRebalance(t) \/ rebalance_nl(t)
          \/ RebalanceChild(t) \/ RebalanceInner(t)
    \/ AllDone

Spec == Init /\ [][Next]_vars

-----------------------------------------------------------------------------
\* When nobody is at work the tree is whole: a node is where its parent says, and
\* none is locked or marked as changing.  (Heights need not be right: node_conditon
\* reads them without locks.)
Quiescent == \A t \in Threads : th[t].pc = "idle"

InTree ==
    LET below(S) ==
          S \cup (({mem[n].left : n \in S} \cup {mem[n].right : n \in S}) \ {NULL})
        level[i \in 0 .. Cardinality(DOMAIN mem)] ==
          IF i = 0 THEN {root} ELSE below(level[i - 1])
    IN level[Cardinality(DOMAIN mem)]

LinksAgree ==
    Quiescent => \A n \in InTree :
        /\ Free(n) /\ mem[n].version % 4 = 0
        /\ n # root => n \in {mem[mem[n].parent].left, mem[mem[n].parent].right}
===============================================================================
