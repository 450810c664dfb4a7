------------------------------- MODULE BstAravind -------------------------------
(***************************************************************************)
(* The lock-free external search tree of Natarajan and Mittal,             *)
(* src/src/bst-aravind/bst-aravind.c.  A deletion flags the edge to its     *)
(* leaf, tags the edge to the sibling, so that neither changes any more,    *)
(* and moves the sibling up.                                               *)
(***************************************************************************)
EXTENDS ConcurrentSet

INF0 == 1 + Cardinality(Keys)
INF1 == INF0 + 1
INF2 == INF0 + 2

Sides == {0, 1}     \* 0 is left
NULL == 0 - 1

\* An edge is a node with a flag and a tag; freed counts calls of ssmem_free.
edge(n) == [to |-> n, flag |-> FALSE, tag |-> FALSE]
create_node(k, l, r) ==
    [key |-> k, child |-> [s \in Sides |-> edge(IF s = 0 THEN l ELSE r)],
     freed |-> 0]

node_r == 0
node_s == 1

\* initialize_tree.
Init ==
    /\ SetInit({}, Len(Fill))
    /\ mem = node_r :> create_node(INF2, node_s, 4)
          @@ node_s :> create_node(INF1, 2, 3)
          @@ 2 :> create_node(INF0, NULL, NULL)
          @@ 3 :> create_node(INF1, NULL, NULL)
          @@ 4 :> create_node(INF2, NULL, NULL)

Side(n, k) == IF k < mem[n].key THEN 0 ELSE 1
Child(n, k) == mem[n].child[Side(n, k)]

\* The seek record, the two edges bst_seek looks at, and for bst_remove the leaf
\* it has flagged, or NULL while injecting.
Seeker ==
    [pc |-> "seek", ancestor |-> node_r, successor |-> node_s, parent |-> node_s,
     leaf |-> NULL, parent_field |-> edge(NULL), current_field |-> edge(NULL),
     mine |-> NULL, then |-> "seek", chld |-> NULL, side |-> 0]

Begin(t) ==
    /\ \E o \in Ops, k \in Keys : Call(t, o, k, Seeker)
    /\ UNCHANGED mem

\* bst_seek: the first reads,
Seek(t) ==
    /\ \/ /\ th[t].pc = "seek"
          /\ On(t, [Seeker EXCEPT !.pc = "parent field", !.mine = th[t].mine,
                                  !.leaf = mem[node_s].child[0].to])
       \/ /\ th[t].pc = "parent field"
          /\ On(t, [th[t] EXCEPT !.pc = "current field",
                                 !.parent_field = mem[node_s].child[0]])
       \/ /\ th[t].pc = "current field"
          /\ On(t, [th[t] EXCEPT !.pc = "down",
                                 !.current_field = mem[th[t].leaf].child[0]])
    /\ UNCHANGED mem

\* and one round of the loop.  A tagged edge leads to a node that goes.
Ancestor(s) ==
    IF s.parent_field.tag THEN <<s.ancestor, s.successor>>
                          ELSE <<s.parent, s.leaf>>

Down(t) ==
    LET s == th[t]
        current == s.current_field.to
    IN /\ s.pc = "down" /\ current # NULL
       /\ On(t, [s EXCEPT !.ancestor = Ancestor(s)[1], !.successor = Ancestor(s)[2],
                          !.parent = s.leaf, !.leaf = current,
                          !.parent_field = s.current_field,
                          !.current_field = Child(current, req[t].key)])
       /\ UNCHANGED mem

At(t, o) ==
    th[t].pc = "down" /\ th[t].current_field.to = NULL /\ req[t].op = o
IsThere(t) == mem[th[t].leaf].key = req[t].key

\* bst_search, and updates that find nothing to do.
Answer(t) ==
    /\ \/ At(t, "find")
       \/ At(t, "insert") /\ IsThere(t)
       \/ At(t, "delete") /\ th[t].mine = NULL /\ ~IsThere(t)
    /\ Return(t, IF req[t].op = "find" /\ IsThere(t) THEN "yes" ELSE "no")
    /\ UNCHANGED mem

ChildEdge(t) == Child(th[t].parent, req[t].key)
IsClean_NodeOnly(e, n) == e.to = n
IsClean(e, n) == e = edge(n)

Swing(n, k, e) == [mem EXCEPT ![n].child[Side(n, k)] = e]

\* bst_insert: the compare-and-swap.
Insert(t) ==
    LET s == th[t]
        k == req[t].key
        other == mem[s.leaf].key
        new == Fresh
        internal == IF k < other THEN create_node(other, new, s.leaf)
                                 ELSE create_node(k, s.leaf, new)
    IN /\ At(t, "insert") /\ ~IsThere(t)
       /\ IF IsClean(ChildEdge(t), s.leaf)
          THEN /\ mem' = new :> create_node(k, NULL, NULL) @@ (new + 1) :> internal
                         @@ Swing(s.parent, k, edge(new + 1))
               /\ Return(t, "yes")
          ELSE Goto(t, "help") /\ UNCHANGED mem

\* bst_remove: the flag, while it is injecting.
Flag(t) ==
    LET s == th[t]
    IN /\ At(t, "delete") /\ s.mine = NULL /\ IsThere(t)
       /\ IF IsClean(ChildEdge(t), s.leaf)
          THEN /\ mem' = Swing(s.parent, req[t].key,
                               [edge(s.leaf) EXCEPT !.flag = TRUE])
               /\ On(t, [s EXCEPT !.pc = "cleanup", !.mine = s.leaf, !.then = "done"])
          ELSE Goto(t, "help") /\ UNCHANGED mem

\* After that: has another thread unlinked the leaf?
Check(t) ==
    /\ At(t, "delete") /\ th[t].mine # NULL
    /\ IF th[t].leaf # th[t].mine THEN Return(t, "yes")
       ELSE On(t, [th[t] EXCEPT !.pc = "cleanup", !.then = "done"])
    /\ UNCHANGED mem

\* The compare-and-swap has failed: help if the leaf is about to go.
Help(t) ==
    LET e == ChildEdge(t)
    IN /\ th[t].pc = "help"
       /\ IF e.to = th[t].leaf /\ (e.flag \/ e.tag)
          THEN On(t, [th[t] EXCEPT !.pc = "cleanup", !.then = "seek"])
          ELSE Goto(t, "seek")
       /\ UNCHANGED mem

-----------------------------------------------------------------------------
\* bst_cleanup.  side is that of the edge that stays: the sibling's,
Choose(t) ==
    /\ th[t].pc = "cleanup"
    /\ LET side == Side(th[t].parent, req[t].key)
       IN IF ChildEdge(t).flag
          THEN On(t, [th[t] EXCEPT !.pc = "tag", !.side = 1 - side,
                                   !.chld = ChildEdge(t).to])
          ELSE On(t, [th[t] EXCEPT !.pc = "sibling", !.side = side])
    /\ UNCHANGED mem

\* or that towards the key, when it is the other leaf that goes.
Sibling(t) ==
    /\ th[t].pc = "sibling"
    /\ On(t, [th[t] EXCEPT !.pc = "tag",
                           !.chld = mem[th[t].parent].child[1 - th[t].side].to])
    /\ UNCHANGED mem

Tag(t) ==
    /\ th[t].pc = "tag" /\ Goto(t, "swing")
    /\ mem' = [mem EXCEPT ![th[t].parent].child[th[t].side].tag = TRUE]

\* The edge that stays keeps its flag.
Kept(e) == [e EXCEPT !.tag = FALSE]

\* The sibling moves up; what is unlinked between successor and parent is not
\* freed.
SwingUp(t) ==
    LET s == th[t]
        gone == {s.chld, s.successor}
        up == Kept(mem[s.parent].child[s.side])
        swung == Swing(s.ancestor, req[t].key, up)
    IN /\ s.pc = "swing"
       /\ IF IsClean(Child(s.ancestor, req[t].key), s.successor)
          THEN /\ mem' = [n \in DOMAIN mem |->
                            IF n \in gone THEN [swung[n] EXCEPT !.freed = @ + 1]
                                          ELSE swung[n]]
               /\ IF s.then = "done" THEN Return(t, "yes") ELSE Goto(t, s.then)
          ELSE Goto(t, "seek") /\ UNCHANGED mem

Next ==
    \/ \E t \in Threads :
          \/ Begin(t) \/ Seek(t) \/ Down(t) \/ Answer(t) \/ Insert(t) \/ Flag(t)
          \/ Check(t) \/ Help(t) \/ Choose(t) \/ Sibling(t) \/ Tag(t) \/ SwingUp(t)
    \/ AllDone

Spec == Init /\ [][Next]_vars

-----------------------------------------------------------------------------
Reachable ==
    LET below(S) == S \cup ({mem[n].child[s].to : n \in S, s \in Sides} \ {NULL})
        level[i \in 0 .. Cardinality(DOMAIN mem)] ==
          IF i = 0 THEN {node_r} ELSE below(level[i - 1])
    IN level[Cardinality(DOMAIN mem)]

\* bst_cleanup gives a node back once, by the thread whose compare-and-swap
\* succeeds, and not while the tree leads to it.
FreesTheUnlinkedOnce ==
    \A n \in DOMAIN mem : mem[n].freed <= (IF n \in Reachable THEN 0 ELSE 1)
===============================================================================
