-------------------------------- MODULE ListSet --------------------------------
(***************************************************************************)
(* What the sorted lists under src/src have in common: a first node with   *)
(* KEY_MIN and a last one with KEY_MAX, made by set_new, and the nodes in   *)
(* between.  A link is <<node, mark>>; where links carry no mark it is 0.   *)
(***************************************************************************)
EXTENDS ConcurrentSet

KEY_MIN == 0
KEY_MAX == 1 + Cardinality(Keys)

head == 0

\* lock: who holds the node's lock (module Mutex), or 0.
node(k, n) == [key |-> k, next |-> <<n, 0>>, marked |-> FALSE, lock |-> 0]

\* A list that holds the keys of s, as insertions before the threads start leave
\* it.
ListInit(s) ==
    /\ SetInit(s, 0)
    /\ LET order == {KEY_MIN, KEY_MAX} \cup s
           place(k) == Cardinality({j \in order : j < k})
       IN mem = [i \in 0 .. Cardinality(s) + 1 |->
                   LET k == CHOOSE k \in order : place(k) = i IN node(k, i + 1)]

Init == \E s \in SUBSET Keys : ListInit(s)

\* With a new node n, and w's link changed from l to n (new_node and a store).
Linked(n, w) ==
    [i \in DOMAIN mem \cup {Fresh} |->
        IF i = Fresh THEN n
        ELSE IF i = w THEN [mem[i] EXCEPT !.next = <<Fresh, 0>>] ELSE mem[i]]

Key(n) == mem[n].key
Succ(n) == mem[n].next[1]

\* LOCK and UNLOCK of a node's lock.
LOCK(t, n) == mem[n].lock = 0 /\ mem' = [mem EXCEPT ![n].lock = t]
UNLOCK(n) == mem' = [mem EXCEPT ![n].lock = 0]

-----------------------------------------------------------------------------
(* The lock-free lists: the mark of a node is in its link, so that one      *)
(* compare-and-swap sees both.                                             *)

\* Where t is, and the local variables: left_node, right_node, a link that was
\* read (left_node_next, right_node_next, unmarked_ref), and what the search is
\* for: then is where it returns to.
Locals(l, left, right, link) ==
    [pc |-> l, left |-> left, right |-> right, link |-> link, then |-> "found"]

BeginSearch(t) ==
    /\ \E o \in Ops, k \in Keys :
          Call(t, o, k, Locals("search", head, head, <<head, 0>>))
    /\ UNCHANGED mem

Again(t) == On(t, Locals("search", head, head, <<head, 0>>))

Marked(l) == l[2] = 1       \* is_marked_ref
Unmarked(l) == <<l[1], 0>>  \* get_unmarked_ref
WithMark(l) == <<l[1], 1>>  \* get_marked_ref

\* ATOMIC_CAS_MB or CAS_PTR of the link of n.
CAS(n, old, new) == mem[n].next = old /\ mem' = [mem EXCEPT ![n].next = new]
CASFails(n, old) == mem[n].next # old /\ mem' = mem

Left(t)  == th[t].left
Right(t) == th[t].right
IsThere(t) == Key(Right(t)) = req[t].key

\* A search has returned and the operation is o.
Found(t, o) == th[t].pc = "found" /\ req[t].op = o

\* An update finds nothing to change.
NothingToDo(t) ==
    /\ \/ Found(t, "insert") /\ IsThere(t)
       \/ Found(t, "delete") /\ ~IsThere(t)
    /\ Return(t, "no")
    /\ UNCHANGED mem

\* The compare-and-swap that puts a new node between left and right.
MayLink_AnyMark(t) == Succ(Left(t)) = Right(t)
MayLink(t) == mem[Left(t)].next = <<Right(t), 0>>

LinkNew(t) ==
    /\ Found(t, "insert") /\ ~IsThere(t)
    /\ \/ /\ MayLink(t)
          /\ mem' = Linked(node(req[t].key, Right(t)), Left(t))
          /\ Return(t, "yes")
       \/ CASFails(Left(t), <<Right(t), 0>>) /\ Again(t)

\* The compare-and-swap that marks right, and what follows it.
MarkRight(t, then) ==
    /\ th[t].pc = "mark"
    /\ LET next == th[t].link
       IN \/ CAS(Right(t), next, WithMark(next)) /\ Goto(t, then)
          \/ CASFails(Right(t), next) /\ Again(t)
===============================================================================
