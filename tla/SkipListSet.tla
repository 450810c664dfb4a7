----------------------------- MODULE SkipListSet -----------------------------
(***************************************************************************)
(* What the skip lists under src/src have in common.  A node has a link    *)
(* <<node, mark>> per level, 0 .. toplevel - 1; how many is drawn at random *)
(* for each new node.  The first and the last node have them all.          *)
(***************************************************************************)
EXTENDS ConcurrentSet

CONSTANT levelmax

Levels == 0 .. levelmax - 1

KEY_MIN == 0
KEY_MAX == 1 + Cardinality(Keys)

head == 0

\* sl_new_simple_node; marked is deleted in fraser.c.
node(k, top, next) ==
    [key |-> k, toplevel |-> top, next |-> next, marked |-> FALSE,
     fullylinked |-> FALSE, lock |-> 0]

\* A skip list that holds s, whatever the levels drawn for its keys, as
\* insertions before the threads start leave it.
SkipInit ==
    \E s \in SUBSET Keys : \E drawn \in [Keys -> 1 .. levelmax] :
       LET order == {KEY_MIN, KEY_MAX} \cup s
           place(k) == Cardinality({j \in order : j < k})
           top(k) == IF k \in s THEN drawn[k] ELSE levelmax
           after(k, i) == {j \in order : j > k /\ top(j) > i}
           to(k, i) == IF after(k, i) = {} THEN Cardinality(order)
                       ELSE place(CHOOSE j \in after(k, i) :
                                     \A h \in after(k, i) : j <= h)
       IN /\ SetInit(s, 0)
          /\ mem = [n \in 0 .. Cardinality(order) - 1 |->
                      LET k == CHOOSE k \in order : place(k) = n
                      IN [node(k, top(k), [i \in Levels |-> <<to(k, i), 0>>])
                            EXCEPT !.fullylinked = TRUE]]

Key(n) == mem[n].key
Succ(n, i) == mem[n].next[i][1]

\* The links of a new node: below its top, to succs.
Links(succs) == [i \in Levels |-> <<succs[i], 0>>]

\* The link of n at level i becomes one to m.
SetLink(n, i, m) == mem' = [mem EXCEPT ![n].next[i] = <<m, 0>>]

\* A new node is in memory, and linked at level 0 behind n.
LinkedNew(new, n) ==
    [m \in DOMAIN mem \cup {Fresh} |->
        IF m = Fresh THEN new
        ELSE IF m = n THEN [mem[m] EXCEPT !.next[0] = <<Fresh, 0>>] ELSE mem[m]]

LOCK(t, n) == mem[n].lock = 0 /\ mem' = [mem EXCEPT ![n].lock = t]
UNLOCK(n) == mem' = [mem EXCEPT ![n].lock = 0]

\* The unlocks at the end of an update, which nothing comes between.
UnlockAll(S) ==
    mem' = [n \in DOMAIN mem |->
              IF n \in S THEN [mem[n] EXCEPT !.lock = 0] ELSE mem[n]]
===============================================================================
