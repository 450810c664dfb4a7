------------------------------ MODULE DoubleLlist ------------------------------
(***************************************************************************)
(* The doubly linked lists of wrappers, src/src/double_llist.c, and the two *)
(* ways a scan goes through one: smr.c copies the list to tmplist, empties  *)
(* it and pops tmplist; smr_no_membar_opt.c walks along mr_prev and removes *)
(* wrappers on the way.                                                     *)
(*                                                                          *)
(* A list belongs to one thread: each operation is a step.                  *)
(***************************************************************************)
EXTENDS Naturals, Sequences, FiniteSets

CONSTANTS
    Wrappers,   \* the mr_node_t of allocator 1
    NULL

Lists == {"rlist", "vlist", "tmplist"}

VARIABLES
    head, tail, size,   \* struct double_llist, for each list
    mr_next, mr_prev,   \* struct mr_node
    idle,               \* wrappers that allocator 1 has
    phase,              \* "idle", "popping" (smr.c) or "walking" (.._opt.c)
    cur,                \* the walk: cur
    todo                \* the walk: the wrappers it has not visited

links == <<mr_next, mr_prev>>
ends  == <<head, tail, size>>
vars  == <<ends, links, idle, phase, cur, todo>>

\* The contents of the structures as one value, so that an operation can be
\* applied to what another one returns (add_to_head(m, remove_from_tail(l))).
Now == [head |-> head, tail |-> tail, size |-> size,
        next |-> mr_next, prev |-> mr_prev]

Become(s) ==
    /\ head' = s.head /\ tail' = s.tail /\ size' = s.size
    /\ mr_next' = s.next /\ mr_prev' = s.prev

AddToHead(s, l, w) ==
    LET old == s.head[l]
    IN [head |-> [s.head EXCEPT ![l] = w],
        tail |-> IF old = NULL THEN [s.tail EXCEPT ![l] = w] ELSE s.tail,
        size |-> [s.size EXCEPT ![l] = @ + 1],
        next |-> [s.next EXCEPT ![w] = old],
        prev |-> IF old = NULL THEN [s.prev EXCEPT ![w] = NULL]
                 ELSE [s.prev EXCEPT ![w] = NULL, ![old] = w]]

\* For l not empty; of an empty list remove_from_tail returns NULL.
RemoveFromTail(s, l) ==
    LET w == s.tail[l]
        p == s.prev[w]
    IN [head |-> IF p = NULL THEN [s.head EXCEPT ![l] = NULL] ELSE s.head,
        tail |-> [s.tail EXCEPT ![l] = p],
        size |-> [s.size EXCEPT ![l] = @ - 1],
        next |-> IF p = NULL THEN s.next ELSE [s.next EXCEPT ![p] = NULL],
        prev |-> [s.prev EXCEPT ![w] = NULL]]

RemoveNode_TailKept(s, l, w) ==
    LET n == s.next[w]
        p == s.prev[w]
    IN [head |-> IF p = NULL THEN [s.head EXCEPT ![l] = n] ELSE s.head,
        tail |-> s.tail,
        size |-> [s.size EXCEPT ![l] = @ - 1],
        next |-> IF p = NULL THEN s.next ELSE [s.next EXCEPT ![p] = n],
        prev |-> IF n = NULL THEN s.prev ELSE [s.prev EXCEPT ![n] = p]]

\* The fields of the removed wrapper are left as they are.
RemoveNode(s, l, w) ==
    LET n == s.next[w]
        p == s.prev[w]
    IN [head |-> IF p = NULL THEN [s.head EXCEPT ![l] = n] ELSE s.head,
        tail |-> IF n = NULL THEN [s.tail EXCEPT ![l] = p] ELSE s.tail,
        size |-> [s.size EXCEPT ![l] = @ - 1],
        next |-> IF p = NULL THEN s.next ELSE [s.next EXCEPT ![p] = n],
        prev |-> IF n = NULL THEN s.prev ELSE [s.prev EXCEPT ![n] = p]]

Init ==
    /\ head = [l \in Lists |-> NULL] /\ tail = [l \in Lists |-> NULL]
    /\ size = [l \in Lists |-> 0]
    /\ mr_next = [w \in Wrappers |-> NULL] /\ mr_prev = [w \in Wrappers |-> NULL]
    /\ idle = Wrappers
    /\ phase = "idle" /\ cur = NULL /\ todo = <<>>

-----------------------------------------------------------------------------
\* free_node_later.
Retire(w) ==
    /\ phase = "idle" /\ w \in idle
    /\ Become(AddToHead(Now, "rlist", w))
    /\ idle' = idle \ {w}
    /\ UNCHANGED <<phase, cur, todo>>

\* free_node_later and mr_thread_exit of smr_lazy.c, and rotation for l = m.
Move(l, m) ==
    /\ phase = "idle" /\ tail[l] # NULL
    /\ Become(AddToHead(RemoveFromTail(Now, l), m, tail[l]))
    /\ UNCHANGED <<idle, phase, cur, todo>>

\* rotation and process_callbacks.
Release(l) ==
    /\ phase = "idle" /\ tail[l] # NULL
    /\ Become(RemoveFromTail(Now, l))
    /\ idle' = idle \cup {tail[l]}
    /\ UNCHANGED <<phase, cur, todo>>

\* scan of smr.c.
StartPopping ==
    /\ phase = "idle" /\ phase' = "popping"
    /\ Become([Now EXCEPT
          !.head["tmplist"] = head["rlist"], !.head["rlist"] = NULL,
          !.tail["tmplist"] = tail["rlist"], !.tail["rlist"] = NULL,
          !.size["tmplist"] = size["rlist"], !.size["rlist"] = 0])
    /\ UNCHANGED <<idle, cur, todo>>

Pop ==
    /\ phase = "popping"
    /\ LET w == tail["tmplist"]
       IN IF size["tmplist"] > 0
          THEN \/ /\ Become(AddToHead(RemoveFromTail(Now, "tmplist"), "rlist", w))
                  /\ UNCHANGED <<idle, phase>>
               \/ /\ Become(RemoveFromTail(Now, "tmplist"))
                  /\ idle' = idle \cup {w} /\ phase' = phase
          ELSE phase' = "idle" /\ UNCHANGED <<ends, links, idle>>
    /\ UNCHANGED <<cur, todo>>

\* A list from one end: n wrappers from w along the field.
Along(field, w, n) ==
    LET at[i \in 1 .. n] == IF i = 1 THEN w ELSE field[at[i - 1]]
    IN [i \in 1 .. n |-> at[i]]

Contents(l) == Along(mr_next, head[l], size[l])

\* scan of smr_no_membar_opt.c; with IGOR_OPT_LEVEL & 4 it stops at the first
\* wrapper that is not old enough.
StartWalking ==
    /\ phase = "idle" /\ phase' = "walking"
    /\ cur' = tail["rlist"]
    /\ todo' = Along(mr_prev, tail["rlist"], size["rlist"])
    /\ UNCHANGED <<ends, links, idle>>

WalkOn(s) == cur' = s.prev[cur] /\ todo' = Tail(todo)

Walk ==
    /\ phase = "walking"
    /\ \/ /\ cur = NULL \/ todo # <<>>
          /\ phase' = "idle" /\ cur' = NULL /\ todo' = <<>>
          /\ UNCHANGED <<ends, links, idle>>
       \/ /\ cur # NULL
          /\ WalkOn(Now)
          /\ UNCHANGED <<ends, links, idle, phase>>
       \/ /\ cur # NULL
          /\ Become(RemoveNode(Now, "rlist", cur))
          /\ WalkOn(RemoveNode(Now, "rlist", cur))
          /\ idle' = idle \cup {cur}
          /\ phase' = phase

Next ==
    \/ \E w \in Wrappers : Retire(w)
    \/ \E l, m \in {"rlist", "vlist"} : Move(l, m)
    \/ \E l \in {"rlist", "vlist"} : Release(l)
    \/ StartPopping \/ Pop \/ StartWalking \/ Walk

Spec == Init /\ [][Next]_vars

-----------------------------------------------------------------------------
TypeOK ==
    /\ head \in [Lists -> Wrappers \cup {NULL}]
    /\ tail \in [Lists -> Wrappers \cup {NULL}]
    /\ size \in [Lists -> 0 .. Cardinality(Wrappers)]
    /\ mr_next \in [Wrappers -> Wrappers \cup {NULL}]
    /\ mr_prev \in [Wrappers -> Wrappers \cup {NULL}]
    /\ idle \in SUBSET Wrappers
    /\ phase \in {"idle", "popping", "walking"}
    /\ cur \in Wrappers \cup {NULL}
    /\ todo \in Seq(Wrappers)

\* Both directions of a list, its two ends and its size agree, whatever the order
\* in which wrappers were added, popped and removed from the middle: following
\* mr_prev from the tail gives the reverse of following mr_next from the head,
\* and both end.
BothWaysAgree ==
    \A l \in Lists :
       LET n == size[l]
       IN IF n = 0 THEN head[l] = NULL /\ tail[l] = NULL
          ELSE /\ \A i \in 1 .. n :
                     Along(mr_prev, tail[l], n)[i] = Contents(l)[n + 1 - i]
               /\ mr_next[Contents(l)[n]] = NULL /\ mr_prev[head[l]] = NULL

\* The walk, which removes the wrapper it stands on and then follows that
\* wrapper's mr_prev, visits every wrapper once, the oldest first.
WalkVisitsAll ==
    phase = "walking" => cur = IF todo = <<>> THEN NULL ELSE Head(todo)

Abstract == INSTANCE RetireList
              WITH lists <- [l \in Lists |-> Contents(l)]
===============================================================================
