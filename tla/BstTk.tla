--------------------------------- MODULE BstTk ---------------------------------
(***************************************************************************)
(* The external search tree with versioned locks, src/src/bst-tk/bst_tk.c. *)
(* An inner node has a lock for each child: a version and a ticket, both    *)
(* 16 bits wide, free when they are equal.  An update takes the locks it    *)
(* wants only if they have the versions it saw on the way down.            *)
(***************************************************************************)
EXTENDS ConcurrentSet

CONSTANT Mod    \* 2^16

INT_MIN == 0
INT_MAX == 1 + Cardinality(Keys)

Sides == {0, 1}     \* 0 is left

Free == [version |-> 0, ticket |-> 0]
REMOVED == [version |-> 0, ticket |-> Mod - 1]      \* TLN_REMOVED

\* A leaf has no children.
node(k, children) ==
    [key |-> k, child |-> children, lock |-> [s \in Sides |-> Free]]
leaf(n) == mem[n].child = <<>>

head == 0

\* set_new.
Init ==
    /\ SetInit({}, Len(Fill))
    /\ mem = 0 :> node(INT_MAX, 0 :> 1 @@ 1 :> 2)
          @@ 1 :> node(INT_MIN, <<>>) @@ 2 :> node(INT_MAX, <<>>)

\* ver is what was read of the lock of curr, then of pred and of ppred.
Path(l) ==
    [pc |-> l, curr |-> head, pred |-> head, ppred |-> head,
     ver |-> <<>>, pver |-> <<>>, ppver |-> <<>>, right |-> 0, pright |-> 0]

Begin(t) ==
    /\ \E o \in Ops, k \in Keys :
          Call(t, o, k, Path(IF o = "find" THEN "child" ELSE "version"))
    /\ UNCHANGED mem

Side(n, k) == IF k < mem[n].key THEN 0 ELSE 1

\* The version of an inner node is read before the child.
Version(t) ==
    /\ th[t].pc = "version"
    /\ On(t, [th[t] EXCEPT !.pc = "child", !.ver = mem[th[t].curr].lock])
    /\ UNCHANGED mem

Child(t) ==
    LET s == th[t]
        right == Side(s.curr, req[t].key)
        next == mem[s.curr].child[right]
        moved == [s EXCEPT !.ppred = s.pred, !.ppver = s.pver, !.pright = s.right,
                           !.pred = s.curr, !.pver = s.ver, !.right = right,
                           !.curr = next]
    IN /\ s.pc = "child"
       /\ On(t, [moved EXCEPT !.pc = IF leaf(next) THEN "leaf"
                                     ELSE IF req[t].op = "find" THEN "child"
                                     ELSE "version"])
       /\ UNCHANGED mem

IsThere(t) == mem[th[t].curr].key = req[t].key

\* bst_tk_find, and updates that have nothing to do.
Answer(t) ==
    /\ th[t].pc = "leaf"
    /\ IsThere(t) = (req[t].op = "insert") \/ req[t].op = "find"
    /\ Return(t, IF req[t].op = "find" /\ IsThere(t) THEN "yes" ELSE "no")
    /\ UNCHANGED mem

\* Taken with version v, an old one is turned down.
Held(v) == [v EXCEPT !.ticket = (@ + 1) % Mod]
IsFree(v) == v.version = v.ticket
MayTake_AnyFree(n, ver, s) == IsFree(mem[n].lock[s])
MayTake(n, ver, s) == IsFree(ver[s]) /\ mem[n].lock[s] = ver[s]

Retry(t) == On(t, Path("version"))

\* tl_trylock_version: of ppred for a deletion, of pred for an insertion.
LockFirst(t) ==
    LET s == th[t]
        delete == req[t].op = "delete"
        n == IF delete THEN s.ppred ELSE s.pred
        side == IF delete THEN s.pright ELSE s.right
        ver == IF delete THEN s.ppver ELSE s.pver
    IN /\ s.pc = "leaf" /\ req[t].op # "find"
       /\ IsThere(t) = delete
       /\ IF MayTake(n, ver, side)
          THEN /\ mem' = [mem EXCEPT ![n].lock[side] = Held(@)]
               /\ Goto(t, req[t].op)
          ELSE Retry(t) /\ UNCHANGED mem

\* bst_tk_insert: an inner node over the leaf found and a new one.
Insert(t) ==
    LET s == th[t]
        k == mem[s.curr].key
        new == Fresh
        inner == IF req[t].key < k THEN node(k, 0 :> new @@ 1 :> s.curr)
                 ELSE node(req[t].key, 0 :> s.curr @@ 1 :> new)
    IN /\ s.pc = "insert" /\ Goto(t, "unlock")
       /\ mem' = new :> node(req[t].key, <<>>) @@ (new + 1) :> inner
                 @@ [mem EXCEPT ![s.pred].child[s.right] = new + 1]

\* bst_tk_delete: both locks of pred at once, for good, or revert and retry.
Remove(t) ==
    LET s == th[t]
    IN /\ s.pc = "delete"
       /\ IF \A side \in Sides : MayTake(s.pred, s.pver, side)
          THEN /\ mem' = [mem EXCEPT ![s.pred].lock = [side \in Sides |-> REMOVED]]
               /\ Goto(t, "unlink")
          ELSE /\ mem' = [mem EXCEPT ![s.ppred].lock[s.pright].ticket = (@ - 1) % Mod]
               /\ Retry(t)

\* The sibling takes the place of pred.
Unlink(t) ==
    LET s == th[t]
    IN /\ s.pc = "unlink" /\ Goto(t, "unlock")
       /\ mem' = [mem EXCEPT ![s.ppred].child[s.pright] =
                    mem[s.pred].child[1 - s.right]]

Unlock(t) ==
    LET s == th[t]
        n == IF req[t].op = "delete" THEN s.ppred ELSE s.pred
        side == IF req[t].op = "delete" THEN s.pright ELSE s.right
    IN /\ s.pc = "unlock" /\ Return(t, "yes")
       /\ mem' = [mem EXCEPT ![n].lock[side].version = (@ + 1) % Mod]

Next ==
    \/ \E t \in Threads :
          \/ Begin(t) \/ Version(t) \/ Child(t) \/ Answer(t) \/ LockFirst(t)
          \/ Insert(t) \/ Remove(t) \/ Unlink(t) \/ Unlock(t)
    \/ AllDone

Spec == Init /\ [][Next]_vars
===============================================================================
