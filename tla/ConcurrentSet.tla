---------------------------- MODULE ConcurrentSet ----------------------------
(***************************************************************************)
(* What the search structures under src/src have in common: threads that   *)
(* call find, insert and delete, and what the answers must be.             *)
(*                                                                         *)
(* The structures say how an operation goes; here is only its beginning    *)
(* and its end.  lin is a history variable: every way to have applied the  *)
(* operations begun so far to a set, each at one moment between its call   *)
(* and its return, that gives the answers returned so far.                 *)
(***************************************************************************)
EXTENDS Integers, Sequences, FiniteSets, TLC

CONSTANTS
    Threads, Keys,
    MaxOps,     \* bound: MaxOps[t] is how often t calls
    Fill        \* bound: keys that one thread inserts before the others start

VARIABLES
    mem,    \* the shared memory: what is at each address in use
    th,     \* th[t]: where t is (pc) and its local variables
    req,    \* req[t]: the operation of t, its key, and the calls t has left
    lin     \* ways to linearize; a way is a set and what it answers to whom

vars == <<mem, th, req, lin>>

Ops == {"find", "insert", "delete"}

Idle == [pc |-> "idle"]

Filler == CHOOSE t \in Threads : \A u \in Threads : t <= u
Filling == req[Filler].left > MaxOps[Filler]
NextToFill == Fill[1 + MaxOps[Filler] + Len(Fill) - req[Filler].left]

\* A structure that holds s, and no call yet; n calls of the filler come first.
SetInit(s, n) ==
    /\ th = [t \in Threads |-> Idle]
    /\ req = [t \in Threads |-> [op |-> "find", key |-> 0, left |->
                 IF t = Filler THEN MaxOps[t] + n ELSE MaxOps[t]]]
    /\ lin = {[set |-> s, ans |-> [t \in Threads |-> "none"]]}

-----------------------------------------------------------------------------
\* c, after the operation of t has taken effect.
Applied(c, t) ==
    LET k == req[t].key
        yes == (k \in c.set) = (req[t].op # "insert")
    IN [set |-> CASE req[t].op = "find" -> c.set
                  [] req[t].op = "insert" -> c.set \cup {k}
                  [] req[t].op = "delete" -> c.set \ {k},
        ans |-> [c.ans EXCEPT ![t] = IF yes THEN "yes" ELSE "no"]]

OneMore(C) ==
    C \cup UNION {{Applied(c, t) : t \in {u \in Threads : c.ans[u] = "pending"}}
                  : c \in C}

\* The ways to go on from those in C with operations that have begun.
Extended(C) ==
    LET ext[n \in 0 .. Cardinality(Threads)] ==
          IF n = 0 THEN C ELSE OneMore(ext[n - 1])
    IN ext[Cardinality(Threads)]

-----------------------------------------------------------------------------
\* t calls o with key k and has the local variables s then.
Call(t, o, k, s) ==
    /\ th[t].pc = "idle" /\ req[t].left > 0
    /\ Filling => t = Filler /\ o = "insert" /\ k = NextToFill
    /\ req' = [req EXCEPT ![t] = [op |-> o, key |-> k, left |-> @.left - 1]]
    /\ lin' = {[c EXCEPT !.ans[t] = "pending"] : c \in lin}
    /\ th' = [th EXCEPT ![t] = s]

\* The operation of t returns; 0 and false are "no".
Return(t, answer) ==
    /\ th' = [th EXCEPT ![t] = Idle]
    /\ lin' = {[c EXCEPT !.ans[t] = "none"] :
                 c \in {d \in Extended(lin) : d.ans[t] = answer}}
    /\ req' = [req EXCEPT ![t] = [op |-> "find", key |-> 0, left |-> @.left]]

\* t goes on within its operation.
On(t, s) ==
    /\ th' = [th EXCEPT ![t] = s]
    /\ UNCHANGED <<req, lin>>

Goto(t, l) == On(t, [th[t] EXCEPT !.pc = l])

AllDone ==
    /\ \A t \in Threads : th[t].pc = "idle" /\ req[t].left = 0
    /\ UNCHANGED vars

\* The next address; nothing is freed, or it is not reused while in sight.
Fresh == Cardinality(DOMAIN mem)

-----------------------------------------------------------------------------
\* Every answer is that of a set to which the operations were applied one after
\* the other, each between its call and its return.
Linearizable == lin # {}
===============================================================================
