------------------------------- MODULE QsbrLists -------------------------------
(***************************************************************************)
(* The lists over QSBR: linkedlist-qsbr-harris_opt/harris_opt.c (Opt),      *)
(* linkedlist-qsbr/harris.c (Run) and linkedlist-qsbr-hart/list_lf_qsbr.c   *)
(* (Hart), with nodes whose addresses are used again.                      *)
(*                                                                         *)
(* The scheme is its promise here: a retired node may be freed as soon as   *)
(* every thread that was in an operation when it was retired has left that  *)
(* operation; no later one may meet the node.  Module Qsbr says when        *)
(* src/src/qsbr.c keeps the promise.                                       *)
(***************************************************************************)
EXTENDS ListSet

VARIABLE gc     \* gc[t]: what t has retired (limbo), its allocator (pool), and
                \* newnode, or n in Hart's list: a node it has not linked yet

graceVars == <<vars, gc>>

NULL == 0 - 1
POISON == KEY_MAX + 1       \* 600000

Opt == INSTANCE MichaelList
Run == INSTANCE HarrisList

GraceInit ==
    /\ Init
    /\ gc = [t \in Threads |-> [limbo |-> {}, pool |-> {}, newnode |-> NULL]]

StartOperation(t) == BeginSearch(t) /\ gc' = gc

-----------------------------------------------------------------------------
\* free_node_later(n); an operation is named by the calls its thread has left.
Operations == {<<u, req[u].left>> : u \in {v \in Threads : th[v].pc # "idle"}}
Ended(o) == o \notin Operations

Retired(n) == [node |-> n, while |-> Operations]
free_node_later(t, N) == gc' = [gc EXCEPT ![t].limbo = @ \cup {Retired(n) : n \in N}]

\* process_callbacks, from quiescent_state between two operations.
Freeable_Always(r) == TRUE
Freeable(r) == \A o \in r.while : Ended(o)

process_callbacks(t) ==
    LET F == {r \in gc[t].limbo : Freeable(r)}
        N == {r.node : r \in F}
    IN /\ th[t].pc = "idle" /\ F # {}
       /\ mem' = [n \in DOMAIN mem |->
                    IF n \in N THEN [mem[n] EXCEPT !.key = POISON] ELSE mem[n]]
       /\ gc' = [gc EXCEPT ![t].limbo = @ \ F, ![t].pool = @ \cup N]
       /\ UNCHANGED <<th, req, lin>>

\* ssalloc_alloc(0, ..), and what new_node stores.
Allocate(t, next, l) ==
    \E n \in IF gc[t].pool = {} THEN {Fresh} ELSE gc[t].pool :
       /\ mem' = [m \in DOMAIN mem \cup {n} |->
                    IF m = n THEN node(req[t].key, next) ELSE mem[m]]
       /\ gc' = [gc EXCEPT ![t].pool = @ \ {n}, ![t].newnode = n]
       /\ Goto(t, l)

New(t) == gc[t].newnode
Linking(t) ==
    /\ CAS(Left(t), <<Right(t), 0>>, <<New(t), 0>>)
    /\ gc' = [gc EXCEPT ![t].newnode = NULL]
GiveBack(t) == gc' = [gc EXCEPT ![t].pool = @ \cup {New(t)}, ![t].newnode = NULL]

-----------------------------------------------------------------------------
(* linkedlist-qsbr-harris_opt: as linkedlist-harris_opt, and what           *)
(* physical_delete_right has unlinked is retired.                           *)

physical_delete_right(t, then) ==
    /\ \/ /\ CAS(Left(t), <<Right(t), 0>>, Unmarked(mem[Right(t)].next))
          /\ free_node_later(t, {Right(t)}) /\ Goto(t, then)
       \/ /\ CASFails(Left(t), <<Right(t), 0>>) /\ gc' = gc
          /\ IF then = "return"
             THEN On(t, [Locals("search", head, head, <<head, 0>>) EXCEPT !.then = then])
             ELSE Goto(t, then)

OptSearch(t) ==
    \/ /\ th[t].pc = "search"
       /\ On(t, [Locals(IF req[t].op = "find" THEN "pass" ELSE "look",
                        head, Succ(head), <<head, 0>>) EXCEPT !.then = th[t].then])
       /\ UNCHANGED <<mem, gc>>
    \/ /\ th[t].pc = "look" /\ UNCHANGED <<mem, gc>>
       /\ IF Marked(mem[Right(t)].next) THEN Goto(t, "delete_right")
          ELSE IF Key(Right(t)) >= req[t].key THEN Goto(t, th[t].then)
          ELSE On(t, [th[t] EXCEPT !.pc = "step", !.left = Right(t)])
    \/ th[t].pc = "delete_right" /\ physical_delete_right(t, "step")
    \/ Opt!OptStep(t) /\ gc' = gc

OptFind(t) == (Opt!Pass(t) \/ Opt!harris_find(t)) /\ gc' = gc

OptInsert(t) ==
    \/ Found(t, "insert") /\ IsThere(t) /\ NothingToDo(t) /\ gc' = gc
    \/ Found(t, "insert") /\ ~IsThere(t) /\ Allocate(t, Right(t), "link")
    \/ th[t].pc = "link" /\ Linking(t) /\ Return(t, "yes")
    \/ /\ th[t].pc = "link" /\ CASFails(Left(t), <<Right(t), 0>>)
       /\ GiveBack(t) /\ Again(t)

OptDelete(t) ==
    \/ Found(t, "delete") /\ ~IsThere(t) /\ NothingToDo(t) /\ gc' = gc
    \/ (Opt!ReadNext(t) \/ Opt!Mark(t)) /\ gc' = gc
    \/ th[t].pc = "unlink" /\ physical_delete_right(t, "return")
    \/ th[t].pc = "return" /\ Return(t, "yes") /\ UNCHANGED <<mem, gc>>

OptNext ==
    \/ \E t \in Threads :
          \/ StartOperation(t) \/ process_callbacks(t)
          \/ OptSearch(t) \/ OptFind(t) \/ OptInsert(t) \/ OptDelete(t)
    \/ AllDone /\ UNCHANGED gc

OptSpec == GraceInit /\ [][OptNext]_graceVars

-----------------------------------------------------------------------------
(* linkedlist-qsbr: as linkedlist, and the whole run is retired.            *)

\* From left_node_next to right_node.
Between(t) ==
    LET n[i \in 0 .. Cardinality(DOMAIN mem)] ==
          IF i = 0 THEN th[t].link[1]
          ELSE IF n[i - 1] = Right(t) THEN Right(t) ELSE Succ(n[i - 1])
    IN {n[i] : i \in DOMAIN n} \ {Right(t)}

RunSearch(t) ==
    \/ (Run!Walk(t) \/ Run!CheckAdjacent(t) \/ Run!CheckAgain(t)) /\ gc' = gc
    \/ Run!UnlinkRun(t) /\ IF th'[t].pc = "check_again"
                           THEN free_node_later(t, Between(t)) ELSE gc' = gc

RunFind(t) == Run!harris_find(t) /\ gc' = gc

\* newnode is kept from one attempt to the next, and retired in the end.
RunInsert(t) ==
    \/ /\ Found(t, "insert") /\ IsThere(t) /\ NothingToDo(t)
       /\ gc' = IF New(t) = NULL THEN gc
                ELSE [gc EXCEPT ![t].newnode = NULL,
                                ![t].limbo = @ \cup {Retired(New(t))}]
    \/ /\ Found(t, "insert") /\ ~IsThere(t)
       /\ IF New(t) = NULL THEN Allocate(t, Right(t), "link")
          ELSE /\ mem' = [mem EXCEPT ![New(t)].next = <<Right(t), 0>>]
               /\ Goto(t, "link") /\ gc' = gc
    \/ th[t].pc = "link" /\ Linking(t) /\ Return(t, "yes")
    \/ /\ th[t].pc = "link" /\ CASFails(Left(t), <<Right(t), 0>>)
       /\ gc' = gc /\ Again(t)

RunDelete(t) ==
    \/ Found(t, "delete") /\ ~IsThere(t) /\ NothingToDo(t) /\ gc' = gc
    \/ (Run!ReadNext(t) \/ Run!Mark(t) \/ Run!Done(t)) /\ gc' = gc
    \/ /\ Run!Unlink(t)
       /\ IF th'[t].pc = "idle" THEN free_node_later(t, {Right(t)}) ELSE gc' = gc

RunNext ==
    \/ \E t \in Threads :
          \/ StartOperation(t) \/ process_callbacks(t)
          \/ RunSearch(t) \/ RunFind(t) \/ RunInsert(t) \/ RunDelete(t)
    \/ AllDone /\ UNCHANGED gc

-----------------------------------------------------------------------------
(* linkedlist-qsbr-hart.  prev, a link, is the node it is in (head for the   *)
(* list's own), cur is right_node, and the node with KEY_MAX is NULL.       *)

tail == CHOOSE n \in DOMAIN mem : Key(n) = KEY_MAX
InPlace(t) == mem[Left(t)].next = <<Right(t), 0>>

\* find, and search, which is the same.
HartFind(t) ==
    \/ /\ th[t].pc = "search" /\ (req[t].op = "insert" => New(t) # NULL)
       /\ On(t, Locals("loop", head, Succ(head), <<head, 0>>))
       /\ UNCHANGED <<mem, gc>>
    \/ /\ th[t].pc = "loop" /\ UNCHANGED <<mem, gc>>
       /\ IF Right(t) = tail THEN Goto(t, "found")
          ELSE IF InPlace(t) THEN Goto(t, "look") ELSE Again(t)
    \/ /\ th[t].pc = "look" /\ UNCHANGED <<mem, gc>>
       /\ On(t, [th[t] EXCEPT !.link = Unmarked(mem[Right(t)].next),
                  !.pc = IF Marked(mem[Right(t)].next) THEN "delete_right" ELSE "check"])
    \/ /\ th[t].pc = "delete_right"
       /\ \/ /\ CAS(Left(t), <<Right(t), 0>>, th[t].link)
             /\ free_node_later(t, {Right(t)}) /\ Goto(t, "next")
          \/ CASFails(Left(t), <<Right(t), 0>>) /\ Again(t) /\ gc' = gc
    \/ /\ th[t].pc = "check" /\ UNCHANGED <<mem, gc>>
       /\ IF ~InPlace(t) THEN Again(t)
          ELSE IF Key(Right(t)) >= req[t].key THEN Goto(t, "found")
          ELSE On(t, [th[t] EXCEPT !.pc = "next", !.left = Right(t)])
    \/ /\ th[t].pc = "next" /\ UNCHANGED <<mem, gc>>
       /\ On(t, [th[t] EXCEPT !.pc = "loop", !.right = th[t].link[1]])

HartSearch(t) == Found(t, "find") /\ Run!harris_find(t) /\ gc' = gc

\* insert allocates first, and links what find says.
HartInsert(t) ==
    \/ /\ th[t].pc = "search" /\ req[t].op = "insert" /\ New(t) = NULL
       /\ Allocate(t, head, "search")
    \/ Found(t, "insert") /\ IsThere(t) /\ NothingToDo(t) /\ GiveBack(t)
    \/ /\ Found(t, "insert") /\ ~IsThere(t)
       /\ IF InPlace(t)
          THEN /\ mem' = [mem EXCEPT ![New(t)].next = <<Right(t), 0>>,
                                     ![Left(t)].next = <<New(t), 0>>]
               /\ gc' = [gc EXCEPT ![t].newnode = NULL] /\ Return(t, "yes")
          ELSE Again(t) /\ UNCHANGED <<mem, gc>>

HartDelete(t) ==
    LET next == th[t].link
    IN \/ Found(t, "delete") /\ ~IsThere(t) /\ NothingToDo(t) /\ gc' = gc
       \/ /\ Found(t, "delete") /\ IsThere(t) /\ gc' = gc
          /\ \/ CAS(Right(t), next, WithMark(next)) /\ Goto(t, "unlink")
             \/ CASFails(Right(t), next) /\ Again(t)
       \/ /\ th[t].pc = "unlink" /\ Return(t, "yes")
          /\ \/ CAS(Left(t), <<Right(t), 0>>, next) /\ free_node_later(t, {Right(t)})
             \/ CASFails(Left(t), <<Right(t), 0>>) /\ gc' = gc

HartNext ==
    \/ \E t \in Threads :
          \/ StartOperation(t) \/ process_callbacks(t)
          \/ HartFind(t) \/ HartSearch(t) \/ HartInsert(t) \/ HartDelete(t)
    \/ AllDone /\ UNCHANGED gc

-----------------------------------------------------------------------------
\* What the lists owe the scheme: what is retired is no longer in the list, and
\* is retired once; and then no operation is on a node that has been freed.
InList ==
    LET n[i \in 0 .. Cardinality(DOMAIN mem)] ==
          IF i = 0 THEN head
          ELSE IF Key(n[i - 1]) = KEY_MAX THEN n[i - 1] ELSE Succ(n[i - 1])
    IN {n[i] : i \in DOMAIN n}

Limbo == UNION {gc[t].limbo : t \in Threads}
Pools == UNION {gc[t].pool : t \in Threads}

RetiredOnceUnlinked ==
    /\ \A r, s \in Limbo : r # s => r.node # s.node
    /\ \A r \in Limbo : r.node \notin InList \cup Pools
    /\ \A t \in Threads : th[t].pc # "idle" => {Left(t), Right(t)} \cap Pools = {}
===============================================================================
