------------------------------- MODULE SmrLists -------------------------------
(***************************************************************************)
(* The lists over hazard pointers.                                         *)
(* src/src/linkedlist-smr-harris_opt/harris_opt.c: Harris's list, each node *)
(* guarded by one of two hazard pointers in turn (Next).                    *)
(* src/src/linkedlist-smr-hart/list_lf_smr.c: Michael's list (HartNext).    *)
(* prev, a link, is the node it is in (head for the list's own), cur is     *)
(* right_node, and the node with KEY_MAX is NULL.                           *)
(*                                                                         *)
(* What they share of src/src/smr.c comes first: module Smr in the small,  *)
(* but with real links, and with nodes whose addresses are used again once *)
(* scan has freed them.                                                    *)
(***************************************************************************)
EXTENDS ListSet

CONSTANTS
    R,          \* length of rlist at which free_node_later scans
    Updaters    \* the threads that insert and delete

VARIABLES
    HP,     \* HP[t][o].p, for the slots 0 and 1 of each thread
    sd      \* sd[t]: rlist; plist and what else a scan needs; the nodes in the
            \* thread's allocator; off, the slot to be written next

smr == <<HP, sd>>
listVars == <<vars, smr>>

POISON == KEY_MAX + 1       \* 600000
K == 2
SlotOf == [i \in 0 .. K * Cardinality(Threads) - 1 |-> <<1 + (i \div K), i % K>>]

Quiet == [off |-> 0, rlist |-> {}, plist |-> {}, i |-> 0, pool |-> {},
          after |-> "idle"]

SmrInit ==
    /\ Init
    /\ HP = [t \in Threads |-> [o \in 0 .. 1 |-> head]]
    /\ sd = [t \in Threads |-> Quiet]

Set(t, r) == sd' = [sd EXCEPT ![t] = r]

Publish(t, n) == HP' = [HP EXCEPT ![t][sd[t].off] = n]

\* The other slot, and with it the guard of the node before the last one, is
\* given up next.
Flip(t) == sd' = [sd EXCEPT ![t].off = 1 - @]

\* free_node_later(n), and on to l; n is unlinked by the same step.
FreeNodeLater(t, n, l) ==
    LET r == sd[t].rlist \cup {n}
        due == Cardinality(r) >= R
    IN /\ Set(t, [sd[t] EXCEPT !.rlist = r, !.after = l, !.plist = {}, !.i = 0])
       /\ Goto(t, IF due THEN "scan" ELSE l)

\* scan, stage 1: one slot after the other.
ReadSlot(t) ==
    /\ th[t].pc = "scan"
    /\ LET p == HP[SlotOf[sd[t].i][1]][SlotOf[sd[t].i][2]]
       IN Set(t, [sd[t] EXCEPT !.plist = @ \cup {p}, !.i = @ + 1])
    /\ Goto(t, IF sd[t].i + 1 \in DOMAIN SlotOf THEN "scan" ELSE "free")
    /\ UNCHANGED <<mem, HP>>

Freed_All(t) == sd[t].rlist
Freed(t) == sd[t].rlist \ sd[t].plist

\* stage 3, and back to where free_node_later was called.
FreeNonHazardous(t) ==
    /\ th[t].pc = "free"
    /\ mem' = [n \in DOMAIN mem |->
                 IF n \in Freed(t) THEN [mem[n] EXCEPT !.key = POISON] ELSE mem[n]]
    /\ Set(t, [sd[t] EXCEPT !.rlist = @ \ Freed(t), !.pool = @ \cup Freed(t)])
    /\ Goto(t, sd[t].after)
    /\ HP' = HP

\* ssalloc_alloc(0, ..): the thread's own freed nodes first (module Ssalloc).
Allocate(t, n) ==
    IF sd[t].pool = {} THEN n = Fresh ELSE n \in sd[t].pool

\* new_node(key, val, next): t holds it as its link now.
NewNode(t, next, l) ==
    \E n \in DOMAIN mem \cup {Fresh} :
       /\ Allocate(t, n)
       /\ mem' = [m \in DOMAIN mem \cup {n} |->
                    IF m = n THEN node(req[t].key, next) ELSE mem[m]]
       /\ Set(t, [sd[t] EXCEPT !.pool = @ \ {n}])
       /\ On(t, [th[t] EXCEPT !.pc = l, !.link = <<n, 0>>])

New(t) == th[t].link[1]

\* ssfree_alloc(0, node_to_add)
GiveBack(t) == Set(t, [sd[t] EXCEPT !.pool = @ \cup {New(t)}])

-----------------------------------------------------------------------------
InPool == UNION {sd[t].pool : t \in Threads}

\* What a thread still dereferences: left_node (or prev) from the moment it is
\* one, and right_node (or cur) once it has been validated.
Reclaiming(t) == th[t].pc \in {"scan", "free"} /\ sd[t].after # "return"
HoldsRight(t) ==
    th[t].pc \in {"look", "check", "pass", "delete_right", "step", "found",
                  "mark", "unlink"}
HoldsLeft(t) ==
    HoldsRight(t) \/ th[t].pc \in {"next", "loop", "publish", "validate", "link"}

InUse(t) ==
    {n \in {Left(t)} : HoldsLeft(t) \/ Reclaiming(t)}
      \cup {n \in {Right(t)} : HoldsRight(t)}

\* No operation dereferences a node that scan has given back to an allocator,
\* wherever in the list it is ("Touched illegal node in search").
NoUseAfterFree ==
    \A t \in Threads : th[t].pc # "idle" => InUse(t) \cap InPool = {}

-----------------------------------------------------------------------------
(* linkedlist-smr-harris_opt.                                               *)

StartOperation(t) ==
    /\ BeginSearch(t) /\ UNCHANGED smr
    /\ t \notin Updaters => req'[t].op = "find"

\* try_again_search; offset is 0 in the first round of list_search or of
\* harris_find, and stays what it is in the next ones.
Enter(t) ==
    /\ \/ th[t].pc = "search" /\ sd' = [sd EXCEPT ![t].off = 0]
       \/ th[t].pc = "again" /\ sd' = sd
    /\ On(t, [th[t] EXCEPT !.pc = "publish", !.left = head, !.right = Succ(head)])
    /\ UNCHANGED <<mem, HP>>

PublishRight(t) ==
    /\ th[t].pc = "publish" /\ Publish(t, Right(t))
    /\ Goto(t, "validate")
    /\ UNCHANGED <<mem, sd>>

InPlace_Always(t) == TRUE
InPlace(t) == mem[Left(t)].next = <<Right(t), 0>>

Validate(t) ==
    /\ th[t].pc = "validate"
    /\ IF InPlace(t)
       THEN Flip(t) /\ Goto(t, IF req[t].op = "find" THEN "pass" ELSE "look")
       ELSE sd' = sd /\ Goto(t, "again")
    /\ UNCHANGED <<mem, HP>>

\* list_search; a marked right_node keeps its link.
Look(t) ==
    /\ th[t].pc = "look"
    /\ IF Marked(mem[Right(t)].next) THEN Goto(t, "delete_right")
       ELSE IF Key(Right(t)) >= req[t].key THEN Goto(t, th[t].then)
       ELSE On(t, [th[t] EXCEPT !.pc = "step", !.left = Right(t)])
    /\ UNCHANGED <<mem, smr>>

\* physical_delete_right; what was unlinked is retired.
Delete(t, then) ==
    /\ CAS(Left(t), <<Right(t), 0>>, Unmarked(mem[Right(t)].next))
    /\ FreeNodeLater(t, Right(t), then)
    /\ HP' = HP

DeleteFails(t) == CASFails(Left(t), <<Right(t), 0>>) /\ UNCHANGED smr

DeleteRight(t) ==
    /\ th[t].pc = "delete_right"
    /\ \/ Delete(t, "step")
       \/ DeleteFails(t) /\ Goto(t, "step")

Step(t) ==
    /\ th[t].pc = "step"
    /\ On(t, [th[t] EXCEPT !.pc = "publish", !.right = Succ(Right(t))])
    /\ UNCHANGED <<mem, smr>>

\* harris_find: every node becomes left_node, marked or not.
Pass(t) ==
    /\ th[t].pc = "pass" /\ Key(Right(t)) < req[t].key
    /\ On(t, [th[t] EXCEPT !.pc = "publish", !.left = Right(t),
                           !.right = Succ(Right(t))])
    /\ UNCHANGED <<mem, smr>>

harris_find(t) ==
    /\ th[t].pc = "pass" /\ Key(Right(t)) >= req[t].key
    /\ Return(t, IF IsThere(t) /\ ~Marked(mem[Right(t)].next)
                 THEN "yes" ELSE "no")
    /\ UNCHANGED <<mem, smr>>

NothingToChange(t) == NothingToDo(t) /\ UNCHANGED smr

\* harris_insert; the node is not seen before it is linked.  Hart's insert allocates
\* n before it calls find, and keeps it for its next round; here it takes n when it
\* needs it, from what the thread has freed up to then.
MakeNode(t) ==
    /\ Found(t, "insert") /\ ~IsThere(t)
    /\ NewNode(t, Right(t), "link")
    /\ HP' = HP

harris_insert(t) ==
    /\ th[t].pc = "link"
    /\ \/ /\ CAS(Left(t), <<Right(t), 0>>, <<New(t), 0>>)
          /\ sd' = sd /\ Return(t, "yes")
       \/ CASFails(Left(t), <<Right(t), 0>>) /\ GiveBack(t) /\ Again(t)
    /\ HP' = HP

\* harris_delete.
ReadNext(t) ==
    /\ Found(t, "delete") /\ IsThere(t)
    /\ On(t, [th[t] EXCEPT !.pc = "mark", !.link = Unmarked(mem[Right(t)].next)])
    /\ UNCHANGED <<mem, smr>>

Mark(t) == MarkRight(t, "unlink") /\ UNCHANGED smr

\* If the node cannot be unlinked here, list_search does it.
Unlink(t) ==
    /\ th[t].pc = "unlink"
    /\ \/ Delete(t, "return")
       \/ /\ DeleteFails(t)
          /\ On(t, [th[t] EXCEPT !.pc = "search", !.then = "return"])

harris_delete(t) ==
    /\ th[t].pc = "return" /\ Return(t, "yes")
    /\ UNCHANGED <<mem, smr>>

Next ==
    \/ \E t \in Threads :
          \/ StartOperation(t) \/ Enter(t) \/ PublishRight(t) \/ Validate(t)
          \/ Look(t) \/ DeleteRight(t) \/ Step(t) \/ Pass(t) \/ harris_find(t)
          \/ NothingToChange(t) \/ MakeNode(t) \/ harris_insert(t)
          \/ ReadNext(t) \/ Mark(t) \/ Unlink(t) \/ harris_delete(t)
          \/ ReadSlot(t) \/ FreeNonHazardous(t)
    \/ AllDone /\ UNCHANGED smr

Spec == SmrInit /\ [][Next]_listVars
-----------------------------------------------------------------------------
(* linkedlist-smr-hart.                                                     *)

tail == CHOOSE n \in DOMAIN mem : Key(n) = KEY_MAX
cur(t) == <<Right(t), 0>>

HartStart(t) == BeginSearch(t) /\ UNCHANGED smr

\* try_again, in find and in search; insert allocates once and looks for the
\* place of its node afterwards.
HartEnter(t) ==
    /\ \/ th[t].pc = "search" /\ sd' = [sd EXCEPT ![t].off = 0]
       \/ th[t].pc = "again" /\ sd' = sd
    /\ On(t, [th[t] EXCEPT !.pc = "loop", !.left = head, !.right = Succ(head)])
    /\ UNCHANGED <<mem, HP>>

\* for (..; cur != NULL; ..): the end of the list, or HP[base+off].p = cur.
AtEnd(t) ==
    /\ th[t].pc = "loop" /\ Right(t) = tail
    /\ On(t, [th[t] EXCEPT !.pc = "found"])
    /\ UNCHANGED <<mem, smr>>

PublishCur(t) ==
    /\ th[t].pc = "loop" /\ Right(t) # tail
    /\ Publish(t, Right(t)) /\ Goto(t, "validate")
    /\ UNCHANGED <<mem, sd>>

HartValidate(t) ==
    /\ th[t].pc = "validate"
    /\ Goto(t, IF InPlace(t) THEN "look" ELSE "again")
    /\ UNCHANGED <<mem, smr>>

\* next = cur->next
HartLook(t) ==
    /\ th[t].pc = "look"
    /\ On(t, [th[t] EXCEPT !.pc = IF Marked(mem[Right(t)].next) THEN "delete_right"
                                                                ELSE "check",
                           !.link = Unmarked(mem[Right(t)].next)])
    /\ UNCHANGED <<mem, smr>>

\* The element is marked: unlink and retire it.
HartDeleteRight(t) ==
    /\ th[t].pc = "delete_right"
    /\ \/ CAS(Left(t), cur(t), th[t].link) /\ FreeNodeLater(t, Right(t), "next")
       \/ CASFails(Left(t), cur(t)) /\ Goto(t, "again") /\ UNCHANGED sd
    /\ HP' = HP

\* It is not, and cur is still where it was.
Flips_Always0(t) == 0
Flips(t) == 1 - sd[t].off

Check(t) ==
    /\ th[t].pc = "check"
    /\ IF ~InPlace(t) THEN Goto(t, "again") /\ sd' = sd
       ELSE IF Key(Right(t)) >= req[t].key THEN Goto(t, "found") /\ sd' = sd
       ELSE /\ sd' = [sd EXCEPT ![t].off = Flips(t)]
            /\ On(t, [th[t] EXCEPT !.pc = "next", !.left = Right(t)])
    /\ UNCHANGED <<mem, HP>>

NextCur(t) ==
    /\ th[t].pc = "next"
    /\ On(t, [th[t] EXCEPT !.pc = "loop", !.right = th[t].link[1]])
    /\ UNCHANGED <<mem, smr>>

search(t) ==
    /\ Found(t, "find")
    /\ Return(t, IF IsThere(t) THEN "yes" ELSE "no")
    /\ UNCHANGED <<mem, smr>>

insert(t) ==
    /\ th[t].pc = "link"
    /\ \/ CAS(Left(t), cur(t), <<New(t), 0>>) /\ Return(t, "yes") /\ sd' = sd
       \/ CASFails(Left(t), cur(t)) /\ Again(t) /\ GiveBack(t)
    /\ HP' = HP

\* delete: the mark, and then the unlinking, which another may have done.
HartMark(t) ==
    LET next == th[t].link
    IN /\ Found(t, "delete") /\ IsThere(t)
       /\ \/ CAS(Right(t), next, WithMark(next)) /\ Goto(t, "unlink")
          \/ CASFails(Right(t), next) /\ Again(t)
       /\ UNCHANGED smr

HartUnlink(t) ==
    /\ th[t].pc = "unlink"
    /\ \/ /\ CAS(Left(t), cur(t), th[t].link)
          /\ FreeNodeLater(t, Right(t), "return")
       \/ CASFails(Left(t), cur(t)) /\ Goto(t, "return") /\ sd' = sd
    /\ HP' = HP

delete(t) ==
    /\ th[t].pc = "return" /\ Return(t, "yes")
    /\ UNCHANGED <<mem, smr>>

HartNext ==
    \/ \E t \in Threads :
          \/ HartStart(t) \/ HartEnter(t) \/ AtEnd(t) \/ PublishCur(t)
          \/ HartValidate(t) \/ HartLook(t) \/ HartDeleteRight(t) \/ Check(t) \/ NextCur(t)
          \/ search(t) \/ NothingToChange(t) \/ MakeNode(t) \/ insert(t)
          \/ HartMark(t) \/ HartUnlink(t) \/ delete(t)
          \/ ReadSlot(t) \/ FreeNonHazardous(t)
    \/ AllDone /\ UNCHANGED smr
===============================================================================
