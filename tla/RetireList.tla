------------------------------ MODULE RetireList ------------------------------
(***************************************************************************)
(* What the reclamation schemes take a double_llist_t to be: a sequence of *)
(* wrappers, the one retired last first.  A thread has several of them and *)
(* moves wrappers between them; idle are the wrappers its allocator 1 has. *)
(***************************************************************************)
EXTENDS Sequences

CONSTANTS Lists, Wrappers

VARIABLES lists, idle

ToFront(s, w) == <<w>> \o s
Remaining(s, w) == SelectSeq(s, LAMBDA x : x # w)
Oldest(s) == s[Len(s)]

Init == lists = [l \in Lists |-> <<>>] /\ idle = Wrappers

Retire(l, w) ==
    /\ w \in idle
    /\ lists' = [lists EXCEPT ![l] = ToFront(@, w)]
    /\ idle' = idle \ {w}

\* The oldest of l goes back to the allocator, or becomes the newest of m.
Release(l) ==
    /\ lists[l] # <<>>
    /\ lists' = [lists EXCEPT ![l] = Remaining(@, Oldest(@))]
    /\ idle' = idle \cup {Oldest(lists[l])}

Move(l, m) ==
    LET w == Oldest(lists[l])
        without == [lists EXCEPT ![l] = Remaining(@, w)]
    IN /\ lists[l] # <<>>
       /\ lists' = [without EXCEPT ![m] = ToFront(@, w)]
       /\ idle' = idle

ReleaseAny(l, w) ==
    /\ \E i \in DOMAIN lists[l] : lists[l][i] = w
    /\ lists' = [lists EXCEPT ![l] = Remaining(@, w)]
    /\ idle' = idle \cup {w}

\* m takes over all that l holds.
TakeOver(l, m) ==
    /\ lists[m] = <<>>
    /\ lists' = [lists EXCEPT ![m] = lists[l], ![l] = <<>>]
    /\ idle' = idle

Next ==
    \E l \in Lists :
       \/ Release(l)
       \/ \E w \in Wrappers : Retire(l, w) \/ ReleaseAny(l, w)
       \/ \E m \in Lists : Move(l, m) \/ TakeOver(l, m)

NextOrSame == [Next]_<<lists, idle>>
Spec == Init /\ [][Next]_<<lists, idle>>
===============================================================================
