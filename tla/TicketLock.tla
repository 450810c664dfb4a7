------------------------------ MODULE TicketLock ------------------------------
(***************************************************************************)
(* The ticket lock of src/include/lock_if.h (-DTICKET).  The two counters  *)
(* are 32 bits wide; they count modulo Mod here, and start anywhere, as    *)
(* they do once they have wrapped.                                         *)
(***************************************************************************)
EXTENDS Integers, Sequences

CONSTANTS Threads, Mod

VARIABLES
    ticket, curr,   \* struct ticket_st
    pc,             \* "out", "wait", "try" or "in"
    mine,           \* ticket_lock: ticket; ticket_trylock: the copy tc
    line            \* threads that took a ticket and have not left, in order

vars == <<ticket, curr, pc, mine, line>>

Init ==
    /\ ticket \in 0 .. Mod - 1 /\ curr = ticket
    /\ pc = [t \in Threads |-> "out"]
    /\ mine = [t \in Threads |-> 0]
    /\ line = <<>>

Goto(t, l) == pc' = [pc EXCEPT ![t] = l]
Inc(n) == (n + 1) % Mod

ticket_lock(t) ==
    /\ pc[t] = "out" /\ Goto(t, "wait")
    /\ mine' = [mine EXCEPT ![t] = ticket]
    /\ ticket' = Inc(ticket)
    /\ line' = Append(line, t)
    /\ UNCHANGED curr

Turn(t) ==
    /\ pc[t] = "wait" /\ curr = mine[t]
    /\ Goto(t, "in")
    /\ UNCHANGED <<ticket, curr, mine, line>>

\* ticket_trylock: the copy is made only to be compared.
Look(t) ==
    /\ pc[t] = "out" /\ curr = ticket
    /\ Goto(t, "try")
    /\ mine' = [mine EXCEPT ![t] = ticket]
    /\ UNCHANGED <<ticket, curr, line>>

\* The compare-and-swap is of both counters at once.
SwapTicketOnly(t) == ticket = mine[t]
SwapBoth(t) == ticket = mine[t] /\ curr = mine[t]

ticket_trylock(t) ==
    /\ pc[t] = "try"
    /\ IF SwapBoth(t)
       THEN Goto(t, "in") /\ ticket' = Inc(ticket) /\ line' = Append(line, t)
       ELSE Goto(t, "out") /\ UNCHANGED <<ticket, line>>
    /\ UNCHANGED <<curr, mine>>

ticket_unlock(t) ==
    /\ pc[t] = "in" /\ Goto(t, "out")
    /\ curr' = Inc(curr)
    /\ line' = Tail(line)
    /\ UNCHANGED <<ticket, mine>>

Next ==
    \E t \in Threads :
       \/ ticket_lock(t) \/ Turn(t) \/ Look(t)
       \/ ticket_trylock(t) \/ ticket_unlock(t)

Spec == Init /\ [][Next]_vars

-----------------------------------------------------------------------------
\* Threads enter in the order in which they drew their tickets, also when the
\* counters wrap and when a trylock comes between: who is in is first in line.
FirstComeFirstServed ==
    \A t \in Threads : pc[t] = "in" => line # <<>> /\ Head(line) = t

Lock == INSTANCE Mutex WITH holders <- {t \in Threads : pc[t] = "in"}

\* One thread at a time holds the lock, by ticket_lock or by ticket_trylock.
RefinesMutex == Lock!Spec
===============================================================================
