------------------------------ MODULE HTicketLock ------------------------------
(***************************************************************************)
(* The hierarchical ticket lock, src/src/htlock.c: a ticket lock for the    *)
(* sockets, and one lock per socket whose holder gives NB tickets to its    *)
(* neighbours, who may then pass the global lock on among themselves.       *)
(*                                                                         *)
(* Local tickets are drawn downwards.  Who draws -1 fetches the global lock; *)
(* who draws less draws again, which takes nxt further down, without end in  *)
(* the code, down to -Floor here.  The global counters are 32 bits wide.    *)
(***************************************************************************)
EXTENDS Integers, FiniteSetTheorems, TLAPS

CONSTANTS
    Threads, Sockets,
    Node,       \* Node[t]: my_node
    NB,         \* NB_TICKETS_LOCAL
    Mod,        \* 2^32
    Floor,      \* bound: where redrawing stops
    Tries       \* threads that also use htlock_trylock

VARIABLES
    nxt, cur,       \* local[s]
    gnxt, gcur,     \* global
    pc, ticket,     \* of a thread: where it is, and local_ticket, global_ticket,
                    \* local_cur or global_nxt
    passed          \* how often the global lock was passed on within a socket

vars == <<nxt, cur, gnxt, gcur, pc, ticket, passed>>

\* Right after init_htlock, or later, when the global counters are about to wrap.
Init ==
    /\ nxt = [s \in Sockets |-> 0] /\ cur = [s \in Sockets |-> NB]
    /\ gnxt \in {0, Mod - 1} /\ gcur = gnxt
    /\ pc = [t \in Threads |-> "out"] /\ ticket = [t \in Threads |-> 0]
    /\ passed = 0

Goto(t, l) == pc' = [pc EXCEPT ![t] = l]
Inc(n) == (n + 1) % Mod

\* DAF_U32, and the three ways on.
Draw(t) ==
    LET s == Node[t]
        new == nxt[s] - 1
    IN /\ pc[t] = "out" /\ new >= -Floor
       /\ nxt' = [nxt EXCEPT ![s] = new]
       /\ IF new < -1 THEN UNCHANGED <<pc, ticket>>
          ELSE /\ Goto(t, IF new >= 0 THEN "wait" ELSE "fetch")
               /\ ticket' = [ticket EXCEPT ![t] = new]
       /\ UNCHANGED <<cur, gnxt, gcur, passed>>

\* htlock_wait_ticket.
LocalTurn(t) ==
    /\ pc[t] = "wait" /\ cur[Node[t]] = ticket[t]
    /\ Goto(t, "in")
    /\ UNCHANGED <<nxt, cur, gnxt, gcur, ticket, passed>>

GiveTickets_TooEarly(t) == TRUE
GiveTickets(t) == cur[Node[t]] = NB

Fetch(t) ==
    /\ pc[t] = "fetch" /\ GiveTickets(t)
    /\ nxt' = [nxt EXCEPT ![Node[t]] = NB]
    /\ Goto(t, "enqueue")
    /\ UNCHANGED <<cur, gnxt, gcur, ticket, passed>>

Enqueue(t) ==
    /\ pc[t] = "enqueue" /\ Goto(t, "wait_global")
    /\ ticket' = [ticket EXCEPT ![t] = gnxt]
    /\ gnxt' = Inc(gnxt)
    /\ UNCHANGED <<nxt, cur, gcur, passed>>

\* htlock_wait_global.
GlobalTurn(t) ==
    /\ pc[t] = "wait_global" /\ gcur = ticket[t]
    /\ Goto(t, "in") /\ passed' = 0
    /\ UNCHANGED <<nxt, cur, gnxt, gcur, ticket>>

\* htlock_release up to its CAS, which withdraws the tickets nobody drew.
Withdraw(t) ==
    LET s == Node[t]
        alone == nxt[s] = cur[s]
    IN /\ pc[t] = "in"
       /\ ticket' = [ticket EXCEPT ![t] = cur[s]]
       /\ nxt' = IF alone THEN [nxt EXCEPT ![s] = 0] ELSE nxt
       /\ Goto(t, IF cur[s] = 0 \/ alone THEN "release" ELSE "pass")
       /\ UNCHANGED <<cur, gnxt, gcur, passed>>

Pass(t) ==
    /\ pc[t] = "pass" /\ Goto(t, "out")
    /\ cur' = [cur EXCEPT ![Node[t]] = ticket[t] - 1]
    /\ passed' = passed + 1
    /\ UNCHANGED <<nxt, gnxt, gcur, ticket>>

Release(t) ==
    /\ pc[t] = "release" /\ Goto(t, "release_global")
    /\ cur' = [cur EXCEPT ![Node[t]] = NB]
    /\ UNCHANGED <<nxt, gnxt, gcur, ticket, passed>>

\* The last line of htlock_release, and htlock_release_try.
ReleaseGlobal(t) ==
    /\ pc[t] \in {"release_global", "in_try"} /\ Goto(t, "out")
    /\ gcur' = Inc(gcur)
    /\ UNCHANGED <<nxt, cur, gnxt, ticket, passed>>

Read(t) ==
    /\ t \in Tries /\ pc[t] = "out" /\ Goto(t, "try")
    /\ ticket' = [ticket EXCEPT ![t] = gnxt]
    /\ UNCHANGED <<nxt, cur, gnxt, gcur, passed>>

\* CAS_U64 of both counters.
htlock_trylock(t) ==
    /\ pc[t] = "try"
    /\ IF gnxt = ticket[t] /\ gcur = ticket[t]
       THEN Goto(t, "in_try") /\ gnxt' = Inc(gnxt)
       ELSE Goto(t, "out") /\ UNCHANGED gnxt
    /\ UNCHANGED <<nxt, cur, gcur, ticket, passed>>

Next ==
    \E t \in Threads :
       \/ Draw(t) \/ LocalTurn(t) \/ Fetch(t) \/ Enqueue(t) \/ GlobalTurn(t)
       \/ Withdraw(t) \/ Pass(t) \/ Release(t) \/ ReleaseGlobal(t)
       \/ Read(t) \/ htlock_trylock(t)

Spec == Init /\ [][Next]_vars

-----------------------------------------------------------------------------
\* The threads from the return of a lock to the store that hands it on.
Holders == {t \in Threads :
              pc[t] \in {"in", "pass", "release", "release_global", "in_try"}}

\* The tickets a socket gave out bound how often it passes the lock on before
\* the other sockets get it.
PassedAtMostNB == passed <= NB

Lock == INSTANCE Mutex WITH holders <- Holders

\* One thread at a time holds the lock, whatever the socket: tickets withdrawn
\* by a release, redrawn by those who drew too low or given out anew are never
\* served along with the ones of an earlier turn.
RefinesMutex == Lock!Spec
-----------------------------------------------------------------------------
(* Mutual exclusion for any threads and sockets, as long as there are fewer *)
(* threads than global tickets, and no socket has more threads than its     *)
(* holder, one for each of its tickets and one that fetches the next; 129   *)
(* in the code, whose machines have at most 64 cores per socket.            *)

Of(s) == {t \in Threads : Node[t] = s}

EnoughTickets ==
    /\ IsFiniteSet(Threads) /\ Mod \in Nat /\ Cardinality(Threads) < Mod
    /\ NB \in Nat /\ Floor \in Nat /\ Node \in [Threads -> Sockets]
    /\ \A s \in Sockets : Cardinality(Of(s)) <= NB + 1

Tickets == 0 .. Mod - 1

PCs == {"out", "wait", "fetch", "enqueue", "wait_global", "in", "pass", "release",
        "release_global", "try", "in_try"}

TypeOK ==
    /\ nxt \in [Sockets -> Int] /\ cur \in [Sockets -> 0 .. NB]
    /\ gnxt \in Tickets /\ gcur \in Tickets
    /\ pc \in [Threads -> PCs] /\ ticket \in [Threads -> Int]
    /\ passed \in Nat

OnTurn(t) == pc[t] = "wait" /\ cur[Node[t]] = ticket[t]

\* Who has, or will get, the global lock for its socket, and who has it.
Leads(t) == pc[t] \in {"enqueue", "wait_global", "in", "pass"} \/ OnTurn(t)
Holds(t) == t \in Holders \/ OnTurn(t)

AllWait(s) ==
    \A k \in 0 .. NB - 1 : nxt[s] <= k /\ k < cur[s] =>
       \E u \in Of(s) : pc[u] = "wait" /\ ticket[u] = k

\* A socket has one leader, and a thread for each ticket it has given out and not
\* yet served.
Leaders(s) ==
    /\ \A t, u \in Of(s) : Leads(t) /\ Leads(u) => t = u
    /\ \A t \in Of(s) :
          /\ Leads(t) => nxt[s] <= cur[s] /\ AllWait(s)
          /\ pc[t] \in {"enqueue", "wait_global"} => cur[s] = NB
          /\ pc[t] = "pass" => ticket[t] = cur[s] /\ cur[s] > 0 /\ nxt[s] < cur[s]

\* Who waits in a socket has a ticket of its own, of the turn that goes on.
Waiters(s) ==
    /\ \A t \in Of(s) : pc[t] = "wait" =>
          /\ ticket[t] \in 0 .. NB - 1 /\ nxt[s] <= ticket[t] /\ ticket[t] <= cur[s]
          /\ \E u \in Of(s) : Leads(u)
    /\ \A t, u \in Of(s) :
          pc[t] = "wait" /\ pc[u] = "wait" /\ ticket[t] = ticket[u] => t = u

\* Tickets are given out for a leader, and one thread fetches the next ones.
Givers(s) ==
    /\ nxt[s] > 0 => \E u \in Of(s) : Leads(u)
    /\ \A t \in Of(s) : pc[t] = "fetch" => nxt[s] < 0
    /\ \A t, u \in Of(s) : pc[t] = "fetch" /\ pc[u] = "fetch" => t = u

Local(s) == Leaders(s) /\ Waiters(s) /\ Givers(s)

\* How far the global ticket n is from being served.
Place(n) == IF n >= gcur THEN n - gcur ELSE n - gcur + Mod

First == IF \E t \in Threads : Holds(t) THEN 1 ELSE 0

\* One thread holds the lock, and the global tickets not yet served are those of
\* the threads that wait for them, and before those the holder's.
GlobalLine ==
    /\ \A t, u \in Threads : Holds(t) /\ Holds(u) => t = u
    /\ First <= Place(gnxt)
    /\ \A t \in Threads : pc[t] = "wait_global" =>
          ticket[t] \in Tickets /\ Place(ticket[t]) \in First .. Place(gnxt) - 1
    /\ \A t, u \in Threads :
          pc[t] = "wait_global" /\ pc[u] = "wait_global" /\ ticket[t] = ticket[u] => t = u
    /\ \A i \in First .. Place(gnxt) - 1 :
          \E t \in Threads : pc[t] = "wait_global" /\ Place(ticket[t]) = i

PassedIs ==
    /\ passed <= NB
    /\ \A t \in Threads :
          pc[t] \in {"in", "pass"} \/ OnTurn(t) => passed + cur[Node[t]] = NB

Inv == TypeOK /\ (\A s \in Sockets : Local(s)) /\ GlobalLine /\ PassedIs

LEMMA GotoIs ==
    ASSUME TypeOK, NEW t \in Threads, NEW l \in PCs, Goto(t, l)
    PROVE  /\ pc' \in [Threads -> PCs] /\ pc'[t] = l
           /\ \A u \in Threads : u # t => pc'[u] = pc[u]
BY DEF TypeOK, Goto

LEMMA HoldsIs ==
    /\ \A t \in Threads : Holds(t) <=>
          \/ pc[t] \in {"in", "pass", "release", "release_global", "in_try"}
          \/ OnTurn(t)
    /\ \A t \in Threads : Holds(t)' <=>
          \/ pc'[t] \in {"in", "pass", "release", "release_global", "in_try"}
          \/ OnTurn(t)'
BY DEF Holds, Holders

\* The roles of the threads of a socket.
LEMMA RolesIn ==
    ASSUME NEW s
    PROVE  /\ \A u \in Of(s) : /\ u \in Threads /\ Node[u] = s
                               /\ OnTurn(u) <=> pc[u] = "wait" /\ ticket[u] = cur[s]
           /\ \A u \in Of(s) : OnTurn(u)' <=> pc'[u] = "wait" /\ ticket'[u] = cur'[s]
BY DEF Of, OnTurn

\* What a step of t leaves alone.
Others(t) == \A u \in Threads : u # t => pc'[u] = pc[u] /\ ticket'[u] = ticket[u]

Elsewhere(t) == \A s \in Sockets : s # Node[t] => nxt'[s] = nxt[s] /\ cur'[s] = cur[s]

LEMMA LocalElsewhere ==
    ASSUME NEW t \in Threads, Others(t), Elsewhere(t),
           NEW s \in Sockets, s # Node[t], Local(s)
    PROVE  Local(s)'
<1>1. nxt'[s] = nxt[s] /\ cur'[s] = cur[s]
  BY DEF Elsewhere
<1>2. \A u \in Of(s) : pc'[u] = pc[u] /\ ticket'[u] = ticket[u]
  BY RolesIn DEF Others
<1>3. \A u \in Of(s) : Leads(u)' <=> Leads(u)
  <2>1. \A u \in Of(s) : OnTurn(u)' <=> OnTurn(u)
    BY <1>1, <1>2, RolesIn
  <2> QED  BY <1>2, <2>1 DEF Leads
<1>4. Leaders(s)'
  BY <1>1, <1>2, <1>3 DEF Local, Leaders, AllWait
<1>5. Waiters(s)' /\ Givers(s)'
  BY <1>1, <1>2, <1>3 DEF Local, Waiters, Givers
<1> QED  BY <1>4, <1>5 DEF Local

\* A step of t by which nobody's role changes and t has none.
Aside(t) ==
    /\ Others(t) /\ cur' = cur
    /\ pc[t] \in {"out", "fetch", "try"}
    /\ \/ pc'[t] \in {"out", "fetch", "try"}
       \/ pc'[t] = "wait" /\ ~OnTurn(t)'

LEMMA AsideHolds ==
    ASSUME NEW t \in Threads, Aside(t)
    PROVE  \A u \in Threads : /\ Leads(u)' <=> Leads(u)
                              /\ Holds(u)' <=> Holds(u)
                              /\ OnTurn(u)' <=> OnTurn(u)
BY HoldsIs DEF Aside, Others, Leads, OnTurn

LEMMA AsideGlobal ==
    ASSUME GlobalLine, PassedIs, NEW t \in Threads, Aside(t),
           UNCHANGED <<gnxt, gcur, passed>>
    PROVE  GlobalLine' /\ PassedIs'
<1>1. \A u \in Threads : (Holds(u)' <=> Holds(u)) /\ (OnTurn(u)' <=> OnTurn(u))
  BY AsideHolds
<1>2. First' = First
  BY <1>1 DEF First
<1>4. \A u \in Threads : /\ pc'[u] = "wait_global" <=> pc[u] = "wait_global"
                         /\ pc[u] = "wait_global" => ticket'[u] = ticket[u]
                         /\ pc'[u] \in {"in", "pass"} <=> pc[u] \in {"in", "pass"}
  BY DEF Aside, Others
<1>5. GlobalLine'
  <2>1. Place(gnxt)' = Place(gnxt) /\ \A u \in Threads :
           pc[u] = "wait_global" => Place(ticket[u])' = Place(ticket[u])
    BY <1>4 DEF Place
  <2>2. \A u, v \in Threads : Holds(u)' /\ Holds(v)' => u = v
    BY <1>1 DEF GlobalLine
  <2>3. First' <= Place(gnxt)'
    BY <1>2, <2>1 DEF GlobalLine
  <2>4. \A u \in Threads : pc'[u] = "wait_global" =>
           ticket'[u] \in Tickets /\ Place(ticket[u])' \in First' .. Place(gnxt)' - 1
    BY <1>2, <1>4, <2>1 DEF GlobalLine
  <2>5. \A u, v \in Threads :
           pc'[u] = "wait_global" /\ pc'[v] = "wait_global" /\ ticket'[u] = ticket'[v]
           => u = v
    BY <1>4 DEF GlobalLine
  <2>6. ASSUME NEW i \in First' .. Place(gnxt)' - 1
        PROVE  \E u \in Threads : pc'[u] = "wait_global" /\ Place(ticket[u])' = i
    <3>1. PICK u \in Threads : pc[u] = "wait_global" /\ Place(ticket[u]) = i
      BY <1>2, <2>1 DEF GlobalLine
    <3> QED  BY <1>4, <2>1, <3>1
  <2> QED  BY <2>2, <2>3, <2>4, <2>5, <2>6 DEF GlobalLine
<1>6. PassedIs'
  BY <1>1, <1>4 DEF PassedIs, Aside
<1> QED  BY <1>5, <1>6

LEMMA DrawLocal ==
    ASSUME EnoughTickets, TypeOK, NEW t \in Threads, NEW s \in Sockets, s = Node[t],
           Local(s), Draw(t), Others(t), nxt'[s] = nxt[s] - 1, cur' = cur,
           \/ nxt[s] - 1 < -1 /\ UNCHANGED <<pc, ticket>>
           \/ nxt[s] - 1 = -1 /\ pc'[t] = "fetch"
           \/ nxt[s] - 1 >= 0 /\ pc'[t] = "wait" /\ ticket'[t] = nxt[s] - 1
    PROVE  Local(s)' /\ Aside(t)
<1>1. /\ nxt[s] \in Int /\ cur[s] \in Int /\ cur[s] <= NB /\ NB \in Nat /\ cur[s] >= 0
      /\ pc[t] = "out" /\ t \in Of(s)
  BY DEF EnoughTickets, TypeOK, Draw, Of
<1>2. \A u \in Of(s) : u # t => pc'[u] = pc[u] /\ ticket'[u] = ticket[u]
  BY RolesIn DEF Others
<1>3. Leaders(s) /\ Waiters(s) /\ Givers(s)
  BY DEF Local
<1>4. ASSUME nxt[s] - 1 >= 0
      PROVE  /\ nxt[s] <= cur[s] /\ nxt[s] - 1 \in 0 .. NB - 1
             /\ AllWait(s) /\ \E u \in Of(s) : Leads(u)
  <2>1. PICK u \in Of(s) : Leads(u)
    BY <1>1, <1>3, <1>4 DEF Givers
  <2>2. nxt[s] <= cur[s] /\ AllWait(s)
    BY <1>3, <2>1 DEF Leaders
  <2> QED  BY <1>1, <1>4, <2>1, <2>2
<1>5. Aside(t)
  BY <1>1, <1>4, RolesIn DEF Aside
<1>6. \A u \in Of(s) : Leads(u)' <=> Leads(u)
  BY <1>5, AsideHolds, RolesIn
<1>7. \A u \in Of(s) : pc[u] = "wait"
             => ticket[u] \in Int /\ ticket[u] >= nxt[s] /\ ticket[u] >= 0
  BY <1>3 DEF Waiters
<1>8. Leaders(s)'
  <2>1. ASSUME AllWait(s) PROVE AllWait(s)'
    <3> SUFFICES ASSUME NEW k \in 0 .. NB - 1, nxt[s] - 1 <= k, k < cur[s]
                 PROVE  \E u \in Of(s) : pc'[u] = "wait" /\ ticket'[u] = k
      BY DEF AllWait
    <3>1. CASE k = nxt[s] - 1
      BY <1>1, <3>1
    <3>2. CASE k # nxt[s] - 1
      <4>1. PICK u \in Of(s) : pc[u] = "wait" /\ ticket[u] = k
        BY <1>1, <2>1, <3>2 DEF AllWait
      <4> QED  BY <1>1, <1>2, <4>1
    <3> QED  BY <3>1, <3>2
  <2>2. \A u \in Of(s) :
           /\ Leads(u) => nxt'[s] <= cur[s] /\ AllWait(s)'
           /\ pc'[u] \in {"enqueue", "wait_global"} => cur[s] = NB
           /\ pc'[u] = "pass" => ticket'[u] = cur[s] /\ cur[s] > 0 /\ nxt'[s] < cur[s]
    <3>1. \A u \in Of(s) : Leads(u) => nxt[s] <= cur[s] /\ AllWait(s)
      BY <1>3 DEF Leaders
    <3>2. \A u \in Of(s) : Leads(u) => nxt'[s] <= cur[s] /\ AllWait(s)'
      BY <1>1, <2>1, <3>1
    <3>3. \A u \in Of(s) :
             /\ pc[u] \in {"enqueue", "wait_global"} => cur[s] = NB
             /\ pc[u] = "pass" => ticket[u] = cur[s] /\ cur[s] > 0 /\ nxt[s] < cur[s]
      BY <1>3 DEF Leaders
    <3>4. \A u \in Of(s) : pc'[u] \in {"enqueue", "wait_global", "pass"} => u # t
      BY <1>1
    <3>5. nxt[s] < cur[s] => nxt'[s] < cur[s]
      BY <1>1
    <3> QED  BY <1>2, <3>2, <3>3, <3>4, <3>5
  <2> QED  BY <1>3, <1>6, <2>2 DEF Leaders
<1>9. Waiters(s)'
  BY <1>1, <1>2, <1>3, <1>4, <1>6, <1>7 DEF Waiters
<1>10. Givers(s)'
  BY <1>1, <1>2, <1>3, <1>6 DEF Givers
<1> QED  BY <1>5, <1>8, <1>9, <1>10 DEF Local

LEMMA DrawInv == ASSUME EnoughTickets, Inv, NEW t \in Threads, Draw(t) PROVE Inv'
<1> USE DEF Inv
<1>1. PICK s \in Sockets : s = Node[t]
  BY DEF EnoughTickets
<1>2. nxt[s] \in Int
  BY DEF TypeOK
<1>3. /\ pc[t] = "out" /\ UNCHANGED <<cur, gnxt, gcur, passed>>
      /\ nxt' \in [Sockets -> Int] /\ nxt'[s] = nxt[s] - 1 /\ Elsewhere(t)
  BY <1>1, <1>2 DEF Draw, TypeOK, Elsewhere
<1>4. \/ nxt[s] - 1 < -1 /\ UNCHANGED <<pc, ticket>>
      \/ /\ nxt[s] - 1 = -1 /\ Goto(t, "fetch")
         /\ ticket' = [ticket EXCEPT ![t] = nxt[s] - 1]
      \/ /\ nxt[s] - 1 >= 0 /\ Goto(t, "wait")
         /\ ticket' = [ticket EXCEPT ![t] = nxt[s] - 1]
  BY <1>1, <1>2 DEF Draw
<1>5. /\ \/ nxt[s] - 1 < -1 /\ UNCHANGED <<pc, ticket>>
         \/ nxt[s] - 1 = -1 /\ pc'[t] = "fetch"
         \/ nxt[s] - 1 >= 0 /\ pc'[t] = "wait" /\ ticket'[t] = nxt[s] - 1
      /\ Others(t) /\ TypeOK'
  BY <1>2, <1>3, <1>4 DEF TypeOK, PCs, Others, Goto
<1>6. Local(s)' /\ Aside(t)
  BY <1>1, <1>3, <1>5, DrawLocal
<1>7. \A x \in Sockets : Local(x)'
  BY <1>1, <1>3, <1>5, <1>6, LocalElsewhere
<1>8. GlobalLine' /\ PassedIs'
  BY <1>3, <1>6, AsideGlobal
<1> QED  BY <1>5, <1>7, <1>8

-----------------------------------------------------------------------------
(* Within a socket.                                                        *)

LEMMA SocketTypes ==
    ASSUME EnoughTickets, TypeOK, NEW t \in Threads
    PROVE  /\ Node[t] \in Sockets /\ t \in Of(Node[t])
           /\ nxt[Node[t]] \in Int /\ cur[Node[t]] \in 0 .. NB /\ NB \in Nat
BY DEF EnoughTickets, TypeOK, Of

\* Steps of threads that have no role in their socket, before or after.
LEMMA NoRoleLocal ==
    ASSUME NEW t \in Threads, Others(t), nxt' = nxt, cur' = cur,
           NEW s \in Sockets, Local(s),
           pc[t] \in {"out", "try", "release", "release_global", "in_try"},
           pc'[t] \in {"out", "try", "release", "release_global", "in_try"}
    PROVE  Local(s)'
<1>0. nxt' = nxt /\ cur' = cur
  OBVIOUS
<1>1. \A u \in Of(s) : \/ pc'[u] = pc[u] /\ ticket'[u] = ticket[u]
                       \/ /\ pc[u] \in {"out", "try", "release", "release_global", "in_try"}
                          /\ pc'[u] \in {"out", "try", "release", "release_global", "in_try"}
  BY RolesIn DEF Others
<1>2. \A u \in Of(s) : (OnTurn(u)' <=> OnTurn(u)) /\ (Leads(u)' <=> Leads(u))
  <2>1. \A u \in Of(s) : OnTurn(u)' <=> OnTurn(u)
    BY <1>0, <1>1, RolesIn
  <2> QED  BY <1>1, <2>1 DEF Leads
<1>3. Leaders(s) /\ Waiters(s) /\ Givers(s)
  BY DEF Local
<1>4. AllWait(s) => AllWait(s)'
  BY <1>0, <1>1 DEF AllWait
<1>5. \A u \in Of(s) : \A x \in {"wait", "fetch", "enqueue", "wait_global", "pass"} :
         pc'[u] = x => pc[u] = x /\ ticket'[u] = ticket[u]
  BY <1>1
<1>6. Leaders(s)'
  <2>1. \A u \in Of(s) :
           /\ Leads(u)' => nxt'[s] <= cur'[s] /\ AllWait(s)'
           /\ pc'[u] \in {"enqueue", "wait_global"} => cur'[s] = NB
           /\ pc'[u] = "pass" => ticket'[u] = cur'[s] /\ cur'[s] > 0 /\ nxt'[s] < cur'[s]
    BY <1>2, <1>3, <1>4, <1>5 DEF Leaders
  <2>2. \A u, v \in Of(s) : Leads(u)' /\ Leads(v)' => u = v
    BY <1>2, <1>3 DEF Leaders
  <2> QED  BY <2>1, <2>2 DEF Leaders
<1>7. Waiters(s)'
  BY <1>2, <1>3, <1>5 DEF Waiters
<1>8. Givers(s)'
  BY <1>2, <1>3, <1>5 DEF Givers
<1> QED  BY <1>6, <1>7, <1>8 DEF Local

\* Steps by which the leader stays one, and nothing but its place changes.
LEMMA LeaderLocal ==
    ASSUME EnoughTickets, TypeOK, NEW t \in Threads, Others(t), nxt' = nxt, cur' = cur,
           NEW s \in Sockets, s = Node[t], Local(s), Leads(t),
           pc'[t] = "in" \/ (pc[t] = "enqueue" /\ pc'[t] = "wait_global")
    PROVE  Local(s)'
<1>0. nxt' = nxt /\ cur' = cur /\ cur[s] \in Int /\ nxt[s] \in Int
  <2>1. cur[s] \in Int /\ nxt[s] \in Int
    BY DEF EnoughTickets, TypeOK
  <2> QED  BY <2>1
<1>1. t \in Of(s) /\ \A u \in Of(s) : u # t => pc'[u] = pc[u] /\ ticket'[u] = ticket[u]
  BY RolesIn DEF Others, Of
<1>2. \A u \in Of(s) : Leads(u)' <=> Leads(u)
  <2>1. \A u \in Of(s) : u # t => (OnTurn(u)' <=> OnTurn(u))
    BY <1>0, <1>1, RolesIn
  <2> QED  BY <1>1, <2>1 DEF Leads
<1>3. Leaders(s) /\ Waiters(s) /\ Givers(s)
  BY DEF Local
<1>4. AllWait(s)'
  <2>1. AllWait(s)
    BY <1>1, <1>3 DEF Leaders
  <2> SUFFICES ASSUME NEW k \in 0 .. NB - 1, nxt[s] <= k, k < cur[s]
               PROVE  \E u \in Of(s) : pc'[u] = "wait" /\ ticket'[u] = k
    BY <1>0 DEF AllWait
  <2>2. PICK u \in Of(s) : pc[u] = "wait" /\ ticket[u] = k
    BY <2>1 DEF AllWait
  <2>3. k # cur[s]
    BY <1>0
  <2>4. u # t
    <3>1. CASE pc[t] = "wait"
      BY <1>1, <2>2, <2>3, <3>1, RolesIn DEF Leads
    <3> QED  BY <2>2, <3>1
  <2> QED  BY <1>1, <2>2, <2>4
<1>5. Leaders(s)'
  <2>1. \A u \in Of(s) :
           /\ Leads(u)' => nxt'[s] <= cur'[s] /\ AllWait(s)'
           /\ pc'[u] \in {"enqueue", "wait_global"} => cur'[s] = NB
           /\ pc'[u] = "pass" => ticket'[u] = cur'[s] /\ cur'[s] > 0 /\ nxt'[s] < cur'[s]
    BY <1>1, <1>2, <1>3, <1>4 DEF Leaders
  <2>2. \A u, v \in Of(s) : Leads(u)' /\ Leads(v)' => u = v
    BY <1>2, <1>3 DEF Leaders
  <2> QED  BY <2>1, <2>2 DEF Leaders
<1>6. \A u \in Of(s) : pc'[u] \in {"wait", "fetch"} => u # t
  BY <1>1
<1>7. Waiters(s)'
  BY <1>1, <1>2, <1>3, <1>6 DEF Waiters
<1>8. Givers(s)'
  BY <1>1, <1>2, <1>3, <1>6 DEF Givers
<1> QED  BY <1>5, <1>7, <1>8 DEF Local

\* When the next tickets are fetched nobody leads: a leader whose turn has not begun
\* to be passed on, a thread for each of its tickets and the one that fetches would
\* be more threads than the socket has.
LEMMA NoLeaderAtFetch ==
    ASSUME EnoughTickets, TypeOK, NEW t \in Threads, NEW s \in Sockets, s = Node[t],
           Local(s), pc[t] = "fetch", cur[s] = NB, NEW l \in Of(s)
    PROVE  ~Leads(l)
<1> SUFFICES ASSUME Leads(l) PROVE FALSE
  OBVIOUS
<1>1. t \in Of(s) /\ NB \in Nat /\ nxt[s] \in Int /\ nxt[s] < 0
  BY DEF Of, EnoughTickets, TypeOK, Local, Givers
<1>2. \A k \in 0 .. NB - 1 : \E u \in Of(s) : pc[u] = "wait" /\ ticket[u] = k
  BY <1>1 DEF Local, Leaders, AllWait
<1> DEFINE drew == [k \in 0 .. NB - 1 |->
                     CHOOSE u \in Of(s) : pc[u] = "wait" /\ ticket[u] = k]
           n(k) == IF k = NB THEN t ELSE IF k = NB + 1 THEN l ELSE drew[k]
           who == [k \in 0 .. NB + 1 |-> n(k)]
<1>3. \A k \in 0 .. NB - 1 : drew[k] \in Of(s) /\ pc[drew[k]] = "wait"
                               /\ ticket[drew[k]] = k
  BY <1>2
<1>4. ~(pc[l] = "wait" /\ ticket[l] \in 0 .. NB - 1) /\ pc[l] # "fetch"
  <2>1. OnTurn(l) => pc[l] = "wait" /\ ticket[l] = NB
    BY RolesIn
  <2>2. NB \notin 0 .. NB - 1
    BY <1>1
  <2>3. pc[l] \in {"enqueue", "wait_global", "in", "pass"} \/ OnTurn(l)
    BY DEF Leads
  <2> QED  BY <2>1, <2>2, <2>3
<1> HIDE DEF drew
<1>5. \A k \in 0 .. NB + 1 :
         /\ who[k] \in Of(s)
         /\ k = NB => pc[who[k]] = "fetch"
         /\ k = NB + 1 => who[k] = l
         /\ k \in 0 .. NB - 1 => pc[who[k]] = "wait" /\ ticket[who[k]] = k
         /\ k \in 0 .. NB - 1 \/ k = NB \/ k = NB + 1
  BY <1>1, <1>3
<1>6. who \in [0 .. NB + 1 -> Of(s)]
  BY <1>5
<1> HIDE DEF who
<1>7. \A j, k \in 0 .. NB + 1 : who[j] = who[k] => j = k
  BY <1>4, <1>5
<1>8. who \in Injection(0 .. NB + 1, Of(s))
  BY <1>6, <1>7 DEF Injection, IsInjective
<1>9. IsFiniteSet(Of(s))
  BY FS_Subset DEF EnoughTickets, Of
<1>10. Cardinality(0 .. NB + 1) <= Cardinality(Of(s))
  BY <1>8, <1>9, FS_Injection
<1>11. Cardinality(0 .. NB + 1) = NB + 2
  BY <1>1, FS_Interval
<1>12. Cardinality(Of(s)) \in Nat /\ Cardinality(Of(s)) <= NB + 1
  BY <1>9, FS_CardinalityType DEF EnoughTickets
<1> QED  BY <1>1, <1>10, <1>11, <1>12

LEMMA FetchLocal ==
    ASSUME EnoughTickets, TypeOK, NEW t \in Threads, NEW s \in Sockets, s = Node[t],
           Local(s), pc[t] = "fetch", pc'[t] = "enqueue", Others(t), cur' = cur,
           nxt'[s] = NB, cur[s] = NB
    PROVE  Local(s)'
<1>1. t \in Of(s) /\ \A u \in Of(s) : u # t => pc'[u] = pc[u] /\ ticket'[u] = ticket[u]
  BY RolesIn DEF Others, Of
<1>2. \A u \in Of(s) : ~Leads(u)
  BY NoLeaderAtFetch
<1>3. \A u \in Of(s) : Leads(u)' <=> u = t
  <2>1. \A u \in Of(s) : u # t => (OnTurn(u)' <=> OnTurn(u))
    BY <1>1, RolesIn
  <2> QED  BY <1>1, <1>2, <2>1 DEF Leads
<1>4. \A u \in Of(s) : pc'[u] \notin {"wait", "fetch", "wait_global", "pass"}
  <2>1. \A u \in Of(s) : pc[u] # "wait"
    BY <1>2 DEF Local, Waiters
  <2>2. \A u \in Of(s) : pc[u] = "fetch" => u = t
    BY <1>1 DEF Local, Givers
  <2> QED  BY <1>1, <1>2, <2>1, <2>2 DEF Leads
<1>5. NB \in Nat
  BY DEF EnoughTickets
<1>6. Leaders(s)'
  <2>1. nxt'[s] <= cur'[s] /\ cur'[s] = NB
    BY <1>5
  <2>2. AllWait(s)'
    BY <1>5, <2>1 DEF AllWait
  <2> QED  BY <1>3, <1>4, <2>1, <2>2 DEF Leaders
<1>7. Waiters(s)' /\ Givers(s)'
  BY <1>1, <1>3, <1>4 DEF Waiters, Givers
<1> QED  BY <1>6, <1>7 DEF Local

\* A leader that goes alone, or with the last ticket, leaves nobody waiting.
LEMMA WithdrawLocal ==
    ASSUME EnoughTickets, TypeOK, NEW t \in Threads, NEW s \in Sockets, s = Node[t],
           Local(s), pc[t] = "in", Others(t), cur' = cur,
           \/ /\ cur[s] = 0 \/ nxt[s] = cur[s]
              /\ pc'[t] = "release"
              /\ nxt'[s] = IF nxt[s] = cur[s] THEN 0 ELSE nxt[s]
           \/ /\ cur[s] # 0 /\ nxt[s] # cur[s]
              /\ pc'[t] = "pass" /\ ticket'[t] = cur[s]
              /\ nxt'[s] = nxt[s]
    PROVE  Local(s)'
<1>1. t \in Of(s) /\ \A u \in Of(s) : u # t => pc'[u] = pc[u] /\ ticket'[u] = ticket[u]
  BY RolesIn DEF Others, Of
<1>2. nxt[s] \in Int /\ cur[s] \in Int /\ cur[s] >= 0 /\ cur'[s] = cur[s]
  BY DEF EnoughTickets, TypeOK
<1>3. Leaders(s) /\ Waiters(s) /\ Givers(s)
  BY DEF Local
<1>4. /\ Leads(t) /\ nxt[s] <= cur[s] /\ AllWait(s)
      /\ \A u \in Of(s) : Leads(u) => u = t
  BY <1>1, <1>3 DEF Leaders, Leads
<1>5. \A u \in Of(s) : pc[u] = "wait" => /\ ticket[u] \in Int /\ nxt[s] <= ticket[u]
                                         /\ ticket[u] >= 0 /\ ticket[u] < cur[s]
  <2>1. \A u \in Of(s) : pc[u] = "wait" =>
           /\ ticket[u] \in Int /\ nxt[s] <= ticket[u]
           /\ ticket[u] >= 0 /\ ticket[u] <= cur[s]
    BY <1>3 DEF Waiters
  <2>2. \A u \in Of(s) : pc[u] = "wait" => ticket[u] # cur[s]
    BY <1>4, RolesIn DEF Leads
  <2> QED  BY <1>2, <2>1, <2>2
<1>6. \A u \in Of(s) : u # t => ~Leads(u)'
  BY <1>1, <1>2, <1>4, RolesIn DEF Leads
<1>7. CASE pc'[t] = "release"
  <2>1. \A u \in Of(s) : pc'[u] # "wait"
    BY <1>1, <1>2, <1>5, <1>7
  <2>2. \A u \in Of(s) : ~Leads(u)'
    BY <1>6, <1>7, <2>1 DEF Leads, OnTurn
  <2>3. nxt'[s] <= 0 /\ (nxt[s] < 0 => nxt'[s] < 0)
    BY <1>2, <1>4, <1>7
  <2>4. Leaders(s)'
    <3>1. \A u \in Of(s) : pc'[u] \notin {"enqueue", "wait_global", "pass"}
      BY <2>2 DEF Leads
    <3> QED  BY <2>2, <3>1 DEF Leaders
  <2>5. Waiters(s)'
    BY <2>1 DEF Waiters
  <2>6. Givers(s)'
    <3>1. ~(nxt'[s] > 0)
      BY <1>2, <1>7, <2>3
    <3> QED  BY <1>1, <1>3, <1>7, <2>3, <3>1 DEF Givers
  <2> QED  BY <2>4, <2>5, <2>6 DEF Local
<1>8. CASE pc'[t] = "pass"
  <2>1. /\ nxt'[s] = nxt[s] /\ ticket'[t] = cur[s] /\ nxt[s] < cur[s] /\ cur[s] > 0
        /\ Leads(t)'
    BY <1>2, <1>4, <1>8 DEF Leads
  <2>2. AllWait(s)'
    <3> SUFFICES ASSUME NEW k \in 0 .. NB - 1, nxt[s] <= k, k < cur[s]
                 PROVE  \E u \in Of(s) : pc'[u] = "wait" /\ ticket'[u] = k
      BY <1>2, <2>1 DEF AllWait
    <3>1. PICK u \in Of(s) : pc[u] = "wait" /\ ticket[u] = k
      BY <1>4 DEF AllWait
    <3> QED  BY <1>1, <3>1
  <2>3. Leaders(s)'
    <3>1. \A u \in Of(s) : u # t => pc'[u] \notin {"enqueue", "wait_global", "pass"}
      BY <1>6 DEF Leads
    <3> QED  BY <1>2, <1>6, <1>8, <2>1, <2>2, <3>1 DEF Leaders
  <2>4. Waiters(s)'
    BY <1>1, <1>2, <1>3, <1>8, <2>1 DEF Waiters
  <2>5. Givers(s)'
    BY <1>1, <1>3, <1>8, <2>1 DEF Givers
  <2> QED  BY <2>3, <2>4, <2>5 DEF Local
<1> QED  BY <1>7, <1>8

\* The thread whose ticket comes next leads.
LEMMA PassLocal ==
    ASSUME EnoughTickets, TypeOK, NEW t \in Threads, NEW s \in Sockets, s = Node[t],
           Local(s), pc[t] = "pass", pc'[t] = "out", Others(t),
           nxt' = nxt, cur'[s] = ticket[t] - 1
    PROVE  /\ Local(s)' /\ cur'[s] = cur[s] - 1
           /\ \E v \in Of(s) : v # t /\ \A u \in Of(s) : OnTurn(u)' <=> u = v
<1>1. t \in Of(s) /\ \A u \in Of(s) : u # t => pc'[u] = pc[u] /\ ticket'[u] = ticket[u]
  BY RolesIn DEF Others, Of
<1>2. nxt[s] \in Int /\ cur[s] \in 0 .. NB /\ cur[s] \in Int /\ NB \in Nat
  BY DEF EnoughTickets, TypeOK
<1>3. Leaders(s) /\ Waiters(s) /\ Givers(s)
  BY DEF Local
<1>4. /\ Leads(t) /\ AllWait(s)
      /\ \A u \in Of(s) : Leads(u) => u = t
      /\ ticket[t] = cur[s] /\ cur[s] > 0 /\ nxt[s] < cur[s]
  BY <1>1, <1>3 DEF Leaders, Leads
<1>5. cur'[s] = cur[s] - 1 /\ cur'[s] \in 0 .. NB - 1 /\ nxt[s] <= cur'[s]
  BY <1>2, <1>4
<1>6. PICK v \in Of(s) : pc[v] = "wait" /\ ticket[v] = cur[s] - 1
  BY <1>2, <1>4, <1>5 DEF AllWait
<1>7. \A u \in Of(s) : pc[u] = "wait" /\ ticket[u] = cur[s] - 1 => u = v
  BY <1>3, <1>6 DEF Waiters
<1>8. v # t
  BY <1>6
<1>9. \A u \in Of(s) : OnTurn(u)' <=> u = v
  BY <1>1, <1>5, <1>6, <1>7, <1>8, RolesIn
<1>10. \A u \in Of(s) : Leads(u)' <=> u = v
  <2>1. \A u \in Of(s) : pc'[u] \notin {"enqueue", "wait_global", "in", "pass"}
    BY <1>1, <1>4 DEF Leads
  <2> QED  BY <1>9, <2>1 DEF Leads
<1>11. \A u \in Of(s) : pc[u] = "wait" => /\ ticket[u] \in Int /\ nxt[s] <= ticket[u]
                                          /\ ticket[u] \in 0 .. NB - 1
                                          /\ ticket[u] <= cur'[s]
  <2>1. \A u \in Of(s) : pc[u] = "wait" =>
           /\ ticket[u] \in Int /\ nxt[s] <= ticket[u]
           /\ ticket[u] \in 0 .. NB - 1 /\ ticket[u] <= cur[s]
    BY <1>3 DEF Waiters
  <2>2. \A u \in Of(s) : pc[u] = "wait" => ticket[u] # cur[s]
    BY <1>4, RolesIn DEF Leads
  <2> QED  BY <1>2, <1>5, <2>1, <2>2
<1>12. AllWait(s)'
  <2> SUFFICES ASSUME NEW k \in 0 .. NB - 1, nxt[s] <= k, k < cur'[s]
               PROVE  \E u \in Of(s) : pc'[u] = "wait" /\ ticket'[u] = k
    BY DEF AllWait
  <2>1. PICK u \in Of(s) : pc[u] = "wait" /\ ticket[u] = k
    BY <1>2, <1>4, <1>5 DEF AllWait
  <2> QED  BY <1>1, <2>1
<1>13. Leaders(s)'
  <2>1. \A u \in Of(s) : pc'[u] \notin {"enqueue", "wait_global", "pass"}
    BY <1>10, <1>1, <1>6 DEF Leads
  <2> QED  BY <1>5, <1>10, <1>12, <2>1 DEF Leaders
<1>14. Waiters(s)'
  <2>1. \A u \in Of(s) : pc'[u] = "wait" => u # t
    BY <1>1
  <2> QED  BY <1>1, <1>3, <1>10, <1>11, <2>1 DEF Waiters
<1>15. Givers(s)'
  BY <1>1, <1>3, <1>10 DEF Givers
<1> QED  BY <1>5, <1>8, <1>9, <1>13, <1>14, <1>15 DEF Local

\* cur is given back: whoever leads by then has not begun to pass the lock on.
LEMMA ReleaseLocal ==
    ASSUME EnoughTickets, TypeOK, NEW t \in Threads, NEW s \in Sockets, s = Node[t],
           Local(s), pc[t] = "release", pc'[t] = "release_global", Others(t),
           nxt' = nxt, cur' = [cur EXCEPT ![s] = NB],
           \A u \in Of(s) : Leads(u) => pc[u] \in {"enqueue", "wait_global"}
    PROVE  Local(s)'
<1>1. t \in Of(s) /\ \A u \in Of(s) : u # t => pc'[u] = pc[u] /\ ticket'[u] = ticket[u]
  BY RolesIn DEF Others, Of
<1>2. /\ cur'[s] = NB
      /\ cur[s] = NB => cur' = cur
  BY DEF TypeOK
<1>3. CASE \E u \in Of(s) : Leads(u)
  <2>1. cur[s] = NB
    BY <1>3 DEF Local, Leaders
  <2> QED  BY <1>2, <2>1, NoRoleLocal
<1>4. CASE \A u \in Of(s) : ~Leads(u)
  <2>1. \A u \in Of(s) : pc'[u] # "wait" /\ pc[u] # "wait"
    BY <1>1, <1>4 DEF Local, Waiters
  <2>2. \A u \in Of(s) : pc'[u] \notin {"enqueue", "wait_global", "in", "pass"}
    BY <1>1, <1>4 DEF Leads
  <2>3. \A u \in Of(s) : ~Leads(u)'
    BY <2>1, <2>2 DEF Leads, OnTurn
  <2>4. Leaders(s)'
    BY <2>2, <2>3 DEF Leaders
  <2>5. Waiters(s)'
    BY <2>1 DEF Waiters
  <2>6. Givers(s)'
    BY <1>1, <1>4 DEF Local, Givers
  <2> QED  BY <2>4, <2>5, <2>6 DEF Local
<1> QED  BY <1>3, <1>4

-----------------------------------------------------------------------------
(* Between the sockets.                                                    *)

LEMMA PlaceIs ==
    ASSUME EnoughTickets, TypeOK
    PROVE  /\ Mod \in Nat /\ First \in {0, 1}
           /\ \A n \in Tickets : /\ Place(n) \in Nat /\ Place(n) < Mod
                                 /\ Place(n) = 0 <=> n = gcur
                                 /\ Inc(n) \in Tickets
                                 /\ Place(n) + 1 < Mod => Place(Inc(n)) = Place(n) + 1
           /\ \A m, n \in Tickets : Place(m) = Place(n) => m = n
<1>1. Mod \in Nat /\ gcur \in Tickets
  BY DEF EnoughTickets, TypeOK
<1>2. ASSUME NEW n \in Tickets
      PROVE  Inc(n) = (IF n + 1 = Mod THEN 0 ELSE n + 1) /\ Inc(n) \in Tickets
  <2>1. CASE n + 1 = Mod
    <3>1. Mod % Mod = 0
      BY <1>1, <2>1 DEF Tickets
    <3> QED  BY <1>1, <2>1, <3>1 DEF Inc, Tickets
  <2>2. CASE n + 1 # Mod
    <3>1. (n + 1) % Mod = n + 1
      BY <1>1, <2>2 DEF Tickets
    <3> QED  BY <1>1, <2>2, <3>1 DEF Inc, Tickets
  <2> QED  BY <2>1, <2>2
<1>3. ASSUME NEW n \in Tickets
      PROVE  /\ Place(n) \in Nat /\ Place(n) < Mod
             /\ Place(n) = 0 <=> n = gcur
             /\ Place(n) + 1 < Mod => Place(Inc(n)) = Place(n) + 1
  BY <1>1, <1>2 DEF Place, Tickets
<1>4. \A m, n \in Tickets : Place(m) = Place(n) => m = n
  BY <1>1 DEF Place, Tickets
<1> QED  BY <1>1, <1>2, <1>3, <1>4 DEF First

\* Steps by which no global ticket is drawn or served.
LEMMA GlobalFrame ==
    ASSUME GlobalLine, gnxt' = gnxt, gcur' = gcur, First' = First,
           \A u \in Threads : /\ pc'[u] = "wait_global" <=> pc[u] = "wait_global"
                              /\ pc[u] = "wait_global" => ticket'[u] = ticket[u],
           \A u, v \in Threads : Holds(u)' /\ Holds(v)' => u = v
    PROVE  GlobalLine'
<1>1. Place(gnxt)' = Place(gnxt) /\ \A u \in Threads :
         pc[u] = "wait_global" => Place(ticket[u])' = Place(ticket[u])
  BY DEF Place
<1>2. First' <= Place(gnxt)'
  BY <1>1 DEF GlobalLine
<1>3. \A u \in Threads : pc'[u] = "wait_global" =>
         ticket'[u] \in Tickets /\ Place(ticket[u])' \in First' .. Place(gnxt)' - 1
  BY <1>1 DEF GlobalLine
<1>4. \A u, v \in Threads :
         pc'[u] = "wait_global" /\ pc'[v] = "wait_global" /\ ticket'[u] = ticket'[v]
         => u = v
  BY DEF GlobalLine
<1>5. ASSUME NEW i \in First' .. Place(gnxt)' - 1
      PROVE  \E u \in Threads : pc'[u] = "wait_global" /\ Place(ticket[u])' = i
  <2>1. PICK u \in Threads : pc[u] = "wait_global" /\ Place(ticket[u]) = i
    BY <1>1 DEF GlobalLine
  <2> QED  BY <1>1, <2>1
<1> QED  BY <1>2, <1>3, <1>4, <1>5 DEF GlobalLine

\* There is a global ticket left for a thread that neither waits for one nor holds
\* the lock.
LEMMA LineIsShort ==
    ASSUME EnoughTickets, TypeOK, GlobalLine, NEW t \in Threads,
           pc[t] # "wait_global", ~Holds(t)
    PROVE  Place(gnxt) + 1 < Mod
<1> DEFINE last == Place(gnxt)
<1>1. /\ last \in Nat /\ First \in {0, 1} /\ First <= last /\ Mod \in Nat
      /\ \A i \in First .. last - 1 :
            \E u \in Threads : pc[u] = "wait_global" /\ Place(ticket[u]) = i
  BY PlaceIs DEF GlobalLine, TypeOK
<1>2. First = 1 => \E u \in Threads : Holds(u)
  BY DEF First
<1> DEFINE waits == [i \in First .. last - 1 |->
                       CHOOSE u \in Threads : pc[u] = "wait_global" /\ Place(ticket[u]) = i]
           holder == CHOOSE u \in Threads : Holds(u)
           n(i) == IF i = last THEN t ELSE IF i < First THEN holder ELSE waits[i]
           who == [i \in 0 .. last |-> n(i)]
<1>3. \A i \in First .. last - 1 :
         waits[i] \in Threads /\ pc[waits[i]] = "wait_global" /\ Place(ticket[waits[i]]) = i
  BY <1>1
<1>4. First = 1 => holder \in Threads /\ Holds(holder)
  BY <1>2
<1>5. \A u \in Threads : Holds(u) => pc[u] # "wait_global"
  BY HoldsIs DEF OnTurn
<1> HIDE DEF waits, holder, last
<1>6. \A i \in 0 .. last :
         /\ who[i] \in Threads
         /\ i = last => who[i] = t
         /\ i < First /\ i # last => i = 0 /\ Holds(who[i])
         /\ ~(i < First) /\ i # last => pc[who[i]] = "wait_global" /\ Place(ticket[who[i]]) = i
  BY <1>1, <1>3, <1>4
<1>7. who \in [0 .. last -> Threads]
  BY <1>6
<1> HIDE DEF who
<1>8. \A i, j \in 0 .. last : who[i] = who[j] => i = j
  BY <1>5, <1>6
<1>9. who \in Injection(0 .. last, Threads)
  BY <1>7, <1>8 DEF Injection, IsInjective
<1>10. Cardinality(0 .. last) <= Cardinality(Threads)
  BY <1>9, FS_Injection DEF EnoughTickets
<1>11. Cardinality(0 .. last) = last + 1
  BY <1>1, FS_Interval
<1>12. Cardinality(Threads) \in Nat /\ Cardinality(Threads) < Mod
  BY FS_CardinalityType DEF EnoughTickets
<1> QED  BY <1>1, <1>10, <1>11, <1>12 DEF last

LEMMA EnqueueGlobal ==
    ASSUME EnoughTickets, TypeOK, GlobalLine, NEW t \in Threads, Others(t),
           pc[t] = "enqueue", pc'[t] = "wait_global", ticket'[t] = gnxt,
           gnxt' = Inc(gnxt), gcur' = gcur, cur' = cur
    PROVE  GlobalLine'
<1>1. \A u \in Threads : Holds(u)' <=> Holds(u)
  BY HoldsIs DEF Others, OnTurn
<1>2. First' = First /\ ~Holds(t)
  BY <1>1, HoldsIs DEF First, OnTurn
<1>3. Place(gnxt) + 1 < Mod
  BY <1>2, LineIsShort
<1>4. /\ gnxt \in Tickets /\ Place(gnxt) \in Nat /\ First \in {0, 1}
      /\ Place(Inc(gnxt)) = Place(gnxt) + 1
  BY <1>3, PlaceIs DEF TypeOK
<1>5. Place(gnxt)' = Place(gnxt) + 1
  BY <1>4 DEF Place
<1>6. \A u \in Threads : pc'[u] = "wait_global" =>
         \/ u = t /\ Place(ticket[u])' = Place(gnxt)
         \/ u # t /\ pc[u] = "wait_global" /\ Place(ticket[u])' = Place(ticket[u])
                  /\ ticket'[u] = ticket[u]
  BY DEF Others, Place
<1>7. \A u \in Threads : pc[u] = "wait_global" =>
         ticket[u] \in Tickets /\ Place(ticket[u]) \in First .. Place(gnxt) - 1
  BY DEF GlobalLine
<1>8. \A u \in Threads : pc'[u] = "wait_global" =>
         ticket'[u] \in Tickets /\ Place(ticket[u])' \in First' .. Place(gnxt)' - 1
  <2>1. First <= Place(gnxt)
    BY DEF GlobalLine
  <2>2. \A u \in Threads : pc'[u] = "wait_global" => ticket'[u] \in Tickets
    BY <1>4, <1>6, <1>7
  <2>3. \A u \in Threads : pc'[u] = "wait_global" =>
           Place(ticket[u])' \in First .. Place(gnxt)
    BY <1>4, <1>6, <1>7, <2>1
  <2> QED  BY <1>2, <1>4, <1>5, <2>2, <2>3
<1>9. \A u, v \in Threads :
         pc'[u] = "wait_global" /\ pc'[v] = "wait_global" /\ ticket'[u] = ticket'[v]
         => u = v
  <2>1. \A u \in Threads : pc[u] = "wait_global" => ticket[u] # gnxt
    BY <1>4, <1>7
  <2> QED  BY <1>6, <2>1 DEF GlobalLine
<1>10. ASSUME NEW i \in First' .. Place(gnxt)' - 1
       PROVE  \E u \in Threads : pc'[u] = "wait_global" /\ Place(ticket[u])' = i
  <2>1. CASE i = Place(gnxt)
    BY <1>6, <2>1
  <2>2. CASE i # Place(gnxt)
    <3>1. i \in First .. Place(gnxt) - 1
      BY <1>2, <1>4, <1>5, <2>2
    <3>2. PICK u \in Threads : pc[u] = "wait_global" /\ Place(ticket[u]) = i
      BY <3>1 DEF GlobalLine
    <3>3. u # t /\ pc'[u] = "wait_global"
      BY <3>2 DEF Others
    <3> QED  BY <1>6, <3>2, <3>3
  <2> QED  BY <2>1, <2>2
<1>11. First' <= Place(gnxt)'
  BY <1>2, <1>4, <1>5 DEF GlobalLine
<1>12. \A u, v \in Threads : Holds(u)' /\ Holds(v)' => u = v
  BY <1>1 DEF GlobalLine
<1> QED  BY <1>8, <1>9, <1>10, <1>11, <1>12 DEF GlobalLine

\* The first in line: nobody holds the lock, and the others stay behind.
LEMMA TurnGlobal ==
    ASSUME EnoughTickets, TypeOK, GlobalLine, NEW t \in Threads, Others(t),
           pc[t] = "wait_global", pc'[t] = "in", ticket[t] = gcur,
           gnxt' = gnxt, gcur' = gcur, cur' = cur
    PROVE  /\ GlobalLine'
           /\ \A u \in Threads : ~Holds(u) /\ (Holds(u)' <=> u = t)
<1>1. /\ First \in {0, 1} /\ Place(gcur) = 0 /\ Place(gnxt) \in Nat
      /\ \A u \in Threads : pc[u] = "wait_global" =>
            /\ ticket[u] \in Tickets /\ Place(ticket[u]) \in First .. Place(gnxt) - 1
            /\ Place(ticket[u]) = 0 <=> ticket[u] = gcur
  BY PlaceIs DEF GlobalLine, TypeOK
<1>2. First = 0 /\ Place(gnxt) >= 1
  BY <1>1
<1>3. \A u \in Threads : ~Holds(u)
  BY <1>2 DEF First
<1>4. \A u \in Threads : Holds(u)' <=> u = t
  <2>1. \A u \in Threads : u # t => (Holds(u)' <=> Holds(u))
    BY HoldsIs DEF Others, OnTurn
  <2>2. Holds(t)'
    BY HoldsIs
  <2> QED  BY <1>3, <2>1, <2>2
<1>5. First' = 1
  BY <1>4 DEF First
<1>6. Place(gnxt)' = Place(gnxt) /\ \A u \in Threads :
         u # t => ticket'[u] = ticket[u] /\ Place(ticket[u])' = Place(ticket[u])
  BY DEF Place, Others
<1>7. \A u \in Threads : pc'[u] = "wait_global" => u # t /\ pc[u] = "wait_global"
  BY DEF Others
<1>8. \A u \in Threads : u # t /\ pc[u] = "wait_global" => ticket[u] # gcur
  BY DEF GlobalLine
<1>9. \A u \in Threads : pc'[u] = "wait_global" =>
         ticket'[u] \in Tickets /\ Place(ticket[u])' \in First' .. Place(gnxt)' - 1
  <2>1. \A u \in Threads : pc'[u] = "wait_global" =>
           ticket[u] \in Tickets /\ Place(ticket[u]) \in 1 .. Place(gnxt) - 1
    BY <1>1, <1>2, <1>7, <1>8
  <2> QED  BY <1>5, <1>6, <1>7, <2>1
<1>10. \A u, v \in Threads :
          pc'[u] = "wait_global" /\ pc'[v] = "wait_global" /\ ticket'[u] = ticket'[v]
          => u = v
  BY <1>6, <1>7 DEF GlobalLine
<1>11. ASSUME NEW i \in First' .. Place(gnxt)' - 1
       PROVE  \E u \in Threads : pc'[u] = "wait_global" /\ Place(ticket[u])' = i
  <2>1. i \in First .. Place(gnxt) - 1 /\ i # 0
    BY <1>1, <1>2, <1>5, <1>6
  <2>2. PICK u \in Threads : pc[u] = "wait_global" /\ Place(ticket[u]) = i
    BY <2>1 DEF GlobalLine
  <2>3. u # t
    BY <1>1, <2>1, <2>2
  <2>4. pc'[u] = "wait_global" /\ Place(ticket[u])' = i
    BY <1>6, <2>2, <2>3 DEF Others
  <2> QED  BY <2>4
<1>12. First' <= Place(gnxt)' /\ \A u, v \in Threads : Holds(u)' /\ Holds(v)' => u = v
  BY <1>1, <1>2, <1>4, <1>5, <1>6
<1> QED  BY <1>3, <1>4, <1>9, <1>10, <1>11, <1>12 DEF GlobalLine

\* The holder goes, and all others are one place nearer.
LEMMA LeaveGlobal ==
    ASSUME EnoughTickets, TypeOK, GlobalLine, NEW t \in Threads, Others(t),
           pc[t] \in {"release_global", "in_try"}, pc'[t] = "out",
           gnxt' = gnxt, gcur' = Inc(gcur), cur' = cur
    PROVE  /\ GlobalLine'
           /\ \A u \in Threads : ~Holds(u)' /\ (Holds(u) <=> u = t)
<1>1. \A u \in Threads : Holds(u) <=> u = t
  BY HoldsIs DEF GlobalLine
<1>2. \A u \in Threads : ~Holds(u)'
  <2>1. \A u \in Threads : u # t => (Holds(u)' <=> Holds(u))
    BY HoldsIs DEF Others, OnTurn
  <2>2. ~Holds(t)'
    BY HoldsIs DEF OnTurn
  <2> QED  BY <1>1, <2>1, <2>2
<1>3. First = 1 /\ First' = 0
  BY <1>1, <1>2 DEF First
<1>4. /\ Mod \in Nat /\ gcur \in Tickets /\ gnxt \in Tickets /\ Place(gnxt) \in Nat
      /\ Place(gnxt) >= 1 /\ Inc(gcur) \in Tickets
      /\ \A n \in Tickets : Place(n) \in Nat /\ Place(n) < Mod
  BY <1>3, PlaceIs DEF GlobalLine, TypeOK
<1>5. ASSUME NEW n \in Tickets, Place(n) >= 1
      PROVE  IF n >= gcur' THEN Place(n) - 1 = n - gcur' ELSE Place(n) - 1 = n - gcur' + Mod
  <2>1. 0 + 1 < Mod /\ Place(gcur) = 0
    BY <1>4, <1>5, PlaceIs
  <2>2. Inc(gcur) = IF gcur + 1 = Mod THEN 0 ELSE gcur + 1
    <3>1. CASE gcur + 1 = Mod
      <4>1. Mod % Mod = 0
        BY <1>4, <3>1 DEF Tickets
      <4> QED  BY <1>4, <3>1, <4>1 DEF Inc, Tickets
    <3>2. CASE gcur + 1 # Mod
      <4>1. (gcur + 1) % Mod = gcur + 1
        BY <1>4, <3>2 DEF Tickets
      <4> QED  BY <1>4, <3>2, <4>1 DEF Inc, Tickets
    <3> QED  BY <3>1, <3>2
  <2> QED  BY <1>4, <1>5, <2>2 DEF Place, Tickets
<1>6. Place(gnxt)' = Place(gnxt) - 1
  BY <1>4, <1>5 DEF Place
<1>7. \A u \in Threads : pc[u] = "wait_global" =>
         /\ u # t /\ pc'[u] = "wait_global" /\ ticket'[u] = ticket[u]
         /\ ticket[u] \in Tickets /\ Place(ticket[u]) \in 1 .. Place(gnxt) - 1
  BY <1>3 DEF GlobalLine, Others
<1>8. \A u \in Threads : pc'[u] = "wait_global" => pc[u] = "wait_global"
  BY DEF Others
<1>9. \A u \in Threads : pc[u] = "wait_global" => Place(ticket[u])' = Place(ticket[u]) - 1
  <2> TAKE u \in Threads
  <2> HAVE pc[u] = "wait_global"
  <2>1. ticket[u] \in Tickets /\ Place(ticket[u]) >= 1 /\ ticket'[u] = ticket[u]
    BY <1>4, <1>7
  <2> QED  BY <1>4, <1>5, <2>1 DEF Place
<1>10. \A u \in Threads : pc'[u] = "wait_global" =>
          ticket'[u] \in Tickets /\ Place(ticket[u])' \in First' .. Place(gnxt)' - 1
  BY <1>3, <1>4, <1>6, <1>7, <1>8, <1>9
<1>11. \A u, v \in Threads :
          pc'[u] = "wait_global" /\ pc'[v] = "wait_global" /\ ticket'[u] = ticket'[v]
          => u = v
  BY <1>7, <1>8 DEF GlobalLine
<1>12. ASSUME NEW i \in First' .. Place(gnxt)' - 1
       PROVE  \E u \in Threads : pc'[u] = "wait_global" /\ Place(ticket[u])' = i
  <2>1. i + 1 \in First .. Place(gnxt) - 1 /\ i \in Int
    BY <1>3, <1>4, <1>6
  <2>2. PICK u \in Threads : pc[u] = "wait_global" /\ Place(ticket[u]) = i + 1
    BY <2>1 DEF GlobalLine
  <2>3. pc'[u] = "wait_global" /\ Place(ticket[u])' = i
    BY <1>7, <1>9, <2>1, <2>2
  <2> QED  BY <2>3
<1>13. First' <= Place(gnxt)' /\ \A u, v \in Threads : Holds(u)' /\ Holds(v)' => u = v
  BY <1>2, <1>3, <1>4, <1>6
<1> QED  BY <1>1, <1>2, <1>10, <1>11, <1>12, <1>13 DEF GlobalLine

\* CAS_U64 succeeds only when nobody is in line.
LEMMA TryGlobal ==
    ASSUME EnoughTickets, TypeOK, GlobalLine, NEW t \in Threads, Others(t),
           pc[t] = "try", pc'[t] = "in_try", gnxt = gcur,
           gnxt' = Inc(gnxt), gcur' = gcur, cur' = cur
    PROVE  /\ GlobalLine'
           /\ \A u \in Threads : ~Holds(u) /\ (Holds(u)' <=> u = t)
<1>1. /\ First \in {0, 1} /\ Place(gnxt) = 0 /\ First <= Place(gnxt) /\ gnxt \in Tickets
      /\ Place(gnxt) + 1 < Mod => Place(Inc(gnxt)) = Place(gnxt) + 1
  BY PlaceIs DEF GlobalLine, TypeOK
<1>2. First = 0
  BY <1>1
<1>3. \A u \in Threads : ~Holds(u)
  BY <1>2 DEF First
<1>4. \A u \in Threads : Holds(u)' <=> u = t
  <2>1. \A u \in Threads : u # t => (Holds(u)' <=> Holds(u))
    BY HoldsIs DEF Others, OnTurn
  <2>2. Holds(t)'
    BY HoldsIs
  <2> QED  BY <1>3, <2>1, <2>2
<1>5. Place(gnxt) + 1 < Mod
  BY <1>3, LineIsShort
<1>6. Place(gnxt)' = 1 /\ First' = 1
  <2>1. Place(Inc(gnxt)) = 1
    BY <1>1, <1>5
  <2>2. First' = 1
    BY <1>4 DEF First
  <2> QED  BY <2>1, <2>2 DEF Place
<1>7. \A u \in Threads : pc'[u] # "wait_global"
  <2>1. \A u \in Threads : pc[u] = "wait_global" => Place(ticket[u]) \in 0 .. 0 - 1
    BY <1>1, <1>2 DEF GlobalLine
  <2> QED  BY <2>1 DEF Others
<1>8. First' .. Place(gnxt)' - 1 = {}
  BY <1>6
<1> QED  BY <1>3, <1>4, <1>6, <1>7, <1>8 DEF GlobalLine

-----------------------------------------------------------------------------
(* The invariant.                                                          *)

LEMMA PassedFrame ==
    ASSUME PassedIs, passed' = passed,
           \A u \in Threads : pc'[u] \in {"in", "pass"} \/ OnTurn(u)' =>
              /\ pc[u] \in {"in", "pass"} \/ OnTurn(u)
              /\ cur'[Node[u]] = cur[Node[u]]
    PROVE  PassedIs'
BY DEF PassedIs

LEMMA InitInv == ASSUME EnoughTickets, Init PROVE Inv
<1>1. NB \in Nat /\ Mod \in Nat /\ Mod # 0
  <2>1. Cardinality(Threads) \in Nat
    BY FS_CardinalityType DEF EnoughTickets
  <2> QED  BY <2>1 DEF EnoughTickets
<1>2. TypeOK
  BY <1>1 DEF Init, TypeOK, Tickets, PCs
<1>3. \A t \in Threads : pc[t] = "out" /\ ~OnTurn(t) /\ ~Leads(t) /\ ~Holds(t)
  BY HoldsIs DEF Init, OnTurn, Leads
<1>4. \A s \in Sockets : Local(s)
  <2> TAKE s \in Sockets
  <2>1. \A t \in Of(s) : pc[t] = "out" /\ ~Leads(t)
    BY <1>3, RolesIn
  <2>2. nxt[s] = 0
    BY DEF Init
  <2> QED  BY <2>1, <2>2 DEF Local, Leaders, Waiters, Givers
<1>5. GlobalLine
  <2>1. First = 0 /\ Place(gnxt) = 0
    BY <1>1, <1>2, <1>3 DEF First, Place, Init, TypeOK, Tickets
  <2> QED  BY <1>3, <2>1 DEF GlobalLine
<1>6. PassedIs
  BY <1>1, <1>3 DEF PassedIs, Init
<1> QED  BY <1>2, <1>4, <1>5, <1>6 DEF Inv

\* One lemma per action; each also says what becomes of the holders.
HoldersStay == \A u \in Threads : Holds(u)' <=> Holds(u)

LEMMA SocketOf ==
    ASSUME EnoughTickets, TypeOK, NEW t \in Threads
    PROVE  \E s \in Sockets : s = Node[t] /\ nxt[s] \in Int /\ cur[s] \in 0 .. NB
BY DEF EnoughTickets, TypeOK

LEMMA LocalTurnInv ==
    ASSUME EnoughTickets, Inv, NEW t \in Threads, LocalTurn(t)
    PROVE  Inv' /\ Holds(t) /\ HoldersStay
<1> USE DEF Inv
<1>1. /\ pc[t] = "wait" /\ OnTurn(t) /\ pc' = [pc EXCEPT ![t] = "in"]
      /\ nxt' = nxt /\ cur' = cur /\ gnxt' = gnxt /\ gcur' = gcur
      /\ ticket' = ticket /\ passed' = passed
  BY DEF LocalTurn, Goto, OnTurn
<1>2. /\ TypeOK' /\ Others(t) /\ pc'[t] = "in" /\ Elsewhere(t)
  BY <1>1 DEF TypeOK, PCs, Others, Elsewhere
<1>3. PICK s \in Sockets : s = Node[t]
  BY DEF EnoughTickets
<1>4. Local(s)'
  BY <1>1, <1>2, <1>3, LeaderLocal DEF Leads
<1>5. \A x \in Sockets : Local(x)'
  BY <1>2, <1>3, <1>4, LocalElsewhere
<1>6. HoldersStay /\ Holds(t)
  <2>1. \A u \in Threads : u # t => (OnTurn(u)' <=> OnTurn(u))
    BY <1>1, <1>2 DEF OnTurn, Others
  <2>2. \A u \in Threads : u # t => (Holds(u)' <=> Holds(u))
    BY <1>2, <2>1, HoldsIs DEF Others
  <2>3. Holds(t) /\ Holds(t)'
    BY <1>1, <1>2, HoldsIs
  <2> QED  BY <2>2, <2>3 DEF HoldersStay
<1>7. GlobalLine'
  <2>1. First' = First
    BY <1>6 DEF First, HoldersStay
  <2>2. \A u \in Threads : pc'[u] = "wait_global" <=> pc[u] = "wait_global"
    BY <1>1, <1>2 DEF Others
  <2>3. \A u, v \in Threads : Holds(u)' /\ Holds(v)' => u = v
    BY <1>6 DEF HoldersStay, GlobalLine
  <2> QED  BY <1>1, <2>1, <2>2, <2>3, GlobalFrame
<1>8. PassedIs'
  <2>1. \A u \in Threads : u # t => (OnTurn(u)' <=> OnTurn(u)) /\ pc'[u] = pc[u]
    BY <1>1, <1>2 DEF OnTurn, Others
  <2> QED  BY <1>1, <2>1, PassedFrame
<1> QED  BY <1>2, <1>5, <1>6, <1>7, <1>8

LEMMA FetchInv ==
    ASSUME EnoughTickets, Inv, NEW t \in Threads, Fetch(t)
    PROVE  Inv' /\ HoldersStay
<1> USE DEF Inv
<1>1. PICK s \in Sockets : s = Node[t]
  BY DEF EnoughTickets
<1>2. /\ pc[t] = "fetch" /\ cur[s] = NB /\ pc' = [pc EXCEPT ![t] = "enqueue"]
      /\ nxt' = [nxt EXCEPT ![s] = NB] /\ cur' = cur /\ gnxt' = gnxt /\ gcur' = gcur
      /\ ticket' = ticket /\ passed' = passed
  BY <1>1 DEF Fetch, Goto, GiveTickets
<1>3. /\ TypeOK' /\ Others(t) /\ pc'[t] = "enqueue" /\ Elsewhere(t) /\ nxt'[s] = NB
  BY <1>1, <1>2 DEF TypeOK, PCs, Others, Elsewhere, EnoughTickets
<1>4. \A x \in Sockets : Local(x)'
  <2>1. Local(s)'
    BY <1>1, <1>2, <1>3, FetchLocal
  <2> QED  BY <1>1, <1>3, <2>1, LocalElsewhere
<1>5. \A u \in Threads : (OnTurn(u)' <=> OnTurn(u)) /\ (Holds(u)' <=> Holds(u))
  <2>1. \A u \in Threads : OnTurn(u)' <=> OnTurn(u)
    BY <1>2, <1>3 DEF OnTurn, Others
  <2> QED  BY <1>2, <1>3, <2>1, HoldsIs DEF Others
<1>6. GlobalLine'
  <2>1. First' = First
    BY <1>5 DEF First
  <2>2. \A u \in Threads : pc'[u] = "wait_global" <=> pc[u] = "wait_global"
    BY <1>2, <1>3 DEF Others
  <2>3. \A u, v \in Threads : Holds(u)' /\ Holds(v)' => u = v
    BY <1>5 DEF GlobalLine
  <2> QED  BY <1>2, <2>1, <2>2, <2>3, GlobalFrame
<1>7. PassedIs'
  <2>1. \A u \in Threads : pc'[u] \in {"in", "pass"} => pc[u] \in {"in", "pass"}
    BY <1>2, <1>3 DEF Others
  <2> QED  BY <1>2, <1>5, <2>1, PassedFrame
<1> QED  BY <1>3, <1>4, <1>5, <1>6, <1>7 DEF HoldersStay

LEMMA EnqueueInv ==
    ASSUME EnoughTickets, Inv, NEW t \in Threads, Enqueue(t)
    PROVE  Inv' /\ HoldersStay
<1> USE DEF Inv
<1>1. /\ pc[t] = "enqueue" /\ pc' = [pc EXCEPT ![t] = "wait_global"]
      /\ ticket' = [ticket EXCEPT ![t] = gnxt] /\ gnxt' = Inc(gnxt)
      /\ nxt' = nxt /\ cur' = cur /\ gcur' = gcur /\ passed' = passed
  BY DEF Enqueue, Goto
<1>2. gnxt \in Int /\ Inc(gnxt) \in Tickets
  BY PlaceIs DEF TypeOK, EnoughTickets, Tickets
<1>3. /\ TypeOK' /\ Others(t) /\ pc'[t] = "wait_global" /\ ticket'[t] = gnxt /\ Elsewhere(t)
  BY <1>1, <1>2 DEF TypeOK, PCs, Others, Elsewhere
<1>4. \A x \in Sockets : Local(x)'
  <2>1. PICK s \in Sockets : s = Node[t]
    BY DEF EnoughTickets
  <2>2. Local(s)'
    BY <1>1, <1>3, <2>1, LeaderLocal DEF Leads
  <2> QED  BY <1>3, <2>1, <2>2, LocalElsewhere
<1>5. \A u \in Threads : (OnTurn(u)' <=> OnTurn(u)) /\ (Holds(u)' <=> Holds(u))
  <2>1. \A u \in Threads : OnTurn(u)' <=> OnTurn(u)
    BY <1>1, <1>3 DEF OnTurn, Others
  <2> QED  BY <1>1, <1>3, <2>1, HoldsIs DEF Others
<1>6. GlobalLine'
  BY <1>1, <1>3, EnqueueGlobal
<1>7. PassedIs'
  <2>1. \A u \in Threads : pc'[u] \in {"in", "pass"} => pc[u] \in {"in", "pass"}
    BY <1>1, <1>3 DEF Others
  <2> QED  BY <1>1, <1>5, <2>1, PassedFrame
<1> QED  BY <1>3, <1>4, <1>5, <1>6, <1>7 DEF HoldersStay

LEMMA GlobalTurnInv ==
    ASSUME EnoughTickets, Inv, NEW t \in Threads, GlobalTurn(t)
    PROVE  /\ Inv'
           /\ \A u \in Threads : ~Holds(u) /\ (Holds(u)' <=> u = t)
<1> USE DEF Inv
<1>1. /\ pc[t] = "wait_global" /\ ticket[t] = gcur /\ pc' = [pc EXCEPT ![t] = "in"]
      /\ nxt' = nxt /\ cur' = cur /\ gnxt' = gnxt /\ gcur' = gcur
      /\ ticket' = ticket /\ passed' = 0
  BY DEF GlobalTurn, Goto
<1>2. /\ TypeOK' /\ Others(t) /\ pc'[t] = "in" /\ Elsewhere(t)
  BY <1>1 DEF TypeOK, PCs, Others, Elsewhere
<1>3. PICK s \in Sockets : s = Node[t]
  BY DEF EnoughTickets
<1>4. \A x \in Sockets : Local(x)'
  <2>1. Local(s)'
    BY <1>1, <1>2, <1>3, LeaderLocal DEF Leads
  <2> QED  BY <1>2, <1>3, <2>1, LocalElsewhere
<1>5. GlobalLine' /\ \A u \in Threads : ~Holds(u) /\ (Holds(u)' <=> u = t)
  BY <1>1, <1>2, TurnGlobal
<1>6. PassedIs'
  <2>1. cur[s] = NB /\ NB \in Nat
    <3>1. t \in Of(s)
      BY <1>3 DEF Of
    <3> QED  BY <1>1, <3>1 DEF Local, Leaders, EnoughTickets
  <2>2. \A u \in Threads : pc'[u] \in {"in", "pass"} \/ OnTurn(u)' => u = t
    BY <1>5, HoldsIs
  <2> QED  BY <1>1, <1>3, <2>1, <2>2 DEF PassedIs
<1> QED  BY <1>2, <1>4, <1>5, <1>6

LEMMA WithdrawInv ==
    ASSUME EnoughTickets, Inv, NEW t \in Threads, Withdraw(t)
    PROVE  Inv' /\ HoldersStay
<1> USE DEF Inv
<1>1. PICK s \in Sockets : s = Node[t]
  BY DEF EnoughTickets
<1>2. /\ pc[t] = "in" /\ ticket' = [ticket EXCEPT ![t] = cur[s]]
      /\ nxt' = IF nxt[s] = cur[s] THEN [nxt EXCEPT ![s] = 0] ELSE nxt
      /\ pc' = [pc EXCEPT ![t] =
                        IF cur[s] = 0 \/ nxt[s] = cur[s] THEN "release" ELSE "pass"]
      /\ cur' = cur /\ gnxt' = gnxt /\ gcur' = gcur /\ passed' = passed
  BY <1>1 DEF Withdraw, Goto
<1>3. cur[s] \in Int /\ nxt[s] \in Int
  BY DEF EnoughTickets, TypeOK
<1>4. /\ TypeOK' /\ Others(t) /\ Elsewhere(t)
      /\ pc'[t] = IF cur[s] = 0 \/ nxt[s] = cur[s] THEN "release" ELSE "pass"
      /\ ticket'[t] = cur[s]
      /\ nxt'[s] = IF nxt[s] = cur[s] THEN 0 ELSE nxt[s]
  <2>1. nxt' \in [Sockets -> Int] /\ Elsewhere(t)
    BY <1>1, <1>2, <1>3 DEF TypeOK, Elsewhere
  <2>2. pc' \in [Threads -> PCs] /\ ticket' \in [Threads -> Int] /\ Others(t)
    BY <1>2, <1>3 DEF TypeOK, PCs, Others
  <2>3. /\ pc'[t] = IF cur[s] = 0 \/ nxt[s] = cur[s] THEN "release" ELSE "pass"
        /\ ticket'[t] = cur[s]
        /\ nxt'[s] = IF nxt[s] = cur[s] THEN 0 ELSE nxt[s]
    BY <1>2 DEF TypeOK
  <2> QED  BY <1>2, <2>1, <2>2, <2>3 DEF TypeOK
<1>5. \A x \in Sockets : Local(x)'
  <2>1. \/ /\ cur[s] = 0 \/ nxt[s] = cur[s]
           /\ pc'[t] = "release"
           /\ nxt'[s] = IF nxt[s] = cur[s] THEN 0 ELSE nxt[s]
        \/ /\ cur[s] # 0 /\ nxt[s] # cur[s]
           /\ pc'[t] = "pass" /\ ticket'[t] = cur[s]
           /\ nxt'[s] = nxt[s]
    BY <1>4
  <2>2. Local(s)'
    BY <1>1, <1>2, <1>4, <2>1, WithdrawLocal
  <2> QED  BY <1>1, <1>4, <2>2, LocalElsewhere
<1>6. pc'[t] \in {"release", "pass"}
  BY <1>4
<1>7. \A u \in Threads : (OnTurn(u)' <=> OnTurn(u)) /\ (Holds(u)' <=> Holds(u))
  <2>1. \A u \in Threads : OnTurn(u)' <=> OnTurn(u)
    BY <1>2, <1>4, <1>6 DEF OnTurn, Others
  <2> QED  BY <1>2, <1>4, <1>6, <2>1, HoldsIs DEF Others
<1>8. GlobalLine'
  <2>1. First' = First
    BY <1>7 DEF First
  <2>2. \A u \in Threads : /\ pc'[u] = "wait_global" <=> pc[u] = "wait_global"
                           /\ pc[u] = "wait_global" => ticket'[u] = ticket[u]
    BY <1>2, <1>4, <1>6 DEF Others
  <2>3. \A u, v \in Threads : Holds(u)' /\ Holds(v)' => u = v
    BY <1>7 DEF GlobalLine
  <2> QED  BY <1>2, <2>1, <2>2, <2>3, GlobalFrame
<1>9. PassedIs'
  <2>1. \A u \in Threads : pc'[u] \in {"in", "pass"} => pc[u] \in {"in", "pass"}
    BY <1>2, <1>4 DEF Others
  <2> QED  BY <1>2, <1>7, <2>1, PassedFrame
<1> QED  BY <1>4, <1>5, <1>7, <1>8, <1>9 DEF HoldersStay

\* The lock goes from t to a neighbour.
LEMMA PassInv ==
    ASSUME EnoughTickets, Inv, NEW t \in Threads, Pass(t)
    PROVE  /\ Inv' /\ Holds(t)
           /\ \E v \in Threads : v # t /\ OnTurn(v)'
            /\ \A u \in Threads : Holds(u)' => u = v
<1> USE DEF Inv
<1>1. PICK s \in Sockets : s = Node[t]
  BY DEF EnoughTickets
<1>2. /\ pc[t] = "pass" /\ pc' = [pc EXCEPT ![t] = "out"]
      /\ cur' = [cur EXCEPT ![s] = ticket[t] - 1] /\ passed' = passed + 1
      /\ nxt' = nxt /\ gnxt' = gnxt /\ gcur' = gcur /\ ticket' = ticket
  BY <1>1 DEF Pass, Goto
<1>3. /\ pc' \in [Threads -> PCs] /\ Others(t) /\ Elsewhere(t) /\ pc'[t] = "out"
      /\ cur'[s] = ticket[t] - 1
  BY <1>1, <1>2 DEF TypeOK, PCs, Others, Elsewhere
<1>4. /\ Local(s)' /\ cur'[s] = cur[s] - 1
      /\ \E v \in Of(s) : v # t /\ \A u \in Of(s) : OnTurn(u)' <=> u = v
  BY <1>1, <1>2, <1>3, PassLocal
<1>5. PICK v \in Of(s) : v # t /\ \A u \in Of(s) : OnTurn(u)' <=> u = v
  BY <1>4
<1>6. \A x \in Sockets : Local(x)'
  BY <1>1, <1>3, <1>4, LocalElsewhere
<1>7. \A u \in Threads : Holds(u) <=> u = t
  BY <1>2, HoldsIs DEF GlobalLine
<1>8. \A u \in Threads : OnTurn(u)' <=> u = v
  <2>1. \A u \in Threads : u \in Of(s) \/ (u # t /\ Node[u] \in Sockets /\ Node[u] # s)
    BY <1>1 DEF Of, EnoughTickets
  <2>2. \A u \in Threads : u \notin Of(s) => (OnTurn(u)' <=> OnTurn(u))
    BY <1>1, <1>2, <1>3, <2>1 DEF OnTurn, Others, Elsewhere
  <2>3. \A u \in Threads : u # t => ~OnTurn(u)
    BY <1>7, HoldsIs
  <2> QED  BY <1>5, <2>1, <2>2, <2>3, RolesIn
<1>9. \A u \in Threads : Holds(u)' <=> u = v
  <2>1. \A u \in Threads : pc'[u] \notin {"in", "pass", "release", "release_global", "in_try"}
    BY <1>2, <1>3, <1>7, HoldsIs DEF Others
  <2> QED  BY <1>8, <2>1, HoldsIs
<1>10. v \in Threads
  BY RolesIn
<1>11. /\ cur[s] \in Int /\ NB \in Nat /\ passed \in Nat /\ passed + cur[s] = NB
       /\ cur[s] > 0 /\ cur[s] <= NB
  <2>1. passed + cur[s] = NB
    BY <1>1, <1>2 DEF PassedIs
  <2>2. cur[s] > 0
    <3>1. t \in Of(s)
      BY <1>1 DEF Of
    <3> QED  BY <1>2, <3>1 DEF Local, Leaders
  <2> QED  BY <2>1, <2>2 DEF TypeOK, EnoughTickets
<1>12. TypeOK'
  <2>1. cur' \in [Sockets -> 0 .. NB]
    <3>1. cur[s] - 1 \in 0 .. NB /\ ticket[t] - 1 = cur[s] - 1
      BY <1>3, <1>4, <1>11
    <3> QED  BY <1>2, <3>1 DEF TypeOK
  <2> QED  BY <1>2, <1>3, <1>11, <2>1 DEF TypeOK
<1>13. GlobalLine'
  <2>1. First' = First
    BY <1>7, <1>9, <1>10 DEF First
  <2>2. \A u \in Threads : pc'[u] = "wait_global" <=> pc[u] = "wait_global"
    BY <1>2, <1>3 DEF Others
  <2> QED  BY <1>2, <1>9, <2>1, <2>2, GlobalFrame
<1>14. PassedIs'
  <2>1. \A u \in Threads : pc'[u] \in {"in", "pass"} \/ OnTurn(u)' => u = v
    BY <1>9, HoldsIs
  <2>2. Node[v] = s
    BY RolesIn
  <2>3. passed + 1 <= NB /\ passed + 1 + (cur[s] - 1) = NB
    BY <1>11
  <2> QED  BY <1>2, <1>4, <2>1, <2>2, <2>3 DEF PassedIs
<1> QED  BY <1>6, <1>7, <1>5, <1>8, <1>9, <1>10, <1>12, <1>13, <1>14

LEMMA ReleaseInv ==
    ASSUME EnoughTickets, Inv, NEW t \in Threads, Release(t)
    PROVE  Inv' /\ HoldersStay
<1> USE DEF Inv
<1>1. PICK s \in Sockets : s = Node[t]
  BY DEF EnoughTickets
<1>2. /\ pc[t] = "release" /\ pc' = [pc EXCEPT ![t] = "release_global"]
      /\ cur' = [cur EXCEPT ![s] = NB] /\ passed' = passed
      /\ nxt' = nxt /\ gnxt' = gnxt /\ gcur' = gcur /\ ticket' = ticket
  BY <1>1 DEF Release, Goto
<1>3. /\ TypeOK' /\ Others(t) /\ Elsewhere(t) /\ pc'[t] = "release_global" /\ cur'[s] = NB
  BY <1>1, <1>2 DEF TypeOK, PCs, Others, Elsewhere, EnoughTickets
<1>4. \A u \in Threads : Holds(u) <=> u = t
  BY <1>2, HoldsIs DEF GlobalLine
<1>5. \A x \in Sockets : Local(x)'
  <2>1. \A u \in Of(s) : Leads(u) => pc[u] \in {"enqueue", "wait_global"}
    BY <1>2, <1>4, HoldsIs, RolesIn DEF Leads
  <2>2. Local(s)'
    BY <1>1, <1>2, <1>3, <2>1, ReleaseLocal
  <2> QED  BY <1>1, <1>3, <2>2, LocalElsewhere
<1>6. \A u \in Threads : ~OnTurn(u)'
  <2>1. \A u \in Threads : ~OnTurn(u)
    BY <1>2, <1>4, HoldsIs DEF OnTurn
  <2>2. ASSUME NEW u \in Threads, u # t PROVE ~OnTurn(u)'
    <3>1. CASE Node[u] = s
      <4>1. u \in Of(s) /\ NB \in Nat
        BY <3>1 DEF Of, EnoughTickets
      <4>2. pc[u] = "wait" => ticket[u] \in 0 .. NB - 1
        BY <4>1 DEF Local, Waiters
      <4>3. NB \notin 0 .. NB - 1
        BY <4>1
      <4> QED  BY <1>2, <1>3, <2>2, <3>1, <4>2, <4>3 DEF OnTurn, Others
    <3>2. CASE Node[u] # s
      <4>1. cur'[Node[u]] = cur[Node[u]]
        BY <1>1, <1>3, <3>2 DEF Elsewhere, EnoughTickets
      <4> QED  BY <1>2, <1>3, <2>1, <2>2, <4>1 DEF OnTurn, Others
    <3> QED  BY <3>1, <3>2
  <2>3. ~OnTurn(t)'
    BY <1>3 DEF OnTurn
  <2> QED  BY <2>2, <2>3
<1>7. \A u \in Threads : Holds(u)' <=> Holds(u)
  <2>1. \A u \in Threads : u # t => (Holds(u)' <=> Holds(u))
    BY <1>3, <1>4, <1>6, HoldsIs DEF Others
  <2> QED  BY <1>3, <1>4, <2>1, HoldsIs
<1>8. GlobalLine'
  <2>1. First' = First
    BY <1>7 DEF First
  <2>2. \A u \in Threads : pc'[u] = "wait_global" <=> pc[u] = "wait_global"
    BY <1>2, <1>3 DEF Others
  <2>3. \A u, v \in Threads : Holds(u)' /\ Holds(v)' => u = v
    BY <1>7 DEF GlobalLine
  <2> QED  BY <1>2, <2>1, <2>2, <2>3, GlobalFrame
<1>9. PassedIs'
  <2>1. \A u \in Threads : pc'[u] \notin {"in", "pass"}
    BY <1>3, <1>4, HoldsIs DEF Others
  <2> QED  BY <1>2, <1>6, <2>1 DEF PassedIs
<1> QED  BY <1>3, <1>5, <1>7, <1>8, <1>9 DEF HoldersStay

LEMMA ReleaseGlobalInv ==
    ASSUME EnoughTickets, Inv, NEW t \in Threads, ReleaseGlobal(t)
    PROVE  /\ Inv'
           /\ \A u \in Threads : ~Holds(u)' /\ (Holds(u) <=> u = t)
<1> USE DEF Inv
<1>1. /\ pc[t] \in {"release_global", "in_try"} /\ pc' = [pc EXCEPT ![t] = "out"]
      /\ nxt' = nxt /\ cur' = cur /\ gnxt' = gnxt /\ gcur' = Inc(gcur)
      /\ ticket' = ticket /\ passed' = passed
  BY DEF ReleaseGlobal, Goto
<1>2. Inc(gcur) \in Tickets
  BY PlaceIs DEF TypeOK
<1>3. /\ TypeOK' /\ Others(t) /\ pc'[t] = "out"
  BY <1>1, <1>2 DEF TypeOK, PCs, Others
<1>4. \A x \in Sockets : Local(x)'
  BY <1>1, <1>3, NoRoleLocal
<1>5. GlobalLine' /\ \A u \in Threads : ~Holds(u)' /\ (Holds(u) <=> u = t)
  BY <1>1, <1>3, LeaveGlobal
<1>6. PassedIs'
  <2>1. \A u \in Threads : ~(pc'[u] \in {"in", "pass"} \/ OnTurn(u)')
    BY <1>5, HoldsIs
  <2> QED  BY <1>1, <2>1 DEF PassedIs
<1> QED  BY <1>3, <1>4, <1>5, <1>6

\* Read, and a CAS_U64 that fails.
LEMMA AsideInv ==
    ASSUME EnoughTickets, Inv, NEW t \in Threads, Others(t),
           pc[t] \in {"out", "try"}, pc'[t] \in {"out", "try"},
           pc' \in [Threads -> PCs], ticket' \in [Threads -> Int],
           nxt' = nxt, cur' = cur, gnxt' = gnxt, gcur' = gcur, passed' = passed
    PROVE  Inv' /\ HoldersStay
<1> USE DEF Inv
<1>1. Aside(t)
  BY DEF Aside
<1>2. TypeOK'
  BY DEF TypeOK
<1>3. \A s \in Sockets : Local(s)'
  BY NoRoleLocal
<1>4. GlobalLine' /\ PassedIs'
  BY <1>1, AsideGlobal
<1>5. HoldersStay
  BY <1>1, AsideHolds DEF HoldersStay
<1> QED  BY <1>2, <1>3, <1>4, <1>5

LEMMA TryInv ==
    ASSUME EnoughTickets, Inv, NEW t \in Threads, htlock_trylock(t),
           gnxt = ticket[t], gcur = ticket[t]
    PROVE  /\ Inv' /\ pc'[t] = "in_try"
           /\ \A u \in Threads : ~Holds(u) /\ (Holds(u)' <=> u = t)
<1> USE DEF Inv
<1>1. /\ pc[t] = "try" /\ pc' = [pc EXCEPT ![t] = "in_try"] /\ gnxt' = Inc(gnxt)
      /\ nxt' = nxt /\ cur' = cur /\ gcur' = gcur /\ ticket' = ticket /\ passed' = passed
  BY DEF htlock_trylock, Goto
<1>2. Inc(gnxt) \in Tickets
  BY PlaceIs DEF TypeOK
<1>3. /\ TypeOK' /\ Others(t) /\ pc'[t] = "in_try"
  BY <1>1, <1>2 DEF TypeOK, PCs, Others
<1>4. \A x \in Sockets : Local(x)'
  BY <1>1, <1>3, NoRoleLocal
<1>5. GlobalLine' /\ \A u \in Threads : ~Holds(u) /\ (Holds(u)' <=> u = t)
  BY <1>1, <1>3, TryGlobal
<1>6. PassedIs'
  <2>1. \A u \in Threads : ~(pc'[u] \in {"in", "pass"} \/ OnTurn(u)')
    BY <1>3, <1>5, HoldsIs DEF OnTurn
  <2> QED  BY <1>1, <2>1 DEF PassedIs
<1> QED  BY <1>3, <1>4, <1>5, <1>6

\* What a step does to the invariant and to the set of holders.
LEMMA StepIs ==
    ASSUME EnoughTickets, Inv, NEW t \in Threads,
           \/ Draw(t) \/ LocalTurn(t) \/ Fetch(t) \/ Enqueue(t) \/ GlobalTurn(t)
           \/ Withdraw(t) \/ Pass(t) \/ Release(t) \/ ReleaseGlobal(t)
           \/ Read(t) \/ htlock_trylock(t)
    PROVE  /\ Inv'
           /\ \/ Holders' = Holders
              \/ Holders = {} /\ Holders' = {t}
              \/ Holders = {t} /\ Holders' = {}
<1> DEFINE Has == {"in", "pass", "release", "release_global", "in_try"}
<1>1. /\ Holders \subseteq Threads /\ Holders' \subseteq Threads
      /\ \A u \in Threads : /\ u \in Holders <=> pc[u] \in Has
                            /\ u \in Holders' <=> pc'[u] \in Has
  BY DEF Holders
<1>2. \A u \in Threads : /\ u \in Holders => Holds(u)
                         /\ u \in Holders' => Holds(u)'
  BY <1>1, HoldsIs
<1>3. pc \in [Threads -> PCs] /\ \A u, v \in Threads : Holds(u) /\ Holds(v) => u = v
  BY DEF Inv, TypeOK, GlobalLine
<1>4. ASSUME NEW l, Goto(t, l)
      PROVE  pc'[t] = l /\ \A u \in Threads : u # t => pc'[u] = pc[u]
  BY <1>3, <1>4 DEF Goto
<1>5. CASE Draw(t)
  <2>1. pc[t] = "out"
        /\ \A u \in Threads : pc'[u] = pc[u] \/ (u = t /\ pc'[u] \in {"wait", "fetch"})
    BY <1>5, <1>4 DEF Draw
  <2>2. Holders' = Holders
    BY <1>1, <2>1
  <2> QED  BY <1>5, <2>2, DrawInv
<1>6. CASE LocalTurn(t)
  <2>1. Inv' /\ Holds(t)
    BY <1>6, LocalTurnInv
  <2>2. pc[t] = "wait" /\ pc'[t] = "in" /\ \A u \in Threads : u # t => pc'[u] = pc[u]
    BY <1>6, <1>4 DEF LocalTurn
  <2>3. Holders = {} /\ Holders' = {t}
    BY <1>1, <1>2, <1>3, <2>1, <2>2
  <2> QED  BY <2>1, <2>3
<1>7. CASE Fetch(t)
  <2>1. pc[t] = "fetch" /\ pc'[t] = "enqueue" /\ \A u \in Threads : u # t => pc'[u] = pc[u]
    BY <1>7, <1>4 DEF Fetch
  <2>2. Holders' = Holders
    BY <1>1, <2>1
  <2> QED  BY <1>7, <2>2, FetchInv
<1>8. CASE Enqueue(t)
  <2>1. /\ pc[t] = "enqueue" /\ pc'[t] = "wait_global"
        /\ \A u \in Threads : u # t => pc'[u] = pc[u]
    BY <1>8, <1>4 DEF Enqueue
  <2>2. Holders' = Holders
    BY <1>1, <2>1
  <2> QED  BY <1>8, <2>2, EnqueueInv
<1>9. CASE GlobalTurn(t)
  <2>1. Inv' /\ \A u \in Threads : ~Holds(u) /\ (Holds(u)' <=> u = t)
    BY <1>9, GlobalTurnInv
  <2>2. pc'[t] = "in"
    BY <1>9, <1>4 DEF GlobalTurn
  <2>3. Holders = {} /\ Holders' = {t}
    BY <1>1, <1>2, <2>1, <2>2
  <2> QED  BY <2>1, <2>3
<1>10. CASE Withdraw(t)
  <2>1. /\ pc[t] = "in" /\ pc'[t] \in {"release", "pass"}
        /\ \A u \in Threads : u # t => pc'[u] = pc[u]
    BY <1>10, <1>4 DEF Withdraw
  <2>2. Holders' = Holders
    BY <1>1, <2>1
  <2> QED  BY <1>10, <2>2, WithdrawInv
<1>11. CASE Pass(t)
  <2>1. /\ Inv' /\ Holds(t)
        /\ \E v \in Threads : v # t /\ OnTurn(v)' /\ \A u \in Threads : Holds(u)' => u = v
    BY <1>11, PassInv
  <2>2. pc[t] = "pass"
    BY <1>11 DEF Pass
  <2>3. Holders = {t}
    BY <1>1, <1>2, <1>3, <2>1, <2>2
  <2>4. Holders' = {}
    BY <1>1, <1>2, <2>1 DEF OnTurn
  <2> QED  BY <2>1, <2>3, <2>4
<1>12. CASE Release(t)
  <2>1. /\ pc[t] = "release" /\ pc'[t] = "release_global"
        /\ \A u \in Threads : u # t => pc'[u] = pc[u]
    BY <1>12, <1>4 DEF Release
  <2>2. Holders' = Holders
    BY <1>1, <2>1
  <2> QED  BY <1>12, <2>2, ReleaseInv
<1>13. CASE ReleaseGlobal(t)
  <2>1. Inv' /\ \A u \in Threads : ~Holds(u)' /\ (Holds(u) <=> u = t)
    BY <1>13, ReleaseGlobalInv
  <2>2. pc[t] \in {"release_global", "in_try"}
    BY <1>13 DEF ReleaseGlobal
  <2>3. Holders = {t} /\ Holders' = {}
    BY <1>1, <1>2, <2>1, <2>2
  <2> QED  BY <2>1, <2>3
<1>14. CASE Read(t)
  <2>1. /\ pc[t] = "out" /\ pc'[t] = "try" /\ \A u \in Threads : u # t => pc'[u] = pc[u]
        /\ ticket' = [ticket EXCEPT ![t] = gnxt] /\ pc' \in [Threads -> PCs]
        /\ nxt' = nxt /\ cur' = cur /\ gnxt' = gnxt /\ gcur' = gcur /\ passed' = passed
    BY <1>14, <1>3, <1>4 DEF Read, Goto, PCs
  <2>2. ticket' \in [Threads -> Int] /\ Others(t)
    BY <2>1 DEF Inv, TypeOK, Tickets, Others, EnoughTickets
  <2>3. Inv'
    BY <2>1, <2>2, AsideInv
  <2>4. Holders' = Holders
    BY <1>1, <2>1
  <2> QED  BY <2>3, <2>4
<1>15. CASE htlock_trylock(t) /\ gnxt = ticket[t] /\ gcur = ticket[t]
  <2>1. /\ Inv' /\ pc'[t] = "in_try" /\ \A u \in Threads : ~Holds(u) /\ (Holds(u)' <=> u = t)
    BY <1>15, TryInv
  <2>2. Holders = {} /\ Holders' = {t}
    BY <1>1, <1>2, <2>1
  <2> QED  BY <2>1, <2>2
<1>16. CASE htlock_trylock(t) /\ ~(gnxt = ticket[t] /\ gcur = ticket[t])
  <2>1. /\ pc[t] = "try" /\ pc'[t] = "out" /\ \A u \in Threads : u # t => pc'[u] = pc[u]
        /\ ticket' = ticket /\ pc' \in [Threads -> PCs]
        /\ nxt' = nxt /\ cur' = cur /\ gnxt' = gnxt /\ gcur' = gcur /\ passed' = passed
    BY <1>16, <1>3, <1>4 DEF htlock_trylock, Goto, PCs
  <2>2. ticket' \in [Threads -> Int] /\ Others(t)
    BY <2>1 DEF Inv, TypeOK, Others
  <2>3. Inv'
    BY <2>1, <2>2, AsideInv
  <2>4. Holders' = Holders
    BY <1>1, <2>1
  <2> QED  BY <2>3, <2>4
<1> QED  BY <1>5, <1>6, <1>7, <1>8, <1>9, <1>10, <1>11, <1>12, <1>13, <1>14, <1>15, <1>16

LEMMA NextInv == ASSUME EnoughTickets, Inv, [Next]_vars PROVE Inv'
<1>1. CASE UNCHANGED vars
  BY <1>1 DEF vars, Inv, TypeOK, Local, Leaders, AllWait, Waiters, Givers, GlobalLine, First,
              Place, PassedIs, Holds, Holders, Leads, OnTurn
<1>2. CASE Next
  BY <1>2, StepIs DEF Next
<1> QED  BY <1>1, <1>2

\* For any threads and sockets that EnoughTickets allows, a socket passes the lock on
\* at most NB times before the next global ticket is served.
THEOREM SocketsPassAtMostNB == ASSUME EnoughTickets PROVE Spec => []PassedAtMostNB
<1>1. Inv => PassedAtMostNB
  BY DEF Inv, PassedIs, PassedAtMostNB
<1> QED  BY <1>1, InitInv, NextInv, PTL DEF Spec

\* For any threads and sockets that EnoughTickets allows, one thread at a time holds
\* the lock, by htlock_lock or htlock_trylock, from whichever socket.
THEOREM HTicketsExclude == ASSUME EnoughTickets PROVE Spec => RefinesMutex
<1>1. ASSUME Init PROVE Lock!Init
  BY <1>1 DEF Init, Lock!Init, Holders
<1>2. ASSUME Inv, [Next]_vars PROVE [Lock!Next]_Holders
  <2>1. CASE UNCHANGED vars
    BY <2>1 DEF vars, Holders
  <2>2. CASE Next
    <3>1. PICK t \in Threads :
             \/ Draw(t) \/ LocalTurn(t) \/ Fetch(t) \/ Enqueue(t) \/ GlobalTurn(t)
             \/ Withdraw(t) \/ Pass(t) \/ Release(t) \/ ReleaseGlobal(t)
             \/ Read(t) \/ htlock_trylock(t)
      BY <2>2 DEF Next
    <3> QED  BY <1>2, <3>1, StepIs DEF Lock!Next, Lock!Acquire, Lock!Release
  <2> QED  BY <1>2, <2>1, <2>2
<1> QED  BY <1>1, <1>2, InitInv, NextInv, PTL DEF Spec, RefinesMutex, Lock!Spec
===============================================================================
