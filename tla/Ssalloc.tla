-------------------------------- MODULE Ssalloc --------------------------------
(***************************************************************************)
(* One allocator of src/src/ssalloc.c.  Each thread has an arena, cut from *)
(* the front (alloc_next), and a ring of freed objects, ssalloc_free_list, *)
(* with two counters that are 16 bits wide in the code and count modulo    *)
(* Mod here.  An object freed by a thread joins that thread's ring,        *)
(* whoever's arena it was cut from.                                        *)
(*                                                                         *)
(* An object is <<t, a>>: address a of thread t's arena, one unit long.    *)
(***************************************************************************)
EXTENDS Integers, Sequences, FiniteSets

CONSTANTS
    Threads,
    Size,       \* Size[t]: what is left of t's arena, in units
    Mod,        \* 2^16, entries of a ring
    Alignment   \* CACHE_LINE_SIZE, in units

VARIABLES
    alloc_next,     \* alloc_next[t]
    free_list,      \* free_list[t][i]: ssalloc_free_list[allocator][i]
    free_cur, free_num,
    live,           \* objects handed out and not freed
    freed           \* freed[t]: what t freed and was not reused, oldest first

ring == <<free_list, free_cur, free_num>>
vars == <<alloc_next, ring, live, freed>>

Objects == UNION {{t} \X (0 .. Size[t] - 1) : t \in Threads}

Init ==
    /\ alloc_next = [t \in Threads |-> 0]
    /\ free_list = [t \in Threads |-> [i \in 0 .. Mod - 1 |-> <<>>]]
    /\ free_cur = [t \in Threads |-> 0]
    /\ free_num = [t \in Threads |-> 0]
    /\ live = {}
    /\ freed = [t \in Threads |-> <<>>]

\* Two objects are always kept back.
Reuses(t) == free_num[t] > 2

Spot_OffByOne(t) == (free_cur[t] - free_num[t] - 1) % Mod
Spot(t) == (free_cur[t] - free_num[t]) % Mod

Without(s, x) == SelectSeq(s, LAMBDA y : y # x)

Reuse(t) ==
    LET ret == free_list[t][Spot(t)]
    IN /\ Reuses(t)
       /\ free_num' = [free_num EXCEPT ![t] = @ - 1]
       /\ live' = live \cup {ret}
       /\ freed' = [freed EXCEPT ![t] = Without(@, ret)]
       /\ UNCHANGED <<alloc_next, free_list, free_cur>>

Fits(t) == alloc_next[t] + 1 <= Size[t]

Cut(t) ==
    /\ ~Reuses(t) /\ Fits(t)
    /\ live' = live \cup {<<t, alloc_next[t]>>}
    /\ alloc_next' = [alloc_next EXCEPT ![t] = @ + 1]
    /\ UNCHANGED <<ring, freed>>

\* ssalloc_alloc returns NULL.
Fail(t) ==
    /\ ~Reuses(t) /\ ~Fits(t)
    /\ UNCHANGED vars

Aligned(a) == a + ((Alignment - (a % Alignment)) % Alignment)

\* ssalloc_aligned_alloc never reuses.  It warns when it has gone out of the
\* arena, and returns the object all the same: callers use it a few times, for
\* the handles of a structure, before they fill the structure.
AlignedAlloc(t) ==
    LET a == Aligned(alloc_next[t])
    IN /\ a + 1 <= Size[t]
       /\ live' = live \cup {<<t, a>>}
       /\ alloc_next' = [alloc_next EXCEPT ![t] = a + 1]
       /\ UNCHANGED <<ring, freed>>

Inc(n) == (n + 1) % Mod

\* The check for a count that has become zero prints "Overflow!" and goes on.
Free(t, o) ==
    /\ o \in live
    /\ free_num' = [free_num EXCEPT ![t] = Inc(@)]
    /\ free_list' = [free_list EXCEPT ![t][free_cur[t]] = o]
    /\ free_cur' = [free_cur EXCEPT ![t] = Inc(@)]
    /\ live' = live \ {o}
    /\ freed' = [freed EXCEPT ![t] = Append(@, o)]
    /\ UNCHANGED alloc_next

Next ==
    \E t \in Threads :
       \/ Reuse(t) \/ Cut(t) \/ Fail(t) \/ AlignedAlloc(t)
       \/ \E o \in live : Free(t, o)

Spec == Init /\ [][Next]_vars

-----------------------------------------------------------------------------
TypeOK ==
    /\ \A t \in Threads : alloc_next[t] \in 0 .. Size[t]
    /\ free_list \in [Threads -> [0 .. Mod - 1 -> Objects \cup {<<>>}]]
    /\ free_cur \in [Threads -> 0 .. Mod - 1]
    /\ free_num \in [Threads -> 0 .. Mod - 1]
    /\ live \in SUBSET Objects
    /\ freed \in [Threads -> Seq(Objects)]

\* The objects the ring would hand out next, the first one first.
Window(t) == [i \in 1 .. free_num[t] |-> free_list[t][(Spot(t) + i - 1) % Mod]]

\* The ring holds the objects that were freed last, in the order they were freed
\* in, so it hands out the one freed longest ago: what a counter that has gone
\* past 65535 loses is always the Mod objects freed before it did.
RingIsLastFreed ==
    \A t \in Threads :
       LET lost == Len(freed[t]) - free_num[t]
       IN /\ lost >= 0 /\ lost % Mod = 0
          /\ Window(t) = SubSeq(freed[t], lost + 1, Len(freed[t]))

\* An object is in use, or in one ring once, or has never been cut: ssalloc_alloc
\* never hands out an object that a thread still uses, also after an overflow,
\* and whatever thread freed it.
NotInUseTwice ==
    \A t, u \in Threads : \A i \in DOMAIN Window(t) :
       /\ Window(t)[i] \notin live /\ Window(t)[i] # <<>>
       /\ Window(t)[i][2] < alloc_next[Window(t)[i][1]]
       /\ \A j \in DOMAIN Window(u) :
             Window(t)[i] = Window(u)[j] => t = u /\ i = j
===============================================================================
