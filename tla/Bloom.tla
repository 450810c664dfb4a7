--------------------------------- MODULE Bloom ---------------------------------
(***************************************************************************)
(* The Bloom filter that a scan of smr_no_membar_opt.c builds from the      *)
(* hazard pointers (bloom_refresh) and asks about retired nodes             *)
(* (bloom_search), src/src/bloom.c.                                         *)
(*                                                                          *)
(* bloom_add hashes the hazard pointer where it is, in memory its owner      *)
(* writes: two words, read once for each of the two hashes, so that the bits *)
(* set may be those of no pointer the slot ever held.                        *)
(***************************************************************************)
EXTENDS Integers, Sequences, FiniteSets, Bitwise

CONSTANTS
    Slots,          \* 0 .. H - 1
    Nodes,          \* addresses of nodes, <<low word, high word>>
    NULL,           \* <<0, 0>>
    W, M, R, S1, S2, \* the hash: 32, 0x5bd1e995, and shifts of 24, 13 and 15
    Seed,           \* 0x9747b28c
    hashes, bits    \* what bloom_init makes of the number of entries

VARIABLES
    HP,         \* HP[i]: address in slot i
    kept,       \* slots that have not changed since bloom_refresh began
    ready, bf,  \* struct bloom; bf is the set of the bits that are set
    i,          \* bloom_refresh: i
    word,       \* murmurhash2: what it has read of the key
    a,          \* bloom_check_add: a
    pc

scanner == <<ready, bf, i, word, a>>
vars == <<HP, kept, scanner, pc>>

-----------------------------------------------------------------------------
\* src/src/MurmurHash2.c for a key of whole words, the only use there is: the
\* eight bytes of a pointer.  Words are W bits wide.
Times(x) == (x * M) % 2^W
XorShift(x, s) == x ^^ shiftR(x, s)

\* One round of the loop, and the mixing after it.
Mix(h, k) == Times(h) ^^ Times(XorShift(Times(k), R))
Finish(h) == XorShift(Times(XorShift(h, S1)), S2)

murmurhash2(key, seed) ==
    LET h[j \in 0 .. Len(key)] ==
          IF j = 0 THEN seed ^^ ((4 * Len(key)) % 2^W) ELSE Mix(h[j - 1], key[j])
    IN Finish(h[Len(key)])

-----------------------------------------------------------------------------
Init ==
    /\ HP \in [Slots -> Nodes \cup {NULL}]
    /\ kept = Slots
    /\ ready = FALSE /\ bf = {}
    /\ i = 0 /\ word = <<>> /\ a = 0
    /\ pc = "init"

\* The owner of slot s publishes another node, or nothing.
Publish(s, n) ==
    /\ HP[s] # n
    /\ HP' = [HP EXCEPT ![s] = n]
    /\ kept' = kept \ {s}
    /\ UNCHANGED <<scanner, pc>>

\* bloom_init; without memory it leaves ready at 0, and bloom_add does nothing.
bloom_init ==
    /\ pc = "init"
    /\ ready' \in BOOLEAN
    /\ bf' = {} /\ i' = 0 /\ kept' = Slots
    /\ pc' = "test"
    /\ UNCHANGED <<HP, word, a>>

AllSlotsSeen == ~ \E s \in Slots : s >= i

\* The loop and its test of HP[i].p.
NextSlot ==
    /\ pc = "test"
    /\ IF AllSlotsSeen THEN pc' = "search" /\ i' = i
       ELSE IF HP[i] # NULL /\ ready THEN pc' = "low" /\ i' = i
       ELSE pc' = "test" /\ i' = i + 1
    /\ UNCHANGED <<HP, kept, ready, bf, word, a>>

\* murmurhash2 reads the first word, for a and then for b.
ReadLow ==
    /\ pc \in {"low", "low again"}
    /\ word' = HP[i][1]
    /\ pc' = IF pc = "low" THEN "high" ELSE "high again"
    /\ UNCHANGED <<HP, kept, ready, bf, i, a>>

ReadHigh ==
    /\ pc = "high"
    /\ a' = murmurhash2(<<word, HP[i][2]>>, Seed)
    /\ pc' = "low again"
    /\ UNCHANGED <<HP, kept, ready, bf, i, word>>

Bits(x, y) == {(x + j * y) % bits : j \in 0 .. hashes - 1}

Set_FirstOnly(x, y) == {x % bits}
Set(x, y) == Bits(x, y)

\* The rest of bloom_check_add with add = 1.
ReadHighAndSet ==
    /\ pc = "high again"
    /\ bf' = bf \cup Set(a, murmurhash2(<<word, HP[i][2]>>, a))
    /\ i' = i + 1 /\ pc' = "test" /\ word' = <<>> /\ a' = 0
    /\ UNCHANGED <<HP, kept, ready>>

\* bloom_free.
bloom_free ==
    /\ pc = "search"
    /\ ready' = FALSE /\ bf' = {} /\ i' = 0
    /\ pc' = "init"
    /\ UNCHANGED <<HP, kept, word, a>>

Next ==
    \/ \E s \in Slots, n \in Nodes \cup {NULL} : Publish(s, n)
    \/ bloom_init \/ NextSlot \/ ReadLow \/ ReadHigh \/ ReadHighAndSet
    \/ bloom_free

Spec == Init /\ [][Next]_vars

\* bloom_search, of a node that does not change: 1, 0 or -1.
bloom_search(n) ==
    LET x == murmurhash2(n, Seed)
    IN IF ~ready THEN -1
       ELSE IF Bits(x, murmurhash2(n, x)) \subseteq bf THEN 1 ELSE 0

-----------------------------------------------------------------------------
TypeOK ==
    /\ HP \in [Slots -> Nodes \cup {NULL}]
    /\ kept \in SUBSET Slots
    /\ ready \in BOOLEAN
    /\ bf \in SUBSET (0 .. bits - 1)
    /\ i \in 0 .. Cardinality(Slots)
    /\ pc \in {"init", "test", "low", "high", "low again", "high again", "search"}

\* scan frees a node for which bloom_search answers 0.  It never answers 0 for a
\* node that a slot has named since before the filter was built, whatever the
\* other slots went through meanwhile, and also when the filter got no memory.
NoFalseNegative ==
    pc = "search" =>
       \A s \in kept : HP[s] # NULL => bloom_search(HP[s]) # 0
===============================================================================
