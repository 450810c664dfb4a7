------------------------------ MODULE HashTables ------------------------------
(***************************************************************************)
(* Hash tables whose finds take no lock:                                   *)
(* src/src/hashtable-copy/copy_on_write.c, whose updates replace the array *)
(* of a bucket (linkedlist-copy is the same with one bucket), and          *)
(* src/src/hashtable-java/concurrent_hash_map2.c, whose updates change the *)
(* chain of a bucket under the lock of its segment, and replace a segment  *)
(* that has become too full.                                               *)
(*                                                                         *)
(* The lock of a bucket or a segment is who holds it (module Mutex).       *)
(***************************************************************************)
EXTENDS ConcurrentSet

CONSTANTS
    RO_FAIL,        \* whether an update that need not change anything locks
    num_buckets,    \* of copy_on_write.c
    num_segments,   \* of concurrent_hash_map2.c, a power of two,
    capacity        \* and the buckets of a new segment

NULL == 0 - 1

\* at: the array, or the segment and the node, the operation is looking at.
Start == [pc |-> "start", at |-> NULL, node |-> NULL]

Begin(t) ==
    /\ \E o \in IF Filling THEN {"insert"} ELSE Ops,
          k \in IF Filling THEN {NextToFill} ELSE Keys : Call(t, o, k, Start)
    /\ UNCHANGED mem

Updating(t) == req[t].op # "find"
Changes(t, there) == there = (req[t].op = "delete")

\* A search without lock has ended.
Searched(t, there) ==
    IF ~Updating(t) THEN Return(t, IF there THEN "yes" ELSE "no")
    ELSE IF Changes(t, there) THEN Goto(t, "lock") ELSE Return(t, "no")

-----------------------------------------------------------------------------
(* copy_on_write.c: bucket b is at address b; arrays never change.         *)

CopyInit ==
    /\ SetInit({}, Len(Fill))
    /\ mem = [a \in 0 .. 2 * num_buckets - 1 |->
                IF a < num_buckets THEN [array |-> num_buckets + a, lock |-> 0]
                                   ELSE [kvs |-> <<>>]]

bucket(t) == req[t].key % num_buckets
IsIn(t, a) == \E i \in DOMAIN mem[a].kvs : mem[a].kvs[i] = req[t].key

ReadArray(t) ==
    /\ th[t].pc = "start"
    /\ IF Updating(t) /\ ~RO_FAIL THEN Goto(t, "lock")
       ELSE On(t, [th[t] EXCEPT !.pc = "search", !.at = mem[bucket(t)].array])
    /\ UNCHANGED mem

cpy_search(t) ==
    /\ th[t].pc = "search" /\ Searched(t, IsIn(t, th[t].at))
    /\ UNCHANGED mem

\* LOCK, and the array there is then.
LockBucket(t) ==
    /\ th[t].pc = "lock"
    /\ mem[bucket(t)].lock = 0
    /\ mem' = [mem EXCEPT ![bucket(t)].lock = t]
    /\ Goto(t, "copy")

Array_Searched(t) == IF RO_FAIL THEN th[t].at ELSE mem[bucket(t)].array
Array(t) == mem[bucket(t)].array

\* all_new.
Copied(t) ==
    LET old == mem[Array(t)].kvs
        Other(k) == k # req[t].key
    IN IF req[t].op = "insert" THEN Append(old, req[t].key)
                               ELSE SelectSeq(old, Other)

\* cpy_insert and cpy_delete: the copy takes the place of the array.
Replace(t) ==
    /\ th[t].pc = "copy"
    /\ IF Changes(t, IsIn(t, Array(t)))
       THEN /\ mem' = Fresh :> [kvs |-> Copied(t)]
                        @@ [mem EXCEPT ![bucket(t)].array = Fresh]
            /\ Goto(t, "unlock, yes")
       ELSE Goto(t, "unlock, no") /\ UNCHANGED mem

UnlockBucket(t) ==
    /\ \/ th[t].pc = "unlock, yes" /\ Return(t, "yes")
       \/ th[t].pc = "unlock, no" /\ Return(t, "no")
    /\ mem' = [mem EXCEPT ![bucket(t)].lock = 0]

CopyNext ==
    \/ \E t \in Threads :
          \/ Begin(t) \/ ReadArray(t) \/ cpy_search(t)
          \/ LockBucket(t) \/ Replace(t) \/ UnlockBucket(t)
    \/ AllDone

-----------------------------------------------------------------------------
(* concurrent_hash_map2.c: segments[s] is at address s.                    *)

size_limit(n) == IF (3 * n) \div 4 = 0 THEN 1 ELSE (3 * n) \div 4

chm_seg_new(n, size, table) ==
    [hash |-> n, size |-> size, table |-> table, lock |-> 0]

MapInit ==
    /\ SetInit({}, Len(Fill))
    /\ mem = [a \in 0 .. 2 * num_segments - 1 |->
                IF a < num_segments THEN [seg |-> num_segments + a]
                ELSE chm_seg_new(capacity, 0, [b \in 0 .. capacity - 1 |-> NULL])]

hash(k) == k \div num_segments
seg_num(t) == req[t].key % num_segments
Seg(t) == th[t].at
Bucket(t) == hash(req[t].key) % mem[Seg(t)].hash

\* chm_get, and chm_contains before an update.
GetSegment(t) ==
    /\ th[t].pc = "start"
    /\ IF Updating(t) /\ ~RO_FAIL THEN Goto(t, "lock")
       ELSE On(t, [th[t] EXCEPT !.pc = "bucket", !.at = mem[seg_num(t)].seg])
    /\ UNCHANGED mem

GetBucket(t) ==
    /\ th[t].pc = "bucket"
    /\ On(t, [th[t] EXCEPT !.pc = "search", !.node = mem[Seg(t)].table[Bucket(t)]])
    /\ UNCHANGED mem

Walk(t) ==
    LET curr == th[t].node
    IN /\ th[t].pc = "search"
       /\ IF curr = NULL THEN Searched(t, FALSE)
          ELSE IF mem[curr].key = req[t].key THEN Searched(t, TRUE)
          ELSE On(t, [th[t] EXCEPT !.node = mem[curr].next])
       /\ UNCHANGED mem

\* The lock of a segment that has been replaced stays taken: the loop reads
\* segments again.
TrySegment(t) ==
    \/ /\ th[t].pc = "lock" /\ UNCHANGED mem
       /\ On(t, [th[t] EXCEPT !.pc = "trylock", !.at = mem[seg_num(t)].seg])
    \/ /\ th[t].pc = "trylock"
       /\ IF mem[Seg(t)].lock = 0
          THEN mem' = [mem EXCEPT ![Seg(t)].lock = t] /\ Goto(t, req[t].op)
          ELSE Goto(t, "lock") /\ UNCHANGED mem

-----------------------------------------------------------------------------
\* The nodes from n on.
Chain(n) ==
    LET from[m \in DOMAIN mem \cup {NULL}] ==
          IF m = NULL THEN <<>> ELSE <<m>> \o from[mem[m].next]
    IN from[n]

Mine(t) == Chain(mem[Seg(t)].table[Bucket(t)])
Places(t) == {i \in DOMAIN Mine(t) : mem[Mine(t)[i]].key = req[t].key}
Place(t) == CHOOSE i \in Places(t) : TRUE

\* The link before the i-th node of the bucket becomes one to n.
Relinked(t, i, n) ==
    IF i = 1 THEN [mem EXCEPT ![Seg(t)].table[Bucket(t)] = n]
             ELSE [mem EXCEPT ![Mine(t)[i - 1]].next = n]

\* chm_seg_rehash: the last nodes of a chain that stay together are used in the
\* new table, too; those before them are cloned.
LastRun_First(c, n) == 1
LastRun(c, n) ==
    LET idx(i) == hash(mem[c[i]].key) % n
    IN CHOOSE j \in DOMAIN c : /\ \A i \in j .. Len(c) : idx(i) = idx(Len(c))
                               /\ j = 1 \/ idx(j - 1) # idx(Len(c))

\* The last of those in S.
Latest(S) == CHOOSE i \in S : \A j \in S : j <= i

Rehash(t) ==
    LET old == mem[Seg(t)]
        n == 2 * old.hash
        idx(k) == hash(k) % n
        chains == {Chain(old.table[b]) : b \in DOMAIN old.table} \ {<<>>}
        run(c) == LastRun(c, n)
        kept(x) == {c \in chains : idx(mem[c[Len(c)]].key) = x}
        table == [x \in 0 .. n - 1 |->
                    IF kept(x) = {} THEN NULL
                    ELSE LET c == CHOOSE c \in kept(x) : TRUE IN c[run(c)]]
        cloned[b \in 0 .. old.hash] ==
          IF b = 0 THEN <<>>
          ELSE LET c == Chain(old.table[b - 1])
               IN cloned[b - 1] \o (IF c = <<>> THEN <<>> ELSE SubSeq(c, 1, run(c) - 1))
        keys == [i \in DOMAIN cloned[old.hash] |-> mem[cloned[old.hash][i]].key]
                  \o <<req[t].key>>
        into(x, i) == {j \in 1 .. i : idx(keys[j]) = x}
        first(x, i) == IF into(x, i) = {} THEN table[x] ELSE Fresh + Latest(into(x, i))
    IN [a \in DOMAIN mem \cup (Fresh .. Fresh + Len(keys)) |->
          CASE a = seg_num(t) -> [seg |-> Fresh]
            [] a = Fresh -> chm_seg_new(n, old.size + 1,
                                        [x \in 0 .. n - 1 |-> first(x, Len(keys))])
            [] a > Fresh -> [key |-> keys[a - Fresh],
                             next |-> first(idx(keys[a - Fresh]), a - Fresh - 1)]
            [] a < Fresh /\ a # seg_num(t) -> mem[a]]

\* chm_put.
Put(t) ==
    LET size == mem[Seg(t)].size + 1
        m == Relinked(t, Len(Mine(t)) + 1, Fresh)
    IN /\ th[t].pc = "insert"
       /\ \/ Places(t) # {} /\ Goto(t, "unlock, no") /\ UNCHANGED mem
          \/ /\ Places(t) = {} /\ size >= size_limit(mem[Seg(t)].hash)
             /\ mem' = Rehash(t) /\ Return(t, "yes")
          \/ /\ Places(t) = {} /\ size < size_limit(mem[Seg(t)].hash)
             /\ mem' = Fresh :> [key |-> req[t].key, next |-> NULL]
                         @@ [m EXCEPT ![Seg(t)].size = size]
             /\ Goto(t, "unlock, yes")

\* chm_rem.
Rem(t) ==
    LET next == mem[Mine(t)[Place(t)]].next
    IN /\ th[t].pc = "delete"
       /\ IF Places(t) = {} THEN Goto(t, "unlock, no") /\ UNCHANGED mem
          ELSE /\ mem' = [Relinked(t, Place(t), next) EXCEPT ![Seg(t)].size = @ - 1]
               /\ Goto(t, "unlock, yes")

UnlockSegment(t) ==
    /\ \/ th[t].pc = "unlock, yes" /\ Return(t, "yes")
       \/ th[t].pc = "unlock, no" /\ Return(t, "no")
    /\ mem' = [mem EXCEPT ![Seg(t)].lock = 0]

MapNext ==
    \/ \E t \in Threads :
          \/ Begin(t) \/ GetSegment(t) \/ GetBucket(t) \/ Walk(t) \/ TrySegment(t)
          \/ Put(t) \/ Rem(t) \/ UnlockSegment(t)
    \/ AllDone
===============================================================================
