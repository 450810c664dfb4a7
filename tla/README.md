# Verification of qsense-smr-nomembar

The repository is a fork of the ASCYLIB benchmark library. What it adds, and what
most of this project is about, is safe memory reclamation for lock-free lists: when may
the memory of an unlinked node go back to the allocator, if other threads may
still be reading it? The rest of the project is about the structures, locks and
allocator the library already had.

## The system

A program is one list variant linked with one reclamation scheme. Worker threads
call `DS_CONTAINS` / `DS_ADD` / `DS_REMOVE` in a loop; a successful physical
removal calls `free_node_later(node)`; a scheme decides when the node is
*poisoned* (`key = 600000`) and given to `ssfree_alloc`. A search that meets the
poisoned key prints "touched illegal node": that is the failure all the schemes
exist to prevent.

| Component | State | Operations | What makes it correct |
|---|---|---|---|
| QSBR, `src/src/qsbr.c` | global epoch (mod 3), update lock; per thread: epoch, `in_critical`, three limbo lists, `rcount` | `quiescent_state`, `update_epoch`, `process_callbacks`, `free_node_later`, `mr_thread_exit` | a limbo list is freed only after every thread has passed a quiescent state since its last retirement; epochs go on advancing; the accounting is exact; leaving ends |
| Hazard pointers, `smr.c` | `HP[K*n]`; per thread: `rlist`, `rcount`, `plist` | `scan`, `free_node_later`, `mr_thread_exit` | a validated node stays allocated; `rcount` is the length of `rlist`; leaving ends |
| Cadence, `smr_no_membar.c`, `smr_no_membar_opt.c` | the same, plus a time stamp per retired node; optionally a Bloom filter, a call counter, an age-ordered list | the same without barrier; `is_old_enough` | a node is freed only when it is older than any delay of a hazard pointer in a store buffer |
| Sleeper threads, `sleeper_threads.c` | one thread per core | sleep, wake up, maintenance function | drain the store buffers within `SLEEP_AMOUNT + MARGIN` |
| Lazy rotation, `smr_lazy.c`, `smr_membar_lazy.c` | `rlist`, `vlist`, marks, `HP_cur` | `rotation`, one hazard pointer per retirement | a node leaves `vlist` only after all slots have been read since it entered |
| QSense, `qsbr_smr_hybrid.c`, `hybrid_lazy.c` | QSBR + Cadence + fallback flag + presence vector | `manage_hybrid_state`, `allocate_fail` | freeing by epochs and freeing by scans are each safe whatever the flag, so the modes may overlap; a stalled thread does not exhaust the others' memory |
| Lists, `linkedlist-{qsbr,smr,..}-*` | links with a mark bit | search, insert, delete | linearisable set; publish, barrier, validate before each dereference |
| `ssalloc.c` | per thread and allocator: a bump pointer and a ring of free objects with 16-bit counters | `ssalloc_alloc`, `ssfree_alloc` | no object is handed out twice |
| `double_llist.c`, `bloom.c` | a list; a bit array | add, remove; check, add | it is a sequence; no false negative |
| Locks, `lock_if.h`, `htlock.c`, `clh.c` | counters; queue nodes | lock, trylock, unlock | exclusion, and the order each promises |
| Baseline lists, skip lists, trees, hash tables | links, marks, locks, versions | find, insert, delete | linearisable set; nothing reachable is freed |

Interactions: list -> scheme by `free_node_later`, by the hazard pointers and by
`quiescent_state` / `scan` / `allocate_fail` when the allocator is empty; scheme
-> allocator by `ssfree_alloc` (allocator 0 for nodes, 1 for the wrappers
`mr_node_t`); scheme -> other threads only through shared memory (epochs, flags,
hazard pointers). A freed node goes to the pool of the thread that frees it.

What is hard: every one of these accesses interleaves with the other threads', no
lock protects the flags that `update_epoch` reads, epochs are compared modulo 3,
a hazard pointer may sit in a store buffer while a scan looks for it, schemes are
called in the middle of operations, threads leave while others still refer to their
nodes, and the baseline structures read without locks what others are changing.
`PROJECT.json` lists the hazards at their lines.

## Modules

| Module | What it is |
|---|---|
| `Reclamation` | the contract of a scheme, independent of the mechanism: nodes are linked, retired or free; a thread picks up references to linked nodes only; `Free` requires that no thread has a reference |
| `Qsbr` | `qsbr.c` with a list as its client |
| `Smr` | `smr.c` with a list as its client |
| `Cadence` | `smr_no_membar.c` and `smr_no_membar_opt.c` with store buffers, a clock and sleeper threads |
| `Rotation` | `smr_lazy.c` and `smr_membar_lazy.c` |
| `Hybrid` | `qsbr_smr_hybrid.c`, and `hybrid_lazy.c` as its variant `Lazy` |
| `QsbrProofs`, `CadenceProofs`, `RotationProofs`, `HybridProofs`, `ListProofs`, `HelperProofs` | theorems for every value of the constants (those about `Smr` and `HTicketLock` are in the modules themselves) |
| `ConcurrentSet` | what all search structures share: calls, returns, and whether the answers are linearisable |
| `ListSet` | nodes of a sorted list, and links with a mark |
| `LazyList`, `CouplingList`, `PughList` | `linkedlist-lazy`, `-coupling`, `-pugh` |
| `HarrisList`, `MichaelList` | `linkedlist`; `linkedlist-michael` and `linkedlist-harris_opt` |
| `QsbrLists` | the three lists over QSBR, with reuse of nodes |
| `SmrLists` | `linkedlist-smr-harris_opt` and `linkedlist-smr-hart`, with the scan of `smr.c` |
| `SkipListSet`, `FraserSkiplist`, `HerlihyLfSkiplist`, `HerlihyLbSkiplist`, `PughSkiplist` | what the skip lists share; `skiplist-fraser`, `-herlihy_lf`, `-herlihy_lb`, `-pugh` |
| `BstTk`, `BstAravind`, `BstEllen`, `BstHowley`, `BstDrachsler`, `BstBronson` | `bst-tk`, `bst-aravind`, `bst`, `bst-howley`, `bst-drachsler`, `bst-lock2` |
| `HashTables` | `hashtable-copy` (and `linkedlist-copy`), `hashtable-java` |
| `Ssalloc`, `Bloom` | `ssalloc.c`; `bloom.c` with `MurmurHash2.c` |
| `DoubleLlist`, `RetireList` | `double_llist.c`, and the sequences it implements |
| `TicketLock`, `HTicketLock`, `ClhLock`, `Mutex` | `lock_if.h`, `htlock.c`, `clh.c`, and the exclusion they implement |
| `MCQsbrModes`, `MCCadence`, `MCRotation`, `MCHybrid`, `MCStructures` | instances for TLC |

The schemes have one form. `pc[t]` names the next shared access of thread `t`, and one
step is one access to memory that others write or read, with what the thread then
does on its own data. The list is the set of its linked nodes, a traversal is the
steps in which it publishes, validates and gives up references, and `pool` stands for
what `ssalloc_alloc(0, ..)` can still return. Each scheme is shown to implement
`Reclamation` under a refinement mapping: its nodes that are retired, free, and
referred to by each thread.

### Qsbr

`quiescent_state` is
`ReadEpoch`, then either `ProcessCallbacks`, `AdvanceEpoch` (the thread lags
behind) or `LeaveCritical`, `UpdateEpoch`, `RestoreCritical`, `RereadEpoch` (it
tries to advance). `update_epoch` is `TryLock`, one `ScanCritical` per thread
(the read of `in_critical`) followed by `ScanEpoch` (the read of `epoch`) if the
flag was set, `BumpEpoch`, `Unlock`. `process_callbacks` is one step: it touches
only lists of its own thread and nodes that are to be unreferenced. `caller[t]`
says who called and so what comes next: the worker loop, `harris_insert` without
memory and `free_node_later` without a wrapper (both blocking), or
`mr_thread_exit`.

`held[t]` is the largest set of nodes the
thread may dereference: everything linked at some moment since its current
stretch of operations began, what it has retired itself included (a search reads
`right_node->next` after it has retired `right_node`). It is empty from the call of
`quiescent_state` by the worker loop to its return; it is *not* empty
during a call made inside an operation. Several operations between two quiescent
states are one stretch, since the scheme cannot tell them apart.

Wrappers are counted: a thread has
`WrapperCap` of them and the ones in use are those of its limbo lists. The number
of operations between two quiescent states (1000) is any number. The state of a
call's local variables is forgotten when the call returns. Memory is sequentially
consistent: the store of `in_critical = 0` is ordered by the locked instruction of
`TRYLOCK`, and its restoration by `MEM_BARRIER`.

### Smr

`Publish` writes any of the thread's slots with any node (the value read
from a link may be arbitrarily old, so the node may be retired or free by then)
or with the tail of the list, which is never retired and is written `NULL`,
and `Validate` reads the link again. It succeeds only if the node is linked: the
link of an unlinked node is marked and differs from every address. `guarded[i]` is
the node that slot `i` entitles its owner to dereference; it is given up when the
slot is rewritten or the operation returns. `scan` reads one hazard pointer per
step; its third stage is one step, on data of the thread alone.

The choice of the slot is free, so `Smr` says what the *scheme* promises. Whether the
order in which a traversal chooses slots is right is the question of
`SmrLists`.

### Cadence

As `Smr`, but a hazard pointer is stored into `buf[t]`, a bounded queue of
stores that `Drain` takes to memory one at a time, whenever it likes. `Tick` is the
passing of one unit of time: it ages the retired nodes, the running scans, and the
time since each core's sleeper woke up (`asleep`). Time does not pass when a
sleeper has slept `MaxSleep` or a scan has taken `ScanTime`: those are the bounds
the scheme relies on. `Wakeup` empties the store buffer, since the worker is switched
out. A node is freed when it is not among the hazard pointers the scan has seen and is
at least `MaxAge` old. Barriers, the locked instructions of a compare-and-swap included,
flush the buffer where the code has them. `Opt`, `Bloom` and `PerOp` are the compile-time
choices of `smr_no_membar_opt.c`; with `PerOp` a scan is made every `R` calls, on a
counter that counts modulo `CallsMod` (256 in the code).

The properties say why it is safe. If a retired node is guarded and its hazard pointer has
not reached memory, the node is no older than its owner's core has gone without a
switch (`OldGuardsAreVisible`); hence a node a scan has missed is no older than
`MaxSleep` plus the time the scan has taken (`MissedGuardsAreYoung`), and is not freed if
`MaxSleep + ScanTime < MaxAge`. In the code `MaxAge` is
`SLEEP_AMOUNT + MARGIN`: the 50 ms of margin must cover what a sleeper
oversleeps *and* the scan. With a larger `MaxSleep` or `ScanTime` a node in use is
freed.

### Rotation

`free_node_later` puts the node into `rlist` and moves the oldest there to the head of
`vlist` as far as that has room (`FirstMove`, `Moving`); when `vlist` is full,
`rotation` looks at one hazard pointer, marks the node it names, and takes the tail:
freed if unmarked, put at the head again if marked. The read of the hazard pointer and the marking are two steps, so the mark may
hit a node that has meanwhile been freed, or inserted again by another
thread. `MarkedInTime` is the argument: an unmarked node in use is further from the
tail than its hazard pointer is from being looked at. It fails when `harris_insert`
finds no node and calls `scan`, which shortens `vlist` (run `rotation_scan`);
the `rotation` run has allocators that do not run dry (`Exhausts`).

### Hybrid

Epochs as in `Qsbr`, access by access: `ReadEpoch`, then `ProcessCallbacks` if the thread
lags behind, else `LeaveCritical`, `update_epoch` (`TryLock`, per thread `LookAtFlag` for
`in_critical` and `CompareEpoch` for `epoch`, `BumpEpoch`, `Unlock`), `RestoreCritical` and
`RereadEpoch`. The calls are always `FUZZY`, so none blocks, and several may follow each other
(`left`). Two things are joined with a neighbouring step: the loop passes the scanning
thread itself, whose flag is 0, without a step, and the write of the thread's epoch comes with
`process_callbacks`. Like `qsbr.c`, this code is safe only if no thread is overtaken in the
window where its `in_critical` is 0, so the safety run and theorems take timely steps
(`TimelyStep`, see below). Without it TLC finds `EachNoUseAfterFree`, `EachOneEpochBehind` and
`EagerRefinesReclamation` violated on the instance of the run: the interleaving is that of
`qsbr_overtaken`. Types, the count and liveness need no such assumption.

Hazard pointers as in `Smr`, with ages that may be reached at any moment (`TurnOld`; that an
old node's guards are visible is what `Cadence` shows). `allocate_fail` counts failures and raises the
fallback flag (`trials` stops at the threshold, above which the code goes on counting to no
effect); `manage_hybrid_state` sets the thread's byte of the presence vector (`ShowUp`), reads
the flag, compares it with the one the thread saw last, and reads the others' bytes one by one; the sleeper thread clears the vector (`ResetPresence`). A thread frees
by epochs or by scans depending on the flag *it* has read, so for a while
both ways are in use. `KeepsNodes` says whether an insert that finds no node goes
on with the nodes its search found (as the code does) or starts from the head: the
former can be freed under it, by the same interleaving as in `qsbr_insert_when_empty`
(the finding names the lines), so the safety run takes the latter, and the liveness run
the former. `Lazy` adds the rotation of `hybrid_lazy.c`.

### Lists, skip lists, trees, hash tables

`ConcurrentSet` keeps the history variable `lin`: the set of all ways to have
applied the operations begun so far to a set, each at one moment between call and
return, so that the answers returned so far come out. `Linearizable` says that
there is one left. It needs no linearisation points to be named, which matters where
they lie in other threads' steps (a find that passes a marked node, helping, a search
that is overtaken). `mem` is the memory, `th[t]` the place and locals of a thread,
`req[t]` its operation. One step is one read, write or compare-and-swap of a
shared word; reads of fields that never change after publication are joined with the
step that obtains the pointer; steps under a lock that nobody reads without
it are joined.

In the baseline structures nodes are not reused: they use `ssmem`, which comes as a
binary library, and whose promise is that a freed node is not reused while an operation
that may have met it goes on. Where the structure itself says what may be freed
(`coupling.c`, `bst-aravind.c`, `bst_ellen.c`), freeing is an action, and
`NothingInUseIsFreed` is about it. In the lists over QSBR and over hazard pointers
nodes *are* reused, at once: `QsbrLists` takes the scheme as its promise (a retired
node is freed when the operations that were going on have ended), `SmrLists`
composes the list with the scan of `smr.c`. The run `harris_smr` shows what goes
wrong in `linkedlist-smr-harris_opt` when two threads update.

`PughList` is explored for both builds. Without `PUGH_RO_FAIL` every update locks before it
decides. With it, which is the default (`pugh.h:6`), an update gives up by a second read before
it locks (`LookAgain`, `pugh.c:79-83`), and a delete may then miss a key that is there all the
time: its search stops at `head`, before the node of key 2; another thread inserts key 1 behind
`head`; the second read finds key 1, which is not 2, and the delete returns 0. This build is
therefore checked with `Believed = FALSE`: the answer of a delete that gives up counts as
"nothing was done" and no more, and all other answers are checked in full. With
`Believed = TRUE` TLC finds `ListsLinearizable` violated; there is no run for that, as no text
of the repository says otherwise of this delete.

`BstBronson` follows the relaxed balancing of `bst_bronson_java.c`
through its rotations, with a version per node that says "changing" and "unlinked";
`LinksAgree` is that parents and children agree when no lock is held.
`BstTk` has the 16-bit versions, modulo `Mod`. `HashTables` has `chm_seg_rehash` as one
step: the new segment is private until it is published by one store.

### Small components

`Ssalloc` is the bump pointer and the ring with both counters modulo `Mod` (2^16).
`DoubleLlist` follows the links, and refines `RetireList`, where
lists are sequences; its `WalkVisitsAll` is about the loop of `scan` that removes the
wrapper it stands on and goes on from there. `Bloom` has the hash with words of `W`
bits, and hazard pointers that change between its two reads; the wrap at 32 bits of the code,
which is the same in add and check, is left out. The locks are at the
grain of their atomic instructions; counters wrap at `Mod`. A lock taken by `htlock_trylock` is
given back by `htlock_release_try`, as `htlock.c` has it; `lock_if.h:281-282` defines `TRYLOCK`
as the former and `UNLOCK` as `htlock_release`, which may take itself for the socket's leader
and leave the global lock taken; that pairing is not modelled. `HTicketLock` and
`ClhLock` implement `Mutex`, which is what the structures take a lock to be.

## Runs

| Run | Bounds | Shows |
|---|---|---|
| `qsbr` | four modes: 2 threads, 2 nodes, with exits; 3 threads, 1 node; 2 threads, 2 nodes, 1 wrapper and empty allocators; 2 threads, 1 node with steps that are not timely | the contract (`TimelyRefinesReclamation`); in the last two modes without its clause about references |
| `qsbr_fair` | 2 threads, 1 node, 1 exit retry, no assumption on timing, fairness | types, `RcountIsLimbo`, `OnePlace`, `UpdateIsExclusive`, `EpochAdvances`, `AloneDrains`, `ExitEnds` |
| `qsbr_overtaken` | 2 threads, 2 nodes, `Spec` | a violation of `NoUseAfterFree` |
| `qsbr_insert_when_empty` | 2 threads, 2 nodes, `TimelySpec` | a violation of `NoUseAfterFree` |
| `smr` | 2 threads (4 slots), 1 node, `R = 1`, `FairSpec` | types, `NoUseAfterFree`, `ScanSeesGuards`, `RcountIsLength`, the contract, `ExitEnds` |
| `cadence` | 2 threads, 1 slot each, 1 node, `MaxAge = 3`, `MaxSleep = ScanTime = 1`; the optimised variant with `R = 2`, a buffer of 1 and `CallsMod = 4`, the plain one with `R = 1` and a buffer of 2 | types, `OldGuardsAreVisible`, `MissedGuardsAreYoung`, the contract |
| `rotation` | 2 threads, 1 slot each, 6 nodes, thread 0 updates; both files | types, `MarkedInTime`, `RcountIsLength`, the contract |
| `rotation_scan` | 3 nodes, both update, allocators run dry | a violation of `NoUseAfterFree` |
| `hybrid` | `qsbr_smr_hybrid.c`: 2 threads that take timely steps, 1 node, `R = 1`, switch after 1 failure; `hybrid_lazy.c`: 1 thread, 3 nodes | no use after free, the count, how far epochs are apart, the contract (`qsbr_smr_hybrid.c`) |
| `hybrid_fair` | 2 threads, 1 node, `R = 2`; one updates, the other may stall for ever; no assumption on timing | types, `StalledThreadsDoNotBlock` |
| `structures` | see below | all structures, allocator, lists, filter, locks |
| `harris_smr` | 2 threads that update, 3 + 1 calls | a violation of linearisability |

`structures` explores many parts in one run, chosen by `part` in the initial
state. Structures have two threads, of which one calls twice and the other
once (three calls are the fewest in which an answer can be wrong because of a call
that has ended). Lists and skip lists have two keys and start from every set of
them; skip lists have two levels, of which each insert draws any. Trees are filled
with two to five keys, chosen so that deletions of nodes with two children, of
the root's neighbours and rotations happen. The hash tables have two buckets of which
one is used by two keys, and a segment that grows with its third key. `bst-drachsler`
is explored twice: with two threads that update, and with one that updates and one that
finds. The case left out, finds beside two threads that update, has no run of its own; in it
the answers are *not* linearisable: a delete has
taken a marked node out of the list but not out of the tree, an insert of
the same key has put a new one in, and a find stops at the marked node. Ticket and CLH locks have three
threads (two CLH locks), the hierarchical lock four on two sockets; counters are
modulo 4 or 5, so they wrap. `Ssalloc` has two threads and rings of four,
which wrap and overflow; `Bloom` two slots, three addresses and 4-bit words.

Bounds. Two threads are the retiring one and the reader, the smallest instance in
which any of this matters; the third of `qsbr` adds a scan that reads two others. Two
nodes give a list that is retired into while another retired node waits; in Qsbr more
nodes only add nodes in the same three lists. One node and `R = 1` are enough where a
node's whole life (insert, guard, retire, scan, free, insert) is what counts.
`Rotation` has six nodes because `vlist` holds `H + 1` of them. `WrapperCap = 10` never
binds with two nodes, `WrapperCap = 1` always does. `MaxExitRetries` (200 for two threads)
is 1 or 2: the loop ends by its count or by `rcount = 0` in either case. `R` is small
so that both a scan that is due and one that is not happen. Nodes are symmetric;
threads are not, because they are scanned in order. Only the rotating nodes of `MCHybrid` are
declared symmetric. The `hybrid` run leaves out resets of the presence vector that nobody can
notice before the fallback flag is up (`ResetMatters`), and `hybrid_fair` resets, besides, only the
byte of the thread that may stall: either way `all_threads_present` can give both answers at each call.
In `hybrid` the updating thread may leave. Runs with
`CHECK_DEADLOCK FALSE` may stop: threads that only search leave, and nothing more happens.

Several runs explore more than one instance of a module: a variable that never changes
(`mode`, `variant`, `part`) says which. Fair runs have a specification of their own for one
instance (`FairMode`, `FairVariant`).

`TimelySpec` adds an assumption to `Spec`: the scan of `update_epoch` does not pass
a thread that is between `in_critical = 0` and its restoration, has not reached
the current epoch, and will return to list operations (`orig = 1`). `Qsbr` and `Hybrid` each
have it, for their own file; in `Hybrid` `orig` is always 1. Nothing in the code
enforces it; it holds on a machine where that window is always short compared
with two advances of the epoch. It is the weakest assumption we know under which the
scheme is safe, and `qsbr_overtaken` shows what happens without: thread 1
stalls after the flag is cleared; thread 0 advances twice (1 -> 2 -> 0), thread 1
resumes with epoch 1, unlinks a node that thread 0 holds and puts it into
`limbo_list[1]`; its next two quiescent states bring it to epoch 0 and then advance
to 1, since thread 0 has epoch 0, and free list 1. Thread 0 has passed no quiescent
state meanwhile.

`qsbr_insert_when_empty` keeps the assumption and lets the workload insert with an
empty pool. The insert waits in `quiescent_state(NOT_FUZZY)` with `left_node`
and `right_node` in hand. That wait is a quiescent state to the others, who free
what they like. The safety runs therefore set `InsertWhenEmpty = FALSE`
and a `WrapperCap` that does not bind: they speak of workloads whose allocator is
large enough.

`harris_smr`: `list_search` flips its slot also for a marked node it
unlinks and skips, so the next publication overwrites the slot of `left_node`. That node
is unlinked by the other thread, freed, and inserted again with another successor; the
compare-and-swap of the first thread succeeds on it. Two inserts of one key both return
1. With one updating thread (part "harris smr") this cannot happen.

Fairness. Qsbr: a thread inside `quiescent_state`, `free_node_later`
or the exit loop is eventually scheduled (weak fairness: the code there is
straight-line, or yields), and a worker reaches its next `quiescent_state` after
finitely many operations (strong fairness of `Quiesce`: the loop counts to
`QUIESCENCE_THRESHOLD`; the step is disabled during nested calls). Starting an
operation or leaving is never required. Smr: the same for
`Proceed`, and strong fairness of `StartExit`: the benchmark sets `stop` after its
duration. Hybrid: only the threads in `Live` are scheduled, and time passes (strong
fairness of `TurnOld`: a node that stays retired turns old); everybody
else may stop anywhere for ever, also with a hazard pointer set.

Two liveness statements one would like do *not* hold of `qsbr.c`, even with fairness, and
are not claimed: that each retired node is eventually freed, and that a blocking
`quiescent_state` returns. Epochs are compared modulo 3 and `update_epoch` does not
test its own thread, so a lagging thread may see an epoch that only looks like its own.
What holds instead is `EpochAdvances`, `AloneDrains` and `ExitEnds`.

Every property has mutants of the code (`PROJECT.json`, "mutants") that break it; those of
the run `structures` have one per structure.

## Findings

Four runs show the code doing what a comment of the repository says it does not:
`qsbr_overtaken`, `qsbr_insert_when_empty`, `rotation_scan`, `harris_smr`.
`PROJECT.json`, "findings", quotes the lines.

## Proofs

`QsbrProofs`: `Spec => []TypeOK`, `[]RcountIsLimbo`, `[]OnePlace`,
`[]UpdateIsExclusive`, for any number of threads, any finite set of nodes and any
bounds. The inductive invariant is `TypeOK`, `RcountIsLimbo`, `UpdateIsExclusive`
and two strengthenings: `CallInv` (a thread at `free` has a victim, and only then or
in a nested call) and `Located` (pointwise `OnePlace`: each node is somewhere and
in no two places). `TypeOK` is not inductive alone: that `rcount` does not
go below zero in `process_callbacks` needs `RcountIsLimbo`, which in turn needs
`Located`: adding the victim to a list makes it one longer only if it was not
already there.

Theorems `Safety` (`TimelySpec => []NoUseAfterFree`) and `Refinement`
(`TimelySpec => RefinesReclamation`) are about any number of threads and nodes too,
threads that leave included. They have two hypotheses, and the runs `qsbr_overtaken` and
`qsbr_insert_when_empty` show that neither can be dropped: scheduling is timely, and
quiescence is announced between operations only (`BetweenOperations`: inserts do not wait
for memory, and the nodes are no more than one thread's wrappers). The inductive
invariant is `Safe`, which adds to the one above:

- `CriticalInv`: `in_critical` is set except in the window and while leaving, and
  references are held inside operations only;
- `LagInv`: epochs are counted modulo 3, so "two behind" and "one ahead" are the same
  number. A thread that is waited for is in the global epoch or the one before; two
  behind is only the thread that has just advanced, and it will not retire anything before it
  has caught up;
- `ScanInv`: whom a scan has passed is in the global epoch and stays in it (this is where
  timeliness is used, in `PassedIsTimely`);
- `GraceInv`: if `u` refers to a node in `limbo_list[t][e]`, then `e` is not the list that
  `t` would free next, as far as one can tell from the epochs of `t`, of `u` and the global one
  (`Waits`). When the epoch moves, `u` has been seen in the old one and the list is one step
  nearer to being freed; for the second step `u` must have announced a quiescent state.

`Smr`: `Spec => []TypeOK`, `[]NoUseAfterFree`, `[]ScanSeesGuards`,
`[]RcountIsLength`, for any number of threads, finite set of nodes and `R`. The
argument of safety: a slot that guards a node still names it (`GuardIsPublished`);
guarding starts only while the node is linked, hence before it is in any `rlist`; a scan
that has passed the slot therefore saw the node there (`ScanSeesGuards`) and keeps
it. The strengthening is the conjunction `Safe`.

`Spec => RefinesReclamation` (theorem `Refinement`) says that hazard pointers
implement `Reclamation`. The initial states map to its initial states; `Insert` is
its `Insert`, `Unlink` its `Retire`, `FreeNonHazardous` its `Free` of what the sweep
lets go, and every other step its `Access` or a stutter. That the freed nodes are
referred to by nobody is `Safe` before and after the step.

`CadenceProofs`: `Spec => []TypeOK`, `[]OldGuardsAreVisible`, `[]MissedGuardsAreYoung`
for any number of threads, slots and nodes, any size of the store buffers, any bounds
on time and all variants of the code. The inductive invariant is `Inv`:

- `ControlInv`: what each program counter says of the loop variables, and that a
  thread's buffer holds stores to its own slots only;
- `Located` and `RcountInv`: a node has one place, and `rcount` counts the nodes of
  the lists; `TypeOK` needs both, as in the other schemes;
- `GuardsAreStored`: the owner of a slot reads there the node it guards, from its
  buffer or from memory. `Drain` and `Wakeup` change where the value is, not what it
  is (`AfterTail`), and a store changes it only for a slot that guards nothing;
- `OthersHaveNoAge`: a node that is on no list has age 0, so a node is as young as its
  reader's sleep when it is retired;
- `PendingGuardsAreYoung`: a retired node whose reader still has a store *to the slot*
  in its buffer is no older than the reader's sleep. This is stronger than
  `OldGuardsAreVisible`, which is not inductive: memory can show the guard by
  coincidence, from an earlier use of the slot, while a store of something else and
  then the guard's own store wait; after a drain it shows it no more;
- `MissedGuardsAreYoung`. A scan can miss the guard of another thread only while a
  store to the slot waits (`ScanReads`), and it reads its own slots from its own
  buffer. From then on the node's age and `scanAge` grow together.

How long the times are matters only where a scan frees: `TimesSuffice`, which is
`MaxSleep + ScanTime < MaxAge`, makes a guard that was missed too young to be freed
(`FreedIsUnguarded`). Under it `Spec => []GuardsAreAlive` (theorem `Safety`) and
`Spec => RefinesReclamation` (theorem `Refinement`). It is a hypothesis of these two
theorems and no assumption of the module, because the code cannot ensure it:
it holds if the 50 ms of margin cover what a sleeper oversleeps and the scan. The
constants of the `cadence` run satisfy it.

`RotationProofs`: `Spec => []TypeOK` and `[]RcountIsLength` for any number of threads,
hazard pointers and nodes, both files and any workload. The inductive invariant is
`Inv`: `ControlInv`, with `Len(vlist[t]) > H` where rotation takes a tail; `Located` and
`ListsInv`, a node has one place and is on a thread's two lists at most once;
`RcountIsLength`; and `GuardsArePublished`. The lists are sequences, so the proof rests on
what the code's list operations do to them: `SublistIs` (what a scan keeps),
`ListsAfterFree` with `MovedOver` (the two moves of `free_node_later` are one move of the
tail of `rlist` to the head of `vlist`) and `RotateIs`.

With allocators that do not run out (`~Exhausts`) it proves `Spec => []MarkedInTime`,
`[]NoUseAfterFree` and `RefinesReclamation`. `MarkedInTime` is not inductive: in `rotate`
the slot at `HPcur` has been read and its node is not marked yet. `RotateInv` adds that
what was read is the node the slot guards (`cur[t] = guarded[i]`); that holds because a
node on `vlist` is no longer linked, so nobody takes it up in between. Then the
argument counts: a rotation brings a node one place nearer to the tail and every slot
but the one it looks at one nearer to its turn (`SlotsBeforeIs`, `RotationRotate`); a node
that comes back to the head has all of `H` places before it; `free_node_later` changes
no distance to the tail (`FreeRotate`). `ScanInv` says that the scan of `mr_thread_exit`
has seen what its slots guard. `~Exhausts` is needed: a scan called by an insert that finds no
node shortens `vlist`, and the run `rotation_scan` shows a node in use freed after it.

`HybridProofs`: `TimelySpec => []OneEpochBehind` for both files, and for `qsbr_smr_hybrid.c`
(`~Lazy`) `Spec => []TypeOK` and `[]RcountIsLength`, for any number of threads, slots and nodes,
any thresholds and any workload. The invariant of the last two is `Base`:
`ControlInv` (what each program counter says of the victim, the loop variables and the
caller), `Located` (a node has one place, and is in one limbo list only) and
`RcountIsLength`. Beside it stands `CodeInv`, which makes read, scan and write of
`global_epoch` one transaction: only the thread in `Locked` holds `update_lock`, and until it has
written its `curr_epoch` is the global epoch.

If steps are timely and an insert that finds no node gives up the nodes it has found
(`~KeepsNodes`), it also proves `TimelySpec => []NoUseAfterFree` and `RefinesReclamation`. The
two ways to free are each safe *whatever the flag*, and that is the argument why it may rise and
fall at any time, and why threads that have not noticed yet do no harm:

- threads publish hazard pointers in both modes, so a slot that guards a node names it
  (`GuardsArePublished`), and a scan has seen the guards in the slots it has passed
  (`ScanInv`); what it sweeps is in nobody's use (`SweptIsUnguarded`);
- threads announce quiescent states in both modes too, and outside of operations they
  guard nothing (`AwayGuardsNothing`). The rest is the argument of `QsbrProofs`: `CriticalInv`
  says that `in_critical` is cleared in the window and nowhere else, `LagInv` how far behind a
  thread can be, `LookInv` that whom a scan has passed is in the global epoch and stays in it (`PassedIsTimely`
  is where timeliness is used), and `GraceInv` that a reader of a
  node in a limbo list keeps that list from being the next to go (`Waits`). So the list that
  `process_callbacks` frees is unguarded (`PassedIsUnguarded`).

`~KeepsNodes` is needed for the reason `qsbr_insert_when_empty` shows. With `Lazy`, nodes in
`vlist` are freed by a rotation whose argument is that of `RotationProofs`; for the
combination only `OneEpochBehind` is proved.

`ListProofs`: four lists are linearizable, for any number of threads, keys and calls, and
from any filling: `HarrisLinearizable`, `MichaelLinearizable`, `HarrisOptLinearizable` and
`QsbrHarrisOptLinearizable`.
The hypothesis is `ListAssumption`: there are finitely many threads and keys, and keys are
`1 .. n`, which is how the model numbers them. What is proved is the history
property itself, `Linearizable`. `lin` grows by `Extended`, a recursive closure over as
many rounds as there are threads, that is, by data; the lemmas show that its result
contains its argument, is closed under letting one more begun operation take effect,
and has the answers of operations that returned. So it is enough to name, at each
moment, a set and answers that `Extended(lin)` contains: `Feasible(S, A)` says that it
contains the set `S` with *every* choice of answers out of `A`, that is, out of those that
each unfinished operation may still give. A step that changes the set, or shows somebody an
answer, keeps `Feasible` because the closure lets operations take effect there, one after
the other (`ObserveAll`).

- Harris's list. The invariant `Inv` is that there is a set `L` of nodes, the list with
  marked nodes not unlinked yet, such that links lead to greater keys and each
  node of `L` to its next (`NodesOK`, `ListOK`), that a search which stands between two
  nodes has only marked ones of `L` between them (`Run`), and `Feasible` with `MayAnswer`. An
  unlinked node is never met *with its successors changed*, and whatever a search found
  between `left_node` and `right_node` is checked by its compare-and-swap, so an operation may
  answer what it saw last (`SeenAbsent`, `SeenPresent`).
- Michael's list and `linkedlist-harris_opt`. Their searches hold nodes one at a time,
  and the latter goes on from unlinked ones, so what they saw last is not what they
  answer by. The invariant `Core(L, A, N)` has, besides the list `L`, the nodes `A[t]`
  that thread `t` may meet: those in the list at some time of its operation. The ones
  that have left the list keep their mark and link, and lead to others in `A[t]`, so
  that a search cannot leave `A[t]`. `N` are the threads whose key was absent at
  some time of their find or delete, and which may therefore answer "no": a step that
  unlinks or marks a node adds those that could meet the gap it leaves (`Met`), *before*
  they meet it. This is where a find may stop at a marked node that was deleted long
  ago: the moment at which it takes effect lies in the step of the thread that marked it.
- `linkedlist-qsbr-harris_opt`. The same list over QSBR, whose nodes come back: a retired node is
  freed after its grace period and `new_node` gives it out again, for another key. The invariant
  `GraceCore` adds that each node is in one place, in the list or in one thread's limbo
  list, pool or `newnode`, and that one not linked yet is as `new_node` made it (`GcOK`), and
  that what a running operation may meet outside the list was retired while that
  operation was running (`Seen`). A grace period waits for those operations, so that what
  `process_callbacks` frees is in nobody's `A[t]`, and it may change key and link
  without anybody noticing. That a grace period does wait for them is the promise of the
  scheme, which `QsbrLists` takes as it is and `QsbrProofs` proves of `Qsbr`.

`HelperProofs`, of `TicketLock`: exclusion (`Spec => RefinesMutex`) and order (`[]FirstComeFirstServed`) for
any set of threads no larger than the number of tickets (`EnoughTickets`; with 32-bit
counters the code satisfies it, and TLC finds two threads inside when there is one ticket
too few). The invariant is about the line of threads that drew a ticket: their tickets
follow each other from `curr` to `ticket` modulo `Mod`, and as a thread stands in line once,
the line is not longer than `Mod`, so that the ticket a new thread draws is that of nobody
before it. Of `ClhLock`: no node of the queues has two owners (`[]OneOwner`) and every lock
excludes (`Spec => RefinesMutex`), for any threads and locks. The invariant keeps the queues
of the locks apart (`NodesApart`, `PredsApart`), and says that all nodes of a queue but one
belong to threads in it, which have them locked (`OneHead`, `LockedInQueue`): hence
only one thread can find its predecessor's node unlocked. That `Threads` and `Locks` are disjoint
is how the model names the initial nodes.

Of `Ssalloc`: `[]NotInUseTwice`, for any threads, arenas, alignments and length `Mod` of the
rings (`RingsOfferUnused`). The invariant numbers what a ring offers by its distance from
`Spot`, so that freeing and reusing move no object; an object that is freed was in use,
hence in no ring, and when `free_num` wraps to 0 the ring offers nothing. That
the rings are also in the order of freeing (`RingIsLastFreed`) is about a filtered sequence, that
is, induction over data, and stays with TLC.

`HTicketLock`: exclusion (`Spec => RefinesMutex`) and `[]PassedAtMostNB`. The invariant has
one part per socket, `Local`, and one for the global lock, `GlobalLine`. In a socket one
thread at a time leads, that is, has the global lock or is on its way to it (`Leaders`);
while there is one, a thread waits for every ticket given out and not yet served, each for
its own (`Waiters`), and one thread at most fetches new tickets (`Givers`). Among all threads
one holds the lock, and the global tickets not served are those of the threads that wait for
them, in line modulo `Mod`. `PassedIs` ties `passed` to the tickets left. The hard step is
`Fetch`: it sees `cur = NB`, which is also so after a leader took the global lock and before
it has passed it on. Then all `NB` tickets are drawn, and with the leader and the thread that
fetches that makes `NB + 2` threads (`NoLeaderAtFetch`), one more than `EnoughTickets` allows.
With as many threads on a socket TLC finds two inside: the bound, 129 threads in the code, is
not an artifact. `utils.h` knows no machine of more than 64 cores per socket, and a socket
gets no more threads than cores unless a program oversubscribes it.

Assumptions: only the named `ASSUME`s of the constants (`NAssumption`,
`NodesAssumption`, `BoundsAssumption`, `RAssumption`, in `Cadence` also `TimesAssumption` and
`LimitsAssumption`, in `Rotation` `VariantAssumption` and `WorkloadAssumption`, in `Hybrid`
`LimitsAssumption`, `VariantAssumption` and `ThreadsAssumption`), and what the theorems name
as their hypotheses (`TimelySpec`, `TimesSuffice`, `~Exhausts`, `~KeepsNodes`, `EnoughTickets`,
`ListAssumption`, `Arenas`).

Model-checked only: the variant `Lazy` of `Hybrid` except `OneEpochBehind`; the structures
but for those four lists; the order in which `Ssalloc` reuses, `Bloom` (whose hash is made of
`Bitwise`) and `DoubleLlist`; and all liveness (out of the prover's reach, like
ENABLED).

## Not modelled

- Weak memory in the baseline structures: they are sequentially consistent here.
  `Cadence` is the only module with store buffers, where the scheme is about them.
- The second allocation of an insert failing, which publishes NULL
  (`linkedlist-smr-harris_opt/harris_opt.c:154`), and a missing wrapper, which
  `smr.c` dereferences (`:192`): what follows is a crash, not a state of the list. The retry loop of
  `linkedlist-qsbr-hart/list_lf_qsbr.c:143`, whose inner variable shadows the one it
  tests.
- A wall clock set back, and scans longer than `MaxAge - MaxSleep`: Cadence
  promises nothing then.
- `bst-drachsler`'s rebalancing, which is not compiled. Heights and balance in
  `bst_bronson_java.c`, and values equal to its internal answers 2 and 3. Versions of
  `bst_tk` that wrap within one operation (65536 updates under a stalled thread): `BstTk` counts
  modulo `Mod`, but no run makes `Mod` updates.
- `mr_reinitialize`, which nothing calls; size functions, which the source calls not linearisable.
- The structures over transactional memory (`rbtree`, `skiplist`), whose library is not part of
  the repository; sequential structures; hash tables that are arrays of a modelled list;
  variants of modelled structures (`bst-lock`, `bst-lock2-no-rebalance`, `bst-howley-simple-find`,
  `skiplist-lock`, `linkedlist-lock`, `linkedlist-smr-no-membar`, the jemalloc and tcmalloc copies); `deque`;
  vendored headers; benchmark drivers, measurement code, scripts and results.

## Plan

What is left is proof. Of `Hybrid` with `Lazy`, `TypeOK` and `RcountIsLength`; its safety only for
workloads in which `allocate_fail` makes no scan, since a scan shortens `vlist` as in
`rotation_scan`. The argument of `ListProofs` for the other two lists over QSBR and for those over
hazard pointers, where what keeps a node is not the operation that may meet it but one
of its hazard pointers. The skip lists and trees, whose order is per level or per
subtree.
