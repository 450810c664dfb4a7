----------------------------- MODULE MCStructures -----------------------------
(* The search structures under src/src, and the allocator, the lists, the    *)
(* filter and the locks that they or the reclamation schemes use, explored   *)
(* by one run: part, chosen in the initial state and never changed, says     *)
(* which of them is meant.                                                   *)
EXTENDS Naturals, Sequences, TLC

VARIABLES
    part,
    mem, th, req, lin,  \* of the search structures (module ConcurrentSet)
    HP, sd,             \* of those over hazard pointers (SmrLists) or QSBR
    v1, v2, v3, v4, v5, v6, v7, v8, v9  \* of the other parts

setVars  == <<mem, th, req, lin>>
smrVars  == <<HP, sd>>
freeVars == <<v1, v2, v3, v4, v5, v6, v7, v8, v9>>
allVars  == <<part, setVars, smrVars, freeVars>>

-----------------------------------------------------------------------------
\* Two threads; two calls of one of them and one of the other.  Lists and skip
\* lists of two keys start from every set of keys.
Threads == {1, 2}
Keys    == {1, 2}
Fill    == <<>>
MaxOps  == <<2, 1>>

Lazy       == INSTANCE LazyList WITH RO_FAIL <- TRUE
Coupling   == INSTANCE CouplingList
Pugh       == INSTANCE PughList WITH PUGH_RO_FAIL <- FALSE, Believed <- TRUE
PughReads  == INSTANCE PughList WITH PUGH_RO_FAIL <- TRUE, Believed <- FALSE
Harris     == INSTANCE HarrisList
Michael    == INSTANCE MichaelList

\* Skip lists have two levels.
levelmax == 2

LbSkip     == INSTANCE HerlihyLbSkiplist
LfSkip     == INSTANCE HerlihyLfSkiplist
FraserSkip == INSTANCE FraserSkiplist
PughSkip   == INSTANCE PughSkiplist

\* Trees are filled with two or three keys of three.
TreeKeys == {1, 2, 3}
Updates  == {"insert", "delete"}

Tk      == INSTANCE BstTk WITH Keys <- TreeKeys, Fill <- <<2, 1>>, Mod <- 16
Aravind == INSTANCE BstAravind WITH Keys <- TreeKeys, Fill <- <<2, 1>>
Ellen   == INSTANCE BstEllen WITH Keys <- TreeKeys, Fill <- <<2, 1>>
Howley  == INSTANCE BstHowley WITH Keys <- 1 .. 4, Fill <- <<2, 1, 4, 3>>

Updated == INSTANCE BstDrachsler WITH Keys <- TreeKeys, Fill <- <<2, 1, 3>>,
                                      RO_FAIL <- TRUE, Calls <- <<Updates, Updates>>
Read    == INSTANCE BstDrachsler WITH Keys <- TreeKeys, Fill <- <<2, 1, 3>>,
                                      RO_FAIL <- TRUE, Calls <- <<Updates, {"find"}>>

\* One thread inserts and deletes, the other does all; and all of one thread's
\* calls and some of the other's in a tree where rotations meet a routing node.
AllCalls  == Updates \X TreeKeys
Bronson   == INSTANCE BstBronson
               WITH Keys <- TreeKeys, Fill <- <<3, 1>>,
                    Calls <- <<AllCalls, AllCalls \cup ({"find"} \X TreeKeys)>>
Balancing == INSTANCE BstBronson
               WITH Keys <- 1 .. 6, Fill <- <<5, 2, 6, 1, 3>>,
                    Calls <- <<{<<"delete", 2>>, <<"insert", 4>>},
                               (Updates \cup {"find"}) \X (1 .. 6)>>

\* Hash tables: buckets of the copying one with and without the key that is put
\* first; in the other, a third key of a segment makes it grow, and two keys that
\* were in one bucket may part.
Copying == INSTANCE HashTables
             WITH Keys <- TreeKeys, Fill <- <<1>>, RO_FAIL <- TRUE,
                  num_buckets <- 2, num_segments <- 2, capacity <- 4
Map     == INSTANCE HashTables
             WITH Keys <- {2, 10, 18}, Fill <- <<2, 10>>, RO_FAIL <- TRUE,
                  num_buckets <- 2, num_segments <- 2, capacity <- 4

\* Lists over QSBR; sd is what they retire and allocate.
Grace == INSTANCE QsbrLists WITH gc <- sd

\* Lists over hazard pointers: a scan for every node retired.
HarrisSmr  == INSTANCE SmrLists WITH R <- 1, MaxOps <- <<3, 1>>, Updaters <- {1}
BothUpdate == INSTANCE SmrLists WITH R <- 1, MaxOps <- <<1, 1>>, Updaters <- Threads
HartSmr    == INSTANCE SmrLists WITH R <- 1, Updaters <- Threads

-----------------------------------------------------------------------------
\* Two threads, with arenas of four units and of one.
Allocator ==
    INSTANCE Ssalloc WITH Threads <- {0, 1}, Mod <- 4, Alignment <- 2,
                          Size <- [t \in {0, 1} |-> IF t = 0 THEN 4 ELSE 1],
                          alloc_next <- v1, free_list <- v2, free_cur <- v3,
                          free_num <- v4, live <- v5, freed <- v6

Wrapped ==
    INSTANCE DoubleLlist WITH Wrappers <- {1, 2, 3}, NULL <- 0,
                              head <- v1, tail <- v2, size <- v3, mr_next <- v4,
                              mr_prev <- v5, idle <- v6, phase <- v7, cur <- v8,
                              todo <- v9

\* The hash with words of four bits.
Filter ==
    INSTANCE Bloom WITH Slots <- {0, 1}, Nodes <- {<<1, 0>>, <<2, 1>>, <<3, 2>>},
                        NULL <- <<0, 0>>, Seed <- 7,
                        W <- 4, M <- 11, R <- 3, S1 <- 2, S2 <- 2,
                        hashes <- 2, bits <- 7,
                        HP <- v1, kept <- v2, ready <- v3, bf <- v4, i <- v5,
                        word <- v6, a <- v7, pc <- v8

Ticket ==
    INSTANCE TicketLock WITH Threads <- {1, 2, 3}, Mod <- 4,
                             ticket <- v1, curr <- v2, pc <- v3, mine <- v4,
                             line <- v5

Clh ==
    INSTANCE ClhLock WITH Threads <- {1, 2, 3}, Locks <- {11, 12},
                          the_lock <- v1, locked <- v2, my_qnode <- v3,
                          my_pred <- v4, at <- v5, pc <- v6

\* Three threads of one socket and one of another.
HTicket ==
    INSTANCE HTicketLock WITH Threads <- 1 .. 4, Sockets <- {1, 2},
                              Node <- <<1, 1, 1, 2>>, NB <- 2, Mod <- 5,
                              Floor <- 3, Tries <- {4},
                              nxt <- v1, cur <- v2, gnxt <- v3, gcur <- v4,
                              pc <- v5, ticket <- v6, passed <- v7

-----------------------------------------------------------------------------
\* The variables that a part does not have.
Unused(v) == v = 0
NoSet  == Unused(mem) /\ Unused(th) /\ Unused(req) /\ Unused(lin)
NoSmr  == Unused(HP) /\ Unused(sd)
NoFree == /\ Unused(v1) /\ Unused(v2) /\ Unused(v3) /\ Unused(v4) /\ Unused(v5)
          /\ Unused(v6) /\ Unused(v7) /\ Unused(v8) /\ Unused(v9)

SetInit ==
    \/ part = "lazy" /\ Lazy!Init
    \/ part = "coupling" /\ Coupling!Init
    \/ part \in {"pugh", "pugh reads"} /\ Pugh!Init
    \/ part = "harris" /\ Harris!Init
    \/ part = "michael" /\ Michael!Init
    \/ part = "harris_opt" /\ Michael!Init
    \/ part = "lb" /\ LbSkip!Init
    \/ part = "lf" /\ LfSkip!Init
    \/ part = "fraser" /\ FraserSkip!Init
    \/ part = "pugh skip" /\ PughSkip!Init
    \/ part = "tk" /\ Tk!Init
    \/ part = "aravind" /\ Aravind!Init
    \/ part = "ellen" /\ Ellen!Init
    \/ part = "howley" /\ Howley!Init
    \/ part = "updated" /\ Updated!Init
    \/ part = "read" /\ Read!Init
    \/ part = "bronson" /\ Bronson!Init
    \/ part = "balancing" /\ Balancing!Init
    \/ part = "copying" /\ Copying!CopyInit
    \/ part = "map" /\ Map!MapInit

GraceParts == {"harris_opt qsbr", "harris qsbr", "hart qsbr"}

SmrInit ==
    \/ part = "harris smr" /\ HarrisSmr!SmrInit
    \/ part = "both update" /\ BothUpdate!SmrInit
    \/ part = "hart smr" /\ HartSmr!SmrInit
    \/ part \in GraceParts /\ Grace!GraceInit /\ Unused(HP)

FreeInit ==
    \/ part = "ssalloc" /\ Allocator!Init /\ Unused(v7) /\ Unused(v8) /\ Unused(v9)
    \/ part = "llist" /\ Wrapped!Init
    \/ part = "bloom" /\ Filter!Init /\ Unused(v9)
    \/ part = "ticket" /\ Ticket!Init /\ Unused(v6) /\ Unused(v7) /\ Unused(v8) /\ Unused(v9)
    \/ part = "clh" /\ Clh!Init /\ Unused(v7) /\ Unused(v8) /\ Unused(v9)
    \/ part = "hticket" /\ HTicket!Init /\ Unused(v8) /\ Unused(v9)

MCInit ==
    \/ SetInit /\ NoSmr /\ NoFree
    \/ SmrInit /\ NoFree
    \/ FreeInit /\ NoSet /\ NoSmr

SetNext ==
    \/ part = "lazy" /\ Lazy!Next
    \/ part = "coupling" /\ Coupling!Next
    \/ part = "pugh" /\ Pugh!Next
    \/ part = "pugh reads" /\ PughReads!Next
    \/ part = "harris" /\ Harris!Next
    \/ part = "michael" /\ Michael!Next
    \/ part = "harris_opt" /\ Michael!OptNext
    \/ part = "lb" /\ LbSkip!Next
    \/ part = "lf" /\ LfSkip!Next
    \/ part = "fraser" /\ FraserSkip!Next
    \/ part = "pugh skip" /\ PughSkip!Next
    \/ part = "tk" /\ Tk!Next
    \/ part = "aravind" /\ Aravind!Next
    \/ part = "ellen" /\ Ellen!Next
    \/ part = "howley" /\ Howley!Next
    \/ part = "updated" /\ Updated!Next
    \/ part = "read" /\ Read!Next
    \/ part = "bronson" /\ Bronson!Next
    \/ part = "balancing" /\ Balancing!Next
    \/ part = "copying" /\ Copying!CopyNext
    \/ part = "map" /\ Map!MapNext

SmrNext ==
    \/ part = "harris smr" /\ HarrisSmr!Next
    \/ part = "both update" /\ BothUpdate!Next
    \/ part = "hart smr" /\ HartSmr!HartNext
    \/ part = "harris_opt qsbr" /\ Grace!OptNext /\ HP' = HP
    \/ part = "harris qsbr" /\ Grace!RunNext /\ HP' = HP
    \/ part = "hart qsbr" /\ Grace!HartNext /\ HP' = HP

FreeNext ==
    \/ part = "ssalloc" /\ Allocator!Next /\ UNCHANGED <<v7, v8, v9>>
    \/ part = "llist" /\ Wrapped!Next
    \/ part = "bloom" /\ Filter!Next /\ UNCHANGED <<v9>>
    \/ part = "ticket" /\ Ticket!Next /\ UNCHANGED <<v6, v7, v8, v9>>
    \/ part = "clh" /\ Clh!Next /\ UNCHANGED <<v7, v8, v9>>
    \/ part = "hticket" /\ HTicket!Next /\ UNCHANGED <<v8, v9>>

MCNext ==
    /\ part' = part
    /\ \/ SetNext /\ UNCHANGED <<smrVars, freeVars>>
       \/ SmrNext /\ UNCHANGED freeVars
       \/ FreeNext /\ UNCHANGED <<setVars, smrVars>>

MCSpec == MCInit /\ [][MCNext]_allVars

-----------------------------------------------------------------------------
\* The list over hazard pointers once more, with two threads that update.
Race == INSTANCE SmrLists WITH R <- 1, MaxOps <- <<3, 1>>, Updaters <- Threads

RaceInit == part = "race" /\ Race!SmrInit /\ NoFree
RaceSpec == RaceInit /\ [][Race!Next /\ part' = part /\ UNCHANGED freeVars]_allVars

\* harris_insert answers 1 only if the key was absent, and the others as a set
\* does, although nodes are used again under the eyes of another thread.
RaceLinearizable == Race!Linearizable

-----------------------------------------------------------------------------
\* Every answer of a structure is that of a set to which the operations were
\* applied one after the other, each between its call and its return.

\* For the lists and hash tables.  lazy.c: updates lock what they found and validate it.
\* coupling.c: one that walks behind another never overtakes it.  pugh.c: an update
\* that stands on an unlinked node goes back along it; compiled with RO_FAIL=0 all
\* answers are right, by default all but the "no" of a delete that gives up before it
\* locks (it may have missed the key, see README.md).  harris.c: unlinking a run of marked nodes loses no node inserted
\* behind it.  michael.c: a search whose left node changes starts again.
\* linkedlist-harris_opt: finds pass marked nodes without unlinking them.
\* copy_on_write.c: an update decides again under the lock of the bucket.
\* concurrent_hash_map2.c: a find whose segment is replaced under it still meets
\* every node.
ListsLinearizable ==
    CASE part = "lazy"       -> Lazy!Linearizable
      [] part = "coupling"   -> Coupling!Linearizable
      [] part = "pugh"       -> Pugh!Linearizable
      [] part = "pugh reads" -> PughReads!Linearizable
      [] part = "harris"     -> Harris!Linearizable
      [] part = "michael"    -> Michael!Linearizable
      [] part = "harris_opt" -> Michael!Linearizable
      [] part = "copying"    -> Copying!Linearizable
      [] part = "map"        -> Map!Linearizable
      [] OTHER               -> TRUE

\* For the skip lists.  skiplist-herlihy_lb: a node counts from the moment it is
\* linked at all its levels to the moment it is marked.  skiplist-herlihy_lf: the
\* one who marks level 0 has deleted the node.  skiplist-fraser: an insertion
\* that is overtaken by the deletion of its node takes it down again.
\* skiplist-pugh: levels are linked and unlinked one by one under locks.
SkipListsLinearizable ==
    CASE part = "lb"        -> LbSkip!Linearizable
      [] part = "lf"        -> LfSkip!Linearizable
      [] part = "fraser"    -> FraserSkip!Linearizable
      [] part = "pugh skip" -> PughSkip!Linearizable
      [] OTHER              -> TRUE

\* For the trees.  bst_tk.h: a trylock on the version that was read validates the
\* place.  bst-aravind.c and bst_ellen.c: an announced update is finished by
\* whoever meets it, with the effect of doing it once.  bst_howley.c: a search
\* notices that a key was moved past it.  bst-drachsler.c: updates by two threads,
\* or by one and finds by the other (finds beside two updating threads may miss a
\* key, see README.md).  bst_bronson_java.c: a search goes back when keys have
\* moved out of the part of the tree below it.
TreesLinearizable ==
    CASE part = "tk"        -> Tk!Linearizable
      [] part = "aravind"   -> Aravind!Linearizable
      [] part = "ellen"     -> Ellen!Linearizable
      [] part = "howley"    -> Howley!Linearizable
      [] part = "updated"   -> Updated!Linearizable
      [] part = "read"      -> Read!Linearizable
      [] part = "bronson"   -> Bronson!Linearizable
      [] part = "balancing" -> Balancing!Linearizable
      [] OTHER              -> TRUE

\* For the lists whose nodes are used again.  Over hazard pointers this happens at
\* other places of the list, under the eyes of the other thread:
\* linkedlist-smr-harris_opt with one thread that updates, linkedlist-smr-hart with
\* two.  Over QSBR, linkedlist-qsbr-harris_opt, linkedlist-qsbr and
\* linkedlist-qsbr-hart, an operation outlives no node it meets.
ReusingListsLinearizable ==
    CASE part = "harris smr"  -> HarrisSmr!Linearizable
      [] part = "both update" -> BothUpdate!Linearizable
      [] part = "hart smr"    -> HartSmr!Linearizable
      [] part \in GraceParts   -> Grace!Linearizable
      [] OTHER                -> TRUE

\* Nothing is freed while a thread uses it, or twice.  Hazard pointers: two slots,
\* written in turn, are enough for what a search dereferences.  coupling.c:
\* lockc_delete frees a node when nobody stands on it, waits for its lock or will.
\* bst-aravind.c, bst_ellen.c: what is freed was cut off by the one who frees it.
\* The lists over QSBR: what is retired has left the list, and is retired once.
NothingInUseIsFreed ==
    CASE part = "harris smr"  -> HarrisSmr!NoUseAfterFree
      [] part = "both update" -> BothUpdate!NoUseAfterFree
      [] part = "hart smr"    -> HartSmr!NoUseAfterFree
      [] part = "coupling"    -> Coupling!NobodyStandsOnFreed
      [] part = "aravind"     -> Aravind!FreesTheUnlinkedOnce
      [] part = "ellen"       -> Ellen!FreesTheUnlinkedOnce
      [] part \in GraceParts   -> Grace!RetiredOnceUnlinked
      [] OTHER                -> TRUE

\* For bst-drachsler.c: after any updates the tree and the doubly linked list hold
\* the same nodes, although they are changed under different locks.  For
\* bst_bronson_java.c: rotations and removals leave no node with another parent
\* than the one it hangs from, and none locked or marked as changing.
TreesStayWhole ==
    CASE part = "updated"   -> Updated!TreeMatchesList
      [] part = "bronson"   -> Bronson!LinksAgree
      [] part = "balancing" -> Balancing!LinksAgree
      [] OTHER              -> TRUE

-----------------------------------------------------------------------------
\* For ssalloc.c: the ring, whose indices wrap, holds what was freed last, and no
\* object is handed out while it is in use.
SsallocIsSound ==
    part = "ssalloc" =>
        Allocator!TypeOK /\ Allocator!RingIsLastFreed /\ Allocator!NotInUseTwice

\* For smr_no_membar_opt.c: the walk over rlist visits each wrapper once, though
\* it removes some and hands them to an allocator that may reuse them; along
\* mr_next and along mr_prev the same wrappers are met, and size counts them.
LlistWalkVisitsAll ==
    part = "llist" =>
        Wrapped!TypeOK /\ Wrapped!WalkVisitsAll /\ Wrapped!BothWaysAgree

\* For double_llist.c: the lists behave as sequences: what scans and rotations take
\* from the tail is the wrapper retired longest ago, and none is in two lists.
LlistRefinesRetireList ==
    [][part = "llist" => Wrapped!Abstract!NextOrSame]_allVars

\* For bloom.c and bloom_refresh: a hazard pointer that has not changed since the
\* refresh began is found by bloom_search.
BloomNoFalseNegative == part = "bloom" => Filter!TypeOK /\ Filter!NoFalseNegative

\* For lock_if.h: ticket locks serve in the order of the tickets drawn, also when
\* the counters wrap and trylocks come between.  htlock.c: a socket passes the
\* lock on at most NB_TICKETS_LOCAL times before the others get it.  clh.c: a queue
\* node is nobody else's while a successor spins on it.
LocksKeepOrder ==
    CASE part = "ticket"  -> Ticket!FirstComeFirstServed
      [] part = "hticket" -> HTicket!PassedAtMostNB
      [] part = "clh"     -> Clh!OneOwner
      [] OTHER            -> TRUE

\* One thread at a time holds a lock: a ticket lock, by whatever call it came; one
\* of two CLH locks, although the queue nodes of all get mixed; a hierarchical
\* ticket lock, whatever the sockets.
LocksRefineMutex ==
    [][CASE part = "ticket"  -> Ticket!Lock!NextOrSame
         [] part = "hticket" -> HTicket!Lock!NextOrSame
         [] part = "clh"     -> \A l \in {11, 12} : Clh!Lock(l)!NextOrSame
         [] OTHER            -> TRUE]_allVars
===============================================================================
