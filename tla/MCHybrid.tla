------------------------------- MODULE MCHybrid -------------------------------
(* Two instances of Hybrid explored by one run; variant, chosen in the       *)
(* initial state and never changed, says which file of the source is meant:  *)
(* the constants give qsbr_smr_hybrid.c with two threads that take timely    *)
(* steps only, Rotating is hybrid_lazy.c with one thread and enough nodes    *)
(* for its lists to rotate.  FairVariant, of another run, is the first with  *)
(* fairness, and with untimely steps too.                                    *)
EXTENDS Hybrid, TLC

CONSTANT RotatingNodes   \* the nodes of Rotating

VARIABLE variant

Rotating == INSTANCE Hybrid WITH N <- 1, Nodes <- RotatingNodes, Many <- 1,
                                 Lazy <- TRUE, Searchers <- {0},
                                 Updaters <- {0}, Leavers <- {0}

Eager     == variant = "eager" /\ Init
EagerNext == variant = "eager" /\ Next /\ variant' = variant

MCInit == Eager \/ (variant = "rotating" /\ Rotating!Init)

\* Nobody reads the presence vector while the flag is down, but one who has begun
\* before.  A byte that is reset then might as well be reset later, when the flag is
\* up again, so such steps need not be explored.
ResetMatters ==
    \/ present \subseteq present'
    \/ fallback = 1
    \/ \E t \in Threads : pc[t] = "present"

MCNext ==
    \/ EagerNext /\ TimelyStep /\ ResetMatters
    \/ variant = "rotating" /\ Rotating!Next /\ variant' = variant

MCSpec == MCInit /\ [][MCNext]_<<variant, vars>>

\* The bytes of the live threads are not reset: all_threads_present can still give
\* either answer to every call, by the bytes of the others.
FairNext == EagerNext /\ ResetMatters /\ Live \subseteq present'

FairVariant == Eager /\ [][FairNext]_<<variant, vars>> /\ Fairness

\* The nodes of Rotating have the same part in everything that is checked.
RotatingSymmetry == Permutations(RotatingNodes)

\* Hybrid's NoUseAfterFree, in both variants: neither the epochs nor a scan nor
\* the rotation frees a node that a traversal dereferences.
EachNoUseAfterFree ==
    IF variant = "eager" THEN NoUseAfterFree ELSE Rotating!NoUseAfterFree

\* Hybrid's RcountIsLength, in both variants: rcount counts what the limbo lists,
\* or the rotated and the limbo lists, hold.
EachRcountIsLength ==
    IF variant = "eager" THEN RcountIsLength ELSE Rotating!RcountIsLength

\* Hybrid's OneEpochBehind: a thread that stalls anywhere in quiescent_state, or an
\* update_epoch that gives up, leaves no thread two epochs behind but the one that
\* has just advanced the epoch.
EachOneEpochBehind ==
    IF variant = "eager" THEN OneEpochBehind ELSE Rotating!OneEpochBehind

\* qsbr_smr_hybrid.c keeps the contract every scheme keeps, also while it
\* switches from epochs to hazard pointers and back: each step of it is a step
\* of Reclamation, or one that Reclamation does not see.
EagerRefinesReclamation ==
    [][variant = "eager" => Contract!Next \/ UNCHANGED Contract!vars]_vars
===============================================================================
