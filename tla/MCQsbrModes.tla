------------------------------ MODULE MCQsbrModes ------------------------------
(* Four instances of Qsbr explored by one run; mode, chosen in the initial   *)
(* state and never changed, says which.  The constants give "empty", where   *)
(* threads may insert with their allocator empty and find no wrapper; Two and *)
(* Three threads do neither.  All of them take timely steps only, which      *)
(* Untimely does not.  FairMode, of another run, has fairness.               *)
EXTENDS Qsbr, TLC

CONSTANT OneNode   \* the node of Three and Untimely

VARIABLE mode

NodeSymmetry == Permutations(Nodes)   \* Nodes are interchangeable

Two      == INSTANCE Qsbr WITH WrapperCap <- 10, InsertWhenEmpty <- FALSE,
                               MayExit <- TRUE
Three    == INSTANCE Qsbr WITH N <- 3, Nodes <- OneNode, WrapperCap <- 10,
                               InsertWhenEmpty <- FALSE
Untimely == INSTANCE Qsbr WITH Nodes <- OneNode, WrapperCap <- 10,
                               MayExit <- TRUE

MCInit ==
    \/ mode = "empty" /\ Init
    \/ mode = "two" /\ Two!Init
    \/ mode = "three" /\ Three!Init
    \/ mode = "untimely" /\ Untimely!Init

MCNext ==
    /\ mode' = mode
    /\ \/ mode = "empty" /\ Next /\ TimelyStep
       \/ mode = "two" /\ Two!Next /\ Two!TimelyStep
       \/ mode = "three" /\ Three!Next /\ Three!TimelyStep
       \/ mode = "untimely" /\ Untimely!Next

FairMode ==
    /\ mode = "fair" /\ Init
    /\ [][Next /\ mode' = mode]_<<mode, vars>>
    /\ Fairness

MCSpec == MCInit /\ [][MCNext]_<<mode, vars>>

\* The nodes an instance leaves out stay free; a thread it leaves out refers to
\* nothing.
Promise ==
    INSTANCE Reclamation
      WITH Threads <- 0 .. 2, Nodes <- Nodes \cup OneNode,
           retired <- IF mode = "three" THEN Three!Retired ELSE Retired,
           free <- CASE mode = "three"    -> Three!Free \cup Nodes
                     [] mode = "untimely" -> Free \cup Nodes
                     [] OTHER             -> Free \cup OneNode,
           refs <- [t \in 0 .. 2 |->
                      IF mode \in {"two", "three"} /\ t \in DOMAIN held
                      THEN held[t] ELSE {}]

\* qsbr.c keeps the contract every scheme keeps: a retired node is freed once,
\* and when the run is timely no thread refers to it then.
TimelyRefinesReclamation == Promise!Spec
===============================================================================
