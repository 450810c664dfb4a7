------------------------------ MODULE MCRotation ------------------------------
(* Two instances of Rotation explored by one run; variant, chosen in the     *)
(* initial state and never changed, says which file of the source is meant:  *)
(* the constants give smr_membar_lazy.c, ByAge is smr_lazy.c.                *)
EXTENDS Rotation, TLC

VARIABLE variant

NodeSymmetry == Permutations(Nodes)

ByAge == INSTANCE Rotation WITH Aged <- TRUE, Inserters <- {}

MCInit == (variant = "barrier" /\ Init) \/ (variant = "age" /\ ByAge!Init)

MCNext ==
    /\ variant' = variant
    /\ (variant = "barrier" /\ Next) \/ (variant = "age" /\ ByAge!Next)

MCSpec == MCInit /\ [][MCNext]_<<variant, vars>>
===============================================================================
