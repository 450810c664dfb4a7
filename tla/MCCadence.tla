------------------------------ MODULE MCCadence ------------------------------
(* Two instances of Cadence explored by one run; variant, chosen in the     *)
(* initial state and never changed, says which file of the source is meant: *)
(* the constants give smr_no_membar_opt.c, Plain is smr_no_membar.c.        *)
EXTENDS Cadence, TLC

VARIABLE variant

Plain == INSTANCE Cadence WITH R <- 1, BufferSize <- 2,
                               Opt <- FALSE, Bloom <- FALSE, PerOp <- FALSE

MCInit == (variant = "opt" /\ Init) \/ (variant = "plain" /\ Plain!Init)

MCNext ==
    /\ variant' = variant
    /\ (variant = "opt" /\ Next) \/ (variant = "plain" /\ Plain!Next)

MCSpec == MCInit /\ [][MCNext]_<<variant, vars>>
===============================================================================
