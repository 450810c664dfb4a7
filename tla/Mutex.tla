--------------------------------- MODULE Mutex ---------------------------------
(***************************************************************************)
(* What the structures under src/src take LOCK, TRYLOCK and UNLOCK to be.  *)
(***************************************************************************)
CONSTANT Threads

VARIABLE holders    \* the threads between LOCK or TRYLOCK and UNLOCK

Init == holders = {}
Acquire(t) == holders = {} /\ holders' = {t}
Release(t) == holders = {t} /\ holders' = {}
Next == \E t \in Threads : Acquire(t) \/ Release(t)
NextOrSame == [Next]_holders
Spec == Init /\ [][Next]_holders
===============================================================================
