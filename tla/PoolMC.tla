------------------------------ MODULE PoolMC -------------------------------
(***************************************************************************)
(* Small instances of Pool.  A pool identity is free again when no task    *)
(* works with it, so one identity more than there are tasks is enough.     *)
(***************************************************************************)
EXTENDS Pool, TLC

(* Pools are not symmetric: a new pool is a CHOSEN one.                    *)
Symmetry == Permutations(Tasks)
=============================================================================
