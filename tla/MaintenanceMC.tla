--------------------------- MODULE MaintenanceMC ---------------------------
(***************************************************************************)
(* Small instances of Maintenance.  Plans p1 and p2 have the same name and *)
(* different targets.                                                      *)
(***************************************************************************)
EXTENDS Maintenance, TLC

CONSTANTS p1, p2, n1, o1, o2

OnePlan == {p1}
NameOfOne == p1 :> n1
TargetOfOne == p1 :> o1
TwoPlans == {p1, p2}
NameOfTwo == (p1 :> n1) @@ (p2 :> n1)
TargetOfTwo == (p1 :> o1) @@ (p2 :> o2)

ApplyOnly == {"apply"}

Symmetry == Permutations(Calls) \cup Permutations(Sessions)
=============================================================================
