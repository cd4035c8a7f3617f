---------------------------- MODULE MigrationMC ----------------------------
(***************************************************************************)
(* Small instances of Migration: m1 and m2 are two migrations, m3 is a     *)
(* different plan with the name of m1.                                     *)
(***************************************************************************)
EXTENDS Migration, TLC

CONSTANTS m1, m2, m3, n1, n2

TwoPlans == {m1, m2}
NameOfTwo == (m1 :> n1) @@ (m2 :> n2)
ThreePlans == {m1, m2, m3}
NameOfThree == NameOfTwo @@ (m3 :> n1)

Symmetry == Permutations(Calls)
=============================================================================
