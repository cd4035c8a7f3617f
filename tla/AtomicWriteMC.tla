--------------------------- MODULE AtomicWriteMC ---------------------------
(***************************************************************************)
(* Small instances of AtomicWrite.                                         *)
(***************************************************************************)
EXTENDS AtomicWrite, TLC

BothModes == {"transaction", "data"}

Symmetry == Permutations(Calls) \cup Permutations(Sessions)
=============================================================================
