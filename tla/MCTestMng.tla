----------------------------- MODULE MCTestMng -----------------------------
(***************************************************************************)
(* TLC instances of TestMng.  Versions and threads are interchangeable:    *)
(* the safety runs use that symmetry, the liveness runs do not.            *)
(***************************************************************************)
EXTENDS TestMng, TLC

SlotSymmetry == Permutations(Versions) \cup Permutations(Threads)

=============================================================================
