----------------------------- MODULE MC_SelfUpdate -----------------------------
(* A small instance of SelfUpdate for TLC. *)
EXTENDS SelfUpdate, TLC

CONSTANTS p1, p2, p3

AnyProcess == Permutations(Processes)
=============================================================================
