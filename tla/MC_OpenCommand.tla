---------------------------- MODULE MC_OpenCommand ----------------------------
(* A small instance of OpenCommand for TLC. *)
EXTENDS OpenCommand, TLC

CONSTANTS c1, c2, c3, d1, d2, s1, s2, k1, u1, u2, u3

Alike ==
  Permutations(Commands) \cup Permutations(Directories) \cup Permutations(Servers) \cup
    Permutations(Urls \ Taken)
=============================================================================
