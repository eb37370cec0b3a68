-------------------------- MODULE MC_PageConnection --------------------------
(* A small instance of PageConnection for TLC. *)
EXTENDS PageConnection

CONSTANTS r1, r2

\* No connection or attempt is needed beyond the bounds: every install takes one of each, and
\* the one fault at most two more attempts, one per runtime.
=============================================================================
