-------------------------- MODULE MC_NetworkControl --------------------------
(* Small instances of NetworkControl for TLC. *)
EXTENDS NetworkControl

CONSTANTS t1

\* One request of each kind; MaxPaused lets one of them come.
EveryKind == {[id |-> 1, target |-> t1, kind |-> k] : k \in Kinds}
=============================================================================
