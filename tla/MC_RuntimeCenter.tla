-------------------------- MODULE MC_RuntimeCenter --------------------------
(* Small instances of RuntimeCenter for TLC. *)
EXTENDS RuntimeCenter

CONSTANTS t1, t2, loading, ready, d1, d2, a1

\* One wait names the data it wants, one does not; both are for the same target and status.
Ready(where) == [where |-> where, target |-> t1, status |-> ready]
TwoWaits == {[id |-> 1, condition |-> Ready({d1})], [id |-> 2, condition |-> Ready(Data)]}

\* Two runs of one action that is registered to require the data, or nothing.
TwoRuns == {[id |-> 1, action |-> a1], [id |-> 2, action |-> a1]}
WhenReady == {{Ready({d1})}}
OneRun == {[id |-> 1, action |-> a1]}
=============================================================================
