----------------------------- MODULE MC_Bridge -----------------------------
(* Small instances of Bridge for TLC. *)
EXTENDS Bridge, TLC

CONSTANTS r1, r2, t1, t2, up

ReadAll(n, r) == [id |-> n, kind |-> "read", runtime |-> r, target |-> None, status |-> None]
ReadOne(n, r, t) == [id |-> n, kind |-> "read", runtime |-> r, target |-> t, status |-> None]
Act(n, r) == [id |-> n, kind |-> "action", runtime |-> r, target |-> None, status |-> None]
Wait(n, r, t, v) == [id |-> n, kind |-> "wait", runtime |-> r, target |-> t, status |-> v]

\* Two runtimes whose connections are lost and replaced under commands and a wait.
ExchangeCalls == {Act(1, r1), Wait(2, r1, t1, up), Act(3, r2)}

\* One runtime read in full, read in part, and waited for.
CacheCalls == {ReadAll(1, r1), ReadOne(2, r1, t1), Wait(3, r1, t1, up)}

\* Streams and connection ids are interchangeable; runtimes and calls are not.
StreamSymmetry == {p @@ q : p \in Permutations(Streams), q \in Permutations(Connections)}

\* One call of each kind.
AnswerCalls == {ReadAll(1, r1), Act(2, r1), Wait(3, r1, t1, up)}

\* A wait for what a rendering server reports.
SyncCalls == {Wait(1, r1, t1, up)}

NoReports == {}

\* A rendering server that first lists its targets and later posts a snapshot.
OneTarget == [Nothing EXCEPT ![t1] = up]
SomeReports == {<<None, Targets>>, <<OneTarget, None>>}

\* A rendering server that reports every status of its target in turn.
EveryStatus == {<<[t \in Targets |-> v], Targets>> : v \in Statuses}
=============================================================================
