--------------------------- MODULE Bridge_proofs ---------------------------
(***************************************************************************)
(* Proofs about Bridge, for every value of its constants.                  *)
(*                                                                         *)
(* One inductive invariant, IInv, carries the type invariant, StreamBound  *)
(* and PendingMatchesCallers; it is shown to be preserved conjunct by      *)
(* conjunct, one step per action.  The action properties, the invariant of *)
(* the remembered snapshot and the refinement of RemoteCall follow from it.*)
(***************************************************************************)
EXTENDS Bridge, TLAPS

\* What the invariants need beside themselves: a used stream has an owner, a call that
\* was not made has no request, only waits poll, and a response carries a verdict.
Bookkeeping ==
  /\ \A s \in Streams : stream[s] # "unused" => owner[s] \in Runtimes
  /\ \A c \in Calls :
       /\ phase[c] = "idle" => exchange[c] = "none"
       /\ phase[c] = "polling" => c.kind = "wait"
       /\ exchange[c] = "executed" => response[c].verdict # "none"

IInv == TypeOK /\ StreamBound /\ PendingMatchesCallers /\ Bookkeeping

\* The three handlers that make a call do one of two things.
Made(c) ==
  /\ phase[c] = "idle"
  /\ \/ status[c.runtime] = "connected" /\ SendRequest(c)
     \/ \E outcome \in Outcomes \cup {"polling"} :
          /\ outcome \in {"polling", "ok", "unmet"} => c.kind # "action"
          /\ outcome = "polling" => c.kind = "wait"
          /\ Answer(c, outcome)
  /\ UNCHANGED <<listening, streamVars, recordVars, cacheVars, page, response>>

-----------------------------------------------------------------------------
(* Lemmas about the operators *)

\* A call names one of the runtimes.
LEMMA CallFields ==
  ASSUME NEW c \in Calls
  PROVE  c.runtime \in Runtimes /\ c.kind \in {"read", "action", "wait"}
BY BridgeAssumption DEF Call

\* mergeSnapshots of a snapshot and a snapshot or nothing is a snapshot that has every
\* target of both.
LEMMA MergeKeeps ==
  ASSUME NEW first \in Snapshots \cup {None}, NEW second \in Snapshots \cup {None},
         first # None \/ second # None
  PROVE  /\ Merge(first, second) \in Snapshots
         /\ Merge(first, second) # None
         /\ \A t \in Targets : first # None /\ first[t] # Absent
                                 => Merge(first, second)[t] # Absent
         /\ \A t \in Targets : second # None /\ second[t] # Absent
                                 => Merge(first, second)[t] # Absent
<1>1. None \notin Snapshots
  BY BridgeAssumption
<1>2. CASE first = None
  BY <1>1, <1>2 DEF Merge
<1>3. CASE first # None /\ second = None
  BY <1>1, <1>3 DEF Merge
<1>4. CASE first # None /\ second # None
  <2>1. Merge(first, second)
          = [t \in Targets |-> IF second[t] # Absent THEN second[t] ELSE first[t]]
    BY <1>4 DEF Merge
  <2>2. first \in Snapshots /\ second \in Snapshots
    BY <1>4
  <2>3. Merge(first, second) \in Snapshots
    BY <2>1, <2>2 DEF Snapshots
  <2> QED
    BY <1>1, <2>1, <2>2, <2>3
<1> QED
  BY <1>2, <1>3, <1>4

\* requestConnectedRuntime sends the request or refuses the call.
LEMMA RequestOrRefuse ==
  ASSUME TypeOK, NEW c \in Calls, RequestConnectedRuntime(c)
  PROVE  \/ status[c.runtime] = "connected" /\ SendRequest(c)
         \/ \E outcome \in {"not_found", "disconnected", "server_only"} : Answer(c, outcome)
<1>1. CASE status[c.runtime] = "connected"
  BY <1>1 DEF RequestConnectedRuntime
<1>2. CASE status[c.runtime] # "connected"
  <2>1. status[c.runtime] \in {"absent", "server", "disconnected"}
    BY <1>2, CallFields DEF TypeOK
  <2>2. Refusal[status[c.runtime]] \in {"not_found", "disconnected", "server_only"}
    BY <2>1 DEF Refusal
  <2> QED
    BY <1>2, <2>2 DEF RequestConnectedRuntime
<1> QED
  BY <1>1, <1>2

LEMMA CallIsMade ==
  ASSUME TypeOK, NEW c \in Calls, Read(c) \/ RunAction(c) \/ WaitFor(c)
  PROVE  Made(c)
<1>1. CASE Read(c)
  BY <1>1, RequestOrRefuse DEF Read, Made, Outcomes
<1>2. CASE RunAction(c)
  BY <1>2, RequestOrRefuse DEF RunAction, Made, Outcomes
<1>3. CASE WaitFor(c)
  <2>1. \/ Answer(c, "ok")
        \/ Answer(c, "polling")
        \/ RequestConnectedRuntime(c)
    BY <1>3 DEF WaitFor
  <2> QED
    BY <1>3, <2>1, RequestOrRefuse DEF WaitFor, Made, Outcomes
<1> QED
  BY <1>1, <1>2, <1>3

-----------------------------------------------------------------------------
(* The inductive invariant *)

LEMMA InitIInv == Init => IInv
<1> SUFFICES ASSUME Init PROVE IInv
  OBVIOUS
<1>1. Nothing \in Snapshots /\ NoResponse.snapshot \in Snapshots
  BY DEF Nothing, NoResponse, Snapshots
<1>2. TypeOK
  <2>1. NoResponse \in [verdict : {"none", "ok", "unmet", "failed"}, snapshot : Snapshots]
    BY <1>1 DEF NoResponse
  <2> QED
    BY <1>1, <2>1 DEF Init, TypeOK, Phases
<1>3. StreamBound
  BY DEF Init, StreamBound
<1>4. PendingMatchesCallers
  BY CallFields DEF Init, PendingMatchesCallers, Awaiting
<1>5. Bookkeeping
  BY DEF Init, Bookkeeping
<1> QED
  BY <1>2, <1>3, <1>4, <1>5 DEF IInv

\* Every step keeps the types.
LEMMA TypeStep == IInv /\ [Next]_vars => TypeOK'
<1> SUFFICES ASSUME IInv, [Next]_vars PROVE TypeOK'
  OBVIOUS
<1> USE BridgeAssumption, CallFields DEF IInv, TypeOK, Phases, Outcomes,
         streamVars, recordVars, cacheVars, wireVars
<1>1. ASSUME NEW s \in Streams, NEW r \in Runtimes, NEW k \in Connections \cup {None},
            Connect(s, r, k)
     PROVE  TypeOK'
  BY <1>1
     DEF Connect, RecordConnection, Snapshots
<1>2. ASSUME NEW s \in Streams, StreamClosed(s) PROVE TypeOK'
  <2>1. owner[s] \in Runtimes
    BY <1>2 DEF StreamClosed, Bookkeeping
  <2>2. CASE IsCurrent(s)
    <3>1. /\ stream' = [stream EXCEPT ![s] = "closed"]
          /\ status' = [status EXCEPT ![owner[s]] = "disconnected"]
          /\ current' = [current EXCEPT ![owner[s]] = None]
          /\ pending' = [pending EXCEPT ![owner[s]] = {}]
          /\ phase' = [c \in Calls |-> IF c \in pending[owner[s]] THEN "disconnected" ELSE phase[c]]
      BY <1>2, <2>2 DEF StreamClosed, Disconnect
    <3>2. UNCHANGED <<listening, owner, presented, connectionId, cacheVars, page, wireVars>>
      BY <1>2, <2>2 DEF StreamClosed, Disconnect
    <3>3. phase' \in [Calls -> Phases]
      BY <3>1
    <3> QED
      BY <2>1, <3>1, <3>2, <3>3
  <2>3. CASE ~IsCurrent(s)
    BY <1>2, <2>3 DEF StreamClosed
  <2> QED
    BY <2>2, <2>3
<1>3. ASSUME NEW r \in Runtimes, NEW k \in Connections,
            DisconnectConnection(r, k)
     PROVE  TypeOK'
  BY <1>3
     DEF DisconnectConnection, Disconnect, ConnectionMatches, Snapshots
<1>4. CASE Close
  BY <1>4
     DEF Close, Snapshots
<1>5. ASSUME NEW c \in Calls, Made(c) PROVE TypeOK'
  <2>1. CASE SendRequest(c)
    BY <1>5, <2>1 DEF Made, SendRequest
  <2>2. ASSUME NEW outcome \in Outcomes \cup {"polling"}, Answer(c, outcome) PROVE TypeOK'
    BY <1>5, <2>2 DEF Made, Answer
  <2> QED
    BY <1>5, <2>1, <2>2 DEF Made
<1>6. ASSUME NEW c \in Calls, PollMatches(c) PROVE TypeOK'
  BY <1>6
     DEF PollMatches, Answer, Snapshots
<1>7. ASSUME NEW c \in Calls, PollDeadline(c) PROVE TypeOK'
  BY <1>7
     DEF PollDeadline, Answer, Snapshots
<1>8. ASSUME NEW c \in Calls, RequestTimeout(c) PROVE TypeOK'
  BY <1>8
     DEF RequestTimeout, Awaiting, Snapshots
<1>9. ASSUME NEW c \in Calls, HandleResponse(c) PROVE TypeOK'
  <2>1. response[c].verdict \in {"ok", "unmet", "failed"} /\ response[c].snapshot \in Snapshots
    BY <1>9 DEF HandleResponse, Bookkeeping
  <2>2. Merge(serverSnapshot[c.runtime], response[c].snapshot) \in Snapshots
    BY <2>1, MergeKeeps
  <2>3. snapshot' \in [Runtimes -> Snapshots \cup {None}]
    BY <1>9, <2>2 DEF HandleResponse, Remember
  <2>4. /\ phase' \in [Calls -> Phases]
        /\ pending' \in [Runtimes -> SUBSET Calls]
        /\ exchange' \in [Calls -> {"none", "sent", "executed", "consumed"}]
    <3>1. exchange' = [exchange EXCEPT ![c] = "consumed"]
      BY <1>9 DEF HandleResponse
    <3>2. CASE Awaiting(c)
      <4>1. /\ pending' = [pending EXCEPT ![c.runtime] = pending[c.runtime] \ {c}]
            /\ phase' = [phase EXCEPT ![c] = response[c].verdict]
        BY <1>9, <3>2 DEF HandleResponse
      <4>2. response[c].verdict \in Phases
        BY <2>1
      <4>3. phase' \in [Calls -> Phases]
        BY <4>1, <4>2
      <4>4. pending' \in [Runtimes -> SUBSET Calls]
        BY <4>1
      <4> QED
        BY <3>1, <4>3, <4>4
    <3>3. CASE ~Awaiting(c)
      BY <1>9, <3>1, <3>3 DEF HandleResponse
    <3> QED
      BY <3>2, <3>3
  <2>5. response' \in [Calls -> [verdict : {"none", "ok", "unmet", "failed"}, snapshot : Snapshots]]
    <3>1. NoResponse \in [verdict : {"none", "ok", "unmet", "failed"}, snapshot : Snapshots]
      BY DEF NoResponse, Nothing, Snapshots
    <3> QED
      BY <1>9, <3>1 DEF HandleResponse
  <2> QED
    BY <1>9, <2>3, <2>4, <2>5 DEF HandleResponse
<1>10. ASSUME NEW r \in Runtimes, NEW t \in Targets,
            NEW value \in Statuses \cup {Absent},
            PageUpdate(r, t, value)
     PROVE  TypeOK'
  BY <1>10
     DEF PageUpdate, Snapshots
<1>11. ASSUME NEW c \in Calls, NEW verdict \in {"ok", "unmet", "failed"},
            Execute(c, verdict)
     PROVE  TypeOK'
  <2>1. PageSnapshot(c) \in Snapshots /\ Nothing \in Snapshots
    BY DEF PageSnapshot, Nothing, Snapshots
  <2> QED
    BY <1>11, <2>1 DEF Execute
<1>12. ASSUME NEW r \in Runtimes, NEW report \in Reports,
            SyncServerRuntime(r, report[1], report[2])
     PROVE  TypeOK'
  <2>1. report[1] \in Snapshots \cup {None} /\ report[2] \in (SUBSET Targets) \cup {None}
    <3>1. report \in (Snapshots \cup {None}) \X ((SUBSET Targets) \cup {None})
      OBVIOUS
    <3> QED
      BY <3>1
  <2>2. snapshot[r] \in Snapshots \cup {None}
    OBVIOUS
  <2>3. Merge(report[1], snapshot[r]) \in Snapshots \cup {None}
    <3>1. CASE report[1] = None
      BY <2>2, <3>1 DEF Merge
    <3>2. CASE report[1] # None
      BY <2>1, <2>2, <3>2, MergeKeeps
    <3> QED
      BY <3>1, <3>2
  <2>4. status' \in [Runtimes -> {"absent", "connected", "server", "disconnected"}]
    BY <1>12 DEF SyncServerRuntime
  <2>5. serverSnapshot' \in [Runtimes -> Snapshots \cup {None}]
    BY <1>12, <2>1 DEF SyncServerRuntime
  <2>6. snapshot' \in [Runtimes -> Snapshots \cup {None}]
    BY <1>12, <2>3 DEF SyncServerRuntime
  <2>7. knownTargets' \in [Runtimes -> SUBSET Targets]
    <3> DEFINE known == IF report[2] = None THEN knownTargets[r] ELSE report[2]
    <3>1. known \in SUBSET Targets
      BY <2>1
    <3>2. knownTargets' = [knownTargets EXCEPT ![r] = known]
      BY <1>12 DEF SyncServerRuntime
    <3> HIDE DEF known
    <3> QED
      BY <3>1, <3>2
  <2> QED
    BY <1>12, <2>4, <2>5, <2>6, <2>7 DEF SyncServerRuntime
<1>13. CASE UNCHANGED vars
  BY <1>13
     DEF vars, streamVars, recordVars, cacheVars, wireVars, Snapshots
<1> QED
  BY <1>1, <1>2, <1>3, <1>4, <1>5, <1>6, <1>7, <1>8, <1>9, <1>10, <1>11, <1>12, <1>13, CallIsMade
     DEF Next, StreamStep, CallStep, PageStep, ServerStep

\* A stream is recorded for the runtime it was opened for, and only while it is open.
LEMMA StreamBoundStep == IInv /\ [Next]_vars => StreamBound'
<1> SUFFICES ASSUME IInv, [Next]_vars PROVE StreamBound'
  OBVIOUS
<1> USE CallFields DEF IInv, TypeOK, Bookkeeping, streamVars, recordVars, cacheVars, wireVars
<1>1. ASSUME NEW s \in Streams, NEW r \in Runtimes, NEW k \in Connections \cup {None},
            Connect(s, r, k)
     PROVE  StreamBound'
  <2> SUFFICES ASSUME NEW q \in Runtimes
                PROVE  /\ (status'[q] = "connected") <=> (current'[q] # None)
                       /\ current'[q] # None =>
                            /\ stream'[current'[q]] = "open"
                            /\ owner'[current'[q]] = q
                            /\ presented'[current'[q]] \in {None, connectionId'[q]}
    BY DEF StreamBound
  <2>1. CASE q = r
    BY <1>1, <2>1, BridgeAssumption DEF Connect, RecordConnection
  <2>2. CASE q # r
    <3>1. current[q] # s
      BY <1>1, BridgeAssumption DEF Connect, StreamBound
    <3> QED
      BY <1>1, <2>2, <3>1 DEF Connect, RecordConnection, StreamBound
  <2> QED
    BY <2>1, <2>2
<1>2. ASSUME NEW s \in Streams, StreamClosed(s) PROVE StreamBound'
  BY <1>2
     DEF StreamClosed, Disconnect, IsCurrent, StreamBound
<1>3. ASSUME NEW r \in Runtimes, NEW k \in Connections,
            DisconnectConnection(r, k)
     PROVE  StreamBound'
  BY <1>3
     DEF DisconnectConnection, Disconnect, ConnectionMatches, StreamBound
<1>4. CASE Close
  BY <1>4
     DEF Close, StreamBound
<1>5. ASSUME NEW c \in Calls, Made(c) PROVE StreamBound'
  BY <1>5
     DEF Made, Answer, SendRequest, StreamBound
<1>6. ASSUME NEW c \in Calls, PollMatches(c) PROVE StreamBound'
  BY <1>6
     DEF PollMatches, Answer, StreamBound
<1>7. ASSUME NEW c \in Calls, PollDeadline(c) PROVE StreamBound'
  BY <1>7
     DEF PollDeadline, Answer, StreamBound
<1>8. ASSUME NEW c \in Calls, RequestTimeout(c) PROVE StreamBound'
  BY <1>8
     DEF RequestTimeout, Awaiting, StreamBound
<1>9. ASSUME NEW c \in Calls, HandleResponse(c) PROVE StreamBound'
  BY <1>9
     DEF HandleResponse, Awaiting, Remember, StreamBound
<1>10. ASSUME NEW r \in Runtimes, NEW t \in Targets,
            NEW value \in Statuses \cup {Absent},
            PageUpdate(r, t, value)
     PROVE  StreamBound'
  BY <1>10
     DEF PageUpdate, StreamBound
<1>11. ASSUME NEW c \in Calls, NEW verdict \in {"ok", "unmet", "failed"},
            Execute(c, verdict)
     PROVE  StreamBound'
  BY <1>11
     DEF Execute, StreamBound
<1>12. ASSUME NEW r \in Runtimes, NEW report \in Reports,
            SyncServerRuntime(r, report[1], report[2])
     PROVE  StreamBound'
  BY <1>12
     DEF SyncServerRuntime, StreamBound
<1>13. CASE UNCHANGED vars
  BY <1>13
     DEF vars, streamVars, recordVars, cacheVars, wireVars, StreamBound
<1> QED
  BY <1>1, <1>2, <1>3, <1>4, <1>5, <1>6, <1>7, <1>8, <1>9, <1>10, <1>11, <1>12, <1>13, CallIsMade
     DEF Next, StreamStep, CallStep, PageStep, ServerStep

\* Handlers suspend and resume together with their entry in the pending map.
LEMMA PendingStep == IInv /\ [Next]_vars => PendingMatchesCallers'
<1> SUFFICES ASSUME IInv, [Next]_vars PROVE PendingMatchesCallers'
  OBVIOUS
<1> USE CallFields DEF IInv, TypeOK, Phases, Outcomes, streamVars, recordVars, cacheVars, wireVars
<1>1. ASSUME NEW s \in Streams, NEW r \in Runtimes, NEW k \in Connections \cup {None},
            Connect(s, r, k)
     PROVE  PendingMatchesCallers'
  <2>1. \A q \in Runtimes : current[q] # None => current'[q] # None
    BY <1>1, BridgeAssumption DEF Connect, RecordConnection
  <2> QED
    BY <1>1, <2>1 DEF Connect, PendingMatchesCallers, Awaiting
<1>2. ASSUME NEW s \in Streams, StreamClosed(s) PROVE PendingMatchesCallers'
  <2>1. CASE IsCurrent(s)
    <3>1. owner[s] \in Runtimes
      BY <1>2 DEF StreamClosed, Bookkeeping
    <3>2. phase' = [c \in Calls |-> IF c \in pending[owner[s]] THEN "disconnected" ELSE phase[c]]
      BY <1>2, <2>1 DEF StreamClosed, Disconnect
    <3>3. /\ pending' = [pending EXCEPT ![owner[s]] = {}]
          /\ current' = [current EXCEPT ![owner[s]] = None]
          /\ exchange' = exchange
      BY <1>2, <2>1 DEF StreamClosed, Disconnect
    <3> QED
      BY <3>1, <3>2, <3>3 DEF PendingMatchesCallers, Awaiting
  <2>2. CASE ~IsCurrent(s)
    BY <1>2, <2>2 DEF StreamClosed, PendingMatchesCallers, Awaiting
  <2> QED
    BY <2>1, <2>2
<1>3. ASSUME NEW r \in Runtimes, NEW k \in Connections,
            DisconnectConnection(r, k)
     PROVE  PendingMatchesCallers'
  BY <1>3
     DEF DisconnectConnection, Disconnect, ConnectionMatches, PendingMatchesCallers,
         StreamBound, Awaiting
<1>4. CASE Close
  BY <1>4
     DEF Close, PendingMatchesCallers, StreamBound, Awaiting
<1>5. ASSUME NEW c \in Calls, Made(c) PROVE PendingMatchesCallers'
  <2>1. c \notin pending[c.runtime]
    BY <1>5 DEF Made, PendingMatchesCallers, Awaiting
  <2>2. CASE status[c.runtime] = "connected" /\ SendRequest(c)
    BY <1>5, <2>2 DEF Made, SendRequest, PendingMatchesCallers, StreamBound, Awaiting
  <2>3. ASSUME NEW outcome \in Outcomes \cup {"polling"}, Answer(c, outcome)
        PROVE  PendingMatchesCallers'
    BY <1>5, <2>1, <2>3 DEF Made, Answer, PendingMatchesCallers, Awaiting
  <2> QED
    BY <1>5, <2>2, <2>3 DEF Made
<1>6. ASSUME NEW c \in Calls, PollMatches(c) PROVE PendingMatchesCallers'
  BY <1>6
     DEF PollMatches, Answer, PendingMatchesCallers, StreamBound, Awaiting
<1>7. ASSUME NEW c \in Calls, PollDeadline(c) PROVE PendingMatchesCallers'
  BY <1>7
     DEF PollDeadline, Answer, PendingMatchesCallers, StreamBound, Awaiting
<1>8. ASSUME NEW c \in Calls, RequestTimeout(c) PROVE PendingMatchesCallers'
  BY <1>8
     DEF RequestTimeout, Awaiting, PendingMatchesCallers, StreamBound, Awaiting
<1>9. ASSUME NEW c \in Calls, HandleResponse(c) PROVE PendingMatchesCallers'
  <2>1. CASE Awaiting(c)
    <3>1. response[c].verdict # "awaiting"
      OBVIOUS
    <3>2. /\ pending' = [pending EXCEPT ![c.runtime] = pending[c.runtime] \ {c}]
          /\ phase' = [phase EXCEPT ![c] = response[c].verdict]
          /\ exchange' = [exchange EXCEPT ![c] = "consumed"]
          /\ current' = current
      BY <1>9, <2>1 DEF HandleResponse
    <3> QED
      BY <3>1, <3>2 DEF PendingMatchesCallers, Awaiting
  <2>2. CASE ~Awaiting(c)
    BY <1>9, <2>2 DEF HandleResponse, PendingMatchesCallers, Awaiting
  <2> QED
    BY <2>1, <2>2
<1>10. ASSUME NEW r \in Runtimes, NEW t \in Targets,
            NEW value \in Statuses \cup {Absent},
            PageUpdate(r, t, value)
     PROVE  PendingMatchesCallers'
  BY <1>10
     DEF PageUpdate, PendingMatchesCallers, StreamBound, Awaiting
<1>11. ASSUME NEW c \in Calls, NEW verdict \in {"ok", "unmet", "failed"},
            Execute(c, verdict)
     PROVE  PendingMatchesCallers'
  BY <1>11
     DEF Execute, PendingMatchesCallers, StreamBound, Awaiting
<1>12. ASSUME NEW r \in Runtimes, NEW report \in Reports,
            SyncServerRuntime(r, report[1], report[2])
     PROVE  PendingMatchesCallers'
  BY <1>12
     DEF SyncServerRuntime, PendingMatchesCallers, StreamBound, Awaiting
<1>13. CASE UNCHANGED vars
  BY <1>13
     DEF vars, streamVars, recordVars, cacheVars, wireVars, PendingMatchesCallers,
         StreamBound, Awaiting
<1> QED
  BY <1>1, <1>2, <1>3, <1>4, <1>5, <1>6, <1>7, <1>8, <1>9, <1>10, <1>11, <1>12, <1>13, CallIsMade
     DEF Next, StreamStep, CallStep, PageStep, ServerStep

\* The supporting facts.
LEMMA BookkeepingStep == IInv /\ [Next]_vars => Bookkeeping'
<1> SUFFICES ASSUME IInv, [Next]_vars PROVE Bookkeeping'
  OBVIOUS
<1> USE CallFields DEF IInv, TypeOK, Phases, Outcomes, streamVars, recordVars, cacheVars, wireVars
<1>1. ASSUME NEW s \in Streams, NEW r \in Runtimes, NEW k \in Connections \cup {None},
            Connect(s, r, k)
     PROVE  Bookkeeping'
  BY <1>1
     DEF Connect, RecordConnection, Bookkeeping, PendingMatchesCallers, StreamBound,
         Awaiting
<1>2. ASSUME NEW s \in Streams, StreamClosed(s) PROVE Bookkeeping'
  BY <1>2
     DEF StreamClosed, Disconnect, IsCurrent, Bookkeeping, PendingMatchesCallers,
         StreamBound, Awaiting
<1>3. ASSUME NEW r \in Runtimes, NEW k \in Connections,
            DisconnectConnection(r, k)
     PROVE  Bookkeeping'
  BY <1>3
     DEF DisconnectConnection, Disconnect, ConnectionMatches, Bookkeeping,
         PendingMatchesCallers, StreamBound, Awaiting
<1>4. CASE Close
  <2>1. \A r \in Runtimes : current[r] \in Streams => owner[current[r]] \in Runtimes
    BY BridgeAssumption DEF StreamBound
  <2>2. \A s \in Streams : stream'[s] # "unused" => owner[s] \in Runtimes
    BY <1>4, <2>1 DEF Close, Bookkeeping
  <2>3. \A c \in Calls : phase'[c] \in {phase[c], "disconnected"}
    BY <1>4 DEF Close
  <2> QED
    BY <1>4, <2>2, <2>3 DEF Close, Bookkeeping
<1>5. ASSUME NEW c \in Calls, Made(c) PROVE Bookkeeping'
  BY <1>5
     DEF Made, Answer, SendRequest, Bookkeeping, PendingMatchesCallers, StreamBound,
         Awaiting
<1>6. ASSUME NEW c \in Calls, PollMatches(c) PROVE Bookkeeping'
  BY <1>6
     DEF PollMatches, Answer, Bookkeeping, PendingMatchesCallers, StreamBound, Awaiting
<1>7. ASSUME NEW c \in Calls, PollDeadline(c) PROVE Bookkeeping'
  BY <1>7
     DEF PollDeadline, Answer, Bookkeeping, PendingMatchesCallers, StreamBound, Awaiting
<1>8. ASSUME NEW c \in Calls, RequestTimeout(c) PROVE Bookkeeping'
  BY <1>8
     DEF RequestTimeout, Awaiting, Bookkeeping, PendingMatchesCallers, StreamBound,
         Awaiting
<1>9. ASSUME NEW c \in Calls, HandleResponse(c) PROVE Bookkeeping'
  BY <1>9
     DEF HandleResponse, Awaiting, Remember, Bookkeeping, PendingMatchesCallers,
         StreamBound, Awaiting
<1>10. ASSUME NEW r \in Runtimes, NEW t \in Targets,
            NEW value \in Statuses \cup {Absent},
            PageUpdate(r, t, value)
     PROVE  Bookkeeping'
  BY <1>10
     DEF PageUpdate, Bookkeeping, PendingMatchesCallers, StreamBound, Awaiting
<1>11. ASSUME NEW c \in Calls, NEW verdict \in {"ok", "unmet", "failed"},
            Execute(c, verdict)
     PROVE  Bookkeeping'
  BY <1>11
     DEF Execute, Bookkeeping, PendingMatchesCallers, StreamBound, Awaiting
<1>12. ASSUME NEW r \in Runtimes, NEW report \in Reports,
            SyncServerRuntime(r, report[1], report[2])
     PROVE  Bookkeeping'
  BY <1>12
     DEF SyncServerRuntime, Bookkeeping, PendingMatchesCallers, StreamBound, Awaiting
<1>13. CASE UNCHANGED vars
  BY <1>13
     DEF vars, streamVars, recordVars, cacheVars, wireVars, Bookkeeping,
         PendingMatchesCallers, StreamBound, Awaiting
<1> QED
  BY <1>1, <1>2, <1>3, <1>4, <1>5, <1>6, <1>7, <1>8, <1>9, <1>10, <1>11, <1>12, <1>13, CallIsMade
     DEF Next, StreamStep, CallStep, PageStep, ServerStep

LEMMA Inductive == Spec => []IInv
<1>1. IInv /\ [Next]_vars => IInv'
  BY TypeStep, StreamBoundStep, PendingStep, BookkeepingStep DEF IInv
<1> QED
  BY <1>1, InitIInv, PTL DEF Spec

-----------------------------------------------------------------------------
(* The theorems *)

\* Every variable keeps its type: the verdict of a response is the outcome of its call.
THEOREM TypeCorrect == Spec => []TypeOK
<1>1. IInv => TypeOK
  BY DEF IInv
<1> QED
  BY <1>1, Inductive, PTL

\* The bridge writes requests only on an open stream of the runtime they are for.
THEOREM StreamsAreBound == Spec => []StreamBound
<1>1. IInv => StreamBound
  BY DEF IInv
<1> QED
  BY <1>1, Inductive, PTL

\* No caller is suspended without an entry in the pending map, and no entry is left behind.
THEOREM NoCallerIsForgotten == Spec => []PendingMatchesCallers
<1>1. IInv => PendingMatchesCallers
  BY DEF IInv
<1> QED
  BY <1>1, Inductive, PTL

\* Only the end of its own stream disconnects a runtime.
THEOREM OnlyOwnStreamDisconnects == Spec => OwnStreamOnly
<1>1. ASSUME IInv, [Next]_vars, NEW r \in Runtimes, current[r] # None, current'[r] = None
      PROVE  stream'[current[r]] # "open"
  <2> USE <1>1, BridgeAssumption DEF IInv, TypeOK, streamVars, recordVars
  <2>1. current[r] \in Streams /\ owner[current[r]] = r
    BY DEF StreamBound
  <2>2. ASSUME NEW s \in Streams, NEW q \in Runtimes, NEW k \in Connections \cup {None},
               Connect(s, q, k)
        PROVE  FALSE
    BY <2>2 DEF Connect, RecordConnection
  <2>3. ASSUME NEW s \in Streams, StreamClosed(s) PROVE stream'[current[r]] # "open"
    <3>1. CASE IsCurrent(s)
      <4>1. current' = [current EXCEPT ![owner[s]] = None] /\ owner[s] \in Runtimes
        BY <2>3, <3>1 DEF StreamClosed, Disconnect, Bookkeeping
      <4>2. owner[s] = r
        BY <4>1
      <4> QED
        BY <2>3, <3>1, <4>2 DEF StreamClosed, IsCurrent
    <3>2. CASE ~IsCurrent(s)
      BY <2>3, <3>2 DEF StreamClosed
    <3> QED
      BY <3>1, <3>2
  <2>4. ASSUME NEW q \in Runtimes, NEW k \in Connections, DisconnectConnection(q, k)
        PROVE  stream'[current[r]] # "open"
    <3>1. q = r
      BY <2>4 DEF DisconnectConnection, Disconnect
    <3> QED
      BY <2>1, <2>4, <3>1 DEF DisconnectConnection
  <2>5. CASE Close
    BY <2>1, <2>5 DEF Close
  <2>6. ASSUME UNCHANGED current PROVE FALSE
    BY <2>6
  <2> QED
    BY <2>2, <2>3, <2>4, <2>5, <2>6, CallIsMade
       DEF Next, StreamStep, CallStep, PageStep, ServerStep, vars, Made, PollMatches,
           PollDeadline, RequestTimeout, HandleResponse, PageUpdate, Execute, SyncServerRuntime
<1>2. IInv /\ [Next]_vars
        => [\A r \in Runtimes :
              current[r] # None /\ current'[r] = None => stream'[current[r]] # "open"]_vars
  BY <1>1
<1> QED
  BY <1>2, Inductive, PTL DEF Spec, OwnStreamOnly

\* A suspended caller hears "disconnected" only of the runtime it asked.
THEOREM DisconnectsAreHonest == Spec => DisconnectBlamesOwnRuntime
<1>1. ASSUME IInv, [Next]_vars, NEW c \in Calls, phase[c] = "awaiting", phase'[c] = "disconnected"
      PROVE  status[c.runtime] = "connected" /\ status'[c.runtime] = "disconnected"
  <2> USE <1>1, CallFields DEF IInv, TypeOK
  <2>1. c \in pending[c.runtime] /\ status[c.runtime] = "connected"
    BY DEF PendingMatchesCallers, StreamBound, Awaiting
  <2>2. ASSUME NEW s \in Streams, StreamClosed(s) PROVE status'[c.runtime] = "disconnected"
    <3>1. IsCurrent(s)
      BY <2>2 DEF StreamClosed
    <3>2. /\ status' = [status EXCEPT ![owner[s]] = "disconnected"]
          /\ phase' = [d \in Calls |-> IF d \in pending[owner[s]] THEN "disconnected" ELSE phase[d]]
          /\ owner[s] \in Runtimes
      BY <2>2, <3>1 DEF StreamClosed, Disconnect, Bookkeeping
    <3>3. c \in pending[owner[s]]
      BY <3>2
    <3>4. c.runtime = owner[s]
      BY <3>2, <3>3 DEF PendingMatchesCallers
    <3> QED
      BY <3>2, <3>4
  <2>3. ASSUME NEW r \in Runtimes, NEW k \in Connections, DisconnectConnection(r, k)
        PROVE  status'[c.runtime] = "disconnected"
    <3>1. c \in pending[r]
      BY <2>3 DEF DisconnectConnection, Disconnect
    <3>2. c.runtime = r
      BY <3>1 DEF PendingMatchesCallers
    <3> QED
      BY <2>3, <3>2 DEF DisconnectConnection, Disconnect
  <2>4. CASE Close
    BY <2>1, <2>4 DEF Close
  <2>5. ASSUME NEW d \in Calls, Made(d) \/ PollMatches(d) \/ PollDeadline(d) \/ RequestTimeout(d)
        PROVE  FALSE
    BY <2>5 DEF Made, Answer, SendRequest, PollMatches, PollDeadline, RequestTimeout
  <2>6. ASSUME NEW d \in Calls, HandleResponse(d) PROVE FALSE
    <3>1. \/ UNCHANGED phase
          \/ phase' = [phase EXCEPT ![d] = response[d].verdict]
      BY <2>6 DEF HandleResponse
    <3>2. response[d].verdict \notin {"awaiting", "disconnected"}
      OBVIOUS
    <3> QED
      BY <3>1, <3>2
  <2>7. ASSUME UNCHANGED phase PROVE FALSE
    BY <2>7
  <2> QED
    BY <2>1, <2>2, <2>3, <2>4, <2>5, <2>6, <2>7, CallIsMade
       DEF Next, StreamStep, CallStep, PageStep, ServerStep, vars, Connect, PageUpdate,
           Execute, SyncServerRuntime
<1>2. IInv /\ [Next]_vars
        => [\A c \in Calls :
              phase[c] = "awaiting" /\ phase'[c] = "disconnected" =>
                status[c.runtime] = "connected" /\ status'[c.runtime] = "disconnected"]_vars
  BY <1>1
<1> QED
  BY <1>2, Inductive, PTL DEF Spec, DisconnectBlamesOwnRuntime

\* What the rendering server reported is never forgotten, whatever pages answer.
THEOREM ServerTargetsAreKept == Spec => []ServerTargetsKept
<1>1. Init => ServerTargetsKept
  BY DEF Init, ServerTargetsKept
<1>2. ASSUME IInv, ServerTargetsKept, [Next]_vars PROVE ServerTargetsKept'
  <2> USE <1>2, BridgeAssumption DEF IInv, TypeOK
  <2>1. ASSUME NEW c \in Calls, HandleResponse(c) PROVE ServerTargetsKept'
    <3>1. response[c].snapshot \in Snapshots /\ response[c].snapshot # None
      BY <2>1
    <3>2. CASE snapshot' = snapshot
      BY <2>1, <3>2 DEF HandleResponse, ServerTargetsKept
    <3>3. CASE Remember(c.runtime, response[c].snapshot)
      BY <2>1, <3>1, <3>3, MergeKeeps, CallFields DEF HandleResponse, Remember, ServerTargetsKept
    <3> QED
      BY <2>1, <3>2, <3>3 DEF HandleResponse
  <2>2. ASSUME NEW r \in Runtimes, NEW report \in Reports,
               SyncServerRuntime(r, report[1], report[2])
        PROVE  ServerTargetsKept'
    <3>1. report[1] \in Snapshots \cup {None}
      OBVIOUS
    <3>2. CASE report[1] = None
      <4>1. Merge(report[1], snapshot[r]) = snapshot[r]
        BY <3>2 DEF Merge
      <4> QED
        BY <2>2, <3>2, <4>1 DEF SyncServerRuntime, ServerTargetsKept
    <3>3. CASE report[1] # None
      BY <2>2, <3>1, <3>3, MergeKeeps DEF SyncServerRuntime, ServerTargetsKept
    <3> QED
      BY <3>2, <3>3
  <2>3. ASSUME UNCHANGED <<snapshot, serverSnapshot>> PROVE ServerTargetsKept'
    BY <2>3 DEF ServerTargetsKept
  <2> QED
    BY <2>1, <2>2, <2>3, CallIsMade
       DEF Next, StreamStep, CallStep, PageStep, ServerStep, vars, cacheVars, Connect,
           StreamClosed, DisconnectConnection, Close, Made, PollMatches, PollDeadline,
           RequestTimeout, PageUpdate, Execute
<1> QED
  BY <1>1, <1>2, Inductive, PTL DEF Spec

-----------------------------------------------------------------------------
(* The bridge implements RemoteCall (the part of it that is safety) *)

\* The refinement mapping: what a phase of a call is to its caller.
ToCaller(outcome) ==
  CASE outcome = "idle" -> "unasked"
    [] outcome \in {"awaiting", "polling"} -> "open"
    [] outcome \in {"ok", "unmet"} -> "ok"
    [] OTHER -> "error"

RunsOf(state) == IF state \in {"executed", "consumed"} THEN 1 ELSE 0

AnswerOf == [c \in Calls |-> ToCaller(phase[c])]
RunCount == [c \in Calls |-> RunsOf(exchange[c])]
IsQuery == [c \in Calls |-> c.kind # "action"]

\* When one phase changes, one answer changes.
LEMMA AnswerMoves ==
  ASSUME TypeOK, NEW c \in Calls, NEW outcome, phase' = [phase EXCEPT ![c] = outcome]
  PROVE  AnswerOf' = [AnswerOf EXCEPT ![c] = ToCaller(outcome)]
BY DEF TypeOK, AnswerOf

LEMMA RunsMove ==
  ASSUME TypeOK, NEW c \in Calls, NEW state, exchange' = [exchange EXCEPT ![c] = state],
         RunsOf(state) = RunsOf(exchange[c])
  PROVE  RunCount' = RunCount
BY DEF TypeOK, RunCount

\* The steps of RemoteCall, on the mapped state.
LEMMA AskMaps ==
  ASSUME NEW c \in Calls, AnswerOf[c] = "unasked", RunCount' = RunCount,
         AnswerOf' = [AnswerOf EXCEPT ![c] = "open"]
  PROVE  Abstract!Next
BY DEF AnswerOf, RunCount, ToCaller, RunsOf, Abstract!Next, Abstract!Ask

LEMMA AnswerAtOnceMaps ==
  ASSUME NEW c \in Calls, AnswerOf[c] = "unasked", RunCount' = RunCount,
         \/ AnswerOf' = [AnswerOf EXCEPT ![c] = "error"]
         \/ c.kind # "action" /\ AnswerOf' = [AnswerOf EXCEPT ![c] = "ok"]
  PROVE  Abstract!Next
BY DEF AnswerOf, RunCount, ToCaller, RunsOf, Abstract!Next, Abstract!AnswerAtOnce

LEMMA SucceedMaps ==
  ASSUME NEW c \in Calls, AnswerOf[c] = "open", RunCount[c] = 1 \/ c.kind # "action",
         AnswerOf' = [AnswerOf EXCEPT ![c] = "ok"], RunCount' = RunCount
  PROVE  Abstract!Next
BY DEF AnswerOf, RunCount, ToCaller, RunsOf, Abstract!Next, Abstract!Succeed

LEMMA RunMaps ==
  ASSUME NEW c \in Calls, AnswerOf[c] # "unasked", RunCount[c] = 0, AnswerOf' = AnswerOf,
         RunCount' = [RunCount EXCEPT ![c] = 1]
  PROVE  Abstract!Next
BY DEF AnswerOf, RunCount, ToCaller, RunsOf, Abstract!Next, Abstract!Run

LEMMA FailMaps ==
  ASSUME NEW C \in SUBSET Calls, \A c \in C : AnswerOf[c] = "open", RunCount' = RunCount,
         AnswerOf' = [c \in Calls |-> IF c \in C THEN "error" ELSE AnswerOf[c]]
  PROVE  Abstract!Next
BY DEF AnswerOf, RunCount, ToCaller, RunsOf, Abstract!Next, Abstract!Fail

LEMMA FailOneMaps ==
  ASSUME NEW c \in Calls, AnswerOf[c] = "open", RunCount' = RunCount,
         AnswerOf' = [AnswerOf EXCEPT ![c] = "error"]
  PROVE  Abstract!Next
<1> DEFINE C == {c}
<1>1. C \in SUBSET Calls /\ \A d \in C : AnswerOf[d] = "open"
  OBVIOUS
<1>2. AnswerOf' = [d \in Calls |-> IF d \in C THEN "error" ELSE AnswerOf[d]]
  BY DEF AnswerOf
<1> HIDE DEF C
<1> QED
  BY <1>1, <1>2, FailMaps

LEMMA StutterMaps ==
  ASSUME AnswerOf' = AnswerOf, RunCount' = RunCount
  PROVE  UNCHANGED Abstract!vars
BY DEF AnswerOf, RunCount, ToCaller, RunsOf, Abstract!vars

\* The calls that a lost connection rejects were open, and fail together.
LEMMA RejectionMaps ==
  ASSUME IInv, NEW C \in SUBSET Calls, \A c \in C : Awaiting(c), UNCHANGED exchange,
         phase' = [c \in Calls |-> IF c \in C THEN "disconnected" ELSE phase[c]]
  PROVE  Abstract!Next
<1>1. \A c \in C : AnswerOf[c] = "open"
  BY DEF IInv, PendingMatchesCallers, AnswerOf, ToCaller
<1>2. AnswerOf' = [c \in Calls |-> IF c \in C THEN "error" ELSE AnswerOf[c]]
  BY DEF AnswerOf, ToCaller
<1>3. RunCount' = RunCount
  BY DEF RunCount
<1> QED
  BY <1>1, <1>2, <1>3, FailMaps

\* Making a call asks, refuses, or answers a query from memory.
LEMMA MadeMaps ==
  ASSUME IInv, NEW c \in Calls, Made(c)
  PROVE  Abstract!Next
<1>1. AnswerOf[c] = "unasked" /\ TypeOK
  BY DEF Made, AnswerOf, ToCaller, IInv
<1>2. CASE SendRequest(c)
  <2>1. AnswerOf' = [AnswerOf EXCEPT ![c] = "open"]
    BY <1>1, <1>2, AnswerMoves DEF SendRequest, ToCaller
  <2>2. exchange[c] = "none"
    BY DEF Made, IInv, Bookkeeping
  <2>3. RunCount' = RunCount
    BY <1>1, <1>2, <2>2, RunsMove DEF SendRequest, RunsOf
  <2> QED
    BY <1>1, <2>1, <2>3, AskMaps
<1>3. ASSUME NEW outcome \in Outcomes \cup {"polling"}, Answer(c, outcome),
             outcome \in {"polling", "ok", "unmet"} => c.kind # "action"
      PROVE  Abstract!Next
  <2>1. AnswerOf' = [AnswerOf EXCEPT ![c] = ToCaller(outcome)] /\ RunCount' = RunCount
    BY <1>1, <1>3, AnswerMoves DEF Answer, RunCount
  <2>2. CASE outcome = "polling"
    BY <1>1, <2>1, <2>2, AskMaps DEF ToCaller
  <2>3. CASE outcome \in {"ok", "unmet"}
    BY <1>1, <1>3, <2>1, <2>3, AnswerAtOnceMaps DEF ToCaller
  <2>4. CASE outcome \notin {"polling", "ok", "unmet"}
    <3>1. ToCaller(outcome) = "error"
      BY <2>4 DEF ToCaller, Outcomes
    <3> QED
      BY <1>1, <2>1, <3>1, AnswerAtOnceMaps
  <2> QED
    BY <2>2, <2>3, <2>4
<1> QED
  BY <1>2, <1>3 DEF Made

\* A response settles the call it answers, or is thrown away.
LEMMA ResponseMaps ==
  ASSUME IInv, NEW c \in Calls, HandleResponse(c)
  PROVE  Abstract!Next \/ UNCHANGED Abstract!vars
<1> USE DEF IInv, TypeOK
<1>1. RunCount' = RunCount /\ RunCount[c] = 1
  <2>1. exchange[c] = "executed" /\ exchange' = [exchange EXCEPT ![c] = "consumed"]
    BY DEF HandleResponse
  <2>2. RunsOf(exchange[c]) = 1 /\ RunsOf("consumed") = 1
    BY <2>1 DEF RunsOf
  <2> QED
    BY <2>1, <2>2, RunsMove DEF RunCount
<1>2. CASE Awaiting(c)
  <2>1. phase' = [phase EXCEPT ![c] = response[c].verdict]
    BY <1>2 DEF HandleResponse
  <2>2. AnswerOf[c] = "open"
    BY <1>2 DEF PendingMatchesCallers, AnswerOf, ToCaller
  <2>3. AnswerOf' = [AnswerOf EXCEPT ![c] = ToCaller(response[c].verdict)]
    BY <2>1, AnswerMoves
  <2>4. response[c].verdict \in {"ok", "unmet", "failed"}
    BY DEF HandleResponse, Bookkeeping
  <2>5. CASE response[c].verdict \in {"ok", "unmet"}
    BY <1>1, <2>2, <2>3, <2>5, SucceedMaps DEF ToCaller
  <2>6. CASE response[c].verdict = "failed"
    BY <1>1, <2>2, <2>3, <2>6, FailOneMaps DEF ToCaller
  <2> QED
    BY <2>4, <2>5, <2>6
<1>3. CASE ~Awaiting(c)
  BY <1>1, <1>3, StutterMaps DEF HandleResponse, AnswerOf
<1> QED
  BY <1>2, <1>3

LEMMA StepMaps == IInv /\ [Next]_vars => [Abstract!Next]_(Abstract!vars)
<1> SUFFICES ASSUME IInv, [Next]_vars PROVE Abstract!Next \/ UNCHANGED Abstract!vars
  OBVIOUS
<1> USE CallFields DEF IInv, TypeOK
<1>1. ASSUME NEW s \in Streams, StreamClosed(s) PROVE Abstract!Next \/ UNCHANGED Abstract!vars
  <2>1. CASE IsCurrent(s)
    <3>1. owner[s] \in Runtimes /\ UNCHANGED exchange
      BY <1>1 DEF StreamClosed, Bookkeeping, wireVars
    <3>2. phase' = [c \in Calls |-> IF c \in pending[owner[s]] THEN "disconnected" ELSE phase[c]]
      BY <1>1, <2>1 DEF StreamClosed, Disconnect
    <3>3. pending[owner[s]] \in SUBSET Calls /\ \A c \in pending[owner[s]] : Awaiting(c)
      BY <3>1 DEF PendingMatchesCallers, Awaiting
    <3> QED
      BY <3>1, <3>2, <3>3, RejectionMaps
  <2>2. CASE ~IsCurrent(s)
    BY <1>1, <2>2, StutterMaps DEF StreamClosed, wireVars, AnswerOf, RunCount
  <2> QED
    BY <2>1, <2>2
<1>2. ASSUME NEW r \in Runtimes, NEW k \in Connections, DisconnectConnection(r, k)
      PROVE  Abstract!Next
  <2>1. /\ UNCHANGED exchange
        /\ phase' = [c \in Calls |-> IF c \in pending[r] THEN "disconnected" ELSE phase[c]]
    BY <1>2 DEF DisconnectConnection, Disconnect, wireVars
  <2>2. pending[r] \in SUBSET Calls /\ \A c \in pending[r] : Awaiting(c)
    BY DEF PendingMatchesCallers, Awaiting
  <2> QED
    BY <2>1, <2>2, RejectionMaps
<1>3. CASE Close
  <2> DEFINE C == {c \in Calls : Awaiting(c)}
  <2>1. /\ UNCHANGED exchange
        /\ phase' = [c \in Calls |-> IF c \in C THEN "disconnected" ELSE phase[c]]
    BY <1>3 DEF Close, wireVars, Awaiting
  <2>2. C \in SUBSET Calls /\ \A c \in C : Awaiting(c)
    OBVIOUS
  <2> HIDE DEF C
  <2> QED
    BY <2>1, <2>2, RejectionMaps
<1>4. ASSUME NEW c \in Calls, PollMatches(c) \/ PollDeadline(c)
      PROVE  Abstract!Next
  <2>1. AnswerOf[c] = "open" /\ c.kind # "action" /\ RunCount' = RunCount
    BY <1>4 DEF PollMatches, PollDeadline, Answer, Bookkeeping, AnswerOf, ToCaller, RunCount
  <2>2. AnswerOf' = [AnswerOf EXCEPT ![c] = "ok"]
    BY <1>4, AnswerMoves DEF PollMatches, PollDeadline, Answer, ToCaller
  <2> QED
    BY <2>1, <2>2, SucceedMaps
<1>5. ASSUME NEW c \in Calls, RequestTimeout(c) PROVE Abstract!Next
  <2>1. AnswerOf[c] = "open" /\ RunCount' = RunCount
    BY <1>5 DEF RequestTimeout, PendingMatchesCallers, AnswerOf, ToCaller, RunCount, wireVars
  <2>2. ToCaller("timeout") = "error"
    BY DEF ToCaller
  <2>3. AnswerOf' = [AnswerOf EXCEPT ![c] = "error"]
    BY <1>5, <2>2, AnswerMoves DEF RequestTimeout
  <2> QED
    BY <2>1, <2>3, FailOneMaps
<1>6. ASSUME NEW c \in Calls, NEW verdict \in {"ok", "unmet", "failed"}, Execute(c, verdict)
      PROVE  Abstract!Next
  <2>1. AnswerOf[c] # "unasked" /\ AnswerOf' = AnswerOf
    BY <1>6 DEF Execute, Bookkeeping, AnswerOf, ToCaller, Phases, Outcomes
  <2>2. RunCount[c] = 0 /\ RunCount' = [RunCount EXCEPT ![c] = 1]
    BY <1>6 DEF Execute, RunCount, RunsOf
  <2> QED
    BY <2>1, <2>2, RunMaps
<1>7. ASSUME UNCHANGED <<phase, exchange>> PROVE UNCHANGED Abstract!vars
  BY <1>7, StutterMaps DEF AnswerOf, RunCount
<1> QED
  BY <1>1, <1>2, <1>3, <1>4, <1>5, <1>6, <1>7, CallIsMade, MadeMaps, ResponseMaps
     DEF Next, StreamStep, CallStep, PageStep, ServerStep, vars, wireVars, Connect, PageUpdate,
         SyncServerRuntime

\* Every call is answered at most once and never again, the page runs it at most once, and a
\* command is reported as done only after the page ran it.
THEOREM BridgeRefinesRemoteCall == Spec => Abstract!Safety
<1>1. Init => Abstract!Init
  BY DEF Init, Abstract!Init
<1> QED
  BY <1>1, StepMaps, Inductive, PTL DEF Spec, Abstract!Safety

-----------------------------------------------------------------------------
(* No call is left open *)

\* The timers of call c fire, with the guard of each written out: as long as the request
\* stays in the pending map its timer is armed, and as long as the handler polls its
\* deadline is ahead.
TimersFire(c) ==
  /\ []<>~Awaiting(c) \/ []<><<RequestTimeout(c)>>_vars
  /\ []<>~(phase[c] = "polling") \/ []<><<PollDeadline(c)>>_vars

\* A step leaves an open call as it is or settles it: nothing sends a suspended caller back
\* to polling, and nothing turns a poll into a request.
LEMMA OpenCallsSettle ==
  ASSUME IInv, [Next]_vars, NEW c \in Calls, phase[c] \in {"awaiting", "polling"}
  PROVE  phase'[c] = phase[c] \/ phase'[c] \in Outcomes
<1> USE CallFields DEF IInv, TypeOK, Outcomes
<1>1. ASSUME NEW s \in Streams, StreamClosed(s) PROVE phase'[c] \in {phase[c], "disconnected"}
  BY <1>1 DEF StreamClosed, Disconnect
<1>2. ASSUME NEW r \in Runtimes, NEW k \in Connections, DisconnectConnection(r, k)
      PROVE  phase'[c] \in {phase[c], "disconnected"}
  BY <1>2 DEF DisconnectConnection, Disconnect
<1>3. CASE Close
  BY <1>3 DEF Close
<1>4. ASSUME NEW d \in Calls, Made(d) PROVE phase'[c] = phase[c]
  BY <1>4 DEF Made, Answer, SendRequest
<1>5. ASSUME NEW d \in Calls, PollMatches(d) \/ PollDeadline(d) \/ RequestTimeout(d)
      PROVE  phase'[c] = phase[c] \/ phase'[c] \in Outcomes
  BY <1>5 DEF PollMatches, PollDeadline, RequestTimeout, Answer
<1>6. ASSUME NEW d \in Calls, HandleResponse(d)
      PROVE  phase'[c] = phase[c] \/ phase'[c] \in Outcomes
  <2>1. response[d].verdict \in {"ok", "unmet", "failed"}
    BY <1>6 DEF HandleResponse, Bookkeeping
  <2> QED
    BY <1>6, <2>1 DEF HandleResponse
<1>7. ASSUME UNCHANGED phase PROVE phase'[c] = phase[c]
  BY <1>7
<1> QED
  BY <1>1, <1>2, <1>3, <1>4, <1>5, <1>6, <1>7, CallIsMade
     DEF Next, StreamStep, CallStep, PageStep, ServerStep, vars, Connect, PageUpdate,
         Execute, SyncServerRuntime

\* What open and answered mean in the phases of the bridge.
LEMMA OpenMeans ==
  ASSUME NEW c \in Calls
  PROVE  /\ AnswerOf[c] = "open" => phase[c] \in {"awaiting", "polling"}
         /\ phase[c] \in Outcomes => AnswerOf[c] \in {"ok", "error"}
BY DEF AnswerOf, ToCaller, Outcomes

\* While the bridge runs and its timers fire, every call that was taken is answered,
\* whatever pages, streams, rendering servers and other callers do: the 404 of a late
\* response, a replaced stream and a rejected map never leave a handler suspended.
THEOREM CallsAreAnswered ==
  Spec /\ (\A c \in Calls : TimersFire(c)) => Abstract!Answered
<1>1. ASSUME NEW c \in Calls
      PROVE  Spec /\ TimersFire(c) => (AnswerOf[c] = "open" ~> AnswerOf[c] \in {"ok", "error"})
  <2>1. IInv /\ phase[c] = "awaiting" /\ [Next]_vars
          => (phase[c] = "awaiting")' \/ (phase[c] \in Outcomes)'
    BY OpenCallsSettle
  <2>2. IInv /\ phase[c] = "polling" /\ [Next]_vars
          => (phase[c] = "polling")' \/ (phase[c] \in Outcomes)'
    BY OpenCallsSettle
  <2>3. IInv /\ <<RequestTimeout(c)>>_vars => (phase[c] \in Outcomes)'
    BY DEF IInv, TypeOK, RequestTimeout, Outcomes
  <2>4. IInv /\ <<PollDeadline(c)>>_vars => (phase[c] \in Outcomes)'
    BY DEF IInv, TypeOK, PollDeadline, Answer, Outcomes
  <2>5. IInv => (phase[c] = "awaiting" => Awaiting(c))
    BY DEF IInv, PendingMatchesCallers
  <2>6. AnswerOf[c] = "open" => phase[c] = "awaiting" \/ phase[c] = "polling"
    BY OpenMeans
  <2>7. phase[c] \in Outcomes => AnswerOf[c] \in {"ok", "error"}
    BY OpenMeans
  <2> QED
    BY <2>1, <2>2, <2>3, <2>4, <2>5, <2>6, <2>7, Inductive, PTL DEF Spec, TimersFire
<1>2. ASSUME Spec /\ (\A c \in Calls : TimersFire(c)) PROVE Abstract!Answered
  <2>1. \A c \in Calls : Spec /\ TimersFire(c)
    BY <1>2
  <2> QED
    BY <1>1, <2>1 DEF Abstract!Answered, AnswerOf, ToCaller
<1> QED
  BY <1>2

\* The bridge implements RemoteCall whole: one answer to every call, the page asked at most
\* once, commands done only when they were run, and no caller left waiting.
THEOREM BridgeImplementsRemoteCall ==
  Spec /\ (\A c \in Calls : TimersFire(c)) => ImplementsRemoteCall
BY BridgeRefinesRemoteCall, CallsAreAnswered DEF ImplementsRemoteCall, Abstract!Spec
=============================================================================
