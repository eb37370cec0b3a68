------------------------ MODULE RuntimeCenter_proofs ------------------------
(***************************************************************************)
(* Proofs about RuntimeCenter, for every value of its constants.           *)
(***************************************************************************)
EXTENDS RuntimeCenter, FiniteSetTheorems, TLAPS

\* Only registered targets have an entry: unregisterTarget removes it with the descriptor.
PresentIsRegistered == \A t \in Targets : snapshot[t] # Absent => declared[t] # {}

IInv == TypeOK /\ PresentIsRegistered /\ NoMissedWakeup

\* A wait names a target and a status.
LEMMA WaitFields ==
  ASSUME NEW w \in Waits
  PROVE  w.condition.target \in Targets /\ w.condition.status \in Statuses
BY CenterAssumption DEF Conditions

LEMMA RunFields ==
  ASSUME NEW i \in Runs
  PROVE  i.action \in Actions
BY CenterAssumption

-----------------------------------------------------------------------------
(* The inductive invariant *)

LEMMA InitIInv == Init => IInv
BY DEF Init, IInv, TypeOK, PresentIsRegistered, NoMissedWakeup, WaitStates, RunStates

\* Every step keeps the types.
LEMMA TypeStep == TypeOK /\ [Next]_vars => TypeOK'
<1> SUFFICES ASSUME TypeOK, [Next]_vars PROVE TypeOK'
  OBVIOUS
<1> USE DEF TypeOK
<1>1. ASSUME NEW t \in Targets, NEW statuses \in SUBSET Statuses, RegisterTarget(t, statuses)
      PROVE  TypeOK'
  BY <1>1 DEF RegisterTarget
<1>2. ASSUME NEW t \in Targets, UnregisterTarget(t) PROVE TypeOK'
  BY <1>2 DEF UnregisterTarget, RejectForTarget, WaitStates
<1>3. ASSUME NEW t \in Targets, NEW entry \in Entries, NEW sameType \in BOOLEAN,
             UpdateSnapshot(t, entry, sameType)
      PROVE  TypeOK'
  <2>1. ASSUME NEW type \in {"snapshot.updated", "snapshot.update.rejected"},
               Record(type, t, entry.status)
        PROVE  log' \in Seq(Events)
    <3>1. [type |-> type, target |-> t, status |-> entry.status] \in Events
      BY DEF Events, Entries
    <3> QED
      BY <2>1, <3>1 DEF Record
  <2>2. CASE Accepts(t, entry.status, sameType)
    BY <1>3, <2>1, <2>2 DEF UpdateSnapshot, ResolveForTarget, WaitStates
  <2>3. CASE ~Accepts(t, entry.status, sameType)
    BY <1>3, <2>1, <2>3 DEF UpdateSnapshot
  <2> QED
    BY <2>2, <2>3
<1>4. ASSUME NEW w \in Waits, WaitFor(w) PROVE TypeOK'
  BY <1>4 DEF WaitFor, WaitStates
<1>5. ASSUME NEW w \in Waits, WaitTimeout(w) PROVE TypeOK'
  BY <1>5 DEF WaitTimeout, WaitStates
<1>6. ASSUME NEW a \in Actions, NEW availableWhen \in Availabilities,
             RegisterAction(a, availableWhen)
      PROVE  TypeOK'
  BY <1>6 DEF RegisterAction
<1>7. ASSUME NEW a \in Actions, UnregisterAction(a) PROVE TypeOK'
  BY <1>7 DEF UnregisterAction
<1>8. ASSUME NEW a \in Actions,
             NEW type \in {"action.started", "action.success", "action.error"},
             RecordAction(type, a)
      PROVE  log' \in Seq(Events)
  <2>1. [type |-> type, action |-> a] \in Events
    BY DEF Events
  <2> QED
    BY <1>8, <2>1 DEF RecordAction
<1>9. ASSUME NEW i \in Runs, NEW validPayload \in BOOLEAN, RunAction(i, validPayload)
      PROVE  TypeOK'
  BY <1>8, <1>9, RunFields DEF RunAction, RunStates
<1>10. ASSUME NEW i \in Runs, NEW outcome \in {"success", "error"}, HandlerSettles(i, outcome)
      PROVE  TypeOK'
  <2>1. log' \in Seq(Events)
    BY <1>8, <1>10, RunFields DEF HandlerSettles
  <2> QED
    BY <1>10, <2>1 DEF HandlerSettles, RunStates
<1>11. CASE UNCHANGED vars
  BY <1>11 DEF vars
<1> QED
  BY <1>1, <1>2, <1>3, <1>4, <1>5, <1>6, <1>9, <1>10, <1>11, <1>7 DEF Next

\* Only the steps that touch targets or waits matter to the waits.
LEMMA WaitsStep == IInv /\ [Next]_vars => (PresentIsRegistered /\ NoMissedWakeup)'
<1> SUFFICES ASSUME IInv, [Next]_vars PROVE (PresentIsRegistered /\ NoMissedWakeup)'
  OBVIOUS
<1> USE WaitFields DEF IInv, TypeOK, PresentIsRegistered, NoMissedWakeup
<1>1. ASSUME NEW t \in Targets, NEW statuses \in SUBSET Statuses, RegisterTarget(t, statuses)
      PROVE  (PresentIsRegistered /\ NoMissedWakeup)'
  BY <1>1 DEF RegisterTarget, Matches
<1>2. ASSUME NEW t \in Targets, UnregisterTarget(t)
      PROVE  (PresentIsRegistered /\ NoMissedWakeup)'
  BY <1>2 DEF UnregisterTarget, RejectForTarget, Matches
<1>3. ASSUME NEW t \in Targets, NEW entry \in Entries, NEW sameType \in BOOLEAN,
             UpdateSnapshot(t, entry, sameType)
      PROVE  (PresentIsRegistered /\ NoMissedWakeup)'
  <2>1. CASE Accepts(t, entry.status, sameType)
    <3>1. /\ declared' = declared
          /\ declared[t] # {}
          /\ snapshot' = [snapshot EXCEPT ![t] = entry]
          /\ ResolveForTarget(t, entry)
      BY <1>3, <2>1 DEF UpdateSnapshot, Accepts
    <3> QED
      BY <3>1 DEF ResolveForTarget, Matches
  <2>2. CASE ~Accepts(t, entry.status, sameType)
    BY <1>3, <2>2 DEF UpdateSnapshot, Matches
  <2> QED
    BY <2>1, <2>2
<1>4. ASSUME NEW w \in Waits, WaitFor(w) PROVE (PresentIsRegistered /\ NoMissedWakeup)'
  BY <1>4 DEF WaitFor, Known, Matches
<1>5. ASSUME NEW w \in Waits, WaitTimeout(w) PROVE (PresentIsRegistered /\ NoMissedWakeup)'
  BY <1>5 DEF WaitTimeout, Matches
<1>6. ASSUME UNCHANGED <<declared, snapshot, waiting>>
      PROVE  (PresentIsRegistered /\ NoMissedWakeup)'
  BY <1>6 DEF Matches
<1> QED
  BY <1>1, <1>2, <1>3, <1>4, <1>5, <1>6
     DEF Next, vars, RegisterAction, UnregisterAction, RunAction, HandlerSettles

LEMMA Inductive == Spec => []IInv
<1>1. IInv /\ [Next]_vars => IInv'
  BY TypeStep, WaitsStep DEF IInv
<1> QED
  BY <1>1, InitIInv, PTL DEF Spec

-----------------------------------------------------------------------------
(* The theorems *)

\* Every variable keeps its type; the log holds nothing but well-formed events.
THEOREM TypeCorrect == Spec => []TypeOK
<1>1. IInv => TypeOK
  BY DEF IInv
<1> QED
  BY <1>1, Inductive, PTL

\* waitFor never sleeps on a condition that holds or on a target that is gone.
THEOREM WaitsMissNothing == Spec => []NoMissedWakeup
<1>1. IInv => NoMissedWakeup
  BY DEF IInv
<1> QED
  BY <1>1, Inductive, PTL

\* A wait settles with the truth about the snapshot at that moment.
THEOREM WaitsAreHonest == Spec => WaitAnswersHonest
<1> DEFINE Honest(w) ==
      (waiting'[w] = "success") <=> Matches(snapshot'[w.condition.target], w.condition)
<1>1. ASSUME IInv, [Next]_vars, NEW w \in Waits, waiting'[w] # waiting[w], waiting'[w] # "pending"
      PROVE  Honest(w)
  <2> USE <1>1, WaitFields DEF IInv, TypeOK
  <2>1. ASSUME NEW t \in Targets, UnregisterTarget(t) PROVE Honest(w)
    <3>1. w.condition.target = t /\ waiting'[w] = "unregistered"
      BY <2>1 DEF UnregisterTarget, RejectForTarget
    <3>2. snapshot'[t] = Absent
      BY <2>1 DEF UnregisterTarget
    <3> QED
      BY <3>1, <3>2 DEF Matches
  <2>2. ASSUME NEW t \in Targets, NEW entry \in Entries, NEW sameType \in BOOLEAN,
               UpdateSnapshot(t, entry, sameType)
        PROVE  Honest(w)
    <3>1. snapshot' = [snapshot EXCEPT ![t] = entry] /\ ResolveForTarget(t, entry)
      BY <2>2 DEF UpdateSnapshot
    <3> QED
      BY <3>1 DEF ResolveForTarget
  <2>3. ASSUME NEW v \in Waits, WaitFor(v) PROVE Honest(w)
    <3>1. v = w /\ snapshot' = snapshot
      BY <2>3 DEF WaitFor
    <3>2. CASE Matches(snapshot[w.condition.target], w.condition)
      BY <2>3, <3>1, <3>2 DEF WaitFor, Matches, Known
    <3>3. CASE ~Matches(snapshot[w.condition.target], w.condition)
      BY <2>3, <3>1, <3>3 DEF WaitFor
    <3> QED
      BY <3>2, <3>3
  <2>4. ASSUME NEW v \in Waits, WaitTimeout(v) PROVE Honest(w)
    BY <2>4 DEF WaitTimeout, NoMissedWakeup, Matches
  <2>5. ASSUME UNCHANGED waiting PROVE FALSE
    BY <2>5
  <2> QED
    BY <2>1, <2>2, <2>3, <2>4, <2>5
       DEF Next, vars, RegisterTarget, RegisterAction, UnregisterAction, RunAction,
           HandlerSettles
<1>2. IInv /\ [Next]_vars
        => [\A w \in Waits : waiting'[w] # waiting[w] /\ waiting'[w] # "pending" =>
              ((waiting'[w] = "success")
                <=> Matches(snapshot'[w.condition.target], w.condition))]_vars
  BY <1>1
<1> QED
  BY <1>2, Inductive, PTL DEF Spec, WaitAnswersHonest

-----------------------------------------------------------------------------
(* The log and the snapshot *)

Explains(i, t) ==
  /\ log[i] = [type |-> "snapshot.updated", target |-> t, status |-> snapshot[t].status]
  /\ \A j \in DOMAIN log : j > i /\ log[j].type = "snapshot.updated" => log[j].target # t

\* What explains an entry keeps doing so while nothing but other events is appended.
LEMMA OtherEventsExplainNothing ==
  ASSUME TypeOK, LogExplainsSnapshot, NEW event \in Events, log' = Append(log, event),
         NEW t \in Targets, snapshot[t] # Absent, snapshot'[t] = snapshot[t],
         event.type = "snapshot.updated" => event.target # t
  PROVE  \E i \in DOMAIN log' : Explains(i, t)'
<1>1. PICK i \in DOMAIN log : Explains(i, t)
  BY DEF LogExplainsSnapshot, Explains
<1>2. log \in Seq(Events)
  BY DEF TypeOK
<1>3. /\ DOMAIN log' = DOMAIN log \cup {Len(log) + 1}
      /\ \A j \in DOMAIN log : log'[j] = log[j]
      /\ log'[Len(log) + 1] = event
  BY <1>2
<1>4. Explains(i, t)'
  BY <1>1, <1>3 DEF Explains
<1> QED
  BY <1>1, <1>3, <1>4

\* A reader that follows the events from any snapshot on knows every present status.
THEOREM LogExplains == Spec => []LogExplainsSnapshot
<1>1. Init => LogExplainsSnapshot
  BY DEF Init, LogExplainsSnapshot
<1>2. ASSUME TypeOK, TypeOK', LogExplainsSnapshot, [Next]_vars PROVE LogExplainsSnapshot'
  <2>1. SUFFICES ASSUME NEW t \in Targets, snapshot'[t] # Absent
                 PROVE  \E i \in DOMAIN log' : Explains(i, t)'
    BY DEF LogExplainsSnapshot, Explains
  <2> USE <1>2 DEF TypeOK
  <2>2. ASSUME UNCHANGED log, snapshot'[t] = snapshot[t]
        PROVE  \E i \in DOMAIN log' : Explains(i, t)'
    BY <2>1, <2>2 DEF LogExplainsSnapshot, Explains
  <2>3. ASSUME NEW q \in Targets, UnregisterTarget(q) PROVE snapshot'[t] = snapshot[t] /\ UNCHANGED log
    BY <2>1, <2>3 DEF UnregisterTarget
  <2>4. ASSUME NEW q \in Targets, NEW entry \in Entries, NEW sameType \in BOOLEAN,
               UpdateSnapshot(q, entry, sameType)
        PROVE  \E i \in DOMAIN log' : Explains(i, t)'
    <3>1. CASE Accepts(q, entry.status, sameType)
      <4> DEFINE event == [type |-> "snapshot.updated", target |-> q, status |-> entry.status]
      <4>1. snapshot' = [snapshot EXCEPT ![q] = entry] /\ log' = Append(log, event)
        BY <2>4, <3>1 DEF UpdateSnapshot, Record
      <4>2. event \in Events
        BY DEF Events, Entries
      <4>3. CASE q = t
        <5> DEFINE last == Len(log) + 1
        <5>1. last \in 1 .. last /\ \A j \in 1 .. last : ~(j > last)
          OBVIOUS
        <5>2. DOMAIN log' = 1 .. last /\ log'[last] = event
          <6> HIDE DEF event
          <6> QED
            BY <4>1, <4>2
        <5>3. snapshot'[t].status = entry.status
          BY <4>1, <4>3
        <5> HIDE DEF last
        <5>4. /\ log'[last] = [type |-> "snapshot.updated", target |-> t,
                               status |-> snapshot'[t].status]
              /\ \A j \in DOMAIN log' :
                   j > last /\ log'[j].type = "snapshot.updated" => log'[j].target # t
          BY <4>3, <5>1, <5>2, <5>3
        <5> QED
          BY <5>1, <5>2, <5>4 DEF Explains
      <4>4. CASE q # t
        BY <2>1, <4>1, <4>2, <4>4, OtherEventsExplainNothing
      <4> QED
        BY <4>3, <4>4
    <3>2. CASE ~Accepts(q, entry.status, sameType)
      <4> DEFINE event == [type |-> "snapshot.update.rejected", target |-> q, status |-> entry.status]
      <4>1. snapshot' = snapshot /\ log' = Append(log, event)
        BY <2>4, <3>2 DEF UpdateSnapshot, Record
      <4>2. event \in Events
        BY DEF Events, Entries
      <4> QED
        BY <2>1, <4>1, <4>2, OtherEventsExplainNothing
    <3> QED
      BY <3>1, <3>2
  <2>5. ASSUME NEW a \in Actions, NEW type \in {"action.started", "action.success", "action.error"},
               RecordAction(type, a), UNCHANGED snapshot
        PROVE  \E i \in DOMAIN log' : Explains(i, t)'
    <3> DEFINE event == [type |-> type, action |-> a]
    <3>1. event \in Events /\ event.type # "snapshot.updated"
      BY DEF Events
    <3>2. log' = Append(log, event)
      BY <2>5 DEF RecordAction
    <3> HIDE DEF event
    <3> QED
      BY <2>1, <2>5, <3>1, <3>2, OtherEventsExplainNothing
  <2>6. ASSUME NEW i \in Runs, NEW validPayload \in BOOLEAN, RunAction(i, validPayload)
        PROVE  \E j \in DOMAIN log' : Explains(j, t)'
    BY <2>5, <2>6, RunFields DEF RunAction
  <2>7. ASSUME NEW i \in Runs, NEW outcome \in {"success", "error"}, HandlerSettles(i, outcome)
        PROVE  \E j \in DOMAIN log' : Explains(j, t)'
    BY <2>5, <2>7, RunFields DEF HandlerSettles
  <2> QED
    BY <2>2, <2>3, <2>4, <2>6, <2>7
       DEF Next, vars, RegisterTarget, WaitFor, WaitTimeout, RegisterAction, UnregisterAction
<1> QED
  BY <1>1, <1>2, TypeCorrect, PTL DEF Spec

-----------------------------------------------------------------------------
(* The log accounts for the runs *)

Begun == {i \in Runs : run[i] # "idle"}
FinitelyManyBegun == IsFiniteSet(Begun)

\* One more event is one more of its type and action.
LEMMA RecordedGrows ==
  ASSUME TypeOK, NEW event \in Events, log' = Append(log, event), NEW type, NEW a
  PROVE  /\ Recorded(type, a) \in Nat
         /\ Recorded(type, a)' = IF event.type = type /\ event.action = a
                                 THEN Recorded(type, a) + 1 ELSE Recorded(type, a)
<1> DEFINE Of == {j \in DOMAIN log : log[j].type = type /\ log[j].action = a}
           last == Len(log) + 1
<1>1. log \in Seq(Events)
  BY DEF TypeOK
<1>2. DOMAIN log = 1 .. Len(log) /\ Len(log) \in Nat
  BY <1>1
<1>3. /\ DOMAIN log' = DOMAIN log \cup {last} /\ last \notin DOMAIN log
      /\ \A j \in DOMAIN log : log'[j] = log[j]
      /\ log'[last] = event
  BY <1>1
<1>4. IsFiniteSet(Of)
  <2>1. IsFiniteSet(DOMAIN log)
    BY <1>2, FS_Interval
  <2> QED
    BY <2>1, FS_Subset
<1> HIDE DEF last
<1>5. (Of)' = IF event.type = type /\ event.action = a THEN Of \cup {last} ELSE Of
  BY <1>3
<1>6. last \notin Of
  BY <1>3
<1> HIDE DEF Of
<1>7. Cardinality(Of) \in Nat /\ Cardinality(Of \cup {last}) = Cardinality(Of) + 1
  BY <1>4, <1>6, FS_CardinalityType, FS_AddElement
<1>8. Cardinality((Of)') = IF event.type = type /\ event.action = a
                           THEN Cardinality(Of) + 1 ELSE Cardinality(Of)
  BY <1>5, <1>7
<1> QED
  BY <1>7, <1>8 DEF Recorded, Of

RunMovesTo(i, state) == run' = [run EXCEPT ![i] = state]

\* A run that moves is counted where it goes.
LEMMA RunMoves ==
  ASSUME TypeOK, FinitelyManyBegun, NEW i \in Runs, NEW state,
         RunMovesTo(i, state), NEW a, NEW states, "idle" \notin states
  PROVE  /\ RunsOf(a, states) \in Nat
         /\ i.action # a \/ (run[i] \in states <=> state \in states)
              => RunsOf(a, states)' = RunsOf(a, states)
         /\ i.action = a /\ run[i] \notin states /\ state \in states
              => RunsOf(a, states)' = RunsOf(a, states) + 1
<1> DEFINE Of == {j \in Runs : j.action = a /\ run[j] \in states}
<1>1. run' = [run EXCEPT ![i] = state] /\ run \in [Runs -> RunStates]
  BY DEF TypeOK, RunMovesTo
<1>2. IsFiniteSet(Of)
  <2>1. Of \in SUBSET Begun
    BY DEF Begun
  <2> QED
    BY <2>1, FS_Subset DEF FinitelyManyBegun
<1>3. ASSUME i.action # a \/ (run[i] \in states <=> state \in states) PROVE (Of)' = Of
  BY <1>1, <1>3
<1>4. ASSUME i.action = a, run[i] \notin states, state \in states
      PROVE  (Of)' = Of \cup {i} /\ i \notin Of
  BY <1>1, <1>4
<1> HIDE DEF Of
<1>5. Cardinality(Of) \in Nat /\ (i \notin Of => Cardinality(Of \cup {i}) = Cardinality(Of) + 1)
  BY <1>2, FS_CardinalityType, FS_AddElement
<1> QED
  BY <1>3, <1>4, <1>5 DEF RunsOf, Of

\* Only a finite number of calls of runAction have begun.
LEMMA BegunIsFinite == Spec => []FinitelyManyBegun
<1>1. Init => FinitelyManyBegun
  <2>1. Init => Begun = {}
    BY DEF Init, Begun
  <2> QED
    BY <2>1, FS_EmptySet DEF FinitelyManyBegun
<1>2. ASSUME TypeOK, FinitelyManyBegun, [Next]_vars PROVE FinitelyManyBegun'
  <2>1. ASSUME UNCHANGED run PROVE FinitelyManyBegun'
    BY <1>2, <2>1 DEF FinitelyManyBegun, Begun
  <2>2. ASSUME NEW i \in Runs, NEW state, run' = [run EXCEPT ![i] = state]
        PROVE  FinitelyManyBegun'
    <3>1. Begun' \subseteq Begun \cup {i}
      BY <1>2, <2>2 DEF Begun, TypeOK
    <3>2. IsFiniteSet(Begun \cup {i})
      BY <1>2, FS_AddElement DEF FinitelyManyBegun
    <3> QED
      BY <3>1, <3>2, FS_Subset DEF FinitelyManyBegun
  <2>3. ASSUME NEW i \in Runs, NEW validPayload \in BOOLEAN, RunAction(i, validPayload)
        PROVE  FinitelyManyBegun'
    BY <2>2, <2>3 DEF RunAction
  <2>4. ASSUME NEW i \in Runs, NEW outcome \in {"success", "error"}, HandlerSettles(i, outcome)
        PROVE  FinitelyManyBegun'
    BY <2>2, <2>4 DEF HandlerSettles
  <2> QED
    BY <1>2, <2>1, <2>3, <2>4
       DEF Next, vars, RegisterTarget, UnregisterTarget, UpdateSnapshot, WaitFor, WaitTimeout,
           RegisterAction, UnregisterAction
<1> QED
  BY <1>1, <1>2, TypeCorrect, PTL DEF Spec

\* A step that records an event of an action and moves one of its runs keeps the account.
LEMMA AccountStep ==
  ASSUME TypeOK, FinitelyManyBegun, LogAccountsForRuns, NEW i \in Runs, NEW state, NEW type,
         RecordAction(type, i.action), RunMovesTo(i, state),
         \/ run[i] = "idle" /\ type = "action.started" /\ state = "running"
         \/ run[i] = "idle" /\ type = "action.error" /\ state = "refused"
         \/ run[i] = "running" /\ type = "action.success" /\ state = "success"
         \/ run[i] = "running" /\ type = "action.error" /\ state = "error"
  PROVE  LogAccountsForRuns'
<1> SUFFICES ASSUME NEW a \in Actions
             PROVE  /\ Recorded("action.started", a)' = RunsOf(a, {"running", "success", "error"})'
                    /\ Recorded("action.success", a)' = RunsOf(a, {"success"})'
                    /\ Recorded("action.error", a)' = RunsOf(a, {"refused", "error"})'
  BY DEF LogAccountsForRuns
<1> DEFINE event == [type |-> type, action |-> i.action]
<1>1. event \in Events /\ event.type = type /\ event.action = i.action
  BY RunFields DEF Events
<1>2. log' = Append(log, event)
  BY DEF RecordAction
<1> HIDE DEF event
<1>3. ASSUME NEW t
      PROVE  /\ Recorded(t, a) \in Nat
             /\ Recorded(t, a)' = IF type = t /\ i.action = a
                                  THEN Recorded(t, a) + 1 ELSE Recorded(t, a)
  BY <1>1, <1>2, RecordedGrows
<1>4. /\ Recorded("action.started", a) = RunsOf(a, {"running", "success", "error"})
      /\ Recorded("action.success", a) = RunsOf(a, {"success"})
      /\ Recorded("action.error", a) = RunsOf(a, {"refused", "error"})
  BY DEF LogAccountsForRuns
<1>5. Recorded("action.started", a)' = RunsOf(a, {"running", "success", "error"})'
  <2> DEFINE S == {"running", "success", "error"}
  <2>0. "idle" \notin S
    OBVIOUS
  <2>1. /\ i.action # a \/ (run[i] \in S <=> state \in S) => RunsOf(a, S)' = RunsOf(a, S)
        /\ i.action = a /\ run[i] \notin S /\ state \in S => RunsOf(a, S)' = RunsOf(a, S) + 1
    <3> HIDE DEF S
    <3> QED
      BY <2>0, RunMoves
  <2>2. run[i] \notin S /\ state \in S <=> type = "action.started"
    OBVIOUS
  <2>3. (run[i] \in S <=> state \in S) <=> type # "action.started"
    OBVIOUS
  <2> HIDE DEF S
  <2>4. Recorded("action.started", a)' = RunsOf(a, S)'
    BY <1>3, <1>4, <2>1, <2>2, <2>3 DEF S
  <2> QED
    BY <2>4 DEF S
<1>6. Recorded("action.success", a)' = RunsOf(a, {"success"})'
  <2> DEFINE S == {"success"}
  <2>0. "idle" \notin S
    OBVIOUS
  <2>1. /\ i.action # a \/ (run[i] \in S <=> state \in S) => RunsOf(a, S)' = RunsOf(a, S)
        /\ i.action = a /\ run[i] \notin S /\ state \in S => RunsOf(a, S)' = RunsOf(a, S) + 1
    <3> HIDE DEF S
    <3> QED
      BY <2>0, RunMoves
  <2>2. run[i] \notin S /\ state \in S <=> type = "action.success"
    OBVIOUS
  <2>3. (run[i] \in S <=> state \in S) <=> type # "action.success"
    OBVIOUS
  <2> HIDE DEF S
  <2>4. Recorded("action.success", a)' = RunsOf(a, S)'
    BY <1>3, <1>4, <2>1, <2>2, <2>3 DEF S
  <2> QED
    BY <2>4 DEF S
<1>7. Recorded("action.error", a)' = RunsOf(a, {"refused", "error"})'
  <2> DEFINE S == {"refused", "error"}
  <2>0. "idle" \notin S
    OBVIOUS
  <2>1. /\ i.action # a \/ (run[i] \in S <=> state \in S) => RunsOf(a, S)' = RunsOf(a, S)
        /\ i.action = a /\ run[i] \notin S /\ state \in S => RunsOf(a, S)' = RunsOf(a, S) + 1
    <3> HIDE DEF S
    <3> QED
      BY <2>0, RunMoves
  <2>2. run[i] \notin S /\ state \in S <=> type = "action.error"
    OBVIOUS
  <2>3. (run[i] \in S <=> state \in S) <=> type # "action.error"
    OBVIOUS
  <2> HIDE DEF S
  <2>4. Recorded("action.error", a)' = RunsOf(a, S)'
    BY <1>3, <1>4, <2>1, <2>2, <2>3 DEF S
  <2> QED
    BY <2>4 DEF S
<1> QED
  BY <1>5, <1>6, <1>7

\* The events of an action are as many as its runs in every stage: a call that was refused
\* is never recorded as one that ran (runAction).
THEOREM LogAccounts == Spec => []LogAccountsForRuns
<1>1. Init => LogAccountsForRuns
  <2> SUFFICES ASSUME Init PROVE LogAccountsForRuns
    OBVIOUS
  <2>1. ASSUME NEW type, NEW a PROVE Recorded(type, a) = 0
    <3>1. {j \in DOMAIN log : log[j].type = type /\ log[j].action = a} = {}
      BY DEF Init
    <3> QED
      BY <3>1, FS_EmptySet DEF Recorded
  <2>2. ASSUME NEW a, NEW states, "idle" \notin states PROVE RunsOf(a, states) = 0
    <3>1. {i \in Runs : i.action = a /\ run[i] \in states} = {}
      BY <2>2 DEF Init
    <3> QED
      BY <3>1, FS_EmptySet DEF RunsOf
  <2> QED
    BY <2>1, <2>2 DEF LogAccountsForRuns
<1>2. ASSUME TypeOK, FinitelyManyBegun, LogAccountsForRuns, [Next]_vars PROVE LogAccountsForRuns'
  <2>1. ASSUME UNCHANGED <<log, run>> PROVE LogAccountsForRuns'
    <3>1. ASSUME NEW type, NEW a PROVE Recorded(type, a)' = Recorded(type, a)
      BY <2>1 DEF Recorded
    <3>2. ASSUME NEW a, NEW states PROVE RunsOf(a, states)' = RunsOf(a, states)
      BY <2>1 DEF RunsOf
    <3> QED
      BY <1>2, <3>1, <3>2 DEF LogAccountsForRuns
  <2>2. ASSUME NEW t \in Targets, NEW entry \in Entries, NEW sameType \in BOOLEAN,
               UpdateSnapshot(t, entry, sameType)
        PROVE  LogAccountsForRuns'
    <3>1. PICK event \in Events : /\ log' = Append(log, event)
                                  /\ event.type \in {"snapshot.updated", "snapshot.update.rejected"}
      <4>1. ASSUME NEW type \in {"snapshot.updated", "snapshot.update.rejected"}
            PROVE  [type |-> type, target |-> t, status |-> entry.status] \in Events
        BY DEF Events, Entries
      <4> QED
        BY <2>2, <4>1 DEF UpdateSnapshot, Record
    <3>2. ASSUME NEW type \in {"action.started", "action.success", "action.error"}, NEW a
          PROVE  Recorded(type, a)' = Recorded(type, a)
      BY <1>2, <3>1, RecordedGrows
    <3>3. UNCHANGED run
      BY <2>2 DEF UpdateSnapshot
    <3> QED
      BY <1>2, <3>2, <3>3 DEF LogAccountsForRuns, RunsOf
  <2>3. ASSUME NEW i \in Runs, NEW validPayload \in BOOLEAN, RunAction(i, validPayload)
        PROVE  LogAccountsForRuns'
    BY <1>2, <2>3, AccountStep DEF RunAction, RunMovesTo
  <2>4. ASSUME NEW i \in Runs, NEW outcome \in {"success", "error"}, HandlerSettles(i, outcome)
        PROVE  LogAccountsForRuns'
    BY <1>2, <2>4, AccountStep DEF HandlerSettles, RunMovesTo
  <2> QED
    BY <1>2, <2>1, <2>2, <2>3, <2>4
       DEF Next, vars, RegisterTarget, UnregisterTarget, WaitFor, WaitTimeout, RegisterAction,
           UnregisterAction
<1> QED
  BY <1>1, <1>2, TypeCorrect, BegunIsFinite, PTL DEF Spec

-----------------------------------------------------------------------------
(* No wait stays open *)

\* The timer of wait w fires: it is armed as long as the wait is pending.
TimerFires(w) == []<>~(waiting[w] = "pending") \/ []<><<WaitTimeout(w)>>_vars

Settled(w) == waiting[w] \in {"success", "not registered", "unregistered", "timed out"}

\* The promise of waitFor is resolved or rejected once: no update, unregistration or timer
\* that comes later touches a wait that has settled.
LEMMA SettledStays ==
  ASSUME IInv, [Next]_vars, NEW w \in Waits, Settled(w)
  PROVE  waiting'[w] = waiting[w]
<1> USE DEF IInv, TypeOK, Settled
<1>1. ASSUME NEW t \in Targets, UnregisterTarget(t) PROVE waiting'[w] = waiting[w]
  BY <1>1 DEF UnregisterTarget, RejectForTarget
<1>2. ASSUME NEW t \in Targets, NEW entry \in Entries, NEW sameType \in BOOLEAN,
             UpdateSnapshot(t, entry, sameType)
      PROVE  waiting'[w] = waiting[w]
  BY <1>2 DEF UpdateSnapshot, ResolveForTarget
<1>3. ASSUME NEW v \in Waits, WaitFor(v) \/ WaitTimeout(v) PROVE waiting'[w] = waiting[w]
  BY <1>3 DEF WaitFor, WaitTimeout
<1>4. ASSUME UNCHANGED waiting PROVE waiting'[w] = waiting[w]
  BY <1>4
<1> QED
  BY <1>1, <1>2, <1>3, <1>4
     DEF Next, vars, RegisterTarget, RegisterAction, UnregisterAction, RunAction, HandlerSettles

\* A pending wait stays pending or settles.
LEMMA PendingSettles ==
  ASSUME IInv, [Next]_vars, NEW w \in Waits, waiting[w] = "pending"
  PROVE  waiting'[w] = "pending" \/ Settled(w)'
<1> USE DEF IInv, TypeOK, Settled
<1>1. ASSUME NEW t \in Targets, UnregisterTarget(t)
      PROVE  waiting'[w] \in {"pending", "unregistered"}
  BY <1>1 DEF UnregisterTarget, RejectForTarget
<1>2. ASSUME NEW t \in Targets, NEW entry \in Entries, NEW sameType \in BOOLEAN,
             UpdateSnapshot(t, entry, sameType)
      PROVE  waiting'[w] \in {"pending", "success"}
  BY <1>2 DEF UpdateSnapshot, ResolveForTarget
<1>3. ASSUME NEW v \in Waits, WaitFor(v) \/ WaitTimeout(v)
      PROVE  waiting'[w] \in {"pending", "timed out"}
  BY <1>3 DEF WaitFor, WaitTimeout
<1>4. ASSUME UNCHANGED waiting PROVE waiting'[w] = "pending"
  BY <1>4
<1> QED
  BY <1>1, <1>2, <1>3, <1>4
     DEF Next, vars, RegisterTarget, RegisterAction, UnregisterAction, RunAction, HandlerSettles

\* Every pending wait settles, and settles for good: when its timer fires, the caller of
\* waitFor has its answer, whatever the application reports or fails to report.
THEOREM WaitsSettleForGood ==
  Spec /\ (\A w \in Waits : TimerFires(w))
    => \A w \in Waits : waiting[w] = "pending" ~> [](Settled(w))
<1>1. ASSUME NEW w \in Waits
      PROVE  Spec /\ TimerFires(w) => (waiting[w] = "pending" ~> [](Settled(w)))
  <2>1. IInv /\ waiting[w] = "pending" /\ [Next]_vars
          => (waiting[w] = "pending")' \/ Settled(w)'
    BY PendingSettles
  <2>2. IInv /\ <<WaitTimeout(w)>>_vars => Settled(w)'
    BY DEF IInv, TypeOK, WaitTimeout, Settled
  <2>3. IInv /\ Settled(w) /\ [Next]_vars => Settled(w)'
    BY SettledStays DEF Settled
  <2> QED
    BY <2>1, <2>2, <2>3, Inductive, PTL DEF Spec, TimerFires
<1>2. ASSUME Spec /\ (\A w \in Waits : TimerFires(w))
      PROVE  \A w \in Waits : waiting[w] = "pending" ~> [](Settled(w))
  <2>1. \A w \in Waits : Spec /\ TimerFires(w)
    BY <1>2
  <2> QED
    BY <1>1, <2>1
<1> QED
  BY <1>2

\* The property of the run, for every set of waits.
THEOREM EveryWaitSettles ==
  Spec /\ (\A w \in Waits : TimerFires(w)) => WaitsSettle
<1>1. ASSUME NEW w \in Waits
      PROVE  (waiting[w] = "pending" ~> [](Settled(w)))
               => (waiting[w] = "pending" ~> waiting[w] # "pending")
  <2>1. Settled(w) => waiting[w] # "pending"
    BY DEF Settled
  <2> QED
    BY <2>1, PTL
<1>2. ASSUME Spec /\ (\A w \in Waits : TimerFires(w)) PROVE WaitsSettle
  <2>1. \A w \in Waits : waiting[w] = "pending" ~> [](Settled(w))
    BY <1>2, WaitsSettleForGood
  <2> QED
    BY <1>1, <2>1 DEF WaitsSettle
<1> QED
  BY <1>2
=============================================================================
