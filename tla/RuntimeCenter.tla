--------------------------- MODULE RuntimeCenter ---------------------------
(***************************************************************************)
(* The runtime inside a page (packages/core: runtime/center.ts with the    *)
(* target, snapshot, event, action and wait managers it owns).             *)
(*                                                                         *)
(* Application code declares targets and reports their status; agents wait *)
(* for a target to reach a status and run declared actions.  Everything    *)
(* runs on the page's one thread: each method is one action.  What         *)
(* interleaves is the order of the calls, the timers of the waits and the  *)
(* asynchronous handlers of the actions, which may themselves call any     *)
(* method while they run.                                                  *)
(***************************************************************************)
EXTENDS Naturals, Sequences, FiniteSets

CONSTANTS
  Targets,        \* target ids
  Statuses,       \* status names
  Data,           \* values of the data a status carries, as far as conditions see them
  Waits,          \* the calls of waitFor, each made at most once
  Actions,        \* action names
  Availabilities, \* what an action can require when it is registered: sets of conditions
  Runs,           \* the calls of runAction, each made at most once
  MaxUpdates,     \* bound: calls of updateSnapshot
  Absent          \* "no entry", in the snapshot or among the actions

Entries == [status : Statuses, data : Data]

\* RuntimeCondition; where is the set of data its where clauses accept, all of Data when
\* it has none.
Conditions == [target : Targets, status : Statuses, where : SUBSET Data]

ASSUME CenterAssumption ==
  /\ Waits \subseteq [id : Nat, condition : Conditions]
  /\ Runs \subseteq [id : Nat, action : Actions]
  /\ Availabilities \subseteq SUBSET Conditions
  /\ MaxUpdates \in Nat
  /\ Absent \notin Entries

VARIABLES
  declared,    \* declared[t] : statuses in the descriptor, {} while t is not registered
  snapshot,    \* snapshot[t] : the current entry of t, or Absent
  log,         \* the event log, oldest first; an event's id is its index
  actions,     \* actions[a] : the conditions a requires, Absent while a is not registered
  waiting,     \* waiting[w] : where the call of waitFor stands
  run          \* run[i] : where the call of runAction stands

vars == <<declared, snapshot, log, actions, waiting, run>>

WaitStates == {"idle", "pending", "success", "not registered", "unregistered", "timed out"}
RunStates == {"idle", "running", "refused", "success", "error"}

Events ==
  [type : {"snapshot.updated", "snapshot.update.rejected"}, target : Targets, status : Statuses]
    \cup [type : {"action.started", "action.success", "action.error"}, action : Actions]

TypeOK ==
  /\ declared \in [Targets -> SUBSET Statuses]
  /\ snapshot \in [Targets -> Entries \cup {Absent}]
  /\ log \in Seq(Events)
  /\ actions \in [Actions -> Availabilities \cup {Absent}]
  /\ waiting \in [Waits -> WaitStates]
  /\ run \in [Runs -> RunStates]

Init ==
  /\ declared = [t \in Targets |-> {}]
  /\ snapshot = [t \in Targets |-> Absent]
  /\ log = <<>>
  /\ actions = [a \in Actions |-> Absent]
  /\ waiting = [w \in Waits |-> "idle"]
  /\ run = [i \in Runs |-> "idle"]

\* matchesRuntimeCondition, of an entry or of no entry.
Matches(entry, condition) ==
  /\ entry # Absent
  /\ entry.status = condition.status
  /\ entry.data \in condition.where

\* getAvailability compares the statuses; it does not look at where.
Available(a) ==
  \A condition \in actions[a] :
    /\ snapshot[condition.target] # Absent
    /\ snapshot[condition.target].status = condition.status

-----------------------------------------------------------------------------
(* Targets and their snapshot *)

\* registerTarget replaces the descriptor and leaves the snapshot as it is.
\* A descriptor without statuses throws before that.
RegisterTarget(t, statuses) ==
  /\ statuses # {}
  /\ declared' = [declared EXCEPT ![t] = statuses]
  /\ UNCHANGED <<snapshot, log, actions, waiting, run>>

\* Mutant: the waits of an unregistered target are left to their timers.
RejectNobody(t) == UNCHANGED waiting

\* waits.rejectForTarget: every pending wait for the target fails.
RejectForTarget(t) ==
  waiting' = [w \in Waits |->
    IF waiting[w] = "pending" /\ w.condition.target = t THEN "unregistered" ELSE waiting[w]]

UnregisterTarget(t) ==
  /\ declared' = [declared EXCEPT ![t] = {}]
  /\ snapshot' = [snapshot EXCEPT ![t] = Absent]
  /\ RejectForTarget(t)
  /\ UNCHANGED <<log, actions, run>>

\* Mutant: a wait is resolved by the status alone.
ResolveByStatus(t, entry) ==
  waiting' = [w \in Waits |->
    IF waiting[w] = "pending" /\ w.condition.target = t /\ entry.status = w.condition.status
    THEN "success" ELSE waiting[w]]

\* waits.resolveForTarget: the pending waits for the target whose condition the new
\* entry satisfies succeed.
ResolveForTarget(t, entry) ==
  waiting' = [w \in Waits |->
    IF waiting[w] = "pending" /\ w.condition.target = t /\ Matches(entry, w.condition)
    THEN "success" ELSE waiting[w]]

\* Mutant: the status is left out of the event.
RecordTarget(type, t, status) == log' = Append(log, [type |-> type, target |-> t])

Record(type, t, status) ==
  log' = Append(log, [type |-> type, target |-> t, status |-> status])

\* The status is accepted only for a registered target of the same type that declares it.
Accepts(t, status, sameType) == sameType /\ status \in declared[t]

Updates == {i \in DOMAIN log : log[i].type \in {"snapshot.updated", "snapshot.update.rejected"}}

\* Mutant: the entry is stored before it is checked.
StoreThenCheck(t, entry, sameType) ==
  /\ Cardinality(Updates) < MaxUpdates
  /\ snapshot' = [snapshot EXCEPT ![t] = entry]
  /\ IF Accepts(t, entry.status, sameType)
     THEN Record("snapshot.updated", t, entry.status) /\ ResolveForTarget(t, entry)
     ELSE Record("snapshot.update.rejected", t, entry.status) /\ UNCHANGED waiting
  /\ UNCHANGED <<declared, actions, run>>

UpdateSnapshot(t, entry, sameType) ==
  /\ Cardinality(Updates) < MaxUpdates
  /\ IF Accepts(t, entry.status, sameType)
     THEN /\ snapshot' = [snapshot EXCEPT ![t] = entry]
          /\ Record("snapshot.updated", t, entry.status)
          /\ ResolveForTarget(t, entry)
     ELSE /\ Record("snapshot.update.rejected", t, entry.status)
          /\ UNCHANGED <<snapshot, waiting>>
  /\ UNCHANGED <<declared, actions, run>>

-----------------------------------------------------------------------------
(* Waits *)

Known(t) == snapshot[t] # Absent \/ declared[t] # {}

\* waitFor answers at once when the condition holds or the target is unknown.
WaitFor(w) ==
  /\ waiting[w] = "idle"
  /\ waiting' = [waiting EXCEPT ![w] =
       CASE Matches(snapshot[w.condition.target], w.condition) -> "success"
         [] ~Known(w.condition.target) -> "not registered"
         [] OTHER -> "pending"]
  /\ UNCHANGED <<declared, snapshot, log, actions, run>>

\* Mutant: the timer is only started for a target that has reported.
TimeoutOncePresent(w) ==
  /\ waiting[w] = "pending"
  /\ snapshot[w.condition.target] # Absent
  /\ waiting' = [waiting EXCEPT ![w] = "timed out"]
  /\ UNCHANGED <<declared, snapshot, log, actions, run>>

WaitTimeout(w) ==
  /\ waiting[w] = "pending"
  /\ waiting' = [waiting EXCEPT ![w] = "timed out"]
  /\ UNCHANGED <<declared, snapshot, log, actions, run>>

-----------------------------------------------------------------------------
(* Actions *)

\* registerAction replaces what was registered under the name.
RegisterAction(a, availableWhen) ==
  /\ actions' = [actions EXCEPT ![a] = availableWhen]
  /\ UNCHANGED <<declared, snapshot, log, waiting, run>>

UnregisterAction(a) ==
  /\ actions' = [actions EXCEPT ![a] = Absent]
  /\ UNCHANGED <<declared, snapshot, log, waiting, run>>

RecordAction(type, a) == log' = Append(log, [type |-> type, action |-> a])

\* Mutant: "started" is recorded before the call is checked.
StartThenCheck(i, validPayload) ==
  /\ run[i] = "idle"
  /\ RecordAction("action.started", i.action)
  /\ run' = [run EXCEPT ![i] =
       IF actions[i.action] # Absent /\ Available(i.action) /\ validPayload
       THEN "running" ELSE "refused"]
  /\ UNCHANGED <<declared, snapshot, actions, waiting>>

\* runAction up to the call of the handler.  validPayload: the payload fits the schema.
RunAction(i, validPayload) ==
  /\ run[i] = "idle"
  /\ IF actions[i.action] # Absent /\ Available(i.action) /\ validPayload
     THEN /\ RecordAction("action.started", i.action)
          /\ run' = [run EXCEPT ![i] = "running"]
     ELSE /\ RecordAction("action.error", i.action)
          /\ run' = [run EXCEPT ![i] = "refused"]
  /\ UNCHANGED <<declared, snapshot, actions, waiting>>

\* The handler settles.  The action may have been unregistered meanwhile.
HandlerSettles(i, outcome) ==
  /\ run[i] = "running"
  /\ run' = [run EXCEPT ![i] = outcome]
  /\ RecordAction(IF outcome = "success" THEN "action.success" ELSE "action.error", i.action)
  /\ UNCHANGED <<declared, snapshot, actions, waiting>>

-----------------------------------------------------------------------------
Next ==
  \/ \E t \in Targets, statuses \in SUBSET Statuses : RegisterTarget(t, statuses)
  \/ \E t \in Targets : UnregisterTarget(t)
  \/ \E t \in Targets, entry \in Entries, sameType \in BOOLEAN : UpdateSnapshot(t, entry, sameType)
  \/ \E w \in Waits : WaitFor(w) \/ WaitTimeout(w)
  \/ \E a \in Actions, availableWhen \in Availabilities : RegisterAction(a, availableWhen)
  \/ \E a \in Actions : UnregisterAction(a)
  \/ \E i \in Runs, validPayload \in BOOLEAN : RunAction(i, validPayload)
  \/ \E i \in Runs, outcome \in {"success", "error"} : HandlerSettles(i, outcome)

Spec == Init /\ [][Next]_vars

\* The timer of a wait fires.  Nothing is assumed of the application: it need not report
\* any status, and a handler need not settle.
Fairness == \A w \in Waits : WF_vars(WaitTimeout(w))

FairSpec == Spec /\ Fairness

-----------------------------------------------------------------------------
(* Properties *)

\* A wait is only ever pending on a registered target whose current entry does not satisfy
\* it: no order of registering, reporting and unregistering lets waitFor sleep on a
\* condition that already holds or can never be reported.
NoMissedWakeup ==
  \A w \in Waits : waiting[w] = "pending" =>
    /\ declared[w.condition.target] # {}
    /\ ~Matches(snapshot[w.condition.target], w.condition)

\* A wait settles with the truth: a success in a step after which the condition holds, a
\* failure in a step after which it does not.
WaitAnswersHonest ==
  [][\A w \in Waits : waiting'[w] # waiting[w] /\ waiting'[w] # "pending" =>
       ((waiting'[w] = "success") <=> Matches(snapshot'[w.condition.target], w.condition))]_vars

\* A reader that took a snapshot and then follows the events ends up with the status the
\* snapshot has now: the last accepted update of a present target in the log is its entry.
LogExplainsSnapshot ==
  \A t \in Targets : snapshot[t] # Absent =>
    \E i \in DOMAIN log :
      /\ log[i] = [type |-> "snapshot.updated", target |-> t, status |-> snapshot[t].status]
      /\ \A j \in DOMAIN log :
           j > i /\ log[j].type = "snapshot.updated" => log[j].target # t

\* The log accounts for the runs: an action has as many "started" events as handlers that
\* were called and as many "success" events as handlers that returned, so a call refused by
\* the availability or the payload check never looks like one that touched the page.
Recorded(type, a) == Cardinality({j \in DOMAIN log : log[j].type = type /\ log[j].action = a})
RunsOf(a, states) == Cardinality({i \in Runs : i.action = a /\ run[i] \in states})

LogAccountsForRuns ==
  \A a \in Actions :
    /\ Recorded("action.started", a) = RunsOf(a, {"running", "success", "error"})
    /\ Recorded("action.success", a) = RunsOf(a, {"success"})
    /\ Recorded("action.error", a) = RunsOf(a, {"refused", "error"})

\* No call of waitFor stays open for ever, whatever the application does or fails to do.
WaitsSettle == \A w \in Waits : waiting[w] = "pending" ~> waiting[w] # "pending"

-----------------------------------------------------------------------------
(* What the documentation says and the code does not do (see the README) *)

\* "availableWhen?: RuntimeCondition", with "where?: RuntimeDataCondition[]": a handler is
\* called only when the conditions of its action hold in full.
ActionsStartAvailable ==
  [][\A i \in Runs : run[i] = "idle" /\ run'[i] = "running" =>
       \A condition \in actions[i.action] :
         Matches(snapshot[condition.target], condition)]_vars
=============================================================================
