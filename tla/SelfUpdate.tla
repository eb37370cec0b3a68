------------------------------ MODULE SelfUpdate ------------------------------
(***************************************************************************)
(* The automatic update of the command line                                *)
(* (packages/cli/src/features/update/manager.ts, runner.ts, npm.ts).       *)
(*                                                                         *)
(* Every command line first shows the notice of a finished update, runs    *)
(* its command, and then may start a detached worker that asks the         *)
(* registry for the latest version and installs it.  They share two files: *)
(* the update cache, which each reads, changes and writes back in two      *)
(* steps, and the lock, which is created, inspected and removed in steps   *)
(* of their own and counts as stale after StaleAge.  Command lines and     *)
(* workers run at the same time and can be killed anywhere; npm, which a   *)
(* killed worker had started, may still finish.                            *)
(*                                                                         *)
(* The errors and current versions kept in the cache are left out: nothing *)
(* reads them to decide.  npm and its registry are external.               *)
(***************************************************************************)
EXTENDS Integers, FiniteSets

CONSTANTS
  Processes,  \* operating-system processes, each of them run once
  MaxVersion, \* bound: versions published
  MaxTime,    \* bound: the clock
  MaxUpdates, \* bound: update commands that run at one time
  Interval,   \* automaticUpdateIntervalMs
  Throttle,   \* AUTO_UPDATE_RETRY_THROTTLE_MS
  StaleAge,   \* UPDATE_LOCK_STALE_MS
  MaxFaults,  \* bound: crashes and failed writes
  None        \* undefined, or no file

Times == Nat
Versions == Nat \ {0}
Notice == [to : Versions, at : Times]
Cache == [checked : Times \cup {None}, attempt : Times \cup {None},
          latest : Versions \cup {None}, notice : Notice \cup {None}]
Lock == [owner : Processes \cup {None}, at : Times]
Roles == {"command", "update", "worker"}

\* The version a process was loaded from, the time it works with, what it read from the
\* cache and heard from the registry, whether it removed a stale lock and whether it threw.
Memory == [role : Roles, version : Versions, now : Times, copy : Cache, latest : Versions,
           retrying : BOOLEAN, failed : BOOLEAN]

ASSUME UpdateAssumption ==
  /\ {MaxVersion, MaxTime, MaxUpdates, Interval, Throttle, StaleAge, MaxFaults} \subseteq Nat
  /\ StaleAge > 0
  /\ None \notin Processes \cup Times \cup Notice \cup Lock

VARIABLES
  time,      \* the clock
  published, \* the latest version in the registry
  installed, \* the version on disk
  cache,     \* the update cache file
  lock,      \* the lock file: its token and modification time
  pc,        \* where each process stands
  mem,       \* what each process remembers
  spawned,   \* workers on their way up
  owed,      \* history: the notice of the last recorded update, until it is shown
  lastSpawn, \* history: the time of the process that last spawned a worker
  aged,      \* history: a lock has become stale
  lost,      \* history: a write to the cache lost what another process had written
  faults     \* counted against their bound

files == <<cache, lock>>
world == <<time, published, installed>>
history == <<owed, lastSpawn, aged, lost>>
vars == <<world, files, pc, mem, spawned, history, faults>>

\* Inside the lock, in the order of the code.
Updating == {"unmanaged", "unmanagedRead", "asking", "noting", "noted",
             "installing", "recording", "recorded", "releasing", "unlinking"}
Positions == Updating \cup {"unborn", "notice", "consuming", "schedule", "scheduling", "opening",
                            "stat", "breaking", "failing", "failRead", "orphaned", "killed", "done"}

TypeOK ==
  /\ time \in Times /\ published \in Versions /\ installed \in Versions
  /\ cache \in Cache
  /\ lock \in Lock \cup {None}
  /\ pc \in [Processes -> Positions]
  /\ mem \in [Processes -> Memory]
  /\ spawned \in Nat /\ faults \in Nat
  /\ owed \in Notice \cup {None}
  /\ lastSpawn \in Times \cup {None}
  /\ aged \in BOOLEAN /\ lost \in BOOLEAN

EmptyCache == [checked |-> None, attempt |-> None, latest |-> None, notice |-> None]
Blank == [role |-> "command", version |-> 1, now |-> 0, copy |-> EmptyCache, latest |-> 1,
          retrying |-> FALSE, failed |-> FALSE]

\* A first command line has run after a newer version came out, and has started a worker.
Init ==
  /\ time = 0 /\ published = 2 /\ installed = 1
  /\ cache = [EmptyCache EXCEPT !.attempt = 0]
  /\ lock = None
  /\ pc = [p \in Processes |-> "unborn"]
  /\ mem = [p \in Processes |-> Blank]
  /\ spawned = 1 /\ faults = 0
  /\ owed = None /\ lastSpawn = 0
  /\ aged = FALSE /\ lost = FALSE

-----------------------------------------------------------------------------
(* Parts of the actions. *)

At(p, position) == pc[p] = position

\* A process goes on with memory m; one that has ended remembers nothing.  What a process
\* will not use again is blanked wherever it goes on.
Move(p, position, m) ==
  /\ pc' = [pc EXCEPT ![p] = position]
  /\ mem' = [mem EXCEPT ![p] = IF position \in {"done", "killed"} THEN Blank ELSE m]

Goto(p, position) == Move(p, position, mem[p])

\* The finally of runCliUpdateWithLock, after a result or an error.
Leave(p, threw) ==
  Move(p, "releasing", [Blank EXCEPT !.role = mem[p].role, !.failed = threw])

Fault == faults < MaxFaults /\ faults' = faults + 1

Older(a, b) == b # None /\ (a = None \/ a < b)

\* writeCliUpdateCache: the file is replaced as a whole, and an error is swallowed.
Save(p, record) ==
  \/ /\ cache' = record
     /\ lost' = IF mem[p].copy # cache \/ Older(record.attempt, cache.attempt) THEN TRUE ELSE lost
     /\ UNCHANGED faults
  \/ /\ Fault
     /\ cache' = cache
     /\ lost' = TRUE

\* The cache is read at these places, and written or used at the next.
Reads == [notice |-> "consuming", schedule |-> "scheduling", unmanaged |-> "unmanagedRead",
          noting |-> "noted", recording |-> "recorded", failing |-> "failRead"]

ReadCache(p) ==
  /\ pc[p] \in DOMAIN Reads
  /\ Move(p, Reads[pc[p]],
          [mem[p] EXCEPT !.copy = cache, !.now = IF At(p, "schedule") THEN time ELSE @])
  /\ UNCHANGED <<world, files, spawned, history, faults>>

-----------------------------------------------------------------------------
(* A command line: notice, command, schedule. *)

Start(p, r) ==
  /\ At(p, "unborn")
  /\ Move(p, IF r = "worker" THEN "opening" ELSE "notice",
          [Blank EXCEPT !.role = r, !.version = installed,
                        !.now = IF r = "worker" THEN time ELSE 0])
  /\ UNCHANGED <<world, files, history, faults>>

StartCommand(p) ==
  /\ \/ Start(p, "command")
     \/ Cardinality({q \in Processes : mem[q].role = "update"}) < MaxUpdates /\ Start(p, "update")
  /\ UNCHANGED spawned

StartWorker(p) ==
  /\ spawned > 0
  /\ spawned' = spawned - 1
  /\ Start(p, "worker")

Shows(p) ==
  /\ At(p, "consuming")
  /\ mem[p].copy.notice # None
  /\ mem[p].copy.notice.to = mem[p].version

\* The command runs next: an update command at once, any other schedules when it ends.
AfterNotice(p) ==
  IF mem[p].role = "command"
  THEN Move(p, "schedule", [mem[p] EXCEPT !.copy = EmptyCache])
  ELSE Move(p, "opening", [mem[p] EXCEPT !.copy = EmptyCache, !.now = time])

\* Mutant of ConsumeNotice: the notice is left in the cache.
ShowNotice(p) ==
  /\ At(p, "consuming")
  /\ owed' = IF Shows(p) /\ owed = mem[p].copy.notice THEN None ELSE owed
  /\ AfterNotice(p)
  /\ UNCHANGED <<world, cache, lock, spawned, lastSpawn, aged, lost, faults>>

ConsumeNotice(p) ==
  /\ At(p, "consuming")
  /\ \/ /\ Shows(p)
        /\ Save(p, [mem[p].copy EXCEPT !.notice = None])
        /\ owed' = IF owed = mem[p].copy.notice THEN None ELSE owed
     \/ ~Shows(p) /\ UNCHANGED <<cache, lost, owed, faults>>
  /\ AfterNotice(p)
  /\ UNCHANGED <<world, lock, spawned, lastSpawn, aged>>

Expired(p) == mem[p].copy.checked # None => mem[p].now - mem[p].copy.checked >= Interval
NewerKnown(p) == mem[p].copy.latest # None /\ mem[p].copy.latest > mem[p].version
RecentlyAttempted(p) ==
  mem[p].copy.attempt # None /\ mem[p].now - mem[p].copy.attempt < Throttle

\* Mutant of Due: no throttle.
DueAtOnce(p) == Expired(p) \/ NewerKnown(p)

Due(p) == (Expired(p) \/ NewerKnown(p)) /\ ~RecentlyAttempted(p)

Schedule(p) ==
  /\ At(p, "scheduling")
  /\ \/ /\ Due(p)
        /\ Save(p, [mem[p].copy EXCEPT !.attempt = mem[p].now])
        /\ \/ spawned' = spawned + 1 /\ lastSpawn' = mem[p].now
           \/ UNCHANGED <<spawned, lastSpawn>>
     \/ ~Due(p) /\ UNCHANGED <<cache, lost, faults, spawned, lastSpawn>>
  /\ Goto(p, "done")
  /\ UNCHANGED <<world, lock, owed, aged>>

-----------------------------------------------------------------------------
(* The lock. *)

\* Mutant of OpenLock: opened without "wx".
OpenAnyway(p) ==
  /\ At(p, "opening")
  /\ lock' = [owner |-> p, at |-> time]
  /\ Move(p, "asking", [mem[p] EXCEPT !.now = time, !.retrying = FALSE])
  /\ UNCHANGED <<world, cache, spawned, history, faults>>

\* open with "wx", then write the token; a lock whose token cannot be written stays.
OpenLock(p) ==
  /\ At(p, "opening")
  /\ \/ /\ lock = None
        /\ lock' = [owner |-> p, at |-> time]
        /\ Move(p, "asking", [mem[p] EXCEPT !.now = time, !.retrying = FALSE])
        /\ UNCHANGED faults
     \/ /\ lock = None
        /\ Fault
        /\ lock' = [owner |-> None, at |-> time]
        /\ Goto(p, "stat")
     \/ lock # None /\ Goto(p, "stat") /\ UNCHANGED <<lock, faults>>
  /\ UNCHANGED <<world, cache, spawned, history>>

\* Mutant of StatLock: stale one moment early.
StatSoon(p) ==
  /\ At(p, "stat")
  /\ Goto(p, IF lock # None /\ mem[p].now - lock.at + 1 >= StaleAge THEN "breaking" ELSE "done")
  /\ UNCHANGED <<world, files, spawned, history, faults>>

StatLock(p) ==
  /\ At(p, "stat")
  /\ Goto(p, IF lock # None /\ mem[p].now - lock.at >= StaleAge THEN "breaking" ELSE "done")
  /\ UNCHANGED <<world, files, spawned, history, faults>>

\* unlink by name: whichever lock is there now.
BreakLock(p) ==
  /\ At(p, "breaking")
  /\ lock' = None
  /\ Move(p, IF lock # None /\ ~mem[p].retrying THEN "opening" ELSE "done",
          [mem[p] EXCEPT !.retrying = TRUE])
  /\ UNCHANGED <<world, cache, spawned, history, faults>>

Released(p) == IF mem[p].failed /\ mem[p].role = "worker" THEN "failing" ELSE "done"

ReadToken(p) ==
  /\ At(p, "releasing")
  /\ Goto(p, IF lock # None /\ lock.owner = p THEN "unlinking" ELSE Released(p))
  /\ UNCHANGED <<world, files, spawned, history, faults>>

UnlinkLock(p) ==
  /\ At(p, "unlinking")
  /\ lock' = None
  /\ Goto(p, Released(p))
  /\ UNCHANGED <<world, cache, spawned, history, faults>>

-----------------------------------------------------------------------------
(* runCliUpdate, inside the lock. *)

SkipUnmanaged(p) ==
  /\ At(p, "unmanagedRead")
  /\ Save(p, [mem[p].copy EXCEPT !.checked = mem[p].now, !.attempt = mem[p].now])
  /\ Leave(p, FALSE)
  /\ UNCHANGED <<world, lock, spawned, owed, lastSpawn, aged>>

\* Mutant of AskRegistry: an error leaves without the finally that releases the lock.
AskUnguarded(p) ==
  /\ At(p, "asking")
  /\ \/ Move(p, "noting", [mem[p] EXCEPT !.latest = published])
     \/ mem[p].role = "worker" /\ Goto(p, "unmanaged")
     \/ Goto(p, IF mem[p].role = "worker" THEN "failing" ELSE "done")
  /\ UNCHANGED <<world, files, spawned, history, faults>>

\* A worker asks isManagedInstallation first; then getLatestVersion, which may throw.
AskRegistry(p) ==
  /\ At(p, "asking")
  /\ \/ Move(p, "noting", [mem[p] EXCEPT !.latest = published])
     \/ mem[p].role = "worker" /\ Goto(p, "unmanaged")
     \/ Leave(p, TRUE)
  /\ UNCHANGED <<world, files, spawned, history, faults>>

\* Mutant of Checked: the record is made anew.
FreshRecord(p) ==
  [EmptyCache EXCEPT !.checked = mem[p].now, !.attempt = mem[p].now, !.latest = mem[p].latest]

Checked(p) ==
  [mem[p].copy EXCEPT !.checked = mem[p].now, !.attempt = mem[p].now, !.latest = mem[p].latest]

\* The result is recorded; then compare, and stop if --check asks for no more or the
\* installation is not managed.
NoteLatest(p) ==
  /\ At(p, "noted")
  /\ Save(p, Checked(p))
  /\ \/ Leave(p, FALSE)
     \/ /\ mem[p].latest > mem[p].version
        /\ Move(p, "installing", [mem[p] EXCEPT !.copy = EmptyCache])
  /\ UNCHANGED <<world, lock, spawned, owed, lastSpawn, aged>>

\* An npm that fails or is stopped may have replaced the installation or not.
Install(p) ==
  /\ At(p, "installing")
  /\ \/ installed' = mem[p].latest /\ Goto(p, "recording")
     \/ installed' \in {installed, mem[p].latest} /\ Leave(p, TRUE)
  /\ UNCHANGED <<time, published, files, spawned, history, faults>>

\* Mutant of NoticeOf: the version is left out.
NoticeWithoutVersion(p) == IF mem[p].role = "worker" THEN [at |-> mem[p].now] ELSE None

NoticeOf(p) ==
  IF mem[p].role = "worker" THEN [to |-> mem[p].latest, at |-> mem[p].now] ELSE None

RecordInstall(p) ==
  /\ At(p, "recorded")
  /\ Save(p, [Checked(p) EXCEPT !.notice = NoticeOf(p)])
  /\ owed' = NoticeOf(p)
  /\ Leave(p, FALSE)
  /\ UNCHANGED <<world, lock, spawned, lastSpawn, aged>>

\* The catch of runCliUpdateBackgroundWorker, after the lock has been released.
RecordFailure(p) ==
  /\ At(p, "failRead")
  /\ Save(p, [mem[p].copy EXCEPT !.attempt = time])
  /\ Goto(p, "done")
  /\ UNCHANGED <<world, lock, spawned, owed, lastSpawn, aged>>

-----------------------------------------------------------------------------
(* The world. *)

Crash(p) ==
  /\ pc[p] \notin {"unborn", "orphaned", "done", "killed"}
  /\ Fault
  /\ IF At(p, "installing")
     THEN Move(p, "orphaned", [Blank EXCEPT !.latest = mem[p].latest])
     ELSE Goto(p, "killed")
  /\ UNCHANGED <<world, files, spawned, history>>

\* The npm that a killed process had started.
OrphanEnds(p) ==
  /\ At(p, "orphaned")
  /\ installed' \in {installed, mem[p].latest}
  /\ Goto(p, "killed")
  /\ UNCHANGED <<time, published, files, spawned, history, faults>>

Publish ==
  /\ published < MaxVersion
  /\ published' = published + 1
  /\ UNCHANGED <<time, installed, files, pc, mem, spawned, history, faults>>

Tick ==
  /\ time < MaxTime
  /\ time' = time + 1
  /\ aged' = (aged \/ (lock # None /\ time' - lock.at >= StaleAge))
  /\ UNCHANGED <<published, installed, files, pc, mem, spawned, owed, lastSpawn, lost, faults>>

Step(p) ==
  \/ ReadCache(p) \/ ConsumeNotice(p) \/ Schedule(p)
  \/ OpenLock(p) \/ StatLock(p) \/ BreakLock(p) \/ ReadToken(p) \/ UnlinkLock(p)
  \/ SkipUnmanaged(p) \/ AskRegistry(p) \/ NoteLatest(p) \/ Install(p)
  \/ RecordInstall(p) \/ RecordFailure(p)

Next ==
  \/ \E p \in Processes : \/ StartCommand(p) \/ StartWorker(p) \/ Step(p)
                          \/ Crash(p) \/ OrphanEnds(p)
  \/ Publish
  \/ Tick

Spec == Init /\ [][Next]_vars

-----------------------------------------------------------------------------
(* Properties. *)

\* As long as no lock has become stale, at most one process is updating, an npm that a
\* killed process left behind included (acquireUpdateLock is what keeps two apart).
OneUpdater ==
  aged \/ \A p, q \in Processes :
            pc[p] \in Updating \cup {"orphaned"} /\ pc[q] \in Updating \cup {"orphaned"} => p = q

\* "no downgrade was attempted": versions are compared with the one a process was loaded
\* from, which another process may have replaced since; that the installed version never
\* falls rests on asking the registry inside the lock.
NeverDowngrades == [][aged \/ installed' >= installed]_vars

\* The update is recorded for whoever runs next: unless a write was lost, a notice waits in
\* the cache from the update that made it until it is shown or another update replaces it.
NoticeKept == lost \/ cache.notice = owed

\* "reports its notice once": unless a write was lost, a command line shows only a notice
\* that nobody has shown since the update that made it.
NoticeOnce ==
  [][\A p \in Processes :
       Shows(p) /\ ~Shows(p)' /\ pc'[p] # "killed" => lost' \/ mem[p].copy.notice = owed]_vars

\* "throttles nearby invocations": unless a write was lost, two workers are started at least
\* Throttle apart.
ThrottleHolds ==
  [][spawned' > spawned /\ lastSpawn # None =>
       lost' \/ lastSpawn' >= lastSpawn + Throttle]_vars

\* A lock is released on every way out of the update, an error included: one that stays
\* is the lock of a killed process, or one without a token.
LockReleased ==
  lock # None => \/ lock.owner = None
                 \/ pc[lock.owner] \in Updating \cup {"orphaned", "killed"}
=============================================================================
