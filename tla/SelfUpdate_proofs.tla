-------------------------- MODULE SelfUpdate_proofs --------------------------
(***************************************************************************)
(* Proofs about SelfUpdate, for every value of its constants: any number   *)
(* of processes, any ages and intervals, any number of crashes.            *)
(***************************************************************************)
EXTENDS SelfUpdate, TLAPS

-----------------------------------------------------------------------------
(* Types *)

LEMMA BlankType == EmptyCache \in Cache /\ Blank \in Memory
BY DEF Blank, EmptyCache, Memory, Cache, Roles, Versions, Times

LEMMA MoveType ==
  ASSUME TypeOK, NEW p \in Processes, NEW position \in Positions, NEW m \in Memory,
         Move(p, position, m)
  PROVE  pc' \in [Processes -> Positions] /\ mem' \in [Processes -> Memory]
BY BlankType DEF Move, TypeOK

\* What a process remembers, field by field.
LEMMA MemType ==
  ASSUME TypeOK, NEW p \in Processes
  PROVE  /\ mem[p] \in Memory
         /\ mem[p].role \in Roles /\ mem[p].version \in Versions /\ mem[p].now \in Times
         /\ mem[p].copy \in Cache /\ mem[p].latest \in Versions
         /\ mem[p].retrying \in BOOLEAN /\ mem[p].failed \in BOOLEAN
BY DEF TypeOK, Memory

LEMMA LeaveType ==
  ASSUME TypeOK, NEW p \in Processes, NEW threw \in BOOLEAN, Leave(p, threw)
  PROVE  pc' \in [Processes -> Positions] /\ mem' \in [Processes -> Memory]
<1>1. [Blank EXCEPT !.role = mem[p].role, !.failed = threw] \in Memory
  BY BlankType, MemType DEF Memory
<1>2. "releasing" \in Positions
  BY DEF Positions, Updating
<1> QED
  BY <1>1, <1>2, MoveType DEF Leave

LEMMA SaveType ==
  ASSUME TypeOK, NEW p \in Processes, NEW record \in Cache, Save(p, record)
  PROVE  cache' \in Cache /\ lost' \in BOOLEAN /\ faults' \in Nat
<1>1. \/ cache' = record /\ UNCHANGED faults
      \/ cache' = cache /\ Fault
  BY Zenon DEF Save
<1>2. lost' = TRUE \/ lost' = lost
  BY Zenon DEF Save
<1>3. lost' \in BOOLEAN
  BY <1>2, Zenon DEF TypeOK
<1>4. cache' \in Cache /\ faults' \in Nat
  BY <1>1 DEF TypeOK, Fault
<1> QED
  BY <1>3, <1>4

LEMMA InitType == Init => TypeOK
<1> SUFFICES ASSUME Init PROVE TypeOK
  OBVIOUS
<1>1. cache \in Cache
  BY BlankType DEF Init, Cache, Times
<1>2. pc \in [Processes -> Positions] /\ mem \in [Processes -> Memory]
  BY BlankType DEF Init, Positions
<1>3. aged \in BOOLEAN /\ lost \in BOOLEAN
  BY Zenon DEF Init
<1>4. /\ time \in Times /\ published \in Versions /\ installed \in Versions
      /\ lock = None /\ spawned \in Nat /\ faults \in Nat
      /\ owed = None /\ lastSpawn \in Times
  BY DEF Init, Versions, Times
<1> QED
  BY <1>1, <1>2, <1>3, <1>4, Zenon DEF TypeOK

\* A step of one process keeps the types.
LEMMA StepType ==
  ASSUME TypeOK, NEW p \in Processes, Step(p)
  PROVE  TypeOK'
<1> USE DEF TypeOK, Positions, Updating
<1>0. mem[p] \in Memory
  BY MemType
<1>1. CASE ReadCache(p)
  <2>1. Reads[pc[p]] \in Positions
    BY <1>1 DEF ReadCache, Reads
  <2>2. [mem[p] EXCEPT !.copy = cache, !.now = IF At(p, "schedule") THEN time ELSE @] \in Memory
    BY <1>0 DEF Memory
  <2> QED
    BY <1>1, <2>1, <2>2, MoveType DEF ReadCache, world, files, history
<1>2. CASE ConsumeNotice(p)
  <2>1. [mem[p].copy EXCEPT !.notice = None] \in Cache
    BY MemType DEF Cache
  <2>2. cache' \in Cache /\ lost' \in BOOLEAN /\ faults' \in Nat /\ owed' \in Notice \cup {None}
    BY <1>2, <2>1, SaveType DEF ConsumeNotice
  <2>3. /\ [mem[p] EXCEPT !.copy = EmptyCache] \in Memory
        /\ [mem[p] EXCEPT !.copy = EmptyCache, !.now = time] \in Memory
    BY <1>0, BlankType DEF Memory
  <2>4. pc' \in [Processes -> Positions] /\ mem' \in [Processes -> Memory]
    BY <1>2, <2>3, MoveType DEF ConsumeNotice, AfterNotice
  <2> QED
    BY <1>2, <2>2, <2>4 DEF ConsumeNotice, world
<1>3. CASE Schedule(p)
  <2>1. [mem[p].copy EXCEPT !.attempt = mem[p].now] \in Cache
    BY MemType DEF Cache
  <2>2. cache' \in Cache /\ lost' \in BOOLEAN /\ faults' \in Nat
    BY <1>3, <2>1, SaveType DEF Schedule
  <2>3. spawned' \in Nat /\ lastSpawn' \in Times \cup {None}
    BY <1>3, MemType DEF Schedule
  <2>4. pc' \in [Processes -> Positions] /\ mem' \in [Processes -> Memory]
    BY <1>3, <1>0, MoveType DEF Schedule, Goto
  <2> QED
    BY <1>3, <2>2, <2>3, <2>4 DEF Schedule, world
<1>4. CASE OpenLock(p)
  <2>1. [mem[p] EXCEPT !.now = time, !.retrying = FALSE] \in Memory
    BY <1>0 DEF Memory
  <2>2. pc' \in [Processes -> Positions] /\ mem' \in [Processes -> Memory]
    BY <1>4, <1>0, <2>1, MoveType DEF OpenLock, Goto
  <2>3. lock' \in Lock \cup {None} /\ faults' \in Nat
    BY <1>4 DEF OpenLock, Lock, Fault
  <2> QED
    BY <1>4, <2>2, <2>3 DEF OpenLock, world, history
<1>5. CASE StatLock(p)
  <2>1. pc' \in [Processes -> Positions] /\ mem' \in [Processes -> Memory]
    BY <1>5, <1>0, MoveType DEF StatLock, Goto
  <2> QED
    BY <1>5, <2>1 DEF StatLock, world, files, history
<1>6. CASE BreakLock(p)
  <2>1. [mem[p] EXCEPT !.retrying = TRUE] \in Memory
    BY <1>0 DEF Memory
  <2>2. pc' \in [Processes -> Positions] /\ mem' \in [Processes -> Memory]
    BY <1>6, <2>1, MoveType DEF BreakLock
  <2> QED
    BY <1>6, <2>2 DEF BreakLock, world, history
<1>7. CASE ReadToken(p)
  <2>1. pc' \in [Processes -> Positions] /\ mem' \in [Processes -> Memory]
    BY <1>7, <1>0, MoveType DEF ReadToken, Goto, Released
  <2> QED
    BY <1>7, <2>1 DEF ReadToken, world, files, history
<1>8. CASE UnlinkLock(p)
  <2>1. pc' \in [Processes -> Positions] /\ mem' \in [Processes -> Memory]
    BY <1>8, <1>0, MoveType DEF UnlinkLock, Goto, Released
  <2> QED
    BY <1>8, <2>1 DEF UnlinkLock, world, history
<1>9. CASE SkipUnmanaged(p)
  <2>1. [mem[p].copy EXCEPT !.checked = mem[p].now, !.attempt = mem[p].now] \in Cache
    BY MemType DEF Cache
  <2>2. cache' \in Cache /\ lost' \in BOOLEAN /\ faults' \in Nat
    BY <1>9, <2>1, SaveType DEF SkipUnmanaged
  <2>3. pc' \in [Processes -> Positions] /\ mem' \in [Processes -> Memory]
    BY <1>9, LeaveType DEF SkipUnmanaged
  <2> QED
    BY <1>9, <2>2, <2>3 DEF SkipUnmanaged, world
<1>10. CASE AskRegistry(p)
  <2>1. [mem[p] EXCEPT !.latest = published] \in Memory
    BY <1>0 DEF Memory
  <2>2. pc' \in [Processes -> Positions] /\ mem' \in [Processes -> Memory]
    BY <1>10, <1>0, <2>1, MoveType, LeaveType DEF AskRegistry, Goto
  <2> QED
    BY <1>10, <2>2 DEF AskRegistry, world, files, history
<1>11. CASE NoteLatest(p)
  <2>1. Checked(p) \in Cache
    BY MemType DEF Checked, Cache
  <2>2. cache' \in Cache /\ lost' \in BOOLEAN /\ faults' \in Nat
    BY <1>11, <2>1, SaveType DEF NoteLatest
  <2>3. [mem[p] EXCEPT !.copy = EmptyCache] \in Memory
    BY <1>0, BlankType DEF Memory
  <2>4. pc' \in [Processes -> Positions] /\ mem' \in [Processes -> Memory]
    BY <1>11, <2>3, MoveType, LeaveType DEF NoteLatest
  <2> QED
    BY <1>11, <2>2, <2>4 DEF NoteLatest, world
<1>12. CASE Install(p)
  <2>1. pc' \in [Processes -> Positions] /\ mem' \in [Processes -> Memory]
    BY <1>12, <1>0, MoveType, LeaveType DEF Install, Goto
  <2>2. installed' \in Versions
    BY <1>12, MemType DEF Install
  <2> QED
    BY <1>12, <2>1, <2>2 DEF Install, files, history
<1>13. CASE RecordInstall(p)
  <2>1. NoticeOf(p) \in Notice \cup {None}
    BY MemType DEF NoticeOf, Notice
  <2>2. [Checked(p) EXCEPT !.notice = NoticeOf(p)] \in Cache
    BY <2>1, MemType DEF Checked, Cache
  <2>3. cache' \in Cache /\ lost' \in BOOLEAN /\ faults' \in Nat
    BY <1>13, <2>2, SaveType DEF RecordInstall
  <2>4. pc' \in [Processes -> Positions] /\ mem' \in [Processes -> Memory]
    BY <1>13, LeaveType DEF RecordInstall
  <2> QED
    BY <1>13, <2>1, <2>3, <2>4 DEF RecordInstall, world
<1>14. CASE RecordFailure(p)
  <2>1. [mem[p].copy EXCEPT !.attempt = time] \in Cache
    BY MemType DEF Cache
  <2>2. cache' \in Cache /\ lost' \in BOOLEAN /\ faults' \in Nat
    BY <1>14, <2>1, SaveType DEF RecordFailure
  <2>3. pc' \in [Processes -> Positions] /\ mem' \in [Processes -> Memory]
    BY <1>14, <1>0, MoveType DEF RecordFailure, Goto
  <2> QED
    BY <1>14, <2>2, <2>3 DEF RecordFailure, world
<1> QED
  BY <1>1, <1>2, <1>3, <1>4, <1>5, <1>6, <1>7, <1>8, <1>9, <1>10, <1>11, <1>12, <1>13, <1>14
     DEF Step

\* Every step keeps the types.
LEMMA TypeStep == TypeOK /\ [Next]_vars => TypeOK'
<1> SUFFICES ASSUME TypeOK, [Next]_vars PROVE TypeOK'
  OBVIOUS
<1>1. ASSUME NEW p \in Processes, NEW r \in Roles, Start(p, r), spawned' \in Nat PROVE TypeOK'
  <2>1. [Blank EXCEPT !.role = r, !.version = installed,
                      !.now = IF r = "worker" THEN time ELSE 0] \in Memory
    BY BlankType DEF Memory, TypeOK, Times
  <2>2. pc' \in [Processes -> Positions] /\ mem' \in [Processes -> Memory]
    BY <1>1, <2>1, MoveType DEF Start, Positions
  <2> QED
    BY <1>1, <2>2 DEF Start, TypeOK, world, files, history
<1>2. ASSUME NEW p \in Processes, StartCommand(p) PROVE TypeOK'
  BY <1>2, <1>1 DEF StartCommand, Roles, TypeOK
<1>3. ASSUME NEW p \in Processes, StartWorker(p) PROVE TypeOK'
  BY <1>3, <1>1 DEF StartWorker, Roles, TypeOK
<1>4. ASSUME NEW p \in Processes, Crash(p) PROVE TypeOK'
  <2>1. [Blank EXCEPT !.latest = mem[p].latest] \in Memory
    BY BlankType, MemType DEF Memory
  <2>2. pc' \in [Processes -> Positions] /\ mem' \in [Processes -> Memory]
    BY <1>4, <2>1, MemType, MoveType DEF Crash, Goto, Positions
  <2> QED
    BY <1>4, <2>2 DEF Crash, Fault, TypeOK, world, files, history
<1>5. ASSUME NEW p \in Processes, OrphanEnds(p) PROVE TypeOK'
  <2>1. pc' \in [Processes -> Positions] /\ mem' \in [Processes -> Memory]
    BY <1>5, MemType, MoveType DEF OrphanEnds, Goto, Positions
  <2>2. installed' \in Versions
    BY <1>5, MemType DEF OrphanEnds, TypeOK
  <2> QED
    BY <1>5, <2>1, <2>2 DEF OrphanEnds, TypeOK, files, history
<1>6. CASE Publish
  BY <1>6 DEF Publish, TypeOK, Versions, files, history
<1>7. CASE Tick
  BY <1>7 DEF Tick, TypeOK, Times, files
<1>8. CASE UNCHANGED vars
  BY <1>8 DEF TypeOK, vars, world, files, history
<1> QED
  BY <1>2, <1>3, <1>4, <1>5, <1>6, <1>7, <1>8, StepType DEF Next

\* Every variable of the update keeps its type.
THEOREM TypeCorrect == Spec => []TypeOK
BY InitType, TypeStep, PTL DEF Spec

-----------------------------------------------------------------------------
(* What the steps do to the lock. *)

Busy == Updating \cup {"orphaned"}

\* Move changes one process.
LEMMA MoveEffect ==
  ASSUME TypeOK, NEW p \in Processes, NEW position, NEW m, Move(p, position, m)
  PROVE  /\ pc'[p] = position
         /\ mem'[p] = IF position \in {"done", "killed"} THEN Blank ELSE m
         /\ \A q \in Processes \ {p} : pc'[q] = pc[q] /\ mem'[q] = mem[q]
BY DEF Move, TypeOK

LEMMA LeaveEffect ==
  ASSUME TypeOK, NEW p \in Processes, NEW threw, Leave(p, threw)
  PROVE  /\ pc'[p] = "releasing"
         /\ mem'[p].now = 0 /\ mem'[p].latest = 1
         /\ \A q \in Processes \ {p} : pc'[q] = pc[q] /\ mem'[q] = mem[q]
<1> DEFINE m == [Blank EXCEPT !.role = mem[p].role, !.failed = threw]
<1>0. Blank.now = 0 /\ Blank.latest = 1
  BY DEF Blank
<1>1. m.now = 0 /\ m.latest = 1
  BY <1>0, BlankType DEF Memory
<1> HIDE DEF m
<1>2. Move(p, "releasing", m)
  BY DEF Leave, m
<1> QED
  BY <1>1, <1>2, MoveEffect

\* The time a process works with when it goes on.
LEMMA MoveClock ==
  ASSUME TypeOK, NEW p \in Processes, NEW position, NEW m, Move(p, position, m)
  PROVE  mem'[p].now \in {m.now, 0}
<1>1. Blank.now = 0
  BY DEF Blank
<1> QED
  BY <1>1, MoveEffect

\* The ways a step of p moves p and the lock.
Stays(p) == lock' = lock /\ pc[p] \in Updating /\ pc'[p] \in Updating
Outside(p) ==
  /\ lock' = lock
  /\ pc[p] \notin Busy \cup {"killed"} /\ pc'[p] \notin Busy \cup {"breaking"}
Takes(p) ==
  /\ lock = None /\ lock' = [owner |-> p, at |-> time]
  /\ pc[p] = "opening" /\ pc'[p] = "asking"
Spoils(p) ==
  /\ lock = None /\ lock' = [owner |-> None, at |-> time]
  /\ pc[p] = "opening" /\ pc'[p] = "stat"
FindsStale(p) ==
  /\ lock' = lock /\ lock # None /\ mem[p].now - lock.at >= StaleAge
  /\ pc[p] = "stat" /\ pc'[p] = "breaking"
Breaks(p) == pc[p] = "breaking" /\ lock' = None /\ pc'[p] \notin Busy \cup {"breaking"}
FindsForeign(p) ==
  /\ lock' = lock /\ (lock = None \/ lock.owner # p)
  /\ pc[p] = "releasing" /\ pc'[p] \notin Busy \cup {"breaking"}
Unlinks(p) == pc[p] = "unlinking" /\ lock' = None /\ pc'[p] \notin Busy \cup {"breaking"}

LockMove(p) ==
  \/ Stays(p) \/ Outside(p) \/ Takes(p) \/ Spoils(p)
  \/ FindsStale(p) \/ Breaks(p) \/ FindsForeign(p) \/ Unlinks(p)

LEMMA StepMovesLock ==
  ASSUME TypeOK, NEW p \in Processes, Step(p)
  PROVE  /\ LockMove(p)
         /\ time' = time /\ aged' = aged
         /\ \A q \in Processes \ {p} : pc'[q] = pc[q] /\ mem'[q] = mem[q]
<1> USE DEF Busy, Updating
<1>1. CASE ReadCache(p)
  <2>1. Stays(p) \/ Outside(p)
    BY <1>1, MoveEffect DEF ReadCache, Reads, files, Stays, Outside
  <2> QED
    BY <1>1, <2>1, MoveEffect DEF ReadCache, world, history, LockMove
<1>2. CASE ConsumeNotice(p)
  <2>1. Outside(p)
    BY <1>2, MoveEffect DEF ConsumeNotice, AfterNotice, At, Outside
  <2> QED
    BY <1>2, <2>1, MoveEffect DEF ConsumeNotice, AfterNotice, world, LockMove
<1>3. CASE Schedule(p)
  <2>1. Outside(p)
    BY <1>3, MoveEffect DEF Schedule, Goto, At, Outside
  <2> QED
    BY <1>3, <2>1, MoveEffect DEF Schedule, Goto, world, LockMove
<1>4. CASE OpenLock(p)
  <2>1. Takes(p) \/ Spoils(p) \/ Outside(p)
    BY <1>4, MoveEffect DEF OpenLock, Goto, At, Takes, Spoils, Outside
  <2> QED
    BY <1>4, <2>1, MoveEffect DEF OpenLock, Goto, world, history, LockMove
<1>5. CASE StatLock(p)
  <2>1. FindsStale(p) \/ Outside(p)
    BY <1>5, MoveEffect DEF StatLock, Goto, At, files, FindsStale, Outside
  <2> QED
    BY <1>5, <2>1, MoveEffect DEF StatLock, Goto, world, history, LockMove
<1>6. CASE BreakLock(p)
  <2>1. Breaks(p)
    BY <1>6, MoveEffect DEF BreakLock, At, Breaks
  <2> QED
    BY <1>6, <2>1, MoveEffect DEF BreakLock, world, history, LockMove
<1>7. CASE ReadToken(p)
  <2>1. FindsForeign(p) \/ Stays(p)
    BY <1>7, MoveEffect DEF ReadToken, Goto, Released, At, files, FindsForeign, Stays
  <2> QED
    BY <1>7, <2>1, MoveEffect DEF ReadToken, Goto, world, history, LockMove
<1>8. CASE UnlinkLock(p)
  <2>1. Unlinks(p)
    BY <1>8, MoveEffect DEF UnlinkLock, Goto, Released, At, Unlinks
  <2> QED
    BY <1>8, <2>1, MoveEffect DEF UnlinkLock, Goto, world, history, LockMove
<1>9. CASE SkipUnmanaged(p)
  <2>1. Stays(p)
    BY <1>9, LeaveEffect DEF SkipUnmanaged, At, Stays
  <2> QED
    BY <1>9, <2>1, LeaveEffect DEF SkipUnmanaged, world, LockMove
<1>10. CASE AskRegistry(p)
  <2>1. Stays(p)
    BY <1>10, LeaveEffect, MoveEffect DEF AskRegistry, Goto, At, files, Stays
  <2> QED
    BY <1>10, <2>1, LeaveEffect, MoveEffect DEF AskRegistry, Goto, world, history, LockMove
<1>11. CASE NoteLatest(p)
  <2>1. Stays(p)
    BY <1>11, LeaveEffect, MoveEffect DEF NoteLatest, At, Stays
  <2> QED
    BY <1>11, <2>1, LeaveEffect, MoveEffect DEF NoteLatest, world, LockMove
<1>12. CASE Install(p)
  <2>1. Stays(p)
    BY <1>12, LeaveEffect, MoveEffect DEF Install, Goto, At, files, Stays
  <2> QED
    BY <1>12, <2>1, LeaveEffect, MoveEffect DEF Install, Goto, history, LockMove
<1>13. CASE RecordInstall(p)
  <2>1. Stays(p)
    BY <1>13, LeaveEffect DEF RecordInstall, At, Stays
  <2> QED
    BY <1>13, <2>1, LeaveEffect DEF RecordInstall, world, LockMove
<1>14. CASE RecordFailure(p)
  <2>1. Outside(p)
    BY <1>14, MoveEffect DEF RecordFailure, Goto, At, Outside
  <2> QED
    BY <1>14, <2>1, MoveEffect DEF RecordFailure, Goto, world, LockMove
<1> QED
  BY <1>1, <1>2, <1>3, <1>4, <1>5, <1>6, <1>7, <1>8, <1>9, <1>10, <1>11, <1>12, <1>13, <1>14
     DEF Step

\* A process that starts, or whose orphan ends, is outside the lock before and after; one that
\* is killed keeps what it holds, its orphan in its place.
LEMMA OtherMovesLock ==
  ASSUME TypeOK, NEW p \in Processes,
         StartCommand(p) \/ StartWorker(p) \/ Crash(p) \/ OrphanEnds(p)
  PROVE  /\ lock' = lock /\ time' = time /\ aged' = aged
         /\ pc[p] # "killed"
         /\ pc'[p] # "breaking"
         /\ pc'[p] \in Busy => pc[p] \in Busy
         /\ pc[p] \in Busy => pc'[p] \in Busy \cup {"killed"}
         /\ mem'[p].now = 0 \/ mem'[p].now = time
         /\ \A q \in Processes \ {p} : pc'[q] = pc[q] /\ mem'[q] = mem[q]
<1> USE DEF Busy, Updating
<1>0. ASSUME NEW r, Start(p, r)
      PROVE  /\ lock' = lock /\ time' = time /\ aged' = aged
             /\ pc[p] = "unborn" /\ pc'[p] \in {"opening", "notice"}
             /\ mem'[p].now \in {0, time}
             /\ \A q \in Processes \ {p} : pc'[q] = pc[q] /\ mem'[q] = mem[q]
  <2> DEFINE m == [Blank EXCEPT !.role = r, !.version = installed,
                                !.now = IF r = "worker" THEN time ELSE 0]
  <2>1. m.now \in {0, time}
    BY DEF Blank
  <2>2. Move(p, IF r = "worker" THEN "opening" ELSE "notice", m)
    BY <1>0 DEF Start
  <2> HIDE DEF m
  <2>3. mem'[p].now \in {0, time}
    BY <2>1, <2>2, MoveClock
  <2> QED
    BY <1>0, <2>2, <2>3, MoveEffect DEF Start, At, world, files, history
<1>1. CASE StartCommand(p)
  <2> PICK r \in Roles : Start(p, r)
    BY <1>1 DEF StartCommand, Roles
  <2> QED
    BY <1>0
<1>2. CASE StartWorker(p)
  <2>1. Start(p, "worker")
    BY <1>2 DEF StartWorker
  <2> QED
    BY <1>0, <2>1
<1>3. CASE Crash(p)
  <2>1. CASE pc[p] = "installing"
    BY <1>3, <2>1, MoveEffect DEF Crash, At, Blank, world, files, history
  <2>2. CASE pc[p] # "installing"
    BY <1>3, <2>2, MoveEffect DEF Crash, Goto, At, Blank, world, files, history
  <2> QED
    BY <2>1, <2>2
<1>4. CASE OrphanEnds(p)
  BY <1>4, MoveEffect DEF OrphanEnds, Goto, At, Blank, files, history
<1> QED
  BY <1>1, <1>2, <1>3, <1>4

-----------------------------------------------------------------------------
(* The lock is released. *)

LEMMA ReleasedStep == TypeOK /\ LockReleased /\ [Next]_vars => LockReleased'
<1> SUFFICES ASSUME TypeOK, LockReleased, [Next]_vars PROVE LockReleased'
  OBVIOUS
<1>0. lock # None => lock \in Lock /\ lock.owner \in Processes \cup {None}
  BY DEF TypeOK, Lock
<1>1. ASSUME NEW p \in Processes, Step(p) PROVE LockReleased'
  <2>1. LockMove(p) /\ \A q \in Processes \ {p} : pc'[q] = pc[q]
    BY <1>1, StepMovesLock
  <2>2. CASE Takes(p) \/ Spoils(p)
    BY <2>2 DEF Takes, Spoils, LockReleased, Updating
  <2>3. CASE Breaks(p) \/ Unlinks(p)
    BY <2>3 DEF Breaks, Unlinks, LockReleased
  <2>4. CASE Stays(p)
    BY <1>0, <2>1, <2>4 DEF Stays, LockReleased
  <2>5. CASE Outside(p) \/ FindsStale(p) \/ FindsForeign(p)
    <3>0. lock # None /\ lock.owner = p => pc[p] \in Updating \cup {"orphaned", "killed"}
      BY UpdateAssumption DEF LockReleased
    <3>1. lock' = lock /\ (lock # None => lock.owner # p)
      BY <2>5, <3>0 DEF Outside, FindsStale, FindsForeign, Busy, Updating
    <3> QED
      BY <1>0, <2>1, <3>1 DEF LockReleased
  <2> QED
    BY <2>1, <2>2, <2>3, <2>4, <2>5 DEF LockMove
<1>2. ASSUME NEW p \in Processes,
             StartCommand(p) \/ StartWorker(p) \/ Crash(p) \/ OrphanEnds(p)
      PROVE  LockReleased'
  BY <1>0, <1>2, OtherMovesLock DEF LockReleased, Busy
<1>3. CASE Publish \/ Tick \/ UNCHANGED vars
  BY <1>3 DEF Publish, Tick, vars, files, LockReleased
<1> QED
  BY <1>1, <1>2, <1>3 DEF Next

\* Whatever throws or is killed, a lock that stays is the lock of a killed process or has no
\* token: every way out of the update removes it (runCliUpdateWithLock and its finally).
THEOREM LocksAreReleased == Spec => []LockReleased
<1>1. Init => LockReleased
  BY DEF Init, LockReleased
<1> QED
  BY <1>1, InitType, TypeStep, ReleasedStep, PTL DEF Spec

-----------------------------------------------------------------------------
(* One updater. *)

\* Until a lock has become stale: whoever updates owns the lock, nobody removes it as stale,
\* and it is young.
Exclusive ==
  /\ \A p \in Processes : pc[p] \in Busy => lock # None /\ lock.owner = p
  /\ \A p \in Processes : pc[p] # "breaking"
  /\ lock # None => time - lock.at < StaleAge

\* No process works with a time yet to come.
Clocks == \A p \in Processes : mem[p].now <= time

LockInv == TypeOK /\ Clocks /\ (aged \/ Exclusive)

LEMMA ClockStep == TypeOK /\ Clocks /\ [Next]_vars => Clocks'
<1> SUFFICES ASSUME TypeOK, Clocks, [Next]_vars PROVE Clocks'
  OBVIOUS
<1>0. time \in Nat /\ \A p \in Processes : mem[p].now \in Nat /\ mem[p] \in Memory
  BY MemType DEF TypeOK, Times
<1>1. ASSUME NEW p \in Processes, Step(p) PROVE Clocks'
  <2>1. time' = time /\ \A q \in Processes \ {p} : mem'[q] = mem[q]
    BY <1>1, StepMovesLock
  <2>2. mem'[p].now \in {mem[p].now, time, 0}
    <3>0. /\ [mem[p] EXCEPT !.copy = EmptyCache].now = mem[p].now
          /\ [mem[p] EXCEPT !.copy = EmptyCache, !.now = time].now = time
          /\ [mem[p] EXCEPT !.latest = published].now = mem[p].now
          /\ [mem[p] EXCEPT !.retrying = TRUE].now = mem[p].now
          /\ [mem[p] EXCEPT !.now = time, !.retrying = FALSE].now = time
      BY <1>0 DEF Memory
    <3>1. CASE ReadCache(p)
      <4> DEFINE m == [mem[p] EXCEPT !.copy = cache, !.now = IF At(p, "schedule") THEN time ELSE @]
      <4>1. m.now \in {mem[p].now, time}
        BY <1>0 DEF Memory
      <4>2. Move(p, Reads[pc[p]], m)
        BY <3>1 DEF ReadCache
      <4> HIDE DEF m
      <4> QED
        BY <4>1, <4>2, MoveClock
    <3>2. CASE ConsumeNotice(p)
      BY <3>0, <3>2, MoveClock DEF ConsumeNotice, AfterNotice
    <3>3. CASE Schedule(p)
      BY <3>3, MoveClock DEF Schedule, Goto
    <3>4. CASE OpenLock(p) \/ StatLock(p) \/ BreakLock(p)
      BY <3>0, <3>4, MoveClock DEF OpenLock, StatLock, BreakLock, Goto
    <3>5. CASE ReadToken(p) \/ UnlinkLock(p)
      BY <3>5, MoveClock DEF ReadToken, UnlinkLock, Goto
    <3>6. CASE SkipUnmanaged(p) \/ AskRegistry(p)
      BY <3>0, <3>6, MoveClock, LeaveEffect DEF SkipUnmanaged, AskRegistry, Goto
    <3>7. CASE NoteLatest(p) \/ Install(p)
      BY <3>0, <3>7, MoveClock, LeaveEffect DEF NoteLatest, Install, Goto
    <3>8. CASE RecordInstall(p) \/ RecordFailure(p)
      BY <3>8, MoveClock, LeaveEffect DEF RecordInstall, RecordFailure, Goto
    <3> QED
      BY <1>1, <3>1, <3>2, <3>3, <3>4, <3>5, <3>6, <3>7, <3>8 DEF Step
  <2> QED
    BY <1>0, <2>1, <2>2 DEF Clocks
<1>2. ASSUME NEW p \in Processes,
             StartCommand(p) \/ StartWorker(p) \/ Crash(p) \/ OrphanEnds(p)
      PROVE  Clocks'
  BY <1>0, <1>2, OtherMovesLock DEF Clocks
<1>3. CASE Publish \/ Tick \/ UNCHANGED vars
  BY <1>0, <1>3 DEF Publish, Tick, vars, world, Clocks
<1> QED
  BY <1>1, <1>2, <1>3 DEF Next

LEMMA ExclusiveStep ==
  ASSUME TypeOK, Clocks, aged \/ Exclusive, [Next]_vars
  PROVE  aged' \/ Exclusive'
<1>0. /\ time \in Nat /\ StaleAge \in Nat /\ StaleAge > 0
      /\ lock # None => lock \in Lock /\ lock.owner \in Processes \cup {None} /\ lock.at \in Nat
      /\ None \notin Processes
  BY UpdateAssumption DEF TypeOK, Lock, Times
<1>1. ASSUME NEW p \in Processes, Step(p), Exclusive PROVE Exclusive'
  <2>1. /\ LockMove(p) /\ time' = time
        /\ \A q \in Processes \ {p} : pc'[q] = pc[q] /\ mem'[q] = mem[q]
    BY <1>1, StepMovesLock
  <2>2. CASE Takes(p) \/ Spoils(p)
    <3>1. \A q \in Processes : pc[q] \notin Busy /\ pc[q] # "breaking"
      BY <1>1, <2>2 DEF Takes, Spoils, Exclusive
    <3>2. lock' # None /\ lock'.at = time /\ (pc'[p] \in Busy => lock'.owner = p) /\ pc'[p] # "breaking"
      <4>1. [owner |-> p, at |-> time] \in Lock /\ [owner |-> None, at |-> time] \in Lock
        BY <1>0 DEF Lock, Times
      <4> QED
        BY <2>2, <4>1, UpdateAssumption DEF Takes, Spoils, Busy, Updating
    <3>3. time' - lock'.at < StaleAge
      BY <1>0, <2>1, <3>2
    <3> QED
      BY <2>1, <3>1, <3>2, <3>3 DEF Exclusive
  <2>3. CASE Stays(p) \/ Outside(p) \/ FindsForeign(p)
    BY <1>1, <2>1, <2>3 DEF Stays, Outside, FindsForeign, Exclusive, Busy, Updating
  <2>4. CASE FindsStale(p)
    <3>1. mem[p].now <= time /\ mem[p].now \in Nat
      BY MemType DEF Clocks, Times
    <3> QED
      BY <1>0, <1>1, <2>4, <3>1 DEF FindsStale, Exclusive
  <2>5. CASE Breaks(p) \/ Unlinks(p)
    BY <1>0, <1>1, <2>1, <2>5 DEF Breaks, Unlinks, Exclusive, Busy, Updating
  <2> QED
    BY <2>1, <2>2, <2>3, <2>4, <2>5 DEF LockMove
<1>2. ASSUME NEW p \in Processes, Exclusive,
             StartCommand(p) \/ StartWorker(p) \/ Crash(p) \/ OrphanEnds(p)
      PROVE  Exclusive'
  BY <1>2, OtherMovesLock DEF Exclusive
<1>3. CASE Tick
  <2>1. aged' \/ (~aged /\ ~(lock # None /\ time' - lock.at >= StaleAge))
    BY <1>3, Zenon DEF Tick
  <2>2. ASSUME Exclusive, ~(lock # None /\ time' - lock.at >= StaleAge) PROVE Exclusive'
    <3>1. time' = time + 1 /\ lock' = lock /\ pc' = pc
      BY <1>3 DEF Tick, files
    <3> QED
      BY <1>0, <2>2, <3>1 DEF Exclusive
  <2> QED
    BY <2>1, <2>2
<1>4. CASE Publish \/ UNCHANGED vars
  BY <1>4 DEF Publish, vars, world, files, history, Exclusive
<1>5. ASSUME NEW p \in Processes,
             Step(p) \/ StartCommand(p) \/ StartWorker(p) \/ Crash(p) \/ OrphanEnds(p)
      PROVE  aged' = aged
  BY <1>5, StepMovesLock, OtherMovesLock
<1> QED
  BY <1>1, <1>2, <1>3, <1>4, <1>5 DEF Next

LEMMA LockInvInvariant == Spec => []LockInv
<1>1. Init => LockInv
  <2> SUFFICES ASSUME Init PROVE LockInv
    OBVIOUS
  <2>1. Exclusive
    BY DEF Init, Exclusive, Busy, Updating
  <2>2. Clocks
    BY DEF Init, Clocks, Blank
  <2> QED
    BY <2>1, <2>2, InitType DEF LockInv
<1>2. LockInv /\ [Next]_vars => LockInv'
  BY TypeStep, ClockStep, ExclusiveStep DEF LockInv
<1> QED
  BY <1>1, <1>2, PTL DEF Spec

\* Before a lock has become stale no two processes update at once, killed ones and the npm
\* they leave behind included.
THEOREM OneUpdaterAtATime == Spec => []OneUpdater
<1>1. LockInv => OneUpdater
  BY DEF LockInv, OneUpdater, Exclusive, Busy
<1> QED
  BY <1>1, LockInvInvariant, PTL

-----------------------------------------------------------------------------
(* The cache. *)

\* A write after which nothing is lost found what its process had read.
LEMMA SaveEffect ==
  ASSUME TypeOK, NEW p \in Processes, NEW record, Save(p, record), ~lost'
  PROVE  /\ ~lost /\ cache' = record /\ mem[p].copy = cache
         /\ ~Older(record.attempt, cache.attempt)
<1>1. \/ /\ cache' = record
         /\ lost' = IF mem[p].copy # cache \/ Older(record.attempt, cache.attempt) THEN TRUE ELSE lost
      \/ lost' = TRUE
  BY Zenon DEF Save
<1> QED
  BY <1>1, Zenon

\* What a step does to the cache and to what the histories say of it.
Keeps == cache' = cache /\ lost' = lost /\ owed' = owed /\ lastSpawn' = lastSpawn /\ spawned' <= spawned
Spawns(p) ==
  /\ lastSpawn' = cache'.attempt /\ cache'.attempt = mem[p].now
  /\ ~RecentlyAttempted(p)
Writes(p) ==
  /\ ~lost /\ mem[p].copy = cache
  /\ ~Older(cache'.attempt, cache.attempt)
  /\ owed = cache.notice => owed' = cache'.notice
  /\ \/ lastSpawn' = lastSpawn /\ spawned' <= spawned
     \/ Spawns(p)

LEMMA StepWrites ==
  ASSUME TypeOK, NEW p \in Processes, Step(p), ~lost'
  PROVE  Keeps \/ Writes(p)
<1>0. /\ spawned \in Nat /\ cache \in Cache
      /\ mem[p].copy \in Cache /\ mem[p].now \in Nat
  BY MemType DEF TypeOK, Times
<1>1. CASE ReadCache(p) \/ OpenLock(p) \/ StatLock(p) \/ BreakLock(p)
           \/ ReadToken(p) \/ UnlinkLock(p) \/ AskRegistry(p) \/ Install(p)
  <2>1. cache' = cache /\ owed' = owed /\ lastSpawn' = lastSpawn /\ spawned' = spawned
    BY <1>1 DEF ReadCache, OpenLock, StatLock, BreakLock, ReadToken, UnlinkLock, AskRegistry,
                Install, files, history
  <2>2. lost' = lost
    BY <1>1 DEF ReadCache, OpenLock, StatLock, BreakLock, ReadToken, UnlinkLock, AskRegistry,
                Install, history
  <2> QED
    BY <1>0, <2>1, <2>2 DEF Keeps
<1>2. CASE ConsumeNotice(p)
  <2>1. CASE Shows(p)
    <3> DEFINE record == [mem[p].copy EXCEPT !.notice = None]
    <3>1. Save(p, record) /\ spawned' = spawned /\ lastSpawn' = lastSpawn
      BY <1>2, <2>1 DEF ConsumeNotice
    <3>2. owed = mem[p].copy.notice => owed' = None
      BY <1>2, <2>1 DEF ConsumeNotice
    <3>3. record.attempt = mem[p].copy.attempt /\ record.notice = None
      BY <1>0 DEF Cache
    <3> HIDE DEF record
    <3> QED
      BY <1>0, <3>1, <3>2, <3>3, SaveEffect DEF Writes
  <2>2. CASE ~Shows(p)
    <3>1. UNCHANGED <<cache, lost, owed>> /\ UNCHANGED <<lastSpawn, spawned>>
      BY <1>2, <2>2, Zenon DEF ConsumeNotice
    <3> QED
      BY <1>0, <3>1 DEF Keeps
  <2> QED
    BY <2>1, <2>2
<1>3. CASE Schedule(p)
  <2>1. CASE Due(p)
    <3> DEFINE record == [mem[p].copy EXCEPT !.attempt = mem[p].now]
    <3>1. Save(p, record) /\ owed' = owed
      BY <1>3, <2>1 DEF Schedule
    <3>2. lastSpawn' = mem[p].now \/ (lastSpawn' = lastSpawn /\ spawned' = spawned)
      BY <1>3, <2>1 DEF Schedule
    <3>3. record.attempt = mem[p].now /\ record.notice = mem[p].copy.notice
      BY <1>0 DEF Cache
    <3> HIDE DEF record
    <3> QED
      BY <1>0, <2>1, <3>1, <3>2, <3>3, SaveEffect DEF Writes, Spawns, Due
  <2>2. CASE ~Due(p)
    <3>1. UNCHANGED <<cache, lost, lastSpawn, spawned>> /\ owed' = owed
      BY <1>3, <2>2, Zenon DEF Schedule
    <3> QED
      BY <1>0, <3>1 DEF Keeps
  <2> QED
    BY <2>1, <2>2
<1>4. CASE SkipUnmanaged(p)
  <2> DEFINE record == [mem[p].copy EXCEPT !.checked = mem[p].now, !.attempt = mem[p].now]
  <2>1. record.notice = mem[p].copy.notice
    BY <1>0 DEF Cache
  <2>2. Save(p, record) /\ owed' = owed /\ lastSpawn' = lastSpawn /\ spawned' = spawned
    BY <1>4 DEF SkipUnmanaged
  <2> HIDE DEF record
  <2> QED
    BY <1>0, <2>1, <2>2, SaveEffect DEF Writes
<1>5. CASE NoteLatest(p)
  <2>1. Checked(p).notice = mem[p].copy.notice
    BY <1>0 DEF Checked, Cache
  <2>2. Save(p, Checked(p)) /\ owed' = owed /\ lastSpawn' = lastSpawn /\ spawned' = spawned
    BY <1>5 DEF NoteLatest
  <2> QED
    BY <1>0, <2>1, <2>2, SaveEffect DEF Writes
<1>6. CASE RecordInstall(p)
  <2> DEFINE record == [Checked(p) EXCEPT !.notice = NoticeOf(p)]
  <2>1. record.notice = NoticeOf(p)
    BY <1>0 DEF Checked, Cache
  <2>2. Save(p, record) /\ owed' = NoticeOf(p) /\ lastSpawn' = lastSpawn /\ spawned' = spawned
    BY <1>6 DEF RecordInstall
  <2> HIDE DEF record
  <2> QED
    BY <1>0, <2>1, <2>2, SaveEffect DEF Writes
<1>7. CASE RecordFailure(p)
  <2> DEFINE record == [mem[p].copy EXCEPT !.attempt = time]
  <2>1. record.notice = mem[p].copy.notice
    BY <1>0 DEF Cache
  <2>2. Save(p, record) /\ owed' = owed /\ lastSpawn' = lastSpawn /\ spawned' = spawned
    BY <1>7 DEF RecordFailure
  <2> HIDE DEF record
  <2> QED
    BY <1>0, <2>1, <2>2, SaveEffect DEF Writes
<1> QED
  BY <1>1, <1>2, <1>3, <1>4, <1>5, <1>6, <1>7 DEF Step

\* Every other step leaves the cache alone.
LEMMA OthersKeep ==
  ASSUME TypeOK, [Next]_vars, ~\E p \in Processes : Step(p)
  PROVE  Keeps
<1>0. spawned \in Nat
  BY DEF TypeOK
<1>1. ASSUME NEW p \in Processes, StartCommand(p) PROVE Keeps
  BY <1>0, <1>1 DEF StartCommand, Start, Keeps, files, history
<1>2. ASSUME NEW p \in Processes, StartWorker(p) PROVE Keeps
  BY <1>0, <1>2 DEF StartWorker, Start, Keeps, files, history
<1>3. ASSUME NEW p \in Processes, Crash(p) \/ OrphanEnds(p) PROVE Keeps
  BY <1>0, <1>3 DEF Crash, OrphanEnds, Keeps, files, history
<1>4. CASE Publish \/ Tick \/ UNCHANGED vars
  BY <1>0, <1>4 DEF Publish, Tick, vars, Keeps, files, history
<1> QED
  BY <1>1, <1>2, <1>3, <1>4 DEF Next

\* Any step, as far as the cache goes.
LEMMA CacheMoves ==
  ASSUME TypeOK, [Next]_vars, ~lost'
  PROVE  Keeps \/ \E p \in Processes : Writes(p)
BY StepWrites, OthersKeep

LEMMA NoticeStep == TypeOK /\ NoticeKept /\ [Next]_vars => NoticeKept'
<1> SUFFICES ASSUME TypeOK, NoticeKept, [Next]_vars, ~lost' PROVE cache'.notice = owed'
  BY DEF NoticeKept
<1>1. CASE Keeps
  BY <1>1 DEF Keeps, NoticeKept
<1>2. ASSUME NEW p \in Processes, Writes(p) PROVE cache'.notice = owed'
  BY <1>2 DEF Writes, NoticeKept
<1> QED
  BY <1>1, <1>2, CacheMoves

LEMMA NoticeInvariant == Spec => [](TypeOK /\ NoticeKept)
<1>1. Init => NoticeKept
  BY DEF Init, NoticeKept, EmptyCache
<1> QED
  BY <1>1, InitType, TypeStep, NoticeStep, PTL DEF Spec

\* As long as no write to the cache is lost, the notice of an update waits there from the
\* update that made it until it is shown or replaced.
THEOREM NoticeIsKept == Spec => []NoticeKept
BY NoticeInvariant, PTL

LEMMA NoticeOnceStep ==
  ASSUME TypeOK, NoticeKept, [Next]_vars, NEW p \in Processes,
         Shows(p), ~Shows(p)', pc'[p] # "killed", ~lost'
  PROVE  mem[p].copy.notice = owed
<1>0. pc[p] = "consuming"
  BY DEF Shows, At
<1>1. pc'[p] # pc[p] \/ mem'[p] # mem[p]
  BY DEF Shows, At
<1>2. CASE ConsumeNotice(p)
  <2>1. Save(p, [mem[p].copy EXCEPT !.notice = None])
    BY <1>2 DEF ConsumeNotice
  <2> QED
    BY <2>1, SaveEffect DEF NoticeKept
<1>3. ASSUME NEW q \in Processes, Step(q) PROVE ConsumeNotice(p)
  <2>1. q = p
    BY <1>1, <1>3, StepMovesLock
  <2> QED
    BY <1>0, <1>3, <2>1
       DEF Step, ReadCache, Reads, Schedule, OpenLock, StatLock, BreakLock, ReadToken, UnlinkLock,
           SkipUnmanaged, AskRegistry, NoteLatest, Install, RecordInstall, RecordFailure, At
<1>4. ASSUME NEW q \in Processes,
             StartCommand(q) \/ StartWorker(q) \/ Crash(q) \/ OrphanEnds(q)
      PROVE  FALSE
  <2>1. q = p
    BY <1>1, <1>4, OtherMovesLock
  <2>2. CASE StartCommand(p) \/ StartWorker(p) \/ OrphanEnds(p)
    BY <1>0, <2>2 DEF StartCommand, StartWorker, Start, OrphanEnds, At
  <2>3. CASE Crash(p)
    BY <1>0, <2>3, MoveEffect DEF Crash, Goto, At
  <2> QED
    BY <1>4, <2>1, <2>2, <2>3
<1>5. CASE Publish \/ Tick \/ UNCHANGED vars
  BY <1>1, <1>5 DEF Publish, Tick, vars
<1> QED
  BY <1>2, <1>3, <1>4, <1>5 DEF Next

\* As long as no write to the cache is lost, a command line shows only a notice that nobody
\* has shown since the update that made it.
THEOREM NoticeShownOnce == Spec => NoticeOnce
<1>1. TypeOK /\ NoticeKept /\ [Next]_vars =>
        [\A p \in Processes :
           Shows(p) /\ ~Shows(p)' /\ pc'[p] # "killed" => lost' \/ mem[p].copy.notice = owed]_vars
  BY NoticeOnceStep
<1> QED
  BY <1>1, NoticeInvariant, PTL DEF Spec, NoticeOnce

\* The attempt in the cache is at least as late as the last start of a worker.
Attempted ==
  \/ lost
  \/ lastSpawn = None
  \/ cache.attempt # None /\ cache.attempt >= lastSpawn

LEMMA AttemptedStep ==
  ASSUME TypeOK, Attempted, [Next]_vars
  PROVE  Attempted'
<1> SUFFICES ASSUME ~lost' PROVE lastSpawn' = None \/ (cache'.attempt # None /\ cache'.attempt >= lastSpawn')
  BY Zenon DEF Attempted
<1>0. /\ lastSpawn \in Nat \cup {None} /\ cache.attempt \in Nat \cup {None}
      /\ cache'.attempt \in Nat \cup {None} /\ None \notin Nat
  BY TypeStep, UpdateAssumption DEF TypeOK, Cache, Times
<1>1. CASE Keeps
  BY <1>1 DEF Keeps, Attempted
<1>2. ASSUME NEW p \in Processes, Writes(p)
      PROVE  lastSpawn' = None \/ (cache'.attempt # None /\ cache'.attempt >= lastSpawn')
  <2>1. CASE Spawns(p)
    BY <1>0, <2>1, MemType DEF Spawns, Times
  <2>2. CASE lastSpawn' = lastSpawn
    BY <1>0, <1>2, <2>2 DEF Writes, Older, Attempted
  <2> QED
    BY <1>2, <2>1, <2>2 DEF Writes
<1> QED
  BY <1>1, <1>2, CacheMoves

\* As long as no write to the cache is lost, two workers are started at least Throttle apart,
\* however the command lines that start them overlap (scheduleAutomaticCliUpdate).
THEOREM WorkersAreThrottled == Spec => ThrottleHolds
<1>1. Init => Attempted
  BY DEF Init, Attempted, EmptyCache
<1>2. TypeOK /\ Attempted /\ [Next]_vars => Attempted'
  BY AttemptedStep
<1>3. TypeOK /\ Attempted /\ [Next]_vars =>
        [spawned' > spawned /\ lastSpawn # None =>
           lost' \/ lastSpawn' >= lastSpawn + Throttle]_vars
  <2> SUFFICES ASSUME TypeOK, Attempted, [Next]_vars, spawned' > spawned, lastSpawn # None, ~lost'
               PROVE  lastSpawn' >= lastSpawn + Throttle
    OBVIOUS
  <2>0. /\ lastSpawn \in Nat /\ cache.attempt \in Nat \cup {None}
        /\ spawned \in Nat /\ spawned' \in Nat /\ Throttle \in Nat
    BY TypeStep, UpdateAssumption DEF TypeOK, Cache, Times
  <2>1. PICK p \in Processes : Writes(p) /\ Spawns(p)
    BY <2>0, CacheMoves DEF Keeps, Writes
  <2>2. mem[p].copy.attempt = cache.attempt /\ mem[p].now \in Nat
    BY <2>1, MemType DEF Writes, Times
  <2> QED
    BY <2>0, <2>1, <2>2 DEF Writes, Spawns, RecentlyAttempted, Attempted
<1> QED
  BY <1>1, <1>2, <1>3, TypeCorrect, PTL DEF Spec, ThrottleHolds

-----------------------------------------------------------------------------
(* The installed version. *)

\* Between asking the registry and the end of npm.
Late == {"noting", "noted", "installing", "orphaned"}

\* What is installed and what a process is about to install has been published, and until a
\* lock has become stale the latter is not older than the former.
VersionInv ==
  /\ installed <= published
  /\ \A p \in Processes : mem[p].latest <= published
  /\ aged \/ \A p \in Processes : pc[p] \in Late => installed <= mem[p].latest

\* The version a process is about to install when it goes on.
LEMMA MoveVersion ==
  ASSUME TypeOK, NEW p \in Processes, NEW position, NEW m, Move(p, position, m)
  PROVE  /\ pc'[p] = position
         /\ mem'[p].latest \in {m.latest, 1}
         /\ position \in Late => mem'[p].latest = m.latest
<1>1. Blank.latest = 1
  BY DEF Blank
<1> QED
  BY <1>1, MoveEffect DEF Late

\* A process hears a version from the registry and keeps it until npm has ended.
Hears(p) ==
  /\ published' = published
  /\ mem'[p].latest \in {mem[p].latest, published, 1}
  /\ pc'[p] \in Late => \/ mem'[p].latest = published
                        \/ pc[p] \in Late /\ mem'[p].latest = mem[p].latest

Installs(p) ==
  /\ pc[p] \in {"installing", "orphaned"} /\ installed' = mem[p].latest
  /\ pc'[p] \notin Late

LEMMA ProcessHears ==
  ASSUME TypeOK, NEW p \in Processes,
         Step(p) \/ StartCommand(p) \/ StartWorker(p) \/ Crash(p) \/ OrphanEnds(p)
  PROVE  Hears(p) /\ (installed' = installed \/ Installs(p))
<1> USE DEF Late
<1>0. /\ [mem[p] EXCEPT !.copy = EmptyCache].latest = mem[p].latest
      /\ [mem[p] EXCEPT !.copy = EmptyCache, !.now = time].latest = mem[p].latest
      /\ [mem[p] EXCEPT !.latest = published].latest = published
      /\ [mem[p] EXCEPT !.retrying = TRUE].latest = mem[p].latest
      /\ [mem[p] EXCEPT !.now = time, !.retrying = FALSE].latest = mem[p].latest
      /\ [Blank EXCEPT !.latest = mem[p].latest].latest = mem[p].latest
  BY MemType, BlankType DEF Memory
<1>1. CASE ReadCache(p)
  <2> DEFINE m == [mem[p] EXCEPT !.copy = cache, !.now = IF At(p, "schedule") THEN time ELSE @]
  <2>1. m.latest = mem[p].latest
    BY MemType DEF Memory
  <2>2. Move(p, Reads[pc[p]], m) /\ Reads[pc[p]] \in Late => pc[p] \in Late
    BY <1>1 DEF ReadCache, Reads
  <2>3. Move(p, Reads[pc[p]], m)
    BY <1>1 DEF ReadCache
  <2> HIDE DEF m
  <2> QED
    BY <1>1, <2>1, <2>2, <2>3, MoveVersion DEF ReadCache, world, Hears
<1>2. CASE ConsumeNotice(p)
  <2> DEFINE m == [mem[p] EXCEPT !.copy = EmptyCache]
             n == [mem[p] EXCEPT !.copy = EmptyCache, !.now = time]
  <2>0. Move(p, "schedule", m) \/ Move(p, "opening", n)
    BY <1>2 DEF ConsumeNotice, AfterNotice
  <2>a. m.latest = mem[p].latest /\ n.latest = mem[p].latest
    BY <1>0
  <2> HIDE DEF m, n
  <2>1. pc'[p] \in {"schedule", "opening"} /\ mem'[p].latest \in {mem[p].latest, 1}
    BY <2>0, <2>a, MoveVersion
  <2> QED
    BY <1>2, <2>1 DEF ConsumeNotice, world, Hears
<1>3. CASE Schedule(p)
  BY <1>3, MoveVersion DEF Schedule, Goto, world, Hears
<1>4. CASE OpenLock(p)
  <2> DEFINE m == [mem[p] EXCEPT !.now = time, !.retrying = FALSE]
  <2>0. Move(p, "asking", m) \/ Move(p, "stat", mem[p])
    BY <1>4 DEF OpenLock, Goto
  <2>a. m.latest = mem[p].latest
    BY <1>0
  <2> HIDE DEF m
  <2>1. pc'[p] \in {"asking", "stat"} /\ mem'[p].latest \in {mem[p].latest, 1}
    BY <2>0, <2>a, MoveVersion
  <2> QED
    BY <1>4, <2>1 DEF OpenLock, world, Hears
<1>5. CASE StatLock(p) \/ BreakLock(p)
  <2> DEFINE m == [mem[p] EXCEPT !.retrying = TRUE]
  <2>0. PICK position \in {"breaking", "opening", "done"} :
          Move(p, position, m) \/ Move(p, position, mem[p])
    BY <1>5 DEF StatLock, BreakLock, Goto
  <2>a. m.latest = mem[p].latest
    BY <1>0
  <2> HIDE DEF m
  <2>1. pc'[p] \in {"breaking", "opening", "done"} /\ mem'[p].latest \in {mem[p].latest, 1}
    BY <2>0, <2>a, MoveVersion
  <2> QED
    BY <1>5, <2>1 DEF StatLock, BreakLock, world, Hears
<1>6. CASE ReadToken(p) \/ UnlinkLock(p)
  BY <1>6, MoveVersion DEF ReadToken, UnlinkLock, Released, Goto, world, Hears
<1>7. CASE SkipUnmanaged(p) \/ RecordInstall(p)
  BY <1>7, LeaveEffect DEF SkipUnmanaged, RecordInstall, world, Hears
<1>8. CASE AskRegistry(p)
  <2>1. CASE Move(p, "noting", [mem[p] EXCEPT !.latest = published])
    <3> DEFINE m == [mem[p] EXCEPT !.latest = published]
    <3>0. Move(p, "noting", m) /\ m.latest = published
      BY <1>0, <2>1
    <3> HIDE DEF m
    <3>1. pc'[p] = "noting" /\ mem'[p].latest = published
      BY <3>0, MoveVersion
    <3> QED
      BY <1>8, <3>1 DEF AskRegistry, world, Hears
  <2>2. CASE Goto(p, "unmanaged")
    BY <1>8, <2>2, MoveVersion DEF AskRegistry, Goto, world, Hears
  <2>3. CASE Leave(p, TRUE)
    BY <1>8, <2>3, LeaveEffect DEF AskRegistry, world, Hears
  <2> QED
    BY <1>8, <2>1, <2>2, <2>3 DEF AskRegistry
<1>9. CASE NoteLatest(p)
  <2>1. CASE Move(p, "installing", [mem[p] EXCEPT !.copy = EmptyCache])
    <3> DEFINE m == [mem[p] EXCEPT !.copy = EmptyCache]
    <3>0. Move(p, "installing", m) /\ m.latest = mem[p].latest
      BY <1>0, <2>1
    <3> HIDE DEF m
    <3>1. pc'[p] = "installing" /\ mem'[p].latest = mem[p].latest
      BY <3>0, MoveVersion
    <3> QED
      BY <1>9, <3>1 DEF NoteLatest, At, world, Hears
  <2>2. CASE Leave(p, FALSE)
    BY <1>9, <2>2, LeaveEffect DEF NoteLatest, world, Hears
  <2> QED
    BY <1>9, <2>1, <2>2 DEF NoteLatest
<1>10. CASE Install(p)
  <2>1. CASE Goto(p, "recording")
    BY <1>10, <2>1, MoveVersion DEF Install, Goto, At, Hears, Installs
  <2>2. CASE Leave(p, TRUE)
    BY <1>10, <2>2, LeaveEffect DEF Install, At, Hears, Installs
  <2> QED
    BY <1>10, <2>1, <2>2 DEF Install
<1>11. CASE RecordFailure(p)
  BY <1>11, MoveVersion DEF RecordFailure, Goto, world, Hears
<1>12. ASSUME NEW r, Start(p, r) PROVE Hears(p) /\ installed' = installed
  <2> DEFINE m == [Blank EXCEPT !.role = r, !.version = installed,
                                !.now = IF r = "worker" THEN time ELSE 0]
  <2>1. Blank.latest = 1
    BY DEF Blank
  <2>2. m.latest = 1
    BY <2>1, BlankType DEF Memory
  <2>3. Move(p, IF r = "worker" THEN "opening" ELSE "notice", m)
    BY <1>12 DEF Start
  <2> HIDE DEF m
  <2> QED
    BY <1>12, <2>2, <2>3, MoveVersion DEF Start, world, Hears
<1>13. CASE StartCommand(p) \/ StartWorker(p)
  <2>1. PICK r \in Roles : Start(p, r)
    BY <1>13 DEF StartCommand, StartWorker, Roles
  <2> QED
    BY <1>12, <2>1
<1>14. CASE Crash(p)
  <2>1. CASE At(p, "installing")
    <3> DEFINE m == [Blank EXCEPT !.latest = mem[p].latest]
    <3>1. Move(p, "orphaned", m) /\ m.latest = mem[p].latest
      BY <1>0, <1>14, <2>1 DEF Crash
    <3> HIDE DEF m
    <3>2. mem'[p].latest = mem[p].latest
      BY <3>1, MoveVersion
    <3> QED
      BY <1>14, <2>1, <3>2 DEF Crash, At, world, Hears
  <2>2. CASE ~At(p, "installing")
    BY <1>14, <2>2, MoveVersion DEF Crash, Goto, world, Hears
  <2> QED
    BY <2>1, <2>2
<1>15. CASE OrphanEnds(p)
  BY <1>15, MoveVersion DEF OrphanEnds, Goto, At, Hears, Installs
<1> QED
  BY <1>1, <1>2, <1>3, <1>4, <1>5, <1>6, <1>7, <1>8, <1>9, <1>10, <1>11, <1>13, <1>14, <1>15
     DEF Step

LEMMA VersionStep ==
  ASSUME LockInv, VersionInv, [Next]_vars
  PROVE  VersionInv' /\ (aged \/ installed' >= installed)
<1>0. /\ TypeOK
      /\ installed \in Nat /\ published \in Nat /\ published >= 1
      /\ \A q \in Processes : mem[q].latest \in Nat
  BY MemType DEF LockInv, TypeOK, Versions
<1>1. ASSUME NEW p \in Processes,
             Step(p) \/ StartCommand(p) \/ StartWorker(p) \/ Crash(p) \/ OrphanEnds(p)
      PROVE  VersionInv' /\ (aged \/ installed' >= installed)
  <2>1. /\ Hears(p) /\ (installed' = installed \/ Installs(p))
        /\ aged' = aged
        /\ \A q \in Processes \ {p} : pc'[q] = pc[q] /\ mem'[q] = mem[q]
    BY <1>0, <1>1, ProcessHears, StepMovesLock, OtherMovesLock
  <2>2. \A q \in Processes : mem'[q].latest <= published'
    BY <1>0, <2>1 DEF Hears, VersionInv
  <2>3. installed' <= published'
    BY <1>0, <2>1 DEF Hears, Installs, VersionInv
  <2>4. ASSUME ~aged, Installs(p)
        PROVE  /\ installed' >= installed
               /\ \A q \in Processes : pc'[q] \notin Late
    <3>1. \A q \in Processes \ {p} : pc[q] \notin Busy
      BY <2>4, UpdateAssumption DEF Installs, LockInv, Exclusive, Busy, Updating
    <3>2. installed' >= installed
      BY <1>0, <2>4 DEF Installs, VersionInv, Late
    <3> QED
      BY <2>1, <2>4, <3>1, <3>2 DEF Installs, Busy, Updating, Late
  <2>5. ASSUME ~aged, installed' = installed
        PROVE  \A q \in Processes : pc'[q] \in Late => installed' <= mem'[q].latest
    BY <1>0, <2>1, <2>5 DEF Hears, VersionInv
  <2>6. aged \/ installed' >= installed
    BY <1>0, <2>1, <2>4
  <2>7. aged' \/ \A q \in Processes : pc'[q] \in Late => installed' <= mem'[q].latest
    BY <2>1, <2>4, <2>5
  <2> QED
    BY <2>2, <2>3, <2>6, <2>7 DEF VersionInv
<1>2. CASE Publish
  <2>1. /\ published' = published + 1 /\ installed' = installed
        /\ pc' = pc /\ mem' = mem
    BY <1>2 DEF Publish
  <2>2. aged' = aged
    BY <1>2 DEF Publish, history
  <2> QED
    BY <1>0, <2>1, <2>2 DEF VersionInv
<1>3. CASE Tick
  <2>1. published' = published /\ installed' = installed /\ pc' = pc /\ mem' = mem
    BY <1>3 DEF Tick
  <2>2. aged => aged'
    BY <1>3, Zenon DEF Tick
  <2> QED
    BY <1>0, <2>1, <2>2 DEF VersionInv
<1>4. CASE UNCHANGED vars
  BY <1>0, <1>4 DEF vars, world, history, VersionInv
<1> QED
  BY <1>1, <1>2, <1>3, <1>4 DEF Next

\* Before a lock has become stale the installed version never falls, whichever processes and
\* orphaned installations overlap (runCliUpdate asks the registry inside the lock).
THEOREM InstalledNeverFalls == Spec => NeverDowngrades
<1>1. Init => VersionInv
  <2> SUFFICES ASSUME Init PROVE VersionInv
    OBVIOUS
  <2>1. Blank.latest = 1
    BY DEF Blank
  <2> QED
    BY <2>1 DEF Init, VersionInv, Late
<1>2. LockInv /\ VersionInv /\ [Next]_vars => VersionInv'
  BY VersionStep
<1>3. LockInv /\ VersionInv /\ [Next]_vars => [aged \/ installed' >= installed]_vars
  BY VersionStep
<1> QED
  BY <1>1, <1>2, <1>3, LockInvInvariant, PTL DEF Spec, NeverDowngrades
=============================================================================
