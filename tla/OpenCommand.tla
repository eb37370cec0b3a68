----------------------------- MODULE OpenCommand -----------------------------
(***************************************************************************)
(* How command lines start and stop Bridge and request-control processes   *)
(* (packages/cli/src/features/bridge/process.ts, commands/browser.ts,      *)
(* commands/bridge.ts, commands/daemon.ts,                                 *)
(* features/browser/network-control-process.ts).                           *)
(*                                                                         *)
(* A directory remembers its page in a log: the Bridge it uses and its     *)
(* request control.  A state file per Bridge address names the process     *)
(* that serves it.  open prepares a Bridge (the one named by --bridge, the *)
(* remembered one, or one of its own), starts a request control, opens the *)
(* page, writes the log and stops the Bridge it no longer uses; an open    *)
(* that throws undoes what it has started.  start and the commands that    *)
(* work with runtimes prepare a Bridge, stop and kill end one, stack       *)
(* rewrites the log.  Command lines run at the same time, each between     *)
(* reads and writes of files that the others may change.                   *)
(*                                                                         *)
(* The browser and what a control does (NetworkControl) are left out:      *)
(* opening and closing the page succeed or throw.  A hook of an extension  *)
(* may prepare a Bridge as well: a Use that runs beside its command.       *)
(***************************************************************************)
EXTENDS Naturals, FiniteSets

CONSTANTS
  Commands,    \* command lines, each of them run once
  Directories, \* working directories
  Urls,        \* addresses of Bridges on this machine
  Taken,       \* those at which another service answers
  Servers,     \* Bridge processes
  Controls,    \* request-control processes
  MaxRunning,  \* bound: command lines that run at one time
  MaxFaults,   \* bound: crashes, failed writes and timeouts
  None,        \* undefined, null, or no file
  Foreign      \* a service that is no Bridge

Context == [bridge : Urls \cup {None}, control : Controls \cup {None}]
Kinds == {"open", "start", "stop", "kill", "stack"}

\* The variables of a command: its arguments, the context it has read (previousOpenContext), the
\* address it works on, whether for a Bridge of its own, whether it is an option of stop that
\* names it, bridgeUrl, the process it started or is stopping, the request control and whether
\* it has started it.
Command == [kind : Kinds, dir : Directories \cup {None}, previous : Context \cup {None},
            url : Urls \cup {None}, dedicated : BOOLEAN, named : BOOLEAN,
            bridge : Urls \cup {None}, server : Servers \cup {None},
            control : Controls \cup {None}, started : BOOLEAN]

ASSUME OpenAssumption ==
  /\ Taken \subseteq Urls
  /\ {None, Foreign} \cap (Servers \cup Controls \cup Urls \cup Directories \cup Context) = {}
  /\ None # Foreign
  /\ {MaxRunning, MaxFaults} \subseteq Nat

VARIABLES
  listener,   \* listener[u] : who answers at an address
  file,       \* file[u] : the process the state file of an address names
  log,        \* log[d] : what a directory remembers of its page
  server,     \* server[s] : a Bridge process
  address,    \* address[s] : where it serves, None while the system may choose
  control,    \* control[k] : a request-control process
  pc,         \* where each command stands
  cmd,        \* its variables
  loose,      \* history: processes whose record a fault, an overlapping command or stack lost
  standalone, \* history: Bridges that start or a Use started, or a stop that named another left
  explicit,   \* history: addresses named with --bridge
  lapsed,     \* history: addresses whose Bridge ended while a page or command named it
  faults      \* counted against their bound

processes == <<listener, server, address>>
history == <<loose, standalone, explicit, lapsed>>
vars == <<processes, file, log, control, pc, cmd, history, faults>>

Positions == {"idle", "ensure", "dedicated", "starting", "probing", "write", "control", "page",
              "log", "undo", "stack", "closing", "hooks", "unlog", "stopSignal", "stopRemove",
              "done"}

TypeOK ==
  /\ listener \in [Urls -> Servers \cup {None, Foreign}]
  /\ file \in [Urls -> Servers \cup {None}]
  /\ log \in [Directories -> Context \cup {None}]
  /\ server \in [Servers -> {"unborn", "starting", "up", "signalled", "dead"}]
  /\ address \in [Servers -> Urls \cup {None}]
  /\ control \in [Controls -> {"unborn", "alive", "dead"}]
  /\ pc \in [Commands -> Positions]
  /\ cmd \in [Commands -> Command]
  /\ loose \subseteq Servers \cup Controls
  /\ standalone \subseteq Servers
  /\ explicit \subseteq Urls /\ lapsed \subseteq Urls
  /\ faults \in Nat

NoCommand == [kind |-> "open", dir |-> None, previous |-> None, url |-> None,
              dedicated |-> FALSE, named |-> FALSE, bridge |-> None, server |-> None,
              control |-> None, started |-> FALSE]

Init ==
  /\ listener = [u \in Urls |-> IF u \in Taken THEN Foreign ELSE None]
  /\ file = [u \in Urls |-> None]
  /\ log = [d \in Directories |-> None]
  /\ server = [s \in Servers |-> "unborn"]
  /\ address = [s \in Servers |-> None]
  /\ control = [k \in Controls |-> "unborn"]
  /\ pc = [c \in Commands |-> "idle"]
  /\ cmd = [c \in Commands |-> NoCommand]
  /\ loose = {} /\ standalone = {} /\ explicit = {} /\ lapsed = {}
  /\ faults = 0

-----------------------------------------------------------------------------
(* Parts of the actions. *)

At(c, position) == pc[c] = position

\* Go on with the variables m; a command that has ended has none.
Move(c, position, m) ==
  /\ pc' = [pc EXCEPT ![c] = position]
  /\ cmd' = [cmd EXCEPT ![c] = IF position = "done" THEN NoCommand ELSE m]

Goto(c, position) == Move(c, position, cmd[c])

\* An exception: open undoes what it has done, the others end.
Throw(c) == Goto(c, IF cmd[c].kind = "open" THEN "undo" ELSE "done")

Fault == faults < MaxFaults /\ faults' = faults + 1

Alive == {s \in Servers : server[s] \in {"starting", "up", "signalled"}}
Serving(u) == listener[u] \in Servers

BridgeOf(context) == IF context = None THEN None ELSE context.bridge
ControlOf(context) == IF context = None THEN None ELSE context.control

\* What a signal (SIGTERM) makes of a process.
Signalled(s) ==
  IF server[s] = "up" THEN "signalled" ELSE IF server[s] = "starting" THEN "dead" ELSE server[s]

Signal(s) == server' = [server EXCEPT ![s] = Signalled(s)] /\ UNCHANGED <<listener, address>>

\* The processes a context stands for.
Behind(context) ==
  {s \in Alive : address[s] # None /\ address[s] = BridgeOf(context)} \cup
  ({ControlOf(context)} \ {None})

\* What is lost when a command acts on a context that another command has replaced.
Overtaken(c) ==
  IF cmd[c].dir = None \/ log[cmd[c].dir] = cmd[c].previous THEN {}
  ELSE Behind(log[cmd[c].dir]) \cup Behind(cmd[c].previous)
         \cup Behind([bridge |-> cmd[c].bridge, control |-> cmd[c].control])

-----------------------------------------------------------------------------
(* The commands start here. *)

Running == {c \in Commands : pc[c] \notin {"idle", "done"}}

Begin(c, m, position) ==
  /\ At(c, "idle")
  /\ Cardinality(Running) < MaxRunning
  /\ Move(c, position, m)

\* open: --no-bridge, --bridge, --port or nothing; a remembered Bridge is reused if it fits.
Open(c, d) ==
  LET m == [NoCommand EXCEPT !.dir = d, !.previous = log[d]]
      Reuse == Begin(c, [m EXCEPT !.url = log[d].bridge], "ensure")
      Own(u) == Begin(c, [m EXCEPT !.url = u, !.dedicated = TRUE], "dedicated")
      remembered == BridgeOf(log[d])
  IN  /\ \/ Begin(c, m, "control") /\ UNCHANGED explicit
         \/ \E u \in Urls : /\ Begin(c, [m EXCEPT !.url = u], "ensure")
                            /\ explicit' = explicit \cup {u}
         \/ \E u \in Urls : (IF remembered = u THEN Reuse ELSE Own(u)) /\ UNCHANGED explicit
         \/ (IF remembered # None THEN Reuse ELSE Own(None)) /\ UNCHANGED explicit
      /\ UNCHANGED <<processes, file, log, control, loose, standalone, lapsed, faults>>

Start(c, u) ==
  /\ Begin(c, [NoCommand EXCEPT !.kind = "start", !.url = u], "ensure")
  /\ UNCHANGED <<processes, file, log, control, history, faults>>

\* A command that works with runtimes (runtimes, snapshot, run-action, wait-for and those of
\* extensions): its address is named, remembered or the default one; without any it throws.
Use(c, d) ==
  /\ \/ \E u \in Urls : Begin(c, [NoCommand EXCEPT !.kind = "start", !.url = u], "ensure")
     \/ /\ BridgeOf(log[d]) # None
        /\ Begin(c, [NoCommand EXCEPT !.kind = "start", !.url = BridgeOf(log[d])], "ensure")
  /\ UNCHANGED <<processes, file, log, control, history, faults>>

Stack(c, d) ==
  /\ log[d] # None
  /\ Begin(c, [NoCommand EXCEPT !.kind = "stack", !.dir = d, !.previous = log[d]], "stack")
  /\ UNCHANGED <<processes, file, log, control, history, faults>>

Stop(c, d) ==
  /\ Begin(c, [NoCommand EXCEPT !.kind = "stop", !.dir = d, !.previous = log[d]], "closing")
  /\ UNCHANGED <<processes, file, log, control, history, faults>>

\* kill lists the state files first, and works with what it read there.
Kill(c, u) ==
  /\ file[u] # None
  /\ Begin(c, [NoCommand EXCEPT !.kind = "kill", !.url = u, !.server = file[u]], "stopSignal")
  /\ UNCHANGED <<processes, file, log, control, history, faults>>

-----------------------------------------------------------------------------
(* ensureBridge and startDedicatedBridge. *)

Spawn(c) ==
  /\ \E s \in Servers :
       /\ server[s] = "unborn"
       /\ server' = [server EXCEPT ![s] = "starting"]
       /\ address' = [address EXCEPT ![s] = cmd[c].url]
       /\ Move(c, "starting", [cmd[c] EXCEPT !.server = s])
  /\ UNCHANGED <<listener, standalone>>

Prepared(c) ==
  IF cmd[c].kind = "start"
  THEN /\ Goto(c, "done")
       /\ standalone' = standalone \cup ({cmd[c].server} \ {None})
  ELSE /\ Move(c, "control", [cmd[c] EXCEPT !.bridge = cmd[c].url, !.url = None,
                                            !.server = None, !.dedicated = FALSE])
       /\ UNCHANGED standalone

Ensure(c) ==
  /\ At(c, "ensure")
  /\ LET u == cmd[c].url
     IN  \/ Serving(u) /\ Prepared(c) /\ UNCHANGED processes
         \/ listener[u] = Foreign /\ Throw(c) /\ UNCHANGED <<processes, standalone>>
         \/ listener[u] = None /\ Spawn(c)
  /\ UNCHANGED <<file, log, control, loose, explicit, lapsed, faults>>

\* Mutant of StartDedicated: a Bridge that answers is taken for one's own.
TakeAnyBridge(c) ==
  /\ At(c, "dedicated")
  /\ LET u == cmd[c].url
     IN  IF u = None \/ listener[u] = None THEN Spawn(c)
         ELSE Prepared(c) /\ UNCHANGED processes
  /\ UNCHANGED <<file, log, control, loose, explicit, lapsed, faults>>

\* A Bridge of one's own, at a free address that is given or that the system chooses.
StartDedicated(c) ==
  /\ At(c, "dedicated")
  /\ LET u == cmd[c].url
     IN  IF u = None \/ listener[u] = None THEN Spawn(c)
         ELSE Throw(c) /\ UNCHANGED <<processes, standalone>>
  /\ UNCHANGED <<file, log, control, loose, explicit, lapsed, faults>>

\* startDetachedBridge: the ready message, the exit of the child, or five seconds.
AwaitServer(c) ==
  /\ At(c, "starting")
  /\ LET s == cmd[c].server
     IN  \/ /\ server[s] \in {"up", "signalled"}
            /\ Move(c, "probing", [cmd[c] EXCEPT !.url = address[s]])
            /\ UNCHANGED <<processes, faults>>
         \/ server[s] = "dead" /\ Throw(c) /\ UNCHANGED <<processes, faults>>
         \/ Fault /\ Signal(s) /\ Throw(c)
  /\ UNCHANGED <<file, log, control, history>>

\* The second probe.  Without an answer in time a Bridge of one's own is stopped, another is not.
Probe(c) ==
  /\ At(c, "probing")
  /\ LET s == cmd[c].server
     IN  \/ /\ Serving(cmd[c].url)
            /\ Goto(c, "write")
            /\ UNCHANGED <<processes, loose, faults>>
         \/ /\ IF Serving(cmd[c].url) THEN Fault ELSE UNCHANGED faults
            /\ Throw(c)
            /\ IF cmd[c].dedicated THEN Signal(s) /\ UNCHANGED loose
               ELSE loose' = loose \cup {s} /\ UNCHANGED processes
  /\ UNCHANGED <<file, log, control, standalone, explicit, lapsed>>

\* Mutants of WriteState: no state is written; the port is written for the process.
WriteNoState(c) ==
  /\ At(c, "write")
  /\ Prepared(c)
  /\ UNCHANGED <<processes, file, log, control, loose, explicit, lapsed, faults>>

WritePort(c) ==
  /\ At(c, "write")
  /\ file' = [file EXCEPT ![cmd[c].url] = cmd[c].url]
  /\ Prepared(c)
  /\ UNCHANGED <<processes, log, control, loose, explicit, lapsed, faults>>

WriteState(c) ==
  /\ At(c, "write")
  /\ LET u == cmd[c].url  s == cmd[c].server
     IN  \/ /\ file' = [file EXCEPT ![u] = s]
            /\ loose' = loose \cup ({file[u]} \ {s, None})
            /\ Prepared(c)
            /\ UNCHANGED faults
         \/ /\ Fault
            /\ Throw(c)
            /\ loose' = loose \cup {s}
            /\ UNCHANGED <<file, standalone>>
  /\ UNCHANGED <<processes, log, control, explicit, lapsed>>

-----------------------------------------------------------------------------
(* The rest of open. *)

\* A request control is started only without a remembered page; otherwise the page keeps its own.
PrepareControl(c) ==
  /\ At(c, "control")
  /\ \/ /\ cmd[c].previous # None
        /\ Move(c, "page", [cmd[c] EXCEPT !.control = cmd[c].previous.control])
        /\ UNCHANGED control
     \/ /\ cmd[c].previous = None
        /\ \/ Goto(c, "page") /\ UNCHANGED control
           \/ Throw(c) /\ UNCHANGED control
           \/ \E k \in Controls :
                /\ control[k] = "unborn"
                /\ control' = [control EXCEPT ![k] = "alive"]
                /\ Move(c, "page", [cmd[c] EXCEPT !.control = k, !.started = TRUE])
  /\ UNCHANGED <<processes, file, log, history, faults>>

OpenPage(c) ==
  /\ At(c, "page")
  /\ Goto(c, "log") \/ Throw(c)
  /\ UNCHANGED <<processes, file, log, control, history, faults>>

\* stopOpenContextBridge for a Bridge that is not the one to keep.
StopOther(c, u, keep) ==
  IF u = None \/ u = keep THEN Goto(c, "done")
  ELSE Move(c, "stopSignal",
            [NoCommand EXCEPT !.kind = cmd[c].kind, !.dir = cmd[c].dir, !.url = u])

WriteLog(c) ==
  /\ At(c, "log")
  /\ LET m == cmd[c]
     IN  \/ /\ log' = [log EXCEPT ![m.dir] = [bridge |-> m.bridge, control |-> m.control]]
            /\ loose' = loose \cup Overtaken(c)
            /\ StopOther(c, BridgeOf(m.previous), m.bridge)
            /\ UNCHANGED faults
         \/ Fault /\ Throw(c) /\ UNCHANGED <<log, loose>>
  /\ UNCHANGED <<processes, file, control, standalone, explicit, lapsed>>

\* Mutants of Undo: only the control is stopped, or only the Bridge.
UndoControl(c) ==
  /\ At(c, "undo")
  /\ LET m == cmd[c]
     IN  control' = IF m.started THEN [control EXCEPT ![m.control] = "dead"] ELSE control
  /\ Goto(c, "done")
  /\ UNCHANGED <<processes, file, log, history, faults>>

UndoBridge(c) ==
  /\ At(c, "undo")
  /\ StopOther(c, cmd[c].bridge, BridgeOf(cmd[c].previous))
  /\ UNCHANGED <<processes, file, log, control, history, faults>>

Undo(c) ==
  /\ At(c, "undo")
  /\ LET m == cmd[c]
     IN  /\ control' = IF m.started THEN [control EXCEPT ![m.control] = "dead"] ELSE control
         /\ loose' = loose \cup Overtaken(c)
         /\ StopOther(c, m.bridge, BridgeOf(m.previous))
  /\ UNCHANGED <<processes, file, log, standalone, explicit, lapsed, faults>>

-----------------------------------------------------------------------------
(* stack, stop and kill. *)

\* stack ends with what it had stored, or throws, or writes the context it has read back, with
\* the detected stack and without the request control.
WriteStack(c) ==
  /\ At(c, "stack")
  /\ Goto(c, "done")
  /\ LET m == cmd[c]
     IN  \/ UNCHANGED <<log, loose>>
         \/ /\ log' = [log EXCEPT ![m.dir] = [bridge |-> m.previous.bridge, control |-> None]]
            /\ loose' = loose \cup Overtaken(c) \cup ({m.previous.control} \ {None})
  /\ UNCHANGED <<processes, file, control, standalone, explicit, lapsed, faults>>

\* The log is read again for the request control; then the hooks run.
CloseControl(c) ==
  /\ At(c, "closing")
  /\ Move(c, "hooks", [cmd[c] EXCEPT !.control = ControlOf(log[cmd[c].dir])])
  /\ UNCHANGED <<processes, file, log, control, history, faults>>

\* The hooks may throw.
StopControl(c) ==
  /\ At(c, "hooks")
  /\ LET k == cmd[c].control
     IN  \/ Throw(c) /\ UNCHANGED control
         \/ /\ control' = IF k = None THEN control ELSE [control EXCEPT ![k] = "dead"]
            /\ Goto(c, "unlog")
  /\ UNCHANGED <<processes, file, log, history, faults>>

StopNamed(c, u) ==
  Move(c, "stopSignal", [NoCommand EXCEPT !.kind = cmd[c].kind, !.dir = cmd[c].dir, !.url = u,
                                          !.named = TRUE])

\* Mutant of RemoveLog: a page without a Bridge does not keep stop from the default address.
RemoveAny(c) ==
  /\ At(c, "unlog")
  /\ LET m == cmd[c]
     IN  /\ log' = [log EXCEPT ![m.dir] = None]
         /\ loose' = loose \cup Overtaken(c)
         /\ IF BridgeOf(m.previous) # None THEN StopOther(c, m.previous.bridge, None)
            ELSE \E u \in Urls : StopOther(c, u, None)
  /\ UNCHANGED <<processes, file, control, standalone, explicit, lapsed, faults>>

\* Closing the browser may throw.  --bridge and --port come before the remembered address, and
\* without a page the default one is as good as named; the Bridge of the page then runs on.
RemoveLog(c) ==
  /\ At(c, "unlog")
  /\ LET m == cmd[c]
         old == BridgeOf(m.previous)
     IN  \/ Throw(c) /\ UNCHANGED <<log, loose, standalone>>
         \/ /\ log' = [log EXCEPT ![m.dir] = None]
            /\ loose' = loose \cup Overtaken(c)
            /\ \/ m.previous # None /\ StopOther(c, old, None) /\ UNCHANGED standalone
               \/ \E u \in Urls :
                    /\ StopNamed(c, u)
                    /\ standalone' = standalone \cup
                         {s \in Servers : u # old /\ old # None /\ listener[old] = s}
  /\ UNCHANGED <<processes, file, control, explicit, lapsed, faults>>

\* stopManagedBridge and killManagedBridge: the state file is read, its process is signalled
\* if it runs, and the file is removed.
StopSignal(c) ==
  /\ At(c, "stopSignal")
  /\ LET s == IF cmd[c].kind = "kill" THEN cmd[c].server ELSE file[cmd[c].url]
     IN  IF s = None THEN Goto(c, "done") /\ UNCHANGED processes
         ELSE Signal(s) /\ Move(c, "stopRemove", [cmd[c] EXCEPT !.server = s])
  /\ UNCHANGED <<file, log, control, history, faults>>

StopRemove(c) ==
  /\ At(c, "stopRemove")
  /\ LET u == cmd[c].url
     IN  /\ file' = [file EXCEPT ![u] = None]
         /\ loose' = loose \cup ({file[u]} \ {cmd[c].server, None})
  /\ Goto(c, "done")
  /\ UNCHANGED <<processes, log, control, standalone, explicit, lapsed, faults>>

-----------------------------------------------------------------------------
(* Processes. *)

\* The child listens, at the address given or any free one, or exits.
Listen(s) ==
  /\ server[s] = "starting"
  /\ LET wanted == IF address[s] = None THEN Urls ELSE {address[s]}
         free == {u \in wanted : listener[u] = None}
     IN  IF free = {} THEN server' = [server EXCEPT ![s] = "dead"] /\ UNCHANGED <<listener, address>>
         ELSE \E u \in free : /\ listener' = [listener EXCEPT ![u] = s]
                              /\ address' = [address EXCEPT ![s] = u]
                              /\ server' = [server EXCEPT ![s] = "up"]
  /\ UNCHANGED <<file, log, control, pc, cmd, history, faults>>

Named(u) ==
  \/ \E d \in Directories : BridgeOf(log[d]) = u
  \/ \E c \in Commands : u \in {cmd[c].url, cmd[c].bridge, BridgeOf(cmd[c].previous)}

End(s) ==
  /\ server' = [server EXCEPT ![s] = "dead"]
  /\ listener' = [listener EXCEPT ![address[s]] = None]
  /\ lapsed' = IF Named(address[s]) THEN lapsed \cup {address[s]} ELSE lapsed
  /\ UNCHANGED <<address, file, log, control, pc, cmd, loose, standalone, explicit>>

Close(s) == server[s] = "signalled" /\ End(s) /\ UNCHANGED faults

CrashServer(s) == server[s] = "up" /\ Fault /\ End(s)

\* What a killed command has started and not yet recorded is on its own.
CrashCommand(c) ==
  /\ c \in Running
  /\ Fault
  /\ Goto(c, "done")
  /\ LET m == cmd[c]
     IN  loose' = loose \cup ({m.server} \ {None})
                        \cup Behind([bridge |-> m.bridge, control |-> m.control])
                        \cup {s \in Alive : address[s] # None /\ address[s] = m.url}
                        \cup (IF m.kind = "stop" THEN Behind(m.previous) ELSE {})
  /\ UNCHANGED <<processes, file, log, control, standalone, explicit, lapsed>>

Step(c) ==
  \/ Ensure(c) \/ StartDedicated(c) \/ AwaitServer(c) \/ Probe(c) \/ WriteState(c)
  \/ PrepareControl(c) \/ OpenPage(c) \/ WriteLog(c) \/ Undo(c)
  \/ WriteStack(c) \/ CloseControl(c) \/ StopControl(c) \/ RemoveLog(c)
  \/ StopSignal(c) \/ StopRemove(c)

Next ==
  \/ \E c \in Commands :
       \/ \E d \in Directories : Open(c, d) \/ Use(c, d) \/ Stack(c, d) \/ Stop(c, d)
       \/ \E u \in Urls : Start(c, u) \/ Kill(c, u)
       \/ Step(c)
       \/ CrashCommand(c)
  \/ \E s \in Servers : Listen(s) \/ Close(s) \/ CrashServer(s)

Spec == Init /\ [][Next]_vars

-----------------------------------------------------------------------------
(* Properties. *)

\* No command runs, and no process is on its way up or down.
Quiet ==
  /\ Running = {}
  /\ \A s \in Servers : server[s] \notin {"starting", "signalled"}

\* A Bridge can be found by stop, ps and kill: once the commands have ended the state file of an
\* address names the process that serves it, unless its record was lost.
Tracked ==
  Quiet => \A u \in Urls : Serving(u) => file[u] = listener[u] \/ listener[u] \in loose

\* No Bridge is left behind: one that runs is the Bridge of a page, was started by start or a
\* command that works with runtimes, was left by a stop that named another address, or its record
\* was lost.  A failed open stops what it has started, a successful one what it left, and a stop
\* without options the Bridge of its page.
NoBridgeLeft ==
  Quiet => \A u \in Urls : Serving(u) =>
             \/ \E d \in Directories : BridgeOf(log[d]) = u
             \/ listener[u] \in loose \cup standalone

\* No request control is left behind: one that runs is remembered by a directory, unless its
\* record was lost (stack loses it even when it runs alone, see StopCleansUp).
NoControlLeft ==
  Quiet => \A k \in Controls : control[k] = "alive" =>
             k \in loose \/ \E d \in Directories : ControlOf(log[d]) = k

\* Commands that run one after another and without a fault: Divebell "creates its own target
\* sessions and cleans them up with `divebell stop`", so once no directory remembers a page no
\* request control runs.  The code breaks it: WriteStack drops the control from the log.
StopCleansUp ==
  Quiet /\ (\A d \in Directories : log[d] = None) => \A k \in Controls : control[k] # "alive"

\* "Different working directories do not share their default page, browser session, or Bridge":
\* so unless a user named it for a page or it had ended under a page that remembered its address.
BridgesApart ==
  \A d, e \in Directories :
    BridgeOf(log[d]) = BridgeOf(log[e]) /\ BridgeOf(log[d]) # None =>
      d = e \/ BridgeOf(log[d]) \in explicit \cup lapsed

\* A command that is not kill and was given no address to stop (a stop without a page has the
\* default one) stops no Bridge of another directory's page, with the same exceptions.
OthersSpared ==
  [][\A c \in Commands, d \in Directories, s \in Servers :
       /\ At(c, "stopSignal") /\ pc'[c] # "stopSignal" /\ cmd[c].kind # "kill"
       /\ server[s] = "up" /\ server'[s] = "signalled"
       /\ BridgeOf(log[d]) = address[s]
       => cmd[c].dir = d \/ cmd[c].named \/ address[s] \in explicit \cup lapsed]_vars
=============================================================================
