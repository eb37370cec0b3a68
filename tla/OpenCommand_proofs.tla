-------------------------- MODULE OpenCommand_proofs --------------------------
(***************************************************************************)
(* Proofs about OpenCommand, for every value of its constants: any number  *)
(* of command lines running at one time, directories, addresses, processes *)
(* and failures.                                                           *)
(***************************************************************************)
EXTENDS OpenCommand, TLAPS

-----------------------------------------------------------------------------
(* Types *)

LEMMA NoneIsNone ==
  /\ None \notin Servers /\ None \notin Controls /\ None \notin Urls /\ None \notin Directories
  /\ None \notin Context /\ Foreign \notin Servers
BY OpenAssumption

LEMMA NoCommandType == NoCommand \in Command
BY DEF NoCommand, Command, Kinds

\* A command starts with its directory and what that remembers, or with neither.
LEMMA StartType ==
  ASSUME NEW kind \in Kinds, NEW dir \in Directories \cup {None},
         NEW previous \in Context \cup {None}, NEW url \in Urls \cup {None},
         NEW dedicated \in BOOLEAN, NEW s \in Servers \cup {None}
  PROVE  [NoCommand EXCEPT !.kind = kind, !.dir = dir, !.previous = previous, !.url = url,
                           !.dedicated = dedicated, !.server = s] \in Command
BY DEF NoCommand, Command

\* What a command knows, field by field.
LEMMA CmdType ==
  ASSUME TypeOK, NEW c \in Commands
  PROVE  /\ cmd[c] \in Command
         /\ cmd[c].kind \in Kinds /\ cmd[c].dir \in Directories \cup {None}
         /\ cmd[c].previous \in Context \cup {None} /\ cmd[c].url \in Urls \cup {None}
         /\ cmd[c].dedicated \in BOOLEAN /\ cmd[c].named \in BOOLEAN
         /\ cmd[c].bridge \in Urls \cup {None}
         /\ cmd[c].server \in Servers \cup {None} /\ cmd[c].control \in Controls \cup {None}
         /\ cmd[c].started \in BOOLEAN
BY DEF TypeOK, Command

LEMMA ContextType ==
  ASSUME NEW context \in Context \cup {None}
  PROVE  /\ BridgeOf(context) \in Urls \cup {None} /\ ControlOf(context) \in Controls \cup {None}
         /\ context # None => /\ BridgeOf(context) = context.bridge
                              /\ ControlOf(context) = context.control
BY DEF BridgeOf, ControlOf, Context

LEMMA MoveType ==
  ASSUME TypeOK, NEW c \in Commands, NEW position \in Positions, NEW m \in Command,
         Move(c, position, m)
  PROVE  /\ pc' \in [Commands -> Positions] /\ cmd' \in [Commands -> Command]
         /\ pc'[c] = position /\ cmd'[c] = IF position = "done" THEN NoCommand ELSE m
         /\ \A q \in Commands \ {c} : pc'[q] = pc[q] /\ cmd'[q] = cmd[q]
BY NoCommandType DEF Move, TypeOK

LEMMA GotoType ==
  ASSUME TypeOK, NEW c \in Commands, NEW position \in Positions, Goto(c, position)
  PROVE  /\ pc' \in [Commands -> Positions] /\ cmd' \in [Commands -> Command]
         /\ pc'[c] = position /\ cmd'[c] = IF position = "done" THEN NoCommand ELSE cmd[c]
         /\ \A q \in Commands \ {c} : pc'[q] = pc[q] /\ cmd'[q] = cmd[q]
BY CmdType, MoveType DEF Goto

LEMMA ThrowType ==
  ASSUME TypeOK, NEW c \in Commands, Throw(c)
  PROVE  /\ pc' \in [Commands -> Positions] /\ cmd' \in [Commands -> Command]
         /\ pc'[c] = IF cmd[c].kind = "open" THEN "undo" ELSE "done"
         /\ cmd'[c] = IF pc'[c] = "done" THEN NoCommand ELSE cmd[c]
         /\ \A q \in Commands \ {c} : pc'[q] = pc[q] /\ cmd'[q] = cmd[q]
BY GotoType DEF Throw, Positions

-----------------------------------------------------------------------------
(* Where the commands stand *)

\* What a command has by the place it stands at: the process it has started, its directory,
\* the request control of the page it replaces, the address of the Bridge it prepares or stops.
Local(c) ==
  /\ pc[c] \in {"starting", "probing", "write"} => cmd[c].server \in Servers
  /\ pc[c] \in {"ensure", "dedicated", "starting", "probing", "write"} =>
       cmd[c].kind = "start" \/ (cmd[c].kind = "open" /\ cmd[c].dir \in Directories)
  /\ pc[c] \in {"control", "page", "log", "undo"} =>
       cmd[c].kind = "open" /\ cmd[c].dir \in Directories
  /\ pc[c] = "stack" =>
       cmd[c].kind = "stack" /\ cmd[c].dir \in Directories /\ cmd[c].previous \in Context
  /\ pc[c] \in {"closing", "hooks", "unlog"} => cmd[c].kind = "stop" /\ cmd[c].dir \in Directories
  /\ pc[c] \in {"page", "log"} /\ cmd[c].previous # None =>
       cmd[c].control = cmd[c].previous.control
  /\ pc[c] \in {"probing", "write", "stopSignal", "stopRemove"} => cmd[c].url \in Urls

\* A server that is up has an address.
Addressed == \A s \in Servers : server[s] \in {"up", "signalled"} => address[s] \in Urls

\* A step of a command changes its own place and variables only, and keeps these facts.
OwnStep(c) ==
  /\ pc' \in [Commands -> Positions] /\ cmd' \in [Commands -> Command]
  /\ \A q \in Commands \ {c} : pc'[q] = pc[q] /\ cmd'[q] = cmd[q]
  /\ Local(c)'

LEMMA ThrowStep ==
  ASSUME TypeOK, NEW c \in Commands, Local(c), Throw(c),
         pc[c] \in {"ensure", "dedicated", "starting", "probing", "write", "control", "page", "log"}
  PROVE  OwnStep(c)
BY ThrowType DEF OwnStep, Local

LEMMA SpawnStep ==
  ASSUME TypeOK, NEW c \in Commands, Local(c), pc[c] \in {"ensure", "dedicated"}, Spawn(c)
  PROVE  /\ OwnStep(c) /\ pc'[c] = "starting"
         /\ \E s \in Servers : /\ server[s] = "unborn" /\ cmd'[c].server = s
                              /\ server' = [server EXCEPT ![s] = "starting"]
                              /\ address' = [address EXCEPT ![s] = cmd[c].url]
<1>1. PICK s \in Servers : /\ server[s] = "unborn"
                           /\ server' = [server EXCEPT ![s] = "starting"]
                           /\ address' = [address EXCEPT ![s] = cmd[c].url]
                           /\ Move(c, "starting", [cmd[c] EXCEPT !.server = s])
  BY DEF Spawn
<1> DEFINE m == [cmd[c] EXCEPT !.server = s]
<1>2. m \in Command /\ m.server = s /\ m.kind = cmd[c].kind /\ m.dir = cmd[c].dir
  BY CmdType DEF Command
<1>3. "starting" \in Positions
  BY DEF Positions
<1>4. Move(c, "starting", m)
  BY <1>1
<1> HIDE DEF m
<1>5. OwnStep(c) /\ pc'[c] = "starting" /\ cmd'[c].server = s
  BY <1>2, <1>3, <1>4, MoveType DEF OwnStep, Local
<1> QED
  BY <1>1, <1>5

LEMMA PreparedStep ==
  ASSUME TypeOK, NEW c \in Commands, Local(c), pc[c] \in {"ensure", "write"}, Prepared(c)
  PROVE  OwnStep(c) /\ pc'[c] \in {"done", "control"}
<1>1. CASE cmd[c].kind = "start"
  BY <1>1, GotoType DEF Prepared, OwnStep, Local, Positions
<1>2. CASE cmd[c].kind # "start"
  <2> DEFINE m == [cmd[c] EXCEPT !.bridge = cmd[c].url, !.url = None, !.server = None,
                                 !.dedicated = FALSE]
  <2>1. m \in Command /\ m.dir = cmd[c].dir /\ m.kind = cmd[c].kind
    BY CmdType DEF Command
  <2>2. Move(c, "control", m)
    BY <1>2 DEF Prepared
  <2>3. cmd[c].dir \in Directories /\ cmd[c].kind = "open"
    BY <1>2 DEF Local
  <2> HIDE DEF m
  <2> QED
    BY <2>1, <2>2, <2>3, MoveType DEF OwnStep, Local, Positions
<1> QED
  BY <1>1, <1>2

LEMMA StopOtherStep ==
  ASSUME TypeOK, NEW c \in Commands, NEW u \in Urls \cup {None}, NEW keep, StopOther(c, u, keep)
  PROVE  /\ OwnStep(c) /\ pc'[c] \in {"done", "stopSignal"}
         /\ cmd'[c].server = None
<1>0. NoCommand.server = None
  BY DEF NoCommand
<1>1. CASE u = None \/ u = keep
  BY <1>0, <1>1, GotoType DEF StopOther, OwnStep, Local, Positions
<1>2. CASE ~(u = None \/ u = keep)
  <2> DEFINE m == [NoCommand EXCEPT !.kind = cmd[c].kind, !.dir = cmd[c].dir, !.url = u]
  <2>1. m \in Command /\ m.url \in Urls /\ m.server = None
    BY <1>2, CmdType DEF NoCommand, Command
  <2>2. Move(c, "stopSignal", m)
    BY <1>2 DEF StopOther
  <2> HIDE DEF m
  <2> QED
    BY <2>1, <2>2, MoveType DEF OwnStep, Local, Positions
<1> QED
  BY <1>1, <1>2

LEMMA StopNamedStep ==
  ASSUME TypeOK, NEW c \in Commands, NEW u \in Urls, StopNamed(c, u)
  PROVE  /\ OwnStep(c) /\ pc'[c] = "stopSignal" /\ cmd'[c].named = TRUE
         /\ cmd'[c].server = None /\ cmd'[c].url = u /\ cmd'[c].dir = cmd[c].dir
         /\ cmd'[c].previous = None /\ cmd'[c].bridge = None
<1> DEFINE m == [NoCommand EXCEPT !.kind = cmd[c].kind, !.dir = cmd[c].dir, !.url = u,
                                  !.named = TRUE]
<1>1. /\ m \in Command /\ m.url = u /\ m.server = None /\ m.dir = cmd[c].dir
      /\ m.previous = None /\ m.bridge = None
  BY CmdType DEF NoCommand, Command
<1>2. Move(c, "stopSignal", m) /\ "stopSignal" \in Positions
  BY DEF StopNamed, Positions
<1>3. m.named = TRUE
  BY DEF NoCommand
<1> HIDE DEF m
<1>4. pc'[c] = "stopSignal" /\ cmd'[c] = m /\ OwnStep(c)
  BY <1>1, <1>2, MoveType DEF OwnStep, Local
<1>5. cmd'[c].named = TRUE
  BY <1>3, <1>4, Zenon
<1> QED
  BY <1>1, <1>4, <1>5

LEMMA OpenStep ==
  ASSUME TypeOK, NEW c \in Commands, NEW d \in Directories, Open(c, d)
  PROVE  OwnStep(c) /\ pc'[c] \in {"ensure", "dedicated", "control"}
<1> DEFINE m == [NoCommand EXCEPT !.dir = d, !.previous = log[d]]
<1>1. log[d] \in Context \cup {None} /\ BridgeOf(log[d]) \in Urls \cup {None}
      /\ (BridgeOf(log[d]) # None => log[d].bridge = BridgeOf(log[d]))
  BY ContextType DEF TypeOK, BridgeOf
<1>2. m \in Command /\ m.dir = d /\ m.kind = "open"
  BY <1>1 DEF NoCommand, Command, Kinds
<1>3. ASSUME NEW u \in Urls \cup {None}
      PROVE  /\ [m EXCEPT !.url = u] \in Command
             /\ [m EXCEPT !.url = u].dir = d /\ [m EXCEPT !.url = u].kind = "open"
             /\ [m EXCEPT !.url = u, !.dedicated = TRUE] \in Command
             /\ [m EXCEPT !.url = u, !.dedicated = TRUE].dir = d
             /\ [m EXCEPT !.url = u, !.dedicated = TRUE].kind = "open"
  <2> HIDE DEF m
  <2> QED
    BY <1>2 DEF Command
<1>4. PICK n \in Command, position \in {"ensure", "dedicated", "control"} :
        Begin(c, n, position) /\ n.dir = d /\ n.kind = "open"
  <2>1. \/ Begin(c, m, "control")
        \/ \E u \in Urls \cup {None} : \/ Begin(c, [m EXCEPT !.url = u], "ensure")
                                       \/ Begin(c, [m EXCEPT !.url = u, !.dedicated = TRUE], "dedicated")
    <3> DEFINE Reuse == Begin(c, [m EXCEPT !.url = log[d].bridge], "ensure")
               Own(u) == Begin(c, [m EXCEPT !.url = u, !.dedicated = TRUE], "dedicated")
               remembered == BridgeOf(log[d])
    <3>1. \/ Begin(c, m, "control")
          \/ \E u \in Urls : Begin(c, [m EXCEPT !.url = u], "ensure")
          \/ \E u \in Urls : IF remembered = u THEN Reuse ELSE Own(u)
          \/ IF remembered # None THEN Reuse ELSE Own(None)
      BY DEF Open
    <3>2. remembered # None => log[d].bridge \in Urls
      BY <1>1
    <3>3. \A u \in Urls : u # None
      BY NoneIsNone
    <3> HIDE DEF m, remembered
    <3> QED
      BY <3>1, <3>2, <3>3
  <2> HIDE DEF m
  <2> QED
    BY <1>2, <1>3, <2>1
<1>5. Move(c, position, n) /\ position \in Positions
  BY <1>4 DEF Begin, Positions
<1> QED
  BY <1>4, <1>5, MoveType DEF OwnStep, Local

\* A command that works with runtimes begins like start.
LEMMA UseStep ==
  ASSUME TypeOK, NEW c \in Commands, NEW d \in Directories, Use(c, d)
  PROVE  /\ OwnStep(c) /\ pc'[c] = "ensure" /\ cmd'[c].kind = "start"
         /\ cmd'[c].previous = None /\ cmd'[c].bridge = None
         /\ \E u \in Urls : Begin(c, [NoCommand EXCEPT !.kind = "start", !.url = u], "ensure")
<1>1. BridgeOf(log[d]) \in Urls \cup {None}
  BY ContextType DEF TypeOK
<1>2. PICK u \in Urls : Begin(c, [NoCommand EXCEPT !.kind = "start", !.url = u], "ensure")
  BY <1>1 DEF Use
<1> DEFINE m == [NoCommand EXCEPT !.kind = "start", !.url = u]
<1>3. m \in Command /\ m.kind = "start" /\ m.previous = None /\ m.bridge = None
  BY DEF NoCommand, Command, Kinds
<1>4. Move(c, "ensure", m) /\ "ensure" \in Positions
  BY <1>2 DEF Begin, Positions
<1> HIDE DEF m
<1>5. OwnStep(c) /\ pc'[c] = "ensure" /\ cmd'[c] = m
  BY <1>3, <1>4, MoveType DEF OwnStep, Local
<1> QED
  BY <1>2, <1>3, <1>5

\* stack remembers what its directory remembers now.
LEMMA StackStep ==
  ASSUME TypeOK, NEW c \in Commands, NEW d \in Directories, Stack(c, d)
  PROVE  /\ OwnStep(c) /\ pc'[c] = "stack" /\ cmd'[c].dir = d /\ cmd'[c].previous = log[d]
         /\ cmd'[c].bridge = None /\ cmd'[c].url = None /\ cmd'[c].server = None
<1> DEFINE m == [NoCommand EXCEPT !.kind = "stack", !.dir = d, !.previous = log[d]]
<1>1. /\ m \in Command /\ m.dir = d /\ m.previous = log[d] /\ m.kind = "stack"
      /\ m.bridge = None /\ m.url = None /\ m.server = None
  BY DEF NoCommand, Command, Kinds, TypeOK
<1>2. Move(c, "stack", m) /\ "stack" \in Positions /\ log[d] \in Context
  BY DEF Stack, Begin, Positions, TypeOK
<1> HIDE DEF m
<1> QED
  BY <1>1, <1>2, MoveType DEF OwnStep, Local

LEMMA StartStep ==
  ASSUME TypeOK, NEW c \in Commands, NEW u \in Urls, Start(c, u) \/ Kill(c, u)
  PROVE  /\ OwnStep(c) /\ pc'[c] \in {"ensure", "stopSignal"}
         /\ pc'[c] = "stopSignal" => cmd'[c].server = file[u]
<1>1. CASE Start(c, u)
  <2> DEFINE m == [NoCommand EXCEPT !.kind = "start", !.url = u]
  <2>1. m \in Command /\ m.kind = "start"
    BY DEF NoCommand, Command, Kinds
  <2>2. Move(c, "ensure", m)
    BY <1>1 DEF Start, Begin
  <2> HIDE DEF m
  <2> QED
    BY <2>1, <2>2, MoveType DEF OwnStep, Local, Positions
<1>2. CASE Kill(c, u)
  <2> DEFINE m == [NoCommand EXCEPT !.kind = "kill", !.url = u, !.server = file[u]]
  <2>1. m \in Command /\ m.url = u /\ m.server = file[u]
    BY DEF NoCommand, Command, Kinds, TypeOK
  <2>2. Move(c, "stopSignal", m)
    BY <1>2 DEF Kill, Begin
  <2> HIDE DEF m
  <2> QED
    BY <2>1, <2>2, MoveType DEF OwnStep, Local, Positions
<1> QED
  BY <1>1, <1>2

\* stop remembers what its directory remembers now.
LEMMA StopStep ==
  ASSUME TypeOK, NEW c \in Commands, NEW d \in Directories, Stop(c, d)
  PROVE  OwnStep(c) /\ pc'[c] = "closing" /\ cmd'[c].dir = d /\ cmd'[c].previous = log[d]
<1> DEFINE m == [NoCommand EXCEPT !.kind = "stop", !.dir = d, !.previous = log[d]]
<1>1. m \in Command /\ m.dir = d /\ m.previous = log[d] /\ m.kind = "stop"
  BY DEF NoCommand, Command, Kinds, TypeOK
<1>2. Move(c, "closing", m)
  BY DEF Stop, Begin
<1> HIDE DEF m
<1> QED
  BY <1>1, <1>2, MoveType DEF OwnStep, Local, Positions

\* The steps of ensureBridge and startDedicatedBridge.
LEMMA BridgeSteps ==
  ASSUME TypeOK, Addressed, NEW c \in Commands, Local(c),
         Ensure(c) \/ StartDedicated(c) \/ AwaitServer(c) \/ Probe(c) \/ WriteState(c)
  PROVE  OwnStep(c) /\ pc'[c] \in {"starting", "probing", "write", "control", "undo", "done"}
<1>1. CASE Ensure(c)
  BY <1>1, ThrowStep, ThrowType, SpawnStep, PreparedStep DEF Ensure, At
<1>2. CASE StartDedicated(c)
  BY <1>2, ThrowStep, ThrowType, SpawnStep DEF StartDedicated, At
<1>3. CASE AwaitServer(c)
  <2> DEFINE m == [cmd[c] EXCEPT !.url = address[cmd[c].server]]
  <2>1. cmd[c].server \in Servers
    BY <1>3 DEF AwaitServer, At, Local
  <2>2. /\ m \in Command /\ m.server \in Servers
        /\ m.kind = cmd[c].kind /\ m.dir = cmd[c].dir
    BY <2>1, CmdType DEF Command, TypeOK
  <2>3. (Move(c, "probing", m) /\ m.url \in Urls) \/ Throw(c)
    BY <1>3, <2>1, <2>2, CmdType DEF AwaitServer, Addressed, Command
  <2>4. cmd[c].kind = "start" \/ (cmd[c].kind = "open" /\ cmd[c].dir \in Directories)
    BY <1>3 DEF AwaitServer, At, Local
  <2> HIDE DEF m
  <2>5. CASE Move(c, "probing", m) /\ m.url \in Urls
    BY <2>2, <2>4, <2>5, MoveType DEF OwnStep, Local, Positions
  <2> QED
    BY <1>3, <2>3, <2>5, ThrowStep, ThrowType DEF AwaitServer, At
<1>4. CASE Probe(c)
  <2>1. Goto(c, "write") \/ Throw(c)
    BY <1>4 DEF Probe
  <2>2. CASE Goto(c, "write")
    BY <1>4, <2>2, GotoType DEF Probe, At, OwnStep, Local, Positions
  <2> QED
    BY <1>4, <2>1, <2>2, ThrowStep, ThrowType DEF Probe, At
<1>5. CASE WriteState(c)
  BY <1>5, ThrowStep, ThrowType, PreparedStep DEF WriteState, At
<1> QED
  BY <1>1, <1>2, <1>3, <1>4, <1>5

\* What PrepareControl does to the variables of its command.
LEMMA ControlStep ==
  ASSUME TypeOK, NEW c \in Commands, Local(c), PrepareControl(c)
  PROVE  /\ OwnStep(c) /\ pc'[c] \in {"page", "undo"} /\ cmd'[c].bridge = cmd[c].bridge
         /\ \/ UNCHANGED control
            \/ \E k \in Controls : /\ control[k] = "unborn"
                                   /\ control' = [control EXCEPT ![k] = "alive"]
                                   /\ pc'[c] = "page"
                                   /\ cmd'[c].started /\ cmd'[c].control = k
<1>0. cmd[c].dir \in Directories /\ cmd[c].kind = "open"
  BY DEF PrepareControl, At, Local
<1>1. CASE /\ cmd[c].previous # None
           /\ Move(c, "page", [cmd[c] EXCEPT !.control = cmd[c].previous.control])
           /\ UNCHANGED control
  <2> DEFINE m == [cmd[c] EXCEPT !.control = cmd[c].previous.control]
  <2>1. cmd[c].previous.control \in Controls \cup {None}
    BY <1>1, CmdType DEF Context
  <2>2. /\ m \in Command /\ m.dir = cmd[c].dir /\ m.kind = cmd[c].kind
        /\ m.previous = cmd[c].previous
        /\ m.control = cmd[c].previous.control /\ m.bridge = cmd[c].bridge
    BY <2>1, CmdType DEF Command
  <2>3. Move(c, "page", m)
    BY <1>1
  <2> HIDE DEF m
  <2> QED
    BY <1>0, <1>1, <2>2, <2>3, MoveType DEF OwnStep, Local, Positions
<1>2. CASE cmd[c].previous = None /\ Goto(c, "page") /\ UNCHANGED control
  BY <1>0, <1>2, GotoType DEF OwnStep, Local, Positions
<1>3. CASE Throw(c) /\ UNCHANGED control
  BY <1>0, <1>3, ThrowStep, ThrowType DEF PrepareControl, At
<1>4. ASSUME NEW k \in Controls, cmd[c].previous = None, control[k] = "unborn",
             control' = [control EXCEPT ![k] = "alive"],
             Move(c, "page", [cmd[c] EXCEPT !.control = k, !.started = TRUE])
      PROVE  /\ OwnStep(c) /\ pc'[c] = "page" /\ cmd'[c].bridge = cmd[c].bridge
             /\ cmd'[c].started /\ cmd'[c].control = k
  <2> DEFINE m == [cmd[c] EXCEPT !.control = k, !.started = TRUE]
  <2>1. /\ m \in Command /\ m.dir = cmd[c].dir /\ m.kind = cmd[c].kind
        /\ m.previous = cmd[c].previous
        /\ m.control = k /\ m.started /\ m.bridge = cmd[c].bridge
    BY CmdType DEF Command
  <2>2. Move(c, "page", m)
    BY <1>4
  <2> HIDE DEF m
  <2>3. /\ pc' \in [Commands -> Positions] /\ cmd' \in [Commands -> Command]
        /\ \A q \in Commands \ {c} : pc'[q] = pc[q] /\ cmd'[q] = cmd[q]
        /\ pc'[c] = "page" /\ cmd'[c] = m
    BY <2>1, <2>2, MoveType DEF Positions
  <2>4. cmd'[c].started /\ cmd'[c].control = k
    BY <2>1, <2>3, Zenon
  <2> QED
    BY <1>0, <1>4, <2>1, <2>3, <2>4 DEF OwnStep, Local
<1> QED
  BY <1>1, <1>2, <1>3, <1>4 DEF PrepareControl

\* The last steps of open.
LEMMA PageSteps ==
  ASSUME TypeOK, NEW c \in Commands, Local(c), OpenPage(c) \/ WriteLog(c) \/ Undo(c)
  PROVE  OwnStep(c) /\ pc'[c] \in {"log", "undo", "done", "stopSignal"}
<1>1. CASE OpenPage(c)
  <2>1. Goto(c, "log") \/ Throw(c)
    BY <1>1 DEF OpenPage
  <2>2. CASE Goto(c, "log")
    BY <1>1, <2>2, GotoType DEF OpenPage, At, OwnStep, Local, Positions
  <2> QED
    BY <1>1, <2>1, <2>2, ThrowStep, ThrowType DEF OpenPage, At
<1>2. CASE WriteLog(c)
  <2>1. BridgeOf(cmd[c].previous) \in Urls \cup {None}
    BY CmdType, ContextType
  <2> QED
    BY <1>2, <2>1, StopOtherStep, ThrowStep, ThrowType DEF WriteLog, At
<1>3. CASE Undo(c)
  BY <1>3, CmdType, StopOtherStep DEF Undo
<1> QED
  BY <1>1, <1>2, <1>3

\* The request control that stop has read.
LEMMA CloseStep ==
  ASSUME TypeOK, NEW c \in Commands, Local(c), CloseControl(c)
  PROVE  /\ OwnStep(c) /\ pc'[c] = "hooks"
         /\ cmd'[c].control = ControlOf(log[cmd[c].dir]) /\ cmd'[c].dir = cmd[c].dir
         /\ cmd'[c].previous = cmd[c].previous /\ cmd'[c].bridge = cmd[c].bridge
<1> DEFINE m == [cmd[c] EXCEPT !.control = ControlOf(log[cmd[c].dir])]
<1>1. cmd[c].dir \in Directories /\ cmd[c].kind = "stop"
  BY DEF CloseControl, At, Local
<1>2. ControlOf(log[cmd[c].dir]) \in Controls \cup {None}
  BY <1>1, ContextType DEF TypeOK
<1>3. /\ m \in Command /\ m.dir = cmd[c].dir /\ m.kind = cmd[c].kind
      /\ m.control = ControlOf(log[cmd[c].dir]) /\ m.previous = cmd[c].previous
      /\ m.bridge = cmd[c].bridge
  BY <1>2, CmdType DEF Command
<1>4. Move(c, "hooks", m) /\ "hooks" \in Positions
  BY DEF CloseControl, Positions
<1> HIDE DEF m
<1> QED
  BY <1>1, <1>3, <1>4, MoveType DEF OwnStep, Local

\* What is left of the parts of RemoveLog: the log stays and the command ends, or the log goes and
\* the Bridge of the page, or a named one, is stopped.
LEMMA RemoveStep ==
  ASSUME TypeOK, NEW c \in Commands, Local(c), RemoveLog(c)
  PROVE  /\ OwnStep(c) /\ pc'[c] \in {"done", "stopSignal"} /\ cmd'[c].server = None
         /\ UNCHANGED <<processes, file, control, explicit, lapsed, faults>>
         /\ \/ pc'[c] = "done" /\ UNCHANGED <<log, loose, standalone>>
            \/ /\ log' = [log EXCEPT ![cmd[c].dir] = None]
               /\ loose' = loose \cup Overtaken(c)
               /\ \/ /\ cmd[c].previous # None
                     /\ StopOther(c, BridgeOf(cmd[c].previous), None)
                     /\ UNCHANGED standalone
                  \/ \E u \in Urls :
                       /\ StopNamed(c, u)
                       /\ standalone' = standalone \cup
                            {s \in Servers : /\ u # BridgeOf(cmd[c].previous)
                                             /\ BridgeOf(cmd[c].previous) # None
                                             /\ listener[BridgeOf(cmd[c].previous)] = s}
<1>0. NoCommand.server = None
  BY DEF NoCommand
<1>1. pc[c] = "unlog" /\ cmd[c].kind = "stop"
  BY DEF RemoveLog, At, Local
<1>2. UNCHANGED <<processes, file, control, explicit, lapsed, faults>>
  BY DEF RemoveLog
<1>3. CASE Throw(c) /\ UNCHANGED <<log, loose, standalone>>
  <2>1. Goto(c, "done") /\ "done" \in Positions
    BY <1>1, <1>3 DEF Throw, Positions
  <2>2. OwnStep(c) /\ pc'[c] = "done" /\ cmd'[c].server = None
    BY <1>0, <2>1, GotoType DEF OwnStep, Local
  <2> QED
    BY <1>2, <1>3, <2>2
<1>4. BridgeOf(cmd[c].previous) \in Urls \cup {None}
  BY CmdType, ContextType
<1>5. CASE /\ log' = [log EXCEPT ![cmd[c].dir] = None]
           /\ loose' = loose \cup Overtaken(c)
           /\ cmd[c].previous # None
           /\ StopOther(c, BridgeOf(cmd[c].previous), None)
           /\ UNCHANGED standalone
  <2>1. OwnStep(c) /\ pc'[c] \in {"done", "stopSignal"} /\ cmd'[c].server = None
    BY <1>4, <1>5, StopOtherStep
  <2> QED
    BY <1>2, <1>5, <2>1
<1>6. ASSUME log' = [log EXCEPT ![cmd[c].dir] = None], loose' = loose \cup Overtaken(c),
             NEW u \in Urls, StopNamed(c, u),
             standalone' = standalone \cup
                            {s \in Servers : /\ u # BridgeOf(cmd[c].previous)
                                             /\ BridgeOf(cmd[c].previous) # None
                                             /\ listener[BridgeOf(cmd[c].previous)] = s}
      PROVE  OwnStep(c) /\ pc'[c] = "stopSignal" /\ cmd'[c].server = None
  BY <1>6, StopNamedStep
<1> QED
  BY <1>2, <1>3, <1>5, <1>6 DEF RemoveLog

\* The steps of stack, stop and kill.
LEMMA StopSteps ==
  ASSUME TypeOK, NEW c \in Commands, Local(c),
         \/ WriteStack(c) \/ CloseControl(c) \/ StopControl(c) \/ RemoveLog(c)
         \/ StopSignal(c) \/ StopRemove(c)
  PROVE  OwnStep(c) /\ pc'[c] \in {"hooks", "unlog", "done", "stopSignal", "stopRemove"}
<1>0. CASE WriteStack(c)
  BY <1>0, GotoType DEF WriteStack, OwnStep, Local, Positions
<1>1. CASE CloseControl(c)
  BY <1>1, CloseStep
<1>5. CASE StopControl(c)
  <2>1. pc[c] = "hooks" /\ cmd[c].kind = "stop" /\ cmd[c].dir \in Directories
    BY <1>5 DEF StopControl, At, Local
  <2>2. Goto(c, "done") \/ Goto(c, "unlog")
    BY <1>5, <2>1 DEF StopControl, Throw
  <2>3. "done" \in Positions /\ "unlog" \in Positions
    BY DEF Positions
  <2> QED
    BY <2>1, <2>2, <2>3, GotoType DEF OwnStep, Local
<1>2. CASE RemoveLog(c)
  BY <1>2, RemoveStep
<1>3. CASE StopSignal(c)
  <2> DEFINE s == IF cmd[c].kind = "kill" THEN cmd[c].server ELSE file[cmd[c].url]
             m == [cmd[c] EXCEPT !.server = s]
  <2>1. CASE Goto(c, "done")
    BY <2>1, GotoType DEF OwnStep, Local, Positions
  <2>2. CASE Move(c, "stopRemove", m)
    <3>1. s \in Servers \cup {None}
      BY <1>3, CmdType DEF StopSignal, At, Local, TypeOK
    <3> HIDE DEF s
    <3>2. m \in Command /\ m.url = cmd[c].url /\ cmd[c].url \in Urls
      BY <1>3, <3>1, CmdType DEF Command, StopSignal, At, Local
    <3> HIDE DEF m
    <3> QED
      BY <2>2, <3>2, MoveType DEF OwnStep, Local, Positions
  <2> QED
    BY <1>3, <2>1, <2>2 DEF StopSignal
<1>4. CASE StopRemove(c)
  BY <1>4, GotoType DEF StopRemove, OwnStep, Local, Positions
<1> QED
  BY <1>0, <1>1, <1>2, <1>3, <1>4, <1>5

LEMMA CrashStep ==
  ASSUME TypeOK, NEW c \in Commands, CrashCommand(c)
  PROVE  OwnStep(c) /\ pc'[c] = "done"
BY GotoType DEF CrashCommand, OwnStep, Local, Positions

\* A step is one of a command or one of a process.
OfCommand(c) ==
  \/ \E d \in Directories : Open(c, d) \/ Use(c, d) \/ Stack(c, d) \/ Stop(c, d)
  \/ \E u \in Urls : Start(c, u) \/ Kill(c, u)
  \/ Step(c)
  \/ CrashCommand(c)

OfProcess == \E s \in Servers : Listen(s) \/ Close(s) \/ CrashServer(s)

LEMMA Steps == Next <=> (\E c \in Commands : OfCommand(c)) \/ OfProcess
<1>1. (\E c \in Commands : OfCommand(c)) => Next
  BY Zenon DEF Next, OfCommand
<1>2. OfProcess => Next
  BY Zenon DEF Next, OfProcess
<1>3. Next => (\E c \in Commands : OfCommand(c)) \/ OfProcess
  BY Zenon DEF Next, OfCommand, OfProcess
<1> QED
  BY <1>1, <1>2, <1>3

LEMMA CommandSteps ==
  ASSUME TypeOK, Addressed, NEW c \in Commands, Local(c), OfCommand(c)
  PROVE  OwnStep(c)
<1>1. CASE Step(c)
  <2>1. \/ Ensure(c) \/ StartDedicated(c) \/ AwaitServer(c) \/ Probe(c) \/ WriteState(c)
        \/ PrepareControl(c)
        \/ OpenPage(c) \/ WriteLog(c) \/ Undo(c)
        \/ WriteStack(c) \/ CloseControl(c) \/ StopControl(c) \/ RemoveLog(c)
        \/ StopSignal(c) \/ StopRemove(c)
    BY <1>1, Zenon DEF Step
  <2> QED
    BY <2>1, BridgeSteps, ControlStep, PageSteps, StopSteps, Zenon
<1>2. CASE ~Step(c)
  BY <1>2, OpenStep, UseStep, StackStep, StopStep, StartStep, CrashStep, Zenon DEF OfCommand
<1> QED
  BY <1>1, <1>2

LEMMA ProcessSteps ==
  ASSUME OfProcess
  PROVE  UNCHANGED <<file, log, control, pc, cmd, loose, standalone, explicit>>
BY DEF OfProcess, Listen, Close, CrashServer, End, history

\* TypeOK without the commands.
RestType ==
  /\ listener \in [Urls -> Servers \cup {None, Foreign}]
  /\ file \in [Urls -> Servers \cup {None}]
  /\ log \in [Directories -> Context \cup {None}]
  /\ server \in [Servers -> {"unborn", "starting", "up", "signalled", "dead"}]
  /\ address \in [Servers -> Urls \cup {None}]
  /\ control \in [Controls -> {"unborn", "alive", "dead"}]
  /\ loose \subseteq Servers \cup Controls
  /\ standalone \subseteq Servers
  /\ explicit \subseteq Urls /\ lapsed \subseteq Urls
  /\ faults \in Nat

LEMMA TypeParts ==
  TypeOK <=> RestType /\ pc \in [Commands -> Positions] /\ cmd \in [Commands -> Command]
BY Zenon DEF TypeOK, RestType

LEMMA BehindType ==
  ASSUME NEW context \in Context \cup {None}
  PROVE  Behind(context) \subseteq Servers \cup Controls
BY ContextType DEF Behind, Alive

LEMMA OvertakenType ==
  ASSUME TypeOK, NEW c \in Commands
  PROVE  Overtaken(c) \subseteq Servers \cup Controls
<1>1. [bridge |-> cmd[c].bridge, control |-> cmd[c].control] \in Context
  BY CmdType DEF Context
<1>2. cmd[c].dir # None => log[cmd[c].dir] \in Context \cup {None}
  BY CmdType DEF TypeOK
<1> QED
  BY <1>1, <1>2, CmdType, BehindType DEF Overtaken

LEMMA SignalType ==
  ASSUME RestType, Addressed, NEW s, Signal(s)
  PROVE  /\ server' \in [Servers -> {"unborn", "starting", "up", "signalled", "dead"}]
         /\ UNCHANGED <<listener, address>> /\ Addressed'
BY DEF RestType, Addressed, Signal, Signalled

LEMMA SpawnType ==
  ASSUME TypeOK, RestType, Addressed, NEW c \in Commands, Spawn(c)
  PROVE  /\ server' \in [Servers -> {"unborn", "starting", "up", "signalled", "dead"}]
         /\ address' \in [Servers -> Urls \cup {None}]
         /\ UNCHANGED <<listener, standalone>> /\ Addressed'
BY CmdType DEF RestType, Addressed, Spawn

LEMMA PreparedType ==
  ASSUME TypeOK, RestType, NEW c \in Commands, Prepared(c)
  PROVE  standalone' \subseteq Servers
BY CmdType DEF RestType, Prepared

LEMMA BridgeTypes ==
  ASSUME TypeOK, RestType, Addressed, NEW c \in Commands, Local(c),
         Ensure(c) \/ StartDedicated(c) \/ AwaitServer(c) \/ Probe(c) \/ WriteState(c)
  PROVE  RestType' /\ Addressed'
<1>1. CASE Ensure(c)
  <2>1. /\ UNCHANGED <<file, log, control, loose, explicit, lapsed, faults>>
        /\ \/ Prepared(c) /\ UNCHANGED processes
           \/ UNCHANGED <<processes, standalone>>
           \/ Spawn(c)
    BY <1>1 DEF Ensure
  <2> QED
    BY <2>1, PreparedType, SpawnType DEF RestType, Addressed, processes
<1>2. CASE StartDedicated(c)
  <2>1. /\ UNCHANGED <<file, log, control, loose, explicit, lapsed, faults>>
        /\ UNCHANGED <<processes, standalone>> \/ Spawn(c)
    BY <1>2 DEF StartDedicated
  <2> QED
    BY <2>1, SpawnType DEF RestType, Addressed, processes
<1>3. CASE AwaitServer(c)
  <2>1. /\ UNCHANGED <<file, log, control, history>>
        /\ \/ UNCHANGED <<processes, faults>>
           \/ Fault /\ Signal(cmd[c].server)
    BY <1>3 DEF AwaitServer
  <2> QED
    BY <2>1, SignalType DEF RestType, Addressed, processes, history, Fault
<1>4. CASE Probe(c)
  <2>1. cmd[c].server \in Servers
    BY <1>4 DEF Probe, At, Local
  <2>2. /\ UNCHANGED <<file, log, control, standalone, explicit, lapsed>>
        /\ UNCHANGED faults \/ Fault
        /\ \/ UNCHANGED <<processes, loose>>
           \/ Signal(cmd[c].server) /\ UNCHANGED loose
           \/ loose' = loose \cup {cmd[c].server} /\ UNCHANGED processes
    BY <1>4 DEF Probe
  <2> QED
    BY <2>1, <2>2, SignalType DEF RestType, Addressed, processes, Fault
<1>5. CASE WriteState(c)
  <2>1. cmd[c].server \in Servers
    BY <1>5 DEF WriteState, At, Local
  <2>2. /\ UNCHANGED <<processes, log, control, explicit, lapsed>>
        /\ \/ /\ file' = [file EXCEPT ![cmd[c].url] = cmd[c].server]
              /\ loose' = loose \cup ({file[cmd[c].url]} \ {cmd[c].server, None})
              /\ Prepared(c) /\ UNCHANGED faults
           \/ /\ Fault
              /\ loose' = loose \cup {cmd[c].server}
              /\ UNCHANGED <<file, standalone>>
    BY <1>5 DEF WriteState
  <2>3. cmd[c].url \in Urls
    BY <1>5 DEF WriteState, At, Local
  <2> QED
    BY <2>1, <2>2, <2>3, PreparedType DEF RestType, Addressed, processes, Fault
<1> QED
  BY <1>1, <1>2, <1>3, <1>4, <1>5

LEMMA CommandTypes ==
  ASSUME TypeOK, RestType, Addressed, NEW c \in Commands, Local(c), OfCommand(c)
  PROVE  RestType' /\ Addressed'
<1>0. Overtaken(c) \subseteq Servers \cup Controls
  BY OvertakenType
<1>1. ASSUME UNCHANGED <<processes, file, log, control, loose, standalone, lapsed, faults>>,
             explicit' \subseteq Urls
      PROVE  RestType' /\ Addressed'
  BY <1>1 DEF RestType, Addressed, processes
<1>2. ASSUME NEW d \in Directories, Open(c, d) \/ Use(c, d) \/ Stack(c, d) \/ Stop(c, d)
      PROVE  RestType' /\ Addressed'
  <2>1. explicit' \subseteq Urls
    BY <1>2 DEF Open, Use, Stack, Stop, history, RestType
  <2> QED
    BY <1>1, <1>2, <2>1 DEF Open, Use, Stack, Stop, history
<1>3. ASSUME NEW u \in Urls, Start(c, u) \/ Kill(c, u) PROVE RestType' /\ Addressed'
  <2>1. UNCHANGED <<processes, file, log, control, history, faults>>
    BY <1>3 DEF Start, Kill
  <2> QED
    BY <1>1, <2>1 DEF history, RestType
<1>4. CASE PrepareControl(c)
  <2>1. UNCHANGED <<processes, file, log, history, faults>>
    BY <1>4 DEF PrepareControl
  <2>2. control' \in [Controls -> {"unborn", "alive", "dead"}]
    BY <1>4 DEF PrepareControl, RestType
  <2> QED
    BY <2>1, <2>2 DEF RestType, Addressed, processes, history
<1>5. CASE OpenPage(c)
  BY <1>1, <1>5 DEF OpenPage, history, RestType
<1>6. CASE WriteLog(c)
  <2>1. [bridge |-> cmd[c].bridge, control |-> cmd[c].control] \in Context
    BY CmdType DEF Context
  <2>2. log' \in [Directories -> Context \cup {None}] /\ loose' \subseteq Servers \cup Controls
    BY <1>0, <1>6, <2>1 DEF WriteLog, RestType
  <2>3. UNCHANGED <<processes, file, control, standalone, explicit, lapsed>> /\ faults' \in Nat
    BY <1>6 DEF WriteLog, Fault, RestType
  <2> QED
    BY <2>2, <2>3 DEF RestType, Addressed, processes
<1>7. CASE Undo(c)
  <2>1. UNCHANGED <<processes, file, log, standalone, explicit, lapsed, faults>>
    BY <1>7 DEF Undo
  <2>2. /\ control' \in [Controls -> {"unborn", "alive", "dead"}]
        /\ loose' \subseteq Servers \cup Controls
    BY <1>0, <1>7 DEF Undo, RestType
  <2> QED
    BY <2>1, <2>2 DEF RestType, Addressed, processes
<1>8. CASE CloseControl(c)
  BY <1>1, <1>8 DEF CloseControl, history, RestType
<1>14. CASE StopControl(c)
  <2>1. UNCHANGED <<processes, file, log, history, faults>>
    BY <1>14 DEF StopControl
  <2>2. control' \in [Controls -> {"unborn", "alive", "dead"}]
    BY <1>14 DEF StopControl, RestType
  <2> QED
    BY <2>1, <2>2 DEF RestType, Addressed, processes, history
<1>9. CASE RemoveLog(c)
  <2>1. UNCHANGED <<processes, file, control, explicit, lapsed, faults>>
    BY <1>9 DEF RemoveLog
  <2>2. /\ log' \in [Directories -> Context \cup {None}]
        /\ loose' \subseteq Servers \cup Controls
        /\ standalone' \subseteq Servers
    BY <1>0, <1>9, RemoveStep DEF RestType
  <2> QED
    BY <2>1, <2>2 DEF RestType, Addressed, processes
<1>15. CASE WriteStack(c)
  <2>1. UNCHANGED <<processes, file, control, standalone, explicit, lapsed, faults>>
    BY <1>15 DEF WriteStack
  <2>2. cmd[c].previous \in Context
    BY <1>15 DEF WriteStack, At, Local
  <2>3. [bridge |-> cmd[c].previous.bridge, control |-> None] \in Context
    BY <2>2 DEF Context
  <2>4. cmd[c].previous.control \in Controls \cup {None}
    BY <2>2 DEF Context
  <2>5. /\ log' \in [Directories -> Context \cup {None}]
        /\ loose' \subseteq Servers \cup Controls
    BY <1>0, <1>15, <2>3, <2>4 DEF WriteStack, RestType
  <2> QED
    BY <2>1, <2>5 DEF RestType, Addressed, processes
<1>10. CASE StopSignal(c)
  <2>1. UNCHANGED <<file, log, control, history, faults>>
    BY <1>10 DEF StopSignal
  <2>2. UNCHANGED processes \/ \E s : Signal(s)
    BY <1>10 DEF StopSignal
  <2> QED
    BY <2>1, <2>2, SignalType DEF RestType, Addressed, processes, history
<1>11. CASE StopRemove(c)
  <2>1. UNCHANGED <<processes, log, control, standalone, explicit, lapsed, faults>>
    BY <1>11 DEF StopRemove
  <2>2. /\ file' = [file EXCEPT ![cmd[c].url] = None]
        /\ loose' = loose \cup ({file[cmd[c].url]} \ {cmd[c].server, None})
        /\ cmd[c].url \in Urls
    BY <1>11 DEF StopRemove, At, Local
  <2> QED
    BY <2>1, <2>2 DEF RestType, Addressed, processes
<1>12. CASE CrashCommand(c)
  <2>1. [bridge |-> cmd[c].bridge, control |-> cmd[c].control] \in Context
    BY CmdType DEF Context
  <2>2. loose' \subseteq Servers \cup Controls
    BY <1>12, <2>1, BehindType, CmdType DEF CrashCommand, RestType, Alive
  <2>3. UNCHANGED <<processes, file, log, control, standalone, explicit, lapsed>> /\ faults' \in Nat
    BY <1>12 DEF CrashCommand, Fault, RestType
  <2> QED
    BY <2>2, <2>3 DEF RestType, Addressed, processes
<1>13. CASE Step(c)
  <2>1. \/ Ensure(c) \/ StartDedicated(c) \/ AwaitServer(c) \/ Probe(c) \/ WriteState(c)
        \/ PrepareControl(c) \/ OpenPage(c) \/ WriteLog(c) \/ Undo(c)
        \/ WriteStack(c) \/ CloseControl(c) \/ StopControl(c) \/ RemoveLog(c)
        \/ StopSignal(c) \/ StopRemove(c)
    BY <1>13, Zenon DEF Step
  <2> QED
    BY <2>1, <1>4, <1>5, <1>6, <1>7, <1>8, <1>9, <1>10, <1>11, <1>14, <1>15,
       BridgeTypes, Zenon
<1> QED
  BY <1>2, <1>3, <1>12, <1>13, Zenon DEF OfCommand

LEMMA ProcessTypes ==
  ASSUME RestType, Addressed, OfProcess
  PROVE  RestType' /\ Addressed'
<1>1. ASSUME NEW s \in Servers, Listen(s) PROVE RestType' /\ Addressed'
  <2>1. UNCHANGED <<file, log, control, history, faults>>
    BY <1>1 DEF Listen
  <2>2. \/ server' = [server EXCEPT ![s] = "dead"] /\ UNCHANGED <<listener, address>>
        \/ \E u \in Urls : /\ listener' = [listener EXCEPT ![u] = s]
                           /\ address' = [address EXCEPT ![s] = u]
                           /\ server' = [server EXCEPT ![s] = "up"]
    BY <1>1 DEF Listen, RestType
  <2> QED
    BY <2>1, <2>2 DEF RestType, Addressed, history
<1>2. ASSUME NEW s \in Servers, End(s), server[s] \in {"up", "signalled"},
             UNCHANGED faults \/ Fault
      PROVE  RestType' /\ Addressed'
  <2>1. /\ server' = [server EXCEPT ![s] = "dead"]
        /\ listener' = [listener EXCEPT ![address[s]] = None]
        /\ lapsed' \subseteq lapsed \cup {address[s]} /\ address[s] \in Urls
        /\ UNCHANGED <<address, file, log, control, loose, standalone, explicit>>
    BY <1>2 DEF End, Addressed
  <2> QED
    BY <1>2, <2>1 DEF RestType, Addressed, Fault
<1> QED
  BY <1>1, <1>2 DEF OfProcess, Close, CrashServer

CommandInv == TypeOK /\ Addressed /\ \A c \in Commands : Local(c)

LEMMA CommandInvStep == CommandInv /\ [Next]_vars => CommandInv'
<1> SUFFICES ASSUME CommandInv, [Next]_vars PROVE CommandInv'
  OBVIOUS
<1> USE TypeParts DEF CommandInv
<1>1. ASSUME NEW c \in Commands, OfCommand(c) PROVE CommandInv'
  <2>1. OwnStep(c)
    BY <1>1, CommandSteps
  <2>2. RestType' /\ Addressed'
    BY <1>1, CommandTypes
  <2>3. \A q \in Commands \ {c} : Local(q)'
    BY <2>1 DEF OwnStep, Local
  <2>4. /\ Local(c)'
        /\ pc' \in [Commands -> Positions] /\ cmd' \in [Commands -> Command]
    BY <2>1 DEF OwnStep
  <2>5. TypeOK'
    BY <2>2, <2>4, Zenon DEF TypeOK, RestType
  <2> QED
    BY <2>2, <2>3, <2>4, <2>5
<1>2. CASE OfProcess
  <2>1. RestType' /\ Addressed'
    BY <1>2, ProcessTypes
  <2>2. UNCHANGED <<pc, cmd>>
    BY <1>2, ProcessSteps
  <2>3. \A c \in Commands : Local(c)'
    BY <2>2 DEF Local
  <2>4. pc' \in [Commands -> Positions] /\ cmd' \in [Commands -> Command]
    BY <2>2
  <2>5. TypeOK'
    BY <2>1, <2>4, Zenon DEF TypeOK, RestType
  <2> QED
    BY <2>1, <2>3, <2>5
<1>3. CASE UNCHANGED vars
  <2>1. UNCHANGED <<processes, file, log, control, pc, cmd, history, faults>>
    BY <1>3 DEF vars
  <2>2. TypeOK'
    BY <2>1 DEF TypeOK, processes, history
  <2>3. Addressed' /\ \A c \in Commands : Local(c)'
    BY <2>1 DEF Addressed, Local, processes
  <2> QED
    BY <2>2, <2>3
<1> QED
  BY <1>1, <1>2, <1>3, Steps

LEMMA CommandInvariant == Spec => []CommandInv
<1>1. Init => CommandInv
  <2> SUFFICES ASSUME Init PROVE CommandInv
    OBVIOUS
  <2>1. TypeOK
    BY NoCommandType, OpenAssumption DEF Init, TypeOK, Positions
  <2>2. Addressed /\ \A c \in Commands : Local(c)
    BY DEF Init, Addressed, Local
  <2> QED
    BY <2>1, <2>2 DEF CommandInv
<1> QED
  BY <1>1, CommandInvStep, PTL DEF Spec

\* Every variable keeps its type, whatever overlaps, fails or is killed.
THEOREM TypeCorrect == Spec => []TypeOK
<1>1. CommandInv => TypeOK
  BY DEF CommandInv
<1> QED
  BY <1>1, CommandInvariant, PTL

-----------------------------------------------------------------------------
(* Request controls *)

Released(k) == control[k] = "dead" \/ k \in loose

\* A stop that is closing knows the control its directory remembers, or one that has been
\* released; so does one that has read the log again; once it has stopped the control it read,
\* the one it knew has been released.
Stopping(c) ==
  \A k \in Controls : ControlOf(cmd[c].previous) = k =>
    /\ pc[c] = "closing" => ControlOf(log[cmd[c].dir]) = k \/ Released(k)
    /\ pc[c] = "hooks" => cmd[c].control = k \/ Released(k)
    /\ pc[c] = "unlog" => Released(k)

\* An open that has started a control has it until the log is written or all is undone.
Owns(c, k) == cmd[c].started /\ cmd[c].control = k /\ pc[c] \in {"page", "log", "undo"}

Held(k) ==
  control[k] = "alive" =>
    \/ k \in loose
    \/ \E d \in Directories : ControlOf(log[d]) = k
    \/ \E c \in Commands : Owns(c, k)

LEMMA Touched ==
  ASSUME CommandInv, NEW c \in Commands, OfCommand(c)
  PROVE  /\ loose \subseteq loose' /\ standalone \subseteq standalone'
         /\ UNCHANGED log \/ WriteLog(c) \/ RemoveLog(c) \/ WriteStack(c)
         /\ UNCHANGED control \/ PrepareControl(c) \/ Undo(c) \/ StopControl(c)
<1>1. ASSUME NEW d \in Directories, Open(c, d) \/ Use(c, d) \/ Stack(c, d) \/ Stop(c, d)
      PROVE  UNCHANGED <<log, control, loose, standalone>>
  BY <1>1 DEF Open, Use, Stack, Stop, history
<1>2. ASSUME NEW u \in Urls, Start(c, u) \/ Kill(c, u) PROVE UNCHANGED <<log, control, loose, standalone>>
  BY <1>2 DEF Start, Kill, history
<1>3. CASE Ensure(c) \/ StartDedicated(c) \/ AwaitServer(c) \/ OpenPage(c) \/ StopSignal(c)
  BY <1>3 DEF Ensure, StartDedicated, AwaitServer, OpenPage, StopSignal, Spawn, Prepared, history
<1>4. CASE Probe(c) \/ WriteState(c) \/ StopRemove(c) \/ CrashCommand(c)
  BY <1>4 DEF Probe, WriteState, StopRemove, CrashCommand, Prepared
<1>5. CASE PrepareControl(c) \/ CloseControl(c) \/ StopControl(c)
  BY <1>5 DEF PrepareControl, CloseControl, StopControl, history
<1>6. CASE WriteLog(c) \/ Undo(c) \/ WriteStack(c)
  BY <1>6 DEF WriteLog, Undo, WriteStack
<1>7. CASE RemoveLog(c)
  BY <1>7, TypeParts, RemoveStep DEF CommandInv
<1> QED
  BY <1>1, <1>2, <1>3, <1>4, <1>5, <1>6, <1>7, Zenon DEF OfCommand, Step

\* A control that was released stays so.
LEMMA ReleasedStays ==
  ASSUME CommandInv, NEW c \in Commands, OfCommand(c), NEW k \in Controls, Released(k)
  PROVE  Released(k)'
<1>1. control[k] = "dead" => control'[k] = "dead"
  BY Touched DEF PrepareControl, Undo, StopControl, TypeOK, CommandInv
<1> QED
  BY <1>1, Touched DEF Released

\* What a command acts on without having read it is lost, its control included.
LEMMA OvertakenControl ==
  ASSUME TypeOK, NEW c \in Commands, NEW k \in Controls, cmd[c].dir \in Directories,
         log[cmd[c].dir] # cmd[c].previous, ControlOf(log[cmd[c].dir]) = k
  PROVE  k \in Overtaken(c)
BY NoneIsNone DEF Overtaken, Behind

\* A directory forgets a control only when it is released.
LEMMA ForgetsReleased ==
  ASSUME CommandInv, NEW c \in Commands, Stopping(c), OfCommand(c),
         NEW d \in Directories, NEW k \in Controls, ControlOf(log[d]) = k
  PROVE  ControlOf(log'[d]) = k \/ Released(k)'
<1> USE DEF CommandInv
<1>1. CASE log'[d] = log[d]
  BY <1>1
<1>2. CASE WriteLog(c) /\ log'[d] # log[d]
  <2> DEFINE context == [bridge |-> cmd[c].bridge, control |-> cmd[c].control]
  <2>1. log' = [log EXCEPT ![cmd[c].dir] = context] /\ loose' = loose \cup Overtaken(c)
    BY <1>2 DEF WriteLog
  <2>2. cmd[c].dir = d
    BY <1>2, <2>1 DEF TypeOK
  <2>3. context # None
    BY CmdType, NoneIsNone DEF Context
  <2>4. CASE log[d] = cmd[c].previous
    <3>1. cmd[c].previous # None /\ cmd[c].previous.control = k
      BY <2>4, NoneIsNone DEF ControlOf
    <3>2. cmd[c].control = k
      BY <1>2, <3>1 DEF WriteLog, At, Local
    <3>3. ControlOf(context) = k
      BY <2>3, <3>2 DEF ControlOf
    <3>4. log'[d] = context
      <4> HIDE DEF context
      <4> QED
        BY <2>1, <2>2 DEF TypeOK
    <3> HIDE DEF context
    <3> QED
      BY <3>3, <3>4
  <2>5. CASE log[d] # cmd[c].previous
    <3>1. k \in Overtaken(c)
      BY <2>2, <2>5, OvertakenControl
    <3> QED
      BY <2>1, <3>1 DEF Released
  <2> QED
    BY <2>4, <2>5
<1>3. CASE RemoveLog(c) /\ log'[d] # log[d]
  <2>1. log' = [log EXCEPT ![cmd[c].dir] = None] /\ loose' = loose \cup Overtaken(c)
    BY <1>3, RemoveStep
  <2>2. cmd[c].dir = d
    BY <1>3, <2>1 DEF TypeOK
  <2>3. CASE log[d] = cmd[c].previous
    <3>1. Released(k)
      BY <1>3, <2>3 DEF RemoveLog, At, Stopping
    <3> QED
      BY <3>1, ReleasedStays
  <2>4. CASE log[d] # cmd[c].previous
    <3>1. k \in Overtaken(c)
      BY <2>2, <2>4, OvertakenControl
    <3> QED
      BY <2>1, <3>1 DEF Released
  <2> QED
    BY <2>3, <2>4
<1>4. CASE WriteStack(c) /\ log'[d] # log[d]
  <2> DEFINE context == [bridge |-> cmd[c].previous.bridge, control |-> None]
  <2>1. /\ log' = [log EXCEPT ![cmd[c].dir] = context]
        /\ loose' = loose \cup Overtaken(c) \cup ({cmd[c].previous.control} \ {None})
    BY <1>4 DEF WriteStack
  <2>2. cmd[c].dir = d
    BY <1>4, <2>1 DEF TypeOK
  <2>3. CASE log[d] = cmd[c].previous
    <3>1. cmd[c].previous.control = k
      BY <2>3, NoneIsNone DEF ControlOf
    <3> QED
      BY <2>1, <3>1, NoneIsNone DEF Released
  <2>4. CASE log[d] # cmd[c].previous
    <3>1. k \in Overtaken(c)
      BY <2>2, <2>4, OvertakenControl
    <3> QED
      BY <2>1, <3>1 DEF Released
  <2> QED
    BY <2>3, <2>4
<1> QED
  BY <1>1, <1>2, <1>3, <1>4, Touched

\* Only stop comes to these places.
LEMMA StopsArrive ==
  ASSUME CommandInv, NEW c \in Commands, OfCommand(c), pc'[c] \in {"closing", "hooks", "unlog"}
  PROVE  CloseControl(c) \/ StopControl(c) \/ \E d \in Directories : Stop(c, d)
<1> USE DEF CommandInv
<1>1. \A d \in Directories : ~Open(c, d) /\ ~Use(c, d) /\ ~Stack(c, d)
  BY OpenStep, UseStep, StackStep
<1>2. \A u \in Urls : ~Start(c, u) /\ ~Kill(c, u)
  BY StartStep
<1>3. ~CrashCommand(c) /\ ~PrepareControl(c)
  BY CrashStep, ControlStep
<1>4. ~(Ensure(c) \/ StartDedicated(c) \/ AwaitServer(c) \/ Probe(c) \/ WriteState(c))
  BY BridgeSteps
<1>5. ~(OpenPage(c) \/ WriteLog(c) \/ Undo(c))
  BY PageSteps
<1>6. ~(WriteStack(c) \/ RemoveLog(c) \/ StopSignal(c) \/ StopRemove(c))
  <2>1. RemoveLog(c) => pc'[c] \in {"done", "stopSignal"}
    BY RemoveStep
  <2>2. StopSignal(c) => pc'[c] \in {"done", "stopRemove"}
    BY DEF StopSignal, Goto, Move, TypeOK
  <2>3. StopRemove(c) \/ WriteStack(c) => pc'[c] = "done"
    BY DEF StopRemove, WriteStack, Goto, Move, TypeOK
  <2> QED
    BY <2>1, <2>2, <2>3
<1> QED
  BY <1>1, <1>2, <1>3, <1>4, <1>5, <1>6, Zenon DEF OfCommand, Step

LEMMA StoppingStep ==
  ASSUME CommandInv, \A q \in Commands : Stopping(q), NEW c \in Commands, OfCommand(c)
  PROVE  \A q \in Commands : Stopping(q)'
<1> USE DEF CommandInv
<1>0. OwnStep(c)
  BY CommandSteps
<1>1. ASSUME NEW q \in Commands \ {c} PROVE Stopping(q)'
  <2>1. pc'[q] = pc[q] /\ cmd'[q] = cmd[q]
    BY <1>0 DEF OwnStep
  <2>2. pc[q] = "closing" => cmd[q].dir \in Directories
    BY DEF Local
  <2> SUFFICES ASSUME NEW k \in Controls, ControlOf(cmd[q].previous) = k
               PROVE  /\ pc[q] = "closing" => ControlOf(log'[cmd[q].dir]) = k \/ Released(k)'
                      /\ pc[q] = "hooks" => cmd[q].control = k \/ Released(k)'
                      /\ pc[q] = "unlog" => Released(k)'
    BY <2>1 DEF Stopping, ControlOf
  <2>3. Released(k) => Released(k)'
    BY ReleasedStays
  <2>4. pc[q] = "closing" /\ ControlOf(log[cmd[q].dir]) = k
          => ControlOf(log'[cmd[q].dir]) = k \/ Released(k)'
    BY <2>2, ForgetsReleased
  <2> QED
    BY <2>3, <2>4 DEF Stopping
<1>2. ASSUME pc'[c] \notin {"closing", "hooks", "unlog"} PROVE Stopping(c)'
  BY <1>2 DEF Stopping
<1>3. ASSUME NEW d \in Directories, Stop(c, d) PROVE Stopping(c)'
  <2>1. pc'[c] = "closing" /\ cmd'[c].dir = d /\ cmd'[c].previous = log[d] /\ log' = log
    BY <1>3, StopStep DEF Stop
  <2> QED
    BY <2>1 DEF Stopping, ControlOf
<1>4. ASSUME CloseControl(c) PROVE Stopping(c)'
  <2>1. /\ pc'[c] = "hooks" /\ pc[c] = "closing" /\ cmd'[c].previous = cmd[c].previous
        /\ cmd'[c].control = ControlOf(log[cmd[c].dir])
    BY <1>4, CloseStep DEF CloseControl, At
  <2> SUFFICES ASSUME NEW k \in Controls, ControlOf(cmd[c].previous) = k
               PROVE  cmd'[c].control = k \/ Released(k)'
    BY <2>1 DEF Stopping, ControlOf
  <2>2. ControlOf(log[cmd[c].dir]) = k \/ Released(k)
    BY <2>1 DEF Stopping
  <2> QED
    BY <2>1, <2>2, ReleasedStays
<1>6. ASSUME StopControl(c), pc'[c] \in {"closing", "hooks", "unlog"} PROVE Stopping(c)'
  <2>1. pc[c] = "hooks" /\ cmd[c].kind = "stop"
    BY <1>6 DEF StopControl, At, Local
  <2>2. ~Throw(c)
    BY <1>6, <2>1 DEF Throw, Goto, Move, TypeOK
  <2>3. /\ Goto(c, "unlog")
        /\ cmd[c].control # None => control' = [control EXCEPT ![cmd[c].control] = "dead"]
    BY <1>6, <2>2 DEF StopControl
  <2>4. pc'[c] = "unlog" /\ cmd'[c] = cmd[c]
    BY <2>3, GotoType DEF Positions
  <2> SUFFICES ASSUME NEW k \in Controls, ControlOf(cmd[c].previous) = k
               PROVE  Released(k)'
    BY <2>4 DEF Stopping, ControlOf
  <2>5. CASE cmd[c].control = k
    BY <2>3, <2>5, NoneIsNone DEF Released, TypeOK
  <2>6. CASE Released(k)
    BY <2>6, ReleasedStays
  <2> QED
    BY <2>1, <2>5, <2>6 DEF Stopping
<1>5. Stopping(c)'
  BY <1>2, <1>3, <1>4, <1>6, StopsArrive
<1> QED
  BY <1>1, <1>5

\* A control that runs stays with an open, with a directory, or was lost.
LEMMA HeldStep ==
  ASSUME CommandInv, \A q \in Commands : Stopping(q), \A k \in Controls : Held(k),
         NEW c \in Commands, OfCommand(c)
  PROVE  \A k \in Controls : Held(k)'
<1> USE DEF CommandInv
<1> SUFFICES ASSUME NEW k \in Controls, control'[k] = "alive"
             PROVE  \/ k \in loose'
                    \/ \E d \in Directories : ControlOf(log'[d]) = k
                    \/ \E q \in Commands : Owns(q, k)'
  BY DEF Held, ControlOf
<1>0. OwnStep(c)
  BY CommandSteps
<1>1. CASE control[k] # "alive"
  <2>1. PrepareControl(c) /\ ~UNCHANGED control
    BY <1>1, Touched DEF Undo, StopControl, TypeOK
  <2>2. PICK s \in Controls : /\ control' = [control EXCEPT ![s] = "alive"]
                              /\ pc'[c] = "page" /\ cmd'[c].started /\ cmd'[c].control = s
    BY <2>1, ControlStep
  <2>3. s = k
    BY <1>1, <2>2 DEF TypeOK
  <2>4. Owns(c, k)'
    <3>1. pc'[c] \in {"page", "log", "undo"} /\ cmd'[c].control = k
      BY <2>2, <2>3
    <3> QED
      BY <2>2, <3>1, Zenon DEF Owns
  <2> QED
    BY <2>4
<1>2. CASE k \in loose
  BY <1>2, Touched
<1>3. ASSUME NEW d \in Directories, ControlOf(log[d]) = k
      PROVE  k \in loose' \/ ControlOf(log'[d]) = k
  <2>1. ControlOf(log'[d]) = k \/ Released(k)'
    BY <1>3, ForgetsReleased
  <2> QED
    BY <2>1 DEF Released
<1>4. ASSUME NEW q \in Commands \ {c}, Owns(q, k) PROVE Owns(q, k)'
  <2>1. pc'[q] = pc[q] /\ cmd'[q] = cmd[q]
    BY <1>0 DEF OwnStep
  <2> QED
    BY <1>4, <2>1, Zenon DEF Owns
<1>5. ASSUME Owns(c, k)
      PROVE  k \in loose' \/ (\E d \in Directories : ControlOf(log'[d]) = k) \/ Owns(c, k)'
  <2>1. cmd[c].started /\ cmd[c].control = k /\ pc[c] \in {"page", "log", "undo"}
    BY <1>5, Zenon DEF Owns
  <2>2. OpenPage(c) \/ WriteLog(c) \/ Undo(c) \/ CrashCommand(c)
    BY <2>1 DEF OfCommand, Step, Open, Use, Stack, Stop, Start, Kill, Begin, At, Ensure,
                StartDedicated, AwaitServer, Probe, WriteState, PrepareControl, WriteStack,
                CloseControl, StopControl, RemoveLog, StopSignal, StopRemove
  <2>3. ASSUME pc[c] \in {"page", "log"}, Throw(c) PROVE Owns(c, k)'
    <3>1. cmd[c].kind = "open"
      BY <2>3 DEF Local
    <3>2. Goto(c, "undo") /\ "undo" \in Positions
      BY <2>3, <3>1 DEF Throw, Positions
    <3>3. pc'[c] = "undo" /\ cmd'[c] = cmd[c]
      BY <3>2, GotoType
    <3> QED
      BY <2>1, <3>3, Zenon DEF Owns
  <2>4. CASE OpenPage(c)
    <3>1. pc[c] = "page" /\ (Goto(c, "log") \/ Throw(c))
      BY <2>4 DEF OpenPage, At
    <3>2. CASE Goto(c, "log")
      <4>1. pc'[c] = "log" /\ cmd'[c] = cmd[c]
        BY <3>2, GotoType DEF Positions
      <4> QED
        BY <2>1, <4>1, Zenon DEF Owns
    <3> QED
      BY <2>3, <3>1, <3>2
  <2>5. CASE WriteLog(c)
    <3> DEFINE context == [bridge |-> cmd[c].bridge, control |-> cmd[c].control]
    <3>1. pc[c] = "log" /\ (log' = [log EXCEPT ![cmd[c].dir] = context] \/ Throw(c))
      BY <2>5 DEF WriteLog, At
    <3>2. cmd[c].dir \in Directories
      BY <3>1 DEF Local
    <3>3. context # None /\ context.control = k
      BY <2>1, CmdType, NoneIsNone DEF Context
    <3> HIDE DEF context
    <3>4. CASE log' = [log EXCEPT ![cmd[c].dir] = context]
      <4>1. ControlOf(log'[cmd[c].dir]) = k
        BY <3>2, <3>3, <3>4 DEF TypeOK, ControlOf
      <4> QED
        BY <3>2, <4>1
    <3> QED
      BY <2>3, <3>1, <3>4
  <2>6. CASE Undo(c)
    <3>1. cmd[c].started = TRUE
      BY <2>1, CmdType, Zenon
    <3>2. control' = [control EXCEPT ![k] = "dead"]
      BY <2>1, <2>6, <3>1 DEF Undo
    <3> QED
      BY <3>2 DEF TypeOK
  <2>7. CASE CrashCommand(c)
    <3>1. k \in Behind([bridge |-> cmd[c].bridge, control |-> cmd[c].control])
      <4> DEFINE context == [bridge |-> cmd[c].bridge, control |-> cmd[c].control]
      <4>1. context # None /\ context.control = k
        BY <2>1, CmdType, NoneIsNone DEF Context
      <4> HIDE DEF context
      <4>2. k \in Behind(context)
        BY <4>1, NoneIsNone DEF Behind, ControlOf
      <4> QED
        BY <4>2 DEF context
    <3> QED
      BY <2>7, <3>1 DEF CrashCommand
  <2> QED
    BY <2>2, <2>4, <2>5, <2>6, <2>7
<1>6. CASE control[k] = "alive"
  <2>1. \/ k \in loose
        \/ \E d \in Directories : ControlOf(log[d]) = k
        \/ \E q \in Commands : Owns(q, k)
    BY <1>6 DEF Held
  <2> QED
    BY <2>1, <1>2, <1>3, <1>4, <1>5
<1> QED
  BY <1>1, <1>6

ControlInv == (\A c \in Commands : Stopping(c)) /\ (\A k \in Controls : Held(k))

LEMMA ControlInvariant == Spec => []ControlInv
<1>1. Init => ControlInv
  BY DEF Init, Stopping, Held, ControlInv
<1>2. ASSUME CommandInv, ControlInv, [Next]_vars PROVE ControlInv'
  <2>1. ASSUME UNCHANGED <<log, control, pc, cmd, loose>>
        PROVE  ControlInv'
    <3>1. \A c \in Commands : Stopping(c)'
      BY <1>2, <2>1 DEF ControlInv, Stopping, Released, ControlOf
    <3>2. ASSUME NEW c \in Commands, NEW k PROVE Owns(c, k)' <=> Owns(c, k)
      BY <2>1, Zenon DEF Owns
    <3>3. \A k \in Controls : Held(k)'
      BY <1>2, <2>1, <3>2 DEF ControlInv, Held, ControlOf
    <3> QED
      BY <3>1, <3>3 DEF ControlInv
  <2>2. CASE OfProcess
    BY <2>1, <2>2, ProcessSteps
  <2>3. CASE UNCHANGED vars
    BY <2>1, <2>3 DEF vars, history
  <2>4. ASSUME NEW c \in Commands, OfCommand(c)
        PROVE  ControlInv'
    BY <1>2, <2>4, StoppingStep, HeldStep DEF ControlInv
  <2> QED
    BY <1>2, <2>2, <2>3, <2>4, Steps
<1> QED
  BY <1>1, <1>2, CommandInvariant, PTL DEF Spec

\* When no command runs, a request control that runs is remembered by a directory, or a fault
\* or an overlapping command has lost its record (startNetworkControlProcess, the catch block
\* of open, stopOpenContextControl).
THEOREM NoControlIsLeft == Spec => []NoControlLeft
<1>1. ControlInv => NoControlLeft
  <2> SUFFICES ASSUME ControlInv, Quiet,
                      NEW k \in Controls, control[k] = "alive"
               PROVE  k \in loose \/ \E d \in Directories : ControlOf(log[d]) = k
    BY DEF NoControlLeft
  <2>1. \A c \in Commands : pc[c] \in {"idle", "done"}
    BY DEF Quiet, Running
  <2>2. \A c \in Commands : ~Owns(c, k)
    BY <2>1 DEF Owns
  <2> QED
    BY <2>2 DEF ControlInv, Held
<1> QED
  BY <1>1, ControlInvariant, PTL

-----------------------------------------------------------------------------
(* Bridges *)

Born(s) == server[s] \notin {"unborn", "starting"}

\* What a command knows of the process it has started or is stopping.
Known(c) ==
  /\ pc[c] \in {"probing", "write"} =>
       Born(cmd[c].server) /\ cmd[c].url = address[cmd[c].server]
  /\ pc[c] = "stopSignal" /\ cmd[c].server # None => Born(cmd[c].server)
  /\ pc[c] = "stopRemove" =>
       cmd[c].server \in Servers /\ server[cmd[c].server] \in {"signalled", "dead"}

\* Who answers at an address serves there; a state file never names a process on its way up.
Listening ==
  \A u \in Urls : listener[u] \in Servers =>
    server[listener[u]] \in {"up", "signalled"} /\ address[listener[u]] = u

Filed == \A u \in Urls : file[u] \in Servers => Born(file[u])

\* A command that has started a process has it until the state file is written.
Starts(c, s) == pc[c] \in {"starting", "probing", "write"} /\ cmd[c].server = s

Recorded(s) ==
  server[s] \in {"starting", "up"} =>
    \/ s \in loose
    \/ server[s] = "up" /\ file[address[s]] = s
    \/ \E c \in Commands : Starts(c, s)

ServerInv ==
  /\ Listening /\ Filed
  /\ \A c \in Commands : Known(c)
  /\ \A s \in Servers : Recorded(s)

\* Commands start processes and signal them; the rest is up to the processes.
LEMMA ServersTouched ==
  ASSUME NEW c \in Commands, OfCommand(c)
  PROVE  /\ UNCHANGED listener
         /\ \/ UNCHANGED <<server, address>>
            \/ pc[c] \in {"ensure", "dedicated"} /\ Spawn(c)
            \/ (AwaitServer(c) \/ Probe(c) \/ StopSignal(c)) /\ \E s : Signal(s)
         /\ UNCHANGED file \/ WriteState(c) \/ StopRemove(c)
<1>1. ASSUME NEW d \in Directories, Open(c, d) \/ Use(c, d) \/ Stack(c, d) \/ Stop(c, d)
      PROVE  UNCHANGED <<processes, file>>
  BY <1>1 DEF Open, Use, Stack, Stop
<1>2. ASSUME NEW u \in Urls, Start(c, u) \/ Kill(c, u) PROVE UNCHANGED <<processes, file>>
  BY <1>2 DEF Start, Kill
<1>3. ASSUME Ensure(c) \/ StartDedicated(c)
      PROVE  /\ UNCHANGED file
             /\ UNCHANGED processes \/ (pc[c] \in {"ensure", "dedicated"} /\ Spawn(c))
  <2>1. pc[c] \in {"ensure", "dedicated"} /\ UNCHANGED file
    BY <1>3 DEF Ensure, StartDedicated, At
  <2>2. UNCHANGED processes \/ Spawn(c)
    BY <1>3 DEF Ensure, StartDedicated, processes
  <2> QED
    BY <2>1, <2>2
<1>4. ASSUME AwaitServer(c) \/ Probe(c) \/ StopSignal(c)
      PROVE  UNCHANGED file /\ (UNCHANGED processes \/ \E s : Signal(s))
  BY <1>4 DEF AwaitServer, Probe, StopSignal
<1>5. CASE WriteState(c) \/ StopRemove(c) \/ CrashCommand(c)
  BY <1>5 DEF WriteState, StopRemove, CrashCommand, processes
<1>6. ASSUME \/ PrepareControl(c) \/ OpenPage(c) \/ WriteLog(c) \/ Undo(c) \/ WriteStack(c)
             \/ CloseControl(c) \/ StopControl(c) \/ RemoveLog(c)
      PROVE  UNCHANGED <<processes, file>>
  BY <1>6, Zenon DEF PrepareControl, OpenPage, WriteLog, Undo, WriteStack, CloseControl,
                     StopControl, RemoveLog
<1> QED
  BY <1>1, <1>2, <1>3, <1>4, <1>5, <1>6 DEF OfCommand, Step, processes, Spawn, Signal

\* What the steps of commands leave of a process.
LEMMA ServersStay ==
  ASSUME CommandInv, NEW c \in Commands, OfCommand(c), NEW s \in Servers
  PROVE  /\ UNCHANGED listener
         /\ Born(s) => Born(s)' /\ address'[s] = address[s]
         /\ server[s] \in {"signalled", "dead"} => server'[s] \in {"signalled", "dead"}
         /\ server[s] \in {"up", "signalled"} => server'[s] \in {"up", "signalled"}
         /\ server'[s] = "up" => server[s] = "up"
         /\ server'[s] = "starting" => server[s] = "starting" \/ Starts(c, s)'
<1> USE DEF CommandInv
<1>1. CASE UNCHANGED <<server, address>>
  BY <1>1, ServersTouched DEF Born, TypeOK
<1>2. CASE pc[c] \in {"ensure", "dedicated"} /\ Spawn(c)
  BY <1>2, SpawnStep, ServersTouched DEF Born, TypeOK, Starts
<1>3. ASSUME NEW q, Signal(q) 
      PROVE  /\ Born(s) => Born(s)' /\ address'[s] = address[s]
             /\ server[s] \in {"signalled", "dead"} => server'[s] \in {"signalled", "dead"}
             /\ server[s] \in {"up", "signalled"} => server'[s] \in {"up", "signalled"}
             /\ server'[s] = "up" => server[s] = "up"
             /\ server'[s] = "starting" => server[s] = "starting"
  BY <1>3 DEF Signal, Signalled, Born, TypeOK
<1> QED
  BY <1>1, <1>2, <1>3, ServersTouched

\* Only these steps come to these places.
LEMMA Arrivals ==
  ASSUME CommandInv, NEW c \in Commands, OfCommand(c)
  PROVE  /\ pc'[c] = "probing" => AwaitServer(c)
         /\ pc'[c] = "write" => Probe(c)
         /\ pc'[c] = "stopRemove" => StopSignal(c)
         /\ pc'[c] = "stopSignal" =>
              cmd'[c].server = None \/ \E u \in Urls : cmd'[c].server = file[u]
<1> USE DEF CommandInv
<1>1. ASSUME NEW d \in Directories, Open(c, d) \/ Use(c, d) \/ Stack(c, d) \/ Stop(c, d)
      PROVE  pc'[c] \in {"ensure", "dedicated", "control", "stack", "closing"}
  BY <1>1, OpenStep, UseStep, StackStep, StopStep
<1>2. ASSUME NEW u \in Urls, Start(c, u) \/ Kill(c, u)
      PROVE  /\ pc'[c] \in {"ensure", "stopSignal"}
             /\ pc'[c] = "stopSignal" => cmd'[c].server = file[u]
  BY <1>2, StartStep
<1>3. ASSUME Ensure(c) \/ StartDedicated(c) \/ WriteState(c)
      PROVE  pc'[c] \in {"starting", "control", "undo", "done"}
  BY <1>3, SpawnStep, PreparedStep, ThrowType DEF Ensure, StartDedicated, WriteState, At
<1>4. AwaitServer(c) => pc'[c] \in {"probing", "undo", "done"}
  BY ThrowType DEF AwaitServer, Move, TypeOK
<1>5. Probe(c) => pc'[c] \in {"write", "undo", "done"}
  BY ThrowType, GotoType DEF Probe, Positions
<1>6. PrepareControl(c) \/ CrashCommand(c) => pc'[c] \in {"page", "undo", "done"}
  BY ControlStep, CrashStep
<1>7. OpenPage(c) => pc'[c] \in {"log", "undo", "done"}
  BY ThrowType, GotoType DEF OpenPage, Positions
<1>8. ASSUME WriteLog(c) \/ Undo(c) \/ RemoveLog(c)
      PROVE  pc'[c] \in {"done", "undo", "stopSignal"} /\ (pc'[c] = "stopSignal" => cmd'[c].server = None)
  <2>1. BridgeOf(cmd[c].previous) \in Urls \cup {None} /\ cmd[c].bridge \in Urls \cup {None}
    BY CmdType, ContextType
  <2>2. CASE WriteLog(c) \/ Undo(c)
    <3>1. Throw(c) \/ \E u \in Urls \cup {None} : \E keep : StopOther(c, u, keep)
      BY <2>1, <2>2 DEF WriteLog, Undo
    <3> QED
      BY <3>1, StopOtherStep, ThrowType
  <2> QED
    BY <1>8, <2>2, RemoveStep
<1>9. CloseControl(c) \/ StopControl(c) \/ WriteStack(c) => pc'[c] \in {"hooks", "unlog", "undo", "done"}
  BY CloseStep, ThrowType, GotoType DEF StopControl, WriteStack, Positions
<1>10. StopSignal(c) => pc'[c] \in {"done", "stopRemove"}
  BY DEF StopSignal, Goto, Move, TypeOK
<1>11. StopRemove(c) => pc'[c] = "done"
  BY DEF StopRemove, Goto, Move, TypeOK
<1> QED
  BY <1>1, <1>2, <1>3, <1>4, <1>5, <1>6, <1>7, <1>8, <1>9, <1>10, <1>11 DEF OfCommand, Step

LEMMA KnownStep ==
  ASSUME CommandInv, ServerInv, NEW c \in Commands, OfCommand(c)
  PROVE  \A q \in Commands : Known(q)'
<1> USE DEF CommandInv
<1>0. OwnStep(c)
  BY CommandSteps
<1>1. ASSUME NEW q \in Commands \ {c} PROVE Known(q)'
  <2>1. pc'[q] = pc[q] /\ cmd'[q] = cmd[q] /\ Known(q) /\ cmd[q].server \in Servers \cup {None}
    BY <1>0, CmdType DEF OwnStep, ServerInv
  <2>2. pc[q] \in {"probing", "write"} => cmd[q].server \in Servers
    BY DEF Local
  <2>3. cmd[q].server \in Servers =>
          /\ Born(cmd[q].server) => /\ server'[cmd[q].server] \notin {"unborn", "starting"}
                                    /\ address'[cmd[q].server] = address[cmd[q].server]
          /\ server[cmd[q].server] \in {"signalled", "dead"} =>
               server'[cmd[q].server] \in {"signalled", "dead"}
    BY ServersStay DEF Born
  <2> QED
    BY <2>1, <2>2, <2>3 DEF Known, Born
<1>2. ASSUME pc'[c] = "probing" PROVE Known(c)'
  <2> DEFINE s == cmd[c].server
             m == [cmd[c] EXCEPT !.url = address[s]]
  <2>1. AwaitServer(c)
    BY <1>2, Arrivals
  <2>2. s \in Servers /\ cmd[c] \in Command
    BY <2>1, CmdType DEF AwaitServer, At, Local
  <2>3. server[s] \in {"up", "signalled"} /\ Move(c, "probing", m) /\ UNCHANGED processes
    BY <1>2, <2>1, ThrowType DEF AwaitServer
  <2>4. m.server = s /\ m.url = address[s]
    BY <2>2 DEF Command
  <2> HIDE DEF m
  <2>5. cmd'[c] = m
    BY <2>3 DEF Move, TypeOK
  <2> QED
    BY <1>2, <2>3, <2>4, <2>5 DEF Known, Born, processes
<1>3. ASSUME pc'[c] = "write" PROVE Known(c)'
  <2>1. Probe(c)
    BY <1>3, Arrivals
  <2>2. Goto(c, "write") /\ UNCHANGED processes
    BY <1>3, <2>1, ThrowType DEF Probe
  <2>3. cmd'[c] = cmd[c] /\ pc[c] = "probing"
    BY <2>1, <2>2, GotoType DEF Probe, At, Positions
  <2> QED
    BY <1>3, <2>2, <2>3 DEF Known, Born, processes, ServerInv
<1>4. ASSUME pc'[c] = "stopSignal" PROVE Known(c)'
  <2>1. cmd'[c].server # None => cmd'[c].server \in Servers /\ Born(cmd'[c].server)
    BY <1>4, Arrivals DEF TypeOK, ServerInv, Filed
  <2>2. cmd'[c].server # None => server'[cmd'[c].server] \notin {"unborn", "starting"}
    BY <2>1, ServersStay DEF Born
  <2> QED
    BY <1>4, <2>2 DEF Known, Born
<1>5. ASSUME pc'[c] = "stopRemove" PROVE Known(c)'
  <2> DEFINE s == IF cmd[c].kind = "kill" THEN cmd[c].server ELSE file[cmd[c].url]
             m == [cmd[c] EXCEPT !.server = s]
  <2>1. StopSignal(c)
    BY <1>5, Arrivals
  <2>2. s # None /\ Signal(s) /\ Move(c, "stopRemove", m)
    BY <1>5, <2>1, GotoType DEF StopSignal, Positions
  <2>3. pc[c] = "stopSignal" /\ cmd[c].url \in Urls
    BY <2>1 DEF StopSignal, At, Local
  <2>4. s \in Servers /\ Born(s)
    BY <2>2, <2>3, CmdType DEF TypeOK, ServerInv, Filed, Known
  <2>5. m.server = s
    BY CmdType DEF Command
  <2> HIDE DEF m
  <2>6. cmd'[c] = m
    BY <2>2 DEF Move, TypeOK
  <2> HIDE DEF s
  <2>7. server'[s] \in {"signalled", "dead"}
    BY <2>2, <2>4 DEF Signal, Signalled, Born, TypeOK
  <2> QED
    BY <1>5, <2>4, <2>5, <2>6, <2>7 DEF Known
<1>6. Known(c)'
  BY <1>2, <1>3, <1>4, <1>5 DEF Known
<1> QED
  BY <1>1, <1>6

LEMMA FilesStep ==
  ASSUME CommandInv, ServerInv, NEW c \in Commands, OfCommand(c)
  PROVE  Listening' /\ Filed'
<1> USE DEF CommandInv
<1>1. Listening'
  <2> SUFFICES ASSUME NEW u \in Urls, listener'[u] \in Servers
               PROVE  /\ server'[listener'[u]] \in {"up", "signalled"}
                      /\ address'[listener'[u]] = u
    BY DEF Listening
  <2>1. listener'[u] = listener[u]
    BY ServersTouched
  <2>2. server[listener[u]] \in {"up", "signalled"} /\ address[listener[u]] = u
    BY <2>1 DEF ServerInv, Listening
  <2>3. Born(listener[u])
    BY <2>2 DEF Born
  <2> QED
    BY <2>1, <2>2, <2>3, ServersStay
<1>2. ASSUME NEW u \in Urls, NEW s \in Servers, file'[u] = s
      PROVE  server'[s] \notin {"unborn", "starting"}
  <2>1. Born(s)
    <3>1. CASE file'[u] = file[u]
      BY <1>2, <3>1 DEF ServerInv, Filed
    <3>2. CASE WriteState(c) /\ file'[u] # file[u]
      <4>1. pc[c] = "write" /\ file' = [file EXCEPT ![cmd[c].url] = cmd[c].server]
        BY <3>2 DEF WriteState, At
      <4>2. file'[u] = cmd[c].server
        BY <3>2, <4>1 DEF TypeOK
      <4> QED
        BY <1>2, <4>1, <4>2 DEF ServerInv, Known
    <3>3. CASE StopRemove(c) /\ file'[u] # file[u]
      <4>1. file' = [file EXCEPT ![cmd[c].url] = None]
        BY <3>3 DEF StopRemove
      <4> QED
        BY <1>2, <3>3, <4>1, NoneIsNone DEF TypeOK
    <3> QED
      BY <3>1, <3>2, <3>3, ServersTouched
  <2> QED
    BY <2>1, ServersStay DEF Born
<1>3. Filed'
  BY <1>2 DEF Filed, Born
<1> QED
  BY <1>1, <1>3

\* A command that has started a process hands it on, stops it, or loses it.
LEMMA StartsStep ==
  ASSUME CommandInv, ServerInv, NEW c \in Commands, OfCommand(c),
         NEW s \in Servers, Starts(c, s), server'[s] \in {"starting", "up"}
  PROVE  s \in loose' \/ Starts(c, s)' \/ (WriteState(c) /\ Prepared(c) /\ file'[address[s]] = s)
<1> USE DEF CommandInv
<1>1. pc[c] \in {"starting", "probing", "write"} /\ cmd[c].server = s
  BY DEF Starts
<1>2. AwaitServer(c) \/ Probe(c) \/ WriteState(c) \/ CrashCommand(c)
  BY <1>1 DEF OfCommand, Step, Open, Use, Stack, Stop, Start, Kill, Begin, At, Ensure,
              StartDedicated, PrepareControl, OpenPage, WriteLog, Undo, WriteStack,
              CloseControl, StopControl, RemoveLog, StopSignal, StopRemove
<1>3. ~Signal(s)
  <2>1. Signal(s) => server'[s] = Signalled(s)
    BY DEF Signal, TypeOK
  <2>2. Signalled(s) \notin {"starting", "up"}
    BY DEF Signalled
  <2> QED
    BY <2>1, <2>2
<1>4. CASE AwaitServer(c)
  <2> DEFINE m == [cmd[c] EXCEPT !.url = address[s]]
  <2>1. Move(c, "probing", m) \/ (server[s] = "dead" /\ UNCHANGED processes)
    BY <1>1, <1>3, <1>4 DEF AwaitServer
  <2>2. server[s] = "dead" => server'[s] \in {"signalled", "dead"}
    BY ServersStay
  <2>3. m.server = s
    BY <1>1, CmdType DEF Command
  <2> HIDE DEF m
  <2>4. Move(c, "probing", m) => pc'[c] = "probing" /\ cmd'[c].server = s
    BY <2>3 DEF Move, TypeOK
  <2> QED
    BY <2>1, <2>2, <2>4 DEF Starts
<1>5. CASE Probe(c)
  <2>1. Goto(c, "write") \/ s \in loose'
    BY <1>1, <1>3, <1>5 DEF Probe
  <2>2. Goto(c, "write") => pc'[c] = "write" /\ cmd'[c] = cmd[c]
    BY GotoType DEF Positions
  <2> QED
    BY <1>1, <2>1, <2>2 DEF Starts
<1>6. CASE WriteState(c)
  <2>1. cmd[c].url = address[s] /\ cmd[c].url \in Urls
    BY <1>1, <1>6 DEF WriteState, At, ServerInv, Known, Local
  <2>2. (file' = [file EXCEPT ![cmd[c].url] = s] /\ Prepared(c)) \/ s \in loose'
    BY <1>1, <1>6 DEF WriteState
  <2> QED
    BY <1>6, <2>1, <2>2 DEF TypeOK
<1>7. CASE CrashCommand(c)
  <2>1. loose' = loose \cup ({s} \ {None})
                   \cup Behind([bridge |-> cmd[c].bridge, control |-> cmd[c].control])
                   \cup {q \in Alive : address[q] # None /\ address[q] = cmd[c].url}
                   \cup (IF cmd[c].kind = "stop" THEN Behind(cmd[c].previous) ELSE {})
    BY <1>1, <1>7 DEF CrashCommand
  <2> QED
    BY <2>1, NoneIsNone
<1> QED
  BY <1>2, <1>4, <1>5, <1>6, <1>7

LEMMA RecordedStep ==
  ASSUME CommandInv, ServerInv, NEW c \in Commands, OfCommand(c), NEW s \in Servers
  PROVE  Recorded(s)'
<1> USE DEF CommandInv
<1> SUFFICES ASSUME server'[s] \in {"starting", "up"}, s \notin loose', ~Starts(c, s)'
             PROVE  \/ server'[s] = "up" /\ file'[address'[s]] = s
                    \/ \E q \in Commands : Starts(q, s)'
  BY DEF Recorded
<1>0. OwnStep(c) /\ loose \subseteq loose'
  BY CommandSteps, Touched
<1>1. server[s] = server'[s] /\ (server[s] = "up" => address'[s] = address[s] /\ address[s] \in Urls)
  BY ServersStay DEF Born, Addressed
<1>2. CASE server[s] = "up" /\ file[address[s]] = s
  <2> DEFINE u == address[s]
  <2>1. CASE file'[u] = file[u]
    BY <1>1, <1>2, <2>1
  <2>2. CASE WriteState(c) /\ file'[u] # file[u]
    <3>1. file' = [file EXCEPT ![cmd[c].url] = cmd[c].server]
          /\ loose' = loose \cup ({file[cmd[c].url]} \ {cmd[c].server, None})
      BY <2>2 DEF WriteState
    <3>2. cmd[c].url = u
      BY <1>1, <1>2, <2>2, <3>1 DEF TypeOK
    <3>3. cmd[c].server = s
      BY <1>2, <3>1, <3>2, NoneIsNone
    <3> QED
      BY <1>1, <1>2, <3>1, <3>2, <3>3 DEF TypeOK
  <2>3. CASE StopRemove(c) /\ file'[u] # file[u]
    <3>1. file' = [file EXCEPT ![cmd[c].url] = None]
          /\ loose' = loose \cup ({file[cmd[c].url]} \ {cmd[c].server, None})
          /\ pc[c] = "stopRemove"
      BY <2>3 DEF StopRemove, At
    <3>2. cmd[c].url = u
      BY <1>1, <1>2, <2>3, <3>1 DEF TypeOK
    <3>3. cmd[c].server = s
      BY <1>2, <3>1, <3>2, NoneIsNone
    <3> QED
      BY <1>2, <3>1, <3>3 DEF ServerInv, Known
  <2> QED
    BY <2>1, <2>2, <2>3, ServersTouched
<1>3. ASSUME NEW q \in Commands \ {c}, Starts(q, s) PROVE Starts(q, s)'
  BY <1>0, <1>3 DEF OwnStep, Starts
<1>4. CASE Starts(c, s)
  <2>1. WriteState(c) /\ file'[address[s]] = s
    BY <1>4, StartsStep
  <2>2. server[s] # "starting"
    BY <1>4, <2>1 DEF WriteState, At, Starts, ServerInv, Known, Born
  <2> QED
    BY <1>1, <2>1, <2>2
<1>5. Recorded(s)
  BY DEF ServerInv
<1> QED
  BY <1>0, <1>1, <1>2, <1>3, <1>4, <1>5 DEF Recorded

\* A process that begins to listen or ends.
LEMMA ProcessesStep ==
  ASSUME CommandInv, ServerInv, OfProcess
  PROVE  ServerInv'
<1> USE DEF CommandInv
<1>0. UNCHANGED <<file, log, control, pc, cmd, loose, standalone, explicit>>
  BY ProcessSteps
<1>1. ASSUME NEW s \in Servers, server' = [server EXCEPT ![s] = "dead"], UNCHANGED address,
             \A u \in Urls : listener'[u] = listener[u] \/ listener'[u] = None,
             \A u \in Urls : listener'[u] # s
      PROVE  ServerInv'
  <2>1. \A q \in Servers : Born(q) => Born(q)'
    BY <1>1 DEF Born, TypeOK
  <2>2. Listening'
    BY <1>1, NoneIsNone DEF Listening, ServerInv, TypeOK
  <2>3. Filed'
    BY <1>0, <1>1 DEF Filed, ServerInv, Born, TypeOK
  <2>4. \A c \in Commands : Known(c)'
    BY <1>0, <1>1, CmdType DEF Known, ServerInv, Born, TypeOK, Local
  <2>5. ASSUME NEW q \in Servers PROVE Recorded(q)'
    <3>1. Recorded(q)
      BY DEF ServerInv
    <3> QED
      BY <1>0, <1>1, <3>1 DEF Recorded, Starts, TypeOK
  <2> QED
    BY <2>2, <2>3, <2>4, <2>5 DEF ServerInv
<1>2. ASSUME NEW s \in Servers, NEW u \in Urls, server[s] = "starting", listener[u] = None,
             server' = [server EXCEPT ![s] = "up"], listener' = [listener EXCEPT ![u] = s],
             address' = [address EXCEPT ![s] = u]
      PROVE  ServerInv'
  <2>1. Listening'
    BY <1>2 DEF Listening, ServerInv, TypeOK
  <2>2. Filed'
    BY <1>0, <1>2 DEF Filed, ServerInv, Born, TypeOK
  <2>3. \A c \in Commands : Known(c)'
    BY <1>0, <1>2, CmdType DEF Known, ServerInv, Born, TypeOK, Local
  <2>4. ASSUME NEW q \in Servers PROVE Recorded(q)'
    <3>1. Recorded(q)
      BY DEF ServerInv
    <3> QED
      BY <1>0, <1>2, <3>1 DEF Recorded, Starts, TypeOK
  <2> QED
    BY <2>1, <2>2, <2>3, <2>4 DEF ServerInv
<1>3. ASSUME NEW s \in Servers, Listen(s) PROVE ServerInv'
  <2>1. server[s] = "starting"
    BY <1>3 DEF Listen
  <2>2. \A u \in Urls : listener[u] # s
    BY <2>1 DEF ServerInv, Listening
  <2>3. \/ server' = [server EXCEPT ![s] = "dead"] /\ UNCHANGED <<listener, address>>
        \/ \E u \in Urls : /\ listener[u] = None /\ listener' = [listener EXCEPT ![u] = s]
                           /\ address' = [address EXCEPT ![s] = u]
                           /\ server' = [server EXCEPT ![s] = "up"]
    BY <1>3 DEF Listen, TypeOK
  <2> QED
    BY <1>1, <1>2, <2>1, <2>2, <2>3
<1>4. ASSUME NEW s \in Servers, End(s), server[s] \in {"up", "signalled"} PROVE ServerInv'
  <2>1. /\ server' = [server EXCEPT ![s] = "dead"] /\ UNCHANGED address
        /\ listener' = [listener EXCEPT ![address[s]] = None] /\ address[s] \in Urls
    BY <1>4 DEF End, Addressed
  <2>2. \A u \in Urls : listener'[u] = listener[u] \/ listener'[u] = None
    BY <2>1 DEF TypeOK
  <2>3. \A u \in Urls : listener'[u] # s
    BY <2>1, NoneIsNone DEF TypeOK, ServerInv, Listening
  <2> QED
    BY <1>1, <2>1, <2>2, <2>3
<1> QED
  BY <1>3, <1>4 DEF OfProcess, Close, CrashServer

\* A process that is up holds its address, and a state file names a process of its address.
HoldsAddress ==
  /\ \A s \in Servers : server[s] \in {"up", "signalled"} => listener[address[s]] = s
  /\ \A u \in Urls : file[u] \in Servers => address[file[u]] = u

\* No step of a command takes an address from its process.
LEMMA HoldsStep ==
  ASSUME CommandInv, ServerInv, HoldsAddress, NEW c \in Commands, OfCommand(c)
  PROVE  HoldsAddress'
<1> USE DEF CommandInv
<1>1. ASSUME NEW s \in Servers, server'[s] \in {"up", "signalled"}
      PROVE  listener'[address'[s]] = s
  <2>1. server[s] \in {"up", "signalled"}
    <3>1. CASE UNCHANGED server
      BY <1>1, <3>1
    <3>2. CASE pc[c] \in {"ensure", "dedicated"} /\ Spawn(c)
      BY <1>1, <3>2 DEF Spawn, TypeOK
    <3>3. CASE \E t : Signal(t)
      BY <1>1, <3>3 DEF Signal, Signalled, TypeOK
    <3> QED
      BY <3>1, <3>2, <3>3, ServersTouched
  <2>2. address'[s] = address[s] /\ listener' = listener
    BY <2>1, ServersStay DEF Born
  <2> QED
    BY <2>1, <2>2 DEF HoldsAddress
<1>2. ASSUME NEW u \in Urls, file'[u] \in Servers
      PROVE  address'[file'[u]] = u
  <2>1. Born(file'[u]) /\ address[file'[u]] = u
    <3>1. CASE file'[u] = file[u]
      BY <1>2, <3>1 DEF ServerInv, Filed, HoldsAddress
    <3>2. CASE WriteState(c) /\ file'[u] # file[u]
      <4>1. pc[c] = "write" /\ file' = [file EXCEPT ![cmd[c].url] = cmd[c].server]
        BY <3>2 DEF WriteState, At
      <4>2. u = cmd[c].url /\ file'[u] = cmd[c].server
        BY <3>2, <4>1 DEF TypeOK
      <4> QED
        BY <4>1, <4>2 DEF ServerInv, Known
    <3>3. CASE StopRemove(c) /\ file'[u] # file[u]
      <4>1. file' = [file EXCEPT ![cmd[c].url] = None]
        BY <3>3 DEF StopRemove
      <4> QED
        BY <1>2, <3>3, <4>1, NoneIsNone DEF TypeOK
    <3> QED
      BY <3>1, <3>2, <3>3, ServersTouched
  <2> QED
    BY <1>2, <2>1, ServersStay
<1> QED
  BY <1>1, <1>2 DEF HoldsAddress

LEMMA HoldsByProcesses ==
  ASSUME CommandInv, ServerInv, HoldsAddress, OfProcess
  PROVE  HoldsAddress'
<1> USE DEF CommandInv
<1>0. UNCHANGED file
  BY ProcessSteps
<1>1. ASSUME NEW s \in Servers, server[s] \in {"up", "signalled"}, End(s) PROVE HoldsAddress'
  <2> DEFINE w == address[s]
  <2>0. /\ w \in Urls /\ server' = [server EXCEPT ![s] = "dead"]
        /\ listener' = [listener EXCEPT ![w] = None] /\ UNCHANGED address
    BY <1>1 DEF End, Addressed
  <2>1. ASSUME NEW q \in Servers, server'[q] \in {"up", "signalled"}
        PROVE  listener'[address'[q]] = q
    <3>1. q # s /\ server[q] \in {"up", "signalled"} /\ address[q] \in Urls
      BY <2>0, <2>1 DEF TypeOK, Addressed
    <3>2. listener[address[q]] = q /\ listener[w] = s
      BY <1>1, <3>1 DEF HoldsAddress
    <3> QED
      BY <2>0, <3>1, <3>2 DEF TypeOK
  <2> QED
    BY <1>0, <2>0, <2>1 DEF HoldsAddress
<1>2. ASSUME NEW s \in Servers, Listen(s) PROVE HoldsAddress'
  <2>0. server[s] = "starting"
    BY <1>2 DEF Listen
  <2>1. CASE server' = [server EXCEPT ![s] = "dead"] /\ UNCHANGED <<listener, address>>
    BY <1>0, <2>0, <2>1 DEF HoldsAddress, TypeOK
  <2>2. ASSUME NEW w \in Urls, listener[w] = None, listener' = [listener EXCEPT ![w] = s],
               address' = [address EXCEPT ![s] = w], server' = [server EXCEPT ![s] = "up"]
        PROVE  HoldsAddress'
    <3>1. ASSUME NEW q \in Servers, server'[q] \in {"up", "signalled"}
          PROVE  listener'[address'[q]] = q
      <4>1. CASE q = s
        BY <2>2, <4>1 DEF TypeOK
      <4>2. CASE q # s
        <5>1. /\ server[q] \in {"up", "signalled"} /\ address'[q] = address[q]
              /\ address[q] \in Urls /\ listener[address[q]] = q
          BY <2>2, <3>1, <4>2 DEF TypeOK, Addressed, HoldsAddress
        <5> QED
          BY <2>2, <5>1, NoneIsNone DEF TypeOK
      <4> QED
        BY <4>1, <4>2
    <3>2. ASSUME NEW u \in Urls, file'[u] \in Servers PROVE address'[file'[u]] = u
      <4>1. file[u] \in Servers /\ file[u] # s /\ address[file[u]] = u
        BY <1>0, <2>0, <3>2 DEF ServerInv, Filed, Born, HoldsAddress
      <4> QED
        BY <1>0, <2>2, <4>1 DEF TypeOK
    <3> QED
      BY <3>1, <3>2 DEF HoldsAddress
  <2>3. \/ server' = [server EXCEPT ![s] = "dead"] /\ UNCHANGED <<listener, address>>
        \/ \E w \in Urls : /\ listener[w] = None /\ listener' = [listener EXCEPT ![w] = s]
                           /\ address' = [address EXCEPT ![s] = w]
                           /\ server' = [server EXCEPT ![s] = "up"]
    BY <1>2 DEF Listen, TypeOK
  <2> QED
    BY <2>1, <2>2, <2>3
<1> QED
  BY <1>1, <1>2 DEF OfProcess, Close, CrashServer

\* A command that has prepared a Bridge, or is about to stop it, answers for its address.
Uses(c, u) ==
  \/ pc[c] \in {"control", "page", "log", "undo"} /\ cmd[c].bridge = u
  \/ pc[c] = "stopSignal" /\ cmd[c].kind # "kill" /\ cmd[c].url = u

Kept(s) ==
  server[s] = "up" =>
    \/ s \in loose \cup standalone
    \/ \E d \in Directories : BridgeOf(log[d]) = address[s]
    \/ \E c \in Commands : Starts(c, s) \/ Uses(c, address[s])

\* A command that no longer knows what a directory remembers loses its Bridge.
LEMMA OvertakenBridge ==
  ASSUME CommandInv, NEW c \in Commands, NEW s \in Servers, server[s] = "up",
         cmd[c].dir \in Directories, log[cmd[c].dir] # cmd[c].previous,
         address[s] \in {BridgeOf(log[cmd[c].dir]), BridgeOf(cmd[c].previous), cmd[c].bridge}
  PROVE  s \in Overtaken(c)
<1> DEFINE context == [bridge |-> cmd[c].bridge, control |-> cmd[c].control]
<1>1. s \in Alive /\ address[s] # None
  BY NoneIsNone DEF Alive, CommandInv, Addressed
<1>2. BridgeOf(context) = cmd[c].bridge
  <2>1. context # None
    BY CmdType, NoneIsNone DEF CommandInv, Context
  <2> QED
    BY <2>1 DEF BridgeOf
<1> HIDE DEF context
<1>3. s \in Behind(log[cmd[c].dir]) \cup Behind(cmd[c].previous) \cup Behind(context)
  BY <1>1, <1>2 DEF Behind
<1> QED
  BY <1>3, NoneIsNone DEF Overtaken, context

\* A Bridge that is stopped unless it is to be kept is answered for until then.
LEMMA StopOtherUses ==
  ASSUME CommandInv, NEW c \in Commands, NEW u \in Urls, NEW keep, u # keep,
         cmd[c].kind # "kill", StopOther(c, u, keep)
  PROVE  Uses(c, u)'
<1> DEFINE m == [NoCommand EXCEPT !.kind = cmd[c].kind, !.dir = cmd[c].dir, !.url = u]
<1>1. Move(c, "stopSignal", m)
  BY NoneIsNone DEF StopOther
<1>2. m.kind = cmd[c].kind /\ m.url = u
  BY DEF NoCommand
<1> HIDE DEF m
<1>3. pc'[c] = "stopSignal" /\ cmd'[c] = m
  BY <1>1 DEF Move, CommandInv, TypeOK
<1> QED
  BY <1>2, <1>3 DEF Uses

\* A Bridge that is named to be stopped as well.
LEMMA StopNamedUses ==
  ASSUME CommandInv, NEW c \in Commands, NEW u \in Urls, cmd[c].kind # "kill", StopNamed(c, u)
  PROVE  Uses(c, u)'
<1> DEFINE m == [NoCommand EXCEPT !.kind = cmd[c].kind, !.dir = cmd[c].dir, !.url = u,
                                  !.named = TRUE]
<1>1. Move(c, "stopSignal", m)
  BY DEF StopNamed
<1>2. m.kind = cmd[c].kind /\ m.url = u
  BY DEF NoCommand
<1> HIDE DEF m
<1>3. pc'[c] = "stopSignal" /\ cmd'[c] = m
  BY <1>1 DEF Move, CommandInv, TypeOK
<1> QED
  BY <1>2, <1>3 DEF Uses

\* A directory forgets a Bridge only to have it stopped, or to leave it to itself.
LEMMA ForgetsBridge ==
  ASSUME CommandInv, HoldsAddress, NEW c \in Commands, OfCommand(c), NEW s \in Servers, server[s] = "up",
         NEW u \in Urls, address[s] = u, NEW d \in Directories, BridgeOf(log[d]) = u
  PROVE  s \in loose' \cup standalone' \/ BridgeOf(log'[d]) = u \/ Uses(c, u)'
<1> USE DEF CommandInv
<1>0. u # None
  BY NoneIsNone
<1>1. CASE log'[d] = log[d]
  BY <1>1
<1>2. CASE WriteLog(c) /\ log'[d] # log[d]
  <2> DEFINE context == [bridge |-> cmd[c].bridge, control |-> cmd[c].control]
  <2>1. /\ log' = [log EXCEPT ![cmd[c].dir] = context] /\ loose' = loose \cup Overtaken(c)
        /\ StopOther(c, BridgeOf(cmd[c].previous), cmd[c].bridge)
        /\ cmd[c].kind = "open"
    BY <1>2 DEF WriteLog, At, Local
  <2>2. cmd[c].dir = d
    BY <1>2, <2>1 DEF TypeOK
  <2>3. CASE log[d] # cmd[c].previous
    BY <1>0, <2>1, <2>2, <2>3, OvertakenBridge
  <2>4. CASE log[d] = cmd[c].previous /\ u # cmd[c].bridge
    <3>1. StopOther(c, u, cmd[c].bridge)
      BY <2>1, <2>4
    <3> QED
      BY <2>1, <2>4, <3>1, StopOtherUses
  <2>5. CASE u = cmd[c].bridge
    <3>1. context # None /\ context.bridge = u
      BY <2>5, CmdType, NoneIsNone DEF Context
    <3> HIDE DEF context
    <3> QED
      BY <2>1, <2>2, <3>1 DEF TypeOK, BridgeOf
  <2> QED
    BY <2>3, <2>4, <2>5
<1>3. CASE RemoveLog(c) /\ log'[d] # log[d]
  <2> DEFINE old == BridgeOf(cmd[c].previous)
  <2>1. /\ log' = [log EXCEPT ![cmd[c].dir] = None] /\ loose' = loose \cup Overtaken(c)
        /\ \/ StopOther(c, old, None)
           \/ \E w \in Urls :
                /\ StopNamed(c, w)
                /\ standalone' = standalone \cup
                     {q \in Servers : w # old /\ old # None /\ listener[old] = q}
    BY <1>3, RemoveStep
  <2>2. cmd[c].dir = d /\ cmd[c].kind = "stop"
    BY <1>3, <2>1 DEF RemoveLog, At, Local, TypeOK
  <2>3. CASE log[d] # cmd[c].previous
    BY <1>0, <2>1, <2>2, <2>3, OvertakenBridge
  <2>4. CASE log[d] = cmd[c].previous
    <3>1. old = u
      BY <2>4
    <3>2. CASE StopOther(c, old, None)
      BY <1>0, <2>2, <3>1, <3>2, StopOtherUses
    <3>3. ASSUME NEW w \in Urls, StopNamed(c, w), w # u,
                 standalone' = standalone \cup
                     {q \in Servers : w # old /\ old # None /\ listener[old] = q}
          PROVE  s \in standalone'
      <4>1. listener[u] = s
        BY DEF HoldsAddress
      <4> QED
        BY <1>0, <3>1, <3>3, <4>1
    <3> QED
      BY <2>1, <2>2, <3>2, <3>3, StopNamedUses
  <2> QED
    BY <2>3, <2>4
<1>4. CASE WriteStack(c) /\ log'[d] # log[d]
  <2> DEFINE context == [bridge |-> cmd[c].previous.bridge, control |-> None]
  <2>1. /\ log' = [log EXCEPT ![cmd[c].dir] = context]
        /\ loose' = loose \cup Overtaken(c) \cup ({cmd[c].previous.control} \ {None})
        /\ cmd[c].previous \in Context
    BY <1>4 DEF WriteStack, At, Local
  <2>2. cmd[c].dir = d
    BY <1>4, <2>1 DEF TypeOK
  <2>3. CASE log[d] # cmd[c].previous
    BY <1>0, <2>1, <2>2, <2>3, OvertakenBridge
  <2>4. CASE log[d] = cmd[c].previous
    <3>1. context \in Context /\ context # None /\ context.bridge = u
      BY <1>0, <2>1, <2>4, NoneIsNone DEF BridgeOf, Context
    <3> HIDE DEF context
    <3> QED
      BY <2>1, <2>2, <3>1 DEF TypeOK, BridgeOf
  <2> QED
    BY <2>3, <2>4
<1> QED
  BY <1>1, <1>2, <1>3, <1>4, Touched

\* A command that answers for a Bridge records it, stops it, or loses it.
LEMMA UsesStep ==
  ASSUME CommandInv, ServerInv, NEW c \in Commands, OfCommand(c), NEW s \in Servers,
         server'[s] = "up", NEW u \in Urls, address[s] = u, Uses(c, u)
  PROVE  \/ s \in loose'
         \/ \E d \in Directories : BridgeOf(log'[d]) = u
         \/ \E q \in Commands : Starts(q, s)' \/ Uses(q, u)'
<1> USE DEF CommandInv
<1>0. server[s] = "up" /\ u # None /\ OwnStep(c)
  BY ServersStay, NoneIsNone, CommandSteps
<1>1. ASSUME pc'[c] \in {"control", "page", "log", "undo"}, cmd'[c].bridge = u PROVE Uses(c, u)'
  BY <1>1 DEF Uses
<1>2. CASE pc[c] \in {"control", "page", "log", "undo"} /\ cmd[c].bridge = u
  <2>0. cmd[c].kind = "open" /\ cmd[c].dir \in Directories
    BY <1>2 DEF Local
  <2>1. PrepareControl(c) \/ OpenPage(c) \/ WriteLog(c) \/ Undo(c) \/ CrashCommand(c)
    BY <1>2 DEF OfCommand, Step, Open, Use, Stack, Stop, Start, Kill, Begin, At, Ensure,
                StartDedicated, AwaitServer, Probe, WriteState, WriteStack, CloseControl,
                StopControl, RemoveLog, StopSignal, StopRemove
  <2>2. ASSUME Throw(c) PROVE Uses(c, u)'
    <3>1. pc'[c] = "undo" /\ cmd'[c] = cmd[c]
      BY <2>0, <2>2, ThrowType
    <3> QED
      BY <1>1, <1>2, <3>1
  <2>3. CASE PrepareControl(c)
    BY <1>1, <1>2, <2>3, ControlStep
  <2>4. CASE OpenPage(c)
    <3>1. Goto(c, "log") \/ Throw(c)
      BY <2>4 DEF OpenPage
    <3>2. Goto(c, "log") => pc'[c] = "log" /\ cmd'[c] = cmd[c]
      BY GotoType DEF Positions
    <3> QED
      BY <1>1, <1>2, <2>2, <3>1, <3>2
  <2>5. CASE WriteLog(c)
    <3> DEFINE context == [bridge |-> cmd[c].bridge, control |-> cmd[c].control]
    <3>1. log' = [log EXCEPT ![cmd[c].dir] = context] \/ Throw(c)
      BY <2>5 DEF WriteLog
    <3>2. context # None /\ context.bridge = u
      BY <1>2, CmdType, NoneIsNone DEF Context
    <3> HIDE DEF context
    <3>3. log' = [log EXCEPT ![cmd[c].dir] = context] => BridgeOf(log'[cmd[c].dir]) = u
      BY <2>0, <3>2 DEF TypeOK, BridgeOf
    <3> QED
      BY <2>0, <2>2, <3>1, <3>3
  <2>6. CASE Undo(c)
    <3>1. /\ loose' = loose \cup Overtaken(c) /\ UNCHANGED log
          /\ StopOther(c, u, BridgeOf(cmd[c].previous))
      BY <1>2, <2>6 DEF Undo
    <3>2. CASE u # BridgeOf(cmd[c].previous)
      <4>1. Uses(c, u)'
        BY <2>0, <3>1, <3>2, StopOtherUses
      <4> QED
        BY <4>1
    <3>3. CASE u = BridgeOf(cmd[c].previous) /\ log[cmd[c].dir] = cmd[c].previous
      BY <2>0, <3>1, <3>3
    <3>4. CASE log[cmd[c].dir] # cmd[c].previous
      BY <1>0, <1>2, <2>0, <3>1, <3>4, OvertakenBridge
    <3> QED
      BY <3>2, <3>3, <3>4
  <2>7. CASE CrashCommand(c)
    <3> DEFINE context == [bridge |-> cmd[c].bridge, control |-> cmd[c].control]
    <3>1. context # None /\ context.bridge = u
      BY <1>2, CmdType, NoneIsNone DEF Context
    <3> HIDE DEF context
    <3>2. s \in Behind(context)
      BY <1>0, <3>1 DEF Behind, BridgeOf, Alive
    <3>3. Behind(context) \subseteq loose'
      BY <2>7 DEF CrashCommand, context
    <3> QED
      BY <3>2, <3>3
  <2> QED
    BY <1>0, <2>1, <2>3, <2>4, <2>5, <2>6, <2>7
<1>3. CASE pc[c] = "stopSignal" /\ cmd[c].kind # "kill" /\ cmd[c].url = u
  <2>1. StopSignal(c) \/ CrashCommand(c)
    BY <1>3 DEF OfCommand, Step, Open, Use, Stack, Stop, Start, Kill, Begin, At, Ensure,
                StartDedicated, AwaitServer, Probe, WriteState, PrepareControl, OpenPage,
                WriteLog, Undo, WriteStack, CloseControl, StopControl, RemoveLog, StopRemove
  <2>2. CASE StopSignal(c)
    <3>1. file[u] = s => Signal(s)
      BY <1>3, <2>2, NoneIsNone DEF StopSignal
    <3>2. ~Signal(s)
      BY <1>0 DEF Signal, Signalled, TypeOK
    <3>3. s \in loose \/ \E q \in Commands : Starts(q, s)
      BY <1>0, <3>1, <3>2 DEF ServerInv, Recorded
    <3>4. ASSUME NEW q \in Commands, Starts(q, s) PROVE Starts(q, s)'
      <4>1. q # c
        BY <1>3, <3>4 DEF Starts
      <4> QED
        BY <1>0, <3>4, <4>1 DEF OwnStep, Starts
    <3> QED
      BY <3>3, <3>4, Touched
  <2>3. CASE CrashCommand(c)
    <3>1. s \in {q \in Alive : address[q] # None /\ address[q] = cmd[c].url}
      BY <1>0, <1>3 DEF Alive
    <3> QED
      BY <2>3, <3>1 DEF CrashCommand
  <2> QED
    BY <2>1, <2>2, <2>3
<1> QED
  BY <1>2, <1>3 DEF Uses

LEMMA KeptStep ==
  ASSUME CommandInv, ServerInv, HoldsAddress, NEW c \in Commands, OfCommand(c), NEW s \in Servers, Kept(s)
  PROVE  Kept(s)'
<1> USE DEF CommandInv
<1> SUFFICES ASSUME server'[s] = "up" PROVE Kept(s)'
  BY DEF Kept
<1>1. server[s] = "up" /\ address'[s] = address[s] /\ address[s] \in Urls /\ OwnStep(c)
  BY ServersStay, CommandSteps DEF Born, Addressed
<1>2. PICK v \in Urls : address[s] = v /\ address'[s] = v
  BY <1>1
<1>3. CASE s \in loose \cup standalone
  BY <1>3, Touched DEF Kept
<1>4. ASSUME s \in loose' \cup standalone' PROVE Kept(s)'
  BY <1>4 DEF Kept
<1>5. ASSUME NEW d \in Directories, BridgeOf(log'[d]) = v PROVE Kept(s)'
  BY <1>2, <1>5 DEF Kept, BridgeOf
<1>6. ASSUME NEW q \in Commands, Starts(q, s)' \/ Uses(q, v)' PROVE Kept(s)'
  BY <1>2, <1>6 DEF Kept, Starts, Uses
<1>7. ASSUME NEW d \in Directories, BridgeOf(log[d]) = v PROVE Kept(s)'
  <2>1. s \in loose' \cup standalone' \/ BridgeOf(log'[d]) = v \/ Uses(c, v)'
    BY <1>1, <1>2, <1>7, ForgetsBridge
  <2> QED
    BY <1>4, <1>5, <1>6, <2>1
<1>8. ASSUME NEW q \in Commands \ {c}, Starts(q, s) \/ Uses(q, v) PROVE Kept(s)'
  <2>1. pc'[q] = pc[q] /\ cmd'[q] = cmd[q]
    BY <1>1 DEF OwnStep
  <2>2. Starts(q, s)' \/ Uses(q, v)'
    BY <1>8, <2>1 DEF Starts, Uses
  <2> QED
    BY <1>6, <2>2
<1>9. CASE Uses(c, v)
  BY <1>2, <1>4, <1>5, <1>6, <1>9, UsesStep
<1>10. CASE Starts(c, s)
  <2>1. CASE WriteState(c) /\ Prepared(c)
    <3>1. cmd[c].server = s /\ cmd[c].url = v
      BY <1>2, <1>10, <2>1 DEF WriteState, At, Starts, ServerInv, Known
    <3>2. CASE cmd[c].kind = "start"
      <4>1. s \in standalone'
        BY <3>1, <3>2, <2>1, NoneIsNone DEF Prepared
      <4> QED
        BY <4>1 DEF Kept
    <3>3. CASE cmd[c].kind # "start"
      <4> DEFINE m == [cmd[c] EXCEPT !.bridge = cmd[c].url, !.url = None, !.server = None,
                                     !.dedicated = FALSE]
      <4>1. Move(c, "control", m)
        BY <2>1, <3>3 DEF Prepared
      <4>2. m.bridge = v
        BY <3>1, CmdType DEF Command
      <4> HIDE DEF m
      <4>3. pc'[c] = "control" /\ cmd'[c].bridge = v
        BY <4>1, <4>2 DEF Move, TypeOK
      <4> QED
        BY <1>6, <4>3 DEF Uses
    <3> QED
      BY <3>2, <3>3
  <2> QED
    BY <1>4, <1>6, <1>10, <2>1, StartsStep
<1> QED
  BY <1>1, <1>2, <1>3, <1>7, <1>8, <1>9, <1>10 DEF Kept

LEMMA KeptByProcesses ==
  ASSUME CommandInv, ServerInv, OfProcess, NEW s \in Servers, Kept(s)
  PROVE  Kept(s)'
<1> USE DEF CommandInv
<1>0. UNCHANGED <<file, log, control, pc, cmd, loose, standalone, explicit>>
  BY ProcessSteps
<1>1. CASE server[s] = "starting"
  <2>1. s \in loose \/ \E c \in Commands : Starts(c, s)
    BY <1>1 DEF ServerInv, Recorded
  <2>2. \A c \in Commands : Starts(c, s) => Starts(c, s)'
    BY <1>0 DEF Starts
  <2> QED
    BY <1>0, <2>1, <2>2 DEF Kept
<1>2. CASE server[s] # "starting"
  <2>1. server'[s] = "up" => server[s] = "up" /\ address'[s] = address[s]
    BY <1>2 DEF OfProcess, Listen, Close, CrashServer, End, TypeOK
  <2> QED
    BY <1>0, <2>1 DEF Kept, Starts, Uses, BridgeOf
<1> QED
  BY <1>1, <1>2

BridgeInv == ServerInv /\ HoldsAddress /\ \A s \in Servers : Kept(s)

LEMMA BridgeInvariant == Spec => []BridgeInv
<1>1. Init => BridgeInv
  <2> SUFFICES ASSUME Init PROVE BridgeInv
    OBVIOUS
  <2>1. Listening /\ Filed /\ HoldsAddress
    BY NoneIsNone DEF Init, Listening, Filed, HoldsAddress
  <2>2. (\A c \in Commands : Known(c)) /\ \A s \in Servers : Recorded(s) /\ Kept(s)
    BY DEF Init, Known, Recorded, Kept
  <2> QED
    BY <2>1, <2>2 DEF BridgeInv, ServerInv
<1>2. ASSUME CommandInv, BridgeInv, [Next]_vars PROVE BridgeInv'
  <2>1. ASSUME NEW c \in Commands, OfCommand(c) PROVE BridgeInv'
    <3>1. ServerInv'
      BY <1>2, <2>1, KnownStep, FilesStep, RecordedStep DEF BridgeInv, ServerInv
    <3>2. \A s \in Servers : Kept(s)'
      BY <1>2, <2>1, KeptStep DEF BridgeInv
    <3>3. HoldsAddress'
      BY <1>2, <2>1, HoldsStep DEF BridgeInv
    <3> QED
      BY <3>1, <3>2, <3>3 DEF BridgeInv
  <2>2. CASE OfProcess
    <3>1. ServerInv'
      BY <1>2, <2>2, ProcessesStep DEF BridgeInv
    <3>2. \A s \in Servers : Kept(s)'
      BY <1>2, <2>2, KeptByProcesses DEF BridgeInv
    <3>3. HoldsAddress'
      BY <1>2, <2>2, HoldsByProcesses DEF BridgeInv
    <3> QED
      BY <3>1, <3>2, <3>3 DEF BridgeInv
  <2>3. CASE UNCHANGED vars
    <3>1. UNCHANGED <<listener, server, address, file, log, pc, cmd, loose, standalone>>
      BY <2>3 DEF vars, processes, history
    <3>2. Listening' /\ Filed' /\ HoldsAddress'
      BY <1>2, <3>1 DEF BridgeInv, ServerInv, Listening, Filed, Born, HoldsAddress
    <3>3. \A c \in Commands : Known(c)'
      BY <1>2, <3>1 DEF BridgeInv, ServerInv, Known, Born
    <3>4. \A s \in Servers : Recorded(s)' /\ Kept(s)'
      BY <1>2, <3>1 DEF BridgeInv, ServerInv, Recorded, Kept, Starts, Uses, BridgeOf
    <3> QED
      BY <3>2, <3>3, <3>4 DEF BridgeInv, ServerInv
  <2> QED
    BY <1>2, <2>1, <2>2, <2>3, Steps
<1> QED
  BY <1>1, <1>2, CommandInvariant, PTL DEF Spec

LEMMA QuietServers ==
  ASSUME CommandInv, BridgeInv, Quiet, NEW u \in Urls, Serving(u)
  PROVE  /\ listener[u] \in Servers /\ server[listener[u]] = "up" /\ address[listener[u]] = u
         /\ \A c \in Commands : pc[c] \in {"idle", "done"}
<1>1. \A c \in Commands : pc[c] \in {"idle", "done"}
  BY DEF Quiet, Running
<1>2. listener[u] \in Servers
  BY DEF Serving
<1> QED
  BY <1>1, <1>2 DEF Quiet, BridgeInv, ServerInv, Listening

\* When no command runs, the state file of an address names the process that serves it, or a
\* fault or an overlapping command has lost its record (startDetachedBridge, writeBridgeState,
\* stopManagedBridge).
THEOREM BridgesAreTracked == Spec => []Tracked
<1>1. CommandInv /\ BridgeInv => Tracked
  <2> SUFFICES ASSUME CommandInv, BridgeInv, Quiet, NEW u \in Urls, Serving(u)
               PROVE  file[u] = listener[u] \/ listener[u] \in loose
    BY DEF Tracked
  <2>1. /\ listener[u] \in Servers /\ server[listener[u]] = "up" /\ address[listener[u]] = u
        /\ \A c \in Commands : pc[c] \in {"idle", "done"}
    BY QuietServers
  <2>2. Recorded(listener[u])
    BY <2>1 DEF BridgeInv, ServerInv
  <2> QED
    BY <2>1, <2>2 DEF Recorded, Starts
<1> QED
  BY <1>1, CommandInvariant, BridgeInvariant, PTL

\* When no command runs, a Bridge that runs is the Bridge of a page, or it was started by start
\* or for a command that works with runtimes, or a stop that named another address left it to
\* itself, or its record was lost (the catch block of open, stopOpenContextBridge,
\* bridgeUrlFromOptions).
THEOREM NoBridgeIsLeft == Spec => []NoBridgeLeft
<1>1. CommandInv /\ BridgeInv => NoBridgeLeft
  <2> SUFFICES ASSUME CommandInv, BridgeInv, Quiet, NEW u \in Urls, Serving(u)
               PROVE  \/ \E d \in Directories : BridgeOf(log[d]) = u
                      \/ listener[u] \in loose \cup standalone
    BY DEF NoBridgeLeft
  <2>1. /\ listener[u] \in Servers /\ server[listener[u]] = "up" /\ address[listener[u]] = u
        /\ \A c \in Commands : pc[c] \in {"idle", "done"}
    BY QuietServers
  <2>2. Kept(listener[u])
    BY <2>1 DEF BridgeInv
  <2> QED
    BY <2>1, <2>2 DEF Kept, Starts, Uses
<1> QED
  BY <1>1, CommandInvariant, BridgeInvariant, PTL

-----------------------------------------------------------------------------
(* Bridges of different directories *)

\* A directory claims the address its log names, and those its commands work with, unless the
\* user named it to be stopped; the address a command has only asked for is claimed once its own
\* process serves there.
Works(c, u) ==
  \/ BridgeOf(cmd[c].previous) = u
  \/ cmd[c].bridge = u
  \/ pc[c] \in {"ensure", "probing", "write"} /\ cmd[c].url = u
  \/ pc[c] = "stopSignal" /\ cmd[c].named = FALSE /\ cmd[c].url = u
  \/ /\ pc[c] = "starting"
     /\ server[cmd[c].server] \in {"up", "signalled"} /\ address[cmd[c].server] = u

Claims(d, u) ==
  \/ BridgeOf(log[d]) = u
  \/ \E c \in Commands : cmd[c].dir = d /\ Works(c, u)

Excepted == explicit \cup lapsed

ClaimsApart ==
  \A u \in Urls \ Excepted, d \in Directories : Claims(d, u) =>
    /\ listener[u] \in Servers
    /\ \A e \in Directories : Claims(e, u) => d = e

\* A process on its way up belongs to one command.
StartsOnce ==
  \A c \in Commands : pc[c] = "starting" =>
    /\ server[cmd[c].server] # "unborn"
    /\ \A q \in Commands : pc[q] = "starting" /\ cmd[q].server = cmd[c].server => q = c

\* A command that goes on within its directory claims nothing new.
LEMMA GoesOn ==
  ASSUME NEW c \in Commands, NEW u \in Urls, NEW d \in Directories,
         cmd'[c].dir = d => cmd[c].dir = d,
         cmd'[c].previous \in {cmd[c].previous, None},
         cmd'[c].bridge \in {cmd[c].bridge, None} \/ Works(c, cmd'[c].bridge),
         pc'[c] \in {"ensure", "probing", "write"} =>
           Works(c, cmd'[c].url) \/ cmd'[c].url \in Excepted',
         pc'[c] = "stopSignal" =>
           Works(c, cmd'[c].url) \/ cmd'[c].url \in Excepted' \/ cmd'[c].named = TRUE,
         pc'[c] # "starting" \/ server'[cmd'[c].server] = "starting",
         cmd'[c].dir = d, Works(c, u)'
  PROVE  Claims(d, u) \/ u \in Excepted'
<1>1. None # u
  BY NoneIsNone
<1>2. BridgeOf(cmd'[c].previous) = u => Works(c, u)
  BY <1>1 DEF BridgeOf, Works
<1>3. cmd'[c].bridge = u => Works(c, u)
  BY <1>1 DEF Works
<1>4. Works(c, u) => Claims(d, u)
  BY DEF Claims
<1> QED
  BY <1>2, <1>3, <1>4 DEF Works, BridgeOf

\* What open claims is what its directory claims, or was named by the user.
LEMMA OpenClaims ==
  ASSUME CommandInv, NEW c \in Commands, NEW d \in Directories,
         Open(c, d) \/ Stack(c, d) \/ Stop(c, d),
         NEW u \in Urls, Works(c, u)'
  PROVE  cmd'[c].dir = d /\ (Claims(d, u) \/ u \in Excepted')
<1> USE DEF CommandInv
<1>1. CASE Stop(c, d)
  <2> DEFINE m == [NoCommand EXCEPT !.kind = "stop", !.dir = d, !.previous = log[d]]
  <2>1. m.dir = d /\ m.previous = log[d] /\ m.bridge = None
    BY DEF NoCommand
  <2> HIDE DEF m
  <2>2. pc'[c] = "closing" /\ cmd'[c] = m
    BY <1>1 DEF Stop, Begin, Move, TypeOK, m
  <2>3. Works(c, u)' => BridgeOf(log[d]) = u
    BY <2>1, <2>2, NoneIsNone DEF Works, BridgeOf
  <2> QED
    BY <2>1, <2>2, <2>3 DEF Claims
<1>3. CASE Stack(c, d)
  <2>1. /\ pc'[c] = "stack" /\ cmd'[c].dir = d /\ cmd'[c].previous = log[d]
        /\ cmd'[c].bridge = None
    BY <1>3, StackStep
  <2>2. Works(c, u)' => BridgeOf(log[d]) = u
    BY <2>1, NoneIsNone DEF Works, BridgeOf
  <2> QED
    BY <2>1, <2>2 DEF Claims
<1>2. CASE Open(c, d)
  <2> DEFINE m == [NoCommand EXCEPT !.dir = d, !.previous = log[d]]
             remembered == BridgeOf(log[d])
  <2>1. /\ m.dir = d /\ m.previous = log[d] /\ m.bridge = None /\ m.url = None /\ m \in Command
        /\ remembered # None => log[d].bridge = remembered
    BY DEF NoCommand, Command, Kinds, TypeOK, BridgeOf
  <2>2. ASSUME NEW w
        PROVE  /\ [m EXCEPT !.url = w].dir = d /\ [m EXCEPT !.url = w].previous = log[d]
               /\ [m EXCEPT !.url = w].bridge = None /\ [m EXCEPT !.url = w].url = w
               /\ [m EXCEPT !.url = w, !.dedicated = TRUE].dir = d
               /\ [m EXCEPT !.url = w, !.dedicated = TRUE].previous = log[d]
               /\ [m EXCEPT !.url = w, !.dedicated = TRUE].bridge = None
    <3> HIDE DEF m
    <3> QED
      BY <2>1 DEF Command
  <2> DEFINE Fits(n, position) == /\ n.dir = d /\ n.previous = log[d] /\ n.bridge = None
                                  /\ position \in {"control", "dedicated", "ensure"}
                                  /\ position = "ensure" => n.url \in {remembered} \cup explicit'
  <2>3. PICK n, position : Begin(c, n, position) /\ Fits(n, position)
    <3> DEFINE Reuse == Begin(c, [m EXCEPT !.url = log[d].bridge], "ensure")
               Own(w) == Begin(c, [m EXCEPT !.url = w, !.dedicated = TRUE], "dedicated")
    <3>1. \/ Begin(c, m, "control")
          \/ \E w \in Urls : Begin(c, [m EXCEPT !.url = w], "ensure") /\ explicit' = explicit \cup {w}
          \/ \E w \in Urls : IF remembered = w THEN Reuse ELSE Own(w)
          \/ IF remembered # None THEN Reuse ELSE Own(None)
      BY <1>2 DEF Open
    <3>2. \A w \in Urls : w # None
      BY NoneIsNone
    <3> HIDE DEF m, remembered
    <3>3. ASSUME Begin(c, m, "control") PROVE \E n, position : Begin(c, n, position) /\ Fits(n, position)
      BY <2>1, <3>3
    <3>4. ASSUME NEW w \in Urls, Begin(c, [m EXCEPT !.url = w], "ensure"), w \in explicit'
          PROVE  \E n, position : Begin(c, n, position) /\ Fits(n, position)
      <4>1. Fits([m EXCEPT !.url = w], "ensure")
        BY <2>2, <3>4
      <4> QED
        BY <3>4, <4>1
    <3>5. ASSUME Reuse, remembered # None
          PROVE  \E n, position : Begin(c, n, position) /\ Fits(n, position)
      <4>1. Fits([m EXCEPT !.url = log[d].bridge], "ensure")
        BY <2>1, <2>2, <3>5
      <4> QED
        BY <3>5, <4>1
    <3>6. ASSUME NEW w, Own(w) PROVE \E n, position : Begin(c, n, position) /\ Fits(n, position)
      <4>1. Fits([m EXCEPT !.url = w, !.dedicated = TRUE], "dedicated")
        BY <2>2
      <4> QED
        BY <3>6, <4>1
    <3> HIDE DEF Fits, Reuse, Own
    <3> QED
      BY <3>1, <3>2, <3>3, <3>4, <3>5, <3>6
  <2>4. pc'[c] = position /\ cmd'[c] = n
    BY <2>3 DEF Begin, Move, TypeOK
  <2>5. Works(c, u)' => remembered = u \/ u \in explicit'
    BY <2>3, <2>4, NoneIsNone DEF Works, BridgeOf
  <2> QED
    BY <2>3, <2>4, <2>5 DEF Claims, Excepted
<1> QED
  BY <1>1, <1>2, <1>3

\* The same for a step that is a Move.
LEMMA MovesOn ==
  ASSUME TypeOK, NEW c \in Commands, NEW u \in Urls, NEW d \in Directories,
         NEW position \in Positions, NEW m \in Command, Move(c, position, m),
         m.dir = cmd[c].dir,
         m.previous \in {cmd[c].previous, None},
         m.bridge \in {cmd[c].bridge, None} \/ Works(c, m.bridge),
         position \in {"ensure", "probing", "write", "stopSignal"} =>
           Works(c, m.url) \/ m.url \in Excepted',
         position # "starting" \/ server'[m.server] = "starting",
         cmd'[c].dir = d, Works(c, u)'
  PROVE  Claims(d, u) \/ u \in Excepted'
<1>1. pc'[c] = position /\ cmd'[c] = IF position = "done" THEN NoCommand ELSE m
  BY MoveType
<1>2. position # "done"
  BY <1>1, NoneIsNone DEF NoCommand
<1>3. cmd'[c] = m
  BY <1>1, <1>2
<1> QED
  BY <1>1, <1>3, GoesOn

\* What a step of a command makes it work with is claimed by its directory already, or excepted.
LEMMA OwnClaims ==
  ASSUME CommandInv, NEW c \in Commands, OfCommand(c), NEW u \in Urls, NEW d \in Directories,
         cmd'[c].dir = d, Works(c, u)'
  PROVE  Claims(d, u) \/ u \in Excepted'
<1> USE DEF CommandInv
<1> DEFINE Goal == Claims(d, u) \/ u \in Excepted'
<1>0. cmd[c] \in Command
  BY CmdType
<1>1. ASSUME NEW e \in Directories, Open(c, e) \/ Stack(c, e) \/ Stop(c, e) PROVE Goal
  BY <1>1, OpenClaims
<1>16. ASSUME NEW e \in Directories, Use(c, e) PROVE Goal
  <2>1. PICK w \in Urls : Begin(c, [NoCommand EXCEPT !.kind = "start", !.url = w], "ensure")
    BY <1>16, UseStep
  <2> DEFINE m == [NoCommand EXCEPT !.kind = "start", !.url = w]
  <2>2. m.dir = None /\ Move(c, "ensure", m)
    BY <2>1 DEF NoCommand, Begin
  <2> HIDE DEF m
  <2>3. cmd'[c].dir = None
    BY <2>2 DEF Move, TypeOK
  <2> QED
    BY <2>3, NoneIsNone
<1>2. ASSUME NEW w \in Urls, Start(c, w) \/ Kill(c, w) PROVE Goal
  <2>1. cmd'[c].dir = None
    <3> DEFINE m == [NoCommand EXCEPT !.kind = "start", !.url = w]
               n == [NoCommand EXCEPT !.kind = "kill", !.url = w, !.server = file[w]]
    <3>1. m.dir = None /\ n.dir = None
      BY DEF NoCommand
    <3>2. Move(c, "ensure", m) \/ Move(c, "stopSignal", n)
      BY <1>2 DEF Start, Kill, Begin
    <3> HIDE DEF m, n
    <3> QED
      BY <3>1, <3>2 DEF Move, TypeOK
  <2> QED
    BY <2>1, NoneIsNone
<1>3. ASSUME NEW position \in Positions \ {"starting"}, Goto(c, position),
             position \in {"ensure", "probing", "write", "stopSignal"} => Works(c, cmd[c].url)
      PROVE  Goal
  BY <1>0, <1>3, MovesOn DEF Goto
<1>4. ASSUME Throw(c) PROVE Goal
  BY <1>3, <1>4 DEF Throw, Positions
<1>5. ASSUME pc[c] \in {"ensure", "dedicated"}, Spawn(c) PROVE Goal
  <2>1. PICK s \in Servers : /\ server' = [server EXCEPT ![s] = "starting"]
                             /\ Move(c, "starting", [cmd[c] EXCEPT !.server = s])
    BY <1>5 DEF Spawn
  <2> DEFINE m == [cmd[c] EXCEPT !.server = s]
  <2>2. /\ m \in Command /\ m.server = s /\ m.dir = cmd[c].dir
        /\ m.previous = cmd[c].previous /\ m.bridge = cmd[c].bridge
    BY <1>0 DEF Command
  <2>3. server'[s] = "starting"
    BY <2>1 DEF TypeOK
  <2>4. Move(c, "starting", m)
    BY <2>1
  <2> HIDE DEF m
  <2> QED
    BY <2>2, <2>3, <2>4, MovesOn DEF Positions
<1>6. ASSUME pc[c] \in {"ensure", "write"}, Prepared(c) PROVE Goal
  <2>1. CASE Goto(c, "done")
    BY <1>3, <2>1 DEF Positions
  <2> DEFINE m == [cmd[c] EXCEPT !.bridge = cmd[c].url, !.url = None, !.server = None,
                                 !.dedicated = FALSE]
  <2>2. CASE Move(c, "control", m)
    <3>1. /\ m \in Command /\ m.dir = cmd[c].dir /\ m.previous = cmd[c].previous
          /\ m.bridge = cmd[c].url
      BY <1>0 DEF Command
    <3>2. Works(c, m.bridge)
      BY <1>6, <3>1 DEF Works
    <3>3. Move(c, "control", m)
      BY <2>2
    <3> HIDE DEF m
    <3> QED
      BY <3>1, <3>2, <3>3, MovesOn DEF Positions
  <2> QED
    BY <1>6, <2>1, <2>2 DEF Prepared
<1>7. ASSUME AwaitServer(c) PROVE Goal
  <2>1. CASE Throw(c)
    BY <1>4, <2>1
  <2> DEFINE s == cmd[c].server
             m == [cmd[c] EXCEPT !.url = address[s]]
  <2>2. CASE server[s] \in {"up", "signalled"} /\ Move(c, "probing", m)
    <3>1. pc[c] = "starting" /\ s \in Servers
      BY <1>7 DEF AwaitServer, At, Local
    <3>2. address[s] \in Urls
      BY <2>2, <3>1 DEF Addressed
    <3>3. /\ m \in Command /\ m.dir = cmd[c].dir /\ m.previous = cmd[c].previous
          /\ m.bridge = cmd[c].bridge /\ m.url = address[s]
      BY <1>0, <3>2 DEF Command
    <3>4. Works(c, m.url)
      BY <2>2, <3>1, <3>3 DEF Works
    <3>5. Move(c, "probing", m)
      BY <2>2
    <3> HIDE DEF m
    <3> QED
      BY <3>3, <3>4, <3>5, MovesOn DEF Positions
  <2> QED
    BY <1>7, <2>1, <2>2 DEF AwaitServer
<1>8. ASSUME Probe(c) PROVE Goal
  <2>1. Works(c, cmd[c].url)
    BY <1>8 DEF Probe, At, Works
  <2>2. Goto(c, "write") \/ Throw(c)
    BY <1>8 DEF Probe
  <2> QED
    BY <1>3, <1>4, <2>1, <2>2 DEF Positions
<1>9. ASSUME PrepareControl(c) PROVE Goal
  <2>1. CASE Goto(c, "page") \/ Throw(c)
    BY <1>3, <1>4, <2>1 DEF Positions
  <2>2. ASSUME NEW m \in Command, m.dir = cmd[c].dir, m.previous = cmd[c].previous,
               m.bridge = cmd[c].bridge, Move(c, "page", m)
        PROVE  Goal
    BY <2>2, MovesOn DEF Positions
  <2>3. CASE cmd[c].previous # None /\ Move(c, "page", [cmd[c] EXCEPT !.control = cmd[c].previous.control])
    <3> DEFINE k == cmd[c].previous.control
               m == [cmd[c] EXCEPT !.control = k]
    <3>1. k \in Controls \cup {None}
      BY <2>3, CmdType, ContextType DEF Context
    <3>2. Move(c, "page", m)
      BY <2>3
    <3> HIDE DEF k
    <3>3. /\ m \in Command /\ m.dir = cmd[c].dir /\ m.previous = cmd[c].previous
          /\ m.bridge = cmd[c].bridge
      BY <1>0, <3>1 DEF Command
    <3> HIDE DEF m
    <3> QED
      BY <2>2, <3>2, <3>3
  <2>4. ASSUME NEW k \in Controls, Move(c, "page", [cmd[c] EXCEPT !.control = k, !.started = TRUE])
        PROVE  Goal
    <3> DEFINE m == [cmd[c] EXCEPT !.control = k, !.started = TRUE]
    <3>1. /\ m \in Command /\ m.dir = cmd[c].dir /\ m.previous = cmd[c].previous
          /\ m.bridge = cmd[c].bridge
      BY <1>0 DEF Command
    <3>2. Move(c, "page", m)
      BY <2>4
    <3> HIDE DEF m
    <3> QED
      BY <2>2, <3>1, <3>2
  <2>5. \/ Goto(c, "page") \/ Throw(c)
        \/ cmd[c].previous # None /\ Move(c, "page", [cmd[c] EXCEPT !.control = cmd[c].previous.control])
        \/ \E k \in Controls : Move(c, "page", [cmd[c] EXCEPT !.control = k, !.started = TRUE])
    BY <1>9, Zenon DEF PrepareControl
  <2> HIDE DEF Goal
  <2> QED
    BY <2>1, <2>3, <2>4, <2>5, Zenon
<1>10. ASSUME OpenPage(c) \/ StopControl(c) \/ WriteStack(c) PROVE Goal
  <2>1. Goto(c, "log") \/ Throw(c) \/ Goto(c, "unlog") \/ Goto(c, "done")
    BY <1>10 DEF OpenPage, StopControl, WriteStack
  <2> QED
    BY <1>3, <1>4, <2>1 DEF Positions
<1>17. ASSUME CloseControl(c) PROVE Goal
  <2>1. /\ pc'[c] = "hooks" /\ cmd'[c].dir = cmd[c].dir
        /\ cmd'[c].previous = cmd[c].previous /\ cmd'[c].bridge = cmd[c].bridge
    BY <1>17, CloseStep
  <2> QED
    BY <2>1, GoesOn
<1>11. ASSUME NEW w \in Urls \cup {None}, NEW keep, StopOther(c, w, keep),
              w = None \/ Works(c, w) \/ w \in Excepted'
       PROVE  Goal
  <2>1. CASE Goto(c, "done")
    BY <1>3, <2>1 DEF Positions
  <2> DEFINE m == [NoCommand EXCEPT !.kind = cmd[c].kind, !.dir = cmd[c].dir, !.url = w]
  <2>2. CASE w # None /\ Move(c, "stopSignal", m)
    <3>1. m \in Command
      BY <1>11, CmdType, NoCommandType DEF Command
    <3>2. m.dir = cmd[c].dir /\ m.previous = None /\ m.bridge = None /\ m.url = w
      BY DEF NoCommand
    <3>3. Move(c, "stopSignal", m)
      BY <2>2
    <3> HIDE DEF m
    <3> QED
      BY <1>11, <2>2, <3>1, <3>2, <3>3, MovesOn DEF Positions
  <2> QED
    BY <1>11, <2>1, <2>2 DEF StopOther
<1>12. ASSUME WriteLog(c) \/ Undo(c) \/ RemoveLog(c) PROVE Goal
  <2>1. BridgeOf(cmd[c].previous) \in Urls \cup {None} /\ cmd[c].bridge \in Urls \cup {None}
    BY CmdType, ContextType
  <2>2. Works(c, BridgeOf(cmd[c].previous)) /\ Works(c, cmd[c].bridge)
    BY DEF Works
  <2>3. \/ Throw(c)
        \/ \E w \in Urls \cup {None} : Works(c, w) /\ \E keep : StopOther(c, w, keep)
        \/ \E w \in Urls : StopNamed(c, w)
    <3>1. CASE WriteLog(c) \/ Undo(c)
      BY <2>1, <2>2, <3>1 DEF WriteLog, Undo
    <3>2. CASE RemoveLog(c)
      BY <2>1, <2>2, <3>2 DEF RemoveLog
    <3> QED
      BY <1>12, <3>1, <3>2
  <2>4. ASSUME NEW w \in Urls, StopNamed(c, w) PROVE Goal
    <3>1. /\ pc'[c] = "stopSignal" /\ cmd'[c].named = TRUE /\ cmd'[c].dir = cmd[c].dir
          /\ cmd'[c].previous = None /\ cmd'[c].bridge = None
      BY <2>4, StopNamedStep
    <3> QED
      BY <3>1, GoesOn
  <2> QED
    BY <1>4, <1>11, <2>3, <2>4
<1>13. ASSUME StopSignal(c) PROVE Goal
  <2>1. CASE Goto(c, "done")
    BY <1>3, <2>1 DEF Positions
  <2>2. ASSUME NEW s \in Servers, Move(c, "stopRemove", [cmd[c] EXCEPT !.server = s]) PROVE Goal
    <3> DEFINE m == [cmd[c] EXCEPT !.server = s]
    <3>1. /\ m \in Command /\ m.dir = cmd[c].dir /\ m.previous = cmd[c].previous
          /\ m.bridge = cmd[c].bridge
      BY <1>0 DEF Command
    <3>2. Move(c, "stopRemove", m)
      BY <2>2
    <3> HIDE DEF m
    <3> QED
      BY <3>1, <3>2, MovesOn DEF Positions
  <2>3. pc[c] = "stopSignal" /\ cmd[c].url \in Urls
    BY <1>13 DEF StopSignal, At, Local
  <2>4. file[cmd[c].url] \in Servers \cup {None} /\ cmd[c].server \in Servers \cup {None}
    BY <2>3, CmdType DEF TypeOK
  <2> QED
    BY <1>13, <2>1, <2>2, <2>4 DEF StopSignal
<1>14. ASSUME StopRemove(c) \/ CrashCommand(c) PROVE Goal
  BY <1>3, <1>14 DEF StopRemove, CrashCommand, Positions
<1>15. ASSUME Ensure(c) \/ StartDedicated(c) \/ WriteState(c) PROVE Goal
  <2>1. \/ Throw(c)
        \/ pc[c] \in {"ensure", "dedicated"} /\ Spawn(c)
        \/ pc[c] \in {"ensure", "write"} /\ Prepared(c)
    BY <1>15 DEF Ensure, StartDedicated, WriteState, At
  <2> QED
    BY <1>4, <1>5, <1>6, <2>1
<1> HIDE DEF Goal
<1> QED
  BY <1>1, <1>2, <1>7, <1>8, <1>9, <1>10, <1>12, <1>13, <1>14, <1>15, <1>16, <1>17
     DEF OfCommand, Step, Goal

\* No step of a command makes a directory claim an address it had not claimed.
LEMMA ClaimsStep ==
  ASSUME CommandInv, ServerInv, NEW c \in Commands, OfCommand(c), NEW u \in Urls,
         NEW d \in Directories, Claims(d, u)'
  PROVE  Claims(d, u) \/ u \in Excepted'
<1> USE DEF CommandInv
<1>0. OwnStep(c)
  BY CommandSteps
<1>1. CASE BridgeOf(log'[d]) = u
  <2>1. CASE log'[d] = log[d]
    BY <1>1, <2>1 DEF Claims
  <2>2. CASE WriteLog(c) /\ log'[d] # log[d]
    <3>1. /\ cmd[c].dir = d
          /\ log'[d] = [bridge |-> cmd[c].bridge, control |-> cmd[c].control]
      BY <2>2 DEF WriteLog, TypeOK
    <3>2. log'[d] # None
      BY <3>1, CmdType, NoneIsNone DEF Context
    <3> QED
      BY <1>1, <3>1, <3>2 DEF BridgeOf, Works, Claims
  <2>3. CASE RemoveLog(c) /\ log'[d] # log[d]
    <3>1. log'[d] = None
      BY <2>3, RemoveStep DEF TypeOK
    <3> QED
      BY <1>1, <3>1, NoneIsNone DEF BridgeOf
  <2>4. CASE WriteStack(c) /\ log'[d] # log[d]
    <3>1. /\ cmd[c].dir = d /\ cmd[c].previous # None
          /\ log'[d] = [bridge |-> cmd[c].previous.bridge, control |-> None]
      BY <2>4, NoneIsNone DEF WriteStack, At, Local, TypeOK
    <3>2. BridgeOf(log'[d]) \in {None, BridgeOf(cmd[c].previous)}
      BY <3>1 DEF BridgeOf
    <3> QED
      BY <1>1, <3>1, <3>2, NoneIsNone DEF Works, Claims
  <2> QED
    BY <2>1, <2>2, <2>3, <2>4, Touched
<1>2. ASSUME Works(c, u)', cmd'[c].dir = d PROVE Claims(d, u) \/ u \in Excepted'
  BY <1>2, OwnClaims
<1>3. ASSUME NEW q \in Commands \ {c}, cmd'[q].dir = d, Works(q, u)'
      PROVE  Claims(d, u)
  <2>1. pc'[q] = pc[q] /\ cmd'[q] = cmd[q]
    BY <1>0 DEF OwnStep
  <2> DEFINE s == cmd[q].server
  <2>2. ASSUME pc[q] = "starting", server'[s] \in {"up", "signalled"}, address'[s] = u
        PROVE  server[s] \in {"up", "signalled"} /\ address[s] = u
    <3>1. s \in Servers
      BY <2>2 DEF Local
    <3> HIDE DEF s
    <3>2. server[s] \in {"up", "signalled"}
      <4>1. CASE UNCHANGED server
        BY <2>2, <4>1
      <4>2. CASE pc[c] \in {"ensure", "dedicated"} /\ Spawn(c)
        BY <2>2, <3>1, <4>2 DEF Spawn, TypeOK
      <4>3. CASE \E t : Signal(t)
        BY <2>2, <3>1, <4>3 DEF Signal, Signalled, TypeOK
      <4> QED
        BY <4>1, <4>2, <4>3, ServersTouched
    <3> QED
      BY <2>2, <3>1, <3>2, ServersStay DEF Born
  <2> HIDE DEF s
  <2>3. Works(q, u)
    BY <1>3, <2>1, <2>2 DEF Works, s
  <2> QED
    BY <1>3, <2>1, <2>3 DEF Claims
<1> QED
  BY <1>1, <1>2, <1>3 DEF Claims

\* A command that stops a Bridge does so for its directory, kill excepted.
Stops(c) == pc[c] = "stopSignal" /\ cmd[c].kind # "kill" => cmd[c].dir \in Directories

LEMMA StopsStep ==
  ASSUME CommandInv, NEW c \in Commands, OfCommand(c), Stops(c)
  PROVE  Stops(c)'
<1> USE DEF CommandInv
<1>1. ASSUME NEW d \in Directories, Open(c, d) \/ Use(c, d) \/ Stack(c, d) \/ Stop(c, d)
      PROVE  Stops(c)'
  BY <1>1, OpenStep, UseStep, StackStep, StopStep DEF Stops
<1>2. ASSUME NEW u \in Urls, Start(c, u) PROVE Stops(c)'
  <2>1. pc'[c] = "ensure"
    BY <1>2 DEF Start, Begin, Move, TypeOK
  <2> QED
    BY <2>1 DEF Stops
<1>3. ASSUME NEW u \in Urls, Kill(c, u) PROVE Stops(c)'
  <2> DEFINE m == [NoCommand EXCEPT !.kind = "kill", !.url = u, !.server = file[u]]
  <2>1. m.kind = "kill"
    BY DEF NoCommand
  <2>2. Move(c, "stopSignal", m)
    BY <1>3 DEF Kill, Begin
  <2> HIDE DEF m
  <2>3. cmd'[c].kind = "kill"
    BY <2>1, <2>2 DEF Move, TypeOK
  <2> QED
    BY <2>3 DEF Stops
<1>4. ASSUME WriteLog(c) \/ Undo(c) \/ RemoveLog(c) PROVE Stops(c)'
  <2>1. cmd[c].dir \in Directories
    BY <1>4 DEF WriteLog, Undo, RemoveLog, At, Local
  <2>2. Throw(c) \/ (\E u, keep : StopOther(c, u, keep)) \/ \E u \in Urls : StopNamed(c, u)
    BY <1>4 DEF WriteLog, Undo, RemoveLog
  <2>5. ASSUME NEW u \in Urls, StopNamed(c, u) PROVE Stops(c)'
    BY <2>1, <2>5, StopNamedStep DEF Stops
  <2>3. ASSUME NEW u, NEW keep, StopOther(c, u, keep) PROVE Stops(c)'
    <3>1. CASE Goto(c, "done")
      BY <3>1 DEF Goto, Move, Stops, TypeOK
    <3> DEFINE m == [NoCommand EXCEPT !.kind = cmd[c].kind, !.dir = cmd[c].dir, !.url = u]
    <3>2. CASE Move(c, "stopSignal", m)
      <4>1. m.dir = cmd[c].dir
        BY DEF NoCommand
      <4>2. Move(c, "stopSignal", m)
        BY <3>2
      <4> HIDE DEF m
      <4>3. cmd'[c].dir = cmd[c].dir
        BY <4>1, <4>2 DEF Move, TypeOK
      <4> QED
        BY <2>1, <4>3 DEF Stops
    <3> QED
      BY <2>3, <3>1, <3>2 DEF StopOther
  <2>4. Throw(c) => Stops(c)'
    BY ThrowType DEF Stops
  <2> QED
    BY <2>2, <2>3, <2>4, <2>5
<1>5. ASSUME StopSignal(c) PROVE Stops(c)'
  BY <1>5 DEF StopSignal, Goto, Move, Stops, TypeOK
<1>9. ASSUME CloseControl(c) PROVE Stops(c)'
  <2>1. pc'[c] = "hooks"
    BY <1>9, CloseStep
  <2> QED
    BY <2>1 DEF Stops
<1>6. ASSUME WriteStack(c) \/ StopControl(c) \/ StopRemove(c) \/ CrashCommand(c) \/ OpenPage(c)
      PROVE  Stops(c)'
  <2>1. Throw(c) \/ \E position \in {"unlog", "done", "log"} : Goto(c, position)
    BY <1>6 DEF WriteStack, StopControl, StopRemove, CrashCommand, OpenPage
  <2>2. Throw(c) => Stops(c)'
    BY ThrowType DEF Stops
  <2>3. ASSUME NEW position \in {"unlog", "done", "log"}, Goto(c, position) PROVE Stops(c)'
    BY <2>3, GotoType DEF Stops, Positions
  <2> QED
    BY <2>1, <2>2, <2>3
<1>7. ASSUME PrepareControl(c) PROVE Stops(c)'
  <2>1. pc'[c] \in {"page", "undo"}
    BY <1>7, ControlStep
  <2> QED
    BY <2>1 DEF Stops
<1>8. ASSUME Ensure(c) \/ StartDedicated(c) \/ AwaitServer(c) \/ Probe(c) \/ WriteState(c)
      PROVE  Stops(c)'
  BY <1>8, BridgeSteps DEF Stops
<1> QED
  BY <1>1, <1>2, <1>3, <1>4, <1>5, <1>6, <1>7, <1>8, <1>9 DEF OfCommand, Step

\* Only a Spawn comes to the place where a process is awaited.
LEMMA SpawnsOnly ==
  ASSUME CommandInv, NEW c \in Commands, OfCommand(c), pc'[c] = "starting"
  PROVE  pc[c] \in {"ensure", "dedicated"} /\ Spawn(c)
<1> USE DEF CommandInv
<1>1. ASSUME NEW d \in Directories PROVE ~Open(c, d) /\ ~Use(c, d) /\ ~Stack(c, d) /\ ~Stop(c, d)
  BY OpenStep, UseStep, StackStep, StopStep
<1>2. ASSUME NEW u \in Urls PROVE ~Start(c, u) /\ ~Kill(c, u)
  BY StartStep
<1>3. ~PrepareControl(c) /\ ~CrashCommand(c)
  BY ControlStep, CrashStep
<1>4. ~OpenPage(c) /\ ~WriteLog(c) /\ ~Undo(c)
  BY PageSteps
<1>5. /\ ~WriteStack(c) /\ ~CloseControl(c) /\ ~StopControl(c)
      /\ ~RemoveLog(c) /\ ~StopSignal(c) /\ ~StopRemove(c)
  BY StopSteps
<1>6. ~AwaitServer(c)
  BY ThrowType DEF AwaitServer, Move, TypeOK
<1>7. ~Probe(c)
  BY ThrowType, GotoType DEF Probe, Positions
<1>8. ~WriteState(c)
  BY ThrowType, PreparedStep DEF WriteState, At
<1>9. Ensure(c) \/ StartDedicated(c)
  BY <1>1, <1>2, <1>3, <1>4, <1>5, <1>6, <1>7, <1>8 DEF OfCommand, Step
<1>10. ~Throw(c) /\ (pc[c] = "ensure" => ~Prepared(c))
  BY ThrowType, PreparedStep
<1> QED
  BY <1>9, <1>10 DEF Ensure, StartDedicated, At

ApartInv ==
  /\ ClaimsApart /\ StartsOnce
  /\ \A c \in Commands : Stops(c)

LEMMA StartsOnceStep ==
  ASSUME CommandInv, ServerInv, StartsOnce, NEW c \in Commands, OfCommand(c)
  PROVE  StartsOnce'
<1> USE DEF CommandInv
<1>0. OwnStep(c)
  BY CommandSteps
<1>1. ASSUME NEW s \in Servers, server[s] # "unborn" PROVE server'[s] # "unborn"
  <2>1. CASE UNCHANGED server
    BY <1>1, <2>1
  <2>2. CASE pc[c] \in {"ensure", "dedicated"} /\ Spawn(c)
    BY <1>1, <2>2 DEF Spawn, TypeOK
  <2>3. CASE \E t : Signal(t)
    BY <1>1, <2>3 DEF Signal, Signalled, TypeOK
  <2> QED
    BY <2>1, <2>2, <2>3, ServersTouched
<1>2. \A q \in Commands \ {c} : pc'[q] = pc[q] /\ cmd'[q] = cmd[q]
  BY <1>0 DEF OwnStep
<1>3. \A q \in Commands : pc[q] = "starting" => cmd[q].server \in Servers
  BY DEF Local
<1>4. ASSUME NEW q \in Commands \ {c}, pc[q] = "starting"
      PROVE  server'[cmd[q].server] # "unborn"
  BY <1>1, <1>3, <1>4 DEF StartsOnce
<1>5. CASE pc'[c] # "starting"
  BY <1>2, <1>4, <1>5 DEF StartsOnce
<1>6. CASE pc'[c] = "starting"
  <2>1. PICK s \in Servers : /\ server[s] = "unborn" /\ cmd'[c].server = s
                             /\ server' = [server EXCEPT ![s] = "starting"]
    BY <1>6, SpawnsOnly, SpawnStep
  <2>2. server'[s] # "unborn"
    BY <2>1 DEF TypeOK
  <2>3. \A q \in Commands \ {c} : pc[q] = "starting" => cmd[q].server # s
    BY <2>1 DEF StartsOnce
  <2> QED
    BY <1>2, <1>4, <2>1, <2>2, <2>3 DEF StartsOnce
<1> QED
  BY <1>5, <1>6

LEMMA ApartStep ==
  ASSUME CommandInv, ServerInv, ApartInv, NEW c \in Commands, OfCommand(c)
  PROVE  ApartInv'
<1> USE DEF CommandInv, ApartInv
<1>1. Excepted \subseteq Excepted'
  <2>1. ASSUME NEW d \in Directories, Open(c, d) \/ Use(c, d) \/ Stack(c, d) \/ Stop(c, d)
        PROVE  Excepted \subseteq Excepted'
    <3>1. CASE Open(c, d)
      <4>1. explicit \subseteq explicit'
        BY <3>1, Zenon DEF Open
      <4>2. UNCHANGED <<processes, file, log, control, loose, standalone, lapsed, faults>>
        BY <3>1, Zenon DEF Open
      <4> QED
        BY <4>1, <4>2 DEF Excepted
    <3>2. CASE Use(c, d) \/ Stack(c, d) \/ Stop(c, d)
      BY <3>2 DEF Use, Stack, Stop, history, Excepted
    <3> QED
      BY <2>1, <3>1, <3>2
  <2>2. ASSUME NEW u \in Urls, Start(c, u) \/ Kill(c, u) PROVE Excepted \subseteq Excepted'
    BY <2>2 DEF Start, Kill, history, Excepted
  <2>3. CASE Ensure(c) \/ StartDedicated(c) \/ AwaitServer(c) \/ Probe(c) \/ WriteState(c)
    BY <2>3 DEF Ensure, StartDedicated, AwaitServer, Probe, WriteState, history, Excepted
  <2>4. CASE PrepareControl(c) \/ OpenPage(c) \/ WriteLog(c) \/ Undo(c) \/ CrashCommand(c)
    <3>1. explicit' = explicit /\ lapsed' = lapsed
      BY <2>4, Zenon DEF PrepareControl, OpenPage, WriteLog, Undo, CrashCommand, history
    <3> QED
      BY <3>1 DEF Excepted
  <2>5. ASSUME \/ WriteStack(c) \/ CloseControl(c) \/ StopControl(c)
               \/ RemoveLog(c) \/ StopSignal(c) \/ StopRemove(c)
        PROVE  Excepted \subseteq Excepted'
    <3>1. explicit' = explicit /\ lapsed' = lapsed
      BY <2>5, Zenon DEF WriteStack, CloseControl, StopControl, RemoveLog, StopSignal,
                         StopRemove, history
    <3> QED
      BY <3>1 DEF Excepted
  <2> QED
    BY <2>1, <2>2, <2>3, <2>4, <2>5 DEF OfCommand, Step
<1>2. ClaimsApart'
  <2>1. listener' = listener
    BY ServersTouched
  <2>2. ASSUME NEW u \in Urls, NEW d \in Directories, u \notin Excepted', Claims(d, u)'
        PROVE  Claims(d, u) /\ u \notin Excepted
    BY <1>1, <2>2, ClaimsStep
  <2> HIDE DEF CommandInv
  <2> QED
    BY <2>1, <2>2 DEF ClaimsApart
<1>3. \A q \in Commands : Stops(q)'
  <2>1. OwnStep(c)
    BY CommandSteps
  <2> QED
    BY <2>1, StopsStep DEF OwnStep, Stops
<1> QED
  BY <1>2, <1>3, StartsOnceStep

\* A process that ends takes the claims of the command that awaits it along; an address that is
\* still named has lapsed.
LEMMA ApartEnds ==
  ASSUME CommandInv, ServerInv, HoldsAddress, ApartInv, NEW s \in Servers,
         server[s] \in {"up", "signalled"}, End(s)
  PROVE  ApartInv'
<1> USE DEF CommandInv, ApartInv
<1> DEFINE w == address[s]
<1>0. /\ w \in Urls /\ server' = [server EXCEPT ![s] = "dead"]
      /\ listener' = [listener EXCEPT ![w] = None]
      /\ UNCHANGED <<address, file, log, pc, cmd, explicit>>
      /\ lapsed' = IF Named(w) THEN lapsed \cup {w} ELSE lapsed
  BY DEF End, Addressed
<1>1. StartsOnce'
  BY <1>0 DEF StartsOnce, TypeOK, Local
<1>3. \A c \in Commands : Stops(c)'
  BY <1>0 DEF Stops
<1>4. ASSUME NEW c \in Commands, NEW u \in Urls, Works(c, u)'
      PROVE  Works(c, u)
  <2>1. pc[c] = "starting" => cmd[c].server \in Servers
    BY DEF Local
  <2>2. \A t \in Servers : server'[t] \in {"up", "signalled"} => server[t] \in {"up", "signalled"}
    BY <1>0 DEF TypeOK
  <2> QED
    BY <1>0, <1>4, <2>1, <2>2 DEF Works
<1>5. ASSUME NEW u \in Urls, NEW d \in Directories, Claims(d, u)'
      PROVE  Claims(d, u)
  BY <1>0, <1>4, <1>5 DEF Claims
<1>6. ASSUME NEW d \in Directories, Claims(d, w)' PROVE Named(w)
  <2>1. CASE BridgeOf(log[d]) = w
    BY <2>1 DEF Named
  <2>2. ASSUME NEW c \in Commands, Works(c, w)' PROVE Named(w)
    <3>1. w \in {cmd[c].url, cmd[c].bridge, BridgeOf(cmd[c].previous)} => Named(w)
      BY DEF Named
    <3>2. ASSUME pc[c] = "starting", server'[cmd[c].server] \in {"up", "signalled"},
                 address[cmd[c].server] = w
          PROVE  FALSE
      <4>1. cmd[c].server \in Servers
        BY <3>2 DEF Local
      <4>2. cmd[c].server # s /\ server[cmd[c].server] \in {"up", "signalled"}
        BY <1>0, <3>2, <4>1 DEF TypeOK
      <4> QED
        BY <3>2, <4>1, <4>2 DEF HoldsAddress
    <3>3. \/ BridgeOf(cmd[c].previous) = w
          \/ cmd[c].bridge = w
          \/ cmd[c].url = w
          \/ /\ pc[c] = "starting" /\ server'[cmd[c].server] \in {"up", "signalled"}
             /\ address[cmd[c].server] = w
      <4>1. w' = w
        BY <1>0
      <4> QED
        BY <1>0, <2>2, <4>1 DEF Works, BridgeOf
    <3> QED
      BY <3>1, <3>2, <3>3
  <2> QED
    BY <1>0, <1>6, <2>1, <2>2 DEF Claims
<1>7. ClaimsApart'
  <2> SUFFICES ASSUME NEW u \in Urls, u \notin Excepted', NEW d \in Directories, Claims(d, u)'
               PROVE  /\ listener'[u] \in Servers
                      /\ \A e \in Directories : Claims(e, u)' => d = e
    BY DEF ClaimsApart
  <2>1. u \notin Excepted /\ u # w
    BY <1>0, <1>6 DEF Excepted
  <2>2. Claims(d, u)
    BY <1>5
  <2> HIDE DEF w
  <2>3. listener'[u] = listener[u]
    BY <1>0, <2>1 DEF TypeOK
  <2> QED
    BY <1>5, <2>1, <2>2, <2>3 DEF ClaimsApart
<1> QED
  BY <1>1, <1>3, <1>7

\* A process that listens takes an address nobody claims, and only its own command claims it then.
LEMMA ApartListens ==
  ASSUME CommandInv, ServerInv, ApartInv, NEW s \in Servers, Listen(s)
  PROVE  ApartInv'
<1> USE DEF CommandInv, ApartInv
<1>0. UNCHANGED <<file, log, pc, cmd, explicit, lapsed>> /\ server[s] = "starting"
  BY DEF Listen, history
<1>1. \A c \in Commands : Stops(c)'
  BY <1>0 DEF Stops
<1>2. \A c \in Commands : pc[c] = "starting" => cmd[c].server \in Servers
  BY DEF Local
<1>3. CASE server' = [server EXCEPT ![s] = "dead"] /\ UNCHANGED <<listener, address>>
  <2>1. StartsOnce'
    BY <1>0, <1>2, <1>3 DEF StartsOnce, TypeOK
  <2>2. ASSUME NEW c \in Commands, NEW u \in Urls, Works(c, u)' PROVE Works(c, u)
    BY <1>0, <1>2, <1>3, <2>2 DEF Works, TypeOK
  <2>3. ASSUME NEW u \in Urls, NEW d \in Directories, Claims(d, u)' PROVE Claims(d, u)
    BY <1>0, <2>2, <2>3 DEF Claims
  <2>4. ClaimsApart'
    BY <1>0, <1>3, <2>3 DEF ClaimsApart, Excepted
  <2> QED
    BY <1>1, <2>1, <2>4
<1>4. ASSUME NEW w \in Urls, listener[w] = None, listener' = [listener EXCEPT ![w] = s],
             address' = [address EXCEPT ![s] = w], server' = [server EXCEPT ![s] = "up"]
      PROVE  ApartInv'
  <2>1. StartsOnce'
    BY <1>0, <1>2, <1>4 DEF StartsOnce, TypeOK
  <2>3. ASSUME NEW c \in Commands, NEW u \in Urls, Works(c, u)'
        PROVE  Works(c, u) \/ (u = w /\ pc[c] = "starting" /\ cmd[c].server = s)
    <3>1. \A t \in Servers \ {s} : server'[t] = server[t] /\ address'[t] = address[t]
      BY <1>4 DEF TypeOK
    <3>2. address'[s] = w
      BY <1>4 DEF TypeOK
    <3> QED
      BY <1>0, <1>2, <2>3, <3>1, <3>2 DEF Works
  <2>4. ASSUME NEW u \in Urls, NEW d \in Directories, Claims(d, u)'
        PROVE  \/ Claims(d, u)
               \/ u = w /\ \E c \in Commands :
                             cmd[c].dir = d /\ pc[c] = "starting" /\ cmd[c].server = s
    BY <1>0, <2>3, <2>4 DEF Claims
  <2>5. ClaimsApart'
    <3> SUFFICES ASSUME NEW u \in Urls, u \notin Excepted', NEW d \in Directories, Claims(d, u)'
                 PROVE  /\ listener'[u] \in Servers
                        /\ \A e \in Directories : Claims(e, u)' => d = e
      BY DEF ClaimsApart
    <3>1. u \notin Excepted
      BY <1>0 DEF Excepted
    <3>2. CASE u = w
      <4>1. ASSUME NEW e \in Directories PROVE ~Claims(e, u)
        BY <1>4, <3>1, <3>2, NoneIsNone DEF ClaimsApart
      <4>2. listener'[u] = s
        BY <1>4, <3>2 DEF TypeOK
      <4> QED
        BY <2>4, <4>1, <4>2 DEF StartsOnce
    <3>3. CASE u # w
      <4>1. listener'[u] = listener[u] /\ Claims(d, u)
        BY <1>4, <2>4, <3>3 DEF TypeOK
      <4> QED
        BY <2>4, <3>1, <3>3, <4>1 DEF ClaimsApart
    <3> QED
      BY <3>2, <3>3
  <2> QED
    BY <1>1, <2>1, <2>5
<1>5. \/ server' = [server EXCEPT ![s] = "dead"] /\ UNCHANGED <<listener, address>>
      \/ \E w \in Urls : /\ listener[w] = None /\ listener' = [listener EXCEPT ![w] = s]
                         /\ address' = [address EXCEPT ![s] = w]
                         /\ server' = [server EXCEPT ![s] = "up"]
  BY DEF Listen, TypeOK
<1> QED
  BY <1>3, <1>4, <1>5

LEMMA ApartInvariant == Spec => []ApartInv
<1>1. Init => ApartInv
  <2> SUFFICES ASSUME Init PROVE ApartInv
    OBVIOUS
  <2>1. StartsOnce /\ \A c \in Commands : Stops(c)
    BY DEF Init, StartsOnce, Stops
  <2>3. ASSUME NEW u \in Urls, NEW d \in Directories PROVE ~Claims(d, u)
    BY NoneIsNone DEF Init, Claims, NoCommand, BridgeOf
  <2> QED
    BY <2>1, <2>3 DEF ApartInv, ClaimsApart
<1>2. ASSUME CommandInv, BridgeInv, ApartInv, [Next]_vars PROVE ApartInv'
  <2>0. ServerInv /\ HoldsAddress
    BY <1>2 DEF BridgeInv
  <2>1. ASSUME NEW c \in Commands, OfCommand(c) PROVE ApartInv'
    BY <1>2, <2>0, <2>1, ApartStep
  <2>2. ASSUME NEW s \in Servers, Listen(s) PROVE ApartInv'
    BY <1>2, <2>0, <2>2, ApartListens
  <2>3. ASSUME NEW s \in Servers, Close(s) \/ CrashServer(s) PROVE ApartInv'
    <3>1. server[s] \in {"up", "signalled"} /\ End(s)
      BY <2>3 DEF Close, CrashServer
    <3> QED
      BY <1>2, <2>0, <3>1, ApartEnds
  <2>4. CASE UNCHANGED vars
    <3>1. UNCHANGED <<listener, server, address, file, log, pc, cmd, explicit, lapsed>>
      BY <2>4 DEF vars, processes, history
    <3>2. StartsOnce' /\ \A c \in Commands : Stops(c)'
      BY <1>2, <3>1 DEF ApartInv, StartsOnce, Stops
    <3>3. \A d \in Directories, u \in Urls : Claims(d, u)' <=> Claims(d, u)
      BY <3>1 DEF Claims, Works, BridgeOf
    <3>4. ClaimsApart'
      BY <1>2, <3>1, <3>3 DEF ApartInv, ClaimsApart, Excepted
    <3> QED
      BY <3>2, <3>4 DEF ApartInv
  <2> QED
    BY <1>2, <2>1, <2>2, <2>3, <2>4, Steps DEF OfProcess
<1> QED
  BY <1>1, <1>2, CommandInvariant, BridgeInvariant, PTL DEF Spec

\* The pages of two directories share no Bridge, unless a user named its address or it had ended
\* under a page or command that still named it (resolveBridgeForOpen, startDedicatedBridge).
THEOREM BridgesStayApart == Spec => []BridgesApart
<1>1. CommandInv /\ ApartInv => BridgesApart
  <2> SUFFICES ASSUME CommandInv, ApartInv, NEW d \in Directories, NEW e \in Directories,
                      BridgeOf(log[d]) = BridgeOf(log[e]), BridgeOf(log[d]) # None,
                      BridgeOf(log[d]) \notin Excepted
               PROVE  d = e
    BY DEF BridgesApart, Excepted
  <2> DEFINE u == BridgeOf(log[d])
  <2>1. u \in Urls \ Excepted
    BY ContextType DEF CommandInv, TypeOK
  <2>2. Claims(d, u) /\ Claims(e, u)
    BY DEF Claims
  <2> QED
    BY <2>1, <2>2 DEF ApartInv, ClaimsApart
<1> QED
  BY <1>1, CommandInvariant, ApartInvariant, PTL

\* A command other than kill, and a stop that was given no address, signals the Bridge of another
\* directory's page only with the same exceptions, whatever state file it reads
\* (stopOpenContextBridge, stopManagedBridge).
THEOREM OthersAreSpared == Spec => OthersSpared
<1> DEFINE Spares ==
      \A c \in Commands, d \in Directories, s \in Servers :
        /\ At(c, "stopSignal") /\ pc'[c] # "stopSignal" /\ cmd[c].kind # "kill"
        /\ server[s] = "up" /\ server'[s] = "signalled"
        /\ BridgeOf(log[d]) = address[s]
        => cmd[c].dir = d \/ cmd[c].named \/ address[s] \in explicit \cup lapsed
<1>1. ASSUME CommandInv, BridgeInv, ApartInv, [Next]_vars PROVE Spares
  <2> SUFFICES ASSUME NEW c \in Commands, NEW d \in Directories, NEW s \in Servers,
                      At(c, "stopSignal"), pc'[c] # "stopSignal", cmd[c].kind # "kill",
                      server[s] = "up", server'[s] = "signalled",
                      BridgeOf(log[d]) = address[s], address[s] \notin Excepted,
                      ~cmd[c].named
               PROVE  cmd[c].dir = d
    BY DEF Excepted
  <2> USE DEF CommandInv
  <2>1. OfCommand(c)
    <3>1. ASSUME NEW q \in Commands, OfCommand(q) PROVE q = c
      BY <1>1, <3>1, CommandSteps DEF At, OwnStep
    <3>2. ~OfProcess
      BY ProcessSteps DEF At
    <3>3. ~UNCHANGED vars
      BY DEF At, vars
    <3> QED
      BY <1>1, <3>1, <3>2, <3>3, Steps
  <2>2. StopSignal(c)
    <3>1. ~\E e \in Directories : Open(c, e) \/ Use(c, e) \/ Stack(c, e) \/ Stop(c, e)
      BY DEF Open, Use, Stack, Stop, Begin, At
    <3>2. ~\E u \in Urls : Start(c, u) \/ Kill(c, u)
      BY DEF Start, Kill, Begin, At
    <3>3. ~CrashCommand(c)
      BY DEF CrashCommand, processes
    <3>4. Step(c)
      BY <2>1, <3>1, <3>2, <3>3, Zenon DEF OfCommand
    <3> QED
      BY <3>4 DEF Step, At, Ensure, StartDedicated, AwaitServer, Probe, WriteState,
                  PrepareControl, OpenPage, WriteLog, Undo, WriteStack, CloseControl,
                  StopControl, RemoveLog, StopRemove
  <2> DEFINE u == cmd[c].url
  <2>3. file[u] = s
    BY <1>1, <2>2 DEF StopSignal, Signal, Signalled, processes, TypeOK
  <2>4. u \in Urls /\ pc[c] = "stopSignal"
    BY <1>1 DEF Local, At
  <2>5. address[s] = u /\ cmd[c].dir \in Directories
    BY <1>1, <2>3, <2>4 DEF ApartInv, BridgeInv, HoldsAddress, Stops
  <2>7. cmd[c].named = FALSE
    BY <1>1, CmdType, Zenon
  <2>6. Claims(cmd[c].dir, u) /\ Claims(d, u)
    BY <2>4, <2>5, <2>7 DEF Claims, Works
  <2> QED
    BY <1>1, <2>4, <2>5, <2>6 DEF ApartInv, ClaimsApart
<1>2. CommandInv /\ BridgeInv /\ ApartInv /\ [Next]_vars => [Spares]_vars
  BY <1>1
<1>3. Spec => [][Spares]_vars
  BY <1>2, CommandInvariant, BridgeInvariant, ApartInvariant, PTL DEF Spec
<1> QED
  BY <1>3 DEF OthersSpared
=============================================================================
