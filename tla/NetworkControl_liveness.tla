----------------------- MODULE NetworkControl_liveness -----------------------
(***************************************************************************)
(* What NetworkControl promises to happen, for every value of its          *)
(* constants: no request stays paused (PausesEnd), /stop lets go of the    *)
(* browser (StopReleasesBrowser), and no call of /attach waits in vain.    *)
(*                                                                         *)
(* A paused request has at most twelve steps of its own ahead of it: its   *)
(* handler begins, fetches, sends up to three commands, and the browser    *)
(* executes them.  Rank counts what is left.  Every step that concerns the *)
(* request lowers its rank, nothing raises it, and as long as the request  *)
(* is paused one of the fair steps is due: the handler's, the browser's,   *)
(* or the closing of the socket, which releases the request.               *)
(*                                                                         *)
(* A call of /attach has at every place a step due, its own, the browser's *)
(* or the closing of its socket, and what is due gives way only to         *)
(* something else that is due.                                             *)
(***************************************************************************)
EXTENDS NetworkControl_proofs

\* Request p is paused in session s and nobody has resolved it.
IsPaused(p, s) == paused[p] = s /\ resolution[p] = None

\* A request stays paused only while its session intercepts, and a session intercepts only
\* while its socket stands: Drop lets go of everything else.
Held ==
  /\ \A p \in Pauses : paused[p] # None /\ resolution[p] = None => paused[p] \in intercepting
  /\ \A s \in intercepting : socket[s.controller] \in {"open", "closing"}

\* The last word on a request whose handler is done is a command the browser cannot refuse;
\* a request that is still paused after its last command was only asked for its body, or the
\* browser refused what the command carried, and the handler hears of that.
LastWord(p) ==
  /\ handler[p] = "caught" => Last(p) \in {"continue", "fail"}
  /\ handler[p] = "over" => resolution[p] # None \/ Last(p) \in {"continue", "fail"}
  /\ commands[p] # <<>> /\ executed[p] = Len(commands[p]) /\ resolution[p] = None =>
       /\ Last(p) \notin {"continue", "fail"}
       /\ Last(p) = "body" \/ reply[p] = "error"

\* A handler asks for the body, answers, and its catch block sends: three commands at most.
FewCommands(p) ==
  /\ handler[p] = "fetching" => commands[p] = <<>>
  /\ handler[p] = "trying" =>
       \/ Len(commands[p]) = 1
       \/ Len(commands[p]) = 2 /\ Last(p) # "body" /\ executed[p] >= 1
  /\ handler[p] \in {"caught", "over"} => Len(commands[p]) \in 1..3

Handled == \A p \in Pauses : LastWord(p) /\ FewCommands(p)

\* The process leaves no socket open and no call waiting when it ends.
Ended ==
  server = "dead" =>
    \A a \in Attaches : ~Pending(a) /\ socket[a] \notin {"open", "abandoned"}

PauseInv == TypeOK /\ SocketsMade /\ Ended /\ Decisions /\ Held /\ Handled

\* What is left to do about a paused request.
Rank(p) ==
  CASE handler[p] = "none" -> 12
    [] handler[p] = "fetching" -> 11
    [] handler[p] = "trying" -> 11 - Len(commands[p]) - executed[p]
    [] handler[p] = "caught" -> 3 + Len(commands[p]) - executed[p]
    [] handler[p] = "over" -> Len(commands[p]) - executed[p]

HandlerStep(p) == PausedEvent(p) \/ FetchEnds(p) \/ CommandAnswered(p) \/ CommandFails(p)

-----------------------------------------------------------------------------
(* Sockets and the requests they hold *)

\* A socket is made, hangs up, and is closed, in this order.
LEMMA SocketMoves ==
  ASSUME TypeOK, SocketsMade, [Next]_vars, NEW a \in Attaches
  PROVE  \/ socket'[a] = socket[a]
         \/ socket[a] = "open" /\ socket'[a] = "closing"
         \/ socket[a] = "none" /\ socket'[a] \in {"open", "abandoned"} /\ Pending(a)
         \/ socket[a] = "abandoned" /\ socket'[a] = "closing"
         \/ SocketCloses(a)
<1> USE TypeParts DEF ServerType
<1>1. ASSUME NEW b \in Attaches, socket' = Hang(b)
      PROVE  socket'[a] = socket[a] \/ (socket[a] = "open" /\ socket'[a] = "closing")
  BY <1>1 DEF Hang
<1>2. ASSUME CloseOld
      PROVE  socket'[a] = socket[a] \/ (socket[a] = "open" /\ socket'[a] = "closing")
  BY <1>1, <1>2 DEF CloseOld
<1>3. CASE \/ \E b \in Attaches : BeginAttach(b)
           \/ Stop \/ ServerClosed
  BY <1>1, <1>2, <1>3, NoneIsNone DEF BeginAttach, Stop, ServerClosed
<1>11. CASE Terminate
  BY <1>11 DEF Terminate
<1>4. ASSUME NEW b \in Attaches, SocketOpens(b)
      PROVE  \/ socket'[a] = socket[a]
             \/ socket[a] = "none" /\ socket'[a] = "open" /\ Pending(a)
  BY <1>4 DEF SocketOpens, SocketsMade, Pending, Underway
<1>5. ASSUME NEW b \in Attaches, AttachFails(b)
      PROVE  \/ socket'[a] = socket[a]
             \/ socket[a] = "open" /\ socket'[a] = "closing"
             \/ socket[a] = "none" /\ socket'[a] = "abandoned" /\ Pending(a)
  BY <1>1, <1>5 DEF AttachFails, SocketsMade, Pending, Underway
<1>6. ASSUME NEW b \in Attaches, SocketCloses(b) PROVE socket'[a] = socket[a] \/ SocketCloses(a)
  BY <1>6 DEF SocketCloses
<1>7. ASSUME UNCHANGED socket PROVE socket'[a] = socket[a]
  BY <1>7
<1>8. CASE ServerStep
  BY <1>3, <1>4, <1>5, <1>7, <1>8, <1>11
     DEF ServerStep, Accept, ClientGivesUp, Prepared, AttachDone, AttachGoesOn, AttachAnswered, AttachToFails
<1>9. CASE SessionStep
  BY <1>6, <1>7, <1>9
     DEF SessionStep, BrowserAttaches, DetachedEvent, BrowserEnables, EnableFails, DestroyTarget
<1>10. CASE PauseStep \/ UNCHANGED vars
  BY <1>7, <1>10
     DEF PauseStep, PauseRequest, PausedEvent, FetchEnds, BrowserExecutes, CommandAnswered,
         CommandFails, vars
<1> QED
  BY <1>8, <1>9, <1>10 DEF Next

\* Calls come and go only while the process runs, and it does not run again.
LEMMA ServerMoves ==
  ASSUME TypeOK, [Next]_vars
  PROVE  /\ server # "serving" => server' # "serving"
         /\ server = "dead" => server' = "dead"
         /\ server' = "dead" => server = "dead" \/ Terminate
         /\ \A a \in Attaches : Pending(a)' => Pending(a) \/ (Accept(a) /\ server = "serving")
<1> USE TypeParts DEF ServerType, OtherType, Pending, Underway
<1> DEFINE Moved ==
      /\ server # "serving" => server' # "serving"
      /\ server = "dead" => server' = "dead"
      /\ server' = "dead" => server = "dead" \/ Terminate
      /\ \A a \in Attaches : Pending(a)' => Pending(a) \/ (Accept(a) /\ server = "serving")
<1>1. ASSUME UNCHANGED attachVars PROVE Moved
  BY <1>1 DEF attachVars, serverVars
<1>2. ASSUME NEW b \in Attaches, Accept(b) PROVE Moved
  BY <1>2 DEF Accept, serverVars
<1>3. ASSUME NEW b \in Attaches,
             \/ ClientGivesUp(b) \/ BeginAttach(b) \/ SocketOpens(b) \/ Prepared(b)
             \/ AttachFails(b) \/ AttachDone(b) \/ AttachGoesOn(b)
             \/ \E t \in Targets : AttachAnswered(b, t) \/ AttachToFails(b, t)
      PROVE  Moved
  BY <1>3 DEF ClientGivesUp, BeginAttach, SocketOpens, Prepared, AttachFails, AttachDone,
              AttachGoesOn, AttachAnswered, AttachToFails, serverVars
<1>4. CASE Stop \/ ServerClosed
  BY <1>4 DEF Stop, ServerClosed
<1>5. CASE Terminate
  BY <1>5 DEF Terminate, Alive
<1>6. CASE ServerStep
  BY <1>2, <1>3, <1>4, <1>5, <1>6 DEF ServerStep
<1>7. CASE SessionStep
  <2>1. UNCHANGED attachVars
    BY <1>7 DEF SessionStep, BrowserAttaches, DetachedEvent, BrowserEnables, EnableFails,
                SocketCloses, DestroyTarget
  <2> QED
    BY <1>1, <2>1
<1>8. CASE PauseStep
  <2>1. UNCHANGED attachVars
    BY <1>8 DEF PauseStep, PauseRequest, PausedEvent, FetchEnds, BrowserExecutes,
                CommandAnswered, CommandFails
  <2> QED
    BY <1>1, <2>1
<1>9. CASE UNCHANGED vars
  BY <1>1, <1>9 DEF vars, attachVars, serverVars
<1> QED
  BY <1>6, <1>7, <1>8, <1>9 DEF Next

LEMMA EndedStep ==
  ASSUME TypeOK, SocketsMade, Ended, [Next]_vars
  PROVE  Ended'
<1> SUFFICES ASSUME server' = "dead", NEW a \in Attaches
             PROVE  ~Pending(a)' /\ socket'[a] \notin {"open", "abandoned"}
  BY DEF Ended
<1>1. CASE server = "dead"
  <2>1. ~Pending(a) /\ socket[a] \notin {"open", "abandoned"}
    BY <1>1 DEF Ended
  <2>2. ~Pending(a)'
    BY <1>1, <2>1, ServerMoves
  <2>3. socket'[a] = socket[a] \/ SocketCloses(a)
    BY <2>1, SocketMoves
  <2> QED
    BY <2>1, <2>2, <2>3, TypeParts DEF SocketCloses, ServerType
<1>2. CASE Terminate
  BY <1>2, TypeParts DEF Terminate, Pending, Underway, ServerType
<1> QED
  BY <1>1, <1>2, ServerMoves

\* The browser never takes a resolution back.
LEMMA ResolvedStays ==
  ASSUME PauseType, [Next]_vars, NEW p \in Pauses, resolution[p] # None
  PROVE  resolution'[p] = resolution[p]
<1>1. ASSUME NEW q \in Pauses, BrowserExecutes(q) PROVE resolution'[p] = resolution[p]
  BY <1>1 DEF BrowserExecutes, PauseType
<1>2. ASSUME NEW q \in Pauses, HandlerStep(q) PROVE resolution'[p] = resolution[p]
  BY <1>2, HandlersSend DEF HandlerStep, browserVars
<1>3. ASSUME NEW gone \in SUBSET Sessions, Drop(gone) PROVE resolution'[p] = resolution[p]
  BY <1>3 DEF Drop
<1> QED
  BY <1>1, <1>2, <1>3, PauseTouched DEF HandlerStep, PauseRequest, browserVars

LEMMA HeldStep ==
  ASSUME TypeOK, SocketsMade, Held, [Next]_vars
  PROVE  Held'
<1> USE TypeParts, SessionFields DEF ServerType, SessionType
<1>1. ASSUME NEW s \in intercepting', s \in intercepting
      PROVE  socket'[s.controller] \in {"open", "closing"}
  <2>1. s \in Sessions /\ socket[s.controller] \in {"open", "closing"}
    BY <1>1 DEF Held
  <2>2. ~SocketCloses(s.controller)
    BY <1>1, <2>1 DEF SocketCloses, Drop
  <2> QED
    BY <2>1, <2>2, SocketMoves
<1>2. ASSUME NEW s \in intercepting', s \notin intercepting
      PROVE  s \in Sessions /\ BrowserEnables(s)
  <2>1. ASSUME NEW q \in Sessions, BrowserAttaches(q) \/ DetachedEvent(q) \/ EnableFails(q)
        PROVE  FALSE
    BY <1>2, <2>1 DEF BrowserAttaches, DetachedEvent, EnableFails
  <2>2. ASSUME NEW a \in Attaches, NEW t \in Targets, AttachAnswered(a, t) PROVE FALSE
    BY <1>2, <2>2 DEF AttachAnswered
  <2>3. ASSUME NEW gone, Drop(gone) PROVE FALSE
    BY <1>2, <2>3 DEF Drop
  <2>4. PICK q \in Sessions : BrowserEnables(q)
    BY <1>2, <2>1, <2>2, <2>3, SessionTouched
  <2> QED
    BY <1>2, <2>4 DEF BrowserEnables
<1>3. \A s \in intercepting' : socket'[s.controller] \in {"open", "closing"}
  BY <1>1, <1>2 DEF BrowserEnables
<1>4. ASSUME NEW p \in Pauses, paused'[p] # None, resolution'[p] = None
      PROVE  paused'[p] \in intercepting'
  <2> USE DEF PauseType
  <2>1. resolution[p] = None
    BY <1>4, ResolvedStays
  <2>2. ASSUME NEW q \in Pauses, NEW s \in Sessions, PauseRequest(q, s)
        PROVE  paused'[p] \in intercepting'
    BY <1>4, <2>1, <2>2 DEF PauseRequest, Held
  <2>3. ASSUME NEW gone, Drop(gone), UNCHANGED paused PROVE paused'[p] \in intercepting'
    <3>1. paused[p] \in intercepting
      BY <1>4, <2>1, <2>3 DEF Held
    <3>2. paused[p] \notin gone
      BY <1>4, <2>1, <2>3, ControlAssumption DEF Drop, Resolutions
    <3> QED
      BY <2>3, <3>1, <3>2 DEF Drop
  <2>4. ASSUME UNCHANGED paused, intercepting \subseteq intercepting' PROVE paused'[p] \in intercepting'
    BY <1>4, <2>1, <2>4 DEF Held
  <2>5. CASE ServerStep
    BY <2>4, <2>5
       DEF ServerStep, Accept, ClientGivesUp, BeginAttach, SocketOpens, Prepared, AttachFails,
           AttachDone, AttachGoesOn, AttachAnswered, AttachToFails, Stop, ServerClosed, Terminate
  <2>6. CASE SessionStep
    <3>1. ASSUME NEW q \in Sessions,
                 BrowserAttaches(q) \/ DetachedEvent(q) \/ BrowserEnables(q) \/ EnableFails(q)
          PROVE  paused'[p] \in intercepting'
      BY <2>4, <3>1 DEF BrowserAttaches, DetachedEvent, BrowserEnables, EnableFails
    <3>2. ASSUME NEW a \in Attaches, SocketCloses(a) PROVE paused'[p] \in intercepting'
      BY <2>3, <3>2 DEF SocketCloses
    <3>3. ASSUME NEW t \in Targets, DestroyTarget(t) PROVE paused'[p] \in intercepting'
      BY <2>3, <3>3 DEF DestroyTarget
    <3> QED
      BY <2>6, <3>1, <3>2, <3>3 DEF SessionStep
  <2>7. CASE PauseStep
    BY <2>2, <2>4, <2>7
       DEF PauseStep, PausedEvent, FetchEnds, BrowserExecutes, CommandAnswered, CommandFails
  <2>8. CASE UNCHANGED vars
    BY <2>4, <2>8 DEF vars
  <2> QED
    BY <2>5, <2>6, <2>7, <2>8 DEF Next
<1> QED
  BY <1>3, <1>4 DEF Held

-----------------------------------------------------------------------------
(* Handlers *)

\* What Send does to the request it is about.
LEMMA SendAppends ==
  ASSUME PauseType, NEW p \in Pauses, NEW command \in Commands,
         NEW stage \in {"trying", "caught"}, Send(p, command, stage)
  PROVE  /\ commands'[p] # <<>> /\ Len(commands'[p]) = Len(commands[p]) + 1
         /\ Last(p)' = command /\ handler'[p] = stage
         /\ Len(commands[p]) \in Nat /\ executed[p] \in Nat
<1>1. commands'[p] = Append(commands[p], command) /\ handler'[p] = stage
  BY DEF Send, PauseType
<1>2. commands[p] \in Seq(Commands) /\ executed[p] \in Nat
  BY DEF PauseType
<1>3. /\ Len(Append(commands[p], command)) = Len(commands[p]) + 1
      /\ Append(commands[p], command)[Len(commands[p]) + 1] = command
      /\ Append(commands[p], command) # <<>>
  BY <1>2
<1> QED
  BY <1>1, <1>2, <1>3 DEF Last

\* What a handler does next: it sends an answer, or what the catch block sends, or it is over;
\* and what it has sent allows for that.
Goes(p) ==
  \/ handler[p] = "none" /\ handler' = [handler EXCEPT ![p] = "fetching"] /\ UNCHANGED commands
  \/ \E command \in Commands :
       /\ Send(p, command, "trying")
       /\ \/ handler[p] \in {"none", "fetching"} /\ commands[p] = <<>>
          \/ handler[p] = "trying" /\ command # "body" /\ Len(commands[p]) = 1 /\ executed[p] = 1
  \/ \E command \in {"continue", "fail"} :
       /\ Send(p, command, "caught")
       /\ \/ handler[p] \in {"none", "fetching"} /\ commands[p] = <<>>
          \/ handler[p] = "trying" /\ Len(commands[p]) \in 1..2
  \/ /\ Over(p) /\ Len(commands[p]) \in 1..3
     /\ \/ handler[p] = "caught" /\ Last(p) \in {"continue", "fail"}
        \/ resolution[p] # None

LEMMA HandlersGo ==
  ASSUME PauseType, Decisions, Handled, NEW p \in Pauses, HandlerStep(p)
  PROVE  Goes(p)
<1>0. /\ p.kind \in {"continue", "rewrite", "fulfill", "keep", "strip"}
      /\ commands[p] \in Seq(Commands) /\ executed[p] \in Nat
      /\ LastWord(p) /\ FewCommands(p) /\ Decided(p)
  BY PauseFields DEF Kinds, PauseType, Decisions, Handled
<1>1. ASSUME Caught(p), \/ handler[p] = "fetching"
                        \/ handler[p] = "trying"
      PROVE  Goes(p)
  BY <1>0, <1>1 DEF Caught, Goes, FewCommands
<1>2. CASE PausedEvent(p)
  <2>1. commands[p] = <<>> /\ handler[p] = "none"
    BY <1>0, <1>2 DEF PausedEvent, Decided
  <2> QED
    BY <1>0, <1>2, <2>1 DEF PausedEvent, Begin, Goes, Commands
<1>3. CASE FetchEnds(p)
  <2>1. handler[p] = "fetching" /\ commands[p] = <<>>
    BY <1>0, <1>3 DEF FetchEnds, FewCommands
  <2> QED
    BY <1>1, <1>3, <2>1 DEF FetchEnds, Goes, Commands
<1>4. CASE CommandAnswered(p)
  <2>1. /\ handler[p] \in {"trying", "caught"} /\ executed[p] = Len(commands[p])
        /\ reply[p] = "ok" /\ Len(commands[p]) \in 1..3 /\ commands[p] # <<>>
    <3>1. handler[p] \in {"trying", "caught"} /\ executed[p] = Len(commands[p]) /\ reply[p] = "ok"
      BY <1>4 DEF CommandAnswered, InCommand, Replied
    <3>2. Len(commands[p]) \in 1..3
      BY <1>0, <3>1 DEF FewCommands
    <3>3. commands[p] # <<>>
      BY <1>0, <3>1 DEF Decided
    <3> QED
      BY <3>1, <3>2, <3>3
  <2>2. CASE Last(p) = "body"
    <3>1. handler[p] = "trying" /\ Len(commands[p]) = 1
      BY <1>0, <2>1, <2>2 DEF LastWord, FewCommands
    <3> QED
      BY <1>1, <1>4, <2>1, <2>2, <3>1 DEF CommandAnswered, Goes, Commands
  <2>3. CASE Last(p) # "body"
    <3>1. resolution[p] # None
      BY <1>0, <2>1, <2>3 DEF LastWord
    <3> QED
      BY <1>4, <2>1, <2>3, <3>1 DEF CommandAnswered, Goes
  <2> QED
    BY <2>2, <2>3
<1>5. CASE CommandFails(p)
  <2>1. CASE handler[p] = "trying"
    BY <1>1, <1>5, <2>1 DEF CommandFails, Fail
  <2>2. CASE handler[p] = "caught"
    BY <1>0, <1>5, <2>2 DEF CommandFails, Fail, Goes, LastWord, FewCommands
  <2> QED
    BY <1>5, <2>1, <2>2 DEF CommandFails, InCommand
<1> QED
  BY <1>2, <1>3, <1>4, <1>5 DEF HandlerStep

\* What a step of its handler leaves true of the request.
LEMMA GoesHandled ==
  ASSUME PauseType, Decisions, Handled, NEW p \in Pauses, HandlerStep(p)
  PROVE  Handled'
<1>0. Goes(p) /\ UNCHANGED <<executed, reply, resolution>>
  BY HandlersGo, HandlersSend DEF HandlerStep, browserVars
<1>1. \A q \in Pauses \ {p} : commands'[q] = commands[q] /\ handler'[q] = handler[q]
  BY <1>0 DEF Goes, Send, Over, PauseType
<1>2. /\ commands[p] \in Seq(Commands) /\ executed[p] \in Nat
      /\ executed[p] <= Len(commands[p]) /\ Len(commands[p]) \in Nat
      /\ LastWord(p) /\ FewCommands(p)
  BY DEF PauseType, Decisions, Decided, Handled
<1>3. ASSUME NEW command \in Commands, NEW stage \in {"trying", "caught"},
             Send(p, command, stage),
             stage = "trying" => \/ commands[p] = <<>>
                                 \/ command # "body" /\ Len(commands[p]) = 1 /\ executed[p] = 1,
             stage = "caught" => command \in {"continue", "fail"} /\ Len(commands[p]) \in 0..2
      PROVE  (LastWord(p) /\ FewCommands(p))'
  <2>1. /\ commands'[p] # <<>> /\ Len(commands'[p]) = Len(commands[p]) + 1
        /\ Last(p)' = command /\ handler'[p] = stage
    BY <1>3, SendAppends
  <2>2. commands[p] = <<>> => Len(commands[p]) = 0
    OBVIOUS
  <2>3. executed'[p] # Len(commands'[p])
    BY <1>0, <1>2, <2>1
  <2>4. LastWord(p)'
    BY <1>3, <2>1, <2>3 DEF LastWord
  <2>5. FewCommands(p)'
    <3>1. CASE stage = "trying" /\ commands[p] = <<>>
      BY <2>1, <2>2, <3>1 DEF FewCommands
    <3>2. CASE stage = "trying" /\ commands[p] # <<>>
      <4>0. command # "body" /\ Len(commands[p]) = 1 /\ executed[p] = 1
        BY <1>3, <3>2
      <4>1. Len(commands'[p]) = 2 /\ executed'[p] = 1
        BY <1>0, <2>1, <4>0
      <4>2. handler'[p] = "trying" /\ Last(p)' # "body"
        BY <2>1, <3>2, <4>0
      <4> QED
        BY <4>1, <4>2 DEF FewCommands
    <3>3. CASE stage = "caught"
      <4>0. Len(commands[p]) \in 0..2
        BY <1>3, <3>3
      <4>1. Len(commands'[p]) \in 1..3
        <5>1. \A n \in 0..2 : n + 1 \in 1..3
          OBVIOUS
        <5> QED
          BY <2>1, <4>0, <5>1, Zenon
      <4>2. handler'[p] = "caught"
        BY <2>1, <3>3
      <4> QED
        BY <4>1, <4>2 DEF FewCommands
    <3> QED
      BY <3>1, <3>2, <3>3
  <2> QED
    BY <2>4, <2>5
<1>4. (LastWord(p) /\ FewCommands(p))'
  <2>1. CASE handler[p] = "none" /\ handler' = [handler EXCEPT ![p] = "fetching"] /\ UNCHANGED commands
    <3>1. commands[p] = <<>> /\ handler'[p] = "fetching" /\ commands'[p] = commands[p]
      BY <2>1 DEF PauseType, Decisions, Decided
    <3> QED
      BY <3>1 DEF LastWord, FewCommands
  <2>2. ASSUME NEW command \in Commands, Send(p, command, "trying"),
               \/ handler[p] \in {"none", "fetching"} /\ commands[p] = <<>>
               \/ handler[p] = "trying" /\ command # "body" /\ Len(commands[p]) = 1 /\ executed[p] = 1
        PROVE  (LastWord(p) /\ FewCommands(p))'
    BY <1>3, <2>2
  <2>3. ASSUME NEW command \in {"continue", "fail"}, Send(p, command, "caught"),
               \/ handler[p] \in {"none", "fetching"} /\ commands[p] = <<>>
               \/ handler[p] = "trying" /\ Len(commands[p]) \in 1..2
        PROVE  (LastWord(p) /\ FewCommands(p))'
    <3>1. command \in Commands /\ Len(commands[p]) \in 0..2
      BY <2>3 DEF Commands
    <3> QED
      BY <1>3, <2>3, <3>1
  <2>4. ASSUME Over(p), Len(commands[p]) \in 1..3,
               \/ handler[p] = "caught" /\ Last(p) \in {"continue", "fail"}
               \/ resolution[p] # None
        PROVE  (LastWord(p) /\ FewCommands(p))'
    <3>1. handler'[p] = "over" /\ commands'[p] = commands[p] /\ Last(p)' = Last(p)
      BY <2>4 DEF Over, PauseType, Last
    <3> QED
      BY <1>0, <1>2, <2>4, <3>1 DEF LastWord, FewCommands
  <2> QED
    BY <1>0, <2>1, <2>2, <2>3, <2>4 DEF Goes
<1> QED
  BY <1>0, <1>1, <1>4 DEF Handled, LastWord, FewCommands, Last

LEMMA HandledStep ==
  ASSUME PauseType, Decisions, Handled, [Next]_vars
  PROVE  Handled'
<1>1. CASE UNCHANGED <<paused, handlerVars, browserVars>>
  BY <1>1 DEF Handled, LastWord, FewCommands, Last, handlerVars, browserVars
<1>2. ASSUME NEW p \in Pauses, NEW s \in Sessions, PauseRequest(p, s) PROVE Handled'
  BY <1>2 DEF PauseRequest, Handled, LastWord, FewCommands, Last, handlerVars, browserVars
<1>3. ASSUME NEW p \in Pauses, HandlerStep(p) PROVE Handled'
  BY <1>3, GoesHandled
<1>4. ASSUME NEW p \in Pauses, BrowserExecutes(p) PROVE Handled'
  <2> DEFINE command == commands[p][executed[p] + 1]
  <2>1. /\ executed' = [executed EXCEPT ![p] = @ + 1]
        /\ executed[p] < Len(commands[p]) /\ UNCHANGED <<commands, handler>>
        /\ executed[p] \in Nat /\ Len(commands[p]) \in Nat
        /\ \A i \in 1..Len(commands[p]) : commands[p][i] \in Commands
    BY <1>4 DEF BrowserExecutes, handlerVars, PauseType
  <2>2. \/ resolution[p] = None /\ command = "body" /\ resolution' = resolution
        \/ resolution[p] = None /\ command # "body" /\ resolution' = [resolution EXCEPT ![p] = command]
        \/ resolution' = resolution /\ resolution[p] # None
        \/ /\ resolution' = resolution /\ command \notin {"continue", "fail"}
           /\ reply' = [reply EXCEPT ![p] = "error"]
    BY <1>4 DEF BrowserExecutes
  <2>3. command \in Commands /\ command # None
    BY <2>1, ControlAssumption
  <2>4. executed'[p] = Len(commands[p]) => command = Last(p)
    BY <2>1 DEF Last, PauseType
  <2> HIDE DEF command
  <2>5. (LastWord(p) /\ FewCommands(p))'
    <3>1. /\ Last(p)' = Last(p) /\ handler'[p] = handler[p] /\ commands'[p] = commands[p]
          /\ executed'[p] = executed[p] + 1
      BY <2>1 DEF Last, PauseType
    <3>2. LastWord(p) /\ FewCommands(p)
      BY DEF Handled
    <3>3. FewCommands(p)'
      BY <2>1, <3>1, <3>2 DEF FewCommands
    <3>4. /\ resolution[p] # None => resolution'[p] # None
          /\ executed'[p] = Len(commands[p]) /\ resolution'[p] = None =>
               /\ Last(p) \notin {"continue", "fail"}
               /\ Last(p) = "body" \/ reply'[p] = "error"
      BY <2>2, <2>3, <2>4 DEF PauseType
    <3> QED
      BY <3>1, <3>2, <3>3, <3>4 DEF LastWord
  <2>6. \A q \in Pauses \ {p} :
          /\ executed'[q] = executed[q] /\ resolution'[q] = resolution[q] /\ reply'[q] = reply[q]
          /\ Last(q)' = Last(q)
    BY <1>4, <2>1, <2>2 DEF BrowserExecutes, PauseType, Last
  <2> QED
    BY <2>1, <2>5, <2>6 DEF Handled, LastWord, FewCommands
<1>5. ASSUME NEW gone \in SUBSET Sessions, Drop(gone),
             UNCHANGED <<paused, handlerVars, executed, reply>>
      PROVE  Handled'
  <2>1. \A p \in Pauses : resolution'[p] \in {resolution[p], "released"} /\ "released" # None
    BY <1>5, ControlAssumption DEF Drop, Resolutions
  <2> QED
    BY <1>5, <2>1 DEF Handled, LastWord, FewCommands, Last, handlerVars
<1> QED
  BY <1>1, <1>2, <1>3, <1>4, <1>5, PauseTouched DEF HandlerStep

LEMMA PauseInvariant == Spec => []PauseInv
<1>1. Init => SocketsMade /\ Ended /\ Decisions /\ Held /\ Handled
  BY DEF Init, SocketsMade, Ended, Decisions, Decided, Held, Handled, LastWord, FewCommands
<1>2. /\ TypeOK /\ OneController /\ SocketsMade /\ Ended /\ Decisions /\ Held /\ Handled
      /\ [Next]_vars
      => SocketsMade' /\ Ended' /\ Decisions' /\ Held' /\ Handled'
  BY TypeParts, ControllerStep, EndedStep, DecisionsStep, HeldStep, HandledStep
<1>3. TypeOK /\ SocketsMade /\ Ended /\ Decisions /\ Held /\ Handled => PauseInv
  BY DEF PauseInv
<1> QED
  BY <1>1, <1>2, <1>3, ControllerInvariant, PTL DEF Spec

-----------------------------------------------------------------------------
(* The rank of a paused request *)

LEMMA PausedFacts ==
  ASSUME PauseInv, NEW p \in Pauses
  PROVE  /\ PauseType /\ Decisions /\ Handled /\ LastWord(p) /\ FewCommands(p)
         /\ executed[p] \in Nat /\ Len(commands[p]) \in Nat /\ executed[p] <= Len(commands[p])
         /\ handler[p] \in {"none", "fetching", "trying", "caught", "over"}
         /\ handler[p] \in {"none", "fetching"} =>
              commands[p] = <<>> /\ Len(commands[p]) = 0 /\ executed[p] = 0
<1>1. PauseType /\ Decisions /\ Handled
  BY TypeParts DEF PauseInv
<1>2. /\ executed[p] \in Nat /\ commands[p] \in Seq(Commands)
      /\ handler[p] \in {"none", "fetching", "trying", "caught", "over"}
  BY <1>1 DEF PauseType
<1>3. Len(commands[p]) \in Nat /\ (commands[p] = <<>> => Len(commands[p]) = 0)
  BY <1>2
<1>4. LastWord(p) /\ FewCommands(p) /\ Decided(p)
  BY <1>1 DEF Handled, Decisions
<1>5. executed[p] <= Len(commands[p]) /\ (handler[p] \in {"none", "fetching"} => commands[p] = <<>>)
  BY <1>4 DEF Decided, FewCommands
<1> QED
  BY <1>1, <1>2, <1>3, <1>4, <1>5

\* A request that is paused has something ahead of it, twelve steps at most.
LEMMA RankBound ==
  ASSUME PauseInv, NEW p \in Pauses, resolution[p] = None
  PROVE  Rank(p) \in 1..12
<1> DEFINE L == Len(commands[p])
           e == executed[p]
<1>0. L \in Nat /\ e \in Nat /\ e <= L
  BY PausedFacts
<1>1. CASE handler[p] \in {"none", "fetching"}
  BY <1>1 DEF Rank
<1>2. CASE handler[p] = "trying"
  <2>1. Rank(p) = 11 - L - e
    BY <1>2 DEF Rank
  <2>2. L = 1 \/ (L = 2 /\ e >= 1)
    BY <1>2, PausedFacts, Zenon DEF FewCommands
  <2> HIDE DEF L, e
  <2> QED
    BY <1>0, <2>1, <2>2
<1>3. CASE handler[p] \in {"caught", "over"}
  <2>1. L \in 1..3
    BY <1>3, PausedFacts DEF FewCommands
  <2>2. e # L
    <3>1. commands[p] # <<>>
      BY <2>1
    <3> QED
      BY <1>3, <3>1, PausedFacts DEF LastWord
  <2>3. Rank(p) = 3 + L - e \/ Rank(p) = L - e
    BY <1>3 DEF Rank
  <2> HIDE DEF L, e
  <2> QED
    BY <1>0, <2>1, <2>2, <2>3
<1> QED
  BY <1>1, <1>2, <1>3, PausedFacts

\* Whatever its handler does brings a paused request nearer to its end.
LEMMA HandlerLowersRank ==
  ASSUME PauseInv, NEW p \in Pauses, resolution[p] = None, HandlerStep(p)
  PROVE  Rank(p)' < Rank(p)
<1>0. Goes(p) /\ executed'[p] = executed[p]
  BY PausedFacts, HandlersGo, HandlersSend DEF HandlerStep, browserVars
<1> DEFINE L == Len(commands[p])
           e == executed[p]
<1>1. L \in Nat /\ e \in Nat /\ e <= L
  BY PausedFacts
<1>2. CASE handler[p] = "none" /\ handler' = [handler EXCEPT ![p] = "fetching"]
  <2>1. handler'[p] = "fetching"
    BY <1>2, PausedFacts DEF PauseType
  <2> QED
    BY <1>2, <2>1 DEF Rank
<1>3. ASSUME NEW command \in Commands, Send(p, command, "trying"),
             \/ handler[p] \in {"none", "fetching"} /\ commands[p] = <<>>
             \/ handler[p] = "trying" /\ command # "body" /\ L = 1 /\ e = 1
      PROVE  Rank(p)' < Rank(p)
  <2>1. Len(commands'[p]) = L + 1 /\ handler'[p] = "trying"
    BY <1>3, PausedFacts, SendAppends
  <2>2. Rank(p)' = 11 - (L + 1) - e
    BY <1>0, <2>1 DEF Rank
  <2>3. CASE handler[p] \in {"none", "fetching"}
    <3>1. Rank(p) \in {11, 12}
      BY <2>3 DEF Rank
    <3> HIDE DEF L, e
    <3> QED
      BY <1>1, <2>2, <3>1
  <2>4. CASE handler[p] = "trying" /\ L = 1 /\ e = 1
    <3>1. Rank(p) = 11 - L - e
      BY <2>4 DEF Rank
    <3> HIDE DEF L, e
    <3> QED
      BY <1>1, <2>2, <2>4, <3>1
  <2> QED
    BY <1>3, <2>3, <2>4
<1>4. ASSUME NEW command \in {"continue", "fail"}, Send(p, command, "caught"),
             \/ handler[p] \in {"none", "fetching"} /\ commands[p] = <<>>
             \/ handler[p] = "trying" /\ L \in 1..2
      PROVE  Rank(p)' < Rank(p)
  <2>1. command \in Commands
    BY <1>4 DEF Commands
  <2>2. Len(commands'[p]) = L + 1 /\ handler'[p] = "caught"
    BY <1>4, <2>1, PausedFacts, SendAppends
  <2>3. Rank(p)' = 3 + (L + 1) - e
    BY <1>0, <2>2 DEF Rank
  <2>4. CASE handler[p] \in {"none", "fetching"}
    <3>1. L = 0 /\ Rank(p) \in {11, 12}
      BY <2>4, PausedFacts DEF Rank
    <3> HIDE DEF L, e
    <3> QED
      BY <1>1, <2>3, <3>1
  <2>5. CASE handler[p] = "trying" /\ L \in 1..2
    <3>1. Rank(p) = 11 - L - e
      BY <2>5 DEF Rank
    <3> HIDE DEF L, e
    <3> QED
      BY <1>1, <2>3, <2>5, <3>1
  <2> QED
    BY <1>4, <2>4, <2>5
<1>5. CASE Over(p) /\ handler[p] = "caught"
  <2>1. commands'[p] = commands[p] /\ handler'[p] = "over"
    BY <1>5, PausedFacts DEF Over, PauseType
  <2>2. Rank(p)' = L - e /\ Rank(p) = 3 + L - e
    BY <1>0, <1>5, <2>1 DEF Rank
  <2> HIDE DEF L, e
  <2> QED
    BY <1>1, <2>2
<1> QED
  BY <1>0, <1>2, <1>3, <1>4, <1>5 DEF Goes

\* So does a command the browser executes.
LEMMA ExecutionLowersRank ==
  ASSUME PauseInv, NEW p \in Pauses, BrowserExecutes(p)
  PROVE  Rank(p)' < Rank(p)
<1>1. /\ executed'[p] = executed[p] + 1 /\ executed[p] < Len(commands[p])
      /\ commands'[p] = commands[p] /\ handler'[p] = handler[p]
  BY PausedFacts DEF BrowserExecutes, handlerVars, PauseType
<1>2. handler[p] \in {"trying", "caught", "over"}
  BY <1>1, PausedFacts
<1> QED
  BY <1>1, <1>2, PausedFacts DEF Rank

-----------------------------------------------------------------------------
(* One step of the system, seen from a paused request *)

\* Nothing happened to request p, though its socket may have been hung up.
Waits(p, s) ==
  /\ handler'[p] = handler[p] /\ commands'[p] = commands[p]
  /\ executed'[p] = executed[p] /\ reply'[p] = reply[p]
  /\ socket'[s.controller] \in {socket[s.controller], "closing"}

Resolved(p) == resolution[p] # None

\* A step resolves a paused request, brings it nearer to its end, or leaves it alone.
LEMMA PauseMoves ==
  ASSUME PauseInv, [Next]_vars, NEW p \in Pauses, NEW s \in Sessions, IsPaused(p, s)
  PROVE  \/ Resolved(p)'
         \/ IsPaused(p, s)' /\ Rank(p)' < Rank(p)
         \/ IsPaused(p, s)' /\ Waits(p, s)
<1> USE SessionFields DEF IsPaused, Resolved
<1>0. /\ s \in intercepting /\ socket[s.controller] \in {"open", "closing"}
      /\ paused[p] = s /\ s # None /\ PauseType
  BY PausedFacts, NoneIsNone DEF PauseInv, Held
<1>1. CASE Resolved(p)'
  BY <1>1
<1>2. CASE ~Resolved(p)'
  <2>1. ~SocketCloses(s.controller)
    BY <1>0, <1>2, ControlAssumption DEF SocketCloses, Drop, Resolutions
  <2>2. socket'[s.controller] \in {socket[s.controller], "closing"}
    BY <1>0, <2>1, SocketMoves DEF PauseInv
  <2>3. CASE UNCHANGED <<paused, handlerVars, browserVars>>
    BY <1>2, <2>2, <2>3 DEF Waits, handlerVars, browserVars
  <2>4. ASSUME NEW q \in Pauses, NEW r \in Sessions, PauseRequest(q, r)
        PROVE  IsPaused(p, s)' /\ Waits(p, s)
    <3>1. q # p
      BY <1>0, <2>4 DEF PauseRequest
    <3> QED
      BY <1>2, <2>2, <2>4, <3>1 DEF PauseRequest, Waits, PauseType, handlerVars, browserVars
  <2>5. ASSUME NEW q \in Pauses, HandlerStep(q)
        PROVE  IsPaused(p, s)' /\ (Rank(p)' < Rank(p) \/ Waits(p, s))
    <3>1. UNCHANGED <<paused, executed, reply, resolution>> /\ Sends(q)
      BY <2>5, HandlersSend DEF HandlerStep, browserVars
    <3>2. CASE q = p
      BY <2>5, <3>1, <3>2, HandlerLowersRank
    <3>3. CASE q # p
      <4>1. handler'[p] = handler[p] /\ commands'[p] = commands[p]
        BY <1>0, <3>1, <3>3 DEF Sends, Send, PauseType
      <4> QED
        BY <2>2, <3>1, <4>1 DEF Waits
    <3> QED
      BY <3>2, <3>3
  <2>6. ASSUME NEW q \in Pauses, BrowserExecutes(q)
        PROVE  IsPaused(p, s)' /\ (Rank(p)' < Rank(p) \/ Waits(p, s))
    <3>1. UNCHANGED <<paused, handler, commands>>
      BY <2>6 DEF BrowserExecutes, handlerVars
    <3>2. CASE q = p
      BY <1>2, <2>6, <3>1, <3>2, ExecutionLowersRank
    <3>3. CASE q # p
      <4>1. executed'[p] = executed[p] /\ reply'[p] = reply[p]
        BY <1>0, <2>6, <3>3 DEF BrowserExecutes, PauseType
      <4> QED
        BY <1>2, <2>2, <3>1, <4>1 DEF Waits
    <3> QED
      BY <3>2, <3>3
  <2>7. ASSUME NEW gone \in SUBSET Sessions, Drop(gone),
               UNCHANGED <<paused, handlerVars, executed, reply>>
        PROVE  IsPaused(p, s)' /\ Waits(p, s)
    BY <1>2, <2>2, <2>7 DEF Waits, handlerVars
  <2> QED
    BY <2>3, <2>4, <2>5, <2>6, <2>7, PauseTouched DEF HandlerStep
<1> QED
  BY <1>1, <1>2

-----------------------------------------------------------------------------
(* Fairness, and the end of every pause *)

\* When each fair step is due: the guard of its action.
EventDue(p) ==
  paused[p] # None /\ handler[p] = "none" /\ socket[paused[p].controller] = "open"
FetchDue(p) == Alive /\ handler[p] = "fetching"
ExecutionDue(p) ==
  executed[p] < Len(commands[p]) /\ socket[paused[p].controller] \in {"open", "closing"}
AnswerDue(p) == InCommand(p) /\ Replied(p) /\ reply[p] = "ok"
FailureDue(p) ==
  /\ Alive /\ InCommand(p)
  /\ (Replied(p) /\ reply[p] = "error") \/ socket[paused[p].controller] = "closed"
CloseDue(a) == socket[a] = "closing"

\* The event loop, the timer of the fetch and the browser serve request p, and the browser
\* closes a socket it is asked to close: the fairness of NetworkControl about requests, with
\* the guards written out.
Served(p) ==
  /\ []<>~EventDue(p) \/ []<><<PausedEvent(p)>>_vars
  /\ []<>~FetchDue(p) \/ []<><<FetchEnds(p)>>_vars
  /\ []<>~ExecutionDue(p) \/ []<><<BrowserExecutes(p)>>_vars
  /\ []<>~AnswerDue(p) \/ []<><<CommandAnswered(p)>>_vars
  /\ []<>~FailureDue(p) \/ []<><<NoFault /\ CommandFails(p)>>_vars

Closes(a) == []<>~CloseDue(a) \/ []<><<NoFault /\ SocketCloses(a)>>_vars

\* Request p is paused in session s with n steps ahead of it, or with fewer.
PausedAt(p, s, n) == IsPaused(p, s) /\ Rank(p) = n
PausedBelow(p, s, n) == IsPaused(p, s) /\ Rank(p) < n

\* Some fair step is always due.
LEMMA SomethingIsDue ==
  ASSUME PauseInv, NEW p \in Pauses, NEW s \in Sessions, IsPaused(p, s)
  PROVE  \/ EventDue(p) \/ FetchDue(p) \/ ExecutionDue(p) \/ AnswerDue(p) \/ FailureDue(p)
         \/ CloseDue(s.controller)
<1>0. socket[s.controller] = "open" => Alive
  BY SessionFields DEF PauseInv, Ended, Alive
<1>1. paused[p] = s /\ s # None /\ socket[s.controller] \in {"open", "closing"}
  BY NoneIsNone DEF IsPaused, PauseInv, Held
<1>2. CASE socket[s.controller] = "closing"
  BY <1>2 DEF CloseDue
<1>3. CASE socket[s.controller] = "open" /\ executed[p] < Len(commands[p])
  BY <1>1, <1>3 DEF ExecutionDue
<1>4. CASE socket[s.controller] = "open" /\ ~(executed[p] < Len(commands[p]))
  <2>1. executed[p] = Len(commands[p])
    BY <1>4, PausedFacts
  <2>2. handler[p] \notin {"caught", "over"}
    <3>1. ASSUME handler[p] \in {"caught", "over"} PROVE FALSE
      <4>1. commands[p] # <<>>
        <5>1. Len(commands[p]) \in 1..3
          BY <3>1, PausedFacts DEF FewCommands
        <5> QED
          BY <5>1
      <4> QED
        BY <2>1, <3>1, <4>1, PausedFacts DEF LastWord, IsPaused
    <3> QED
      BY <3>1
  <2>3. CASE handler[p] = "none"
    BY <1>1, <1>4, <2>3 DEF EventDue
  <2>4. CASE handler[p] = "fetching"
    BY <1>0, <1>4, <2>4 DEF FetchDue
  <2>5. CASE handler[p] = "trying"
    <3>1. InCommand(p) /\ Replied(p) /\ reply[p] \in {"ok", "error"}
      BY <1>1, <1>4, <2>1, <2>5, PausedFacts DEF InCommand, Replied, PauseType
    <3> QED
      BY <1>0, <1>4, <3>1 DEF AnswerDue, FailureDue
  <2> QED
    BY <2>2, <2>3, <2>4, <2>5, PausedFacts
<1> QED
  BY <1>1, <1>2, <1>3, <1>4

\* What is due stays due until it is done: only the request's own steps and the hanging up
\* of its socket change the guards, and a socket that hangs up closes next.
LEMMA DueStays ==
  ASSUME PauseInv, [Next]_vars, NEW p \in Pauses, NEW s \in Sessions, IsPaused(p, s),
         IsPaused(p, s)', Waits(p, s)
  PROVE  /\ Rank(p)' = Rank(p)
         /\ CloseDue(s.controller) => CloseDue(s.controller)'
         /\ EventDue(p) => EventDue(p)' \/ CloseDue(s.controller)'
         /\ FetchDue(p) => FetchDue(p)' \/ CloseDue(s.controller)'
         /\ ExecutionDue(p) => ExecutionDue(p)'
         /\ AnswerDue(p) => AnswerDue(p)' \/ CloseDue(s.controller)'
         /\ FailureDue(p) => FailureDue(p)' \/ CloseDue(s.controller)'
<1> USE DEF IsPaused, Waits
<1>1. Rank(p)' = Rank(p)
  BY DEF Rank
<1>4. Alive' \/ socket'[s.controller] = "closing"
  <2>1. Ended' /\ s.controller \in Attaches
    BY EndedStep, SessionFields DEF PauseInv
  <2>2. socket'[s.controller] \in {"open", "closing"}
    BY NoneIsNone DEF PauseInv, Held
  <2> QED
    BY <2>1, <2>2 DEF Ended, Alive
<1>5. Alive' => Alive
  BY ServerMoves DEF PauseInv, Alive
<1>2. CASE socket'[s.controller] = socket[s.controller]
  BY <1>1, <1>2, <1>4
     DEF CloseDue, EventDue, FetchDue, ExecutionDue, AnswerDue, FailureDue, InCommand, Replied
<1>3. CASE socket'[s.controller] = "closing"
  BY <1>1, <1>3 DEF CloseDue, FetchDue, ExecutionDue
<1> QED
  BY <1>2, <1>3

\* What a step does to a request with n steps ahead of it: the rank falls, or what is due
\* stays due; and every step that was due lowers the rank.
Nearer(p, s, n) == Resolved(p) \/ PausedBelow(p, s, n)

Advances(p, s, n) ==
  /\ PauseInv /\ PausedAt(p, s, n)
       => \/ EventDue(p) \/ FetchDue(p) \/ ExecutionDue(p) \/ AnswerDue(p) \/ FailureDue(p)
          \/ CloseDue(s.controller)
  /\ PauseInv /\ PausedAt(p, s, n) /\ [Next]_vars
       => \/ Nearer(p, s, n)'
          \/ /\ PausedAt(p, s, n)'
             /\ CloseDue(s.controller) => CloseDue(s.controller)'
             /\ EventDue(p) => EventDue(p)' \/ CloseDue(s.controller)'
             /\ FetchDue(p) => FetchDue(p)' \/ CloseDue(s.controller)'
             /\ ExecutionDue(p) => ExecutionDue(p)'
             /\ AnswerDue(p) => AnswerDue(p)' \/ CloseDue(s.controller)'
             /\ FailureDue(p) => FailureDue(p)' \/ CloseDue(s.controller)'
  /\ PauseInv /\ PausedAt(p, s, n) /\ [Next]_vars
       => /\ <<PausedEvent(p)>>_vars => Nearer(p, s, n)'
          /\ <<FetchEnds(p)>>_vars => Nearer(p, s, n)'
          /\ <<BrowserExecutes(p)>>_vars => Nearer(p, s, n)'
          /\ <<CommandAnswered(p)>>_vars => Nearer(p, s, n)'
          /\ <<NoFault /\ CommandFails(p)>>_vars => Nearer(p, s, n)'
          /\ <<NoFault /\ SocketCloses(s.controller)>>_vars => Nearer(p, s, n)'

LEMMA PauseAdvances ==
  ASSUME NEW p \in Pauses, NEW s \in Sessions, NEW n \in 1..12
  PROVE  Advances(p, s, n)
<1>1. ASSUME PauseInv, PausedAt(p, s, n), [Next]_vars
      PROVE  \/ Nearer(p, s, n)'
             \/ /\ PausedAt(p, s, n)'
                /\ CloseDue(s.controller) => CloseDue(s.controller)'
                /\ EventDue(p) => EventDue(p)' \/ CloseDue(s.controller)'
                /\ FetchDue(p) => FetchDue(p)' \/ CloseDue(s.controller)'
                /\ ExecutionDue(p) => ExecutionDue(p)'
                /\ AnswerDue(p) => AnswerDue(p)' \/ CloseDue(s.controller)'
                /\ FailureDue(p) => FailureDue(p)' \/ CloseDue(s.controller)'
  BY <1>1, PauseMoves, DueStays DEF PausedAt, PausedBelow, Nearer
<1>2. ASSUME PauseInv, PausedAt(p, s, n), [Next]_vars, HandlerStep(p) PROVE Nearer(p, s, n)'
  BY <1>2, PauseMoves, HandlerLowersRank DEF PausedAt, PausedBelow, IsPaused, Nearer
<1>3. ASSUME PauseInv, PausedAt(p, s, n), [Next]_vars, BrowserExecutes(p)
      PROVE  Nearer(p, s, n)'
  BY <1>3, PauseMoves, ExecutionLowersRank DEF PausedAt, PausedBelow, Nearer
<1>4. ASSUME PauseInv, PausedAt(p, s, n), SocketCloses(s.controller) PROVE Nearer(p, s, n)'
  <2>1. paused[p] = s /\ resolution[p] = None
    BY <1>4 DEF PausedAt, IsPaused
  <2> QED
    BY <1>4, <2>1, ControlAssumption DEF SocketCloses, Drop, Resolutions, Resolved, Nearer
<1>5. ASSUME PauseInv, PausedAt(p, s, n)
      PROVE  \/ EventDue(p) \/ FetchDue(p) \/ ExecutionDue(p) \/ AnswerDue(p) \/ FailureDue(p)
             \/ CloseDue(s.controller)
  BY <1>5, SomethingIsDue DEF PausedAt
<1> QED
  BY <1>1, <1>2, <1>3, <1>4, <1>5 DEF Advances, HandlerStep

\* Rank by rank, a request that is paused in a session is resolved or let go.
LEMMA PauseEnds ==
  ASSUME NEW p \in Pauses, NEW s \in Sessions
  PROVE  Spec /\ Served(p) /\ Closes(s.controller)
           => [](paused[p] = s => <>Resolved(p))
<1>1. PauseInv
        => /\ paused[p] = s => Resolved(p) \/ PausedBelow(p, s, 13)
           /\ PausedBelow(p, s, 13) => PausedAt(p, s, 12) \/ PausedBelow(p, s, 12)
           /\ PausedBelow(p, s, 12) => PausedAt(p, s, 11) \/ PausedBelow(p, s, 11)
           /\ PausedBelow(p, s, 11) => PausedAt(p, s, 10) \/ PausedBelow(p, s, 10)
           /\ PausedBelow(p, s, 10) => PausedAt(p, s, 9) \/ PausedBelow(p, s, 9)
           /\ PausedBelow(p, s, 9) => PausedAt(p, s, 8) \/ PausedBelow(p, s, 8)
           /\ PausedBelow(p, s, 8) => PausedAt(p, s, 7) \/ PausedBelow(p, s, 7)
           /\ PausedBelow(p, s, 7) => PausedAt(p, s, 6) \/ PausedBelow(p, s, 6)
           /\ PausedBelow(p, s, 6) => PausedAt(p, s, 5) \/ PausedBelow(p, s, 5)
           /\ PausedBelow(p, s, 5) => PausedAt(p, s, 4) \/ PausedBelow(p, s, 4)
           /\ PausedBelow(p, s, 4) => PausedAt(p, s, 3) \/ PausedBelow(p, s, 3)
           /\ PausedBelow(p, s, 3) => PausedAt(p, s, 2) \/ PausedBelow(p, s, 2)
           /\ PausedBelow(p, s, 2) => PausedAt(p, s, 1) \/ PausedBelow(p, s, 1)
           /\ ~PausedBelow(p, s, 1)
  BY RankBound DEF PausedAt, PausedBelow, IsPaused, Resolved
<1>2. Spec /\ Served(p) /\ Closes(s.controller)
        => (PausedAt(p, s, 1) ~> Resolved(p) \/ PausedBelow(p, s, 1))
  <2>1. Advances(p, s, 1)
    BY PauseAdvances
  <2> QED
    BY <2>1, PauseInvariant, PTL DEF Advances, Nearer, Spec, Served, Closes
<1>3. Spec /\ Served(p) /\ Closes(s.controller)
        => (PausedAt(p, s, 2) ~> Resolved(p) \/ PausedBelow(p, s, 2))
  <2>1. Advances(p, s, 2)
    BY PauseAdvances
  <2> QED
    BY <2>1, PauseInvariant, PTL DEF Advances, Nearer, Spec, Served, Closes
<1>4. Spec /\ Served(p) /\ Closes(s.controller)
        => (PausedAt(p, s, 3) ~> Resolved(p) \/ PausedBelow(p, s, 3))
  <2>1. Advances(p, s, 3)
    BY PauseAdvances
  <2> QED
    BY <2>1, PauseInvariant, PTL DEF Advances, Nearer, Spec, Served, Closes
<1>5. Spec /\ Served(p) /\ Closes(s.controller)
        => (PausedAt(p, s, 4) ~> Resolved(p) \/ PausedBelow(p, s, 4))
  <2>1. Advances(p, s, 4)
    BY PauseAdvances
  <2> QED
    BY <2>1, PauseInvariant, PTL DEF Advances, Nearer, Spec, Served, Closes
<1>6. Spec /\ Served(p) /\ Closes(s.controller)
        => (PausedAt(p, s, 5) ~> Resolved(p) \/ PausedBelow(p, s, 5))
  <2>1. Advances(p, s, 5)
    BY PauseAdvances
  <2> QED
    BY <2>1, PauseInvariant, PTL DEF Advances, Nearer, Spec, Served, Closes
<1>7. Spec /\ Served(p) /\ Closes(s.controller)
        => (PausedAt(p, s, 6) ~> Resolved(p) \/ PausedBelow(p, s, 6))
  <2>1. Advances(p, s, 6)
    BY PauseAdvances
  <2> QED
    BY <2>1, PauseInvariant, PTL DEF Advances, Nearer, Spec, Served, Closes
<1>8. Spec /\ Served(p) /\ Closes(s.controller)
        => (PausedAt(p, s, 7) ~> Resolved(p) \/ PausedBelow(p, s, 7))
  <2>1. Advances(p, s, 7)
    BY PauseAdvances
  <2> QED
    BY <2>1, PauseInvariant, PTL DEF Advances, Nearer, Spec, Served, Closes
<1>9. Spec /\ Served(p) /\ Closes(s.controller)
        => (PausedAt(p, s, 8) ~> Resolved(p) \/ PausedBelow(p, s, 8))
  <2>1. Advances(p, s, 8)
    BY PauseAdvances
  <2> QED
    BY <2>1, PauseInvariant, PTL DEF Advances, Nearer, Spec, Served, Closes
<1>10. Spec /\ Served(p) /\ Closes(s.controller)
        => (PausedAt(p, s, 9) ~> Resolved(p) \/ PausedBelow(p, s, 9))
  <2>1. Advances(p, s, 9)
    BY PauseAdvances
  <2> QED
    BY <2>1, PauseInvariant, PTL DEF Advances, Nearer, Spec, Served, Closes
<1>11. Spec /\ Served(p) /\ Closes(s.controller)
        => (PausedAt(p, s, 10) ~> Resolved(p) \/ PausedBelow(p, s, 10))
  <2>1. Advances(p, s, 10)
    BY PauseAdvances
  <2> QED
    BY <2>1, PauseInvariant, PTL DEF Advances, Nearer, Spec, Served, Closes
<1>12. Spec /\ Served(p) /\ Closes(s.controller)
        => (PausedAt(p, s, 11) ~> Resolved(p) \/ PausedBelow(p, s, 11))
  <2>1. Advances(p, s, 11)
    BY PauseAdvances
  <2> QED
    BY <2>1, PauseInvariant, PTL DEF Advances, Nearer, Spec, Served, Closes
<1>13. Spec /\ Served(p) /\ Closes(s.controller)
        => (PausedAt(p, s, 12) ~> Resolved(p) \/ PausedBelow(p, s, 12))
  <2>1. Advances(p, s, 12)
    BY PauseAdvances
  <2> QED
    BY <2>1, PauseInvariant, PTL DEF Advances, Nearer, Spec, Served, Closes
<1> QED
  BY <1>1, <1>2, <1>3, <1>4, <1>5, <1>6, <1>7, <1>8, <1>9, <1>10, <1>11, <1>12, <1>13, PauseInvariant, PTL

\* No request stays paused, whatever times out, detaches, is answered late or is refused: as
\* long as the handlers, the browser and the closing of sockets make progress, every request
\* the browser paused is resolved or released (handlePaused, its catch blocks, close).
THEOREM EveryPauseEnds ==
  Spec /\ (\A p \in Pauses : Served(p)) /\ (\A a \in Attaches : Closes(a)) => PausesEnd
<1>1. ASSUME NEW p \in Pauses
      PROVE  (\A s \in Sessions : [](paused[p] = s => <>Resolved(p)))
               => [](\A s \in Sessions : paused[p] = s => <>Resolved(p))
  OBVIOUS
<1>2. ASSUME NEW p \in Pauses
      PROVE  TypeOK /\ (\A s \in Sessions : paused[p] = s => <>Resolved(p))
               => (paused[p] # None => <>Resolved(p))
  BY TypeParts DEF PauseType
<1>3. ASSUME NEW p \in Pauses
      PROVE  Spec /\ [](\A s \in Sessions : paused[p] = s => <>Resolved(p))
               => (paused[p] # None ~> Resolved(p))
  BY <1>2, TypeCorrect, PTL
<1>4. ASSUME Spec /\ (\A p \in Pauses : Served(p)) /\ (\A a \in Attaches : Closes(a))
      PROVE  PausesEnd
  <2>1. \A p \in Pauses, s \in Sessions : Spec /\ Served(p) /\ Closes(s.controller)
    BY <1>4, SessionFields
  <2>2. \A p \in Pauses, s \in Sessions : [](paused[p] = s => <>Resolved(p))
    BY <2>1, PauseEnds
  <2>3. \A p \in Pauses : Spec /\ [](\A s \in Sessions : paused[p] = s => <>Resolved(p))
    BY <1>1, <1>4, <2>2
  <2>4. \A p \in Pauses : (paused[p] # None ~> Resolved(p))
    BY <1>3, <2>3
  <2> QED
    BY <2>4 DEF PausesEnd, Resolved
<1> QED
  BY <1>4

-----------------------------------------------------------------------------
(* /stop *)

\* The command line has posted /stop and has yet to signal the process.
SignalDue == server \in {"stopping", "closed"}

Signals == []<>~SignalDue \/ []<><<server # "serving" /\ Terminate>>_vars

LetGo(a) == socket[a] \notin {"open", "closing", "abandoned"}
HangsUp(a) == server = "dead" /\ CloseDue(a)
Released(a) == server = "dead" /\ LetGo(a)

\* The signal ends the process, its sockets hang up, and no call is left to make another.
LEMMA StopStep ==
  ASSUME TypeOK, SocketsMade, Ended, NEW a \in Attaches
  PROVE  /\ server # "serving" => SignalDue \/ HangsUp(a) \/ Released(a)
         /\ SignalDue /\ [Next]_vars => SignalDue' \/ HangsUp(a)' \/ Released(a)'
         /\ SignalDue /\ <<server # "serving" /\ Terminate>>_vars => HangsUp(a)' \/ Released(a)'
         /\ HangsUp(a) => CloseDue(a)
         /\ HangsUp(a) /\ [Next]_vars => HangsUp(a)' \/ Released(a)'
         /\ HangsUp(a) /\ <<NoFault /\ SocketCloses(a)>>_vars => Released(a)'
         /\ Released(a) => LetGo(a)
<1> USE TypeParts DEF ServerType, OtherType
<1>1. server = "dead" => HangsUp(a) \/ Released(a)
  BY DEF Ended, HangsUp, Released, LetGo, CloseDue
<1>2. server # "serving" => SignalDue \/ HangsUp(a) \/ Released(a)
  BY <1>1 DEF SignalDue
<1>3. ASSUME [Next]_vars, server' = "dead" PROVE HangsUp(a)' \/ Released(a)'
  <2>1. Ended' /\ ServerType'
    BY <1>3, EndedStep, ServerTypeStep
  <2> QED
    BY <1>3, <2>1 DEF Ended, HangsUp, Released, LetGo, CloseDue
<1>4. ASSUME [Next]_vars, SignalDue PROVE SignalDue' \/ server' = "dead"
  <2>1. OtherType'
    BY <1>4, OtherTypeStep
  <2>2. server' # "serving"
    BY <1>4, ServerMoves DEF SignalDue
  <2> QED
    BY <2>1, <2>2 DEF SignalDue
<1>5. ASSUME Terminate PROVE HangsUp(a)' \/ Released(a)'
  BY <1>5 DEF Terminate, HangsUp, Released, LetGo, CloseDue
<1>6. ASSUME HangsUp(a), [Next]_vars PROVE HangsUp(a)' \/ Released(a)'
  BY <1>3, <1>6, ServerMoves DEF HangsUp
<1>7. ASSUME HangsUp(a), SocketCloses(a) PROVE Released(a)'
  BY <1>7 DEF HangsUp, SocketCloses, Released, LetGo, attachVars, serverVars
<1> QED
  BY <1>2, <1>3, <1>4, <1>5, <1>6, <1>7 DEF HangsUp, Released

LEMMA SocketLetGo ==
  ASSUME NEW a \in Attaches
  PROVE  Spec /\ Closes(a) /\ Signals => (server # "serving" ~> LetGo(a))
<1>1. PauseInv => TypeOK /\ SocketsMade /\ Ended
  BY DEF PauseInv
<1> QED
  BY <1>1, StopStep, PauseInvariant, PTL DEF Spec, Closes, Signals

\* After /stop no socket to the browser stays, not even that of a call that connects when the
\* server has long closed, or of a connect that timed out: given that the command line that
\* posted /stop lives to signal the process, and that the browser closes what the system closes
\* (stopNetworkControl, runNetworkControlServer).
THEOREM StopReleases ==
  Spec /\ Signals /\ (\A a \in Attaches : Closes(a)) => StopReleasesBrowser
<1> SUFFICES ASSUME Spec, Signals, \A a \in Attaches : Closes(a)
             PROVE  StopReleasesBrowser
  OBVIOUS
<1>1. \A a \in Attaches : (server # "serving" ~> LetGo(a))
  BY SocketLetGo
<1> QED
  BY <1>1 DEF StopReleasesBrowser, LetGo

-----------------------------------------------------------------------------
(* What a call of /attach waits for *)

\* While a call prepares and attaches, its socket stands or has closed, and the browser keeps
\* a session only on a socket that stands.
SocketsStand ==
  /\ \A a \in Attaches : attach[a] \in {"preparing", "attaching", "enabling"} =>
       socket[a] \in {"open", "closing", "closed"}
  /\ \A s \in Sessions : session[s] = "attached" => socket[s.controller] \in {"open", "closing"}

Offered(a, t) == session[Asked(a, t)] # "none"
Awaited(a, t) == enabling[Asked(a, t)] = "sent"

\* A call that has not begun to attach has no session, and one that awaits a Fetch.enable
\* awaits it for a target it has been given a session of.
OneAtATime ==
  \A a \in Attaches :
    /\ attach[a] \in {"idle", "reading", "opening", "preparing"} =>
         \A t \in Targets : ~Offered(a, t)
    /\ attach[a] \in {"attaching", "enabling"} =>
         \A t, u \in left[a] : Offered(a, t) /\ Offered(a, u) => t = u
    /\ attach[a] = "enabling" => \E t \in left[a] : Offered(a, t)

CallInv == TypeOK /\ SocketsMade /\ Ended /\ SocketsStand /\ OneAtATime

\* The steps of call a.
CallStep(a) ==
  \/ Accept(a) \/ BeginAttach(a) \/ SocketOpens(a) \/ Prepared(a) \/ AttachFails(a)
  \/ AttachDone(a) \/ AttachGoesOn(a)
  \/ \E t \in Targets : AttachAnswered(a, t) \/ AttachToFails(a, t)
  \/ Pending(a) /\ Terminate

LEMMA CallTouched ==
  ASSUME TypeOK, [Next]_vars, NEW a \in Attaches
  PROVE  (attach'[a] = attach[a] /\ left'[a] = left[a]) \/ CallStep(a)
<1> DEFINE Stays == attach'[a] = attach[a] /\ left'[a] = left[a]
<1>1. ASSUME UNCHANGED <<attach, left>> PROVE Stays
  BY <1>1
<1>2. CASE ServerStep
  <2>1. ASSUME NEW b \in Attaches, b # a, CallStep(b), ~Terminate PROVE Stays
    BY <2>1, TypeParts
       DEF CallStep, ServerType, Accept, BeginAttach, SocketOpens, Prepared, AttachFails,
           AttachDone, AttachGoesOn, AttachAnswered, AttachToFails
  <2>2. CASE Stop \/ ServerClosed \/ \E b \in Attaches : ClientGivesUp(b)
    BY <2>2 DEF Stop, ServerClosed, ClientGivesUp
  <2>3. CASE Terminate
    BY <2>3, TypeParts DEF Terminate, CallStep, ServerType
  <2> QED
    BY <1>2, <2>1, <2>2, <2>3 DEF ServerStep, CallStep
<1>3. CASE SessionStep
  <2>1. UNCHANGED attachVars
    BY <1>3 DEF SessionStep, BrowserAttaches, DetachedEvent, BrowserEnables, EnableFails,
                SocketCloses, DestroyTarget
  <2> QED
    BY <2>1 DEF attachVars
<1>4. CASE PauseStep
  <2>1. UNCHANGED attachVars
    BY <1>4 DEF PauseStep, PauseRequest, PausedEvent, FetchEnds, BrowserExecutes,
                CommandAnswered, CommandFails
  <2> QED
    BY <2>1 DEF attachVars
<1>5. CASE UNCHANGED vars
  BY <1>5 DEF vars
<1> QED
  BY <1>2, <1>3, <1>4, <1>5 DEF Next

\* Fetch.enable is sent as a session is attached or its attachToTarget is answered.
EnableSent(s) == BrowserAttaches(s) \/ AttachAnswered(s.controller, s.target)

\* A session is made by one step, and lost for good.
LEMMA SessionMoves ==
  ASSUME TypeOK, [Next]_vars, NEW s \in Sessions
  PROVE  /\ session[s] # "none" => session'[s] # "none"
         /\ session[s] = "none" /\ session'[s] # "none" => BrowserAttaches(s)
         /\ session'[s] = "attached" => session[s] = "attached" \/ BrowserAttaches(s)
         /\ enabling'[s] = "sent" /\ enabling[s] # "sent" => EnableSent(s)
<1> USE TypeParts DEF SessionType
<1>1. CASE UNCHANGED <<session, enableVars, intercepting>>
  BY <1>1 DEF enableVars
<1>2. ASSUME NEW r \in Sessions, BrowserAttaches(r)
      PROVE  /\ session[s] # "none" => session'[s] # "none"
             /\ session'[s] # session[s] => r = s
             /\ enabling'[s] # enabling[s] => r = s
  BY <1>2 DEF BrowserAttaches, EnableTarget
<1>3. ASSUME NEW r \in Sessions, DetachedEvent(r) \/ BrowserEnables(r) \/ EnableFails(r)
      PROVE  /\ session[s] # "none" => session'[s] # "none"
             /\ session'[s] # session[s] => session[s] # "none" /\ session'[s] # "attached"
             /\ enabling'[s] = "sent" => enabling[s] = "sent"
  BY <1>3 DEF DetachedEvent, BrowserEnables, EnableFails, sessionVars
<1>4. ASSUME NEW a \in Attaches, NEW t \in Targets, AttachAnswered(a, t)
      PROVE  session' = session /\ (enabling'[s] # enabling[s] => s = Asked(a, t))
  BY <1>4, AskedFields DEF AttachAnswered, EnableTarget, sessionVars
<1>6. ASSUME NEW a \in Attaches, NEW t \in Targets, AttachAnswered(a, t), s = Asked(a, t)
      PROVE  EnableSent(s)
  BY <1>6, AskedFields DEF EnableSent
<1>5. ASSUME NEW gone \in SUBSET Sessions, Drop(gone), UNCHANGED enableVars
      PROVE  /\ session[s] # "none" => session'[s] # "none"
             /\ session'[s] # session[s] => session[s] # "none" /\ session'[s] # "attached"
             /\ enabling' = enabling
  BY <1>5 DEF Drop, enableVars
<1> QED
  BY <1>1, <1>2, <1>3, <1>4, <1>5, <1>6, SessionTouched DEF EnableSent

LEMMA SocketsStandStep ==
  ASSUME TypeOK, SocketsMade, SocketsStand, [Next]_vars
  PROVE  SocketsStand'
<1>1. ASSUME NEW a \in Attaches, attach'[a] \in {"preparing", "attaching", "enabling"}
      PROVE  socket'[a] \in {"open", "closing", "closed"}
  <2>1. CASE attach[a] \in {"preparing", "attaching", "enabling"}
    BY <2>1, SocketMoves, TypeParts DEF SocketsStand, SocketCloses, ServerType
  <2>2. CASE attach[a] \notin {"preparing", "attaching", "enabling"}
    <3>1. SocketOpens(a)
      BY <1>1, <2>2, CallTouched, TypeParts
         DEF CallStep, Accept, BeginAttach, Prepared, AttachFails, AttachDone, AttachGoesOn,
             AttachAnswered, AttachToFails, Terminate, ServerType
    <3> QED
      BY <3>1, TypeParts DEF SocketOpens, ServerType
  <2> QED
    BY <2>1, <2>2
<1>2. ASSUME NEW s \in Sessions, session'[s] = "attached"
      PROVE  socket'[s.controller] \in {"open", "closing"}
  <2>1. CASE BrowserAttaches(s)
    BY <2>1 DEF BrowserAttaches
  <2>2. CASE session[s] = "attached"
    <3>1. s.controller \in Attaches /\ socket[s.controller] \in {"open", "closing"}
      BY <2>2, SessionFields DEF SocketsStand
    <3>2. ~SocketCloses(s.controller)
      BY <1>2, <2>2 DEF SocketCloses, Drop
    <3> QED
      BY <3>1, <3>2, SocketMoves
  <2> QED
    BY <1>2, <2>1, <2>2, SessionMoves
<1> QED
  BY <1>1, <1>2 DEF SocketsStand

LEMMA OneAtATimeStep ==
  ASSUME TypeOK, OneAtATime, [Next]_vars
  PROVE  OneAtATime'
<1> SUFFICES ASSUME NEW a \in Attaches
             PROVE  /\ attach'[a] \in {"idle", "reading", "opening", "preparing"}
                         => \A t \in Targets : ~Offered(a, t)'
                    /\ attach'[a] \in {"attaching", "enabling"} =>
                         \A t, u \in left'[a] : Offered(a, t)' /\ Offered(a, u)' => t = u
                    /\ attach'[a] = "enabling" => \E t \in left'[a] : Offered(a, t)'
  BY DEF OneAtATime
<1>0. /\ \A t \in Targets : Asked(a, t) \in Sessions
      /\ left[a] \subseteq Targets /\ left'[a] \subseteq Targets
      /\ attach \in [Attaches -> {"idle", "reading", "opening", "preparing", "attaching", "enabling",
                                  "answered", "refused"}]
      /\ left \in [Attaches -> SUBSET Targets] /\ targets \in SUBSET Targets
  BY AskedFields, TypeParts, ServerTypeStep DEF ServerType
<1>1. \A t \in Targets : Offered(a, t) => Offered(a, t)'
  BY <1>0, SessionMoves DEF Offered
<1>2. CASE \A t \in Targets : Offered(a, t)' => Offered(a, t)
  <2>1. CASE attach'[a] = attach[a] /\ left'[a] = left[a]
    BY <1>0, <1>1, <1>2, <2>1 DEF OneAtATime
  <2>2. CASE CallStep(a)
    <3>1. CASE AttachGoesOn(a)
      BY <1>0, <1>1, <1>2, <3>1 DEF OneAtATime, AttachGoesOn
    <3>2. CASE \E t \in Targets : AttachAnswered(a, t) \/ AttachToFails(a, t)
      BY <1>0, <1>1, <1>2, <3>2 DEF OneAtATime, AttachAnswered, AttachToFails, Offered
    <3>3. CASE \/ Accept(a) \/ BeginAttach(a) \/ SocketOpens(a) \/ Prepared(a) \/ AttachFails(a)
               \/ AttachDone(a)
      BY <1>0, <1>1, <1>2, <3>3
         DEF OneAtATime, Accept, BeginAttach, SocketOpens, Prepared, AttachFails, AttachDone
    <3>4. CASE Pending(a) /\ Terminate
      <4>1. attach'[a] = "refused"
        BY <1>0, <3>4 DEF Terminate
      <4> QED
        BY <4>1
    <3> QED
      BY <2>2, <3>1, <3>2, <3>3, <3>4 DEF CallStep
  <2> QED
    BY <2>1, <2>2, CallTouched
<1>3. ASSUME NEW t \in Targets, ~Offered(a, t), Offered(a, t)'
      PROVE  /\ attach[a] = "attaching" /\ attach'[a] = attach[a] /\ left'[a] = left[a]
             /\ \A u \in left[a] : ~Offered(a, u)
             /\ \A u \in Targets : Offered(a, u)' => Offered(a, u) \/ u = t
  <2>1. BrowserAttaches(Asked(a, t))
    BY <1>0, <1>3, SessionMoves DEF Offered
  <2>2. Asked(a, t).how = "asked" /\ Asked(a, t).controller = a
    BY DEF Asked
  <2>3. \A u \in Targets : Asked(a, u) = Asked(a, t) => u = t
    BY DEF Asked
  <2> QED
    BY <1>0, <2>1, <2>2, <2>3, TypeParts
       DEF BrowserAttaches, Offered, attachVars, SessionType
<1> QED
  BY <1>0, <1>2, <1>3

LEMMA CallInvariant == Spec => []CallInv
<1>1. Init => SocketsMade /\ Ended /\ SocketsStand /\ OneAtATime
  BY AskedFields DEF Init, SocketsMade, Ended, SocketsStand, OneAtATime, Offered
<1>2. /\ TypeOK /\ OneController /\ SocketsMade /\ Ended /\ SocketsStand /\ OneAtATime
      /\ [Next]_vars
      => Ended' /\ SocketsStand' /\ OneAtATime'
  BY EndedStep, SocketsStandStep, OneAtATimeStep
<1>3. TypeOK /\ SocketsMade /\ Ended /\ SocketsStand /\ OneAtATime => CallInv
  BY DEF CallInv
<1> QED
  BY <1>1, <1>2, <1>3, ControllerInvariant, PTL DEF Spec

-----------------------------------------------------------------------------
(* No call of /attach waits in vain *)

\* Where a call stands.
AtPlace(a, stage, S) == attach[a] = stage /\ left[a] = S

\* What is due for a call: each of these guards enables the action of its name.
BeginDue(a) == attach[a] = "reading"
OpenDue(a) == attach[a] = "opening"
PrepareDue(a) == attach[a] = "preparing" /\ socket[a] = "open"
RefuseDue(a) ==
  (attach[a] = "reading" /\ a \in deserted) \/ (attach[a] = "preparing" /\ socket[a] = "closed")
DoneDue(a) == attach[a] = "attaching" /\ left[a] = {}
GoOnDue(a) == attach[a] = "enabling" /\ \E t \in left[a] : Offered(a, t) /\ ~Awaited(a, t)

\* And for target u of the call: the browser attaches the session that was asked for, its
\* answer is handled, the target is passed over, Fetch.enable is executed or refused.
OfferDue(a, u) ==
  /\ attach[a] = "attaching" /\ socket[a] = "open" /\ u \in left[a] \cap targets
  /\ \A t \in left[a] : ~Offered(a, t)
AnsweredDue(a, u) ==
  attach[a] = "attaching" /\ socket[a] = "open" /\ u \in left[a] /\ Offered(a, u)
SkipDue(a, u) ==
  attach[a] = "attaching" /\ u \in left[a] /\ (u \notin targets \/ socket[a] = "closed")
EnableDue(a, u) ==
  /\ enabling[Asked(a, u)] # "none" /\ socket[a] \in {"open", "closing"}
  /\ session[Asked(a, u)] = "attached"
RefusedDue(a, u) == Alive /\ Awaited(a, u) /\ session[Asked(a, u)] # "attached"

\* The fairness of NetworkControl about a call, with the guards written out.
Attended(a) ==
  /\ []<>~BeginDue(a) \/ []<><<BeginAttach(a)>>_vars
  /\ []<>~OpenDue(a) \/ []<><<SocketOpens(a)>>_vars
  /\ []<>~PrepareDue(a) \/ []<><<Prepared(a)>>_vars
  /\ []<>~RefuseDue(a) \/ []<><<NoFault /\ AttachFails(a)>>_vars
  /\ []<>~DoneDue(a) \/ []<><<AttachDone(a)>>_vars
  /\ []<>~GoOnDue(a) \/ []<><<AttachGoesOn(a)>>_vars
  /\ Closes(a)

AttendedFor(a, u) ==
  /\ []<>~OfferDue(a, u) \/ []<><<BrowserAttaches(Asked(a, u))>>_vars
  /\ []<>~AnsweredDue(a, u) \/ []<><<AttachAnswered(a, u)>>_vars
  /\ []<>~SkipDue(a, u) \/ []<><<NoFault /\ AttachToFails(a, u)>>_vars
  /\ []<>~EnableDue(a, u) \/ []<><<BrowserEnables(Asked(a, u))>>_vars
  /\ []<>~RefusedDue(a, u) \/ []<><<NoFault /\ EnableFails(Asked(a, u))>>_vars

\* The steps of a call take it elsewhere.
LEMMA CallLeaves ==
  ASSUME TypeOK, NEW a \in Attaches, NEW stage, NEW S, AtPlace(a, stage, S), CallStep(a)
  PROVE  ~AtPlace(a, stage, S)'
<1> USE TypeParts DEF ServerType, AtPlace
<1>1. CASE \/ Accept(a) \/ BeginAttach(a) \/ SocketOpens(a) \/ Prepared(a) \/ AttachFails(a)
           \/ AttachDone(a)
  BY <1>1 DEF Accept, BeginAttach, SocketOpens, Prepared, AttachFails, AttachDone
<1>2. CASE AttachGoesOn(a)
  BY <1>2 DEF AttachGoesOn
<1>3. CASE \E t \in Targets : AttachAnswered(a, t) \/ AttachToFails(a, t)
  BY <1>3 DEF AttachAnswered, AttachToFails
<1>4. CASE Pending(a) /\ Terminate
  BY <1>4 DEF Terminate, Pending, Underway
<1> QED
  BY <1>1, <1>2, <1>3, <1>4 DEF CallStep

LEMMA ReadingEnds ==
  ASSUME NEW a \in Attaches, NEW S
  PROVE  Spec /\ Attended(a) => (AtPlace(a, "reading", S) ~> ~AtPlace(a, "reading", S))
<1>1. AtPlace(a, "reading", S) => BeginDue(a)
  BY DEF AtPlace, BeginDue
<1>2. CallInv /\ AtPlace(a, "reading", S) /\ <<BeginAttach(a)>>_vars => ~AtPlace(a, "reading", S)'
  BY CallLeaves DEF CallInv, CallStep
<1> QED
  BY <1>1, <1>2, CallInvariant, PTL DEF Spec, Attended

LEMMA OpeningEnds ==
  ASSUME NEW a \in Attaches, NEW S
  PROVE  Spec /\ Attended(a) => (AtPlace(a, "opening", S) ~> ~AtPlace(a, "opening", S))
<1>1. AtPlace(a, "opening", S) => OpenDue(a)
  BY DEF AtPlace, OpenDue
<1>2. CallInv /\ AtPlace(a, "opening", S) /\ <<SocketOpens(a)>>_vars => ~AtPlace(a, "opening", S)'
  BY CallLeaves DEF CallInv, CallStep
<1> QED
  BY <1>1, <1>2, CallInvariant, PTL DEF Spec, Attended

LEMMA PreparingEnds ==
  ASSUME NEW a \in Attaches, NEW S
  PROVE  Spec /\ Attended(a) => (AtPlace(a, "preparing", S) ~> ~AtPlace(a, "preparing", S))
<1>1. CallInv /\ AtPlace(a, "preparing", S) => PrepareDue(a) \/ RefuseDue(a) \/ CloseDue(a)
  BY DEF CallInv, SocketsStand, AtPlace, PrepareDue, RefuseDue, CloseDue
<1>2. CallInv /\ AtPlace(a, "preparing", S) /\ [Next]_vars /\ AtPlace(a, "preparing", S)'
        => /\ PrepareDue(a) => PrepareDue(a)' \/ CloseDue(a)' \/ RefuseDue(a)'
           /\ CloseDue(a) => CloseDue(a)' \/ RefuseDue(a)'
           /\ RefuseDue(a) => RefuseDue(a)'
  BY SocketMoves, TypeParts
     DEF CallInv, ServerType, AtPlace, PrepareDue, RefuseDue, CloseDue, SocketCloses
<1>3. CallInv /\ AtPlace(a, "preparing", S)
        => /\ <<Prepared(a)>>_vars => ~AtPlace(a, "preparing", S)'
           /\ <<NoFault /\ AttachFails(a)>>_vars => ~AtPlace(a, "preparing", S)'
  BY CallLeaves DEF CallInv, CallStep
<1>4. CallInv /\ AtPlace(a, "preparing", S) /\ <<NoFault /\ SocketCloses(a)>>_vars
        => RefuseDue(a)'
  BY TypeParts DEF CallInv, ServerType, AtPlace, SocketCloses, RefuseDue, attachVars
<1> QED
  BY <1>1, <1>2, <1>3, <1>4, CallInvariant, PTL DEF Spec, Attended, Closes

LEMMA TargetsShrink == [Next]_vars => targets' \subseteq targets
<1>1. CASE ServerStep
  BY <1>1 DEF ServerStep, Accept, ClientGivesUp, Terminate, BeginAttach, SocketOpens, Prepared, AttachFails, AttachDone,
              AttachGoesOn, AttachAnswered, AttachToFails, Stop, ServerClosed, sessionVars
<1>2. CASE SessionStep
  BY <1>2 DEF SessionStep, BrowserAttaches, DetachedEvent, BrowserEnables, EnableFails,
              SocketCloses, DestroyTarget, sessionVars
<1>3. CASE PauseStep
  BY <1>3 DEF PauseStep, PauseRequest, PausedEvent, FetchEnds, BrowserExecutes,
              CommandAnswered, CommandFails, sessionVars
<1>4. CASE UNCHANGED vars
  BY <1>4 DEF vars
<1> QED
  BY <1>1, <1>2, <1>3, <1>4 DEF Next

\* One of the targets left has been attached to, and the call has yet to hear of it.
SomeAnswered(a, S) == \E u \in S : AnsweredDue(a, u)

\* A call that has targets left: what is due for it and for one of them, u.
LEMMA AttachingStep ==
  ASSUME CallInv, NEW a \in Attaches, NEW S, NEW u \in S, AtPlace(a, "attaching", S)
  PROVE  /\ SkipDue(a, u) \/ CloseDue(a) \/ OfferDue(a, u) \/ SomeAnswered(a, S)
         /\ [Next]_vars /\ AtPlace(a, "attaching", S)'
              => /\ SkipDue(a, u) => SkipDue(a, u)'
                 /\ CloseDue(a) => CloseDue(a)' \/ SkipDue(a, u)'
                 /\ AnsweredDue(a, u) => AnsweredDue(a, u)' \/ CloseDue(a)' \/ SkipDue(a, u)'
                 /\ OfferDue(a, u) => \/ OfferDue(a, u)' \/ CloseDue(a)' \/ SkipDue(a, u)'
                                      \/ SomeAnswered(a, S)'
         /\ <<NoFault /\ AttachToFails(a, u)>>_vars => ~AtPlace(a, "attaching", S)'
         /\ <<AttachAnswered(a, u)>>_vars => ~AtPlace(a, "attaching", S)'
         /\ <<NoFault /\ SocketCloses(a)>>_vars => SkipDue(a, u)'
         /\ <<BrowserAttaches(Asked(a, u))>>_vars => SomeAnswered(a, S)'
<1>0. /\ left[a] = S /\ attach[a] = "attaching" /\ S \subseteq Targets /\ u \in Targets
      /\ Asked(a, u) \in Sessions /\ Asked(a, u).controller = a
      /\ TypeOK /\ SocketsMade /\ socket[a] \in {"open", "closing", "closed"}
  BY AskedFields, TypeParts DEF CallInv, AtPlace, ServerType, SocketsStand
<1>1. SkipDue(a, u) \/ CloseDue(a) \/ OfferDue(a, u) \/ SomeAnswered(a, S)
  BY <1>0 DEF SkipDue, CloseDue, OfferDue, SomeAnswered, AnsweredDue
<1>2. ASSUME [Next]_vars, AtPlace(a, "attaching", S)'
      PROVE  /\ SkipDue(a, u) => SkipDue(a, u)'
             /\ CloseDue(a) => CloseDue(a)' \/ SkipDue(a, u)'
             /\ AnsweredDue(a, u) => AnsweredDue(a, u)' \/ CloseDue(a)' \/ SkipDue(a, u)'
             /\ OfferDue(a, u) => \/ OfferDue(a, u)' \/ CloseDue(a)' \/ SkipDue(a, u)'
                                  \/ SomeAnswered(a, S)'
  <2>1. left'[a] = S /\ attach'[a] = "attaching" /\ targets' \subseteq targets
    BY <1>2, TargetsShrink DEF AtPlace
  <2>2. /\ socket[a] = "closing" => socket'[a] \in {"closing", "closed"}
        /\ socket[a] = "closed" => socket'[a] = "closed"
        /\ socket[a] = "open" => socket'[a] \in {"open", "closing", "closed"}
    BY <1>0, <1>2, SocketMoves, TypeParts DEF SocketCloses, ServerType
  <2>3. \A t \in S : Offered(a, t) => Offered(a, t)'
    BY <1>0, <1>2, AskedFields, SessionMoves DEF Offered
  <2>4. SkipDue(a, u) => SkipDue(a, u)'
    BY <1>0, <2>1, <2>2 DEF SkipDue
  <2>5. CloseDue(a) => CloseDue(a)' \/ SkipDue(a, u)'
    BY <1>0, <2>1, <2>2 DEF CloseDue, SkipDue
  <2>6. AnsweredDue(a, u) => AnsweredDue(a, u)' \/ CloseDue(a)' \/ SkipDue(a, u)'
    BY <1>0, <2>1, <2>2, <2>3 DEF AnsweredDue, CloseDue, SkipDue
  <2>7. OfferDue(a, u) => \/ OfferDue(a, u)' \/ CloseDue(a)' \/ SkipDue(a, u)'
                          \/ SomeAnswered(a, S)'
    BY <1>0, <2>1, <2>2, <2>3 DEF OfferDue, CloseDue, SkipDue, SomeAnswered, AnsweredDue
  <2> QED
    BY <2>4, <2>5, <2>6, <2>7
<1>3. AttachToFails(a, u) \/ AttachAnswered(a, u) => ~AtPlace(a, "attaching", S)'
  BY <1>0, CallLeaves DEF CallStep
<1>4. ASSUME SocketCloses(a) PROVE SkipDue(a, u)'
  BY <1>0, <1>4, TypeParts DEF SocketCloses, SkipDue, ServerType, attachVars
<1>5. ASSUME BrowserAttaches(Asked(a, u)) PROVE SomeAnswered(a, S)'
  <2>1. /\ socket' = socket /\ UNCHANGED <<attach, left>> /\ socket[a] = "open"
        /\ session' = [session EXCEPT ![Asked(a, u)] = "attached"]
    BY <1>0, <1>5 DEF BrowserAttaches, attachVars
  <2>2. Offered(a, u)'
    BY <1>0, <2>1, TypeParts DEF Offered, SessionType
  <2> QED
    BY <1>0, <2>1, <2>2 DEF SomeAnswered, AnsweredDue
<1> QED
  BY <1>1, <1>2, <1>3, <1>4, <1>5

LEMMA AnsweredEnds ==
  ASSUME NEW a \in Attaches, NEW S, NEW u \in S
  PROVE  Spec /\ Attended(a) /\ AttendedFor(a, u)
           => /\ [](AtPlace(a, "attaching", S) /\ AnsweredDue(a, u)
                      => <>~AtPlace(a, "attaching", S))
              /\ [](AtPlace(a, "attaching", S) /\ (SkipDue(a, u) \/ CloseDue(a))
                      => <>~AtPlace(a, "attaching", S))
<1> QED
  BY AttachingStep, CallInvariant, PTL DEF Spec, Attended, AttendedFor, Closes

\* So the call moves on once the browser has answered for one of its targets,
LEMMA SomeAnsweredEnds ==
  ASSUME NEW a \in Attaches, NEW S \in SUBSET Targets
  PROVE  Spec /\ Attended(a) /\ (\A u \in Targets : AttendedFor(a, u))
           => [](AtPlace(a, "attaching", S) /\ SomeAnswered(a, S)
                   => <>~AtPlace(a, "attaching", S))
<1>1. (\A u \in Targets : AttendedFor(a, u)) => (\A u \in S : AttendedFor(a, u))
  OBVIOUS
<1>2. ASSUME Spec, Attended(a), \A u \in S : AttendedFor(a, u)
      PROVE  \A u \in S : [](AtPlace(a, "attaching", S) /\ AnsweredDue(a, u)
                               => <>~AtPlace(a, "attaching", S))
  <2>1. \A u \in S : Spec /\ Attended(a) /\ AttendedFor(a, u)
    BY <1>2
  <2> QED
    BY <2>1, AnsweredEnds
<1>3. (\A u \in S : [](AtPlace(a, "attaching", S) /\ AnsweredDue(a, u)
                         => <>~AtPlace(a, "attaching", S)))
        => [](\A u \in S : AtPlace(a, "attaching", S) /\ AnsweredDue(a, u)
                              => <>~AtPlace(a, "attaching", S))
  OBVIOUS
<1>4. (\A u \in S : AtPlace(a, "attaching", S) /\ AnsweredDue(a, u)
                       => <>~AtPlace(a, "attaching", S))
        => (AtPlace(a, "attaching", S) /\ SomeAnswered(a, S)
              => <>~AtPlace(a, "attaching", S))
  BY DEF SomeAnswered
<1>5. [](\A u \in S : AtPlace(a, "attaching", S) /\ AnsweredDue(a, u)
                         => <>~AtPlace(a, "attaching", S))
        => [](AtPlace(a, "attaching", S) /\ SomeAnswered(a, S)
                => <>~AtPlace(a, "attaching", S))
  BY <1>4, PTL
<1> QED
  BY <1>1, <1>2, <1>3, <1>5

\* and it does move on from every target, offered or not.
LEMMA TargetEnds ==
  ASSUME NEW a \in Attaches, NEW S, NEW u \in S
  PROVE  /\ Spec /\ Attended(a) /\ AttendedFor(a, u)
         /\ [](AtPlace(a, "attaching", S) /\ SomeAnswered(a, S)
                 => <>~AtPlace(a, "attaching", S))
         => (AtPlace(a, "attaching", S) ~> ~AtPlace(a, "attaching", S))
BY AttachingStep, CallInvariant, PTL DEF Spec, Attended, AttendedFor, Closes

LEMMA AttachingEnds ==
  ASSUME NEW a \in Attaches, NEW S \in SUBSET Targets
  PROVE  Spec /\ Attended(a) /\ (\A u \in Targets : AttendedFor(a, u))
           => (AtPlace(a, "attaching", S) ~> ~AtPlace(a, "attaching", S))
<1>1. CASE S = {}
  <2>1. AtPlace(a, "attaching", S) => DoneDue(a)
    BY <1>1 DEF AtPlace, DoneDue
  <2>2. CallInv /\ AtPlace(a, "attaching", S) /\ <<AttachDone(a)>>_vars
          => ~AtPlace(a, "attaching", S)'
    BY CallLeaves DEF CallInv, CallStep
  <2> QED
    BY <2>1, <2>2, CallInvariant, PTL DEF Spec, Attended
<1>2. CASE S # {}
  <2>1. PICK u \in S : TRUE
    BY <1>2
  <2>2. (\A v \in Targets : AttendedFor(a, v)) => AttendedFor(a, u)
    OBVIOUS
  <2> QED
    BY <2>2, SomeAnsweredEnds, TargetEnds
<1> QED
  BY <1>1, <1>2

\* A call that awaits Fetch.enable for target u: the browser executes it or refuses it, and
\* then the call goes on, for nobody sends it again meanwhile.
EnableAwaited(a, u) == EnableDue(a, u) /\ Awaited(a, u)

LEMMA EnablingStep ==
  ASSUME CallInv, NEW a \in Attaches, NEW S, NEW u \in S,
         AtPlace(a, "enabling", S), Offered(a, u)
  PROVE  /\ GoOnDue(a) \/ EnableAwaited(a, u) \/ RefusedDue(a, u)
         /\ [Next]_vars => Offered(a, u)'
         /\ [Next]_vars /\ AtPlace(a, "enabling", S)'
              => /\ GoOnDue(a) => GoOnDue(a)'
                 /\ RefusedDue(a, u) => RefusedDue(a, u)' \/ GoOnDue(a)'
                 /\ EnableAwaited(a, u) => \/ EnableAwaited(a, u)' \/ RefusedDue(a, u)'
                                           \/ GoOnDue(a)'
         /\ <<AttachGoesOn(a)>>_vars => ~AtPlace(a, "enabling", S)'
         /\ <<BrowserEnables(Asked(a, u))>>_vars => GoOnDue(a)'
         /\ <<NoFault /\ EnableFails(Asked(a, u))>>_vars => GoOnDue(a)'
<1> DEFINE s == Asked(a, u)
<1>0. /\ left[a] = S /\ attach[a] = "enabling" /\ S \subseteq Targets /\ u \in Targets
      /\ s \in Sessions /\ s.controller = a /\ session[s] # "none"
      /\ TypeOK /\ SessionType
      /\ session[s] = "attached" => socket[a] \in {"open", "closing"}
      /\ \A t \in S : Offered(a, t) => t = u
      /\ Alive
  BY AskedFields, TypeParts
     DEF CallInv, AtPlace, ServerType, SocketsStand, OneAtATime, Offered, Ended, Alive, Pending,
         Underway
<1>1. GoOnDue(a) \/ EnableAwaited(a, u) \/ RefusedDue(a, u)
  BY <1>0 DEF GoOnDue, EnableAwaited, EnableDue, RefusedDue, Awaited, Offered
<1>2. ASSUME [Next]_vars
      PROVE  /\ session'[s] # "none"
             /\ session'[s] = "attached" => session[s] = "attached"
             /\ enabling'[s] = "sent" => enabling[s] = "sent"
  <2>1. ~BrowserAttaches(s)
    BY <1>0 DEF BrowserAttaches
  <2>2. ~EnableSent(s)
    BY <1>0, <2>1 DEF EnableSent, AttachAnswered
  <2> QED
    BY <1>0, <1>2, <2>1, <2>2, SessionMoves
<1>3. ASSUME [Next]_vars, AtPlace(a, "enabling", S)'
      PROVE  /\ GoOnDue(a) => GoOnDue(a)'
             /\ RefusedDue(a, u) => RefusedDue(a, u)' \/ GoOnDue(a)'
             /\ EnableAwaited(a, u) => \/ EnableAwaited(a, u)' \/ RefusedDue(a, u)'
                                       \/ GoOnDue(a)'
  <2>1. left'[a] = S /\ attach'[a] = "enabling"
    BY <1>3 DEF AtPlace
  <2>2. enabling'[s] # "sent" => GoOnDue(a)'
    BY <1>0, <1>2, <1>3, <2>1 DEF GoOnDue, Offered, Awaited
  <2>3. session'[s] = "attached" => socket'[a] \in {"open", "closing"}
    <3>1. SocketsStand'
      BY <1>3, SocketsStandStep DEF CallInv
    <3> QED
      BY <1>0, <3>1 DEF SocketsStand
  <2>7. Alive'
    <3>1. Ended'
      BY <1>3, EndedStep DEF CallInv
    <3> QED
      BY <2>1, <3>1 DEF Ended, Alive, Pending, Underway
  <2>4. enabling'[s] = "sent" => EnableAwaited(a, u)' \/ RefusedDue(a, u)'
    BY <2>3, <2>7 DEF EnableAwaited, EnableDue, RefusedDue, Awaited
  <2>5. GoOnDue(a) => enabling[s] # "sent"
    BY <1>0 DEF GoOnDue, Awaited
  <2>6. RefusedDue(a, u) /\ enabling'[s] = "sent" => RefusedDue(a, u)'
    BY <1>2, <1>3, <2>7 DEF RefusedDue, Awaited
  <2> HIDE DEF s
  <2> QED
    BY <1>2, <1>3, <2>2, <2>4, <2>5, <2>6
<1>4. AttachGoesOn(a) => ~AtPlace(a, "enabling", S)'
  BY <1>0, CallLeaves DEF CallStep
<1>5. ASSUME BrowserEnables(s) \/ EnableFails(s) PROVE GoOnDue(a)'
  <2>1. UNCHANGED <<attach, left, session>> /\ enabling'[s] # "sent"
    BY <1>0, <1>5, TypeParts
       DEF BrowserEnables, EnableFails, attachVars, sessionVars, SessionType
  <2> QED
    BY <1>0, <2>1 DEF GoOnDue, Offered, Awaited
<1>6. [Next]_vars => Offered(a, u)'
  BY <1>2 DEF Offered
<1> QED
  BY <1>1, <1>3, <1>4, <1>5, <1>6

LEMMA OfferedEnds ==
  ASSUME NEW a \in Attaches, NEW S, NEW u \in S
  PROVE  Spec /\ Attended(a) /\ AttendedFor(a, u)
           => [](AtPlace(a, "enabling", S) /\ Offered(a, u) => <>~AtPlace(a, "enabling", S))
<1>1. EnableAwaited(a, u) => EnableDue(a, u)
  BY DEF EnableAwaited
<1> QED
  BY <1>1, EnablingStep, CallInvariant, PTL DEF Spec, Attended, AttendedFor

LEMMA EnablingEnds ==
  ASSUME NEW a \in Attaches, NEW S \in SUBSET Targets
  PROVE  Spec /\ Attended(a) /\ (\A u \in Targets : AttendedFor(a, u))
           => (AtPlace(a, "enabling", S) ~> ~AtPlace(a, "enabling", S))
<1>1. (\A u \in Targets : AttendedFor(a, u)) => (\A u \in S : AttendedFor(a, u))
  OBVIOUS
<1>2. ASSUME Spec, Attended(a), \A u \in S : AttendedFor(a, u)
      PROVE  \A u \in S : [](AtPlace(a, "enabling", S) /\ Offered(a, u)
                               => <>~AtPlace(a, "enabling", S))
  <2>1. \A u \in S : Spec /\ Attended(a) /\ AttendedFor(a, u)
    BY <1>2
  <2> QED
    BY <2>1, OfferedEnds
<1>3. (\A u \in S : [](AtPlace(a, "enabling", S) /\ Offered(a, u)
                         => <>~AtPlace(a, "enabling", S)))
        => [](\A u \in S : AtPlace(a, "enabling", S) /\ Offered(a, u)
                              => <>~AtPlace(a, "enabling", S))
  OBVIOUS
<1>4. CallInv /\ (\A u \in S : AtPlace(a, "enabling", S) /\ Offered(a, u)
                                  => <>~AtPlace(a, "enabling", S))
        => (AtPlace(a, "enabling", S) => <>~AtPlace(a, "enabling", S))
  <2>1. CallInv /\ AtPlace(a, "enabling", S) => \E u \in S : Offered(a, u)
    BY DEF CallInv, OneAtATime, AtPlace
  <2> QED
    BY <2>1
<1>5. Spec /\ [](\A u \in S : AtPlace(a, "enabling", S) /\ Offered(a, u)
                                 => <>~AtPlace(a, "enabling", S))
        => (AtPlace(a, "enabling", S) ~> ~AtPlace(a, "enabling", S))
  BY <1>4, CallInvariant, PTL
<1> QED
  BY <1>1, <1>2, <1>3, <1>5

\* connect waits for nothing that may never come: wherever a call of /attach stands, whatever
\* targets it has left and whatever the browser drops, refuses or answers late, it moves on
\* (connect, attachTarget, enableSession and the rejections on a closed socket).
THEOREM CallsMoveOn ==
  ASSUME NEW a \in Attaches,
         NEW stage \in {"reading", "opening", "preparing", "attaching", "enabling"},
         NEW S \in SUBSET Targets
  PROVE  Spec /\ Attended(a) /\ (\A u \in Targets : AttendedFor(a, u))
           => (AtPlace(a, stage, S) ~> ~AtPlace(a, stage, S))
<1>1. CASE stage = "opening"
  <2>1. AtPlace(a, stage, S) <=> AtPlace(a, "opening", S)
    BY <1>1
  <2> QED
    BY <2>1, OpeningEnds, PTL
<1>2. CASE stage = "preparing"
  <2>1. AtPlace(a, stage, S) <=> AtPlace(a, "preparing", S)
    BY <1>2
  <2> QED
    BY <2>1, PreparingEnds, PTL
<1>3. CASE stage = "attaching"
  <2>1. AtPlace(a, stage, S) <=> AtPlace(a, "attaching", S)
    BY <1>3
  <2> QED
    BY <2>1, AttachingEnds, PTL
<1>4. CASE stage = "enabling"
  <2>1. AtPlace(a, stage, S) <=> AtPlace(a, "enabling", S)
    BY <1>4
  <2> QED
    BY <2>1, EnablingEnds, PTL
<1>5. CASE stage = "reading"
  <2>1. AtPlace(a, stage, S) <=> AtPlace(a, "reading", S)
    BY <1>5
  <2> QED
    BY <2>1, ReadingEnds, PTL
<1> QED
  BY <1>1, <1>2, <1>3, <1>4, <1>5

\* How a call may move: to an end, to the next stage, or to fewer targets.
Onward(a) ==
  \/ ~Pending(a)'
  \/ attach'[a] = attach[a] /\ left'[a] = left[a]
  \/ attach[a] = "reading" /\ attach'[a] = "opening"
  \/ attach[a] = "opening" /\ attach'[a] = "preparing"
  \/ attach[a] = "preparing" /\ attach'[a] = "attaching"
  \/ attach[a] = "attaching" /\ attach'[a] = "enabling" /\ left'[a] = left[a]
  \/ /\ attach[a] \in {"attaching", "enabling"} /\ attach'[a] = "attaching"
     /\ left'[a] \subseteq left[a] /\ left'[a] # left[a]

\* A call of /attach never comes back to where it stood: a target it has dealt with is not
\* attached to again, and no failure makes it start over (the loop of connect).
THEOREM CallsGoOnward ==
  Spec => [][\A a \in Attaches : Pending(a) => Onward(a)]_vars
<1>1. ASSUME TypeOK, [Next]_vars, NEW a \in Attaches, Pending(a)
      PROVE  Onward(a)
  <2> USE TypeParts DEF ServerType, Onward, Pending, Underway
  <2>1. CASE attach'[a] = attach[a] /\ left'[a] = left[a]
    BY <2>1
  <2>2. CASE \/ Accept(a) \/ BeginAttach(a) \/ SocketOpens(a) \/ Prepared(a) \/ AttachFails(a)
             \/ AttachDone(a) \/ Terminate
    BY <1>1, <2>2 DEF Accept, Terminate, BeginAttach, SocketOpens, Prepared, AttachFails, AttachDone
  <2>3. CASE AttachGoesOn(a)
    BY <1>1, <2>3 DEF AttachGoesOn
  <2>4. CASE \E t \in Targets : AttachAnswered(a, t) \/ AttachToFails(a, t)
    BY <1>1, <2>4 DEF AttachAnswered, AttachToFails
  <2> QED
    BY <1>1, <2>1, <2>2, <2>3, <2>4, CallTouched DEF CallStep
<1>2. TypeOK /\ [Next]_vars => \A a \in Attaches : Pending(a) => Onward(a)
  BY <1>1
<1> QED
  BY <1>2, TypeCorrect, PTL DEF Spec

=============================================================================
