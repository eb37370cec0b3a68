------------------------ MODULE NetworkControl_proofs ------------------------
(***************************************************************************)
(* Proofs about NetworkControl, for every value of its constants: any      *)
(* number of calls of /attach, targets, paused requests and failures.      *)
(***************************************************************************)
EXTENDS NetworkControl, TLAPS

-----------------------------------------------------------------------------
(* Types *)

LEMMA PauseFields ==
  ASSUME NEW p \in Pauses
  PROVE  p.target \in Targets /\ p.kind \in Kinds
BY ControlAssumption DEF Pause

LEMMA SessionFields ==
  ASSUME NEW s \in Sessions
  PROVE  s.controller \in Attaches /\ s.target \in Targets /\ s.how \in {"auto", "asked"}
BY DEF Sessions

LEMMA AskedFields ==
  ASSUME NEW a \in Attaches, NEW t \in Targets
  PROVE  /\ Asked(a, t) \in Sessions
         /\ Asked(a, t).controller = a /\ Asked(a, t).target = t
BY DEF Asked, Sessions

LEMMA NoneIsNone == None \notin Sessions /\ None \notin Attaches
BY ControlAssumption

\* TypeOK in parts: the server, the sessions, the paused requests.
ServerType ==
  /\ attach \in [Attaches -> {"idle", "reading", "opening", "preparing", "attaching", "enabling",
                              "answered", "refused"}]
  /\ left \in [Attaches -> SUBSET Targets]
  /\ controller \in Attaches \cup {None}
  /\ socket \in [Attaches -> {"none", "open", "closing", "closed", "abandoned"}]
  /\ targets \in SUBSET Targets

SessionType ==
  /\ session \in [Sessions -> {"none", "attached", "gone", "detached"}]
  /\ targetSession \in [Attaches -> [Targets -> Sessions \cup {None}]]
  /\ sessionEnables \in SUBSET Sessions
  /\ enabling \in [Sessions -> {"none", "sent", "abandoned"}]
  /\ intercepting \in SUBSET Sessions
  /\ givenUp \in SUBSET Sessions

PauseType ==
  /\ paused \in [Pauses -> Sessions \cup {None}]
  /\ handler \in [Pauses -> {"none", "fetching", "trying", "caught", "over"}]
  /\ commands \in [Pauses -> Seq(Commands)]
  /\ executed \in [Pauses -> Nat]
  /\ reply \in [Pauses -> {"ok", "error"}]
  /\ resolution \in [Pauses -> Resolutions \cup {None}]

OtherType ==
  /\ server \in {"serving", "stopping", "closed", "dead"} /\ deserted \in SUBSET Attaches
  /\ overlapped \in BOOLEAN /\ faults \in 0..MaxFaults

LEMMA TypeParts == TypeOK <=> ServerType /\ SessionType /\ PauseType /\ OtherType
BY Zenon DEF TypeOK, ServerType, SessionType, PauseType, OtherType

LEMMA ServerTypeStep == ServerType /\ [Next]_vars => ServerType'
<1> SUFFICES ASSUME ServerType, [Next]_vars PROVE ServerType'
  OBVIOUS
<1> USE DEF ServerType, attachVars, sessionVars, Hang, CloseOld
<1>1. ASSUME NEW a \in Attaches,
             \/ Accept(a) \/ ClientGivesUp(a) \/ BeginAttach(a) \/ SocketOpens(a) \/ Prepared(a)
             \/ AttachFails(a)
      PROVE  ServerType'
  BY <1>1 DEF Accept, ClientGivesUp, BeginAttach, SocketOpens, Prepared, AttachFails
<1>2. ASSUME NEW a \in Attaches, AttachDone(a) \/ AttachGoesOn(a) \/ SocketCloses(a)
      PROVE  ServerType'
  BY <1>2 DEF AttachDone, AttachGoesOn, SocketCloses
<1>3. ASSUME NEW a \in Attaches, NEW t \in Targets, AttachAnswered(a, t) \/ AttachToFails(a, t)
      PROVE  ServerType'
  BY <1>3 DEF AttachAnswered, AttachToFails
<1>4. CASE Stop \/ ServerClosed \/ Terminate
  BY <1>4 DEF Stop, ServerClosed, Terminate
<1>5. ASSUME NEW s \in Sessions,
             BrowserAttaches(s) \/ DetachedEvent(s) \/ BrowserEnables(s) \/ EnableFails(s)
      PROVE  ServerType'
  BY <1>5 DEF BrowserAttaches, DetachedEvent, BrowserEnables, EnableFails
<1>6. ASSUME NEW t \in Targets, DestroyTarget(t) PROVE ServerType'
  BY <1>6 DEF DestroyTarget
<1>7. CASE PauseStep
  BY <1>7 DEF PauseStep, PauseRequest, PausedEvent, FetchEnds, BrowserExecutes, CommandAnswered,
              CommandFails
<1>8. CASE UNCHANGED vars
  BY <1>8 DEF vars
<1> QED
  BY <1>1, <1>2, <1>3, <1>4, <1>5, <1>6, <1>7, <1>8 DEF Next, ServerStep, SessionStep


LEMMA EnableType ==
  ASSUME SessionType, NEW s \in Sessions, EnableTarget(s)
  PROVE  /\ targetSession' \in [Attaches -> [Targets -> Sessions \cup {None}]]
         /\ sessionEnables' \in SUBSET Sessions
         /\ enabling' \in [Sessions -> {"none", "sent", "abandoned"}]
         /\ givenUp' = givenUp
<1> DEFINE a == s.controller
           t == s.target
<1>1. a \in Attaches /\ t \in Targets
  BY SessionFields
<1>2. \E held \in Sessions \cup {None} :
        targetSession' = [targetSession EXCEPT ![a] = [@ EXCEPT ![t] = held]]
  <2>1. targetSession[a][t] \in Sessions \cup {None}
    BY <1>1 DEF SessionType
  <2>2. CASE targetSession[a][t] \notin {None, s} \/ s \in sessionEnables
    <3>1. targetSession' = [targetSession EXCEPT
                             ![a] = [@ EXCEPT ![t] = IF targetSession[a][t] = None THEN s
                                                     ELSE targetSession[a][t]]]
      BY <2>2 DEF EnableTarget
    <3> QED
      BY <2>1, <3>1
  <2>3. CASE ~(targetSession[a][t] \notin {None, s} \/ s \in sessionEnables)
    <3>1. targetSession' = [targetSession EXCEPT ![a] = [@ EXCEPT ![t] = s]]
      BY <2>3 DEF EnableTarget
    <3> QED
      BY <3>1
  <2> QED
    BY <2>2, <2>3
<1>3. targetSession' \in [Attaches -> [Targets -> Sessions \cup {None}]]
  BY <1>1, <1>2 DEF SessionType
<1>4. sessionEnables' \in SUBSET Sessions /\ givenUp' = givenUp
  BY DEF SessionType, EnableTarget
<1>5. enabling' = enabling \/ enabling' = [enabling EXCEPT ![s] = "sent"]
  BY DEF EnableTarget
<1> QED
  BY <1>3, <1>4, <1>5 DEF SessionType

LEMMA ForgetType ==
  ASSUME SessionType, NEW s \in Sessions, Forget(s)
  PROVE  /\ targetSession' \in [Attaches -> [Targets -> Sessions \cup {None}]]
         /\ sessionEnables' \in SUBSET Sessions
BY SessionFields DEF SessionType, Forget

LEMMA DropType ==
  ASSUME SessionType, NEW gone, Drop(gone)
  PROVE  /\ session' \in [Sessions -> {"none", "attached", "gone", "detached"}]
         /\ intercepting' \in SUBSET Sessions
BY DEF SessionType, Drop

\* Only these steps touch the sessions.
LEMMA SessionTouched ==
  ASSUME [Next]_vars
  PROVE  \/ UNCHANGED <<session, enableVars, intercepting>>
         \/ \E s \in Sessions :
              BrowserAttaches(s) \/ DetachedEvent(s) \/ BrowserEnables(s) \/ EnableFails(s)
         \/ \E a \in Attaches, t \in Targets : AttachAnswered(a, t)
         \/ \E gone \in SUBSET Sessions : Drop(gone) /\ UNCHANGED enableVars
<1>1. CASE ServerStep
  BY <1>1 DEF ServerStep, BeginAttach, SocketOpens, Prepared, AttachFails, AttachDone,
              AttachGoesOn, AttachToFails, Stop, ServerClosed, Terminate, Accept, ClientGivesUp,
              sessionVars
<1>2. CASE SessionStep
  <2>1. ASSUME NEW a \in Attaches, SocketCloses(a)
        PROVE  \E gone \in SUBSET Sessions : Drop(gone) /\ UNCHANGED enableVars
    BY <2>1 DEF SocketCloses
  <2>2. ASSUME NEW t \in Targets, DestroyTarget(t)
        PROVE  \E gone \in SUBSET Sessions : Drop(gone) /\ UNCHANGED enableVars
    BY <2>2 DEF DestroyTarget
  <2> QED
    BY <1>2, <2>1, <2>2 DEF SessionStep
<1>3. CASE PauseStep
  BY <1>3 DEF PauseStep, PauseRequest, PausedEvent, FetchEnds, BrowserExecutes, CommandAnswered,
              CommandFails, sessionVars
<1>4. CASE UNCHANGED vars
  BY <1>4 DEF vars, enableVars
<1> QED
  BY <1>1, <1>2, <1>3, <1>4 DEF Next

LEMMA SessionTypeStep == SessionType /\ [Next]_vars => SessionType'
<1> SUFFICES ASSUME SessionType, [Next]_vars PROVE SessionType'
  OBVIOUS
<1>1. CASE UNCHANGED <<session, enableVars, intercepting>>
  BY <1>1 DEF SessionType, enableVars
<1>2. ASSUME NEW s \in Sessions, BrowserAttaches(s) PROVE SessionType'
  BY <1>2, EnableType DEF BrowserAttaches, SessionType
<1>3. ASSUME NEW s \in Sessions, DetachedEvent(s) PROVE SessionType'
  BY <1>3, ForgetType DEF DetachedEvent, SessionType
<1>4. ASSUME NEW s \in Sessions, BrowserEnables(s) PROVE SessionType'
  BY <1>4 DEF BrowserEnables, SessionType, sessionVars
<1>5. ASSUME NEW s \in Sessions, EnableFails(s) PROVE SessionType'
  BY <1>5, ForgetType DEF EnableFails, SessionType, sessionVars
<1>6. ASSUME NEW a \in Attaches, NEW t \in Targets, AttachAnswered(a, t) PROVE SessionType'
  BY <1>6, EnableType, AskedFields DEF AttachAnswered, SessionType, sessionVars
<1>7. ASSUME NEW gone \in SUBSET Sessions, Drop(gone), UNCHANGED enableVars PROVE SessionType'
  BY <1>7, DropType DEF SessionType, enableVars
<1> QED
  BY <1>1, <1>2, <1>3, <1>4, <1>5, <1>6, <1>7, SessionTouched

\* What the handler of a paused request and the browser do to it, request by request.
Sends(p) ==
  \/ \E command \in Commands, stage \in {"trying", "caught"} : Send(p, command, stage)
  \/ \E stage \in {"fetching", "over"} :
       handler' = [handler EXCEPT ![p] = stage] /\ UNCHANGED commands

LEMMA HandlersSend ==
  ASSUME NEW p \in Pauses, PausedEvent(p) \/ FetchEnds(p) \/ CommandAnswered(p) \/ CommandFails(p)
  PROVE  Sends(p) /\ UNCHANGED <<paused, browserVars>>
<1> USE DEF Sends, Commands
<1>1. CASE PausedEvent(p)
  <2>1. p.kind \in Kinds
    BY PauseFields
  <2>2. Sends(p)
    BY <1>1, <2>1 DEF PausedEvent, Begin, Kinds
  <2> QED
    BY <1>1, <2>2 DEF PausedEvent
<1>2. CASE FetchEnds(p)
  BY <1>2 DEF FetchEnds, Caught
<1>3. CASE CommandAnswered(p)
  BY <1>3 DEF CommandAnswered, Caught, Over
<1>4. CASE CommandFails(p)
  BY <1>4 DEF CommandFails, Fail, Caught, Over
<1> QED
  BY <1>1, <1>2, <1>3, <1>4

LEMMA PauseTouched ==
  ASSUME [Next]_vars
  PROVE  \/ UNCHANGED <<paused, handlerVars, browserVars>>
         \/ \E p \in Pauses :
              \/ \E s \in Sessions : PauseRequest(p, s)
              \/ PausedEvent(p) \/ FetchEnds(p) \/ BrowserExecutes(p)
              \/ CommandAnswered(p) \/ CommandFails(p)
         \/ \E gone \in SUBSET Sessions :
              Drop(gone) /\ UNCHANGED <<paused, handlerVars, executed, reply>>
<1>1. CASE ServerStep
  BY <1>1 DEF ServerStep, Accept, ClientGivesUp, BeginAttach, SocketOpens, Prepared, AttachFails,
              AttachDone, AttachGoesOn, AttachAnswered, AttachToFails, Stop, ServerClosed, Terminate
<1>2. CASE SessionStep
  <2>1. ASSUME NEW a \in Attaches, SocketCloses(a)
        PROVE  \E gone \in SUBSET Sessions : Drop(gone) /\ UNCHANGED <<paused, handlerVars, executed, reply>>
    BY <2>1 DEF SocketCloses
  <2>2. ASSUME NEW t \in Targets, DestroyTarget(t)
        PROVE  \E gone \in SUBSET Sessions : Drop(gone) /\ UNCHANGED <<paused, handlerVars, executed, reply>>
    BY <2>2 DEF DestroyTarget
  <2> QED
    BY <1>2, <2>1, <2>2 DEF SessionStep, BrowserAttaches, DetachedEvent, BrowserEnables, EnableFails
<1>3. CASE PauseStep
  BY <1>3 DEF PauseStep
<1>4. CASE UNCHANGED vars
  BY <1>4 DEF vars, handlerVars, browserVars
<1> QED
  BY <1>1, <1>2, <1>3, <1>4 DEF Next

LEMMA PauseTypeStep == PauseType /\ [Next]_vars => PauseType'
<1> SUFFICES ASSUME PauseType, [Next]_vars PROVE PauseType'
  OBVIOUS
<1>1. CASE UNCHANGED <<paused, handlerVars, browserVars>>
  BY <1>1 DEF PauseType, handlerVars, browserVars
<1>2. ASSUME NEW p \in Pauses, NEW s \in Sessions, PauseRequest(p, s) PROVE PauseType'
  BY <1>2 DEF PauseRequest, PauseType, handlerVars, browserVars
<1>3. ASSUME NEW p \in Pauses,
             PausedEvent(p) \/ FetchEnds(p) \/ CommandAnswered(p) \/ CommandFails(p)
      PROVE  PauseType'
  <2>0. Sends(p) /\ UNCHANGED <<paused, browserVars>>
    BY <1>3, HandlersSend
  <2>1. /\ handler' \in [Pauses -> {"none", "fetching", "trying", "caught", "over"}]
        /\ commands' \in [Pauses -> Seq(Commands)]
    <3>1. ASSUME NEW command \in Commands, NEW stage \in {"trying", "caught"}, Send(p, command, stage)
          PROVE  /\ handler' \in [Pauses -> {"none", "fetching", "trying", "caught", "over"}]
                 /\ commands' \in [Pauses -> Seq(Commands)]
      <4>1. Append(commands[p], command) \in Seq(Commands)
        BY DEF PauseType
      <4>2. commands' = [commands EXCEPT ![p] = Append(commands[p], command)]
        BY <3>1 DEF Send
      <4> QED
        BY <3>1, <4>1, <4>2 DEF PauseType, Send
    <3> QED
      BY <2>0, <3>1 DEF PauseType, Sends
  <2> QED
    BY <2>0, <2>1 DEF PauseType, browserVars
<1>4. ASSUME NEW p \in Pauses, BrowserExecutes(p) PROVE PauseType'
  <2>1. executed[p] + 1 \in 1..Len(commands[p])
    BY <1>4 DEF BrowserExecutes, PauseType
  <2>2. commands[p][executed[p] + 1] \in Commands
    BY <2>1 DEF PauseType
  <2>3. \/ resolution' = resolution
        \/ /\ commands[p][executed[p] + 1] # "body"
           /\ resolution' = [resolution EXCEPT ![p] = commands[p][executed[p] + 1]]
    BY <1>4 DEF BrowserExecutes
  <2>4. resolution' \in [Pauses -> Resolutions \cup {None}]
    BY <2>2, <2>3 DEF PauseType, Commands, Resolutions
  <2>5. /\ executed' = [executed EXCEPT ![p] = @ + 1]
        /\ UNCHANGED <<paused, handlerVars>>
    BY <1>4 DEF BrowserExecutes
  <2>6. PICK answer \in {"ok", "error"} : reply' = [reply EXCEPT ![p] = answer]
    BY <1>4, Zenon DEF BrowserExecutes
  <2> QED
    BY <2>4, <2>5, <2>6 DEF PauseType, handlerVars
<1>5. ASSUME NEW gone \in SUBSET Sessions, Drop(gone), UNCHANGED <<paused, handlerVars, executed, reply>>
      PROVE  PauseType'
  BY <1>5 DEF Drop, PauseType, handlerVars, Resolutions
<1> QED
  BY <1>1, <1>2, <1>3, <1>4, <1>5, PauseTouched

LEMMA OtherTypeStep ==
  ASSUME OtherType, [Next]_vars
  PROVE  OtherType'
<1>0. server' \in {"serving", "stopping", "closed", "dead"} /\ deserted' \in SUBSET Attaches
  <2> USE DEF OtherType, attachVars, serverVars
  <2>1. CASE ServerStep
    BY <2>1 DEF ServerStep, Accept, ClientGivesUp, BeginAttach, SocketOpens, Prepared, AttachFails,
                AttachDone, AttachGoesOn, AttachAnswered, AttachToFails, Stop, ServerClosed, Terminate
  <2>2. CASE SessionStep
    BY <2>2 DEF SessionStep, BrowserAttaches, DetachedEvent, BrowserEnables, EnableFails,
                SocketCloses, DestroyTarget
  <2>3. CASE PauseStep
    BY <2>3 DEF PauseStep, PauseRequest, PausedEvent, FetchEnds, BrowserExecutes, CommandAnswered,
                CommandFails
  <2>4. CASE UNCHANGED vars
    BY <2>4 DEF vars
  <2> QED
    BY <2>1, <2>2, <2>3, <2>4 DEF Next
<1>1. overlapped' \in BOOLEAN
  <2>1. CASE ServerStep
    BY <2>1, Zenon DEF ServerStep, Accept, ClientGivesUp, BeginAttach, SocketOpens, Prepared,
                AttachFails, AttachDone, AttachGoesOn, AttachAnswered, AttachToFails, Stop,
                ServerClosed, Terminate, attachVars, OtherType
  <2>2. CASE SessionStep
    BY <2>2, Zenon DEF SessionStep, BrowserAttaches, DetachedEvent, BrowserEnables, EnableFails,
                SocketCloses, DestroyTarget, attachVars, OtherType
  <2>3. CASE PauseStep
    BY <2>3, Zenon DEF PauseStep, PauseRequest, PausedEvent, FetchEnds, BrowserExecutes,
                CommandAnswered, CommandFails, attachVars, OtherType
  <2>4. CASE UNCHANGED vars
    BY <2>4, Zenon DEF vars, OtherType
  <2> QED
    BY <2>1, <2>2, <2>3, <2>4 DEF Next
<1>2. faults' = faults \/ Fault
  <2> USE DEF NoFault
  <2>1. CASE ServerStep
    BY <2>1 DEF ServerStep, Accept, ClientGivesUp, BeginAttach, SocketOpens, Prepared, AttachFails,
                AttachDone, AttachGoesOn, AttachAnswered, AttachToFails, Stop, ServerClosed, Terminate
  <2>2. CASE SessionStep
    BY <2>2 DEF SessionStep, BrowserAttaches, DetachedEvent, BrowserEnables, EnableFails,
                SocketCloses, DestroyTarget
  <2>3. CASE PauseStep
    BY <2>3 DEF PauseStep, PauseRequest, PausedEvent, FetchEnds, BrowserExecutes,
                CommandAnswered, CommandFails
  <2>4. CASE UNCHANGED vars
    BY <2>4 DEF vars
  <2> QED
    BY <2>1, <2>2, <2>3, <2>4 DEF Next
<1>3. faults' \in 0..MaxFaults
  BY <1>2, ControlAssumption DEF Fault, OtherType
<1> QED
  BY <1>0, <1>1, <1>3, Zenon DEF OtherType

\* Every variable of the request control and of its browser keeps its type.
THEOREM TypeCorrect == Spec => []TypeOK
<1>1. Init => TypeOK
  <2> SUFFICES ASSUME Init PROVE TypeOK
    OBVIOUS
  <2>1. ServerType /\ SessionType
    BY DEF Init, ServerType, SessionType
  <2>2. PauseType
    BY DEF Init, PauseType
  <2>3. OtherType
    <3>0. server \in {"serving", "stopping", "closed", "dead"} /\ deserted \in SUBSET Attaches
      BY DEF Init
    <3>1. overlapped \in BOOLEAN
      BY Zenon DEF Init
    <3>2. faults \in 0..MaxFaults
      BY ControlAssumption DEF Init
    <3> QED
      BY <3>0, <3>1, <3>2, Zenon DEF OtherType
  <2> QED
    BY <2>1, <2>2, <2>3, TypeParts
<1>2. TypeOK /\ [Next]_vars => TypeOK'
  <2> SUFFICES ASSUME TypeOK, [Next]_vars PROVE TypeOK'
    OBVIOUS
  <2>1. ServerType' /\ SessionType' /\ PauseType' /\ OtherType'
    BY TypeParts, ServerTypeStep, SessionTypeStep, PauseTypeStep, OtherTypeStep
  <2> QED
    BY <2>1, Zenon DEF TypeOK, ServerType, SessionType, PauseType, OtherType
<1> QED
  BY <1>1, <1>2, PTL DEF Spec

-----------------------------------------------------------------------------
(* Sessions *)

LEMMA SessionsStep ==
  ASSUME SessionType, SessionsHoldTargets, [Next]_vars
  PROVE  SessionsHoldTargets'
<1> USE SessionFields, NoneIsNone
<1>1. ASSUME NEW s \in Sessions, EnableTarget(s) PROVE SessionsHoldTargets'
  <2>1. CASE targetSession[s.controller][s.target] \notin {None, s} \/ s \in sessionEnables
    <3>1. targetSession[s.controller][s.target] # None
      BY <2>1 DEF SessionsHoldTargets
    <3>2. sessionEnables' = sessionEnables /\ targetSession' = targetSession
      BY <1>1, <2>1, <3>1 DEF EnableTarget, SessionType
    <3> QED
      BY <3>2 DEF SessionsHoldTargets
  <2>2. CASE ~(targetSession[s.controller][s.target] \notin {None, s} \/ s \in sessionEnables)
    BY <1>1, <2>2 DEF EnableTarget, SessionType, SessionsHoldTargets
  <2> QED
    BY <2>1, <2>2
<1>2. ASSUME NEW s \in Sessions, Forget(s) PROVE SessionsHoldTargets'
  BY <1>2 DEF Forget, SessionType, SessionsHoldTargets
<1>3. CASE UNCHANGED <<targetSession, sessionEnables>>
  BY <1>3 DEF SessionsHoldTargets
<1>4. \/ UNCHANGED <<targetSession, sessionEnables>>
      \/ \E s \in Sessions : EnableTarget(s) \/ Forget(s)
  BY SessionTouched, AskedFields
     DEF enableVars, BrowserAttaches, DetachedEvent, BrowserEnables, EnableFails, AttachAnswered
<1> QED
  BY <1>1, <1>2, <1>3, <1>4

LEMMA SessionsInvariant == Spec => [](TypeOK /\ SessionsHoldTargets)
<1>1. Init => SessionsHoldTargets
  BY SessionFields, NoneIsNone DEF Init, SessionsHoldTargets
<1>2. TypeOK /\ SessionsHoldTargets /\ [Next]_vars => SessionsHoldTargets'
  BY SessionsStep, TypeParts
<1> QED
  BY <1>1, <1>2, TypeCorrect, PTL DEF Spec

\* A session holds its target exactly while its Fetch.enable is pending or has succeeded,
\* whatever detaches, fails or is answered late (enableTarget, enableSession, forgetSession).
THEOREM SessionsHold == Spec => []SessionsHoldTargets
BY SessionsInvariant, PTL

-----------------------------------------------------------------------------
(* Controllers *)

\* Without overlapping calls one controller is being set up at a time, and while one is, no
\* other is connected.
OneController ==
  \/ overlapped
  \/ /\ \A a, b \in Attaches : Underway(a) /\ Underway(b) => a = b
     /\ \A a, b \in Attaches : Underway(a) /\ socket[b] = "open" => b = a
     /\ \A a \in Attaches : socket[a] = "open" => Underway(a) \/ controller = a

\* A socket is made once the handler connects.
SocketsMade == \A a \in Attaches : attach[a] \in {"idle", "reading", "opening"} => socket[a] = "none"

LEMMA ControllerStep ==
  ASSUME ServerType, OneController, SocketsMade, [Next]_vars
  PROVE  OneController' /\ SocketsMade'
<1> USE DEF Underway, ServerType
<1>1. CASE UNCHANGED <<attach, controller, overlapped, socket>>
  BY <1>1 DEF OneController, SocketsMade
<1>2. ASSUME NEW a \in Attaches, BeginAttach(a) PROVE OneController' /\ SocketsMade'
  <2>1. SocketsMade'
    BY <1>2 DEF BeginAttach, CloseOld, Hang, SocketsMade
  <2>2. overlapped' = (overlapped \/ \E b \in Attaches : Underway(b))
    BY <1>2 DEF BeginAttach
  <2>3. CASE overlapped \/ \E b \in Attaches : Underway(b)
    BY <2>2, <2>3, <2>1, Zenon DEF OneController
  <2>4. CASE ~(overlapped \/ \E b \in Attaches : Underway(b))
    <3>1. \A b \in Attaches : socket[b] = "open" => controller = b
      BY <2>4 DEF OneController
    <3>2. \A b \in Attaches : socket'[b] # "open"
      BY <1>2, <3>1, NoneIsNone DEF BeginAttach, CloseOld, Hang
    <3>3. \A b \in Attaches : Underway(b)' => b = a
      BY <1>2, <2>4 DEF BeginAttach
    <3> QED
      BY <2>1, <3>2, <3>3 DEF OneController
  <2> QED
    BY <2>3, <2>4
<1>10. ASSUME NEW a \in Attaches, Accept(a) \/ ClientGivesUp(a) PROVE OneController' /\ SocketsMade'
  BY <1>10 DEF Accept, ClientGivesUp, OneController, SocketsMade
<1>3. ASSUME NEW a \in Attaches, SocketOpens(a) PROVE OneController' /\ SocketsMade'
  BY <1>3 DEF SocketOpens, OneController, SocketsMade
<1>4. ASSUME NEW a \in Attaches, Prepared(a) \/ AttachDone(a) \/ AttachGoesOn(a)
      PROVE  OneController' /\ SocketsMade'
  BY <1>4 DEF Prepared, AttachDone, AttachGoesOn, OneController, SocketsMade
<1>5. ASSUME NEW a \in Attaches, AttachFails(a) PROVE OneController' /\ SocketsMade'
  BY <1>5 DEF AttachFails, Hang, OneController, SocketsMade
<1>6. ASSUME NEW a \in Attaches, NEW t \in Targets, AttachAnswered(a, t) \/ AttachToFails(a, t)
      PROVE  OneController' /\ SocketsMade'
  BY <1>6 DEF AttachAnswered, AttachToFails, OneController, SocketsMade
<1>7. CASE Stop \/ ServerClosed \/ Terminate
  BY <1>7, NoneIsNone DEF Stop, ServerClosed, Terminate, Pending, CloseOld, Hang, OneController, SocketsMade, attachVars
<1>8. ASSUME NEW a \in Attaches, SocketCloses(a) PROVE OneController' /\ SocketsMade'
  BY <1>8 DEF SocketCloses, OneController, SocketsMade, attachVars
<1>9. CASE \/ \E s \in Sessions :
                BrowserAttaches(s) \/ DetachedEvent(s) \/ BrowserEnables(s) \/ EnableFails(s)
           \/ \E t \in Targets : DestroyTarget(t)
           \/ PauseStep \/ UNCHANGED vars
  <2>1. UNCHANGED <<attach, controller, overlapped, socket>>
    BY <1>9 DEF BrowserAttaches, DetachedEvent, BrowserEnables, EnableFails, DestroyTarget,
                PauseStep, PauseRequest, PausedEvent, FetchEnds, BrowserExecutes, CommandAnswered,
                CommandFails, vars, attachVars
  <2> QED
    BY <1>1, <2>1
<1> QED
  BY <1>2, <1>3, <1>4, <1>5, <1>6, <1>7, <1>8, <1>9, <1>10 DEF Next, ServerStep, SessionStep

LEMMA ControllerInvariant == Spec => [](TypeOK /\ OneController /\ SocketsMade)
<1>1. Init => OneController /\ SocketsMade
  BY DEF Init, OneController, SocketsMade, Underway
<1>2. TypeOK /\ OneController /\ SocketsMade /\ [Next]_vars => OneController' /\ SocketsMade'
  BY ControllerStep, TypeParts
<1> QED
  BY <1>1, <1>2, TypeCorrect, PTL DEF Spec

\* Once the server has closed, a call still connects only when its client gave up.
LateControllers ==
  server = "closed" => \A a \in Attaches :
    Pending(a) \/ (socket[a] = "open" /\ controller = a) => a \in deserted

LEMMA LateStep ==
  ASSUME ServerType, LateControllers, [Next]_vars
  PROVE  LateControllers'
<1> USE DEF Pending, Underway, ServerType, LateControllers
<1>1. CASE UNCHANGED <<attach, controller, server, deserted, socket>>
  BY <1>1
<1>2. ASSUME NEW a \in Attaches, Accept(a) \/ ClientGivesUp(a) PROVE LateControllers'
  BY <1>2 DEF Accept, ClientGivesUp, serverVars
<1>3. ASSUME NEW a \in Attaches, BeginAttach(a) \/ SocketOpens(a) PROVE LateControllers'
  BY <1>3 DEF BeginAttach, CloseOld, Hang, SocketOpens, serverVars
<1>4. ASSUME NEW a \in Attaches, Prepared(a) \/ AttachDone(a) \/ AttachGoesOn(a)
      PROVE  LateControllers'
  BY <1>4 DEF Prepared, AttachDone, AttachGoesOn, serverVars
<1>5. ASSUME NEW a \in Attaches, AttachFails(a) PROVE LateControllers'
  <2>1. \A b \in Attaches : socket'[b] = "open" => socket[b] = "open"
    BY <1>5 DEF AttachFails, Hang
  <2>2. /\ attach' = [attach EXCEPT ![a] = "refused"]
        /\ UNCHANGED <<controller, server, deserted>>
    BY <1>5 DEF AttachFails, serverVars
  <2> QED
    BY <2>1, <2>2
<1>6. ASSUME NEW a \in Attaches, NEW t \in Targets, AttachAnswered(a, t) \/ AttachToFails(a, t)
      PROVE  LateControllers'
  BY <1>6 DEF AttachAnswered, AttachToFails, serverVars
<1>7. CASE Stop \/ Terminate
  BY <1>7 DEF Stop, Terminate
<1>8. CASE ServerClosed
  BY <1>8, NoneIsNone DEF ServerClosed, NoConnection, CloseOld, Hang
<1>9. ASSUME NEW a \in Attaches, SocketCloses(a) PROVE LateControllers'
  BY <1>9 DEF SocketCloses, attachVars, serverVars
<1>10. CASE \/ \E s \in Sessions :
                 BrowserAttaches(s) \/ DetachedEvent(s) \/ BrowserEnables(s) \/ EnableFails(s)
            \/ \E t \in Targets : DestroyTarget(t)
            \/ PauseStep \/ UNCHANGED vars
  <2>1. UNCHANGED <<attach, controller, server, deserted, socket>>
    BY <1>10 DEF BrowserAttaches, DetachedEvent, BrowserEnables, EnableFails, DestroyTarget,
                 PauseStep, PauseRequest, PausedEvent, FetchEnds, BrowserExecutes, CommandAnswered,
                 CommandFails, vars, attachVars, serverVars
  <2> QED
    BY <1>1, <2>1
<1> QED
  BY <1>2, <1>3, <1>4, <1>5, <1>6, <1>7, <1>8, <1>9, <1>10 DEF Next, ServerStep, SessionStep

\* A connected controller is being set up or is the one the server knows, unless calls of
\* /attach overlapped (the handler of /attach, which closes what it knows first); once the
\* server has closed, that is one whose client gave up (server.close, the last controller.close).
THEOREM ControllersAreKnown == Spec => []NoStrayController
<1>1. OneController /\ LateControllers => NoStrayController
  BY DEF OneController, LateControllers, NoStrayController
<1>2. Init => LateControllers
  BY DEF Init, LateControllers
<1>3. TypeOK /\ LateControllers /\ [Next]_vars => LateControllers'
  BY LateStep, TypeParts
<1> QED
  BY <1>1, <1>2, <1>3, TypeCorrect, ControllerInvariant, PTL DEF Spec

\* An intercepting session is attached and, unless its Fetch.enable was given up, enabled.
Enabled ==
  /\ \A s \in intercepting : session[s] = "attached" /\ (s \in givenUp \/ s \in sessionEnables)
  /\ \A s \in Sessions :
       /\ enabling[s] = "sent" => s \in sessionEnables \/ session[s] # "attached"
       /\ enabling[s] = "abandoned" => s \in givenUp
       /\ session[s] = "none" => enabling[s] = "none"

LEMMA EnabledStep ==
  ASSUME SessionType, Enabled, [Next]_vars
  PROVE  Enabled'
<1> USE SessionFields DEF SessionType
<1>0. ASSUME NEW s \in Sessions, EnableTarget(s)
      PROVE  /\ sessionEnables \subseteq sessionEnables' /\ givenUp' = givenUp
             /\ \A q \in Sessions \ {s} : enabling'[q] = enabling[q]
             /\ \/ enabling'[s] = enabling[s]
                \/ enabling'[s] = "sent" /\ s \in sessionEnables'
  BY <1>0 DEF EnableTarget
<1>1. CASE UNCHANGED <<session, enableVars, intercepting>>
  BY <1>1 DEF Enabled, enableVars
<1>2. ASSUME NEW s \in Sessions, BrowserAttaches(s) PROVE Enabled'
  <2>1. /\ intercepting' = intercepting /\ session[s] = "none"
        /\ session' = [session EXCEPT ![s] = "attached"] /\ EnableTarget(s)
    BY <1>2 DEF BrowserAttaches
  <2>2. s \notin intercepting
    BY <2>1 DEF Enabled
  <2>3. /\ enabling'[s] = "sent" => s \in sessionEnables'
        /\ enabling'[s] # "abandoned"
    BY <1>0, <2>1 DEF Enabled
  <2> QED
    BY <1>0, <2>1, <2>2, <2>3 DEF Enabled
<1>3. ASSUME NEW s \in Sessions, DetachedEvent(s) PROVE Enabled'
  BY <1>3 DEF DetachedEvent, Forget, Enabled
<1>4. ASSUME NEW s \in Sessions, BrowserEnables(s) PROVE Enabled'
  BY <1>4 DEF BrowserEnables, sessionVars, Enabled
<1>5. ASSUME NEW s \in Sessions, EnableFails(s) PROVE Enabled'
  BY <1>5 DEF EnableFails, Forget, sessionVars, Enabled
<1>6. ASSUME NEW a \in Attaches, NEW t \in Targets, AttachAnswered(a, t) PROVE Enabled'
  BY <1>0, <1>6, AskedFields DEF AttachAnswered, sessionVars, Enabled
<1>7. ASSUME NEW gone \in SUBSET Sessions, Drop(gone), UNCHANGED enableVars PROVE Enabled'
  BY <1>7 DEF Drop, enableVars, Enabled
<1> QED
  BY <1>1, <1>2, <1>3, <1>4, <1>5, <1>6, <1>7, SessionTouched

LEMMA EnabledInvariant == Spec => []Enabled
<1>1. Init => Enabled
  BY DEF Init, Enabled
<1>2. TypeOK /\ Enabled /\ [Next]_vars => Enabled'
  BY EnabledStep, TypeParts
<1> QED
  BY <1>1, <1>2, TypeCorrect, PTL DEF Spec

\* Over sockets that stay open no target is intercepted twice, unless calls overlapped or a
\* Fetch.enable that was given up was executed all the same (the maps #targetSessions and
\* #sessionEnables, and the one controller).
THEOREM OneInterceptor == Spec => []OneInterceptorPerTarget
<1>1. TypeOK /\ OneController /\ SessionsHoldTargets /\ Enabled => OneInterceptorPerTarget
  <2> SUFFICES ASSUME TypeOK, OneController, SessionsHoldTargets, Enabled, ~overlapped,
                      NEW s1 \in intercepting \ givenUp, NEW s2 \in intercepting \ givenUp,
                      s1.target = s2.target,
                      socket[s1.controller] = "open", socket[s2.controller] = "open"
               PROVE  s1 = s2
    BY DEF OneInterceptorPerTarget
  <2>1. s1 \in Sessions /\ s2 \in Sessions
    BY TypeParts DEF SessionType
  <2>2. s1.controller = s2.controller
    BY <2>1, SessionFields DEF OneController
  <2>3. s1 \in sessionEnables /\ s2 \in sessionEnables
    BY DEF Enabled
  <2> QED
    BY <2>1, <2>2, <2>3 DEF SessionsHoldTargets
<1> QED
  BY <1>1, ControllerInvariant, SessionsInvariant, EnabledInvariant, PTL

-----------------------------------------------------------------------------
(* Paused requests *)

\* What a handler may send for a request of a kind.
MaySend(kind) ==
  CASE kind = "continue" -> {"continue", "fail"}
    [] kind = "keep" -> {"continue"}
    [] kind = "rewrite" -> {"rewrite", "fail"}
    [] kind = "fulfill" -> {"fulfill", "fail"}
    [] kind = "strip" -> {"body", "fulfill", "continue"}

MayBecome(kind) ==
  CASE kind \in {"continue", "keep"} -> {"continue"}
    [] kind = "rewrite" -> {"rewrite", "fail"}
    [] kind = "fulfill" -> {"fulfill", "fail"}
    [] kind = "strip" -> {"fulfill", "continue"}

\* Every command sent fits the kind; a request without a rule is continued first, and as the
\* browser executes in order, whatever is sent after that finds it resolved.
Decided(p) ==
  /\ \A i \in 1..Len(commands[p]) : commands[p][i] \in MaySend(p.kind)
  /\ executed[p] <= Len(commands[p])
  /\ handler[p] = "none" => commands[p] = <<>>
  /\ handler[p] = "fetching" => p.kind = "fulfill"
  /\ handler[p] \in {"trying", "caught"} => commands[p] # <<>>
  /\ p.kind = "continue" =>
       /\ commands[p] # <<>> => commands[p][1] = "continue"
       /\ executed[p] > 0 => resolution[p] # None
  /\ resolution[p] \in {None, "released"} \cup MayBecome(p.kind)

Decisions == \A p \in Pauses : Decided(p)

\* A handler that sends keeps to the kind.
SendsRight(p) ==
  \/ \E command \in MaySend(p.kind), stage \in {"trying", "caught"} :
       /\ Send(p, command, stage)
       /\ p.kind = "continue" /\ commands[p] = <<>> => command = "continue"
  \/ \E stage \in {"fetching", "over"} :
       /\ handler' = [handler EXCEPT ![p] = stage] /\ UNCHANGED commands
       /\ stage = "fetching" => p.kind = "fulfill"

LEMMA HandlersSendRight ==
  ASSUME PauseType, NEW p \in Pauses, Decided(p),
         PausedEvent(p) \/ FetchEnds(p) \/ CommandAnswered(p) \/ CommandFails(p)
  PROVE  SendsRight(p)
<1>0. p.kind \in {"continue", "rewrite", "fulfill", "keep", "strip"}
  BY PauseFields DEF Kinds
<1>1. ASSUME Caught(p), p.kind = "continue" => commands[p] # <<>> PROVE SendsRight(p)
  BY <1>0, <1>1 DEF Caught, SendsRight, MaySend
<1>2. CASE PausedEvent(p)
  BY <1>0, <1>2 DEF PausedEvent, Begin, SendsRight, MaySend
<1>3. CASE FetchEnds(p)
  <2>1. p.kind = "fulfill"
    BY <1>3 DEF FetchEnds, Decided
  <2>2. CASE Send(p, "fulfill", "trying")
    BY <2>1, <2>2 DEF SendsRight, MaySend
  <2> QED
    BY <1>1, <1>3, <2>1, <2>2 DEF FetchEnds
<1>4. CASE CommandAnswered(p)
  <2>1. commands[p] # <<>>
    BY <1>4 DEF CommandAnswered, InCommand, Decided
  <2>2. CASE Last(p) = "body"
    <3>1. Len(commands[p]) \in 1..Len(commands[p])
      BY <2>1 DEF PauseType
    <3>2. p.kind = "strip"
      BY <1>0, <2>2, <3>1 DEF Last, Decided, MaySend
    <3>3. CASE Send(p, "fulfill", "trying")
      BY <3>2, <3>3 DEF SendsRight, MaySend
    <3> QED
      BY <1>1, <1>4, <2>2, <3>2, <3>3 DEF CommandAnswered
  <2>3. CASE Last(p) # "body"
    BY <1>4, <2>3 DEF CommandAnswered, Over, SendsRight
  <2> QED
    BY <2>2, <2>3
<1>5. CASE CommandFails(p)
  <2>1. commands[p] # <<>>
    BY <1>5 DEF CommandFails, InCommand, Decided
  <2>2. CASE Caught(p)
    BY <1>1, <2>1, <2>2
  <2>3. CASE Over(p)
    BY <2>3 DEF Over, SendsRight
  <2> QED
    BY <1>5, <2>2, <2>3 DEF CommandFails, Fail
<1> QED
  BY <1>2, <1>3, <1>4, <1>5

LEMMA DecisionsStep ==
  ASSUME PauseType, Decisions, [Next]_vars
  PROVE  Decisions'
<1>1. CASE UNCHANGED <<paused, handlerVars, browserVars>>
  BY <1>1 DEF Decisions, Decided, handlerVars, browserVars
<1>2. ASSUME NEW p \in Pauses, NEW s \in Sessions, PauseRequest(p, s) PROVE Decisions'
  BY <1>2 DEF PauseRequest, Decisions, Decided, handlerVars, browserVars
<1>3. ASSUME NEW p \in Pauses,
             PausedEvent(p) \/ FetchEnds(p) \/ CommandAnswered(p) \/ CommandFails(p)
      PROVE  Decisions'
  <2>1. SendsRight(p) /\ UNCHANGED <<executed, resolution>>
    BY <1>3, HandlersSendRight, HandlersSend DEF Decisions, browserVars
  <2>2. \A q \in Pauses \ {p} : commands'[q] = commands[q] /\ handler'[q] = handler[q]
    BY <2>1 DEF SendsRight, Send, PauseType
  <2>3. ASSUME NEW command \in MaySend(p.kind), NEW stage \in {"trying", "caught"},
               Send(p, command, stage),
               p.kind = "continue" /\ commands[p] = <<>> => command = "continue"
        PROVE  Decided(p)'
    <3>1. /\ commands'[p] = Append(commands[p], command) /\ handler'[p] = stage
          /\ commands[p] \in Seq(Commands) /\ executed[p] \in Nat
      BY <2>3 DEF Send, PauseType
    <3>2. commands[p] = <<>> => executed[p] = 0
      BY <3>1 DEF Decisions, Decided
    <3>3. \A i \in 1..Len(commands'[p]) : commands'[p][i] \in MaySend(p.kind)
      BY <2>3, <3>1 DEF Decisions, Decided
    <3>4. Len(commands'[p]) = Len(commands[p]) + 1 /\ commands'[p] # <<>>
      BY <3>1
    <3>5. p.kind = "continue" => commands'[p][1] = "continue"
      <4>1. CASE commands[p] = <<>>
        BY <2>3, <3>1, <4>1
      <4>2. CASE commands[p] # <<>>
        BY <3>1, <4>2 DEF Decisions, Decided
      <4> QED
        BY <4>1, <4>2
    <3> QED
      BY <2>1, <2>3, <3>1, <3>3, <3>4, <3>5 DEF Decisions, Decided
  <2>4. ASSUME NEW stage \in {"fetching", "over"},
               handler' = [handler EXCEPT ![p] = stage], UNCHANGED commands,
               stage = "fetching" => p.kind = "fulfill"
        PROVE  Decided(p)'
    BY <2>1, <2>4 DEF Decisions, Decided, PauseType
  <2>5. Decided(p)'
    BY <2>1, <2>3, <2>4 DEF SendsRight
  <2> QED
    BY <2>1, <2>2, <2>5 DEF Decisions, Decided
<1>4. ASSUME NEW p \in Pauses, BrowserExecutes(p) PROVE Decisions'
  <2> DEFINE command == commands[p][executed[p] + 1]
  <2>1. /\ executed' = [executed EXCEPT ![p] = @ + 1]
        /\ executed[p] < Len(commands[p]) /\ UNCHANGED <<commands, handler>>
    BY <1>4 DEF BrowserExecutes, handlerVars
  <2>2. \/ resolution[p] = None /\ command = "body" /\ resolution' = resolution
        \/ resolution[p] = None /\ command # "body" /\ resolution' = [resolution EXCEPT ![p] = command]
        \/ resolution' = resolution /\ (resolution[p] = None => command # "continue")
    BY <1>4 DEF BrowserExecutes
  <2>3. command \in MaySend(p.kind) /\ executed[p] \in Nat /\ Len(commands[p]) \in Nat
    <3>1. executed[p] \in Nat /\ commands[p] \in Seq(Commands)
      BY DEF PauseType
    <3>2. Len(commands[p]) \in Nat /\ executed[p] + 1 \in 1..Len(commands[p])
      BY <2>1, <3>1
    <3> QED
      BY <3>1, <3>2 DEF Decisions, Decided
  <2>4. p.kind \in {"continue", "rewrite", "fulfill", "keep", "strip"}
    BY PauseFields DEF Kinds
  <2>5. p.kind = "continue" /\ resolution[p] = None => command = "continue"
    BY <2>1, <2>3 DEF Decisions, Decided
  <2> HIDE DEF command
  <2>6. command \notin {"body"} /\ (p.kind = "continue" => command = "continue")
          => command \in MayBecome(p.kind)
    BY <2>3, <2>4 DEF MaySend, MayBecome
  <2>7. resolution'[p] \in {None, "released"} \cup MayBecome(p.kind)
    BY <2>2, <2>5, <2>6 DEF Decisions, Decided, PauseType
  <2>8. p.kind = "continue" => resolution'[p] # None
    <3>1. "continue" # None
      BY ControlAssumption DEF Commands
    <3>2. resolution \in [Pauses -> Resolutions \cup {None}]
      BY DEF PauseType
    <3>3. CASE resolution[p] = None
      BY <2>2, <2>5, <3>1, <3>2, <3>3
    <3>4. CASE resolution[p] # None
      BY <2>2, <3>4
    <3> QED
      BY <3>3, <3>4
  <2>9. Decided(p)'
    BY <2>1, <2>3, <2>7, <2>8 DEF Decisions, Decided, PauseType
  <2>10. \A q \in Pauses \ {p} : executed'[q] = executed[q] /\ resolution'[q] = resolution[q]
    BY <2>1, <2>2 DEF PauseType
  <2> QED
    BY <2>1, <2>9, <2>10 DEF Decisions, Decided
<1>5. ASSUME NEW gone \in SUBSET Sessions, Drop(gone), UNCHANGED <<paused, handlerVars, executed, reply>>
      PROVE  Decisions'
  BY <1>5 DEF Drop, Decisions, Decided, handlerVars
<1> QED
  BY <1>1, <1>2, <1>3, <1>4, <1>5, PauseTouched

\* What becomes of a paused request is what its rule asks for or the intended failure, whatever
\* times out and whatever is executed late (handlePaused, its catch blocks).
THEOREM RulesDecide == Spec => []RuleDecides
<1>1. Init => Decisions
  BY DEF Init, Decisions, Decided
<1>2. TypeOK /\ Decisions /\ [Next]_vars => Decisions'
  BY DecisionsStep, TypeParts
<1>3. Decisions => RuleDecides
  BY DEF Decisions, Decided, RuleDecides, MayBecome
<1> QED
  BY <1>1, <1>2, <1>3, TypeCorrect, PTL DEF Spec
=============================================================================
