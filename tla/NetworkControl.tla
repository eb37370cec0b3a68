--------------------------- MODULE NetworkControl ---------------------------
(***************************************************************************)
(* The process that applies request rules inside the browser               *)
(* (packages/cli/src/features/browser/network-control-server.ts).          *)
(*                                                                         *)
(* Before every navigation the command line posts /attach.  The handler    *)
(* closes the controller it knows, opens a new debugging socket, asks the  *)
(* browser to attach sessions to all targets, and enables interception in  *)
(* one session of each target.  The browser then pauses requests in the    *)
(* intercepting sessions, and a handler per paused request has to resolve  *)
(* it: continue, rewrite, fulfill from a fetch of its own, or fail.        *)
(*                                                                         *)
(* Commands on one socket reach the browser in order; their answers may    *)
(* come after the controller has given up waiting.  Targets go away,       *)
(* sockets close and calls of /attach overlap at any time.  The counters of *)
(* /status are left out.  The browser is external: it is modelled from the *)
(* commands and events the source uses.                                    *)
(***************************************************************************)
EXTENDS Naturals, Sequences, FiniteSets

CONSTANTS
  Attaches,   \* calls of POST /attach, numbered as they arrive; each makes a controller
  Targets,    \* pages and frames of the browser
  Pauses,     \* requests the browser pauses
  MaxPaused,  \* bound: requests paused in a behaviour
  MaxFaults,  \* bound: commands, connects and calls that fail or time out, targets destroyed
  None        \* undefined

\* What a paused request asks of its handler: a request no rule matches, or that one
\* rewrites or fulfills; a response to leave alone, or to strip of headers.
Kinds == {"continue", "rewrite", "fulfill", "keep", "strip"}
Pause == [id : Nat, target : Targets, kind : Kinds]

\* What a handler sends about its request, and what can become of the request.
Commands == {"continue", "rewrite", "fulfill", "fail", "body"}
Resolutions == {"continue", "rewrite", "fulfill", "fail", "released"}

\* A target is attached to twice: automatically and because /attach asks for it.
Sessions == [controller : Attaches, target : Targets, how : {"auto", "asked"}]

ASSUME ControlAssumption ==
  /\ Pauses \subseteq Pause
  /\ Attaches \subseteq Nat
  /\ {MaxPaused, MaxFaults} \subseteq Nat
  /\ None \notin Attaches \cup Targets \cup Sessions \cup Commands \cup Resolutions

VARIABLES
  attach,         \* attach[a] : where the handler of call a stands
  left,           \* left[a] : targets that call a has not dealt with
  controller,     \* the controller the server knows
  server,         \* the server and its process
  deserted,       \* calls whose client has given up waiting: their connection is gone
  socket,         \* socket[a] : the debugging socket of the controller of call a
  targets,        \* targets that exist
  session,        \* session[s] : in the browser; "detached" when the controller knows it is gone
  targetSession,  \* targetSession[a][t] : #targetSessions
  sessionEnables, \* #sessionEnables, of all controllers
  enabling,       \* enabling[s] : the Fetch.enable somebody awaits
  intercepting,   \* sessions in which the browser pauses requests
  paused,         \* paused[p] : the session request p is paused in
  handler,        \* handler[p] : the handler of the paused event
  commands,       \* commands[p] : what the handler has sent
  executed,       \* executed[p] : how many of these the browser has executed
  reply,          \* reply[p] : its answer to the last of them
  resolution,     \* resolution[p] : what became of the paused request
  givenUp,        \* history: sessions whose Fetch.enable was given up
  overlapped,     \* history: two calls of /attach were connecting at one time
  faults          \* counted against their bound

serverVars == <<server, deserted>>
attachVars == <<attach, left, controller, serverVars, overlapped>>
sessionVars == <<targets, session>>
enableVars == <<targetSession, sessionEnables, enabling, givenUp>>
handlerVars == <<handler, commands>>
browserVars == <<executed, reply, resolution>>
vars == <<attach, left, controller, serverVars, socket, targets, session, targetSession,
          sessionEnables, enabling, intercepting, paused, handler, commands, executed, reply,
          resolution, givenUp, overlapped, faults>>

TypeOK ==
  /\ attach \in [Attaches -> {"idle", "reading", "opening", "preparing", "attaching", "enabling",
                              "answered", "refused"}]
  /\ left \in [Attaches -> SUBSET Targets]
  /\ controller \in Attaches \cup {None}
  /\ server \in {"serving", "stopping", "closed", "dead"}
  /\ deserted \in SUBSET Attaches
  /\ socket \in [Attaches -> {"none", "open", "closing", "closed", "abandoned"}]
  /\ targets \in SUBSET Targets
  /\ session \in [Sessions -> {"none", "attached", "gone", "detached"}]
  /\ targetSession \in [Attaches -> [Targets -> Sessions \cup {None}]]
  /\ sessionEnables \in SUBSET Sessions
  /\ enabling \in [Sessions -> {"none", "sent", "abandoned"}]
  /\ intercepting \in SUBSET Sessions
  /\ paused \in [Pauses -> Sessions \cup {None}]
  /\ handler \in [Pauses -> {"none", "fetching", "trying", "caught", "over"}]
  /\ commands \in [Pauses -> Seq(Commands)]
  /\ executed \in [Pauses -> Nat]
  /\ reply \in [Pauses -> {"ok", "error"}]
  /\ resolution \in [Pauses -> Resolutions \cup {None}]
  /\ givenUp \in SUBSET Sessions
  /\ overlapped \in BOOLEAN
  /\ faults \in 0..MaxFaults

Init ==
  /\ attach = [a \in Attaches |-> "idle"]
  /\ left = [a \in Attaches |-> {}]
  /\ controller = None
  /\ server = "serving" /\ deserted = {}
  /\ socket = [a \in Attaches |-> "none"]
  /\ targets = Targets
  /\ session = [s \in Sessions |-> "none"]
  /\ targetSession = [a \in Attaches |-> [t \in Targets |-> None]]
  /\ sessionEnables = {}
  /\ enabling = [s \in Sessions |-> "none"]
  /\ intercepting = {}
  /\ paused = [p \in Pauses |-> None]
  /\ handler = [p \in Pauses |-> "none"]
  /\ commands = [p \in Pauses |-> <<>>]
  /\ executed = [p \in Pauses |-> 0]
  /\ reply = [p \in Pauses |-> "ok"]
  /\ resolution = [p \in Pauses |-> None]
  /\ givenUp = {}
  /\ overlapped = FALSE
  /\ faults = 0

Fault == faults < MaxFaults /\ faults' = faults + 1
NoFault == UNCHANGED faults

Alive == server # "dead"

Underway(a) == attach[a] \in {"opening", "preparing", "attaching", "enabling"}
Pending(a) == attach[a] = "reading" \/ Underway(a)

-----------------------------------------------------------------------------
(* POST /attach, POST /stop *)

Hang(a) == [socket EXCEPT ![a] = IF @ = "open" THEN "closing" ELSE @]

\* Mutant: the controller of the previous call stays connected.
KeepOld == UNCHANGED socket

\* if (controller !== undefined) controller.close()
CloseOld == socket' = IF controller = None THEN socket ELSE Hang(controller)

\* A call comes; its handler awaits the body.
Accept(a) ==
  /\ server = "serving"
  /\ attach[a] = "idle" /\ \A b \in Attaches : b < a => attach[b] # "idle"
  /\ attach' = [attach EXCEPT ![a] = "reading"]
  /\ UNCHANGED <<left, controller, serverVars, overlapped, socket, sessionVars, enableVars,
                 intercepting, paused, handlerVars, browserVars, faults>>

\* attachNetworkControl waits for five seconds, its command line may be killed before.
ClientGivesUp(a) ==
  /\ Pending(a) /\ a \notin deserted
  /\ Fault
  /\ deserted' = deserted \cup {a}
  /\ UNCHANGED <<attach, left, controller, server, overlapped, socket, sessionVars, enableVars,
                 intercepting, paused, handlerVars, browserVars>>

\* The handler closes the controller it finds and begins to connect, though /stop may have
\* come meanwhile; the variable keeps the closed one until the new one is ready.
BeginAttach(a) ==
  /\ attach[a] = "reading"
  /\ attach' = [attach EXCEPT ![a] = "opening"]
  /\ overlapped' = (overlapped \/ \E b \in Attaches : Underway(b))
  /\ CloseOld
  /\ UNCHANGED <<left, controller, serverVars, sessionVars, enableVars, intercepting, paused,
                 handlerVars, browserVars, faults>>

SocketOpens(a) ==
  /\ attach[a] = "opening"
  /\ attach' = [attach EXCEPT ![a] = "preparing"]
  /\ socket' = [socket EXCEPT ![a] = "open"]
  /\ UNCHANGED <<left, controller, serverVars, overlapped, sessionVars, enableVars, intercepting,
                 paused, handlerVars, browserVars, faults>>

\* Target.setAutoAttach and Target.getTargets are answered.
Prepared(a) ==
  /\ attach[a] = "preparing" /\ socket[a] = "open"
  /\ attach' = [attach EXCEPT ![a] = "attaching"]
  /\ left' = [left EXCEPT ![a] = targets]
  /\ UNCHANGED <<controller, serverVars, overlapped, socket, sessionVars, enableVars, intercepting,
                 paused, handlerVars, browserVars, faults>>

\* The body does not arrive, connecting or preparing fails: the call is refused.  A client that
\* was made is closed; the socket of a connect that timed out is not, and may open when nobody
\* knows it any more.
AttachFails(a) ==
  /\ \/ attach[a] = "reading" /\ a \in deserted /\ UNCHANGED socket /\ NoFault
     \/ /\ attach[a] = "opening" /\ Fault
        /\ socket' \in {socket, [socket EXCEPT ![a] = "abandoned"]}
     \/ /\ attach[a] = "preparing" /\ socket' = Hang(a)
        /\ IF socket[a] = "closed" THEN NoFault ELSE Fault
  /\ attach' = [attach EXCEPT ![a] = "refused"]
  /\ UNCHANGED <<left, controller, serverVars, overlapped, sessionVars, enableVars, intercepting,
                 paused, handlerVars, browserVars>>

\* All targets have been attached to: the server now knows the controller.
AttachDone(a) ==
  /\ attach[a] = "attaching" /\ left[a] = {}
  /\ attach' = [attach EXCEPT ![a] = "answered"]
  /\ controller' = a
  /\ UNCHANGED <<left, serverVars, overlapped, socket, sessionVars, enableVars, intercepting,
                 paused, handlerVars, browserVars, faults>>

\* /stop, which may come again on a connection that is still there.
Stop ==
  /\ server \in {"serving", "stopping"}
  /\ server' = "stopping"
  /\ CloseOld
  /\ UNCHANGED <<attach, left, controller, deserted, overlapped, sessionVars, enableVars,
                 intercepting, paused, handlerVars, browserVars, faults>>

NoConnection == \A a \in Attaches : Pending(a) => a \in deserted

\* server.close waits for connections, not for handlers: a call whose client has given up may
\* still be connecting when the controller known by then is closed.
ServerClosed ==
  /\ server = "stopping" /\ NoConnection
  /\ server' = "closed"
  /\ CloseOld
  /\ UNCHANGED <<attach, left, controller, deserted, overlapped, sessionVars, enableVars,
                 intercepting, paused, handlerVars, browserVars, faults>>

\* Mutant: no signal follows a /stop that was answered.
TrustAnswer == FALSE /\ UNCHANGED vars

\* stopNetworkControl signals the process once /stop is answered, or is not for a second.  The
\* process ends with all its handlers, and the system closes its sockets.
Terminate ==
  /\ Alive
  /\ IF server = "serving" THEN Fault ELSE NoFault
  /\ server' = "dead"
  /\ attach' = [a \in Attaches |-> IF Pending(a) THEN "refused" ELSE attach[a]]
  /\ socket' = [a \in Attaches |->
       IF socket[a] \in {"open", "abandoned"} THEN "closing" ELSE socket[a]]
  /\ UNCHANGED <<left, controller, deserted, overlapped, sessionVars, enableVars, intercepting,
                 paused, handlerVars, browserVars>>

-----------------------------------------------------------------------------
(* Sessions *)

Asked(a, t) == [controller |-> a, target |-> t, how |-> "asked"]
\* Mutant: a session that is attached enables interception, whoever has the target.
EnableAnyway(s) ==
  /\ targetSession' = [targetSession EXCEPT ![s.controller][s.target] = s]
  /\ sessionEnables' = sessionEnables \cup {s}
  /\ enabling' = [enabling EXCEPT ![s] = "sent"]
  /\ UNCHANGED givenUp

\* Mutant: the target is recorded in place of the session.
HoldByTarget(s) ==
  /\ targetSession' = [targetSession EXCEPT ![s.controller][s.target] = s.target]
  /\ sessionEnables' = sessionEnables \cup {s}
  /\ enabling' = [enabling EXCEPT ![s] = "sent"]
  /\ UNCHANGED givenUp

\* enableTarget and enableSession: the first session of a target enables interception,
\* another one is passed over while the first is known.
EnableTarget(s) ==
  /\ UNCHANGED givenUp
  /\ LET a == s.controller  t == s.target IN
     IF targetSession[a][t] \notin {None, s} \/ s \in sessionEnables
     THEN /\ targetSession' = [targetSession EXCEPT ![a][t] = IF @ = None THEN s ELSE @]
          /\ UNCHANGED <<sessionEnables, enabling>>
     ELSE /\ targetSession' = [targetSession EXCEPT ![a][t] = s]
          /\ sessionEnables' = sessionEnables \cup {s}
          /\ enabling' = [enabling EXCEPT ![s] = "sent"]

\* Mutant: the target stays bound to a session that was not enabled.
ForgetEnableOnly(s) ==
  /\ sessionEnables' = sessionEnables \ {s}
  /\ UNCHANGED targetSession

Forget(s) ==
  /\ sessionEnables' = sessionEnables \ {s}
  /\ targetSession' = [targetSession EXCEPT ![s.controller][s.target] = IF @ = s THEN None ELSE @]

\* The browser attaches a session: by itself to any target, once setAutoAttach was sent,
\* or to the next target the call asks for.  Target.attachedToTarget is the first message
\* about the session and is handled here.
BrowserAttaches(s) ==
  LET a == s.controller IN
  /\ socket[a] = "open"
  /\ s.target \in targets
  /\ session[s] = "none"
  /\ IF s.how = "auto"
     THEN attach[a] # "opening"
     ELSE /\ attach[a] = "attaching" /\ s.target \in left[a]
          /\ \A t \in left[a] : session[Asked(a, t)] = "none"
  /\ session' = [session EXCEPT ![s] = "attached"]
  /\ EnableTarget(s)
  /\ UNCHANGED <<attachVars, socket, targets, intercepting, paused, handlerVars, browserVars,
                 faults>>

\* Target.attachToTarget is answered, after its event: connect enables the session too
\* and awaits that.
AttachAnswered(a, t) ==
  /\ attach[a] = "attaching" /\ t \in left[a] /\ socket[a] = "open"
  /\ session[Asked(a, t)] # "none"
  /\ attach' = [attach EXCEPT ![a] = "enabling"]
  /\ EnableTarget(Asked(a, t))
  /\ UNCHANGED <<left, controller, serverVars, overlapped, socket, sessionVars, intercepting, paused,
                 handlerVars, browserVars, faults>>

\* Mutant: that the socket has closed is not told to whoever waits.
SkipGoneOnly(a, t) ==
  /\ attach[a] = "attaching" /\ t \in left[a]
  /\ \/ t \notin targets /\ NoFault
     \/ Fault
  /\ left' = [left EXCEPT ![a] = @ \ {t}]
  /\ UNCHANGED <<attach, controller, serverVars, overlapped, socket, sessionVars, enableVars,
                 intercepting, paused, handlerVars, browserVars>>

\* The target is gone, or there is no answer: connect goes on with the next one.
AttachToFails(a, t) ==
  /\ attach[a] = "attaching" /\ t \in left[a]
  /\ \/ (t \notin targets \/ socket[a] = "closed") /\ NoFault
     \/ Fault
  /\ left' = [left EXCEPT ![a] = @ \ {t}]
  /\ UNCHANGED <<attach, controller, serverVars, overlapped, socket, sessionVars, enableVars,
                 intercepting, paused, handlerVars, browserVars>>

\* The Fetch.enable of that target has settled, well or badly.
AttachGoesOn(a) ==
  /\ attach[a] = "enabling"
  /\ \E t \in left[a] : /\ session[Asked(a, t)] # "none" /\ enabling[Asked(a, t)] # "sent"
                       /\ left' = [left EXCEPT ![a] = @ \ {t}]
  /\ attach' = [attach EXCEPT ![a] = "attaching"]
  /\ UNCHANGED <<controller, serverVars, overlapped, socket, sessionVars, enableVars,
                 intercepting, paused, handlerVars, browserVars, faults>>

\* Target.detachedFromTarget.
DetachedEvent(s) ==
  /\ socket[s.controller] = "open"
  /\ session[s] = "gone"
  /\ session' = [session EXCEPT ![s] = "detached"]
  /\ Forget(s)
  /\ UNCHANGED <<attachVars, socket, targets, enabling, givenUp, intercepting, paused,
                 handlerVars, browserVars, faults>>

\* The browser executes Fetch.enable, perhaps after the controller has given it up; a
\* success that nobody awaits any more changes nothing else.
BrowserEnables(s) ==
  /\ enabling[s] # "none"
  /\ socket[s.controller] \in {"open", "closing"}
  /\ session[s] = "attached"
  /\ intercepting' = intercepting \cup {s}
  /\ enabling' = [enabling EXCEPT ![s] = "none"]
  /\ UNCHANGED <<attachVars, socket, sessionVars, targetSession, sessionEnables, givenUp, paused,
                 handlerVars, browserVars, faults>>

\* Fetch.enable is refused as the session is gone, times out, or its socket closes.
EnableFails(s) ==
  /\ Alive /\ enabling[s] = "sent"
  /\ \/ /\ session[s] # "attached" /\ NoFault
        /\ enabling' = [enabling EXCEPT ![s] = "none"] /\ UNCHANGED givenUp
     \/ /\ session[s] = "attached" /\ Fault
        /\ enabling' = [enabling EXCEPT ![s] = "abandoned"] /\ givenUp' = givenUp \cup {s}
  /\ Forget(s)
  /\ UNCHANGED <<attachVars, socket, sessionVars, intercepting, paused, handlerVars, browserVars>>

-----------------------------------------------------------------------------
(* The end of sessions *)

\* The browser drops sessions: it pauses nothing in them any more and lets go of what is
\* paused.
Drop(lost) ==
  /\ session' = [s \in Sessions |-> IF s \in lost /\ session[s] = "attached" THEN "gone" ELSE session[s]]
  /\ intercepting' = intercepting \ lost
  /\ resolution' = [p \in Pauses |->
       IF paused[p] \in lost /\ resolution[p] = None THEN "released" ELSE resolution[p]]

\* A socket is closed: by the controller, or by the browser.
SocketCloses(a) ==
  /\ \/ socket[a] = "closing" /\ NoFault
     \/ socket[a] = "open" /\ Fault
  /\ socket' = [socket EXCEPT ![a] = "closed"]
  /\ Drop({s \in Sessions : s.controller = a})
  /\ UNCHANGED <<attachVars, targets, enableVars, paused, handlerVars, executed, reply>>

DestroyTarget(t) ==
  /\ t \in targets
  /\ Fault
  /\ targets' = targets \ {t}
  /\ Drop({s \in Sessions : s.target = t})
  /\ UNCHANGED <<attachVars, socket, enableVars, paused, handlerVars, executed, reply>>

-----------------------------------------------------------------------------
(* Paused requests *)

PauseRequest(p, s) ==
  /\ paused[p] = None
  /\ Cardinality({q \in Pauses : paused[q] # None}) < MaxPaused
  /\ s \in intercepting /\ s.target = p.target
  /\ paused' = [paused EXCEPT ![p] = s]
  /\ UNCHANGED <<attachVars, socket, sessionVars, enableVars, intercepting, handlerVars,
                 browserVars, faults>>

Last(p) == commands[p][Len(commands[p])]

Send(p, command, stage) ==
  /\ commands' = [commands EXCEPT ![p] = Append(@, command)]
  /\ handler' = [handler EXCEPT ![p] = stage]

Over(p) == handler' = [handler EXCEPT ![p] = "over"] /\ UNCHANGED commands

\* handlePaused up to its first await.  A rewrite rule that names a whole url throws;
\* a response without a body needs no getResponseBody.
Begin(p) ==
  CASE p.kind \in {"continue", "keep"} -> Send(p, "continue", "trying")
    [] p.kind = "rewrite" -> Send(p, "rewrite", "trying") \/ Send(p, "fail", "caught")
    [] p.kind = "fulfill" -> handler' = [handler EXCEPT ![p] = "fetching"] /\ UNCHANGED commands
    [] p.kind = "strip" -> Send(p, "body", "trying") \/ Send(p, "fulfill", "trying")

\* Fetch.requestPaused.
PausedEvent(p) ==
  /\ paused[p] # None /\ handler[p] = "none"
  /\ socket[paused[p].controller] = "open"
  /\ Begin(p)
  /\ UNCHANGED <<attachVars, socket, sessionVars, enableVars, intercepting, paused, browserVars,
                 faults>>

\* Mutant: a request whose handling failed goes out as it was.
ContinueAnyway(p) == Send(p, "continue", "caught")

\* The catch blocks: a request fails, a response is left as it was.
Caught(p) ==
  IF p.kind \in {"keep", "strip"} THEN Send(p, "continue", "caught") ELSE Send(p, "fail", "caught")

\* The fetch of a fulfill rule ends: answered, failed, too large or timed out.
FetchEnds(p) ==
  /\ Alive /\ handler[p] = "fetching"
  /\ Send(p, "fulfill", "trying") \/ Caught(p)
  /\ UNCHANGED <<attachVars, socket, sessionVars, enableVars, intercepting, paused, browserVars,
                 faults>>

\* The browser executes the next command, and refuses it when the request is no longer
\* paused.  It may refuse what a command carries.
BrowserExecutes(p) ==
  /\ executed[p] < Len(commands[p])
  /\ socket[paused[p].controller] \in {"open", "closing"}
  /\ executed' = [executed EXCEPT ![p] = @ + 1]
  /\ LET command == commands[p][executed[p] + 1] IN
     \/ /\ resolution[p] = None
        /\ reply' = [reply EXCEPT ![p] = "ok"]
        /\ resolution' = IF command = "body" THEN resolution ELSE [resolution EXCEPT ![p] = command]
        /\ NoFault
     \/ /\ IF resolution[p] = None THEN command \notin {"continue", "fail"} /\ Fault ELSE NoFault
        /\ reply' = [reply EXCEPT ![p] = "error"]
        /\ UNCHANGED resolution
  /\ UNCHANGED <<attachVars, socket, sessionVars, enableVars, intercepting, paused, handlerVars>>

InCommand(p) == handler[p] \in {"trying", "caught"}
Replied(p) == executed[p] = Len(commands[p]) /\ socket[paused[p].controller] = "open"

\* The awaited command succeeded; the body may be too large to send back.
CommandAnswered(p) ==
  /\ InCommand(p) /\ Replied(p) /\ reply[p] = "ok"
  /\ IF Last(p) = "body" THEN Send(p, "fulfill", "trying") \/ Caught(p) ELSE Over(p)
  /\ UNCHANGED <<attachVars, socket, sessionVars, enableVars, intercepting, paused, browserVars,
                 faults>>

\* Mutant: a command that fails is not answered for.
GiveUp(p) == Over(p)

\* The first failure is caught, the second is only counted.
Fail(p) == IF handler[p] = "trying" THEN Caught(p) ELSE Over(p)

\* The awaited command was refused, timed out, or its socket closed.
CommandFails(p) ==
  /\ Alive /\ InCommand(p)
  /\ \/ Replied(p) /\ reply[p] = "error" /\ NoFault
     \/ socket[paused[p].controller] = "closed" /\ NoFault
     \/ Fault
  /\ Fail(p)
  /\ UNCHANGED <<attachVars, socket, sessionVars, enableVars, intercepting, paused, browserVars>>

-----------------------------------------------------------------------------
ServerStep ==
  \/ \E a \in Attaches :
       \/ Accept(a) \/ ClientGivesUp(a) \/ BeginAttach(a) \/ SocketOpens(a) \/ Prepared(a)
       \/ AttachFails(a) \/ AttachDone(a) \/ AttachGoesOn(a)
       \/ \E t \in Targets : AttachAnswered(a, t) \/ AttachToFails(a, t)
  \/ Stop \/ ServerClosed \/ Terminate

SessionStep ==
  \/ \E s \in Sessions :
       \/ BrowserAttaches(s) \/ DetachedEvent(s)
       \/ BrowserEnables(s) \/ EnableFails(s)
  \/ \E a \in Attaches : SocketCloses(a)
  \/ \E t \in Targets : DestroyTarget(t)

PauseStep ==
  \E p \in Pauses :
    \/ \E s \in Sessions : PauseRequest(p, s)
    \/ PausedEvent(p) \/ FetchEnds(p) \/ BrowserExecutes(p)
    \/ CommandAnswered(p) \/ CommandFails(p)

Next == ServerStep \/ SessionStep \/ PauseStep

Spec == Init /\ [][Next]_vars

\* The event loop handles what has arrived, the body of a call comes with it, the fetch ends by
\* its own timer, the browser executes what it is sent on an open socket and closes a socket it
\* is asked to close, and the command line that has posted /stop goes on to signal the process.
\* No fairness for requests, targets, calls of /attach and /stop, or timeouts of commands.
Fairness ==
  /\ \A p \in Pauses :
       /\ WF_vars(PausedEvent(p)) /\ WF_vars(FetchEnds(p)) /\ WF_vars(BrowserExecutes(p))
       /\ WF_vars(CommandAnswered(p)) /\ WF_vars(NoFault /\ CommandFails(p))
  /\ \A s \in Sessions :
       /\ WF_vars(BrowserEnables(s)) /\ WF_vars(NoFault /\ EnableFails(s))
       /\ WF_vars(s.how = "asked" /\ BrowserAttaches(s))
  /\ \A a \in Attaches :
       /\ WF_vars(BeginAttach(a)) /\ WF_vars(SocketOpens(a)) /\ WF_vars(Prepared(a))
       /\ WF_vars(NoFault /\ AttachFails(a))
       /\ WF_vars(AttachDone(a)) /\ WF_vars(AttachGoesOn(a))
       /\ WF_vars(NoFault /\ SocketCloses(a))
       /\ \A t \in Targets :
            WF_vars(AttachAnswered(a, t)) /\ WF_vars(NoFault /\ AttachToFails(a, t))
  /\ WF_vars(ServerClosed) /\ WF_vars(server # "serving" /\ Terminate)

FairSpec == Spec /\ Fairness

-----------------------------------------------------------------------------
(* Properties *)

\* A session holds its target exactly while its Fetch.enable is pending or has succeeded:
\* one session at most intercepts a target for a controller, and a session that failed or
\* went away never keeps the other session of its target from taking over.
SessionsHoldTargets ==
  \A s \in Sessions :
    (s \in sessionEnables) <=> (targetSession[s.controller][s.target] = s)

\* What became of a paused request is what its rule asks for, or the failure the code
\* intends, whatever timed out on the way and whatever is executed late: a request that a
\* rule rewrites or fulfills never goes out as it was, one without a rule never fails, and
\* a response is never lost to the removal of headers.
RuleDecides ==
  \A p \in Pauses : resolution[p] \in {None, "released"} \cup
    CASE p.kind \in {"continue", "keep"} -> {"continue"}
      [] p.kind = "rewrite" -> {"rewrite", "fail"}
      [] p.kind = "fulfill" -> {"fulfill", "fail"}
      [] p.kind = "strip" -> {"fulfill", "continue"}

\* Calls of /attach that do not overlap leave no controller behind: one that is connected is
\* being set up, or is the one the server knows.  Once the server has closed it knows a connected
\* one only of a call that was accepted before and whose client gave up.
NoStrayController ==
  \A a \in Attaches : socket[a] = "open" =>
    \/ Underway(a) \/ overlapped
    \/ controller = a /\ (server = "closed" => a \in deserted)

\* "enables only one interceptor per target": over sockets that stay open, no target is
\* intercepted twice, unless calls of /attach overlapped or the controller gave up a
\* Fetch.enable that the browser then executed all the same.
OneInterceptorPerTarget ==
  \A s1, s2 \in intercepting \ givenUp :
    /\ s1.target = s2.target
    /\ socket[s1.controller] = "open" /\ socket[s2.controller] = "open"
    => s1 = s2 \/ overlapped

\* No request stays paused: it is resolved, or its session ends.
PausesEnd == \A p \in Pauses : (paused[p] # None) ~> (resolution[p] # None)

\* Every call of /attach is answered or refused, whatever the browser drops or refuses on
\* the way: connect waits for nothing that may never come.
CallsEnd == \A a \in Attaches : Pending(a) ~> ~Pending(a)

\* After /stop no socket to the browser stays: not that of a call that was underway and connects
\* when the server has long closed, not that of overlapping calls, nor that of a connect that
\* timed out.  /stop alone does not achieve it (NoStrayController), the signal does.
StopReleasesBrowser ==
  \A a \in Attaches :
    server # "serving" ~> socket[a] \notin {"open", "closing", "abandoned"}

=============================================================================
