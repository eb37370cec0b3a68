------------------------------- MODULE Bridge -------------------------------
(***************************************************************************)
(* The local HTTP bridge between the command line tool and the runtimes    *)
(* that live in browser pages (packages/bridge: runtime-store.ts and       *)
(* server.ts).                                                             *)
(*                                                                         *)
(* A page opens an event stream (GET /connect) for each of its runtimes.   *)
(* A caller makes an HTTP call about a runtime; the bridge writes a request*)
(* on the runtime's stream, the page runs it and posts the response, and   *)
(* the bridge answers the caller.  Timers, lost pages, replaced streams,   *)
(* explicit disconnects, late responses and the closing of the bridge all  *)
(* race with that exchange.  The bridge also remembers the last snapshot   *)
(* it saw, merged with what a rendering server has posted, and answers     *)
(* from it when no page is connected.                                      *)
(*                                                                         *)
(* Node runs each handler to completion, so one handler is one action; the *)
(* continuation of an awaited request runs in the microtask that follows   *)
(* the response, before any other event, and belongs to that action.       *)
(***************************************************************************)
EXTENDS Naturals, FiniteSets

CONSTANTS
  Runtimes,     \* runtime ids
  Streams,      \* event streams, one per accepted GET /connect
  Connections,  \* connection ids that pages present
  Calls,        \* the HTTP calls callers make, each made at most once
  Targets,      \* target ids of a runtime
  Statuses,     \* statuses a target can report
  Reports,      \* what a rendering server can post: <<snapshot, target ids>>, each may be None
  Absent,       \* "this snapshot has no such target"
  None          \* undefined

Snapshots == [Targets -> Statuses \cup {Absent}]

\* A call: a snapshot read of everything (target = None) or of one target, the
\* run of an action, or a wait for a target to reach a status.
Call == [id : Nat,
         kind : {"read", "action", "wait"},
         runtime : Runtimes,
         target : Targets \cup {None},
         status : Statuses \cup {None}]

ASSUME BridgeAssumption ==
  /\ Calls \subseteq Call
  /\ Reports \subseteq (Snapshots \cup {None}) \X ((SUBSET Targets) \cup {None})
  /\ \A c \in Calls : c.kind = "wait" => c.target \in Targets /\ c.status \in Statuses
  /\ None \notin Streams \cup Connections \cup Targets \cup Statuses \cup Snapshots
  /\ Absent \notin Statuses

VARIABLES
  listening,       \* the HTTP server accepts connections
  stream,          \* stream[s] : "unused", "open", "ended" by the bridge, "closed"
  owner,           \* owner[s] : the runtime the stream was opened for
  presented,       \* presented[s] : the connection id the page sent, or None
  status,          \* status[r] : info.status, "absent" when there is no record
  current,         \* current[r] : record.stream
  connectionId,    \* connectionId[r] : info.connectionId
  pending,         \* pending[r] : record.pending, the calls awaiting the page
  snapshot,        \* snapshot[r] : record.lastSnapshot, what is remembered
  serverSnapshot,  \* serverSnapshot[r] : record.serverSnapshot
  knownTargets,    \* knownTargets[r] : ids in record.lastTargets
  page,            \* page[r] : the snapshot inside the page, now
  phase,           \* phase[c] : where the handler of call c stands
  exchange,        \* exchange[c] : the request of call c on its way to and from the page
  response         \* response[c] : what the page answered, until it is handled

streamVars == <<stream, owner, presented>>
recordVars == <<status, current, connectionId>>
cacheVars == <<snapshot, serverSnapshot, knownTargets>>
wireVars == <<exchange, response>>
vars == <<listening, stream, owner, presented, status, current, connectionId, pending,
          snapshot, serverSnapshot, knownTargets, page, phase, exchange, response>>

Outcomes == {"ok", "unmet", "failed", "timeout", "disconnected", "server_only", "not_found"}
Phases == {"idle", "awaiting", "polling"} \cup Outcomes

Nothing == [t \in Targets |-> Absent]
NoResponse == [verdict |-> "none", snapshot |-> Nothing]

TypeOK ==
  /\ listening \in BOOLEAN
  /\ stream \in [Streams -> {"unused", "open", "ended", "closed"}]
  /\ owner \in [Streams -> Runtimes \cup {None}]
  /\ presented \in [Streams -> Connections \cup {None}]
  /\ status \in [Runtimes -> {"absent", "connected", "server", "disconnected"}]
  /\ current \in [Runtimes -> Streams \cup {None}]
  /\ connectionId \in [Runtimes -> Connections \cup {None}]
  /\ pending \in [Runtimes -> SUBSET Calls]
  /\ snapshot \in [Runtimes -> Snapshots \cup {None}]
  /\ serverSnapshot \in [Runtimes -> Snapshots \cup {None}]
  /\ knownTargets \in [Runtimes -> SUBSET Targets]
  /\ page \in [Runtimes -> Snapshots]
  /\ phase \in [Calls -> Phases]
  /\ exchange \in [Calls -> {"none", "sent", "executed", "consumed"}]
  /\ response \in [Calls -> [verdict : {"none", "ok", "unmet", "failed"}, snapshot : Snapshots]]

Init ==
  /\ listening = TRUE
  /\ stream = [s \in Streams |-> "unused"]
  /\ owner = [s \in Streams |-> None]
  /\ presented = [s \in Streams |-> None]
  /\ status = [r \in Runtimes |-> "absent"]
  /\ current = [r \in Runtimes |-> None]
  /\ connectionId = [r \in Runtimes |-> None]
  /\ pending = [r \in Runtimes |-> {}]
  /\ snapshot = [r \in Runtimes |-> None]
  /\ serverSnapshot = [r \in Runtimes |-> None]
  /\ knownTargets = [r \in Runtimes |-> {}]
  /\ page = [r \in Runtimes |-> Nothing]
  /\ phase = [c \in Calls |-> "idle"]
  /\ exchange = [c \in Calls |-> "none"]
  /\ response = [c \in Calls |-> NoResponse]

-----------------------------------------------------------------------------
(* Connections *)

\* Mutant: the first connection id is kept for good.
KeepFirstConnectionId(r, s, k) ==
  /\ status' = [status EXCEPT ![r] = "connected"]
  /\ current' = [current EXCEPT ![r] = s]
  /\ connectionId' = [connectionId EXCEPT ![r] = IF @ = None THEN k ELSE @]

\* Mutant: the connection id is recorded in place of the stream.
ConnectionIdAsStream(r, s, k) ==
  /\ status' = [status EXCEPT ![r] = "connected"]
  /\ current' = [current EXCEPT ![r] = k]
  /\ connectionId' = [connectionId EXCEPT ![r] = IF k = None THEN @ ELSE k]

\* store.connect: a known runtime id takes the new stream over without closing the
\* old one and without touching its pending requests, and keeps its old connection id
\* when the page presents none.
RecordConnection(r, s, k) ==
  /\ status' = [status EXCEPT ![r] = "connected"]
  /\ current' = [current EXCEPT ![r] = s]
  /\ connectionId' = [connectionId EXCEPT ![r] = IF k = None THEN @ ELSE k]

\* GET /connect, handled as it arrives.
Connect(s, r, k) ==
  /\ listening
  /\ stream[s] = "unused"
  /\ stream' = [stream EXCEPT ![s] = "open"]
  /\ owner' = [owner EXCEPT ![s] = r]
  /\ presented' = [presented EXCEPT ![s] = k]
  /\ RecordConnection(r, s, k)
  /\ UNCHANGED <<listening, pending, cacheVars, page, phase, wireVars>>

\* Mutant: the rejected requests stay in the pending map.
KeepPending(r) ==
  /\ status' = [status EXCEPT ![r] = "disconnected"]
  /\ current' = [current EXCEPT ![r] = None]
  /\ phase' = [c \in Calls |-> IF c \in pending[r] THEN "disconnected" ELSE phase[c]]
  /\ UNCHANGED <<connectionId, pending>>

\* Mutant: the pending map is emptied, timers included, and nobody is told.
ForgetCallers(r) ==
  /\ status' = [status EXCEPT ![r] = "disconnected"]
  /\ current' = [current EXCEPT ![r] = None]
  /\ pending' = [pending EXCEPT ![r] = {}]
  /\ UNCHANGED <<connectionId, phase>>

\* Mutant: the loss of one runtime rejects the requests of all.
RejectEverybody(r) ==
  /\ status' = [status EXCEPT ![r] = "disconnected"]
  /\ current' = [current EXCEPT ![r] = None]
  /\ pending' = [q \in Runtimes |-> {}]
  /\ phase' = [c \in Calls |-> IF c \in pending[c.runtime] THEN "disconnected" ELSE phase[c]]
  /\ UNCHANGED connectionId

\* store.disconnect once the stream is known to be the current one: every pending
\* request of the runtime is rejected, whichever stream it was sent on.
Disconnect(r) ==
  /\ status' = [status EXCEPT ![r] = "disconnected"]
  /\ current' = [current EXCEPT ![r] = None]
  /\ pending' = [pending EXCEPT ![r] = {}]
  /\ phase' = [c \in Calls |-> IF c \in pending[r] THEN "disconnected" ELSE phase[c]]
  /\ UNCHANGED connectionId

\* Mutant: the close event of any stream of a connected runtime counts.
AnyStream(s) == current[owner[s]] # None

\* The close event of a replaced stream must not touch the record.
IsCurrent(s) == current[owner[s]] = s

\* The response 'close' event: the page, the network or the bridge itself ended the stream.
StreamClosed(s) ==
  /\ stream[s] \in {"open", "ended"}
  /\ stream' = [stream EXCEPT ![s] = "closed"]
  /\ IF IsCurrent(s) THEN Disconnect(owner[s]) ELSE UNCHANGED <<recordVars, pending, phase>>
  /\ UNCHANGED <<listening, owner, presented, cacheVars, page, wireVars>>

\* Mutant: whoever posts a disconnect ends the connection of the runtime.
AnyConnection(r, k) == current[r] # None

\* A disconnect must name the connection that is current.
ConnectionMatches(r, k) == current[r] # None /\ connectionId[r] = k

\* POST /runtimes/:id/disconnect that names the recorded connection; any other
\* one is refused with 409 and changes nothing.
DisconnectConnection(r, k) ==
  /\ ConnectionMatches(r, k)
  /\ stream' = [stream EXCEPT ![current[r]] = "ended"]
  /\ Disconnect(r)
  /\ UNCHANGED <<listening, owner, presented, cacheVars, page, wireVars>>

\* close: store.disconnectAll, then the server stops listening.  Only the current
\* streams are ended: a stream that was replaced stays open.
Close ==
  /\ listening
  /\ listening' = FALSE
  /\ stream' = [s \in Streams |->
       IF \E r \in Runtimes : current[r] = s THEN "ended" ELSE stream[s]]
  /\ status' = [r \in Runtimes |-> IF status[r] = "absent" THEN "absent" ELSE "disconnected"]
  /\ current' = [r \in Runtimes |-> None]
  /\ pending' = [r \in Runtimes |-> {}]
  /\ phase' = [c \in Calls |-> IF c \in pending[c.runtime] THEN "disconnected" ELSE phase[c]]
  /\ UNCHANGED <<owner, presented, connectionId, cacheVars, page, wireVars>>

-----------------------------------------------------------------------------
(* The remembered snapshot *)

\* mergeSnapshots: the second snapshot wins on the targets it has.
Merge(first, second) ==
  IF first = None THEN second
  ELSE IF second = None THEN first
  ELSE [t \in Targets |-> IF second[t] # Absent THEN second[t] ELSE first[t]]

\* POST /server-runtimes: a rendering server posts its targets, its snapshot or both.
\* What it posts is merged under what was remembered before.
SyncServerRuntime(r, snap, known) ==
  /\ status' = [status EXCEPT ![r] = IF current[r] = None THEN "server" ELSE "connected"]
  /\ serverSnapshot' = [serverSnapshot EXCEPT ![r] = IF snap = None THEN @ ELSE snap]
  /\ snapshot' = [snapshot EXCEPT ![r] = Merge(snap, @)]
  /\ knownTargets' = [knownTargets EXCEPT ![r] = IF known = None THEN @ ELSE known]
  /\ UNCHANGED <<listening, streamVars, current, connectionId, pending, page, phase, wireVars>>

\* Mutant: the page's snapshot replaces what the rendering server reported.
RememberPageOnly(r, snap) == snapshot' = [snapshot EXCEPT ![r] = snap]

\* store.cacheResult of a snapshot the page answered.
Remember(r, snap) ==
  snapshot' = [snapshot EXCEPT ![r] = Merge(serverSnapshot[r], snap)]

CacheMatches(c) ==
  /\ snapshot[c.runtime] # None
  /\ snapshot[c.runtime][c.target] = c.status

HasCachedTarget(c) ==
  \/ snapshot[c.runtime] # None /\ snapshot[c.runtime][c.target] # Absent
  \/ c.target \in knownTargets[c.runtime]

-----------------------------------------------------------------------------
(* The calls *)

Awaiting(c) == c \in pending[c.runtime]

Answer(c, outcome) ==
  /\ phase' = [phase EXCEPT ![c] = outcome]
  /\ UNCHANGED <<pending, exchange>>

\* store.request: the request gets a fresh id, a timer and an entry in the pending
\* map, and is written on the current stream.
SendRequest(c) ==
  /\ pending' = [pending EXCEPT ![c.runtime] = @ \cup {c}]
  /\ phase' = [phase EXCEPT ![c] = "awaiting"]
  /\ exchange' = [exchange EXCEPT ![c] = "sent"]

Refusal == [absent |-> "not_found", disconnected |-> "disconnected", server |-> "server_only"]

\* requestConnectedRuntime.
RequestConnectedRuntime(c) ==
  \/ status[c.runtime] = "connected" /\ SendRequest(c)
  \/ status[c.runtime] # "connected" /\ Answer(c, Refusal[status[c.runtime]])

\* GET /runtimes/:id/snapshot: from the page when it is connected, else from memory.
\* A GET is handled as it arrives; the handlers of the POSTs may still be reading their
\* body when the bridge closes.
Read(c) ==
  /\ listening
  /\ c.kind = "read"
  /\ phase[c] = "idle"
  /\ IF status[c.runtime] # "connected" /\ snapshot[c.runtime] # None
     THEN Answer(c, "ok")
     ELSE RequestConnectedRuntime(c)
  /\ UNCHANGED <<listening, streamVars, recordVars, cacheVars, page, response>>

\* POST /runtimes/:id/actions/:name/run.
RunAction(c) ==
  /\ c.kind = "action"
  /\ phase[c] = "idle"
  /\ RequestConnectedRuntime(c)
  /\ UNCHANGED <<listening, streamVars, recordVars, cacheVars, page, response>>

\* POST /runtimes/:id/wait-for: the remembered snapshot is consulted before
\* anything else; a runtime without a page is polled in memory.
WaitFor(c) ==
  /\ c.kind = "wait"
  /\ phase[c] = "idle"
  /\ CASE CacheMatches(c) -> Answer(c, "ok")
       [] ~CacheMatches(c) /\ status[c.runtime] # "connected" /\ HasCachedTarget(c) ->
            Answer(c, "polling")
       [] OTHER -> RequestConnectedRuntime(c)
  /\ UNCHANGED <<listening, streamVars, recordVars, cacheVars, page, response>>

\* waitForCachedTarget looks again after its 50 ms sleep.
PollMatches(c) ==
  /\ phase[c] = "polling"
  /\ CacheMatches(c)
  /\ Answer(c, "ok")
  /\ UNCHANGED <<listening, streamVars, recordVars, cacheVars, page, response>>

\* The deadline passed during the sleep: the snapshot that is then read is
\* reported but no longer compared.
PollDeadline(c) ==
  /\ phase[c] = "polling"
  /\ Answer(c, "unmet")
  /\ UNCHANGED <<listening, streamVars, recordVars, cacheVars, page, response>>

\* The timer of a pending request.
RequestTimeout(c) ==
  /\ Awaiting(c)
  /\ pending' = [pending EXCEPT ![c.runtime] = @ \ {c}]
  /\ phase' = [phase EXCEPT ![c] = "timeout"]
  /\ UNCHANGED <<listening, streamVars, recordVars, cacheVars, page, wireVars>>

\* POST /runtimes/:id/responses/:requestId, and the handler it resumes.  A response
\* nobody awaits any more is refused with 404.
HandleResponse(c) ==
  /\ exchange[c] = "executed"
  /\ exchange' = [exchange EXCEPT ![c] = "consumed"]
  /\ response' = [response EXCEPT ![c] = NoResponse]
  /\ \/ /\ Awaiting(c)
        /\ pending' = [pending EXCEPT ![c.runtime] = @ \ {c}]
        /\ phase' = [phase EXCEPT ![c] = response[c].verdict]
        /\ IF c.kind = "read" /\ response[c].verdict = "ok"
           THEN Remember(c.runtime, response[c].snapshot)
           ELSE UNCHANGED snapshot
     \/ ~Awaiting(c) /\ UNCHANGED <<pending, phase, snapshot>>
  /\ UNCHANGED <<listening, streamVars, recordVars, serverSnapshot, knownTargets, page>>

-----------------------------------------------------------------------------
(* The page *)

\* A target inside the page changes its status, appears or is unregistered.
PageUpdate(r, t, value) ==
  /\ page' = [page EXCEPT ![r][t] = value]
  /\ UNCHANGED <<listening, streamVars, recordVars, pending, cacheVars, phase, wireVars>>

\* What runtime.getSnapshot(query) returns for the query of the call.
PageSnapshot(c) ==
  [t \in Targets |-> IF c.target \in {None, t} THEN page[c.runtime][t] ELSE Absent]

\* What the page can answer now: a wait succeeds only while the status holds, and
\* can fail at any time by its own timeout; anything can throw.
Verdicts(c) ==
  CASE c.kind = "wait" /\ page[c.runtime][c.target] = c.status -> {"ok", "unmet", "failed"}
    [] c.kind = "wait" /\ page[c.runtime][c.target] # c.status -> {"unmet", "failed"}
    [] OTHER -> {"ok", "failed"}

\* The page runs the request it read from its stream and posts the response.
Execute(c, verdict) ==
  /\ exchange[c] = "sent"
  /\ verdict \in Verdicts(c)
  /\ exchange' = [exchange EXCEPT ![c] = "executed"]
  /\ response' = [response EXCEPT ![c] =
       [verdict |-> verdict,
        snapshot |-> IF c.kind = "read" /\ verdict = "ok" THEN PageSnapshot(c) ELSE Nothing]]
  /\ UNCHANGED <<listening, streamVars, recordVars, pending, cacheVars, page, phase>>

-----------------------------------------------------------------------------
StreamStep ==
  \/ \E s \in Streams, r \in Runtimes, k \in Connections \cup {None} : Connect(s, r, k)
  \/ \E s \in Streams : StreamClosed(s)
  \/ \E r \in Runtimes, k \in Connections : DisconnectConnection(r, k)
  \/ Close

CallStep ==
  \E c \in Calls :
    \/ Read(c) \/ RunAction(c) \/ WaitFor(c)
    \/ PollMatches(c) \/ PollDeadline(c)
    \/ RequestTimeout(c) \/ HandleResponse(c)

PageStep ==
  \/ \E r \in Runtimes, t \in Targets, value \in Statuses \cup {Absent} : PageUpdate(r, t, value)
  \/ \E c \in Calls, verdict \in {"ok", "unmet", "failed"} : Execute(c, verdict)

ServerStep ==
  \E r \in Runtimes, report \in Reports : SyncServerRuntime(r, report[1], report[2])

Next == StreamStep \/ CallStep \/ PageStep \/ ServerStep

Spec == Init /\ [][Next]_vars

\* Only timers are fair: setTimeout fires.  Nothing is assumed of pages, of the
\* network, of rendering servers or of callers.
Fairness == \A c \in Calls : WF_vars(RequestTimeout(c)) /\ WF_vars(PollDeadline(c))

FairSpec == Spec /\ Fairness

-----------------------------------------------------------------------------
(* Properties *)

\* A runtime counts as connected exactly while it holds a stream, and that stream is a
\* live one that was opened for it, under the connection id the record shows: the
\* bridge never writes a request on a dead stream, and an explicit disconnect that
\* names an older connection cannot hit the newer one.
StreamBound ==
  \A r \in Runtimes :
    /\ (status[r] = "connected") <=> (current[r] # None)
    /\ current[r] # None =>
         /\ stream[current[r]] = "open"
         /\ owner[current[r]] = r
         /\ presented[current[r]] \in {None, connectionId[r]}

\* The pending map and the suspended handlers agree: a caller is suspended exactly while
\* its request has an entry (and so a timer) in the map of its runtime and the response
\* that would resume it has not been thrown away; no entry survives its caller, and none
\* outlives the connection of its runtime.
PendingMatchesCallers ==
  /\ \A c \in Calls :
       /\ (phase[c] = "awaiting") <=> Awaiting(c)
       /\ Awaiting(c) => exchange[c] \in {"sent", "executed"}
  /\ \A r \in Runtimes :
       /\ \A c \in pending[r] : c.runtime = r
       /\ pending[r] # {} => current[r] # None

\* Whatever pages answered since, in whatever order and through whatever query, every
\* target the rendering server reported last is still in the remembered snapshot.
ServerTargetsKept ==
  \A r \in Runtimes : serverSnapshot[r] # None =>
    /\ snapshot[r] # None
    /\ \A t \in Targets : serverSnapshot[r][t] # Absent => snapshot[r][t] # Absent

\* A runtime loses its connection only when the stream it is connected by ends: the
\* late close event of a replaced stream never disconnects the new connection.
OwnStreamOnly ==
  [][\A r \in Runtimes :
       current[r] # None /\ current'[r] = None => stream'[current[r]] # "open"]_vars

\* A caller is told "disconnected" while it waits only in the very step that
\* disconnects the runtime it asked; no other runtime's loss reaches it.
DisconnectBlamesOwnRuntime ==
  [][\A c \in Calls :
       phase[c] = "awaiting" /\ phase'[c] = "disconnected" =>
         status[c.runtime] = "connected" /\ status'[c.runtime] = "disconnected"]_vars

\* Every call is answered once, commands only after the page ran them, and no call is
\* left open: the bridge implements RemoteCall.
Abstract == INSTANCE RemoteCall WITH
  answer <- [c \in Calls |->
    CASE phase[c] = "idle" -> "unasked"
      [] phase[c] \in {"awaiting", "polling"} -> "open"
      [] phase[c] \in {"ok", "unmet"} -> "ok"
      [] OTHER -> "error"],
  query <- [c \in Calls |-> c.kind # "action"],
  runs <- [c \in Calls |-> IF exchange[c] \in {"executed", "consumed"} THEN 1 ELSE 0]

ImplementsRemoteCall == Abstract!Spec

-----------------------------------------------------------------------------
(* What the documentation says and the code does not do (see the README) *)

\* "wait-for succeeds only when the real business condition is satisfied": a wait that is
\* answered from memory while the page is connected agrees with the page.
WaitSuccessIsReal ==
  [][\A c \in Calls :
       /\ c.kind = "wait" /\ phase[c] = "idle" /\ phase'[c] = "ok"
       /\ status[c.runtime] = "connected"
       => page[c.runtime][c.target] = c.status]_vars

\* "server-rendered: server render completed", and "divebell wait-for modern:ssr
\* server-rendered" waits for it: as long as no page ever connected, the remembered status
\* of a target is the one the rendering server posted last.
ServerStatusVisible ==
  \A r \in Runtimes, t \in Targets :
    /\ \A s \in Streams : owner[s] # r
    /\ serverSnapshot[r] # None /\ serverSnapshot[r][t] # Absent
    => snapshot[r][t] = serverSnapshot[r][t]
=============================================================================
