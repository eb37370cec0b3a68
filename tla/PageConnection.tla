--------------------------- MODULE PageConnection ---------------------------
(***************************************************************************)
(* The script that the command line tool injects into every page           *)
(* (packages/cli/src/features/bridge/inject.ts), the registry of runtimes  *)
(* it watches (packages/core/src/runtime/window.ts), and the connection    *)
(* part of Bridge at the other end of the wire.                            *)
(*                                                                         *)
(* The script keeps one connection per registered runtime.  A connection   *)
(* opens an event source (GET /connect), opens another one when that fails,*)
(* and when its runtime is unregistered, or the page is about to unload,   *)
(* posts /disconnect and closes the event source only once that post has   *)
(* been answered or has failed.  Page and bridge run at the same time: each*)
(* GET and each POST is handled at any later time and in any order, streams*)
(* are cut, and the bridge restarts with nothing remembered.               *)
(*                                                                         *)
(* An event source that the script does not close reconnects by itself; a  *)
(* reconnection is an attempt of its own here, so Streams are the attempts *)
(* to open a stream, numbered in the order the page makes them.  How long a *)
(* reconnect waits (the attempt counter) is left out.                      *)
(***************************************************************************)
EXTENDS Naturals, FiniteSets

CONSTANTS
  Runtimes,     \* runtime ids the page's code installs
  Connections,  \* connection ids, numbers in the order of their creation
  Streams,      \* attempts to open a stream, numbers in the order they are made
  MaxInstalls,  \* bound: calls of installDivebellOnWindow
  MaxLoads,     \* bound: documents loaded into the tab
  MaxFaults,    \* bound: cut streams, lost posts, restarts, slow answers, killed pages
  None          \* undefined

ASSUME PageAssumption ==
  /\ Connections \subseteq Nat /\ IsFiniteSet(Connections)
  /\ Streams \subseteq Nat /\ IsFiniteSet(Streams)
  /\ None \notin Runtimes \cup Connections \cup Streams
  /\ {MaxInstalls, MaxFaults} \subseteq Nat /\ MaxLoads \in Nat \ {0}

VARIABLES
  registered,   \* ids in the registry of the page
  default,      \* the runtime in globalThis.__DIVEBELL__
  hasRegistry,  \* globalThis.__DIVEBELL_REGISTRY__ exists
  watching,     \* the script has subscribed to the registry
  stopped,      \* the manager's stopped flag
  connection,   \* connection[r] : the manager's connections map
  runtimeOf,    \* runtimeOf[k] : the runtime connection k was created for
  closed,       \* connections with connectionStopped, or whose page is gone
  source,       \* source[k] : the connection's `stream` variable
  retrying,     \* connections whose reconnect timer is armed
  closing,      \* closing[k] : activeStream, to be closed when the post settles
  post,         \* post[k] : the POST /disconnect of connection k
  client,       \* client[s] : the page's end of attempt s
  attemptOf,    \* attemptOf[s] : the connection that made attempt s
  cut,          \* attempts whose network connection is broken
  stream, owner, presented, status, current, connectionId,  \* as in Bridge
  listening, pending, snapshot, serverSnapshot, knownTargets,
  page, phase, exchange, response,  \* the rest of Bridge, idle as there are no calls
  usurped,      \* history: runtimes taken over from a live stream by an older attempt
  installs, loads, faults \* counted against their bounds

registryVars == <<registered, default, hasRegistry>>
managerVars == <<watching, stopped, connection, runtimeOf>>
linkVars == <<closed, source, retrying, closing, post>>
wireVars == <<client, attemptOf, cut>>
idleVars == <<listening, pending, snapshot, serverSnapshot, knownTargets, page, phase, exchange, response>>
bridgeVars == <<stream, owner, presented, status, current, connectionId, idleVars>>
boundVars == <<installs, loads, faults>>
vars == <<registered, default, hasRegistry, watching, stopped, connection, runtimeOf, closed,
          source, retrying, closing, post, client, attemptOf, cut, stream, owner, presented,
          status, current, connectionId, listening, pending, snapshot, serverSnapshot,
          knownTargets, page, phase, exchange, response, usurped, installs, loads, faults>>

\* The bridge without calls: only its connections matter here.
B == INSTANCE Bridge WITH
  Calls <- {}, Targets <- {}, Statuses <- {}, Reports <- {}, Absent <- None

TypeOK ==
  /\ registered \in SUBSET Runtimes
  /\ default \in Runtimes \cup {None}
  /\ {hasRegistry, watching, stopped} \subseteq BOOLEAN
  /\ connection \in [Runtimes -> Connections \cup {None}]
  /\ runtimeOf \in [Connections -> Runtimes \cup {None}]
  /\ closed \in SUBSET Connections
  /\ source \in [Connections -> Streams \cup {None}]
  /\ retrying \in SUBSET Connections
  /\ closing \in [Connections -> Streams \cup {None}]
  /\ post \in [Connections -> {"none", "sent", "answered", "settled"}]
  /\ client \in [Streams -> {"unused", "connecting", "open", "closed"}]
  /\ attemptOf \in [Streams -> Connections \cup {None}]
  /\ cut \in SUBSET Streams
  /\ B!TypeOK
  /\ usurped \in SUBSET Runtimes
  /\ installs \in 0..MaxInstalls
  /\ loads \in 1..MaxLoads
  /\ faults \in 0..MaxFaults

Init ==
  /\ registered = {}
  /\ default = None
  /\ hasRegistry = FALSE
  /\ watching = FALSE
  /\ stopped = FALSE
  /\ connection = [r \in Runtimes |-> None]
  /\ runtimeOf = [k \in Connections |-> None]
  /\ closed = {}
  /\ source = [k \in Connections |-> None]
  /\ retrying = {}
  /\ closing = [k \in Connections |-> None]
  /\ post = [k \in Connections |-> "none"]
  /\ client = [s \in Streams |-> "unused"]
  /\ attemptOf = [s \in Streams |-> None]
  /\ cut = {}
  /\ B!Init
  /\ usurped = {}
  /\ installs = 0
  /\ loads = 1
  /\ faults = 0

Fault == faults < MaxFaults /\ faults' = faults + 1
NoFault == UNCHANGED faults

-----------------------------------------------------------------------------
(* Connections of the manager *)

Created == {k \in Connections : runtimeOf[k] # None}
Unused == {s \in Streams : client[s] = "unused"}

\* The n smallest members: ids and attempts are given out in order.
Smallest(S, n) == {x \in S : Cardinality({y \in S : y < x}) < n}
Pairings(S, T) == {f \in [S -> T] : \A x, y \in S : f[x] = f[y] => x = y}

Held(map) == {map[r] : r \in Runtimes} \ {None}

\* createConnection and open, for the runtimes in new: id[r] is the connection of r and
\* first[r] its first attempt.
Open(new, id, first) ==
  /\ connection' = [r \in Runtimes |-> IF r \in new THEN id[r] ELSE connection[r]]
  /\ runtimeOf' = [k \in Connections |->
       IF \E r \in new : id[r] = k THEN CHOOSE r \in new : id[r] = k ELSE runtimeOf[k]]
  /\ source' = [k \in Connections |->
       IF \E r \in new : id[r] = k THEN first[CHOOSE r \in new : id[r] = k] ELSE source[k]]
  /\ client' = [s \in Streams |-> IF \E r \in new : first[r] = s THEN "connecting" ELSE client[s]]
  /\ attemptOf' = [s \in Streams |->
       IF \E r \in new : first[r] = s THEN id[CHOOSE r \in new : first[r] = s] ELSE attemptOf[s]]
  /\ UNCHANGED <<closed, retrying, closing, post, cut>>

OpenAll(new) ==
  \E id \in Pairings(new, Smallest(Connections \ Created, Cardinality(new))),
     first \in Pairings(new, Smallest(Unused, Cardinality(new))) : Open(new, id, first)

\* Mutant: the runtime is remembered in place of the event source to close.
ForgetSource(old) ==
  /\ closed' = closed \cup old
  /\ retrying' = retrying \ old
  /\ closing' = [k \in Connections |-> IF k \in old THEN runtimeOf[k] ELSE closing[k]]
  /\ source' = [k \in Connections |-> IF k \in old THEN None ELSE source[k]]
  /\ post' = [k \in Connections |-> IF k \in old THEN "sent" ELSE post[k]]

\* connection.close(), for the connections in old.
Shut(old) ==
  /\ closed' = closed \cup old
  /\ retrying' = retrying \ old
  /\ closing' = [k \in Connections |-> IF k \in old THEN source[k] ELSE closing[k]]
  /\ source' = [k \in Connections |-> IF k \in old THEN None ELSE source[k]]
  /\ post' = [k \in Connections |-> IF k \in old THEN "sent" ELSE post[k]]

-----------------------------------------------------------------------------
(* The application: installs and uninstalls runtimes *)

\* installDivebellOnWindow: the registry is created on first use and tells its listener.
\* An id that is taken throws, a runtime that is registered is returned: neither changes
\* anything.  The manager's register skips what its map already holds.
Install(r) ==
  /\ r \notin registered
  /\ installs < MaxInstalls /\ installs' = installs + 1
  /\ registered' = registered \cup {r}
  /\ hasRegistry' = TRUE
  /\ default' = IF default = None THEN r ELSE default   \* host.__DIVEBELL__ ??= runtime
  /\ IF watching /\ connection[r] = None
     THEN OpenAll({r})
     ELSE UNCHANGED <<connection, runtimeOf, linkVars, wireVars>>
  /\ UNCHANGED <<watching, stopped, bridgeVars, usurped, loads, faults>>

\* Mutant: only a default that has a successor is replaced.
ReplaceDefault(r) ==
  IF default # r \/ registered = {r} THEN UNCHANGED default
  ELSE default' \in registered \ {r}

\* The next default is the first of the list; the order of the list is left out.
NextDefault(r) ==
  IF default # r THEN UNCHANGED default
  ELSE IF registered = {r} THEN default' = None
  ELSE default' \in registered \ {r}

\* uninstallDivebellFromWindow.
Uninstall(r) ==
  /\ r \in registered
  /\ registered' = registered \ {r}
  /\ NextDefault(r)
  /\ IF watching /\ connection[r] # None
     THEN /\ connection' = [connection EXCEPT ![r] = None]
          /\ Shut({connection[r]})
     ELSE UNCHANGED <<connection, linkVars>>
  /\ UNCHANGED <<hasRegistry, watching, stopped, runtimeOf, wireVars, bridgeVars, usurped, boundVars>>

-----------------------------------------------------------------------------
(* The manager *)

\* Mutant: the runtimes that were there before the script looked are missed.
SubscribeOnly ==
  /\ ~stopped /\ ~watching /\ hasRegistry
  /\ watching' = TRUE
  /\ UNCHANGED <<stopped, registryVars, connection, runtimeOf, linkVars, wireVars,
                 bridgeVars, usurped, boundVars>>

\* waitForRegistry finds the registry: it connects what is listed and subscribes.
WaitForRegistry ==
  /\ ~stopped /\ ~watching /\ hasRegistry
  /\ watching' = TRUE
  /\ OpenAll(registered)
  /\ UNCHANGED <<stopped, registryVars, bridgeVars, usurped, boundVars>>

\* manager.close, called before the page unloads; the page may yet stay.
CloseManager ==
  /\ ~stopped
  /\ stopped' = TRUE
  /\ watching' = FALSE
  /\ Shut(Held(connection))
  /\ connection' = [r \in Runtimes |-> None]
  /\ UNCHANGED <<registryVars, runtimeOf, wireVars, bridgeVars, usurped, boundVars>>

\* The document is replaced by a new one, in which the script starts again: its event
\* sources close and its callbacks never run; posts in flight stay (keepalive).  A page
\* that is killed says nothing first.
Unload ==
  /\ loads < MaxLoads
  /\ loads' = loads + 1
  /\ IF stopped THEN NoFault ELSE Fault
  /\ registered' = {} /\ default' = None /\ hasRegistry' = FALSE
  /\ watching' = FALSE /\ stopped' = FALSE
  /\ connection' = [r \in Runtimes |-> None]
  /\ closed' = Created
  /\ source' = [k \in Connections |-> None]
  /\ closing' = [k \in Connections |-> None]
  /\ retrying' = {}
  /\ client' = [s \in Streams |-> IF client[s] = "unused" THEN "unused" ELSE "closed"]
  /\ UNCHANGED <<runtimeOf, post, attemptOf, cut, bridgeVars, usurped, installs>>

-----------------------------------------------------------------------------
(* A connection *)

Attempt(k, s) ==
  /\ Smallest(Unused, 1) = {s}
  /\ client' = [client EXCEPT ![s] = "connecting"]
  /\ attemptOf' = [attemptOf EXCEPT ![s] = k]

\* The "connected" event reaches the page.
ConnectedEvent(s) ==
  /\ client[s] = "connecting"
  /\ stream[s] = "open" /\ s \notin cut
  /\ client' = [client EXCEPT ![s] = "open"]
  /\ UNCHANGED <<registryVars, managerVars, linkVars, attemptOf, cut, bridgeVars, usurped, boundVars>>

\* The page's end of a stream fails: the network broke or the bridge ended the stream.
Fails(s) ==
  /\ client[s] \in {"connecting", "open"}
  /\ s \in cut \/ stream[s] \in {"ended", "closed"}

\* Mutant: only a stream that was open is retried.
RetryOpened(k, s) ==
  retrying' = IF source[k] = s /\ client[s] = "open" THEN retrying \cup {k} ELSE retrying

\* The timer is armed only while the connection is wanted; `stream` is undefined once
\* it is closed.
Retry(k, s) == retrying' = IF source[k] = s THEN retrying \cup {k} ELSE retrying

\* onerror: closes `stream` and plans a reconnect.  After close() there is nothing in
\* `stream` to close, and the browser may reconnect by itself (BrowserReconnects).
ErrorEvent(s) ==
  /\ Fails(s)
  /\ LET k == attemptOf[s] IN
     /\ source' = [source EXCEPT ![k] = IF @ = s THEN None ELSE @]
     /\ Retry(k, s)
  /\ client' = [client EXCEPT ![s] = "closed"]
  /\ UNCHANGED <<registryVars, managerVars, closed, closing, post, attemptOf, cut,
                 bridgeVars, usurped, boundVars>>

\* The reconnect timer: open() makes a new event source.
RetryTimer(k) ==
  /\ k \in retrying
  /\ retrying' = retrying \ {k}
  /\ IF k \in closed
     THEN UNCHANGED <<source, client, attemptOf>>
     ELSE \E s \in Unused : Attempt(k, s) /\ source' = [source EXCEPT ![k] = s]
  /\ UNCHANGED <<registryVars, managerVars, closed, closing, post, cut, bridgeVars, usurped, boundVars>>

\* The event source that close() keeps until the post settles failed meanwhile, and the
\* post takes so long that the browser reconnects.
BrowserReconnects(k) ==
  /\ closing[k] # None /\ client[closing[k]] = "closed"
  /\ Fault
  /\ \E s \in Unused : Attempt(k, s) /\ closing' = [closing EXCEPT ![k] = s]
  /\ UNCHANGED <<registryVars, managerVars, closed, source, retrying, post, cut,
                 bridgeVars, usurped, installs, loads>>

\* Mutant: a post that fails closes nothing.
CloseIfAnswered(k) ==
  IF post[k] = "answered" /\ closing[k] # None
  THEN client' = [client EXCEPT ![closing[k]] = "closed"] /\ closing' = [closing EXCEPT ![k] = None]
  ELSE UNCHANGED <<client, closing>>

\* .finally(() => activeStream?.close())
CloseActiveStream(k) ==
  IF closing[k] # None
  THEN client' = [client EXCEPT ![closing[k]] = "closed"] /\ closing' = [closing EXCEPT ![k] = None]
  ELSE UNCHANGED <<client, closing>>

\* The post is answered, or fails before it has reached the bridge.
PostSettles(k) ==
  /\ \/ post[k] = "answered" /\ NoFault
     \/ post[k] = "sent" /\ Fault
  /\ post' = [post EXCEPT ![k] = "settled"]
  /\ CloseActiveStream(k)
  /\ UNCHANGED <<registryVars, managerVars, closed, source, retrying, attemptOf, cut,
                 bridgeVars, usurped, installs, loads>>

-----------------------------------------------------------------------------
(* The bridge and the network *)

\* The stream by which the page believes runtime r is connected.
Live(r) == IF connection[r] = None THEN None ELSE source[connection[r]]

\* An attempt the page no longer means takes the runtime over from the one it means.
Usurps(s, r) == Live(r) \notin {None, s} /\ current[r] = Live(r)

\* GET /connect is handled, perhaps after the page has given it up.
ConnectArrives(s) ==
  /\ client[s] # "unused"
  /\ LET k == attemptOf[s]  r == runtimeOf[k] IN
     /\ B!Connect(s, r, k)
     /\ usurped' = IF Usurps(s, r) THEN usurped \cup {r} ELSE usurped
  /\ UNCHANGED <<registryVars, managerVars, linkVars, wireVars, boundVars>>

\* The bridge sees that a stream has gone.
StreamCloses(s) ==
  /\ client[s] = "closed" \/ s \in cut \/ stream[s] = "ended"
  /\ B!StreamClosed(s)
  /\ UNCHANGED <<registryVars, managerVars, linkVars, wireVars, usurped, boundVars>>

\* POST /disconnect is handled; it is refused unless it names the current connection.
DisconnectArrives(k) ==
  /\ post[k] = "sent"
  /\ post' = [post EXCEPT ![k] = "answered"]
  /\ IF B!ConnectionMatches(runtimeOf[k], k)
     THEN B!DisconnectConnection(runtimeOf[k], k)
     ELSE UNCHANGED bridgeVars
  /\ UNCHANGED <<registryVars, managerVars, closed, source, retrying, closing, wireVars,
                 usurped, boundVars>>

\* The bridge is stopped, or dies, and another one listens at the same address.
RestartBridge ==
  /\ Fault
  /\ stream' = [s \in Streams |-> IF stream[s] = "unused" THEN "unused" ELSE "closed"]
  /\ status' = [r \in Runtimes |-> "absent"]
  /\ current' = [r \in Runtimes |-> None]
  /\ connectionId' = [r \in Runtimes |-> None]
  /\ UNCHANGED <<registryVars, managerVars, linkVars, wireVars, owner, presented, idleVars, usurped, installs, loads>>

CutStream(s) ==
  /\ client[s] \in {"connecting", "open"} /\ s \notin cut
  /\ Fault
  /\ cut' = cut \cup {s}
  /\ UNCHANGED <<registryVars, managerVars, linkVars, client, attemptOf, bridgeVars, usurped, installs, loads>>

-----------------------------------------------------------------------------
Application ==
  \/ \E r \in Runtimes : Install(r) \/ Uninstall(r)
  \/ CloseManager
  \/ Unload

Script ==
  \/ WaitForRegistry
  \/ \E s \in Streams : ConnectedEvent(s) \/ ErrorEvent(s)
  \/ \E k \in Connections : RetryTimer(k) \/ PostSettles(k)

Environment ==
  \/ \E s \in Streams : ConnectArrives(s) \/ StreamCloses(s) \/ CutStream(s)
  \/ \E k \in Connections : DisconnectArrives(k) \/ BrowserReconnects(k)
  \/ RestartBridge

Next == Application \/ Script \/ Environment

Spec == Init /\ [][Next]_vars

\* The event loops run what is ready, timers fire, and what is neither cut nor given up
\* gets through.  Nothing is assumed of the application, of navigation, of faults, nor of
\* requests the page has given up.
Progress ==
  \/ WaitForRegistry
  \/ \E s \in Streams : \/ ConnectedEvent(s) \/ ErrorEvent(s) \/ StreamCloses(s)
                        \/ client[s] = "connecting" /\ s \notin cut /\ ConnectArrives(s)
  \/ \E k \in Connections : \/ RetryTimer(k) \/ DisconnectArrives(k)
                            \/ post[k] = "answered" /\ PostSettles(k)

Fairness == WF_vars(Progress)

FairSpec == Spec /\ Fairness

-----------------------------------------------------------------------------
(* Properties *)

\* The manager holds a connection for exactly the registered runtimes once it watches the
\* registry, and for none before that or after its end, whatever was installed and
\* uninstalled before the script found the registry.
ConnectionsFollowRegistry ==
  {r \in Runtimes : connection[r] # None} = IF watching THEN registered ELSE {}

\* No event source is left behind: one that the page still holds is the `stream` of a
\* connection in the map, or waits for a /disconnect that has not settled, and no two
\* belong to one connection.
NoStraySource ==
  \A s \in Streams : client[s] \in {"connecting", "open"} =>
    LET k == attemptOf[s] IN
    \/ source[k] = s /\ connection[runtimeOf[k]] = k /\ closing[k] = None
    \/ closing[k] = s /\ k \in closed /\ source[k] = None /\ post[k] \in {"sent", "answered"}

\* The runtime in globalThis.__DIVEBELL__ is a registered one, and there is one as long as
\* any is registered.
DefaultIsRegistered ==
  IF registered = {} THEN default = None ELSE default \in registered

\* A runtime that is connected by a healthy stream loses it only to a newer attempt, to a
\* restart, or to the /disconnect of that very connection: no late post of an earlier
\* connection, of this page or of the one before it, ends the stream of the new one.
HealthyStreamKept ==
  [][\A r \in Runtimes :
       /\ current[r] # None /\ current'[r] = None
       /\ client[current[r]] # "closed" /\ current[r] \notin cut
       /\ faults' = faults
       => post'[attemptOf[current[r]]] # post[attemptOf[current[r]]]]_vars

Connected(r) ==
  /\ Live(r) # None
  /\ current[r] = Live(r)
  /\ client[Live(r)] = "open"

\* In the end the bridge shows exactly the registered runtimes of the page as connected,
\* each by the stream the page holds, unless an older attempt took the runtime over late
\* or the manager has been closed.
BridgeFollowsRegistry ==
  <>[](\A r \in Runtimes :
         \/ r \in usurped
         \/ IF r \in registered /\ ~stopped THEN Connected(r) ELSE status[r] # "connected")

=============================================================================
