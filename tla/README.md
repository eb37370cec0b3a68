# Divebell in TLA+

Divebell lets a coding agent look into and drive a web application while it runs. The
application declares *targets* (things that have a status) and *actions*; a command line
tool asks about them, waits for them and runs them. Between the two stands a small HTTP
server on the developer's machine, the *bridge*.

    divebell CLI  --HTTP-->  bridge  --event stream-->  page (connection script --> runtime)
                             bridge  <--POST response--  page
    rendering server  --POST /server-runtimes-->  bridge

This directory holds TLA+ models of the parts that carry this protocol, the TLC
configurations that check them on small instances, and proofs that TLAPS checks for every
value of their constants. `PROJECT.json` maps every definition to the source lines it
models and lists runs, hazards, findings and theorems.

## 1. Inventory

Source paths are relative to `src/packages/`.

| Component | State it keeps | Operations | Talks to |
|---|---|---|---|
| Runtime center (`core/src/runtime/center.ts` and the managers it owns) | target descriptors, current snapshot, event log, actions, pending waits | register/unregister targets and actions, `updateSnapshot`, `waitFor`, `runAction` | application code, the connection script |
| Window registry (`core/src/runtime/window.ts`) | runtimes by id, default runtime, listeners | register, unregister, subscribe | runtime center, connection script |
| Connection script (`cli/src/features/bridge/inject.ts`, injected into pages) | one connection per registered runtime: event source, reconnect timer and attempt, stopped flags | open, reconnect with backoff, respond, close | window registry; bridge over HTTP |
| Bridge (`bridge/src/runtime-store.ts`, `server.ts`) | per runtime: status, current stream, connection id, pending requests with timers, remembered snapshot/events/targets/actions of page and server | connect, disconnect, sync, read, run action, wait, response, close | pages, rendering servers, CLI |
| Modern.js plugin (`modern-plugin/src`) | route, loader and hydration state, a queue of posts | translates framework events into target updates, posts server renders | runtime center, bridge |
| CLI bridge process (`cli/src/features/bridge/process.ts`) | state file with the pid of the bridge | ensure, start, stop, list, kill | file system, child process, bridge |
| CLI runtime commands (`cli/src/features/runtime`) | none across calls; deadline and last error within one | select a runtime, read, act, wait with retries | bridge |
| CLI self update (`cli/src/features/update/manager.ts`) | cache file (throttle, notice, last error), lock file | schedule, lock, install, consume notice | file system, npm, background process |
| CLI network control (`cli/src/features/browser/network-control-server.ts`, `network-control-process.ts`) | controller, target sessions, enabled sessions, paused requests | attach, intercept, detach, stop | browser over CDP |
| CLI browser, extension and setup commands | files written once | build arguments for external tools, install, print | external processes |
| Build plugins and chunk map, bundled extensions, test support, demos | build time data or reports | pure analysis or drivers of other tools | |

What is hard in it, and where each part must be right:

- **Bridge.** Every call races with a timer, the response of the page, the loss of the
  stream, its replacement by a reconnect, an explicit disconnect and the end of the
  bridge. It is right when each call is answered exactly once whatever happens, when the
  page runs a command at most once, when a runtime never appears connected by a dead or
  foreign stream, when only the loss of its own stream disconnects it, and when what is
  remembered agrees with what was reported.
- **Runtime center.** One thread, but any order of calls, asynchronous handlers and
  timers. It is right when no wait sleeps on a condition that holds or cannot come, when
  a wait tells the truth, when snapshot and event log agree (an agent reads one and
  follows the other), and when the log accounts for the handlers that ran.
- **Window registry, connection script.** Reconnects race with unregister/register and with
  page unload, and page and bridge handle each other's calls late and in any order. They are
  right when the script has a connection for exactly the registered runtimes, no event
  source is left behind, a late post spares the connection that followed, and the bridge
  ends up showing what is registered.
- **CLI bridge process, browser `open`.** Several command lines share state files and logs
  without transactions, start processes of their own and undo what a failed `open` began.
  They are right when what runs afterwards is recorded and wanted, and when no command
  touches what another directory uses.
- **CLI self update.** Processes share a lock file and a cache that is read, changed and
  written back. It is right when one process updates at a time, the installed version never
  falls, a notice is shown once, workers are throttled, and no lock stays.
- **CLI network control.** Every request the browser pauses must be resolved once and as its
  rule says, also when a target detaches, the controller is replaced or a command times out;
  one session of a target intercepts; nothing stays connected after the end, whatever was
  being connected when the end came.

The full list, line by line, is under `hazards` in `PROJECT.json`.

## 2. What is modelled

### `Bridge` (with `RemoteCall`)

One action per handler of `server.ts` and per event of the store. Node runs a handler to
completion between two awaits, so a handler is one atomic action; the continuation of an
awaited request runs in the microtasks that follow `resolve`, before any other event, and
belongs to `HandleResponse`. The body of a POST is awaited before anything is read from
the store, so a POST is one action too, and can still run after the bridge has closed.

| Variable | Code |
|---|---|
| `listening` | the HTTP server accepts connections |
| `stream`, `owner`, `presented` | each accepted `GET /connect`: its life, its `runtimeId`, the `connectionId` it presented |
| `status`, `current`, `connectionId` | `record.info.status`, `record.stream`, `record.info.connectionId` |
| `pending` | the keys of `record.pending`, an entry and its timer being one thing |
| `snapshot`, `serverSnapshot`, `knownTargets` | `record.lastSnapshot`, `record.serverSnapshot`, the ids in `record.lastTargets` |
| `page` | the snapshot inside the page (the runtime center's, seen from outside) |
| `phase`, `exchange`, `response` | the handler of a call; its request on the way to the page and back; what the page posted |

`Connect` takes a runtime over without closing the stream it replaces, as the code does;
`StreamClosed` is the close event of any stream, current or replaced, at any later time;
`DisconnectConnection` and `Close` reject everything pending. `Read`, `RunAction` and
`WaitFor` follow the handlers' order of checks: a wait consults the remembered snapshot
first, then the connection, then polls memory (`PollMatches`, `PollDeadline`).
`HandleResponse` is the response, the lookup of the pending entry, and what the resumed
handler does with it. The page is the environment: it changes its targets at will, runs
each request at most once, answers it whenever it likes or never. Snapshots are functions
from targets to a status or `Absent`; timestamps and event ids are left out. `None` for a
stored snapshot means "never stored".

Requests and responses get lost (nothing makes `Execute` happen), are delayed beyond their
timer or the disconnect, and overtake each other.

`RemoteCall` is the promise of the bridge to its callers: a call is answered once and the
answer never changes; the page runs it at most once; a command is only reported done after
a run; no call stays open. `Bridge` implements it under the mapping at the end of
`Bridge.tla`: `answer` is the phase seen by the caller, `runs` counts the executed
requests.

Not in the model: the caches of targets, events and actions, which are further instances
of `Remember` with other merge functions and filters; requests that are refused as
malformed; the list of runtimes.

### `RuntimeCenter`

One action per method of the center: `RegisterTarget` (which keeps the snapshot entry of a
target that is registered again), `UnregisterTarget` (descriptor, entry and pending waits
in one step), `UpdateSnapshot` with its three rejections, `WaitFor`, the timers, actions
registered, replaced and unregistered, `RunAction` up to the call of the handler and
`HandlerSettles` after it. Between these two anything may happen, including calls of the
handler itself. A status carries data; a condition's `where` is the set of data it
accepts, which is all a condition can tell apart. The event log is a sequence; an event's
id is its index, as `EventLog` numbers them from 1. `MaxUpdates` bounds the calls of
`updateSnapshot`, and waits and runs are finite sets of calls; nothing else is bounded.

### `PageConnection` (composed with `Bridge`)

The page script, the registry it watches, and the connection part of the bridge at the
other end of the wire. The module instantiates `Bridge` with no calls and takes its
`Connect`, `StreamClosed` and `DisconnectConnection` as the bridge's half of the actions
`ConnectArrives`, `StreamCloses` and `DisconnectArrives`.

| Variable | Code |
|---|---|
| `registered`, `default`, `hasRegistry` | the runtimes of `__DIVEBELL_REGISTRY__`, `__DIVEBELL__`, whether the registry exists |
| `watching`, `stopped`, `connection` | the manager of `inject.ts`: subscribed, closed for good, its map |
| `runtimeOf`, `closed`, `source`, `retrying` | one `createConnection`: its runtime, `connectionStopped`, its `stream`, its timer |
| `closing`, `post` | `activeStream` of `close` and the state of its POST `/disconnect` |
| `client`, `attemptOf`, `cut` | the page's end of each attempt to open a stream, and what the network did to it |
| the rest | the bridge's records, as in `Bridge` |

A GET or POST is handled at any later time and in any order, also after its page has gone;
streams are cut, posts lost, the bridge restarts with nothing remembered. `Unload` loads
another document into the tab, after which the script starts anew. The browser's own
reconnection of an event source is an attempt like the script's. The delay of a reconnect
is left out. `usurped` remembers the runtimes that an older GET took over from a newer
connection: a `/connect` carries no order, so the bridge cannot tell, and neither side ever
repairs it. That exception, and a page whose manager was closed by `beforeunload` although
the page stayed (a cancelled navigation, a download), are where
`docs/runtime-connections.md` ("The connection manager connects every registered Runtime")
does not hold; the properties name both.

### `NetworkControl`

The process that applies request rules (`network-control-server.ts`) and the browser it
talks to, which is external and modelled from the commands and events the source uses. Each
`/attach` makes a controller with a socket of its own (`attach`, `socket`, `controller`).
In the browser a target has up to two sessions per controller, one attached automatically
and one asked for (`session`); `targetSession` and `sessionEnables` are the two maps of
`enableTarget`/`enableSession`, `enabling` the `Fetch.enable` that somebody awaits. The loop
of `connect` takes the targets it has `left` one at a time: it asks for a session
(`AttachAnswered`, `AttachToFails`), enables it, and turns to the next target once that
`Fetch.enable` has settled (`AttachGoesOn`). A paused
request (`paused`) has a handler (`handler`), the commands that it has sent (`commands`), how
many the browser has executed in order (`executed`), the answer on its way (`reply`) and
what became of the request (`resolution`).

The two sides of a call end apart. The handler awaits the body (`Accept`), then closes the
controller that the server knows and connects (`BeginAttach` and what follows), also when
`/stop` has come meanwhile; its client, `attachNetworkControl`, gives up after five seconds or
is killed (`ClientGivesUp`, a fault, remembered in `deserted`). `/stop` (`Stop`) closes the
controller known by then and stops listening; the server closes (`ServerClosed`) when no
*connection* is left, which a call whose client gave up does not hold, closes the controller
known by then, and the process lives on while a handler connects. That handler may assign a
connected controller which nobody closes. What ends it is `Terminate`: `stopNetworkControl`
signals the process once `/stop` is answered, or is not for a second, whether or not the
server has closed. `StopReleasesBrowser` therefore rests on the signal, not on `/stop`, and
assumes that the command line that posted `/stop` is not killed between the two.

A rule is reduced to what it asks for (`Kinds`);
matching rules to requests is data. A command can be refused, can time out before the
browser executes it, and can be executed all the same. Replies of different requests and
sessions overtake each other.

Three things the code does that properties except by name, each a history variable or state
(`StopReleasesBrowser` excepts none of them): two `/attach` that overlap leave a connected
controller that nobody knows (`overlapped`; `browser.ts:333` re-attaches for each
navigation, and the command line gives up after five seconds); a `Fetch.enable` that the
controller gave up can still be executed, and its session then intercepts next to the one
that took over (`givenUp`); a connect that timed out keeps its socket (`abandoned`).

### `SelfUpdate`

Command lines (`command`), explicit updates (`update`) and background workers (`worker`)
over the two files. `pc` has one position for each point between two file operations: the
cache is read in one step and written in another (`ReadCache`, `Save`), the lock is opened,
inspected, broken and released in steps of their own (`OpenLock`, `StatLock`, `BreakLock`,
`ReadToken`, `UnlinkLock`). A process is killed at any position but between the creation of
a lock file and the writing of its token, which are one step; npm, which a killed process
had started, may still finish (`orphaned`, `OrphanEnds`). A write of the token may fail,
which leaves a lock without one that blocks everyone until it is stale. Versions are
numbers; the registry publishes at will and never goes back; the clock is read where the
code reads it. Left out are the errors and current versions kept in the cache, which nothing
reads to decide.

Two history variables name where the code gives up its promises. `aged`: a lock has become
stale; from then on two breakers can each remove the lock the other has just taken, and both
install. `lost`: a write to the cache replaced something that another process had written
since the read; it can lose or repeat a notice, or take back a `lastAttempt`.

### `OpenCommand`

Command lines in several directories. A state file per address (`file`) names the process
that serves it; a log per directory (`log`) remembers the Bridge and the request control of
its page. `cmd` holds the variables of a command, `pc` where it stands between two awaits.
`open` prepares a Bridge (the one named with `--bridge`, the remembered one, or one of its
own), prepares a request control, opens the page, writes the log and stops the Bridge it no
longer uses; each step may throw, and then `Undo` stops what it has started. `start` prepares
a Bridge and is done, and so does every command that works with runtimes (`Use`:
`ensureLocalBridgeForRuntimeCommand`, the `ensureBridge` of `wait-for --open`, the commands of
extensions), with the address it is given, the remembered one or the default one. Hooks of
extensions can do the same; a hook that starts a Bridge is a `Use` next to its command.
`stack` reads the log and writes it back (`WriteStack`). `stop` reads the log, reads it again
for the request control (`CloseControl`), runs the close hooks, which may throw and then leave
the log, stops the control (`StopControl`), closes the browser, which may throw too, removes
the log and stops one Bridge (`RemoveLog`): the one of `--bridge` or `--port` if given, the
remembered one, or without a page the default one. A page without a Bridge has none to stop.
`kill` works on state files alone. Processes listen, fail to listen because the address is
taken, are signalled, end, or crash; a probe sees a Bridge, a foreign service or nobody. The
browser is an action that succeeds or throws. `--bridge` and `--port` are not given together;
`setup` works in a state directory of its own and is left out; removing a file does not fail.

What the properties except, by name:

- `loose`: records that are lost. The state write failed or the command was killed before
  it; a stop that had read a stale file removed the newer one; `ensureBridge` gave up waiting
  for a child that then served after all (`startDedicatedBridge` stops its child,
  `ensureBridge` does not); two command lines of one directory overlapped and one overwrote
  what the other remembered; `stack` wrote the log back without the request control, which it
  does even when it runs alone (`StopCleansUp`, a finding).
- `explicit`: addresses that a user named to `open`. A failed `open --bridge X` stops a Bridge at X
  that it did not start, and a successful `open` stops the previous Bridge, named or not,
  even when another directory uses it.
- `lapsed`: addresses whose Bridge ended under a page or command that still names them.
  Another directory's Bridge may be given that port, and the remembered address is then
  trusted. `docs/runtime-connections.md:75` ("Different working directories do not share
  their default page, browser session, or Bridge") does not hold there.
- `standalone`: Bridges that belong to no page: those that `start` or a command on runtimes
  started, and the Bridge of a page that a `stop` left running because its options named
  another address (`bridge.ts:77`; the log is removed all the same).
- `named`: a `stop` that was given the address, which it stops whoever uses it. Without a page
  a `stop` has the default address, which is no better.

### Proof modules

Each module except `RemoteCall` has a module `..._proofs` that extends it, with its
invariants and action properties; those of `Bridge` and `RuntimeCenter` also hold their
liveness. `NetworkControl_liveness` and `PageConnection_liveness` extend the proofs of their
component with what it promises to happen. See section 4.

## 3. What the runs check

| Run | Instance | Shows |
|---|---|---|
| `bridge_exchange` | 2 runtimes, 2 streams, 2 connection ids, 2 commands and a wait | types; `StreamBound`: connected exactly while holding a live stream of its own under the recorded id; `PendingMatchesCallers`: a caller is suspended exactly while its entry is in the map of a connected runtime; `OwnStreamOnly`; `DisconnectBlamesOwnRuntime` |
| `bridge_answers` | 1 runtime, 1 stream, a read, a command and a wait; a rendering server that posts its targets and later a snapshot | `ImplementsRemoteCall` with liveness; `ServerTargetsKept` |
| `center` | 2 targets, 2 statuses, 2 data, 2 waits, 1 run, 2 updates | types; `NoMissedWakeup`; `WaitAnswersHonest`; `LogExplainsSnapshot`; `LogAccountsForRuns`; `WaitsSettle` (liveness) |
| `page_connection` | 2 runtimes, 2 connections, 4 attempts, 2 installs, 2 documents, 1 fault | types; `ConnectionsFollowRegistry`; `NoStraySource`; `DefaultIsRegistered`; `HealthyStreamKept`; `BridgeFollowsRegistry` (liveness) |
| `network_attach` | 2 calls of `/attach`, 1 target, 1 fault | types; `SessionsHoldTargets`; `OneInterceptorPerTarget`; `NoStrayController`; `CallsEnd`, `StopReleasesBrowser` (liveness) |
| `network_requests` | 1 controller, a request of each kind, 2 faults | `RuleDecides`; `PausesEnd` (liveness) |
| `self_update` | 3 processes (at most 1 explicit update at a time), 3 versions, times up to 2, 1 fault | types; `OneUpdater`; `NeverDowngrades`; `NoticeKept`; `NoticeOnce`; `ThrottleHolds`; `LockReleased` |
| `open_command` | 3 command lines, 2 at a time, 2 directories, 3 addresses (1 taken), 2 Bridges, 1 control, 1 fault | types; `Tracked`; `NoBridgeLeft`; `NoControlLeft`; `BridgesApart`; `OthersSpared` |
| `bridge_wait` | violation | a wait succeeds from memory while the connected page disagrees |
| `bridge_sync` | violation | the second post of a rendering server is hidden by the first |
| `center_available` | violation | availability ignores `where` |
| `open_stack` | violation | `stack` forgets the request control, so `stop` leaves it running |

Why the bounds are enough. Two streams for two runtimes let one runtime own both, so that
a stream is replaced, its late close arrives, and an explicit disconnect names the old or
the new id, or let each runtime own one, so that the loss of one is seen next to the
other. Three calls put two requests of one runtime and one of the other in the pending
maps at once. In `bridge_answers` one stream can be used once, so the runtime goes through
never connected, server only, connected, disconnected and closed; every kind of call meets
every one of them. In `center` one wait names its data and the other does not, so that an
update can satisfy one and not the other, and the second target shows that events of one
target do not leak into the other; two updates suffice for "accepted then replaced" and
"accepted then rejected". Streams and connection ids are symmetric in `bridge_exchange`,
which checks no liveness.

In `page_connection` two installs are two runtimes next to each other, one runtime that is
uninstalled and installed again (its old disconnect races the new connect), or one in each
of two documents; four attempts let each connection fail once, or one of them three times,
and one fault is a cut, a restart of the bridge, a lost post, a slow answer or a killed
page. `network_attach` has two controllers one after the other or at once, each with both
sessions of the target, and the fault may be a client that gives up, so that `/stop` meets a
call that nobody waits for at each of its stages; `network_requests` lets the first command
of a handler fail and its fallback too. In `self_update` three processes are a command line,
the worker that it starts and a third that meets the lock of either; the clock reaches the
age of a stale lock and twice the throttle, and a third version makes a process install what
is newer than what another has just installed. `open_command` lets two command lines overlap
while a third finds what they left: a page that is opened, stopped with another address or
rewritten by `stack`, and a command on runtimes beside it; with the taken address a
dedicated Bridge meets a foreign service. Processes (and in `open_command` command lines,
directories, Bridges and free addresses) are symmetric in the two runs without liveness.

Deadlock checking stays on for `Bridge` and `RuntimeCenter`: in every instance pages can
change and targets can be registered for ever. The other modules say `CHECK_DEADLOCK
FALSE`: a tab without installs, an idle control, or command lines that have all ended are
states where the system rests.

**Fairness.** In `Bridge` and `RuntimeCenter` only timers are fair: the timer of a pending
request (`RequestTimeout`), the deadline of a polled wait (`PollDeadline`), the timer of a
wait in the page (`WaitTimeout`). Node and the browser fire timers, and each of these
actions stays enabled until it happens or the thing it guards is settled, so weak fairness
is what the code's scheduling gives. Nothing is assumed of pages, networks, rendering
servers, application code or handlers: liveness rests on the timeouts alone.

In `PageConnection` the event loops run what is ready, the reconnect timer fires, and a
request that is neither cut nor given up by its page reaches the bridge. One weak fairness
of all these together (`Progress`) suffices, which assumes less than fairness of each;
nothing is assumed
of the application, of navigation, of faults, or of requests whose page has given them up.
In `NetworkControl` the event loop runs what is ready, the browser executes and answers the
commands it was sent, and a command, connect or `fetch` that gets no answer times out, as
`CdpClient` sees to; refusals and early timeouts are faults and not assumed. Once `/stop` has
come, `stopNetworkControl` goes on to signal the process: its request ends by itself after a
second at the latest, and no early return stands before the signal. `SelfUpdate`
and `OpenCommand` promise nothing that needs fairness: their processes may be killed or take
any time.

### Findings

Four statements of the documentation or tests that the code does not keep, each shown by
its run (quotes and lines in `PROJECT.json`):

1. `WaitSuccessIsReal`: `server.ts:364` answers a wait from the remembered snapshot before
   it asks whether the page is connected.
2. `ServerStatusVisible`: `runtime-store.ts:152` merges a server's post *under* what is
   remembered, so the `server-rendered` that follows `rendering` never shows.
3. `ActionsStartAvailable`: `action/registry.ts:69` compares statuses and ignores `where`.
4. `StopCleansUp`: `commands/stack.ts:77` writes the log back without `requestControl`, so the
   process of the page's request control survives `stop`.

## 4. What is proved

Every theorem holds for all values of the constants under the named assumptions
`BridgeAssumption` (what a call is; `None` and `Absent` are no real values),
`CenterAssumption`, `PageAssumption`, `ControlAssumption`, `UpdateAssumption` and
`OpenAssumption`. TLC evaluates all of them on the instances.

**Bridge.** `IInv == TypeOK /\ StreamBound /\ PendingMatchesCallers /\ Bookkeeping` is
inductive. `PendingMatchesCallers` alone is not: that a disconnect answers everyone who
waits needs that entries are only pending while a stream is current, and that the stream a
record shows is the one being closed needs `StreamBound`. `Bookkeeping` relates the request
on the wire to the phase of its call (a call that was never made has no request, a command
that succeeded was executed) and the server's snapshot to the remembered one. One lemma per
conjunct shows that a step keeps it, one case per action. From the invariant follow
`TypeCorrect`, `StreamsAreBound`, `NoCallerIsForgotten`, `ServerTargetsAreKept`, and, step
by step, the action properties `OnlyOwnStreamDisconnects` and `DisconnectsAreHonest`.
`BridgeRefinesRemoteCall` proves the safety part of the refinement: initial states map to
initial states, and each action maps to `Ask`, `AnswerAtOnce`, `Run`, `Succeed`, `Fail` or
a stutter of `RemoteCall` (`StepMaps` and the lemmas before it). `CallsAreAnswered` adds the
rest: an open call waits or polls, keeps doing so until it is answered, and its timer then
ends it; `BridgeImplementsRemoteCall` puts the two together.

**Runtime center.** `IInv == TypeOK /\ PresentIsRegistered /\ NoMissedWakeup`. The middle
part is what makes the last inductive: `waitFor` also accepts a target that is in the
snapshot but not registered, and only because `unregisterTarget` removes both does that
never happen. `WaitsAreHonest` follows per step. `LogExplains` has its own induction: an
accepted update appends the event it needs, and every other step leaves the entry alone and
appends an event of another type or target. `LogAccounts` counts: only finitely many runs
have begun at any time, so the library's theorems on `Cardinality` apply, and a step adds
one event and moves one run, or does neither (`AccountStep`). A wait that is pending stays so
until it settles, a settled one never changes (`WaitsSettleForGood`), and the timer sees to it
that it settles (`EveryWaitSettles`).

**Page connection.** `IInv == PageType /\ ConnectionsFollowRegistry /\ Links`. `Links` says
how the manager's map, the connections and the event sources hang together (a connection in
the map is open for its runtime, one with a source or an armed timer is in the map, a source
to be closed waits for a post that has not settled); it is what makes `NoStraySource`
inductive, and it depends on nothing the bridge does. For `HealthyStreamsAreKept` the
invariant `BridgeInv` adds what the bridge's records know of attempts; the step proof then
shows that only `Connect`, a restart, the stream's own end, or a disconnect that names the
recorded connection take a stream away.

Why the bridge follows the registry is proved in two halves. *At rest*: `RestInv` says that a
script whose manager is open looks for the registry, that a connection in the map has an event
source or an armed timer, that both ends of a stream agree on whose it is, that the status
follows the stream, and that a stream the page means is the recorded one unless an older
attempt came late. It is inductive together with the invariants above, and in every state
where nothing is due (`AtRest`: no registry to be found, no request or event on its way, no
failed stream unnoticed, no timer armed, no post unsettled) the bridge shows exactly what is
registered (`RestIsRight`). So does, for good, a behaviour that comes to rest
(`BridgeFollowsAtLast`). *In motion*: under `Calm` (from some point on every step is one of
`Progress`) a registered runtime has a connection once the script has found the registry, a
connection with a failed attempt or none arms or fires its timer, the attempt that follows is
sound, and a sound attempt is ended by nobody and gets through: `RegisteredConnect`. A stream
the page gave up waits for the post of its own connection, is closed when that settles, and
its closed end is never opened again: `StrayStreamsEnd`. Both hold from any reachable state,
so for whatever was installed, cut, lost or restarted before.

**Network control.** `SessionsHold` needs only that the two maps change together.
`ControllersAreKnown` needs `OneController`: unless calls overlapped, at most one handler is
connecting, and while one is, no other controller is connected. With `Enabled` (a session
that intercepts is attached and, unless its `Fetch.enable` was given up, in
`sessionEnables`) this gives `OneInterceptor`. `RulesDecide` rests on `Decisions`,
which lists, by the kind of a request and the stage of its handler, the commands that have
been sent and may still be executed.

`EveryPauseEnds` rests on `PauseInv`: a request is only paused in an intercepting session of
a socket that stands (`Held`), the last word of a handler that is done is a command the
browser cannot refuse (`LastWord`), and a handler sends three commands at most
(`FewCommands`). `Rank` counts the steps of the handler and of the browser that are left,
twelve at most. One of the fair steps is always due while the request is paused, it stays
due until it or another one happens, and each lowers the rank or resolves the request. For
`CallsEnd` the proofs give its two parts: a call of `/attach` leaves each place where it can
stand, with whatever targets it has left (`CallsMoveOn`), because what is due for it gives
way only to something else that is due; and it never comes back to a place, each move going
to a later stage or leaving fewer targets (`CallsGoOnward`). `StopReleases` assumes nothing
of calls: after `/stop` the signal is due until the process has ended, and it stays due
whatever handlers do (`StopStep`); with the process every socket is closed or closing, an
abandoned one too, and none is opened any more (`Ended`, a part of `PauseInv`).
`ControllersAreKnown` says how far `/stop` alone gets: after the server has closed, only a
call whose client had given up can have left a controller (`LateControllers`).

**Self update.** `LockInv == TypeOK /\ Clocks /\ (aged \/ Exclusive)`: before a lock has
become stale, whoever is inside the update owns the lock file, a killed process and its npm
included, and nobody works with a time yet to come; hence `OneUpdaterAtATime`.
`LocksAreReleased` follows the ways out of the update. `VersionInv` adds that a process that
is about to install holds a version at least as new as the installed one, which is where
asking the registry inside the lock is needed (`InstalledNeverFalls`). `NoticeIsKept`,
`NoticeShownOnce` and `WorkersAreThrottled` have inductions of their own under `~lost`.

**Open command.** `CommandInv` says what a command knows at each place it stands.
`ControlInv` makes `NoControlLeft` inductive: a request control that runs is owned by an
open that has yet to record or undo it, remembered by a directory, or `loose` (`Held`).
`ServerInv` does the same for state files: who answers at an address serves there
(`Listening`), and a Bridge on its way up or up is named by its file, still with the command
that started it, or `loose` (`Recorded`); hence `BridgesAreTracked`. `BridgeInv` adds that a
process that is up holds its address (`HoldsAddress`) and who uses a Bridge (`Kept`): a
`stop` that names another address leaves the one that answers where its page said, and only
`HoldsAddress` says that this is the page's own (`ForgetsBridge`); hence `NoBridgeIsLeft`.
`ApartInv` says which addresses a directory claims, through its log or through a command at
work for it: outside `explicit` and `lapsed` an address that is claimed is served, and
claimed by one directory (`ClaimsApart`). It is inductive with `HoldsAddress` and two facts:
a process on its way up belongs to one command (`StartsOnce`), and a command that stops a
Bridge does so for a directory (`Stops`). Hence `BridgesStayApart` and `OthersAreSpared`.

**Fairness in the proofs.** The prover cannot reason about `ENABLED`, which `WF_vars(A)`
contains. The liveness theorems therefore name the fairness of each task as a hypothesis with
the guard written out: `[]<>~Due \/ []<><<A>>_vars`, where `Due` is the condition under which
the code has `A` to do (`TimersFire` in `Bridge`, `TimerFires` in `RuntimeCenter`, `Served`,
`Attended`, `AttendedFor`, `Closes` and `Signals` in `NetworkControl`, `Works` in
`PageConnection`). `Due` is the enabling condition of `A` as its definition reads (TLC has
compared each with `ENABLED <<A>>_vars` in every reachable state of the runs' instances), so
the hypothesis is what weak fairness of `A` says. Only the timer of a reconnect and the first
look at the registry ask for more: they are taken to succeed also when the bounds on attempts
and connections are used up, bounds the code does not have.

**Only model-checked.** Every safety property of a passing run is a theorem. Of liveness, TLC
alone checks: `CallsEnd`, where putting `CallsMoveOn` and `CallsGoOnward` together takes an
induction over the finite set of targets left, with temporal formulas, which no installed
prover does; and, in `BridgeFollowsRegistry`, that a behaviour does come to rest within the
bounds, that one weak fairness of all of `Progress` suffices (the proofs in motion assume it
task by task), and the step from each runtime and each stream to all of them at once, again an
induction over a finite set. No module declares a `RECURSIVE` operator.

## 5. Plan

Done: the bridge and the runtime center, the page's side and its composition with the
bridge, network control, self update, and `open` with the Bridge processes. What is left, in
this order:

1. `EventWindow`: `filterEvents` of the bridge against `EventLog.get` of the core over
   bounded logs, limits and `since`; the caches of targets, events and actions in `Bridge`.
2. `RuntimeWait`: the retry loop of the command line over `RemoteCall`.
3. `ModernRoute`: route and hydration state of the Modern.js plugin and its queue of posts,
   over the server posts of `Bridge`.

**Not modelled.** The construction of arguments and the printing of the browser commands
(`open` is modelled as a transaction), setup and extension installation, the recording page,
the build plugins with the chunk map, and the bundled extensions: they keep little state of
their own, run sequentially, and are dominated by I/O with external tools, so a model would
restate them line by line. These, with bundled and generated assets and demos, are most of
the repository's lines. Two hazards are out of reach of the models by choice: process
numbers that the operating system reuses between the check of a pid and its signal
(`process.ts:282`), and a closing server that lingers because a page keeps a replaced stream
open (`server.ts:73`); `OpenCommand` lets a signalled process take any time to end.

## 6. Running

    tlc -workers 2 -config MC_Bridge_exchange.cfg MC_Bridge
    tlapm Bridge_proofs.tla

The largest runs (`self_update` with two million distinct states, `open_command`,
`network_requests`, `network_attach`, `page_connection`, `center`) take two to four minutes
with two workers. The proof modules take tlapm up to some minutes each.
