----------------------- MODULE PageConnection_liveness -----------------------
(***************************************************************************)
(* Why the bridge follows the registry of the page (BridgeFollowsRegistry),*)
(* for every value of the constants of PageConnection.                     *)
(*                                                                         *)
(* First at rest: whenever neither the page nor the bridge has anything    *)
(* left to do, the bridge shows what the page means.  Then in motion: once *)
(* the application and the network leave the script alone, every           *)
(* registered runtime gets connected and every stream the page has given   *)
(* up comes to an end, one chain of steps per runtime and per attempt.     *)
(***************************************************************************)
EXTENDS PageConnection_proofs

-----------------------------------------------------------------------------
(* The page and the bridge at rest *)

\* The script looks for the registry as long as the manager has not been closed.
Watches == (registered # {} => hasRegistry) /\ (watching => ~stopped)

\* A connection in the map has an event source, or its timer is armed.
MapActive ==
  \A r \in Runtimes : connection[r] # None =>
    source[connection[r]] # None \/ connection[r] \in retrying

\* The bridge's end of an attempt follows the page's, and is recorded for the runtime of the
\* connection that made the attempt.
EndsAgree ==
  \A s \in Streams :
    /\ client[s] = "unused" => stream[s] = "unused"
    /\ client[s] = "open" => stream[s] # "unused"
    /\ stream[s] # "unused" => owner[s] = runtimeOf[attemptOf[s]]

\* A runtime is shown as connected exactly while it has a stream.
StatusFollowsStream ==
  listening /\ \A r \in Runtimes : status[r] = "connected" <=> current[r] # None

\* A stream the page means, and the bridge has open, is the one the bridge has for the
\* runtime, unless an older attempt arrived after it.
LiveIsCurrent ==
  \A r \in Runtimes :
    Live(r) # None /\ stream[Live(r)] = "open" => current[r] = Live(r) \/ r \in usurped

\* Only attempts that were made are cut.
FreshUncut == \A s \in cut : client[s] # "unused"

RestInv ==
  Watches /\ MapActive /\ EndsAgree /\ StatusFollowsStream /\ LiveIsCurrent /\ FreshUncut

LEMMA RestInvInit == Init => RestInv
BY NoneIsNone
   DEF Init, RestInv, Watches, MapActive, EndsAgree, StatusFollowsStream, LiveIsCurrent,
       FreshUncut, Live, B!Init

\* What can happen to the connections of the manager and their event sources.
LEMMA LinksTouched ==
  ASSUME IInv, [Next]_vars
  PROVE  \/ \E new \in SUBSET Runtimes :
              OpenAll(new) /\ \A r \in new : connection[r] = None
         \/ \E old \in SUBSET Connections :
              /\ Shut(old) /\ UNCHANGED <<runtimeOf, wireVars>>
              /\ connection' = [r \in Runtimes |->
                   IF connection[r] \in old THEN None ELSE connection[r]]
         \/ Unload
         \/ \E s \in Streams : ConnectedEvent(s) \/ ErrorEvent(s)
         \/ \E k \in Connections : RetryTimer(k) \/ PostSettles(k) \/ BrowserReconnects(k)
         \/ UNCHANGED <<connection, runtimeOf, source, retrying, client, attemptOf>>
<1> DEFINE Opens == \E new \in SUBSET Runtimes :
                      OpenAll(new) /\ \A r \in new : connection[r] = None
           Shuts == \E old \in SUBSET Connections :
                      /\ Shut(old) /\ UNCHANGED <<runtimeOf, wireVars>>
                      /\ connection' = [r \in Runtimes |->
                           IF connection[r] \in old THEN None ELSE connection[r]]
           Alone == UNCHANGED <<connection, runtimeOf, source, retrying, client, attemptOf>>
<1>0. PageType /\ ConnectionsFollowRegistry /\ MapLinks
  BY DEF IInv, Links
<1>1. ASSUME NEW r \in Runtimes, Install(r) PROVE Opens \/ Alone
  <2>1. CASE watching
    <3>1. {r} \in SUBSET Runtimes /\ connection[r] = None /\ OpenAll({r})
      BY <1>0, <1>1, <2>1 DEF Install, ConnectionsFollowRegistry
    <3> QED
      BY <3>1
  <2>2. CASE ~watching
    BY <1>1, <2>2 DEF Install, linkVars, wireVars
  <2> QED
    BY <2>1, <2>2
<1>2. ASSUME NEW r \in Runtimes, Uninstall(r) PROVE Shuts \/ Alone
  <2>1. CASE watching /\ connection[r] # None
    <3>1. /\ {connection[r]} \in SUBSET Connections /\ Shut({connection[r]})
          /\ UNCHANGED <<runtimeOf, wireVars>>
          /\ connection' = [connection EXCEPT ![r] = None]
      BY <1>0, <1>2, <2>1 DEF Uninstall, PageType
    <3>2. \A q \in Runtimes : connection[q] \in {connection[r]} <=> q = r
      BY <1>0, <2>1 DEF MapLinks
    <3>3. connection' = [q \in Runtimes |->
                          IF connection[q] \in {connection[r]} THEN None ELSE connection[q]]
      BY <1>0, <3>1, <3>2 DEF PageType
    <3> QED
      BY <3>1, <3>3
  <2>2. CASE ~(watching /\ connection[r] # None)
    BY <1>2, <2>2 DEF Uninstall, linkVars, wireVars
  <2> QED
    BY <2>1, <2>2
<1>3. ASSUME WaitForRegistry PROVE Opens
  BY <1>0, <1>3 DEF WaitForRegistry, PageType, ConnectionsFollowRegistry
<1>4. ASSUME CloseManager PROVE Shuts
  <2>1. /\ Held(connection) \in SUBSET Connections
        /\ \A r \in Runtimes : connection[r] \notin Held(connection) => connection[r] = None
    BY <1>0 DEF Held, PageType
  <2> QED
    BY <1>4, <2>1 DEF CloseManager
<1>5. ASSUME \/ \E s \in Streams : ConnectArrives(s) \/ StreamCloses(s) \/ CutStream(s)
             \/ \E k \in Connections : DisconnectArrives(k)
             \/ RestartBridge \/ UNCHANGED vars
      PROVE  Alone
  BY <1>5 DEF ConnectArrives, StreamCloses, CutStream, DisconnectArrives, RestartBridge, vars,
              managerVars, linkVars, wireVars
<1> QED
  BY <1>1, <1>2, <1>3, <1>4, <1>5 DEF Next, Application, Script, Environment

\* A connection keeps its runtime, and an event source opens when its event arrives.
LEMMA CreatedStay ==
  ASSUME IInv, [Next]_vars
  PROVE  /\ \A k \in Connections : runtimeOf[k] # None => runtimeOf'[k] = runtimeOf[k]
         /\ \A s \in Streams : client'[s] = "open" => client[s] = "open" \/ ConnectedEvent(s)
<1> DEFINE Stay == /\ \A k \in Connections : runtimeOf[k] # None => runtimeOf'[k] = runtimeOf[k]
                   /\ \A s \in Streams : client'[s] = "open" => client[s] = "open"
<1>0. PageType
  BY DEF IInv
<1>1. ASSUME NEW new \in SUBSET Runtimes, OpenAll(new) PROVE Stay
  <2>1. PICK id \in [new -> Connections], first \in [new -> Streams] :
          /\ \A r \in new : runtimeOf[id[r]] = None /\ client'[first[r]] = "connecting"
          /\ \A k \in Connections : (\A r \in new : id[r] # k) => runtimeOf'[k] = runtimeOf[k]
          /\ \A s \in Streams : (\A r \in new : first[r] # s) => client'[s] = client[s]
    BY <1>1, OpenEffect
  <2> QED
    BY <2>1
<1>2. CASE \E old \in SUBSET Connections : Shut(old) /\ UNCHANGED <<runtimeOf, wireVars>>
  BY <1>2 DEF wireVars
<1>3. CASE Unload
  BY <1>0, <1>3 DEF Unload, PageType
<1>4. ASSUME NEW x \in Streams, ErrorEvent(x) PROVE Stay
  BY <1>0, <1>4 DEF ErrorEvent, managerVars, PageType
<1>5. ASSUME NEW k \in Connections, RetryTimer(k) \/ PostSettles(k) \/ BrowserReconnects(k)
      PROVE  Stay
  BY <1>0, <1>5 DEF RetryTimer, PostSettles, CloseActiveStream, BrowserReconnects, Attempt,
                    managerVars, PageType
<1>6. ASSUME NEW x \in Streams, ConnectedEvent(x)
      PROVE  /\ \A k \in Connections : runtimeOf[k] # None => runtimeOf'[k] = runtimeOf[k]
             /\ \A s \in Streams : client'[s] = "open" => client[s] = "open" \/ s = x
  BY <1>0, <1>6 DEF ConnectedEvent, managerVars, PageType
<1> QED
  BY <1>1, <1>2, <1>3, <1>4, <1>5, <1>6, LinksTouched

\* A connection in the map stays active: it is made with an attempt, an error arms its timer,
\* and the timer makes the next attempt.
LEMMA MapActiveStep ==
  ASSUME IInv, MapActive, [Next]_vars
  PROVE  MapActive'
<1>0. PageType /\ MapLinks /\ SourceLinks /\ ClientLinks
  BY DEF IInv, Links
<1>1. ASSUME NEW new \in SUBSET Runtimes, OpenAll(new) PROVE MapActive'
  <2>1. PICK id \in [new -> Connections], first \in [new -> Streams] :
          /\ \A r \in new : runtimeOf[id[r]] = None
          /\ \A r \in new : connection'[r] = id[r] /\ source'[id[r]] = first[r]
          /\ \A r \in Runtimes \ new : connection'[r] = connection[r]
          /\ \A k \in Connections : (\A r \in new : id[r] # k) => source'[k] = source[k]
          /\ retrying' = retrying
    BY <1>1, OpenEffect
  <2> SUFFICES ASSUME NEW r \in Runtimes, connection'[r] # None
               PROVE  source'[connection'[r]] # None \/ connection'[r] \in retrying'
    BY DEF MapActive
  <2>2. CASE r \in new
    BY <2>1, <2>2, NoneIsNone
  <2>3. CASE r \notin new
    <3>1. connection'[r] = connection[r] /\ connection[r] \in Connections
      BY <1>0, <2>1, <2>3 DEF PageType
    <3>2. \A q \in new : id[q] # connection[r]
      BY <1>0, <2>1, <3>1, NoneIsNone DEF MapLinks
    <3> QED
      BY <2>1, <3>1, <3>2 DEF MapActive
  <2> QED
    BY <2>2, <2>3
<1>2. ASSUME NEW old \in SUBSET Connections, Shut(old),
             connection' = [r \in Runtimes |->
               IF connection[r] \in old THEN None ELSE connection[r]]
      PROVE  MapActive'
  BY <1>0, <1>2 DEF MapActive, Shut, PageType
<1>3. CASE Unload
  BY <1>3 DEF Unload, MapActive
<1>4. ASSUME NEW s \in Streams, ErrorEvent(s) PROVE MapActive'
  <2>1. attemptOf[s] \in Connections
    BY <1>0, <1>4 DEF ErrorEvent, Fails, ClientLinks, PageType
  <2> QED
    BY <1>0, <1>4, <2>1 DEF ErrorEvent, Retry, MapActive, managerVars, PageType
<1>5. ASSUME NEW s \in Streams, ConnectedEvent(s) PROVE MapActive'
  BY <1>5 DEF ConnectedEvent, MapActive, managerVars, linkVars
<1>6. ASSUME NEW k \in Connections, RetryTimer(k) PROVE MapActive'
  <2>1. k \notin closed
    BY <1>0, <1>6, NoneIsNone DEF RetryTimer, SourceLinks, MapLinks, PageType
  <2>2. PICK s \in Streams : source' = [source EXCEPT ![k] = s]
    BY <1>6, <2>1 DEF RetryTimer, Unused
  <2> QED
    BY <1>0, <1>6, <2>2, NoneIsNone DEF RetryTimer, MapActive, managerVars, PageType
<1>7. ASSUME NEW k \in Connections, PostSettles(k) \/ BrowserReconnects(k) PROVE MapActive'
  BY <1>7 DEF PostSettles, BrowserReconnects, MapActive, managerVars
<1>8. CASE UNCHANGED <<connection, source, retrying>>
  BY <1>8 DEF MapActive
<1> QED
  BY <1>1, <1>2, <1>3, <1>4, <1>5, <1>6, <1>7, <1>8, LinksTouched

\* The stream the page means for a runtime changes to none or to an attempt just made.
LEMMA LiveMoves ==
  ASSUME IInv, [Next]_vars, NEW r \in Runtimes
  PROVE  \/ Live(r)' = Live(r) \/ Live(r)' = None
         \/ Live(r)' \in Streams /\ client[Live(r)'] = "unused"
<1> DEFINE Moves == \/ Live(r)' = Live(r) \/ Live(r)' = None
                    \/ Live(r)' \in Streams /\ client[Live(r)'] = "unused"
<1>0. PageType /\ MapLinks /\ SourceLinks /\ ClientLinks
  BY DEF IInv, Links
<1>1. ASSUME NEW new \in SUBSET Runtimes, OpenAll(new) PROVE Moves
  <2>1. PICK id \in [new -> Connections], first \in [new -> Streams] :
          /\ \A q \in new : runtimeOf[id[q]] = None /\ client[first[q]] = "unused"
          /\ \A q \in new : connection'[q] = id[q] /\ source'[id[q]] = first[q]
          /\ \A q \in Runtimes \ new : connection'[q] = connection[q]
          /\ \A k \in Connections : (\A q \in new : id[q] # k) => source'[k] = source[k]
    BY <1>1, OpenEffect
  <2>2. CASE r \in new
    BY <2>1, <2>2, NoneIsNone DEF Live
  <2>3. CASE r \notin new
    <3>1. connection'[r] = connection[r] /\ connection[r] \in Connections \cup {None}
      BY <1>0, <2>1, <2>3 DEF PageType
    <3>2. connection[r] # None => \A q \in new : id[q] # connection[r]
      BY <1>0, <2>1, <3>1, NoneIsNone DEF MapLinks
    <3> QED
      BY <2>1, <3>1, <3>2 DEF Live
  <2> QED
    BY <2>2, <2>3
<1>2. ASSUME NEW old \in SUBSET Connections, Shut(old),
             connection' = [q \in Runtimes |->
               IF connection[q] \in old THEN None ELSE connection[q]]
      PROVE  Moves
  BY <1>0, <1>2 DEF Shut, Live, PageType
<1>3. CASE Unload
  BY <1>3 DEF Unload, Live
<1>4. ASSUME NEW s \in Streams, ErrorEvent(s) PROVE Moves
  BY <1>0, <1>4 DEF ErrorEvent, Live, managerVars, PageType
<1>5. ASSUME NEW s \in Streams, ConnectedEvent(s) PROVE Moves
  BY <1>5 DEF ConnectedEvent, Live, managerVars, linkVars
<1>6. ASSUME NEW k \in Connections, RetryTimer(k) PROVE Moves
  <2>1. connection' = connection /\ \/ source' = source
                                    \/ \E s \in Unused : source' = [source EXCEPT ![k] = s]
    BY <1>6 DEF RetryTimer, managerVars
  <2> QED
    BY <1>0, <2>1 DEF Unused, Live, PageType
<1>7. ASSUME NEW k \in Connections, PostSettles(k) \/ BrowserReconnects(k) PROVE Moves
  BY <1>7 DEF PostSettles, BrowserReconnects, Live, managerVars
<1>8. CASE UNCHANGED <<connection, source, retrying>>
  BY <1>8 DEF Live
<1> QED
  BY <1>1, <1>2, <1>3, <1>4, <1>5, <1>6, <1>7, <1>8, LinksTouched

LEMMA WatchesStep ==
  ASSUME PageType, Watches, [Next]_vars
  PROVE  Watches'
<1> USE DEF Watches, registryVars, managerVars
<1>1. ASSUME NEW r \in Runtimes, Install(r) \/ Uninstall(r) PROVE Watches'
  BY <1>1 DEF Install, Uninstall
<1>2. CASE WaitForRegistry \/ CloseManager \/ Unload
  BY <1>2 DEF WaitForRegistry, CloseManager, Unload
<1>3. ASSUME NEW s \in Streams,
             ConnectedEvent(s) \/ ErrorEvent(s) \/ ConnectArrives(s) \/ StreamCloses(s) \/ CutStream(s)
      PROVE  Watches'
  BY <1>3 DEF ConnectedEvent, ErrorEvent, ConnectArrives, StreamCloses, CutStream
<1>4. ASSUME NEW k \in Connections,
             RetryTimer(k) \/ PostSettles(k) \/ DisconnectArrives(k) \/ BrowserReconnects(k)
      PROVE  Watches'
  BY <1>4 DEF RetryTimer, PostSettles, DisconnectArrives, BrowserReconnects
<1>5. CASE RestartBridge \/ UNCHANGED vars
  BY <1>5 DEF RestartBridge, vars
<1> QED
  BY <1>1, <1>2, <1>3, <1>4, <1>5 DEF Next, Application, Script, Environment

\* What a step of the bridge does to its streams and to the status of the runtimes.
Opened(s, r) ==
  /\ stream[s] = "unused" /\ stream' = [stream EXCEPT ![s] = "open"]
  /\ owner' = [owner EXCEPT ![s] = r]
  /\ current' = [current EXCEPT ![r] = s] /\ status' = [status EXCEPT ![r] = "connected"]

Ended(s, r) ==
  /\ stream[s] # "unused" /\ owner' = owner
  /\ \E end \in {"ended", "closed"} : stream' = [stream EXCEPT ![s] = end]
  /\ \/ /\ current[r] = s /\ current' = [current EXCEPT ![r] = None]
        /\ status' = [status EXCEPT ![r] = "disconnected"]
     \/ \A q \in Runtimes : current[q] # s /\ UNCHANGED <<current, status>>

LEMMA BridgeMoves ==
  ASSUME IInv, BridgeInv, [Next]_vars, ~UNCHANGED bridgeVars
  PROVE  /\ UNCHANGED <<client, attemptOf, runtimeOf, connection, source, listening>>
         /\ \/ RestartBridge /\ usurped' = usurped
            \/ \E s \in Streams :
                 LET r == runtimeOf[attemptOf[s]] IN
                 /\ client[s] # "unused" /\ attemptOf[s] \in Connections /\ r \in Runtimes
                 /\ Opened(s, r)
                 /\ usurped' = IF Usurps(s, r) THEN usurped \cup {r} ELSE usurped
            \/ \E s \in Streams, r \in Runtimes : Ended(s, r) /\ usurped' = usurped
<1> DEFINE Same == UNCHANGED <<client, attemptOf, runtimeOf, connection, source, listening>>
<1> USE DEF managerVars, linkVars, wireVars, idleVars, BridgeInv
<1>1. ASSUME RestartBridge PROVE Same /\ usurped' = usurped
  BY <1>1 DEF RestartBridge
<1>2. ASSUME NEW s \in Streams, ConnectArrives(s)
      PROVE  /\ Same
             /\ client[s] # "unused" /\ attemptOf[s] \in Connections
             /\ runtimeOf[attemptOf[s]] \in Runtimes /\ Opened(s, runtimeOf[attemptOf[s]])
             /\ usurped' = IF Usurps(s, runtimeOf[attemptOf[s]])
                           THEN usurped \cup {runtimeOf[attemptOf[s]]} ELSE usurped
  <2>1. /\ client[s] # "unused" /\ attemptOf[s] \in Connections
        /\ runtimeOf[attemptOf[s]] \in Runtimes
    BY <1>2, NoneIsNone DEF ConnectArrives, IInv, PageType, Links, ClientLinks
  <2> QED
    BY <1>2, <2>1 DEF ConnectArrives, Opened, B!Connect, B!RecordConnection
<1>3. ASSUME NEW s \in Streams, StreamCloses(s)
      PROVE  Same /\ usurped' = usurped /\ \E r \in Runtimes : Ended(s, r)
  <2>1. /\ stream[s] \in {"open", "ended"} /\ stream' = [stream EXCEPT ![s] = "closed"]
        /\ owner' = owner /\ owner[s] \in Runtimes
        /\ Same /\ usurped' = usurped
    BY <1>3, NoneIsNone DEF StreamCloses, B!StreamClosed, BridgeLinks, B!TypeOK
  <2>2. CASE current[owner[s]] = s
    BY <1>3, <2>1, <2>2 DEF StreamCloses, B!StreamClosed, B!IsCurrent, B!Disconnect, Ended
  <2>3. CASE current[owner[s]] # s
    <3>1. \A q \in Runtimes : current[q] # s
      BY <2>1, <2>3, NoneIsNone DEF BridgeLinks
    <3> QED
      BY <1>3, <2>1, <2>3, <3>1
         DEF StreamCloses, B!StreamClosed, B!IsCurrent, B!recordVars, Ended
  <2> QED
    BY <2>2, <2>3
<1>4. ASSUME NEW k \in Connections, DisconnectArrives(k)
      PROVE  /\ Same /\ usurped' = usurped
             /\ \E s \in Streams, r \in Runtimes : Ended(s, r)
  <2>1. B!ConnectionMatches(runtimeOf[k], k) /\ B!DisconnectConnection(runtimeOf[k], k)
    BY <1>4 DEF DisconnectArrives
  <2>2. runtimeOf[k] \in Runtimes
    BY <1>4 DEF DisconnectArrives, IInv, PageType, Links, FreshLinks
  <2>3. /\ current[runtimeOf[k]] \in Streams /\ stream[current[runtimeOf[k]]] # "unused"
    BY <2>1, <2>2 DEF B!ConnectionMatches, BridgeLinks, B!TypeOK
  <2>4. Ended(current[runtimeOf[k]], runtimeOf[k])
    BY <2>1, <2>3 DEF B!DisconnectConnection, B!Disconnect, Ended
  <2>5. Same /\ usurped' = usurped
    BY <1>4, <2>1 DEF DisconnectArrives, B!DisconnectConnection
  <2> QED
    BY <2>2, <2>3, <2>4, <2>5
<1> QED
  BY <1>1, <1>2, <1>3, <1>4, BridgeTouched

LEMMA EndsAgreeStep ==
  ASSUME IInv, BridgeInv, EndsAgree, [Next]_vars
  PROVE  EndsAgree'
<1>0. PageType /\ ClientLinks /\ B!TypeOK
  BY DEF IInv, Links, BridgeInv
<1>1. CASE UNCHANGED bridgeVars
  <2> SUFFICES ASSUME NEW s \in Streams
               PROVE  /\ client'[s] = "unused" => stream'[s] = "unused"
                      /\ client'[s] = "open" => stream'[s] # "unused"
                      /\ stream'[s] # "unused" => owner'[s] = runtimeOf'[attemptOf'[s]]
    BY DEF EndsAgree
  <2>0. stream' = stream /\ owner' = owner
    BY <1>1 DEF bridgeVars
  <2>1. client'[s] = "unused" => stream'[s] = "unused"
    BY <2>0, AttemptsGrow DEF EndsAgree
  <2>2. client'[s] = "open" => stream'[s] # "unused"
    BY <2>0, CreatedStay DEF EndsAgree, ConnectedEvent
  <2>3. CASE stream[s] # "unused"
    <3>1. client[s] # "unused" /\ attemptOf'[s] = attemptOf[s]
      BY <2>3, AttemptsGrow DEF EndsAgree
    <3>2. attemptOf[s] \in Connections /\ runtimeOf[attemptOf[s]] # None
      BY <1>0, <3>1 DEF ClientLinks, PageType
    <3> QED
      BY <2>0, <2>1, <2>2, <2>3, <3>1, <3>2, CreatedStay DEF EndsAgree
  <2> QED
    BY <2>0, <2>1, <2>2, <2>3
<1>2. CASE ~UNCHANGED bridgeVars
  <2>1. UNCHANGED <<client, attemptOf, runtimeOf>>
    BY <1>2, BridgeMoves
  <2>2. CASE RestartBridge
    BY <1>0, <2>1, <2>2 DEF RestartBridge, EndsAgree, B!TypeOK
  <2>3. ASSUME NEW s \in Streams, client[s] # "unused", Opened(s, runtimeOf[attemptOf[s]])
        PROVE  EndsAgree'
    BY <1>0, <2>1, <2>3 DEF Opened, EndsAgree, B!TypeOK
  <2>4. ASSUME NEW s \in Streams, NEW r \in Runtimes, Ended(s, r) PROVE EndsAgree'
    BY <1>0, <2>1, <2>4 DEF Ended, EndsAgree, B!TypeOK
  <2> QED
    BY <1>2, <2>2, <2>3, <2>4, BridgeMoves
<1> QED
  BY <1>1, <1>2

LEMMA StatusStep ==
  ASSUME IInv, BridgeInv, StatusFollowsStream, [Next]_vars
  PROVE  StatusFollowsStream'
<1>0. B!TypeOK
  BY DEF BridgeInv
<1>1. CASE UNCHANGED bridgeVars
  BY <1>1 DEF bridgeVars, idleVars, StatusFollowsStream
<1>2. CASE ~UNCHANGED bridgeVars
  <2>1. listening' = listening
    BY <1>2, BridgeMoves
  <2>2. CASE RestartBridge
    BY <2>1, <2>2 DEF RestartBridge, StatusFollowsStream
  <2>3. ASSUME NEW s \in Streams, NEW r \in Runtimes, Opened(s, r) PROVE StatusFollowsStream'
    BY <1>0, <2>1, <2>3, NoneIsNone DEF Opened, StatusFollowsStream, B!TypeOK
  <2>4. ASSUME NEW s \in Streams, NEW r \in Runtimes, Ended(s, r) PROVE StatusFollowsStream'
    BY <1>0, <2>1, <2>4 DEF Ended, StatusFollowsStream, B!TypeOK
  <2> QED
    BY <1>2, <2>2, <2>3, <2>4, BridgeMoves
<1> QED
  BY <1>1, <1>2

\* An attempt that is taken over is counted in usurped, an ended stream is no longer open,
\* and an attempt that was just made has not arrived.
LEMMA LiveStep ==
  ASSUME IInv, BridgeInv, EndsAgree, LiveIsCurrent, [Next]_vars
  PROVE  LiveIsCurrent'
<1>0. B!TypeOK /\ BridgeLinks /\ PageType /\ MapLinks /\ SourceLinks
  BY DEF BridgeInv, IInv, Links
<1> SUFFICES ASSUME NEW r \in Runtimes, Live(r)' # None, stream'[Live(r)'] = "open"
             PROVE  current'[r] = Live(r)' \/ r \in usurped'
  BY DEF LiveIsCurrent
<1>1. CASE UNCHANGED bridgeVars
  <2>0. stream' = stream /\ current' = current
    BY <1>1 DEF bridgeVars
  <2>1. usurped \subseteq usurped'
    BY DEF Next, Application, Script, Environment, Install, Uninstall, CloseManager, Unload,
           WaitForRegistry, ConnectedEvent, ErrorEvent, RetryTimer, PostSettles,
           ConnectArrives, StreamCloses, CutStream, DisconnectArrives, BrowserReconnects,
           RestartBridge, vars
  <2>2. Live(r)' = Live(r)
    BY <2>0, LiveMoves DEF EndsAgree
  <2> QED
    BY <2>0, <2>1, <2>2 DEF LiveIsCurrent
<1>2. CASE ~UNCHANGED bridgeVars
  <2>1. Live(r)' = Live(r)
    BY <1>2, BridgeMoves DEF Live
  <2>2. Live(r) \in Streams /\ attemptOf[Live(r)] = connection[r] /\ runtimeOf[connection[r]] = r
    BY <1>0, <2>1 DEF Live, PageType, MapLinks, SourceLinks
  <2>3. CASE RestartBridge
    BY <2>1, <2>2, <2>3 DEF RestartBridge
  <2>4. ASSUME NEW s \in Streams, NEW q \in Runtimes, q = runtimeOf[attemptOf[s]], Opened(s, q),
               usurped' = IF Usurps(s, q) THEN usurped \cup {q} ELSE usurped
        PROVE  current'[r] = Live(r)' \/ r \in usurped'
    <3>1. CASE s = Live(r)
      BY <1>0, <2>1, <2>2, <2>4, <3>1 DEF Opened, B!TypeOK
    <3>2. CASE s # Live(r)
      <4>1. stream[Live(r)] = "open"
        BY <1>0, <2>1, <2>2, <2>4, <3>2 DEF Opened, B!TypeOK
      <4>2. current[r] = Live(r) \/ r \in usurped
        BY <2>1, <4>1 DEF LiveIsCurrent
      <4>3. CASE q = r
        BY <2>1, <2>4, <3>2, <4>2, <4>3 DEF Usurps
      <4>4. CASE q # r
        BY <1>0, <2>1, <2>4, <4>2, <4>4 DEF Opened, B!TypeOK
      <4> QED
        BY <4>3, <4>4
    <3> QED
      BY <3>1, <3>2
  <2>5. ASSUME NEW s \in Streams, NEW q \in Runtimes, Ended(s, q), usurped' = usurped
        PROVE  current'[r] = Live(r)' \/ r \in usurped'
    <3>1. s # Live(r) /\ stream[Live(r)] = "open"
      BY <1>0, <2>1, <2>2, <2>5 DEF Ended, B!TypeOK
    <3>2. current[r] = Live(r) \/ r \in usurped
      BY <2>1, <3>1 DEF LiveIsCurrent
    <3> QED
      BY <1>0, <2>1, <2>5, <3>1, <3>2 DEF Ended, B!TypeOK
  <2> QED
    BY <1>2, <2>3, <2>4, <2>5, BridgeMoves
<1> QED
  BY <1>1, <1>2

LEMMA FreshUncutStep ==
  ASSUME IInv, RestType, FreshUncut, [Next]_vars
  PROVE  FreshUncut'
<1>1. \A s \in cut' : s \in cut \/ CutStream(s)
  <2>1. CASE Application \/ WaitForRegistry \/ UNCHANGED vars
    BY <2>1 DEF Application, Install, Uninstall, CloseManager, Unload, WaitForRegistry, OpenAll,
                Open, wireVars, vars
  <2>2. CASE Script
    BY <2>1, <2>2 DEF Script, ConnectedEvent, ErrorEvent, RetryTimer, PostSettles
  <2>3. CASE Environment
    BY <2>3 DEF Environment, ConnectArrives, StreamCloses, CutStream, DisconnectArrives,
                BrowserReconnects, RestartBridge, wireVars
  <2> QED
    BY <2>1, <2>2, <2>3 DEF Next
<1>2. ASSUME NEW s \in Streams, CutStream(s) PROVE client'[s] # "unused"
  BY <1>2 DEF CutStream
<1>3. ASSUME NEW s \in cut PROVE client'[s] # "unused"
  BY AttemptsGrow DEF FreshUncut, RestType
<1>4. cut' \subseteq Streams
  BY RestStep DEF RestType
<1> QED
  BY <1>1, <1>2, <1>3, <1>4 DEF FreshUncut

LEMMA RestInvariant == Spec => [](IInv /\ BridgeInv /\ RestInv)
<1>1. IInv /\ RestType /\ BridgeInv /\ RestInv /\ [Next]_vars => RestInv'
  BY WatchesStep, MapActiveStep, EndsAgreeStep, StatusStep, LiveStep, FreshUncutStep
     DEF RestInv, IInv
<1> QED
  BY <1>1, RestInvInit, Invariant, PTL DEF Spec

\* What the page, the network and the bridge have yet to do, part by part of Progress.
RegistryDue == ~stopped /\ ~watching /\ hasRegistry
ArrivalDue(s) == client[s] = "connecting" /\ s \notin cut /\ stream[s] = "unused"
EventDue(s) == client[s] = "connecting" /\ s \notin cut /\ stream[s] = "open"
CloseDue(s) ==
  \/ stream[s] = "ended"
  \/ stream[s] = "open" /\ (client[s] = "closed" \/ s \in cut)

AtRest ==
  /\ ~RegistryDue
  /\ \A s \in Streams : ~ArrivalDue(s) /\ ~EventDue(s) /\ ~Fails(s) /\ ~CloseDue(s)
  /\ retrying = {}
  /\ \A k \in Connections : post[k] \notin {"sent", "answered"}

\* What BridgeFollowsRegistry promises.
Followed ==
  \A r \in Runtimes :
    \/ r \in usurped
    \/ IF r \in registered /\ ~stopped THEN Connected(r) ELSE status[r] # "connected"

\* A registered runtime has an event source, and one that neither failed nor waits is open
\* at both ends.
LEMMA RegisteredAtRest ==
  ASSUME IInv, BridgeInv, RestInv, AtRest, NEW r \in registered, ~stopped, r \notin usurped
  PROVE  Connected(r)
<1> DEFINE s == Live(r)
<1>1. r \in Runtimes /\ connection[r] \in Connections
  BY DEF AtRest, RegistryDue, RestInv, Watches, IInv, PageType, ConnectionsFollowRegistry
<1>2. s \in Streams /\ client[s] \in {"connecting", "open"}
  BY <1>1, NoneIsNone
     DEF Live, AtRest, RestInv, MapActive, IInv, PageType, Links, SourceLinks
<1>3. stream[s] \in {"unused", "open", "ended", "closed"}
  BY <1>2 DEF BridgeInv, B!TypeOK
<1>4. client[s] = "open" /\ stream[s] = "open"
  BY <1>2, <1>3 DEF AtRest, ArrivalDue, EventDue, Fails, RestInv, EndsAgree
<1>5. current[r] = s
  BY <1>1, <1>2, <1>4, NoneIsNone DEF RestInv, LiveIsCurrent
<1> QED
  BY <1>2, <1>4, <1>5, NoneIsNone DEF Connected

\* A runtime that is not registered has no stream: nobody holds the page's end of it.
LEMMA UnregisteredAtRest ==
  ASSUME IInv, BridgeInv, RestInv, AtRest, NEW r \in Runtimes, r \notin registered \/ stopped
  PROVE  status[r] # "connected"
<1> SUFFICES ASSUME current[r] # None PROVE FALSE
  BY DEF RestInv, StatusFollowsStream
<1> DEFINE s == current[r]
           k == attemptOf[s]
<1>1. /\ s \in Streams /\ stream[s] = "open" /\ owner[s] = r
      /\ client[s] \in {"connecting", "open", "closed"}
  BY DEF BridgeInv, BridgeLinks, B!TypeOK, IInv, PageType
<1>2. client[s] = "open"
  BY <1>1 DEF AtRest, CloseDue, EventDue
<1>3. k \in Connections /\ s \in {source[k], closing[k]} /\ runtimeOf[k] = r
  BY <1>1, <1>2 DEF IInv, PageType, Links, ClientLinks, RestInv, EndsAgree
<1>4. source[k] = s
  BY <1>1, <1>3, NoneIsNone DEF AtRest, IInv, Links, ClosingLinks
<1>5. connection[r] = k
  BY <1>1, <1>3, <1>4, NoneIsNone DEF IInv, Links, SourceLinks
<1>6. watching /\ r \in registered
  BY <1>3, <1>5, NoneIsNone DEF IInv, ConnectionsFollowRegistry
<1> QED
  BY <1>6 DEF RestInv, Watches

\* Whenever nothing is left to do, the bridge shows exactly the registered runtimes of the
\* page as connected, whatever was installed, closed, cut, lost or restarted on the way
\* (createConnectionManager, createConnection, store.connect, store.disconnect).
THEOREM RestIsRight == Spec => [](AtRest => Followed)
<1>1. IInv /\ BridgeInv /\ RestInv => (AtRest => Followed)
  BY RegisteredAtRest, UnregisteredAtRest DEF Followed
<1> QED
  BY <1>1, RestInvariant, PTL

\* As long as what is due gets done, a page and a bridge that come to rest agree for good.
THEOREM BridgeFollowsAtLast ==
  Spec /\ <>[][FALSE]_vars /\ ([]<>AtRest \/ []<><<Progress>>_vars) => BridgeFollowsRegistry
<1>1. Followed /\ UNCHANGED vars => Followed'
  BY DEF Followed, Connected, Live, vars
<1>2. <>[]Followed => BridgeFollowsRegistry
  BY DEF Followed, BridgeFollowsRegistry
<1> QED
  BY <1>1, <1>2, RestIsRight, PTL
-----------------------------------------------------------------------------
(* The page and the bridge in motion *)

\* The application and the network leave the script alone: nothing is installed, loaded or
\* closed, nothing is cut, lost or restarted, and no request the page has given up arrives.
Calm == [][Progress]_vars

\* The fairness of PageConnection, task by task, with the guards written out.
ManagerWorks == []<>~RegistryDue \/ []<><<WaitForRegistry>>_vars

Arrives(s) == client[s] = "connecting" /\ s \notin cut /\ ConnectArrives(s)

AttemptWorks(s) ==
  /\ []<>~ArrivalDue(s) \/ []<><<Arrives(s)>>_vars
  /\ []<>~EventDue(s) \/ []<><<ConnectedEvent(s)>>_vars
  /\ []<>~Fails(s) \/ []<><<ErrorEvent(s)>>_vars
  /\ []<>~CloseDue(s) \/ []<><<StreamCloses(s)>>_vars

RetryDue(k) == k \in retrying
PostDue(k) == post[k] = "sent"
SettleDue(k) == post[k] = "answered"

ConnectionWorks(k) ==
  /\ []<>~RetryDue(k) \/ []<><<RetryTimer(k)>>_vars
  /\ []<>~PostDue(k) \/ []<><<DisconnectArrives(k)>>_vars
  /\ []<>~SettleDue(k) \/ []<><<SettleDue(k) /\ PostSettles(k)>>_vars

Works ==
  /\ ManagerWorks
  /\ \A s \in Streams : AttemptWorks(s)
  /\ \A k \in Connections : ConnectionWorks(k)

SafeInv == IInv /\ BridgeInv /\ RestInv

\* What a calm step leaves as it is.
LEMMA CalmKeeps ==
  ASSUME [Progress]_vars
  PROVE  /\ [Next]_vars
         /\ UNCHANGED <<registered, hasRegistry, stopped, cut, closed>>
         /\ WaitForRegistry \/ UNCHANGED <<watching, connection, runtimeOf>>
<1> DEFINE Kept == UNCHANGED <<registered, hasRegistry, stopped, cut, closed>>
           Still == UNCHANGED <<watching, connection, runtimeOf>>
<1> USE DEF registryVars, managerVars, linkVars, wireVars
<1>1. ASSUME NEW s \in Streams,
             ConnectedEvent(s) \/ ErrorEvent(s) \/ StreamCloses(s) \/ ConnectArrives(s)
      PROVE  Next /\ Kept /\ Still
  <2>1. Next
    BY <1>1 DEF Next, Script, Environment
  <2>2. Kept /\ Still
    BY <1>1 DEF ConnectedEvent, ErrorEvent, StreamCloses, ConnectArrives
  <2> QED
    BY <2>1, <2>2
<1>2. ASSUME NEW k \in Connections, RetryTimer(k) \/ DisconnectArrives(k) \/ PostSettles(k)
      PROVE  Next /\ Kept /\ Still
  <2>1. Next
    BY <1>2 DEF Next, Script, Environment
  <2>2. Kept /\ Still
    BY <1>2 DEF RetryTimer, DisconnectArrives, PostSettles
  <2> QED
    BY <2>1, <2>2
<1>3. WaitForRegistry => Next /\ Kept
  BY DEF Next, Script, WaitForRegistry, OpenAll, Open
<1>4. UNCHANGED vars => Kept /\ Still
  BY DEF vars
<1> QED
  BY <1>1, <1>2, <1>3, <1>4 DEF Progress

-----------------------------------------------------------------------------
(* Every registered runtime gets connected *)

Wanted(r) == r \in registered /\ ~stopped
Good(r) == r \in usurped \/ Connected(r)

\* Runtime r has connection k, which tries again, or has attempt s, broken or sound.
Has(r, k) == Wanted(r) /\ watching /\ connection[r] = k
Retries(r, k) == Has(r, k) /\ k \in retrying
Broken(r, k, s) == Has(r, k) /\ source[k] = s /\ Fails(s)
Sound(r, k, s) == Has(r, k) /\ source[k] = s /\ ~Fails(s)

SomeBroken(r, k) == \E s \in Streams : Broken(r, k, s)
SomeSound(r, k) == \E s \in Streams : Sound(r, k, s)
SomeHas(r) == \E k \in Connections : Has(r, k)

LEMMA HasFacts ==
  ASSUME SafeInv, NEW r \in Runtimes, NEW k \in Connections, Has(r, k)
  PROVE  /\ runtimeOf[k] = r /\ k \notin closed /\ post[k] = "none" /\ closing[k] = None
         /\ source[k] # None =>
              /\ source[k] \in Streams /\ attemptOf[source[k]] = k /\ Live(r) = source[k]
              /\ client[source[k]] \in {"connecting", "open"} /\ k \notin retrying
         /\ source[k] # None \/ k \in retrying
<1>1. PageType /\ MapLinks /\ SourceLinks /\ MapActive
  BY DEF SafeInv, IInv, Links, RestInv
<1>2. connection[r] = k /\ k # None
  BY NoneIsNone DEF Has
<1> QED
  BY <1>1, <1>2 DEF PageType, MapLinks, SourceLinks, MapActive, Live

LEMMA HasStays ==
  ASSUME SafeInv, [Progress]_vars, NEW r \in Runtimes, NEW k \in Connections, Has(r, k)
  PROVE  Has(r, k)'
<1>1. ~WaitForRegistry
  BY DEF Has, WaitForRegistry
<1>2. registered' = registered /\ stopped' = stopped
  BY CalmKeeps
<1>3. watching' = watching /\ connection' = connection
  BY <1>1, CalmKeeps
<1> QED
  BY <1>2, <1>3 DEF Has, Wanted

\* A calm step fails no attempt that is sound: only the post of its own connection, a cut or
\* the page could end its stream.
LEMMA SoundStays ==
  ASSUME SafeInv, [Progress]_vars, NEW r \in Runtimes, NEW k \in Connections,
         NEW s \in Streams, Sound(r, k, s)
  PROVE  /\ Sound(r, k, s)'
         /\ ~ArrivalDue(s) => ~ArrivalDue(s)'
         /\ ~ArrivalDue(s) /\ ~EventDue(s) => ~EventDue(s)'
<1>0. /\ Has(r, k) /\ source[k] = s /\ ~Fails(s) /\ s # None
      /\ attemptOf[s] = k /\ client[s] \in {"connecting", "open"} /\ k \notin retrying
      /\ post[k] = "none" /\ closing[k] = None
      /\ s \notin cut /\ stream[s] \in {"unused", "open"}
      /\ client[s] = "open" => stream[s] = "open"
      /\ PageType /\ B!TypeOK
  BY HasFacts, NoneIsNone
     DEF Sound, Fails, SafeInv, IInv, BridgeInv, B!TypeOK, RestInv, EndsAgree
<1>1. Has(r, k)' /\ cut' = cut /\ [Next]_vars
  BY <1>0, HasStays, CalmKeeps
<1>2. source'[k] = s
  <2>1. ASSUME NEW x \in Streams, ErrorEvent(x) PROVE source'[k] = s
    BY <1>0, <2>1, NoneIsNone DEF ErrorEvent, PageType
  <2>2. ASSUME NEW j \in Connections, RetryTimer(j) PROVE source'[k] = s
    BY <1>0, <2>2 DEF RetryTimer, PageType
  <2>3. CASE WaitForRegistry
    BY <1>0, <2>3 DEF Has, WaitForRegistry
  <2>4. ASSUME NEW x \in Streams, ConnectedEvent(x) \/ StreamCloses(x) \/ ConnectArrives(x)
        PROVE  source'[k] = s
    BY <1>0, <2>4 DEF ConnectedEvent, StreamCloses, ConnectArrives, linkVars
  <2>5. ASSUME NEW j \in Connections, DisconnectArrives(j) \/ PostSettles(j)
        PROVE  source'[k] = s
    BY <1>0, <2>5 DEF DisconnectArrives, PostSettles
  <2> QED
    BY <1>0, <2>1, <2>2, <2>3, <2>4, <2>5 DEF Progress, vars
<1>3. client'[s] \in {"connecting", "open"} /\ (client[s] = "open" => client'[s] = "open")
  <2>1. ASSUME NEW x \in Streams, ErrorEvent(x) PROVE client'[s] = client[s]
    BY <1>0, <2>1 DEF ErrorEvent, PageType
  <2>2. ASSUME NEW x \in Streams, ConnectedEvent(x)
        PROVE  client'[s] = client[s] \/ client'[s] = "open"
    BY <1>0, <2>2 DEF ConnectedEvent, PageType
  <2>3. ASSUME NEW j \in Connections, RetryTimer(j) PROVE client'[s] = client[s]
    BY <1>0, <2>3 DEF RetryTimer, Attempt, Unused, PageType
  <2>4. ASSUME NEW j \in Connections, PostSettles(j) PROVE client'[s] = client[s]
    <3>1. closing[j] # s
      BY <1>0 DEF SafeInv, IInv, Links, ClosingLinks
    <3> QED
      BY <1>0, <2>4, <3>1 DEF PostSettles, CloseActiveStream, PageType
  <2>5. CASE WaitForRegistry
    BY <1>0, <2>5 DEF Has, WaitForRegistry
  <2>6. ASSUME \/ \E x \in Streams : StreamCloses(x) \/ ConnectArrives(x)
               \/ \E j \in Connections : DisconnectArrives(j)
               \/ UNCHANGED vars
        PROVE  client' = client
    BY <2>6 DEF StreamCloses, ConnectArrives, DisconnectArrives, wireVars, vars
  <2> QED
    BY <1>0, <2>1, <2>2, <2>3, <2>4, <2>5, <2>6 DEF Progress
<1>4. stream'[s] \in {"unused", "open"} /\ (stream[s] = "open" => stream'[s] = "open")
  <2>1. CASE UNCHANGED bridgeVars
    BY <1>0, <2>1 DEF bridgeVars
  <2>2. ASSUME NEW x \in Streams, ConnectArrives(x)
        PROVE  stream'[s] = stream[s] \/ stream'[s] = "open"
    BY <1>0, <2>2 DEF ConnectArrives, B!Connect, B!TypeOK
  <2>3. ASSUME NEW x \in Streams, StreamCloses(x) PROVE stream'[s] = stream[s]
    BY <1>0, <2>3 DEF StreamCloses, B!StreamClosed, B!TypeOK
  <2>4. ASSUME NEW j \in Connections, DisconnectArrives(j) PROVE stream'[s] = stream[s]
    <3>1. CASE ~B!ConnectionMatches(runtimeOf[j], j)
      BY <2>4, <3>1 DEF DisconnectArrives, bridgeVars
    <3>2. CASE B!ConnectionMatches(runtimeOf[j], j)
      <4>1. runtimeOf[j] \in Runtimes
        BY <2>4 DEF DisconnectArrives, SafeInv, IInv, PageType, Links, FreshLinks
      <4>2. current[runtimeOf[j]] # s
        BY <1>0, <2>4, <3>2, <4>1, NoneIsNone
           DEF DisconnectArrives, B!ConnectionMatches, SafeInv, BridgeInv, BridgeLinks
      <4> QED
        BY <1>0, <2>4, <3>2, <4>1, <4>2 DEF DisconnectArrives, B!DisconnectConnection, B!TypeOK
    <3> QED
      BY <3>1, <3>2
  <2>5. [Progress]_vars => \/ UNCHANGED bridgeVars
                           \/ \E x \in Streams : ConnectArrives(x) \/ StreamCloses(x)
                           \/ \E j \in Connections : DisconnectArrives(j)
    BY DEF Progress, WaitForRegistry, ConnectedEvent, ErrorEvent, RetryTimer, PostSettles, vars,
           bridgeVars, idleVars
  <2> QED
    BY <1>0, <2>1, <2>2, <2>3, <2>4, <2>5
<1>5. Sound(r, k, s)'
  BY <1>0, <1>1, <1>2, <1>3, <1>4 DEF Sound, Fails
<1> QED
  BY <1>0, <1>1, <1>3, <1>4, <1>5 DEF ArrivalDue, EventDue

\* An attempt that is sound arrives, its event reaches the page, and that is all it takes.
LEMMA SoundGets ==
  ASSUME SafeInv, NEW r \in Runtimes, NEW k \in Connections, NEW s \in Streams, Sound(r, k, s)
  PROVE  /\ ~ArrivalDue(s) /\ ~EventDue(s) => Good(r)
         /\ <<Arrives(s)>>_vars => ~ArrivalDue(s)'
         /\ <<ConnectedEvent(s)>>_vars => ~ArrivalDue(s)' /\ ~EventDue(s)'
<1>0. /\ source[k] = s /\ Live(r) = s /\ s # None /\ s \notin cut
      /\ client[s] \in {"connecting", "open"} /\ stream[s] \in {"unused", "open"}
      /\ PageType /\ B!TypeOK /\ EndsAgree /\ LiveIsCurrent
  BY HasFacts, NoneIsNone DEF Sound, Fails, SafeInv, IInv, BridgeInv, B!TypeOK, RestInv
<1>1. ASSUME ~ArrivalDue(s), ~EventDue(s) PROVE Good(r)
  <2>1. client[s] = "open" /\ stream[s] = "open"
    BY <1>0, <1>1 DEF ArrivalDue, EventDue, EndsAgree
  <2> QED
    BY <1>0, <2>1 DEF Good, Connected, LiveIsCurrent
<1>2. ASSUME Arrives(s) PROVE ~ArrivalDue(s)'
  BY <1>0, <1>2 DEF Arrives, ConnectArrives, B!Connect, B!TypeOK, ArrivalDue
<1>3. ASSUME ConnectedEvent(s) PROVE ~ArrivalDue(s)' /\ ~EventDue(s)'
  BY <1>0, <1>3 DEF ConnectedEvent, PageType, ArrivalDue, EventDue
<1> QED
  BY <1>1, <1>2, <1>3

LEMMA SoundEnds ==
  ASSUME NEW r \in Runtimes, NEW k \in Connections, NEW s \in Streams
  PROVE  Spec /\ AttemptWorks(s) => [](Calm /\ Sound(r, k, s) => <>[]Good(r))
<1>1. SafeInv /\ Sound(r, k, s) /\ [Progress]_vars
        => /\ Sound(r, k, s)'
           /\ ~ArrivalDue(s) => ~ArrivalDue(s)'
           /\ ~ArrivalDue(s) /\ ~EventDue(s) => ~EventDue(s)'
  BY SoundStays
<1>2. SafeInv /\ Sound(r, k, s)
        => /\ ~ArrivalDue(s) /\ ~EventDue(s) => Good(r)
           /\ <<Arrives(s)>>_vars => ~ArrivalDue(s)'
           /\ <<ConnectedEvent(s)>>_vars => ~ArrivalDue(s)' /\ ~EventDue(s)'
  BY SoundGets
<1>3. IInv /\ BridgeInv /\ RestInv => SafeInv
  BY DEF SafeInv
<1> QED
  BY <1>1, <1>2, <1>3, RestInvariant, PTL DEF AttemptWorks, Calm

\* A connection that tries again stays due, and its next attempt is sound.
LEMMA RetriesStep ==
  ASSUME SafeInv, NEW r \in Runtimes, NEW k \in Connections, Retries(r, k), [Progress]_vars
  PROVE  /\ Retries(r, k)' \/ SomeSound(r, k)'
         /\ RetryTimer(k) => SomeSound(r, k)'
<1>0. /\ Has(r, k) /\ k \in retrying /\ k \notin closed /\ source[k] = None
      /\ PageType /\ B!TypeOK /\ EndsAgree /\ FreshUncut /\ ClientLinks
  BY HasFacts, NoneIsNone
     DEF Retries, SafeInv, IInv, Links, SourceLinks, BridgeInv, RestInv
<1>1. Has(r, k)'
  BY <1>0, HasStays
<1>2. ASSUME RetryTimer(k) PROVE SomeSound(r, k)'
  <2>1. PICK s \in Streams :
          /\ client[s] = "unused" /\ client' = [client EXCEPT ![s] = "connecting"]
          /\ source' = [source EXCEPT ![k] = s] /\ UNCHANGED <<cut, stream>>
    BY <1>0, <1>2 DEF RetryTimer, Attempt, Unused, bridgeVars
  <2>2. source'[k] = s /\ s \notin cut' /\ stream'[s] = "unused"
    BY <1>0, <2>1 DEF PageType, EndsAgree, FreshUncut
  <2> QED
    BY <1>1, <2>1, <2>2 DEF SomeSound, Sound, Fails
<1>3. k \in retrying' \/ RetryTimer(k)
  <2>1. ASSUME NEW x \in Streams, ErrorEvent(x) PROVE k \in retrying'
    BY <1>0, <2>1 DEF ErrorEvent, Retry
  <2>2. ASSUME NEW j \in Connections, j # k, RetryTimer(j) PROVE k \in retrying'
    BY <1>0, <2>2 DEF RetryTimer
  <2>3. CASE WaitForRegistry
    BY <1>0, <2>3 DEF Has, WaitForRegistry
  <2>4. ASSUME \/ \E x \in Streams : ConnectedEvent(x) \/ StreamCloses(x) \/ ConnectArrives(x)
               \/ \E j \in Connections : DisconnectArrives(j) \/ PostSettles(j)
               \/ UNCHANGED vars
        PROVE  retrying' = retrying
    BY <2>4 DEF ConnectedEvent, StreamCloses, ConnectArrives, DisconnectArrives, PostSettles,
                linkVars, vars
  <2> QED
    BY <1>0, <2>1, <2>2, <2>3, <2>4 DEF Progress
<1> QED
  BY <1>1, <1>2, <1>3 DEF Retries

\* An attempt that failed stays so until its error arms the timer.
LEMMA BrokenStep ==
  ASSUME SafeInv, NEW r \in Runtimes, NEW k \in Connections, NEW s \in Streams,
         Broken(r, k, s), [Progress]_vars
  PROVE  /\ Broken(r, k, s)' \/ Retries(r, k)'
         /\ ErrorEvent(s) => Retries(r, k)'
<1>0. /\ Has(r, k) /\ source[k] = s /\ Fails(s) /\ s # None /\ attemptOf[s] = k
      /\ k \notin retrying /\ PageType /\ B!TypeOK
  BY HasFacts, NoneIsNone DEF Broken, SafeInv, IInv, BridgeInv
<1>1. Has(r, k)' /\ [Next]_vars /\ cut' = cut
  BY <1>0, HasStays, CalmKeeps
<1>2. ASSUME ErrorEvent(s) PROVE Retries(r, k)'
  BY <1>0, <1>1, <1>2 DEF ErrorEvent, Retry, Retries
<1>3. source'[k] = s \/ ErrorEvent(s)
  <2>1. ASSUME NEW x \in Streams, x # s, ErrorEvent(x) PROVE source'[k] = s
    BY <1>0, <2>1, NoneIsNone DEF ErrorEvent, PageType
  <2>2. ASSUME NEW j \in Connections, RetryTimer(j) PROVE source'[k] = s
    BY <1>0, <2>2 DEF RetryTimer, PageType
  <2>3. CASE WaitForRegistry
    BY <1>0, <2>3 DEF Has, WaitForRegistry
  <2>4. ASSUME \/ \E x \in Streams : ConnectedEvent(x) \/ StreamCloses(x) \/ ConnectArrives(x)
               \/ \E j \in Connections : DisconnectArrives(j) \/ PostSettles(j)
               \/ UNCHANGED vars
        PROVE  source' = source
    BY <2>4 DEF ConnectedEvent, StreamCloses, ConnectArrives, DisconnectArrives, PostSettles,
                linkVars, vars
  <2> QED
    BY <1>0, <2>1, <2>2, <2>3, <2>4 DEF Progress
<1>4. ASSUME source'[k] = s PROVE client'[s] \in {"connecting", "open"}
  <2>1. SourceLinks'
    BY <1>1, IInvStep DEF SafeInv, IInv, Links
  <2> QED
    BY <1>0, <1>4, <2>1 DEF SourceLinks
<1>5. stream[s] \in {"ended", "closed"} => stream'[s] \in {"ended", "closed"}
  <2>1. CASE UNCHANGED bridgeVars
    BY <2>1 DEF bridgeVars
  <2>2. CASE RestartBridge
    BY <1>0, <2>2 DEF RestartBridge, B!TypeOK
  <2>3. ASSUME NEW x \in Streams, NEW q \in Runtimes, Opened(x, q) \/ Ended(x, q)
        PROVE  stream[s] \in {"ended", "closed"} => stream'[s] \in {"ended", "closed"}
    BY <1>0, <2>3 DEF Opened, Ended, B!TypeOK
  <2> QED
    BY <1>1, <2>1, <2>2, <2>3, BridgeMoves DEF SafeInv
<1> QED
  BY <1>0, <1>1, <1>2, <1>3, <1>4, <1>5 DEF Broken, Fails

\* So a connection that has a broken attempt or none gets a sound one.
LEMMA BrokenEnds ==
  ASSUME NEW r \in Runtimes, NEW k \in Connections, NEW s \in Streams
  PROVE  Spec /\ AttemptWorks(s) => [](Calm /\ Broken(r, k, s) => <>Retries(r, k))
<1>1. SafeInv /\ Broken(r, k, s) /\ [Progress]_vars
        => /\ Broken(r, k, s)' \/ Retries(r, k)'
           /\ <<ErrorEvent(s)>>_vars => Retries(r, k)'
  BY BrokenStep
<1>2. Broken(r, k, s) => Fails(s)
  BY DEF Broken
<1>3. IInv /\ BridgeInv /\ RestInv => SafeInv
  BY DEF SafeInv
<1> QED
  BY <1>1, <1>2, <1>3, RestInvariant, PTL DEF AttemptWorks, Calm

LEMMA RetriesEnd ==
  ASSUME NEW r \in Runtimes, NEW k \in Connections
  PROVE  Spec /\ ConnectionWorks(k) => [](Calm /\ Retries(r, k) => <>SomeSound(r, k))
<1>1. SafeInv /\ Retries(r, k) /\ [Progress]_vars
        => /\ Retries(r, k)' \/ SomeSound(r, k)'
           /\ <<RetryTimer(k)>>_vars => SomeSound(r, k)'
  BY RetriesStep
<1>2. Retries(r, k) => RetryDue(k)
  BY DEF Retries, RetryDue
<1>3. IInv /\ BridgeInv /\ RestInv => SafeInv
  BY DEF SafeInv
<1> QED
  BY <1>1, <1>2, <1>3, RestInvariant, PTL DEF ConnectionWorks, Calm

LEMMA SomeSoundEnds ==
  ASSUME NEW r \in Runtimes, NEW k \in Connections
  PROVE  Spec /\ (\A s \in Streams : AttemptWorks(s))
           => [](Calm /\ SomeSound(r, k) => <>[]Good(r))
<1>1. ASSUME Spec, \A s \in Streams : AttemptWorks(s)
      PROVE  \A s \in Streams : [](Calm /\ Sound(r, k, s) => <>[]Good(r))
  <2>1. \A s \in Streams : Spec /\ AttemptWorks(s)
    BY <1>1
  <2> QED
    BY <2>1, SoundEnds
<1>2. (\A s \in Streams : [](Calm /\ Sound(r, k, s) => <>[]Good(r)))
        => [](\A s \in Streams : Calm /\ Sound(r, k, s) => <>[]Good(r))
  OBVIOUS
<1>3. (\A s \in Streams : Calm /\ Sound(r, k, s) => <>[]Good(r))
        => (Calm /\ SomeSound(r, k) => <>[]Good(r))
  BY DEF SomeSound
<1>4. [](\A s \in Streams : Calm /\ Sound(r, k, s) => <>[]Good(r))
        => [](Calm /\ SomeSound(r, k) => <>[]Good(r))
  BY <1>3, PTL
<1> QED
  BY <1>1, <1>2, <1>4

LEMMA SomeBrokenEnds ==
  ASSUME NEW r \in Runtimes, NEW k \in Connections
  PROVE  Spec /\ (\A s \in Streams : AttemptWorks(s))
           => [](Calm /\ SomeBroken(r, k) => <>Retries(r, k))
<1>1. ASSUME Spec, \A s \in Streams : AttemptWorks(s)
      PROVE  \A s \in Streams : [](Calm /\ Broken(r, k, s) => <>Retries(r, k))
  <2>1. \A s \in Streams : Spec /\ AttemptWorks(s)
    BY <1>1
  <2> QED
    BY <2>1, BrokenEnds
<1>2. (\A s \in Streams : [](Calm /\ Broken(r, k, s) => <>Retries(r, k)))
        => [](\A s \in Streams : Calm /\ Broken(r, k, s) => <>Retries(r, k))
  OBVIOUS
<1>3. (\A s \in Streams : Calm /\ Broken(r, k, s) => <>Retries(r, k))
        => (Calm /\ SomeBroken(r, k) => <>Retries(r, k))
  BY DEF SomeBroken
<1>4. [](\A s \in Streams : Calm /\ Broken(r, k, s) => <>Retries(r, k))
        => [](Calm /\ SomeBroken(r, k) => <>Retries(r, k))
  BY <1>3, PTL
<1> QED
  BY <1>1, <1>2, <1>4

LEMMA HasEnds ==
  ASSUME NEW r \in Runtimes, NEW k \in Connections
  PROVE  Spec /\ ConnectionWorks(k) /\ (\A s \in Streams : AttemptWorks(s))
           => [](Calm /\ Has(r, k) => <>[]Good(r))
<1>1. SafeInv /\ Has(r, k) => SomeBroken(r, k) \/ Retries(r, k) \/ SomeSound(r, k)
  BY HasFacts DEF SomeBroken, Broken, Retries, SomeSound, Sound
<1>2. IInv /\ BridgeInv /\ RestInv => SafeInv
  BY DEF SafeInv
<1> QED
  BY <1>1, <1>2, SomeBrokenEnds, RetriesEnd, SomeSoundEnds, RestInvariant, PTL DEF Calm

LEMMA SomeHasEnds ==
  ASSUME NEW r \in Runtimes
  PROVE  Spec /\ Works => [](Calm /\ SomeHas(r) => <>[]Good(r))
<1>1. ASSUME Spec, Works
      PROVE  \A k \in Connections : [](Calm /\ Has(r, k) => <>[]Good(r))
  <2>1. \A k \in Connections :
          Spec /\ ConnectionWorks(k) /\ (\A s \in Streams : AttemptWorks(s))
    BY <1>1 DEF Works
  <2> QED
    BY <2>1, HasEnds
<1>2. (\A k \in Connections : [](Calm /\ Has(r, k) => <>[]Good(r)))
        => [](\A k \in Connections : Calm /\ Has(r, k) => <>[]Good(r))
  OBVIOUS
<1>3. (\A k \in Connections : Calm /\ Has(r, k) => <>[]Good(r))
        => (Calm /\ SomeHas(r) => <>[]Good(r))
  BY DEF SomeHas
<1>4. [](\A k \in Connections : Calm /\ Has(r, k) => <>[]Good(r))
        => [](Calm /\ SomeHas(r) => <>[]Good(r))
  BY <1>3, PTL
<1> QED
  BY <1>1, <1>2, <1>4

\* The script finds the registry, and then every registered runtime has a connection.
LEMMA WantedStep ==
  ASSUME SafeInv, NEW r \in Runtimes, Wanted(r)
  PROVE  /\ SomeHas(r) \/ RegistryDue
         /\ <<WaitForRegistry>>_vars => SomeHas(r)'
<1>0. /\ r \in registered /\ ~stopped /\ hasRegistry
      /\ PageType /\ ConnectionsFollowRegistry /\ IInv
  BY DEF Wanted, SafeInv, IInv, RestInv, Watches
<1>1. CASE watching
  <2>1. connection[r] \in Connections
    BY <1>0, <1>1 DEF ConnectionsFollowRegistry, PageType
  <2> QED
    BY <1>0, <1>1, <2>1 DEF SomeHas, Has, Wanted, WaitForRegistry
<1>2. CASE ~watching
  <2>1. ASSUME WaitForRegistry PROVE SomeHas(r)'
    <3>1. watching' /\ r \in registered' /\ ~stopped'
      BY <1>0, <2>1 DEF WaitForRegistry, registryVars
    <3>2. PageType' /\ ConnectionsFollowRegistry'
      BY <1>0, <2>1, WaitForRegistryStep DEF IInv
    <3>3. connection'[r] \in Connections
      BY <3>1, <3>2 DEF ConnectionsFollowRegistry, PageType
    <3> QED
      BY <3>1, <3>3 DEF SomeHas, Has, Wanted
  <2> QED
    BY <1>0, <1>2, <2>1 DEF RegistryDue
<1> QED
  BY <1>1, <1>2

\* Once the application and the network leave the script alone, every registered runtime is
\* connected in the end, by the stream the page holds, and stays so, unless an older attempt
\* took it over: whatever the script was doing, a failed attempt is retried and a sound one
\* is never ended (waitForRegistry, open, onerror, the reconnect timer, store.connect).
THEOREM RegisteredConnect ==
  ASSUME NEW r \in Runtimes
  PROVE  Spec /\ Works /\ <>Calm
           => <>[](r \in registered /\ ~stopped => r \in usurped \/ Connected(r))
<1>1. SafeInv /\ Wanted(r)
        => /\ SomeHas(r) \/ RegistryDue
           /\ <<WaitForRegistry>>_vars => SomeHas(r)'
  BY WantedStep
<1>2. [Progress]_vars => (Wanted(r) <=> Wanted(r)')
  BY CalmKeeps DEF Wanted
<1>3. IInv /\ BridgeInv /\ RestInv => SafeInv
  BY DEF SafeInv
<1>4. Works => ManagerWorks
  BY DEF Works
<1>5. Spec /\ Works /\ <>Calm => <>[](Wanted(r) => Good(r))
  BY <1>1, <1>2, <1>3, <1>4, SomeHasEnds, RestInvariant, PTL DEF ManagerWorks, Calm
<1> QED
  BY <1>5 DEF Wanted, Good

-----------------------------------------------------------------------------
(* Every stream the page has given up comes to an end *)

\* The page has given attempt s of connection k up; it may not have closed its end yet.
Stray(s, k) == client[s] # "unused" /\ attemptOf[s] = k /\ source[k] # s
Waits(s, k) == Stray(s, k) /\ client[s] # "closed"
Shown(s) == client[s] = "closed" /\ stream[s] = "open"
Gone(s) == client[s] = "closed" /\ stream[s] # "open"

\* An event source the page has given up waits for the post of its connection.
LEMMA WaitsFacts ==
  ASSUME SafeInv, NEW s \in Streams, NEW k \in Connections, Waits(s, k)
  PROVE  /\ client[s] \in {"connecting", "open"} /\ closing[k] = s /\ k \in closed
         /\ source[k] = None
         /\ PostDue(k) \/ SettleDue(k)
BY NoneIsNone
   DEF Waits, Stray, SafeInv, IInv, PageType, Links, ClientLinks, ClosingLinks, PostDue, SettleDue

\* No event source changes hands in a calm step: one that the page opens is a new one.
LEMMA SourceKept ==
  ASSUME SafeInv, [Progress]_vars, NEW s \in Streams, NEW k \in Connections, client[s] # "unused"
  PROVE  source'[k] = s => source[k] = s
<1>0. PageType /\ IInv
  BY DEF SafeInv, IInv
<1>1. ASSUME NEW x \in Streams, ErrorEvent(x) PROVE source'[k] = s => source[k] = s
  BY <1>0, <1>1, NoneIsNone DEF ErrorEvent, PageType
<1>2. ASSUME NEW j \in Connections, RetryTimer(j) PROVE source'[k] = s => source[k] = s
  BY <1>0, <1>2 DEF RetryTimer, Attempt, Unused, PageType
<1>3. ASSUME WaitForRegistry PROVE source'[k] = s => source[k] = s
  <2>1. registered \in SUBSET Runtimes /\ OpenAll(registered)
    BY <1>0, <1>3 DEF WaitForRegistry, PageType
  <2> QED
    BY <1>0, <2>1, OpenEffect
<1>4. ASSUME \/ \E x \in Streams : ConnectedEvent(x) \/ StreamCloses(x) \/ ConnectArrives(x)
             \/ \E j \in Connections : DisconnectArrives(j) \/ PostSettles(j)
             \/ UNCHANGED vars
      PROVE  source' = source
  BY <1>4 DEF ConnectedEvent, StreamCloses, ConnectArrives, DisconnectArrives, PostSettles,
              linkVars, vars
<1> QED
  BY <1>1, <1>2, <1>3, <1>4 DEF Progress

\* What was given up stays so, and waits until its own post has settled.
LEMMA WaitsStep ==
  ASSUME SafeInv, [Progress]_vars, NEW s \in Streams, NEW k \in Connections, Waits(s, k)
  PROVE  /\ Waits(s, k)' \/ client'[s] = "closed"
         /\ SettleDue(k) => SettleDue(k)' \/ client'[s] = "closed"
         /\ DisconnectArrives(k) => SettleDue(k)'
         /\ SettleDue(k) /\ PostSettles(k) => client'[s] = "closed"
<1>0. /\ client[s] # "unused" /\ attemptOf[s] = k /\ source[k] # s /\ closing[k] = s
      /\ s # None /\ PageType /\ IInv
  BY WaitsFacts, NoneIsNone DEF Waits, Stray, SafeInv, IInv
<1>1. /\ client'[s] # "unused" /\ attemptOf'[s] = k
      /\ source'[k] # s
  BY <1>0, CalmKeeps, AttemptsGrow, SourceKept
<1>2. ASSUME DisconnectArrives(k) PROVE SettleDue(k)'
  BY <1>0, <1>2 DEF DisconnectArrives, SettleDue, PageType
<1>3. ASSUME PostSettles(k) PROVE client'[s] = "closed"
  BY <1>0, <1>3 DEF PostSettles, CloseActiveStream, PageType
<1>4. ASSUME SettleDue(k), ~PostSettles(k) PROVE SettleDue(k)'
  <2>1. ASSUME NEW j \in Connections, DisconnectArrives(j) PROVE SettleDue(k)'
    BY <1>0, <1>4, <2>1 DEF DisconnectArrives, SettleDue, PageType
  <2>2. ASSUME NEW j \in Connections, j # k, PostSettles(j) PROVE SettleDue(k)'
    BY <1>0, <1>4, <2>2 DEF PostSettles, SettleDue, PageType
  <2>3. ASSUME \/ WaitForRegistry \/ UNCHANGED vars \/ \E j \in Connections : RetryTimer(j)
               \/ \E x \in Streams : \/ ConnectedEvent(x) \/ ErrorEvent(x)
                                      \/ StreamCloses(x) \/ ConnectArrives(x)
        PROVE  post' = post
    BY <2>3 DEF WaitForRegistry, OpenAll, Open, RetryTimer, ConnectedEvent, ErrorEvent,
                StreamCloses, ConnectArrives, linkVars, vars
  <2> QED
    BY <1>4, <2>1, <2>2, <2>3 DEF Progress, SettleDue
<1> QED
  BY <1>1, <1>2, <1>3, <1>4 DEF Waits, Stray

\* A closed end stays closed, and the bridge opens no stream for it.
LEMMA ClosedStays ==
  ASSUME SafeInv, [Progress]_vars, NEW s \in Streams, client[s] = "closed"
  PROVE  /\ client'[s] = "closed"
         /\ stream[s] # "open" => stream'[s] # "open"
         /\ StreamCloses(s) => stream'[s] # "open"
<1>0. PageType /\ IInv /\ B!TypeOK
  BY DEF SafeInv, IInv, BridgeInv
<1>1. client'[s] = "closed"
  <2>1. ASSUME NEW x \in Streams, ConnectedEvent(x) \/ ErrorEvent(x) PROVE client'[s] = "closed"
    BY <1>0, <2>1 DEF ConnectedEvent, ErrorEvent, PageType
  <2>2. ASSUME NEW j \in Connections, RetryTimer(j) PROVE client'[s] = "closed"
    BY <1>0, <2>2 DEF RetryTimer, Attempt, Unused, PageType
  <2>3. ASSUME NEW j \in Connections, PostSettles(j) PROVE client'[s] = "closed"
    BY <1>0, <2>3 DEF PostSettles, CloseActiveStream, PageType
  <2>4. ASSUME WaitForRegistry PROVE client'[s] = "closed"
    <3>1. registered \in SUBSET Runtimes /\ OpenAll(registered)
      BY <1>0, <2>4 DEF WaitForRegistry, PageType
    <3> QED
      BY <1>0, <3>1, OpenEffect
  <2>5. ASSUME \/ \E x \in Streams : StreamCloses(x) \/ ConnectArrives(x)
               \/ \E j \in Connections : DisconnectArrives(j)
               \/ UNCHANGED vars
        PROVE  client' = client
    BY <2>5 DEF StreamCloses, ConnectArrives, DisconnectArrives, wireVars, vars
  <2> QED
    BY <2>1, <2>2, <2>3, <2>4, <2>5 DEF Progress
<1>2. ASSUME stream[s] # "open" PROVE stream'[s] # "open"
  <2>1. CASE UNCHANGED bridgeVars
    BY <1>2, <2>1 DEF bridgeVars
  <2>2. ASSUME NEW x \in Streams, client[x] = "connecting", ConnectArrives(x)
        PROVE  stream'[s] # "open"
    BY <1>0, <1>2, <2>2 DEF ConnectArrives, B!Connect, B!TypeOK
  <2>3. ASSUME NEW x \in Streams, StreamCloses(x) PROVE stream'[s] # "open"
    BY <1>0, <1>2, <2>3 DEF StreamCloses, B!StreamClosed, B!TypeOK
  <2>4. ASSUME NEW j \in Connections, DisconnectArrives(j) PROVE stream'[s] # "open"
    BY <1>0, <1>2, <2>4 DEF DisconnectArrives, B!DisconnectConnection, B!TypeOK, bridgeVars
  <2>5. \/ UNCHANGED bridgeVars
        \/ \E x \in Streams : client[x] = "connecting" /\ ConnectArrives(x)
        \/ \E x \in Streams : StreamCloses(x)
        \/ \E j \in Connections : DisconnectArrives(j)
    BY DEF Progress, WaitForRegistry, ConnectedEvent, ErrorEvent, RetryTimer, PostSettles, vars,
           bridgeVars, idleVars
  <2> QED
    BY <2>1, <2>2, <2>3, <2>4, <2>5
<1>3. ASSUME StreamCloses(s) PROVE stream'[s] # "open"
  BY <1>0, <1>3 DEF StreamCloses, B!StreamClosed, B!TypeOK
<1> QED
  BY <1>1, <1>2, <1>3

\* The bridge sees a closed end go.
LEMMA ShownEnds ==
  ASSUME NEW s \in Streams
  PROVE  Spec /\ AttemptWorks(s) => [](Calm /\ client[s] = "closed" => <>[]Gone(s))
<1>1. SafeInv /\ Gone(s) /\ [Progress]_vars => Gone(s)'
  BY ClosedStays DEF Gone
<1>2. SafeInv /\ Shown(s) /\ [Progress]_vars
        => /\ Shown(s)' \/ Gone(s)'
           /\ <<StreamCloses(s)>>_vars => Gone(s)'
  BY ClosedStays DEF Shown, Gone
<1>3. /\ Shown(s) => CloseDue(s)
      /\ client[s] = "closed" => Shown(s) \/ Gone(s)
  BY DEF Shown, Gone, CloseDue
<1>4. IInv /\ BridgeInv /\ RestInv => SafeInv
  BY DEF SafeInv
<1> QED
  BY <1>1, <1>2, <1>3, <1>4, RestInvariant, PTL DEF AttemptWorks, Calm

\* An attempt that was given up is closed once its post has settled.
LEMMA StrayEnds ==
  ASSUME NEW s \in Streams, NEW k \in Connections
  PROVE  Spec /\ AttemptWorks(s) /\ ConnectionWorks(k)
           => [](Calm /\ Stray(s, k) => <>[]Gone(s))
<1>1. SafeInv /\ Waits(s, k) /\ [Progress]_vars
        => /\ Waits(s, k)' \/ (client[s] = "closed")'
           /\ SettleDue(k) => SettleDue(k)' \/ (client[s] = "closed")'
           /\ <<DisconnectArrives(k)>>_vars => SettleDue(k)'
           /\ <<SettleDue(k) /\ PostSettles(k)>>_vars => (client[s] = "closed")'
  BY WaitsStep
<1>2. SafeInv /\ Waits(s, k) => PostDue(k) \/ SettleDue(k)
  BY WaitsFacts
<1>3. Stray(s, k) => Waits(s, k) \/ client[s] = "closed"
  BY DEF Waits
<1>4. IInv /\ BridgeInv /\ RestInv => SafeInv
  BY DEF SafeInv
<1> QED
  BY <1>1, <1>2, <1>3, <1>4, ShownEnds, RestInvariant, PTL DEF ConnectionWorks, Calm

\* What the bridge has open, the page means.
Meant(s) ==
  stream[s] = "open" => Live(owner[s]) = s /\ owner[s] \in registered /\ ~stopped

SomeStray(s) == \E k \in Connections : Stray(s, k)

\* An attempt that was made and not given up is the event source of a registered runtime.
LEMMA MeantUnlessStray ==
  ASSUME SafeInv, NEW s \in Streams, ~SomeStray(s)
  PROVE  Meant(s)
<1> SUFFICES ASSUME stream[s] = "open"
             PROVE  Live(owner[s]) = s /\ owner[s] \in registered /\ ~stopped
  BY DEF Meant
<1> DEFINE k == attemptOf[s]
<1>1. /\ PageType /\ ConnectionsFollowRegistry /\ SourceLinks /\ ClientLinks
      /\ EndsAgree /\ Watches
  BY DEF SafeInv, IInv, Links, RestInv
<1>2. client[s] # "unused" /\ k \in Connections /\ owner[s] = runtimeOf[k]
  BY <1>1 DEF EndsAgree, ClientLinks, PageType
<1>3. source[k] = s
  BY <1>2 DEF SomeStray, Stray
<1>4. owner[s] \in Runtimes /\ connection[owner[s]] = k
  BY <1>1, <1>2, <1>3, NoneIsNone DEF SourceLinks, PageType
<1>5. watching /\ owner[s] \in registered
  BY <1>1, <1>2, <1>4, NoneIsNone DEF ConnectionsFollowRegistry
<1> QED
  BY <1>1, <1>2, <1>3, <1>4, <1>5, NoneIsNone DEF Live, Watches

LEMMA SomeStrayEnds ==
  ASSUME NEW s \in Streams
  PROVE  Spec /\ Works => [](Calm /\ SomeStray(s) => <>[]Gone(s))
<1>1. ASSUME Spec, Works
      PROVE  \A k \in Connections : [](Calm /\ Stray(s, k) => <>[]Gone(s))
  <2>1. \A k \in Connections : Spec /\ AttemptWorks(s) /\ ConnectionWorks(k)
    BY <1>1 DEF Works
  <2> QED
    BY <2>1, StrayEnds
<1>2. (\A k \in Connections : [](Calm /\ Stray(s, k) => <>[]Gone(s)))
        => [](\A k \in Connections : Calm /\ Stray(s, k) => <>[]Gone(s))
  OBVIOUS
<1>3. (\A k \in Connections : Calm /\ Stray(s, k) => <>[]Gone(s))
        => (Calm /\ SomeStray(s) => <>[]Gone(s))
  BY DEF SomeStray
<1>4. [](\A k \in Connections : Calm /\ Stray(s, k) => <>[]Gone(s))
        => [](Calm /\ SomeStray(s) => <>[]Gone(s))
  BY <1>3, PTL
<1> QED
  BY <1>1, <1>2, <1>4

\* Once the application and the network leave the script alone, what the bridge has open in
\* the end is what the page means: the one event source of a registered runtime.  A runtime
\* that was unregistered, or whose manager was closed, does not stay connected by a stream
\* whose post was refused or is late (close, .finally(() => activeStream?.close()),
\* response.on("close")).
THEOREM StrayStreamsEnd ==
  ASSUME NEW s \in Streams
  PROVE  Spec /\ Works /\ <>Calm
           => <>[](stream[s] = "open"
                     => Live(owner[s]) = s /\ owner[s] \in registered /\ ~stopped)
<1>1. SafeInv => Meant(s) \/ SomeStray(s)
  BY MeantUnlessStray
<1>2. Gone(s) => Meant(s)
  BY DEF Gone, Meant
<1>3. IInv /\ BridgeInv /\ RestInv => SafeInv
  BY DEF SafeInv
<1>4. Spec /\ Works /\ <>Calm => <>[]Meant(s)
  BY <1>1, <1>2, <1>3, SomeStrayEnds, RestInvariant, PTL DEF Calm
<1> QED
  BY <1>4 DEF Meant

=============================================================================
