------------------------ MODULE PageConnection_proofs ------------------------
(***************************************************************************)
(* Proofs about PageConnection, for every value of its constants.          *)
(*                                                                         *)
(* The invariants of the page's side do not depend on the bridge: requests *)
(* reach it or not, in any order, and it may end any stream.  Links says   *)
(* how the manager's map, the connections and the event sources hang       *)
(* together; it is what makes NoStraySource inductive.                     *)
(***************************************************************************)
EXTENDS PageConnection, TLAPS

\* The types of the page's side.
PageType ==
  /\ registered \in SUBSET Runtimes
  /\ connection \in [Runtimes -> Connections \cup {None}]
  /\ runtimeOf \in [Connections -> Runtimes \cup {None}]
  /\ closed \in SUBSET Connections
  /\ source \in [Connections -> Streams \cup {None}]
  /\ retrying \in SUBSET Connections
  /\ closing \in [Connections -> Streams \cup {None}]
  /\ post \in [Connections -> {"none", "sent", "answered", "settled"}]
  /\ client \in [Streams -> {"unused", "connecting", "open", "closed"}]
  /\ attemptOf \in [Streams -> Connections \cup {None}]

\* A connection in the map is open for its runtime.
MapLinks ==
  \A r \in Runtimes : connection[r] # None =>
    /\ runtimeOf[connection[r]] = r /\ connection[r] \notin closed
    /\ post[connection[r]] = "none" /\ closing[connection[r]] = None

\* A connection with an event source or an armed timer is in the map.
SourceLinks ==
  /\ \A k \in Connections : source[k] # None =>
       /\ attemptOf[source[k]] = k /\ client[source[k]] \in {"connecting", "open"}
       /\ runtimeOf[k] # None /\ connection[runtimeOf[k]] = k
  /\ \A k \in retrying : source[k] = None /\ runtimeOf[k] # None /\ connection[runtimeOf[k]] = k

\* An event source to be closed waits for a post that has not settled.
ClosingLinks ==
  \A k \in Connections : closing[k] # None =>
    /\ attemptOf[closing[k]] = k
    /\ k \in closed /\ source[k] = None /\ post[k] \in {"sent", "answered"}

\* An attempt was made by a connection, and while it lasts that connection holds it.
ClientLinks ==
  \A s \in Streams :
    /\ IF client[s] = "unused" THEN attemptOf[s] = None
       ELSE attemptOf[s] # None /\ runtimeOf[attemptOf[s]] # None
    /\ client[s] \in {"connecting", "open"} =>
         s \in {source[attemptOf[s]], closing[attemptOf[s]]}

\* Nothing is known of a connection that was not created.
FreshLinks ==
  \A k \in Connections : runtimeOf[k] = None =>
    post[k] = "none" /\ k \notin closed /\ closing[k] = None

Links == MapLinks /\ SourceLinks /\ ClosingLinks /\ ClientLinks /\ FreshLinks

IInv == PageType /\ ConnectionsFollowRegistry /\ Links

pageVars == <<registered, watching, connection, runtimeOf, linkVars, client, attemptOf>>

LEMMA NoneIsNone == None \notin Runtimes /\ None \notin Connections /\ None \notin Streams
BY PageAssumption

LEMMA InitIInv == Init => IInv
BY NoneIsNone
   DEF Init, IInv, PageType, ConnectionsFollowRegistry, Links, MapLinks, SourceLinks,
       ClosingLinks, ClientLinks, FreshLinks

LEMMA Unchanged == IInv /\ UNCHANGED pageVars => IInv'
BY DEF pageVars, linkVars, IInv, PageType, ConnectionsFollowRegistry, Links, MapLinks,
       SourceLinks, ClosingLinks, ClientLinks, FreshLinks

-----------------------------------------------------------------------------
(* Opening and closing connections *)

\* What createConnection and open do, point by point.
LEMMA OpenEffect ==
  ASSUME IInv, NEW new \in SUBSET Runtimes, OpenAll(new)
  PROVE  \E id \in [new -> Connections], first \in [new -> Streams] :
    /\ \A r \in new : runtimeOf[id[r]] = None /\ client[first[r]] = "unused"
    /\ \A q, r \in new : (id[q] = id[r] => q = r) /\ (first[q] = first[r] => q = r)
    /\ \A r \in new : /\ connection'[r] = id[r] /\ runtimeOf'[id[r]] = r
                      /\ source'[id[r]] = first[r] /\ client'[first[r]] = "connecting"
                      /\ attemptOf'[first[r]] = id[r]
    /\ \A r \in Runtimes \ new : connection'[r] = connection[r]
    /\ \A k \in Connections : (\A r \in new : id[r] # k) =>
         runtimeOf'[k] = runtimeOf[k] /\ source'[k] = source[k]
    /\ \A s \in Streams : (\A r \in new : first[r] # s) =>
         client'[s] = client[s] /\ attemptOf'[s] = attemptOf[s]
    /\ UNCHANGED <<closed, retrying, closing, post, cut>>
    /\ connection' \in [Runtimes -> Connections \cup {None}]
    /\ runtimeOf' \in [Connections -> Runtimes \cup {None}]
    /\ source' \in [Connections -> Streams \cup {None}]
    /\ client' \in [Streams -> {"unused", "connecting", "open", "closed"}]
    /\ attemptOf' \in [Streams -> Connections \cup {None}]
<1>1. PICK id \in Pairings(new, Smallest(Connections \ Created, Cardinality(new))),
           first \in Pairings(new, Smallest(Unused, Cardinality(new))) : Open(new, id, first)
  BY DEF OpenAll
<1>2. /\ id \in [new -> Connections] /\ first \in [new -> Streams]
      /\ \A r \in new : runtimeOf[id[r]] = None /\ client[first[r]] = "unused"
      /\ \A q, r \in new : (id[q] = id[r] => q = r) /\ (first[q] = first[r] => q = r)
  BY DEF Pairings, Smallest, Created, Unused
<1>3. ASSUME NEW r \in new
      PROVE  /\ (CHOOSE q \in new : id[q] = id[r]) = r
             /\ (CHOOSE q \in new : first[q] = first[r]) = r
  BY <1>2
<1>4. \A r \in new : /\ connection'[r] = id[r] /\ runtimeOf'[id[r]] = r
                     /\ source'[id[r]] = first[r] /\ client'[first[r]] = "connecting"
                     /\ attemptOf'[first[r]] = id[r]
  BY <1>1, <1>2, <1>3 DEF Open
<1>5. /\ \A r \in Runtimes \ new : connection'[r] = connection[r]
      /\ \A k \in Connections : (\A r \in new : id[r] # k) =>
           runtimeOf'[k] = runtimeOf[k] /\ source'[k] = source[k]
      /\ \A s \in Streams : (\A r \in new : first[r] # s) =>
           client'[s] = client[s] /\ attemptOf'[s] = attemptOf[s]
      /\ UNCHANGED <<closed, retrying, closing, post, cut>>
  BY <1>1 DEF Open
<1>6. /\ DOMAIN connection' = Runtimes /\ DOMAIN runtimeOf' = Connections
      /\ DOMAIN source' = Connections /\ DOMAIN client' = Streams /\ DOMAIN attemptOf' = Streams
      /\ connection' = [r \in Runtimes |-> connection'[r]]
      /\ runtimeOf' = [k \in Connections |-> runtimeOf'[k]]
      /\ source' = [k \in Connections |-> source'[k]]
      /\ client' = [s \in Streams |-> client'[s]] /\ attemptOf' = [s \in Streams |-> attemptOf'[s]]
  BY <1>1 DEF Open
<1>7. /\ \A r \in Runtimes : connection'[r] \in Connections \cup {None}
      /\ \A k \in Connections : runtimeOf'[k] \in Runtimes \cup {None}
      /\ \A k \in Connections : source'[k] \in Streams \cup {None}
      /\ \A s \in Streams : client'[s] \in {"unused", "connecting", "open", "closed"}
      /\ \A s \in Streams : attemptOf'[s] \in Connections \cup {None}
  BY <1>2, <1>4, <1>5 DEF IInv, PageType
<1> QED
  BY <1>2, <1>4, <1>5, <1>6, <1>7

LEMMA OpenKeeps ==
  ASSUME IInv, NEW new \in SUBSET Runtimes, OpenAll(new), \A r \in new : connection[r] = None
  PROVE  /\ (PageType' \/ registered' \notin SUBSET Runtimes) /\ Links'
         /\ \A r \in Runtimes : connection'[r] # None <=> (r \in new \/ connection[r] # None)
<1>1. PICK id \in [new -> Connections], first \in [new -> Streams] :
    /\ \A r \in new : runtimeOf[id[r]] = None /\ client[first[r]] = "unused"
    /\ \A q, r \in new : (id[q] = id[r] => q = r) /\ (first[q] = first[r] => q = r)
    /\ \A r \in new : /\ connection'[r] = id[r] /\ runtimeOf'[id[r]] = r
                      /\ source'[id[r]] = first[r] /\ client'[first[r]] = "connecting"
                      /\ attemptOf'[first[r]] = id[r]
    /\ \A r \in Runtimes \ new : connection'[r] = connection[r]
    /\ \A k \in Connections : (\A r \in new : id[r] # k) =>
         runtimeOf'[k] = runtimeOf[k] /\ source'[k] = source[k]
    /\ \A s \in Streams : (\A r \in new : first[r] # s) =>
         client'[s] = client[s] /\ attemptOf'[s] = attemptOf[s]
    /\ UNCHANGED <<closed, retrying, closing, post, cut>>
    /\ connection' \in [Runtimes -> Connections \cup {None}]
    /\ runtimeOf' \in [Connections -> Runtimes \cup {None}]
    /\ source' \in [Connections -> Streams \cup {None}]
    /\ client' \in [Streams -> {"unused", "connecting", "open", "closed"}]
    /\ attemptOf' \in [Streams -> Connections \cup {None}]
  BY OpenEffect
<1> USE NoneIsNone
<1>2. PageType' \/ registered' \notin SUBSET Runtimes
  BY <1>1 DEF IInv, PageType
<1>3. \A r \in Runtimes : connection'[r] # None <=> (r \in new \/ connection[r] # None)
  BY <1>1
<1> USE DEF IInv, PageType, Links
<1>4. MapLinks'
  BY <1>1 DEF MapLinks, FreshLinks
<1>5. SourceLinks'
  BY <1>1 DEF SourceLinks
<1>6. ClosingLinks'
  BY <1>1 DEF ClosingLinks, FreshLinks, ClientLinks
<1>7. ClientLinks'
  BY <1>1 DEF ClientLinks, FreshLinks, SourceLinks
<1>8. FreshLinks'
  BY <1>1 DEF FreshLinks
<1> QED
  BY <1>2, <1>3, <1>4, <1>5, <1>6, <1>7, <1>8

LEMMA ShutKeeps ==
  ASSUME IInv, NEW old \in SUBSET Connections, Shut(old), UNCHANGED <<runtimeOf, wireVars>>,
         \A k \in old : runtimeOf[k] # None /\ connection[runtimeOf[k]] = k,
         connection' = [r \in Runtimes |-> IF connection[r] \in old THEN None ELSE connection[r]]
  PROVE  (PageType' \/ registered' \notin SUBSET Runtimes) /\ Links'
<1> USE NoneIsNone DEF IInv, PageType, Links, Shut, wireVars
<1>1. PageType' \/ registered' \notin SUBSET Runtimes
  OBVIOUS
<1>2. \A k \in old : closing[k] = None
  BY DEF MapLinks
<1>3. MapLinks'
  BY DEF MapLinks
<1>4. SourceLinks'
  BY DEF SourceLinks
<1>5. ClosingLinks'
  BY <1>2 DEF ClosingLinks, SourceLinks
<1>6. ClientLinks'
  BY <1>2 DEF ClientLinks
<1>7. FreshLinks'
  BY DEF FreshLinks
<1> QED
  BY <1>1, <1>3, <1>4, <1>5, <1>6, <1>7

-----------------------------------------------------------------------------
(* Every step keeps the invariant *)

LEMMA InstallStep == ASSUME IInv, NEW r \in Runtimes, Install(r) PROVE IInv'
<1>0. connection[r] = None /\ registered' = registered \cup {r} /\ watching' = watching
  BY DEF Install, IInv, ConnectionsFollowRegistry
<1>1. CASE watching
  <2>1. OpenAll({r})
    BY <1>0, <1>1 DEF Install
  <2>2. /\ (PageType' \/ registered' \notin SUBSET Runtimes) /\ Links'
        /\ \A q \in Runtimes : connection'[q] # None <=> (q \in {r} \/ connection[q] # None)
    BY <1>0, <2>1, OpenKeeps
  <2> QED
    BY <1>0, <1>1, <2>2 DEF IInv, PageType, ConnectionsFollowRegistry
<1>2. CASE ~watching
  <2>1. UNCHANGED <<connection, runtimeOf, linkVars, client, attemptOf>>
    BY <1>2 DEF Install, wireVars
  <2> QED
    BY <1>0, <1>2, <2>1
       DEF linkVars, IInv, PageType, ConnectionsFollowRegistry, Links, MapLinks, SourceLinks,
           ClosingLinks, ClientLinks, FreshLinks
<1> QED
  BY <1>1, <1>2

LEMMA UninstallStep == ASSUME IInv, NEW r \in Runtimes, Uninstall(r) PROVE IInv'
<1>0. /\ registered' = registered \ {r} /\ watching' = watching
      /\ UNCHANGED <<runtimeOf, wireVars>>
  BY DEF Uninstall
<1>1. CASE watching
  <2>1. connection[r] # None /\ connection[r] \in Connections
    BY <1>1 DEF Uninstall, IInv, PageType, ConnectionsFollowRegistry
  <2>2. Shut({connection[r]}) /\ connection' = [connection EXCEPT ![r] = None]
    BY <1>1, <2>1 DEF Uninstall
  <2>3. \A q \in Runtimes : connection[q] = connection[r] => q = r
    BY <2>1 DEF IInv, Links, MapLinks
  <2>4. connection' = [q \in Runtimes |-> IF connection[q] \in {connection[r]} THEN None ELSE connection[q]]
    BY <2>2, <2>3 DEF IInv, PageType
  <2>5. runtimeOf[connection[r]] = r
    BY <2>1 DEF IInv, Links, MapLinks
  <2>6. (PageType' \/ registered' \notin SUBSET Runtimes) /\ Links'
    BY <1>0, <2>1, <2>2, <2>4, <2>5, ShutKeeps, NoneIsNone
  <2> QED
    BY <1>0, <1>1, <2>2, <2>6 DEF IInv, PageType, ConnectionsFollowRegistry
<1>2. CASE ~watching
  <2>1. UNCHANGED <<connection, linkVars>>
    BY <1>2 DEF Uninstall
  <2> QED
    BY <1>0, <1>2, <2>1
       DEF linkVars, wireVars, IInv, PageType, ConnectionsFollowRegistry, Links, MapLinks,
           SourceLinks, ClosingLinks, ClientLinks, FreshLinks
<1> QED
  BY <1>1, <1>2

LEMMA WaitForRegistryStep == ASSUME IInv, WaitForRegistry PROVE IInv'
<1>0. /\ watching' = TRUE /\ registered' = registered /\ OpenAll(registered)
      /\ registered \in SUBSET Runtimes /\ \A r \in Runtimes : connection[r] = None
  BY DEF WaitForRegistry, registryVars, IInv, PageType, ConnectionsFollowRegistry
<1>1. /\ (PageType' \/ registered' \notin SUBSET Runtimes) /\ Links'
      /\ \A r \in Runtimes : connection'[r] # None <=> (r \in registered \/ connection[r] # None)
  BY <1>0, OpenKeeps
<1> QED
  BY <1>0, <1>1 DEF IInv, ConnectionsFollowRegistry

LEMMA CloseManagerStep == ASSUME IInv, CloseManager PROVE IInv'
<1>0. /\ watching' = FALSE /\ registered' = registered /\ Shut(Held(connection))
      /\ UNCHANGED <<runtimeOf, wireVars>>
      /\ connection' = [r \in Runtimes |-> None]
  BY DEF CloseManager, registryVars
<1>1. Held(connection) \in SUBSET Connections
  BY DEF Held, IInv, PageType
<1>2. connection' = [r \in Runtimes |-> IF connection[r] \in Held(connection) THEN None ELSE connection[r]]
  BY <1>0 DEF Held, IInv, PageType
<1>3. \A k \in Held(connection) : runtimeOf[k] # None /\ connection[runtimeOf[k]] = k
  BY NoneIsNone DEF Held, IInv, Links, MapLinks
<1>4. (PageType' \/ registered' \notin SUBSET Runtimes) /\ Links'
  BY <1>0, <1>1, <1>2, <1>3, ShutKeeps
<1> QED
  BY <1>0, <1>4 DEF IInv, PageType, ConnectionsFollowRegistry

LEMMA UnloadStep == ASSUME IInv, Unload PROVE IInv'
<1> USE NoneIsNone DEF Unload, IInv, PageType
<1>1. PageType' /\ ConnectionsFollowRegistry'
  BY DEF Created, ConnectionsFollowRegistry
<1>2. MapLinks' /\ SourceLinks' /\ ClosingLinks'
  BY DEF MapLinks, SourceLinks, ClosingLinks
<1>3. ClientLinks' /\ FreshLinks'
  BY DEF Links, ClientLinks, FreshLinks, Created
<1> QED
  BY <1>1, <1>2, <1>3 DEF Links

LEMMA ErrorEventStep == ASSUME IInv, NEW s \in Streams, ErrorEvent(s) PROVE IInv'
<1> DEFINE k == attemptOf[s]
<1>0. /\ k \in Connections /\ client[s] \in {"connecting", "open"}
      /\ s \in {source[k], closing[k]}
  BY DEF ErrorEvent, Fails, IInv, PageType, Links, ClientLinks
<1>1. /\ source' = [source EXCEPT ![k] = IF @ = s THEN None ELSE @]
      /\ retrying' = IF source[k] = s THEN retrying \cup {k} ELSE retrying
      /\ client' = [client EXCEPT ![s] = "closed"]
      /\ UNCHANGED <<registered, watching, connection, runtimeOf, closed, closing, post, attemptOf>>
  BY DEF ErrorEvent, Retry, registryVars, managerVars
<1>2. k = attemptOf[s]
  OBVIOUS
<1> HIDE DEF k
<1> USE <1>0, <1>1, <1>2, NoneIsNone DEF IInv, PageType, Links
<1>3. PageType' /\ ConnectionsFollowRegistry'
  BY DEF ConnectionsFollowRegistry
<1>4. MapLinks' /\ FreshLinks'
  BY DEF MapLinks, FreshLinks
<1>5. SourceLinks'
  BY DEF SourceLinks
<1>6. ClosingLinks'
  BY DEF ClosingLinks
<1>7. ClientLinks'
  BY DEF ClientLinks
<1> QED
  BY <1>3, <1>4, <1>5, <1>6, <1>7

LEMMA RetryTimerStep == ASSUME IInv, NEW k \in Connections, RetryTimer(k) PROVE IInv'
<1>0. k \in retrying /\ k \notin closed /\ source[k] = None /\ runtimeOf[k] # None
  BY NoneIsNone DEF RetryTimer, IInv, PageType, Links, SourceLinks, MapLinks
<1>1. PICK s \in Streams :
        /\ client[s] = "unused"
        /\ client' = [client EXCEPT ![s] = "connecting"]
        /\ attemptOf' = [attemptOf EXCEPT ![s] = k]
        /\ source' = [source EXCEPT ![k] = s]
  BY <1>0 DEF RetryTimer, Attempt, Unused
<1>2. /\ retrying' = retrying \ {k}
      /\ UNCHANGED <<registered, watching, connection, runtimeOf, closed, closing, post>>
  BY DEF RetryTimer, registryVars, managerVars
<1> USE <1>0, <1>1, <1>2, NoneIsNone DEF IInv, PageType, Links
<1>3. PageType' /\ ConnectionsFollowRegistry'
  BY DEF ConnectionsFollowRegistry
<1>4. MapLinks' /\ FreshLinks'
  BY DEF MapLinks, FreshLinks
<1>5. SourceLinks'
  BY DEF SourceLinks
<1>6. ClosingLinks'
  BY DEF ClosingLinks, ClientLinks
<1>7. ClientLinks'
  BY DEF ClientLinks
<1> QED
  BY <1>3, <1>4, <1>5, <1>6, <1>7

LEMMA BrowserReconnectsStep == ASSUME IInv, NEW k \in Connections, BrowserReconnects(k) PROVE IInv'
<1>0. k \in closed /\ closing[k] # None /\ client[closing[k]] = "closed"
  BY DEF BrowserReconnects, IInv, Links, ClosingLinks
<1>1. PICK s \in Streams :
        /\ client[s] = "unused"
        /\ client' = [client EXCEPT ![s] = "connecting"]
        /\ attemptOf' = [attemptOf EXCEPT ![s] = k]
        /\ closing' = [closing EXCEPT ![k] = s]
  BY DEF BrowserReconnects, Attempt, Unused
<1>2. UNCHANGED <<registered, watching, connection, runtimeOf, closed, source, retrying, post>>
  BY DEF BrowserReconnects, registryVars, managerVars
<1> USE <1>0, <1>1, <1>2, NoneIsNone DEF IInv, PageType, Links
<1>3. PageType' /\ ConnectionsFollowRegistry'
  BY DEF ConnectionsFollowRegistry
<1>4. MapLinks' /\ FreshLinks'
  BY DEF MapLinks, FreshLinks
<1>5. SourceLinks'
  BY DEF SourceLinks
<1>6. ClosingLinks'
  BY DEF ClosingLinks, ClientLinks
<1>7. ClientLinks'
  BY DEF ClientLinks, FreshLinks
<1> QED
  BY <1>3, <1>4, <1>5, <1>6, <1>7

LEMMA PostSettlesStep == ASSUME IInv, NEW k \in Connections, PostSettles(k) PROVE IInv'
<1>1. /\ post[k] \in {"sent", "answered"}
      /\ post' = [post EXCEPT ![k] = "settled"]
      /\ CloseActiveStream(k)
      /\ UNCHANGED <<registered, watching, connection, runtimeOf, closed, source, retrying, attemptOf>>
  BY DEF PostSettles, registryVars, managerVars
<1> USE <1>1, NoneIsNone DEF IInv, PageType, Links, CloseActiveStream
<1>3. PageType' /\ ConnectionsFollowRegistry'
  BY DEF ConnectionsFollowRegistry
<1>4. MapLinks' /\ FreshLinks'
  BY DEF MapLinks, FreshLinks
<1>5. SourceLinks'
  BY DEF SourceLinks, ClosingLinks
<1>6. ClosingLinks'
  BY DEF ClosingLinks
<1>7. ClientLinks'
  BY DEF ClientLinks, ClosingLinks
<1> QED
  BY <1>3, <1>4, <1>5, <1>6, <1>7

LEMMA DisconnectArrivesStep == ASSUME IInv, NEW k \in Connections, DisconnectArrives(k) PROVE IInv'
<1>1. /\ post[k] = "sent"
      /\ post' = [post EXCEPT ![k] = "answered"]
      /\ UNCHANGED <<registered, watching, connection, runtimeOf, closed, source, retrying, closing,
                     client, attemptOf>>
  BY DEF DisconnectArrives, registryVars, managerVars, wireVars
<1> USE <1>1 DEF IInv, PageType, Links
<1>2. PageType' /\ ConnectionsFollowRegistry'
  BY DEF ConnectionsFollowRegistry
<1>3. MapLinks' /\ SourceLinks' /\ ClosingLinks' /\ ClientLinks' /\ FreshLinks'
  BY DEF MapLinks, SourceLinks, ClosingLinks, ClientLinks, FreshLinks
<1> QED
  BY <1>2, <1>3

LEMMA ConnectedEventStep == ASSUME IInv, NEW s \in Streams, ConnectedEvent(s) PROVE IInv'
<1>1. /\ client[s] = "connecting" /\ client' = [client EXCEPT ![s] = "open"]
      /\ UNCHANGED <<registered, watching, connection, runtimeOf, linkVars, attemptOf>>
  BY DEF ConnectedEvent, registryVars, managerVars
<1> USE <1>1 DEF IInv, PageType, Links, linkVars
<1>2. PageType' /\ ConnectionsFollowRegistry'
  BY DEF ConnectionsFollowRegistry
<1>3. MapLinks' /\ SourceLinks' /\ ClosingLinks' /\ ClientLinks' /\ FreshLinks'
  BY DEF MapLinks, SourceLinks, ClosingLinks, ClientLinks, FreshLinks
<1> QED
  BY <1>2, <1>3

LEMMA IInvStep == IInv /\ [Next]_vars => IInv'
<1> SUFFICES ASSUME IInv, [Next]_vars PROVE IInv'
  OBVIOUS
<1>1. CASE Application
  BY <1>1, InstallStep, UninstallStep, CloseManagerStep, UnloadStep DEF Application
<1>2. CASE Script
  BY <1>2, WaitForRegistryStep, ConnectedEventStep, ErrorEventStep, RetryTimerStep, PostSettlesStep
     DEF Script
<1>3. CASE Environment
  <2>1. ASSUME NEW s \in Streams, ConnectArrives(s) \/ StreamCloses(s) \/ CutStream(s)
        PROVE  UNCHANGED pageVars
    BY <2>1 DEF ConnectArrives, StreamCloses, CutStream, pageVars, registryVars, managerVars,
                linkVars, wireVars
  <2>2. ASSUME RestartBridge PROVE UNCHANGED pageVars
    BY <2>2 DEF RestartBridge, pageVars, registryVars, managerVars, wireVars
  <2> QED
    BY <1>3, <2>1, <2>2, Unchanged, DisconnectArrivesStep, BrowserReconnectsStep DEF Environment
<1>4. CASE UNCHANGED vars
  <2>1. UNCHANGED pageVars
    BY <1>4 DEF vars, pageVars, linkVars
  <2> QED
    BY <2>1, Unchanged
<1> QED
  BY <1>1, <1>2, <1>3, <1>4 DEF Next

LEMMA IInvInvariant == Spec => []IInv
BY InitIInv, IInvStep, PTL DEF Spec

-----------------------------------------------------------------------------
(* What follows *)

\* The manager has a connection for exactly the registered runtimes while it watches the
\* registry and none otherwise, however installs, uninstalls, the script's start and
\* navigation interleave (manager.register, unregister, close, waitForRegistry).
THEOREM ConnectionsMatchRegistry == Spec => []ConnectionsFollowRegistry
<1>1. IInv => ConnectionsFollowRegistry
  BY DEF IInv
<1> QED
  BY <1>1, IInvInvariant, PTL

\* An event source the page still holds belongs to a connection in the map, or waits for a
\* /disconnect that has not settled: none is left behind, whatever fails and reconnects while
\* the post is underway (createConnection: open, onerror, close).
THEOREM SourcesAreAccountedFor == Spec => []NoStraySource
<1>1. IInv => NoStraySource
  <2> SUFFICES ASSUME IInv, NEW s \in Streams, client[s] \in {"connecting", "open"}
               PROVE  LET k == attemptOf[s] IN
                        \/ source[k] = s /\ connection[runtimeOf[k]] = k /\ closing[k] = None
                        \/ closing[k] = s /\ k \in closed /\ source[k] = None /\ post[k] \in {"sent", "answered"}
    BY DEF NoStraySource
  <2>1. attemptOf[s] \in Connections /\ s \in {source[attemptOf[s]], closing[attemptOf[s]]}
    BY DEF IInv, PageType, Links, ClientLinks
  <2>2. CASE source[attemptOf[s]] = s
    BY <2>1, <2>2, NoneIsNone DEF IInv, Links, SourceLinks, ClosingLinks
  <2>3. CASE closing[attemptOf[s]] = s
    BY <2>1, <2>3, NoneIsNone DEF IInv, Links, ClosingLinks
  <2> QED
    BY <2>1, <2>2, <2>3
<1> QED
  BY <1>1, IInvInvariant, PTL

LEMMA DefaultStep == DefaultIsRegistered /\ [Next]_vars => DefaultIsRegistered'
<1> SUFFICES ASSUME DefaultIsRegistered, [Next]_vars PROVE DefaultIsRegistered'
  OBVIOUS
<1>1. ASSUME NEW r \in Runtimes, Install(r) PROVE DefaultIsRegistered'
  BY <1>1, NoneIsNone DEF Install, DefaultIsRegistered
<1>2. ASSUME NEW r \in Runtimes, Uninstall(r) PROVE DefaultIsRegistered'
  BY <1>2 DEF Uninstall, NextDefault, DefaultIsRegistered
<1>3. CASE Unload
  BY <1>3 DEF Unload, DefaultIsRegistered
<1>4. CASE CloseManager \/ Script \/ Environment \/ UNCHANGED vars
  <2>1. UNCHANGED <<registered, default>>
    BY <1>4 DEF CloseManager, Script, WaitForRegistry, ConnectedEvent, ErrorEvent, RetryTimer,
                PostSettles, Environment, ConnectArrives, StreamCloses, CutStream,
                DisconnectArrives, BrowserReconnects, RestartBridge, vars, registryVars
  <2> QED
    BY <2>1 DEF DefaultIsRegistered
<1> QED
  BY <1>1, <1>2, <1>3, <1>4 DEF Next, Application

\* globalThis.__DIVEBELL__ is a registered runtime as long as there is one, whichever order the
\* runtimes come and go in (uninstallDivebellFromWindow hands it on).
THEOREM DefaultStaysRegistered == Spec => []DefaultIsRegistered
<1>1. Init => DefaultIsRegistered
  BY DEF Init, DefaultIsRegistered
<1> QED
  BY <1>1, DefaultStep, PTL DEF Spec

-----------------------------------------------------------------------------
(* Types, and the bridge's side *)

\* The types that PageType leaves.
RestType ==
  /\ default \in Runtimes \cup {None}
  /\ {hasRegistry, watching, stopped} \subseteq BOOLEAN
  /\ cut \in SUBSET Streams
  /\ usurped \in SUBSET Runtimes
  /\ installs \in 0..MaxInstalls
  /\ loads \in 1..MaxLoads
  /\ faults \in 0..MaxFaults

\* The stream by which the bridge has a runtime connected is open, and was made by the
\* connection whose id the bridge has recorded.
BridgeLinks ==
  /\ \A r \in Runtimes : current[r] # None =>
       /\ stream[current[r]] = "open" /\ owner[current[r]] = r
       /\ client[current[r]] # "unused" /\ attemptOf[current[r]] = connectionId[r]
  /\ \A s \in Streams : stream[s] # "unused" => owner[s] # None

LEMMA RestInit == Init => RestType
<1> SUFFICES ASSUME Init PROVE RestType
  OBVIOUS
<1>1. {hasRegistry, watching, stopped} \subseteq BOOLEAN
  BY Zenon DEF Init
<1>2. /\ default = None /\ cut = {} /\ usurped = {}
      /\ installs = 0 /\ loads = 1 /\ faults = 0
  BY DEF Init
<1>3. 0 \in 0..MaxInstalls /\ 0 \in 0..MaxFaults /\ 1 \in 1..MaxLoads
  BY PageAssumption
<1> QED
  BY <1>1, <1>2, <1>3, Zenon DEF RestType

LEMMA RestStep ==
  ASSUME IInv, RestType, [Next]_vars
  PROVE  RestType'
<1> USE DEF RestType, registryVars, managerVars, boundVars, Fault, NoFault
<1>0. /\ MaxInstalls \in Nat /\ MaxFaults \in Nat /\ MaxLoads \in Nat
      /\ registered \in SUBSET Runtimes
  BY PageAssumption DEF IInv, PageType
<1>1. ASSUME NEW r \in Runtimes, Install(r) \/ Uninstall(r) PROVE RestType'
  <2>1. CASE Install(r)
    <3>1. cut' = cut
      BY <2>1 DEF Install, wireVars, OpenAll, Open
    <3>2. default' \in Runtimes \cup {None} /\ {hasRegistry', watching', stopped'} \subseteq BOOLEAN
      BY <2>1 DEF Install
    <3> QED
      BY <1>0, <2>1, <3>1, <3>2 DEF Install
  <2>2. CASE Uninstall(r)
    BY <1>0, <2>2 DEF Uninstall, NextDefault, wireVars
  <2> QED
    BY <1>1, <2>1, <2>2
<1>2. CASE WaitForRegistry \/ CloseManager
  BY <1>2 DEF WaitForRegistry, CloseManager, wireVars, OpenAll, Open
<1>3. CASE Unload
  <2>1. faults' \in 0..MaxFaults
    <3>1. faults' = faults \/ (faults < MaxFaults /\ faults' = faults + 1)
      BY <1>3, Zenon DEF Unload
    <3> QED
      BY <1>0, <3>1
  <2>2. loads' \in 1..MaxLoads /\ UNCHANGED <<cut, usurped, installs>> /\ default' = None
    BY <1>0, <1>3 DEF Unload
  <2>3. {hasRegistry', watching', stopped'} \subseteq BOOLEAN
    BY <1>3, Zenon DEF Unload
  <2> QED
    BY <2>1, <2>2, <2>3
<1>4. ASSUME NEW s \in Streams, ConnectedEvent(s) \/ ErrorEvent(s) \/ StreamCloses(s) \/ CutStream(s)
      PROVE  RestType'
  BY <1>0, <1>4 DEF ConnectedEvent, ErrorEvent, StreamCloses, CutStream, wireVars
<1>5. ASSUME NEW s \in Streams, ConnectArrives(s) PROVE RestType'
  <2>1. runtimeOf[attemptOf[s]] \in Runtimes
    BY <1>5, NoneIsNone DEF ConnectArrives, IInv, PageType, Links, ClientLinks
  <2> QED
    BY <1>5, <2>1 DEF ConnectArrives, wireVars
<1>6. ASSUME NEW k \in Connections,
             RetryTimer(k) \/ PostSettles(k) \/ DisconnectArrives(k) \/ BrowserReconnects(k)
      PROVE  RestType'
  BY <1>0, <1>6 DEF RetryTimer, PostSettles, DisconnectArrives, BrowserReconnects, wireVars
<1>7. CASE RestartBridge
  BY <1>0, <1>7 DEF RestartBridge, wireVars
<1>8. CASE UNCHANGED vars
  BY <1>8 DEF vars
<1> QED
  BY <1>1, <1>2, <1>3, <1>4, <1>5, <1>6, <1>7, <1>8 DEF Next, Application, Script, Environment

BridgeInv == B!TypeOK /\ BridgeLinks

LEMMA BridgeInit == Init => BridgeInv
BY NoneIsNone DEF Init, BridgeInv, BridgeLinks, B!Init, B!TypeOK, B!Phases, B!Nothing, B!NoResponse, B!Snapshots

\* A step that leaves the bridge alone: attempts are only added.
LEMMA BridgeAlone ==
  ASSUME BridgeInv, UNCHANGED bridgeVars,
         \A s \in Streams : client[s] # "unused" => client'[s] # "unused" /\ attemptOf'[s] = attemptOf[s]
  PROVE  BridgeInv'
<1>1. B!TypeOK'
  BY DEF BridgeInv, B!TypeOK, bridgeVars, idleVars
<1>2. BridgeLinks'
  BY DEF BridgeInv, BridgeLinks, B!TypeOK, bridgeVars
<1> QED
  BY <1>1, <1>2 DEF BridgeInv

\* Attempts are only added.
LEMMA AttemptsGrow ==
  ASSUME IInv, [Next]_vars, NEW s \in Streams, client[s] # "unused"
  PROVE  client'[s] # "unused" /\ attemptOf'[s] = attemptOf[s]
<1> USE DEF registryVars, managerVars, wireVars, linkVars
<1>0. PageType
  BY DEF IInv
<1>1. ASSUME NEW new \in SUBSET Runtimes, OpenAll(new)
      PROVE  client'[s] # "unused" /\ attemptOf'[s] = attemptOf[s]
  BY <1>1, OpenEffect
<1>2. CASE Application \/ WaitForRegistry
  <2>1. CASE \E r \in Runtimes : Install(r)
    BY <1>1, <2>1 DEF Install
  <2>2. CASE WaitForRegistry
    BY <1>0, <1>1, <2>2 DEF WaitForRegistry, PageType
  <2>3. CASE CloseManager \/ Unload \/ \E r \in Runtimes : Uninstall(r)
    BY <1>0, <2>3 DEF CloseManager, Unload, Uninstall, PageType
  <2> QED
    BY <1>2, <2>1, <2>2, <2>3 DEF Application
<1>3. ASSUME NEW x \in Streams, ConnectedEvent(x) \/ ErrorEvent(x)
      PROVE  client'[s] # "unused" /\ attemptOf'[s] = attemptOf[s]
  BY <1>0, <1>3 DEF ConnectedEvent, ErrorEvent, PageType
<1>4. ASSUME NEW k \in Connections, RetryTimer(k) \/ BrowserReconnects(k)
      PROVE  client'[s] # "unused" /\ attemptOf'[s] = attemptOf[s]
  BY <1>0, <1>4 DEF RetryTimer, BrowserReconnects, Attempt, Unused, PageType
<1>5. ASSUME NEW k \in Connections, PostSettles(k)
      PROVE  client'[s] # "unused" /\ attemptOf'[s] = attemptOf[s]
  BY <1>0, <1>5 DEF PostSettles, CloseActiveStream, PageType
<1>6. CASE \/ \E x \in Streams : ConnectArrives(x) \/ StreamCloses(x) \/ CutStream(x)
           \/ \E k \in Connections : DisconnectArrives(k)
           \/ RestartBridge \/ UNCHANGED vars
  BY <1>6 DEF ConnectArrives, StreamCloses, CutStream, DisconnectArrives, RestartBridge, vars
<1> QED
  BY <1>2, <1>3, <1>4, <1>5, <1>6 DEF Next, Application, Script, Environment

\* Few steps reach the bridge.
LEMMA BridgeTouched ==
  ASSUME [Next]_vars
  PROVE  \/ UNCHANGED bridgeVars \/ RestartBridge
         \/ \E s \in Streams : ConnectArrives(s) \/ StreamCloses(s)
         \/ \E k \in Connections : DisconnectArrives(k)
<1>1. CASE Application
  BY <1>1 DEF Application, Install, Uninstall, CloseManager, Unload
<1>2. CASE Script
  BY <1>2 DEF Script, WaitForRegistry, ConnectedEvent, ErrorEvent, RetryTimer, PostSettles
<1>3. CASE Environment
  BY <1>3 DEF Environment, CutStream, BrowserReconnects
<1>4. CASE UNCHANGED vars
  BY <1>4 DEF vars, bridgeVars, idleVars
<1> QED
  BY <1>1, <1>2, <1>3, <1>4 DEF Next

LEMMA BridgeStep ==
  ASSUME IInv, BridgeInv, [Next]_vars
  PROVE  BridgeInv'
<1>1. CASE UNCHANGED bridgeVars
  BY <1>1, AttemptsGrow, BridgeAlone
<1>2. ASSUME NEW s \in Streams, ConnectArrives(s) PROVE BridgeInv'
  <2> DEFINE k == attemptOf[s]
             r == runtimeOf[k]
  <2>1. k \in Connections /\ r \in Runtimes /\ client[s] # "unused"
    BY <1>2, NoneIsNone DEF ConnectArrives, IInv, PageType, Links, ClientLinks
  <2>2. /\ stream[s] = "unused"
        /\ stream' = [stream EXCEPT ![s] = "open"]
        /\ owner' = [owner EXCEPT ![s] = r]
        /\ presented' = [presented EXCEPT ![s] = k]
        /\ status' = [status EXCEPT ![r] = "connected"]
        /\ current' = [current EXCEPT ![r] = s]
        /\ connectionId' = [connectionId EXCEPT ![r] = IF k = None THEN @ ELSE k]
        /\ UNCHANGED <<idleVars, client, attemptOf>>
    BY <1>2 DEF ConnectArrives, B!Connect, B!RecordConnection, B!cacheVars, B!wireVars, idleVars, wireVars
  <2>3. attemptOf[s] = k
    OBVIOUS
  <2> HIDE DEF k, r
  <2>4. B!TypeOK'
    BY <2>1, <2>2 DEF BridgeInv, B!TypeOK, idleVars
  <2>5. BridgeLinks'
    BY <2>1, <2>2, <2>3, NoneIsNone DEF BridgeInv, BridgeLinks, B!TypeOK
  <2> QED
    BY <2>4, <2>5 DEF BridgeInv
<1>3. ASSUME NEW r \in Runtimes, B!Disconnect(r),
             UNCHANGED <<owner, presented, listening, snapshot, serverSnapshot, knownTargets, page,
                         exchange, response, client, attemptOf>>,
             NEW s \in Streams, NEW end \in {"ended", "closed"}, stream[s] # "unused",
             stream' = [stream EXCEPT ![s] = end], current[r] = s
      PROVE  BridgeInv'
  <2>1. B!TypeOK'
    BY <1>3 DEF BridgeInv, B!TypeOK, B!Disconnect, B!Phases, B!Outcomes
  <2>2. BridgeLinks'
    BY <1>3, NoneIsNone DEF BridgeInv, BridgeLinks, B!TypeOK, B!Disconnect
  <2> QED
    BY <2>1, <2>2 DEF BridgeInv
<1>4. ASSUME NEW s \in Streams, StreamCloses(s) PROVE BridgeInv'
  <2>1. /\ stream[s] \in {"open", "ended"}
        /\ stream' = [stream EXCEPT ![s] = "closed"]
        /\ UNCHANGED <<owner, presented, listening, snapshot, serverSnapshot, knownTargets, page,
                       exchange, response, client, attemptOf>>
    BY <1>4 DEF StreamCloses, B!StreamClosed, B!cacheVars, B!wireVars, wireVars
  <2>2. owner[s] \in Runtimes
    BY <2>1 DEF BridgeInv, BridgeLinks, B!TypeOK
  <2>3. CASE current[owner[s]] = s
    <3>1. B!Disconnect(owner[s])
      BY <1>4, <2>3 DEF StreamCloses, B!StreamClosed, B!IsCurrent
    <3> QED
      BY <1>3, <2>1, <2>2, <2>3, <3>1
  <2>4. CASE current[owner[s]] # s
    <3>1. UNCHANGED <<status, current, connectionId, pending, phase>>
      BY <1>4, <2>4 DEF StreamCloses, B!StreamClosed, B!IsCurrent, B!recordVars
    <3>2. B!TypeOK'
      BY <2>1, <3>1 DEF BridgeInv, B!TypeOK
    <3>3. BridgeLinks'
      BY <2>1, <2>4, <3>1 DEF BridgeInv, BridgeLinks, B!TypeOK
    <3> QED
      BY <3>2, <3>3 DEF BridgeInv
  <2> QED
    BY <2>3, <2>4
<1>5. ASSUME NEW k \in Connections, DisconnectArrives(k) PROVE BridgeInv'
  <2>1. CASE ~B!ConnectionMatches(runtimeOf[k], k)
    BY <1>1, <1>5, <2>1 DEF DisconnectArrives
  <2>2. CASE B!ConnectionMatches(runtimeOf[k], k)
    <3>1. runtimeOf[k] \in Runtimes
      BY <1>5 DEF DisconnectArrives, IInv, PageType, Links, FreshLinks
    <3>2. B!DisconnectConnection(runtimeOf[k], k) /\ UNCHANGED <<client, attemptOf>>
      BY <1>5, <2>2 DEF DisconnectArrives, wireVars
    <3>3. /\ current[runtimeOf[k]] \in Streams
          /\ stream[current[runtimeOf[k]]] # "unused"
      BY <2>2, <3>1 DEF B!ConnectionMatches, BridgeInv, BridgeLinks, B!TypeOK
    <3> QED
      BY <1>3, <3>1, <3>2, <3>3 DEF B!DisconnectConnection, B!cacheVars, B!wireVars
  <2> QED
    BY <2>1, <2>2
<1>6. CASE RestartBridge
  <2>1. B!TypeOK'
    BY <1>6 DEF RestartBridge, BridgeInv, B!TypeOK, idleVars
  <2>2. BridgeLinks'
    BY <1>6 DEF RestartBridge, BridgeInv, BridgeLinks, B!TypeOK
  <2> QED
    BY <2>1, <2>2 DEF BridgeInv
<1> QED
  BY <1>1, <1>2, <1>4, <1>5, <1>6, BridgeTouched

LEMMA Invariant == Spec => [](IInv /\ RestType /\ BridgeInv)
BY InitIInv, IInvStep, RestInit, RestStep, BridgeInit, BridgeStep, PTL DEF Spec

\* Every variable of the page and of the bridge keeps its type.
THEOREM TypeCorrect == Spec => []TypeOK
<1>1. IInv /\ RestType /\ BridgeInv => TypeOK
  BY Zenon DEF IInv, PageType, RestType, BridgeInv, TypeOK
<1> QED
  BY <1>1, Invariant, PTL

LEMMA HealthyStep ==
  ASSUME IInv, BridgeInv, [Next]_vars, NEW r \in Runtimes, faults \in Nat,
         current[r] # None, current'[r] = None,
         client[current[r]] # "closed", current[r] \notin cut, faults' = faults
  PROVE  post'[attemptOf[current[r]]] # post[attemptOf[current[r]]]
<1>0. /\ current[r] \in Streams /\ stream[current[r]] = "open" /\ owner[current[r]] = r
      /\ attemptOf[current[r]] = connectionId[r]
  BY DEF BridgeInv, BridgeLinks, B!TypeOK
<1>1. ~UNCHANGED bridgeVars
  BY DEF bridgeVars
<1>2. ~RestartBridge
  BY DEF RestartBridge, Fault
<1>3. ASSUME NEW s \in Streams, ConnectArrives(s) PROVE FALSE
  BY <1>0, <1>3, NoneIsNone DEF ConnectArrives, B!Connect, B!RecordConnection, BridgeInv, B!TypeOK
<1>4. ASSUME NEW s \in Streams, StreamCloses(s) PROVE FALSE
  <2>1. current[owner[s]] = s /\ B!Disconnect(owner[s])
    BY <1>4 DEF StreamCloses, B!StreamClosed, B!IsCurrent, B!recordVars
  <2>2. owner[s] = r
    BY <1>0, <2>1 DEF B!Disconnect, BridgeInv, B!TypeOK
  <2> QED
    BY <1>0, <1>4, <2>1, <2>2 DEF StreamCloses
<1>5. ASSUME NEW k \in Connections, DisconnectArrives(k)
      PROVE  post'[attemptOf[current[r]]] # post[attemptOf[current[r]]]
  <2>1. B!ConnectionMatches(runtimeOf[k], k) /\ B!DisconnectConnection(runtimeOf[k], k)
    BY <1>1, <1>5 DEF DisconnectArrives
  <2>2. runtimeOf[k] = r
    BY <2>1 DEF B!DisconnectConnection, B!Disconnect, BridgeInv, B!TypeOK
  <2>3. attemptOf[current[r]] = k
    BY <1>0, <2>1, <2>2 DEF B!ConnectionMatches
  <2> QED
    BY <1>5, <2>3 DEF DisconnectArrives, IInv, PageType
<1> QED
  BY <1>1, <1>2, <1>3, <1>4, <1>5, BridgeTouched

\* A healthy stream loses its runtime only to a newer attempt, a restart or the /disconnect of
\* its own connection: a late post of an earlier connection never ends it (disconnectConnection
\* compares connection ids, the close handler compares streams).
THEOREM HealthyStreamsAreKept == Spec => HealthyStreamKept
<1>1. IInv /\ RestType /\ BridgeInv /\ [Next]_vars =>
        [\A r \in Runtimes :
           /\ current[r] # None /\ current'[r] = None
           /\ client[current[r]] # "closed" /\ current[r] \notin cut
           /\ faults' = faults
           => post'[attemptOf[current[r]]] # post[attemptOf[current[r]]]]_vars
  BY HealthyStep DEF RestType
<1> QED
  BY <1>1, Invariant, PTL DEF Spec, HealthyStreamKept
=============================================================================
