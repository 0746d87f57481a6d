-------------------------- MODULE SseSubscription --------------------------
(***************************************************************************)
(* The stream of cache invalidation events (core/sse): the service's store *)
(* of recent events, its shared observable, its client table, and the      *)
(* connections the controller opens, keeps alive and closes.               *)
(*                                                                         *)
(* publishCacheInvalidation and everything it triggers is synchronous, so  *)
(* publishing is one step, and so is a connection attempt.  Events are     *)
(* numbered in the order in which they are published; the number stands    *)
(* for the event's id.  One tick is the controller's heartbeat interval,   *)
(* which is also the interval of the timeout check.                        *)
(*                                                                         *)
(* A browser keeps the id it received last and presents it when it         *)
(* connects again.  Its peer may vanish without the server being told: the *)
(* connection then stays open at the server until its close event fires.   *)
(***************************************************************************)
EXTENDS Integers, Sequences, FiniteSets

CONSTANTS
    Browsers,    \* subscribers, each with at most one connection of its own
    Connections, \* slots for the connections open at the server
    Topics,      \* what a subscription may filter on (chain, chainId, address)
    StoreLimit,  \* MAX_STORED_EVENTS
    Timeout,     \* CLIENT_TIMEOUT, in ticks
    Stall,       \* longest delay of a timer beyond its interval, in ticks
    MaxEvents,   \* bound: events published
    Everything,  \* the subscription without a filter
    None,        \* no id, no browser, nothing buffered
    Foreign      \* an id the service never gave (written into a keepalive)

ASSUME SseAssumption ==
    /\ IsFiniteSet(Connections)
    /\ StoreLimit \in Nat \ {0}
    /\ Timeout \in Nat \ {0}
    /\ Stall \in Nat
    /\ MaxEvents \in Nat
    /\ Everything \notin Topics
    /\ None \notin Nat \cup Browsers \cup Connections
    /\ Foreign \notin Nat
    /\ None # Foreign

VARIABLES
    topics,            \* topics[e]: what event e, the e-th published, is about
    recentEvents,      \* the stored events, oldest first
    last,              \* what shareReplay holds for the next subscriber
    activeConnections, \* the counter behind GET /sse/stats
    conn,              \* conn[k]: the connection in slot k
    browser,           \* browser[b]: what the subscriber b has and wants
    epoch              \* history: the last event before the last restart

vars == <<topics, recentEvents, last, activeConnections, conn, browser, epoch>>

\* due: since the connection's last heartbeat; idle: since lastActive.
Closed ==
    [open |-> FALSE, client |-> FALSE, browser |-> None, due |-> 0, idle |-> 0]

Init ==
    /\ topics = <<>>
    /\ recentEvents = <<>>
    /\ last = None
    /\ activeConnections = 0
    /\ conn = [k \in Connections |-> Closed]
    /\ browser \in [Browsers ->
          {[using |-> None, cursor |-> None, got |-> {}, joined |-> 0,
            filter |-> f] : f \in Topics \cup {Everything}}]
    /\ epoch = 0

published == Len(topics)

\* The connections that are in the client table and whose stream is running.
Clients == {k \in Connections : conn[k].client}

\* The browser's end of the connection is still there.
Attended(k) == conn[k].open /\ browser[conn[k].browser].using = k

Matches(b, e) == browser[b].filter \in {Everything, topics[e]}

-----------------------------------------------------------------------------
(* Storing and replaying.                                                  *)

StoreUncapped(s, e) == Append(s, e)   \* slip: the shift is forgotten

StoreEvent(s, e) ==
    LET t == Append(s, e) IN IF Len(t) > StoreLimit THEN Tail(t) ELSE t

Positions(id) == {i \in DOMAIN recentEvents : recentEvents[i] = id}

\* Slip: an id that is no longer stored replays nothing.
SinceKnownOnly(id) ==
    IF Positions(id) = {} THEN <<>>
    ELSE LET first == CHOOSE i \in Positions(id) : \A j \in Positions(id) : i <= j
         IN  SubSeq(recentEvents, first + 1, Len(recentEvents))

\* Everything behind the first stored event with this id; everything there is
\* when no stored event has it.
GetEventsSince(id) ==
    IF Positions(id) = {} THEN recentEvents
    ELSE LET first == CHOOSE i \in Positions(id) : \A j \in Positions(id) : i <= j
         IN  SubSeq(recentEvents, first + 1, Len(recentEvents))

\* The elements of s at the positions in I, in order.
Filter(s, I) ==
    LET kept[i \in 0 .. Len(s)] ==
          IF i = 0 THEN <<>>
          ELSE IF i \in I THEN Append(kept[i - 1], s[i])
          ELSE kept[i - 1]
    IN  kept[Len(s)]

\* Slip: a replay passes on events that the subscription does not match.
ReplayUnfiltered(b) ==
    IF browser[b].cursor = None THEN <<>> ELSE GetEventsSince(browser[b].cursor)

Replay(b) ==
    IF browser[b].cursor = None THEN <<>>
    ELSE LET missed == GetEventsSince(browser[b].cursor)
         IN  Filter(missed, {i \in DOMAIN missed : Matches(b, missed[i])})

Buffered(b) == IF last # None /\ Matches(b, last) THEN <<last>> ELSE <<>>

BufferedFirst(b) == Buffered(b) \o Replay(b)   \* slip: merge the other way round

\* What a new stream emits at once: merge(replay$, cacheEvents$).
Opening(b) == Replay(b) \o Buffered(b)

Elements(s) == {s[i] : i \in DOMAIN s}

\* The browser takes in the events of s, in order.
Receive(x, s) ==
    IF s = <<>> THEN x
    ELSE [x EXCEPT !.cursor = s[Len(s)], !.got = x.got \cup Elements(s)]

\* refCount: the shared observable forgets what it holds with its last subscriber.
Remaining(clients) == IF clients = {} THEN None ELSE last

-----------------------------------------------------------------------------
(* The service and the controller.                                         *)

\* subscribeToEvents: the client is registered under a fresh id and counted,
\* and its stream opens with the replay.
SubscribeToEvents(b, k) ==
    LET x == browser[b] IN
    /\ x.using = None
    /\ ~conn[k].open
    /\ conn' = [conn EXCEPT ![k] =
          [Closed EXCEPT !.open = TRUE, !.client = TRUE, !.browser = b]]
    /\ activeConnections' = activeConnections + 1
    /\ browser' = [browser EXCEPT ![b] =
          Receive([x EXCEPT !.using = k,
                            !.joined = IF x.cursor = None THEN published ELSE @],
                  Opening(b))]
    /\ UNCHANGED <<topics, recentEvents, last, epoch>>

\* publishCacheInvalidation stores the event, and handleCacheInvalidation,
\* which its emit reaches first, stores it again.
StoreTwice(e) == recentEvents' = StoreEvent(StoreEvent(recentEvents, e), e)

\* handleAddressCacheInvalidated: the event is stored and emitted, and every
\* running stream whose subscription it matches passes it on.
PublishCacheInvalidation(topic) ==
    LET e == published + 1 IN
    /\ published < MaxEvents
    /\ topics' = Append(topics, topic)
    /\ StoreTwice(e)
    /\ last' = IF Clients = {} THEN None ELSE e
    /\ browser' = [b \in Browsers |->
          IF /\ browser[b].using \in Clients
             /\ browser[b].filter \in {Everything, topic}
          THEN Receive(browser[b], <<e>>) ELSE browser[b]]
    /\ UNCHANGED <<activeConnections, conn, epoch>>

\* Slip: the keepalive is sent without updateClientActivity.
HeartbeatOnly(k) ==
    /\ conn[k].open
    /\ conn' = [conn EXCEPT ![k].due = 0]
    /\ UNCHANGED <<topics, recentEvents, last, activeConnections, browser, epoch>>

\* The controller's heartbeat: updateClientActivity, then a keepalive, which
\* carries no id of the service's; the framework may number it.
Heartbeat(k) ==
    /\ conn[k].open
    /\ conn' = [conn EXCEPT ![k] =
          [conn[k] EXCEPT !.due = 0, !.idle = IF conn[k].client THEN 0 ELSE @]]
    /\ \/ UNCHANGED browser
       \/ /\ Attended(k)
          /\ browser' = [browser EXCEPT ![conn[k].browser].cursor = Foreign]
    /\ UNCHANGED <<topics, recentEvents, last, activeConnections, epoch>>

TimedOut == {k \in Clients : conn[k].idle > Timeout}

\* checkClientTimeouts ends the streams of the timed-out clients.  The
\* connection's heartbeat does not end with them, so it stays open.
CheckClientTimeouts ==
    /\ TimedOut # {}
    /\ conn' = [k \in Connections |->
          IF k \in TimedOut THEN [conn[k] EXCEPT !.client = FALSE] ELSE conn[k]]
    /\ activeConnections' = activeConnections - Cardinality(TimedOut)
    /\ last' = Remaining(Clients \ TimedOut)
    /\ UNCHANGED <<topics, recentEvents, browser, epoch>>

\* Slip: the close handler counts down although the stream's end already did.
CountDown(k) == activeConnections' = activeConnections - 1

\* Only a stream that is still running counts down when it ends.
EndStream(k) ==
    activeConnections' = IF conn[k].client THEN activeConnections - 1
                         ELSE activeConnections

\* The response's close event: unregisterClient, and the heartbeat ends.
CloseConnection(k) ==
    /\ conn[k].open
    /\ EndStream(k)
    /\ last' = Remaining(Clients \ {k})
    /\ conn' = [conn EXCEPT ![k] = Closed]
    /\ browser' = IF Attended(k)
                  THEN [browser EXCEPT ![conn[k].browser].using = None]
                  ELSE browser
    /\ UNCHANGED <<topics, recentEvents, epoch>>

\* The peer is gone, and nothing tells the server.
PeerVanishes(b) ==
    /\ browser[b].using # None
    /\ browser' = [browser EXCEPT ![b].using = None]
    /\ UNCHANGED <<topics, recentEvents, last, activeConnections, conn, epoch>>

\* The process ends, with or without onModuleDestroy, and starts again.
Restart ==
    /\ recentEvents' = <<>>
    /\ last' = None
    /\ activeConnections' = 0
    /\ conn' = [k \in Connections |-> Closed]
    /\ browser' = [b \in Browsers |-> [browser[b] EXCEPT !.using = None]]
    /\ epoch' = published
    /\ UNCHANGED topics

\* Heartbeats are at most Stall late; the times are capped where nothing tells
\* larger values apart.
Later(t) == IF t <= Timeout THEN t + 1 ELSE t

Tick ==
    /\ \A k \in Connections : conn[k].open => conn[k].due < 1 + Stall
    /\ conn' = [k \in Connections |->
          IF ~conn[k].open THEN Closed
          ELSE [conn[k] EXCEPT !.due = @ + 1, !.idle = Later(@)]]
    /\ UNCHANGED <<topics, recentEvents, last, activeConnections, browser, epoch>>

Next ==
    \/ \E b \in Browsers, k \in Connections : SubscribeToEvents(b, k)
    \/ \E topic \in Topics : PublishCacheInvalidation(topic)
    \/ \E k \in Connections : Heartbeat(k)
    \/ CheckClientTimeouts
    \/ \E k \in Connections : CloseConnection(k)
    \/ \E b \in Browsers : PeerVanishes(b)
    \/ Restart
    \/ Tick

Spec == Init /\ [][Next]_vars

-----------------------------------------------------------------------------
(* Properties.                                                             *)

Ids == 1 .. published

\* What the store can hold of distinct events, each being stored twice.
Capacity == StoreLimit \div 2

ConnectionStates ==
    [open : BOOLEAN, client : BOOLEAN, browser : Browsers \cup {None},
     due : 0 .. 1 + Stall, idle : 0 .. Timeout + 1]

\* The type invariant; only open connections are clients, an open connection
\* has a browser, and no id is known before it was published.
TypeOK ==
    /\ topics \in Seq(Topics)
    /\ published <= MaxEvents
    /\ recentEvents \in Seq(Ids)
    /\ Len(recentEvents) <= StoreLimit
    /\ last \in Ids \cup {None}
    /\ activeConnections \in Nat
    /\ conn \in [Connections -> ConnectionStates]
    /\ \A k \in Connections :
          /\ conn[k].client => conn[k].open
          /\ conn[k].open => conn[k].browser \in Browsers
    /\ browser \in [Browsers ->
          [using : Connections \cup {None}, cursor : Ids \cup {None, Foreign},
           got : SUBSET Ids, joined : 0 .. published,
           filter : Topics \cup {Everything}]]
    /\ epoch \in 0 .. published

\* GET /sse/stats counts the streams that run: every way a stream ends (close,
\* timeout, both in either order, restart) counts it down exactly once.
ActiveConnectionsExact == activeConnections = Cardinality(Clients)

\* A subscriber that comes back has no hole in what it received: an event it
\* wants is missing only when the server restarted after it, or when so many
\* events followed it that the store, which holds each event twice, has lost it.
NoHole ==
    \A b \in Browsers : browser[b].using \in Clients =>
       \A e \in (browser[b].joined + 1) .. published :
          \/ ~Matches(b, e)
          \/ e \in browser[b].got
          \/ e <= epoch
          \/ published - e >= Capacity

\* Replayed, buffered and live events reach a new stream in the order in which
\* they were published, whatever id its subscriber presents.
OpensInOrder ==
    \A b \in Browsers :
       \A i, j \in DOMAIN Opening(b) : i < j => Opening(b)[i] <= Opening(b)[j]

\* What cannot be replayed any more, by a restart or by the store's limit.
Forgotten == IF epoch >= published - Capacity THEN epoch ELSE published - Capacity

Feed == INSTANCE EventFeed WITH
    Subscribers <- Browsers,
    log <- topics,
    lost <- Forgotten,
    online <- {b \in Browsers : browser[b].using \in Clients},
    got <- [b \in Browsers |-> browser[b].got],
    since <- [b \in Browsers |-> browser[b].joined],
    filter <- [b \in Browsers |-> browser[b].filter]

\* The stream with its ids, its store that holds each event twice, its buffer and
\* its connections is a feed with replay: a subscriber that is served gets each
\* event it wants as it is published, one that joins gets all that it wants and
\* that is not forgotten, and none ever gets an event that it did not ask for.
DeliversAsPromised == Feed!Spec

\* The timeout check takes the stream of an open connection only if the
\* heartbeat that keeps it alive has itself been overdue for the timeout: what
\* is kept alive in time also gets events, however late the check runs.
CutOffOnlyOverdue ==
    [][\A k \in Connections :
          conn[k].client /\ conn'[k].open /\ ~conn'[k].client
             => conn[k].due > Timeout]_vars
=============================================================================
