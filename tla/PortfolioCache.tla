--------------------------- MODULE PortfolioCache ---------------------------
(***************************************************************************)
(* The two-level portfolio cache of one (chain, chainId, address): Redis   *)
(* (core/cache/cache.service.ts) in front of the MongoDB snapshots         *)
(* (core/db/db.service.ts) in front of the blockchain.                     *)
(*                                                                         *)
(* Three kinds of actors interleave at their awaits:                       *)
(*   - a request runs BalanceService.getPortfolio and, when it had to ask  *)
(*     the chain, the two event listeners that write Redis and then Mongo  *)
(*     after the response has gone out;                                    *)
(*   - an activity handler runs CacheMongoService.handleAddressActivity,   *)
(*     which expires the snapshots and deletes the Redis keys in parallel  *)
(*     and then announces that the address was invalidated;                *)
(*   - the environment: transactions on the chain, time, MongoDB's TTL     *)
(*     monitor, failing calls.                                             *)
(*                                                                         *)
(* Every action is the effect of one I/O call at its server together with  *)
(* the code up to the next await.  Keys of different addresses never meet, *)
(* so one address is enough; its keys are its providers, since the request *)
(* interceptor always names one.  Portfolio contents are reduced to the    *)
(* version of the chain that their oldest part was read from: a fetch asks *)
(* one thing after another, and the native balance comes first.            *)
(***************************************************************************)
EXTENDS Integers

CONSTANTS
    Requests,    \* request slots (a slot is reused once its pipeline is over)
    Handlers,    \* slots of concurrently running activity handlers
    Providers,   \* the providers a request may name: the keys of the address
    RedisTTL,    \* CACHE_TTL, in ticks
    MongoTTL,    \* mongoTtlSeconds, in ticks
    Latency,     \* longest time one call may take, in ticks
    FetchCalls,  \* how many calls, one after another, read a portfolio
    MaxVersion,  \* bound: transactions of the address on the chain
    AgeCap,      \* bound: content older than this is not told apart
    None         \* no cache entry, no snapshot, no content

ASSUME ConstantsAssumption ==
    /\ RedisTTL \in Nat \ {0}
    /\ MongoTTL \in Nat \ {0}
    /\ Latency \in Nat
    /\ FetchCalls \in Nat \ {0}
    /\ MaxVersion \in Nat
    /\ AgeCap \in Nat
    /\ None \notin Providers

VARIABLES
    version,  \* what the chain holds for the address: number of transactions
    redis,    \* redis[p]: the entry under the portfolio key of p, or None
    mongo,    \* mongo[p]: the snapshot document of p, or None
    request,  \* request[r]: where getPortfolio and its listeners are
    handler,  \* handler[h]: where handleAddressActivity is
    floor     \* history: highest version a fully successful invalidation covered

vars == <<version, redis, mongo, request, handler, floor>>

-----------------------------------------------------------------------------
(* Times are kept relative to now.  `left` is what remains of a lifetime   *)
(* (a snapshot's expiresAt - now, so zero or less when it has expired),    *)
(* `wait` is how long ago the current call (of a handler: the one that     *)
(* expires the snapshots) was issued, and `age` is how long ago the oldest *)
(* part of the content left the chain.  `age` and `raced` are history: no  *)
(* guard reads them.  `raced` marks content whose way from the chain       *)
(* overlapped a running invalidation.                                      *)

StalenessBound == RedisTTL + MongoTTL + (FetchCalls + 2) * Latency - 2

Older(age) == IF age < AgeCap THEN age + 1 ELSE age

IdleRequest ==
    [pc |-> "idle", provider |-> None, ver |-> 0, age |-> 0, wait |-> 0,
     calls |-> 0, raced |-> FALSE]

IdleHandler ==
    [running |-> FALSE, target |-> 0, wait |-> 0, scanned |-> {},
     batch |-> {}, redis |-> "done", mongo |-> "done"]

Init ==
    /\ version = 0
    /\ redis = [p \in Providers |-> None]
    /\ mongo = [p \in Providers |-> None]
    /\ request = [r \in Requests |-> IdleRequest]
    /\ handler = [h \in Handlers |-> IdleHandler]
    /\ floor = 0

InvalidationRunning == \E h \in Handlers : handler[h].running

Issue(r, pc) ==
    request' = [request EXCEPT ![r] = [request[r] EXCEPT !.pc = pc, !.wait = 0]]

Finish(r) == request' = [request EXCEPT ![r] = IdleRequest]

\* The request holds content, or a part of it, that it has yet to write somewhere.
Carrying(r) ==
    request[r].pc \in {"cacheFill", "getRest", "cacheSet", "saveSnapshot"}

-----------------------------------------------------------------------------
(* getPortfolio: Redis, then an unexpired snapshot, then the chain.        *)

\* A request arrives; the first call goes to Redis.
GetPortfolio(r, p) ==
    /\ request[r].pc = "idle"
    /\ request' = [request EXCEPT ![r] =
          [IdleRequest EXCEPT !.pc = "cacheGet", !.provider = p,
                              !.raced = InvalidationRunning]]
    /\ UNCHANGED <<version, redis, mongo, handler, floor>>

\* cacheService.get answers: a hit is the response, a miss asks MongoDB.
CacheGet(r) ==
    /\ request[r].pc = "cacheGet"
    /\ IF redis[request[r].provider] # None
       THEN Finish(r)
       ELSE Issue(r, "getSnapshot")
    /\ UNCHANGED <<version, redis, mongo, handler, floor>>

\* A snapshot is returned when its expiresAt lies after the instant at which
\* the query was built, not after the instant at which MongoDB runs it.
AnySnapshot(doc, wait) == doc # None   \* slip: the query ignores expiresAt

Unexpired(doc, wait) == doc # None /\ doc.left + wait > 0

GetPortfolioSnapshot(r) ==
    LET doc == mongo[request[r].provider] IN
    /\ request[r].pc = "getSnapshot"
    /\ IF Unexpired(doc, request[r].wait)
       THEN request' = [request EXCEPT ![r] =
              [request[r] EXCEPT !.pc = "cacheFill", !.wait = 0,
                 !.ver = doc.ver, !.age = doc.age, !.raced = @ \/ doc.raced]]
       ELSE Issue(r, "getBalances")
    /\ UNCHANGED <<version, redis, mongo, handler, floor>>

\* cacheService.set at the server, with the default TTL (no caller gives one).
Entry(r) ==
    [ver |-> request[r].ver, age |-> request[r].age, left |-> RedisTTL,
     raced |-> request[r].raced]

\* Slip: a snapshot that is read gets a new lifetime (sliding expiration).
FillCacheSliding(r) ==
    /\ request[r].pc = "cacheFill"
    /\ redis' = [redis EXCEPT ![request[r].provider] = Entry(r)]
    /\ mongo' = [mongo EXCEPT ![request[r].provider] =
          IF @ = None THEN None ELSE [@ EXCEPT !.left = MongoTTL]]
    /\ Finish(r)
    /\ UNCHANGED <<version, handler, floor>>

\* The snapshot is copied into Redis and is the response.
FillCache(r) ==
    /\ request[r].pc = "cacheFill"
    /\ redis' = [redis EXCEPT ![request[r].provider] = Entry(r)]
    /\ Finish(r)
    /\ UNCHANGED <<version, mongo, handler, floor>>

\* The first call of the fetch is answered: the native balance.  The others
\* (tokens, what is known of them, NFTs, prices) are awaited one by one; after
\* the last the response goes out and emitPortfolioUpdate starts
\* handlePortfolioUpdate, which runs up to its write to Redis.
AfterAnswer(calls) == IF calls = 0 THEN "cacheSet" ELSE "getRest"

GetBalances(r) ==
    /\ request[r].pc = "getBalances"
    /\ request' = [request EXCEPT ![r] =
          [request[r] EXCEPT !.pc = AfterAnswer(FetchCalls - 1),
                             !.calls = FetchCalls - 1, !.wait = 0,
                             !.ver = version, !.age = 0]]
    /\ UNCHANGED <<version, redis, mongo, handler, floor>>

GetRest(r) ==
    /\ request[r].pc = "getRest"
    /\ request' = [request EXCEPT ![r] =
          [request[r] EXCEPT !.pc = AfterAnswer(request[r].calls - 1),
                             !.calls = @ - 1, !.wait = 0]]
    /\ UNCHANGED <<version, redis, mongo, handler, floor>>

\* handlePortfolioUpdate has written Redis; emitPortfolioRedisUpdated starts
\* the listener that saves the snapshot.
HandlePortfolioUpdate(r) ==
    /\ request[r].pc = "cacheSet"
    /\ redis' = [redis EXCEPT ![request[r].provider] = Entry(r)]
    /\ Issue(r, "saveSnapshot")
    /\ UNCHANGED <<version, mongo, handler, floor>>

\* expiresAt was computed when the call was issued.
BothTTLs(r) == MongoTTL + RedisTTL - request[r].wait   \* slip: TTLs add up

ExpiresIn(r) == MongoTTL - request[r].wait

\* The snapshot is upserted.
SavePortfolioSnapshot(r) ==
    /\ request[r].pc = "saveSnapshot"
    /\ mongo' = [mongo EXCEPT ![request[r].provider] =
          [Entry(r) EXCEPT !.left = ExpiresIn(r)]]
    /\ Finish(r)
    /\ UNCHANGED <<version, redis, handler, floor>>

\* Any call may fail.  Up to getBalances the error reaches the client; in the
\* listeners it is logged and the rest of the pipeline is skipped.
FailRequest(r) ==
    /\ request[r].pc # "idle"
    /\ Finish(r)
    /\ UNCHANGED <<version, redis, mongo, handler, floor>>

RequestStep(r) ==
    \/ CacheGet(r)
    \/ GetPortfolioSnapshot(r)
    \/ FillCache(r)
    \/ GetBalances(r)
    \/ GetRest(r)
    \/ HandlePortfolioUpdate(r)
    \/ SavePortfolioSnapshot(r)
    \/ FailRequest(r)

-----------------------------------------------------------------------------
(* handleAddressActivity.                                                  *)

\* An activity of the address is delivered (late, repeated or out of order:
\* nothing in the code tells deliveries apart) and both deletions are started.
HandleAddressActivity(h) ==
    /\ ~handler[h].running
    /\ version > 0
    /\ handler' = [handler EXCEPT ![h] =
          [running |-> TRUE, target |-> version, wait |-> 0, scanned |-> {},
           batch |-> {}, redis |-> "scan", mongo |-> "pending"]]
    /\ request' = [r \in Requests |->
          IF request[r].pc = "idle" THEN request[r]
          ELSE [request[r] EXCEPT !.raced = TRUE]]
    /\ UNCHANGED <<version, redis, mongo, floor>>

\* Slip: a handler leaves the snapshots to another one that is still at it.
InvalidateUnlessPending(h) ==
    /\ handler[h].mongo = "pending"
    /\ mongo' = [p \in Providers |->
          IF mongo[p] = None \/ \E g \in Handlers \ {h} : handler[g].mongo = "pending"
          THEN mongo[p] ELSE [mongo[p] EXCEPT !.left = -handler[h].wait]]
    /\ handler' = [handler EXCEPT ![h] = [handler[h] EXCEPT !.mongo = "done", !.wait = 0]]
    /\ UNCHANGED <<version, redis, request, floor>>

\* invalidateAddressSnapshot sets expiresAt of every snapshot of the address
\* to the instant at which the handler built the update.
InvalidateAddressSnapshot(h) ==
    /\ handler[h].mongo = "pending"
    /\ mongo' = [p \in Providers |->
          IF mongo[p] = None THEN None
          ELSE [mongo[p] EXCEPT !.left = -handler[h].wait]]
    /\ handler' = [handler EXCEPT ![h] = [handler[h] EXCEPT !.mongo = "done", !.wait = 0]]
    /\ UNCHANGED <<version, redis, request, floor>>

\* deleteByPattern's SCAN reaches a key; keys come in no fixed order and each
\* is seen or not as it is at that moment.
ScanKey(h, p) ==
    /\ handler[h].redis = "scan"
    /\ p \notin handler[h].scanned
    /\ handler' = [handler EXCEPT ![h] =
          [handler[h] EXCEPT !.scanned = @ \cup {p},
                             !.batch = IF redis[p] # None THEN @ \cup {p} ELSE @]]
    /\ UNCHANGED <<version, redis, mongo, request, floor>>

ScanOver(h) == handler[h].scanned = Providers

\* The scan is over and the batch of UNLINKs is executed.
UnlinkBatch(h) ==
    /\ handler[h].redis = "scan"
    /\ ScanOver(h)
    /\ redis' = [p \in Providers |->
          IF p \in handler[h].batch THEN None ELSE redis[p]]
    /\ handler' = [handler EXCEPT ![h] = [handler[h] EXCEPT !.redis = "done"]]
    /\ UNCHANGED <<version, mongo, request, floor>>

\* Either deletion may fail; Promise.allSettled waits for the other one.
\* deleteByPattern also deletes nothing, and returns 0, when there is no
\* connection or when CacheModule fell back to the memory store.
FailInvalidateSnapshot(h) ==
    /\ handler[h].mongo = "pending"
    /\ handler' = [handler EXCEPT ![h] = [handler[h] EXCEPT !.mongo = "failed", !.wait = 0]]
    /\ UNCHANGED <<version, redis, mongo, request, floor>>

FailDeleteByPattern(h) ==
    /\ handler[h].redis = "scan"
    /\ handler' = [handler EXCEPT ![h] = [handler[h] EXCEPT !.redis = "failed"]]
    /\ UNCHANGED <<version, redis, mongo, request, floor>>

\* Slip: the announcement does not wait for the deletion in Redis.
SettledWithoutRedis(h) == handler[h].running /\ handler[h].mongo # "pending"

\* Slip: nothing happens any more unless both deletions succeed.
SettledIfBothDone(h) ==
    /\ handler[h].running
    /\ handler[h].mongo = "done"
    /\ handler[h].redis = "done"

\* Both have settled: emitAddressCacheInvalidated, whatever their outcome.
Settled(h) ==
    /\ handler[h].running
    /\ handler[h].mongo # "pending"
    /\ handler[h].redis # "scan"

EmitAddressCacheInvalidated(h) ==
    /\ Settled(h)
    /\ floor' = IF /\ handler[h].mongo # "failed"
                   /\ handler[h].redis # "failed"
                   /\ handler[h].target > floor
                THEN handler[h].target ELSE floor
    /\ handler' = [handler EXCEPT ![h] = IdleHandler]
    /\ UNCHANGED <<version, redis, mongo, request>>

HandlerStep(h) ==
    \/ InvalidateAddressSnapshot(h)
    \/ \E p \in Providers : ScanKey(h, p)
    \/ UnlinkBatch(h)
    \/ FailInvalidateSnapshot(h)
    \/ FailDeleteByPattern(h)
    \/ EmitAddressCacheInvalidated(h)

-----------------------------------------------------------------------------
(* The environment.                                                        *)

\* A transaction changes what the chain holds for the address.
Transact ==
    /\ version < MaxVersion
    /\ version' = version + 1
    /\ UNCHANGED <<redis, mongo, request, handler, floor>>

\* MongoDB's TTL monitor removes an expired snapshot (index on expiresAt).
RemoveExpired(p) ==
    /\ mongo[p] # None
    /\ mongo[p].left <= 0
    /\ mongo' = [mongo EXCEPT ![p] = None]
    /\ UNCHANGED <<version, redis, request, handler, floor>>

\* Time passes, but not while a call has already taken Latency; a deletion in
\* Redis is as many calls as its SCAN needs, so it may last.  A Redis entry
\* disappears when its time is up; an expired snapshot is told apart only as
\* long as a query built before its expiry may still run.
Tick ==
    /\ \A r \in Requests : request[r].pc # "idle" => request[r].wait < Latency
    /\ \A h \in Handlers : handler[h].mongo = "pending" => handler[h].wait < Latency
    /\ redis' = [p \in Providers |->
          IF redis[p] = None \/ redis[p].left = 1 THEN None
          ELSE [redis[p] EXCEPT !.left = @ - 1, !.age = Older(@)]]
    /\ mongo' = [p \in Providers |->
          IF mongo[p] = None THEN None
          ELSE [mongo[p] EXCEPT !.left = IF @ > -Latency THEN @ - 1 ELSE @,
                                !.age = Older(@)]]
    /\ request' = [r \in Requests |->
          IF request[r].pc = "idle" THEN request[r]
          ELSE [request[r] EXCEPT !.wait = @ + 1,
                                  !.age = IF Carrying(r) THEN Older(@) ELSE @]]
    /\ handler' = [h \in Handlers |->
          IF handler[h].mongo # "pending" THEN handler[h]
          ELSE [handler[h] EXCEPT !.wait = @ + 1]]
    /\ UNCHANGED <<version, floor>>

Next ==
    \/ \E r \in Requests, p \in Providers : GetPortfolio(r, p)
    \/ \E r \in Requests : RequestStep(r)
    \/ \E h \in Handlers : HandleAddressActivity(h)
    \/ \E h \in Handlers : HandlerStep(h)
    \/ \E p \in Providers : RemoveExpired(p)
    \/ Transact
    \/ Tick

(* Every call is answered or fails, the TTL monitor runs and time goes on. *)
(* Nothing obliges a client to ask, the chain to change, or Alchemy to     *)
(* deliver an activity.                                                    *)
Fairness ==
    /\ \A r \in Requests : WF_vars(RequestStep(r))
    /\ \A h \in Handlers : WF_vars(HandlerStep(h))
    /\ \A p \in Providers : WF_vars(RemoveExpired(p))
    /\ WF_vars(Tick)

Spec == Init /\ [][Next]_vars /\ Fairness

-----------------------------------------------------------------------------
(* Properties.                                                             *)

Entries ==
    [ver : 0 .. MaxVersion, age : 0 .. AgeCap, left : 1 .. RedisTTL,
     raced : BOOLEAN]

Snapshots ==
    [ver : 0 .. MaxVersion, age : 0 .. AgeCap, left : -Latency .. MongoTTL,
     raced : BOOLEAN]

RequestStates ==
    [pc : {"idle", "cacheGet", "getSnapshot", "cacheFill", "getBalances",
           "getRest", "cacheSet", "saveSnapshot"},
     provider : Providers \cup {None}, ver : 0 .. MaxVersion,
     age : 0 .. AgeCap, wait : 0 .. Latency, calls : 0 .. FetchCalls - 1,
     raced : BOOLEAN]

HandlerStates ==
    [running : BOOLEAN, target : 0 .. MaxVersion, wait : 0 .. Latency,
     scanned : SUBSET Providers, batch : SUBSET Providers,
     redis : {"scan", "done", "failed"}, mongo : {"pending", "done", "failed"}]

StoresOK ==
    /\ redis \in [Providers -> Entries \cup {None}]
    /\ mongo \in [Providers -> Snapshots \cup {None}]

RequestsOK ==
    /\ request \in [Requests -> RequestStates]
    /\ \A r \in Requests :
          /\ request[r].pc # "idle" => request[r].provider \in Providers
          /\ request[r].pc = "getRest" => request[r].calls > 0

HandlersOK == handler \in [Handlers -> HandlerStates]

\* The type invariant; a request past its start names a provider, and one that
\* awaits a further call of its fetch has one left.
TypeOK ==
    /\ version \in 0 .. MaxVersion
    /\ floor \in 0 .. MaxVersion
    /\ StoresOK
    /\ RequestsOK
    /\ HandlersOK

\* What handleAddressActivity achieves: content older than a completed
\* invalidation can be served or written again only if its way from the chain
\* overlapped an invalidation.  Whatever was at rest when the invalidation
\* began, and whatever is read after it, is at least as new as the activity.
StaleOnlyByRace ==
    /\ \A p \in Providers :
          redis[p] # None /\ redis[p].ver < floor => redis[p].raced
    /\ \A p \in Providers :
          mongo[p] # None /\ mongo[p].left > 0 /\ mongo[p].ver < floor
             => mongo[p].raced
    /\ \A r \in Requests :
          Carrying(r) /\ request[r].ver < floor => request[r].raced

(* Why StaleOnlyByRace holds: the conjuncts that make it inductive.        *)

\* Only a running handler has a deletion to do.
DeletionsRun ==
    \A h \in Handlers :
       handler[h].mongo = "pending" \/ handler[h].redis = "scan" => handler[h].running

\* A request that is under way while a handler runs is marked as racing it.
RunningMarks ==
    InvalidationRunning =>
       \A r \in Requests : request[r].pc # "idle" => request[r].raced

\* No handler aims, and no completed one aimed, beyond what the chain holds.
TargetsSeen ==
    /\ floor <= version
    /\ \A h \in Handlers : handler[h].target <= version

\* The scan misses only keys that were written since it passed them.
BatchCovers ==
    \A h \in Handlers : handler[h].running /\ handler[h].redis = "scan" =>
       \A p \in handler[h].scanned :
          redis[p] # None => redis[p].raced \/ p \in handler[h].batch

\* What a handler leaves in, or others put back into, the stores it has cleared.
RedisCleared ==
    \A h \in Handlers : handler[h].running /\ handler[h].redis = "done" =>
       \A p \in Providers : redis[p] # None => redis[p].raced

MongoCleared ==
    \A h \in Handlers : handler[h].running /\ handler[h].mongo = "done" =>
       \A p \in Providers :
          mongo[p] # None => mongo[p].raced \/ mongo[p].left <= 0

\* A snapshot an invalidation expired is out of reach of every query built
\* since; only the queries of racing requests may still find it.
OldUnreadable ==
    \A p \in Providers :
       mongo[p] # None /\ mongo[p].ver < floor /\ ~mongo[p].raced =>
          /\ mongo[p].left <= 0
          /\ \A r \in Requests : request[r].pc # "idle" /\ ~request[r].raced =>
                mongo[p].left + request[r].wait <= 0

RaceInv ==
    /\ DeletionsRun
    /\ RunningMarks
    /\ TargetsSeen
    /\ BatchCovers
    /\ RedisCleared
    /\ MongoCleared
    /\ OldUnreadable
    /\ StaleOnlyByRace

\* What the two TTLs achieve together: content whose way from the chain met no
\* invalidation left the chain, its oldest part included, at most MongoTTL +
\* RedisTTL (and the latency of the calls of the fetch and of those between)
\* ago when Redis serves it.  The sum, because a snapshot copied back into
\* Redis gets a whole RedisTTL however little it had left.
AgeBounded ==
    \A p \in Providers :
       redis[p] # None /\ ~redis[p].raced => redis[p].age <= StalenessBound

\* What the caching strategy promises of an invalidation: once it is over, no
\* older content is served.
InvalidationLeavesNothingStale ==
    \A p \in Providers : redis[p] # None => redis[p].ver >= floor

\* Every activity that is handled is announced, even when a deletion fails.
ActivityAnnounced ==
    \A h \in Handlers : handler[h].running ~> ~handler[h].running

\* Even if no activity is ever delivered, the TTLs alone bring Redis to agree
\* with the chain for good once the chain has stopped changing.
EventuallyCoherent ==
    <>[](\A p \in Providers : redis[p] # None => redis[p].ver = version)
=============================================================================
