# Formal model of the OneKey Balance Kit back end

TLA+ modules that model the state-keeping parts of this NestJS service, the
TLC instances that check them, and TLAPS proofs about them.  Paths below are
relative to the repository's `src/` directory (`core/...` is `src/core/...`).

    tlc -workers 2 -config PortfolioCache_safety.cfg MCPortfolioCache.tla
    tlapm PortfolioCacheProofs.tla

## 1. The system

One Node.js process answers balance queries for an address on a chain, keeps
the answers in two caches, asks Alchemy to report activity of the addresses it
has cached, drops what an activity makes stale, and tells subscribers over SSE
that it did.  Several processes may share Redis, MongoDB and the Alchemy
account.  Inside a process only one piece of code runs at a time; control can
change at every `await`, and nowhere else.  `EventEmitter2` dispatches
synchronously: an emit runs every listener up to its first `await`.

    client ──> BalanceService ──> CacheMongoService ──> Redis ──> MongoDB ──> chain service ──> provider
                     │ PORTFOLIO_UPDATE
                     v
              PortfolioCacheListener ──> Redis
                     │ PORTFOLIO_REDIS_UPDATED
                     v
              two PortfolioMongoListeners ──> MongoDB snapshot, Alchemy address list
    Alchemy ──> WebhookController ──> WebhookService ──ADDRESS_ACTIVITY──> CacheMongoService
                     (signing keys)                                        │ deletes in Redis and MongoDB
                                                  ADDRESS_CACHE_INVALIDATED v
                                                    SseSubscriptionService ──> subscribers

### Inventory

**Portfolio cache** (`balances/services/balance.service.ts`,
`core/cache/cache-mongo.service.ts`, `core/cache/cache.service.ts`,
`core/cache/portfolio-cache.listener.ts`, `core/db/db.service.ts`,
`notification/notification.service.ts`).
State: an entry per portfolio key in Redis (TTL `CACHE_TTL`, 300 s by default),
a snapshot document per (chainId, address, provider) in MongoDB with an
`expiresAt` 30 minutes ahead and a TTL index.  Operations: `getPortfolio` reads
Redis, then an unexpired snapshot (which it copies into Redis), then the chain;
after the response two listeners write Redis and then the snapshot.
`handleAddressActivity` expires all snapshots and deletes all keys of an
address in parallel and then announces it.  Hard: every one of these steps
interleaves with the others; calls fail separately; times are read before the
call that uses them.  Correct when: after an invalidation nothing older is
served except what was already on its way; content has a bounded age; an
activity is announced whatever fails; without activities the caches still come
to agree with the chain.

**SSE subscription** (`core/sse/`).  State: the last `MAX_STORED_EVENTS`
events, an observable shared with `shareReplay`, the client table, a counter of
active streams, per connection a heartbeat.  Operations: subscribe (with replay
from `Last-Event-ID`), publish, heartbeat, timeout check, close, restart.
Hard: reconnection with ids that are gone or from an earlier process, streams
that end in two ways, heartbeats racing the timeout.  Correct when: a
subscriber that comes back has no hole beyond what the store can hold, receives
in order, is not cut off while it is kept alive, and the counter is exact.
The decorator `SseConnection` does similar things but is applied to no route.

**Webhook creation** (`webhook/webhook-management.service.ts:211-575`).  State:
a lock key in the cache with a TTL of 30 s, the webhooks Alchemy has.  One
operation: look for a webhook of the chain, take the lock, look again, create,
release.  Hard: `get` and `set` of the lock are two calls; the lock can run out
while it is held; failing callers delete it on their way out; a failed listing
is taken for an empty one.  Correct when: callers that do not race create at
most one webhook per chain, every caller comes to an end, and no lock left behind
keeps the chain without one.

**Address monitoring** (`core/portfolio/portfolio-mongo.listener.ts`,
`core/cache/portfolio-mongo.listener.ts`,
`webhook/webhook-address-reconciliation.service.ts`,
`updateWebhookAddresses`).  State: the `webhookMonitored` flag of each snapshot,
Alchemy's list of addresses, two tables of throttle timestamps.  Operations: the
two listeners (one per address, one per chain, both of the same event), the
reconciliation 5 s after the start and at 3 every night.  Hard: three writers of
two stores without a transaction; decisions on values read several awaits ago;
a throttle that also suppresses the retry of what failed; TTL deletion of the
documents that carry the flag.  Correct when: a flag can be trusted, an address
in demand comes to be monitored, a forgotten one does not stay; the default
address is meant never to be removed.

**Signing keys** (`getSigningKeyByUrl`, `clearSigningKeyCache`,
`webhook/webhook.controller.ts`).  State: signing keys with a lifetime of 30
minutes.  Operations: look up, refresh, clear on a bad signature.  Hard: a key
that changes while cached; a lookup in flight while the cache is cleared.
Correct when: rejections of genuine deliveries are bounded and end.

**Webhook processing** (`webhook/webhook.controller.ts`,
`webhook/webhook.service.ts`).  State: a log of deliveries in MongoDB.
Operations: verify, store, dispatch by type, emit one `ADDRESS_ACTIVITY` per
address.  Hard: Alchemy sends again what was not answered; a failure half-way.
Correct when: what is answered with success has been stored and announced.

**Chain services** (`chains/services/`, `chains/controllers/`).  State: one
service object per chain class, shared by all requests, with a mutable
`currentChainId` that is read again after awaits, when the answer is put together
and, in `EthereumService` alone, once more for its prices; copies of it per chain
and provider.  Correct when: an answer is of the chain that was asked for.

**Providers and balance strategies** (`providers/`).  Tables filled at start-up;
resolution by chain, provider and network; the calls of a balance query, each of
which may fail.  Correct when: strategy and adapter are picked alike, and a
failing call never passes for an empty account.

**Network identifiers** (`chains/constants/index.ts`,
`webhook/utils/alchemy-network.utils.ts`).  Tables and lookups in them.

**Cache keys** (`core/cache/cache-key.service.ts`).  String building.
**Prices, HTTP plumbing, configuration, schemas, scripts.**  No behaviour of
their own (prices are a mock that returns constants).

## 2. The modules

| Module | Models | State |
|---|---|---|
| `PortfolioCache` | the portfolio cache of one address | checked, safety proved |
| `PortfolioCacheProofs`, `PortfolioAgeProofs` | its theorems: what survives an invalidation; how old content is | proved |
| `SseSubscription` | event store, streams and connections | checked, safety and refinement proved |
| `EventFeed` | abstract: what a feed with replay promises its subscribers | implemented by `SseSubscription` |
| `SseSubscriptionProofs` | its theorems | proved |
| `WebhookCreation` | lock, second look and creation of a chain's webhook | checked, safety proved |
| `WebhookCreationProofs` | the theorems of `WebhookCreation` | proved |
| `AddressMonitoring` | both Mongo listeners, the reconciliation, Alchemy's list | checked, safety proved |
| `AddressMonitoringProofs` | its theorems | proved |
| `WebhookPipeline` | deliveries from the POST to the announcement, signing keys | checked, safety proved |
| `WebhookPipelineProofs` | its theorems | proved |
| `ChainTables` | the tables of chains and networks | used by the next four and by `WebhookPipeline` |
| `ChainProviders` | which provider and network answer a balance query | |
| `BalanceStrategies` | what a provider makes of calls that fail or answer | |
| `PortfolioFormat` | the forms a portfolio takes on its way to the snapshot and back | |
| `ChainService` | service objects and the requests that share them; EXTENDS the four before | checked, safety proved |
| `ChainServiceProofs` | its theorems, and those about tables, strategies and formats | proved |
| `MCPortfolioCache`, `MCSseSubscription`, `MCAddressMonitoring`, `MCChainService` | instances for TLC | |

The modules meet where the code's components do.  `WebhookPipeline` ends with
the announcement of an address (`emitAddressActivity`), where a handler of
`PortfolioCache` begins; that handler ends with the emit where
`PublishCacheInvalidation` of `SseSubscription` begins.  `WebhookCreation` is
about how many webhooks a chain has; `WebhookPipeline` takes the list as it
comes and `AddressMonitoring` takes one of them.  `PortfolioCache.GetBalances`
and `GetRest` are one fetch of `ChainService`.  The components are not composed into one
module: they share no state but through those events, which are neither
reordered nor lost inside a process.

### PortfolioCache

One address is enough, because keys of different addresses never meet; its keys
are its providers (the request interceptor always sets one, so the key without a
provider does not occur).  A portfolio is reduced to the `version` of the chain
that its oldest part was read from.

| Model | Code |
|---|---|
| `redis[p]` | the entry under `createPortfolioKey(chain, address, p)` |
| `mongo[p]` | the snapshot of provider `p`; `left` is `expiresAt` minus now |
| `request[r].pc` | the call a `getPortfolio`, or one of its two listeners, waits for |
| `handler[h]` | a running `handleAddressActivity`: the SCAN so far, the UNLINK batch, the outcome of both deletions |
| `version`, `Transact` | the chain |
| `floor`, `age`, `raced`, `target` | history, read by no guard |

An action is the effect of one call at its server together with the code up to
the next await:

    GetPortfolio -> CacheGet -> GetPortfolioSnapshot -> FillCache
                                          \-> GetBalances -> GetRest* -> HandlePortfolioUpdate -> SavePortfolioSnapshot
    HandleAddressActivity -> (InvalidateAddressSnapshot || ScanKey* -> UnlinkBatch) -> EmitAddressCacheInvalidated

A fetch is `FetchCalls` calls that are awaited one after another: native balance,
tokens, their metadata, NFTs, and prices on Ethereum (`evm-alchemy.strategy.ts:23`,
26, 35, 52; `priceable-evm-chain.service.ts:60`).  `GetBalances` is the answer to the
first, which is the oldest part of the content: its `version` and `age` start
there, and `GetRest` is each of the others.  The last two request actions run after
the response has gone out, as the listeners do.  A call fails without effect through `FailRequest`,
`FailInvalidateSnapshot` or `FailDeleteByPattern`; one that takes effect and
whose answer is lost is the effect followed by the failure.  A request that
fails up to `getBalances` is an error response, later it is a listener that logs
and stops.  A call is issued at one instant and reaches its server up to
`Latency` ticks later: that is why an `expiresAt` and a `now` are older than the
call that carries them (`ExpiresIn`, `Unexpired`, `InvalidateAddressSnapshot`).
SCAN meets the keys in any order and sees each as it is at that moment; as it is
several round trips and UNLINK another, the deletion in Redis may last as long as
it likes, and only the call that expires the snapshots is held to `Latency`.  The
500 keys a batch may hold are more than one address has, so there is one batch.
`deleteByPattern` reports success when it failed, and deletes nothing without a
connection or with the memory store; `FailDeleteByPattern` is all of these.

Left out: `reset`, `delete`, `invalidateProviderCache` and
`CacheMongoService.invalidateAddressCache` (nothing in the running service calls
them), the history time series (never read back by a request), reconnection
inside `CacheService` (a call fails or it does not).

### SseSubscription

| Model | Code |
|---|---|
| `recentEvents` | the service's array of the same name; an event is its sequence number |
| `last` | what `shareReplay({bufferSize: 1, refCount: true})` holds for the next subscriber |
| `activeConnections` | the counter of the same name |
| `conn[k].client` | the entry in `clients`, and the stream behind it running |
| `conn[k].open` | the HTTP response, until its close event |
| `conn[k].due`, `.idle` | time since the last heartbeat, since `lastActive` |
| `browser[b]` | the EventSource at the other end: its connection, the id it will present, what it received |
| `topics`, `epoch`, `joined`, `got` | history |

`publishCacheInvalidation` and everything its emit triggers is synchronous, so
it is one action, `PublishCacheInvalidation`, and it stores the event twice as
the code does (once itself, once in `handleCacheInvalidation`).
`SubscribeToEvents` is one connection attempt: registration, the replay and what
the shared observable holds.  `CheckClientTimeouts` ends streams but leaves the
connection with its heartbeat open, because the controller merges the two.
`PeerVanishes` is a peer that is gone without the close event having fired.
`Restart` loses everything in memory.

One tick is 10 s, the interval both of the controller's heartbeat and of the
timeout check; `Stall` is how late a timer may be.  The service's own 25 s
heartbeat only logs and is left out.  Whether the keepalive changes the id a
browser will present depends on the framework's numbering; both are allowed
(`Foreign`).

`EventFeed` says what all this is for without ids, store, buffer and connections:
subscribers are online or not, an event goes at once to those online that want it,
and one that joins is given, in that step, all it is owed, which is every event it
wants, has not received and is not lost, and nothing that it does not want.  The
refinement maps the streams that run to the subscribers online, and to what is
lost the restarts and the events more than half a store ago.

### WebhookCreation

| Model | Code |
|---|---|
| `lock` | the key `webhook:create:<chain>` in the cache; the code stores a time, the model its holder |
| `webhooks` | Alchemy's webhooks that match network, type, URL and are active |
| `caller[c].pc` | the call a `getWebhookIdForChain` waits for |
| `caller[c].raced`, `.blind`, the truth value of a webhook | history |

    GetWebhookIdForChain -> ListWebhooks -> GetLock -> SetLock -> Recheck -> CreateWebhook -> ReleaseLock
                                                          any cache call fails: FailCache -> ReleaseAgain

Callers may be in different processes, since the lock is in Redis; a process
that ends is `Crash`.  None of the calls has a timeout, so `LockExpires` is
possible at any time.  A creation is `clean` when its caller was not raced (no
other caller between `get` and `set` at the same time, its lock not taken from
it) and not blind (its second look was answered).

### AddressMonitoring

| Model | Code |
|---|---|
| `snapshot[<<a, p>>]` | the snapshot document of address and provider: absent, unexpired or expired, and its `webhookMonitored` |
| `listed` | the addresses of the chain's webhook at Alchemy |
| `throttled` | `processedAddresses` and `processedChains`, as the keys younger than 5 minutes |
| `pass[i]` | a run of the per-address listener, of the chain-wide one (`Sweep`) or of the reconciliation (`Nightly`) |
| `lapsed` | snapshots that expired after the reconciliation took its `now` |
| `tainted` | history: addresses two passes work on in opposite directions, or whose removal was left half done |

`PortfolioRedisUpdated` is the emit that starts both listeners.  `Track`
computes the history in every action.  An Alchemy call that is given an address
to add and to remove may do either (`NewLists`).  Clearing of a throttle key
that is old and passing the throttle because it is old are the same thing.
Not in the model, because nothing calls it: the branch of the per-address
listener that sweeps a whole chain (176-211) and `getMonitoredAddresses`
(`webhook-management.service.ts:596-640`); and `addressToWebhook`, which is
only written.

`Default` may be one of the `Addresses`: the listeners treat it as any other, only
`WithoutDefault` in the reconciliation spares it.

### WebhookPipeline

| Model | Code |
|---|---|
| `webhooks[c]`, `created[c]` | Alchemy's list; a webhook's number is its signing key |
| `cache[c]` | the unexpired entry of `signingKeyCache` |
| `delivery[d]` | what Alchemy has to report; it sends until it gets a 2xx answer |
| `post[d]` | the POST of `d` in the controller |
| `rejected[c]`, `late[c]` | history |

    Report -> HandleWebhook (-> GetExistingWebhooks -> GetSigningKeyByUrl) -> ProcessWebhookEvent

A key found in memory is verified in the same step as the POST arrives.  Storing
and announcing are one step after the save, since the emits are synchronous.
A delivery whose answer is lost is stored and announced again.  An emit that throws
would be caught and the delivery answered with success all the same
(`webhook.service.ts:111-124`); the model always announces, for the listeners are
asynchronous functions and an emit of theirs does not throw.

### ChainTables, ChainProviders, BalanceStrategies, PortfolioFormat, ChainService

The first four have no variables.  `ChainTables` is the chain table as a
function.  `ChainProviders` follows `ProviderFactory` from chain and provider to
the network that is asked; which clients exist depends on the configuration,
`ApiKeys` and `QuickNodeEndpoints`.  Facade, strategy factory and adapter factory
each keep lists of EVM and Solana chains of their own, and so do the modules
(`AlchemyEvmChains`, `QuickNodeStrategyChains`, `AdapterEvmChains`).
`BalanceStrategies` follows a fetch through strategy and adapter as a function of how
its calls end and of what the address holds (`Outcomes`): the tokens are numbered,
their list has pages of `PageSize`, and the EVM strategies ask for the first one
only, as the code does, which never uses the page key it is given.
`PortfolioFormat` follows a response through the chain service, `BalanceService`, `transformPortfolioData` (twice) and the schema into the
snapshot, and from there into the portfolio that `CacheMongoService` restores; an
object is a function on the names of its fields, so that what is named differently
is lost as in the code.  Metadata other than symbol and decimals, prices and times
are left out.  In `ChainService`, `currentChainId[s]` is the field of
every service object, a shared one `<<chain>>` or a copy `<<chain, provider>>`,
and `request[r]` is what a request waits for or was answered; its actions are
the endpoints that set the field, and the answers of provider and price service:

    GetPortfolio / DispatchGetBalances -> ProviderAnswers (-> QuotePrices -> PricesArrive)

`ProviderAnswers` reads the field for the id and symbol of the answer.  Only
`EthereumService` extends `PriceableEvmChainService` (`IsPriceable`); it resumes after
its `await super.getBalances` in a step of its own, `QuotePrices`, which reads the
field again and asks for prices unless it stands for a testnet.  Polygon and BSC
answer without prices, on their mainnets, too.

`ProviderFactory`'s caches of instances change nothing a caller can see and are
left out.  A client may write any name for `?provider=` (`Providers`); one that no
class is registered for makes a copy of the service and ends in an error, as in the
code.  That `providerSpecificServices` keeps a copy for every such name for ever is
in the model, but no property is about it.  `isEvmChain` of
`chains/constants/index.ts` has no caller.

## 3. What the runs show

Every property of a passing run has a mutant: a definition of the model changed
as a slip in the code would change it, under which TLC finds the property
violated.  The definitions marked `slip` in the modules are those mutants.

| Run | Instance | Shows |
|---|---|---|
| `cache_safety` | 1 request, 2 handlers, 1 key, 1 transaction, TTLs 1 and 2, latency 1, 3 calls to a fetch | `TypeOK`, `StaleOnlyByRace`, `RaceInv`, `AgeBounded` |
| `cache_liveness` | 1 request, 1 handler, 2 calls to a fetch, no symmetry | `ActivityAnnounced`, `EventuallyCoherent` |
| `cache_stale` | 2 requests, 1 handler | violation: `InvalidationLeavesNothingStale` |
| `sse_replay` | 1 browser, 2 slots, 2 topics, 3 events, store of 4 | `TypeOK`, `NoHole`, `OpensInOrder`, `ActiveConnectionsExact`, `CutOffOnlyOverdue`, `DeliversAsPromised` |
| `webhook_creation` | 3 callers, at most 2 webhooks | `TypeOK`, `OneCleanWebhook`, `CreationInv`, `CallAnswered`, `WebhookComes` |
| `webhook_lock` | 2 callers | violation: `CreatorsExclude` |
| `monitoring_safety` | the default and another address, one of them at a time with a snapshot, 1 listener, sweep, reconciliation | `TypeOK`, `FlagTrusted`, `OnlyListenersDropDefault` |
| `monitoring_default` | the default address alone | violation: `DefaultNeverRemoved` |
| `monitoring_liveness` | 1 address that is not the default one | `DemandMonitored`, `ForgottenUnmonitored` |
| `webhook_pipeline` | 1 chain, 2 deliveries of 3 kinds, at most 2 webhooks | `TypeOK`, `AcceptedIsAnnounced`, `RejectionsBounded`, `GenuineAccepted` |
| `chain_portfolio` | 2 requests, Ethereum, Sepolia and Polygon by name, ids of Ethereum, Sepolia and Solana devnet, 3 providers of which one is unknown, 2 tokens on pages of 1 | `TypeOK`, `FetchedAsAsked`, `PortfolioExact`, `ListsWhole`, `FetchCanAnswer`, `SnapshotKeepsHoldings` |
| `chain_router` | the same | violation: `RouterExact` |

### The properties

- `StaleOnlyByRace`.  Content older than a completed invalidation is in Redis,
  in a readable snapshot or on its way there only if its way from the chain
  overlapped a running invalidation.  This is what the code achieves.  "Completed"
  means that both deletions succeeded; a failed one raises no `floor`.
- `AgeBounded`.  The oldest part of content that overlapped no invalidation left the
  chain at most `StalenessBound` before, that is `RedisTTL + MongoTTL +
  (FetchCalls + 2) * Latency - 2` ticks: the two TTLs add up, since a snapshot close
  to its end is copied into Redis for a whole `RedisTTL`, and so do the latencies of
  the calls that follow the first one of the fetch, of the write to Redis, the query
  that finds the snapshot and the copy; in the last tick of a TTL what it bounds is
  gone.  With the defaults that is 35 minutes and seven latencies, for the five calls
  of an Ethereum fetch.  With three calls TLC finds the bound met exactly.
- `ActivityAnnounced`.  Every handled activity is announced, even when a
  deletion fails (`Promise.allSettled`).
- `EventuallyCoherent`.  When the chain no longer changes, Redis holds nothing
  that differs from it from some time on, even if no activity is delivered:
  cache entries and snapshots do not keep each other alive.
- `NoHole`.  An event that a subscriber wants and has not received was published
  before the last restart, or is followed by as many events as the store can
  hold (half its size, each event being stored twice).
- `OpensInOrder`.  What a new stream emits at once, replay and buffer together, is
  in the order of publication whatever id is presented.
- `ActiveConnectionsExact`.  The counter equals the number of running streams
  however they end: close, timeout, both, restart.
- `CutOffOnlyOverdue`.  The timeout check takes the stream of an open connection
  only if the heartbeat that keeps it alive was itself overdue.
- `DeliversAsPromised`.  `SseSubscription` implements `EventFeed`.  Beyond `NoHole` it
  says that what comes is given at the right moment, in the very step in which it is
  published or the stream opens, and that nothing comes that the subscription did not
  ask for, neither live nor by replay.
- `OneCleanWebhook`.  Of a chain's webhooks at most one is clean.  `CreationInv` is
  the inductive form.
- `CallAnswered`.  No caller waits for ever.
- `WebhookComes`.  A chain gets its webhook in the end, whatever locks crashed and
  failing callers have left behind, if callers keep coming and from some time on
  those that find the lock free do not fail.  Callers that find it taken give up, and
  their asking must not keep it alive: the mutant is a lock whose time runs only
  while nobody asks.
- `FlagTrusted`.  An address with a flagged snapshot is on Alchemy's list, or a
  pass is about to unset the flag, or the address is tainted.  A wrong flag keeps
  the listeners from adding the address, so this is what addition relies on.
- `OnlyListenersDropDefault`.  The default address goes off Alchemy's list only by a
  listener's update that has it among the expired ones; the reconciliation, which
  looks up everything on the list, spares it.  That the listeners do not is
  `monitoring_default`.
- `DemandMonitored`, `ForgottenUnmonitored`.  An address that stays in demand is
  listed again and again (or tainted); one that stays unwanted is in the end not
  listed, though the document with its flag is gone: the reconciliation does it.
- `AcceptedIsAnnounced`.  What Alchemy will not send again was stored and, if it
  says that an address changed, announced.
- `RejectionsBounded`, `GenuineAccepted`.  After the first webhook of a chain
  changes at most one of its deliveries is rejected for the old key, and one more
  per lookup that was under way; in the end every one gets through.  "First",
  because `getSigningKeyByUrl` takes the first webhook of the list: the
  deliveries of any other are always rejected.
- `FetchedAsAsked`, `PortfolioExact`.  The balances are of the chain that was asked
  for, and a portfolio is that chain's in symbol and prices, too, however the
  requests of other chains turn the shared objects meanwhile, also between the
  answer and the prices.  Ethereum's mainnet alone has prices.
- `ListsWhole`.  A failing call fails the request and does not pass for an empty list:
  an answer of Alchemy's has all tokens of the first page and the NFTs, and on Solana
  all tokens; one of QuickNode's has the first page or no tokens.  That further pages
  are missing is what the code does, and that decimals are right is not claimed.
- `FetchCanAnswer`.  Whatever provider and network were picked, a response exists
  when all calls answer: strategy and adapter fit.
- `SnapshotKeepsHoldings`.  A portfolio that went through the snapshot still has its
  native balance, its NFTs and its tokens' amounts, on EVM chains with symbol and
  decimals.  What it has lost is listed below.

### The bounds, and why they are enough

- `PortfolioCache`: TTLs of 1 and 2 ticks and a latency of 1 are the smallest with
  `RedisTTL < MongoTTL` in which a snapshot outlives an entry, is copied at its
  end, and a call overtakes an expiry.  Two handlers overlap in `cache_safety`;
  one request slot is used again and again, and two requests are in
  `cache_stale`.  `MaxVersion = 1` makes content old or current, which is all
  `StaleOnlyByRace` tells apart.  Several requests, several keys and more versions
  are covered by the theorem.  `FetchCalls = 3` has a first, a middle and a last call;
  an Ethereum fetch has five, a Solana one as many (`solana-alchemy.strategy.ts:129`,
  133, 173, 175, 196), and the theorem is for any number.  `AgeCap = 7` is above
  `StalenessBound`, so the bound can be exceeded; where no property reads ages it
  is 0.  `Latency` must not be 0 in `cache_liveness`, or an unbroken chain of requests within one instant would
  stop time.
- `SseSubscription`: a store of 4 places holds 2 events, so 3 are enough for one to
  be evicted while a subscriber is away.  `Timeout = 1` and `Stall = 2` let streams
  time out.  Two slots for one browser let its old connection outlive its new one.
- `WebhookCreation`: three callers, one to hold the lock, one to delete it and one to
  come in between; two webhooks, one more than there should be.
- `AddressMonitoring`: in `monitoring_safety` the default address and another one, of
  which only one at a time has a snapshot (`OneAddressAtATime`), for one provider.
  Addresses meet only in a call with several of them, which succeeds or fails as a
  whole; several snapshots of an address, and several addresses, are covered by the
  theorems.  `monitoring_liveness` has an address that is not the default one, whose
  place on the list never ends.
- `WebhookPipeline`: two deliveries, so one clears keys under the other's lookup; two
  webhooks, so the first can change.  The kinds are one that is announced, one
  that is stored only and one that is never accepted.
- `ChainService`: two requests of a class with a mainnet and a testnet, a mainnet of
  a class without prices, and Solana by id.  The endpoints by chain name are asked for
  Ethereum only (`Inputs`): they touch no copy, so no portfolio.  At most two copies are
  made in a behaviour (`MaxCopies`), one for each request; the theorems have no such
  bound.  Two tokens of 0 and 6 decimals on pages of one make a page that is not the
  last and a decimal number that JavaScript takes for missing.  Keys for three of
  four prefixes, one of them for a mainnet only, make some chains unserved; QuickNode
  has a mainnet endpoint only.
- `CHECK_DEADLOCK` is on everywhere.

### Fairness

No module obliges anyone to ask, to deliver or to transact.

- `PortfolioCache`: weak fairness of each request's and each handler's next step
  (every call is answered or rejected: the clients of Redis, MongoDB and the
  providers settle their promises, and the event loop serves all continuations),
  of MongoDB's TTL monitor and of time.  A step need not be a success.
- `WebhookCreation`: weak fairness of each caller's next step and of the lock's expiry.
- `AddressMonitoring`: weak fairness of each pass's next step, success or failure;
  strong fairness of the success of Alchemy's and MongoDB's reads and of the
  update, for the code tries again by night or at the next event and a call that
  fails for ever leaves nothing to promise; weak fairness of the nights and of
  the chain's throttle interval.  The properties assume that restarts end
  (`StaysUp`) and, where the listeners are needed, that events go on
  (`EventsGoOn`).
- `WebhookPipeline`: weak fairness of the POST (Alchemy sends again until it is
  answered), strong fairness of listing, lookup and of a heard answer, under
  `StaysUp`.
- `SseSubscription` and `ChainService` have no liveness property and no fairness.

### Where the code differs from its documentation

Shown by a run:

- `cache_stale`: a request that read the chain before a transaction writes Redis
  and MongoDB after the invalidation for it, and the old content is served
  until its TTL ends.  `caching-strategy.mdc:64` says caches are invalidated in
  time when data changes.
- `webhook_lock`: two callers find no lock before either sets it, and both create.
  The comment at `webhook-management.service.ts:416` says the lock prevents it.
- `monitoring_default`: a client asks for the default address, its snapshot expires,
  and a listener takes the address off Alchemy's list.
  `webhook.constants.ts:7` and `webhook.mdc:57` say it is never removed automatically;
  only the reconciliation checks (`webhook-address-reconciliation.service.ts:135`).
- `chain_router`: an answer of `/chain-id/...` carries the id, symbol and prices of
  the chain that another request turned the shared service to meanwhile
  (`chain-id.controller.ts:14`).

Read off the code while modelling, without a run:

- Alchemy's network of Solana is `SOLANA_MAINNET`, the chain table has `SOL_MAINNET`
  (`chains/constants/index.ts:91`), so `getChainNameFromNetworkId` knows no chain for its
  deliveries and each is answered 401; Polygon and BSC differ likewise.  `KnownNetwork`
  and `GetNetworkIdForChain` of `ChainTables` have the two tables.
  `working-draft.md:147` says Solana works as Ethereum does, and
  `alchemy-network.utils.ts:5` calls the tables a two-way mapping.
- `invalidateAddressSnapshot` sets `expiresAt` to its start also on snapshots that
  expired long ago (`db.service.ts:441`); a query whose `now` was taken just before
  finds them unexpired, against `db.service.ts:50`.
- Each SSE event is stored twice, so 50 rather than 100 events
  (`sse-design.mdc:79`) can be replayed, and the replay starts with the event the
  client named (`sse-subscription.service.ts:652` says after it).  The server's
  own heartbeat refreshes `lastActive`, so a silent client is never disconnected
  (`sse.controller.ts:62`, `sse-design.mdc:49`).
- The controller looks for a network only in four types of event: `TOKEN_ACTIVITY`
  and `GRAPHQL` deliveries are always answered 401, though `webhook.mdc:30` says
  GraphQL is handled.  A signature of 64 characters that are not hexadecimal is
  answered 500 and does not clear the keys.
- A repeated delivery is stored a second time.
- `solana_devnet` is always answered with mainnet balances; `ethereum_goerli` has
  no service; `ChainsController` never compares a chain id with the chain.
- A failing price call fails the request (`priceable-evm-chain.service.ts:85`, `Fail`
  in the model), though the comment two lines above says it does not affect the
  balances.  The
  mock looks lower-case addresses up in a table with checksummed keys, so tokens
  have no price (`mock-price.service.ts:15`).
- A token of zero decimals is given 18 or 9 (`evm-balance.adapter.ts:30`; `OrElse`).
- Tokens and NFTs beyond the first page are left out of an answer without a word:
  `evm-alchemy.strategy.ts:26` and 52 ignore the page key, and
  `evm-quicknode.strategy.ts:85` and 103 ask for one page of 100.
- A portfolio restored from its snapshot has lost every token's address, since the
  services call it `mint` and `cache-mongo.service.ts:78` reads `address`, and a Solana
  token's symbol, name and decimals, which are nested; it then goes to Redis in place of the
  whole one.  `updatedAt` is in milliseconds when restored and in seconds otherwise.
- An answer of QuickNode without tokens or NFTs is cached like a whole one.

## 4. What is proved

Every type invariant, every safety invariant and every action property that a
passing run checks, and the refinement of `EventFeed`: 25 theorems, for every value of the
constants the modules' assumptions allow.  That is any number of requests,
handlers, providers, callers, passes, deliveries, subscribers and connections, any
TTLs, latencies, timeouts and store size, and any set of keys and endpoints.

| Theorem | States | By the invariant |
|---|---|---|
| `PortfolioCacheProofs!TypeCorrect` | `TypeOK` | itself |
| `PortfolioCacheProofs!RaceInvHolds`, `StaleOnlyByRaceHolds` | `RaceInv`, `StaleOnlyByRace` | `RaceInv` |
| `PortfolioAgeProofs!AgeBoundedHolds` | `AgeBounded` | `AgeInv`, with `TypeOK` |
| `WebhookCreationProofs!TypeCorrect`, `CreationInvHolds`, `OneCleanWebhookHolds` | `TypeOK`, `CreationInv`, `OneCleanWebhook` | `CreationInv` |
| `AddressMonitoringProofs!TypeCorrect`, `OnlyListenersDropDefaultHolds`, `FlagTrustedHolds` | `TypeOK`, `OnlyListenersDropDefault`, `FlagTrusted` | `TypeInv`, `NightlySafe`, `TrustInv` |
| `WebhookPipelineProofs!TypeCorrect`, `AcceptedIsAnnouncedHolds`, `RejectionsBoundedHolds` | `TypeOK`, `AcceptedIsAnnounced`, `RejectionsBounded` | `TypeInv`, `RejectionInv` |
| `SseSubscriptionProofs!TypeCorrect`, `ActiveConnectionsExactHolds`, `OpensInOrderHolds`, `CutOffOnlyOverdueHolds`, `NoHoleHolds`, `DeliversAsPromisedHolds` | `TypeOK`, `ActiveConnectionsExact`, `OpensInOrder`, `CutOffOnlyOverdue`, `NoHole`, `DeliversAsPromised` | `Inv`, and `HoleInv` and `Fresh` for the last two |
| `ChainServiceProofs!TypeCorrect`, `FetchedAsAskedHolds`, `PortfolioExactHolds`, `ListsWholeHolds`, `FetchCanAnswerHolds`, `SnapshotKeepsHoldingsHolds` | the invariants of these names | `Inv` |

### Portfolio cache

From `ConstantsAssumption` (TTLs and the number of calls of a fetch are positive,
latency and bounds natural numbers, `None` is no provider).

`StaleOnlyByRace` is not inductive, for it says nothing of the invalidation that
is going on when `floor` rises.  The invariant is `RaceInv`:

- `DeletionsRun`: only a running handler has a deletion to do.
- `RunningMarks`: while a handler runs, every request under way is marked as
  racing, so whatever is written meanwhile is.
- `TargetsSeen`: no handler aims beyond the chain's version, so content read from
  the chain is never below `floor`.
- `BatchCovers`: of the keys SCAN has passed, an unmarked entry is in the batch.
  From it, `UnlinkBatch` leaves only marked entries.
- `RedisCleared`, `MongoCleared`: a store that a running handler has cleared
  holds, from then on, only marked (or expired) content.  From the two,
  `EmitAddressCacheInvalidated` may raise `floor`.
- `OldUnreadable`: an old unmarked snapshot has expired, and by so much that no
  unmarked request's query, however long ago it was built, can find it.  This is
  where the instants matter: a handler sets `expiresAt` to its own start, and a
  query built before that start belongs to a marked request.

`Sound(r)` collects what `RaceInv` says of one request; the lemmas `ReadStep`,
`RedisWrite`, `MongoWrite` and `IssueSound` treat the kinds of request steps,
`EmitRaceStep`, `HandlerRaceStep`, `TickRaceStep` and `EnvironmentRaceStep` the
others, and `RaceStep` puts them together.  TLC checks `RaceInv` in
`cache_safety`.

`AgeBounded` needs `AgeInv`, which counts what content has yet to live against the
bound, at every station of its way: the calls of the fetch after the first and one
more until it is in Redis and its save begins (`Aged`), `MongoTTL` from then on
(`SnapshotAge`), a query that was built before the snapshot expired, the call that copies it back, and `RedisTTL`
(`EntryAge`).  A snapshot may be older than `SnapshotAge` allows once nobody can
read it (`OutOfReach`): no query that is still under way was built early enough to
take it for unexpired.

### Webhook creation

From `ConstantsAssumption` (`MaxWebhooks` is a natural number, `None` is no caller).

`OneCleanWebhook` needs the invariant `CreationInv`: a creator that was never
raced holds the lock (`UnracedHolds`); nobody is about to overwrite it
(`PendingExcludes`), which holds because `GetLock` found no lock and so no such
creator; those that are about to set the lock together are all marked
(`ContendersRaced`); and once a clean webhook exists, who is still creating is
raced or blind (`CleanIsFinal`), because the second look finds the webhook.
`HarmlessMove`, `DeleteLockInv`, `ProceedInv`, `SetLockInv`, `RecheckInv` and
`CreateInv` treat the kinds of steps; `CreateChooses` says which webhooks are
clean after a creation.

### Address monitoring

From `PassesDiffer`: the sweep, the reconciliation and the listeners are different
passes.  `OnlyListenersDropDefault` needs two facts.  Only what a pass is to remove leaves
the list, in the step that ends its call (`ListLosses`); and the reconciliation never
has the default address to look up or to remove (`NightlySafe`), because `Sources`
holds of every step: what it looks up comes from the list without that address, and
what it removes from what it has looked up.  Nothing is assumed of the default
address: clients may ask for it.

`FlagTrusted` is not inductive, because a flag is set several awaits after Alchemy
was told.  `TrustInv` adds what holds in between: of a pass that is about to set
flags, every untainted address is on the list, or the same pass will unset it
again (`MarkJustified`); and two passes in opposite directions have tainted the
address as long as both go on (`OppositionTainted`).  Without the second a removal
could slip in between another pass's answer and its flag.

### Webhook processing and signing keys

From `ConstantsAssumption`: finitely many deliveries, because lookups are counted; at
least one webhook per chain is allowed; `None` is no key.

`RejectionsBounded` bounds a counter, so what is still going to be counted must be
in the invariant: `Accounted(c)` says that the rejections, plus one for a key in
memory that is not the first webhook's (`StaleKeys`), plus the lookups that bring
such a key (`StaleLookups`), are at most one more than the lookups that were under
way when the first webhook changed.  A rejection clears the keys, so it moves one
unit from the second summand to the first; a lookup that ends moves one from the
third to the second; and the list's first webhook changes, in the model as at
Alchemy, by an insertion or removal whose effect on the list the lemmas
`PrependListing`, `AppendListing` and `RemoveListing` describe.

### SSE subscription

From `SseAssumption`: finitely many connections, because they are counted;
the store has room for at least one event; `None` is neither a connection, a browser
nor a number.

The centre is `StoreOK`, the exact shape of the store: it holds the events since
the last restart, each twice, up to its limit, and the event at distance `x` from
its end was published `x \div 2` before the last one.  It is inductive
because publishing stores twice and evicts at the front (`StoreTwiceOK`).  From it
follow that the store is sorted (`StoreSorted`), so that replay and buffer come in
order (`OpeningFacts`); that an id's first position has only the event's own
second copy behind it (`FirstPosition`); and what `GetEventsSince` leaves out
(`EventsSince`).

`NoHole` speaks of subscribers with a running stream only.  `HoleInv` adds what keeps
it true across disconnections: an event that a subscriber wants, has not received,
and that is neither older than the restart nor evicted (`Missed`) finds it without
a stream, and with an id to present that does not hide the event from the replay
(`Ahead`).  `CutOffOnlyOverdue` needs that a running stream has never been idle for
longer than its heartbeat is due, which is part of `ConnOK`; `ActiveConnectionsExact`
is inductive together with the types.

`DeliversAsPromised` is proved step by step from the same invariants (`FeedStep`).  A
stream that opens is a `Join` (`JoinStep`): what it gives is wanted
(`OpeningMatches`), and it is all that is owed, since `HoleInv` holds after the step
as well and `NoHole` with it; that a subscriber's claim starts anew only as long as
it has received nothing is `Fresh`.  Publishing is one `Publish` (`PublishStep`), in which
exactly the running streams that match give the event; a close, a timeout or a peer
that vanishes is a `Leave`, heartbeats and time are stutters (`QuietStep`).

The replay filters the stored events, which is a recursion.  The library's induction
theorems take an operator as a parameter and cannot be used; `SetInduction`, for
a set of numbers instead of a predicate, is proved from the pigeonhole principle
(were `n` the first number missing, adding one would map the set into itself
without 0, one-to-one).  With it `Filter` is shown to have a value (`KeepsExists`), to
yield elements of its argument and to keep its order (`FilterElements`,
`FilterSorted`).  `Filter` is the model's own because the prover cannot expand
`SelectSeq`.

### Chain services, providers, strategies and formats

From `ConfigurationAssumption` (keys and endpoints are of the known kinds),
`HoldingsAssumption` (decimals are natural numbers, a page has room for a token) and
`ServiceAssumption` (ids are positive).  Nothing is assumed of the providers a client
may write.

`FetchedAsAsked`, `PortfolioExact` and `ListsWhole` are about answers; `Inv` says what
must hold while a request waits (`Served`): the network that was asked is the chain's
own, and the copy that serves a portfolio stands for its own chain all the while.
That survives the other requests because every write to a service object is
`Harmless`: to an original, to a copy nobody has used, or to a copy that is set to
its own chain.  The first is why `RouterExact` fails and `PortfolioExact` does not.  An answer that
awaits its quote still names its chain (`Right`), and `PortfolioServed` says that the
field read anew in `QuotePrices` is that chain, and a testnet unless it is Ethereum.
The network is right because the lookup by id inverts the table (`ChainIdsDiffer`,
`Lookup`) and a chain's provider asks that chain or nobody (`NetworkOfChain`: for
QuickNode, whose testnet client may be missing, because it is registered for
`ethereum` alone).

`ListsWhole` comes from `ResultsSound`, one lemma per provider for every way its calls
can end and everything an address may hold (`AlchemySound`, `QuickNodeSound`), which
rests on the agreement of the three modules' lists of chains (`AdapterChoices`);
`FetchCanAnswer` from `AlchemyAnswers` and `QuickNodeAnswers`,
and `SnapshotKeepsHoldings` from `SavedAndRestored`, which follows a portfolio's fields
through both transformations, the schema and back.  These hold of every
response the types allow, not only of those a request has got.

### What stays with TLC

- Liveness: `ActivityAnnounced`, `EventuallyCoherent`, `CallAnswered`, `WebhookComes`,
  `DemandMonitored`, `ForgottenUnmonitored`, `GenuineAccepted`.  They need fairness and
  `ENABLED`, which are outside the prover's reach.
- The four violations, which are counterexamples and need no proof.

## 5. Plan

Modelling is done for the components the table lists, and their safety is proved.
Left, the most important first:

1. The safety half of the liveness properties as theorems: a handler that is not
   idle has announced or will (`ActivityAnnounced`).
2. `AddressMonitoring`: when an address is tainted at all, to say how far
   `FlagTrusted` reaches.
3. `RejectionsBounded` and `GenuineAccepted` for deliveries of two chains, where one
   chain's rejection clears the other's keys; the module has it, the run has one chain.

## 6. Not modelled

- The whole `SseConnection` decorator and `core/redis`: not used.
- Cache keys as strings: `PortfolioCache` takes one address to be spelled in one
  way, so key and deletion pattern agree.  The code does not normalise the
  spelling, and a webhook's lower-case address does not reach the keys of a
  mixed-case one; that is a fact of the inputs, not of a schedule.
- Payloads, formatting, logging, DTO validation, configuration, schemas and
  scripts; prices (a mock); transaction lists and gas estimates, which read one
  provider and keep nothing.
- `createAlchemyStrategy` of the strategy factory, `clearSigningKeyCache` for one
  URL or chain, and the other operations named above that have no caller.
- Several processes sharing Redis and MongoDB behave, for `PortfolioCache` and
  `WebhookCreation`, like more requests, handlers and callers of one process;
  `SseSubscription`, `WebhookPipeline`'s keys and `AddressMonitoring`'s throttles
  are per process, and two processes that sweep or reconcile at the same time are
  not in the model.
