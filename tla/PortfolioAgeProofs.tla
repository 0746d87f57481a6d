------------------------- MODULE PortfolioAgeProofs -------------------------
(***************************************************************************)
(* How old served content can be: AgeBounded of PortfolioCache for every   *)
(* value of the TTLs and the latency, with AgeInv as the inductive         *)
(* invariant.  The bound adds up along the way content takes: the calls of *)
(* the fetch after the first, the one that puts it into Redis, after which *)
(* its save begins, MongoTTL from then on, a query that was built before   *)
(* the snapshot expired, the call that copies it back, and RedisTTL.       *)
(***************************************************************************)
EXTENDS PortfolioCacheProofs

\* How long n calls may take, one after another.
Lasting(n) == n * Latency

\* No query that is unmarked, or yet to be built, can read the snapshot.
OutOfReach(p) ==
    /\ mongo[p].left <= 0
    /\ \A r \in Requests : request[r].pc # "idle" /\ ~request[r].raced =>
          mongo[p].left + request[r].wait <= 0

\* What an entry has yet to live is counted against the bound.
EntryAge ==
    \A p \in Providers : redis[p] # None /\ ~redis[p].raced =>
       redis[p].age + redis[p].left <= StalenessBound + 1

\* The same of a snapshot.  One that has expired long ago, or that an
\* invalidation expired anew, may be older: nobody will read it.
SnapshotAge ==
    \A p \in Providers : mongo[p] # None =>
       \/ mongo[p].age + mongo[p].left <= MongoTTL + Lasting(FetchCalls)
       \/ OutOfReach(p)

\* Content on its way, by the call that is under way.
Aged(r) ==
    /\ request[r].pc = "getRest" =>
          request[r].age <= Lasting(FetchCalls - 1 - request[r].calls) + request[r].wait
    /\ request[r].pc = "cacheSet" =>
          request[r].age <= Lasting(FetchCalls - 1) + request[r].wait
    /\ request[r].pc = "saveSnapshot" =>
          request[r].age <= Lasting(FetchCalls) + request[r].wait
    /\ request[r].pc = "cacheFill" /\ ~request[r].raced =>
          request[r].age < MongoTTL + Lasting(FetchCalls) + Latency + request[r].wait

AgeInv == EntryAge /\ SnapshotAge /\ \A r \in Requests : Aged(r)

-----------------------------------------------------------------------------
\* One call more lasts one latency longer.
LEMMA LastingStep ==
    /\ Lasting(0) = 0
    /\ \A n \in Int : Lasting(n) \in Int /\ Lasting(n + 1) = Lasting(n) + Latency
<1>1. Latency \in Int
  BY ConstantsAssumption
<1>2. 0 * Latency = 0
  BY <1>1
<1>3. ASSUME NEW n \in Int
      PROVE  n * Latency \in Int /\ (n + 1) * Latency = n * Latency + Latency
  BY <1>1
<1> QED BY <1>2, <1>3 DEF Lasting

LEMMA DurationsType ==
    /\ RedisTTL \in Int /\ MongoTTL \in Int /\ Latency \in Int
    /\ RedisTTL >= 1 /\ MongoTTL >= 1 /\ Latency >= 0
    /\ Lasting(FetchCalls) \in Int /\ Lasting(FetchCalls - 1) \in Int
    /\ Lasting(FetchCalls) = Lasting(FetchCalls - 1) + Latency
    /\ StalenessBound = RedisTTL + MongoTTL + Lasting(FetchCalls) + 2 * Latency - 2
<1>1. /\ FetchCalls \in Int /\ FetchCalls - 1 \in Int /\ FetchCalls + 1 \in Int
      /\ (FetchCalls - 1) + 1 = FetchCalls
      /\ (FetchCalls + 1) + 1 = FetchCalls + 2
  BY ConstantsAssumption
<1>2. /\ Lasting(FetchCalls) = Lasting(FetchCalls - 1) + Latency
      /\ Lasting(FetchCalls + 1) = Lasting(FetchCalls) + Latency
      /\ Lasting(FetchCalls + 2) = Lasting(FetchCalls + 1) + Latency
      /\ Lasting(FetchCalls) \in Int /\ Lasting(FetchCalls - 1) \in Int
  BY <1>1, LastingStep
<1>3. StalenessBound = RedisTTL + MongoTTL + Lasting(FetchCalls + 2) - 2
  BY DEF StalenessBound, Lasting
<1> QED BY <1>2, <1>3, ConstantsAssumption

\* The times that the steps compute with are integers.
LEMMA TimesType ==
    ASSUME TypeOK
    PROVE  /\ \A p \in Providers : redis[p] # None =>
                 redis[p].age \in Int /\ redis[p].left \in Int /\ redis[p].left >= 1
           /\ \A p \in Providers : mongo[p] # None =>
                 /\ mongo[p].age \in Int /\ mongo[p].left \in Int
                 /\ mongo[p].left >= -Latency
           /\ \A r \in Requests :
                 /\ request[r].age \in Int /\ request[r].wait \in Int
                 /\ 0 <= request[r].wait /\ request[r].wait <= Latency
<1>1. StoresOK /\ RequestsOK
  BY DEF TypeOK
<1>2. \A p \in Providers : redis[p] # None => redis[p] \in Entries
  BY <1>1 DEF StoresOK
<1>3. \A p \in Providers : mongo[p] # None => mongo[p] \in Snapshots
  BY <1>1 DEF StoresOK
<1>4. \A r \in Requests : request[r] \in RequestStates
  BY <1>1 DEF RequestsOK
<1>5. AgeCap \in Int
  BY ConstantsAssumption
<1> QED BY <1>2, <1>3, <1>4, <1>5, DurationsType DEF Entries, Snapshots, RequestStates

\* Growing older saturates, so it is at most one more.
LEMMA OlderAtMost == ASSUME NEW a \in Int PROVE Older(a) \in Int /\ Older(a) <= a + 1
  BY ConstantsAssumption DEF Older

-----------------------------------------------------------------------------
\* A request that ends or issues its next call takes no snapshot into reach.
LEMMA ReachKept ==
    ASSUME TypeOK, NEW r \in Requests,
           \A q \in Requests \ {r} : request'[q] = request[q],
           request'[r].pc = "idle" \/ request'[r].wait = 0,
           NEW p \in Providers, mongo[p] # None, mongo'[p] = mongo[p], OutOfReach(p)
    PROVE  OutOfReach(p)'
  BY TimesType DEF OutOfReach

LEMMA ReadAgeStep ==
    ASSUME TypeOK, AgeInv, NEW r \in Requests,
           \A q \in Requests \ {r} : request'[q] = request[q],
           request'[r].pc = "idle" \/ request'[r].wait = 0,
           UNCHANGED <<redis, mongo>>, Aged(r)'
    PROVE  AgeInv'
<1>1. EntryAge'
  BY DEF AgeInv, EntryAge
<1>2. SnapshotAge'
  BY ReachKept DEF AgeInv, SnapshotAge
<1>3. \A q \in Requests : Aged(q)'
  BY DEF AgeInv, Aged
<1> QED BY <1>1, <1>2, <1>3 DEF AgeInv

\* Writing an entry with its whole lifetime ahead of it.
LEMMA RedisAgeWrite ==
    ASSUME TypeOK, AgeInv, NEW r \in Requests, request[r].provider \in Providers,
           request[r].raced \/ request[r].age + RedisTTL <= StalenessBound + 1,
           \A q \in Requests \ {r} : request'[q] = request[q],
           request'[r].pc = "idle" \/ request'[r].wait = 0,
           redis' = [redis EXCEPT ![request[r].provider] = Entry(r)],
           UNCHANGED mongo, Aged(r)'
    PROVE  AgeInv'
<1>0. StoresOK
  BY DEF TypeOK
<1>1. \A p \in Providers \ {request[r].provider} : redis'[p] = redis[p]
  BY <1>0 DEF StoresOK
<1>2. /\ redis'[request[r].provider].raced = request[r].raced
      /\ redis'[request[r].provider].age = request[r].age
      /\ redis'[request[r].provider].left = RedisTTL
  BY <1>0 DEF StoresOK, Entry
<1>3. EntryAge'
  BY <1>1, <1>2 DEF AgeInv, EntryAge, StalenessBound
<1>4. SnapshotAge'
  BY ReachKept DEF AgeInv, SnapshotAge
<1>5. \A q \in Requests : Aged(q)'
  BY DEF AgeInv, Aged
<1> QED BY <1>3, <1>4, <1>5 DEF AgeInv

LEMMA RequestAgeStep ==
    ASSUME TypeOK, AgeInv, NEW r \in Requests, RequestStep(r) PROVE AgeInv'
<1>0. RequestsOK /\ StoresOK /\ Aged(r)
  BY DEF TypeOK, AgeInv
<1>1. ASSUME Finish(r)
      PROVE  /\ request'[r].pc = "idle" /\ Aged(r)'
             /\ \A q \in Requests \ {r} : request'[q] = request[q]
  BY <1>0, <1>1, IdleTypes DEF RequestsOK, Finish, Aged
<1>2. ASSUME NEW pc, Issue(r, pc)
      PROVE  /\ request'[r].pc = pc /\ request'[r].wait = 0
             /\ request'[r].age = request[r].age
             /\ \A q \in Requests \ {r} : request'[q] = request[q]
  BY <1>0, <1>2 DEF RequestsOK, RequestStates, Issue
<1>3. CASE CacheGet(r) \/ FailRequest(r)
  <2>1. ASSUME Issue(r, "getSnapshot") PROVE Aged(r)'
    BY <1>2, <2>1 DEF Aged
  <2> QED BY <1>1, <1>2, <1>3, <2>1, ReadAgeStep DEF CacheGet, FailRequest
<1>4. CASE GetPortfolioSnapshot(r)
  <2> DEFINE p == request[r].provider
             doc == mongo[p]
  <2>0. p \in Providers
    BY <1>0, <1>4 DEF RequestsOK, GetPortfolioSnapshot
  <2>1. CASE Unexpired(doc, request[r].wait)
    <3>1. /\ request'[r].pc = "cacheFill" /\ request'[r].wait = 0
          /\ request'[r].age = doc.age
          /\ request'[r].raced = (request[r].raced \/ doc.raced)
          /\ \A q \in Requests \ {r} : request'[q] = request[q]
          /\ UNCHANGED <<redis, mongo>>
      <4> DEFINE mark == request[r].raced \/ doc.raced
      <4>1. /\ request' = [request EXCEPT ![r] =
                  [request[r] EXCEPT !.pc = "cacheFill", !.wait = 0, !.ver = doc.ver,
                                     !.age = doc.age, !.raced = mark]]
            /\ UNCHANGED <<redis, mongo>>
        BY <1>4, <2>1 DEF GetPortfolioSnapshot
      <4> HIDE DEF mark
      <4>2. /\ request'[r].pc = "cacheFill" /\ request'[r].wait = 0
            /\ request'[r].age = doc.age /\ request'[r].raced = mark
            /\ \A q \in Requests \ {r} : request'[q] = request[q]
        BY <1>0, <4>1 DEF RequestsOK, RequestStates
      <4> QED BY <4>1, <4>2 DEF mark
    <3>2. doc # None /\ doc.left + request[r].wait > 0
      BY <2>1 DEF Unexpired
    <3>3. ASSUME ~request'[r].raced
          PROVE  doc.age < MongoTTL + Lasting(FetchCalls) + Latency
      <4>1. ~request[r].raced
        BY <3>1, <3>3
      <4>2. ~OutOfReach(p)
        BY <1>4, <2>0, <3>2, <4>1, TimesType, DurationsType
        DEF OutOfReach, GetPortfolioSnapshot
      <4>3. doc.age + doc.left <= MongoTTL + Lasting(FetchCalls)
        BY <2>0, <3>2, <4>2 DEF AgeInv, SnapshotAge
      <4> QED BY <2>0, <3>2, <4>3, TimesType, DurationsType
    <3>4. Aged(r)'
      BY <2>0, <3>1, <3>2, <3>3, TimesType, DurationsType DEF Aged
    <3> QED BY <3>1, <3>4, ReadAgeStep
  <2>2. CASE ~Unexpired(doc, request[r].wait)
    <3>1. Issue(r, "getBalances") /\ UNCHANGED <<redis, mongo>>
      BY <1>4, <2>2 DEF GetPortfolioSnapshot
    <3>2. Aged(r)'
      BY <1>2, <3>1 DEF Aged
    <3> QED BY <1>2, <3>1, <3>2, ReadAgeStep
  <2> QED BY <2>1, <2>2
<1>5. CASE FillCache(r)
  <2>1. request[r].provider \in Providers
    BY <1>0, <1>5 DEF RequestsOK, FillCache
  <2>2. request[r].raced \/ request[r].age + RedisTTL <= StalenessBound + 1
    BY <1>0, <1>5, TimesType, DurationsType DEF Aged, FillCache
  <2> QED BY <1>1, <1>5, <2>1, <2>2, RedisAgeWrite DEF FillCache
<1>6. CASE GetBalances(r)
  <2> DEFINE n == FetchCalls - 1
  <2>1. FetchCalls - 1 - n = 0 /\ n \in Int /\ (n = 0 => FetchCalls - 1 = 0)
    BY ConstantsAssumption
  <2>2. /\ UNCHANGED <<redis, mongo>>
        /\ request' = [request EXCEPT ![r] =
              [request[r] EXCEPT !.pc = AfterAnswer(n), !.calls = n, !.wait = 0,
                                 !.ver = version, !.age = 0]]
    BY <1>6 DEF GetBalances
  <2> HIDE DEF n
  <2>3. /\ request'[r].pc = AfterAnswer(n) /\ request'[r].calls = n
        /\ request'[r].wait = 0 /\ request'[r].age = 0
        /\ \A q \in Requests \ {r} : request'[q] = request[q]
    BY <1>0, <2>2 DEF RequestsOK, RequestStates
  <2>4. Aged(r)'
    BY <2>1, <2>3, LastingStep DEF Aged, AfterAnswer
  <2> QED BY <2>2, <2>3, <2>4, ReadAgeStep
<1>7. CASE HandlePortfolioUpdate(r)
  <2>1. request[r].provider \in Providers /\ request[r].age <= Lasting(FetchCalls)
    BY <1>0, <1>7, TimesType, DurationsType DEF RequestsOK, Aged, HandlePortfolioUpdate
  <2>2. request[r].age + RedisTTL <= StalenessBound + 1
    BY <2>1, TimesType, DurationsType
  <2>3. Issue(r, "saveSnapshot") /\ UNCHANGED mongo
    BY <1>7 DEF HandlePortfolioUpdate
  <2>4. Aged(r)'
    BY <1>2, <2>1, <2>3, DurationsType, TimesType DEF Aged
  <2> QED BY <1>2, <1>7, <2>1, <2>2, <2>3, <2>4, RedisAgeWrite DEF HandlePortfolioUpdate
<1>8. CASE SavePortfolioSnapshot(r)
  <2> DEFINE p == request[r].provider
  <2>1. /\ p \in Providers /\ UNCHANGED redis /\ Finish(r)
        /\ request[r].age <= Lasting(FetchCalls) + request[r].wait
    BY <1>0, <1>8 DEF RequestsOK, Aged, SavePortfolioSnapshot
  <2>2. /\ \A q \in Providers \ {p} : mongo'[q] = mongo[q]
        /\ mongo'[p].age = request[r].age
        /\ mongo'[p].left = MongoTTL - request[r].wait
    BY <1>0, <1>8, <2>1 DEF StoresOK, Entry, ExpiresIn, SavePortfolioSnapshot
  <2>3. mongo'[p].age + mongo'[p].left <= MongoTTL + Lasting(FetchCalls)
    BY <2>1, <2>2, TimesType, DurationsType
  <2>4. SnapshotAge'
    <3>1. \A q \in Providers \ {p} : mongo[q] # None /\ OutOfReach(q) => OutOfReach(q)'
      BY <1>1, <2>1, <2>2, ReachKept
    <3> QED BY <2>2, <2>3, <3>1 DEF AgeInv, SnapshotAge
  <2>5. EntryAge' /\ \A q \in Requests : Aged(q)'
    BY <1>1, <2>1 DEF AgeInv, EntryAge, Aged
  <2> QED BY <2>4, <2>5 DEF AgeInv
<1>9. CASE GetRest(r)
  <2> DEFINE n == request[r].calls - 1
             spent == FetchCalls - 1 - request[r].calls
  <2>1. /\ request[r].calls \in Int /\ spent \in Int /\ n \in Int
        /\ FetchCalls - 1 - n = spent + 1
        /\ n = 0 => FetchCalls - 1 = spent + 1
    BY <1>0, ConstantsAssumption DEF RequestsOK, RequestStates
  <2>2. /\ UNCHANGED <<redis, mongo>>
        /\ request' = [request EXCEPT ![r] =
              [request[r] EXCEPT !.pc = AfterAnswer(n), !.calls = n, !.wait = 0]]
    BY <1>9 DEF GetRest
  <2>3. request[r].age <= Lasting(spent) + request[r].wait
    BY <1>0, <1>9 DEF Aged, GetRest
  <2> HIDE DEF n, spent
  <2>4. /\ request'[r].pc = AfterAnswer(n) /\ request'[r].calls = n
        /\ request'[r].wait = 0 /\ request'[r].age = request[r].age
        /\ \A q \in Requests \ {r} : request'[q] = request[q]
    BY <1>0, <2>2 DEF RequestsOK, RequestStates
  <2>5. Lasting(spent) \in Int /\ Lasting(spent + 1) = Lasting(spent) + Latency
    BY <2>1, LastingStep
  <2>6. request[r].age <= Lasting(spent + 1) + 0
    BY <2>3, <2>5, TimesType, DurationsType
  <2>7. Aged(r)'
    BY <2>1, <2>4, <2>6 DEF Aged, AfterAnswer
  <2> QED BY <2>2, <2>4, <2>7, ReadAgeStep
<1> QED BY <1>3, <1>4, <1>5, <1>6, <1>7, <1>8, <1>9 DEF RequestStep

\* A handler marks every request before it writes, so what it does to the
\* lifetimes of snapshots concerns only marked ones.
LEMMA HandlerAgeStep ==
    ASSUME TypeOK, RaceInv, AgeInv, NEW h \in Handlers,
           HandleAddressActivity(h) \/ HandlerStep(h)
    PROVE  AgeInv'
<1>0. RequestsOK /\ StoresOK /\ handler[h] \in HandlerStates
  BY DEF TypeOK, HandlersOK
<1>1. CASE HandleAddressActivity(h)
  <2>1. /\ UNCHANGED <<redis, mongo>>
        /\ \A r \in Requests :
              /\ request'[r].pc = request[r].pc
              /\ request'[r].wait = request[r].wait
              /\ request'[r].age = request[r].age
              /\ request'[r].calls = request[r].calls
              /\ request'[r].pc # "idle" => request'[r].raced
    BY <1>0, <1>1 DEF RequestsOK, RequestStates, HandleAddressActivity
  <2>2. EntryAge' /\ SnapshotAge'
    BY <2>1 DEF AgeInv, EntryAge, SnapshotAge, OutOfReach
  <2>3. \A r \in Requests : Aged(r)'
    BY <2>1 DEF AgeInv, Aged
  <2> QED BY <2>2, <2>3 DEF AgeInv
<1>2. CASE InvalidateAddressSnapshot(h)
  <2>1. UNCHANGED <<redis, request>> /\ InvalidationRunning
    BY <1>2 DEF InvalidateAddressSnapshot, RaceInv, DeletionsRun, InvalidationRunning
  <2>2. \A r \in Requests : request[r].pc # "idle" => request[r].raced
    BY <2>1 DEF RaceInv, RunningMarks
  <2>3. \A p \in Providers : mongo'[p] # None =>
           mongo'[p].left = -handler[h].wait /\ mongo[p] # None
    BY <1>0, <1>2 DEF StoresOK, Snapshots, InvalidateAddressSnapshot
  <2>4. -handler[h].wait <= 0
    BY <1>0, ConstantsAssumption DEF HandlerStates
  <2>5. SnapshotAge'
    BY <2>1, <2>2, <2>3, <2>4 DEF SnapshotAge, OutOfReach
  <2>6. EntryAge' /\ \A r \in Requests : Aged(r)'
    BY <2>1 DEF AgeInv, EntryAge, Aged
  <2> QED BY <2>5, <2>6 DEF AgeInv
<1>3. CASE UnlinkBatch(h)
  <2>1. \A p \in Providers : redis'[p] # None => redis'[p] = redis[p]
    BY <1>3 DEF UnlinkBatch
  <2>2. UNCHANGED <<mongo, request>>
    BY <1>3 DEF UnlinkBatch
  <2> QED BY <2>1, <2>2 DEF AgeInv, EntryAge, SnapshotAge, OutOfReach, Aged
<1>4. CASE UNCHANGED <<redis, mongo, request>>
  BY <1>4 DEF AgeInv, EntryAge, SnapshotAge, OutOfReach, Aged
<1> QED
  BY <1>1, <1>2, <1>3, <1>4
  DEF HandlerStep, ScanKey, FailInvalidateSnapshot, FailDeleteByPattern,
      EmitAddressCacheInvalidated

\* What a tick adds to an age it takes from a lifetime or adds to a wait.
LEMMA TickAgeStep ==
    ASSUME TypeOK, AgeInv, Tick PROVE AgeInv'
<1>0. RequestsOK /\ StoresOK
  BY DEF TypeOK
<1>1. \A p \in Providers : redis'[p] # None =>
         /\ redis[p] # None
         /\ redis'[p].raced = redis[p].raced
         /\ redis'[p].left = redis[p].left - 1
         /\ redis'[p].age = Older(redis[p].age)
  BY <1>0 DEF StoresOK, Entries, Tick
<1>2. \A p \in Providers : mongo'[p] # None =>
         /\ mongo[p] # None
         /\ mongo'[p].age = Older(mongo[p].age)
         /\ mongo'[p].left =
               IF mongo[p].left > -Latency THEN mongo[p].left - 1 ELSE mongo[p].left
  <2> SUFFICES ASSUME NEW p \in Providers, mongo[p] # None
               PROVE  /\ mongo'[p].age = Older(mongo[p].age)
                      /\ mongo'[p].left =
                            IF mongo[p].left > -Latency THEN mongo[p].left - 1
                            ELSE mongo[p].left
    BY DEF Tick
  <2> DEFINE less == IF mongo[p].left > -Latency THEN mongo[p].left - 1
                     ELSE mongo[p].left
             older == Older(mongo[p].age)
  <2>1. mongo'[p] = [mongo[p] EXCEPT !.left = less, !.age = older]
    BY DEF Tick
  <2>2. mongo[p] \in Snapshots
    BY <1>0 DEF StoresOK
  <2> HIDE DEF less, older
  <2>3. mongo'[p].left = less /\ mongo'[p].age = older
    BY <2>1, <2>2 DEF Snapshots
  <2> QED BY <2>3 DEF less, older
<1>3. \A r \in Requests :
         /\ request'[r].pc = request[r].pc
         /\ request'[r].calls = request[r].calls
         /\ request'[r].raced = request[r].raced
         /\ request[r].pc # "idle" =>
               request'[r].wait = request[r].wait + 1 /\ request'[r].wait <= Latency
         /\ Carrying(r) => request'[r].age = Older(request[r].age)
  <2> SUFFICES ASSUME NEW r \in Requests, request[r].pc # "idle"
               PROVE  /\ request'[r].pc = request[r].pc
                      /\ request'[r].calls = request[r].calls
                      /\ request'[r].raced = request[r].raced
                      /\ request'[r].wait = request[r].wait + 1
                      /\ request'[r].wait <= Latency
                      /\ Carrying(r) => request'[r].age = Older(request[r].age)
    BY DEF Tick, Carrying
  <2> DEFINE older == IF Carrying(r) THEN Older(request[r].age) ELSE request[r].age
             longer == request[r].wait + 1
  <2>1. request'[r] = [request[r] EXCEPT !.wait = longer, !.age = older]
    BY DEF Tick
  <2>2. request[r] \in RequestStates
    BY <1>0 DEF RequestsOK
  <2>3. longer <= Latency
    <3>1. request[r].wait < Latency
      BY DEF Tick
    <3> QED BY <3>1, TimesType, DurationsType
  <2> HIDE DEF older, longer
  <2>4. /\ request'[r].pc = request[r].pc /\ request'[r].raced = request[r].raced
        /\ request'[r].calls = request[r].calls
        /\ request'[r].wait = longer /\ request'[r].age = older
    BY <2>1, <2>2 DEF RequestStates
  <2> QED BY <2>3, <2>4 DEF older, longer
<1>4. EntryAge'
  <2>1. \A p \in Providers : redis'[p] # None =>
           redis'[p].age + redis'[p].left <= redis[p].age + redis[p].left
    BY <1>1, TimesType, OlderAtMost
  <2>2. \A p \in Providers : redis'[p] # None =>
           redis'[p].age \in Int /\ redis'[p].left \in Int
    BY <1>1, TimesType, OlderAtMost
  <2> QED BY <1>1, <2>1, <2>2, TimesType, DurationsType DEF AgeInv, EntryAge
<1>5. SnapshotAge'
  <2> SUFFICES ASSUME NEW p \in Providers, mongo'[p] # None
               PROVE  \/ mongo'[p].age + mongo'[p].left <= MongoTTL + Lasting(FetchCalls)
                      \/ OutOfReach(p)'
    BY DEF SnapshotAge
  <2>1. CASE mongo[p].left = -Latency
    BY <1>2, <1>3, <2>1, TimesType, DurationsType DEF OutOfReach
  <2>2. CASE mongo[p].left # -Latency
    <3>1. /\ mongo[p] # None /\ mongo'[p].left = mongo[p].left - 1
          /\ mongo'[p].age \in Int /\ mongo'[p].age <= mongo[p].age + 1
      <4>1. Latency \in Int /\ mongo[p].left \in Int /\ mongo[p].left >= -Latency
        BY <1>2, TimesType, DurationsType
      <4>2. mongo'[p].left = mongo[p].left - 1 /\ mongo'[p].age = Older(mongo[p].age)
        BY <1>2, <2>2, <4>1
      <4> QED BY <1>2, <4>2, TimesType, OlderAtMost
    <3>2. CASE OutOfReach(p)
      <4>1. mongo'[p].left <= 0
        BY <3>1, <3>2, TimesType DEF OutOfReach
      <4>2. ASSUME NEW r \in Requests, request'[r].pc # "idle", ~request'[r].raced
            PROVE  mongo'[p].left + request'[r].wait <= 0
        BY <1>3, <3>1, <3>2, <4>2, TimesType DEF OutOfReach
      <4> QED BY <4>1, <4>2 DEF OutOfReach
    <3>3. CASE mongo[p].age + mongo[p].left <= MongoTTL + Lasting(FetchCalls)
      BY <3>1, <3>3, TimesType, DurationsType
    <3> QED BY <3>1, <3>2, <3>3 DEF AgeInv, SnapshotAge
  <2> QED BY <2>1, <2>2
<1>6. \A r \in Requests : Aged(r)'
  <2> SUFFICES ASSUME NEW r \in Requests, Carrying(r) PROVE Aged(r)'
    BY <1>3 DEF Aged, Carrying
  <2>1. /\ request'[r].wait = request[r].wait + 1
        /\ request'[r].age \in Int /\ request'[r].age <= request[r].age + 1
    BY <1>3, TimesType, OlderAtMost DEF Carrying
  <2>2. Aged(r)
    BY DEF AgeInv
  <2>3. Lasting(FetchCalls - 1 - request[r].calls) \in Int
    <3>1. FetchCalls - 1 - request[r].calls \in Int
      BY <1>0, ConstantsAssumption DEF RequestsOK, RequestStates
    <3> QED BY <3>1, LastingStep
  <2> QED BY <1>3, <2>1, <2>2, <2>3, TimesType, DurationsType DEF Aged
<1> QED BY <1>4, <1>5, <1>6 DEF AgeInv

LEMMA AgeStep ==
    ASSUME TypeOK, RaceInv, AgeInv, [Next]_vars PROVE AgeInv'
<1>1. ASSUME NEW r \in Requests, NEW p \in Providers, GetPortfolio(r, p)
      PROVE  AgeInv'
  <2>1. /\ request'[r].pc = "cacheGet" /\ request'[r].wait = 0
        /\ \A q \in Requests \ {r} : request'[q] = request[q]
        /\ UNCHANGED <<redis, mongo>>
    BY <1>1 DEF TypeOK, RequestsOK, GetPortfolio, IdleRequest
  <2>2. Aged(r)'
    BY <2>1 DEF Aged
  <2> QED BY <2>1, <2>2, ReadAgeStep
<1>2. ASSUME NEW p \in Providers, RemoveExpired(p) PROVE AgeInv'
  <2>1. /\ \A q \in Providers : mongo'[q] # None => mongo'[q] = mongo[q]
        /\ UNCHANGED <<redis, request>>
    BY <1>2 DEF RemoveExpired, TypeOK, StoresOK
  <2> QED BY <2>1 DEF AgeInv, EntryAge, SnapshotAge, OutOfReach, Aged
<1>3. CASE Transact \/ UNCHANGED vars
  BY <1>3 DEF Transact, vars, AgeInv, EntryAge, SnapshotAge, OutOfReach, Aged
<1> QED
  BY <1>1, <1>2, <1>3, RequestAgeStep, HandlerAgeStep, TickAgeStep DEF Next

\* Redis serves no content any part of which left the chain longer ago than the
\* two TTLs and the latency of the calls of the fetch and of those between
\* chain, snapshot and cache add up to, unless its way met an invalidation:
\* a snapshot is copied back into Redis with a whole new CACHE_TTL, and that
\* is all that can be added to its expiresAt.
THEOREM AgeBoundedHolds == Spec => []AgeBounded
<1>1. Init => AgeInv
  <2> SUFFICES ASSUME Init PROVE AgeInv
    OBVIOUS
  <2>1. /\ \A r \in Requests : request[r].pc = "idle"
        /\ \A p \in Providers : redis[p] = None /\ mongo[p] = None
    BY IdleTypes DEF Init
  <2> QED BY <2>1 DEF AgeInv, EntryAge, SnapshotAge, Aged
<1>2. TypeOK /\ RaceInv /\ AgeInv /\ [Next]_vars => AgeInv'
  BY AgeStep
<1>3. TypeOK /\ AgeInv => AgeBounded
  BY TimesType, DurationsType DEF AgeInv, EntryAge, AgeBounded
<1> QED BY <1>1, <1>2, <1>3, TypeCorrect, RaceInvHolds, PTL DEF Spec
=============================================================================
