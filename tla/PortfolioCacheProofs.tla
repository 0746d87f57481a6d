------------------------ MODULE PortfolioCacheProofs ------------------------
(***************************************************************************)
(* Theorems about PortfolioCache for every number of requests, handlers    *)
(* and providers and every value of the TTLs, the latency and the bounds.  *)
(***************************************************************************)
EXTENDS PortfolioCache, TLAPS

(* Lemmas about the records the model is built from.                       *)

LEMMA ZeroTypes ==
    /\ 0 \in 0 .. Latency /\ 0 \in 0 .. AgeCap /\ 0 \in 0 .. MaxVersion
    /\ 0 \in 0 .. FetchCalls - 1
  BY ConstantsAssumption

LEMMA IdleTypes ==
    /\ IdleRequest \in RequestStates
    /\ IdleRequest.pc = "idle"
    /\ IdleHandler \in HandlerStates
  BY ConstantsAssumption
  DEF IdleRequest, IdleHandler, RequestStates, HandlerStates

LEMMA RunningType == InvalidationRunning \in BOOLEAN
  BY DEF InvalidationRunning

LEMMA OlderType == ASSUME NEW a \in 0 .. AgeCap PROVE Older(a) \in 0 .. AgeCap
  BY ConstantsAssumption DEF Older

LEMMA NextCall ==
    ASSUME NEW x \in RequestStates,
           NEW pc \in {"getSnapshot", "getBalances", "saveSnapshot"}
    PROVE  [x EXCEPT !.pc = pc, !.wait = 0] \in RequestStates
  BY ZeroTypes DEF RequestStates

LEMMA NewContent ==
    ASSUME NEW x \in RequestStates, NEW pc \in {"cacheFill", "cacheSet"},
           NEW v \in 0 .. MaxVersion, NEW a \in 0 .. AgeCap, NEW b \in BOOLEAN
    PROVE  [x EXCEPT !.pc = pc, !.wait = 0, !.ver = v, !.age = a,
                     !.raced = b] \in RequestStates
  BY ZeroTypes DEF RequestStates

\* An answer of the fetch, with n calls of it left.
LEMMA AnswerTypes ==
    ASSUME NEW x \in RequestStates, NEW n \in 0 .. FetchCalls - 1,
           NEW v \in 0 .. MaxVersion
    PROVE  /\ [x EXCEPT !.pc = AfterAnswer(n), !.calls = n, !.wait = 0,
                        !.ver = v, !.age = 0] \in RequestStates
           /\ [x EXCEPT !.pc = AfterAnswer(n), !.calls = n, !.wait = 0]
                 \in RequestStates
           /\ AfterAnswer(n) = "getRest" => n > 0
           /\ AfterAnswer(n) \in {"getRest", "cacheSet"}
<1>1. AfterAnswer(n) \in {"getRest", "cacheSet"}
  BY DEF AfterAnswer
<1>2. AfterAnswer(n) = "getRest" => n > 0
  BY ConstantsAssumption DEF AfterAnswer
<1> QED BY <1>1, <1>2, ZeroTypes DEF RequestStates

LEMMA SnapshotFields ==
    ASSUME NEW x \in Snapshots, NEW l \in -Latency .. MongoTTL, NEW a \in 0 .. AgeCap
    PROVE  [x EXCEPT !.left = l, !.age = a] \in Snapshots
  BY DEF Snapshots

LEMMA EntryType ==
    ASSUME TypeOK, NEW r \in Requests PROVE Entry(r) \in Entries
  BY ConstantsAssumption DEF TypeOK, RequestsOK, Entry, Entries, RequestStates

\* One request moves on; the others stay as they are.
LEMMA RequestUpdate ==
    ASSUME RequestsOK, NEW r \in Requests, NEW x \in RequestStates,
           x.pc # "idle" => x.provider \in Providers,
           x.pc = "getRest" => x.calls > 0,
           request' = [request EXCEPT ![r] = x]
    PROVE  RequestsOK'
  BY DEF RequestsOK

LEMMA RequestFinish ==
    ASSUME RequestsOK, NEW r \in Requests, Finish(r) PROVE RequestsOK'
  BY IdleTypes, RequestUpdate DEF Finish

LEMMA RequestIssue ==
    ASSUME RequestsOK, NEW r \in Requests, request[r].pc # "idle",
           NEW pc \in {"getSnapshot", "getBalances", "saveSnapshot"}, Issue(r, pc)
    PROVE  RequestsOK'
<1> DEFINE x == [request[r] EXCEPT !.pc = pc, !.wait = 0]
<1>1. x \in RequestStates
  BY NextCall DEF RequestsOK
<1>2. x.provider \in Providers /\ x.pc # "getRest"
  BY DEF RequestsOK, RequestStates
<1>3. request' = [request EXCEPT ![r] = x]
  BY DEF Issue
<1> HIDE DEF x
<1> QED BY <1>1, <1>2, <1>3, RequestUpdate

LEMMA StoreEntry ==
    ASSUME TypeOK, NEW r \in Requests, NEW p \in Providers,
           redis' = [redis EXCEPT ![p] = Entry(r)], mongo' = mongo
    PROVE  StoresOK'
  BY EntryType DEF TypeOK, StoresOK

LEMMA HandlerUpdate ==
    ASSUME HandlersOK, NEW h \in Handlers, NEW x \in HandlerStates,
           handler' = [handler EXCEPT ![h] = x]
    PROVE  HandlersOK'
  BY DEF HandlersOK

-----------------------------------------------------------------------------

\* The records the model builds keep their types, step by step; the theorem
\* covers everything the program keeps about an address.
THEOREM TypeCorrect == Spec => []TypeOK
<1>1. Init => TypeOK
  BY ConstantsAssumption, IdleTypes
  DEF Init, TypeOK, StoresOK, RequestsOK, HandlersOK
<1>2. TypeOK /\ [Next]_vars => TypeOK'
  <2> SUFFICES ASSUME TypeOK, [Next]_vars PROVE TypeOK'
    OBVIOUS
  <2>0. /\ version \in 0 .. MaxVersion /\ floor \in 0 .. MaxVersion
        /\ StoresOK /\ RequestsOK /\ HandlersOK
    BY DEF TypeOK
  <2>1. ASSUME NEW r \in Requests, NEW p \in Providers, GetPortfolio(r, p)
        PROVE  TypeOK'
    <3> DEFINE x == [IdleRequest EXCEPT !.pc = "cacheGet", !.provider = p,
                                        !.raced = InvalidationRunning]
    <3>1. x \in RequestStates /\ x.provider \in Providers /\ x.pc # "getRest"
      BY ZeroTypes, RunningType DEF IdleRequest, RequestStates
    <3>2. request' = [request EXCEPT ![r] = x]
      BY <2>1 DEF GetPortfolio
    <3> HIDE DEF x
    <3>3. RequestsOK'
      BY <2>0, <3>1, <3>2, RequestUpdate
    <3> QED BY <2>0, <2>1, <3>3 DEF GetPortfolio, TypeOK, StoresOK, HandlersOK
  <2>2. ASSUME NEW r \in Requests, RequestStep(r) PROVE TypeOK'
    <3>1. CASE CacheGet(r)
      <4>1. RequestsOK'
        BY <2>0, <3>1, RequestFinish, RequestIssue DEF CacheGet
      <4> QED BY <2>0, <3>1, <4>1 DEF CacheGet, TypeOK, StoresOK, HandlersOK
    <3>2. CASE GetPortfolioSnapshot(r)
      <4> DEFINE doc == mongo[request[r].provider]
      <4>1. CASE Unexpired(doc, request[r].wait)
        <5> DEFINE x == [request[r] EXCEPT !.pc = "cacheFill", !.wait = 0,
                           !.ver = doc.ver, !.age = doc.age,
                           !.raced = @ \/ doc.raced]
        <5>0. request[r] \in RequestStates /\ request[r].provider \in Providers
          BY <2>0, <3>2 DEF GetPortfolioSnapshot, RequestsOK
        <5>1. doc \in Snapshots
          BY <2>0, <4>1, <5>0 DEF Unexpired, StoresOK
        <5>2. (request[r].raced \/ doc.raced) \in BOOLEAN
          OBVIOUS
        <5>3. x \in RequestStates /\ x.provider \in Providers /\ x.pc # "getRest"
          <6>1. doc.ver \in 0 .. MaxVersion /\ doc.age \in 0 .. AgeCap
            BY <5>1 DEF Snapshots
          <6>2. x \in RequestStates
            BY <5>0, <6>1, <5>2, NewContent
          <6> QED BY <5>0, <6>2 DEF RequestStates
        <5>4. request' = [request EXCEPT ![r] = x]
          BY <3>2, <4>1 DEF GetPortfolioSnapshot
        <5> HIDE DEF x
        <5> QED BY <2>0, <5>3, <5>4, <3>2, RequestUpdate
                DEF GetPortfolioSnapshot, TypeOK, StoresOK, HandlersOK
      <4>2. CASE ~Unexpired(doc, request[r].wait)
        <5>1. RequestsOK'
          BY <2>0, <3>2, <4>2, RequestIssue DEF GetPortfolioSnapshot
        <5> QED BY <2>0, <3>2, <5>1 DEF GetPortfolioSnapshot, TypeOK, StoresOK, HandlersOK
      <4> QED BY <4>1, <4>2
    <3>3. CASE FillCache(r)
      <4>1. RequestsOK' /\ StoresOK'
        BY <2>0, <3>3, RequestFinish, StoreEntry DEF FillCache, RequestsOK
      <4> QED BY <2>0, <3>3, <4>1 DEF FillCache, TypeOK, HandlersOK
    <3>4. CASE GetBalances(r)
      <4> DEFINE n == FetchCalls - 1
                 x == [request[r] EXCEPT !.pc = AfterAnswer(n), !.calls = n,
                                         !.wait = 0, !.ver = version, !.age = 0]
      <4>1. n \in 0 .. FetchCalls - 1
        BY ConstantsAssumption
      <4>2. request' = [request EXCEPT ![r] = x]
        BY <3>4 DEF GetBalances
      <4>3. request[r] \in RequestStates /\ request[r].provider \in Providers
        BY <2>0, <3>4 DEF GetBalances, RequestsOK
      <4> HIDE DEF n
      <4>4. x \in RequestStates /\ (AfterAnswer(n) = "getRest" => n > 0)
        BY <2>0, <4>1, <4>3, AnswerTypes
      <4>5. x.provider = request[r].provider /\ x.pc = AfterAnswer(n) /\ x.calls = n
        BY <4>3 DEF RequestStates
      <4> HIDE DEF x
      <4>6. RequestsOK'
        BY <2>0, <4>2, <4>3, <4>4, <4>5, RequestUpdate
      <4> QED BY <2>0, <3>4, <4>6 DEF GetBalances, TypeOK, StoresOK, HandlersOK
    <3>5. CASE HandlePortfolioUpdate(r)
      <4>1. RequestsOK' /\ StoresOK'
        BY <2>0, <3>5, RequestIssue, StoreEntry DEF HandlePortfolioUpdate, RequestsOK
      <4> QED BY <2>0, <3>5, <4>1 DEF HandlePortfolioUpdate, TypeOK, HandlersOK
    <3>6. CASE SavePortfolioSnapshot(r)
      <4>1. [Entry(r) EXCEPT !.left = ExpiresIn(r)] \in Snapshots
        BY <2>0, ConstantsAssumption
        DEF Entry, ExpiresIn, RequestsOK, RequestStates, Snapshots
      <4>2. StoresOK'
        BY <2>0, <3>6, <4>1 DEF SavePortfolioSnapshot, StoresOK
      <4>3. RequestsOK'
        BY <2>0, <3>6, RequestFinish DEF SavePortfolioSnapshot
      <4> QED BY <2>0, <3>6, <4>2, <4>3 DEF SavePortfolioSnapshot, TypeOK, HandlersOK
    <3>7. CASE FailRequest(r)
      <4>1. RequestsOK'
        BY <2>0, <3>7, RequestFinish DEF FailRequest
      <4> QED BY <2>0, <3>7, <4>1 DEF FailRequest, TypeOK, StoresOK, HandlersOK
    <3>8. CASE GetRest(r)
      <4> DEFINE n == request[r].calls - 1
                 x == [request[r] EXCEPT !.pc = AfterAnswer(n), !.calls = n, !.wait = 0]
      <4>1. /\ request[r] \in RequestStates /\ request[r].provider \in Providers
            /\ request[r].calls > 0
        BY <2>0, <3>8 DEF GetRest, RequestsOK
      <4>2. n \in 0 .. FetchCalls - 1
        BY <4>1, ConstantsAssumption DEF RequestStates
      <4>3. request' = [request EXCEPT ![r] = x]
        BY <3>8 DEF GetRest
      <4> HIDE DEF n
      <4>4. x \in RequestStates /\ (AfterAnswer(n) = "getRest" => n > 0)
        BY <2>0, <4>1, <4>2, AnswerTypes
      <4>5. x.provider = request[r].provider /\ x.pc = AfterAnswer(n) /\ x.calls = n
        BY <4>1 DEF RequestStates
      <4> HIDE DEF x
      <4>6. RequestsOK'
        BY <2>0, <4>1, <4>3, <4>4, <4>5, RequestUpdate
      <4> QED BY <2>0, <3>8, <4>6 DEF GetRest, TypeOK, StoresOK, HandlersOK
    <3> QED BY <2>2, <3>1, <3>2, <3>3, <3>4, <3>5, <3>6, <3>7, <3>8 DEF RequestStep
  <2>3. ASSUME NEW h \in Handlers, HandleAddressActivity(h) PROVE TypeOK'
    <3> DEFINE x == [running |-> TRUE, target |-> version, wait |-> 0,
                     scanned |-> {}, batch |-> {}, redis |-> "scan",
                     mongo |-> "pending"]
    <3>1. x \in HandlerStates
      BY <2>0, ConstantsAssumption DEF HandlerStates
    <3>2. handler' = [handler EXCEPT ![h] = x]
      BY <2>3 DEF HandleAddressActivity
    <3> HIDE DEF x
    <3>3. HandlersOK'
      BY <2>0, <3>1, <3>2, HandlerUpdate
    <3>4. RequestsOK'
      <4> DEFINE marked(r) == IF request[r].pc = "idle" THEN request[r]
                              ELSE [request[r] EXCEPT !.raced = TRUE]
      <4>1. request' = [r \in Requests |-> marked(r)]
        BY <2>3 DEF HandleAddressActivity
      <4>2. ASSUME NEW r \in Requests
            PROVE  /\ marked(r) \in RequestStates
                   /\ marked(r).pc = request[r].pc
                   /\ marked(r).provider = request[r].provider
                   /\ marked(r).calls = request[r].calls
        <5>1. request[r] \in RequestStates
          BY <2>0 DEF RequestsOK
        <5> QED BY <5>1 DEF RequestStates
      <4> HIDE DEF marked
      <4> QED BY <2>0, <4>1, <4>2 DEF RequestsOK
    <3> QED BY <2>0, <2>3, <3>3, <3>4 DEF HandleAddressActivity, TypeOK, StoresOK
  <2>4. ASSUME NEW h \in Handlers, HandlerStep(h) PROVE TypeOK'
    <3>0. handler[h] \in HandlerStates
      BY <2>0 DEF HandlersOK
    <3>1. CASE InvalidateAddressSnapshot(h)
      <4>1. [handler[h] EXCEPT !.mongo = "done", !.wait = 0] \in HandlerStates
        BY <3>0, ZeroTypes DEF HandlerStates
      <4>2. HandlersOK'
        BY <2>0, <3>1, <4>1, HandlerUpdate DEF InvalidateAddressSnapshot
      <4>3. ASSUME NEW p \in Providers, mongo[p] # None
            PROVE  [mongo[p] EXCEPT !.left = -handler[h].wait] \in Snapshots
        BY <2>0, <3>0, <4>3, ConstantsAssumption DEF StoresOK, Snapshots, HandlerStates
      <4>4. StoresOK'
        BY <2>0, <3>1, <4>3 DEF InvalidateAddressSnapshot, StoresOK
      <4> QED BY <2>0, <3>1, <4>2, <4>4 DEF InvalidateAddressSnapshot, TypeOK, RequestsOK
    <3>2. ASSUME NEW p \in Providers, ScanKey(h, p) PROVE TypeOK'
      <4> DEFINE x == [handler[h] EXCEPT !.scanned = @ \cup {p},
                         !.batch = IF redis[p] # None THEN @ \cup {p} ELSE @]
      <4>1. x \in HandlerStates
        <5>1. /\ handler[h].scanned \cup {p} \in SUBSET Providers
              /\ (IF redis[p] # None THEN handler[h].batch \cup {p} ELSE handler[h].batch)
                    \in SUBSET Providers
          BY <3>0 DEF HandlerStates
        <5> QED BY <3>0, <5>1 DEF HandlerStates
      <4>2. handler' = [handler EXCEPT ![h] = x]
        BY <3>2 DEF ScanKey
      <4> HIDE DEF x
      <4> QED BY <2>0, <3>2, <4>1, <4>2, HandlerUpdate DEF ScanKey, TypeOK, StoresOK, RequestsOK
    <3>3. CASE UnlinkBatch(h)
      <4>1. [handler[h] EXCEPT !.redis = "done"] \in HandlerStates
        BY <3>0 DEF HandlerStates
      <4>2. HandlersOK'
        BY <2>0, <3>3, <4>1, HandlerUpdate DEF UnlinkBatch
      <4>3. StoresOK'
        BY <2>0, <3>3 DEF UnlinkBatch, StoresOK
      <4> QED BY <2>0, <3>3, <4>2, <4>3 DEF UnlinkBatch, TypeOK, RequestsOK
    <3>4. CASE FailInvalidateSnapshot(h) \/ FailDeleteByPattern(h)
      <4>1. /\ [handler[h] EXCEPT !.redis = "failed"] \in HandlerStates
            /\ [handler[h] EXCEPT !.mongo = "failed", !.wait = 0] \in HandlerStates
        BY <3>0, ZeroTypes DEF HandlerStates
      <4>2. HandlersOK'
        BY <2>0, <3>4, <4>1, HandlerUpdate
        DEF FailInvalidateSnapshot, FailDeleteByPattern
      <4> QED BY <2>0, <3>4, <4>2
              DEF FailInvalidateSnapshot, FailDeleteByPattern,
                  TypeOK, StoresOK, RequestsOK
    <3>5. CASE EmitAddressCacheInvalidated(h)
      <4>1. HandlersOK'
        BY <2>0, <3>5, IdleTypes, HandlerUpdate DEF EmitAddressCacheInvalidated
      <4>2. floor' \in 0 .. MaxVersion
        BY <2>0, <3>0, <3>5 DEF EmitAddressCacheInvalidated, HandlerStates
      <4> QED BY <2>0, <3>5, <4>1, <4>2
              DEF EmitAddressCacheInvalidated, TypeOK, StoresOK, RequestsOK
    <3> QED BY <2>4, <3>1, <3>2, <3>3, <3>4, <3>5 DEF HandlerStep
  <2>5. ASSUME NEW p \in Providers, RemoveExpired(p) PROVE TypeOK'
    BY <2>0, <2>5 DEF RemoveExpired, TypeOK, StoresOK, RequestsOK, HandlersOK
  <2>6. CASE Transact
    BY <2>0, <2>6, ConstantsAssumption
    DEF Transact, TypeOK, StoresOK, RequestsOK, HandlersOK
  <2>7. CASE Tick
    <3>1. redis' \in [Providers -> Entries \cup {None}]
      <4>1. ASSUME NEW p \in Providers, redis[p] # None, redis[p].left # 1
            PROVE  [redis[p] EXCEPT !.left = @ - 1, !.age = Older(@)] \in Entries
        <5>1. redis[p] \in Entries
          BY <2>0, <4>1 DEF StoresOK
        <5>2. redis[p].left - 1 \in 1 .. RedisTTL /\ Older(redis[p].age) \in 0 .. AgeCap
          BY <4>1, <5>1, OlderType, ConstantsAssumption DEF Entries
        <5> QED BY <5>1, <5>2 DEF Entries
      <4> QED BY <2>7, <4>1 DEF Tick
    <3>2. mongo' \in [Providers -> Snapshots \cup {None}]
      <4>1. ASSUME NEW p \in Providers, mongo[p] # None
            PROVE  [mongo[p] EXCEPT !.left = IF @ > -Latency THEN @ - 1 ELSE @,
                                    !.age = Older(@)] \in Snapshots
        <5>1. mongo[p] \in Snapshots
          BY <2>0, <4>1 DEF StoresOK
        <5>2. /\ (IF mongo[p].left > -Latency THEN mongo[p].left - 1 ELSE mongo[p].left)
                    \in -Latency .. MongoTTL
              /\ Older(mongo[p].age) \in 0 .. AgeCap
          BY <5>1, OlderType, ConstantsAssumption DEF Snapshots
        <5> QED BY <5>1, <5>2, SnapshotFields
      <4> QED BY <2>7, <4>1 DEF Tick
    <3>3. RequestsOK'
      <4> DEFINE aged(r) == IF request[r].pc = "idle" THEN request[r]
                            ELSE [request[r] EXCEPT !.wait = @ + 1,
                                    !.age = IF Carrying(r) THEN Older(@) ELSE @]
      <4>1. request' = [r \in Requests |-> aged(r)]
        BY <2>7 DEF Tick
      <4>2. ASSUME NEW r \in Requests
            PROVE  /\ aged(r) \in RequestStates
                   /\ aged(r).pc = request[r].pc
                   /\ aged(r).provider = request[r].provider
                   /\ aged(r).calls = request[r].calls
        <5>1. request[r] \in RequestStates
          BY <2>0 DEF RequestsOK
        <5>2. CASE request[r].pc = "idle"
          BY <5>1, <5>2
        <5>3. CASE request[r].pc # "idle"
          <6>1. (IF Carrying(r) THEN Older(request[r].age) ELSE request[r].age)
                   \in 0 .. AgeCap
            BY <5>1, OlderType DEF RequestStates
          <6>2. request[r].wait < Latency
            BY <2>7, <5>3 DEF Tick
          <6>3. request[r].wait + 1 \in 0 .. Latency
            BY <5>1, <6>2, ConstantsAssumption DEF RequestStates
          <6> QED BY <5>1, <5>3, <6>1, <6>3 DEF RequestStates
        <5> QED BY <5>2, <5>3
      <4> HIDE DEF aged
      <4> QED BY <2>0, <4>1, <4>2 DEF RequestsOK
    <3>4. HandlersOK'
      <4>1. ASSUME NEW h \in Handlers, handler[h].mongo = "pending"
            PROVE  [handler[h] EXCEPT !.wait = @ + 1] \in HandlerStates
        <5>1. handler[h] \in HandlerStates /\ handler[h].wait < Latency
          BY <2>0, <2>7, <4>1 DEF Tick, HandlersOK
        <5>2. handler[h].wait + 1 \in 0 .. Latency
          BY <5>1, ConstantsAssumption DEF HandlerStates
        <5> QED BY <5>1, <5>2 DEF HandlerStates
      <4> QED BY <2>0, <2>7, <4>1 DEF Tick, HandlersOK
    <3> QED BY <2>0, <2>7, <3>1, <3>2, <3>3, <3>4 DEF Tick, TypeOK, StoresOK
  <2>8. CASE UNCHANGED vars
    BY <2>0, <2>8 DEF vars, TypeOK, StoresOK, RequestsOK, HandlersOK
  <2> QED
    BY <2>1, <2>2, <2>3, <2>4, <2>5, <2>6, <2>7, <2>8 DEF Next
<1> QED BY <1>1, <1>2, PTL DEF Spec

-----------------------------------------------------------------------------
(* StaleOnlyByRace, with RaceInv as the inductive invariant.               *)

\* What RaceInv says of one request.
Sound(r) ==
    request[r].pc # "idle" =>
       /\ InvalidationRunning => request[r].raced
       /\ ~request[r].raced =>
             \A p \in Providers :
                mongo[p] # None /\ mongo[p].ver < floor /\ ~mongo[p].raced =>
                   mongo[p].left + request[r].wait <= 0
       /\ Carrying(r) /\ request[r].ver < floor => request[r].raced

LEMMA RaceInvSound == ASSUME RaceInv PROVE \A r \in Requests : Sound(r)
  BY DEF RaceInv, RunningMarks, OldUnreadable, StaleOnlyByRace, Sound, Carrying

\* A step of a request that writes no store.
LEMMA ReadStep ==
    ASSUME RaceInv, UNCHANGED <<version, redis, mongo, handler, floor>>,
           \A r \in Requests : Sound(r)'
    PROVE  RaceInv'
<1>1. DeletionsRun' /\ TargetsSeen' /\ BatchCovers' /\ RedisCleared' /\ MongoCleared'
  BY DEF RaceInv, DeletionsRun, TargetsSeen, BatchCovers, RedisCleared, MongoCleared
<1>2. RunningMarks' /\ OldUnreadable'
  BY DEF RaceInv, RunningMarks, OldUnreadable, StaleOnlyByRace, Sound
<1>3. StaleOnlyByRace'
  BY DEF RaceInv, StaleOnlyByRace, Sound, Carrying
<1> QED BY <1>1, <1>2, <1>3 DEF RaceInv

\* One request moves on to x; what the others are promised does not change.
LEMMA OthersSound ==
    ASSUME RaceInv, RequestsOK, NEW r \in Requests, NEW x,
           request' = [request EXCEPT ![r] = x],
           UNCHANGED <<mongo, handler, floor>>
    PROVE  \A q \in Requests \ {r} : Sound(q)'
  BY RaceInvSound DEF RequestsOK, Sound, InvalidationRunning, Carrying

LEMMA FinishSound ==
    ASSUME RequestsOK, NEW r \in Requests, Finish(r) PROVE Sound(r)'
  BY IdleTypes DEF RequestsOK, Finish, Sound

\* The effect of issuing the next call.
LEMMA IssueEffect ==
    ASSUME RequestsOK, NEW r \in Requests, NEW pc, Issue(r, pc)
    PROVE  /\ request'[r].pc = pc
           /\ request'[r].wait = 0
           /\ request'[r].raced = request[r].raced
           /\ request'[r].ver = request[r].ver
  BY DEF RequestsOK, RequestStates, Issue

LEMMA OldIsExpired ==
    ASSUME TypeOK, RaceInv, NEW p \in Providers,
           mongo[p] # None, mongo[p].ver < floor, ~mongo[p].raced
    PROVE  mongo[p].left \in Int /\ mongo[p].left <= 0
<1>1. mongo[p] \in Snapshots
  BY DEF TypeOK, StoresOK
<1> QED BY <1>1, ConstantsAssumption DEF Snapshots, RaceInv, OldUnreadable

\* Whoever asks for the next time finds what it may read to be current.
LEMMA IssueSound ==
    ASSUME TypeOK, RaceInv, NEW r \in Requests, request[r].pc # "idle",
           NEW pc \in {"getSnapshot", "getBalances"}, Issue(r, pc),
           UNCHANGED <<mongo, handler, floor>>
    PROVE  Sound(r)'
<1>1. RequestsOK /\ Sound(r)
  BY RaceInvSound DEF TypeOK
<1>2. /\ request'[r].wait = 0
      /\ request'[r].raced = request[r].raced
      /\ ~Carrying(r)'
  BY <1>1, IssueEffect DEF Carrying
<1>3. \A p \in Providers :
         mongo[p] # None /\ mongo[p].ver < floor /\ ~mongo[p].raced =>
            mongo[p].left + 0 <= 0
  BY OldIsExpired
<1>4. InvalidationRunning' = InvalidationRunning
  BY DEF InvalidationRunning
<1> QED BY <1>1, <1>2, <1>3, <1>4 DEF Sound

\* Content written to Redis while a handler runs is marked, and old content
\* is marked whenever it is written.
LEMMA RedisWrite ==
    ASSUME TypeOK, RaceInv, NEW r \in Requests, Carrying(r),
           redis' = [redis EXCEPT ![request[r].provider] = Entry(r)],
           UNCHANGED <<version, mongo, handler, floor>>,
           \A q \in Requests : Sound(q)'
    PROVE  RaceInv'
<1>0. /\ StoresOK /\ Sound(r) /\ request[r].pc # "idle"
      /\ request[r].provider \in Providers
  BY RaceInvSound DEF TypeOK, RequestsOK, Carrying
<1>1. \A p \in Providers \ {request[r].provider} : redis'[p] = redis[p]
  BY <1>0 DEF StoresOK
<1>2. /\ redis'[request[r].provider].raced = request[r].raced
      /\ redis'[request[r].provider].ver = request[r].ver
  BY <1>0 DEF StoresOK, Entry
<1>3. InvalidationRunning => request[r].raced
  BY <1>0 DEF Sound
<1>4. request[r].ver < floor => request[r].raced
  BY <1>0 DEF Sound
<1>5. DeletionsRun' /\ TargetsSeen' /\ MongoCleared'
  BY DEF RaceInv, DeletionsRun, TargetsSeen, MongoCleared
<1>6. BatchCovers' /\ RedisCleared'
  BY <1>1, <1>2, <1>3 DEF RaceInv, BatchCovers, RedisCleared, InvalidationRunning
<1>7. RunningMarks' /\ OldUnreadable'
  BY DEF RaceInv, RunningMarks, OldUnreadable, StaleOnlyByRace, Sound
<1>8. StaleOnlyByRace'
  <2>1. \A p \in Providers : redis'[p] # None /\ redis'[p].ver < floor => redis'[p].raced
    BY <1>1, <1>2, <1>4 DEF RaceInv, StaleOnlyByRace
  <2> QED BY <2>1 DEF RaceInv, StaleOnlyByRace, Sound, Carrying
<1> QED BY <1>5, <1>6, <1>7, <1>8 DEF RaceInv

LEMMA MongoWrite ==
    ASSUME TypeOK, RaceInv, NEW r \in Requests, SavePortfolioSnapshot(r)
    PROVE  RaceInv'
<1>0. /\ StoresOK /\ RequestsOK /\ Sound(r) /\ request[r].pc # "idle"
      /\ request[r].provider \in Providers /\ Carrying(r)
      /\ UNCHANGED <<version, redis, handler, floor>>
  BY RaceInvSound DEF TypeOK, RequestsOK, Carrying, SavePortfolioSnapshot
<1>1. \A p \in Providers \ {request[r].provider} : mongo'[p] = mongo[p]
  BY <1>0 DEF StoresOK, SavePortfolioSnapshot
<1>2. /\ mongo'[request[r].provider].raced = request[r].raced
      /\ mongo'[request[r].provider].ver = request[r].ver
  BY <1>0 DEF StoresOK, Entry, SavePortfolioSnapshot
<1>3. InvalidationRunning => request[r].raced
  BY <1>0 DEF Sound
<1>4. request[r].ver < floor => request[r].raced
  BY <1>0 DEF Sound
<1>5. /\ request'[r].pc = "idle"
      /\ \A q \in Requests \ {r} : request'[q] = request[q]
  BY <1>0, IdleTypes DEF RequestsOK, Finish, SavePortfolioSnapshot
<1>6. DeletionsRun' /\ TargetsSeen' /\ BatchCovers' /\ RedisCleared'
  BY <1>0 DEF RaceInv, DeletionsRun, TargetsSeen, BatchCovers, RedisCleared
<1>7. MongoCleared'
  BY <1>0, <1>1, <1>2, <1>3 DEF RaceInv, MongoCleared, InvalidationRunning
<1>8. RunningMarks'
  BY <1>0, <1>5 DEF RaceInv, RunningMarks, InvalidationRunning
<1>9. OldUnreadable'
  BY <1>0, <1>1, <1>2, <1>4, <1>5 DEF RaceInv, OldUnreadable
<1>10. StaleOnlyByRace'
  BY <1>0, <1>1, <1>2, <1>4, <1>5 DEF RaceInv, StaleOnlyByRace, Carrying
<1> QED BY <1>6, <1>7, <1>8, <1>9, <1>10 DEF RaceInv

LEMMA RequestRaceStep ==
    ASSUME TypeOK, RaceInv, NEW r \in Requests,
           \/ \E p \in Providers : GetPortfolio(r, p)
           \/ RequestStep(r)
    PROVE  RaceInv'
<1>0. /\ RequestsOK /\ StoresOK /\ Sound(r)
      /\ floor \in Int /\ version \in Int
      /\ floor <= version
  BY RaceInvSound DEF TypeOK, RaceInv, TargetsSeen
<1>1. ASSUME NEW p \in Providers, GetPortfolio(r, p) PROVE RaceInv'
  <2> DEFINE x == [IdleRequest EXCEPT !.pc = "cacheGet", !.provider = p,
                                      !.raced = InvalidationRunning]
  <2>1. request' = [request EXCEPT ![r] = x]
    BY <1>1 DEF GetPortfolio
  <2>2. request'[r] = x
    BY <1>0, <2>1 DEF RequestsOK
  <2>3. x.pc = "cacheGet" /\ x.wait = 0 /\ x.raced = InvalidationRunning
    BY DEF IdleRequest
  <2> HIDE DEF x
  <2>4. \A q \in Providers :
           mongo[q] # None /\ mongo[q].ver < floor /\ ~mongo[q].raced =>
              mongo[q].left + 0 <= 0
    BY OldIsExpired
  <2>5. InvalidationRunning' = InvalidationRunning
    BY <1>1 DEF GetPortfolio, InvalidationRunning
  <2>6. Sound(r)'
    BY <1>1, <2>2, <2>3, <2>4, <2>5 DEF GetPortfolio, Sound, Carrying
  <2>7. \A q \in Requests \ {r} : Sound(q)'
    BY <1>0, <1>1, <2>1, OthersSound DEF GetPortfolio
  <2> QED BY <1>1, <2>6, <2>7, ReadStep DEF GetPortfolio
<1>2. CASE CacheGet(r)
  <2>1. Sound(r)'
    BY <1>0, <1>2, FinishSound, IssueSound DEF CacheGet
  <2>2. \A q \in Requests \ {r} : Sound(q)'
    BY <1>0, <1>2, OthersSound DEF CacheGet, Finish, Issue
  <2> QED BY <1>2, <2>1, <2>2, ReadStep DEF CacheGet
<1>3. CASE GetPortfolioSnapshot(r)
  <2> DEFINE doc == mongo[request[r].provider]
  <2>1. CASE Unexpired(doc, request[r].wait)
    <3> DEFINE x == [request[r] EXCEPT !.pc = "cacheFill", !.wait = 0,
                       !.ver = doc.ver, !.age = doc.age,
                       !.raced = @ \/ doc.raced]
    <3>1. request' = [request EXCEPT ![r] = x]
      BY <1>3, <2>1 DEF GetPortfolioSnapshot
    <3>2. request'[r] = x
      BY <1>0, <3>1 DEF RequestsOK
    <3>3. /\ x.pc = "cacheFill" /\ x.wait = 0 /\ x.ver = doc.ver
          /\ x.raced = (request[r].raced \/ doc.raced)
      BY <1>0 DEF RequestsOK, RequestStates
    <3> HIDE DEF x
    <3>4. request[r].pc # "idle" /\ request[r].provider \in Providers
      BY <1>0, <1>3 DEF GetPortfolioSnapshot, RequestsOK
    <3>5. /\ doc # None /\ doc.left \in Int /\ request[r].wait \in Int
          /\ doc.left + request[r].wait > 0
      BY <1>0, <2>1, <3>4, ConstantsAssumption
      DEF Unexpired, StoresOK, Snapshots, RequestsOK, RequestStates
    <3>6. doc.ver < floor => request[r].raced \/ doc.raced
      BY <1>0, <3>4, <3>5 DEF Sound
    <3>7. \A q \in Providers :
             mongo[q] # None /\ mongo[q].ver < floor /\ ~mongo[q].raced =>
                mongo[q].left + 0 <= 0
      BY OldIsExpired
    <3>8. InvalidationRunning' = InvalidationRunning
      BY <1>3 DEF GetPortfolioSnapshot, InvalidationRunning
    <3>9. Sound(r)'
      <4>1. InvalidationRunning' => request'[r].raced
        BY <1>0, <3>2, <3>3, <3>4, <3>8 DEF Sound
      <4>2. request'[r].wait = 0 /\ UNCHANGED <<mongo, floor>>
        BY <1>3, <3>2, <3>3 DEF GetPortfolioSnapshot
      <4>3. request'[r].ver < floor' => request'[r].raced
        BY <3>2, <3>3, <3>6, <4>2
      <4> QED BY <3>7, <4>1, <4>2, <4>3 DEF Sound
    <3>10. \A q \in Requests \ {r} : Sound(q)'
      BY <1>0, <1>3, <3>1, OthersSound DEF GetPortfolioSnapshot
    <3> QED BY <1>3, <3>9, <3>10, ReadStep DEF GetPortfolioSnapshot
  <2>2. CASE ~Unexpired(doc, request[r].wait)
    <3>1. request[r].pc # "idle" /\ Issue(r, "getBalances")
      BY <1>3, <2>2 DEF GetPortfolioSnapshot
    <3>2. Sound(r)'
      BY <1>3, <3>1, IssueSound DEF GetPortfolioSnapshot
    <3>3. \A q \in Requests \ {r} : Sound(q)'
      BY <1>0, <1>3, <3>1, OthersSound DEF GetPortfolioSnapshot, Issue
    <3> QED BY <1>3, <3>2, <3>3, ReadStep DEF GetPortfolioSnapshot
  <2> QED BY <2>1, <2>2
<1>4. CASE FillCache(r)
  <2>1. Carrying(r) /\ Sound(r)'
    BY <1>0, <1>4, FinishSound DEF FillCache, Carrying
  <2>2. \A q \in Requests \ {r} : Sound(q)'
    BY <1>0, <1>4, OthersSound DEF FillCache, Finish
  <2> QED BY <1>4, <2>1, <2>2, RedisWrite DEF FillCache
<1>5. CASE GetBalances(r)
  <2> DEFINE n == FetchCalls - 1
             x == [request[r] EXCEPT !.pc = AfterAnswer(n), !.calls = n, !.wait = 0,
                                     !.ver = version, !.age = 0]
  <2>1. request' = [request EXCEPT ![r] = x]
    BY <1>5 DEF GetBalances
  <2> HIDE DEF n
  <2>2. request'[r] = x
    BY <1>0, <2>1 DEF RequestsOK
  <2>3. x.wait = 0 /\ x.ver = version /\ x.raced = request[r].raced
    BY <1>0 DEF RequestsOK, RequestStates
  <2> HIDE DEF x
  <2>4. \A q \in Providers :
           mongo[q] # None /\ mongo[q].ver < floor /\ ~mongo[q].raced =>
              mongo[q].left + 0 <= 0
    BY OldIsExpired
  <2>5. InvalidationRunning => request[r].raced
    BY <1>0, <1>5 DEF GetBalances, Sound
  <2>6. Sound(r)'
    <3>1. InvalidationRunning' => request'[r].raced
      BY <1>5, <2>2, <2>3, <2>5 DEF GetBalances, InvalidationRunning
    <3>2. ~(request'[r].ver < floor')
      BY <1>0, <1>5, <2>2, <2>3 DEF GetBalances
    <3> QED BY <1>5, <2>2, <2>3, <2>4, <3>1, <3>2 DEF GetBalances, Sound
  <2>7. \A q \in Requests \ {r} : Sound(q)'
    BY <1>0, <1>5, <2>1, OthersSound DEF GetBalances
  <2> QED BY <1>5, <2>6, <2>7, ReadStep DEF GetBalances
<1>6. CASE HandlePortfolioUpdate(r)
  <2>1. Carrying(r) /\ request[r].pc # "idle"
    BY <1>6 DEF HandlePortfolioUpdate, Carrying
  <2>2. Sound(r)'
    <3>1. /\ request'[r].wait = 0
          /\ request'[r].raced = request[r].raced
          /\ request'[r].ver = request[r].ver
      BY <1>0, <1>6, IssueEffect DEF HandlePortfolioUpdate
    <3>2. \A q \in Providers :
             mongo[q] # None /\ mongo[q].ver < floor /\ ~mongo[q].raced =>
                mongo[q].left + 0 <= 0
      BY OldIsExpired
    <3>3. InvalidationRunning' = InvalidationRunning
      BY <1>6 DEF HandlePortfolioUpdate, InvalidationRunning
    <3> QED BY <1>0, <1>6, <2>1, <3>1, <3>2, <3>3 DEF HandlePortfolioUpdate, Sound
  <2>3. \A q \in Requests \ {r} : Sound(q)'
    BY <1>0, <1>6, OthersSound DEF HandlePortfolioUpdate, Issue
  <2> QED BY <1>6, <2>1, <2>2, <2>3, RedisWrite DEF HandlePortfolioUpdate
<1>7. CASE SavePortfolioSnapshot(r)
  BY <1>7, MongoWrite
<1>8. CASE FailRequest(r)
  <2>1. Sound(r)'
    BY <1>0, <1>8, FinishSound DEF FailRequest
  <2>2. \A q \in Requests \ {r} : Sound(q)'
    BY <1>0, <1>8, OthersSound DEF FailRequest, Finish
  <2> QED BY <1>8, <2>1, <2>2, ReadStep DEF FailRequest
<1>9. CASE GetRest(r)
  <2> DEFINE n == request[r].calls - 1
             x == [request[r] EXCEPT !.pc = AfterAnswer(n), !.calls = n, !.wait = 0]
  <2>1. request' = [request EXCEPT ![r] = x]
    BY <1>9 DEF GetRest
  <2> HIDE DEF n
  <2>2. request'[r] = x
    BY <1>0, <2>1 DEF RequestsOK
  <2>3. x.wait = 0 /\ x.ver = request[r].ver /\ x.raced = request[r].raced
    BY <1>0 DEF RequestsOK, RequestStates
  <2> HIDE DEF x
  <2>4. \A q \in Providers :
           mongo[q] # None /\ mongo[q].ver < floor /\ ~mongo[q].raced =>
              mongo[q].left + 0 <= 0
    BY OldIsExpired
  <2>5. Carrying(r) /\ request[r].pc # "idle"
    BY <1>9 DEF GetRest, Carrying
  <2>6. Sound(r)'
    <3>1. InvalidationRunning' => request'[r].raced
      BY <1>0, <1>9, <2>2, <2>3, <2>5 DEF GetRest, InvalidationRunning, Sound
    <3>2. request'[r].ver < floor' => request'[r].raced
      BY <1>0, <1>9, <2>2, <2>3, <2>5 DEF GetRest, Sound
    <3> QED BY <1>9, <2>2, <2>3, <2>4, <3>1, <3>2 DEF GetRest, Sound
  <2>7. \A q \in Requests \ {r} : Sound(q)'
    BY <1>0, <1>9, <2>1, OthersSound DEF GetRest
  <2> QED BY <1>9, <2>6, <2>7, ReadStep DEF GetRest
<1> QED BY <1>1, <1>2, <1>3, <1>4, <1>5, <1>6, <1>7, <1>8, <1>9 DEF RequestStep

\* The handler announces that it is done: with both deletions carried out,
\* everything older that is still readable is marked, so the floor may rise.
LEMMA EmitRaceStep ==
    ASSUME TypeOK, RaceInv, NEW h \in Handlers, EmitAddressCacheInvalidated(h)
    PROVE  RaceInv'
<1>0. /\ HandlersOK /\ StoresOK /\ floor \in Int /\ version \in Int
      /\ handler[h] \in HandlerStates /\ handler[h].target \in Int
      /\ handler[h].running /\ InvalidationRunning
      /\ UNCHANGED <<version, redis, mongo, request>>
  BY DEF TypeOK, HandlersOK, HandlerStates, EmitAddressCacheInvalidated, Settled,
         InvalidationRunning
<1>1. /\ \A g \in Handlers \ {h} : handler'[g] = handler[g]
      /\ handler'[h] = IdleHandler
  BY <1>0 DEF HandlersOK, EmitAddressCacheInvalidated
<1>2. /\ ~handler'[h].running /\ handler'[h].target = 0
      /\ handler'[h].redis = "done" /\ handler'[h].mongo = "done"
  BY <1>1 DEF IdleHandler
<1>3. InvalidationRunning' => InvalidationRunning
  BY <1>0
<1>4. floor' # floor =>
         /\ handler[h].redis = "done" /\ handler[h].mongo = "done"
         /\ floor' = handler[h].target
  BY <1>0 DEF EmitAddressCacheInvalidated, Settled, HandlerStates
<1>5. DeletionsRun' /\ BatchCovers' /\ RedisCleared' /\ MongoCleared'
  BY <1>0, <1>1, <1>2
  DEF RaceInv, DeletionsRun, BatchCovers, RedisCleared, MongoCleared
<1>6. TargetsSeen'
  <2>1. 0 <= version
    BY DEF TypeOK
  <2> QED BY <1>0, <1>1, <1>2, <1>4, <2>1 DEF RaceInv, TargetsSeen
<1>7. RunningMarks'
  BY <1>0, <1>3 DEF RaceInv, RunningMarks
<1>8. \A r \in Requests : request[r].pc # "idle" => request[r].raced
  BY <1>0 DEF RaceInv, RunningMarks
<1>9. OldUnreadable'
  <2>1. CASE floor' = floor
    BY <1>0, <2>1 DEF RaceInv, OldUnreadable
  <2>2. CASE floor' # floor
    BY <1>0, <1>4, <1>8, <2>2 DEF RaceInv, OldUnreadable, MongoCleared
  <2> QED BY <2>1, <2>2
<1>10. StaleOnlyByRace'
  <2>1. CASE floor' = floor
    BY <1>0, <2>1 DEF RaceInv, StaleOnlyByRace, Carrying
  <2>2. CASE floor' # floor
    <3>1. \A p \in Providers : redis[p] # None => redis[p].raced
      BY <1>0, <1>4, <2>2 DEF RaceInv, RedisCleared
    <3>2. \A p \in Providers : mongo[p] # None /\ mongo[p].left > 0 => mongo[p].raced
      <4> SUFFICES ASSUME NEW p \in Providers, mongo[p] # None, mongo[p].left > 0
                   PROVE  mongo[p].raced
        OBVIOUS
      <4>1. mongo[p].left \in Int
        BY <1>0, ConstantsAssumption DEF StoresOK, Snapshots
      <4> QED BY <1>0, <1>4, <2>2, <4>1 DEF RaceInv, MongoCleared
    <3> QED BY <1>0, <1>8, <3>1, <3>2 DEF StaleOnlyByRace, Carrying
  <2> QED BY <2>1, <2>2
<1> QED BY <1>5, <1>6, <1>7, <1>9, <1>10 DEF RaceInv

LEMMA HandlerRaceStep ==
    ASSUME TypeOK, RaceInv, NEW h \in Handlers,
           HandleAddressActivity(h) \/ HandlerStep(h)
    PROVE  RaceInv'
<1>0. HandlersOK /\ RequestsOK /\ StoresOK /\ handler[h] \in HandlerStates
  BY DEF TypeOK, HandlersOK
<1>1. CASE HandleAddressActivity(h)
  <2>1. /\ handler'[h].target = version
        /\ handler'[h].scanned = {} /\ handler'[h].running
        /\ handler'[h].redis = "scan" /\ handler'[h].mongo = "pending"
        /\ \A g \in Handlers \ {h} : handler'[g] = handler[g]
        /\ UNCHANGED <<version, redis, mongo, floor>>
    BY <1>0, <1>1 DEF HandlersOK, HandleAddressActivity
  <2>2. \A r \in Requests :
           /\ request'[r].pc = request[r].pc /\ request'[r].ver = request[r].ver
           /\ request'[r].pc # "idle" => request'[r].raced
           /\ request[r].raced /\ request[r].pc # "idle" => request'[r].raced
    BY <1>0, <1>1 DEF RequestsOK, RequestStates, HandleAddressActivity
  <2>3. version \in Int /\ floor \in Int
    BY DEF TypeOK
  <2>4. DeletionsRun' /\ TargetsSeen'
    BY <2>1, <2>3 DEF RaceInv, DeletionsRun, TargetsSeen
  <2>5. BatchCovers' /\ RedisCleared' /\ MongoCleared'
    BY <2>1 DEF RaceInv, BatchCovers, RedisCleared, MongoCleared
  <2>6. RunningMarks' /\ OldUnreadable'
    BY <2>1, <2>2 DEF RaceInv, RunningMarks, OldUnreadable
  <2>7. StaleOnlyByRace'
    BY <2>1, <2>2 DEF RaceInv, StaleOnlyByRace, Carrying
  <2> QED BY <2>4, <2>5, <2>6, <2>7 DEF RaceInv
<1>2. CASE InvalidateAddressSnapshot(h)
  <2>1. /\ \A g \in Handlers :
             /\ handler'[g].running = handler[g].running
             /\ handler'[g].target = handler[g].target
             /\ handler'[g].scanned = handler[g].scanned
             /\ handler'[g].batch = handler[g].batch
             /\ handler'[g].redis = handler[g].redis
             /\ handler'[g].mongo = "pending" => handler[g].mongo = "pending"
        /\ UNCHANGED <<version, redis, request, floor>>
    BY <1>0, <1>2 DEF HandlersOK, HandlerStates, InvalidateAddressSnapshot
  <2>2. \A p \in Providers : mongo'[p] # None =>
           /\ mongo[p] # None /\ mongo'[p].raced = mongo[p].raced
           /\ mongo'[p].ver = mongo[p].ver
           /\ mongo'[p].left \in Int /\ mongo'[p].left <= 0
    BY <1>0, <1>2, ConstantsAssumption
    DEF StoresOK, Snapshots, HandlerStates, InvalidateAddressSnapshot
  <2>3. InvalidationRunning
    BY <1>2 DEF InvalidateAddressSnapshot, RaceInv, DeletionsRun, InvalidationRunning
  <2>4. \A r \in Requests : request[r].pc # "idle" => request[r].raced
    BY <2>3 DEF RaceInv, RunningMarks
  <2>5. DeletionsRun' /\ TargetsSeen' /\ BatchCovers' /\ RedisCleared'
    BY <2>1 DEF RaceInv, DeletionsRun, TargetsSeen, BatchCovers, RedisCleared
  <2>6. MongoCleared' /\ RunningMarks' /\ OldUnreadable'
    BY <2>1, <2>2, <2>4 DEF MongoCleared, RunningMarks, OldUnreadable
  <2>7. StaleOnlyByRace'
    BY <2>1, <2>2, <2>4 DEF RaceInv, StaleOnlyByRace, Carrying
  <2> QED BY <2>5, <2>6, <2>7 DEF RaceInv
<1>3. ASSUME NEW q \in Providers, ScanKey(h, q) PROVE RaceInv'
  <2>1. /\ \A g \in Handlers :
             /\ handler'[g].running = handler[g].running
             /\ handler'[g].target = handler[g].target
             /\ handler'[g].redis = handler[g].redis
             /\ handler'[g].mongo = handler[g].mongo
             /\ handler[g].batch \subseteq handler'[g].batch
        /\ UNCHANGED <<version, redis, mongo, request, floor>>
    BY <1>0, <1>3 DEF HandlersOK, HandlerStates, ScanKey
  <2>2. \A g \in Handlers : \A p \in handler'[g].scanned :
           \/ p \in handler[g].scanned
           \/ redis[p] # None => p \in handler'[g].batch
    BY <1>0, <1>3 DEF HandlersOK, HandlerStates, ScanKey
  <2>3. DeletionsRun' /\ TargetsSeen' /\ RedisCleared' /\ MongoCleared'
    BY <2>1 DEF RaceInv, DeletionsRun, TargetsSeen, RedisCleared, MongoCleared
  <2>4. BatchCovers'
    BY <2>1, <2>2 DEF RaceInv, BatchCovers
  <2>5. RunningMarks' /\ OldUnreadable' /\ StaleOnlyByRace'
    BY <2>1
    DEF RaceInv, RunningMarks, InvalidationRunning, OldUnreadable, StaleOnlyByRace, Carrying
  <2> QED BY <2>3, <2>4, <2>5 DEF RaceInv
<1>4. CASE UnlinkBatch(h)
  <2>1. /\ \A g \in Handlers :
             /\ handler'[g].running = handler[g].running
             /\ handler'[g].target = handler[g].target
             /\ handler'[g].scanned = handler[g].scanned
             /\ handler'[g].batch = handler[g].batch
             /\ handler'[g].mongo = handler[g].mongo
        /\ \A g \in Handlers \ {h} : handler'[g].redis = handler[g].redis
        /\ handler'[h].redis = "done"
        /\ UNCHANGED <<version, mongo, request, floor>>
    BY <1>0, <1>4 DEF HandlersOK, HandlerStates, UnlinkBatch
  <2>2. \A p \in Providers : redis'[p] # None =>
           redis'[p] = redis[p] /\ redis[p] # None /\ p \notin handler[h].batch
    BY <1>4 DEF UnlinkBatch
  <2>3. handler[h].running /\ handler[h].redis = "scan" /\ handler[h].scanned = Providers
    BY <1>4 DEF UnlinkBatch, ScanOver, RaceInv, DeletionsRun
  <2>4. \A p \in Providers : redis'[p] # None => redis'[p].raced
    BY <2>2, <2>3 DEF RaceInv, BatchCovers
  <2>5. BatchCovers'
    <3>1. \A g \in Handlers : handler[g].scanned \subseteq Providers
      BY <1>0 DEF HandlersOK, HandlerStates
    <3> QED BY <2>1, <2>4, <3>1 DEF BatchCovers
  <2>6. DeletionsRun' /\ TargetsSeen' /\ RedisCleared' /\ MongoCleared'
    BY <2>1, <2>4 DEF RaceInv, DeletionsRun, TargetsSeen, RedisCleared, MongoCleared
  <2>7. RunningMarks' /\ OldUnreadable'
    BY <2>1 DEF RaceInv, RunningMarks, InvalidationRunning, OldUnreadable
  <2>8. StaleOnlyByRace'
    BY <2>1, <2>4 DEF RaceInv, StaleOnlyByRace, Carrying
  <2> QED BY <2>5, <2>6, <2>7, <2>8 DEF RaceInv
<1>5. CASE FailInvalidateSnapshot(h) \/ FailDeleteByPattern(h)
  <2>1. /\ \A g \in Handlers :
             /\ handler'[g].running = handler[g].running
             /\ handler'[g].target = handler[g].target
             /\ handler'[g].scanned = handler[g].scanned
             /\ handler'[g].batch = handler[g].batch
             /\ handler'[g].redis \in {handler[g].redis, "failed"}
             /\ handler'[g].mongo \in {handler[g].mongo, "failed"}
        /\ UNCHANGED <<version, redis, mongo, request, floor>>
    <3>1. ASSUME FailInvalidateSnapshot(h)
          PROVE  /\ \A g \in Handlers \ {h} : handler'[g] = handler[g]
                 /\ handler'[h] = [handler[h] EXCEPT !.mongo = "failed", !.wait = 0]
                 /\ UNCHANGED <<version, redis, mongo, request, floor>>
      BY <1>0, <3>1 DEF HandlersOK, FailInvalidateSnapshot
    <3>2. ASSUME FailDeleteByPattern(h)
          PROVE  /\ \A g \in Handlers \ {h} : handler'[g] = handler[g]
                 /\ handler'[h] = [handler[h] EXCEPT !.redis = "failed"]
                 /\ UNCHANGED <<version, redis, mongo, request, floor>>
      BY <1>0, <3>2 DEF HandlersOK, FailDeleteByPattern
    <3>3. CASE FailInvalidateSnapshot(h)
      <4>1. /\ handler'[h].running = handler[h].running
            /\ handler'[h].target = handler[h].target
            /\ handler'[h].scanned = handler[h].scanned
            /\ handler'[h].batch = handler[h].batch
            /\ handler'[h].redis = handler[h].redis /\ handler'[h].mongo = "failed"
        BY <1>0, <3>1, <3>3 DEF HandlerStates
      <4> QED BY <3>1, <3>3, <4>1
    <3>4. CASE FailDeleteByPattern(h)
      <4>1. /\ handler'[h].running = handler[h].running
            /\ handler'[h].target = handler[h].target
            /\ handler'[h].scanned = handler[h].scanned
            /\ handler'[h].batch = handler[h].batch
            /\ handler'[h].mongo = handler[h].mongo /\ handler'[h].redis = "failed"
        BY <1>0, <3>2, <3>4 DEF HandlerStates
      <4> QED BY <3>2, <3>4, <4>1
    <3> QED BY <1>5, <3>3, <3>4
  <2>2. DeletionsRun' /\ TargetsSeen' /\ BatchCovers' /\ RedisCleared' /\ MongoCleared'
    BY <2>1 DEF RaceInv, DeletionsRun, TargetsSeen, BatchCovers, RedisCleared, MongoCleared
  <2>3. RunningMarks' /\ OldUnreadable' /\ StaleOnlyByRace'
    BY <2>1
    DEF RaceInv, RunningMarks, InvalidationRunning, OldUnreadable, StaleOnlyByRace, Carrying
  <2> QED BY <2>2, <2>3 DEF RaceInv
<1>6. CASE EmitAddressCacheInvalidated(h)
  BY <1>6, EmitRaceStep
<1> QED
  BY <1>1, <1>2, <1>3, <1>4, <1>5, <1>6 DEF HandlerStep

LEMMA TickRaceStep ==
    ASSUME TypeOK, RaceInv, Tick PROVE RaceInv'
<1>0. RequestsOK /\ StoresOK /\ HandlersOK /\ UNCHANGED <<version, floor>>
  BY DEF TypeOK, Tick
<1>1. \A h \in Handlers :
         /\ handler'[h].running = handler[h].running
         /\ handler'[h].target = handler[h].target
         /\ handler'[h].scanned = handler[h].scanned
         /\ handler'[h].batch = handler[h].batch
         /\ handler'[h].redis = handler[h].redis
         /\ handler'[h].mongo = handler[h].mongo
  BY <1>0 DEF HandlersOK, HandlerStates, Tick
<1>2. \A p \in Providers : redis'[p] # None =>
         /\ redis[p] # None
         /\ redis'[p].raced = redis[p].raced
         /\ redis'[p].ver = redis[p].ver
  BY <1>0 DEF StoresOK, Entries, Tick
<1>3. \A p \in Providers : mongo'[p] # None =>
         /\ mongo[p] # None
         /\ mongo'[p].raced = mongo[p].raced
         /\ mongo'[p].ver = mongo[p].ver
         /\ mongo[p].left \in Int
         /\ mongo'[p].left =
               IF mongo[p].left > -Latency THEN mongo[p].left - 1 ELSE mongo[p].left
  <2> SUFFICES ASSUME NEW p \in Providers, mongo[p] # None, mongo'[p] # None
               PROVE  /\ mongo'[p].raced = mongo[p].raced
                      /\ mongo'[p].ver = mongo[p].ver
                      /\ mongo[p].left \in Int
                      /\ mongo'[p].left =
                            IF mongo[p].left > -Latency THEN mongo[p].left - 1
                            ELSE mongo[p].left
    BY DEF Tick
  <2> DEFINE less == IF mongo[p].left > -Latency THEN mongo[p].left - 1
                     ELSE mongo[p].left
             older == Older(mongo[p].age)
  <2>1. mongo'[p] = [mongo[p] EXCEPT !.left = less, !.age = older]
    BY DEF Tick
  <2>2. mongo[p] \in Snapshots
    BY <1>0 DEF StoresOK
  <2>3. mongo[p].left \in Int
    BY <2>2, ConstantsAssumption DEF Snapshots
  <2> HIDE DEF older
  <2> QED BY <2>1, <2>2, <2>3 DEF Snapshots
<1>4. \A r \in Requests :
         /\ request'[r].pc = request[r].pc
         /\ request'[r].ver = request[r].ver
         /\ request'[r].raced = request[r].raced
         /\ request'[r].pc # "idle" =>
               /\ request[r].wait \in Int /\ request[r].wait < Latency
               /\ request'[r].wait = request[r].wait + 1
  <2> SUFFICES ASSUME NEW r \in Requests, request[r].pc # "idle"
               PROVE  /\ request'[r].pc = request[r].pc
                      /\ request'[r].ver = request[r].ver
                      /\ request'[r].raced = request[r].raced
                      /\ request[r].wait \in Int /\ request[r].wait < Latency
                      /\ request'[r].wait = request[r].wait + 1
    BY DEF Tick
  <2> DEFINE older == IF Carrying(r) THEN Older(request[r].age) ELSE request[r].age
  <2>1. request'[r] = [request[r] EXCEPT !.wait = request[r].wait + 1, !.age = older]
    BY DEF Tick
  <2>2. request[r] \in RequestStates
    BY <1>0 DEF RequestsOK
  <2> HIDE DEF older
  <2>3. request[r].wait \in Int /\ request[r].wait < Latency
    <3>1. request[r].wait < Latency
      BY DEF Tick
    <3> QED BY <2>2, <3>1, ConstantsAssumption DEF RequestStates
  <2> QED BY <2>1, <2>2, <2>3 DEF RequestStates
<1>5. DeletionsRun' /\ TargetsSeen' /\ BatchCovers' /\ RedisCleared'
  <2>1. \A h \in Handlers : handler[h].scanned \subseteq Providers
    BY <1>0 DEF HandlersOK, HandlerStates
  <2>2. DeletionsRun' /\ TargetsSeen'
    BY <1>0, <1>1 DEF RaceInv, DeletionsRun, TargetsSeen
  <2>3. BatchCovers' /\ RedisCleared'
    BY <1>1, <1>2, <2>1 DEF RaceInv, BatchCovers, RedisCleared
  <2> QED BY <2>2, <2>3
<1>6. MongoCleared'
  <2>1. \A p \in Providers : mongo'[p] # None /\ mongo[p].left <= 0 => mongo'[p].left <= 0
    BY <1>3, ConstantsAssumption
  <2> QED BY <1>1, <1>3, <2>1 DEF RaceInv, MongoCleared
<1>7. RunningMarks'
  BY <1>1, <1>4 DEF RaceInv, RunningMarks, InvalidationRunning
<1>8. OldUnreadable'
  <2> SUFFICES ASSUME NEW p \in Providers,
                      mongo'[p] # None, mongo'[p].ver < floor', ~mongo'[p].raced
               PROVE  /\ mongo'[p].left <= 0
                      /\ \A r \in Requests :
                            request'[r].pc # "idle" /\ ~request'[r].raced =>
                               mongo'[p].left + request'[r].wait <= 0
    BY DEF OldUnreadable
  <2>1. mongo[p].left <= 0
    BY <1>0, <1>3 DEF RaceInv, OldUnreadable
  <2>2. ASSUME NEW r \in Requests, request'[r].pc # "idle", ~request'[r].raced
        PROVE  mongo'[p].left + request'[r].wait <= 0
    <3>1. mongo[p].left + request[r].wait <= 0
      BY <1>0, <1>3, <1>4, <2>2 DEF RaceInv, OldUnreadable
    <3> QED BY <1>3, <1>4, <2>2, <3>1, ConstantsAssumption
  <2> QED BY <1>3, <2>1, <2>2
<1>9. StaleOnlyByRace'
  <2>1. \A p \in Providers : mongo'[p] # None /\ mongo'[p].left > 0 =>
           mongo[p] # None /\ mongo[p].left > 0
    BY <1>3, ConstantsAssumption
  <2> QED BY <1>0, <1>2, <1>3, <1>4, <2>1 DEF RaceInv, StaleOnlyByRace, Carrying
<1> QED BY <1>5, <1>6, <1>7, <1>8, <1>9 DEF RaceInv

LEMMA EnvironmentRaceStep ==
    ASSUME TypeOK, RaceInv,
           (\E p \in Providers : RemoveExpired(p)) \/ Transact
    PROVE  RaceInv'
<1>1. ASSUME NEW p \in Providers, RemoveExpired(p) PROVE RaceInv'
  <2>1. /\ \A q \in Providers : mongo'[q] # None => mongo'[q] = mongo[q] /\ mongo[q] # None
        /\ UNCHANGED <<version, redis, request, handler, floor>>
    BY <1>1 DEF RemoveExpired, TypeOK, StoresOK
  <2>2. DeletionsRun' /\ TargetsSeen' /\ BatchCovers' /\ RedisCleared' /\ MongoCleared'
    BY <2>1 DEF RaceInv, DeletionsRun, TargetsSeen, BatchCovers, RedisCleared, MongoCleared
  <2>3. RunningMarks' /\ OldUnreadable' /\ StaleOnlyByRace'
    BY <2>1
    DEF RaceInv, RunningMarks, InvalidationRunning, OldUnreadable, StaleOnlyByRace, Carrying
  <2> QED BY <2>2, <2>3 DEF RaceInv
<1>2. CASE Transact
  <2>1. /\ version' = version + 1 /\ version \in Int /\ floor \in Int
        /\ \A h \in Handlers : handler[h].target \in Int
        /\ UNCHANGED <<redis, mongo, request, handler, floor>>
    BY <1>2 DEF Transact, TypeOK, HandlersOK, HandlerStates
  <2>2. DeletionsRun' /\ TargetsSeen' /\ BatchCovers' /\ RedisCleared' /\ MongoCleared'
    BY <2>1 DEF RaceInv, DeletionsRun, TargetsSeen, BatchCovers, RedisCleared, MongoCleared
  <2>3. RunningMarks' /\ OldUnreadable' /\ StaleOnlyByRace'
    BY <2>1
    DEF RaceInv, RunningMarks, InvalidationRunning, OldUnreadable, StaleOnlyByRace, Carrying
  <2> QED BY <2>2, <2>3 DEF RaceInv
<1> QED BY <1>1, <1>2

LEMMA RaceStep ==
    ASSUME TypeOK, RaceInv, [Next]_vars PROVE RaceInv'
<1>1. CASE Next
  BY <1>1, RequestRaceStep, HandlerRaceStep, TickRaceStep, EnvironmentRaceStep DEF Next
<1>2. CASE UNCHANGED vars
  BY <1>2
  DEF vars, RaceInv, DeletionsRun, RunningMarks, InvalidationRunning, TargetsSeen,
      BatchCovers, RedisCleared, MongoCleared, OldUnreadable, StaleOnlyByRace, Carrying
<1> QED BY <1>1, <1>2

LEMMA RaceInit == ASSUME Init PROVE RaceInv
<1>1. /\ \A h \in Handlers : handler[h] = IdleHandler
      /\ \A r \in Requests : request[r].pc = "idle"
      /\ \A p \in Providers : redis[p] = None /\ mongo[p] = None
      /\ version = 0 /\ floor = 0
  BY IdleTypes DEF Init
<1> QED BY <1>1
        DEF IdleHandler, RaceInv, DeletionsRun, RunningMarks, InvalidationRunning,
            TargetsSeen, BatchCovers, RedisCleared, MongoCleared, OldUnreadable,
            StaleOnlyByRace, Carrying

\* Why no older content survives at rest: only running handlers delete, requests
\* under way meanwhile are marked, a scan misses only what was written behind it,
\* what a handler has cleared is filled again only by marked requests, and a
\* snapshot that was expired is out of the reach of every query built since.
THEOREM RaceInvHolds == Spec => []RaceInv
<1>1. Init => RaceInv
  BY RaceInit
<1>2. TypeOK /\ RaceInv /\ [Next]_vars => RaceInv'
  BY RaceStep
<1> QED BY <1>1, <1>2, TypeCorrect, PTL DEF Spec

\* Content older than a completed handleAddressActivity is found in Redis, in a
\* readable snapshot or on its way into either only if it was read while an
\* invalidation was running or overlapped one on its way: for any number of
\* requests, handlers and providers, any TTLs and any latency.
THEOREM StaleOnlyByRaceHolds == Spec => []StaleOnlyByRace
<1>1. RaceInv => StaleOnlyByRace
  BY DEF RaceInv
<1> QED BY <1>1, RaceInvHolds, PTL
=============================================================================
