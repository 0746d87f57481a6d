----------------------- MODULE AddressMonitoringProofs -----------------------
(***************************************************************************)
(* Theorems about AddressMonitoring for any addresses, providers and       *)
(* listeners.                                                              *)
(***************************************************************************)
EXTENDS AddressMonitoring, TLAPS

Places ==
    {"idle", "save", "isActive", "isMonitored", "getActive", "getExpired",
     "list", "getDetails", "find", "update", "mark", "unmark"}

SnapshotsOK ==
    /\ snapshot \in [Snapshots -> SnapshotStates]
    /\ \A d \in Snapshots : snapshot[d].state = "absent" => ~snapshot[d].monitored

\* From its second question on a per-address listener has an address to add or
\* to remove: why updateWebhookAddresses is not called with nothing to do.
HasWork(i) ==
    pass[i].pc \in {"isMonitored", "update"} => pass[i].add \cup pass[i].remove # {}

PassesOK ==
    /\ pass \in [Passes -> PassStates]
    /\ \A i \in Passes : HasWork(i)

TypeInv == TypeOK /\ PassesOK

-----------------------------------------------------------------------------
LEMMA AddressOf == ASSUME NEW d \in Snapshots PROVE d[1] \in Addresses
  BY DEF Snapshots

LEMMA IdleType == Idle \in PassStates /\ Idle.pc = "idle"
  BY DEF Idle, PassStates

LEMMA NamedPasses == Sweep \in Passes /\ Nightly \in Passes /\ Listeners \subseteq Passes
  BY DEF Passes

\* One pass moves on; the others stay as they are.
LEMMA PassUpdate ==
    ASSUME PassesOK, NEW i \in Passes, NEW x \in PassStates,
           x.pc \in {"isMonitored", "update"} => x.add \cup x.remove # {},
           pass' = [pass EXCEPT ![i] = x]
    PROVE  PassesOK'
  BY DEF PassesOK, HasWork

LEMMA PassGoto ==
    ASSUME PassesOK, NEW i \in Passes, NEW pc \in Places, Goto(i, pc),
           pc \in {"isMonitored", "update"} => pass[i].add \cup pass[i].remove # {}
    PROVE  PassesOK'
<1> DEFINE x == [pass[i] EXCEPT !.pc = pc]
<1>1. pass[i] \in PassStates
  BY DEF PassesOK
<1>2. x \in PassStates /\ x.pc = pc /\ x.add = pass[i].add /\ x.remove = pass[i].remove
  BY <1>1 DEF PassStates, Places
<1>3. pass' = [pass EXCEPT ![i] = x]
  BY DEF Goto
<1> HIDE DEF x
<1> QED BY <1>2, <1>3, PassUpdate

LEMMA PassFinish ==
    ASSUME PassesOK, NEW i \in Passes, Finish(i) PROVE PassesOK'
  BY IdleType, PassUpdate DEF Finish

\* A flag is only ever set on a document that is there.
LEMMA FlagType ==
    ASSUME SnapshotsOK, NEW addresses, NEW value \in BOOLEAN, Flag(addresses, value)
    PROVE  SnapshotsOK'
<1>1. \A d \in Snapshots :
         /\ snapshot[d] \in SnapshotStates
         /\ [snapshot[d] EXCEPT !.monitored = value] \in SnapshotStates
         /\ [snapshot[d] EXCEPT !.monitored = value].state = snapshot[d].state
  BY DEF SnapshotsOK, SnapshotStates
<1> QED BY <1>1 DEF SnapshotsOK, Flag

\* The list stays a list of known addresses, whatever a pass adds and removes.
LEMMA ListType ==
    ASSUME PassesOK, NEW i \in Passes, listed \subseteq Addresses \cup {Default},
           listed' \in NewLists(i) \cup {listed}
    PROVE  listed' \subseteq Addresses \cup {Default}
<1>1. pass[i].add \subseteq Addresses
  BY DEF PassesOK, PassStates
<1> QED BY <1>1 DEF NewLists

LEMMA TrackType == ASSUME NEW broken, Track(broken) PROVE tainted' \subseteq Addresses
  BY DEF Track

\* Putting the parts of the type invariant together again.
LEMMA Together ==
    ASSUME SnapshotsOK', PassesOK',
           listed' \subseteq Addresses \cup {Default},
           throttled' \subseteq Addresses \cup {Chain},
           lapsed' \subseteq Snapshots, tainted' \subseteq Addresses
    PROVE  TypeInv'
  BY DEF TypeInv, TypeOK, SnapshotsOK, PassesOK, HasWork, At

-----------------------------------------------------------------------------
LEMMA SucceedType ==
    ASSUME TypeInv, NEW i \in Passes, Succeed(i) PROVE TypeInv'
<1>0. /\ SnapshotsOK /\ PassesOK /\ listed \subseteq Addresses \cup {Default}
      /\ throttled \subseteq Addresses \cup {Chain} /\ lapsed \subseteq Snapshots
      /\ pass[i] \in PassStates /\ HasWork(i)
  BY DEF TypeInv, TypeOK, SnapshotsOK, PassesOK
<1>1. CASE SaveSnapshot(i)
  <2>1. PICK d \in pass[i].subject :
           /\ snapshot' = [snapshot EXCEPT ![d].state = "fresh"]
           /\ lapsed' = lapsed \ {d}
           /\ IF d[1] \in throttled THEN Finish(i) ELSE Goto(i, "isActive")
           /\ throttled' = throttled \cup {d[1]}
           /\ UNCHANGED listed
           /\ Track({})
    BY <1>1 DEF SaveSnapshot
  <2>2. d \in Snapshots /\ d[1] \in Addresses
    BY <1>0, <2>1, AddressOf DEF PassStates
  <2>3. SnapshotsOK'
    BY <1>0, <2>1, <2>2 DEF SnapshotsOK, SnapshotStates
  <2>4. PassesOK'
    BY <1>0, <2>1, PassFinish, PassGoto DEF Places
  <2> QED BY <1>0, <2>1, <2>2, <2>3, <2>4, TrackType, Together
<1>2. CASE IsAddressActive(i)
  <2>1. PICK d \in pass[i].subject :
           pass' = [pass EXCEPT ![i] =
              IF Active(d[1]) THEN [@ EXCEPT !.pc = "isMonitored", !.add = {d[1]}]
              ELSE [@ EXCEPT !.pc = "isMonitored", !.remove = {d[1]}]]
    BY <1>2 DEF IsAddressActive
  <2> DEFINE x == [pass[i] EXCEPT !.pc = "isMonitored", !.add = {d[1]}]
             y == [pass[i] EXCEPT !.pc = "isMonitored", !.remove = {d[1]}]
  <2>2. d[1] \in Addresses
    BY <1>0, AddressOf DEF PassStates
  <2>3. /\ x \in PassStates /\ x.add \cup x.remove # {}
        /\ y \in PassStates /\ y.add \cup y.remove # {}
    BY <1>0, <2>2 DEF PassStates
  <2>4. pass' = [pass EXCEPT ![i] = IF Active(d[1]) THEN x ELSE y]
    BY <1>0, <2>1 DEF PassesOK
  <2> HIDE DEF x, y
  <2>5. PassesOK'
    BY <1>0, <2>3, <2>4, PassUpdate
  <2>6. UNCHANGED <<snapshot, listed, throttled, lapsed>> /\ Track({})
    BY <1>2 DEF IsAddressActive
  <2> QED BY <1>0, <2>5, <2>6, TrackType, Together DEF SnapshotsOK
<1>3. CASE IsAddressMonitored(i)
  <2>1. /\ Goto(i, "update") \/ Finish(i)
        /\ pass[i].pc = "isMonitored"
        /\ UNCHANGED <<snapshot, listed, throttled, lapsed>> /\ Track({})
    BY <1>3 DEF IsAddressMonitored, At
  <2>2. PassesOK'
    BY <1>0, <2>1, PassFinish, PassGoto DEF Places, HasWork
  <2> QED BY <1>0, <2>1, <2>2, TrackType, Together DEF SnapshotsOK
<1>4. CASE i = Sweep /\ GetActiveAddresses
  <2> DEFINE wanted == {a \in Addresses : \E d \in Of(a) :
                          snapshot[d].state = "fresh" /\ ~snapshot[d].monitored}
             x == [pass[i] EXCEPT !.pc = "getExpired", !.add = wanted]
  <2>1. x \in PassStates /\ x.pc = "getExpired"
    BY <1>0 DEF PassStates
  <2>2. pass' = [pass EXCEPT ![i] = x]
    BY <1>0, <1>4 DEF PassesOK, GetActiveAddresses
  <2>3. UNCHANGED <<snapshot, listed, throttled, lapsed>> /\ Track({})
    BY <1>4 DEF GetActiveAddresses
  <2> HIDE DEF x
  <2>4. PassesOK'
    BY <1>0, <2>1, <2>2, PassUpdate
  <2> QED BY <1>0, <2>3, <2>4, TrackType, Together DEF SnapshotsOK
<1>5. CASE i = Sweep /\ GetExpiredAddresses
  <2>1. PICK remove \in {ExpiredAddresses, {}} :
           IF pass[Sweep].add = {} /\ remove = {} THEN Finish(Sweep)
           ELSE pass' = [pass EXCEPT ![Sweep].pc = "update", ![Sweep].remove = remove]
    BY <1>5 DEF GetExpiredAddresses
  <2> DEFINE x == [pass[i] EXCEPT !.pc = "update", !.remove = remove]
  <2>2. x \in PassStates /\ x.add = pass[i].add /\ x.remove = remove
    BY <1>0, <2>1 DEF PassStates, ExpiredAddresses
  <2>3. \/ Finish(i)
        \/ pass' = [pass EXCEPT ![i] = x] /\ pass[i].add \cup remove # {}
    BY <1>0, <1>5, <2>1 DEF PassesOK
  <2>4. UNCHANGED <<snapshot, listed, throttled, lapsed>> /\ Track({})
    BY <1>5 DEF GetExpiredAddresses
  <2> HIDE DEF x
  <2>5. PassesOK'
    BY <1>0, <2>2, <2>3, PassFinish, PassUpdate
  <2> QED BY <1>0, <2>4, <2>5, TrackType, Together DEF SnapshotsOK
<1>6. CASE i = Nightly /\ ListWebhooks
  <2>1. PassesOK'
    BY <1>0, <1>6, PassGoto DEF ListWebhooks, Places
  <2> QED BY <1>0, <1>6, <2>1, TrackType, Together DEF SnapshotsOK, ListWebhooks
<1>7. CASE i = Nightly /\ GetWebhookDetails
  <2> DEFINE x == [pass[i] EXCEPT !.pc = "find", !.todo = WithoutDefault(listed)]
  <2>1. x \in PassStates /\ x.pc = "find"
    BY <1>0 DEF PassStates, WithoutDefault
  <2>2. Finish(i) \/ pass' = [pass EXCEPT ![i] = x]
    BY <1>0, <1>7 DEF PassesOK, GetWebhookDetails
  <2>3. UNCHANGED <<snapshot, listed, throttled>> /\ lapsed' = {} /\ Track({})
    BY <1>7 DEF GetWebhookDetails
  <2> HIDE DEF x
  <2>4. PassesOK'
    BY <1>0, <2>1, <2>2, PassFinish, PassUpdate
  <2> QED BY <1>0, <2>3, <2>4, TrackType, Together DEF SnapshotsOK
<1>8. ASSUME i = Nightly, NEW a \in pass[i].todo, FindLatestSnapshot(a)
      PROVE  TypeInv'
  <2> DEFINE todo == pass[i].todo \ {a}
             remove == IF Valid(a) THEN pass[i].remove ELSE pass[i].remove \cup {a}
             x == [pass[i] EXCEPT !.todo = todo, !.remove = remove,
                                  !.pc = IF todo = {} THEN "update" ELSE "find"]
  <2>1. /\ todo \in SUBSET (Addresses \cup {Default})
        /\ remove \in SUBSET (Addresses \cup {Default})
    BY <1>0, <1>8 DEF PassStates
  <2>2. \/ Finish(i)
        \/ pass' = [pass EXCEPT ![i] = x] /\ ~(todo = {} /\ remove = {})
    BY <1>0, <1>8 DEF PassesOK, FindLatestSnapshot
  <2>3. UNCHANGED <<snapshot, listed, throttled, lapsed>> /\ Track({})
    BY <1>8 DEF FindLatestSnapshot
  <2> HIDE DEF todo, remove
  <2>4. /\ x \in PassStates /\ x.remove = remove
        /\ x.pc = IF todo = {} THEN "update" ELSE "find"
    BY <1>0, <2>1 DEF PassStates
  <2> HIDE DEF x
  <2>5. PassesOK'
    BY <1>0, <2>2, <2>4, PassFinish, PassUpdate
  <2> QED BY <1>0, <2>3, <2>5, TrackType, Together DEF SnapshotsOK
<1>9. CASE UpdateWebhookAddresses(i)
  <2>1. Goto(i, "mark") \/ Goto(i, "unmark")
    BY <1>9 DEF UpdateWebhookAddresses
  <2>2. PassesOK'
    BY <1>0, <2>1, PassGoto DEF Places
  <2>3. /\ UNCHANGED <<snapshot, throttled, lapsed>> /\ Track({})
        /\ listed' \in NewLists(i) \cup {listed}
    BY <1>9 DEF UpdateWebhookAddresses
  <2> QED BY <1>0, <2>2, <2>3, ListType, TrackType, Together DEF SnapshotsOK
<1>10. CASE MarkAddressesAsMonitored(i)
  <2>1. PassesOK' /\ SnapshotsOK'
    BY <1>0, <1>10, PassGoto, PassFinish, FlagType
    DEF MarkAddressesAsMonitored, AfterMark, Places
  <2>2. UNCHANGED <<listed, throttled, lapsed>> /\ Track({})
    BY <1>10 DEF MarkAddressesAsMonitored
  <2> QED BY <1>0, <2>1, <2>2, TrackType, Together
<1>11. CASE UnmarkExpiredAddresses(i)
  <2>1. PassesOK' /\ SnapshotsOK'
    BY <1>0, <1>11, PassFinish, FlagType DEF UnmarkExpiredAddresses
  <2>2. UNCHANGED <<listed, throttled, lapsed>> /\ Track({})
    BY <1>11 DEF UnmarkExpiredAddresses
  <2> QED BY <1>0, <2>1, <2>2, TrackType, Together
<1> QED
  BY <1>1, <1>2, <1>3, <1>4, <1>5, <1>6, <1>7, <1>8, <1>9, <1>10, <1>11 DEF Succeed

LEMMA FailType ==
    ASSUME TypeInv, NEW i \in Passes, Fail(i) PROVE TypeInv'
<1>0. /\ SnapshotsOK /\ PassesOK /\ listed \subseteq Addresses \cup {Default}
      /\ throttled \subseteq Addresses \cup {Chain} /\ lapsed \subseteq Snapshots
  BY DEF TypeInv, TypeOK, SnapshotsOK
<1>1. \/ Finish(i)
      \/ Goto(i, "getExpired")
      \/ Goto(i, "unmark")
  BY DEF Fail, FailGetActiveAddresses, FailGetWebhookDetails, FailUpdateWebhookAddresses,
         FailMarkAddressesAsMonitored, AfterMark, FailUnmarkExpiredAddresses, GiveUp
<1>2. PassesOK'
  BY <1>0, <1>1, PassFinish, PassGoto DEF Places
<1>3. /\ UNCHANGED <<snapshot, throttled, lapsed>>
      /\ listed' \in NewLists(i) \cup {listed}
      /\ \E broken : Track(broken)
  BY DEF Fail, FailGetActiveAddresses, FailGetWebhookDetails, FailUpdateWebhookAddresses,
         FailMarkAddressesAsMonitored, FailUnmarkExpiredAddresses, GiveUp
<1> QED BY <1>0, <1>2, <1>3, ListType, TrackType, Together DEF SnapshotsOK

LEMMA EnvironmentType ==
    ASSUME TypeInv,
           \/ \E i \in Listeners, d \in Snapshots : PortfolioRedisUpdated(i, d)
           \/ ReconcileWebhookAddresses
           \/ \E d \in Snapshots : Expire(d) \/ RemoveExpired(d)
           \/ \E key \in Addresses \cup {Chain} : IntervalOver(key)
           \/ Restart
    PROVE  TypeInv'
<1>0. /\ SnapshotsOK /\ PassesOK /\ listed \subseteq Addresses \cup {Default}
      /\ throttled \subseteq Addresses \cup {Chain} /\ lapsed \subseteq Snapshots
  BY DEF TypeInv, TypeOK, SnapshotsOK
<1>1. ASSUME NEW i \in Listeners, NEW d \in Snapshots, PortfolioRedisUpdated(i, d)
      PROVE  TypeInv'
  <2> DEFINE x == [Idle EXCEPT !.pc = "save", !.subject = {d}]
             y == [Idle EXCEPT !.pc = "getActive"]
  <2>1. x \in PassStates /\ x.pc = "save" /\ y \in PassStates /\ y.pc = "getActive"
    BY DEF Idle, PassStates
  <2>2. pass' = [j \in Passes |->
                   IF j = i THEN x
                   ELSE IF j = Sweep /\ Chain \notin throttled THEN y ELSE pass[j]]
    BY <1>1 DEF PortfolioRedisUpdated
  <2> HIDE DEF x, y
  <2>3. PassesOK'
    BY <1>0, <2>1, <2>2 DEF PassesOK, HasWork
  <2> QED BY <1>0, <1>1, <2>3, TrackType, Together DEF SnapshotsOK, PortfolioRedisUpdated
<1>2. CASE ReconcileWebhookAddresses
  <2>1. PassesOK'
    BY <1>0, <1>2, NamedPasses, PassGoto DEF ReconcileWebhookAddresses, Places
  <2> QED BY <1>0, <1>2, <2>1, TrackType, Together
          DEF SnapshotsOK, ReconcileWebhookAddresses
<1>3. ASSUME NEW d \in Snapshots, Expire(d) PROVE TypeInv'
  <2>1. SnapshotsOK' /\ PassesOK'
    BY <1>0, <1>3 DEF Expire, SnapshotsOK, SnapshotStates, PassesOK, HasWork
  <2> QED BY <1>0, <1>3, <2>1, TrackType, Together DEF Expire
<1>4. ASSUME NEW d \in Snapshots, RemoveExpired(d) PROVE TypeInv'
  <2>1. SnapshotsOK' /\ PassesOK'
    BY <1>0, <1>4 DEF RemoveExpired, Absent, SnapshotsOK, SnapshotStates, PassesOK, HasWork
  <2> QED BY <1>0, <1>4, <2>1, TrackType, Together DEF RemoveExpired
<1>5. ASSUME NEW key \in Addresses \cup {Chain}, IntervalOver(key) PROVE TypeInv'
  <2>1. SnapshotsOK' /\ PassesOK'
    BY <1>0, <1>5 DEF IntervalOver, SnapshotsOK, PassesOK, HasWork
  <2> QED BY <1>0, <1>5, <2>1, TrackType, Together DEF IntervalOver
<1>6. CASE Restart
  <2>1. PassesOK'
    BY <1>6, IdleType DEF Restart, PassesOK, HasWork
  <2> QED BY <1>0, <1>6, <2>1, TrackType, Together DEF SnapshotsOK, Restart
<1> QED BY <1>1, <1>2, <1>3, <1>4, <1>5, <1>6

LEMMA TypeInvHolds == Spec => []TypeInv
<1>1. Init => TypeInv
  BY IdleType
  DEF Init, Absent, TypeInv, TypeOK, PassesOK, HasWork, At, SnapshotStates
<1>2. TypeInv /\ [Next]_vars => TypeInv'
  <2>1. CASE UNCHANGED vars
    BY <2>1 DEF vars, TypeInv, TypeOK, PassesOK, HasWork, At
  <2> QED BY <2>1, SucceedType, FailType, EnvironmentType DEF Next
<1> QED BY <1>1, <1>2, PTL DEF Spec

\* The flags and the throttles, and what the three writers have yet to add and
\* remove, keep their types; no flag outlives its document, and
\* updateWebhookAddresses is never called with nothing to do.
THEOREM TypeCorrect == Spec => []TypeOK
<1>1. TypeInv => TypeOK
  BY DEF TypeInv
<1> QED BY <1>1, TypeInvHolds, PTL

-----------------------------------------------------------------------------
(* The default address: the reconciliation never has it among what it is   *)
(* to look up or to remove.                                                *)

NightlySafe ==
    /\ pass[Nightly].subject = {}
    /\ Default \notin pass[Nightly].todo \cup pass[Nightly].remove

\* What a step can put among the addresses that the reconciliation is to look up
\* or to remove.
Sources ==
    /\ pass'[Nightly].subject \subseteq pass[Nightly].subject
    /\ pass'[Nightly].todo \subseteq pass[Nightly].todo \cup WithoutDefault(listed)
    /\ pass'[Nightly].remove \subseteq pass[Nightly].remove \cup pass[Nightly].todo

LEMMA OthersSources ==
    ASSUME pass'[Nightly] = pass[Nightly] PROVE Sources
  BY DEF Sources

LEMMA FinishSources == ASSUME TypeInv, NEW j \in Passes, Finish(j) PROVE Sources
  BY NamedPasses DEF TypeInv, PassesOK, Finish, Idle, Sources

LEMMA GotoSources ==
    ASSUME TypeInv, NEW j \in Passes, NEW pc, Goto(j, pc) PROVE Sources
  BY NamedPasses DEF TypeInv, PassesOK, PassStates, Goto, Sources

LEMMA PassSources ==
    ASSUME TypeInv, NightlySafe, [Next]_vars PROVE Sources
<1>0. PassesOK
  BY DEF TypeInv
<1>1. ASSUME NEW i \in Passes, Succeed(i) PROVE Sources
  <2>0. pass[i] \in PassStates
    BY <1>0 DEF PassesOK
  <2>1. CASE SaveSnapshot(i) \/ IsAddressMonitored(i) \/ UpdateWebhookAddresses(i)
             \/ MarkAddressesAsMonitored(i) \/ UnmarkExpiredAddresses(i)
             \/ (i = Nightly /\ ListWebhooks)
    BY <2>1, FinishSources, GotoSources
    DEF SaveSnapshot, IsAddressMonitored, UpdateWebhookAddresses, AfterMark,
        MarkAddressesAsMonitored, UnmarkExpiredAddresses, ListWebhooks
  <2>2. CASE IsAddressActive(i)
    <3>1. i # Nightly
      BY <2>2 DEF IsAddressActive, NightlySafe
    <3>2. pass'[Nightly] = pass[Nightly]
      BY <1>0, <2>2, <3>1, NamedPasses DEF IsAddressActive, PassesOK
    <3> QED BY <3>2, OthersSources
  <2>3. CASE i = Sweep /\ GetActiveAddresses
    BY <1>0, <2>3, NamedPasses, PassesDiffer, OthersSources
    DEF PassesOK, GetActiveAddresses
  <2>4. CASE i = Sweep /\ GetExpiredAddresses
    <3>1. pass'[Nightly] = pass[Nightly]
      BY <1>0, <2>4, NamedPasses, PassesDiffer DEF PassesOK, GetExpiredAddresses, Finish
    <3> QED BY <3>1, OthersSources
  <2>5. CASE i = Nightly /\ GetWebhookDetails
    <3>1. CASE pass' = [pass EXCEPT ![Nightly].pc = "find",
                                    ![Nightly].todo = WithoutDefault(listed)]
      BY <1>0, <2>0, <2>5, <3>1 DEF PassesOK, PassStates, Sources
    <3> QED BY <2>5, <3>1, FinishSources DEF GetWebhookDetails
  <2>6. ASSUME i = Nightly, NEW a \in pass[i].todo, FindLatestSnapshot(a)
        PROVE  Sources
    <3> DEFINE todo == pass[i].todo \ {a}
               remove == IF Valid(a) THEN pass[i].remove ELSE pass[i].remove \cup {a}
               place == IF todo = {} THEN "update" ELSE "find"
    <3>1. todo \subseteq pass[i].todo /\ remove \subseteq pass[i].remove \cup pass[i].todo
      BY <2>6
    <3>2. \/ Finish(i)
          \/ pass' = [pass EXCEPT ![i].todo = todo, ![i].remove = remove, ![i].pc = place]
      BY <2>6 DEF FindLatestSnapshot
    <3> HIDE DEF todo, remove, place
    <3>3. CASE pass' = [pass EXCEPT ![i].todo = todo, ![i].remove = remove, ![i].pc = place]
      BY <1>0, <2>0, <2>6, <3>1, <3>3 DEF PassesOK, PassStates, Sources
    <3> QED BY <3>2, <3>3, FinishSources
  <2> QED BY <1>1, <2>1, <2>2, <2>3, <2>4, <2>5, <2>6 DEF Succeed
<1>2. ASSUME NEW i \in Passes, Fail(i) PROVE Sources
  BY <1>2, FinishSources, GotoSources
  DEF Fail, FailGetActiveAddresses, FailGetWebhookDetails, FailUpdateWebhookAddresses,
      FailMarkAddressesAsMonitored, AfterMark, FailUnmarkExpiredAddresses, GiveUp
<1>3. ASSUME NEW i \in Listeners, NEW d \in Snapshots, PortfolioRedisUpdated(i, d)
      PROVE  Sources
  BY <1>3, NamedPasses, PassesDiffer, OthersSources DEF PortfolioRedisUpdated
<1>4. CASE ReconcileWebhookAddresses
  BY <1>4, NamedPasses, GotoSources DEF ReconcileWebhookAddresses
<1>5. CASE Restart
  BY <1>5, NamedPasses DEF Restart, Idle, Sources
<1>6. CASE UNCHANGED pass
  BY <1>6 DEF Sources
<1> QED
  BY <1>1, <1>2, <1>3, <1>4, <1>5, <1>6
  DEF Next, Expire, RemoveExpired, IntervalOver, vars

\* Only what a pass is to remove leaves the list, in the step that ends its call.
LEMMA ListLosses ==
    ASSUME TypeInv, [Next]_vars, NEW a \in listed \ listed'
    PROVE  \E i \in Passes : At(i, "update") /\ a \in pass[i].remove /\ ~At(i, "update")'
<1>1. ASSUME NEW i \in Passes, UpdateWebhookAddresses(i) \/ FailUpdateWebhookAddresses(i)
      PROVE  At(i, "update") /\ a \in pass[i].remove /\ ~At(i, "update")'
  <2>1. At(i, "update") /\ a \in pass[i].remove
    BY <1>1 DEF UpdateWebhookAddresses, FailUpdateWebhookAddresses, NewLists
  <2>2. pass[i] \in PassStates /\ pass \in [Passes -> PassStates]
    BY DEF TypeInv, PassesOK
  <2>3. pass'[i].pc # "update"
    BY <1>1, <2>2 DEF UpdateWebhookAddresses, FailUpdateWebhookAddresses, Goto, Finish,
                      Idle, PassStates
  <2> QED BY <2>1, <2>3 DEF At
<1>2. CASE UNCHANGED listed
  BY <1>2
<1> QED
  BY <1>1, <1>2
  DEF Next, vars, Succeed, Fail, PortfolioRedisUpdated, SaveSnapshot, IsAddressActive,
      IsAddressMonitored, GetActiveAddresses, FailGetActiveAddresses, GetExpiredAddresses,
      ReconcileWebhookAddresses, ListWebhooks, GetWebhookDetails, FailGetWebhookDetails,
      FindLatestSnapshot, MarkAddressesAsMonitored, FailMarkAddressesAsMonitored,
      UnmarkExpiredAddresses, FailUnmarkExpiredAddresses, GiveUp, Expire, RemoveExpired,
      IntervalOver, Restart

\* The reconciliation, whatever it finds and whenever it runs, never takes the
\* default address off the list; a listener may, if clients ask for that address.
THEOREM OnlyListenersDropDefaultHolds == Spec => OnlyListenersDropDefault
<1>1. Init => NightlySafe
  BY NamedPasses DEF Init, Idle, NightlySafe
<1>2. TypeInv /\ NightlySafe /\ [Next]_vars => NightlySafe'
  BY PassSources DEF NightlySafe, Sources, WithoutDefault
<1>3. TypeInv /\ NightlySafe /\ [Next]_vars
         => ((Default \in listed /\ Default \notin listed') =>
               \E i \in Passes \ {Nightly} :
                  At(i, "update") /\ Default \in pass[i].remove /\ ~At(i, "update")')
  BY ListLosses DEF NightlySafe
<1> QED BY <1>1, <1>2, <1>3, TypeInvHolds, PTL DEF Spec, OnlyListenersDropDefault

-----------------------------------------------------------------------------
(* FlagTrusted, with TrustInv as the inductive invariant.                  *)

\* The pass that removed the address has yet to unset the flag.
Undoing(a) == \E i \in Passes : a \in pass[i].remove /\ pass[i].pc \in {"mark", "unmark"}

\* What passes working against each other do is accounted for.
OppositionTainted == \A a \in Addresses : Opposed(a) => a \in tainted

\* Between Alchemy's answer and the flag the address is still on the list, or
\* the pass itself is going to unset the flag again.
MarkJustified ==
    \A a \in Addresses : \A i \in Passes :
       a \in pass[i].add /\ pass[i].pc = "mark" /\ a \notin tainted =>
          a \in listed \/ a \in pass[i].remove

TrustInv == OppositionTainted /\ MarkJustified /\ FlagTrusted

LEMMA Tracked ==
    ASSUME NEW broken, Track(broken), NEW a \in Addresses
    PROVE  /\ Opposed(a)' => a \in tainted'
           /\ a \in tainted \cup broken /\ (Flagged(a)' \/ Involved(a)') => a \in tainted'
  BY DEF Track, Opposed, Involved

LEMMA InvolvedBy ==
    ASSUME NEW i \in Passes, NEW a \in pass[i].add \cup pass[i].remove
    PROVE  Involved(a)
  BY DEF Involved

LEMMA OpposedBy ==
    ASSUME NEW i \in Passes, NEW j \in Passes, i # j, NEW a \in pass[i].add,
           a \in pass[j].remove
    PROVE  Opposed(a)
  BY DEF Opposed

\* Opposed passes are tracked at every step.
LEMMA OppositionStep ==
    ASSUME NEW broken, Track(broken) PROVE OppositionTainted'
  BY Tracked DEF OppositionTainted

\* A step that sets no flag, changes nothing at Alchemy, and touches no pass
\* between Alchemy's answer and its end.
LEMMA QuietStep ==
    ASSUME TrustInv, Track({}), UNCHANGED listed,
           \A d \in Snapshots : snapshot'[d].monitored => snapshot[d].monitored,
           \A i \in Passes :
              pass[i].pc \in {"mark", "unmark"} \/ pass'[i].pc = "mark" =>
                 pass'[i] = pass[i]
    PROVE  TrustInv'
<1>1. OppositionTainted'
  BY OppositionStep
<1>2. MarkJustified'
  <2> SUFFICES ASSUME NEW a \in Addresses, NEW i \in Passes, a \in pass'[i].add,
                      pass'[i].pc = "mark", a \notin tainted'
               PROVE  a \in listed' \/ a \in pass'[i].remove
    BY DEF MarkJustified
  <2>1. Involved(a)'
    BY DEF Involved
  <2>2. a \notin tainted
    BY <2>1, Tracked
  <2> QED BY <2>2 DEF TrustInv, MarkJustified
<1>3. FlagTrusted'
  <2> SUFFICES ASSUME NEW a \in Addresses, Flagged(a)', a \notin tainted'
               PROVE  a \in listed' \/ Undoing(a)'
    BY DEF FlagTrusted, Undoing
  <2>1. Flagged(a) /\ a \notin tainted
    BY Tracked DEF Flagged, Of
  <2>2. a \in listed \/ Undoing(a)
    BY <2>1 DEF TrustInv, FlagTrusted, Undoing
  <2> QED BY <2>2 DEF Undoing
<1> QED BY <1>1, <1>2, <1>3 DEF TrustInv

\* Where one pass goes, the others stay.
LEMMA GotoEffect ==
    ASSUME TypeInv, NEW i \in Passes, NEW pc, Goto(i, pc)
    PROVE  /\ pass'[i].pc = pc
           /\ pass'[i].add = pass[i].add /\ pass'[i].remove = pass[i].remove
           /\ \A j \in Passes \ {i} : pass'[j] = pass[j]
  BY DEF TypeInv, PassesOK, PassStates, Goto

LEMMA FinishEffect ==
    ASSUME TypeInv, NEW i \in Passes, Finish(i)
    PROVE  /\ pass'[i].pc = "idle" /\ pass'[i].add = {} /\ pass'[i].remove = {}
           /\ \A j \in Passes \ {i} : pass'[j] = pass[j]
  BY DEF TypeInv, PassesOK, Finish, Idle

\* updateWebhook takes nothing off the list but what is to be removed, and what
\* it adds is on it then.
LEMMA ListEffect ==
    ASSUME NEW i \in Passes, NEW a, listed' \in NewLists(i) \cup {listed}
    PROVE  /\ a \in listed => a \in listed' \/ a \in pass[i].remove
           /\ listed' \in NewLists(i) /\ a \in pass[i].add =>
                 a \in listed' \/ a \in pass[i].remove
  BY DEF NewLists

LEMMA UpdateTrust ==
    ASSUME TypeInv, TrustInv, NEW i \in Passes,
           UpdateWebhookAddresses(i) \/ FailUpdateWebhookAddresses(i)
    PROVE  TrustInv'
<1>0. PICK broken :
         /\ Track(broken)
         /\ UNCHANGED snapshot
         /\ listed' \in NewLists(i) \cup {listed}
         /\ pass[i].pc = "update"
         /\ \/ /\ listed' \in NewLists(i)
               /\ Goto(i, "mark") \/ Goto(i, "unmark")
            \/ Finish(i) /\ broken = pass[i].remove
  BY DEF UpdateWebhookAddresses, FailUpdateWebhookAddresses, At
<1>1. \A j \in Passes \ {i} : pass'[j] = pass[j]
  BY <1>0, GotoEffect, FinishEffect
<1>2. \/ /\ pass'[i].add = pass[i].add /\ pass'[i].remove = pass[i].remove
         /\ pass'[i].pc \in {"mark", "unmark"} /\ listed' \in NewLists(i)
      \/ /\ pass'[i].pc = "idle" /\ broken = pass[i].remove
         /\ pass'[i].add = {} /\ pass'[i].remove = {}
  BY <1>0, GotoEffect, FinishEffect
<1>3. OppositionTainted'
  BY <1>0, OppositionStep
<1>4. MarkJustified'
  <2> SUFFICES ASSUME NEW a \in Addresses, NEW j \in Passes, a \in pass'[j].add,
                      pass'[j].pc = "mark", a \notin tainted'
               PROVE  a \in listed' \/ a \in pass'[j].remove
    BY DEF MarkJustified
  <2>1. CASE j = i
    BY <1>0, <1>2, <2>1, ListEffect
  <2>2. CASE j # i
    <3>1. Involved(a)'
      BY DEF Involved
    <3>2. a \notin tainted
      BY <1>0, <3>1, Tracked
    <3>3. a \notin pass[i].remove
      BY <1>1, <2>2, <3>2, OpposedBy DEF TrustInv, OppositionTainted
    <3>4. a \in listed \/ a \in pass[j].remove
      BY <1>1, <2>2, <3>2 DEF TrustInv, MarkJustified
    <3> QED BY <1>0, <1>1, <2>2, <3>3, <3>4, ListEffect
  <2> QED BY <2>1, <2>2
<1>5. FlagTrusted'
  <2> SUFFICES ASSUME NEW a \in Addresses, Flagged(a)', a \notin tainted'
               PROVE  a \in listed' \/ Undoing(a)'
    BY DEF FlagTrusted, Undoing
  <2>1. Flagged(a) /\ a \notin tainted /\ a \notin broken
    BY <1>0, Tracked DEF Flagged, Of
  <2>2. a \in pass[i].remove => Undoing(a)'
    BY <1>2, <2>1 DEF Undoing
  <2>3. CASE a \in listed
    BY <1>0, <2>2, <2>3, ListEffect
  <2>4. CASE Undoing(a)
    BY <1>0, <1>1, <2>4 DEF Undoing
  <2> QED BY <2>1, <2>3, <2>4 DEF TrustInv, FlagTrusted, Undoing
<1> QED BY <1>3, <1>4, <1>5 DEF TrustInv

LEMMA MarkTrust ==
    ASSUME TypeInv, TrustInv, NEW i \in Passes,
           MarkAddressesAsMonitored(i) \/ FailMarkAddressesAsMonitored(i)
    PROVE  TrustInv'
<1>0. /\ Track({}) /\ UNCHANGED listed /\ pass[i].pc = "mark"
      /\ IF pass[i].remove # {} THEN Goto(i, "unmark") ELSE Finish(i)
      /\ Flag(pass[i].add, TRUE) \/ UNCHANGED snapshot
  BY DEF MarkAddressesAsMonitored, FailMarkAddressesAsMonitored, AfterMark, At
<1>1. /\ \A j \in Passes \ {i} : pass'[j] = pass[j]
      /\ pass'[i].pc # "mark"
      /\ pass'[i].remove = pass[i].remove
      /\ pass[i].remove # {} => pass'[i].pc = "unmark"
  <2>1. CASE pass[i].remove # {}
    BY <1>0, <2>1, GotoEffect
  <2>2. CASE pass[i].remove = {}
    <3>1. Finish(i)
      BY <1>0, <2>2
    <3> QED BY <2>2, <3>1, FinishEffect
  <2> QED BY <2>1, <2>2
<1>2. OppositionTainted'
  BY <1>0, OppositionStep
<1>3. MarkJustified'
  <2> SUFFICES ASSUME NEW a \in Addresses, NEW j \in Passes, a \in pass'[j].add,
                      pass'[j].pc = "mark", a \notin tainted'
               PROVE  a \in listed' \/ a \in pass'[j].remove
    BY DEF MarkJustified
  <2>1. j # i /\ pass'[j] = pass[j]
    BY <1>1
  <2>2. Involved(a)'
    BY DEF Involved
  <2>3. a \notin tainted
    BY <1>0, <2>2, Tracked
  <2> QED BY <1>0, <2>1, <2>3 DEF TrustInv, MarkJustified
<1>4. FlagTrusted'
  <2> SUFFICES ASSUME NEW a \in Addresses, Flagged(a)', a \notin tainted'
               PROVE  a \in listed' \/ Undoing(a)'
    BY DEF FlagTrusted, Undoing
  <2>1. a \notin tainted
    BY <1>0, Tracked
  <2>2. Flagged(a) \/ a \in pass[i].add
    BY <1>0 DEF Flagged, Of, Flag
  <2>3. a \in pass[i].remove => Undoing(a)'
    BY <1>1 DEF Undoing
  <2>4. CASE Undoing(a)
    <3>1. PICK j \in Passes : a \in pass[j].remove /\ pass[j].pc \in {"mark", "unmark"}
      BY <2>4 DEF Undoing
    <3>2. CASE j = i
      BY <2>3, <3>1, <3>2
    <3>3. CASE j # i
      BY <1>1, <3>1, <3>3 DEF Undoing
    <3> QED BY <3>2, <3>3
  <2>5. CASE a \in pass[i].add
    BY <1>0, <2>1, <2>3, <2>5 DEF TrustInv, MarkJustified
  <2> QED BY <1>0, <2>1, <2>2, <2>4, <2>5 DEF TrustInv, FlagTrusted, Undoing
<1> QED BY <1>2, <1>3, <1>4 DEF TrustInv

LEMMA UnmarkTrust ==
    ASSUME TypeInv, TrustInv, NEW i \in Passes,
           UnmarkExpiredAddresses(i) \/ FailUnmarkExpiredAddresses(i)
    PROVE  TrustInv'
<1>0. /\ UNCHANGED listed /\ pass[i].pc = "unmark" /\ Finish(i)
      /\ \/ Track({}) /\ Flag(pass[i].remove, FALSE)
         \/ Track(pass[i].remove) /\ UNCHANGED snapshot
  BY DEF UnmarkExpiredAddresses, FailUnmarkExpiredAddresses, At
<1>1. /\ \A j \in Passes \ {i} : pass'[j] = pass[j]
      /\ pass'[i].pc = "idle"
  BY <1>0, FinishEffect
<1>2. OppositionTainted'
  BY <1>0, OppositionStep
<1>3. MarkJustified'
  <2> SUFFICES ASSUME NEW a \in Addresses, NEW j \in Passes, a \in pass'[j].add,
                      pass'[j].pc = "mark", a \notin tainted'
               PROVE  a \in listed' \/ a \in pass'[j].remove
    BY DEF MarkJustified
  <2>1. j # i /\ pass'[j] = pass[j]
    BY <1>1
  <2>2. Involved(a)'
    BY DEF Involved
  <2>3. a \notin tainted
    BY <1>0, <2>2, Tracked
  <2> QED BY <1>0, <2>1, <2>3 DEF TrustInv, MarkJustified
<1>4. FlagTrusted'
  <2> SUFFICES ASSUME NEW a \in Addresses, Flagged(a)', a \notin tainted'
               PROVE  a \in listed' \/ Undoing(a)'
    BY DEF FlagTrusted, Undoing
  <2>1. a \notin tainted /\ Flagged(a) /\ a \notin pass[i].remove
    <3>0. \A d \in Snapshots : snapshot[d] \in SnapshotStates
      BY DEF TypeInv, TypeOK
    <3>1. CASE Track({}) /\ Flag(pass[i].remove, FALSE)
      <4>1. a \notin tainted
        BY <3>1, Tracked
      <4>2. PICK d \in Of(a) : snapshot'[d].monitored
        BY DEF Flagged, Of
      <4>3. d \in Snapshots /\ d[1] = a
        BY DEF Of
      <4>4. snapshot'[d] = snapshot[d] \/ snapshot'[d] = [snapshot[d] EXCEPT !.monitored = FALSE]
        BY <3>1, <4>3 DEF Flag
      <4>5. snapshot'[d] = snapshot[d]
        BY <3>0, <4>2, <4>3, <4>4 DEF SnapshotStates
      <4>6. Flagged(a)
        BY <4>2, <4>5 DEF Flagged
      <4>7. snapshot[d].state # "absent"
        BY <4>2, <4>3, <4>5 DEF TypeInv, TypeOK
      <4>8. a \notin pass[i].remove
        <5> SUFFICES ASSUME a \in pass[i].remove PROVE FALSE
          OBVIOUS
        <5>1. snapshot'[d] = [snapshot[d] EXCEPT !.monitored = FALSE]
          BY <3>1, <4>3, <4>7 DEF Flag
        <5> QED BY <3>0, <4>2, <4>3, <5>1 DEF SnapshotStates
      <4> QED BY <4>1, <4>6, <4>8
    <3>2. CASE Track(pass[i].remove) /\ UNCHANGED snapshot
      <4>1. a \notin tainted \cup pass[i].remove
        BY <3>2, Tracked
      <4>2. Flagged(a)
        BY <3>2 DEF Flagged, Of
      <4> QED BY <4>1, <4>2
    <3> QED BY <1>0, <3>1, <3>2
  <2>2. a \in listed \/ Undoing(a)
    BY <2>1 DEF TrustInv, FlagTrusted, Undoing
  <2> QED BY <1>0, <1>1, <2>1, <2>2 DEF Undoing
<1> QED BY <1>2, <1>3, <1>4 DEF TrustInv

LEMMA RestartTrust ==
    ASSUME TypeInv, TrustInv, Restart PROVE TrustInv'
<1>0. /\ \A i \in Passes : pass'[i] = Idle
      /\ UNCHANGED <<snapshot, listed>>
      /\ Track(UNION {pass[i].remove : i \in Passes})
  BY DEF Restart
<1>1. OppositionTainted'
  BY <1>0, OppositionStep
<1>2. MarkJustified'
  BY <1>0 DEF MarkJustified, Idle
<1>3. FlagTrusted'
  <2> SUFFICES ASSUME NEW a \in Addresses, Flagged(a)', a \notin tainted'
               PROVE  a \in listed'
    BY DEF FlagTrusted
  <2>1. a \notin tainted /\ \A i \in Passes : a \notin pass[i].remove
    BY <1>0, Tracked
  <2>2. Flagged(a)
    BY <1>0 DEF Flagged, Of
  <2> QED BY <1>0, <2>1, <2>2 DEF TrustInv, FlagTrusted
<1> QED BY <1>1, <1>2, <1>3 DEF TrustInv

\* The steps that neither ask Alchemy nor set flags.
LEMMA QuietSteps ==
    ASSUME TypeInv, TrustInv,
           \/ \E i \in Passes :
                 \/ SaveSnapshot(i) \/ IsAddressActive(i) \/ IsAddressMonitored(i)
                 \/ i = Sweep /\ (GetActiveAddresses \/ FailGetActiveAddresses)
                 \/ i = Sweep /\ GetExpiredAddresses
                 \/ i = Nightly /\ (ListWebhooks \/ GetWebhookDetails)
                 \/ i = Nightly /\ FailGetWebhookDetails
                 \/ i = Nightly /\ \E a \in pass[i].todo : FindLatestSnapshot(a)
                 \/ GiveUp(i)
           \/ \E i \in Listeners, d \in Snapshots : PortfolioRedisUpdated(i, d)
           \/ ReconcileWebhookAddresses
           \/ \E d \in Snapshots : Expire(d) \/ RemoveExpired(d)
           \/ \E key \in Addresses \cup {Chain} : IntervalOver(key)
    PROVE  TrustInv'
<1>0. SnapshotsOK /\ PassesOK /\ \A i \in Passes : pass[i] \in PassStates
  BY DEF TypeInv, TypeOK, SnapshotsOK, PassesOK
<1>1. Track({}) /\ UNCHANGED listed
  BY DEF SaveSnapshot, IsAddressActive, IsAddressMonitored, GetActiveAddresses,
         FailGetActiveAddresses, GetExpiredAddresses, ListWebhooks, GetWebhookDetails,
         FailGetWebhookDetails, FindLatestSnapshot, GiveUp, PortfolioRedisUpdated,
         ReconcileWebhookAddresses, Expire, RemoveExpired, IntervalOver
<1>2. \A d \in Snapshots : snapshot'[d].monitored => snapshot[d].monitored
  <2>1. ASSUME NEW i \in Passes, SaveSnapshot(i)
        PROVE  \A d \in Snapshots : snapshot'[d].monitored => snapshot[d].monitored
    BY <1>0, <2>1 DEF SaveSnapshot, SnapshotsOK, SnapshotStates
  <2>2. ASSUME NEW e \in Snapshots, Expire(e)
        PROVE  \A d \in Snapshots : snapshot'[d].monitored => snapshot[d].monitored
    BY <1>0, <2>2 DEF Expire, SnapshotsOK, SnapshotStates
  <2>3. ASSUME NEW e \in Snapshots, RemoveExpired(e)
        PROVE  \A d \in Snapshots : snapshot'[d].monitored => snapshot[d].monitored
    BY <1>0, <2>3 DEF RemoveExpired, Absent, SnapshotsOK
  <2>4. CASE UNCHANGED snapshot
    BY <2>4
  <2> QED
    BY <2>1, <2>2, <2>3, <2>4
    DEF IsAddressActive, IsAddressMonitored, GetActiveAddresses,
        FailGetActiveAddresses, GetExpiredAddresses, ListWebhooks, GetWebhookDetails,
        FailGetWebhookDetails, FindLatestSnapshot, GiveUp, PortfolioRedisUpdated,
        ReconcileWebhookAddresses, IntervalOver
<1>3. \A i \in Passes :
         pass[i].pc \in {"mark", "unmark"} \/ pass'[i].pc = "mark" => pass'[i] = pass[i]
  <2> DEFINE Quiet == \A i \in Passes :
                pass[i].pc \in {"mark", "unmark"} \/ pass'[i].pc = "mark" =>
                   pass'[i] = pass[i]
  <2> SUFFICES Quiet
    OBVIOUS
  <2>1. ASSUME NEW i \in Passes, pass[i].pc \notin {"mark", "unmark"},
               pass'[i].pc # "mark", \A j \in Passes \ {i} : pass'[j] = pass[j]
        PROVE  Quiet
    BY <2>1
  <2> HIDE DEF Quiet
  <2>2. ASSUME NEW i \in Passes, NEW pc, pc # "mark",
               pass[i].pc \notin {"mark", "unmark"}, Goto(i, pc)
        PROVE  Quiet
    BY <2>1, <2>2, GotoEffect
  <2>3. ASSUME NEW i \in Passes, pass[i].pc \notin {"mark", "unmark"}, Finish(i)
        PROVE  Quiet
    BY <2>1, <2>3, FinishEffect
  <2>4. ASSUME NEW i \in Passes,
               SaveSnapshot(i) \/ IsAddressMonitored(i) \/ GiveUp(i)
        PROVE  Quiet
    <3>1. /\ pass[i].pc \notin {"mark", "unmark"}
          /\ Finish(i) \/ Goto(i, "isActive") \/ Goto(i, "update")
      BY <2>4 DEF SaveSnapshot, IsAddressMonitored, GiveUp, At
    <3> QED BY <2>2, <2>3, <3>1
  <2>5. CASE \/ FailGetActiveAddresses \/ ListWebhooks \/ FailGetWebhookDetails
             \/ ReconcileWebhookAddresses
    BY <2>2, <2>3, <2>5, NamedPasses
    DEF FailGetActiveAddresses, ListWebhooks, FailGetWebhookDetails,
        ReconcileWebhookAddresses, At
  <2>6. ASSUME NEW i \in Passes, IsAddressActive(i) PROVE Quiet
    <3>1. PICK d \in pass[i].subject :
             pass' = [pass EXCEPT ![i] =
                IF Active(d[1]) THEN [@ EXCEPT !.pc = "isMonitored", !.add = {d[1]}]
                ELSE [@ EXCEPT !.pc = "isMonitored", !.remove = {d[1]}]]
      BY <2>6 DEF IsAddressActive
    <3>2. /\ pass'[i].pc = "isMonitored"
          /\ \A j \in Passes \ {i} : pass'[j] = pass[j]
      BY <1>0, <3>1 DEF PassesOK, PassStates
    <3>3. pass[i].pc = "isActive"
      BY <2>6 DEF IsAddressActive, At
    <3> QED BY <2>1, <3>2, <3>3
  <2>7. CASE GetActiveAddresses
    <3>1. /\ pass[Sweep].pc = "getActive" /\ pass'[Sweep].pc = "getExpired"
          /\ \A j \in Passes \ {Sweep} : pass'[j] = pass[j]
      BY <1>0, <2>7, NamedPasses DEF GetActiveAddresses, At, PassesOK, PassStates
    <3> QED BY <2>1, <3>1, NamedPasses
  <2>8. CASE GetExpiredAddresses
    <3>1. PICK remove :
             \/ Finish(Sweep)
             \/ pass' = [pass EXCEPT ![Sweep].pc = "update", ![Sweep].remove = remove]
      BY <2>8 DEF GetExpiredAddresses
    <3>2. pass[Sweep].pc = "getExpired"
      BY <2>8 DEF GetExpiredAddresses, At
    <3>3. CASE pass' = [pass EXCEPT ![Sweep].pc = "update", ![Sweep].remove = remove]
      <4>1. /\ pass'[Sweep].pc = "update"
            /\ \A j \in Passes \ {Sweep} : pass'[j] = pass[j]
        BY <1>0, <3>3, NamedPasses DEF PassesOK, PassStates
      <4> QED BY <2>1, <3>2, <4>1, NamedPasses
    <3> QED BY <2>3, <3>1, <3>2, <3>3, NamedPasses
  <2>9. CASE GetWebhookDetails
    <3>1. pass[Nightly].pc = "getDetails"
      BY <2>9 DEF GetWebhookDetails, At
    <3>2. CASE pass' = [pass EXCEPT ![Nightly].pc = "find",
                                    ![Nightly].todo = WithoutDefault(listed)]
      <4>1. /\ pass'[Nightly].pc = "find"
            /\ \A j \in Passes \ {Nightly} : pass'[j] = pass[j]
        BY <1>0, <3>2, NamedPasses DEF PassesOK, PassStates
      <4> QED BY <2>1, <3>1, <4>1, NamedPasses
    <3> QED BY <2>3, <2>9, <3>1, <3>2, NamedPasses DEF GetWebhookDetails
  <2>10. ASSUME NEW a \in pass[Nightly].todo, FindLatestSnapshot(a) PROVE Quiet
    <3> DEFINE todo == pass[Nightly].todo \ {a}
               remove == IF Valid(a) THEN pass[Nightly].remove
                         ELSE pass[Nightly].remove \cup {a}
               place == IF todo = {} THEN "update" ELSE "find"
    <3>1. /\ pass[Nightly].pc = "find" /\ place \in {"update", "find"}
          /\ \/ Finish(Nightly)
             \/ pass' = [pass EXCEPT ![Nightly].todo = todo, ![Nightly].remove = remove,
                                     ![Nightly].pc = place]
      BY <2>10 DEF FindLatestSnapshot, At
    <3> HIDE DEF todo, remove, place
    <3>2. CASE pass' = [pass EXCEPT ![Nightly].todo = todo, ![Nightly].remove = remove,
                                    ![Nightly].pc = place]
      <4>1. /\ pass'[Nightly].pc = place
            /\ \A j \in Passes \ {Nightly} : pass'[j] = pass[j]
        BY <1>0, <3>2, NamedPasses DEF PassesOK, PassStates
      <4> QED BY <2>1, <3>1, <4>1, NamedPasses
    <3> QED BY <2>3, <3>1, <3>2, NamedPasses
  <2>11. ASSUME NEW i \in Listeners, NEW d \in Snapshots, PortfolioRedisUpdated(i, d)
         PROVE  Quiet
    BY <2>11, NamedPasses DEF PortfolioRedisUpdated, At, Idle, Quiet
  <2>12. CASE UNCHANGED pass
    BY <2>12 DEF Quiet
  <2> QED
    BY <2>4, <2>5, <2>6, <2>7, <2>8, <2>9, <2>10, <2>11, <2>12
    DEF Expire, RemoveExpired, IntervalOver
<1> QED BY <1>1, <1>2, <1>3, QuietStep

\* The webhookMonitored flag of a snapshot says that its address is on Alchemy's
\* list, or the pass that took it off is about to unset it, for any number of
\* listeners: but for addresses that two passes worked on against each other, or
\* whose removal was left half done by a failure or a restart.
THEOREM FlagTrustedHolds == Spec => []FlagTrusted
<1>1. Init => TrustInv
  BY DEF Init, Absent, Idle, TrustInv, OppositionTainted, MarkJustified, FlagTrusted,
         Opposed, Flagged, Of
<1>2. TypeInv /\ TrustInv /\ [Next]_vars => TrustInv'
  <2>1. CASE UNCHANGED vars
    BY <2>1
    DEF vars, TrustInv, OppositionTainted, MarkJustified, FlagTrusted, Opposed,
        Flagged, Of
  <2> QED
    BY <2>1, QuietSteps, UpdateTrust, MarkTrust, UnmarkTrust, RestartTrust
    DEF Next, Succeed, Fail
<1>3. TrustInv => FlagTrusted
  BY DEF TrustInv
<1> QED BY <1>1, <1>2, <1>3, TypeInvHolds, PTL DEF Spec
=============================================================================
