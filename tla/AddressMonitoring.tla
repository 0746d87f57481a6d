-------------------------- MODULE AddressMonitoring -------------------------
(***************************************************************************)
(* Which addresses of a chain Alchemy reports activity of.  Three writers  *)
(* keep Alchemy's list and the webhookMonitored flags of the portfolio     *)
(* snapshots in step, without a transaction:                               *)
(*   - the listener of core/portfolio/portfolio-mongo.listener.ts, which   *)
(*     saves the snapshot of a PORTFOLIO_REDIS_UPDATED event and then      *)
(*     adds or removes its address;                                        *)
(*   - the listener of core/cache/portfolio-mongo.listener.ts, which       *)
(*     sweeps all addresses of the chain upon the same event;              *)
(*   - webhook/webhook-address-reconciliation.service.ts, every night and  *)
(*     5 seconds after the start.                                          *)
(* One process and one chain with one webhook (WebhookCreation is about    *)
(* how many there are).  An action is the effect of one call together with *)
(* the code up to the next await.                                          *)
(***************************************************************************)
EXTENDS FiniteSets

CONSTANTS
    Addresses,  \* addresses that clients ask for
    Default,    \* DEFAULT_MONITORED_ADDRESS, with which webhooks are created
    Providers,  \* an address has one snapshot per provider
    Listeners,  \* slots of concurrently running per-address listeners
    Sweep,      \* the chain-wide listener (bound: one run at a time)
    Nightly,    \* the reconciliation
    Chain       \* the throttle key of the chain

ASSUME PassesDiffer == Sweep # Nightly /\ {Sweep, Nightly} \cap Listeners = {}

Passes == Listeners \cup {Sweep, Nightly}

Snapshots == Addresses \X Providers

VARIABLES
    snapshot,   \* snapshot[d]: whether it is there and unexpired, its flag
    listed,     \* the addresses of the webhook at Alchemy
    throttled,  \* processedAddresses and processedChains, less than 5 minutes old
    pass,       \* pass[i]: where the writer is
    lapsed,     \* expired since the reconciliation took its `now`
    tainted     \* history: see Track

vars == <<snapshot, listed, throttled, pass, lapsed, tainted>>

-----------------------------------------------------------------------------
Absent == [state |-> "absent", monitored |-> FALSE]

\* A pass that has nothing to do.  `subject` is what a per-address listener is
\* about, `todo` what the reconciliation has yet to look up; `add` and `remove`
\* are its arguments of updateWebhookAddresses.
Idle == [pc |-> "idle", subject |-> {}, todo |-> {}, add |-> {}, remove |-> {}]

Init ==
    /\ snapshot = [d \in Snapshots |-> Absent]
    /\ listed = {Default}
    /\ throttled = {}
    /\ pass = [i \in Passes |-> Idle]
    /\ lapsed = {}
    /\ tainted = {}

At(i, pc) == pass[i].pc = pc

Goto(i, pc) == pass' = [pass EXCEPT ![i].pc = pc]

Finish(i) == pass' = [pass EXCEPT ![i] = Idle]

Of(a) == {d \in Snapshots : d[1] = a}

\* isAddressActive and isAddressMonitored.
Active(a) == \E d \in Of(a) : snapshot[d].state = "fresh"

Flagged(a) == \E d \in Of(a) : snapshot[d].monitored

(* An address is tainted when one pass is adding and another one removing  *)
(* it, or when it was removed at Alchemy and its flag could not be, until  *)
(* nothing of that is left.                                                *)

Involved(a) == \E i \in Passes : a \in pass[i].add \cup pass[i].remove

Opposed(a) ==
    \E i, j \in Passes : i # j /\ a \in pass[i].add /\ a \in pass[j].remove

Track(broken) ==
    tainted' = {a \in Addresses :
                   /\ a \in tainted \cup broken \/ Opposed(a)'
                   /\ Flagged(a)' \/ Involved(a)'}

-----------------------------------------------------------------------------
(* PORTFOLIO_REDIS_UPDATED reaches both listeners, which run up to their   *)
(* first await: the one starts to save, the other passes its throttle.     *)

PortfolioRedisUpdated(i, d) ==
    /\ At(i, "idle")
    /\ Chain \in throttled \/ At(Sweep, "idle")
    /\ pass' = [j \in Passes |->
          IF j = i THEN [Idle EXCEPT !.pc = "save", !.subject = {d}]
          ELSE IF j = Sweep /\ Chain \notin throttled
          THEN [Idle EXCEPT !.pc = "getActive"]
          ELSE pass[j]]
    /\ throttled' = throttled \cup {Chain}
    /\ UNCHANGED <<snapshot, listed, lapsed>>
    /\ Track({})

(* The per-address listener.                                               *)

\* savePortfolioSnapshot leaves the flag of a snapshot that is there alone;
\* then updateWebhookAddresses passes its throttle.
SaveSnapshot(i) ==
    \E d \in pass[i].subject :
       /\ At(i, "save")
       /\ snapshot' = [snapshot EXCEPT ![d].state = "fresh"]
       /\ lapsed' = lapsed \ {d}
       /\ IF d[1] \in throttled THEN Finish(i) ELSE Goto(i, "isActive")
       /\ throttled' = throttled \cup {d[1]}
       /\ UNCHANGED listed
       /\ Track({})

IsAddressActive(i) ==
    \E d \in pass[i].subject :
       /\ At(i, "isActive")
       /\ pass' = [pass EXCEPT ![i] =
             IF Active(d[1]) THEN [@ EXCEPT !.pc = "isMonitored", !.add = {d[1]}]
             ELSE [@ EXCEPT !.pc = "isMonitored", !.remove = {d[1]}]]
       /\ UNCHANGED <<snapshot, listed, throttled, lapsed>>
       /\ Track({})

\* Active and not monitored is added, monitored and not active is removed.
IsAddressMonitored(i) ==
    \E d \in pass[i].subject :
       /\ At(i, "isMonitored")
       /\ IF Flagged(d[1]) <=> d[1] \in pass[i].remove
          THEN Goto(i, "update") ELSE Finish(i)
       /\ UNCHANGED <<snapshot, listed, throttled, lapsed>>
       /\ Track({})

(* The chain-wide listener.  A query that fails counts as an empty answer. *)

GetActiveAddresses ==
    /\ At(Sweep, "getActive")
    /\ pass' = [pass EXCEPT ![Sweep].pc = "getExpired", ![Sweep].add =
          {a \in Addresses : \E d \in Of(a) :
              snapshot[d].state = "fresh" /\ ~snapshot[d].monitored}]
    /\ UNCHANGED <<snapshot, listed, throttled, lapsed>>
    /\ Track({})

FailGetActiveAddresses ==
    /\ At(Sweep, "getActive")
    /\ Goto(Sweep, "getExpired")
    /\ UNCHANGED <<snapshot, listed, throttled, lapsed>>
    /\ Track({})

ExpiredAddresses ==
    {a \in Addresses : \E d \in Of(a) :
        snapshot[d].state = "expired" /\ snapshot[d].monitored}

\* Slip: the sweep calls updateWebhookAddresses in any case.
SweepAnyway ==
    /\ At(Sweep, "getExpired")
    /\ \E remove \in {ExpiredAddresses, {}} :
          pass' = [pass EXCEPT ![Sweep].pc = "update", ![Sweep].remove = remove]
    /\ UNCHANGED <<snapshot, listed, throttled, lapsed>>
    /\ Track({})

\* With nothing to add or remove the sweep is over.
GetExpiredAddresses ==
    /\ At(Sweep, "getExpired")
    /\ \E remove \in {ExpiredAddresses, {}} :
          IF pass[Sweep].add = {} /\ remove = {} THEN Finish(Sweep)
          ELSE pass' = [pass EXCEPT ![Sweep].pc = "update", ![Sweep].remove = remove]
    /\ UNCHANGED <<snapshot, listed, throttled, lapsed>>
    /\ Track({})

(* The reconciliation.                                                     *)

ReconcileWebhookAddresses ==
    /\ At(Nightly, "idle")
    /\ Goto(Nightly, "list")
    /\ UNCHANGED <<snapshot, listed, throttled, lapsed>>
    /\ Track({})

\* getExistingWebhooks found the webhook of this chain and URL.
ListWebhooks ==
    /\ At(Nightly, "list")
    /\ Goto(Nightly, "getDetails")
    /\ UNCHANGED <<snapshot, listed, throttled, lapsed>>
    /\ Track({})

WithDefault(s) == s   \* slip: the default address is looked up like the others

\* The default address is never looked up, and so never removed.
WithoutDefault(s) == s \ {Default}

\* getWebhookDetailsWithSdk answers; `now` is taken once, here.
GetWebhookDetails ==
    /\ At(Nightly, "getDetails")
    /\ lapsed' = {}
    /\ IF WithoutDefault(listed) = {} THEN Finish(Nightly)
       ELSE pass' = [pass EXCEPT ![Nightly].pc = "find",
                                 ![Nightly].todo = WithoutDefault(listed)]
    /\ UNCHANGED <<snapshot, listed, throttled>>
    /\ Track({})

\* Slip: an address of which there is no snapshot at all is kept.
UnlessExpired(a) == \A d \in Of(a) : d \in lapsed \/ snapshot[d].state # "expired"

\* Unexpired at the `now` of the reconciliation, or saved since.
Valid(a) ==
    \E d \in Of(a) : d \in lapsed \/ snapshot[d].state = "fresh"

\* findOne for one address after the other.
FindLatestSnapshot(a) ==
    LET todo == pass[Nightly].todo \ {a}
        remove == IF Valid(a) THEN pass[Nightly].remove
                  ELSE pass[Nightly].remove \cup {a}
    IN
    /\ At(Nightly, "find")
    /\ a \in pass[Nightly].todo
    /\ IF todo = {} /\ remove = {} THEN Finish(Nightly)
       ELSE pass' = [pass EXCEPT ![Nightly].todo = todo, ![Nightly].remove = remove,
                       ![Nightly].pc = IF todo = {} THEN "update" ELSE "find"]
    /\ UNCHANGED <<snapshot, listed, throttled, lapsed>>
    /\ Track({})

(* What the three have in common.                                          *)

\* updateWebhook at Alchemy; what it does with an address that is to be added
\* and removed is up to it.
NewLists(i) ==
    {(listed \cup pass[i].add) \ (pass[i].remove \ both) :
        both \in SUBSET (pass[i].add \cap pass[i].remove)}

\* updateWebhookAddresses succeeds; the flags follow.
UpdateWebhookAddresses(i) ==
    /\ At(i, "update")
    /\ listed' \in NewLists(i)
    /\ Goto(i, IF pass[i].add # {} THEN "mark" ELSE "unmark")
    /\ UNCHANGED <<snapshot, throttled, lapsed>>
    /\ Track({})

\* It returns false, with or without effect at Alchemy, and the pass is over.
FailUpdateWebhookAddresses(i) ==
    /\ At(i, "update")
    /\ listed' \in NewLists(i) \cup {listed}
    /\ Finish(i)
    /\ UNCHANGED <<snapshot, throttled, lapsed>>
    /\ Track(pass[i].remove)

Flag(addresses, value) ==
    snapshot' = [d \in Snapshots |->
       IF d[1] \in addresses /\ snapshot[d].state # "absent"
       THEN [snapshot[d] EXCEPT !.monitored = value] ELSE snapshot[d]]

\* What follows markAddressesAsMonitored.
AfterMark(i) == IF pass[i].remove # {} THEN Goto(i, "unmark") ELSE Finish(i)

MarkAddressesAsMonitored(i) ==
    /\ At(i, "mark")
    /\ Flag(pass[i].add, TRUE)
    /\ AfterMark(i)
    /\ UNCHANGED <<listed, throttled, lapsed>>
    /\ Track({})

FailMarkAddressesAsMonitored(i) ==
    /\ At(i, "mark")
    /\ AfterMark(i)
    /\ UNCHANGED <<snapshot, listed, throttled, lapsed>>
    /\ Track({})

\* Slip: the reconciliation removes at Alchemy and leaves the flags alone.
UnmarkUnlessNightly(i) ==
    /\ At(i, "unmark")
    /\ Flag(IF i = Nightly THEN {} ELSE pass[i].remove, FALSE)
    /\ Finish(i)
    /\ UNCHANGED <<listed, throttled, lapsed>>
    /\ Track({})

UnmarkExpiredAddresses(i) ==
    /\ At(i, "unmark")
    /\ Flag(pass[i].remove, FALSE)
    /\ Finish(i)
    /\ UNCHANGED <<listed, throttled, lapsed>>
    /\ Track({})

FailUnmarkExpiredAddresses(i) ==
    /\ At(i, "unmark")
    /\ Finish(i)
    /\ UNCHANGED <<snapshot, listed, throttled, lapsed>>
    /\ Track(pass[i].remove)

\* A failing getWebhookDetailsWithSdk answers with an empty list: nothing to do.
FailGetWebhookDetails ==
    /\ At(Nightly, "getDetails")
    /\ Finish(Nightly)
    /\ UNCHANGED <<snapshot, listed, throttled, lapsed>>
    /\ Track({})

\* Any other call fails, or finds nothing: the pass is over.
GiveUp(i) ==
    /\ pass[i].pc \in {"save", "isActive", "isMonitored", "list", "find"}
    /\ Finish(i)
    /\ UNCHANGED <<snapshot, listed, throttled, lapsed>>
    /\ Track({})

Succeed(i) ==
    \/ SaveSnapshot(i)
    \/ IsAddressActive(i)
    \/ IsAddressMonitored(i)
    \/ i = Sweep /\ GetActiveAddresses
    \/ i = Sweep /\ GetExpiredAddresses
    \/ i = Nightly /\ ListWebhooks
    \/ i = Nightly /\ GetWebhookDetails
    \/ i = Nightly /\ \E a \in pass[i].todo : FindLatestSnapshot(a)
    \/ UpdateWebhookAddresses(i)
    \/ MarkAddressesAsMonitored(i)
    \/ UnmarkExpiredAddresses(i)

Fail(i) ==
    \/ i = Sweep /\ FailGetActiveAddresses
    \/ i = Nightly /\ FailGetWebhookDetails
    \/ FailUpdateWebhookAddresses(i)
    \/ FailMarkAddressesAsMonitored(i)
    \/ FailUnmarkExpiredAddresses(i)
    \/ GiveUp(i)

-----------------------------------------------------------------------------
(* The environment.                                                        *)

\* The snapshot's 30 minutes are over, or an activity expires it.
Expire(d) ==
    /\ snapshot[d].state = "fresh"
    /\ snapshot' = [snapshot EXCEPT ![d].state = "expired"]
    /\ lapsed' = IF At(Nightly, "find") THEN lapsed \cup {d} ELSE lapsed
    /\ UNCHANGED <<listed, throttled, pass>>
    /\ Track({})

\* MongoDB's TTL monitor, and the flag goes with the document.
RemoveExpired(d) ==
    /\ snapshot[d].state = "expired"
    /\ snapshot' = [snapshot EXCEPT ![d] = Absent]
    /\ lapsed' = lapsed \ {d}
    /\ UNCHANGED <<listed, throttled, pass>>
    /\ Track({})

NoIntervalOver(key) == FALSE   \* slip: what was processed once is throttled for good

\* The 5 minutes of a throttle are over.
IntervalOver(key) ==
    /\ key \in throttled
    /\ throttled' = throttled \ {key}
    /\ UNCHANGED <<snapshot, listed, pass, lapsed>>
    /\ Track({})

\* The process ends and starts again; the throttles are in its memory.
Restart ==
    /\ pass' = [i \in Passes |-> Idle]
    /\ throttled' = {}
    /\ UNCHANGED <<snapshot, listed, lapsed>>
    /\ Track(UNION {pass[i].remove : i \in Passes})

Next ==
    \/ \E i \in Listeners, d \in Snapshots : PortfolioRedisUpdated(i, d)
    \/ ReconcileWebhookAddresses
    \/ \E i \in Passes : Succeed(i) \/ Fail(i)
    \/ \E d \in Snapshots : Expire(d) \/ RemoveExpired(d)
    \/ \E key \in Addresses \cup {Chain} : IntervalOver(key)
    \/ Restart

(* Every call is answered or fails, and no call fails for ever; the nights *)
(* and intervals pass.  Clients need not ask, processes need not restart.  *)
Fairness ==
    /\ \A i \in Passes : WF_vars(Succeed(i) \/ Fail(i))
    /\ SF_vars(GetActiveAddresses)
    /\ SF_vars(ListWebhooks)
    /\ SF_vars(GetWebhookDetails)
    /\ SF_vars(\E a \in pass[Nightly].todo : FindLatestSnapshot(a))
    /\ \A i \in {Sweep, Nightly} : SF_vars(UpdateWebhookAddresses(i))
    /\ WF_vars(ReconcileWebhookAddresses)
    /\ WF_vars(IntervalOver(Chain))

Spec == Init /\ [][Next]_vars /\ Fairness

-----------------------------------------------------------------------------
(* Properties.                                                             *)

SnapshotStates ==
    [state : {"absent", "fresh", "expired"}, monitored : BOOLEAN]

PassStates ==
    [pc : {"idle", "save", "isActive", "isMonitored", "getActive", "getExpired",
           "list", "getDetails", "find", "update", "mark", "unmark"},
     subject : SUBSET Snapshots, todo : SUBSET (Addresses \cup {Default}),
     add : SUBSET Addresses, remove : SUBSET (Addresses \cup {Default})]

\* The type invariant; no flag without a document, and updateWebhookAddresses
\* is never called with nothing to do.
TypeOK ==
    /\ snapshot \in [Snapshots -> SnapshotStates]
    /\ \A d \in Snapshots : snapshot[d].state = "absent" => ~snapshot[d].monitored
    /\ listed \subseteq Addresses \cup {Default}
    /\ throttled \subseteq Addresses \cup {Chain}
    /\ pass \in [Passes -> PassStates]
    /\ \A i \in Passes : At(i, "update") => pass[i].add \cup pass[i].remove # {}
    /\ lapsed \subseteq Snapshots
    /\ tainted \subseteq Addresses

\* A flag can be trusted: an address with a flagged snapshot is on Alchemy's
\* list, or the pass that removed it is about to unset the flag, unless two
\* passes worked against each other or a removal was left half done.  (A flag
\* that is wrong keeps the listeners from adding the address.)
FlagTrusted ==
    \A a \in Addresses : Flagged(a) /\ a \notin tainted =>
       \/ a \in listed
       \/ \E i \in Passes : a \in pass[i].remove /\ pass[i].pc \in {"mark", "unmark"}

\* The default address goes off the list only where a listener removes it, as it
\* removes any address that clients asked for and that has expired: never by the
\* reconciliation, which looks up everything else on the list.
OnlyListenersDropDefault ==
    [][(Default \in listed /\ Default \notin listed') =>
          \E i \in Passes \ {Nightly} :
             At(i, "update") /\ Default \in pass[i].remove /\ ~At(i, "update")']_vars

\* What is said of the default address at DEFAULT_MONITORED_ADDRESS: it is never
\* removed automatically.
DefaultNeverRemoved == Default \in listed

\* From some time on the process is not restarted any more.
StaysUp == <>[][~Restart]_vars

EventsGoOn ==
    []<><<\E i \in Listeners, d \in Snapshots : PortfolioRedisUpdated(i, d)>>_vars

\* An address that stays in demand comes to be monitored, and back whenever it
\* is removed, as long as events for the chain go on: though throttles suppress
\* attempts, passes fail and read what others are changing.
DemandMonitored ==
    StaysUp /\ EventsGoOn =>
       \A a \in Addresses : <>[]Active(a) => []<>(a \in listed \cup tainted)

\* An address nobody asks for any more is in the end not monitored, even though
\* the documents that carry the flags disappear by themselves.
ForgottenUnmonitored ==
    StaysUp =>
       \A a \in Addresses \ {Default} : <>[](~Active(a)) => <>[](a \notin listed)
=============================================================================
