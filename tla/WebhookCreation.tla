--------------------------- MODULE WebhookCreation --------------------------
(***************************************************************************)
(* How a chain gets its webhook at Alchemy: getWebhookIdForChain and       *)
(* createNewWebhook of webhook/webhook-management.service.ts.              *)
(*                                                                         *)
(* A caller is one run of getWebhookIdForChain, in whichever process; what *)
(* callers share is the creation lock, a key of the cache with a lifetime  *)
(* of 30 seconds, and Alchemy's list of webhooks.  Lock key and filter     *)
(* name the chain, so chains do not meet and one is enough.  Webhooks that *)
(* do not match the filter (network, type, URL, active) are left out.      *)
(*                                                                         *)
(* Every action is the effect of one call together with the code up to the *)
(* next await.  None of the calls has a timeout, so any of them may take   *)
(* longer than the lock lives.                                             *)
(***************************************************************************)
EXTENDS Naturals, Sequences

CONSTANTS
    Callers,      \* slots of concurrently running callers
    MaxWebhooks,  \* bound: webhooks at Alchemy
    None          \* no lock

ASSUME ConstantsAssumption == MaxWebhooks \in Nat /\ None \notin Callers

VARIABLES
    configured,  \* API key, webhook URL and a client for the chain are there
    webhooks,    \* Alchemy's matching webhooks, oldest first; an id is a position
    lock,        \* the lock's holder (the code stores a time there), or None
    caller       \* caller[c]: where the caller is

vars == <<configured, webhooks, lock, caller>>

-----------------------------------------------------------------------------
(* History, which no guard reads: a caller is `raced` when it went for the *)
(* lock together with another one, or when its lock was taken from it      *)
(* before it had created; it is `blind` when its second look failed.  A    *)
(* webhook is TRUE (clean) if its creator was neither.                     *)

Idle == [pc |-> "idle", raced |-> FALSE, blind |-> FALSE]

Init ==
    /\ configured \in BOOLEAN
    /\ webhooks = <<>>
    /\ lock = None
    /\ caller = [c \in Callers |-> Idle]

At(c, pc) == caller[c].pc = pc

Goto(c, pc) == caller' = [caller EXCEPT ![c].pc = pc]

Finish(c) == caller' = [caller EXCEPT ![c] = Idle]

\* Between taking the lock and the creation.
Critical(c) == caller[c].pc \in {"recheck", "create"}

\* The lock goes, whoever holds it; a holder that still needs it is raced.
\* The caller `by` that deletes it moves on to `next`.
DeleteLock(by, next) ==
    /\ lock' = None
    /\ caller' = [c \in Callers |->
          IF c = by THEN next
          ELSE IF c = lock /\ Critical(c) THEN [caller[c] EXCEPT !.raced = TRUE]
          ELSE caller[c]]

-----------------------------------------------------------------------------
(* getWebhookIdForChain.                                                   *)

GetWebhookIdForChain(c) ==
    /\ At(c, "idle")
    /\ Goto(c, "list")
    /\ UNCHANGED <<configured, webhooks, lock>>

\* getExistingWebhooks answers: a matching webhook is the result, otherwise,
\* and also when the listing failed, createNewWebhook asks for the lock.
ListWebhooks(c) ==
    /\ At(c, "list")
    /\ \/ webhooks # <<>> /\ Finish(c)
       \/ webhooks = <<>> /\ Goto(c, "getLock")
       \/ Goto(c, "getLock")
    /\ UNCHANGED <<configured, webhooks, lock>>

-----------------------------------------------------------------------------
(* createNewWebhook.                                                       *)

LockIgnored(c) == TRUE   \* slip: the lock is set without looking

LockFree(c) == lock = None

Contenders(c) == {d \in Callers \ {c} : At(d, "setLock")}

\* The caller found no lock and goes on to set it, and so do the others that
\* have not found one either.
Proceed(c) ==
    caller' = [d \in Callers |->
       IF d \in Contenders(c) THEN [caller[d] EXCEPT !.raced = TRUE]
       ELSE IF d = c
       THEN [caller[c] EXCEPT !.pc = "setLock", !.raced = Contenders(c) # {}]
       ELSE caller[d]]

\* Slip: a caller that finds the lock starts over instead of giving up.
PollForLock(c) ==
    /\ At(c, "getLock")
    /\ \/ ~LockFree(c) /\ Goto(c, "list")
       \/ LockFree(c) /\ Proceed(c)
    /\ UNCHANGED <<configured, webhooks, lock>>

\* cacheService.get: a caller that finds the lock gives up.
GetLock(c) ==
    /\ At(c, "getLock")
    /\ \/ ~LockFree(c) /\ Finish(c)
       \/ LockFree(c) /\ Proceed(c)
    /\ UNCHANGED <<configured, webhooks, lock>>

AnyConfiguration(c) == Goto(c, "recheck")   \* slip: nothing is checked

\* Without API key, URL or client the caller gives up, through the finally.
CheckConfiguration(c) == Goto(c, IF configured THEN "recheck" ELSE "release")

\* cacheService.set writes over what is there.
SetLock(c) ==
    /\ At(c, "setLock")
    /\ lock' = c
    /\ CheckConfiguration(c)
    /\ UNCHANGED <<configured, webhooks>>

\* Slip: the second look is left out.
CreateAtOnce(c) ==
    /\ At(c, "recheck")
    /\ Goto(c, "create")
    /\ UNCHANGED <<configured, webhooks, lock>>

\* getExistingWebhookIdForChain: a webhook that has appeared meanwhile is the
\* result; a listing that fails is taken for one without any.
Recheck(c) ==
    /\ At(c, "recheck")
    /\ \/ webhooks # <<>> /\ Goto(c, "release")
       \/ webhooks = <<>> /\ Goto(c, "create")
       \/ caller' = [caller EXCEPT ![c].pc = "create", ![c].blind = TRUE]
    /\ UNCHANGED <<configured, webhooks, lock>>

\* client.notify.createWebhook takes effect; whether its answer arrives is the
\* same to what follows.
CreateWebhook(c) ==
    /\ At(c, "create")
    /\ Len(webhooks) < MaxWebhooks
    /\ webhooks' = Append(webhooks, ~caller[c].raced /\ ~caller[c].blind)
    /\ Goto(c, "release")
    /\ UNCHANGED <<configured, lock>>

FailCreateWebhook(c) ==
    /\ At(c, "create")
    /\ Goto(c, "release")
    /\ UNCHANGED <<configured, webhooks, lock>>

\* The finally deletes the lock.
ReleaseLock(c) ==
    /\ At(c, "release")
    /\ DeleteLock(c, Idle)
    /\ UNCHANGED <<configured, webhooks>>

\* get, set or delete failed, with or without effect: the outer catch tries to
\* delete the lock once more, whoever holds it.
FailCache(c) ==
    LET next == [caller[c] EXCEPT !.pc = "releaseAgain"] IN
    /\ \/ /\ caller[c].pc \in {"getLock", "setLock", "release"}
          /\ caller' = [caller EXCEPT ![c] = next]
          /\ UNCHANGED lock
       \/ /\ At(c, "setLock")
          /\ caller' = [caller EXCEPT ![c] = next]
          /\ lock' = c
       \/ /\ At(c, "release")
          /\ DeleteLock(c, next)
    /\ UNCHANGED <<configured, webhooks>>

ReleaseAgain(c) ==
    /\ At(c, "releaseAgain")
    /\ \/ DeleteLock(c, Idle)
       \/ Finish(c) /\ UNCHANGED lock
    /\ UNCHANGED <<configured, webhooks>>

CallerStep(c) ==
    \/ ListWebhooks(c)
    \/ GetLock(c)
    \/ SetLock(c)
    \/ Recheck(c)
    \/ CreateWebhook(c)
    \/ FailCreateWebhook(c)
    \/ ReleaseLock(c)
    \/ FailCache(c)
    \/ ReleaseAgain(c)

-----------------------------------------------------------------------------
(* The environment.                                                        *)

\* Slip: a look at the lock sets its lifetime anew, so it does not end while
\* there are callers on their way to it.
ExpiresUnvisited ==
    /\ lock # None
    /\ \A c \in Callers : ~At(c, "list") /\ ~At(c, "getLock")
    /\ DeleteLock(None, Idle)
    /\ UNCHANGED <<configured, webhooks>>

\* The lock's 30 seconds are over.
LockExpires ==
    /\ lock # None
    /\ DeleteLock(None, Idle)
    /\ UNCHANGED <<configured, webhooks>>

\* The caller's process ends where it is; its lock stays.
Crash(c) ==
    /\ ~At(c, "idle")
    /\ Finish(c)
    /\ UNCHANGED <<configured, webhooks, lock>>

Next ==
    \/ \E c \in Callers : GetWebhookIdForChain(c)
    \/ \E c \in Callers : CallerStep(c)
    \/ \E c \in Callers : Crash(c)
    \/ LockExpires

(* Every call is answered or fails, and the lock's lifetime ends.  Nobody  *)
(* is obliged to ask.                                                      *)
Fairness ==
    /\ \A c \in Callers : WF_vars(CallerStep(c))
    /\ WF_vars(LockExpires)

Spec == Init /\ [][Next]_vars /\ Fairness

-----------------------------------------------------------------------------
(* Properties.                                                             *)

CallerStates ==
    [pc : {"idle", "list", "getLock", "setLock", "recheck", "create",
           "release", "releaseAgain"},
     raced : BOOLEAN, blind : BOOLEAN]

\* The type invariant; without a configuration nothing is ever created.
TypeOK ==
    /\ configured \in BOOLEAN
    /\ webhooks \in Seq(BOOLEAN)
    /\ Len(webhooks) <= MaxWebhooks
    /\ lock \in Callers \cup {None}
    /\ caller \in [Callers -> CallerStates]
    /\ ~configured => webhooks = <<>> /\ \A c \in Callers : ~Critical(c)

Clean == {i \in DOMAIN webhooks : webhooks[i]}

\* What lock and second look achieve together, however callers interleave, fail
\* and crash: of the webhooks of a chain at most one was created by a caller
\* that had the lock to itself and whose second look was answered.
OneCleanWebhook == \A i, j \in Clean : i = j

(* Why OneCleanWebhook holds: the conjuncts that make it inductive.        *)

Unraced(c) == Critical(c) /\ ~caller[c].raced

\* Who is creating and was never raced holds the lock.
UnracedHolds == \A c \in Callers : Unraced(c) => lock = c

\* Nobody is about to overwrite the lock of such a caller.
PendingExcludes ==
    \A c, d \in Callers : At(c, "setLock") => ~Unraced(d)

\* Two callers that are both about to set the lock know each other as racing.
ContendersRaced ==
    \A c, d \in Callers :
       c # d /\ At(c, "setLock") /\ At(d, "setLock") => caller[c].raced

\* Once there is a clean webhook nobody is about to create another.
CleanIsFinal ==
    Clean # {} =>
       \A c \in Callers :
          At(c, "create") => caller[c].raced \/ caller[c].blind

CreationInv ==
    /\ UnracedHolds
    /\ PendingExcludes
    /\ ContendersRaced
    /\ CleanIsFinal
    /\ OneCleanWebhook

\* What the comment at createNewWebhook says of the lock: it prevents callers
\* from creating a webhook of the same chain at the same time.
CreatorsExclude == \A c, d \in Callers : Critical(c) /\ Critical(d) => c = d

\* Every caller gets its answer, also one that meets a lock.
CallAnswered == \A c \in Callers : ~At(c, "idle") ~> At(c, "idle")

\* A step in which c, which has found no lock, does not get further: its process
\* ends, or one of its calls fails.
Stopped(c) ==
    LET next == caller'[c].pc IN
    \/ caller[c].pc \in {"setLock", "recheck", "create"} /\ next = "idle"
    \/ At(c, "getLock") /\ lock = None /\ next = "idle"
    \/ caller[c].pc \in {"getLock", "setLock"} /\ next = "releaseAgain"
    \/ At(c, "create") /\ next = "release" /\ UNCHANGED webhooks

\* A chain gets its webhook in the end, whatever locks crashed and failing callers
\* have left behind, as long as callers keep coming that do not fail: those that
\* meet a lock give up, and their looking at it must not keep it alive.
WebhookComes ==
    /\ configured
    /\ <>[][\A c \in Callers : ~Stopped(c)]_vars
    /\ []<>(\E c \in Callers : At(c, "getLock"))
    => <>(webhooks # <<>>)
=============================================================================
