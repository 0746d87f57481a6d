--------------------------- MODULE WebhookPipeline --------------------------
(***************************************************************************)
(* How an activity that Alchemy reports reaches the cache: handleWebhook   *)
(* of webhook/webhook.controller.ts, the signing keys of                   *)
(* webhook/webhook-management.service.ts, and processWebhookEvent of       *)
(* webhook/webhook.service.ts up to the events of NotificationService (the *)
(* activity handlers of PortfolioCache start there).                       *)
(*                                                                         *)
(* Alchemy, which is external, keeps a list of webhooks per chain, each    *)
(* with a signing key of its own; WebhookCreation is about how there come  *)
(* to be several.  It signs a delivery with its webhook's key and sends it *)
(* again until it gets a 2xx answer.  The process keeps keys in memory.    *)
(*                                                                         *)
(* An action is the effect of one call together with the code up to the    *)
(* next await; a key found in memory is verified in the same step.         *)
(***************************************************************************)
EXTENDS Naturals, Sequences, FiniteSets, SequencesExt, ChainTables

CONSTANTS
    Chains,       \* the chains that have webhooks
    Deliveries,   \* bound: what Alchemy reports in one behaviour
    Kinds,        \* the types of webhook event that occur
    MaxWebhooks,  \* bound: webhooks a chain ever has; a webhook is a number
    None          \* no key

ASSUME ConstantsAssumption ==
    /\ Chains \subseteq ChainNames
    /\ IsFiniteSet(Deliveries)
    /\ MaxWebhooks \in Nat \ {0}
    /\ None \notin Nat

VARIABLES
    configured,  \* the webhook URL and the Alchemy token are there
    webhooks,    \* webhooks[c]: the active webhooks of c, as Alchemy lists them
    created,     \* created[c]: how many there have been
    cache,       \* signingKeyCache: cache[c] is an unexpired key, or None
    delivery,    \* delivery[d]: what Alchemy sends and what has come of it
    post,        \* post[d]: where the POST of d is in the controller
    rejected,    \* history: rejections since the first webhook changed
    late         \* history: lookups under way when the first webhook changed

alchemy == <<webhooks, created>>
history == <<rejected, late>>
vars == <<configured, alchemy, cache, delivery, post, history>>

-----------------------------------------------------------------------------
Webhooks == 1 .. MaxWebhooks

Unsent == [sent |-> FALSE, chain |-> None, kind |-> None, by |-> None,
           stored |-> FALSE, announced |-> FALSE, accepted |-> FALSE]

Away == [pc |-> "away", key |-> None]

Init ==
    /\ configured \in BOOLEAN
    /\ webhooks = [c \in Chains |-> <<>>]
    /\ created = [c \in Chains |-> 0]
    /\ cache = [c \in Chains |-> None]
    /\ delivery = [d \in Deliveries |-> Unsent]
    /\ post = [d \in Deliveries |-> Away]
    /\ rejected = [c \in Chains |-> 0]
    /\ late = [c \in Chains |-> 0]

\* The webhook whose key getSigningKeyByUrl takes.
First(list) == IF list = <<>> THEN None ELSE Head(list)

Pending(d) == delivery[d].sent /\ ~delivery[d].accepted

At(d, pc) == post[d].pc = pc

Leave(d) == post' = [post EXCEPT ![d] = Away]

-----------------------------------------------------------------------------
(* Alchemy.                                                                *)

\* The list of c changes; where its first webhook changes, the history starts
\* anew: lookups that have read the old one are late.
Relist(c, list) ==
    LET lookups == {d \in Deliveries : At(d, "listed") /\ delivery[d].chain = c} IN
    /\ webhooks' = [webhooks EXCEPT ![c] = list]
    /\ IF First(list) = First(webhooks[c])
       THEN UNCHANGED history
       ELSE /\ rejected' = [rejected EXCEPT ![c] = 0]
            /\ late' = [late EXCEPT ![c] = Cardinality(lookups)]
    /\ UNCHANGED <<configured, cache, delivery, post>>

\* A webhook is created; nothing says at which end it is listed.
CreateWebhook(c) ==
    /\ created[c] < MaxWebhooks
    /\ created' = [created EXCEPT ![c] = @ + 1]
    /\ \/ Relist(c, Append(webhooks[c], created'[c]))
       \/ Relist(c, <<created'[c]>> \o webhooks[c])

\* A webhook is deleted or deactivated.
RemoveWebhook(c) ==
    /\ \E i \in DOMAIN webhooks[c] : Relist(c, RemoveAt(webhooks[c], i))
    /\ UNCHANGED created

\* A webhook of c has something to report.
Report(d) ==
    /\ ~delivery[d].sent
    /\ \E c \in Chains, kind \in Kinds :
          \E i \in DOMAIN webhooks[c] :
             delivery' = [delivery EXCEPT ![d] =
                [Unsent EXCEPT !.sent = TRUE, !.chain = c, !.kind = kind,
                               !.by = webhooks[c][i]]]
    /\ UNCHANGED <<configured, alchemy, cache, post, history>>

-----------------------------------------------------------------------------
(* handleWebhook, up to the verified signature.                            *)

\* The types of event whose network the controller looks at.
KindsWithNetwork ==
    {"ADDRESS_ACTIVITY", "NFT_ACTIVITY", "MINED_TRANSACTION", "DROPPED_TRANSACTION"}

NetworkId(d) == GetNetworkIdForChain[delivery[d].chain]

\* Whether a key is looked up at all.  Otherwise the answer is 400 or 401 and
\* nothing changes.
Verifiable(d) ==
    /\ configured
    /\ delivery[d].kind \in KindsWithNetwork
    /\ KnownNetwork(NetworkId(d))

ChainOf(d) == GetChainNameFromNetworkId(NetworkId(d))

KeepCache(entries) == entries   \* slip: a rejection leaves the keys in memory

ClearSigningKeyCache(entries) == [c \in Chains |-> None]

\* Bound: more rejections than that are not counted.
Counted(n) == IF n < Cardinality(Deliveries) + 2 THEN n + 1 ELSE n

\* The signature is checked with `key`, `entries` being the keys in memory.  One
\* that does not fit is answered with 401 and clears the keys of all chains.
ValidateAlchemySignature(d, key, entries) ==
    LET c == delivery[d].chain IN
    IF key = delivery[d].by
    THEN /\ post' = [post EXCEPT ![d] = [Away EXCEPT !.pc = "save"]]
         /\ cache' = entries
         /\ UNCHANGED rejected
    ELSE /\ Leave(d)
         /\ cache' = ClearSigningKeyCache(entries)
         /\ rejected' = IF delivery[d].by = First(webhooks[c])
                        THEN [rejected EXCEPT ![c] = Counted(@)] ELSE rejected

\* The POST arrives; getSigningKeyByUrl takes the key from memory, or lists.
HandleWebhook(d) ==
    /\ Pending(d) /\ At(d, "away") /\ Verifiable(d)
    /\ IF cache[ChainOf(d)] # None
       THEN ValidateAlchemySignature(d, cache[ChainOf(d)], cache)
       ELSE /\ post' = [post EXCEPT ![d] = [Away EXCEPT !.pc = "list"]]
            /\ UNCHANGED <<cache, rejected>>
    /\ UNCHANGED <<configured, alchemy, delivery, late>>

\* getExistingWebhooks at Alchemy.
GetExistingWebhooks(d) ==
    /\ At(d, "list")
    /\ post' = [post EXCEPT ![d] =
          [@ EXCEPT !.pc = "listed", !.key = First(webhooks[delivery[d].chain])]]
    /\ UNCHANGED <<configured, alchemy, cache, delivery, history>>

\* The list arrives: its first webhook's key is kept and used; without one the
\* answer is 401.
GetSigningKeyByUrl(d) ==
    /\ At(d, "listed")
    /\ IF post[d].key = None
       THEN Leave(d) /\ UNCHANGED <<cache, rejected>>
       ELSE ValidateAlchemySignature(d, post[d].key,
               [cache EXCEPT ![ChainOf(d)] = post[d].key])
    /\ UNCHANGED <<configured, alchemy, delivery, late>>

\* The listing fails: no key, 401.
FailGetExistingWebhooks(d) ==
    /\ At(d, "list") \/ At(d, "listed")
    /\ Leave(d)
    /\ UNCHANGED <<configured, alchemy, cache, delivery, history>>

-----------------------------------------------------------------------------
(* processWebhookEvent: the event is stored, then its addresses announced  *)
(* with emitAddressActivity, in one go; a dropped transaction is not.      *)

AnnouncedKinds == {"ADDRESS_ACTIVITY", "NFT_ACTIVITY", "MINED_TRANSACTION"}

Process(d, accepted) ==
    delivery' = [delivery EXCEPT ![d] =
       [@ EXCEPT !.stored = TRUE, !.accepted = accepted,
                 !.announced = delivery[d].announced
                               \/ delivery[d].kind \in AnnouncedKinds]]

\* Slip: the answer goes out before the event is processed.
AnswerFirst(d) ==
    /\ At(d, "save")
    /\ ~delivery[d].accepted
    /\ delivery' = [delivery EXCEPT ![d].accepted = TRUE]
    /\ UNCHANGED <<configured, alchemy, cache, post, history>>

\* Alchemy gets its 2xx, or the answer is lost and it will send again.
ProcessWebhookEvent(d) ==
    /\ At(d, "save")
    /\ \E heard \in BOOLEAN : Process(d, heard)
    /\ Leave(d)
    /\ UNCHANGED <<configured, alchemy, cache, history>>

\* Slip: what could not be stored is taken for processed.
SwallowSave(d) ==
    /\ At(d, "save")
    /\ delivery' = [delivery EXCEPT ![d].accepted = TRUE]
    /\ Leave(d)
    /\ UNCHANGED <<configured, alchemy, cache, history>>

\* saveWebhookToDatabase fails, with or without effect: 500, nothing announced.
FailSaveWebhook(d) ==
    /\ At(d, "save")
    /\ \E stored \in {TRUE, delivery[d].stored} :
          delivery' = [delivery EXCEPT ![d].stored = stored]
    /\ Leave(d)
    /\ UNCHANGED <<configured, alchemy, cache, history>>

-----------------------------------------------------------------------------
(* The process.                                                            *)

\* The 30 minutes of a key in memory are over.
ExpireSigningKey(c) ==
    /\ cache[c] # None
    /\ cache' = [cache EXCEPT ![c] = None]
    /\ UNCHANGED <<configured, alchemy, delivery, post, history>>

\* The keys in memory and the POSTs under way are gone.
Restart ==
    /\ cache' = [c \in Chains |-> None]
    /\ post' = [d \in Deliveries |-> Away]
    /\ UNCHANGED <<configured, alchemy, delivery, history>>

Next ==
    \/ \E c \in Chains : CreateWebhook(c) \/ RemoveWebhook(c) \/ ExpireSigningKey(c)
    \/ \E d \in Deliveries :
          \/ Report(d)
          \/ HandleWebhook(d)
          \/ GetExistingWebhooks(d)
          \/ GetSigningKeyByUrl(d)
          \/ FailGetExistingWebhooks(d)
          \/ ProcessWebhookEvent(d)
          \/ FailSaveWebhook(d)
    \/ Restart

(* Alchemy sends again until it is answered 2xx; calls are answered, and   *)
(* neither fail for ever nor are their answers lost for ever.              *)
Fairness ==
    \A d \in Deliveries :
       /\ WF_vars(HandleWebhook(d))
       /\ SF_vars(GetExistingWebhooks(d))
       /\ SF_vars(GetSigningKeyByUrl(d))
       /\ SF_vars(ProcessWebhookEvent(d) /\ delivery'[d].accepted)

Spec == Init /\ [][Next]_vars /\ Fairness

-----------------------------------------------------------------------------
(* Properties.                                                             *)

DeliveryStates ==
    {Unsent} \cup
    [sent : {TRUE}, chain : Chains, kind : Kinds, by : Webhooks,
     stored : BOOLEAN, announced : BOOLEAN, accepted : BOOLEAN]

PostStates ==
    [pc : {"away", "list", "listed", "save"}, key : Webhooks \cup {None}]

\* The type invariant; a key in memory is one of its chain, a POST is handled
\* only while Alchemy waits for it, and only if it can be verified.
TypeOK ==
    /\ configured \in BOOLEAN
    /\ created \in [Chains -> 0 .. MaxWebhooks]
    /\ \A c \in Chains :
          webhooks[c] \in Seq(1 .. created[c]) /\ IsInjective(webhooks[c])
    /\ cache \in [Chains -> Webhooks \cup {None}]
    /\ \A c \in Chains : cache[c] # None => cache[c] <= created[c]
    /\ delivery \in [Deliveries -> DeliveryStates]
    /\ post \in [Deliveries -> PostStates]
    /\ \A d \in Deliveries : ~At(d, "away") => Pending(d) /\ Verifiable(d)
    /\ rejected \in [Chains -> 0 .. Cardinality(Deliveries) + 2]
    /\ late \in [Chains -> 0 .. Cardinality(Deliveries)]

\* What Alchemy will not send again has reached the cache: it is stored, and if
\* it is of a kind that says an address changed, the address was announced.
AcceptedIsAnnounced ==
    \A d \in Deliveries : delivery[d].accepted =>
       /\ delivery[d].stored
       /\ delivery[d].kind \in AnnouncedKinds => delivery[d].announced

\* After the first webhook of a chain changes, at most one of its genuine
\* deliveries is rejected for the key that is still in memory, and one more for
\* each lookup that was under way and brings the old key back.
RejectionsBounded == \A c \in Chains : rejected[c] <= 1 + late[c]

\* A delivery of the webhook that is the first of its chain.
Genuine(d) == Pending(d) /\ delivery[d].by = First(webhooks[delivery[d].chain])

StaysUp == <>[][~Restart]_vars

\* Such a delivery gets through in the end, though other POSTs clear the keys
\* under it or bring old ones back, listings fail and answers are lost.
GenuineAccepted ==
    StaysUp => \A d \in Deliveries :
       Genuine(d) /\ Verifiable(d) ~> ~Genuine(d)
=============================================================================
