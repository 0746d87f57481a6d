------------------------ MODULE WebhookCreationProofs -----------------------
(***************************************************************************)
(* What lock and second look of createNewWebhook guarantee, for any number *)
(* of callers: TypeOK and CreationInv together are inductive.              *)
(***************************************************************************)
EXTENDS WebhookCreation, TLAPS

-----------------------------------------------------------------------------
(* The initial state, and steps that leave everything as it is.            *)

LEMMA InitInv == Init => TypeOK /\ CreationInv
<1> SUFFICES ASSUME Init PROVE TypeOK /\ CreationInv
  OBVIOUS
<1> USE DEF Init, Idle
<1>1. TypeOK
  BY ConstantsAssumption DEF TypeOK, CallerStates, Critical
<1>2. Clean = {}
  BY DEF Clean
<1>3. CreationInv
  BY <1>2 DEF CreationInv, UnracedHolds, PendingExcludes, ContendersRaced,
    CleanIsFinal, OneCleanWebhook, Unraced, Critical, At
<1> QED
  BY <1>1, <1>3

LEMMA StutterInv ==
  ASSUME TypeOK, CreationInv, UNCHANGED vars
  PROVE  TypeOK' /\ CreationInv'
BY DEF TypeOK, CreationInv, UnracedHolds, PendingExcludes, ContendersRaced,
  CleanIsFinal, OneCleanWebhook, Clean, Unraced, Critical, At, vars

-----------------------------------------------------------------------------
(* What the steps have in common.  A caller's record keeps its type.       *)

LEMMA CallerFields ==
  ASSUME TypeOK, NEW c \in Callers
  PROVE  /\ caller[c] \in CallerStates
         /\ \A s \in {"idle", "list", "getLock", "setLock", "recheck", "create",
                      "release", "releaseAgain"} :
               [caller[c] EXCEPT !.pc = s] \in CallerStates
         /\ [caller[c] EXCEPT !.raced = TRUE] \in CallerStates
         /\ [caller[c] EXCEPT !.pc = "create", !.blind = TRUE] \in CallerStates
         /\ \A b \in BOOLEAN :
               [caller[c] EXCEPT !.pc = "setLock", !.raced = b] \in CallerStates
         /\ Idle \in CallerStates
BY DEF TypeOK, CallerStates, Idle

LEMMA CallerDomain ==
  ASSUME TypeOK, NEW c \in Callers
  PROVE  DOMAIN caller[c] = {"pc", "raced", "blind"}
<1>1. caller[c] \in CallerStates
  BY CallerFields
<1> QED
  BY <1>1 DEF CallerStates

\* One caller moves without touching the lock or the webhooks, and not to a
\* place where the lock matters.
LEMMA HarmlessMove ==
  ASSUME TypeOK, CreationInv, NEW c \in Callers, NEW s \in CallerStates,
         s.pc \in {"idle", "list", "getLock", "release", "releaseAgain"},
         caller' = [caller EXCEPT ![c] = s],
         UNCHANGED <<configured, webhooks, lock>>
  PROVE  TypeOK' /\ CreationInv'
<1>1. TypeOK'
  BY DEF TypeOK, Critical
<1>2. \A d \in Callers : caller'[d] = IF d = c THEN s ELSE caller[d]
  BY DEF TypeOK
<1>3. \A d \in Callers : /\ At(d, "setLock")' => d # c /\ At(d, "setLock")
                         /\ At(d, "create")' => d # c /\ At(d, "create")
                         /\ Unraced(d)' => d # c /\ Unraced(d)
  BY <1>2 DEF At, Unraced, Critical
<1>4. UnracedHolds'
  BY <1>3 DEF CreationInv, UnracedHolds
<1>5. PendingExcludes'
  BY <1>3 DEF CreationInv, PendingExcludes
<1>6. ContendersRaced'
  BY <1>2, <1>3 DEF CreationInv, ContendersRaced
<1>7. CleanIsFinal' /\ OneCleanWebhook'
  BY <1>2, <1>3 DEF CreationInv, CleanIsFinal, OneCleanWebhook, Clean
<1> QED
  BY <1>1, <1>4, <1>5, <1>6, <1>7 DEF CreationInv

\* The lock is deleted: who holds it and still needs it becomes raced.
LEMMA DeleteLockInv ==
  ASSUME TypeOK, CreationInv, NEW by \in Callers \cup {None},
         NEW next \in CallerStates,
         next.pc \in {"idle", "releaseAgain"},
         DeleteLock(by, next), UNCHANGED <<configured, webhooks>>
  PROVE  TypeOK' /\ CreationInv'
<1>1. \A d \in Callers :
        caller'[d] = IF d = by THEN next
                     ELSE IF d = lock /\ Critical(d)
                     THEN [caller[d] EXCEPT !.raced = TRUE]
                     ELSE caller[d]
  BY DEF DeleteLock
<1>2. \A d \in Callers : caller'[d] \in CallerStates
  BY <1>1, CallerFields
<1>3. \A d \in Callers :
        d # by => /\ caller'[d].pc = caller[d].pc
                  /\ caller'[d].blind = caller[d].blind
                  /\ caller[d].raced => caller'[d].raced
                  /\ d = lock /\ Critical(d) => caller'[d].raced
  <2> SUFFICES ASSUME NEW d \in Callers, d # by
               PROVE  /\ caller'[d].pc = caller[d].pc
                      /\ caller'[d].blind = caller[d].blind
                      /\ caller[d].raced => caller'[d].raced
                      /\ d = lock /\ Critical(d) => caller'[d].raced
    OBVIOUS
  <2>1. DOMAIN caller[d] = {"pc", "raced", "blind"}
    BY CallerDomain
  <2>2. CASE d = lock /\ Critical(d)
    <3>1. caller'[d] = [caller[d] EXCEPT !.raced = TRUE]
      BY <1>1, <2>2
    <3> QED
      BY <2>1, <3>1
  <2>3. CASE ~(d = lock /\ Critical(d))
    BY <1>1, <2>3
  <2> QED
    BY <2>2, <2>3
<1>4. \A d \in Callers : /\ At(d, "setLock")' => d # by /\ At(d, "setLock")
                         /\ At(d, "create")' => d # by /\ At(d, "create")
                         /\ Critical(d)' => d # by /\ Critical(d)
  BY <1>1, <1>3 DEF At, Critical
<1>5. TypeOK'
  <2>1. caller' \in [Callers -> CallerStates]
    BY <1>2 DEF DeleteLock
  <2>2. ~configured' => webhooks' = <<>> /\ \A d \in Callers : ~Critical(d)'
    BY <1>4 DEF TypeOK
  <2> QED
    BY <2>1, <2>2 DEF TypeOK, DeleteLock
<1>6. \A d \in Callers : ~Unraced(d)'
  <2> SUFFICES ASSUME NEW d \in Callers, Unraced(d)' PROVE FALSE
    OBVIOUS
  <2>1. Critical(d) /\ d # by /\ ~caller'[d].raced
    BY <1>4 DEF Unraced
  <2>2. lock # d /\ ~caller[d].raced
    BY <2>1, <1>3
  <2> QED
    BY <2>1, <2>2 DEF CreationInv, UnracedHolds, Unraced
<1>7. UnracedHolds' /\ PendingExcludes'
  BY <1>6 DEF UnracedHolds, PendingExcludes
<1>8. ContendersRaced'
  BY <1>3, <1>4 DEF CreationInv, ContendersRaced
<1>9. CleanIsFinal' /\ OneCleanWebhook'
  BY <1>3, <1>4 DEF CreationInv, CleanIsFinal, OneCleanWebhook, Clean
<1> QED
  BY <1>5, <1>7, <1>8, <1>9 DEF CreationInv

-----------------------------------------------------------------------------
(* The actions that are more than one of the moves above.                  *)

\* Who goes for a free lock: those that are going for it too become raced, and
\* nobody who was never raced is creating, for such a caller would hold it.
LEMMA ProceedInv ==
  ASSUME TypeOK, CreationInv, NEW c \in Callers,
         At(c, "getLock"), LockFree(c), Proceed(c),
         UNCHANGED <<configured, webhooks, lock>>
  PROVE  TypeOK' /\ CreationInv'
<1>1. \A d \in Callers :
        caller'[d] = IF d \in Contenders(c)
                     THEN [caller[d] EXCEPT !.raced = TRUE]
                     ELSE IF d = c
                     THEN [caller[c] EXCEPT !.pc = "setLock",
                                            !.raced = Contenders(c) # {}]
                     ELSE caller[d]
  BY DEF Proceed
<1>2. \A d \in Callers : caller'[d] \in CallerStates
  BY <1>1, CallerFields
<1>3. \A d \in Callers \ {c} :
        /\ caller'[d].pc = caller[d].pc
        /\ ~At(d, "setLock") => caller'[d] = caller[d]
        /\ At(d, "setLock") => caller'[d].raced
  <2> SUFFICES ASSUME NEW d \in Callers \ {c}
               PROVE  /\ caller'[d].pc = caller[d].pc
                      /\ ~At(d, "setLock") => caller'[d] = caller[d]
                      /\ At(d, "setLock") => caller'[d].raced
    OBVIOUS
  <2>1. DOMAIN caller[d] = {"pc", "raced", "blind"}
    BY CallerDomain
  <2>2. CASE At(d, "setLock")
    <3>1. caller'[d] = [caller[d] EXCEPT !.raced = TRUE]
      BY <1>1, <2>2 DEF Contenders
    <3> QED
      BY <2>1, <2>2, <3>1
  <2>3. CASE ~At(d, "setLock")
    BY <1>1, <2>3 DEF Contenders
  <2> QED
    BY <2>2, <2>3
<1>4. /\ caller'[c].pc = "setLock"
      /\ caller'[c].raced = (Contenders(c) # {})
  <2>1. DOMAIN caller[c] = {"pc", "raced", "blind"}
    BY CallerDomain
  <2>2. caller'[c] = [caller[c] EXCEPT !.pc = "setLock",
                                       !.raced = Contenders(c) # {}]
    BY <1>1 DEF Contenders
  <2> QED
    BY <2>1, <2>2
<1>5. \A d \in Callers : ~Unraced(d)
  BY ConstantsAssumption DEF CreationInv, UnracedHolds, LockFree
<1>6. \A d \in Callers : Critical(d)' => d # c /\ Critical(d)
  BY <1>3, <1>4 DEF Critical
<1>7. \A d \in Callers : ~Unraced(d)'
  <2> SUFFICES ASSUME NEW d \in Callers, Unraced(d)' PROVE FALSE
    OBVIOUS
  <2>1. d # c /\ Critical(d) /\ ~At(d, "setLock")
    BY <1>6 DEF Unraced, Critical, At
  <2> QED
    BY <1>3, <1>5, <2>1 DEF Unraced
<1>8. TypeOK'
  <2>1. caller' \in [Callers -> CallerStates]
    BY <1>2 DEF Proceed
  <2> QED
    BY <1>6, <2>1 DEF TypeOK
<1>9. UnracedHolds' /\ PendingExcludes'
  BY <1>7 DEF UnracedHolds, PendingExcludes
<1>10. ContendersRaced'
  <2> SUFFICES ASSUME NEW d \in Callers, NEW e \in Callers, d # e,
                      At(d, "setLock")', At(e, "setLock")'
               PROVE  caller'[d].raced
    BY DEF ContendersRaced
  <2>1. CASE d = c
    <3>1. e \in Contenders(c)
      BY <1>3, <2>1 DEF Contenders, At
    <3> QED
      BY <1>4, <2>1, <3>1
  <2>2. CASE d # c
    BY <1>3, <2>2 DEF At
  <2> QED
    BY <2>1, <2>2
<1>11. CleanIsFinal' /\ OneCleanWebhook'
  <2>1. \A d \in Callers :
          At(d, "create")' => At(d, "create") /\ caller'[d] = caller[d]
    BY <1>3, <1>4 DEF At
  <2> QED
    BY <2>1 DEF CreationInv, CleanIsFinal, OneCleanWebhook, Clean
<1> QED
  BY <1>8, <1>9, <1>10, <1>11 DEF CreationInv

\* The lock is set and its setter moves on to s: nobody who was never raced
\* was creating (PendingExcludes), and those that will set it too are raced.
LEMMA SetLockInv ==
  ASSUME TypeOK, CreationInv, NEW c \in Callers, At(c, "setLock"),
         NEW s \in CallerStates, s.raced = caller[c].raced,
         \/ configured /\ s.pc = "recheck"
         \/ s.pc \in {"release", "releaseAgain"},
         caller' = [caller EXCEPT ![c] = s], lock' = c,
         UNCHANGED <<configured, webhooks>>
  PROVE  TypeOK' /\ CreationInv'
<1>1. \A d \in Callers : caller'[d] = IF d = c THEN s ELSE caller[d]
  BY DEF TypeOK
<1>2. TypeOK'
  BY <1>1 DEF TypeOK, Critical
<1>3. \A d \in Callers : ~Unraced(d)
  BY DEF CreationInv, PendingExcludes
<1>4. \A d \in Callers : Unraced(d)' => d = c /\ ~caller[c].raced
  BY <1>1, <1>3 DEF Unraced, Critical
<1>5. \A d \in Callers : At(d, "setLock")' => d # c /\ At(d, "setLock")
  BY <1>1 DEF At
<1>6. UnracedHolds'
  BY <1>4 DEF UnracedHolds
<1>7. PendingExcludes'
  BY <1>4, <1>5 DEF CreationInv, ContendersRaced, PendingExcludes
<1>8. ContendersRaced'
  BY <1>1, <1>5 DEF CreationInv, ContendersRaced
<1>9. CleanIsFinal' /\ OneCleanWebhook'
  <2>1. \A d \in Callers :
          At(d, "create")' => At(d, "create") /\ caller'[d] = caller[d]
    BY <1>1 DEF At
  <2> QED
    BY <2>1 DEF CreationInv, CleanIsFinal, OneCleanWebhook, Clean
<1> QED
  BY <1>2, <1>6, <1>7, <1>8, <1>9 DEF CreationInv

\* The second look sends its caller to the creation only while there is no
\* webhook, or blindly.
LEMMA RecheckInv ==
  ASSUME TypeOK, CreationInv, NEW c \in Callers, At(c, "recheck"),
         NEW s \in CallerStates, s.raced = caller[c].raced, s.pc = "create",
         webhooks = <<>> \/ s.blind,
         caller' = [caller EXCEPT ![c] = s],
         UNCHANGED <<configured, webhooks, lock>>
  PROVE  TypeOK' /\ CreationInv'
<1>1. \A d \in Callers : caller'[d] = IF d = c THEN s ELSE caller[d]
  BY DEF TypeOK
<1>2. Critical(c)
  BY DEF At, Critical
<1>3. TypeOK'
  BY <1>1, <1>2 DEF TypeOK, Critical
<1>4. \A d \in Callers : /\ Unraced(d)' => Unraced(d)
                         /\ At(d, "setLock")' => d # c /\ At(d, "setLock")
  BY <1>1, <1>2 DEF Unraced, Critical, At
<1>5. UnracedHolds' /\ PendingExcludes' /\ ContendersRaced'
  BY <1>1, <1>4 DEF CreationInv, UnracedHolds, PendingExcludes, ContendersRaced
<1>6. CleanIsFinal'
  <2>1. CASE webhooks = <<>>
    BY <2>1 DEF CleanIsFinal, Clean
  <2>2. CASE s.blind
    BY <1>1, <2>2 DEF CreationInv, CleanIsFinal, Clean, At
  <2> QED
    BY <2>1, <2>2
<1>7. OneCleanWebhook'
  BY DEF CreationInv, OneCleanWebhook, Clean
<1> QED
  BY <1>3, <1>5, <1>6, <1>7 DEF CreationInv

\* What a creation does to the clean webhooks: a creator that was neither raced
\* nor blind adds the first, any other adds none.
LEMMA CreateChooses ==
  ASSUME TypeOK, CreationInv, NEW c \in Callers, CreateWebhook(c)
  PROVE  LET clean == ~caller[c].raced /\ ~caller[c].blind IN
         /\ clean => Clean = {} /\ Clean' = {Len(webhooks) + 1}
         /\ ~clean => Clean' = Clean
<1> DEFINE clean == ~caller[c].raced /\ ~caller[c].blind
<1>1. /\ Len(webhooks) \in Nat
      /\ DOMAIN webhooks = 1 .. Len(webhooks)
      /\ DOMAIN webhooks' = 1 .. Len(webhooks) + 1
      /\ \A i \in 1 .. Len(webhooks) : webhooks'[i] = webhooks[i]
      /\ webhooks'[Len(webhooks) + 1] = clean
  BY DEF TypeOK, CreateWebhook
<1>2. \A i : i \in Clean' <=> i \in Clean \/ (i = Len(webhooks) + 1 /\ clean)
  <2>1. \A i \in 1 .. Len(webhooks) + 1 :
          i \in 1 .. Len(webhooks) \/ i = Len(webhooks) + 1
    BY <1>1
  <2>2. Len(webhooks) + 1 \notin 1 .. Len(webhooks)
    BY <1>1
  <2>3. \A i : i \in 1 .. Len(webhooks) => i \in 1 .. Len(webhooks) + 1
    BY <1>1
  <2>4. Len(webhooks) + 1 \in 1 .. Len(webhooks) + 1
    BY <1>1
  <2> HIDE DEF clean
  <2> QED
    BY <1>1, <2>1, <2>2, <2>3, <2>4, Zenon DEF Clean
<1>3. clean => Clean = {}
  BY DEF CreationInv, CleanIsFinal, CreateWebhook
<1> QED
  <2> HIDE DEF clean
  <2>1. clean => Clean = {} /\ Clean' = {Len(webhooks) + 1}
    BY <1>2, <1>3
  <2>2. ~clean => Clean' = Clean
    BY <1>2
  <2> QED
    BY <2>1, <2>2 DEF clean

\* A caller that was never raced holds the lock, so there is only one, and after
\* it has created nobody is left to create another clean webhook.
LEMMA CreateInv ==
  ASSUME TypeOK, CreationInv, NEW c \in Callers, CreateWebhook(c)
  PROVE  TypeOK' /\ CreationInv'
<1>1. \A d \in Callers :
        /\ d # c => caller'[d] = caller[d]
        /\ caller'[c].pc = "release"
  <2>1. \A d \in Callers :
          caller'[d] = IF d = c THEN [caller[c] EXCEPT !.pc = "release"]
                       ELSE caller[d]
    BY DEF CreateWebhook, Goto, TypeOK
  <2> QED
    BY <2>1, CallerDomain
<1>2. Critical(c) /\ configured
  BY DEF CreateWebhook, At, Critical, TypeOK
<1>3. TypeOK'
  <2>1. caller' \in [Callers -> CallerStates]
    BY CallerFields DEF CreateWebhook, Goto, TypeOK
  <2>2. webhooks' \in Seq(BOOLEAN) /\ Len(webhooks') <= MaxWebhooks
    BY ConstantsAssumption DEF CreateWebhook, TypeOK
  <2> QED
    BY <1>2, <2>1, <2>2 DEF CreateWebhook, TypeOK
<1>4. \A d \in Callers : /\ Unraced(d)' => d # c /\ Unraced(d)
                         /\ At(d, "setLock")' => d # c /\ At(d, "setLock")
                         /\ At(d, "create")' => d # c /\ At(d, "create")
  BY <1>1 DEF Unraced, Critical, At
<1>5. UnracedHolds' /\ PendingExcludes' /\ ContendersRaced'
  BY <1>1, <1>4 DEF CreationInv, UnracedHolds, PendingExcludes, ContendersRaced,
    CreateWebhook
<1>6. CASE ~caller[c].raced /\ ~caller[c].blind
  <2>1. Clean' = {Len(webhooks) + 1}
    BY <1>6, CreateChooses
  <2>2. \A d \in Callers : d # c /\ At(d, "create") => caller[d].raced
    BY <1>2, <1>6 DEF CreationInv, UnracedHolds, Unraced, Critical, At
  <2>3. CleanIsFinal'
    BY <1>1, <1>4, <2>2 DEF CleanIsFinal
  <2>4. OneCleanWebhook'
    BY <2>1 DEF OneCleanWebhook
  <2> QED
    BY <1>3, <1>5, <2>3, <2>4 DEF CreationInv
<1>7. CASE ~(~caller[c].raced /\ ~caller[c].blind)
  <2>1. Clean' = Clean
    BY <1>7, CreateChooses
  <2>2. CleanIsFinal' /\ OneCleanWebhook'
    BY <1>1, <1>4, <2>1 DEF CreationInv, CleanIsFinal, OneCleanWebhook
  <2> QED
    BY <1>3, <1>5, <2>2 DEF CreationInv
<1> QED
  BY <1>6, <1>7

-----------------------------------------------------------------------------
(* The actions one by one.                                                 *)

LEMMA FailCacheInv ==
  ASSUME TypeOK, CreationInv, NEW c \in Callers, FailCache(c)
  PROVE  TypeOK' /\ CreationInv'
<1> DEFINE next == [caller[c] EXCEPT !.pc = "releaseAgain"]
<1>1. /\ next \in CallerStates
      /\ next.pc = "releaseAgain"
      /\ next.raced = caller[c].raced
  BY CallerFields, CallerDomain
<1>2. UNCHANGED <<configured, webhooks>>
  BY DEF FailCache
<1>3. CASE caller' = [caller EXCEPT ![c] = next] /\ UNCHANGED lock
  <2> HIDE DEF next
  <2> QED
    BY <1>1, <1>2, <1>3, HarmlessMove
<1>4. CASE At(c, "setLock") /\ caller' = [caller EXCEPT ![c] = next] /\ lock' = c
  <2> HIDE DEF next
  <2> QED
    BY <1>1, <1>2, <1>4, SetLockInv
<1>5. CASE DeleteLock(c, next)
  <2> HIDE DEF next
  <2> QED
    BY <1>1, <1>2, <1>5, DeleteLockInv
<1> QED
  BY <1>3, <1>4, <1>5 DEF FailCache

LEMMA CallerStepInv ==
  ASSUME TypeOK, CreationInv, NEW c \in Callers, CallerStep(c)
  PROVE  TypeOK' /\ CreationInv'
<1> DEFINE Moved(s) == [caller[c] EXCEPT !.pc = s]
<1>1. \A s \in {"list", "getLock", "recheck", "create", "release"} :
        /\ Moved(s) \in CallerStates
        /\ Moved(s).pc = s
        /\ Moved(s).raced = caller[c].raced
  BY CallerFields, CallerDomain
<1>2. Idle \in CallerStates /\ Idle.pc = "idle"
  BY DEF CallerStates, Idle
<1>3. \A s : Goto(c, s) => caller' = [caller EXCEPT ![c] = Moved(s)]
  BY DEF Goto, TypeOK
<1> HIDE DEF Moved
<1>4. CASE ListWebhooks(c)
  <2>1. CASE Finish(c)
    BY <1>2, <1>4, <2>1, HarmlessMove DEF Finish, ListWebhooks
  <2>2. CASE Goto(c, "getLock")
    BY <1>1, <1>3, <1>4, <2>2, HarmlessMove DEF ListWebhooks
  <2> QED
    BY <1>4, <2>1, <2>2 DEF ListWebhooks
<1>5. CASE GetLock(c)
  <2>1. CASE ~LockFree(c) /\ Finish(c)
    BY <1>2, <1>5, <2>1, HarmlessMove DEF Finish, GetLock
  <2>2. CASE LockFree(c) /\ Proceed(c)
    BY <1>5, <2>2, ProceedInv DEF GetLock
  <2> QED
    BY <1>5, <2>1, <2>2 DEF GetLock
<1>6. CASE SetLock(c)
  <2>1. CASE configured
    BY <1>1, <1>3, <1>6, <2>1, SetLockInv DEF SetLock, CheckConfiguration
  <2>2. CASE ~configured
    BY <1>1, <1>3, <1>6, <2>2, SetLockInv DEF SetLock, CheckConfiguration
  <2> QED
    BY <2>1, <2>2
<1>7. CASE Recheck(c)
  <2>1. CASE Goto(c, "release")
    BY <1>1, <1>3, <1>7, <2>1, HarmlessMove DEF Recheck
  <2>2. CASE webhooks = <<>> /\ Goto(c, "create")
    BY <1>1, <1>3, <1>7, <2>2, RecheckInv DEF Recheck
  <2>3. CASE caller' = [caller EXCEPT ![c].pc = "create", ![c].blind = TRUE]
    <3> DEFINE s == [caller[c] EXCEPT !.pc = "create", !.blind = TRUE]
    <3>1. caller' = [caller EXCEPT ![c] = s]
      BY <2>3 DEF TypeOK
    <3>2. s \in CallerStates
      BY CallerFields
    <3>3. s.raced = caller[c].raced /\ s.pc = "create" /\ s.blind
      BY CallerDomain
    <3> HIDE DEF s
    <3> QED
      BY <1>7, <3>1, <3>2, <3>3, RecheckInv DEF Recheck
  <2> QED
    BY <1>7, <2>1, <2>2, <2>3 DEF Recheck
<1>8. CASE CreateWebhook(c)
  BY <1>8, CreateInv
<1>9. CASE FailCreateWebhook(c)
  BY <1>1, <1>3, <1>9, HarmlessMove DEF FailCreateWebhook
<1>10. CASE ReleaseLock(c)
  BY <1>2, <1>10, DeleteLockInv DEF ReleaseLock
<1>11. CASE FailCache(c)
  BY <1>11, FailCacheInv
<1>12. CASE ReleaseAgain(c)
  <2>1. CASE DeleteLock(c, Idle)
    BY <1>2, <1>12, <2>1, DeleteLockInv DEF ReleaseAgain
  <2>2. CASE Finish(c) /\ UNCHANGED lock
    BY <1>2, <1>12, <2>2, HarmlessMove DEF Finish, ReleaseAgain
  <2> QED
    BY <1>12, <2>1, <2>2 DEF ReleaseAgain
<1> QED
  BY <1>4, <1>5, <1>6, <1>7, <1>8, <1>9, <1>10, <1>11, <1>12 DEF CallerStep

LEMMA StepInv ==
  ASSUME TypeOK, CreationInv, [Next]_vars
  PROVE  TypeOK' /\ CreationInv'
<1>1. Idle \in CallerStates /\ Idle.pc = "idle"
  BY DEF CallerStates, Idle
<1>2. ASSUME NEW c \in Callers, GetWebhookIdForChain(c)
      PROVE  TypeOK' /\ CreationInv'
  <2> DEFINE s == [caller[c] EXCEPT !.pc = "list"]
  <2>1. s \in CallerStates /\ s.pc = "list"
    BY CallerFields, CallerDomain
  <2>2. caller' = [caller EXCEPT ![c] = s]
    BY <1>2 DEF GetWebhookIdForChain, Goto, TypeOK
  <2> HIDE DEF s
  <2> QED
    BY <1>2, <2>1, <2>2, HarmlessMove DEF GetWebhookIdForChain
<1>3. ASSUME NEW c \in Callers, CallerStep(c)
      PROVE  TypeOK' /\ CreationInv'
  BY <1>3, CallerStepInv
<1>4. ASSUME NEW c \in Callers, Crash(c)
      PROVE  TypeOK' /\ CreationInv'
  BY <1>1, <1>4, HarmlessMove DEF Crash, Finish
<1>5. CASE LockExpires
  BY <1>1, <1>5, DeleteLockInv DEF LockExpires
<1>6. CASE UNCHANGED vars
  BY <1>6, StutterInv
<1> QED
  BY <1>2, <1>3, <1>4, <1>5, <1>6 DEF Next

-----------------------------------------------------------------------------
(* The theorems.                                                           *)

\* Lock, webhooks and callers keep their types, and without API key, URL or
\* client nothing is created.
THEOREM TypeCorrect == Spec => []TypeOK
<1>1. Init => TypeOK /\ CreationInv
  BY InitInv
<1>2. TypeOK /\ CreationInv /\ [Next]_vars => (TypeOK /\ CreationInv)'
  BY StepInv
<1> QED
  BY <1>1, <1>2, PTL DEF Spec

\* The reason why lock and second look work where they do: a creator nobody raced
\* holds the lock, nobody is about to overwrite it, those that would are marked
\* as racing, and a clean webhook is the last.
THEOREM CreationInvHolds == Spec => []CreationInv
<1>1. Init => TypeOK /\ CreationInv
  BY InitInv
<1>2. TypeOK /\ CreationInv /\ [Next]_vars => (TypeOK /\ CreationInv)'
  BY StepInv
<1> QED
  BY <1>1, <1>2, PTL DEF Spec

\* Of a chain's webhooks at most one was created by a caller that had the lock
\* of createNewWebhook to itself and whose second look was answered.
THEOREM OneCleanWebhookHolds == Spec => []OneCleanWebhook
<1>1. CreationInv => OneCleanWebhook
  BY DEF CreationInv
<1> QED
  BY <1>1, CreationInvHolds, PTL
=============================================================================
