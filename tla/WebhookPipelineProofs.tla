------------------------ MODULE WebhookPipelineProofs ------------------------
(***************************************************************************)
(* Theorems about WebhookPipeline for every number of webhooks and         *)
(* deliveries and every choice of chains and kinds.                        *)
(***************************************************************************)
EXTENDS WebhookPipeline, SequenceTheorems, FiniteSetTheorems, TLAPS

-----------------------------------------------------------------------------
(* The tables and the lists.                                               *)

\* Where Alchemy's name of a network is one of the networkIdentifiers at all, it
\* is that of the same chain.
LEMMA SameNames ==
    ASSUME NEW c \in ChainNames, NEW x \in ChainNames,
           GetNetworkIdForChain[c] = ChainInfoMap[x].networkIdentifier
    PROVE  x = c
  BY DEF ChainNames, MainnetNames, GetNetworkIdForChain, ChainInfoMap, Info

\* So what Alchemy calls a network leads back to its chain, if it leads anywhere.
LEMMA WayBack ==
    ASSUME NEW c \in ChainNames, KnownNetwork(GetNetworkIdForChain[c])
    PROVE  GetChainNameFromNetworkId(GetNetworkIdForChain[c]) = c
<1> DEFINE column == [chain \in ChainNames |-> ChainInfoMap[chain].networkIdentifier]
           id == GetNetworkIdForChain[c]
<1>1. NetworkIdToChainMap =
        [y \in {column[x] : x \in DOMAIN column} |->
           CHOOSE x \in DOMAIN column : y \in {column[z] : z \in DOMAIN column} =>
                                           column[x] = y]
  BY DEF NetworkIdToChainMap, AntiFunction, Inverse, Range
<1>2. PICK x \in ChainNames : id = column[x]
  BY <1>1 DEF KnownNetwork
<1>3. \A z \in ChainNames : column[z] = id => z = c
  BY SameNames
<1> HIDE DEF column, id
<1>4. NetworkIdToChainMap[id] =
        CHOOSE z \in DOMAIN column : id \in {column[y] : y \in DOMAIN column} =>
                                        column[z] = id
  BY <1>1, <1>2 DEF column
<1>5. c = x
  BY <1>2, <1>3
<1>6. NetworkIdToChainMap[id] = c
  BY <1>2, <1>3, <1>4 DEF column
<1> QED BY <1>6 DEF id, GetChainNameFromNetworkId

\* A list of a chain's webhooks: some of the first n, none twice.
Listing(s, n) == s \in Seq(1 .. n) /\ IsInjective(s)

LEMMA ListingGrows ==
    ASSUME NEW n \in Nat, NEW m \in Nat, n <= m, NEW s, Listing(s, n)
    PROVE  Listing(s, m)
  BY SeqMonotonic DEF Listing

LEMMA ListingElements ==
    ASSUME NEW n \in Nat, NEW s, Listing(s, n)
    PROVE  /\ Len(s) \in Nat /\ DOMAIN s = 1 .. Len(s)
           /\ \A i \in 1 .. Len(s) : s[i] \in 1 .. n
           /\ \A i, j \in 1 .. Len(s) : s[i] = s[j] => i = j
<1>1. Len(s) \in Nat /\ DOMAIN s = 1 .. Len(s)
  BY DEF Listing
<1>2. \A i \in 1 .. Len(s) : s[i] \in 1 .. n
  BY ElementOfSeq DEF Listing
<1>3. \A i, j \in 1 .. Len(s) : s[i] = s[j] => i = j
  BY <1>1 DEF Listing, IsInjective
<1> QED BY <1>1, <1>2, <1>3

LEMMA ListingFromElements ==
    ASSUME NEW n \in Nat, NEW s \in Seq(1 .. n),
           \A i, j \in 1 .. Len(s) : s[i] = s[j] => i = j
    PROVE  Listing(s, n)
  BY DEF Listing, IsInjective

LEMMA AppendListing ==
    ASSUME NEW n \in Nat, NEW s, Listing(s, n)
    PROVE  Listing(Append(s, n + 1), n + 1)
<1> DEFINE t == Append(s, n + 1)
           l == Len(s)
<1>1. s \in Seq(1 .. n + 1) /\ n + 1 \in 1 .. n + 1 /\ n + 1 \in Nat
  BY SeqMonotonic DEF Listing
<1>2. /\ t \in Seq(1 .. n + 1) /\ Len(t) = l + 1
      /\ \A i \in 1 .. l : t[i] = s[i]
      /\ t[l + 1] = n + 1
  BY <1>1, AppendProperties
<1>3. /\ l \in Nat
      /\ \A i \in 1 .. l : s[i] \in 1 .. n
      /\ \A i, j \in 1 .. l : s[i] = s[j] => i = j
  BY ListingElements
<1> HIDE DEF t, l
<1>4. \A i, j \in 1 .. l + 1 : t[i] = t[j] => i = j
  <2> SUFFICES ASSUME NEW i \in 1 .. l + 1, NEW j \in 1 .. l + 1, t[i] = t[j]
               PROVE  i = j
    OBVIOUS
  <2>1. \A k \in 1 .. l : t[k] # n + 1
    BY <1>2, <1>3
  <2>2. i \in 1 .. l \/ i = l + 1
    BY <1>3
  <2>3. j \in 1 .. l \/ j = l + 1
    BY <1>3
  <2> QED BY <1>2, <1>3, <2>1, <2>2, <2>3
<1>5. Listing(t, n + 1)
  BY <1>1, <1>2, <1>4, ListingFromElements
<1> QED BY <1>5 DEF t

LEMMA PrependListing ==
    ASSUME NEW n \in Nat, NEW s, Listing(s, n)
    PROVE  Listing(<<n + 1>> \o s, n + 1)
<1> DEFINE e == <<n + 1>>
           t == e \o s
           l == Len(s)
<1>1. s \in Seq(1 .. n + 1) /\ e \in Seq(1 .. n + 1) /\ n + 1 \in Nat
      /\ Len(e) = 1 /\ e[1] = n + 1
  BY SeqMonotonic DEF Listing
<1>2. /\ l \in Nat
      /\ \A i \in 1 .. l : s[i] \in 1 .. n
      /\ \A i, j \in 1 .. l : s[i] = s[j] => i = j
  BY ListingElements
<1> HIDE DEF e
<1>3. /\ t \in Seq(1 .. n + 1) /\ Len(t) = Len(e) + l
      /\ \A i \in 1 .. Len(e) + l :
            t[i] = IF i <= Len(e) THEN e[i] ELSE s[i - Len(e)]
  BY <1>1, ConcatProperties
<1> HIDE DEF t, l
<1>4. /\ Len(t) = 1 + l
      /\ t[1] = n + 1
      /\ \A i \in 2 .. 1 + l : t[i] = s[i - 1]
  BY <1>1, <1>2, <1>3
<1>5. \A i, j \in 1 .. 1 + l : t[i] = t[j] => i = j
  <2> SUFFICES ASSUME NEW i \in 1 .. 1 + l, NEW j \in 1 .. 1 + l, t[i] = t[j]
               PROVE  i = j
    OBVIOUS
  <2>1. \A k \in 2 .. 1 + l : k - 1 \in 1 .. l
    BY <1>2
  <2>2. \A k \in 2 .. 1 + l : t[k] # n + 1
    <3> SUFFICES ASSUME NEW k \in 2 .. 1 + l PROVE t[k] # n + 1
      OBVIOUS
    <3>1. t[k] = s[k - 1] /\ k - 1 \in 1 .. l
      BY <1>4, <2>1
    <3>2. s[k - 1] \in 1 .. n
      BY <1>2, <3>1
    <3> QED BY <3>1, <3>2
  <2>3. i \in 2 .. 1 + l \/ i = 1
    BY <1>2
  <2>4. j \in 2 .. 1 + l \/ j = 1
    BY <1>2
  <2>5. CASE i \in 2 .. 1 + l /\ j \in 2 .. 1 + l
    <3>1. s[i - 1] = s[j - 1] /\ i - 1 \in 1 .. l /\ j - 1 \in 1 .. l
      BY <1>4, <2>1, <2>5
    <3>2. i - 1 = j - 1
      BY <1>2, <3>1
    <3> QED BY <3>2
  <2> QED BY <1>4, <2>2, <2>3, <2>4, <2>5
<1>6. Listing(t, n + 1)
  BY <1>1, <1>3, <1>4, <1>5, ListingFromElements
<1> QED BY <1>6 DEF t, e

LEMMA RemoveListing ==
    ASSUME NEW n \in Nat, NEW s, Listing(s, n), NEW k \in DOMAIN s
    PROVE  Listing(RemoveAt(s, k), n)
<1> DEFINE u == SubSeq(s, 1, k - 1)
           v == SubSeq(s, k + 1, Len(s))
           t == u \o v
           l == Len(s)
<1>1. /\ l \in Nat /\ k \in 1 .. l
      /\ \A i \in 1 .. l : s[i] \in 1 .. n
      /\ \A i, j \in 1 .. l : s[i] = s[j] => i = j
  BY ListingElements
<1>2. /\ u \in Seq(1 .. n) /\ Len(u) = k - 1
      /\ \A i \in 1 .. k - 1 : u[i] = s[i]
  BY <1>1, SubSeqProperties
<1>3. /\ v \in Seq(1 .. n) /\ Len(v) = l - k
      /\ \A i \in 1 .. l - k : v[i] = s[k + i]
  <2> DEFINE S == 1 .. n
             a == k + 1
  <2>1. a \in Int /\ l \in Int /\ \A i \in a .. l : s[i] \in S
    BY <1>1
  <2>2. /\ v \in Seq(S)
        /\ Len(v) = IF a <= l THEN l - a + 1 ELSE 0
        /\ \A i \in 1 .. l - a + 1 : v[i] = s[a + i - 1]
    <3>1. v = SubSeq(s, a, l)
      OBVIOUS
    <3> HIDE DEF v, l, a, S
    <3> QED BY <2>1, <3>1, SubSeqProperties
  <2> HIDE DEF v, l
  <2>3. Len(v) = l - k
    BY <1>1, <2>2
  <2>4. ASSUME NEW i \in 1 .. l - k PROVE v[i] = s[k + i]
    <3>1. i \in 1 .. l - a + 1 /\ a + i - 1 = k + i
      BY <1>1
    <3> QED BY <2>2, <3>1
  <2> QED BY <2>2, <2>3, <2>4
<1> HIDE DEF u, v, l
<1>4. /\ t \in Seq(1 .. n) /\ Len(t) = Len(u) + Len(v)
      /\ \A i \in 1 .. Len(u) + Len(v) :
            t[i] = IF i <= Len(u) THEN u[i] ELSE v[i - Len(u)]
  BY <1>2, <1>3, ConcatProperties
<1> HIDE DEF t
<1>5. Len(t) = l - 1
  BY <1>1, <1>2, <1>3, <1>4
<1>6. \A i \in 1 .. k - 1 : t[i] = s[i] /\ i \in 1 .. l
  <2> SUFFICES ASSUME NEW i \in 1 .. k - 1 PROVE t[i] = s[i] /\ i \in 1 .. l
    OBVIOUS
  <2>1. i \in 1 .. (k - 1) + (l - k) /\ i <= k - 1 /\ i \in 1 .. l
    BY <1>1
  <2>2. t[i] = u[i]
    BY <1>2, <1>3, <1>4, <2>1
  <2> QED BY <1>2, <2>1, <2>2
<1>7. \A i \in k .. l - 1 : t[i] = s[i + 1] /\ i + 1 \in 1 .. l
  <2> SUFFICES ASSUME NEW i \in k .. l - 1 PROVE t[i] = s[i + 1] /\ i + 1 \in 1 .. l
    OBVIOUS
  <2>1. i \in 1 .. (k - 1) + (l - k) /\ ~(i <= k - 1) /\ i - (k - 1) \in 1 .. l - k
    BY <1>1
  <2>2. t[i] = v[i - (k - 1)]
    BY <1>2, <1>3, <1>4, <2>1
  <2>3. v[i - (k - 1)] = s[k + (i - (k - 1))]
    BY <1>3, <2>1
  <2>4. k + (i - (k - 1)) = i + 1 /\ i + 1 \in 1 .. l
    BY <1>1
  <2> QED BY <2>2, <2>3, <2>4
<1>8. \A i, j \in 1 .. l - 1 : t[i] = t[j] => i = j
  <2> SUFFICES ASSUME NEW i \in 1 .. l - 1, NEW j \in 1 .. l - 1, t[i] = t[j]
               PROVE  i = j
    OBVIOUS
  <2>1. i \in 1 .. k - 1 \/ i \in k .. l - 1
    BY <1>1
  <2>2. j \in 1 .. k - 1 \/ j \in k .. l - 1
    BY <1>1
  <2>3. CASE i \in 1 .. k - 1 /\ j \in 1 .. k - 1
    BY <1>1, <1>6, <2>3
  <2>4. CASE i \in 1 .. k - 1 /\ j \in k .. l - 1
    <3>1. i = j + 1
      BY <1>1, <1>6, <1>7, <2>4
    <3> QED BY <1>1, <2>4, <3>1
  <2>5. CASE i \in k .. l - 1 /\ j \in 1 .. k - 1
    <3>1. j = i + 1
      BY <1>1, <1>6, <1>7, <2>5
    <3> QED BY <1>1, <2>5, <3>1
  <2>6. CASE i \in k .. l - 1 /\ j \in k .. l - 1
    <3>1. i + 1 = j + 1
      BY <1>1, <1>7, <2>6
    <3> QED BY <3>1
  <2> QED BY <2>1, <2>2, <2>3, <2>4, <2>5, <2>6
<1>9. Listing(t, n)
  BY <1>4, <1>5, <1>8, ListingFromElements
<1> QED BY <1>9 DEF RemoveAt, t, u, v

LEMMA FirstListed ==
    ASSUME NEW n \in Nat, NEW s, Listing(s, n)
    PROVE  First(s) \in (1 .. n) \cup {None}
  BY ListingElements, HeadTailProperties DEF First, Listing

-----------------------------------------------------------------------------
(* The type invariant.                                                     *)

AlchemyOK ==
    /\ DOMAIN webhooks = Chains
    /\ created \in [Chains -> 0 .. MaxWebhooks]
    /\ \A c \in Chains : Listing(webhooks[c], created[c])

CacheOK ==
    /\ cache \in [Chains -> Webhooks \cup {None}]
    /\ \A c \in Chains : cache[c] # None => cache[c] <= created[c]

\* A POST that is being handled is one Alchemy waits for, and a key that a lookup
\* brings is that of a webhook of its chain.
PostOK(d) ==
    /\ ~At(d, "away") => Pending(d) /\ Verifiable(d)
    /\ At(d, "listed") /\ post[d].key # None => post[d].key <= created[delivery[d].chain]

PostsOK ==
    /\ delivery \in [Deliveries -> DeliveryStates]
    /\ post \in [Deliveries -> PostStates]
    /\ \A d \in Deliveries : PostOK(d)

HistoryOK ==
    /\ rejected \in [Chains -> 0 .. Cardinality(Deliveries) + 2]
    /\ late \in [Chains -> 0 .. Cardinality(Deliveries)]

TypeInv == configured \in BOOLEAN /\ AlchemyOK /\ CacheOK /\ PostsOK /\ HistoryOK

LEMMA TypeInvTypeOK == ASSUME TypeInv PROVE TypeOK
  BY DEF TypeInv, TypeOK, AlchemyOK, Listing, CacheOK, PostsOK, PostOK, HistoryOK

LEMMA SentState ==
    ASSUME PostsOK, NEW d \in Deliveries, delivery[d].sent
    PROVE  delivery[d] \in
              [sent : {TRUE}, chain : Chains, kind : Kinds, by : Webhooks,
               stored : BOOLEAN, announced : BOOLEAN, accepted : BOOLEAN]
<1>1. delivery[d] \in DeliveryStates /\ delivery[d] # Unsent
  BY DEF PostsOK, Unsent
<1> QED BY <1>1 DEF DeliveryStates

LEMMA SentChain ==
    ASSUME PostsOK, NEW d \in Deliveries, delivery[d].sent
    PROVE  /\ delivery[d].chain \in Chains /\ delivery[d].kind \in Kinds
           /\ delivery[d].by \in Webhooks /\ delivery[d].by # None
<1>1. delivery[d].by \in Webhooks
  BY SentState
<1>2. delivery[d].by # None
  BY <1>1, ConstantsAssumption DEF Webhooks
<1> QED BY <1>2, SentState

\* The key of a delivery is looked up under its own chain.
LEMMA OwnChain ==
    ASSUME PostsOK, NEW d \in Deliveries, Pending(d), Verifiable(d)
    PROVE  ChainOf(d) = delivery[d].chain /\ delivery[d].chain \in Chains
<1>1. delivery[d].chain \in Chains /\ delivery[d].chain \in ChainNames
  BY SentChain, ConstantsAssumption DEF Pending
<1>2. KnownNetwork(GetNetworkIdForChain[delivery[d].chain])
  BY DEF Verifiable, NetworkId
<1>3. GetChainNameFromNetworkId(GetNetworkIdForChain[delivery[d].chain]) = delivery[d].chain
  BY <1>1, <1>2, WayBack
<1> QED BY <1>1, <1>3 DEF ChainOf, NetworkId

LEMMA AwayType == Away \in PostStates /\ Away.pc = "away"
  BY DEF Away, PostStates

LEMMA CountsType ==
    /\ Cardinality(Deliveries) \in Nat
    /\ \A S \in SUBSET Deliveries :
          IsFiniteSet(S) /\ Cardinality(S) \in 0 .. Cardinality(Deliveries)
  BY ConstantsAssumption, FS_CardinalityType, FS_Subset

LEMMA CreatedType ==
    ASSUME AlchemyOK, NEW c \in Chains
    PROVE  created[c] \in Nat /\ created[c] <= MaxWebhooks
  BY ConstantsAssumption DEF AlchemyOK

\* What is listed first is a webhook of the chain.
LEMMA FirstType ==
    ASSUME AlchemyOK, NEW c \in Chains
    PROVE  /\ First(webhooks[c]) \in Webhooks \cup {None}
           /\ First(webhooks[c]) # None => First(webhooks[c]) <= created[c]
<1>1. First(webhooks[c]) \in (1 .. created[c]) \cup {None}
  BY CreatedType, FirstListed DEF AlchemyOK
<1> QED BY <1>1, CreatedType, ConstantsAssumption DEF Webhooks

\* A POST that does not move while its delivery keeps its sender and goes
\* unaccepted stays as it should be.
LEMMA PostKept ==
    ASSUME UNCHANGED <<configured, created>>, NEW d \in Deliveries, PostOK(d),
           delivery'[d] = delivery[d], post'[d] = post[d]
    PROVE  PostOK(d)'
  BY DEF PostOK, At, Pending, Verifiable, NetworkId

LEMMA AwayOK ==
    ASSUME NEW d \in Deliveries, post'[d] = Away
    PROVE  PostOK(d)'
  BY AwayType DEF PostOK, At

LEMMA CountedType ==
    ASSUME NEW n \in 0 .. Cardinality(Deliveries) + 2
    PROVE  Counted(n) \in 0 .. Cardinality(Deliveries) + 2 /\ Counted(n) <= n + 1
  BY CountsType DEF Counted

LEMMA TypeInvInit == ASSUME Init PROVE TypeInv
<1> USE DEF Init
<1>1. configured \in BOOLEAN
  OBVIOUS
<1>2. AlchemyOK
  <2>1. Listing(<<>>, 0)
    BY DEF Listing, IsInjective
  <2> QED BY <2>1, ConstantsAssumption DEF AlchemyOK
<1>3. CacheOK
  BY DEF CacheOK
<1>4. PostsOK
  <2>1. \A d \in Deliveries : PostOK(d)
    BY AwayType DEF PostOK, At
  <2> QED BY <2>1, AwayType DEF PostsOK, DeliveryStates
<1>5. HistoryOK
  BY CountsType DEF HistoryOK
<1> QED BY <1>1, <1>2, <1>3, <1>4, <1>5 DEF TypeInv

LEMMA RelistType ==
    ASSUME TypeInv, NEW c \in Chains, NEW list, Relist(c, list),
           created' \in [Chains -> 0 .. MaxWebhooks],
           \A x \in Chains : created[x] <= created'[x],
           Listing(list, created'[c])
    PROVE  TypeInv'
<1> USE DEF TypeInv
<1>1. AlchemyOK'
  <2>1. webhooks' = [webhooks EXCEPT ![c] = list]
    BY DEF Relist
  <2>2. \A x \in Chains : Listing(webhooks'[x], created'[x])
    <3> TAKE x \in Chains
    <3>1. CASE x = c
      BY <2>1, <3>1 DEF AlchemyOK
    <3>2. CASE x # c
      <4>1. webhooks'[x] = webhooks[x] /\ Listing(webhooks[x], created[x])
        BY <2>1, <3>2 DEF AlchemyOK
      <4>2. created[x] \in Nat /\ created'[x] \in Nat /\ created[x] <= created'[x]
        BY ConstantsAssumption DEF AlchemyOK
      <4> QED BY <4>1, <4>2, ListingGrows
    <3> QED BY <3>1, <3>2
  <2> QED BY <2>1, <2>2 DEF AlchemyOK
<1>2. CacheOK'
  <2>1. \A x \in Chains : cache[x] # None => cache[x] <= created'[x]
    <3> TAKE x \in Chains
    <3>1. created[x] \in Nat /\ created'[x] \in Nat /\ created[x] <= created'[x]
      BY ConstantsAssumption DEF AlchemyOK
    <3>2. cache[x] # None => cache[x] \in Nat /\ cache[x] <= created[x]
      BY DEF CacheOK, Webhooks
    <3> QED BY <3>1, <3>2
  <2> QED BY <2>1 DEF CacheOK, Relist
<1>3. PostsOK'
  <2>1. UNCHANGED <<configured, cache, delivery, post>>
    BY DEF Relist
  <2>2. \A d \in Deliveries : PostOK(d)'
    <3> TAKE d \in Deliveries
    <3>1. ~At(d, "away") => Pending(d) /\ Verifiable(d)
      BY DEF PostsOK, PostOK
    <3>2. ASSUME At(d, "listed"), post[d].key # None
          PROVE  post[d].key <= created'[delivery[d].chain]
      <4> DEFINE x == delivery[d].chain
      <4>1. Pending(d)
        BY <3>1, <3>2 DEF At
      <4>2. x \in Chains
        BY <4>1, SentChain DEF Pending
      <4>3. post[d].key \in Nat /\ post[d].key <= created[x]
        BY <3>2 DEF PostsOK, PostOK, PostStates, Webhooks
      <4>4. created[x] \in Nat /\ created'[x] \in Nat /\ created[x] <= created'[x]
        BY <4>2, ConstantsAssumption DEF AlchemyOK
      <4> QED BY <4>3, <4>4
    <3> QED BY <2>1, <3>1, <3>2 DEF PostOK, At, Pending, Verifiable, NetworkId
  <2> QED BY <2>1, <2>2 DEF PostsOK
<1>4. HistoryOK'
  <2> DEFINE lookups == {d \in Deliveries : At(d, "listed") /\ delivery[d].chain = c}
  <2>1. Cardinality(lookups) \in 0 .. Cardinality(Deliveries)
    BY CountsType
  <2> HIDE DEF lookups
  <2>2. \/ UNCHANGED history
        \/ /\ rejected' = [rejected EXCEPT ![c] = 0]
           /\ late' = [late EXCEPT ![c] = Cardinality(lookups)]
    BY DEF Relist, lookups
  <2> QED BY <2>1, <2>2, CountsType DEF HistoryOK, history
<1> QED BY <1>1, <1>2, <1>3, <1>4 DEF Relist

LEMMA ValidateType ==
    ASSUME TypeInv, NEW d \in Deliveries, Pending(d), Verifiable(d), NEW key, NEW entries,
           entries \in [Chains -> Webhooks \cup {None}],
           \A c \in Chains : entries[c] # None => entries[c] <= created[c],
           ValidateAlchemySignature(d, key, entries),
           UNCHANGED <<configured, alchemy, delivery, late>>
    PROVE  TypeInv'
<1> USE DEF TypeInv
<1>1. AlchemyOK'
  BY DEF AlchemyOK, alchemy
<1>2. CacheOK'
  BY DEF CacheOK, ValidateAlchemySignature, ClearSigningKeyCache, alchemy
<1>3. PostsOK'
  <2>1. PICK p \in PostStates : /\ p.pc \in {"away", "save"}
                                /\ post' = [post EXCEPT ![d] = p]
    <3>1. [Away EXCEPT !.pc = "save"] \in PostStates
          /\ [Away EXCEPT !.pc = "save"].pc = "save"
      BY DEF Away, PostStates
    <3> QED BY <3>1, AwayType DEF ValidateAlchemySignature, Leave
  <2>2. \A e \in Deliveries : PostOK(e)'
    <3> TAKE e \in Deliveries
    <3>1. CASE e = d
      BY <2>1, <3>1
      DEF PostsOK, PostOK, At, Pending, Verifiable, NetworkId, alchemy
    <3>2. CASE e # d
      <4>1. PostOK(e) /\ post'[e] = post[e]
        BY <2>1, <3>2 DEF PostsOK
      <4> QED BY <4>1, PostKept DEF alchemy
    <3> QED BY <3>1, <3>2
  <2> QED BY <2>1, <2>2 DEF PostsOK
<1>4. HistoryOK'
  <2>1. \A c \in Chains : Counted(rejected[c]) \in 0 .. Cardinality(Deliveries) + 2
    BY CountedType DEF HistoryOK
  <2> QED BY <2>1 DEF HistoryOK, ValidateAlchemySignature
<1> QED BY <1>1, <1>2, <1>3, <1>4

\* A POST is over, and its delivery may have changed.
LEMMA LeaveType ==
    ASSUME TypeInv, NEW d \in Deliveries, Leave(d), NEW r \in DeliveryStates,
           delivery' = [delivery EXCEPT ![d] = r],
           UNCHANGED <<configured, alchemy, cache, history>>
    PROVE  TypeInv'
<1> USE DEF TypeInv
<1>1. AlchemyOK' /\ CacheOK' /\ HistoryOK'
  BY DEF AlchemyOK, CacheOK, HistoryOK, alchemy, history
<1>2. PostsOK'
  <2>1. \A e \in Deliveries : PostOK(e)'
    <3> TAKE e \in Deliveries
    <3>1. CASE e = d
      BY <3>1, AwayOK DEF Leave, PostsOK
    <3>2. CASE e # d
      <4>1. PostOK(e) /\ post'[e] = post[e] /\ delivery'[e] = delivery[e]
        BY <3>2 DEF PostsOK, Leave
      <4> QED BY <4>1, PostKept DEF alchemy
    <3> QED BY <3>1, <3>2
  <2> QED BY <2>1, AwayType DEF PostsOK, Leave
<1> QED BY <1>1, <1>2

\* The fields of a delivery that Process and FailSaveWebhook write.
LEMMA AnnouncedType ==
    ASSUME PostsOK, NEW d \in Deliveries
    PROVE  delivery[d].announced \in BOOLEAN /\ delivery[d].stored \in BOOLEAN
<1>1. delivery[d] \in DeliveryStates
  BY DEF PostsOK
<1>2. CASE delivery[d] = Unsent
  BY <1>2 DEF Unsent
<1>3. CASE delivery[d] # Unsent
  BY <1>1, <1>3 DEF DeliveryStates
<1> QED BY <1>2, <1>3

\* Process writes all of a delivery's state at once.
LEMMA ProcessState ==
    ASSUME PostsOK, NEW d \in Deliveries, NEW heard \in BOOLEAN, Process(d, heard),
           Pending(d)
    PROVE  \E r \in DeliveryStates :
              /\ delivery' = [delivery EXCEPT ![d] = r]
              /\ r.stored /\ (r.kind \in AnnouncedKinds => r.announced)
<1> DEFINE said == delivery[d].announced \/ delivery[d].kind \in AnnouncedKinds
           r == [delivery[d] EXCEPT !.stored = TRUE, !.accepted = heard,
                                    !.announced = said]
<1>1. delivery' = [delivery EXCEPT ![d] = r]
  BY DEF Process
<1>2. delivery[d] \in [sent : {TRUE}, chain : Chains, kind : Kinds, by : Webhooks,
                       stored : BOOLEAN, announced : BOOLEAN, accepted : BOOLEAN]
  BY SentState DEF Pending
<1>3. said \in BOOLEAN /\ (delivery[d].kind \in AnnouncedKinds => said)
  OBVIOUS
<1> HIDE DEF said
<1>4. /\ r \in DeliveryStates
      /\ r.stored /\ r.kind = delivery[d].kind /\ r.announced = said
  BY <1>2, <1>3 DEF DeliveryStates
<1> QED BY <1>1, <1>3, <1>4

LEMMA TypeInvNext == ASSUME TypeInv, [Next]_vars PROVE TypeInv'
<1> USE DEF TypeInv
<1>1. ASSUME NEW c \in Chains, CreateWebhook(c) PROVE TypeInv'
  <2>1. created[c] \in Nat /\ created[c] < MaxWebhooks
        /\ created' = [created EXCEPT ![c] = created[c] + 1]
    BY <1>1, CreatedType DEF CreateWebhook
  <2>2. /\ created' \in [Chains -> 0 .. MaxWebhooks]
        /\ created'[c] = created[c] + 1
        /\ \A x \in Chains : created[x] <= created'[x]
    BY <2>1, ConstantsAssumption DEF AlchemyOK
  <2>3. CASE Relist(c, Append(webhooks[c], created'[c]))
    <3>1. Listing(Append(webhooks[c], created'[c]), created'[c])
      BY <2>1, <2>2, AppendListing DEF AlchemyOK
    <3> QED BY <2>2, <2>3, <3>1, RelistType
  <2>4. CASE Relist(c, <<created'[c]>> \o webhooks[c])
    <3>1. Listing(<<created'[c]>> \o webhooks[c], created'[c])
      BY <2>1, <2>2, PrependListing DEF AlchemyOK
    <3> QED BY <2>2, <2>4, <3>1, RelistType
  <2> QED BY <1>1, <2>3, <2>4 DEF CreateWebhook
<1>2. ASSUME NEW c \in Chains, RemoveWebhook(c) PROVE TypeInv'
  <2>1. PICK i \in DOMAIN webhooks[c] : Relist(c, RemoveAt(webhooks[c], i))
    BY <1>2 DEF RemoveWebhook
  <2>2. created' = created /\ created' \in [Chains -> 0 .. MaxWebhooks]
        /\ \A x \in Chains : created[x] \in Nat
    BY <1>2, CreatedType DEF RemoveWebhook, AlchemyOK
  <2>3. Listing(RemoveAt(webhooks[c], i), created'[c])
    BY <2>2, RemoveListing DEF AlchemyOK
  <2> QED BY <2>1, <2>2, <2>3, RelistType
<1>3. ASSUME NEW c \in Chains, ExpireSigningKey(c) PROVE TypeInv'
  <2>1. CacheOK'
    BY <1>3 DEF ExpireSigningKey, CacheOK, alchemy
  <2>2. AlchemyOK' /\ HistoryOK'
    BY <1>3 DEF ExpireSigningKey, AlchemyOK, HistoryOK, alchemy, history
  <2>3. PostsOK'
    BY <1>3, PostKept DEF ExpireSigningKey, PostsOK, alchemy
  <2> QED BY <1>3, <2>1, <2>2, <2>3 DEF ExpireSigningKey
<1>4. ASSUME NEW d \in Deliveries, Report(d) PROVE TypeInv'
  <2>1. PICK c \in Chains, kind \in Kinds : \E i \in DOMAIN webhooks[c] :
           delivery' = [delivery EXCEPT ![d] =
              [Unsent EXCEPT !.sent = TRUE, !.chain = c, !.kind = kind,
                             !.by = webhooks[c][i]]]
    BY <1>4 DEF Report
  <2>2. PICK i \in DOMAIN webhooks[c] :
           delivery' = [delivery EXCEPT ![d] =
              [Unsent EXCEPT !.sent = TRUE, !.chain = c, !.kind = kind,
                             !.by = webhooks[c][i]]]
    BY <2>1
  <2>3. webhooks[c][i] \in Webhooks
    <3>1. webhooks[c][i] \in 1 .. created[c]
      BY CreatedType, ListingElements DEF AlchemyOK
    <3> QED BY <3>1, CreatedType, ConstantsAssumption DEF Webhooks
  <2>4. delivery' \in [Deliveries -> DeliveryStates]
    BY <2>2, <2>3 DEF PostsOK, DeliveryStates, Unsent
  <2>5. \A e \in Deliveries : PostOK(e)'
    <3> TAKE e \in Deliveries
    <3>1. CASE e = d
      <4>1. At(d, "away")
        BY <1>4 DEF Report, PostsOK, PostOK, Pending
      <4> QED BY <1>4, <3>1, <4>1 DEF Report, PostOK, At
    <3>2. CASE e # d
      <4>1. delivery'[e] = delivery[e] /\ post'[e] = post[e] /\ PostOK(e)
        BY <1>4, <2>2, <3>2 DEF Report, PostsOK
      <4> QED BY <1>4, <4>1, PostKept DEF Report, alchemy
    <3> QED BY <3>1, <3>2
  <2>6. AlchemyOK' /\ CacheOK' /\ HistoryOK'
    BY <1>4 DEF Report, AlchemyOK, CacheOK, HistoryOK, alchemy, history
  <2> QED BY <1>4, <2>4, <2>5, <2>6 DEF Report, PostsOK
<1>5. ASSUME NEW d \in Deliveries, HandleWebhook(d) PROVE TypeInv'
  <2>1. UNCHANGED <<configured, alchemy, delivery, late>> /\ Pending(d) /\ Verifiable(d)
    BY <1>5 DEF HandleWebhook
  <2>2. CASE ValidateAlchemySignature(d, cache[ChainOf(d)], cache)
    BY <2>1, <2>2, ValidateType DEF CacheOK
  <2>3. CASE /\ post' = [post EXCEPT ![d] = [Away EXCEPT !.pc = "list"]]
             /\ UNCHANGED <<cache, rejected>>
    <3>1. AlchemyOK' /\ CacheOK' /\ HistoryOK'
      BY <2>1, <2>3 DEF AlchemyOK, CacheOK, HistoryOK, alchemy
    <3>2. [Away EXCEPT !.pc = "list"] \in PostStates
          /\ [Away EXCEPT !.pc = "list"].pc = "list"
      BY DEF Away, PostStates
    <3>3. \A e \in Deliveries : PostOK(e)'
      <4> TAKE e \in Deliveries
      <4>1. CASE e = d
        BY <2>1, <2>3, <3>2, <4>1
        DEF PostsOK, PostOK, At, Pending, Verifiable, NetworkId
      <4>2. CASE e # d
        <5>1. post'[e] = post[e] /\ PostOK(e)
          BY <2>3, <4>2 DEF PostsOK
        <5> QED BY <2>1, <5>1, PostKept DEF alchemy
      <4> QED BY <4>1, <4>2
    <3> QED BY <2>1, <2>3, <3>1, <3>2, <3>3 DEF PostsOK
  <2> QED BY <1>5, <2>2, <2>3 DEF HandleWebhook
<1>6. ASSUME NEW d \in Deliveries, GetExistingWebhooks(d) PROVE TypeInv'
  <2> DEFINE key == First(webhooks[delivery[d].chain])
  <2>1. Pending(d) /\ Verifiable(d)
    BY <1>6 DEF GetExistingWebhooks, PostsOK, PostOK, At
  <2>2. delivery[d].chain \in Chains
    BY <2>1, SentChain DEF Pending
  <2>3. key \in Webhooks \cup {None}
        /\ (key # None => key <= created[delivery[d].chain])
    BY <2>2, FirstType
  <2>4. post' = [post EXCEPT ![d] = [post[d] EXCEPT !.pc = "listed", !.key = key]]
        /\ UNCHANGED <<configured, alchemy, cache, delivery, history>>
    BY <1>6 DEF GetExistingWebhooks
  <2> HIDE DEF key
  <2>5. /\ post' \in [Deliveries -> PostStates]
        /\ post'[d].pc = "listed" /\ post'[d].key = key
    BY <2>3, <2>4 DEF PostsOK, PostStates
  <2>6. \A e \in Deliveries : PostOK(e)'
    <3> TAKE e \in Deliveries
    <3>1. CASE e = d
      BY <2>1, <2>3, <2>4, <2>5, <3>1
      DEF PostOK, At, Pending, Verifiable, NetworkId, alchemy
    <3>2. CASE e # d
      <4>1. post'[e] = post[e] /\ PostOK(e)
        BY <2>4, <3>2 DEF PostsOK
      <4> QED BY <2>4, <4>1, PostKept DEF alchemy
    <3> QED BY <3>1, <3>2
  <2>7. AlchemyOK' /\ CacheOK' /\ HistoryOK'
    BY <2>4 DEF AlchemyOK, CacheOK, HistoryOK, alchemy, history
  <2> QED BY <2>4, <2>5, <2>6, <2>7 DEF PostsOK
<1>7. ASSUME NEW d \in Deliveries, GetSigningKeyByUrl(d) PROVE TypeInv'
  <2>1. UNCHANGED <<configured, alchemy, delivery, late>> /\ Pending(d) /\ Verifiable(d)
        /\ At(d, "listed")
    BY <1>7 DEF GetSigningKeyByUrl, PostsOK, PostOK, At
  <2>2. CASE Leave(d) /\ UNCHANGED <<cache, rejected>>
    <3>1. delivery' = [delivery EXCEPT ![d] = delivery[d]]
          /\ delivery[d] \in DeliveryStates
      BY <2>1 DEF PostsOK
    <3> QED BY <2>1, <2>2, <3>1, LeaveType DEF history
  <2>3. CASE /\ post[d].key # None
             /\ ValidateAlchemySignature(d, post[d].key,
                   [cache EXCEPT ![ChainOf(d)] = post[d].key])
    <3> DEFINE entries == [cache EXCEPT ![ChainOf(d)] = post[d].key]
    <3>1. ChainOf(d) = delivery[d].chain /\ delivery[d].chain \in Chains
      BY <2>1, OwnChain
    <3>2. post[d].key \in Webhooks /\ post[d].key <= created[delivery[d].chain]
      BY <2>1, <2>3 DEF PostsOK, PostOK, PostStates
    <3>3. /\ entries \in [Chains -> Webhooks \cup {None}]
          /\ \A c \in Chains : entries[c] # None => entries[c] <= created[c]
      BY <3>1, <3>2 DEF CacheOK
    <3> QED BY <2>1, <2>3, <3>3, ValidateType
  <2> QED BY <1>7, <2>2, <2>3 DEF GetSigningKeyByUrl
<1>8. ASSUME NEW d \in Deliveries, FailGetExistingWebhooks(d) PROVE TypeInv'
  <2>1. delivery' = [delivery EXCEPT ![d] = delivery[d]]
        /\ delivery[d] \in DeliveryStates
    BY <1>8 DEF FailGetExistingWebhooks, PostsOK
  <2> QED BY <1>8, <2>1, LeaveType DEF FailGetExistingWebhooks
<1>9. ASSUME NEW d \in Deliveries, ProcessWebhookEvent(d) PROVE TypeInv'
  <2>1. Pending(d)
    BY <1>9 DEF ProcessWebhookEvent, PostsOK, PostOK, At
  <2>2. PICK heard \in BOOLEAN : Process(d, heard)
    BY <1>9 DEF ProcessWebhookEvent
  <2>3. PICK r \in DeliveryStates : delivery' = [delivery EXCEPT ![d] = r]
    BY <2>1, <2>2, ProcessState
  <2> QED BY <1>9, <2>3, LeaveType DEF ProcessWebhookEvent
<1>10. ASSUME NEW d \in Deliveries, FailSaveWebhook(d) PROVE TypeInv'
  <2>1. Pending(d)
    BY <1>10 DEF FailSaveWebhook, PostsOK, PostOK, At
  <2>2. PICK stored \in {TRUE, delivery[d].stored} :
           delivery' = [delivery EXCEPT ![d].stored = stored]
    BY <1>10 DEF FailSaveWebhook
  <2>3. stored \in BOOLEAN
    BY AnnouncedType
  <2> DEFINE r == [delivery[d] EXCEPT !.stored = stored]
  <2>4. delivery[d] \in [sent : {TRUE}, chain : Chains, kind : Kinds, by : Webhooks,
                          stored : BOOLEAN, announced : BOOLEAN, accepted : BOOLEAN]
    BY <2>1, SentState DEF Pending
  <2>5. r \in DeliveryStates
    BY <2>3, <2>4 DEF DeliveryStates
  <2>6. delivery' = [delivery EXCEPT ![d] = r]
    BY <2>2 DEF PostsOK
  <2> QED BY <1>10, <2>5, <2>6, LeaveType DEF FailSaveWebhook
<1>11. ASSUME Restart PROVE TypeInv'
  <2>1. AlchemyOK' /\ CacheOK' /\ HistoryOK'
    BY <1>11 DEF Restart, AlchemyOK, CacheOK, HistoryOK, alchemy, history
  <2>2. \A d \in Deliveries : PostOK(d)'
    BY <1>11, AwayOK DEF Restart
  <2> QED BY <1>11, <2>1, <2>2, AwayType DEF Restart, PostsOK
<1>12. ASSUME UNCHANGED vars PROVE TypeInv'
  <2>1. PostsOK'
    BY <1>12, PostKept DEF vars, PostsOK, alchemy
  <2> QED BY <1>12, <2>1 DEF vars, AlchemyOK, CacheOK, HistoryOK, alchemy, history
<1> QED
  BY <1>1, <1>2, <1>3, <1>4, <1>5, <1>6, <1>7, <1>8, <1>9, <1>10, <1>11, <1>12 DEF Next

LEMMA TypeInvHolds == Spec => []TypeInv
<1>1. Init => TypeInv
  BY TypeInvInit
<1>2. TypeInv /\ [Next]_vars => TypeInv'
  BY TypeInvNext
<1> QED BY <1>1, <1>2, PTL DEF Spec

\* A webhook URL's keys, lists and deliveries keep their types: no list holds a
\* webhook twice, a key in memory is one its chain has had, and a POST is handled
\* only while Alchemy waits for it and only if it can be verified.
THEOREM TypeCorrect == Spec => []TypeOK
<1>1. TypeInv => TypeOK
  BY TypeInvTypeOK
<1> QED BY <1>1, TypeInvHolds, PTL

-----------------------------------------------------------------------------
(* What Alchemy will not send again was processed.                         *)

LEMMA AcceptedNext ==
    ASSUME TypeInv, AcceptedIsAnnounced, [Next]_vars
    PROVE  AcceptedIsAnnounced'
<1> DEFINE Good(r) == r.accepted => r.stored /\ (r.kind \in AnnouncedKinds => r.announced)
<1>1. \A d \in Deliveries : Good(delivery[d])
  BY DEF AcceptedIsAnnounced
<1>2. SUFFICES \A d \in Deliveries : Good(delivery'[d])
  BY DEF AcceptedIsAnnounced
<1>3. ASSUME NEW d \in Deliveries, NEW r, Good(r), delivery' = [delivery EXCEPT ![d] = r]
      PROVE  \A e \in Deliveries : Good(delivery'[e])
  <2> HIDE DEF Good
  <2>1. delivery'[d] = r
    BY <1>3 DEF TypeInv, PostsOK
  <2>2. \A e \in Deliveries : e # d => delivery'[e] = delivery[e]
    BY <1>3 DEF TypeInv, PostsOK
  <2> QED BY <1>1, <1>3, <2>1, <2>2
<1>4. ASSUME NEW d \in Deliveries, Report(d) PROVE \A e \in Deliveries : Good(delivery'[e])
  <2>1. PICK c \in Chains, kind \in Kinds : \E i \in DOMAIN webhooks[c] :
           delivery' = [delivery EXCEPT ![d] =
              [Unsent EXCEPT !.sent = TRUE, !.chain = c, !.kind = kind,
                             !.by = webhooks[c][i]]]
    BY <1>4 DEF Report
  <2>2. PICK i \in DOMAIN webhooks[c] :
           delivery' = [delivery EXCEPT ![d] =
              [Unsent EXCEPT !.sent = TRUE, !.chain = c, !.kind = kind,
                             !.by = webhooks[c][i]]]
    BY <2>1
  <2> DEFINE r == [Unsent EXCEPT !.sent = TRUE, !.chain = c, !.kind = kind,
                                 !.by = webhooks[c][i]]
  <2>3. Good(r)
    BY DEF Unsent
  <2> HIDE DEF r, Good
  <2> QED BY <1>3, <2>2, <2>3 DEF r
<1>5. ASSUME NEW d \in Deliveries, ProcessWebhookEvent(d)
      PROVE  \A e \in Deliveries : Good(delivery'[e])
  <2>1. Pending(d)
    BY <1>5 DEF ProcessWebhookEvent, TypeInv, PostsOK, PostOK, At
  <2>2. PICK heard \in BOOLEAN : Process(d, heard)
    BY <1>5 DEF ProcessWebhookEvent
  <2>3. PICK r \in DeliveryStates : /\ delivery' = [delivery EXCEPT ![d] = r]
                                    /\ r.stored
                                    /\ r.kind \in AnnouncedKinds => r.announced
    BY <2>1, <2>2, ProcessState DEF TypeInv
  <2>4. Good(r)
    BY <2>3
  <2> HIDE DEF Good
  <2> QED BY <1>3, <2>3, <2>4
<1>6. ASSUME NEW d \in Deliveries, FailSaveWebhook(d)
      PROVE  \A e \in Deliveries : Good(delivery'[e])
  <2>1. delivery[d].sent /\ ~delivery[d].accepted
    BY <1>6 DEF FailSaveWebhook, TypeInv, PostsOK, PostOK, At, Pending
  <2>2. PICK stored \in {TRUE, delivery[d].stored} :
           delivery' = [delivery EXCEPT ![d].stored = stored]
    BY <1>6 DEF FailSaveWebhook
  <2> DEFINE r == [delivery[d] EXCEPT !.stored = stored]
  <2>3. delivery' = [delivery EXCEPT ![d] = r]
    BY <2>2 DEF TypeInv, PostsOK
  <2>4. r.accepted = delivery[d].accepted
    BY <2>1, SentState DEF TypeInv
  <2>5. Good(r)
    BY <2>1, <2>4
  <2> HIDE DEF r, Good
  <2> QED BY <1>3, <2>3, <2>5
<1>7. CASE UNCHANGED delivery
  BY <1>1, <1>7
<1> QED
  BY <1>4, <1>5, <1>6, <1>7
  DEF Next, CreateWebhook, RemoveWebhook, Relist, ExpireSigningKey, HandleWebhook,
      GetExistingWebhooks, GetSigningKeyByUrl, FailGetExistingWebhooks, Restart, vars

\* A delivery whose 2xx Alchemy has heard is stored, and if it is of a kind that
\* says an address changed, that address was announced: processWebhookEvent
\* answers only after both, in whatever order POSTs, failures and restarts come.
THEOREM AcceptedIsAnnouncedHolds == Spec => []AcceptedIsAnnounced
<1>1. Init => AcceptedIsAnnounced
  BY DEF Init, AcceptedIsAnnounced, Unsent
<1>2. TypeInv /\ AcceptedIsAnnounced /\ [Next]_vars => AcceptedIsAnnounced'
  BY AcceptedNext
<1> QED BY <1>1, <1>2, TypeInvHolds, PTL DEF Spec

-----------------------------------------------------------------------------
(* Every rejection of a genuine delivery is paid for by a stale key.       *)

\* The key in memory is that of a webhook which is no longer the first.
StaleKeys(c) == IF cache[c] \in {None, First(webhooks[c])} THEN 0 ELSE 1

\* The lookups that bring such a key.
StaleLookups(c) ==
    {d \in Deliveries : /\ At(d, "listed") /\ delivery[d].chain = c
                        /\ post[d].key \notin {None, First(webhooks[c])}}

\* What the deliveries of a chain can still lose, and have lost, is bounded.
Accounted(c) ==
    rejected[c] + StaleKeys(c) + Cardinality(StaleLookups(c)) <= 1 + late[c]

RejectionInv == \A c \in Chains : Accounted(c)

LEMMA AccountTypes ==
    ASSUME TypeInv, NEW c \in Chains
    PROVE  /\ rejected[c] \in Nat /\ late[c] \in Nat
           /\ StaleKeys(c) \in {0, 1}
           /\ IsFiniteSet(StaleLookups(c)) /\ Cardinality(StaleLookups(c)) \in Nat
<1>1. rejected[c] \in Nat /\ late[c] \in Nat
  BY CountsType DEF TypeInv, HistoryOK
<1>2. StaleLookups(c) \in SUBSET Deliveries
  BY DEF StaleLookups
<1> QED BY <1>1, <1>2, CountsType DEF StaleKeys

\* Nothing new is stale.
LEMMA AccountKept ==
    ASSUME TypeInv, TypeInv', NEW c \in Chains, Accounted(c),
           rejected'[c] + StaleKeys(c)' <= rejected[c] + StaleKeys(c),
           StaleLookups(c)' \subseteq StaleLookups(c), late'[c] = late[c]
    PROVE  Accounted(c)'
<1>1. Cardinality(StaleLookups(c)') <= Cardinality(StaleLookups(c))
  BY AccountTypes, FS_Subset
<1>2. /\ rejected'[c] \in Nat /\ late'[c] \in Nat /\ StaleKeys(c)' \in {0, 1}
      /\ Cardinality(StaleLookups(c)') \in Nat
  <2>1. /\ rejected'[c] \in Nat /\ late'[c] \in Nat
    BY CountsType DEF TypeInv, HistoryOK
  <2>2. StaleLookups(c)' \in SUBSET Deliveries
    BY DEF StaleLookups
  <2> QED BY <2>1, <2>2, CountsType DEF StaleKeys
<1> QED BY <1>1, <1>2, AccountTypes DEF Accounted

\* A stale lookup is over: it costs a rejection or leaves a stale key.
LEMMA AccountMoved ==
    ASSUME TypeInv, TypeInv', NEW c \in Chains, Accounted(c),
           NEW d \in StaleLookups(c),
           rejected'[c] + StaleKeys(c)' <= rejected[c] + StaleKeys(c) + 1,
           StaleLookups(c)' \subseteq StaleLookups(c) \ {d}, late'[c] = late[c]
    PROVE  Accounted(c)'
<1>1. /\ IsFiniteSet(StaleLookups(c) \ {d})
      /\ Cardinality(StaleLookups(c) \ {d}) = Cardinality(StaleLookups(c)) - 1
  BY AccountTypes, FS_RemoveElement
<1>2. Cardinality(StaleLookups(c)') <= Cardinality(StaleLookups(c)) - 1
  BY <1>1, FS_Subset
<1>3. /\ rejected'[c] \in Nat /\ late'[c] \in Nat /\ StaleKeys(c)' \in {0, 1}
      /\ Cardinality(StaleLookups(c)') \in Nat
  <2>1. /\ rejected'[c] \in Nat /\ late'[c] \in Nat
    BY CountsType DEF TypeInv, HistoryOK
  <2>2. StaleLookups(c)' \in SUBSET Deliveries
    BY DEF StaleLookups
  <2> QED BY <2>1, <2>2, CountsType DEF StaleKeys
<1> QED BY <1>2, <1>3, AccountTypes DEF Accounted

\* A POST that is not at its list any more has no lookup.
LEMMA LookupOver ==
    ASSUME TypeInv, UNCHANGED <<webhooks, delivery>>, NEW d \in Deliveries,
           NEW p, p.pc # "listed", post' = [post EXCEPT ![d] = p], NEW c \in Chains
    PROVE  StaleLookups(c)' \subseteq StaleLookups(c) \ {d}
<1>1. post'[d] = p /\ \A e \in Deliveries : e # d => post'[e] = post[e]
  BY DEF TypeInv, PostsOK
<1> QED BY <1>1 DEF StaleLookups, At

\* The signature is checked: it fits, and the keys stay as they are, or no key is
\* left and the chain may have one more rejection, if its first webhook signed.
LEMMA ValidateEffect ==
    ASSUME TypeInv, NEW d \in Deliveries, NEW key, NEW entries,
           ValidateAlchemySignature(d, key, entries),
           UNCHANGED <<configured, alchemy, delivery, late>>, NEW c \in Chains
    PROVE  /\ StaleLookups(c)' \subseteq StaleLookups(c) \ {d}
           /\ \/ cache' = entries /\ rejected' = rejected
              \/ /\ StaleKeys(c)' = 0
                 /\ \/ rejected'[c] = rejected[c]
                    \/ /\ rejected'[c] <= rejected[c] + 1
                       /\ c = delivery[d].chain /\ key # First(webhooks[c])
<1>1. UNCHANGED <<webhooks, delivery>>
  BY DEF alchemy
<1>2. CASE key = delivery[d].by
  <2>1. /\ post' = [post EXCEPT ![d] = [Away EXCEPT !.pc = "save"]]
        /\ [Away EXCEPT !.pc = "save"].pc # "listed"
    BY <1>2 DEF ValidateAlchemySignature, Away
  <2>2. StaleLookups(c)' \subseteq StaleLookups(c) \ {d}
    BY <1>1, <2>1, LookupOver
  <2> QED BY <1>2, <2>2 DEF ValidateAlchemySignature
<1>3. CASE key # delivery[d].by
  <2>1. post' = [post EXCEPT ![d] = Away] /\ Away.pc # "listed"
    BY <1>3, AwayType DEF ValidateAlchemySignature, Leave
  <2>2. StaleLookups(c)' \subseteq StaleLookups(c) \ {d}
    BY <1>1, <2>1, LookupOver
  <2>3. StaleKeys(c)' = 0
    BY <1>3 DEF ValidateAlchemySignature, ClearSigningKeyCache, StaleKeys
  <2>4. Counted(rejected[c]) <= rejected[c] + 1
    BY CountedType DEF TypeInv, HistoryOK
  <2>5. \/ rejected'[c] = rejected[c]
        \/ /\ rejected'[c] = Counted(rejected[c])
           /\ c = delivery[d].chain /\ key # First(webhooks[c])
    BY <1>3 DEF ValidateAlchemySignature, TypeInv, HistoryOK
  <2> QED BY <2>2, <2>3, <2>4, <2>5
<1> QED BY <1>2, <1>3

LEMMA RelistAccount ==
    ASSUME TypeInv, TypeInv', NEW c \in Chains, Accounted(c),
           NEW x \in Chains, NEW list, Relist(x, list)
    PROVE  Accounted(c)'
<1> DEFINE lookups == {d \in Deliveries : At(d, "listed") /\ delivery[d].chain = x}
<1>1. /\ UNCHANGED <<configured, cache, delivery, post>>
      /\ webhooks' = [webhooks EXCEPT ![x] = list]
      /\ DOMAIN webhooks = Chains /\ DOMAIN late = Chains /\ DOMAIN rejected = Chains
  BY DEF Relist, TypeInv, AlchemyOK, HistoryOK
<1>2. CASE First(webhooks'[c]) = First(webhooks[c]) /\ rejected'[c] = rejected[c]
           /\ late'[c] = late[c]
  <2>1. StaleKeys(c)' = StaleKeys(c) /\ StaleLookups(c)' = StaleLookups(c)
    BY <1>1, <1>2 DEF StaleKeys, StaleLookups, At
  <2> QED BY <1>2, <2>1, AccountKept, AccountTypes
<1>3. CASE c = x /\ rejected'[x] = 0 /\ late'[x] = Cardinality(lookups)
  <2>1. StaleLookups(c)' \subseteq lookups
    BY <1>1, <1>3 DEF StaleLookups, At
  <2>2. IsFiniteSet(lookups) /\ Cardinality(lookups) \in Nat
    BY CountsType
  <2> HIDE DEF lookups
  <2>3. /\ Cardinality(StaleLookups(c)') <= Cardinality(lookups)
        /\ Cardinality(StaleLookups(c)') \in Nat
    BY <2>1, <2>2, FS_Subset, FS_CardinalityType
  <2>4. StaleKeys(c)' \in {0, 1}
    BY DEF StaleKeys
  <2> QED BY <1>3, <2>2, <2>3, <2>4 DEF Accounted
<1>4. \/ First(list) = First(webhooks[x]) /\ UNCHANGED history
      \/ /\ rejected' = [rejected EXCEPT ![x] = 0]
         /\ late' = [late EXCEPT ![x] = Cardinality(lookups)]
  BY DEF Relist
<1> HIDE DEF lookups
<1>5. CASE c = x
  BY <1>1, <1>2, <1>3, <1>4, <1>5 DEF history
<1>6. CASE c # x
  BY <1>1, <1>2, <1>4, <1>6 DEF history
<1> QED BY <1>5, <1>6

LEMMA RejectionNext ==
    ASSUME TypeInv, TypeInv', NEW c \in Chains, Accounted(c), [Next]_vars
    PROVE  Accounted(c)'
<1>0. /\ rejected[c] \in Nat /\ late[c] \in Nat /\ StaleKeys(c) \in {0, 1}
  BY AccountTypes
<1>1. ASSUME NEW x \in Chains, CreateWebhook(x) \/ RemoveWebhook(x) PROVE Accounted(c)'
  <2>1. PICK list : Relist(x, list)
    BY <1>1 DEF CreateWebhook, RemoveWebhook
  <2> QED BY <2>1, RelistAccount
<1>2. ASSUME NEW x \in Chains, ExpireSigningKey(x) PROVE Accounted(c)'
  <2>1. StaleKeys(c)' <= StaleKeys(c)
    BY <1>2 DEF ExpireSigningKey, StaleKeys, alchemy, TypeInv, CacheOK
  <2>2. /\ StaleLookups(c)' = StaleLookups(c) /\ rejected' = rejected /\ late' = late
    BY <1>2 DEF ExpireSigningKey, StaleLookups, At, alchemy, history
  <2>3. StaleKeys(c)' \in {0, 1}
    BY DEF StaleKeys
  <2> QED BY <1>0, <2>1, <2>2, <2>3, AccountKept
<1>3. ASSUME NEW d \in Deliveries, Report(d) PROVE Accounted(c)'
  <2>1. At(d, "away")
    BY <1>3 DEF Report, TypeInv, PostsOK, PostOK, Pending
  <2>2. \A e \in Deliveries : e # d => delivery'[e] = delivery[e]
    BY <1>3 DEF Report, TypeInv, PostsOK
  <2>3. UNCHANGED <<webhooks, cache, post, rejected, late>>
    BY <1>3 DEF Report, alchemy, history
  <2>4. StaleLookups(c)' \subseteq StaleLookups(c) /\ StaleKeys(c)' = StaleKeys(c)
    BY <2>1, <2>2, <2>3 DEF StaleLookups, StaleKeys, At
  <2> QED BY <1>0, <2>3, <2>4, AccountKept
<1>4. ASSUME NEW d \in Deliveries, HandleWebhook(d) PROVE Accounted(c)'
  <2>1. UNCHANGED <<configured, alchemy, delivery, late>> /\ Pending(d) /\ Verifiable(d)
    BY <1>4 DEF HandleWebhook
  <2>2. CASE /\ cache[ChainOf(d)] # None
             /\ ValidateAlchemySignature(d, cache[ChainOf(d)], cache)
    <3>1. /\ StaleLookups(c)' \subseteq StaleLookups(c) \ {d}
          /\ \/ cache' = cache /\ rejected' = rejected
             \/ /\ StaleKeys(c)' = 0
                /\ \/ rejected'[c] = rejected[c]
                   \/ /\ rejected'[c] <= rejected[c] + 1
                      /\ c = delivery[d].chain
                      /\ cache[ChainOf(d)] # First(webhooks[c])
      BY <2>1, <2>2, ValidateEffect
    <3>2. CASE cache' = cache /\ rejected' = rejected
      <4>1. StaleKeys(c)' = StaleKeys(c)
        BY <2>1, <3>2 DEF StaleKeys, alchemy
      <4> QED BY <1>0, <2>1, <3>1, <3>2, <4>1, AccountKept
    <3>3. CASE StaleKeys(c)' = 0 /\ rejected'[c] = rejected[c]
      BY <1>0, <2>1, <3>1, <3>3, AccountKept
    <3>4. CASE /\ StaleKeys(c)' = 0 /\ rejected'[c] <= rejected[c] + 1
               /\ c = delivery[d].chain /\ cache[ChainOf(d)] # First(webhooks[c])
      <4>1. StaleKeys(c) = 1
        BY <2>1, <2>2, <3>4, OwnChain DEF StaleKeys, TypeInv
      <4>2. rejected'[c] \in Nat
        BY CountsType DEF TypeInv, HistoryOK
      <4> QED BY <1>0, <2>1, <3>1, <3>4, <4>1, <4>2, AccountKept
    <3> QED BY <3>1, <3>2, <3>3, <3>4
  <2>3. CASE /\ post' = [post EXCEPT ![d] = [Away EXCEPT !.pc = "list"]]
             /\ UNCHANGED <<cache, rejected>>
    <3>1. [Away EXCEPT !.pc = "list"].pc # "listed"
      BY DEF Away
    <3>2. StaleLookups(c)' \subseteq StaleLookups(c) \ {d}
      BY <2>1, <2>3, <3>1, LookupOver DEF alchemy
    <3>3. StaleKeys(c)' = StaleKeys(c)
      BY <2>1, <2>3 DEF StaleKeys, alchemy
    <3> QED BY <1>0, <2>1, <2>3, <3>2, <3>3, AccountKept
  <2> QED BY <1>4, <2>2, <2>3 DEF HandleWebhook
<1>5. ASSUME NEW d \in Deliveries, GetExistingWebhooks(d) PROVE Accounted(c)'
  <2>1. /\ UNCHANGED <<webhooks, cache, delivery, rejected, late>>
        /\ At(d, "list")
        /\ post' = [post EXCEPT ![d] =
              [post[d] EXCEPT !.pc = "listed", !.key = First(webhooks[delivery[d].chain])]]
    BY <1>5 DEF GetExistingWebhooks, alchemy, history
  <2>2. /\ post'[d].key = First(webhooks[delivery[d].chain])
        /\ \A e \in Deliveries : e # d => post'[e] = post[e]
    BY <2>1 DEF TypeInv, PostsOK, PostStates
  <2>3. StaleLookups(c)' \subseteq StaleLookups(c) /\ StaleKeys(c)' = StaleKeys(c)
    BY <2>1, <2>2 DEF StaleLookups, StaleKeys, At
  <2> QED BY <1>0, <2>1, <2>3, AccountKept
<1>6. ASSUME NEW d \in Deliveries, GetSigningKeyByUrl(d) PROVE Accounted(c)'
  <2> DEFINE x == delivery[d].chain
             key == post[d].key
             entries == [cache EXCEPT ![ChainOf(d)] = key]
  <2>1. UNCHANGED <<configured, alchemy, delivery, late>> /\ At(d, "listed")
        /\ Pending(d) /\ Verifiable(d)
    BY <1>6 DEF GetSigningKeyByUrl, TypeInv, PostsOK, PostOK, At
  <2>2. CASE Leave(d) /\ UNCHANGED <<cache, rejected>>
    <3>1. StaleLookups(c)' \subseteq StaleLookups(c) \ {d}
      BY <2>1, <2>2, LookupOver, AwayType DEF Leave, alchemy
    <3>2. StaleKeys(c)' = StaleKeys(c)
      BY <2>1, <2>2 DEF StaleKeys, alchemy
    <3> QED BY <1>0, <2>1, <2>2, <3>1, <3>2, AccountKept
  <2>3. CASE key # None /\ ValidateAlchemySignature(d, key, entries)
    <3>1. ChainOf(d) = x /\ x \in Chains
      BY <2>1, OwnChain DEF TypeInv
    <3>2. /\ StaleLookups(c)' \subseteq StaleLookups(c) \ {d}
          /\ \/ cache' = entries /\ rejected' = rejected
             \/ /\ StaleKeys(c)' = 0
                /\ \/ rejected'[c] = rejected[c]
                   \/ /\ rejected'[c] <= rejected[c] + 1
                      /\ c = x /\ key # First(webhooks[c])
      BY <2>1, <2>3, ValidateEffect
    <3>3. rejected'[c] \in Nat /\ StaleKeys(c)' \in {0, 1}
      BY CountsType DEF TypeInv, HistoryOK, StaleKeys
    <3>4. CASE c # x
      <4>1. cache' = entries => StaleKeys(c)' = StaleKeys(c)
        BY <2>1, <3>1, <3>4 DEF StaleKeys, alchemy, TypeInv, CacheOK
      <4>2. rejected'[c] + StaleKeys(c)' <= rejected[c] + StaleKeys(c)
        BY <1>0, <3>2, <3>4, <4>1
      <4> QED BY <2>1, <3>2, <4>2, AccountKept
    <3>5. CASE c = x /\ key = First(webhooks[c])
      <4>1. cache' = entries => StaleKeys(c)' = 0
        BY <2>1, <3>1, <3>5 DEF StaleKeys, alchemy, TypeInv, CacheOK
      <4>2. rejected'[c] + StaleKeys(c)' <= rejected[c] + StaleKeys(c)
        BY <1>0, <3>2, <3>5, <4>1
      <4> QED BY <2>1, <3>2, <4>2, AccountKept
    <3>6. CASE c = x /\ key # First(webhooks[c])
      <4>1. d \in StaleLookups(c)
        BY <2>1, <2>3, <3>6 DEF StaleLookups
      <4>2. rejected'[c] + StaleKeys(c)' <= rejected[c] + StaleKeys(c) + 1
        BY <1>0, <3>2, <3>3
      <4> QED BY <2>1, <3>2, <4>1, <4>2, AccountMoved
    <3> QED BY <3>4, <3>5, <3>6
  <2> QED BY <1>6, <2>2, <2>3 DEF GetSigningKeyByUrl
<1>7. ASSUME NEW d \in Deliveries,
             \/ FailGetExistingWebhooks(d)
             \/ ProcessWebhookEvent(d)
             \/ FailSaveWebhook(d)
      PROVE  Accounted(c)'
  <2>1. Leave(d) /\ UNCHANGED <<webhooks, cache, rejected, late>>
    BY <1>7 DEF FailGetExistingWebhooks, ProcessWebhookEvent, FailSaveWebhook, alchemy,
                history
  <2>2. \A e \in Deliveries : e # d => delivery'[e] = delivery[e] /\ post'[e] = post[e]
    BY <1>7, <2>1 DEF FailGetExistingWebhooks, ProcessWebhookEvent, FailSaveWebhook,
                      Process, Leave, TypeInv, PostsOK
  <2>3. post'[d] = Away
    BY <2>1 DEF Leave, TypeInv, PostsOK
  <2>4. StaleLookups(c)' \subseteq StaleLookups(c) /\ StaleKeys(c)' = StaleKeys(c)
    BY <2>1, <2>2, <2>3, AwayType DEF StaleLookups, StaleKeys, At
  <2> QED BY <1>0, <2>1, <2>4, AccountKept
<1>8. ASSUME Restart PROVE Accounted(c)'
  <2>1. StaleKeys(c)' = 0 /\ UNCHANGED <<rejected, late>>
    BY <1>8 DEF Restart, StaleKeys, history
  <2>2. StaleLookups(c)' \subseteq StaleLookups(c)
    BY <1>8, AwayType DEF Restart, StaleLookups, At
  <2> QED BY <1>0, <2>1, <2>2, AccountKept
<1>9. ASSUME UNCHANGED vars PROVE Accounted(c)'
  <2>1. StaleKeys(c)' = StaleKeys(c) /\ StaleLookups(c)' = StaleLookups(c)
        /\ UNCHANGED <<rejected, late>>
    BY <1>9 DEF vars, alchemy, history, StaleKeys, StaleLookups, At
  <2> QED BY <1>0, <2>1, AccountKept
<1> QED
  BY <1>1, <1>2, <1>3, <1>4, <1>5, <1>6, <1>7, <1>8, <1>9 DEF Next

\* After the first webhook of a chain changes, at most one of the deliveries that
\* it signs is answered 401 for the key left in memory, and one more for each
\* lookup that had already listed and brings an old key: validateAlchemySignature
\* clears the keys when it rejects, so no stale key costs two.
THEOREM RejectionsBoundedHolds == Spec => []RejectionsBounded
<1>1. Init => RejectionInv
  <2> SUFFICES ASSUME Init, NEW c \in Chains PROVE Accounted(c)
    BY DEF RejectionInv
  <2>1. rejected[c] = 0 /\ late[c] = 0 /\ StaleKeys(c) = 0
    BY DEF Init, StaleKeys
  <2>2. StaleLookups(c) = {}
    BY AwayType DEF Init, StaleLookups, At
  <2> QED BY <2>1, <2>2, FS_EmptySet DEF Accounted
<1>2. TypeInv /\ TypeInv' /\ RejectionInv /\ [Next]_vars => RejectionInv'
  BY RejectionNext DEF RejectionInv
<1>3. TypeInv /\ RejectionInv => RejectionsBounded
  <2> SUFFICES ASSUME TypeInv, RejectionInv, NEW c \in Chains
               PROVE  rejected[c] <= 1 + late[c]
    BY DEF RejectionsBounded
  <2>1. /\ rejected[c] \in Nat /\ late[c] \in Nat /\ StaleKeys(c) \in {0, 1}
        /\ Cardinality(StaleLookups(c)) \in Nat
    BY AccountTypes
  <2>2. Accounted(c)
    BY DEF RejectionInv
  <2> QED BY <2>1, <2>2 DEF Accounted
<1> QED BY <1>1, <1>2, <1>3, TypeInvHolds, PTL DEF Spec
=============================================================================
