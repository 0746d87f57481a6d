-------------------------- MODULE ChainServiceProofs --------------------------
(***************************************************************************)
(* Theorems about ChainService: its types, that balances and portfolios    *)
(* are of the chain that was asked for, and what becomes of the calls'     *)
(* answers on their way into them.                                         *)
(***************************************************************************)
EXTENDS ChainService, TLAPS

-----------------------------------------------------------------------------
(* The tables.                                                             *)

\* ChainInfoMap gives each chain an id of its own.
LEMMA ChainIdsDiffer ==
  ASSUME NEW c \in ChainNames, NEW d \in ChainNames, GetChainId(c) = GetChainId(d)
  PROVE  c = d
BY DEF ChainNames, MainnetNames, GetChainId, ChainInfoMap, Info

LEMMA ChainIdType ==
  ASSUME NEW c \in ChainNames
  PROVE  GetChainId(c) \in Nat \ {0}
BY DEF ChainNames, MainnetNames, GetChainId, ChainInfoMap, Info

\* The lookup by id is the inverse of the table.
LEMMA Lookup ==
  ASSUME NEW c \in ChainNames
  PROVE  KnownChainId(GetChainId(c)) /\ GetChainTypeFromChainId(GetChainId(c)) = c
<1>1. \A d \in ChainNames : GetChainId(d) = GetChainId(c) => d = c
  BY ChainIdsDiffer
<1>2. GetChainTypeFromChainId(GetChainId(c)) \in ChainNames
      /\ GetChainId(GetChainTypeFromChainId(GetChainId(c))) = GetChainId(c)
  BY DEF GetChainTypeFromChainId
<1>3. KnownChainId(GetChainId(c))
  BY DEF KnownChainId
<1> QED BY <1>1, <1>2, <1>3

LEMMA KnownIds ==
  ASSUME NEW id, KnownChainId(id)
  PROVE  /\ GetChainTypeFromChainId(id) \in ChainNames
         /\ GetChainId(GetChainTypeFromChainId(id)) = id
BY DEF KnownChainId, GetChainTypeFromChainId

\* Only a registered class serves.
LEMMA ServesRegistered ==
  ASSUME NEW c, NEW p, NEW t, GetProviderNetwork(c, p, t) # Nowhere
  PROVE  p \in DOMAIN RegisteredChains /\ GetProviderClass(c, p) = p
BY DEF GetProviderNetwork, GetProviderClass, RegisteredChains, Nowhere

\* The network that serves a chain, if any does, is the chain's own.
LEMMA NetworkOfChain ==
  ASSUME NEW c \in ChainNames, NEW p, GetProviderNetwork(c, p, NetworkTypeOf(c)) # Nowhere
  PROVE  GetProviderNetwork(c, p, NetworkTypeOf(c)) = c
<1>1. CASE p = "alchemy"
  BY <1>1 DEF GetProviderNetwork, GetProviderClass, RegisteredChains, AlchemyNetwork, Nowhere
<1>2. CASE p = "quicknode"
  <2>1. CASE c = "ethereum"
    <3>1. NetworkTypeOf(c) = "MAINNET"
      BY <2>1 DEF NetworkTypeOf, MainnetNames
    <3>2. GetProviderNetwork(c, p, NetworkTypeOf(c)) = QuickNodeNetwork("MAINNET")
      BY <1>2, <2>1, <3>1 DEF GetProviderNetwork, GetProviderClass, RegisteredChains
    <3>3. "MAINNET" \in QuickNodeEndpoints /\ "ethereum" \in QuickNodeStrategyChains
      BY <3>2 DEF QuickNodeNetwork
    <3>4. GetClient("MAINNET") = "ethereum"
      BY <3>3 DEF GetClient, QuickNodeClients
    <3> QED BY <2>1, <3>2, <3>3, <3>4 DEF QuickNodeNetwork
  <2>2. CASE c # "ethereum"
    BY <1>2, <2>2 DEF GetProviderNetwork, GetProviderClass, RegisteredChains, Nowhere
  <2> QED BY <2>1, <2>2
<1> QED BY <1>1, <1>2, ServesRegistered DEF RegisteredChains

\* An EVM service asks the network of the chain id it was given.
LEMMA EvmNetworkIsAsked ==
  ASSUME NEW id, NEW p, GetEvmNetwork(id, p) # Nowhere
  PROVE  /\ p \in DOMAIN RegisteredChains
         /\ GetEvmNetwork(id, p) \in ChainNames
         /\ GetChainId(GetEvmNetwork(id, p)) = id
<1>1. KnownChainId(id)
  BY DEF GetEvmNetwork
<1> DEFINE c == GetChainTypeFromChainId(id)
<1>2. c \in ChainNames /\ GetChainId(c) = id
  BY <1>1, KnownIds
<1>3. GetEvmNetwork(id, p) = GetProviderNetwork(c, p, NetworkTypeOf(c))
  BY <1>1 DEF GetEvmNetwork
<1> HIDE DEF c
<1>4. GetProviderNetwork(c, p, NetworkTypeOf(c)) = c
  BY <1>2, <1>3, NetworkOfChain
<1> QED BY <1>2, <1>3, <1>4, ServesRegistered

\* The Solana service asks Solana's mainnet.
LEMMA SolanaNetworkType ==
  ASSUME NEW t, NEW p, GetSolanaNetwork(t, p) # Nowhere
  PROVE  p \in DOMAIN RegisteredChains /\ GetSolanaNetwork(t, p) = "solana"
<1>1. p \in DOMAIN RegisteredChains
  BY ServesRegistered DEF GetSolanaNetwork
<1> QED BY <1>1 DEF GetSolanaNetwork, GetProviderNetwork, GetProviderClass,
                    RegisteredChains, AlchemyNetwork, Nowhere

-----------------------------------------------------------------------------
(* What a fetch comes to.                                                  *)

TokenType == [token : Nat, decimals : Nat, named : BOOLEAN]

\* The tokens that a response or raw data lists, and those of the first page.
Listed(data) == {t.token : t \in data.tokens}
Page(held) == {i \in DOMAIN held : i <= PageSize}

\* Every result has its type, and no call's failure leaves a hole in a list.
Sound(result, c, provider) ==
    /\ result.held \in Holdings
    /\ result.response \in Responses
    /\ provider = "alchemy" =>
          /\ Listed(result.response) = IF c \in AlchemyEvmChains THEN Page(result.held)
                                       ELSE DOMAIN result.held
          /\ result.response.nfts
    /\ provider = "quicknode" => Listed(result.response) \in {{}, Page(result.held)}

LEMMA HeldType ==
  ASSUME NEW o \in Outcomes
  PROVE  /\ o.held \in Holdings
         /\ \A i \in DOMAIN o.held : i \in Nat /\ o.held[i] \in Nat
<1>1. o.held \in Holdings /\ o.held \in Seq(Nat)
  BY HoldingsAssumption DEF Outcomes
<1> QED BY <1>1

LEMMA DefaultsType ==
  ASSUME NEW d \in Nat, NEW default \in Nat
  PROVE  OrElse(d, default) \in Nat
BY DEF OrElse

\* The first page as the EVM strategies pass it on.
LEMMA EvmTokensListed ==
  ASSUME NEW o \in Outcomes
  PROVE  /\ EvmTokens(o) \in SUBSET TokenType
         /\ {t.token : t \in EvmTokens(o)} = Page(o.held)
<1> DEFINE entry(i) == Token(i, OrElse(o.held[i], 18), TRUE)
<1>1. FirstPage(o) = Page(o.held)
  BY DEF FirstPage, Page
<1>2. ASSUME NEW i \in Page(o.held)
      PROVE  entry(i) \in TokenType /\ entry(i).token = i
  <2>1. i \in Nat /\ OrElse(o.held[i], 18) \in Nat
    BY HeldType, DefaultsType DEF Page
  <2> QED BY <2>1 DEF Token, TokenType
<1>3. EvmTokens(o) = {entry(i) : i \in Page(o.held)}
  BY <1>1 DEF EvmTokens
<1> HIDE DEF entry
<1> QED BY <1>2, <1>3

LEMMA SolanaTokensListed ==
  ASSUME NEW o \in Outcomes
  PROVE  /\ SolanaTokens(o) \in SUBSET TokenType
         /\ {t.token : t \in SolanaTokens(o)} = DOMAIN o.held
<1> DEFINE entry(i) == Token(i, o.held[i], GetMintMetadata(o, i))
<1>1. ASSUME NEW i \in DOMAIN o.held
      PROVE  entry(i) \in TokenType /\ entry(i).token = i
  <2>1. i \in Nat /\ o.held[i] \in Nat
    BY HeldType
  <2>2. GetMintMetadata(o, i) \in BOOLEAN
    BY DEF GetMintMetadata
  <2> QED BY <2>1, <2>2 DEF Token, TokenType
<1>2. SolanaTokens(o) = {entry(i) : i \in DOMAIN o.held}
  BY DEF SolanaTokens
<1> HIDE DEF entry
<1> QED BY <1>1, <1>2

RawType(raw) == raw.tokens \in SUBSET TokenType /\ raw.nfts \in BOOLEAN

\* An adapter's defaults fill in decimals and touch nothing else.
LEMMA AdapterKeeps ==
  ASSUME NEW raw, RawType(raw), NEW default \in Nat
  PROVE  /\ WithDefaultDecimals(raw, default) \in Responses
         /\ WithDefaultDecimals(raw, default).nfts = raw.nfts
         /\ Listed(WithDefaultDecimals(raw, default)) = Listed(raw)
<1> DEFINE filled(t) == [t EXCEPT !.decimals = OrElse(@, default)]
<1>1. ASSUME NEW t \in raw.tokens
      PROVE  filled(t) \in TokenType /\ filled(t).token = t.token
  <2>1. t \in TokenType
    BY <1>1 DEF RawType
  <2>2. OrElse(t.decimals, default) \in Nat
    BY <2>1, DefaultsType DEF TokenType
  <2> QED BY <2>1, <2>2 DEF TokenType
<1>2. /\ WithDefaultDecimals(raw, default).tokens = {filled(t) : t \in raw.tokens}
      /\ WithDefaultDecimals(raw, default).nfts = raw.nfts
      /\ WithDefaultDecimals(raw, default)
           = [tokens |-> {filled(t) : t \in raw.tokens}, nfts |-> raw.nfts]
  BY DEF WithDefaultDecimals
<1> HIDE DEF filled
<1>3. {filled(t) : t \in raw.tokens} \in SUBSET TokenType
  BY <1>1
<1>4. raw.nfts \in BOOLEAN
  BY DEF RawType
<1>5. WithDefaultDecimals(raw, default) \in Responses
  BY <1>2, <1>3, <1>4 DEF Responses, TokenType
<1>6. Listed(WithDefaultDecimals(raw, default)) = Listed(raw)
  BY <1>1, <1>2 DEF Listed
<1> QED BY <1>2, <1>5, <1>6

\* The adapters that the two providers ask for.
LEMMA AdapterChoices ==
  /\ \A c \in AlchemyEvmChains : ForProvider(c, Nowhere) = "EvmAlchemy"
  /\ \A c \in ChainNames \ AlchemyEvmChains : ForProvider(c, Nowhere) = "SolanaAlchemy"
  /\ ForProvider("ethereum", "quicknode") = "EvmQuickNode"
<1>1. AdapterEvmChains \cap AdapterSolanaChains = {}
  BY DEF AdapterEvmChains, AdapterSolanaChains
<1>2. /\ AlchemyEvmChains \subseteq AdapterEvmChains
      /\ ChainNames \ AlchemyEvmChains \subseteq AdapterSolanaChains
      /\ "ethereum" \in AdapterEvmChains
  BY DEF AlchemyEvmChains, AdapterEvmChains, AdapterSolanaChains, ChainNames, MainnetNames
<1>3. Nowhere # "quicknode"
  BY DEF Nowhere
<1>4. ASSUME NEW c \in AdapterEvmChains
      PROVE  ForProvider(c, Nowhere) = "EvmAlchemy"
  BY <1>1, <1>3 DEF ForProvider
<1>5. ASSUME NEW c \in AdapterSolanaChains
      PROVE  ForProvider(c, Nowhere) = "SolanaAlchemy"
  BY <1>1 DEF ForProvider
<1>6. ForProvider("ethereum", "quicknode") = "EvmQuickNode"
  BY <1>1, <1>2 DEF ForProvider
<1> QED BY <1>2, <1>4, <1>5, <1>6

\* A fetch of Alchemy's: the chain's strategy, and the adapter for its data.
LEMMA AlchemySound ==
  ASSUME NEW c \in ChainNames, NEW o \in Outcomes, NEW response \in AlchemyBalances(c, o)
  PROVE  Sound([held |-> o.held, response |-> response], c, "alchemy")
<1> DEFINE result == [held |-> o.held, response |-> response]
<1>1. result.held = o.held /\ result.response = response
  OBVIOUS
<1>2. CASE c \in AlchemyEvmChains
  <2> DEFINE raw == Raw("EvmAlchemy", EvmTokens(o), TRUE)
  <2>1. raw.tokens = EvmTokens(o) /\ raw.nfts = TRUE /\ raw.format = "EvmAlchemy"
    BY DEF Raw
  <2>2. EvmAlchemyStrategy(o) \subseteq {raw}
    BY DEF EvmAlchemyStrategy
  <2> HIDE DEF raw
  <2>3. RawType(raw) /\ Listed(raw) = Page(o.held)
    BY <2>1, EvmTokensListed DEF RawType, Listed
  <2>4. response \in ToBalancesResponse("EvmAlchemy", raw)
    BY <1>2, <2>2, AdapterChoices DEF AlchemyBalances, AlchemyStrategy
  <2>5. response = WithDefaultDecimals(raw, 18)
    BY <2>1, <2>4 DEF ToBalancesResponse, EvmBalanceAdapter
  <2> HIDE DEF result
  <2> QED BY <1>1, <1>2, <2>1, <2>3, <2>5, AdapterKeeps, HeldType DEF Sound
<1>3. CASE c \notin AlchemyEvmChains
  <2> DEFINE raw == Raw("SolanaAlchemy", SolanaTokens(o), TRUE)
  <2>1. raw.tokens = SolanaTokens(o) /\ raw.nfts = TRUE /\ raw.format = "SolanaAlchemy"
    BY DEF Raw
  <2>2. SolanaAlchemyStrategy(o) \subseteq {raw}
    BY DEF SolanaAlchemyStrategy
  <2> HIDE DEF raw
  <2>3. RawType(raw) /\ Listed(raw) = DOMAIN o.held
    BY <2>1, SolanaTokensListed DEF RawType, Listed
  <2>4. ForProvider(c, Nowhere) = "SolanaAlchemy"
    BY <1>3, AdapterChoices
  <2>5. response \in ToBalancesResponse("SolanaAlchemy", raw)
    BY <1>3, <2>2, <2>4 DEF AlchemyBalances, AlchemyStrategy
  <2>6. response = WithDefaultDecimals(raw, 9)
    BY <2>1, <2>5 DEF ToBalancesResponse, SolanaBalanceAdapter
  <2> HIDE DEF result
  <2> QED BY <1>1, <1>3, <2>1, <2>3, <2>6, AdapterKeeps, HeldType DEF Sound
<1> QED BY <1>2, <1>3

\* A fetch of QuickNode's, whose lists may be missing.
LEMMA QuickNodeSound ==
  ASSUME NEW c, NEW o \in Outcomes, NEW response \in QuickNodeBalances(o)
  PROVE  Sound([held |-> o.held, response |-> response], c, "quicknode")
<1> DEFINE result == [held |-> o.held, response |-> response]
           tokens == IF o.tokens = "list" THEN EvmTokens(o) ELSE {}
           nfts == o.tokens # "error" /\ o.nfts = "list"
           raw == Raw("EvmQuickNode", tokens, nfts)
<1>1. result.held = o.held /\ result.response = response
  OBVIOUS
<1>2. EvmQuickNodeStrategy(o) \subseteq {raw}
  BY DEF EvmQuickNodeStrategy
<1>3. ForProvider("ethereum", "quicknode") = "EvmQuickNode"
  BY AdapterChoices
<1>4. raw.format = "EvmQuickNode" /\ raw.tokens = tokens /\ raw.nfts = nfts
  BY DEF Raw
<1>5. tokens \in {{}, EvmTokens(o)} /\ nfts \in BOOLEAN
  OBVIOUS
<1> HIDE DEF tokens, nfts, raw
<1>6. RawType(raw) /\ Listed(raw) \in {{}, Page(o.held)}
  BY <1>4, <1>5, EvmTokensListed DEF RawType, Listed
<1>7. response \in ToBalancesResponse("EvmQuickNode", raw)
  BY <1>2, <1>3 DEF QuickNodeBalances
<1>8. response = WithDefaultDecimals(raw, 18)
  BY <1>4, <1>7 DEF ToBalancesResponse, EvmQuickNodeAdapter
<1> HIDE DEF result
<1> QED BY <1>1, <1>6, <1>8, AdapterKeeps, HeldType DEF Sound

LEMMA ResultsSound ==
  ASSUME NEW c \in ChainNames, NEW p \in DOMAIN RegisteredChains,
         NEW result \in FetchResults[<<c, p>>]
  PROVE  Sound(result, c, p)
<1>1. FetchResults[<<c, p>>] = UNION {{[held |-> o.held, response |-> response] :
                             response \in ProviderBalances(c, p, o)} : o \in Outcomes}
  BY DEF FetchResults
<1>2. PICK o \in Outcomes : result \in {[held |-> o.held, response |-> response] :
                                         response \in ProviderBalances(c, p, o)}
  BY <1>1
<1>3. PICK response \in ProviderBalances(c, p, o) :
           result = [held |-> o.held, response |-> response]
  BY <1>2
<1>4. CASE p = "alchemy"
  <2>1. response \in AlchemyBalances(c, o)
    BY <1>3, <1>4 DEF ProviderBalances
  <2> QED BY <1>3, <1>4, <2>1, AlchemySound
<1>5. CASE p = "quicknode"
  <2>1. response \in QuickNodeBalances(o)
    BY <1>3, <1>5 DEF ProviderBalances
  <2> QED BY <1>3, <1>5, <2>1, QuickNodeSound
<1> QED BY <1>4, <1>5 DEF RegisteredChains

\* Strategy and adapter fit: when all calls answer, there is a response.
LEMMA AlchemyAnswers ==
  ASSUME NEW c \in ChainNames, NEW o \in Outcomes, AllAnswer(o)
  PROVE  AlchemyBalances(c, o) # {}
<1>1. CASE c \in AlchemyEvmChains
  <2> DEFINE raw == Raw("EvmAlchemy", EvmTokens(o), TRUE)
  <2>1. EvmAlchemyStrategy(o) = {raw} /\ raw.format = "EvmAlchemy"
    BY DEF EvmAlchemyStrategy, Raw, AllAnswer, FirstPage
  <2> HIDE DEF raw
  <2>2. ForProvider(c, Nowhere) = "EvmAlchemy"
    BY <1>1, AdapterChoices
  <2>3. AlchemyBalances(c, o) = ToBalancesResponse("EvmAlchemy", raw)
    BY <1>1, <2>1, <2>2 DEF AlchemyBalances, AlchemyStrategy
  <2>4. EvmBalanceAdapter(raw) \in ToBalancesResponse("EvmAlchemy", raw)
    BY <2>1 DEF ToBalancesResponse
  <2> QED BY <2>3, <2>4
<1>2. CASE c \notin AlchemyEvmChains
  <2> DEFINE raw == Raw("SolanaAlchemy", SolanaTokens(o), TRUE)
  <2>1. SolanaAlchemyStrategy(o) = {raw} /\ raw.format = "SolanaAlchemy"
    BY DEF SolanaAlchemyStrategy, Raw, RpcCall, PortfolioApiCall, AllAnswer
  <2> HIDE DEF raw
  <2>2. ForProvider(c, Nowhere) = "SolanaAlchemy"
    BY <1>2, AdapterChoices
  <2>3. AlchemyBalances(c, o) = ToBalancesResponse("SolanaAlchemy", raw)
    BY <1>2, <2>1, <2>2 DEF AlchemyBalances, AlchemyStrategy
  <2>4. SolanaBalanceAdapter(raw) \in ToBalancesResponse("SolanaAlchemy", raw)
    BY <2>1 DEF ToBalancesResponse
  <2> QED BY <2>3, <2>4
<1> QED BY <1>1, <1>2

LEMMA QuickNodeAnswers ==
  ASSUME NEW o \in Outcomes, AllAnswer(o)
  PROVE  QuickNodeBalances(o) # {}
<1> DEFINE raw == Raw("EvmQuickNode", IF o.tokens = "list" THEN EvmTokens(o) ELSE {},
                      o.tokens # "error" /\ o.nfts = "list")
<1>1. EvmQuickNodeStrategy(o) = {raw}
  BY DEF EvmQuickNodeStrategy, AllAnswer
<1>2. raw.format = "EvmQuickNode"
  BY DEF Raw
<1> HIDE DEF raw
<1>3. ForProvider("ethereum", "quicknode") = "EvmQuickNode"
  BY AdapterChoices
<1>4. QuickNodeBalances(o) = ToBalancesResponse("EvmQuickNode", raw)
  BY <1>1, <1>3 DEF QuickNodeBalances
<1>5. EvmQuickNodeAdapter(raw) \in ToBalancesResponse("EvmQuickNode", raw)
  BY <1>2 DEF ToBalancesResponse
<1> QED BY <1>4, <1>5

-----------------------------------------------------------------------------
(* The inductive invariant.                                                *)

\* Every service object there is stands for a chain id, the originals always.
ServicesOK ==
    /\ currentChainId \in [Services -> ChainIds]
    /\ \A s \in ChainServices : currentChainId[s] # NotCreated

RequestStates == {Idle} \cup Fetches \cup Listings \cup Answers

\* While the balances are fetched, and until a priceable service has read its chain
\* for the prices, the source is the chain's own network, and the copy that serves a
\* portfolio stands for that copy's chain.
Served(q, chainIds) ==
    /\ chainIds[q.service] # NotCreated
    /\ IsEvmService(q.service) <=> q.source \in AlchemyEvmChains
    /\ IsEvmService(q.service) => GetChainId(q.source) = q.asked
    /\ q.endpoint = "portfolio" =>
           /\ q.service \in ProviderSpecificServices
           /\ q.asked = GetChainId(q.service[1])
           /\ chainIds[q.service] = q.asked

Waiting(q) == q.at \in {"fetching", "quoting"}

WithBalances(q) ==
    q.at \in {"quoting", "pricing", "answered"} /\ q.endpoint \in {"portfolio", "router"}

\* What the invariants say of one answer.
Priced(q) == q.priced = IF q.asked = GetChainId("ethereum") THEN q.asked ELSE NoPrice

Whole(q) ==
    /\ q.provider = "alchemy" =>
          /\ Listed(q.response) = IF IsEvmService(q.service) THEN Page(q.held)
                                  ELSE DOMAIN q.held
          /\ q.response.nfts
    /\ q.provider = "quicknode" => Listed(q.response) \in {{}, Page(q.held)}

Right(q) ==
    /\ IsEvmService(q.service) => GetChainId(q.source) = q.asked
    /\ q.endpoint = "portfolio" /\ IsEvmService(q.service) =>
           q.named = q.asked /\ (q.at # "quoting" => Priced(q))
    /\ q.at = "quoting" => q.priced = NoPrice
    /\ Whole(q)
    /\ q.at \in {"quoting", "pricing"} => IsPriceable(q.service)

RequestOK(q, chainIds) ==
    /\ Waiting(q) => Served(q, chainIds)
    /\ WithBalances(q) => Right(q)

RequestsOK ==
    request \in [Requests -> {q \in RequestStates : RequestOK(q, currentChainId)}]

Inv == ServicesOK /\ RequestsOK

-----------------------------------------------------------------------------
(* The service objects.                                                    *)

LEMMA ServiceNames ==
  /\ \A s \in ChainServices : s \in Services /\ s \notin ProviderSpecificServices
                              /\ s[1] \in MainnetNames
  /\ \A s \in ProviderSpecificServices : s \in Services /\ s[1] \in DOMAIN ChainServiceTypes
  /\ DOMAIN ChainServiceTypes \subseteq ChainNames
  /\ \A c \in DOMAIN ChainServiceTypes :
         /\ GetChainService(c) \in ChainServices
         /\ IsEvmService(GetChainService(c)) <=> c \in AlchemyEvmChains
         /\ c \in AlchemyEvmChains <=> ChainServiceTypes[c] # "solana"
<1>1. ASSUME NEW s \in ChainServices
      PROVE  s \in Services /\ s \notin ProviderSpecificServices /\ s[1] \in MainnetNames
  BY DEF ChainServices, Services, ProviderSpecificServices
<1>2. ASSUME NEW s \in ProviderSpecificServices
      PROVE  s \in Services /\ s[1] \in DOMAIN ChainServiceTypes
  BY DEF Services, ProviderSpecificServices
<1>3. DOMAIN ChainServiceTypes \subseteq ChainNames
  BY DEF ChainServiceTypes, ChainNames, MainnetNames
<1>4. ASSUME NEW c \in DOMAIN ChainServiceTypes
      PROVE  /\ GetChainService(c) \in ChainServices
             /\ IsEvmService(GetChainService(c)) <=> c \in AlchemyEvmChains
             /\ c \in AlchemyEvmChains <=> ChainServiceTypes[c] # "solana"
  <2>1. /\ ChainServiceTypes[c] \in MainnetNames
        /\ ChainServiceTypes[ChainServiceTypes[c]] = ChainServiceTypes[c]
        /\ c \in AlchemyEvmChains <=> ChainServiceTypes[c] # "solana"
    BY DEF ChainServiceTypes, MainnetNames, AlchemyEvmChains
  <2>2. GetChainService(c) = <<ChainServiceTypes[c]>>
    BY DEF GetChainService
  <2> QED BY <2>1, <2>2 DEF ChainServices, IsEvmService
<1> QED BY <1>1, <1>2, <1>3, <1>4

LEMMA CopyOf ==
  ASSUME NEW c \in DOMAIN ChainServiceTypes, NEW p \in Providers
  PROVE  /\ GetChainServiceWithProvider(c, p) \in ProviderSpecificServices
         /\ GetChainServiceWithProvider(c, p)[1] = c
BY DEF GetChainServiceWithProvider, ProviderSpecificServices

\* Setting a service object's chain harms no request when it is an original, a copy
\* that nobody has used yet, or a copy that is set to its own chain.
Harmless(service, id) ==
    \/ service \in ChainServices
    \/ currentChainId[service] = NotCreated
    \/ service \in ProviderSpecificServices /\ id = GetChainId(service[1])

LEMMA SetServices ==
  ASSUME ServicesOK, NEW service \in Services, NEW id \in Nat \ {0}, SetChainId(service, id)
  PROVE  ServicesOK' /\ currentChainId'[service] = id
         /\ \A s \in Services : s # service => currentChainId'[s] = currentChainId[s]
BY DEF ServicesOK, SetChainId, ChainIds, NotCreated

BalancesAnswers ==
    [at : {"quoting", "pricing", "answered"}, endpoint : {"portfolio", "router"},
     service : Services, asked : ChainIds, source : ChainNames,
     provider : DOMAIN RegisteredChains, named : ChainIds, priced : ChainIds,
     held : Holdings, response : Responses]

LEMMA FetchService ==
  ASSUME NEW q \in RequestStates, q.at = "fetching"
  PROVE  q \in Fetches
<1>1. q \notin Listings /\ q \notin Answers /\ q # Idle
  BY DEF Listings, Answers, Idle
<1> QED BY <1>1 DEF RequestStates

LEMMA PricingState ==
  ASSUME NEW q \in RequestStates, q.at \in {"quoting", "pricing"}
  PROVE  q \in BalancesAnswers
<1>1. q \notin Listings /\ q \notin Fetches /\ q # Idle
  BY DEF Listings, Fetches, Idle
<1> QED BY <1>1 DEF RequestStates, Answers, BalancesAnswers

LEMMA SetKeepsRequest ==
  ASSUME ServicesOK, NEW service \in Services, NEW id \in Nat \ {0}, SetChainId(service, id),
         Harmless(service, id), NEW q \in RequestStates, RequestOK(q, currentChainId)
  PROVE  RequestOK(q, currentChainId')
<1>1. ASSUME Waiting(q) PROVE Served(q, currentChainId')
  <2>1. q.service \in Services
    BY <1>1, FetchService, PricingState DEF Waiting, Fetches, BalancesAnswers
  <2>2. Served(q, currentChainId)
    BY <1>1 DEF RequestOK
  <2>3. CASE q.service # service
    <3>1. currentChainId'[q.service] = currentChainId[q.service]
      BY <2>1, <2>3, SetServices
    <3> QED BY <2>2, <3>1 DEF Served
  <2>4. CASE q.service = service
    <3>1. currentChainId'[service] = id /\ id # NotCreated
      BY SetServices DEF NotCreated
    <3>2. ASSUME q.endpoint = "portfolio" PROVE id = q.asked
      <4>1. service \in ProviderSpecificServices /\ q.asked = GetChainId(service[1])
            /\ currentChainId[service] # NotCreated
        BY <2>2, <2>4, <3>2 DEF Served
      <4>2. service \notin ChainServices
        BY <4>1, ServiceNames
      <4> QED BY <4>1, <4>2 DEF Harmless
    <3> QED BY <2>2, <2>4, <3>1, <3>2 DEF Served
  <2> QED BY <2>3, <2>4
<1> QED BY <1>1 DEF RequestOK

\* A step that sets one object's chain and gives one request a new state.
LEMMA SetStep ==
  ASSUME Inv, NEW service \in Services, NEW id \in Nat \ {0}, SetChainId(service, id),
         Harmless(service, id), NEW r \in Requests, NEW q \in RequestStates,
         RequestOK(q, currentChainId'), request' = [request EXCEPT ![r] = q]
  PROVE  Inv'
<1>1. ServicesOK'
  BY SetServices DEF Inv
<1>2. ASSUME NEW s \in Requests, s # r
      PROVE  request'[s] \in RequestStates /\ RequestOK(request'[s], currentChainId')
  <2>1. request'[s] = request[s] /\ request[s] \in RequestStates
        /\ RequestOK(request[s], currentChainId)
    BY <1>2 DEF Inv, RequestsOK
  <2> QED BY <2>1, SetKeepsRequest DEF Inv
<1>3. request'[r] = q /\ DOMAIN request' = Requests
      /\ request' = [s \in Requests |-> request'[s]]
  BY DEF Inv, RequestsOK
<1> QED BY <1>1, <1>2, <1>3 DEF Inv, RequestsOK

\* A step that sets one object's chain and nothing else.
LEMMA SetOnlyStep ==
  ASSUME Inv, NEW service \in Services, NEW id \in Nat \ {0}, SetChainId(service, id),
         Harmless(service, id), UNCHANGED request
  PROVE  Inv'
<1>1. ServicesOK'
  BY SetServices DEF Inv
<1>2. ASSUME NEW s \in Requests
      PROVE  request[s] \in RequestStates /\ RequestOK(request[s], currentChainId')
  <2>1. request[s] \in RequestStates /\ RequestOK(request[s], currentChainId)
    BY DEF Inv, RequestsOK
  <2> QED BY <2>1, SetKeepsRequest DEF Inv
<1> QED BY <1>1, <1>2 DEF Inv, RequestsOK

\* A step that only gives one request a new state.
LEMMA RequestStep ==
  ASSUME Inv, UNCHANGED currentChainId, NEW r \in Requests, NEW q \in RequestStates,
         RequestOK(q, currentChainId), request' = [request EXCEPT ![r] = q]
  PROVE  Inv'
BY DEF Inv, RequestsOK, ServicesOK

LEMMA IdleOK ==
  ASSUME NEW chainIds
  PROVE  Idle \in RequestStates /\ RequestOK(Idle, chainIds)
BY DEF Idle, RequestStates, RequestOK, Waiting, WithBalances

LEMMA ListingOK ==
  ASSUME NEW chainIds, NEW service \in ChainServices, NEW id \in Nat
  PROVE  Listing(service, id) \in RequestStates /\ RequestOK(Listing(service, id), chainIds)
BY DEF Listing, Listings, ChainIds, RequestStates, RequestOK, Waiting, WithBalances

-----------------------------------------------------------------------------
(* The steps that begin a fetch.                                           *)

LEMMA NetworkServed ==
  ASSUME NEW service, NEW id, NEW p, Network(service, id, p) # Nowhere,
         IsEvmService(service) =>
             \A c \in ChainNames : GetChainId(c) = id => c \in AlchemyEvmChains
  PROVE  /\ p \in DOMAIN RegisteredChains
         /\ Network(service, id, p) \in ChainNames
         /\ IsEvmService(service) <=> Network(service, id, p) \in AlchemyEvmChains
         /\ IsEvmService(service) => GetChainId(Network(service, id, p)) = id
<1>1. CASE IsEvmService(service)
  BY <1>1, EvmNetworkIsAsked DEF Network
<1>2. CASE ~IsEvmService(service)
  <2>1. p \in DOMAIN RegisteredChains /\ Network(service, id, p) = "solana"
    BY <1>2, SolanaNetworkType DEF Network
  <2> QED BY <1>2, <2>1 DEF ChainNames, MainnetNames, AlchemyEvmChains
<1> QED BY <1>1, <1>2

LEMMA FetchStep ==
  ASSUME Inv, NEW r \in Requests, NEW endpoint \in {"portfolio", "router"},
         NEW service \in Services, NEW id \in Nat \ {0}, NEW p, NEW valid,
         IsEvmService(service) =>
             \A c \in ChainNames : GetChainId(c) = id => c \in AlchemyEvmChains,
         endpoint = "portfolio" =>
             service \in ProviderSpecificServices /\ id = GetChainId(service[1]),
         endpoint = "router" => service \in ChainServices,
         GetBalances(r, endpoint, service, id, p, valid)
  PROVE  Inv'
<1> DEFINE n == Network(service, id, p)
           q == Fetching(endpoint, service, id, n, p)
<1>1. SetChainId(service, id) /\ Harmless(service, id)
  BY DEF GetBalances, Harmless
<1>2. CASE valid /\ n # Nowhere
  <2>1. /\ p \in DOMAIN RegisteredChains
        /\ n \in ChainNames
        /\ IsEvmService(service) <=> n \in AlchemyEvmChains
        /\ IsEvmService(service) => GetChainId(n) = id
    BY <1>2, NetworkServed
  <2>2. request' = [request EXCEPT ![r] = q]
    BY <1>2 DEF GetBalances
  <2> HIDE DEF n
  <2>3. /\ q \in Fetches
        /\ q.at = "fetching" /\ q.service = service /\ q.asked = id /\ q.source = n
        /\ q.endpoint = endpoint
    BY <2>1 DEF Fetching, Fetches, ChainIds
  <2> HIDE DEF q
  <2>4. currentChainId'[service] = id /\ id # NotCreated
    BY <1>1, SetServices DEF Inv, NotCreated
  <2>5. Served(q, currentChainId')
    BY <2>1, <2>3, <2>4 DEF Served
  <2>6. q \in RequestStates /\ RequestOK(q, currentChainId')
    BY <2>3, <2>5 DEF RequestStates, RequestOK, Waiting, WithBalances
  <2> QED BY <1>1, <2>2, <2>6, SetStep
<1>3. CASE ~(valid /\ n # Nowhere)
  <2>1. request' = [request EXCEPT ![r] = Idle]
    BY <1>3 DEF GetBalances
  <2> QED BY <1>1, <2>1, IdleOK, SetStep
<1> QED BY <1>2, <1>3

LEMMA PortfolioStep ==
  ASSUME Inv, NEW r \in Requests, NEW input, NEW p \in Providers, NEW valid \in BOOLEAN,
         GetPortfolio(r, input, p, valid)
  PROVE  Inv'
<1> DEFINE chain == NormalizePortfolioInput(input)
           service == GetChainServiceWithProvider(chain, p)
<1>1. chain \in DOMAIN ChainServiceTypes
  BY DEF GetPortfolio, IsChainAvailable
<1>2. CASE valid
  <2>1. GetBalances(r, "portfolio", service, GetChainId(chain), p, valid)
    BY <1>2 DEF GetPortfolio
  <2> HIDE DEF chain
  <2>2. chain \in ChainNames /\ GetChainId(chain) \in Nat \ {0}
    BY <1>1, ServiceNames, ChainIdType
  <2>3. service \in ProviderSpecificServices /\ service[1] = chain
    BY <1>1, CopyOf
  <2> HIDE DEF service
  <2>4. service \in Services
    BY <2>3, ServiceNames
  <2>5. IsEvmService(service) =>
          \A c \in ChainNames : GetChainId(c) = GetChainId(chain) => c \in AlchemyEvmChains
    BY <1>1, <2>2, <2>3, ChainIdsDiffer, ServiceNames DEF IsEvmService
  <2> QED BY <2>1, <2>2, <2>3, <2>4, <2>5, FetchStep
<1>3. CASE ~valid /\ currentChainId[service] = NotCreated
  <2> DEFINE id == currentChainId[GetChainService(chain)]
  <2>1. SetChainId(service, id) /\ UNCHANGED request
    BY <1>3 DEF GetPortfolio
  <2> HIDE DEF chain
  <2>2. service \in Services
    BY <1>1, CopyOf, ServiceNames
  <2>3. id \in Nat \ {0}
    BY <1>1, ServiceNames DEF Inv, ServicesOK, ChainIds, NotCreated
  <2> HIDE DEF service, id
  <2>4. Harmless(service, id)
    BY <1>3 DEF Harmless
  <2> QED BY <2>1, <2>2, <2>3, <2>4, SetOnlyStep
<1>4. CASE ~valid /\ currentChainId[service] # NotCreated
  <2>1. UNCHANGED vars
    BY <1>4 DEF GetPortfolio, vars
  <2> QED BY <2>1 DEF vars, Inv, ServicesOK, RequestsOK
<1> QED BY <1>2, <1>3, <1>4

LEMMA DispatchedService ==
  ASSUME NEW id \in ClientIds, Routable(id)
  PROVE  /\ id \in Nat \ {0}
         /\ Dispatched(id) \in ChainServices /\ Dispatched(id) \in Services
         /\ IsEvmService(Dispatched(id)) =>
               \A c \in ChainNames : GetChainId(c) = id => c \in AlchemyEvmChains
<1>1. id \in Nat \ {0}
  BY ServiceAssumption
<1> DEFINE chain == GetChainTypeFromChainId(id)
<1>2. /\ KnownChainId(id) /\ chain \in DOMAIN ChainServiceTypes
      /\ Dispatched(id) = GetChainService(chain)
  BY DEF Routable, IsChainAvailable, Dispatched
<1>3. chain \in ChainNames /\ GetChainId(chain) = id
  BY <1>2, KnownIds
<1> HIDE DEF chain
<1> QED BY <1>1, <1>2, <1>3, ServiceNames, ChainIdsDiffer

LEMMA DispatchGetBalancesStep ==
  ASSUME Inv, NEW r \in Requests, NEW id \in ClientIds, NEW valid \in BOOLEAN,
         DispatchGetBalances(r, id, valid)
  PROVE  Inv'
<1> DEFINE service == Dispatched(id)
           p == DefaultProviderOf(service)
<1>1. GetBalances(r, "router", service, id, p, valid) /\ Routable(id)
  BY DEF DispatchGetBalances
<1>2. /\ id \in Nat \ {0} /\ service \in ChainServices /\ service \in Services
      /\ IsEvmService(service) =>
            \A c \in ChainNames : GetChainId(c) = id => c \in AlchemyEvmChains
  BY <1>1, DispatchedService
<1> HIDE DEF service, p
<1> QED BY <1>1, <1>2, FetchStep

-----------------------------------------------------------------------------
(* The other steps of the router and the controller.                       *)

LEMMA ValidateStep ==
  ASSUME Inv, NEW id \in ClientIds, DispatchValidateAddress(id)
  PROVE  Inv'
<1>1. Routable(id) /\ SetChainId(Dispatched(id), id) /\ UNCHANGED request
  BY DEF DispatchValidateAddress
<1>2. id \in Nat \ {0} /\ Dispatched(id) \in Services /\ Harmless(Dispatched(id), id)
  BY <1>1, DispatchedService DEF Harmless
<1> QED BY <1>1, <1>2, SetOnlyStep

LEMMA ListStep ==
  ASSUME Inv, NEW r \in Requests, NEW id \in ClientIds, NEW valid \in BOOLEAN,
         DispatchGetTransactions(r, id, valid)
  PROVE  Inv'
<1> DEFINE service == Dispatched(id)
           q == IF valid \/ ~IsEvmService(service) THEN Listing(service, id) ELSE Idle
<1>1. /\ Routable(id)
      /\ IF IsEvmService(service) THEN SetChainId(service, id) ELSE UNCHANGED currentChainId
      /\ request' = [request EXCEPT ![r] = q]
  BY DEF DispatchGetTransactions
<1>2. id \in Nat \ {0} /\ service \in ChainServices /\ service \in Services
      /\ Harmless(service, id)
  BY <1>1, DispatchedService DEF Harmless
<1> HIDE DEF service
<1>3. /\ q \in RequestStates
      /\ RequestOK(q, currentChainId) /\ RequestOK(q, currentChainId')
  BY <1>2, IdleOK, ListingOK
<1> HIDE DEF q
<1>4. CASE IsEvmService(service)
  BY <1>1, <1>2, <1>3, <1>4, SetStep
<1>5. CASE ~IsEvmService(service)
  BY <1>1, <1>3, <1>5, RequestStep
<1> QED BY <1>4, <1>5

LEMMA ListByNameStep ==
  ASSUME Inv, NEW r \in Requests, NEW input, NEW valid \in BOOLEAN,
         GetAddressTransactions(r, input, valid)
  PROVE  Inv'
<1> DEFINE chain == NormalizeChainInput(input)
           service == GetChainService(chain)
<1>1. PICK id \in RequestedIds(input, service) :
        /\ SetChainId(service, id)
        /\ request' = [request EXCEPT ![r] =
               IF valid \/ ~IsEvmService(service) THEN Listing(service, id) ELSE Idle]
  BY DEF GetAddressTransactions
<1> DEFINE q == IF valid \/ ~IsEvmService(service) THEN Listing(service, id) ELSE Idle
<1>2. request' = [request EXCEPT ![r] = q]
  BY <1>1
<1>3. chain \in DOMAIN ChainServiceTypes
  BY DEF GetAddressTransactions, IsChainAvailable
<1> HIDE DEF chain
<1>4. service \in ChainServices /\ service \in Services
  BY <1>3, ServiceNames
<1>5. id \in Nat \ {0}
  <2>1. ASSUME input \in DOMAIN TestnetOf PROVE TestnetOf[input] \in ChainNames
    BY <2>1 DEF TestnetOf, ChainNames
  <2>2. currentChainId[service] \in Nat \ {0}
    BY <1>4 DEF Inv, ServicesOK, ChainIds, NotCreated
  <2> QED BY <2>1, <2>2, ChainIdType, ServiceAssumption DEF RequestedIds
<1>6. Harmless(service, id)
  BY <1>4 DEF Harmless
<1> HIDE DEF service
<1>7. q \in RequestStates /\ RequestOK(q, currentChainId')
  BY <1>4, <1>5, IdleOK, ListingOK
<1> HIDE DEF q
<1> QED BY <1>1, <1>2, <1>4, <1>5, <1>6, <1>7, SetStep

-----------------------------------------------------------------------------
(* The steps after the await.                                              *)

\* Where a portfolio's copy stands: at its chain, which has prices if it is Ethereum.
LEMMA PortfolioServed ==
  ASSUME NEW chainIds, NEW q, Served(q, chainIds), q.endpoint = "portfolio"
  PROVE  /\ chainIds[q.service] = q.asked
         /\ q.asked = GetChainId("ethereum") => IsPriceable(q.service)
         /\ IsPriceable(q.service) =>
               (IsTestnet(q.service, q.asked) <=> q.asked # GetChainId("ethereum"))
<1> DEFINE chain == q.service[1]
<1>1. /\ q.service \in ProviderSpecificServices /\ q.asked = GetChainId(chain)
      /\ chainIds[q.service] = q.asked
  BY DEF Served
<1>2. chain \in DOMAIN ChainServiceTypes /\ chain \in ChainNames
  BY <1>1, ServiceNames
<1>3. GetChainTypeFromChainId(q.asked) = chain /\ KnownChainId(q.asked)
  BY <1>1, <1>2, Lookup
<1>4. "ethereum" \in ChainNames
  BY DEF ChainNames, MainnetNames
<1>5. q.asked = GetChainId("ethereum") <=> chain = "ethereum"
  BY <1>1, <1>2, <1>4, ChainIdsDiffer
<1>6. ASSUME IsPriceable(q.service)
      PROVE  IsEvmService(q.service) /\ (chain \in MainnetNames <=> chain = "ethereum")
  BY <1>2, <1>6 DEF IsPriceable, IsEvmService, ChainServiceTypes, MainnetNames
<1>7. chain = "ethereum" => IsPriceable(q.service)
  BY DEF IsPriceable, ChainServiceTypes
<1> HIDE DEF chain
<1> QED BY <1>1, <1>3, <1>5, <1>6, <1>7 DEF IsTestnet

LEMMA AnswerStep ==
  ASSUME Inv, NEW r \in Requests, Await(r) = "fetching", ProviderAnswers(r)
  PROVE  Inv'
<1> DEFINE q == request[r]
           id == IF IsEvmService(q.service) THEN currentChainId[q.service] ELSE q.asked
<1>1. PICK result \in FetchResults[<<q.source, q.provider>>] :
        request' = [request EXCEPT ![r] = BalancesAnswer(q, id, result)]
  BY DEF ProviderAnswers
<1>2. q \in Fetches /\ Served(q, currentChainId)
  <2>1. q \in RequestStates /\ RequestOK(q, currentChainId) /\ q.at = "fetching"
    BY DEF Inv, RequestsOK, Await
  <2> QED BY <2>1, FetchService DEF RequestOK, Waiting
<1>3. /\ q.service \in Services /\ q.asked \in Nat /\ q.source \in ChainNames
      /\ q.provider \in DOMAIN RegisteredChains /\ q.endpoint \in {"portfolio", "router"}
  BY <1>2 DEF Fetches, ChainIds
<1>4. Sound(result, q.source, q.provider)
  BY <1>1, <1>3, ResultsSound
<1>5. UNCHANGED currentChainId
  BY DEF ProviderAnswers
<1>6. q.endpoint = "portfolio" =>
        id = q.asked /\ (q.asked = GetChainId("ethereum") => IsPriceable(q.service))
  BY <1>2, PortfolioServed
<1> HIDE DEF q
<1>7. id \in Nat
  BY <1>3 DEF Inv, ServicesOK, ChainIds
<1> HIDE DEF id
<1> DEFINE a == BalancesAnswer(q, id, result)
<1>8. /\ a.at = IF IsPriceable(q.service) THEN "quoting" ELSE "answered"
      /\ a.endpoint = q.endpoint /\ a.service = q.service /\ a.asked = q.asked
      /\ a.source = q.source /\ a.provider = q.provider /\ a.named = id
      /\ a.priced = NoPrice /\ a.held = result.held /\ a.response = result.response
  BY DEF BalancesAnswer
<1>9. a \in BalancesAnswers
  BY <1>3, <1>4, <1>7 DEF BalancesAnswer, BalancesAnswers, Sound, ChainIds, NoPrice
<1> HIDE DEF a
<1>10. Served(a, currentChainId)
  BY <1>2, <1>8 DEF Served
<1>11. Whole(a)
  BY <1>2, <1>4, <1>8 DEF Whole, Sound, Served
<1>12. a.endpoint = "portfolio" => a.named = a.asked /\ (a.at # "quoting" => Priced(a))
  BY <1>6, <1>8 DEF Priced
<1>13. /\ a.at \in {"quoting", "pricing"} => IsPriceable(a.service)
       /\ a.priced = NoPrice
  BY <1>8
<1>14. Right(a)
  BY <1>10, <1>11, <1>12, <1>13 DEF Right, Served
<1>15. a \in RequestStates
  BY <1>9 DEF BalancesAnswers, RequestStates, Answers
<1>16. RequestOK(a, currentChainId)
  BY <1>10, <1>14 DEF RequestOK
<1>17. request' = [request EXCEPT ![r] = a]
  BY <1>1 DEF a
<1> QED BY <1>5, <1>15, <1>16, <1>17, RequestStep

\* A step that gives an answer to its prices, or to having none.
LEMMA PricedStep ==
  ASSUME Inv, NEW r \in Requests, NEW q \in BalancesAnswers, q = request[r],
         NEW at \in {"pricing", "answered"}, NEW priced \in Nat,
         Right(q), at = "pricing" => IsPriceable(q.service),
         q.endpoint = "portfolio" /\ IsEvmService(q.service) =>
             priced = IF q.asked = GetChainId("ethereum") THEN q.asked ELSE NoPrice,
         request' = [request EXCEPT ![r] = [q EXCEPT !.at = at, !.priced = priced]],
         UNCHANGED currentChainId
  PROVE  Inv'
<1> DEFINE a == [q EXCEPT !.at = at, !.priced = priced]
<1>1. /\ a \in BalancesAnswers
      /\ a.at = at /\ a.endpoint = q.endpoint /\ a.service = q.service
      /\ a.asked = q.asked /\ a.source = q.source /\ a.provider = q.provider
      /\ a.named = q.named /\ a.priced = priced /\ a.held = q.held
      /\ a.response = q.response
  BY DEF BalancesAnswers, ChainIds
<1>2. request' = [request EXCEPT ![r] = a]
  OBVIOUS
<1> HIDE DEF a
<1>3. Whole(a)
  BY <1>1 DEF Whole, Right
<1>4. Right(a)
  BY <1>1, <1>3 DEF Right, Priced
<1>5. a \in RequestStates
  BY <1>1 DEF BalancesAnswers, RequestStates, Answers
<1>6. RequestOK(a, currentChainId)
  BY <1>1, <1>4 DEF RequestOK, Waiting
<1> QED BY <1>2, <1>5, <1>6, RequestStep

LEMMA QuoteStep ==
  ASSUME Inv, NEW r \in Requests, Await(r) = "quoting", QuotePrices(r)
  PROVE  Inv'
<1> DEFINE q == request[r]
           id == currentChainId[q.service]
           at == IF IsTestnet(q.service, id) THEN "answered" ELSE "pricing"
           priced == IF IsTestnet(q.service, id) THEN q.priced ELSE id
<1>1. q \in RequestStates /\ RequestOK(q, currentChainId) /\ q.at = "quoting"
  BY DEF Inv, RequestsOK, Await
<1>2. q \in BalancesAnswers
  BY <1>1, PricingState
<1>3. Served(q, currentChainId) /\ Right(q) /\ IsPriceable(q.service)
  BY <1>1, <1>2 DEF RequestOK, Waiting, WithBalances, BalancesAnswers, Right
<1>4. UNCHANGED currentChainId
      /\ request' = [request EXCEPT ![r] =
            IF IsTestnet(q.service, id) THEN [q EXCEPT !.at = "answered"]
            ELSE [q EXCEPT !.at = "pricing", !.priced = id]]
  BY DEF QuotePrices
<1>5. q.priced = NoPrice
  BY <1>1, <1>3 DEF Right
<1>6. q.endpoint = "portfolio" =>
        id = q.asked /\ (IsTestnet(q.service, q.asked) <=> q.asked # GetChainId("ethereum"))
  BY <1>3, PortfolioServed
<1>7. id \in Nat /\ q.priced \in Nat
  BY <1>2 DEF BalancesAnswers, ChainIds, Inv, ServicesOK
<1> HIDE DEF q, id
<1>8. q.endpoint = "portfolio" =>
        priced = IF q.asked = GetChainId("ethereum") THEN q.asked ELSE NoPrice
  BY <1>5, <1>6
<1>9. request' = [request EXCEPT ![r] = [q EXCEPT !.at = at, !.priced = priced]]
  BY <1>2, <1>4 DEF BalancesAnswers
<1>10. at \in {"pricing", "answered"} /\ priced \in Nat
  BY <1>7
<1> HIDE DEF at, priced
<1>11. q = request[r]
  BY DEF q
<1>12. UNCHANGED currentChainId
  BY <1>4
<1>13. Right(q) /\ (at = "pricing" => IsPriceable(q.service))
  BY <1>3
<1>14. q.endpoint = "portfolio" /\ IsEvmService(q.service) =>
          priced = IF q.asked = GetChainId("ethereum") THEN q.asked ELSE NoPrice
  BY <1>8
<1> QED BY <1>2, <1>9, <1>10, <1>11, <1>12, <1>13, <1>14, PricedStep

LEMMA PricesStep ==
  ASSUME Inv, NEW r \in Requests, Await(r) = "pricing", PricesArrive(r)
  PROVE  Inv'
<1> DEFINE q == request[r]
<1>1. q \in RequestStates /\ RequestOK(q, currentChainId) /\ q.at = "pricing"
  BY DEF Inv, RequestsOK, Await
<1>2. q \in BalancesAnswers
  BY <1>1, PricingState
<1>3. Right(q)
  BY <1>1, <1>2 DEF RequestOK, WithBalances, BalancesAnswers
<1>4. request' = [request EXCEPT ![r] = [q EXCEPT !.at = "answered"]]
      /\ UNCHANGED currentChainId
  BY DEF PricesArrive
<1> HIDE DEF q
<1>5. [q EXCEPT !.at = "answered"] = [q EXCEPT !.at = "answered", !.priced = q.priced]
  BY <1>2 DEF BalancesAnswers
<1>6. q.priced \in Nat
  BY <1>2 DEF BalancesAnswers, ChainIds
<1>7. q.endpoint = "portfolio" /\ IsEvmService(q.service) =>
        q.priced = IF q.asked = GetChainId("ethereum") THEN q.asked ELSE NoPrice
  BY <1>1, <1>3 DEF Right, Priced
<1>8. q = request[r]
  BY DEF q
<1> QED BY <1>2, <1>3, <1>4, <1>5, <1>6, <1>7, <1>8, PricedStep

LEMMA TransactionsStep ==
  ASSUME Inv, NEW r \in Requests, Await(r) = "listing", TransactionsArrive(r)
  PROVE  Inv'
<1> DEFINE q == request[r]
           named == currentChainId[q.service]
           a == Answer("transactions", q.asked, named)
<1>1. request' = [request EXCEPT ![r] = a] /\ UNCHANGED currentChainId
  BY DEF TransactionsArrive
<1>2. q \in RequestStates /\ q.at = "listing"
  BY DEF Inv, RequestsOK, Await
<1> HIDE DEF q
<1>3. q \in Listings
  BY <1>2 DEF RequestStates, Fetches, Answers, Idle
<1>4. q.asked \in Nat /\ named \in Nat
  BY <1>3, ServiceNames DEF Listings, ChainIds, Inv, ServicesOK
<1> HIDE DEF named
<1>5. a \in RequestStates /\ RequestOK(a, currentChainId)
  BY <1>4 DEF Answer, RequestStates, Answers, RequestOK, Waiting, WithBalances, ChainIds
<1> HIDE DEF a
<1> QED BY <1>1, <1>5, RequestStep

LEMMA IdleStep ==
  ASSUME Inv, NEW r \in Requests, Fail(r) \/ Finish(r)
  PROVE  Inv'
<1>1. request' = [request EXCEPT ![r] = Idle] /\ UNCHANGED currentChainId
  BY DEF Fail, Finish
<1> QED BY <1>1, IdleOK, RequestStep

-----------------------------------------------------------------------------
(* The theorems.                                                           *)

LEMMA InitInv == Init => Inv
<1> SUFFICES ASSUME Init PROVE Inv
  OBVIOUS
<1>1. ServicesOK
  <2>1. ASSUME NEW s \in ChainServices
        PROVE  s \in Services /\ s[1] \in ChainNames /\ GetChainId(s[1]) \in Nat \ {0}
    BY ServiceNames, ChainIdType DEF ChainNames
  <2> QED BY <2>1 DEF Init, ServicesOK, ChainIds, NotCreated
<1>2. RequestsOK
  BY IdleOK DEF Init, RequestsOK
<1> QED BY <1>1, <1>2 DEF Inv

LEMMA InvStep == Inv /\ [Next]_vars => Inv'
<1> SUFFICES ASSUME Inv, [Next]_vars PROVE Inv'
  OBVIOUS
<1>1. ASSUME NEW id \in ClientIds, DispatchValidateAddress(id) PROVE Inv'
  BY <1>1, ValidateStep
<1>2. ASSUME NEW r \in Requests, NEW valid \in BOOLEAN, NEW input \in PortfolioInputs,
             NEW p \in Providers, GetPortfolio(r, input, p, valid)
      PROVE  Inv'
  BY <1>2, PortfolioStep
<1>3. ASSUME NEW r \in Requests, NEW valid \in BOOLEAN, NEW input \in Inputs,
             GetAddressTransactions(r, input, valid)
      PROVE  Inv'
  BY <1>3, ListByNameStep
<1>4. ASSUME NEW r \in Requests, NEW valid \in BOOLEAN, NEW id \in ClientIds,
             DispatchGetBalances(r, id, valid)
      PROVE  Inv'
  BY <1>4, DispatchGetBalancesStep
<1>5. ASSUME NEW r \in Requests, NEW valid \in BOOLEAN, NEW id \in ClientIds,
             DispatchGetTransactions(r, id, valid)
      PROVE  Inv'
  BY <1>5, ListStep
<1>6. ASSUME NEW r \in Requests, Await(r) = "fetching", ProviderAnswers(r) PROVE Inv'
  BY <1>6, AnswerStep
<1>7. ASSUME NEW r \in Requests, Await(r) = "pricing", PricesArrive(r) PROVE Inv'
  BY <1>7, PricesStep
<1>11. ASSUME NEW r \in Requests, Await(r) = "quoting", QuotePrices(r) PROVE Inv'
  BY <1>11, QuoteStep
<1>8. ASSUME NEW r \in Requests, Await(r) = "listing", TransactionsArrive(r) PROVE Inv'
  BY <1>8, TransactionsStep
<1>9. ASSUME NEW r \in Requests, Fail(r) \/ Finish(r) PROVE Inv'
  BY <1>9, IdleStep
<1>10. CASE UNCHANGED vars
  BY <1>10 DEF vars, Inv, ServicesOK, RequestsOK
<1> QED BY <1>1, <1>2, <1>3, <1>4, <1>5, <1>6, <1>7, <1>8, <1>9, <1>10, <1>11 DEF Next

LEMMA InvHolds == Spec => []Inv
BY InitInv, InvStep, PTL DEF Spec

\* TypeOK: a service object always stands for some chain id, the requests have the
\* states the code gives them, and none waits for an object that does not exist.
THEOREM TypeCorrect == Spec => []TypeOK
<1>1. ASSUME Inv PROVE TypeOK
  <2>1. currentChainId \in [Services -> ChainIds]
    BY <1>1 DEF Inv, ServicesOK
  <2>2. request \in [Requests -> {Idle} \cup Fetches \cup Listings \cup Answers]
    BY <1>1 DEF Inv, RequestsOK, RequestStates
  <2>3. ASSUME NEW r \in Requests, Await(r) \in {"fetching", "quoting", "listing"}
        PROVE  currentChainId[request[r].service] # NotCreated
    <3>1. request[r] \in RequestStates /\ RequestOK(request[r], currentChainId)
      BY <1>1 DEF Inv, RequestsOK
    <3>2. CASE Await(r) \in {"fetching", "quoting"}
      BY <3>1, <3>2 DEF Await, RequestOK, Waiting, Served
    <3>3. CASE Await(r) = "listing"
      <4>1. request[r] \in Listings
        BY <3>1, <3>3 DEF Await, RequestStates, Fetches, Answers, Idle
      <4> QED BY <1>1, <4>1 DEF Listings, Inv, ServicesOK
    <3> QED BY <2>3, <3>2, <3>3
  <2>4. ASSUME NEW r \in Requests, Await(r) \in {"quoting", "pricing"}
        PROVE  IsPriceable(request[r].service)
    <3>1. request[r] \in RequestStates /\ RequestOK(request[r], currentChainId)
      BY <1>1 DEF Inv, RequestsOK
    <3>2. request[r] \in BalancesAnswers
      BY <2>4, <3>1, PricingState DEF Await
    <3> QED BY <2>4, <3>1, <3>2 DEF Await, RequestOK, WithBalances, Right, BalancesAnswers
  <2> QED BY <2>1, <2>2, <2>3, <2>4 DEF TypeOK
<1> QED BY <1>1, InvHolds, PTL

LEMMA RightAnswers ==
  ASSUME Inv, NEW r \in Requests, HasBalances(r)
  PROVE  Right(request[r])
BY DEF Inv, RequestsOK, RequestOK, HasBalances, WithBalances, Await

\* FetchedAsAsked: balances are of the chain that was asked for, whatever other
\* requests do to the service object that is shared (AbstractEvmChainService).
THEOREM FetchedAsAskedHolds == Spec => []FetchedAsAsked
<1>1. ASSUME Inv PROVE FetchedAsAsked
  BY <1>1, RightAnswers DEF FetchedAsAsked, HasEvmBalances, Right
<1> QED BY <1>1, InvHolds, PTL

\* PortfolioExact: the id, the symbol and the prices of a portfolio are the asked
\* chain's, too, because no other request turns the copy that serves it between the
\* call of the provider, its answer and the question for prices; and only a portfolio
\* of Ethereum itself has prices (PriceableEvmChainService).
THEOREM PortfolioExactHolds == Spec => []PortfolioExact
<1>1. ASSUME Inv PROVE PortfolioExact
  BY <1>1, RightAnswers DEF PortfolioExact, HasEvmBalances, Right, Priced, Await
<1> QED BY <1>1, InvHolds, PTL

\* ListsWhole: no answer of Alchemy's is short of a token of the first page (of any
\* token, on Solana) or of the NFTs because a call failed, and none of QuickNode's has
\* a part of the page (getRawBalances of the three strategies).
THEOREM ListsWholeHolds == Spec => []ListsWhole
<1>1. ASSUME Inv PROVE ListsWhole
  BY <1>1, RightAnswers DEF ListsWhole, Right, Whole, Listed, Page
<1> QED BY <1>1, InvHolds, PTL

\* FetchCanAnswer: the strategy and the adapter of a fetch under way were picked alike.
THEOREM FetchCanAnswerHolds == Spec => []FetchCanAnswer
<1>1. ASSUME Inv PROVE FetchCanAnswer
  <2> SUFFICES ASSUME NEW r \in Requests, Await(r) = "fetching",
                      NEW o \in Outcomes, AllAnswer(o)
               PROVE  ProviderBalances(request[r].source, request[r].provider, o) # {}
    BY DEF FetchCanAnswer
  <2>1. request[r] \in Fetches
    BY <1>1, FetchService DEF Inv, RequestsOK, Await
  <2>2. request[r].source \in ChainNames
    BY <2>1 DEF Fetches
  <2> QED BY <2>2, AlchemyAnswers, QuickNodeAnswers DEF ProviderBalances
<1> QED BY <1>1, InvHolds, PTL

-----------------------------------------------------------------------------
(* What the snapshot keeps.                                                *)

\* A portfolio under the names of the snapshot's schema.
LEMMA Transformed ==
  ASSUME NEW T, NEW nfts, NEW sent,
         sent = [nativeBalance |-> "amount", tokens |-> T, nfts |-> nfts]
  PROVE  LET data == TransformPortfolioData(sent)
         IN  /\ DOMAIN data = {"native", "fungibles", "nfts"}
             /\ data["native"] = "amount" /\ data["fungibles"] = T /\ data["nfts"] = nfts
<1> DEFINE once == Renamed(sent, "nativeBalance", "native")
           twice == Renamed(once, "tokens", "fungibles")
<1>1. DOMAIN sent = {"nativeBalance", "tokens", "nfts"}
  OBVIOUS
<1>2. /\ DOMAIN once = {"native", "tokens", "nfts"}
      /\ once["native"] = "amount" /\ once["tokens"] = T /\ once["nfts"] = nfts
  BY <1>1 DEF Renamed
<1>3. TransformPortfolioData(sent) = twice
  BY <1>1 DEF TransformPortfolioData
<1> HIDE DEF once
<1>4. /\ DOMAIN twice = {"native", "fungibles", "nfts"}
      /\ twice["native"] = "amount" /\ twice["fungibles"] = T /\ twice["nfts"] = nfts
  BY <1>2 DEF Renamed
<1> QED BY <1>3, <1>4

\* The second transformation changes nothing, and the schema has all three fields.
LEMMA SavedAndRestored ==
  ASSUME NEW T, NEW nfts, NEW sent,
         sent = [nativeBalance |-> "amount", tokens |-> T, nfts |-> nfts]
  PROVE  LET restored == RestoredPortfolio(SavedSnapshot(sent))
         IN  /\ restored.nativeBalance = "amount" /\ restored.nfts = nfts
             /\ restored.tokens = {RestoredToken(token) : token \in T}
<1> DEFINE data == TransformPortfolioData(sent)
           stored == Stored(data)
<1>1. /\ DOMAIN data = {"native", "fungibles", "nfts"}
      /\ data["native"] = "amount" /\ data["fungibles"] = T /\ data["nfts"] = nfts
  BY Transformed
<1> HIDE DEF data
<1>2. TransformPortfolioData(data) = data
  BY <1>1 DEF TransformPortfolioData
<1>3. DOMAIN SchemaDefaults = {"fungibles", "nfts"}
  BY DEF SchemaDefaults
<1>4. stored["native"] = "amount" /\ stored["fungibles"] = T /\ stored["nfts"] = nfts
  BY <1>1, <1>3 DEF Stored
<1>5. SavedSnapshot(sent) = stored
  BY <1>2 DEF SavedSnapshot, data
<1> HIDE DEF stored
<1> QED BY <1>4, <1>5 DEF RestoredPortfolio

LEMMA RestoredEvmToken ==
  ASSUME NEW t
  PROVE  /\ RestoredToken(EvmToken(t)).balance = t.token
         /\ RestoredToken(EvmToken(t)).symbol = t.named
         /\ RestoredToken(EvmToken(t)).decimals = t.decimals
<1>1. DOMAIN EvmToken(t) = {"mint", "balance", "symbol", "decimals"}
      /\ EvmToken(t)["balance"] = t.token /\ EvmToken(t)["symbol"] = t.named
      /\ EvmToken(t)["decimals"] = t.decimals
  BY DEF EvmToken
<1> QED BY <1>1 DEF RestoredToken, RestoredFields

LEMMA RestoredSolanaToken ==
  ASSUME NEW t
  PROVE  RestoredToken(SolanaToken(t)).balance = t.token
<1>1. DOMAIN SolanaToken(t) = {"mint", "balance", "tokenMetadata"}
      /\ SolanaToken(t)["balance"] = t.token
  BY DEF SolanaToken
<1> QED BY <1>1 DEF RestoredToken, RestoredFields

\* SnapshotKeepsHoldings: the way of a portfolio through Redis event, MongoDB and back
\* keeps the native balance, the NFTs and the tokens' amounts.
THEOREM SnapshotKeepsHoldingsHolds == Spec => []SnapshotKeepsHoldings
<1>1. ASSUME NEW evm \in BOOLEAN, NEW response
      PROVE  LET sent == PortfolioResult(evm, response)
                 restored == RestoredPortfolio(SavedSnapshot(sent))
             IN  /\ restored.nativeBalance = sent.nativeBalance
                 /\ restored.nfts = response.nfts
                 /\ {token.balance : token \in restored.tokens}
                      = {t.token : t \in response.tokens}
                 /\ evm =>
                      {<<token.balance, token.symbol, token.decimals>> :
                          token \in restored.tokens}
                        = {<<t.token, t.named, t.decimals>> : t \in response.tokens}
  <2> DEFINE sent == PortfolioResult(evm, response)
             restored == RestoredPortfolio(SavedSnapshot(sent))
  <2>1. CASE evm
    <3> DEFINE T == {EvmToken(t) : t \in response.tokens}
    <3>1. sent = [nativeBalance |-> "amount", tokens |-> T, nfts |-> response.nfts]
      BY <2>1 DEF PortfolioResult, ServiceBalances, GetTokensFromBalanceData
    <3> HIDE DEF T
    <3>2. /\ restored.nativeBalance = "amount" /\ restored.nfts = response.nfts
          /\ restored.tokens = {RestoredToken(token) : token \in T}
      BY <3>1, SavedAndRestored
    <3>3. sent.nativeBalance = "amount"
      BY <3>1
    <3> HIDE DEF sent, restored
    <3>4. restored.tokens = {RestoredToken(EvmToken(t)) : t \in response.tokens}
      BY <3>2 DEF T
    <3>5. {token.balance : token \in restored.tokens} = {t.token : t \in response.tokens}
      BY <3>4, RestoredEvmToken
    <3>6. {<<token.balance, token.symbol, token.decimals>> : token \in restored.tokens}
            = {<<t.token, t.named, t.decimals>> : t \in response.tokens}
      BY <3>4, RestoredEvmToken
    <3> QED BY <3>2, <3>3, <3>5, <3>6 DEF sent, restored
  <2>2. CASE ~evm
    <3> DEFINE T == {SolanaToken(t) : t \in response.tokens}
    <3>1. sent = [nativeBalance |-> "amount", tokens |-> T, nfts |-> response.nfts]
      BY <2>2 DEF PortfolioResult, ServiceBalances, GetTokensFromBalanceData
    <3> HIDE DEF T
    <3>2. /\ restored.nativeBalance = "amount" /\ restored.nfts = response.nfts
          /\ restored.tokens = {RestoredToken(token) : token \in T}
      BY <3>1, SavedAndRestored
    <3>3. sent.nativeBalance = "amount"
      BY <3>1
    <3> HIDE DEF sent, restored
    <3>4. restored.tokens = {RestoredToken(SolanaToken(t)) : t \in response.tokens}
      BY <3>2 DEF T
    <3>5. {token.balance : token \in restored.tokens} = {t.token : t \in response.tokens}
      BY <3>4, RestoredSolanaToken
    <3> QED BY <2>2, <3>2, <3>3, <3>5 DEF sent, restored
  <2> QED BY <2>1, <2>2
<1>2. SnapshotKeepsHoldings
  BY <1>1 DEF SnapshotKeepsHoldings, IsEvmService
<1> QED BY <1>2, PTL
=============================================================================
