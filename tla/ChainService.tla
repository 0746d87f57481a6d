---------------------------- MODULE ChainService ----------------------------
(***************************************************************************)
(* The chain services and the requests that share them.                    *)
(*                                                                         *)
(* A service class serves a mainnet and its testnets with one instance,    *)
(* and keeps the chain it currently stands for in a field: a request sets  *)
(* the field, waits for a provider, and reads the field again for the      *)
(* answer. ChainRouter and ChainsController use that instance.             *)
(* BalanceService uses the copies ChainServiceFactory makes of it, one per *)
(* chain and provider.                                                     *)
(***************************************************************************)
EXTENDS PortfolioFormat

CONSTANTS
    Requests,         \* requests under way
    PortfolioInputs,  \* names and symbols a client may write for a portfolio's chain
    Inputs,           \* and for the chain of ChainsController
    Providers,        \* provider names a client may write, or the configured one
    ClientIds,        \* chain ids a client may write, known or not
    DefaultProvider   \* blockchain.defaultProvider

ASSUME ServiceAssumption == ClientIds \subseteq Nat \ {0}

VARIABLES
    currentChainId,   \* of every service object; NotCreated for a copy not made yet
    request           \* what each request waits for, or was answered

vars == <<currentChainId, request>>

-----------------------------------------------------------------------------
(* Which object serves a chain.                                            *)

\* The @Chain decorators: nobody serves ethereum_goerli.
ChainServiceTypes ==
    [ethereum |-> "ethereum", ethereum_sepolia |-> "ethereum",
     polygon |-> "polygon", polygon_mumbai |-> "polygon",
     bsc |-> "bsc", bsc_testnet |-> "bsc",
     solana |-> "solana", solana_devnet |-> "solana"]

IsChainAvailable(chain) == chain \in DOMAIN ChainServiceTypes

GetChainService(chain) == <<ChainServiceTypes[chain]>>

\* A slip: the copies are kept per class, as the originals are.
OneCopyPerClass(chain, provider) == <<ChainServiceTypes[chain], provider>>

GetChainServiceWithProvider(chain, provider) == <<chain, provider>>

ChainServices == {<<chain>> : chain \in MainnetNames}
ProviderSpecificServices == (DOMAIN ChainServiceTypes) \X Providers
Services == ChainServices \cup ProviderSpecificServices

\* Copies are of their original's class. Of the EVM classes only Ethereum's is a
\* PriceableEvmChainService.
IsEvmService(service) == ChainServiceTypes[service[1]] # "solana"
IsPriceable(service) == ChainServiceTypes[service[1]] = "ethereum"

\* Symbols and names of mainnets are read first; the rest stays as it is.
NormalizeChainInput(input) ==
    IF input \in DOMAIN CoinSymbolToChainMap THEN CoinSymbolToChainMap[input]
    ELSE input

\* BalanceService reads the names of all chains first.
NormalizePortfolioInput(input) ==
    IF input \in ChainNames THEN input ELSE NormalizeChainInput(input)

NotCreated == 0
NoPrice == 0

Idle == [at |-> "idle"]

\* An answer names the chain it is about, by id, and the chain its prices are of.
Answer(endpoint, asked, named) ==
    [at |-> "answered", endpoint |-> endpoint, asked |-> asked, named |-> named]

BalancesAnswer(q, named, result) ==
    [at |-> IF IsPriceable(q.service) THEN "quoting" ELSE "answered",
     endpoint |-> q.endpoint, service |-> q.service, asked |-> q.asked,
     source |-> q.source, provider |-> q.provider, named |-> named, priced |-> NoPrice,
     held |-> result.held, response |-> result.response]

Init ==
    /\ currentChainId = [s \in Services |->
           IF s \in ChainServices THEN GetChainId(s[1]) ELSE NotCreated]
    /\ request = [r \in Requests |-> Idle]

\* A slip: a service object keeps the chain it was made for.
KeepChainId(service, id) == UNCHANGED currentChainId

SetChainId(service, id) == currentChainId' = [currentChainId EXCEPT ![service] = id]

-----------------------------------------------------------------------------
(* service.getBalances(address, id, provider), up to its first await. A    *)
(* Solana service remembers the cluster it started with; an EVM one reads  *)
(* its field again later.                                                  *)

IsTestnet(service, id) ==
    IF IsEvmService(service)
    THEN KnownChainId(id) /\ GetChainTypeFromChainId(id) \notin MainnetNames
    ELSE id # GetChainId("solana")

\* A slip: the provider is asked for the chain the class is named after.
NetworkOfClass(service, id, provider) ==
    GetProviderNetwork(service[1], provider, "MAINNET")

Network(service, id, provider) ==
    IF IsEvmService(service) THEN GetEvmNetwork(id, provider)
    ELSE GetSolanaNetwork(IF IsTestnet(service, id) THEN "TESTNET" ELSE "MAINNET",
                          provider)

Fetching(endpoint, service, id, network, provider) ==
    [at |-> "fetching", endpoint |-> endpoint, service |-> service, asked |-> id,
     source |-> network, provider |-> provider]

\* An address that does not validate, no provider and no strategy are errors.
GetBalances(r, endpoint, service, id, provider, valid) ==
    LET network == Network(service, id, provider) IN
    /\ SetChainId(service, id)
    /\ request' = [request EXCEPT ![r] =
           IF valid /\ network # Nowhere
           THEN Fetching(endpoint, service, id, network, provider)
           ELSE Idle]

\* BalanceService.getPortfolio, not answered from a cache: the interceptor has
\* set a provider, so the copy for it serves the request. The copy starts with
\* the chain its original stands for.
GetPortfolio(r, input, provider, valid) ==
    LET chain == NormalizePortfolioInput(input)
        service == GetChainServiceWithProvider(chain, provider)
    IN  /\ request[r] = Idle
        /\ IsChainAvailable(chain)
        /\ IF valid
           THEN GetBalances(r, "portfolio", service, GetChainId(chain), provider, valid)
           ELSE /\ IF currentChainId[service] = NotCreated
                   THEN SetChainId(service, currentChainId[GetChainService(chain)])
                   ELSE UNCHANGED currentChainId
                /\ UNCHANGED request

-----------------------------------------------------------------------------
(* ChainRouter.dispatch, for the three endpoints of ChainIdController.     *)

\* The object a chain id leads to; only an EVM service is told the id.
Dispatched(id) == GetChainService(GetChainTypeFromChainId(id))

\* Without a provider in the call the service takes its default; nothing sets
\* blockchain.polygonProvider and blockchain.bscProvider.
DefaultProviderOf(service) ==
    IF service[1] \in {"ethereum", "solana"} THEN DefaultProvider ELSE "alchemy"

Routable(id) == KnownChainId(id) /\ IsChainAvailable(GetChainTypeFromChainId(id))

DispatchGetBalances(r, id, valid) ==
    /\ request[r] = Idle
    /\ Routable(id)
    /\ GetBalances(r, "router", Dispatched(id), id,
                   DefaultProviderOf(Dispatched(id)), valid)

\* validateAddress reads the name and answers in the same step.
DispatchValidateAddress(id) ==
    /\ Routable(id)
    /\ IsEvmService(Dispatched(id))
    /\ SetChainId(Dispatched(id), id)
    /\ UNCHANGED request

Listing(service, id) == [at |-> "listing", service |-> service, asked |-> id]

\* An EVM service checks the address first; either way it has the id.
DispatchGetTransactions(r, id, valid) ==
    LET service == Dispatched(id) IN
    /\ request[r] = Idle
    /\ Routable(id)
    /\ IF IsEvmService(service) THEN SetChainId(service, id) ELSE UNCHANGED currentChainId
    /\ request' = [request EXCEPT ![r] =
           IF valid \/ ~IsEvmService(service) THEN Listing(service, id) ELSE Idle]

-----------------------------------------------------------------------------
(* ChainsController: a chain by name or symbol, and optionally an id or    *)
(* ?network=testnet. The id is not compared with the chain.                *)

\* The first chain of CHAIN_INFO_MAP whose mainnetRef is the input itself.
TestnetOf ==
    [ethereum |-> "ethereum_goerli", solana |-> "solana_devnet",
     bsc |-> "bsc_testnet", polygon |-> "polygon_mumbai"]

\* The ids a request may carry; none leaves the service at the chain it was at.
RequestedIds(input, service) ==
    ClientIds \cup {currentChainId[service]}
    \cup (IF input \in DOMAIN TestnetOf THEN {GetChainId(TestnetOf[input])} ELSE {})

\* Its validateAddress has the same effect, and answers at once.
GetAddressTransactions(r, input, valid) ==
    LET chain == NormalizeChainInput(input)
        service == GetChainService(chain)
    IN  /\ request[r] = Idle
        /\ IsChainAvailable(chain)
        /\ \E id \in RequestedIds(input, service) :
               /\ SetChainId(service, id)
               /\ request' = [request EXCEPT ![r] =
                      IF valid \/ ~IsEvmService(service) THEN Listing(service, id)
                      ELSE Idle]

-----------------------------------------------------------------------------
(* After the await.                                                        *)

Await(r) == request[r].at

\* The provider's response is put into the answer, and the chain's id and symbol
\* are read for it. `held` is history: what the address holds.
ProviderAnswers(r) ==
    LET q == request[r]
        id == IF IsEvmService(q.service) THEN currentChainId[q.service] ELSE q.asked
    IN  /\ \E result \in FetchResults[<<q.source, q.provider>>] :
               request' = [request EXCEPT ![r] = BalancesAnswer(q, id, result)]
        /\ UNCHANGED currentChainId

\* After the await of super.getBalances a priceable service reads its field once
\* more: standing for a mainnet it asks for prices, for the chain it stands for.
QuotePrices(r) ==
    LET q == request[r]
        id == currentChainId[q.service]
    IN  /\ request' = [request EXCEPT ![r] =
               IF IsTestnet(q.service, id) THEN [q EXCEPT !.at = "answered"]
               ELSE [q EXCEPT !.at = "pricing", !.priced = id]]
        /\ UNCHANGED currentChainId

PricesArrive(r) ==
    /\ request' = [request EXCEPT ![r].at = "answered"]
    /\ UNCHANGED currentChainId

\* A provider's error, and an error of the price service, fail the request.
Fail(r) ==
    /\ request' = [request EXCEPT ![r] = Idle]
    /\ UNCHANGED currentChainId

\* The (sample) transactions: the name, the id and isTestnet are read again.
TransactionsArrive(r) ==
    /\ request' = [request EXCEPT ![r] =
           Answer("transactions", request[r].asked, currentChainId[request[r].service])]
    /\ UNCHANGED currentChainId

Finish(r) ==
    /\ request' = [request EXCEPT ![r] = Idle]
    /\ UNCHANGED currentChainId

-----------------------------------------------------------------------------
Next ==
    \/ \E id \in ClientIds : DispatchValidateAddress(id)
    \/ \E r \in Requests :
        \/ \E valid \in BOOLEAN :
            \/ \E input \in PortfolioInputs, provider \in Providers :
                   GetPortfolio(r, input, provider, valid)
            \/ \E input \in Inputs : GetAddressTransactions(r, input, valid)
            \/ \E id \in ClientIds :
                \/ DispatchGetBalances(r, id, valid)
                \/ DispatchGetTransactions(r, id, valid)
        \/ Await(r) = "fetching" /\ (ProviderAnswers(r) \/ Fail(r))
        \/ Await(r) = "quoting" /\ QuotePrices(r)
        \/ Await(r) = "pricing" /\ (PricesArrive(r) \/ Fail(r))
        \/ Await(r) = "listing" /\ TransactionsArrive(r)
        \/ Await(r) = "answered" /\ Finish(r)

Spec == Init /\ [][Next]_vars

-----------------------------------------------------------------------------
(* Properties.                                                             *)

ChainIds == Nat
Fetches == [at : {"fetching"}, endpoint : {"portfolio", "router"}, service : Services,
            asked : ChainIds, source : ChainNames, provider : DOMAIN RegisteredChains]
Listings == [at : {"listing"}, service : ChainServices, asked : ChainIds]
Answers ==
    [at : {"answered"}, endpoint : {"transactions"}, asked : ChainIds, named : ChainIds]
    \cup
    [at : {"quoting", "pricing", "answered"}, endpoint : {"portfolio", "router"},
     service : Services, asked : ChainIds, source : ChainNames,
     provider : DOMAIN RegisteredChains, named : ChainIds, priced : ChainIds,
     held : Holdings, response : Responses]

\* Every service object stands for a chain id, and no request waits for an object
\* that does not exist, nor for prices where there are none to be had.
TypeOK ==
    /\ currentChainId \in [Services -> ChainIds]
    /\ request \in [Requests -> {Idle} \cup Fetches \cup Listings \cup Answers]
    /\ \A r \in Requests :
          /\ Await(r) \in {"fetching", "quoting", "listing"} =>
                 currentChainId[request[r].service] # NotCreated
          /\ Await(r) \in {"quoting", "pricing"} => IsPriceable(request[r].service)

HasBalances(r) ==
    /\ Await(r) \in {"quoting", "pricing", "answered"}
    /\ request[r].endpoint \in {"portfolio", "router"}

HasEvmBalances(r) == HasBalances(r) /\ IsEvmService(request[r].service)

\* Balances come from the network of the chain that was asked for, whichever chain
\* other requests turn the service object to before, while and after the provider
\* is called. (A Solana service always asks the mainnet.)
FetchedAsAsked ==
    \A r \in Requests : HasEvmBalances(r) =>
        GetChainId(request[r].source) = request[r].asked

\* A portfolio, which is cached and announced under the chain in the URL, is that
\* chain's in every part: its balances, its symbol and the chain of its prices, with
\* requests for the other chains of the class and of ChainRouter in between, also
\* between the balances and the prices. Only Ethereum itself has prices.
PortfolioExact ==
    \A r \in Requests :
        HasEvmBalances(r) /\ request[r].endpoint = "portfolio" =>
            LET q == request[r] IN
            /\ GetChainId(q.source) = q.asked
            /\ q.named = q.asked
            /\ Await(r) # "quoting" =>
                  q.priced = IF q.asked = GetChainId("ethereum") THEN q.asked ELSE NoPrice

\* No failing call leaves a hole in a list. What Alchemy's strategies answer has the
\* first page of an EVM chain's tokens and NFTs, and all tokens on Solana: a failing
\* call fails the request and is not taken for an empty list, to be cached for
\* minutes. QuickNode's, for which both lists are optional, has the first page or
\* none of it. (Nobody asks for further pages; nothing is said of decimals, where
\* zero is taken for missing.)
ListsWhole ==
    \A r \in Requests : HasBalances(r) =>
        LET q == request[r]
            listed == {t.token : t \in q.response.tokens}
            page == {i \in DOMAIN q.held : i <= PageSize}
        IN  /\ q.provider = "alchemy" =>
                  /\ listed = IF IsEvmService(q.service) THEN page ELSE DOMAIN q.held
                  /\ q.response.nfts
            /\ q.provider = "quicknode" => listed \in {{}, page}

\* No fetch is doomed: whatever provider and network a service has picked, when all
\* calls answer there is a response, so strategy and adapter were picked alike.
FetchCanAnswer ==
    \A r \in Requests : Await(r) = "fetching" =>
        \A o \in Outcomes : AllAnswer(o) =>
            ProviderBalances(request[r].source, request[r].provider, o) # {}

\* A request that finds only the snapshot gets the native balance, the NFTs and the
\* amounts of the tokens that the provider gave for an earlier one, and on an EVM
\* chain each token's symbol and decimals: service, Redis event, MongoDB and the way
\* back agree on the names of the fields, though listener and DbService both rename
\* them. It says no more because no more is true: token addresses are lost on the
\* way, and a Solana token's symbol and decimals. It is stated of every response,
\* also those of answers by chain id, which are not stored: the same classes make
\* them.
SnapshotKeepsHoldings ==
    \A r \in Requests : HasBalances(r) =>
        LET response == request[r].response
            evm == IsEvmService(request[r].service)
            sent == PortfolioResult(evm, response)
            restored == RestoredPortfolio(SavedSnapshot(sent))
        IN  /\ restored.nativeBalance = sent.nativeBalance
            /\ restored.nfts = response.nfts
            /\ {token.balance : token \in restored.tokens}
                   = {t.token : t \in response.tokens}
            /\ evm => {<<token.balance, token.symbol, token.decimals>> :
                           token \in restored.tokens}
                        = {<<t.token, t.named, t.decimals>> : t \in response.tokens}

\* The balances of the chain id in the URL, as ChainIdController's comment promises
\* ("get the balances of the given chain id and address"): the answer has that id.
RouterExact ==
    \A r \in Requests :
        HasBalances(r) /\ request[r].endpoint = "router" => request[r].named = request[r].asked
=============================================================================
