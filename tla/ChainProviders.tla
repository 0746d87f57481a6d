--------------------------- MODULE ChainProviders ---------------------------
(***************************************************************************)
(* Where a balance query ends: the provider that ProviderFactory resolves  *)
(* for a chain, and the network that provider's strategy asks.             *)
(*                                                                         *)
(* Which clients exist is fixed by the configuration when the modules      *)
(* start, and an instance is the single one of its class: the factory's    *)
(* instance caches change nothing a caller can see and are left out.       *)
(***************************************************************************)
EXTENDS ChainTables

CONSTANTS
    ApiKeys,            \* Alchemy keys in the environment: <<prefix, network>>
    QuickNodeEndpoints  \* networks with a QuickNode endpoint

NetworkTypes == {"MAINNET", "TESTNET"}

ASSUME ConfigurationAssumption ==
    /\ ApiKeys \subseteq {"ETH", "POLYGON", "BSC", "SOLANA", ""}
                         \X (NetworkTypes \cup {"ANY"})
    /\ QuickNodeEndpoints \subseteq NetworkTypes

Nowhere == "nowhere"

NetworkTypeOf(chain) == IF chain \in MainnetNames THEN "MAINNET" ELSE "TESTNET"

-----------------------------------------------------------------------------
(* AlchemyProviderFacade: one strategy per chain that has a key.           *)

EnvPrefixMap ==
    [ethereum |-> "ETH", ethereum_goerli |-> "ETH", ethereum_sepolia |-> "ETH",
     polygon |-> "POLYGON", polygon_mumbai |-> "POLYGON",
     bsc |-> "BSC", bsc_testnet |-> "BSC",
     solana |-> "SOLANA", solana_devnet |-> "SOLANA"]

\* EVM_CHAINS and SOLANA_CHAINS of the facade.
AlchemyEvmChains ==
    {"ethereum", "ethereum_goerli", "ethereum_sepolia", "polygon", "polygon_mumbai",
     "bsc", "bsc_testnet"}
AlchemySolanaChains == {"solana", "solana_devnet"}

\* The key of the chain's own network, of its prefix, or the global one.
HasApiKey(chain) ==
    {<<EnvPrefixMap[chain], NetworkTypeOf(chain)>>, <<EnvPrefixMap[chain], "ANY">>,
     <<"", "ANY">>} \cap ApiKeys # {}

Strategies == {chain \in AlchemyEvmChains \cup AlchemySolanaChains : HasApiKey(chain)}

\* A chain without a strategy is an error. A strategy asks the network it was
\* built for: the network type passed to it is not read.
AlchemyNetwork(chain) == IF chain \in Strategies THEN chain ELSE Nowhere

-----------------------------------------------------------------------------
(* EthereumQuickNodeProvider: one strategy with two clients, there when    *)
(* the mainnet endpoint is. Without a testnet client the mainnet one       *)
(* answers for both networks.                                              *)

\* EVM_CHAINS of BalanceStrategyFactory, which makes the strategy.
QuickNodeStrategyChains ==
    {"ethereum", "ethereum_goerli", "ethereum_sepolia", "polygon", "polygon_mumbai",
     "bsc", "bsc_testnet"}

\* The clients of the strategy, and the network that each asks.
QuickNodeClients ==
    [networkType \in QuickNodeEndpoints |->
        IF networkType = "TESTNET" THEN "ethereum_sepolia" ELSE "ethereum"]

GetClient(networkType) ==
    IF networkType \in DOMAIN QuickNodeClients THEN QuickNodeClients[networkType]
    ELSE QuickNodeClients["MAINNET"]

QuickNodeNetwork(networkType) ==
    IF "MAINNET" \in QuickNodeEndpoints /\ "ethereum" \in QuickNodeStrategyChains
    THEN GetClient(networkType) ELSE Nowhere

-----------------------------------------------------------------------------
(* ProviderFactory.                                                        *)

\* The chains each class is registered for at start, by its decorator. The other
\* members of ProviderType have no class, and a client may write any name.
RegisteredChains == [alchemy |-> ChainNames, quicknode |-> {"ethereum"}]

\* A provider type has one class, so its name stands for the class.
GetProviderClass(chain, provider) ==
    IF provider \in DOMAIN RegisteredChains /\ chain \in RegisteredChains[provider]
    THEN provider ELSE Nowhere

\* The network that answers getProvider(chain, provider).getBalances(...).
GetProviderNetwork(chain, provider, networkType) ==
    CASE GetProviderClass(chain, provider) = "alchemy" -> AlchemyNetwork(chain)
      [] GetProviderClass(chain, provider) = "quicknode" -> QuickNodeNetwork(networkType)
      [] OTHER -> Nowhere

KnownChainId(id) == \E chain \in ChainNames : GetChainId(chain) = id

GetChainTypeFromChainId(id) == CHOOSE chain \in ChainNames : GetChainId(chain) = id

\* getEvmProvider, as AbstractEvmChainService calls it: the chain and the network
\* type both come from the chain id.
GetEvmNetwork(id, provider) ==
    IF ~KnownChainId(id) THEN Nowhere
    ELSE LET chain == GetChainTypeFromChainId(id) IN
         GetProviderNetwork(chain, provider, NetworkTypeOf(chain))

\* getProvider(ChainName.SOLANA, ...), as SolanaService calls it: whatever its
\* chain id, the chain it names is the mainnet.
GetSolanaNetwork(networkType, provider) ==
    GetProviderNetwork("solana", provider, networkType)
=============================================================================
