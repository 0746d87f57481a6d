----------------------------- MODULE ChainTables ----------------------------
(***************************************************************************)
(* The tables of chains/constants/index.ts and of                          *)
(* webhook/utils/alchemy-network.utils.ts, and the lookups in them.        *)
(***************************************************************************)
EXTENDS Naturals, Functions

MainnetNames == {"ethereum", "solana", "polygon", "bsc"}

ChainNames == MainnetNames \cup
    {"ethereum_goerli", "ethereum_sepolia", "solana_devnet", "bsc_testnet",
     "polygon_mumbai"}

Info(id, coinSymbols, networkIdentifier) ==
    [id |-> id, coinSymbols |-> coinSymbols, networkIdentifier |-> networkIdentifier]

ChainInfoMap ==
    [ethereum         |-> Info(1, {"eth", "ethereum"}, "ETH_MAINNET"),
     solana           |-> Info(101, {"sol", "solana"}, "SOL_MAINNET"),
     polygon          |-> Info(137, {"poly", "matic", "polygon"}, "POLY_MAINNET"),
     bsc              |-> Info(56, {"bsc", "bnb"}, "BSC_MAINNET"),
     ethereum_goerli  |-> Info(5, {"eth", "ethereum", "goerli"}, "ETH_GOERLI"),
     ethereum_sepolia |-> Info(11155111, {"eth", "ethereum", "sepolia"}, "ETH_SEPOLIA"),
     solana_devnet    |-> Info(103, {"sol", "solana", "devnet"}, "SOL_DEVNET"),
     bsc_testnet      |-> Info(97, {"bsc", "bnb", "testnet"}, "BSC_TESTNET"),
     polygon_mumbai   |-> Info(80001, {"poly", "matic", "polygon", "mumbai"},
                               "POLY_MUMBAI")]

GetChainId(chain) == ChainInfoMap[chain].id

\* NETWORK_ID_TO_CHAIN_MAP: the inverse of the networkIdentifier column.
NetworkIdToChainMap ==
    AntiFunction([chain \in ChainNames |-> ChainInfoMap[chain].networkIdentifier])

\* COIN_SYMBOL_TO_CHAIN_MAP: mainnets only, by symbol and by name.
CoinSymbolToChainMap ==
    LET symbols(chain) == ChainInfoMap[chain].coinSymbols \cup {chain} IN
    [symbol \in UNION {symbols(chain) : chain \in MainnetNames} |->
        CHOOSE chain \in MainnetNames : symbol \in symbols(chain)]

-----------------------------------------------------------------------------
(* AlchemyNetworkUtils.                                                    *)

\* The name Alchemy gives to the network of a chain.
GetNetworkIdForChain ==
    [ethereum         |-> "ETH_MAINNET",
     ethereum_goerli  |-> "ETH_GOERLI",
     ethereum_sepolia |-> "ETH_SEPOLIA",
     polygon          |-> "MATIC_MAINNET",
     polygon_mumbai   |-> "MATIC_MUMBAI",
     bsc              |-> "BNB_MAINNET",
     bsc_testnet      |-> "BNB_TESTNET",
     solana           |-> "SOLANA_MAINNET",
     solana_devnet    |-> "SOLANA_DEVNET"]

\* The way back asks NETWORK_ID_TO_CHAIN_MAP, which has names of its own for
\* some networks; what it does not know is null.
KnownNetwork(networkId) == networkId \in DOMAIN NetworkIdToChainMap

GetChainNameFromNetworkId(networkId) == NetworkIdToChainMap[networkId]
=============================================================================
