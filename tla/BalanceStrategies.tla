------------------------- MODULE BalanceStrategies --------------------------
(***************************************************************************)
(* What a provider makes of the answers to its calls.                      *)
(*                                                                         *)
(* A strategy asks the network for an address's native balance, its        *)
(* tokens, the tokens' metadata and its NFTs, one call after the other,    *)
(* and each strategy has its own way with a call that fails. An adapter    *)
(* turns the strategy's data, whose fields are named differently by each,  *)
(* into a BalancesResponse.                                                *)
(*                                                                         *)
(* The calls read nothing that the program writes, so a fetch is a         *)
(* function of how they end. An error is the empty set, data a singleton.  *)
(* The tokens an address holds are numbered, and their list comes in       *)
(* pages: a strategy asks for the first one.                               *)
(***************************************************************************)
EXTENDS ChainProviders, Sequences

CONSTANTS
    Holdings,   \* what an address may hold: the decimals of its tokens, in order,
                \* 0 also where the network tells none
    PageSize    \* tokens on a page

ASSUME HoldingsAssumption ==
    /\ Holdings \subseteq Seq(Nat)
    /\ PageSize \in Nat \ {0}

TokenNumbers == UNION {DOMAIN held : held \in Holdings}

\* A list is what was asked for; an "other" answer has none, as when the endpoint
\* does not offer the method.
Replies == {"list", "other", "error"}

\* How the calls of a fetch end (`metadata` has the tokens whose metadata arrive),
\* and what the address holds.
Outcomes == [native : BOOLEAN, tokens : Replies, metadata : SUBSET TokenNumbers,
             nfts : Replies, held : Holdings]

FirstPage(o) == {i \in DOMAIN o.held : i <= PageSize}

AllAnswer(o) ==
    /\ o.native /\ o.tokens = "list" /\ o.nfts = "list"
    /\ DOMAIN o.held \subseteq o.metadata

\* JavaScript's d || default.
OrElse(d, default) == IF d = 0 THEN default ELSE d

Token(i, decimals, named) == [token |-> i, decimals |-> decimals, named |-> named]

\* The first page as an EVM strategy passes it on. The NFTs, of which it also takes
\* the first page, are there or not.
EvmTokens(o) == {Token(i, OrElse(o.held[i], 18), TRUE) : i \in FirstPage(o)}

Raw(format, tokens, nfts) == [format |-> format, tokens |-> tokens, nfts |-> nfts]

-----------------------------------------------------------------------------
(* The strategies: getRawBalances.                                         *)

\* A slip: tokens and NFTs are optional for Alchemy, too.
TolerantAlchemyStrategy(o) ==
    IF o.native
    THEN {Raw("EvmAlchemy", IF o.tokens = "list" THEN EvmTokens(o) ELSE {},
              o.nfts = "list")}
    ELSE {}

\* Any failing call fails it; the page key that comes with a list is not used.
EvmAlchemyStrategy(o) ==
    IF o.native /\ o.tokens = "list" /\ FirstPage(o) \subseteq o.metadata /\ o.nfts = "list"
    THEN {Raw("EvmAlchemy", EvmTokens(o), TRUE)}
    ELSE {}

\* Only the native balance is needed. The first error among the other two calls
\* ends both; without a list the part stays empty. The token list names its tokens.
EvmQuickNodeStrategy(o) ==
    IF o.native
    THEN {Raw("EvmQuickNode", IF o.tokens = "list" THEN EvmTokens(o) ELSE {},
              o.tokens # "error" /\ o.nfts = "list")}
    ELSE {}

\* The metadata of a token: its address on the chain, then the document itself.
\* Either may fail, and the token has no name then.
GetMintMetadata(o, i) == i \in o.metadata

\* JSON-RPC and Portfolio API errors are thrown, and missing lists are errors.
RpcCall(o) == o.native /\ o.tokens = "list"
PortfolioApiCall(o) == o.nfts = "list"

\* The accounts of all tokens come at once.
SolanaTokens(o) ==
    {Token(i, o.held[i], GetMintMetadata(o, i)) : i \in DOMAIN o.held}

SolanaAlchemyStrategy(o) ==
    IF RpcCall(o) /\ PortfolioApiCall(o)
    THEN {Raw("SolanaAlchemy", SolanaTokens(o), TRUE)}
    ELSE {}

-----------------------------------------------------------------------------
(* BalanceAdapterFactory and the adapters. The format stands for the names *)
(* of the fields: an adapter maps over a list the others do not have, so   *)
(* data in another format is a TypeError.                                  *)

\* EVM_CHAINS and SOLANA_CHAINS of the adapter factory.
AdapterEvmChains ==
    {"ethereum", "ethereum_goerli", "ethereum_sepolia", "polygon", "polygon_mumbai",
     "bsc", "bsc_testnet"}
AdapterSolanaChains == {"solana", "solana_devnet"}

\* A slip: the provider is not part of the choice.
ForChainOnly(chain, provider) ==
    IF chain \in AdapterEvmChains THEN "EvmAlchemy" ELSE "SolanaAlchemy"

\* No adapter, which is an error, for a chain that neither list has.
ForProvider(chain, provider) ==
    CASE chain \in AdapterEvmChains /\ provider = "quicknode" -> "EvmQuickNode"
      [] chain \in AdapterEvmChains /\ provider # "quicknode" -> "EvmAlchemy"
      [] chain \in AdapterSolanaChains -> "SolanaAlchemy"
      [] OTHER -> Nowhere

\* The chain services apply the same defaults once more, to no effect.
WithDefaultDecimals(raw, default) ==
    [tokens |-> {[t EXCEPT !.decimals = OrElse(@, default)] : t \in raw.tokens},
     nfts   |-> raw.nfts]

EvmBalanceAdapter(raw) == WithDefaultDecimals(raw, 18)
EvmQuickNodeAdapter(raw) == WithDefaultDecimals(raw, 18)
SolanaBalanceAdapter(raw) == WithDefaultDecimals(raw, 9)

ToBalancesResponse(format, raw) ==
    CASE raw.format # format -> {}
      [] raw.format = format /\ format = "EvmAlchemy" -> {EvmBalanceAdapter(raw)}
      [] raw.format = format /\ format = "EvmQuickNode" -> {EvmQuickNodeAdapter(raw)}
      [] raw.format = format /\ format = "SolanaAlchemy" -> {SolanaBalanceAdapter(raw)}

-----------------------------------------------------------------------------
(* The providers: getBalances.                                             *)

\* AlchemyProviderFacade picks the strategy by its own lists, and the adapter with
\* the factory's, for the chain only.
AlchemyStrategy(chain, o) ==
    IF chain \in AlchemyEvmChains THEN EvmAlchemyStrategy(o) ELSE SolanaAlchemyStrategy(o)

AlchemyBalances(chain, o) ==
    UNION {ToBalancesResponse(ForProvider(chain, Nowhere), raw) :
           raw \in AlchemyStrategy(chain, o)}

\* EthereumQuickNodeProvider: its strategy is the one that the strategy factory
\* keeps for "ethereum" and "quicknode", its adapter likewise.
QuickNodeBalances(o) ==
    UNION {ToBalancesResponse(ForProvider("ethereum", "quicknode"), raw) :
           raw \in EvmQuickNodeStrategy(o)}

ProviderBalances(chain, provider, o) ==
    IF provider = "quicknode" THEN QuickNodeBalances(o) ELSE AlchemyBalances(chain, o)

\* What a fetch may come to, with what the address holds.
FetchResults ==
    [fetch \in ChainNames \X DOMAIN RegisteredChains |->
        UNION {{[held |-> o.held, response |-> response] :
                response \in ProviderBalances(fetch[1], fetch[2], o)} : o \in Outcomes}]

Responses ==
    [tokens : SUBSET [token : Nat, decimals : Nat, named : BOOLEAN], nfts : BOOLEAN]
=============================================================================
