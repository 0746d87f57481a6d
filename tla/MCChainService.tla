--------------------------- MODULE MCChainService ---------------------------
(* Constants for TLC: keys for Ethereum, Polygon's mainnet and Solana, a mainnet *)
(* by symbol, a testnet of its class by name, a mainnet whose class has no       *)
(* prices, a provider nobody is registered for, and ids of two classes.         *)
EXTENDS ChainService, TLC, FiniteSets

MCApiKeys == {<<"ETH", "ANY">>, <<"POLYGON", "MAINNET">>, <<"SOLANA", "ANY">>}
MCQuickNodeEndpoints == {"MAINNET"}
MCPortfolioInputs == {"eth", "ethereum_sepolia", "matic"}
MCInputs == {"eth"}
MCProviders == {"alchemy", "quicknode", "okx"}
MCClientIds == {1, 11155111, 103}
MCHoldings == {<<0, 6>>}
MCSymmetry == Permutations(Requests)

\* Bound: the copies that ChainServiceFactory makes in one behaviour.
CONSTANT MaxCopies
FewCopies ==
    Cardinality({s \in ProviderSpecificServices : currentChainId[s] # NotCreated})
        <= MaxCopies
=============================================================================
