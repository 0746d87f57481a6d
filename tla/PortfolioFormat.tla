--------------------------- MODULE PortfolioFormat ---------------------------
(***************************************************************************)
(* The forms a portfolio takes from a provider's response to the answer of *)
(* a later request: the chain service's, BalanceService's result, which is *)
(* sent and goes to Redis, the snapshot in MongoDB, and what is restored   *)
(* from it and goes to Redis again.                                        *)
(*                                                                         *)
(* The code passes these on as untyped objects, so a field that one form   *)
(* names differently is lost without an error. An object is a function on  *)
(* the names of the fields it has. A token's number stands for its address *)
(* and its amount: whose they are, and whether they are still there, is    *)
(* what can be told.                                                       *)
(***************************************************************************)
EXTENDS BalanceStrategies

EvmToken(t) ==
    [mint |-> t.token, balance |-> t.token, symbol |-> t.named, decimals |-> t.decimals]

SolanaToken(t) ==
    [mint |-> t.token, balance |-> t.token,
     tokenMetadata |-> [symbol |-> t.named, decimals |-> t.decimals]]

\* An EVM service and the Solana service name their list of tokens differently.
ServiceBalances(evm, response) ==
    IF evm
    THEN [nativeBalance |-> "amount", nfts |-> response.nfts,
          fungibles |-> {EvmToken(t) : t \in response.tokens}]
    ELSE [nativeBalance |-> "amount", nfts |-> response.nfts,
          tokens |-> {SolanaToken(t) : t \in response.tokens}]

GetTokensFromBalanceData(balanceData) ==
    IF "fungibles" \in DOMAIN balanceData THEN balanceData.fungibles
    ELSE balanceData.tokens

\* The end of BalanceService.getPortfolio.
PortfolioResult(evm, response) ==
    LET balanceData == ServiceBalances(evm, response) IN
    [nativeBalance |-> balanceData.nativeBalance,
     tokens |-> GetTokensFromBalanceData(balanceData), nfts |-> balanceData.nfts]

\* A field gets its new name unless the object has that one already.
Renamed(data, old, new) ==
    IF old \in DOMAIN data /\ new \notin DOMAIN data
    THEN [f \in (DOMAIN data \ {old}) \cup {new} |->
              IF f = new THEN data[old] ELSE data[f]]
    ELSE data

\* A slip: the native balance only.
TransformNative(data) == Renamed(data, "nativeBalance", "native")

TransformPortfolioData(data) ==
    IF "native" \in DOMAIN data /\ "nativeBalance" \notin DOMAIN data THEN data
    ELSE Renamed(Renamed(data, "nativeBalance", "native"), "tokens", "fungibles")

\* Fields outside the schema are dropped, missing lists are empty ones.
SchemaDefaults == [fungibles |-> {}, nfts |-> FALSE]
Stored(update) ==
    [f \in (DOMAIN update \cap {"native", "fungibles", "nfts"}) \cup DOMAIN SchemaDefaults |->
        IF f \in DOMAIN update THEN update[f] ELSE SchemaDefaults[f]]

\* The listener transforms, and savePortfolioSnapshot does so once more.
SavedSnapshot(data) == Stored(TransformPortfolioData(TransformPortfolioData(data)))

\* A token is copied by the schema's field names, whatever names it came with.
RestoredFields == {"address", "symbol", "balance", "decimals"}
RestoredToken(token) == [f \in RestoredFields \cap DOMAIN token |-> token[f]]

RestoredPortfolio(dbData) ==
    [nativeBalance |-> dbData.native,
     tokens |-> {RestoredToken(token) : token \in dbData.fungibles},
     nfts |-> dbData.nfts]
=============================================================================
