SPECIFICATION Spec
CONSTANTS
    Requests = {r1, r2}
    ApiKeys <- MCApiKeys
    QuickNodeEndpoints <- MCQuickNodeEndpoints
    PortfolioInputs <- MCPortfolioInputs
    Inputs <- MCInputs
    Providers <- MCProviders
    ClientIds <- MCClientIds
    DefaultProvider = "alchemy"
    Holdings <- MCHoldings
    PageSize = 1
    MaxCopies = 2
CONSTRAINT FewCopies
INVARIANT RouterExact
