SPECIFICATION Spec
CONSTANTS
    Requests = {r1}
    Handlers = {h1, h2}
    Providers = {p1}
    RedisTTL = 1
    MongoTTL = 2
    Latency = 1
    FetchCalls = 3
    MaxVersion = 1
    AgeCap = 7
    None = None
SYMMETRY Symmetry
INVARIANTS TypeOK StaleOnlyByRace RaceInv AgeBounded
