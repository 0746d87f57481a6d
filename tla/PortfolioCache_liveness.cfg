SPECIFICATION Spec
CONSTANTS
    Requests = {r1}
    Handlers = {h1}
    Providers = {p1}
    RedisTTL = 1
    MongoTTL = 2
    Latency = 1
    FetchCalls = 2
    MaxVersion = 1
    AgeCap = 0
    None = None
PROPERTIES ActivityAnnounced EventuallyCoherent
