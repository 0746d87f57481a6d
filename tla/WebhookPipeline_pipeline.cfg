SPECIFICATION Spec
CONSTANTS
    Chains = {"ethereum"}
    Deliveries = {d1, d2}
    Kinds = {"ADDRESS_ACTIVITY", "DROPPED_TRANSACTION", "GRAPHQL"}
    MaxWebhooks = 2
    None = None
INVARIANTS TypeOK AcceptedIsAnnounced RejectionsBounded
PROPERTY GenuineAccepted
