SPECIFICATION Spec
CONSTANTS
    Addresses = {a0, a1}
    Default = a0
    Providers = {p1}
    Listeners = {l1}
    Sweep = Sweep
    Nightly = Nightly
    Chain = Chain
CONSTRAINT OneAddressAtATime
INVARIANTS TypeOK FlagTrusted
PROPERTY OnlyListenersDropDefault
