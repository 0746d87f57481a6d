SPECIFICATION Spec
CONSTANTS
    Addresses = {a0}
    Default = a0
    Providers = {p1}
    Listeners = {l1}
    Sweep = Sweep
    Nightly = Nightly
    Chain = Chain
INVARIANT DefaultNeverRemoved
