SPECIFICATION Spec
CONSTANTS
    Addresses = {a1}
    Default = a0
    Providers = {p1}
    Listeners = {l1}
    Sweep = Sweep
    Nightly = Nightly
    Chain = Chain
PROPERTIES DemandMonitored ForgottenUnmonitored
