SPECIFICATION Spec
CONSTANTS
    Browsers = {b1}
    Connections = {k1, k2}
    Topics = {t1, t2}
    StoreLimit = 4
    Timeout = 1
    Stall = 2
    MaxEvents = 3
    Everything = Everything
    None = None
    Foreign = Foreign
SYMMETRY Symmetry
INVARIANTS TypeOK NoHole OpensInOrder ActiveConnectionsExact
PROPERTIES CutOffOnlyOverdue DeliversAsPromised
