SPECIFICATION Spec
CONSTANTS
    Callers = {c1, c2}
    MaxWebhooks = 2
    None = None
INVARIANT CreatorsExclude
