SPECIFICATION Spec
CONSTANTS
    Callers = {c1, c2, c3}
    MaxWebhooks = 2
    None = None
INVARIANTS TypeOK OneCleanWebhook CreationInv
PROPERTIES CallAnswered WebhookComes
