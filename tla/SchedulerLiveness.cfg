SPECIFICATION LiveSpec
CONSTANTS
    Intents = {d1, s1}
    DKGIntents = {d1}
    Workers = {w1, w2}
    MaxConcurrent = 1
    SigningDisabled = FALSE
    NoWorker = NoWorker
    NoIntent = NoIntent
INVARIANTS
    AtMostOneExecution
    NoAbandonedClaim
PROPERTIES
    PendingSignServed
    ShutdownCompletes
CHECK_DEADLOCK FALSE
