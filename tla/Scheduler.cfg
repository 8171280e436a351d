SPECIFICATION Spec
CONSTANTS
    Intents = {d1, d2}
    DKGIntents = {d1, d2}
    Workers = {w1, w2}
    MaxConcurrent = 2
    SigningDisabled = FALSE
    NoWorker = NoWorker
    NoIntent = NoIntent
SYMMETRY SessionSymmetry
INVARIANTS
    PermitAccounting
    NoLostWakeup
    DrainBarrier
