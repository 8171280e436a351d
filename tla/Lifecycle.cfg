SPECIFICATION FairSpec
CONSTANT SigningDisabled = FALSE
INVARIANTS LockCoversWork NoDKGBeforeResolution ReadinessJustified StopClosesReadiness HealthHonest
PROPERTY StopCompletes
CHECK_DEADLOCK FALSE
