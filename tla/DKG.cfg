CONSTANTS
  Intents = {i1, i2}
  PublicKeys = {a, b}
  None = None
  KeyOf <- SharedKey
  ReadFaults = TRUE
  MaxCrashes = 1
  \* Four-bit durations and attempts, jitter of a fifth as in DefaultRetryPolicy,
  \* poll factors 1/2, 1, 3/2, 2 and 20.
  Width = 4
  JitterNum = 1
  JitterDen = 5
  RandomSteps = 4
  Factors = {1, 2, 3, 4, 40}
SPECIFICATION Spec
SYMMETRY KeySymmetry
CHECK_DEADLOCK FALSE
INVARIANTS
  ClaimsAreOwned
  CompletedIsDurable
  
  PollIntervals
PROPERTIES
  NoLateWrite
  ImplementsOutcome
