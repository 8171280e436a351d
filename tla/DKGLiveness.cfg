CONSTANTS
  Intents = {i1, i2}
  PublicKeys = {a}
  None = None
  KeyOf <- SharedKey
  ReadFaults = FALSE
  MaxCrashes = 2
  \* Four-bit durations and attempts, jitter of a fifth as in DefaultRetryPolicy,
  \* poll factors 1/2, 1, 3/2, 2 and 20.
  Width = 4
  JitterNum = 1
  JitterDen = 5
  RandomSteps = 4
  Factors = {1, 2, 3, 4, 40}
SPECIFICATION LiveSpec
CHECK_DEADLOCK FALSE
PROPERTIES
  CompletionIsFinal
  ClaimResolved
