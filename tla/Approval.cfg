SPECIFICATION SafetySpec
CONSTANTS
  Requests = {1, 2, 3}
  Hashes = {h1, h2}
  Bindings = {b1, b2}
  HintCap = 2
  PageSize = 2
  Stuck = {}
  Cancellable = {1, 2, 3}
  Answers = {"APPROVED", "REJECTED"}
  Configured = {"external", "auto_approve"}
  MaxFaults = 2
  MaxCrashes = 1
  AutoInitialize = TRUE
  MaxStarts = 4
INVARIANTS
  SentIsSaved
  AdmittedOnEvidence
  OneJournal
PROPERTIES
  SavedHintsKept
  ImplementsLedger
SYMMETRY Symmetry
