SPECIFICATION FairSpec
CONSTANTS
  Requests = {1, 2}
  Hashes = {h1}
  Bindings = {}
  HintCap = 2
  PageSize = 1
  Stuck = {1}
  Cancellable = {}
  Answers = {"APPROVED"}
  Configured = {"external"}
  MaxFaults = 0
  MaxCrashes = 1
PROPERTIES
  ReceiptsDelivered
  RequestsResolved
