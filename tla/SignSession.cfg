CONSTANTS
  Kind = "SIGN"
  InboundCap = 1
  MaxMessages = 2
  Window = 2
  Margin = 1
  Deadline = 4
  MaxTime = 5
SPECIFICATION FairSpec
INVARIANTS InsideWindow CompletedIsTrue ResolvedOrStopping 
PROPERTIES SessionEnds
