CONSTANTS
  Primary = "B"
  Recovery = "C"
  Platform = "platform"
  All = "*"
  NoFrame = NoFrame
  QueueCap = 1
  Outgoing <- Frames
SPECIFICATION BoundedSpec
INVARIANTS OrderedPerSender NoSilentLoss
PROPERTIES  FinishReturns
