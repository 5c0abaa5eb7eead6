SPECIFICATION GuardSpec
CONSTANTS
  NoJob = NoJob
  Guards = {g1, g2}
  Jobs = {j1, j2, j3}
  FoldDeadline = 1
  HandoffDeadline = 1
  PrepareBound = 0
  CallbackBound = 0
  PassBound = 0
  Callbacks = 1
PROPERTIES
  FoldReturns
  QuarantineEnds
