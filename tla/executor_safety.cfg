SPECIFICATION Spec
CONSTANTS
  NoJob = NoJob
  Guards = {g1, g2}
  Jobs = {j1, j2, j3}
  FoldDeadline = 3
  HandoffDeadline = 4
  PrepareBound = 1
  CallbackBound = 1
  PassBound = 1
  Callbacks = 2
SYMMETRY Interchangeable
INVARIANTS
  TypeOK
  SingleClaim
  AbandonedMeansQuarantined
  HostPanicPermanent
  DeliveredInTime
PROPERTY
  ImplementsFoldService
