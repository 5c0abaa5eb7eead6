SPECIFICATION Spec
CONSTANTS
  t1 = t1
  t2 = t2
  p1 = p1
  p2 = p2
  NoThread = NoThread
  NoDomain = NoDomain
  Threads = {t1}
  Procs = {p1}
  ProcOf <- OneThread
  Domains = {d1}
  Marks <- SmallMarks
  Premises <- BoundaryPremises
  Window = 2
  GuardBudget = 1
  WaitBudget = 1
  MicrosPerSecond = 2
  MaxTime = 4
  MaxSeq = 2
  MaxCount = 2
  MaxRestores = 0
INVARIANTS
  TypeOK
  ExpiryRespected
  WithinGuardBudget
