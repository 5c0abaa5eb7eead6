SPECIFICATION Spec
CONSTANTS
  t1 = t1
  t2 = t2
  p1 = p1
  p2 = p2
  NoThread = NoThread
  NoDomain = NoDomain
  Threads = {t1, t2}
  Procs = {p1}
  ProcOf <- OneProcess
  Domains = {d1}
  Marks <- OneMark
  Premises <- FarPremises
  Window = 1
  GuardBudget = 1
  WaitBudget = 0
  MicrosPerSecond = 1
  MaxTime = 3
  MaxSeq = 3
  MaxCount = 3
  MaxRestores = 0
INVARIANT
  OverrunAccounted
