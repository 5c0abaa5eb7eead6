SPECIFICATION Spec
CONSTANTS
  Keys = {1}
  Timelines = {1, 2}
  MaxHead = 4
  MaxPolicies = 2
  MaxPasses = 0
  Hosts = {h1}
  Entries <- ShortChains
INVARIANTS
  RowIsFold
  TenuresAgree
