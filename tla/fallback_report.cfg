SPECIFICATION Spec
CONSTANTS
  Keys = {1}
  Timelines = {1}
  MaxHead = 3
  MaxPolicies = 2
  MaxPasses = 1
  Hosts = {h1}
  Entries <- LongChain
INVARIANT
  NotCommittedUnchanged
