SPECIFICATION Spec
CONSTANTS
  Keys = {1}
  Timelines = {1}
  MaxHead = 3
  MaxPolicies = 2
  MaxPasses = 1
  Hosts = {h1, h2}
  Entries <- LongChain
SYMMETRY HostSymmetry
INVARIANTS
  TypeOK
  LiveNamedByEvents
  RestoredWithoutGap
PROPERTIES
  DecisionFresh
