SPECIFICATION Spec
CONSTANTS
  Keys = {1, 2}
  Timelines = {1}
  MaxHead = 4
  MaxPolicies = 2
  MaxPasses = 0
  Hosts = {h1, h2}
  Entries <- TwoEntries
SYMMETRY HostSymmetry
PROPERTY
  ExpectedRevisionDerived
