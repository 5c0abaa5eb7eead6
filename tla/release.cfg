SPECIFICATION Spec
CONSTANTS
  Releases = {r1, r2}
INVARIANTS
  TypeOK
  ResultMatchesRegistry
  RevokedNotVisible
  P2Once
PROPERTIES
  RegistrySteps
  ReleaseEnds
