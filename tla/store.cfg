SPECIFICATION Spec
CONSTANTS
  Writers = {w1, w2}
  Artifacts = {a1}
  Versions = {v1, v2, bad}
  Rejected = {bad}
  None = None
INVARIANTS TypeOK LoggedIsStored PublishedIsLogged VersionsOnce NoDanglingLoad
CHECK_DEADLOCK FALSE
