SPECIFICATION Spec
CONSTANTS
  ScopeRank <- Ranks
  Chain <- TwoScopes
  Registries <- Samples
  Callers = {"p", "q"}
  MaxValues = 2
INVARIANTS
  ValidatedBuilds
  CaptureAgrees
  LazyAgrees
CHECK_DEADLOCK FALSE
