SPECIFICATION Spec
CONSTANTS
  RunIds = {n1, n2}
  Profiles = {"enrich_only"}
  MaxAttempts = 2
  MaxBatch = 2
  None = None
SYMMETRY Symmetry
INVARIANTS EmptyHandedRunsFail
CHECK_DEADLOCK FALSE
