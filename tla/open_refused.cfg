SPECIFICATION Spec
CONSTANTS
  targets <- OneHost
  ports <- OnePort
  max_concurrency = 1
  Answers = {"success"}
  ResolutionMayFail = FALSE
  OpenMayFail = TRUE
  CallbackCancels = FALSE
  EarlyCancel = FALSE
INVARIANTS
  FilteredMeansTimeout
