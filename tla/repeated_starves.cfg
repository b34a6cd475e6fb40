SPECIFICATION Spec
CONSTANTS
  targets <- RepeatedFirst
  ports <- OnePort
  max_concurrency = 1
  Answers = {"success"}
  ResolutionMayFail = FALSE
  OpenMayFail = FALSE
  CallbackCancels = FALSE
  EarlyCancel = FALSE
INVARIANTS
  DrainedAtReturn
