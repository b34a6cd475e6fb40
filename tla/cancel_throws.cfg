SPECIFICATION Spec
CONSTANTS
  targets <- OneHost
  ports <- TwoPorts
  max_concurrency = 2
  Answers = {"success"}
  ResolutionMayFail = FALSE
  OpenMayFail = FALSE
  CallbackCancels = TRUE
  EarlyCancel = FALSE
INVARIANTS
  CancelledRunReturns
