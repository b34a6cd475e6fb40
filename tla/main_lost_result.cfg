SPECIFICATION MainSpec
CONSTANTS
  targets <- OneHost
  ports <- TwoPorts
  max_concurrency = 1
  Answers = {"success"}
  ResolutionMayFail = FALSE
  OpenMayFail = FALSE
  CallbackCancels = FALSE
  EarlyCancel = FALSE
INVARIANTS
  StartedPortsReported
