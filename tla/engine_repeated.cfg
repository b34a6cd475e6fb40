SPECIFICATION FairSpec
CONSTANTS
  targets <- RepeatedFirst
  ports <- OnePort
  max_concurrency = 2
  Answers = {"success"}
  ResolutionMayFail = TRUE
  OpenMayFail = TRUE
  CallbackCancels = TRUE
  EarlyCancel = TRUE
INVARIANTS
  EngineInv
  HostCompletesOnce
PROPERTIES
  Termination
