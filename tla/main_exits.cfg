SPECIFICATION FairMainSpec
CONSTANTS
  targets <- TwoHosts
  ports <- OnePort
  max_concurrency = 2
  Answers = {"success"}
  ResolutionMayFail = TRUE
  OpenMayFail = FALSE
  CallbackCancels = FALSE
  EarlyCancel = FALSE
PROPERTIES
  ProgramExits
