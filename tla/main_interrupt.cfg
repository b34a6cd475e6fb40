SPECIFICATION MainSpec
CONSTANTS
  targets <- TwoHosts
  ports <- TwoPorts
  max_concurrency = 2
  Answers = {"success"}
  ResolutionMayFail = FALSE
  OpenMayFail = FALSE
  CallbackCancels = FALSE
  EarlyCancel = FALSE
INVARIANTS
  MainTypeOK
  SlotAccounting
  ReportsAtMostOnce
  HostCompletesOnce
  NoResultLost
  ExitIsOrderly
