SPECIFICATION FairSpec
CONSTANTS
  targets <- TwoHosts
  ports <- TwoPorts
  max_concurrency = 2
  Answers = {"success", "refused"}
  ResolutionMayFail = TRUE
  OpenMayFail = FALSE
  CallbackCancels = TRUE
  EarlyCancel = TRUE
INVARIANTS
  TypeOK
  OpenSocketsBounded
  WindowFull
  DrainedAtReturn
  HostResultsComplete
  TimeoutBacked
  StartedPortsReported
  NoResultLost
  FilteredMeansTimeout
  CancelLeavesNothingPending
  ThrowsOnlyIfCancelled
PROPERTIES
  NoSchedulingAfterCancel
  ImplementsContract
