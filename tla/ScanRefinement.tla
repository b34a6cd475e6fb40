--------------------------- MODULE ScanRefinement ---------------------------
(***************************************************************************)
(* The scan engine implements its contract when no target is repeated.     *)
(***************************************************************************)
EXTENDS ScannerProperties

ReportedTasks == {t \in Tasks : reports[t] > 0}
Published == {h \in Hosts : completed_hosts_[h] # << >>}
Outcome == IF main = "returned" THEN "summary"
           ELSE IF main = "threw" THEN "exception" ELSE "none"

Promise == INSTANCE ScanContract WITH
  Jobs <- Tasks,
  HostOf <- [t \in Tasks |-> TaskHost(t)],
  Window <- max_concurrency,
  MayRefuse <- OpenMayFail,
  running <- Unreported,
  reported <- ReportedTasks,
  cancelled <- cancel_requested_,
  published <- Published,
  outcome <- Outcome

(* Every run of the engine is a run of the contract: jobs start in order   *)
(* within the window and not after a cancellation, hosts are published     *)
(* exactly with their last result, run() ends, and it ends with a partial  *)
(* result only if the scan was cancelled.  It may throw only if the scan   *)
(* was cancelled or the system may refuse a socket.                        *)
ImplementsContract == Promise!Contract

=============================================================================
