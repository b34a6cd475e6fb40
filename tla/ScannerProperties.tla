------------------------- MODULE ScannerProperties -------------------------
(***************************************************************************)
(* What the scan engine of module Scanner must guarantee.                  *)
(***************************************************************************)
EXTENDS Scanner

Started == 1 .. (next_task - 1)
Unreported == {t \in Started : reports[t] = 0}
OpenSockets == {t \in Tasks : IsOpen(t)}
Distinct(seq) == \A i, j \in DOMAIN seq : seq[i] = seq[j] => i = j

----------------------------------------------------------------------------
(* The type of every variable.                                             *)
ThreadTypeOK ==
  /\ main \in Steps
  /\ batch_left \in 0 .. BatchSize
  /\ current \in 0 .. NumTasks
  /\ result \in Verdicts
  /\ next_task \in 1 .. (NumTasks + 1)
  /\ in_flight_count_ \in Int
  /\ cancel_requested_ \in BOOLEAN /\ posted \in BOOLEAN
  /\ reports \in [Tasks -> Nat]

OperationTypeOK ==
  /\ active_sockets_ \subseteq Tasks /\ active_timers_ \subseteq Tasks
  /\ completed \in [Tasks -> BOOLEAN]
  /\ socket \in [Tasks -> {"unopened", "connecting", "answered", "closed"}]
  /\ timer \in [Tasks -> {"unarmed", "armed", "expired", "cancelled"}]
  /\ ready \in [Tasks -> Seq(Completions)]

IsHostMap(states) ==
  /\ DOMAIN states \subseteq Hosts
  /\ \A h \in DOMAIN states : states[h] \in [ports : Seq(Results), pending_ports : Int]

HostTypeOK ==
  /\ IsHostMap(host_states_)
  /\ completed_hosts_ \in [Hosts -> Seq(Seq(Results))]

TypeOK == ThreadTypeOK /\ OperationTypeOK /\ HostTypeOK

----------------------------------------------------------------------------
(* Concurrency window                                                      *)

(* in_flight_count_ counts exactly the started operations that have not    *)
(* reported, whatever nesting of schedule and complete calls produced it;  *)
(* so the unsigned counter never wraps, and it stays within                *)
(* max_concurrency (scanner.cpp:61).                                       *)
SlotAccounting ==
  /\ in_flight_count_ = Cardinality(Unreported)
  /\ in_flight_count_ <= max_concurrency

(* Handlers of a finished operation may still be queued, yet no more than  *)
(* max_concurrency sockets are ever open: a slot is handed on only after   *)
(* its socket is closed.                                                   *)
OpenSocketsBounded == Cardinality(OpenSockets) <= max_concurrency

(* The window is kept full until the queue is exhausted (scanner.cpp:41):  *)
(* whenever the thread waits for events uncancelled with tasks left, every *)
(* slot is in use.                                                         *)
WindowFull ==
  main = "run" /\ ~cancel_requested_ /\ Started # Tasks
    => in_flight_count_ = max_concurrency

(* run() returns only once the queue is empty and nothing is in flight     *)
(* (scanner.cpp:65), unless the scan was cancelled.                        *)
DrainedAtReturn ==
  main = "returned" /\ ~cancel_requested_ => Started = Tasks /\ in_flight_count_ = 0

----------------------------------------------------------------------------
(* Results                                                                 *)

(* The connect and the timer race, and cancel() completes both: however    *)
(* they interleave, an operation reports at most once.                     *)
ReportsAtMostOnce == \A t \in Tasks : reports[t] <= 1

(* Every started operation has reported by the time run() returns; one     *)
(* that was cancelled in flight reports Error/Cancelled                    *)
(* (test_scanner_unit.cpp:136).                                            *)
StartedPortsReported == main = "returned" => \A t \in Started : reports[t] = 1

(* Each host completes exactly once (scanner.cpp:63): it is in the map or  *)
(* in the completed list, never in both and never twice, also when a       *)
(* callback cancels while it is being finalized.                           *)
HostCompletesOnce ==
  main \notin {"idle", "threw"} =>
    \A h \in Hosts :
      Len(completed_hosts_[h]) + (IF h \in DOMAIN host_states_ THEN 1 ELSE 0) = 1

ResultCount(h, p, portResults) ==
  Cardinality({i \in DOMAIN portResults : portResults[i].port = p})

(* A host completed by an uncancelled scan has exactly one result for each *)
(* requested port (host_result.hpp:6).                                     *)
HostResultsComplete ==
  ~cancel_requested_ =>
    \A h \in Hosts : \A i \in DOMAIN completed_hosts_[h] :
      \A p \in Ports : ResultCount(h, p, completed_hosts_[h][i]) = 1

(* Cancelled or not, the summary holds every result reported for a host,   *)
(* each in its own host and none after the host was finalized.             *)
NoResultLost ==
  main = "returned" =>
    \A h \in Hosts : \A i \in DOMAIN completed_hosts_[h] : \A p \in Ports :
      ResultCount(h, p, completed_hosts_[h][i])
        = Cardinality({t \in Tasks : /\ TaskHost(t) = h /\ TaskPort(t) = p
                                     /\ reports[t] = 1})

(* A port reported Filtered is one whose timeout elapsed                   *)
(* (port_result.hpp:29): an abort with another cause is never taken for    *)
(* the timer's.                                                            *)
FilteredMeansTimeout ==
  main = "on_task_complete" /\ result.state = "Filtered" => timer[current] = "expired"

----------------------------------------------------------------------------
(* Timeouts and cancellation                                               *)

(* No attempt can hang: whenever the thread waits for events, a connecting *)
(* socket has a timer that is still to expire or to be handled             *)
(* (docs/cli.md:63), and cancel() never takes the timer and leaves the     *)
(* connect.                                                                *)
TimeoutBacked ==
  main = "run" =>
    \A t \in Tasks : socket[t] = "connecting" =>
      /\ ~completed[t]
      /\ \/ timer[t] = "armed"
         \/ timer[t] = "expired" /\ ready[t] = <<Completion("timer", "success")>>

(* Once cancellation is requested the loop has only queued completions     *)
(* left to run: no socket, timer or task keeps run() from returning.       *)
CancelLeavesNothingPending ==
  main = "run" /\ cancel_requested_ =>
    \A t \in Tasks : ~IsOpen(t) /\ timer[t] # "armed"

(* No scheduling after cancellation is requested (scanner.cpp:64): no task *)
(* leaves the queue and no socket starts connecting.                       *)
NoSchedulingAfterCancel ==
  [][cancel_requested_ =>
       /\ next_task' = next_task
       /\ \A t \in Tasks : socket'[t] = "connecting" => socket[t] = "connecting"]_vars

(* With a valid configuration run() throws only after a cancellation       *)
(* (scanner.hpp:94).  Where the system may refuse a socket it does not     *)
(* hold: NextEndpointRefused closes one whose expiry may be queued.        *)
ThrowsOnlyIfCancelled == main = "threw" => cancel_requested_

(* After a cancellation run() returns a partial summary (scanner.hpp:106). *)
CancelledRunReturns == cancel_requested_ => main # "threw"

(* run() ends, even if the network never answers.                          *)
Termination == <>Stopped

----------------------------------------------------------------------------
(* The inductive invariant                                                 *)

(* An operation whose socket and timer were never started.                 *)
Untouched(t) == ready[t] = << >> /\ socket[t] = "unopened" /\ timer[t] = "unarmed"

(* What the place of the thread says about the task it works on.           *)
ControlInv ==
  /\ main = "idle" => in_flight_count_ = 0 /\ batch_left = 0
  /\ main = "schedule_initial_batch" => batch_left > 0
  /\ main \in {"scan_port_async", "async_connect", "async_wait", "on_task_complete"}
       => current \in Started /\ reports[current] = 0
  /\ main \in {"scan_port_async", "async_connect"} => Untouched(current)
  /\ main = "on_task_complete" =>
       ~IsOpen(current) /\ (completed[current] \/ Untouched(current))

(* A slot is free for the task about to be scheduled, besides those the    *)
(* batch loop has still to fill.                                           *)
WindowInv ==
  /\ main = "schedule_next_task" => in_flight_count_ + batch_left < max_concurrency
  /\ in_flight_count_ + batch_left <= max_concurrency

(* A task in the queue has no trace yet; a reported one has none left that *)
(* could report again or hold a socket.                                    *)
OperationInv ==
  \A t \in Tasks :
    /\ t \notin Started => reports[t] = 0 /\ Untouched(t)
    /\ reports[t] # 0 =>
         reports[t] = 1 /\ ~IsOpen(t) /\ (completed[t] \/ Untouched(t))

CountInv == in_flight_count_ = Cardinality(Unreported)

(* Together these are preserved by every step, and imply SlotAccounting,   *)
(* OpenSocketsBounded and ReportsAtMostOnce for every instance.            *)
EngineInv == TypeOK /\ ControlInv /\ WindowInv /\ OperationInv /\ CountInv

=============================================================================
