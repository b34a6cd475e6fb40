------------------------------ MODULE Scanner ------------------------------
(***************************************************************************)
(* The scan engine, Scanner::Impl (src/scanner/scanner.cpp): a sliding     *)
(* window of connect attempts, each raced against its timer, on one        *)
(* thread that runs the io_context.                                        *)
(* A few definitions are preceded by a defective variant of themselves     *)
(* (TimersFirst, NotErased, SlotLeaked, ...); the specification uses none  *)
(* of them.  They are what the properties must be able to tell apart.      *)
(*                                                                         *)
(* The thread's place in the code is `main', named for the function whose  *)
(* next piece it is about to execute.  What asio and the operating system  *)
(* do is ConnectAnswered, NextEndpointRefused, TimerExpires and            *)
(* IoContextReturns; the socket's and the timer's operations are modelled  *)
(* from asio's documented effects.                                         *)
(***************************************************************************)
EXTENDS Integers, Sequences, FiniteSets

CONSTANTS
  targets,            \* config_.targets: a sequence of host names
  ports,              \* config_.ports: a sequence of port numbers
  max_concurrency,    \* config_.max_concurrency
  Answers,            \* what the network may answer to a connect
  ResolutionMayFail,  \* may the resolver report an error?
  OpenMayFail,        \* may the system refuse a socket (descriptor limit)?
  CallbackCancels,    \* may an observer's callback call cancel()?
  EarlyCancel         \* may cancel() be called before run()?

Hosts == {targets[i] : i \in DOMAIN targets}
Ports == {ports[i] : i \in DOMAIN ports}

(* What validate_config lets through; it throws on anything else, before   *)
(* run() has touched any state.                                            *)
ConfigAccepted == targets # << >> /\ ports # << >>

ASSUME ScanAssumption ==
  /\ ConfigAccepted
  /\ targets \in Seq(Hosts)
  /\ ports \in Seq(Ports)
  /\ max_concurrency \in Nat
  /\ Answers \subseteq {"success", "refused", "other"}
  /\ {ResolutionMayFail, OpenMayFail, CallbackCancels, EarlyCancel} \subseteq BOOLEAN

----------------------------------------------------------------------------
(* The task queue.  build_task_queue fixes its contents and their order,   *)
(* so the queue is the tasks from next_task on.  With a target given twice *)
(* two tasks have the same host and port.                                  *)

NumTasks == Len(targets) * Len(ports)
Tasks == 1 .. NumTasks
TaskHost(t) == targets[((t - 1) \div Len(ports)) + 1]
TaskPort(t) == ports[((t - 1) % Len(ports)) + 1]

Verdicts ==
  [state : {"Open", "Closed", "Filtered", "Error"},
   reason : {"Connection established", "Connection refused", "Timeout",
             "Cancelled", "Resolution failed", "message"}]
PortResult(p, v) == [port |-> p, verdict |-> v]
Results == {PortResult(p, v) : p \in Ports, v \in Verdicts}

(* A queued completion handler: which operation completed, and its code.   *)
Completions ==
  [op : {"connect"}, ec : {"success", "refused", "other", "operation_aborted"}]
    \cup [op : {"timer"}, ec : {"success", "operation_aborted"}]

Completion(op, ec) == [op |-> op, ec |-> ec]

VARIABLES
  main,              \* where the scanning thread is
  batch_left,        \* iterations left in schedule_initial_batch
  current,           \* the task the thread is working on
  result,            \* the result it has for that task
  next_task,         \* the front of task_queue_
  in_flight_count_,
  cancel_requested_,
  active_sockets_,   \* tasks whose socket is in the vector
  active_timers_,    \* tasks whose timer is in the vector
  host_states_,      \* a map: unfinished host -> results and pending ports
  completed_hosts_,  \* per host, the HostResults pushed for it
  completed,         \* the operation's shared `completed' flag
  socket,            \* the operation's socket
  timer,             \* the operation's timer
  ready,             \* per operation, its completions queued in the io_context
  posted,            \* cancel()'s handler is queued in the io_context
  reports            \* history: calls of on_task_complete for the task

threadVars == <<main, batch_left, current, result>>
queueVars == <<next_task, in_flight_count_>>
hostVars == <<host_states_, completed_hosts_, reports>>
activeVars == <<active_sockets_, active_timers_>>
opVars == <<completed, socket, timer, ready>>
cancelVars == <<cancel_requested_, posted>>
vars == <<threadVars, queueVars, hostVars, activeVars, opVars, cancelVars>>

Steps ==
  {"idle", "schedule_initial_batch", "schedule_next_task", "scan_port_async",
   "async_connect", "async_wait", "on_task_complete", "run",
   "finalize_incomplete_hosts", "returned", "threw"}

NoResult == [state |-> "Error", reason |-> "message"]   \* a default PortResult
Verdict(s, r) == [state |-> s, reason |-> r]

Init ==
  /\ main = "idle" /\ batch_left = 0 /\ current = 0 /\ result = NoResult
  /\ next_task = 1 /\ in_flight_count_ = 0
  /\ cancel_requested_ = FALSE /\ posted = FALSE
  /\ active_sockets_ = {} /\ active_timers_ = {}
  /\ host_states_ = << >>                       \* the map with no key
  /\ completed_hosts_ = [h \in Hosts |-> << >>]
  /\ completed = [t \in Tasks |-> FALSE]
  /\ socket = [t \in Tasks |-> "unopened"]
  /\ timer = [t \in Tasks |-> "unarmed"]
  /\ ready = [t \in Tasks |-> << >>]
  /\ reports = [t \in Tasks |-> 0]

----------------------------------------------------------------------------
(* The effects of socket->close() and timer->cancel() on the operations in *)
(* a set.  Each pending operation is completed with operation_aborted; a   *)
(* completion already queued stays queued.                                 *)

IsOpen(t) == socket[t] \in {"connecting", "answered"}

Closed(S) == [t \in Tasks |-> IF t \in S /\ IsOpen(t) THEN "closed" ELSE socket[t]]
Disarmed(S) ==
  [t \in Tasks |-> IF t \in S /\ timer[t] = "armed" THEN "cancelled" ELSE timer[t]]

AbortedConnect(S, t) ==
  IF t \in S /\ socket[t] = "connecting"
  THEN <<Completion("connect", "operation_aborted")>> ELSE << >>
AbortedTimer(S, t) ==
  IF t \in S /\ timer[t] = "armed"
  THEN <<Completion("timer", "operation_aborted")>> ELSE << >>

(* cancel() closes every live socket, then cancels every live timer: the   *)
(* connect's handler is queued ahead of the timer's.                       *)
TimersFirst(t) == AbortedTimer(active_timers_, t) \o AbortedConnect(active_sockets_, t)
AbortedByCancel(t) == AbortedConnect(active_sockets_, t) \o AbortedTimer(active_timers_, t)

Cancel ==
  /\ cancel_requested_' = TRUE
  /\ IF cancel_requested_
     THEN UNCHANGED <<socket, timer, ready, posted>>
     ELSE /\ socket' = Closed(active_sockets_)
          /\ timer' = Disarmed(active_timers_)
          /\ ready' = [t \in Tasks |-> ready[t] \o AbortedByCancel(t)]
          /\ posted' = TRUE

(* An observer's callback runs on the scanning thread and may cancel.      *)
Callback ==
  \/ UNCHANGED <<cancelVars, socket, timer, ready>>
  \/ CallbackCancels /\ Cancel

(* finalize_host for every host of H: its result moves from the map to the *)
(* completed list.                                                         *)
Finalized(H, states) ==
  [h \in Hosts |-> IF h \in H THEN Append(completed_hosts_[h], states[h].ports)
                              ELSE completed_hosts_[h]]
NotErased(states, H) == states
Without(states, H) == [h \in DOMAIN states \ H |-> states[h]]

----------------------------------------------------------------------------
(* run(), up to io_context_.run()                                          *)

CancelBeforeRun ==
  /\ main = "idle" /\ EarlyCancel
  /\ ~cancel_requested_
  /\ Cancel
  /\ UNCHANGED <<threadVars, queueVars, hostVars, activeVars, completed>>

OneTooMany ==
  IF max_concurrency < NumTasks THEN max_concurrency + 1 ELSE NumTasks
OneTooFew == IF max_concurrency < NumTasks THEN max_concurrency - 1 ELSE NumTasks
BatchSize == IF max_concurrency < NumTasks THEN max_concurrency ELSE NumTasks

RunBegins ==
  /\ main = "idle"
  /\ host_states_' = [h \in Hosts |-> [ports |-> << >>, pending_ports |-> Len(ports)]]
  /\ batch_left' = BatchSize
  /\ main' = IF BatchSize > 0 THEN "schedule_initial_batch" ELSE "run"
  /\ UNCHANGED <<current, result, queueVars, completed_hosts_, reports, activeVars,
                 opVars, cancelVars>>

ScheduleInitialBatch ==
  /\ main = "schedule_initial_batch"
  /\ batch_left' = batch_left - 1
  /\ main' = "schedule_next_task"
  /\ UNCHANGED <<current, result, queueVars, hostVars, activeVars, opVars, cancelVars>>

----------------------------------------------------------------------------
(* schedule_next_task and scan_port_async.  They are called from the batch *)
(* loop, from a handler, or (an endpoint does not resolve) from each other *)
(* through on_task_complete; Resume is where the call stack returns to.    *)

Resume == IF batch_left > 0 THEN "schedule_initial_batch" ELSE "run"
LastTaskForgotten == next_task >= NumTasks
PastTheEnd == next_task > NumTasks + 1
QueueEmpty == next_task > NumTasks

ScheduledRegardless == ~QueueEmpty
MaySchedule == ~cancel_requested_ /\ ~QueueEmpty

ScheduleNothing ==
  /\ main = "schedule_next_task"
  /\ ~MaySchedule
  /\ main' = Resume
  /\ UNCHANGED <<batch_left, current, result, queueVars, hostVars, activeVars, opVars,
                 cancelVars>>

ScheduleNextTask ==
  /\ main = "schedule_next_task"
  /\ MaySchedule
  /\ current' = next_task
  /\ next_task' = next_task + 1
  /\ in_flight_count_' = in_flight_count_ + 1
  /\ main' = "scan_port_async"
  /\ UNCHANGED <<batch_left, result, hostVars, activeVars, opVars, cancelVars>>

TimerNotTracked ==
  /\ main = "scan_port_async"
  /\ active_sockets_' = active_sockets_ \cup {current}
  /\ main' = "async_connect"
  /\ UNCHANGED <<batch_left, current, result, queueVars, hostVars, active_timers_, opVars,
                 cancelVars>>

(* The socket and the timer exist and are tracked; neither is started, so  *)
(* closing or cancelling them here would have no effect on them.           *)
TrackOperation ==
  /\ main = "scan_port_async"
  /\ active_sockets_' = active_sockets_ \cup {current}
  /\ active_timers_' = active_timers_ \cup {current}
  /\ main' = "async_connect"
  /\ UNCHANGED <<batch_left, current, result, queueVars, hostVars, opVars, cancelVars>>

ResolveFails ==
  /\ main = "async_connect" /\ ResolutionMayFail
  /\ result' = Verdict("Error", "Resolution failed")
  /\ main' = "on_task_complete"
  /\ UNCHANGED <<batch_left, current, queueVars, hostVars, activeVars, opVars, cancelVars>>

(* When the socket for the first endpoint cannot be opened, async_connect's *)
(* completion is queued at once and finds the socket not open.             *)
AsyncConnect ==
  /\ main = "async_connect"
  /\ \/ /\ socket' = [socket EXCEPT ![current] = "connecting"]
        /\ UNCHANGED ready
     \/ /\ OpenMayFail
        /\ ready' = [ready EXCEPT ![current] = Append(@, Completion("connect", "other"))]
        /\ UNCHANGED socket
  /\ main' = "async_wait"
  /\ UNCHANGED <<batch_left, current, result, queueVars, hostVars, activeVars, completed,
                 timer, cancelVars>>

NeverArmed == UNCHANGED timer
ArmTimer == timer' = [timer EXCEPT ![current] = "armed"]

AsyncWait ==
  /\ main = "async_wait"
  /\ ArmTimer
  /\ main' = Resume
  /\ current' = 0
  /\ UNCHANGED <<batch_left, result, queueVars, hostVars, activeVars, completed, socket,
                 ready, cancelVars>>

----------------------------------------------------------------------------
(* The completion handlers.  Only the thread inside io_context_.run() runs *)
(* them.  The completions of one operation are handled in the order they   *)
(* were queued; across operations any order is allowed.                    *)

Dispatches(t, op) == main = "run" /\ ready[t] # << >> /\ Head(ready[t]).op = op

AbortIsTimeout(ec) ==
  CASE ec = "operation_aborted" -> Verdict("Filtered", "Timeout")
    [] ec = "success" -> Verdict("Open", "Connection established")
    [] ec = "refused" -> Verdict("Closed", "Connection refused")
    [] OTHER -> Verdict("Error", "message")

Classified(ec) ==
  CASE cancel_requested_ /\ ec = "operation_aborted" -> Verdict("Error", "Cancelled")
    [] ~cancel_requested_ /\ ec = "operation_aborted" -> Verdict("Filtered", "Timeout")
    [] ec = "success" -> Verdict("Open", "Connection established")
    [] ec = "refused" -> Verdict("Closed", "Connection refused")
    [] OTHER -> Verdict("Error", "message")

(* asio resumes a connect on a socket closed meanwhile as aborted, whatever *)
(* the system had answered.                                                *)
ConnectCode(t) == IF IsOpen(t) THEN Head(ready[t]).ec ELSE "operation_aborted"

(* The handler that finds `completed' unset sets it.                       *)
NeverMarked(t) == UNCHANGED completed
MarkCompleted(t) == completed' = [completed EXCEPT ![t] = TRUE]

(* A handler whose operation the other one has completed only returns.     *)
LateHandler(t) ==
  /\ main = "run" /\ ready[t] # << >>
  /\ completed[t]
  /\ ready' = [ready EXCEPT ![t] = Tail(@)]
  /\ UNCHANGED <<threadVars, queueVars, hostVars, activeVars, completed, socket, timer,
                 cancelVars>>

ConnectHandler(t) ==
  /\ Dispatches(t, "connect")
  /\ ~completed[t]
  /\ MarkCompleted(t)
  /\ timer' = Disarmed({t})
  /\ ready' = [ready EXCEPT ![t] = Tail(@) \o AbortedTimer({t}, t)]
  /\ result' = Classified(ConnectCode(t))
  /\ socket' = Closed({t})
  /\ current' = t
  /\ main' = "on_task_complete"
  /\ UNCHANGED <<batch_left, queueVars, hostVars, activeVars, cancelVars>>

TimerHandler(t) ==
  /\ Dispatches(t, "timer")
  /\ ~completed[t]
  /\ Head(ready[t]).ec = "success"
  /\ IsOpen(t)
  /\ MarkCompleted(t)
  /\ socket' = Closed({t})
  /\ ready' = [ready EXCEPT ![t] = Tail(@) \o AbortedConnect({t}, t)]
  /\ result' = Verdict("Filtered", "Timeout")
  /\ current' = t
  /\ main' = "on_task_complete"
  /\ UNCHANGED <<batch_left, queueVars, hostVars, activeVars, timer, cancelVars>>

(* The handler leaves without a report: cancelled, it returns; expired on  *)
(* a closed socket, its socket->cancel(), which takes no error_code,       *)
(* throws, and the exception leaves io_context_.run() and run().           *)
TimerHandlerNoReport(t) ==
  /\ Dispatches(t, "timer")
  /\ ~completed[t]
  /\ Head(ready[t]).ec = "success" => ~IsOpen(t)
  /\ MarkCompleted(t)
  /\ ready' = [ready EXCEPT ![t] = Tail(@)]
  /\ main' = IF Head(ready[t]).ec = "success" THEN "threw" ELSE main
  /\ UNCHANGED <<batch_left, current, result, queueVars, hostVars, activeVars, socket,
                 timer, cancelVars>>

----------------------------------------------------------------------------
(* on_task_complete                                                        *)

OpReported == reports' = [reports EXCEPT ![current] = @ + 1]
SlotLeaked == in_flight_count_' = in_flight_count_
SlotReleased == in_flight_count_' = in_flight_count_ - 1
Forget == current' = 0 /\ result' = NoResult

(* finalize_if_cancelled_and_idle, after the slot is released: the hosts   *)
(* it finalizes.                                                           *)
NotIdleEither(states) == IF cancel_requested_' THEN DOMAIN states ELSE {}
IdleHosts(states) ==
  IF cancel_requested_' /\ in_flight_count_' = 0 THEN DOMAIN states ELSE {}

OnTaskCompleteLate ==
  /\ main = "on_task_complete"
  /\ TaskHost(current) \notin DOMAIN host_states_
  /\ OpReported /\ SlotReleased /\ Forget
  /\ main' = Resume
  /\ UNCHANGED <<batch_left, next_task, activeVars, opVars, cancelVars>>
  /\ LET H == IdleHosts(host_states_)
     IN /\ completed_hosts_' = Finalized(H, host_states_)
        /\ host_states_' = Without(host_states_, H)

OnePortEarly(state) == state.pending_ports <= 1
HostDone(state) == state.pending_ports = 0

OnTaskComplete ==
  /\ main = "on_task_complete"
  /\ TaskHost(current) \in DOMAIN host_states_
  /\ OpReported /\ SlotReleased /\ Forget
  /\ Callback
  /\ main' = IF cancel_requested_' \/ QueueEmpty THEN Resume ELSE "schedule_next_task"
  /\ UNCHANGED <<batch_left, next_task, activeVars, completed>>
  /\ LET host == TaskHost(current)
         states == [host_states_ EXCEPT ![host] =
                      [ports |-> Append(@.ports, PortResult(TaskPort(current), result)),
                       pending_ports |-> @.pending_ports - 1]]
         H == {h \in {host} : HostDone(states[h])} \cup IdleHosts(states)
     IN /\ completed_hosts_' = Finalized(H, states)
        /\ host_states_' = Without(states, H)

----------------------------------------------------------------------------
(* cancel()'s posted handler, and the end of run()                         *)

CancelHandler ==
  /\ main = "run" /\ posted
  /\ posted' = FALSE
  /\ UNCHANGED <<threadVars, queueVars, reports, activeVars, opVars, cancel_requested_>>
  /\ LET H == IdleHosts(host_states_)
     IN /\ completed_hosts_' = Finalized(H, host_states_)
        /\ host_states_' = Without(host_states_, H)

(* io_context_.run() returns when nothing is pending or queued.            *)
NoWork ==
  /\ ~posted
  /\ \A t \in Tasks : ready[t] = << >> /\ socket[t] # "connecting" /\ timer[t] # "armed"

IoContextReturns ==
  /\ main = "run" /\ NoWork
  /\ main' = "finalize_incomplete_hosts"
  /\ UNCHANGED <<batch_left, current, result, queueVars, hostVars, activeVars, opVars,
                 cancelVars>>

FinalizeIncompleteHosts ==
  /\ main = "finalize_incomplete_hosts"
  /\ IF DOMAIN host_states_ = {} THEN UNCHANGED <<cancelVars, socket, timer, ready>>
                                 ELSE Callback
  /\ completed_hosts_' = Finalized(DOMAIN host_states_, host_states_)
  /\ host_states_' = Without(host_states_, DOMAIN host_states_)
  /\ main' = "returned"
  /\ UNCHANGED <<batch_left, current, result, queueVars, reports, activeVars, completed>>

----------------------------------------------------------------------------
(* The network and the clock.  The reactor looks at them only while the    *)
(* thread is in io_context_.run(): a timer that expires during a blocking  *)
(* resolve is noticed afterwards.                                          *)

ConnectAnswered(t, ec) ==
  /\ main = "run" /\ socket[t] = "connecting"
  /\ socket' = [socket EXCEPT ![t] = "answered"]
  /\ ready' = [ready EXCEPT ![t] = Append(@, Completion("connect", ec))]
  /\ UNCHANGED <<threadVars, queueVars, hostVars, activeVars, completed, timer, cancelVars>>

(* A name may have several endpoints.  Those that refuse are left for the  *)
(* next without the scanner being told; the socket is closed and opened    *)
(* anew for each, and stays closed when the system refuses another.        *)
NextEndpointRefused(t) ==
  /\ main = "run" /\ OpenMayFail /\ socket[t] = "connecting"
  /\ socket' = [socket EXCEPT ![t] = "closed"]
  /\ ready' = [ready EXCEPT ![t] = Append(@, Completion("connect", "other"))]
  /\ UNCHANGED <<threadVars, queueVars, hostVars, activeVars, completed, timer, cancelVars>>

TimerExpires(t) ==
  /\ main = "run" /\ timer[t] = "armed"
  /\ timer' = [timer EXCEPT ![t] = "expired"]
  /\ ready' = [ready EXCEPT ![t] = Append(@, Completion("timer", "success"))]
  /\ UNCHANGED <<threadVars, queueVars, hostVars, activeVars, completed, socket, cancelVars>>

----------------------------------------------------------------------------
(* The specification                                                       *)

Starting == RunBegins \/ ScheduleInitialBatch
Scheduling ==
  \/ ScheduleNothing \/ ScheduleNextTask
  \/ TrackOperation \/ ResolveFails \/ AsyncConnect \/ AsyncWait
Handler(t) ==
  \/ LateHandler(t) \/ ConnectHandler(t)
  \/ TimerHandler(t) \/ TimerHandlerNoReport(t)
Completing == OnTaskComplete \/ OnTaskCompleteLate
Ending == CancelHandler \/ IoContextReturns \/ FinalizeIncompleteHosts

(* One step of the scanning thread.                                        *)
ThreadStep == Starting \/ Scheduling \/ (\E t \in Tasks : Handler(t)) \/ Completing \/ Ending

Network ==
  \E t \in Tasks :
    \/ TimerExpires(t) \/ NextEndpointRefused(t)
    \/ \E ec \in Answers : ConnectAnswered(t, ec)

Stopped == main \in {"returned", "threw"}
Terminating == Stopped /\ UNCHANGED vars

Next == ThreadStep \/ Network \/ CancelBeforeRun \/ Terminating
Spec == Init /\ [][Next]_vars

(* The thread keeps running and armed timers expire.  Nothing is assumed   *)
(* of the network: a connect may never be answered.                        *)
Fairness == WF_vars(ThreadStep) /\ \A t \in Tasks : WF_vars(TimerExpires(t))
FairSpec == Spec /\ Fairness

=============================================================================
