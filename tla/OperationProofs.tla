-------------------------- MODULE OperationProofs --------------------------
(***************************************************************************)
(* Theorems about what becomes of a single operation, for every instance   *)
(* of the scan engine: its connect, its timer and the completions that     *)
(* cancel() adds race, and the first one decides.                          *)
(***************************************************************************)
EXTENDS ScannerProofs

Preparing == {"scan_port_async", "async_connect", "async_wait"}
Ended == {"finalize_incomplete_hosts", "returned"}

Waiting(t) == ready[t] # << >>
First(t) == Head(ready[t])
FirstIs(t, op, ec) == Waiting(t) /\ First(t) = Completion(op, ec)

(* An operation has no past before it is started, and cancel() can reach   *)
(* every socket and timer that is.                                         *)
TrackedInv ==
  /\ \A t \in Tasks : t \notin Started => ~completed[t]
  /\ main \in Preparing => ~completed[current]
  /\ main \in {"async_connect", "async_wait"} =>
       current \in active_sockets_ \cap active_timers_
  /\ main = "async_wait" =>
       /\ timer[current] = "unarmed"
       /\ \/ socket[current] = "connecting" /\ ~Waiting(current)
          \/ socket[current] = "unopened" /\ OpenMayFail
             /\ FirstIs(current, "connect", "other")
  /\ \A t \in Tasks :
       /\ IsOpen(t) => t \in active_sockets_
       /\ timer[t] = "armed" => t \in active_timers_

(* A connecting socket has its timer, armed or expired and next in line.   *)
ConnectingInv ==
  \A t \in Tasks : socket[t] = "connecting" =>
    /\ ~completed[t]
    /\ \/ main = "async_wait" /\ current = t /\ ~Waiting(t)
       \/ timer[t] = "armed" /\ ~Waiting(t)
       \/ timer[t] = "expired" /\ ready[t] = <<Completion("timer", "success")>>

(* What the first completion in line says of an operation that none has    *)
(* decided: an expiry is real; and as long as nobody cancels and the       *)
(* system refuses no socket, an expiry finds the socket open, and a        *)
(* connect's answer is no abort.                                           *)
FirstInv ==
  \A t \in Tasks : ~completed[t] =>
    /\ FirstIs(t, "timer", "success") => timer[t] = "expired"
    /\ ~cancel_requested_ =>
         /\ Waiting(t) /\ First(t).op = "timer" =>
              First(t).ec = "success" /\ (IsOpen(t) \/ OpenMayFail)
         /\ Waiting(t) /\ First(t).op = "connect" =>
              First(t).ec # "operation_aborted" /\ (IsOpen(t) \/ OpenMayFail)
         /\ timer[t] = "armed" => IsOpen(t) \/ (Waiting(t) /\ First(t).op = "connect")

CancelledInv ==
  cancel_requested_ => \A t \in Tasks : ~IsOpen(t) /\ timer[t] # "armed"

(* An operation that has not reported is being started, is reporting, or   *)
(* has a completion to come that will make it report.                      *)
PendingInv ==
  /\ main # "threw" =>
       \A t \in Unreported :
         \/ current = t /\ main \in Preparing \cup {"on_task_complete"}
         \/ /\ ~completed[t]
            /\ \/ socket[t] = "connecting"
               \/ Waiting(t) /\ ~FirstIs(t, "timer", "operation_aborted")
  /\ main \in Ended => Unreported = {}

ThrowInv == main = "threw" => cancel_requested_ \/ OpenMayFail
VerdictInv == ~OpenMayFail => FilteredMeansTimeout

RaceInv ==
  /\ TrackedInv /\ ConnectingInv /\ FirstInv /\ CancelledInv /\ PendingInv
  /\ ThrowInv /\ VerdictInv

----------------------------------------------------------------------------
(* The steps of the engine                                                 *)

(* The first completion in line stays first.                               *)
LEMMA FirstStays ==
  ASSUME NEW a \in Seq(Completions), NEW b \in Seq(Completions)
  PROVE  /\ a # << >> => a \o b # << >> /\ Head(a \o b) = Head(a)
         /\ a = << >> => a \o b = b
OBVIOUS

(* What is unreported is a task.                                           *)
LEMMA UnreportedTasks ==
  ASSUME EngineInv
  PROVE  Unreported \subseteq Tasks
BY ConfigFacts DEF EngineInv, TypeOK, ThreadTypeOK, Unreported, Started, Tasks

(* Steps that leave the operations and the cancellation alone.             *)
LEMMA QuietRace ==
  ASSUME EngineInv, RaceInv,
         RunBegins \/ ScheduleInitialBatch \/ ScheduleNothing \/ CancelHandler
           \/ IoContextReturns \/ UNCHANGED vars
  PROVE  RaceInv'
<1> USE DEF RaceInv
<1>1. UNCHANGED <<activeVars, completed, socket, timer, ready, next_task, reports, cancel_requested_>>
  BY DEF RunBegins, ScheduleInitialBatch, ScheduleNothing, CancelHandler, IoContextReturns,
     vars, queueVars, opVars, cancelVars, hostVars
<1>2. \/ UNCHANGED <<main, current, result>>
      \/ /\ main \notin Preparing \cup {"on_task_complete", "threw"}
         /\ main' \notin Preparing \cup {"on_task_complete", "threw"}
         /\ main' \in Ended => main = "run" /\ NoWork
  BY DEF RunBegins, ScheduleInitialBatch, ScheduleNothing, CancelHandler, IoContextReturns,
     vars, threadVars, Resume, Preparing, Ended
<1>3. TrackedInv'
  BY <1>1, <1>2 DEF TrackedInv, Started, IsOpen, Waiting, FirstIs, First, Preparing,
     activeVars
<1>4. ConnectingInv'
  BY <1>1, <1>2 DEF ConnectingInv, Waiting, Preparing
<1>5. FirstInv'
  BY <1>1 DEF FirstInv, Waiting, First, FirstIs, IsOpen
<1>6. CancelledInv'
  BY <1>1 DEF CancelledInv, IsOpen
<1>7. PendingInv'
  <2>1. Unreported' = Unreported
    BY <1>1 DEF Unreported, Started
  <2>2. Unreported \subseteq Tasks
    BY ConfigFacts DEF EngineInv, TypeOK, ThreadTypeOK, Unreported, Started, Tasks
  <2>3. main = "run" /\ NoWork => Unreported = {}
    BY <2>2 DEF PendingInv, NoWork, Waiting, Preparing
  <2>4. main' \in Ended => Unreported' = {}
    BY <1>2, <2>1, <2>3 DEF PendingInv
  <2>5. main' # "threw" => main # "threw"
    BY <1>2
  <2> QED BY <1>1, <1>2, <2>1, <2>2, <2>4, <2>5 DEF PendingInv, Waiting, First, FirstIs
<1>8. ThrowInv' /\ VerdictInv'
  BY <1>1, <1>2 DEF ThrowInv, VerdictInv, FilteredMeansTimeout
<1> QED BY <1>3, <1>4, <1>5, <1>6, <1>7, <1>8

(* ScheduleNextTask.                                                       *)
LEMMA ScheduleNextTaskRace ==
  ASSUME EngineInv, UncancelledInv, RaceInv, ScheduleNextTask
  PROVE  RaceInv'
<1> USE DEF EngineInv, TypeOK, RaceInv, threadVars, queueVars, hostVars, activeVars,
            opVars, cancelVars
<1>1. TrackedInv'
  BY ConfigFacts DEF ScheduleNextTask, MaySchedule, QueueEmpty, TrackedInv, ThreadTypeOK,
     Started, IsOpen, Tasks
<1>2. ConnectingInv'
  BY DEF ScheduleNextTask, MaySchedule, QueueEmpty, ConnectingInv, TrackedInv, Waiting,
     ControlInv
<1>3. FirstInv'
  BY ScanAssumption DEF ScheduleNextTask, FirstInv, Waiting, First, FirstIs, IsOpen
<1>4. CancelledInv'
  BY DEF ScheduleNextTask, CancelledInv, OperationTypeOK, IsOpen
<1>5. PendingInv'
  BY ConfigFacts DEF ScheduleNextTask, PendingInv, ThreadTypeOK, OperationInv, Unreported,
     Started, Waiting, First, FirstIs, Preparing, Ended
<1>6. ThrowInv'
  BY DEF ScheduleNextTask, ThrowInv, Waiting
<1>7. VerdictInv'
  BY DEF ScheduleNextTask, VerdictInv, FilteredMeansTimeout
<1> QED BY <1>1, <1>2, <1>3, <1>4, <1>5, <1>6, <1>7

(* TrackOperation.                                                         *)
LEMMA TrackOperationRace ==
  ASSUME EngineInv, UncancelledInv, RaceInv, TrackOperation
  PROVE  RaceInv'
<1> USE DEF EngineInv, TypeOK, RaceInv, threadVars, queueVars, hostVars, activeVars,
            opVars, cancelVars
<1>1. TrackedInv'
  BY ConfigFacts DEF TrackOperation, TrackedInv, Started, IsOpen, Preparing
<1>2. ConnectingInv'
  BY DEF TrackOperation, ConnectingInv, Waiting, ControlInv
<1>3. FirstInv'
  BY ScanAssumption DEF TrackOperation, FirstInv, Waiting, First, FirstIs, IsOpen
<1>4. CancelledInv'
  BY DEF TrackOperation, CancelledInv, OperationTypeOK, IsOpen
<1>5. PendingInv'
  BY ConfigFacts DEF TrackOperation, PendingInv, OperationInv, Unreported, Started, Waiting,
     First, FirstIs, Preparing, Ended
<1>6. ThrowInv'
  BY DEF TrackOperation, ThrowInv
<1>7. VerdictInv'
  BY DEF TrackOperation, VerdictInv, FilteredMeansTimeout
<1> QED BY <1>1, <1>2, <1>3, <1>4, <1>5, <1>6, <1>7

(* ResolveFails.                                                           *)
LEMMA ResolveFailsRace ==
  ASSUME EngineInv, UncancelledInv, RaceInv, ResolveFails
  PROVE  RaceInv'
<1> USE DEF EngineInv, TypeOK, RaceInv, threadVars, queueVars, hostVars, activeVars,
            opVars, cancelVars
<1>1. TrackedInv'
  BY ConfigFacts DEF ResolveFails, TrackedInv, Started, IsOpen, Preparing
<1>2. ConnectingInv'
  BY DEF ResolveFails, ConnectingInv, Waiting, ControlInv
<1>3. FirstInv'
  BY ScanAssumption DEF ResolveFails, FirstInv, Waiting, First, FirstIs, IsOpen
<1>4. CancelledInv'
  BY DEF ResolveFails, CancelledInv, OperationTypeOK, IsOpen
<1>5. PendingInv'
  BY ConfigFacts DEF ResolveFails, PendingInv, OperationInv, Unreported, Started, Waiting,
     First, FirstIs, Ended
<1>6. ThrowInv'
  BY DEF ResolveFails, ThrowInv
<1>7. VerdictInv'
  BY DEF ResolveFails, VerdictInv, FilteredMeansTimeout, Verdict
<1> QED BY <1>1, <1>2, <1>3, <1>4, <1>5, <1>6, <1>7

(* AsyncConnect.                                                           *)
LEMMA AsyncConnectRace ==
  ASSUME EngineInv, UncancelledInv, RaceInv, AsyncConnect
  PROVE  RaceInv'
<1> USE DEF EngineInv, TypeOK, RaceInv, threadVars, queueVars, hostVars, activeVars,
            opVars, cancelVars
<1>a. /\ current \in Tasks /\ current \in Started /\ main = "async_connect" /\ main' = "async_wait"
      /\ ready[current] = << >> /\ socket[current] = "unopened" /\ timer[current] = "unarmed"
      /\ ~completed[current] /\ ~cancel_requested_
      /\ current \in active_sockets_ /\ current \in active_timers_
  BY ConfigFacts DEF AsyncConnect, ControlInv, Untouched, TrackedInv, UncancelledInv,
     Preparing, Started, Tasks, ThreadTypeOK
<1>b. /\ UNCHANGED <<current, completed, timer, active_sockets_, active_timers_, next_task, reports,
                     cancel_requested_>>
      /\ \A t \in Tasks : t # current => socket'[t] = socket[t] /\ ready'[t] = ready[t]
      /\ \/ socket'[current] = "connecting" /\ ready'[current] = << >>
         \/ /\ OpenMayFail /\ socket'[current] = "unopened"
            /\ ready'[current] = <<Completion("connect", "other")>>
  BY <1>a DEF AsyncConnect, OperationTypeOK
<1>c. Completion("connect", "other").op = "connect" /\ Completion("connect", "other").ec = "other"
      /\ Completion("connect", "other") # Completion("timer", "operation_aborted")
  BY DEF Completion
<1>1. TrackedInv'
  BY <1>a, <1>b DEF TrackedInv, IsOpen, Waiting, First, FirstIs, Preparing, Started
<1>2. ConnectingInv'
  BY <1>a, <1>b DEF ConnectingInv, Waiting
<1>3. FirstInv'
  <2> SUFFICES ASSUME NEW t \in Tasks PROVE FirstInv!(t)'
    BY DEF FirstInv
  <2>1. CASE t # current
    BY <1>b, <2>1 DEF FirstInv, IsOpen, Waiting, First, FirstIs
  <2>2. CASE t = current
    BY <1>a, <1>b, <1>c, <2>2 DEF IsOpen, Waiting, First, FirstIs, Completion
  <2> QED BY <2>1, <2>2
<1>4. CancelledInv'
  BY DEF AsyncConnect, CancelledInv, UncancelledInv, TrackedInv, OperationTypeOK, IsOpen
<1>5. PendingInv'
  <2>1. Unreported' = Unreported
    BY <1>b DEF Unreported, Started
  <2> QED BY <1>a, <1>b, <2>1, UnreportedTasks DEF PendingInv, Waiting, First, FirstIs,
     Preparing, Ended
<1>6. ThrowInv'
  BY DEF AsyncConnect, ThrowInv, FirstInv, Waiting, First, IsOpen
<1>7. VerdictInv'
  BY DEF AsyncConnect, VerdictInv, FilteredMeansTimeout, Waiting, First, FirstIs, Completion,
     Completions
<1> QED BY <1>1, <1>2, <1>3, <1>4, <1>5, <1>6, <1>7

(* AsyncWait.                                                              *)
LEMMA AsyncWaitRace ==
  ASSUME EngineInv, UncancelledInv, RaceInv, AsyncWait
  PROVE  RaceInv'
<1> USE DEF EngineInv, TypeOK, RaceInv, threadVars, queueVars, hostVars, activeVars,
            opVars, cancelVars
<1>a. /\ current \in Tasks /\ main = "async_wait" /\ ~completed[current]
      /\ main' \notin Preparing \cup Ended \cup {"threw"}
      /\ socket[current] = "connecting" \/ FirstIs(current, "connect", "other")
  BY ConfigFacts DEF AsyncWait, ControlInv, TrackedInv, Preparing, Ended, Resume, Started,
     Tasks, ThreadTypeOK
<1>1. TrackedInv'
  BY ConfigFacts DEF AsyncWait, ArmTimer, Resume, TrackedInv, ThreadTypeOK, OperationTypeOK,
     Started, IsOpen, Waiting, FirstIs, First, Preparing, Tasks, ControlInv, Untouched
<1>2. ConnectingInv'
  BY DEF AsyncWait, ArmTimer, Resume, ConnectingInv, TrackedInv, OperationTypeOK, Waiting,
     ControlInv
<1>3. FirstInv'
  BY ScanAssumption DEF AsyncWait, ArmTimer, FirstInv, TrackedInv, OperationTypeOK, Waiting,
     First, FirstIs, IsOpen, Completion
<1>4. CancelledInv'
  BY DEF AsyncWait, ArmTimer, CancelledInv, UncancelledInv, OperationTypeOK, IsOpen
<1>5. PendingInv'
  <2>1. Unreported' = Unreported
    BY DEF AsyncWait, Unreported, Started
  <2>2. UNCHANGED <<completed, socket, ready>>
    BY DEF AsyncWait
  <2>3. Completion("connect", "other") # Completion("timer", "operation_aborted")
    BY DEF Completion
  <2>4. \A t \in Unreported : ~completed[t]
           /\ (socket[t] = "connecting" \/ (Waiting(t) /\ ~FirstIs(t, "timer", "operation_aborted")))
    BY <1>a, <2>3 DEF PendingInv, FirstIs
  <2> QED BY <1>a, <2>1, <2>2, <2>4, UnreportedTasks DEF PendingInv, Waiting, First, FirstIs
<1>6. ThrowInv'
  BY DEF AsyncWait, ArmTimer, Resume, ThrowInv, FirstInv, Waiting, First, IsOpen
<1>7. VerdictInv'
  BY DEF AsyncWait, Resume, VerdictInv, FilteredMeansTimeout, Waiting, First, FirstIs,
     Completion, Completions
<1> QED BY <1>1, <1>2, <1>3, <1>4, <1>5, <1>6, <1>7

(* LateHandler.                                                            *)
LEMMA LateHandlerRace ==
  ASSUME EngineInv, UncancelledInv, RaceInv, NEW t \in Tasks, LateHandler(t)
  PROVE  RaceInv'
<1> USE DEF EngineInv, TypeOK, RaceInv, threadVars, queueVars, hostVars, activeVars,
            opVars, cancelVars
<1>1. TrackedInv'
  BY ConfigFacts DEF LateHandler, TrackedInv, Started, IsOpen
<1>2. ConnectingInv'
  BY DEF LateHandler, ConnectingInv, Waiting, ControlInv
<1>3. FirstInv'
  BY ScanAssumption DEF LateHandler, FirstInv, Waiting, First, FirstIs, IsOpen
<1>4. CancelledInv'
  BY DEF LateHandler, CancelledInv, OperationTypeOK, IsOpen
<1>5. PendingInv'
  BY ConfigFacts DEF LateHandler, PendingInv, OperationInv, Unreported, Started, Waiting,
     First, FirstIs
<1>6. ThrowInv'
  BY DEF LateHandler, ThrowInv
<1>7. VerdictInv'
  BY DEF LateHandler, VerdictInv, FilteredMeansTimeout
<1> QED BY <1>1, <1>2, <1>3, <1>4, <1>5, <1>6, <1>7

(* ConnectHandler.                                                         *)
LEMMA ConnectHandlerRace ==
  ASSUME EngineInv, UncancelledInv, RaceInv, NEW t \in Tasks, ConnectHandler(t)
  PROVE  RaceInv'
<1> USE DEF EngineInv, TypeOK, RaceInv, threadVars, queueVars, hostVars, activeVars,
            opVars, cancelVars
<1>a. /\ Waiting(t) /\ t \in Started /\ t \in Tasks /\ main = "run" /\ ~completed[t]
      /\ completed' = [completed EXCEPT ![t] = TRUE]
      /\ UNCHANGED <<active_sockets_, active_timers_, next_task, reports, cancel_requested_>>
  BY DEF ConnectHandler, Dispatches, Waiting, OperationInv, Untouched, MarkCompleted
<1>b. Unreported' = Unreported
  BY <1>a DEF Unreported, Started
<1>c. /\ current' = t /\ main' = "on_task_complete"
      /\ \A u \in Tasks : u # t => socket'[u] = socket[u] /\ timer'[u] = timer[u] /\ ready'[u] = ready[u]
  BY DEF ConnectHandler, Closed, Disarmed, OperationTypeOK
<1>d. ~IsOpen(t)' /\ (timer'[t] = "armed" => timer[t] = "armed")
  BY DEF ConnectHandler, Closed, Disarmed, IsOpen
<1>1. TrackedInv'
  BY <1>a, <1>c, <1>d DEF TrackedInv, OperationTypeOK, Started, IsOpen, Preparing
<1>2. ConnectingInv'
  BY <1>a, <1>c, <1>d DEF ConnectingInv, OperationTypeOK, Waiting, IsOpen
<1>3. FirstInv'
  BY ScanAssumption DEF ConnectHandler, Dispatches, MarkCompleted, Closed, Disarmed,
     Classified, ConnectCode, FirstInv, TrackedInv, OperationTypeOK, Waiting, First,
     FirstIs, IsOpen, Completion, CancelledInv
<1>4. CancelledInv'
  BY DEF ConnectHandler, Closed, Disarmed, CancelledInv, IsOpen
<1>5. PendingInv'
  BY <1>a, <1>b, <1>c, UnreportedTasks DEF PendingInv, Waiting, First, FirstIs, Preparing,
     Ended
<1>6. ThrowInv'
  BY DEF ConnectHandler, MarkCompleted, Closed, Disarmed, Classified, ConnectCode, ThrowInv
<1>7. VerdictInv'
  BY DEF ConnectHandler, Dispatches, Classified, ConnectCode, VerdictInv, FirstInv,
     FilteredMeansTimeout, Verdict, Waiting, First
<1> QED BY <1>1, <1>2, <1>3, <1>4, <1>5, <1>6, <1>7

(* TimerHandler.                                                           *)
LEMMA TimerHandlerRace ==
  ASSUME EngineInv, UncancelledInv, RaceInv, NEW t \in Tasks, TimerHandler(t)
  PROVE  RaceInv'
<1> USE DEF EngineInv, TypeOK, RaceInv, threadVars, queueVars, hostVars, activeVars,
            opVars, cancelVars
<1>a. /\ Waiting(t) /\ t \in Started /\ t \in Tasks /\ main = "run" /\ ~completed[t]
      /\ completed' = [completed EXCEPT ![t] = TRUE]
      /\ UNCHANGED <<active_sockets_, active_timers_, next_task, reports, cancel_requested_>>
  BY DEF TimerHandler, Dispatches, Waiting, OperationInv, Untouched, MarkCompleted
<1>b. Unreported' = Unreported
  BY <1>a DEF Unreported, Started
<1>c. /\ current' = t /\ main' = "on_task_complete"
      /\ \A u \in Tasks : u # t => socket'[u] = socket[u] /\ timer'[u] = timer[u] /\ ready'[u] = ready[u]
  BY DEF TimerHandler, Closed, Disarmed, OperationTypeOK
<1>d. ~IsOpen(t)' /\ (timer'[t] = "armed" => timer[t] = "armed")
  BY DEF TimerHandler, Closed, Disarmed, IsOpen
<1>1. TrackedInv'
  BY <1>a, <1>c, <1>d DEF TrackedInv, OperationTypeOK, Started, IsOpen, Preparing
<1>2. ConnectingInv'
  BY <1>a, <1>c, <1>d DEF ConnectingInv, OperationTypeOK, Waiting, IsOpen
<1>3. FirstInv'
  BY ScanAssumption DEF TimerHandler, Dispatches, MarkCompleted, Closed, FirstInv, TrackedInv,
     OperationTypeOK, Waiting, First, FirstIs, IsOpen, Completion, CancelledInv
<1>4. CancelledInv'
  BY DEF TimerHandler, MarkCompleted, Closed, CancelledInv, TrackedInv, OperationTypeOK,
     IsOpen
<1>5. PendingInv'
  BY <1>a, <1>b, <1>c, UnreportedTasks DEF PendingInv, Waiting, First, FirstIs, Preparing,
     Ended
<1>6. ThrowInv'
  BY DEF TimerHandler, MarkCompleted, Closed, ThrowInv, FirstInv, Waiting
<1>7. VerdictInv'
  <2>1. FirstIs(t, "timer", "success")
    <3>1. First(t) \in Completions
      BY <1>a DEF OperationTypeOK, Waiting, First
    <3>2. First(t).op = "timer" /\ First(t).ec = "success"
      BY DEF TimerHandler, Dispatches, First
    <3>3. First(t) = Completion("timer", "success")
      BY <3>1, <3>2 DEF Completion, Completions
    <3> QED BY <1>a, <3>3 DEF FirstIs
  <2>2. timer'[t] = "expired"
    BY <1>a, <2>1 DEF TimerHandler, FirstInv
  <2> QED BY <1>c, <2>2 DEF VerdictInv, FilteredMeansTimeout
<1> QED BY <1>1, <1>2, <1>3, <1>4, <1>5, <1>6, <1>7

(* TimerHandlerNoReport.                                                   *)
LEMMA TimerHandlerNoReportRace ==
  ASSUME EngineInv, UncancelledInv, RaceInv, NEW t \in Tasks, TimerHandlerNoReport(t)
  PROVE  RaceInv'
<1> USE DEF EngineInv, TypeOK, RaceInv, threadVars, queueVars, hostVars, activeVars,
            opVars, cancelVars
<1>a. /\ Waiting(t) /\ t \in Started /\ t \in Tasks /\ main = "run" /\ ~completed[t]
      /\ completed' = [completed EXCEPT ![t] = TRUE]
      /\ UNCHANGED <<active_sockets_, active_timers_, next_task, reports, cancel_requested_>>
  BY DEF TimerHandlerNoReport, Dispatches, Waiting, OperationInv, Untouched, MarkCompleted
<1>b. Unreported' = Unreported
  BY <1>a DEF Unreported, Started
<1>c. /\ UNCHANGED <<current, result, socket, timer>> /\ main' \in {"run", "threw"}
      /\ \A u \in Tasks : u # t => ready'[u] = ready[u]
      /\ main' # "threw" => FirstIs(t, "timer", "operation_aborted")
      /\ main' = "threw" => First(t).op = "timer" /\ First(t).ec = "success" /\ ~IsOpen(t)
  BY <1>a DEF TimerHandlerNoReport, Dispatches, OperationTypeOK, FirstIs, First, Completion,
     Completions
<1>d. socket[t] # "connecting"
  BY <1>a, <1>c DEF ConnectingInv, FirstIs, First, Waiting, Completion, IsOpen
<1>1. TrackedInv'
  BY <1>a, <1>c DEF TrackedInv, OperationTypeOK, Started, IsOpen, Preparing
<1>2. ConnectingInv'
  BY <1>a, <1>c, <1>d DEF ConnectingInv, OperationTypeOK, Waiting
<1>3. FirstInv'
  BY ScanAssumption DEF TimerHandlerNoReport, Dispatches, MarkCompleted, FirstInv, TrackedInv,
     OperationTypeOK, Waiting, First, FirstIs, IsOpen, Completion, CancelledInv
<1>4. CancelledInv'
  BY DEF TimerHandlerNoReport, MarkCompleted, CancelledInv, TrackedInv, OperationTypeOK,
     IsOpen
<1>5. PendingInv'
  <2>1. main' # "threw" => t \notin Unreported
    BY <1>a, <1>c, <1>d DEF PendingInv, Preparing
  <2> QED BY <1>a, <1>b, <1>c, <2>1, UnreportedTasks DEF PendingInv, OperationTypeOK, Waiting,
     First, FirstIs, Preparing, Ended
<1>6. ThrowInv'
  BY DEF TimerHandlerNoReport, Dispatches, MarkCompleted, ThrowInv, FirstInv, Waiting, First,
     IsOpen
<1>7. VerdictInv'
  BY DEF TimerHandlerNoReport, Dispatches, VerdictInv, FirstInv, FilteredMeansTimeout,
     Verdict, Waiting, First, FirstIs, Completion, Completions
<1> QED BY <1>1, <1>2, <1>3, <1>4, <1>5, <1>6, <1>7

(* ConnectAnswered.                                                        *)
LEMMA ConnectAnsweredRace ==
  ASSUME EngineInv, UncancelledInv, RaceInv, NEW t \in Tasks, NEW ec \in Answers, ConnectAnswered(t, ec)
  PROVE  RaceInv'
<1> USE DEF EngineInv, TypeOK, RaceInv, threadVars, queueVars, hostVars, activeVars,
            opVars, cancelVars
<1>a. /\ t \in Tasks /\ main = "run" /\ main' = main /\ socket[t] = "connecting" /\ socket'[t] = "answered"
      /\ Waiting(t)' /\ (Waiting(t) => First(t)' = First(t))
      /\ ~Waiting(t) => First(t)' = Completion("connect", ec)
      /\ \A u \in Tasks : u # t => socket'[u] = socket[u] /\ ready'[u] = ready[u]
      /\ UNCHANGED <<current, next_task, reports, completed>>
  BY CompletionTypes DEF ConnectAnswered, OperationTypeOK, Waiting, First
<1>b. ~FirstIs(t, "timer", "operation_aborted")
  BY <1>a DEF ConnectingInv, FirstIs, First, Waiting, Completion
<1>1. TrackedInv'
  BY ConfigFacts DEF ConnectAnswered, TrackedInv, ThreadTypeOK, Started, IsOpen, Waiting,
     FirstIs, First, Preparing, Tasks, ControlInv, Untouched
<1>2. ConnectingInv'
  BY DEF ConnectAnswered, ConnectingInv, OperationTypeOK, Waiting, ControlInv
<1>3. FirstInv'
  BY ScanAssumption DEF ConnectAnswered, FirstInv, OperationTypeOK, Waiting, First, FirstIs,
     IsOpen, Completion
<1>4. CancelledInv'
  BY DEF ConnectAnswered, CancelledInv, OperationTypeOK, IsOpen
<1>5. PendingInv'
  <2>1. Unreported' = Unreported
    BY <1>a DEF Unreported, Started
  <2>2. ~FirstIs(t, "timer", "operation_aborted")'
    BY <1>a, <1>b DEF FirstIs, Completion
  <2> QED BY <1>a, <2>1, <2>2, UnreportedTasks DEF PendingInv, Waiting, First, FirstIs,
     Preparing, Ended
<1>6. ThrowInv'
  BY DEF ConnectAnswered, ThrowInv, FirstInv, Waiting, First
<1>7. VerdictInv'
  BY DEF ConnectAnswered, VerdictInv, FilteredMeansTimeout
<1> QED BY <1>1, <1>2, <1>3, <1>4, <1>5, <1>6, <1>7

(* NextEndpointRefused.                                                    *)
LEMMA NextEndpointRefusedRace ==
  ASSUME EngineInv, UncancelledInv, RaceInv, NEW t \in Tasks, NextEndpointRefused(t)
  PROVE  RaceInv'
<1> USE DEF EngineInv, TypeOK, RaceInv, threadVars, queueVars, hostVars, activeVars,
            opVars, cancelVars
<1>a. /\ t \in Tasks /\ main = "run" /\ main' = main /\ OpenMayFail
      /\ socket[t] = "connecting" /\ socket'[t] = "closed"
      /\ Waiting(t)' /\ (Waiting(t) => First(t)' = First(t))
      /\ ~Waiting(t) => First(t)' = Completion("connect", "other")
      /\ \A u \in Tasks : u # t => socket'[u] = socket[u] /\ ready'[u] = ready[u]
      /\ UNCHANGED <<current, next_task, reports, completed>>
  <2>1. Completion("connect", "other") \in Completions BY DEF Completion, Completions
  <2> QED BY <2>1 DEF NextEndpointRefused, OperationTypeOK, Waiting, First
<1>b. ~FirstIs(t, "timer", "operation_aborted")
  BY <1>a DEF ConnectingInv, FirstIs, First, Waiting, Completion
<1>1. TrackedInv'
  BY ConfigFacts DEF NextEndpointRefused, TrackedInv, ThreadTypeOK, Started, IsOpen, Waiting,
     FirstIs, First, Preparing, Tasks, ControlInv, Untouched
<1>2. ConnectingInv'
  BY DEF NextEndpointRefused, ConnectingInv, OperationTypeOK, Waiting, ControlInv
<1>3. FirstInv'
  <2> SUFFICES ASSUME NEW u \in Tasks PROVE FirstInv!(u)'
    BY DEF FirstInv
  <2>1. UNCHANGED <<completed, timer, cancel_requested_>>
    BY DEF NextEndpointRefused
  <2>2. CASE u # t
    BY <1>a, <2>1, <2>2 DEF FirstInv, IsOpen, Waiting, First, FirstIs
  <2>3. CASE u = t
    <3>1. Waiting(t) => First(t) = Completion("timer", "success") /\ timer[t] = "expired"
      BY <1>a DEF ConnectingInv, Waiting, First
    <3>2. ~Waiting(t) => First(t)' = Completion("connect", "other")
      BY <1>a
    <3> QED BY <1>a, <2>1, <2>3, <3>1, <3>2 DEF FirstIs, Completion
  <2> QED BY <2>2, <2>3
<1>4. CancelledInv'
  BY DEF NextEndpointRefused, CancelledInv, OperationTypeOK, IsOpen
<1>5. PendingInv'
  <2>1. Unreported' = Unreported
    BY <1>a DEF Unreported, Started
  <2>2. ~FirstIs(t, "timer", "operation_aborted")'
    BY <1>a, <1>b DEF FirstIs, Completion
  <2> QED BY <1>a, <2>1, <2>2, UnreportedTasks DEF PendingInv, Waiting, First, FirstIs,
     Preparing, Ended
<1>6. ThrowInv' /\ VerdictInv'
  BY <1>a DEF ThrowInv, VerdictInv
<1> QED BY <1>1, <1>2, <1>3, <1>4, <1>5, <1>6

(* TimerExpires.                                                           *)
LEMMA TimerExpiresRace ==
  ASSUME EngineInv, UncancelledInv, RaceInv, NEW t \in Tasks, TimerExpires(t)
  PROVE  RaceInv'
<1> USE DEF EngineInv, TypeOK, RaceInv, threadVars, queueVars, hostVars, activeVars,
            opVars, cancelVars
<1>a. socket[t] = "connecting" => ready'[t] = <<Completion("timer", "success")>>
  <2>1. socket[t] = "connecting" => ready[t] = << >>
    BY DEF TimerExpires, ConnectingInv, Waiting
  <2>2. ready'[t] = Append(ready[t], Completion("timer", "success"))
    BY DEF TimerExpires, OperationTypeOK
  <2>3. Append(<< >>, Completion("timer", "success")) = <<Completion("timer", "success")>>
    OBVIOUS
  <2> QED BY <2>1, <2>2, <2>3
<1>1. TrackedInv'
  BY ConfigFacts DEF TimerExpires, TrackedInv, ThreadTypeOK, OperationTypeOK, Started, IsOpen,
     Waiting, FirstIs, First, Preparing, Tasks, ControlInv, Untouched
<1>2. ConnectingInv'
  BY <1>a DEF TimerExpires, ConnectingInv, OperationTypeOK, Waiting
<1>3. FirstInv'
  BY ScanAssumption DEF TimerExpires, FirstInv, TrackedInv, OperationTypeOK, Waiting, First,
     FirstIs, IsOpen, Completion, CancelledInv
<1>4. CancelledInv'
  BY DEF TimerExpires, CancelledInv, TrackedInv, OperationTypeOK, IsOpen
<1>5. PendingInv'
  BY ConfigFacts DEF TimerExpires, PendingInv, TrackedInv, OperationInv, Unreported, Started,
     Waiting, First, FirstIs
<1>6. ThrowInv'
  BY DEF TimerExpires, ThrowInv, IsOpen
<1>7. VerdictInv'
  BY DEF TimerExpires, VerdictInv, FilteredMeansTimeout
<1> QED BY <1>1, <1>2, <1>3, <1>4, <1>5, <1>6, <1>7

(* What cancel() does to an operation: the socket is closed and the timer  *)
(* disarmed, a completion in line stays first, and a connect that waits    *)
(* for its answer is aborted before its timer is.                          *)
Aborted(t) ==
  /\ ~IsOpen(t)' /\ timer'[t] # "armed"
  /\ timer[t] = "expired" => timer'[t] = "expired"
  /\ Waiting(t) => Waiting(t)' /\ First(t)' = First(t)
  /\ socket[t] = "connecting" /\ ~Waiting(t) =>
       FirstIs(t, "connect", "operation_aborted")'
  /\ ~Waiting(t) => ~FirstIs(t, "timer", "success")'

(* A call that may cancel either leaves the operations alone or aborts all *)
(* of them.                                                                *)
LEMMA CancelAborts ==
  ASSUME OperationTypeOK, TrackedInv, ~cancel_requested_, Cancel, NEW t \in Tasks
  PROVE  Aborted(t)
<1>1. /\ socket' = Closed(active_sockets_) /\ timer' = Disarmed(active_timers_)
      /\ ready'[t] = ready[t] \o AbortedByCancel(t)
  BY DEF Cancel
<1>2. ~IsOpen(t)' /\ timer'[t] # "armed" /\ (timer[t] = "expired" => timer'[t] = "expired")
  BY <1>1 DEF Closed, Disarmed, TrackedInv, IsOpen
<1>3. ready[t] \in Seq(Completions)
  BY DEF OperationTypeOK
<1>4. AbortedByCancel(t) \in Seq(Completions)
  <2>1. AbortedConnect(active_sockets_, t) \in Seq(Completions)
    BY EffectTypes
  <2>2. AbortedTimer(active_timers_, t) \in Seq(Completions)
    BY EffectTypes
  <2> QED BY <2>1, <2>2 DEF AbortedByCancel
<1>5. Waiting(t) => Waiting(t)' /\ First(t)' = First(t)
  BY <1>1, <1>3, <1>4, FirstStays DEF Waiting, First
<1>6. ~Waiting(t) => ready'[t] = AbortedByCancel(t)
  BY <1>1, <1>3, <1>4, FirstStays DEF Waiting
<1>7. socket[t] = "connecting" /\ ~Waiting(t) => FirstIs(t, "connect", "operation_aborted")'
  BY <1>6, CompletionTypes DEF AbortedByCancel, AbortedConnect, AbortedTimer, TrackedInv,
     IsOpen, FirstIs, Waiting, First
<1>8. ~Waiting(t) => ~FirstIs(t, "timer", "success")'
  BY <1>6, CompletionTypes DEF AbortedByCancel, AbortedConnect, AbortedTimer, FirstIs,
     Waiting, First, Completion
<1> QED BY <1>2, <1>5, <1>7, <1>8 DEF Aborted

(* So a callback preserves what holds of every operation.                  *)
LEMMA CallbackRace ==
  ASSUME EngineInv, RaceInv, Callback \/ Cancel, UNCHANGED <<completed, activeVars, next_task>>,
         main \notin Preparing, main' \notin Preparing
  PROVE  /\ TrackedInv' /\ ConnectingInv' /\ FirstInv' /\ CancelledInv'
         /\ \A t \in Tasks :
              (socket[t] = "connecting" \/ (Waiting(t) /\ ~FirstIs(t, "timer", "operation_aborted")))
              => (socket'[t] = "connecting" \/ (Waiting(t)' /\ ~FirstIs(t, "timer", "operation_aborted")'))
         /\ cancel_requested_ => cancel_requested_'
<1> USE DEF EngineInv, TypeOK, RaceInv, activeVars, opVars, cancelVars
<1>1. CASE UNCHANGED <<cancel_requested_, socket, timer, ready>>
  BY <1>1 DEF TrackedInv, ConnectingInv, FirstInv, CancelledInv, Preparing, Started, IsOpen,
     Waiting, First, FirstIs
<1>2. CASE ~cancel_requested_ /\ Cancel
  <2>1. \A t \in Tasks : Aborted(t)
    BY <1>2, CancelAborts
  <2>2. cancel_requested_' = TRUE
    BY <1>2 DEF Cancel
  <2>3. TrackedInv'
    BY <2>1 DEF TrackedInv, Aborted, Preparing, Started
  <2>4. ConnectingInv'
    BY <2>1 DEF ConnectingInv, Aborted, IsOpen
  <2>5. FirstInv'
    BY <2>1, <2>2 DEF FirstInv, Aborted, FirstIs
  <2>6. CancelledInv'
    BY <2>1 DEF CancelledInv, Aborted
  <2>7. \A t \in Tasks :
              (socket[t] = "connecting" \/ (Waiting(t) /\ ~FirstIs(t, "timer", "operation_aborted")))
              => (socket'[t] = "connecting" \/ (Waiting(t)' /\ ~FirstIs(t, "timer", "operation_aborted")'))
    <3>1. Completion("connect", "operation_aborted") # Completion("timer", "operation_aborted")
      BY DEF Completion
    <3>2. Completion("timer", "success") # Completion("timer", "operation_aborted")
      BY DEF Completion
    <3>3. \A t \in Tasks : socket[t] = "connecting" /\ Waiting(t) => First(t) = Completion("timer", "success")
      BY DEF ConnectingInv, Waiting, First
    <3> QED BY <2>1, <3>1, <3>2, <3>3 DEF Aborted, FirstIs
  <2> QED BY <2>2, <2>3, <2>4, <2>5, <2>6, <2>7
<1> QED BY <1>1, <1>2 DEF Callback, Cancel

(* OnTaskComplete and OnTaskCompleteLate.                                  *)
LEMMA OnTaskCompleteRace ==
  ASSUME EngineInv, RaceInv, OnTaskComplete \/ OnTaskCompleteLate
  PROVE  RaceInv'
<1> USE DEF EngineInv, TypeOK
<1>1. /\ main = "on_task_complete" /\ main' \notin Preparing \cup Ended \cup {"on_task_complete", "threw"}
      /\ UNCHANGED <<completed, active_sockets_, active_timers_, next_task>>
      /\ reports' = [reports EXCEPT ![current] = @ + 1]
      /\ (Callback \/ UNCHANGED <<cancelVars, socket, timer, ready>>)
  BY DEF OnTaskComplete, OnTaskCompleteLate, OpReported, Resume, Preparing, Ended, activeVars,
     opVars
<1>2. current \in Unreported
  BY <1>1 DEF ControlInv, Unreported
<1>3. Unreported' \subseteq Unreported \ {current}
  BY <1>1, <1>2, UnreportedTasks DEF Unreported, Started, ThreadTypeOK
<1>4. /\ TrackedInv' /\ ConnectingInv' /\ FirstInv' /\ CancelledInv'
      /\ \A t \in Tasks :
           (socket[t] = "connecting" \/ (Waiting(t) /\ ~FirstIs(t, "timer", "operation_aborted")))
           => (socket'[t] = "connecting" \/ (Waiting(t)' /\ ~FirstIs(t, "timer", "operation_aborted")'))
  <2>1. CASE Callback
    BY <1>1, <2>1, CallbackRace DEF Preparing, activeVars
  <2>2. CASE UNCHANGED <<cancelVars, socket, timer, ready>>
    BY <1>1, <2>2, CallbackRace DEF Callback, Preparing, activeVars
  <2> QED BY <1>1, <2>1, <2>2
<1>5. PendingInv'
  BY <1>1, <1>3, <1>4, UnreportedTasks DEF RaceInv, PendingInv, Preparing
<1>6. ThrowInv' /\ VerdictInv'
  BY <1>1 DEF ThrowInv, VerdictInv, FilteredMeansTimeout
<1> QED BY <1>4, <1>5, <1>6 DEF RaceInv

(* FinalizeIncompleteHosts and CancelBeforeRun.                            *)
LEMMA CancelRace ==
  ASSUME EngineInv, RaceInv, FinalizeIncompleteHosts \/ CancelBeforeRun
  PROVE  RaceInv'
<1> USE DEF EngineInv, TypeOK
<1>1. /\ main \in {"idle", "finalize_incomplete_hosts"}
      /\ main = "idle" => main' = "idle"
      /\ main # "idle" => main' = "returned"
      /\ UNCHANGED <<completed, active_sockets_, active_timers_, next_task, reports>>
      /\ (Callback \/ Cancel)
  BY DEF FinalizeIncompleteHosts, CancelBeforeRun, activeVars, queueVars, hostVars,
     threadVars, Callback
<1>2. Unreported' = Unreported
  BY <1>1 DEF Unreported, Started
<1>3. /\ TrackedInv' /\ ConnectingInv' /\ FirstInv' /\ CancelledInv'
      /\ \A t \in Tasks :
           (socket[t] = "connecting" \/ (Waiting(t) /\ ~FirstIs(t, "timer", "operation_aborted")))
           => (socket'[t] = "connecting" \/ (Waiting(t)' /\ ~FirstIs(t, "timer", "operation_aborted")'))
  BY <1>1, CallbackRace DEF Preparing, activeVars
<1>4. PendingInv'
  BY <1>1, <1>2, <1>3, UnreportedTasks DEF RaceInv, PendingInv, Preparing, Ended
<1>5. ThrowInv' /\ VerdictInv'
  BY <1>1 DEF ThrowInv, VerdictInv, FilteredMeansTimeout
<1> QED BY <1>3, <1>4, <1>5 DEF RaceInv

----------------------------------------------------------------------------
(* The theorems                                                            *)

(* Every step preserves the invariant.                                     *)
LEMMA RaceNext ==
  ASSUME EngineInv, UncancelledInv, RaceInv, [Next]_vars
  PROVE  RaceInv'
<1>1. CASE Starting
  BY <1>1, QuietRace DEF Starting
<1>2. CASE Scheduling
  BY <1>2, QuietRace, ScheduleNextTaskRace, TrackOperationRace, ResolveFailsRace,
     AsyncConnectRace, AsyncWaitRace DEF Scheduling
<1>3. ASSUME NEW t \in Tasks, Handler(t) PROVE RaceInv'
  BY <1>3, LateHandlerRace, ConnectHandlerRace, TimerHandlerRace, TimerHandlerNoReportRace DEF
     Handler
<1>4. CASE Completing
  BY <1>4, OnTaskCompleteRace DEF Completing
<1>5. CASE Ending
  BY <1>5, QuietRace, CancelRace DEF Ending
<1>6. CASE Network
  BY <1>6, TimerExpiresRace, NextEndpointRefusedRace, ConnectAnsweredRace DEF Network
<1>7. CASE CancelBeforeRun
  BY <1>7, CancelRace
<1>8. CASE UNCHANGED vars
  BY <1>8, QuietRace
<1> QED
  BY <1>1, <1>2, <1>3, <1>4, <1>5, <1>6, <1>7, <1>8 DEF Next, ThreadStep, Terminating

(* It holds initially.                                                     *)
LEMMA RaceInit == Init => RaceInv
<1> SUFFICES ASSUME Init PROVE RaceInv
  OBVIOUS
<1>1. TrackedInv /\ ConnectingInv
  BY DEF Init, TrackedInv, ConnectingInv, Preparing, IsOpen
<1>2. FirstInv /\ CancelledInv
  BY DEF Init, FirstInv, FirstIs, Waiting, CancelledInv
<1>3. Unreported = {}
  BY DEF Init, Unreported, Started
<1>4. PendingInv /\ ThrowInv /\ VerdictInv
  BY <1>3 DEF Init, PendingInv, ThrowInv, VerdictInv, FilteredMeansTimeout, Ended
<1> QED BY <1>1, <1>2, <1>4 DEF RaceInv

(* The invariant of the races holds in every reachable state.              *)
LEMMA RaceInvariant == Spec => [](EngineInv /\ RaceInv)
<1>1. Init => UncancelledInv
  BY DEF Init, UncancelledInv
<1>2. UncancelledInv /\ [Next]_vars => UncancelledInv'
  BY UncancelledNext
<1>3. EngineInv /\ UncancelledInv /\ RaceInv /\ [Next]_vars => RaceInv'
  BY RaceNext
<1> QED BY <1>1, <1>2, <1>3, RaceInit, EngineInvariant, PTL DEF Spec

(* No attempt can hang: in the event loop every connecting socket has a    *)
(* timer that is to expire, or whose expiry is the next completion of its  *)
(* operation.                                                              *)
THEOREM ConnectsTimeOut == Spec => []TimeoutBacked
<1>1. RaceInv => TimeoutBacked
  BY DEF RaceInv, ConnectingInv, TimeoutBacked
<1> QED BY <1>1, RaceInvariant, PTL

(* After a cancellation nothing but queued completions keeps run() from    *)
(* returning.                                                              *)
THEOREM CancelDrains == Spec => []CancelLeavesNothingPending
<1>1. RaceInv => CancelLeavesNothingPending
  BY DEF RaceInv, CancelledInv, CancelLeavesNothingPending
<1> QED BY <1>1, RaceInvariant, PTL

(* Where the system refuses no socket, run() throws only when the scan was *)
(* cancelled: without cancel() an expiry that finds its operation          *)
(* undecided finds the socket open.                                        *)
THEOREM ThrowsAreCancels ==
  ASSUME ~OpenMayFail
  PROVE  Spec => []ThrowsOnlyIfCancelled
<1>1. RaceInv => ThrowsOnlyIfCancelled
  BY DEF RaceInv, ThrowInv, ThrowsOnlyIfCancelled
<1> QED BY <1>1, RaceInvariant, PTL

(* When run() returns, cancelled or not, every operation that was started  *)
(* has reported, exactly once.                                             *)
THEOREM EveryStartReports == Spec => []StartedPortsReported
<1>1. EngineInv /\ RaceInv => StartedPortsReported
  <2> SUFFICES ASSUME EngineInv, RaceInv, main = "returned", NEW t \in Started
               PROVE  reports[t] = 1
    BY DEF StartedPortsReported
  <2>1. reports[t] # 0
    BY DEF RaceInv, PendingInv, Ended, Unreported
  <2>2. t \in Tasks
    BY ConfigFacts DEF EngineInv, TypeOK, ThreadTypeOK, Started, Tasks
  <2> QED BY <2>1, <2>2 DEF EngineInv, OperationInv
<1> QED BY <1>1, RaceInvariant, PTL

(* Where the system refuses no socket, a port reported Filtered is one     *)
(* whose timer expired.                                                    *)
THEOREM FilteredTimedOut ==
  ASSUME ~OpenMayFail
  PROVE  Spec => []FilteredMeansTimeout
<1>1. RaceInv => FilteredMeansTimeout
  BY DEF RaceInv, VerdictInv
<1> QED BY <1>1, RaceInvariant, PTL

=============================================================================
