--------------------------- MODULE ScannerProofs ---------------------------
(***************************************************************************)
(* Theorems about the scan engine, for every list of targets and ports,    *)
(* with or without repetitions, every window and every behaviour of        *)
(* resolver, network and callbacks.                                        *)
(***************************************************************************)
EXTENDS ScannerProperties, FiniteSetTheorems, TLAPS

----------------------------------------------------------------------------
(* The task queue                                                          *)

(* The quotient of a task's index is the index of a target.                *)
LEMMA QuotientBound ==
  ASSUME NEW m \in Nat, NEW n \in Nat \ {0}, NEW k \in 0 .. (m * n - 1)
  PROVE  k \div n \in 0 .. (m - 1) /\ k % n \in 0 .. (n - 1)
<1>1. k = n * (k \div n) + (k % n) /\ k % n \in 0 .. (n - 1) /\ k \div n \in Int
  OBVIOUS
<1>2. k \div n >= 0
  OBVIOUS
<1>3. k \div n < m
  <2>1. SUFFICES ASSUME k \div n >= m PROVE FALSE
    BY <1>1
  <2>2. n * (k \div n) >= n * m
    BY <2>1, <1>1
  <2> QED BY <2>2, <1>1
<1> QED BY <1>1, <1>2, <1>3

(* What the assumption says of the sizes.                                  *)
LEMMA ConfigFacts ==
  /\ Len(targets) \in Nat \ {0} /\ Len(ports) \in Nat \ {0}
  /\ NumTasks \in Nat /\ BatchSize \in Nat
  /\ max_concurrency \in Nat /\ BatchSize <= max_concurrency
<1>1. Len(targets) \in Nat \ {0} /\ Len(ports) \in Nat \ {0}
  BY ScanAssumption DEF ConfigAccepted
<1>2. NumTasks \in Nat
  BY <1>1 DEF NumTasks
<1> QED BY <1>1, <1>2, ScanAssumption DEF BatchSize

(* Every task is for a requested host and a requested port.                *)
LEMMA TaskFacts ==
  ASSUME NEW t \in Tasks
  PROVE  TaskHost(t) \in Hosts /\ TaskPort(t) \in Ports
<1>1. t - 1 \in 0 .. (Len(targets) * Len(ports) - 1)
  BY ConfigFacts DEF Tasks, NumTasks
<1>2. /\ (t - 1) \div Len(ports) \in 0 .. (Len(targets) - 1)
      /\ (t - 1) % Len(ports) \in 0 .. (Len(ports) - 1)
  BY <1>1, ConfigFacts, QuotientBound
<1>3. /\ ((t - 1) \div Len(ports)) + 1 \in DOMAIN targets
      /\ ((t - 1) % Len(ports)) + 1 \in DOMAIN ports
  BY <1>2, ScanAssumption, ConfigFacts
<1> QED BY <1>3 DEF TaskHost, TaskPort, Hosts, Ports

----------------------------------------------------------------------------
(* The effects of closing sockets, cancelling timers and finalizing hosts  *)

(* The completions that are queued are completions.                        *)
LEMMA CompletionTypes ==
  /\ Completion("connect", "operation_aborted") \in Completions
  /\ Completion("timer", "operation_aborted") \in Completions
  /\ Completion("timer", "success") \in Completions
  /\ Completion("connect", "other") \in Completions
  /\ \A ec \in Answers : Completion("connect", ec) \in Completions
BY ScanAssumption DEF Completion, Completions

(* close() and cancel() keep the types of what they change.                *)
LEMMA EffectTypes ==
  ASSUME OperationTypeOK, NEW S
  PROVE  /\ Closed(S) \in [Tasks -> {"unopened", "connecting", "answered", "closed"}]
         /\ Disarmed(S) \in [Tasks -> {"unarmed", "armed", "expired", "cancelled"}]
         /\ \A t \in Tasks : AbortedConnect(S, t) \in Seq(Completions)
         /\ \A t \in Tasks : AbortedTimer(S, t) \in Seq(Completions)
<1>1. Closed(S) \in [Tasks -> {"unopened", "connecting", "answered", "closed"}]
  BY DEF OperationTypeOK, Closed
<1>2. Disarmed(S) \in [Tasks -> {"unarmed", "armed", "expired", "cancelled"}]
  BY DEF OperationTypeOK, Disarmed
<1>3. ASSUME NEW t \in Tasks
      PROVE  AbortedConnect(S, t) \in Seq(Completions) /\ AbortedTimer(S, t) \in Seq(Completions)
  BY CompletionTypes DEF AbortedConnect, AbortedTimer
<1> QED BY <1>1, <1>2, <1>3

(* What the other steps rely on when a callback may have cancelled: types  *)
(* are kept, an untouched operation stays untouched, no socket is opened.  *)
LEMMA CallbackFacts ==
  ASSUME OperationTypeOK, ThreadTypeOK,
         Callback \/ Cancel \/ UNCHANGED <<cancelVars, socket, timer, ready>>
  PROVE  /\ cancel_requested_' \in BOOLEAN /\ posted' \in BOOLEAN
         /\ socket' \in [Tasks -> {"unopened", "connecting", "answered", "closed"}]
         /\ timer' \in [Tasks -> {"unarmed", "armed", "expired", "cancelled"}]
         /\ ready' \in [Tasks -> Seq(Completions)]
         /\ \A t \in Tasks : Untouched(t) => Untouched(t)'
         /\ \A t \in Tasks : ~IsOpen(t) => ~IsOpen(t)'
<1>1. CASE UNCHANGED <<cancelVars, socket, timer, ready>>
  BY <1>1 DEF OperationTypeOK, ThreadTypeOK, cancelVars, Untouched, IsOpen
<1>2. CASE Cancel /\ cancel_requested_
  BY <1>2 DEF Cancel, OperationTypeOK, ThreadTypeOK, Untouched, IsOpen
<1>3. CASE Cancel /\ ~cancel_requested_
  <2>1. /\ cancel_requested_' \in BOOLEAN /\ posted' \in BOOLEAN
        /\ socket' = Closed(active_sockets_)
        /\ timer' = Disarmed(active_timers_)
        /\ ready' = [t \in Tasks |-> ready[t] \o AbortedByCancel(t)]
    BY <1>3 DEF Cancel
  <2>2. ASSUME NEW t \in Tasks PROVE AbortedByCancel(t) \in Seq(Completions)
    <3>1. AbortedConnect(active_sockets_, t) \in Seq(Completions)
      BY EffectTypes
    <3>2. AbortedTimer(active_timers_, t) \in Seq(Completions)
      BY EffectTypes
    <3> QED BY <3>1, <3>2 DEF AbortedByCancel
  <2>3. ready' \in [Tasks -> Seq(Completions)]
    BY <2>1, <2>2 DEF OperationTypeOK
  <2>4. ASSUME NEW t \in Tasks, Untouched(t) PROVE Untouched(t)'
    <3>1. socket'[t] = "unopened" /\ timer'[t] = "unarmed"
      BY <2>1, <2>4 DEF Untouched, Closed, Disarmed, IsOpen
    <3>2. AbortedByCancel(t) = << >>
      BY <2>4 DEF Untouched, AbortedByCancel, AbortedConnect, AbortedTimer
    <3> QED BY <2>1, <2>4, <3>1, <3>2 DEF Untouched
  <2>5. ASSUME NEW t \in Tasks, ~IsOpen(t) PROVE ~IsOpen(t)'
    BY <2>1, <2>5 DEF IsOpen, Closed
  <2> QED BY <2>1, <2>3, <2>4, <2>5, EffectTypes
<1> QED BY <1>1, <1>2, <1>3 DEF Callback

(* Finalizing hosts keeps the types of the map and of the completed list.  *)
LEMMA FinalizeTypes ==
  ASSUME NEW states, IsHostMap(states), NEW H \in SUBSET DOMAIN states,
         completed_hosts_ \in [Hosts -> Seq(Seq(Results))]
  PROVE  /\ Finalized(H, states) \in [Hosts -> Seq(Seq(Results))]
         /\ IsHostMap(Without(states, H))
         /\ DOMAIN Without(states, H) = DOMAIN states \ H
<1>1. \A h \in H : states[h].ports \in Seq(Results)
  BY DEF IsHostMap
<1>2. Finalized(H, states) \in [Hosts -> Seq(Seq(Results))]
  BY <1>1 DEF Finalized
<1>3. DOMAIN Without(states, H) = DOMAIN states \ H
  BY DEF Without
<1>4. IsHostMap(Without(states, H))
  BY DEF IsHostMap, Without
<1> QED BY <1>2, <1>3, <1>4

(* The hosts an idle cancelled engine finalizes are hosts of its map.      *)
LEMMA IdleHostsInMap == \A states : IdleHosts(states) \in SUBSET DOMAIN states
BY DEF IdleHosts

(* A step that adds results to the map's hosts and finalizes the hosts H.  *)
MovesHosts(states, H) ==
  /\ IsHostMap(states) /\ DOMAIN states = DOMAIN host_states_
  /\ H \in SUBSET DOMAIN states
  /\ completed_hosts_' = Finalized(H, states)
  /\ host_states_' = Without(states, H)

(* Such a step keeps the types.                                            *)
LEMMA MovesType ==
  ASSUME HostTypeOK, NEW states, NEW H, MovesHosts(states, H)
  PROVE  HostTypeOK'
<1>1. /\ Finalized(H, states) \in [Hosts -> Seq(Seq(Results))]
      /\ IsHostMap(Without(states, H))
  BY FinalizeTypes DEF HostTypeOK, MovesHosts
<1> QED BY <1>1 DEF HostTypeOK, IsHostMap, MovesHosts

(* The map with the current task's result, and the hosts then finalized.   *)
Updated ==
  [host_states_ EXCEPT ![TaskHost(current)] =
     [ports |-> Append(host_states_[TaskHost(current)].ports,
                       PortResult(TaskPort(current), result)),
      pending_ports |-> host_states_[TaskHost(current)].pending_ports - 1]]
Finishing ==
  {h \in {TaskHost(current)} : HostDone(Updated[h])} \cup IdleHosts(Updated)

(* The result on_task_complete appends has its type.                       *)
LEMMA OnTaskCompleteMoves ==
  ASSUME EngineInv, OnTaskComplete
  PROVE  MovesHosts(Updated, Finishing)
<1> DEFINE host == TaskHost(current)
           entry == [ports |-> Append(host_states_[host].ports,
                                      PortResult(TaskPort(current), result)),
                     pending_ports |-> host_states_[host].pending_ports - 1]
<1>1. current \in Tasks
  BY DEF EngineInv, TypeOK, OnTaskComplete, ControlInv, Started, ThreadTypeOK, Tasks
<1>2. host \in DOMAIN host_states_
  BY DEF OnTaskComplete
<1>3. PortResult(TaskPort(current), result) \in Results
  BY <1>1, TaskFacts DEF Results, EngineInv, TypeOK, ThreadTypeOK
<1>4. entry \in [ports : Seq(Results), pending_ports : Int]
  BY <1>2, <1>3 DEF EngineInv, TypeOK, HostTypeOK, IsHostMap
<1>5. IsHostMap(Updated) /\ DOMAIN Updated = DOMAIN host_states_
  BY <1>2, <1>4 DEF EngineInv, TypeOK, HostTypeOK, IsHostMap, Updated
<1>6. Finishing \in SUBSET DOMAIN Updated
  BY <1>2, <1>5, IdleHostsInMap DEF Finishing
<1>7. completed_hosts_' = Finalized(Finishing, Updated) /\ host_states_' = Without(Updated, Finishing)
  BY DEF OnTaskComplete, Updated, Finishing
<1> QED BY <1>5, <1>6, <1>7 DEF MovesHosts

(* Steps leave alone what they do not mention.                             *)
LEMMA OperationFrame ==
  ASSUME OperationTypeOK, UNCHANGED <<activeVars, opVars>>
  PROVE  OperationTypeOK'
BY DEF OperationTypeOK, activeVars, opVars

(* The map and the completed list.                                         *)
LEMMA HostFrame ==
  ASSUME HostTypeOK, UNCHANGED <<host_states_, completed_hosts_>>
  PROVE  HostTypeOK'
BY DEF HostTypeOK, IsHostMap

(* The count of operations in flight.                                      *)
LEMMA CountFrame ==
  ASSUME CountInv, UNCHANGED <<next_task, in_flight_count_, reports>>
  PROVE  CountInv'
BY DEF CountInv, Unreported, Started

(* The unreported tasks form a finite set.                                 *)
LEMMA UnreportedFinite ==
  ASSUME ThreadTypeOK
  PROVE  IsFiniteSet(Unreported) /\ Cardinality(Unreported) \in Nat
<1>1. IsFiniteSet(1 .. (next_task - 1))
  BY FS_Interval DEF ThreadTypeOK
<1>2. IsFiniteSet(Unreported)
  BY <1>1, FS_Subset DEF Unreported, Started
<1> QED BY <1>2, FS_CardinalityType

----------------------------------------------------------------------------
(* Each step preserves the invariant                                       *)

(* RunBegins.                                                              *)
LEMMA RunBeginsStep ==
  ASSUME EngineInv, RunBegins
  PROVE  EngineInv'
<1> USE DEF EngineInv, TypeOK, threadVars, queueVars, hostVars, activeVars, opVars,
    cancelVars
<1>1. ThreadTypeOK'
  BY ConfigFacts DEF ThreadTypeOK, RunBegins, Steps, ControlInv
<1>2. OperationTypeOK'
  BY OperationFrame DEF RunBegins
<1>3. HostTypeOK'
  <2>1. IsHostMap(host_states_')
    BY ConfigFacts DEF IsHostMap, RunBegins
  <2> QED BY <2>1 DEF HostTypeOK, IsHostMap, RunBegins
<1>4. ControlInv'
  BY DEF ControlInv, RunBegins, ThreadTypeOK, OperationTypeOK, Started, Untouched, IsOpen
<1>5. WindowInv'
  BY ConfigFacts DEF WindowInv, ControlInv, ThreadTypeOK, RunBegins
<1>6. OperationInv'
  BY DEF OperationInv, ControlInv, ThreadTypeOK, OperationTypeOK, RunBegins, Started,
      Untouched, IsOpen
<1>7. CountInv'
  BY CountFrame DEF RunBegins
<1> QED BY <1>1, <1>2, <1>3, <1>4, <1>5, <1>6, <1>7

(* ScheduleInitialBatch.                                                   *)
LEMMA ScheduleInitialBatchStep ==
  ASSUME EngineInv, ScheduleInitialBatch
  PROVE  EngineInv'
<1> USE DEF EngineInv, TypeOK, threadVars, queueVars, hostVars, activeVars, opVars,
    cancelVars
<1>1. ThreadTypeOK'
  BY ConfigFacts DEF ThreadTypeOK, ScheduleInitialBatch, Steps, ControlInv
<1>2. OperationTypeOK'
  BY OperationFrame DEF ScheduleInitialBatch
<1>3. HostTypeOK'
  BY HostFrame DEF ScheduleInitialBatch
<1>4. ControlInv'
  BY DEF ControlInv, ScheduleInitialBatch, ThreadTypeOK, OperationTypeOK, Started,
      Untouched, IsOpen
<1>5. WindowInv'
  BY ConfigFacts DEF WindowInv, ControlInv, ThreadTypeOK, ScheduleInitialBatch
<1>6. OperationInv'
  BY DEF OperationInv, ControlInv, ThreadTypeOK, OperationTypeOK, ScheduleInitialBatch,
      Started, Untouched, IsOpen
<1>7. CountInv'
  BY CountFrame DEF ScheduleInitialBatch
<1> QED BY <1>1, <1>2, <1>3, <1>4, <1>5, <1>6, <1>7

(* ScheduleNothing.                                                        *)
LEMMA ScheduleNothingStep ==
  ASSUME EngineInv, ScheduleNothing
  PROVE  EngineInv'
<1> USE DEF EngineInv, TypeOK, threadVars, queueVars, hostVars, activeVars, opVars,
    cancelVars
<1>1. ThreadTypeOK'
  BY ConfigFacts DEF ThreadTypeOK, ScheduleNothing, Steps, Resume
<1>2. OperationTypeOK'
  BY OperationFrame DEF ScheduleNothing
<1>3. HostTypeOK'
  BY HostFrame DEF ScheduleNothing
<1>4. ControlInv'
  BY DEF ControlInv, ScheduleNothing, ThreadTypeOK, OperationTypeOK, Started, Untouched,
      IsOpen, Resume
<1>5. WindowInv'
  BY ConfigFacts DEF WindowInv, ControlInv, ThreadTypeOK, ScheduleNothing, Resume
<1>6. OperationInv'
  BY DEF OperationInv, ControlInv, ThreadTypeOK, OperationTypeOK, ScheduleNothing,
      Started, Untouched, IsOpen
<1>7. CountInv'
  BY CountFrame DEF ScheduleNothing
<1> QED BY <1>1, <1>2, <1>3, <1>4, <1>5, <1>6, <1>7

(* ScheduleNextTask.                                                       *)
LEMMA ScheduleNextTaskStep ==
  ASSUME EngineInv, ScheduleNextTask
  PROVE  EngineInv'
<1> USE DEF EngineInv, TypeOK, threadVars, queueVars, hostVars, activeVars, opVars,
    cancelVars
<1>a. next_task \in Tasks /\ next_task \notin Started /\ next_task \in Started'
  BY ConfigFacts DEF ThreadTypeOK, ScheduleNextTask, MaySchedule, QueueEmpty, Tasks, Started
<1>b. reports[next_task] = 0 /\ Untouched(next_task)
  BY <1>a DEF OperationInv
<1>1. ThreadTypeOK'
  BY ConfigFacts DEF ThreadTypeOK, ScheduleNextTask, Steps, MaySchedule, QueueEmpty
<1>2. OperationTypeOK'
  BY OperationFrame DEF ScheduleNextTask
<1>3. HostTypeOK'
  BY HostFrame DEF ScheduleNextTask
<1>4. ControlInv'
  BY <1>a, <1>b DEF ControlInv, ScheduleNextTask, Untouched
<1>5. WindowInv'
  BY ConfigFacts DEF WindowInv, ControlInv, ThreadTypeOK, ScheduleNextTask
<1>6. OperationInv'
  BY DEF OperationInv, ControlInv, ThreadTypeOK, OperationTypeOK, ScheduleNextTask,
      Started, Untouched, IsOpen, Tasks
<1>7. CountInv'
  <2>1. Unreported' = Unreported \cup {next_task} /\ next_task \notin Unreported
    BY <1>a, <1>b DEF Unreported, Started, ScheduleNextTask, ThreadTypeOK
  <2>2. Cardinality(Unreported') = Cardinality(Unreported) + 1
    BY <2>1, UnreportedFinite, FS_AddElement
  <2> QED BY <2>2 DEF CountInv, ScheduleNextTask
<1> QED BY <1>1, <1>2, <1>3, <1>4, <1>5, <1>6, <1>7

(* TrackOperation.                                                         *)
LEMMA TrackOperationStep ==
  ASSUME EngineInv, TrackOperation
  PROVE  EngineInv'
<1> USE DEF EngineInv, TypeOK, threadVars, queueVars, hostVars, activeVars, opVars,
    cancelVars
<1>1. ThreadTypeOK'
  BY ConfigFacts DEF ThreadTypeOK, TrackOperation, Steps
<1>2. OperationTypeOK'
  BY DEF OperationTypeOK, TrackOperation, ControlInv, Started, ThreadTypeOK, Tasks
<1>3. HostTypeOK'
  BY HostFrame DEF TrackOperation
<1>4. ControlInv'
  BY DEF ControlInv, TrackOperation, ThreadTypeOK, OperationTypeOK, Started, Untouched,
      IsOpen
<1>5. WindowInv'
  BY ConfigFacts DEF WindowInv, ControlInv, ThreadTypeOK, TrackOperation
<1>6. OperationInv'
  BY DEF OperationInv, ControlInv, ThreadTypeOK, OperationTypeOK, TrackOperation,
      Started, Untouched, IsOpen
<1>7. CountInv'
  BY CountFrame DEF TrackOperation
<1> QED BY <1>1, <1>2, <1>3, <1>4, <1>5, <1>6, <1>7

(* ResolveFails.                                                           *)
LEMMA ResolveFailsStep ==
  ASSUME EngineInv, ResolveFails
  PROVE  EngineInv'
<1> USE DEF EngineInv, TypeOK, threadVars, queueVars, hostVars, activeVars, opVars,
    cancelVars
<1>1. ThreadTypeOK'
  BY ConfigFacts DEF ThreadTypeOK, ResolveFails, Steps, Verdicts, Verdict
<1>2. OperationTypeOK'
  BY OperationFrame DEF ResolveFails
<1>3. HostTypeOK'
  BY HostFrame DEF ResolveFails
<1>4. ControlInv'
  BY DEF ControlInv, ResolveFails, ThreadTypeOK, OperationTypeOK, Started, Untouched, IsOpen
<1>5. WindowInv'
  BY ConfigFacts DEF WindowInv, ControlInv, ThreadTypeOK, ResolveFails
<1>6. OperationInv'
  BY DEF OperationInv, ControlInv, ThreadTypeOK, OperationTypeOK, ResolveFails, Started,
      Untouched, IsOpen
<1>7. CountInv'
  BY CountFrame DEF ResolveFails
<1> QED BY <1>1, <1>2, <1>3, <1>4, <1>5, <1>6, <1>7

(* AsyncConnect.                                                           *)
LEMMA AsyncConnectStep ==
  ASSUME EngineInv, AsyncConnect
  PROVE  EngineInv'
<1> USE DEF EngineInv, TypeOK, threadVars, queueVars, hostVars, activeVars, opVars,
    cancelVars
<1>1. ThreadTypeOK'
  BY ConfigFacts DEF ThreadTypeOK, AsyncConnect, Steps
<1>2. OperationTypeOK'
  <2>1. Append(ready[current], Completion("connect", "other")) \in Seq(Completions)
    BY CompletionTypes DEF OperationTypeOK, ControlInv, AsyncConnect, Started,
        ThreadTypeOK, Tasks
  <2>2. ready' \in [Tasks -> Seq(Completions)]
    BY <2>1 DEF OperationTypeOK, AsyncConnect
  <2> QED BY <2>2 DEF OperationTypeOK, AsyncConnect
<1>3. HostTypeOK'
  BY HostFrame DEF AsyncConnect
<1>4. ControlInv'
  BY DEF ControlInv, AsyncConnect, ThreadTypeOK, OperationTypeOK, Started, Untouched, IsOpen
<1>5. WindowInv'
  BY ConfigFacts DEF WindowInv, ControlInv, ThreadTypeOK, AsyncConnect
<1>6. OperationInv'
  BY DEF OperationInv, ControlInv, ThreadTypeOK, OperationTypeOK, AsyncConnect, Started,
      Untouched, IsOpen
<1>7. CountInv'
  BY CountFrame DEF AsyncConnect
<1> QED BY <1>1, <1>2, <1>3, <1>4, <1>5, <1>6, <1>7

(* AsyncWait.                                                              *)
LEMMA AsyncWaitStep ==
  ASSUME EngineInv, AsyncWait
  PROVE  EngineInv'
<1> USE DEF EngineInv, TypeOK, threadVars, queueVars, hostVars, activeVars, opVars,
    cancelVars
<1>1. ThreadTypeOK'
  BY ConfigFacts DEF ThreadTypeOK, AsyncWait, Steps, Resume
<1>2. OperationTypeOK'
  BY DEF OperationTypeOK, AsyncWait, ArmTimer
<1>3. HostTypeOK'
  BY HostFrame DEF AsyncWait
<1>4. ControlInv'
  BY DEF ControlInv, AsyncWait, ThreadTypeOK, OperationTypeOK, Started, Untouched,
      IsOpen, Resume
<1>5. WindowInv'
  BY ConfigFacts DEF WindowInv, ControlInv, ThreadTypeOK, AsyncWait, Resume
<1>6. OperationInv'
  BY DEF OperationInv, ControlInv, ThreadTypeOK, OperationTypeOK, AsyncWait, Started,
      Untouched, IsOpen, ArmTimer
<1>7. CountInv'
  BY CountFrame DEF AsyncWait
<1> QED BY <1>1, <1>2, <1>3, <1>4, <1>5, <1>6, <1>7

(* LateHandler.                                                            *)
LEMMA LateHandlerStep ==
  ASSUME EngineInv, NEW t \in Tasks, LateHandler(t)
  PROVE  EngineInv'
<1> USE DEF EngineInv, TypeOK, threadVars, queueVars, hostVars, activeVars, opVars,
    cancelVars
<1>1. ThreadTypeOK'
  BY ConfigFacts DEF ThreadTypeOK, LateHandler, Steps
<1>2. OperationTypeOK'
  BY DEF OperationTypeOK, LateHandler
<1>3. HostTypeOK'
  BY HostFrame DEF LateHandler
<1>4. ControlInv'
  BY DEF ControlInv, LateHandler, ThreadTypeOK, OperationTypeOK, Started, Untouched, IsOpen
<1>5. WindowInv'
  BY ConfigFacts DEF WindowInv, ControlInv, ThreadTypeOK, LateHandler
<1>6. OperationInv'
  BY DEF OperationInv, ControlInv, ThreadTypeOK, OperationTypeOK, LateHandler, Started,
      Untouched, IsOpen
<1>7. CountInv'
  BY CountFrame DEF LateHandler
<1> QED BY <1>1, <1>2, <1>3, <1>4, <1>5, <1>6, <1>7

(* ConnectHandler.                                                         *)
LEMMA ConnectHandlerStep ==
  ASSUME EngineInv, NEW t \in Tasks, ConnectHandler(t)
  PROVE  EngineInv'
<1> USE DEF EngineInv, TypeOK, threadVars, queueVars, hostVars, activeVars, opVars,
    cancelVars
<1>1. ThreadTypeOK'
  <2>1. current' \in 0 .. NumTasks
    BY ConfigFacts DEF ConnectHandler, Tasks
  <2>2. result' \in Verdicts
    BY DEF ConnectHandler, Classified, Verdict, Verdicts
  <2> QED BY <2>1, <2>2 DEF ThreadTypeOK, ConnectHandler, Steps
<1>2. OperationTypeOK'
  <2>1. Tail(ready[t]) \in Seq(Completions) /\ AbortedTimer({t}, t) \in Seq(Completions)
    BY EffectTypes DEF OperationTypeOK, ConnectHandler, Dispatches
  <2>2. ready' \in [Tasks -> Seq(Completions)]
    BY <2>1 DEF OperationTypeOK, ConnectHandler
  <2> QED BY <2>2, EffectTypes DEF OperationTypeOK, ConnectHandler, MarkCompleted
<1>3. HostTypeOK'
  BY HostFrame DEF ConnectHandler
<1>4. ControlInv'
  BY DEF ControlInv, ConnectHandler, ThreadTypeOK, OperationTypeOK, Started, Untouched,
      IsOpen, Dispatches, MarkCompleted, Closed, OperationInv
<1>5. WindowInv'
  BY ConfigFacts DEF WindowInv, ControlInv, ThreadTypeOK, ConnectHandler, Dispatches,
      MarkCompleted
<1>6. OperationInv'
  BY DEF OperationInv, ControlInv, ThreadTypeOK, OperationTypeOK, ConnectHandler,
      Started, Untouched, IsOpen, Dispatches, MarkCompleted, Closed, Disarmed
<1>7. CountInv'
  BY CountFrame DEF ConnectHandler
<1> QED BY <1>1, <1>2, <1>3, <1>4, <1>5, <1>6, <1>7

(* TimerHandler.                                                           *)
LEMMA TimerHandlerStep ==
  ASSUME EngineInv, NEW t \in Tasks, TimerHandler(t)
  PROVE  EngineInv'
<1> USE DEF EngineInv, TypeOK, threadVars, queueVars, hostVars, activeVars, opVars,
    cancelVars
<1>1. ThreadTypeOK'
  <2>1. current' \in 0 .. NumTasks
    BY ConfigFacts DEF TimerHandler, Tasks
  <2>2. result' \in Verdicts
    BY DEF TimerHandler, Verdict, Verdicts
  <2> QED BY <2>1, <2>2 DEF ThreadTypeOK, TimerHandler, Steps
<1>2. OperationTypeOK'
  <2>1. Tail(ready[t]) \in Seq(Completions) /\ AbortedConnect({t}, t) \in Seq(Completions)
    BY EffectTypes DEF OperationTypeOK, TimerHandler, Dispatches
  <2>2. ready' \in [Tasks -> Seq(Completions)]
    BY <2>1 DEF OperationTypeOK, TimerHandler
  <2> QED BY <2>2, EffectTypes DEF OperationTypeOK, TimerHandler, MarkCompleted
<1>3. HostTypeOK'
  BY HostFrame DEF TimerHandler
<1>4. ControlInv'
  BY DEF ControlInv, TimerHandler, ThreadTypeOK, OperationTypeOK, Started, Untouched,
      IsOpen, Dispatches, MarkCompleted, Closed, OperationInv
<1>5. WindowInv'
  BY ConfigFacts DEF WindowInv, ControlInv, ThreadTypeOK, TimerHandler, Dispatches,
      MarkCompleted
<1>6. OperationInv'
  BY DEF OperationInv, ControlInv, ThreadTypeOK, OperationTypeOK, TimerHandler, Started,
      Untouched, IsOpen, Dispatches, MarkCompleted, Closed
<1>7. CountInv'
  BY CountFrame DEF TimerHandler
<1> QED BY <1>1, <1>2, <1>3, <1>4, <1>5, <1>6, <1>7

(* TimerHandlerNoReport.                                                   *)
LEMMA TimerHandlerNoReportStep ==
  ASSUME EngineInv, NEW t \in Tasks, TimerHandlerNoReport(t)
  PROVE  EngineInv'
<1> USE DEF EngineInv, TypeOK, threadVars, queueVars, hostVars, activeVars, opVars,
    cancelVars
<1>1. ThreadTypeOK'
  BY ConfigFacts DEF ThreadTypeOK, TimerHandlerNoReport, Steps, Dispatches
<1>2. OperationTypeOK'
  BY DEF OperationTypeOK, TimerHandlerNoReport, Dispatches, MarkCompleted
<1>3. HostTypeOK'
  BY HostFrame DEF TimerHandlerNoReport
<1>4. ControlInv'
  BY DEF ControlInv, TimerHandlerNoReport, ThreadTypeOK, OperationTypeOK, Started,
      Untouched, IsOpen, Dispatches, MarkCompleted
<1>5. WindowInv'
  BY ConfigFacts DEF WindowInv, ControlInv, ThreadTypeOK, TimerHandlerNoReport, Dispatches,
      MarkCompleted
<1>6. OperationInv'
  BY DEF OperationInv, ControlInv, ThreadTypeOK, OperationTypeOK, TimerHandlerNoReport,
      Started, Untouched, IsOpen, Dispatches, MarkCompleted
<1>7. CountInv'
  BY CountFrame DEF TimerHandlerNoReport
<1> QED BY <1>1, <1>2, <1>3, <1>4, <1>5, <1>6, <1>7

(* CancelHandler.                                                          *)
LEMMA CancelHandlerStep ==
  ASSUME EngineInv, CancelHandler
  PROVE  EngineInv'
<1> USE DEF EngineInv, TypeOK, threadVars, queueVars, hostVars, activeVars, opVars,
    cancelVars
<1>1. ThreadTypeOK'
  BY ConfigFacts DEF ThreadTypeOK, CancelHandler, Steps
<1>2. OperationTypeOK'
  BY OperationFrame DEF CancelHandler
<1>3. HostTypeOK'
  BY FinalizeTypes, IdleHostsInMap DEF HostTypeOK, CancelHandler
<1>4. ControlInv'
  BY DEF ControlInv, CancelHandler, ThreadTypeOK, OperationTypeOK, Started, Untouched,
      IsOpen
<1>5. WindowInv'
  BY ConfigFacts DEF WindowInv, ControlInv, ThreadTypeOK, CancelHandler
<1>6. OperationInv'
  BY DEF OperationInv, ControlInv, ThreadTypeOK, OperationTypeOK, CancelHandler, Started,
      Untouched, IsOpen
<1>7. CountInv'
  BY CountFrame DEF CancelHandler
<1> QED BY <1>1, <1>2, <1>3, <1>4, <1>5, <1>6, <1>7

(* IoContextReturns.                                                       *)
LEMMA IoContextReturnsStep ==
  ASSUME EngineInv, IoContextReturns
  PROVE  EngineInv'
<1> USE DEF EngineInv, TypeOK, threadVars, queueVars, hostVars, activeVars, opVars,
    cancelVars
<1>1. ThreadTypeOK'
  BY ConfigFacts DEF ThreadTypeOK, IoContextReturns, Steps
<1>2. OperationTypeOK'
  BY OperationFrame DEF IoContextReturns
<1>3. HostTypeOK'
  BY HostFrame DEF IoContextReturns
<1>4. ControlInv'
  BY DEF ControlInv, IoContextReturns, ThreadTypeOK, OperationTypeOK, Started, Untouched,
      IsOpen
<1>5. WindowInv'
  BY ConfigFacts DEF WindowInv, ControlInv, ThreadTypeOK, IoContextReturns
<1>6. OperationInv'
  BY DEF OperationInv, ControlInv, ThreadTypeOK, OperationTypeOK, IoContextReturns,
      Started, Untouched, IsOpen
<1>7. CountInv'
  BY CountFrame DEF IoContextReturns
<1> QED BY <1>1, <1>2, <1>3, <1>4, <1>5, <1>6, <1>7

(* ConnectAnswered.                                                        *)
LEMMA ConnectAnsweredStep ==
  ASSUME EngineInv, NEW t \in Tasks, NEW ec \in Answers, ConnectAnswered(t, ec)
  PROVE  EngineInv'
<1> USE DEF EngineInv, TypeOK, threadVars, queueVars, hostVars, activeVars, opVars,
    cancelVars
<1>1. ThreadTypeOK'
  BY ConfigFacts DEF ThreadTypeOK, ConnectAnswered, Steps
<1>2. OperationTypeOK'
  BY CompletionTypes DEF OperationTypeOK, ConnectAnswered
<1>3. HostTypeOK'
  BY HostFrame DEF ConnectAnswered
<1>4. ControlInv'
  BY DEF ControlInv, ConnectAnswered, ThreadTypeOK, OperationTypeOK, Started, Untouched,
      IsOpen
<1>5. WindowInv'
  BY ConfigFacts DEF WindowInv, ControlInv, ThreadTypeOK, ConnectAnswered
<1>6. OperationInv'
  BY DEF OperationInv, ControlInv, ThreadTypeOK, OperationTypeOK, ConnectAnswered,
      Started, Untouched, IsOpen
<1>7. CountInv'
  BY CountFrame DEF ConnectAnswered
<1> QED BY <1>1, <1>2, <1>3, <1>4, <1>5, <1>6, <1>7

(* NextEndpointRefused.                                                    *)
LEMMA NextEndpointRefusedStep ==
  ASSUME EngineInv, NEW t \in Tasks, NextEndpointRefused(t)
  PROVE  EngineInv'
<1> USE DEF EngineInv, TypeOK, threadVars, queueVars, hostVars, activeVars, opVars,
    cancelVars
<1>1. ThreadTypeOK'
  BY ConfigFacts DEF ThreadTypeOK, NextEndpointRefused, Steps
<1>2. OperationTypeOK'
  BY CompletionTypes DEF OperationTypeOK, NextEndpointRefused
<1>3. HostTypeOK'
  BY HostFrame DEF NextEndpointRefused
<1>4. ControlInv'
  BY DEF ControlInv, NextEndpointRefused, ThreadTypeOK, OperationTypeOK, Started, Untouched,
      IsOpen
<1>5. WindowInv'
  BY ConfigFacts DEF WindowInv, ControlInv, ThreadTypeOK, NextEndpointRefused
<1>6. OperationInv'
  BY DEF OperationInv, ControlInv, ThreadTypeOK, OperationTypeOK, NextEndpointRefused,
      Started, Untouched, IsOpen
<1>7. CountInv'
  BY CountFrame DEF NextEndpointRefused
<1> QED BY <1>1, <1>2, <1>3, <1>4, <1>5, <1>6, <1>7

(* TimerExpires.                                                           *)
LEMMA TimerExpiresStep ==
  ASSUME EngineInv, NEW t \in Tasks, TimerExpires(t)
  PROVE  EngineInv'
<1> USE DEF EngineInv, TypeOK, threadVars, queueVars, hostVars, activeVars, opVars,
    cancelVars
<1>1. ThreadTypeOK'
  BY ConfigFacts DEF ThreadTypeOK, TimerExpires, Steps
<1>2. OperationTypeOK'
  BY CompletionTypes DEF OperationTypeOK, TimerExpires
<1>3. HostTypeOK'
  BY HostFrame DEF TimerExpires
<1>4. ControlInv'
  BY DEF ControlInv, TimerExpires, ThreadTypeOK, OperationTypeOK, Started, Untouched, IsOpen
<1>5. WindowInv'
  BY ConfigFacts DEF WindowInv, ControlInv, ThreadTypeOK, TimerExpires
<1>6. OperationInv'
  BY DEF OperationInv, ControlInv, ThreadTypeOK, OperationTypeOK, TimerExpires, Started,
      Untouched, IsOpen
<1>7. CountInv'
  BY CountFrame DEF TimerExpires
<1> QED BY <1>1, <1>2, <1>3, <1>4, <1>5, <1>6, <1>7

(* OnTaskCompleteLate.                                                     *)
LEMMA OnTaskCompleteLateStep ==
  ASSUME EngineInv, OnTaskCompleteLate
  PROVE  EngineInv'
<1> USE DEF EngineInv, TypeOK, threadVars, queueVars, hostVars, activeVars, opVars,
    cancelVars
<1> DEFINE host == TaskHost(current)
<1>a. /\ main = "on_task_complete" /\ current \in Started /\ current \in Tasks
      /\ reports[current] = 0
      /\ ~IsOpen(current) /\ (completed[current] \/ Untouched(current))
  BY DEF OnTaskCompleteLate, ControlInv, Started, ThreadTypeOK, Tasks
<1>b. /\ reports' = [reports EXCEPT ![current] = 1]
      /\ in_flight_count_' = in_flight_count_ - 1
      /\ current' = 0 /\ result' = NoResult
      /\ batch_left' = batch_left /\ next_task' = next_task
      /\ completed' = completed
      /\ active_sockets_' = active_sockets_ /\ active_timers_' = active_timers_
      /\ main' \in {"schedule_initial_batch", "run", "schedule_next_task"}
      /\ main' = "schedule_initial_batch" => batch_left > 0
  BY <1>a DEF OnTaskCompleteLate, OpReported, SlotReleased, Forget, Resume, ThreadTypeOK
<1>c. /\ cancel_requested_' \in BOOLEAN /\ posted' \in BOOLEAN
      /\ socket' \in [Tasks -> {"unopened", "connecting", "answered", "closed"}]
      /\ timer' \in [Tasks -> {"unarmed", "armed", "expired", "cancelled"}]
      /\ ready' \in [Tasks -> Seq(Completions)]
      /\ \A t \in Tasks : Untouched(t) => Untouched(t)'
      /\ \A t \in Tasks : ~IsOpen(t) => ~IsOpen(t)'
  BY CallbackFacts DEF OnTaskCompleteLate
<1>1. ThreadTypeOK'
  <2>1. current' \in 0 .. NumTasks
    BY <1>b, ConfigFacts
  <2>2. result' \in Verdicts
    BY <1>b DEF NoResult, Verdicts
  <2>3. reports' \in [Tasks -> Nat]
    BY <1>b DEF ThreadTypeOK
  <2> QED BY <1>b, <1>c, <2>1, <2>2, <2>3 DEF ThreadTypeOK, Steps
<1>2. OperationTypeOK'
  BY <1>b, <1>c DEF OperationTypeOK
<1>3. HostTypeOK'
  BY FinalizeTypes, IdleHostsInMap DEF HostTypeOK, OnTaskCompleteLate
<1>4. ControlInv'
  BY <1>b DEF ControlInv
<1>5. WindowInv'
  BY <1>a, <1>b, ConfigFacts DEF WindowInv, ThreadTypeOK
<1>6. OperationInv'
  <2> SUFFICES ASSUME NEW t \in Tasks
               PROVE  /\ t \notin Started' => reports'[t] = 0 /\ Untouched(t)'
                      /\ reports'[t] # 0 =>
                           reports'[t] = 1 /\ ~IsOpen(t)' /\ (completed'[t] \/ Untouched(t)')
    BY DEF OperationInv
  <2>1. Started' = Started
    BY <1>b DEF Started
  <2>2. CASE t = current
    BY <1>a, <1>b, <1>c, <2>1, <2>2 DEF ThreadTypeOK
  <2>3. CASE t # current
    BY <1>a, <1>b, <1>c, <2>1, <2>3 DEF OperationInv, ThreadTypeOK
  <2> QED BY <2>2, <2>3
<1>7. CountInv'
  <2>1. Unreported' = Unreported \ {current} /\ current \in Unreported
    BY <1>a, <1>b DEF Unreported, Started, ThreadTypeOK, Tasks
  <2>2. Cardinality(Unreported') = Cardinality(Unreported) - 1
    BY <2>1, UnreportedFinite, FS_RemoveElement
  <2> QED BY <1>b, <2>2 DEF CountInv
<1> QED BY <1>1, <1>2, <1>3, <1>4, <1>5, <1>6, <1>7

(* OnTaskComplete.                                                         *)
LEMMA OnTaskCompleteStep ==
  ASSUME EngineInv, OnTaskComplete
  PROVE  EngineInv'
<1> USE DEF EngineInv, TypeOK, threadVars, queueVars, hostVars, activeVars, opVars,
    cancelVars
<1> DEFINE host == TaskHost(current)
<1>a. /\ main = "on_task_complete" /\ current \in Started /\ current \in Tasks
      /\ reports[current] = 0
      /\ ~IsOpen(current) /\ (completed[current] \/ Untouched(current))
  BY DEF OnTaskComplete, ControlInv, Started, ThreadTypeOK, Tasks
<1>b. /\ reports' = [reports EXCEPT ![current] = 1]
      /\ in_flight_count_' = in_flight_count_ - 1
      /\ current' = 0 /\ result' = NoResult
      /\ batch_left' = batch_left /\ next_task' = next_task
      /\ completed' = completed
      /\ active_sockets_' = active_sockets_ /\ active_timers_' = active_timers_
      /\ main' \in {"schedule_initial_batch", "run", "schedule_next_task"}
      /\ main' = "schedule_initial_batch" => batch_left > 0
  BY <1>a DEF OnTaskComplete, OpReported, SlotReleased, Forget, Resume, ThreadTypeOK
<1>c. /\ cancel_requested_' \in BOOLEAN /\ posted' \in BOOLEAN
      /\ socket' \in [Tasks -> {"unopened", "connecting", "answered", "closed"}]
      /\ timer' \in [Tasks -> {"unarmed", "armed", "expired", "cancelled"}]
      /\ ready' \in [Tasks -> Seq(Completions)]
      /\ \A t \in Tasks : Untouched(t) => Untouched(t)'
      /\ \A t \in Tasks : ~IsOpen(t) => ~IsOpen(t)'
  BY CallbackFacts DEF OnTaskComplete
<1>1. ThreadTypeOK'
  <2>1. current' \in 0 .. NumTasks
    BY <1>b, ConfigFacts
  <2>2. result' \in Verdicts
    BY <1>b DEF NoResult, Verdicts
  <2>3. reports' \in [Tasks -> Nat]
    BY <1>b DEF ThreadTypeOK
  <2> QED BY <1>b, <1>c, <2>1, <2>2, <2>3 DEF ThreadTypeOK, Steps
<1>2. OperationTypeOK'
  BY <1>b, <1>c DEF OperationTypeOK
<1>3. HostTypeOK'
  BY OnTaskCompleteMoves, MovesType
<1>4. ControlInv'
  BY <1>b DEF ControlInv
<1>5. WindowInv'
  BY <1>a, <1>b, ConfigFacts DEF WindowInv, ThreadTypeOK
<1>6. OperationInv'
  <2> SUFFICES ASSUME NEW t \in Tasks
               PROVE  /\ t \notin Started' => reports'[t] = 0 /\ Untouched(t)'
                      /\ reports'[t] # 0 =>
                           reports'[t] = 1 /\ ~IsOpen(t)' /\ (completed'[t] \/ Untouched(t)')
    BY DEF OperationInv
  <2>1. Started' = Started
    BY <1>b DEF Started
  <2>2. CASE t = current
    BY <1>a, <1>b, <1>c, <2>1, <2>2 DEF ThreadTypeOK
  <2>3. CASE t # current
    BY <1>a, <1>b, <1>c, <2>1, <2>3 DEF OperationInv, ThreadTypeOK
  <2> QED BY <2>2, <2>3
<1>7. CountInv'
  <2>1. Unreported' = Unreported \ {current} /\ current \in Unreported
    BY <1>a, <1>b DEF Unreported, Started, ThreadTypeOK, Tasks
  <2>2. Cardinality(Unreported') = Cardinality(Unreported) - 1
    BY <2>1, UnreportedFinite, FS_RemoveElement
  <2> QED BY <1>b, <2>2 DEF CountInv
<1> QED BY <1>1, <1>2, <1>3, <1>4, <1>5, <1>6, <1>7

(* CancelBeforeRun.                                                        *)
LEMMA CancelBeforeRunStep ==
  ASSUME EngineInv, CancelBeforeRun
  PROVE  EngineInv'
<1> USE DEF EngineInv, TypeOK, threadVars, queueVars, hostVars, activeVars, opVars,
    cancelVars
<1>a. /\ cancel_requested_' \in BOOLEAN /\ posted' \in BOOLEAN
      /\ socket' \in [Tasks -> {"unopened", "connecting", "answered", "closed"}]
      /\ timer' \in [Tasks -> {"unarmed", "armed", "expired", "cancelled"}]
      /\ ready' \in [Tasks -> Seq(Completions)]
      /\ \A t \in Tasks : Untouched(t) => Untouched(t)'
      /\ \A t \in Tasks : ~IsOpen(t) => ~IsOpen(t)'
  BY CallbackFacts DEF CancelBeforeRun
<1>1. ThreadTypeOK'
  BY <1>a DEF ThreadTypeOK, Steps, CancelBeforeRun
<1>2. OperationTypeOK'
  BY <1>a DEF OperationTypeOK, CancelBeforeRun
<1>3. HostTypeOK'
  BY HostFrame DEF CancelBeforeRun
<1>4. ControlInv'
  BY DEF ControlInv, CancelBeforeRun
<1>5. WindowInv'
  BY DEF WindowInv, CancelBeforeRun
<1>6. OperationInv'
  BY <1>a DEF OperationInv, Started, CancelBeforeRun
<1>7. CountInv'
  BY CountFrame DEF CancelBeforeRun
<1> QED BY <1>1, <1>2, <1>3, <1>4, <1>5, <1>6, <1>7

(* FinalizeIncompleteHosts.                                                *)
LEMMA FinalizeIncompleteHostsStep ==
  ASSUME EngineInv, FinalizeIncompleteHosts
  PROVE  EngineInv'
<1> USE DEF EngineInv, TypeOK, threadVars, queueVars, hostVars, activeVars, opVars,
    cancelVars
<1>a. /\ cancel_requested_' \in BOOLEAN /\ posted' \in BOOLEAN
      /\ socket' \in [Tasks -> {"unopened", "connecting", "answered", "closed"}]
      /\ timer' \in [Tasks -> {"unarmed", "armed", "expired", "cancelled"}]
      /\ ready' \in [Tasks -> Seq(Completions)]
      /\ \A t \in Tasks : Untouched(t) => Untouched(t)'
      /\ \A t \in Tasks : ~IsOpen(t) => ~IsOpen(t)'
  BY CallbackFacts DEF FinalizeIncompleteHosts
<1>1. ThreadTypeOK'
  BY <1>a DEF ThreadTypeOK, Steps, FinalizeIncompleteHosts
<1>2. OperationTypeOK'
  BY <1>a DEF OperationTypeOK, FinalizeIncompleteHosts
<1>3. HostTypeOK'
  BY FinalizeTypes DEF HostTypeOK, FinalizeIncompleteHosts
<1>4. ControlInv'
  BY DEF ControlInv, FinalizeIncompleteHosts
<1>5. WindowInv'
  BY DEF WindowInv, FinalizeIncompleteHosts
<1>6. OperationInv'
  BY <1>a DEF OperationInv, Started, FinalizeIncompleteHosts
<1>7. CountInv'
  BY CountFrame DEF FinalizeIncompleteHosts
<1> QED BY <1>1, <1>2, <1>3, <1>4, <1>5, <1>6, <1>7

----------------------------------------------------------------------------
(* The invariant, and what follows from it                                 *)

(* The invariant holds initially.                                          *)
LEMMA EngineInit == Init => EngineInv
<1> SUFFICES ASSUME Init PROVE EngineInv
  OBVIOUS
<1>1. ThreadTypeOK
  <2>1. result \in Verdicts
    BY DEF Init, NoResult, Verdicts
  <2>2. batch_left \in 0 .. BatchSize /\ current \in 0 .. NumTasks
        /\ next_task \in 1 .. (NumTasks + 1)
    BY ConfigFacts DEF Init
  <2>3. reports \in [Tasks -> Nat]
    BY DEF Init
  <2>4. main \in Steps /\ in_flight_count_ \in Int
    BY DEF Init, Steps
  <2>5. cancel_requested_ \in BOOLEAN /\ posted \in BOOLEAN
    BY Zenon DEF Init
  <2> QED BY <2>1, <2>2, <2>3, <2>4, <2>5 DEF ThreadTypeOK
<1>2. OperationTypeOK
  BY DEF OperationTypeOK, Init
<1>3. HostTypeOK
  BY DEF HostTypeOK, IsHostMap, Init
<1>4. ControlInv
  BY DEF ControlInv, Init
<1>5. WindowInv
  BY ConfigFacts DEF WindowInv, Init
<1>6. OperationInv
  BY DEF OperationInv, Init, Untouched
<1>7. CountInv
  <2>1. Unreported = {}
    BY DEF Unreported, Started, Init
  <2> QED BY <2>1, FS_EmptySet DEF CountInv, Init
<1> QED BY <1>1, <1>2, <1>3, <1>4, <1>5, <1>6, <1>7 DEF EngineInv, TypeOK

(* A stuttering step preserves the invariant.                              *)
LEMMA EngineStutter ==
  ASSUME EngineInv, UNCHANGED vars
  PROVE  EngineInv'
<1> USE DEF EngineInv, TypeOK, vars, threadVars, queueVars, hostVars, activeVars, opVars,
            cancelVars
<1>1. ThreadTypeOK'
  BY DEF ThreadTypeOK
<1>2. OperationTypeOK'
  BY OperationFrame
<1>3. HostTypeOK'
  BY HostFrame
<1>4. ControlInv'
  BY DEF ControlInv, Started, IsOpen, Untouched
<1>5. WindowInv'
  BY DEF WindowInv
<1>6. OperationInv'
  BY DEF OperationInv, Started, IsOpen, Untouched
<1>7. CountInv'
  BY CountFrame
<1> QED BY <1>1, <1>2, <1>3, <1>4, <1>5, <1>6, <1>7

(* Every step preserves the invariant.                                     *)
LEMMA EngineNext ==
  ASSUME EngineInv, [Next]_vars
  PROVE  EngineInv'
<1>1. CASE Starting
  BY <1>1, RunBeginsStep, ScheduleInitialBatchStep DEF Starting
<1>2. CASE Scheduling
  BY <1>2, ScheduleNothingStep, ScheduleNextTaskStep, TrackOperationStep, ResolveFailsStep,
     AsyncConnectStep, AsyncWaitStep DEF Scheduling
<1>3. ASSUME NEW t \in Tasks, Handler(t) PROVE EngineInv'
  BY <1>3, LateHandlerStep, ConnectHandlerStep, TimerHandlerStep, TimerHandlerNoReportStep DEF Handler
<1>4. CASE Completing
  BY <1>4, OnTaskCompleteStep, OnTaskCompleteLateStep DEF Completing
<1>5. CASE Ending
  BY <1>5, CancelHandlerStep, IoContextReturnsStep, FinalizeIncompleteHostsStep DEF Ending
<1>6. CASE Network
  BY <1>6, TimerExpiresStep, NextEndpointRefusedStep, ConnectAnsweredStep DEF Network
<1>7. CASE CancelBeforeRun
  BY <1>7, CancelBeforeRunStep
<1>8. CASE UNCHANGED vars
  BY <1>8, EngineStutter
<1> QED
  BY <1>1, <1>2, <1>3, <1>4, <1>5, <1>6, <1>7, <1>8 DEF Next, ThreadStep, Terminating

(* The inductive invariant holds in every reachable state of every         *)
(* instance.                                                               *)
THEOREM EngineInvariant == Spec => []EngineInv
BY EngineInit, EngineNext, PTL DEF Spec

(* Every variable keeps its type.                                          *)
THEOREM TypeCorrect == Spec => []TypeOK
<1>1. EngineInv => TypeOK
  BY DEF EngineInv
<1> QED BY <1>1, EngineInvariant, PTL

(* in_flight_count_ is at every moment the number of operations started    *)
(* and not reported, and never exceeds max_concurrency.                    *)
THEOREM SlotsAccounted == Spec => []SlotAccounting
<1>1. EngineInv => SlotAccounting
  BY ConfigFacts DEF EngineInv, TypeOK, ThreadTypeOK, WindowInv, CountInv, SlotAccounting
<1> QED BY <1>1, EngineInvariant, PTL

(* Every open socket belongs to an operation that still holds its slot.    *)
LEMMA SocketsHoldSlots ==
  ASSUME EngineInv
  PROVE  OpenSocketsBounded
<1>1. OpenSockets \subseteq Unreported
  BY DEF EngineInv, OpenSockets, OperationInv, Unreported, Untouched, IsOpen
<1>2. Cardinality(OpenSockets) <= Cardinality(Unreported)
  BY <1>1, UnreportedFinite, FS_Subset DEF EngineInv, TypeOK
<1>3. Cardinality(OpenSockets) \in Nat /\ Cardinality(Unreported) \in Nat
  BY <1>1, UnreportedFinite, FS_Subset, FS_CardinalityType DEF EngineInv, TypeOK
<1>4. Cardinality(Unreported) <= max_concurrency
  BY ConfigFacts DEF EngineInv, TypeOK, ThreadTypeOK, WindowInv, CountInv
<1> QED BY <1>2, <1>3, <1>4, ConfigFacts DEF OpenSocketsBounded

(* No more than max_concurrency sockets are open at once.                  *)
THEOREM SocketsBounded == Spec => []OpenSocketsBounded
BY SocketsHoldSlots, EngineInvariant, PTL

(* However connect, timer and cancellation interleave, no operation        *)
(* reports twice.                                                          *)
THEOREM NoDoubleReport == Spec => []ReportsAtMostOnce
<1>1. EngineInv => ReportsAtMostOnce
  BY DEF EngineInv, OperationInv, ReportsAtMostOnce
<1> QED BY <1>1, EngineInvariant, PTL

----------------------------------------------------------------------------
(* Each host completes exactly once                                        *)

(* How often a host is accounted for: in the map, and in the completed     *)
(* list.                                                                   *)
Occurrences(h, states, done) == Len(done[h]) + (IF h \in DOMAIN states THEN 1 ELSE 0)

HostInv ==
  /\ main = "idle" => \A h \in Hosts : Occurrences(h, host_states_, completed_hosts_) = 0
  /\ main # "idle" => \A h \in Hosts : Occurrences(h, host_states_, completed_hosts_) = 1

(* Finalizing moves a host from the map to the list, and no other.         *)
LEMMA FinalizeOnce ==
  ASSUME HostTypeOK, NEW states, DOMAIN states = DOMAIN host_states_,
         NEW H \in SUBSET DOMAIN states, NEW h \in Hosts,
         IsHostMap(states)
  PROVE  Occurrences(h, Without(states, H), Finalized(H, states))
           = Occurrences(h, host_states_, completed_hosts_)
<1>1. completed_hosts_[h] \in Seq(Seq(Results))
  BY DEF HostTypeOK
<1>2. DOMAIN Without(states, H) = DOMAIN states \ H
  BY DEF Without
<1>3. CASE h \in H
  <2>1. states[h].ports \in Seq(Results)
    BY <1>3 DEF IsHostMap
  <2>2. Finalized(H, states)[h] = Append(completed_hosts_[h], states[h].ports)
    BY <1>3 DEF Finalized
  <2>3. Len(Finalized(H, states)[h]) = Len(completed_hosts_[h]) + 1
    BY <1>1, <2>1, <2>2
  <2>4. Len(completed_hosts_[h]) \in Nat
    BY <1>1
  <2>5. h \in DOMAIN host_states_ /\ h \notin DOMAIN Without(states, H)
    BY <1>2, <1>3
  <2>6. /\ Occurrences(h, Without(states, H), Finalized(H, states))
             = Len(Finalized(H, states)[h]) + 0
        /\ Occurrences(h, host_states_, completed_hosts_) = Len(completed_hosts_[h]) + 1
    BY <2>5 DEF Occurrences
  <2> QED BY <2>3, <2>4, <2>6
<1>4. CASE h \notin H
  BY <1>2, <1>4 DEF Occurrences, Finalized
<1> QED BY <1>3, <1>4

(* The steps that move no host, and those that do, keep the count.         *)
LEMMA HostNext ==
  ASSUME EngineInv, HostInv, [Next]_vars
  PROVE  HostInv'
<1> USE DEF EngineInv, TypeOK, vars, threadVars, queueVars, hostVars, activeVars, opVars,
            cancelVars
<1>1. ASSUME main # "idle", main' # "idle", NEW states, NEW H, MovesHosts(states, H)
      PROVE  HostInv'
  BY <1>1, FinalizeOnce, ZenonT(40) DEF HostInv, Occurrences, MovesHosts
<1>2. ASSUME UNCHANGED <<host_states_, completed_hosts_>>, main' = "idle" <=> main = "idle"
      PROVE  HostInv'
  BY <1>2 DEF HostInv, Occurrences
<1>3. CASE RunBegins
  <2>1. ASSUME NEW h \in Hosts PROVE Len(completed_hosts_[h]) = 0
    <3>1. Len(completed_hosts_[h]) \in Nat
      BY DEF HostTypeOK
    <3>2. Occurrences(h, host_states_, completed_hosts_) = 0
      BY <1>3 DEF RunBegins, HostInv
    <3>3. CASE h \in DOMAIN host_states_
      BY <3>1, <3>2, <3>3 DEF Occurrences
    <3>4. CASE h \notin DOMAIN host_states_
      BY <3>1, <3>2, <3>4 DEF Occurrences
    <3> QED BY <3>3, <3>4
  <2>2. DOMAIN host_states_' = Hosts /\ completed_hosts_' = completed_hosts_ /\ main' # "idle"
    BY <1>3 DEF RunBegins
  <2> QED BY <2>1, <2>2 DEF HostInv, Occurrences
<1>4. CASE OnTaskComplete
  <2>1. main # "idle" /\ main' # "idle"
    BY <1>4 DEF OnTaskComplete, Resume
  <2> QED BY <1>1, <1>4, <2>1, OnTaskCompleteMoves
<1>5. CASE OnTaskCompleteLate
  <2>1. main # "idle" /\ main' # "idle"
    BY <1>5 DEF OnTaskCompleteLate, Resume
  <2>2. MovesHosts(host_states_, IdleHosts(host_states_))
    BY <1>5, IdleHostsInMap DEF MovesHosts, HostTypeOK, OnTaskCompleteLate
  <2> QED BY <1>1, <2>1, <2>2
<1>6. CASE CancelHandler
  <2>1. main # "idle" /\ main' # "idle"
    BY <1>6 DEF CancelHandler
  <2>2. MovesHosts(host_states_, IdleHosts(host_states_))
    BY <1>6, IdleHostsInMap DEF MovesHosts, HostTypeOK, CancelHandler
  <2> QED BY <1>1, <2>1, <2>2
<1>7. CASE FinalizeIncompleteHosts
  <2>1. main # "idle" /\ main' # "idle"
    BY <1>7 DEF FinalizeIncompleteHosts
  <2>2. MovesHosts(host_states_, DOMAIN host_states_)
    BY <1>7 DEF MovesHosts, HostTypeOK, FinalizeIncompleteHosts
  <2> QED BY <1>1, <2>1, <2>2
<1>8. CASE ScheduleInitialBatch \/ Scheduling \/ IoContextReturns
  BY <1>2, <1>8 DEF ScheduleInitialBatch, Scheduling, ScheduleNothing, ScheduleNextTask,
     TrackOperation, ResolveFails, AsyncConnect, AsyncWait, Resume, IoContextReturns
<1>9. ASSUME NEW t \in Tasks, Handler(t) PROVE HostInv'
  BY <1>2, <1>9 DEF Handler, LateHandler, ConnectHandler, TimerHandler, TimerHandlerNoReport, Dispatches
<1>10. CASE Network \/ CancelBeforeRun \/ UNCHANGED vars
  BY <1>2, <1>10 DEF Network, TimerExpires, NextEndpointRefused, ConnectAnswered, CancelBeforeRun
<1> QED
  BY <1>3, <1>4, <1>5, <1>6, <1>7, <1>8, <1>9, <1>10
  DEF Next, ThreadStep, Starting, Completing, Ending, Terminating

(* From run()'s first step on, every host is in the map or once in the     *)
(* completed list.                                                         *)
THEOREM HostsCompleteOnce == Spec => []HostCompletesOnce
<1>1. Init => HostInv
  BY DEF Init, HostInv, Occurrences
<1>2. EngineInv /\ HostInv /\ [Next]_vars => HostInv'
  BY HostNext
<1>3. HostInv => HostCompletesOnce
  BY DEF HostInv, Occurrences, HostCompletesOnce
<1> QED BY <1>1, <1>2, <1>3, EngineInvariant, PTL DEF Spec

----------------------------------------------------------------------------
(* No scheduling after cancellation                                        *)

(* While the thread is inside scan_port_async the scan is not cancelled:   *)
(* a callback can only run before or after it.                             *)
UncancelledInv ==
  main \in {"scan_port_async", "async_connect", "async_wait"} => ~cancel_requested_

(* Every step preserves it.                                                *)
LEMMA UncancelledNext ==
  ASSUME UncancelledInv, [Next]_vars
  PROVE  UncancelledInv'
<1> USE DEF UncancelledInv, vars, threadVars, cancelVars
<1>1. CASE Starting
  BY <1>1 DEF Starting, RunBegins, ScheduleInitialBatch
<1>2. CASE Scheduling
  BY <1>2 DEF Scheduling, ScheduleNothing, ScheduleNextTask, MaySchedule, TrackOperation,
     ResolveFails, AsyncConnect, AsyncWait, Resume
<1>3. ASSUME NEW t \in Tasks, Handler(t) PROVE UncancelledInv'
  BY <1>3 DEF Handler, LateHandler, ConnectHandler, TimerHandler, TimerHandlerNoReport, Dispatches
<1>4. CASE Completing \/ Ending
  BY <1>4 DEF Completing, OnTaskComplete, OnTaskCompleteLate, Resume, Ending, CancelHandler,
     IoContextReturns, FinalizeIncompleteHosts
<1>5. CASE Network \/ CancelBeforeRun \/ UNCHANGED vars
  BY <1>5 DEF Network, TimerExpires, NextEndpointRefused, ConnectAnswered, CancelBeforeRun
<1> QED
  BY <1>1, <1>2, <1>3, <1>4, <1>5 DEF Next, ThreadStep, Terminating

(* Closing sockets opens none.                                             *)
LEMMA ClosedOpensNone ==
  ASSUME NEW S, NEW t \in Tasks, Closed(S)[t] = "connecting"
  PROVE  socket[t] = "connecting"
BY DEF Closed

(* Once cancellation is requested, no task leaves the queue and no socket  *)
(* starts connecting.                                                      *)
NothingScheduled ==
  cancel_requested_ =>
    /\ next_task' = next_task
    /\ \A t \in Tasks : socket'[t] = "connecting" => socket[t] = "connecting"

(* The action property holds of every step.                                *)
LEMMA NothingScheduledStep ==
  ASSUME UncancelledInv, TypeOK, [Next]_vars
  PROVE  NothingScheduled
<1> USE DEF UncancelledInv, NothingScheduled, TypeOK, OperationTypeOK, vars, queueVars, opVars
<1>1. CASE Starting
  BY <1>1 DEF Starting, RunBegins, ScheduleInitialBatch
<1>2. CASE Scheduling
  BY <1>2 DEF Scheduling, ScheduleNothing, ScheduleNextTask, MaySchedule, TrackOperation,
     ResolveFails, AsyncConnect, AsyncWait
<1>3. ASSUME NEW t \in Tasks, Handler(t) PROVE NothingScheduled
  BY <1>3, ClosedOpensNone DEF Handler, LateHandler, ConnectHandler, TimerHandler, TimerHandlerNoReport
<1>4. CASE Completing
  BY <1>4, ClosedOpensNone DEF Completing, OnTaskComplete, OnTaskCompleteLate, Callback, Cancel
<1>5. CASE Ending
  BY <1>5, ClosedOpensNone DEF Ending, CancelHandler, IoContextReturns,
     FinalizeIncompleteHosts, Callback, Cancel
<1>6. CASE Network
  BY <1>6 DEF Network, TimerExpires, NextEndpointRefused, ConnectAnswered
<1>7. CASE CancelBeforeRun \/ UNCHANGED vars
  BY <1>7 DEF CancelBeforeRun
<1> QED
  BY <1>1, <1>2, <1>3, <1>4, <1>5, <1>6, <1>7 DEF Next, ThreadStep, Terminating

(* No scheduling after cancellation is requested, in any instance.         *)
THEOREM NoSchedulingOnceCancelled == Spec => NoSchedulingAfterCancel
<1>1. Init => UncancelledInv
  BY DEF Init, UncancelledInv
<1>2. UncancelledInv /\ [Next]_vars => UncancelledInv'
  BY UncancelledNext
<1>3. UncancelledInv /\ TypeOK /\ [Next]_vars => [NothingScheduled]_vars
  BY NothingScheduledStep
<1>4. NoSchedulingAfterCancel <=> [][NothingScheduled]_vars
  BY DEF NoSchedulingAfterCancel, NothingScheduled
<1> QED BY <1>1, <1>2, <1>3, <1>4, TypeCorrect, PTL DEF Spec

=============================================================================
