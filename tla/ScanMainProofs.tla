--------------------------- MODULE ScanMainProofs ---------------------------
(***************************************************************************)
(* What of the engine's guarantees survives a cancel() on the watcher      *)
(* thread, for every instance and every interleaving of the two threads:   *)
(* the engine's invariant is preserved by each step of the watcher.        *)
(***************************************************************************)
EXTENDS ScanMain, DistinctProofs

(* How the program's variables and the engine's hang together: main() is   *)
(* past run() only when the engine has stopped, past the join only when    *)
(* the watcher has exited, and run() returns with an empty map.            *)
ProgramInv ==
  /\ MainTypeOK
  /\ program \in {"write_output", "exited"} => watcher = "exited"
  /\ program \in {"join", "write_output", "exited"} => Stopped
  /\ program = "write_output" => main = "returned"
  /\ exit_code = 0 => program = "exited" /\ main = "returned"

ReturnInv == main = "returned" => DOMAIN host_states_ = {}

----------------------------------------------------------------------------
(* The watcher's steps and the engine                                      *)

(* A step that only closes sockets, cancels timers and queues completions  *)
(* of tasks whose socket or timer was started preserves the invariant.     *)
LEMMA EffectEngine ==
  ASSUME EngineInv, UNCHANGED <<threadVars, queueVars, hostVars, activeVars, completed>>,
         cancel_requested_' \in BOOLEAN, posted' \in BOOLEAN,
         socket' \in [Tasks -> {"unopened", "connecting", "answered", "closed"}],
         timer' \in [Tasks -> {"unarmed", "armed", "expired", "cancelled"}],
         ready' \in [Tasks -> Seq(Completions)],
         \A t \in Tasks : Untouched(t) => Untouched(t)',
         \A t \in Tasks : ~IsOpen(t) => ~IsOpen(t)'
  PROVE  EngineInv'
<1> USE DEF EngineInv, TypeOK, threadVars, queueVars, hostVars, activeVars
<1>1. ThreadTypeOK'
  BY DEF ThreadTypeOK
<1>2. OperationTypeOK'
  BY DEF OperationTypeOK
<1>3. HostTypeOK'
  BY HostFrame
<1>4. ControlInv'
  <2>1. current' = current /\ main' = main
    OBVIOUS
  <2>2. main \in {"scan_port_async", "async_connect", "async_wait", "on_task_complete"}
          => current \in Tasks
    BY DEF ControlInv, Started, ThreadTypeOK, Tasks
  <2>3. main \in {"scan_port_async", "async_connect"} => Untouched(current)'
    BY <2>2 DEF ControlInv
  <2>4. main = "on_task_complete" =>
          ~IsOpen(current)' /\ (completed'[current] \/ Untouched(current)')
    BY <2>2 DEF ControlInv
  <2> QED BY <2>1, <2>3, <2>4 DEF ControlInv, Started
<1>5. WindowInv'
  BY DEF WindowInv
<1>6. OperationInv'
  BY DEF OperationInv, Started
<1>7. CountInv'
  BY CountFrame
<1> QED BY <1>1, <1>2, <1>3, <1>4, <1>5, <1>6, <1>7

(* closing one socket.                                                     *)
LEMMA CloseSocketEngine ==
  ASSUME EngineInv, MainTypeOK, CloseSocket
  PROVE  EngineInv'
<1> DEFINE n == NextGathered
<1>2. OperationTypeOK /\ ThreadTypeOK
  BY DEF EngineInv, TypeOK
<1>3. /\ socket' = Closed({n}) /\ timer' = timer
      /\ ready' = [ready EXCEPT ![n] = @ \o AbortedConnect(gathered, n)]
      /\ cancel_requested_' = cancel_requested_ /\ posted' = posted
      /\ UNCHANGED <<threadVars, queueVars, hostVars, activeVars, completed>>
  BY DEF CloseSocket, cancelVars
<1>4. socket' \in [Tasks -> {"unopened", "connecting", "answered", "closed"}]
  BY <1>2, <1>3, EffectTypes
<1>5. ready' \in [Tasks -> Seq(Completions)]
  <2>1. CASE n \in Tasks
    <3>1. AbortedConnect(gathered, n) \in Seq(Completions)
      BY <1>2, <2>1, EffectTypes
    <3> QED BY <1>2, <1>3, <2>1, <3>1 DEF OperationTypeOK
  <2>2. CASE n \notin Tasks
    BY <1>2, <1>3, <2>2 DEF OperationTypeOK
  <2> QED BY <2>1, <2>2
<1>6. ASSUME NEW t \in Tasks, Untouched(t) PROVE Untouched(t)'
  <2>1. socket'[t] = "unopened" /\ timer'[t] = "unarmed"
    BY <1>3, <1>6 DEF Untouched, Closed, IsOpen
  <2>2. ready'[t] = << >>
    <3>1. CASE t = n
      <4>1. AbortedConnect(gathered, n) = << >>
        BY <1>6, <3>1 DEF Untouched, AbortedConnect
      <4> QED BY <1>2, <1>3, <1>6, <3>1, <4>1 DEF Untouched, OperationTypeOK
    <3>2. CASE t # n
      BY <1>2, <1>3, <1>6, <3>2 DEF Untouched, OperationTypeOK
    <3> QED BY <3>1, <3>2
  <2> QED BY <2>1, <2>2 DEF Untouched
<1>7. ASSUME NEW t \in Tasks, ~IsOpen(t) PROVE ~IsOpen(t)'
  BY <1>3, <1>7 DEF IsOpen, Closed
<1>8. /\ cancel_requested_' \in BOOLEAN /\ posted' \in BOOLEAN
      /\ timer' \in [Tasks -> {"unarmed", "armed", "expired", "cancelled"}]
  BY <1>2, <1>3 DEF OperationTypeOK, ThreadTypeOK
<1> HIDE DEF n
<1> QED BY <1>3, <1>4, <1>5, <1>6, <1>7, <1>8, EffectEngine

(* cancelling one timer.                                                   *)
LEMMA CancelTimerEngine ==
  ASSUME EngineInv, MainTypeOK, CancelTimer
  PROVE  EngineInv'
<1> DEFINE n == NextGathered
<1>2. OperationTypeOK /\ ThreadTypeOK
  BY DEF EngineInv, TypeOK
<1>3. /\ timer' = Disarmed({n}) /\ socket' = socket
      /\ ready' = [ready EXCEPT ![n] = @ \o AbortedTimer(gathered, n)]
      /\ cancel_requested_' = cancel_requested_ /\ posted' = posted
      /\ UNCHANGED <<threadVars, queueVars, hostVars, activeVars, completed>>
  BY DEF CancelTimer, cancelVars
<1>4. timer' \in [Tasks -> {"unarmed", "armed", "expired", "cancelled"}]
  BY <1>2, <1>3, EffectTypes
<1>5. ready' \in [Tasks -> Seq(Completions)]
  <2>1. CASE n \in Tasks
    <3>1. AbortedTimer(gathered, n) \in Seq(Completions)
      BY <1>2, <2>1, EffectTypes
    <3> QED BY <1>2, <1>3, <2>1, <3>1 DEF OperationTypeOK
  <2>2. CASE n \notin Tasks
    BY <1>2, <1>3, <2>2 DEF OperationTypeOK
  <2> QED BY <2>1, <2>2
<1>6. ASSUME NEW t \in Tasks, Untouched(t) PROVE Untouched(t)'
  <2>1. socket'[t] = "unopened" /\ timer'[t] = "unarmed"
    BY <1>3, <1>6 DEF Untouched, Disarmed
  <2>2. ready'[t] = << >>
    <3>1. CASE t = n
      <4>1. AbortedTimer(gathered, n) = << >>
        BY <1>6, <3>1 DEF Untouched, AbortedTimer
      <4> QED BY <1>2, <1>3, <1>6, <3>1, <4>1 DEF Untouched, OperationTypeOK
    <3>2. CASE t # n
      BY <1>2, <1>3, <1>6, <3>2 DEF Untouched, OperationTypeOK
    <3> QED BY <3>1, <3>2
  <2> QED BY <2>1, <2>2 DEF Untouched
<1>7. ASSUME NEW t \in Tasks, ~IsOpen(t) PROVE ~IsOpen(t)'
  BY <1>3, <1>7 DEF IsOpen
<1>8. /\ cancel_requested_' \in BOOLEAN /\ posted' \in BOOLEAN
      /\ socket' \in [Tasks -> {"unopened", "connecting", "answered", "closed"}]
  BY <1>2, <1>3 DEF OperationTypeOK, ThreadTypeOK
<1> HIDE DEF n
<1> QED BY <1>3, <1>4, <1>5, <1>6, <1>7, <1>8, EffectEngine

(* The steps of cancel() that set a flag.                                  *)
LEMMA FlagEngine ==
  ASSUME EngineInv, CancelRequested \/ PostCancelHandler
  PROVE  EngineInv'
<1>1. /\ UNCHANGED <<threadVars, queueVars, hostVars, activeVars, opVars>>
      /\ cancel_requested_' \in {cancel_requested_, TRUE} /\ posted' \in {posted, TRUE}
  BY DEF CancelRequested, PostCancelHandler
<1>2. UNCHANGED <<threadVars, queueVars, hostVars, activeVars, completed, socket, timer, ready>>
  BY <1>1 DEF opVars
<1>3. /\ cancel_requested_' \in BOOLEAN /\ posted' \in BOOLEAN
      /\ socket' \in [Tasks -> {"unopened", "connecting", "answered", "closed"}]
      /\ timer' \in [Tasks -> {"unarmed", "armed", "expired", "cancelled"}]
      /\ ready' \in [Tasks -> Seq(Completions)]
  BY <1>1, <1>2 DEF EngineInv, TypeOK, ThreadTypeOK, OperationTypeOK
<1>4. /\ \A t \in Tasks : Untouched(t) => Untouched(t)'
      /\ \A t \in Tasks : ~IsOpen(t) => ~IsOpen(t)'
  BY <1>2 DEF Untouched, IsOpen
<1> QED BY <1>2, <1>3, <1>4, EffectEngine

(* Every step of the program is a step of the engine, leaves it alone, or  *)
(* is one of the above.                                                    *)
LEMMA EngineOfProgram ==
  ASSUME MainNext
  PROVE  \/ [Next]_vars
         \/ CloseSocket \/ CancelTimer \/ CancelRequested \/ PostCancelHandler
BY DEF MainNext, MainStep, ScanStep, TrackWhileIterated, StopWatcher, JoinWatcher, WriteOutput,
   WatcherStep, WatcherExits, WatcherSeesInterrupt, GatherSockets, SocketsClosed, GatherTimers,
   HandleInterruptSignal, NetworkStep, AfterExit, Next, engineVars, programVars

(* Every step of the program preserves the engine's invariant.             *)
LEMMA ProgramEngine ==
  ASSUME EngineInv, MainTypeOK, [MainNext]_programVars
  PROVE  EngineInv'
<1>1. CASE UNCHANGED programVars
  BY <1>1, EngineStutter DEF programVars, engineVars
<1>2. CASE MainNext
  BY <1>2, EngineOfProgram, EngineNext, CloseSocketEngine, CancelTimerEngine, FlagEngine
<1> QED BY <1>1, <1>2

(* run() returns with every host finalized, and nothing happens after it.  *)
LEMMA EngineReturn ==
  ASSUME ReturnInv, [Next]_vars
  PROVE  ReturnInv'
<1> USE DEF ReturnInv, vars, threadVars, hostVars
<1>1. CASE Starting
  BY <1>1 DEF Starting, RunBegins, ScheduleInitialBatch
<1>2. CASE Scheduling
  BY <1>2 DEF Scheduling, ScheduleNothing, ScheduleNextTask, TrackOperation, ResolveFails,
     AsyncConnect, AsyncWait, Resume
<1>3. ASSUME NEW t \in Tasks, Handler(t) PROVE ReturnInv'
  BY <1>3 DEF Handler, LateHandler, ConnectHandler, TimerHandler, TimerHandlerNoReport, Dispatches
<1>4. CASE Completing
  BY <1>4 DEF Completing, OnTaskComplete, OnTaskCompleteLate, Resume
<1>5. CASE CancelHandler \/ IoContextReturns
  BY <1>5 DEF CancelHandler, IoContextReturns
<1>6. CASE FinalizeIncompleteHosts
  BY <1>6 DEF FinalizeIncompleteHosts, Without
<1>7. CASE Network \/ CancelBeforeRun \/ UNCHANGED vars
  BY <1>7 DEF Network, TimerExpires, NextEndpointRefused, ConnectAnswered, CancelBeforeRun
<1> QED
  BY <1>1, <1>2, <1>3, <1>4, <1>5, <1>6, <1>7 DEF Next, ThreadStep, Ending, Terminating

(* The watcher neither moves the scanning thread nor touches the map.      *)
LEMMA WatcherLeavesAlone ==
  ASSUME CloseSocket \/ CancelTimer \/ CancelRequested \/ PostCancelHandler
  PROVE  UNCHANGED <<main, host_states_, completed_hosts_>>
BY DEF CloseSocket, CancelTimer, CancelRequested, PostCancelHandler, threadVars, hostVars

(* Every step of the program preserves what the engine's steps preserve of *)
(* its hosts.                                                              *)
LEMMA ProgramHosts ==
  ASSUME EngineInv, HostInv, ReturnInv, [MainNext]_programVars
  PROVE  HostInv' /\ ReturnInv'
<1>1. CASE [Next]_vars
  BY <1>1, HostNext, EngineReturn
<1>2. CASE UNCHANGED <<main, host_states_, completed_hosts_>>
  BY <1>2 DEF HostInv, Occurrences, ReturnInv
<1>3. CASE UNCHANGED programVars
  BY <1>3, <1>1 DEF programVars, engineVars
<1> QED BY <1>1, <1>2, <1>3, EngineOfProgram, WatcherLeavesAlone

(* The watcher's steps leave the results where they are and can only       *)
(* request a cancellation, after which fewer results may come.             *)
LEMMA WatcherResults ==
  ASSUME EngineInv, ResultInv, CloseSocket \/ CancelTimer \/ CancelRequested \/ PostCancelHandler
  PROVE  ResultInv'
<1>1. /\ UNCHANGED <<main, host_states_, completed_hosts_, reports, next_task>>
      /\ cancel_requested_ => cancel_requested_'
  BY DEF CloseSocket, CancelTimer, CancelRequested, PostCancelHandler, threadVars, queueVars,
     hostVars, cancelVars
<1>2. CountdownInv'
  BY <1>1 DEF ResultInv, CountdownInv, Left
<1>3. KeptInv'
  BY <1>1 DEF ResultInv, KeptInv, Started
<1>4. RowsInv'
  BY <1>1 DEF ResultInv, RowsInv, Reported
<1> QED BY <1>2, <1>3, <1>4 DEF ResultInv

(* With distinct targets every step of the program preserves what the      *)
(* engine's steps preserve of the results.                                 *)
LEMMA ProgramResults ==
  ASSUME Distinct(targets), KeepInv, EngineInv', [MainNext]_programVars
  PROVE  ResultInv'
<1>1. CASE [Next]_vars
  BY <1>1, ResultNext
<1>2. CASE UNCHANGED programVars
  BY <1>1, <1>2 DEF programVars, engineVars
<1> QED BY <1>1, <1>2, EngineOfProgram, WatcherResults DEF KeepInv

(* The watcher takes cancel() apart only after it has requested the        *)
(* cancellation.  Until then the engine is one that nobody cancels.        *)
CancellingInv ==
  watcher \in {"gather_sockets", "close_sockets", "gather_timers", "cancel_timers"}
    => cancel_requested_
CalmInv == ~cancel_requested_ => RaceInv

(* A request for cancellation is never taken back.                         *)
LEMMA CancelledForGood ==
  ASSUME EngineInv, cancel_requested_, [Next]_vars
  PROVE  cancel_requested_'
<1>1. CASE RunBegins
  BY <1>1 DEF RunBegins, cancelVars
<1>2. CASE Completing
  BY <1>2 DEF Completing, OnTaskComplete, OnTaskCompleteLate, Callback, Cancel, cancelVars
<1>3. CASE CancelHandler \/ FinalizeIncompleteHosts
  BY <1>3 DEF CancelHandler, FinalizeIncompleteHosts, Callback, Cancel, cancelVars
<1>4. CASE UnmovedStep
  BY <1>4, UnmovedFacts
<1> QED
  BY <1>1, <1>2, <1>3, <1>4 DEF Next, ThreadStep, Starting, Ending, Terminating, UnmovedStep

(* A step of the program after which nobody has cancelled is one of the    *)
(* engine alone, or leaves the engine as it is.                            *)
LEMMA CalmStep ==
  ASSUME EngineInv, CancellingInv, [MainNext]_programVars, ~cancel_requested_'
  PROVE  ~cancel_requested_ /\ [Next]_vars
<1>1. CASE UNCHANGED programVars
  BY <1>1 DEF programVars, engineVars, vars, cancelVars
<1>2. CASE MainNext
  <2>1. CASE [Next]_vars
    BY <2>1, CancelledForGood
  <2>2. CASE CloseSocket \/ CancelTimer \/ CancelRequested \/ PostCancelHandler
    BY <2>2 DEF CloseSocket, CancelTimer, CancelRequested, PostCancelHandler, CancellingInv, cancelVars
  <2> QED BY <1>2, <2>1, <2>2, EngineOfProgram
<1> QED BY <1>1, <1>2

(* Every step preserves the order of the watcher's steps.                  *)
LEMMA CancellingNext ==
  ASSUME EngineInv, CancellingInv, [MainNext]_programVars
  PROVE  CancellingInv'
<1> USE DEF CancellingInv
<1>1. CASE watcher' \in {watcher, "exited", "poll", "cancel"}
  <2>1. cancel_requested_ => cancel_requested_'
    BY CalmStep DEF EngineInv, TypeOK, ThreadTypeOK
  <2> QED BY <1>1, <2>1
<1>2. CASE watcher' \notin {watcher, "exited", "poll", "cancel"}
  <2>1. CASE CancelRequested
    BY <2>1 DEF CancelRequested
  <2>2. CASE GatherSockets \/ SocketsClosed \/ GatherTimers
    BY <2>2 DEF GatherSockets, SocketsClosed, GatherTimers, engineVars, vars, cancelVars
  <2> QED
    BY <1>2, <2>1, <2>2
    DEF MainNext, MainStep, ScanStep, TrackWhileIterated, StopWatcher, JoinWatcher, WriteOutput,
        WatcherStep, WatcherExits, WatcherSeesInterrupt, CloseSocket, CancelTimer,
        PostCancelHandler, HandleInterruptSignal, NetworkStep, AfterExit, programVars, watcherVars
<1> QED BY <1>1, <1>2

(* Until a cancellation the program's steps preserve the invariants of the *)
(* engine.                                                                 *)
LEMMA CalmNext ==
  ASSUME EngineInv, CancellingInv, CalmInv, [MainNext]_programVars
  PROVE  CalmInv'
<1> SUFFICES ASSUME ~cancel_requested_' PROVE RaceInv'
  BY DEF CalmInv
<1>1. ~cancel_requested_ /\ [Next]_vars
  BY CalmStep
<1> QED BY <1>1, RaceNext DEF CalmInv, UncancelledInv

(* While the engine has stopped it takes no step.                          *)
LEMMA StoppedForGood ==
  ASSUME Stopped
  PROVE  ~ThreadStep /\ ~Network
BY DEF Stopped, ThreadStep, Starting, RunBegins, ScheduleInitialBatch, Scheduling,
   ScheduleNothing, ScheduleNextTask, TrackOperation, ResolveFails, AsyncConnect, AsyncWait,
   Handler, LateHandler, ConnectHandler, TimerHandler, TimerHandlerNoReport, Dispatches,
   Completing, OnTaskComplete, OnTaskCompleteLate, Ending, CancelHandler, IoContextReturns,
   FinalizeIncompleteHosts, Network, TimerExpires, NextEndpointRefused, ConnectAnswered

(* The steps of main() preserve the program's invariant.                   *)
LEMMA MainStepProgram ==
  ASSUME ProgramInv, MainStep \/ NetworkStep \/ HandleInterruptSignal
  PROVE  ProgramInv'
<1> USE DEF ProgramInv, MainTypeOK, mainVars, watcherVars, Stopped
<1>1. CASE ScanStep
  BY <1>1 DEF ScanStep
<1>2. CASE TrackWhileIterated
  BY <1>2 DEF TrackWhileIterated, engineVars, vars, threadVars
<1>3. CASE StopWatcher
  BY <1>3 DEF StopWatcher, engineVars, vars, threadVars
<1>4. CASE JoinWatcher
  BY <1>4 DEF JoinWatcher, engineVars, vars, threadVars
<1>5. CASE WriteOutput
  BY <1>5 DEF WriteOutput, ExitCodes, engineVars, vars, threadVars
<1>6. CASE NetworkStep
  BY <1>6 DEF NetworkStep
<1>7. CASE HandleInterruptSignal
  BY <1>7 DEF HandleInterruptSignal, engineVars, vars, threadVars
<1> QED BY <1>1, <1>2, <1>3, <1>4, <1>5, <1>6, <1>7 DEF MainStep

(* The watcher's steps preserve it.                                        *)
LEMMA WatcherStepProgram ==
  ASSUME ProgramInv, OperationTypeOK, WatcherStep
  PROVE  ProgramInv'
<1> USE DEF ProgramInv, MainTypeOK, mainVars, Stopped
<1>1. CASE WatcherExits
  BY <1>1 DEF WatcherExits, engineVars, vars, threadVars
<1>2. CASE WatcherSeesInterrupt
  BY <1>2 DEF WatcherSeesInterrupt, engineVars, vars, threadVars
<1>3. CASE CancelRequested
  BY <1>3 DEF CancelRequested, threadVars
<1>4. CASE GatherSockets \/ GatherTimers
  BY <1>4 DEF GatherSockets, GatherTimers, OperationTypeOK, engineVars, vars, threadVars
<1>5. CASE CloseSocket \/ CancelTimer
  BY <1>5 DEF CloseSocket, CancelTimer, threadVars
<1>6. CASE SocketsClosed
  BY <1>6 DEF SocketsClosed, engineVars, vars, threadVars
<1>7. CASE PostCancelHandler
  BY <1>7 DEF PostCancelHandler, threadVars
<1> QED BY <1>1, <1>2, <1>3, <1>4, <1>5, <1>6, <1>7 DEF WatcherStep

(* Every step preserves it.                                                *)
LEMMA ProgramNext ==
  ASSUME ProgramInv, OperationTypeOK, [MainNext]_programVars
  PROVE  ProgramInv'
<1>1. CASE UNCHANGED programVars
  BY <1>1 DEF programVars, engineVars, vars, threadVars, mainVars, watcherVars, ProgramInv,
     MainTypeOK, Stopped
<1> QED BY <1>1, MainStepProgram, WatcherStepProgram DEF MainNext, AfterExit

----------------------------------------------------------------------------
(* The theorems                                                            *)

(* The invariants hold in every reachable state of the program.            *)
LEMMA ProgramInvariant == MainSpec => [](EngineInv /\ HostInv /\ ReturnInv /\ ProgramInv)
<1> DEFINE Inv == EngineInv /\ HostInv /\ ReturnInv /\ ProgramInv
<1>1. MainInit => Inv
  <2>1. MainInit => EngineInv
    BY EngineInit DEF MainInit
  <2>2. MainInit => HostInv
    BY DEF MainInit, Init, HostInv, Occurrences
  <2>3. MainInit => ReturnInv
    BY DEF MainInit, Init, ReturnInv
  <2>4. MainInit => ProgramInv
    <3> SUFFICES ASSUME MainInit PROVE ProgramInv
      OBVIOUS
    <3>1. program = "run" /\ watcher = "poll" /\ gathered \subseteq Tasks
      BY DEF MainInit
    <3>2. exit_code = -1
      BY DEF MainInit
    <3>3. exit_code \in {-1, 0, 1} /\ exit_code # 0
      BY <3>2
    <3>4. scan_finished \in BOOLEAN /\ g_interrupt_requested \in BOOLEAN /\ cancel_sent \in BOOLEAN
      BY Zenon DEF MainInit
    <3>5. MainTypeOK
      BY <3>1, <3>3, <3>4, Zenon DEF MainTypeOK
    <3> QED BY <3>1, <3>3, <3>5 DEF ProgramInv
  <2> QED BY <2>1, <2>2, <2>3, <2>4
<1>2. Inv /\ [MainNext]_programVars => Inv'
  <2> SUFFICES ASSUME Inv, [MainNext]_programVars PROVE Inv'
    OBVIOUS
  <2>1. EngineInv'
    BY ProgramEngine DEF ProgramInv
  <2>2. HostInv' /\ ReturnInv'
    BY ProgramHosts
  <2>3. ProgramInv'
    BY ProgramNext DEF EngineInv, TypeOK
  <2> QED BY <2>1, <2>2, <2>3
<1> QED BY <1>1, <1>2, PTL DEF MainSpec

(* The program's variables keep their types.                               *)
THEOREM ProgramTypes == MainSpec => []MainTypeOK
<1>1. ProgramInv => MainTypeOK
  BY DEF ProgramInv
<1> QED BY <1>1, ProgramInvariant, PTL

(* The report is written, and the Scanner destroyed, only after the        *)
(* watcher has exited; exit code 0 stands for a finalized summary.         *)
THEOREM OrderlyExit == MainSpec => []ExitIsOrderly
<1>1. ProgramInv /\ ReturnInv => ExitIsOrderly
  BY DEF ProgramInv, ReturnInv, ExitIsOrderly
<1> QED BY <1>1, ProgramInvariant, PTL

(* Also with cancel() on the watcher thread, between any two steps of the  *)
(* engine, the counter is the number of operations in flight and stays     *)
(* within the window.                                                      *)
THEOREM InterruptedSlots == MainSpec => []SlotAccounting
<1>1. EngineInv => SlotAccounting
  BY ConfigFacts DEF EngineInv, TypeOK, ThreadTypeOK, WindowInv, CountInv, SlotAccounting
<1> QED BY <1>1, ProgramInvariant, PTL

(* No operation reports twice, whatever the watcher closed or cancelled.   *)
THEOREM InterruptedReports == MainSpec => []ReportsAtMostOnce
<1>1. EngineInv => ReportsAtMostOnce
  BY DEF EngineInv, OperationInv, ReportsAtMostOnce
<1> QED BY <1>1, ProgramInvariant, PTL

(* Every host of an interrupted scan completes exactly once.               *)
THEOREM InterruptedHosts == MainSpec => []HostCompletesOnce
<1>1. HostInv => HostCompletesOnce
  BY DEF HostInv, Occurrences, HostCompletesOnce
<1> QED BY <1>1, ProgramInvariant, PTL

(* Also with cancel() on the watcher thread no more than max_concurrency   *)
(* sockets are open at once.                                               *)
THEOREM InterruptedSockets == MainSpec => []OpenSocketsBounded
BY SocketsHoldSlots, ProgramInvariant, PTL

----------------------------------------------------------------------------
(* The program without an interrupt: what module Program takes from the    *)
(* engine.                                                                 *)

(* Whenever nobody has cancelled, the engine is in a state of its own      *)
(* specification's invariant.                                              *)
LEMMA CalmInvariant == MainSpec => [](EngineInv /\ HostInv /\ CancellingInv /\ CalmInv)
<1>1. MainInit => CancellingInv /\ CalmInv
  BY RaceInit DEF MainInit, CancellingInv, CalmInv
<1>2. EngineInv /\ CancellingInv /\ CalmInv /\ [MainNext]_programVars => CancellingInv' /\ CalmInv'
  BY CancellingNext, CalmNext
<1> QED BY <1>1, <1>2, ProgramInvariant, PTL DEF MainSpec

(* Where the system refuses no socket, the scan that main() started throws *)
(* only after the watcher has requested its cancellation.                  *)
THEOREM OnlyInterruptsThrow ==
  ASSUME ~OpenMayFail
  PROVE  MainSpec => []ThrowsOnlyIfCancelled
<1>1. EngineInv /\ CalmInv => ThrowsOnlyIfCancelled
  BY DEF CalmInv, RaceInv, ThrowInv, ThrowsOnlyIfCancelled
<1> QED BY <1>1, CalmInvariant, PTL

(* The results of distinct targets, in whichever thread cancel() runs.     *)
LEMMA ResultInvariant ==
  ASSUME Distinct(targets)
  PROVE  MainSpec => []ResultInv
<1>1. MainInit => ResultInv
  <2> SUFFICES ASSUME MainInit PROVE ResultInv
    OBVIOUS
  <2>1. DOMAIN host_states_ = {}
    BY DEF MainInit, Init
  <2> QED BY <2>1 DEF ResultInv, CountdownInv, KeptInv, RowsInv, MainInit, Init
<1>2. EngineInv /\ HostInv /\ EngineInv' /\ ResultInv /\ [MainNext]_programVars => ResultInv'
  BY ProgramResults DEF KeepInv
<1> QED BY <1>1, <1>2, ProgramInvariant, PTL DEF MainSpec

(* An interrupted scan of distinct targets loses no result that was        *)
(* reported: whenever the watcher calls cancel(), the summary run()        *)
(* returns holds each of them once, in its own host's entry.  (A port      *)
(* whose operation the watcher silenced has none: see the run              *)
(* main_lost_result.)                                                      *)
THEOREM InterruptedResults ==
  ASSUME Distinct(targets)
  PROVE  MainSpec => []NoResultLost
<1>1. ResultInv => NoResultLost
  BY DEF ResultInv, RowsInv, NoResultLost, Reported
<1> QED BY <1>1, ResultInvariant, PTL

(* Until a cancellation the invariant of an engine with distinct targets   *)
(* holds.                                                                  *)
LEMMA CalmScan ==
  ASSUME Distinct(targets)
  PROVE  MainSpec => [](~cancel_requested_ => ScanInv)
<1> DEFINE FullIfCalm == ~cancel_requested_ => FullInv
           Inv == EngineInv /\ HostInv /\ CancellingInv /\ CalmInv
<1>1. MainInit => FullIfCalm
  BY DEF MainInit, Init, FullInv, Ended
<1>2. Inv /\ ResultInv /\ EngineInv' /\ FullIfCalm /\ [MainNext]_programVars => FullIfCalm'
  <2> SUFFICES ASSUME Inv, ResultInv, EngineInv', FullIfCalm, [MainNext]_programVars,
                      ~cancel_requested_'
               PROVE  FullInv'
    OBVIOUS
  <2>1. ~cancel_requested_ /\ [Next]_vars
    BY CalmStep
  <2> QED BY <2>1, FullNext DEF CalmInv, ScanInv, KeepInv
<1>3. Inv /\ ResultInv /\ FullIfCalm => (~cancel_requested_ => ScanInv)
  BY DEF CalmInv, ScanInv, KeepInv
<1> QED BY <1>1, <1>2, <1>3, CalmInvariant, ResultInvariant, PTL DEF MainSpec

(* A scan that nobody interrupts leaves the queue empty and nothing in     *)
(* flight when run() returns to main().                                    *)
THEOREM UndisturbedDrains ==
  ASSUME Distinct(targets), max_concurrency > 0
  PROVE  MainSpec => []DrainedAtReturn
<1>1. (~cancel_requested_ => ScanInv) => DrainedAtReturn
  BY DrainedByInv DEF DrainedAtReturn
<1> QED BY <1>1, CalmScan, PTL

(* A scan that nobody interrupts gives main() a summary with one result    *)
(* for each requested port of each host.                                   *)
THEOREM UndisturbedResults ==
  ASSUME Distinct(targets), Distinct(ports), max_concurrency > 0
  PROVE  MainSpec => []HostResultsComplete
<1>1. (~cancel_requested_ => ScanInv) => HostResultsComplete
  BY DrainedByInv, CompleteByInv DEF HostResultsComplete
<1> QED BY <1>1, CalmScan, PTL

=============================================================================
