------------------------------ MODULE ScanMain ------------------------------
(***************************************************************************)
(* The program (src/main.cpp): the scanning thread of module Scanner, the  *)
(* signal handler, and the cancel_watcher thread that polls the signal's   *)
(* flag and calls scanner.cancel() from outside the scanning thread.       *)
(* cancel() takes no lock, so its steps interleave with the engine's.      *)
(*                                                                         *)
(* main.cpp gives the Scanner no callbacks, so Cancel of module Scanner is *)
(* never used here; cancel() is taken apart into the watcher's steps.      *)
(* WatcherNotTold, WatcherDetached and ShellCodes are defective variants   *)
(* of the definitions that follow them, which no step uses.                *)
(***************************************************************************)
EXTENDS ScannerProperties

VARIABLES
  program,                \* main() around scanner.run()
  exit_code,              \* what main() returns; -1 until it does
  g_interrupt_requested,  \* set by the signal handler
  scan_finished,
  watcher,                \* where the cancel_watcher thread is
  cancel_sent,
  gathered                \* the local vector of sockets or timers in cancel()

mainVars == <<program, exit_code, scan_finished>>
watcherVars == <<watcher, cancel_sent, gathered>>
engineVars == vars
programVars == <<engineVars, mainVars, watcherVars, g_interrupt_requested>>

MainInit ==
  /\ Init
  /\ program = "run" /\ exit_code = -1 /\ scan_finished = FALSE
  /\ g_interrupt_requested = FALSE
  /\ watcher = "poll" /\ cancel_sent = FALSE /\ gathered = {}

Exited == program \in {"exited", "crashed"}

(* SIGINT or SIGTERM, at any time.                                         *)
HandleInterruptSignal ==
  /\ ~g_interrupt_requested /\ ~Exited
  /\ g_interrupt_requested' = TRUE
  /\ UNCHANGED <<engineVars, mainVars, watcherVars>>

----------------------------------------------------------------------------
(* The cancel_watcher thread                                               *)

WatcherExits ==
  /\ watcher = "poll" /\ scan_finished
  /\ watcher' = "exited"
  /\ UNCHANGED <<engineVars, mainVars, cancel_sent, gathered, g_interrupt_requested>>

WatcherSeesInterrupt ==
  /\ watcher = "poll" /\ ~scan_finished
  /\ g_interrupt_requested /\ ~cancel_sent
  /\ watcher' = "cancel"
  /\ UNCHANGED <<engineVars, mainVars, cancel_sent, gathered, g_interrupt_requested>>

CancelRequested ==
  /\ watcher = "cancel"
  /\ cancel_requested_' = TRUE
  /\ watcher' = "gather_sockets"
  /\ UNCHANGED <<threadVars, queueVars, hostVars, activeVars, opVars, posted, mainVars,
                 cancel_sent, gathered, g_interrupt_requested>>

GatherSockets ==
  /\ watcher = "gather_sockets"
  /\ gathered' = active_sockets_
  /\ watcher' = "close_sockets"
  /\ UNCHANGED <<engineVars, mainVars, cancel_sent, g_interrupt_requested>>

(* The next element of the local vector.                                   *)
NextGathered == CHOOSE t \in gathered : \A u \in gathered : t <= u

CloseSocket ==
  /\ watcher = "close_sockets" /\ gathered # {}
  /\ socket' = Closed({NextGathered})
  /\ ready' = [ready EXCEPT ![NextGathered] = @ \o AbortedConnect(gathered, NextGathered)]
  /\ gathered' = gathered \ {NextGathered}
  /\ UNCHANGED <<threadVars, queueVars, hostVars, activeVars, completed, timer, cancelVars,
                 mainVars, watcher, cancel_sent, g_interrupt_requested>>

SocketsClosed ==
  /\ watcher = "close_sockets" /\ gathered = {}
  /\ watcher' = "gather_timers"
  /\ UNCHANGED <<engineVars, mainVars, cancel_sent, gathered, g_interrupt_requested>>

GatherTimers ==
  /\ watcher = "gather_timers"
  /\ gathered' = active_timers_
  /\ watcher' = "cancel_timers"
  /\ UNCHANGED <<engineVars, mainVars, cancel_sent, g_interrupt_requested>>

CancelTimer ==
  /\ watcher = "cancel_timers" /\ gathered # {}
  /\ timer' = Disarmed({NextGathered})
  /\ ready' = [ready EXCEPT ![NextGathered] = @ \o AbortedTimer(gathered, NextGathered)]
  /\ gathered' = gathered \ {NextGathered}
  /\ UNCHANGED <<threadVars, queueVars, hostVars, activeVars, completed, socket, cancelVars,
                 mainVars, watcher, cancel_sent, g_interrupt_requested>>

(* The last step of cancel(); the watcher then goes on polling.            *)
PostCancelHandler ==
  /\ watcher = "cancel_timers" /\ gathered = {}
  /\ posted' = TRUE
  /\ cancel_sent' = TRUE
  /\ watcher' = "poll"
  /\ UNCHANGED <<threadVars, queueVars, hostVars, activeVars, opVars, cancel_requested_,
                 mainVars, gathered, g_interrupt_requested>>

WatcherStep ==
  \/ WatcherExits \/ WatcherSeesInterrupt \/ CancelRequested
  \/ GatherSockets \/ CloseSocket \/ SocketsClosed
  \/ GatherTimers \/ CancelTimer \/ PostCancelHandler

----------------------------------------------------------------------------
(* main()                                                                  *)

Iterating == watcher \in {"gather_sockets", "gather_timers"}

(* The engine's vectors are not synchronised.  Growing one while the       *)
(* watcher iterates over it is a data race: the iteration may still see    *)
(* the old or the new vector, as in the interleavings, or the program dies *)
(* on freed memory.                                                        *)
TrackWhileIterated ==
  /\ program = "run" /\ main = "scan_port_async" /\ Iterating
  /\ program' = "crashed"
  /\ watcher' = "exited"
  /\ UNCHANGED <<engineVars, exit_code, scan_finished, cancel_sent, gathered,
                 g_interrupt_requested>>

ScanStep ==
  /\ program = "run"
  /\ ThreadStep
  /\ UNCHANGED <<mainVars, watcherVars, g_interrupt_requested>>

WatcherNotTold ==
  /\ program = "run" /\ Stopped
  /\ program' = "join"
  /\ UNCHANGED <<engineVars, exit_code, scan_finished, watcherVars, g_interrupt_requested>>

(* stop_watcher(), on the normal and on the exceptional way out of run().  *)
StopWatcher ==
  /\ program = "run" /\ Stopped
  /\ scan_finished' = TRUE
  /\ program' = "join"
  /\ UNCHANGED <<engineVars, exit_code, watcherVars, g_interrupt_requested>>

WatcherDetached ==
  /\ program = "join"
  /\ program' = "write_output"
  /\ UNCHANGED <<engineVars, exit_code, scan_finished, watcherVars, g_interrupt_requested>>

JoinWatcher ==
  /\ program = "join" /\ watcher = "exited"
  /\ IF main = "threw"
     THEN program' = "exited" /\ exit_code' = 1
     ELSE program' = "write_output" /\ UNCHANGED exit_code
  /\ UNCHANGED <<engineVars, scan_finished, watcherVars, g_interrupt_requested>>

(* What a shell reports for a program stopped by SIGINT, against main()'s.  *)
ShellCodes == {0, 1, 130}
ExitCodes == {0, 1}

(* write_output fails when the output file cannot be opened.               *)
WriteOutput ==
  /\ program = "write_output"
  /\ exit_code' \in ExitCodes
  /\ program' = "exited"
  /\ UNCHANGED <<engineVars, scan_finished, watcherVars, g_interrupt_requested>>

MainStep == ScanStep \/ TrackWhileIterated \/ StopWatcher \/ JoinWatcher \/ WriteOutput

NetworkStep ==
  /\ program = "run"
  /\ Network
  /\ UNCHANGED <<mainVars, watcherVars, g_interrupt_requested>>

AfterExit == Exited /\ UNCHANGED programVars

MainNext == MainStep \/ WatcherStep \/ HandleInterruptSignal \/ NetworkStep \/ AfterExit
MainSpec == MainInit /\ [][MainNext]_programVars

(* Both threads are scheduled, armed timers expire, and the system gives   *)
(* up on a connect that nobody answers.                                    *)
MainFairness ==
  /\ WF_programVars(MainStep)
  /\ WF_programVars(WatcherStep)
  /\ \A t \in Tasks :
       /\ WF_programVars(NetworkStep /\ TimerExpires(t))
       /\ WF_programVars(NetworkStep /\ \E ec \in Answers : ConnectAnswered(t, ec))
FairMainSpec == MainSpec /\ MainFairness

----------------------------------------------------------------------------
(* Properties                                                              *)

(* The type of the program's own variables.                                *)
MainTypeOK ==
  /\ program \in {"run", "join", "write_output", "exited", "crashed"}
  /\ exit_code \in {-1, 0, 1}
  /\ g_interrupt_requested \in BOOLEAN /\ scan_finished \in BOOLEAN
  /\ watcher \in {"poll", "cancel", "gather_sockets", "close_sockets", "gather_timers",
                  "cancel_timers", "exited"}
  /\ cancel_sent \in BOOLEAN /\ gathered \subseteq Tasks

(* The output is written, and the Scanner destroyed, only when the watcher *)
(* can no longer be inside cancel(); and exit code 0 means that run()      *)
(* returned a summary in which every host was finalized.                   *)
ExitIsOrderly ==
  /\ program \in {"write_output", "exited"} => watcher = "exited"
  /\ exit_code = 0 => main = "returned" /\ DOMAIN host_states_ = {}

(* An interrupted scan ends: with the scan interrupted at any point the    *)
(* program still exits.                                                    *)
ProgramExits == <>Exited

=============================================================================
