---------------------------- MODULE ScanContract ----------------------------
(***************************************************************************)
(* What Scanner promises its caller (src/scanner/scanner.hpp), without     *)
(* sockets, timers or an event loop: jobs are started in order, at most    *)
(* Window at a time, each is reported once, a host is published when its   *)
(* last job is reported, cancellation stops the starting of jobs, and      *)
(* run() ends with every host published.  Module ScanRefinement shows that *)
(* module Scanner implements it.                                           *)
(***************************************************************************)
EXTENDS Integers, FiniteSets

CONSTANTS
  Jobs,     \* an interval 1 .. n: the requested (host, port) pairs
  HostOf,   \* the host of each job
  Window,   \* how many jobs may run at once
  MayRefuse \* may the system refuse a socket?

VARIABLES running, reported, cancelled, published, outcome

cvars == <<running, reported, cancelled, published, outcome>>

AllHosts == {HostOf[j] : j \in Jobs}
JobsOf(h) == {j \in Jobs : HostOf[j] = h}
Waiting == Jobs \ (running \cup reported)

CInit ==
  /\ running = {} /\ reported = {} /\ published = {}
  /\ cancelled = FALSE /\ outcome = "none"

(* The caller asks for cancellation, possibly from inside a report.        *)
Request ==
  /\ outcome = "none"
  /\ cancelled' = TRUE
  /\ UNCHANGED <<running, reported, published, outcome>>

Start(j) ==
  /\ outcome = "none" /\ ~cancelled
  /\ j \in Waiting /\ \A k \in Waiting : j <= k
  /\ Cardinality(running) < Window
  /\ running' = running \cup {j}
  /\ UNCHANGED <<reported, cancelled, published, outcome>>

(* The report of a host's last job publishes the host; the last report of  *)
(* a cancelled scan publishes every host.                                  *)
Report(j) ==
  /\ outcome = "none" /\ j \in running
  /\ running' = running \ {j}
  /\ reported' = reported \cup {j}
  /\ cancelled' \in {cancelled, TRUE}
  /\ published' = IF cancelled' /\ running' = {} THEN AllHosts
                  ELSE {h \in AllHosts : h \in published \/ JobsOf(h) \subseteq reported'}
  /\ UNCHANGED outcome

(* A cancelled scan with nothing running publishes what it has.            *)
PublishPartial ==
  /\ outcome = "none" /\ cancelled /\ running = {}
  /\ published' = AllHosts
  /\ UNCHANGED <<running, reported, cancelled, outcome>>

Return ==
  /\ outcome = "none" /\ running = {}
  /\ Waiting # {} => cancelled
  /\ published' = AllHosts
  /\ outcome' = "summary"
  /\ UNCHANGED <<running, reported, cancelled>>

(* What the code adds to the documented contract: a cancelled scan may end *)
(* in an exception instead of a partial summary, and so may one that is    *)
(* refused a socket.                                                       *)
Throw ==
  /\ outcome = "none" /\ (cancelled \/ MayRefuse)
  /\ outcome' = "exception"
  /\ UNCHANGED <<running, reported, cancelled, published>>

Progress == (\E j \in Jobs : Start(j) \/ Report(j)) \/ Return \/ Throw
CNext == Progress \/ Request \/ PublishPartial

Contract == CInit /\ [][CNext]_cvars /\ WF_cvars(Progress)

=============================================================================
