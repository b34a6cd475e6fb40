--------------------------- MODULE DistinctProofs ---------------------------
(***************************************************************************)
(* Theorems about scans in which no target is given twice.  Then every     *)
(* result finds its host in the map, so that each completion schedules     *)
(* the next task: the window stays full, the queue drains, and every       *)
(* result ends up in the summary.                                          *)
(***************************************************************************)
EXTENDS ScanRefinement, OperationProofs

Left(h) == {t \in Tasks : TaskHost(t) = h /\ reports[t] = 0}

(* pending_ports counts the tasks of the host that have not reported; a    *)
(* host without any has left the map.                                      *)
CountdownInv ==
  \A h \in DOMAIN host_states_ :
    host_states_[h].pending_ports = Cardinality(Left(h)) /\ Left(h) # {}

(* Until run() returns, a host stays in the map as long as a result for it *)
(* may come.                                                               *)
KeptInv ==
  /\ main = "idle" => next_task = 1
  /\ main \notin {"idle", "returned"} =>
       \A t \in Tasks :
         reports[t] = 0 /\ (t \in Started \/ ~cancel_requested_)
           => TaskHost(t) \in DOMAIN host_states_

(* The slots in use, those the batch loop will fill and the one being      *)
(* filled are BatchSize, as long as there are tasks to fill them with.     *)
FullInv ==
  /\ main \in {"run"} \cup Ended => batch_left = 0
  /\ main \notin {"idle", "threw"} /\ ~cancel_requested_ /\ ~QueueEmpty =>
       in_flight_count_ + batch_left + (IF main = "schedule_next_task" THEN 1 ELSE 0)
         = BatchSize

Reported(h, p) == {t \in Tasks : TaskHost(t) = h /\ TaskPort(t) = p /\ reports[t] = 1}

(* A host's entry, in the map or completed, holds the results reported.    *)
RowsInv ==
  \A h \in Hosts : \A p \in Ports :
    /\ h \in DOMAIN host_states_ =>
         ResultCount(h, p, host_states_[h].ports) = Cardinality(Reported(h, p))
    /\ main # "idle" => \A i \in DOMAIN completed_hosts_[h] :
         ResultCount(h, p, completed_hosts_[h][i]) = Cardinality(Reported(h, p))

----------------------------------------------------------------------------
(* Which task is whose                                                     *)

(* Division with remainder.                                                *)
LEMMA Division ==
  ASSUME NEW n \in Nat \ {0}, NEW k \in Nat
  PROVE  k = n * (k \div n) + (k % n)
OBVIOUS

(* Division is unique.                                                     *)
LEMMA DivisionUnique ==
  ASSUME NEW n \in Nat \ {0}, NEW q \in Nat, NEW r \in 0 .. (n - 1)
  PROVE  (n * q + r) \div n = q /\ (n * q + r) % n = r
<1> DEFINE k == n * q + r
           d == k \div n
           m == k % n
<1>1. k \in Nat
  OBVIOUS
<1>2. k = n * d + m /\ m \in 0 .. (n - 1) /\ d \in Int
  BY <1>1
<1> HIDE DEF d, m
<1>3. n * (q - d) = m - r
  BY <1>2
<1>4. CASE q >= d + 1
  <2>1. n * (q - d) >= n
    BY <1>2, <1>4
  <2> QED BY <2>1, <1>2, <1>3
<1>5. CASE d >= q + 1
  <2>1. n * (d - q) >= n
    BY <1>2, <1>5
  <2>2. n * (d - q) = r - m
    BY <1>2
  <2> QED BY <2>1, <2>2, <1>2
<1>6. CASE d = q
  BY <1>2, <1>3, <1>6 DEF d, m
<1> QED BY <1>2, <1>4, <1>5, <1>6

(* The tasks of the i-th target are the i-th block of Len(ports) tasks, in *)
(* the order of the ports.                                                 *)
LEMMA TaskIndex ==
  ASSUME NEW i \in 1 .. Len(targets), NEW j \in 1 .. Len(ports)
  PROVE  /\ Len(ports) * (i - 1) + j \in Tasks
         /\ TaskHost(Len(ports) * (i - 1) + j) = targets[i]
         /\ TaskPort(Len(ports) * (i - 1) + j) = ports[j]
<1> DEFINE n == Len(ports)
           t == n * (i - 1) + j
<1>1. n \in Nat \ {0} /\ Len(targets) \in Nat
  BY ConfigFacts
<1>2. (t - 1) \div n = i - 1 /\ (t - 1) % n = j - 1
  <2>1. i - 1 \in Nat /\ j - 1 \in 0 .. (n - 1)
    BY <1>1
  <2>2. t - 1 = n * (i - 1) + (j - 1)
    BY <1>1
  <2> QED BY <1>1, <2>1, <2>2, DivisionUnique
<1>3. n * (i - 1) + n <= n * Len(targets)
  <2>1. i - 1 + 1 <= Len(targets)
    BY <1>1
  <2> QED BY <1>1, <2>1
<1>4. t \in Tasks
  BY <1>1, <1>3 DEF Tasks, NumTasks
<1>5. TaskHost(t) = targets[i] /\ TaskPort(t) = ports[j]
  BY <1>1, <1>2 DEF TaskHost, TaskPort
<1> QED BY <1>4, <1>5

(* Every task is in such a block.                                          *)
LEMMA TaskBlock ==
  ASSUME NEW t \in Tasks
  PROVE  \E i \in 1 .. Len(targets), j \in 1 .. Len(ports) :
           /\ t = Len(ports) * (i - 1) + j
           /\ TaskHost(t) = targets[i] /\ TaskPort(t) = ports[j]
<1> DEFINE n == Len(ports)
           d == (t - 1) \div n
           m == (t - 1) % n
<1>1. n \in Nat \ {0} /\ Len(targets) \in Nat
  BY ConfigFacts
<1>2. t - 1 \in 0 .. (Len(targets) * n - 1)
  BY <1>1 DEF Tasks, NumTasks
<1>3. d \in 0 .. (Len(targets) - 1) /\ m \in 0 .. (n - 1)
  BY <1>1, <1>2, QuotientBound
<1>4. t - 1 = n * d + m
  <2>1. t - 1 \in Nat
    BY DEF Tasks
  <2> HIDE DEF n
  <2> QED BY <1>1, <2>1, Division
<1> HIDE DEF d, m
<1>5. t = n * ((d + 1) - 1) + (m + 1)
  BY <1>1, <1>3, <1>4 DEF Tasks
<1>6. d + 1 \in 1 .. Len(targets) /\ m + 1 \in 1 .. n
  BY <1>1, <1>3
<1>7. TaskHost(t) = targets[d + 1] /\ TaskPort(t) = ports[m + 1]
  BY DEF TaskHost, TaskPort, d, m
<1> QED BY <1>5, <1>6, <1>7

(* With distinct targets a host has Len(ports) tasks.                      *)
LEMMA HostTasks ==
  ASSUME Distinct(targets), NEW h \in Hosts
  PROVE  Cardinality({t \in Tasks : TaskHost(t) = h}) = Len(ports)
<1> DEFINE n == Len(ports)
<1>1. n \in Nat \ {0} /\ Len(targets) \in Nat /\ DOMAIN targets = 1 .. Len(targets)
  BY ConfigFacts, ScanAssumption
<1>2. PICK i \in 1 .. Len(targets) : h = targets[i]
  BY <1>1 DEF Hosts
<1> DEFINE a == n * (i - 1) + 1
           b == n * (i - 1) + n
<1>3. a \in Int /\ b \in Int /\ b - a + 1 = n /\ a <= b
  BY <1>1
<1>4. ASSUME NEW t \in Tasks, TaskHost(t) = h PROVE t \in a .. b
  <2>1. PICK k \in 1 .. Len(targets), j \in 1 .. n :
           t = n * (k - 1) + j /\ TaskHost(t) = targets[k]
    BY TaskBlock
  <2>2. k = i
    BY <1>1, <1>2, <1>4, <2>1 DEF Distinct
  <2> QED BY <1>1, <2>1, <2>2
<1>5. ASSUME NEW t \in a .. b PROVE t \in Tasks /\ TaskHost(t) = h
  <2>1. t - n * (i - 1) \in 1 .. n
    BY <1>1, <1>3
  <2>2. t = n * (i - 1) + (t - n * (i - 1))
    BY <1>1, <1>3
  <2> QED BY <1>2, <2>1, <2>2, TaskIndex
<1>6. {t \in Tasks : TaskHost(t) = h} = a .. b
  BY <1>4, <1>5
<1> HIDE DEF a, b, n
<1>7. Cardinality(a .. b) = n
  BY <1>3, FS_Interval
<1> QED BY <1>6, <1>7 DEF n

(* With distinct targets and ports no two tasks probe the same port of the *)
(* same host, and every port of every host is probed.                      *)
LEMMA TaskUnique ==
  ASSUME Distinct(targets), Distinct(ports), NEW h \in Hosts, NEW p \in Ports
  PROVE  \E t \in Tasks : {u \in Tasks : TaskHost(u) = h /\ TaskPort(u) = p} = {t}
<1>1. Len(ports) \in Nat /\ Len(targets) \in Nat
      /\ DOMAIN targets = 1 .. Len(targets) /\ DOMAIN ports = 1 .. Len(ports)
  BY ConfigFacts, ScanAssumption
<1>2. PICK i \in 1 .. Len(targets) : h = targets[i]
  BY <1>1 DEF Hosts
<1>3. PICK j \in 1 .. Len(ports) : p = ports[j]
  BY <1>1 DEF Ports
<1> DEFINE t == Len(ports) * (i - 1) + j
<1>4. t \in Tasks /\ TaskHost(t) = h /\ TaskPort(t) = p
  BY <1>2, <1>3, TaskIndex
<1>5. ASSUME NEW u \in Tasks, TaskHost(u) = h, TaskPort(u) = p PROVE u = t
  <2>1. PICK k \in 1 .. Len(targets), l \in 1 .. Len(ports) :
          /\ u = Len(ports) * (k - 1) + l
          /\ TaskHost(u) = targets[k] /\ TaskPort(u) = ports[l]
    BY TaskBlock
  <2>2. k = i /\ l = j
    BY <1>1, <1>2, <1>3, <1>5, <2>1 DEF Distinct
  <2> QED BY <2>1, <2>2
<1> QED BY <1>4, <1>5

----------------------------------------------------------------------------
(* Counting                                                                *)

(* The sets of tasks counted are finite.                                   *)
LEMMA TasksFinite ==
  ASSUME NEW S, S \subseteq Tasks
  PROVE  IsFiniteSet(S) /\ Cardinality(S) \in Nat
<1>1. IsFiniteSet(Tasks)
  BY ConfigFacts, FS_Interval DEF Tasks
<1> QED BY <1>1, FS_Subset, FS_CardinalityType

(* A list with one more result has one more for that result's port.        *)
LEMMA CountAppend ==
  ASSUME NEW h, NEW p, NEW s \in Seq(Results), NEW r \in Results
  PROVE  ResultCount(h, p, Append(s, r)) = ResultCount(h, p, s) + (IF r.port = p THEN 1 ELSE 0)
<1> DEFINE S == {i \in DOMAIN s : s[i].port = p}
           S2 == {i \in DOMAIN Append(s, r) : Append(s, r)[i].port = p}
<1>1. /\ Len(s) \in Nat /\ DOMAIN s = 1 .. Len(s) /\ DOMAIN Append(s, r) = 1 .. (Len(s) + 1)
      /\ Append(s, r)[Len(s) + 1] = r /\ \A i \in 1 .. Len(s) : Append(s, r)[i] = s[i]
  OBVIOUS
<1>2. IsFiniteSet(S) /\ Cardinality(S) \in Nat
  <2>1. IsFiniteSet(1 .. Len(s))
    BY <1>1, FS_Interval
  <2>2. S \subseteq 1 .. Len(s)
    BY <1>1
  <2> QED BY <2>1, <2>2, FS_Subset, FS_CardinalityType
<1>0. ResultCount(h, p, s) = Cardinality(S) /\ ResultCount(h, p, Append(s, r)) = Cardinality(S2)
  BY DEF ResultCount
<1>3. CASE r.port = p
  <2>1. S2 = S \cup {Len(s) + 1} /\ Len(s) + 1 \notin S
    BY <1>1, <1>3
  <2>2. Cardinality(S2) = Cardinality(S) + 1
    BY <1>2, <2>1, FS_AddElement
  <2> QED BY <1>0, <1>3, <2>2
<1>4. CASE r.port # p
  <2>1. S2 = S
    BY <1>1, <1>4
  <2> HIDE DEF S, S2
  <2> QED BY <1>0, <1>2, <1>4, <2>1
<1> QED BY <1>3, <1>4

(* What a report does to the counts of tasks.                              *)
LEMMA ReportCounts ==
  ASSUME EngineInv, current \in Unreported, OpReported
  PROVE  /\ current \in Tasks
         /\ \A t \in Tasks : reports'[t] = IF t = current THEN 1 ELSE reports[t]
         /\ \A h : Left(h)' = Left(h) \ {current}
         /\ current \in Left(TaskHost(current))
         /\ \A h, p : Reported(h, p)' = IF h = TaskHost(current) /\ p = TaskPort(current)
                                        THEN Reported(h, p) \cup {current} ELSE Reported(h, p)
         /\ \A h, p : current \notin Reported(h, p)
<1>1. current \in Tasks /\ reports[current] = 0
  BY UnreportedTasks DEF Unreported
<1>2. reports' = [reports EXCEPT ![current] = 1]
  BY <1>1 DEF OpReported, EngineInv, TypeOK, ThreadTypeOK
<1>3. \A t \in Tasks : reports'[t] = IF t = current THEN 1 ELSE reports[t]
  BY <1>1, <1>2 DEF EngineInv, TypeOK, ThreadTypeOK
<1>4. \A h : Left(h)' = Left(h) \ {current}
  BY <1>1, <1>3 DEF Left
<1>5. current \in Left(TaskHost(current))
  BY <1>1 DEF Left
<1>6. ASSUME NEW h, NEW p
      PROVE  Reported(h, p)' = IF h = TaskHost(current) /\ p = TaskPort(current)
                               THEN Reported(h, p) \cup {current} ELSE Reported(h, p)
  BY <1>1, <1>3 DEF Reported
<1>7. \A h, p : current \notin Reported(h, p)
  BY <1>1 DEF Reported
<1> QED BY <1>1, <1>3, <1>4, <1>5, <1>6, <1>7

----------------------------------------------------------------------------
(* The steps                                                               *)

(* What is said of the results needs nothing of the race between connect   *)
(* and timer, so that module ScanMainProofs can use it where cancel() runs *)
(* on another thread.                                                      *)
ResultInv == CountdownInv /\ KeptInv /\ RowsInv
KeepInv == EngineInv /\ HostInv /\ ResultInv
ScanInv == KeepInv /\ RaceInv /\ FullInv

(* With distinct targets the map starts with the right count for each host.*)
LEMMA RunBeginsResults ==
  ASSUME Distinct(targets), KeepInv, RunBegins
  PROVE  ResultInv'
<1> USE DEF KeepInv, ResultInv
<1>1. /\ host_states_' = [h \in Hosts |-> [ports |-> << >>, pending_ports |-> Len(ports)]]
      /\ main = "idle" /\ main' \in {"schedule_initial_batch", "run"}
      /\ UNCHANGED <<reports, completed_hosts_, next_task, cancel_requested_>>
  BY DEF RunBegins, queueVars, cancelVars
<1>2. next_task = 1
  BY <1>1 DEF KeptInv
<1>3. \A t \in Tasks : reports[t] = 0
  BY <1>2 DEF EngineInv, OperationInv, Started
<1>4. CountdownInv'
  <2>1. \A h : Left(h)' = {t \in Tasks : TaskHost(t) = h}
    BY <1>1, <1>3 DEF Left
  <2>2. \A h \in Hosts : Cardinality(Left(h)') = Len(ports) /\ Left(h)' # {}
    BY <2>1, HostTasks, FS_EmptySet, ConfigFacts
  <2> QED BY <1>1, <2>2 DEF CountdownInv
<1>5. KeptInv'
  BY <1>1, TaskFacts DEF KeptInv
<1>6. RowsInv'
  <2>1. \A h, p : Cardinality(Reported(h, p)') = 0
    <3>1. \A h, p : Reported(h, p)' = {}
      BY <1>1, <1>3 DEF Reported
    <3> QED BY <3>1, FS_EmptySet
  <2>2. \A h, p : ResultCount(h, p, << >>) = 0
    <3>1. \A p : {i \in DOMAIN << >> : << >>[i].port = p} = {}
      OBVIOUS
    <3> QED BY <3>1, FS_EmptySet DEF ResultCount
  <2>3. \A h \in Hosts : host_states_'[h].ports = << >>
    BY <1>1
  <2>4. ASSUME NEW h \in Hosts PROVE DOMAIN completed_hosts_'[h] = {}
    <3>1. completed_hosts_[h] \in Seq(Seq(Results))
      BY DEF EngineInv, TypeOK, HostTypeOK
    <3>2. Occurrences(h, host_states_, completed_hosts_) = 0
      BY <1>1 DEF HostInv
    <3>3. Len(completed_hosts_[h]) = 0
      <4>1. Len(completed_hosts_[h]) \in Nat
        BY <3>1
      <4>2. CASE h \in DOMAIN host_states_
        BY <3>2, <4>1, <4>2 DEF Occurrences
      <4>3. CASE h \notin DOMAIN host_states_
        BY <3>2, <4>1, <4>3 DEF Occurrences
      <4> QED BY <4>2, <4>3
    <3> QED BY <1>1, <3>1, <3>3
  <2> QED BY <2>1, <2>2, <2>3, <2>4 DEF RowsInv
<1> QED BY <1>4, <1>5, <1>6

(* Steps that report nothing and move no host.                             *)
UnmovedStep ==
  \/ ScheduleInitialBatch \/ Scheduling \/ IoContextReturns
  \/ (\E t \in Tasks : Handler(t)) \/ Network \/ CancelBeforeRun \/ UNCHANGED vars

(* What such a step may do.                                                *)
LEMMA UnmovedFacts ==
  ASSUME EngineInv, UnmovedStep
  PROVE  /\ UNCHANGED <<host_states_, completed_hosts_, reports>>
         /\ main' = "idle" <=> main = "idle"
         /\ main = "returned" => main' = "returned"
         /\ cancel_requested_ => cancel_requested_'
         /\ \/ next_task' = next_task
            \/ /\ next_task' = next_task + 1 /\ next_task \in Tasks
               /\ main = "schedule_next_task" /\ ~cancel_requested_
<1> USE DEF vars, threadVars, queueVars, hostVars, cancelVars
<1>1. CASE ScheduleInitialBatch \/ IoContextReturns
  BY <1>1 DEF ScheduleInitialBatch, IoContextReturns
<1>2. CASE Scheduling
  <2>1. CASE ScheduleNextTask
    <3>1. next_task \in Tasks
      BY <2>1, ConfigFacts DEF ScheduleNextTask, MaySchedule, QueueEmpty, Tasks, EngineInv, TypeOK,
         ThreadTypeOK
    <3> QED BY <2>1, <3>1 DEF ScheduleNextTask, MaySchedule
  <2>2. CASE ScheduleNothing \/ TrackOperation \/ ResolveFails \/ AsyncConnect \/ AsyncWait
    <3>1. CASE ScheduleNothing
      BY <3>1 DEF ScheduleNothing, Resume
    <3>2. CASE TrackOperation
      BY <3>2 DEF TrackOperation
    <3>3. CASE ResolveFails
      BY <3>3 DEF ResolveFails
    <3>4. CASE AsyncConnect
      BY <3>4 DEF AsyncConnect
    <3>5. CASE AsyncWait
      BY <3>5 DEF AsyncWait, Resume
    <3> QED BY <2>2, <3>1, <3>2, <3>3, <3>4, <3>5
  <2> QED BY <1>2, <2>1, <2>2 DEF Scheduling
<1>3. ASSUME NEW t \in Tasks, Handler(t)
      PROVE  /\ UNCHANGED <<host_states_, completed_hosts_, reports, cancel_requested_, next_task>>
             /\ main = "run" /\ main' \in {"run", "on_task_complete", "threw"}
  BY <1>3 DEF Handler, LateHandler, ConnectHandler, TimerHandler, TimerHandlerNoReport, Dispatches
<1>4. CASE Network \/ CancelBeforeRun \/ UNCHANGED vars
  BY <1>4 DEF Network, TimerExpires, NextEndpointRefused, ConnectAnswered, CancelBeforeRun, Cancel
<1> QED BY <1>1, <1>2, <1>3, <1>4 DEF UnmovedStep

(* They preserve what is said of the results.                              *)
LEMMA UnmovedResults ==
  ASSUME KeepInv, UnmovedStep
  PROVE  ResultInv'
<1> USE DEF KeepInv, ResultInv
<1>1. CountdownInv'
  BY UnmovedFacts DEF CountdownInv, Left
<1>2. KeptInv'
  BY UnmovedFacts DEF KeptInv, Started, EngineInv, TypeOK, ThreadTypeOK
<1>3. RowsInv'
  BY UnmovedFacts DEF RowsInv, Reported
<1> QED BY <1>1, <1>2, <1>3

(* A host that is finalized takes its rows along.                          *)
LEMMA MovedRows ==
  ASSUME EngineInv, HostInv, RowsInv, NEW states, NEW H, MovesHosts(states, H), main # "idle",
         \A h \in DOMAIN states, p \in Ports :
            ResultCount(h, p, states[h].ports) = Cardinality(Reported(h, p)'),
         \A h \in Hosts \ DOMAIN states, p \in Ports : Reported(h, p)' = Reported(h, p)
  PROVE  RowsInv'
<1> SUFFICES ASSUME NEW h \in Hosts, NEW p \in Ports
             PROVE  /\ h \in DOMAIN host_states_' =>
                         ResultCount(h, p, host_states_'[h].ports) = Cardinality(Reported(h, p)')
                    /\ \A i \in DOMAIN completed_hosts_'[h] :
                         ResultCount(h, p, completed_hosts_'[h][i]) = Cardinality(Reported(h, p)')
  BY DEF RowsInv
<1>1. /\ DOMAIN host_states_' = DOMAIN states \ H
      /\ \A g \in DOMAIN states \ H : host_states_'[g] = states[g]
      /\ completed_hosts_'[h] = IF h \in H THEN Append(completed_hosts_[h], states[h].ports)
                                           ELSE completed_hosts_[h]
      /\ DOMAIN states = DOMAIN host_states_
  BY DEF MovesHosts, Without, Finalized
<1>2. completed_hosts_[h] \in Seq(Seq(Results))
  BY DEF EngineInv, TypeOK, HostTypeOK
<1>3. Occurrences(h, host_states_, completed_hosts_) = 1
  BY DEF HostInv
<1>4. CASE h \in DOMAIN states
  <2>1. completed_hosts_[h] = << >>
    BY <1>1, <1>2, <1>3, <1>4 DEF Occurrences
  <2>2. \A i \in DOMAIN completed_hosts_'[h] : completed_hosts_'[h][i] = states[h].ports
    BY <1>1, <2>1
  <2> QED BY <1>1, <1>4, <2>2
<1>5. CASE h \notin DOMAIN states
  <2>1. h \notin H
    BY <1>1, <1>5 DEF MovesHosts
  <2> QED BY <1>1, <1>5, <2>1 DEF RowsInv
<1> QED BY <1>4, <1>5

(* OnTaskCompleteLate does not happen: the result's host is in the map.    *)
LEMMA NeverLate ==
  ASSUME KeepInv
  PROVE  ~OnTaskCompleteLate
<1>1. main = "on_task_complete" => current \in Tasks /\ current \in Started /\ reports[current] = 0
  BY UnreportedTasks DEF KeepInv, EngineInv, ControlInv, Unreported
<1> QED BY <1>1 DEF KeepInv, ResultInv, KeptInv, OnTaskCompleteLate

(* After a report pending_ports is again the number of tasks left.         *)
LEMMA UpdatedCount ==
  ASSUME KeepInv, OnTaskComplete, NEW h \in DOMAIN host_states_
  PROVE  Updated[h].pending_ports = Cardinality(Left(h)')
<1> USE DEF KeepInv, ResultInv
<1>1. main = "on_task_complete" /\ OpReported /\ TaskHost(current) \in DOMAIN host_states_
  BY DEF OnTaskComplete
<1>2. current \in Unreported
  BY <1>1 DEF EngineInv, ControlInv, Unreported
<1>3. IsFiniteSet(Left(h)) /\ Cardinality(Left(h)) \in Nat
  BY TasksFinite DEF Left
<1>4. CASE h = TaskHost(current)
  <2>1. Cardinality(Left(h)') = Cardinality(Left(h)) - 1
    BY <1>1, <1>2, <1>3, <1>4, ReportCounts, FS_RemoveElement
  <2>2. Updated[h].pending_ports = host_states_[h].pending_ports - 1
    BY <1>4 DEF Updated
  <2> QED BY <2>1, <2>2 DEF CountdownInv
<1>5. CASE h # TaskHost(current)
  <2>1. Left(h)' = Left(h) /\ Updated[h] = host_states_[h]
    BY <1>1, <1>2, <1>5, ReportCounts DEF Left, Updated
  <2> QED BY <2>1 DEF CountdownInv
<1> QED BY <1>4, <1>5

(* OnTaskComplete: the report's row and count go to the host's entry.      *)
LEMMA OnTaskCompleteResults ==
  ASSUME KeepInv, EngineInv', OnTaskComplete
  PROVE  ResultInv'
<1> USE DEF KeepInv, ResultInv
<1> DEFINE host == TaskHost(current)
<1>1. /\ main = "on_task_complete" /\ host \in DOMAIN host_states_ /\ OpReported
      /\ in_flight_count_' = in_flight_count_ - 1
      /\ main' = IF cancel_requested_' \/ QueueEmpty THEN Resume ELSE "schedule_next_task"
      /\ UNCHANGED <<batch_left, next_task>>
      /\ cancel_requested_ => cancel_requested_'
  BY DEF OnTaskComplete, SlotReleased, Callback, Cancel, cancelVars
<1>2. current \in Unreported
  BY <1>1 DEF EngineInv, ControlInv, Unreported
<1>3. MovesHosts(Updated, Finishing)
  BY OnTaskCompleteMoves
<1>4. /\ DOMAIN host_states_' = DOMAIN host_states_ \ Finishing
      /\ \A h \in DOMAIN host_states_ \ Finishing : host_states_'[h] = Updated[h]
      /\ DOMAIN Updated = DOMAIN host_states_
  BY <1>3 DEF MovesHosts, Without
<1>5. /\ \A h \in DOMAIN host_states_ \ {host} : Updated[h] = host_states_[h]
      /\ Updated[host].pending_ports = host_states_[host].pending_ports - 1
      /\ Updated[host].ports = Append(host_states_[host].ports, PortResult(TaskPort(current), result))
  BY <1>1 DEF Updated
<1>6. \A h \in DOMAIN host_states_ : Updated[h].pending_ports = Cardinality(Left(h)')
  BY UpdatedCount
<1>7. CountdownInv'
  <2>1. ASSUME NEW h \in DOMAIN host_states_ \ Finishing PROVE Left(h)' # {}
    <3>1. CASE h = host
      <4>1. Cardinality(Left(h)') # 0
        BY <1>6, <2>1, <3>1 DEF Finishing, HostDone
      <4> QED BY <4>1, FS_EmptySet
    <3>2. CASE h # host
      BY <1>1, <1>2, <2>1, <3>2, ReportCounts DEF CountdownInv, Left
    <3> QED BY <3>1, <3>2
  <2> QED BY <1>4, <1>6, <2>1 DEF CountdownInv
<1>8. KeptInv'
  <2> SUFFICES ASSUME NEW t \in Tasks, reports'[t] = 0,
                      t \in Started' \/ ~cancel_requested_'
               PROVE  TaskHost(t) \in DOMAIN host_states_'
    BY <1>1 DEF KeptInv, Resume
  <2>1. reports[t] = 0 /\ t # current
    BY <1>1, <1>2, ReportCounts
  <2>2. TaskHost(t) \in DOMAIN host_states_
    BY <1>1, <2>1 DEF KeptInv, Started
  <2>3. ~(TaskHost(t) = host /\ HostDone(Updated[host]))
    <3>1. t \in Left(TaskHost(t))'
      BY DEF Left
    <3>2. IsFiniteSet(Left(TaskHost(t))') /\ Left(TaskHost(t))' # {}
      BY <3>1, TasksFinite DEF Left
    <3>3. Cardinality(Left(TaskHost(t))') # 0
      BY <3>2, FS_EmptySet
    <3> QED BY <1>1, <1>6, <3>3 DEF HostDone
  <2>4. TaskHost(t) \notin IdleHosts(Updated)
    <3>1. CASE ~cancel_requested_'
      BY <3>1 DEF IdleHosts
    <3>2. CASE cancel_requested_'
      <4>1. t \in Unreported'
        BY <3>2 DEF Unreported
      <4>2. in_flight_count_' = Cardinality(Unreported')
        BY DEF EngineInv, CountInv
      <4>3. IsFiniteSet(Unreported')
        <5>1. Started \subseteq Tasks
          BY ConfigFacts DEF EngineInv, TypeOK, ThreadTypeOK, Started, Tasks
        <5>2. Unreported' \subseteq Tasks
          BY <1>1, <5>1 DEF Unreported, Started
        <5> QED BY <5>2, TasksFinite
      <4> QED BY <4>1, <4>2, <4>3, FS_EmptySet DEF IdleHosts
    <3> QED BY <3>1, <3>2
  <2> QED BY <1>4, <2>2, <2>3, <2>4 DEF Finishing
<1>9. RowsInv'
  <2>1. ASSUME NEW h \in DOMAIN Updated, NEW p \in Ports
        PROVE  ResultCount(h, p, Updated[h].ports) = Cardinality(Reported(h, p)')
    <3>1. h \in Hosts /\ host_states_[h].ports \in Seq(Results)
      BY <1>4 DEF EngineInv, TypeOK, HostTypeOK, IsHostMap
    <3>2. ResultCount(h, p, host_states_[h].ports) = Cardinality(Reported(h, p))
      BY <1>4, <3>1 DEF RowsInv
    <3>3. IsFiniteSet(Reported(h, p)) /\ Cardinality(Reported(h, p)) \in Nat
      BY TasksFinite DEF Reported
    <3>4. CASE h = host
      <4>1. PortResult(TaskPort(current), result) \in Results
        BY <1>2, UnreportedTasks, TaskFacts DEF Results, EngineInv, TypeOK, ThreadTypeOK
      <4>2. PortResult(TaskPort(current), result).port = TaskPort(current)
        BY DEF PortResult
      <4>3. ResultCount(h, p, Updated[h].ports)
              = ResultCount(h, p, host_states_[h].ports) + (IF TaskPort(current) = p THEN 1 ELSE 0)
        <5>1. Updated[h].ports = Append(host_states_[h].ports, PortResult(TaskPort(current), result))
          BY <1>5, <3>4
        <5> QED BY <3>1, <4>1, <4>2, <5>1, CountAppend
      <4>4. CASE TaskPort(current) = p
        <5>1. Cardinality(Reported(h, p)') = Cardinality(Reported(h, p)) + 1
          BY <1>1, <1>2, <3>3, <3>4, <4>4, ReportCounts, FS_AddElement
        <5> QED BY <3>2, <4>3, <4>4, <5>1
      <4>5. CASE TaskPort(current) # p
        <5>1. Reported(h, p)' = Reported(h, p)
          BY <1>1, <1>2, <4>5, ReportCounts
        <5> QED BY <3>2, <3>3, <4>3, <4>5, <5>1
      <4> QED BY <4>4, <4>5
    <3>5. CASE h # host
      <4>1. Reported(h, p)' = Reported(h, p)
        BY <1>1, <1>2, <3>5, ReportCounts
      <4> QED BY <1>4, <1>5, <3>2, <3>5, <4>1
    <3> QED BY <3>4, <3>5
  <2>2. \A h \in Hosts \ DOMAIN Updated, p \in Ports : Reported(h, p)' = Reported(h, p)
    BY <1>1, <1>2, <1>4, ReportCounts
  <2> QED BY <1>1, <1>3, <2>1, <2>2, MovedRows
<1> QED BY <1>7, <1>8, <1>9

(* CancelHandler and FinalizeIncompleteHosts: the hosts H the first        *)
(* finalizes wait for no result, and after the second run() has returned.  *)
LEMMA EndingResults ==
  ASSUME KeepInv, CancelHandler \/ FinalizeIncompleteHosts
  PROVE  ResultInv'
<1> USE DEF KeepInv, ResultInv
<1> DEFINE H == IF main = "run" THEN IdleHosts(host_states_) ELSE DOMAIN host_states_
<1>1. /\ MovesHosts(host_states_, H)
      /\ UNCHANGED <<reports, next_task>>
      /\ main = "run" => in_flight_count_' = in_flight_count_
      /\ cancel_requested_ => cancel_requested_'
      /\ \/ main = "run" /\ main' = "run" /\ cancel_requested_' = cancel_requested_
         \/ main = "finalize_incomplete_hosts" /\ main' = "returned"
  <2>1. CASE CancelHandler
    BY <2>1, IdleHostsInMap DEF CancelHandler, MovesHosts, EngineInv, TypeOK, HostTypeOK, threadVars, queueVars
  <2>2. CASE FinalizeIncompleteHosts
    BY <2>2 DEF FinalizeIncompleteHosts, MovesHosts, EngineInv, TypeOK, HostTypeOK, queueVars, cancelVars,
       Callback, Cancel
  <2> QED BY <2>1, <2>2
<1>2. /\ DOMAIN host_states_' = DOMAIN host_states_ \ H
      /\ \A h \in DOMAIN host_states_ \ H : host_states_'[h] = host_states_[h]
  BY <1>1 DEF MovesHosts, Without
<1>3. ASSUME main = "run", H # {} PROVE Unreported = {}
  <2>1. in_flight_count_ = 0
    BY <1>1, <1>3 DEF IdleHosts
  <2> QED BY <2>1, UnreportedTasks, TasksFinite, FS_EmptySet DEF EngineInv, CountInv
<1>4. main = "run" /\ H # {} => cancel_requested_'
  BY <1>1 DEF IdleHosts
<1> HIDE DEF H
<1>5. CountdownInv'
  BY <1>1, <1>2 DEF CountdownInv, Left
<1>6. KeptInv'
  BY <1>1, <1>2, <1>3, <1>4 DEF KeptInv, Started, Unreported
<1>7. RowsInv'
  <2>1. \A h, p : Reported(h, p)' = Reported(h, p)
    BY <1>1 DEF Reported
  <2>2. \A h \in DOMAIN host_states_ : h \in Hosts
    BY DEF EngineInv, TypeOK, HostTypeOK, IsHostMap
  <2> QED BY <1>1, <2>1, <2>2, MovedRows DEF RowsInv
<1> QED BY <1>5, <1>6, <1>7

----------------------------------------------------------------------------
(* The theorems                                                            *)

(* With distinct targets every step preserves what is said of the results. *)
LEMMA ResultNext ==
  ASSUME Distinct(targets), KeepInv, EngineInv', [Next]_vars
  PROVE  ResultInv'
<1>1. CASE RunBegins
  BY <1>1, RunBeginsResults
<1>2. CASE Completing
  BY <1>2, OnTaskCompleteResults, NeverLate DEF Completing
<1>3. CASE CancelHandler \/ FinalizeIncompleteHosts
  BY <1>3, EndingResults
<1>4. CASE UnmovedStep
  BY <1>4, UnmovedResults
<1> QED
  BY <1>1, <1>2, <1>3, <1>4
  DEF Next, ThreadStep, Starting, Ending, Terminating, UnmovedStep

(* Every step keeps the window full: a completion hands its slot on.       *)
LEMMA FullNext ==
  ASSUME ScanInv, EngineInv', [Next]_vars
  PROVE  FullInv'
<1> USE DEF ScanInv, KeepInv
<1>1. CASE RunBegins
  <2>1. /\ main = "idle" /\ main' \in {"schedule_initial_batch", "run"}
        /\ UNCHANGED <<next_task, in_flight_count_, cancel_requested_>>
        /\ batch_left' = BatchSize /\ (main' = "run" => ~(BatchSize > 0))
    BY <1>1 DEF RunBegins, queueVars, cancelVars
  <2>2. in_flight_count_ = 0
    BY <2>1 DEF EngineInv, ControlInv
  <2> QED BY <2>1, <2>2, ConfigFacts DEF FullInv, Ended
<1>2. CASE Completing
  <2>1. OnTaskComplete
    BY <1>2, NeverLate DEF Completing
  <2>2. /\ main = "on_task_complete" /\ in_flight_count_' = in_flight_count_ - 1
        /\ main' = IF cancel_requested_' \/ QueueEmpty THEN Resume ELSE "schedule_next_task"
        /\ UNCHANGED <<batch_left, next_task>>
        /\ cancel_requested_ => cancel_requested_'
    BY <2>1 DEF OnTaskComplete, SlotReleased, Callback, Cancel, cancelVars
  <2> QED
    BY <2>2, ConfigFacts DEF FullInv, Resume, QueueEmpty, Ended, EngineInv, TypeOK, ThreadTypeOK
<1>3. CASE UnmovedStep
  <2> USE DEF FullInv, vars, threadVars, queueVars, cancelVars, QueueEmpty, Ended, EngineInv, TypeOK,
              ThreadTypeOK
  <2>1. CASE ScheduleInitialBatch \/ IoContextReturns
    <3>1. CASE ScheduleInitialBatch
      BY <3>1, ConfigFacts DEF ScheduleInitialBatch
    <3>2. CASE IoContextReturns
      BY <3>2 DEF IoContextReturns
    <3> QED BY <2>1, <3>1, <3>2
  <2>2. CASE Scheduling
    <3>1. CASE ScheduleNextTask
      BY <3>1, ConfigFacts DEF ScheduleNextTask, MaySchedule
    <3>2. CASE ScheduleNothing
      BY <3>2, ConfigFacts DEF ScheduleNothing, MaySchedule, Resume
    <3>3. CASE TrackOperation \/ ResolveFails \/ AsyncConnect \/ AsyncWait
      <4>1. CASE TrackOperation
        BY <4>1 DEF TrackOperation
      <4>2. CASE ResolveFails
        BY <4>2 DEF ResolveFails
      <4>3. CASE AsyncConnect
        BY <4>3 DEF AsyncConnect
      <4>4. CASE AsyncWait
        BY <4>4, ConfigFacts DEF AsyncWait, Resume
      <4> QED BY <3>3, <4>1, <4>2, <4>3, <4>4
    <3> QED BY <2>2, <3>1, <3>2, <3>3 DEF Scheduling
  <2>3. ASSUME NEW t \in Tasks, Handler(t) PROVE FullInv'
    BY <2>3 DEF Handler, LateHandler, ConnectHandler, TimerHandler, TimerHandlerNoReport, Dispatches
  <2>4. CASE Network \/ CancelBeforeRun \/ UNCHANGED vars
    BY <2>4 DEF Network, TimerExpires, NextEndpointRefused, ConnectAnswered, CancelBeforeRun, Cancel
  <2> QED BY <1>3, <2>1, <2>2, <2>3, <2>4 DEF UnmovedStep
<1>4. CASE CancelHandler \/ FinalizeIncompleteHosts
  <2>1. /\ UNCHANGED <<next_task, in_flight_count_, batch_left>>
        /\ cancel_requested_ => cancel_requested_'
        /\ \/ main = "run" /\ main' = "run"
           \/ main = "finalize_incomplete_hosts" /\ main' = "returned"
    BY <1>4 DEF CancelHandler, FinalizeIncompleteHosts, threadVars, queueVars, cancelVars, Callback,
       Cancel
  <2> QED BY <2>1 DEF FullInv, QueueEmpty, Ended
<1> QED
  BY <1>1, <1>2, <1>3, <1>4
  DEF Next, ThreadStep, Starting, Ending, Terminating, UnmovedStep

(* The invariant holds in every reachable state of a scan of distinct      *)
(* targets.                                                                *)
LEMMA DistinctInvariant ==
  ASSUME Distinct(targets)
  PROVE  Spec => []ScanInv
<1>1. Init => ResultInv /\ FullInv
  <2> SUFFICES ASSUME Init PROVE ResultInv /\ FullInv
    OBVIOUS
  <2>1. DOMAIN host_states_ = {}
    BY DEF Init
  <2> QED BY <2>1 DEF ResultInv, CountdownInv, KeptInv, FullInv, RowsInv, Init, Ended
<1>2. EngineInv /\ RaceInv /\ HostInv /\ ResultInv /\ FullInv /\ EngineInv' /\ [Next]_vars
        => ResultInv' /\ FullInv'
  BY ResultNext, FullNext DEF ScanInv, KeepInv
<1>3. EngineInv /\ RaceInv /\ HostInv /\ ResultInv /\ FullInv => ScanInv
  BY DEF ScanInv, KeepInv
<1>4. Init => HostInv
  BY DEF Init, HostInv, Occurrences
<1>5. EngineInv /\ HostInv /\ [Next]_vars => HostInv'
  BY HostNext
<1> QED BY <1>1, <1>2, <1>3, <1>4, <1>5, RaceInvariant, PTL DEF Spec

(* When run() waits, uncancelled, and tasks are left, every slot is in use.*)
THEOREM WindowKeptFull ==
  ASSUME Distinct(targets)
  PROVE  Spec => []WindowFull
<1>1. ScanInv => WindowFull
  <2> SUFFICES ASSUME ScanInv, main = "run", ~cancel_requested_, Started # Tasks
               PROVE  in_flight_count_ = max_concurrency
    BY DEF WindowFull
  <2>1. next_task \in 1 .. NumTasks
    BY ConfigFacts DEF Started, Tasks, ScanInv, KeepInv, EngineInv, TypeOK, ThreadTypeOK
  <2>2. in_flight_count_ = BatchSize
    BY <2>1, ConfigFacts DEF ScanInv, KeepInv, FullInv, QueueEmpty, EngineInv, TypeOK, ThreadTypeOK
  <2>3. in_flight_count_ <= next_task - 1
    <3>1. IsFiniteSet(1 .. (next_task - 1)) /\ Cardinality(1 .. (next_task - 1)) = next_task - 1
      BY <2>1, FS_Interval
    <3>2. Cardinality(Unreported) <= Cardinality(1 .. (next_task - 1))
      BY <3>1, FS_Subset DEF Unreported, Started
    <3> QED BY <3>1, <3>2 DEF ScanInv, KeepInv, EngineInv, CountInv
  <2> QED BY <2>1, <2>2, <2>3, ConfigFacts DEF BatchSize
<1> QED BY <1>1, DistinctInvariant, PTL

(* An uncancelled engine that has returned has started and reported every  *)
(* task.                                                                   *)
LEMMA DrainedByInv ==
  ASSUME max_concurrency > 0, ScanInv
  PROVE  DrainedAtReturn
<1> SUFFICES ASSUME main = "returned", ~cancel_requested_
             PROVE  Started = Tasks /\ in_flight_count_ = 0
  BY DEF DrainedAtReturn
<1>1. in_flight_count_ = 0
  BY FS_EmptySet DEF ScanInv, KeepInv, RaceInv, PendingInv, Ended, EngineInv, CountInv
<1>2. batch_left = 0
  BY DEF ScanInv, FullInv, Ended
<1>3. NumTasks > 0 /\ BatchSize > 0
  BY ConfigFacts DEF NumTasks, BatchSize
<1>4. QueueEmpty
  BY <1>1, <1>2, <1>3 DEF ScanInv, FullInv
<1>5. next_task = NumTasks + 1
  BY <1>4, ConfigFacts DEF QueueEmpty, ScanInv, KeepInv, EngineInv, TypeOK, ThreadTypeOK
<1> QED BY <1>1, <1>5, ConfigFacts DEF Started, Tasks

(* run() returns from an uncancelled scan only when every task was started *)
(* and has reported.                                                       *)
THEOREM DrainsAtReturn ==
  ASSUME Distinct(targets), max_concurrency > 0
  PROVE  Spec => []DrainedAtReturn
BY DrainedByInv, DistinctInvariant, PTL

(* Cancelled or not, the summary holds every result that was reported, in  *)
(* its own host's entry.                                                   *)
THEOREM SummaryLosesNothing ==
  ASSUME Distinct(targets)
  PROVE  Spec => []NoResultLost
<1>1. ScanInv => NoResultLost
  BY DEF ScanInv, KeepInv, ResultInv, RowsInv, NoResultLost, Reported
<1> QED BY <1>1, DistinctInvariant, PTL

(* An uncancelled engine that has drained at its return has completed      *)
(* every host with one result for each port.                               *)
LEMMA CompleteByInv ==
  ASSUME Distinct(targets), Distinct(ports), ScanInv, DrainedAtReturn
  PROVE  HostResultsComplete
<1> SUFFICES ASSUME ~cancel_requested_, NEW h \in Hosts,
                    NEW i \in DOMAIN completed_hosts_[h], NEW p \in Ports
             PROVE  ResultCount(h, p, completed_hosts_[h][i]) = 1
  BY DEF HostResultsComplete
<1>1. completed_hosts_[h] \in Seq(Seq(Results)) /\ Len(completed_hosts_[h]) # 0
  BY DEF ScanInv, KeepInv, EngineInv, TypeOK, HostTypeOK
<1>2. main # "idle" /\ h \notin DOMAIN host_states_
  <2>1. Len(completed_hosts_[h]) \in Nat
    BY <1>1
  <2>2. Occurrences(h, host_states_, completed_hosts_) \in {0, 1}
        /\ (main = "idle" => Occurrences(h, host_states_, completed_hosts_) = 0)
    BY DEF ScanInv, KeepInv, HostInv
  <2>3. CASE h \in DOMAIN host_states_
    BY <1>1, <2>1, <2>2, <2>3 DEF Occurrences
  <2>4. CASE h \notin DOMAIN host_states_
    BY <1>1, <2>1, <2>2, <2>4 DEF Occurrences
  <2> QED BY <2>3, <2>4
<1>3. ASSUME NEW t \in Tasks, TaskHost(t) = h PROVE reports[t] = 1
  <2>1. reports[t] # 0
    <3>1. CASE main # "returned"
      BY <1>2, <1>3, <3>1 DEF ScanInv, KeepInv, ResultInv, KeptInv
    <3>2. CASE main = "returned"
      BY <3>2 DEF DrainedAtReturn, ScanInv, RaceInv, PendingInv, Ended, Unreported
    <3> QED BY <3>1, <3>2
  <2> QED BY <2>1 DEF ScanInv, KeepInv, EngineInv, OperationInv
<1>4. Reported(h, p) = {t \in Tasks : TaskHost(t) = h /\ TaskPort(t) = p}
  BY <1>3 DEF Reported
<1>5. Cardinality(Reported(h, p)) = 1
  <2>1. PICK t \in Tasks : Reported(h, p) = {t}
    BY <1>4, TaskUnique
  <2> QED BY <2>1, FS_Singleton
<1> QED BY <1>2, <1>5 DEF ScanInv, KeepInv, ResultInv, RowsInv

(* A host completed by an uncancelled scan has exactly one result for each *)
(* requested port.                                                         *)
THEOREM HostsAreComplete ==
  ASSUME Distinct(targets), Distinct(ports), max_concurrency > 0
  PROVE  Spec => []HostResultsComplete
<1>1. ScanInv => HostResultsComplete
  BY DrainedByInv, CompleteByInv
<1> QED BY <1>1, DistinctInvariant, PTL

----------------------------------------------------------------------------
(* The engine implements the safety part of its contract, for every scan   *)
(* of distinct targets with a window of at least one: each step is a step  *)
(* of ScanContract or leaves what the caller sees unchanged.               *)

CallerView == <<Unreported, ReportedTasks, cancel_requested_, Published, Outcome>>

(* Every requested host has a task.                                        *)
LEMMA HostsAreRequested == Promise!AllHosts = Hosts
<1>1. ASSUME NEW h \in Hosts PROVE \E t \in Tasks : TaskHost(t) = h
  <2>1. PICK i \in 1 .. Len(targets) : h = targets[i]
    BY <1>1, ScanAssumption DEF Hosts
  <2> QED BY <2>1, TaskIndex, ConfigFacts
<1>2. \A t \in Tasks : TaskHost(t) \in Hosts
  BY TaskFacts
<1> QED BY <1>1, <1>2 DEF Promise!AllHosts

(* The jobs that wait are those in the queue.                              *)
LEMMA WaitingIsQueued ==
  ASSUME EngineInv
  PROVE  Promise!Waiting = Tasks \ Started
<1>1. Started \subseteq Tasks
  BY ConfigFacts DEF EngineInv, TypeOK, ThreadTypeOK, Started, Tasks
<1>2. \A t \in Tasks : reports[t] \in Nat /\ (reports[t] > 0 => t \in Started)
  BY DEF EngineInv, TypeOK, ThreadTypeOK, OperationInv
<1> QED BY <1>1, <1>2 DEF Promise!Waiting, Unreported, ReportedTasks

(* A host is in the map or published.                                      *)
LEMMA MapOrPublished ==
  ASSUME EngineInv, HostInv, main # "idle", NEW h \in Hosts
  PROVE  h \in DOMAIN host_states_ <=> h \notin Published
<1>1. completed_hosts_[h] \in Seq(Seq(Results))
  BY DEF EngineInv, TypeOK, HostTypeOK
<1>2. Occurrences(h, host_states_, completed_hosts_) = 1
  BY DEF HostInv
<1>3. Len(completed_hosts_[h]) \in Nat /\ (Len(completed_hosts_[h]) = 0 <=> completed_hosts_[h] = << >>)
  BY <1>1
<1>4. CASE h \in DOMAIN host_states_
  BY <1>2, <1>3, <1>4 DEF Occurrences, Published
<1>5. CASE h \notin DOMAIN host_states_
  BY <1>2, <1>3, <1>5 DEF Occurrences, Published
<1> QED BY <1>4, <1>5

(* Steps that move no host and report nothing.                             *)
LEMMA UnmovedRefines ==
  ASSUME ScanInv, UnmovedStep
  PROVE  [Promise!CNext]_CallerView
<1> USE DEF ScanInv, KeepInv, ResultInv
<1>1. UNCHANGED <<ReportedTasks, Published>>
  BY UnmovedFacts DEF ReportedTasks, Published
<1>2. CASE ScheduleNextTask
  <2>1. /\ next_task \in Tasks /\ next_task' = next_task + 1 /\ main = "schedule_next_task"
        /\ main' = "scan_port_async" /\ ~cancel_requested_ /\ UNCHANGED <<reports, cancel_requested_>>
    BY <1>2, UnmovedFacts DEF ScheduleNextTask, MaySchedule, hostVars, cancelVars
  <2>2. next_task \in Tasks \ Started /\ \A k \in Tasks \ Started : next_task <= k
    BY <2>1, ConfigFacts DEF Started, Tasks, EngineInv, TypeOK, ThreadTypeOK
  <2>3. Unreported' = Unreported \cup {next_task}
    BY <2>1, <2>2, ConfigFacts DEF Unreported, Started, EngineInv, TypeOK, ThreadTypeOK, OperationInv
  <2>4. Cardinality(Unreported) < max_concurrency
    BY <2>1, ConfigFacts DEF EngineInv, TypeOK, ThreadTypeOK, WindowInv, CountInv
  <2>5. Outcome = "none" /\ Outcome' = "none"
    BY <2>1 DEF Outcome
  <2>6. Promise!Start(next_task)
    <3>1. Promise!Waiting = Tasks \ Started
      BY WaitingIsQueued
    <3>2. next_task \in Promise!Waiting /\ \A k \in Promise!Waiting : next_task <= k
      BY <2>2, <3>1
    <3>3. Promise!Cardinality(Unreported) = Cardinality(Unreported)
      BY DEF Cardinality, Promise!Cardinality
    <3> QED BY <1>1, <2>1, <2>3, <2>4, <2>5, <3>2, <3>3 DEF Promise!Start
  <2> QED BY <2>1, <2>6 DEF Promise!CNext, Promise!Progress
<1>3. ASSUME next_task' = next_task
      PROVE  Unreported' = Unreported
  BY <1>3, UnmovedFacts DEF Unreported, Started
<1>4. CASE CancelBeforeRun
  <2>1. main = "idle" /\ UNCHANGED <<main, next_task>> /\ cancel_requested_' = TRUE
    BY <1>4 DEF CancelBeforeRun, threadVars, queueVars, Cancel
  <2>2. Promise!Request
    BY <1>1, <1>3, <2>1 DEF Promise!Request, Outcome
  <2> QED BY <2>2 DEF Promise!CNext
<1>5. ASSUME NEW t \in Tasks, TimerHandlerNoReport(t) PROVE [Promise!CNext]_CallerView
  <2>1. /\ main = "run" /\ main' \in {"run", "threw"} /\ UNCHANGED <<next_task, cancel_requested_>>
        /\ main' = "threw" => Waiting(t) /\ First(t).op = "timer" /\ ~IsOpen(t) /\ ~completed[t]
    BY <1>5 DEF TimerHandlerNoReport, Dispatches, queueVars, cancelVars, Waiting, First
  <2>2. main' = "threw" => cancel_requested_ \/ OpenMayFail
    BY <2>1 DEF RaceInv, FirstInv, EngineInv, TypeOK, ThreadTypeOK
  <2>3. CASE main' = "run"
    BY <1>1, <1>3, <2>1, <2>3 DEF CallerView, Outcome
  <2>4. CASE main' = "threw"
    <3>1. Promise!Throw
      BY <1>1, <1>3, <2>1, <2>2, <2>4 DEF Promise!Throw, Outcome
    <3> QED BY <3>1 DEF Promise!CNext, Promise!Progress
  <2> QED BY <2>1, <2>3, <2>4
<1>6. ASSUME UNCHANGED <<next_task, cancel_requested_>>,
             \/ main \notin {"returned", "threw"} /\ main' \notin {"returned", "threw"}
             \/ main' = main
      PROVE  [Promise!CNext]_CallerView
  BY <1>1, <1>3, <1>6 DEF CallerView, Outcome
<1>7. CASE ScheduleInitialBatch \/ IoContextReturns
  BY <1>6, <1>7 DEF ScheduleInitialBatch, IoContextReturns, queueVars, cancelVars
<1>8. CASE ScheduleNothing \/ AsyncWait
  BY <1>6, <1>8 DEF ScheduleNothing, AsyncWait, Resume, queueVars, cancelVars
<1>9. CASE TrackOperation \/ ResolveFails
  BY <1>6, <1>9 DEF TrackOperation, ResolveFails, queueVars, cancelVars
<1>10. CASE AsyncConnect
  BY <1>6, <1>10 DEF AsyncConnect, queueVars, cancelVars
<1>11. ASSUME NEW t \in Tasks, LateHandler(t) \/ ConnectHandler(t) \/ TimerHandler(t)
       PROVE  [Promise!CNext]_CallerView
  BY <1>6, <1>11 DEF LateHandler, ConnectHandler, TimerHandler, Dispatches, threadVars, queueVars, cancelVars
<1>12. CASE Network \/ UNCHANGED vars
  BY <1>6, <1>12 DEF Network, TimerExpires, NextEndpointRefused, ConnectAnswered, vars, threadVars, queueVars, cancelVars
<1> QED
  BY <1>2, <1>4, <1>5, <1>7, <1>8, <1>9, <1>10, <1>11, <1>12 DEF UnmovedStep, Scheduling, Handler

(* What finalizing hosts does to the published ones.                       *)
LEMMA MovedPublished ==
  ASSUME EngineInv, HostInv, NEW states, NEW H, MovesHosts(states, H)
  PROVE  Published' = Published \cup H /\ H \subseteq Hosts
<1>1. \A h \in Hosts : completed_hosts_[h] \in Seq(Seq(Results))
  BY DEF EngineInv, TypeOK, HostTypeOK
<1>2. H \subseteq Hosts
  BY DEF MovesHosts, IsHostMap
<1>3. \A h \in Hosts : completed_hosts_'[h] = IF h \in H THEN Append(completed_hosts_[h], states[h].ports)
                                                       ELSE completed_hosts_[h]
  BY DEF MovesHosts, Finalized
<1>4. \A h \in H : states[h].ports \in Seq(Results)
  BY DEF MovesHosts, IsHostMap
<1>5. \A h \in H : completed_hosts_'[h] # << >>
  <2> SUFFICES ASSUME NEW h \in H PROVE completed_hosts_'[h] # << >>
    OBVIOUS
  <2>1. completed_hosts_[h] \in Seq(Seq(Results)) /\ states[h].ports \in Seq(Results)
    BY <1>1, <1>2, <1>4
  <2>2. Append(completed_hosts_[h], states[h].ports) # << >>
    BY <2>1
  <2> QED BY <1>2, <1>3, <2>2
<1> QED BY <1>2, <1>3, <1>5 DEF Published

(* A report is the contract's: it publishes the host whose last job it     *)
(* was, or every host when it was the last report of a cancelled scan.     *)
LEMMA OnTaskCompleteRefines ==
  ASSUME ScanInv, EngineInv', OnTaskComplete
  PROVE  Promise!Report(current)
<1> USE DEF ScanInv, KeepInv, ResultInv
<1>1. /\ main = "on_task_complete" /\ TaskHost(current) \in DOMAIN host_states_ /\ OpReported
      /\ main' \notin {"returned", "threw"} /\ next_task' = next_task
      /\ cancel_requested_' \in {cancel_requested_, TRUE}
  BY DEF OnTaskComplete, Callback, Cancel, cancelVars, Resume
<1>2. current \in Unreported
  BY <1>1 DEF EngineInv, ControlInv, Unreported
<1>3. /\ Unreported' = Unreported \ {current}
      /\ ReportedTasks' = ReportedTasks \cup {current}
  <2>1. \A t \in Tasks : reports'[t] = IF t = current THEN 1 ELSE reports[t]
    BY <1>1, <1>2, ReportCounts
  <2>2. current \in Tasks /\ Unreported \subseteq Tasks /\ Unreported' = {t \in Started : reports'[t] = 0}
    BY <1>1, <1>2, UnreportedTasks DEF Unreported, Started
  <2>3. Started \subseteq Tasks
    BY ConfigFacts DEF EngineInv, TypeOK, ThreadTypeOK, Started, Tasks
  <2>4. Unreported' = Unreported \ {current}
    BY <2>1, <2>2, <2>3 DEF Unreported
  <2>5. ReportedTasks' = ReportedTasks \cup {current}
    BY <2>1, <2>2 DEF ReportedTasks
  <2> QED BY <2>4, <2>5
<1>4. Outcome = "none" /\ Outcome' = "none"
  BY <1>1 DEF Outcome
<1>5. Published' = Published \cup Finishing /\ Finishing \subseteq DOMAIN host_states_
  BY OnTaskCompleteMoves, MovedPublished DEF MovesHosts
<1>6. Unreported' = {} <=> in_flight_count_' = 0
  <2>1. in_flight_count_' = Cardinality(Unreported')
    BY DEF EngineInv, CountInv
  <2>2. IsFiniteSet(Unreported')
    BY <1>3, UnreportedTasks, TasksFinite
  <2> QED BY <2>1, <2>2, FS_EmptySet
<1>7. \A h \in Hosts : h \in DOMAIN host_states_ <=> h \notin Published
  BY <1>1, MapOrPublished
<1>8. CASE cancel_requested_' /\ Unreported' = {}
  <2>1. Finishing = DOMAIN host_states_
    BY <1>1, <1>5, <1>6, <1>8 DEF Finishing, IdleHosts, Updated
  <2>2. Published' = Hosts
    BY <1>5, <1>7, <2>1 DEF Published
  <2> QED BY <1>1, <1>2, <1>3, <1>4, <1>8, <2>2, HostsAreRequested DEF Promise!Report
<1>9. CASE ~(cancel_requested_' /\ Unreported' = {})
  <2>1. Finishing = {h \in {TaskHost(current)} : HostDone(Updated[h])}
    BY <1>6, <1>9 DEF Finishing, IdleHosts
  <2>2. ASSUME NEW h \in Hosts
        PROVE  Promise!JobsOf(h) \subseteq ReportedTasks' <=> Left(h)' = {}
    <3>1. \A t \in Tasks : reports'[t] \in Nat
      BY DEF EngineInv, TypeOK, ThreadTypeOK
    <3> QED BY <3>1 DEF Promise!JobsOf, ReportedTasks, Left
  <2>3. ASSUME NEW h \in Hosts, h \in Published' PROVE h \in Published \/ Left(h)' = {}
    <3>1. CASE h \in Finishing
      <4>1. h = TaskHost(current) /\ Updated[h].pending_ports = 0
        BY <2>1, <3>1 DEF HostDone
      <4>2. Cardinality(Left(h)') = 0 /\ IsFiniteSet(Left(h)')
        BY <1>1, <4>1, UpdatedCount, TasksFinite DEF Left
      <4> QED BY <4>2, FS_EmptySet
    <3> QED BY <1>5, <2>3, <3>1
  <2>4. ASSUME NEW h \in Hosts, Left(h)' = {}, h \notin Published PROVE h \in Published'
    <3>1. h \in DOMAIN host_states_
      BY <1>7, <2>4
    <3>2. h = TaskHost(current)
      <4>1. Left(h)' = Left(h) \ {current} /\ Left(h) # {}
        BY <1>1, <1>2, <3>1, ReportCounts DEF CountdownInv
      <4> QED BY <2>4, <4>1 DEF Left
    <3>3. Updated[h].pending_ports = 0
      BY <2>4, <3>1, UpdatedCount, FS_EmptySet
    <3> QED BY <1>5, <2>1, <3>2, <3>3 DEF HostDone
  <2>5. Published \subseteq Published' /\ Published' \subseteq Hosts
    BY <1>5 DEF Published
  <2>6. Published' = {h \in Hosts : h \in Published \/ Promise!JobsOf(h) \subseteq ReportedTasks'}
    BY <2>2, <2>3, <2>4, <2>5
  <2> QED BY <1>1, <1>2, <1>3, <1>4, <1>9, <2>6, HostsAreRequested DEF Promise!Report
<1> QED BY <1>8, <1>9

(* The cancellation's posted handler publishes what there is, if nothing   *)
(* is in flight.                                                           *)
LEMMA CancelHandlerRefines ==
  ASSUME ScanInv, CancelHandler
  PROVE  [Promise!CNext]_CallerView
<1> USE DEF ScanInv, KeepInv, ResultInv
<1>1. /\ main = "run" /\ MovesHosts(host_states_, IdleHosts(host_states_))
      /\ UNCHANGED <<main, reports, next_task, in_flight_count_, cancel_requested_>>
  BY IdleHostsInMap DEF CancelHandler, MovesHosts, EngineInv, TypeOK, HostTypeOK, threadVars, queueVars
<1>2. UNCHANGED <<Unreported, ReportedTasks, Outcome>> /\ Outcome = "none"
  BY <1>1 DEF Unreported, Started, ReportedTasks, Outcome
<1>3. Published' = Published \cup IdleHosts(host_states_)
  BY <1>1, MovedPublished
<1>4. CASE cancel_requested_ /\ in_flight_count_ = 0
  <2>1. IdleHosts(host_states_) = DOMAIN host_states_
    BY <1>1, <1>4 DEF IdleHosts
  <2>2. Published' = Hosts
    <3>1. \A h \in Hosts : h \in DOMAIN host_states_ <=> h \notin Published
      BY <1>1, MapOrPublished
    <3>2. IdleHosts(host_states_) \subseteq Hosts
      BY <1>1, MovedPublished
    <3> QED BY <1>3, <2>1, <3>1, <3>2 DEF Published
  <2>3. Unreported = {}
    BY <1>4, UnreportedTasks, TasksFinite, FS_EmptySet DEF EngineInv, CountInv
  <2>4. Promise!PublishPartial
    BY <1>1, <1>2, <1>4, <2>2, <2>3, HostsAreRequested DEF Promise!PublishPartial
  <2> QED BY <2>4 DEF Promise!CNext
<1>5. CASE ~(cancel_requested_ /\ in_flight_count_ = 0)
  <2>1. IdleHosts(host_states_) = {}
    BY <1>1, <1>5 DEF IdleHosts
  <2> QED BY <1>1, <1>2, <1>3, <2>1 DEF CallerView
<1> QED BY <1>4, <1>5

(* run()'s return: an uncancelled scan has nothing left to finalize, so no *)
(* callback can cancel any more.                                           *)
LEMMA FinalizeRefines ==
  ASSUME ScanInv, max_concurrency > 0, FinalizeIncompleteHosts
  PROVE  Promise!Return
<1> USE DEF ScanInv, KeepInv, ResultInv
<1>1. /\ main = "finalize_incomplete_hosts" /\ main' = "returned"
      /\ MovesHosts(host_states_, DOMAIN host_states_)
      /\ UNCHANGED <<reports, next_task>>
      /\ \/ DOMAIN host_states_ = {} /\ cancel_requested_' = cancel_requested_
         \/ cancel_requested_' \in {cancel_requested_, TRUE}
  BY DEF FinalizeIncompleteHosts, MovesHosts, EngineInv, TypeOK, HostTypeOK, queueVars, cancelVars,
     Callback, Cancel
<1>2. UNCHANGED <<Unreported, ReportedTasks>> /\ Outcome = "none" /\ Outcome' = "summary"
  BY <1>1 DEF Unreported, Started, ReportedTasks, Outcome
<1>3. Unreported = {}
  BY <1>1 DEF RaceInv, PendingInv, Ended
<1>4. Published' = Hosts
  <2>1. Published' = Published \cup DOMAIN host_states_ /\ DOMAIN host_states_ \subseteq Hosts
    BY <1>1, MovedPublished
  <2>2. \A h \in Hosts : h \in DOMAIN host_states_ <=> h \notin Published
    BY <1>1, MapOrPublished
  <2> QED BY <2>1, <2>2 DEF Published
<1>5. ~cancel_requested_ => Started = Tasks
  <2>1. in_flight_count_ = 0
    BY <1>3, FS_EmptySet DEF EngineInv, CountInv
  <2>2. NumTasks > 0 /\ BatchSize > 0 /\ batch_left = 0
    BY <1>1, ConfigFacts DEF NumTasks, BatchSize, FullInv, Ended
  <2>3. ~cancel_requested_ => QueueEmpty
    BY <1>1, <2>1, <2>2 DEF FullInv
  <2> QED BY <2>3, ConfigFacts DEF QueueEmpty, Started, Tasks, EngineInv, TypeOK, ThreadTypeOK
<1>6. ~cancel_requested_ => DOMAIN host_states_ = {}
  <2>1. ASSUME ~cancel_requested_, NEW h \in DOMAIN host_states_ PROVE FALSE
    <3>1. PICK t \in Tasks : reports[t] = 0
      BY <2>1 DEF CountdownInv, Left
    <3> QED BY <1>3, <1>5, <2>1, <3>1 DEF Unreported
  <2> QED BY <2>1
<1>7. cancel_requested_' = cancel_requested_
  BY <1>1, <1>6 DEF FinalizeIncompleteHosts, cancelVars, EngineInv, TypeOK, ThreadTypeOK
<1> QED
  BY <1>2, <1>3, <1>4, <1>5, <1>7, WaitingIsQueued, HostsAreRequested DEF Promise!Return

(* Every step of the engine is a step of the contract or a stutter.        *)
LEMMA StepRefines ==
  ASSUME Distinct(targets), max_concurrency > 0, ScanInv, EngineInv', [Next]_vars
  PROVE  [Promise!CNext]_CallerView
<1>1. CASE RunBegins
  <2>1. UNCHANGED <<reports, next_task, cancel_requested_, completed_hosts_>>
        /\ main = "idle" /\ main' \in {"schedule_initial_batch", "run"}
    BY <1>1 DEF RunBegins, queueVars, cancelVars
  <2> QED BY <2>1 DEF CallerView, Unreported, Started, ReportedTasks, Published, Outcome
<1>2. CASE Completing
  <2>1. current \in Tasks
    BY <1>2, UnreportedTasks
    DEF Completing, OnTaskComplete, OnTaskCompleteLate, ScanInv, KeepInv, EngineInv, ControlInv,
        Unreported
  <2>2. Promise!Report(current)
    BY <1>2, OnTaskCompleteRefines, NeverLate DEF Completing, ScanInv
  <2> QED BY <2>1, <2>2 DEF Promise!CNext, Promise!Progress
<1>3. CASE CancelHandler
  BY <1>3, CancelHandlerRefines
<1>4. CASE FinalizeIncompleteHosts
  BY <1>4, FinalizeRefines DEF Promise!CNext, Promise!Progress
<1>5. CASE UnmovedStep
  BY <1>5, UnmovedRefines
<1> QED
  BY <1>1, <1>2, <1>3, <1>4, <1>5 DEF Next, ThreadStep, Starting, Ending, Terminating, UnmovedStep

(* Every behaviour of the engine is, seen by the caller, one of the        *)
(* contract; that the contract's steps go on happening is not proved.      *)
THEOREM EngineKeepsContract ==
  ASSUME Distinct(targets), max_concurrency > 0
  PROVE  Spec => Promise!CInit /\ [][Promise!CNext]_(Promise!cvars)
<1>1. Init => Promise!CInit
  <2> SUFFICES ASSUME Init PROVE Promise!CInit
    OBVIOUS
  <2>1. Unreported = {} /\ ReportedTasks = {}
    BY DEF Init, Unreported, Started, ReportedTasks
  <2>2. Published = {} /\ Outcome = "none" /\ cancel_requested_ = FALSE
    BY DEF Init, Published, Outcome
  <2> QED BY <2>1, <2>2 DEF Promise!CInit
<1>2. ScanInv /\ ScanInv' /\ [Next]_vars => [Promise!CNext]_CallerView
  BY StepRefines DEF ScanInv, KeepInv
<1>3. ScanInv /\ ScanInv' /\ [Next]_vars => [Promise!CNext]_(Promise!cvars)
  BY <1>2 DEF CallerView, Promise!cvars
<1> QED BY <1>1, <1>3, DistinctInvariant, PTL DEF Spec

=============================================================================
