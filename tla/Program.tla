------------------------------ MODULE Program ------------------------------
(***************************************************************************)
(* main() from the command line to the exit code (src/main.cpp): parse_cli *)
(* of module CliParser, a scan, write_output of module OutputWriter.  The  *)
(* scan is what module ScanContract and the properties of module Scanner   *)
(* leave of it: it returns one of the Summaries that a scan of this        *)
(* configuration may yield.  Module ScanMain has the other view of main(), *)
(* the threads around the scan.                                            *)
(***************************************************************************)
EXTENDS CliParser, OutputWriter

ASSUME ProgramAssumption ==
  \A c \in CommandLines : "none" \notin {c.oN, c.oX}

VARIABLES
  main,          \* where main() is
  returned,      \* what it returned; -1 until then
  interrupted,   \* the scan was cancelled
  stderr         \* something was printed to std::cerr

mainVars == <<main, returned, interrupted, stderr>>
outVars == <<options, writer, printed, stream_good, file, screen, written>>
programVars == <<parseVars, mainVars, summary, outVars>>

NoSummary == [config |-> <<>>, hosts |-> <<>>]
HelpPage == << <<"help">> >>

ProgramInit ==
  /\ CliInit /\ WriterStart
  /\ main = "parse_cli" /\ returned = -1
  /\ interrupted = FALSE /\ stderr = FALSE
  /\ summary = NoSummary /\ options = DefaultOutput

ParseCli ==
  /\ main = "parse_cli" /\ CliStep
  /\ UNCHANGED <<mainVars, summary, outVars>>

Exit(code) == main' = "exited" /\ returned' = code

(* CLI11 prints the help page to stdout, its and parse_cli's errors go to  *)
(* stderr.                                                                 *)
AlwaysHelp == HelpPage
ShownOnStdout == IF status = "Exit" THEN HelpPage ELSE screen

(* return parsed.exit_code.                                                *)
NotOk ==
  /\ main = "parse_cli" /\ Parsed /\ status # "Ok"
  /\ Exit(exit_code)
  /\ stderr' = (status = "Error")
  /\ screen' = ShownOnStdout
  /\ UNCHANGED <<parseVars, interrupted, argVars, writer, printed, stream_good, file, written>>

(* What scanner.run() may return.  Every target has one entry, and no port *)
(* but those asked for is reported; only a cancelled scan lacks results,   *)
(* and only one in which a target is given twice has some twice, and lacks *)
(* others.                                                                 *)
Repeated == \E i, j \in DOMAIN config.targets : i # j /\ config.targets[i] = config.targets[j]
PortsIn(h) == {h.ports[i].port : i \in DOMAIN h.ports}

ReportsPorts(h) ==
  /\ PortsIn(h) \subseteq config.ports
  /\ Len(h.ports) <= Cardinality(config.ports)
  /\ ~Repeated => \A i, j \in DOMAIN h.ports : h.ports[i].port = h.ports[j].port => i = j
  /\ ~Repeated /\ ~interrupted' => PortsIn(h) = config.ports

Sorted(list) == \A i, j \in DOMAIN list : i < j => list[i] < list[j]
MayReturn(s) ==
  /\ Len(s.config) = 1 /\ ToSet(s.config[1]) = config.ports /\ Sorted(s.config[1])
  /\ {s.hosts[i].host : i \in DOMAIN s.hosts} = ToSet(config.targets)
  /\ \A i, j \in DOMAIN s.hosts : s.hosts[i].host = s.hosts[j].host => i = j
  /\ \A i \in DOMAIN s.hosts : ReportsPorts(s.hosts[i])

RunReturns ==
  /\ main = "parse_cli" /\ Accepted
  /\ interrupted' \in BOOLEAN
  /\ \E s \in Summaries : MayReturn(s) /\ summary' = s
  /\ options' = output
  /\ main' = "write_output"
  /\ stderr' = interrupted'
  /\ UNCHANGED <<parseVars, returned, writer, printed, stream_good, file, screen, written>>

(* The catch clause.  A cancelled scan may throw, and so may one for which *)
(* the system refused a socket.                                            *)
RunThrows ==
  /\ main = "parse_cli" /\ Accepted
  /\ interrupted' \in BOOLEAN /\ stderr' = TRUE
  /\ Exit(1)
  /\ UNCHANGED <<parseVars, summary, outVars>>

WriteOutput ==
  /\ main = "write_output" /\ WriterStep
  /\ UNCHANGED <<parseVars, mainVars>>

ResultIgnored == 0
ExitCode == IF written = "false" THEN 1 ELSE 0

Finish ==
  /\ main = "write_output" /\ writer = "done"
  /\ Exit(ExitCode)
  /\ stderr' = (stderr \/ written = "false")
  /\ UNCHANGED <<parseVars, interrupted, summary, outVars>>

MainStep == ParseCli \/ NotOk \/ RunReturns \/ RunThrows \/ WriteOutput \/ Finish
ProgramNext == MainStep \/ (main = "exited" /\ UNCHANGED programVars)
ProgramSpec == ProgramInit /\ [][ProgramNext]_programVars
FairProgramSpec == ProgramSpec /\ WF_programVars(MainStep)

----------------------------------------------------------------------------
(* Properties                                                              *)

Destination == IF cmd.oX # "absent" \/ cmd.oN # "absent" THEN file ELSE screen
RowsShown == IF cmd.oX # "absent" THEN ReadXml(Destination) ELSE ReadText(Destination)

(* An undisturbed run that ends with 0 has put, where the command line     *)
(* asked for it, one row for each target and each port the command line    *)
(* denotes, and no other.  (XML drops control characters.)                 *)
RequestedReport ==
  /\ returned = 0 /\ status = "Ok" /\ ~interrupted /\ stream_good
  /\ ~Repeated /\ cmd.modes \subseteq {"Verbose", "PortsOnly"}
  /\ \A i \in DOMAIN cmd.targets : "control" \notin ToSet(cmd.targets[i])
  => LET requested == ToSet(cmd.targets) \X UNION {Denoted(it) : it \in Items}
     IN  /\ {<<RowsShown[i][1], RowsShown[i][2]>> : i \in DOMAIN RowsShown} = requested
         /\ \A i, j \in DOMAIN RowsShown :
              i # j => <<RowsShown[i][1], RowsShown[i][2]>> # <<RowsShown[j][1], RowsShown[j][2]>>

(* A failed run leaves the output file as it was and stdout empty, and     *)
(* says why on stderr.  The file is opened only after the scan.            *)
FailureLeavesNoTrace ==
  /\ returned \notin {-1, 0} => file = OldContents /\ screen = <<>> /\ stderr
  /\ summary = NoSummary => file = OldContents

(* stdout carries a report, or the help page, or nothing                   *)
(* (docs/output-formats.md:9).                                             *)
StdoutClean ==
  screen # <<>> =>
    \/ status = "Exit" /\ screen = HelpPage
    \/ cmd.oX = "absent" /\ cmd.oN = "absent" /\ IsPrefix(screen, Lines)

(* The program ends.                                                       *)
ProgramEnds == <>(main = "exited")

(* Exit code 0 means that the output was successfully written              *)
(* (docs/output-formats.md:100).                                           *)
SuccessMeansWritten == returned = 0 /\ status = "Ok" => Destination = Lines

=============================================================================
