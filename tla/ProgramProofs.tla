--------------------------- MODULE ProgramProofs ---------------------------
(***************************************************************************)
(* Theorems about main() from the command line to the exit code, for every *)
(* command line, every summary a scan of it may return and every device.   *)
(*                                                                         *)
(* ProgramInv puts the invariants of parse_cli and of write_output         *)
(* together: what of the one the other starts from, and what has become of *)
(* the two output streams on each of main()'s ways out.                    *)
(***************************************************************************)
EXTENDS Program, CliProofs, WriterProofs

(* What is known of a summary that run() returned.                         *)
NoneTwice(h) == \A i, j \in DOMAIN h.ports : h.ports[i].port = h.ports[j].port => i = j
HostsOnce ==
  /\ {summary.hosts[i].host : i \in DOMAIN summary.hosts} = ToSet(config.targets)
  /\ \A i, j \in DOMAIN summary.hosts : summary.hosts[i].host = summary.hosts[j].host => i = j
PortsOnce ==
  \A i \in DOMAIN summary.hosts :
    /\ ~Repeated => NoneTwice(summary.hosts[i])
    /\ ~Repeated /\ ~interrupted => PortsIn(summary.hosts[i]) = config.ports
ScanInv == summary # NoSummary /\ options = output /\ HostsOnce /\ PortsOnce

Parsing ==
  main = "parse_cli" =>
    writer = "open" /\ summary = NoSummary /\ options = DefaultOutput /\ returned = -1
Writing == main = "write_output" => returned = -1 /\ ScanInv

(* The ways out: what parse_cli refused, a scan that threw, and a report.  *)
Refused ==
  /\ status # "Ok" /\ returned = exit_code /\ (status = "Error" => stderr)
  /\ summary = NoSummary /\ file = OldContents
  /\ screen = IF status = "Exit" THEN HelpPage ELSE <<>>
Threw ==
  /\ status = "Ok" /\ returned = 1 /\ stderr /\ writer = "open" /\ summary = NoSummary
Finished ==
  /\ status = "Ok" /\ returned = ExitCode /\ (written = "false" => stderr)
  /\ writer = "done" /\ ScanInv

ProgramInv ==
  /\ main \in {"parse_cli", "write_output", "exited"}
  /\ CliInv
  /\ main # "exited" \/ status = "Ok" => WriterInv
  /\ main # "parse_cli" => Parsed
  /\ main = "write_output" => status = "Ok"
  /\ Parsing /\ Writing
  /\ main = "exited" => Refused \/ Threw \/ Finished

----------------------------------------------------------------------------
(* The invariant                                                           *)

(* Before the scan there is a summary, an empty one.                       *)
LEMMA NoSummaryTyped == NoSummary \in ScanSummaries(Characters)
BY DEF NoSummary, ScanSummaries

(* A report begins fresh.                                                  *)
LEMMA FreshWriter ==
  ASSUME WriterStart, summary \in ScanSummaries(Characters), options.format \in {"Text", "Xml"}
  PROVE  WriterInv
<1>1. Len(Lines) \in Nat BY LinesAreSequence
<1> QED BY <1>1 DEF WriterStart, WriterInv, WriterTypes, Fresh, OtherUntouched, Progress

(* The invariant holds when main() begins.                                 *)
LEMMA ProgramInitInv == ProgramInit => ProgramInv
<1> SUFFICES ASSUME ProgramInit PROVE ProgramInv OBVIOUS
<1>1. CliInv BY InitCli DEF ProgramInit
<1>2. /\ WriterStart /\ main = "parse_cli" /\ returned = -1 /\ summary = NoSummary
      /\ options = DefaultOutput
  BY DEF ProgramInit
<1>3. options.format \in {"Text", "Xml"} BY <1>2 DEF DefaultOutput
<1>4. WriterInv BY <1>2, <1>3, NoSummaryTyped, FreshWriter
<1> QED BY <1>1, <1>2, <1>4 DEF ProgramInv, Parsing, Writing, WriterStart

(* parse_cli steps alone.                                                  *)
LEMMA ParseCliInv == ProgramInv /\ ParseCli => ProgramInv'
<1> SUFFICES ASSUME ProgramInv, ParseCli PROVE ProgramInv' OBVIOUS
<1>1. /\ CliInv /\ CliStep /\ WriterInv /\ main = "parse_cli"
      /\ UNCHANGED <<mainVars, summary, outVars>>
  BY DEF ProgramInv, ParseCli
<1>2. CliInv'
  BY <1>1, AppParseFailsCli, AppParseCli, ValidateTargetsCli, MapDestinationCli, ParsePortsCli,
     MapPortsCli, MapOptionsCli DEF CliStep
<1>3. UNCHANGED writerVars BY <1>1 DEF outVars, writerVars
<1>4. WriterInv' BY <1>1, <1>3, WriterStutter
<1>5. main' = main /\ returned' = returned /\ summary' = summary /\ options' = options
      /\ writer' = writer
  BY <1>1 DEF mainVars, outVars
<1> QED BY <1>1, <1>2, <1>4, <1>5 DEF ProgramInv, Parsing, Writing

(* What parse_cli refused ends with its exit code.                         *)
LEMMA NotOkInv == ProgramInv /\ NotOk => ProgramInv'
<1> SUFFICES ASSUME ProgramInv, NotOk PROVE ProgramInv' OBVIOUS
<1>1. /\ CliInv /\ WriterInv /\ writer = "open" /\ summary = NoSummary
      /\ Parsed /\ status # "Ok" /\ main' = "exited" /\ returned' = exit_code
      /\ stderr' = (status = "Error") /\ screen' = ShownOnStdout
      /\ UNCHANGED parseVars /\ summary' = summary /\ file' = file
  BY DEF ProgramInv, NotOk, Exit, Parsing, argVars
<1>2. CliInv' BY <1>1, StutterCli
<1>3. status' = status /\ stage' = stage /\ exit_code' = exit_code
  BY <1>1 DEF parseVars, cliVars
<1>4. file = OldContents /\ screen = <<>> BY <1>1 DEF WriterInv, Fresh
<1>5. screen' = IF status = "Exit" THEN HelpPage ELSE <<>> BY <1>1, <1>4 DEF ShownOnStdout
<1>6. status = "Error" => stderr' BY <1>1, Zenon
<1>7. NoSummary' = NoSummary /\ OldContents' = OldContents BY DEF NoSummary, OldContents
<1>8. Refused' BY <1>1, <1>3, <1>4, <1>5, <1>6, <1>7 DEF Refused
<1> QED BY <1>1, <1>2, <1>3, <1>8 DEF ProgramInv, Parsing, Writing, Parsed

(* What is known of the configuration is so of the options.                *)
LEMMA AcceptedOptions ==
  ASSUME CliInv, Accepted
  PROVE  output.format \in {"Text", "Xml"} /\ config.targets = cmd.targets
BY DEF CliInv, CliTypeOK, RunnableConfig

(* A scan that returned hands over one of the summaries it may return.     *)
LEMMA RunReturnsInv == ProgramInv /\ RunReturns => ProgramInv'
<1> SUFFICES ASSUME ProgramInv, RunReturns PROVE ProgramInv' OBVIOUS
<1>1. /\ CliInv /\ WriterInv /\ writer = "open" /\ returned = -1
      /\ Accepted /\ main' = "write_output" /\ options' = output
      /\ UNCHANGED parseVars /\ returned' = returned
      /\ UNCHANGED <<writer, printed, stream_good, file, screen, written>>
  BY DEF ProgramInv, RunReturns, Parsing
<1>2. CliInv' BY <1>1, StutterCli
<1>3. status' = status /\ stage' = stage /\ config' = config /\ output' = output
  BY <1>1 DEF parseVars, cliVars
<1>4. summary' \in Summaries /\ MayReturn(summary') BY DEF RunReturns
<1>5. summary' \in ScanSummaries(Characters) BY <1>4, WriterAssumption
<1>6. WriterInv'
  <2>1. options'.format \in {"Text", "Xml"} BY <1>1, AcceptedOptions
  <2>2. printed' = 0 /\ written' = "no" /\ writer' = "open" /\ stream_good' = TRUE
        /\ file' = OldContents' /\ screen' = <<>>
    BY <1>1 DEF WriterInv, Fresh, OldContents
  <2>3. Len(Lines') \in Nat
    <3>1. summary' \in SummariesOf(Seq(PortNumbers), Characters)
      BY <1>5 DEF ScanSummaries, SummariesOf
    <3>2. IsSequence(ReportLines(summary', options')) BY <3>1, ReportIsSequence
    <3> QED BY <3>2 DEF Lines, IsSequence
  <2> QED BY <1>5, <2>1, <2>2, <2>3 DEF WriterInv, WriterTypes, Fresh, OtherUntouched, Progress
<1>7. summary' # NoSummary'
  <2>1. Len(summary'.config) = 1 BY <1>4 DEF MayReturn
  <2> QED BY <2>1 DEF NoSummary
<1>8. HostsOnce' BY <1>3, <1>4 DEF HostsOnce, MayReturn
<1>9. PortsOnce'
  <2>1. Repeated' <=> Repeated BY <1>3 DEF Repeated
  <2>2. \A i \in DOMAIN summary'.hosts : ReportsPorts(summary'.hosts[i]) BY <1>4 DEF MayReturn
  <2> QED BY <1>3, <2>1, <2>2 DEF PortsOnce, ReportsPorts, NoneTwice, PortsIn
<1>10. ScanInv' BY <1>1, <1>3, <1>7, <1>8, <1>9 DEF ScanInv
<1> QED BY <1>1, <1>2, <1>3, <1>6, <1>10 DEF ProgramInv, Parsing, Writing, Parsed, Accepted

(* A scan that threw leaves nothing but a message.                         *)
LEMMA RunThrowsInv == ProgramInv /\ RunThrows => ProgramInv'
<1> SUFFICES ASSUME ProgramInv, RunThrows PROVE ProgramInv' OBVIOUS
<1>1. /\ CliInv /\ WriterInv /\ writer = "open" /\ summary = NoSummary
      /\ Accepted /\ main' = "exited" /\ returned' = 1 /\ stderr' = TRUE
      /\ UNCHANGED parseVars /\ summary' = summary /\ UNCHANGED outVars
  BY DEF ProgramInv, RunThrows, Exit, Parsing
<1>2. CliInv' BY <1>1, StutterCli
<1>3. status' = status /\ stage' = stage BY <1>1 DEF parseVars, cliVars
<1>4. UNCHANGED writerVars BY <1>1 DEF outVars, writerVars
<1>5. WriterInv' BY <1>1, <1>4, WriterStutter
<1>6. writer' = writer BY <1>1 DEF outVars
<1>7. Threw' BY <1>1, <1>3, <1>6 DEF Threw, Accepted, NoSummary
<1> QED BY <1>1, <1>2, <1>3, <1>5, <1>7 DEF ProgramInv, Parsing, Writing, Parsed, Accepted

(* What is known of the summary does not depend on where write_output is.  *)
LEMMA SameScan ==
  ASSUME ScanInv, UNCHANGED <<parseVars, summary, options, interrupted>>
  PROVE  ScanInv'
<1>1. config' = config /\ output' = output /\ summary' = summary /\ options' = options
      /\ interrupted' = interrupted
  BY DEF parseVars, cliVars
<1>2. HostsOnce' BY <1>1 DEF ScanInv, HostsOnce
<1>3. Repeated' = Repeated BY <1>1 DEF Repeated
<1>4. PortsOnce' BY <1>1, <1>3 DEF ScanInv, PortsOnce, NoneTwice, PortsIn
<1> QED BY <1>1, <1>2, <1>4 DEF ScanInv, NoSummary

(* write_output steps alone.                                               *)
LEMMA WriteOutputInv == ProgramInv /\ WriteOutput => ProgramInv'
<1> SUFFICES ASSUME ProgramInv, WriteOutput PROVE ProgramInv' OBVIOUS
<1>1. /\ CliInv /\ WriterInv /\ WriterStep /\ main = "write_output" /\ status = "Ok" /\ Parsed
      /\ returned = -1 /\ ScanInv /\ UNCHANGED parseVars /\ UNCHANGED mainVars
  BY DEF ProgramInv, WriteOutput, Writing
<1>2. CliInv' BY <1>1, StutterCli
<1>3. WriterInv' BY <1>1, WriterStepInv
<1>4. status' = status /\ stage' = stage /\ main' = main /\ returned' = returned
      /\ interrupted' = interrupted
  BY <1>1 DEF parseVars, cliVars, mainVars
<1>5. UNCHANGED argVars
  BY <1>1 DEF WriterStep, UseDefaultOut, OpenFile, OpenFails, PrintLine, Return
<1>6. summary' = summary /\ options' = options BY <1>5, SameReport
<1>7. ScanInv' BY <1>1, <1>4, <1>6, SameScan
<1> QED BY <1>1, <1>2, <1>3, <1>4, <1>7 DEF ProgramInv, Parsing, Writing, Parsed

(* main() returns what write_output's verdict asks for.                    *)
LEMMA FinishInv == ProgramInv /\ Finish => ProgramInv'
<1> SUFFICES ASSUME ProgramInv, Finish PROVE ProgramInv' OBVIOUS
<1>1. /\ CliInv /\ WriterInv /\ main = "write_output" /\ status = "Ok" /\ Parsed
      /\ ScanInv /\ writer = "done" /\ main' = "exited" /\ returned' = ExitCode
      /\ stderr' = (stderr \/ written = "false")
      /\ UNCHANGED parseVars /\ interrupted' = interrupted
      /\ summary' = summary /\ UNCHANGED outVars
  BY DEF ProgramInv, Finish, Exit, Writing
<1>2. CliInv' BY <1>1, StutterCli
<1>3. status' = status /\ stage' = stage BY <1>1 DEF parseVars, cliVars
<1>4. UNCHANGED writerVars BY <1>1 DEF outVars, writerVars
<1>5. WriterInv' BY <1>1, <1>4, WriterStutter
<1>6. options' = options /\ writer' = writer /\ written' = written BY <1>1 DEF outVars
<1>7. ScanInv' BY <1>1, <1>6, SameScan
<1>8. written = "false" => stderr' BY <1>1, Zenon
<1>9. returned' = ExitCode' BY <1>1, <1>6 DEF ExitCode
<1>10. Finished' BY <1>1, <1>3, <1>6, <1>7, <1>8, <1>9 DEF Finished
<1> QED BY <1>1, <1>2, <1>3, <1>5, <1>10 DEF ProgramInv, Parsing, Writing, Parsed

(* So does a step of no variable.                                          *)
LEMMA ProgramStutter == ProgramInv /\ UNCHANGED programVars => ProgramInv'
<1> SUFFICES ASSUME ProgramInv, UNCHANGED programVars PROVE ProgramInv' OBVIOUS
<1>1. /\ UNCHANGED parseVars /\ UNCHANGED mainVars /\ summary' = summary /\ UNCHANGED outVars
  BY DEF programVars
<1>2. CliInv' BY <1>1, StutterCli DEF ProgramInv
<1>3. /\ status' = status /\ stage' = stage /\ exit_code' = exit_code
      /\ main' = main /\ returned' = returned /\ stderr' = stderr /\ interrupted' = interrupted
      /\ options' = options /\ writer' = writer /\ written' = written /\ file' = file
      /\ screen' = screen
  BY <1>1 DEF parseVars, cliVars, mainVars, outVars
<1>4. UNCHANGED writerVars BY <1>1 DEF outVars, writerVars
<1>5. main' # "exited" \/ status' = "Ok" => WriterInv'
  BY <1>3, <1>4, WriterStutter DEF ProgramInv
<1>6. ScanInv => ScanInv' BY <1>1, <1>3, SameScan
<1>7. Parsing' /\ Writing'
  BY <1>1, <1>3, <1>6 DEF ProgramInv, Parsing, Writing, NoSummary, DefaultOutput
<1>8. Refused => Refused'
  BY <1>1, <1>3 DEF Refused, NoSummary, OldContents, HelpPage
<1>9. Threw => Threw' BY <1>1, <1>3 DEF Threw, NoSummary
<1>10. Finished => Finished' BY <1>3, <1>6 DEF Finished, ExitCode
<1> QED BY <1>2, <1>3, <1>5, <1>7, <1>8, <1>9, <1>10 DEF ProgramInv, Parsed

(* The invariant holds in every reachable state.                           *)
LEMMA ProgramInvHolds == ProgramSpec => []ProgramInv
<1>1. ProgramInv /\ [ProgramNext]_programVars => ProgramInv'
  BY ParseCliInv, NotOkInv, RunReturnsInv, RunThrowsInv, WriteOutputInv, FinishInv, ProgramStutter
  DEF ProgramNext, MainStep
<1> QED BY ProgramInitInv, <1>1, PTL DEF ProgramSpec

----------------------------------------------------------------------------
(* A failed run leaves the output file as it was and stdout empty, and     *)
(* says why on stderr.                                                     *)
THEOREM ProgramLeavesNoTrace == ProgramSpec => []FailureLeavesNoTrace
<1>1. ProgramInv => FailureLeavesNoTrace
  <2> SUFFICES ASSUME ProgramInv PROVE FailureLeavesNoTrace OBVIOUS
  <2>1. ASSUME returned \notin {-1, 0} PROVE file = OldContents /\ screen = <<>> /\ stderr
    <3>1. main = "exited" BY <2>1 DEF ProgramInv, Parsing, Writing
    <3>2. CASE Refused
      <4>1. status = "Error" BY <2>1, <3>1, <3>2 DEF Refused, ProgramInv, CliInv, CliTypeOK,
                                                   ExitCodeTruthful
      <4> QED BY <3>2, <4>1 DEF Refused
    <3>3. CASE Threw BY <3>3 DEF Threw, ProgramInv, WriterInv, Fresh
    <3>4. CASE Finished
      <4>1. written = "false" BY <2>1, <3>4 DEF Finished, ExitCode
      <4> QED BY <3>4, <4>1 DEF Finished, ProgramInv, WriterInv, OtherUntouched
    <3> QED BY <3>1, <3>2, <3>3, <3>4 DEF ProgramInv
  <2>2. ASSUME summary = NoSummary PROVE file = OldContents
    <3>1. CASE main = "parse_cli" BY <3>1 DEF ProgramInv, Parsing, WriterInv, Fresh
    <3>2. CASE main = "write_output" BY <2>2, <3>2 DEF ProgramInv, Writing, ScanInv
    <3>3. CASE main = "exited"
      <4>1. CASE Refused BY <4>1 DEF Refused
      <4>2. CASE Threw BY <4>2 DEF Threw, ProgramInv, WriterInv, Fresh
      <4>3. CASE Finished BY <2>2, <4>3 DEF Finished, ScanInv
      <4> QED BY <3>3, <4>1, <4>2, <4>3 DEF ProgramInv
    <3> QED BY <3>1, <3>2, <3>3 DEF ProgramInv
  <2> QED BY <2>1, <2>2 DEF FailureLeavesNoTrace
<1> QED BY <1>1, ProgramInvHolds, PTL

(* The destination is the one asked for.                                   *)
LEMMA DestinationAsked ==
  ASSUME ProgramInv, status = "Ok", Parsed, options = output
  PROVE  /\ ToAFile <=> cmd.oX # "absent" \/ cmd.oN # "absent"
         /\ IsText <=> cmd.oX = "absent"
         /\ "absent" \in {cmd.oX, cmd.oN}
         /\ config.targets = cmd.targets
<1>1. /\ CliInv /\ Accepted /\ OptionsHonoured /\ Valid /\ cmd \in CommandLines
  BY DEF ProgramInv, CliInv, Accepted, AcceptedIfValid, CliTypeOK
<1>2. cmd.oX # "none" /\ cmd.oN # "none" BY <1>1, ProgramAssumption
<1>3. "absent" \in {cmd.oX, cmd.oN} BY <1>1 DEF Valid, RightOptions
<1> QED BY <1>1, <1>2, <1>3, AcceptedOptions DEF OptionsHonoured, ToAFile, IsText

(* stdout carries a report, or the help page, or nothing.                  *)
THEOREM ProgramStdout == ProgramSpec => []StdoutClean
<1>1. ProgramInv => StdoutClean
  <2> SUFFICES ASSUME ProgramInv, screen # <<>>
               PROVE  \/ status = "Exit" /\ screen = HelpPage
                      \/ cmd.oX = "absent" /\ cmd.oN = "absent" /\ IsPrefix(screen, Lines)
    BY DEF StdoutClean
  <2>1. CASE main = "exited" /\ Refused
    BY <2>1 DEF Refused
  <2>2. CASE ~(main = "exited" /\ Refused)
    <3>1. WriterInv /\ WrittenInOrder
      BY <2>2, InOrderByInv DEF ProgramInv, Threw, Finished
    <3>2. writer # "open" /\ written # "false" /\ ~ToAFile
      BY <3>1 DEF WriterInv, Fresh, WrittenInOrder
    <3>3. main # "parse_cli" /\ ~Threw BY <3>2 DEF ProgramInv, Parsing, Threw
    <3>4. status = "Ok" /\ Parsed /\ options = output
      BY <2>2, <3>3 DEF ProgramInv, Writing, Finished, ScanInv
    <3>5. cmd.oX = "absent" /\ cmd.oN = "absent" BY <3>2, <3>4, DestinationAsked
    <3>6. Written = screen BY <3>2 DEF Written
    <3> QED BY <3>1, <3>2, <3>5, <3>6 DEF WrittenInOrder
  <2> QED BY <2>1, <2>2
<1> QED BY <1>1, ProgramInvHolds, PTL

----------------------------------------------------------------------------
(* The report that was asked for                                           *)

(* The target and the port of each result of a summary.                    *)
KeyList(h) == [j \in DOMAIN h.ports |-> <<h.host, h.ports[j].port>>]
KeyLists(s) == [i \in DOMAIN s.hosts |-> KeyList(s.hosts[i])]
Keys(rows) == [i \in DOMAIN rows |-> <<rows[i][1], rows[i][2]>>]

(* They are those of its hosts, one list after another.                    *)
LEMMA KeysOfResults ==
  ASSUME NEW Lists, NEW s \in SummariesOf(Lists, Characters)
  PROVE  /\ KeyLists(s) \in Seq(Seq(Seq(Characters) \X PortNumbers))
         /\ Keys(Results(s)) = FlattenSeq(KeyLists(s))
         /\ \A i \in DOMAIN Results(s) : \E h \in DOMAIN s.hosts :
              Results(s)[i][1] = s.hosts[h].host
<1> DEFINE R == ResultRows(Characters)
           W == Seq(Characters) \X PortNumbers
           f == [row \in R |-> <<row[1], row[2]>>]
           lists == ResultLists(s.hosts)
           all == Results(s)
<1>1. /\ s.hosts \in Seq(HostResults(Characters)) /\ lists \in Seq(Seq(R))
      /\ all = FlattenSeq(lists) /\ all \in Seq(R)
  BY ResultsType
<1>2. f \in [R -> W]
  <2>1. \A row \in R : row[1] \in Seq(Characters) /\ row[2] \in PortNumbers BY DEF ResultRows
  <2> HIDE DEF R
  <2> QED BY <2>1
<1>3. Keys(all) = Mapping(f, all)
  <2>1. \A i \in DOMAIN all : f[all[i]] = <<all[i][1], all[i][2]>>
    <3> HIDE DEF R
    <3> QED BY <1>1
  <2> HIDE DEF f, all
  <2> QED BY <2>1 DEF Mapping, Keys
<1>4. KeyLists(s) = MapEach(f, lists)
  <2>1. ASSUME NEW i \in DOMAIN s.hosts PROVE KeyList(s.hosts[i]) = Mapping(f, lists[i])
    <3> DEFINE h == s.hosts[i]
               q == HostResultRows(h)
    <3>1. h \in HostResults(Characters) BY <1>1
    <3>2. q \in Seq(R) /\ Len(q) = Len(h.ports) /\ h.ports \in Seq(PortResults(Characters))
      BY <3>1, HostResultRowsType, HostRowsType
    <3>3. \A j \in DOMAIN h.ports : q[j] = <<h.host, h.ports[j].port, h.ports[j].state>>
      BY DEF HostResultRows
    <3>4. lists[i] = q BY DEF ResultLists
    <3> HIDE DEF q, h, R, f
    <3>5. DOMAIN q = DOMAIN h.ports BY <3>2
    <3>6. \A j \in DOMAIN h.ports : f[q[j]] = <<h.host, h.ports[j].port>>
      BY <3>2, <3>3, <3>5 DEF f
    <3>7. KeyList(h) = Mapping(f, q) BY <3>5, <3>6 DEF KeyList, Mapping
    <3> QED BY <3>4, <3>7 DEF h
  <2>2. DOMAIN lists = DOMAIN s.hosts BY DEF ResultLists
  <2> HIDE DEF f, lists
  <2> QED BY <2>1, <2>2 DEF KeyLists, MapEach
<1>5. ASSUME NEW i \in DOMAIN all PROVE \E h \in DOMAIN s.hosts : all[i][1] = s.hosts[h].host
  <2>1. PICK h \in DOMAIN lists : \E j \in DOMAIN lists[h] : all[i] = lists[h][j]
    <3> HIDE DEF lists, R, all
    <3> QED BY <1>1, FlattenElements
  <2>2. PICK j \in DOMAIN lists[h] : all[i] = lists[h][j] BY <2>1
  <2>3. h \in DOMAIN s.hosts /\ lists[h] = HostResultRows(s.hosts[h]) BY DEF ResultLists
  <2>4. lists[h][j] = <<s.hosts[h].host, s.hosts[h].ports[j].port, s.hosts[h].ports[j].state>>
    BY <2>2, <2>3 DEF HostResultRows
  <2> QED BY <2>2, <2>3, <2>4
<1> HIDE DEF f, R, W, lists, all
<1>6. MapEach(f, lists) \in Seq(Seq(W)) /\ Mapping(f, FlattenSeq(lists)) = FlattenSeq(MapEach(f, lists))
  BY <1>1, <1>2, MapFlatten, SMTT(30)
<1> QED BY <1>1, <1>3, <1>4, <1>5, <1>6 DEF W, all

HostNames(s) == {s.hosts[i].host : i \in DOMAIN s.hosts}
OnceEach(s, P) ==
  /\ \A i, j \in DOMAIN s.hosts : s.hosts[i].host = s.hosts[j].host => i = j
  /\ \A i \in DOMAIN s.hosts : NoneTwice(s.hosts[i]) /\ PortsIn(s.hosts[i]) = P

(* With one entry for each host, and in it one for each of some ports,     *)
(* there is one for each host and port.                                    *)
LEMMA KeysOnce ==
  ASSUME NEW Lists, NEW s \in SummariesOf(Lists, Characters), NEW P, OnceEach(s, P)
  PROVE  /\ IsInjective(Keys(Results(s)))
         /\ ToSet(Keys(Results(s))) = HostNames(s) \X P
<1> DEFINE W == Seq(Characters) \X PortNumbers
           lists == KeyLists(s)
           n == Len(s.hosts)
<1>1. lists \in Seq(Seq(W)) /\ Keys(Results(s)) = FlattenSeq(lists) BY KeysOfResults
<1>2. s.hosts \in Seq(HostResults(Characters)) BY ResultsType
<1>3. Len(lists) = n /\ n \in Nat /\ DOMAIN s.hosts = 1 .. n BY <1>2 DEF KeyLists
<1>4. ASSUME NEW i \in 1 .. n
      PROVE  IsInjective(lists[i]) /\ ToSet(lists[i]) = {s.hosts[i].host} \X P
  <2> DEFINE h == s.hosts[i]
  <2>1. lists[i] = KeyList(h) BY <1>3 DEF KeyLists
  <2>2. NoneTwice(h) /\ PortsIn(h) = P BY <1>3 DEF OnceEach
  <2> HIDE DEF h, lists
  <2>3. IsInjective(KeyList(h)) BY <2>2 DEF KeyList, IsInjective, NoneTwice
  <2>4. ToSet(KeyList(h)) = {h.host} \X P
    <3>1. P = {h.ports[j].port : j \in DOMAIN h.ports} BY <2>2 DEF PortsIn
    <3>2. DOMAIN KeyList(h) = DOMAIN h.ports
          /\ \A j \in DOMAIN h.ports : KeyList(h)[j] = <<h.host, h.ports[j].port>>
      BY DEF KeyList
    <3>3. ToSet(KeyList(h)) = {<<h.host, h.ports[j].port>> : j \in DOMAIN h.ports}
      BY <3>2 DEF ToSet
    <3>4. \A x \in {<<h.host, h.ports[j].port>> : j \in DOMAIN h.ports} : x \in {h.host} \X P
      BY <3>1
    <3>5. ASSUME NEW x \in {h.host} \X P
          PROVE  x \in {<<h.host, h.ports[j].port>> : j \in DOMAIN h.ports}
      <4>1. PICK j \in DOMAIN h.ports : x[2] = h.ports[j].port BY <3>1
      <4>2. x = <<h.host, h.ports[j].port>> BY <4>1
      <4> QED BY <4>2
    <3> QED BY <3>3, <3>4, <3>5
  <2> QED BY <2>1, <2>3, <2>4 DEF h
<1>5. ASSUME NEW i \in 1 .. n, NEW j \in 1 .. n, i # j
      PROVE  ToSet(lists[i]) \cap ToSet(lists[j]) = {}
  <2>1. s.hosts[i].host # s.hosts[j].host BY <1>3, <1>5 DEF OnceEach
  <2>2. ToSet(lists[i]) = {s.hosts[i].host} \X P /\ ToSet(lists[j]) = {s.hosts[j].host} \X P
    BY <1>4
  <2> HIDE DEF lists
  <2> QED BY <2>1, <2>2
<1> HIDE DEF lists, n, W
<1>6. /\ ToSet(FlattenSeq(lists)) = InFirst(lists, Len(lists))
      /\ IsInjective(FlattenSeq(lists))
  BY <1>1, <1>3, <1>4, <1>5, OnceFlatten
<1>7. InFirst(lists, n) = {s.hosts[i].host : i \in 1 .. n} \X P
  BY <1>4 DEF InFirst
<1> QED BY <1>1, <1>3, <1>6, <1>7 DEF HostNames

(* Names without control characters are read as they are.                  *)
LEMMA PrintableAsTheyAre ==
  ASSUME NEW Lists, NEW s \in SummariesOf(Lists, Characters),
         \A i \in DOMAIN s.hosts : "control" \notin ToSet(s.hosts[i].host)
  PROVE  PrintableResults(s) = Results(s)
<1> DEFINE all == Results(s)
<1>1. all \in Seq(ResultRows(Characters)) BY ResultsType
<1>2. ASSUME NEW i \in DOMAIN all
      PROVE  <<Printable(all[i][1]), all[i][2], all[i][3]>> = all[i]
  <2>1. all[i] \in ResultRows(Characters)
    <3> HIDE DEF all
    <3> QED BY <1>1
  <2>2. all[i][1] \in Seq(Characters) /\ all[i] = <<all[i][1], all[i][2], all[i][3]>>
    BY <2>1 DEF ResultRows
  <2>3. "control" \notin ToSet(all[i][1]) BY KeysOfResults
  <2>4. Printable(all[i][1]) = all[i][1] BY <2>2, <2>3, PrintableAsIs
  <2> QED BY <2>2, <2>4
<1>3. PrintableResults(s) = [i \in DOMAIN all |-> <<Printable(all[i][1]), all[i][2], all[i][3]>>]
  BY DEF PrintableResults
<1> HIDE DEF all
<1>4. [i \in DOMAIN all |-> <<Printable(all[i][1]), all[i][2], all[i][3]>>]
        = [i \in DOMAIN all |-> all[i]]
  BY <1>2
<1>5. [i \in DOMAIN all |-> all[i]] = all BY <1>1
<1> QED BY <1>3, <1>4, <1>5 DEF all

(* A run that ends with 0, undisturbed, has put one row for each target    *)
(* and port where it was asked for, and no other.                          *)
THEOREM ProgramReports == ProgramSpec => []RequestedReport
<1>1. ProgramInv => RequestedReport
  <2> DEFINE requested == ToSet(cmd.targets) \X UNION {Denoted(it) : it \in Items}
  <2> SUFFICES ASSUME ProgramInv, returned = 0, status = "Ok", ~interrupted, stream_good,
                      ~Repeated, cmd.modes \subseteq {"Verbose", "PortsOnly"},
                      \A i \in DOMAIN cmd.targets : "control" \notin ToSet(cmd.targets[i])
               PROVE  /\ {<<RowsShown[i][1], RowsShown[i][2]>> : i \in DOMAIN RowsShown} = requested
                      /\ \A i, j \in DOMAIN RowsShown :
                           i # j => <<RowsShown[i][1], RowsShown[i][2]>>
                                      # <<RowsShown[j][1], RowsShown[j][2]>>
    BY DEF RequestedReport
  <2>1. /\ main = "exited" /\ Finished
    BY DEF ProgramInv, Parsing, Writing, Refused, Threw
  <2>2. /\ WriterInv /\ Parsed /\ writer = "done" /\ options = output /\ HostsOnce /\ PortsOnce
        /\ written = "true" /\ CliInv
    BY <2>1 DEF ProgramInv, Finished, ScanInv, ExitCode, WriterInv, WriterTypes
  <2>3. Whole BY <2>2 DEF Whole
  <2>4. /\ ToAFile <=> cmd.oX # "absent" \/ cmd.oN # "absent"
        /\ IsText <=> cmd.oX = "absent"
        /\ config.targets = cmd.targets
    BY <2>2, DestinationAsked
  <2>5. Destination = Written BY <2>4 DEF Destination, Written
  <2>6. summary \in SummariesOf(Seq(PortNumbers), Characters) BY <2>2, <2>3, WholeReport
  <2>7. \A i \in DOMAIN summary.hosts : "control" \notin ToSet(summary.hosts[i].host)
    <3>1. {summary.hosts[i].host : i \in DOMAIN summary.hosts} = ToSet(cmd.targets)
      BY <2>2, <2>4 DEF HostsOnce
    <3>2. \A name \in ToSet(cmd.targets) : "control" \notin ToSet(name) BY DEF ToSet
    <3> QED BY <3>1, <3>2
  <2>8. IsText => ShowsAll
    <3>1. cmd.modes = {} => output.text_mode = "Normal"
      BY <2>2 DEF CliInv, OptionsHonoured, Accepted
    <3>2. \A m \in cmd.modes : output.text_mode = m
      BY <2>2 DEF CliInv, OptionsHonoured, Accepted
    <3> QED BY <2>2, <3>1, <3>2 DEF ShowsAll
  <2>9. RowsShown = Results(summary)
    <3>1. ResultsShown BY <2>2, ShownByInv
    <3>2. CASE IsText
      BY <2>3, <2>4, <2>5, <2>8, <3>1, <3>2 DEF ResultsShown, RowsShown
    <3>3. CASE ~IsText
      <4>1. RowsShown = ReadXml(Written) BY <2>4, <2>5, <3>3 DEF RowsShown
      <4>2. ReadXml(Written) = PrintableResults(summary) BY <2>3, <3>1, <3>3 DEF ResultsShown
      <4>3. PrintableResults(summary) = Results(summary) BY <2>6, <2>7, PrintableAsTheyAre
      <4> QED BY <4>1, <4>2, <4>3
    <3> QED BY <3>2, <3>3
  <2>10. config.ports = UNION {Denoted(it) : it \in Items}
    BY <2>2 DEF CliInv, RunnableConfig, Accepted
  <2>11. OnceEach(summary, config.ports)
    BY <2>2 DEF HostsOnce, PortsOnce, OnceEach
  <2> DEFINE rows == Results(summary)
             keys == Keys(rows)
  <2>12. IsInjective(keys) /\ ToSet(keys) = HostNames(summary) \X config.ports
    BY <2>6, <2>11, KeysOnce
  <2>13. HostNames(summary) = ToSet(cmd.targets)
    BY <2>2, <2>4 DEF HostsOnce, HostNames
  <2>14. ToSet(keys) = requested BY <2>10, <2>12, <2>13
  <2>15. DOMAIN keys = DOMAIN rows /\ \A i \in DOMAIN rows : keys[i] = <<rows[i][1], rows[i][2]>>
    BY DEF Keys
  <2> HIDE DEF rows, keys, requested
  <2>16. {<<rows[i][1], rows[i][2]>> : i \in DOMAIN rows} = requested
    BY <2>14, <2>15 DEF ToSet
  <2>17. \A i, j \in DOMAIN rows : i # j => <<rows[i][1], rows[i][2]>> # <<rows[j][1], rows[j][2]>>
    BY <2>12, <2>15 DEF IsInjective
  <2>18. RowsShown = rows BY <2>9 DEF rows
  <2> QED BY <2>16, <2>17, <2>18, Zenon
<1> QED BY <1>1, ProgramInvHolds, PTL

=============================================================================
