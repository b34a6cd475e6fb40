---------------------------- MODULE OutputWriter ----------------------------
(***************************************************************************)
(* write_output (src/formatters/output_writer.cpp): chooses the formatter  *)
(* and the destination, and prints.  The file system is external: opening  *)
(* may fail, and while lines are written the device may refuse more, from  *)
(* when on the stream silently drops what it is given.  default_out only   *)
(* ever grows.                                                             *)
(***************************************************************************)
EXTENDS Report

CONSTANTS
  Characters,                 \* what names and reasons are made of
  Summaries, OptionChoices    \* the arguments to consider

(* No single character reads as an entity does.                            *)
ASSUME WriterAssumption ==
  /\ \A c \in Special : Entity[c] \notin Characters
  /\ Summaries \subseteq ScanSummaries(Characters)
  /\ \A o \in OptionChoices : o.format \in {"Text", "Xml"}

VARIABLES
  summary, options,   \* the arguments
  writer,             \* where write_output is
  printed,            \* how many lines the formatter has put out
  stream_good,
  file,               \* the contents of the output file
  screen,             \* what reached default_out
  written             \* what write_output returns

writerVars == <<summary, options, writer, printed, stream_good, file, screen, written>>
argVars == <<summary, options>>

OldContents == << <<"old">> >>
ToAFile == options.output_file # "none"
Lines == ReportLines(summary, options)

WriterStart ==
  /\ writer = "open" /\ printed = 0 /\ stream_good = TRUE
  /\ file = OldContents /\ screen = <<>> /\ written = "no"

UseDefaultOut ==
  /\ writer = "open" /\ ~ToAFile
  /\ writer' = "print"
  /\ UNCHANGED <<argVars, printed, stream_good, file, screen, written>>

OpenAppending == UNCHANGED file
Truncate == file' = <<>>

OpenFile ==
  /\ writer = "open" /\ ToAFile
  /\ Truncate
  /\ writer' = "print"
  /\ UNCHANGED <<argVars, printed, stream_good, screen, written>>

OpenFails ==
  /\ writer = "open" /\ ToAFile
  /\ writer' = "done" /\ written' = "false"
  /\ UNCHANGED <<argVars, printed, stream_good, file, screen>>

AlwaysDefaultOut(line) == screen' = Append(screen, line) /\ UNCHANGED file
ToActiveStream(line) ==
  IF ToAFile THEN file' = Append(file, line) /\ UNCHANGED screen
  ELSE screen' = Append(screen, line) /\ UNCHANGED file

Retried == IF stream_good' THEN printed + 1 ELSE printed
Advanced == printed + 1

PrintLine ==
  /\ writer = "print" /\ printed < Len(Lines)
  /\ stream_good' \in {stream_good, FALSE}
  /\ IF stream_good' THEN ToActiveStream(Lines[printed + 1]) ELSE UNCHANGED <<file, screen>>
  /\ printed' = Advanced
  /\ UNCHANGED <<argVars, writer, written>>

(* print returns nothing and the stream's state is not looked at.          *)
Return ==
  /\ writer = "print" /\ printed = Len(Lines)
  /\ writer' = "done" /\ written' = "true"
  /\ UNCHANGED <<argVars, printed, stream_good, file, screen>>

WriterStep == UseDefaultOut \/ OpenFile \/ OpenFails \/ PrintLine \/ Return

WriterInit == summary \in Summaries /\ options \in OptionChoices /\ WriterStart
WriterNext == WriterStep \/ (writer = "done" /\ UNCHANGED writerVars)
WriterSpec == WriterInit /\ [][WriterNext]_writerVars

----------------------------------------------------------------------------
(* Properties                                                              *)

Written == IF ToAFile THEN file ELSE screen
Whole == writer = "done" /\ written = "true" /\ stream_good
IsText == options.format = "Text"
ShowsAll == options.format = "Xml" \/ options.text_mode \in {"Normal", "Verbose", "PortsOnly"}

(* The destination holds the beginning of the report, all of it when the   *)
(* device took it; the other destination, and a file that could not be     *)
(* opened, are as they were.                                               *)
WrittenInOrder ==
  /\ ~ToAFile => file = OldContents
  /\ ToAFile => screen = <<>>
  /\ written = "false" => file = OldContents /\ screen = <<>>
  /\ writer # "open" /\ written # "false" => IsPrefix(Written, Lines)
  /\ Whole => Written = Lines

(* Every result is in the report once, under its own host and in order; in *)
(* the quiet mode every open one.                                          *)
ResultsShown ==
  Whole =>
    /\ IsText /\ ShowsAll => ReadText(Written) = Results(summary)
    /\ ~IsText => ReadXml(Written) = PrintableResults(summary)
    /\ IsText /\ options.text_mode = "Quiet" =>
         Written = EachOf(LAMBDA r : IF r[3] = "Open" THEN << <<"open", r[1], r[2]>> >> ELSE <<>>,
                          Results(summary))

(* The figures of a report agree with its rows: in the normal modes, and   *)
(* in XML, where a host is up exactly if its element holds an open state.  *)
(* Two modes print figures without rows, and agree with the results of the *)
(* summary.  --summary has the "up" of XML.  In --hosts-only any result    *)
(* makes a host up (text_formatter.cpp:203), so that an up host may be one *)
(* that the other modes count as down; the lines with an open port are     *)
(* those of the hosts that are up there.                                   *)
Kind(kind) == {i \in DOMAIN Written : Written[i][1] = kind}
NormalFigures ==
  LET n == Len(Written)
      OpenLines == {i \in Kind("row") : Written[i][3] = "Open"}
  IN  /\ Kind("stat") = (n - 2) .. n
      /\ Written[n - 2] = <<"stat", "hosts", Cardinality(Kind("host"))>>
      /\ Written[n - 1] = <<"stat", "ports", Cardinality(Kind("row"))>>
      /\ Written[n] = <<"stat", "open", Cardinality(OpenLines)>>

Element(name) == {i \in DOMAIN Written : Written[i][1] # "end" /\ Written[i][2] = name}
InState(state) == {i \in Element("state") : Written[i][3] = state}
XmlFigures ==
  LET stats == Written[Len(Written) - 1][3] IN
  /\ Element("runstats") = {Len(Written) - 1}
  /\ stats.total = Cardinality(Element("host"))
  /\ stats.ports = Cardinality(Element("state"))
  /\ stats.open = Cardinality(InState("Open"))
  /\ stats.closed = Cardinality(InState("Closed"))
  /\ stats.filtered = Cardinality(InState("Filtered"))
  /\ stats.up = Cardinality(Enclosing(Element("host"), InState("Open")))
  /\ stats.up + stats.down = stats.total

UpHosts ==
  {i \in DOMAIN summary.hosts : \E r \in ToSet(summary.hosts[i].ports) : r.state = "Open"}
SummaryFigures ==
  LET results == Results(summary)
      OpenOnes == {k \in DOMAIN results : results[k][3] = "Open"}
  IN  Written = << <<"stat", "hosts", Len(summary.hosts)>>,
                   <<"stat", "up", Cardinality(UpHosts)>>,
                   <<"stat", "ports", Len(results)>>,
                   <<"stat", "open", Cardinality(OpenOnes)>> >>

HostsOnlyFigures ==
  /\ DOMAIN Written = DOMAIN summary.hosts
  /\ \A i \in DOMAIN Written :
       LET h == summary.hosts[i] IN
       /\ Written[i][2] = h.host
       /\ Written[i][3] = "down" <=> h.ports = <<>>
       /\ Written[i][4] = Cardinality({j \in DOMAIN h.ports : h.ports[j].state = "Open"})
  /\ {i \in DOMAIN Written : Written[i][4] > 0} = UpHosts

StatisticsMatchRows ==
  Whole =>
    /\ ~IsText => XmlFigures
    /\ IsText =>
         /\ options.text_mode \in {"Normal", "Verbose"} => NormalFigures
         /\ options.text_mode = "Summary" => SummaryFigures
         /\ options.text_mode = "HostsOnly" => HostsOnlyFigures

(* The XML has one root, its elements nest, and no character of a name or  *)
(* of a reason can end the attribute it is in.                             *)
AfterTag(open, l) ==
  CASE l[1] = "begin" -> Append(open, l[2])
    [] l[1] = "end" -> IF open # <<>> /\ Last(open) = l[2] THEN Front(open)
                       ELSE Append(open, "mismatch")
    [] OTHER -> open
OpenElements(lines) ==
  LET open[i \in 0 .. Len(lines)] == IF i = 0 THEN <<>> ELSE AfterTag(open[i - 1], lines[i])
  IN  open
NoMarkup(text) == ToSet(text) \cap (Special \cup {"control"}) = {}
XmlWellFormed ==
  Whole /\ ~IsText =>
    /\ Written[1] = <<"begin", "asioscan">>
    /\ LET open == OpenElements(Written)
       IN  \A i \in DOMAIN Written : open[i] = <<>> <=> i = Len(Written)
    /\ \A i \in DOMAIN Written :
         /\ Written[i][2] = "address" => NoMarkup(Written[i][3])
         /\ Written[i][2] = "state" => NoMarkup(Written[i][4])

(* In --ports-only one blank line lies between two hosts and none is at    *)
(* the end, whatever the number of hosts (the bound is size() - 1).        *)
BlankLinesSeparate ==
  Whole /\ IsText /\ options.text_mode = "PortsOnly" =>
    /\ \A i \in DOMAIN Written :
         Written[i] = <<"blank">> => i < Len(Written) /\ Written[i + 1][1] = "host"
    /\ \A i \in 2 .. Len(Written) : Written[i][1] = "host" => Written[i - 1] = <<"blank">>

=============================================================================
