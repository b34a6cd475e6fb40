------------------------------- MODULE Report -------------------------------
(***************************************************************************)
(* What the formatters print for a summary (src/formatters/), and the      *)
(* counts they take from src/result/.  A summary is a record of an         *)
(* optional config, here the sequence of no or one list of ports, and the  *)
(* hosts, each a record of its name and its results; a result is a record  *)
(* of port, state and reason.  A report is a sequence of lines, each a     *)
(* tuple that begins with the kind of line; times and layout are left out. *)
(* Names and reasons are sequences of characters: XML must escape them.    *)
(* Sums and readings are recursive functions and flattened sequences.      *)
(***************************************************************************)
EXTENDS Integers, SequencesExt

PortStates == {"Open", "Closed", "Filtered", "Error"}

PortNumbers == 0 .. 65535
PortResults(Characters) ==
  [port : PortNumbers, state : PortStates, reason : Seq(Characters)]
HostResults(Characters) ==
  [host : Seq(Characters), ports : Seq(PortResults(Characters))]
ScanSummaries(Characters) ==
  [config : Seq(Seq(PortNumbers)), hosts : Seq(HostResults(Characters))]

EachOf(Lines(_), items) == FlattenSeq([i \in DOMAIN items |-> Lines(items[i])])
Total(numbers) ==
  LET sum[i \in 0 .. Len(numbers)] == IF i = 0 THEN 0 ELSE sum[i - 1] + numbers[i]
  IN  sum[Len(numbers)]
SumOf(Count(_), hosts) == Total([i \in DOMAIN hosts |-> Count(hosts[i])])

(* HostResult and ScanSummary                                              *)
count_by_state(h, state) == Cardinality({i \in DOMAIN h.ports : h.ports[i].state = state})
open_ports(h) == count_by_state(h, "Open")
HostPorts(h) == Len(h.ports)

total_hosts(s) == Len(s.hosts)
total_ports(s) == SumOf(HostPorts, s.hosts)
total_open_ports(s) == SumOf(open_ports, s.hosts)
UpIfScanned(s) == Cardinality({i \in DOMAIN s.hosts : HostPorts(s.hosts[i]) > 0})
hosts_up(s) == Cardinality({i \in DOMAIN s.hosts : open_ports(s.hosts[i]) > 0})
hosts_down(s) == total_hosts(s) - hosts_up(s)

----------------------------------------------------------------------------
(* TextFormatter                                                           *)

ShowsReason(o) == o.text_mode = "Verbose" \/ o.show_reason

print_host(h, o) ==
  << <<"host", h.host>> >>
  \o [i \in DOMAIN h.ports |->
        <<"row", h.ports[i].port, h.ports[i].state,
          IF ShowsReason(o) THEN h.ports[i].reason ELSE <<>> >>]
  \o << <<"blank">> >>

print_summary(s) ==
  << <<"stat", "hosts", total_hosts(s)>>, <<"stat", "ports", total_ports(s)>>,
     <<"stat", "open", total_open_ports(s)>> >>

NotFiltered(r) == r.state # "Filtered"
IsOpen(r) == r.state = "Open"

QuietHost(h) ==
  EachOf(LAMBDA r : IF IsOpen(r) THEN << <<"open", h.host, r.port>> >> ELSE <<>>, h.ports)
print_quiet(s) == EachOf(QuietHost, s.hosts)

print_summary_only(s) ==
  << <<"stat", "hosts", total_hosts(s)>>, <<"stat", "up", hosts_up(s)>>,
     <<"stat", "ports", total_ports(s)>>, <<"stat", "open", total_open_ports(s)>> >>

(* i < summary.hosts.size() - 1.                                           *)
EveryHost(i, s) == i <= Len(s.hosts)
NotLastHost(i, s) == i < Len(s.hosts)

print_ports_only(s) ==
  FlattenSeq([i \in DOMAIN s.hosts |->
    << <<"host", s.hosts[i].host>> >>
    \o [j \in DOMAIN s.hosts[i].ports |->
          <<"row", s.hosts[i].ports[j].port, s.hosts[i].ports[j].state, <<>> >>]
    \o (IF NotLastHost(i, s) THEN << <<"blank">> >> ELSE <<>>)])

print_hosts_only(s) ==
  [i \in DOMAIN s.hosts |->
     <<"availability", s.hosts[i].host,
       IF HostPorts(s.hosts[i]) > 0 THEN "up" ELSE "down", open_ports(s.hosts[i])>>]

TextLines(s, o) ==
  CASE o.text_mode = "Quiet" -> print_quiet(s)
    [] o.text_mode = "Summary" -> print_summary_only(s)
    [] o.text_mode = "PortsOnly" -> print_ports_only(s)
    [] o.text_mode = "HostsOnly" -> print_hosts_only(s)
    [] OTHER -> << <<"header">> >> \o EachOf(LAMBDA h : print_host(h, o), s.hosts)
                \o print_summary(s)

----------------------------------------------------------------------------
(* XmlFormatter: "begin" and "end" are the tags of an element with         *)
(* contents, "empty" is a tag without.                                     *)

Special == {"&", "<", ">", "quote", "apostrophe"}
Entity ==
  [c \in Special |-> CASE c = "&" -> "&amp;" [] c = "<" -> "&lt;" [] c = ">" -> "&gt;"
                       [] c = "quote" -> "&quot;" [] c = "apostrophe" -> "&apos;"]

EscapeChar(c) ==
  IF c = "control" THEN <<>> ELSE IF c \in Special THEN <<Entity[c]>> ELSE <<c>>
escape_xml(text) == EachOf(EscapeChar, text)

scaninfo(s) ==
  IF s.config = <<>> THEN <<>>
  ELSE << <<"empty", "scaninfo", s.config[1]>> >>

XmlPort(r) ==
  << <<"begin", "port", r.port>>,
     <<"empty", "state", r.state, escape_xml(r.reason)>>,
     <<"end", "port">> >>

PortsNeverClosed(h) == << <<"begin", "ports">> >> \o EachOf(XmlPort, h.ports)
XmlPorts(h) ==
  IF h.ports = <<>> THEN <<>>
  ELSE << <<"begin", "ports">> >> \o EachOf(XmlPort, h.ports) \o << <<"end", "ports">> >>

XmlHost(h) ==
  << <<"begin", "host">>, <<"empty", "address", escape_xml(h.host)>> >>
  \o XmlPorts(h) \o << <<"end", "host">> >>

runstats(s) ==
  [up |-> hosts_up(s), down |-> hosts_down(s), total |-> total_hosts(s),
   ports |-> total_ports(s), open |-> total_open_ports(s),
   closed |-> SumOf(LAMBDA h : count_by_state(h, "Closed"), s.hosts),
   filtered |-> SumOf(LAMBDA h : count_by_state(h, "Filtered"), s.hosts)]

XmlLines(s) ==
  << <<"begin", "asioscan">> >> \o scaninfo(s) \o EachOf(XmlHost, s.hosts)
  \o << <<"empty", "runstats", runstats(s)>>, <<"end", "asioscan">> >>

ReportLines(s, o) == IF o.format = "Xml" THEN XmlLines(s) ELSE TextLines(s, o)

----------------------------------------------------------------------------
(* What a reader of a report sees                                          *)

(* The results of a summary, and those read off the lines of a report: a   *)
(* line that names a host, or a port, holds until the next one.            *)
Results(s) ==
  EachOf(LAMBDA h : [i \in DOMAIN h.ports |-> <<h.host, h.ports[i].port, h.ports[i].state>>],
         s.hosts)

Above(lines, i, field, word) == lines[Max({j \in 1 .. i : lines[j][field] = word})]

ReadText(lines) ==
  FlattenSeq([i \in DOMAIN lines |->
    IF lines[i][1] = "row"
    THEN << <<Above(lines, i, 1, "host")[2], lines[i][2], lines[i][3]>> >> ELSE <<>>])

Unescaped(text) ==
  [i \in DOMAIN text |->
     IF \E c \in Special : Entity[c] = text[i]
     THEN CHOOSE c \in Special : Entity[c] = text[i] ELSE text[i]]

ReadXml(lines) ==
  FlattenSeq([i \in DOMAIN lines |->
    IF lines[i][2] = "state"
    THEN << <<Unescaped(Above(lines, i, 2, "address")[3]), Above(lines, i, 2, "port")[3],
              lines[i][3]>> >>
    ELSE <<>>])

(* Of the elements that begin at the lines starts, those that hold one of  *)
(* the lines found.                                                        *)
Enclosing(starts, found) ==
  {i \in starts : \E j \in found : i < j /\ starts \cap (i + 1) .. j = {}}

Printable(text) == EachOf(LAMBDA c : IF c = "control" THEN <<>> ELSE <<c>>, text)
PrintableResults(s) ==
  LET all == Results(s) IN [i \in DOMAIN all |-> <<Printable(all[i][1]), all[i][2], all[i][3]>>]

=============================================================================
