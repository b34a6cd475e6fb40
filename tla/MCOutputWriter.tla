--------------------------- MODULE MCOutputWriter ---------------------------
(***************************************************************************)
(* All summaries of up to two hosts, the first with up to two results,     *)
(* under every mode, format and destination.  The second host's name needs *)
(* escaping.                                                               *)
(***************************************************************************)
EXTENDS OutputWriter

SmallCharacters == Special \cup {"a", "b", "x", "control"}

Result(port, state) ==
  [port |-> port, state |-> state, reason |-> IF state = "Error" THEN <<"x", "&", "quote">> ELSE <<"x">>]

ResultLists(n) == UNION {{[i \in 1 .. k |-> Result(79 + i, states[i])] :
                            states \in [1 .. k -> PortStates]} : k \in 0 .. n}
Hosts(name, n) == {[host |-> name, ports |-> rs] : rs \in ResultLists(n)}

First == Hosts(<<"a">>, 2)
Second == Hosts(<<"<", "b", "control", "apostrophe">>, 1)
HostLists == {<<>>} \cup {<<h>> : h \in First} \cup {<<h, g>> : h \in First, g \in Second}
SmallSummaries ==
  {[config |-> << <<80, 81>> >>, hosts |-> hs] : hs \in HostLists}
  \cup {[config |-> <<>>, hosts |-> <<>>]}

Option(format, mode, path, reason) ==
  [format |-> format, text_mode |-> mode, output_file |-> path, show_reason |-> reason]
SmallOptions ==
  {Option("Text", mode, path, FALSE) :
     mode \in {"Normal", "Quiet", "Summary", "PortsOnly", "HostsOnly", "Verbose"},
     path \in {"none", "out"}}
  \cup {Option("Text", "Normal", "none", TRUE), Option("Xml", "Normal", "out", FALSE)}

=============================================================================
