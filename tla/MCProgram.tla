----------------------------- MODULE MCProgram -----------------------------
(***************************************************************************)
(* A few command lines of each outcome: accepted with each destination and *)
(* with one or two targets, refused, and the help page.                    *)
(***************************************************************************)
EXTENDS Program

Line(targets, spec, modes, oN, oX) ==
  [help |-> FALSE, unknown |-> FALSE, targets |-> targets, has_ports |-> TRUE,
   port_spec |-> spec, timeout |-> NotGiven, concurrency |-> NotGiven, modes |-> modes,
   reason |-> FALSE, oN |-> oN, oX |-> oX]

SmallCharacters == {"a", "b", "<", "x", "dns"}
A == <<"a">>
B == <<"<", "b">>
SmallCommandLines ==
  {Line(<<A, B>>, <<80>>, {}, "absent", "absent"),
   Line(<<A, B>>, <<80, DASH, 81>>, {"PortsOnly"}, "absent", "absent"),
   Line(<<A>>, <<81, COMMA, 80>>, {"Verbose"}, "results.txt", "absent"),
   Line(<<A, B>>, <<80, COMMA, 80>>, {}, "absent", "results.xml"),
   Line(<<A, A>>, <<80, DASH, 81>>, {"Summary"}, "results.txt", "absent"),
   Line(<<A>>, <<0>>, {}, "results.txt", "absent"),
   Line(<<>>, <<80>>, {}, "results.txt", "absent"),
   Line(<<A>>, <<80>>, {}, "blank", "absent"),
   [Line(<<A>>, <<80>>, {}, "absent", "absent") EXCEPT !.help = TRUE],
   [Line(<<A>>, <<80>>, {}, "results.txt", "absent") EXCEPT !.timeout = 0]}
SmallPortSpecs == {c.port_spec : c \in SmallCommandLines}

(* Up to two results of each port, in any order and in any state, or all   *)
(* of them the errors of a host that could not be resolved.                *)
Result(port, state, reason) == [port |-> port, state |-> state, reason |-> reason]
Seen == {Result(port, state, <<"x">>) : port \in {80, 81}, state \in {"Open", "Filtered"}}
Unresolved == {Result(port, "Error", <<"dns">>) : port \in {80, 81}}
Reported == BoundedSeq(Seen, 2) \cup BoundedSeq(Unresolved, 2)
Entries(name) == {[host |-> name, ports |-> rs] : rs \in Reported}
SmallSummaries ==
  [config : {<< <<80>> >>, << <<80, 81>> >>},
   hosts : {<<e>> : e \in Entries(A)}
           \cup {<<e, f>> : e \in Entries(A), f \in Entries(B)}
           \cup {<<f, e>> : e \in Entries(A), f \in Entries(B)}]

=============================================================================
