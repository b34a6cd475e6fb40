---------------------------- MODULE MCCliParser ----------------------------
(***************************************************************************)
(* A plain command line and its variations in up to two options at a time, *)
(* each over the values at which parse_cli decides; and the plain command  *)
(* line with every port specification of up to MaxLength symbols, with the *)
(* numbers around both ends of the port range.                             *)
(***************************************************************************)
EXTENDS CliParser

CONSTANT MaxLength

Plain ==
  [help |-> FALSE, unknown |-> FALSE, targets |-> <<"a">>, has_ports |-> TRUE,
   port_spec |-> <<1>>, timeout |-> NotGiven, concurrency |-> NotGiven, modes |-> {},
   reason |-> FALSE, oN |-> "absent", oX |-> "absent"]

Numbers == {0, 1, MaxPort - 1, MaxPort, MaxPort + 1}
Marks == {COMMA, DASH, OTHER_CHAR}

(* Two runs of digits never touch: they would be one run.                  *)
SpecsUpTo(n) ==
  {s \in UNION {[1 .. k -> Numbers \cup Marks] : k \in 0 .. n} :
     \A i \in 1 .. (Len(s) - 1) : s[i] \in Marks \/ s[i + 1] \in Marks}

PortLists ==
  {<<>>, <<1>>, <<0>>, <<MaxPort + 1>>, <<MaxPort - 1, DASH, MaxPort>>, <<MaxPort, DASH, 1>>,
   <<1, COMMA, MaxPort, COMMA, 1>>, <<1, COMMA>>, <<COMMA, 1>>}
Destinations == {"absent", "blank", "results.txt"}

ValuesOf ==
  [help |-> BOOLEAN, unknown |-> BOOLEAN, targets |-> {<<>>, <<"a">>, <<"a", "b">>},
   has_ports |-> BOOLEAN, port_spec |-> PortLists,
   timeout |-> {NotGiven, 0, 1, MaxTimeout, MaxTimeout + 1},
   concurrency |-> {NotGiven, 0, 1, MaxConcurrency, MaxConcurrency + 1},
   modes |-> SUBSET TextModes, reason |-> BOOLEAN, oN |-> Destinations, oX |-> Destinations]

Varied(c, f) == {[c EXCEPT ![f] = v] : v \in ValuesOf[f]}
OneVaried == UNION {Varied(Plain, f) : f \in DOMAIN ValuesOf}
TwoVaried == UNION {Varied(c, f) : c \in OneVaried, f \in DOMAIN ValuesOf}
WithPorts == {[Plain EXCEPT !.port_spec = s] : s \in SpecsUpTo(MaxLength)}

(* A missing -p has no argument.                                           *)
SmallCommandLines ==
  WithPorts \cup {IF c.has_ports THEN c ELSE [c EXCEPT !.port_spec = <<>>] : c \in TwoVaried}

SmallPortSpecs == {c.port_spec : c \in SmallCommandLines}

=============================================================================
