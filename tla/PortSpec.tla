------------------------------ MODULE PortSpec ------------------------------
(***************************************************************************)
(* parse_ports and parse_single_port (src/cli/cli_parser.cpp): the         *)
(* argument of -p, cut at its commas and dashes by hand.                   *)
(*                                                                         *)
(* A specification is a sequence of symbols: a run of digits, given by its *)
(* value, or a single other character.  A view into the string is a pair   *)
(* of positions.                                                           *)
(***************************************************************************)
EXTENDS Integers, Sequences

CONSTANTS
  MaxPort,    \* 65535: the largest std::uint16_t
  PortSpecs   \* the arguments of -p to consider

COMMA == -1
DASH == -2
OTHER_CHAR == -3   \* a letter, a blank, a sign ...
Symbols == Nat \cup {COMMA, DASH, OTHER_CHAR}

ASSUME PortAssumption ==
  /\ MaxPort \in Nat \ {0}
  /\ PortSpecs \subseteq Seq(Symbols)

VARIABLES
  port_spec,   \* spec
  remaining,   \* the position at which the view `remaining' begins
  token,       \* the positions of the token's first and last symbol
  p,           \* the loop variable of a range
  ports,       \* the std::set
  tokenizer    \* where parse_ports is

portVars == <<port_spec, remaining, token, p, ports, tokenizer>>

PortsStart(s) ==
  /\ port_spec = s /\ remaining = 1 /\ token = <<1, 0>>
  /\ p = 0 /\ ports = {}
  /\ tokenizer = "next"

(* remaining.find(',') is c; npos is the position after the last symbol.   *)
FirstComma(c) ==
  /\ c <= Len(port_spec) => port_spec[c] = COMMA
  /\ \A k \in remaining .. (c - 1) : port_spec[k] # COMMA

NextToken ==
  /\ tokenizer = "next" /\ remaining <= Len(port_spec)
  /\ \E c \in remaining .. (Len(port_spec) + 1) :
       /\ FirstComma(c)
       /\ token' = <<remaining, c - 1>>
       /\ remaining' = IF c > Len(port_spec) THEN c ELSE c + 1
       /\ tokenizer' = IF c = remaining THEN "error" ELSE "token"
  /\ UNCHANGED <<port_spec, p, ports>>

(* parse_single_port returns for the symbols from i to j; else it throws.  *)
ZeroAllowed(i, j) == i = j /\ port_spec[i] \in 0 .. MaxPort
BelowMaximum(i, j) == i = j /\ port_spec[i] \in 1 .. (MaxPort - 1)
IsPort(i, j) == i = j /\ port_spec[i] \in 1 .. MaxPort

(* token.find('-') is d, and not the token's first position.               *)
RangeDash(d) ==
  /\ token[1] < d
  /\ port_spec[d] = DASH
  /\ \A k \in token[1] .. (d - 1) : port_spec[k] # DASH

SinglePort ==
  /\ tokenizer = "token"
  /\ \A d \in token[1] .. token[2] : ~RangeDash(d)
  /\ IF IsPort(token[1], token[2])
     THEN ports' = ports \cup {port_spec[token[1]]} /\ tokenizer' = "next"
     ELSE tokenizer' = "error" /\ UNCHANGED ports
  /\ UNCHANGED <<port_spec, remaining, token, p>>

RangeBegins ==
  /\ tokenizer = "token"
  /\ \E d \in token[1] .. token[2] :
       /\ RangeDash(d)
       /\ IF /\ IsPort(token[1], d - 1) /\ IsPort(d + 1, token[2])
             /\ port_spec[token[1]] <= port_spec[token[2]]
          THEN p' = port_spec[token[1]] /\ tokenizer' = "range"
          ELSE tokenizer' = "error" /\ UNCHANGED p
  /\ UNCHANGED <<port_spec, remaining, token, ports>>

(* p is an unsigned long: it leaves the range also at 65535.               *)
NarrowCounter == (p + 1) % (MaxPort + 1)
NextInRange == p + 1
EndExcluded == p < port_spec[token[2]]
InRange == p <= port_spec[token[2]]

RangeInsert ==
  /\ tokenizer = "range" /\ InRange
  /\ ports' = ports \cup {p}
  /\ p' = NextInRange
  /\ UNCHANGED <<port_spec, remaining, token, tokenizer>>

RangeEnds ==
  /\ tokenizer = "range" /\ ~InRange
  /\ tokenizer' = "next"
  /\ UNCHANGED <<port_spec, remaining, token, p, ports>>

ParsePortsEnds ==
  /\ tokenizer = "next" /\ remaining > Len(port_spec)
  /\ tokenizer' = IF ports = {} THEN "error" ELSE "ok"
  /\ UNCHANGED <<port_spec, remaining, token, p, ports>>

PortStep ==
  NextToken \/ SinglePort \/ RangeBegins \/ RangeInsert \/ RangeEnds \/ ParsePortsEnds

PortsParsed == tokenizer \in {"ok", "error"}
PortInit == \E s \in PortSpecs : PortsStart(s)
PortNext == PortStep \/ (PortsParsed /\ UNCHANGED portVars)
PortsSpec == PortInit /\ [][PortNext]_portVars

----------------------------------------------------------------------------
(* What a specification means, independently of the loop: its items are    *)
(* the stretches between commas, and each is a port or a range of ports.   *)

Items ==
  {it \in (1 .. (Len(port_spec) + 1)) \X (0 .. Len(port_spec)) :
     /\ it[1] <= it[2] + 1
     /\ it[1] > 1 => port_spec[it[1] - 1] = COMMA
     /\ it[2] < Len(port_spec) => port_spec[it[2] + 1] = COMMA
     /\ \A k \in it[1] .. it[2] : port_spec[k] # COMMA}

IsSingle(it) == it[1] = it[2] /\ port_spec[it[1]] \in 1 .. MaxPort
IsRange(it) ==
  /\ it[2] = it[1] + 2 /\ port_spec[it[1] + 1] = DASH
  /\ port_spec[it[1]] \in 1 .. MaxPort /\ port_spec[it[2]] \in 1 .. MaxPort
  /\ port_spec[it[1]] <= port_spec[it[2]]
WellFormed(it) == IsSingle(it) \/ IsRange(it)
Denoted(it) ==
  IF IsSingle(it) THEN {port_spec[it[1]]}
  ELSE IF IsRange(it) THEN port_spec[it[1]] .. port_spec[it[2]] ELSE {}

TrailingEmpty == <<Len(port_spec) + 1, Len(port_spec)>>

(* An accepted specification yields exactly the ports its items denote,    *)
(* and every item was well-formed but for an empty one at the end.         *)
AcceptedAsDenoted ==
  tokenizer = "ok" =>
    /\ ports # {} /\ ports = UNION {Denoted(it) : it \in Items}
    /\ \A it \in Items \ {TrailingEmpty} : WellFormed(it)

(* Nothing well-formed is rejected: neither port 65535 nor a range of one  *)
(* port nor a repetition, nor an empty item after the last comma.          *)
RejectedIfMalformed ==
  tokenizer = "error" =>
    \/ \E it \in Items \ {TrailingEmpty} : ~WellFormed(it)
    \/ \A it \in Items : ~WellFormed(it)

(* The type of every variable: only ports from 1 to 65535 enter the set.   *)
PortTypeOK ==
  /\ port_spec \in PortSpecs
  /\ remaining \in 1 .. (Len(port_spec) + 1)
  /\ token \in (1 .. (Len(port_spec) + 1)) \X (0 .. Len(port_spec))
  /\ p \in 0 .. (MaxPort + 1)
  /\ ports \subseteq 1 .. MaxPort
  /\ tokenizer \in {"next", "token", "range", "ok", "error"}

=============================================================================
