----------------------------- MODULE CliProofs -----------------------------
(***************************************************************************)
(* parse_cli accepts exactly the valid command lines, and hands the engine *)
(* a configuration it can run, whatever the user wrote.                    *)
(*                                                                         *)
(* CliInv says, stage by stage, what has been checked of the command line  *)
(* and what has been written to the result; the loop invariant of          *)
(* parse_ports is carried along.                                           *)
(***************************************************************************)
EXTENDS CliParser, TLAPS

----------------------------------------------------------------------------
(* parse_ports accepts exactly what its reference definition denotes, for  *)
(* specifications of any length and any largest port.                      *)
(*                                                                         *)
(* The loop invariant: of the items that begin before `remaining', all but *)
(* the current token are well-formed and their ports are in the set; of    *)
(* the token, when it is a range, those below p are.                       *)

Before(r) == {it \in Items : it[1] < r}
PortsOf(its) == UNION {Denoted(it) : it \in its}
AllGood(its) == \A it \in its : WellFormed(it)

AtNext ==
  tokenizer = "next" =>
    /\ 1 < remaining /\ remaining <= Len(port_spec) => port_spec[remaining - 1] = COMMA
    /\ remaining > 1 => ports # {}
    /\ AllGood(Before(remaining)) /\ ports = PortsOf(Before(remaining))

TokenFound ==
  /\ token \in Items /\ token[1] <= token[2] /\ remaining > 1
  /\ remaining <= Len(port_spec) => port_spec[remaining - 1] = COMMA
  /\ token \in Before(remaining) /\ AllGood(Before(remaining) \ {token})

AtToken ==
  tokenizer = "token" =>
    TokenFound /\ ports = PortsOf(Before(remaining) \ {token})

InsideRange ==
  tokenizer = "range" =>
    /\ TokenFound /\ IsRange(token)
    /\ p \in port_spec[token[1]] .. (port_spec[token[2]] + 1)
    /\ ports = PortsOf(Before(remaining) \ {token}) \cup (port_spec[token[1]] .. (p - 1))

(* Whatever is refused had an item to refuse.                              *)
ItemRefused == tokenizer = "error" => Items # {}

ParseInv ==
  /\ PortTypeOK /\ AtNext /\ AtToken /\ InsideRange /\ ItemRefused
  /\ AcceptedAsDenoted /\ RejectedIfMalformed

----------------------------------------------------------------------------
(* The items that begin in one turn of the loop are the one it cuts off.   *)
LEMMA NextItem ==
  ASSUME port_spec \in Seq(Symbols), remaining \in 1 .. Len(port_spec),
         remaining > 1 => port_spec[remaining - 1] = COMMA,
         NEW c \in remaining .. (Len(port_spec) + 1), FirstComma(c),
         NEW r, r = IF c > Len(port_spec) THEN c ELSE c + 1
  PROVE  /\ <<remaining, c - 1>> \in Items
         /\ c # remaining => Before(r) = Before(remaining) \cup {<<remaining, c - 1>>}
<1> DEFINE t == <<remaining, c - 1>>
<1>0. Len(port_spec) \in Nat BY SMT
<1>1. t \in Items
  BY <1>0, SMT DEF Items, FirstComma
<1>2. ASSUME c # remaining, NEW it \in Items, it[1] < r, ~(it[1] < remaining)
      PROVE  it = t
  <2>1. /\ it = <<it[1], it[2]>> /\ it[1] \in 1 .. (Len(port_spec) + 1)
        /\ it[2] \in 0 .. Len(port_spec) /\ it[1] <= it[2] + 1
        /\ it[1] > 1 => port_spec[it[1] - 1] = COMMA
        /\ it[2] < Len(port_spec) => port_spec[it[2] + 1] = COMMA
        /\ \A k \in it[1] .. it[2] : port_spec[k] # COMMA
    BY SMT DEF Items
  <2>2. it[1] = remaining
    <3>1. SUFFICES ASSUME it[1] > remaining PROVE FALSE BY <1>0, <1>2, <2>1, SMT
    <3>2. it[1] - 1 \in remaining .. (c - 1) BY <1>0, <1>2, <2>1, <3>1, SMT
    <3> QED BY <2>1, <3>1, <3>2, SMT DEF FirstComma
  <2>3. it[2] = c - 1
    <3>1. CASE it[2] < c - 1
      <4>1. it[2] + 1 \in remaining .. (c - 1) /\ it[2] < Len(port_spec) BY <1>0, <2>1, <2>2, <3>1, SMT
      <4> QED BY <2>1, <4>1, SMT DEF FirstComma
    <3>2. CASE it[2] > c - 1
      <4>1. c \in it[1] .. it[2] /\ c <= Len(port_spec) BY <1>0, <2>1, <2>2, <3>2, SMT
      <4> QED BY <2>1, <4>1, SMT DEF FirstComma
    <3>3. c \in Int /\ it[2] \in Int BY <1>0, <2>1, SMT
    <3> QED BY <3>1, <3>2, <3>3, SMT
  <2> QED BY <2>1, <2>2, <2>3
<1>3. c # remaining => /\ t[1] < r
                       /\ \A it \in Items : it[1] < remaining => it[1] < r
  BY <1>0, SMT DEF Items
<1> QED BY <1>1, <1>2, <1>3 DEF Before

(* A well-formed item denotes what the loop inserts for it.                *)
LEMMA DenotedItem ==
  ASSUME NEW it \in Items
  PROVE  /\ IsSingle(it) => Denoted(it) = {port_spec[it[1]]}
         /\ IsRange(it) => Denoted(it) = port_spec[it[1]] .. port_spec[it[2]]
<1>1. it[1] \in Int /\ it[2] \in Int BY SMT DEF Items
<1>2. IsRange(it) => ~IsSingle(it) BY <1>1, SMT DEF IsRange, IsSingle
<1> QED BY <1>2 DEF Denoted

(* A finished token joins the items already collected.                     *)
LEMMA TokenDone ==
  ASSUME TokenFound, WellFormed(token)
  PROVE  /\ AllGood(Before(remaining))
         /\ PortsOf(Before(remaining)) = PortsOf(Before(remaining) \ {token}) \cup Denoted(token)
BY DEF TokenFound, AllGood, PortsOf

----------------------------------------------------------------------------
(* The invariant holds when parse_ports begins.                            *)
LEMMA InitParse == PortInit => ParseInv
<1> SUFFICES ASSUME PortInit PROVE ParseInv OBVIOUS
<1>0. PICK s \in PortSpecs : PortsStart(s) BY DEF PortInit
<1>1. PortTypeOK /\ tokenizer = "next" /\ remaining = 1 /\ ports = {}
  BY <1>0, PortAssumption, SMT DEF PortsStart, PortTypeOK
<1>2. Before(1) = {} BY SMT DEF Before, Items
<1> QED
  BY <1>1, <1>2 DEF ParseInv, AtNext, AtToken, InsideRange, ItemRefused, AcceptedAsDenoted,
     RejectedIfMalformed, AllGood, PortsOf

(* Cutting off a token moves the items of one turn from ahead to under work;*)
(* an empty token is a malformed item.                                     *)
LEMMA NextTokenParse == ParseInv /\ NextToken => ParseInv'
<1> SUFFICES ASSUME ParseInv, NextToken PROVE ParseInv' OBVIOUS
<1> USE DEF ParseInv
<1>1. PICK c \in remaining .. (Len(port_spec) + 1) :
        /\ FirstComma(c)
        /\ token' = <<remaining, c - 1>>
        /\ remaining' = IF c > Len(port_spec) THEN c ELSE c + 1
        /\ tokenizer' = IF c = remaining THEN "error" ELSE "token"
  BY DEF NextToken
<1>2. /\ tokenizer = "next" /\ port_spec' = port_spec /\ p' = p /\ ports' = ports
      /\ port_spec \in PortSpecs /\ port_spec \in Seq(Symbols) /\ Len(port_spec) \in Nat
      /\ remaining \in 1 .. Len(port_spec)
  BY PortAssumption, SMT DEF NextToken, PortTypeOK
<1>3. /\ token' \in Items
      /\ c # remaining => Before(remaining') = Before(remaining) \cup {token'}
  BY <1>1, <1>2, NextItem DEF AtNext
<1>4. Items' = Items /\ (\A it : WellFormed(it)' = WellFormed(it) /\ Denoted(it)' = Denoted(it))
      /\ TrailingEmpty' = TrailingEmpty
  BY <1>2 DEF Items, WellFormed, Denoted, IsSingle, IsRange, TrailingEmpty
<1>5. PortTypeOK'
  BY <1>1, <1>2, SMT DEF PortTypeOK
<1>6. ASSUME c = remaining PROVE ~WellFormed(token') /\ token' # TrailingEmpty
  BY <1>1, <1>2, <1>6, SMT DEF WellFormed, IsSingle, IsRange, TrailingEmpty
<1>7. ASSUME c # remaining PROVE TokenFound' /\ (ports = PortsOf(Before(remaining) \ {token}))'
  <2>1. token'[1] <= token'[2] /\ remaining' > 1 /\ (remaining' <= Len(port_spec) => port_spec[remaining' - 1] = COMMA)
    BY <1>1, <1>2, <1>7, SMT DEF FirstComma
  <2>2. Before(remaining)' \ {token'} = Before(remaining)
    <3>1. token' \notin Before(remaining) BY <1>1, <1>2, SMT DEF Before
    <3>2. Before(remaining)' = Before(remaining') BY <1>4 DEF Before
    <3> QED BY <1>3, <1>7, <3>1, <3>2
  <2>3. token' \in Before(remaining)' BY <1>3, <1>4, <1>7 DEF Before
  <2> QED BY <1>2, <1>3, <1>4, <2>1, <2>2, <2>3 DEF TokenFound, AtNext, AllGood, PortsOf
<1> QED
  BY <1>1, <1>3, <1>4, <1>5, <1>6, <1>7
  DEF AtNext, AtToken, InsideRange, ItemRefused, AcceptedAsDenoted, RejectedIfMalformed

(* A token without an inner dash is one port, or malformed.                *)
LEMMA SinglePortParse == ParseInv /\ SinglePort => ParseInv'
<1> SUFFICES ASSUME ParseInv, SinglePort PROVE ParseInv' OBVIOUS
<1> USE DEF ParseInv
<1>1. /\ tokenizer = "token" /\ TokenFound
      /\ port_spec' = port_spec /\ remaining' = remaining /\ token' = token /\ p' = p
  BY DEF SinglePort, AtToken
<1>2. Items' = Items /\ (\A it : WellFormed(it)' = WellFormed(it) /\ Denoted(it)' = Denoted(it))
      /\ TrailingEmpty' = TrailingEmpty
  BY <1>1 DEF Items, WellFormed, Denoted, IsSingle, IsRange, TrailingEmpty
<1>3. Before(remaining)' = Before(remaining) BY <1>1, <1>2 DEF Before
<1>4. token[1] \in Int /\ token[2] \in Int /\ token[1] <= token[2]
  BY <1>1, SMT DEF TokenFound, Items
<1>5. CASE IsPort(token[1], token[2])
  <2>1. ports' = ports \cup {port_spec[token[1]]} /\ tokenizer' = "next" BY <1>5 DEF SinglePort
  <2>2. IsSingle(token) BY <1>5 DEF IsPort, IsSingle
  <2>3. PortTypeOK'
    <3>1. ports \subseteq 1 .. MaxPort BY DEF PortTypeOK
    <3>2. port_spec[token[1]] \in 1 .. MaxPort BY <1>5 DEF IsPort
    <3>3. ports' \subseteq 1 .. MaxPort BY <2>1, <3>1, <3>2
    <3> QED BY <1>1, <2>1, <3>3 DEF PortTypeOK
  <2>4. /\ AllGood(Before(remaining))
        /\ ports' = PortsOf(Before(remaining))
    BY <1>1, <2>1, <2>2, TokenDone, DenotedItem DEF AtToken, WellFormed, TokenFound
  <2>5. AtNext'
    BY <1>1, <1>2, <1>3, <2>1, <2>4 DEF AtNext, TokenFound, AllGood, PortsOf
  <2> QED BY <2>1, <2>3, <2>5 DEF AtToken, InsideRange, ItemRefused, AcceptedAsDenoted, RejectedIfMalformed
<1>6. CASE ~IsPort(token[1], token[2])
  <2>1. ports' = ports /\ tokenizer' = "error" BY <1>6 DEF SinglePort
  <2>2. PortTypeOK' BY <1>1, <2>1 DEF PortTypeOK
  <2>3. ~WellFormed(token)
    <3>1. ~IsSingle(token) BY <1>6 DEF IsSingle, IsPort
    <3>2. ASSUME IsRange(token) PROVE FALSE
      <4>1. \A d \in token[1] .. token[2] : ~RangeDash(d) BY DEF SinglePort
      <4>2. RangeDash(token[1] + 1)
        BY <1>4, <3>2, SMT DEF RangeDash, IsRange, DASH
      <4>3. token[1] + 1 \in token[1] .. token[2] BY <1>4, <3>2, SMT DEF IsRange
      <4> QED BY <4>1, <4>2, <4>3
    <3> QED BY <3>1, <3>2 DEF WellFormed
  <2>4. token # TrailingEmpty BY <1>1, <1>4, SMT DEF TokenFound, TrailingEmpty, Items
  <2>5. RejectedIfMalformed' /\ Items' # {}
    BY <1>1, <1>2, <2>3, <2>4 DEF RejectedIfMalformed, TokenFound
  <2> QED BY <2>1, <2>2, <2>5 DEF AtNext, AtToken, InsideRange, ItemRefused, AcceptedAsDenoted
<1> QED BY <1>5, <1>6

(* A token with a dash becomes a range, or is malformed.                   *)
LEMMA RangeBeginsParse == ParseInv /\ RangeBegins => ParseInv'
<1> SUFFICES ASSUME ParseInv, RangeBegins PROVE ParseInv' OBVIOUS
<1> USE DEF ParseInv
<1>1. /\ tokenizer = "token" /\ TokenFound
      /\ port_spec' = port_spec /\ remaining' = remaining /\ token' = token /\ ports' = ports
  BY DEF RangeBegins, AtToken
<1>2. Items' = Items /\ (\A it : WellFormed(it)' = WellFormed(it) /\ Denoted(it)' = Denoted(it)
                                /\ IsRange(it)' = IsRange(it))
      /\ TrailingEmpty' = TrailingEmpty
  BY <1>1 DEF Items, WellFormed, Denoted, IsSingle, IsRange, TrailingEmpty
<1>3. Before(remaining)' = Before(remaining) BY <1>1, <1>2 DEF Before
<1>4. token[1] \in Int /\ token[2] \in Int /\ token[1] <= token[2]
  BY <1>1, SMT DEF TokenFound, Items
<1>5. PICK d \in token[1] .. token[2] :
       /\ RangeDash(d)
       /\ IF /\ IsPort(token[1], d - 1) /\ IsPort(d + 1, token[2])
             /\ port_spec[token[1]] <= port_spec[token[2]]
          THEN p' = port_spec[token[1]] /\ tokenizer' = "range"
          ELSE tokenizer' = "error" /\ UNCHANGED p
  BY DEF RangeBegins
<1> DEFINE good == /\ IsPort(token[1], d - 1) /\ IsPort(d + 1, token[2])
                   /\ port_spec[token[1]] <= port_spec[token[2]]
<1>6. CASE good
  <2>1. p' = port_spec[token[1]] /\ tokenizer' = "range" BY <1>5, <1>6
  <2>2. d = token[1] + 1 /\ token[2] = d + 1 BY <1>4, <1>6, SMT DEF IsPort
  <2>3. IsRange(token) BY <1>4, <1>5, <1>6, <2>2, SMT DEF IsRange, IsPort, RangeDash
  <2>4. /\ p' \in 1 .. MaxPort /\ p' \in port_spec[token[1]] .. (port_spec[token[2]] + 1)
        /\ port_spec[token[1]] .. (p' - 1) = {}
    BY <2>1, <2>3, PortAssumption, SMT DEF IsRange
  <2>5. PortTypeOK' BY <1>1, <2>1, <2>4, PortAssumption, SMT DEF PortTypeOK
  <2>6. TokenFound' BY <1>1, <1>2, <1>3 DEF TokenFound, AllGood
  <2>7. InsideRange'
    BY <1>1, <1>2, <1>3, <2>3, <2>4, <2>6 DEF InsideRange, AtToken, PortsOf
  <2> QED BY <2>1, <2>5, <2>7 DEF AtNext, AtToken, ItemRefused, AcceptedAsDenoted, RejectedIfMalformed
<1>7. CASE ~good
  <2>1. p' = p /\ tokenizer' = "error" BY <1>5, <1>7
  <2>2. PortTypeOK' BY <1>1, <2>1 DEF PortTypeOK
  <2>3. ~WellFormed(token)
    <3>1. ~IsSingle(token) BY <1>4, <1>5, SMT DEF IsSingle, RangeDash
    <3>2. ASSUME IsRange(token) PROVE FALSE
      <4>1. d = token[1] + 1
        <5>1. port_spec[token[1] + 1] = DASH /\ token[2] = token[1] + 2
              /\ port_spec[token[2]] \in 1 .. MaxPort BY <3>2 DEF IsRange
        <5>2. ~(d > token[1] + 1)
          BY <1>4, <1>5, <5>1, SMT DEF RangeDash
        <5> QED BY <1>4, <1>5, <5>2, SMT DEF RangeDash
      <4> QED BY <1>4, <1>7, <3>2, <4>1, SMT DEF IsRange, IsPort
    <3> QED BY <3>1, <3>2 DEF WellFormed
  <2>4. token # TrailingEmpty BY <1>1, <1>4, SMT DEF TokenFound, TrailingEmpty, Items
  <2>5. RejectedIfMalformed' /\ Items' # {}
    BY <1>1, <1>2, <2>3, <2>4 DEF RejectedIfMalformed, TokenFound
  <2> QED BY <2>1, <2>2, <2>5 DEF AtNext, AtToken, InsideRange, ItemRefused, AcceptedAsDenoted
<1> QED BY <1>6, <1>7

(* The loop over a range collects its ports from the first to the last.    *)
LEMMA RangeStepParse == ParseInv /\ (RangeInsert \/ RangeEnds) => ParseInv'
<1> SUFFICES ASSUME ParseInv, RangeInsert \/ RangeEnds PROVE ParseInv' OBVIOUS
<1> USE DEF ParseInv
<1>1. /\ tokenizer = "range" /\ TokenFound /\ IsRange(token)
      /\ p \in port_spec[token[1]] .. (port_spec[token[2]] + 1)
      /\ ports = PortsOf(Before(remaining) \ {token}) \cup (port_spec[token[1]] .. (p - 1))
      /\ port_spec' = port_spec /\ remaining' = remaining /\ token' = token
  BY DEF RangeInsert, RangeEnds, InsideRange
<1>2. Items' = Items /\ (\A it : WellFormed(it)' = WellFormed(it) /\ Denoted(it)' = Denoted(it)
                                /\ IsRange(it)' = IsRange(it))
      /\ TrailingEmpty' = TrailingEmpty
  BY <1>1 DEF Items, WellFormed, Denoted, IsSingle, IsRange, TrailingEmpty
<1>3. Before(remaining)' = Before(remaining) BY <1>1, <1>2 DEF Before
<1>4. port_spec[token[1]] \in 1 .. MaxPort /\ port_spec[token[2]] \in 1 .. MaxPort
      /\ port_spec[token[1]] <= port_spec[token[2]]
  BY <1>1 DEF IsRange
<1>5. CASE RangeInsert
  <2>1. /\ tokenizer' = "range" /\ p <= port_spec[token[2]] /\ p' = p + 1
        /\ ports' = ports \cup {p}
    BY <1>1, <1>5 DEF RangeInsert, InRange, NextInRange
  <2>2. /\ p' \in port_spec[token[1]] .. (port_spec[token[2]] + 1)
        /\ p \in 1 .. MaxPort /\ p' \in 0 .. (MaxPort + 1)
        /\ port_spec[token[1]] .. (p' - 1) = (port_spec[token[1]] .. (p - 1)) \cup {p}
    BY <1>1, <1>4, <2>1, PortAssumption, SMT
  <2>3. PortTypeOK' BY <1>1, <2>1, <2>2 DEF PortTypeOK
  <2>4. ports' = PortsOf(Before(remaining) \ {token}) \cup (port_spec[token[1]] .. (p' - 1))
    BY <1>1, <2>1, <2>2
  <2>5. TokenFound' BY <1>1, <1>2, <1>3 DEF TokenFound, AllGood
  <2>6. PortsOf(Before(remaining) \ {token})' = PortsOf(Before(remaining) \ {token})
    BY <1>1, <1>2, <1>3 DEF PortsOf
  <2>7. InsideRange' BY <1>1, <1>2, <2>2, <2>4, <2>5, <2>6 DEF InsideRange
  <2> QED BY <2>1, <2>3, <2>7 DEF AtNext, AtToken, ItemRefused, AcceptedAsDenoted, RejectedIfMalformed
<1>6. CASE RangeEnds
  <2>1. tokenizer' = "next" /\ p' = p /\ ports' = ports /\ ~(p <= port_spec[token[2]])
    BY <1>6 DEF RangeEnds, InRange
  <2>2. port_spec[token[1]] .. (p - 1) = port_spec[token[1]] .. port_spec[token[2]]
    BY <1>1, <1>4, <2>1, SMT
  <2>3. port_spec[token[1]] \in ports BY <1>1, <1>4, <2>2, SMT
  <2>4. AllGood(Before(remaining)) /\ ports = PortsOf(Before(remaining))
    BY <1>1, <2>2, TokenDone, DenotedItem DEF WellFormed, TokenFound
  <2>5. AtNext'
    <3>1. AllGood(Before(remaining))' /\ PortsOf(Before(remaining))' = PortsOf(Before(remaining))
      BY <1>2, <1>3, <2>4 DEF AllGood, PortsOf
    <3>2. ports' = ports
      BY <1>6 DEF RangeEnds
    <3> QED BY <1>1, <2>3, <2>4, <3>1, <3>2 DEF AtNext, TokenFound
  <2>6. PortTypeOK' BY <1>1, <2>1 DEF PortTypeOK
  <2> QED BY <2>1, <2>5, <2>6 DEF AtToken, InsideRange, ItemRefused, AcceptedAsDenoted, RejectedIfMalformed
<1> QED BY <1>5, <1>6

(* At the end of the string every item has been collected.                 *)
LEMMA ParsePortsEndsParse == ParseInv /\ ParsePortsEnds => ParseInv'
<1> SUFFICES ASSUME ParseInv, ParsePortsEnds PROVE ParseInv' OBVIOUS
<1> USE DEF ParseInv
<1>1. /\ tokenizer = "next" /\ remaining > Len(port_spec)
      /\ tokenizer' = IF ports = {} THEN "error" ELSE "ok"
      /\ port_spec' = port_spec /\ remaining' = remaining /\ token' = token
      /\ p' = p /\ ports' = ports
  BY DEF ParsePortsEnds
<1>2. Items' = Items /\ (\A it : WellFormed(it)' = WellFormed(it) /\ Denoted(it)' = Denoted(it))
      /\ TrailingEmpty' = TrailingEmpty
  BY <1>1 DEF Items, WellFormed, Denoted, IsSingle, IsRange, TrailingEmpty
<1>3. /\ port_spec \in Seq(Symbols) /\ Len(port_spec) \in Nat
      /\ remaining = Len(port_spec) + 1
  BY <1>1, PortAssumption, SMT DEF PortTypeOK
<1>4. PortTypeOK' BY <1>1 DEF PortTypeOK
<1>5. CASE ports = {}
  <2>1. Len(port_spec) = 0 BY <1>1, <1>3, <1>5, SMT DEF AtNext
  <2>2. \A it \in Items : ~WellFormed(it)
    BY <2>1, SMT DEF Items, WellFormed, IsSingle, IsRange
  <2>3. <<1, 0>> \in Items BY <2>1, SMT DEF Items
  <2> QED
    BY <1>1, <1>2, <1>4, <1>5, <2>2, <2>3
    DEF AtNext, AtToken, InsideRange, ItemRefused, AcceptedAsDenoted, RejectedIfMalformed
<1>6. CASE ports # {}
  <2>1. ASSUME NEW it \in Items, it # TrailingEmpty PROVE it \in Before(remaining)
    BY <1>3, <2>1, SMT DEF Before, Items, TrailingEmpty
  <2>2. Denoted(TrailingEmpty) = {}
    <3>1. ~IsSingle(TrailingEmpty) /\ ~IsRange(TrailingEmpty)
      BY <1>3, SMT DEF IsSingle, IsRange, TrailingEmpty
    <3> QED BY <3>1 DEF Denoted
  <2>3. Before(remaining) \subseteq Items BY DEF Before
  <2>4. ports = PortsOf(Items) BY <1>1, <2>1, <2>2, <2>3 DEF AtNext, PortsOf
  <2>5. \A it \in Items \ {TrailingEmpty} : WellFormed(it)
    BY <1>1, <2>1 DEF AtNext, AllGood
  <2> QED
    BY <1>1, <1>2, <1>4, <1>6, <2>4, <2>5
    DEF AtNext, AtToken, InsideRange, ItemRefused, AcceptedAsDenoted, RejectedIfMalformed, PortsOf
<1> QED BY <1>5, <1>6

(* The invariant is about the variables alone.                             *)
LEMMA ParseStutter == ParseInv /\ UNCHANGED portVars => ParseInv'
<1> SUFFICES ASSUME ParseInv, UNCHANGED portVars PROVE ParseInv' OBVIOUS
<1>1. /\ port_spec' = port_spec /\ remaining' = remaining /\ token' = token
      /\ p' = p /\ ports' = ports /\ tokenizer' = tokenizer
  BY DEF portVars
<1>2. Items' = Items /\ (\A it : WellFormed(it)' = WellFormed(it) /\ Denoted(it)' = Denoted(it)
                                /\ IsRange(it)' = IsRange(it))
      /\ TrailingEmpty' = TrailingEmpty
  BY <1>1 DEF Items, WellFormed, Denoted, IsSingle, IsRange, TrailingEmpty
<1>3. Before(remaining)' = Before(remaining) BY <1>1, <1>2 DEF Before
<1>4. PortTypeOK' /\ AcceptedAsDenoted' /\ RejectedIfMalformed' /\ ItemRefused'
  BY <1>1, <1>2 DEF ParseInv, PortTypeOK, AcceptedAsDenoted, RejectedIfMalformed, ItemRefused
<1>5. TokenFound' = TokenFound BY <1>1, <1>2, <1>3 DEF TokenFound, AllGood
<1>6. AtNext' /\ AtToken' /\ InsideRange'
  BY <1>1, <1>2, <1>3, <1>5 DEF ParseInv, AtNext, AtToken, InsideRange, AllGood, PortsOf
<1> QED BY <1>4, <1>6 DEF ParseInv

----------------------------------------------------------------------------
(* The invariant holds in every reachable state.                           *)
LEMMA ParseInvHolds == PortsSpec => []ParseInv
<1>1. PortInit => ParseInv BY InitParse
<1>2. ParseInv /\ [PortNext]_portVars => ParseInv'
  BY NextTokenParse, SinglePortParse, RangeBeginsParse, RangeStepParse,
     ParsePortsEndsParse, ParseStutter DEF PortNext, PortStep
<1> QED BY <1>1, <1>2, PTL DEF PortsSpec

(* The types hold, and with them that only ports from 1 to MaxPort are     *)
(* ever collected.                                                         *)
THEOREM PortTypes == PortsSpec => []PortTypeOK
<1>1. ParseInv => PortTypeOK BY DEF ParseInv
<1> QED BY <1>1, ParseInvHolds, PTL

(* An accepted specification yields exactly the ports it denotes.          *)
THEOREM PortsDenoted == PortsSpec => []AcceptedAsDenoted
<1>1. ParseInv => AcceptedAsDenoted BY DEF ParseInv
<1> QED BY <1>1, ParseInvHolds, PTL

(* Nothing well-formed is rejected.                                        *)
THEOREM PortsRejected == PortsSpec => []RejectedIfMalformed
<1>1. ParseInv => RejectedIfMalformed BY DEF ParseInv
<1> QED BY <1>1, ParseInvHolds, PTL

----------------------------------------------------------------------------
(* parse_cli                                                               *)

ConfigSoFar ==
  [targets |-> IF stage = "parse" THEN <<>> ELSE cmd.targets,
   ports |-> IF stage = "options" THEN ports ELSE {},
   timeout |-> 500, max_concurrency |-> 200]

ToDestination(path, format) ==
  [format |-> format, text_mode |-> "Normal", output_file |-> path,
   verbose |-> FALSE, show_reason |-> cmd.reason]
Mapped == stage \in {"ports", "options"}
OutputSoFar ==
  IF stage = "parse" THEN DefaultOutput
  ELSE IF Mapped /\ cmd.oX # "absent" THEN ToDestination(cmd.oX, "Xml")
  ELSE IF Mapped /\ cmd.oN # "absent" THEN ToDestination(cmd.oN, "Text")
  ELSE ToDestination("none", "Text")

Checked ==
  /\ stage # "parse" => ParseErrors = {}
  /\ stage \in {"destination", "ports", "options"} => cmd.targets # <<>>
  /\ stage \in {"ports", "options"} => "blank" \notin {cmd.oX, cmd.oN}
  /\ stage = "options" => tokenizer = "ok"

CliInv ==
  /\ CliTypeOK /\ ParseInv /\ port_spec = cmd.port_spec
  /\ stage # "done" =>
       /\ status = "Ok" /\ exit_code = 0
       /\ config = ConfigSoFar /\ output = OutputSoFar /\ Checked
  /\ AcceptedIfValid /\ RunnableConfig /\ OptionsHonoured /\ ExitCodeTruthful

----------------------------------------------------------------------------
(* What is said of the command line stays true while it is parsed.         *)
LEMMA SameCommand ==
  ASSUME cmd' = cmd, port_spec' = port_spec
  PROVE  /\ Valid' = Valid /\ ParseErrors' = ParseErrors
         /\ Items' = Items /\ TrailingEmpty' = TrailingEmpty
         /\ \A it : WellFormed(it)' = WellFormed(it) /\ Denoted(it)' = Denoted(it)
BY DEF Valid, RightOptions, WrittenWell, ExtraComma, ParseErrors, TimeoutOK, ConcurrencyOK, InLimits, ModesExclusive,
   DestinationsExclusive, Items, TrailingEmpty, WellFormed, Denoted, IsSingle, IsRange

(* No fault of CLI11's kind is found in a command line that is valid.      *)
LEMMA NoParseErrors ==
  /\ ParseErrors = {} <=> /\ ~cmd.help /\ ~cmd.unknown /\ cmd.has_ports
                          /\ TimeoutOK /\ ConcurrencyOK
                          /\ ModesExclusive /\ DestinationsExclusive
  /\ \A code \in ParseErrors : code \in {0, 105, 106, 108, 109} /\ (code = 0 => cmd.help)
BY DEF ParseErrors

(* parse_ports' invariant and argument survive every step that leaves its *)
(* variables alone.                                                        *)
LEMMA ParseFrame == ParseInv /\ UNCHANGED portVars => ParseInv' /\ port_spec' = port_spec
BY ParseStutter DEF portVars

(* The invariant holds when parse_cli begins.                              *)
LEMMA InitCli == CliInit => CliInv
<1> SUFFICES ASSUME NEW c \in CommandLines, CliStart(c) PROVE CliInv BY DEF CliInit
<1>1. ParseInv
  BY InitParse, CommandAssumption DEF CliStart, PortInit
<1>2. CliTypeOK
  BY DEF CliStart, CliTypeOK, DefaultConfig, DefaultOutput
<1>3. config = ConfigSoFar /\ output = OutputSoFar /\ Checked
  BY DEF CliStart, ConfigSoFar, OutputSoFar, Mapped, Checked, DefaultConfig
<1> QED
  BY <1>1, <1>2, <1>3
  DEF CliInv, CliStart, PortsStart, AcceptedIfValid, RunnableConfig, OptionsHonoured,
      ExitCodeTruthful, Parsed, Accepted

(* An error of parse_cli's own leaves no valid command line behind.        *)
LEMMA FailCli ==
  ASSUME CliInv, stage # "done", Fail, cmd' = cmd, UNCHANGED portVars, ~Valid
  PROVE  CliInv'
<1>1. ParseInv' /\ port_spec' = port_spec BY ParseFrame DEF CliInv
<1>2. stage' = "done" /\ status' = "Error" /\ exit_code' = 1 /\ config' = config /\ output' = output
  BY DEF Fail
<1>3. CliTypeOK' BY <1>2 DEF CliInv, CliTypeOK
<1>4. ~Valid' BY <1>1, SameCommand
<1> QED
  BY <1>1, <1>2, <1>3, <1>4
  DEF CliInv, AcceptedIfValid, RunnableConfig, OptionsHonoured, ExitCodeTruthful, Parsed, Accepted

(* CLI11 refuses a line, or prints the help page: the line is not valid.   *)
LEMMA AppParseFailsCli == CliInv /\ AppParseFails => CliInv'
<1> SUFFICES ASSUME CliInv, AppParseFails PROVE CliInv' OBVIOUS
<1>1. ParseInv' /\ port_spec' = port_spec BY ParseFrame DEF CliInv, AppParseFails
<1>2. PICK code \in ParseErrors :
        /\ exit_code' = code /\ status' = StatusOf(code) /\ stage' = "done"
        /\ cmd' = cmd /\ config' = config /\ output' = output
  BY DEF AppParseFails
<1>3. code \in {0, 105, 106, 108, 109} /\ (code = 0 => cmd.help) BY NoParseErrors
<1>4. ~Valid
  <2>1. ParseErrors # {} OBVIOUS
  <2>2. ~(DestinationsExclusive /\ ModesExclusive /\ TimeoutOK /\ ConcurrencyOK) \/ cmd.help
        \/ cmd.unknown \/ ~cmd.has_ports
    BY <2>1, NoParseErrors
  <2> QED BY <2>2 DEF Valid, RightOptions, DestinationsExclusive, ModesExclusive, TimeoutOK, ConcurrencyOK, InLimits
<1>5. CliTypeOK' BY <1>2, <1>3 DEF CliInv, CliTypeOK, StatusOf
<1>6. status' \in {"Exit", "Error"} /\ (status' = "Error" <=> exit_code' # 0)
      /\ (status' = "Exit" => cmd.help)
  BY <1>2, <1>3 DEF StatusOf
<1>7. ~Valid' BY <1>1, <1>2, <1>4, SameCommand
<1> QED
  BY <1>1, <1>2, <1>5, <1>6, <1>7
  DEF CliInv, AcceptedIfValid, RunnableConfig, OptionsHonoured, ExitCodeTruthful, Parsed, Accepted

(* A line CLI11 lets through has none of the faults it looks for.          *)
LEMMA AppParseCli == CliInv /\ AppParse => CliInv'
<1> SUFFICES ASSUME CliInv, AppParse PROVE CliInv' OBVIOUS
<1>1. ParseInv' /\ port_spec' = port_spec BY ParseFrame DEF CliInv, AppParse
<1>2. /\ stage = "parse" /\ stage' = "targets" /\ ParseErrors = {}
      /\ cmd' = cmd /\ status' = "Ok" /\ exit_code' = 0
      /\ config' = [config EXCEPT !.targets = cmd.targets]
      /\ output' = [output EXCEPT !.show_reason = cmd.reason]
      /\ config = DefaultConfig /\ output = DefaultOutput
  BY DEF CliInv, AppParse, ConfigSoFar, OutputSoFar, Mapped, DefaultConfig
<1>3. config' = ConfigSoFar' BY <1>2, ZenonT(40) DEF ConfigSoFar, DefaultConfig
<1>4. output' = OutputSoFar'
  <2>1. output' = ToDestination("none", "Text") BY <1>2 DEF ToDestination, DefaultOutput
  <2>2. OutputSoFar' = ToDestination("none", "Text")
    BY <1>2 DEF OutputSoFar, Mapped, ToDestination
  <2> QED BY <2>1, <2>2
<1>5. CliTypeOK' BY <1>2, <1>3, <1>4 DEF CliInv, CliTypeOK, ConfigSoFar, DefaultOutput
<1>6. Checked' BY <1>1, <1>2, SameCommand DEF Checked
<1> QED BY <1>1, <1>2, <1>3, <1>4, <1>5, <1>6
  DEF CliInv, AcceptedIfValid, RunnableConfig, OptionsHonoured, ExitCodeTruthful, Parsed, Accepted

(* Behind the check of the targets there is at least one.                  *)
LEMMA ValidateTargetsCli == CliInv /\ ValidateTargets => CliInv'
<1> SUFFICES ASSUME CliInv, ValidateTargets PROVE CliInv' OBVIOUS
<1>1. /\ stage = "targets" /\ cmd' = cmd /\ UNCHANGED portVars
      /\ config = ConfigSoFar /\ output = OutputSoFar /\ Checked
      /\ status = "Ok" /\ exit_code = 0
  BY DEF ValidateTargets, CliInv
<1>2. ParseInv' /\ port_spec' = port_spec BY <1>1, ParseFrame DEF CliInv
<1>3. config.targets = cmd.targets BY <1>1 DEF ConfigSoFar
<1>4. CASE TargetsPresent
  <2>1. stage' = "destination" /\ UNCHANGED <<status, exit_code, config, output>>
    BY <1>4 DEF ValidateTargets
  <2>2. config' = ConfigSoFar' /\ output' = OutputSoFar'
    BY <1>1, <2>1 DEF ConfigSoFar, OutputSoFar, Mapped, ToDestination
  <2>3. Checked' BY <1>1, <1>2, <1>3, <1>4, <2>1, SameCommand DEF Checked, TargetsPresent
  <2>4. CliTypeOK' BY <1>1, <2>1 DEF CliInv, CliTypeOK
  <2> QED
    BY <1>1, <1>2, <2>1, <2>2, <2>3, <2>4
    DEF CliInv, AcceptedIfValid, RunnableConfig, OptionsHonoured, ExitCodeTruthful, Parsed, Accepted
<1>5. CASE ~TargetsPresent
  <2>1. Fail /\ ~Valid BY <1>3, <1>5 DEF ValidateTargets, TargetsPresent, Valid, RightOptions
  <2> QED BY <1>1, <2>1, FailCli
<1> QED BY <1>4, <1>5

(* A blank path ends in an error; any other becomes the only destination.  *)
LEMMA MapDestinationCli == CliInv /\ MapDestination => CliInv'
<1> SUFFICES ASSUME CliInv, MapDestination PROVE CliInv' OBVIOUS
<1>1. /\ stage = "destination" /\ cmd' = cmd /\ UNCHANGED portVars
      /\ config = ConfigSoFar /\ output = ToDestination("none", "Text") /\ Checked
      /\ status = "Ok" /\ exit_code = 0 /\ cmd.targets # <<>> /\ ParseErrors = {}
  BY DEF MapDestination, CliInv, OutputSoFar, Mapped, Checked
<1>2. ParseInv' /\ port_spec' = port_spec BY <1>1, ParseFrame DEF CliInv
<1>3. cmd.oX = "absent" \/ cmd.oN = "absent"
  BY <1>1, NoParseErrors DEF DestinationsExclusive
<1>4. \/ Fail /\ "blank" \in {cmd.oX, cmd.oN}
      \/ /\ stage' = "ports" /\ UNCHANGED <<status, exit_code, config>>
         /\ "blank" \notin {cmd.oX, cmd.oN} /\ output' = OutputSoFar'
  <2>1. CASE cmd.oX # "absent"
    <3>1. ToFile(cmd.oX, "Xml") BY <2>1 DEF MapDestination
    <3>2. CASE IsBlank(cmd.oX) BY <3>1, <3>2 DEF ToFile, IsBlank
    <3>3. CASE ~IsBlank(cmd.oX)
      <4>1. /\ output' = [output EXCEPT !.output_file = cmd.oX, !.format = "Xml"]
            /\ stage' = "ports" /\ UNCHANGED <<status, exit_code, config>>
        BY <3>1, <3>3 DEF ToFile
      <4>2. output' = OutputSoFar'
        <5>1. output' = ToDestination(cmd.oX, "Xml") BY <1>1, <4>1 DEF ToDestination
        <5>2. OutputSoFar' = ToDestination(cmd.oX, "Xml")
          BY <1>1, <2>1, <4>1 DEF OutputSoFar, Mapped, ToDestination
        <5> QED BY <5>1, <5>2
      <4> QED BY <1>3, <2>1, <3>3, <4>1, <4>2 DEF IsBlank
    <3> QED BY <3>2, <3>3
  <2>2. CASE cmd.oX = "absent" /\ cmd.oN # "absent"
    <3>1. ToFile(cmd.oN, "Text") BY <2>2 DEF MapDestination
    <3>2. CASE IsBlank(cmd.oN) BY <3>1, <3>2 DEF ToFile, IsBlank
    <3>3. CASE ~IsBlank(cmd.oN)
      <4>1. /\ output' = [output EXCEPT !.output_file = cmd.oN, !.format = "Text"]
            /\ stage' = "ports" /\ UNCHANGED <<status, exit_code, config>>
        BY <3>1, <3>3 DEF ToFile
      <4>2. output' = OutputSoFar'
        <5>1. output' = ToDestination(cmd.oN, "Text") BY <1>1, <4>1 DEF ToDestination
        <5>2. OutputSoFar' = ToDestination(cmd.oN, "Text")
          BY <1>1, <2>2, <4>1 DEF OutputSoFar, Mapped, ToDestination
        <5> QED BY <5>1, <5>2
      <4> QED BY <2>2, <3>3, <4>1, <4>2 DEF IsBlank
    <3> QED BY <3>2, <3>3
  <2>3. CASE cmd.oX = "absent" /\ cmd.oN = "absent"
    <3>1. stage' = "ports" /\ UNCHANGED <<status, exit_code, config, output>>
      BY <2>3 DEF MapDestination
    <3>2. OutputSoFar' = ToDestination("none", "Text")
      BY <1>1, <2>3, <3>1 DEF OutputSoFar, Mapped, ToDestination
    <3> QED BY <1>1, <2>3, <3>1, <3>2
  <2> QED BY <2>1, <2>2, <2>3
<1>5. CASE Fail /\ "blank" \in {cmd.oX, cmd.oN}
  <2>1. ~Valid BY <1>5 DEF Valid, RightOptions
  <2> QED BY <1>1, <1>5, <2>1, FailCli
<1>6. CASE /\ stage' = "ports" /\ UNCHANGED <<status, exit_code, config>>
           /\ "blank" \notin {cmd.oX, cmd.oN} /\ output' = OutputSoFar'
  <2>1. config' = ConfigSoFar' BY <1>1, <1>6 DEF ConfigSoFar
  <2>2. Checked' BY <1>1, <1>2, <1>6, SameCommand DEF Checked
  <2>3. /\ output'.format \in {"Text", "Xml"} /\ output'.text_mode = "Normal"
        /\ output'.output_file \in {"none", cmd.oN, cmd.oX}
    BY <1>1, <1>6 DEF OutputSoFar, Mapped, ToDestination
  <2>4. CliTypeOK' BY <1>1, <1>6, <2>3 DEF CliInv, CliTypeOK
  <2> QED
    BY <1>1, <1>2, <1>6, <2>1, <2>2, <2>4
    DEF CliInv, AcceptedIfValid, RunnableConfig, OptionsHonoured, ExitCodeTruthful, Parsed, Accepted
<1> QED BY <1>4, <1>5, <1>6

(* While parse_ports runs, parse_cli's own variables stand still.          *)
LEMMA ParsePortsCli == CliInv /\ ParsePorts => CliInv'
<1> SUFFICES ASSUME CliInv, ParsePorts PROVE CliInv' OBVIOUS
<1>1. stage = "ports" /\ PortStep /\ UNCHANGED cliVars BY DEF ParsePorts
<1>2. /\ stage' = stage /\ cmd' = cmd /\ status' = status /\ exit_code' = exit_code
      /\ config' = config /\ output' = output
  BY <1>1 DEF cliVars
<1>3. ParseInv'
  BY <1>1, NextTokenParse, SinglePortParse, RangeBeginsParse, RangeStepParse, ParsePortsEndsParse
  DEF CliInv, PortStep
<1>4. port_spec' = port_spec
  BY <1>1 DEF PortStep, NextToken, SinglePort, RangeBegins, RangeInsert, RangeEnds, ParsePortsEnds
<1>5. config' = ConfigSoFar' /\ output' = OutputSoFar' /\ Checked'
  BY <1>1, <1>2, <1>4, SameCommand
  DEF CliInv, ConfigSoFar, OutputSoFar, Mapped, ToDestination, Checked
<1>6. CliTypeOK' BY <1>2 DEF CliInv, CliTypeOK
<1> QED
  BY <1>1, <1>2, <1>3, <1>4, <1>5, <1>6
  DEF CliInv, AcceptedIfValid, RunnableConfig, OptionsHonoured, ExitCodeTruthful, Parsed, Accepted

(* The ports enter the configuration exactly if parse_ports succeeded.     *)
LEMMA MapPortsCli == CliInv /\ MapPorts => CliInv'
<1> SUFFICES ASSUME CliInv, MapPorts PROVE CliInv' OBVIOUS
<1>1. /\ stage = "ports" /\ cmd' = cmd /\ UNCHANGED portVars /\ PortsParsed
      /\ config = ConfigSoFar /\ output = OutputSoFar /\ Checked
      /\ status = "Ok" /\ exit_code = 0
  BY DEF MapPorts, CliInv
<1>2. ParseInv' /\ port_spec' = port_spec /\ ports' = ports /\ tokenizer' = tokenizer
  BY <1>1, ParseFrame DEF CliInv, portVars
<1>3. CASE tokenizer = "error"
  <2>1. Fail BY <1>3 DEF MapPorts
  <2>2. ~Valid
    <3>1. /\ Items # {}
          /\ \/ \E it \in Items \ {TrailingEmpty} : ~WellFormed(it)
             \/ \A it \in Items : ~WellFormed(it)
      BY <1>3 DEF CliInv, ParseInv, RejectedIfMalformed, ItemRefused
    <3> QED BY <3>1 DEF Valid, WrittenWell, ExtraComma
  <2> QED BY <1>1, <2>1, <2>2, FailCli
<1>4. CASE tokenizer # "error"
  <2>1. /\ config' = [config EXCEPT !.ports = ports] /\ stage' = "options"
        /\ status' = status /\ exit_code' = exit_code /\ output' = output
    BY <1>4 DEF MapPorts
  <2>2. config' = ConfigSoFar' BY <1>1, <1>2, <2>1 DEF ConfigSoFar
  <2>3. output' = OutputSoFar'
    BY <1>1, <2>1 DEF OutputSoFar, Mapped, ToDestination
  <2>4. Checked' BY <1>1, <1>2, <1>4, <2>1, SameCommand DEF Checked, PortsParsed
  <2>5. ports \subseteq 1 .. MaxPort BY DEF CliInv, ParseInv, PortTypeOK
  <2>6. config'.targets = cmd.targets /\ config'.ports = ports
    BY <1>1, <1>2, <2>1, <2>2 DEF ConfigSoFar
  <2>7. CliTypeOK' BY <1>1, <2>1, <2>5, <2>6 DEF CliInv, CliTypeOK
  <2> QED
    BY <1>1, <1>2, <2>1, <2>2, <2>3, <2>4, <2>7
    DEF CliInv, AcceptedIfValid, RunnableConfig, OptionsHonoured, ExitCodeTruthful, Parsed, Accepted
<1> QED BY <1>3, <1>4

(* The last stage accepts, and by then everything has been checked.        *)
LEMMA MapOptionsCli == CliInv /\ MapOptions => CliInv'
<1> SUFFICES ASSUME CliInv, MapOptions PROVE CliInv' OBVIOUS
<1>1. /\ stage = "options" /\ stage' = "done" /\ cmd' = cmd /\ UNCHANGED portVars
      /\ config = ConfigSoFar /\ output = OutputSoFar /\ Checked
      /\ status' = "Ok" /\ exit_code' = 0
      /\ config' = [config EXCEPT !.timeout = Given(cmd.timeout, @),
                                  !.max_concurrency = Given(cmd.concurrency, @)]
      /\ output' = [output EXCEPT !.text_mode = SelectedMode, !.verbose = "Verbose" \in cmd.modes]
  BY DEF MapOptions, ScanOptions, CliInv
<1>2. ParseInv' /\ port_spec' = port_spec BY <1>1, ParseFrame DEF CliInv
<1>3. /\ ~cmd.help /\ ~cmd.unknown /\ cmd.has_ports
      /\ TimeoutOK /\ ConcurrencyOK /\ ModesExclusive /\ DestinationsExclusive
      /\ cmd.targets # <<>> /\ "blank" \notin {cmd.oX, cmd.oN} /\ tokenizer = "ok"
  BY <1>1, NoParseErrors DEF Checked
<1>4. cmd \in CommandLines /\ cmd.modes \subseteq TextModes
  BY CommandAssumption DEF CliInv, CliTypeOK
<1>5. /\ ports # {} /\ ports = UNION {Denoted(it) : it \in Items}
      /\ \A it \in Items \ {TrailingEmpty} : WellFormed(it)
      /\ ports \subseteq 1 .. MaxPort
  BY <1>3 DEF CliInv, ParseInv, AcceptedAsDenoted, PortTypeOK
<1>6. WrittenWell \/ ExtraComma
  <2>1. ~WellFormed(TrailingEmpty) => Denoted(TrailingEmpty) = {} BY DEF Denoted, WellFormed
  <2>2. CASE WellFormed(TrailingEmpty) \/ TrailingEmpty \notin Items
    BY <1>5, <2>2 DEF WrittenWell
  <2>3. CASE ~WellFormed(TrailingEmpty) /\ TrailingEmpty \in Items
    BY <1>5, <2>1, <2>3 DEF ExtraComma
  <2> QED BY <2>2, <2>3
<1>7. Valid
  BY <1>3, <1>5, <1>6
  DEF Valid, RightOptions, TimeoutOK, ConcurrencyOK, InLimits, ModesExclusive, DestinationsExclusive
<1>8. config' = [targets |-> cmd.targets, ports |-> ports,
                 timeout |-> Given(cmd.timeout, 500), max_concurrency |-> Given(cmd.concurrency, 200)]
  <2>1. config = [targets |-> cmd.targets, ports |-> ports, timeout |-> 500, max_concurrency |-> 200]
    BY <1>1 DEF ConfigSoFar
  <2>2. config.timeout = 500 /\ config.max_concurrency = 200 BY <2>1
  <2>3. config' = [config EXCEPT !.timeout = Given(cmd.timeout, 500),
                                !.max_concurrency = Given(cmd.concurrency, 200)]
    BY <1>1, <2>2
  <2> QED BY <2>1, <2>3, ZenonT(40)
<1>9. Given(cmd.timeout, 500) \in 1 .. MaxTimeout /\ Given(cmd.concurrency, 200) \in 1 .. MaxConcurrency
  <2>1. 500 \in 1 .. MaxTimeout /\ 200 \in 1 .. MaxConcurrency
    <3>1. 1 <= 500 /\ 500 <= MaxTimeout /\ MaxTimeout \in Int BY SMT DEF MaxTimeout
    <3>2. 1 <= 200 /\ 200 <= MaxConcurrency /\ MaxConcurrency \in Int BY SMT DEF MaxConcurrency
    <3> QED BY <3>1, <3>2, SMT
  <2> QED BY <1>3, <2>1 DEF Given, TimeoutOK, ConcurrencyOK, InLimits
<1>10. RunnableConfig'
  <2>1. /\ config'.targets = cmd.targets /\ config'.ports = ports
        /\ config'.timeout \in 1 .. MaxTimeout /\ config'.max_concurrency \in 1 .. MaxConcurrency
    BY <1>8, <1>9
  <2>2. UNION {Denoted(it)' : it \in Items'} = UNION {Denoted(it) : it \in Items}
    BY <1>1, <1>2, SameCommand
  <2> QED BY <1>3, <1>5, <2>1, <2>2 DEF RunnableConfig
<1>11. PICK mode \in TextModes \cup {"Normal"} :
         /\ \A m \in cmd.modes : m = mode
         /\ cmd.modes = {} <=> mode = "Normal"
         /\ SelectedMode = mode
  <2>1. CASE cmd.modes = {}
    <3>1. output.text_mode = "Normal" BY <1>1 DEF OutputSoFar, Mapped, ToDestination
    <3> QED BY <2>1, <3>1 DEF SelectedMode
  <2>2. CASE cmd.modes # {}
    <3>1. SelectedMode \in cmd.modes BY <2>2 DEF SelectedMode
    <3>2. "Normal" \notin TextModes BY DEF TextModes
    <3> QED BY <1>3, <1>4, <2>2, <3>1, <3>2 DEF ModesExclusive
  <2> QED BY <2>1, <2>2
<1>12. PICK path \in {"none", cmd.oN, cmd.oX}, format \in {"Text", "Xml"} :
         /\ output = ToDestination(path, format)
         /\ cmd.oX # "absent" => path = cmd.oX /\ format = "Xml"
         /\ cmd.oN # "absent" => path = cmd.oN /\ format = "Text"
         /\ cmd.oX = cmd.oN => path = "none" /\ format = "Text"
  BY <1>1, <1>3 DEF OutputSoFar, Mapped, DestinationsExclusive
<1>13. PICK v \in BOOLEAN : v = ("Verbose" \in cmd.modes)
  <2>1. ("Verbose" \in cmd.modes) \in BOOLEAN OBVIOUS
  <2> QED BY <2>1, Zenon
<1>14. output' = [format |-> format, text_mode |-> mode, output_file |-> path,
                  verbose |-> v, show_reason |-> cmd.reason]
  <2>1. output' = [output EXCEPT !.text_mode = mode, !.verbose = v]
    BY <1>1, <1>11, <1>13, Zenon
  <2> QED BY <1>12, <2>1 DEF ToDestination
<1>15. v <=> mode = "Verbose"
  BY <1>11, <1>13 DEF TextModes
<1>16. /\ output'.format = format /\ output'.text_mode = mode /\ output'.output_file = path
       /\ output'.verbose = v /\ output'.show_reason = cmd.reason
  BY <1>14
<1>17. OptionsHonoured'
  <2>1. /\ config'.targets = cmd.targets /\ config'.timeout = Given(cmd.timeout, 500)
        /\ config'.max_concurrency = Given(cmd.concurrency, 200)
    BY <1>8
  <2> QED BY <1>1, <1>11, <1>12, <1>15, <1>16, <2>1 DEF OptionsHonoured, Given
<1>18. CliTypeOK' BY <1>1, <1>4, <1>5, <1>8, <1>11, <1>12, <1>16 DEF CliInv, CliTypeOK
<1> QED
  BY <1>1, <1>2, <1>7, <1>10, <1>17, <1>18, SameCommand
  DEF CliInv, AcceptedIfValid, ExitCodeTruthful, Parsed, Accepted

(* The invariant is about the variables alone.                             *)
LEMMA StutterCli == CliInv /\ UNCHANGED parseVars => CliInv'
<1> SUFFICES ASSUME CliInv, UNCHANGED parseVars PROVE CliInv' OBVIOUS
<1>1. /\ stage' = stage /\ cmd' = cmd /\ status' = status /\ exit_code' = exit_code
      /\ config' = config /\ output' = output /\ UNCHANGED portVars
  BY DEF parseVars, cliVars
<1>2. ParseInv' /\ port_spec' = port_spec /\ ports' = ports /\ tokenizer' = tokenizer
  BY <1>1, ParseFrame DEF CliInv, portVars
<1>3. stage # "done" => config' = ConfigSoFar' /\ output' = OutputSoFar' /\ Checked'
  BY <1>1, <1>2, SameCommand DEF CliInv, ConfigSoFar, OutputSoFar, Mapped, ToDestination, Checked
<1>4. AcceptedIfValid' /\ RunnableConfig'
  BY <1>1, <1>2, SameCommand DEF CliInv, AcceptedIfValid, RunnableConfig, Parsed, Accepted
<1>5. OptionsHonoured' /\ ExitCodeTruthful'
  BY <1>1 DEF CliInv, OptionsHonoured, ExitCodeTruthful, Parsed, Accepted
<1>6. CliTypeOK' BY <1>1 DEF CliInv, CliTypeOK
<1> QED BY <1>1, <1>2, <1>3, <1>4, <1>5, <1>6 DEF CliInv

(* The invariant holds in every reachable state.                           *)
LEMMA CliInvHolds == CliSpec => []CliInv
<1>1. CliInv /\ [CliNext]_parseVars => CliInv'
  BY AppParseFailsCli, AppParseCli, ValidateTargetsCli, MapDestinationCli, ParsePortsCli,
     MapPortsCli, MapOptionsCli, StutterCli DEF CliNext, CliStep
<1> QED BY <1>1, InitCli, PTL DEF CliSpec

----------------------------------------------------------------------------
(* The types of parse_cli's variables hold.                                *)
THEOREM CliTypes == CliSpec => []CliTypeOK
<1>1. CliInv => CliTypeOK BY DEF CliInv
<1> QED BY <1>1, CliInvHolds, PTL

(* parse_cli accepts a command line if and only if it is valid.            *)
THEOREM CliAccepts == CliSpec => []AcceptedIfValid
<1>1. CliInv => AcceptedIfValid BY DEF CliInv
<1> QED BY <1>1, CliInvHolds, PTL

(* What it accepts is a configuration the engine can run.                  *)
THEOREM CliRunnable == CliSpec => []RunnableConfig
<1>1. CliInv => RunnableConfig BY DEF CliInv
<1> QED BY <1>1, CliInvHolds, PTL

(* The configuration and the output options are the ones the user gave.   *)
THEOREM CliHonours == CliSpec => []OptionsHonoured
<1>1. CliInv => OptionsHonoured BY DEF CliInv
<1> QED BY <1>1, CliInvHolds, PTL

(* Status and exit code agree.                                             *)
THEOREM CliExitCode == CliSpec => []ExitCodeTruthful
<1>1. CliInv => ExitCodeTruthful BY DEF CliInv
<1> QED BY <1>1, CliInvHolds, PTL

=============================================================================
