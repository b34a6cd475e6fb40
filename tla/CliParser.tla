----------------------------- MODULE CliParser -----------------------------
(***************************************************************************)
(* parse_cli (src/cli/cli_parser.cpp): from the command line to a          *)
(* ScanConfig and OutputOptions, or to an exit code.                       *)
(*                                                                         *)
(* CLI11 is external.  Which of several faults it reports is its own       *)
(* matter, so the model allows each.  A command line is a record of what   *)
(* the user wrote; help = TRUE stands for -h, unknown = TRUE for an option *)
(* that does not exist.  show_reason is the only flag CLI11 stores         *)
(* straight into the result.                                               *)
(***************************************************************************)
EXTENDS PortSpec

CONSTANT CommandLines   \* what the user may have written

NotGiven == -1   \* an absent numeric option
MaxTimeout == 300000
MaxConcurrency == 10000
TextModes == {"Quiet", "Summary", "PortsOnly", "HostsOnly", "Verbose"}

ASSUME CommandAssumption ==
  \A c \in CommandLines : c.port_spec \in PortSpecs /\ c.modes \subseteq TextModes

VARIABLES
  cmd,         \* argv
  stage,       \* where parse_cli is
  status,      \* result.status
  exit_code,   \* result.exit_code
  config,      \* result.config
  output       \* result.output

cliVars == <<cmd, stage, status, exit_code, config, output>>
parseVars == <<cliVars, portVars>>

(* The defaults of ScanConfig and OutputOptions.                           *)
DefaultConfig == [targets |-> <<>>, ports |-> {}, timeout |-> 500, max_concurrency |-> 200]
DefaultOutput == [format |-> "Text", text_mode |-> "Normal", output_file |-> "none",
                  verbose |-> FALSE, show_reason |-> FALSE]

(* parse_ports' variables exist from the start, but only step in their     *)
(* stage.                                                                  *)
CliStart(c) ==
  /\ cmd = c
  /\ stage = "parse" /\ status = "Ok" /\ exit_code = 0
  /\ config = DefaultConfig /\ output = DefaultOutput
  /\ PortsStart(c.port_spec)

Given(value, default) == IF value = NotGiven THEN default ELSE value

ZeroAccepted(value, largest) == value \in 0 .. largest
InLimits(value, largest) == value \in 1 .. largest
TimeoutOK == cmd.timeout # NotGiven => InLimits(cmd.timeout, MaxTimeout)
ConcurrencyOK == cmd.concurrency # NotGiven => InLimits(cmd.concurrency, MaxConcurrency)

(* excludes() on each of the mode flags; the variant forgets --verbose.    *)
VerboseNotExcluded == \A m, n \in cmd.modes \ {"Verbose"} : m = n
ModesExclusive == \A m, n \in cmd.modes : m = n
DestinationsExclusive == cmd.oX = "absent" \/ cmd.oN = "absent"

(* CLI11's exit codes: CallForHelp, ValidationError, RequiredError,        *)
(* ExcludesError, ExtrasError.                                             *)
ParseErrors ==
  UNION {IF cmd.help THEN {0} ELSE {},
         IF TimeoutOK /\ ConcurrencyOK THEN {} ELSE {105},
         IF cmd.has_ports THEN {} ELSE {106},
         IF ModesExclusive /\ DestinationsExclusive THEN {} ELSE {108},
         IF cmd.unknown THEN {109} ELSE {}}

AlwaysError(code) == "Error"
StatusOf(code) == IF code = 0 THEN "Exit" ELSE "Error"

(* return result, after an error of parse_cli's own.                       *)
Fail ==
  /\ stage' = "done" /\ status' = "Error" /\ exit_code' = 1
  /\ UNCHANGED <<config, output>>

AppParseFails ==
  /\ stage = "parse"
  /\ \E code \in ParseErrors : exit_code' = code /\ status' = StatusOf(code)
  /\ stage' = "done"
  /\ UNCHANGED <<cmd, config, output, portVars>>

AppParse ==
  /\ stage = "parse" /\ ParseErrors = {}
  /\ config' = [config EXCEPT !.targets = cmd.targets]
  /\ output' = [output EXCEPT !.show_reason = cmd.reason]
  /\ stage' = "targets"
  /\ UNCHANGED <<cmd, status, exit_code, portVars>>

TargetsPresent == config.targets # <<>>

ValidateTargets ==
  /\ stage = "targets"
  /\ IF TargetsPresent
     THEN stage' = "destination" /\ UNCHANGED <<status, exit_code, config, output>>
     ELSE Fail
  /\ UNCHANGED <<cmd, portVars>>

IsBlank(path) == path = "blank"

ToFile(path, format) ==
  IF IsBlank(path) THEN Fail
  ELSE /\ output' = [output EXCEPT !.output_file = path, !.format = format]
       /\ stage' = "ports"
       /\ UNCHANGED <<status, exit_code, config>>

MapDestination ==
  /\ stage = "destination"
  /\ CASE cmd.oX # "absent" -> ToFile(cmd.oX, "Xml")
       [] cmd.oX = "absent" /\ cmd.oN # "absent" -> ToFile(cmd.oN, "Text")
       [] OTHER -> stage' = "ports" /\ UNCHANGED <<status, exit_code, config, output>>
  /\ UNCHANGED <<cmd, portVars>>

ParsePorts == stage = "ports" /\ PortStep /\ UNCHANGED cliVars

MapPorts ==
  /\ stage = "ports" /\ PortsParsed
  /\ IF tokenizer = "error" THEN Fail
     ELSE /\ config' = [config EXCEPT !.ports = ports]
          /\ stage' = "options"
          /\ UNCHANGED <<status, exit_code, output>>
  /\ UNCHANGED <<cmd, portVars>>

SelectedMode == IF cmd.modes = {} THEN output.text_mode ELSE CHOOSE m \in cmd.modes : TRUE

(* The numeric options; the variant forgets -c and leaves the default.     *)
ConcurrencyForgotten == [config EXCEPT !.timeout = Given(cmd.timeout, @)]
ScanOptions ==
  [config EXCEPT !.timeout = Given(cmd.timeout, @),
                 !.max_concurrency = Given(cmd.concurrency, @)]

MapOptions ==
  /\ stage = "options"
  /\ config' = ScanOptions
  /\ output' = [output EXCEPT !.text_mode = SelectedMode, !.verbose = "Verbose" \in cmd.modes]
  /\ status' = "Ok" /\ stage' = "done"
  /\ UNCHANGED <<cmd, exit_code, portVars>>

CliStep ==
  \/ AppParseFails \/ AppParse \/ ValidateTargets \/ MapDestination
  \/ ParsePorts \/ MapPorts \/ MapOptions

CliInit == \E c \in CommandLines : CliStart(c)
CliNext == CliStep \/ (stage = "done" /\ UNCHANGED parseVars)
CliSpec == CliInit /\ [][CliNext]_parseVars
FairCliSpec == CliSpec /\ WF_parseVars(CliStep)

Parsed == stage = "done"
Accepted == Parsed /\ status = "Ok"

----------------------------------------------------------------------------
(* Properties                                                              *)

(* A command line is accepted if and only if there is nothing wrong with   *)
(* it, whatever the order of the checks, but for one case.  WrittenWell is *)
(* what docs/cli.md asks of it: every item of -p is a port or a range that *)
(* does not run backwards.  The exception is ExtraComma: "80,", a          *)
(* malformed list by docs/cli.md:47, is accepted as if it were "80".       *)
(* The help page is neither accepted nor an error.                         *)
RightOptions ==
  /\ ~cmd.help /\ ~cmd.unknown /\ cmd.targets # <<>> /\ cmd.has_ports
  /\ cmd.timeout = NotGiven \/ cmd.timeout \in 1 .. MaxTimeout
  /\ cmd.concurrency = NotGiven \/ cmd.concurrency \in 1 .. MaxConcurrency
  /\ \A m, n \in cmd.modes : m = n
  /\ "absent" \in {cmd.oX, cmd.oN} /\ "blank" \notin {cmd.oX, cmd.oN}
WrittenWell == \A it \in Items : WellFormed(it)
ExtraComma ==
  /\ TrailingEmpty \in Items /\ Items # {TrailingEmpty}
  /\ \A it \in Items \ {TrailingEmpty} : WellFormed(it)
Valid == RightOptions /\ (WrittenWell \/ ExtraComma)
AcceptedIfValid == Parsed => (status = "Ok" <=> Valid)

(* What the engine is handed satisfies what it assumes: targets, a set of  *)
(* ports that is the one denoted, a window and a timeout that are not 0.   *)
RunnableConfig ==
  Accepted =>
    /\ config.targets # <<>>
    /\ config.ports # {} /\ config.ports = UNION {Denoted(it) : it \in Items}
    /\ config.timeout \in 1 .. MaxTimeout
    /\ config.max_concurrency \in 1 .. MaxConcurrency

(* Every option takes effect, and one that is not given leaves its default *)
(* (docs/cli.md): the scan is of the targets, with the timeout and the     *)
(* window that were written, and the report goes where, and looks as, the  *)
(* options say.  None is forgotten, swapped, or ignored for another.       *)
OptionsHonoured ==
  Accepted =>
    /\ config.targets = cmd.targets
    /\ config.timeout = IF cmd.timeout = NotGiven THEN 500 ELSE cmd.timeout
    /\ config.max_concurrency = IF cmd.concurrency = NotGiven THEN 200 ELSE cmd.concurrency
    /\ \A m \in cmd.modes : output.text_mode = m
    /\ cmd.modes = {} => output.text_mode = "Normal"
    /\ output.verbose <=> output.text_mode = "Verbose"
    /\ output.show_reason = cmd.reason
    /\ cmd.oX # "absent" => output.output_file = cmd.oX /\ output.format = "Xml"
    /\ cmd.oN # "absent" => output.output_file = cmd.oN /\ output.format = "Text"
    /\ cmd.oX = cmd.oN => output.output_file = "none" /\ output.format = "Text"

(* main() returns exit_code for whatever is not Ok: an error never exits   *)
(* with 0 and the help page always does (cli_parser.hpp:29-33).            *)
ExitCodeTruthful ==
  Parsed => (status = "Error" <=> exit_code # 0) /\ (status = "Exit" => cmd.help)

(* parse_cli returns.                                                      *)
ParseCliReturns == <>Parsed

(* The type of parse_cli's own variables.                                  *)
CliTypeOK ==
  /\ cmd \in CommandLines
  /\ stage \in {"parse", "targets", "destination", "ports", "options", "done"}
  /\ status \in {"Ok", "Exit", "Error"}
  /\ exit_code \in {0, 1, 105, 106, 108, 109}
  /\ config.targets \in {<<>>, cmd.targets} /\ config.ports \subseteq 1 .. MaxPort
  /\ output.format \in {"Text", "Xml"} /\ output.text_mode \in TextModes \cup {"Normal"}
  /\ output.output_file \in {"none", cmd.oN, cmd.oX}

=============================================================================
