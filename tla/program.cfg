SPECIFICATION FairProgramSpec
CONSTANTS
  Characters <- SmallCharacters
  MaxPort = 65535
  CommandLines <- SmallCommandLines
  PortSpecs <- SmallPortSpecs
  Summaries <- SmallSummaries
  OptionChoices = {}
INVARIANTS
  RequestedReport
  FailureLeavesNoTrace
  StdoutClean
PROPERTIES
  ProgramEnds
