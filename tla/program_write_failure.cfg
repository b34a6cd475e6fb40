SPECIFICATION ProgramSpec
CONSTANTS
  Characters <- SmallCharacters
  MaxPort = 65535
  CommandLines <- SmallCommandLines
  PortSpecs <- SmallPortSpecs
  Summaries <- SmallSummaries
  OptionChoices = {}
INVARIANTS
  SuccessMeansWritten
