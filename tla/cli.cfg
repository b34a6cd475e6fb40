SPECIFICATION FairCliSpec
CONSTANTS
  MaxPort = 3
  MaxLength = 5
  CommandLines <- SmallCommandLines
  PortSpecs <- SmallPortSpecs
INVARIANTS
  AcceptedAsDenoted
  RejectedIfMalformed
  CliTypeOK
  AcceptedIfValid
  RunnableConfig
  OptionsHonoured
  ExitCodeTruthful
PROPERTIES
  ParseCliReturns
