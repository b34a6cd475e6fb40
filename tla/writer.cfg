SPECIFICATION WriterSpec
CONSTANTS
  Characters <- SmallCharacters
  Summaries <- SmallSummaries
  OptionChoices <- SmallOptions
INVARIANTS
  WrittenInOrder
  ResultsShown
  StatisticsMatchRows
  XmlWellFormed
  BlankLinesSeparate
