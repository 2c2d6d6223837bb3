SPECIFICATION Spec
CONSTANTS
  Open = Open
  Null = Null
  b = b
  Cases <- MCCases
  LimitChoices <- MCLimits
  DefaultLimits <- Generous
CHECK_DEADLOCK FALSE
INVARIANTS
  AcceptsExactlyTheGrammar
  NeverHoldsMoreThanAllowed
  HandsOutWhatWasWrapped
PROPERTIES
  EveryParseEnds
