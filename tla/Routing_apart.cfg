CONSTANTS
  Letters <- CommandLetters
  Reserved <- ReservedWords
  MaxLength = 3
  None = None
  Lists <- SomeLists
  Options <- SomeOptions
  LongOptions <- SomeLong
  DashedValues <- SomeDashed
  Abbreviated <- SomePrefixes
  LastPart <- SomeLast
  Relative <- SomeRelative
  RunFiles <- SomeRuns
  SessionFiles <- SomeSessions
  RequestFiles <- SomeRequests
CHECK_DEADLOCK FALSE
SPECIFICATION RoutingSpec
INVARIANTS IdenticalMeaning
