CONSTANTS
  Letters <- CommandLetters
  Reserved <- ReservedWords
  MaxLength = 5
  None = None
  Lists <- SomeLists
  Options <- SomeOptions
  LongOptions <- SomeLong
  DashedValues <- SomeDashed
  Abbreviated <- SomePrefixes
  LastPart <- SomeLast
  Relative <- SomeRelative
  RunFiles <- SomeRuns
  SessionFiles <- SomeSessions
  RequestFiles <- SomeRequests
SPECIFICATION RoutingSpec
CHECK_DEADLOCK FALSE
INVARIANTS SameMeaning GeneralIsRedirected SeenAsExecuted RouterAndClientAgree
