SPECIFICATION Spec
CONSTANTS
  d1 = d1
  d2 = d2
  None = None
  Docs <- OneDoc
  Pipe = 1
  MaxCalls = 3
  MaxUnasked = 2
CHECK_DEADLOCK FALSE
INVARIANTS AnswersAreOwn FreshIsCurrent
PROPERTIES EveryCallEnds
