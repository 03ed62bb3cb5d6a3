SPECIFICATION Spec
CONSTANTS
  None = None
  first = first
  again = again
  other = other
  Files <- OneFile
  Patterns <- TwoPaths
  Covers <- CoversOne
  MaxCorrections = 2
  Calls <- TesterCalls
  Hosts <- OneHost
  HostOf <- TesterHost
  HostScope <- ScopeOfTester
  Op <- TesterOp
  Unrecognized <- NoCalls
  DefaultScope <- ScopeOfTester
  Results <- AllResults
  MaxVersion = 1
  MaxEdits = 2
  MaxDeaths = 1
SYMMETRY Twins
CHECK_DEADLOCK FALSE
INVARIANTS SuccessIsNoRetry EvaluationsSeeOneCandidate ChannelStaysRequired ClusterStops
