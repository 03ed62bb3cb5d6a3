SPECIFICATION Spec
CONSTANTS
  None = None
  first = first
  again = again
  other = other
  Files <- TwoFiles
  Patterns <- ThreePaths
  Covers <- CoversOf
  MaxCorrections = 2
  Calls <- MixedCalls
  Hosts <- ThreeHosts
  HostOf <- MixedHost
  HostScope <- ScopeOfThree
  Op <- MixedOp
  Unrecognized <- WhatOnly
  DefaultScope <- DefaultOfThree
  Results <- Success
  MaxVersion = 1
  MaxEdits = 1
  MaxDeaths = 1
CHECK_DEADLOCK FALSE
INVARIANTS TypeOK ObservationsAreDecided PendingIsOwed ScopeIsRecorded
PROPERTIES GuardedMutationsAreOwned
