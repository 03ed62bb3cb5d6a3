SPECIFICATION FairSpec
CONSTANTS
  p1 = p1
  p2 = p2
  p3 = p3
  approve = approve
  rescope = rescope
  observe = observe
  status = status
  v1 = v1
  None = None
  Processes <- ThreeProcesses
  Updates <- FourBodies
  Recording <- ThreeRecording
  States <- AppliedSets
  Legacy <- OneLegacy
  Migrate <- MigrateV1
  Apply <- ApplyBody
  Initial <- EmptyOrLegacy
  MaxRecords = 2
INVARIANTS SequenceIsPosition
PROPERTIES KeepsAtomic TransactionsEnd TornIsTerminal
