SPECIFICATION Spec
CONSTANTS
  None = None
  Runs <- FourRuns
  Bundles <- ThreeBundles
  Bundle <- BundleOf
  Digests <- TwoLocks
  DigestOf <- LockOf
  WithPython <- CombinedOnly
  Forced <- GoOnly
  Pid <- Numbers
  MaxDamage = 1
CHECK_DEADLOCK FALSE
INVARIANTS ActiveIsWhole NoLitter
PROPERTIES ActivatesItsOwn
