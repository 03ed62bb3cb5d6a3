SPECIFICATION FairSpec
CONSTANTS
  e1 = e1
  e2 = e2
  r1 = r1
  r2 = r2
  r3 = r3
  rBad = rBad
  k1 = k1
  k2 = k2
  None = None
  Executors <- TwoExecutors
  Requests <- FourRequests
  Admissible <- ThreeAdmitted
  Keys <- TwoKeys
  KeyOf <- KeyOfFour
PROPERTIES KeepsPromise ClaimResolves NeverRetried
INVARIANTS AtMostOnce ReceiptReportsEffect AnswerMatchesReceipt
