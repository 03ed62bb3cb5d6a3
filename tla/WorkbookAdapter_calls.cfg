SPECIFICATION AdapterSpec
CONSTANTS
  c1 = c1
  c2 = c2
  e1 = e1
  e2 = e2
  r1 = r1
  k1 = k1
  s1 = s1
  None = None
  Clients <- TwoClients
  Executors <- TwoExecutors
  Requests <- OneRequest
  Admissible <- OneRequest
  Keys <- OneKey
  KeyOf <- KeyOfAll
  Sessions <- OneSession
  MaxMoves = 1
SYMMETRY Symmetry
INVARIANT ToldTheTruth
PROPERTIES KeepsPromise ReleaseIsFinal
