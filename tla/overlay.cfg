\* Three circuits for two VNIs, two devices; two worker threads and one request.
\* A behaviour ends when the bound on its transactions is reached.
CHECK_DEADLOCK FALSE
SPECIFICATION Spec
CONSTANTS
  c1 = c1
  c2 = c2
  c3 = c3
  w1 = w1
  w2 = w2
  Devices = {1, 2}
  Circuits = {c1, c2, c3}
  Workers = {w1, w2}
  r = r
  Requests = {r}
  VniBase = 1
  VniMax = 2
  MaxTransactions = 5
  None = None
SYMMETRY Symmetry
CONSTRAINT SomeUntainted
INVARIANTS
  TypeOK
  OverlayExact
  RoutesFollowStatus
  DistinctVnis
  CirclesMixOrders
