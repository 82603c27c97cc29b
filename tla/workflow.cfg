\* The approval workflow, cancellation and deletion beside two worker threads.
SPECIFICATION Spec
CONSTANTS
  a1 = a1  a2 = a2  b1 = b1  ra = ra  rb = rb
  c1 = c1  c2 = c2  d1 = d1  d2 = d2  d3 = d3
  NoOrder = NoOrder  NoCircuit = NoCircuit
  Devices = {d1, d2, d3}
  NodeOf <- MCNodeOf
  EndpointDevices <- MCEndpointDevices
  Nodes = {"a"}
  Orders = {1, 2}
  Circuits = {c1}
  Workers = {a1, a2}
  Requests = {ra}
  Adopted = {}
  Operations <- NoExecute
  Types <- OrderType
  AsyncProvisioning = TRUE
  MaxCrashes = 0
SYMMETRY WorkerSymmetry
\* Order ids run out: the system may stop.
CHECK_DEADLOCK FALSE
INVARIANTS
  TypeOK
  RecordMatchesDevices
  StrandedByCancelOnly
PROPERTIES
  SettledStaysSettled
