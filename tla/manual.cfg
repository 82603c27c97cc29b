\* Two operators execute orders in request threads.
SPECIFICATION Spec
CONSTANTS
  a1 = a1  a2 = a2  b1 = b1  ra = ra  rb = rb
  c1 = c1  c2 = c2  d1 = d1  d2 = d2  d3 = d3
  NoOrder = NoOrder  NoCircuit = NoCircuit
  Devices = {d1, d2, d3}
  NodeOf <- MCNodeOf
  EndpointDevices <- MCEndpointDevices
  Nodes = {"a"}
  Orders = {1}
  Circuits = {c1, c2}
  Workers = {a1}
  Requests = {ra, rb}
  Adopted = {c2}
  Operations <- OrderByOrder
  Types <- OrderType
  AsyncProvisioning = FALSE
  MaxCrashes = 1
SYMMETRY RequestSymmetry
\* Order ids run out: the system may stop.
CHECK_DEADLOCK FALSE
INVARIANTS
  RecordedWorkNotRequeued
