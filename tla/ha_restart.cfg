\* One of two processes restarts.
SPECIFICATION Spec
CONSTANTS
  a1 = a1  a2 = a2  b1 = b1  ra = ra  rb = rb
  c1 = c1  c2 = c2  d1 = d1  d2 = d2  d3 = d3
  NoOrder = NoOrder  NoCircuit = NoCircuit
  Devices = {d1, d2, d3}
  NodeOf <- MCNodeOf
  EndpointDevices <- MCEndpointDevices
  Nodes = {"a", "b"}
  Orders = {1}
  Circuits = {c1}
  Workers = {a1, b1}
  Requests = {ra}
  Adopted = {}
  Operations <- ProvisionOnly
  Types <- OrderType
  AsyncProvisioning = TRUE
  MaxCrashes = 1
\* Order ids run out: the system may stop.
CHECK_DEADLOCK FALSE
INVARIANTS
  AtMostOneExecution
