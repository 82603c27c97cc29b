\* Two circuits with a common device; the process dies and restarts at any step.
SPECIFICATION FairSpec
CONSTANTS
  a1 = a1  a2 = a2  b1 = b1  ra = ra  rb = rb
  c1 = c1  c2 = c2  d1 = d1  d2 = d2  d3 = d3
  NoOrder = NoOrder  NoCircuit = NoCircuit
  Devices = {d1, d2, d3}
  NodeOf <- MCNodeOf
  EndpointDevices <- MCEndpointDevices
  Nodes = {"a"}
  Orders = {1, 2}
  Circuits = {c1, c2}
  Workers = {a1, a2}
  Requests = {ra}
  Adopted = {}
  Operations <- ProvisionAndDelete
  Types <- ProvisionAndDecommission
  AsyncProvisioning = TRUE
  MaxCrashes = 1
\* Order ids run out: the system may stop.
CHECK_DEADLOCK FALSE
INVARIANTS
  DeviceExclusive
  RecordMatchesDevices
  ProvisioningHasOrder
  OneInflightOrder
PROPERTIES
  ScheduledSettles
  ImplementsExclusion
