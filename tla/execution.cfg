\* A circuit with the four kinds of target, edited once.
SPECIFICATION Spec
CONSTANTS
  Bindings = {2, 4, 5}
  Routes = {1}
  External = {3}
  Gateways = {6}
  Group <- MCGroup
  GatewaysOf <- MCGatewaysOf
  DeviceOf <- MCDeviceOf
  GatewayService = TRUE
  MaxEdits = 1
  NoTarget = 0
INVARIANTS
  CompletedRunHolds
  NoDirtyConfig
  TeardownRestored
PROPERTIES
  RoutesWithdrawnLast
