\* An L2 circuit at a site with a gateway: provisioned, then decommissioned.
SPECIFICATION Spec
CONSTANTS
  Bindings = {5}
  Routes = {}
  External = {}
  Gateways = {7}
  Group <- MCGroup
  GatewaysOf <- MCGatewaysOf
  DeviceOf <- MCDeviceOf
  GatewayService = FALSE
  MaxEdits = 0
  NoTarget = 0
INVARIANTS
  DecommissionedLeavesNothing
