\* A discovery and two selections or deletions of one link id.
SPECIFICATION Spec
CONSTANTS
  None = None
  discovery = discovery
  one = one
  two = two
  wan = wan
  lan = lan
  publicIp = publicIp
  localIp = localIp
  Indices = {1, 2}
  Ports <- MCPorts
  Addresses <- MCAddresses
  Devices <- MCDevices
  Requests = {discovery}
  Sessions = {one, two}
INVARIANTS
  TypeOK
  SteadyDiscoveryIsExact
  OneInterfacePerAddress
  ReturnedCanBeSelected
  SelectedWasReturned
SYMMETRY Symmetric
