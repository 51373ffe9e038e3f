\* Two connections to every host, one of which carries data both ways; both may end.
SPECIFICATION FairSpec
CONSTANTS
  Clients = {"c1", "c2"}
  Addresses <- MCAddresses
  Rules <- MCRules
  Hosts <- MCHosts
  MaxBytes = 2
  MaxTunnels = 1
INVARIANTS RequestsRight AddressesKept TunnelInOrder
PROPERTIES TunnelCloses
CHECK_DEADLOCK FALSE
