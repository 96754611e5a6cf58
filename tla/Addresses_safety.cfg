SPECIFICATION Spec
CONSTANTS
  AddressRequests = {r1, r2}
  Nodes = {n1, n2}
  Free = Free
  Grace = Grace
  Addrs = {1, 2, 3}
  Pools = {{1, 2}, {2, 3}}
  InitialPool = {1, 2}
  Attrs = {"name1", "key1", "name2", "key2"}
  Identities = {{"name1", "key1"}, {"name2", "key2"}}
  Bindings = {{}, {"name1"}}
  MaxReservations = 1
  MaxPlans = 1
SYMMETRY Symmetric
INVARIANTS AddressesInv
PROPERTIES NamedAddressesStay
CHECK_DEADLOCK FALSE
