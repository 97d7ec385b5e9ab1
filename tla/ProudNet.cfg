SPECIFICATION Spec
CONSTANTS
  host_id_first_client = 3
  SkippedId = 5
  MaxHostId = 7
  Conn = {c1, c2}
  Timeout = 1
SYMMETRY Symmetry
INVARIANTS
  TypeOK
  IdsPartitioned
  PeersIndexed
  GroupViewAccurate
  GroupTrafficReachesMembers
PROPERTY HostIdsLeased
