SPECIFICATION Spec
CONSTANTS
  host_id_first_client = 3
  SkippedId = 5
  MaxHostId = 6
  Conn = {c1, c2}
  Timeout = 1
INVARIANT
  ReliableTrafficReachesMembers
