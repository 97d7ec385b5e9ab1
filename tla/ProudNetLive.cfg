SPECIFICATION FairSpec
CONSTANTS
  host_id_first_client = 3
  SkippedId = 5
  MaxHostId = 4
  Conn = {c1, c2}
  Timeout = 1
PROPERTIES
  NoSilentPeer
