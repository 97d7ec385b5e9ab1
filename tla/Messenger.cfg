SPECIFICATION Spec
CONSTANTS
  host_id_first_client = 3
  SkippedId = 50
  MaxHostId = 6
  User = {u1, u2, u3}
  NoUser = NoUser
  AllowRelogon = FALSE
SYMMETRY Symmetry
INVARIANTS FriendshipsMutual FriendViewAccurate WhispersReachAddressee
