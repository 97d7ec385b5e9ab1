SPECIFICATION Spec
CONSTANTS
  host_id_first_client = 3
  SkippedId = 50
  MaxHostId = 5
  User = {u1, u2}
  NoUser = NoUser
  AllowRelogon = TRUE
SYMMETRY Symmetry
INVARIANT SwallowedBeforeLogin
