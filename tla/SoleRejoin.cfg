SPECIFICATION Spec
CONSTANTS
  host_id_first_client = 3
  SkippedId = 50
  MaxHostId = 6
  User = {u1, u2}
  NoUser = NoUser
  MaxRooms = 2
  room_slots = 2
  channel_count = 1
  MaxRoomNumber = 2
  Password = {TRUE, FALSE}
  Setting = {s1}
  Look = {l1}
  Ready = {FALSE}
  CloseSlots = {}
  AllowSeatedRelogon = FALSE
  AllowSoleRejoin = TRUE
SYMMETRY Symmetry
INVARIANT
  MembersShareGroup
