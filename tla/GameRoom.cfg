SPECIFICATION Spec
CONSTANTS
  host_id_first_client = 3
  SkippedId = 50
  MaxHostId = 5
  User = {u1, u2}
  NoUser = NoUser
  MaxRooms = 1
  room_slots = 2
  channel_count = 2
  MaxRoomNumber = 1
  Password = {TRUE, FALSE}
  Setting = {s1, s2}
  Look = {l1, l2}
  Ready = {TRUE, FALSE}
  CloseSlots = {0, 1}
  AllowSeatedRelogon = FALSE
  AllowSoleRejoin = FALSE
SYMMETRY Symmetry
INVARIANTS
  RoomViewAccurate
  ReadySeen
  ListedVacancy
  ChatAudiences
