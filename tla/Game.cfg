SPECIFICATION Spec
CONSTANTS
  host_id_first_client = 3
  SkippedId = 50
  MaxHostId = 6
  User = {u1, u2, u3}
  NoUser = NoUser
  MaxRooms = 2
  room_slots = 3
  channel_count = 1
  MaxRoomNumber = 2
  Password = {FALSE}
  Setting = {s1}
  Look = {l1}
  Ready = {FALSE}
  CloseSlots = {}
  AllowSeatedRelogon = FALSE
  AllowSoleRejoin = FALSE
SYMMETRY Symmetry
INVARIANTS
  TypeOK
  SeatsConsistent
  RoomsListed
  MasterPresent
  GroupMirrorsRoom
  RaceTrafficStaysInRoom
  OneConnectionPerAccount
PROPERTIES
  NobodyEntersRace
  MasterInherits
  SeatsLostInOneRoom
