----------------------------- MODULE GameServer -----------------------------
(***************************************************************************)
(* game::game_server (src/src/game/game_server.cpp, .hpp) on top of the      *)
(* tables of proudnet::server: logins, channels, rooms with their seats,     *)
(* master and P2P group, and what each client has been told about its room.  *)
(*                                                                          *)
(* Handlers are operators from the world (the record of all tables) to the   *)
(* world they leave; a handler that returns early leaves it as it was. Each  *)
(* action runs one handler for one connected client, with any parameters.    *)
(* A room is an object with an identity of its own (Room): a shared_ptr held *)
(* by its members can outlive its entry in m_rooms.                          *)
(***************************************************************************)
EXTENDS ProudNetState

CONSTANTS User,           \* user names with an account; also the nicknames
          NoUser,         \* no player on this connection
          MaxRooms,       \* bound on room objects that exist at the same time
          room_slots,     \* seats of a room (8)
          channel_count,  \* channels (6)
          MaxRoomNumber,  \* largest value of a room number (65535)
          Password,       \* whether a new room may have a password, and may have none
          Setting,        \* values of what the master configures: map, type, laps, attribute
          Look,           \* values of what a player shows others: comment, avatar
          Ready,          \* values of the ready flag that clients send
          CloseSlots,     \* values of the slot in CloseSlot_Room and OpenSlot_Room
          AllowSeatedRelogon, \* clients may log on again while seated in a room
          AllowSoleRejoin     \* clients may join the room they are alone in

ASSUME GameAssumption ==
  /\ NoUser \notin User
  /\ MaxRooms \in Nat \ {0}
  /\ room_slots \in Nat \ {0}
  /\ channel_count \in Nat
  /\ MaxRoomNumber \in Nat \ {0}
  /\ Password \subseteq BOOLEAN
  /\ Setting # {} /\ Look # {}
  /\ Ready \subseteq BOOLEAN
  /\ CloseSlots \subseteq Nat
  /\ AllowSeatedRelogon \in BOOLEAN /\ AllowSoleRejoin \in BOOLEAN

Slot == 0 .. room_slots - 1
Channel == 0 .. channel_count - 1
no_channel == 255
Room == 1 .. MaxRooms
NoRoom == 0
Nobody == 0     \* an empty seat holds HostID 0
RoomNumber == 0 .. MaxRoomNumber

VARIABLES net,     \* m_net
          players, \* m_players: players[h].user = NoUser when h has no player
          rooms,   \* the room objects
          m_rooms, \* room number -> room object, NoRoom when there is none
          m_next_room_number,
          view     \* view[h]: the room as client h has been told

vars == <<net, players, rooms, m_rooms, m_next_room_number, view>>

FirstLook == CHOOSE x \in Look : TRUE
NoPlayer == [user |-> NoUser, channel |-> no_channel, room |-> NoRoom, slot |-> 0,
             ready |-> FALSE, look |-> FirstLook]
EmptySeats == [s \in Slot |-> Nobody]
NoLooks == [s \in Slot |-> FirstLook]
FirstSetting == CHOOSE x \in Setting : TRUE
NoView == [slots |-> EmptySeats, closed |-> {}, master |-> 0, setting |-> FirstSetting,
           ready |-> {}, looks |-> NoLooks]
NullRoom == [number |-> 0, channel |-> 0, max_players |-> room_slots, password |-> FALSE,
             slots |-> EmptySeats, closed |-> {}, master_slot |-> 0, p2p_group |-> 0,
             playing |-> FALSE, setting |-> FirstSetting]

Seats == [Slot -> HostId \cup {Nobody}]
PlayerType == [user : User \cup {NoUser}, channel : Channel \cup {no_channel},
               room : Room \cup {NoRoom}, slot : Slot, ready : BOOLEAN, look : Look]
RoomType == [number : RoomNumber, channel : Channel \cup {0}, max_players : 1 .. room_slots,
             password : BOOLEAN, slots : Seats, closed : SUBSET Slot, master_slot : Slot,
             p2p_group : HostId \cup {0}, playing : BOOLEAN, setting : Setting]
ViewType == [slots : Seats, closed : SUBSET Slot, master : Slot, setting : Setting,
             ready : SUBSET Slot, looks : [Slot -> Look]]

TypeOK ==
  /\ net \in NetType
  /\ players \in [HostId -> PlayerType]
  /\ rooms \in [Room -> RoomType]
  /\ m_rooms \in [RoomNumber -> Room \cup {NoRoom}]
  /\ m_next_room_number \in RoomNumber
  /\ view \in [HostId -> ViewType]

Init ==
  /\ net = EmptyNet
  /\ players = [h \in HostId |-> NoPlayer]
  /\ rooms = [r \in Room |-> NullRoom]
  /\ m_rooms = [n \in RoomNumber |-> NoRoom]
  /\ m_next_room_number = 1
  /\ view = [h \in HostId |-> NoView]

World == [net |-> net, players |-> players, rooms |-> rooms, m_rooms |-> m_rooms,
          next |-> m_next_room_number, view |-> view]

-----------------------------------------------------------------------------
(* Helpers *)

LoggedOn(w, h) == w.players[h].user # NoUser
Occupants(room) == {room.slots[s] : s \in Slot} \ {Nobody}
Taken(room) == {s \in Slot : room.slots[s] # Nobody}

\* Mutant: capacity() is the number of seats there are.
FreeSlots_AnySize(room) == Slot \ (Taken(room) \cup room.closed)

\* room::free_slot: the first seat within capacity that is empty and not closed.
FreeSlots(room) == {s \in Slot : s < room.max_players} \ (Taken(room) \cup room.closed)
free_slot(room) == Min(FreeSlots(room))

listed(w) == {w.m_rooms[n] : n \in RoomNumber} \ {NoRoom}
rooms_in(w, channel) == {n \in RoomNumber : w.m_rooms[n] # NoRoom /\ w.rooms[w.m_rooms[n]].channel = channel}

is_master(w, h) ==
  LET p == w.players[h] IN p.room # NoRoom /\ w.rooms[p.room].master_slot = p.slot

\* send_room: the clients seated in r that are connected are told V(their view).
send_room(w, r, V(_)) ==
  [w EXCEPT !.view = [h \in HostId |->
     IF h \in Occupants(w.rooms[r]) \cap w.net.up THEN V(@[h]) ELSE @[h]]]

\* listed_info, of what the lobby shows of a room.
listed_info(room) ==
  [number |-> room.number, players |-> Cardinality(Occupants(room)),
   max_players |-> room.max_players, playing |-> room.playing,
   has_password |-> room.password, slots |-> room.closed]

\* member_of and avatar_of, for all members: the seats of those who are ready, and the
\* look of each.
ReadySlots(w, room) == {s \in Taken(room) : w.players[room.slots[s]].ready}
Looks(w, room) ==
  [s \in Slot |-> IF room.slots[s] = Nobody THEN FirstLook ELSE w.players[room.slots[s]].look]

\* The whole room, as Enter_Room and Create_Room describe it.
Snapshot(w, room) ==
  [slots |-> room.slots, closed |-> room.closed, master |-> room.master_slot,
   setting |-> room.setting, ready |-> ReadySlots(w, room), looks |-> Looks(w, room)]

\* A room object lives as long as m_rooms or a player refers to it.
Collect(w) ==
  [w EXCEPT !.rooms = [r \in Room |->
     IF r \in listed(w) \/ \E h \in HostId : w.players[h].room = r THEN @[r] ELSE NullRoom]]

-----------------------------------------------------------------------------
(* Chat: the clients that a line of player h reaches. server::send drops what is *)
(* addressed to a client that is not connected.                                  *)

\* Mutant: players who are in a room hear the lobby too.
send_channel_lobby_All(w, channel) ==
  {o \in w.net.up : LoggedOn(w, o) /\ w.players[o].channel = channel}

send_channel_lobby(w, channel) ==
  {o \in w.net.up : LoggedOn(w, o) /\ w.players[o].channel = channel /\ w.players[o].room = NoRoom}

lobby_chat(w, h) == send_channel_lobby(w, w.players[h].channel)

room_chat(w, h) ==
  IF w.players[h].room = NoRoom THEN {} ELSE Occupants(w.rooms[w.players[h].room]) \cap w.net.up

whisper_chat(w, nickname) == {o \in w.net.up : w.players[o].user = nickname}

-----------------------------------------------------------------------------
(* Seats *)

\* Mutant: the room keeps pointing at the seat that became empty.
new_master_Kept(room, seats) == room.master_slot

\* Mutant: the room goes to the next seat, taken or not.
new_master_NextSeat(room, seats) ==
  IF room.master_slot \in seats THEN (room.master_slot + 1) % room_slots ELSE room.master_slot

\* The master's seat once the players on these seats have left: the first taken one
\* if the master is among them.
new_master(room, seats) ==
  IF room.master_slot \in seats THEN Min(Taken(room) \ seats) ELSE room.master_slot

\* The players S, all of them in room r, leave it one after the other. The last
\* one to go takes the room's group and its entry with it; otherwise those who
\* stay are told, and get a new master if the master's seat is empty now.
Vacate(w, r, S) ==
  LET room   == w.rooms[r]
      seats  == {w.players[h].slot : h \in S}
      left   == [room EXCEPT !.slots = [s \in Slot |-> IF s \in seats THEN Nobody ELSE @[s]]]
      master == new_master(room, seats)
      apart  == LeaveGroups(w.net, {room.p2p_group} \cap w.net.groups, S)
      gone   == [w EXCEPT
                   !.players = [h \in HostId |->
                      IF h \in S THEN [@[h] EXCEPT !.room = NoRoom, !.ready = FALSE] ELSE @[h]],
                   !.view = [h \in HostId |-> IF h \in S THEN NoView ELSE @[h]]]
      told(v) == [v EXCEPT !.slots = [s \in Slot |-> IF s \in seats THEN Nobody ELSE @[s]],
                           !.looks = [s \in Slot |-> IF s \in seats THEN FirstLook ELSE @[s]],
                           !.ready = @ \ seats, !.master = master]
  IN  IF Taken(left) = {}
      THEN [gone EXCEPT !.rooms[r] = left,
                        !.net = destroy_p2p_group(apart, {room.p2p_group}),
                        !.m_rooms[room.number] = NoRoom]
      ELSE send_room([gone EXCEPT !.rooms[r] = [left EXCEPT !.master_slot = master],
                                  !.net = apart], r, told)

remove_from_room(w, h) ==
  IF w.players[h].room = NoRoom THEN w ELSE Vacate(w, w.players[h].room, {h})

\* Mutant: the others are told the seat of the newcomer and nothing else of it.
Hello_SeatOnly(v, slot, h, look) == [v EXCEPT !.slots[slot] = h]

\* External client code: Room_Add_User_Avatar puts the newcomer, not ready, on its seat.
Hello(v, slot, h, look) ==
  [v EXCEPT !.slots[slot] = h, !.ready = @ \ {slot}, !.looks[slot] = look]

\* Seats h in room r: h is told the whole room, the others of h; then the group.
Seat(w, h, r, slot) ==
  LET room == [w.rooms[r] EXCEPT !.slots[slot] = h]
      sat  == [w EXCEPT !.rooms[r] = room,
                        !.players[h] = [@ EXCEPT !.room = r, !.slot = slot, !.ready = FALSE]]
      hello(v) == Hello(v, slot, h, w.players[h].look)
      told == [send_room(sat, r, hello) EXCEPT !.view[h] = Snapshot(sat, room)]
  IN  [told EXCEPT !.net = join_p2p_group(@, room.p2p_group, h)]

join_room(w, h, r) ==
  LET out == remove_from_room(w, h)
  IN  Seat(out, h, r, free_slot(out.rooms[r]))

-----------------------------------------------------------------------------
(* Connections and logins *)

\* Mutant: a client that disconnects keeps its seat.
on_client_leave_KeepsSeat(w, h) == [w EXCEPT !.players[h] = NoPlayer]

on_client_leave(w, h) ==
  IF ~LoggedOn(w, h) THEN w
  ELSE [remove_from_room(w, h) EXCEPT !.players[h] = NoPlayer]

\* peer::close of the connected client h.
close(w, h) ==
  LET out == on_client_leave([w EXCEPT !.net = MarkClosed(@, {h})], h)
  IN  [out EXCEPT !.net = on_peer_closed(@, {h}), !.view[h] = NoView]

\* Mutant: only the first player of m_players is looked at.
Older_FirstOnly(w, h, u) ==
  {o \in HostId \ {h} : w.players[o].user = u /\ \A q \in HostId : LoggedOn(w, q) => o <= q}

\* The other connections of the account u; the first one found is dropped.
Older(w, h, u) == {o \in HostId \ {h} : w.players[o].user = u /\ o \in w.net.peers}

logon(w, h, u) ==
  LET old == Older(w, h, u)
      one == IF old = {} THEN w ELSE close(w, Min(old))
  IN  [one EXCEPT !.players[h] = [NoPlayer EXCEPT !.user = u], !.view[h] = NoView]

-----------------------------------------------------------------------------
(* Room numbers and room objects *)

\* The first number from m_next_room_number on, wrapping around, that is neither
\* 0 nor the number of a listed room.
Succ(n) == (n + 1) % (MaxRoomNumber + 1)
FreeNumbers(w) == {n \in RoomNumber \ {0} : w.m_rooms[n] = NoRoom}

\* Mutant: a number is taken without looking whether a room has it.
room_number_Unchecked(w) == IF w.next = 0 THEN 1 ELSE w.next

room_number(w) ==
  LET distance(n) == (n - w.next + MaxRoomNumber + 1) % (MaxRoomNumber + 1)
  IN  CHOOSE n \in FreeNumbers(w) : \A m \in FreeNumbers(w) : distance(n) <= distance(m)

\* Bounds: a room object, a room number and a HostID for the group must be left.
UnusedRooms(w) == {r \in Room : w.rooms[r].number = 0}
CanCreate(w) == UnusedRooms(w) # {} /\ FreeNumbers(w) # {} /\ CanAllocate(w.net)

\* Mutant: the size asked for is not clamped.
create_room_Unclamped(w, h, max_players, password) ==
  LET out   == remove_from_room(w, h)
      r     == Min(UnusedRooms(w))
      n     == room_number(out)
      room  == [NullRoom EXCEPT !.number = n, !.channel = out.players[h].channel,
                  !.max_players = max_players,
                  !.password = password, !.p2p_group = AllocatedId(out.net)]
  IN  Seat([out EXCEPT !.rooms[r] = room, !.m_rooms[n] = r, !.next = Succ(n),
                       !.net = create_p2p_group(@)], h, r, 0)

create_room(w, h, max_players, password) ==
  LET out   == remove_from_room(w, h)
      r     == Min(UnusedRooms(w))
      n     == room_number(out)
      room  == [NullRoom EXCEPT !.number = n, !.channel = out.players[h].channel,
                  !.max_players = IF max_players \in 1 .. room_slots THEN max_players ELSE room_slots,
                  !.password = password, !.p2p_group = AllocatedId(out.net)]
  IN  Seat([out EXCEPT !.rooms[r] = room, !.m_rooms[n] = r, !.next = Succ(n),
                       !.net = create_p2p_group(@)], h, r, 0)

-----------------------------------------------------------------------------
(* Actions. A handler that refuses or ignores a request only answers the       *)
(* client: its early returns are the guards here.                             *)

Become(w) ==
  LET kept == Collect(w)
  IN  /\ net' = kept.net /\ players' = kept.players /\ rooms' = kept.rooms
      /\ m_rooms' = kept.m_rooms /\ m_next_room_number' = kept.next /\ view' = kept.view

Seated(h) == players[h].room # NoRoom
RoomOf(h) == rooms[players[h].room]
Alone(h) == Seated(h) /\ Occupants(RoomOf(h)) = {h}

\* on_rmi: a handler runs only for a client that has logged on.
Runs(h) == h \in net.up /\ LoggedOn(World, h)
MasterRuns(h) == Runs(h) /\ is_master(World, h)

\* A client connects. The game server first hears of it at Logon_CLGS, so the handshake
\* (ProudNetServer) is one step here.
Connect ==
  /\ CanAllocate(net)
  /\ LET n == AddPeer(net) IN Become([World EXCEPT !.net = [n EXCEPT !.up = n.peers]])

\* End of stream, socket error or inactivity.
Disconnect(h) == h \in net.up /\ Become(close(World, h))

\* Logon_CLGS with credentials the account store accepts.
Logon(h) ==
  /\ h \in net.up
  /\ AllowSeatedRelogon \/ ~Seated(h)
  /\ \E u \in User : Become(logon(World, h, u))

\* logout and leave_room
LeaveRoom(h) == Runs(h) /\ Seated(h) /\ Become(remove_from_room(World, h))

EnterChannel(h) ==
  Runs(h) /\ \E c \in Channel : Become([World EXCEPT !.players[h].channel = c])

\* enter_lobby, leave_channel and change_channel
ChangeChannel(h) ==
  /\ Runs(h)
  /\ \E c \in Channel \cup {no_channel} :
       Become([remove_from_room(World, h) EXCEPT !.players[h].channel = c])

CreateRoom(h) ==
  /\ Runs(h) /\ players[h].channel # no_channel
  /\ CanCreate(World)
  /\ \E max \in 0 .. room_slots - 1, pw \in Password : Become(create_room(World, h, max, pw))

\* Mutant: rooms that are racing are not refused.
Joinable_WhilePlaying(h, n, knows) ==
  /\ n \in rooms_in(World, players[h].channel)
  /\ LET room == rooms[m_rooms[n]] IN (room.password => knows) /\ FreeSlots(room) # {}

\* knows: the password sent is the room's. find_room only finds rooms of the player's channel.
Joinable(h, n, knows) ==
  /\ n \in rooms_in(World, players[h].channel)
  /\ LET room == rooms[m_rooms[n]]
     IN  ~room.playing /\ (room.password => knows) /\ FreeSlots(room) # {}

\* Enter_Room with the room's password, if it has one.
EnterRoom(h) ==
  /\ Runs(h)
  /\ \E n \in RoomNumber :
       /\ Joinable(h, n, TRUE)
       /\ AllowSoleRejoin \/ ~Alone(h) \/ m_rooms[n] # players[h].room
       /\ Become(join_room(World, h, m_rooms[n]))

\* The first room by number that takes the player without a password.
QuickJoin(h) ==
  LET found == {n \in RoomNumber : Joinable(h, n, FALSE)}
  IN  /\ Runs(h) /\ found # {}
      /\ AllowSoleRejoin \/ ~Alone(h) \/ m_rooms[Min(found)] # players[h].room
      /\ Become(join_room(World, h, m_rooms[Min(found)]))

Kick(h) ==
  /\ MasterRuns(h)
  /\ \E s \in Slot \ {players[h].slot} :
       /\ RoomOf(h).slots[s] # Nobody
       /\ Become(remove_from_room(World, RoomOf(h).slots[s]))

CloseSlot(h) ==
  /\ MasterRuns(h)
  /\ \E s \in CloseSlots \cap Slot :
       /\ RoomOf(h).slots[s] = Nobody
       /\ LET told(v) == [v EXCEPT !.closed = @ \cup {s}]
              shut == [World EXCEPT !.rooms[players[h].room].closed = @ \cup {s}]
          IN  Become(send_room(shut, players[h].room, told))

OpenSlot(h) ==
  /\ MasterRuns(h)
  /\ \E s \in CloseSlots \cap Slot :
       LET told(v) == [v EXCEPT !.closed = @ \ {s}]
           opened == [World EXCEPT !.rooms[players[h].room].closed = @ \ {s}]
       IN  Become(send_room(opened, players[h].room, told))

\* change_type describes all members once more.
ChangeType(h) ==
  /\ MasterRuns(h)
  /\ \E x \in Setting :
       LET told(v) == [v EXCEPT !.setting = x, !.ready = ReadySlots(World, RoomOf(h)),
                                !.looks = Looks(World, RoomOf(h))]
           changed == [World EXCEPT !.rooms[players[h].room].setting = x]
       IN  Become(send_room(changed, players[h].room, told))

\* change_map, change_lap and change_attribute
ChangeSetting(h) ==
  /\ MasterRuns(h)
  /\ \E x \in Setting :
       LET told(v) == [v EXCEPT !.setting = x]
           changed == [World EXCEPT !.rooms[players[h].room].setting = x]
       IN  Become(send_room(changed, players[h].room, told))

StartGame(h) == MasterRuns(h) /\ Become([World EXCEPT !.rooms[players[h].room].playing = TRUE])

\* Any member, not only the master, ends the race for the room. It is not ready any
\* more, which nobody is told.
GotoWaitRoom(h) ==
  LET idle == [World EXCEPT !.players[h].ready = FALSE]
  IN  /\ Runs(h)
      /\ Become(IF Seated(h) THEN [idle EXCEPT !.rooms[players[h].room].playing = FALSE] ELSE idle)

\* Mutant: the room is told before the flag is set, and of the old value.
ReadyGame_Late(h) ==
  /\ Runs(h) /\ Seated(h)
  /\ \E ready \in Ready :
       LET s == players[h].slot
           told(v) == [v EXCEPT !.ready = IF players[h].ready THEN @ \cup {s} ELSE @ \ {s}]
       IN  Become([send_room(World, players[h].room, told) EXCEPT !.players[h].ready = ready])

ReadyGame(h) ==
  /\ Runs(h) /\ Seated(h)
  /\ \E ready \in Ready :
       LET s == players[h].slot
           told(v) == [v EXCEPT !.ready = IF ready THEN @ \cup {s} ELSE @ \ {s}]
           set  == [World EXCEPT !.players[h].ready = ready]
       IN  Become(send_room(set, players[h].room, told))

\* change_comment, update_avatar and select_avatar: the room is told, if there is one.
ChangeLook(h) ==
  /\ Runs(h)
  /\ \E x \in Look :
       LET told(v) == [v EXCEPT !.looks[players[h].slot] = x]
           set  == [World EXCEPT !.players[h].look = x]
       IN  Become(IF Seated(h) THEN send_room(set, players[h].room, told) ELSE set)

\* Any member may throw everybody else out.
Others(h) == {o \in Occupants(RoomOf(h)) \ {h} : players[o].room = players[h].room}

GmCloseRoom(h) ==
  /\ Runs(h) /\ Seated(h) /\ Others(h) # {}
  /\ Become(Vacate(World, players[h].room, Others(h)))

\* What the loop of gm_kick may still find once h, alone in its room, has thrown itself
\* out and with that freed the room whose seats the loop is reading: any HostID, and so
\* any player of the nickname it looks for.
Strays(h, nickname) ==
  {Nobody} \cup (IF Alone(h) THEN {o \in HostId : players[o].user = nickname} ELSE {})

\* Any member may throw out the member of a given nickname, itself included.
GmKick(h) ==
  /\ Runs(h) /\ Seated(h)
  /\ \E o \in Occupants(RoomOf(h)) : \E x \in Strays(h, players[o].user) :
       LET out == remove_from_room(World, o)
       IN  Become(IF x = Nobody THEN out ELSE remove_from_room(out, x))

Next ==
  \/ Connect
  \/ \E h \in HostId :
       \/ Disconnect(h) \/ Logon(h) \/ LeaveRoom(h)
       \/ EnterChannel(h) \/ ChangeChannel(h)
       \/ CreateRoom(h) \/ EnterRoom(h) \/ QuickJoin(h)
       \/ Kick(h) \/ CloseSlot(h) \/ OpenSlot(h) \/ ChangeType(h) \/ ChangeSetting(h)
       \/ StartGame(h) \/ GotoWaitRoom(h) \/ ReadyGame(h) \/ ChangeLook(h)
       \/ GmCloseRoom(h) \/ GmKick(h)

Spec == Init /\ [][Next]_vars

-----------------------------------------------------------------------------
(* Properties *)

Listed == listed(World)

\* Players and seats agree: whoever is in a room holds the seat it thinks it has,
\* and every seat is held by a connected player of that room.
SeatsConsistent ==
  /\ \A h \in HostId : Seated(h) => rooms[players[h].room].slots[players[h].slot] = h
  /\ \A r \in Listed, s \in Slot : rooms[r].slots[s] # Nobody =>
       LET h == rooms[r].slots[s]
       IN  h \in net.up /\ players[h].room = r /\ players[h].slot = s

\* Nobody sits in a room that cannot be found any more, no room is kept without
\* players, and each is listed once, under its own number.
RoomsListed ==
  /\ \A h \in HostId : Seated(h) => players[h].room \in Listed
  /\ \A n \in RoomNumber : m_rooms[n] # NoRoom =>
       rooms[m_rooms[n]].number = n /\ Occupants(rooms[m_rooms[n]]) # {}

\* A room with players always has one of them as its master.
MasterPresent == \A r \in Listed : rooms[r].slots[rooms[r].master_slot] # Nobody

\* Each room has a P2P group of its own whose members are its players, and there
\* is no other group.
GroupMirrorsRoom ==
  /\ \A r \in Listed : /\ rooms[r].p2p_group \in net.groups
                       /\ net.members[rooms[r].p2p_group] = Occupants(rooms[r])
  /\ \A r, q \in Listed : rooms[r].p2p_group = rooms[q].p2p_group => r = q
  /\ net.groups = {rooms[r].p2p_group : r \in Listed}

\* "Room members share a ProudNet P2P group" (game_server.hpp): whoever has a seat
\* in a room, listed or not, is in the group of that room.
MembersShareGroup ==
  \A r \in Room : rooms[r].number # 0 => Occupants(rooms[r]) \subseteq net.members[rooms[r].p2p_group]

\* A client knows one group while it is in a room and none otherwise, and race
\* traffic it sends to that group reaches the other players of its room, exactly.
RaceTrafficStaysInRoom ==
  \A h \in net.up :
    /\ ~Seated(h) => net.told[h] = {}
    /\ Seated(h) => /\ {p[1] : p \in net.told[h]} = {rooms[players[h].room].p2p_group}
                    /\ \A p \in net.told[h] : relay_unreliable(net, h, {p[1]})
                                                = Occupants(rooms[players[h].room]) \ {h}

\* The Enter_Room snapshot and the notices after it give every client in a room the
\* seats, the closed seats, the master and the settings the server has, and the look of
\* everybody there, also of those who changed it before they came in.
RoomViewAccurate ==
  \A h \in net.up : Seated(h) =>
    LET room == rooms[players[h].room]
    IN  view[h] = [Snapshot(World, room) EXCEPT !.ready = view[h].ready]

\* Nobody who is ready is shown as not ready: the room can start when it should, whoever
\* came, left or took over the seat of somebody who was ready. (The other way round does
\* not hold: GotoWaitRoom tells nobody.)
ReadySeen ==
  \A h \in net.up : Seated(h) => ReadySlots(World, rooms[players[h].room]) \subseteq view[h].ready

\* Every line of chat comes from somebody its readers know of: what h says in its room
\* is read by exactly those who see h on a seat; nobody reads the lobby while in a room
\* or the room while in the lobby; and a whisper has one reader.
ChatAudiences ==
  /\ \A h \in net.up : Seated(h) =>
       room_chat(World, h) = {o \in net.up : \E s \in Slot : view[o].slots[s] = h}
  /\ \A h \in net.up : Runs(h) =>
       (h \in lobby_chat(World, h)) # (\E o \in net.up : h \in room_chat(World, o))
  /\ \A u \in User : Cardinality(whisper_chat(World, u)) <= 1

\* The lobby's list tells which rooms have a seat left: as many players as it says, and
\* the seats it shows as closed, leave one within the room's size exactly if Enter_Room
\* finds one.
ListedVacancy ==
  \A r \in Listed :
    LET info == listed_info(rooms[r])
        shut == {s \in info.slots : s < info.max_players}
    IN  FreeSlots(rooms[r]) # {} <=> info.players + Cardinality(shut) < info.max_players

\* "Only one game connection per account": no two connections play as one user.
OneConnectionPerAccount ==
  \A h, o \in HostId : players[h].user # NoUser /\ players[h].user = players[o].user => h = o

\* No step seats anybody in a room whose race is on.
NobodyEntersRace ==
  [][\A r \in Listed \cap Listed' : rooms[r].playing => Taken(rooms'[r]) \subseteq Taken(rooms[r])]_vars

\* A room that gets a new master gets one of the players who were there already:
\* remove_from_room hands the room to a seat, and a newcomer never takes it over.
MasterInherits ==
  [][\A r \in Listed \cap Listed' :
       LET m == rooms'[r].master_slot
       IN  m # rooms[r].master_slot =>
             rooms[r].slots[m] # Nobody /\ rooms'[r].slots[m] = rooms[r].slots[m]]_vars

\* One request empties seats in one room only, also when gm_kick goes on reading the
\* seats of a room it has just freed.
SeatsLostInOneRoom ==
  [][\A r, q \in Listed :
       r # q => \/ Occupants(rooms[r]) \subseteq Occupants(rooms'[r])
                \/ Occupants(rooms[q]) \subseteq Occupants(rooms'[q])]_vars
=============================================================================
