--------------------------- MODULE GameWorldProofs --------------------------
(***************************************************************************)
(* Proofs about GameServer, for every set of users, every number of rooms,   *)
(* seats and channels, and every pool of HostIDs and of room numbers.        *)
(* Handlers map worlds to worlds, so the invariants are predicates of worlds *)
(* and each handler has a lemma that says what it does to them. Between the  *)
(* steps of a handler a connection may be closing (C) and a new room may     *)
(* still be without players (E).                                             *)
(***************************************************************************)
EXTENDS GameServer, ProudNetStateProofs

-----------------------------------------------------------------------------
(* Worlds *)

WorldType ==
  [net : NetType, players : [HostId -> PlayerType], rooms : [Room -> RoomType],
   m_rooms : [RoomNumber -> Room \cup {NoRoom}], next : RoomNumber,
   view : [HostId -> ViewType]]

\* m_rooms has room r under its own number.
IsListed(w, r) == w.m_rooms[w.rooms[r].number] = r

\* The players who think they are in room r.
Members(w, r) == {h \in HostId : w.players[h].room = r}

\* Players are connected or closing, only those who logged on are in rooms, and no two
\* play as one user.
PlayersOk(w, C) ==
  /\ w.net.up \cup C = w.net.peers
  /\ \A h \in HostId : w.players[h].user # NoUser => h \in w.net.peers
  /\ \A h \in HostId : w.players[h].room # NoRoom => w.players[h].user # NoUser
  /\ \A h, o \in HostId :
       w.players[h].user # NoUser /\ w.players[h].user = w.players[o].user => h = o

\* Players and seats refer to each other, in all room objects there are.
SeatsOk(w) ==
  /\ \A h \in HostId : w.players[h].room # NoRoom =>
       w.rooms[w.players[h].room].slots[w.players[h].slot] = h
  /\ \A r \in Room, s \in Slot : w.rooms[r].slots[s] # Nobody =>
       w.players[w.rooms[r].slots[s]].room = r /\ w.players[w.rooms[r].slots[s]].slot = s

\* Rooms are listed under their numbers, the ones with players all are, and the ones
\* that are have players, except for those in E.
ListOk(w, E) ==
  /\ \A n \in RoomNumber : w.m_rooms[n] # NoRoom =>
       n # 0 /\ w.rooms[w.m_rooms[n]].number = n
  /\ \A h \in HostId : w.players[h].room # NoRoom => IsListed(w, w.players[h].room)
  /\ \A r \in Room \ E : IsListed(w, r) => Members(w, r) # {}

MastersOk(w, E) ==
  \A r \in Room \ E : IsListed(w, r) => w.rooms[r].slots[w.rooms[r].master_slot] # Nobody

\* Listed rooms and groups correspond one to one, with the same members.
GroupsOk(w) ==
  /\ \A r \in Room : IsListed(w, r) =>
       w.rooms[r].p2p_group \in w.net.groups /\ w.net.members[w.rooms[r].p2p_group] = Members(w, r)
  /\ \A r, q \in Room :
       IsListed(w, r) /\ IsListed(w, q) /\ w.rooms[r].p2p_group = w.rooms[q].p2p_group => r = q
  /\ \A g \in w.net.groups : \E r \in Room : IsListed(w, r) /\ w.rooms[r].p2p_group = g

Ok(w, E, C) ==
  /\ w \in WorldType
  /\ Sound(w.net, C)
  /\ PlayersOk(w, C)
  /\ SeatsOk(w)
  /\ ListOk(w, E)
  /\ MastersOk(w, E)
  /\ GroupsOk(w)

\* The inductive invariant.
IInv == Ok(World, {}, {})

-----------------------------------------------------------------------------
(* Types *)

\* The values that tables are reset to are of their types.
LEMMA NullTyped ==
  /\ FirstLook \in Look /\ FirstSetting \in Setting
  /\ 0 \in Slot /\ Slot \subseteq Nat
  /\ EmptySeats \in Seats
  /\ NoPlayer \in PlayerType
  /\ NullRoom \in RoomType
  /\ NoView \in ViewType
  /\ NoRoom \notin Room /\ Nobody \notin HostId
<1>1. FirstLook \in Look /\ FirstSetting \in Setting
  BY GameAssumption DEF FirstLook, FirstSetting
<1>2. 0 \in Slot /\ Slot \subseteq Nat
  BY GameAssumption DEF Slot
<1>3. EmptySeats \in Seats
  BY DEF EmptySeats, Seats
<1>4. NoPlayer \in PlayerType
  BY <1>1, <1>2 DEF NoPlayer, PlayerType
<1>5. 0 \in RoomNumber /\ room_slots \in 1 .. room_slots
  BY GameAssumption DEF RoomNumber
<1>6. NullRoom \in RoomType
  BY <1>1, <1>2, <1>3, <1>5 DEF NullRoom, RoomType
<1>7. NoLooks \in [Slot -> Look]
  BY <1>1 DEF NoLooks
<1>8. NoView \in ViewType
  BY <1>1, <1>2, <1>3, <1>7 DEF NoView, ViewType
<1>9. NoRoom \notin Room /\ Nobody \notin HostId
  BY HostIdAssumption DEF NoRoom, Room, Nobody, HostId
<1> QED
  BY <1>1, <1>2, <1>3, <1>4, <1>6, <1>8, <1>9

\* Well-typed states are well-typed worlds.
LEMMA WorldTyped == TypeOK <=> World \in WorldType
BY DEF TypeOK, World, WorldType

\* Sound tables are typed tables.
LEMMA SoundTyped ==
  ASSUME NEW n, NEW C, Sound(n, C)
  PROVE  n \in NetType /\ n.peers \subseteq HostId /\ n.up \subseteq n.peers
BY DEF Sound, AllocInv, NetType

\* The seat a player remembers is the one the room gave it.
LEMMA SeatOfPlayer ==
  ASSUME NEW w, SeatsOk(w), NEW h \in HostId, w.players[h].room # NoRoom
  PROVE  w.rooms[w.players[h].room].slots[w.players[h].slot] = h
BY Zenon DEF SeatsOk

\* Whoever is on a seat remembers that room and that seat.
LEMMA PlayerOfSeat ==
  ASSUME NEW w, SeatsOk(w), NEW r \in Room, NEW s \in Slot, NEW o, o # Nobody,
         w.rooms[r].slots[s] = o
  PROVE  w.players[o].room = r /\ w.players[o].slot = s
BY Zenon DEF SeatsOk

\* SeatsOk is about players and rooms only.
LEMMA SeatsFrame ==
  ASSUME NEW w, SeatsOk(w), NEW x, x.players = w.players, x.rooms = w.rooms
  PROVE  SeatsOk(x)
<1> DEFINE On(P, R) ==
      /\ \A h \in HostId : P[h].room # NoRoom => R[P[h].room].slots[P[h].slot] = h
      /\ \A r \in Room, s \in Slot : R[r].slots[s] # Nobody =>
           P[R[r].slots[s]].room = r /\ P[R[r].slots[s]].slot = s
<1>1. On(w.players, w.rooms)
  BY Zenon DEF SeatsOk
<1>2. On(x.players, x.rooms) => SeatsOk(x)
  BY Zenon DEF SeatsOk
<1> HIDE DEF On
<1>3. On(x.players, x.rooms)
  BY <1>1, Zenon
<1> QED
  BY <1>2, <1>3, Zenon

\* A player who sits nowhere, before and after, does not matter to the seats.
LEMMA SeatsOfOthers ==
  ASSUME NEW w \in WorldType, SeatsOk(w), NEW h \in HostId, w.players[h].room = NoRoom,
         NEW p, p.room = NoRoom, NEW x, x.rooms = w.rooms,
         \A k \in HostId : x.players[k] = IF k = h THEN p ELSE w.players[k]
  PROVE  SeatsOk(x)
<1>1. ASSUME NEW k \in HostId, x.players[k].room # NoRoom
      PROVE  x.rooms[x.players[k].room].slots[x.players[k].slot] = k
  <2>1. x.players[k] = w.players[k] /\ w.players[k].room # NoRoom
    BY <1>1
  <2>2. w.rooms[w.players[k].room].slots[w.players[k].slot] = k
    BY <2>1, SeatOfPlayer, Zenon
  <2> QED
    BY <2>1, <2>2, Zenon
<1>2. ASSUME NEW r \in Room, NEW s \in Slot, x.rooms[r].slots[s] # Nobody
      PROVE  x.players[x.rooms[r].slots[s]].room = r /\ x.players[x.rooms[r].slots[s]].slot = s
  <2>1. PICK o : w.rooms[r].slots[s] = o
    OBVIOUS
  <2>2. x.rooms[r].slots[s] = o /\ o # Nobody
    BY <1>2, <2>1, Zenon
  <2>3. w.players[o].room = r /\ w.players[o].slot = s
    BY <2>1, <2>2, PlayerOfSeat
  <2>4. o \in HostId
    <3>1. w.rooms[r] \in RoomType
      BY DEF WorldType
    <3> QED
      BY <2>1, <2>2, <3>1 DEF RoomType, Seats
  <2>5. o # h /\ x.players[o] = w.players[o]
    BY <2>3, <2>4, NullTyped
  <2> QED
    BY <2>2, <2>3, <2>5, Zenon
<1> QED
  BY <1>1, <1>2, Zenon DEF SeatsOk

-----------------------------------------------------------------------------
(* Leaving a room *)

\* The seats of the players S.
SeatsOf(w, S) == {w.players[h].slot : h \in S}

\* What does not change in a room as players come and go.
SameRoom(a, b) ==
  /\ a.number = b.number /\ a.channel = b.channel /\ a.max_players = b.max_players
  /\ a.password = b.password /\ a.closed = b.closed /\ a.p2p_group = b.p2p_group
  /\ a.playing = b.playing /\ a.setting = b.setting

\* x is w after the players S have left room r: players, seats, and
Vacated(w, x, r, S) ==
  /\ x \in WorldType /\ x.next = w.next
  /\ \A h \in HostId : x.players[h] =
       IF h \in S THEN [w.players[h] EXCEPT !.room = NoRoom, !.ready = FALSE] ELSE w.players[h]
  /\ \A q \in Room \ {r} : x.rooms[q] = w.rooms[q]
  /\ SameRoom(x.rooms[r], w.rooms[r])
  /\ \A s \in Slot : x.rooms[r].slots[s] =
       IF s \in SeatsOf(w, S) THEN Nobody ELSE w.rooms[r].slots[s]

Apart(w, r, S) == LeaveGroups(w.net, {w.rooms[r].p2p_group} \cap w.net.groups, S)

\* the tables, if nobody is left,
Emptied(w, x, r, S) ==
  /\ x.net = destroy_p2p_group(Apart(w, r, S), {w.rooms[r].p2p_group})
  /\ x.m_rooms = [w.m_rooms EXCEPT ![w.rooms[r].number] = NoRoom]
  /\ x.rooms[r].master_slot = w.rooms[r].master_slot
  /\ \A h \in HostId : x.view[h] = IF h \in S THEN NoView ELSE w.view[h]

\* What a client that stays is told.
StayTold(v, seats, master) ==
  [v EXCEPT !.slots = [s \in Slot |-> IF s \in seats THEN Nobody ELSE v.slots[s]],
            !.looks = [s \in Slot |-> IF s \in seats THEN FirstLook ELSE v.looks[s]],
            !.ready = v.ready \ seats, !.master = master]

\* or if somebody is.
Thinned(w, x, r, S) ==
  /\ x.net = Apart(w, r, S)
  /\ x.m_rooms = w.m_rooms
  /\ x.rooms[r].master_slot = new_master(w.rooms[r], SeatsOf(w, S))
  /\ \A h \in HostId : x.view[h] =
       LET v == IF h \in S THEN NoView ELSE w.view[h]
       IN  IF h \in Occupants(x.rooms[r]) \cap x.net.up
           THEN StayTold(v, SeatsOf(w, S), x.rooms[r].master_slot) ELSE v

\* remove_from_room, for one player or for several: what becomes of each table.
LEMMA VacateFields ==
  ASSUME NEW w \in WorldType, NEW C, Sound(w.net, C), NEW r \in Room, NEW S \in SUBSET HostId
  PROVE  /\ Vacated(w, Vacate(w, r, S), r, S)
         /\ IF Taken(w.rooms[r]) \subseteq SeatsOf(w, S)
            THEN Emptied(w, Vacate(w, r, S), r, S)
            ELSE Thinned(w, Vacate(w, r, S), r, S)
<1> DEFINE room == w.rooms[r]
           seats == SeatsOf(w, S)
           slots == [s \in Slot |-> IF s \in seats THEN Nobody ELSE room.slots[s]]
           left == [room EXCEPT !.slots = slots]
           master == new_master(room, seats)
           apart == Apart(w, r, S)
           P == [h \in HostId |->
                  IF h \in S THEN [w.players[h] EXCEPT !.room = NoRoom, !.ready = FALSE]
                  ELSE w.players[h]]
           V == [h \in HostId |-> IF h \in S THEN NoView ELSE w.view[h]]
           gone == [w EXCEPT !.players = P, !.view = V]
           x == Vacate(w, r, S)
<1>1. /\ room \in RoomType /\ w.rooms \in [Room -> RoomType]
      /\ w.players \in [HostId -> PlayerType] /\ w.view \in [HostId -> ViewType]
      /\ w.m_rooms \in [RoomNumber -> Room \cup {NoRoom}]
      /\ w.net \in NetType
  BY DEF WorldType
<1>2. seats \subseteq Slot
  BY <1>1 DEF SeatsOf, PlayerType
<1>3. slots \in Seats
  BY <1>1 DEF RoomType, Seats
<1>4. P \in [HostId -> PlayerType]
  BY <1>1, ZenonT(60) DEF PlayerType
<1>5. V \in [HostId -> ViewType]
  BY <1>1, NullTyped
<1>6. left \in RoomType /\ left.slots = slots /\ SameRoom(left, room)
      /\ left.master_slot = room.master_slot
  BY <1>1, <1>3 DEF RoomType, SameRoom
<1>7. apart \in NetType
  BY LeaveGroupsSound, SoundTyped DEF Apart
<1>8. destroy_p2p_group(apart, {room.p2p_group}) \in NetType
  <2>1. PICK G : G = {room.p2p_group}
    OBVIOUS
  <2>2. Sound(apart, C)
    BY LeaveGroupsSound DEF Apart
  <2>3. Sound(destroy_p2p_group(apart, G), C)
    BY <2>2, DestroyGroupSound
  <2> QED
    BY <2>1, <2>3, SoundTyped
<1>9. room.number \in RoomNumber
  BY <1>1 DEF RoomType
<1>10. Taken(left) = Taken(room) \ seats
  <2> HIDE DEF left, room
  <2> QED
    BY <1>6 DEF Taken
<1> HIDE DEF room, slots, left, P, V, apart, master, seats
<1>11. /\ gone \in WorldType /\ gone.players = P /\ gone.view = V /\ gone.net = w.net
       /\ gone.rooms = w.rooms /\ gone.m_rooms = w.m_rooms /\ gone.next = w.next
  BY <1>4, <1>5 DEF WorldType
<1>12. P = gone.players /\ \A h \in HostId : P[h] =
         IF h \in S THEN [w.players[h] EXCEPT !.room = NoRoom, !.ready = FALSE] ELSE w.players[h]
  BY <1>11 DEF P
<1>13. \A h \in HostId : V[h] = IF h \in S THEN NoView ELSE w.view[h]
  BY DEF V
<1>14. \A s \in Slot : slots[s] = IF s \in seats THEN Nobody ELSE room.slots[s]
  BY DEF slots
<1>15. CASE Taken(left) = {}
  <2>1. x = [gone EXCEPT !.rooms[r] = left,
                         !.net = destroy_p2p_group(apart, {room.p2p_group}),
                         !.m_rooms[room.number] = NoRoom]
    BY <1>15 DEF Vacate, room, left, slots, seats, SeatsOf, P, V, apart, Apart
  <2> HIDE DEF gone
  <2>2. PICK D \in NetType : D = destroy_p2p_group(apart, {room.p2p_group})
    BY <1>8
  <2>3. x = [gone EXCEPT !.rooms[r] = left, !.net = D, !.m_rooms[room.number] = NoRoom]
    BY <2>1, <2>2
  <2> HIDE DEF x
  <2>4. /\ x \in WorldType /\ x.players = P /\ x.view = V /\ x.net = D /\ x.next = w.next
        /\ x.rooms = [w.rooms EXCEPT ![r] = left]
        /\ x.m_rooms = [w.m_rooms EXCEPT ![room.number] = NoRoom]
    BY <2>3, <1>6, <1>9, <1>11 DEF WorldType
  <2>5. x.rooms[r] = left /\ \A q \in Room \ {r} : x.rooms[q] = w.rooms[q]
    BY <2>4, <1>1
  <2>6. Vacated(w, x, r, S)
    BY <1>6, <1>12, <1>14, <2>4, <2>5 DEF Vacated, room, seats
  <2>7. Emptied(w, x, r, S)
    BY <1>6, <1>13, <2>2, <2>4, <2>5 DEF Emptied, room, apart
  <2> QED
    BY <1>10, <1>15, <2>6, <2>7 DEF x, room, seats
<1>16. CASE Taken(left) # {}
  <2>1. master \in Slot
    <3>1. Taken(room) \ seats \subseteq Slot /\ Taken(room) \ seats # {}
      BY <1>10, <1>16 DEF Taken
    <3>2. PICK T : T = Taken(room) \ seats
      OBVIOUS
    <3>3. Min(T) \in T
      BY <3>1, <3>2, NullTyped, MinInSet
    <3> QED
      BY <1>1, <3>1, <3>2, <3>3 DEF master, new_master, RoomType, room
  <2> DEFINE kept == [left EXCEPT !.master_slot = master]
             y == [gone EXCEPT !.rooms[r] = kept, !.net = apart]
             Z == [h \in HostId |->
                     IF h \in Occupants(y.rooms[r]) \cap y.net.up
                     THEN StayTold(y.view[h], seats, master) ELSE y.view[h]]
  <2>2. x = [y EXCEPT !.view = Z]
    BY <1>16 DEF Vacate, send_room, StayTold, room, left, slots, seats, SeatsOf, P, V, apart, Apart, master
  <2>3. /\ kept \in RoomType /\ SameRoom(kept, left) /\ kept.slots = left.slots
        /\ kept.master_slot = master
    BY <1>6, <2>1 DEF RoomType, SameRoom
  <2> HIDE DEF gone, kept
  <2>4. /\ y \in WorldType /\ y.players = P /\ y.view = V /\ y.net = apart /\ y.next = w.next
        /\ y.rooms = [w.rooms EXCEPT ![r] = kept] /\ y.m_rooms = w.m_rooms
    BY <1>7, <1>11, <2>3 DEF WorldType
  <2> HIDE DEF y
  <2>5. y.rooms[r] = kept /\ \A q \in Room \ {r} : y.rooms[q] = w.rooms[q]
    BY <2>4, <1>1
  <2>6. Z \in [HostId -> ViewType]
    <3>1. ASSUME NEW v \in ViewType PROVE StayTold(v, seats, master) \in ViewType
      BY <2>1, NullTyped DEF StayTold, ViewType, Seats
    <3>2. \A h \in HostId : y.view[h] \in ViewType
      BY <1>5, <2>4
    <3> QED
      BY <3>1, <3>2
  <2>7. \A h \in HostId : Z[h] = IF h \in Occupants(kept) \cap apart.up
                                 THEN StayTold(V[h], seats, master) ELSE V[h]
    BY <2>4, <2>5
  <2> HIDE DEF Z, x
  <2>8. /\ x \in WorldType /\ x.players = P /\ x.view = Z /\ x.net = apart /\ x.next = w.next
        /\ x.rooms = y.rooms /\ x.m_rooms = w.m_rooms
    BY <2>2, <2>4, <2>6 DEF WorldType
  <2>9. SameRoom(x.rooms[r], room) /\ x.rooms[r].slots = slots /\ x.rooms[r].master_slot = master
    BY <1>6, <2>3, <2>5, <2>8 DEF SameRoom
  <2>10. Vacated(w, x, r, S)
    BY <1>12, <1>14, <2>5, <2>8, <2>9 DEF Vacated, room, seats
  <2>11. Thinned(w, x, r, S)
    BY <1>13, <2>5, <2>7, <2>8, <2>9 DEF Thinned, room, seats, apart, master
  <2> QED
    BY <1>10, <1>16, <2>10, <2>11 DEF x, room, seats
<1> QED
  BY <1>15, <1>16

\* A set of naturals that is not empty has a least element.
LEMMA HasLeast ==
  ASSUME NEW S, S \subseteq Nat, S # {}
  PROVE  \E m \in S : \A k \in S : ~ (k < m)
<1> DEFINE R == {ss \in Nat \X Nat : ss[1] < ss[2]}
<1>1. IsWellFoundedOn(R, Nat)
  BY NatLessThanWellFounded, Zenon DEF OpToRel
<1>2. PICK x \in S : \A y \in S : ~ (<<y, x>> \in R)
  BY <1>1, WFMin
<1> QED
  BY <1>2

\* The players of a listed room are those on its seats.
LEMMA OccupantsAreMembers ==
  ASSUME NEW w \in WorldType, SeatsOk(w), NEW r \in Room
  PROVE  Occupants(w.rooms[r]) = Members(w, r)
<1>1. ASSUME NEW h \in Occupants(w.rooms[r]) PROVE h \in Members(w, r)
  <2>1. PICK s \in Slot : w.rooms[r].slots[s] = h /\ h # Nobody
    BY DEF Occupants
  <2>2. h \in HostId
    BY <2>1 DEF WorldType, RoomType, Seats
  <2> QED
    BY <2>1, <2>2 DEF SeatsOk, Members
<1>2. ASSUME NEW h \in Members(w, r) PROVE h \in Occupants(w.rooms[r])
  <2>1. h \in HostId /\ w.players[h].room = r
    BY DEF Members
  <2>2. w.players[h].slot \in Slot
    BY <2>1 DEF WorldType, PlayerType
  <2>3. w.rooms[r].slots[w.players[h].slot] = h
    BY <2>1, NullTyped DEF SeatsOk
  <2> QED
    BY <2>1, <2>2, <2>3, NullTyped DEF Occupants
<1> QED
  BY <1>1, <1>2

\* leave_p2p_group, for one player or for several.
LEMMA ApartIs ==
  ASSUME NEW w, NEW C, Sound(w.net, C), NEW r, NEW S, w.rooms[r].p2p_group \in w.net.groups
  PROVE  /\ Sound(Apart(w, r, S), C)
         /\ Apart(w, r, S).peers = w.net.peers /\ Apart(w, r, S).up = w.net.up
         /\ Apart(w, r, S).groups = w.net.groups
         /\ \A k \in HostId : Apart(w, r, S).members[k] =
              IF k = w.rooms[r].p2p_group THEN w.net.members[k] \ S ELSE w.net.members[k]
<1>1. PICK n : n = w.net
  OBVIOUS
<1>2. PICK G : G = {w.rooms[r].p2p_group}
  OBVIOUS
<1>3. Apart(w, r, S) = LeaveGroups(n, G, S)
  <2>1. {w.rooms[r].p2p_group} \cap w.net.groups = G
    BY <1>2
  <2> QED
    BY <1>1, <2>1 DEF Apart
<1>4. Sound(n, C)
  BY <1>1
<1>5. /\ Sound(LeaveGroups(n, G, S), C)
      /\ LeaveGroups(n, G, S).peers = n.peers
      /\ LeaveGroups(n, G, S).up = n.up
      /\ LeaveGroups(n, G, S).groups = n.groups
      /\ \A g \in HostId : LeaveGroups(n, G, S).members[g] =
                           IF g \in G THEN n.members[g] \ S ELSE n.members[g]
  BY <1>4, LeaveGroupsSound, SMTT(30)
<1> QED
  BY <1>1, <1>2, <1>3, <1>5

\* Players leave a room: seats, list, master and group keep in step, whoever leaves and
\* whether or not somebody stays.
LEMMA VacateOk ==
  ASSUME NEW w, NEW C, Ok(w, {}, C), NEW r \in Room, NEW S \in SUBSET Members(w, r), S # {}
  PROVE  /\ Ok(Vacate(w, r, S), {}, C)
         /\ Vacate(w, r, S).net.up = w.net.up
         /\ Vacate(w, r, S).net.peers = w.net.peers
<1> DEFINE x == Vacate(w, r, S)
           g == w.rooms[r].p2p_group
           seats == SeatsOf(w, S)
<1>1. w \in WorldType /\ Sound(w.net, C) /\ S \in SUBSET HostId
  BY DEF Ok, Members
<1>2. Vacated(w, x, r, S)
  BY <1>1, VacateFields
<1>3. IF Taken(w.rooms[r]) \subseteq seats THEN Emptied(w, x, r, S) ELSE Thinned(w, x, r, S)
  BY <1>1, VacateFields
<1> HIDE DEF x
<1>4. x \in WorldType
  BY <1>2 DEF Vacated
<1>5. ASSUME NEW h \in HostId
      PROVE  /\ x.players[h].user = w.players[h].user
             /\ x.players[h].slot = w.players[h].slot
             /\ x.players[h].room = IF h \in S THEN NoRoom ELSE w.players[h].room
             /\ w.players[h].slot \in Slot
  BY <1>1, <1>2, ZenonT(60) DEF Vacated, WorldType, PlayerType
<1>6. ASSUME NEW q \in Room
      PROVE  /\ x.rooms[q].number = w.rooms[q].number
             /\ x.rooms[q].p2p_group = w.rooms[q].p2p_group
             /\ q # r => x.rooms[q].master_slot = w.rooms[q].master_slot
             /\ \A s \in Slot : x.rooms[q].slots[s] =
                  IF q = r /\ s \in seats THEN Nobody ELSE w.rooms[q].slots[s]
             /\ w.rooms[q].number \in RoomNumber
             /\ w.rooms[q].master_slot \in Slot
             /\ \A s \in Slot : w.rooms[q].slots[s] \in HostId \cup {Nobody}
  <2>1. w.rooms[q] \in RoomType
    BY <1>1 DEF WorldType
  <2>2. /\ w.rooms[q].number \in RoomNumber /\ w.rooms[q].master_slot \in Slot
        /\ \A s \in Slot : w.rooms[q].slots[s] \in HostId \cup {Nobody}
    BY <2>1 DEF RoomType, Seats
  <2>3. CASE q = r
    BY <1>2, <2>2, <2>3 DEF Vacated, SameRoom
  <2>4. CASE q # r
    BY <1>2, <2>2, <2>4 DEF Vacated
  <2> QED
    BY <2>3, <2>4
<1>7. \A s \in Slot : s \in seats <=> \E h \in S : w.players[h].slot = s
  BY DEF SeatsOf
<1>8. \A h \in S : h \in HostId /\ w.players[h].room = r /\ w.rooms[r].slots[w.players[h].slot] = h
  <2> SUFFICES ASSUME NEW h \in S
               PROVE  h \in HostId /\ w.players[h].room = r /\ w.rooms[r].slots[w.players[h].slot] = h
    OBVIOUS
  <2>1. h \in HostId /\ w.players[h].room = r
    BY DEF Members
  <2>2. w.players[h].room # NoRoom
    BY <2>1, NullTyped
  <2>3. SeatsOk(w)
    BY DEF Ok
  <2>4. w.rooms[w.players[h].room].slots[w.players[h].slot] = h
    BY <2>1, <2>2, <2>3, SeatOfPlayer, Zenon
  <2> QED
    BY <2>1, <2>4
<1>9. IsListed(w, r)
  BY <1>8, NullTyped DEF Ok, ListOk
<1>10. \A q \in Room : Members(x, q) = Members(w, q) \ S
  BY <1>5, NullTyped DEF Members
<1>11. Taken(w.rooms[r]) \subseteq seats <=> Members(w, r) \subseteq S
  <2>1. ASSUME Taken(w.rooms[r]) \subseteq seats, NEW h \in Members(w, r) PROVE h \in S
    <3>1. h \in HostId /\ w.players[h].slot \in Slot /\ w.rooms[r].slots[w.players[h].slot] = h
      BY <1>5, NullTyped, ZenonT(60) DEF Members, Ok, SeatsOk
    <3>2. w.players[h].slot \in seats
      BY <2>1, <3>1, NullTyped DEF Taken
    <3> QED
      BY <1>7, <1>8, <3>1, <3>2
  <2>2. ASSUME Members(w, r) \subseteq S, NEW s \in Taken(w.rooms[r]) PROVE s \in seats
    <3>1. s \in Slot /\ w.rooms[r].slots[s] # Nobody
      BY DEF Taken
    <3>2. w.rooms[r].slots[s] \in Members(w, r) /\ w.players[w.rooms[r].slots[s]].slot = s
      BY <1>6, <3>1, ZenonT(60) DEF Members, Ok, SeatsOk
    <3> QED
      BY <1>7, <2>2, <3>1, <3>2
  <2> QED
    BY <2>1, <2>2
<1>12. g \in w.net.groups /\ w.net.members[g] = Members(w, r)
  BY <1>9 DEF Ok, GroupsOk
<1>n. PICK G : G = {g}
  OBVIOUS
<1>13. /\ Sound(Apart(w, r, S), C)
       /\ Apart(w, r, S).peers = w.net.peers /\ Apart(w, r, S).up = w.net.up
       /\ Apart(w, r, S).groups = w.net.groups
       /\ \A k \in HostId : Apart(w, r, S).members[k] =
            IF k = g THEN w.net.members[k] \ S ELSE w.net.members[k]
  BY <1>1, <1>12, ApartIs
<1>14. w.net.groups \subseteq HostId
  BY <1>1 DEF WorldType, NetType
<1>15. SeatsOk(x)
  <2>1. ASSUME NEW h \in HostId, x.players[h].room # NoRoom
        PROVE  x.rooms[x.players[h].room].slots[x.players[h].slot] = h
    <3>1. h \notin S /\ w.players[h].room # NoRoom
      BY <1>5, <2>1
    <3>2. w.players[h].room \in Room /\ w.rooms[w.players[h].room].slots[w.players[h].slot] = h
      <4>1. w.players[h].room \in Room
        BY <1>1, <3>1 DEF WorldType, PlayerType
      <4> QED
        BY <3>1, <4>1, SeatOfPlayer, Zenon DEF Ok
    <3>3. ~ (w.players[h].room = r /\ w.players[h].slot \in seats)
      BY <1>5, <1>7, <1>8, <3>1, <3>2
    <3>4. PICK q \in Room, s \in Slot : q = w.players[h].room /\ s = w.players[h].slot
      BY <1>5, <3>2
    <3>5. x.rooms[q].slots[s] = h
      BY <1>6, <3>2, <3>3, <3>4
    <3> QED
      BY <1>5, <3>1, <3>4, <3>5
  <2>2. ASSUME NEW q \in Room, NEW s \in Slot, x.rooms[q].slots[s] # Nobody
        PROVE  x.players[x.rooms[q].slots[s]].room = q /\ x.players[x.rooms[q].slots[s]].slot = s
    <3>1. x.rooms[q].slots[s] = w.rooms[q].slots[s] /\ ~ (q = r /\ s \in seats)
      BY <1>6, <2>2
    <3>2. PICK h \in HostId : h = w.rooms[q].slots[s]
      BY <1>6, <2>2, <3>1
    <3>3. w.players[h].room = q /\ w.players[h].slot = s
      BY <2>2, <3>1, <3>2 DEF Ok, SeatsOk
    <3>4. h \notin S
      BY <1>7, <1>8, <3>1, <3>3
    <3> QED
      BY <1>5, <3>1, <3>2, <3>3, <3>4
  <2> QED
    BY <2>1, <2>2 DEF SeatsOk
<1>16. ASSUME x.net.peers = w.net.peers, x.net.up = w.net.up
       PROVE  PlayersOk(x, C)
  BY <1>5, <1>16 DEF Ok, PlayersOk
<1>17. CASE Members(w, r) \subseteq S
  <2>1. Emptied(w, x, r, S)
    BY <1>3, <1>11, <1>17
  <2>2. PICK n : n = Apart(w, r, S)
    OBVIOUS
  <2>3. /\ Sound(destroy_p2p_group(n, G), C)
        /\ destroy_p2p_group(n, G).peers = n.peers
        /\ destroy_p2p_group(n, G).up = n.up
        /\ destroy_p2p_group(n, G).groups = n.groups \ G
        /\ \A k \in HostId : destroy_p2p_group(n, G).members[k] = IF k \in G THEN {} ELSE n.members[k]
    BY <1>13, <2>2, DestroyGroupSound
  <2>4. x.net = destroy_p2p_group(n, G)
    BY <1>n, <2>1, <2>2 DEF Emptied
  <2>5. /\ Sound(x.net, C) /\ x.net.peers = w.net.peers /\ x.net.up = w.net.up
        /\ x.net.groups = w.net.groups \ {g}
        /\ \A k \in HostId \ {g} : x.net.members[k] = w.net.members[k]
    BY <1>13, <1>n, <2>2, <2>3, <2>4, ZenonT(60)
  <2>6. \A k \in RoomNumber : x.m_rooms[k] = IF k = w.rooms[r].number THEN NoRoom ELSE w.m_rooms[k]
    BY <1>1, <2>1 DEF Emptied, WorldType
  <2>7. \A q \in Room : IsListed(x, q) <=> IsListed(w, q) /\ q # r
    BY <1>6, <1>9, <2>6, NullTyped DEF IsListed
  <2>8. Members(w, r) = S /\ \A q \in Room \ {r} : Members(x, q) = Members(w, q)
    BY <1>8, <1>10, <1>17 DEF Members
  <2>9. ListOk(x, {})
    <3>1. ASSUME NEW k \in RoomNumber, x.m_rooms[k] # NoRoom
          PROVE  k # 0 /\ x.rooms[x.m_rooms[k]].number = k
      <4>1. x.m_rooms[k] = w.m_rooms[k] /\ w.m_rooms[k] \in Room
        BY <1>1, <2>6, <3>1 DEF WorldType
      <4> QED
        BY <1>6, <3>1, <4>1 DEF Ok, ListOk
    <3>2. ASSUME NEW h \in HostId, x.players[h].room # NoRoom
          PROVE  IsListed(x, x.players[h].room)
      <4>1. h \notin S /\ x.players[h].room = w.players[h].room /\ w.players[h].room \in Room
        BY <1>1, <1>5, <3>2 DEF WorldType, PlayerType
      <4>2. w.players[h].room # r
        BY <1>17, <4>1 DEF Members
      <4> QED
        BY <2>7, <3>2, <4>1, <4>2 DEF Ok, ListOk
    <3>3. \A q \in Room : IsListed(x, q) => Members(x, q) # {}
      BY <2>7, <2>8 DEF Ok, ListOk
    <3> QED
      BY <3>1, <3>2, <3>3 DEF ListOk
  <2>10. MastersOk(x, {})
    BY <1>6, <2>7 DEF Ok, MastersOk
  <2>11. GroupsOk(x)
    <3>1. ASSUME NEW q \in Room, IsListed(x, q)
          PROVE  x.rooms[q].p2p_group \in x.net.groups /\ x.net.members[x.rooms[q].p2p_group] = Members(x, q)
      <4>1. q # r /\ IsListed(w, q) /\ x.rooms[q].p2p_group = w.rooms[q].p2p_group
        BY <1>6, <2>7, <3>1
      <4>2. w.rooms[q].p2p_group # g
        BY <1>9, <4>1 DEF Ok, GroupsOk
      <4> QED
        BY <1>14, <2>5, <2>8, <4>1, <4>2 DEF Ok, GroupsOk
    <3>2. ASSUME NEW k \in x.net.groups PROVE \E q \in Room : IsListed(x, q) /\ x.rooms[q].p2p_group = k
      <4>1. k \in w.net.groups /\ k # g
        BY <2>5
      <4>2. PICK q \in Room : IsListed(w, q) /\ w.rooms[q].p2p_group = k
        BY <4>1 DEF Ok, GroupsOk
      <4> QED
        BY <1>6, <2>7, <4>1, <4>2
    <3> QED
      BY <1>6, <2>7, <3>1, <3>2 DEF Ok, GroupsOk
  <2> QED
    BY <1>4, <1>15, <1>16, <2>5, <2>9, <2>10, <2>11 DEF Ok, x
<1>18. CASE ~ (Members(w, r) \subseteq S)
  <2>1. Thinned(w, x, r, S)
    BY <1>3, <1>11, <1>18
  <2>2. /\ x.net = Apart(w, r, S) /\ x.m_rooms = w.m_rooms
        /\ x.rooms[r].master_slot = new_master(w.rooms[r], seats)
    BY <2>1 DEF Thinned
  <2>3. \A q \in Room : IsListed(x, q) <=> IsListed(w, q)
    BY <1>6, <2>2 DEF IsListed
  <2>4. ListOk(x, {})
    <3>1. ASSUME NEW k \in RoomNumber, x.m_rooms[k] # NoRoom
          PROVE  k # 0 /\ x.rooms[x.m_rooms[k]].number = k
      <4>1. x.m_rooms[k] = w.m_rooms[k] /\ w.m_rooms[k] \in Room
        BY <1>1, <2>2, <3>1 DEF WorldType
      <4> QED
        BY <1>6, <3>1, <4>1 DEF Ok, ListOk
    <3>2. ASSUME NEW h \in HostId, x.players[h].room # NoRoom
          PROVE  IsListed(x, x.players[h].room)
      <4>1. x.players[h].room = w.players[h].room /\ w.players[h].room \in Room
        BY <1>1, <1>5, <3>2 DEF WorldType, PlayerType
      <4> QED
        BY <2>3, <3>2, <4>1 DEF Ok, ListOk
    <3>3. ASSUME NEW q \in Room, IsListed(x, q) PROVE Members(x, q) # {}
      <4>1. CASE q = r
        BY <1>10, <1>18, <4>1
      <4>2. CASE q # r
        <5>1. Members(w, q) \cap S = {}
          BY <1>8, <4>2 DEF Members
        <5> QED
          BY <1>10, <2>3, <3>3, <5>1 DEF Ok, ListOk
      <4> QED
        BY <4>1, <4>2
    <3> QED
      BY <3>1, <3>2, <3>3 DEF ListOk
  <2>5. x.rooms[r].slots[x.rooms[r].master_slot] # Nobody
    <3>1. PICK T : T = Taken(w.rooms[r]) \ seats
      OBVIOUS
    <3>2. T # {} /\ T \subseteq Slot
      BY <1>11, <1>18, <3>1 DEF Taken
    <3>3. Min(T) \in T
      BY <3>2, NullTyped, MinInSet
    <3>4. CASE w.rooms[r].master_slot \in seats
      <4>1. x.rooms[r].master_slot \in T
        BY <2>2, <3>1, <3>3, <3>4 DEF new_master
      <4> QED
        BY <1>6, <3>1, <3>2, <4>1 DEF Taken
    <3>5. CASE w.rooms[r].master_slot \notin seats
      <4>1. x.rooms[r].master_slot = w.rooms[r].master_slot
        BY <2>2, <3>5 DEF new_master
      <4> QED
        BY <1>6, <1>9, <3>5, <4>1 DEF Ok, MastersOk
    <3> QED
      BY <3>4, <3>5
  <2>6. MastersOk(x, {})
    BY <1>6, <2>3, <2>5 DEF Ok, MastersOk
  <2>7. GroupsOk(x)
    <3>1. ASSUME NEW q \in Room, IsListed(x, q)
          PROVE  x.rooms[q].p2p_group \in x.net.groups /\ x.net.members[x.rooms[q].p2p_group] = Members(x, q)
      <4>1. IsListed(w, q) /\ x.rooms[q].p2p_group = w.rooms[q].p2p_group
        BY <1>6, <2>3, <3>1
      <4>2. w.rooms[q].p2p_group \in w.net.groups /\ w.net.members[w.rooms[q].p2p_group] = Members(w, q)
        BY <4>1 DEF Ok, GroupsOk
      <4>3. CASE q = r
        BY <1>10, <1>13, <1>14, <2>2, <4>1, <4>2, <4>3
      <4>4. CASE q # r
        <5>1. w.rooms[q].p2p_group # g
          BY <1>9, <4>1, <4>4 DEF Ok, GroupsOk
        <5>2. Members(w, q) \cap S = {}
          BY <1>8, <4>4 DEF Members
        <5> QED
          BY <1>10, <1>13, <1>14, <2>2, <4>1, <4>2, <5>1, <5>2
      <4> QED
        BY <4>3, <4>4
    <3>2. x.net.groups = w.net.groups
      BY <1>13, <2>2
    <3> QED
      BY <1>6, <2>3, <3>1, <3>2 DEF Ok, GroupsOk
  <2> QED
    BY <1>4, <1>13, <1>15, <1>16, <2>2, <2>4, <2>6, <2>7 DEF Ok, x
<1> QED
  BY <1>17, <1>18

\* x is w after player h has left the room it was in, if any.
Removed(w, x, h) ==
  /\ x.next = w.next
  /\ \A k \in HostId :
       /\ x.players[k].user = w.players[k].user /\ x.players[k].channel = w.players[k].channel
       /\ x.players[k].slot = w.players[k].slot /\ x.players[k].look = w.players[k].look
       /\ x.players[k].room = IF k = h THEN NoRoom ELSE w.players[k].room
  /\ \A q \in Room :
       /\ SameRoom(x.rooms[q], w.rooms[q])
       /\ Taken(x.rooms[q]) \subseteq Taken(w.rooms[q])
       /\ IsListed(w, q) /\ Members(w, q) # {h} => IsListed(x, q)
  /\ \A n \in RoomNumber : x.m_rooms[n] # NoRoom => x.m_rooms[n] = w.m_rooms[n]
  /\ x.net.up = w.net.up /\ x.net.peers = w.net.peers

\* remove_from_room keeps the invariant, whoever is removed.
LEMMA RemoveOk ==
  ASSUME NEW w, NEW C, Ok(w, {}, C), NEW h \in HostId
  PROVE  Ok(remove_from_room(w, h), {}, C) /\ Removed(w, remove_from_room(w, h), h)
<1>1. w \in WorldType /\ Sound(w.net, C)
  BY DEF Ok
<1>2. w.players[h].room \in Room \cup {NoRoom}
  BY <1>1 DEF WorldType, PlayerType
<1>3. CASE w.players[h].room = NoRoom
  <2>1. remove_from_room(w, h) = w
    BY <1>3 DEF remove_from_room
  <2>2. Removed(w, w, h)
    BY <1>3 DEF Removed, SameRoom
  <2> QED
    BY <2>1, <2>2
<1>4. CASE w.players[h].room # NoRoom
  <2>1. PICK r \in Room : r = w.players[h].room
    BY <1>2, <1>4
  <2>2. PICK S : S = {h}
    OBVIOUS
  <2> DEFINE x == Vacate(w, r, S)
  <2>3. S \in SUBSET Members(w, r) /\ S # {} /\ S \in SUBSET HostId
    BY <2>1, <2>2 DEF Members
  <2>4. remove_from_room(w, h) = x
    BY <1>4, <2>1, <2>2 DEF remove_from_room
  <2>5. Ok(x, {}, C) /\ x.net.up = w.net.up /\ x.net.peers = w.net.peers
    BY <2>3, VacateOk
  <2>6. Vacated(w, x, r, S)
    BY <1>1, <2>3, VacateFields
  <2>7. IF Taken(w.rooms[r]) \subseteq SeatsOf(w, S) THEN Emptied(w, x, r, S) ELSE Thinned(w, x, r, S)
    BY <1>1, <2>3, VacateFields
  <2> HIDE DEF x
  <2>8. ASSUME NEW k \in HostId
        PROVE  /\ x.players[k].user = w.players[k].user /\ x.players[k].channel = w.players[k].channel
               /\ x.players[k].slot = w.players[k].slot /\ x.players[k].look = w.players[k].look
               /\ x.players[k].room = IF k = h THEN NoRoom ELSE w.players[k].room
    BY <1>1, <2>2, <2>6, ZenonT(60) DEF Vacated, WorldType, PlayerType
  <2>9. ASSUME NEW q \in Room
        PROVE  SameRoom(x.rooms[q], w.rooms[q]) /\ Taken(x.rooms[q]) \subseteq Taken(w.rooms[q])
    <3>1. CASE q = r
      BY <2>6, <3>1 DEF Vacated, Taken
    <3>2. CASE q # r
      BY <2>6, <3>2 DEF Vacated, SameRoom
    <3> QED
      BY <3>1, <3>2
  <2>10. w.rooms[r].number \in RoomNumber /\ \A q \in Room : w.rooms[q].number \in RoomNumber
    BY <1>1 DEF WorldType, RoomType
  <2>11. \A n \in RoomNumber : /\ x.m_rooms[n] # NoRoom => x.m_rooms[n] = w.m_rooms[n]
                               /\ n # w.rooms[r].number => x.m_rooms[n] = w.m_rooms[n]
    BY <1>1, <2>7, <2>10 DEF Emptied, Thinned, WorldType
  <2>12. ASSUME NEW q \in Room, IsListed(w, q), Members(w, q) # {h}
         PROVE  IsListed(x, q)
    <3>1. CASE q = r
      <4>1. PICK k \in Members(w, r) : k # h
        BY <2>3, <2>2, <2>12, <3>1
      <4>2. k \in HostId /\ x.players[k].room = r /\ r # NoRoom
        BY <2>8, <4>1, NullTyped DEF Members
      <4> QED
        BY <2>5, <3>1, <4>2 DEF Ok, ListOk
    <3>2. CASE q # r
      <4>1. IsListed(w, r)
        BY <1>4, <2>1 DEF Ok, ListOk
      <4>2. w.rooms[q].number # w.rooms[r].number
        BY <2>12, <3>2, <4>1 DEF IsListed
      <4> QED
        BY <2>9, <2>10, <2>11, <2>12, <4>2 DEF IsListed, SameRoom
    <3> QED
      BY <3>1, <3>2
  <2>13. x.next = w.next
    BY <2>6 DEF Vacated
  <2>14. Removed(w, x, h)
    BY <2>5, <2>8, <2>9, <2>11, <2>12, <2>13 DEF Removed
  <2> QED
    BY <2>4, <2>5, <2>14
<1> QED
  BY <1>3, <1>4

-----------------------------------------------------------------------------
(* Taking a seat *)

\* x is w after player h took a seat in room r, field by field.
SeatTaken(w, x, h, r, slot) ==
  /\ x \in WorldType /\ x.next = w.next /\ x.m_rooms = w.m_rooms
  /\ \A k \in HostId : x.players[k] =
       IF k = h THEN [w.players[k] EXCEPT !.room = r, !.slot = slot, !.ready = FALSE]
       ELSE w.players[k]
  /\ \A q \in Room \ {r} : x.rooms[q] = w.rooms[q]
  /\ SameRoom(x.rooms[r], w.rooms[r]) /\ x.rooms[r].master_slot = w.rooms[r].master_slot
  /\ \A s \in Slot : x.rooms[r].slots[s] = IF s = slot THEN h ELSE w.rooms[r].slots[s]
  /\ x.net = join_p2p_group(w.net, w.rooms[r].p2p_group, h)

\* What the clients are told.
SeatTold(w, x, h, r, slot) ==
  \A k \in HostId : x.view[k] =
    IF k = h THEN Snapshot(x, x.rooms[r])
    ELSE IF k \in Occupants(x.rooms[r]) \cap w.net.up
         THEN Hello(w.view[k], slot, h, w.players[h].look) ELSE w.view[k]

\* The description of a room is a view.
LEMMA SnapshotTyped ==
  ASSUME NEW w \in WorldType, NEW room \in RoomType
  PROVE  Snapshot(w, room) \in ViewType
<1>1. room.slots \in Seats /\ room.closed \in SUBSET Slot /\ room.master_slot \in Slot
      /\ room.setting \in Setting
  BY DEF RoomType
<1>2. ReadySlots(w, room) \in SUBSET Slot
  BY DEF ReadySlots, Taken
<1>3. Looks(w, room) \in [Slot -> Look]
  <2>1. \A s \in Slot : room.slots[s] # Nobody => w.players[room.slots[s]].look \in Look
    BY <1>1 DEF Seats, WorldType, PlayerType
  <2> QED
    BY <2>1, NullTyped DEF Looks
<1> QED
  BY <1>1, <1>2, <1>3 DEF Snapshot, ViewType

\* Enter_Room and Create_Room seat a player: what becomes of each table.
LEMMA SeatFields ==
  ASSUME NEW w \in WorldType, Sound(w.net, {}), NEW h \in w.net.up, NEW r \in Room,
         NEW slot \in Slot, w.rooms[r].p2p_group \in HostId
  PROVE  /\ SeatTaken(w, Seat(w, h, r, slot), h, r, slot)
         /\ SeatTold(w, Seat(w, h, r, slot), h, r, slot)
<1> DEFINE room == [w.rooms[r] EXCEPT !.slots[slot] = h]
           p == [w.players[h] EXCEPT !.room = r, !.slot = slot, !.ready = FALSE]
           sat == [w EXCEPT !.rooms[r] = room, !.players[h] = p]
           look == w.players[h].look
           T == [k \in HostId |->
                   IF k \in Occupants(sat.rooms[r]) \cap sat.net.up
                   THEN Hello(sat.view[k], slot, h, look) ELSE sat.view[k]]
           aired == [sat EXCEPT !.view = T]
           told == [aired EXCEPT !.view[h] = Snapshot(sat, room)]
           n == join_p2p_group(w.net, room.p2p_group, h)
           x == Seat(w, h, r, slot)
<1>0. h \in HostId
  BY SoundTyped
<1>1. /\ w.rooms[r] \in RoomType /\ w.rooms \in [Room -> RoomType]
      /\ w.players \in [HostId -> PlayerType] /\ w.view \in [HostId -> ViewType]
  BY DEF WorldType
<1>2. /\ room \in RoomType /\ SameRoom(room, w.rooms[r])
      /\ room.master_slot = w.rooms[r].master_slot
      /\ \A s \in Slot : room.slots[s] = IF s = slot THEN h ELSE w.rooms[r].slots[s]
  BY <1>0, <1>1 DEF RoomType, Seats, SameRoom
<1>3. p \in PlayerType /\ look \in Look
  BY <1>0, <1>1, ZenonT(60) DEF PlayerType
<1>4. x = [told EXCEPT !.net = join_p2p_group(told.net, room.p2p_group, h)]
  BY DEF Seat, send_room
<1>5. n \in NetType
  <2>1. PICK g \in HostId : g = room.p2p_group
    BY <1>2 DEF SameRoom
  <2>2. PICK m : m = w.net
    OBVIOUS
  <2>3. Sound(join_p2p_group(m, g, h), {})
    BY <2>2, JoinGroupSound
  <2> QED
    BY <2>1, <2>2, <2>3, SoundTyped
<1> HIDE DEF room, p, x
<1>6. /\ sat \in WorldType /\ sat.net = w.net /\ sat.m_rooms = w.m_rooms /\ sat.next = w.next
      /\ sat.view = w.view /\ sat.rooms = [w.rooms EXCEPT ![r] = room]
      /\ sat.players = [w.players EXCEPT ![h] = p]
  BY <1>0, <1>2, <1>3 DEF WorldType
<1>7. sat.rooms[r] = room /\ \A q \in Room \ {r} : sat.rooms[q] = w.rooms[q]
  BY <1>1, <1>6
<1>8. \A k \in HostId : sat.players[k] = IF k = h THEN p ELSE w.players[k]
  BY <1>1, <1>6
<1> HIDE DEF sat
<1>9. T \in [HostId -> ViewType] /\ \A k \in HostId : T[k] =
        IF k \in Occupants(room) \cap w.net.up THEN Hello(w.view[k], slot, h, look) ELSE w.view[k]
  <2>1. ASSUME NEW v \in ViewType PROVE Hello(v, slot, h, look) \in ViewType
    BY <1>0, <1>3 DEF Hello, ViewType, Seats
  <2>2. \A k \in HostId : T[k] =
          IF k \in Occupants(room) \cap w.net.up THEN Hello(w.view[k], slot, h, look) ELSE w.view[k]
    BY <1>6, <1>7
  <2>3. \A k \in HostId : T[k] \in ViewType
    BY <1>1, <2>1, <2>2
  <2> QED
    BY <2>2, <2>3
<1>10. Snapshot(sat, room) \in ViewType
  BY <1>2, <1>6, SnapshotTyped
<1> HIDE DEF T
<1>11. /\ aired \in WorldType /\ aired.net = w.net /\ aired.m_rooms = w.m_rooms
       /\ aired.next = w.next /\ aired.view = T /\ aired.rooms = sat.rooms
       /\ aired.players = sat.players
  BY <1>6, <1>9 DEF WorldType
<1> HIDE DEF aired
<1>12. /\ told \in WorldType /\ told.net = w.net /\ told.m_rooms = w.m_rooms
       /\ told.next = w.next /\ told.view = [T EXCEPT ![h] = Snapshot(sat, room)]
       /\ told.rooms = sat.rooms /\ told.players = sat.players
  BY <1>0, <1>10, <1>11 DEF WorldType
<1> HIDE DEF told
<1>13. /\ x \in WorldType /\ x.net = n /\ x.m_rooms = w.m_rooms
       /\ x.next = w.next /\ x.view = [T EXCEPT ![h] = Snapshot(sat, room)]
       /\ x.rooms = sat.rooms /\ x.players = sat.players
  <2>1. x = [told EXCEPT !.net = n]
    BY <1>4, <1>12
  <2> HIDE DEF n
  <2> QED
    BY <1>5, <1>12, <2>1 DEF WorldType
<1>14. SeatTaken(w, x, h, r, slot)
  <2>1. n = join_p2p_group(w.net, w.rooms[r].p2p_group, h)
    BY <1>2 DEF SameRoom
  <2> HIDE DEF n
  <2>2. \A k \in HostId : x.players[k] =
          IF k = h THEN [w.players[k] EXCEPT !.room = r, !.slot = slot, !.ready = FALSE]
          ELSE w.players[k]
    BY <1>8, <1>13 DEF p
  <2> QED
    BY <1>2, <1>7, <1>13, <2>1, <2>2 DEF SeatTaken
<1>15. SeatTold(w, x, h, r, slot)
  <2>1. Snapshot(sat, room) = Snapshot(x, x.rooms[r])
    BY <1>7, <1>13 DEF Snapshot, ReadySlots, Looks
  <2>2. \A k \in HostId : x.view[k] = IF k = h THEN Snapshot(sat, room) ELSE T[k]
    BY <1>9, <1>13
  <2>3. x.rooms[r] = room
    BY <1>7, <1>13
  <2> QED
    BY <1>9, <2>1, <2>2, <2>3 DEF SeatTold
<1> QED
  BY <1>14, <1>15 DEF x

\* A player who is in no room takes an empty seat of a listed room; the first player of
\* a new room takes the master's.
LEMMA SeatOk ==
  ASSUME NEW w, NEW E, Ok(w, E, {}), NEW r \in Room, E \subseteq {r}, IsListed(w, r),
         NEW h \in w.net.up, w.players[h].user # NoUser, w.players[h].room = NoRoom,
         NEW slot \in Slot, w.rooms[r].slots[slot] = Nobody,
         r \in E => slot = w.rooms[r].master_slot
  PROVE  Ok(Seat(w, h, r, slot), {}, {})
<1> DEFINE x == Seat(w, h, r, slot)
           g == w.rooms[r].p2p_group
<1>1. w \in WorldType /\ Sound(w.net, {})
  BY DEF Ok
<1>2. h \in HostId /\ w.net.groups \subseteq HostId
  BY <1>1, SoundTyped DEF NetType
<1>3. g \in HostId /\ g \in w.net.groups /\ w.net.members[g] = Members(w, r)
  BY <1>2 DEF Ok, GroupsOk
<1>4. SeatTaken(w, x, h, r, slot)
  BY <1>1, <1>3, SeatFields
<1> HIDE DEF x
<1>5. ASSUME NEW k \in HostId
      PROVE  /\ x.players[k].user = w.players[k].user
             /\ x.players[k].slot = IF k = h THEN slot ELSE w.players[k].slot
             /\ x.players[k].room = IF k = h THEN r ELSE w.players[k].room
             /\ w.players[k].slot \in Slot
             /\ w.players[k].room \in Room \cup {NoRoom}
  <2>1. w.players[k] \in PlayerType
    BY <1>1 DEF WorldType
  <2>2. x.players[k] = IF k = h THEN [w.players[k] EXCEPT !.room = r, !.slot = slot, !.ready = FALSE]
                       ELSE w.players[k]
    BY <1>4 DEF SeatTaken
  <2> QED
    BY <2>1, <2>2 DEF PlayerType
<1>6. ASSUME NEW q \in Room
      PROVE  /\ x.rooms[q].number = w.rooms[q].number
             /\ x.rooms[q].p2p_group = w.rooms[q].p2p_group
             /\ x.rooms[q].master_slot = w.rooms[q].master_slot
             /\ \A s \in Slot : x.rooms[q].slots[s] =
                  IF q = r /\ s = slot THEN h ELSE w.rooms[q].slots[s]
             /\ w.rooms[q].number \in RoomNumber
             /\ w.rooms[q].master_slot \in Slot
             /\ \A s \in Slot : w.rooms[q].slots[s] \in HostId \cup {Nobody}
  <2>1. w.rooms[q] \in RoomType
    BY <1>1 DEF WorldType
  <2>2. /\ w.rooms[q].number \in RoomNumber /\ w.rooms[q].master_slot \in Slot
        /\ \A s \in Slot : w.rooms[q].slots[s] \in HostId \cup {Nobody}
    BY <2>1 DEF RoomType, Seats
  <2>3. CASE q = r
    BY <1>4, <2>2, <2>3 DEF SeatTaken, SameRoom
  <2>4. CASE q # r
    BY <1>4, <2>2, <2>4 DEF SeatTaken
  <2> QED
    BY <2>3, <2>4
<1>7. x \in WorldType /\ x.m_rooms = w.m_rooms
  BY <1>4 DEF SeatTaken
<1>8. /\ Sound(x.net, {}) /\ x.net.peers = w.net.peers /\ x.net.up = w.net.up
      /\ x.net.groups = w.net.groups
      /\ \A k \in HostId : x.net.members[k] =
           IF k = g THEN w.net.members[k] \cup {h} ELSE w.net.members[k]
  <2>1. PICK n : n = w.net
    OBVIOUS
  <2>2. PICK f \in HostId : f = g
    BY <1>3
  <2>3. Sound(n, {}) /\ h \in n.up /\ f \in n.groups
    BY <1>1, <1>3, <2>1, <2>2
  <2>4. /\ Sound(join_p2p_group(n, f, h), {})
        /\ join_p2p_group(n, f, h).peers = n.peers
        /\ join_p2p_group(n, f, h).up = n.up
        /\ join_p2p_group(n, f, h).groups = n.groups
        /\ \A k \in HostId : join_p2p_group(n, f, h).members[k] =
             IF k = f /\ f \in n.groups THEN n.members[k] \cup {h} ELSE n.members[k]
    BY <2>3, JoinGroupSound
  <2>5. x.net = join_p2p_group(n, f, h)
    BY <1>4, <2>1, <2>2 DEF SeatTaken
  <2> QED
    BY <2>1, <2>2, <2>3, <2>4, <2>5
<1>9. \A q \in Room : IsListed(x, q) <=> IsListed(w, q)
  BY <1>6, <1>7 DEF IsListed
<1>10. \A q \in Room : Members(x, q) = IF q = r THEN Members(w, q) \cup {h} ELSE Members(w, q)
  BY <1>2, <1>5, NullTyped DEF Members
<1>11. PlayersOk(x, {})
  BY <1>2, <1>5, <1>8, SoundTyped DEF Ok, PlayersOk
<1>12. SeatsOk(x)
  <2>1. ASSUME NEW k \in HostId, x.players[k].room # NoRoom
        PROVE  x.rooms[x.players[k].room].slots[x.players[k].slot] = k
    <3>1. PICK q \in Room, s \in Slot : q = x.players[k].room /\ s = x.players[k].slot
      BY <1>5, <2>1
    <3>2. CASE k = h
      BY <1>5, <1>6, <3>1, <3>2
    <3>3. CASE k # h
      <4>1. q = w.players[k].room /\ s = w.players[k].slot /\ w.rooms[q].slots[s] = k
        BY <1>5, <2>1, <3>1, <3>3 DEF Ok, SeatsOk
      <4>2. ~ (q = r /\ s = slot)
        BY <4>1, NullTyped
      <4> QED
        BY <1>6, <3>1, <4>1, <4>2, SMTT(30)
    <3> QED
      BY <3>2, <3>3
  <2>2. ASSUME NEW q \in Room, NEW s \in Slot, x.rooms[q].slots[s] # Nobody
        PROVE  x.players[x.rooms[q].slots[s]].room = q /\ x.players[x.rooms[q].slots[s]].slot = s
    <3>1. CASE q = r /\ s = slot
      BY <1>2, <1>5, <1>6, <3>1
    <3>2. CASE ~ (q = r /\ s = slot)
      <4>1. PICK k \in HostId : k = w.rooms[q].slots[s] /\ k = x.rooms[q].slots[s]
        BY <1>6, <2>2, <3>2
      <4>2. w.players[k].room = q /\ w.players[k].slot = s
        BY <2>2, <4>1 DEF Ok, SeatsOk
      <4>3. k # h
        BY <4>2, NullTyped
      <4> QED
        BY <1>5, <4>1, <4>2, <4>3
    <3> QED
      BY <3>1, <3>2
  <2> QED
    BY <2>1, <2>2 DEF SeatsOk
<1>13. ListOk(x, {})
  <2>1. ASSUME NEW k \in RoomNumber, x.m_rooms[k] # NoRoom
        PROVE  k # 0 /\ x.rooms[x.m_rooms[k]].number = k
    <3>1. x.m_rooms[k] = w.m_rooms[k] /\ w.m_rooms[k] \in Room
      BY <1>1, <1>7, <2>1 DEF WorldType
    <3> QED
      BY <1>6, <2>1, <3>1 DEF Ok, ListOk
  <2>2. ASSUME NEW k \in HostId, x.players[k].room # NoRoom
        PROVE  IsListed(x, x.players[k].room)
    <3>1. CASE k = h
      BY <1>5, <1>9, <3>1
    <3>2. CASE k # h
      BY <1>5, <1>9, <2>2, <3>2 DEF Ok, ListOk
    <3> QED
      BY <3>1, <3>2
  <2>3. \A q \in Room : IsListed(x, q) => Members(x, q) # {}
    BY <1>9, <1>10 DEF Ok, ListOk
  <2> QED
    BY <2>1, <2>2, <2>3 DEF ListOk
<1>14. MastersOk(x, {})
  <2>1. ASSUME NEW q \in Room, IsListed(x, q)
        PROVE  x.rooms[q].slots[x.rooms[q].master_slot] # Nobody
    <3>1. PICK s \in Slot : s = w.rooms[q].master_slot /\ s = x.rooms[q].master_slot
      BY <1>6
    <3>2. CASE q \in E
      <4>1. x.rooms[q].slots[s] = h
        BY <1>6, <3>1, <3>2
      <4> QED
        BY <1>2, <3>1, <4>1, NullTyped
    <3>3. CASE q \notin E
      <4>1. w.rooms[q].slots[s] # Nobody
        BY <1>9, <2>1, <3>1, <3>3 DEF Ok, MastersOk
      <4> QED
        BY <1>2, <1>6, <3>1, <4>1, NullTyped
    <3> QED
      BY <3>2, <3>3
  <2> QED
    BY <2>1 DEF MastersOk
<1>15. GroupsOk(x)
  <2>1. ASSUME NEW q \in Room, IsListed(x, q)
        PROVE  x.rooms[q].p2p_group \in x.net.groups /\ x.net.members[x.rooms[q].p2p_group] = Members(x, q)
    <3>1. IsListed(w, q) /\ x.rooms[q].p2p_group = w.rooms[q].p2p_group
      BY <1>6, <1>9, <2>1
    <3>2. w.rooms[q].p2p_group \in w.net.groups /\ w.net.members[w.rooms[q].p2p_group] = Members(w, q)
      BY <3>1 DEF Ok, GroupsOk
    <3>3. w.rooms[q].p2p_group = g => q = r
      BY <3>1 DEF Ok, GroupsOk
    <3> QED
      BY <1>2, <1>8, <1>10, <3>1, <3>2, <3>3, ZenonT(60)
  <2> QED
    BY <1>6, <1>8, <1>9, <2>1 DEF Ok, GroupsOk
<1> QED
  BY <1>7, <1>8, <1>11, <1>12, <1>13, <1>14, <1>15 DEF Ok, x

\* join_room: the player leaves its room, and the listed room r, of which it is not the
\* only player, still has a free seat for it.
LEMMA JoinIs ==
  ASSUME NEW w, Ok(w, {}, {}), NEW h \in w.net.up, w.players[h].user # NoUser,
         NEW r \in Room, IsListed(w, r), FreeSlots(w.rooms[r]) # {}, Members(w, r) # {h}
  PROVE  \E out : \E slot \in Slot :
           /\ out = remove_from_room(w, h) /\ Ok(out, {}, {}) /\ Removed(w, out, h)
           /\ join_room(w, h, r) = Seat(out, h, r, slot)
           /\ slot \in FreeSlots(out.rooms[r]) /\ out.rooms[r].slots[slot] = Nobody
           /\ IsListed(out, r) /\ h \in out.net.up /\ out.players[h].user # NoUser
           /\ out.players[h].room = NoRoom
<1> DEFINE out == remove_from_room(w, h)
           slot == free_slot(out.rooms[r])
<1>1. h \in HostId
  BY SoundTyped DEF Ok
<1>2. Ok(out, {}, {}) /\ Removed(w, out, h)
  BY <1>1, RemoveOk
<1>3. join_room(w, h, r) = Seat(out, h, r, slot)
  BY DEF join_room
<1>10. out = remove_from_room(w, h)
  OBVIOUS
<1> HIDE DEF out
<1>4. /\ IsListed(out, r) /\ h \in out.net.up /\ out.players[h].user # NoUser
      /\ out.players[h].room = NoRoom
  BY <1>1, <1>2 DEF Removed
<1>5. FreeSlots(w.rooms[r]) \subseteq FreeSlots(out.rooms[r])
  BY <1>2 DEF Removed, SameRoom, FreeSlots
<1>6. PICK F : F = FreeSlots(out.rooms[r])
  OBVIOUS
<1>7. F # {} /\ F \subseteq Nat /\ F \subseteq Slot
  BY <1>5, <1>6, NullTyped DEF FreeSlots
<1>8. slot \in F
  BY <1>6, <1>7, MinInSet DEF free_slot
<1>9. slot \in Slot /\ out.rooms[r].slots[slot] = Nobody /\ slot \in FreeSlots(out.rooms[r])
  BY <1>6, <1>7, <1>8 DEF FreeSlots, Taken
<1> HIDE DEF slot
<1> QED
  BY <1>2, <1>3, <1>4, <1>9, <1>10

\* Enter_Room and quick_join keep the invariant.
LEMMA JoinOk ==
  ASSUME NEW w, Ok(w, {}, {}), NEW h \in w.net.up, w.players[h].user # NoUser,
         NEW r \in Room, IsListed(w, r), FreeSlots(w.rooms[r]) # {}, Members(w, r) # {h}
  PROVE  Ok(join_room(w, h, r), {}, {})
<1>1. PICK out : \E slot \in Slot :
        /\ out = remove_from_room(w, h) /\ Ok(out, {}, {}) /\ Removed(w, out, h)
        /\ join_room(w, h, r) = Seat(out, h, r, slot)
        /\ slot \in FreeSlots(out.rooms[r]) /\ out.rooms[r].slots[slot] = Nobody
        /\ IsListed(out, r) /\ h \in out.net.up /\ out.players[h].user # NoUser
        /\ out.players[h].room = NoRoom
  BY JoinIs
<1> QED
  BY <1>1, SeatOk

-----------------------------------------------------------------------------
(* New rooms *)

\* x is w with the room object r, new and without players, listed under number n.
Opened(w, x, r, n, room) ==
  /\ x \in WorldType
  /\ x.net = create_p2p_group(w.net) /\ x.players = w.players /\ x.view = w.view
  /\ x.next = Succ(n)
  /\ x.rooms = [w.rooms EXCEPT ![r] = room]
  /\ x.m_rooms = [w.m_rooms EXCEPT ![n] = r]

\* room_number returns a number that no room has.
LEMMA RoomNumberIsFree ==
  ASSUME NEW w \in WorldType, FreeNumbers(w) # {}
  PROVE  room_number(w) \in FreeNumbers(w)
<1> DEFINE M == MaxRoomNumber + 1
           d(n) == (n - w.next + MaxRoomNumber + 1) % M
           D == {d(n) : n \in FreeNumbers(w)}
<1>1. w.next \in RoomNumber /\ M \in Nat /\ M > 0 /\ MaxRoomNumber \in Nat
  BY GameAssumption DEF WorldType
<1>2. \A n \in FreeNumbers(w) : n \in Nat /\ d(n) \in Nat
  BY <1>1 DEF FreeNumbers, RoomNumber
<1> HIDE DEF d
<1>3. D \subseteq Nat /\ D # {}
  BY <1>2
<1>4. PICK m \in D : \A k \in D : ~ (k < m)
  BY <1>3, HasLeast
<1>5. PICK n \in FreeNumbers(w) : m = d(n)
  OBVIOUS
<1>6. \A k \in FreeNumbers(w) : d(n) <= d(k)
  BY <1>2, <1>4, <1>5
<1>7. \E y \in FreeNumbers(w) : \A k \in FreeNumbers(w) : d(y) <= d(k)
  BY <1>6
<1>8. room_number(w) = CHOOSE y \in FreeNumbers(w) : \A k \in FreeNumbers(w) : d(y) <= d(k)
  BY DEF room_number, d
<1> QED
  BY <1>7, <1>8

\* A new room without players: its number, its object and its group are nobody else's.
LEMMA OpenedOk ==
  ASSUME NEW w, Ok(w, {}, {}), CanAllocate(w.net), NEW x, NEW r \in Room, ~ IsListed(w, r),
         NEW n \in FreeNumbers(w), NEW room \in RoomType, Opened(w, x, r, n, room),
         room.number = n, room.slots = EmptySeats, room.p2p_group = AllocatedId(w.net)
  PROVE  Ok(x, {r}, {}) /\ IsListed(x, r) /\ x.net.up = w.net.up
<1>1. w \in WorldType /\ Sound(w.net, {})
  BY DEF Ok
<1>2. n \in RoomNumber /\ n # 0 /\ w.m_rooms[n] = NoRoom
  BY DEF FreeNumbers
<1>3. PICK a : a = AllocatedId(w.net)
  OBVIOUS
<1>4. /\ Sound(x.net, {}) /\ x.net.peers = w.net.peers /\ x.net.up = w.net.up
      /\ x.net.groups = w.net.groups \cup {a} /\ x.net.members = w.net.members
      /\ a \in HostId /\ a \notin w.net.groups
  <2>1. PICK m : m = w.net
    OBVIOUS
  <2>2. /\ Sound(create_p2p_group(m), {})
        /\ AllocatedId(m) \in HostId \ (m.peers \cup m.groups \cup {SkippedId})
        /\ create_p2p_group(m).peers = m.peers
        /\ create_p2p_group(m).up = m.up
        /\ create_p2p_group(m).groups = m.groups \cup {AllocatedId(m)}
        /\ create_p2p_group(m).members = m.members
    BY <1>1, <2>1, CreateGroupSound
  <2> QED
    BY <1>3, <2>1, <2>2 DEF Opened
<1>5. x \in WorldType /\ x.players = w.players
  BY DEF Opened
<1>6. x.rooms[r] = room /\ \A q \in Room \ {r} : x.rooms[q] = w.rooms[q]
  BY <1>1 DEF Opened, WorldType
<1>7. \A k \in RoomNumber : x.m_rooms[k] = IF k = n THEN r ELSE w.m_rooms[k]
  BY <1>1, <1>2 DEF Opened, WorldType
<1>8. \A q \in Room : w.rooms[q].number \in RoomNumber
  BY <1>1 DEF WorldType, RoomType
<1>9. Members(w, r) = {}
  BY NullTyped DEF Members, Ok, ListOk
<1>10. \A q \in Room : Members(x, q) = Members(w, q)
  BY <1>5 DEF Members
<1>11. \A q \in Room : IsListed(x, q) <=> IsListed(w, q) \/ q = r
  <2>1. IsListed(x, r)
    BY <1>2, <1>6, <1>7 DEF IsListed
  <2>2. ASSUME NEW q \in Room, q # r PROVE IsListed(x, q) <=> IsListed(w, q)
    BY <1>2, <1>6, <1>7, <1>8, <2>2, NullTyped DEF IsListed
  <2> QED
    BY <2>1, <2>2
<1>12. \A s \in Slot : room.slots[s] = Nobody
  BY DEF EmptySeats
<1>13. PlayersOk(x, {})
  BY <1>4, <1>5 DEF Ok, PlayersOk
<1>14. SeatsOk(x)
  <2>1. ASSUME NEW h \in HostId, x.players[h].room # NoRoom
        PROVE  x.rooms[x.players[h].room].slots[x.players[h].slot] = h
    <3>1. w.players[h].room \in Room /\ w.players[h].room # r
      BY <1>1, <1>5, <1>9, <2>1 DEF WorldType, PlayerType, Members
    <3>2. w.rooms[w.players[h].room].slots[w.players[h].slot] = h
      BY <1>5, <2>1, SeatOfPlayer, Zenon DEF Ok
    <3>3. x.rooms[w.players[h].room] = w.rooms[w.players[h].room]
      BY <1>6, <3>1
    <3> QED
      BY <1>5, <3>2, <3>3, Zenon
  <2>2. ASSUME NEW q \in Room, NEW s \in Slot, x.rooms[q].slots[s] # Nobody
        PROVE  x.players[x.rooms[q].slots[s]].room = q /\ x.players[x.rooms[q].slots[s]].slot = s
    <3>1. q # r /\ x.rooms[q] = w.rooms[q]
      BY <1>6, <1>12, <2>2
    <3>2. PICK o : w.rooms[q].slots[s] = o
      OBVIOUS
    <3>3. x.rooms[q].slots[s] = o /\ o # Nobody
      BY <2>2, <3>1, <3>2, Zenon
    <3>4. SeatsOk(w)
      BY DEF Ok
    <3>5. w.players[o].room = q /\ w.players[o].slot = s
      BY <3>2, <3>3, <3>4, PlayerOfSeat
    <3> QED
      BY <1>5, <3>3, <3>5, Zenon
  <2> QED
    BY <2>1, <2>2 DEF SeatsOk
<1>15. ListOk(x, {r})
  <2>1. ASSUME NEW k \in RoomNumber, x.m_rooms[k] # NoRoom
        PROVE  k # 0 /\ x.rooms[x.m_rooms[k]].number = k
    <3>1. CASE k = n
      BY <1>2, <1>6, <1>7, <3>1
    <3>2. CASE k # n
      <4>1. x.m_rooms[k] = w.m_rooms[k] /\ w.m_rooms[k] \in Room
        BY <1>1, <1>7, <2>1, <3>2 DEF WorldType
      <4>2. k # 0 /\ w.rooms[w.m_rooms[k]].number = k
        BY <2>1, <4>1 DEF Ok, ListOk
      <4>3. w.m_rooms[k] # r
        BY <4>2 DEF IsListed
      <4> QED
        BY <1>6, <4>1, <4>2, <4>3
    <3> QED
      BY <3>1, <3>2
  <2>2. ASSUME NEW h \in HostId, x.players[h].room # NoRoom
        PROVE  IsListed(x, x.players[h].room)
    <3>1. w.players[h].room \in Room
      BY <1>1, <1>5, <2>2 DEF WorldType, PlayerType
    <3> QED
      BY <1>5, <1>11, <2>2, <3>1 DEF Ok, ListOk
  <2>3. \A q \in Room \ {r} : IsListed(x, q) => Members(x, q) # {}
    BY <1>10, <1>11 DEF Ok, ListOk
  <2> QED
    BY <2>1, <2>2, <2>3 DEF ListOk
<1>16. MastersOk(x, {r})
  BY <1>6, <1>11 DEF Ok, MastersOk
<1>17. GroupsOk(x)
  <2>1. w.net.members[a] = {}
    BY <1>1, <1>4 DEF Sound
  <2>2. room.p2p_group = a
    BY <1>3
  <2>3. ASSUME NEW q \in Room, IsListed(x, q)
        PROVE  x.rooms[q].p2p_group \in x.net.groups /\ x.net.members[x.rooms[q].p2p_group] = Members(x, q)
    <3>1. CASE q = r
      BY <1>4, <1>6, <1>9, <1>10, <2>1, <2>2, <3>1
    <3>2. CASE q # r
      BY <1>4, <1>6, <1>10, <1>11, <2>3, <3>2 DEF Ok, GroupsOk
    <3> QED
      BY <3>1, <3>2
  <2>4. ASSUME NEW q \in Room, NEW p \in Room, IsListed(x, q), IsListed(x, p),
               x.rooms[q].p2p_group = x.rooms[p].p2p_group
        PROVE  q = p
    <3>1. \A o \in Room \ {r} : IsListed(x, o) => x.rooms[o].p2p_group # a
      BY <1>4, <1>6, <1>11 DEF Ok, GroupsOk
    <3>2. CASE q = r \/ p = r
      BY <1>6, <2>2, <2>4, <3>1, <3>2
    <3>3. CASE q # r /\ p # r
      BY <1>6, <1>11, <2>4, <3>3 DEF Ok, GroupsOk
    <3> QED
      BY <3>2, <3>3
  <2>5. ASSUME NEW g \in x.net.groups
        PROVE  \E q \in Room : IsListed(x, q) /\ x.rooms[q].p2p_group = g
    <3>1. CASE g = a
      BY <1>6, <1>11, <2>2, <3>1
    <3>2. CASE g # a
      <4>1. PICK q \in Room : IsListed(w, q) /\ w.rooms[q].p2p_group = g
        BY <1>4, <3>2 DEF Ok, GroupsOk
      <4>2. q # r
        BY <4>1
      <4> QED
        BY <1>6, <1>11, <4>1, <4>2
    <3> QED
      BY <3>1, <3>2
  <2> QED
    BY <2>3, <2>4, <2>5 DEF GroupsOk
<1> QED
  BY <1>4, <1>5, <1>11, <1>13, <1>14, <1>15, <1>16, <1>17 DEF Ok

\* Destroying groups hands out no HostIDs.
LEMMA DestroyKeepsNext ==
  ASSUME NEW n \in NetType, NEW G
  PROVE  destroy_p2p_group(n, G).next = n.next /\ n.free \subseteq destroy_p2p_group(n, G).free
<1> DEFINE gone == G \cap n.groups
           q == LeaveGroups(n, gone, HostId)
           m == [q EXCEPT !.groups = q.groups \ gone]
<1>1. q \in NetType /\ q.free = n.free /\ q.next = n.next
  BY LeaveGroupsFields
<1>2. destroy_p2p_group(n, G) = [m EXCEPT !.free = m.free \cup gone]
  BY DEF destroy_p2p_group, release_host_id
<1> HIDE DEF q
<1>3. m.free = n.free /\ m.next = n.next /\ m \in [peers : SUBSET HostId, up : SUBSET HostId, groups : SUBSET HostId,
            members : [HostId -> SUBSET HostId], free : SUBSET HostId,
            next : Nat, told : [HostId -> SUBSET Pair]]
  BY <1>1 DEF NetType
<1> HIDE DEF m, gone
<1> QED
  BY <1>2, <1>3

\* When there is a HostID left for a group, there is one after a player left its room.
LEMMA RemoveAllocates ==
  ASSUME NEW w, Ok(w, {}, {}), NEW h \in HostId, CanAllocate(w.net)
  PROVE  CanAllocate(remove_from_room(w, h).net)
<1>1. w \in WorldType /\ Sound(w.net, {}) /\ w.net \in NetType
  BY SoundTyped DEF Ok
<1>2. CASE w.players[h].room = NoRoom
  BY <1>2 DEF remove_from_room
<1>3. CASE w.players[h].room # NoRoom
  <2>1. PICK r \in Room : r = w.players[h].room
    BY <1>1, <1>3 DEF WorldType, PlayerType
  <2>2. PICK S : S = {h}
    OBVIOUS
  <2> DEFINE x == Vacate(w, r, S)
             n == Apart(w, r, S)
  <2>3. remove_from_room(w, h) = x
    BY <1>3, <2>1, <2>2 DEF remove_from_room
  <2>4. IF Taken(w.rooms[r]) \subseteq SeatsOf(w, S) THEN Emptied(w, x, r, S) ELSE Thinned(w, x, r, S)
    BY <1>1, <2>2, VacateFields
  <2>5. n \in NetType /\ n.next = w.net.next /\ n.free = w.net.free
    BY <1>1, LeaveGroupsFields DEF Apart
  <2>6. x \in WorldType
    <3>1. Vacated(w, x, r, S)
      BY <1>1, <2>2, VacateFields
    <3> HIDE DEF x
    <3> QED
      BY <3>1 DEF Vacated
  <2> HIDE DEF x, n
  <2>7. x.net.next = w.net.next /\ w.net.free \subseteq x.net.free
    <3>1. CASE Emptied(w, x, r, S)
      <4>1. PICK G : G = {w.rooms[r].p2p_group}
        OBVIOUS
      <4>2. destroy_p2p_group(n, G).next = n.next /\ n.free \subseteq destroy_p2p_group(n, G).free
        BY <2>5, DestroyKeepsNext
      <4> QED
        BY <2>5, <3>1, <4>1, <4>2 DEF Emptied, n
    <3>2. CASE Thinned(w, x, r, S)
      BY <2>5, <3>2 DEF Thinned, n
    <3> QED
      BY <2>4, <3>1, <3>2
  <2>8. CASE x.net.free = {}
    BY <2>3, <2>7, <2>8 DEF CanAllocate, AllocatedId
  <2>9. CASE x.net.free # {}
    <3>1. PICK F : F = x.net.free
      OBVIOUS
    <3>2. F \subseteq HostId /\ F \subseteq Nat
      BY <2>6, <3>1, HostIdAssumption DEF WorldType, NetType, HostId
    <3>3. Min(F) \in F
      BY <2>9, <3>1, <3>2, MinInSet
    <3>4. AllocatedId(x.net) = Min(F)
      BY <2>9, <3>1 DEF AllocatedId
    <3> QED
      <4>1. PICK a \in HostId : a = AllocatedId(x.net)
        BY <3>2, <3>3, <3>4
      <4>2. a <= MaxHostId
        BY HostIdAssumption DEF HostId
      <4> QED
        BY <2>3, <4>1, <4>2 DEF CanAllocate
  <2> QED
    BY <2>8, <2>9
<1> QED
  BY <1>2, <1>3

\* create_room seats h in room r of the world y: out with a new room, where out is w
\* without h in its room. The room object was not in use.
Creates(w, h, out, y, r) ==
  \E n \in FreeNumbers(out), room \in RoomType :
    /\ out = remove_from_room(w, h) /\ Ok(out, {}, {}) /\ Removed(w, out, h)
    /\ ~ IsListed(w, r) /\ ~ IsListed(out, r)
    /\ Opened(out, y, r, n, room) /\ Ok(y, {r}, {}) /\ IsListed(y, r)
    /\ y.rooms[r] = room /\ room.slots = EmptySeats /\ room.closed = {}
    /\ h \in y.net.up /\ y.players[h].user # NoUser /\ y.players[h].room = NoRoom
    /\ 0 \in Slot /\ y.rooms[r].slots[0] = Nobody /\ y.rooms[r].master_slot = 0

\* Create_Room: the player leaves the room it is in and finds a new one without players.
LEMMA CreateIs ==
  ASSUME NEW w, Ok(w, {}, {}), CanCreate(w), NEW h \in w.net.up, w.players[h].user # NoUser,
         w.players[h].channel # no_channel, NEW max \in Nat, NEW pw \in BOOLEAN
  PROVE  \E out, y : \E r \in Room :
           Creates(w, h, out, y, r) /\ create_room(w, h, max, pw) = Seat(y, h, r, 0)
<1> DEFINE out == remove_from_room(w, h)
           r == Min(UnusedRooms(w))
           n == room_number(out)
           a == AllocatedId(out.net)
           size == IF max \in 1 .. room_slots THEN max ELSE room_slots
           room == [NullRoom EXCEPT !.number = n, !.channel = out.players[h].channel,
                      !.max_players = size, !.password = pw, !.p2p_group = a]
           x == [out EXCEPT !.rooms[r] = room, !.m_rooms[n] = r, !.next = Succ(n),
                            !.net = create_p2p_group(out.net)]
<1>1. h \in HostId /\ w \in WorldType
  BY SoundTyped DEF Ok
<1>2. Ok(out, {}, {}) /\ Removed(w, out, h)
  BY <1>1, RemoveOk
<1>3. CanAllocate(out.net)
  BY <1>1, RemoveAllocates DEF CanCreate
<1>4. r \in Room /\ w.rooms[r].number = 0
  <2>1. PICK U : U = UnusedRooms(w)
    OBVIOUS
  <2>2. U # {} /\ U \subseteq Nat
    BY <2>1, GameAssumption DEF CanCreate, UnusedRooms, Room
  <2>3. Min(U) \in U
    BY <2>2, MinInSet
  <2> QED
    BY <2>1, <2>3 DEF UnusedRooms
<1>5. create_room(w, h, max, pw) = Seat(x, h, r, 0)
  BY DEF create_room
<1>0. out = remove_from_room(w, h)
  OBVIOUS
<1> HIDE DEF out, r
<1>6. out \in WorldType /\ Sound(out.net, {})
  BY <1>2 DEF Ok
<1>7. FreeNumbers(out) # {}
  BY <1>2 DEF CanCreate, FreeNumbers, Removed
<1>8. n \in FreeNumbers(out)
  BY <1>6, <1>7, RoomNumberIsFree
<1>9. n \in RoomNumber /\ Succ(n) \in RoomNumber
  <2>1. n \in RoomNumber
    BY <1>8 DEF FreeNumbers
  <2> HIDE DEF n
  <2> QED
    BY <2>1, GameAssumption DEF Succ, RoomNumber
<1>10. a \in HostId /\ create_p2p_group(out.net) \in NetType
  <2>1. PICK m : m = out.net
    OBVIOUS
  <2>2. Sound(create_p2p_group(m), {}) /\ AllocatedId(m) \in HostId \ (m.peers \cup m.groups \cup {SkippedId})
    BY <1>3, <1>6, <2>1, CreateGroupSound
  <2> QED
    BY <2>1, <2>2, SoundTyped
<1>11. size \in 1 .. room_slots
  BY GameAssumption
<1>12. out.players[h].channel \in Channel
  <2>1. w.players[h].channel \in Channel
    BY <1>1 DEF WorldType, PlayerType
  <2> QED
    BY <1>1, <1>2, <2>1 DEF Removed
<1> HIDE DEF n, a, size
<1>13. /\ room \in RoomType /\ room.number = n /\ room.slots = EmptySeats
       /\ room.p2p_group = a /\ room.master_slot = 0 /\ room.closed = {}
  <2>1. /\ NullRoom \in RoomType /\ NullRoom.slots = EmptySeats /\ NullRoom.master_slot = 0
        /\ NullRoom.closed = {}
    BY NullTyped DEF NullRoom
  <2>2. n \in RoomNumber /\ a \in HostId \cup {0} /\ pw \in BOOLEAN
    BY <1>9, <1>10
  <2> QED
    BY <1>11, <1>12, <2>1, <2>2 DEF RoomType
<1> HIDE DEF room
<1>14. Opened(out, x, r, n, room)
  <2>1. PICK m \in NetType : m = create_p2p_group(out.net)
    BY <1>10
  <2>2. x = [out EXCEPT !.rooms[r] = room, !.m_rooms[n] = r, !.next = Succ(n), !.net = m]
    BY <2>1
  <2> HIDE DEF x
  <2>3. /\ x \in WorldType
        /\ x.net = m /\ x.players = out.players /\ x.view = out.view
        /\ x.next = Succ(n)
        /\ x.rooms = [out.rooms EXCEPT ![r] = room]
        /\ x.m_rooms = [out.m_rooms EXCEPT ![n] = r]
    BY <1>4, <1>6, <1>9, <1>13, <2>2 DEF WorldType
  <2> QED
    BY <2>1, <2>3 DEF Opened
<1> HIDE DEF x
<1>15. ~ IsListed(out, r) /\ ~ IsListed(w, r)
  <2>1. out.rooms[r].number = 0
    BY <1>2, <1>4 DEF Removed, SameRoom
  <2>2. 0 \in RoomNumber /\ r # NoRoom
    BY <1>4, NullTyped, GameAssumption DEF RoomNumber
  <2>3. ~ IsListed(out, r)
    BY <1>2, <2>1, <2>2 DEF IsListed, Ok, ListOk
  <2>4. ~ IsListed(w, r)
    BY <1>4, <2>2 DEF IsListed, Ok, ListOk
  <2> QED
    BY <2>3, <2>4
<1>16. Ok(x, {r}, {}) /\ IsListed(x, r) /\ x.net.up = out.net.up
  BY <1>2, <1>3, <1>4, <1>8, <1>13, <1>14, <1>15, OpenedOk DEF a
<1>17. x.players = out.players /\ x.rooms[r] = room
  BY <1>4, <1>6, <1>14 DEF Opened, WorldType
<1>18. h \in x.net.up /\ x.players[h].user # NoUser /\ x.players[h].room = NoRoom
  BY <1>1, <1>2, <1>16, <1>17 DEF Removed
<1>19. 0 \in Slot /\ x.rooms[r].slots[0] = Nobody /\ x.rooms[r].master_slot = 0
  BY <1>13, <1>17, NullTyped DEF EmptySeats
<1>20. Creates(w, h, out, x, r)
  BY <1>0, <1>2, <1>8, <1>13, <1>14, <1>15, <1>16, <1>17, <1>18, <1>19, Zenon DEF Creates
<1> QED
  BY <1>4, <1>5, <1>20

\* Create_Room keeps the invariant: its creator is the master of the new room.
LEMMA CreateOk ==
  ASSUME NEW w, Ok(w, {}, {}), CanCreate(w), NEW h \in w.net.up, w.players[h].user # NoUser,
         w.players[h].channel # no_channel, NEW max \in Nat, NEW pw \in BOOLEAN
  PROVE  Ok(create_room(w, h, max, pw), {}, {})
<1>1. PICK out, y : \E r \in Room :
        Creates(w, h, out, y, r) /\ create_room(w, h, max, pw) = Seat(y, h, r, 0)
  BY CreateIs
<1>2. PICK r \in Room : Creates(w, h, out, y, r) /\ create_room(w, h, max, pw) = Seat(y, h, r, 0)
  BY <1>1
<1>3. PICK E : E = {r}
  OBVIOUS
<1>4. /\ Ok(y, E, {}) /\ E \subseteq {r} /\ IsListed(y, r)
      /\ h \in y.net.up /\ y.players[h].user # NoUser /\ y.players[h].room = NoRoom
      /\ 0 \in Slot /\ y.rooms[r].slots[0] = Nobody /\ y.rooms[r].master_slot = 0
  BY <1>2, <1>3 DEF Creates
<1>5. PICK slot \in Slot : slot = 0
  BY <1>4
<1>6. Ok(Seat(y, h, r, slot), {}, {})
  BY <1>4, <1>5, SeatOk
<1> QED
  BY <1>2, <1>5, <1>6

-----------------------------------------------------------------------------
(* Handlers that leave seats and groups alone *)

\* x and w agree on who is who, on the seats, the list, the masters and the groups.
SameSeats(w, x) ==
  /\ x \in WorldType
  /\ x.net = w.net /\ x.m_rooms = w.m_rooms
  /\ \A h \in HostId :
       /\ x.players[h].user = w.players[h].user
       /\ x.players[h].room = w.players[h].room
       /\ x.players[h].slot = w.players[h].slot
  /\ \A r \in Room :
       /\ x.rooms[r].number = w.rooms[r].number
       /\ x.rooms[r].slots = w.rooms[r].slots
       /\ x.rooms[r].master_slot = w.rooms[r].master_slot
       /\ x.rooms[r].p2p_group = w.rooms[r].p2p_group

\* Nothing else matters to the invariant.
LEMMA SameSeatsOk ==
  ASSUME NEW w, NEW E, NEW C, Ok(w, E, C), NEW x, SameSeats(w, x)
  PROVE  Ok(x, E, C)
<1>1. \A r \in Room : (IsListed(x, r) <=> IsListed(w, r)) /\ Members(x, r) = Members(w, r)
  BY DEF SameSeats, IsListed, Members
<1>2. PlayersOk(x, C)
  BY DEF Ok, SameSeats, PlayersOk
<1>3. w \in WorldType
  BY DEF Ok
<1>4. SeatsOk(x)
  <2>1. \A h \in HostId : w.players[h].room \in Room \cup {NoRoom}
    BY <1>3 DEF WorldType, PlayerType
  <2>2. \A r \in Room, s \in Slot : w.rooms[r].slots[s] \in HostId \cup {Nobody}
    BY <1>3 DEF WorldType, RoomType, Seats
  <2>3. ASSUME NEW h \in HostId, x.players[h].room # NoRoom
        PROVE  x.rooms[x.players[h].room].slots[x.players[h].slot] = h
    <3>1. PICK r \in Room : r = w.players[h].room /\ r = x.players[h].room
      BY <2>1, <2>3 DEF SameSeats
    <3>2. w.rooms[r].slots[w.players[h].slot] = h
      BY <2>3, <3>1, NullTyped DEF Ok, SeatsOk
    <3> QED
      BY <3>1, <3>2 DEF SameSeats
  <2>4. ASSUME NEW r \in Room, NEW s \in Slot, x.rooms[r].slots[s] # Nobody
        PROVE  x.players[x.rooms[r].slots[s]].room = r /\ x.players[x.rooms[r].slots[s]].slot = s
    <3>1. PICK h \in HostId : h = w.rooms[r].slots[s] /\ h = x.rooms[r].slots[s]
      BY <2>2, <2>4 DEF SameSeats
    <3>2. w.players[h].room = r /\ w.players[h].slot = s
      BY <2>4, <3>1, ZenonT(60) DEF Ok, SeatsOk
    <3> QED
      BY <3>1, <3>2 DEF SameSeats
  <2> QED
    BY <2>3, <2>4 DEF SeatsOk
<1>5. ListOk(x, E)
  <2>1. \A h \in HostId : w.players[h].room \in Room \cup {NoRoom}
    BY <1>3 DEF WorldType, PlayerType
  <2>2. \A n \in RoomNumber : w.m_rooms[n] \in Room \cup {NoRoom}
    BY <1>3 DEF WorldType
  <2> QED
    BY <1>1, <2>1, <2>2 DEF Ok, SameSeats, ListOk
<1>6. MastersOk(x, E)
  BY <1>1 DEF Ok, SameSeats, MastersOk
<1>7. GroupsOk(x)
  BY <1>1 DEF Ok, SameSeats, GroupsOk
<1> QED
  BY <1>2, <1>4, <1>5, <1>6, <1>7 DEF Ok, SameSeats

-----------------------------------------------------------------------------
(* Closing connections and logging on *)

\* What remains of w after h has left its room: x, where h is nobody and sees nothing; y is
\* the world in between, v is w with h closing.
Closed(w, x, h, v, y) ==
  /\ Ok(v, {}, {h}) /\ v.players = w.players /\ v.rooms = w.rooms /\ v.m_rooms = w.m_rooms
  /\ v.view = w.view
  /\ y = remove_from_room(v, h) /\ Ok(y, {}, {h})
  /\ x.rooms = y.rooms
  /\ \A k \in HostId :
       /\ x.players[k].room = y.players[k].room
       /\ k # h => x.players[k] = y.players[k]
       /\ x.view[k] = IF k = h THEN NoView ELSE y.view[k]

\* peer::close of the connected client h: its seat and its player go with it, and its
\* HostID is free.
LEMMA CloseOk ==
  ASSUME NEW w, Ok(w, {}, {}), NEW h \in w.net.up
  PROVE  /\ Ok(close(w, h), {}, {})
         /\ close(w, h).net.up = w.net.up \ {h}
         /\ \A k \in HostId :
              /\ close(w, h).players[k].user = IF k = h THEN NoUser ELSE w.players[k].user
              /\ close(w, h).players[k].room = IF k = h THEN NoRoom ELSE w.players[k].room
         /\ \E v, y : Closed(w, close(w, h), h, v, y)
<1> DEFINE v == [w EXCEPT !.net = MarkClosed(w.net, {h})]
           out == on_client_leave(v, h)
           x == close(w, h)
           rest == remove_from_room(v, h)
<1>1. w \in WorldType /\ Sound(w.net, {}) /\ h \in HostId /\ h \in w.net.peers
  BY SoundTyped DEF Ok
<1>2. PICK S : S = {h}
  OBVIOUS
<1>3. PICK n : n = MarkClosed(w.net, S)
  OBVIOUS
<1>4. /\ Sound(n, S) /\ n.peers = w.net.peers /\ n.up = w.net.up \ S
      /\ n.groups = w.net.groups /\ n.members = w.net.members
  <2>1. PICK m : m = w.net
    OBVIOUS
  <2>2. S \in SUBSET m.peers
    BY <1>1, <1>2, <2>1
  <2>3. /\ Sound(MarkClosed(m, S), S)
        /\ MarkClosed(m, S).peers = m.peers
        /\ MarkClosed(m, S).up = m.up \ S
        /\ MarkClosed(m, S).groups = m.groups
        /\ MarkClosed(m, S).members = m.members
    BY <1>1, <2>1, <2>2, MarkClosedSound
  <2> QED
    BY <1>3, <2>1, <2>3
<1>5. n \in NetType
  BY <1>4, SoundTyped
<1>6. x = [out EXCEPT !.net = on_peer_closed(out.net, S), !.view[h] = NoView]
  BY <1>2 DEF close
<1>7. v = [w EXCEPT !.net = n]
  BY <1>2, <1>3
<1> HIDE DEF v
<1>8. /\ v \in WorldType /\ v.net = n /\ v.players = w.players /\ v.rooms = w.rooms
      /\ v.m_rooms = w.m_rooms /\ v.next = w.next /\ v.view = w.view
  BY <1>1, <1>5, <1>7 DEF WorldType
<1>9. Ok(v, {}, S)
  <2>1. \A r \in Room : (IsListed(v, r) <=> IsListed(w, r)) /\ Members(v, r) = Members(w, r)
    BY <1>8 DEF IsListed, Members
  <2>2. PlayersOk(v, S)
    BY <1>1, <1>2, <1>4, <1>8 DEF Ok, PlayersOk
  <2>3. SeatsOk(v)
    BY <1>8, SeatsFrame, Zenon DEF Ok
  <2>4. ListOk(v, {})
    <3>1. \A k \in HostId : v.players[k].room \in Room \cup {NoRoom}
      BY <1>8 DEF WorldType, PlayerType
    <3> QED
      BY <1>8, <2>1, <3>1 DEF Ok, ListOk
  <2>5. MastersOk(v, {})
    BY <1>8, <2>1 DEF Ok, MastersOk
  <2>6. GroupsOk(v)
    BY <1>4, <1>8, <2>1 DEF Ok, GroupsOk
  <2> QED
    BY <1>4, <1>8, <2>2, <2>3, <2>4, <2>5, <2>6 DEF Ok
<1>10. /\ Ok(out, {}, S) /\ out.net.up = n.up /\ out.net.peers = n.peers
       /\ \A k \in HostId :
            /\ out.players[k].user = IF k = h THEN NoUser ELSE w.players[k].user
            /\ out.players[k].room = IF k = h THEN NoRoom ELSE w.players[k].room
            /\ out.players[k].room = rest.players[k].room
            /\ k # h => out.players[k] = rest.players[k]
       /\ out.rooms = rest.rooms /\ out.view = rest.view /\ Ok(rest, {}, S)
  <2>1. CASE ~ LoggedOn(v, h)
    <3>1. out = v
      BY <2>1 DEF on_client_leave
    <3>2. w.players[h].user = NoUser /\ w.players[h].room = NoRoom
      BY <1>1, <1>8, <2>1 DEF LoggedOn, Ok, PlayersOk
    <3>3. rest = v
      BY <1>8, <3>2 DEF remove_from_room
    <3> QED
      BY <1>8, <1>9, <3>1, <3>2, <3>3
  <2>2. CASE LoggedOn(v, h)
    <3> DEFINE y == rest
    <3>1. Ok(y, {}, S) /\ Removed(v, y, h)
      BY <1>1, <1>9, RemoveOk
    <3>2. out = [y EXCEPT !.players[h] = NoPlayer]
      BY <2>2 DEF on_client_leave
    <3> HIDE DEF y, out
    <3>3. y \in WorldType
      BY <3>1 DEF Ok
    <3>4. /\ out \in WorldType /\ out.net = y.net /\ out.rooms = y.rooms
          /\ out.m_rooms = y.m_rooms /\ out.players = [y.players EXCEPT ![h] = NoPlayer]
          /\ out.view = y.view
      BY <1>1, <3>2, <3>3, NullTyped DEF WorldType
    <3>5. \A k \in HostId : out.players[k] = IF k = h THEN NoPlayer ELSE y.players[k]
      BY <3>3, <3>4 DEF WorldType
    <3>6. /\ NoPlayer.user = NoUser /\ NoPlayer.room = NoRoom
          /\ y.players[h].room = NoRoom
      BY <1>1, <3>1 DEF NoPlayer, Removed
    <3>7. \A r \in Room : (IsListed(out, r) <=> IsListed(y, r)) /\ Members(out, r) = Members(y, r)
      BY <1>1, <3>4, <3>5, <3>6, NullTyped DEF IsListed, Members
    <3>8. PlayersOk(out, S)
      BY <3>1, <3>4, <3>5, <3>6 DEF Ok, PlayersOk
    <3>9. SeatsOk(out)
      BY <1>1, <3>1, <3>3, <3>4, <3>5, <3>6, SeatsOfOthers, Zenon DEF Ok
    <3>10. ListOk(out, {})
      <4>1. \A k \in HostId : y.players[k].room \in Room \cup {NoRoom}
        BY <3>3 DEF WorldType, PlayerType
      <4> QED
        BY <3>1, <3>4, <3>5, <3>6, <3>7, <4>1 DEF Ok, ListOk
    <3>11. MastersOk(out, {}) /\ GroupsOk(out)
      BY <3>1, <3>4, <3>7 DEF Ok, MastersOk, GroupsOk
    <3>12. Ok(out, {}, S)
      BY <3>1, <3>4, <3>8, <3>9, <3>10, <3>11 DEF Ok
    <3>13. out.rooms = rest.rooms /\ out.view = rest.view /\ Ok(rest, {}, S)
      BY <3>1, <3>4 DEF y
    <3>14. \A k \in HostId : /\ out.players[k].room = rest.players[k].room
                             /\ k # h => out.players[k] = rest.players[k]
      BY <3>5, <3>6 DEF y
    <3> QED
      BY <1>8, <3>1, <3>4, <3>5, <3>6, <3>12, <3>13, <3>14 DEF Removed
  <2> QED
    BY <2>1, <2>2
<1> HIDE DEF out, x
<1>11. out \in WorldType /\ Sound(out.net, S) /\ S \subseteq out.net.peers
  BY <1>1, <1>2, <1>4, <1>10 DEF Ok
<1>12. PICK m : m = on_peer_closed(out.net, S)
  OBVIOUS
<1>13. /\ Sound(m, {}) /\ m.peers = out.net.peers \ S /\ m.up = out.net.up
       /\ m.groups = out.net.groups
       /\ \A g \in HostId : m.members[g] = out.net.members[g] \ S
  <2>1. PICK o : o = out.net
    OBVIOUS
  <2>2. /\ Sound(on_peer_closed(o, S), {})
        /\ on_peer_closed(o, S).peers = o.peers \ S
        /\ on_peer_closed(o, S).up = o.up
        /\ on_peer_closed(o, S).groups = o.groups
        /\ \A g \in HostId : on_peer_closed(o, S).members[g] = o.members[g] \ S
    BY <1>11, <2>1, PeerClosedSound
  <2> QED
    BY <1>12, <2>1, <2>2
<1>14. /\ x \in WorldType /\ x.net = m /\ x.players = out.players /\ x.rooms = out.rooms
       /\ x.m_rooms = out.m_rooms /\ x.view = [out.view EXCEPT ![h] = NoView]
  <2>1. x = [out EXCEPT !.net = m, !.view[h] = NoView]
    BY <1>6, <1>12
  <2>2. m \in NetType
    BY <1>13, SoundTyped
  <2> QED
    BY <1>1, <1>11, <2>1, <2>2, NullTyped DEF WorldType
<1>15. \A r \in Room : (IsListed(x, r) <=> IsListed(out, r)) /\ Members(x, r) = Members(out, r)
  BY <1>14 DEF IsListed, Members
<1>16. PlayersOk(x, {})
  <2>1. out.net.up \cap S = {} /\ out.net.up \cup S = out.net.peers
    BY <1>10, <1>11 DEF Ok, PlayersOk, Sound
  <2>2. x.net.up \cup {} = x.net.peers
    BY <1>13, <1>14, <2>1
  <2>3. PlayersOk(out, S) /\ \A k \in HostId : k \in S <=> k = h
    BY <1>2, <1>10 DEF Ok
  <2>4. ASSUME NEW k \in HostId, x.players[k].user # NoUser PROVE k \in x.net.peers
    BY <1>10, <1>13, <1>14, <2>3, <2>4 DEF PlayersOk
  <2> QED
    BY <1>14, <2>2, <2>3, <2>4 DEF PlayersOk
<1>17. SeatsOk(x) /\ MastersOk(x, {})
  <2>1. SeatsOk(x)
    BY <1>10, <1>14, SeatsFrame, Zenon DEF Ok
  <2>2. MastersOk(x, {})
    BY <1>10, <1>14, <1>15 DEF Ok, MastersOk
  <2> QED
    BY <2>1, <2>2
<1>18. ListOk(x, {})
  <2>1. \A k \in HostId : out.players[k].room \in Room \cup {NoRoom}
    BY <1>11 DEF WorldType, PlayerType
  <2> QED
    BY <1>10, <1>14, <1>15, <2>1 DEF Ok, ListOk
<1>19. GroupsOk(x)
  <2>1. ASSUME NEW r \in Room, IsListed(x, r)
        PROVE  x.rooms[r].p2p_group \in x.net.groups /\ x.net.members[x.rooms[r].p2p_group] = Members(x, r)
    <3>1. out.rooms[r].p2p_group \in out.net.groups /\ out.net.members[out.rooms[r].p2p_group] = Members(out, r)
      BY <1>10, <1>15, <2>1 DEF Ok, GroupsOk
    <3>2. out.rooms[r].p2p_group \in HostId
      BY <1>11, <3>1 DEF WorldType, NetType
    <3>3. Members(out, r) \cap S = {}
      BY <1>2, <1>10, NullTyped DEF Members
    <3>4. PICK g \in HostId : g = out.rooms[r].p2p_group
      BY <3>2
    <3>5. m.members[g] = Members(out, r)
      <4>1. m.members[g] = out.net.members[g] \ S
        BY <1>13
      <4>2. Members(out, r) \ S = Members(out, r)
        BY <3>3
      <4>3. out.net.members[g] = Members(out, r)
        BY <3>1, <3>4
      <4> QED
        BY <4>1, <4>2, <4>3
    <3> QED
      BY <1>13, <1>14, <1>15, <3>1, <3>4, <3>5
  <2> QED
    BY <1>10, <1>13, <1>14, <1>15, <2>1 DEF Ok, GroupsOk
<1>20. Ok(x, {}, {})
  BY <1>13, <1>14, <1>16, <1>17, <1>18, <1>19 DEF Ok
<1>21. \A k \in HostId : x.view[k] = IF k = h THEN NoView ELSE rest.view[k]
  BY <1>10, <1>11, <1>14 DEF WorldType
<1>22. Closed(w, x, h, v, rest)
  BY <1>2, <1>8, <1>9, <1>10, <1>14, <1>21 DEF Closed
<1> HIDE DEF rest
<1> QED
  BY <1>2, <1>4, <1>10, <1>13, <1>14, <1>20, <1>22 DEF x

\* x is one, where nobody but h is logged on as u, with h in its place, who sits nowhere.
LoggedIn(w, x, h, u, one) ==
  /\ one = w \/ \E o \in w.net.up : one = close(w, o)
  /\ Ok(one, {}, {}) /\ one.players[h].room = NoRoom
  /\ x.rooms = one.rooms
  /\ \A k \in HostId :
       /\ x.players[k] = IF k = h THEN [NoPlayer EXCEPT !.user = u] ELSE one.players[k]
       /\ x.view[k] = IF k = h THEN NoView ELSE one.view[k]

\* Logon_CLGS on a connection that is in no room: the other connection of the account,
\* if there is one, is closed first.
LEMMA LogonOk ==
  ASSUME NEW w, Ok(w, {}, {}), NEW h \in w.net.up, w.players[h].room = NoRoom, NEW u \in User
  PROVE  /\ Ok(logon(w, h, u), {}, {})
         /\ \E one : LoggedIn(w, logon(w, h, u), h, u, one)
<1> DEFINE old == Older(w, h, u)
           one == IF old = {} THEN w ELSE close(w, Min(old))
           p == [NoPlayer EXCEPT !.user = u]
           x == logon(w, h, u)
<1>1. w \in WorldType /\ h \in HostId /\ w.net.up = w.net.peers
  BY SoundTyped DEF Ok, PlayersOk
<1>2. u # NoUser
  BY GameAssumption
<1>3. p \in PlayerType /\ p.user = u /\ p.room = NoRoom
  BY NullTyped DEF PlayerType, NoPlayer
<1>4. x = [one EXCEPT !.players[h] = p, !.view[h] = NoView]
  BY DEF logon
<1>0. /\ Ok(one, {}, {}) /\ h \in one.net.up /\ one.players[h].room = NoRoom
      /\ \A k \in HostId \ {h} : one.players[k].user # u
      /\ one = w \/ \E o \in w.net.up : one = close(w, o)
  <2>1. CASE old = {}
    <3>1. \A k \in HostId \ {h} : w.players[k].user # u
      BY <1>2, <2>1 DEF Older, Ok, PlayersOk
    <3> QED
      BY <2>1, <3>1
  <2>2. CASE old # {}
    <3>1. PICK D : D = old
      OBVIOUS
    <3>2. D \subseteq Nat /\ D # {}
      BY <2>2, <3>1, HostIdAssumption DEF Older, HostId
    <3>3. Min(D) \in D
      BY <3>2, MinInSet
    <3>4. PICK o \in w.net.up : o = Min(old) /\ o # h /\ w.players[o].user = u /\ o \in HostId
      BY <1>1, <3>1, <3>3 DEF Older
    <3>5. one = close(w, o)
      BY <2>2, <3>4
    <3>6. /\ Ok(close(w, o), {}, {})
          /\ close(w, o).net.up = w.net.up \ {o}
          /\ \A k \in HostId :
               /\ close(w, o).players[k].user = IF k = o THEN NoUser ELSE w.players[k].user
               /\ close(w, o).players[k].room = IF k = o THEN NoRoom ELSE w.players[k].room
      BY CloseOk
    <3>7. \A k \in HostId \ {o} : w.players[k].user # u
      BY <1>2, <3>4 DEF Ok, PlayersOk
    <3> HIDE DEF one
    <3> QED
      BY <1>1, <1>2, <3>4, <3>5, <3>6, <3>7
  <2> QED
    BY <2>1, <2>2
<1> HIDE DEF one, p, x, old
<1>5. /\ Ok(one, {}, {}) /\ h \in one.net.up /\ one.players[h].room = NoRoom
      /\ \A k \in HostId \ {h} : one.players[k].user # u
  BY <1>0
<1>6. one \in WorldType
  BY <1>5 DEF Ok
<1>7. /\ x \in WorldType /\ x.net = one.net /\ x.rooms = one.rooms /\ x.m_rooms = one.m_rooms
      /\ x.players = [one.players EXCEPT ![h] = p]
  BY <1>1, <1>3, <1>4, <1>6, NullTyped DEF WorldType
<1>16. x.view = [one.view EXCEPT ![h] = NoView]
  BY <1>4, <1>6 DEF WorldType
<1>8. \A k \in HostId : x.players[k] = IF k = h THEN p ELSE one.players[k]
  BY <1>6, <1>7 DEF WorldType
<1>9. \A r \in Room : (IsListed(x, r) <=> IsListed(one, r)) /\ Members(x, r) = Members(one, r)
  BY <1>1, <1>3, <1>5, <1>7, <1>8, NullTyped DEF IsListed, Members
<1>10. PlayersOk(x, {})
  BY <1>3, <1>5, <1>7, <1>8, SoundTyped DEF Ok, PlayersOk
<1>11. SeatsOk(x)
  <2>1. SeatsOk(one)
    BY <1>5 DEF Ok
  <2>2. p.room = NoRoom
    BY <1>3
  <2> HIDE DEF p
  <2> QED
    BY <1>1, <1>5, <1>6, <1>7, <1>8, <2>1, <2>2, SeatsOfOthers, Zenon
<1>12. ListOk(x, {})
  <2>1. \A k \in HostId : one.players[k].room \in Room \cup {NoRoom}
    BY <1>6 DEF WorldType, PlayerType
  <2> QED
    BY <1>3, <1>5, <1>7, <1>8, <1>9, <2>1 DEF Ok, ListOk
<1>13. MastersOk(x, {}) /\ GroupsOk(x)
  BY <1>5, <1>7, <1>9 DEF Ok, MastersOk, GroupsOk
<1>14. \A k \in HostId : x.view[k] = IF k = h THEN NoView ELSE one.view[k]
  BY <1>6, <1>16 DEF WorldType
<1>15. LoggedIn(w, x, h, u, one)
  BY <1>0, <1>7, <1>8, <1>14, Zenon DEF LoggedIn, p
<1> QED
  BY <1>5, <1>7, <1>10, <1>11, <1>12, <1>13, <1>15 DEF Ok, x

-----------------------------------------------------------------------------
(* Steps *)

\* m_rooms has the listed rooms and no others.
LEMMA ListedAre ==
  ASSUME NEW w, NEW E, NEW C, Ok(w, E, C)
  PROVE  listed(w) = {r \in Room : IsListed(w, r)}
<1>1. w \in WorldType
  BY DEF Ok
<1>2. \A r \in Room : w.rooms[r].number \in RoomNumber
  BY <1>1 DEF WorldType, RoomType
<1>3. \A n \in RoomNumber : w.m_rooms[n] # NoRoom =>
         w.m_rooms[n] \in Room /\ IsListed(w, w.m_rooms[n])
  BY <1>1 DEF Ok, ListOk, WorldType, IsListed
<1>4. \A r \in Room : IsListed(w, r) => r \in listed(w)
  BY <1>2, NullTyped DEF listed, IsListed
<1> QED
  BY <1>3, <1>4 DEF listed

\* Rooms that nobody refers to any more go; nobody misses them.
LEMMA CollectOk ==
  ASSUME NEW w, Ok(w, {}, {})
  PROVE  /\ Ok(Collect(w), {}, {})
         /\ Collect(w).players = w.players /\ Collect(w).net = w.net
         /\ Collect(w).m_rooms = w.m_rooms /\ Collect(w).view = w.view
         /\ \A r \in Room : Collect(w).rooms[r] = IF IsListed(w, r) THEN w.rooms[r] ELSE NullRoom
<1> DEFINE x == Collect(w)
           R == [r \in Room |-> IF r \in listed(w) \/ \E h \in HostId : w.players[h].room = r
                                THEN w.rooms[r] ELSE NullRoom]
<1>1. w \in WorldType
  BY DEF Ok
<1>2. listed(w) = {r \in Room : IsListed(w, r)}
  BY ListedAre
<1>3. \A r \in Room : R[r] = IF IsListed(w, r) THEN w.rooms[r] ELSE NullRoom
  BY <1>2, NullTyped DEF Ok, ListOk
<1>4. R \in [Room -> RoomType]
  BY <1>1, <1>3, NullTyped DEF WorldType
<1>5. x = [w EXCEPT !.rooms = R]
  BY DEF Collect
<1> HIDE DEF R, x
<1>6. /\ x \in WorldType /\ x.net = w.net /\ x.players = w.players /\ x.rooms = R
      /\ x.m_rooms = w.m_rooms /\ x.view = w.view
  BY <1>1, <1>4, <1>5 DEF WorldType
<1>7. 0 \in RoomNumber /\ NullRoom.number = 0 /\ \A s \in Slot : NullRoom.slots[s] = Nobody
  BY GameAssumption DEF RoomNumber, NullRoom, EmptySeats
<1>8. \A r \in Room : IsListed(x, r) <=> IsListed(w, r)
  <2>1. \A r \in Room : ~ (w.m_rooms[0] = r)
    BY <1>7, NullTyped DEF Ok, ListOk
  <2> QED
    BY <1>3, <1>6, <1>7, <2>1 DEF IsListed
<1>9. \A r \in Room : Members(x, r) = Members(w, r)
  BY <1>6 DEF Members
<1>10. \A r \in Room : IsListed(w, r) => x.rooms[r] = w.rooms[r]
  BY <1>3, <1>6
<1>11. \A h \in HostId : w.players[h].room \in Room \cup {NoRoom}
  BY <1>1 DEF WorldType, PlayerType
<1>12. PlayersOk(x, {})
  BY <1>6 DEF Ok, PlayersOk
<1>13. SeatsOk(x)
  <2>1. ASSUME NEW h \in HostId, x.players[h].room # NoRoom
        PROVE  x.rooms[x.players[h].room].slots[x.players[h].slot] = h
    <3>1. w.players[h].room \in Room /\ IsListed(w, w.players[h].room)
      BY <1>6, <1>11, <2>1 DEF Ok, ListOk
    <3> QED
      BY <1>6, <1>10, <2>1, <3>1 DEF Ok, SeatsOk
  <2>2. ASSUME NEW r \in Room, NEW s \in Slot, x.rooms[r].slots[s] # Nobody
        PROVE  x.players[x.rooms[r].slots[s]].room = r /\ x.players[x.rooms[r].slots[s]].slot = s
    <3>1. x.rooms[r] = w.rooms[r]
      BY <1>3, <1>6, <1>7, <2>2
    <3> QED
      BY <1>6, <2>2, <3>1, ZenonT(60) DEF Ok, SeatsOk
  <2> QED
    BY <2>1, <2>2 DEF SeatsOk
<1>14. ListOk(x, {})
  <2>1. ASSUME NEW n \in RoomNumber, x.m_rooms[n] # NoRoom
        PROVE  n # 0 /\ x.rooms[x.m_rooms[n]].number = n
    <3>1. w.m_rooms[n] \in Room /\ n # 0 /\ w.rooms[w.m_rooms[n]].number = n
      BY <1>1, <1>6, <2>1 DEF Ok, ListOk, WorldType
    <3>2. IsListed(w, w.m_rooms[n])
      BY <3>1 DEF IsListed
    <3> QED
      BY <1>6, <1>10, <3>1, <3>2
  <2> QED
    BY <1>6, <1>8, <1>9, <1>11, <2>1 DEF Ok, ListOk
<1>15. MastersOk(x, {}) /\ GroupsOk(x)
  BY <1>6, <1>8, <1>9, <1>10 DEF Ok, MastersOk, GroupsOk
<1> QED
  BY <1>3, <1>6, <1>12, <1>13, <1>14, <1>15 DEF Ok, x

\* Become makes w the world, without the rooms that nobody refers to.
LEMMA BecomeOk ==
  ASSUME NEW w, Ok(w, {}, {}), Become(w)
  PROVE  World' = Collect(w) /\ IInv'
<1>1. PICK x : x = Collect(w)
  OBVIOUS
<1>2. x \in WorldType /\ Ok(x, {}, {})
  BY <1>1, CollectOk DEF Ok
<1>3. World' = x
  BY <1>1, <1>2 DEF Become, World, WorldType
<1> QED
  BY <1>1, <1>2, <1>3 DEF IInv

\* The program starts in the invariant.
LEMMA InitOk ==
  ASSUME Init
  PROVE  IInv
<1> DEFINE w == World
<1>1. /\ w.net = EmptyNet /\ w.players = [h \in HostId |-> NoPlayer]
      /\ w.rooms = [r \in Room |-> NullRoom] /\ w.m_rooms = [n \in RoomNumber |-> NoRoom]
  BY DEF Init, World
<1>2. w \in WorldType
  <2>1. EmptyNet \in NetType
    BY EmptySound, SoundTyped
  <2>2. 1 \in RoomNumber
    BY GameAssumption DEF RoomNumber
  <2>3. TypeOK
    BY <2>1, <2>2, NullTyped DEF Init, TypeOK
  <2> QED
    BY <2>3, WorldTyped
<1> HIDE DEF w
<1>3. \A h \in HostId : w.players[h].user = NoUser /\ w.players[h].room = NoRoom
  BY <1>1 DEF NoPlayer
<1>4. \A r \in Room : ~ IsListed(w, r)
  <2>1. \A r \in Room : w.rooms[r].number \in RoomNumber
    BY <1>2 DEF WorldType, RoomType
  <2> QED
    BY <1>1, <2>1, NullTyped DEF IsListed
<1>5. \A r \in Room, s \in Slot : w.rooms[r].slots[s] = Nobody
  BY <1>1 DEF NullRoom, EmptySeats
<1>6. EmptyNet.up = {} /\ EmptyNet.peers = {} /\ EmptyNet.groups = {}
  BY DEF EmptyNet
<1>7. PlayersOk(w, {}) /\ SeatsOk(w) /\ ListOk(w, {}) /\ MastersOk(w, {}) /\ GroupsOk(w)
  BY <1>1, <1>3, <1>4, <1>5, <1>6 DEF PlayersOk, SeatsOk, ListOk, MastersOk, GroupsOk
<1> QED
  BY <1>1, <1>2, <1>7, EmptySound DEF IInv, Ok, w

\* A world that differs in one player, in what does not concern its seat.
LEMMA PlayerUpdate ==
  ASSUME NEW w \in WorldType, NEW h \in HostId, NEW p \in PlayerType,
         p.user = w.players[h].user, p.room = w.players[h].room, p.slot = w.players[h].slot
  PROVE  /\ SameSeats(w, [w EXCEPT !.players[h] = p])
         /\ [w EXCEPT !.players[h] = p].rooms = w.rooms
         /\ [w EXCEPT !.players[h] = p].view = w.view
<1> DEFINE x == [w EXCEPT !.players[h] = p]
<1>1. /\ x \in WorldType /\ x.net = w.net /\ x.m_rooms = w.m_rooms /\ x.rooms = w.rooms
      /\ x.view = w.view /\ x.players = [w.players EXCEPT ![h] = p]
  BY DEF WorldType
<1>2. \A k \in HostId : x.players[k] = IF k = h THEN p ELSE w.players[k]
  BY <1>1 DEF WorldType
<1> HIDE DEF x
<1>3. SameSeats(w, x)
  BY <1>1, <1>2 DEF SameSeats
<1> QED
  BY <1>1, <1>3 DEF x

\* A world that differs in one room, in what does not concern its seats.
LEMMA RoomUpdate ==
  ASSUME NEW w \in WorldType, NEW r \in Room, NEW room \in RoomType,
         room.number = w.rooms[r].number, room.slots = w.rooms[r].slots,
         room.master_slot = w.rooms[r].master_slot, room.p2p_group = w.rooms[r].p2p_group
  PROVE  /\ SameSeats(w, [w EXCEPT !.rooms[r] = room])
         /\ [w EXCEPT !.rooms[r] = room].players = w.players
         /\ [w EXCEPT !.rooms[r] = room].view = w.view
         /\ \A q \in Room : [w EXCEPT !.rooms[r] = room].rooms[q] = IF q = r THEN room ELSE w.rooms[q]
<1> DEFINE x == [w EXCEPT !.rooms[r] = room]
<1>1. /\ x \in WorldType /\ x.net = w.net /\ x.m_rooms = w.m_rooms
      /\ x.players = w.players /\ x.view = w.view /\ x.rooms = [w.rooms EXCEPT ![r] = room]
  BY DEF WorldType
<1>2. \A q \in Room : x.rooms[q] = IF q = r THEN room ELSE w.rooms[q]
  BY <1>1 DEF WorldType
<1> HIDE DEF x
<1>3. SameSeats(w, x)
  BY <1>1, <1>2 DEF SameSeats
<1> QED
  BY <1>1, <1>2, <1>3 DEF x

\* A world that differs in what clients were told.
LEMMA ViewUpdate ==
  ASSUME NEW w, NEW y, SameSeats(w, y), NEW T \in [HostId -> ViewType]
  PROVE  SameSeats(w, [y EXCEPT !.view = T])
<1> DEFINE x == [y EXCEPT !.view = T]
<1>1. y \in WorldType
  BY DEF SameSeats
<1>2. /\ x \in WorldType /\ x.net = y.net /\ x.m_rooms = y.m_rooms /\ x.rooms = y.rooms
      /\ x.players = y.players
  BY <1>1 DEF WorldType
<1> HIDE DEF x
<1>3. SameSeats(w, x)
  BY <1>2 DEF SameSeats
<1> QED
  BY <1>3 DEF x
=============================================================================
