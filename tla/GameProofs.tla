----------------------------- MODULE GameProofs -----------------------------
(***************************************************************************)
(* The theorems about GameServer.  What its clients have been told, the      *)
(* size of rooms and what one request may do to the seats come first: as in  *)
(* GameWorldProofs the predicates are about worlds, and each handler has a   *)
(* lemma that says what it does to them.  Then every action leads to a world *)
(* that satisfies these invariants and those of GameWorldProofs, and they    *)
(* say what the properties of GameServer say.                                *)
(***************************************************************************)
EXTENDS GameWorldProofs, FiniteSetTheorems

-----------------------------------------------------------------------------
(* What clients know *)

\* The look that belongs on a seat, and whether the seat must show as ready.
LookOf(w, o) == IF o = Nobody THEN FirstLook ELSE w.players[o].look
IsReady(w, o) == o # Nobody /\ w.players[o].ready

\* The view v shows the room as the server has it, and shows nobody who is ready as not
\* ready.
Describes(w, v, room) ==
  /\ v.closed = room.closed /\ v.master = room.master_slot /\ v.setting = room.setting
  /\ \A s \in Slot :
       /\ v.slots[s] = room.slots[s]
       /\ v.looks[s] = LookOf(w, room.slots[s])
       /\ IsReady(w, room.slots[s]) => s \in v.ready

\* Whoever is in a room has been told it, and the others see nobody on any seat.
ViewsOk(w) ==
  \A h \in HostId :
    /\ w.players[h].room = NoRoom => \A s \in Slot : w.view[h].slots[s] = Nobody
    /\ \A r \in Room : w.players[h].room = r => Describes(w, w.view[h], w.rooms[r])

\* Seats are taken within the size of the room, and not while they are closed.
SizesOk(w) ==
  \A r \in Room, s \in Slot : w.rooms[r].slots[s] # Nobody =>
    s < w.rooms[r].max_players /\ s \notin w.rooms[r].closed

\* All that is invariant of a world between two requests.
Good(w) == Ok(w, {}, {}) /\ ViewsOk(w) /\ SizesOk(w)

\* The inductive invariant, for the views and the sizes of rooms as well.
VInv == Good(World)

\* A description stays right as long as the room, the looks of those in it and the ready
\* flags that are set stay as they are.
LEMMA StillDescribes ==
  ASSUME NEW w, NEW x, NEW v, NEW a, NEW b, Describes(w, v, a),
         b.closed = a.closed, b.master_slot = a.master_slot, b.setting = a.setting,
         \A s \in Slot : b.slots[s] = a.slots[s],
         \A s \in Slot : a.slots[s] # Nobody =>
           /\ x.players[a.slots[s]].look = w.players[a.slots[s]].look
           /\ x.players[a.slots[s]].ready => w.players[a.slots[s]].ready
  PROVE  Describes(x, v, b)
<1>1. v.closed = b.closed /\ v.master = b.master_slot /\ v.setting = b.setting
  BY DEF Describes
<1>2. ASSUME NEW s \in Slot
      PROVE  /\ v.slots[s] = b.slots[s]
             /\ v.looks[s] = LookOf(x, b.slots[s])
             /\ IsReady(x, b.slots[s]) => s \in v.ready
  <2>1. PICK o : o = a.slots[s]
    OBVIOUS
  <2>2. b.slots[s] = o
    BY <2>1
  <2>3. v.slots[s] = o /\ v.looks[s] = LookOf(w, o) /\ (IsReady(w, o) => s \in v.ready)
    BY <2>1, Zenon DEF Describes
  <2>4. o # Nobody => /\ x.players[o].look = w.players[o].look
                      /\ x.players[o].ready => w.players[o].ready
    BY <2>1, Zenon
  <2>5. LookOf(x, o) = LookOf(w, o) /\ (IsReady(x, o) => IsReady(w, o))
    BY <2>4 DEF LookOf, IsReady
  <2> QED
    BY <2>2, <2>3, <2>5, Zenon
<1> QED
  BY <1>1, <1>2, Zenon DEF Describes

\* What somebody in a room has been told.
LEMMA Told ==
  ASSUME NEW w, ViewsOk(w), NEW h \in HostId, NEW r \in Room, w.players[h].room = r
  PROVE  Describes(w, w.view[h], w.rooms[r])
BY Zenon DEF ViewsOk

\* What the others have been told: no seat is taken.
LEMMA ToldNothing ==
  ASSUME NEW w, ViewsOk(w), NEW h \in HostId, w.players[h].room = NoRoom, NEW s \in Slot
  PROVE  w.view[h].slots[s] = Nobody
BY Zenon DEF ViewsOk

\* A room object is a room, and whoever is on a seat is a player.
LEMMA SeatTyped ==
  ASSUME NEW w \in WorldType, NEW r \in Room, NEW s \in Slot
  PROVE  w.rooms[r].slots[s] \in HostId \cup {Nobody}
<1>1. w.rooms[r] \in RoomType
  BY DEF WorldType
<1> QED
  BY <1>1 DEF RoomType, Seats

\* Members of a room are connected, unless they are closing.
LEMMA SeatedAreUp ==
  ASSUME NEW w, NEW E, NEW C, Ok(w, E, C), NEW h \in HostId, w.players[h].room # NoRoom,
         h \notin C
  PROVE  h \in w.net.up
<1>1. w.players[h].user # NoUser
  BY DEF Ok, PlayersOk
<1>2. h \in w.net.peers
  BY <1>1, Zenon DEF Ok, PlayersOk
<1>3. w.net.peers = w.net.up \cup C
  BY DEF Ok, PlayersOk
<1> QED
  BY <1>2, <1>3

-----------------------------------------------------------------------------
(* Leaving a room *)

\* Nothing but players leaving room r happens to the rooms: a seat that changes is one
\* of r that becomes empty, and a new master had its seat before and keeps it.
Thins(w, x, r) ==
  \A q \in Room :
    /\ x.rooms[q].playing = w.rooms[q].playing
    /\ x.rooms[q].max_players = w.rooms[q].max_players
    /\ x.rooms[q].closed = w.rooms[q].closed
    /\ \A s \in Slot :
         /\ x.rooms[q].slots[s] # w.rooms[q].slots[s] => q = r /\ x.rooms[q].slots[s] = Nobody
         /\ x.rooms[q].master_slot = s =>
              \/ w.rooms[q].master_slot = s
              \/ w.rooms[q].slots[s] # Nobody /\ x.rooms[q].slots[s] = w.rooms[q].slots[s]

\* Rooms that only lose players stay within their sizes.
LEMMA ThinsSizes ==
  ASSUME NEW w, NEW x, NEW r, SizesOk(w), Thins(w, x, r)
  PROVE  SizesOk(x)
<1> SUFFICES ASSUME NEW q \in Room, NEW s \in Slot, x.rooms[q].slots[s] # Nobody
             PROVE  s < x.rooms[q].max_players /\ s \notin x.rooms[q].closed
  BY DEF SizesOk
<1>1. x.rooms[q].slots[s] = w.rooms[q].slots[s]
  BY Zenon DEF Thins
<1>2. w.rooms[q].slots[s] # Nobody
  BY <1>1
<1>3. s < w.rooms[q].max_players /\ s \notin w.rooms[q].closed
  BY <1>2, Zenon DEF SizesOk
<1>4. x.rooms[q].max_players = w.rooms[q].max_players /\ x.rooms[q].closed = w.rooms[q].closed
  BY Zenon DEF Thins
<1> QED
  BY <1>3, <1>4, Zenon

\* A room that stays as it is loses nobody.
LEMMA ThinsItself ==
  ASSUME NEW w, NEW x, NEW r, x.rooms = w.rooms
  PROVE  Thins(w, x, r)
BY Zenon DEF Thins

\* Players who leave a room empty their seats, and the master's seat goes to somebody who
\* stays.
LEMMA VacateThins ==
  ASSUME NEW w, NEW C, Ok(w, {}, C), NEW r \in Room, NEW S \in SUBSET Members(w, r), S # {}
  PROVE  Thins(w, Vacate(w, r, S), r)
<1> DEFINE x == Vacate(w, r, S)
           seats == SeatsOf(w, S)
<1>1. w \in WorldType /\ Sound(w.net, C) /\ S \in SUBSET HostId
  BY DEF Ok, Members
<1>2. Vacated(w, x, r, S)
  BY <1>1, VacateFields
<1>3. IF Taken(w.rooms[r]) \subseteq seats THEN Emptied(w, x, r, S) ELSE Thinned(w, x, r, S)
  BY <1>1, VacateFields
<1> HIDE DEF x, seats
<1>4. ASSUME NEW q \in Room
      PROVE  /\ x.rooms[q].playing = w.rooms[q].playing
             /\ x.rooms[q].max_players = w.rooms[q].max_players
             /\ x.rooms[q].closed = w.rooms[q].closed
  <2>1. CASE q = r
    BY <1>2, <2>1 DEF Vacated, SameRoom
  <2>2. CASE q # r
    BY <1>2, <2>2 DEF Vacated
  <2> QED
    BY <2>1, <2>2
<1>5. ASSUME NEW q \in Room, NEW s \in Slot, x.rooms[q].slots[s] # w.rooms[q].slots[s]
      PROVE  q = r /\ x.rooms[q].slots[s] = Nobody
  <2>1. q = r
    BY <1>2, <1>5 DEF Vacated
  <2> QED
    BY <1>2, <1>5, <2>1 DEF Vacated, seats
<1>6. ASSUME NEW q \in Room, NEW s \in Slot, x.rooms[q].master_slot = s,
             w.rooms[q].master_slot # s
      PROVE  w.rooms[q].slots[s] # Nobody /\ x.rooms[q].slots[s] = w.rooms[q].slots[s]
  <2>1. q = r
    BY <1>2, <1>6 DEF Vacated
  <2>2. Thinned(w, x, r, S) /\ ~ (Taken(w.rooms[r]) \subseteq seats)
    BY <1>3, <1>6, <2>1 DEF Emptied
  <2>3. s = new_master(w.rooms[r], seats)
    BY <1>6, <2>1, <2>2 DEF Thinned, seats
  <2>4. s = Min(Taken(w.rooms[r]) \ seats)
    BY <1>6, <2>1, <2>3 DEF new_master
  <2>5. PICK T : T = Taken(w.rooms[r]) \ seats
    OBVIOUS
  <2>6. T # {} /\ T \subseteq Nat
    BY <2>2, <2>5, NullTyped DEF Taken
  <2>7. s \in T
    BY <2>4, <2>5, <2>6, MinInSet
  <2>8. w.rooms[r].slots[s] # Nobody /\ s \notin seats
    BY <2>5, <2>7 DEF Taken
  <2>9. x.rooms[r].slots[s] = w.rooms[r].slots[s]
    BY <1>2, <2>8 DEF Vacated, seats
  <2> QED
    BY <2>1, <2>8, <2>9
<1>7. Thins(w, x, r)
  BY <1>4, <1>5, <1>6, Zenon DEF Thins
<1> QED
  BY <1>7 DEF x

\* Whoever stays is told which seats became empty and who the master is, and whoever left
\* forgets the room.
LEMMA VacateViews ==
  ASSUME NEW w, NEW C, Ok(w, {}, C), ViewsOk(w),
         NEW r \in Room, NEW S \in SUBSET Members(w, r), S # {}, C \subseteq S
  PROVE  ViewsOk(Vacate(w, r, S))
<1> DEFINE x == Vacate(w, r, S)
           seats == SeatsOf(w, S)
<1>1. w \in WorldType /\ Sound(w.net, C) /\ S \in SUBSET HostId /\ SeatsOk(w)
  BY DEF Ok, Members
<1>2. Vacated(w, x, r, S)
  BY <1>1, VacateFields
<1>3. IF Taken(w.rooms[r]) \subseteq seats THEN Emptied(w, x, r, S) ELSE Thinned(w, x, r, S)
  BY <1>1, VacateFields
<1>4. Ok(x, {}, C) /\ x.net.up = w.net.up
  BY VacateOk
<1> HIDE DEF x, seats
<1>5. x \in WorldType /\ SeatsOk(x)
  BY <1>4 DEF Ok
<1>6. Occupants(x.rooms[r]) = Members(x, r)
  BY <1>5, OccupantsAreMembers
<1>7. ASSUME NEW o \in HostId
      PROVE  /\ x.players[o].room = IF o \in S THEN NoRoom ELSE w.players[o].room
             /\ x.players[o].look = w.players[o].look
             /\ x.players[o].ready => w.players[o].ready
  <2>1. w.players[o] \in PlayerType
    BY <1>1 DEF WorldType
  <2>2. x.players[o] = IF o \in S THEN [w.players[o] EXCEPT !.room = NoRoom, !.ready = FALSE]
                       ELSE w.players[o]
    BY <1>2, Zenon DEF Vacated
  <2> QED
    BY <2>1, <2>2 DEF PlayerType
<1>8. ASSUME NEW q \in Room, NEW s \in Slot, w.rooms[q].slots[s] # Nobody
      PROVE  /\ x.players[w.rooms[q].slots[s]].look = w.players[w.rooms[q].slots[s]].look
             /\ x.players[w.rooms[q].slots[s]].ready => w.players[w.rooms[q].slots[s]].ready
  <2>1. PICK o : o = w.rooms[q].slots[s]
    OBVIOUS
  <2>2. o \in HostId
    BY <1>1, <1>8, <2>1, SeatTyped
  <2> QED
    BY <1>7, <2>1, <2>2
<1>9. ASSUME NEW h \in HostId, h \notin Members(x, r)
      PROVE  x.view[h] = IF h \in S THEN NoView ELSE w.view[h]
  BY <1>3, <1>6, <1>9 DEF Emptied, Thinned
<1>10. ASSUME NEW h \in HostId, x.players[h].room = NoRoom, NEW s \in Slot
       PROVE  x.view[h].slots[s] = Nobody
  <2>1. h \notin Members(x, r)
    BY <1>10, NullTyped DEF Members
  <2>2. CASE h \in S
    BY <1>9, <2>1, <2>2 DEF NoView, EmptySeats
  <2>3. CASE h \notin S
    BY <1>7, <1>9, <1>10, <2>1, <2>3, ToldNothing
  <2> QED
    BY <2>2, <2>3
<1>11. ASSUME NEW h \in HostId, NEW q \in Room, x.players[h].room = q
       PROVE  Describes(x, x.view[h], x.rooms[q])
  <2>1. h \notin S /\ w.players[h].room = q
    BY <1>7, <1>11, NullTyped
  <2>2. Describes(w, w.view[h], w.rooms[q])
    BY <2>1, Told
  <2>3. CASE q # r
    <3>1. h \notin Members(x, r)
      BY <1>11, <2>3 DEF Members
    <3>2. x.view[h] = w.view[h] /\ x.rooms[q] = w.rooms[q]
      BY <1>2, <1>9, <2>1, <2>3, <3>1 DEF Vacated
    <3>3. Describes(x, w.view[h], w.rooms[q])
      BY <1>8, <2>2, StillDescribes
    <3> QED
      BY <3>2, <3>3
  <2>4. CASE q = r
    <3>1. PICK t \in Slot : w.rooms[r].slots[t] = h /\ x.rooms[r].slots[t] = h
      <4>1. PICK t : t = w.players[h].slot
        OBVIOUS
      <4>2. t \in Slot /\ x.players[h].slot = t
        <5>1. w.players[h] \in PlayerType
          BY <1>1 DEF WorldType
        <5>2. x.players[h] = w.players[h]
          BY <1>2, <2>1, Zenon DEF Vacated
        <5> QED
          BY <4>1, <5>1, <5>2 DEF PlayerType
      <4>3. w.rooms[r].slots[t] = h
        BY <1>1, <2>1, <2>4, <4>1, NullTyped, SeatOfPlayer
      <4>4. x.rooms[r].slots[t] = h
        BY <1>5, <1>11, <2>4, <4>2, NullTyped, SeatOfPlayer
      <4> QED
        BY <4>2, <4>3, <4>4
    <3>2. h # Nobody
      BY NullTyped
    <3>3. t \notin seats
      BY <1>2, <3>1, <3>2 DEF Vacated, seats
    <3>4. t \in Taken(w.rooms[r])
      BY <3>1, <3>2 DEF Taken
    <3>5. Thinned(w, x, r, S)
      BY <1>3, <3>3, <3>4
    <3>6. h \in Occupants(x.rooms[r]) \cap x.net.up
      <4>1. h \in Members(x, r)
        BY <1>11, <2>4 DEF Members
      <4>2. h \notin C /\ x.players[h].room # NoRoom
        BY <1>11, <2>1, NullTyped
      <4>3. h \in x.net.up
        BY <1>4, <4>2, SeatedAreUp
      <4> QED
        BY <1>6, <4>1, <4>3
    <3>7. PICK v : v = w.view[h]
      OBVIOUS
    <3>8. x.view[h] = StayTold(v, seats, x.rooms[r].master_slot)
      BY <2>1, <3>5, <3>6, <3>7 DEF Thinned, seats
    <3>9. v \in ViewType
      BY <1>1, <3>7 DEF WorldType
    <3>10. /\ x.view[h].closed = v.closed /\ x.view[h].setting = v.setting
           /\ x.view[h].master = x.rooms[r].master_slot
           /\ x.view[h].ready = v.ready \ seats
           /\ \A s \in Slot :
                /\ x.view[h].slots[s] = IF s \in seats THEN Nobody ELSE v.slots[s]
                /\ x.view[h].looks[s] = IF s \in seats THEN FirstLook ELSE v.looks[s]
      BY <3>8, <3>9 DEF StayTold, ViewType
    <3>11. x.rooms[r].closed = w.rooms[r].closed /\ x.rooms[r].setting = w.rooms[r].setting
      BY <1>2 DEF Vacated, SameRoom
    <3>12. ASSUME NEW s \in Slot
           PROVE  /\ x.view[h].slots[s] = x.rooms[r].slots[s]
                  /\ x.view[h].looks[s] = LookOf(x, x.rooms[r].slots[s])
                  /\ IsReady(x, x.rooms[r].slots[s]) => s \in x.view[h].ready
      <4>1. x.rooms[r].slots[s] = IF s \in seats THEN Nobody ELSE w.rooms[r].slots[s]
        BY <1>2 DEF Vacated, seats
      <4>2. CASE s \in seats
        <5>1. x.rooms[r].slots[s] = Nobody
          BY <4>1, <4>2
        <5> QED
          BY <3>10, <4>2, <5>1 DEF LookOf, IsReady
      <4>3. CASE s \notin seats
        <5>1. PICK o : o = w.rooms[r].slots[s]
          OBVIOUS
        <5>2. x.rooms[r].slots[s] = o
          BY <4>1, <4>3, <5>1
        <5>3. v.slots[s] = o /\ v.looks[s] = LookOf(w, o) /\ (IsReady(w, o) => s \in v.ready)
          BY <2>2, <2>4, <3>7, <5>1, Zenon DEF Describes
        <5>4. LookOf(x, o) = LookOf(w, o) /\ (IsReady(x, o) => IsReady(w, o))
          BY <1>8, <5>1 DEF LookOf, IsReady
        <5> QED
          BY <3>10, <4>3, <5>2, <5>3, <5>4
      <4> QED
        BY <4>2, <4>3
    <3>13. v.closed = w.rooms[r].closed /\ v.setting = w.rooms[r].setting
      BY <2>2, <2>4, <3>7 DEF Describes
    <3>14. Describes(x, x.view[h], x.rooms[r])
      BY <3>10, <3>11, <3>12, <3>13, Zenon DEF Describes
    <3> QED
      BY <2>4, <3>14
  <2> QED
    BY <2>3, <2>4
<1>12. ViewsOk(x)
  BY <1>10, <1>11, Zenon DEF ViewsOk
<1> QED
  BY <1>12 DEF x

\* remove_from_room, for a player in room r or in none.
LEMMA RemoveViews ==
  ASSUME NEW w, NEW C, Ok(w, {}, C), ViewsOk(w), SizesOk(w), NEW h \in HostId, C \subseteq {h}
  PROVE  /\ ViewsOk(remove_from_room(w, h)) /\ SizesOk(remove_from_room(w, h))
         /\ \E r \in Room : /\ Thins(w, remove_from_room(w, h), r)
                            /\ w.players[h].room \in {r, NoRoom}
<1>1. w.players[h].room \in Room \cup {NoRoom}
  BY DEF Ok, WorldType, PlayerType
<1>2. CASE w.players[h].room = NoRoom
  <2>1. remove_from_room(w, h) = w
    BY <1>2 DEF remove_from_room
  <2>2. PICK r : r \in Room
    BY GameAssumption DEF Room
  <2>3. Thins(w, w, r)
    BY ThinsItself
  <2> QED
    BY <1>2, <2>1, <2>2, <2>3
<1>3. CASE w.players[h].room # NoRoom
  <2>1. PICK r \in Room : r = w.players[h].room
    BY <1>1, <1>3
  <2>2. PICK S : S = {h}
    OBVIOUS
  <2>3. S \in SUBSET Members(w, r) /\ S # {} /\ C \subseteq S
    BY <2>1, <2>2 DEF Members
  <2>4. remove_from_room(w, h) = Vacate(w, r, S)
    BY <1>3, <2>1, <2>2 DEF remove_from_room
  <2>5. ViewsOk(Vacate(w, r, S)) /\ Thins(w, Vacate(w, r, S), r)
    BY <2>3, VacateViews, VacateThins
  <2>6. SizesOk(Vacate(w, r, S))
    BY <2>5, ThinsSizes
  <2> QED
    BY <2>1, <2>4, <2>5, <2>6
<1> QED
  BY <1>2, <1>3

-----------------------------------------------------------------------------
(* Taking a seat *)

\* Only room r changes, and only by somebody taking an empty seat.
Fills(w, x, r) ==
  \A q \in Room :
    /\ q # r => x.rooms[q].playing = w.rooms[q].playing
    /\ x.rooms[q].master_slot = w.rooms[q].master_slot
    /\ \A s \in Slot :
         x.rooms[q].slots[s] # w.rooms[q].slots[s] => q = r /\ w.rooms[q].slots[s] = Nobody

\* The newcomer is shown the whole room and the others the newcomer.
LEMMA SeatViews ==
  ASSUME NEW w, NEW E, Ok(w, E, {}), NEW r \in Room, E \subseteq {r}, IsListed(w, r),
         NEW h \in w.net.up, w.players[h].user # NoUser, w.players[h].room = NoRoom,
         NEW slot \in Slot, w.rooms[r].slots[slot] = Nobody,
         r \in E => slot = w.rooms[r].master_slot,
         ViewsOk(w), SizesOk(w), slot < w.rooms[r].max_players, slot \notin w.rooms[r].closed
  PROVE  /\ ViewsOk(Seat(w, h, r, slot)) /\ SizesOk(Seat(w, h, r, slot))
         /\ Fills(w, Seat(w, h, r, slot), r)
<1> DEFINE x == Seat(w, h, r, slot)
<1>1. w \in WorldType /\ Sound(w.net, {}) /\ SeatsOk(w) /\ h \in HostId
  BY SoundTyped DEF Ok
<1>2. w.rooms[r].p2p_group \in HostId
  <2>1. w.rooms[r].p2p_group \in w.net.groups
    BY DEF Ok, GroupsOk
  <2>2. w.net.groups \subseteq HostId
    BY <1>1, SoundTyped DEF NetType
  <2> QED
    BY <2>1, <2>2
<1>3. SeatTaken(w, x, h, r, slot) /\ SeatTold(w, x, h, r, slot)
  BY <1>1, <1>2, SeatFields
<1>4. Ok(x, {}, {})
  BY SeatOk
<1> HIDE DEF x
<1>5. x \in WorldType /\ SeatsOk(x)
  BY <1>4 DEF Ok
<1>6. Occupants(x.rooms[r]) = Members(x, r)
  BY <1>5, OccupantsAreMembers
<1>7. ASSUME NEW o \in HostId
      PROVE  /\ x.players[o].room = IF o = h THEN r ELSE w.players[o].room
             /\ x.players[o].look = w.players[o].look
             /\ x.players[o].ready => w.players[o].ready /\ o # h
  <2>1. w.players[o] \in PlayerType
    BY <1>1 DEF WorldType
  <2>2. x.players[o] = IF o = h THEN [w.players[o] EXCEPT !.room = r, !.slot = slot, !.ready = FALSE]
                       ELSE w.players[o]
    BY <1>3, Zenon DEF SeatTaken
  <2> QED
    BY <2>1, <2>2 DEF PlayerType
<1>8. ASSUME NEW q \in Room, NEW s \in Slot, w.rooms[q].slots[s] # Nobody
      PROVE  /\ x.players[w.rooms[q].slots[s]].look = w.players[w.rooms[q].slots[s]].look
             /\ x.players[w.rooms[q].slots[s]].ready => w.players[w.rooms[q].slots[s]].ready
  <2>1. PICK o : o = w.rooms[q].slots[s]
    OBVIOUS
  <2>2. o \in HostId
    BY <1>1, <1>8, <2>1, SeatTyped
  <2> QED
    BY <1>7, <2>1, <2>2
<1>9. \A s \in Slot : x.rooms[r].slots[s] = IF s = slot THEN h ELSE w.rooms[r].slots[s]
  BY <1>3 DEF SeatTaken
<1>10. SameRoom(x.rooms[r], w.rooms[r]) /\ x.rooms[r].master_slot = w.rooms[r].master_slot
  BY <1>3 DEF SeatTaken
<1>11. \A q \in Room \ {r} : x.rooms[q] = w.rooms[q]
  BY <1>3 DEF SeatTaken
<1>12. ASSUME NEW k \in HostId, k # h, k \notin Members(x, r)
       PROVE  x.view[k] = w.view[k]
  BY <1>3, <1>6, <1>12 DEF SeatTold
<1>13. ASSUME NEW k \in HostId, x.players[k].room = NoRoom, NEW s \in Slot
       PROVE  x.view[k].slots[s] = Nobody
  <2>1. k # h /\ w.players[k].room = NoRoom
    BY <1>7, <1>13, NullTyped
  <2>2. k \notin Members(x, r)
    BY <1>13, NullTyped DEF Members
  <2> QED
    BY <1>12, <2>1, <2>2, ToldNothing
<1>14. Describes(x, x.view[h], x.rooms[r])
  <2>1. PICK room : room = x.rooms[r]
    OBVIOUS
  <2>2. x.view[h] = Snapshot(x, room)
    BY <1>1, <1>3, <2>1 DEF SeatTold
  <2>3. Describes(x, Snapshot(x, room), room)
    BY DEF Describes, Snapshot, Looks, ReadySlots, Taken, LookOf, IsReady
  <2> QED
    BY <2>1, <2>2, <2>3
<1>15. ASSUME NEW k \in HostId, NEW q \in Room, x.players[k].room = q
       PROVE  Describes(x, x.view[k], x.rooms[q])
  <2>1. CASE k = h
    BY <1>7, <1>14, <1>15, <2>1
  <2>2. CASE k # h /\ q # r
    <3>1. w.players[k].room = q /\ k \notin Members(x, r)
      BY <1>7, <1>15, <2>2 DEF Members
    <3>2. Describes(w, w.view[k], w.rooms[q])
      BY <3>1, Told
    <3>3. Describes(x, w.view[k], w.rooms[q])
      BY <1>8, <3>2, StillDescribes
    <3> QED
      BY <1>11, <1>12, <2>2, <3>1, <3>3
  <2>3. CASE k # h /\ q = r
    <3>1. w.players[k].room = r
      BY <1>7, <1>15, <2>3
    <3>2. PICK v : v = w.view[k]
      OBVIOUS
    <3>3. Describes(w, v, w.rooms[r]) /\ v \in ViewType
      BY <1>1, <3>1, <3>2, Told DEF WorldType
    <3>4. k \in Occupants(x.rooms[r]) \cap w.net.up
      <4>1. k \in Members(x, r)
        BY <1>15, <2>3 DEF Members
      <4>2. k \in w.net.up
        BY <3>1, NullTyped, SeatedAreUp
      <4> QED
        BY <1>6, <4>1, <4>2
    <3>5. PICK look : look = w.players[h].look
      OBVIOUS
    <3>6. x.view[k] = Hello(v, slot, h, look)
      BY <1>3, <2>3, <3>2, <3>4, <3>5 DEF SeatTold
    <3>7. /\ x.view[k].closed = v.closed /\ x.view[k].setting = v.setting
          /\ x.view[k].master = v.master
          /\ x.view[k].ready = v.ready \ {slot}
          /\ \A s \in Slot :
               /\ x.view[k].slots[s] = IF s = slot THEN h ELSE v.slots[s]
               /\ x.view[k].looks[s] = IF s = slot THEN look ELSE v.looks[s]
      BY <3>3, <3>6 DEF Hello, ViewType, Seats
    <3>8. ASSUME NEW s \in Slot
          PROVE  /\ x.view[k].slots[s] = x.rooms[r].slots[s]
                 /\ x.view[k].looks[s] = LookOf(x, x.rooms[r].slots[s])
                 /\ IsReady(x, x.rooms[r].slots[s]) => s \in x.view[k].ready
      <4>1. CASE s = slot
        <5>1. x.rooms[r].slots[s] = h
          BY <1>9, <4>1
        <5>2. x.players[h].look = look /\ ~ x.players[h].ready /\ h # Nobody
          BY <1>1, <1>7, <3>5, NullTyped
        <5> QED
          BY <3>7, <4>1, <5>1, <5>2 DEF LookOf, IsReady
      <4>2. CASE s # slot
        <5>1. PICK o : o = w.rooms[r].slots[s]
          OBVIOUS
        <5>2. x.rooms[r].slots[s] = o
          BY <1>9, <4>2, <5>1
        <5>3. v.slots[s] = o /\ v.looks[s] = LookOf(w, o) /\ (IsReady(w, o) => s \in v.ready)
          BY <3>3, <5>1, Zenon DEF Describes
        <5>4. LookOf(x, o) = LookOf(w, o) /\ (IsReady(x, o) => IsReady(w, o))
          BY <1>8, <5>1 DEF LookOf, IsReady
        <5> QED
          BY <3>7, <4>2, <5>2, <5>3, <5>4
      <4> QED
        BY <4>1, <4>2
    <3>9. /\ v.closed = x.rooms[r].closed /\ v.setting = x.rooms[r].setting
          /\ v.master = x.rooms[r].master_slot
      BY <1>10, <3>3 DEF Describes, SameRoom
    <3>10. Describes(x, x.view[k], x.rooms[r])
      BY <3>7, <3>8, <3>9, Zenon DEF Describes
    <3> QED
      BY <2>3, <3>10
  <2> QED
    BY <2>1, <2>2, <2>3
<1>16. ViewsOk(x)
  BY <1>13, <1>15, Zenon DEF ViewsOk
<1>17. SizesOk(x)
  <2> SUFFICES ASSUME NEW q \in Room, NEW s \in Slot, x.rooms[q].slots[s] # Nobody
               PROVE  s < x.rooms[q].max_players /\ s \notin x.rooms[q].closed
    BY DEF SizesOk
  <2>1. CASE q = r /\ s = slot
    BY <1>10, <2>1 DEF SameRoom
  <2>2. CASE q # r
    BY <1>11, <2>2, Zenon DEF SizesOk
  <2>3. CASE q = r /\ s # slot
    <3>1. w.rooms[q].slots[s] # Nobody
      BY <1>9, <2>3
    <3>2. s < w.rooms[q].max_players /\ s \notin w.rooms[q].closed
      BY <3>1, Zenon DEF SizesOk
    <3> QED
      BY <1>10, <2>3, <3>2 DEF SameRoom
  <2> QED
    BY <2>1, <2>2, <2>3
<1>18. Fills(w, x, r)
  <2> SUFFICES ASSUME NEW q \in Room
               PROVE  /\ q # r => x.rooms[q].playing = w.rooms[q].playing
                      /\ x.rooms[q].master_slot = w.rooms[q].master_slot
                      /\ \A s \in Slot : x.rooms[q].slots[s] # w.rooms[q].slots[s] =>
                           q = r /\ w.rooms[q].slots[s] = Nobody
    BY DEF Fills
  <2>1. CASE q = r
    BY <1>9, <1>10, <2>1
  <2>2. CASE q # r
    BY <1>11, <2>2
  <2> QED
    BY <2>1, <2>2
<1> QED
  BY <1>16, <1>17, <1>18 DEF x

-----------------------------------------------------------------------------
(* One request *)

\* What a request may do to the rooms that are listed: nobody is seated where the race is
\* on, a new master had its seat before, and seats are lost in one room at most.
Moves(w, x) ==
  /\ \A q \in Room, s \in Slot : IsListed(w, q) =>
       /\ w.rooms[q].playing /\ x.rooms[q].slots[s] # Nobody => w.rooms[q].slots[s] # Nobody
       /\ x.rooms[q].master_slot = s =>
            \/ w.rooms[q].master_slot = s
            \/ w.rooms[q].slots[s] # Nobody /\ x.rooms[q].slots[s] = w.rooms[q].slots[s]
  /\ \E r \in Room : \A q \in Room \ {r}, s \in Slot :
       IsListed(w, q) /\ w.rooms[q].slots[s] # Nobody => x.rooms[q].slots[s] = w.rooms[q].slots[s]

\* Between the two the room objects stay as they are, except for a room r that is new.
Between(w, out, y, r) ==
  \A q \in Room : y.rooms[q] = out.rooms[q] \/ (q = r /\ ~ IsListed(w, r))

\* A request that takes players out of room p and seats one in room r, which is not
\* racing or not yet listed.
LEMMA ThinsFills ==
  ASSUME NEW w, NEW out, NEW y, NEW x, NEW p \in Room, NEW r \in Room,
         Thins(w, out, p), Fills(y, x, r),
         Between(w, out, y, r),
         IsListed(w, r) => ~ w.rooms[r].playing
  PROVE  Moves(w, x)
<1>1. ASSUME NEW q \in Room, NEW s \in Slot, IsListed(w, q)
      PROVE  /\ w.rooms[q].playing /\ x.rooms[q].slots[s] # Nobody => w.rooms[q].slots[s] # Nobody
             /\ x.rooms[q].master_slot = s =>
                  \/ w.rooms[q].master_slot = s
                  \/ w.rooms[q].slots[s] # Nobody /\ x.rooms[q].slots[s] = w.rooms[q].slots[s]
             /\ w.rooms[q].slots[s] # Nobody /\ q # p => x.rooms[q].slots[s] = w.rooms[q].slots[s]
  <2>1. PICK a, b, c, d : /\ a = w.rooms[q].slots[s] /\ b = out.rooms[q].slots[s]
                          /\ c = y.rooms[q].slots[s] /\ d = x.rooms[q].slots[s]
    OBVIOUS
  <2>2. PICK m, k, l : /\ m = w.rooms[q].master_slot /\ k = out.rooms[q].master_slot
                       /\ l = x.rooms[q].master_slot
    OBVIOUS
  <2>3. y.rooms[q] = out.rooms[q]
    BY <1>1 DEF Between
  <2>4. c = b /\ y.rooms[q].master_slot = k
    BY <2>1, <2>2, <2>3
  <2>5. (b # a => q = p /\ b = Nobody) /\ (k = s => m = s \/ (a # Nobody /\ b = a))
    BY <2>1, <2>2, Zenon DEF Thins
  <2>6. l = k /\ (d # c => q = r /\ c = Nobody)
    BY <2>1, <2>2, <2>4, Zenon DEF Fills
  <2>7. w.rooms[q].playing => q # r
    BY <1>1
  <2>8. /\ w.rooms[q].playing /\ d # Nobody => a # Nobody
        /\ l = s => m = s \/ (a # Nobody /\ d = a)
        /\ a # Nobody /\ q # p => d = a
    BY <2>4, <2>5, <2>6, <2>7
  <2> QED
    BY <2>1, <2>2, <2>8
<1> QED
  BY <1>1, Zenon DEF Moves

\* A request that only takes players out of a room.
LEMMA ThinsMoves ==
  ASSUME NEW w, NEW x, NEW r \in Room, Thins(w, x, r)
  PROVE  Moves(w, x)
<1>1. ASSUME NEW q \in Room, NEW s \in Slot
      PROVE  /\ x.rooms[q].slots[s] # Nobody => w.rooms[q].slots[s] # Nobody
             /\ x.rooms[q].master_slot = s =>
                  \/ w.rooms[q].master_slot = s
                  \/ w.rooms[q].slots[s] # Nobody /\ x.rooms[q].slots[s] = w.rooms[q].slots[s]
             /\ q # r => x.rooms[q].slots[s] = w.rooms[q].slots[s]
  <2>1. PICK a, d : a = w.rooms[q].slots[s] /\ d = x.rooms[q].slots[s]
    OBVIOUS
  <2>2. /\ d # a => q = r /\ d = Nobody
        /\ x.rooms[q].master_slot = s => w.rooms[q].master_slot = s \/ (a # Nobody /\ d = a)
    BY <2>1, Zenon DEF Thins
  <2>3. (d # Nobody => a # Nobody) /\ (q # r => d = a)
    BY <2>2
  <2> QED
    BY <2>1, <2>2, <2>3
<1> QED
  BY <1>1, Zenon DEF Moves

\* A request that moves nobody.
LEMMA SameSeatsMoves ==
  ASSUME NEW w, NEW x, SameSeats(w, x)
  PROVE  Moves(w, x)
<1>1. PICK r : r \in Room
  BY GameAssumption DEF Room
<1>2. \A q \in Room : x.rooms[q].slots = w.rooms[q].slots
                      /\ x.rooms[q].master_slot = w.rooms[q].master_slot
  BY DEF SameSeats
<1> QED
  BY <1>1, <1>2, Zenon DEF Moves

\* What a request leads to.
Fine(w, x) == Good(x) /\ Moves(w, x)

\* Enter_Room and quick_join, into a room whose race is not on.
LEMMA JoinFine ==
  ASSUME NEW w, Good(w), NEW h \in w.net.up, w.players[h].user # NoUser,
         NEW r \in Room, IsListed(w, r), FreeSlots(w.rooms[r]) # {}, Members(w, r) # {h},
         ~ w.rooms[r].playing
  PROVE  Fine(w, join_room(w, h, r))
<1>1. PICK x : x = join_room(w, h, r)
  OBVIOUS
<1>2. Ok(w, {}, {}) /\ ViewsOk(w) /\ SizesOk(w) /\ h \in HostId
  BY SoundTyped DEF Good, Ok
<1>3. Ok(x, {}, {})
  BY <1>1, <1>2, JoinOk
<1>4. PICK out : \E slot \in Slot :
        /\ out = remove_from_room(w, h) /\ Ok(out, {}, {}) /\ Removed(w, out, h)
        /\ join_room(w, h, r) = Seat(out, h, r, slot)
        /\ slot \in FreeSlots(out.rooms[r]) /\ out.rooms[r].slots[slot] = Nobody
        /\ IsListed(out, r) /\ h \in out.net.up /\ out.players[h].user # NoUser
        /\ out.players[h].room = NoRoom
  BY <1>2, JoinIs
<1>5. PICK slot \in Slot :
        /\ x = Seat(out, h, r, slot)
        /\ slot \in FreeSlots(out.rooms[r]) /\ out.rooms[r].slots[slot] = Nobody
  BY <1>1, <1>4
<1>6. /\ ViewsOk(out) /\ SizesOk(out) /\ \E p \in Room : Thins(w, out, p)
  BY <1>2, <1>4, RemoveViews
<1>7. slot < out.rooms[r].max_players /\ slot \notin out.rooms[r].closed
  BY <1>5 DEF FreeSlots
<1>8. ViewsOk(x) /\ SizesOk(x) /\ Fills(out, x, r)
  BY <1>4, <1>5, <1>6, <1>7, SeatViews
<1>9. Moves(w, x)
  <2>1. PICK p \in Room : Thins(w, out, p)
    BY <1>6
  <2>2. Between(w, out, out, r)
    BY DEF Between
  <2> QED
    BY <1>8, <2>1, <2>2, ThinsFills
<1> QED
  BY <1>1, <1>3, <1>8, <1>9 DEF Fine, Good

\* Create_Room: the room is new, and its creator is told the whole of it.
LEMMA CreateFine ==
  ASSUME NEW w, Good(w), CanCreate(w), NEW h \in w.net.up, w.players[h].user # NoUser,
         w.players[h].channel # no_channel, NEW max \in Nat, NEW pw \in BOOLEAN
  PROVE  Fine(w, create_room(w, h, max, pw))
<1>1. PICK x : x = create_room(w, h, max, pw)
  OBVIOUS
<1>2. Ok(w, {}, {}) /\ ViewsOk(w) /\ SizesOk(w) /\ h \in HostId
  BY SoundTyped DEF Good, Ok
<1>3. Ok(x, {}, {})
  BY <1>1, <1>2, CreateOk
<1>4. PICK out, y : \E r \in Room :
        Creates(w, h, out, y, r) /\ create_room(w, h, max, pw) = Seat(y, h, r, 0)
  BY <1>2, CreateIs
<1>5. PICK r \in Room : Creates(w, h, out, y, r) /\ x = Seat(y, h, r, 0)
  BY <1>1, <1>4
<1>6. PICK n \in FreeNumbers(out), room \in RoomType :
        /\ Opened(out, y, r, n, room)
        /\ y.rooms[r] = room /\ room.slots = EmptySeats /\ room.closed = {}
  BY <1>5, Zenon DEF Creates
<1>7. PICK E : E = {r}
  OBVIOUS
<1>8. /\ out = remove_from_room(w, h) /\ Ok(out, {}, {})
      /\ ~ IsListed(w, r) /\ ~ IsListed(out, r)
      /\ Ok(y, E, {}) /\ E \subseteq {r} /\ IsListed(y, r)
      /\ h \in y.net.up /\ y.players[h].user # NoUser /\ y.players[h].room = NoRoom
      /\ 0 \in Slot /\ y.rooms[r].slots[0] = Nobody /\ y.rooms[r].master_slot = 0
  BY <1>5, <1>7 DEF Creates
<1>9. ViewsOk(out) /\ SizesOk(out) /\ \E p \in Room : Thins(w, out, p)
  BY <1>2, <1>8, RemoveViews
<1>10. y.players = out.players /\ y.view = out.view /\ out.rooms \in [Room -> RoomType]
       /\ y.rooms = [out.rooms EXCEPT ![r] = room]
  BY <1>6, <1>8 DEF Opened, Ok, WorldType
<1>11. \A q \in Room : q # r => y.rooms[q] = out.rooms[q]
  BY <1>10
<1>12. ViewsOk(y)
  <2>1. ASSUME NEW k \in HostId, NEW q \in Room, y.players[k].room = q
        PROVE  Describes(y, y.view[k], y.rooms[q])
    <3>1. out.players[k].room = q
      BY <1>10, <2>1
    <3>2. q # r
      <4>1. IsListed(out, q)
        BY <1>8, <3>1, NullTyped DEF Ok, ListOk
      <4> QED
        BY <1>8, <4>1
    <3>3. Describes(out, out.view[k], out.rooms[q])
      BY <1>9, <3>1, Told
    <3>4. Describes(y, out.view[k], out.rooms[q])
      BY <1>10, <3>3, StillDescribes
    <3> QED
      BY <1>10, <1>11, <3>2, <3>4
  <2>2. ASSUME NEW k \in HostId, y.players[k].room = NoRoom, NEW s \in Slot
        PROVE  y.view[k].slots[s] = Nobody
    BY <1>9, <1>10, <2>2, ToldNothing
  <2> QED
    BY <2>1, <2>2, Zenon DEF ViewsOk
<1>13. SizesOk(y)
  <2>1. ASSUME NEW q \in Room, NEW s \in Slot, y.rooms[q].slots[s] # Nobody
        PROVE  s < y.rooms[q].max_players /\ s \notin y.rooms[q].closed
    <3>1. q # r
      BY <1>6, <2>1 DEF EmptySeats
    <3>2. y.rooms[q] = out.rooms[q]
      BY <1>11, <3>1
    <3> QED
      BY <1>9, <2>1, <3>2, Zenon DEF SizesOk
  <2> QED
    BY <2>1, Zenon DEF SizesOk
<1>14. 0 < y.rooms[r].max_players /\ 0 \notin y.rooms[r].closed
  BY <1>6 DEF RoomType
<1>15. PICK slot \in Slot : slot = 0
  BY <1>8
<1>16. /\ y.rooms[r].slots[slot] = Nobody /\ slot = y.rooms[r].master_slot
       /\ slot < y.rooms[r].max_players /\ slot \notin y.rooms[r].closed
       /\ x = Seat(y, h, r, slot)
  BY <1>5, <1>8, <1>14, <1>15
<1>17. ViewsOk(x) /\ SizesOk(x) /\ Fills(y, x, r)
  BY <1>8, <1>12, <1>13, <1>16, SeatViews
<1>18. Moves(w, x)
  <2>1. PICK p \in Room : Thins(w, out, p)
    BY <1>9
  <2>2. Between(w, out, y, r)
    BY <1>8, <1>11 DEF Between
  <2>3. (IsListed(w, r) => ~ w.rooms[r].playing) /\ Fills(y, x, r)
    BY <1>8, <1>17
  <2> QED
    BY <2>1, <2>2, <2>3, ThinsFills
<1> QED
  BY <1>1, <1>3, <1>17, <1>18 DEF Fine, Good

-----------------------------------------------------------------------------
(* Changes of a room or of a player that move nobody *)

\* A world in which everybody keeps its seat and the clients have been told what concerns
\* them: each member of r a view V of it, the others nothing, as nothing they see changed.
LEMMA ToldViews ==
  ASSUME NEW w, Ok(w, {}, {}), ViewsOk(w), NEW r \in Room, NEW x, Ok(x, {}, {}), NEW V,
         x.net.up = w.net.up,
         \A k \in HostId : x.players[k].room = w.players[k].room,
         \A k \in HostId : w.players[k].room \notin {r, NoRoom} =>
           /\ x.players[k].look = w.players[k].look
           /\ x.players[k].ready => w.players[k].ready,
         \A q \in Room \ {r} : x.rooms[q] = w.rooms[q],
         \A k \in HostId : x.view[k] =
           IF k \in Occupants(x.rooms[r]) \cap x.net.up THEN V[k] ELSE w.view[k],
         \A k \in HostId : Describes(w, w.view[k], w.rooms[r]) => Describes(x, V[k], x.rooms[r])
  PROVE  ViewsOk(x)
<1>1. Occupants(x.rooms[r]) = Members(x, r)
  BY OccupantsAreMembers DEF Ok
<1>2. ASSUME NEW k \in HostId, x.players[k].room # r
      PROVE  x.view[k] = w.view[k]
  <2>1. k \notin Members(x, r)
    BY <1>2 DEF Members
  <2> QED
    BY <1>1, <2>1
<1>3. ASSUME NEW k \in HostId, x.players[k].room = NoRoom, NEW s \in Slot
      PROVE  x.view[k].slots[s] = Nobody
  <2>1. x.view[k] = w.view[k] /\ w.players[k].room = NoRoom
    BY <1>2, <1>3, NullTyped
  <2> QED
    BY <2>1, ToldNothing
<1>4. ASSUME NEW k \in HostId, NEW q \in Room, x.players[k].room = q
      PROVE  Describes(x, x.view[k], x.rooms[q])
  <2>1. Describes(w, w.view[k], w.rooms[q])
    BY <1>4, Told
  <2>2. CASE q = r
    <3>1. k \in Members(x, r) /\ x.players[k].room # NoRoom
      BY <1>4, <2>2, NullTyped DEF Members
    <3>2. k \in x.net.up
      BY <3>1, SeatedAreUp
    <3>3. x.view[k] = V[k]
      BY <1>1, <3>1, <3>2
    <3> QED
      BY <2>1, <2>2, <3>3
  <2>3. CASE q # r
    <3>1. x.view[k] = w.view[k] /\ x.rooms[q] = w.rooms[q]
      BY <1>2, <1>4, <2>3
    <3>2. ASSUME NEW s \in Slot, w.rooms[q].slots[s] # Nobody
          PROVE  /\ x.players[w.rooms[q].slots[s]].look = w.players[w.rooms[q].slots[s]].look
                 /\ x.players[w.rooms[q].slots[s]].ready => w.players[w.rooms[q].slots[s]].ready
      <4>1. PICK o : o = w.rooms[q].slots[s]
        OBVIOUS
      <4>2. w \in WorldType /\ SeatsOk(w)
        BY DEF Ok
      <4>3. o \in HostId /\ o # Nobody
        BY <3>2, <4>1, <4>2, SeatTyped
      <4>4. w.players[o].room = q
        BY <4>1, <4>2, <4>3, PlayerOfSeat
      <4>5. w.players[o].room \notin {r, NoRoom}
        BY <2>3, <4>4, NullTyped
      <4> QED
        BY <4>1, <4>3, <4>5
    <3>3. Describes(x, w.view[k], w.rooms[q])
      BY <2>1, <3>2, StillDescribes
    <3> QED
      BY <3>1, <3>3
  <2> QED
    BY <2>2, <2>3
<1> QED
  BY <1>3, <1>4, Zenon DEF ViewsOk

\* Nobody is told anything, and nothing that has been told becomes wrong.
LEMMA QuietViews ==
  ASSUME NEW w, Ok(w, {}, {}), ViewsOk(w), NEW x, x.view = w.view,
         \A k \in HostId : x.players[k].room = w.players[k].room,
         \A k \in HostId : w.players[k].room # NoRoom =>
           /\ x.players[k].look = w.players[k].look
           /\ x.players[k].ready => w.players[k].ready,
         \A q \in Room :
           /\ x.rooms[q].slots = w.rooms[q].slots /\ x.rooms[q].closed = w.rooms[q].closed
           /\ x.rooms[q].master_slot = w.rooms[q].master_slot
           /\ x.rooms[q].setting = w.rooms[q].setting
  PROVE  ViewsOk(x)
<1>1. ASSUME NEW k \in HostId, x.players[k].room = NoRoom, NEW s \in Slot
      PROVE  x.view[k].slots[s] = Nobody
  BY <1>1, ToldNothing
<1>2. ASSUME NEW k \in HostId, NEW q \in Room, x.players[k].room = q
      PROVE  Describes(x, x.view[k], x.rooms[q])
  <2>1. Describes(w, w.view[k], w.rooms[q])
    BY <1>2, Told
  <2>2. ASSUME NEW s \in Slot, w.rooms[q].slots[s] # Nobody
        PROVE  /\ x.players[w.rooms[q].slots[s]].look = w.players[w.rooms[q].slots[s]].look
               /\ x.players[w.rooms[q].slots[s]].ready => w.players[w.rooms[q].slots[s]].ready
    <3>1. PICK o : o = w.rooms[q].slots[s]
      OBVIOUS
    <3>2. w \in WorldType /\ SeatsOk(w)
      BY DEF Ok
    <3>3. o \in HostId /\ o # Nobody
      BY <2>2, <3>1, <3>2, SeatTyped
    <3>4. w.players[o].room # NoRoom
      BY <3>1, <3>2, <3>3, PlayerOfSeat, NullTyped
    <3> QED
      BY <3>1, <3>3, <3>4
  <2>3. Describes(x, w.view[k], x.rooms[q])
    BY <2>1, <2>2, StillDescribes
  <2> QED
    BY <2>3
<1> QED
  BY <1>1, <1>2, Zenon DEF ViewsOk

\* Rooms of the same seats and sizes, with no more closed seats than free ones.
LEMMA SizesStay ==
  ASSUME NEW w, SizesOk(w), NEW x,
         \A q \in Room :
           /\ x.rooms[q].slots = w.rooms[q].slots
           /\ x.rooms[q].max_players = w.rooms[q].max_players
           /\ \A s \in x.rooms[q].closed \ w.rooms[q].closed : w.rooms[q].slots[s] = Nobody
  PROVE  SizesOk(x)
<1> SUFFICES ASSUME NEW q \in Room, NEW s \in Slot, x.rooms[q].slots[s] # Nobody
             PROVE  s < x.rooms[q].max_players /\ s \notin x.rooms[q].closed
  BY DEF SizesOk
<1>1. w.rooms[q].slots[s] # Nobody
  OBVIOUS
<1>2. s < w.rooms[q].max_players /\ s \notin w.rooms[q].closed
  BY <1>1, Zenon DEF SizesOk
<1> QED
  BY <1>1, <1>2

\* Good worlds that differ in no seat.
Stays(w, x) == Good(x) /\ SameSeats(w, x)

\* Handlers that move nobody lead to fine worlds.
LEMMA StaysFine ==
  ASSUME NEW w, NEW x, Stays(w, x)
  PROVE  Fine(w, x)
BY SameSeatsMoves DEF Stays, Fine

\* A player changes; if it is in a room, neither its look nor that it is ready.
LEMMA PlayerStays ==
  ASSUME NEW w, Good(w), NEW h \in HostId, NEW p \in PlayerType,
         p.user = w.players[h].user, p.room = w.players[h].room, p.slot = w.players[h].slot,
         w.players[h].room # NoRoom =>
           p.look = w.players[h].look /\ (p.ready => w.players[h].ready)
  PROVE  Stays(w, [w EXCEPT !.players[h] = p])
<1> DEFINE x == [w EXCEPT !.players[h] = p]
<1>1. Ok(w, {}, {}) /\ w \in WorldType /\ ViewsOk(w) /\ SizesOk(w)
  BY DEF Good, Ok
<1>2. SameSeats(w, x) /\ x.rooms = w.rooms /\ x.view = w.view
  BY <1>1, PlayerUpdate
<1>3. \A k \in HostId : x.players[k] = IF k = h THEN p ELSE w.players[k]
  BY <1>1 DEF WorldType
<1> HIDE DEF x
<1>4. Ok(x, {}, {})
  BY <1>1, <1>2, SameSeatsOk
<1>5. ViewsOk(x)
  BY <1>1, <1>2, <1>3, QuietViews
<1>6. SizesOk(x)
  BY <1>1, <1>2, SizesStay
<1> QED
  BY <1>2, <1>4, <1>5, <1>6 DEF Stays, Good, x

\* A room changes in what its clients are not told: the race starts or ends.
LEMMA RoomStays ==
  ASSUME NEW w, Good(w), NEW r \in Room, NEW room \in RoomType,
         room.number = w.rooms[r].number, room.slots = w.rooms[r].slots,
         room.master_slot = w.rooms[r].master_slot, room.p2p_group = w.rooms[r].p2p_group,
         room.closed = w.rooms[r].closed, room.setting = w.rooms[r].setting,
         room.max_players = w.rooms[r].max_players
  PROVE  Stays(w, [w EXCEPT !.rooms[r] = room])
<1> DEFINE x == [w EXCEPT !.rooms[r] = room]
<1>1. Ok(w, {}, {}) /\ w \in WorldType /\ ViewsOk(w) /\ SizesOk(w)
  BY DEF Good, Ok
<1>2. /\ SameSeats(w, x) /\ x.players = w.players /\ x.view = w.view
      /\ \A q \in Room : x.rooms[q] = IF q = r THEN room ELSE w.rooms[q]
  BY <1>1, RoomUpdate
<1> HIDE DEF x
<1>3. \A q \in Room :
        /\ x.rooms[q].slots = w.rooms[q].slots /\ x.rooms[q].closed = w.rooms[q].closed
        /\ x.rooms[q].master_slot = w.rooms[q].master_slot
        /\ x.rooms[q].setting = w.rooms[q].setting
        /\ x.rooms[q].max_players = w.rooms[q].max_players
  BY <1>2
<1>4. Ok(x, {}, {})
  BY <1>1, <1>2, SameSeatsOk
<1>5. ViewsOk(x)
  BY <1>1, <1>2, <1>3, QuietViews
<1>6. SizesOk(x)
  BY <1>1, <1>3, SizesStay
<1> QED
  BY <1>2, <1>4, <1>5, <1>6 DEF Stays, Good, x

\* The world y once the members of r that are connected have the view V.
Tell(y, r, V) ==
  [y EXCEPT !.view = [k \in HostId |->
     IF k \in Occupants(y.rooms[r]) \cap y.net.up THEN V[k] ELSE y.view[k]]]

\* Rooms that have the same seats, group and size.
SameHouse(a, b) ==
  /\ a.number = b.number /\ a.slots = b.slots /\ a.master_slot = b.master_slot
  /\ a.p2p_group = b.p2p_group /\ a.max_players = b.max_players

\* Seats that close are empty.
ShutsEmpty(a, b) == \A s \in b.closed \ a.closed : a.slots[s] = Nobody

\* Whoever knew the room as it was in w, knows it from V as it is in y.
Retold(w, y, r, V) ==
  \A k \in HostId : Describes(w, w.view[k], w.rooms[r]) => Describes(y, V[k], y.rooms[r])

\* x is y, but for the views of the members of r.
IsTold(x, y, r, V) ==
  /\ x.players = y.players /\ x.rooms = y.rooms /\ x.net = y.net
  /\ \A k \in HostId : x.view[k] =
       IF k \in Occupants(y.rooms[r]) \cap y.net.up THEN V[k] ELSE y.view[k]

\* Telling the members of a room gives them a view, and changes nothing else.
LEMMA TellFields ==
  ASSUME NEW w, NEW y, SameSeats(w, y), NEW r, NEW V \in [HostId -> ViewType]
  PROVE  SameSeats(w, Tell(y, r, V)) /\ IsTold(Tell(y, r, V), y, r, V)
<1>1. PICK S : S = Occupants(y.rooms[r]) \cap y.net.up
  OBVIOUS
<1>2. PICK T : T = [k \in HostId |-> IF k \in S THEN V[k] ELSE y.view[k]]
  OBVIOUS
<1>3. PICK x : x = Tell(y, r, V)
  OBVIOUS
<1>4. x = [y EXCEPT !.view = T]
  BY <1>1, <1>2, <1>3 DEF Tell
<1>5. y \in WorldType
  BY DEF SameSeats
<1>6. T \in [HostId -> ViewType]
  BY <1>2, <1>5 DEF WorldType
<1>7. SameSeats(w, x)
  BY <1>4, <1>6, ViewUpdate
<1>8. x.players = y.players /\ x.rooms = y.rooms /\ x.net = y.net /\ x.view = T
  BY <1>4, <1>5 DEF WorldType
<1>9. IsTold(x, y, r, V)
  BY <1>1, <1>2, <1>8 DEF IsTold
<1> QED
  BY <1>3, <1>7, <1>9

\* A room changes in what does not concern its seats, and its members are told a view V
\* that describes it.
LEMMA RoomTells ==
  ASSUME NEW w, Good(w), NEW r \in Room, NEW room \in RoomType,
         SameHouse(room, w.rooms[r]), ShutsEmpty(w.rooms[r], room),
         NEW y, y = [w EXCEPT !.rooms[r] = room], NEW V \in [HostId -> ViewType],
         Retold(w, y, r, V)
  PROVE  Stays(w, Tell(y, r, V))
<1>1. Ok(w, {}, {}) /\ w \in WorldType /\ ViewsOk(w) /\ SizesOk(w)
  BY DEF Good, Ok
<1>2. /\ room.number = w.rooms[r].number /\ room.slots = w.rooms[r].slots
      /\ room.master_slot = w.rooms[r].master_slot /\ room.p2p_group = w.rooms[r].p2p_group
      /\ room.max_players = w.rooms[r].max_players
  BY DEF SameHouse
<1>3. /\ SameSeats(w, y) /\ y.players = w.players /\ y.view = w.view
      /\ \A q \in Room : y.rooms[q] = IF q = r THEN room ELSE w.rooms[q]
  BY <1>1, <1>2, RoomUpdate
<1>4. y.net = w.net
  BY <1>3 DEF SameSeats
<1>5. PICK x : x = Tell(y, r, V)
  OBVIOUS
<1>6. /\ SameSeats(w, x) /\ x.players = w.players /\ x.rooms = y.rooms /\ x.net = w.net
      /\ \A k \in HostId : x.view[k] =
           IF k \in Occupants(x.rooms[r]) \cap x.net.up THEN V[k] ELSE w.view[k]
  <2>1. SameSeats(w, x) /\ IsTold(x, y, r, V)
    BY <1>3, <1>5, TellFields
  <2> QED
    BY <1>3, <1>4, <2>1 DEF IsTold
<1>7. Ok(x, {}, {})
  BY <1>1, <1>6, SameSeatsOk
<1>8. ASSUME NEW k \in HostId, Describes(w, w.view[k], w.rooms[r])
      PROVE  Describes(x, V[k], x.rooms[r])
  <2>1. Describes(y, V[k], y.rooms[r])
    BY <1>8 DEF Retold
  <2> QED
    BY <1>3, <1>6, <2>1, StillDescribes
<1>9. ViewsOk(x)
  <2>1. x.net.up = w.net.up /\ \A q \in Room \ {r} : x.rooms[q] = w.rooms[q]
    BY <1>3, <1>6
  <2> QED
    BY <1>1, <1>6, <1>7, <1>8, <2>1, ToldViews
<1>10. SizesOk(x)
  <2>1. \A q \in Room :
          /\ x.rooms[q].slots = w.rooms[q].slots
          /\ x.rooms[q].max_players = w.rooms[q].max_players
          /\ \A s \in x.rooms[q].closed \ w.rooms[q].closed : w.rooms[q].slots[s] = Nobody
    BY <1>2, <1>3, <1>6 DEF ShutsEmpty
  <2> QED
    BY <1>1, <2>1, SizesStay
<1> QED
  BY <1>5, <1>6, <1>7, <1>9, <1>10 DEF Stays, Good

\* A player in room r changes its look or its ready flag, and the members of r are told a
\* view V that describes it.
LEMMA PlayerTells ==
  ASSUME NEW w, Good(w), NEW h \in HostId, NEW p \in PlayerType,
         p.user = w.players[h].user, p.room = w.players[h].room, p.slot = w.players[h].slot,
         NEW r \in Room, w.players[h].room = r,
         NEW y, y = [w EXCEPT !.players[h] = p], NEW V \in [HostId -> ViewType],
         Retold(w, y, r, V)
  PROVE  Stays(w, Tell(y, r, V))
<1>1. Ok(w, {}, {}) /\ w \in WorldType /\ ViewsOk(w) /\ SizesOk(w)
  BY DEF Good, Ok
<1>2. SameSeats(w, y) /\ y.rooms = w.rooms /\ y.view = w.view
  BY <1>1, PlayerUpdate
<1>3. y.net = w.net
  BY <1>2 DEF SameSeats
<1>4. \A k \in HostId : y.players[k] = IF k = h THEN p ELSE w.players[k]
  BY <1>1 DEF WorldType
<1>5. PICK x : x = Tell(y, r, V)
  OBVIOUS
<1>6. /\ SameSeats(w, x) /\ x.players = y.players /\ x.rooms = w.rooms /\ x.net = w.net
      /\ \A k \in HostId : x.view[k] =
           IF k \in Occupants(x.rooms[r]) \cap x.net.up THEN V[k] ELSE w.view[k]
  <2>1. SameSeats(w, x) /\ IsTold(x, y, r, V)
    BY <1>2, <1>5, TellFields
  <2> QED
    BY <1>2, <1>3, <2>1 DEF IsTold
<1>7. Ok(x, {}, {})
  BY <1>1, <1>6, SameSeatsOk
<1>8. ASSUME NEW k \in HostId, Describes(w, w.view[k], w.rooms[r])
      PROVE  Describes(x, V[k], x.rooms[r])
  <2>1. Describes(y, V[k], y.rooms[r])
    BY <1>8 DEF Retold
  <2> QED
    BY <1>2, <1>6, <2>1, StillDescribes
<1>9. ViewsOk(x)
  <2>1. x.net.up = w.net.up /\ \A q \in Room \ {r} : x.rooms[q] = w.rooms[q]
    BY <1>6
  <2>2. \A k \in HostId : x.players[k].room = w.players[k].room
    BY <1>4, <1>6
  <2>3. \A k \in HostId : w.players[k].room \notin {r, NoRoom} =>
          /\ x.players[k].look = w.players[k].look
          /\ x.players[k].ready => w.players[k].ready
    BY <1>4, <1>6
  <2>4. \A k \in HostId : x.view[k] =
          IF k \in Occupants(x.rooms[r]) \cap x.net.up THEN V[k] ELSE w.view[k]
    BY <1>6
  <2> QED
    BY <1>1, <1>7, <1>8, <2>1, <2>2, <2>3, <2>4, ToldViews
<1>10. SizesOk(x)
  BY <1>1, <1>6, SizesStay
<1> QED
  BY <1>5, <1>6, <1>7, <1>9, <1>10 DEF Stays, Good

-----------------------------------------------------------------------------
(* Leaving, closing and logging in *)

\* remove_from_room, also when h is in no room.
LEMMA RemoveFine ==
  ASSUME NEW w, Good(w), NEW h \in HostId
  PROVE  Fine(w, remove_from_room(w, h))
<1>1. PICK x : x = remove_from_room(w, h)
  OBVIOUS
<1>2. Ok(w, {}, {}) /\ ViewsOk(w) /\ SizesOk(w)
  BY DEF Good
<1>3. Ok(x, {}, {}) /\ Removed(w, x, h)
  BY <1>1, <1>2, RemoveOk
<1>4. ViewsOk(x) /\ SizesOk(x) /\ \E r \in Room : Thins(w, x, r)
  BY <1>1, <1>2, RemoveViews
<1>5. Moves(w, x)
  BY <1>4, ThinsMoves
<1> QED
  BY <1>1, <1>3, <1>4, <1>5 DEF Fine, Good

\* Several players leave a room at once.
LEMMA VacateFine ==
  ASSUME NEW w, Good(w), NEW r \in Room, NEW S \in SUBSET Members(w, r), S # {}
  PROVE  Fine(w, Vacate(w, r, S))
<1>1. PICK x : x = Vacate(w, r, S)
  OBVIOUS
<1>2. Ok(w, {}, {}) /\ ViewsOk(w) /\ SizesOk(w)
  BY DEF Good
<1>3. Ok(x, {}, {})
  BY <1>1, <1>2, VacateOk
<1>4. ViewsOk(x) /\ Thins(w, x, r)
  BY <1>1, <1>2, VacateViews, VacateThins
<1>5. SizesOk(x) /\ Moves(w, x)
  BY <1>2, <1>4, ThinsSizes, ThinsMoves
<1> QED
  BY <1>1, <1>3, <1>4, <1>5 DEF Fine, Good

\* A handler that moves players and then changes something that concerns no seat.
LEMMA FineThenStays ==
  ASSUME NEW w, NEW y, NEW x, Fine(w, y), Stays(y, x), x.rooms = y.rooms
  PROVE  Fine(w, x)
<1>1. Moves(w, x)
  BY SMTT(30) DEF Moves, Fine
<1> QED
  BY <1>1 DEF Fine, Stays

\* peer::close: the others in the room are told, and the connection forgets it.
LEMMA CloseFine ==
  ASSUME NEW w, Good(w), NEW h \in w.net.up
  PROVE  Fine(w, close(w, h))
<1>1. PICK x : x = close(w, h)
  OBVIOUS
<1>2. Ok(w, {}, {}) /\ ViewsOk(w) /\ SizesOk(w) /\ h \in HostId
  BY SoundTyped DEF Good, Ok
<1>3. /\ Ok(x, {}, {}) /\ \E v, y : Closed(w, x, h, v, y)
      /\ \A k \in HostId : x.players[k].room = IF k = h THEN NoRoom ELSE w.players[k].room
  BY <1>1, <1>2, CloseOk
<1>4. PICK v, y : Closed(w, x, h, v, y)
  BY <1>3
<1>5. PICK C : C = {h}
  OBVIOUS
<1>6. /\ Ok(v, {}, C) /\ v.players = w.players /\ v.rooms = w.rooms /\ v.m_rooms = w.m_rooms
      /\ v.view = w.view
  BY <1>4, <1>5 DEF Closed
<1>7. y = remove_from_room(v, h) /\ Ok(y, {}, C) /\ x.rooms = y.rooms
  BY <1>4, <1>5 DEF Closed
<1>8. \A k \in HostId : /\ x.players[k].room = y.players[k].room
                        /\ k # h => x.players[k] = y.players[k]
                        /\ x.view[k] = IF k = h THEN NoView ELSE y.view[k]
  BY <1>4 DEF Closed
<1>9. ViewsOk(v)
  <2>1. ASSUME NEW k \in HostId, v.players[k].room = NoRoom, NEW s \in Slot
        PROVE  v.view[k].slots[s] = Nobody
    BY <1>2, <1>6, <2>1, ToldNothing
  <2>2. ASSUME NEW k \in HostId, NEW q \in Room, v.players[k].room = q
        PROVE  Describes(v, v.view[k], v.rooms[q])
    <3>1. Describes(w, w.view[k], w.rooms[q])
      BY <1>2, <1>6, <2>2, Told
    <3> QED
      BY <1>6, <3>1, StillDescribes
  <2> QED
    BY <2>1, <2>2, Zenon DEF ViewsOk
<1>10. SizesOk(v)
  BY <1>2, <1>6, SizesStay
<1>11. ViewsOk(y) /\ SizesOk(y) /\ \E r \in Room : Thins(v, y, r)
  BY <1>2, <1>5, <1>6, <1>7, <1>9, <1>10, RemoveViews
<1>12. ViewsOk(x)
  <2>1. ASSUME NEW k \in HostId, x.players[k].room = NoRoom, NEW s \in Slot
        PROVE  x.view[k].slots[s] = Nobody
    <3>1. CASE k = h
      BY <1>8, <3>1 DEF NoView, EmptySeats
    <3>2. CASE k # h
      BY <1>8, <1>11, <2>1, <3>2, ToldNothing
    <3> QED
      BY <3>1, <3>2
  <2>2. ASSUME NEW k \in HostId, NEW q \in Room, x.players[k].room = q
        PROVE  Describes(x, x.view[k], x.rooms[q])
    <3>1. k # h
      BY <1>3, <2>2, NullTyped
    <3>2. Describes(y, y.view[k], y.rooms[q])
      BY <1>8, <1>11, <2>2, Told
    <3>3. ASSUME NEW s \in Slot, y.rooms[q].slots[s] # Nobody
          PROVE  /\ x.players[y.rooms[q].slots[s]].look = y.players[y.rooms[q].slots[s]].look
                 /\ x.players[y.rooms[q].slots[s]].ready => y.players[y.rooms[q].slots[s]].ready
      <4>1. PICK o : o = y.rooms[q].slots[s]
        OBVIOUS
      <4>2. y \in WorldType /\ SeatsOk(y)
        BY <1>7 DEF Ok
      <4>3. o \in HostId /\ o # Nobody
        BY <3>3, <4>1, <4>2, SeatTyped
      <4>4. y.players[o].room = q
        BY <4>1, <4>2, <4>3, PlayerOfSeat
      <4>5. o # h
        BY <1>3, <1>8, <4>3, <4>4, NullTyped
      <4> QED
        BY <1>8, <4>1, <4>3, <4>5
    <3>4. PICK v2, a : v2 = y.view[k] /\ a = y.rooms[q]
      OBVIOUS
    <3>5. x.rooms[q] = a
      BY <1>7, <3>4
    <3>6. Describes(x, v2, a)
      <4>1. Describes(y, v2, a)
        BY <3>2, <3>4
      <4>2. \A s \in Slot : a.slots[s] # Nobody =>
              /\ x.players[a.slots[s]].look = y.players[a.slots[s]].look
              /\ x.players[a.slots[s]].ready => y.players[a.slots[s]].ready
        BY <3>3, <3>4
      <4> QED
        BY <4>1, <4>2, StillDescribes
    <3>7. Describes(x, y.view[k], x.rooms[q])
      BY <3>4, <3>5, <3>6
    <3> QED
      BY <1>8, <3>1, <3>7
  <2> QED
    BY <2>1, <2>2, Zenon DEF ViewsOk
<1>13. SizesOk(x)
  BY <1>7, <1>11, SizesStay
<1>14. Moves(w, x)
  <2>1. PICK r \in Room : Thins(v, y, r)
    BY <1>11
  <2>2. Thins(w, x, r)
    BY <1>6, <1>7, <2>1 DEF Thins
  <2> QED
    BY <2>2, ThinsMoves
<1> QED
  BY <1>1, <1>3, <1>12, <1>13, <1>14 DEF Fine, Good

\* Logon_CLGS on a connection that is in no room, after the older one has been closed.
LEMMA LogonFine ==
  ASSUME NEW w, Good(w), NEW h \in w.net.up, w.players[h].room = NoRoom, NEW u \in User
  PROVE  Fine(w, logon(w, h, u))
<1>1. PICK x : x = logon(w, h, u)
  OBVIOUS
<1>2. Ok(w, {}, {}) /\ h \in HostId
  BY SoundTyped DEF Good, Ok
<1>3. Ok(x, {}, {}) /\ \E one : LoggedIn(w, x, h, u, one)
  BY <1>1, <1>2, LogonOk
<1>4. PICK one : LoggedIn(w, x, h, u, one)
  BY <1>3
<1>5. /\ Ok(one, {}, {}) /\ one.players[h].room = NoRoom /\ x.rooms = one.rooms
  BY <1>4 DEF LoggedIn
<1>6. \A k \in HostId : /\ k # h => x.players[k] = one.players[k]
                        /\ x.view[k] = IF k = h THEN NoView ELSE one.view[k]
  BY <1>4 DEF LoggedIn
<1>7. x.players[h].room = NoRoom
  <2>1. [NoPlayer EXCEPT !.user = u].room = NoRoom
    BY DEF NoPlayer
  <2> QED
    BY <1>2, <1>4, <2>1 DEF LoggedIn
<1>8. ViewsOk(one) /\ SizesOk(one) /\ Moves(w, one)
  <2>1. CASE one = w
    <3>1. PICK r : r \in Room
      BY GameAssumption DEF Room
    <3>2. Moves(w, w)
      BY <3>1, ThinsItself, ThinsMoves
    <3> QED
      BY <2>1, <3>2 DEF Good
  <2>2. CASE \E o \in w.net.up : one = close(w, o)
    BY <2>2, CloseFine DEF Fine, Good
  <2> QED
    BY <1>4, <2>1, <2>2 DEF LoggedIn
<1>9. ViewsOk(x)
  <2>1. ASSUME NEW k \in HostId, x.players[k].room = NoRoom, NEW s \in Slot
        PROVE  x.view[k].slots[s] = Nobody
    <3>1. CASE k = h
      BY <1>6, <3>1 DEF NoView, EmptySeats
    <3>2. CASE k # h
      BY <1>6, <1>8, <2>1, <3>2, ToldNothing
    <3> QED
      BY <3>1, <3>2
  <2>2. ASSUME NEW k \in HostId, NEW q \in Room, x.players[k].room = q
        PROVE  Describes(x, x.view[k], x.rooms[q])
    <3>1. k # h
      BY <1>7, <2>2, NullTyped
    <3>2. Describes(one, one.view[k], one.rooms[q])
      BY <1>6, <1>8, <2>2, <3>1, Told
    <3>3. ASSUME NEW s \in Slot, one.rooms[q].slots[s] # Nobody
          PROVE  /\ x.players[one.rooms[q].slots[s]].look = one.players[one.rooms[q].slots[s]].look
                 /\ x.players[one.rooms[q].slots[s]].ready => one.players[one.rooms[q].slots[s]].ready
      <4>1. PICK o : o = one.rooms[q].slots[s]
        OBVIOUS
      <4>2. one \in WorldType /\ SeatsOk(one)
        BY <1>5 DEF Ok
      <4>3. o \in HostId /\ o # Nobody
        BY <3>3, <4>1, <4>2, SeatTyped
      <4>4. one.players[o].room = q
        BY <4>1, <4>2, <4>3, PlayerOfSeat
      <4>5. o # h
        BY <1>5, <4>4, NullTyped
      <4> QED
        BY <1>6, <4>1, <4>3, <4>5
    <3>4. Describes(x, one.view[k], x.rooms[q])
      BY <1>5, <3>2, <3>3, StillDescribes
    <3> QED
      BY <1>6, <3>1, <3>4
  <2> QED
    BY <2>1, <2>2, Zenon DEF ViewsOk
<1>10. SizesOk(x)
  BY <1>5, <1>8, SizesStay
<1>11. Moves(w, x)
  <2>1. x.rooms = one.rooms /\ Moves(w, one)
    BY <1>5, <1>8
  <2> QED
    BY <2>1, SMTT(30) DEF Moves
<1> QED
  BY <1>1, <1>3, <1>9, <1>10, <1>11 DEF Fine, Good

-----------------------------------------------------------------------------
(* The end of a handler *)

\* Room objects that nobody refers to vanish; no client is in one of them.
LEMMA CollectGood ==
  ASSUME NEW w, Good(w)
  PROVE  Good(Collect(w))
<1>1. PICK x : x = Collect(w)
  OBVIOUS
<1>2. Ok(w, {}, {}) /\ ViewsOk(w) /\ SizesOk(w)
  BY DEF Good
<1>3. /\ Ok(x, {}, {}) /\ x.players = w.players /\ x.view = w.view
      /\ \A r \in Room : x.rooms[r] = IF IsListed(w, r) THEN w.rooms[r] ELSE NullRoom
  BY <1>1, <1>2, CollectOk
<1>4. ViewsOk(x)
  <2>1. ASSUME NEW k \in HostId, x.players[k].room = NoRoom, NEW s \in Slot
        PROVE  x.view[k].slots[s] = Nobody
    BY <1>2, <1>3, <2>1, ToldNothing
  <2>2. ASSUME NEW k \in HostId, NEW q \in Room, x.players[k].room = q
        PROVE  Describes(x, x.view[k], x.rooms[q])
    <3>1. IsListed(w, q)
      BY <1>2, <1>3, <2>2, NullTyped DEF Ok, ListOk
    <3>2. Describes(w, w.view[k], w.rooms[q])
      BY <1>2, <1>3, <2>2, Told
    <3>3. Describes(x, w.view[k], w.rooms[q])
      BY <1>3, <3>2, StillDescribes
    <3> QED
      BY <1>3, <3>1, <3>3
  <2> QED
    BY <2>1, <2>2, Zenon DEF ViewsOk
<1>5. SizesOk(x)
  <2>1. ASSUME NEW q \in Room, NEW s \in Slot, x.rooms[q].slots[s] # Nobody
        PROVE  s < x.rooms[q].max_players /\ s \notin x.rooms[q].closed
    <3>1. x.rooms[q] = w.rooms[q]
      BY <1>3, <2>1 DEF NullRoom, EmptySeats
    <3> QED
      BY <1>2, <2>1, <3>1, Zenon DEF SizesOk
  <2> QED
    BY <2>1, Zenon DEF SizesOk
<1> QED
  BY <1>1, <1>3, <1>4, <1>5 DEF Good

\* Whoever is in a room, is in one that is listed.
LEMMA TakenIsListed ==
  ASSUME NEW w, Ok(w, {}, {}), NEW r \in Room, NEW s \in Slot, w.rooms[r].slots[s] # Nobody
  PROVE  IsListed(w, r)
<1>1. PICK o : o = w.rooms[r].slots[s]
  OBVIOUS
<1>2. w \in WorldType /\ SeatsOk(w)
  BY DEF Ok
<1>3. o \in HostId /\ o # Nobody
  BY <1>1, <1>2, SeatTyped
<1>4. w.players[o].room = r
  BY <1>1, <1>2, <1>3, PlayerOfSeat
<1> QED
  BY <1>3, <1>4, NullTyped DEF Ok, ListOk

\* What the world y, once the room objects are collected, shows of the rooms of w.
Shows(w, y) ==
  /\ \A r \in listed(w) \cap listed(y) :
       /\ w.rooms[r].playing => Taken(y.rooms[r]) \subseteq Taken(w.rooms[r])
       /\ LET m == y.rooms[r].master_slot
          IN  m # w.rooms[r].master_slot =>
                w.rooms[r].slots[m] # Nobody /\ y.rooms[r].slots[m] = w.rooms[r].slots[m]
  /\ \A r, q \in listed(w) :
       r # q => \/ Occupants(w.rooms[r]) \subseteq Occupants(y.rooms[r])
                \/ Occupants(w.rooms[q]) \subseteq Occupants(y.rooms[q])

\* What a request did to the rooms is what the next world shows, with the room objects
\* collected.
LEMMA MovesShow ==
  ASSUME NEW w, NEW x, Ok(w, {}, {}), Good(x), Moves(w, x)
  PROVE  Shows(w, Collect(x))
<1>1. PICK y : y = Collect(x)
  OBVIOUS
<1>2. Ok(x, {}, {})
  BY DEF Good
<1>3. /\ Ok(y, {}, {}) /\ y.m_rooms = x.m_rooms
      /\ \A r \in Room : y.rooms[r] = IF IsListed(x, r) THEN x.rooms[r] ELSE NullRoom
  BY <1>1, <1>2, CollectOk
<1>4. listed(w) = {r \in Room : IsListed(w, r)} /\ listed(x) = {r \in Room : IsListed(x, r)}
  BY <1>2, ListedAre
<1>5. listed(y) = listed(x)
  BY <1>3 DEF listed
<1>6. ASSUME NEW r \in listed(w), r \in listed(y)
      PROVE  /\ w.rooms[r].playing => Taken(y.rooms[r]) \subseteq Taken(w.rooms[r])
             /\ y.rooms[r].master_slot # w.rooms[r].master_slot =>
                  /\ w.rooms[r].slots[y.rooms[r].master_slot] # Nobody
                  /\ y.rooms[r].slots[y.rooms[r].master_slot] = w.rooms[r].slots[y.rooms[r].master_slot]
  <2>1. r \in Room /\ IsListed(w, r) /\ y.rooms[r] = x.rooms[r]
    BY <1>3, <1>4, <1>5, <1>6
  <2>2. ASSUME NEW s \in Slot
        PROVE  /\ w.rooms[r].playing /\ x.rooms[r].slots[s] # Nobody => w.rooms[r].slots[s] # Nobody
               /\ x.rooms[r].master_slot = s =>
                    \/ w.rooms[r].master_slot = s
                    \/ w.rooms[r].slots[s] # Nobody /\ x.rooms[r].slots[s] = w.rooms[r].slots[s]
    BY <2>1, Zenon DEF Moves
  <2>3. w.rooms[r].playing => Taken(x.rooms[r]) \subseteq Taken(w.rooms[r])
    BY <2>2 DEF Taken
  <2>4. PICK m : m = x.rooms[r].master_slot
    OBVIOUS
  <2>5. m \in Slot
    <3>1. x.rooms[r] \in RoomType
      BY <1>2, <2>1 DEF Ok, WorldType
    <3> QED
      BY <2>4, <3>1 DEF RoomType
  <2> QED
    BY <2>1, <2>2, <2>3, <2>4, <2>5
<1>7. PICK r0 \in Room : \A q \in Room \ {r0}, s \in Slot :
        IsListed(w, q) /\ w.rooms[q].slots[s] # Nobody => x.rooms[q].slots[s] = w.rooms[q].slots[s]
  BY Zenon DEF Moves
<1>8. ASSUME NEW q \in listed(w), q # r0
      PROVE  Occupants(w.rooms[q]) \subseteq Occupants(y.rooms[q])
  <2>1. SUFFICES ASSUME NEW o \in Occupants(w.rooms[q]) PROVE o \in Occupants(y.rooms[q])
    OBVIOUS
  <2>2. PICK s \in Slot : o = w.rooms[q].slots[s] /\ o # Nobody
    BY DEF Occupants
  <2>3. q \in Room /\ IsListed(w, q)
    BY <1>4
  <2>4. x.rooms[q].slots[s] = o
    BY <1>7, <1>8, <2>2, <2>3
  <2>5. IsListed(x, q)
    BY <1>2, <2>2, <2>3, <2>4, TakenIsListed
  <2>6. y.rooms[q].slots[s] = o
    BY <1>3, <2>3, <2>4, <2>5
  <2> QED
    BY <2>2, <2>6 DEF Occupants
<1>9. \A r, q \in listed(w) :
        r # q => \/ Occupants(w.rooms[r]) \subseteq Occupants(y.rooms[r])
                 \/ Occupants(w.rooms[q]) \subseteq Occupants(y.rooms[q])
  BY <1>8
<1> QED
  BY <1>1, <1>6, <1>9 DEF Shows


-----------------------------------------------------------------------------
(* Steps *)

\* What an action makes of the world: x, which satisfies the invariant and differs from
\* the world before by no more than one request may do.
LeadsTo(x) == Become(x) /\ Fine(World, x)

\* The fields of the world are the variables.
LEMMA WorldIs ==
  /\ World.net = net /\ World.players = players /\ World.rooms = rooms
  /\ World.m_rooms = m_rooms /\ World.next = m_next_room_number /\ World.view = view
BY DEF World

\* A client that runs a handler is connected and has logged on.
LEMMA Runner ==
  ASSUME VInv, NEW h, Runs(h)
  PROVE  /\ World \in WorldType /\ h \in HostId /\ h \in World.net.up
         /\ World.players[h].user # NoUser
         /\ World.players[h] \in PlayerType
         /\ Seated(h) => World.players[h].room \in Room
<1>1. World \in WorldType /\ Sound(World.net, {})
  BY DEF VInv, Good, Ok
<1>2. h \in World.net.up /\ World.players[h].user # NoUser
  BY WorldIs DEF Runs, LoggedOn
<1>3. h \in HostId
  BY <1>1, <1>2, SoundTyped
<1>4. World.players[h] \in PlayerType
  BY <1>1, <1>3 DEF WorldType
<1>5. Seated(h) => World.players[h].room \in Room
  BY <1>4, WorldIs DEF Seated, PlayerType
<1> QED
  BY <1>1, <1>2, <1>3, <1>4, <1>5

\* A connection adds a peer that is nobody yet and sits nowhere.
LEMMA ConnectStep ==
  ASSUME VInv, Connect
  PROVE  \E x : LeadsTo(x)
<1>1. PICK w : w = World
  OBVIOUS
<1>2. PICK n : n = AddPeer(w.net)
  OBVIOUS
<1>3. PICK m : m = [n EXCEPT !.up = n.peers]
  OBVIOUS
<1>4. PICK x : x = [w EXCEPT !.net = m]
  OBVIOUS
<1>5. Become(x)
  BY <1>1, <1>2, <1>3, <1>4, WorldIs DEF Connect
<1>6. Ok(w, {}, {}) /\ w \in WorldType /\ Sound(w.net, {}) /\ w.net.up = w.net.peers
  BY <1>1 DEF VInv, Good, Ok, PlayersOk
<1>7. PICK a : a = AllocatedId(w.net)
  OBVIOUS
<1>8. /\ Sound(n, {}) /\ n.peers = w.net.peers \cup {a} /\ n.up = w.net.up
      /\ n.groups = w.net.groups /\ n.members = w.net.members /\ a \in HostId \ w.net.peers
  <2>1. PICK o : o = w.net
    OBVIOUS
  <2>2. Sound(o, {}) /\ CanAllocate(o)
    BY <1>1, <1>6, <2>1, WorldIs DEF Connect
  <2>3. /\ Sound(AddPeer(o), {})
        /\ AllocatedId(o) \in HostId \ (o.peers \cup o.groups \cup {SkippedId})
        /\ AddPeer(o).peers = o.peers \cup {AllocatedId(o)}
        /\ AddPeer(o).up = o.up
        /\ AddPeer(o).groups = o.groups
        /\ AddPeer(o).members = o.members
    BY <2>2, AddPeerSound
  <2> QED
    BY <1>2, <1>7, <2>1, <2>3
<1>9. /\ Sound(m, {}) /\ m.peers = n.peers /\ m.up = n.up \cup {a}
      /\ m.groups = n.groups /\ m.members = n.members
  <2>1. n \in NetType
    BY <1>8, SoundTyped
  <2>2. m = [n EXCEPT !.up = n.up \cup {a}]
    BY <1>3, <1>6, <1>8
  <2>3. a \in n.peers
    BY <1>8
  <2> QED
    BY <1>8, <2>2, <2>3, ConnectSound
<1>10. m \in NetType
  BY <1>9, SoundTyped
<1>11. /\ x \in WorldType /\ x.net = m /\ x.players = w.players /\ x.rooms = w.rooms
       /\ x.m_rooms = w.m_rooms /\ x.view = w.view
  BY <1>4, <1>6, <1>10 DEF WorldType
<1>12. \A r \in Room : (IsListed(x, r) <=> IsListed(w, r)) /\ Members(x, r) = Members(w, r)
  BY <1>11 DEF IsListed, Members
<1>13. PlayersOk(x, {})
  BY <1>6, <1>8, <1>9, <1>11, ZenonT(60) DEF Ok, PlayersOk
<1>14. SeatsOk(x) /\ MastersOk(x, {})
  <2>1. SeatsOk(x)
    BY <1>6, <1>11, SeatsFrame, Zenon DEF Ok
  <2>2. MastersOk(x, {})
    BY <1>6, <1>11, <1>12 DEF Ok, MastersOk
  <2> QED
    BY <2>1, <2>2
<1>15. ListOk(x, {})
  <2>1. \A k \in HostId : w.players[k].room \in Room \cup {NoRoom}
    BY <1>6 DEF WorldType, PlayerType
  <2> QED
    BY <1>6, <1>11, <1>12, <2>1 DEF Ok, ListOk
<1>16. GroupsOk(x)
  BY <1>6, <1>8, <1>9, <1>11, <1>12 DEF Ok, GroupsOk
<1>17. Ok(x, {}, {})
  BY <1>9, <1>11, <1>13, <1>14, <1>15, <1>16 DEF Ok
<1>18. ViewsOk(w) /\ SizesOk(w)
  BY <1>1 DEF VInv, Good
<1>19. ViewsOk(x)
  BY <1>6, <1>11, <1>18, QuietViews
<1>20. SizesOk(x)
  BY <1>11, <1>18, SizesStay
<1>21. Moves(w, x)
  <2>1. PICK r : r \in Room
    BY GameAssumption DEF Room
  <2>2. Thins(w, x, r)
    BY <1>11, ThinsItself
  <2> QED
    BY <2>1, <2>2, ThinsMoves
<1> QED
  BY <1>1, <1>5, <1>17, <1>19, <1>20, <1>21 DEF LeadsTo, Fine, Good

\* A connection that ends takes its player out of the room, if it sat in one.
LEMMA DisconnectStep ==
  ASSUME VInv, NEW h \in HostId, Disconnect(h)
  PROVE  \E x : LeadsTo(x)
<1>1. Good(World) /\ h \in World.net.up
  BY WorldIs DEF VInv, Disconnect
<1>2. Fine(World, close(World, h))
  BY <1>1, CloseFine
<1> QED
  BY <1>2 DEF LeadsTo, Disconnect

\* A login closes the older connections of the user and gives the player its name.
LEMMA LogonStep ==
  ASSUME VInv, AllowSeatedRelogon = FALSE, NEW h \in HostId, Logon(h)
  PROVE  \E x : LeadsTo(x)
<1>1. PICK u \in User : Become(logon(World, h, u))
  BY DEF Logon
<1>2. Good(World) /\ h \in World.net.up /\ World.players[h].room = NoRoom
  BY WorldIs DEF VInv, Logon, Seated
<1>3. Fine(World, logon(World, h, u))
  BY <1>2, LogonFine
<1> QED
  BY <1>1, <1>3 DEF LeadsTo

\* Leaving a room keeps seats, room list and groups together.
LEMMA LeaveRoomStep ==
  ASSUME VInv, NEW h \in HostId, LeaveRoom(h)
  PROVE  \E x : LeadsTo(x)
<1>1. Fine(World, remove_from_room(World, h))
  BY RemoveFine DEF VInv
<1> QED
  BY <1>1 DEF LeadsTo, LeaveRoom

\* Entering a channel moves no seat.
LEMMA EnterChannelStep ==
  ASSUME VInv, NEW h \in HostId, EnterChannel(h)
  PROVE  \E x : LeadsTo(x)
<1>1. PICK c \in Channel : Become([World EXCEPT !.players[h].channel = c])
  BY DEF EnterChannel
<1>2. PICK w : w = World
  OBVIOUS
<1>3. Good(w) /\ w \in WorldType /\ w.players[h] \in PlayerType
  BY <1>2, Runner DEF EnterChannel, VInv
<1>4. PICK p : p = [w.players[h] EXCEPT !.channel = c]
  OBVIOUS
<1>5. p \in PlayerType /\ p.user = w.players[h].user /\ p.room = w.players[h].room
      /\ p.slot = w.players[h].slot /\ p.look = w.players[h].look /\ p.ready = w.players[h].ready
  BY <1>3, <1>4 DEF PlayerType
<1>6. Stays(w, [w EXCEPT !.players[h] = p])
  BY <1>3, <1>5, PlayerStays
<1>7. Fine(w, [w EXCEPT !.players[h] = p])
  BY <1>6, StaysFine
<1>8. Become([w EXCEPT !.players[h] = p])
  BY <1>1, <1>2, <1>4
<1> QED
  BY <1>2, <1>7, <1>8 DEF LeadsTo

\* Changing the channel leaves the room first.
LEMMA ChangeChannelStep ==
  ASSUME VInv, NEW h \in HostId, ChangeChannel(h)
  PROVE  \E x : LeadsTo(x)
<1>1. PICK c \in Channel \cup {no_channel} :
        Become([remove_from_room(World, h) EXCEPT !.players[h].channel = c])
  BY DEF ChangeChannel
<1>2. PICK w : w = remove_from_room(World, h)
  OBVIOUS
<1>3. Fine(World, w)
  BY <1>2, RemoveFine DEF VInv
<1>4. w \in WorldType /\ w.players[h] \in PlayerType
  BY <1>3 DEF Fine, Good, Ok, WorldType
<1>5. PICK p : p = [w.players[h] EXCEPT !.channel = c]
  OBVIOUS
<1>6. p \in PlayerType /\ p.user = w.players[h].user /\ p.room = w.players[h].room
      /\ p.slot = w.players[h].slot /\ p.look = w.players[h].look /\ p.ready = w.players[h].ready
  BY <1>4, <1>5 DEF PlayerType
<1>7. PICK x : x = [w EXCEPT !.players[h] = p]
  OBVIOUS
<1>8. Stays(w, x)
  BY <1>3, <1>6, <1>7, PlayerStays DEF Fine
<1>9. x.rooms = w.rooms
  BY <1>4, <1>7 DEF WorldType
<1>10. Fine(World, x)
  BY <1>3, <1>8, <1>9, FineThenStays
<1>11. Become(x)
  BY <1>1, <1>2, <1>5, <1>7
<1> QED
  BY <1>10, <1>11 DEF LeadsTo

\* A new room is listed, with its creator in the first seat and as master, and a group of
\* one.
LEMMA CreateRoomStep ==
  ASSUME VInv, NEW h \in HostId, CreateRoom(h)
  PROVE  \E x : LeadsTo(x)
<1>1. PICK max \in 0 .. room_slots - 1, pw \in Password : Become(create_room(World, h, max, pw))
  BY DEF CreateRoom
<1>2. max \in Nat /\ pw \in BOOLEAN
  BY GameAssumption
<1>3. /\ Good(World) /\ CanCreate(World) /\ h \in World.net.up
      /\ World.players[h].user # NoUser /\ World.players[h].channel # no_channel
  BY Runner, WorldIs DEF CreateRoom, VInv
<1>4. Fine(World, create_room(World, h, max, pw))
  BY <1>2, <1>3, CreateFine
<1> QED
  BY <1>1, <1>4 DEF LeadsTo

\* A room that Joinable finds is listed and has a seat; the guard on rejoining one's own
\* room is that of JoinOk.
LEMMA Joins ==
  ASSUME VInv, NEW h \in HostId, Runs(h), NEW n \in RoomNumber, NEW knows,
         Joinable(h, n, knows), ~ Alone(h) \/ m_rooms[n] # players[h].room
  PROVE  Fine(World, join_room(World, h, m_rooms[n]))
<1>1. PICK w : w = World
  OBVIOUS
<1>2. PICK r : r = w.m_rooms[n]
  OBVIOUS
<1>3. /\ Good(w) /\ Ok(w, {}, {}) /\ w \in WorldType /\ h \in w.net.up
      /\ w.players[h].user # NoUser
  BY <1>1, Runner DEF VInv, Good
<1>4. r # NoRoom /\ FreeSlots(w.rooms[r]) # {} /\ ~ w.rooms[r].playing
  BY <1>1, <1>2, WorldIs DEF Joinable, rooms_in
<1>5. r \in Room
  BY <1>2, <1>3, <1>4 DEF WorldType
<1>6. IsListed(w, r)
  BY <1>2, <1>3, <1>4 DEF Ok, ListOk, IsListed
<1>7. Members(w, r) # {h}
  <2> SUFFICES ASSUME Members(w, r) = {h} PROVE FALSE
    OBVIOUS
  <2>1. w.players[h].room = r
    BY DEF Members
  <2>2. Occupants(w.rooms[r]) = {h}
    BY <1>3, <1>5, OccupantsAreMembers DEF Ok
  <2>3. Alone(h) /\ m_rooms[n] = players[h].room
    BY <1>1, <1>2, <1>4, <2>1, <2>2, WorldIs DEF Alone, Seated, RoomOf
  <2> QED
    BY <2>3
<1>8. Fine(w, join_room(w, h, r))
  BY <1>3, <1>4, <1>5, <1>6, <1>7, JoinFine
<1> QED
  BY <1>1, <1>2, <1>8, WorldIs

\* Whoever enters a room sits there and nowhere else.
LEMMA EnterRoomStep ==
  ASSUME VInv, AllowSoleRejoin = FALSE, NEW h \in HostId, EnterRoom(h)
  PROVE  \E x : LeadsTo(x)
<1>1. PICK n \in RoomNumber : /\ Joinable(h, n, TRUE)
                              /\ ~ Alone(h) \/ m_rooms[n] # players[h].room
                              /\ Become(join_room(World, h, m_rooms[n]))
  BY DEF EnterRoom
<1>2. Runs(h)
  BY DEF EnterRoom
<1>3. Fine(World, join_room(World, h, m_rooms[n]))
  BY <1>1, <1>2, Joins
<1> QED
  BY <1>1, <1>3 DEF LeadsTo

\* A quick join is an entrance into some room with a free seat.
LEMMA QuickJoinStep ==
  ASSUME VInv, AllowSoleRejoin = FALSE, NEW h \in HostId, QuickJoin(h)
  PROVE  \E x : LeadsTo(x)
<1>1. PICK found : found = {n \in RoomNumber : Joinable(h, n, FALSE)}
  OBVIOUS
<1>2. PICK n : n = Min(found)
  OBVIOUS
<1>3. /\ Runs(h) /\ found # {}
      /\ ~ Alone(h) \/ m_rooms[n] # players[h].room
      /\ Become(join_room(World, h, m_rooms[n]))
  BY <1>1, <1>2 DEF QuickJoin
<1>4. found \subseteq Nat
  <2>1. found \subseteq RoomNumber
    BY <1>1
  <2>2. RoomNumber \subseteq Nat
    BY GameAssumption DEF RoomNumber
  <2> QED
    BY <2>1, <2>2
<1>5. n \in found
  BY <1>2, <1>3, <1>4, MinInSet
<1>6. n \in RoomNumber /\ Joinable(h, n, FALSE)
  BY <1>1, <1>5
<1>7. Fine(World, join_room(World, h, m_rooms[n]))
  BY <1>3, <1>6, Joins
<1> QED
  BY <1>3, <1>7 DEF LeadsTo

\* A kick by the master takes the target out of the room, as leaving does.
LEMMA KickStep ==
  ASSUME VInv, NEW h \in HostId, Kick(h)
  PROVE  \E x : LeadsTo(x)
<1>1. PICK s \in Slot : /\ RoomOf(h).slots[s] # Nobody
                        /\ Become(remove_from_room(World, RoomOf(h).slots[s]))
  BY DEF Kick
<1>2. Runs(h) /\ Seated(h)
  BY WorldIs DEF Kick, MasterRuns, is_master, Seated
<1>3. PICK o : o = RoomOf(h).slots[s]
  OBVIOUS
<1>4. o \in HostId
  <2>1. PICK w : w = World
    OBVIOUS
  <2>2. PICK r : r = w.players[h].room
    OBVIOUS
  <2>3. w \in WorldType /\ r \in Room
    BY <1>2, <2>1, <2>2, Runner
  <2>4. w.rooms[r].slots \in Seats
    BY <2>3 DEF WorldType, RoomType
  <2>5. o = w.rooms[r].slots[s] /\ o # Nobody
    BY <1>1, <1>3, <2>1, <2>2, WorldIs DEF RoomOf
  <2> QED
    BY <2>4, <2>5 DEF Seats
<1>5. Fine(World, remove_from_room(World, o))
  BY <1>4, RemoveFine DEF VInv
<1> QED
  BY <1>1, <1>3, <1>5 DEF LeadsTo

\* gm_close_room takes everybody else out of the room, one after the other.
LEMMA GmCloseRoomStep ==
  ASSUME VInv, NEW h \in HostId, GmCloseRoom(h)
  PROVE  \E x : LeadsTo(x)
<1>1. PICK w : w = World
  OBVIOUS
<1>2. PICK r : r = w.players[h].room
  OBVIOUS
<1>3. PICK S : S = Others(h)
  OBVIOUS
<1>4. Runs(h) /\ Seated(h) /\ S # {} /\ Become(Vacate(w, r, S))
  BY <1>1, <1>2, <1>3, WorldIs DEF GmCloseRoom
<1>5. Good(w) /\ Ok(w, {}, {}) /\ w \in WorldType /\ r \in Room
  BY <1>1, <1>2, <1>4, Runner DEF VInv, Good
<1>6. Occupants(w.rooms[r]) = Members(w, r)
  BY <1>5, OccupantsAreMembers DEF Ok
<1>7. S \subseteq Occupants(w.rooms[r])
  BY <1>1, <1>2, <1>3, WorldIs DEF Others, RoomOf
<1>8. Fine(w, Vacate(w, r, S))
  BY <1>4, <1>5, <1>6, <1>7, VacateFine
<1> QED
  BY <1>1, <1>4, <1>8 DEF LeadsTo

\* gm_kick takes the member of a nickname out of the room. Once h has thrown itself out
\* of the room it was alone in, a player of that nickname is h itself, as there is one
\* connection per user, and h is in no room any more.
LEMMA GmKickStep ==
  ASSUME VInv, NEW h \in HostId, GmKick(h)
  PROVE  \E x : LeadsTo(x)
<1>1. PICK w : w = World
  OBVIOUS
<1>2. PICK r : r = w.players[h].room
  OBVIOUS
<1>3. PICK o, x : /\ o \in Occupants(w.rooms[r]) /\ x \in Strays(h, w.players[o].user)
                  /\ Become(IF x = Nobody THEN remove_from_room(w, o)
                            ELSE remove_from_room(remove_from_room(w, o), x))
  BY <1>1, <1>2, WorldIs DEF GmKick, RoomOf
<1>4. /\ Good(w) /\ Ok(w, {}, {}) /\ w \in WorldType /\ SeatsOk(w) /\ r \in Room
      /\ w.players[h].user # NoUser
  BY <1>1, <1>2, Runner DEF GmKick, VInv, Good, Ok
<1>5. o \in HostId
  BY <1>3, <1>4, OccupantsAreMembers DEF Members
<1>6. PICK out : out = remove_from_room(w, o)
  OBVIOUS
<1>7. Fine(w, out) /\ Removed(w, out, o)
  BY <1>4, <1>5, <1>6, RemoveFine, RemoveOk
<1>8. CASE x = Nobody
  BY <1>1, <1>3, <1>6, <1>7, <1>8 DEF LeadsTo
<1>9. CASE x # Nobody
  <2>1. Alone(h) /\ x \in HostId /\ players[x].user = w.players[o].user
    BY <1>3, <1>9 DEF Strays
  <2>2. o = h /\ w.players[x].user = w.players[o].user
    BY <1>1, <1>2, <1>3, <2>1, WorldIs DEF Alone, RoomOf
  <2>3. x = o
    BY <1>4, <2>1, <2>2 DEF Ok, PlayersOk
  <2>4. out.players[o].room = NoRoom
    BY <1>5, <1>7 DEF Removed
  <2>5. remove_from_room(out, x) = out
    BY <2>3, <2>4 DEF remove_from_room
  <2> QED
    BY <1>1, <1>3, <1>6, <1>7, <1>9, <2>5 DEF LeadsTo
<1> QED
  BY <1>8, <1>9

\* The master of a room is seated in it.
LEMMA MasterIsSeated ==
  ASSUME VInv, NEW h, MasterRuns(h)
  PROVE  Runs(h) /\ Seated(h)
BY WorldIs DEF MasterRuns, is_master, Seated

-----------------------------------------------------------------------------
(* Steps that tell a room something *)

\* A view with the new closed seats and setting describes the room that has them.
LEMMA Redescribes ==
  ASSUME NEW w, NEW y, y.players = w.players, NEW v, NEW u, NEW a, NEW b, Describes(w, v, a),
         u.slots = v.slots, u.master = v.master, u.looks = v.looks, u.ready = v.ready,
         b.slots = a.slots, b.master_slot = a.master_slot,
         u.closed = b.closed, u.setting = b.setting
  PROVE  Describes(y, u, b)
BY DEF Describes, LookOf, IsReady

\* A slot that is closed is a free one, and nobody moves.
LEMMA CloseSlotStep ==
  ASSUME VInv, NEW h \in HostId, CloseSlot(h)
  PROVE  \E x : LeadsTo(x)
<1>1. PICK w : w = World
  OBVIOUS
<1>2. PICK r : r = w.players[h].room
  OBVIOUS
<1>3. Good(w) /\ w \in WorldType /\ r \in Room
  BY <1>1, <1>2, Runner, MasterIsSeated DEF CloseSlot, VInv
<1>4. PICK s \in Slot :
        /\ w.rooms[r].slots[s] = Nobody
        /\ LET told(v) == [v EXCEPT !.closed = @ \cup {s}]
               shut == [w EXCEPT !.rooms[r].closed = @ \cup {s}]
           IN  Become(send_room(shut, r, told))
  BY <1>1, <1>2, WorldIs DEF CloseSlot, RoomOf
<1>5. PICK room : room = [w.rooms[r] EXCEPT !.closed = @ \cup {s}]
  OBVIOUS
<1>6. PICK y : y = [w EXCEPT !.rooms[r] = room]
  OBVIOUS
<1>7. PICK V : V = [k \in HostId |-> [w.view[k] EXCEPT !.closed = @ \cup {s}]]
  OBVIOUS
<1>8. /\ room \in RoomType /\ SameHouse(room, w.rooms[r])
      /\ y.rooms[r] = room /\ y.players = w.players /\ y.view = w.view
      /\ room.closed = w.rooms[r].closed \cup {s} /\ room.setting = w.rooms[r].setting
  BY <1>3, <1>5, <1>6 DEF WorldType, RoomType, SameHouse
<1>9. ASSUME NEW k \in HostId
      PROVE  /\ V[k] \in ViewType
             /\ Describes(w, w.view[k], w.rooms[r]) => Describes(y, V[k], y.rooms[r])
  <2>1. PICK v, u : v = w.view[k] /\ u = V[k]
    OBVIOUS
  <2>2. v \in ViewType /\ u = [v EXCEPT !.closed = v.closed \cup {s}]
    BY <1>3, <1>7, <2>1 DEF WorldType
  <2>3. /\ u \in ViewType /\ u.slots = v.slots /\ u.master = v.master /\ u.looks = v.looks
        /\ u.ready = v.ready /\ u.setting = v.setting /\ u.closed = v.closed \cup {s}
    BY <2>2 DEF ViewType
  <2>4. ASSUME Describes(w, v, w.rooms[r]) PROVE Describes(y, u, y.rooms[r])
    <3>1. u.closed = room.closed /\ u.setting = room.setting
      BY <1>8, <2>3, <2>4 DEF Describes
    <3>2. room.slots = w.rooms[r].slots /\ room.master_slot = w.rooms[r].master_slot
      BY <1>8 DEF SameHouse
    <3>3. y.players = w.players /\ u.slots = v.slots /\ u.master = v.master
          /\ u.looks = v.looks /\ u.ready = v.ready
      BY <1>8, <2>3
    <3>4. Describes(y, u, room)
      BY <2>4, <3>1, <3>2, <3>3, Redescribes
    <3> QED
      BY <1>8, <3>4
  <2> QED
    BY <2>1, <2>3, <2>4
<1>10. V \in [HostId -> ViewType]
  BY <1>7, <1>9
<1>11. Become(Tell(y, r, V))
  <2>1. Tell(y, r, V) = [y EXCEPT !.view = [k \in HostId |->
          IF k \in Occupants(y.rooms[r]) \cap y.net.up
          THEN [y.view[k] EXCEPT !.closed = @ \cup {s}] ELSE y.view[k]]]
    BY <1>7, <1>8 DEF Tell
  <2> QED
    BY <1>4, <1>5, <1>6, <2>1 DEF send_room
<1>12. Retold(w, y, r, V)
  BY <1>9 DEF Retold
<1>13. ShutsEmpty(w.rooms[r], room)
  BY <1>4, <1>8 DEF ShutsEmpty
<1>14. Stays(w, Tell(y, r, V))
  BY <1>3, <1>6, <1>8, <1>10, <1>12, <1>13, RoomTells
<1> QED
  BY <1>1, <1>11, <1>14, StaysFine DEF LeadsTo

\* Opening a slot moves nobody.
LEMMA OpenSlotStep ==
  ASSUME VInv, NEW h \in HostId, OpenSlot(h)
  PROVE  \E x : LeadsTo(x)
<1>1. PICK w : w = World
  OBVIOUS
<1>2. PICK r : r = w.players[h].room
  OBVIOUS
<1>3. Good(w) /\ w \in WorldType /\ r \in Room
  BY <1>1, <1>2, Runner, MasterIsSeated DEF OpenSlot, VInv
<1>4. PICK s \in Slot :
        LET told(v) == [v EXCEPT !.closed = @ \ {s}]
            opened == [w EXCEPT !.rooms[r].closed = @ \ {s}]
        IN  Become(send_room(opened, r, told))
  BY <1>1, <1>2, WorldIs DEF OpenSlot
<1>5. PICK room : room = [w.rooms[r] EXCEPT !.closed = @ \ {s}]
  OBVIOUS
<1>6. PICK y : y = [w EXCEPT !.rooms[r] = room]
  OBVIOUS
<1>7. PICK V : V = [k \in HostId |-> [w.view[k] EXCEPT !.closed = @ \ {s}]]
  OBVIOUS
<1>8. /\ room \in RoomType /\ SameHouse(room, w.rooms[r])
      /\ y.rooms[r] = room /\ y.players = w.players /\ y.view = w.view
      /\ room.closed = w.rooms[r].closed \ {s} /\ room.setting = w.rooms[r].setting
  BY <1>3, <1>5, <1>6 DEF WorldType, RoomType, SameHouse
<1>9. ASSUME NEW k \in HostId
      PROVE  /\ V[k] \in ViewType
             /\ Describes(w, w.view[k], w.rooms[r]) => Describes(y, V[k], y.rooms[r])
  <2>1. PICK v, u : v = w.view[k] /\ u = V[k]
    OBVIOUS
  <2>2. v \in ViewType /\ u = [v EXCEPT !.closed = v.closed \ {s}]
    BY <1>3, <1>7, <2>1 DEF WorldType
  <2>3. /\ u \in ViewType /\ u.slots = v.slots /\ u.master = v.master /\ u.looks = v.looks
        /\ u.ready = v.ready /\ u.setting = v.setting /\ u.closed = v.closed \ {s}
    BY <2>2 DEF ViewType
  <2>4. ASSUME Describes(w, v, w.rooms[r]) PROVE Describes(y, u, y.rooms[r])
    <3>1. u.closed = room.closed /\ u.setting = room.setting
      BY <1>8, <2>3, <2>4 DEF Describes
    <3>2. room.slots = w.rooms[r].slots /\ room.master_slot = w.rooms[r].master_slot
      BY <1>8 DEF SameHouse
    <3>3. y.players = w.players /\ u.slots = v.slots /\ u.master = v.master
          /\ u.looks = v.looks /\ u.ready = v.ready
      BY <1>8, <2>3
    <3>4. Describes(y, u, room)
      BY <2>4, <3>1, <3>2, <3>3, Redescribes
    <3> QED
      BY <1>8, <3>4
  <2> QED
    BY <2>1, <2>3, <2>4
<1>10. V \in [HostId -> ViewType]
  BY <1>7, <1>9
<1>11. Become(Tell(y, r, V))
  <2>1. Tell(y, r, V) = [y EXCEPT !.view = [k \in HostId |->
          IF k \in Occupants(y.rooms[r]) \cap y.net.up
          THEN [y.view[k] EXCEPT !.closed = @ \ {s}] ELSE y.view[k]]]
    BY <1>7, <1>8 DEF Tell
  <2> QED
    BY <1>4, <1>5, <1>6, <2>1 DEF send_room
<1>12. Retold(w, y, r, V)
  BY <1>9 DEF Retold
<1>13. ShutsEmpty(w.rooms[r], room)
  BY <1>8 DEF ShutsEmpty
<1>14. Stays(w, Tell(y, r, V))
  BY <1>3, <1>6, <1>8, <1>10, <1>12, <1>13, RoomTells
<1> QED
  BY <1>1, <1>11, <1>14, StaysFine DEF LeadsTo

\* The settings of a room move nobody.
LEMMA ChangeSettingStep ==
  ASSUME VInv, NEW h \in HostId, ChangeSetting(h)
  PROVE  \E x : LeadsTo(x)
<1>1. PICK w : w = World
  OBVIOUS
<1>2. PICK r : r = w.players[h].room
  OBVIOUS
<1>3. Good(w) /\ w \in WorldType /\ r \in Room
  BY <1>1, <1>2, Runner, MasterIsSeated DEF ChangeSetting, VInv
<1>4. PICK x \in Setting :
        LET told(v) == [v EXCEPT !.setting = x]
            changed == [w EXCEPT !.rooms[r].setting = x]
        IN  Become(send_room(changed, r, told))
  BY <1>1, <1>2, WorldIs DEF ChangeSetting
<1>5. PICK room : room = [w.rooms[r] EXCEPT !.setting = x]
  OBVIOUS
<1>6. PICK y : y = [w EXCEPT !.rooms[r] = room]
  OBVIOUS
<1>7. PICK V : V = [k \in HostId |-> [w.view[k] EXCEPT !.setting = x]]
  OBVIOUS
<1>8. /\ room \in RoomType /\ SameHouse(room, w.rooms[r])
      /\ y.rooms[r] = room /\ y.players = w.players /\ y.view = w.view
      /\ room.closed = w.rooms[r].closed /\ room.setting = x
  BY <1>3, <1>5, <1>6 DEF WorldType, RoomType, SameHouse
<1>9. ASSUME NEW k \in HostId
      PROVE  /\ V[k] \in ViewType
             /\ Describes(w, w.view[k], w.rooms[r]) => Describes(y, V[k], y.rooms[r])
  <2>1. PICK v, u : v = w.view[k] /\ u = V[k]
    OBVIOUS
  <2>2. v \in ViewType /\ u = [v EXCEPT !.setting = x]
    BY <1>3, <1>7, <2>1 DEF WorldType
  <2>3. /\ u \in ViewType /\ u.slots = v.slots /\ u.master = v.master /\ u.looks = v.looks
        /\ u.ready = v.ready /\ u.closed = v.closed /\ u.setting = x
    BY <2>2 DEF ViewType
  <2>4. ASSUME Describes(w, v, w.rooms[r]) PROVE Describes(y, u, y.rooms[r])
    <3>1. u.closed = room.closed /\ u.setting = room.setting
      BY <1>8, <2>3, <2>4 DEF Describes
    <3>2. room.slots = w.rooms[r].slots /\ room.master_slot = w.rooms[r].master_slot
      BY <1>8 DEF SameHouse
    <3>3. y.players = w.players /\ u.slots = v.slots /\ u.master = v.master
          /\ u.looks = v.looks /\ u.ready = v.ready
      BY <1>8, <2>3
    <3>4. Describes(y, u, room)
      BY <2>4, <3>1, <3>2, <3>3, Redescribes
    <3> QED
      BY <1>8, <3>4
  <2> QED
    BY <2>1, <2>3, <2>4
<1>10. V \in [HostId -> ViewType]
  BY <1>7, <1>9
<1>11. Become(Tell(y, r, V))
  <2>1. Tell(y, r, V) = [y EXCEPT !.view = [k \in HostId |->
          IF k \in Occupants(y.rooms[r]) \cap y.net.up
          THEN [y.view[k] EXCEPT !.setting = x] ELSE y.view[k]]]
    BY <1>7, <1>8 DEF Tell
  <2> QED
    BY <1>4, <1>5, <1>6, <2>1 DEF send_room
<1>12. Retold(w, y, r, V)
  BY <1>9 DEF Retold
<1>13. ShutsEmpty(w.rooms[r], room)
  BY <1>8 DEF ShutsEmpty
<1>14. Stays(w, Tell(y, r, V))
  BY <1>3, <1>6, <1>8, <1>10, <1>12, <1>13, RoomTells
<1> QED
  BY <1>1, <1>11, <1>14, StaysFine DEF LeadsTo

\* A change of the game type moves nobody, and describes the members as they are.
LEMMA ChangeTypeStep ==
  ASSUME VInv, NEW h \in HostId, ChangeType(h)
  PROVE  \E x : LeadsTo(x)
<1>1. PICK w : w = World
  OBVIOUS
<1>2. PICK r : r = w.players[h].room
  OBVIOUS
<1>3. Good(w) /\ w \in WorldType /\ r \in Room
  BY <1>1, <1>2, Runner, MasterIsSeated DEF ChangeType, VInv
<1>4. PICK R, L : R = ReadySlots(w, w.rooms[r]) /\ L = Looks(w, w.rooms[r])
  OBVIOUS
<1>5. PICK x \in Setting :
        LET told(v) == [v EXCEPT !.setting = x, !.ready = ReadySlots(World, RoomOf(h)),
                                 !.looks = Looks(World, RoomOf(h))]
            changed == [World EXCEPT !.rooms[players[h].room].setting = x]
        IN  Become(send_room(changed, players[h].room, told))
  BY DEF ChangeType
<1>6. PICK room : room = [w.rooms[r] EXCEPT !.setting = x]
  OBVIOUS
<1>7. PICK y : y = [w EXCEPT !.rooms[r] = room]
  OBVIOUS
<1>8. PICK V : V = [k \in HostId |-> [w.view[k] EXCEPT !.setting = x, !.ready = R, !.looks = L]]
  OBVIOUS
<1>9. /\ room \in RoomType /\ SameHouse(room, w.rooms[r])
      /\ y.rooms[r] = room /\ y.players = w.players /\ y.view = w.view
      /\ room.closed = w.rooms[r].closed /\ room.setting = x
  BY <1>3, <1>6, <1>7 DEF WorldType, RoomType, SameHouse
<1>10. R \in SUBSET Slot /\ L \in [Slot -> Look]
  <2>1. w.rooms[r] \in RoomType
    BY <1>3 DEF WorldType
  <2>2. PICK v : v = Snapshot(w, w.rooms[r])
    OBVIOUS
  <2>3. v \in ViewType
    BY <1>3, <2>1, <2>2, SnapshotTyped
  <2>4. v.ready = R /\ v.looks = L
    BY <1>4, <2>2 DEF Snapshot
  <2> QED
    BY <2>3, <2>4 DEF ViewType
<1>11. \A s \in Slot : /\ L[s] = LookOf(w, w.rooms[r].slots[s])
                       /\ IsReady(w, w.rooms[r].slots[s]) => s \in R
  BY <1>4 DEF Looks, ReadySlots, Taken, LookOf, IsReady
<1>12. ASSUME NEW k \in HostId
       PROVE  /\ V[k] \in ViewType
              /\ Describes(w, w.view[k], w.rooms[r]) => Describes(y, V[k], y.rooms[r])
  <2>1. PICK v, u : v = w.view[k] /\ u = V[k]
    OBVIOUS
  <2>2. v \in ViewType /\ u = [v EXCEPT !.setting = x, !.ready = R, !.looks = L]
    BY <1>3, <1>8, <2>1 DEF WorldType
  <2>3. /\ u \in ViewType /\ u.slots = v.slots /\ u.master = v.master /\ u.looks = L
        /\ u.ready = R /\ u.closed = v.closed /\ u.setting = x
    BY <1>10, <2>2 DEF ViewType
  <2>4. ASSUME Describes(w, v, w.rooms[r]) PROVE Describes(y, u, y.rooms[r])
    <3>1. /\ y.rooms[r].closed = w.rooms[r].closed /\ y.rooms[r].setting = x
          /\ y.rooms[r].master_slot = w.rooms[r].master_slot
          /\ \A s \in Slot : y.rooms[r].slots[s] = w.rooms[r].slots[s]
      BY <1>9 DEF SameHouse
    <3>2. u.closed = y.rooms[r].closed /\ u.master = y.rooms[r].master_slot
          /\ u.setting = y.rooms[r].setting
      BY <2>3, <2>4, <3>1 DEF Describes
    <3>3. ASSUME NEW s \in Slot
          PROVE  /\ u.slots[s] = y.rooms[r].slots[s]
                 /\ u.looks[s] = LookOf(y, y.rooms[r].slots[s])
                 /\ IsReady(y, y.rooms[r].slots[s]) => s \in u.ready
      <4>1. PICK o : o = w.rooms[r].slots[s]
        OBVIOUS
      <4>2. LookOf(y, o) = LookOf(w, o) /\ IsReady(y, o) = IsReady(w, o)
        BY <1>9 DEF LookOf, IsReady
      <4>3. v.slots[s] = o
        BY <2>4, <4>1 DEF Describes
      <4> QED
        BY <1>11, <2>3, <3>1, <4>1, <4>2, <4>3
    <3> QED
      BY <3>2, <3>3, Zenon DEF Describes
  <2> QED
    BY <2>1, <2>3, <2>4
<1>13. V \in [HostId -> ViewType]
  BY <1>8, <1>12
<1>14. Become(Tell(y, r, V))
  <2>1. Tell(y, r, V) = [y EXCEPT !.view = [k \in HostId |->
          IF k \in Occupants(y.rooms[r]) \cap y.net.up
          THEN [y.view[k] EXCEPT !.setting = x, !.ready = R, !.looks = L] ELSE y.view[k]]]
    BY <1>8, <1>9 DEF Tell
  <2>2. R = ReadySlots(World, RoomOf(h)) /\ L = Looks(World, RoomOf(h))
    BY <1>1, <1>2, <1>4, WorldIs DEF RoomOf
  <2> QED
    BY <1>1, <1>2, <1>5, <1>6, <1>7, <2>1, <2>2, WorldIs DEF send_room
<1>15. Retold(w, y, r, V)
  BY <1>12 DEF Retold
<1>16. ShutsEmpty(w.rooms[r], room)
  BY <1>9 DEF ShutsEmpty
<1>17. Stays(w, Tell(y, r, V))
  BY <1>3, <1>7, <1>9, <1>13, <1>15, <1>16, RoomTells
<1> QED
  BY <1>1, <1>14, <1>17, StaysFine DEF LeadsTo

\* The start of a race leaves the seats and the group as they are.
LEMMA StartGameStep ==
  ASSUME VInv, NEW h \in HostId, StartGame(h)
  PROVE  \E x : LeadsTo(x)
<1>1. PICK w : w = World
  OBVIOUS
<1>2. PICK r : r = w.players[h].room
  OBVIOUS
<1>3. Good(w) /\ w \in WorldType /\ r \in Room
  BY <1>1, <1>2, Runner, MasterIsSeated DEF StartGame, VInv
<1>4. PICK room : room = [w.rooms[r] EXCEPT !.playing = TRUE]
  OBVIOUS
<1>5. Become([w EXCEPT !.rooms[r] = room])
  BY <1>1, <1>2, <1>4, WorldIs DEF StartGame
<1>6. /\ room \in RoomType /\ SameHouse(room, w.rooms[r])
      /\ room.closed = w.rooms[r].closed /\ room.setting = w.rooms[r].setting
  BY <1>3, <1>4, ZenonT(60) DEF WorldType, RoomType, SameHouse
<1>7. Stays(w, [w EXCEPT !.rooms[r] = room])
  BY <1>3, <1>6, RoomStays DEF SameHouse
<1>8. Fine(w, [w EXCEPT !.rooms[r] = room])
  BY <1>7, StaysFine
<1> QED
  BY <1>1, <1>5, <1>8 DEF LeadsTo

\* The way back to the waiting room moves nobody.
LEMMA GotoWaitRoomStep ==
  ASSUME VInv, NEW h \in HostId, GotoWaitRoom(h)
  PROVE  \E x : LeadsTo(x)
<1>1. PICK w : w = World
  OBVIOUS
<1>2. PICK r : r = w.players[h].room
  OBVIOUS
<1>3. /\ Good(w) /\ w \in WorldType /\ w.players[h] \in PlayerType
      /\ Seated(h) => r \in Room
  BY <1>1, <1>2, Runner DEF GotoWaitRoom, VInv
<1>4. PICK p : p = [w.players[h] EXCEPT !.ready = FALSE]
  OBVIOUS
<1>5. PICK y : y = [w EXCEPT !.players[h] = p]
  OBVIOUS
<1>6. Become(IF Seated(h) THEN [y EXCEPT !.rooms[r].playing = FALSE] ELSE y)
  BY <1>1, <1>2, <1>4, <1>5, WorldIs DEF GotoWaitRoom
<1>7. /\ p \in PlayerType /\ p.user = w.players[h].user /\ p.room = w.players[h].room
      /\ p.slot = w.players[h].slot /\ p.look = w.players[h].look /\ ~ p.ready
  BY <1>3, <1>4 DEF PlayerType
<1>8. Stays(w, y)
  BY <1>3, <1>5, <1>7, PlayerStays
<1>9. CASE ~ Seated(h)
  BY <1>1, <1>6, <1>8, <1>9, StaysFine DEF LeadsTo
<1>10. CASE Seated(h)
  <2>1. Good(y) /\ y \in WorldType /\ r \in Room
    BY <1>3, <1>8, <1>10 DEF Stays, Good, Ok
  <2>2. PICK room : room = [y.rooms[r] EXCEPT !.playing = FALSE]
    OBVIOUS
  <2>3. PICK x : x = [y EXCEPT !.rooms[r] = room]
    OBVIOUS
  <2>4. /\ room \in RoomType /\ SameHouse(room, y.rooms[r])
        /\ room.closed = y.rooms[r].closed /\ room.setting = y.rooms[r].setting
    BY <2>1, <2>2, ZenonT(60) DEF WorldType, RoomType, SameHouse
  <2>5. Stays(y, x)
    BY <2>1, <2>3, <2>4, RoomStays DEF SameHouse
  <2>6. Stays(w, x)
    BY <1>8, <2>5 DEF Stays, SameSeats
  <2>7. Become(x)
    BY <1>6, <1>10, <2>2, <2>3
  <2> QED
    BY <1>1, <2>6, <2>7, StaysFine DEF LeadsTo
<1> QED
  BY <1>9, <1>10

\* Whoever is on the seat of a player is that player.
LEMMA SeatHolder ==
  ASSUME NEW w, Ok(w, {}, {}), NEW h \in HostId, NEW r \in Room, w.players[h].room = r,
         NEW t \in Slot
  PROVE  /\ w.players[h].slot \in Slot
         /\ w.rooms[r].slots[t] = h <=> t = w.players[h].slot
<1>1. w \in WorldType /\ SeatsOk(w) /\ r # NoRoom /\ h # Nobody
  BY NullTyped DEF Ok
<1>2. w.players[h].slot \in Slot
  BY <1>1 DEF WorldType, PlayerType
<1>3. w.rooms[r].slots[w.players[h].slot] = h
  BY <1>1, SeatOfPlayer
<1>4. w.rooms[r].slots[t] = h => t = w.players[h].slot
  BY <1>1, PlayerOfSeat
<1> QED
  BY <1>2, <1>3, <1>4

\* Being ready changes only the player's flag and what its room is told.
LEMMA ReadyGameStep ==
  ASSUME VInv, NEW h \in HostId, ReadyGame(h)
  PROVE  \E x : LeadsTo(x)
<1>1. PICK w : w = World
  OBVIOUS
<1>2. PICK r, s : r = w.players[h].room /\ s = w.players[h].slot
  OBVIOUS
<1>3. /\ Good(w) /\ Ok(w, {}, {}) /\ w \in WorldType /\ w.players[h] \in PlayerType
      /\ r \in Room /\ s \in Slot
  BY <1>1, <1>2, Runner DEF ReadyGame, VInv, Good, PlayerType
<1>4. PICK ready \in BOOLEAN :
        LET s_h == players[h].slot
            told(v) == [v EXCEPT !.ready = IF ready THEN @ \cup {s_h} ELSE @ \ {s_h}]
            set == [World EXCEPT !.players[h].ready = ready]
        IN  Become(send_room(set, players[h].room, told))
  BY GameAssumption DEF ReadyGame
<1>5. PICK p : p = [w.players[h] EXCEPT !.ready = ready]
  OBVIOUS
<1>6. PICK y : y = [w EXCEPT !.players[h] = p]
  OBVIOUS
<1>7. PICK V : V = [k \in HostId |->
                     [w.view[k] EXCEPT !.ready = IF ready THEN @ \cup {s} ELSE @ \ {s}]]
  OBVIOUS
<1>8. /\ p \in PlayerType /\ p.user = w.players[h].user /\ p.room = w.players[h].room
      /\ p.slot = w.players[h].slot /\ p.look = w.players[h].look /\ p.ready = ready
  BY <1>3, <1>5 DEF PlayerType
<1>9. /\ y.rooms = w.rooms /\ y.view = w.view
      /\ \A k \in HostId : y.players[k] = IF k = h THEN p ELSE w.players[k]
  BY <1>3, <1>6 DEF WorldType
<1>10. ASSUME NEW k \in HostId
       PROVE  /\ V[k] \in ViewType
              /\ Describes(w, w.view[k], w.rooms[r]) => Describes(y, V[k], y.rooms[r])
  <2>1. PICK v, u : v = w.view[k] /\ u = V[k]
    OBVIOUS
  <2>2. v \in ViewType /\ u = [v EXCEPT !.ready = IF ready THEN v.ready \cup {s} ELSE v.ready \ {s}]
    BY <1>3, <1>7, <2>1 DEF WorldType
  <2>3. /\ u \in ViewType /\ u.slots = v.slots /\ u.master = v.master /\ u.looks = v.looks
        /\ u.closed = v.closed /\ u.setting = v.setting
        /\ u.ready = IF ready THEN v.ready \cup {s} ELSE v.ready \ {s}
    BY <1>3, <2>2 DEF ViewType
  <2>4. ASSUME Describes(w, v, w.rooms[r]) PROVE Describes(y, u, w.rooms[r])
    <3>1. ASSUME NEW t \in Slot
          PROVE  /\ u.slots[t] = w.rooms[r].slots[t]
                 /\ u.looks[t] = LookOf(y, w.rooms[r].slots[t])
                 /\ IsReady(y, w.rooms[r].slots[t]) => t \in u.ready
      <4>1. PICK o : o = w.rooms[r].slots[t]
        OBVIOUS
      <4>2. v.slots[t] = o /\ v.looks[t] = LookOf(w, o) /\ (IsReady(w, o) => t \in v.ready)
        BY <2>4, <4>1, Zenon DEF Describes
      <4>3. (o = h <=> t = s) /\ o \in HostId \cup {Nobody}
        BY <1>2, <1>3, <4>1, SeatHolder, SeatTyped
      <4>4. LookOf(y, o) = LookOf(w, o)
        BY <1>8, <1>9, <4>3 DEF LookOf
      <4>5. IsReady(y, o) => IF o = h THEN ready ELSE IsReady(w, o)
        BY <1>8, <1>9, <4>3 DEF IsReady
      <4> QED
        BY <2>3, <4>1, <4>2, <4>3, <4>4, <4>5
    <3>2. /\ u.closed = w.rooms[r].closed /\ u.master = w.rooms[r].master_slot
          /\ u.setting = w.rooms[r].setting
      BY <2>3, <2>4 DEF Describes
    <3> QED
      BY <3>1, <3>2, Zenon DEF Describes
  <2> QED
    BY <1>9, <2>1, <2>3, <2>4
<1>11. V \in [HostId -> ViewType]
  BY <1>7, <1>10
<1>12. Become(Tell(y, r, V))
  <2>1. Tell(y, r, V) = [y EXCEPT !.view = [k \in HostId |->
          IF k \in Occupants(y.rooms[r]) \cap y.net.up
          THEN [y.view[k] EXCEPT !.ready = IF ready THEN @ \cup {s} ELSE @ \ {s}]
          ELSE y.view[k]]]
    BY <1>7, <1>9 DEF Tell
  <2> QED
    BY <1>1, <1>2, <1>4, <1>5, <1>6, <2>1, WorldIs DEF send_room
<1>13. Retold(w, y, r, V)
  BY <1>10 DEF Retold
<1>14. Stays(w, Tell(y, r, V))
  BY <1>2, <1>3, <1>6, <1>8, <1>11, <1>13, PlayerTells
<1> QED
  BY <1>1, <1>12, <1>14, StaysFine DEF LeadsTo

\* A change of looks changes only the player and what its room, if any, is told.
LEMMA ChangeLookStep ==
  ASSUME VInv, NEW h \in HostId, ChangeLook(h)
  PROVE  \E x : LeadsTo(x)
<1>1. PICK w : w = World
  OBVIOUS
<1>2. PICK r, s : r = w.players[h].room /\ s = w.players[h].slot
  OBVIOUS
<1>3. /\ Good(w) /\ Ok(w, {}, {}) /\ w \in WorldType /\ w.players[h] \in PlayerType
      /\ s \in Slot /\ (Seated(h) => r \in Room) /\ (~ Seated(h) => r = NoRoom)
  BY <1>1, <1>2, Runner, WorldIs DEF ChangeLook, VInv, Good, PlayerType, Seated
<1>4. PICK x \in Look :
        LET told(v) == [v EXCEPT !.looks[players[h].slot] = x]
            set == [World EXCEPT !.players[h].look = x]
        IN  Become(IF Seated(h) THEN send_room(set, players[h].room, told) ELSE set)
  BY DEF ChangeLook
<1>5. PICK p : p = [w.players[h] EXCEPT !.look = x]
  OBVIOUS
<1>6. PICK y : y = [w EXCEPT !.players[h] = p]
  OBVIOUS
<1>7. /\ p \in PlayerType /\ p.user = w.players[h].user /\ p.room = w.players[h].room
      /\ p.slot = w.players[h].slot /\ p.look = x /\ p.ready = w.players[h].ready
  BY <1>3, <1>5 DEF PlayerType
<1>8. CASE ~ Seated(h)
  <2>1. Stays(w, y)
    BY <1>2, <1>3, <1>6, <1>7, <1>8, PlayerStays
  <2>2. Become(y)
    BY <1>1, <1>4, <1>5, <1>6, <1>8
  <2> QED
    BY <1>1, <2>1, <2>2, StaysFine DEF LeadsTo
<1>9. CASE Seated(h)
  <2>1. r \in Room
    BY <1>3, <1>9
  <2>2. PICK V : V = [k \in HostId |-> [w.view[k] EXCEPT !.looks[s] = x]]
    OBVIOUS
  <2>3. /\ y.rooms = w.rooms /\ y.view = w.view
        /\ \A k \in HostId : y.players[k] = IF k = h THEN p ELSE w.players[k]
    BY <1>3, <1>6 DEF WorldType
  <2>4. ASSUME NEW k \in HostId
        PROVE  /\ V[k] \in ViewType
               /\ Describes(w, w.view[k], w.rooms[r]) => Describes(y, V[k], y.rooms[r])
    <3>1. PICK v, u : v = w.view[k] /\ u = V[k]
      OBVIOUS
    <3>2. v \in ViewType /\ u = [v EXCEPT !.looks = [v.looks EXCEPT ![s] = x]]
      BY <1>3, <2>2, <3>1 DEF WorldType
    <3>3. /\ u \in ViewType /\ u.slots = v.slots /\ u.master = v.master /\ u.ready = v.ready
          /\ u.closed = v.closed /\ u.setting = v.setting
          /\ \A t \in Slot : u.looks[t] = IF t = s THEN x ELSE v.looks[t]
      BY <1>3, <3>2 DEF ViewType
    <3>4. ASSUME Describes(w, v, w.rooms[r]) PROVE Describes(y, u, w.rooms[r])
      <4>1. ASSUME NEW t \in Slot
            PROVE  /\ u.slots[t] = w.rooms[r].slots[t]
                   /\ u.looks[t] = LookOf(y, w.rooms[r].slots[t])
                   /\ IsReady(y, w.rooms[r].slots[t]) => t \in u.ready
        <5>1. PICK o : o = w.rooms[r].slots[t]
          OBVIOUS
        <5>2. v.slots[t] = o /\ v.looks[t] = LookOf(w, o) /\ (IsReady(w, o) => t \in v.ready)
          BY <3>4, <5>1, Zenon DEF Describes
        <5>3. (o = h <=> t = s) /\ o \in HostId \cup {Nobody}
          BY <1>2, <1>3, <2>1, <5>1, SeatHolder, SeatTyped
        <5>4. LookOf(y, o) = IF o = h THEN x ELSE LookOf(w, o)
          BY <1>7, <2>3, <5>3, NullTyped DEF LookOf
        <5>5. IsReady(y, o) => IsReady(w, o)
          BY <1>7, <2>3, <5>3 DEF IsReady
        <5> QED
          BY <3>3, <5>1, <5>2, <5>3, <5>4, <5>5
      <4>2. /\ u.closed = w.rooms[r].closed /\ u.master = w.rooms[r].master_slot
            /\ u.setting = w.rooms[r].setting
        BY <3>3, <3>4 DEF Describes
      <4> QED
        BY <4>1, <4>2, Zenon DEF Describes
    <3> QED
      BY <2>3, <3>1, <3>3, <3>4
  <2>5. V \in [HostId -> ViewType]
    BY <2>2, <2>4
  <2>6. Become(Tell(y, r, V))
    <3>1. Tell(y, r, V) = [y EXCEPT !.view = [k \in HostId |->
            IF k \in Occupants(y.rooms[r]) \cap y.net.up
            THEN [y.view[k] EXCEPT !.looks[s] = x] ELSE y.view[k]]]
      BY <2>2, <2>3 DEF Tell
    <3> QED
      BY <1>1, <1>2, <1>4, <1>5, <1>6, <1>9, <3>1, WorldIs DEF send_room
  <2>7. Retold(w, y, r, V)
    BY <2>4 DEF Retold
  <2>8. Stays(w, Tell(y, r, V))
    BY <1>2, <1>3, <1>6, <1>7, <2>1, <2>5, <2>7, PlayerTells
  <2> QED
    BY <1>1, <2>6, <2>8, StaysFine DEF LeadsTo
<1> QED
  BY <1>8, <1>9

-----------------------------------------------------------------------------
(* The invariant *)

\* Each action leads to a world that the lemmas above describe, as long as clients do not
\* do the two things the code does not cope with (SoleRejoin.cfg shows one of them).
LEMMA NextLeads ==
  ASSUME VInv, AllowSeatedRelogon = FALSE, AllowSoleRejoin = FALSE, Next
  PROVE  \E x : LeadsTo(x)
BY ConnectStep, DisconnectStep, LogonStep, LeaveRoomStep, EnterChannelStep,
   ChangeChannelStep, CreateRoomStep, EnterRoomStep, QuickJoinStep, KickStep,
   CloseSlotStep, OpenSlotStep, ChangeTypeStep, ChangeSettingStep, StartGameStep,
   GotoWaitRoomStep, ReadyGameStep, ChangeLookStep, GmCloseRoomStep, GmKickStep
   DEF Next

\* The program starts in the invariant: all rooms are empty and nobody was told anything.
LEMMA InitGood ==
  ASSUME Init
  PROVE  VInv
<1>1. PICK w : w = World
  OBVIOUS
<1>2. Ok(w, {}, {})
  BY <1>1, InitOk DEF IInv
<1>3. /\ \A h \in HostId : w.view[h] = NoView /\ w.players[h] = NoPlayer
      /\ \A r \in Room : w.rooms[r] = NullRoom
  BY <1>1, WorldIs DEF Init
<1>4. ViewsOk(w)
  BY <1>3, NullTyped DEF ViewsOk, NoView, NoPlayer, EmptySeats
<1>5. SizesOk(w)
  BY <1>3 DEF SizesOk, NullRoom, EmptySeats
<1> QED
  BY <1>1, <1>2, <1>4, <1>5 DEF VInv, Good

\* Each step keeps the invariant.
LEMMA NextKeepsInv ==
  ASSUME VInv, AllowSeatedRelogon = FALSE, AllowSoleRejoin = FALSE, [Next]_vars
  PROVE  VInv'
<1>1. CASE UNCHANGED vars
  <2>1. World' = World
    BY <1>1 DEF vars, World
  <2> QED
    BY <2>1 DEF VInv
<1>2. CASE Next
  <2>1. PICK x : LeadsTo(x)
    BY <1>2, NextLeads
  <2>2. Ok(x, {}, {}) /\ Good(x) /\ Become(x)
    BY <2>1 DEF LeadsTo, Fine, Good
  <2>3. World' = Collect(x)
    BY <2>2, BecomeOk
  <2> QED
    BY <2>2, <2>3, CollectGood DEF VInv
<1> QED
  BY <1>1, <1>2

-----------------------------------------------------------------------------
(* What the invariant says of the properties of GameServer *)

\* SeatsConsistent
LEMMA SeatsFollow ==
  ASSUME IInv
  PROVE  SeatsConsistent
<1>1. PICK w : w = World
  OBVIOUS
<1>2. Ok(w, {}, {}) /\ w \in WorldType
  BY <1>1 DEF IInv, Ok
<1>3. \A h \in HostId : w.players[h].room # NoRoom =>
        w.rooms[w.players[h].room].slots[w.players[h].slot] = h /\ h \in w.net.up
  BY <1>2 DEF Ok, SeatsOk, PlayersOk
<1>4. ASSUME NEW r \in listed(w), NEW s \in Slot, w.rooms[r].slots[s] # Nobody
      PROVE  LET h == w.rooms[r].slots[s]
             IN  h \in w.net.up /\ w.players[h].room = r /\ w.players[h].slot = s
  <2>1. PICK h : h = w.rooms[r].slots[s]
    OBVIOUS
  <2>2. r \in Room /\ r # NoRoom
    BY <1>2, <1>4, ListedAre, NullTyped
  <2>3. w.rooms[r].slots \in Seats
    BY <1>2, <2>2 DEF WorldType, RoomType
  <2>4. h \in HostId
    BY <1>4, <2>1, <2>3 DEF Seats
  <2>5. w.players[h].room = r /\ w.players[h].slot = s
    BY <1>2, <1>4, <2>1, <2>2 DEF Ok, SeatsOk
  <2> QED
    BY <1>3, <2>1, <2>2, <2>4, <2>5
<1> QED
  BY <1>1, <1>3, <1>4, WorldIs DEF SeatsConsistent, Seated, Listed

\* RoomsListed
LEMMA ListFollows ==
  ASSUME IInv
  PROVE  RoomsListed
<1>1. PICK w : w = World
  OBVIOUS
<1>2. Ok(w, {}, {}) /\ w \in WorldType
  BY <1>1 DEF IInv, Ok
<1>3. ASSUME NEW h \in HostId, w.players[h].room # NoRoom PROVE w.players[h].room \in listed(w)
  <2>1. w.players[h].room \in Room
    BY <1>2, <1>3 DEF WorldType, PlayerType
  <2>2. IsListed(w, w.players[h].room)
    BY <1>2, <1>3 DEF Ok, ListOk
  <2> QED
    BY <1>2, <2>1, <2>2, ListedAre
<1>4. ASSUME NEW n \in RoomNumber, w.m_rooms[n] # NoRoom
      PROVE  w.rooms[w.m_rooms[n]].number = n /\ Occupants(w.rooms[w.m_rooms[n]]) # {}
  <2>1. PICK r : r = w.m_rooms[n]
    OBVIOUS
  <2>2. r \in Room
    BY <1>2, <1>4, <2>1 DEF WorldType
  <2>3. w.rooms[r].number = n
    BY <1>2, <1>4, <2>1 DEF Ok, ListOk
  <2>4. Members(w, r) # {}
    BY <1>2, <2>1, <2>2, <2>3 DEF Ok, ListOk, IsListed
  <2>5. Occupants(w.rooms[r]) # {}
    BY <1>2, <2>2, <2>4, OccupantsAreMembers DEF Ok
  <2> QED
    BY <2>1, <2>3, <2>5
<1> QED
  BY <1>1, <1>3, <1>4, WorldIs DEF RoomsListed, Seated, Listed

\* MasterPresent
LEMMA MastersFollow ==
  ASSUME IInv
  PROVE  MasterPresent
<1>1. PICK w : w = World
  OBVIOUS
<1>2. Ok(w, {}, {})
  BY <1>1 DEF IInv
<1>3. \A r \in listed(w) : w.rooms[r].slots[w.rooms[r].master_slot] # Nobody
  BY <1>2, ListedAre DEF Ok, MastersOk
<1> QED
  BY <1>1, <1>3, WorldIs DEF MasterPresent, Listed

\* GroupMirrorsRoom
LEMMA GroupsFollow ==
  ASSUME IInv
  PROVE  GroupMirrorsRoom
<1>1. PICK w : w = World
  OBVIOUS
<1>2. Ok(w, {}, {}) /\ w \in WorldType
  BY <1>1 DEF IInv, Ok
<1>3. PICK L : L = listed(w)
  OBVIOUS
<1>4. L = {r \in Room : IsListed(w, r)}
  BY <1>2, <1>3, ListedAre
<1>5. \A r \in L : /\ w.rooms[r].p2p_group \in w.net.groups
                   /\ w.net.members[w.rooms[r].p2p_group] = Occupants(w.rooms[r])
  BY <1>2, <1>4, OccupantsAreMembers DEF Ok, GroupsOk
<1>6. \A r, q \in L : w.rooms[r].p2p_group = w.rooms[q].p2p_group => r = q
  BY <1>2, <1>4 DEF Ok, GroupsOk
<1>7. w.net.groups = {w.rooms[r].p2p_group : r \in L}
  BY <1>2, <1>4, <1>5 DEF Ok, GroupsOk
<1> QED
  BY <1>1, <1>3, <1>5, <1>6, <1>7, WorldIs DEF GroupMirrorsRoom, Listed

\* RaceTrafficStaysInRoom
LEMMA TrafficFollows ==
  ASSUME IInv
  PROVE  RaceTrafficStaysInRoom
<1>1. PICK w : w = World
  OBVIOUS
<1>2. PICK n : n = w.net
  OBVIOUS
<1>3. Ok(w, {}, {}) /\ w \in WorldType /\ Sound(n, {}) /\ n \in NetType
  BY <1>1, <1>2, SoundTyped DEF IInv, Ok
<1>4. ASSUME NEW h \in n.up, NEW p \in n.told[h]
      PROVE  /\ w.players[h].room \in Room
             /\ IsListed(w, w.players[h].room)
             /\ p[1] = w.rooms[w.players[h].room].p2p_group
  <2>1. p \in Pair /\ h \in n.members[p[1]]
    BY <1>3, <1>4 DEF Sound, ToldIsTrue
  <2>2. p[1] \in HostId
    BY <2>1 DEF Pair
  <2>3. p[1] \in n.groups
    BY <1>3, <2>1, <2>2 DEF Sound, MembersConnected
  <2>4. PICK r \in Room : IsListed(w, r) /\ w.rooms[r].p2p_group = p[1]
    BY <1>2, <1>3, <2>3 DEF Ok, GroupsOk
  <2>5. n.members[p[1]] = Members(w, r)
    BY <1>2, <1>3, <2>4 DEF Ok, GroupsOk
  <2>6. w.players[h].room = r
    BY <2>1, <2>5 DEF Members
  <2> QED
    BY <2>4, <2>6
<1>5. ASSUME NEW h \in n.up, w.players[h].room = NoRoom PROVE n.told[h] = {}
  BY <1>4, <1>5, NullTyped
<1>6. ASSUME NEW h \in n.up, w.players[h].room # NoRoom
      PROVE  /\ {p[1] : p \in n.told[h]} = {w.rooms[w.players[h].room].p2p_group}
             /\ \A p \in n.told[h] : relay_unreliable(n, h, {p[1]})
                                        = Occupants(w.rooms[w.players[h].room]) \ {h}
  <2>1. PICK r : r = w.players[h].room
    OBVIOUS
  <2>2. PICK g : g = w.rooms[r].p2p_group
    OBVIOUS
  <2>3. h \in HostId
    BY <1>3 DEF NetType
  <2>4. r \in Room /\ IsListed(w, r)
    BY <1>3, <1>6, <2>1, <2>3 DEF Ok, ListOk, WorldType, PlayerType
  <2>5. g \in n.groups /\ n.members[g] = Members(w, r)
    BY <1>2, <1>3, <2>2, <2>4 DEF Ok, GroupsOk
  <2>6. g \in HostId /\ h \in n.members[g]
    BY <1>3, <2>1, <2>3, <2>5 DEF NetType, Members
  <2>7. <<g, h>> \in n.told[h]
    BY <1>3, <2>3, <2>6 DEF Sound, ToldIsTrue, Pair
  <2>8. \A p \in n.told[h] : p[1] = g
    BY <1>4, <2>1, <2>2
  <2>9. {p[1] : p \in n.told[h]} = {g}
    BY <2>7, <2>8
  <2>10. relay_unreliable(n, h, {g}) = Occupants(w.rooms[r]) \ {h}
    <3>1. UNION {for_each_destination(n, h, d) : d \in {g}} = n.members[g] \ {h}
      BY <2>5 DEF for_each_destination
    <3>2. n.members[g] \subseteq n.up
      BY <1>3, <2>6 DEF Sound, MembersConnected
    <3>3. Occupants(w.rooms[r]) = n.members[g]
      BY <1>3, <2>4, <2>5, OccupantsAreMembers DEF Ok
    <3> QED
      BY <3>1, <3>2, <3>3 DEF relay_unreliable, Reachable
  <2> QED
    BY <2>1, <2>2, <2>8, <2>9, <2>10
<1> QED
  BY <1>1, <1>2, <1>5, <1>6, WorldIs DEF RaceTrafficStaysInRoom, Seated

\* OneConnectionPerAccount
LEMMA ConnectionsFollow ==
  ASSUME IInv
  PROVE  OneConnectionPerAccount
BY WorldIs DEF IInv, Ok, PlayersOk, OneConnectionPerAccount

\* RoomViewAccurate: a view that describes the room differs from a snapshot of it in the
\* ready flags at most.
LEMMA ViewsFollow ==
  ASSUME VInv
  PROVE  RoomViewAccurate
<1>1. PICK w : w = World
  OBVIOUS
<1>2. Good(w) /\ w \in WorldType /\ ViewsOk(w) /\ w.net.up \subseteq HostId
  BY <1>1, SoundTyped DEF VInv, Good, Ok, NetType
<1>3. ASSUME NEW h \in w.net.up, w.players[h].room # NoRoom
      PROVE  LET room == w.rooms[w.players[h].room]
             IN  w.view[h] = [Snapshot(w, room) EXCEPT !.ready = w.view[h].ready]
  <2>1. PICK room : room = w.rooms[w.players[h].room]
    OBVIOUS
  <2>2. h \in HostId /\ w.players[h].room \in Room
    BY <1>2, <1>3 DEF WorldType, PlayerType
  <2>3. PICK v, S : v = w.view[h] /\ S = Snapshot(w, room)
    OBVIOUS
  <2>4. v \in ViewType /\ room \in RoomType /\ Describes(w, v, room)
    BY <1>2, <2>1, <2>2, <2>3, Told DEF WorldType
  <2>5. S \in ViewType
    BY <1>2, <2>3, <2>4, SnapshotTyped
  <2>6. S.slots = room.slots /\ S.closed = room.closed /\ S.master = room.master_slot
        /\ S.setting = room.setting /\ S.looks = Looks(w, room)
    BY <2>3 DEF Snapshot
  <2>7. v.slots = S.slots
    <3>1. v.slots \in Seats /\ S.slots \in Seats
      BY <2>4, <2>5 DEF ViewType
    <3>2. \A s \in Slot : v.slots[s] = S.slots[s]
      BY <2>4, <2>6, Zenon DEF Describes
    <3> QED
      BY <3>1, <3>2 DEF Seats
  <2>8. v.looks = S.looks
    <3>1. v.looks \in [Slot -> Look] /\ S.looks \in [Slot -> Look]
      BY <2>4, <2>5 DEF ViewType
    <3>2. \A s \in Slot : v.looks[s] = LookOf(w, room.slots[s])
      BY <2>4, Zenon DEF Describes
    <3>3. \A s \in Slot : S.looks[s] = LookOf(w, room.slots[s])
      BY <2>6 DEF Looks, LookOf
    <3> QED
      BY <3>1, <3>2, <3>3
  <2>9. v.closed = S.closed /\ v.master = S.master /\ v.setting = S.setting
    BY <2>4, <2>6 DEF Describes
  <2>10. v = [S EXCEPT !.ready = v.ready]
    BY <2>4, <2>5, <2>7, <2>8, <2>9 DEF ViewType
  <2> QED
    BY <2>1, <2>3, <2>10
<1> QED
  BY <1>1, <1>3, WorldIs DEF RoomViewAccurate, Seated

\* ReadySeen
LEMMA ReadyFollows ==
  ASSUME VInv
  PROVE  ReadySeen
<1>1. PICK w : w = World
  OBVIOUS
<1>2. w \in WorldType /\ ViewsOk(w) /\ w.net.up \subseteq HostId
  BY <1>1, SoundTyped DEF VInv, Good, Ok, NetType
<1>3. ASSUME NEW h \in w.net.up, w.players[h].room # NoRoom
      PROVE  ReadySlots(w, w.rooms[w.players[h].room]) \subseteq w.view[h].ready
  <2>1. PICK room : room = w.rooms[w.players[h].room]
    OBVIOUS
  <2>2. h \in HostId /\ w.players[h].room \in Room
    BY <1>2, <1>3 DEF WorldType, PlayerType
  <2>3. Describes(w, w.view[h], room)
    BY <1>2, <2>1, <2>2, Told
  <2>4. \A s \in Slot : IsReady(w, room.slots[s]) => s \in w.view[h].ready
    BY <2>3, Zenon DEF Describes
  <2> QED
    BY <2>1, <2>4 DEF ReadySlots, Taken, IsReady
<1> QED
  BY <1>1, <1>3, WorldIs DEF ReadySeen, Seated

\* Whoever sees h on a seat is in its room, and everybody in its room sees it there.
LEMMA SeenBy ==
  ASSUME NEW w, Good(w), NEW h \in HostId, NEW r \in Room, w.players[h].room = r,
         NEW o \in HostId
  PROVE  o \in Members(w, r) <=> \E s \in Slot : w.view[o].slots[s] = h
<1>1. Ok(w, {}, {}) /\ w \in WorldType /\ SeatsOk(w) /\ ViewsOk(w) /\ h # Nobody
  BY NullTyped DEF Good, Ok
<1>2. ASSUME o \in Members(w, r) PROVE \E s \in Slot : w.view[o].slots[s] = h
  <2>1. PICK s : s = w.players[h].slot
    OBVIOUS
  <2>2. s \in Slot /\ w.rooms[r].slots[s] = h
    <3>1. s \in Slot
      BY <1>1, <2>1 DEF WorldType, PlayerType
    <3> QED
      BY <1>1, <2>1, <3>1, SeatHolder
  <2>3. Describes(w, w.view[o], w.rooms[r])
    BY <1>1, <1>2, Told DEF Members
  <2>4. w.view[o].slots[s] = h
    BY <2>2, <2>3, Zenon DEF Describes
  <2> QED
    BY <2>2, <2>4
<1>3. ASSUME NEW s \in Slot, w.view[o].slots[s] = h PROVE o \in Members(w, r)
  <2>1. w.players[o].room # NoRoom
    BY <1>1, <1>3, ToldNothing
  <2>2. PICK q : q = w.players[o].room
    OBVIOUS
  <2>3. q \in Room
    BY <1>1, <2>1, <2>2 DEF WorldType, PlayerType
  <2>4. Describes(w, w.view[o], w.rooms[q])
    BY <1>1, <2>2, <2>3, Told
  <2>5. w.rooms[q].slots[s] = h
    BY <1>3, <2>4, Zenon DEF Describes
  <2>6. q = r
    BY <1>1, <2>3, <2>5, PlayerOfSeat
  <2> QED
    BY <2>2, <2>6 DEF Members
<1> QED
  BY <1>2, <1>3

\* ChatAudiences
LEMMA AudiencesFollow ==
  ASSUME VInv
  PROVE  ChatAudiences
<1>1. PICK w : w = World
  OBVIOUS
<1>2. PICK up : up = w.net.up
  OBVIOUS
<1>3. Good(w) /\ Ok(w, {}, {}) /\ w \in WorldType /\ SeatsOk(w) /\ up \subseteq HostId
  BY <1>1, <1>2, SoundTyped DEF VInv, Good, Ok, NetType
<1>4. ASSUME NEW h \in up, w.players[h].room # NoRoom
      PROVE  /\ room_chat(w, h) = {o \in up : w.players[o].room = w.players[h].room}
             /\ room_chat(w, h) = {o \in up : \E s \in Slot : w.view[o].slots[s] = h}
  <2>1. PICK r : r = w.players[h].room
    OBVIOUS
  <2>2. h \in HostId /\ r \in Room
    BY <1>3, <1>4, <2>1 DEF WorldType, PlayerType
  <2>3. room_chat(w, h) = Members(w, r) \cap up
    BY <1>2, <1>3, <1>4, <2>1, <2>2, OccupantsAreMembers DEF room_chat
  <2>4. \A o \in up : o \in Members(w, r) <=> \E s \in Slot : w.view[o].slots[s] = h
    BY <1>3, <2>1, <2>2, SeenBy
  <2> QED
    BY <1>3, <2>1, <2>3, <2>4 DEF Members
<1>5. ASSUME NEW h \in up, w.players[h].user # NoUser
      PROVE  (h \in lobby_chat(w, h)) # (\E o \in up : h \in room_chat(w, o))
  <2>1. h \in lobby_chat(w, h) <=> w.players[h].room = NoRoom
    BY <1>2, <1>5 DEF lobby_chat, send_channel_lobby, LoggedOn
  <2>2. ASSUME w.players[h].room # NoRoom PROVE h \in room_chat(w, h)
    BY <1>4, <2>2
  <2>3. ASSUME NEW o \in up, h \in room_chat(w, o) PROVE w.players[h].room # NoRoom
    <3>1. w.players[o].room # NoRoom
      BY <2>3 DEF room_chat
    <3> QED
      BY <1>4, <2>3, <3>1
  <2> QED
    BY <2>1, <2>2, <2>3
<1>6. ASSUME NEW u \in User PROVE Cardinality(whisper_chat(w, u)) <= 1
  <2>1. PICK S : S = whisper_chat(w, u)
    OBVIOUS
  <2>2. S \subseteq HostId /\ \A o \in S : w.players[o].user = u
    BY <1>2, <1>3, <2>1 DEF whisper_chat
  <2>3. \A o, k \in S : o = k
    BY <1>3, <2>2, GameAssumption DEF Ok, PlayersOk
  <2>4. CASE S = {}
    BY <2>1, <2>4, FS_EmptySet
  <2>5. CASE S # {}
    <3>1. PICK o : o \in S
      BY <2>5
    <3>2. S = {o}
      BY <2>3, <3>1
    <3>3. Cardinality(S) = 1
      BY <3>2, FS_Singleton
    <3> QED
      BY <2>1, <3>3
  <2> QED
    BY <2>4, <2>5
<1>7. \A h \in net.up : Seated(h) =>
        room_chat(World, h) = {o \in net.up : \E s \in Slot : view[o].slots[s] = h}
  BY <1>1, <1>2, <1>4, WorldIs DEF Seated
<1>8. \A h \in net.up : Runs(h) =>
        (h \in lobby_chat(World, h)) # (\E o \in net.up : h \in room_chat(World, o))
  BY <1>1, <1>2, <1>5, WorldIs DEF Runs, LoggedOn
<1> QED
  BY <1>1, <1>6, <1>7, <1>8 DEF ChatAudiences

\* A room whose players sit on different seats has as many players as taken seats.
LEMMA AsManySeats ==
  ASSUME NEW room, IsFiniteSet(Taken(room)),
         \A s, t \in Slot : room.slots[s] # Nobody /\ room.slots[s] = room.slots[t] => s = t
  PROVE  Cardinality(Occupants(room)) = Cardinality(Taken(room))
<1>1. PICK T, O : T = Taken(room) /\ O = Occupants(room)
  OBVIOUS
<1>2. PICK f : f = [s \in T |-> room.slots[s]]
  OBVIOUS
<1>3. f \in [T -> O]
  BY <1>1, <1>2 DEF Taken, Occupants
<1>4. \A s, t \in T : f[s] = f[t] => s = t
  BY <1>1, <1>2 DEF Taken
<1>5. \A o \in O : \E s \in T : f[s] = o
  BY <1>1, <1>2 DEF Taken, Occupants
<1>6. f \in Bijection(T, O)
  BY <1>3, <1>4, <1>5 DEF Bijection, Injection, Surjection, IsInjective
<1>7. ExistsBijection(T, O)
  BY <1>6 DEF ExistsBijection
<1> QED
  BY <1>1, <1>7, FS_Bijection

\* ListedVacancy: the seats within the size of the room are the taken ones, the closed
\* ones and the free ones.
LEMMA VacancyFollows ==
  ASSUME VInv
  PROVE  ListedVacancy
<1>1. PICK w : w = World
  OBVIOUS
<1>2. Ok(w, {}, {}) /\ w \in WorldType /\ SeatsOk(w) /\ SizesOk(w)
  BY <1>1 DEF VInv, Good, Ok
<1>3. ASSUME NEW r \in listed(w)
      PROVE  LET info == listed_info(w.rooms[r])
                 shut == {s \in info.slots : s < info.max_players}
             IN  FreeSlots(w.rooms[r]) # {} <=>
                   info.players + Cardinality(shut) < info.max_players
  <2>1. PICK room : room = w.rooms[r]
    OBVIOUS
  <2>2. r \in Room /\ room \in RoomType
    BY <1>2, <1>3, <2>1, ListedAre DEF WorldType
  <2>3. PICK m, T, D : /\ m = room.max_players /\ T = Taken(room)
                       /\ D = {s \in room.closed : s < m}
    OBVIOUS
  <2>4. m \in 1 .. room_slots /\ room.closed \subseteq Slot
    BY <2>2, <2>3 DEF RoomType
  <2>5. PICK Q : Q = 0 .. m - 1
    OBVIOUS
  <2>6. Q = {s \in Slot : s < m} /\ IsFiniteSet(Q) /\ Cardinality(Q) = m /\ m \in Nat
    <3>1. m \in Nat /\ m - 1 \in Int /\ 0 \in Int
      BY <2>4, GameAssumption
    <3>2. IsFiniteSet(Q) /\ Cardinality(Q) = m
      BY <2>4, <2>5, <3>1, FS_Interval
    <3> QED
      BY <2>4, <2>5, <3>1, <3>2, GameAssumption DEF Slot
  <2>7. \A s \in Slot : room.slots[s] # Nobody => s < m /\ s \notin room.closed
    BY <1>2, <2>1, <2>2, <2>3 DEF SizesOk
  <2>8. T \subseteq Q /\ D \subseteq Q /\ T \cap D = {}
    BY <2>3, <2>4, <2>6, <2>7 DEF Taken
  <2>9. FreeSlots(room) = Q \ (T \cup D)
    BY <2>3, <2>6 DEF FreeSlots
  <2>10. /\ IsFiniteSet(T) /\ IsFiniteSet(D) /\ IsFiniteSet(T \cup D)
         /\ Cardinality(T \cup D) \in Nat /\ Cardinality(T \cup D) <= m
         /\ Cardinality(T \cup D) = m => T \cup D = Q
    <3>1. T \in SUBSET Q /\ D \in SUBSET Q /\ T \cup D \in SUBSET Q
      BY <2>8
    <3>2. IsFiniteSet(T) /\ IsFiniteSet(D)
      BY <2>6, <3>1, FS_Subset
    <3>3. /\ IsFiniteSet(T \cup D) /\ Cardinality(T \cup D) <= Cardinality(Q)
          /\ Cardinality(Q) = Cardinality(T \cup D) => Q = T \cup D
      BY <2>6, <3>1, FS_Subset
    <3>4. Cardinality(T \cup D) \in Nat
      BY <3>3, FS_CardinalityType
    <3> QED
      BY <2>6, <3>2, <3>3, <3>4
  <2>11. Cardinality(T \cup D) = Cardinality(T) + Cardinality(D)
    <3>1. Cardinality(T \cup D) = Cardinality(T) + Cardinality(D) - Cardinality(T \cap D)
      BY <2>10, FS_Union
    <3>2. Cardinality(T \cap D) = 0
      BY <2>8, FS_EmptySet
    <3>3. Cardinality(T) \in Nat /\ Cardinality(D) \in Nat
      BY <2>10, FS_CardinalityType
    <3> QED
      BY <3>1, <3>2, <3>3
  <2>12. Cardinality(Occupants(room)) = Cardinality(T)
    <3>1. \A s, t \in Slot : room.slots[s] # Nobody /\ room.slots[s] = room.slots[t] => s = t
      BY <1>2, <2>1, <2>2, PlayerOfSeat
    <3> QED
      BY <2>3, <2>10, <3>1, AsManySeats
  <2>13. FreeSlots(room) # {} <=> Cardinality(Occupants(room)) + Cardinality(D) < m
    <3>1. FreeSlots(room) = {} <=> T \cup D = Q
      BY <2>8, <2>9
    <3>2. T \cup D = Q <=> Cardinality(T \cup D) = m
      BY <2>6, <2>10
    <3>3. Cardinality(T \cup D) = m <=> ~ (Cardinality(T \cup D) < m)
      BY <2>6, <2>10
    <3> QED
      BY <2>11, <2>12, <3>1, <3>2, <3>3
  <2>14. /\ listed_info(room).players = Cardinality(Occupants(room))
         /\ listed_info(room).max_players = m /\ listed_info(room).slots = room.closed
    BY <2>3 DEF listed_info
  <2> QED
    BY <2>1, <2>3, <2>13, <2>14
<1> QED
  BY <1>1, <1>3, WorldIs DEF ListedVacancy, Listed

\* What a step does to rooms that are listed before it: the formulas of NobodyEntersRace,
\* MasterInherits and SeatsLostInOneRoom.
LEMMA StepsMove ==
  ASSUME VInv, AllowSeatedRelogon = FALSE, AllowSoleRejoin = FALSE, Next
  PROVE  /\ \A r \in Listed \cap Listed' :
              rooms[r].playing => Taken(rooms'[r]) \subseteq Taken(rooms[r])
         /\ \A r \in Listed \cap Listed' :
              LET m == rooms'[r].master_slot
              IN  m # rooms[r].master_slot =>
                    rooms[r].slots[m] # Nobody /\ rooms'[r].slots[m] = rooms[r].slots[m]
         /\ \A r, q \in Listed :
              r # q => \/ Occupants(rooms[r]) \subseteq Occupants(rooms'[r])
                       \/ Occupants(rooms[q]) \subseteq Occupants(rooms'[q])
<1>1. PICK x : LeadsTo(x)
  BY NextLeads
<1>2. PICK w : w = World
  OBVIOUS
<1>3. PICK y : y = Collect(x)
  OBVIOUS
<1>4. Ok(w, {}, {}) /\ Good(x) /\ Ok(x, {}, {}) /\ Moves(w, x) /\ Become(x)
  BY <1>1, <1>2 DEF VInv, Good, LeadsTo, Fine
<1>5. World' = y
  BY <1>3, <1>4, BecomeOk
<1>6. y.rooms = rooms' /\ y.m_rooms = m_rooms'
  BY <1>5 DEF World
<1>7. w.rooms = rooms /\ w.m_rooms = m_rooms
  BY <1>2, WorldIs
<1>8. Listed = listed(w) /\ Listed' = listed(y)
  BY <1>6, <1>7 DEF Listed, listed, World
<1>9. Shows(w, y)
  BY <1>3, <1>4, MovesShow
<1> QED
  BY <1>6, <1>7, <1>8, <1>9 DEF Shows

-----------------------------------------------------------------------------
(* Theorems *)

\* Clients neither log on again while seated nor join the room they are alone in.
WellBehaved == AllowSeatedRelogon = FALSE /\ AllowSoleRejoin = FALSE

\* The tables of the game server and of the ProudNet layer agree in every reachable state.
THEOREM Invariant == WellBehaved => (Spec => []VInv)
<1> SUFFICES ASSUME WellBehaved PROVE Spec => []VInv
  OBVIOUS
<1>1. Init => VInv
  BY InitGood
<1>2. VInv /\ [Next]_vars => VInv'
  BY NextKeepsInv DEF WellBehaved
<1> QED
  BY <1>1, <1>2, PTL DEF Spec

\* All handlers keep the types of m_players, m_rooms and the room objects.
THEOREM TypeCorrect == WellBehaved => (Spec => []TypeOK)
<1> SUFFICES ASSUME WellBehaved PROVE Spec => []TypeOK
  OBVIOUS
<1>1. VInv => TypeOK
  BY WorldTyped DEF VInv, Good, Ok
<1>2. Spec => []VInv
  BY Invariant
<1> QED
  BY <1>1, <1>2, PTL

\* SeatsConsistent for every number of players and rooms: remove_from_room, join_room,
\* create_room and the logins keep players and seats in step.
THEOREM SeatsAgree == WellBehaved => (Spec => []SeatsConsistent)
<1> SUFFICES ASSUME WellBehaved PROVE Spec => []SeatsConsistent
  OBVIOUS
<1>1. VInv => SeatsConsistent
  BY SeatsFollow DEF VInv, Good, IInv
<1>2. Spec => []VInv
  BY Invariant
<1> QED
  BY <1>1, <1>2, PTL

\* RoomsListed: m_rooms loses a room exactly when its last player goes.
THEOREM RoomsStayListed == WellBehaved => (Spec => []RoomsListed)
<1> SUFFICES ASSUME WellBehaved PROVE Spec => []RoomsListed
  OBVIOUS
<1>1. VInv => RoomsListed
  BY ListFollows DEF VInv, Good, IInv
<1>2. Spec => []VInv
  BY Invariant
<1> QED
  BY <1>1, <1>2, PTL

\* MasterPresent: whoever leaves, in whatever order, a room with players has a master.
THEOREM MasterStays == WellBehaved => (Spec => []MasterPresent)
<1> SUFFICES ASSUME WellBehaved PROVE Spec => []MasterPresent
  OBVIOUS
<1>1. VInv => MasterPresent
  BY MastersFollow DEF VInv, Good, IInv
<1>2. Spec => []VInv
  BY Invariant
<1> QED
  BY <1>1, <1>2, PTL

\* GroupMirrorsRoom: no P2P group leaks, none is shared, and none lacks a member.
THEOREM GroupsMirrorRooms == WellBehaved => (Spec => []GroupMirrorsRoom)
<1> SUFFICES ASSUME WellBehaved PROVE Spec => []GroupMirrorsRoom
  OBVIOUS
<1>1. VInv => GroupMirrorsRoom
  BY GroupsFollow DEF VInv, Good, IInv
<1>2. Spec => []VInv
  BY Invariant
<1> QED
  BY <1>1, <1>2, PTL

\* RaceTrafficStaysInRoom: what a client sends to the one group it was told of reaches
\* the other players of its room and nobody else.
THEOREM RaceTraffic == WellBehaved => (Spec => []RaceTrafficStaysInRoom)
<1> SUFFICES ASSUME WellBehaved PROVE Spec => []RaceTrafficStaysInRoom
  OBVIOUS
<1>1. VInv => RaceTrafficStaysInRoom
  BY TrafficFollows DEF VInv, Good, IInv
<1>2. Spec => []VInv
  BY Invariant
<1> QED
  BY <1>1, <1>2, PTL

\* OneConnectionPerAccount: the login that finds an older connection drops it, so there is
\* never a second one to find.
THEOREM OneConnection == WellBehaved => (Spec => []OneConnectionPerAccount)
<1> SUFFICES ASSUME WellBehaved PROVE Spec => []OneConnectionPerAccount
  OBVIOUS
<1>1. VInv => OneConnectionPerAccount
  BY ConnectionsFollow DEF VInv, Good, IInv
<1>2. Spec => []VInv
  BY Invariant
<1> QED
  BY <1>1, <1>2, PTL

\* RoomViewAccurate: the notices a room sends keep every client in it as well informed as
\* a new snapshot would.
THEOREM ViewsAccurate == WellBehaved => (Spec => []RoomViewAccurate)
<1> SUFFICES ASSUME WellBehaved PROVE Spec => []RoomViewAccurate
  OBVIOUS
<1>1. VInv => RoomViewAccurate
  BY ViewsFollow
<1>2. Spec => []VInv
  BY Invariant
<1> QED
  BY <1>1, <1>2, PTL

\* ReadySeen: whoever takes over the seat of a player who was ready, nobody who is ready
\* is shown as not ready.
THEOREM ReadyIsSeen == WellBehaved => (Spec => []ReadySeen)
<1> SUFFICES ASSUME WellBehaved PROVE Spec => []ReadySeen
  OBVIOUS
<1>1. VInv => ReadySeen
  BY ReadyFollows
<1>2. Spec => []VInv
  BY Invariant
<1> QED
  BY <1>1, <1>2, PTL

\* ChatAudiences: room chat is read by exactly those who see the speaker on a seat, the
\* lobby by those in no room, and a whisper by one client.
THEOREM ChatReaches == WellBehaved => (Spec => []ChatAudiences)
<1> SUFFICES ASSUME WellBehaved PROVE Spec => []ChatAudiences
  OBVIOUS
<1>1. VInv => ChatAudiences
  BY AudiencesFollow
<1>2. Spec => []VInv
  BY Invariant
<1> QED
  BY <1>1, <1>2, PTL

\* ListedVacancy: what the lobby shows of a room says whether Enter_Room finds a seat, for
\* rooms of every size and with any seats closed.
THEOREM VacancyListed == WellBehaved => (Spec => []ListedVacancy)
<1> SUFFICES ASSUME WellBehaved PROVE Spec => []ListedVacancy
  OBVIOUS
<1>1. VInv => ListedVacancy
  BY VacancyFollows
<1>2. Spec => []VInv
  BY Invariant
<1> QED
  BY <1>1, <1>2, PTL

\* NobodyEntersRace: no handler, and no close of a connection, seats anybody in a room
\* that is racing.
THEOREM RaceIsClosed == WellBehaved => (Spec => NobodyEntersRace)
<1> SUFFICES ASSUME WellBehaved PROVE Spec => NobodyEntersRace
  OBVIOUS
<1>1. VInv /\ [Next]_vars =>
        [\A r \in Listed \cap Listed' :
           rooms[r].playing => Taken(rooms'[r]) \subseteq Taken(rooms[r])]_vars
  BY StepsMove DEF WellBehaved
<1>2. Spec => []VInv
  BY Invariant
<1> QED
  BY <1>1, <1>2, PTL DEF Spec, NobodyEntersRace

\* MasterInherits: whatever leaves and joins one request consists of, a new master sat on
\* its seat before.
THEOREM MastersInherit == WellBehaved => (Spec => MasterInherits)
<1> SUFFICES ASSUME WellBehaved PROVE Spec => MasterInherits
  OBVIOUS
<1>1. VInv /\ [Next]_vars =>
        [\A r \in Listed \cap Listed' :
           LET m == rooms'[r].master_slot
           IN  m # rooms[r].master_slot =>
                 rooms[r].slots[m] # Nobody /\ rooms'[r].slots[m] = rooms[r].slots[m]]_vars
  BY StepsMove DEF WellBehaved
<1>2. Spec => []VInv
  BY Invariant
<1> QED
  BY <1>1, <1>2, PTL DEF Spec, MasterInherits

\* SeatsLostInOneRoom: gm_kick finds nobody to throw out of another room when it goes on
\* reading the seats of a room it has freed.
THEOREM OneRoomLoses == WellBehaved => (Spec => SeatsLostInOneRoom)
<1> SUFFICES ASSUME WellBehaved PROVE Spec => SeatsLostInOneRoom
  OBVIOUS
<1>1. VInv /\ [Next]_vars =>
        [\A r, q \in Listed :
           r # q => \/ Occupants(rooms[r]) \subseteq Occupants(rooms'[r])
                    \/ Occupants(rooms[q]) \subseteq Occupants(rooms'[q])]_vars
  BY StepsMove DEF WellBehaved
<1>2. Spec => []VInv
  BY Invariant
<1> QED
  BY <1>1, <1>2, PTL DEF Spec, SeatsLostInOneRoom
=============================================================================
