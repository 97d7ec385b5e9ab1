--------------------------- MODULE MessengerProofs ---------------------------
(***************************************************************************)
(* Proofs about MessengerServer, for every set of users and every pool of    *)
(* HostIDs. Handlers map worlds to worlds, so the invariants are predicates  *)
(* of worlds and each handler has a lemma that says what it does to them.    *)
(***************************************************************************)
EXTENDS MessengerServer, ProudNetStateProofs

-----------------------------------------------------------------------------
(* Worlds *)

ViewType == [me : User \cup {NoUser}, friends : SUBSET User, online : SUBSET User]

WorldType ==
  [net : NetType, accounts : SUBSET User, users : [HostId -> User \cup {NoUser}],
   pending : [HostId -> SUBSET User], friendships : [User -> SUBSET User],
   view : [HostId -> ViewType]]

\* Nobody is asked to befriend oneself, and a friendship has both sides.
Asked(w) == \A h \in HostId : w.users[h] \notin w.pending[h]

Mutual(w) ==
  \A u, v \in User : v \in w.friendships[u] => u # v /\ u \in w.friendships[v]

\* What holds however clients log in, while the connections C are being closed.
Base(w, C) ==
  /\ w \in WorldType
  /\ Sound(w.net, C)
  /\ Asked(w)
  /\ Mutual(w)

\* An entry of m_users belongs to a connected client, one for each user, and the
\* client knows that it is logged in.
Entries(w) ==
  /\ \A h \in HostId : w.users[h] # NoUser => h \in w.net.up
  /\ \A h, o \in HostId : w.users[h] # NoUser /\ w.users[h] = w.users[o] => h = o
  /\ \A h \in HostId : w.view[h].me = w.users[h]

\* f has an entry in m_users.
IsOnline(w, f) == \E o \in HostId : w.users[o] = f

\* Client h knows all its friends and which of them are online.
Knows(w, h) ==
  LET fs == w.friendships[w.users[h]]
  IN  /\ fs \subseteq w.view[h].friends
      /\ \A f \in fs : f \in w.view[h].online <=> IsOnline(w, f)

\* What holds if nobody logs in on a connection that is logged in.
Live(w) == Entries(w) /\ \A h \in HostId : w.users[h] # NoUser => Knows(w, h)

\* The inductive invariants.
BaseInv == Base(World, {})
IInv == BaseInv /\ Live(World)

-----------------------------------------------------------------------------
\* Become makes w the world, and well-typed states are well-typed worlds.
LEMMA BecomeWorld ==
  ASSUME NEW w \in WorldType, Become(w)
  PROVE  World' = w
BY DEF Become, World, WorldType

\* A well-typed state is a well-typed world.
LEMMA WorldTyped == TypeOK <=> World \in WorldType
BY DEF TypeOK, World, WorldType, ViewType

\* online and by_index find a host of the user if there is one.
LEMMA OnlineFinds ==
  ASSUME NEW w \in WorldType, NEW u
  PROVE  /\ online(w, u) \subseteq HostId
         /\ \A h \in online(w, u) : w.users[h] = u
         /\ online(w, u) # {} <=> IsOnline(w, u)
<1> DEFINE hosts == {h \in HostId : w.users[h] = u}
<1>1. hosts \subseteq Nat
  BY HostIdAssumption DEF HostId
<1>2. hosts # {} => Min(hosts) \in hosts
  BY <1>1, MinInSet
<1>3. online(w, u) = IF hosts = {} THEN {} ELSE {Min(hosts)}
  BY DEF online
<1> QED
  BY <1>2, <1>3 DEF IsOnline

\* With one entry for each user, online finds all there is.
LEMMA OnlineIsAll ==
  ASSUME NEW w \in WorldType, Entries(w), NEW u \in User
  PROVE  online(w, u) = {h \in HostId : w.users[h] = u}
<1>1. /\ online(w, u) \subseteq HostId
      /\ \A h \in online(w, u) : w.users[h] = u
      /\ online(w, u) # {} <=> IsOnline(w, u)
  BY OnlineFinds
<1>2. u # NoUser
  BY MessengerAssumption
<1> QED
  BY <1>1, <1>2 DEF Entries, IsOnline

\* The clients that hear of u: the connected ones where a friend of u is online.
Hearers(w, u) == (UNION {online(w, f) : f \in w.friendships[u]}) \cap w.net.up

\* r is w after its clients were told that u is there or gone, field by field.
Notified(w, r, u, b) ==
  /\ r \in WorldType
  /\ r.net = w.net /\ r.accounts = w.accounts /\ r.users = w.users
  /\ r.pending = w.pending /\ r.friendships = w.friendships
  /\ \A h \in HostId :
       /\ r.view[h].me = w.view[h].me
       /\ r.view[h].friends = w.view[h].friends
       /\ r.view[h].online =
            IF h \in Hearers(w, u)
            THEN IF b THEN w.view[h].online \cup {u} ELSE w.view[h].online \ {u}
            ELSE w.view[h].online

\* notify_friends_state only tells clients that u is there or gone.
LEMMA NotifyFields ==
  ASSUME NEW w \in WorldType, NEW u \in User, NEW b \in BOOLEAN
  PROVE  Notified(w, notify_friends_state(w, u, b), u, b)
<1> DEFINE r == notify_friends_state(w, u, b)
           T == [h \in HostId |->
                  IF h \in Hearers(w, u)
                  THEN [w.view[h] EXCEPT !.online =
                          IF b THEN w.view[h].online \cup {u} ELSE w.view[h].online \ {u}]
                  ELSE w.view[h]]
<1>1. r = [w EXCEPT !.view = T]
  BY DEF notify_friends_state, Tell, Reachable, Hearers
<1>2. w.view \in [HostId -> ViewType]
  BY DEF WorldType
<1>3. ASSUME NEW h \in HostId
      PROVE  /\ T[h] \in ViewType
             /\ T[h].me = w.view[h].me
             /\ T[h].friends = w.view[h].friends
             /\ T[h].online =
                  IF h \in Hearers(w, u)
                  THEN IF b THEN w.view[h].online \cup {u} ELSE w.view[h].online \ {u}
                  ELSE w.view[h].online
  BY <1>2 DEF ViewType
<1>4. T \in [HostId -> ViewType]
  BY <1>3
<1> HIDE DEF T, r
<1>5. /\ r \in WorldType /\ r.view = T
      /\ r.net = w.net /\ r.accounts = w.accounts /\ r.users = w.users
      /\ r.pending = w.pending /\ r.friendships = w.friendships
  BY <1>1, <1>4 DEF WorldType
<1> QED
  BY <1>3, <1>5 DEF r, Notified

-----------------------------------------------------------------------------
(* Closing connections *)

\* r is w after the connection h was closed, field by field: the tables,
ClosedTables(w, r, h) ==
  /\ r \in WorldType /\ Sound(r.net, {})
  /\ r.net.peers = w.net.peers \ {h} /\ r.net.up = w.net.up \ {h}
  /\ r.accounts = w.accounts /\ r.friendships = w.friendships
  /\ h \in HostId /\ r.users = [w.users EXCEPT ![h] = NoUser]
  /\ \A o \in HostId : r.pending[o] \subseteq w.pending[o]
  /\ r.view[h] = NoView

\* and what client o knows.
ClosedView(w, r, h, o) ==
  LET u == w.users[h]
  IN  /\ r.view[o].me = w.view[o].me
      /\ r.view[o].friends = w.view[o].friends
      /\ r.view[o].online =
           IF /\ u # NoUser /\ o \in w.net.up
              /\ \E f \in w.friendships[u] : o \in online(r, f)
           THEN w.view[o].online \ {u} ELSE w.view[o].online

\* peer::close of a registered connection h: its entry goes, and those of its friends
\* that are online hear of it.
LEMMA CloseFields ==
  ASSUME NEW w \in WorldType, Sound(w.net, {}), NEW h \in w.net.peers
  PROVE  /\ ClosedTables(w, close(w, h), h)
         /\ \A o \in HostId \ {h} : ClosedView(w, close(w, h), h, o)
<1> DEFINE u == w.users[h]
           n == MarkClosed(w.net, {h})
           v == [w EXCEPT !.net = n]
           out == on_client_leave(v, h)
           r == close(w, h)
<1>1. /\ Sound(n, {h}) /\ n.peers = w.net.peers /\ n.up = w.net.up \ {h}
  BY MarkClosedSound
<1>2. h \in HostId /\ n \in NetType /\ w.net \in NetType
  BY <1>1 DEF Sound, AllocInv, NetType
<1> HIDE DEF n
<1>3. /\ v \in WorldType /\ v.net = n /\ v.accounts = w.accounts /\ v.users = w.users
      /\ v.pending = w.pending /\ v.friendships = w.friendships /\ v.view = w.view
  BY <1>2 DEF WorldType
<1>4. r = [out EXCEPT !.net = on_peer_closed(out.net, {h}), !.view[h] = NoView]
  BY DEF close, n
<1> HIDE DEF v
<1>5. /\ out \in WorldType /\ out.net = n /\ out.accounts = w.accounts
      /\ out.friendships = w.friendships /\ out.users = [w.users EXCEPT ![h] = NoUser]
      /\ \A o \in HostId : out.pending[o] \subseteq w.pending[o]
      /\ \A o \in HostId \ {h} :
           /\ out.view[o].me = w.view[o].me
           /\ out.view[o].friends = w.view[o].friends
           /\ out.view[o].online =
                IF /\ u # NoUser /\ o \in w.net.up
                   /\ \E f \in w.friendships[u] : o \in online(out, f)
                THEN w.view[o].online \ {u} ELSE w.view[o].online
  <2>1. CASE u = NoUser
    <3>1. out = v
      BY <1>3, <2>1 DEF on_client_leave
    <3>2. w.users = [w.users EXCEPT ![h] = NoUser]
      BY <1>2, <2>1 DEF WorldType
    <3> QED
      BY <1>3, <2>1, <3>1, <3>2
  <2>2. CASE u # NoUser
    <3> DEFINE x == [v EXCEPT !.users[h] = NoUser, !.pending[h] = {}]
    <3>1. /\ x \in WorldType /\ x.net = n /\ x.accounts = w.accounts
          /\ x.users = [w.users EXCEPT ![h] = NoUser]
          /\ x.pending = [w.pending EXCEPT ![h] = {}]
          /\ x.friendships = w.friendships /\ x.view = w.view
      BY <1>2, <1>3 DEF WorldType
    <3>2. out = notify_friends_state(x, u, FALSE)
      BY <1>3, <2>2 DEF on_client_leave
    <3>3. u \in User
      BY <1>2, <2>2 DEF WorldType
    <3> HIDE DEF x, out, u
    <3>n. Notified(x, out, u, FALSE)
      BY <3>1, <3>2, <3>3, NotifyFields
    <3>4. /\ out \in WorldType
          /\ out.net = x.net /\ out.accounts = x.accounts /\ out.users = x.users
          /\ out.pending = x.pending /\ out.friendships = x.friendships
          /\ \A o \in HostId :
               /\ out.view[o].me = x.view[o].me
               /\ out.view[o].friends = x.view[o].friends
               /\ out.view[o].online =
                    IF o \in Hearers(x, u)
                    THEN x.view[o].online \ {u} ELSE x.view[o].online
      BY <3>n DEF Notified
    <3>5. \A f : online(out, f) = online(x, f)
      BY <3>4 DEF online
    <3>6. \A o \in HostId \ {h} : o \in Hearers(x, u) <=>
             o \in w.net.up /\ \E f \in w.friendships[u] : o \in online(out, f)
      BY <1>1, <3>1, <3>5 DEF Hearers
    <3>7. \A o \in HostId : out.pending[o] \subseteq w.pending[o]
      BY <1>2, <3>1, <3>4 DEF WorldType
    <3> QED
      BY <2>2, <3>1, <3>4, <3>6, <3>7 DEF u
  <2> QED
    BY <2>1, <2>2
<1> HIDE DEF out, r, u
<1>6. /\ Sound(on_peer_closed(n, {h}), {})
      /\ on_peer_closed(n, {h}).peers = w.net.peers \ {h}
      /\ on_peer_closed(n, {h}).up = w.net.up \ {h}
  <2>1. PICK S : S = {h}
    OBVIOUS
  <2>2. Sound(n, S) /\ S \subseteq n.peers
    BY <1>1, <2>1
  <2>3. /\ Sound(on_peer_closed(n, S), {}) /\ on_peer_closed(n, S).peers = n.peers \ S
        /\ on_peer_closed(n, S).up = n.up
    BY <2>2, PeerClosedSound
  <2> QED
    BY <1>1, <2>1, <2>3
<1>7. on_peer_closed(n, {h}) \in NetType /\ NoView \in ViewType
  BY <1>6 DEF Sound, AllocInv, NoView, ViewType
<1>8. /\ r \in WorldType /\ r.net = on_peer_closed(n, {h}) /\ r.accounts = out.accounts
      /\ r.friendships = out.friendships /\ r.users = out.users /\ r.pending = out.pending
      /\ r.view = [out.view EXCEPT ![h] = NoView]
  BY <1>2, <1>4, <1>5, <1>7 DEF WorldType
<1>9. r.view[h] = NoView /\ \A o \in HostId \ {h} : r.view[o] = out.view[o]
  BY <1>2, <1>5, <1>8 DEF WorldType
<1>10. \A f : online(r, f) = online(out, f)
  BY <1>8 DEF online
<1>11. ClosedTables(w, r, h)
  BY <1>2, <1>5, <1>6, <1>8, <1>9 DEF ClosedTables
<1>12. ASSUME NEW o \in HostId \ {h} PROVE ClosedView(w, r, h, o)
  BY <1>5, <1>9, <1>10 DEF ClosedView, u
<1> QED
  BY <1>11, <1>12 DEF r

\* Closing keeps what holds however clients log in.
LEMMA CloseBase ==
  ASSUME NEW w, Base(w, {}), NEW h \in w.net.peers
  PROVE  Base(close(w, h), {})
<1> DEFINE r == close(w, h)
<1>1. w \in WorldType /\ Sound(w.net, {})
  BY DEF Base
<1>2. /\ r \in WorldType /\ Sound(r.net, {}) /\ r.friendships = w.friendships
      /\ h \in HostId /\ r.users = [w.users EXCEPT ![h] = NoUser]
      /\ \A o \in HostId : r.pending[o] \subseteq w.pending[o]
  BY <1>1, CloseFields DEF ClosedTables
<1> HIDE DEF r
<1>3. Asked(r)
  <2>1. \A o \in HostId : r.users[o] = w.users[o] \/ r.users[o] = NoUser
    BY <1>1, <1>2 DEF WorldType
  <2>2. \A o \in HostId : NoUser \notin r.pending[o]
    BY <1>2, MessengerAssumption DEF WorldType
  <2> QED
    BY <1>2, <2>1, <2>2 DEF Base, Asked
<1>4. Mutual(r)
  BY <1>2 DEF Base, Mutual
<1> QED
  BY <1>2, <1>3, <1>4 DEF Base, r

\* When a client goes, all its friends that are online hear of it.
LEMMA CloseLive ==
  ASSUME NEW w, Base(w, {}), Live(w), NEW h \in w.net.peers
  PROVE  Live(close(w, h))
<1> DEFINE r == close(w, h)
           u == w.users[h]
<1>1. w \in WorldType /\ Sound(w.net, {})
  BY DEF Base
<1>2. /\ r \in WorldType /\ Sound(r.net, {})
      /\ r.net.peers = w.net.peers \ {h} /\ r.net.up = w.net.up \ {h}
      /\ r.friendships = w.friendships
      /\ h \in HostId /\ r.users = [w.users EXCEPT ![h] = NoUser]
      /\ r.view[h] = NoView
  BY <1>1, CloseFields DEF ClosedTables
<1>v. \A o \in HostId \ {h} : ClosedView(w, r, h, o)
  BY <1>1, CloseFields
<1>3. /\ r.users[h] = NoUser /\ \A o \in HostId \ {h} : r.users[o] = w.users[o]
  BY <1>1, <1>2 DEF WorldType
<1>4. u \in User \cup {NoUser} /\ NoUser \notin User
  BY <1>1, <1>2, MessengerAssumption DEF WorldType
<1> HIDE DEF r
<1>5. Entries(r)
  <2>1. ASSUME NEW o \in HostId PROVE r.view[o].me = r.users[o]
    <3>1. CASE o = h
      BY <1>2, <1>3, <3>1 DEF NoView
    <3>2. CASE o # h
      BY <1>3, <1>v, <3>2 DEF Live, Entries, ClosedView
    <3> QED
      BY <3>1, <3>2
  <2> QED
    BY <1>2, <1>3, <2>1 DEF Live, Entries
<1>6. ASSUME NEW o \in HostId, r.users[o] # NoUser
      PROVE  Knows(r, o)
  <2>1. o # h /\ r.users[o] = w.users[o] /\ w.users[o] \in User
    BY <1>1, <1>3, <1>6 DEF WorldType
  <2>2. Knows(w, o) /\ o \in w.net.up
    BY <2>1, <1>6 DEF Live, Entries
  <2>3. ASSUME NEW f \in r.friendships[r.users[o]]
        PROVE  f \in r.view[o].online <=> IsOnline(r, f)
    <3>1. f \in User /\ f \in w.friendships[w.users[o]] /\ (f \in w.view[o].online <=> IsOnline(w, f))
      BY <1>1, <1>2, <2>1, <2>2 DEF Knows, WorldType
    <3>2. CASE f = u
      <4>1. w.users[o] \in w.friendships[u] /\ u # NoUser
        BY <1>4, <2>1, <3>1, <3>2 DEF Base, Mutual
      <4>2. o \in online(r, w.users[o])
        <5>1. r \in WorldType /\ w.users[o] \in User
          BY <1>2, <2>1
        <5>2. online(r, w.users[o]) = {x \in HostId : r.users[x] = w.users[o]}
          BY <1>5, <5>1, OnlineIsAll
        <5> QED
          BY <2>1, <5>2
      <4>3. f \notin r.view[o].online
        BY <1>v, <2>1, <2>2, <3>2, <4>1, <4>2 DEF ClosedView
      <4>4. ~IsOnline(r, f)
        BY <1>2, <1>3, <3>2, <4>1 DEF IsOnline, Live, Entries
      <4> QED
        BY <4>3, <4>4
    <3>3. CASE f # u
      <4>1. f \in r.view[o].online <=> f \in w.view[o].online
        BY <1>v, <2>1, <3>3 DEF ClosedView
      <4>2. IsOnline(r, f) <=> IsOnline(w, f)
        BY <1>2, <1>3, <1>4, <3>1, <3>3 DEF IsOnline
      <4> QED
        BY <3>1, <4>1, <4>2
    <3> QED
      BY <3>2, <3>3
  <2>4. r.friendships[r.users[o]] \subseteq r.view[o].friends
    BY <1>2, <1>v, <2>1, <2>2 DEF Knows, ClosedView
  <2> QED
    BY <2>3, <2>4 DEF Knows
<1> QED
  BY <1>5, <1>6 DEF Live, r

-----------------------------------------------------------------------------
(* Logging in *)

\* The older login of u is closed, if it is on a registered connection.
LEMMA CloseOlderBase ==
  ASSUME NEW w, Base(w, {}), NEW u \in User
  PROVE  Base(CloseOlder(w, u), {})
<1> DEFINE old == online(w, u) \cap w.net.peers
<1>1. CASE old = {}
  BY <1>1 DEF CloseOlder
<1>2. CASE old # {}
  <2>1. old \subseteq Nat
    BY OnlineFinds, HostIdAssumption DEF Base, HostId
  <2>2. Min(old) \in w.net.peers
    BY <1>2, <2>1, MinInSet
  <2>3. CloseOlder(w, u) = close(w, Min(old))
    BY <1>2 DEF CloseOlder
  <2> QED
    BY <2>2, <2>3, CloseBase
<1> QED
  BY <1>1, <1>2

\* With accurate entries u is offline then, and a connection that is not logged in
\* is still there.
LEMMA CloseOlderLive ==
  ASSUME NEW w, Base(w, {}), Live(w), NEW u \in User,
         NEW h \in w.net.up, w.users[h] = NoUser
  PROVE  LET c == CloseOlder(w, u)
         IN  /\ Live(c) /\ ~IsOnline(c, u)
             /\ h \in c.net.up /\ c.users[h] = NoUser
<1> DEFINE old == online(w, u) \cap w.net.peers
           c == CloseOlder(w, u)
<1>0. /\ w \in WorldType /\ Sound(w.net, {}) /\ u # NoUser /\ w.net.up \subseteq w.net.peers
      /\ h \in HostId
  BY MessengerAssumption DEF Base, Sound, AllocInv, NetType
<1>1. online(w, u) = {o \in HostId : w.users[o] = u}
  BY <1>0, OnlineIsAll DEF Live
<1>2. \A o \in online(w, u) : o \in w.net.peers
  BY <1>0, <1>1 DEF Live, Entries
<1>3. CASE old = {}
  <2>1. c = w
    BY <1>3 DEF CloseOlder
  <2>2. ~IsOnline(w, u)
    BY <1>1, <1>2, <1>3 DEF IsOnline
  <2> QED
    BY <2>1, <2>2
<1>4. CASE old # {}
  <2>1. old \subseteq Nat
    BY <1>1, HostIdAssumption DEF HostId
  <2>2. PICK o \in old : o = Min(old)
    BY <1>4, <2>1, MinInSet
  <2>3. c = close(w, o)
    BY <1>4, <2>2 DEF CloseOlder
  <2>4. o \in w.net.peers /\ o \in HostId /\ w.users[o] = u
    BY <1>1
  <2>5. Live(c)
    BY <2>3, <2>4, CloseLive
  <2>6. ClosedTables(w, c, o)
    BY <1>0, <2>3, <2>4, CloseFields
  <2>7. /\ c.users = [w.users EXCEPT ![o] = NoUser] /\ c.net.up = w.net.up \ {o}
    BY <2>6 DEF ClosedTables
  <2>8. /\ c.users[o] = NoUser /\ \A x \in HostId \ {o} : c.users[x] = w.users[x]
    BY <1>0, <2>4, <2>7 DEF WorldType
  <2>9. h # o
    BY <1>0, <2>4
  <2>10. ~IsOnline(c, u)
    BY <1>0, <2>4, <2>8 DEF IsOnline, Live, Entries
  <2> QED
    BY <1>0, <2>5, <2>7, <2>8, <2>9, <2>10
<1> QED
  BY <1>3, <1>4

\* The answer to the login of u on h, told to that client alone.
Greeting(w, h, u) ==
  [w EXCEPT !.view = [x \in HostId |->
     IF x \in {h} \cap w.net.up
     THEN [me |-> u, friends |-> w.friendships[u],
           online |-> {f \in w.friendships[u] : online(w, f) # {}}]
     ELSE w.view[x]]]

Entered(w, h, u) == [CloseOlder(w, u) EXCEPT !.users[h] = u, !.pending[h] = {}]

\* The login of a known user: entered, greeted, and announced to the friends.
LEMMA LogonIs ==
  ASSUME NEW w, NEW h, NEW u, u \in w.accounts
  PROVE  logon(w, h, u) = notify_friends_state(Greeting(Entered(w, h, u), h, u), u, TRUE)
BY DEF logon, Tell, Reachable, Greeting, Entered

\* The world c with an entry for u on h, field by field.
EntryAdded(c, in, h, u) ==
  /\ in \in WorldType /\ in.net = c.net /\ in.accounts = c.accounts
  /\ in.users = [c.users EXCEPT ![h] = u]
  /\ in.pending = [c.pending EXCEPT ![h] = {}]
  /\ in.friendships = c.friendships /\ in.view = c.view

\* Entering a user changes the fields users and pending of its host, and nothing else.
LEMMA EnteredFields ==
  ASSUME NEW w, Base(w, {}), NEW h \in HostId, NEW u \in User
  PROVE  EntryAdded(CloseOlder(w, u), Entered(w, h, u), h, u)
<1> DEFINE c == CloseOlder(w, u)
<1>1. c \in WorldType
  BY CloseOlderBase DEF Base
<1> DEFINE in == [c EXCEPT !.users[h] = u, !.pending[h] = {}]
<1>2. Entered(w, h, u) = in
  BY DEF Entered
<1> HIDE DEF c
<1>3. /\ in \in WorldType /\ in.net = c.net /\ in.accounts = c.accounts
      /\ in.users = [c.users EXCEPT ![h] = u]
      /\ in.pending = [c.pending EXCEPT ![h] = {}]
      /\ in.friendships = c.friendships /\ in.view = c.view
  BY <1>1 DEF WorldType
<1> HIDE DEF in
<1> QED
  BY <1>2, <1>3 DEF c, EntryAdded

\* The greeting, field by field.
LEMMA GreetingFields ==
  ASSUME NEW w \in WorldType, NEW h \in HostId, NEW u \in User
  PROVE  LET t == Greeting(w, h, u)
         IN  /\ t \in WorldType /\ t.net = w.net /\ t.accounts = w.accounts
             /\ t.users = w.users /\ t.pending = w.pending /\ t.friendships = w.friendships
             /\ \A x \in HostId : x # h => t.view[x] = w.view[x]
             /\ h \in w.net.up => /\ t.view[h].me = u
                                  /\ t.view[h].friends = w.friendships[u]
                                  /\ t.view[h].online = {f \in w.friendships[u] : IsOnline(w, f)}
<1> DEFINE hi == [me |-> u, friends |-> w.friendships[u],
                  online |-> {f \in w.friendships[u] : online(w, f) # {}}]
           T == [x \in HostId |-> IF x \in {h} \cap w.net.up THEN hi ELSE w.view[x]]
           t == Greeting(w, h, u)
<1>1. w.friendships[u] \subseteq User /\ w.view \in [HostId -> ViewType]
  BY DEF WorldType
<1>2. {f \in w.friendships[u] : online(w, f) # {}} = {f \in w.friendships[u] : IsOnline(w, f)}
  BY OnlineFinds
<1>3. /\ hi \in ViewType /\ hi.me = u /\ hi.friends = w.friendships[u]
      /\ hi.online = {f \in w.friendships[u] : IsOnline(w, f)}
  BY <1>1, <1>2 DEF ViewType
<1>4. t = [w EXCEPT !.view = T]
  BY DEF Greeting
<1> HIDE DEF hi
<1>5. T \in [HostId -> ViewType]
  BY <1>1, <1>3
<1>6. (\A x \in HostId : x # h => T[x] = w.view[x]) /\ (h \in w.net.up => T[h] = hi)
  OBVIOUS
<1> HIDE DEF T, t
<1>7. /\ t \in WorldType /\ t.net = w.net /\ t.accounts = w.accounts
      /\ t.users = w.users /\ t.pending = w.pending /\ t.friendships = w.friendships
      /\ t.view = T
  BY <1>4, <1>5 DEF WorldType
<1> QED
  BY <1>3, <1>6, <1>7 DEF t

\* messenger_server::logon keeps what holds however clients log in.
LEMMA LogonBase ==
  ASSUME NEW w, Base(w, {}), NEW h \in HostId, NEW u \in User
  PROVE  Base(logon(w, h, u), {})
<1> DEFINE r == logon(w, h, u)
<1>1. CASE u \notin w.accounts
  <2>1. r = [w EXCEPT !.accounts = w.accounts \cup {u}]
    BY <1>1 DEF logon
  <2>2. w \in WorldType
    BY DEF Base
  <2>3. /\ r \in WorldType /\ r.net = w.net /\ r.users = w.users /\ r.pending = w.pending
        /\ r.friendships = w.friendships
    BY <2>1, <2>2 DEF WorldType
  <2> QED
    BY <2>3 DEF Base, Asked, Mutual
<1>2. CASE u \in w.accounts
  <2> DEFINE c == CloseOlder(w, u)
             in == Entered(w, h, u)
             t == Greeting(in, h, u)
  <2>1. Base(c, {})
    BY CloseOlderBase
  <2>2. /\ in \in WorldType /\ in.net = c.net
        /\ in.users = [c.users EXCEPT ![h] = u]
        /\ in.pending = [c.pending EXCEPT ![h] = {}] /\ in.friendships = c.friendships
    BY EnteredFields DEF EntryAdded
  <2>3. r = notify_friends_state(t, u, TRUE)
    BY <1>2, LogonIs
  <2> HIDE DEF c, in, r
  <2>4. /\ t \in WorldType /\ t.net = c.net /\ t.users = in.users
        /\ t.pending = in.pending /\ t.friendships = c.friendships
    BY <2>2, GreetingFields
  <2> HIDE DEF t
  <2>5. Notified(t, r, u, TRUE)
    BY <2>3, <2>4, NotifyFields
  <2>6. /\ r \in WorldType /\ r.net = c.net /\ r.users = in.users
        /\ r.pending = in.pending /\ r.friendships = c.friendships
    BY <2>4, <2>5 DEF Notified
  <2>7. \A o \in HostId : /\ r.users[o] = IF o = h THEN u ELSE c.users[o]
                          /\ r.pending[o] = IF o = h THEN {} ELSE c.pending[o]
    BY <2>1, <2>2, <2>6 DEF Base, WorldType
  <2>8. Asked(r)
    BY <2>1, <2>7 DEF Base, Asked
  <2>9. Mutual(r)
    BY <2>1, <2>6 DEF Base, Mutual
  <2> QED
    BY <2>1, <2>6, <2>8, <2>9 DEF Base, r
<1> QED
  BY <1>1, <1>2

\* A login on a connection that has none: the client learns who is online, and those
\* of its friends that are learn of it.
LEMMA LogonLive ==
  ASSUME NEW w, Base(w, {}), Live(w), NEW u \in User,
         NEW h \in w.net.up, w.users[h] = NoUser
  PROVE  Live(logon(w, h, u))
<1> DEFINE r == logon(w, h, u)
<1>h. h \in HostId /\ u # NoUser /\ w \in WorldType
  BY MessengerAssumption DEF Base, Sound, AllocInv, NetType
<1>1. CASE u \notin w.accounts
  <2>1. r = [w EXCEPT !.accounts = w.accounts \cup {u}]
    BY <1>1 DEF logon
  <2>3. /\ r.net = w.net /\ r.users = w.users /\ r.view = w.view
        /\ r.friendships = w.friendships
    BY <1>h, <2>1 DEF WorldType
  <2> HIDE DEF r
  <2> QED
    BY <2>3 DEF Live, Entries, Knows, IsOnline, r
<1>2. CASE u \in w.accounts
  <2> DEFINE c == CloseOlder(w, u)
             in == Entered(w, h, u)
             t == Greeting(in, h, u)
  <2>1. Base(c, {})
    BY CloseOlderBase
  <2>2. Live(c) /\ ~IsOnline(c, u) /\ h \in c.net.up /\ c.users[h] = NoUser
    BY CloseOlderLive
  <2>3. /\ in \in WorldType /\ in.net = c.net /\ in.users = [c.users EXCEPT ![h] = u]
        /\ in.friendships = c.friendships /\ in.view = c.view
    <3>1. EntryAdded(c, in, h, u)
      BY <1>h, EnteredFields
    <3> QED
      BY <3>1 DEF EntryAdded
  <2>4. r = notify_friends_state(t, u, TRUE)
    BY <1>2, LogonIs
  <2> HIDE DEF c, in, r
  <2>5. /\ t \in WorldType /\ t.net = c.net /\ t.users = in.users
        /\ t.friendships = c.friendships
        /\ \A x \in HostId : x # h => t.view[x] = c.view[x]
        /\ t.view[h].me = u /\ t.view[h].friends = c.friendships[u]
        /\ t.view[h].online = {f \in c.friendships[u] : IsOnline(in, f)}
    BY <1>h, <2>2, <2>3, GreetingFields
  <2> HIDE DEF t
  <2>6. Notified(t, r, u, TRUE)
    BY <2>4, <2>5, NotifyFields
  <2>7. /\ r \in WorldType /\ r.net = c.net /\ r.users = in.users
        /\ r.friendships = c.friendships
    BY <2>5, <2>6 DEF Notified
  <2>8. /\ r.users[h] = u /\ \A o \in HostId : o # h => r.users[o] = c.users[o]
    BY <1>h, <2>1, <2>3, <2>7 DEF Base, WorldType
  <2>9. ASSUME NEW o \in HostId
        PROVE  /\ r.view[o].me = t.view[o].me /\ r.view[o].friends = t.view[o].friends
               /\ r.view[o].online = IF o \in Hearers(t, u) THEN t.view[o].online \cup {u}
                                     ELSE t.view[o].online
    BY <2>6 DEF Notified
  <2>10. Entries(r)
    <3>1. ASSUME NEW o \in HostId PROVE r.view[o].me = r.users[o]
      <4>1. CASE o = h
        BY <2>5, <2>8, <2>9, <4>1
      <4>2. CASE o # h
        BY <2>2, <2>5, <2>8, <2>9, <4>2, ZenonT(60) DEF Live, Entries
      <4> QED
        BY <4>1, <4>2
    <3>2. \A o \in HostId : r.users[o] # NoUser => o \in r.net.up
      BY <2>2, <2>7, <2>8 DEF Live, Entries
    <3>3. \A o, x \in HostId : r.users[o] # NoUser /\ r.users[o] = r.users[x] => o = x
      BY <2>2, <2>8 DEF Live, Entries, IsOnline
    <3> QED
      BY <3>1, <3>2, <3>3 DEF Entries
  <2>11. /\ \A f \in User : IsOnline(r, f) <=> IsOnline(in, f)
         /\ \A f \in User : f # u => (IsOnline(r, f) <=> IsOnline(c, f))
         /\ IsOnline(r, u)
    <3>1. r.users = in.users /\ NoUser \notin User
      BY <2>7, MessengerAssumption
    <3> QED
      BY <1>h, <2>2, <2>8, <3>1 DEF IsOnline
  <2>12. Mutual(r) /\ c \in WorldType
    BY <2>1, <2>7 DEF Base, Mutual
  <2>13. \A f \in User : online(t, f) = {x \in HostId : r.users[x] = f}
    <3>1. \A f : online(t, f) = online(r, f)
      BY <2>5, <2>7 DEF online
    <3> QED
      BY <2>7, <2>10, <3>1, OnlineIsAll
  <2>14. ASSUME NEW o \in HostId, r.users[o] # NoUser
         PROVE  Knows(r, o)
    <3>1. r.users[o] \in User
      BY <2>7, <2>14 DEF WorldType
    <3>2. r.friendships[r.users[o]] \subseteq User
      BY <2>7, <3>1 DEF WorldType
    <3>3. CASE o = h
      <4>1. r.users[o] = u /\ u \notin r.friendships[u]
        BY <2>8, <2>12, <3>3 DEF Mutual
      <4>2. ASSUME NEW f \in r.friendships[u]
            PROVE  f \in r.view[o].online <=> IsOnline(r, f)
        <5>1. f \in t.view[o].online <=> IsOnline(in, f)
          BY <2>5, <2>7, <3>3
        <5>2. f # u /\ f \in User
          BY <3>2, <4>1
        <5> QED
          BY <2>9, <2>11, <5>1, <5>2
      <4>3. r.friendships[u] \subseteq r.view[o].friends
        BY <2>5, <2>7, <2>9, <3>3
      <4> QED
        BY <4>1, <4>2, <4>3 DEF Knows
    <3>4. CASE o # h
      <4>1. r.users[o] = c.users[o] /\ t.view[o] = c.view[o]
        BY <2>5, <2>8, <3>4
      <4>2. Knows(c, o) /\ o \in c.net.up
        BY <2>2, <2>14, <4>1 DEF Live, Entries
      <4>3. ASSUME NEW f \in r.friendships[r.users[o]]
            PROVE  f \in r.view[o].online <=> IsOnline(r, f)
        <5>1. f \in User /\ (f \in t.view[o].online <=> IsOnline(c, f))
          BY <2>7, <3>2, <4>1, <4>2 DEF Knows
        <5>2. CASE f = u
          <6>1. r.users[o] \in t.friendships[u]
            BY <2>5, <2>7, <2>12, <3>1, <5>2 DEF Mutual
          <6>2. o \in online(t, r.users[o])
            BY <2>13, <3>1
          <6>3. o \in Hearers(t, u)
            BY <2>5, <4>2, <6>1, <6>2 DEF Hearers
          <6> QED
            BY <2>9, <2>11, <5>2, <6>3
        <5>3. CASE f # u
          BY <2>9, <2>11, <5>1, <5>3
        <5> QED
          BY <5>2, <5>3
      <4>4. r.friendships[r.users[o]] \subseteq r.view[o].friends
        BY <2>7, <2>9, <4>1, <4>2 DEF Knows
      <4> QED
        BY <4>3, <4>4 DEF Knows
    <3> QED
      BY <3>3, <3>4
  <2> QED
    BY <2>10, <2>14 DEF Live, r
<1> QED
  BY <1>1, <1>2

-----------------------------------------------------------------------------
(* Friends *)

\* add_friend writes a request into the entry of somebody else.
LEMMA AddFriendKeeps ==
  ASSUME NEW w, Base(w, {}), NEW h \in HostId, w.users[h] \in User, NEW target \in User
  PROVE  /\ Base(add_friend(w, h, target), {})
         /\ Live(w) => Live(add_friend(w, h, target))
<1> DEFINE u == w.users[h]
           P == [o \in HostId |-> IF o \in online(w, target) THEN w.pending[o] \cup {u}
                                  ELSE w.pending[o]]
           r == add_friend(w, h, target)
<1>1. w \in WorldType
  BY DEF Base
<1>2. CASE online(w, target) = {} \/ target = u \/ target \in w.friendships[u]
  <2>1. r = w
    BY <1>2 DEF add_friend
  <2> QED
    BY <2>1
<1>3. CASE ~ (online(w, target) = {} \/ target = u \/ target \in w.friendships[u])
  <2>1. r = [w EXCEPT !.pending = P]
    BY <1>3 DEF add_friend
  <2>2. P \in [HostId -> SUBSET User]
    BY <1>1 DEF WorldType
  <2>3. \A o \in HostId : w.users[o] \notin P[o]
    <3>1. \A o \in online(w, target) : w.users[o] = target
      BY <1>1, OnlineFinds
    <3> QED
      BY <1>3, <3>1 DEF Base, Asked
  <2> HIDE DEF P, r
  <2>4. /\ r \in WorldType /\ r.net = w.net /\ r.users = w.users /\ r.pending = P
        /\ r.friendships = w.friendships /\ r.view = w.view
    BY <1>1, <2>1, <2>2 DEF WorldType
  <2>5. Base(r, {})
    BY <2>3, <2>4 DEF Base, Asked, Mutual
  <2>6. Live(w) => Live(r)
    BY <2>4 DEF Live, Entries, Knows, IsOnline
  <2> QED
    BY <2>5, <2>6 DEF r
<1> QED
  BY <1>2, <1>3

\* The friendships with u and v added to, or taken from, each other's.
Both(F, u, v) == [[F EXCEPT ![u] = @ \cup {v}] EXCEPT ![v] = @ \cup {u}]
Neither(F, u, v) == [[F EXCEPT ![u] = @ \ {v}] EXCEPT ![v] = @ \ {u}]

\* Making friends adds each to the other's set.
LEMMA BothIs ==
  ASSUME NEW F \in [User -> SUBSET User], NEW u \in User, NEW v \in User
  PROVE  /\ Both(F, u, v) \in [User -> SUBSET User]
         /\ \A x, y \in User : y \in Both(F, u, v)[x] <=>
              y \in F[x] \/ (x = u /\ y = v) \/ (x = v /\ y = u)
BY DEF Both

\* Ending a friendship takes each from the other's set.
LEMMA NeitherIs ==
  ASSUME NEW F \in [User -> SUBSET User], NEW u \in User, NEW v \in User
  PROVE  /\ Neither(F, u, v) \in [User -> SUBSET User]
         /\ \A x, y \in User : y \in Neither(F, u, v)[x] <=>
              y \in F[x] /\ ~(x = u /\ y = v) /\ ~(x = v /\ y = u)
BY DEF Neither

\* The client at o takes f into its list, online or not.
Listing(w, v, f) ==
  [v EXCEPT !.friends = v.friends \cup {f},
            !.online = IF online(w, f) # {} THEN v.online \cup {f} ELSE v.online \ {f}]

\* The world once h has answered its request: the request is gone, and with accept
\* both are friends and told so.
Answered(w, h, requester) == [w EXCEPT !.pending[h] = @ \ {requester}]

BothTold(m, h, hosts, requester, u) ==
  [m EXCEPT !.view = [o \in HostId |->
     IF o \in ({h} \cup hosts) \cap m.net.up
     THEN Listing(m, m.view[o], IF o = h THEN requester ELSE u)
     ELSE m.view[o]]]

Befriended(w, h, requester) ==
  BothTold([Answered(w, h, requester) EXCEPT
              !.friendships = Both(w.friendships, w.users[h], requester)],
           h, online(w, requester), requester, w.users[h])

\* answer_friend ignores a request that is not pending; else it removes it and, if
\* accepted, makes friends of both and tells them.
LEMMA AnswerIs ==
  ASSUME NEW w \in WorldType, NEW h \in HostId, w.users[h] \in User,
         NEW requester \in User, NEW accept \in BOOLEAN
  PROVE  answer_friend(w, h, requester, accept) =
           IF requester \notin w.pending[h] THEN w
           ELSE IF accept THEN Befriended(w, h, requester) ELSE Answered(w, h, requester)
<1> DEFINE u == w.users[h]
           e == [w EXCEPT !.pending[h] = @ \ {requester}]
           m == [e EXCEPT !.friendships[u] = @ \cup {requester},
                          !.friendships[requester] = @ \cup {u}]
<1>1. /\ e.friendships = w.friendships
      /\ e \in [net : NetType, accounts : SUBSET User, users : [HostId -> User \cup {NoUser}],
                pending : [HostId -> SUBSET User], friendships : [User -> SUBSET User],
                view : [HostId -> ViewType]]
  BY DEF WorldType
<1>2. m = [e EXCEPT !.friendships = Both(w.friendships, u, requester)]
  BY <1>1 DEF Both
<1>3. answer_friend(w, h, requester, accept) =
        IF requester \notin w.pending[h] THEN w
        ELSE IF accept THEN BothTold(m, h, online(w, requester), requester, u) ELSE e
  BY DEF answer_friend, BothTold, Tell, Reachable, FriendInfo, Listing
<1> HIDE DEF m
<1> QED
  BY <1>2, <1>3 DEF Befriended, Answered

\* answer_friend makes friends of two different users, on both sides.
LEMMA AnswerKeeps ==
  ASSUME NEW w, Base(w, {}), NEW h \in HostId, w.users[h] \in User,
         NEW requester \in User, NEW accept \in BOOLEAN
  PROVE  /\ Base(answer_friend(w, h, requester, accept), {})
         /\ Live(w) => Live(answer_friend(w, h, requester, accept))
<1> DEFINE u == w.users[h]
           e == Answered(w, h, requester)
           F == Both(w.friendships, u, requester)
           m == [e EXCEPT !.friendships = F]
<1>1. w \in WorldType
  BY DEF Base
<1>2. CASE requester \notin w.pending[h]
  BY <1>1, <1>2, AnswerIs
<1>3. /\ e \in WorldType /\ e.net = w.net /\ e.users = w.users /\ e.friendships = w.friendships
      /\ e.view = w.view /\ \A o \in HostId : e.pending[o] \subseteq w.pending[o]
  BY <1>1 DEF Answered, WorldType
<1>4. Base(e, {}) /\ (Live(w) => Live(e))
  <2> HIDE DEF e
  <2>1. Base(e, {})
    BY <1>3 DEF Base, Asked, Mutual
  <2>2. Live(w) => Live(e)
    BY <1>3 DEF Live, Entries, Knows, IsOnline
  <2> QED
    BY <2>1, <2>2
<1>5. CASE requester \in w.pending[h] /\ ~accept
  <2>1. answer_friend(w, h, requester, accept) = e
    BY <1>1, <1>5, AnswerIs
  <2> QED
    BY <1>4, <2>1
<1>6. CASE requester \in w.pending[h] /\ accept
  <2> DEFINE T == [o \in HostId |->
                    IF o \in ({h} \cup online(w, requester)) \cap m.net.up
                    THEN Listing(m, w.view[o], IF o = h THEN requester ELSE u)
                    ELSE w.view[o]]
             r == Befriended(w, h, requester)
  <2>0. answer_friend(w, h, requester, accept) = r
    BY <1>1, <1>6, AnswerIs
  <2>1. requester # u
    BY <1>6 DEF Base, Asked
  <2>2. /\ F \in [User -> SUBSET User]
        /\ \A x, y \in User : y \in F[x] <=>
             y \in w.friendships[x] \/ (x = u /\ y = requester) \/ (x = requester /\ y = u)
    BY <1>1, BothIs DEF WorldType
  <2> HIDE DEF e, F
  <2>3. /\ m \in WorldType /\ m.net = w.net /\ m.users = w.users /\ m.pending = e.pending
        /\ m.friendships = F /\ m.view = w.view
    BY <1>3, <2>2 DEF WorldType
  <2>4. r = [m EXCEPT !.view = T]
    BY <2>3 DEF Befriended, BothTold, e, F
  <2> HIDE DEF m
  <2>5. ASSUME NEW o \in HostId
        PROVE  /\ T[o] \in ViewType /\ T[o].me = w.view[o].me
               /\ w.view[o].friends \subseteq T[o].friends
    BY <1>1, ZenonT(60) DEF Listing, ViewType, WorldType
  <2>6. T \in [HostId -> ViewType]
    BY <2>5
  <2>7. ASSUME NEW o \in HostId
        PROVE  T[o] = IF o \in ({h} \cup online(w, requester)) \cap w.net.up
                      THEN Listing(m, w.view[o], IF o = h THEN requester ELSE u)
                      ELSE w.view[o]
    BY <2>3
  <2> HIDE DEF T, r
  <2>8. /\ r \in WorldType /\ r.net = w.net /\ r.users = w.users /\ r.pending = e.pending
        /\ r.friendships = F /\ r.view = T
    BY <2>3, <2>4, <2>6 DEF WorldType
  <2>9. Mutual(r)
    BY <2>1, <2>2, <2>8 DEF Base, Mutual
  <2>10. Base(r, {})
    BY <1>4, <2>8, <2>9, <1>3 DEF Base, Asked
  <2>11. ASSUME Live(w)
         PROVE  Live(r)
    <3>1. Entries(r)
      BY <2>5, <2>8, <2>11 DEF Live, Entries
    <3>2. ASSUME NEW o \in HostId, r.users[o] # NoUser
          PROVE  Knows(r, o)
      <4>1. /\ r.users[o] = w.users[o] /\ w.users[o] \in User /\ Knows(w, o) /\ o \in w.net.up
        BY <1>1, <2>8, <2>11, <3>2 DEF Live, Entries, WorldType
      <4>2. \A f : IsOnline(r, f) <=> IsOnline(w, f)
        BY <2>8 DEF IsOnline
      <4>3. \A f : online(m, f) # {} <=> IsOnline(w, f)
        <5>1. \A f : online(m, f) # {} <=> IsOnline(m, f)
          BY <2>3, OnlineFinds
        <5> QED
          BY <2>3, <5>1 DEF IsOnline
      <4> DEFINE g == IF o = h THEN requester ELSE u
      <4>4. o \in online(w, requester) <=> w.users[o] = requester
        BY <1>1, <2>11, OnlineIsAll DEF Live
      <4>5. CASE o = h \/ w.users[o] = requester
        <5>1. T[o] = Listing(m, w.view[o], g)
          BY <2>7, <4>1, <4>4, <4>5
        <5>2. g \in User
          OBVIOUS
        <5> HIDE DEF g
        <5>3. w.view[o] \in ViewType
          BY <1>1 DEF WorldType
        <5>4. /\ T[o].friends = w.view[o].friends \cup {g}
              /\ \A f : f # g => (f \in T[o].online <=> f \in w.view[o].online)
              /\ g \in T[o].online <=> IsOnline(w, g)
          BY <4>3, <5>1, <5>3 DEF Listing, ViewType
        <5>5. \A f \in F[w.users[o]] : f = g \/ f \in w.friendships[w.users[o]]
          <6>1. F[w.users[o]] \subseteq User
            BY <2>2, <4>1
          <6>2. w.users[o] = u => o = h
            BY <2>11, <4>1, MessengerAssumption DEF Live, Entries
          <6> QED
            BY <2>1, <2>2, <4>1, <4>5, <6>1, <6>2 DEF g
        <5> QED
          BY <2>8, <4>1, <4>2, <5>4, <5>5 DEF Knows
      <4>6. CASE o # h /\ w.users[o] # requester
        <5>1. T[o] = w.view[o]
          BY <2>7, <4>4, <4>6
        <5>2. w.users[o] # u
          BY <2>11, <4>1, <4>6, MessengerAssumption DEF Live, Entries
        <5>3. F[w.users[o]] = w.friendships[w.users[o]]
          BY <1>1, <2>2, <4>1, <4>6, <5>2, ZenonT(60) DEF WorldType
        <5> QED
          BY <2>8, <4>1, <4>2, <5>1, <5>3 DEF Knows
      <4> QED
        BY <4>5, <4>6
    <3> QED
      BY <3>1, <3>2 DEF Live
  <2> QED
    BY <2>0, <2>10, <2>11
<1> QED
  BY <1>2, <1>5, <1>6

\* delete_friend ends a friendship on both sides; only the one who deletes is told.
LEMMA DeleteKeeps ==
  ASSUME NEW w, Base(w, {}), NEW h \in HostId, w.users[h] \in User, NEW target \in User
  PROVE  /\ Base(delete_friend(w, h, target), {})
         /\ Live(w) => Live(delete_friend(w, h, target))
<1> DEFINE u == w.users[h]
           F == Neither(w.friendships, u, target)
           m == [w EXCEPT !.friendships = F]
           T == [o \in HostId |->
                  IF o \in {h} \cap w.net.up
                  THEN [w.view[o] EXCEPT !.friends = w.view[o].friends \ {target},
                                         !.online = w.view[o].online \ {target}]
                  ELSE w.view[o]]
           r == delete_friend(w, h, target)
<1>1. w \in WorldType
  BY DEF Base
<1>2. /\ F \in [User -> SUBSET User]
      /\ \A x, y \in User : y \in F[x] <=>
           y \in w.friendships[x] /\ ~(x = u /\ y = target) /\ ~(x = target /\ y = u)
  BY <1>1, NeitherIs DEF WorldType
<1>3. m = [[w EXCEPT !.friendships[u] = @ \ {target}] EXCEPT !.friendships[target] = @ \ {u}]
  BY <1>1 DEF Neither, WorldType
<1>4. m.net = w.net /\ m.view = w.view
  BY <1>1 DEF WorldType
<1>5. r = [m EXCEPT !.view = T]
  BY <1>3, <1>4 DEF delete_friend, Tell, Reachable
<1> HIDE DEF F
<1>6. /\ m \in WorldType /\ m.net = w.net /\ m.users = w.users /\ m.pending = w.pending
      /\ m.friendships = F /\ m.view = w.view
  BY <1>1, <1>2 DEF WorldType
<1> HIDE DEF m
<1>7. ASSUME NEW o \in HostId
      PROVE  /\ T[o] \in ViewType /\ T[o].me = w.view[o].me
             /\ \A f : f # target => (f \in T[o].online <=> f \in w.view[o].online)
             /\ w.view[o].friends \ {target} \subseteq T[o].friends
             /\ o # h => T[o] = w.view[o]
  BY <1>1 DEF WorldType, ViewType
<1>8. T \in [HostId -> ViewType]
  BY <1>7
<1> HIDE DEF T, r
<1>9. /\ r \in WorldType /\ r.net = w.net /\ r.users = w.users /\ r.pending = w.pending
      /\ r.friendships = F /\ r.view = T
  BY <1>5, <1>6, <1>8 DEF WorldType
<1>10. Mutual(r)
  BY <1>2, <1>9 DEF Base, Mutual
<1>11. Base(r, {})
  BY <1>9, <1>10 DEF Base, Asked
<1>12. ASSUME Live(w)
       PROVE  Live(r)
  <2>1. Entries(r)
    BY <1>7, <1>9, <1>12 DEF Live, Entries
  <2>2. ASSUME NEW o \in HostId, r.users[o] # NoUser
        PROVE  Knows(r, o)
    <3>1. r.users[o] = w.users[o] /\ w.users[o] \in User /\ Knows(w, o)
      BY <1>1, <1>9, <1>12, <2>2 DEF Live, WorldType
    <3>2. F[w.users[o]] \subseteq User /\ F[w.users[o]] \subseteq w.friendships[w.users[o]]
      BY <1>2, <3>1
    <3>3. o = h => target \notin F[w.users[o]]
      BY <1>2
    <3>4. \A f \in F[w.users[o]] : f \in T[o].friends /\ (f \in T[o].online <=> IsOnline(w, f))
      BY <1>7, <3>1, <3>2, <3>3 DEF Knows
    <3>5. \A f : IsOnline(r, f) <=> IsOnline(w, f)
      BY <1>9 DEF IsOnline
    <3> QED
      BY <1>9, <3>1, <3>4, <3>5 DEF Knows
  <2> QED
    BY <2>1, <2>2 DEF Live
<1> QED
  BY <1>11, <1>12 DEF r

-----------------------------------------------------------------------------
(* Steps *)

\* A step of the ProudNet layer that disconnects nobody who is connected.
LEMMA NetStep ==
  ASSUME NEW w, Base(w, {}), NEW n, Sound(n, {}), w.net.up \subseteq n.up
  PROVE  /\ Base([w EXCEPT !.net = n], {})
         /\ Live(w) => Live([w EXCEPT !.net = n])
<1> DEFINE r == [w EXCEPT !.net = n]
<1>1. n \in NetType /\ w \in WorldType
  BY DEF Base, Sound, AllocInv
<1>2. /\ r \in WorldType /\ r.net = n /\ r.users = w.users /\ r.pending = w.pending
      /\ r.friendships = w.friendships /\ r.view = w.view
  BY <1>1 DEF WorldType
<1> HIDE DEF r
<1>3. Base(r, {})
  BY <1>2 DEF Base, Asked, Mutual
<1>4. Live(w) => Live(r)
  BY <1>2 DEF Live, Entries, Knows, IsOnline
<1> QED
  BY <1>3, <1>4 DEF r

\* A peer in the handshake is closed: nobody who is connected notices.
LEMMA HandshakeEnds ==
  ASSUME NEW n, Sound(n, {}), NEW h \in n.peers \ n.up
  PROVE  Sound(on_peer_closed(n, {h}), {}) /\ on_peer_closed(n, {h}).up = n.up
<1>1. PICK S : S = {h}
  OBVIOUS
<1>2. Sound(n, S) /\ S \subseteq n.peers
  BY <1>1 DEF Sound
<1>3. Sound(on_peer_closed(n, S), {}) /\ on_peer_closed(n, S).up = n.up
  BY <1>2, PeerClosedSound
<1> QED
  BY <1>1, <1>3

\* Every step leads to a world that keeps the invariants; accuracy needs that no step
\* is a login on a connection that is logged in.
LEMMA StepKeeps ==
  ASSUME BaseInv, Next
  PROVE  \E w : /\ Become(w) /\ Base(w, {})
                /\ (AllowRelogon = FALSE /\ Live(World)) => Live(w)
<1>b. Base(World, {}) /\ World \in WorldType /\ Sound(net, {}) /\ net \in NetType
  BY DEF BaseInv, Base, World, Sound, AllocInv
<1>w. World.net = net /\ World.users = users
  BY DEF World
<1>u. \A h \in HostId : users[h] \in User \cup {NoUser}
  BY <1>b, <1>w DEF WorldType
<1> HIDE DEF World
<1>1. CASE Accept
  <2> DEFINE w == [World EXCEPT !.net = AddPeer(net)]
  <2>1. Sound(AddPeer(net), {}) /\ AddPeer(net).up = net.up
    BY <1>1, <1>b, AddPeerSound DEF Accept
  <2>2. Base(w, {}) /\ (Live(World) => Live(w))
    BY <1>b, <1>w, <2>1, NetStep
  <2>3. Become(w)
    BY <1>1 DEF Accept
  <2> HIDE DEF w
  <2> QED
    BY <2>2, <2>3
<1>2. ASSUME NEW h \in HostId, Handshake(h)
      PROVE  \E w : Become(w) /\ Base(w, {}) /\ (Live(World) => Live(w))
  <2> DEFINE n == [net EXCEPT !.up = @ \cup {h}]
             w == [World EXCEPT !.net = n]
  <2>1. Sound(n, {}) /\ n.up = net.up \cup {h}
    BY <1>2, <1>b, ConnectSound DEF Handshake
  <2>2. w = [World EXCEPT !.net.up = @ \cup {h}]
    BY <1>b, <1>w DEF WorldType
  <2>3. Become(w)
    BY <1>2, <2>2 DEF Handshake
  <2> HIDE DEF n
  <2>4. Base(w, {}) /\ (Live(World) => Live(w))
    BY <1>b, <1>w, <2>1, NetStep
  <2> HIDE DEF w
  <2> QED
    BY <2>3, <2>4
<1>3. ASSUME NEW h \in HostId, Disconnect(h)
      PROVE  \E w : Become(w) /\ Base(w, {}) /\ (Live(World) => Live(w))
  <2>1. CASE h \in net.up /\ Become(close(World, h))
    <3>1. h \in World.net.peers
      BY <1>b, <1>w, <2>1 DEF Sound
    <3> QED
      BY <1>b, <2>1, <3>1, CloseBase, CloseLive
  <2>2. CASE h \in net.peers \ net.up /\ Become([World EXCEPT !.net = on_peer_closed(net, {h})])
    <3> DEFINE n == on_peer_closed(net, {h})
    <3>1. Sound(n, {}) /\ n.up = net.up
      BY <1>b, <2>2, HandshakeEnds
    <3> HIDE DEF n
    <3> DEFINE w == [World EXCEPT !.net = n]
    <3>2. Base(w, {}) /\ (Live(World) => Live(w))
      BY <1>b, <1>w, <3>1, NetStep
    <3>3. Become(w)
      BY <2>2 DEF n
    <3> HIDE DEF w
    <3> QED
      BY <3>2, <3>3
  <2> QED
    BY <1>3, <2>1, <2>2 DEF Disconnect
<1>4. ASSUME NEW h \in HostId, Logon(h)
      PROVE  \E w : /\ Become(w) /\ Base(w, {})
                    /\ (AllowRelogon = FALSE /\ Live(World)) => Live(w)
  <2>1. PICK u \in User : Become(logon(World, h, u))
    BY <1>4 DEF Logon
  <2>2. Base(logon(World, h, u), {})
    BY <1>b, LogonBase
  <2>3. ASSUME AllowRelogon = FALSE, Live(World)
        PROVE  Live(logon(World, h, u))
    <3>1. h \in World.net.up /\ World.users[h] = NoUser
      BY <1>4, <1>w, <2>3 DEF Logon
    <3> QED
      BY <1>b, <2>3, <3>1, LogonLive
  <2> QED
    BY <2>1, <2>2, <2>3
<1>r. ASSUME NEW h \in HostId, Runs(h) PROVE World.users[h] \in User
  BY <1>r, <1>u, <1>w DEF Runs
<1>5. ASSUME NEW h \in HostId, AddFriend(h)
      PROVE  \E w : Become(w) /\ Base(w, {}) /\ (Live(World) => Live(w))
  <2>1. PICK t \in User : Become(add_friend(World, h, t))
    BY <1>5 DEF AddFriend
  <2> QED
    BY <1>5, <1>b, <1>r, <2>1, AddFriendKeeps DEF AddFriend
<1>6. ASSUME NEW h \in HostId, AnswerFriend(h)
      PROVE  \E w : Become(w) /\ Base(w, {}) /\ (Live(World) => Live(w))
  <2>1. PICK r \in User, accept \in BOOLEAN : Become(answer_friend(World, h, r, accept))
    BY <1>6 DEF AnswerFriend
  <2> QED
    BY <1>6, <1>b, <1>r, <2>1, AnswerKeeps DEF AnswerFriend
<1>7. ASSUME NEW h \in HostId, DeleteFriend(h)
      PROVE  \E w : Become(w) /\ Base(w, {}) /\ (Live(World) => Live(w))
  <2>1. PICK t \in User : Become(delete_friend(World, h, t))
    BY <1>7 DEF DeleteFriend
  <2> QED
    BY <1>7, <1>b, <1>r, <2>1, DeleteKeeps DEF DeleteFriend
<1> QED
  BY <1>1, <1>2, <1>3, <1>4, <1>5, <1>6, <1>7 DEF Next

\* Every step of the messenger keeps the inductive invariant.
LEMMA NextKeepsInv ==
  ASSUME BaseInv, [Next]_vars
  PROVE  BaseInv' /\ ((AllowRelogon = FALSE /\ Live(World)) => Live(World'))
<1>1. CASE Next
  <2>1. PICK w : /\ Become(w) /\ Base(w, {})
                 /\ (AllowRelogon = FALSE /\ Live(World)) => Live(w)
    BY <1>1, StepKeeps
  <2>2. World' = w
    BY <2>1, BecomeWorld DEF Base
  <2> QED
    BY <2>1, <2>2 DEF BaseInv
<1>2. CASE UNCHANGED vars
  <2>1. World' = World
    BY <1>2 DEF vars, World
  <2> QED
    BY <2>1 DEF BaseInv
<1> QED
  BY <1>1, <1>2

\* The messenger starts in the inductive invariant.
LEMMA InitInv ==
  ASSUME Init
  PROVE  BaseInv /\ Live(World)
<1>1. TypeOK
  BY EmptySound DEF Init, TypeOK, Sound, AllocInv, NoView
<1>2. /\ World.net = net /\ World.users = users /\ World.pending = pending
      /\ World.friendships = m_friendships /\ World.view = view
  BY DEF World
<1>3. World \in WorldType
  BY <1>1, WorldTyped
<1> HIDE DEF World
<1>4. BaseInv
  BY <1>2, <1>3, EmptySound DEF Init, BaseInv, Base, Asked, Mutual
<1>5. Live(World)
  BY <1>2 DEF Init, Live, Entries, NoView
<1> QED
  BY <1>4, <1>5

-----------------------------------------------------------------------------
(* Theorems *)

\* The tables of the messenger stay sound however clients log in.
THEOREM Invariant == Spec => []BaseInv
<1>1. Init => BaseInv
  BY InitInv
<1>2. BaseInv /\ [Next]_vars => BaseInv'
  BY NextKeepsInv
<1> QED
  BY <1>1, <1>2, PTL DEF Spec

\* With one login for each connection the entries and views are accurate as well.
THEOREM LiveInvariant == AllowRelogon = FALSE => (Spec => []IInv)
<1> SUFFICES ASSUME AllowRelogon = FALSE PROVE Spec => []IInv
  OBVIOUS
<1>1. Init => IInv
  BY InitInv DEF IInv
<1>2. IInv /\ [Next]_vars => IInv'
  BY NextKeepsInv DEF IInv
<1> QED
  BY <1>1, <1>2, PTL DEF Spec

\* All tables and views stay within their types.
THEOREM TypeCorrect == Spec => []TypeOK
<1>1. BaseInv => TypeOK
  BY WorldTyped DEF BaseInv, Base
<1> QED
  BY <1>1, Invariant, PTL

\* Friendships have both sides and nobody befriends oneself, however requests, late
\* answers, deletions and logins on used connections interleave.
THEOREM FriendshipsStayMutual == Spec => []FriendshipsMutual
<1>1. BaseInv => FriendshipsMutual
  BY DEF BaseInv, Base, Mutual, World, FriendshipsMutual
<1> QED
  BY <1>1, Invariant, PTL

\* If no client logs in on a connection that is logged in, every client knows its
\* friends and which of them are online.
THEOREM FriendViewsAccurate == AllowRelogon = FALSE => (Spec => []FriendViewAccurate)
<1> SUFFICES ASSUME AllowRelogon = FALSE PROVE Spec => []FriendViewAccurate
  OBVIOUS
<1>1. IInv => FriendViewAccurate
  <2> SUFFICES ASSUME IInv, NEW h \in net.up, users[h] # NoUser
               PROVE  LET fs == m_friendships[users[h]]
                      IN  /\ fs \subseteq view[h].friends
                          /\ view[h].online \cap fs = {f \in fs : online(World, f) # {}}
    BY DEF FriendViewAccurate
  <2>1. /\ World.net = net /\ World.users = users
        /\ World.friendships = m_friendships /\ World.view = view
    BY DEF World
  <2>2. World \in WorldType /\ h \in HostId
    BY <2>1 DEF IInv, BaseInv, Base, Sound, AllocInv, NetType
  <2> HIDE DEF World
  <2>3. Knows(World, h)
    BY <2>1, <2>2 DEF IInv, Live
  <2>4. \A f : online(World, f) # {} <=> IsOnline(World, f)
    BY <2>2, OnlineFinds
  <2> QED
    BY <2>1, <2>3, <2>4 DEF Knows
<1> QED
  BY <1>1, LiveInvariant, PTL

\* If no client logs in on a connection that is logged in, what is sent to a user
\* reaches the one client that was told it is that user.
THEOREM WhispersArrive == AllowRelogon = FALSE => (Spec => []WhispersReachAddressee)
<1> SUFFICES ASSUME AllowRelogon = FALSE PROVE Spec => []WhispersReachAddressee
  OBVIOUS
<1>1. IInv => WhispersReachAddressee
  <2> SUFFICES ASSUME IInv, NEW u \in User
               PROVE  Addressee(World, u) = {h \in net.up : view[h].me = u}
    BY DEF WhispersReachAddressee
  <2>1. World.net = net /\ World.users = users /\ World.view = view
    BY DEF World
  <2>2. World \in WorldType /\ net.up \subseteq HostId
    BY <2>1 DEF IInv, BaseInv, Base, Sound, AllocInv, NetType
  <2> HIDE DEF World
  <2>3. online(World, u) = {h \in HostId : users[h] = u}
    BY <2>1, <2>2, OnlineIsAll DEF IInv, Live
  <2>4. \A h \in HostId : view[h].me = users[h]
    BY <2>1 DEF IInv, Live, Entries
  <2> QED
    BY <2>1, <2>2, <2>3, <2>4 DEF Addressee, Reachable
<1> QED
  BY <1>1, LiveInvariant, PTL
=============================================================================
