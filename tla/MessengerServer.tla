-------------------------- MODULE MessengerServer --------------------------
(***************************************************************************)
(* messenger::messenger_server (src/src/messenger/messenger_server.cpp):     *)
(* who is logged in on which connection, friend requests, friendships kept   *)
(* for both sides, and the notices by which a client knows its friends and   *)
(* which of them are online.                                                 *)
(*                                                                          *)
(* Handlers are operators from the world to the world they leave. Accounts   *)
(* are told apart by name: their numbers are distinct (AccountStore), so     *)
(* by_index and online find the same users.                                  *)
(***************************************************************************)
EXTENDS ProudNetState

CONSTANTS User,        \* user names
          NoUser,      \* nobody
          AllowRelogon \* clients may log in again on a connection that is logged in

ASSUME MessengerAssumption == NoUser \notin User /\ AllowRelogon \in BOOLEAN

VARIABLES net,           \* m_net
          accounts,      \* the names the account store knows
          users,         \* m_users: users[h] = NoUser when h has no entry
          pending,       \* pending[h]: pending_requests of the user on h
          m_friendships, \* in memory
          view           \* view[h]: what client h has been told

vars == <<net, accounts, users, pending, m_friendships, view>>

\* A client knows who it is logged in as, its friends and those that are online.
NoView == [me |-> NoUser, friends |-> {}, online |-> {}]

TypeOK ==
  /\ net \in NetType
  /\ accounts \subseteq User
  /\ users \in [HostId -> User \cup {NoUser}]
  /\ pending \in [HostId -> SUBSET User]
  /\ m_friendships \in [User -> SUBSET User]
  /\ view \in [HostId -> [me : User \cup {NoUser}, friends : SUBSET User, online : SUBSET User]]

Init ==
  /\ net = EmptyNet
  /\ accounts = {}
  /\ users = [h \in HostId |-> NoUser]
  /\ pending = [h \in HostId |-> {}]
  /\ m_friendships = [u \in User |-> {}]
  /\ view = [h \in HostId |-> NoView]

World == [net |-> net, accounts |-> accounts, users |-> users, pending |-> pending,
          friendships |-> m_friendships, view |-> view]

Become(w) ==
  /\ net' = w.net /\ accounts' = w.accounts /\ users' = w.users
  /\ pending' = w.pending /\ m_friendships' = w.friendships /\ view' = w.view

-----------------------------------------------------------------------------
(* Who is online *)

\* online and by_index: the first entry of m_users for u, as a set of at most one host.
online(w, u) ==
  LET hosts == {h \in HostId : w.users[h] = u}
  IN  IF hosts = {} THEN {} ELSE {Min(hosts)}

\* The client a whisper, an invitation or a mail to u reaches.
Addressee(w, u) == Reachable(w.net, online(w, u))

\* Notices: each connected client h is told V(h, its view).
Tell(w, hosts, V(_, _)) ==
  [w EXCEPT !.view = [h \in HostId |-> IF h \in Reachable(w.net, hosts) THEN V(h, @[h]) ELSE @[h]]]

\* write_friend_info: the client takes friend f into its list, online or not.
FriendInfo(w, v, f) ==
  [v EXCEPT !.friends = @ \cup {f},
            !.online = IF online(w, f) # {} THEN @ \cup {f} ELSE @ \ {f}]

notify_friends_state(w, u, isOnline) ==
  LET told(h, v) == [v EXCEPT !.online = IF isOnline THEN @ \cup {u} ELSE @ \ {u}]
  IN  Tell(w, UNION {online(w, f) : f \in w.friendships[u]}, told)

-----------------------------------------------------------------------------
(* Connections and logins *)

\* Mutant: the friends are not told.
on_client_leave_Silent(w, h) ==
  IF w.users[h] = NoUser THEN w
  ELSE [w EXCEPT !.users[h] = NoUser, !.pending[h] = {}]

on_client_leave(w, h) ==
  IF w.users[h] = NoUser THEN w
  ELSE notify_friends_state([w EXCEPT !.users[h] = NoUser, !.pending[h] = {}],
                            w.users[h], FALSE)

\* peer::close of the connected client h.
close(w, h) ==
  LET out == on_client_leave([w EXCEPT !.net = MarkClosed(@, {h})], h)
  IN  [out EXCEPT !.net = on_peer_closed(@, {h}), !.view[h] = NoView]

\* Mutant: the older login of the user stays.
CloseOlder_Kept(w, u) == w

\* The connection u is online on is closed, whichever it is.
CloseOlder(w, u) ==
  LET old == online(w, u) \cap w.net.peers
  IN  IF old = {} THEN w ELSE close(w, Min(old))

\* Valid credentials. The account is looked up before login registers it, so the
\* first login of a new user is refused.
logon(w, h, u) ==
  IF u \notin w.accounts THEN [w EXCEPT !.accounts = @ \cup {u}]
  ELSE LET in == [CloseOlder(w, u) EXCEPT !.users[h] = u, !.pending[h] = {}]
           fs == in.friendships[u]
           hello(x, v) == [me |-> u, friends |-> fs,
                           online |-> {f \in fs : online(in, f) # {}}]
       IN  notify_friends_state(Tell(in, {h}, hello), u, TRUE)

-----------------------------------------------------------------------------
(* Friends *)

\* Asks the target, unless it is not online, oneself or a friend already.
add_friend(w, h, target) ==
  LET u == w.users[h]
  IN  IF online(w, target) = {} \/ target = u \/ target \in w.friendships[u] THEN w
      ELSE [w EXCEPT !.pending = [o \in HostId |->
              IF o \in online(w, target) THEN @[o] \cup {u} ELSE @[o]]]

answer_friend(w, h, requester, accept) ==
  LET u      == w.users[h]
      erased == [w EXCEPT !.pending[h] = @ \ {requester}]
      mutual == [erased EXCEPT !.friendships[u] = @ \cup {requester},
                               !.friendships[requester] = @ \cup {u}]
      told(o, v) == FriendInfo(mutual, v, IF o = h THEN requester ELSE u)
  IN  IF requester \notin w.pending[h] THEN w
      ELSE IF accept THEN Tell(mutual, {h} \cup online(w, requester), told)
      ELSE erased

\* Mutant: the friend keeps its side of the friendship.
delete_friend_OneSide(w, h, target) ==
  LET u == w.users[h]
      told(o, v) == [v EXCEPT !.friends = @ \ {target}, !.online = @ \ {target}]
  IN  Tell([w EXCEPT !.friendships[u] = @ \ {target}], {h}, told)

\* Only the one who deletes is told.
delete_friend(w, h, target) ==
  LET u == w.users[h]
      gone == [[w EXCEPT !.friendships[u] = @ \ {target}] EXCEPT !.friendships[target] = @ \ {u}]
      told(o, v) == [v EXCEPT !.friends = @ \ {target}, !.online = @ \ {target}]
  IN  Tell(gone, {h}, told)

-----------------------------------------------------------------------------
(* Actions *)

\* on_rmi: what is sent on a connection without an entry in m_users is swallowed.
Runs(h) == h \in net.up /\ users[h] # NoUser

\* The ProudNet layer accepts a connection, and later completes its handshake.
Accept == CanAllocate(net) /\ Become([World EXCEPT !.net = AddPeer(net)])

Handshake(h) ==
  /\ h \in net.peers \ net.up
  /\ Become([World EXCEPT !.net.up = @ \cup {h}])

\* End of stream, socket error or inactivity, of a connected client or in the handshake.
Disconnect(h) ==
  \/ h \in net.up /\ Become(close(World, h))
  \/ h \in net.peers \ net.up /\ Become([World EXCEPT !.net = on_peer_closed(net, {h})])

Logon(h) ==
  /\ h \in net.up
  /\ AllowRelogon \/ users[h] = NoUser
  /\ \E u \in User : Become(logon(World, h, u))

AddFriend(h) == Runs(h) /\ \E t \in User : Become(add_friend(World, h, t))

AnswerFriend(h) ==
  Runs(h) /\ \E r \in User, accept \in BOOLEAN : Become(answer_friend(World, h, r, accept))

\* Del_Friend_UserID; Del_Friend does the same for a target that is online.
DeleteFriend(h) == Runs(h) /\ \E t \in User : Become(delete_friend(World, h, t))

Next ==
  \/ Accept
  \/ \E h \in HostId :
       \/ Handshake(h) \/ Disconnect(h) \/ Logon(h)
       \/ AddFriend(h) \/ AnswerFriend(h) \/ DeleteFriend(h)

Spec == Init /\ [][Next]_vars

-----------------------------------------------------------------------------
(* Properties *)

\* m_friendships keeps both sides of a friendship, and nobody befriends oneself,
\* however requests, late answers and deletions of the two interleave.
FriendshipsMutual ==
  \A u, v \in User : v \in m_friendships[u] => u # v /\ u \in m_friendships[v]

\* The friend list of the login and the notices after it let every client know all
\* its friends and exactly which of them are online now, although friends come, go,
\* are replaced by a newer login and accept requests of people who have left.
FriendViewAccurate ==
  \A h \in net.up : users[h] # NoUser =>
    LET fs == m_friendships[users[h]]
    IN  /\ fs \subseteq view[h].friends
        /\ view[h].online \cap fs = {f \in fs : online(World, f) # {}}

\* What is sent to a user by name or number (whisper, invitation, mail) reaches the
\* one client that was told it is logged in as that user, if there is one.
WhispersReachAddressee ==
  \A u \in User : Addressee(World, u) = {h \in net.up : view[h].me = u}

\* "swallow anything sent before login": no connection can act as a user unless that
\* connection's own login was answered.
SwallowedBeforeLogin == \A h \in HostId : Runs(h) => view[h].me # NoUser
=============================================================================
