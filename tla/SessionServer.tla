--------------------------- MODULE SessionServer ---------------------------
(***************************************************************************)
(* session::session_server (src/src/session/session_server.cpp): logins      *)
(* against the account store, the table of who is online on which            *)
(* connection, and the notice that tells an older login it was superseded.   *)
(* HostIDs come from the tables of proudnet::server, so the id of a          *)
(* connection that ended comes back as somebody else's.                      *)
(***************************************************************************)
EXTENDS AccountStore, ProudNetState

CONSTANTS Nations,         \* values of the nation byte (256)
          AllowOtherLogon  \* clients may log in as another user on the same connection

ASSUME SessionAssumption == Nations \in Nat \ {0} /\ AllowOtherLogon \in BOOLEAN

VARIABLES net,       \* m_net
          user_data, \* user_data[h]: the session_user of connection h
          m_online,  \* username -> HostID, 0 when there is no entry
          superseded \* connections that were sent Forced_Close since they logged in

vars == <<net, user_data, m_online, superseded, accountVars>>

NoName == <<>>
NoUser == [username |-> NoName, nation |-> 1 % Nations]

TypeOK ==
  /\ AccountsTypeOK
  /\ net \in NetType
  /\ user_data \in [HostId -> [username : Username \cup {NoName}, nation : 0 .. Nations - 1]]
  /\ m_online \in [Username -> HostId \cup {0}]
  /\ superseded \subseteq HostId

Init ==
  /\ AccountsInit
  /\ net = EmptyNet
  /\ user_data = [h \in HostId |-> NoUser]
  /\ m_online = [u \in Username |-> 0]
  /\ superseded = {}

-----------------------------------------------------------------------------
\* Mutant: whoever leaves, the entry of its user is erased.
ErasedBy_Anybody(h) == {u \in Username : user_data[h].username = u}

\* Mutant: leaving clients keep their entries.
ErasedBy_Nobody(h) == {}

\* on_client_leave: the entries that go when h leaves, the one of its user unless
\* it belongs to a newer connection.
ErasedBy(h) == {u \in Username : user_data[h].username = u /\ m_online[u] = h}

Accept ==
  /\ CanAllocate(net)
  /\ net' = AddPeer(net)
  /\ UNCHANGED <<user_data, m_online, superseded, accountVars>>

Handshake(h) ==
  /\ h \in net.peers \ net.up
  /\ net' = [net EXCEPT !.up = @ \cup {h}]
  /\ UNCHANGED <<user_data, m_online, superseded, accountVars>>

\* Logout_CLSS, end of stream, socket error or inactivity, also in the handshake.
Leave(h) ==
  /\ h \in net.peers
  /\ net' = on_peer_closed(MarkClosed(net, {h}), {h})
  /\ m_online' = [u \in Username |-> IF u \in ErasedBy(h) THEN 0 ELSE m_online[u]]
  /\ user_data' = [user_data EXCEPT ![h] = NoUser]
  /\ superseded' = superseded \ {h}
  /\ UNCHANGED accountVars

\* The older session of u that a login on h supersedes, if its connection is there.
Older(h, u) == {m_online[u]} \cap (net.peers \ {h})

\* Logon_CLSS with credentials the store accepts.
logon(h, u, p) ==
  /\ h \in net.up
  /\ AllowOtherLogon \/ user_data[h].username \in {NoName, u}
  /\ login(u, p)
  /\ superseded' = (superseded \cup Older(h, u)) \ {h}
  /\ m_online' = [m_online EXCEPT ![u] = h]
  /\ user_data' = [user_data EXCEPT ![h] = [NoUser EXCEPT !.username = u]]
  /\ UNCHANGED net

\* The nation byte for the 0-based index of the client.
NationOf(index) == (index + 1) % Nations

Change_Nation(h) ==
  /\ h \in net.up /\ user_data[h].username # NoName
  /\ \E index \in 0 .. Nations - 1 :
       user_data' = [user_data EXCEPT ![h].nation = NationOf(index)]
  /\ UNCHANGED <<net, m_online, superseded, accountVars>>

\* The process ends and is started again: only the accounts file is left.
Restart ==
  /\ Reload
  /\ net' = EmptyNet
  /\ user_data' = [h \in HostId |-> NoUser]
  /\ m_online' = [u \in Username |-> 0]
  /\ superseded' = {}

Next ==
  \/ Accept
  \/ \E h \in HostId :
       \/ Handshake(h) \/ Leave(h) \/ Change_Nation(h)
       \/ \E u \in Username, p \in Password : logon(h, u, p)
  \/ Restart

Spec == Init /\ [][Next]_vars

-----------------------------------------------------------------------------
(* Properties *)

\* m_online never points at a connection that ended, nor at the stranger that has
\* its HostID now: an entry is a connected client logged in as that user.
OnlineIsLive ==
  \A u \in Username : m_online[u] # 0 =>
    m_online[u] \in net.up /\ user_data[m_online[u]].username = u

\* "Kick an older session of the same account": of several connections of an account
\* exactly those are told Forced_Close that a later login took over from, even when
\* older and newer connections leave in any order; nobody else is told.
KickedIffSuperseded ==
  \A h \in net.up :
    h \in superseded <=>
      user_data[h].username # NoName /\ m_online[user_data[h].username] # h
=============================================================================
