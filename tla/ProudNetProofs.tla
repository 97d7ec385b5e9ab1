--------------------------- MODULE ProudNetProofs ---------------------------
(***************************************************************************)
(* Proofs about ProudNetServer, for every number of connections, every pool  *)
(* of HostIDs and every timeout. What the operations on the tables do is in  *)
(* ProudNetStateProofs.                                                      *)
(***************************************************************************)
EXTENDS ProudNetServer, ProudNetStateProofs

-----------------------------------------------------------------------------
(* The server *)

\* The inductive invariant of ProudNetServer: sound tables, m_peers in step with
\* the peer objects, and no handler outstanding for an object that is gone.
IInv ==
  /\ TypeOK
  /\ Sound(net, {})
  /\ PeersIndexed
  /\ \A c \in Conn : state[c] = "none" => pending[c] = {}

\* peer::close, on any objects that exist, keeps tables and objects in step: each
\* id of a peer that was open is released once, a closed peer changes nothing.
LEMMA CloseKeepsIndex ==
  ASSUME IInv, NEW S \in SUBSET Conn, \A c \in S : state[c] # "none",
         close(S), id' = id
  PROVE  /\ Sound(net', {})
         /\ PeersIndexed'
         /\ state' \in [Conn -> States]
         /\ \A c \in Conn : state'[c] = "none" <=> state[c] = "none"
<1> DEFINE live == {c \in S : state[c] # "closed"}
           I == Ids(live)
           left == MarkClosed(net, I)
           q == LeaveGroups(left, left.groups, I)
<1>1. state \in [Conn -> States] /\ id \in [Conn -> HostId \cup {0}]
  BY DEF IInv, TypeOK
<1>2. live \subseteq OpenConns
  BY <1>1 DEF OpenConns, Open, States
<1>3. I \subseteq net.peers
  BY <1>2 DEF IInv, PeersIndexed, Ids
<1>4. PICK D : net' = NetAfterClose(live, D)
  BY DEF close
<1>5. state' = [c \in Conn |-> IF c \in live THEN "closed" ELSE state[c]]
  BY DEF close
<1> DEFINE sunk == destroy_p2p_group(q, D)
<1>6. net' = on_peer_closed(sunk, I)
  BY <1>4 DEF NetAfterClose
<1>7. Sound(left, I) /\ left.peers = net.peers /\ left.up = net.up \ I
  BY <1>3, MarkClosedSound DEF IInv
<1> HIDE DEF left
<1>8. Sound(q, I) /\ q.peers = net.peers /\ q.up = net.up \ I
  BY <1>7, LeaveGroupsSound
<1> HIDE DEF q
<1>9. Sound(sunk, I) /\ sunk.peers = net.peers /\ sunk.up = net.up \ I
  BY <1>8, DestroyGroupSound
<1> HIDE DEF sunk, I
<1>10. Sound(net', {}) /\ net'.peers = net.peers \ I /\ net'.up = net.up \ I
  BY <1>3, <1>6, <1>9, PeerClosedSound
<1>11. OpenConns' = OpenConns \ live /\ UpConns' = UpConns \ live
  BY <1>1, <1>5 DEF OpenConns, UpConns, Open, OpenStates
<1>12. UpConns \subseteq OpenConns
  BY DEF UpConns, OpenConns, Open, OpenStates
<1>13. /\ net.peers = {id[c] : c \in OpenConns}
       /\ net.up = {id[c] : c \in UpConns}
       /\ \A c, d \in OpenConns : id[c] = id[d] => c = d
       /\ I = {id[c] : c \in live}
  BY DEF IInv, PeersIndexed, Ids, I
<1> HIDE DEF live
<1>14. net'.peers = {id[c] : c \in OpenConns \ live}
  BY <1>2, <1>10, <1>13
<1>15. net'.up = {id[c] : c \in UpConns \ live}
  BY <1>2, <1>10, <1>12, <1>13
<1>16. PeersIndexed'
  BY <1>11, <1>13, <1>14, <1>15 DEF PeersIndexed, Ids
<1>17. state' \in [Conn -> States]
  BY <1>1, <1>5 DEF States
<1>18. \A c \in Conn : state'[c] = "none" <=> state[c] = "none"
  BY <1>1, <1>5 DEF live
<1> QED
  BY <1>10, <1>16, <1>17, <1>18

\* A step that leaves peer states, ids and registrations alone keeps the index.
LEMMA IndexUnchanged ==
  ASSUME PeersIndexed, net'.peers = net.peers, net'.up = net.up,
         state' = state, id' = id
  PROVE  PeersIndexed'
BY DEF PeersIndexed, OpenConns, UpConns, Open, Ids

\* The actions that close peers: close() on existing objects, and at most the
\* bookkeeping of the handler around it.
LEMMA ClosingKeepsInv ==
  ASSUME IInv, NEW S \in SUBSET Conn, \A c \in S : state[c] # "none",
         close(S), id' = id, age' = age,
         \A c \in Conn : pending'[c] \subseteq pending[c],
         pending' \in [Conn -> SUBSET {"read", "write"}],
         accepting' \in BOOLEAN, timer' \in {"armed", "due", "off"}, running' \in BOOLEAN
  PROVE  IInv'
<1>1. /\ Sound(net', {}) /\ PeersIndexed' /\ state' \in [Conn -> States]
      /\ \A c \in Conn : state'[c] = "none" <=> state[c] = "none"
  BY CloseKeepsIndex
<1>2. TypeOK'
  BY <1>1 DEF IInv, TypeOK, Sound, AllocInv
<1>3. \A c \in Conn : state'[c] = "none" => pending'[c] = {}
  BY <1>1 DEF IInv
<1> QED
  BY <1>1, <1>2, <1>3 DEF IInv

\* Handing out an id for a new peer object keeps tables and objects in step.
LEMMA AcceptKeepsInv ==
  ASSUME IInv, NEW c \in Conn, Accept(c)
  PROVE  IInv'
<1> DEFINE a == AllocatedId(net)
<1>1. /\ Sound(net', {}) /\ a \in HostId \ net.peers
      /\ net'.peers = net.peers \cup {a} /\ net'.up = net.up
  BY AddPeerSound DEF IInv, Accept
<1>2. /\ state' = [state EXCEPT ![c] = "awaiting_public_key"] /\ state[c] = "none"
      /\ id' = [id EXCEPT ![c] = a] /\ age' = [age EXCEPT ![c] = 0]
      /\ pending' = [pending EXCEPT ![c] = {"read", "write"}]
      /\ UNCHANGED <<accepting, timer, running>>
  BY DEF Accept
<1> HIDE DEF a
<1>3. TypeOK'
  BY <1>1, <1>2, TimeoutAssumption DEF IInv, TypeOK, Sound, AllocInv, States, OpenStates
<1>4. /\ state \in [Conn -> States] /\ id \in [Conn -> HostId \cup {0}]
  BY DEF IInv, TypeOK
<1>5. /\ OpenConns' = OpenConns \cup {c} /\ c \notin OpenConns /\ UpConns' = UpConns /\ c \notin UpConns
  BY <1>2, <1>4 DEF OpenConns, UpConns, Open, OpenStates
<1>6. /\ id'[c] = a /\ \A d \in Conn : d # c => id'[d] = id[d]
      /\ OpenConns \subseteq Conn /\ UpConns \subseteq Conn
  BY <1>2, <1>4 DEF OpenConns, UpConns
<1>7. /\ net.peers = {id[d] : d \in OpenConns} /\ net.up = {id[d] : d \in UpConns}
      /\ \A d, e \in OpenConns : id[d] = id[e] => d = e
  BY DEF IInv, PeersIndexed, Ids
<1>8. net'.peers = {id'[d] : d \in OpenConns \cup {c}}
  BY <1>1, <1>5, <1>6, <1>7
<1>9. net'.up = {id'[d] : d \in UpConns}
  BY <1>1, <1>5, <1>6, <1>7
<1>10. \A d, e \in OpenConns \cup {c} : id'[d] = id'[e] => d = e
  BY <1>1, <1>5, <1>6, <1>7
<1>11. PeersIndexed'
  BY <1>5, <1>8, <1>9, <1>10 DEF PeersIndexed, Ids
<1>12. \A d \in Conn : state'[d] = "none" => pending'[d] = {}
  BY <1>2, <1>4 DEF IInv
<1> QED
  BY <1>1, <1>3, <1>11, <1>12 DEF IInv

\* The end of the handshake moves one open peer among the connected ones.
LEMMA ConnectKeepsInv ==
  ASSUME IInv, NEW c \in Conn, Reads(c), state[c] = "awaiting_connection_request",
         state' = [state EXCEPT ![c] = "connected"],
         net' = [net EXCEPT !.up = @ \cup {id[c]}],
         Rearm(c, {"write"})
  PROVE  IInv'
<1>1. /\ state \in [Conn -> States] /\ net \in NetType
  BY DEF IInv, TypeOK
<1>2. c \in OpenConns /\ c \notin UpConns
  BY DEF OpenConns, UpConns, Open, OpenStates
<1>3. id[c] \in net.peers
  BY <1>2 DEF IInv, PeersIndexed, Ids
<1>4. Sound(net', {})
  BY <1>3, ConnectSound DEF IInv
<1>5. net'.peers = net.peers /\ net'.up = net.up \cup {id[c]}
  BY <1>1 DEF NetType
<1>6. OpenConns' = OpenConns /\ UpConns' = UpConns \cup {c}
  BY <1>1 DEF OpenConns, UpConns, Open, OpenStates
<1>7. id' = id
  BY DEF Rearm
<1>8. PeersIndexed'
  BY <1>5, <1>6, <1>7 DEF IInv, PeersIndexed, Ids
<1>9. TypeOK'
  BY <1>4, TimeoutAssumption
  DEF IInv, TypeOK, Sound, AllocInv, Rearm, States, OpenStates
<1>10. \A d \in Conn : state'[d] = "none" => pending'[d] = {}
  BY <1>1 DEF IInv, TypeOK, Rearm
<1> QED
  BY <1>4, <1>8, <1>9, <1>10 DEF IInv

\* The steps of one connection preserve the inductive invariant.
LEMMA ConnStep ==
  ASSUME IInv, NEW c \in Conn,
         \/ Accept(c) \/ on_public_key(c) \/ on_connection_request(c)
         \/ Receive(c) \/ ReadFails(c) \/ LateRead(c)
         \/ WriteDone(c) \/ WriteFails(c) \/ SinkCloses(c) \/ Destroyed(c)
  PROVE  IInv'
<1>t. /\ state \in [Conn -> States] /\ id \in [Conn -> HostId \cup {0}]
      /\ age \in [Conn -> 0 .. Timeout + 1] /\ pending \in [Conn -> SUBSET {"read", "write"}]
      /\ accepting \in BOOLEAN /\ timer \in {"armed", "due", "off"} /\ running \in BOOLEAN
  BY DEF IInv, TypeOK
<1>e. ASSUME ReadEnds(c), state[c] # "none"
      PROVE  IInv'
  <2>1. /\ pending' \in [Conn -> SUBSET {"read", "write"}]
        /\ \A d \in Conn : pending'[d] \subseteq pending[d]
    BY <1>e, <1>t DEF ReadEnds
  <2>2. /\ close({c}) /\ id' = id /\ age' = age
        /\ accepting' = accepting /\ timer' = timer /\ running' = running
    BY <1>e DEF ReadEnds
  <2> QED
    BY <1>e, <1>t, <2>1, <2>2, ClosingKeepsInv
<1>r. ASSUME NEW reply \in SUBSET {"write"}, Rearm(c, reply), state[c] # "none",
             net' = net, state' = state
      PROVE  IInv'
  <2>1. PeersIndexed'
    BY <1>r, IndexUnchanged DEF IInv, Rearm
  <2>p. pending[c] \cup reply \in SUBSET {"read", "write"}
    BY <1>t
  <2>q. /\ pending' = [pending EXCEPT ![c] = pending[c] \cup reply]
        /\ age' = [age EXCEPT ![c] = 0]
        /\ UNCHANGED <<id, accepting, timer, running>>
    BY <1>r DEF Rearm
  <2>a. pending' \in [Conn -> SUBSET {"read", "write"}] /\ age' \in [Conn -> 0 .. Timeout + 1]
    BY <1>t, <2>p, <2>q, TimeoutAssumption
  <2>2. TypeOK'
    BY <1>r, <1>t, <2>q, <2>a DEF IInv, TypeOK
  <2>3. \A d \in Conn : state'[d] = "none" => pending'[d] = {}
    BY <1>r, <1>t DEF IInv, Rearm
  <2> QED
    BY <1>r, <2>1, <2>2, <2>3 DEF IInv
<1>o. ASSUME Reads(c) PROVE state[c] # "none"
  BY <1>o DEF Reads, Open, OpenStates
<1>1. CASE Accept(c)
  BY <1>1, AcceptKeepsInv
<1>2. CASE on_public_key(c)
  <2>1. CASE ReadEnds(c)
    BY <1>2, <1>e, <1>o, <2>1 DEF on_public_key
  <2>2. CASE /\ state' = [state EXCEPT ![c] = "awaiting_connection_request"]
             /\ Rearm(c, {"write"}) /\ net' = net
    <3>1. state[c] = "awaiting_public_key"
      BY <1>2 DEF on_public_key
    <3>2. OpenConns' = OpenConns /\ UpConns' = UpConns
      BY <2>2, <3>1, <1>t DEF OpenConns, UpConns, Open, OpenStates
    <3>3. PeersIndexed'
      BY <2>2, <3>2 DEF IInv, PeersIndexed, Ids, Rearm
    <3>4. TypeOK'
      BY <2>2, <1>t, TimeoutAssumption DEF IInv, TypeOK, Rearm, States, OpenStates
    <3>5. \A d \in Conn : state'[d] = "none" => pending'[d] = {}
      BY <2>2, <3>1, <1>t DEF IInv, Rearm
    <3> QED
      BY <2>2, <3>3, <3>4, <3>5 DEF IInv
  <2> QED
    BY <1>2, <2>1, <2>2 DEF on_public_key
<1>3. CASE on_connection_request(c)
  <2>1. CASE ReadEnds(c)
    BY <1>3, <1>e, <1>o, <2>1 DEF on_connection_request
  <2>2. CASE /\ state' = [state EXCEPT ![c] = "connected"]
             /\ net' = [net EXCEPT !.up = @ \cup {id[c]}]
             /\ Rearm(c, {"write"})
    BY <1>3, <2>2, ConnectKeepsInv DEF on_connection_request
  <2> QED
    BY <1>3, <2>1, <2>2 DEF on_connection_request
<1>4. CASE Receive(c)
  BY <1>4, <1>o, <1>r DEF Receive
<1>5. CASE ReadFails(c)
  BY <1>5, <1>e, <1>o DEF ReadFails
<1>6. CASE LateRead(c)
  <2>1. CASE ReadEnds(c)
    BY <1>6, <1>e, <2>1 DEF LateRead
  <2>2. CASE Rearm(c, {}) /\ UNCHANGED <<net, state>>
    BY <1>6, <1>r, <2>2 DEF LateRead
  <2> QED
    BY <1>6, <2>1, <2>2 DEF LateRead
<1>7. CASE WriteDone(c)
  <2>1. PeersIndexed'
    BY <1>7, IndexUnchanged DEF IInv, WriteDone
  <2>2. TypeOK'
    BY <1>7, <1>t DEF IInv, TypeOK, WriteDone
  <2>3. \A d \in Conn : state'[d] = "none" => pending'[d] = {}
    BY <1>7, <1>t DEF IInv, WriteDone
  <2> QED
    BY <1>7, <2>1, <2>2, <2>3 DEF IInv, WriteDone
<1>8. CASE WriteFails(c)
  <2>1. /\ pending' \in [Conn -> SUBSET {"read", "write"}]
        /\ \A d \in Conn : pending'[d] \subseteq pending[d]
    BY <1>8, <1>t DEF WriteFails
  <2>2. /\ close({c}) /\ id' = id /\ age' = age
        /\ accepting' = accepting /\ timer' = timer /\ running' = running
    BY <1>8 DEF WriteFails
  <2>3. state[c] # "none"
    BY <1>8 DEF WriteFails, IInv
  <2> QED
    BY <1>t, <2>1, <2>2, <2>3, ClosingKeepsInv
<1>9. CASE SinkCloses(c)
  <2>1. /\ close({c}) /\ id' = id /\ age' = age /\ pending' = pending
        /\ accepting' = accepting /\ timer' = timer /\ running' = running
        /\ state[c] # "none"
    BY <1>9 DEF SinkCloses
  <2> QED
    BY <1>t, <2>1, ClosingKeepsInv
<1>10. CASE Destroyed(c)
  <2>1. /\ state' = [state EXCEPT ![c] = "none"] /\ id' = [id EXCEPT ![c] = 0]
        /\ net' = net /\ pending' = pending /\ pending[c] = {} /\ state[c] = "closed"
    BY <1>10 DEF Destroyed
  <2>2. /\ OpenConns' = OpenConns /\ UpConns' = UpConns
        /\ c \notin OpenConns /\ c \notin UpConns
        /\ OpenConns \subseteq Conn /\ UpConns \subseteq Conn
    BY <2>1, <1>t DEF OpenConns, UpConns, Open, OpenStates
  <2>3. \A d \in OpenConns \cup UpConns : id'[d] = id[d]
    BY <2>1, <2>2, <1>t
  <2>4. PeersIndexed'
    BY <2>1, <2>2, <2>3 DEF IInv, PeersIndexed, Ids
  <2>5. TypeOK'
    BY <1>10, <1>t, TimeoutAssumption DEF IInv, TypeOK, Destroyed, States, OpenStates
  <2>6. \A d \in Conn : state'[d] = "none" => pending'[d] = {}
    BY <2>1, <1>t DEF IInv
  <2> QED
    BY <2>1, <2>4, <2>5, <2>6 DEF IInv
<1> QED
  BY <1>1, <1>2, <1>3, <1>4, <1>5, <1>6, <1>7, <1>8, <1>9, <1>10

\* The group operations of the sink preserve the inductive invariant.
LEMMA SinkStep ==
  ASSUME IInv, SinkGroupStep
  PROVE  IInv'
<1>1. Sound(net', {}) /\ net'.peers = net.peers /\ net'.up = net.up
  <2>t. net \in NetType /\ Sound(net, {})
    BY DEF IInv, TypeOK
  <2>1. CASE SinkCreatesGroup
    BY <2>1, <2>t, CreateGroupSound DEF SinkCreatesGroup
  <2>2. CASE SinkJoins
    <3>1. PICK g \in net.groups, h \in net.up : net' = join_p2p_group(net, g, h)
      BY <2>2 DEF SinkJoins
    <3>2. g \in HostId
      BY <2>t DEF NetType
    <3> QED
      BY <2>t, <3>1, <3>2, JoinGroupSound
  <2>3. CASE SinkLeaves
    <3>1. PICK g \in net.groups, h \in net.up : net' = LeaveGroups(net, {g} \cap net.groups, {h})
      BY <2>3 DEF SinkLeaves, leave_p2p_group
    <3> QED
      BY <2>t, <3>1, LeaveGroupsSound
  <2>4. CASE SinkDestroysGroup
    <3>1. PICK g \in net.groups : net' = destroy_p2p_group(net, {g})
      BY <2>4 DEF SinkDestroysGroup
    <3> QED
      BY <2>t, <3>1, DestroyGroupSound
  <2> QED
    BY <2>1, <2>2, <2>3, <2>4 DEF SinkGroupStep
<1>2. UNCHANGED <<state, id, age, pending, accepting, timer, running>>
  BY DEF SinkGroupStep
<1>3. PeersIndexed'
  BY <1>1, <1>2, IndexUnchanged DEF IInv
<1>4. TypeOK'
  BY <1>1, <1>2 DEF IInv, TypeOK, Sound, AllocInv
<1> QED
  BY <1>1, <1>2, <1>3, <1>4 DEF IInv

\* Every step of the server preserves the inductive invariant.
LEMMA NextKeepsInv ==
  ASSUME IInv, [Next]_vars
  PROVE  IInv'
<1>t. /\ state \in [Conn -> States] /\ id \in [Conn -> HostId \cup {0}]
      /\ age \in [Conn -> 0 .. Timeout + 1] /\ pending \in [Conn -> SUBSET {"read", "write"}]
      /\ accepting \in BOOLEAN /\ timer \in {"armed", "due", "off"} /\ running \in BOOLEAN
      /\ net \in NetType
  BY DEF IInv, TypeOK
<1>s. \A c \in OpenConns : state[c] # "none"
  BY DEF OpenConns, Open, OpenStates
<1>1. ASSUME NEW c \in Conn,
             \/ Accept(c) \/ on_public_key(c) \/ on_connection_request(c)
             \/ Receive(c) \/ ReadFails(c) \/ LateRead(c)
             \/ WriteDone(c) \/ WriteFails(c) \/ SinkCloses(c) \/ Destroyed(c)
      PROVE  IInv'
  BY <1>1, ConnStep
<1>2. CASE AcceptFails
  <2>1. PeersIndexed'
    BY <1>2, IndexUnchanged DEF AcceptFails, IInv
  <2>2. TypeOK'
    BY <1>2, <1>t DEF AcceptFails, TypeOK
  <2> QED
    BY <1>2, <2>1, <2>2 DEF AcceptFails, IInv
<1>3. CASE Tick
  <2>1. PeersIndexed'
    BY <1>3, IndexUnchanged DEF Tick, IInv
  <2>2. age' \in [Conn -> 0 .. Timeout + 1]
    BY <1>3, <1>t, TimeoutAssumption DEF Tick
  <2>3. timer' \in {"armed", "due", "off"}
    BY <1>3, <1>t DEF Tick
  <2>4. UNCHANGED <<net, state, id, pending, accepting, running>>
    BY <1>3 DEF Tick
  <2>5. TypeOK'
    BY <1>t, <2>2, <2>3, <2>4 DEF TypeOK
  <2> QED
    BY <2>1, <2>4, <2>5 DEF IInv
<1>4. CASE check_timeouts
  <2>1. /\ close(Stale) /\ id' = id /\ age' = age /\ pending' = pending
        /\ accepting' = accepting /\ timer' = "armed" /\ running' = running
    BY <1>4 DEF check_timeouts
  <2>2. Stale \in SUBSET Conn /\ \A c \in Stale : state[c] # "none"
    BY <1>s DEF Stale, OpenConns
  <2> QED
    BY <1>t, <2>1, <2>2, ClosingKeepsInv
<1>5. CASE SinkGroupStep
  BY <1>5, SinkStep
<1>6. CASE stop
  <2>1. /\ close(OpenConns) /\ id' = id /\ age' = age /\ pending' = pending
        /\ accepting' = FALSE /\ timer' = "off" /\ running' = FALSE
    BY <1>6 DEF stop
  <2>2. OpenConns \in SUBSET Conn
    BY DEF OpenConns
  <2> QED
    BY <1>t, <1>s, <2>1, <2>2, ClosingKeepsInv
<1>7. CASE UNCHANGED vars
  <2>1. PeersIndexed'
    BY <1>7, IndexUnchanged DEF vars, IInv
  <2>2. TypeOK'
    BY <1>7, <1>t DEF vars, TypeOK
  <2> QED
    BY <1>7, <2>1, <2>2 DEF vars, IInv
<1> QED
  BY <1>1, <1>2, <1>3, <1>4, <1>5, <1>6, <1>7 DEF Next, Stopped

-----------------------------------------------------------------------------
(* Theorems *)

\* The inductive invariant holds in every state the server reaches.
THEOREM Invariant == Spec => []IInv
<1>1. Init => IInv
  <2> SUFFICES ASSUME Init PROVE IInv
    OBVIOUS
  <2>1. TypeOK
    BY EmptySound, TimeoutAssumption DEF Init, TypeOK, States, OpenStates, Sound, AllocInv
  <2>2. OpenConns = {} /\ UpConns = {}
    BY DEF Init, OpenConns, UpConns, Open, OpenStates
  <2>3. PeersIndexed
    BY <2>2 DEF Init, PeersIndexed, EmptyNet, Ids
  <2> QED
    BY <2>1, <2>3, EmptySound DEF Init, IInv
<1>2. IInv /\ [Next]_vars => IInv'
  BY NextKeepsInv
<1> QED
  BY <1>1, <1>2, PTL DEF Spec

\* All tables, peer states, ids and handler sets stay within their types.
THEOREM TypeCorrect == Spec => []TypeOK
<1>1. IInv => TypeOK
  BY DEF IInv
<1> QED
  BY <1>1, Invariant, PTL

\* allocate_host_id and release_host_id lose, duplicate or share no HostID,
\* whatever order handlers run in and however often peers close.
THEOREM HostIdsPartitioned == Spec => []IdsPartitioned
<1>1. IInv => IdsPartitioned
  BY DEF IInv, Sound, AllocInv, IdsPartitioned
<1> QED
  BY <1>1, Invariant, PTL

\* m_peers and the peer objects agree, and no two open peers share an id.
THEOREM PeersAreIndexed == Spec => []PeersIndexed
<1>1. IInv => PeersIndexed
  BY DEF IInv
<1> QED
  BY <1>1, Invariant, PTL

\* Every connected client has been told exactly the membership of its groups.
THEOREM GroupViewsAccurate == Spec => []GroupViewAccurate
<1>1. IInv => GroupViewAccurate
  BY DEF IInv, Sound, GroupViewAccurate, MembersConnected
<1> QED
  BY <1>1, Invariant, PTL

\* Unreliable traffic to a group a client was told of reaches the members it was
\* told of, and nobody else (server::relay_unreliable).
THEOREM GroupTrafficDelivered == Spec => []GroupTrafficReachesMembers
<1>1. IInv => GroupTrafficReachesMembers
  <2> SUFFICES ASSUME IInv, NEW h \in net.up, NEW p \in net.told[h]
               PROVE  relay_unreliable(net, h, {p[1]})
                        = {q[2] : q \in {q \in net.told[h] : q[1] = p[1]}} \ {h}
    BY DEF GroupTrafficReachesMembers
  <2> DEFINE g == p[1]
             M == net.members[g]
             heard == {q \in net.told[h] : q[1] = g}
  <2>1. net.told[h] = {q \in Pair : h \in net.members[q[1]] /\ q[2] \in net.members[q[1]]}
    BY DEF IInv, Sound, ToldIsTrue
  <2>2. g \in HostId /\ h \in M
    BY <2>1 DEF Pair
  <2>3. M \subseteq net.up /\ g \in net.groups /\ M \subseteq HostId
    BY <2>2 DEF IInv, TypeOK, NetType, Sound
  <2>4. relay_unreliable(net, h, {g}) = M \ {h}
    BY <2>3 DEF relay_unreliable, for_each_destination, Reachable
  <2>5. \A m \in M : <<g, m>> \in heard
    BY <2>1, <2>2, <2>3 DEF Pair
  <2>6. \A q \in heard : q[2] \in M
    BY <2>1
  <2> HIDE DEF heard, M
  <2>7. {q[2] : q \in heard} = M
    <3>1. ASSUME NEW m \in M PROVE m \in {q[2] : q \in heard}
      <4>1. <<g, m>>[2] = m
        OBVIOUS
      <4> QED
        BY <2>5, <4>1
    <3> QED
      BY <2>6, <3>1
  <2> USE DEF heard, M
  <2> QED
    BY <2>4, <2>7
<1> QED
  BY <1>1, Invariant, PTL

-----------------------------------------------------------------------------
(* The lease of HostIDs *)

\* Each id has one holder at most: the peers are indexed by id, and no peer has the
\* id of a group.
LEMMA OneHolder ==
  ASSUME IInv, NEW h \in HostId, NEW x \in HoldersOf(h), NEW y \in HoldersOf(h)
  PROVE  x = y
<1>1. \A c \in Conn : Open(c) /\ id[c] = h => h \in net.peers
  BY DEF IInv, PeersIndexed, Ids, OpenConns
<1>2. net.peers \cap net.groups = {}
  BY DEF IInv, Sound, AllocInv, Partitioned
<1>3. \A c, d \in Conn : Open(c) /\ Open(d) /\ id[c] = h /\ id[d] = h => c = d
  BY DEF IInv, PeersIndexed, OpenConns
<1> QED
  BY <1>1, <1>2, <1>3 DEF HoldersOf

\* A step after which no id has a holder it did not have returns ids, or none.
LEMMA ShrinkingReturns ==
  ASSUME IInv, \A h \in HostId : HoldersOf(h)' \subseteq HoldersOf(h)
  PROVE  Lease!Next
<1>1. ASSUME NEW h \in HostId
      PROVE  HoldersOf(h)' = HoldersOf(h) \/ HoldersOf(h)' = {}
  <2>1. ASSUME NEW x \in HoldersOf(h)'
        PROVE  HoldersOf(h)' = HoldersOf(h)
    <3>1. HoldersOf(h) \subseteq {x}
      BY <2>1, OneHolder
    <3> QED
      BY <3>1
  <2> QED
    BY <2>1
<1> QED
  BY <1>1 DEF Lease!Next, Lease!Return

\* A step that leaves the peers and their ids alone and adds no group takes nothing
\* from the pool.
LEMMA NothingLent ==
  ASSUME IInv, state' = state, id' = id, net'.groups \subseteq net.groups
  PROVE  Lease!Next
BY ShrinkingReturns DEF HoldersOf, Open

\* peer::close gives ids back and takes none.
LEMMA CloseReturns ==
  ASSUME IInv, NEW S \in SUBSET Conn, \A c \in S : state[c] # "none",
         close(S), id' = id
  PROVE  Lease!Next
<1> DEFINE live == {c \in S : state[c] # "closed"}
           I == Ids(live)
           left == MarkClosed(net, I)
           q == LeaveGroups(left, left.groups, I)
<1>1. state \in [Conn -> States]
  BY DEF IInv, TypeOK
<1>2. I \subseteq net.peers
  BY <1>1 DEF IInv, PeersIndexed, Ids, OpenConns, Open, States
<1>3. PICK D : net' = NetAfterClose(live, D)
  BY DEF close
<1> DEFINE sunk == destroy_p2p_group(q, D)
<1>4. net' = on_peer_closed(sunk, I)
  BY <1>3 DEF NetAfterClose
<1>5. Sound(left, I) /\ left.peers = net.peers /\ left.groups = net.groups
  BY <1>2, MarkClosedSound DEF IInv
<1> HIDE DEF left
<1>6. Sound(q, I) /\ q.peers = net.peers /\ q.groups = net.groups
  BY <1>5, LeaveGroupsSound
<1> HIDE DEF q
<1>7. Sound(sunk, I) /\ sunk.peers = net.peers /\ sunk.groups = net.groups \ D
  BY <1>6, DestroyGroupSound
<1> HIDE DEF sunk, I
<1>8. net'.groups \subseteq net.groups
  BY <1>2, <1>4, <1>7, PeerClosedSound
<1>9. \A c \in Conn : Open(c)' => Open(c)
  BY <1>1 DEF close, Open, OpenStates
<1> QED
  BY <1>8, <1>9, ShrinkingReturns DEF HoldersOf

\* Every handler returns ids or lends one that nobody holds.
LEMMA NextLeases ==
  ASSUME IInv, Next
  PROVE  Lease!Next \/ UNCHANGED [h \in HostId |-> HoldersOf(h)]
<1>t. /\ state \in [Conn -> States] /\ id \in [Conn -> HostId \cup {0}]
      /\ net \in NetType /\ Sound(net, {})
  BY DEF IInv, TypeOK
<1>s. \A c \in OpenConns : state[c] # "none" /\ c \in Conn
  BY DEF OpenConns, Open, OpenStates
<1>p. \A c \in Conn : Open(c) => id[c] \in net.peers
  BY DEF IInv, PeersIndexed, Ids, OpenConns
<1>r. ASSUME NEW c \in Conn, ReadEnds(c), state[c] # "none"
      PROVE  Lease!Next
  BY <1>r, CloseReturns DEF ReadEnds
<1>l. ASSUME NEW a \in HostId \ {SkippedId}, NEW x \in Conn \cup {<<"group">>},
             HoldersOf(a) = {}, HoldersOf(a)' = {x},
             \A h \in HostId : h # a => HoldersOf(h)' = HoldersOf(h)
      PROVE  Lease!Next
  <2> DEFINE now == [h \in HostId |-> HoldersOf(h)]
             then == [h \in HostId |-> HoldersOf(h)']
  <2>1. now[a] = {} /\ then = [now EXCEPT ![a] = {x}]
    BY <1>l
  <2> QED
    BY <2>1 DEF Lease!Next, Lease!Lend
<1>h. ASSUME NEW c \in Conn, state' = [state EXCEPT ![c] = state'[c]],
             Open(c), id' = id, net'.groups = net.groups
      PROVE  Lease!Next
  BY <1>h, <1>t, ShrinkingReturns DEF HoldersOf, Open
<1>1. ASSUME NEW c \in Conn, Accept(c)
      PROVE  Lease!Next
  <2>1. PICK a \in HostId \ (net.peers \cup net.groups \cup {SkippedId}) :
          a = AllocatedId(net) /\ net'.groups = net.groups
    BY <1>1, <1>t, AddPeerSound DEF Accept
  <2>2. /\ state[c] = "none" /\ state' = [state EXCEPT ![c] = "awaiting_public_key"]
        /\ id' = [id EXCEPT ![c] = a]
    BY <1>1, <2>1 DEF Accept
  <2>3. /\ ~Open(c) /\ Open(c)' /\ id'[c] = a
        /\ \A d \in Conn : d # c => (Open(d)' <=> Open(d)) /\ id'[d] = id[d]
    BY <2>2, <1>t DEF Open, OpenStates
  <2>4. HoldersOf(a) = {}
    BY <2>1, <1>p DEF HoldersOf
  <2>5. HoldersOf(a)' = {c}
    BY <2>1, <2>3, <1>p DEF HoldersOf
  <2>6. \A h \in HostId : h # a => HoldersOf(h)' = HoldersOf(h)
    BY <2>1, <2>3 DEF HoldersOf
  <2> QED
    BY <1>l, <2>1, <2>4, <2>5, <2>6
<1>2. ASSUME NEW c \in Conn, on_public_key(c) \/ on_connection_request(c) \/ Receive(c) \/ ReadFails(c)
      PROVE  Lease!Next
  <2>1. Reads(c) /\ Open(c) /\ state[c] # "none"
    BY <1>2 DEF on_public_key, on_connection_request, Receive, ReadFails, Reads, Open, OpenStates
  <2>2. CASE ReadEnds(c)
    BY <1>r, <2>1, <2>2
  <2>3. CASE ~ReadEnds(c)
    <3>1. id' = id
      BY <1>2, <2>3 DEF on_public_key, on_connection_request, Receive, ReadFails, Rearm
    <3>2. net'.groups = net.groups
      BY <1>2, <2>3, <1>t
      DEF on_public_key, on_connection_request, Receive, ReadFails, NetType
    <3>3. state' = [state EXCEPT ![c] = state'[c]]
      BY <1>2, <2>3, <1>t DEF on_public_key, on_connection_request, Receive, ReadFails
    <3> QED
      BY <1>h, <2>1, <3>1, <3>2, <3>3
  <2> QED
    BY <2>2, <2>3
<1>3. ASSUME NEW c \in Conn, LateRead(c)
      PROVE  Lease!Next
  BY <1>3, <1>r, NothingLent DEF LateRead, Rearm
<1>4. ASSUME NEW c \in Conn, WriteDone(c)
      PROVE  Lease!Next
  BY <1>4, NothingLent DEF WriteDone
<1>5. ASSUME NEW c \in Conn, WriteFails(c)
      PROVE  Lease!Next
  <2>1. state[c] # "none"
    BY <1>5 DEF WriteFails, IInv
  <2> QED
    BY <1>5, <2>1, CloseReturns DEF WriteFails
<1>6. ASSUME NEW c \in Conn, SinkCloses(c)
      PROVE  Lease!Next
  BY <1>6, CloseReturns DEF SinkCloses
<1>7. ASSUME NEW c \in Conn, Destroyed(c)
      PROVE  Lease!Next
  <2>1. \A d \in Conn : Open(d)' => Open(d) /\ id'[d] = id[d]
    BY <1>7, <1>t DEF Destroyed, Open, OpenStates
  <2>2. net'.groups = net.groups
    BY <1>7 DEF Destroyed
  <2> QED
    BY <2>1, <2>2, ShrinkingReturns DEF HoldersOf
<1>8. CASE AcceptFails
  BY <1>8, NothingLent DEF AcceptFails
<1>9. CASE Tick
  BY <1>9, NothingLent DEF Tick
<1>10. CASE check_timeouts
  <2>1. Stale \in SUBSET Conn /\ \A c \in Stale : state[c] # "none"
    BY <1>s DEF Stale
  <2> QED
    BY <1>10, <2>1, CloseReturns DEF check_timeouts
<1>11. CASE stop
  <2>1. OpenConns \in SUBSET Conn
    BY DEF OpenConns
  <2> QED
    BY <1>11, <1>s, <2>1, CloseReturns DEF stop
<1>12. CASE SinkGroupStep
  <2>1. state' = state /\ id' = id
    BY <1>12 DEF SinkGroupStep
  <2>2. CASE SinkCreatesGroup
    <3>1. PICK a \in HostId \ (net.peers \cup net.groups \cup {SkippedId}) :
            net'.groups = net.groups \cup {a}
      BY <2>2, <1>t, CreateGroupSound DEF SinkCreatesGroup
    <3>2. HoldersOf(a) = {} /\ HoldersOf(a)' = {<<"group">>}
      BY <2>1, <3>1, <1>p DEF HoldersOf, Open
    <3>3. \A h \in HostId : h # a => HoldersOf(h)' = HoldersOf(h)
      BY <2>1, <3>1 DEF HoldersOf, Open
    <3> QED
      BY <1>l, <3>1, <3>2, <3>3
  <2>3. CASE SinkJoins
    <3>1. PICK g \in net.groups, h \in net.up : net' = join_p2p_group(net, g, h)
      BY <2>3 DEF SinkJoins
    <3>2. g \in HostId
      BY <1>t DEF NetType
    <3>3. net'.groups = net.groups
      BY <1>t, <3>1, <3>2, JoinGroupSound
    <3> QED
      BY <2>1, <3>3, NothingLent
  <2>4. CASE SinkLeaves
    <3>1. PICK g \in net.groups, h \in net.up : net' = LeaveGroups(net, {g} \cap net.groups, {h})
      BY <2>4 DEF SinkLeaves, leave_p2p_group
    <3>2. net'.groups = net.groups
      BY <1>t, <3>1, LeaveGroupsSound
    <3> QED
      BY <2>1, <3>2, NothingLent
  <2>5. CASE SinkDestroysGroup
    <3>1. PICK g \in net.groups : net' = destroy_p2p_group(net, {g})
      BY <2>5 DEF SinkDestroysGroup
    <3>2. net'.groups \subseteq net.groups
      BY <1>t, <3>1, DestroyGroupSound
    <3> QED
      BY <2>1, <3>2, NothingLent
  <2> QED
    BY <1>12, <2>2, <2>3, <2>4, <2>5 DEF SinkGroupStep
<1>13. CASE Stopped
  BY <1>13, NothingLent DEF Stopped, vars
<1> QED
  BY <1>1, <1>2, <1>3, <1>4, <1>5, <1>6, <1>7, <1>8, <1>9, <1>10, <1>11, <1>12, <1>13 DEF Next

\* The server implements the lease of HostIDs: an id changes hands only by way of
\* being free, whatever order connections, groups, timer and late handlers come in.
THEOREM HostIdsAreLeased == Spec => HostIdsLeased
<1>1. Init => Lease!Init
  <2> SUFFICES ASSUME Init PROVE Lease!Init
    OBVIOUS
  <2>1. \A h \in HostId : HoldersOf(h) = {}
    BY DEF Init, HoldersOf, Open, OpenStates, EmptyNet
  <2> QED
    BY <2>1 DEF Lease!Init
<1>2. IInv /\ [Next]_vars => [Lease!Next]_[h \in HostId |-> HoldersOf(h)]
  <2>1. ASSUME IInv, UNCHANGED vars
        PROVE  UNCHANGED [h \in HostId |-> HoldersOf(h)]
    BY <2>1 DEF vars, HoldersOf, Open
  <2> QED
    BY <2>1, NextLeases
<1> QED
  BY <1>1, <1>2, Invariant, PTL DEF Spec, HostIdsLeased, Lease!Spec
=============================================================================
