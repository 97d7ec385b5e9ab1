--------------------------- MODULE ProudNetServer ---------------------------
(***************************************************************************)
(* proudnet::server and proudnet::peer: accepting connections, the           *)
(* handshake, reads and writes completing in any order, closing, the         *)
(* inactivity timer and the P2P groups an event_sink keeps on top.           *)
(*                                                                          *)
(* Every action is one completion handler of the single io_context thread.   *)
(* A peer object outlives its close(): the handlers still outstanding hold   *)
(* it, and run after its HostID may already belong to somebody else.         *)
(***************************************************************************)
EXTENDS ProudNetState

CONSTANTS Conn,     \* peer objects that can exist at the same time
          Timeout   \* m_config.timeout, in periods of the 5-second timer

ASSUME TimeoutAssumption == Timeout \in Nat \ {0}

VARIABLES net,       \* the server's tables (ProudNetState)
          state,     \* state[c]: m_state, or "none" when there is no object c
          id,        \* id[c]: m_id; 0 when there is no object c
          age,       \* age[c]: time since m_last_receive, at most Timeout + 1
          pending,   \* pending[c]: outstanding async operations of c
          accepting, \* an async_accept is outstanding
          timer,     \* m_timer: "armed", "due" (expired, handler not yet run), "off"
          running    \* io_context::stop has not been called

vars == <<net, state, id, age, pending, accepting, timer, running>>

OpenStates == {"awaiting_public_key", "awaiting_connection_request", "connected"}
States == OpenStates \cup {"none", "closed"}

TypeOK ==
  /\ net \in NetType
  /\ state \in [Conn -> States]
  /\ id \in [Conn -> HostId \cup {0}]
  /\ age \in [Conn -> 0 .. Timeout + 1]
  /\ pending \in [Conn -> SUBSET {"read", "write"}]
  /\ accepting \in BOOLEAN
  /\ timer \in {"armed", "due", "off"}
  /\ running \in BOOLEAN

Open(c) == state[c] \in OpenStates
Ids(S) == {id[c] : c \in S}
OpenConns == {c \in Conn : Open(c)}
UpConns == {c \in Conn : state[c] = "connected"}

\* server::start: the first accept and the first timer are under way.
Init ==
  /\ net = EmptyNet
  /\ state = [c \in Conn |-> "none"]
  /\ id = [c \in Conn |-> 0]
  /\ age = [c \in Conn |-> 0]
  /\ pending = [c \in Conn |-> {}]
  /\ accepting = TRUE
  /\ timer = "armed"
  /\ running = TRUE

-----------------------------------------------------------------------------
(* peer::close *)

\* What close() does to the tables for the peers S that are not closed yet.
\* on_client_leave runs for those that were connected: the sink takes the peer
\* out of its groups and may destroy groups that this leaves empty (D).
NetAfterClose(S, D) ==
  LET left == MarkClosed(net, Ids(S))
      sunk == destroy_p2p_group(LeaveGroups(left, left.groups, Ids(S)), D)
  IN  on_peer_closed(sunk, Ids(S))

Emptied(S) == {g \in net.groups : net.members[g] \subseteq Ids(S)}

\* Mutant: close() does not notice that the peer is closed already.
close_Again(S) ==
  /\ \E D \in SUBSET (IF S \cap UpConns = {} THEN {} ELSE Emptied(S)) :
       net' = NetAfterClose(S, D)
  /\ state' = [c \in Conn |-> IF c \in S THEN "closed" ELSE state[c]]

\* close() on each of the objects S; a closed peer is left alone.
close(S) ==
  LET live == {c \in S : state[c] # "closed"}
  IN  /\ \E D \in SUBSET (IF live \cap UpConns = {} THEN {} ELSE Emptied(live)) :
           net' = NetAfterClose(live, D)
      /\ state' = [c \in Conn |-> IF c \in live THEN "closed" ELSE state[c]]

-----------------------------------------------------------------------------
(* Accepting *)

Accept(c) ==
  /\ running /\ accepting
  /\ state[c] = "none"
  /\ CanAllocate(net)
  /\ net' = AddPeer(net)
  /\ state' = [state EXCEPT ![c] = "awaiting_public_key"]
  /\ id' = [id EXCEPT ![c] = AllocatedId(net)]
  /\ age' = [age EXCEPT ![c] = 0]
  /\ pending' = [pending EXCEPT ![c] = {"read", "write"}]  \* read_loop, connection hint
  /\ UNCHANGED <<accepting, timer, running>>

\* An accept error other than success: logged, and accept() is not called again.
AcceptFails ==
  /\ running /\ accepting
  /\ accepting' = FALSE
  /\ UNCHANGED <<net, state, id, age, pending, timer, running>>

-----------------------------------------------------------------------------
(* The read handler of an open peer *)

Reads(c) == running /\ Open(c) /\ "read" \in pending[c]

\* Data arrived: touch(), the frames are processed, and the next read is started.
\* With reply, the handler also sent something.
Rearm(c, reply) ==
  /\ age' = [age EXCEPT ![c] = 0]
  /\ pending' = [pending EXCEPT ![c] = @ \cup reply]
  /\ UNCHANGED <<id, accepting, timer, running>>

\* The handler closed its own peer and returned; no further read is started.
ReadEnds(c) ==
  /\ close({c})
  /\ pending' = [pending EXCEPT ![c] = @ \ {"read"}]
  /\ UNCHANGED <<id, age, accepting, timer, running>>

on_public_key(c) ==
  /\ Reads(c) /\ state[c] = "awaiting_public_key"
  /\ \/ /\ state' = [state EXCEPT ![c] = "awaiting_connection_request"]
        /\ Rearm(c, {"write"})
        /\ UNCHANGED net
     \/ ReadEnds(c)              \* bad public key

on_connection_request(c) ==
  /\ Reads(c) /\ state[c] = "awaiting_connection_request"
  /\ \/ /\ state' = [state EXCEPT ![c] = "connected"]
        /\ net' = [net EXCEPT !.up = @ \cup {id[c]}]
        /\ Rearm(c, {"write"})
     \/ ReadEnds(c)              \* protocol version mismatch

\* Anything that leaves the connection as it is: keep-alives, core RMIs, relays,
\* partial frames, bad messages (caught), messages not expected in this state.
Receive(c) ==
  /\ Reads(c)
  /\ \E reply \in SUBSET {"write"} : Rearm(c, reply)
  /\ UNCHANGED <<net, state>>

\* End of stream, a socket error, a malformed frame, or a sink that closes the
\* connection it is serving (session Logout).
ReadFails(c) == Reads(c) /\ ReadEnds(c)

-----------------------------------------------------------------------------
(* The other handlers *)

\* The outstanding write completes; the queue behind it is empty.
WriteDone(c) ==
  /\ running /\ "write" \in pending[c]
  /\ pending' = [pending EXCEPT ![c] = @ \ {"write"}]
  /\ UNCHANGED <<net, state, id, age, accepting, timer, running>>

\* The outstanding write fails: close(), whatever has happened to c meanwhile.
WriteFails(c) ==
  /\ running /\ "write" \in pending[c]
  /\ close({c})
  /\ pending' = [pending EXCEPT ![c] = @ \ {"write"}]
  /\ UNCHANGED <<id, age, accepting, timer, running>>

\* A read handler that was outstanding when its peer was closed: an error calls
\* close() again; a partial frame touches the peer and starts one more read.
LateRead(c) ==
  /\ running /\ state[c] = "closed" /\ "read" \in pending[c]
  /\ \/ ReadEnds(c)
     \/ /\ Rearm(c, {})
        /\ UNCHANGED <<net, state>>

\* A handler of another connection closes c (the older login of an account).
SinkCloses(c) ==
  /\ running /\ state[c] = "connected"
  /\ close({c})
  /\ UNCHANGED <<id, age, pending, accepting, timer, running>>

\* The last reference to a closed peer is dropped.
Destroyed(c) ==
  /\ running /\ state[c] = "closed" /\ pending[c] = {}
  /\ state' = [state EXCEPT ![c] = "none"]
  /\ id' = [id EXCEPT ![c] = 0]
  /\ age' = [age EXCEPT ![c] = 0]
  /\ UNCHANGED <<net, pending, accepting, timer, running>>

-----------------------------------------------------------------------------
(* The inactivity timer *)

Tick ==
  /\ running
  /\ age' = [c \in Conn |-> IF Open(c) /\ age[c] <= Timeout THEN age[c] + 1 ELSE age[c]]
  /\ timer' = IF timer = "armed" THEN "due" ELSE timer
  /\ UNCHANGED <<net, state, id, pending, accepting, running>>

Stale == {c \in OpenConns : age[c] > Timeout}

\* Mutant: the timer is not started again.
check_timeouts_Once ==
  /\ running /\ timer = "due"
  /\ close(Stale)
  /\ timer' = "off"
  /\ UNCHANGED <<id, age, pending, accepting, running>>

check_timeouts ==
  /\ running /\ timer = "due"
  /\ close(Stale)
  /\ timer' = "armed"
  /\ UNCHANGED <<id, age, pending, accepting, running>>

-----------------------------------------------------------------------------
(* The event_sink's use of the groups: it only adds connected clients. *)

SinkCreatesGroup ==
  /\ CanAllocate(net)
  /\ net' = create_p2p_group(net)

SinkJoins == \E g \in net.groups, h \in net.up : net' = join_p2p_group(net, g, h)
SinkLeaves == \E g \in net.groups, h \in net.up : net' = leave_p2p_group(net, g, h)
SinkDestroysGroup == \E g \in net.groups : net' = destroy_p2p_group(net, {g})

SinkGroupStep ==
  /\ running
  /\ SinkCreatesGroup \/ SinkJoins \/ SinkLeaves \/ SinkDestroysGroup
  /\ UNCHANGED <<state, id, age, pending, accepting, timer, running>>

\* main's signal handler: server::stop, then io_context::stop: no handler runs again.
stop ==
  /\ running
  /\ close(OpenConns)
  /\ accepting' = FALSE
  /\ timer' = "off"
  /\ running' = FALSE
  /\ UNCHANGED <<id, age, pending>>

Stopped == ~running /\ UNCHANGED vars

Next ==
  \/ \E c \in Conn :
       \/ Accept(c) \/ on_public_key(c) \/ on_connection_request(c)
       \/ Receive(c) \/ ReadFails(c) \/ LateRead(c)
       \/ WriteDone(c) \/ WriteFails(c) \/ SinkCloses(c) \/ Destroyed(c)
  \/ AcceptFails \/ Tick \/ check_timeouts \/ SinkGroupStep \/ stop \/ Stopped

Spec == Init /\ [][Next]_vars

\* Time passes, and the io_context runs the handler of an expired timer.
FairSpec == Spec /\ WF_vars(Tick) /\ WF_vars(check_timeouts)

-----------------------------------------------------------------------------
(* Properties *)

\* HostIDs of clients and groups come from one pool (allocate_host_id,
\* release_host_id) that loses no id, never holds one twice, never gives an id in
\* use to somebody else and never gives out the skipped id.
IdsPartitioned == Partitioned(net)

\* m_peers holds exactly the open peers, each under an id of its own, also while
\* closed peers that had the same id still have handlers outstanding.
PeersIndexed ==
  /\ net.peers = Ids(OpenConns)
  /\ net.up = Ids(UpConns)
  /\ \A c, d \in OpenConns : id[c] = id[d] => c = d

\* The MemberJoin and MemberLeave notices a connected client has been sent add up
\* to the membership of the groups it is in, in spite of clients that vanish and
\* of ids that come back as another client or another group.
GroupViewAccurate == ToldIsTrue(net) /\ MembersConnected(net)

\* A client that addresses unreliable race traffic to a group it was told of
\* reaches the members it was told of, all of them and nobody else.
GroupTrafficReachesMembers ==
  \A h \in net.up : \A p \in net.told[h] :
    relay_unreliable(net, h, {p[1]}) = {q[2] : q \in {q \in net.told[h] : q[1] = p[1]}} \ {h}

\* The same of reliable traffic, which server.hpp says the client also addresses
\* to the group ("addresses all CLPE traffic to the group HostID").
ReliableTrafficReachesMembers ==
  \A h \in net.up : \A p \in net.told[h] :
    relay_reliable(net, h, {p[1]}) = {q[2] : q \in {q \in net.told[h] : q[1] = p[1]}} \ {h}

\* No peer stays open and silent for ever: the timer keeps being re-armed and
\* reaps peers stuck in the handshake as well as half-open connections.
NoSilentPeer == \A c \in Conn : []<>(~Open(c) \/ age[c] = 0)

\* Who holds HostID h: the open peer objects that think it is theirs, and the group
\* of that name.
HoldersOf(h) ==
  {c \in Conn : Open(c) /\ id[c] = h} \cup (IF h \in net.groups THEN {<<"group">>} ELSE {})

Lease == INSTANCE IdLease WITH
  Id <- HostId, Reserved <- SkippedId, Holder <- Conn \cup {<<"group">>},
  holders <- [h \in HostId |-> HoldersOf(h)]

\* The server implements the lease of HostIDs: whatever order connections, groups
\* and late handlers of closed peers come in, an id changes hands only by way of
\* being free, and m_free_ids with m_next_id never lend an id that is out.
HostIdsLeased == Lease!Spec
=============================================================================
