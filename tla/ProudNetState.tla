--------------------------- MODULE ProudNetState ---------------------------
(***************************************************************************)
(* The tables of proudnet::server (src/src/proudnet/server.hpp, .cpp) and   *)
(* the operations on them: the HostID allocator, m_peers, and the P2P       *)
(* groups with the MemberJoin / MemberLeave notices they send.              *)
(*                                                                         *)
(* The tables are one record, so that the servers built on this layer can   *)
(* thread them through their own handlers:                                  *)
(*   peers    keys of m_peers                                               *)
(*   up       the peers whose m_state is connected                          *)
(*   groups   keys of m_groups;  members[g] is m_groups[g]                  *)
(*   free     m_free_ids;  next is m_next_id                                *)
(*   told     told[h]: the <<group, member>> pairs client h knows of, from  *)
(*            the notices addressed to it (the TCP stream keeps them in     *)
(*            order, so this is the client's view once it has read them)    *)
(***************************************************************************)
EXTENDS Integers, FiniteSets, FiniteSetsExt

CONSTANTS host_id_first_client, \* the first HostID handed out
          SkippedId,            \* the HostID that is never handed out (50)
          MaxHostId             \* bound on HostIDs

ASSUME HostIdAssumption ==
  /\ host_id_first_client \in Nat \ {0}
  /\ SkippedId \in Nat
  /\ MaxHostId \in Nat

HostId == host_id_first_client .. MaxHostId

Pair == HostId \X HostId

NetType == [peers : SUBSET HostId, up : SUBSET HostId, groups : SUBSET HostId,
            members : [HostId -> SUBSET HostId], free : SUBSET HostId,
            next : Nat, told : [HostId -> SUBSET Pair]]

EmptyNet == [peers |-> {}, up |-> {}, groups |-> {},
             members |-> [g \in HostId |-> {}], free |-> {},
             next |-> host_id_first_client, told |-> [h \in HostId |-> {}]]

-----------------------------------------------------------------------------
(* HostIDs *)

\* The id allocate_host_id returns: the lowest released one, else a new one.
AllocatedId(n) ==
  IF n.free # {} THEN Min(n.free)
  ELSE IF n.next = SkippedId THEN n.next + 1 ELSE n.next

\* Bound: the model stops handing out ids at MaxHostId.
CanAllocate(n) == AllocatedId(n) <= MaxHostId

\* Mutant: the id taken from m_free_ids is not erased from it.
allocate_host_id_NotErased(n) ==
  IF n.free # {} THEN n ELSE [n EXCEPT !.next = AllocatedId(n) + 1]

allocate_host_id(n) ==
  IF n.free # {} THEN [n EXCEPT !.free = @ \ {AllocatedId(n)}]
  ELSE [n EXCEPT !.next = AllocatedId(n) + 1]

release_host_id(n, ids) == [n EXCEPT !.free = @ \cup ids]

-----------------------------------------------------------------------------
(* P2P groups *)

\* A notice reaches a client only if it is connected (server::send).
\* MemberJoin(g, m) to client h: h learns that m is in g.
notify_group_member_join(n, g, news) ==
  [n EXCEPT !.told = [h \in HostId |->
     IF h \in n.up THEN @[h] \cup {<<g, m>> : m \in news[h]} ELSE @[h]]]

\* External client code: a client told of its own leave forgets the group.
Forgets(h, p, G, M) == p[1] \in G /\ (h \in M \/ p[2] \in M)

\* Mutant: a client that leaves is not told of its own leave.
notify_group_member_leave_OthersOnly(n, G, M) ==
  [n EXCEPT !.told = [h \in HostId |->
     IF h \in n.up
     THEN {p \in @[h] : ~ (h \in n.members[p[1]] \ M /\ Forgets(h, p, G, M \cap n.members[p[1]]))}
     ELSE @[h]]]

\* The notices sent when the members M leave the groups G: those who stay
\* hear of each of them, and each of them hears of its own leave.
notify_group_member_leave(n, G, M) ==
  [n EXCEPT !.told = [h \in HostId |->
     IF h \in n.up
     THEN {p \in @[h] : ~ (h \in n.members[p[1]] /\ Forgets(h, p, G, M \cap n.members[p[1]]))}
     ELSE @[h]]]

\* Mutant: the newcomer is not told of the members it finds.
join_p2p_group_OneWay(n, g, m) ==
  IF g \notin n.groups \/ m \notin n.peers \/ m \in n.members[g] THEN n
  ELSE LET all == n.members[g] \cup {m}
       IN  notify_group_member_join([n EXCEPT !.members[g] = all], g,
             [h \in HostId |-> IF h \in all THEN {m} ELSE {}])

join_p2p_group(n, g, m) ==
  IF g \notin n.groups \/ m \notin n.peers \/ m \in n.members[g] THEN n
  ELSE LET all == n.members[g] \cup {m}
       IN  notify_group_member_join([n EXCEPT !.members[g] = all], g,
             [h \in HostId |-> IF h = m THEN all
                               ELSE IF h \in all THEN {m} ELSE {}])

\* The members M leave the groups G, in any order.
LeaveGroups(n, G, M) ==
  [notify_group_member_leave(n, G, M) EXCEPT
     !.members = [g \in HostId |-> IF g \in G THEN @[g] \ M ELSE @[g]]]

leave_p2p_group(n, g, m) == LeaveGroups(n, {g} \cap n.groups, {m})

create_p2p_group(n) ==
  [allocate_host_id(n) EXCEPT !.groups = @ \cup {AllocatedId(n)}]

\* Mutant: the group is emptied but never erased.
destroy_p2p_group_Leaks(n, G) == LeaveGroups(n, G \cap n.groups, HostId)

\* The groups G are emptied, erased and their ids released, in any order.
destroy_p2p_group(n, G) ==
  LET gone == G \cap n.groups
  IN  release_host_id([LeaveGroups(n, gone, HostId) EXCEPT !.groups = @ \ gone], gone)

-----------------------------------------------------------------------------
(* Peers *)

\* Mutant: the peer is registered under an id that was not set yet.
AddPeer_IdUnset(n) == [allocate_host_id(n) EXCEPT !.peers = @ \cup {0}]

\* server::accept registers a new peer under a fresh id.
AddPeer(n) == [allocate_host_id(n) EXCEPT !.peers = @ \cup {AllocatedId(n)}]

\* peer::close marks the peer closed before anything else: it gets no more notices.
MarkClosed(n, S) == [n EXCEPT !.up = @ \ S]

\* The peers S are gone, one after the other: each leaves its groups, its entry
\* is erased and its id released. The next owner of the id knows of no group.
on_peer_closed(n, S) ==
  release_host_id([LeaveGroups(n, n.groups, S) EXCEPT
                     !.peers = @ \ S,
                     !.told = [h \in HostId |-> IF h \in S THEN {} ELSE @[h]]], S)

-----------------------------------------------------------------------------
(* Relay destinations: the clients a message of sender h reaches.          *)

\* server::send drops a message to anything but a connected client.
Reachable(n, ids) == ids \cap n.up

\* Mutant: the sender gets its own message back.
for_each_destination_Echo(n, h, dest) ==
  IF dest \in n.groups THEN n.members[dest] ELSE {dest}

for_each_destination(n, h, dest) ==
  IF dest \in n.groups THEN n.members[dest] \ {h} ELSE {dest}

relay_unreliable(n, h, dests) ==
  Reachable(n, UNION {for_each_destination(n, h, d) : d \in dests})

relay_reliable(n, h, dests) == Reachable(n, dests)

relay_reliable_udp_frame(n, h, dest) == Reachable(n, {dest})

-----------------------------------------------------------------------------
(* Invariants of the tables, for the specifications built on them. *)

IssuedIds(n) == (host_id_first_client .. (n.next - 1)) \ {SkippedId}

\* Every id handed out so far is a peer, a group or free, and never two of them.
Partitioned(n) ==
  /\ n.peers \cup n.groups \cup n.free = IssuedIds(n)
  /\ n.peers \cap n.groups = {}
  /\ n.peers \cap n.free = {}
  /\ n.groups \cap n.free = {}

\* Only connected peers are members, and only groups have members.
MembersConnected(n) ==
  \A g \in HostId : /\ n.members[g] \subseteq n.up
                    /\ g \notin n.groups => n.members[g] = {}

\* What a connected client has been told is the membership of its own groups.
ToldIsTrue(n) ==
  \A h \in n.up :
    n.told[h] = {p \in Pair : h \in n.members[p[1]] /\ p[2] \in n.members[p[1]]}
=============================================================================
