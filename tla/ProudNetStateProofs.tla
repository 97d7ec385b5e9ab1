------------------------ MODULE ProudNetStateProofs ------------------------
(***************************************************************************)
(* Lemmas about the operations of ProudNetState, for every pool of HostIDs:  *)
(* each keeps the tables sound. The proofs about the servers that are built  *)
(* on these tables rest on them.                                             *)
(***************************************************************************)
EXTENDS ProudNetState, TLAPS, WellFoundedInduction

-----------------------------------------------------------------------------
(* The HostID allocator *)

\* The lowest element std::set::begin returns exists: a non-empty set of naturals
\* contains its minimum.
LEMMA MinInSet ==
  ASSUME NEW S, S \subseteq Nat, S # {}
  PROVE  Min(S) \in S
<1> DEFINE R == {ss \in Nat \X Nat : ss[1] < ss[2]}
<1>1. IsWellFoundedOn(R, Nat)
  BY NatLessThanWellFounded, Zenon DEF OpToRel
<1>2. PICK x \in S : \A y \in S : ~ (<<y, x>> \in R)
  BY <1>1, WFMin
<1>3. ASSUME NEW y \in S
      PROVE  x =< y
  <2>1. ~ (<<y, x>> \in R)
    BY <1>2
  <2>2. x \in Nat /\ y \in Nat
    OBVIOUS
  <2>3. y < x => <<y, x>> \in R
    BY <2>2
  <2> QED
    BY <2>1, <2>2, <2>3
<1> QED
  BY <1>3 DEF Min

\* The allocator's part of the state is sound.
AllocInv(n) ==
  /\ n \in NetType
  /\ n.next >= host_id_first_client
  /\ Partitioned(n)

\* allocate_host_id returns an id nobody has, and accounts for it: only the new id
\* is missing from the tables afterwards.
LEMMA AllocationIsFresh ==
  ASSUME NEW n, AllocInv(n), CanAllocate(n)
  PROVE  LET a == AllocatedId(n)
             m == allocate_host_id(n)
         IN  /\ a \in HostId
             /\ a \notin n.peers \cup n.groups \cup m.free
             /\ m \in NetType
             /\ m.next >= host_id_first_client
             /\ m.peers = n.peers /\ m.up = n.up /\ m.groups = n.groups
             /\ m.members = n.members /\ m.told = n.told
             /\ m.free \subseteq n.free
             /\ n.peers \cup n.groups \cup m.free \cup {a} = IssuedIds(m)
<1> DEFINE a == AllocatedId(n)
           m == allocate_host_id(n)
<1> USE HostIdAssumption
<1>1. CASE n.free # {}
  <2>1. n.free \subseteq Nat
    BY DEF AllocInv, NetType, HostId
  <2>2. a \in n.free
    BY <1>1, <2>1, MinInSet DEF AllocatedId
  <2>3. m = [n EXCEPT !.free = n.free \ {a}]
    BY <1>1 DEF allocate_host_id
  <2>4. /\ m \in NetType /\ m.next = n.next
        /\ m.peers = n.peers /\ m.up = n.up /\ m.groups = n.groups
        /\ m.members = n.members /\ m.told = n.told /\ m.free = n.free \ {a}
    BY <2>3 DEF AllocInv, NetType
  <2> HIDE DEF a, m
  <2> QED
    BY <2>2, <2>4 DEF AllocInv, Partitioned, IssuedIds, NetType, a, m
<1>2. CASE n.free = {}
  <2>1. a = IF n.next = SkippedId THEN n.next + 1 ELSE n.next
    BY <1>2 DEF AllocatedId
  <2>2. m = [n EXCEPT !.next = a + 1]
    BY <1>2 DEF allocate_host_id
  <2>3. n.next \in Nat /\ a \in Nat /\ a <= MaxHostId /\ a >= n.next /\ a # SkippedId
    BY <2>1 DEF AllocInv, NetType, CanAllocate
  <2>4. /\ m \in NetType /\ m.next = a + 1
        /\ m.peers = n.peers /\ m.up = n.up /\ m.groups = n.groups
        /\ m.members = n.members /\ m.told = n.told /\ m.free = n.free
    BY <2>2, <2>3 DEF AllocInv, NetType
  <2> HIDE DEF a, m
  <2>5. a \in HostId
    BY <2>3 DEF AllocInv, HostId
  <2>6. a \notin IssuedIds(n)
    BY <2>3 DEF IssuedIds
  <2>7. IssuedIds(m) = IssuedIds(n) \cup {a}
    BY <2>1, <2>3, <2>4 DEF IssuedIds, AllocInv
  <2> QED
    BY <2>3, <2>4, <2>5, <2>6, <2>7, <1>2 DEF AllocInv, Partitioned, a, m
<1> QED
  BY <1>1, <1>2

-----------------------------------------------------------------------------
(* The tables *)

\* The inductive invariant of the tables while the peers C are being closed:
\* they are no longer up, but still registered and perhaps still in groups.
Sound(n, C) ==
  /\ AllocInv(n)
  /\ n.up \subseteq n.peers
  /\ n.up \cap C = {}
  /\ \A g \in HostId : /\ n.members[g] \subseteq n.up \cup C
                       /\ g \notin n.groups => n.members[g] = {}
  /\ ToldIsTrue(n)
  /\ \A h \in HostId : h \notin n.up \cup C => n.told[h] = {}

\* The tables server::start begins with are sound.
LEMMA EmptySound == Sound(EmptyNet, {})
<1>1. EmptyNet \in NetType
  BY HostIdAssumption DEF EmptyNet, NetType
<1>2. Partitioned(EmptyNet)
  BY HostIdAssumption DEF EmptyNet, Partitioned, IssuedIds
<1> QED
  BY <1>1, <1>2, HostIdAssumption DEF EmptyNet, Sound, AllocInv, ToldIsTrue

\* server::accept: a new peer keeps the tables sound.
LEMMA AddPeerSound ==
  ASSUME NEW n, Sound(n, {}), CanAllocate(n)
  PROVE  /\ Sound(AddPeer(n), {})
         /\ AllocatedId(n) \in HostId \ (n.peers \cup n.groups \cup {SkippedId})
         /\ AddPeer(n).peers = n.peers \cup {AllocatedId(n)}
         /\ AddPeer(n).up = n.up
         /\ AddPeer(n).groups = n.groups
         /\ AddPeer(n).members = n.members
<1> DEFINE a == AllocatedId(n)
           m == allocate_host_id(n)
           r == AddPeer(n)
<1>1. AllocInv(n)
  BY DEF Sound
<1>2. /\ a \in HostId /\ a \notin n.peers \cup n.groups \cup m.free
      /\ m \in NetType /\ m.next >= host_id_first_client
      /\ m.peers = n.peers /\ m.up = n.up /\ m.groups = n.groups
      /\ m.members = n.members /\ m.told = n.told /\ m.free \subseteq n.free
      /\ n.peers \cup n.groups \cup m.free \cup {a} = IssuedIds(m)
  BY <1>1, AllocationIsFresh
<1>3. r = [m EXCEPT !.peers = m.peers \cup {a}]
  BY DEF AddPeer
<1> HIDE DEF a, m, r
<1>4. /\ r \in NetType
      /\ r.peers = n.peers \cup {a} /\ r.up = n.up /\ r.groups = n.groups
      /\ r.members = n.members /\ r.told = n.told /\ r.free = m.free /\ r.next = m.next
  BY <1>2, <1>3 DEF NetType
<1>5. AllocInv(r)
  BY <1>1, <1>2, <1>4 DEF AllocInv, Partitioned, IssuedIds
<1>6. ToldIsTrue(r)
  BY <1>4 DEF Sound, ToldIsTrue
<1>7. Sound(r, {})
  BY <1>4, <1>5, <1>6 DEF Sound
<1>8. a # SkippedId
  BY <1>2 DEF IssuedIds
<1> QED
  BY <1>2, <1>4, <1>7, <1>8 DEF a, r

\* create_p2p_group: a new group is empty, whoever had its id before.
LEMMA CreateGroupSound ==
  ASSUME NEW n, Sound(n, {}), CanAllocate(n)
  PROVE  /\ Sound(create_p2p_group(n), {})
         /\ AllocatedId(n) \in HostId \ (n.peers \cup n.groups \cup {SkippedId})
         /\ create_p2p_group(n).peers = n.peers
         /\ create_p2p_group(n).up = n.up
         /\ create_p2p_group(n).groups = n.groups \cup {AllocatedId(n)}
         /\ create_p2p_group(n).members = n.members
<1> DEFINE a == AllocatedId(n)
           m == allocate_host_id(n)
           r == create_p2p_group(n)
<1>1. AllocInv(n)
  BY DEF Sound
<1>2. /\ a \in HostId /\ a \notin n.peers \cup n.groups \cup m.free
      /\ m \in NetType /\ m.next >= host_id_first_client
      /\ m.peers = n.peers /\ m.up = n.up /\ m.groups = n.groups
      /\ m.members = n.members /\ m.told = n.told /\ m.free \subseteq n.free
      /\ n.peers \cup n.groups \cup m.free \cup {a} = IssuedIds(m)
  BY <1>1, AllocationIsFresh
<1>3. r = [m EXCEPT !.groups = m.groups \cup {a}]
  BY DEF create_p2p_group
<1> HIDE DEF a, m, r
<1>4. /\ r \in NetType
      /\ r.peers = n.peers /\ r.up = n.up /\ r.groups = n.groups \cup {a}
      /\ r.members = n.members /\ r.told = n.told /\ r.free = m.free /\ r.next = m.next
  BY <1>2, <1>3 DEF NetType
<1>5. AllocInv(r)
  BY <1>1, <1>2, <1>4 DEF AllocInv, Partitioned, IssuedIds
<1>6. ToldIsTrue(r)
  BY <1>4 DEF Sound, ToldIsTrue
<1>7. Sound(r, {})
  BY <1>4, <1>5, <1>6 DEF Sound
<1>8. a # SkippedId
  BY <1>2 DEF IssuedIds
<1> QED
  BY <1>2, <1>4, <1>7, <1>8 DEF a, r

\* join_p2p_group of a connected client: the notices bring the newcomer and the
\* members it finds to the same view.
LEMMA JoinGroupSound ==
  ASSUME NEW n, Sound(n, {}), NEW g \in HostId, NEW c \in n.up
  PROVE  /\ Sound(join_p2p_group(n, g, c), {})
         /\ join_p2p_group(n, g, c).peers = n.peers
         /\ join_p2p_group(n, g, c).up = n.up
         /\ join_p2p_group(n, g, c).groups = n.groups
         /\ \A x \in HostId : join_p2p_group(n, g, c).members[x] =
              IF x = g /\ g \in n.groups THEN n.members[x] \cup {c} ELSE n.members[x]
<1> DEFINE all == n.members[g] \cup {c}
           news == [h \in HostId |-> IF h = c THEN all ELSE IF h \in all THEN {c} ELSE {}]
           r == join_p2p_group(n, g, c)
<1>1. CASE g \notin n.groups \/ c \notin n.peers \/ c \in n.members[g]
  <2>1. r = n
    BY <1>1 DEF join_p2p_group
  <2>2. c \in n.peers
    BY DEF Sound
  <2>3. g \in n.groups => n.members[g] \cup {c} = n.members[g]
    BY <1>1, <2>2
  <2> QED
    BY <2>1, <2>3
<1>2. CASE ~ (g \notin n.groups \/ c \notin n.peers \/ c \in n.members[g])
  <2>1. n \in NetType /\ c \in HostId /\ all \in SUBSET HostId
    BY DEF Sound, AllocInv, NetType
  <2>2. /\ r \in NetType
        /\ r.peers = n.peers /\ r.up = n.up /\ r.groups = n.groups
        /\ r.free = n.free /\ r.next = n.next
        /\ r.members = [n.members EXCEPT ![g] = all]
        /\ r.told = [h \in HostId |->
             IF h \in n.up THEN n.told[h] \cup {<<g, x>> : x \in news[h]} ELSE n.told[h]]
    <3> DEFINE q == [n EXCEPT !.members = [n.members EXCEPT ![g] = all]]
               T == [h \in HostId |->
                      IF h \in n.up THEN n.told[h] \cup {<<g, x>> : x \in news[h]} ELSE n.told[h]]
    <3>1. /\ q \in NetType /\ q.peers = n.peers /\ q.up = n.up /\ q.groups = n.groups
          /\ q.free = n.free /\ q.next = n.next /\ q.told = n.told
          /\ q.members = [n.members EXCEPT ![g] = all]
      BY <2>1 DEF NetType
    <3>2. r = notify_group_member_join(q, g, news)
      BY <1>2, <2>1 DEF join_p2p_group, NetType
    <3> HIDE DEF q
    <3>3. r = [q EXCEPT !.told = T]
      BY <3>1, <3>2 DEF notify_group_member_join
    <3>4. T \in [HostId -> SUBSET Pair]
      BY <2>1 DEF NetType, Pair
    <3> HIDE DEF T, all, news
    <3>5. /\ r \in NetType /\ r.peers = q.peers /\ r.up = q.up /\ r.groups = q.groups
          /\ r.free = q.free /\ r.next = q.next /\ r.members = q.members /\ r.told = T
      BY <3>1, <3>3, <3>4 DEF NetType
    <3> QED
      BY <3>1, <3>5 DEF T, all, news
  <2> HIDE DEF r
  <2>3. AllocInv(r)
    BY <2>2 DEF Sound, AllocInv, Partitioned, IssuedIds
  <2>4. \A x \in HostId : r.members[x] = IF x = g THEN all ELSE n.members[x]
    BY <2>1, <2>2 DEF NetType
  <2>5. ASSUME NEW h \in n.up
        PROVE  r.told[h] = {p \in Pair : h \in r.members[p[1]] /\ p[2] \in r.members[p[1]]}
    <3>1. n.told[h] = {p \in Pair : h \in n.members[p[1]] /\ p[2] \in n.members[p[1]]}
      BY DEF Sound, ToldIsTrue
    <3>2. h \in HostId
      BY <2>1 DEF NetType
    <3>3. r.told[h] = n.told[h] \cup {<<g, x>> : x \in news[h]}
      BY <2>2, <3>2
    <3>4. news[h] = IF h = c THEN all ELSE IF h \in all THEN {c} ELSE {}
      BY <3>2
    <3> HIDE DEF all, news
    <3>5. c \notin n.members[g]
      BY <1>2
    <3>6. all = n.members[g] \cup {c}
      BY DEF all
    <3> QED
      BY <2>1, <2>4, <3>1, <3>2, <3>3, <3>4, <3>5, <3>6 DEF Pair
  <2>6. ToldIsTrue(r)
    BY <2>2, <2>5 DEF ToldIsTrue
  <2> QED
    BY <1>2, <2>1, <2>2, <2>3, <2>4, <2>6, ZenonT(60) DEF Sound, r
<1> QED
  BY <1>1, <1>2

\* What a connected client h still knows after the members M have left the groups G.
Kept(n, h, G, M) ==
  {p \in n.told[h] : ~ (h \in n.members[p[1]] /\ Forgets(h, p, G, M \cap n.members[p[1]]))}

\* The tables after the members M have left the groups G, field by field.
LEMMA LeaveGroupsFields ==
  ASSUME NEW n \in NetType, NEW G, NEW M
  PROVE  LET r == LeaveGroups(n, G, M)
         IN  /\ r \in NetType
             /\ r.peers = n.peers /\ r.up = n.up /\ r.groups = n.groups
             /\ r.free = n.free /\ r.next = n.next
             /\ \A g \in HostId : r.members[g] = IF g \in G THEN n.members[g] \ M ELSE n.members[g]
             /\ \A h \in HostId : r.told[h] =
                  IF h \in n.up THEN Kept(n, h, G, M) ELSE n.told[h]
<1> DEFINE T == [h \in HostId |->
                  IF h \in n.up THEN Kept(n, h, G, M) ELSE n.told[h]]
           W == [g \in HostId |-> IF g \in G THEN n.members[g] \ M ELSE n.members[g]]
           q == notify_group_member_leave(n, G, M)
           r == LeaveGroups(n, G, M)
<1>1. q = [n EXCEPT !.told = T]
  BY DEF notify_group_member_leave, Kept
<1>2. T \in [HostId -> SUBSET Pair] /\ W \in [HostId -> SUBSET HostId]
  BY DEF NetType, Kept
<1>3. q.members = n.members
  BY <1>1 DEF NetType
<1>4. r = [q EXCEPT !.members = W]
  BY <1>3 DEF LeaveGroups
<1>5. /\ \A g \in HostId : W[g] = IF g \in G THEN n.members[g] \ M ELSE n.members[g]
      /\ \A h \in HostId : T[h] =
           IF h \in n.up THEN Kept(n, h, G, M) ELSE n.told[h]
  OBVIOUS
<1> HIDE DEF T, W, q, r
<1>6. /\ q \in NetType /\ q.peers = n.peers /\ q.up = n.up /\ q.groups = n.groups
      /\ q.free = n.free /\ q.next = n.next /\ q.told = T
  BY <1>1, <1>2 DEF NetType
<1>7. /\ r \in NetType /\ r.peers = n.peers /\ r.up = n.up /\ r.groups = n.groups
      /\ r.free = n.free /\ r.next = n.next /\ r.told = T /\ r.members = W
  BY <1>2, <1>4, <1>6 DEF NetType
<1> QED
  BY <1>5, <1>7 DEF r

\* Leaving groups keeps the tables sound: those who stay and those who go are
\* notified of exactly what changes for them.
LEMMA LeaveGroupsSound ==
  ASSUME NEW n, NEW C, Sound(n, C), NEW G, NEW M
  PROVE  /\ Sound(LeaveGroups(n, G, M), C)
         /\ LeaveGroups(n, G, M).peers = n.peers
         /\ LeaveGroups(n, G, M).up = n.up
         /\ LeaveGroups(n, G, M).groups = n.groups
         /\ \A g \in HostId : LeaveGroups(n, G, M).members[g] =
                              IF g \in G THEN n.members[g] \ M ELSE n.members[g]
<1> DEFINE r == LeaveGroups(n, G, M)
<1>1. n \in NetType
  BY DEF Sound, AllocInv
<1>2. /\ r \in NetType
      /\ r.peers = n.peers /\ r.up = n.up /\ r.groups = n.groups
      /\ r.free = n.free /\ r.next = n.next
      /\ \A g \in HostId : r.members[g] = IF g \in G THEN n.members[g] \ M ELSE n.members[g]
      /\ \A h \in HostId : r.told[h] =
           IF h \in n.up THEN Kept(n, h, G, M) ELSE n.told[h]
  BY <1>1, LeaveGroupsFields, SMTT(40)
<1> HIDE DEF r
<1>3. AllocInv(r)
  BY <1>2 DEF Sound, AllocInv, Partitioned, IssuedIds
<1>4. ASSUME NEW h \in n.up
      PROVE  r.told[h] = {p \in Pair : h \in r.members[p[1]] /\ p[2] \in r.members[p[1]]}
  <2>1. n.told[h] = {p \in Pair : h \in n.members[p[1]] /\ p[2] \in n.members[p[1]]}
    BY DEF Sound, ToldIsTrue
  <2>2. h \in HostId
    BY <1>1 DEF NetType
  <2>3. r.told[h] = Kept(n, h, G, M)
    BY <1>2, <2>2
  <2>4. ASSUME NEW p \in Pair
        PROVE  p \in r.told[h] <=> h \in r.members[p[1]] /\ p[2] \in r.members[p[1]]
    <3>1. p[1] \in HostId
      BY DEF Pair
    <3>2. r.members[p[1]] = IF p[1] \in G THEN n.members[p[1]] \ M ELSE n.members[p[1]]
      BY <1>2, <3>1
    <3> QED
      BY <2>1, <2>3, <3>2 DEF Forgets, Kept
  <2>5. r.told[h] \subseteq Pair
    BY <2>1, <2>3 DEF Kept
  <2> QED
    BY <2>4, <2>5
<1>5. ToldIsTrue(r)
  BY <1>2, <1>4 DEF ToldIsTrue
<1>6. ASSUME NEW g \in HostId
      PROVE  /\ r.members[g] \subseteq r.up \cup C
             /\ g \notin r.groups => r.members[g] = {}
  BY <1>2, ZenonT(60) DEF Sound
<1>7. ASSUME NEW h \in HostId, h \notin r.up \cup C
      PROVE  r.told[h] = {}
  BY <1>2, <1>7 DEF Sound
<1>8. r.up \subseteq r.peers /\ r.up \cap C = {}
  BY <1>2 DEF Sound
<1>9. Sound(r, C)
  BY <1>3, <1>5, <1>6, <1>7, <1>8 DEF Sound
<1> QED
  BY <1>2, <1>9 DEF r

\* destroy_p2p_group: the ids of destroyed groups go back to the pool once.
LEMMA DestroyGroupSound ==
  ASSUME NEW n, NEW C, Sound(n, C), NEW G
  PROVE  /\ Sound(destroy_p2p_group(n, G), C)
         /\ destroy_p2p_group(n, G).peers = n.peers
         /\ destroy_p2p_group(n, G).up = n.up
         /\ destroy_p2p_group(n, G).groups = n.groups \ G
         /\ \A g \in HostId : destroy_p2p_group(n, G).members[g] =
                              IF g \in G THEN {} ELSE n.members[g]
<1> DEFINE gone == G \cap n.groups
           q == LeaveGroups(n, gone, HostId)
           r == destroy_p2p_group(n, G)
<1>1. /\ Sound(q, C) /\ q.peers = n.peers /\ q.up = n.up /\ q.groups = n.groups
      /\ \A g \in HostId : q.members[g] =
                           IF g \in gone THEN n.members[g] \ HostId ELSE n.members[g]
  BY LeaveGroupsSound
<1>2. r = [[q EXCEPT !.groups = q.groups \ gone] EXCEPT !.free = q.free \cup gone]
  BY <1>1 DEF destroy_p2p_group, release_host_id, Sound, AllocInv, NetType
<1>3. n \in NetType /\ gone \subseteq HostId /\ gone \subseteq n.groups
  BY DEF Sound, AllocInv, NetType
<1> HIDE DEF q, r, gone
<1>4. /\ r \in NetType
      /\ r.peers = n.peers /\ r.up = n.up /\ r.groups = n.groups \ gone
      /\ r.members = q.members /\ r.told = q.told /\ r.next = q.next
      /\ r.free = q.free \cup gone
  BY <1>1, <1>2, <1>3 DEF Sound, AllocInv, NetType
<1>5. AllocInv(r)
  BY <1>1, <1>3, <1>4 DEF Sound, AllocInv, Partitioned, IssuedIds
<1>6. ToldIsTrue(r)
  BY <1>1, <1>4 DEF Sound, ToldIsTrue
<1>7. ASSUME NEW g \in HostId
      PROVE  /\ r.members[g] \subseteq r.up \cup C
             /\ g \notin r.groups => r.members[g] = {}
             /\ r.members[g] = IF g \in G THEN {} ELSE n.members[g]
  <2>1. n.members[g] \subseteq HostId
    BY <1>3 DEF NetType
  <2>2. r.members[g] = IF g \in gone THEN {} ELSE n.members[g]
    BY <2>1, <1>1, <1>4
  <2>3. n.members[g] \subseteq n.up \cup C /\ (g \notin n.groups => n.members[g] = {})
    BY DEF Sound
  <2> QED
    BY <2>2, <2>3, <1>4 DEF gone
<1>8. \A h \in HostId : h \notin r.up \cup C => r.told[h] = {}
  BY <1>1, <1>4 DEF Sound
<1>9. r.up \subseteq r.peers /\ r.up \cap C = {}
  BY <1>1, <1>4 DEF Sound
<1>10. Sound(r, C)
  BY <1>5, <1>6, <1>7, <1>8, <1>9 DEF Sound
<1>11. n.groups \ gone = n.groups \ G
  BY DEF gone
<1> QED
  BY <1>4, <1>7, <1>10, <1>11 DEF r

\* peer::close marks the peers S: from now on nothing is sent to them.
LEMMA MarkClosedSound ==
  ASSUME NEW n, Sound(n, {}), NEW S \in SUBSET n.peers
  PROVE  /\ Sound(MarkClosed(n, S), S)
         /\ MarkClosed(n, S).peers = n.peers
         /\ MarkClosed(n, S).up = n.up \ S
         /\ MarkClosed(n, S).groups = n.groups
         /\ MarkClosed(n, S).members = n.members
<1> DEFINE r == MarkClosed(n, S)
<1>1. n \in NetType
  BY DEF Sound, AllocInv
<1>2. r = [n EXCEPT !.up = n.up \ S]
  BY DEF MarkClosed
<1> HIDE DEF r
<1>3. /\ r \in NetType
      /\ r.peers = n.peers /\ r.up = n.up \ S /\ r.groups = n.groups
      /\ r.members = n.members /\ r.told = n.told /\ r.next = n.next /\ r.free = n.free
  BY <1>1, <1>2 DEF NetType
<1>4. AllocInv(r)
  BY <1>3 DEF Sound, AllocInv, Partitioned, IssuedIds
<1>5. ToldIsTrue(r)
  BY <1>3 DEF Sound, ToldIsTrue
<1>6. Sound(r, S)
  BY <1>3, <1>4, <1>5 DEF Sound
<1> QED
  BY <1>3, <1>6 DEF r

\* server::on_peer_closed ends the closing of S: the ids go back to the pool once,
\* and whoever gets them next starts without groups.
LEMMA PeerClosedSound ==
  ASSUME NEW n, NEW S, Sound(n, S), S \subseteq n.peers
  PROVE  /\ Sound(on_peer_closed(n, S), {})
         /\ on_peer_closed(n, S).peers = n.peers \ S
         /\ on_peer_closed(n, S).up = n.up
         /\ on_peer_closed(n, S).groups = n.groups
         /\ \A g \in HostId : on_peer_closed(n, S).members[g] = n.members[g] \ S
<1> DEFINE q == LeaveGroups(n, n.groups, S)
           T == [h \in HostId |-> IF h \in S THEN {} ELSE q.told[h]]
           r == on_peer_closed(n, S)
<1>1. /\ Sound(q, S) /\ q.peers = n.peers /\ q.up = n.up /\ q.groups = n.groups
      /\ \A g \in HostId : q.members[g] =
                           IF g \in n.groups THEN n.members[g] \ S ELSE n.members[g]
  BY LeaveGroupsSound
<1>2. q \in NetType /\ n \in NetType /\ S \subseteq HostId
  BY <1>1 DEF Sound, AllocInv, NetType
<1>3. T \in [HostId -> SUBSET Pair]
  BY <1>2 DEF NetType
<1> HIDE DEF q
<1>4. r = [q EXCEPT !.peers = q.peers \ S, !.told = T, !.free = q.free \cup S]
  BY <1>2 DEF on_peer_closed, release_host_id, NetType, q
<1>5. \A h \in HostId : T[h] = IF h \in S THEN {} ELSE q.told[h]
  OBVIOUS
<1> HIDE DEF r, T
<1>6. /\ r \in NetType
      /\ r.peers = n.peers \ S /\ r.up = n.up /\ r.groups = n.groups
      /\ r.members = q.members /\ r.told = T /\ r.next = q.next /\ r.free = q.free \cup S
  BY <1>1, <1>2, <1>3, <1>4 DEF NetType
<1>7. AllocInv(r)
  BY <1>1, <1>2, <1>6 DEF Sound, AllocInv, Partitioned, IssuedIds
<1>8. ToldIsTrue(r)
  BY <1>1, <1>2, <1>5, <1>6 DEF Sound, ToldIsTrue, NetType
<1>9. ASSUME NEW g \in HostId
      PROVE  /\ r.members[g] \subseteq r.up
             /\ g \notin r.groups => r.members[g] = {}
             /\ r.members[g] = n.members[g] \ S
  <2>1. n.members[g] \subseteq n.up \cup S /\ (g \notin n.groups => n.members[g] = {})
    BY DEF Sound
  <2> QED
    BY <2>1, <1>1, <1>6
<1>10. \A h \in HostId : h \notin r.up => r.told[h] = {}
  BY <1>1, <1>5, <1>6 DEF Sound
<1>11. r.up \subseteq r.peers
  BY <1>1, <1>6 DEF Sound
<1>12. Sound(r, {})
  BY <1>7, <1>8, <1>9, <1>10, <1>11 DEF Sound
<1> QED
  BY <1>6, <1>9, <1>12 DEF r

\* The end of the handshake: a peer that becomes connected knows of no group and
\* is in none.
LEMMA ConnectSound ==
  ASSUME NEW n, Sound(n, {}), NEW h \in n.peers
  PROVE  /\ Sound([n EXCEPT !.up = @ \cup {h}], {})
         /\ [n EXCEPT !.up = @ \cup {h}].peers = n.peers
         /\ [n EXCEPT !.up = @ \cup {h}].up = n.up \cup {h}
         /\ [n EXCEPT !.up = @ \cup {h}].groups = n.groups
         /\ [n EXCEPT !.up = @ \cup {h}].members = n.members
<1> DEFINE r == [n EXCEPT !.up = n.up \cup {h}]
<1>1. n \in NetType
  BY DEF Sound, AllocInv
<1>2. /\ r \in NetType
      /\ r.peers = n.peers /\ r.up = n.up \cup {h} /\ r.groups = n.groups
      /\ r.members = n.members /\ r.told = n.told /\ r.next = n.next /\ r.free = n.free
  BY <1>1 DEF NetType
<1> HIDE DEF r
<1>3. AllocInv(r)
  BY <1>2 DEF Sound, AllocInv, Partitioned, IssuedIds
<1>4. ASSUME h \notin n.up
      PROVE  n.told[h] = {p \in Pair : h \in n.members[p[1]] /\ p[2] \in n.members[p[1]]}
  <2>1. h \in HostId
    BY <1>1 DEF NetType
  <2>2. n.told[h] = {}
    BY <1>4, <2>1 DEF Sound
  <2>3. \A p \in Pair : h \notin n.members[p[1]]
    BY <1>4 DEF Sound, Pair
  <2> QED
    BY <2>2, <2>3
<1>5. ToldIsTrue(r)
  BY <1>2, <1>4 DEF Sound, ToldIsTrue
<1>6. Sound(r, {})
  BY <1>2, <1>3, <1>5 DEF Sound
<1> QED
  BY <1>2, <1>6 DEF r
=============================================================================
