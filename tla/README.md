# Verification of the Hovorun server

TLA+ models of the server in `src/src/`, model-checked with TLC on small instances; the safety
properties of the passing runs are also proved with TLAPS, for every value of the constants.
`PROJECT.json` lists components, runs, mutants, the map from definitions to source lines,
findings, hazards and theorems.

## The system

One process, one thread. An asio `io_context` runs completion handlers one after the other:
socket accepts, reads, writes, timers and a signal. Nothing is preempted, but between two
handlers anything may happen: a client vanishes, a write fails, a timer expires, another
client's handler closes this client's connection. That is where the difficulty lies.

| Part | State | Operations | Talks to |
|---|---|---|---|
| `proudnet::server` | `m_peers`, `m_groups`, `m_free_ids`, `m_next_id`, timer, acceptor | accept, timeouts, stop, HostID allocation, P2P groups, relay | calls its `event_sink` (`on_client_join/leave`, `on_rmi`); called back by it (`send`, `find`, groups) |
| `proudnet::peer` | `m_state`, write queue, session key, serials, parser, `m_last_receive` | handshake, read loop, send, close | its server; kept alive by outstanding handlers |
| `net::frame_parser` | partial frame | `feed`, `next` | the peer's read loop |
| `game::game_server` | `m_players`, `m_rooms`, `m_next_room_number` | login, channels, rooms, race start | its own `proudnet::server`, the account store |
| `session::session_server` | `m_online`, `user_data` | login, nation, logout | its own `proudnet::server`, the account store |
| `messenger::messenger_server` | `m_users`, `m_friendships`, pending requests | login, friends, whispers, invitations, mail | its own `proudnet::server`, the account store |
| `app::account_store` | accounts in memory and in a text file | `login` (registers), `find` | called by the three servers |
| `main` | – | start-up, signal handler | stops the servers and the `io_context` |
| codec, crypto, configuration, log | none that lasts | | |

What makes each of them correct:

* **ProudNet layer.** Clients and groups share one pool of HostIDs, reused lowest first.
  No id may be lost, doubled or given out while in use; `m_peers` must hold the open peers
  only, although handlers of closed peers still run and call `close()` again; what the
  notices told a client about its groups must be the truth, because the client routes race
  traffic by it; silent peers must be reaped.
* **Peer stream.** Both sides end up with one session key; one write at a time; each
  direction is a reliable channel, although encrypted messages are numbered and dropped on
  a wrong number and handlers may throw; a stream cut anywhere yields the same frames, and
  a relayed text stays what it was.
* **Game server.** `m_players`, the seats of a room, `m_rooms` and the P2P group say the
  same thing four times; the master's seat is taken; each member's client has the right
  picture of its room; what is said is heard by those it is meant for.
* **Session server, account store.** The online table follows the connections although ids
  come back; accounts whose lines are in the file as they should be keep their numbers over a
  restart, whatever is written after them, and a login accepted by one server is good for
  the other two.
* **Messenger.** Friendships are kept for both sides; presence is told by single notices.

## Modules

| Module | Models |
|---|---|
| `ProudNetState` | the tables of `proudnet::server` as one record, and the operations on them; used by all servers |
| `ProudNetServer` | `proudnet::server` and the life of a peer; one action per completion handler |
| `IdLease` | abstract: ids are leased to one holder at a time |
| `Crypto` | `bigint`, the key blobs, PKCS#1 padding, RC4; operators only |
| `PeerStream` | `proudnet::peer` on one connection: handshake, `send`, `write_next`, `read_loop`, `on_encrypted` |
| `Channel` | abstract: what is delivered is a prefix of what was sent |
| `Codec` | scalars, strings and their conversions; operators only |
| `FrameParser` | `make_frame`, `frame_parser::next`, the draining loop of `read_loop`, and a handler that relays a text |
| `GameServer` | `game_server` on the tables of `ProudNetState` |
| `AccountStore` | `account_store` and its file |
| `SessionServer` | `session_server` with the account store and the tables |
| `Logins` | the session server and the logins of the two others over one account store |
| `MessengerServer` | `messenger_server` on the tables |
| `ProudNetStateProofs` | lemmas on the tables, cited by the proofs of all servers |
| `GameWorldProofs` | lemmas on the handlers of `GameServer`: what they do to the tables |
| `ProudNetProofs`, `PeerStreamProofs`, `FrameProofs`, `GameProofs`, `MessengerProofs`, `LoginsProofs` | the theorems about `ProudNetServer`, `PeerStream`, `FrameParser` (with `Codec`), `GameServer`, `MessengerServer` and `Logins` (with `SessionServer` and `AccountStore`) |
| `MCProudNet`, `MCStream`, `MCFrame`, `MCGame`, `MCSession`, `MCLogins`, `MCMessenger` | symmetry sets and constants for TLC |

**Tables (`ProudNetState`).** A record `net` with `peers` (keys of `m_peers`), `up` (those
whose state is `connected`), `groups` and `members` (`m_groups`), `free` (`m_free_ids`),
`next` (`m_next_id`) and `told`: for each client the pairs of group and member it knows from
the `P2PGroup_MemberJoin` and `MemberLeave` notices sent to it. Because one TCP stream
carries them in order, `told` is what the client knows once it has read them. That a client
forgets a group when told of its own leave is the client's behaviour and marked external.
Sets of members leaving at once (`LeaveGroups`, `on_peer_closed`) stand for the loops of the
code, whose order does not show in the result.

**`ProudNetServer`.** `Accept`, `on_public_key`, `on_connection_request`, `Receive`,
`ReadFails`, `WriteDone`, `WriteFails`, `check_timeouts`, `stop` are the handlers.
`state`, `id`, `age` belong to peer *objects* (`Conn`), not to HostIDs: an object stays
while handlers are outstanding (`pending`), `LateRead` and `WriteFails` run on closed
objects, and `Destroyed` drops it. `Receive` stands for everything that only answers.
`SinkGroupStep` and `SinkCloses` are what the game logic does to the tables: it adds
connected clients to groups, takes them out, makes and destroys groups, closes clients.
`close` includes `on_client_leave`, in which the sink may destroy groups left empty.

**`GameServer`.** Handlers are operators from a record of all tables to the record they
leave (`remove_from_room`, `join_room`, `logon`, ...); each action runs one of them for one
connected client with any arguments, and its guards are the handler's early returns.
Rooms are objects with an identity, since a `shared_ptr` held by a player outlives the
entry in `m_rooms`. `view[h]` is the room as client `h` was told: the snapshot of
`Enter_Room` changed by the notices after it. The four settings the master can change are
one value, and so are a player's avatar and comment (its `look`). The handshake is one step
(`Connect`); its own interleavings are those of `ProudNetServer`. The chat handlers keep no
state: `lobby_chat`, `room_chat` and `whisper_chat` are the sets of clients a line reaches.
`Strays` is what `gm_kick` may find in a room that it has freed while reading it: any
HostID. `CloseSlots`, `Ready`, `Look`, `Setting` and `Password` are the arguments a run
lets clients use. `AllowSeatedRelogon` and `AllowSoleRejoin` admit two sequences of requests after
which the tables disagree (see Findings); the passing runs leave them out.

**`AccountStore`.** Names, passwords and the file are sequences of characters, of which three
kinds matter: letters (any stretch of text without white space), the blank, which `login`
looks for, and all other white space (`newline`; a tab is as good), which it does not, but at
which `operator>>` stops all the same. `Take` is the reader, one character at a time: it
skips white space, so an empty word is not seen, and a word that has no end yet joins with what
is appended. `Load` is the constructor. `Register` writes the line of `login` raw; as nobody
looks at the outcome, any beginning of it may be what reaches the file (`AppendFails`), down
to nothing. Two variables remember what the properties need: `lasting` the users whose line, and
all before it, was written in full and has two words; `intact` that all lines are such lines.
A restart reads them off the file (`Complete`, `Whole`).

**`SessionServer`** composes the account store, the tables and `m_online`; `superseded` is
the set of connections that were sent `Forced_Close` since they logged in. `Restart` ends
the process and starts it with the file. `AllowOtherLogon` admits logins as another user on
the same connection.

**`Logins`** extends it by the other two servers as the account store sees them: the game
server asks `login` and then `find`, the messenger `find` and then `login`. `accepted`
holds the logins answered with ok, with the number the client was told, `snubs` counts the
refusals of the messenger that the store had accepted.

**`MessengerServer`.** As `GameServer`; `view[h]` holds whom the client was told it is
logged in as, its friends, and which of them are online. `AllowRelogon` admits a second
login on one connection.

**`PeerStream`** is one connection from `start` to `close`. The server's side is translated
from `server.cpp`: the four states, the session key, both serials, the queue, the read loop
with its `catch`. `out.writes` is a sequence so that two writes at once can be expressed and
shown not to happen. A message is a type and the bytes after it as far as they matter; the
ones that go into an encrypted message are really encrypted, with the key that went through
`Crypto`. The client is external: `ClientShakes`, `ClientCalls` and `ClientWraps` send its
messages, `ClientGets` is what it makes of a frame. Nobody in `src/` sends encrypted at
present; `SinkSends` lets the sinks do so because `send` is written for it. `Receive` takes
one message; that a read may bring several, or part of one, is `FrameParser`'s subject.

**`Crypto`** has the sizes as constants: `ByteBits` (8 in the code), `LimbBytes` (4) and
`MinPadding` (8). The algorithms do not depend on them beyond being written in terms of
them; carries, borrows, trimming, padding and the key schedule are all there.

**`Channel`** and **`IdLease`** are the abstract specifications, see Refinements.

**`FrameParser`** and **`Codec`.** Bytes are modelled as they are; the payloads look like
headers on purpose. A frame may carry a string, which a handler reads and writes again
(`Relay`): the path of every chat line, nickname and comment. The loops are functions over the
positions of a string or the turns of the read handler.

## Runs

| Run | Instance | Shows |
|---|---|---|
| `proudnet` | 2 peer objects, ids 3..7 without 5, timeout 1 | `IdsPartitioned`, `PeersIndexed`, `GroupViewAccurate`, `GroupTrafficReachesMembers`; `HostIdsLeased` (refinement) |
| `proudnet_live` | 2 peer objects, ids 3..4 | `NoSilentPeer` |
| `reliable_relay` | as `proudnet` | violated: reliable traffic to a group reaches nobody |
| `stream` | 3 clients (one that may send a short or a broken key before its good one, one with another key, one of another version), 3 handshake messages, 4 RMIs, serials of 3 values | one key (`KeysAgree`), one write at a time, both directions are channels (refinement) and catch up (liveness) |
| `frame` | 3 frames, any cut; texts around the limits of the encodings | frames recovered, closed on the malformed one, texts relayed unchanged |
| `game` | 3 users, 2 rooms of 3 seats, room numbers wrapping at 2 | seats, room table, master, groups, race traffic, one connection per account, succession, one room per request |
| `game_room` | 2 users, 2 channels, 1 room of up to 2 seats; two settings, looks, ready flags; passwords; any seat closed | clients' views, ready flags, the room list with closed seats, chats |
| `sole_rejoin` | 2 users, 2 rooms of 2 seats | violated: `MembersShareGroup` |
| `session` | names and passwords with and without white space, 2 ids, 3 servers; a file with a line, or with one that has no end; lines cut short anywhere | accounts, restarts, online table, superseded logins, credentials |
| `unreadable_line` | 2 users with passwords of one word, none, or two; the session server alone; every line written | violated: `NumbersStable` |
| `messenger` | 3 users, 4 ids | friendships, presence, addressees |
| `messenger_relogon` | 2 users, 3 ids | violated: `SwallowedBeforeLogin` |

**Bounds.** Two peer objects are enough for an id to pass from a closed peer with
outstanding handlers to a new one; five ids with the fourth kind of use (client, group,
free, skipped) make groups and clients compete for them. Two rooms and numbers wrapping at
two reach the search loop of `create_room`; three seats separate the old master, the new
one and a bystander. In `game_room` the second channel lets a seated player's channel part
from its room's (`enter_channel` does not leave the room), and rooms of size one have a
closed seat beyond their size. Four ids for three users let a newer login replace an older
one while the two others are online. In `session` the file has up to nine characters: a line
that was found there and one that a login appends, whole or after the beginning of another;
two ids are an older and a newer session of one user, with reuse.
In `stream` four RMIs outnumber the serials; three
handshake messages are the two needed and one more (a short key first, a repeated one), and the keys have four limbs, so
that products carry over several of them. Symmetry (interchangeable objects or users) is
used in safety runs only. Bounds in guards are `CanAllocate`, `CanCreate`, `MaxText`,
`MaxHandshake`, `MaxMessages`, `MaxFrames`, `MaxTexts` and the cap of `age` at
`Timeout + 1`. Deadlock is not checked in `stream` and `frame`, where the bounded input
runs out.

**Refinements.** `ServerToClient` and `ClientToServer` say that `PeerStream` implements
`Channel` twice: with `sent` as the messages handed to `send` and `delivered` as the ones
the client took, and with `sent` as the client's RMIs and `delivered` as those that reached
`on_rmi`. What is delivered is a prefix of what was sent, and nothing is sent once the peer
is closed. `HostIdsLeased` says that `ProudNetServer` implements `IdLease`: an id has at
most one holder, a peer object or a group, and changes hands only through being free.

**Fairness.** `ProudNetServer`: time passes (`WF(Tick)`) and the `io_context` runs the
handler of an expired timer (`WF(check_timeouts)`); nothing is assumed of clients or of
accepts. `PeerStream`: a write under way ends, with success or an error, and what the client
sent is read as long as a read is under way (`WF(Receive)`, enabled only then).
`QueueDrains` and `CallsHandled` rest on this.

**Mutants.** Each property of each passing run has a mutant: an operator next to the
definition it replaces, named after it, with a plausible mistake, that violates it.

## Findings

1. `relay_reliable` and `relay_reliable_udp_frame` do not resolve group HostIDs, unlike
   `relay_unreliable`, although `server.hpp` says that all CLPE traffic is addressed to the
   group (`reliable_relay`).
2. Entering the room one is alone in destroys the room and its group and then takes a seat
   in it (`sole_rejoin`).
3. `login` accepts an empty password, and tabs and line ends in names and passwords, and writes
   them as they are; the reader splits at them. Such an account is lost, and later ones get
   other numbers or passwords, at the next start, although every line was written
   (`unreadable_line`; with passwords of one word the run finds nothing, and either cause alone
   violates it). A file whose last line has no end, as an editor may leave it, suffers likewise:
   its last password joins with the next name.
4. A second messenger login of the same user on one connection leaves an entry for a closed
   connection; the next client with that HostID counts as logged in (`messenger_relogon`).

Two more sequences that no run is kept for, and that the passing runs exclude by a constant:

* `AllowSeatedRelogon`: logging on again while seated orphans the seat; after a disconnect
  the room keeps a player that is not there. With TRUE in `Game.cfg`, `SeatsConsistent` is
  violated; so is `MembersShareGroup`.
* `AllowOtherLogon`: a session connection that logs in as a second user keeps its entry
  under the first, and a later login of the first kicks the second. With TRUE in
  `Session.cfg`, `KickedIffSuperseded` and `OnlineIsLive` are violated.

## Proofs

Everything here holds for every value of the constants, under the named assumptions of the
modules (`HostIdAssumption`, `TimeoutAssumption`, `GameAssumption`, `CryptoAssumption`,
`StreamAssumption`, ...), which TLC evaluates in every run. Where a theorem needs more, the
hypothesis is written in front of it and named below. None of the invariants is inductive
alone; each inductive invariant was first checked by TLC on the instance of the run.

**Tables (`ProudNetStateProofs`), used by all servers.** A closing peer passes through states
in which it is marked closed, is still in `m_peers`, and is or is not a member of groups.
`Sound(n, C)` says of the tables `n`, while the peers `C` are being closed, that ids are
partitioned, members are connected and the clients not in `C` know the truth. Each table
operation has a lemma that takes `Sound` to `Sound` (`AddPeerSound`, `JoinGroupSound`,
`LeaveGroupsSound`, `DestroyGroupSound`, `MarkClosedSound`, `PeerClosedSound`, ...);
`AllocationIsFresh` is what makes a new id safe.

**ProudNet layer (`ProudNetProofs`)**, no hypothesis: `TypeCorrect`, `HostIdsPartitioned`,
`PeersAreIndexed`, `GroupViewsAccurate`, `GroupTrafficDelivered`, `HostIdsAreLeased`.
The invariant is the type invariant, `Sound(net, {})`, `PeersIndexed` and the fact that an
object that does not exist has no handlers, so that a late handler cannot disturb the tables.
`ClosingKeepsInv` composes the table lemmas for `close`; `NextKeepsInv` has one case per
action. `HostIdsAreLeased` is the refinement of `IdLease`: initial states map to initial
states, every step to steps in which each id keeps its holder, or is taken from the free ones,
or given back.

**Peer stream (`PeerStreamProofs`).** `OneWrite` needs no hypothesis. `TypeCorrect`,
`KeysStayEqual`, `ServerToClientHolds` and `ClientToServerHolds` (the two refinements of
`Channel`) have the hypothesis `KeyExchange`: the SIMPLEBLOB made for a client is a sequence of
bytes from which that client recovers the session key. That is RSA's correctness at the given
keys, arithmetic the prover cannot do; TLC checks it on the instance, where `KeysAgree` fails
without it. The invariant has three parts.

* `BaseInv`: types, one write under way exactly while `m_writing`, an idle queue empty.
* `DownInv`: the frames pending (queued or being written) line up with the tail of `out.sent`
  that the client has not yet taken, frame by frame: the same message, plain, or sealed under
  the server's key with the serial the client will expect when it gets there; and a client
  without a key has the key ahead of every sealed frame.
* `UpInv`: the inbox carries exactly the RMIs issued and not handled. There are two
  sequences, the serial the server will expect before each frame and the number of RMIs it
  will have handled by then, that start at the present values and end at the client's.

Both need that unsealing undoes sealing. `CipherBack` proves it of RC4 with the same key, for every
key and size of a byte, from `XorBack` (bitwise xor is a recursive function of the bits) and
the fact that both sides draw the same key stream. The inductions are done as the absence of a
least counterexample, with a set in the place of the predicate. `CryptoAssumption` states one
law of exponents, `2^(i+1) = 2 * 2^i`, because no installed prover knows it.

**Frame parser and strings (`FrameProofs`)**: `Recovered`, `Closed` and `Relayed`, with no
hypothesis but `FrameAssumption` (what the client sends is made of bytes and fits the limit,
and what counts as malformed is so). They hold for any number of frames, any payloads and
texts and any cut of the stream. The inductive invariant is `FInv`.

* `Taken`: the payloads processed are those of the first frames, all well formed.
* `Ahead`: while the peer is open, the buffer followed by the wire is, byte for byte, the rest
  of the stream from the next frame on, and the buffer holds less than that frame
  (`next(m_buffer) = Incomplete`). Without the second part a complete frame could be left in the
  buffer, and `FramesRecovered` would be false until the next read.
* When the peer is closed, the next frame is malformed and the bytes that show it have come.

`NextGood` and `NextBad` say what `next` makes of a buffer that agrees with a frame as far as
both go; `TurnKeeps` takes one frame off. The loop is a function over its turns, as many as four
bytes fit into the buffer and one more; `DrainEnds` shows that the last turn changes nothing,
since a turn that takes a frame shortens the buffer by four bytes or more. `Frontier` shows that
the frames processed are all those that can be decided, and no others.

`Relayed` needs that reading undoes writing: `ReadScalar`, in each of the four widths, with signs,
and `RoundTrip`, from UTF-16 to UTF-8 and back, by a case for each length of a sequence
of bytes. A half of a pair survives because it becomes three bytes of its own.
The inductions over a string or a buffer are again done as the absence of a least
counterexample (`NoLeast`).

**Game server (`GameProofs`)**: `TypeCorrect`, `SeatsAgree`, `RoomsStayListed`, `MasterStays`,
`GroupsMirrorRooms`, `RaceTraffic`, `OneConnection`, `ViewsAccurate`, `ReadyIsSeen`,
`ChatReaches`, `VacancyListed`, `RaceIsClosed`, `MastersInherit`, `OneRoomLoses`, for every number of users, HostIDs, rooms,
seats and room numbers. Hypothesis `WellBehaved`: nobody logs on while seated
(`AllowSeatedRelogon = FALSE`), nobody enters the room it is alone in
(`AllowSoleRejoin = FALSE`). The findings show that the properties about seats and groups are
false without it. `Ok(w, E, C)` says of a world `w`, in the midst of a handler, that the tables
are sound while `C` are being closed, that players and seats point at each other, that
`m_rooms` lists the rooms with players, that masters are present, and that groups mirror the
members; the rooms `E` are listed but nobody sits there yet (inside `create_room`). The
lemmas `VacateOk`, `SeatOk`, `OpenedOk`, `JoinOk`, `CreateOk`, `CloseOk` and `LogonOk` follow
the calls of the code, `CollectOk` is the release of room objects, and each action has a lemma
of its own; `SeatOfPlayer`, `PlayerOfSeat` and `SeatsFrame` are how they use the agreement of
players and seats. `RoomNumberIsFree` shows that the search of `create_room` that wraps around
ends at a number no room has. All this is in `GameWorldProofs`.

`ViewsAccurate`, `ReadyIsSeen`, `ChatReaches` and `VacancyListed` need more, and the invariant of
all theorems is `VInv`, that is `Ok(w, {}, {})` with two more parts.
`ViewsOk(w)`: what a client in a room was told `Describes` the room, and a client in no room
sees nobody. The description is stronger than `RoomViewAccurate`, since it covers the seats that
are empty: a notice about a newcomer changes one seat of the picture, which is right afterwards
only if the rest was. Ready flags are kept in one direction only, as the code does: a flag may be
shown that was dropped, and never the other way round. `SizesOk(w)`: a seat that is taken lies
within the size of the room and is not closed. That is what lets `ListedVacancy` count seats.
`RoomTells` and `PlayerTells` are the two ways a notice is sent, to all in the room of
a player; `RemoveViews`, `SeatViews` and `MovesShow` are for leaving, entering and what follows.

The action properties `RaceIsClosed`, `MastersInherit` and `OneRoomLoses` say what one request
does, which may consist of several leaves, a join, and the release of room objects. `Thins(w, x, r)`
and `Fills(w, x, r)` describe a leave and a join; `Moves(w, x)` is what their compositions have in
common, stated of the rooms listed before the request, since an object may be freed and used
again within it. `Fine(w, x)` is `Good(x)` and `Moves(w, x)`: one lemma for each handler
(`VacateFine`, `JoinFine`, `CloseFine`, `LogonFine`, ...), used for the invariant and for the
action properties alike.

**Messenger (`MessengerProofs`)**: `FriendshipsStayMutual` without hypothesis;
`FriendViewsAccurate` and `WhispersArrive` if nobody logs in twice on one connection
(`AllowRelogon = FALSE`; otherwise they are false, finding 4). `Base(w, C)` keeps the
friendships symmetric and the tables sound through a close; `Live(w)` adds that each entry of
`m_users` belongs to a connected client and that every logged-in client knows the truth, which
must be shown together since the notices are sent to the entries found.

**Session server, account store, logins (`LoginsProofs`)**: `AccountsAreNumbered` and
`RefusedOnce`, `RestartKeepsAccounts` and `CredentialsKept` without hypothesis: for any
file, any names and passwords, and lines cut short anywhere; `OnlineStaysLive` and
`SupersededAreKicked` if nobody logs in as another user on the same connection
(`AllowOtherLogon = FALSE`). `FileInv` ties the file to memory: the accounts of `lasting` users
are among those of the complete lines (`Complete(file)`) with the same number and password, and
if `intact` holds the complete lines are all there is and give exactly the accounts in memory.
`AccountsSurviveRestart` alone is not inductive: the last word of a file may become the name or
the password of an account at a restart, and then another one when more is appended.
`CompleteKept` says that nothing appended changes the accounts of complete lines, since
the reader goes through the same characters first (`ReadingAppended`) and only ever adds accounts
(`ReadingGrows`); `LineRead` that a line of two words adds the account that `login` added. The
reader is a recursive function over the positions of the text, and each of these facts is
again shown by a least counterexample.

**Only model-checked.**

* `NoSilentPeer`, `QueueDrains`, `CallsHandled`: liveness under fairness.
* RSA, `bigint`, padding and the key blobs of `Crypto`: what these recursive operators compute
  for every input.

## Not modelled

* The field layouts of messages (`gscl_proxy.hpp`, `gscl_types.hpp`, the guids, byte arrays
  and floating-point fields of `message.hpp`): stateless lists of fields, which a model could
  only repeat. `clgs.hpp` and `rmi.hpp` are lists of numbers.
* In the game server: teams and `team_chat` (which team a client assumes for a seat it was not
  told about is not in the repository), the character number, list pages, and handlers that
  keep no state. In the messenger: the position a client reports, clan and mailbox answers.
* Crypto at its real sizes (keys of 512 bits and more, 128-bit session keys), and the quality
  of the random numbers: any padding and any key of a small set may be drawn.
* Configuration and logging.
* Reads of freed memory beyond their outcome: `gm_kick` of oneself when alone goes on reading
  the room it freed; the model lets it find any player of the name (`Strays`), not crash.

## Plan

Done: the modules above, three refinements, and proofs for every state-machine module. Left:
teams and `team_chat`, if the client's side of them becomes known, and a proof of RSA's
`KeyExchange` with a prover that can do its arithmetic.
