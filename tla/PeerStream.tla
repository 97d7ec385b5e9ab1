----------------------------- MODULE PeerStream -----------------------------
(***************************************************************************)
(* proudnet::peer (src/src/proudnet/server.cpp) as one client's connection   *)
(* sees it: the handshake with its key exchange, the write queue behind one  *)
(* asynchronous write at a time, the read loop, and the numbered encrypted   *)
(* messages of both directions. Handlers of any connection call send; the    *)
(* completion handlers of the writes run whenever the io_context gets to     *)
(* them, also after close().                                                 *)
(*                                                                          *)
(* The client is external: it sends its public key and its request when it   *)
(* likes, more than once if it likes, and its RMIs once it was told that it  *)
(* is connected. It drops an encrypted message with a serial it does not     *)
(* expect, as the server does.                                               *)
(***************************************************************************)
EXTENDS Crypto

CONSTANTS Client,       \* clients: [blobs, n, d, version], see Blob of Crypto
          SessionKey,   \* the session keys on_public_key may draw
          PaddingByte,  \* the bytes it may pad them with
          SerialCount,  \* values of a serial (2^16)
          BadMessage,   \* the RMIs of the client whose handler throws
          MaxHandshake, \* bound on the handshake messages of the client
          MaxMessages   \* bound on the RMIs of both sides

ASSUME StreamAssumption ==
  /\ SessionKey \subseteq Seq(Byte) \ {<<>>}
  /\ SerialCount \in 1 .. ByteBase
  /\ ByteBase > 3   \* TypeByte
  /\ MaxHandshake \in Nat
  /\ MaxMessages \in Nat /\ MaxMessages < ByteBase * ByteBase

VARIABLES m_state, m_session_key, m_recv_serial,
          out,       \* the sending side, see OutType
          view,      \* what the client made of the frames written to the socket, see NoView
          reading,   \* read_loop has a read under way
          client,    \* who is at the other end
          inbox,     \* what it sent and was not read yet
          shaken,    \* how many handshake messages it sent
          c_serial,  \* its serial
          issued,    \* its RMIs
          handled    \* the RMIs that reached on_rmi

vars == <<m_state, m_session_key, m_recv_serial, out, view, reading,
          client, inbox, shaken, c_serial, issued, handled>>

in_vars == <<client, inbox, shaken, c_serial, issued>>

Open == m_state # "closed"

\* A message: its type and, as far as they matter, the bytes after it.
MessageType ==
  {"hint", "public_key", "session_key", "connection_request", "version_mismatch", "connect_success",
   "speed_hack_detector_enabled", "rmi", "encrypted_reliable", "encrypted_unreliable"}
Message == [type : MessageType, body : Seq(Byte)]
Plain(type) == [type |-> type, body |-> <<>>]

\* The n-th RMI: its number is its content.
Rmi(n) == [type |-> "rmi", body |-> <<n \div ByteBase, n % ByteBase>>]

OutType ==
  [m_write_queue : Seq(Message), \* frames waiting
   m_writing : BOOLEAN,
   writes : Seq(Message),        \* the async_writes under way, in the order they were started
   m_send_serial : Nat,
   sent : Seq(Message)]          \* what send was called with while the peer was open

TypeOK ==
  /\ m_state \in {"awaiting_public_key", "awaiting_connection_request", "connected", "closed"}
  /\ m_session_key \in Seq(Byte)
  /\ m_recv_serial \in 0 .. SerialCount - 1
  /\ out \in OutType /\ out.m_send_serial < SerialCount
  /\ view.got \in Seq(Message)
  /\ reading \in BOOLEAN
  /\ client \in Client
  /\ issued \in Seq(Message) /\ handled \in Seq(Message)

-----------------------------------------------------------------------------
(* Sending *)

\* Mutant: m_writing is left as it is when there is nothing to write.
write_next_StaysBusy(o, shut) ==
  IF o.m_write_queue = <<>> \/ shut THEN o
  ELSE [o EXCEPT !.m_writing = TRUE,
                 !.m_write_queue = Tail(@),
                 !.writes = Append(@, Head(o.m_write_queue))]

write_next(o, shut) ==
  IF o.m_write_queue = <<>> \/ shut THEN [o EXCEPT !.m_writing = FALSE]
  ELSE [o EXCEPT !.m_writing = TRUE,
                 !.m_write_queue = Tail(@),
                 !.writes = Append(@, Head(o.m_write_queue))]

\* Mutant: plain messages use up a serial too.
NextSerial_Always(serial, encrypted) == (serial + 1) % SerialCount

\* Mutant: the serial is wider than it is on the wire.
NextSerial_Wide(serial, encrypted) == IF encrypted THEN serial + 1 ELSE serial

\* The counter after a message: encrypted ones are numbered.
NextSerial(serial, encrypted) == IF encrypted THEN (serial + 1) % SerialCount ELSE serial

\* A message as bytes, its type first, and back.
TypeByte == [rmi |-> 1, encrypted_reliable |-> 2, connection_request |-> 3]
Bytes(message) == <<TypeByte[message.type]>> \o message.body
Parsed(bytes) == [type |-> CHOOSE t \in DOMAIN TypeByte : TypeByte[t] = bytes[1], body |-> Tail(bytes)]

\* The streams of the keys, long enough for the longest message.
Stream == [key \in SessionKey |-> KeyStream(key, 8)]

\* A message as it goes into an encrypted one, after its serial.
Wrapped(type, key, serial, message) ==
  [type |-> type, body |-> rc4_apply(Stream[key], serial \o Bytes(message))]

\* Mutant: a write is started whether or not one is under way.
send_AlwaysWrites(o, message, encrypt) ==
  LET encrypted == encrypt /\ m_session_key # <<>>
      frame == IF encrypted THEN Wrapped("encrypted_reliable", m_session_key, <<o.m_send_serial>>, message)
               ELSE message
  IN  write_next([o EXCEPT !.sent = Append(@, message),
                           !.m_send_serial = NextSerial(@, encrypted),
                           !.m_write_queue = Append(@, frame)], FALSE)

\* send by an open peer. Without a session key nothing is encrypted.
send(o, message, encrypt) ==
  LET encrypted == encrypt /\ m_session_key # <<>>
      frame == IF encrypted THEN Wrapped("encrypted_reliable", m_session_key, <<o.m_send_serial>>, message)
               ELSE message
      queued == [o EXCEPT !.sent = Append(@, message),
                          !.m_send_serial = NextSerial(@, encrypted),
                          !.m_write_queue = Append(@, frame)]
  IN  IF o.m_writing THEN queued ELSE write_next(queued, FALSE)

-----------------------------------------------------------------------------
(* The client: what it makes of a frame                                     *)

NoView == [key |-> <<>>, serial |-> 0, got |-> <<>>]

\* The keys in what clients send as their key.
PublicKey == [blob \in UNION {c.blobs : c \in Client} |-> parse_publickeyblob(blob)]

\* The SIMPLEBLOBs for such a key and a session key, one for each padding.
SimpleBlobs ==
  [blob \in UNION {c.blobs : c \in Client}, k \in SessionKey |->
     IF PublicKey[blob] = BadKey \/ TooLong(PublicKey[blob], k) THEN {}
     ELSE {make_rc4_simpleblob(PublicKey[blob], k, ps) :
             ps \in Padding(PublicKey[blob], k, PaddingByte)}]

BlobsOf(c, k) == UNION {SimpleBlobs[blob, k] : blob \in c.blobs}

\* External: the session key in a SIMPLEBLOB, with the private exponent of the client.
Unwrap(c, cipher) ==
  LET value[i \in 0 .. Len(cipher)] == IF i = 0 THEN 0 ELSE value[i - 1] + cipher[i] * ByteBase ^ (i - 1)
      x == value[Len(cipher)]
      power[e \in 0 .. c.d] == IF e = 0 THEN 1 ELSE (power[e - 1] * x) % c.n
      m == power[c.d]
      em == [i \in 1 .. Len(cipher) |-> (m \div ByteBase ^ (Len(cipher) - i)) % ByteBase]
      end == Min({i \in 3 .. Len(em) : em[i] = 0} \cup {Len(em)})
  IN  SubSeq(em, end + 1, Len(em))

\* What the clients unwrap.
Unwrapped ==
  [c \in Client |-> [cipher \in UNION {BlobsOf(c, k) : k \in SessionKey} |-> Unwrap(c, cipher)]]

\* External: an encrypted message counts if it has the next serial.
ClientGets(frame) ==
  LET plain == rc4_apply(Stream[view.key], frame.body)
  IN  IF frame.type = "session_key"
      THEN [view EXCEPT !.key = Unwrapped[client][frame.body], !.got = Append(@, frame)]
      ELSE IF frame.type # "encrypted_reliable" THEN [view EXCEPT !.got = Append(@, frame)]
      ELSE IF view.key = <<>> \/ plain[1] # view.serial THEN view
      ELSE [view EXCEPT !.serial = (@ + 1) % SerialCount, !.got = Append(@, Parsed(Tail(plain)))]

-----------------------------------------------------------------------------
\* start: the connection hint is on its way and the read loop runs.
Init ==
  /\ m_state = "awaiting_public_key" /\ m_session_key = <<>> /\ m_recv_serial = 0
  /\ out = [m_write_queue |-> <<>>, m_writing |-> TRUE, writes |-> <<Plain("hint")>>,
            m_send_serial |-> 0, sent |-> <<Plain("hint")>>]
  /\ view = NoView /\ reading = TRUE
  /\ client \in Client /\ inbox = <<>> /\ shaken = 0 /\ c_serial = 0
  /\ issued = <<>> /\ handled = <<>>

-----------------------------------------------------------------------------
(* Receiving: process_payload, one message of the client after the other.    *)

\* Any of the keys the client may send. One that cannot be read closes the peer. One too
\* short for the session key makes make_rc4_simpleblob throw when the session key is
\* already set: the peer still waits for a key.
on_public_key ==
  /\ UNCHANGED handled
  /\ IF m_state # "awaiting_public_key" THEN UNCHANGED <<m_state, m_session_key, out>>
     ELSE \E blob \in client.blobs :
            \/ /\ PublicKey[blob] = BadKey
               /\ m_state' = "closed" /\ UNCHANGED <<m_session_key, out>>
            \/ /\ PublicKey[blob] # BadKey
               /\ \E k \in SessionKey :
                    /\ m_session_key' = k
                    /\ IF TooLong(PublicKey[blob], k) THEN UNCHANGED <<m_state, out>>
                       ELSE \E cipher \in SimpleBlobs[blob, k] :
                              /\ out' = send(out, [type |-> "session_key", body |-> cipher], FALSE)
                              /\ m_state' = "awaiting_connection_request"

\* A client of another version is told so and cut off in the same breath.
on_connection_request ==
  /\ UNCHANGED <<m_session_key, handled>>
  /\ IF m_state # "awaiting_connection_request" THEN UNCHANGED <<m_state, out>>
     ELSE IF ~client.version
     THEN out' = send(out, Plain("version_mismatch"), FALSE) /\ m_state' = "closed"
     ELSE /\ out' = send(send(out, Plain("connect_success"), FALSE),
                         Plain("speed_hack_detector_enabled"), FALSE)
          /\ m_state' = "connected"

\* The handler of this RMI reads past its end and throws; the read loop catches that.
Throws(message) == message \in {Rmi(n) : n \in BadMessage}

\* RMIs are for connected clients. What the handler does with it is another component's.
on_rmi(message) ==
  /\ handled' = IF m_state = "connected" THEN Append(handled, message) ELSE handled
  /\ UNCHANGED <<m_state, m_session_key, out>>

\* A message that is not encrypted, or the content of one that is: then an encrypted
\* message is not unwrapped again.
Dispatch(message) ==
  \/ message.type = "public_key" /\ on_public_key
  \/ message.type = "connection_request" /\ on_connection_request
  \/ message.type = "rmi" /\ on_rmi(message)
  \/ message.type = "encrypted_reliable" /\ UNCHANGED <<m_state, m_session_key, out, handled>>

\* Mutant: the serial moves on when the message has been handled without an exception.
on_encrypted_SerialAfter(message, reliable) ==
  LET plain == rc4_apply(Stream[m_session_key], message.body)
      inner == Parsed(IF reliable THEN Tail(plain) ELSE plain)
  IN  IF m_session_key = <<>> \/ (reliable /\ plain[1] # m_recv_serial)
      THEN UNCHANGED <<m_state, m_session_key, m_recv_serial, out, handled>>
      ELSE /\ m_recv_serial' = NextSerial(m_recv_serial, reliable /\ ~Throws(inner))
           /\ Dispatch(inner)

\* Dropped if there is no key yet, or if it is not the next one; else the serial moves
\* on, whatever becomes of the content.
on_encrypted(message, reliable) ==
  LET plain == rc4_apply(Stream[m_session_key], message.body)
      inner == Parsed(IF reliable THEN Tail(plain) ELSE plain)
  IN  IF m_session_key = <<>> \/ (reliable /\ plain[1] # m_recv_serial)
      THEN UNCHANGED <<m_state, m_session_key, m_recv_serial, out, handled>>
      ELSE m_recv_serial' = NextSerial(m_recv_serial, reliable) /\ Dispatch(inner)

process_payload(message) ==
  \/ message.type = "encrypted_reliable" /\ on_encrypted(message, TRUE)
  \/ message.type = "encrypted_unreliable" /\ on_encrypted(message, FALSE)
  \/ /\ message.type \notin {"encrypted_reliable", "encrypted_unreliable"}
     /\ Dispatch(message)
     /\ UNCHANGED m_recv_serial

\* Mutant: an exception ends the read loop.
Receive_StopsOnThrow ==
  /\ Open /\ reading /\ inbox # <<>>
  /\ inbox' = Tail(inbox)
  /\ process_payload(Head(inbox))
  /\ reading' = (m_state' # "closed" /\ ~Throws(Head(inbox)))
  /\ UNCHANGED <<view, client, shaken, c_serial, issued>>

\* The read handler with one message; it reads on unless the message closed the peer.
Receive ==
  /\ Open /\ reading /\ inbox # <<>>
  /\ inbox' = Tail(inbox)
  /\ process_payload(Head(inbox))
  /\ reading' = (m_state' # "closed")
  /\ UNCHANGED <<view, client, shaken, c_serial, issued>>

-----------------------------------------------------------------------------
(* Writing *)

Without(i) == SubSeq(out.writes, 1, i - 1) \o SubSeq(out.writes, i + 1, Len(out.writes))

\* A write completes: any of them, if there were several. What completed before the
\* peer was closed is on the wire even if the handler runs after it.
WriteDone ==
  \E i \in DOMAIN out.writes :
    /\ view' = ClientGets(out.writes[i])
    /\ out' = write_next([out EXCEPT !.writes = Without(i)], ~Open)
    /\ UNCHANGED <<m_state, m_session_key, m_recv_serial, reading, handled>>
    /\ UNCHANGED in_vars

\* A write fails: the peer is closed and no further write is started.
WriteFails ==
  \E i \in DOMAIN out.writes :
    /\ m_state' = "closed"
    /\ out' = [out EXCEPT !.writes = Without(i)]
    /\ UNCHANGED <<m_session_key, m_recv_serial, view, reading, handled>>
    /\ UNCHANGED in_vars

close ==
  /\ Open
  /\ m_state' = "closed"
  /\ UNCHANGED <<m_session_key, m_recv_serial, out, view, reading, handled>>
  /\ UNCHANGED in_vars

-----------------------------------------------------------------------------
(* The sinks send RMIs to connected clients, and may close one right after.  *)

\* How many of the messages are RMIs.
Rmis(s) == Cardinality({i \in DOMAIN s : s[i].type = "rmi"})

SinkSends(encrypt, closes) ==
  /\ m_state = "connected" /\ Len(issued) + Rmis(out.sent) < MaxMessages
  /\ out' = send(out, Rmi(Rmis(out.sent) + 1), encrypt)
  /\ m_state' = IF closes THEN "closed" ELSE m_state
  /\ UNCHANGED <<m_session_key, m_recv_serial, view, reading, handled>>
  /\ UNCHANGED in_vars

-----------------------------------------------------------------------------
(* What the client sends *)

ClientStep ==
  /\ Open
  /\ UNCHANGED <<m_state, m_session_key, m_recv_serial, out, view, reading, client, handled>>

\* Its handshake messages, in any order and again.
ClientShakes(type) ==
  /\ ClientStep /\ shaken < MaxHandshake
  /\ shaken' = shaken + 1
  /\ inbox' = Append(inbox, Plain(type))
  /\ UNCHANGED <<c_serial, issued>>

\* Its RMIs, plain or encrypted.
ClientCalls(type) ==
  LET message == Rmi(Len(issued) + 1)
  IN  /\ ClientStep /\ Contains(view.got, Plain("connect_success"))
      /\ Len(issued) + Rmis(out.sent) < MaxMessages
      /\ issued' = Append(issued, message)
      /\ inbox' = Append(inbox, IF type = "rmi" THEN message
                                ELSE Wrapped(type, view.key, IF type = "encrypted_reliable"
                                                              THEN <<c_serial>> ELSE <<>>, message))
      /\ c_serial' = IF type = "encrypted_reliable" THEN (c_serial + 1) % SerialCount ELSE c_serial
      /\ UNCHANGED shaken

\* Its request encrypted, or an encrypted message in an encrypted one.
ClientWraps(type) ==
  LET inner == IF type = "connection_request" THEN Plain(type)
               ELSE Wrapped(type, view.key, <<c_serial>>, Rmi(0))
  IN  /\ ClientStep /\ view.key # <<>> /\ shaken < MaxHandshake
      /\ shaken' = shaken + 1
      /\ inbox' = Append(inbox, Wrapped("encrypted_reliable", view.key, <<c_serial>>, inner))
      /\ c_serial' = (c_serial + 1) % SerialCount
      /\ UNCHANGED issued

Next ==
  \/ Receive \/ WriteDone \/ WriteFails \/ close
  \/ \E encrypt, closes \in BOOLEAN : SinkSends(encrypt, closes)
  \/ \E type \in {"public_key", "connection_request"} : ClientShakes(type)
  \/ \E type \in {"rmi", "encrypted_reliable", "encrypted_unreliable"} : ClientCalls(type)
  \/ \E type \in {"connection_request", "encrypted_reliable"} : ClientWraps(type)

Spec == Init /\ [][Next]_vars

\* A write under way ends: the socket takes the bytes or reports an error. What the
\* client sent is read as long as a read is under way.
FairSpec == Spec /\ WF_vars(WriteDone \/ WriteFails) /\ WF_vars(Receive)

-----------------------------------------------------------------------------
(* Properties *)

\* While the peer is open there is one asynchronous write at a time, m_writing says so,
\* and no frame waits while there is none.
OneWriteAtATime ==
  Open => /\ Len(out.writes) <= 1
          /\ out.m_writing <=> out.writes # <<>>
          /\ out.m_write_queue # <<>> => out.m_writing

\* A client that was sent a session key has the one the server uses: the arithmetic of
\* the exchange is right, and the key is never drawn again once it was given away.
KeysAgree == view.key # <<>> => view.key = m_session_key

\* What the server sends reaches the client through queue, cipher and serials, plain and
\* encrypted messages in one order.
Downward == INSTANCE Channel WITH sent <- out.sent, delivered <- view.got, closed <- ~Open
ServerToClient == Downward!Spec

\* The RMIs of the client reach on_rmi, however they are wrapped and whatever their
\* handlers throw.
Upward == INSTANCE Channel WITH sent <- issued, delivered <- handled, closed <- ~Open
ClientToServer == Upward!Spec

\* Unless the peer is closed everything handed to send is written in the end: the queue
\* never waits for a write that nobody starts.
QueueDrains == Downward!CatchesUp

\* Unless the peer is closed every RMI is handled in the end: the read loop goes on after
\* an exception, and no serial is left behind.
CallsHandled == Upward!CatchesUp
=============================================================================
