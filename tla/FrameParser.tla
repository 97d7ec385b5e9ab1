---------------------------- MODULE FrameParser ----------------------------
(***************************************************************************)
(* net::frame_parser and make_frame (src/src/net/framing.hpp), driven by the *)
(* read handler of peer::read_loop: the byte stream of one client arrives in *)
(* pieces of any size and is cut into frames again.                          *)
(*                                                                          *)
(* The client sends frames of a given set, well formed or not; what the      *)
(* parser makes of them is compared with the frames themselves. Some carry a *)
(* line of chat, which a server passes on to other clients.                  *)
(***************************************************************************)
EXTENDS Codec, FiniteSets

CONSTANTS max_frame_payload, \* longest payload accepted (0x100000)
          Payload,           \* payloads the client sends, sequences of bytes
          Text,              \* lines of chat it sends, sequences of UTF-16 code units
          ScalarSize,        \* widths in which it writes the length
          Malformed,         \* frames that are none: [bytes, needs], see Bad
          MaxFrames,         \* bound on the frames of a run
          MaxTexts           \* bound on the lines of chat among them

VARIABLES sent,      \* the frames the client has sent
          wire,      \* bytes on their way
          m_buffer,  \* the parser's buffer
          received,  \* how many bytes have been read
          processed, \* the payloads handed to process_payload
          open       \* the peer is not closed

vars == <<sent, wire, m_buffer, received, processed, open>>

magic == <<19, 87>>   \* 0x5713, low byte first

\* The length may come in any of the widths that hold it, not only the narrowest.
make_frame(size, p) == magic \o <<size>> \o write(Len(p), size) \o p

\* A frame as the client sends it. needs: how many of its bytes the parser must have
\* to decide on it.
Frame(size, p, isText) ==
  [bytes |-> make_frame(size, p), payload |-> p, ok |-> TRUE, text |-> isText,
   needs |-> Len(make_frame(size, p))]
Good == {Frame(size, p, FALSE) : size \in ScalarSize, p \in Payload}
Lines == {Frame(width(Len(write_wstring(t))), write_wstring(t), TRUE) : t \in Text}
Bad == {[bytes |-> b.bytes, payload |-> <<>>, ok |-> FALSE, text |-> FALSE, needs |-> b.needs] :
          b \in Malformed}

\* Something else than the magic and a width, or a length that none of the payloads has,
\* which shows when the last byte of the width or of the length is there.
NoHeader(b) == SubSeq(b, 1, 2) # magic \/ b[3] \notin {1, 2, 4, 8}
NoLength(b) == Signed(SubSeq(b, 4, 3 + b[3])) \notin 0 .. max_frame_payload

ASSUME FrameAssumption ==
  /\ max_frame_payload \in Nat /\ max_frame_payload <= MaxInt
  /\ Text \subseteq Seq(Unit) /\ Payload \subseteq Seq(Byte)
  /\ \A p \in Payload \cup {write_wstring(t) : t \in Text} : Len(p) <= max_frame_payload
  /\ \A p \in Payload, size \in ScalarSize : size \in {1, 2, 4, 8} /\ width(Len(p)) <= size
  /\ \A m \in Malformed :
       /\ m.bytes \in Seq(Byte) /\ Len(m.bytes) >= m.needs
       /\ \/ NoHeader(m.bytes) /\ m.needs = 3
          \/ ~ NoHeader(m.bytes) /\ NoLength(m.bytes) /\ m.needs = 3 + m.bytes[3]
  /\ MaxFrames \in Nat /\ MaxTexts \in Nat

Init ==
  /\ sent = <<>> /\ wire = <<>> /\ m_buffer = <<>>
  /\ received = 0 /\ processed = <<>> /\ open = TRUE

-----------------------------------------------------------------------------
(* frame_parser::next *)

Incomplete == [kind |-> "incomplete"]
Error == [kind |-> "error"]

\* Mutant: a negative length counts as none.
Body_NegativeIsEmpty(b, header, length) ==
  IF length > max_frame_payload THEN Error
  ELSE IF Len(b) < header + length THEN Incomplete
  ELSE [kind |-> "frame", payload |-> SubSeq(b, header + 1, header + length),
        rest |-> SubSeq(b, header + length + 1, Len(b))]

Body(b, header, length) ==
  IF length < 0 \/ length > max_frame_payload THEN Error
  ELSE IF Len(b) < header + length THEN Incomplete
  ELSE [kind |-> "frame", payload |-> SubSeq(b, header + 1, header + length),
        rest |-> SubSeq(b, header + length + 1, Len(b))]

next(b) ==
  IF Len(b) < 3 THEN Incomplete
  ELSE IF SubSeq(b, 1, 2) # magic \/ b[3] \notin {1, 2, 4, 8} THEN Error
  ELSE LET header == 3 + b[3]
       IN  IF Len(b) < header THEN Incomplete
           ELSE Body(b, header, read_scalar(SubSeq(b, 3, header)).value)

\* One turn of the loop. Without a complete frame it leaves everything as it is.
Turn(d) ==
  LET f == next(d.rest)
  IN  IF f.kind = "frame"
      THEN [rest |-> f.rest, done |-> Append(d.done, f.payload), ok |-> TRUE]
      ELSE [d EXCEPT !.ok = f.kind = "incomplete"]

\* Mutant: one frame is taken per read.
Drain_One(b, done) == Turn([rest |-> b, done |-> done, ok |-> TRUE])

\* The loop of the read handler: all complete frames, until a partial or a bad one
\* (or until process_payload closes the peer, after which no byte matters). A frame has
\* four bytes at least, which bounds the number of turns.
Drain(b, done) ==
  LET turns == Len(b) \div 4 + 1
      after[k \in 0 .. turns] ==
        IF k = 0 THEN [rest |-> b, done |-> done, ok |-> TRUE] ELSE Turn(after[k - 1])
  IN  after[turns]

-----------------------------------------------------------------------------
ClientSends ==
  /\ open /\ Len(sent) < MaxFrames
  /\ \E f \in Good \cup Lines \cup Bad :
       /\ f.text => Cardinality({i \in DOMAIN sent : sent[i].text}) < MaxTexts
       /\ sent' = Append(sent, f)
       /\ wire' = wire \o f.bytes
  /\ UNCHANGED <<m_buffer, received, processed, open>>

\* The read handler: feed, then the loop; a malformed frame closes the peer.
Read ==
  /\ open
  /\ \E n \in 1 .. Len(wire) :
       LET d == Drain(m_buffer \o SubSeq(wire, 1, n), processed)
       IN  /\ wire' = SubSeq(wire, n + 1, Len(wire))
           /\ received' = received + n
           /\ m_buffer' = d.rest /\ processed' = d.done /\ open' = d.ok
  /\ UNCHANGED sent

\* lobby_chat, room_chat, whisper and the others that pass text on: the string is read
\* into UTF-8 and written for the other clients. What does not read is dropped.
Relay(payload) ==
  LET text == read_string(payload)
  IN  IF text.ok THEN <<write_text(text.value)>> ELSE <<>>

Next == ClientSends \/ Read

Spec == Init /\ [][Next]_vars

-----------------------------------------------------------------------------
(* Properties *)

\* Where each frame starts in the stream of all of them.
Starts(frames) ==
  LET at[i \in 1 .. Len(frames) + 1] == IF i = 1 THEN 0 ELSE at[i - 1] + Len(frames[i - 1].bytes)
  IN  at

Decidable(i) == Starts(sent)[i] + sent[i].needs <= received

\* The frames before the first malformed one.
GoodPrefix == {i \in DOMAIN sent : \A j \in 1 .. i : sent[j].ok}

\* However the stream is cut into reads, every payload whose last byte has arrived is
\* processed by the end of that read, once, unchanged and in order, and nothing else.
FramesRecovered ==
  processed = LET n == Cardinality({i \in GoodPrefix : Decidable(i)})
              IN  [i \in 1 .. n |-> sent[i].payload]

\* The peer is closed by the read that brings the bytes that show a frame to be
\* malformed, no earlier and no later, and never for anything else.
ClosedByMalformed ==
  ~open <=> \E i \in DOMAIN sent : ~sent[i].ok /\ Decidable(i) /\ \A j \in 1 .. i - 1 : sent[j].ok

\* Whatever a client types reaches the others as it was sent, byte for byte: Korean,
\* pairs of surrogates, and halves of pairs, which have no UTF-8 of their own.
TextRelayedUnchanged ==
  \A i \in DOMAIN processed : sent[i].text => Relay(processed[i]) = <<sent[i].payload>>
=============================================================================
