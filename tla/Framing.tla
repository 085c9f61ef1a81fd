------------------------------- MODULE Framing -------------------------------
(***************************************************************************)
(* How the bytes of one connection become packets.  The game loop calls    *)
(* TcpConnection::Read(transcoder): when the buffer buf_ holds a whole     *)
(* packet it is decoded and cleared from the buffer, otherwise the next    *)
(* chunk of read_queue_ is appended.  A packet is                          *)
(*                                                                         *)
(*     length | opcode | length of the body | body                         *)
(*                                                                         *)
(* with numbers in little-endian order, the first of them the length of    *)
(* the whole packet.  TCP cuts the bytes into chunks wherever it likes.    *)
(* TcpRead shows that the chunks themselves come in order; allocation that *)
(* fails is left out, and with it the buffer's capacity.                   *)
(***************************************************************************)
EXTENDS Integers, Sequences

CONSTANTS
  Base,        \* values of a byte: 256 in the code
  PACKETLEN,   \* bytes of the packet's length: 4 in the code
  OPCODELEN,   \* bytes of the opcode: 4 in the code
  STRING_LEN,  \* bytes of the body's length: 4 in the code
  PeerPackets, \* the packets [opcode, body] that a peer may encode
  RawLength,   \* bound: bytes of a stream that is no encoding of packets
  MaxQueue     \* bound: chunks in read_queue_, 128 in the code

VARIABLES
  stream,      \* the bytes the peer sends on this connection
  arrived,     \* how many of them were read from the socket
  read_queue_, \* TcpConnection::read_queue_, the chunks
  buf_,        \* TcpConnection::buf_, as far as it is filled
  got          \* the packets handed to the dispatcher, in order

vars == <<stream, arrived, read_queue_, buf_, got>>

Bytes == 0 .. Base - 1
HEADERLEN == PACKETLEN + OPCODELEN

-----------------------------------------------------------------------------
(* Numbers as bytes, the low one first.                                    *)
Number(bytes) ==
  LET last[i \in 0 .. Len(bytes)] ==   \* what the last i bytes are worth
        IF i = 0 THEN 0 ELSE bytes[Len(bytes) - i + 1] + Base * last[i - 1]
  IN  last[Len(bytes)]

Left(n, width) ==   \* of n without so many of its bytes
  LET left[i \in 0 .. width] == IF i = 0 THEN n ELSE left[i - 1] \div Base
  IN  left

Digits(n, width) == [i \in 1 .. width |-> Left(n, width)[i - 1] % Base]

(* ProtobufTranscode::Encode.                                              *)
Encode(p) ==
  LET size == HEADERLEN + STRING_LEN + Len(p.body) IN
  Digits(size, PACKETLEN) \o Digits(p.opcode, OPCODELEN)
    \o Digits(Len(p.body), STRING_LEN) \o p.body

(* IsDataEnough, and the actualSize it finds.                              *)
PacketLength(bytes) == Number(SubSeq(bytes, 1, PACKETLEN))

IsDataEnough(bytes) ==
  /\ Len(bytes) >= PACKETLEN
  /\ PacketLength(bytes) <= Len(bytes)

(* packet >> body_: what lies beyond the packet's end is read as zeros, a  *)
(* length as well as a body.                                               *)
ReadBody(packet) ==
  LET from == HEADERLEN + STRING_LEN
      len == Number(SubSeq(packet, HEADERLEN + 1, from))
  IN  IF from > Len(packet) THEN <<>>
      ELSE IF from + len > Len(packet) THEN [i \in 1 .. len |-> 0]
      ELSE SubSeq(packet, from + 1, from + len)

(* GetOpcode and FromPacketTranscode.  A packet too short for a header has *)
(* opcode 0.                                                               *)
Decode(packet) ==
  [opcode |-> IF Len(packet) < HEADERLEN THEN 0
              ELSE Number(SubSeq(packet, PACKETLEN + 1, HEADERLEN)),
   body |-> ReadBody(packet)]

-----------------------------------------------------------------------------
Init ==
  /\ \/ stream \in [1 .. RawLength -> Bytes]
     \/ \E p, q \in PeerPackets : stream = Encode(p) \o Encode(q)
  /\ arrived = 0
  /\ read_queue_ = <<>>
  /\ buf_ = <<>>
  /\ got = <<>>

(* The uv thread pushes a chunk of n bytes.                                *)
OnRead(n) ==
  /\ arrived + n <= Len(stream)
  /\ Len(read_queue_) < MaxQueue
  /\ read_queue_' = Append(read_queue_, SubSeq(stream, arrived + 1, arrived + n))
  /\ arrived' = arrived + n
  /\ UNCHANGED <<stream, buf_, got>>

(* A mistake to be caught: BufClear empties the buffer.                    *)
ReadAndEmpty ==
  /\ IsDataEnough(buf_)
  /\ PacketLength(buf_) # 0
  /\ got' = Append(got, Decode(SubSeq(buf_, 1, PacketLength(buf_))))
  /\ buf_' = <<>>
  /\ UNCHANGED <<stream, arrived, read_queue_>>

(* Read with a whole packet in the buffer: Decode and BufClear.  A packet  *)
(* whose length is 0 takes nothing from the buffer and Read returns 0, as  *)
(* if there were none; it is found again whenever Read is called.          *)
ReadPacket ==
  /\ IsDataEnough(buf_)
  /\ PacketLength(buf_) # 0
  /\ got' = Append(got, Decode(SubSeq(buf_, 1, PacketLength(buf_))))
  /\ buf_' = SubSeq(buf_, PacketLength(buf_) + 1, Len(buf_))
  /\ UNCHANGED <<stream, arrived, read_queue_>>

(* A mistake to be caught: a chunk is only taken into an empty buffer.     *)
BufCatWhenEmpty ==
  /\ buf_ = <<>>
  /\ read_queue_ # <<>>
  /\ buf_' = Head(read_queue_)
  /\ read_queue_' = Tail(read_queue_)
  /\ UNCHANGED <<stream, arrived, got>>

(* Read without: BufCat appends the next chunk, if there is one.           *)
BufCat ==
  /\ ~IsDataEnough(buf_)
  /\ read_queue_ # <<>>
  /\ buf_' = buf_ \o Head(read_queue_)
  /\ read_queue_' = Tail(read_queue_)
  /\ UNCHANGED <<stream, arrived, got>>

Next ==
  \/ \E n \in 1 .. Len(stream) : OnRead(n)
  \/ ReadPacket
  \/ BufCat

(* The game loop calls Read on every turn; the peer need not send.         *)
Fairness == WF_vars(ReadPacket) /\ WF_vars(BufCat)

Spec == Init /\ [][Next]_vars /\ Fairness

-----------------------------------------------------------------------------
(* The reference: where the packets of a stream end that is there as a     *)
(* whole, up to the first incomplete one or the first of length 0.         *)
EndAfter(bytes, from) ==
  LET rest == SubSeq(bytes, from + 1, Len(bytes))
  IN  IF IsDataEnough(rest) THEN from + PacketLength(rest) ELSE from

Ends(bytes) ==
  LET end[n \in 0 .. Len(bytes)] == IF n = 0 THEN 0 ELSE EndAfter(bytes, end[n - 1])
  IN  end

HasPacket(bytes, n) == n \in 1 .. Len(bytes) /\ Ends(bytes)[n - 1] < Ends(bytes)[n]
PacketOf(bytes, n) == Decode(SubSeq(bytes, Ends(bytes)[n - 1] + 1, Ends(bytes)[n]))

(* A packet's numbers fit into the bytes there are for them.               *)
Fits(n, width) == Left(n, width)[width] = 0

Encodable(p) ==
  /\ Fits(HEADERLEN + STRING_LEN + Len(p.body), PACKETLEN)
  /\ Fits(p.opcode, OPCODELEN)
  /\ Fits(Len(p.body), STRING_LEN)

Arrived == SubSeq(stream, 1, arrived)

Begins(s, t) == Len(s) <= Len(t) /\ SubSeq(t, 1, Len(s)) = s

(* Which packets are read depends on the bytes only, not on how TCP cut    *)
(* them nor on when the game loop looked: the packets read so far are the  *)
(* first of those in what has arrived (tcp_connection.cpp:344-421).  And   *)
(* what was encoded is decoded: a peer that encodes packets as the server  *)
(* itself does has its packets read, with their opcodes and bodies         *)
(* (transcode_protobuf.cpp:16-23,46-60, transcode_packet.cpp:49-57,82-101, *)
(* 138-147).                                                               *)
ReadAsSent ==
  /\ \A n \in 1 .. Len(got) : HasPacket(Arrived, n) /\ got[n] = PacketOf(Arrived, n)
  /\ \A p, q \in PeerPackets :
       (stream = Encode(p) \o Encode(q) /\ Encodable(p) /\ Encodable(q)) => Begins(got, <<p, q>>)

(* Every packet that has arrived as a whole is read, unless there is one   *)
(* of length 0 before it.                                                  *)
EveryPacketRead ==
  \A n \in 1 .. RawLength : HasPacket(Arrived, n) ~> Len(got) >= n
=============================================================================
