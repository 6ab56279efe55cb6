------------------------------- MODULE Packet -------------------------------
(***************************************************************************)
(* Packets as CreatePacket makes them and ReadPacket takes them apart      *)
(* (net/packet.h, net/packet.cpp), and how long they are on the wire.      *)
(*                                                                         *)
(* Contents are kept as far as they can be told apart: what is encrypted   *)
(* is a term that names the header it is bound to and the payload in it.   *)
(* The nonce and the key are the business of Protocol and match here.      *)
(***************************************************************************)
EXTENDS Naturals, Sequences, FiniteSetsExt

TCP_PAYLOAD_SIZE_MAX == 512
TagSize              == 16
HeaderSize           == 2 + 4 + 8 + 8 + 4 + 8    \* as serialised
HeaderSizeof         == 40                       \* sizeof(Header), aligned
TCP_TOTAL_PACKET_SIZE == TCP_PAYLOAD_SIZE_MAX + HeaderSizeof + TagSize
TIMESTAMP_LIMIT      == 30

TimeMod == 2 ^ 16    \* bound: time is a uint64_t
SizeMod == 2 ^ 30    \* bound: a message size is a uint32_t

\* The flags, and the bit that turns the cipher off.
AllFlags == [NoFlags |-> 0, NoCrypto |-> 1, Handshake |-> 2, TestMessage |-> 255]
NoCrypto(flags) == flags % 2 = 1

\* writeSize and readSize of bitsery: a length takes one, two or four bytes.
WriteSize(n) ==
  IF n < 128 THEN <<n>>
  ELSE IF n < 16384 THEN <<128 + n \div 256, n % 256>>
  ELSE <<192 + n \div 2 ^ 24, (n \div 2 ^ 16) % 256, n % 256, (n \div 256) % 256>>

ReadSize(b) ==
  IF b[1] < 128 THEN b[1]
  ELSE IF b[1] % 128 < 64 THEN ((b[1] % 128) * 256) + b[2]
  ELSE (((b[1] % 64) * 256) + b[2]) * (2 ^ 16) + b[3] + (256 * b[4])

\* A payload of so many bytes, which are what their name says; a buffer that
\* nothing was read into is zero.
Payload(n, name) == [size |-> n, bytes |-> <<"plain", name>>]
Zeros(n)         == [size |-> n, bytes |-> <<"zero">>]

\* CreatePacket: the header, which the cipher authenticates, the length of the
\* payload, and the payload, encrypted and with the tag unless NoCrypto is set.
CreatePacket(payload, flags, timestamp, id) ==
  LET size   == IF NoCrypto(flags) THEN payload.size ELSE payload.size + TagSize
      header == [flags |-> flags, timestamp |-> timestamp, message_id |-> id,
                 message_size |-> size]
  IN  [header |-> header,
       count  |-> size,
       body   |-> IF NoCrypto(flags) THEN payload
                  ELSE [size |-> size, bytes |-> <<"sealed", header, payload>>]]

\* The parts of a packet on the wire and their lengths: what comes before the
\* message id, the rest of the header, the length, the body.
Parts == 4
PartSize(packet, part) ==
  <<14, HeaderSize - 14, Len(WriteSize(packet.count)), packet.body.size>>[part]

WireSize(packet) == MapThenSumSet(LAMBDA part : PartSize(packet, part), 1 .. Parts)

\* What is in the buffer when only the first so many parts of a packet were
\* read into it: the rest is zero.
Received(packet, parts) ==
  [header |-> [flags        |-> IF parts >= 1 THEN packet.header.flags ELSE 0,
               timestamp    |-> IF parts >= 1 THEN packet.header.timestamp ELSE 0,
               message_id   |-> IF parts >= 2 THEN packet.header.message_id ELSE 0,
               message_size |-> IF parts >= 2 THEN packet.header.message_size ELSE 0],
   count |-> IF parts >= 3 THEN ReadSize(WriteSize(packet.count)) ELSE 0,
   body  |-> IF parts = Parts THEN packet.body
             ELSE Zeros(IF parts >= 3 THEN packet.count ELSE 0)]

\* A bug one could write: the tag is not looked at.
OpensAny(r) == TRUE

\* AEADChaCha20Poly1305::Decrypt finds the tag right.
Opens(r) == r.body.bytes[1] = "sealed" /\ r.body.bytes[2] = r.header

\* The assertion of Decrypt holds: ReadPacket made the output 16 bytes shorter
\* than message_size says, in 32 bits.
SizesAssert(r) ==
  r.body.size = ((r.header.message_size + SizeMod - TagSize) % SizeMod) + TagSize

\* A bug one could write: a packet as old as the limit is too old.
InTimeStrict(r, now) ==
  (now + TimeMod - r.header.timestamp) % TimeMod < TIMESTAMP_LIMIT

\* The packet is no older than the limit; now - timestamp is unsigned.
InTime(r, now) ==
  (now + TimeMod - r.header.timestamp) % TimeMod <= TIMESTAMP_LIMIT

\* ReadPacket, as the first of its checks that fails: an error that it returns
\* or an assertion that ends the process.
ReadPacket(r, now) ==
  LET sealed == ~NoCrypto(r.header.flags)
      checks == <<[error |-> "InvalidSerialization", holds |-> r.count <= r.header.message_size],
                  [error |-> "abort",                holds |-> sealed => SizesAssert(r)],
                  [error |-> "InvalidTag",           holds |-> sealed => Opens(r)],
                  [error |-> "InvalidTimestamp",     holds |-> InTime(r, now)],
                  [error |-> "InvalidMessageLength", holds |-> sealed \/ r.header.message_size = r.body.size]>>
      failed == {i \in DOMAIN checks : ~checks[i].holds}
  IN  IF failed = {} THEN "NoError" ELSE checks[Min(failed)].error

\* The payload of a packet that ReadPacket accepts.
PlainOf(r) == IF NoCrypto(r.header.flags) THEN r.body ELSE r.body.bytes[3]
=============================================================================
