---------------------------- MODULE ReadLoopProofs ----------------------------
(***************************************************************************)
(* The chain of reads of a session (net/server.h), for every choice of     *)
(* packets, of resets and of the pieces in which TCP hands the stream over:*)
(* until the connection ends somebody reads on; the pool is handed the     *)
(* whole stream in order, also when the old callback and the new one read  *)
(* side by side; and a packet that ReadPacket accepts as encrypted is one  *)
(* that was sent.  The argument follows the chunks from the stream through *)
(* the handlers to the pool.                                               *)
(***************************************************************************)
EXTENDS ReadLoop, QueueFacts

\* The packets that the peer may write.
Made == {CreatePacket(Payload(kind.size, i), kind.flags, kind.stamp, i) :
           kind \in Kinds, i \in 1 .. MaxPackets}

\* A handler that will read again.
Reads(h) == h.kind \in {"data", "read"}

\* No handler of q will read.
Silent(q) == \A i \in DOMAIN q : ~Reads(q[i])

\* The chunks of the handlers of q.
Data(q) == {q[i].chunk : i \in {j \in DOMAIN q : q[j].kind = "data"}}

\* The chunks of p are in the order of the stream and before those of W.
Ahead(p, W) ==
  /\ \A i, j \in DOMAIN p : i < j => Before(p[i], p[j])
  /\ \A i \in DOMAIN p, c \in W : Before(p[i], c)

\* The chunks of W leave nothing out of the first n parts of the stream but
\* what is before them all.
Covered(W, n) ==
  \A k \in 1 .. n : (\E c \in W : k \in c.from .. c.to) \/ (\A c \in W : k < c.from)

\* The chunks of the handlers of q are behind lo and up to hi in the stream,
\* in its order.
Ordered(q, lo, hi) ==
  /\ \A i \in DOMAIN q : q[i].kind = "data" =>
       /\ lo < q[i].chunk.from
       /\ q[i].chunk.from <= q[i].chunk.to
       /\ q[i].chunk.to <= hi
  /\ \A i, j \in DOMAIN q :
       i < j /\ q[i].kind = "data" /\ q[j].kind = "data" => q[i].chunk.to < q[j].chunk.from

\* Every chunk is of parts that were read, and fewer chunks were counted than
\* parts are before those that wait for their handler.
InStream ==
  /\ counter \in Nat /\ counter <= got /\ Ordered(io, counter, got)
  /\ \A i \in DOMAIN pool : pool[i].from <= pool[i].to /\ pool[i].to <= got

InHand == Ahead(pool, Data(io)) /\ Covered(ToSet(pool) \cup Data(io), got)

Written == sent \in Seq(Made)

Inv == TypeOK /\ Written /\ InStream /\ InHand /\ ReadAlive
-----------------------------------------------------------------------------
(* Packets, and what ReadPacket says of them.                              *)

\* What each check of ReadPacket asks, and what follows for its verdict.
LEMMA VerdictFacts ==
  ASSUME NEW r, NEW now
  PROVE  LET sealed == ~NoCrypto(r.header.flags)
             fits   == r.count <= r.header.message_size
             sizes  == sealed => SizesAssert(r)
             opens  == sealed => Opens(r)
             timely == InTime(r, now)
             length == sealed \/ r.header.message_size = r.body.size
         IN  /\ ReadPacket(r, now) = "NoError" => opens
             /\ fits /\ sizes /\ opens /\ timely /\ length => ReadPacket(r, now) = "NoError"
             /\ fits /\ sizes /\ opens /\ ~timely => ReadPacket(r, now) = "InvalidTimestamp"
<1> DEFINE sealed == ~NoCrypto(r.header.flags)
           fits   == r.count <= r.header.message_size
           sizes  == sealed => SizesAssert(r)
           opens  == sealed => Opens(r)
           timely == InTime(r, now)
           length == sealed \/ r.header.message_size = r.body.size
           checks == <<[error |-> "InvalidSerialization", holds |-> fits],
                       [error |-> "abort",                holds |-> sizes],
                       [error |-> "InvalidTag",           holds |-> opens],
                       [error |-> "InvalidTimestamp",     holds |-> timely],
                       [error |-> "InvalidMessageLength", holds |-> length]>>
           failed == {i \in DOMAIN checks : ~checks[i].holds}
<1>1. ReadPacket(r, now) = IF failed = {} THEN "NoError" ELSE checks[Min(failed)].error
  BY DEF ReadPacket
<1> HIDE DEF sealed, fits, sizes, opens, timely, length
<1>2. /\ DOMAIN checks = 1 .. 5
      /\ \A i \in 1 .. 5 : checks[i].error # "NoError"
      /\ checks[4].error = "InvalidTimestamp"
      /\ checks[1].holds = fits /\ checks[2].holds = sizes /\ checks[3].holds = opens
      /\ checks[4].holds = timely /\ checks[5].holds = length
  OBVIOUS
<1> HIDE DEF checks
<1>3. failed \subseteq 1 .. 5
  BY <1>2
<1>4. /\ (1 \in failed <=> ~fits) /\ (2 \in failed <=> ~sizes) /\ (3 \in failed <=> ~opens)
      /\ (4 \in failed <=> ~timely) /\ (5 \in failed <=> ~length)
  BY <1>2
<1> HIDE DEF failed
<1>5. failed # {} => Min(failed) \in failed /\ \A i \in failed : Min(failed) <= i
  <2> SUFFICES ASSUME failed # {}
               PROVE  Min(failed) \in failed /\ \A i \in failed : Min(failed) <= i
    OBVIOUS
  <2>1. failed \in SUBSET Nat
    BY <1>3
  <2>2. \E n \in failed : \A m \in failed : n <= m
    BY <2>1, Least
  <2> QED BY <2>2 DEF Min
<1>6. failed # {} => ReadPacket(r, now) # "NoError"
  BY <1>1, <1>2, <1>3, <1>5
<1>7. ReadPacket(r, now) = "NoError" => opens
  BY <1>4, <1>6
<1>8. ASSUME fits, sizes, opens, timely, length PROVE ReadPacket(r, now) = "NoError"
  <2>1. failed = {}
    <3>1. \A i \in 1 .. 5 : i = 1 \/ i = 2 \/ i = 3 \/ i = 4 \/ i = 5
      OBVIOUS
    <3> QED BY <1>3, <1>4, <1>8, <3>1
  <2> QED BY <1>1, <2>1
<1>9. ASSUME fits, sizes, opens, ~timely PROVE ReadPacket(r, now) = "InvalidTimestamp"
  <2>1. 4 \in failed /\ 1 \notin failed /\ 2 \notin failed /\ 3 \notin failed
    BY <1>4, <1>9
  <2>2. Min(failed) = 4
    <3>1. Min(failed) \in 1 .. 5 /\ Min(failed) <= 4 /\ Min(failed) \in failed
      BY <1>3, <1>5, <2>1
    <3> QED BY <2>1, <3>1
  <2> QED BY <1>1, <1>2, <2>1, <2>2
<1> QED BY <1>7, <1>8, <1>9 DEF sealed, fits, sizes, opens, timely, length

\* A length that a packet can have is read as it was written.
LEMMA SizeKept ==
  ASSUME NEW n \in Nat, n <= TCP_PAYLOAD_SIZE_MAX + TagSize
  PROVE  ReadSize(WriteSize(n)) = n
<1>1. n <= 528
  BY DEF TCP_PAYLOAD_SIZE_MAX, TagSize
<1>2. CASE n < 128
  <2>1. WriteSize(n) = <<n>>
    BY <1>2 DEF WriteSize
  <2> QED BY <1>2, <2>1 DEF ReadSize
<1>3. CASE n >= 128
  <2> DEFINE hi == n \div 256  lo == n % 256  b == <<128 + hi, lo>>
  <2>1. WriteSize(n) = b
    BY <1>1, <1>3 DEF WriteSize
  <2>2. hi \in 0 .. 2 /\ lo \in 0 .. 255 /\ n = 256 * hi + lo
    BY <1>1
  <2> HIDE DEF hi, lo
  <2>3. b[1] = 128 + hi /\ b[2] = lo /\ ~(b[1] < 128)
    BY <2>2
  <2> HIDE DEF b
  <2>4. b[1] % 128 = hi
    BY <2>2, <2>3
  <2> QED BY <2>1, <2>2, <2>3, <2>4 DEF ReadSize
<1> QED BY <1>2, <1>3

\* What a packet that was sent holds.
LEMMA MadeFacts ==
  ASSUME NEW p \in Made
  PROVE  LET h == p.header IN
         /\ h = [flags |-> h.flags, timestamp |-> h.timestamp, message_id |-> h.message_id,
                 message_size |-> h.message_size]
         /\ h.timestamp \in 0 .. 2 * Now
         /\ h.message_size \in 0 .. TCP_PAYLOAD_SIZE_MAX + TagSize
         /\ p.count = h.message_size /\ p.body.size = h.message_size
         /\ NoCrypto(h.flags) => p.body.bytes = <<"plain", h.message_id>>
         /\ ~NoCrypto(h.flags) =>
              /\ h.message_size >= TagSize
              /\ \E payload : p.body.bytes = <<"sealed", h, payload>>
                              /\ payload.bytes = <<"plain", h.message_id>>
<1>1. PICK kind \in Kinds, i \in 1 .. MaxPackets :
        p = CreatePacket(Payload(kind.size, i), kind.flags, kind.stamp, i)
  BY DEF Made
<1> DEFINE payload == Payload(kind.size, i)
           size    == IF NoCrypto(kind.flags) THEN kind.size ELSE kind.size + TagSize
           h       == [flags |-> kind.flags, timestamp |-> kind.stamp, message_id |-> i,
                       message_size |-> size]
<1>2. kind.size \in 0 .. TCP_PAYLOAD_SIZE_MAX /\ kind.stamp \in 0 .. 2 * Now
  BY ReadLoopAssumption
<1>3. payload.size = kind.size /\ payload.bytes = <<"plain", i>>
  BY DEF Payload
<1> HIDE DEF payload
<1>4. /\ p.header = h /\ p.count = size
      /\ p.body = IF NoCrypto(kind.flags) THEN payload
                  ELSE [size |-> size, bytes |-> <<"sealed", h, payload>>]
  BY <1>1, <1>3 DEF CreatePacket, payload
<1>5. /\ size \in 0 .. TCP_PAYLOAD_SIZE_MAX + TagSize
      /\ ~NoCrypto(kind.flags) => size >= TagSize
  BY <1>2 DEF TCP_PAYLOAD_SIZE_MAX, TagSize
<1>6. NoCrypto(kind.flags) => size = kind.size
  OBVIOUS
<1> HIDE DEF size
<1>7. /\ h.flags = kind.flags /\ h.timestamp = kind.stamp /\ h.message_id = i /\ h.message_size = size
      /\ h = [flags |-> h.flags, timestamp |-> h.timestamp, message_id |-> h.message_id,
              message_size |-> h.message_size]
  OBVIOUS
<1> HIDE DEF h
<1>8. CASE NoCrypto(kind.flags)
  BY <1>2, <1>3, <1>4, <1>5, <1>6, <1>7, <1>8
<1>9. CASE ~NoCrypto(kind.flags)
  <2>1. p.body.size = size /\ p.body.bytes = <<"sealed", h, payload>>
    BY <1>4, <1>9
  <2> QED BY <1>2, <1>3, <1>4, <1>5, <1>7, <1>9, <2>1
<1> QED BY <1>8, <1>9

\* A chunk that waits in the pool starts in a packet that was sent, and holds
\* one to four parts of it.
LEMMA ChunkFacts ==
  ASSUME Inv, NEW chunk \in ToSet(pool)
  PROVE  /\ PacketAt(chunk.from) \in Made /\ Held(chunk) \in 1 .. Parts
         /\ \E i \in DOMAIN sent : PacketAt(chunk.from) = sent[i]
<1>1. PICK i \in DOMAIN pool : chunk = pool[i]
  BY DEF ToSet
<1>2. pool[i] \in Chunks
  BY ElementOfSeq, LenProperties DEF Inv, TypeOK
<1>3. /\ chunk.from \in Nat /\ chunk.from >= 1 /\ chunk.to \in Nat
      /\ chunk.from <= chunk.to /\ chunk.to <= got
  BY <1>1, <1>2 DEF Inv, InStream, Chunks
<1>4. sent \in Seq(Made) /\ Len(sent) \in Nat /\ got \in Nat /\ got <= 4 * Len(sent)
  BY LenProperties DEF Inv, TypeOK, Written, StreamEnd, Parts
<1>5. (chunk.from - 1) \div 4 + 1 \in 1 .. Len(sent)
  BY <1>3, <1>4
<1>6. PacketAt(chunk.from) \in Made
  BY <1>4, <1>5, ElementOfSeq DEF PacketAt, Parts
<1>7. Held(chunk) \in 1 .. Parts
  BY <1>3 DEF Held, Parts
<1>8. \E n \in DOMAIN sent : PacketAt(chunk.from) = sent[n]
  BY <1>4, <1>5, LenProperties DEF PacketAt, Parts
<1> QED BY <1>6, <1>7, <1>8

\* What is seen of a whole packet is the packet.
LEMMA WholeSeen ==
  ASSUME NEW p \in Made
  PROVE  /\ Received(p, Parts).header = p.header
         /\ Received(p, Parts).count = p.count
         /\ Received(p, Parts).body = p.body
<1>1. p.count \in Nat /\ p.count <= TCP_PAYLOAD_SIZE_MAX + TagSize
  <2>1. p.header.message_size \in 0 .. TCP_PAYLOAD_SIZE_MAX + TagSize /\ p.count = p.header.message_size
    BY MadeFacts
  <2> QED BY <2>1 DEF TCP_PAYLOAD_SIZE_MAX, TagSize
<1>2. ReadSize(WriteSize(p.count)) = p.count
  BY <1>1, SizeKept
<1>3. Received(p, Parts).header = p.header
  BY MadeFacts DEF Received, Parts
<1> QED BY <1>2, <1>3 DEF Received, Parts

\* ReadPacket accepts a packet that was sent when it is timely, and finds only
\* its time wrong when it is not.
LEMMA WholeVerdict ==
  ASSUME NEW p \in Made, NEW r, r.header = p.header, r.count = p.count, r.body = p.body
  PROVE  /\ ReadPacket(r, Now) = IF p.header.timestamp \in Now - TIMESTAMP_LIMIT .. Now
                                 THEN "NoError" ELSE "InvalidTimestamp"
         /\ PlainOf(r).bytes = <<"plain", p.header.message_id>>
<1> DEFINE n == p.header.message_size  t == p.header.timestamp
<1>1. /\ t \in 0 .. 200 /\ n \in 0 .. 528 /\ r.count = n /\ r.body.size = n
      /\ r.header.message_size = n /\ r.header.timestamp = t
  <2>1. /\ t \in 0 .. 2 * Now /\ n \in 0 .. TCP_PAYLOAD_SIZE_MAX + TagSize
        /\ p.count = n /\ p.body.size = n
    BY MadeFacts
  <2> QED BY <2>1 DEF TCP_PAYLOAD_SIZE_MAX, TagSize, Now
<1>2. ~NoCrypto(r.header.flags) =>
        /\ n >= 16
        /\ \E payload : r.body.bytes = <<"sealed", r.header, payload>>
                        /\ payload.bytes = <<"plain", p.header.message_id>>
  BY MadeFacts DEF TagSize
<1>3. NoCrypto(r.header.flags) => r.body.bytes = <<"plain", p.header.message_id>>
  BY MadeFacts
<1> HIDE DEF n, t
<1>4. r.count <= r.header.message_size
  BY <1>1
<1>5. ~NoCrypto(r.header.flags) => SizesAssert(r)
  <2> SUFFICES ASSUME n >= 16
               PROVE  n = ((n + SizeMod - TagSize) % SizeMod) + TagSize
    BY <1>1, <1>2 DEF SizesAssert
  <2>1. SizeMod = 1073741824
    BY DEF SizeMod
  <2> QED BY <1>1, <2>1 DEF TagSize
<1>6. ~NoCrypto(r.header.flags) => Opens(r)
  BY <1>2 DEF Opens
<1>7. InTime(r, Now) <=> t \in Now - TIMESTAMP_LIMIT .. Now
  <2>1. TimeMod = 65536
    BY DEF TimeMod
  <2> QED BY <1>1, <2>1 DEF InTime, Now, TIMESTAMP_LIMIT
<1>8. ReadPacket(r, Now) = IF t \in Now - TIMESTAMP_LIMIT .. Now
                           THEN "NoError" ELSE "InvalidTimestamp"
  BY <1>1, <1>4, <1>5, <1>6, <1>7, VerdictFacts
<1>9. PlainOf(r).bytes = <<"plain", p.header.message_id>>
  BY <1>2, <1>3 DEF PlainOf
<1> QED BY <1>8, <1>9 DEF t

\* No tag fits arbitrary bytes.
LEMMA NoiseFits ==
  ASSUME NEW found \in Noise
  PROVE  ~Opens(found)
<1>1. found.body.bytes = <<"noise">>
  BY DEF Noise
<1> QED BY <1>1 DEF Opens

\* A whole packet is accepted when it is timely and refused as untimely when
\* not, and what is accepted as encrypted is a packet that was sent.
LEMMA VerdictOfChunk ==
  ASSUME Inv, NEW chunk \in ToSet(pool)
  PROVE  /\ \A found \in Found(chunk) :
              ReadPacket(found, Now) = "NoError" /\ ~NoCrypto(found.header.flags) =>
                \E i \in DOMAIN sent : found.header = sent[i].header /\ found.body = sent[i].body
         /\ Whole(chunk) =>
              LET packet == PacketAt(chunk.from)
                  timely == packet.header.timestamp \in Now - TIMESTAMP_LIMIT .. Now
              IN  /\ Verdicts(chunk) = {IF timely THEN "NoError" ELSE "InvalidTimestamp"}
                  /\ PlainOf(Seen(chunk)).bytes = <<"plain", packet.header.message_id>>
<1> DEFINE p == PacketAt(chunk.from)  r == Received(p, Held(chunk))
<1>1. /\ p \in Made /\ Held(chunk) \in 1 .. 4 /\ Seen(chunk) = r
      /\ \E i \in DOMAIN sent : p = sent[i]
  BY ChunkFacts DEF Seen, Parts
<1> HIDE DEF p
<1>2. ASSUME NEW found \in Found(chunk),
             ReadPacket(found, Now) = "NoError", ~NoCrypto(found.header.flags)
      PROVE  \E i \in DOMAIN sent : found.header = sent[i].header /\ found.body = sent[i].body
  <2>1. Opens(found)
    BY <1>2, VerdictFacts
  <2>2. found = r
    BY <1>1, <1>2, <2>1, NoiseFits DEF Found
  <2>3. Held(chunk) = Parts
    <3> SUFFICES ASSUME Held(chunk) # Parts PROVE FALSE
      OBVIOUS
    <3>1. r.body.bytes = <<"zero">>
      BY DEF Received, Zeros
    <3> QED BY <2>1, <2>2, <3>1 DEF Opens
  <2>4. r.header = p.header /\ r.body = p.body
    BY <1>1, <2>3, WholeSeen
  <2> QED BY <1>1, <2>2, <2>4
<1>3. ASSUME Whole(chunk)
      PROVE  /\ Verdicts(chunk) = {IF p.header.timestamp \in Now - TIMESTAMP_LIMIT .. Now
                                   THEN "NoError" ELSE "InvalidTimestamp"}
             /\ PlainOf(Seen(chunk)).bytes = <<"plain", p.header.message_id>>
  <2>1. AtStart(chunk) /\ Held(chunk) = Parts
    BY <1>3 DEF Whole
  <2>2. r.header = p.header /\ r.count = p.count /\ r.body = p.body
    BY <1>1, <2>1, WholeSeen
  <2>3. Verdicts(chunk) = {ReadPacket(r, Now)}
    BY <1>1, <2>1 DEF Verdicts, Found
  <2> HIDE DEF r
  <2> QED BY <1>1, <2>2, <2>3, WholeVerdict
<1> QED BY <1>2, <1>3 DEF p

-----------------------------------------------------------------------------
(* Queues of handlers.                                                     *)

\* Handlers that will not read, behind the others, change nothing.
LEMMA MoreHandlers ==
  ASSUME NEW q \in Seq(Handlers), NEW r \in Seq(Handlers), Silent(r),
         NEW v, v = q \o r, NEW lo, NEW hi
  PROVE  /\ v \in Seq(Handlers)
         /\ Silent(v) <=> Silent(q)
         /\ Data(v) = Data(q)
         /\ Ordered(q, lo, hi) => Ordered(v, lo, hi)
<1>1. /\ v \in Seq(Handlers) /\ Len(q) \in Nat /\ Len(r) \in Nat
      /\ DOMAIN q = 1 .. Len(q) /\ DOMAIN r = 1 .. Len(r) /\ DOMAIN v = 1 .. Len(q) + Len(r)
      /\ \A i \in 1 .. Len(q) : v[i] = q[i]
      /\ \A i \in 1 .. Len(q) + Len(r) : i > Len(q) => i - Len(q) \in 1 .. Len(r) /\ v[i] = r[i - Len(q)]
  BY ConcatSteps
<1>2. \A i \in DOMAIN q : i \in DOMAIN v /\ v[i] = q[i]
  BY <1>1
<1>3. ASSUME NEW i \in DOMAIN v, Reads(v[i])
      PROVE  i \in DOMAIN q /\ v[i] = q[i]
  <2>1. CASE i \in DOMAIN q
    BY <1>2, <2>1
  <2>2. CASE i \notin DOMAIN q
    <3>1. i > Len(q) /\ i \in 1 .. Len(q) + Len(r)
      BY <1>1, <2>2
    <3>2. i - Len(q) \in DOMAIN r /\ v[i] = r[i - Len(q)]
      BY <1>1, <3>1
    <3> QED BY <1>3, <3>2 DEF Silent
  <2> QED BY <2>1, <2>2
<1>4. Silent(v) <=> Silent(q)
  BY <1>2, <1>3 DEF Silent
<1>5. Data(v) = Data(q)
  BY <1>2, <1>3 DEF Data, Reads
<1>6. \A i \in DOMAIN v : v[i].kind = "data" => i \in DOMAIN q /\ v[i] = q[i]
  BY <1>3 DEF Reads
<1>7. ASSUME Ordered(q, lo, hi) PROVE Ordered(v, lo, hi)
  BY <1>6, <1>7 DEF Ordered
<1> QED BY <1>1, <1>4, <1>5, <1>7

\* A handler behind the others.
LEMMA OneMore ==
  ASSUME NEW q \in Seq(Handlers), NEW h \in Handlers, NEW v, v = Append(q, h)
  PROVE  /\ v \in Seq(Handlers) /\ v = q \o <<h>> /\ <<h>> \in Seq(Handlers)
         /\ Reads(h) => ~Silent(v)
         /\ Data(v) = Data(q) \cup (IF h.kind = "data" THEN {h.chunk} ELSE {})
         /\ ~Reads(h) => Silent(<<h>>)
<1>1. /\ v \in Seq(Handlers) /\ Len(q) \in Nat /\ DOMAIN q = 1 .. Len(q)
      /\ DOMAIN v = 1 .. Len(q) + 1 /\ \A i \in 1 .. Len(q) : v[i] = q[i]
      /\ v[Len(q) + 1] = h
  BY QueueSteps
<1>2. v = q \o <<h>> /\ <<h>> \in Seq(Handlers)
  OBVIOUS
<1>3. /\ Len(q) + 1 \in DOMAIN v
      /\ \A i \in DOMAIN v : (i \in DOMAIN q /\ v[i] = q[i]) \/ (i = Len(q) + 1 /\ v[i] = h)
  BY <1>1
<1>4. Reads(h) => ~Silent(v)
  BY <1>1, <1>3 DEF Silent
<1>5. Data(v) = Data(q) \cup (IF h.kind = "data" THEN {h.chunk} ELSE {})
  <2>1. \A i \in DOMAIN q : i \in DOMAIN v /\ v[i] = q[i]
    BY <1>1
  <2> QED BY <1>1, <1>3, <2>1 DEF Data
<1>6. ~Reads(h) => Silent(<<h>>)
  BY DEF Silent
<1> QED BY <1>1, <1>2, <1>4, <1>5, <1>6

\* The handler of a read that ended with the parts up to m of the stream.
LEMMA OrderedData ==
  ASSUME NEW q \in Seq(Handlers), NEW h \in Handlers,
         NEW lo \in Nat, NEW hi \in Nat, lo <= hi, Ordered(q, lo, hi),
         hi < h.chunk.from, h.chunk.from <= h.chunk.to
  PROVE  Ordered(Append(q, h), lo, h.chunk.to)
<1> DEFINE v == Append(q, h)  m == h.chunk.to
<1>0. m \in Int /\ h.chunk.from \in Int /\ hi < m
  BY DEF Handlers, Chunks
<1>1. /\ Len(q) \in Nat /\ DOMAIN q = 1 .. Len(q)
      /\ DOMAIN v = 1 .. Len(q) + 1 /\ \A i \in 1 .. Len(q) : v[i] = q[i]
      /\ v[Len(q) + 1] = h
  BY QueueSteps
<1>2. \A i \in DOMAIN v : (i \in DOMAIN q /\ v[i] = q[i]) \/ (i = Len(q) + 1 /\ v[i] = h)
  BY <1>1
<1> HIDE DEF v
<1>3. \A i \in DOMAIN q : q[i].kind = "data" => q[i].chunk.to \in Int /\ q[i].chunk.from \in Int
  <2>1. \A i \in DOMAIN q : q[i] \in Handlers
    BY ElementOfSeq, LenProperties
  <2> QED BY <2>1 DEF Handlers, Chunks
<1>4. ASSUME NEW i \in DOMAIN v, v[i].kind = "data"
      PROVE  lo < v[i].chunk.from /\ v[i].chunk.from <= v[i].chunk.to /\ v[i].chunk.to <= m
  <2>1. CASE i \in DOMAIN q /\ v[i] = q[i]
    <3>1. lo < q[i].chunk.from /\ q[i].chunk.from <= q[i].chunk.to /\ q[i].chunk.to <= hi
      BY <1>4, <2>1 DEF Ordered
    <3>2. q[i].chunk.to \in Int
      BY <1>3, <1>4, <2>1
    <3> QED BY <1>0, <2>1, <3>1, <3>2
  <2>2. CASE v[i] = h
    BY <1>0, <2>2
  <2> QED BY <1>2, <2>1, <2>2
<1>5. ASSUME NEW i \in DOMAIN v, NEW j \in DOMAIN v, i < j, v[i].kind = "data", v[j].kind = "data"
      PROVE  v[i].chunk.to < v[j].chunk.from
  <2>1. i \in DOMAIN q /\ v[i] = q[i]
    BY <1>1, <1>5
  <2>2. CASE j \in DOMAIN q /\ v[j] = q[j]
    BY <1>5, <2>1, <2>2 DEF Ordered
  <2>3. CASE v[j] = h
    <3>1. q[i].chunk.to <= hi /\ q[i].chunk.to \in Int
      BY <1>3, <1>5, <2>1 DEF Ordered
    <3> QED BY <1>0, <2>1, <2>3, <3>1
  <2> QED BY <1>2, <2>2, <2>3
<1>6. Ordered(v, lo, m)
  BY <1>4, <1>5 DEF Ordered
<1> QED BY <1>6 DEF v

\* The first handler leaves the queue.
LEMMA OneLess ==
  ASSUME NEW q \in Seq(Handlers), q # <<>>, NEW v, v = Tail(q), NEW h, h = Head(q),
         NEW lo \in Nat, NEW hi \in Nat
  PROVE  /\ v \in Seq(Handlers) /\ h \in Handlers
         /\ ~Reads(h) => (Silent(v) <=> Silent(q))
         /\ h.kind = "data" => Data(q) = Data(v) \cup {h.chunk}
         /\ h.kind # "data" => Data(q) = Data(v)
         /\ Silent(q) => ~Reads(h) /\ Silent(v)
         /\ Ordered(q, lo, hi) => Ordered(v, lo, hi)
         /\ Ordered(q, lo, hi) /\ h.kind = "data" =>
              /\ Ordered(v, lo + 1, hi) /\ lo + 1 <= hi
              /\ h.chunk.from <= h.chunk.to /\ h.chunk.to <= hi
              /\ \A c \in Data(v) : Before(h.chunk, c)
<1>1. /\ h \in Handlers /\ h = q[1] /\ Len(q) \in Nat /\ Len(q) > 0 /\ DOMAIN q = 1 .. Len(q)
      /\ v \in Seq(Handlers) /\ DOMAIN v = 1 .. Len(q) - 1
      /\ \A i \in 1 .. Len(q) - 1 : v[i] = q[i + 1]
  BY QueueSteps
<1>2. /\ 1 \in DOMAIN q /\ q[1] = h
      /\ \A i \in DOMAIN v : i \in Nat /\ 1 < i + 1 /\ i + 1 \in DOMAIN q /\ v[i] = q[i + 1]
      /\ \A i \in DOMAIN q : i = 1 \/ (i - 1 \in DOMAIN v /\ q[i] = v[i - 1])
  BY <1>1
<1>3. ~Reads(h) => (Silent(v) <=> Silent(q))
  BY <1>2 DEF Silent
<1>5. /\ h.kind = "data" => Data(q) = Data(v) \cup {h.chunk}
      /\ h.kind # "data" => Data(q) = Data(v)
  <2>1. ASSUME NEW c \in Data(q) PROVE c \in Data(v) \/ (h.kind = "data" /\ c = h.chunk)
    <3>1. PICK i \in DOMAIN q : q[i].kind = "data" /\ c = q[i].chunk
      BY DEF Data
    <3> QED BY <1>2, <3>1 DEF Data
  <2>2. ASSUME NEW c \in Data(v) PROVE c \in Data(q)
    <3>1. PICK i \in DOMAIN v : v[i].kind = "data" /\ c = v[i].chunk
      BY DEF Data
    <3> QED BY <1>2, <3>1 DEF Data
  <2>3. h.kind = "data" => h.chunk \in Data(q)
    BY <1>2 DEF Data
  <2> QED BY <2>1, <2>2, <2>3
<1>6. Silent(q) => ~Reads(h) /\ Silent(v)
  BY <1>2 DEF Silent
<1>7. ASSUME Ordered(q, lo, hi)
      PROVE  \A i, j \in DOMAIN v :
               i < j /\ v[i].kind = "data" /\ v[j].kind = "data" => v[i].chunk.to < v[j].chunk.from
  <2> SUFFICES ASSUME NEW i \in DOMAIN v, NEW j \in DOMAIN v, i < j, v[i].kind = "data", v[j].kind = "data"
               PROVE  v[i].chunk.to < v[j].chunk.from
    OBVIOUS
  <2>1. /\ i + 1 \in DOMAIN q /\ j + 1 \in DOMAIN q /\ i + 1 < j + 1
        /\ v[i] = q[i + 1] /\ v[j] = q[j + 1]
    BY <1>2
  <2> QED BY <1>7, <2>1 DEF Ordered
<1>8. ASSUME Ordered(q, lo, hi) PROVE Ordered(v, lo, hi)
  BY <1>2, <1>7, <1>8 DEF Ordered
<1>9. ASSUME Ordered(q, lo, hi), h.kind = "data"
      PROVE  /\ Ordered(v, lo + 1, hi) /\ lo + 1 <= hi
             /\ h.chunk.from <= h.chunk.to /\ h.chunk.to <= hi
             /\ \A c \in Data(v) : Before(h.chunk, c)
  <2>1. lo < h.chunk.from /\ h.chunk.from <= h.chunk.to /\ h.chunk.to <= hi
    BY <1>2, <1>9 DEF Ordered
  <2>2. \A i \in DOMAIN q : q[i].chunk.to \in Int /\ q[i].chunk.from \in Int
    <3>1. \A i \in DOMAIN q : q[i] \in Handlers
      BY ElementOfSeq, LenProperties
    <3> QED BY <3>1 DEF Handlers, Chunks
  <2>3. h.chunk.to \in Int /\ h.chunk.from \in Int
    BY <1>2, <2>2
  <2>4. ASSUME NEW i \in DOMAIN v, v[i].kind = "data"
        PROVE  lo + 1 < v[i].chunk.from /\ v[i].chunk.from <= v[i].chunk.to /\ v[i].chunk.to <= hi
    <3>1. 1 < i + 1 /\ i + 1 \in DOMAIN q /\ v[i] = q[i + 1]
      BY <1>2
    <3>2. /\ h.chunk.to < v[i].chunk.from
          /\ v[i].chunk.from <= v[i].chunk.to /\ v[i].chunk.to <= hi
      BY <1>2, <1>9, <2>4, <3>1 DEF Ordered
    <3>3. v[i].chunk.from \in Int
      BY <2>2, <3>1
    <3> QED BY <2>1, <2>3, <3>2, <3>3
  <2>5. \A i \in DOMAIN v : v[i].kind = "data" => h.chunk.to < v[i].chunk.from
    BY <1>2, <1>9 DEF Ordered
  <2> QED BY <1>7, <1>9, <2>1, <2>3, <2>4, <2>5 DEF Ordered, Data, Before
<1> QED BY <1>1, <1>3, <1>5, <1>6, <1>8, <1>9
-----------------------------------------------------------------------------
(* The steps.                                                              *)

\* The numbers, and the handlers without a chunk.
LEMMA Basics ==
  ASSUME TypeOK
  PROVE  /\ MaxPackets \in Nat /\ MaxResets \in Nat /\ gen \in Nat /\ got \in Nat /\ counter \in Nat
         /\ Parts = 4 /\ StreamEnd = 4 * Len(sent)
         /\ \A k \in {"aborted", "error", "read"}, g \in 0 .. MaxResets : Handler(k, g, NoChunk) \in Handlers
         /\ \A k \in {"aborted", "error"}, g \in 0 .. MaxResets : ~Reads(Handler(k, g, NoChunk))
<1>1. MaxPackets \in Nat \ {0} /\ MaxResets \in Nat
  BY ReadLoopAssumption
<1>2. gen \in Nat
  BY <1>1 DEF TypeOK
<1>3. Len(sent) \in Nat => StreamEnd \in Nat
  BY DEF StreamEnd, Parts
<1>4. got \in Nat /\ counter \in Nat
  BY DEF TypeOK
<1>5. NoChunk \in Chunks
  BY <1>1 DEF NoChunk, Chunks, Parts
<1>6. \A k \in {"aborted", "error", "read"}, g \in 0 .. MaxResets : Handler(k, g, NoChunk) \in Handlers
  BY <1>5 DEF Handler, Handlers
<1>7. \A k \in {"aborted", "error"}, g \in 0 .. MaxResets : ~Reads(Handler(k, g, NoChunk))
  BY DEF Handler, Reads
<1> QED BY <1>1, <1>2, <1>4, <1>6, <1>7 DEF Parts, StreamEnd

\* A handler that was to read has run, and the chain goes on with its callback
\* (ReadImpl).
LEMMA ReadGoesOn ==
  ASSUME Inv, io # <<>>, Reads(Head(io)), ReadImpl(Head(io).gen, Tail(io)), NEW lo \in Nat
  PROVE  /\ armed' \in Seq(0 .. MaxResets) /\ bound' \in BOOLEAN /\ (bound' => armed' # <<>>)
         /\ io' \in Seq(Handlers)
         /\ (~ended => armed' # <<>>)
         /\ (Ordered(Tail(io), lo, got) => Ordered(io', lo, got))
         /\ Data(io') = Data(Tail(io))
<1> DEFINE h == Head(io)  rest == Tail(io)  e == Handler("error", h.gen, NoChunk)
<1>1. /\ io \in Seq(Handlers) /\ armed \in Seq(0 .. MaxResets) /\ got \in Nat
      /\ bound => armed # <<>>
  BY Basics DEF Inv, TypeOK
<1>2. /\ rest \in Seq(Handlers) /\ h \in Handlers
  BY <1>1, OneLess
<1>3. h.gen \in 0 .. MaxResets
  BY <1>2 DEF Handlers
<1>5. CASE ended
  <2>1. armed' = armed /\ bound' = FALSE /\ io' = Append(rest, e)
    BY <1>5 DEF ReadImpl
  <2>2. e \in Handlers /\ ~Reads(e)
    BY <1>3, Basics DEF Inv
  <2> HIDE DEF rest, e
  <2>3. io' = rest \o <<e>> /\ <<e>> \in Seq(Handlers) /\ Silent(<<e>>)
    BY <1>2, <2>1, <2>2, OneMore
  <2> DEFINE r == <<e>>
  <2>4. r \in Seq(Handlers) /\ Silent(r) /\ io' = rest \o r
    BY <2>3
  <2> HIDE DEF r
  <2>5. /\ io' \in Seq(Handlers) /\ Data(io') = Data(rest)
        /\ Ordered(rest, lo, got) => Ordered(io', lo, got)
    BY <1>2, <2>4, MoreHandlers
  <2>8. Ordered(Tail(io), lo, got) => Ordered(io', lo, got)
    BY <2>5 DEF rest
  <2> QED BY <1>1, <1>5, <2>1, <2>5, <2>8 DEF rest
<1>6. CASE ~ended
  <2>1. armed' = Append(armed, h.gen) /\ bound' = TRUE /\ io' = rest
    BY <1>6 DEF ReadImpl
  <2>2. armed' \in Seq(0 .. MaxResets) /\ armed' # <<>>
    BY <1>1, <1>3, <2>1
  <2> QED BY <1>2, <2>1, <2>2
<1> QED BY <1>5, <1>6

\* The handler of a read with data: one chunk more was counted and handed to
\* the pool.
LEMMA DataHandlerStep ==
  ASSUME Inv, DataHandler
  PROVE  Inv'
<1> DEFINE h == Head(io)
<1>1. /\ io # <<>> /\ h.kind = "data" /\ counter' = counter + 1 /\ pool' = Append(pool, h.chunk)
      /\ ReadImpl(h.gen, Tail(io))
      /\ UNCHANGED <<sent, got, ended, gen, removed, running>>
  BY DEF DataHandler, stream
<1>2. /\ io \in Seq(Handlers) /\ pool \in Seq(Chunks) /\ got \in Nat /\ counter \in Nat /\ Reads(h)
      /\ Ordered(io, counter, got)
  BY <1>1, Basics DEF Inv, TypeOK, InStream, Reads
<1>3. /\ h \in Handlers /\ Ordered(Tail(io), counter + 1, got) /\ counter + 1 <= got
      /\ h.chunk.from <= h.chunk.to /\ h.chunk.to <= got
      /\ \A c \in Data(Tail(io)) : Before(h.chunk, c)
      /\ Data(io) = Data(Tail(io)) \cup {h.chunk}
  BY <1>1, <1>2, OneLess
<1>4. counter + 1 \in Nat
  BY <1>2
<1>5. /\ armed' \in Seq(0 .. MaxResets) /\ bound' \in BOOLEAN /\ (bound' => armed' # <<>>)
      /\ io' \in Seq(Handlers)
      /\ (~ended => armed' # <<>>)
      /\ (Ordered(Tail(io), counter + 1, got) => Ordered(io', counter + 1, got))
      /\ Data(io') = Data(Tail(io))
  BY <1>1, <1>2, <1>4, ReadGoesOn
<1>6. h.chunk \in Chunks
  BY <1>3 DEF Handlers
<1> HIDE DEF h
<1>7. /\ pool' \in Seq(Chunks) /\ Len(pool) \in Nat /\ Len(pool') = Len(pool) + 1
      /\ DOMAIN pool = 1 .. Len(pool) /\ DOMAIN pool' = 1 .. Len(pool) + 1
      /\ \A i \in 1 .. Len(pool) : pool'[i] = pool[i]
      /\ pool'[Len(pool) + 1] = h.chunk
  BY <1>1, <1>2, <1>6, QueueSteps
<1>8. TypeOK'
  <2>1. counter' \in 0 .. got' /\ Len(pool') <= counter'
    BY <1>1, <1>2, <1>3, <1>7 DEF Inv, TypeOK
  <2> QED BY <1>1, <1>5, <1>7, <2>1 DEF Inv, TypeOK, StreamEnd
<1>9. InStream'
  <2>1. \A i \in DOMAIN pool' : pool'[i].from <= pool'[i].to /\ pool'[i].to <= got
    <3>1. \A i \in DOMAIN pool' : i \in DOMAIN pool \/ i = Len(pool) + 1
      BY <1>7
    <3> QED BY <1>3, <1>7, <3>1 DEF Inv, InStream
  <2> QED BY <1>1, <1>2, <1>3, <1>4, <1>5, <2>1 DEF InStream
<1>10. InHand'
  <2>1. Ahead(pool', Data(io'))
    <3>1. \A i \in DOMAIN pool : /\ \A j \in DOMAIN pool : i < j => Before(pool[i], pool[j])
                                 /\ Before(pool[i], h.chunk)
                                 /\ \A c \in Data(io') : Before(pool[i], c)
      BY <1>3, <1>5 DEF Inv, InHand, Ahead
    <3>2. \A i \in DOMAIN pool' : \/ i \in DOMAIN pool /\ pool'[i] = pool[i]
                                  \/ i = Len(pool) + 1 /\ pool'[i] = h.chunk
      BY <1>7
    <3>3. \A i \in DOMAIN pool' : ~(Len(pool) + 1 < i)
      BY <1>7
    <3>4. \A c \in Data(io') : Before(h.chunk, c)
      BY <1>3, <1>5
    <3> QED BY <3>1, <3>2, <3>3, <3>4 DEF Ahead
  <2>2. ToSet(pool') = ToSet(pool) \cup {h.chunk}
    BY <1>1, <1>2, <1>6, CountAppend
  <2>3. ToSet(pool') \cup Data(io') = ToSet(pool) \cup Data(io)
    BY <1>3, <1>5, <2>2
  <2> QED BY <1>1, <2>1, <2>3 DEF Inv, InHand
<1>11. ReadAlive'
  BY <1>1, <1>5 DEF ReadAlive
<1>12. Written'
  BY <1>1 DEF Inv, Written
<1> QED BY <1>8, <1>9, <1>10, <1>11, <1>12 DEF Inv

\* The handler that ResetReadCallback posted reads with the new callback.
LEMMA ReadAgainStep ==
  ASSUME Inv, ReadAgain
  PROVE  Inv'
<1>1. /\ io # <<>> /\ Head(io).kind = "read" /\ ReadImpl(Head(io).gen, Tail(io))
      /\ UNCHANGED <<sent, got, ended, gen, counter, pool, removed, running>>
  BY DEF ReadAgain, stream
<1>2. /\ io \in Seq(Handlers) /\ got \in Nat /\ counter \in Nat /\ Reads(Head(io))
      /\ Ordered(io, counter, got)
  BY <1>1, Basics DEF Inv, TypeOK, InStream, Reads
<1>3. Ordered(Tail(io), counter, got) /\ Data(io) = Data(Tail(io))
  BY <1>1, <1>2, OneLess
<1>4. /\ armed' \in Seq(0 .. MaxResets) /\ bound' \in BOOLEAN /\ (bound' => armed' # <<>>)
      /\ io' \in Seq(Handlers)
      /\ (~ended => armed' # <<>>)
      /\ (Ordered(Tail(io), counter, got) => Ordered(io', counter, got))
      /\ Data(io') = Data(Tail(io))
  BY <1>1, <1>2, ReadGoesOn
<1>5. TypeOK'
  BY <1>1, <1>4 DEF Inv, TypeOK, StreamEnd
<1>6. InStream'
  BY <1>1, <1>3, <1>4 DEF Inv, InStream
<1>7. InHand'
  BY <1>1, <1>3, <1>4 DEF Inv, InHand
<1>8. ReadAlive'
  BY <1>1, <1>4 DEF ReadAlive
<1>9. Written'
  BY <1>1 DEF Inv, Written
<1> QED BY <1>5, <1>6, <1>7, <1>8, <1>9 DEF Inv

\* The handler of an aborted or failed read reads no more.
LEMMA ErrorHandlerStep ==
  ASSUME Inv, ErrorHandler
  PROVE  Inv'
<1> DEFINE h == Head(io)
<1>1. /\ io # <<>> /\ h.kind \in {"aborted", "error"} /\ io' = Tail(io)
      /\ removed' = (removed \/ h.kind = "error")
      /\ UNCHANGED <<sent, got, ended, armed, bound, gen, counter, pool, running>>
  BY DEF ErrorHandler, stream
<1>2. /\ io \in Seq(Handlers) /\ got \in Nat /\ counter \in Nat /\ ~Reads(h)
      /\ Ordered(io, counter, got)
  BY <1>1, Basics DEF Inv, TypeOK, InStream, Reads
<1>3. /\ io' \in Seq(Handlers) /\ (Silent(io') <=> Silent(io))
      /\ Data(io) = Data(io') /\ Ordered(io', counter, got)
  BY <1>1, <1>2, OneLess
<1>4. TypeOK'
  <2>1. removed' \in BOOLEAN
    BY <1>1 DEF Inv, TypeOK
  <2> QED BY <1>1, <1>3, <2>1 DEF Inv, TypeOK, StreamEnd
<1>5. InStream'
  BY <1>1, <1>3 DEF Inv, InStream
<1>6. InHand'
  BY <1>1, <1>3 DEF Inv, InHand
<1>7. ReadAlive'
  <2>1. armed # <<>> \/ ~Silent(io) => armed' # <<>> \/ ~Silent(io')
    BY <1>1, <1>3
  <2> QED BY <1>1, <2>1 DEF Inv, ReadAlive, Silent, Reads
<1>8. Written'
  BY <1>1 DEF Inv, Written
<1> QED BY <1>4, <1>5, <1>6, <1>7, <1>8 DEF Inv

\* The peer writes one packet more.
LEMMA SendStep ==
  ASSUME Inv, NEW kind \in Kinds, Send(kind)
  PROVE  Inv'
<1> DEFINE p == CreatePacket(Payload(kind.size, Len(sent) + 1), kind.flags, kind.stamp, Len(sent) + 1)
<1>1. /\ Len(sent) < MaxPackets /\ sent' = Append(sent, p)
      /\ UNCHANGED <<got, ended, armed, bound, io, gen, counter, pool, removed, running>>
  BY DEF Send, reads
<1>2. sent \in Seq(Made) /\ Len(sent) \in Nat /\ MaxPackets \in Nat
  BY Basics, LenProperties DEF Inv, Written
<1>3. p \in Made
  <2>1. Len(sent) + 1 \in 1 .. MaxPackets
    BY <1>1, <1>2
  <2> QED BY <2>1 DEF Made
<1> HIDE DEF p
<1>4. sent' \in Seq(Made) /\ Len(sent') = Len(sent) + 1
  BY <1>1, <1>2, <1>3, QueueSteps
<1>5. TypeOK'
  <2>1. Len(sent') <= MaxPackets /\ got' \in 0 .. 4 * Len(sent')
    BY <1>1, <1>2, <1>4 DEF Inv, TypeOK, StreamEnd, Parts
  <2> QED BY <1>1, <2>1 DEF Inv, TypeOK, StreamEnd, Parts
<1> QED BY <1>1, <1>4, <1>5 DEF Inv, Written, InStream, InHand, ReadAlive

\* A read ends with the next parts of the stream; its handler will read on.
LEMMA ArriveStep ==
  ASSUME Inv, NEW m \in got + 1 .. StreamEnd, Arrive(m)
  PROVE  Inv'
<1> DEFINE c == [from |-> got + 1, to |-> m]  h == Handler("data", Head(armed), c)
<1>1. /\ armed # <<>> /\ io' = Append(io, h) /\ got' = m /\ armed' = Tail(armed)
      /\ bound' = (bound /\ Len(armed) > 1)
      /\ UNCHANGED <<sent, ended, gen, counter, pool, removed, running>>
  BY DEF Arrive
<1>2. /\ io \in Seq(Handlers) /\ armed \in Seq(0 .. MaxResets) /\ got \in Nat /\ counter \in Nat
      /\ counter <= got /\ Ordered(io, counter, got)
      /\ StreamEnd = 4 * Len(sent) /\ Len(sent) \in Nat /\ Len(sent) <= MaxPackets /\ MaxPackets \in Nat
  BY Basics, LenProperties DEF Inv, TypeOK, InStream, Written
<1>3. m \in Nat /\ got < m /\ m <= 4 * Len(sent) /\ m <= 4 * MaxPackets /\ got + 1 <= 4 * MaxPackets
  BY <1>2
<1>4. /\ Head(armed) \in 0 .. MaxResets /\ Head(armed) = armed[1]
      /\ armed' \in Seq(0 .. MaxResets) /\ Len(armed') = Len(armed) - 1 /\ Len(armed) \in Nat
  BY <1>1, <1>2, QueueSteps
<1>5. /\ h \in Handlers /\ Reads(h) /\ h.gen = Head(armed) /\ h.chunk = c
      /\ h.chunk.from = got + 1 /\ h.chunk.to = m
  <2>1. c \in Chunks
    BY <1>2, <1>3 DEF Chunks, Parts
  <2> QED BY <1>4, <2>1 DEF Handler, Handlers, Reads
<1>6. /\ io' \in Seq(Handlers) /\ ~Silent(io') /\ Data(io') = Data(io) \cup {c}
  <2>1. h.kind = "data"
    BY DEF h, Handler
  <2> QED BY <1>1, <1>2, <1>5, <2>1, OneMore
<1> HIDE DEF h
<1>7. Ordered(io', counter, m)
  <2> HIDE DEF c
  <2>1. /\ io \in Seq(Handlers) /\ h \in Handlers /\ io' = Append(io, h)
        /\ counter \in Nat /\ got \in Nat /\ counter <= got /\ Ordered(io, counter, got)
        /\ got < h.chunk.from /\ h.chunk.from <= h.chunk.to
    BY <1>1, <1>2, <1>3, <1>5
  <2>2. Ordered(Append(io, h), counter, h.chunk.to)
    BY <2>1, OrderedData
  <2> QED BY <1>5, <2>1, <2>2
<1>8. TypeOK'
  <2>1. got' \in 0 .. StreamEnd' /\ counter' \in 0 .. got'
    BY <1>1, <1>2, <1>3 DEF StreamEnd, Parts
  <2>2. bound' \in BOOLEAN /\ (bound' => armed' # <<>>)
    <3>1. Len(armed) > 1 => armed' # <<>>
      BY <1>4
    <3> QED BY <1>1, <3>1 DEF Inv, TypeOK
  <2> QED BY <1>1, <1>4, <1>6, <2>1, <2>2 DEF Inv, TypeOK
<1>9. InStream'
  <2>1. ASSUME NEW i \in DOMAIN pool PROVE pool[i].from <= pool[i].to /\ pool[i].to <= m
    <3>1. pool[i].from <= pool[i].to /\ pool[i].to <= got
      BY DEF Inv, InStream
    <3>2. pool[i] \in Chunks
      BY ElementOfSeq, LenProperties DEF Inv, TypeOK
    <3>3. pool[i].to \in Int
      BY <3>2 DEF Chunks
    <3> QED BY <1>2, <1>3, <3>1, <3>3
  <2>2. counter <= m
    BY <1>2, <1>3
  <2> QED BY <1>1, <1>2, <1>7, <2>1, <2>2 DEF InStream
<1>10. InHand'
  <2>1. ASSUME NEW i \in DOMAIN pool PROVE Before(pool[i], c)
    <3>1. pool[i].to <= got
      BY DEF Inv, InStream
    <3>2. pool[i] \in Chunks
      BY ElementOfSeq, LenProperties DEF Inv, TypeOK
    <3>3. pool[i].to \in Int
      BY <3>2 DEF Chunks
    <3> QED BY <1>2, <3>1, <3>3 DEF Before
  <2>2. Ahead(pool, Data(io'))
    BY <1>6, <2>1 DEF Inv, InHand, Ahead
  <2>3. Covered(ToSet(pool) \cup Data(io'), m)
    <3> DEFINE W == ToSet(pool) \cup Data(io)
    <3>1. Covered(W, got) /\ ToSet(pool) \cup Data(io') = W \cup {c}
      BY <1>6 DEF Inv, InHand
    <3> HIDE DEF W
    <3>2. ASSUME NEW k \in 1 .. m
          PROVE  (\E d \in W \cup {c} : k \in d.from .. d.to) \/ (\A d \in W \cup {c} : k < d.from)
      <4>1. CASE k <= got
        <5>1. k \in 1 .. got /\ k < c.from
          BY <1>2, <3>2, <4>1
        <5> QED BY <3>1, <5>1 DEF Covered
      <4>2. CASE ~(k <= got)
        <5>1. c.from = got + 1 /\ c.to = m
          OBVIOUS
        <5>2. k \in c.from .. c.to
          BY <1>2, <1>3, <3>2, <4>2, <5>1
        <5> QED BY <5>2
      <4> QED BY <4>1, <4>2
    <3> QED BY <3>1, <3>2 DEF Covered
  <2> QED BY <1>1, <2>2, <2>3 DEF InHand
<1>11. ReadAlive'
  BY <1>6 DEF ReadAlive, Silent, Reads
<1>12. Written'
  BY <1>1 DEF Inv, Written
<1> QED BY <1>8, <1>9, <1>10, <1>11, <1>12 DEF Inv

\* The connection ends, and with it every read that waits.
LEMMA DisconnectStep ==
  ASSUME Inv, Disconnect
  PROVE  Inv'
<1> DEFINE r == [i \in DOMAIN armed |-> Handler("error", armed[i], NoChunk)]
<1>1. /\ ended' = TRUE /\ io' = io \o r /\ armed' = <<>> /\ bound' = FALSE
      /\ UNCHANGED <<sent, got, gen, counter, pool, removed, running>>
  BY DEF Disconnect
<1>2. /\ io \in Seq(Handlers) /\ Len(armed) \in Nat /\ DOMAIN armed = 1 .. Len(armed)
      /\ \A i \in DOMAIN armed : armed[i] \in 0 .. MaxResets
      /\ got \in Nat /\ counter \in Nat /\ Ordered(io, counter, got)
  BY Basics, LenProperties, ElementOfSeq DEF Inv, TypeOK, InStream
<1>3. r \in Seq(Handlers) /\ Silent(r)
  <2>1. \A i \in DOMAIN armed : Handler("error", armed[i], NoChunk) \in Handlers /\ ~Reads(Handler("error", armed[i], NoChunk))
    BY <1>2, Basics DEF Inv
  <2>2. r \in [1 .. Len(armed) -> Handlers] /\ \A i \in 1 .. Len(armed) : ~Reads(r[i])
    BY <1>2, <2>1
  <2> HIDE DEF r
  <2>3. r \in Seq(Handlers) /\ DOMAIN r = 1 .. Len(armed)
    BY <1>2, <2>2
  <2> QED BY <2>2, <2>3 DEF Silent
<1> HIDE DEF r
<1>4. /\ io' \in Seq(Handlers) /\ (Silent(io') <=> Silent(io))
      /\ Data(io') = Data(io) /\ Ordered(io', counter, got)
  BY <1>1, <1>2, <1>3, MoreHandlers
<1>5. TypeOK'
  <2>1. armed' \in Seq(0 .. MaxResets) /\ bound' \in BOOLEAN /\ (bound' => armed' # <<>>)
    <3>1. armed' \in Seq(0 .. MaxResets)
      BY <1>1
    <3>2. bound' \in BOOLEAN /\ ~bound'
      BY <1>1, Zenon
    <3> QED BY <3>1, <3>2
  <2>2. got' \in 0 .. StreamEnd' /\ ended' \in BOOLEAN /\ counter' \in 0 .. got'
    BY <1>1 DEF Inv, TypeOK, StreamEnd
  <2> QED BY <1>1, <1>4, <2>1, <2>2 DEF Inv, TypeOK
<1>6. InStream'
  BY <1>1, <1>4 DEF Inv, InStream
<1>7. InHand'
  BY <1>1, <1>4 DEF Inv, InHand
<1>8. ReadAlive' /\ Written'
  BY <1>1 DEF Inv, ReadAlive, Written
<1> QED BY <1>5, <1>6, <1>7, <1>8 DEF Inv

\* ResetReadCallback aborts the read that its signal reaches, and posts a
\* handler that will read with the new callback.
LEMMA ResetStep ==
  ASSUME Inv, ResetReadCallback
  PROVE  Inv'
<1> DEFINE r == IF bound THEN <<Handler("aborted", Last(armed), NoChunk)>> ELSE <<>>
           h == Handler("read", gen + 1, NoChunk)
           q == io \o r
<1>1. /\ gen < MaxResets /\ gen' = gen + 1 /\ bound' = FALSE
      /\ armed' = (IF bound THEN Front(armed) ELSE armed)
      /\ io' = Append(q, h)
      /\ UNCHANGED <<sent, got, ended, counter, pool, removed, running>>
  BY DEF ResetReadCallback, stream
<1>2. /\ io \in Seq(Handlers) /\ armed \in Seq(0 .. MaxResets) /\ Len(armed) \in Nat
      /\ DOMAIN armed = 1 .. Len(armed) /\ got \in Nat /\ counter \in Nat /\ Ordered(io, counter, got)
      /\ gen \in Nat /\ MaxResets \in Nat /\ bound \in BOOLEAN /\ (bound => armed # <<>>)
  BY Basics, LenProperties DEF Inv, TypeOK, InStream
<1>3. ASSUME bound
      PROVE  Last(armed) \in 0 .. MaxResets /\ Front(armed) \in Seq(0 .. MaxResets)
  <2>1. Len(armed) > 0
    BY <1>2, <1>3
  <2>2. Len(armed) \in DOMAIN armed /\ \A i \in DOMAIN armed : armed[i] \in 0 .. MaxResets
    BY <1>2, <2>1, ElementOfSeq
  <2>3. Front(armed) = SubSeq(armed, 1, Len(armed) - 1)
    BY DEF Front
  <2>4. \A i \in 1 .. Len(armed) - 1 : armed[i] \in 0 .. MaxResets
    BY <1>2, <2>2
  <2>5. SubSeq(armed, 1, Len(armed) - 1) \in Seq(0 .. MaxResets)
    BY <1>2, <2>1, <2>4, SubSeqProperties
  <2> QED BY <2>2, <2>3, <2>5 DEF Last
<1>4. r \in Seq(Handlers) /\ Silent(r)
  <2>1. CASE bound
    <3> DEFINE a == Handler("aborted", Last(armed), NoChunk)
    <3>1. a \in Handlers /\ ~Reads(a)
      BY <1>3, <2>1, Basics DEF Inv
    <3>2. r = <<a>>
      BY <2>1
    <3> HIDE DEF a, r
    <3> QED BY <3>1, <3>2, OneMore DEF Silent
  <2>2. CASE ~bound
    BY <2>2 DEF Silent
  <2> QED BY <1>2, <2>1, <2>2
<1>5. h \in Handlers /\ Reads(h) /\ h.gen = gen + 1 /\ h.kind = "read"
  <2>1. gen + 1 \in 0 .. MaxResets
    BY <1>1, <1>2
  <2> QED BY <2>1, Basics DEF Inv, Handler, Reads
<1> HIDE DEF r, h
<1>6. /\ q \in Seq(Handlers) /\ Data(q) = Data(io) /\ Ordered(q, counter, got)
  BY <1>2, <1>4, MoreHandlers
<1> HIDE DEF q
<1>7. /\ io' \in Seq(Handlers) /\ ~Silent(io') /\ Data(io') = Data(io)
  BY <1>1, <1>5, <1>6, OneMore
<1>8. Ordered(io', counter, got)
  <2>1. /\ Len(q) \in Nat /\ DOMAIN q = 1 .. Len(q)
        /\ DOMAIN io' = 1 .. Len(q) + 1 /\ \A i \in 1 .. Len(q) : io'[i] = q[i]
        /\ io'[Len(q) + 1] = h
    BY <1>1, <1>5, <1>6, QueueSteps
  <2>2. \A i \in DOMAIN io' : io'[i].kind = "data" => i \in DOMAIN q /\ io'[i] = q[i]
    <3> SUFFICES ASSUME NEW i \in DOMAIN io', io'[i].kind = "data" PROVE i \in DOMAIN q /\ io'[i] = q[i]
      OBVIOUS
    <3>1. i # Len(q) + 1
      BY <1>5, <2>1
    <3> QED BY <2>1, <3>1
  <2> QED BY <1>6, <2>2 DEF Ordered
<1>9. TypeOK'
  <2>1. gen' \in 0 .. MaxResets
    BY <1>1, <1>2
  <2>2. armed' \in Seq(0 .. MaxResets)
    BY <1>1, <1>2, <1>3
  <2> QED BY <1>1, <1>7, <2>1, <2>2 DEF Inv, TypeOK, StreamEnd
<1>10. InStream'
  BY <1>1, <1>8 DEF Inv, InStream
<1>11. InHand'
  BY <1>1, <1>7 DEF Inv, InHand
<1>12. ReadAlive'
  BY <1>7 DEF ReadAlive, Silent, Reads
<1>13. Written'
  BY <1>1 DEF Inv, Written
<1> QED BY <1>9, <1>10, <1>11, <1>12, <1>13 DEF Inv

\* A thread of the pool takes a chunk.
LEMMA ParseStep ==
  ASSUME Inv, Parse
  PROVE  Inv'
<1>1. /\ running /\ pool # <<>> /\ pool' = Tail(pool)
      /\ running' \in BOOLEAN
      /\ UNCHANGED <<sent, got, ended, armed, bound, io, gen, counter, removed>>
  BY DEF Parse, stream, reads
<1>2. pool \in Seq(Chunks) /\ Len(pool) <= counter /\ counter \in Nat
  BY Basics DEF Inv, TypeOK
<1>3. /\ pool' \in Seq(Chunks) /\ Len(pool) \in Nat /\ Len(pool') = Len(pool) - 1
      /\ DOMAIN pool = 1 .. Len(pool) /\ DOMAIN pool' = 1 .. Len(pool) - 1
      /\ \A i \in 1 .. Len(pool) - 1 : pool'[i] = pool[i + 1]
  BY <1>1, <1>2, QueueSteps
<1>4. \A i \in DOMAIN pool' : i + 1 \in DOMAIN pool /\ pool'[i] = pool[i + 1]
  BY <1>3
<1>5. TypeOK'
  <2>1. Len(pool') <= counter
    BY <1>2, <1>3
  <2> QED BY <1>1, <1>3, <2>1 DEF Inv, TypeOK, StreamEnd
<1>6. InStream'
  BY <1>1, <1>4 DEF Inv, InStream
<1>7. InHand'
  <2> DEFINE h == Head(pool)  V == ToSet(pool') \cup Data(io)
  <2>1. /\ 1 \in DOMAIN pool /\ h = pool[1] /\ ToSet(pool) = {h} \cup ToSet(pool')
        /\ \A i \in DOMAIN pool' : 1 < i + 1
    BY <1>1, <1>2, <1>3, CountTail, QueueSteps
  <2>2. Ahead(pool', Data(io))
    <3>1. \A i, j \in DOMAIN pool' : i < j => i + 1 < j + 1
      BY <1>3
    <3> QED BY <1>4, <3>1 DEF Inv, InHand, Ahead
  <2>3. \A c \in V : Before(h, c)
    <3>1. \A i \in DOMAIN pool' : Before(h, pool'[i])
      BY <1>4, <2>1 DEF Inv, InHand, Ahead
    <3>2. \A c \in Data(io) : Before(h, c)
      BY <2>1 DEF Inv, InHand, Ahead
    <3> QED BY <3>1, <3>2 DEF ToSet
  <2>4. \A c \in V : c \in Chunks
    <3>1. \A i \in DOMAIN pool' : pool'[i] \in Chunks
      BY <1>3, ElementOfSeq
    <3>2. \A c \in Data(io) : c \in Chunks
      <4>1. \A i \in DOMAIN io : io[i] \in Handlers
        BY ElementOfSeq, LenProperties DEF Inv, TypeOK
      <4> QED BY <4>1 DEF Data, Handlers
    <3> QED BY <3>1, <3>2 DEF ToSet
  <2>5. h.to \in Int /\ h.from \in Int /\ got \in Nat /\ \A c \in V : c.from \in Int
    <3>1. h \in Chunks
      BY <1>2, <2>1, ElementOfSeq, LenProperties
    <3> QED BY <2>4, <3>1, Basics DEF Chunks, Inv
  <2>6. Covered({h} \cup V, got)
    <3>1. ToSet(pool) \cup Data(io) = {h} \cup V
      BY <2>1
    <3> QED BY <3>1 DEF Inv, InHand
  <2> HIDE DEF V, h
  <2>7. Covered(V, got)
    <3>1. ASSUME NEW k \in 1 .. got
          PROVE  (\E c \in V : k \in c.from .. c.to) \/ (\A c \in V : k < c.from)
      <4>1. CASE k \in h.from .. h.to
        BY <2>3, <2>5, <3>1, <4>1 DEF Before
      <4>2. CASE k \notin h.from .. h.to
        BY <2>6, <4>2 DEF Covered
      <4> QED BY <4>1, <4>2
    <3> QED BY <3>1 DEF Covered
  <2> QED BY <1>1, <2>2, <2>7 DEF InHand, V
<1>8. ReadAlive' /\ Written'
  BY <1>1 DEF Inv, ReadAlive, Written
<1> QED BY <1>5, <1>6, <1>7, <1>8 DEF Inv

\* At the start one read waits, with the first callback.
LEMMA InvInit == Init => Inv
<1> SUFFICES ASSUME Init PROVE Inv
  OBVIOUS
<1>1. TypeOK
  <2>1. 0 \in 0 .. MaxResets /\ Len(sent) <= MaxPackets /\ got \in 0 .. StreamEnd /\ counter \in 0 .. got
    BY ReadLoopAssumption DEF Init, StreamEnd, Parts
  <2>2. armed \in Seq(0 .. MaxResets) /\ armed # <<>>
    BY <2>1 DEF Init
  <2>3. /\ io \in Seq(Handlers) /\ pool \in Seq(Chunks) /\ Len(pool) <= counter
        /\ gen \in 0 .. MaxResets
    BY <2>1 DEF Init
  <2>4. /\ ended \in BOOLEAN /\ bound \in BOOLEAN /\ removed \in BOOLEAN
        /\ running \in BOOLEAN
    BY DEF Init
  <2> QED BY <2>1, <2>2, <2>3, <2>4 DEF TypeOK
<1>2. Silent(io) /\ Ordered(io, counter, got)
  BY DEF Init, Silent, Ordered
<1>3. Written /\ InStream
  BY <1>2 DEF Init, Written, InStream
<1>4. InHand /\ ReadAlive
  BY DEF Init, InHand, Ahead, Covered, ReadAlive
<1> QED BY <1>1, <1>3, <1>4 DEF Inv

\* Every step keeps the invariant.
LEMMA InvStep ==
  ASSUME Inv, [Next]_vars
  PROVE  Inv'
<1>1. ASSUME NEW kind \in Kinds, Send(kind) PROVE Inv'
  BY <1>1, SendStep
<1>2. ASSUME NEW m \in got + 1 .. StreamEnd, Arrive(m) PROVE Inv'
  BY <1>2, ArriveStep
<1>3. CASE Disconnect
  BY <1>3, DisconnectStep
<1>4. CASE IoHandler
  BY <1>4, DataHandlerStep, ErrorHandlerStep, ReadAgainStep DEF IoHandler
<1>5. CASE ResetReadCallback
  BY <1>5, ResetStep
<1>6. CASE Parse
  BY <1>6, ParseStep
<1>7. CASE UNCHANGED vars
  BY <1>7 DEF vars, stream, reads, Inv, TypeOK, StreamEnd, Written, InStream, InHand, ReadAlive
<1> QED BY <1>1, <1>2, <1>3, <1>4, <1>5, <1>6, <1>7 DEF Next

\* The invariant holds always.
LEMMA AlwaysInv == Spec => []Inv
  BY InvInit, InvStep, PTL DEF Spec

\* The state is of its type: the pool has no more chunks than were counted, and
\* no more were counted than parts were read (server.h:79-96).
THEOREM TypeCorrect == Spec => []TypeOK
<1>1. Inv => TypeOK
  BY DEF Inv
<1> QED BY <1>1, AlwaysInv, PTL

\* Until the connection ends a read waits or a handler that will read is due,
\* however often the callback is replaced (server.h:50-59, 98-104).
THEOREM ChainGoesOn == Spec => []ReadAlive
<1>1. Inv => ReadAlive
  BY DEF Inv
<1> QED BY <1>1, AlwaysInv, PTL

\* The pool is handed the whole stream in order, whichever callbacks read it
\* and however often a reset misses the read it should stop (server.h:50-59,
\* 79-104).
THEOREM StreamInOrder == Spec => []HandedInOrder
<1>1. Inv => HandedInOrder
  <2> SUFFICES ASSUME Inv PROVE HandedInOrder
    OBVIOUS
  <2>1. Waiting = ToSet(pool) \cup Data(io)
    BY DEF Waiting, Data, DataAt
  <2>2. \A j \in DOMAIN io : DataAt(j) => io[j].kind = "data" /\ io[j].chunk \in Data(io)
    BY DEF Data, DataAt
  <2>3. \A i, j \in DOMAIN io : i < j /\ DataAt(i) /\ DataAt(j) => Before(io[i].chunk, io[j].chunk)
    BY <2>2 DEF Inv, InStream, Ordered, Before
  <2>4. /\ \A i, j \in DOMAIN pool : i < j => Before(pool[i], pool[j])
        /\ \A i \in DOMAIN pool, j \in DOMAIN io : DataAt(j) => Before(pool[i], io[j].chunk)
    BY <2>2 DEF Inv, InHand, Ahead
  <2>5. \A n \in 1 .. got : (\E c \in Waiting : n \in c.from .. c.to) \/ (\A c \in Waiting : n < c.from)
    BY <2>1 DEF Inv, InHand, Covered
  <2> QED BY <2>3, <2>4, <2>5 DEF HandedInOrder
<1> QED BY <1>1, AlwaysInv, PTL

\* However TCP joins and splits the packets, what is accepted as encrypted is one
\* that was sent, unchanged, whatever the sizes, flags and times of the packets
\* (packet.cpp:137-156).
THEOREM OnlySentIsAccepted == Spec => []AcceptedWasSent
<1>1. Inv => AcceptedWasSent
  BY VerdictOfChunk DEF AcceptedWasSent
<1> QED BY <1>1, AlwaysInv, PTL

\* A packet that a read has brought whole and from its first byte is accepted,
\* with the payload that was sent, when it is at most 30 seconds old and not
\* from the future, and refused as untimely if not (packet.cpp:80-103, 130-180).
THEOREM SentIsAccepted == Spec => []WholeIsAccepted
<1>1. Inv => WholeIsAccepted
  BY VerdictOfChunk DEF WholeIsAccepted
<1> QED BY <1>1, AlwaysInv, PTL
=============================================================================
