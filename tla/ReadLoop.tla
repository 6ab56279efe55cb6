------------------------------ MODULE ReadLoop ------------------------------
(***************************************************************************)
(* How a session of the server reads (net/server.h, SessionServer): the    *)
(* chain of reads, each of which takes whatever TCP has ready for one      *)
(* packet; the callback of the chain and its replacement by                *)
(* ResetReadCallback; and the tasks of the pool that parse what was read.  *)
(*                                                                         *)
(* The peer's packets follow one another in the stream, each as the parts  *)
(* of module Packet.  TCP hands them over in pieces of its own choice, cut *)
(* between parts.                                                          *)
(***************************************************************************)
EXTENDS Packet, SequencesExt

CONSTANTS
  Kinds,       \* the packets that are tried: size of the payload, flags, and
               \* timestamp, when they are read at time Now
  MaxPackets,  \* bound: packets that the peer sends
  MaxResets    \* bound: calls of ResetReadCallback

Now == 100

ASSUME ReadLoopAssumption ==
  /\ Kinds \subseteq [size : 0 .. TCP_PAYLOAD_SIZE_MAX, flags : 0 .. 255, stamp : 0 .. 2 * Now]
  /\ MaxPackets \in Nat \ {0} /\ MaxResets \in Nat

VARIABLES
  sent,     \* the packets the peer has written, in order
  got,      \* number of parts of the stream that were read
  ended,    \* the connection has ended
  armed,    \* reads that wait, oldest first: the generation of their callback
  bound,    \* reset_signal_ reaches the read that was started last
  io,       \* handlers that are ready to run in the thread of io_
  gen,      \* the generation of the latest callback
  counter,  \* message_counter_
  pool,     \* chunks handed to the pool that no thread has taken, oldest first
  removed,  \* RemoveSession was called
  running   \* FALSE once an assertion has failed

stream == <<sent, got, ended>>
reads  == <<armed, bound, io, gen>>
vars   == <<stream, reads, counter, pool, removed, running>>

Handler(kind, g, chunk) == [kind |-> kind, gen |-> g, chunk |-> chunk]
NoChunk == [from |-> 1, to |-> 0]

\* The packet and the part of it that are at place n of the stream.
PacketAt(n) == sent[(n - 1) \div Parts + 1]
PartAt(n)   == ((n - 1) % Parts) + 1

StreamEnd == Parts * Len(sent)

Bytes(chunk) ==
  MapThenSumSet(LAMBDA n : PartSize(PacketAt(n), PartAt(n)), chunk.from .. chunk.to)

\* The parts of the packet at its head that a chunk holds.
Held(chunk) == 1 + (IF chunk.to - chunk.from < Parts - 1 THEN chunk.to - chunk.from ELSE Parts - 1)

AtStart(chunk) == PartAt(chunk.from) = 1
Whole(chunk)   == AtStart(chunk) /\ Held(chunk) = Parts

\* What is found in the buffer of a chunk that starts where a packet does: the
\* rest of its 568 bytes is taken for the rest of the packet.
Seen(chunk) == Received(PacketAt(chunk.from), Held(chunk))

\* What arbitrary bytes pass for: encrypted or not, timely or not, of lengths
\* that agree or do not. No tag fits them.
Noise ==
  {[header |-> [flags |-> flags, timestamp |-> time, message_id |-> 0, message_size |-> size],
    count  |-> count,
    body   |-> [size |-> count, bytes |-> <<"noise">>]] :
      flags \in {AllFlags.NoFlags, AllFlags.NoCrypto}, time \in {0, Now}, size, count \in {0, TagSize}}

\* What deserialisation may make of a chunk: one that starts inside a packet
\* has arbitrary bytes for a header.
Found(chunk) == IF AtStart(chunk) THEN {Seen(chunk)} ELSE Noise

\* What ReadPacket may say of a chunk.
Verdicts(chunk) == {ReadPacket(found, Now) : found \in Found(chunk)}

Init ==
  /\ sent = <<>> /\ got = 0 /\ ended = FALSE
  /\ armed = <<0>> /\ bound = TRUE /\ io = <<>> /\ gen = 0
  /\ counter = 0 /\ pool = <<>>
  /\ removed = FALSE /\ running = TRUE
-----------------------------------------------------------------------------
(* The peer and the network.                                               *)

\* The peer writes a packet.
Send(kind) ==
  /\ running /\ ~ended /\ Len(sent) < MaxPackets
  /\ sent' = Append(sent, CreatePacket(Payload(kind.size, Len(sent) + 1), kind.flags, kind.stamp, Len(sent) + 1))
  /\ UNCHANGED <<got, ended, reads, counter, pool, removed, running>>

\* The read that has waited longest ends with what has come, as far as there
\* is room in its buffer.
Arrive(m) ==
  /\ running /\ ~ended /\ armed # <<>>
  /\ LET chunk == [from |-> got + 1, to |-> m] IN
       /\ Bytes(chunk) <= TCP_TOTAL_PACKET_SIZE
       /\ io' = Append(io, Handler("data", Head(armed), chunk))
  /\ got' = m
  /\ armed' = Tail(armed)
  /\ bound' = (bound /\ Len(armed) > 1)
  /\ UNCHANGED <<sent, ended, gen, counter, pool, removed, running>>

\* The connection ends, and every read that waits with it.
Disconnect ==
  /\ running /\ ~ended
  /\ ended' = TRUE
  /\ io' = io \o [i \in DOMAIN armed |-> Handler("error", armed[i], NoChunk)]
  /\ armed' = <<>> /\ bound' = FALSE
  /\ UNCHANGED <<sent, got, gen, counter, pool, removed, running>>
-----------------------------------------------------------------------------
(* The thread of io_.                                                      *)

\* ReadImpl with a callback of generation g, by a handler that leaves the
\* handlers rest: a new signal, and a read, which fails if there is nothing to
\* read from.
ReadImpl(g, rest) ==
  IF ended
  THEN armed' = armed /\ bound' = FALSE /\ io' = Append(rest, Handler("error", g, NoChunk))
  ELSE armed' = Append(armed, g) /\ bound' = TRUE /\ io' = rest

\* A bug one could write: the chunk is not counted.
DataHandlerUncounted ==
  /\ running /\ io # <<>> /\ Head(io).kind = "data"
  /\ pool' = Append(pool, Head(io).chunk)
  /\ ReadImpl(Head(io).gen, Tail(io))
  /\ UNCHANGED <<stream, gen, counter, removed, running>>

\* A bug one could write: what the old generation has read is dropped.
DataHandlerDrops ==
  /\ running /\ io # <<>> /\ Head(io).kind = "data"
  /\ counter' = counter + 1
  /\ pool' = IF Head(io).gen = gen THEN Append(pool, Head(io).chunk) ELSE pool
  /\ ReadImpl(Head(io).gen, Tail(io))
  /\ UNCHANGED <<stream, gen, removed, running>>

\* A bug one could write: the handler does not read again.
DataHandlerOnce ==
  /\ running /\ io # <<>> /\ Head(io).kind = "data"
  /\ counter' = counter + 1
  /\ pool' = Append(pool, Head(io).chunk)
  /\ io' = Tail(io)
  /\ UNCHANGED <<stream, armed, bound, gen, removed, running>>

\* The handler of a read with data: the chunk goes to the pool, and the chain
\* goes on with its own callback.
DataHandler ==
  /\ running /\ io # <<>> /\ Head(io).kind = "data"
  /\ counter' = counter + 1
  /\ pool' = Append(pool, Head(io).chunk)
  /\ ReadImpl(Head(io).gen, Tail(io))
  /\ UNCHANGED <<stream, gen, removed, running>>

\* The handler of a read that was aborted or failed: nothing, or RemoveSession.
ErrorHandler ==
  /\ running /\ io # <<>> /\ Head(io).kind \in {"aborted", "error"}
  /\ removed' = (removed \/ Head(io).kind = "error")
  /\ io' = Tail(io)
  /\ UNCHANGED <<stream, armed, bound, gen, counter, pool, running>>

\* The handler that ResetReadCallback posted.
ReadAgain ==
  /\ running /\ io # <<>> /\ Head(io).kind = "read"
  /\ ReadImpl(Head(io).gen, Tail(io))
  /\ UNCHANGED <<stream, gen, counter, pool, removed, running>>
-----------------------------------------------------------------------------
(* Other threads.                                                          *)

\* A bug one could write: the old generation is not told to stop.
ResetReadCallbackQuiet ==
  /\ running /\ ~removed /\ gen < MaxResets
  /\ gen' = gen + 1
  /\ io' = Append(io, Handler("read", gen + 1, NoChunk))
  /\ UNCHANGED <<stream, armed, bound, counter, pool, removed, running>>

\* A bug one could write: the old callback is the one that goes on.
ResetReadCallbackOld ==
  /\ running /\ ~removed /\ gen < MaxResets
  /\ gen' = gen + 1
  /\ bound' = FALSE
  /\ armed' = IF bound THEN Front(armed) ELSE armed
  /\ io' = Append(io \o (IF bound THEN <<Handler("aborted", Last(armed), NoChunk)>> ELSE <<>>),
                  Handler("read", gen, NoChunk))
  /\ UNCHANGED <<stream, counter, pool, removed, running>>

\* ResetReadCallback: the signal aborts the read it reaches, if that still
\* waits, and a handler is posted that reads with the new callback.
ResetReadCallback ==
  /\ running /\ ~removed /\ gen < MaxResets
  /\ gen' = gen + 1
  /\ bound' = FALSE
  /\ armed' = IF bound THEN Front(armed) ELSE armed
  /\ io' = Append(io \o (IF bound THEN <<Handler("aborted", Last(armed), NoChunk)>> ELSE <<>>),
                  Handler("read", gen + 1, NoChunk))
  /\ UNCHANGED <<stream, counter, pool, removed, running>>

\* A thread of the pool takes the oldest chunk and parses it; what it does
\* with a packet is DefaultReadCallback's.
Parse ==
  /\ running /\ pool # <<>>
  /\ pool' = Tail(pool)
  /\ \E outcome \in Verdicts(Head(pool)) : running' = (outcome # "abort")
  /\ UNCHANGED <<stream, reads, counter, removed>>
-----------------------------------------------------------------------------
IoHandler == DataHandler \/ ErrorHandler \/ ReadAgain

Next ==
  \/ \E kind \in Kinds : Send(kind)
  \/ \E m \in got + 1 .. StreamEnd : Arrive(m)
  \/ Disconnect
  \/ IoHandler
  \/ ResetReadCallback
  \/ Parse

Spec     == Init /\ [][Next]_vars
FairSpec == Spec /\ WF_vars(IoHandler)
-----------------------------------------------------------------------------
Chunks   == [from : 1 .. Parts * MaxPackets, to : 0 .. Parts * MaxPackets]
Handlers == [kind : {"data", "aborted", "error", "read"}, gen : 0 .. MaxResets, chunk : Chunks]

\* Type invariant: what the pool holds was counted, and what was counted was read.
TypeOK ==
  /\ Len(sent) <= MaxPackets /\ got \in 0 .. StreamEnd /\ ended \in BOOLEAN
  /\ armed \in Seq(0 .. MaxResets) /\ bound \in BOOLEAN /\ (bound => armed # <<>>)
  /\ io \in Seq(Handlers) /\ gen \in 0 .. MaxResets
  /\ counter \in 0 .. got /\ pool \in Seq(Chunks) /\ Len(pool) <= counter
  /\ removed \in BOOLEAN /\ running \in BOOLEAN

\* A packet that one read has brought, whole and from its first byte, is
\* accepted with the payload that was sent if it is at most 30 seconds old and
\* not from the future, and refused as untimely if not (packet.cpp:80-103,
\* 130-180).
WholeIsAccepted ==
  \A chunk \in ToSet(pool) : Whole(chunk) =>
    LET packet == PacketAt(chunk.from)
        timely == packet.header.timestamp \in Now - TIMESTAMP_LIMIT .. Now
    IN  /\ Verdicts(chunk) = {IF timely THEN "NoError" ELSE "InvalidTimestamp"}
        /\ PlainOf(Seen(chunk)).bytes = <<"plain", packet.header.message_id>>

\* However TCP joins and splits, a packet that is accepted as encrypted is one
\* that was sent, unchanged (packet.cpp:137-156).
AcceptedWasSent ==
  \A chunk \in ToSet(pool) : \A found \in Found(chunk) :
    ReadPacket(found, Now) = "NoError" /\ ~NoCrypto(found.header.flags) =>
      \E i \in DOMAIN sent : found.header = sent[i].header /\ found.body = sent[i].body

\* Until the connection ends, a read waits or a handler that will read is due,
\* whenever the callback was replaced (server.h:50-59, 98-104).
ReadAlive ==
  running /\ ~ended => armed # <<>> \/ \E i \in DOMAIN io : io[i].kind \in {"data", "read"}

\* The chunks that were read and not parsed yet, and which is before which.
DataAt(i)     == i \in DOMAIN io /\ io[i].kind = "data"
Waiting       == ToSet(pool) \cup {io[i].chunk : i \in {j \in DOMAIN io : DataAt(j)}}
Before(c, d)  == c.to < d.from

\* The pool is handed the stream in order and nothing of it is left out, even
\* when a reset misses a read that has just ended, and the old callback and
\* the new one then read side by side (server.h:50-59, 79-104).
HandedInOrder ==
  /\ \A i, j \in DOMAIN pool : i < j => Before(pool[i], pool[j])
  /\ \A i \in DOMAIN pool, j \in DOMAIN io : DataAt(j) => Before(pool[i], io[j].chunk)
  /\ \A i, j \in DOMAIN io : i < j /\ DataAt(i) /\ DataAt(j) => Before(io[i].chunk, io[j].chunk)
  /\ \A n \in 1 .. got : \/ \E c \in Waiting : n \in c.from .. c.to
                         \/ \A c \in Waiting : n < c.from

\* "stop prev generation" (server.h:52): once the new callback reads, the old
\* one no longer does.
OldCallbackStops ==
  gen \in ToSet(armed) => \A i \in DOMAIN armed : armed[i] = gen

\* A new callback comes to read, unless the connection ends or a newer one
\* replaces it (server.h:55-59).
NewCallbackReads ==
  \A g \in 1 .. MaxResets :
    gen = g ~> g \in ToSet(armed) \/ gen # g \/ ended \/ ~running
=============================================================================
