# A verification of remc

remc is a client and a server that exchange packets over TCP (`src/net`), with
a byte ring for outgoing packets (`src/include/ring_buffer.h`), an adopted
ChaCha20-Poly1305 (`src/crypto`), two small programs (`client_main.cpp`,
`server_main.cpp`) and a Qt menu (`src/gui`). This directory models what the
program does with TLA+, checks it with TLC on small instances and proves what
matters most of it with TLAPS. Paths below are relative to the program's own
`src/` directory.

## 1. Inventory

| Component | State | Operations | What makes it correct |
|---|---|---|---|
| RingBuffer (`include/ring_buffer.h`) | `buffer_`, `head_`, `tail_` | Push, Pop, Clear, Swap, move, FreeSpace, IsEmpty | a bounded FIFO of whole messages at every position of the offsets |
| SessionServer, write path (`net/server.cpp:152-216`) | `message_queue_`, socket, async_writes in progress | Write, its handler, WriteImpl, its completion, Close | every packet leaves once, in order, and none waits forever |
| SessionServer, read path (`net/server.h:50-106`) | outstanding read, `message_counter_`, `last_timestamp_`, `reset_signal_` | Read, ResetReadCallback, the read handler | the chain of reads ends only with the session |
| Worker (`net/server.cpp:56-136`) | `session_list_`, its io_context, timers | CreateSession, RemoveSession, Heartbeat, Run, Stop | dead sessions are removed and closed, live ones found |
| Server (`net/server.cpp:221-278`) | io_context, acceptor, workers | Run, Stop, Acceptor, PeekWorker | a connection gets a session while there is room; Stop stops everything |
| DefaultReadCallback (`net/server.cpp:13-51`) | the session's keys | answers handshake and test | a handshake leaves both sides with one key |
| SessionClient (`net/client.cpp`) | `task_queue_`, `message_queue_`, counter, keys | Write, Read, callbacks | a callback runs at most once, and when its reply comes |
| ClientBase, InternalClient, ExternalClient (`net/client.h`) | io_context, work guard, pool | Connect, Run, Stop | the pool has threads left for callbacks; Stop ends |
| Packet codec (`net/packet.*`) | none | CreatePacket, ReadPacket | what is written can be read |
| SessionBase, KeysWrapper (`net/session_base.h`, `crypto/keys_wrapper.*`) | id, counter, timestamp, keys | ComputeSharedKey | both sides compute one key |
| AEAD and FSChaCha20Poly1305 (`crypto/cc20poly1305.*`) | packet and rekey counter, key | Encrypt, Decrypt, NextPacket | both ends move through the keys in step; no keystream is used twice |
| ChaCha20 (`crypto/chacha20.*`) | key, nonce, block counter, buffered block | SetKey, Seek, Keystream, Crypt | cutting the input in pieces changes nothing |
| Poly1305 (`crypto/poly1305.*`) | key, sum in five limbs, leftover bytes | Update, Finalize | the tag is the polynomial's value for every message, however it is cut |
| Utilities, SecureKey, GUI, tests, vendored libraries | | | not verified here |

Components interact in three ways. Handlers are *posted*: to `Server::io_`
(reads, writes and Close of every session: an accepted socket keeps the
executor of the acceptor), to `Worker::io_` (creation, removal, heartbeat) and
to a thread pool (read callbacks). State is *shared* without locks: the
counters and keys of a session, the table of a worker while Stop and PeekWorker
look at it, the client's `task_queue_`. And packets travel over TCP.

Hard behaviours: handlers of several threads in any order, state read when a
task runs rather than when it was posted, asynchronous writes that overlap or
end part-way, peers that vanish, reset or go silent, Stop in the middle of it
all, offsets that wrap. `PROJECT.json` lists each hazard at its line.

## 2. Plan

Done, in this order:

1. `MessageQueue`, `RingBuffer`, `RingBufferProofs`: the queue and its proof.
2. `SendPath`, `SendPathProofs`: the write path of a session.
3. `Server`, `ServerProofs`: acceptor, workers, life and death of sessions, Run
   and Stop.
4. `Protocol`, `ProtocolProofs`: counters, keys and callbacks of a client and a
   server session.
5. `Packet`, `ReadLoop`, `ReadLoopProofs`: the codec, the chain of reads over a
   byte stream, and ResetReadCallback.
6. `Client`, `ClientProofs`: callbacks, the pool that holds both them and the
   io_context, and the shutdown.
7. `ChaCha20`, `KeyStream`, `CipherStream`, `Poly1305`, `PolyLimbs`,
   `ForwardSecret`, `CryptoProofs`: the ciphers.
8. `QueueFacts`: the lemmas on queues, remainders and tuples that the proofs of
   several components cite.

What could be added: in `ReadLoop`, a TCP that cuts at any byte and not only
between the parts of a packet.

## 3. Modules

### MessageQueue and RingBuffer

`RingBuffer` follows the code operation by operation. `ring[r]` has the vector
and the two offsets; `Store` and `LoadBytes`/`LoadPos` are the two lambdas of
Push and Pop with their two-part copies; `FreeSpace`, `IsEmpty`, `GetCapacity`
are the functions of those names. Each call is an action that records its
result in `ret`; calls that change nothing (`PushRefused`, `PopEmpty`) are
actions too. A moved-from ring has an empty vector (`Vacated`). `queue` is a
history variable: the messages accepted and not yet popped.

`MessageQueue` is what users of the class rely on: a FIFO of whole messages
that refuses the empty message, one that is too long for its prefix and one
that does not fit in what is left of the capacity. `IsMessageQueue` says that
the ring implements it, with used bytes, capacity and `ret` mapped.

* `TypeOK`: a ring is vacated or live, with its offsets inside the vector, and
  each vector keeps the size that the constructor gave it, the free byte of the
  gap included, whatever is swapped or moved (`VectorsKept`).
* `Intact`: the unread bytes are exactly the frames of `queue`, in order.
* `IsMessageQueue`: the refinement.

Bytes range over `0 .. Radix-1`. With `Radix = 2` the prefix counts to 3, so that
"too long for its prefix" happens; rings of 7 and 4 bytes and messages of 0 to 4
bytes put both the prefix and the data across the end of the vector, at every
position, and fill each ring exactly. Not modelled: an exception of
`std::vector` in Pop (the code sets `tail_` last, so the ring is unchanged),
the constructor's refusal of capacity 0 (assumed not to happen), prefix types
other than the `uint16_t` that the program uses.

### SendPath

One session's `Write` (any thread), the handler it posts, `WriteImpl`, the
completion handler, and `Close`. `tasks` is the executor's queue, `op[m]` the
async_write of packet m, `sendq` and `wire` asio's queue of sends that wait and
the pieces the kernel took. asio's part (`StartSend`, `Writable`, `FailSends`)
is external and modelled from its use: a send takes any number of the pieces
left, at once only if none waits. The client's pump
(`client.cpp:23-83`) is the same code and the same model. The pool of packets
is bounded by `MaxWrites`, pieces per packet by `Parts`, waiting Close handlers
by one.

The model shows something the code hides: `message_queue_` never holds a
packet between two handlers (`QueueNeverHolds`). The handler that pushes finds
the queue empty, because the packet being written has been popped already, and
pops at once. So every Write has an async_write of its own, the capacity limits
nothing, the branch that continues the pump is never taken, and an
error of one write strands no other.

* `Accounted`: each packet is in exactly one place.
* `StartsInOrder`: packets start on the wire in the order of the calls,
  although their writes overlap. (Their later pieces may interleave.)
* `EveryPacketSettles`: each packet is sent or fails. Fairness: the io thread
  runs handlers that are due, and a socket with sends waiting becomes writable
  or fails; a peer that never reads would need a timeout that the code lacks.
* `SomeDemandMet`: asio demands of its callers that one async_write at a time
  uses a socket (`SingleWriter`) and that its buffer lives as long as it does
  (`BufferAlive`); violated: a behaviour breaks both.

Three packets suffice for one that is being written, one that waits behind it
and one whose handler has not run; two pieces for a write that stops half-way.

### Server

Threads: the owner (`Run`, `Stop` in its steps), the thread of `Server::io_`
(`Accept`, `ReadHandler`, `Close`), the thread of each worker (`WorkerHandler`:
create, remove, heartbeat). A handler of a worker is one step, except that Stop
and PeekWorker on other threads may find it half done: `InProgress` is the
handler, and they see the table before or after it (`ListAfter`; a data race in
the code, other outcomes of it are not modelled). `closes` and `queue[w]` are
the posted handlers, `reading[s]` the outstanding read, `stale[s]` whether the
last timestamp is older than the timeout: time is only that. Sessions have the
numbers of their connections, which are accepted in that order. A context that
is stopped never runs again, so what is left in its queue is forgotten.

* `NoOrphan`: an open session is in its worker's table or its Close is posted.
* `ReadOrRemoved`: a session in the table is being read or being removed.
* `ClosedOnce`: a session is closed once, however often a failed read and one
  heartbeat after the other ask for its removal. (After Stop it may be posted
  twice to a context that no longer runs.)
* `StillWhileStopped`: from the return of Stop to the next Run no session
  starts, ends, moves or is read, whatever the workers were in the middle of.
* `GoneIsClosed`, `SilentIsClosed`: liveness, under fairness of the threads'
  handlers, of the kernel's report that a connection ended, and of timers.
* `StopClosesSessions`, `ProcessSurvives`: violated, see below.

Two workers, as in the code, of capacity 1 and two connections give a choice of
worker on stale sizes, a full worker, a dropped connection and two removals at
once; `MaxRuns = 2` gives Run after Stop, which finds contexts that nothing
restarts. (That it then runs nothing is what the model says, and no property: no
comment of the code speaks of a second Run.) PeekWorker does not count sessions
on their way, so that a connection may be dropped while another worker has room.
`Resets` says at which stages of a connection the peer may reset it; before the
session has been made a reset throws in the accept handler
(`server.cpp:253`), later in Close. `server_reset` allows open sessions only, so
that its counterexample is the one in Close; `server_stop` allows none. Not
modelled: two threads that call Run and Stop, destruction of the server, the
failure of `std::make_shared`.

### Protocol

A client and a server session with one TCP connection that delivers the bytes in
order (SendPath has the order). `ccount`, `scount` are the counters,
`ckey`, `skey` the shared keys, `cpool`, `spool` what was posted to the
pools. With n free threads any of the first n entries of a pool may be next.
ComputeSharedKey takes two steps, and another thread that looks in between may
see the old key, the new one or a mixture. A packet carries the nonce and the
key it was made with.

TCP knows no packets: each is cut into `Pieces` pieces (`Cut`), and a read
takes any number of those that are on the way, of one packet or of several, and
counts as one (`Chunk`; `server.h:78-95`, `client.cpp:88-96`). Its buffer is
taken for the packet that it begins with. So what is joined behind that packet
is lost, and a packet that is split is counted twice or more. `ReadPacket`
gives the packets that may come out: a whole one if nonce and key agree or its
payload is not encrypted (a test message), a test message without its end,
with its id or without, and for a chunk that begins inside a packet the
unencrypted packet of nobody that its bytes may pass for (`Noise`).
`MayRefuse` says whether nothing may come out.

* `ServerFollows`: a client with the shared key implies a server that has it
  or is about to.
* `NoncesDrift`: how far the nonces on the way may be from the counters they
  will be read with: a reply that is split counts once for each of its pieces,
  requests that are joined count once. Only with `Pieces = 1` are the client's
  nonces never ahead of the server's counter.
* `TestAnswered`: a test message that is at the head of a read and whole in it
  is answered, and the callback of such a reply runs, under fair threads,
  whatever the counters and keys are by then. (One that is joined behind another
  packet is lost: that is what the code does.)
* `HandshakeCompletes`, `DataReadable`: violated, see below.

Two messages of any kinds, each packet in two pieces, give reads of a half, a
whole, one and a half and two packets; two free pool threads on each side let
callbacks overtake one another. The two violated runs have `Pieces = 1`, so that
their counterexamples owe nothing to TCP. An assertion that fails in Decrypt on
a piece of a packet ends the process; that is in ReadLoop, and here such a chunk
is refused.

### Packet and ReadLoop

`Packet` has CreatePacket and ReadPacket as operators: sizes with bitsery's
variable length, flags as bits, the unsigned age of the timestamp, the tag, and
the checks of ReadPacket in their order, with an assertion of the AEAD among
them as the outcome "abort". What is encrypted is a term that names the header
it is bound to and the payload; nonce and key match, since they are Protocol's.

`ReadLoop` is the chain of reads of one session. The peer's packets follow one
another in the stream, each in four parts (two of the header, the length, the
body). `Arrive` ends the oldest waiting read with any number of parts that fit
into its 568 bytes, so that packets are joined and split. The handler counts
the chunk, gives it to the pool and reads again; `ResetReadCallback`, from any
thread, aborts the read its signal reaches and posts a read with the next
generation of the callback. A reset that comes while a completed read waits
for its handler reaches nothing, and two chains of reads go on.

A chunk that starts where a packet does is deserialised as that packet, with
what follows in the buffer for its rest (`Seen`). One that starts inside a
packet has arbitrary bytes for a header: any flags, time and lengths, and a tag
that fits nothing (`Noise`). `Verdicts` is what ReadPacket says of either,
"abort" included, which ends the process (`running`).

* `WholeIsAccepted`: a whole packet is accepted, with its payload, exactly when
  it is timely.
* `AcceptedWasSent`: whatever is joined or split, an encrypted packet that is
  accepted was sent as such. (A test message that is cut may be accepted short:
  nothing checks it.)
* `ReadAlive`: until the connection ends a read waits or is due.
* `HandedInOrder`: what was read goes to the pool in the order of the stream and
  without gaps, also when two chains read side by side.
* `NewCallbackReads`: liveness, under fairness of the io thread.
* `OldCallbackStops`: violated, see below.

Two packets of four kinds (empty and full, with a length of one byte or two,
encrypted or not, on either side of being timely) and one reset. TCP is
taken to cut between parts only: in the middle of the header, behind it and
behind the length, which is where the outcome of deserialising changes. Time
counts modulo 2^16 and sizes modulo
2^30 (TLC's numbers have 31 bits); both are far above the numbers used.

### Client

The main thread (`Connect`, `Write` with a callback or without, `Stop`,
`Join`), the thread of the pool that runs `io_` (the handler of Write, the
handlers of reads and writes, the return of `run()`), the other threads of the
pool (`TakeTask`, `FindCallback`, `CallbackReturns`), and a server that answers
packets readably or not, sends packets of its own and may close. `Outstanding`
is asio's count of work: `run()` returns when it is down to nothing.

* `RepliesFindCallbacks`: no reply comes before its callback is stored.
* `InOnePlace`: a callback is posted, stored, being called or done.
* `WrittenBeforeExit`: what Write accepted has gone out or failed when the
  program ends, although Stop comes right behind.
* `AnsweredIsCalled`: an answered callback runs, also during the shutdown.
* `JoinReturns`: `pool.join()` ends. It needs the server to close the
  connection of a client that has gone silent, which its heartbeat does
  (`SilentIsClosed` of Server); nothing in the client closes the socket.

Fairness: threads run what is due, callbacks return, writes end. Two packets,
one stray and three threads: one thread holds `io_`, two run callbacks.
`task_queue_` is taken to change atomically. A failing Connect ends the
behaviour: what the destructors do to a context that runs is undefined.

### The ciphers

Bytes are sets of tokens and xor is the symmetric difference, so that
`Xor(Xor(a, p), p) = a` and a pad used twice shows. The quarter rounds are an
injection: byte i of a block is a token that names key, nonce, block and i. The
tag is its key with the blocks absorbed.

* `ChaCha20` has the object of `crypto/chacha20.*` as operators on a record:
  Seek, the aligned keystream with the carry of the counter into the nonce, and
  the buffered tail. `CipherStream` is a user that calls it in any order and
  with any lengths, and `OneStream` says that it implements `KeyStream`, one
  cyclic stream from which every draw takes the next bytes.
* `Poly1305` has the buffering of Update and Finalize. `PolyLimbs` has the
  arithmetic of the limbs, each of `Base` values (2^26 in the code): a word keeps
  the 6 spare bits of the code, a double word its 12, so that what overflows
  there overflows here. The run has 6 bits to a limb, and so 2^30 - 5 (not a
  prime, which plays no part) in the place of 2^130 - 5. `LimbAssumption` asks
  for 6 bits or more, and that keys and blocks fit in five limbs less two bits.
  `Half`, the root of Base^5, only serves to write the polynomial with numbers
  that TLC has. `TagIsPolynomial` compares each result of `poly1305_finish`
  with Horner's rule. Keys are not clamped, which is the harder case; the packing
  into 32-bit words and the addition of the second half of the key are left out.
* `ForwardSecret` has AEADChaCha20Poly1305 and FSChaCha20Poly1305 on those two:
  a sender, a receiver, and packets that arrive whole or damaged (a byte
  changed, cut short, another length of associated data, associated data that
  runs into the text, the tag of another packet). `CountersInStep`,
  `PadsUsedOnce` and `WholeIsRead` are what the nonces, the Seeks and the
  counting are for. `FSAssumption` says what a caller respects: a text fits in
  the blocks of its nonce (2^32 - 1 blocks of 64 bytes), and the first key is
  no keystream of these objects.

The receiver cuts the text of a packet into any two parts of its own (`Decrypt`),
so that the keystream is split at every place.

`MCObjects` gives one run to the four machines that one thread at a time uses and
that share no state, the rings and these three: `object_of_run` picks the one that
a behaviour uses. Words count modulo 4 and
blocks have 3 bytes, so that both overflows of the block counter and every
offset of the buffer happen; tags of 2 bytes leave every rest; intervals 1 to 3
and four packets give up to four rekeys. An interval of 0, which would compare
equal only after the counter has wrapped and met the nonce of the rekey, is
excluded by `FSAssumption` (no caller passes it); the 64-bit count of rekeys
does not wrap.

## 4. Runs

| Run | Shows | Distinct states |
|---|---|---|
| `objects` | TypeOK, Intact, IsMessageQueue (RingBuffer), OneStream (CipherStream), FSTypeOK, CountersInStep, PadsUsedOnce, WholeIsRead (ForwardSecret), LimbsTypeOK, TagIsPolynomial (PolyLimbs) | 77 459 |
| `send` | TypeOK, QueueNeverHolds, Accounted, StartsInOrder, EveryPacketSettles | 38 926 |
| `server` | TypeOK, NoOrphan, ReadOrRemoved, ClosedOnce, StillWhileStopped, GoneIsClosed, SilentIsClosed | 145 824 |
| `protocol` | TypeOK, ServerFollows, NoncesDrift, TestAnswered | 564 877 |
| `client` | TypeOK, RepliesFindCallbacks, InOnePlace, WrittenBeforeExit, AnsweredIsCalled, JoinReturns | 112 729 |
| `read` | TypeOK, WholeIsAccepted, AcceptedWasSent, ReadAlive, HandedInOrder, NewCallbackReads | 370 945 |
| `send_contract`, `server_stop`, `server_reset`, `read_reset`, `protocol_handshake`, `protocol_data` | counterexamples | |

Deadlock is not checked: a session that is closed, a server that was stopped, a
process that ended, a finished dialogue, the last packet of a bounded stream and
the last block of a bounded input really stop. That nothing stops too early is
what the liveness properties and `ReadAlive`, `ReadOrRemoved` and
`WrittenBeforeExit` say.

Each property has a mutant in `PROJECT.json`: the operator named there
(`StoreNoWrap`, `RunWriteLateTest`, `NextBlockNoCarry` ...) is a plausible
mistake, and with it TLC finds the property violated.

### What the violated runs say

* `send_contract`: two async_writes on one socket at a time, which asio forbids
  (`libs/asio/asio/write.hpp:761-764`; pieces of two packets may interleave),
  and a completion handler that does not own the buffer (`server.cpp:201-204`,
  `client.cpp:66-70`), which must stay valid (`write.hpp:771-773`).
* `server_stop`: "stop sessions" (`server.cpp:106`) posts Close to a context
  that Stop has stopped: no session is closed.
* `server_reset`: "kill myself" (`server.h:88-89`): the read of a session whose
  peer has reset the connection fails, the session is removed, and the
  `shutdown()` of its Close (`server.cpp:144`) throws and takes the process, with
  everybody else's sessions, with it.
* `read_reset`: "stop prev generation" (`server.h:52`), but the signal does not
  reach a read that has completed and whose handler is queued: that handler
  reads again with the old callback.
* `protocol_handshake`: the server posts its answer before it computes the key
  and encrypts it on another thread, perhaps with the new key.
* `protocol_data`: the nonce counts what was read, not what was written, so
  two messages without an answer between them are not both readable.

## 5. Proofs

`RingBufferProofs`, for all rings, capacities, byte ranges and payloads, from
`RingAssumption` (positive capacities, at least two byte values, payloads that
are sequences of bytes):

* `RingInvariant`: `Spec => []IInv`. `IInv` is the type invariant with the
  layout of every ring. Neither is inductive alone: that Pop returns a message
  and lands on the next one needs the layout, and the layout needs offsets
  inside the vector. The layout is kept as a function `off` from messages to
  their distance behind `tail_`, so that Push extends it and Pop shifts it.
* `TypeCorrect`, `UnreadIsIntact`: its two halves, the checked `TypeOK` and
  `Intact`.
* `ImplementsMessageQueue`: `Spec => IsMessageQueue`. `InitRefines` and
  `NextRefines` map the first state and each step, under the invariant.

The argument: three lemmas on a store (`StoreHead`, `StoreMisses`,
`StoreHits`) and two on a load (`LoadLands`, `LoadHits`) about plain numbers
settle the wrap-around; `StoreAppends`, `LoadReads` and `MoveTail` lift them to
the unread bytes; `PushLayout` and `PopLayout` to messages.

`SendPathProofs`, for every capacity, number of packets and of pieces, from
`SendPathAssumption`:

* `QueueIsNeverUsed`, `Spec => []QueueNeverHolds`, which is inductive.
* `TypeCorrect`, `PacketInOnePlace`, `PacketsStartInOrder`: `TypeOK`,
  `Accounted`, `StartsInOrder`. The order needs the whole line in which packets
  stand: handlers of Write wait in the order of the calls and behind every
  packet that async_write has had (`InLine`), a packet of a call waits there or
  was handed on (`Issued`), a send that succeeded has sent something
  (`Progress`), and packets of which nothing went out are in order in the
  descriptor's queue (`Waiting`) and behind all first pieces on the wire
  (`OnWire`). The sends are `SentNow`, `SendStarts` and `WritableStep`;
  the handlers are `LineStays`, `LineGrows` and `LineMoves`.

`ServerProofs`, for every number of workers (two or more), sessions, clients
and calls of Run, from `ServerAssumption`: `TypeCorrect`, `NoneOrphaned`,
`NoneForgotten`, `RemovedOnce` and the action property `NothingAfterStop`
(`TypeOK`, `NoOrphan`, `ReadOrRemoved`, `ClosedOnce`, `StillWhileStopped`).
They are proved by one invariant, since none holds without the others: a session
without a table is no orphan because its Close is posted, which excludes that
it is in a table (`Listed`); it enters a table only once, since its creation
waits once and at one worker (`CreatedOnce`); and what waits is forgotten only
when its context was halted, in the order in which Stop does it (`Halting`).
`Pending(w, t)` counts how often handler t waits for the thread of w, the one
that the thread is in included; `Beating` bounds the heartbeats by the calls of
Run. `Posted` and `Taken` are what a handler posted and a handler run do to
those numbers. That a session is closed once follows from being in a table once,
and from a Close being posted only by the step that takes it out.

`ProtocolProofs`, for every number of messages, of threads and of pieces that
TCP cuts a packet into, from `ProtocolAssumption`: `TypeCorrect`,
`ServerHasKey`, `DriftBounded` (`TypeOK`, `ServerFollows`, `NoncesDrift`).
`Counted` counts pieces: every piece of a reply, those that the client has counted
included, is of a reply to a read that the server has counted, so that the client
counts at most `Pieces` for each read of the server. (`CutFacts` and `ReadFacts`
are what writing and reading do to the pieces on the way.) `CallbackOnce` says
that a callback waits or has run once;
`AnswerHasKey` that an answer to a handshake, wherever it is, has a key behind
it or one that is being computed.

`ReadLoopProofs`, for every set of kinds of packets with sizes, flags and ages
in their ranges, and every number of packets and resets, from
`ReadLoopAssumption`: `TypeCorrect`, `ChainGoesOn`, `StreamInOrder`,
`OnlySentIsAccepted`, `SentIsAccepted` (`TypeOK`, `ReadAlive`,
`HandedInOrder`, `AcceptedWasSent`, `WholeIsAccepted`). The codec's half is
`VerdictOfChunk`, from what each check of ReadPacket asks (`VerdictFacts`),
that a length that was written is read again (`SizeKept`) and what a chunk of
the stream can hold (`MadeFacts`, `ChunkFacts`); that arbitrary bytes are never
accepted as encrypted is `NoiseFits`. In the chain's half, `InStream` says that
the chunks waiting for the thread of io_ and for the pool are in the order of
the stream however many chains there are, `InHand` that between them nothing is
missing, `Written` that the packets are among those that can be made.

`ClientProofs`, for every finite set of packets and every size of the pool,
from `ClientAssumption`:

* `CallbackBeforeReply`, `CallbackInOnePlace`: `RepliesFindCallbacks` and
  `InOnePlace`. That a reply finds its callback needs that replies come only to
  what was sent, that what was sent has left the handlers of Write (`InOrder`),
  and that no second packet with the same id has taken the callback before
  (`OneAnswer`). `Tracked` joins these with the places of the callbacks
  (`OneCallback`).
* `TypeCorrect`, `NothingLeftAtExit`: `TypeOK` and `WrittenBeforeExit`. They add
  how far the threads have come (`Winding`: `run()` returns only without guard
  and work, and main joins behind it), that the pool's threads suffice for
  what is under way (`Manned`), and where each written packet is (`Traced`).

`CryptoProofs`, for every block and tag length, width of the counters, interval,
shape and number of packets and order of calls, from `WordAssumption`,
`TagAssumption`, `DrawAssumption`, `FSAssumption` and `LimbAssumption`:

* `ImplementsStream`: `CipherSpec => OneStream`, the refinement of `KeyStream`.
  The inductive invariant `CipherInv` says that an object is `Whole`: what
  it holds back is what its stream goes on with, at the place `At` that the
  block counter, the nonce and the bytes left give. `Streamed` is the promise
  of one call, proved for the loop over aligned blocks, for the buffered bytes
  and for the block held back in part. The recursive function of the loop
  (`Aligned`) is met by its table of partial results (`Turns`), and a least
  counterexample takes the place of an induction.
* `NoncesInStep`: `FSSpec => []CountersInStep`. The invariant `Stepping` adds to
  the counts that packet counters stay below the interval, without which the
  count is not unique, and that both ends have the same one.
* `OnlyWholeIsRead`: `FSSpec => []WholeIsRead`. The invariant `Faithful` has
  `Stepping`, ciphers that are `Whole`, and `Keyed`: there is one chain of keys,
  each drawn from the one before (`KeyChain`), both ends are on it where their
  rekey counters say, and packet n was made (`Made`) under the key and the
  nonce that n determines (`Issued`). That a damaged packet is refused is
  `TagBinds`: two calls of ComputeTag agree only if key, associated data and
  text do. It rests on `MetMore`, that Poly1305 absorbs the same blocks
  however its input is cut, on the padding, and on the lengths at the end.
* `FSTypeCorrect`, `NoPadTwice`: `FSTypeOK` and `PadsUsedOnce`, from the same
  invariant. A block of keystream is named by key, rekey, packet and block;
  `MadeBlocks` says which blocks a packet uses, and `ChainBlocks` that keys come
  from blocks of the nonce that no packet has. The keys need not be shown
  different: the rekey counter is in every nonce.
* `LimbsTypeCorrect`, `TagIsThePolynomial`: `LimbsTypeOK` and `TagIsPolynomial`
  of `PolyLimbs`, from `LimbAssumption`, for every width of a limb from 6 bits
  on, the 26 of the code among them. The invariant is that the limbs are within
  their bounds and that their number is the polynomial's value modulo the prime
  (`Cong`): the limbs are not reduced fully between two blocks, so the two are
  not equal. `CarryFacts` and `AroundFacts` say what a carry does to the number
  when no word overflows, `ProductBounds` and `Carries` that none does,
  `MixedCong` that the sums of products are the product with r modulo the
  prime, since each `Column` of factors is Base times the one before.
  `FinishReduces` does poly1305_finish: full limbs stand for less than Base^5, so
  one subtraction is enough, and the carry out of `h + 5` says when it is due.

Only model-checked: the liveness properties `EveryPacketSettles`,
`GoneIsClosed`, `SilentIsClosed`, `TestAnswered`, `AnsweredIsCalled`,
`JoinReturns` and `NewCallbackReads` (fairness and ENABLED are beyond the
prover). Every invariant, the action property and the refinements that a passing
run checks are proved. No module with theorems reaches a RECURSIVE operator.

## 6. Not modelled

SecureKey (one library call, unused), utilities and logging (no state that a
property is about), `server_main.cpp` (compiled out), the tests. The GUI only
lays out widgets; its menu adds a page to a stack for every click, in one
thread, and says nothing of what should become of the old ones. Of the vendored
libraries, which are by far most of the lines under `src/`, only what the
program relies on is modelled: asio's scheduler, reactor, pool, timers and
async_write, and bitsery's lengths. Nothing is gained by specifying the rest
(a JSON parser, a formatter, a logger), and the share of the lines that the
models stand for is small for that reason.

Hazards that no property covers. Data races whose outcomes nothing bounds: on
`task_queue_` (`client.cpp:106`), and on a table that Stop walks while its
worker changes it (`server.cpp:107`; the model lets the walk come before or
after the handler). Destruction under a running context or in the wrong order
(`client_main.cpp:29`, `client.h:129`). What the code does and nothing in it
speaks against: Run after Stop, which runs nothing (`server.cpp:94`); a
connection dropped while another worker has room (`server.cpp:273`); a session
closed although data came after the heartbeat looked (`server.cpp:125`); a
callback kept for the life of the session when its write or reply fails
(`client.cpp:49`); the assertion that ends the process on part of a packet
(`packet.cpp:144`; ReadLoop has the step). And two cases that the program does
not meet: a pool of one thread (`client.h:57`), pieces that leave a block of
Poly1305 open (`poly1305.cpp:187`; the lemma `MetMore` covers them).
