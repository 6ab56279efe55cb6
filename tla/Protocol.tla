------------------------------ MODULE Protocol ------------------------------
(***************************************************************************)
(* A client session and a server session that talk: SessionClient in       *)
(* net/client.cpp, SessionServer::ReadImpl and Write in net/server.h and   *)
(* net/server.cpp, DefaultReadCallback, CreatePacket and ReadPacket in     *)
(* net/packet.cpp, ComputeSharedKey in crypto/keys_wrapper.cpp, and the    *)
(* requests that client_main.cpp makes.                                    *)
(*                                                                         *)
(* Each session belongs to two kinds of threads: one of its executor,      *)
(* which creates packets and takes what is read, and the threads of a pool,*)
(* which read the packets and run the callbacks.  Both use message_counter_*)
(* and shared_key_ with no lock.                                           *)
(*                                                                         *)
(* A message has the number of the call of Write it comes from, and a      *)
(* reply that of its request (message_id).  A connection carries packets   *)
(* in order (module SendPath) and may cut each into pieces; a read takes   *)
(* one piece or several, of one packet or more, for a single packet: what  *)
(* is behind the first packet of a read is lost.  Clocks agree, so that    *)
(* the check of the timestamp passes.                                      *)
(***************************************************************************)
EXTENDS Integers, Sequences, FiniteSets, SequencesExt

CONSTANTS
  Kinds,          \* the flags that the client uses, of "handshake", "test", "data"
  MaxCalls,       \* bound: calls of SessionClient::Write
  Pieces,         \* bound: pieces into which TCP cuts a packet
  ClientThreads,  \* threads of the client's pool
  ServerThreads   \* threads of the server's pool

ASSUME ProtocolAssumption ==
  /\ Kinds \subseteq {"handshake", "test", "data"}
  /\ MaxCalls \in Nat
  /\ Pieces \in Nat \ {0}
  /\ ClientThreads \in Nat \ {0}
  /\ ServerThreads \in Nat \ {0}

Ids == 1 .. MaxCalls

VARIABLES
  calls,     \* kinds of the messages that Write was called with so far
  ctasks,    \* client: messages whose handler is posted, oldest first
  ccount,    \* client: message_counter_
  ckey,      \* client: shared_key_
  waiting,   \* client: task_queue_, the messages whose callback waits
  cpool,     \* client: what was read and posted to the pool, oldest first
  cbusy,     \* client: pool threads about to compute the shared key
  ran,       \* client: ran[m], how often the callback of m has run
  c2s, s2c,  \* pieces of packets on the way
  stasks,    \* server: replies whose handler is posted, oldest first
  scount,    \* server: message_counter_
  skey,      \* server: shared_key_
  spool,     \* server: what was read and posted to the pool, oldest first
  sbusy      \* server: pool threads about to compute the shared key

client == <<calls, ctasks, ccount, ckey, waiting, cpool, cbusy, ran>>
server == <<stasks, scount, skey, spool, sbusy>>
vars   == <<client, c2s, s2c, server>>

\* shared_key_ is "zero" at first; while a thread computes it, another may
\* see the old value, the new one, or a mixture.
Seen(key) == IF key = "computing" THEN {"zero", "shared", "mixture"} ELSE {key}

\* Positions in a pool of what its n free threads may be reading.
Taken(pool, n) == {i \in DOMAIN pool : i <= n}

\* TestMessage has the bit NoCrypto set: its payload is not encrypted.
Encrypted(p) == p.kind # "test"

\* CreatePacket with the counter and the key that are read.
CreatePacket(m, kind, count, key) == [id |-> m, kind |-> kind, nonce |-> count, key |-> key]

\* The pieces of p on a connection, and what a read of n pieces of q holds: its
\* buffer is taken for the packet whose piece comes first.
Cut(p) == [k \in 1 .. Pieces |-> [of |-> p, part |-> k]]
Chunk(q, n) ==
  [of    |-> Head(q).of,
   holds |-> IF Head(q).part # 1 THEN "middle" ELSE IF n >= Pieces THEN "whole" ELSE "head"]

\* Bytes that pass for an unencrypted test message of an id nobody uses.
Noise == [id |-> 0, kind |-> "test"]

\* ReadPacket: the packets that may be read from a chunk with this nonce and
\* this key.  A test message without its end is a test message with zeros, and
\* its id may be cut off; the middle of a packet has arbitrary bytes for a
\* header.
ReadPacket(chunk, nonce, key) ==
  LET p == chunk.of
  IN  CASE chunk.holds = "middle" -> {Noise}
        [] chunk.holds = "head"   -> IF Encrypted(p) THEN {} ELSE {p, Noise}
        [] chunk.holds = "whole"  ->
             {x \in {p} : Encrypted(x) => x.nonce = nonce /\ x.key = key /\ key # "mixture"}

\* Whether it may refuse the chunk.
MayRefuse(chunk, nonce, key) == chunk.holds # "whole" \/ ReadPacket(chunk, nonce, key) = {}

Init ==
  /\ calls = <<>> /\ ctasks = <<>> /\ ccount = 0 /\ ckey = "zero"
  /\ waiting = {} /\ cpool = <<>> /\ cbusy = 0 /\ ran = [m \in Ids |-> 0]
  /\ c2s = <<>> /\ s2c = <<>>
  /\ stasks = <<>> /\ scount = 0 /\ skey = "zero" /\ spool = <<>> /\ sbusy = 0
-----------------------------------------------------------------------------
(* The client.                                                             *)

\* A call of Write.
Write(kind) ==
  /\ Len(calls) < MaxCalls
  /\ calls' = Append(calls, kind)
  /\ ctasks' = Append(ctasks, Len(calls) + 1)
  /\ UNCHANGED <<ccount, ckey, waiting, cpool, cbusy, ran, c2s, s2c, server>>

\* A bug one could write: a handshake is sent again while there is no key and no
\* callback of it waits.
ClientSendRetries ==
  /\ ctasks # <<>> /\ Head(ctasks) \notin waiting
  /\ LET m == Head(ctasks) IN
       /\ \E key \in Seen(ckey) : c2s' = c2s \o Cut(CreatePacket(m, calls[m], ccount, key))
       /\ waiting' = IF calls[m] = "data" THEN waiting ELSE waiting \cup {m}
       /\ ctasks' = IF calls[m] = "handshake" /\ ckey = "zero" THEN ctasks ELSE Tail(ctasks)
  /\ UNCHANGED <<calls, ccount, ckey, cpool, cbusy, ran, s2c, server>>

\* The handler of Write: create the packet, note the callback, send.  A
\* message without a reply has no callback.
ClientSend ==
  /\ ctasks # <<>>
  /\ LET m == Head(ctasks) IN
       /\ \E key \in Seen(ckey) : c2s' = c2s \o Cut(CreatePacket(m, calls[m], ccount, key))
       /\ waiting' = IF calls[m] = "data" THEN waiting ELSE waiting \cup {m}
  /\ ctasks' = Tail(ctasks)
  /\ UNCHANGED <<calls, ccount, ckey, cpool, cbusy, ran, s2c, server>>

\* The handler of Read: count, post what was read to the pool, read again.  The
\* messages are small: what is on the way fits a buffer, and a read takes any
\* part of it.
ClientReceive ==
  /\ \E n \in 1 .. Len(s2c) :
       /\ cpool' = Append(cpool, Chunk(s2c, n))
       /\ s2c' = SubSeq(s2c, n + 1, Len(s2c))
  /\ ccount' = ccount + 1
  /\ UNCHANGED <<calls, ctasks, ckey, waiting, cbusy, ran, c2s, server>>

\* A task of the pool: read the packet with the counter as it is by now, take
\* the callback out of task_queue_ and run it.  The callback of a handshake
\* goes on to compute the shared key.  InternalClient::Run keeps one thread of
\* the pool for the io_context.
ClientCallback ==
  /\ \E i \in Taken(cpool, ClientThreads - 1 - cbusy), key \in Seen(ckey) :
       /\ \/ \E p \in ReadPacket(cpool[i], ccount, key) : LET found == waiting \cap {p.id} IN
                /\ ran' = [m \in Ids |-> IF m \in found THEN ran[m] + 1 ELSE ran[m]]
                /\ cbusy' = IF p.kind = "handshake" /\ found # {} THEN cbusy + 1 ELSE cbusy
                /\ waiting' = waiting \ found
          \/ /\ MayRefuse(cpool[i], ccount, key)
             /\ UNCHANGED <<ran, waiting, cbusy>>
       /\ cpool' = RemoveAt(cpool, i)
  /\ UNCHANGED <<calls, ctasks, ccount, ckey, c2s, s2c, server>>

\* ComputeSharedKey, in two steps: the key changes, the key is there.
ClientCompute ==
  /\ cbusy > 0
  /\ \/ /\ ckey = "zero"
        /\ ckey' = "computing"
        /\ UNCHANGED cbusy
     \/ /\ ckey # "zero"
        /\ ckey' = "shared"
        /\ cbusy' = cbusy - 1
  /\ UNCHANGED <<calls, ctasks, ccount, waiting, cpool, ran, c2s, s2c, server>>
-----------------------------------------------------------------------------
(* The server.                                                             *)

\* A bug one could write: what comes while the pool has work is not counted.
ServerReceiveUncounted ==
  /\ \E n \in 1 .. Len(c2s) :
       /\ spool' = Append(spool, Chunk(c2s, n))
       /\ c2s' = SubSeq(c2s, n + 1, Len(c2s))
  /\ scount' = IF spool = <<>> THEN scount + 1 ELSE scount
  /\ UNCHANGED <<client, s2c, stasks, skey, sbusy>>

\* The handler of ReadImpl: count, post what was read to the pool, read again.
ServerReceive ==
  /\ \E n \in 1 .. Len(c2s) :
       /\ spool' = Append(spool, Chunk(c2s, n))
       /\ c2s' = SubSeq(c2s, n + 1, Len(c2s))
  /\ scount' = scount + 1
  /\ UNCHANGED <<client, s2c, stasks, skey, sbusy>>

\* A bug one could write: the server answers a handshake and computes no key.
ServerCallbackNoKey ==
  /\ \E i \in Taken(spool, ServerThreads - sbusy), key \in Seen(skey) :
       /\ \/ \E p \in ReadPacket(spool[i], scount - 1, key) :
                /\ stasks' = IF p.kind = "data" THEN stasks ELSE Append(stasks, [id |-> p.id, kind |-> p.kind])
                /\ sbusy' = sbusy
          \/ /\ MayRefuse(spool[i], scount - 1, key)
             /\ UNCHANGED <<stasks, sbusy>>
       /\ spool' = RemoveAt(spool, i)
  /\ UNCHANGED <<client, c2s, s2c, scount, skey>>

\* A bug one could write: the callback tests the bit of the flag.
ServerCallbackMask ==
  /\ \E i \in Taken(spool, ServerThreads - sbusy), key \in Seen(skey) :
       /\ \/ \E p \in ReadPacket(spool[i], scount - 1, key) :
                /\ stasks' = IF p.kind = "data" THEN stasks ELSE Append(stasks, [id |-> p.id, kind |-> "handshake"])
                /\ sbusy' = IF p.kind # "data" THEN sbusy + 1 ELSE sbusy
          \/ /\ MayRefuse(spool[i], scount - 1, key)
             /\ UNCHANGED <<stasks, sbusy>>
       /\ spool' = RemoveAt(spool, i)
  /\ UNCHANGED <<client, c2s, s2c, scount, skey>>

\* DefaultReadCallback on a thread of the pool: read the packet with the
\* counter as it is by now less one; answer a handshake or a test; go on to
\* compute the shared key after a handshake.
ServerCallback ==
  /\ \E i \in Taken(spool, ServerThreads - sbusy), key \in Seen(skey) :
       /\ \/ \E p \in ReadPacket(spool[i], scount - 1, key) :
                /\ stasks' = IF p.kind = "data" THEN stasks ELSE Append(stasks, [id |-> p.id, kind |-> p.kind])
                /\ sbusy' = IF p.kind = "handshake" THEN sbusy + 1 ELSE sbusy
          \/ /\ MayRefuse(spool[i], scount - 1, key)
             /\ UNCHANGED <<stasks, sbusy>>
       /\ spool' = RemoveAt(spool, i)
  /\ UNCHANGED <<client, c2s, s2c, scount, skey>>

\* ComputeSharedKey, as at the client.
ServerCompute ==
  /\ sbusy > 0
  /\ \/ /\ skey = "zero"
        /\ skey' = "computing"
        /\ UNCHANGED sbusy
     \/ /\ skey # "zero"
        /\ skey' = "shared"
        /\ sbusy' = sbusy - 1
  /\ UNCHANGED <<client, c2s, s2c, stasks, scount, spool>>

\* The handler of SessionServer::Write.
ServerSend ==
  /\ stasks # <<>>
  /\ \E key \in Seen(skey) :
       s2c' = s2c \o Cut(CreatePacket(Head(stasks).id, Head(stasks).kind, scount, key))
  /\ stasks' = Tail(stasks)
  /\ UNCHANGED <<client, c2s, scount, skey, spool, sbusy>>
-----------------------------------------------------------------------------
Next ==
  \/ \E kind \in Kinds : Write(kind)
  \/ ClientSend \/ ClientReceive \/ ClientCallback \/ ClientCompute
  \/ ServerReceive \/ ServerCallback \/ ServerCompute \/ ServerSend

\* The contexts and the pools run what is posted, and packets arrive.
Fairness ==
  /\ WF_vars(ClientSend) /\ WF_vars(ClientReceive)
  /\ WF_vars(ClientCallback) /\ WF_vars(ClientCompute)
  /\ WF_vars(ServerReceive) /\ WF_vars(ServerCallback)
  /\ WF_vars(ServerCompute) /\ WF_vars(ServerSend)

Spec     == Init /\ [][Next]_vars
FairSpec == Spec /\ Fairness
-----------------------------------------------------------------------------
AllKinds == {"handshake", "test", "data"}
Keys     == {"zero", "shared", "mixture"}
Replies  == [id : 0 .. MaxCalls, kind : AllKinds]
Packets  == [id : 0 .. MaxCalls, kind : AllKinds, nonce : Nat, key : Keys]
Parts    == [of : Packets, part : 1 .. Pieces]
Chunks   == [of : Packets, holds : {"whole", "head", "middle"}]

\* Type invariant: a callback runs at most once.
TypeOK ==
  /\ calls \in Seq(Kinds) /\ Len(calls) <= MaxCalls
  /\ ctasks \in Seq(Ids) /\ ccount \in Nat
  /\ ckey \in {"zero", "computing", "shared"}
  /\ waiting \subseteq Ids /\ cpool \in Seq(Chunks)
  /\ cbusy \in 0 .. ClientThreads - 1 /\ ran \in [Ids -> 0 .. 1]
  /\ c2s \in Seq(Parts) /\ s2c \in Seq(Parts)
  /\ stasks \in Seq(Replies) /\ scount \in Nat
  /\ skey \in {"zero", "computing", "shared"}
  /\ spool \in Seq(Chunks) /\ sbusy \in 0 .. ServerThreads

\* The client never has a shared key that the server does not have or is not
\* about to compute, although the server answers before it computes
\* (server.cpp:26-32).
ServerFollows ==
  ckey # "zero" \/ cbusy > 0 => skey # "zero" \/ sbusy > 0

\* How far the nonces on the way can be from the counters they will be read
\* with, when each side counts its reads and not the packets (server.h:94-95,
\* client.cpp:96): the client counts at most the pieces of one reply for each
\* read of the server.  If no packet is cut, the nonces of the client are never
\* ahead of the server's counter, nor those of the server behind the client's,
\* however many packets a read joins.
NoncesDrift ==
  /\ \A i \in DOMAIN c2s : c2s[i].of.nonce <= Pieces * scount
  /\ \A i \in DOMAIN s2c : ccount + i <= Pieces * s2c[i].of.nonce

\* All of test message m, or of its reply, is in a task of the pool.
WholeIn(pool, m) ==
  m \in DOMAIN calls /\ calls[m] = "test" /\ \E i \in DOMAIN pool :
    pool[i].of.id = m /\ pool[i].holds = "whole"

\* A test message that a read begins with and holds is answered, and the callback
\* runs for such a reply: neither can be refused, be the counters, the keys and
\* what else the read holds what they may (packet.h:30, server.cpp:34-39).
TestAnswered ==
  \A m \in Ids : /\ WholeIn(spool, m) ~> \E i \in DOMAIN stasks : stasks[i].id = m
                 /\ WholeIn(cpool, m) ~> ran[m] = 1

\* "getting server public key here" (client_main.cpp:47) and "send my public
\* to client" (server.cpp:28): after a handshake the client has the shared
\* key.
HandshakeCompletes ==
  (\E m \in DOMAIN calls : calls[m] = "handshake") ~> ckey = "shared"

\* "increment message_counter for poly1305 nonce" (server.h:94): a message is
\* read with the nonce it was written with, so that ReadPacket does not refuse it.
DataReadable ==
  \A i \in Taken(spool, ServerThreads - sbusy), key \in Seen(skey) :
    spool[i].of.kind = "data" => ~MayRefuse(spool[i], scount - 1, key)
=============================================================================
