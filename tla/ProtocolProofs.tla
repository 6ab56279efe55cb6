---------------------------- MODULE ProtocolProofs ----------------------------
(***************************************************************************)
(* The handshake and the counters of a client and a server that talk, for  *)
(* every number of messages, of threads, and of pieces of a packet.  The   *)
(* argument follows each reply: it is to a read that the server has        *)
(* counted, and its pieces are on the way or have been counted by the      *)
(* client.  So there is a bound on how far the counters, which are the     *)
(* nonces, drift apart, and an answer to a handshake has a key computed    *)
(* behind it.                                                              *)
(***************************************************************************)
EXTENDS Protocol, QueueFacts

\* The number of pieces in k packets.
PiecesOf(k) == Pieces * k

\* Every piece of a reply, those the client has counted included, is of a reply
\* to a read the server has counted.
Counted == ccount + Len(s2c) + PiecesOf(Len(stasks) + Len(spool)) <= PiecesOf(scount)

\* The callback of a message has run, waits, or will be noted once: it runs
\* once at most.
CallbackOnce ==
  \A m \in Ids : /\ Count(ctasks, m) + (IF m \in waiting THEN 1 ELSE 0) + ran[m] <= 1
                 /\ Count(ctasks, m) > 0 \/ m \in waiting \/ ran[m] > 0 => m <= Len(calls)

\* The answers to handshakes that have not been read.
Answers == {p \in ToSet(stasks) \cup {x.of : x \in ToSet(s2c) \cup ToSet(cpool)} : p.kind = "handshake"}

\* An answer to a handshake has a key behind it.
AnswerHasKey == ckey # "zero" \/ cbusy > 0 \/ Answers # {} => skey # "zero" \/ sbusy > 0

\* The inductive invariant.
Inv == TypeOK /\ Counted /\ CallbackOnce /\ AnswerHasKey /\ NoncesDrift
-----------------------------------------------------------------------------
\* The parts of the type invariant, and what it says of each queue.
LEMMA Typed ==
  ASSUME TypeOK
  PROVE  /\ MaxCalls \in Nat /\ Pieces \in Nat \ {0}
         /\ ClientThreads \in Nat \ {0} /\ ServerThreads \in Nat \ {0}
         /\ Kinds \subseteq AllKinds /\ \A m \in Ids : m \in Nat \ {0}
         /\ calls \in Seq(Kinds) /\ Len(calls) \in 0 .. MaxCalls /\ Len(calls) \in Nat
         /\ ctasks \in Seq(Ids) /\ c2s \in Seq(Parts) /\ s2c \in Seq(Parts)
         /\ cpool \in Seq(Chunks) /\ spool \in Seq(Chunks)
         /\ stasks \in Seq(Replies)
         /\ ccount \in Nat /\ scount \in Nat
         /\ cbusy \in 0 .. ClientThreads - 1 /\ sbusy \in 0 .. ServerThreads
         /\ ran \in [Ids -> 0 .. 1] /\ waiting \subseteq Ids
         /\ \A m \in Ids : m \in Nat /\ ran[m] \in Nat /\ Count(ctasks, m) \in Nat
         /\ Len(ctasks) \in Nat /\ Len(c2s) \in Nat /\ Len(s2c) \in Nat
         /\ Len(stasks) \in Nat /\ Len(cpool) \in Nat /\ Len(spool) \in Nat
         /\ \A key \in Seen(ckey) \cup Seen(skey) : key \in Keys
<1>1. /\ MaxCalls \in Nat /\ Pieces \in Nat \ {0}
      /\ ClientThreads \in Nat \ {0} /\ ServerThreads \in Nat \ {0}
      /\ Kinds \subseteq AllKinds /\ \A m \in Ids : m \in Nat \ {0}
  BY ProtocolAssumption DEF AllKinds, Ids
<1>2. /\ calls \in Seq(Kinds) /\ Len(calls) <= MaxCalls
      /\ ctasks \in Seq(Ids) /\ c2s \in Seq(Parts) /\ s2c \in Seq(Parts)
      /\ cpool \in Seq(Chunks) /\ spool \in Seq(Chunks)
      /\ stasks \in Seq(Replies)
      /\ ccount \in Nat /\ scount \in Nat
      /\ cbusy \in 0 .. ClientThreads - 1 /\ sbusy \in 0 .. ServerThreads
      /\ ran \in [Ids -> 0 .. 1] /\ waiting \subseteq Ids
  BY DEF TypeOK
<1>3. /\ Len(calls) \in Nat
      /\ Len(ctasks) \in Nat /\ Len(c2s) \in Nat /\ Len(s2c) \in Nat
      /\ Len(stasks) \in Nat /\ Len(cpool) \in Nat /\ Len(spool) \in Nat
  BY <1>2, LenProperties
<1>4. \A key \in Seen(ckey) \cup Seen(skey) : key \in Keys
  BY DEF TypeOK, Seen, Keys
<1>5. ASSUME NEW m \in Ids PROVE m \in Nat /\ ran[m] \in Nat
  <2>1. m \in Nat \ {0} /\ ran[m] \in 0 .. 1
    BY <1>1, <1>2
  <2> QED BY <2>1
<1>6. \A m : Count(ctasks, m) \in Nat
  BY <1>2, PlacesFinite
<1> QED BY <1>1, <1>2, <1>3, <1>4, <1>5, <1>6

\* The packet that a session creates, and what one consists of.
LEMMA PacketTyped ==
  /\ \A m \in 0 .. MaxCalls, kind \in AllKinds, n \in Nat, key \in Keys :
       /\ CreatePacket(m, kind, n, key) \in Packets
       /\ CreatePacket(m, kind, n, key).nonce = n /\ CreatePacket(m, kind, n, key).kind = kind
  /\ \A p \in Packets : p.id \in 0 .. MaxCalls /\ p.kind \in AllKinds /\ p.nonce \in Nat
  BY ProtocolAssumption DEF CreatePacket, Packets

\* The pieces of a packet are all of it.
LEMMA CutFacts ==
  ASSUME NEW p \in Packets
  PROVE  /\ Cut(p) \in Seq(Parts) /\ Len(Cut(p)) = Pieces
         /\ \A i \in 1 .. Pieces : Cut(p)[i].of = p
         /\ \A x \in ToSet(Cut(p)) : x.of = p
<1>1. Pieces \in Nat
  BY ProtocolAssumption
<1>2. \A k \in 1 .. Pieces : Cut(p)[k] \in Parts /\ Cut(p)[k].of = p
  BY DEF Cut, Parts
<1>3. Cut(p) \in [1 .. Pieces -> Parts]
  BY <1>2 DEF Cut
<1>4. Cut(p) \in Seq(Parts) /\ Len(Cut(p)) = Pieces
  BY <1>1, <1>3, SeqDef, LenProperties
<1>5. \A x \in ToSet(Cut(p)) : x.of = p
  BY <1>1, <1>2, <1>3 DEF ToSet
<1> QED BY <1>2, <1>4, <1>5

\* all is q and then the elements of r.
Joined(q, r, all) ==
  /\ DOMAIN q = 1 .. Len(q) /\ Len(q) \in Nat
  /\ Len(all) = Len(q) + Len(r) /\ DOMAIN all = 1 .. Len(q) + Len(r)
  /\ \A i \in 1 .. Len(q) : all[i] = q[i]
  /\ \A i \in 1 .. Len(q) + Len(r) : i > Len(q) => i - Len(q) \in 1 .. Len(r) /\ all[i] = r[i - Len(q)]

\* all is q and then the pieces of p.
Sent(q, p, all) ==
  /\ DOMAIN q = 1 .. Len(q) /\ Len(q) \in Nat
  /\ all \in Seq(Parts) /\ Len(all) = Len(q) + Pieces /\ DOMAIN all = 1 .. Len(q) + Pieces
  /\ \A i \in 1 .. Len(q) : all[i] = q[i]
  /\ \A i \in 1 .. Len(q) + Pieces : i > Len(q) => all[i].of = p
  /\ \A x \in ToSet(all) : x \in ToSet(q) \/ x.of = p

\* A packet sent adds its pieces behind those on the way.
LEMMA SendFacts ==
  ASSUME NEW q \in Seq(Parts), NEW p \in Packets
  PROVE  Sent(q, p, q \o Cut(p))
<1>1. ASSUME NEW r \in Seq(Parts) PROVE Joined(q, r, q \o r)
  BY ConcatSteps DEF Joined
<1>2. ASSUME NEW r \in Seq(Parts)
      PROVE  q \o r \in Seq(Parts) /\ ToSet(q \o r) = ToSet(q) \cup ToSet(r)
  BY CountConcat
<1>3. /\ Cut(p) \in Seq(Parts) /\ Len(Cut(p)) = Pieces /\ \A x \in ToSet(Cut(p)) : x.of = p
      /\ \A i \in 1 .. Pieces : Cut(p)[i].of = p
  BY CutFacts
<1> DEFINE r == Cut(p)  all == q \o r
<1>4. Joined(q, r, all) /\ all \in Seq(Parts) /\ ToSet(all) = ToSet(q) \cup ToSet(r)
  BY <1>1, <1>2, <1>3
<1>5. Len(r) = Pieces /\ (\A x \in ToSet(r) : x.of = p) /\ \A i \in 1 .. Pieces : r[i].of = p
  BY <1>3
<1> HIDE DEF r, all
<1>6. Sent(q, p, all)
  BY <1>4, <1>5 DEF Joined, Sent
<1> QED BY <1>6 DEF r, all

\* A read takes pieces from the front, and its packet is that of the first.
LEMMA ReadFacts ==
  ASSUME NEW q \in Seq(Parts), NEW n \in 1 .. Len(q), NEW rest, rest = SubSeq(q, n + 1, Len(q))
  PROVE  /\ Len(q) \in Nat /\ n \in Nat /\ DOMAIN q = 1 .. Len(q)
         /\ rest \in Seq(Parts) /\ Len(rest) = Len(q) - n /\ DOMAIN rest = 1 .. Len(q) - n
         /\ \A i \in 1 .. Len(q) - n : i + n \in 1 .. Len(q) /\ rest[i] = q[i + n]
         /\ ToSet(rest) \subseteq ToSet(q)
         /\ Chunk(q, n) \in Chunks /\ q[1] \in ToSet(q) /\ Chunk(q, n).of = q[1].of
<1>1. Len(q) \in Nat /\ DOMAIN q = 1 .. Len(q) /\ n \in Nat /\ n <= Len(q) /\ 1 \in 1 .. Len(q)
  BY LenProperties
<1>2. /\ rest \in Seq(Parts) /\ Len(rest) = Len(q) - n
      /\ \A i \in 1 .. Len(q) - n : rest[i] = q[i + n]
  <2>1. /\ SubSeq(q, n + 1, Len(q)) \in Seq(Parts)
        /\ Len(SubSeq(q, n + 1, Len(q))) = IF n + 1 <= Len(q) THEN Len(q) - (n + 1) + 1 ELSE 0
        /\ \A i \in 1 .. Len(q) - (n + 1) + 1 : SubSeq(q, n + 1, Len(q))[i] = q[(n + 1) + i - 1]
    <3>1. n + 1 \in 1 .. Len(q) + 1 /\ Len(q) \in n .. Len(q) /\ n + 1 - 1 = n
      BY <1>1
    <3> QED BY <1>1, <3>1, SubSeqProperties
  <2>2. Len(q) - (n + 1) + 1 = Len(q) - n /\ (~(n + 1 <= Len(q)) => Len(q) - n = 0)
    <3>1. \A l, k \in Nat : k <= l => l - (k + 1) + 1 = l - k /\ (~(k + 1 <= l) => l - k = 0)
      OBVIOUS
    <3> QED BY <1>1, <3>1
  <2>3. \A i \in 1 .. Len(q) - n : (n + 1) + i - 1 = i + n
    BY <1>1
  <2> QED BY <2>1, <2>2, <2>3
<1>3. DOMAIN rest = 1 .. Len(q) - n
  BY <1>2, LenProperties
<1>4. \A i \in 1 .. Len(q) - n : i + n \in 1 .. Len(q)
  BY <1>1
<1>5. ToSet(rest) \subseteq ToSet(q)
  BY <1>1, <1>2, <1>3, <1>4 DEF ToSet
<1>6. q[1] \in Parts /\ q[1] \in ToSet(q) /\ Head(q) = q[1]
  <2>1. q # <<>>
    BY <1>1, EmptySeq
  <2> QED BY <1>1, <2>1, QueueSteps DEF ToSet
<1>7. Chunk(q, n) \in Chunks /\ Chunk(q, n).of = q[1].of
  BY <1>6 DEF Chunk, Chunks, Parts
<1> QED BY <1>1, <1>2, <1>3, <1>4, <1>5, <1>6, <1>7

\* What a task of a pool may read is its packet or no handshake.
LEMMA ReadTyped ==
  ASSUME NEW chunk \in Chunks, NEW nonce, NEW key, NEW p \in ReadPacket(chunk, nonce, key)
  PROVE  /\ p.id \in 0 .. MaxCalls /\ p.kind \in AllKinds
         /\ p.kind = "handshake" => p = chunk.of
<1>1. chunk.of \in Packets /\ chunk.holds \in {"whole", "head", "middle"}
  BY DEF Chunks
<1>2. p = chunk.of \/ p = Noise
  BY <1>1 DEF ReadPacket
<1>3. Noise.id = 0 /\ Noise.kind = "test"
  BY DEF Noise
<1> QED BY <1>1, <1>2, <1>3, PacketTyped, ProtocolAssumption DEF AllKinds

\* The pieces of one packet more.
LEMMA PiecesMore ==
  /\ \A k \in Nat : PiecesOf(k) \in Nat /\ PiecesOf(k + 1) = PiecesOf(k) + Pieces
  /\ \A j, k \in Nat : j <= k => PiecesOf(j) <= PiecesOf(k)
<1>1. Pieces \in Nat
  BY ProtocolAssumption
<1>2. \A k \in Nat : PiecesOf(k) \in Nat /\ PiecesOf(k + 1) = PiecesOf(k) + Pieces
  BY <1>1 DEF PiecesOf
<1>3. ASSUME NEW j \in Nat, NEW k \in Nat, j <= k PROVE PiecesOf(j) <= PiecesOf(k)
  <2>1. k - j \in Nat /\ Pieces * k = Pieces * j + Pieces * (k - j)
    BY <1>1, <1>3
  <2>2. Pieces * (k - j) \in Nat /\ Pieces * j \in Nat /\ Pieces * k \in Nat
    BY <1>1, <2>1
  <2> QED BY <2>1, <2>2 DEF PiecesOf
<1> QED BY <1>2, <1>3

\* A message written waits at the client.
LEMMA WriteInv ==
  ASSUME Inv, NEW kind \in Kinds, Write(kind)
  PROVE  Inv'
<1> USE DEF Inv, Write, client, server
<1>1. /\ Len(calls) \in 0 .. MaxCalls /\ Len(calls) < MaxCalls /\ MaxCalls \in Nat
      /\ Len(calls) + 1 \in Ids
      /\ calls \in Seq(Kinds) /\ ctasks \in Seq(Ids)
  BY Typed DEF Ids
<1>2. calls' \in Seq(Kinds) /\ Len(calls') = Len(calls) + 1
  BY <1>1, QueueSteps
<1>3. /\ ctasks' \in Seq(Ids) /\ Len(ctasks') = Len(ctasks) + 1
      /\ \A e : Count(ctasks', e) = Count(ctasks, e) + (IF Len(calls) + 1 = e THEN 1 ELSE 0)
  BY <1>1, QueueSteps, CountAppend
<1>4. TypeOK'
  BY <1>1, <1>2, <1>3 DEF TypeOK
<1>5. Counted'
  BY DEF Counted
<1>6. CallbackOnce'
  <2> SUFFICES ASSUME NEW m \in Ids
               PROVE  /\ Count(ctasks', m) + (IF m \in waiting THEN 1 ELSE 0) + ran[m] <= 1
                      /\ Count(ctasks', m) > 0 \/ m \in waiting \/ ran[m] > 0 => m <= Len(calls')
    BY DEF CallbackOnce
  <2>1. Count(ctasks, m) \in Nat /\ ran[m] \in Nat /\ m \in Nat
    BY Typed
  <2>2. /\ Count(ctasks, m) + (IF m \in waiting THEN 1 ELSE 0) + ran[m] <= 1
        /\ Count(ctasks, m) > 0 \/ m \in waiting \/ ran[m] > 0 => m <= Len(calls)
    BY DEF CallbackOnce
  <2>3. CASE m = Len(calls) + 1
    <3>1. Count(ctasks', m) = Count(ctasks, m) + 1
      BY <1>3, <2>3
    <3>2. Count(ctasks, m) = 0 /\ m \notin waiting /\ ran[m] = 0
      BY <1>1, <2>1, <2>2, <2>3
    <3> QED BY <1>1, <1>2, <2>3, <3>1, <3>2
  <2>4. CASE m # Len(calls) + 1
    <3>1. Count(ctasks', m) = Count(ctasks, m)
      BY <1>3, <2>1, <2>4
    <3> QED BY <1>1, <1>2, <2>1, <2>2, <3>1
  <2> QED BY <2>3, <2>4
<1>7. AnswerHasKey' /\ NoncesDrift'
  BY DEF AnswerHasKey, Answers, NoncesDrift
<1> QED BY <1>4, <1>5, <1>6, <1>7

\* A packet created now has a nonce that the server's count bounds.
LEMMA ClientSendInv ==
  ASSUME Inv, ClientSend
  PROVE  Inv'
<1> USE DEF Inv, client, server
<1> DEFINE m == Head(ctasks)
<1>1. /\ ctasks \in Seq(Ids) /\ ctasks # <<>> /\ ctasks' = Tail(ctasks)
      /\ c2s \in Seq(Parts) /\ calls \in Seq(Kinds) /\ (\A n \in Ids : n \in Nat \ {0})
      /\ ccount \in Nat /\ scount \in Nat /\ MaxCalls \in Nat /\ Pieces \in Nat
      /\ Len(ctasks) \in Nat /\ Len(c2s) \in Nat /\ Len(s2c) \in Nat
      /\ Len(stasks) \in Nat /\ Len(spool) \in Nat /\ Len(calls) \in Nat
      /\ waiting \subseteq Ids
      /\ UNCHANGED <<calls, ccount, ckey, cpool, cbusy, ran, s2c, stasks, scount, skey, spool, sbusy>>
  <2>1. ctasks # <<>> /\ ctasks' = Tail(ctasks)
    BY DEF ClientSend
  <2>2. UNCHANGED <<calls, ccount, ckey, cpool, cbusy, ran, s2c, stasks, scount, skey, spool, sbusy>>
    BY DEF ClientSend
  <2> QED BY <2>1, <2>2, Typed
<1>13. waiting' \in {waiting, waiting \cup {m}}
  BY DEF ClientSend
<1>2. /\ m \in Ids /\ ctasks' \in Seq(Ids) /\ Len(ctasks') = Len(ctasks) - 1 /\ Len(ctasks) > 0
      /\ \A e : Count(ctasks, e) = (IF m = e THEN 1 ELSE 0) + Count(ctasks', e)
  BY <1>1, QueueSteps, CountTail
<1>3. \A e : Count(ctasks', e) \in Nat /\ Count(ctasks, e) \in Nat
  BY <1>1, <1>2, PlacesFinite
<1>4. m <= Len(calls) /\ calls[m] \in AllKinds
  <2>1. Count(ctasks, m) > 0
    BY <1>2, <1>3
  <2>2. m <= Len(calls)
    BY <1>2, <2>1 DEF CallbackOnce
  <2>3. m \in 1 .. Len(calls)
    <3> HIDE DEF m
    <3>1. m \in Nat /\ m > 0 /\ Len(calls) \in Nat
      BY <1>1, <1>2
    <3> QED BY <2>2, <3>1
  <2> QED BY <1>1, <2>2, <2>3, Typed, ElementOfSeq
<1>5. PICK key \in Seen(ckey) : c2s' = c2s \o Cut(CreatePacket(m, calls[m], ccount, key))
  BY DEF ClientSend
<1> DEFINE p == CreatePacket(m, calls[m], ccount, key)
<1>6. p \in Packets /\ p.nonce = ccount
  <2>1. key \in Keys
    BY Typed
  <2> HIDE DEF m
  <2>2. /\ CreatePacket(m, calls[m], ccount, key) \in Packets
        /\ CreatePacket(m, calls[m], ccount, key).nonce = ccount
    <3>1. m \in 0 .. MaxCalls /\ calls[m] \in AllKinds /\ ccount \in Nat
      BY <1>1, <1>2, <1>4 DEF Ids
    <3> QED BY <2>1, <3>1, PacketTyped
  <2> QED BY <2>2
<1> HIDE DEF p, m
<1>7. /\ c2s' \in Seq(Parts) /\ DOMAIN c2s = 1 .. Len(c2s) /\ DOMAIN c2s' = 1 .. Len(c2s) + Pieces
      /\ \A i \in 1 .. Len(c2s) : c2s'[i] = c2s[i]
      /\ \A i \in 1 .. Len(c2s) + Pieces : i > Len(c2s) => c2s'[i].of = p
  <2>1. c2s' = c2s \o Cut(p)
    BY <1>5 DEF p
  <2>2. Sent(c2s, p, c2s')
    BY <1>1, <1>6, <2>1, SendFacts
  <2> QED BY <2>2 DEF Sent
<1>8. TypeOK'
  BY <1>1, <1>2, <1>7, <1>13 DEF TypeOK
<1>9. Counted'
  BY <1>1 DEF Counted
<1>10. CallbackOnce'
  <2> SUFFICES ASSUME NEW n \in Ids
               PROVE  /\ Count(ctasks', n) + (IF n \in waiting' THEN 1 ELSE 0) + ran[n] <= 1
                      /\ Count(ctasks', n) > 0 \/ n \in waiting' \/ ran[n] > 0 => n <= Len(calls)
    BY <1>1 DEF CallbackOnce
  <2>1. /\ Count(ctasks, n) + (IF n \in waiting THEN 1 ELSE 0) + ran[n] <= 1
        /\ Count(ctasks, n) > 0 \/ n \in waiting \/ ran[n] > 0 => n <= Len(calls)
    BY DEF CallbackOnce
  <2>2. ran[n] \in Nat /\ Count(ctasks', n) \in Nat /\ Count(ctasks, n) \in Nat
    BY <1>3, Typed
  <2>3. CASE n = m
    <3>1. Count(ctasks, n) = 1 + Count(ctasks', n)
      BY <1>2, <2>3
    <3>2. Count(ctasks', n) = 0 /\ ran[n] = 0
      BY <2>1, <2>2, <3>1
    <3> QED BY <1>4, <2>3, <3>2
  <2>4. CASE n # m
    <3>1. Count(ctasks, n) = Count(ctasks', n) /\ (n \in waiting' <=> n \in waiting)
      BY <1>2, <1>13, <2>2, <2>4
    <3> QED BY <2>1, <3>1
  <2> QED BY <2>3, <2>4
<1>11. AnswerHasKey'
  BY <1>1 DEF AnswerHasKey, Answers
<1>12. NoncesDrift'
  <2>1. ccount <= Pieces * scount
    <3>1. PiecesOf(Len(stasks) + Len(spool)) \in Nat /\ PiecesOf(scount) \in Nat
      <4>1. Len(stasks) + Len(spool) \in Nat /\ scount \in Nat
        BY <1>1
      <4> QED BY <4>1, PiecesMore
    <3>2. ccount <= PiecesOf(scount)
      BY <1>1, <3>1 DEF Counted
    <3> QED BY <3>2 DEF PiecesOf
  <2>2. ASSUME NEW i \in DOMAIN c2s' PROVE c2s'[i].of.nonce <= Pieces * scount
    <3>1. CASE i \in 1 .. Len(c2s)
      BY <3>1, <1>7 DEF NoncesDrift
    <3>2. CASE i > Len(c2s)
      BY <3>2, <1>6, <1>7, <2>1
    <3> QED BY <1>1, <1>7, <3>1, <3>2
  <2> QED BY <1>1, <2>2 DEF NoncesDrift
<1> QED BY <1>8, <1>9, <1>10, <1>11, <1>12

\* A reply received is counted after it was counted by the server.
LEMMA ClientReceiveInv ==
  ASSUME Inv, ClientReceive
  PROVE  Inv'
<1> USE DEF Inv, client, server
<1>1. PICK n \in 1 .. Len(s2c) : cpool' = Append(cpool, Chunk(s2c, n)) /\ s2c' = SubSeq(s2c, n + 1, Len(s2c))
  BY DEF ClientReceive
<1>2. /\ ccount' = ccount + 1
      /\ UNCHANGED <<calls, ctasks, ckey, waiting, cbusy, ran, c2s, stasks, scount, skey, spool, sbusy>>
      /\ s2c \in Seq(Parts) /\ cpool \in Seq(Chunks) /\ ccount \in Nat /\ scount \in Nat
      /\ Len(stasks) \in Nat /\ Len(spool) \in Nat
  BY Typed DEF ClientReceive
<1>3. /\ Len(s2c) \in Nat /\ n \in Nat /\ DOMAIN s2c = 1 .. Len(s2c)
      /\ s2c' \in Seq(Parts) /\ Len(s2c') = Len(s2c) - n /\ DOMAIN s2c' = 1 .. Len(s2c) - n
      /\ \A i \in 1 .. Len(s2c) - n : i + n \in 1 .. Len(s2c) /\ s2c'[i] = s2c[i + n]
      /\ ToSet(s2c') \subseteq ToSet(s2c)
      /\ Chunk(s2c, n) \in Chunks /\ s2c[1] \in ToSet(s2c) /\ Chunk(s2c, n).of = s2c[1].of
  BY <1>1, <1>2, ReadFacts
<1>4. cpool' \in Seq(Chunks) /\ ToSet(cpool') = ToSet(cpool) \cup {Chunk(s2c, n)}
  BY <1>1, <1>2, <1>3, CountAppend
<1>5. Counted'
  <2>1. PiecesOf(Len(stasks) + Len(spool)) \in Nat /\ PiecesOf(scount) \in Nat
    <3>1. Len(stasks) + Len(spool) \in Nat /\ scount \in Nat
      BY <1>2
    <3> QED BY <3>1, PiecesMore
  <2>2. ccount' + Len(s2c') <= ccount + Len(s2c) /\ ccount' + Len(s2c') \in Nat
    BY <1>2, <1>3
  <2>3. ccount + Len(s2c) + PiecesOf(Len(stasks) + Len(spool)) <= PiecesOf(scount)
    BY DEF Counted
  <2>4. ccount' + Len(s2c') + PiecesOf(Len(stasks) + Len(spool)) <= PiecesOf(scount)
    BY <1>2, <1>3, <2>1, <2>2, <2>3
  <2> QED BY <1>2, <2>4 DEF Counted, PiecesOf
<1>6. TypeOK'
  BY <1>2, <1>3, <1>4 DEF TypeOK
<1>7. CallbackOnce'
  BY <1>2 DEF CallbackOnce
<1>8. AnswerHasKey'
  <2>1. \A x \in ToSet(s2c') \cup ToSet(cpool') : \E y \in ToSet(s2c) \cup ToSet(cpool) : x.of = y.of
    BY <1>3, <1>4
  <2>2. Answers' \subseteq Answers
    BY <1>2, <2>1 DEF Answers
  <2> QED BY <1>2, <2>2 DEF AnswerHasKey
<1>9. NoncesDrift'
  <2>1. ASSUME NEW i \in DOMAIN s2c' PROVE ccount' + i <= Pieces * s2c'[i].of.nonce
    <3>1. i + n \in DOMAIN s2c /\ s2c'[i] = s2c[i + n] /\ i \in Nat
      BY <1>3
    <3>2. ccount + (i + n) <= Pieces * s2c[i + n].of.nonce
      BY <3>1 DEF NoncesDrift
    <3>3. Pieces * s2c[i + n].of.nonce \in Nat
      <4>1. s2c[i + n] \in Parts
        BY <1>2, <3>1, ElementOfSeq, <1>3
      <4>2. s2c[i + n].of.nonce \in Nat /\ Pieces \in Nat
        BY <4>1, PacketTyped, ProtocolAssumption DEF Parts
      <4> QED BY <4>2
    <3>4. ccount' + i <= ccount + (i + n)
      BY <1>2, <1>3, <3>1
    <3> QED BY <1>2, <1>3, <3>1, <3>2, <3>3, <3>4
  <2> QED BY <1>2, <2>1 DEF NoncesDrift
<1> QED BY <1>5, <1>6, <1>7, <1>8, <1>9

\* A callback that runs is no longer noted, and computes a key after an answer only.
LEMMA ClientCallbackInv ==
  ASSUME Inv, ClientCallback
  PROVE  Inv'
<1> USE DEF Inv, client, server
<1>1. PICK i \in Taken(cpool, ClientThreads - 1 - cbusy), key \in Seen(ckey) :
        /\ cpool' = RemoveAt(cpool, i)
        /\ \/ \E p \in ReadPacket(cpool[i], ccount, key) :
                 /\ ran' = [m \in Ids |-> IF m \in waiting \cap {p.id} THEN ran[m] + 1 ELSE ran[m]]
                 /\ cbusy' = IF p.kind = "handshake" /\ waiting \cap {p.id} # {} THEN cbusy + 1 ELSE cbusy
                 /\ waiting' = waiting \ (waiting \cap {p.id})
           \/ UNCHANGED <<ran, waiting, cbusy>>
  BY DEF ClientCallback
<1>2. /\ UNCHANGED <<calls, ctasks, ccount, ckey, c2s, s2c, stasks, scount, skey, spool, sbusy>>
      /\ cpool \in Seq(Chunks) /\ ran \in [Ids -> 0 .. 1] /\ waiting \subseteq Ids
      /\ cbusy \in 0 .. ClientThreads - 1 /\ ClientThreads \in Nat \ {0}
  BY Typed DEF ClientCallback
<1>3. /\ i \in DOMAIN cpool /\ cbusy + 1 \in 0 .. ClientThreads - 1
  <2>1. i \in DOMAIN cpool /\ i <= (ClientThreads - 1) - cbusy
    BY DEF Taken
  <2>2. i \in 1 .. Len(cpool) /\ Len(cpool) \in Nat
    BY <1>2, <2>1, LenProperties
  <2> QED BY <1>2, <2>1, <2>2
<1>4. /\ cpool' \in Seq(Chunks) /\ ToSet(cpool') \subseteq ToSet(cpool)
      /\ cpool[i] \in Chunks /\ cpool[i] \in ToSet(cpool)
  BY <1>1, <1>2, <1>3, RemoveAtFacts
<1>11. PICK found \in SUBSET waiting :
         /\ ran' = [m \in Ids |-> IF m \in found THEN ran[m] + 1 ELSE ran[m]]
         /\ waiting' = waiting \ found
         /\ cbusy' \in {cbusy, cbusy + 1}
         /\ cbusy' = cbusy + 1 => cbusy' = cbusy \/ cpool[i].of.kind = "handshake"
  <2>1. CASE UNCHANGED <<ran, waiting, cbusy>>
    <3>1. ran' = [m \in Ids |-> IF m \in {} THEN ran[m] + 1 ELSE ran[m]]
      BY <1>2, <2>1
    <3> QED BY <2>1, <3>1
  <2>2. ASSUME NEW p \in ReadPacket(cpool[i], ccount, key),
               ran' = [m \in Ids |-> IF m \in waiting \cap {p.id} THEN ran[m] + 1 ELSE ran[m]],
               cbusy' = IF p.kind = "handshake" /\ waiting \cap {p.id} # {} THEN cbusy + 1 ELSE cbusy,
               waiting' = waiting \ (waiting \cap {p.id})
        PROVE  \E found \in SUBSET waiting :
                 /\ ran' = [m \in Ids |-> IF m \in found THEN ran[m] + 1 ELSE ran[m]]
                 /\ waiting' = waiting \ found
                 /\ cbusy' \in {cbusy, cbusy + 1}
                 /\ cbusy' = cbusy + 1 => cbusy' = cbusy \/ cpool[i].of.kind = "handshake"
    <3>1. p.kind = "handshake" => cpool[i].of.kind = "handshake"
      BY <1>4, ReadTyped
    <3> WITNESS waiting \cap {p.id} \in SUBSET waiting
    <3> QED BY <2>2, <3>1
  <2> QED BY <1>1, <2>1, <2>2
<1>5. \A m \in Ids : /\ ran'[m] \in 0 .. 1
                     /\ (IF m \in waiting' THEN 1 ELSE 0) + ran'[m] = (IF m \in waiting THEN 1 ELSE 0) + ran[m]
                     /\ m \in waiting' => m \in waiting
  <2> SUFFICES ASSUME NEW m \in Ids
               PROVE  /\ ran'[m] \in 0 .. 1
                      /\ (IF m \in waiting' THEN 1 ELSE 0) + ran'[m] = (IF m \in waiting THEN 1 ELSE 0) + ran[m]
                      /\ m \in waiting' => m \in waiting
    OBVIOUS
  <2>1. ran[m] \in 0 .. 1 /\ (m \in waiting => ran[m] = 0)
    <3>1. Count(ctasks, m) \in Nat /\ ran[m] \in 0 .. 1
      BY <1>2, Typed
    <3>2. Count(ctasks, m) + (IF m \in waiting THEN 1 ELSE 0) + ran[m] <= 1
      BY DEF CallbackOnce
    <3> QED BY <3>1, <3>2
  <2>2. CASE m \in found
    BY <1>11, <2>1, <2>2
  <2>3. CASE m \notin found
    BY <1>11, <2>1, <2>3
  <2> QED BY <2>2, <2>3
<1>6. TypeOK'
  <2>1. ran' \in [Ids -> 0 .. 1] /\ waiting' \subseteq Ids
    <3>1. DOMAIN ran' = Ids /\ ran' = [m \in Ids |-> ran'[m]]
      BY <1>11
    <3> QED BY <1>2, <1>5, <1>11, <3>1
  <2>2. cbusy' \in 0 .. ClientThreads - 1
    BY <1>2, <1>3, <1>11
  <2> QED BY <1>2, <1>4, <2>1, <2>2 DEF TypeOK
<1>7. Counted'
  BY <1>2 DEF Counted
<1>8. CallbackOnce'
  <2> SUFFICES ASSUME NEW m \in Ids
               PROVE  /\ Count(ctasks, m) + (IF m \in waiting' THEN 1 ELSE 0) + ran'[m] <= 1
                      /\ Count(ctasks, m) > 0 \/ m \in waiting' \/ ran'[m] > 0 => m <= Len(calls)
    BY <1>2 DEF CallbackOnce
  <2>1. /\ Count(ctasks, m) + (IF m \in waiting THEN 1 ELSE 0) + ran[m] <= 1
        /\ Count(ctasks, m) > 0 \/ m \in waiting \/ ran[m] > 0 => m <= Len(calls)
    BY DEF CallbackOnce
  <2>2. /\ ran[m] \in Nat /\ Count(ctasks, m) \in Nat /\ ran'[m] \in 0 .. 1
        /\ (IF m \in waiting' THEN 1 ELSE 0) + ran'[m] = (IF m \in waiting THEN 1 ELSE 0) + ran[m]
        /\ m \in waiting' => m \in waiting
    BY <1>5, Typed
  <2>3. ran'[m] > 0 => m \in waiting \/ ran[m] > 0
    BY <2>2
  <2> QED BY <2>1, <2>2, <2>3
<1>9. AnswerHasKey'
  <2>1. Answers' \subseteq Answers
    BY <1>2, <1>4 DEF Answers
  <2>2. cbusy' > 0 => cbusy > 0 \/ Answers # {}
    <3>1. cpool[i].of.kind = "handshake" => cpool[i].of \in Answers
      BY <1>4 DEF Answers
    <3> QED BY <1>2, <1>11, <3>1
  <2> QED BY <1>2, <2>1, <2>2 DEF AnswerHasKey
<1>10. NoncesDrift'
  BY <1>2 DEF NoncesDrift
<1> QED BY <1>6, <1>7, <1>8, <1>9, <1>10

\* The client computes a key it was about to compute.
LEMMA ClientComputeInv ==
  ASSUME Inv, ClientCompute
  PROVE  Inv'
<1> USE DEF Inv, client, server
<1>1. /\ UNCHANGED <<calls, ctasks, ccount, waiting, cpool, ran, c2s, s2c, stasks, scount, skey, spool, sbusy>>
      /\ cbusy > 0 /\ ckey' \in {"computing", "shared"} /\ cbusy' \in {cbusy, cbusy - 1}
      /\ cbusy \in 0 .. ClientThreads - 1 /\ ClientThreads \in Nat \ {0}
  BY Typed DEF ClientCompute
<1>2. TypeOK'
  <2>1. cbusy' \in 0 .. ClientThreads - 1
    BY <1>1
  <2> QED BY <1>1, <2>1 DEF TypeOK
<1>3. Counted' /\ CallbackOnce' /\ NoncesDrift'
  BY <1>1 DEF Counted, CallbackOnce, NoncesDrift
<1>4. AnswerHasKey'
  BY <1>1 DEF AnswerHasKey, Answers
<1> QED BY <1>2, <1>3, <1>4

\* A packet that arrives is counted once.
LEMMA ServerReceiveInv ==
  ASSUME Inv, ServerReceive
  PROVE  Inv'
<1> USE DEF Inv, client, server
<1>1. PICK n \in 1 .. Len(c2s) : spool' = Append(spool, Chunk(c2s, n)) /\ c2s' = SubSeq(c2s, n + 1, Len(c2s))
  BY DEF ServerReceive
<1>2. /\ scount' = scount + 1
      /\ UNCHANGED <<calls, ctasks, ccount, ckey, waiting, cpool, cbusy, ran, s2c, stasks, skey, sbusy>>
      /\ c2s \in Seq(Parts) /\ spool \in Seq(Chunks) /\ ccount \in Nat /\ scount \in Nat
      /\ Len(s2c) \in Nat /\ Len(stasks) \in Nat /\ Len(spool) \in Nat /\ Pieces \in Nat
  BY Typed DEF ServerReceive
<1>3. /\ Len(c2s) \in Nat /\ n \in Nat /\ DOMAIN c2s = 1 .. Len(c2s)
      /\ c2s' \in Seq(Parts) /\ DOMAIN c2s' = 1 .. Len(c2s) - n
      /\ \A i \in 1 .. Len(c2s) - n : i + n \in 1 .. Len(c2s) /\ c2s'[i] = c2s[i + n]
      /\ Chunk(c2s, n) \in Chunks
  BY <1>1, <1>2, ReadFacts
<1>4. spool' \in Seq(Chunks) /\ Len(spool') = Len(spool) + 1
  BY <1>1, <1>2, <1>3, QueueSteps
<1> DEFINE k == Len(stasks) + Len(spool)
<1>5. /\ k \in Nat /\ Len(stasks') + Len(spool') = k + 1
      /\ PiecesOf(k) \in Nat /\ PiecesOf(k + 1) = PiecesOf(k) + Pieces
      /\ PiecesOf(scount) \in Nat /\ PiecesOf(scount + 1) = PiecesOf(scount) + Pieces
  <2>1. k \in Nat /\ Len(stasks') + Len(spool') = k + 1
    BY <1>2, <1>4
  <2> HIDE DEF k
  <2> QED BY <1>2, <2>1, PiecesMore
<1>6. Counted'
  <2>1. ccount + Len(s2c) + PiecesOf(k) <= PiecesOf(scount)
    BY DEF Counted
  <2> HIDE DEF k
  <2>2. ccount + Len(s2c) + PiecesOf(k + 1) <= PiecesOf(scount + 1)
    BY <1>2, <1>5, <2>1
  <2> QED BY <1>2, <1>5, <2>2 DEF Counted, PiecesOf
<1>7. TypeOK'
  BY <1>2, <1>3, <1>4 DEF TypeOK
<1>8. CallbackOnce' /\ AnswerHasKey'
  BY <1>2 DEF CallbackOnce, AnswerHasKey, Answers
<1>9. NoncesDrift'
  <2>1. ASSUME NEW i \in DOMAIN c2s' PROVE c2s'[i].of.nonce <= PiecesOf(scount + 1)
    <3>1. i + n \in DOMAIN c2s /\ c2s'[i] = c2s[i + n]
      BY <1>3
    <3>2. c2s[i + n].of.nonce <= PiecesOf(scount)
      BY <3>1 DEF NoncesDrift, PiecesOf
    <3>3. c2s[i + n].of.nonce \in Nat
      <4>1. c2s[i + n] \in Parts
        BY <1>2, <1>3, <3>1, ElementOfSeq
      <4> QED BY <4>1, PacketTyped DEF Parts
    <3> QED BY <1>2, <1>5, <3>1, <3>2, <3>3
  <2> QED BY <1>2, <2>1 DEF NoncesDrift, PiecesOf
<1> QED BY <1>6, <1>7, <1>8, <1>9

\* An answer to a handshake is posted together with the key to compute.
LEMMA ServerCallbackInv ==
  ASSUME Inv, ServerCallback
  PROVE  Inv'
<1> USE DEF Inv, client, server
<1>1. PICK i \in Taken(spool, ServerThreads - sbusy), key \in Seen(skey) :
        /\ spool' = RemoveAt(spool, i)
        /\ \/ \E p \in ReadPacket(spool[i], scount - 1, key) :
                 /\ stasks' = IF p.kind = "data" THEN stasks ELSE Append(stasks, [id |-> p.id, kind |-> p.kind])
                 /\ sbusy' = IF p.kind = "handshake" THEN sbusy + 1 ELSE sbusy
           \/ UNCHANGED <<stasks, sbusy>>
  BY DEF ServerCallback
<1>2. /\ UNCHANGED <<calls, ctasks, ccount, ckey, waiting, cpool, cbusy, ran, c2s, s2c, scount, skey>>
      /\ spool \in Seq(Chunks) /\ stasks \in Seq(Replies)
      /\ sbusy \in 0 .. ServerThreads /\ ServerThreads \in Nat \ {0}
      /\ ccount \in Nat /\ scount \in Nat /\ Len(s2c) \in Nat /\ Len(stasks) \in Nat /\ Len(spool) \in Nat
  BY Typed DEF ServerCallback
<1>3. i \in DOMAIN spool /\ sbusy + 1 \in 0 .. ServerThreads
  <2>1. i \in DOMAIN spool /\ i <= ServerThreads - sbusy
    BY DEF Taken
  <2>2. i \in 1 .. Len(spool) /\ Len(spool) \in Nat
    BY <1>2, <2>1, LenProperties
  <2> QED BY <1>2, <2>1, <2>2
<1>4. /\ spool' \in Seq(Chunks) /\ Len(spool') = Len(spool) - 1 /\ Len(spool) > 0
      /\ spool[i] \in Chunks
  BY <1>1, <1>2, <1>3, RemoveAtFacts
<1>5. PICK reply \in Replies :
        \/ UNCHANGED <<stasks, sbusy>>
        \/ stasks' = Append(stasks, reply) /\ reply.kind = "test" /\ sbusy' = sbusy
        \/ stasks' = Append(stasks, reply) /\ reply.kind = "handshake" /\ sbusy' = sbusy + 1
  <2>1. CASE UNCHANGED <<stasks, sbusy>>
    <3>1. [id |-> 0, kind |-> "test"] \in Replies
      BY ProtocolAssumption DEF Replies, AllKinds
    <3> QED BY <2>1, <3>1
  <2>2. ASSUME NEW p \in ReadPacket(spool[i], scount - 1, key),
               stasks' = IF p.kind = "data" THEN stasks ELSE Append(stasks, [id |-> p.id, kind |-> p.kind]),
               sbusy' = IF p.kind = "handshake" THEN sbusy + 1 ELSE sbusy
        PROVE  \E reply \in Replies :
                 \/ UNCHANGED <<stasks, sbusy>>
                 \/ stasks' = Append(stasks, reply) /\ reply.kind = "test" /\ sbusy' = sbusy
                 \/ stasks' = Append(stasks, reply) /\ reply.kind = "handshake" /\ sbusy' = sbusy + 1
    <3>1. p.id \in 0 .. MaxCalls /\ p.kind \in AllKinds
      BY <1>4, ReadTyped
    <3>2. [id |-> p.id, kind |-> p.kind] \in Replies
      BY <3>1 DEF Replies
    <3> WITNESS [id |-> p.id, kind |-> p.kind] \in Replies
    <3> QED BY <2>2, <3>1 DEF AllKinds
  <2> QED BY <1>1, <2>1, <2>2
<1>8. /\ stasks' \in Seq(Replies) /\ Len(stasks') \in {Len(stasks), Len(stasks) + 1}
      /\ ToSet(stasks') \subseteq ToSet(stasks) \cup {reply}
  <2>1. CASE stasks' = stasks
    BY <1>2, <2>1
  <2>2. CASE stasks' = Append(stasks, reply)
    <3>1. stasks' \in Seq(Replies) /\ ToSet(stasks') = ToSet(stasks) \cup {reply}
      BY <1>2, <1>5, <2>2, CountAppend, ZenonT(40)
    <3>2. Len(stasks') = Len(stasks) + 1
      BY <1>2, <1>5, <2>2, QueueSteps
    <3> QED BY <3>1, <3>2
  <2> QED BY <1>5, <2>1, <2>2
<1>9. TypeOK'
  <2>1. sbusy' \in 0 .. ServerThreads
    BY <1>2, <1>3, <1>5
  <2> QED BY <1>2, <1>4, <1>8, <2>1 DEF TypeOK
<1>10. Counted'
  <2> DEFINE k == Len(stasks) + Len(spool)  j == Len(stasks') + Len(spool')
  <2>1. k \in Nat /\ j \in Nat /\ j <= k
    BY <1>2, <1>4, <1>8
  <2>2. ccount + Len(s2c) + PiecesOf(k) <= PiecesOf(scount)
    BY DEF Counted
  <2> HIDE DEF k, j
  <2>3. PiecesOf(j) <= PiecesOf(k) /\ PiecesOf(j) \in Nat /\ PiecesOf(k) \in Nat /\ PiecesOf(scount) \in Nat
    BY <1>2, <2>1, PiecesMore
  <2>4. ccount + Len(s2c) + PiecesOf(j) <= PiecesOf(scount)
    BY <1>2, <2>2, <2>3
  <2> QED BY <1>2, <2>4 DEF Counted, PiecesOf, j
<1>11. CallbackOnce' /\ NoncesDrift'
  BY <1>2 DEF CallbackOnce, NoncesDrift
<1>12. AnswerHasKey'
  <2>1. CASE sbusy' > 0
    BY <2>1 DEF AnswerHasKey
  <2>2. CASE ~(sbusy' > 0)
    <3>1. sbusy' = sbusy /\ (ToSet(stasks') \subseteq ToSet(stasks) \/ reply.kind # "handshake")
      <4>1. CASE UNCHANGED <<stasks, sbusy>>
        BY <4>1
      <4>2. CASE reply.kind = "test" /\ sbusy' = sbusy
        BY <4>2
      <4>3. CASE sbusy' = sbusy + 1
        BY <4>3, <1>2, <2>2
      <4> QED BY <1>5, <4>1, <4>2, <4>3
    <3>2. Answers' \subseteq Answers
      BY <1>2, <1>8, <3>1 DEF Answers
    <3> QED BY <1>2, <3>1, <3>2 DEF AnswerHasKey
  <2> QED BY <2>1, <2>2
<1> QED BY <1>9, <1>10, <1>11, <1>12

\* The server, once about to compute a key, has one for good.
LEMMA ServerComputeInv ==
  ASSUME Inv, ServerCompute
  PROVE  Inv'
<1> USE DEF Inv, client, server
<1>1. /\ UNCHANGED <<calls, ctasks, ccount, ckey, waiting, cpool, cbusy, ran, c2s, s2c, stasks, scount, spool>>
      /\ sbusy > 0 /\ skey' \in {"computing", "shared"} /\ sbusy' \in {sbusy, sbusy - 1}
      /\ sbusy \in 0 .. ServerThreads /\ ServerThreads \in Nat \ {0}
  BY Typed DEF ServerCompute
<1>2. TypeOK'
  <2>1. sbusy' \in 0 .. ServerThreads
    BY <1>1
  <2> QED BY <1>1, <2>1 DEF TypeOK
<1>3. Counted' /\ CallbackOnce' /\ NoncesDrift'
  BY <1>1 DEF Counted, CallbackOnce, NoncesDrift
<1>4. AnswerHasKey'
  BY <1>1 DEF AnswerHasKey
<1> QED BY <1>2, <1>3, <1>4

\* A reply created now has a nonce that the client has yet to reach.
LEMMA ServerSendInv ==
  ASSUME Inv, ServerSend
  PROVE  Inv'
<1> USE DEF Inv, client, server
<1> DEFINE t == Head(stasks)
<1>1. PICK key \in Seen(skey) : s2c' = s2c \o Cut(CreatePacket(t.id, t.kind, scount, key))
  BY DEF ServerSend
<1> DEFINE p == CreatePacket(t.id, t.kind, scount, key)
<1>2. /\ stasks # <<>> /\ stasks' = Tail(stasks)
      /\ UNCHANGED <<calls, ctasks, ccount, ckey, waiting, cpool, cbusy, ran, c2s, scount, skey, spool, sbusy>>
      /\ stasks \in Seq(Replies) /\ s2c \in Seq(Parts)
      /\ scount \in Nat /\ ccount \in Nat /\ Pieces \in Nat
      /\ Len(s2c) \in Nat /\ Len(stasks) \in Nat /\ Len(spool) \in Nat
  BY Typed DEF ServerSend
<1>3. /\ t \in Replies /\ stasks' \in Seq(Replies)
      /\ Len(stasks') = Len(stasks) - 1 /\ Len(stasks) > 0
      /\ ToSet(stasks) = {t} \cup ToSet(stasks')
  BY <1>2, QueueSteps, CountTail
<1> HIDE DEF t
<1>4. p \in Packets /\ p.nonce = scount /\ p.kind = t.kind
  <2>1. t.id \in 0 .. MaxCalls /\ t.kind \in AllKinds /\ key \in Keys /\ scount \in Nat
    BY <1>2, <1>3, Typed DEF Replies
  <2> QED BY <2>1, PacketTyped
<1> HIDE DEF p
<1>5. /\ s2c' \in Seq(Parts) /\ Len(s2c') = Len(s2c) + Pieces
      /\ DOMAIN s2c = 1 .. Len(s2c) /\ DOMAIN s2c' = 1 .. Len(s2c) + Pieces
      /\ \A i \in 1 .. Len(s2c) : s2c'[i] = s2c[i]
      /\ \A i \in 1 .. Len(s2c) + Pieces : i > Len(s2c) => s2c'[i].of = p
      /\ \A x \in ToSet(s2c') : x \in ToSet(s2c) \/ x.of = p
  <2>1. s2c' = s2c \o Cut(p)
    BY <1>1 DEF p
  <2>2. Sent(s2c, p, s2c')
    BY <1>2, <1>4, <2>1, SendFacts
  <2> QED BY <2>2 DEF Sent
<1>6. TypeOK'
  BY <1>2, <1>3, <1>5 DEF TypeOK
<1> DEFINE k == Len(stasks') + Len(spool)
<1>11. /\ k \in Nat /\ PiecesOf(k) \in Nat /\ PiecesOf(scount) \in Nat
       /\ ccount + Len(s2c) + (PiecesOf(k) + Pieces) <= PiecesOf(scount)
  <2>1. k \in Nat /\ Len(stasks) + Len(spool) = k + 1
    BY <1>2, <1>3
  <2>2. ccount + Len(s2c) + PiecesOf(Len(stasks) + Len(spool)) <= PiecesOf(scount)
    BY DEF Counted
  <2> HIDE DEF k
  <2> QED BY <1>2, <2>1, <2>2, PiecesMore
<1> HIDE DEF k
<1>7. Counted'
  <2>1. ccount + Len(s2c') + PiecesOf(k) <= PiecesOf(scount)
    BY <1>2, <1>5, <1>11
  <2> QED BY <1>2, <2>1 DEF Counted, PiecesOf, k
<1>8. CallbackOnce'
  BY <1>2 DEF CallbackOnce
<1>9. AnswerHasKey'
  <2>1. Answers' # {} => Answers # {}
    BY <1>2, <1>3, <1>4, <1>5 DEF Answers
  <2> QED BY <1>2, <2>1 DEF AnswerHasKey
<1>10. NoncesDrift'
  <2>1. ASSUME NEW i \in DOMAIN s2c' PROVE ccount + i <= Pieces * s2c'[i].of.nonce
    <3>1. CASE i \in 1 .. Len(s2c)
      BY <3>1, <1>5 DEF NoncesDrift
    <3>2. CASE i > Len(s2c)
      <4>1. i \in Nat /\ i <= Len(s2c) + Pieces /\ s2c'[i].of.nonce = scount
        BY <3>2, <1>2, <1>4, <1>5
      <4>2. ccount + i <= PiecesOf(scount)
        BY <1>2, <1>11, <4>1
      <4> QED BY <4>1, <4>2 DEF PiecesOf
    <3> QED BY <1>2, <1>5, <3>1, <3>2
  <2> QED BY <1>2, <2>1 DEF NoncesDrift
<1> QED BY <1>6, <1>7, <1>8, <1>9, <1>10
-----------------------------------------------------------------------------
\* Nothing has been written at first.
LEMMA InitInv ==
  ASSUME Init
  PROVE  Inv
<1> USE DEF Init
<1>1. MaxCalls \in Nat /\ ClientThreads \in Nat \ {0} /\ ServerThreads \in Nat \ {0}
  BY ProtocolAssumption
<1>2. TypeOK
  <2>1. \A S : <<>> \in Seq(S) /\ Len(<<>>) = 0
    BY EmptySeq
  <2>2. 0 \in 0 .. MaxCalls /\ 0 \in 0 .. ClientThreads - 1 /\ 0 \in 0 .. ServerThreads
    BY <1>1
  <2> QED BY <1>1, <2>1, <2>2 DEF TypeOK
<1>3. Counted
  <2>1. Len(<<>>) = 0 /\ PiecesOf(0) \in Nat
    BY EmptySeq, PiecesMore
  <2>2. ccount + Len(s2c) = 0 /\ Len(stasks) + Len(spool) = 0 /\ scount = 0
    BY <2>1
  <2> QED BY <2>1, <2>2 DEF Counted
<1>4. CallbackOnce
  <2>1. \A m \in Ids : Count(ctasks, m) = 0 /\ ran[m] = 0
    BY CountEmpty
  <2> QED BY <2>1 DEF CallbackOnce
<1>5. AnswerHasKey
  BY DEF AnswerHasKey, Answers, ToSet
<1>6. NoncesDrift
  BY DEF NoncesDrift
<1> QED BY <1>2, <1>3, <1>4, <1>5, <1>6 DEF Inv

\* Every step preserves the invariant.
LEMMA StepInv ==
  ASSUME Inv, [Next]_vars
  PROVE  Inv'
<1>1. CASE UNCHANGED vars
  BY <1>1 DEF vars, client, server, Inv, TypeOK, Counted, CallbackOnce, AnswerHasKey, Answers, NoncesDrift
<1>2. ASSUME NEW kind \in Kinds, Write(kind) PROVE Inv'
  BY <1>2, WriteInv
<1>3. CASE ClientSend \/ ClientReceive \/ ClientCallback \/ ClientCompute
  BY <1>3, ClientSendInv, ClientReceiveInv, ClientCallbackInv, ClientComputeInv
<1>4. CASE ServerReceive \/ ServerCallback \/ ServerCompute \/ ServerSend
  BY <1>4, ServerReceiveInv, ServerCallbackInv, ServerComputeInv, ServerSendInv
<1> QED BY <1>1, <1>2, <1>3, <1>4 DEF Next

\* The invariant holds always.
LEMMA AlwaysInv == Spec => []Inv
  BY InitInv, StepInv, PTL DEF Spec

\* The state is of its type, for every number of messages, threads and pieces:
\* a callback runs at most once (client.cpp:96-113, server.h:94-95).
THEOREM TypeCorrect == Spec => []TypeOK
<1>1. Inv => TypeOK
  BY DEF Inv
<1> QED BY <1>1, AlwaysInv, PTL

\* However the threads of the two pools interleave and the packets are cut and
\* joined, the client never has a shared key that the server does not have or is
\* not about to compute (server.cpp:16-32, client.cpp:96-103).
THEOREM ServerHasKey == Spec => []ServerFollows
<1>1. Inv => ServerFollows
  BY DEF Inv, AnswerHasKey, ServerFollows
<1> QED BY <1>1, AlwaysInv, PTL

\* However packets are cut and joined, the nonces on the way stay within what one
\* reply per read of the server allows, for every number of messages and of
\* pieces (server.h:94-95, client.cpp:87-94).
THEOREM DriftBounded == Spec => []NoncesDrift
<1>1. Inv => NoncesDrift
  BY DEF Inv
<1> QED BY <1>1, AlwaysInv, PTL
=============================================================================
