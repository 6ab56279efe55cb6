---- MODULE ForwardSecret ----
(***************************************************************************)
(* AEADChaCha20Poly1305 and FSChaCha20Poly1305 of                          *)
(* crypto/cc20poly1305.cpp, on the ciphers of ChaCha20 and the     *)
(* buffering of Poly1305: two objects with one key and one interval, one   *)
(* encrypting a stream of packets, the other decrypting what arrives of    *)
(* it, some of it damaged on the way.                                      *)
(***************************************************************************)
EXTENDS ChaCha20, Poly1305

CONSTANTS KeyLen,        \* ChaCha20::KEYLEN (32)
          FirstKey,      \* the key both objects are constructed with
          Intervals,     \* the rekey intervals an object may be constructed with
          Shapes,        \* lengths <<plain1, plain2, aad>> of the packets
          MaxPackets     \* packets sent in one behaviour

\* An interval of 0 would be compared with the counter only after it wraps.
\* The first key is no keystream of these ciphers, whose tokens have five
\* parts, and a text fits in the blocks of its nonce (2^32 - 1 of them).
ASSUME FSAssumption ==
    /\ KeyLen \in 1..BlockLen
    /\ FirstKey = [i \in 1..KeyLen |-> FirstKey[i]]
    /\ \A i \in 1..KeyLen : \A t \in FirstKey[i] : Len(t) # 5
    /\ Intervals \subseteq 1..(WordMod - 1)
    /\ \A s \in Shapes : /\ {s[1], s[2], s[3]} \subseteq Nat
                         /\ s[1] + s[2] <= (WordMod - 1) * BlockLen
    /\ MaxPackets \in Nat

VARIABLES sender, receiver, sent, got

fsVars == <<sender, receiver, sent, got>>

Zeros(n) == [i \in 1..n |-> {}]

\* The zeros that fill the last block of n bytes.
Padding(n) == Zeros((TagLen - (n % TagLen)) % TagLen)

\* The last block of the tag: the two lengths.
LengthDesc(aad, body) ==
    <<NumByte(Len(aad)), NumByte(Len(body))>> \o Zeros(TagLen - 2)

\* Plausible bug: only the bytes the key needs are drawn.
ComputeTagShort(c, aad, body) ==
    LET pad == Keystream(c, KeyLen)
        st1 == PolyUpdate(PolyUpdate(PolyInit(pad.out), aad), Padding(Len(aad)))
        st2 == PolyUpdate(PolyUpdate(st1, body), Padding(Len(body)))
    IN  [cipher |-> pad.cipher, tag |-> PolyFinish(PolyUpdate(st2, LengthDesc(aad, body)))]

\* ComputeTag: one whole block of the pad makes the key, so the cipher is at
\* block 1 afterwards with nothing left over.
ComputeTag(c, aad, body) ==
    LET pad == Keystream(c, BlockLen)
        st1 == PolyUpdate(PolyUpdate(PolyInit(SubSeq(pad.out, 1, KeyLen)), aad),
                          Padding(Len(aad)))
        st2 == PolyUpdate(PolyUpdate(st1, body), Padding(Len(body)))
    IN  [cipher |-> pad.cipher, tag |-> PolyFinish(PolyUpdate(st2, LengthDesc(aad, body)))]

\* AEADChaCha20Poly1305::Encrypt: the text from block 1, the tag from block 0.
AeadEncrypt(c, plain1, plain2, aad, nonce) ==
    LET one  == Crypt(Seek(c, nonce, 1), plain1)
        two  == Crypt(one.cipher, plain2)
        body == one.out \o two.out
        tag  == ComputeTag(Seek(two.cipher, nonce, 0), aad, body)
    IN  [cipher |-> tag.cipher, body |-> body, tag |-> tag.tag]

\* AEADChaCha20Poly1305::Decrypt into a first part of n bytes and the rest;
\* a wrong tag leaves both as they were.
AeadDecrypt(c, body, tag, n, aad, nonce) ==
    LET made == ComputeTag(Seek(c, nonce, 0), aad, body)
        one  == Crypt(made.cipher, SubSeq(body, 1, n))
        two  == Crypt(one.cipher, SubSeq(body, n + 1, Len(body)))
    IN  IF made.tag # tag THEN [cipher |-> made.cipher, ok |-> FALSE, plain |-> <<>>]
        ELSE [cipher |-> two.cipher, ok |-> TRUE, plain |-> one.out \o two.out]

\* AEADChaCha20Poly1305::Keystream
AeadKeystream(c, nonce, n) == Keystream(Seek(c, nonce, 1), n)

\* The nonce of the next packet, and the one the next key is drawn under.
PacketNonce(p) == <<p.packets, p.rekeys>>
RekeyNonce(p) == <<WordMod - 1, p.rekeys>>

\* Plausible bug: the count goes on over a rekey.
NextPacketKeepsCount(p) ==
    LET count == (p.packets + 1) % WordMod
        pad   == AeadKeystream(p.cipher, RekeyNonce(p), BlockLen)
    IN  IF count # p.interval THEN [p EXCEPT !.packets = count]
        ELSE [p EXCEPT !.cipher = SetKey(SubSeq(pad.out, 1, KeyLen)),
                       !.packets = count, !.rekeys = @ + 1]

\* Plausible bug: a rekey leaves the key and the rekey counter as they were.
NextPacketSameKey(p) ==
    LET count == (p.packets + 1) % WordMod
    IN  [p EXCEPT !.packets = IF count = p.interval THEN 0 ELSE count]

\* FSChaCha20Poly1305::NextPacket
NextPacket(p) ==
    LET count == (p.packets + 1) % WordMod
        pad   == AeadKeystream(p.cipher, RekeyNonce(p), BlockLen)
    IN  IF count # p.interval THEN [p EXCEPT !.packets = count]
        ELSE [p EXCEPT !.cipher = SetKey(SubSeq(pad.out, 1, KeyLen)),
                       !.packets = 0, !.rekeys = @ + 1]

NewParty(interval) ==
    [cipher |-> SetKey(FirstKey), packets |-> 0, rekeys |-> 0, interval |-> interval]

FSInit == /\ \E i \in Intervals : sender = NewParty(i) /\ receiver = NewParty(i)
          /\ sent = <<>> /\ got = <<>>

\* FSChaCha20Poly1305::Encrypt of a packet of this shape. Its bytes are all
\* different; the associated data is zeros.
Encrypt(shape) ==
    LET plain == [i \in 1..(shape[1] + shape[2]) |-> {<<Len(sent) + 1, i>>}]
        aad   == Zeros(shape[3])
        made  == AeadEncrypt(sender.cipher, SubSeq(plain, 1, shape[1]),
                             SubSeq(plain, shape[1] + 1, Len(plain)), aad,
                             PacketNonce(sender))
    IN  /\ Len(sent) < MaxPackets
        /\ sender' = NextPacket([sender EXCEPT !.cipher = made.cipher])
        /\ sent' = Append(sent, [plain |-> plain, aad |-> aad,
                                 body |-> made.body, tag |-> made.tag])
        /\ UNCHANGED <<receiver, got>>

\* What may arrive of a packet: the packet, or one with a byte changed, cut
\* short, with more or less associated data, with the associated data
\* running into the text, or with the tag of another packet.
Damaged(p) ==
       {[p EXCEPT !.body[i] = Xor(@, {<<0>>})] : i \in DOMAIN p.body}
    \cup {[p EXCEPT !.body = SubSeq(@, 1, Len(@) - 1)] : i \in DOMAIN p.body \cap {1}}
    \cup {[p EXCEPT !.aad = Append(@, {})]}
    \cup {[p EXCEPT !.aad = SubSeq(@, 1, Len(@) - 1)] : i \in DOMAIN p.aad \cap {1}}
    \cup {[p EXCEPT !.aad = SubSeq(@, 1, Len(@) - 1), !.body = <<{}>> \o @] :
            i \in DOMAIN p.aad \cap {1}}
    \cup {[p EXCEPT !.tag = q.tag] : q \in {sent[m] : m \in DOMAIN sent} \ {p}}

\* Plausible bug: a packet that is refused is not counted.
DecryptCountsGood(p, n) ==
    LET read == AeadDecrypt(receiver.cipher, p.body, p.tag, n, p.aad, PacketNonce(receiver))
        met  == [receiver EXCEPT !.cipher = read.cipher]
    IN  /\ receiver' = IF read.ok THEN NextPacket(met) ELSE met
        /\ got' = Append(got, [ok |-> read.ok, plain |-> read.plain,
                               whole |-> p = sent[Len(got) + 1]])
        /\ UNCHANGED <<sender, sent>>

\* FSChaCha20Poly1305::Decrypt of the next packet, into parts of its own cut:
\* the packet is counted whatever becomes of it.
Decrypt(p, n) ==
    LET read == AeadDecrypt(receiver.cipher, p.body, p.tag, n, p.aad, PacketNonce(receiver))
    IN  /\ receiver' = NextPacket([receiver EXCEPT !.cipher = read.cipher])
        /\ got' = Append(got, [ok |-> read.ok, plain |-> read.plain,
                               whole |-> p = sent[Len(got) + 1]])
        /\ UNCHANGED <<sender, sent>>

FSNext ==
    \/ \E shape \in Shapes : Encrypt(shape)
    \/ /\ Len(got) < Len(sent)
       /\ LET p == sent[Len(got) + 1]
          IN  \E q \in {p} \cup Damaged(p) : \E n \in 0..Len(q.body) : Decrypt(q, n)

FSSpec == FSInit /\ [][FSNext]_fsVars

----------------------------------------------------------------------------

Party(p) == /\ p.interval \in Intervals /\ p.rekeys \in 0..MaxPackets
            /\ p.packets \in 0..(p.interval - 1)
            /\ p.cipher.left \in 0..(BlockLen - 1)
            /\ {p.cipher.block, p.cipher.first} \subseteq 0..(WordMod - 1)
            /\ Len(p.cipher.key) = KeyLen

\* Type invariant: the packet counter stays below the interval, so no packet
\* is encrypted under the nonce the keys are drawn under (NextPacket).
FSTypeOK == /\ Party(sender) /\ Party(receiver)
            /\ Len(sent) <= MaxPackets /\ Len(got) <= Len(sent)

\* The counters of an object that has met n packets.
Counted(p, n) == (p.rekeys * p.interval) + p.packets = n

\* Property: both ends count every packet, refused ones included, so that each
\* packet has a nonce of its own, both use the same one for it, and none meets
\* the nonce that the next key is drawn under (FSChaCha20Poly1305::Encrypt,
\* Decrypt and NextPacket).
CountersInStep ==
    /\ Counted(sender, Len(sent)) /\ Counted(receiver, Len(got))
    /\ Len(got) = Len(sent) => PacketNonce(receiver) = PacketNonce(sender)
    /\ \A p \in {sender, receiver} : PacketNonce(p) # RekeyNonce(p)

\* The block a token of the keystream is from, and the blocks of a set of
\* bytes. Tokens of the plain text and of lengths are shorter.
BlocksOf(bytes) == {<<t[1], t[2], t[3], t[4]>> : t \in {t \in UNION bytes : Len(t) = 5}}
ElementsOf(s) == {s[i] : i \in DOMAIN s}

\* What each packet uses the keystream for: its text and the key of its tag;
\* and the keys drawn for the next packets.
TextPads == [n \in DOMAIN sent |-> BlocksOf(ElementsOf(sent[n].body))]
TagPads == [n \in DOMAIN sent |-> BlocksOf(ElementsOf(sent[n].tag.key))]
KeyPads == BlocksOf(UNION {ElementsOf(b[1]) :
                b \in UNION {TextPads[n] \cup TagPads[n] : n \in DOMAIN sent}})

\* Property: no block of keystream is ever used twice: not by two packets, not
\* for a text and for the key of a tag, not for a packet and for the next key
\* (the Seeks of Encrypt and Decrypt, the counters of NextPacket).
PadsUsedOnce ==
    /\ \A m, n \in DOMAIN sent :
          /\ TextPads[m] \cap TagPads[n] = {}
          /\ m # n => TextPads[m] \cap TextPads[n] = {} /\ TagPads[m] \cap TagPads[n] = {}
    /\ KeyPads \cap UNION {TextPads[n] \cup TagPads[n] : n \in DOMAIN sent} = {}

\* Property: the receiver accepts a packet exactly when it arrives as it was
\* sent, and then reads the plain text, wherever the two sides cut it in
\* parts, whichever packets before it were damaged and across every rekey
\* (ComputeTag leaves Decrypt at block 1; both sides count each packet once).
WholeIsRead ==
    \A n \in DOMAIN got :
        /\ got[n].ok = got[n].whole
        /\ got[n].ok => got[n].plain = sent[n].plain
====
