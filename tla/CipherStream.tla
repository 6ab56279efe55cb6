---- MODULE CipherStream ----
(***************************************************************************)
(* The user of one ChaCha20 object: any sequence of SetKey, Seek,          *)
(* Keystream and Crypt calls of any lengths, as the AEAD, the tests and    *)
(* KeysWrapper make them. The object shows its user the stream of          *)
(* KeyStream.                                                              *)
(***************************************************************************)
EXTENDS ChaCha20

CONSTANTS Keys,      \* the keys the user switches between
          Seconds,   \* the last 64 bits of the nonces it seeks to
          MaxDraw    \* the longest single draw

ASSUME DrawAssumption == MaxDraw \in Nat

VARIABLES object,    \* the ChaCha20 object
          output     \* what the last call returned

cipherVars == <<object, output>>

CipherInit == (\E k \in Keys : object = SetKey(k)) /\ output = <<>>

Rekey(k) == object' = SetKey(k) /\ output' = <<>>

SeekTo(nonce, block) == object' = Seek(object, nonce, block) /\ output' = <<>>

Draw(n) ==
    LET pad == Keystream(object, n)
    IN  object' = pad.cipher /\ output' = pad.out

\* Crypt of n zero bytes, the input that shows the pad it used.
CryptZeros(n) ==
    LET done == Crypt(object, [i \in 1..n |-> {}])
    IN  object' = done.cipher /\ output' = done.out

CipherNext ==
    \/ \E k \in Keys : Rekey(k)
    \/ \E first, block \in 0..(WordMod - 1), second \in Seconds :
          SeekTo(<<first, second>>, block)
    \/ \E n \in 0..MaxDraw : Draw(n) \/ CryptZeros(n)

CipherSpec == CipherInit /\ [][CipherNext]_cipherVars

----------------------------------------------------------------------------

\* The place in the stream of byte i of the block numbered first, block.
StreamSize == WordMod * WordMod * BlockLen
Place(first, block, i) == (((first * WordMod) + block) * BlockLen) + i

Where(byte) == LET t == CHOOSE t \in byte : TRUE
               IN  [key |-> t[1], second |-> t[2], pos |-> Place(t[3], t[4], t[5] - 1)]

\* The promise of KeyStream. The object stands at its next whole block less
\* the bytes it holds back.
Promise == INSTANCE KeyStream WITH
    Size <- StreamSize,
    key <- object.key,
    second <- object.second,
    pos <- (Place(object.first, object.block, 0) + StreamSize - object.left) % StreamSize,
    drawn <- [i \in DOMAIN output |-> Where(output[i])]

\* Property: for every order and length of calls the object's output is one
\* uninterrupted stream: the buffered tail, the whole blocks and the newly
\* buffered block join without a gap or a repetition, also where the block
\* counter overflows into the nonce, and Seek and SetKey leave nothing of the
\* old position behind (chacha20.cpp 45-138, 262-306, chacha20.h 96-99).
OneStream == Promise!Spec
====
