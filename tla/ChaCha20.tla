---- MODULE ChaCha20 ----
(***************************************************************************)
(* The stream cipher object of crypto/chacha20.cpp as operators on *)
(* a record: what an operation leaves in the object and what it returns.   *)
(*                                                                         *)
(* A byte is a set of tokens and xor is the symmetric difference, so {} is *)
(* the zero byte and a byte xored twice with the same pad is itself again. *)
(* The block function (the quarter rounds) is an injection: byte i of a    *)
(* block is a token that names the whole state the block was made from.    *)
(***************************************************************************)
EXTENDS Integers, Sequences

CONSTANTS WordMod,   \* a 32-bit word counts modulo this (2^32)
          BlockLen   \* ChaCha20Aligned::BLOCKLEN (64)

ASSUME WordAssumption == WordMod \in Nat \ {0, 1} /\ BlockLen \in Nat \ {0}

Xor(a, b) == (a \ b) \cup (b \ a)

\* The object after SetKey, and after its constructor: nonce 0, block 0, no
\* keystream left over.
SetKey(key) == [key |-> key, block |-> 0, first |-> 0, second |-> 0,
                buffer |-> [i \in 1..BlockLen |-> {}], left |-> 0]

\* A nonce is the pair <<first, second>> of a word and a double word.
Seek(c, nonce, block) ==
    [c EXCEPT !.block = block, !.first = nonce[1], !.second = nonce[2], !.left = 0]

\* The keystream of the block the object stands at.
BlockBytes(c) ==
    [i \in 1..BlockLen |-> {<<c.key, c.second, c.first, c.block, i>>}]

\* Plausible bug: the carry of the block counter into the nonce is forgotten.
NextBlockNoCarry(c) == [c EXCEPT !.block = (@ + 1) % WordMod]

\* ++j12; if (!j12) ++j13
NextBlock(c) ==
    [c EXCEPT !.block = (@ + 1) % WordMod,
              !.first = IF c.block + 1 = WordMod THEN (@ + 1) % WordMod ELSE @]

\* ChaCha20Aligned::Keystream of n whole blocks.
Aligned(c, n) ==
    LET after[i \in 0..n] ==
          IF i = 0 THEN [cipher |-> c, out |-> <<>>]
          ELSE [cipher |-> NextBlock(after[i - 1].cipher),
                out |-> after[i - 1].out \o BlockBytes(after[i - 1].cipher)]
    IN  after[n]

\* ChaCha20::Keystream of n bytes: the tail of the buffered block, then whole
\* blocks, then the head of a block that is kept in the buffer.
Keystream(c, n) ==
    LET reuse == IF c.left < n THEN c.left ELSE n
        tail  == SubSeq(c.buffer, BlockLen - c.left + 1, BlockLen - c.left + reuse)
        whole == Aligned([c EXCEPT !.left = @ - reuse], (n - reuse) \div BlockLen)
        rest  == (n - reuse) % BlockLen
        last  == Aligned(whole.cipher, 1)
    IN  IF rest = 0
        THEN [cipher |-> whole.cipher, out |-> tail \o whole.out]
        ELSE [cipher |-> [last.cipher EXCEPT !.buffer = last.out,
                                             !.left = BlockLen - rest],
              out |-> tail \o whole.out \o SubSeq(last.out, 1, rest)]

\* ChaCha20::Crypt: the input xored with as much keystream, drawn the same way.
Crypt(c, input) ==
    LET pad == Keystream(c, Len(input))
    IN  [cipher |-> pad.cipher,
         out |-> [i \in 1..Len(input) |-> Xor(input[i], pad.out[i])]]
====
