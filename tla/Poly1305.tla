---- MODULE Poly1305 ----
(***************************************************************************)
(* The buffering of crypto/poly1305.cpp: how the pieces a caller   *)
(* passes to Update become the blocks that poly1305_blocks absorbs. The    *)
(* tag is the key with the sequence of absorbed blocks; PolyLimbs has the  *)
(* arithmetic that makes a number of it.                                   *)
(***************************************************************************)
EXTENDS Integers, Sequences

CONSTANT TagLen   \* POLY1305_BLOCK_SIZE and Poly1305::TAGLEN (16)

ASSUME TagAssumption == TagLen \in Nat \ {0, 1}

\* A number as a byte; zero is the zero byte {}.
NumByte(n) == IF n = 0 THEN {} ELSE {<<n>>}

PolyInit(key) == [key |-> key, absorbed |-> <<>>, leftover |-> <<>>, final |-> FALSE]

\* poly1305_blocks: every whole block of m, each with the bit above it unless
\* it is the padded last one.
Blocks(st, m) ==
    [st EXCEPT !.absorbed = @ \o
        [i \in 1..(Len(m) \div TagLen) |->
            [bytes |-> SubSeq(m, ((i - 1) * TagLen) + 1, i * TagLen),
             hibit |-> ~st.final]]]

\* The bytes of m that a block held open takes.
Want(st, m) ==
    LET room == TagLen - Len(st.leftover)
    IN  IF st.leftover = <<>> THEN 0 ELSE IF room > Len(m) THEN Len(m) ELSE room

\* The bytes of a block that is not whole wait in the object.
Hold(st, bytes) == [st EXCEPT !.leftover = bytes]

\* Whole blocks, when the open block takes want bytes; the rest is kept.
Take(st, m, want) ==
    LET filled == st.leftover \o SubSeq(m, 1, want)
        whole  == ((Len(m) - want) \div TagLen) * TagLen
    IN  IF Len(filled) \in 1..(TagLen - 1) THEN Hold(st, filled)
        ELSE Hold(Blocks(Blocks(st, filled), SubSeq(m, want + 1, want + whole)),
                  SubSeq(m, want + whole + 1, Len(m)))

\* poly1305_update
PolyUpdate(st, m) == Take(st, m, Want(st, m))

\* poly1305_finish up to the arithmetic: the leftover, a one and zeros.
PolyFinish(st) ==
    LET padded == [i \in 1..TagLen |->
                     IF i <= Len(st.leftover) THEN st.leftover[i]
                     ELSE NumByte(IF i = Len(st.leftover) + 1 THEN 1 ELSE 0)]
        done == IF st.leftover = <<>> THEN st
                ELSE Blocks([st EXCEPT !.final = TRUE], padded)
    IN  [key |-> done.key, absorbed |-> done.absorbed]
====
