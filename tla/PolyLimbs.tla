---- MODULE PolyLimbs ----
(***************************************************************************)
(* The arithmetic of crypto/poly1305.cpp: one message absorbed block by    *)
(* block into five limbs, against the polynomial it stands for, modulo     *)
(* Base^5 - 5.  A limb has 26 bits in the code; a word keeps the code's 6  *)
(* spare bits above a limb, a double word the code's 12 above two, and the *)
(* block the code's two bits below five limbs.                             *)
(***************************************************************************)
EXTENDS Integers

CONSTANTS Base,        \* the values of a limb (2^26)
          Half,        \* the root of Base^5 (2^65)
          KeyLimbs,    \* the r of the keys, as five limbs
          BlockLimbs,  \* the blocks of the messages, as five limbs
          MaxBlocks    \* blocks in one message

VARIABLES r, h,        \* the context's key and its sum
          absorbed,    \* blocks absorbed
          poly,        \* the polynomial's value: what h stands for
          final        \* the padded last block has been absorbed

polyVars == <<r, h, absorbed, poly, final>>

Limbs == 0..4
Word == Base * 64            \* uint32_t
DWord == Base * Base * 4096  \* uint64_t
Hibit == Base \div 4         \* 1 << 24, in the top limb

\* The number that five limbs stand for.
Value(l) == l[0] + Base * (l[1] + Base * (l[2] + Base * (l[3] + Base * l[4])))
Prime == Half * Half - 5

\* Four limbs are full and the last has two bits less, in keys and in blocks.
Loaded == {l \in [Limbs -> 0..(Base - 1)] : l[4] < Hibit}

ASSUME LimbAssumption ==
    /\ Base \in Nat /\ Base >= 64 /\ Base % 4 = 0
    /\ Half \in Nat /\ Half * Half = Base * Base * Base * Base * Base
    /\ KeyLimbs \subseteq Loaded /\ BlockLimbs \subseteq Loaded
    /\ MaxBlocks \in Nat

PolyLimbsInit ==
    /\ r \in KeyLimbs
    /\ h = [i \in Limbs |-> 0] /\ absorbed = 0 /\ poly = 0 /\ final = FALSE

\* What limb j of a product is multiplied with for limb i: one that would land
\* above the fifth comes back multiplied by 5.
Factor(i, j) == IF j <= i THEN r[i - j] ELSE (r[(5 + i) - j] * 5) % Word

\* The sums h * r of poly1305_blocks.
Products(a) ==
    [i \in Limbs |-> (a[0] * Factor(i, 0) + a[1] * Factor(i, 1) + a[2] * Factor(i, 2)
                        + a[3] * Factor(i, 3) + a[4] * Factor(i, 4)) % DWord]

\* What limb i has above Base goes to the next, a number modulo width.
Carry(d, i, width) ==
    [d EXCEPT ![i] = @ % Base, ![i + 1] = (@ + ((d[i] \div Base) % Word)) % width]

\* From the second limb up to the last.
CarryUp(d, width) == Carry(Carry(Carry(d, 1, width), 2, width), 3, width)

\* The carry out of the last limb goes to the first, and on to the second.
Around(d) ==
    LET h0 == (d[0] + ((d[4] \div Base) % Word) * 5) % Word
    IN  [d EXCEPT ![0] = h0 % Base, ![1] = (@ + (h0 \div Base)) % Word, ![4] = @ % Base]

\* h += m[i]
Added(m, high) == [i \in Limbs |-> (h[i] + m[i] + (IF i = 4 THEN high ELSE 0)) % Word]

\* Plausible bug: the carry out of the last limb stays in it.
AbsorbLimbsNoWrap(m, high) == CarryUp(Carry(Products(Added(m, high)), 0, DWord), DWord)

\* One turn of the loop of poly1305_blocks.
AbsorbLimbs(m, high) == Around(CarryUp(Carry(Products(Added(m, high)), 0, DWord), DWord))

\* Plausible bug: a sum between the prime and Base^5 is left as it is.
FinishNoSelect == Around(CarryUp(h, Word))

\* poly1305_finish: carry h fully, add 5, and keep the sum less Base^5 when
\* that is not negative.
FinishLimbs ==
    LET full == Around(CarryUp(h, Word))
        g    == CarryUp(Carry([full EXCEPT ![0] = @ + 5], 0, Word), Word)
        top  == (g[4] + Word - Base) % Word
    IN  IF top >= Word \div 2 THEN full ELSE [g EXCEPT ![4] = top]

\* Sums and products modulo the prime. Base^5 is about the largest number TLC
\* has, so products are made by halves: Half * Half is 5 modulo the prime.
Plus(a, b) == IF a >= Prime - b THEN a - (Prime - b) ELSE a + b
Times(a, n) ==
    LET high == (a \div Half) * n
    IN  Plus(Plus(((a % Half) * n) % Prime, ((high % Half) * Half) % Prime),
            5 * (high \div Half))

\* a times the number of some limbs, by Horner's rule.
Horner(a, n, v) == Plus(Times(v, Base), Times(a, n))
TimesLimbs(a, l) ==
    Horner(a, l[0], Horner(a, l[1], Horner(a, l[2], Horner(a, l[3], Horner(a, l[4], 0)))))

\* poly1305_blocks on one block: a whole one, or the padded last.
AbsorbBlock(m, last) ==
    LET high == IF last THEN 0 ELSE Hibit
    IN  /\ absorbed < MaxBlocks /\ ~final
        /\ h' = AbsorbLimbs(m, high)
        /\ poly' = TimesLimbs(Plus(poly, TimesLimbs(1, [m EXCEPT ![4] = @ + high])), r)
        /\ absorbed' = absorbed + 1
        /\ final' = last
        /\ UNCHANGED r

PolyLimbsNext == \E m \in BlockLimbs, last \in BOOLEAN : AbsorbBlock(m, last)

PolyLimbsSpec == PolyLimbsInit /\ [][PolyLimbsNext]_polyVars

----------------------------------------------------------------------------

\* Type invariant: between blocks every limb is below Base but the second,
\* which may exceed it by the carry of the first, less than the spare bits.
LimbsTypeOK == /\ h \in [Limbs -> 0..(Base + 62)] /\ \A i \in Limbs \ {1} : h[i] < Base
               /\ r \in KeyLimbs /\ poly \in 0..(Prime - 1) /\ absorbed \in 0..MaxBlocks

\* Property: after any blocks the number that poly1305_finish makes of the
\* limbs is the polynomial's value reduced below the prime, limb for limb: no
\* carry is lost and no word overflows in poly1305_blocks, and the last
\* subtraction is made exactly when it is due (poly1305.cpp 64-97, 115-148).
TagIsPolynomial ==
    /\ FinishLimbs \in [Limbs -> 0..(Base - 1)]
    /\ Value(FinishLimbs) = poly
====
