---- MODULE MCObjects ----
(* Instance for TLC of the objects one thread uses at a time: the byte ring, *)
(* a cipher, a pair of forward-secret objects and the arithmetic of a tag.   *)
EXTENDS RingBuffer, CipherStream, ForwardSecret, PolyLimbs

CONSTANTS r1, r2

\* The object this behaviour uses. The others stay as one constructor call
\* leaves them, so the run explores each object's states and not their product.
VARIABLE object_of_run

allVars == <<vars, cipherVars, fsVars, polyVars, object_of_run>>

\* Two rings of different capacity.
TwoRings == [x \in {r1, r2} |-> IF x = r1 THEN 6 ELSE 3]

\* Bytes of a ring are bits, so a length prefix holds at most 3: the empty
\* message and the 4-byte one are refused whatever the free space.
MixedPayloads == {<<>>, <<0>>, <<1, 0>>, <<0, 1, 1>>, <<1, 1, 1, 1>>}

MCKeyOne == <<{<<1>>}>>
MCKeyTwo == <<{<<2>>}>>
MCKeys == {MCKeyOne, MCKeyTwo}
MCShapes == {<<0, 0, 0>>, <<1, 3, 1>>, <<2, 0, 2>>, <<0, 3, 1>>}

\* The limbs of a number: the first one, the middle three, the last.
MCLimbs(first, middle, last) ==
    [i \in Limbs |-> IF i = 0 THEN first ELSE IF i = 4 THEN last ELSE middle]
MCZero == MCLimbs(0, 0, 0)
MCOne == MCLimbs(1, 0, 0)
MCMost == MCLimbs(Base - 1, Base - 1, Hibit - 1)
MCNearlyMost == MCLimbs(Base - 4, Base - 1, Hibit - 1)
MCMixed == MCLimbs(Base - 2, Base \div 2, 1)
MCKeyLimbs == {MCOne, MCMost, MCMixed, MCLimbs(0, 3, Hibit - 1)}
MCBlockLimbs == {MCZero, MCOne, MCMost, MCNearlyMost, MCMixed}

ObjectsInit ==
    /\ Init /\ CipherInit /\ FSInit /\ PolyLimbsInit
    /\ object_of_run \in {"ring", "stream", "packets", "tag"}
    /\ object_of_run # "stream" => object.key = MCKeyOne
    /\ object_of_run # "packets" => sender.interval = 1
    /\ object_of_run # "tag" => r = MCOne

ObjectsNext ==
    /\ \/ object_of_run = "ring" /\ Next /\ UNCHANGED <<cipherVars, fsVars, polyVars>>
       \/ object_of_run = "stream" /\ CipherNext /\ UNCHANGED <<vars, fsVars, polyVars>>
       \/ object_of_run = "packets" /\ FSNext /\ UNCHANGED <<vars, cipherVars, polyVars>>
       \/ object_of_run = "tag" /\ PolyLimbsNext /\ UNCHANGED <<vars, cipherVars, fsVars>>
    /\ UNCHANGED object_of_run

ObjectsSpec == ObjectsInit /\ [][ObjectsNext]_allVars
====
