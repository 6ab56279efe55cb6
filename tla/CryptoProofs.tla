----------------------------- MODULE CryptoProofs -----------------------------
(***************************************************************************)
(* The ciphers (crypto/chacha20.cpp, crypto/poly1305.cpp,                  *)
(* crypto/cc20poly1305.cpp) for every block length, width of the counters, *)
(* rekey interval, shape and number of packets and order of calls: an      *)
(* object of ChaCha20 shows one uninterrupted stream; the two ends of a    *)
(* stream of packets stay in step; the receiver accepts a packet exactly   *)
(* when it arrives as it was sent; no block of keystream is used twice;    *)
(* the limbs of Poly1305 make the polynomial's value, at every width.      *)
(***************************************************************************)
EXTENDS ForwardSecret, CipherStream, PolyLimbs, QueueFacts
-----------------------------------------------------------------------------
(* Blocks of keystream, and where they are in the stream.                  *)

\* An object has its six fields, and its counters are words.
Shaped(c) ==
  /\ c = [key |-> c.key, block |-> c.block, first |-> c.first, second |-> c.second,
          buffer |-> c.buffer, left |-> c.left]
  /\ c.block \in 0 .. WordMod - 1 /\ c.first \in 0 .. WordMod - 1

\* The place of the next whole block of an object, and the byte at a place.
Stand(c) == Place(c.first, c.block, 0)
ByteAt(key, second, p) ==
  {<<key, second, (p \div BlockLen) \div WordMod, (p \div BlockLen) % WordMod, (p % BlockLen) + 1>>}

\* The sizes are positive, and the stream has whole blocks.
LEMMA Sizes ==
  /\ WordMod \in Nat /\ WordMod > 1 /\ BlockLen \in Nat /\ BlockLen > 0
  /\ StreamSize \in Nat /\ StreamSize >= BlockLen
<1>1. WordMod \in Nat /\ WordMod > 1 /\ BlockLen \in Nat /\ BlockLen > 0
  BY WordAssumption
<1>2. WordMod * WordMod \in Nat /\ WordMod * WordMod >= 1
  BY <1>1
<1> DEFINE q == WordMod * WordMod
<1> HIDE DEF q
<1>3. q * BlockLen \in Nat /\ q * BlockLen = BlockLen + (q - 1) * BlockLen /\ (q - 1) * BlockLen >= 0
  BY <1>1, <1>2 DEF q
<1>4. StreamSize = q * BlockLen
  BY DEF StreamSize, q
<1>5. q * BlockLen >= BlockLen
  <2> DEFINE x == q * BlockLen  y == (q - 1) * BlockLen
  <2>1. x \in Nat /\ y \in Int /\ x = BlockLen + y /\ y >= 0
    BY <1>1, <1>2, <1>3 DEF q
  <2> HIDE DEF x, y
  <2>2. x >= BlockLen
    BY <1>1, <2>1
  <2> QED BY <2>2 DEF x
<1> QED BY <1>1, <1>3, <1>4, <1>5

\* A place of the endless repetition of the stream.
Wrap(a) == a % StreamSize

\* The places of the repetition are those of the stream, and going on twice is
\* going on by the sum.
LEMMA WrapFacts ==
  ASSUME NEW a \in Int, NEW b \in Int
  PROVE  /\ Wrap(Wrap(a) + b) = Wrap(a + b)
         /\ Wrap(a) \in 0 .. StreamSize - 1
         /\ Wrap(a + StreamSize) = Wrap(a)
         /\ a \in 0 .. StreamSize - 1 => Wrap(a) = a
<1>1. StreamSize \in Nat /\ StreamSize > 0
  BY Sizes
<1> QED BY <1>1, SumRemainder DEF Wrap

\* The bytes of a block are where its number says.
LEMMA PlaceFacts ==
  ASSUME NEW f \in 0 .. WordMod - 1, NEW b \in 0 .. WordMod - 1, NEW i \in 0 .. BlockLen - 1
  PROVE  /\ Place(f, b, 0) \in Nat /\ Place(f, b, 0) <= StreamSize - BlockLen
         /\ Place(f, b, i) = Place(f, b, 0) + i
         /\ \A key, second : ByteAt(key, second, Place(f, b, i)) = {<<key, second, f, b, i + 1>>}
<1> DEFINE n == f * WordMod + b  p == n * BlockLen + i
<1>1. n \in Nat /\ n <= WordMod * WordMod - 1
  <2>1. f * WordMod \in Nat /\ f * WordMod <= (WordMod - 1) * WordMod
    <3>1. (WordMod - 1 - f) * WordMod \in Nat
      BY Sizes
    <3>2. (WordMod - 1 - f) * WordMod = (WordMod - 1) * WordMod - f * WordMod
      BY Sizes
    <3> QED BY <3>1, <3>2, Sizes
  <2>2. (WordMod - 1) * WordMod = WordMod * WordMod - WordMod
    BY Sizes
  <2> QED BY <2>1, <2>2, Sizes
<1>2. n \div WordMod = f /\ n % WordMod = b
  BY Sizes, OneRemainder
<1>3. Place(f, b, 0) = n * BlockLen /\ Place(f, b, i) = p
  BY <1>1, Sizes DEF Place
<1> HIDE DEF n
<1>4. n * BlockLen \in Nat /\ n * BlockLen <= StreamSize - BlockLen
  <2> DEFINE q == WordMod * WordMod
  <2>1. q \in Nat /\ StreamSize = q * BlockLen /\ n <= q - 1
    BY <1>1, Sizes DEF StreamSize
  <2> HIDE DEF q
  <2>2. (q - 1 - n) * BlockLen \in Nat
    BY <1>1, <2>1, Sizes
  <2>3. (q - 1 - n) * BlockLen = q * BlockLen - BlockLen - n * BlockLen
    BY <1>1, <2>1, Sizes
  <2> QED BY <1>1, <2>1, <2>2, <2>3, Sizes
<1>5. p \div BlockLen = n /\ p % BlockLen = i
  BY <1>1, Sizes, OneRemainder
<1> QED BY <1>2, <1>3, <1>4, <1>5 DEF ByteAt

\* What the next whole block of an object holds.
LEMMA StandFacts ==
  ASSUME NEW c, Shaped(c)
  PROVE  /\ Stand(c) \in Nat /\ Stand(c) <= StreamSize - BlockLen
         /\ Tuple(BlockBytes(c), BlockLen)
         /\ \A i \in 1 .. BlockLen : BlockBytes(c)[i] = ByteAt(c.key, c.second, Stand(c) + i - 1)
<1>1. c.block \in 0 .. WordMod - 1 /\ c.first \in 0 .. WordMod - 1 /\ 0 \in 0 .. BlockLen - 1
  BY Sizes DEF Shaped
<1>2. Stand(c) \in Nat /\ Stand(c) <= StreamSize - BlockLen
  BY <1>1, PlaceFacts DEF Stand
<1>3. ASSUME NEW i \in 1 .. BlockLen
      PROVE  BlockBytes(c)[i] = ByteAt(c.key, c.second, Stand(c) + i - 1)
  <2> DEFINE j == i - 1
  <2>1. j \in 0 .. BlockLen - 1 /\ j + 1 = i
    BY Sizes
  <2> HIDE DEF j
  <2>2. /\ Place(c.first, c.block, j) = Stand(c) + j
        /\ ByteAt(c.key, c.second, Place(c.first, c.block, j)) = {<<c.key, c.second, c.first, c.block, j + 1>>}
    BY <1>1, <2>1, PlaceFacts DEF Stand
  <2>3. Stand(c) + i - 1 = Stand(c) + j
    BY <1>2, <2>1
  <2> QED BY <2>1, <2>2, <2>3 DEF BlockBytes
<1> QED BY <1>2, <1>3 DEF Tuple, BlockBytes

\* The carry of the block counter into the nonce: the next block is the next
\* of the stream, which begins again at its end.
LEMMA NextBlockFacts ==
  ASSUME NEW c, Shaped(c), NEW d, d = NextBlock(c)
  PROVE  /\ Shaped(d) /\ d.key = c.key /\ d.second = c.second /\ d.buffer = c.buffer /\ d.left = c.left
         /\ Stand(d) = Wrap(Stand(c) + BlockLen)
<1> DEFINE b == (c.block + 1) % WordMod
           f == IF c.block + 1 = WordMod THEN (c.first + 1) % WordMod ELSE c.first
<1>1. /\ c.block \in 0 .. WordMod - 1 /\ c.first \in 0 .. WordMod - 1
      /\ Stand(c) \in Nat /\ Stand(c) <= StreamSize - BlockLen
  BY StandFacts DEF Shaped
<1>2. b \in 0 .. WordMod - 1 /\ f \in 0 .. WordMod - 1
  BY <1>1, Sizes, SumRemainder
<1>3. d = [key |-> c.key, block |-> b, first |-> f, second |-> c.second, buffer |-> c.buffer, left |-> c.left]
  BY DEF Shaped, NextBlock
<1> HIDE DEF b, f
<1>4. /\ d.key = c.key /\ d.block = b /\ d.first = f /\ d.second = c.second
      /\ d.buffer = c.buffer /\ d.left = c.left
  BY <1>3
<1>5. Shaped(d)
  BY <1>2, <1>3, <1>4 DEF Shaped
<1>6. Place(f, b, 0) = Wrap(Stand(c) + BlockLen)
  <2>1. Stand(c) = (c.first * WordMod + c.block) * BlockLen
    BY <1>1, Sizes DEF Stand, Place
  <2>2. Place(f, b, 0) = (f * WordMod + b) * BlockLen
    BY <1>2, Sizes DEF Place
  <2>3. CASE c.block + 1 < WordMod
    <3>1. b = c.block + 1 /\ f = c.first
      BY <1>1, <2>3, Sizes, SumRemainder DEF b, f
    <3>2. Place(f, b, 0) = Stand(c) + BlockLen
      BY <1>1, <2>1, <2>2, <3>1, Sizes
    <3>3. Place(f, b, 0) \in 0 .. StreamSize - 1
      <4>1. 0 \in 0 .. BlockLen - 1
        BY Sizes
      <4> QED BY <1>2, <4>1, PlaceFacts, Sizes
    <3> QED BY <3>2, <3>3, WrapFacts
  <2>4. CASE c.block + 1 = WordMod /\ c.first + 1 < WordMod
    <3>1. b = 0
      BY <2>4, Sizes, SumRemainder DEF b
    <3>2. f = c.first + 1
      BY <1>1, <2>4, Sizes, SumRemainder DEF f
    <3>3. f * WordMod + b = c.first * WordMod + c.block + 1
      <4>1. (c.first + 1) * WordMod = c.first * WordMod + WordMod
        BY <1>1, Sizes
      <4> QED BY <1>1, <2>4, <3>1, <3>2, <4>1, Sizes
    <3> DEFINE n == c.first * WordMod + c.block
    <3>4. n \in Nat
      BY <1>1, Sizes
    <3>5. (n + 1) * BlockLen = n * BlockLen + BlockLen
      <4> HIDE DEF n
      <4> QED BY <3>4, Sizes
    <3>6. Place(f, b, 0) = Stand(c) + BlockLen
      BY <2>1, <2>2, <3>3, <3>5
    <3>7. Place(f, b, 0) \in 0 .. StreamSize - 1
      <4>1. 0 \in 0 .. BlockLen - 1
        BY Sizes
      <4> QED BY <1>2, <4>1, PlaceFacts, Sizes
    <3> QED BY <3>6, <3>7, WrapFacts
  <2>5. CASE c.block + 1 = WordMod /\ c.first + 1 = WordMod
    <3>1. b = 0 /\ f = 0
      BY <2>5, Sizes, SumRemainder DEF b, f
    <3>2. Place(f, b, 0) = 0
      BY <2>2, <3>1, Sizes
    <3>3. Stand(c) + BlockLen = StreamSize
      <4> DEFINE q == WordMod * WordMod
      <4>1. (WordMod - 1) * WordMod + (WordMod - 1) = q - 1
        BY Sizes
      <4>2. c.first = WordMod - 1 /\ c.block = WordMod - 1 /\ q \in Nat
        BY <1>1, <2>5, Sizes
      <4>3. Stand(c) = (q - 1) * BlockLen
        BY <2>1, <4>1, <4>2
      <4>4. StreamSize = q * BlockLen
        BY Sizes DEF StreamSize
      <4> HIDE DEF q
      <4> QED BY <4>2, <4>3, <4>4, Sizes
    <3>4. Wrap(0 + StreamSize) = 0
      <4>1. 0 \in 0 .. StreamSize - 1 /\ 0 \in Int
        BY Sizes
      <4> QED BY <4>1, WrapFacts
    <3> QED BY <3>2, <3>3, <3>4, Sizes
  <2> QED BY <1>1, <2>3, <2>4, <2>5, Sizes
<1> QED BY <1>4, <1>5, <1>6 DEF Stand
-----------------------------------------------------------------------------
(* ChaCha20Aligned::Keystream, one block of its loop after the other.      *)

\* One more block for what Aligned has made.
Turn(a) == [cipher |-> NextBlock(a.cipher), out |-> a.out \o BlockBytes(a.cipher)]

\* f has the results of up to n turns.
Turns(c, n, f) == f = [i \in 0 .. n |-> IF i = 0 THEN [cipher |-> c, out |-> <<>>] ELSE Turn(f[i - 1])]

\* The results exist for every number of blocks.
LEMMA TurnsExist ==
  ASSUME NEW c, NEW n \in Nat
  PROVE  \E f : Turns(c, n, f)
<1> DEFINE T == {k \in Nat : ~\E f : Turns(c, k, f)}
<1> SUFFICES ASSUME T # {} PROVE FALSE
  OBVIOUS
<1>1. PICK k \in T : \A m \in T : k <= m
  <2>1. T \in SUBSET Nat
    OBVIOUS
  <2> HIDE DEF T
  <2> QED BY <2>1, Least
<1>2. CASE k = 0
  <2> DEFINE a == [cipher |-> c, out |-> <<>>]
             f == [i \in {0} |-> a]
  <2>1. 0 .. 0 = {0}
    OBVIOUS
  <2>2. f = [i \in {0} |-> IF i = 0 THEN a ELSE Turn(f[i - 1])]
    OBVIOUS
  <2>3. Turns(c, 0, f)
    BY <2>1, <2>2 DEF Turns
  <2> QED BY <1>1, <1>2, <2>3
<1>3. CASE k > 0
  <2> DEFINE m == k - 1
  <2>1. m \in Nat /\ k = m + 1 /\ ~(k <= m)
    BY <1>1, <1>3
  <2>2. m \notin T
    BY <1>1, <2>1
  <2>3. PICK f : Turns(c, m, f)
    BY <2>1, <2>2
  <2> HIDE DEF m
  <2> DEFINE a == [cipher |-> c, out |-> <<>>]
             g == [i \in 0 .. k |-> IF i <= m THEN f[i] ELSE Turn(f[m])]
  <2>4. ASSUME NEW i \in 0 .. k
        PROVE  g[i] = IF i = 0 THEN a ELSE Turn(g[i - 1])
    <3>1. CASE i = 0
      <4>1. f[0] = a
        BY <2>1, <2>3 DEF Turns
      <4> QED BY <2>1, <3>1, <4>1
    <3>2. CASE i > 0 /\ i <= m
      <4>1. f[i] = Turn(f[i - 1])
        BY <2>1, <2>3, <3>2 DEF Turns
      <4>2. i - 1 \in 0 .. k /\ i - 1 <= m
        BY <2>1, <3>2
      <4> QED BY <3>2, <4>1, <4>2
    <3>3. CASE i = k
      <4>1. i - 1 = m /\ m \in 0 .. k /\ ~(i <= m) /\ i # 0
        BY <2>1, <3>3
      <4> QED BY <3>3, <4>1
    <3> QED BY <2>1, <3>1, <3>2, <3>3
  <2>5. Turns(c, k, g)
    <3>1. g = [i \in 0 .. k |-> g[i]]
      OBVIOUS
    <3> HIDE DEF g
    <3>2. [i \in 0 .. k |-> g[i]] = [i \in 0 .. k |-> IF i = 0 THEN a ELSE Turn(g[i - 1])]
      BY <2>4
    <3>3. g = [i \in 0 .. k |-> IF i = 0 THEN a ELSE Turn(g[i - 1])]
      BY <3>1, <3>2
    <3> QED BY <3>3 DEF Turns
  <2> QED BY <1>1, <2>5
<1> QED BY <1>1, <1>2, <1>3

\* What Aligned returns is the last of them.
LEMMA AlignedTurns ==
  ASSUME NEW c, NEW n \in Nat
  PROVE  \E f : Turns(c, n, f) /\ Aligned(c, n) = f[n]
<1> DEFINE after == CHOOSE f : f = [i \in 0 .. n |->
                      IF i = 0 THEN [cipher |-> c, out |-> <<>>]
                      ELSE [cipher |-> NextBlock(f[i - 1].cipher),
                            out |-> f[i - 1].out \o BlockBytes(f[i - 1].cipher)]]
<1>1. Aligned(c, n) = after[n]
  BY DEF Aligned
<1>2. \E f : f = [i \in 0 .. n |->
                      IF i = 0 THEN [cipher |-> c, out |-> <<>>]
                      ELSE [cipher |-> NextBlock(f[i - 1].cipher),
                            out |-> f[i - 1].out \o BlockBytes(f[i - 1].cipher)]]
  BY TurnsExist DEF Turns, Turn
<1>3. after = [i \in 0 .. n |->
                      IF i = 0 THEN [cipher |-> c, out |-> <<>>]
                      ELSE [cipher |-> NextBlock(after[i - 1].cipher),
                            out |-> after[i - 1].out \o BlockBytes(after[i - 1].cipher)]]
  BY <1>2
<1> HIDE DEF after
<1>4. Turns(c, n, after)
  BY <1>3 DEF Turns, Turn
<1> QED BY <1>1, <1>4

\* What i blocks of keystream leave and return.
Drawn(c, i, a) ==
  /\ Shaped(a.cipher)
  /\ a.cipher.key = c.key /\ a.cipher.second = c.second
  /\ a.cipher.buffer = c.buffer /\ a.cipher.left = c.left
  /\ Stand(a.cipher) = Wrap(Stand(c) + i * BlockLen)
  /\ Tuple(a.out, i * BlockLen)
  /\ \A j \in 1 .. i * BlockLen : a.out[j] = ByteAt(c.key, c.second, Wrap(Stand(c) + j - 1))

\* One more block goes on where the others end.
LEMMA DrawnTurn ==
  ASSUME NEW c, Shaped(c), NEW i \in Nat, NEW a, Drawn(c, i, a)
  PROVE  Drawn(c, i + 1, Turn(a))
<1> DEFINE d == NextBlock(a.cipher)  w == BlockBytes(a.cipher)  x == a.out \o w
           n == i * BlockLen  s == Stand(c)  t == Stand(a.cipher)
<1>1. /\ Shaped(a.cipher) /\ a.cipher.key = c.key /\ a.cipher.second = c.second
      /\ a.cipher.buffer = c.buffer /\ a.cipher.left = c.left
      /\ t = Wrap(s + n)
      /\ Tuple(a.out, n)
      /\ \A j \in 1 .. n : a.out[j] = ByteAt(c.key, c.second, Wrap(s + j - 1))
  BY DEF Drawn
<1>2. Turn(a).cipher = d /\ Turn(a).out = x
  BY DEF Turn
<1>3. n \in Nat /\ (i + 1) * BlockLen = n + BlockLen /\ BlockLen \in Nat
  BY Sizes
<1>4. s \in Nat /\ t \in Nat /\ t <= StreamSize - BlockLen
  BY <1>1, StandFacts
<1>5. /\ Shaped(d) /\ d.key = c.key /\ d.second = c.second /\ d.buffer = c.buffer /\ d.left = c.left
      /\ Stand(d) = Wrap(t + BlockLen)
  BY <1>1, NextBlockFacts
<1>6. /\ Tuple(w, BlockLen)
      /\ \A j \in 1 .. BlockLen : w[j] = ByteAt(c.key, c.second, t + j - 1)
  BY <1>1, StandFacts
<1> HIDE DEF d, w, n, s, t
<1>7. Stand(d) = Wrap(s + (n + BlockLen))
  <2>1. Wrap(Wrap(s + n) + BlockLen) = Wrap((s + n) + BlockLen)
    BY <1>3, <1>4, WrapFacts
  <2>2. (s + n) + BlockLen = s + (n + BlockLen)
    BY <1>3, <1>4
  <2> QED BY <1>1, <1>5, <2>1, <2>2
<1>8. /\ Tuple(x, n + BlockLen)
      /\ \A j \in 1 .. n : x[j] = a.out[j]
      /\ \A j \in 1 .. n + BlockLen : j > n => j - n \in 1 .. BlockLen /\ x[j] = w[j - n]
  <2> DEFINE y == a.out
  <2>1. Tuple(y, n) /\ Tuple(w, BlockLen) /\ n \in Nat /\ BlockLen \in Nat /\ x = y \o w
    BY <1>1, <1>3, <1>6
  <2> HIDE DEF x, y
  <2>2. Chained(x, y, n, w, BlockLen)
    BY <2>1, TupleJoin
  <2> QED BY <2>2 DEF Chained, y
<1> HIDE DEF x
<1>9. ASSUME NEW j \in 1 .. n + BlockLen
      PROVE  x[j] = ByteAt(c.key, c.second, Wrap(s + j - 1))
  <2>1. CASE j <= n
    <3>1. j \in 1 .. n
      BY <1>3, <2>1
    <3> QED BY <1>1, <1>8, <3>1
  <2>2. CASE j > n
    <3> DEFINE k == j - n
    <3>1. k \in 1 .. BlockLen /\ x[j] = ByteAt(c.key, c.second, t + k - 1)
      BY <1>6, <1>8, <2>2
    <3>2. t + k - 1 = t + (k - 1) /\ t + (k - 1) \in 0 .. StreamSize - 1 /\ k - 1 \in Int
      BY <1>3, <1>4, <3>1, Sizes
    <3>3. (s + n) + (k - 1) = s + j - 1 /\ s + n \in Int
      BY <1>3, <1>4
    <3> HIDE DEF k
    <3>4. Wrap(Wrap(s + n) + (k - 1)) = Wrap((s + n) + (k - 1))
      BY <3>2, <3>3, WrapFacts
    <3>5. Wrap(t + (k - 1)) = t + (k - 1)
      BY <3>2, WrapFacts
    <3> QED BY <1>1, <3>1, <3>2, <3>3, <3>4, <3>5
  <2> QED BY <1>3, <2>1, <2>2
<1> QED BY <1>2, <1>3, <1>5, <1>7, <1>8, <1>9 DEF Drawn, s

\* ChaCha20Aligned::Keystream returns the next blocks of the stream.
LEMMA AlignedFacts ==
  ASSUME NEW c, Shaped(c), NEW n \in Nat
  PROVE  Drawn(c, n, Aligned(c, n))
<1>1. PICK f : Turns(c, n, f) /\ Aligned(c, n) = f[n]
  BY AlignedTurns
<1> DEFINE T == {k \in 0 .. n : ~Drawn(c, k, f[k])}
<1>2. T = {}
  <2> SUFFICES ASSUME T # {} PROVE FALSE
    OBVIOUS
  <2>1. PICK k \in T : \A m \in T : k <= m
    <3>1. T \in SUBSET Nat
      OBVIOUS
    <3> HIDE DEF T
    <3> QED BY <3>1, Least
  <2>2. CASE k = 0
    <3>1. f[0].cipher = c /\ f[0].out = <<>>
      BY <1>1 DEF Turns
    <3>2. 0 * BlockLen = 0 /\ Stand(c) \in 0 .. StreamSize - 1
      BY Sizes, StandFacts
    <3>3. Wrap(Stand(c) + 0) = Stand(c)
      BY <3>2, WrapFacts
    <3>4. Tuple(<<>>, 0)
      BY DEF Tuple
    <3>5. Drawn(c, 0, f[0])
      BY <3>1, <3>2, <3>3, <3>4 DEF Drawn
    <3> QED BY <2>1, <2>2, <3>5
  <2>3. CASE k > 0
    <3> DEFINE m == k - 1
    <3>1. m \in 0 .. n /\ m \in Nat /\ k = m + 1 /\ ~(k <= m) /\ k # 0 /\ k \in 0 .. n
      BY <2>1, <2>3
    <3>2. m \notin T
      BY <2>1, <3>1
    <3>3. Drawn(c, m, f[m])
      BY <3>1, <3>2
    <3>4. f[k] = Turn(f[m])
      BY <1>1, <3>1 DEF Turns
    <3> HIDE DEF m
    <3>5. Drawn(c, k, f[k])
      BY <3>1, <3>3, <3>4, DrawnTurn
    <3> QED BY <2>1, <3>5
  <2> QED BY <2>1, <2>2, <2>3
<1>3. n \in 0 .. n
  OBVIOUS
<1> QED BY <1>1, <1>2, <1>3
-----------------------------------------------------------------------------
(* ChaCha20::Keystream: the bytes held back, whole blocks, and the block   *)
(* that is held back in part, join.                                        *)

\* The place of the next byte of an object in its stream.
At(c) == Wrap(Stand(c) + StreamSize - c.left)

\* What an object holds back is what its stream goes on with.
Whole(c) ==
  /\ Shaped(c) /\ c.left \in 0 .. BlockLen - 1 /\ Tuple(c.buffer, BlockLen)
  /\ \A i \in 1 .. c.left :
        c.buffer[BlockLen - c.left + i] = ByteAt(c.key, c.second, Wrap(At(c) + i - 1))

\* The bytes that an object returns and what it leaves.
Streamed(c, n, d, out) ==
  /\ Whole(d) /\ d.key = c.key /\ d.second = c.second /\ At(d) = Wrap(At(c) + n)
  /\ Tuple(out, n)
  /\ \A i \in 1 .. n : out[i] = ByteAt(c.key, c.second, Wrap(At(c) + i - 1))

\* A place is a number below the length of the stream.
LEMMA WrapNat ==
  ASSUME NEW a \in Int
  PROVE  Wrap(a) \in Nat /\ Wrap(a) < StreamSize
<1>1. 0 \in Int /\ StreamSize \in Nat
  BY Sizes
<1>2. Wrap(a) \in 0 .. StreamSize - 1
  BY <1>1, WrapFacts
<1> QED BY <1>1, <1>2

\* An object goes on at its place.
LEMMA AtFacts ==
  ASSUME NEW c, Shaped(c), c.left \in 0 .. BlockLen - 1
  PROVE  /\ Stand(c) \in Nat /\ At(c) \in Nat /\ At(c) < StreamSize
         /\ Stand(c) = Wrap(At(c) + c.left)
<1> DEFINE s == Stand(c)  u == s + StreamSize - c.left  l == c.left
<1>1. s \in 0 .. StreamSize - 1 /\ u \in Int /\ l \in Int /\ s \in Int /\ u + l = s + StreamSize
  BY StandFacts, Sizes
<1>2. At(c) = Wrap(u)
  BY DEF At
<1> HIDE DEF u, l, s
<1>3. Wrap(u) \in Nat /\ Wrap(u) < StreamSize
  BY <1>1, WrapNat
<1>4. Wrap(Wrap(u) + l) = Wrap(u + l) /\ Wrap(s + StreamSize) = Wrap(s) /\ Wrap(s) = s
  BY <1>1, WrapFacts
<1> QED BY <1>1, <1>2, <1>3, <1>4 DEF s, l

\* The parts of a draw: what is held back, and whole blocks and a rest.
LEMMA Parts ==
  ASSUME NEW c, Whole(c), NEW n \in Nat
  PROVE  LET reuse == IF c.left < n THEN c.left ELSE n
             q == (n - reuse) \div BlockLen
             rest == (n - reuse) % BlockLen
         IN  /\ reuse \in 0 .. n /\ reuse <= c.left /\ (reuse = n \/ reuse = c.left)
             /\ q \in Nat /\ rest \in 0 .. BlockLen - 1 /\ q * BlockLen \in Nat
             /\ n = reuse + q * BlockLen + rest
             /\ (reuse = n => q = 0 /\ rest = 0 /\ q * BlockLen = 0)
<1> DEFINE reuse == IF c.left < n THEN c.left ELSE n
           q == (n - reuse) \div BlockLen
           rest == (n - reuse) % BlockLen
<1>1. reuse \in 0 .. n /\ reuse <= c.left /\ (reuse = n \/ reuse = c.left)
  BY Sizes DEF Whole
<1> HIDE DEF reuse
<1>2. q \in Int /\ rest \in 0 .. BlockLen - 1 /\ n - reuse = q * BlockLen + rest
  BY <1>1, Sizes
<1>3. q >= 0
  <2> SUFFICES ASSUME q < 0 PROVE FALSE
    BY <1>2
  <2> HIDE DEF q, rest
  <2>1. (0 - q - 1) * BlockLen \in Nat
    BY <1>2, Sizes
  <2>2. (0 - q - 1) * BlockLen = 0 - q * BlockLen - BlockLen
    BY <1>2, Sizes
  <2> QED BY <1>1, <1>2, <2>1, <2>2, Sizes
<1>4. reuse = n => q = 0 /\ rest = 0
  BY <1>1, Sizes, SumRemainder, OneRemainder
<1> HIDE DEF q, rest
<1>5. q * BlockLen \in Nat
  BY <1>2, <1>3, Sizes
<1>6. q = 0 => q * BlockLen = 0
  BY <1>2, Sizes
<1> QED BY <1>1, <1>2, <1>3, <1>4, <1>5, <1>6 DEF reuse, q, rest

\* The head of what is held back, and the object without it.
LEMMA Reused ==
  ASSUME NEW c, Whole(c), NEW n \in 0 .. BlockLen, n <= c.left
  PROVE  LET d == [c EXCEPT !.left = @ - n]
             tail == SubSeq(c.buffer, BlockLen - c.left + 1, BlockLen - c.left + n)
         IN  Streamed(c, n, d, tail) /\ d.left = c.left - n /\ Stand(d) = Stand(c)
<1> DEFINE d == [c EXCEPT !.left = @ - n]
           l == c.left  a == BlockLen - l + 1  b == BlockLen - l + n  p == At(c)
           tail == SubSeq(c.buffer, a, b)
<1>1. /\ Shaped(c) /\ l \in 0 .. BlockLen - 1 /\ BlockLen \in Nat /\ Tuple(c.buffer, BlockLen)
      /\ \A i \in 1 .. l : c.buffer[BlockLen - l + i] = ByteAt(c.key, c.second, Wrap(p + i - 1))
  BY Sizes DEF Whole
<1>2. /\ d = [key |-> c.key, block |-> c.block, first |-> c.first, second |-> c.second,
              buffer |-> c.buffer, left |-> l - n]
      /\ d.key = c.key /\ d.second = c.second /\ d.block = c.block /\ d.first = c.first
      /\ d.buffer = c.buffer /\ d.left = l - n
  BY <1>1 DEF Shaped
<1>3. Shaped(d)
  BY <1>1, <1>2 DEF Shaped
<1>4. Stand(d) = Stand(c) /\ Stand(c) \in Nat /\ StreamSize \in Nat
  BY <1>1, <1>2, StandFacts, Sizes DEF Stand
<1> HIDE DEF d
<1>5. p = Wrap(Stand(c) + StreamSize - l) /\ p \in Nat
  BY <1>1, AtFacts DEF At
<1>6. At(d) = Wrap(p + n)
  <2> DEFINE u == Stand(c) + StreamSize - l
  <2>1. u \in Int /\ n \in Int /\ u + n = Stand(c) + StreamSize - (l - n)
    BY <1>1, <1>4
  <2>2. p = Wrap(u) /\ At(d) = Wrap(Stand(c) + StreamSize - (l - n))
    BY <1>2, <1>4, <1>5 DEF At
  <2> HIDE DEF u
  <2> QED BY <2>1, <2>2, WrapFacts
<1> HIDE DEF p
<1>7. CutOf(tail, c.buffer, a, n)
  <2> DEFINE f == c.buffer
  <2>1. Tuple(f, BlockLen) /\ a \in Nat /\ b \in Nat /\ 1 <= a /\ b <= BlockLen /\ a <= b + 1 /\ b - a + 1 = n
    BY <1>1
  <2> HIDE DEF f, a, b
  <2>2. CutOf(SubSeq(f, a, b), f, a, b - a + 1)
    BY <1>1, <2>1, TupleCut
  <2> QED BY <2>1, <2>2 DEF f
<1>8. Tuple(tail, n) /\ \A i \in 1 .. n : tail[i] = ByteAt(c.key, c.second, Wrap(p + i - 1))
  <2> HIDE DEF tail, l
  <2>1. Tuple(tail, n) /\ \A i \in 1 .. n : tail[i] = c.buffer[a + i - 1]
    BY <1>7 DEF CutOf
  <2>2. ASSUME NEW i \in 1 .. n PROVE tail[i] = ByteAt(c.key, c.second, Wrap(p + i - 1))
    <3>1. a + i - 1 = BlockLen - l + i /\ i \in 1 .. l
      BY <1>1 DEF l
    <3> QED BY <1>1, <2>1, <3>1
  <2> QED BY <2>1, <2>2
<1>9. ASSUME NEW i \in 1 .. l - n
      PROVE  d.buffer[BlockLen - (l - n) + i] = ByteAt(d.key, d.second, Wrap(At(d) + i - 1))
  <2>1. BlockLen - (l - n) + i = BlockLen - l + (n + i) /\ n + i \in 1 .. l /\ n + i \in Int
    BY <1>1
  <2>2. Wrap(At(d) + i - 1) = Wrap(p + (n + i) - 1)
    <3> DEFINE u == p + n  v == i - 1
    <3>1. u \in Int /\ v \in Int /\ u + v = p + (n + i) - 1 /\ At(d) = Wrap(u)
      BY <1>1, <1>5, <1>6
    <3> HIDE DEF u
    <3>2. Wrap(u) \in Int
      BY <3>1, WrapNat
    <3>3. Wrap(u) + i - 1 = Wrap(u) + v
      BY <3>2
    <3> HIDE DEF v
    <3> QED BY <3>1, <3>3, WrapFacts
  <2> HIDE DEF l
  <2>3. c.buffer[BlockLen - l + (n + i)] = ByteAt(c.key, c.second, Wrap(p + (n + i) - 1))
    BY <1>1, <2>1
  <2> QED BY <1>2, <2>1, <2>2, <2>3
<1>10. Whole(d)
  <2>1. l - n \in 0 .. BlockLen - 1
    BY <1>1
  <2> QED BY <1>1, <1>2, <1>3, <1>9, <2>1 DEF Whole
<1> QED BY <1>2, <1>4, <1>6, <1>8, <1>10 DEF Streamed, p, d

\* Two draws are one.
LEMMA StreamJoin ==
  ASSUME NEW c, Whole(c), NEW n \in Nat, NEW d, NEW s, Streamed(c, n, d, s),
         NEW m \in Nat, NEW e, NEW t, Streamed(d, m, e, t)
  PROVE  Streamed(c, n + m, e, s \o t)
<1> DEFINE p == At(c)  u == s \o t  v == p + n
<1>1. p \in Nat
  BY AtFacts DEF Whole
<1>2. /\ d.key = c.key /\ d.second = c.second /\ At(d) = Wrap(v) /\ Tuple(s, n)
      /\ \A i \in 1 .. n : s[i] = ByteAt(c.key, c.second, Wrap(p + i - 1))
  BY DEF Streamed
<1>3. /\ Whole(e) /\ e.key = c.key /\ e.second = c.second /\ At(e) = Wrap(At(d) + m) /\ Tuple(t, m)
      /\ \A i \in 1 .. m : t[i] = ByteAt(c.key, c.second, Wrap(At(d) + i - 1))
  BY <1>2 DEF Streamed
<1> HIDE DEF p
<1>4. v \in Nat /\ v = p + n
  BY <1>1
<1>5. Chained(u, s, n, t, m)
  BY <1>2, <1>3, TupleJoin
<1> HIDE DEF u, v
<1>6. /\ Tuple(u, n + m) /\ \A i \in 1 .. n : u[i] = s[i]
      /\ \A i \in 1 .. n + m : i > n => i - n \in 1 .. m /\ u[i] = t[i - n]
  BY <1>5 DEF Chained
<1>7. At(e) = Wrap(p + (n + m))
  <2>1. Wrap(Wrap(v) + m) = Wrap(v + m) /\ v + m = p + (n + m)
    BY <1>1, <1>4, WrapFacts
  <2> QED BY <1>2, <1>3, <2>1
<1>8. ASSUME NEW i \in 1 .. n + m
      PROVE  u[i] = ByteAt(c.key, c.second, Wrap(p + i - 1))
  <2>1. CASE i <= n
    <3>1. i \in 1 .. n
      BY <2>1
    <3> QED BY <1>2, <1>6, <3>1
  <2>2. CASE i > n
    <3> DEFINE j == i - n
    <3>1. j \in 1 .. m /\ u[i] = t[j]
      BY <1>6, <2>2
    <3>2. j - 1 \in Int /\ v + (j - 1) = p + i - 1
      BY <1>1, <1>4, <3>1
    <3> HIDE DEF j
    <3>3. t[j] = ByteAt(c.key, c.second, Wrap(At(d) + j - 1))
      BY <1>3, <3>1
    <3>4. Wrap(v) \in Int
      BY <1>4, WrapNat
    <3>5. At(d) + j - 1 = Wrap(v) + (j - 1)
      BY <1>2, <3>1, <3>4
    <3>6. Wrap(Wrap(v) + (j - 1)) = Wrap(v + (j - 1))
      BY <1>4, <3>2, WrapFacts
    <3> QED BY <3>1, <3>2, <3>3, <3>5, <3>6
  <2> QED BY <2>1, <2>2
<1> QED BY <1>3, <1>6, <1>7, <1>8 DEF Streamed, p, u

\* Whole blocks, when nothing is held back or there are none of them.
LEMMA WholeBlocks ==
  ASSUME NEW c, Whole(c), NEW q \in Nat, c.left = 0 \/ q = 0
  PROVE  LET a == Aligned(c, q)
         IN  Streamed(c, q * BlockLen, a.cipher, a.out) /\ a.cipher.left = c.left
<1> DEFINE a == Aligned(c, q)  w == a.cipher  y == a.out  m == q * BlockLen  s == Stand(c)  p == At(c)
<1>1. Drawn(c, q, a)
  BY AlignedFacts DEF Whole
<1> HIDE DEF a
<1>2. /\ Shaped(w) /\ w.key = c.key /\ w.second = c.second /\ w.buffer = c.buffer /\ w.left = c.left
      /\ Stand(w) = Wrap(s + m) /\ Tuple(y, m)
      /\ \A j \in 1 .. m : y[j] = ByteAt(c.key, c.second, Wrap(s + j - 1))
  BY <1>1 DEF Drawn
<1>3. m \in Nat /\ (q = 0 => m = 0) /\ StreamSize \in Nat
  BY Sizes
<1>4. /\ s \in Nat /\ p \in Nat /\ p < StreamSize /\ s = Wrap(p + c.left)
      /\ c.left \in 0 .. BlockLen - 1 /\ BlockLen \in Nat /\ s < StreamSize /\ StreamSize \in Nat
  BY AtFacts, StandFacts, Sizes DEF Whole
<1> HIDE DEF m, p, s, w, y
<1>5. CASE c.left = 0
  <2>1. s = p
    <3>1. p + 0 = p /\ p \in 0 .. StreamSize - 1 /\ p \in Int /\ 0 \in Int
      BY <1>4
    <3>2. Wrap(p) = p
      BY <3>1, WrapFacts
    <3> QED BY <1>4, <1>5, <3>1, <3>2
  <2>2. At(w) = Wrap(s + m)
    <3> DEFINE t == Stand(w)
    <3>1. t = Wrap(s + m)
      BY <1>2
    <3>2. s + m \in Int
      BY <1>3, <1>4
    <3>3. t \in Nat /\ t < StreamSize
      BY <3>1, <3>2, WrapNat
    <3>4. t + StreamSize - 0 = t + StreamSize /\ t \in 0 .. StreamSize - 1 /\ t \in Int /\ 0 \in Int
      BY <1>3, <3>3
    <3>5. At(w) = Wrap(t + StreamSize)
      BY <1>2, <1>5, <3>4 DEF At
    <3> HIDE DEF t
    <3>6. Wrap(t + StreamSize) = t
      BY <3>4, WrapFacts
    <3> QED BY <3>1, <3>5, <3>6
  <2>3. Whole(w)
    BY <1>2, <1>4, <1>5 DEF Whole
  <2> QED BY <1>2, <2>1, <2>2, <2>3 DEF Streamed, w, y, m, p, a
<1>6. CASE q = 0
  <2>1. Stand(w) = s
    <3>1. s + 0 = s /\ s \in 0 .. StreamSize - 1 /\ s \in Int /\ 0 \in Int
      BY <1>4
    <3>2. Wrap(s) = s
      BY <3>1, WrapFacts
    <3> QED BY <1>2, <1>3, <1>6, <3>1, <3>2
  <2>2. At(w) = p
    BY <1>2, <2>1 DEF At, p, s
  <2>3. Wrap(p + m) = p
    <3>1. p + 0 = p /\ p \in 0 .. StreamSize - 1 /\ p \in Int /\ 0 \in Int
      BY <1>4
    <3>2. Wrap(p) = p
      BY <3>1, WrapFacts
    <3> QED BY <1>3, <1>6, <3>1, <3>2
  <2>4. Whole(w)
    BY <1>2, <2>2 DEF Whole, p
  <2>5. 1 .. m = {}
    BY <1>3, <1>6
  <2> QED BY <1>2, <2>2, <2>3, <2>4, <2>5 DEF Streamed, w, y, m, p, a
<1> QED BY <1>5, <1>6

\* The head of one more block, when nothing is held back: the rest of it is.
LEMMA Refilled ==
  ASSUME NEW c, Whole(c), c.left = 0, NEW n \in 1 .. BlockLen - 1
  PROVE  LET last == Aligned(c, 1)
             e == [last.cipher EXCEPT !.buffer = last.out, !.left = BlockLen - n]
         IN  Streamed(c, n, e, SubSeq(last.out, 1, n))
<1> DEFINE last == Aligned(c, 1)  w == last.cipher  y == last.out  s == Stand(c)
           e == [last.cipher EXCEPT !.buffer = last.out, !.left = BlockLen - n]
           head == SubSeq(last.out, 1, n)
<1>1. Drawn(c, 1, last)
  BY AlignedFacts DEF Whole
<1> HIDE DEF last
<1>2. /\ Shaped(w) /\ w.key = c.key /\ w.second = c.second /\ Stand(w) = Wrap(s + BlockLen)
      /\ Tuple(y, BlockLen)
      /\ \A j \in 1 .. BlockLen : y[j] = ByteAt(c.key, c.second, Wrap(s + j - 1))
  <2>1. 1 * BlockLen = BlockLen
    BY Sizes
  <2> QED BY <1>1, <2>1 DEF Drawn
<1>3. /\ e = [key |-> w.key, block |-> w.block, first |-> w.first, second |-> w.second,
               buffer |-> y, left |-> BlockLen - n]
      /\ e.key = c.key /\ e.second = c.second /\ e.block = w.block /\ e.first = w.first
      /\ e.buffer = y /\ e.left = BlockLen - n
  <2> DEFINE x == BlockLen - n
  <2>1. e = [w EXCEPT !.buffer = y, !.left = x]
    OBVIOUS
  <2> HIDE DEF e, w, y, x
  <2>2. w = [key |-> w.key, block |-> w.block, first |-> w.first, second |-> w.second,
             buffer |-> w.buffer, left |-> w.left]
    BY <1>2 DEF Shaped
  <2>3. e = [key |-> w.key, block |-> w.block, first |-> w.first, second |-> w.second,
             buffer |-> y, left |-> x]
    BY <2>1, <2>2
  <2> QED BY <1>2, <2>3 DEF x
<1>4. Shaped(e)
  BY <1>2, <1>3 DEF Shaped
<1>5. Stand(e) = Wrap(s + BlockLen)
  BY <1>2, <1>3 DEF Stand
<1>6. s \in Nat /\ BlockLen \in Nat /\ StreamSize \in Nat /\ s < StreamSize /\ At(c) = s
  <2>1. s \in Nat /\ BlockLen \in Nat /\ StreamSize \in Nat /\ s < StreamSize
    BY StandFacts, Sizes DEF Whole
  <2>2. At(c) = Wrap(s + StreamSize)
    BY <2>1 DEF At
  <2> HIDE DEF s
  <2>3. s \in 0 .. StreamSize - 1 /\ s \in Int /\ 0 \in Int
    BY <2>1
  <2>4. Wrap(s + StreamSize) = s
    BY <2>3, WrapFacts
  <2> QED BY <2>1, <2>2, <2>4
<1> HIDE DEF e, y, w, s
<1>7. At(e) = Wrap(s + n)
  <2> DEFINE u == s + BlockLen  v == StreamSize - (BlockLen - n)  x == s + n
  <2>1. u \in Int /\ v \in Int /\ x \in Int /\ u + v = x + StreamSize /\ 0 \in Int
    BY <1>6
  <2>2. At(e) = Wrap(Wrap(u) + v)
    <3>1. Wrap(u) \in Int
      BY <2>1, WrapNat
    <3>2. At(e) = Wrap(Wrap(u) + StreamSize - (BlockLen - n))
      BY <1>3, <1>5 DEF At
    <3>3. Wrap(u) + StreamSize - (BlockLen - n) = Wrap(u) + v
      BY <1>6, <3>1
    <3> QED BY <3>2, <3>3
  <2> HIDE DEF u, v, x
  <2>3. Wrap(Wrap(u) + v) = Wrap(u + v) /\ Wrap(x + StreamSize) = Wrap(x)
    BY <2>1, WrapFacts
  <2> QED BY <2>1, <2>2, <2>3 DEF x
<1>8. /\ Tuple(head, n)
      /\ \A i \in 1 .. n : head[i] = ByteAt(c.key, c.second, Wrap(s + i - 1))
  <2>1. CutOf(head, y, 1, n)
    <3>1. Tuple(y, BlockLen) /\ BlockLen \in Nat /\ 1 \in Nat /\ n \in Nat /\ n <= BlockLen
      BY <1>2, <1>6
    <3>2. 1 <= n + 1 /\ n - 1 + 1 = n /\ 1 <= 1
      OBVIOUS
    <3>3. CutOf(SubSeq(y, 1, n), y, 1, n - 1 + 1)
      BY <3>1, <3>2, TupleCut
    <3> QED BY <3>2, <3>3 DEF y
  <2> HIDE DEF head
  <2>2. Tuple(head, n) /\ \A i \in 1 .. n : head[i] = y[1 + i - 1]
    BY <2>1 DEF CutOf
  <2>3. \A i \in 1 .. n : 1 + i - 1 = i /\ i \in 1 .. BlockLen
    BY <1>6
  <2> QED BY <1>2, <2>2, <2>3
<1>9. ASSUME NEW i \in 1 .. BlockLen - n
      PROVE  e.buffer[BlockLen - (BlockLen - n) + i] = ByteAt(e.key, e.second, Wrap(At(e) + i - 1))
  <2> DEFINE x == s + n  j == n + i  v == i - 1
  <2>1. /\ x \in Int /\ v \in Int /\ x + v = s + j - 1 /\ j \in 1 .. BlockLen
        /\ BlockLen - (BlockLen - n) + i = j
    BY <1>6
  <2>2. At(e) + i - 1 = Wrap(x) + v
    <3>1. Wrap(x) \in Int
      BY <2>1, WrapNat
    <3> QED BY <1>7, <3>1
  <2> HIDE DEF x, j, v
  <2>3. Wrap(Wrap(x) + v) = Wrap(x + v)
    BY <2>1, WrapFacts
  <2>4. y[j] = ByteAt(c.key, c.second, Wrap(s + j - 1))
    BY <1>2, <2>1
  <2> QED BY <1>3, <2>1, <2>2, <2>3, <2>4
<1>10. Whole(e)
  <2>1. BlockLen - n \in 0 .. BlockLen - 1
    BY <1>6
  <2> QED BY <1>2, <1>3, <1>4, <1>9, <2>1 DEF Whole
<1> QED BY <1>3, <1>6, <1>7, <1>8, <1>10 DEF Streamed, e, last, y

\* ChaCha20::Keystream returns the next n bytes of the stream of its object.
LEMMA KeystreamFacts ==
  ASSUME NEW c, Whole(c), NEW n \in Nat
  PROVE  LET k == Keystream(c, n) IN Streamed(c, n, k.cipher, k.out)
<1> DEFINE B == BlockLen  l == c.left
           reuse == IF c.left < n THEN c.left ELSE n
           tail == SubSeq(c.buffer, BlockLen - c.left + 1, BlockLen - c.left + reuse)
           d == [c EXCEPT !.left = @ - reuse]
           q == (n - reuse) \div BlockLen
           m == q * BlockLen
           rest == (n - reuse) % BlockLen
           whole == Aligned(d, q)
           w == whole.cipher
           last == Aligned(w, 1)
           e == [last.cipher EXCEPT !.buffer = last.out, !.left = BlockLen - rest]
           head == SubSeq(last.out, 1, rest)
           k == Keystream(c, n)
<1>1. k = IF rest = 0
          THEN [cipher |-> w, out |-> tail \o whole.out]
          ELSE [cipher |-> e, out |-> tail \o whole.out \o head]
  BY DEF Keystream
<1>2. /\ reuse \in 0 .. n /\ reuse <= l /\ (reuse = n \/ reuse = l)
      /\ q \in Nat /\ rest \in 0 .. B - 1 /\ m \in Nat
      /\ n = reuse + m + rest
      /\ (reuse = n => q = 0 /\ rest = 0 /\ m = 0)
  BY Parts
<1>3. Streamed(c, reuse, d, tail) /\ d.left = l - reuse
  <2> HIDE DEF reuse
  <2>1. reuse \in 0 .. BlockLen /\ reuse <= c.left
    <3>1. l \in 0 .. BlockLen - 1
      BY DEF Whole
    <3> HIDE DEF l
    <3>2. reuse \in 0 .. BlockLen
      BY <1>2, <3>1, Sizes
    <3> QED BY <1>2, <3>2 DEF l
  <2> QED BY <2>1, Reused
<1> HIDE DEF reuse, tail, d, q, rest, k
<1>4. Streamed(d, m, w, whole.out) /\ w.left = d.left
  <2>1. d.left = 0 \/ q = 0
    <3>1. l \in Nat
      BY Sizes DEF Whole
    <3> QED BY <1>2, <1>3, <3>1
  <2> QED BY <1>2, <1>3, <2>1, WholeBlocks DEF Streamed
<1> HIDE DEF whole, m
<1>5. Streamed(c, reuse + m, w, tail \o whole.out)
  BY <1>2, <1>3, <1>4, StreamJoin
<1>6. CASE rest = 0
  <2>1. reuse + m = n
    BY <1>2, <1>6
  <2> QED BY <1>1, <1>5, <1>6, <2>1 DEF k
<1>7. CASE rest > 0
  <2>1. w.left = 0 /\ rest \in 1 .. BlockLen - 1 /\ rest \in Nat /\ reuse + m \in Nat
        /\ (reuse + m) + rest = n
    <3>1. l \in Nat
      BY Sizes DEF Whole
    <3> QED BY <1>2, <1>3, <1>4, <1>7, <3>1
  <2> DEFINE z == tail \o whole.out  rr == reuse + m
  <2>2. Whole(w)
    BY <1>4 DEF Streamed
  <2>3. Streamed(w, rest, e, head)
    BY <2>1, <2>2, Refilled
  <2> HIDE DEF w, e, head, last, z, rr
  <2>4. rr \in Nat /\ rr + rest = n /\ Streamed(c, rr, w, z)
    BY <1>5, <2>1 DEF z, rr
  <2>5. Streamed(c, rr + rest, e, z \o head)
    BY <2>1, <2>3, <2>4, StreamJoin
  <2>6. k.cipher = e /\ k.out = z \o head
    BY <1>1, <1>7 DEF z
  <2> QED BY <2>4, <2>5, <2>6 DEF k
<1> QED BY <1>2, <1>6, <1>7
-----------------------------------------------------------------------------
(* The calls of a ChaCha20 object, and the promise of KeyStream.           *)

\* The bytes of a stream tell their place.
LEMMA WhereByte ==
  ASSUME NEW key, NEW second, NEW p \in 0 .. StreamSize - 1
  PROVE  Where(ByteAt(key, second, p)) = [key |-> key, second |-> second, pos |-> p]
<1> DEFINE n == p \div BlockLen  f == n \div WordMod  b == n % WordMod  i == p % BlockLen
           t == <<key, second, f, b, i + 1>>
<1>1. n \in Int /\ i \in Int /\ p = n * BlockLen + i
  BY Sizes
<1>2. f \in Int /\ b \in Int /\ n = f * WordMod + b
  <2> HIDE DEF n
  <2> QED BY <1>1, Sizes
<1>3. ByteAt(key, second, p) = {t}
  BY DEF ByteAt
<1> HIDE DEF n, f, b, i
<1>4. (CHOOSE x \in {t} : TRUE) = t
  OBVIOUS
<1>5. Where({t}) = [key |-> t[1], second |-> t[2], pos |-> Place(t[3], t[4], t[5] - 1)]
  BY <1>4 DEF Where
<1>6. t[1] = key /\ t[2] = second /\ t[3] = f /\ t[4] = b /\ t[5] - 1 = i
  BY <1>1
<1>7. Place(f, b, i) = p
  BY <1>1, <1>2 DEF Place
<1> QED BY <1>3, <1>5, <1>6, <1>7

\* A new object is at the start of its stream.
LEMMA SetKeyFacts ==
  ASSUME NEW k
  PROVE  Whole(SetKey(k)) /\ SetKey(k).key = k /\ SetKey(k).second = 0 /\ At(SetKey(k)) = 0
<1> DEFINE c == SetKey(k)
<1>1. /\ c = [key |-> k, block |-> 0, first |-> 0, second |-> 0,
              buffer |-> [i \in 1 .. BlockLen |-> {}], left |-> 0]
      /\ c.key = k /\ c.block = 0 /\ c.first = 0 /\ c.second = 0
      /\ c.buffer = [i \in 1 .. BlockLen |-> {}] /\ c.left = 0
  BY DEF SetKey
<1>2. Shaped(c) /\ Tuple(c.buffer, BlockLen)
  BY <1>1, Sizes DEF Shaped, Tuple
<1> HIDE DEF c
<1>3. Stand(c) = 0
  BY <1>1, Sizes DEF Stand, Place
<1>4. At(c) = 0
  <2>1. At(c) = Wrap(0 + StreamSize) /\ 0 \in 0 .. StreamSize - 1 /\ 0 \in Int
    BY <1>1, <1>3, Sizes DEF At
  <2> QED BY <2>1, WrapFacts
<1>5. 0 \in 0 .. BlockLen - 1 /\ 1 .. 0 = {}
  BY Sizes
<1> QED BY <1>1, <1>2, <1>4, <1>5 DEF Whole, c

\* Seek goes to the start of a block and leaves nothing held back.
LEMMA SeekFacts ==
  ASSUME NEW c, Whole(c), NEW first \in 0 .. WordMod - 1, NEW block \in 0 .. WordMod - 1, NEW second
  PROVE  LET d == Seek(c, <<first, second>>, block)
         IN  /\ Whole(d) /\ d.key = c.key /\ d.second = second
             /\ At(d) = Place(first, block, 0) /\ Place(first, block, 0) \in 0 .. StreamSize - 1
<1> DEFINE nonce == <<first, second>>  d == Seek(c, nonce, block)
<1>1. nonce[1] = first /\ nonce[2] = second
  OBVIOUS
<1>2. c = [key |-> c.key, block |-> c.block, first |-> c.first, second |-> c.second,
           buffer |-> c.buffer, left |-> c.left] /\ Tuple(c.buffer, BlockLen)
  BY DEF Whole, Shaped
<1>3. /\ d = [key |-> c.key, block |-> block, first |-> first, second |-> second,
              buffer |-> c.buffer, left |-> 0]
      /\ d.key = c.key /\ d.block = block /\ d.first = first /\ d.second = second
      /\ d.buffer = c.buffer /\ d.left = 0
  <2>1. d = [c EXCEPT !.block = block, !.first = first, !.second = second, !.left = 0]
    BY <1>1 DEF Seek
  <2> HIDE DEF d
  <2>2. d = [key |-> c.key, block |-> block, first |-> first, second |-> second,
             buffer |-> c.buffer, left |-> 0]
    BY <1>2, <2>1
  <2> QED BY <2>2
<1>4. Shaped(d)
  BY <1>3 DEF Shaped
<1> HIDE DEF d
<1> DEFINE p == Place(first, block, 0)
<1>5. p \in 0 .. StreamSize - 1 /\ p \in Int /\ 0 \in Int /\ StreamSize \in Nat
  BY Sizes, PlaceFacts
<1>6. At(d) = p
  <2>1. Stand(d) = p
    BY <1>3 DEF Stand
  <2> HIDE DEF p
  <2>2. At(d) = Wrap(p + StreamSize)
    BY <1>3, <1>5, <2>1 DEF At
  <2> QED BY <1>5, <2>2, WrapFacts
<1>7. 0 \in 0 .. BlockLen - 1 /\ 1 .. 0 = {}
  BY Sizes
<1> QED BY <1>2, <1>3, <1>4, <1>5, <1>6, <1>7 DEF Whole, d

\* Crypt draws as much keystream as there is input.
LEMMA CryptFacts ==
  ASSUME NEW c, Whole(c), NEW n \in Nat, NEW input, Tuple(input, n)
  PROVE  LET done == Crypt(c, input)
         IN  /\ Whole(done.cipher) /\ done.cipher.key = c.key /\ done.cipher.second = c.second
             /\ At(done.cipher) = Wrap(At(c) + n) /\ Tuple(done.out, n)
             /\ \A i \in 1 .. n :
                   done.out[i] = Xor(input[i], ByteAt(c.key, c.second, Wrap(At(c) + i - 1)))
<1> DEFINE done == Crypt(c, input)  k == Keystream(c, n)
<1>1. Len(input) = n
  BY TupleFacts
<1>2. Streamed(c, n, k.cipher, k.out)
  BY KeystreamFacts
<1> HIDE DEF k
<1>3. done.cipher = k.cipher /\ done.out = [i \in 1 .. n |-> Xor(input[i], k.out[i])]
  BY <1>1 DEF Crypt, k
<1> HIDE DEF done
<1>4. Tuple(done.out, n) /\ \A i \in 1 .. n : done.out[i] = Xor(input[i], k.out[i])
  BY <1>3 DEF Tuple
<1> QED BY <1>2, <1>3, <1>4 DEF Streamed, done
-----------------------------------------------------------------------------
\* The inductive invariant: what the object holds back is what comes next.
CipherInv == Whole(object) /\ object.key \in Keys

\* A new object promises the stream of its key from the start.
LEMMA PromiseInit ==
  ASSUME CipherInit
  PROVE  CipherInv /\ Promise!Init
<1>1. PICK k \in Keys : object = SetKey(k)
  BY DEF CipherInit
<1>2. output = << >>
  BY DEF CipherInit
<1>3. Whole(object) /\ object.key = k /\ object.second = 0 /\ At(object) = 0
  BY <1>1, SetKeyFacts
<1>4. (Place(object.first, object.block, 0) + StreamSize - object.left) % StreamSize = 0
  BY <1>3 DEF At, Stand, Wrap
<1>5. [i \in DOMAIN output |-> Where(output[i])] = << >>
  BY <1>2
<1> QED BY <1>3, <1>4, <1>5 DEF CipherInv, Promise!Init

\* What a draw returns is what the stream promises.
LEMMA PromisedDraw ==
  ASSUME CipherInv, NEW n \in 0 .. MaxDraw, Streamed(object, n, object', output')
  PROVE  CipherInv' /\ Promise!Draw(n)
<1> DEFINE p == At(object)  rr == [i \in DOMAIN output |-> Where(output[i])]
<1>0. n \in Nat /\ p \in Nat
  BY DrawAssumption, AtFacts DEF CipherInv, Whole
<1>1. /\ Whole(object') /\ object'.key = object.key /\ object'.second = object.second
      /\ At(object') = Wrap(p + n) /\ Tuple(output', n)
      /\ \A i \in 1 .. n : output'[i] = ByteAt(object.key, object.second, Wrap(p + i - 1))
  BY DEF Streamed
<1>2. CipherInv'
  BY <1>1 DEF CipherInv
<1>3. DOMAIN (output') = 1 .. n
  BY <1>0, <1>1, TupleFacts
<1> HIDE DEF p
<1>4. ASSUME NEW i \in 1 .. n
      PROVE  Where(output'[i]) = [key |-> object.key, second |-> object.second, pos |-> Wrap(p + i - 1)]
  <2> DEFINE u == p + i - 1
  <2>1. u \in Int /\ 0 \in Int
    BY <1>0
  <2> HIDE DEF u
  <2>2. Wrap(u) \in 0 .. StreamSize - 1
    BY <2>1, WrapFacts
  <2> QED BY <1>1, <2>2, WhereByte DEF u
<1>5. rr' = [i \in 1 .. n |-> [key |-> object.key, second |-> object.second, pos |-> Wrap(p + i - 1)]]
  BY <1>3, <1>4
<1> QED BY <1>1, <1>2, <1>5 DEF Promise!Draw, At, Stand, Wrap, p

\* Each call does to the stream what the stream allows.
LEMMA PromiseNext ==
  ASSUME CipherInv, [CipherNext]_cipherVars
  PROVE  CipherInv' /\ [Promise!Next]_(Promise!streamVars)
<1>1. ASSUME NEW k \in Keys, Rekey(k)
      PROVE  CipherInv' /\ Promise!SetKey(k)
  <2>1. object' = SetKey(k) /\ output' = << >>
    BY <1>1 DEF Rekey
  <2>2. Whole(object') /\ object'.key = k /\ object'.second = 0 /\ At(object') = 0
    BY <2>1, SetKeyFacts
  <2>3. (Place(object'.first, object'.block, 0) + StreamSize - object'.left) % StreamSize = 0
    BY <2>2 DEF At, Stand, Wrap
  <2>4. [i \in DOMAIN (output') |-> Where(output'[i])] = << >>
    BY <2>1
  <2> QED BY <1>1, <2>2, <2>3, <2>4 DEF CipherInv, Promise!SetKey
<1>2. ASSUME NEW first \in 0 .. WordMod - 1, NEW block \in 0 .. WordMod - 1, NEW second \in Seconds,
             SeekTo(<<first, second>>, block)
      PROVE  CipherInv' /\ \E p \in 0 .. StreamSize - 1 : Promise!Seek(second, p)
  <2> DEFINE p == Place(first, block, 0)
  <2>1. object' = Seek(object, <<first, second>>, block) /\ output' = << >>
    BY <1>2 DEF SeekTo
  <2>2. /\ Whole(object') /\ object'.key = object.key /\ object'.second = second
        /\ At(object') = p /\ p \in 0 .. StreamSize - 1
    BY <2>1, SeekFacts DEF CipherInv
  <2>3. (Place(object'.first, object'.block, 0) + StreamSize - object'.left) % StreamSize = p
    BY <2>2 DEF At, Stand, Wrap
  <2>4. [i \in DOMAIN (output') |-> Where(output'[i])] = << >>
    BY <2>1
  <2> HIDE DEF p
  <2>5. Promise!Seek(second, p)
    BY <2>2, <2>3, <2>4 DEF Promise!Seek
  <2>6. CipherInv'
    BY <2>2 DEF CipherInv
  <2> QED BY <2>2, <2>5, <2>6
<1>3. ASSUME NEW n \in 0 .. MaxDraw, Draw(n)
      PROVE  CipherInv' /\ Promise!Draw(n)
  <2>1. Whole(object) /\ n \in Nat
    BY DrawAssumption DEF CipherInv
  <2>2. Streamed(object, n, object', output')
    BY <1>3, <2>1, KeystreamFacts DEF Draw
  <2> QED BY <2>2, PromisedDraw
<1>4. ASSUME NEW n \in 0 .. MaxDraw, CryptZeros(n)
      PROVE  CipherInv' /\ Promise!Draw(n)
  <2> DEFINE zeros == [i \in 1 .. n |-> {}]
  <2>1. Whole(object) /\ n \in Nat /\ Tuple(zeros, n) /\ \A i \in 1 .. n : zeros[i] = {}
    BY DrawAssumption DEF CipherInv, Tuple
  <2>2. object' = Crypt(object, zeros).cipher /\ output' = Crypt(object, zeros).out
    BY <1>4 DEF CryptZeros
  <2> HIDE DEF zeros
  <2>3. /\ Whole(object') /\ object'.key = object.key /\ object'.second = object.second
        /\ At(object') = Wrap(At(object) + n) /\ Tuple(output', n)
        /\ \A i \in 1 .. n :
              output'[i] = Xor(zeros[i], ByteAt(object.key, object.second, Wrap(At(object) + i - 1)))
    BY <2>1, <2>2, CryptFacts
  <2>4. \A x : Xor({}, x) = x
    BY DEF Xor
  <2>5. Streamed(object, n, object', output')
    BY <2>1, <2>3, <2>4 DEF Streamed
  <2> QED BY <2>5, PromisedDraw
<1>5. ASSUME UNCHANGED cipherVars
      PROVE  CipherInv' /\ UNCHANGED Promise!streamVars
  BY <1>5 DEF CipherInv, cipherVars, Promise!streamVars
<1>6. CASE CipherNext
  BY <1>1, <1>2, <1>3, <1>4, <1>6 DEF CipherNext, Promise!Next
<1> QED BY <1>5, <1>6

\* Theorem: for every order and length of the calls a ChaCha20 object shows the
\* one stream of its key and nonce, cyclic over both overflows of the counter,
\* with no byte left out or shown twice: it implements KeyStream
\* (chacha20.cpp 45-138, 262-306, chacha20.h 88-99).
THEOREM ImplementsStream == CipherSpec => OneStream
<1>1. CipherSpec => []CipherInv
  <2>1. CipherInit => CipherInv
    BY PromiseInit
  <2>2. CipherInv /\ [CipherNext]_cipherVars => CipherInv'
    BY PromiseNext
  <2> QED BY <2>1, <2>2, PTL DEF CipherSpec
<1>2. CipherInit => Promise!Init
  BY PromiseInit
<1>3. CipherInv /\ [CipherNext]_cipherVars => [Promise!Next]_(Promise!streamVars)
  BY PromiseNext
<1> QED BY <1>1, <1>2, <1>3, PTL DEF CipherSpec, OneStream, Promise!Spec
-----------------------------------------------------------------------------
(* The counters of the packets.                                            *)

\* An object has its four fields, and its packet counter is below the interval.
Sound(p, n) ==
  /\ p = [cipher |-> p.cipher, packets |-> p.packets, rekeys |-> p.rekeys, interval |-> p.interval]
  /\ p.interval \in 1 .. WordMod - 1
  /\ p.packets \in 0 .. p.interval - 1
  /\ p.rekeys \in Nat
  /\ Counted(p, n)

\* A history is a sequence, of whatever elements.
History(s) == \E S : s \in Seq(S)

\* The inductive invariant: both ends are sound for what they have met, and
\* were made with one interval.
Stepping ==
  /\ Sound(sender, Len(sent)) /\ Sound(receiver, Len(got))
  /\ sender.interval = receiver.interval
  /\ History(sent) /\ History(got)
-----------------------------------------------------------------------------
(* Arithmetic.                                                             *)

\* A rekey goes on where the counting of one interval ends.
LEMMA RekeyCounts ==
  ASSUME NEW rr \in Nat, NEW i \in Nat, NEW n \in Nat, rr * i + (i - 1) = n
  PROVE  (rr + 1) * i + 0 = n + 1
<1>1. (rr + 1) * i = rr * i + i
  OBVIOUS
<1> QED BY <1>1

\* After more rekeys the count of packets is another.
LEMMA MoreRekeys ==
  ASSUME NEW rr \in Nat, NEW s \in Nat, NEW i \in Nat, NEW p \in 0 .. i - 1, NEW q \in 0 .. i - 1,
         rr < s
  PROVE  rr * i + p # s * i + q
<1>1. PICK d \in Nat : s = rr + 1 + d
  <2>1. s - rr - 1 \in Nat /\ s = rr + 1 + (s - rr - 1)
    OBVIOUS
  <2> QED BY <2>1
<1>2. s * i = rr * i + i + d * i
  BY <1>1
<1>3. rr * i \in Nat /\ d * i \in Nat
  OBVIOUS
<1> QED BY <1>2, <1>3

\* A count has one quotient and one remainder.
LEMMA OneNonce ==
  ASSUME NEW rr \in Nat, NEW s \in Nat, NEW i \in Nat, NEW p \in 0 .. i - 1, NEW q \in 0 .. i - 1,
         rr * i + p = s * i + q
  PROVE  rr = s /\ p = q
<1>1. rr = s
  BY MoreRekeys
<1>2. rr * i \in Nat
  OBVIOUS
<1> QED BY <1>1, <1>2
-----------------------------------------------------------------------------
(* The parts of a step.                                                    *)

\* A packet more in a history.
LEMMA HistoryGrows ==
  ASSUME NEW s, NEW e, History(s)
  PROVE  History(Append(s, e)) /\ Len(Append(s, e)) = Len(s) + 1 /\ Len(s) \in Nat
<1>1. PICK S : s \in Seq(S)
  BY DEF History
<1>2. s \in Seq(S \cup {e})
  BY <1>1
<1> QED BY <1>2, AppendProperties DEF History

\* Encrypt and Decrypt put another cipher in the object first.
LEMMA CipherMoves ==
  ASSUME NEW p, NEW n, NEW c, Sound(p, n)
  PROVE  /\ Sound([p EXCEPT !.cipher = c], n)
         /\ [p EXCEPT !.cipher = c].interval = p.interval
<1> DEFINE q == [p EXCEPT !.cipher = c]
<1>1. q = [cipher |-> c, packets |-> p.packets, rekeys |-> p.rekeys, interval |-> p.interval]
  BY DEF Sound
<1>2. q.cipher = c /\ q.packets = p.packets /\ q.rekeys = p.rekeys /\ q.interval = p.interval
  BY <1>1
<1> QED BY <1>1, <1>2 DEF Sound, Counted

\* NextPacket counts one packet, with a rekey or without.
LEMMA NextPacketCounts ==
  ASSUME NEW p, NEW n \in Nat, Sound(p, n)
  PROVE  /\ Sound(NextPacket(p), n + 1)
         /\ NextPacket(p).interval = p.interval
<1> DEFINE pad == AeadKeystream(p.cipher, RekeyNonce(p), BlockLen)
           fresh == SetKey(SubSeq(pad.out, 1, KeyLen))
           q == NextPacket(p)
<1>0. WordMod \in Nat
  BY WordAssumption
<1>1. (p.packets + 1) % WordMod = p.packets + 1
  BY <1>0 DEF Sound
<1>2. CASE p.packets + 1 # p.interval
  <2>1. q = [p EXCEPT !.packets = p.packets + 1]
    BY <1>1, <1>2 DEF NextPacket
  <2>2. q = [cipher |-> p.cipher, packets |-> p.packets + 1, rekeys |-> p.rekeys, interval |-> p.interval]
    BY <2>1 DEF Sound
  <2>3. q.cipher = p.cipher /\ q.packets = p.packets + 1 /\ q.rekeys = p.rekeys /\ q.interval = p.interval
    BY <2>2
  <2>4. q.packets \in 0 .. q.interval - 1
    BY <1>0, <1>2, <2>3 DEF Sound
  <2>5. Counted(q, n + 1)
    <3>1. p.rekeys * p.interval \in Nat
      BY <1>0 DEF Sound
    <3> QED BY <1>0, <2>3, <3>1 DEF Sound, Counted
  <2> HIDE DEF q
  <2>6. Sound(q, n + 1) /\ q.interval = p.interval
    BY <2>2, <2>3, <2>4, <2>5 DEF Sound
  <2> QED BY <2>6 DEF q
<1>3. CASE p.packets + 1 = p.interval
  <2>1. q = [p EXCEPT !.cipher = fresh, !.packets = 0, !.rekeys = p.rekeys + 1]
    BY <1>1, <1>3 DEF NextPacket
  <2> HIDE DEF fresh
  <2>2. q = [cipher |-> fresh, packets |-> 0, rekeys |-> p.rekeys + 1, interval |-> p.interval]
    BY <2>1 DEF Sound
  <2>3. q.cipher = fresh /\ q.packets = 0 /\ q.rekeys = p.rekeys + 1 /\ q.interval = p.interval
    BY <2>2
  <2>4. p.rekeys \in Nat /\ p.interval \in Nat /\ p.rekeys * p.interval + (p.interval - 1) = n
    BY <1>0, <1>3 DEF Sound, Counted
  <2>5. Counted(q, n + 1)
    BY <2>3, <2>4, RekeyCounts DEF Counted
  <2>6. q.packets \in 0 .. q.interval - 1 /\ q.rekeys \in Nat
    BY <1>0, <2>3 DEF Sound
  <2> HIDE DEF q
  <2>7. Sound(q, n + 1) /\ q.interval = p.interval
    BY <2>2, <2>3, <2>5, <2>6 DEF Sound
  <2> QED BY <2>7 DEF q
<1> QED BY <1>2, <1>3
-----------------------------------------------------------------------------
\* Two new objects of one interval are in step.
LEMMA InitSteps == FSInit => Stepping
<1> SUFFICES ASSUME FSInit PROVE Stepping
  OBVIOUS
<1>1. PICK i \in Intervals : sender = NewParty(i) /\ receiver = NewParty(i)
  BY DEF FSInit
<1>2. i \in 1 .. WordMod - 1 /\ WordMod \in Nat
  BY <1>1, FSAssumption, WordAssumption
<1>3. sent = <<>> /\ got = <<>> /\ Len(sent) = 0 /\ Len(got) = 0 /\ History(sent) /\ History(got)
  BY DEF FSInit, History
<1> DEFINE c == SetKey(FirstKey)
<1>4. NewParty(i) = [cipher |-> c, packets |-> 0, rekeys |-> 0, interval |-> i]
  BY DEF NewParty
<1> HIDE DEF c
<1>5. Sound(NewParty(i), 0) /\ NewParty(i).interval = i
  BY <1>2, <1>4 DEF Sound, Counted
<1> QED BY <1>1, <1>3, <1>5 DEF Stepping

\* FSChaCha20Poly1305::Encrypt counts the packet it makes.
LEMMA EncryptSteps ==
  ASSUME Stepping, NEW shape, Encrypt(shape)
  PROVE  Stepping'
<1>1. PICK c : sender' = NextPacket([sender EXCEPT !.cipher = c])
  BY DEF Encrypt
<1>2. PICK e : sent' = Append(sent, e)
  BY DEF Encrypt
<1>3. receiver' = receiver /\ got' = got
  BY DEF Encrypt
<1>4. Len(sent) \in Nat /\ Len(sent') = Len(sent) + 1 /\ History(sent')
  BY <1>2, HistoryGrows DEF Stepping
<1> DEFINE p == [sender EXCEPT !.cipher = c]
<1>5. Sound(p, Len(sent)) /\ p.interval = sender.interval
  BY CipherMoves DEF Stepping
<1> HIDE DEF p
<1>6. Sound(sender', Len(sent')) /\ sender'.interval = sender.interval
  BY <1>1, <1>4, <1>5, NextPacketCounts DEF p
<1> QED BY <1>3, <1>4, <1>6 DEF Stepping

\* FSChaCha20Poly1305::Decrypt counts the packet, whatever became of it.
LEMMA DecryptSteps ==
  ASSUME Stepping, NEW q, NEW k, Decrypt(q, k)
  PROVE  Stepping'
<1>1. PICK c : receiver' = NextPacket([receiver EXCEPT !.cipher = c])
  BY DEF Decrypt
<1>2. PICK e : got' = Append(got, e)
  BY DEF Decrypt
<1>3. sender' = sender /\ sent' = sent
  BY DEF Decrypt
<1>4. Len(got) \in Nat /\ Len(got') = Len(got) + 1 /\ History(got')
  BY <1>2, HistoryGrows DEF Stepping
<1> DEFINE p == [receiver EXCEPT !.cipher = c]
<1>5. Sound(p, Len(got)) /\ p.interval = receiver.interval
  BY CipherMoves DEF Stepping
<1> HIDE DEF p
<1>6. Sound(receiver', Len(got')) /\ receiver'.interval = receiver.interval
  BY <1>1, <1>4, <1>5, NextPacketCounts DEF p
<1> QED BY <1>3, <1>4, <1>6 DEF Stepping

\* Every step keeps the two ends in step.
LEMMA NextSteps == Stepping /\ [FSNext]_fsVars => Stepping'
<1> SUFFICES ASSUME Stepping, [FSNext]_fsVars PROVE Stepping'
  OBVIOUS
<1>1. ASSUME NEW shape \in Shapes, Encrypt(shape) PROVE Stepping'
  BY <1>1, EncryptSteps
<1>2. ASSUME NEW q, NEW k, Decrypt(q, k) PROVE Stepping'
  BY <1>2, DecryptSteps
<1>3. CASE UNCHANGED fsVars
  BY <1>3 DEF fsVars, Stepping, Sound, Counted
<1>4. FSNext => (\E shape \in Shapes : Encrypt(shape)) \/ (\E q, k : Decrypt(q, k))
  BY DEF FSNext
<1> QED BY <1>1, <1>2, <1>3, <1>4

\* Ends in step use the same nonce for a packet, and never that of a rekey.
LEMMA SteppingAgrees == Stepping => CountersInStep
<1> SUFFICES ASSUME Stepping PROVE CountersInStep
  OBVIOUS
<1>0. WordMod \in Nat
  BY WordAssumption
<1>1. Counted(sender, Len(sent)) /\ Counted(receiver, Len(got))
  BY DEF Stepping, Sound
<1>2. ASSUME Len(got) = Len(sent) PROVE PacketNonce(receiver) = PacketNonce(sender)
  <2>1. receiver.rekeys * sender.interval + receiver.packets = sender.rekeys * sender.interval + sender.packets
    BY <1>1, <1>2 DEF Stepping, Counted
  <2>2. /\ sender.interval \in Nat /\ sender.rekeys \in Nat /\ receiver.rekeys \in Nat
        /\ sender.packets \in 0 .. sender.interval - 1 /\ receiver.packets \in 0 .. sender.interval - 1
    BY <1>0 DEF Stepping, Sound
  <2>3. receiver.rekeys = sender.rekeys /\ receiver.packets = sender.packets
    <3> DEFINE rr == receiver.rekeys
               s == sender.rekeys
               i == sender.interval
               p == receiver.packets
               q == sender.packets
    <3>1. rr \in Nat /\ s \in Nat /\ i \in Nat /\ p \in 0 .. i - 1 /\ q \in 0 .. i - 1 /\ rr * i + p = s * i + q
      BY <2>1, <2>2
    <3> HIDE DEF rr, s, i, p, q
    <3>2. rr = s /\ p = q
      BY <3>1, OneNonce
    <3> QED BY <3>2 DEF rr, s, p, q
  <2> QED BY <2>3 DEF PacketNonce
<1>3. ASSUME NEW p, NEW n, Sound(p, n) PROVE PacketNonce(p) # RekeyNonce(p)
  <2>1. p.packets # WordMod - 1
    BY <1>0, <1>3 DEF Sound
  <2> QED BY <2>1 DEF PacketNonce, RekeyNonce
<1> QED BY <1>1, <1>2, <1>3 DEF CountersInStep, Stepping

\* Theorem: both ends of a stream count each packet once, whatever arrives of
\* it, use the same nonce for it, and never the nonce of a rekey
\* (cc20poly1305.cpp 91-131).
THEOREM NoncesInStep == FSSpec => []CountersInStep
<1>1. FSSpec => []Stepping
  BY InitSteps, NextSteps, PTL DEF FSSpec
<1> QED BY <1>1, SteppingAgrees, PTL
-----------------------------------------------------------------------------
(* Which byte is under which: the blocks of a nonce, the key of a tag, and *)
(* ChaCha20::Crypt (crypto/chacha20.cpp) in one call or in several.        *)

\* The second block of a nonce is behind the first.
LEMMA SecondBlock ==
  ASSUME NEW f \in 0 .. WordMod - 1
  PROVE  /\ Place(f, 0, 0) \in Nat /\ Place(f, 1, 0) = Place(f, 0, 0) + BlockLen
         /\ Place(f, 1, 0) \in 0 .. StreamSize - BlockLen
<1>1. 0 \in 0 .. WordMod - 1 /\ 1 \in 0 .. WordMod - 1 /\ 0 \in 0 .. BlockLen - 1
  BY Sizes
<1>2. Place(f, 0, 0) \in Nat /\ Place(f, 1, 0) \in Nat /\ Place(f, 1, 0) <= StreamSize - BlockLen
  BY <1>1, PlaceFacts
<1> DEFINE n == f * WordMod
<1>3. n \in Nat
  BY Sizes
<1>4. Place(f, 0, 0) = n * BlockLen /\ Place(f, 1, 0) = (n + 1) * BlockLen
  BY <1>3, Sizes DEF Place
<1> HIDE DEF n
<1>5. (n + 1) * BlockLen = n * BlockLen + BlockLen
  BY <1>3, Sizes
<1> QED BY <1>2, <1>4, <1>5, Sizes

\* The first bytes of the keystream block that nonce and block name.
PadOf(key, nonce, block) == [i \in 1 .. KeyLen |-> {<<key, nonce[2], nonce[1], block, i>>}]

\* An object at a block draws that block.
LEMMA BlockDrawn ==
  ASSUME NEW c, Whole(c), NEW f \in 0 .. WordMod - 1, NEW b \in 0 .. WordMod - 1, At(c) = Place(f, b, 0)
  PROVE  LET k == Keystream(c, BlockLen)
         IN  /\ Streamed(c, BlockLen, k.cipher, k.out)
             /\ SubSeq(k.out, 1, KeyLen) = PadOf(c.key, <<f, c.second>>, b)
<1> DEFINE k == Keystream(c, BlockLen)  head == SubSeq(k.out, 1, KeyLen)  p == Place(f, b, 0)
           pad == PadOf(c.key, <<f, c.second>>, b)
<1>1. BlockLen \in Nat /\ KeyLen \in 1 .. BlockLen /\ StreamSize \in Nat
  BY Sizes, FSAssumption
<1>2. Streamed(c, BlockLen, k.cipher, k.out)
  BY <1>1, KeystreamFacts
<1> HIDE DEF k
<1>3. /\ Tuple(k.out, BlockLen)
      /\ \A i \in 1 .. BlockLen : k.out[i] = ByteAt(c.key, c.second, Wrap(p + i - 1))
  BY <1>2 DEF Streamed
<1>4. CutOf(head, k.out, 1, KeyLen)
  <2> DEFINE s == k.out
  <2>1. Tuple(s, BlockLen) /\ 1 \in Nat /\ KeyLen \in Nat /\ 1 <= 1 /\ KeyLen <= BlockLen
        /\ 1 <= KeyLen + 1 /\ KeyLen - 1 + 1 = KeyLen
    BY <1>1, <1>3
  <2> HIDE DEF s
  <2>2. CutOf(SubSeq(s, 1, KeyLen), s, 1, KeyLen - 1 + 1)
    BY <1>1, <2>1, TupleCut
  <2> QED BY <2>1, <2>2 DEF s
<1> HIDE DEF head
<1>5. ASSUME NEW i \in 1 .. KeyLen
      PROVE  head[i] = {<<c.key, c.second, f, b, i>>}
  <2> DEFINE j == i - 1  u == p + j
  <2>1. j \in 0 .. BlockLen - 1 /\ j + 1 = i /\ i \in 1 .. BlockLen /\ 1 + i - 1 = i /\ 0 \in Int
    BY <1>1
  <2> HIDE DEF j
  <2>2. /\ p \in Nat /\ p <= StreamSize - BlockLen /\ Place(f, b, j) = u
        /\ ByteAt(c.key, c.second, Place(f, b, j)) = {<<c.key, c.second, f, b, j + 1>>}
    BY <2>1, PlaceFacts
  <2>3. u \in 0 .. StreamSize - 1 /\ u \in Int /\ p + i - 1 = u
    BY <1>1, <2>1, <2>2
  <2> HIDE DEF u, p
  <2>4. Wrap(u) = u
    BY <2>1, <2>3, WrapFacts
  <2>5. head[i] = ByteAt(c.key, c.second, Wrap(p + i - 1))
    BY <1>3, <1>4, <2>1 DEF CutOf
  <2> QED BY <2>1, <2>2, <2>3, <2>4, <2>5
<1>6. head = pad
  <2>1. pad = [i \in 1 .. KeyLen |-> {<<c.key, c.second, f, b, i>>}]
    BY DEF PadOf
  <2>2. head = [i \in 1 .. KeyLen |-> head[i]]
    BY <1>4 DEF CutOf, Tuple
  <2> HIDE DEF pad
  <2> QED BY <1>5, <2>1, <2>2
<1> QED BY <1>2, <1>6 DEF k, head

\* What poly1305 makes of the pieces that ComputeTag passes to it.
TagOf(key, aad, body) ==
  LET st1 == PolyUpdate(PolyUpdate(PolyInit(key), aad), Padding(Len(aad)))
      st2 == PolyUpdate(PolyUpdate(st1, body), Padding(Len(body)))
  IN  PolyFinish(PolyUpdate(st2, LengthDesc(aad, body)))

\* ComputeTag keys the tag with block 0 and leaves the object at block 1.
LEMMA ComputeTagFacts ==
  ASSUME NEW c, Whole(c), NEW f \in 0 .. WordMod - 1, At(c) = Place(f, 0, 0), NEW aad, NEW body
  PROVE  LET t == ComputeTag(c, aad, body)
         IN  /\ Whole(t.cipher) /\ t.cipher.key = c.key /\ t.cipher.second = c.second
             /\ At(t.cipher) = Place(f, 1, 0)
             /\ t.tag = TagOf(PadOf(c.key, <<f, c.second>>, 0), aad, body)
<1> DEFINE k == Keystream(c, BlockLen)  t == ComputeTag(c, aad, body)
<1>1. Streamed(c, BlockLen, k.cipher, k.out) /\ SubSeq(k.out, 1, KeyLen) = PadOf(c.key, <<f, c.second>>, 0)
  <2>1. 0 \in 0 .. WordMod - 1
    BY Sizes
  <2> QED BY <2>1, BlockDrawn
<1>2. t.cipher = k.cipher /\ t.tag = TagOf(SubSeq(k.out, 1, KeyLen), aad, body)
  BY DEF ComputeTag, TagOf
<1> HIDE DEF k, t
<1>3. Wrap(At(c) + BlockLen) = Place(f, 1, 0)
  <2> DEFINE u == Place(f, 0, 0) + BlockLen
  <2>1. u = Place(f, 1, 0) /\ u \in 0 .. StreamSize - 1 /\ u \in Int /\ 0 \in Int
    BY SecondBlock, Sizes
  <2> HIDE DEF u
  <2>2. Wrap(u) = u
    BY <2>1, WrapFacts
  <2> QED BY <2>1, <2>2 DEF u
<1> QED BY <1>1, <1>2, <1>3 DEF Streamed, t

\* Byte i of the pad of a text.
TextPad(key, nonce, i) == ByteAt(key, nonce[2], Wrap(Place(nonce[1], 1, 0) + i - 1))

\* out is a text xored with the next bytes of the stream of c.
Crypted(c, n, text, d, out) ==
  \E pad : /\ Streamed(c, n, d, pad) /\ Tuple(out, n)
           /\ \A i \in 1 .. n : out[i] = Xor(text[i], pad[i])

\* ChaCha20::Crypt, with what is held back or not.
LEMMA CryptDoes ==
  ASSUME NEW c, Whole(c), NEW n \in Nat, NEW text, Tuple(text, n)
  PROVE  Crypted(c, n, text, Crypt(c, text).cipher, Crypt(c, text).out)
<1> DEFINE done == Crypt(c, text)  k == Keystream(c, n)
<1>1. Len(text) = n
  BY TupleFacts
<1>2. Streamed(c, n, k.cipher, k.out)
  BY KeystreamFacts
<1> HIDE DEF k
<1>3. done.cipher = k.cipher /\ done.out = [i \in 1 .. n |-> Xor(text[i], k.out[i])]
  BY <1>1 DEF Crypt, k
<1> HIDE DEF done
<1>4. Tuple(done.out, n) /\ \A i \in 1 .. n : done.out[i] = Xor(text[i], k.out[i])
  BY <1>3 DEF Tuple
<1>5. Crypted(c, n, text, done.cipher, done.out)
  BY <1>2, <1>3, <1>4 DEF Crypted
<1> QED BY <1>5 DEF done

\* A text in two parts is one text.
LEMMA CryptJoin ==
  ASSUME NEW c, Whole(c), NEW n \in Nat, NEW s, Tuple(s, n), NEW d, NEW x, Crypted(c, n, s, d, x),
         NEW m \in Nat, NEW t, Tuple(t, m), NEW e, NEW y, Crypted(d, m, t, e, y)
  PROVE  Crypted(c, n + m, s \o t, e, x \o y)
<1>1. PICK p : Streamed(c, n, d, p) /\ Tuple(x, n) /\ \A i \in 1 .. n : x[i] = Xor(s[i], p[i])
  BY DEF Crypted
<1>2. PICK q : Streamed(d, m, e, q) /\ Tuple(y, m) /\ \A i \in 1 .. m : y[i] = Xor(t[i], q[i])
  BY DEF Crypted
<1>3. Streamed(c, n + m, e, p \o q)
  BY <1>1, <1>2, StreamJoin
<1>4. Tuple(p, n) /\ Tuple(q, m)
  BY <1>1, <1>2 DEF Streamed
<1> DEFINE rr == p \o q  u == s \o t  z == x \o y
<1>5. Chained(rr, p, n, q, m) /\ Chained(u, s, n, t, m) /\ Chained(z, x, n, y, m)
  BY <1>1, <1>2, <1>4, TupleJoin
<1> HIDE DEF rr, u, z
<1>6. ASSUME NEW i \in 1 .. n + m PROVE z[i] = Xor(u[i], rr[i])
  <2>1. CASE i \in 1 .. n
    BY <1>1, <1>5, <2>1 DEF Chained
  <2>2. CASE i > n
    <3> DEFINE j == i - n
    <3>1. j \in 1 .. m /\ rr[i] = q[j] /\ u[i] = t[j] /\ z[i] = y[j]
      BY <1>5, <2>2 DEF Chained
    <3> HIDE DEF j
    <3> QED BY <1>2, <3>1
  <2> QED BY <2>1, <2>2
<1>7. Tuple(z, n + m)
  BY <1>5 DEF Chained
<1> QED BY <1>3, <1>6, <1>7 DEF Crypted, rr, u, z
-----------------------------------------------------------------------------
(* AEADChaCha20Poly1305::Encrypt and Decrypt, and the counters of          *)
(* FSChaCha20Poly1305::NextPacket (crypto/cc20poly1305.cpp).               *)

\* What an object does to a text from block 1 of a nonce.
LEMMA TextFacts ==
  ASSUME NEW c, Whole(c), NEW f \in 0 .. WordMod - 1, At(c) = Place(f, 1, 0),
         NEW n \in Nat, NEW text, NEW d, NEW out, Crypted(c, n, text, d, out)
  PROVE  /\ Whole(d) /\ d.key = c.key /\ Tuple(out, n)
         /\ \A i \in 1 .. n : out[i] = Xor(text[i], TextPad(c.key, <<f, c.second>>, i))
<1>1. PICK pad : Streamed(c, n, d, pad) /\ Tuple(out, n) /\ \A i \in 1 .. n : out[i] = Xor(text[i], pad[i])
  BY DEF Crypted
<1>2. \A i : TextPad(c.key, <<f, c.second>>, i) = ByteAt(c.key, c.second, Wrap(At(c) + i - 1))
  BY DEF TextPad
<1> QED BY <1>1, <1>2 DEF Streamed

\* A text of n and m bytes, cut in two.
Halves(s, t, text, n, m) == Tuple(s, n) /\ Tuple(t, m) /\ s \o t = text

\* AEADChaCha20Poly1305 cuts a text where its caller says.
LEMMA CutJoins ==
  ASSUME NEW k \in Nat, NEW body, Tuple(body, k), NEW n \in 0 .. k, NEW m, m = k - n
  PROVE  Halves(SubSeq(body, 1, n), SubSeq(body, n + 1, Len(body)), body, n, m)
<1> DEFINE s == SubSeq(body, 1, n)  t == SubSeq(body, n + 1, Len(body))
<1>5. Len(body) = k /\ n \in Nat /\ m \in Nat /\ n + m = k
  <2>1. Len(body) = k
    BY TupleFacts
  <2> QED BY <2>1
<1>6. CutOf(s, body, 1, n)
  <2>1. 1 \in Nat /\ 1 <= 1 /\ n <= k /\ 1 <= n + 1 /\ n - 1 + 1 = n
    BY <1>5
  <2>2. CutOf(SubSeq(body, 1, n), body, 1, n - 1 + 1)
    BY <1>5, <2>1, TupleCut
  <2> QED BY <2>1, <2>2
<1>7. CutOf(t, body, n + 1, m)
  <2> DEFINE l == n + 1
  <2>1. l \in Nat /\ 1 <= l /\ k <= k /\ l <= k + 1 /\ k - l + 1 = m
    BY <1>5
  <2> HIDE DEF l
  <2>2. CutOf(SubSeq(body, l, k), body, l, k - l + 1)
    BY <1>5, <2>1, TupleCut
  <2> QED BY <1>5, <2>1, <2>2 DEF l
<1> HIDE DEF s, t
<1> DEFINE u == s \o t
<1>8. Tuple(s, n) /\ Tuple(t, m)
  BY <1>6, <1>7 DEF CutOf
<1>9. Chained(u, s, n, t, m)
  BY <1>5, <1>8, TupleJoin
<1> HIDE DEF u
<1>10. ASSUME NEW i \in 1 .. k PROVE u[i] = body[i]
  <2>1. CASE i \in 1 .. n
    <3>1. u[i] = s[i] /\ s[i] = body[1 + i - 1] /\ 1 + i - 1 = i
      BY <1>6, <1>9, <2>1 DEF Chained, CutOf
    <3> QED BY <3>1
  <2>2. CASE i > n
    <3> DEFINE j == i - n
    <3>1. j \in 1 .. m /\ u[i] = t[j]
      BY <1>5, <1>9, <2>2 DEF Chained
    <3>2. n + 1 + j - 1 = i
      BY <1>5
    <3> HIDE DEF j
    <3>3. t[j] = body[n + 1 + j - 1]
      BY <1>7, <3>1 DEF CutOf
    <3> QED BY <3>1, <3>2, <3>3
  <2> QED BY <1>5, <2>1, <2>2
<1>11. Tuple(u, k)
  BY <1>5, <1>9 DEF Chained
<1>12. u = body
  BY <1>10, <1>11, TupleSame
<1> QED BY <1>8, <1>12 DEF u, s, t, Halves

\* What Encrypt returns of k bytes of text.
Sealed(a, key, nonce, aad, text, k) ==
  /\ Whole(a.cipher) /\ a.cipher.key = key /\ Tuple(a.body, k)
  /\ \A i \in 1 .. k : a.body[i] = Xor(text[i], TextPad(key, nonce, i))
  /\ a.tag = TagOf(PadOf(key, nonce, 0), aad, a.body)

\* AEADChaCha20Poly1305::Encrypt
LEMMA AeadEncryptFacts ==
  ASSUME NEW c, Whole(c), NEW f \in 0 .. WordMod - 1, NEW rr, NEW aad,
         NEW n \in Nat, NEW m \in Nat, NEW s, NEW t, NEW text, Halves(s, t, text, n, m),
         NEW k, k = n + m
  PROVE  Sealed(AeadEncrypt(c, s, t, aad, <<f, rr>>), c.key, <<f, rr>>, aad, text, k)
<1> DEFINE nonce == <<f, rr>>  a == AeadEncrypt(c, s, t, aad, nonce)
           b == Seek(c, nonce, 1)
           one == Crypt(b, s)  two == Crypt(one.cipher, t)
           d == one.cipher  e == two.cipher  x == one.out  y == two.out  body == x \o y
           g == Seek(e, nonce, 0)
           tag == ComputeTag(g, aad, body)
<1>0. Tuple(s, n) /\ Tuple(t, m) /\ s \o t = text
  BY DEF Halves
<1>1. a.cipher = tag.cipher /\ a.body = body /\ a.tag = tag.tag
  BY DEF AeadEncrypt
<1>2. 0 \in 0 .. WordMod - 1 /\ 1 \in 0 .. WordMod - 1
  BY Sizes
<1>3. Whole(b) /\ b.key = c.key /\ b.second = rr /\ At(b) = Place(f, 1, 0)
  BY <1>2, SeekFacts
<1> HIDE DEF a, b, tag
<1>4. Crypted(b, n, s, d, x)
  BY <1>0, <1>3, CryptDoes
<1> HIDE DEF one
<1>5. Whole(d)
  BY <1>4 DEF Crypted, Streamed
<1>6. Crypted(d, m, t, e, y)
  BY <1>0, <1>5, CryptDoes
<1> HIDE DEF two, d, e, x, y
<1> DEFINE u == s \o t
<1>7. Crypted(b, k, u, e, body) /\ k \in Nat
  <2>1. Crypted(b, n + m, u, e, body)
    BY <1>0, <1>3, <1>4, <1>6, CryptJoin
  <2> QED BY <2>1
<1> HIDE DEF body, u
<1>8. /\ Whole(e) /\ e.key = c.key /\ Tuple(body, k)
      /\ \A i \in 1 .. k : body[i] = Xor(u[i], TextPad(c.key, <<f, rr>>, i))
  BY <1>3, <1>7, TextFacts
<1>9. Whole(g) /\ g.key = c.key /\ g.second = rr /\ At(g) = Place(f, 0, 0)
  BY <1>2, <1>8, SeekFacts
<1> HIDE DEF g
<1>10. /\ Whole(tag.cipher) /\ tag.cipher.key = c.key
       /\ tag.tag = TagOf(PadOf(c.key, <<f, rr>>, 0), aad, body)
  BY <1>9, ComputeTagFacts DEF tag
<1>11. u = text
  BY <1>0 DEF u
<1> DEFINE pad == <<f, rr>>
<1> HIDE DEF pad
<1>12. Sealed(a, c.key, pad, aad, text, k)
  BY <1>1, <1>8, <1>10, <1>11 DEF Sealed, pad
<1> QED BY <1>12 DEF a, pad

\* What Decrypt returns of k bytes.
Opened(a, key, nonce, aad, body, tag, k) ==
  /\ Whole(a.cipher) /\ a.cipher.key = key /\ a.ok \in BOOLEAN
  /\ a.ok <=> TagOf(PadOf(key, nonce, 0), aad, body) = tag
  /\ a.ok => /\ Tuple(a.plain, k)
             /\ \A i \in 1 .. k : a.plain[i] = Xor(body[i], TextPad(key, nonce, i))

\* AEADChaCha20Poly1305::Decrypt
LEMMA AeadDecryptFacts ==
  ASSUME NEW c, Whole(c), NEW f \in 0 .. WordMod - 1, NEW rr, NEW aad, NEW tag,
         NEW k \in Nat, NEW body, Tuple(body, k), NEW n \in 0 .. k
  PROVE  Opened(AeadDecrypt(c, body, tag, n, aad, <<f, rr>>), c.key, <<f, rr>>, aad, body, tag, k)
<1> DEFINE nonce == <<f, rr>>  a == AeadDecrypt(c, body, tag, n, aad, nonce)
           b == Seek(c, nonce, 0)
           made == ComputeTag(b, aad, body)
           g == made.cipher
           s == SubSeq(body, 1, n)  t == SubSeq(body, n + 1, Len(body))
           one == Crypt(g, s)  two == Crypt(one.cipher, t)
           d == one.cipher  e == two.cipher  x == one.out  y == two.out  plain == x \o y
<1>1. a = IF made.tag # tag THEN [cipher |-> g, ok |-> FALSE, plain |-> << >>]
          ELSE [cipher |-> e, ok |-> TRUE, plain |-> plain]
  BY DEF AeadDecrypt
<1>2. 0 \in 0 .. WordMod - 1 /\ 1 \in 0 .. WordMod - 1
  BY Sizes
<1>3. Whole(b) /\ b.key = c.key /\ b.second = rr /\ At(b) = Place(f, 0, 0)
  BY <1>2, SeekFacts
<1> HIDE DEF a, b
<1>4. /\ Whole(g) /\ g.key = c.key /\ g.second = rr /\ At(g) = Place(f, 1, 0)
      /\ made.tag = TagOf(PadOf(c.key, <<f, rr>>, 0), aad, body)
  BY <1>3, ComputeTagFacts
<1> HIDE DEF made
<1> DEFINE m == k - n
<1>5. Len(body) = k /\ n \in Nat /\ m \in Nat /\ n + m = k
  <2>1. Len(body) = k
    BY TupleFacts
  <2> QED BY <2>1
<1>8. Tuple(s, n) /\ Tuple(t, m) /\ s \o t = body
  <2>1. m = k - n
    OBVIOUS
  <2> HIDE DEF m
  <2>2. Halves(s, t, body, n, m)
    BY <2>1, CutJoins
  <2> QED BY <2>2 DEF Halves
<1> HIDE DEF s, t
<1>9. Crypted(g, k, body, e, plain)
  <2> HIDE DEF g, m
  <2>2. Crypted(g, n, s, d, x)
    BY <1>4, <1>5, <1>8, CryptDoes
  <2> HIDE DEF one
  <2>3. Whole(d)
    BY <2>2 DEF Crypted, Streamed
  <2>4. Crypted(d, m, t, e, y)
    BY <1>5, <1>8, <2>3, CryptDoes
  <2> HIDE DEF two, d, e, x, y
  <2>5. Crypted(g, n + m, s \o t, e, x \o y)
    BY <1>4, <1>5, <1>8, <2>2, <2>4, CryptJoin
  <2> QED BY <1>5, <1>8, <2>5
<1> HIDE DEF g, e, plain, d, x, y
<1>10. /\ Whole(e) /\ e.key = c.key /\ Tuple(plain, k)
       /\ \A i \in 1 .. k : plain[i] = Xor(body[i], TextPad(c.key, <<f, rr>>, i))
  BY <1>4, <1>9, TextFacts
<1> DEFINE at == <<f, rr>>
<1> HIDE DEF at
<1>11. CASE made.tag # tag
  <2>1. a.cipher = g /\ a.ok = FALSE
    BY <1>1, <1>11
  <2>2. Opened(a, c.key, at, aad, body, tag, k)
    BY <1>4, <1>11, <2>1 DEF Opened, at
  <2> QED BY <2>2 DEF a, at
<1>12. CASE made.tag = tag
  <2>1. a.cipher = e /\ a.ok = TRUE /\ a.plain = plain
    BY <1>1, <1>12
  <2>2. Opened(a, c.key, at, aad, body, tag, k)
    BY <1>4, <1>10, <1>12, <2>1 DEF Opened, at
  <2> QED BY <2>2 DEF a, at
<1> QED BY <1>11, <1>12

\* FSChaCha20Poly1305::NextPacket: the key of the next interval is drawn from
\* the old one.
LEMMA NextPacketFacts ==
  ASSUME NEW p, NEW n, Sound(p, n), Whole(p.cipher)
  PROVE  LET q == NextPacket(p)
         IN  \/ /\ p.packets + 1 # p.interval
                /\ q.cipher = p.cipher /\ q.packets = p.packets + 1 /\ q.rekeys = p.rekeys
             \/ /\ p.packets + 1 = p.interval
                /\ Whole(q.cipher) /\ q.cipher.key = PadOf(p.cipher.key, RekeyNonce(p), 1)
                /\ q.packets = 0 /\ q.rekeys = p.rekeys + 1
<1> DEFINE nonce == RekeyNonce(p)  b == Seek(p.cipher, nonce, 1)
           pad == Keystream(b, BlockLen)
           fresh == SetKey(SubSeq(pad.out, 1, KeyLen))
           q == NextPacket(p)
<1>0. WordMod \in Nat /\ 1 \in 0 .. WordMod - 1 /\ WordMod - 1 \in 0 .. WordMod - 1
  BY Sizes
<1>1. (p.packets + 1) % WordMod = p.packets + 1
  BY <1>0 DEF Sound
<1>2. p = [cipher |-> p.cipher, packets |-> p.packets, rekeys |-> p.rekeys, interval |-> p.interval]
  BY DEF Sound
<1>3. AeadKeystream(p.cipher, nonce, BlockLen) = pad
  BY DEF AeadKeystream
<1>4. CASE p.packets + 1 # p.interval
  <2>1. q = [p EXCEPT !.packets = p.packets + 1]
    BY <1>1, <1>4 DEF NextPacket
  <2> QED BY <1>2, <1>4, <2>1
<1>5. CASE p.packets + 1 = p.interval
  <2>1. q = [p EXCEPT !.cipher = fresh, !.packets = 0, !.rekeys = p.rekeys + 1]
    BY <1>1, <1>3, <1>5 DEF NextPacket
  <2>2. Whole(b) /\ b.key = p.cipher.key /\ b.second = p.rekeys /\ At(b) = Place(WordMod - 1, 1, 0)
    BY <1>0, SeekFacts DEF RekeyNonce
  <2> HIDE DEF b
  <2>3. SubSeq(pad.out, 1, KeyLen) = PadOf(p.cipher.key, <<WordMod - 1, p.rekeys>>, 1)
    BY <1>0, <2>2, BlockDrawn
  <2>4. Whole(fresh) /\ fresh.key = PadOf(p.cipher.key, nonce, 1)
    BY <2>3, SetKeyFacts DEF RekeyNonce
  <2> HIDE DEF fresh, nonce
  <2>5. q.cipher = fresh /\ q.packets = 0 /\ q.rekeys = p.rekeys + 1
    BY <1>2, <2>1
  <2> QED BY <1>5, <2>4, <2>5 DEF q, nonce
<1> QED BY <1>4, <1>5
-----------------------------------------------------------------------------
(* Poly1305 (crypto/poly1305.cpp): whatever pieces poly1305_update met, the*)
(* blocks it absorbed are those of the pieces one after another.           *)

\* b is a whole block of the bytes of s behind place o.
BlockAt(b, s, o) ==
  /\ b = [bytes |-> b.bytes, hibit |-> TRUE]
  /\ Tuple(b.bytes, TagLen)
  /\ \A j \in 1 .. TagLen : b.bytes[j] = s[o + j]

\* The object has absorbed the first a blocks of s.
Absorbed(st, key, s, a) ==
  /\ st = [key |-> key, absorbed |-> st.absorbed, leftover |-> st.leftover, final |-> FALSE]
  /\ Tuple(st.absorbed, a)
  /\ \A i \in 1 .. a : BlockAt(st.absorbed[i], s, (i - 1) * TagLen)

\* The object has met the n bytes of s.
Met(st, key, s, n) ==
  /\ Tuple(s, n)
  /\ Absorbed(st, key, s, n \div TagLen)
  /\ Tuple(st.leftover, n % TagLen)
  /\ \A j \in 1 .. n % TagLen : st.leftover[j] = s[(n \div TagLen) * TagLen + j]

\* poly1305_blocks absorbs the blocks that come next.
LEMMA AbsorbMore ==
  ASSUME NEW st, NEW key, NEW s, NEW a \in Nat, Absorbed(st, key, s, a),
         NEW w \in Nat, NEW m, Tuple(m, w * TagLen),
         \A j \in 1 .. w * TagLen : s[a * TagLen + j] = m[j]
  PROVE  Absorbed(Blocks(st, m), key, s, a + w) /\ Blocks(st, m).leftover = st.leftover
<1> DEFINE T == TagLen  n == w * TagLen
           new == [i \in 1 .. w |-> [bytes |-> SubSeq(m, ((i - 1) * T) + 1, i * T), hibit |-> TRUE]]
           old == st.absorbed  all == old \o new  d == Blocks(st, m)
<1>1. T \in Nat /\ T > 1
  BY TagAssumption
<1>2. n \in Nat /\ Len(m) = n /\ n \div T = w
  <2>1. n \in Nat
    BY <1>1
  <2>2. n = w * T + 0 /\ 0 < T
    BY <1>1
  <2>3. n \div T = w
    BY <1>1, <2>2, OneRemainder
  <2> HIDE DEF n
  <2>4. Len(m) = n
    BY <2>1, TupleFacts DEF n
  <2> QED BY <2>1, <2>3, <2>4
<1> HIDE DEF n
<1>3. /\ st = [key |-> key, absorbed |-> old, leftover |-> st.leftover, final |-> FALSE]
      /\ Tuple(old, a) /\ \A i \in 1 .. a : BlockAt(old[i], s, (i - 1) * T)
      /\ Tuple(m, n) /\ \A j \in 1 .. n : s[a * T + j] = m[j]
  BY DEF Absorbed, n
<1>4. d = [st EXCEPT !.absorbed = all]
  <2>1. st.final = FALSE
    BY <1>3
  <2>2. (~st.final) = TRUE
    BY <2>1
  <2>3. d = [st EXCEPT !.absorbed = old \o [i \in 1 .. w |->
              [bytes |-> SubSeq(m, ((i - 1) * T) + 1, i * T), hibit |-> ~st.final]]]
    BY <1>2 DEF Blocks
  <2> QED BY <2>2, <2>3
<1>5. Tuple(new, w)
  BY DEF Tuple
<1>6. Chained(all, old, a, new, w)
  <2> HIDE DEF old, new
  <2> QED BY <1>3, <1>5, TupleJoin
<1> HIDE DEF all, new, old, d
<1>7. d = [key |-> key, absorbed |-> all, leftover |-> st.leftover, final |-> FALSE]
  <2> DEFINE l == st.leftover
  <2>1. st = [key |-> key, absorbed |-> old, leftover |-> l, final |-> FALSE]
    BY <1>3
  <2> HIDE DEF l
  <2>2. d = [key |-> key, absorbed |-> all, leftover |-> l, final |-> FALSE]
    BY <1>4, <2>1
  <2> QED BY <2>2 DEF l
<1>8. ASSUME NEW i \in 1 .. w
      PROVE  BlockAt(new[i], s, (a + i - 1) * T)
  <2> DEFINE o == (i - 1) * T  e == i * T  x == SubSeq(m, o + 1, e)
  <2>1. o \in Nat /\ e = o + T /\ e <= n
    <3>1. (i - 1) * T \in Nat /\ (w - i) * T \in Nat
      BY <1>1
    <3>2. i * T = (i - 1) * T + T /\ (w - i) * T = w * T - i * T
      BY <1>1
    <3>3. w * T \in Nat /\ i * T \in Nat
      BY <1>1
    <3> QED BY <3>1, <3>2, <3>3 DEF n
  <2>2. new[i] = [bytes |-> x, hibit |-> TRUE]
    BY DEF new
  <2>3. a * T \in Nat /\ (a + i - 1) * T = a * T + o
    BY <1>1
  <2> HIDE DEF o, e
  <2>4. CutOf(x, m, o + 1, T)
    <3> DEFINE k == o + 1
    <3>1. k \in Nat /\ 1 <= k /\ e \in Nat /\ k <= e + 1 /\ e - k + 1 = T
      BY <1>1, <2>1
    <3> HIDE DEF k
    <3>2. CutOf(SubSeq(m, k, e), m, k, e - k + 1)
      BY <1>2, <1>3, <2>1, <3>1, TupleCut
    <3> QED BY <3>1, <3>2 DEF k
  <2> HIDE DEF x
  <2> DEFINE q == a * T
  <2>5. ASSUME NEW j \in 1 .. T PROVE x[j] = s[q + o + j]
    <3> DEFINE k == o + j
    <3>1. k \in 1 .. n /\ o + 1 + j - 1 = k
      BY <1>1, <1>2, <2>1
    <3>2. q + o + j = q + k
      BY <1>1, <2>1, <2>3
    <3> HIDE DEF k, q
    <3>3. x[j] = m[o + 1 + j - 1]
      BY <2>4 DEF CutOf
    <3> QED BY <1>3, <3>1, <3>2, <3>3 DEF q
  <2>6. Tuple(x, T)
    BY <2>4 DEF CutOf
  <2>7. new[i].bytes = x
    BY <2>2
  <2> QED BY <2>2, <2>3, <2>5, <2>6, <2>7 DEF BlockAt
<1>9. ASSUME NEW i \in 1 .. a + w
      PROVE  BlockAt(all[i], s, (i - 1) * T)
  <2>1. CASE i \in 1 .. a
    BY <1>3, <1>6, <2>1 DEF Chained
  <2>2. CASE i > a
    <3> DEFINE j == i - a
    <3>1. j \in 1 .. w /\ all[i] = new[j] /\ a + j - 1 = i - 1
      BY <1>6, <2>2 DEF Chained
    <3> HIDE DEF j
    <3>2. BlockAt(new[j], s, (a + j - 1) * T)
      BY <1>8, <3>1
    <3> QED BY <3>1, <3>2
  <2> QED BY <2>1, <2>2
<1>10. Tuple(all, a + w) /\ d.absorbed = all /\ d.leftover = st.leftover
  BY <1>6, <1>7 DEF Chained
<1> QED BY <1>7, <1>9, <1>10 DEF Absorbed, d

\* What is absorbed of a text is absorbed of one that goes on.
LEMMA AbsorbedOf ==
  ASSUME NEW st, NEW key, NEW s, NEW a \in Nat, Absorbed(st, key, s, a), NEW n \in Nat, a * TagLen <= n,
         NEW u, \A i \in 1 .. n : u[i] = s[i]
  PROVE  Absorbed(st, key, u, a)
<1>1. TagLen \in Nat /\ TagLen > 1
  BY TagAssumption
<1>2. ASSUME NEW i \in 1 .. a PROVE BlockAt(st.absorbed[i], u, (i - 1) * TagLen)
  <2> DEFINE o == (i - 1) * TagLen  b == st.absorbed[i]
  <2>1. o \in Nat /\ o + TagLen <= n
    <3>1. (i - 1) * TagLen \in Nat /\ (a - i) * TagLen \in Nat
      BY <1>1
    <3>2. (a - i) * TagLen = a * TagLen - (i - 1) * TagLen - TagLen
      BY <1>1
    <3>3. a * TagLen \in Nat
      BY <1>1
    <3> QED BY <1>1, <3>1, <3>2, <3>3
  <2> HIDE DEF o
  <2>2. BlockAt(b, s, o)
    BY DEF Absorbed, o
  <2>3. \A j \in 1 .. TagLen : o + j \in 1 .. n
    BY <1>1, <2>1
  <2> HIDE DEF b
  <2>4. BlockAt(b, u, o)
    BY <2>2, <2>3 DEF BlockAt
  <2> QED BY <2>4 DEF b, o
<1> QED BY <1>2 DEF Absorbed

\* The two ends of poly1305_update.
LEMMA UpdateHolds ==
  ASSUME NEW st, NEW m, Len(m) \in Nat, NEW want \in Nat, want = Want(st, m),
         NEW x, x = st.leftover \o SubSeq(m, 1, want), Len(x) \in 1 .. TagLen - 1
  PROVE  PolyUpdate(st, m) = Hold(st, x)
<1>1. PolyUpdate(st, m) = Take(st, m, want)
  BY DEF PolyUpdate
<1>2. Take(st, m, want) = Hold(st, x)
  BY TagAssumption DEF Take
<1> QED BY <1>1, <1>2

\* A call of poly1305_update that takes want bytes into x, the open block:
\* the whole blocks behind them, and the bytes it keeps.
Closes(st, m, want, x, e, piece, tail) ==
  /\ Len(m) \in Nat /\ want \in Nat /\ want = Want(st, m)
  /\ x = st.leftover \o SubSeq(m, 1, want) /\ Len(x) \notin 1 .. TagLen - 1
  /\ e = want + (((Len(m) - want) \div TagLen) * TagLen)
  /\ piece = SubSeq(m, want + 1, e) /\ tail = SubSeq(m, e + 1, Len(m))

\* poly1305_update then absorbs the open block and the whole blocks of m.
LEMMA UpdateAbsorbs ==
  ASSUME NEW st, NEW m, NEW want, NEW x, NEW e, NEW piece, NEW tail,
         Closes(st, m, want, x, e, piece, tail)
  PROVE  PolyUpdate(st, m) = Hold(Blocks(Blocks(st, x), piece), tail)
<1>0. /\ Len(m) \in Nat /\ want \in Nat /\ want = Want(st, m)
      /\ x = st.leftover \o SubSeq(m, 1, want) /\ Len(x) \notin 1 .. TagLen - 1
      /\ e = want + (((Len(m) - want) \div TagLen) * TagLen)
      /\ piece = SubSeq(m, want + 1, e) /\ tail = SubSeq(m, e + 1, Len(m))
  BY DEF Closes
<1>1. PolyUpdate(st, m) = Take(st, m, want)
  BY <1>0 DEF PolyUpdate
<1> DEFINE w == ((Len(m) - want) \div TagLen) * TagLen
<1>2. Take(st, m, want) = Hold(Blocks(Blocks(st, x), SubSeq(m, want + 1, want + w)),
                               SubSeq(m, want + w + 1, Len(m)))
  BY <1>0, TagAssumption DEF Take
<1>3. e = want + w
  BY <1>0
<1> HIDE DEF w
<1> QED BY <1>0, <1>1, <1>2, <1>3

\* What is held open is not absorbed.
LEMMA HoldFacts ==
  ASSUME NEW st, NEW key, NEW s, NEW a, Absorbed(st, key, s, a), NEW x
  PROVE  Absorbed(Hold(st, x), key, s, a) /\ Hold(st, x).leftover = x
<1> DEFINE y == st.absorbed  l == st.leftover  d == Hold(st, x)
<1>1. st = [key |-> key, absorbed |-> y, leftover |-> l, final |-> FALSE]
  BY DEF Absorbed
<1>2. d = [st EXCEPT !.leftover = x]
  BY DEF Hold
<1> HIDE DEF y, l, d
<1>3. d = [key |-> key, absorbed |-> y, leftover |-> x, final |-> FALSE]
  BY <1>1, <1>2
<1>4. d.absorbed = y /\ d.leftover = x
  BY <1>3
<1> QED BY <1>3, <1>4 DEF Absorbed, d, y

\* poly1305_update with a piece that leaves the open block open.
LEMMA MetLittle ==
  ASSUME NEW st, NEW key, NEW s, NEW n \in Nat, Met(st, key, s, n), NEW k \in Nat, NEW m, Tuple(m, k),
         n % TagLen > 0, (n % TagLen) + k < TagLen
  PROVE  Met(PolyUpdate(st, m), key, s \o m, n + k)
<1> DEFINE T == TagLen  a == n \div T  rr == n % T  old == st.leftover  u == s \o m  d == PolyUpdate(st, m)
           head == SubSeq(m, 1, k)  filled == old \o head
<1>1. T \in Nat /\ T > 1 /\ a \in Nat /\ rr \in 0 .. T - 1 /\ n = a * T + rr /\ a * T \in Nat
  <2>1. T \in Nat /\ T > 1
    BY TagAssumption
  <2>2. n \div T \in Nat /\ n % T \in 0 .. T - 1 /\ n = (n \div T) * T + (n % T)
    BY <2>1
  <2>3. (n \div T) * T \in Nat
    BY <2>1, <2>2
  <2> QED BY <2>1, <2>2, <2>3
<1>2. /\ Tuple(s, n) /\ Absorbed(st, key, s, a) /\ Tuple(old, rr)
      /\ \A j \in 1 .. rr : old[j] = s[a * T + j]
      /\ rr > 0 /\ rr + k < T
  BY DEF Met
<1> HIDE DEF a, rr
<1>3. Len(m) = k /\ Len(old) = rr
  <2>1. Len(m) = k
    BY TupleFacts
  <2> HIDE DEF old
  <2>2. rr \in Nat
    BY <1>1
  <2>3. Len(old) = rr
    BY <1>2, <2>2, TupleFacts
  <2> QED BY <2>1, <2>3
<1>4. old # << >> /\ Tuple(head, k) /\ \A j \in 1 .. k : head[j] = m[j]
  <2>1. old # << >>
    BY <1>2, <1>3
  <2>2. 1 \in Nat /\ 1 <= 1 /\ k <= k /\ 1 <= k + 1 /\ k - 1 + 1 = k
    OBVIOUS
  <2>3. CutOf(head, m, 1, k - 1 + 1)
    BY <2>2, TupleCut
  <2> HIDE DEF head
  <2>4. CutOf(head, m, 1, k)
    BY <2>2, <2>3
  <2>5. \A j \in 1 .. k : 1 + j - 1 = j
    OBVIOUS
  <2> QED BY <2>1, <2>4, <2>5 DEF CutOf
<1> HIDE DEF head
<1>5. Chained(filled, old, rr, head, k) /\ Chained(u, s, n, m, k)
  <2> HIDE DEF old
  <2>1. rr \in Nat
    BY <1>1
  <2> QED BY <1>2, <1>4, <2>1, TupleJoin
<1> HIDE DEF filled, u
<1>6. Len(filled) = rr + k
  <2>1. Tuple(filled, rr + k) /\ rr + k \in Nat
    BY <1>1, <1>5 DEF Chained
  <2> QED BY <2>1, TupleFacts
<1>7. d = Hold(st, filled)
  <2>1. T - rr > k /\ rr + k \in 1 .. T - 1
    BY <1>1, <1>2
  <2>2. Want(st, m) = k
    BY <1>3, <1>4, <2>1 DEF Want
  <2>3. filled = old \o SubSeq(m, 1, Want(st, m))
    BY <2>2 DEF filled, head
  <2> QED BY <1>3, <1>6, <2>1, <2>2, <2>3, UpdateHolds
<1> HIDE DEF d
<1>9. Absorbed(d, key, u, a) /\ d.leftover = filled
  <2>1. a * TagLen <= n /\ \A i \in 1 .. n : u[i] = s[i]
    BY <1>1, <1>5 DEF Chained
  <2>2. Absorbed(st, key, u, a)
    BY <1>1, <1>2, <2>1, AbsorbedOf
  <2> QED BY <1>7, <2>2, HoldFacts
<1>10. ASSUME NEW j \in 1 .. rr + k PROVE filled[j] = u[a * T + j]
  <2> DEFINE o == a * T
  <2>1. CASE j \in 1 .. rr
    <3>1. o + j \in 1 .. n
      BY <1>1, <2>1
    <3> QED BY <1>2, <1>5, <2>1, <3>1 DEF Chained
  <2>2. CASE j > rr
    <3> DEFINE i == j - rr
    <3>1. i \in 1 .. k /\ filled[j] = head[i]
      BY <1>5, <2>2 DEF Chained
    <3>2. o + j \in 1 .. n + k /\ o + j > n /\ (o + j) - n = i
      BY <1>1, <2>2
    <3> HIDE DEF o, i
    <3>3. u[o + j] = m[(o + j) - n]
      BY <1>5, <3>2 DEF Chained
    <3> QED BY <1>4, <3>1, <3>2, <3>3 DEF o
  <2> QED BY <1>1, <2>1, <2>2
<1>11. (n + k) \div T = a /\ (n + k) % T = rr + k
  <2> DEFINE x == rr + k
  <2>1. n + k = a * T + x /\ x \in Nat /\ x < T /\ a \in Int /\ 0 <= x /\ T \in Nat
    BY <1>1, <1>2
  <2> HIDE DEF x
  <2>2. (a * T + x) % T = x /\ (a * T + x) \div T = a
    BY <2>1, OneRemainder
  <2> QED BY <2>1, <2>2 DEF x
<1> DEFINE N == n + k
<1>12. Tuple(u, N) /\ Tuple(filled, rr + k) /\ d.leftover = filled
  BY <1>5, <1>9 DEF Chained
<1>13. N \div TagLen = a /\ N % TagLen = rr + k
  BY <1>11
<1> HIDE DEF N
<1>14. Met(d, key, u, N)
  BY <1>9, <1>10, <1>12, <1>13 DEF Met
<1> QED BY <1>14 DEF d, u, N

\* poly1305_update with a piece that closes the open block, or finds none.
LEMMA MetMuch ==
  ASSUME NEW st, NEW key, NEW s, NEW n \in Nat, Met(st, key, s, n), NEW k \in Nat, NEW m, Tuple(m, k),
         n % TagLen = 0 \/ (n % TagLen) + k >= TagLen
  PROVE  Met(PolyUpdate(st, m), key, s \o m, n + k)
<1> DEFINE T == TagLen  a == n \div T  rr == n % T  old == st.leftover  u == s \o m  d == PolyUpdate(st, m)
           want == Want(st, m)  head == SubSeq(m, 1, want)  filled == old \o head
           v == IF rr = 0 THEN 0 ELSE 1
           w == (k - want) \div T  rest == (k - want) % T
           len == w * T  e == want + len
           piece == SubSeq(m, want + 1, e)  tail == SubSeq(m, e + 1, k)
<1>1. T \in Nat /\ T > 1 /\ a \in Nat /\ rr \in 0 .. T - 1 /\ n = a * T + rr /\ a * T \in Nat
  <2>1. T \in Nat /\ T > 1
    BY TagAssumption
  <2>2. n \div T \in Nat /\ n % T \in 0 .. T - 1 /\ n = (n \div T) * T + (n % T)
    BY <2>1
  <2>3. (n \div T) * T \in Nat
    BY <2>1, <2>2
  <2> QED BY <2>1, <2>2, <2>3
<1>2. /\ Tuple(s, n) /\ Absorbed(st, key, s, a) /\ Tuple(old, rr)
      /\ \A j \in 1 .. rr : old[j] = s[a * T + j]
      /\ rr = 0 \/ rr + k >= T
  BY DEF Met
<1> HIDE DEF a, rr
<1>3. Len(m) = k /\ Len(old) = rr
  <2>1. Len(m) = k
    BY TupleFacts
  <2> HIDE DEF old
  <2>2. rr \in Nat
    BY <1>1
  <2>3. Len(old) = rr
    BY <1>2, <2>2, TupleFacts
  <2> QED BY <2>1, <2>3
<1>4. want = (IF rr = 0 THEN 0 ELSE T - rr) /\ want \in 0 .. k
  <2>1. old = << >> <=> rr = 0
    <3>1. rr = 0 => old = << >>
      BY <1>2 DEF Tuple
    <3> QED BY <1>3, <3>1
  <2>2. CASE rr = 0
    BY <2>1, <2>2 DEF Want
  <2>3. CASE rr # 0
    <3>1. ~(T - rr > k)
      BY <1>1, <1>2, <2>3
    <3>2. want = T - rr
      BY <1>3, <2>1, <2>3, <3>1 DEF Want
    <3> QED BY <1>1, <2>3, <3>1, <3>2
  <2> QED BY <2>2, <2>3
<1> HIDE DEF want
<1>5. /\ v \in Nat /\ v * T \in Nat /\ rr + want = v * T /\ v * T \in {0, T}
      /\ (a + v) * T = a * T + v * T
  BY <1>1, <1>4
<1> HIDE DEF v
<1>6. /\ w \in Nat /\ rest \in 0 .. T - 1 /\ len \in Nat /\ k - want = len + rest
      /\ (a + v + w) * T = a * T + v * T + len
  <2> DEFINE x == k - want
  <2>1. x \in Nat
    BY <1>4
  <2> HIDE DEF x
  <2>2. x \div T \in Nat /\ x % T \in 0 .. T - 1 /\ x = (x \div T) * T + (x % T)
    BY <1>1, <2>1
  <2>3. w \in Nat /\ rest \in 0 .. T - 1 /\ x = w * T + rest
    BY <2>2 DEF x
  <2> HIDE DEF w, rest
  <2>4. w * T \in Nat /\ (a + v + w) * T = a * T + v * T + w * T
    BY <1>1, <1>5, <2>3
  <2> QED BY <2>3, <2>4 DEF x
<1> HIDE DEF w, rest, len
<1>7. e \in Nat /\ want \in Nat /\ e = want + len /\ e + rest = k
  BY <1>4, <1>6
<1> HIDE DEF e
<1>8. /\ Tuple(head, want) /\ \A j \in 1 .. want : head[j] = m[j]
      /\ Tuple(piece, len) /\ \A j \in 1 .. len : piece[j] = m[want + j]
      /\ Tuple(tail, rest) /\ \A j \in 1 .. rest : tail[j] = m[e + j]
  <2>1. CutOf(head, m, 1, want)
    <3>1. 1 \in Nat /\ 1 <= 1 /\ want <= k /\ 1 <= want + 1 /\ want - 1 + 1 = want /\ want \in Nat
      BY <1>4
    <3>2. CutOf(SubSeq(m, 1, want), m, 1, want - 1 + 1)
      BY <3>1, TupleCut
    <3> QED BY <3>1, <3>2
  <2>2. CutOf(piece, m, want + 1, len)
    <3> DEFINE l == want + 1
    <3>1. l \in Nat /\ 1 <= l /\ e <= k /\ l <= e + 1 /\ e - l + 1 = len /\ e \in Nat
      BY <1>6, <1>7
    <3> HIDE DEF l
    <3>2. CutOf(SubSeq(m, l, e), m, l, e - l + 1)
      BY <3>1, TupleCut
    <3> QED BY <3>1, <3>2 DEF l
  <2>3. CutOf(tail, m, e + 1, rest)
    <3> DEFINE l == e + 1
    <3>1. l \in Nat /\ 1 <= l /\ k <= k /\ l <= k + 1 /\ k - l + 1 = rest
      BY <1>6, <1>7
    <3> HIDE DEF l
    <3>2. CutOf(SubSeq(m, l, k), m, l, k - l + 1)
      BY <3>1, TupleCut
    <3> QED BY <3>1, <3>2 DEF l
  <2> HIDE DEF head, piece, tail
  <2>4. \A j \in Int : 1 + j - 1 = j /\ want + 1 + j - 1 = want + j /\ e + 1 + j - 1 = e + j
    BY <1>7
  <2> QED BY <2>1, <2>2, <2>3, <2>4 DEF CutOf
<1> HIDE DEF head, piece, tail
<1>9. Chained(filled, old, rr, head, want) /\ Chained(u, s, n, m, k)
  <2> HIDE DEF old
  <2>1. rr \in Nat /\ want \in Nat
    BY <1>1, <1>4
  <2> QED BY <1>2, <1>8, <2>1, TupleJoin
<1> HIDE DEF filled, u
<1>10. Tuple(filled, v * T) /\ Len(filled) = v * T /\ Len(filled) \notin 1 .. TagLen - 1
  <2> DEFINE x == v * T
  <2>1. Tuple(filled, x) /\ x \in Nat /\ x \notin 1 .. TagLen - 1
    BY <1>1, <1>5, <1>9 DEF Chained
  <2> HIDE DEF x
  <2>2. Len(filled) = x
    BY <2>1, TupleFacts
  <2> QED BY <2>1, <2>2 DEF x
<1> DEFINE one == Blocks(st, filled)  two == Blocks(one, piece)
<1>11. d = Hold(two, tail)
  <2>1. filled = st.leftover \o SubSeq(m, 1, want) /\ e = want + (((Len(m) - want) \div TagLen) * TagLen)
    BY <1>3 DEF filled, head, e, len, w
  <2>2. Len(m) \in Nat /\ want \in Nat /\ want = Want(st, m) /\ Len(filled) \notin 1 .. TagLen - 1
    BY <1>3, <1>7, <1>10 DEF want
  <2>3. piece = SubSeq(m, want + 1, e) /\ tail = SubSeq(m, e + 1, Len(m))
    BY <1>3 DEF piece, tail
  <2>4. Closes(st, m, want, filled, e, piece, tail)
    BY <2>1, <2>2, <2>3 DEF Closes
  <2> QED BY <2>4, UpdateAbsorbs
<1> HIDE DEF d
<1>12. \A j \in 1 .. k : u[n + j] = m[j]
  <2>1. ASSUME NEW j \in 1 .. k PROVE u[n + j] = m[j]
    <3> DEFINE i == n + j
    <3>1. i \in 1 .. n + k /\ i > n /\ i - n = j
      OBVIOUS
    <3> HIDE DEF i
    <3> QED BY <1>9, <3>1 DEF Chained, i
  <2> QED BY <2>1
<1>13. Absorbed(st, key, u, a)
  <2>1. a * TagLen <= n /\ \A i \in 1 .. n : u[i] = s[i]
    BY <1>1, <1>9 DEF Chained
  <2> QED BY <1>1, <1>2, <2>1, AbsorbedOf
<1>14. Absorbed(one, key, u, a + v)
  <2>1. ASSUME NEW j \in 1 .. v * T PROVE u[a * T + j] = filled[j]
    <3> DEFINE o == a * T
    <3>1. o \in Nat /\ o + rr = n /\ rr + want = v * T /\ rr \in Nat /\ want \in Nat /\ want <= k
      BY <1>1, <1>4, <1>5
    <3>2. CASE j \in 1 .. rr
      <4>1. o + j \in 1 .. n
        BY <3>1, <3>2
      <4> QED BY <1>2, <1>9, <3>2, <4>1 DEF Chained
    <3>3. CASE j > rr
      <4> DEFINE i == j - rr
      <4>1. i \in 1 .. want /\ i \in 1 .. k /\ j \in 1 .. rr + want
        BY <3>1, <3>3
      <4>2. filled[j] = head[i]
        BY <1>9, <3>3, <4>1 DEF Chained
      <4>3. o + j = n + i
        BY <3>1
      <4> HIDE DEF o, i
      <4>4. u[n + i] = m[i] /\ head[i] = m[i]
        BY <1>8, <1>12, <4>1
      <4> QED BY <4>2, <4>3, <4>4 DEF o
    <3> QED BY <3>1, <3>2, <3>3
  <2> QED BY <1>1, <1>5, <1>10, <1>13, <2>1, AbsorbMore
<1> HIDE DEF one
<1>15. Absorbed(two, key, u, a + v + w)
  <2> DEFINE b == a + v
  <2>1. b \in Nat /\ b * T = n + want /\ n + want \in Nat
    BY <1>1, <1>5, <1>7
  <2>2. ASSUME NEW j \in 1 .. len PROVE u[n + want + j] = piece[j]
    <3> DEFINE i == want + j
    <3>1. i \in 1 .. k /\ n + want + j = n + i
      BY <1>6, <1>7
    <3> HIDE DEF i
    <3>2. u[n + i] = m[i]
      BY <1>12, <3>1
    <3> QED BY <1>8, <3>1, <3>2 DEF i
  <2>3. Tuple(piece, w * TagLen) /\ \A j \in 1 .. w * TagLen : u[b * TagLen + j] = piece[j]
    BY <1>8, <2>1, <2>2 DEF len
  <2>4. Absorbed(one, key, u, b)
    BY <1>14
  <2> HIDE DEF b
  <2>5. Absorbed(Blocks(one, piece), key, u, b + w)
    BY <1>6, <2>1, <2>3, <2>4, AbsorbMore
  <2> QED BY <2>5 DEF b
<1> HIDE DEF two
<1> DEFINE c == a + v + w  N == n + k
<1>16. c \in Nat /\ N = c * T + rest /\ c * T = n + e
  BY <1>1, <1>5, <1>6, <1>7
<1>17. Absorbed(d, key, u, c) /\ d.leftover = tail
  BY <1>11, <1>15, HoldFacts
<1>18. ASSUME NEW j \in 1 .. rest PROVE tail[j] = u[c * T + j]
  <2> DEFINE i == e + j
  <2>1. i \in 1 .. k /\ c * T + j = n + i
    BY <1>6, <1>7, <1>16
  <2> HIDE DEF i, c
  <2>2. u[n + i] = m[i]
    BY <1>12, <2>1
  <2> QED BY <1>8, <2>1, <2>2 DEF i
<1> HIDE DEF c
<1>19. N \div TagLen = c /\ N % TagLen = rest
  <2>1. c \in Int /\ rest \in Nat /\ 0 <= rest /\ rest < T /\ T \in Nat
    BY <1>1, <1>6, <1>16
  <2>2. (c * T + rest) % T = rest /\ (c * T + rest) \div T = c
    BY <2>1, OneRemainder
  <2> QED BY <1>16, <2>2
<1>20. Tuple(u, N)
  BY <1>9 DEF Chained
<1> HIDE DEF N
<1>21. Met(d, key, u, N)
  BY <1>8, <1>17, <1>18, <1>19, <1>20 DEF Met
<1> QED BY <1>21 DEF d, u, N

\* poly1305_update goes on where the pieces before it end.
LEMMA MetMore ==
  ASSUME NEW st, NEW key, NEW s, NEW n \in Nat, Met(st, key, s, n), NEW k \in Nat, NEW m, Tuple(m, k)
  PROVE  Met(PolyUpdate(st, m), key, s \o m, n + k)
<1>1. n % TagLen \in Nat /\ TagLen \in Nat
  BY TagAssumption
<1>2. \/ n % TagLen > 0 /\ (n % TagLen) + k < TagLen
      \/ n % TagLen = 0 \/ (n % TagLen) + k >= TagLen
  BY <1>1
<1> QED BY <1>2, MetLittle, MetMuch
-----------------------------------------------------------------------------
(* The padding of ComputeTag (crypto/cc20poly1305.cpp): the bytes that a   *)
(* tag is computed over fill whole blocks.                                 *)

\* The zeros of Padding(n).
PadLen(n) == (TagLen - (n % TagLen)) % TagLen

\* They fill the last block.
LEMMA PadFacts ==
  ASSUME NEW n \in Nat
  PROVE  /\ PadLen(n) \in Nat /\ Tuple(Padding(n), PadLen(n))
         /\ \E q \in Nat : n + PadLen(n) = q * TagLen
<1> DEFINE T == TagLen  q == n \div T  rr == n % T
<1>1. T \in Nat /\ T > 1
  BY TagAssumption
<1>2. q \in Nat /\ rr \in 0 .. T - 1 /\ n = q * T + rr
  BY <1>1
<1>3. Padding(n) = [i \in 1 .. PadLen(n) |-> {}]
  BY DEF Padding, Zeros, PadLen
<1> HIDE DEF q
<1>4. CASE rr = 0
  <2>1. T = 1 * T + 0 /\ 1 \in Int /\ 0 \in Int /\ 0 < T
    BY <1>1
  <2>2. T % T = 0
    BY <1>1, <2>1, OneRemainder
  <2>3. PadLen(n) = 0
    BY <1>1, <1>4, <2>2 DEF PadLen
  <2>4. n + PadLen(n) = q * T
    BY <1>1, <1>2, <1>4, <2>3
  <2> QED BY <1>2, <1>3, <2>3, <2>4 DEF Tuple
<1>5. CASE rr > 0
  <2> DEFINE k == T - rr
  <2>1. k \in 0 .. T - 1 /\ k \in Int /\ 0 \in Int
    BY <1>1, <1>2, <1>5
  <2> HIDE DEF k
  <2>2. k % T = k
    BY <1>1, <2>1, SumRemainder
  <2>3. PadLen(n) = k
    BY <2>2 DEF PadLen, k
  <2>4. q + 1 \in Nat /\ (q + 1) * T = q * T + T /\ q * T \in Nat
    BY <1>1, <1>2
  <2>5. n + PadLen(n) = (q + 1) * T
    BY <1>1, <1>2, <2>1, <2>3, <2>4 DEF k
  <2>6. Tuple(Padding(n), PadLen(n)) /\ PadLen(n) \in Nat
    BY <1>3, <2>1, <2>3 DEF Tuple
  <2> QED BY <2>4, <2>5, <2>6
<1> QED BY <1>2, <1>4, <1>5

\* poly1305 with key has absorbed the w blocks of s.
Bound(tag, key, s, w) ==
  /\ tag = [key |-> key, absorbed |-> tag.absorbed]
  /\ Tuple(s, w * TagLen) /\ Tuple(tag.absorbed, w)
  /\ \A i \in 1 .. w : BlockAt(tag.absorbed[i], s, (i - 1) * TagLen)

\* The bytes absorbed can be told from the tag.
LEMMA BoundOnce ==
  ASSUME NEW tag, NEW key, NEW s, NEW w \in Nat, Bound(tag, key, s, w),
         NEW u, NEW v \in Nat, Bound(tag, key, u, v)
  PROVE  w = v /\ \A i \in 1 .. w * TagLen : s[i] = u[i]
<1> DEFINE T == TagLen  x == tag.absorbed
<1>1. T \in Nat /\ T > 1
  BY TagAssumption
<1>2. Tuple(x, w) /\ Tuple(x, v)
  BY DEF Bound
<1> HIDE DEF x
<1>3. w = v
  <2>1. Len(x) = w
    BY <1>2, TupleFacts
  <2>2. Len(x) = v
    BY <1>2, TupleFacts
  <2> QED BY <2>1, <2>2
<1>4. ASSUME NEW i \in 1 .. w * T PROVE s[i] = u[i]
  <2> DEFINE k == i - 1  b == k \div T  j == k % T  n == w * T
  <2>1. k \in Nat /\ n \in Nat /\ k < n
    BY <1>1
  <2>2. b \in Nat /\ j \in 0 .. T - 1 /\ k = b * T + j
    <3> HIDE DEF k
    <3> QED BY <1>1, <2>1
  <2> HIDE DEF b, j
  <2>3. b < w
    <3>1. CASE b >= w
      <4>1. (b - w) * T \in Nat /\ (b - w) * T = b * T - w * T /\ b * T \in Nat
        BY <1>1, <2>2, <3>1
      <4> QED BY <2>1, <2>2, <4>1
    <3> QED BY <2>2, <3>1
  <2> DEFINE a == b + 1  l == j + 1  o == b * T
  <2>4. a \in 1 .. w /\ l \in 1 .. T /\ (a - 1) * T = o /\ i = o + l
    BY <1>1, <2>1, <2>2, <2>3
  <2> HIDE DEF a, l, o
  <2>5. BlockAt(x[a], s, o) /\ BlockAt(x[a], u, o)
    BY <1>3, <2>4 DEF Bound, x
  <2>6. x[a].bytes[l] = s[o + l] /\ x[a].bytes[l] = u[o + l]
    <3> DEFINE y == x[a]
    <3>1. BlockAt(y, s, o) /\ BlockAt(y, u, o)
      BY <2>5
    <3> HIDE DEF y
    <3>2. y.bytes[l] = s[o + l] /\ y.bytes[l] = u[o + l]
      BY <2>4, <3>1 DEF BlockAt
    <3> QED BY <3>2 DEF y
  <2> QED BY <2>4, <2>6
<1> QED BY <1>3, <1>4

\* The text of a tag: where it has the associated data, the body and their
\* lengths, when behind the padding of each are a and e bytes.
Laid(s, aad, la, body, lb, a, e) ==
  /\ a = la + PadLen(la) /\ e = a + lb + PadLen(lb)
  /\ \A i \in 1 .. la : s[i] = aad[i]
  /\ \A i \in 1 .. lb : s[a + i] = body[i]
  /\ s[e + 1] = NumByte(la) /\ s[e + 2] = NumByte(lb)

\* A new object has met nothing.
LEMMA InitMet ==
  ASSUME NEW key
  PROVE  Met(PolyInit(key), key, << >>, 0)
<1> DEFINE st == PolyInit(key)
<1>1. /\ st = [key |-> key, absorbed |-> << >>, leftover |-> << >>, final |-> FALSE]
      /\ st.absorbed = << >> /\ st.leftover = << >>
  BY DEF PolyInit
<1>2. 0 \div TagLen = 0 /\ 0 % TagLen = 0 /\ 1 .. 0 = {} /\ Tuple(<< >>, 0)
  <2>1. TagLen \in Nat /\ TagLen > 1 /\ 0 = 0 * TagLen + 0
    BY TagAssumption
  <2>2. (0 * TagLen + 0) % TagLen = 0 /\ (0 * TagLen + 0) \div TagLen = 0
    BY <2>1, OneRemainder
  <2> QED BY <2>1, <2>2 DEF Tuple
<1> HIDE DEF st
<1>3. Absorbed(st, key, << >>, 0)
  BY <1>1, <1>2 DEF Absorbed
<1>4. Met(st, key, << >>, 0)
  BY <1>1, <1>2, <1>3 DEF Met
<1> QED BY <1>4 DEF st

\* poly1305_finish of whole blocks.
LEMMA FinishFacts ==
  ASSUME NEW st, NEW key, NEW s, NEW w \in Nat, NEW n, n = w * TagLen, Met(st, key, s, n)
  PROVE  Bound(PolyFinish(st), key, s, w)
<1>1. n \div TagLen = w /\ n % TagLen = 0
  <2>1. TagLen \in Nat /\ TagLen > 1 /\ n = w * TagLen + 0
    BY TagAssumption
  <2>2. (w * TagLen + 0) % TagLen = 0 /\ (w * TagLen + 0) \div TagLen = w
    BY <2>1, OneRemainder
  <2> QED BY <2>1, <2>2
<1>2. Tuple(s, n) /\ Absorbed(st, key, s, w) /\ Tuple(st.leftover, 0)
  BY <1>1 DEF Met
<1>3. st.leftover = << >>
  BY <1>2 DEF Tuple
<1> DEFINE x == st.absorbed  tag == PolyFinish(st)
<1>4. st.key = key /\ st.absorbed = x
  BY <1>2 DEF Absorbed
<1>5. tag = [key |-> key, absorbed |-> x]
  BY <1>3, <1>4 DEF PolyFinish
<1> HIDE DEF tag
<1>6. tag.absorbed = x
  BY <1>5
<1>7. Tuple(x, w) /\ \A i \in 1 .. w : BlockAt(x[i], s, (i - 1) * TagLen)
  BY <1>2 DEF Absorbed
<1> HIDE DEF x
<1> QED BY <1>2, <1>5, <1>6, <1>7 DEF Bound, tag
-----------------------------------------------------------------------------
(* A tag binds its key, the associated data and the text.                  *)

\* u is the text s and then the text t.
Grown(u, s, n, t, k) ==
  /\ \A i \in 1 .. n : u[i] = s[i]
  /\ \A i \in 1 .. k : u[n + i] = t[i]

\* A text that goes on keeps what it has.
LEMMA TextGrows ==
  ASSUME NEW s, NEW n \in Nat, Tuple(s, n), NEW t, NEW k \in Nat, Tuple(t, k)
  PROVE  Grown(s \o t, s, n, t, k)
<1> DEFINE u == s \o t
<1>1. Chained(u, s, n, t, k)
  BY TupleJoin
<1> HIDE DEF u
<1>2. ASSUME NEW i \in 1 .. k PROVE u[n + i] = t[i]
  <2> DEFINE j == n + i
  <2>1. j \in 1 .. n + k /\ j > n /\ j - n = i
    OBVIOUS
  <2> HIDE DEF j
  <2> QED BY <1>1, <2>1 DEF Chained, j
<1>3. Grown(u, s, n, t, k)
  BY <1>1, <1>2 DEF Chained, Grown
<1> QED BY <1>3 DEF u

\* ComputeTag absorbs the padded associated data, the padded body and their
\* lengths, in whole blocks.
LEMMA TagFacts ==
  ASSUME NEW key, NEW aad, NEW la \in Nat, Tuple(aad, la), NEW body, NEW lb \in Nat, Tuple(body, lb)
  PROVE  \E s, a, e : \E w \in Nat :
           /\ Bound(TagOf(key, aad, body), key, s, w)
           /\ Laid(s, aad, la, body, lb, a, e) /\ a \in Nat /\ e \in Nat /\ e + TagLen = w * TagLen
<1> DEFINE T == TagLen  pa == PadLen(la)  pb == PadLen(lb)
           a == la + pa  b == a + lb  e == b + pb  n == e + T
           p1 == Padding(la)  p2 == Padding(lb)  desc == LengthDesc(aad, body)
           s1 == << >> \o aad  s2 == s1 \o p1  s3 == s2 \o body  s4 == s3 \o p2  s5 == s4 \o desc
           st0 == PolyInit(key)  st1 == PolyUpdate(st0, aad)  st2 == PolyUpdate(st1, p1)
           st3 == PolyUpdate(st2, body)  st4 == PolyUpdate(st3, p2)  st5 == PolyUpdate(st4, desc)
<1>1. T \in Nat /\ T > 1
  BY TagAssumption
<1>2. Len(aad) = la /\ Len(body) = lb
  BY TupleFacts
<1>3. TagOf(key, aad, body) = PolyFinish(st5)
  BY <1>2 DEF TagOf
<1>4. /\ pa \in Nat /\ Tuple(p1, pa) /\ \E q \in Nat : la + pa = q * T
      /\ pb \in Nat /\ Tuple(p2, pb) /\ \E q \in Nat : lb + pb = q * T
  BY PadFacts
<1>5. PICK qa \in Nat, qb \in Nat : la + pa = qa * T /\ lb + pb = qb * T
  BY <1>4
<1> HIDE DEF pa, pb, p1, p2
<1>6. a \in Nat /\ b \in Nat /\ e \in Nat /\ n \in Nat
  BY <1>1, <1>4
<1>7. Tuple(desc, T) /\ desc[1] = NumByte(la) /\ desc[2] = NumByte(lb)
  <2> DEFINE x == NumByte(la)  y == NumByte(lb)  hd == <<x, y>>  z == Zeros(T - 2)  k == T - 2
  <2>1. Tuple(hd, 2) /\ hd[1] = x /\ hd[2] = y
    BY DEF Tuple
  <2>2. k \in Nat /\ Tuple(z, k)
    BY <1>1 DEF Zeros, Tuple
  <2>3. desc = hd \o z
    BY <1>2 DEF LengthDesc
  <2> HIDE DEF x, y, hd, z, k
  <2>4. Chained(hd \o z, hd, 2, z, k)
    BY <2>1, <2>2, TupleJoin
  <2>5. 2 + k = T /\ 1 \in 1 .. 2 /\ 2 \in 1 .. 2
    BY <1>1 DEF k
  <2> HIDE DEF desc
  <2>6. Tuple(desc, T) /\ desc[1] = hd[1] /\ desc[2] = hd[2]
    BY <2>3, <2>4, <2>5 DEF Chained
  <2> QED BY <2>1, <2>6 DEF x, y
<1> HIDE DEF desc
<1> DEFINE w == qa + qb + 1
<1>8. w \in Nat /\ n = w * T
  <2>1. qa * T \in Nat /\ qb * T \in Nat /\ w * T = qa * T + qb * T + T
    BY <1>1
  <2> QED BY <1>1, <1>4, <1>5, <2>1
<1> HIDE DEF w
<1>9. Met(st0, key, << >>, 0)
  BY InitMet
<1> HIDE DEF st0
<1>10. Met(st1, key, s1, la)
  <2>1. Met(st1, key, s1, 0 + la)
    BY <1>9, MetMore
  <2> QED BY <2>1
<1>11. Tuple(s1, la)
  BY <1>10 DEF Met
<1>12. \A i \in 1 .. la : s1[i] = aad[i]
  <2>1. Tuple(<< >>, 0)
    BY <1>9 DEF Met
  <2>2. Grown(s1, << >>, 0, aad, la)
    BY <2>1, TextGrows
  <2> HIDE DEF s1
  <2> QED BY <2>2 DEF Grown
<1> HIDE DEF st1, s1
<1>13. Met(st2, key, s2, a)
  BY <1>4, <1>10, MetMore
<1>14. \A i \in 1 .. la : s2[i] = s1[i]
  <2>1. Grown(s2, s1, la, p1, pa)
    BY <1>4, <1>11, TextGrows
  <2> HIDE DEF s2
  <2> QED BY <2>1 DEF Grown
<1> HIDE DEF st2, s2, a
<1>15. Met(st3, key, s3, b)
  BY <1>6, <1>13, MetMore
<1>16. /\ Tuple(s2, a) /\ \A i \in 1 .. a : s3[i] = s2[i]
       /\ \A i \in 1 .. lb : s3[a + i] = body[i]
  <2>1. Tuple(s2, a)
    BY <1>13 DEF Met
  <2>2. Grown(s3, s2, a, body, lb)
    BY <1>6, <2>1, TextGrows
  <2> HIDE DEF s3
  <2> QED BY <2>1, <2>2 DEF Grown
<1> HIDE DEF st3, s3, b
<1>17. Met(st4, key, s4, e)
  BY <1>4, <1>6, <1>15, MetMore
<1>18. \A i \in 1 .. b : s4[i] = s3[i]
  <2>1. Tuple(s3, b)
    BY <1>15 DEF Met
  <2>2. Grown(s4, s3, b, p2, pb)
    BY <1>4, <1>6, <2>1, TextGrows
  <2> HIDE DEF s4
  <2> QED BY <2>2 DEF Grown
<1> HIDE DEF st4, s4, e
<1>19. Met(st5, key, s5, n)
  BY <1>1, <1>6, <1>7, <1>17, MetMore
<1>20. /\ \A i \in 1 .. e : s5[i] = s4[i]
       /\ \A i \in 1 .. T : s5[e + i] = desc[i]
  <2>1. Tuple(s4, e)
    BY <1>17 DEF Met
  <2>2. Grown(s5, s4, e, desc, T)
    BY <1>1, <1>6, <1>7, <2>1, TextGrows
  <2> HIDE DEF s5
  <2> QED BY <2>2 DEF Grown
<1> HIDE DEF st5, s5, n
<1>21. Bound(TagOf(key, aad, body), key, s5, w)
  BY <1>3, <1>8, <1>19, FinishFacts
<1>22. ASSUME NEW i \in 1 .. la PROVE s5[i] = aad[i]
  <2>1. i \in 1 .. a /\ i \in 1 .. b /\ i \in 1 .. e
    BY <1>4 DEF a, b, e
  <2> QED BY <1>12, <1>14, <1>16, <1>18, <1>20, <2>1
<1>23. ASSUME NEW i \in 1 .. lb PROVE s5[a + i] = body[i]
  <2> DEFINE j == a + i
  <2>1. j \in 1 .. b /\ j \in 1 .. e
    BY <1>4, <1>6 DEF b, e
  <2>2. s3[j] = body[i]
    BY <1>16
  <2> HIDE DEF j
  <2>3. s5[j] = s3[j]
    BY <1>18, <1>20, <2>1
  <2> QED BY <2>2, <2>3 DEF j
<1>24. s5[e + 1] = NumByte(la) /\ s5[e + 2] = NumByte(lb)
  BY <1>1, <1>7, <1>20
<1>25. a = la + PadLen(la) /\ e = a + lb + PadLen(lb)
  BY DEF a, b, e, pa, pb
<1>26. Laid(s5, aad, la, body, lb, a, e)
  BY <1>22, <1>23, <1>24, <1>25 DEF Laid
<1>27. e + TagLen = w * TagLen
  BY <1>8 DEF n
<1> QED BY <1>6, <1>8, <1>21, <1>26, <1>27

\* A length is told by its byte.
LEMMA NumByteOnce ==
  ASSUME NEW n, NEW m, NumByte(n) = NumByte(m)
  PROVE  n = m
<1>1. CASE n = 0 /\ m = 0
  BY <1>1
<1>2. CASE n # 0 /\ m # 0
  <2>1. <<n>> \in {<<m>>}
    BY <1>2 DEF NumByte
  <2>2. <<n>>[1] = <<m>>[1]
    BY <2>1
  <2> QED BY <2>2
<1>3. CASE (n = 0) # (m = 0)
  BY <1>3 DEF NumByte
<1> QED BY <1>1, <1>2, <1>3

\* A tag binds the associated data and the body, and where one ends and the
\* other begins.
LEMMA TagBinds ==
  ASSUME NEW key, NEW aad, NEW la \in Nat, Tuple(aad, la), NEW body, NEW lb \in Nat, Tuple(body, lb),
         NEW aad2, NEW la2 \in Nat, Tuple(aad2, la2), NEW body2, NEW lb2 \in Nat, Tuple(body2, lb2),
         TagOf(key, aad, body) = TagOf(key, aad2, body2)
  PROVE  aad = aad2 /\ body = body2
<1> DEFINE tag == TagOf(key, aad, body)
<1>0. TagLen \in Nat /\ TagLen > 1
  BY TagAssumption
<1>1. PICK s, a, e : \E w \in Nat :
        /\ Bound(tag, key, s, w)
        /\ Laid(s, aad, la, body, lb, a, e) /\ a \in Nat /\ e \in Nat /\ e + TagLen = w * TagLen
  BY TagFacts
<1>2. PICK w \in Nat :
        /\ Bound(tag, key, s, w)
        /\ Laid(s, aad, la, body, lb, a, e) /\ a \in Nat /\ e \in Nat /\ e + TagLen = w * TagLen
  BY <1>1
<1>3. PICK u, c, d : \E v \in Nat :
        /\ Bound(tag, key, u, v)
        /\ Laid(u, aad2, la2, body2, lb2, c, d) /\ c \in Nat /\ d \in Nat /\ d + TagLen = v * TagLen
  BY TagFacts
<1>4. PICK v \in Nat :
        /\ Bound(tag, key, u, v)
        /\ Laid(u, aad2, la2, body2, lb2, c, d) /\ c \in Nat /\ d \in Nat /\ d + TagLen = v * TagLen
  BY <1>3
<1> HIDE DEF tag
<1> DEFINE n == w * TagLen
<1>5. w = v /\ \A i \in 1 .. n : s[i] = u[i]
  BY <1>2, <1>4, BoundOnce
<1>6. n = e + TagLen /\ n = d + TagLen
  BY <1>2, <1>4, <1>5
<1> HIDE DEF n
<1>7. e = d /\ e + 1 \in 1 .. n /\ e + 2 \in 1 .. n
  BY <1>0, <1>2, <1>4, <1>6
<1>8. la = la2 /\ lb = lb2
  <2>1. NumByte(la) = NumByte(la2) /\ NumByte(lb) = NumByte(lb2)
    BY <1>2, <1>4, <1>5, <1>7 DEF Laid
  <2> QED BY <2>1, NumByteOnce
<1>9. /\ a = la + PadLen(la) /\ e = a + lb + PadLen(lb) /\ c = a
      /\ PadLen(la) \in Nat /\ PadLen(lb) \in Nat
  BY <1>2, <1>4, <1>8, PadFacts DEF Laid
<1>10. ASSUME NEW i \in 1 .. la PROVE aad[i] = aad2[i]
  <2>1. i \in 1 .. n
    BY <1>0, <1>2, <1>6, <1>9
  <2> QED BY <1>2, <1>4, <1>5, <1>8, <2>1 DEF Laid
<1>11. ASSUME NEW i \in 1 .. lb PROVE body[i] = body2[i]
  <2>1. a + i \in 1 .. n
    BY <1>0, <1>2, <1>6, <1>9
  <2>2. s[a + i] = u[a + i]
    BY <1>5, <2>1
  <2>3. s[a + i] = body[i] /\ u[c + i] = body2[i]
    BY <1>2, <1>4, <1>8 DEF Laid
  <2> QED BY <1>9, <2>2, <2>3
<1> QED BY <1>8, <1>10, <1>11, TupleSame
-----------------------------------------------------------------------------
(* The invariant of two objects of FSChaCha20Poly1305 that work on one     *)
(* stream of packets: the keys drawn so far, and the packets made of them. *)

\* The keys up to rekey r, each drawn from the one before.
KeyChain(K, rr) ==
  /\ K = [i \in 0 .. rr |-> K[i]]
  /\ K[0] = FirstKey
  /\ \A i \in 0 .. rr - 1 : K[i + 1] = PadOf(K[i], <<WordMod - 1, i>>, 1)

\* e is packet n, encrypted under a key and a nonce.
Made(e, n, key, nonce) ==
  \E shape \in Shapes :
    /\ Tuple(e.body, shape[1] + shape[2])
    /\ e = [plain |-> [i \in 1 .. shape[1] + shape[2] |-> {<<n, i>>}], aad |-> Zeros(shape[3]),
            body |-> e.body, tag |-> TagOf(PadOf(key, nonce, 0), Zeros(shape[3]), e.body)]
    /\ \A i \in 1 .. shape[1] + shape[2] : e.body[i] = Xor({<<n, i>>}, TextPad(key, nonce, i))

\* Each packet sent is encrypted under the key and the nonce of its number.
Issued(K) ==
  \A n \in 1 .. Len(sent) :
    \E rr \in 0 .. sender.rekeys, f \in 0 .. sender.interval - 1 :
      rr * sender.interval + f = n - 1 /\ Made(sent[n], n, K[rr], <<f, rr>>)

\* The ends have the keys of their intervals, under which the packets were made.
Keyed ==
  \E K : /\ KeyChain(K, sender.rekeys) /\ Issued(K)
         /\ sender.cipher.key = K[sender.rekeys] /\ receiver.cipher.key = K[receiver.rekeys]

\* The inductive invariant.
Faithful ==
  /\ Stepping
  /\ sender.interval \in Intervals /\ Len(sent) <= MaxPackets /\ Len(got) <= Len(sent)
  /\ Whole(sender.cipher) /\ Whole(receiver.cipher)
  /\ Keyed /\ WholeIsRead

\* q is p one packet on.
Advanced(p, n, q) ==
  /\ Sound(q, n + 1) /\ q.interval = p.interval /\ Whole(q.cipher)
  /\ \/ q.rekeys = p.rekeys /\ q.cipher.key = p.cipher.key
     \/ q.rekeys = p.rekeys + 1 /\ q.cipher.key = PadOf(p.cipher.key, <<WordMod - 1, p.rekeys>>, 1)

\* Encrypt and Decrypt end with NextPacket.
LEMMA Advance ==
  ASSUME NEW p, NEW n \in Nat, Sound(p, n), NEW c, Whole(c), c.key = p.cipher.key,
         NEW q, q = NextPacket([p EXCEPT !.cipher = c])
  PROVE  Advanced(p, n, q)
<1> DEFINE o == [p EXCEPT !.cipher = c]
<1>1. o.cipher = c /\ o.packets = p.packets /\ o.rekeys = p.rekeys /\ o.interval = p.interval
  <2>1. p = [cipher |-> p.cipher, packets |-> p.packets, rekeys |-> p.rekeys, interval |-> p.interval]
    BY DEF Sound
  <2>2. o = [cipher |-> c, packets |-> p.packets, rekeys |-> p.rekeys, interval |-> p.interval]
    BY <2>1
  <2> QED BY <2>2
<1>2. Sound(o, n)
  BY CipherMoves
<1> HIDE DEF o
<1>3. Sound(q, n + 1) /\ q.interval = p.interval
  BY <1>1, <1>2, NextPacketCounts DEF o
<1>4. q = NextPacket(o)
  BY DEF o
<1>5. \/ /\ o.packets + 1 # o.interval
         /\ q.cipher = o.cipher /\ q.packets = o.packets + 1 /\ q.rekeys = o.rekeys
      \/ /\ o.packets + 1 = o.interval
         /\ Whole(q.cipher) /\ q.cipher.key = PadOf(o.cipher.key, RekeyNonce(o), 1)
         /\ q.packets = 0 /\ q.rekeys = o.rekeys + 1
  BY <1>1, <1>2, <1>4, NextPacketFacts
<1>6. RekeyNonce(o) = <<WordMod - 1, p.rekeys>>
  BY <1>1 DEF RekeyNonce
<1> QED BY <1>1, <1>3, <1>5, <1>6 DEF Advanced

\* What FSChaCha20Poly1305::Encrypt appends is a packet of the sender's key and
\* nonce.
LEMMA EncryptMakes ==
  ASSUME Faithful, NEW shape \in Shapes, Encrypt(shape)
  PROVE  \E c, e : /\ Whole(c) /\ c.key = sender.cipher.key
                   /\ sender' = NextPacket([sender EXCEPT !.cipher = c])
                   /\ sent' = Append(sent, e)
                   /\ Made(e, Len(sent) + 1, sender.cipher.key, <<sender.packets, sender.rekeys>>)
<1> DEFINE N == Len(sent) + 1  n == shape[1]  m == shape[2]  k == n + m
           plain == [i \in 1 .. k |-> {<<N, i>>}]  aad == Zeros(shape[3])
           s == SubSeq(plain, 1, n)  t == SubSeq(plain, n + 1, Len(plain))
           f == sender.packets  rr == sender.rekeys  key == sender.cipher.key
           c == sender.cipher
           a == AeadEncrypt(c, s, t, aad, <<f, rr>>)
           e == [plain |-> plain, aad |-> aad, body |-> a.body, tag |-> a.tag]
<1>1. n \in Nat /\ m \in Nat /\ k \in Nat /\ n \in 0 .. k /\ k - n = m
  BY FSAssumption
<1>2. sender' = NextPacket([sender EXCEPT !.cipher = a.cipher]) /\ sent' = Append(sent, e)
  BY DEF Encrypt, PacketNonce
<1>3. f \in 0 .. WordMod - 1 /\ Whole(sender.cipher)
  BY Sizes DEF Faithful, Stepping, Sound
<1>4. Tuple(plain, k) /\ \A i \in 1 .. k : plain[i] = {<<N, i>>}
  BY DEF Tuple
<1> HIDE DEF N, n, m, k, plain, aad, f, rr
<1>5. Halves(s, t, plain, n, m)
  BY <1>1, <1>4, CutJoins
<1>9. key = c.key /\ k = n + m
  BY DEF k
<1> HIDE DEF s, t, c, key
<1>6. Sealed(a, c.key, <<f, rr>>, aad, plain, k)
  <2>1. Whole(c)
    BY <1>3 DEF c
  <2> QED BY <1>1, <1>3, <1>5, <1>9, <2>1, AeadEncryptFacts
<1> HIDE DEF a, e
<1>7. e = [plain |-> plain, aad |-> aad, body |-> a.body, tag |-> a.tag] /\ e.body = a.body
  BY DEF e
<1>8. Made(e, N, key, <<f, rr>>)
  <2>1. Tuple(e.body, k) /\ \A i \in 1 .. k : e.body[i] = Xor({<<N, i>>}, TextPad(key, <<f, rr>>, i))
    BY <1>4, <1>6, <1>7, <1>9 DEF Sealed
  <2>2. e = [plain |-> plain, aad |-> aad, body |-> e.body, tag |-> TagOf(PadOf(key, <<f, rr>>, 0), aad, e.body)]
    BY <1>6, <1>7, <1>9 DEF Sealed
  <2> DEFINE nonce == <<f, rr>>
  <2> HIDE DEF nonce, e
  <2>3. /\ Tuple(e.body, shape[1] + shape[2])
        /\ e = [plain |-> [i \in 1 .. shape[1] + shape[2] |-> {<<N, i>>}], aad |-> Zeros(shape[3]),
                body |-> e.body, tag |-> TagOf(PadOf(key, nonce, 0), Zeros(shape[3]), e.body)]
        /\ \A i \in 1 .. shape[1] + shape[2] : e.body[i] = Xor({<<N, i>>}, TextPad(key, nonce, i))
    BY <2>1, <2>2 DEF nonce, n, m, k, plain, aad
  <2>4. Made(e, N, key, nonce)
    BY <2>3 DEF Made
  <2> QED BY <2>4 DEF nonce
<1>10. Whole(a.cipher) /\ a.cipher.key = key
  BY <1>6, <1>9 DEF Sealed
<1> QED BY <1>2, <1>8, <1>10 DEF N, key, f, rr
-----------------------------------------------------------------------------
(* A packet as it comes, whole or damaged.                                 *)

\* A packet as it arrives: its text and lengths, and its tag or its bytes, are
\* those that were sent.
Arrived(q, p) ==
  /\ q = [plain |-> p.plain, aad |-> q.aad, body |-> q.body, tag |-> q.tag]
  /\ \E la \in Nat : Tuple(q.aad, la)
  /\ \E lb \in Nat : Tuple(q.body, lb)
  /\ q.tag = p.tag \/ (q.aad = p.aad /\ q.body = p.body)

\* A packet with another body, other associated data or another tag.
LEMMA ArrivedForms ==
  ASSUME NEW p, p = [plain |-> p.plain, aad |-> p.aad, body |-> p.body, tag |-> p.tag],
         NEW la \in Nat, Tuple(p.aad, la), NEW lb \in Nat, Tuple(p.body, lb)
  PROVE  /\ \A k \in Nat : \A b : Tuple(b, k) => Arrived([p EXCEPT !.body = b], p)
         /\ \A k \in Nat : \A a : Tuple(a, k) => Arrived([p EXCEPT !.aad = a], p)
         /\ \A k, l \in Nat : \A a, b : Tuple(a, k) /\ Tuple(b, l) => Arrived([p EXCEPT !.aad = a, !.body = b], p)
         /\ \A t : Arrived([p EXCEPT !.tag = t], p)
<1> DEFINE x == p.plain  y == p.aad  z == p.body  w == p.tag
<1>1. p = [plain |-> x, aad |-> y, body |-> z, tag |-> w] /\ Tuple(y, la) /\ Tuple(z, lb)
  OBVIOUS
<1>2. x = p.plain /\ y = p.aad /\ z = p.body /\ w = p.tag
  OBVIOUS
<1> HIDE DEF x, y, z, w
<1>3. ASSUME NEW q, NEW a, NEW b, NEW t, NEW k \in Nat, NEW l \in Nat, Tuple(a, k), Tuple(b, l),
             q = [plain |-> x, aad |-> a, body |-> b, tag |-> t], t = w \/ (a = y /\ b = z)
      PROVE  Arrived(q, p)
  <2>1. q.aad = a /\ q.body = b /\ q.tag = t
    BY <1>3
  <2> QED BY <1>2, <1>3, <2>1 DEF Arrived
<1>4. ASSUME NEW k \in Nat, NEW b, Tuple(b, k) PROVE Arrived([p EXCEPT !.body = b], p)
  <2>1. [p EXCEPT !.body = b] = [plain |-> x, aad |-> y, body |-> b, tag |-> w]
    BY <1>1
  <2> QED BY <1>1, <1>3, <1>4, <2>1
<1>5. ASSUME NEW k \in Nat, NEW a, Tuple(a, k) PROVE Arrived([p EXCEPT !.aad = a], p)
  <2>1. [p EXCEPT !.aad = a] = [plain |-> x, aad |-> a, body |-> z, tag |-> w]
    BY <1>1
  <2> QED BY <1>1, <1>3, <1>5, <2>1
<1>6. ASSUME NEW k \in Nat, NEW l \in Nat, NEW a, NEW b, Tuple(a, k), Tuple(b, l)
      PROVE  Arrived([p EXCEPT !.aad = a, !.body = b], p)
  <2> DEFINE o == [p EXCEPT !.aad = a]
  <2>0. o = [plain |-> x, aad |-> a, body |-> z, tag |-> w]
    BY <1>1
  <2>2. [p EXCEPT !.aad = a, !.body = b] = [o EXCEPT !.body = b]
    OBVIOUS
  <2> HIDE DEF o
  <2>3. [o EXCEPT !.body = b] = [plain |-> x, aad |-> a, body |-> b, tag |-> w]
    BY <2>0
  <2>1. [p EXCEPT !.aad = a, !.body = b] = [plain |-> x, aad |-> a, body |-> b, tag |-> w]
    BY <2>2, <2>3
  <2> QED BY <1>3, <1>6, <2>1
<1>7. ASSUME NEW t PROVE Arrived([p EXCEPT !.tag = t], p)
  <2>1. [p EXCEPT !.tag = t] = [plain |-> x, aad |-> y, body |-> z, tag |-> t]
    BY <1>1
  <2> QED BY <1>1, <1>3, <2>1
<1> QED BY <1>4, <1>5, <1>6, <1>7

\* A text with one byte changed, cut short or with one byte more is a text.
LEMMA TextForms ==
  ASSUME NEW n \in Nat, NEW s, Tuple(s, n)
  PROVE  /\ Len(s) = n /\ DOMAIN s = 1 .. n
         /\ \A x : \A i \in 1 .. n : Tuple([s EXCEPT ![i] = x], n)
         /\ n > 0 => n - 1 \in Nat /\ Tuple(SubSeq(s, 1, Len(s) - 1), n - 1)
         /\ \A x : Tuple(Append(s, x), n + 1) /\ Tuple(<<x>> \o s, n + 1)
<1>1. Len(s) = n /\ DOMAIN s = 1 .. n
  BY TupleFacts
<1>2. ASSUME NEW x, NEW i \in 1 .. n PROVE Tuple([s EXCEPT ![i] = x], n)
  BY <1>1 DEF Tuple
<1>3. ASSUME n > 0 PROVE n - 1 \in Nat /\ Tuple(SubSeq(s, 1, Len(s) - 1), n - 1)
  <2> DEFINE m == n - 1
  <2>1. m \in Nat /\ 1 \in Nat /\ 1 <= 1 /\ m <= n /\ 1 <= m + 1 /\ m - 1 + 1 = m /\ Len(s) - 1 = m
    BY <1>1, <1>3
  <2> HIDE DEF m
  <2>2. CutOf(SubSeq(s, 1, m), s, 1, m - 1 + 1)
    BY <2>1, TupleCut
  <2>3. Tuple(SubSeq(s, 1, m), m)
    BY <2>1, <2>2 DEF CutOf
  <2> QED BY <2>1, <2>3 DEF m
<1>4. ASSUME NEW x PROVE Tuple(Append(s, x), n + 1) /\ Tuple(<<x>> \o s, n + 1)
  <2> DEFINE S == {s[i] : i \in 1 .. n} \cup {x}  u == Append(s, x)  o == <<x>>
  <2>1. s \in Seq({s[i] : i \in 1 .. n}) /\ Len(s) = n
    BY TupleFacts
  <2>2. s \in Seq(S) /\ x \in S
    BY <2>1
  <2> HIDE DEF S
  <2>3. u \in Seq(S) /\ Len(u) = n + 1
    BY <2>1, <2>2, AppendProperties
  <2>4. Tuple(u, n + 1)
    BY <2>3, LenProperties DEF Tuple
  <2>5. Tuple(o, 1) /\ 1 \in Nat
    BY DEF Tuple
  <2> HIDE DEF o
  <2>6. Chained(o \o s, o, 1, s, n)
    BY <2>5, TupleJoin
  <2>7. 1 + n = n + 1
    OBVIOUS
  <2>8. Tuple(o \o s, n + 1)
    BY <2>6, <2>7 DEF Chained
  <2> QED BY <2>4, <2>8 DEF o
<1> QED BY <1>1, <1>2, <1>3, <1>4

\* The network may only damage a packet.
LEMMA DamagedArrives ==
  ASSUME NEW p, p = [plain |-> p.plain, aad |-> p.aad, body |-> p.body, tag |-> p.tag],
         NEW la \in Nat, Tuple(p.aad, la), NEW lb \in Nat, Tuple(p.body, lb),
         NEW q \in {p} \cup Damaged(p)
  PROVE  Arrived(q, p)
<1> DEFINE y == p.aad  z == p.body
<1>1. /\ \A k \in Nat : \A b : Tuple(b, k) => Arrived([p EXCEPT !.body = b], p)
      /\ \A k \in Nat : \A a : Tuple(a, k) => Arrived([p EXCEPT !.aad = a], p)
      /\ \A k, l \in Nat : \A a, b : Tuple(a, k) /\ Tuple(b, l) => Arrived([p EXCEPT !.aad = a, !.body = b], p)
      /\ \A t : Arrived([p EXCEPT !.tag = t], p)
  BY ArrivedForms
<1>2. /\ Tuple(y, la) /\ Len(y) = la /\ DOMAIN y = 1 .. la
      /\ la > 0 => la - 1 \in Nat /\ Tuple(SubSeq(y, 1, Len(y) - 1), la - 1)
      /\ \A x : Tuple(Append(y, x), la + 1)
  <2> HIDE DEF y
  <2>1. Tuple(y, la)
    BY DEF y
  <2> QED BY <2>1, TextForms
<1>3. /\ Tuple(z, lb) /\ Len(z) = lb /\ DOMAIN z = 1 .. lb
      /\ \A x : \A i \in 1 .. lb : Tuple([z EXCEPT ![i] = x], lb)
      /\ lb > 0 => lb - 1 \in Nat /\ Tuple(SubSeq(z, 1, Len(z) - 1), lb - 1)
      /\ \A x : Tuple(<<x>> \o z, lb + 1)
  <2> HIDE DEF z
  <2>1. Tuple(z, lb)
    BY DEF z
  <2> QED BY <2>1, TextForms
<1>4. CASE q = p
  <2>1. p = [p EXCEPT !.tag = p.tag]
    OBVIOUS
  <2> QED BY <1>1, <1>4, <2>1
<1>5. ASSUME NEW i \in DOMAIN p.body, q = [p EXCEPT !.body[i] = Xor(@, {<< 0 >>})]
      PROVE  Arrived(q, p)
  <2> DEFINE x == Xor(p.body[i], {<< 0 >>})
  <2>1. q = [p EXCEPT !.body = [z EXCEPT ![i] = x]]
    BY <1>5
  <2> DEFINE b == [z EXCEPT ![i] = x]
  <2>2. Tuple(b, lb)
    <3> HIDE DEF x, z
    <3> QED BY <1>3, <1>5 DEF z
  <2> HIDE DEF b
  <2>3. Arrived([p EXCEPT !.body = b], p)
    BY <1>1, <2>2
  <2> QED BY <2>1, <2>3 DEF b
<1>6. ASSUME q = [p EXCEPT !.body = SubSeq(@, 1, Len(@) - 1)], 1 \in DOMAIN p.body
      PROVE  Arrived(q, p)
  <2>1. q = [p EXCEPT !.body = SubSeq(z, 1, Len(z) - 1)]
    BY <1>6
  <2>2. lb > 0
    BY <1>3, <1>6
  <2> QED BY <1>1, <1>3, <2>1, <2>2
<1>7. ASSUME q = [p EXCEPT !.aad = Append(@, {})]
      PROVE  Arrived(q, p)
  <2>1. q = [p EXCEPT !.aad = Append(y, {})] /\ la + 1 \in Nat
    BY <1>7
  <2> QED BY <1>1, <1>2, <2>1
<1>8. ASSUME q = [p EXCEPT !.aad = SubSeq(@, 1, Len(@) - 1)], 1 \in DOMAIN p.aad
      PROVE  Arrived(q, p)
  <2>1. q = [p EXCEPT !.aad = SubSeq(y, 1, Len(y) - 1)]
    BY <1>8
  <2>2. la > 0
    BY <1>2, <1>8
  <2> QED BY <1>1, <1>2, <2>1, <2>2
<1>9. ASSUME q = [p EXCEPT !.aad = SubSeq(@, 1, Len(@) - 1), !.body = <<{}>> \o @], 1 \in DOMAIN p.aad
      PROVE  Arrived(q, p)
  <2>1. q = [p EXCEPT !.aad = SubSeq(y, 1, Len(y) - 1), !.body = <<{}>> \o z]
    BY <1>9
  <2>2. la > 0 /\ lb + 1 \in Nat
    BY <1>2, <1>9
  <2> QED BY <1>1, <1>2, <1>3, <2>1, <2>2
<1>10. ASSUME NEW o, q = [p EXCEPT !.tag = o.tag]
       PROVE  Arrived(q, p)
  BY <1>1, <1>10
<1> QED BY <1>4, <1>5, <1>6, <1>7, <1>8, <1>9, <1>10 DEF Damaged
-----------------------------------------------------------------------------
(* FSChaCha20Poly1305::Decrypt reads exactly the packets that come whole.  *)

\* What an object in step knows of its counters.
LEMMA StepFacts ==
  ASSUME Stepping
  PROVE  LET v == sender.interval
         IN  /\ WordMod \in Nat /\ v \in 1 .. WordMod - 1 /\ receiver.interval = v
             /\ Len(sent) \in Nat /\ DOMAIN sent = 1 .. Len(sent)
             /\ Len(got) \in Nat /\ DOMAIN got = 1 .. Len(got)
             /\ sender.rekeys \in Nat /\ sender.packets \in 0 .. v - 1
             /\ receiver.rekeys \in Nat /\ receiver.packets \in 0 .. v - 1
             /\ sender.rekeys * v + sender.packets = Len(sent)
             /\ receiver.rekeys * v + receiver.packets = Len(got)
<1>1. ASSUME NEW s, History(s) PROVE Len(s) \in Nat /\ DOMAIN s = 1 .. Len(s)
  <2>1. PICK S : s \in Seq(S)
    BY <1>1 DEF History
  <2> QED BY <2>1, LenProperties
<1> QED BY <1>1, Sizes DEF Stepping, Sound, Counted

\* More packets take as many rekeys at least.
LEMMA FewerRekeys ==
  ASSUME NEW rr \in Nat, NEW s \in Nat, NEW i \in Nat, NEW p \in 0 .. i - 1, NEW q \in 0 .. i - 1,
         rr * i + p <= s * i + q
  PROVE  rr <= s
<1>1. ASSUME s < rr PROVE FALSE
  <2>1. PICK d \in Nat : rr = s + 1 + d
    <3>1. rr - s - 1 \in Nat /\ rr = s + 1 + (rr - s - 1)
      BY <1>1
    <3> QED BY <3>1
  <2>2. rr * i = s * i + i + d * i
    BY <2>1
  <2>3. s * i \in Nat /\ d * i \in Nat
    OBVIOUS
  <2> QED BY <2>2, <2>3
<1> QED BY <1>1

\* The next packet the receiver meets was made under its own key and nonce.
LEMMA ReceiverKeyed ==
  ASSUME Faithful, Len(got) < Len(sent)
  PROVE  Made(sent[Len(got) + 1], Len(got) + 1, receiver.cipher.key, <<receiver.packets, receiver.rekeys>>)
<1> DEFINE v == sender.interval  N == Len(got) + 1  s == receiver.rekeys  g == receiver.packets
<1>1. /\ v \in Nat /\ N \in 1 .. Len(sent) /\ N - 1 = Len(got) /\ sender.rekeys \in Nat
      /\ s \in Nat /\ g \in 0 .. v - 1 /\ s * v + g = Len(got)
  <2>1. Stepping
    BY DEF Faithful
  <2> QED BY <2>1, StepFacts
<1>2. PICK K : Issued(K) /\ receiver.cipher.key = K[s]
  BY DEF Faithful, Keyed
<1>3. PICK rr \in 0 .. sender.rekeys, f \in 0 .. v - 1 :
        rr * v + f = N - 1 /\ Made(sent[N], N, K[rr], <<f, rr>>)
  BY <1>1, <1>2 DEF Issued
<1> HIDE DEF v, s, g, N
<1>4. rr \in Nat /\ rr * v + f = s * v + g
  BY <1>1, <1>3
<1>5. rr = s /\ f = g
  BY <1>1, <1>4, OneNonce
<1> QED BY <1>2, <1>3, <1>5 DEF s, g, N

\* FSChaCha20Poly1305::Decrypt accepts what was sent, and nothing else.
LEMMA DecryptReads ==
  ASSUME Faithful, Len(got) < Len(sent), NEW q \in {sent[Len(got) + 1]} \cup Damaged(sent[Len(got) + 1]),
         NEW n \in 0..Len(q.body), Decrypt(q, n)
  PROVE  \E c, g : /\ Whole(c) /\ c.key = receiver.cipher.key
                   /\ receiver' = NextPacket([receiver EXCEPT !.cipher = c])
                   /\ got' = Append(got, g)
                   /\ g.ok = g.whole /\ (g.ok => g.plain = sent[Len(got) + 1].plain)
<1> DEFINE N == Len(got) + 1  p == sent[N]  f == receiver.packets  rr == receiver.rekeys
           c == receiver.cipher  nonce == <<f, rr>>  pad == PadOf(c.key, nonce, 0)
           a == AeadDecrypt(c, q.body, q.tag, n, q.aad, <<f, rr>>)
           g == [ok |-> a.ok, plain |-> a.plain, whole |-> q = p]
<1>1. receiver' = NextPacket([receiver EXCEPT !.cipher = a.cipher]) /\ got' = Append(got, g)
  BY DEF Decrypt, PacketNonce
<1>2. f \in 0 .. WordMod - 1 /\ Whole(c)
  BY Sizes DEF Faithful, Stepping, Sound
<1>3. Made(p, N, c.key, nonce)
  BY ReceiverKeyed
<1>4. q \in {p} \cup Damaged(p)
  OBVIOUS
<1> HIDE DEF N, p, f, rr, c, pad, nonce
<1>5. PICK shape \in Shapes :
        /\ Tuple(p.body, shape[1] + shape[2])
        /\ p = [plain |-> [i \in 1 .. shape[1] + shape[2] |-> {<<N, i>>}], aad |-> Zeros(shape[3]),
                body |-> p.body, tag |-> TagOf(PadOf(c.key, nonce, 0), Zeros(shape[3]), p.body)]
        /\ \A i \in 1 .. shape[1] + shape[2] : p.body[i] = Xor({<<N, i>>}, TextPad(c.key, nonce, i))
  BY <1>3 DEF Made
<1> DEFINE k == shape[1] + shape[2]  l == shape[3]  plain == [i \in 1 .. k |-> {<<N, i>>}]  zeros == Zeros(l)
<1>6. k \in Nat /\ l \in Nat
  BY FSAssumption
<1>7. Tuple(zeros, l) /\ Tuple(plain, k) /\ \A i \in 1 .. k : plain[i] = {<<N, i>>}
  BY DEF Zeros, Tuple
<1>8. /\ Tuple(p.body, k)
      /\ p = [plain |-> plain, aad |-> zeros, body |-> p.body, tag |-> TagOf(pad, zeros, p.body)]
      /\ \A i \in 1 .. k : p.body[i] = Xor({<<N, i>>}, TextPad(c.key, nonce, i))
  BY <1>5 DEF pad
<1> HIDE DEF k, l, plain, zeros
<1>9. p.plain = plain /\ p.aad = zeros /\ p.tag = TagOf(pad, p.aad, p.body)
  BY <1>8
<1>10. Arrived(q, p)
  <2>1. p = [plain |-> p.plain, aad |-> p.aad, body |-> p.body, tag |-> p.tag]
    BY <1>8
  <2>2. Tuple(p.aad, l) /\ Tuple(p.body, k)
    BY <1>7, <1>8, <1>9
  <2> QED BY <1>4, <1>6, <2>1, <2>2, DamagedArrives
<1>11. PICK la \in Nat, lb \in Nat : Tuple(q.aad, la) /\ Tuple(q.body, lb)
  BY <1>10 DEF Arrived
<1>12. n \in 0 .. lb
  <2> DEFINE y == q.body
  <2>1. Tuple(y, lb) /\ n \in 0..Len(y)
    BY <1>11
  <2> HIDE DEF y
  <2>2. Len(y) = lb
    BY <2>1, TupleFacts
  <2> QED BY <2>1, <2>2
<1>13. Opened(a, c.key, nonce, q.aad, q.body, q.tag, lb)
  <2> DEFINE x == q.aad  y == q.body  z == q.tag
  <2>1. Tuple(y, lb)
    BY <1>11
  <2> HIDE DEF x, y, z
  <2>2. Opened(AeadDecrypt(c, y, z, n, x, <<f, rr>>), c.key, <<f, rr>>, x, y, z, lb)
    BY <1>2, <1>11, <1>12, <2>1, AeadDecryptFacts
  <2> QED BY <2>2 DEF x, y, z, nonce
<1> HIDE DEF a
<1>14. /\ Whole(a.cipher) /\ a.cipher.key = c.key /\ a.ok \in BOOLEAN
       /\ a.ok <=> TagOf(pad, q.aad, q.body) = q.tag
       /\ a.ok => Tuple(a.plain, lb) /\ \A i \in 1 .. lb : a.plain[i] = Xor(q.body[i], TextPad(c.key, nonce, i))
  BY <1>13 DEF Opened, pad
<1>15. a.ok <=> q = p
  <2>1. ASSUME q = p PROVE a.ok
    BY <1>9, <1>14, <2>1
  <2>2. ASSUME a.ok PROVE q = p
    <3>1. TagOf(pad, q.aad, q.body) = q.tag
      BY <1>14, <2>2
    <3>2. q.aad = p.aad /\ q.body = p.body
      <4>1. CASE q.tag = p.tag
        <5> DEFINE x == q.aad  y == q.body  u == p.aad  w == p.body
        <5>1. TagOf(pad, x, y) = TagOf(pad, u, w)
          BY <1>9, <3>1, <4>1
        <5>2. Tuple(x, la) /\ Tuple(y, lb) /\ Tuple(u, l) /\ Tuple(w, k)
          BY <1>7, <1>8, <1>9, <1>11
        <5> HIDE DEF x, y, u, w
        <5>3. x = u /\ y = w
          BY <1>6, <1>11, <5>1, <5>2, TagBinds
        <5> QED BY <5>3 DEF x, y, u, w
      <4>2. CASE q.aad = p.aad /\ q.body = p.body
        BY <4>2
      <4> QED BY <1>10, <4>1, <4>2 DEF Arrived
    <3>3. q.tag = p.tag
      BY <1>9, <3>1, <3>2
    <3>4. q = [plain |-> p.plain, aad |-> q.aad, body |-> q.body, tag |-> q.tag]
      BY <1>10 DEF Arrived
    <3>5. p = [plain |-> p.plain, aad |-> p.aad, body |-> p.body, tag |-> p.tag]
      BY <1>8, <1>9
    <3> QED BY <3>2, <3>3, <3>4, <3>5
  <2> QED BY <2>1, <2>2
<1>16. ASSUME a.ok PROVE a.plain = plain
  <2>1. q = p /\ Tuple(p.body, lb)
    BY <1>11, <1>15, <1>16
  <2>2. lb = k
    <3> DEFINE y == p.body
    <3>1. Tuple(y, lb) /\ Tuple(y, k)
      BY <1>8, <2>1
    <3> HIDE DEF y
    <3>2. Len(y) = lb
      BY <3>1, TupleFacts
    <3>3. Len(y) = k
      BY <1>6, <3>1, TupleFacts
    <3> QED BY <3>2, <3>3
  <2>3. ASSUME NEW i \in 1 .. k PROVE a.plain[i] = plain[i]
    <3> DEFINE t == {<<N, i>>}  o == TextPad(c.key, nonce, i)
    <3>1. p.body[i] = Xor(t, o) /\ plain[i] = t /\ a.plain[i] = Xor(p.body[i], o)
      BY <1>7, <1>8, <1>14, <1>16, <2>1, <2>2
    <3> HIDE DEF t, o
    <3>2. Xor(Xor(t, o), o) = t
      BY Zenon DEF Xor
    <3> QED BY <3>1, <3>2
  <2>4. Tuple(a.plain, k)
    BY <1>14, <1>16, <2>2
  <2> QED BY <1>6, <1>7, <2>3, <2>4, TupleSame
<1>17. g.ok = g.whole /\ (g.ok => g.plain = p.plain)
  <2>1. g.ok = a.ok /\ g.plain = a.plain /\ g.whole = (q = p)
    OBVIOUS
  <2>2. a.ok = (q = p)
    BY <1>14, <1>15
  <2> QED BY <1>9, <1>16, <2>1, <2>2
<1> HIDE DEF g
<1>18. /\ Whole(a.cipher) /\ a.cipher.key = receiver.cipher.key
       /\ receiver' = NextPacket([receiver EXCEPT !.cipher = a.cipher])
       /\ got' = Append(got, g)
       /\ g.ok = g.whole /\ (g.ok => g.plain = sent[Len(got) + 1].plain)
  BY <1>1, <1>14, <1>17 DEF c, p, N
<1> DEFINE d == a.cipher
<1> HIDE DEF d
<1> QED BY <1>18 DEF d
-----------------------------------------------------------------------------
(* The invariant holds at the start and is kept by Encrypt and Decrypt.    *)

\* A history keeps what it has.
LEMMA HistoryKeeps ==
  ASSUME NEW s, NEW e, History(s), NEW t, t = Append(s, e)
  PROVE  /\ Len(s) \in Nat /\ DOMAIN s = 1 .. Len(s)
         /\ Len(t) = Len(s) + 1 /\ DOMAIN t = 1 .. Len(t)
         /\ t[Len(s) + 1] = e /\ \A i \in 1 .. Len(s) : t[i] = s[i]
<1>1. PICK S : s \in Seq(S)
  BY DEF History
<1> DEFINE U == S \cup {e}
<1>2. s \in Seq(U) /\ e \in U
  BY <1>1
<1> HIDE DEF U
<1> QED BY <1>2, AppendProperties, LenProperties

\* Two new objects.
LEMMA InitFaithful == FSInit => Faithful
<1> SUFFICES ASSUME FSInit PROVE Faithful
  OBVIOUS
<1>1. PICK v \in Intervals : sender = NewParty(v) /\ receiver = NewParty(v)
  BY DEF FSInit
<1>2. sent = << >> /\ got = << >> /\ Len(sent) = 0 /\ Len(got) = 0 /\ DOMAIN got = {}
  BY DEF FSInit
<1> DEFINE c == SetKey(FirstKey)
<1>3. Whole(c) /\ c.key = FirstKey
  BY SetKeyFacts
<1> HIDE DEF c
<1>4. /\ sender.cipher = c /\ receiver.cipher = c /\ sender.interval = v
      /\ sender.rekeys = 0 /\ receiver.rekeys = 0
  <2>1. NewParty(v) = [cipher |-> c, packets |-> 0, rekeys |-> 0, interval |-> v]
    BY DEF NewParty, c
  <2> QED BY <1>1, <2>1
<1>5. Keyed
  <2> DEFINE K == [i \in 0 .. 0 |-> FirstKey]
  <2>1. K = [i \in 0 .. 0 |-> K[i]] /\ K[0] = FirstKey /\ 0 .. 0 - 1 = {}
    OBVIOUS
  <2> HIDE DEF K
  <2>2. KeyChain(K, 0)
    BY <2>1 DEF KeyChain
  <2>3. Issued(K)
    BY <1>2 DEF Issued
  <2> QED BY <1>3, <1>4, <2>1, <2>2, <2>3 DEF Keyed
<1>6. WholeIsRead
  BY <1>2 DEF WholeIsRead
<1>7. 0 <= MaxPackets
  BY FSAssumption
<1> QED BY <1>1, <1>2, <1>3, <1>4, <1>5, <1>6, <1>7, InitSteps DEF Faithful

\* The key chain goes on with the sender.
LEMMA ChainGrows ==
  ASSUME NEW K, NEW rr \in Nat, KeyChain(K, rr), NEW p, NEW n, p.rekeys = rr, p.cipher.key = K[rr],
         NEW q, Advanced(p, n, q)
  PROVE  \E L : /\ KeyChain(L, q.rekeys) /\ q.cipher.key = L[q.rekeys]
                /\ q.rekeys \in Nat /\ rr <= q.rekeys /\ \A i \in 0 .. rr : L[i] = K[i]
<1>1. CASE q.rekeys = p.rekeys /\ q.cipher.key = p.cipher.key
  BY <1>1
<1>2. CASE q.rekeys = p.rekeys + 1 /\ q.cipher.key = PadOf(p.cipher.key, <<WordMod - 1, p.rekeys>>, 1)
  <2> DEFINE next == PadOf(K[rr], <<WordMod - 1, rr>>, 1)  m == rr + 1
             L == [i \in 0 .. m |-> IF i = m THEN next ELSE K[i]]
  <2>1. m \in Nat /\ q.rekeys = m /\ q.cipher.key = next /\ rr <= m /\ rr \in 0 .. m /\ m \in 0 .. m /\ 0 \in 0 .. rr
    BY <1>2
  <2>2. L = [i \in 0 .. m |-> L[i]] /\ L[m] = next /\ \A i \in 0 .. rr : L[i] = K[i]
    <3> HIDE DEF next
    <3> QED OBVIOUS
  <2> HIDE DEF L
  <2>3. \A i \in 0 .. m - 1 : L[i + 1] = PadOf(L[i], <<WordMod - 1, i>>, 1)
    <3>1. ASSUME NEW i \in 0 .. m - 1 PROVE L[i + 1] = PadOf(L[i], <<WordMod - 1, i>>, 1)
      <4>1. i \in 0 .. rr
        OBVIOUS
      <4>2. CASE i = rr
        <5>1. L[i + 1] = next /\ L[i] = K[rr]
          BY <2>2, <4>1, <4>2
        <5> QED BY <4>2, <5>1
      <4>3. CASE i < rr
        <5>1. i \in 0 .. rr - 1 /\ i + 1 \in 0 .. rr
          BY <4>1, <4>3
        <5>2. K[i + 1] = PadOf(K[i], <<WordMod - 1, i>>, 1)
          BY <5>1 DEF KeyChain
        <5>3. L[i + 1] = K[i + 1] /\ L[i] = K[i]
          BY <2>2, <4>1, <5>1
        <5> QED BY <5>2, <5>3
      <4> QED BY <4>1, <4>2, <4>3
    <3> QED BY <3>1
  <2>4. L[0] = FirstKey
    BY <2>1, <2>2 DEF KeyChain
  <2> HIDE DEF m, next
  <2>5. KeyChain(L, m)
    BY <2>2, <2>3, <2>4 DEF KeyChain
  <2> QED BY <2>1, <2>2, <2>5
<1> QED BY <1>1, <1>2 DEF Advanced

\* Encrypt keeps the invariant.
LEMMA EncryptFaithful ==
  ASSUME Faithful, NEW shape \in Shapes, Encrypt(shape)
  PROVE  Faithful'
<1> DEFINE v == sender.interval  N == Len(sent) + 1  R == sender.rekeys  key == sender.cipher.key
           f == sender.packets
<1>0. Stepping
  BY DEF Faithful
<1>1. /\ v \in Nat /\ Len(sent) \in Nat /\ Len(got) \in Nat /\ DOMAIN got = 1 .. Len(got) /\ R \in Nat
      /\ f \in 0 .. v - 1 /\ R * v + f = Len(sent)
      /\ receiver.rekeys \in Nat /\ receiver.packets \in 0 .. v - 1
      /\ receiver.rekeys * v + receiver.packets = Len(got)
  BY <1>0, StepFacts
<1>2. PICK c, e : /\ Whole(c) /\ c.key = key
                  /\ sender' = NextPacket([sender EXCEPT !.cipher = c])
                  /\ sent' = Append(sent, e)
                  /\ Made(e, N, key, <<f, R>>)
  BY EncryptMakes
<1>3. receiver' = receiver /\ got' = got /\ Len(sent) < MaxPackets
  BY DEF Encrypt
<1>4. Stepping'
  BY <1>0, EncryptSteps
<1>5. Advanced(sender, Len(sent), sender')
  BY <1>0, <1>1, <1>2, Advance DEF Stepping
<1>6. sender'.interval = v /\ Whole(sender'.cipher)
  BY <1>5 DEF Advanced
<1>7. Len(sent') = N /\ sent'[N] = e /\ \A i \in 1 .. Len(sent) : sent'[i] = sent[i]
  BY <1>0, <1>2, HistoryKeeps DEF Stepping
<1>8. v \in Intervals /\ Len(got) <= Len(sent) /\ Whole(receiver.cipher)
  BY DEF Faithful
<1>9. Keyed'
  <2>1. PICK K : /\ KeyChain(K, R) /\ Issued(K)
                 /\ key = K[R] /\ receiver.cipher.key = K[receiver.rekeys]
    BY DEF Faithful, Keyed
  <2>2. PICK L : /\ KeyChain(L, sender'.rekeys) /\ sender'.cipher.key = L[sender'.rekeys]
                 /\ sender'.rekeys \in Nat /\ R <= sender'.rekeys /\ \A i \in 0 .. R : L[i] = K[i]
    BY <1>1, <1>5, <2>1, ChainGrows
  <2>3. receiver.rekeys <= R
    <3> DEFINE rr == receiver.rekeys  g == receiver.packets
    <3>1. rr \in Nat /\ g \in 0 .. v - 1 /\ rr * v + g <= R * v + f
      BY <1>1, <1>8
    <3> HIDE DEF rr, g, v, R, f
    <3>2. rr <= R
      BY <1>1, <3>1, FewerRekeys
    <3> QED BY <3>2 DEF rr
  <2>4. receiver.cipher.key = L[receiver.rekeys]
    <3>1. receiver.rekeys \in 0 .. R
      BY <1>1, <2>3
    <3> QED BY <2>1, <2>2, <3>1
  <2>5. ASSUME NEW n \in 1 .. N
        PROVE  \E rr \in 0 .. sender'.rekeys, g \in 0 .. v - 1 :
                 rr * v + g = n - 1 /\ Made(sent'[n], n, L[rr], <<g, rr>>)
    <3>1. CASE n = N
      <4>1. R \in 0 .. sender'.rekeys /\ R \in 0 .. R /\ N - 1 = Len(sent)
        BY <1>1, <2>2
      <4>2. R * v + f = n - 1 /\ L[R] = key
        BY <1>1, <2>1, <2>2, <3>1, <4>1
      <4>3. Made(sent'[n], n, L[R], <<f, R>>)
        BY <1>2, <1>7, <3>1, <4>2
      <4> QED BY <1>1, <4>1, <4>2, <4>3
    <3>2. CASE n # N
      <4>1. n \in 1 .. Len(sent)
        BY <1>1, <3>2
      <4>2. PICK rr \in 0 .. R, g \in 0 .. v - 1 : rr * v + g = n - 1 /\ Made(sent[n], n, K[rr], <<g, rr>>)
        BY <2>1, <4>1 DEF Issued
      <4>3. rr \in 0 .. sender'.rekeys /\ L[rr] = K[rr] /\ sent'[n] = sent[n]
        BY <1>1, <1>7, <2>2, <4>1
      <4> QED BY <4>2, <4>3
    <3> QED BY <3>1, <3>2
  <2>6. Issued(L)'
    BY <1>6, <1>7, <2>5 DEF Issued
  <2> QED BY <1>3, <2>2, <2>4, <2>6 DEF Keyed
<1>10. WholeIsRead'
  <2>1. ASSUME NEW n \in DOMAIN got PROVE sent'[n] = sent[n]
    BY <1>1, <1>7, <1>8
  <2>2. WholeIsRead
    BY DEF Faithful
  <2> QED BY <1>3, <2>1, <2>2 DEF WholeIsRead
<1>11. Len(sent') <= MaxPackets /\ Len(got') <= Len(sent')
  <2>1. Len(got) <= Len(sent) /\ MaxPackets \in Nat
    BY FSAssumption DEF Faithful
  <2>2. Len(sent') = Len(sent) + 1 /\ got' = got
    BY <1>3, <1>7
  <2> QED BY <1>1, <1>3, <2>1, <2>2
<1> QED BY <1>3, <1>4, <1>6, <1>8, <1>9, <1>10, <1>11 DEF Faithful

\* Decrypt keeps the invariant.
LEMMA DecryptFaithful ==
  ASSUME Faithful, Len(got) < Len(sent), NEW q \in {sent[Len(got) + 1]} \cup Damaged(sent[Len(got) + 1]),
         NEW k \in 0..Len(q.body), Decrypt(q, k)
  PROVE  Faithful'
<1> DEFINE v == sender.interval  N == Len(got) + 1  R == sender.rekeys  rr == receiver.rekeys
<1>0. Stepping
  BY DEF Faithful
<1>1. /\ v \in Nat /\ Len(sent) \in Nat /\ Len(got) \in Nat /\ R \in Nat /\ DOMAIN got = 1 .. Len(got)
      /\ sender.packets \in 0 .. v - 1 /\ R * v + sender.packets = Len(sent) /\ rr \in Nat
  BY <1>0, StepFacts
<1>2. PICK c, g : /\ Whole(c) /\ c.key = receiver.cipher.key
                  /\ receiver' = NextPacket([receiver EXCEPT !.cipher = c])
                  /\ got' = Append(got, g)
                  /\ g.ok = g.whole /\ (g.ok => g.plain = sent[N].plain)
  BY DecryptReads
<1>3. sender' = sender /\ sent' = sent
  BY DEF Decrypt
<1>4. Stepping'
  BY <1>0, DecryptSteps
<1>5. Advanced(receiver, Len(got), receiver')
  BY <1>0, <1>1, <1>2, Advance DEF Stepping
<1>6. Whole(receiver'.cipher)
  BY <1>5 DEF Advanced
<1>7. /\ Len(got') = N /\ DOMAIN (got') = 1 .. N
      /\ got'[N] = g /\ \A i \in 1 .. Len(got) : got'[i] = got[i]
  BY <1>0, <1>2, HistoryKeeps DEF Stepping
<1>8. /\ v \in Intervals /\ Len(sent) <= MaxPackets /\ Whole(sender.cipher) /\ WholeIsRead
  BY DEF Faithful
<1>9. Keyed'
  <2>1. PICK K : /\ KeyChain(K, R) /\ Issued(K)
                 /\ sender.cipher.key = K[R] /\ receiver.cipher.key = K[rr]
    BY DEF Faithful, Keyed
  <2>2. receiver'.rekeys \in Nat /\ receiver'.rekeys <= R
    <3> DEFINE s == receiver'.rekeys  o == receiver'.packets
    <3>1. s \in Nat /\ o \in 0 .. v - 1 /\ s * v + o = N
      <4>1. (Stepping)'
        BY <1>4
      <4>2. Sound(receiver', N) /\ receiver'.interval = v
        BY <1>3, <1>7, <4>1 DEF Stepping
      <4> QED BY <4>2, Sizes DEF Sound, Counted
    <3>2. s * v + o <= R * v + sender.packets
      BY <1>1, <3>1
    <3> DEFINE p == sender.packets
    <3>3. p \in 0 .. v - 1 /\ s * v + o <= R * v + p
      BY <1>1, <3>2
    <3> HIDE DEF s, o, p, v, R
    <3>4. s <= R
      BY <1>1, <3>1, <3>3, FewerRekeys
    <3> QED BY <3>1, <3>4 DEF s
  <2>3. receiver'.cipher.key = K[receiver'.rekeys]
    <3>1. CASE receiver'.rekeys = rr /\ receiver'.cipher.key = receiver.cipher.key
      BY <2>1, <3>1
    <3>2. CASE receiver'.rekeys = rr + 1 /\ receiver'.cipher.key = PadOf(receiver.cipher.key, <<WordMod - 1, rr>>, 1)
      <4>1. rr \in 0 .. R - 1
        BY <1>1, <2>2, <3>2
      <4>2. K[rr + 1] = PadOf(K[rr], <<WordMod - 1, rr>>, 1)
        BY <2>1, <4>1 DEF KeyChain
      <4> QED BY <2>1, <3>2, <4>2
    <3> QED BY <1>5, <3>1, <3>2 DEF Advanced
  <2>4. Issued(K)'
    BY <1>3, <2>1 DEF Issued
  <2> QED BY <1>3, <2>1, <2>3, <2>4 DEF Keyed
<1>10. WholeIsRead'
  <2>1. ASSUME NEW n \in 1 .. N
        PROVE  got'[n].ok = got'[n].whole /\ (got'[n].ok => got'[n].plain = sent[n].plain)
    <3>1. CASE n = N
      BY <1>2, <1>7, <3>1
    <3>2. CASE n # N
      <4>1. n \in 1 .. Len(got) /\ n \in DOMAIN got
        BY <1>1, <3>2
      <4>2. got[n].ok = got[n].whole /\ (got[n].ok => got[n].plain = sent[n].plain)
        BY <1>8, <4>1 DEF WholeIsRead
      <4> QED BY <1>7, <4>1, <4>2
    <3> QED BY <3>1, <3>2
  <2> QED BY <1>3, <1>7, <2>1 DEF WholeIsRead
<1>11. Len(got') <= Len(sent')
  BY <1>1, <1>3, <1>7
<1> QED BY <1>3, <1>4, <1>6, <1>8, <1>9, <1>10, <1>11 DEF Faithful

\* Every step keeps the invariant.
LEMMA NextFaithful == Faithful /\ [FSNext]_fsVars => Faithful'
<1> SUFFICES ASSUME Faithful, [FSNext]_fsVars PROVE Faithful'
  OBVIOUS
<1>1. ASSUME NEW shape \in Shapes, Encrypt(shape) PROVE Faithful'
  BY <1>1, EncryptFaithful
<1>2. CASE /\ Len(got) < Len(sent)
           /\ LET p == sent[Len(got) + 1]
              IN  \E q \in {p} \cup Damaged(p) : \E n \in 0..Len(q.body) : Decrypt(q, n)
  BY <1>2, DecryptFaithful
<1>3. CASE UNCHANGED fsVars
  <2>1. sender' = sender /\ receiver' = receiver /\ sent' = sent /\ got' = got
    BY <1>3 DEF fsVars
  <2>2. Stepping'
    BY <1>3, NextSteps DEF Faithful
  <2>3. Keyed'
    <3>1. PICK K : /\ KeyChain(K, sender.rekeys) /\ Issued(K)
                   /\ sender.cipher.key = K[sender.rekeys] /\ receiver.cipher.key = K[receiver.rekeys]
      BY DEF Faithful, Keyed
    <3>2. Issued(K)'
      BY <2>1, <3>1 DEF Issued
    <3> QED BY <2>1, <3>1, <3>2 DEF Keyed
  <2>4. WholeIsRead'
    BY <2>1 DEF Faithful, WholeIsRead
  <2> QED BY <2>1, <2>2, <2>3, <2>4 DEF Faithful
<1> QED BY <1>1, <1>2, <1>3 DEF FSNext

\* Theorem: whatever shapes the packets have and whichever of them are damaged
\* on the way, over every rekey, Decrypt accepts a packet exactly when it
\* arrives as it was sent, and returns its text then (ComputeTag, Encrypt and
\* Decrypt, cc20poly1305.cpp 20-91 and 115-133).
THEOREM OnlyWholeIsRead == FSSpec => []WholeIsRead
<1>1. FSSpec => []Faithful
  BY InitFaithful, NextFaithful, PTL DEF FSSpec
<1>2. Faithful => WholeIsRead
  BY DEF Faithful
<1> QED BY <1>1, <1>2, PTL
-----------------------------------------------------------------------------
(* The types of the packets, the objects and the history.                  *)

\* The keys of a chain are of the length of a key.
LEMMA ChainKeys ==
  ASSUME NEW K, NEW rr \in Nat, KeyChain(K, rr), NEW i \in 0 .. rr
  PROVE  Len(K[i]) = KeyLen /\ DOMAIN K[i] = 1 .. KeyLen
<1>1. Tuple(K[i], KeyLen)
  <2>1. CASE i = 0
    BY <2>1, FSAssumption DEF KeyChain, Tuple
  <2>2. CASE i > 0
    <3> DEFINE j == i - 1  o == K[j]
    <3>1. j \in 0 .. rr - 1 /\ j + 1 = i
      BY <2>2
    <3>2. K[j + 1] = PadOf(o, <<WordMod - 1, j>>, 1)
      BY <3>1 DEF KeyChain
    <3> HIDE DEF j, o
    <3> QED BY <3>1, <3>2 DEF PadOf, Tuple
  <2> QED BY <2>1, <2>2
<1>2. KeyLen \in Nat
  BY FSAssumption, Sizes
<1> DEFINE s == K[i]
<1> HIDE DEF s
<1>3. Len(s) = KeyLen /\ DOMAIN s = 1 .. KeyLen
  <2>1. Tuple(s, KeyLen)
    BY <1>1 DEF s
  <2> QED BY <1>2, <2>1, TupleFacts
<1> QED BY <1>3 DEF s

\* What the type invariant says of an end.
LEMMA PartyFacts ==
  ASSUME NEW p, NEW n \in Nat, n <= MaxPackets, Sound(p, n), p.interval \in Intervals, Whole(p.cipher),
         Len(p.cipher.key) = KeyLen
  PROVE  Party(p)
<1> DEFINE v == p.interval  rr == p.rekeys  f == p.packets
<1>1. v \in Nat /\ v > 0 /\ rr \in Nat /\ f \in 0 .. v - 1 /\ rr * v + f = n
  BY Sizes DEF Sound, Counted
<1>2. rr \in 0 .. MaxPackets
  <2> HIDE DEF v, rr, f
  <2>1. rr * v = rr + rr * (v - 1) /\ rr * (v - 1) \in Nat
    BY <1>1
  <2> QED BY <1>1, <2>1, FSAssumption
<1>3. p.cipher.left \in 0 .. BlockLen - 1 /\ {p.cipher.block, p.cipher.first} \subseteq 0 .. WordMod - 1
  BY DEF Whole, Shaped
<1> QED BY <1>1, <1>2, <1>3 DEF Party

\* The invariant gives the types.
LEMMA FaithfulTypes == Faithful => FSTypeOK
<1> SUFFICES ASSUME Faithful PROVE FSTypeOK
  OBVIOUS
<1> DEFINE v == sender.interval
<1>1. /\ v \in Nat /\ Len(sent) \in Nat /\ Len(got) \in Nat /\ receiver.interval = v
      /\ sender.rekeys \in Nat /\ receiver.rekeys \in Nat
      /\ sender.packets \in 0 .. v - 1 /\ sender.rekeys * v + sender.packets = Len(sent)
      /\ receiver.packets \in 0 .. v - 1 /\ receiver.rekeys * v + receiver.packets = Len(got)
  <2>1. Stepping
    BY DEF Faithful
  <2> QED BY <2>1, StepFacts
<1>2. /\ v \in Intervals /\ Len(sent) <= MaxPackets /\ Len(got) <= Len(sent)
      /\ Whole(sender.cipher) /\ Whole(receiver.cipher)
      /\ Sound(sender, Len(sent)) /\ Sound(receiver, Len(got))
  BY DEF Faithful, Stepping
<1>3. PICK K : /\ KeyChain(K, sender.rekeys)
               /\ sender.cipher.key = K[sender.rekeys] /\ receiver.cipher.key = K[receiver.rekeys]
  BY DEF Faithful, Keyed
<1>4. receiver.rekeys <= sender.rekeys
  <2> DEFINE rr == receiver.rekeys  g == receiver.packets  R == sender.rekeys  f == sender.packets
  <2>1. rr \in Nat /\ R \in Nat /\ f \in 0 .. v - 1 /\ g \in 0 .. v - 1 /\ rr * v + g <= R * v + f
    BY <1>1, <1>2
  <2> HIDE DEF rr, g, v, R, f
  <2>2. rr <= R
    BY <1>1, <2>1, FewerRekeys
  <2> QED BY <2>2 DEF rr, R
<1>5. Len(sender.cipher.key) = KeyLen /\ Len(receiver.cipher.key) = KeyLen
  <2>1. sender.rekeys \in 0 .. sender.rekeys /\ receiver.rekeys \in 0 .. sender.rekeys
    BY <1>1, <1>4
  <2> QED BY <1>1, <1>3, <2>1, ChainKeys
<1>6. Len(got) <= MaxPackets
  BY <1>1, <1>2, FSAssumption
<1>7. Party(sender) /\ Party(receiver)
  BY <1>1, <1>2, <1>5, <1>6, PartyFacts
<1> QED BY <1>2, <1>7 DEF FSTypeOK

\* Theorem: the packets, the results and the two objects have their types, for
\* all constants: a cipher's counters are words and its buffer is a block or
\* empty, a packet counter is below its interval (cc20poly1305.h 115-131).
THEOREM FSTypeCorrect == FSSpec => []FSTypeOK
<1>1. FSSpec => []Faithful
  BY InitFaithful, NextFaithful, PTL DEF FSSpec
<1> QED BY <1>1, FaithfulTypes, PTL
-----------------------------------------------------------------------------
\* The bytes of the blocks of a nonce that a text may use, all but the first.
MostText == (WordMod - 1) * BlockLen

\* A byte of a text is under a byte of a block after the first of its nonce.
LaterBlock(key, f, rr, i) ==
  \E b \in 1 .. WordMod - 1, j \in 1 .. BlockLen : TextPad(key, <<f, rr>>, i) = {<<key, rr, f, b, j>>}

\* Byte i of a text is under block 1 or a later one of its nonce.
LEMMA TextBlock ==
  ASSUME NEW key, NEW f \in 0 .. WordMod - 1, NEW rr, NEW i \in 1 .. MostText
  PROVE  LaterBlock(key, f, rr, i)
<1> DEFINE k == i - 1  q == k \div BlockLen  j == k % BlockLen  b == q + 1  B == BlockLen
<1>1. B \in Nat /\ B > 0 /\ k \in Nat /\ i \in Nat /\ WordMod \in Nat /\ WordMod > 1
  BY Sizes
<1>2. q \in Nat /\ j \in 0 .. B - 1 /\ k = q * B + j
  <2> HIDE DEF k
  <2> QED BY <1>1
<1>3. b \in 1 .. WordMod - 1
  <2>1. CASE q >= WordMod - 1
    <3> DEFINE W == WordMod - 1
    <3>1. W \in Nat /\ q >= W /\ i <= W * B
      BY <1>1, <2>1 DEF MostText
    <3> HIDE DEF W, q, j
    <3>2. (q - W) * B \in Nat /\ (q - W) * B = q * B - W * B /\ q * B \in Nat /\ W * B \in Nat
      BY <1>1, <1>2, <3>1
    <3> QED BY <1>1, <1>2, <3>1, <3>2
  <2> QED BY <1>1, <1>2, <2>1
<1>4. f \in 0 .. WordMod - 1 /\ b \in 0 .. WordMod - 1 /\ 1 \in 0 .. WordMod - 1 /\ 0 \in 0 .. B - 1
  BY <1>1, <1>3
<1> HIDE DEF q, j
<1>5. /\ Place(f, b, 0) \in Nat /\ Place(f, b, 0) <= StreamSize - BlockLen
      /\ Place(f, b, j) = Place(f, b, 0) + j
      /\ ByteAt(key, rr, Place(f, b, j)) = {<<key, rr, f, b, j + 1>>}
  BY <1>2, <1>4, PlaceFacts
<1>6. Place(f, b, 0) = Place(f, 1, 0) + q * B
  <2> DEFINE m == f * WordMod
  <2>1. m \in Nat
    BY <1>1
  <2>2. Place(f, b, 0) = (m + 1 + q) * B /\ Place(f, 1, 0) = (m + 1) * B
    BY <1>1, <1>2, <2>1 DEF Place
  <2> HIDE DEF m
  <2>3. (m + 1 + q) * B = (m + 1) * B + q * B
    BY <1>1, <1>2, <2>1
  <2> QED BY <2>2, <2>3
<1> DEFINE p == Place(f, b, j)
<1>7. p \in 0 .. StreamSize - 1 /\ p \in Int /\ 0 \in Int /\ Place(f, 1, 0) + i - 1 = p
  <2>1. Place(f, 1, 0) \in Nat /\ q * B \in Nat
    BY <1>1, <1>2, SecondBlock
  <2> QED BY <1>1, <1>2, <1>5, <1>6, <2>1, Sizes
<1> HIDE DEF p
<1>8. Wrap(p) = p
  BY <1>7, WrapFacts
<1>9. TextPad(key, <<f, rr>>, i) = ByteAt(key, rr, p)
  BY <1>7, <1>8 DEF TextPad
<1>10. TextPad(key, <<f, rr>>, i) = {<<key, rr, f, b, j + 1>>} /\ j + 1 \in 1 .. BlockLen
  BY <1>1, <1>2, <1>5, <1>9 DEF p
<1> HIDE DEF b
<1> QED BY <1>3, <1>10 DEF LaterBlock
-----------------------------------------------------------------------------
(* The blocks of keystream that the packets and the keys are made of.      *)

\* x is a block numbered in blocks, under the nonce of packet n.
BlockFor(K, n, x, blocks) ==
  \E rr \in 0 .. sender.rekeys, f \in 0 .. sender.interval - 1, b \in blocks :
    rr * sender.interval + f = n - 1 /\ x = <<K[rr], rr, f, b>>

\* The blocks that set of bytes is made of: one token of each is of five parts.
LEMMA BlocksFacts ==
  ASSUME NEW s, NEW x \in BlocksOf(ElementsOf(s))
  PROVE  \E i \in DOMAIN s : \E t \in s[i] : Len(t) = 5 /\ x = <<t[1], t[2], t[3], t[4]>>
<1>1. PICK t \in UNION ElementsOf(s) : Len(t) = 5 /\ x = <<t[1], t[2], t[3], t[4]>>
  BY DEF BlocksOf
<1>2. PICK i \in DOMAIN s : t \in s[i]
  BY DEF ElementsOf
<1> QED BY <1>1, <1>2

\* A packet of this key and nonce has its text under the later blocks of the
\* nonce and the key of its tag in the first.
Blocked(e, key, f, rr) ==
  /\ \A x \in BlocksOf(ElementsOf(e.body)) : \E b \in 1 .. WordMod - 1 : x = <<key, rr, f, b>>
  /\ \A x \in BlocksOf(ElementsOf(e.tag.key)) : x = <<key, rr, f, 0>>

\* What Encrypt uses of the keystream.
LEMMA MadeBlocks ==
  ASSUME NEW e, NEW n, NEW key, NEW f \in 0 .. WordMod - 1, NEW rr, Made(e, n, key, <<f, rr>>)
  PROVE  Blocked(e, key, f, rr)
<1> DEFINE nonce == <<f, rr>>  body == e.body
<1>1. PICK shape \in Shapes :
        /\ Tuple(body, shape[1] + shape[2])
        /\ e = [plain |-> [i \in 1 .. shape[1] + shape[2] |-> {<<n, i>>}], aad |-> Zeros(shape[3]),
                body |-> body, tag |-> TagOf(PadOf(key, nonce, 0), Zeros(shape[3]), body)]
        /\ \A i \in 1 .. shape[1] + shape[2] : body[i] = Xor({<<n, i>>}, TextPad(key, nonce, i))
  BY DEF Made
<1> DEFINE k == shape[1] + shape[2]  l == shape[3]  zeros == Zeros(l)  pad == PadOf(key, nonce, 0)
           tag == TagOf(pad, zeros, body)
<1>2. k \in Nat /\ l \in Nat /\ k <= MostText
  BY FSAssumption DEF MostText
<1>3. Tuple(zeros, l) /\ e.tag = tag
  BY <1>1 DEF Zeros, Tuple
<1>4. Tuple(body, k) /\ \A i \in 1 .. k : body[i] = Xor({<<n, i>>}, TextPad(key, nonce, i))
  BY <1>1
<1> HIDE DEF body, k, l, zeros, nonce
<1>5. ASSUME NEW x \in BlocksOf(ElementsOf(body)) PROVE \E b \in 1 .. WordMod - 1 : x = <<key, rr, f, b>>
  <2>1. DOMAIN body = 1 .. k
    BY <1>2, <1>4, TupleFacts
  <2>2. PICK i \in 1 .. k : \E t \in body[i] : Len(t) = 5 /\ x = <<t[1], t[2], t[3], t[4]>>
    BY <2>1, BlocksFacts
  <2>3. PICK t \in body[i] : Len(t) = 5 /\ x = <<t[1], t[2], t[3], t[4]>>
    BY <2>2
  <2>4. i \in 1 .. MostText
    <3>1. MostText \in Int
      BY Sizes DEF MostText
    <3> QED BY <1>2, <3>1
  <2>5. LaterBlock(key, f, rr, i)
    BY <2>4, TextBlock
  <2>6. PICK b \in 1 .. WordMod - 1, j \in 1 .. BlockLen : TextPad(key, nonce, i) = {<<key, rr, f, b, j>>}
    BY <2>5 DEF LaterBlock, nonce
  <2>7. t = <<n, i>> \/ t = <<key, rr, f, b, j>>
    BY <1>4, <2>6 DEF Xor
  <2>8. Len(<<n, i>>) # 5
    OBVIOUS
  <2>9. t = <<key, rr, f, b, j>>
    BY <2>3, <2>7, <2>8
  <2>10. x = <<key, rr, f, b>>
    BY <2>3, <2>9
  <2> QED BY <2>10
<1>6. tag.key = pad
  <2>1. PICK s, a, o : \E w \in Nat :
          /\ Bound(tag, pad, s, w)
          /\ Laid(s, zeros, l, body, k, a, o) /\ a \in Nat /\ o \in Nat /\ o + TagLen = w * TagLen
    BY <1>2, <1>3, <1>4, TagFacts
  <2> HIDE DEF tag, pad
  <2>2. PICK w : Bound(tag, pad, s, w)
    BY <2>1
  <2>3. tag = [key |-> pad, absorbed |-> tag.absorbed]
    BY <2>2 DEF Bound
  <2> QED BY <2>3
<1>7. ASSUME NEW x \in BlocksOf(ElementsOf(pad)) PROVE x = <<key, rr, f, 0>>
  <2>1. pad = [i \in 1 .. KeyLen |-> {<<key, rr, f, 0, i>>}]
    BY DEF PadOf, nonce
  <2> HIDE DEF pad
  <2>2. PICK i \in 1 .. KeyLen : \E t \in pad[i] : Len(t) = 5 /\ x = <<t[1], t[2], t[3], t[4]>>
    BY <2>1, BlocksFacts
  <2>3. x = <<key, rr, f, 0>>
    BY <2>1, <2>2
  <2> QED BY <2>3
<1> QED BY <1>3, <1>5, <1>6, <1>7 DEF Blocked, body

\* The blocks a key of the chain was drawn from.
LEMMA ChainBlocks ==
  ASSUME NEW K, NEW rr \in Nat, KeyChain(K, rr), NEW i \in 0 .. rr,
         NEW j \in DOMAIN K[i], NEW t \in K[i][j], Len(t) = 5
  PROVE  t[3] = WordMod - 1
<1>1. j \in 1 .. KeyLen
  BY ChainKeys
<1>2. CASE i = 0
  BY <1>1, <1>2, FSAssumption DEF KeyChain
<1>3. CASE i > 0
  <2> DEFINE hh == i - 1  o == K[hh]
  <2>1. hh \in 0 .. rr - 1 /\ hh + 1 = i
    BY <1>3
  <2>2. K[hh + 1] = PadOf(o, <<WordMod - 1, hh>>, 1)
    BY <2>1 DEF KeyChain
  <2> HIDE DEF hh, o
  <2>3. K[i][j] = {<<o, hh, WordMod - 1, 1, j>>}
    BY <1>1, <2>1, <2>2 DEF PadOf
  <2>4. t = <<o, hh, WordMod - 1, 1, j>>
    BY <2>3
  <2> QED BY <2>4
<1> QED BY <1>2, <1>3

\* The packets and keys of the invariant share no block.
LEMMA FaithfulPads == Faithful => PadsUsedOnce
<1> SUFFICES ASSUME Faithful PROVE PadsUsedOnce
  OBVIOUS
<1> DEFINE v == sender.interval  R == sender.rekeys
<1>1. v \in Nat /\ v \in 1 .. WordMod - 1 /\ WordMod \in Nat /\ R \in Nat /\ DOMAIN sent = 1 .. Len(sent)
  <2>1. Stepping
    BY DEF Faithful
  <2> QED BY <2>1, StepFacts
<1>2. PICK K : KeyChain(K, R) /\ Issued(K)
  BY DEF Faithful, Keyed
<1>3. ASSUME NEW n \in DOMAIN sent
      PROVE  /\ \A x \in TextPads[n] : BlockFor(K, n, x, 1 .. WordMod - 1)
             /\ \A x \in TagPads[n] : BlockFor(K, n, x, {0})
  <2>1. PICK rr \in 0 .. R, f \in 0 .. v - 1 : rr * v + f = n - 1 /\ Made(sent[n], n, K[rr], <<f, rr>>)
    BY <1>1, <1>2 DEF Issued
  <2>2. f \in 0 .. WordMod - 1
    BY <1>1
  <2>3. TextPads[n] = BlocksOf(ElementsOf(sent[n].body)) /\ TagPads[n] = BlocksOf(ElementsOf(sent[n].tag.key))
    BY DEF TextPads, TagPads
  <2> DEFINE key == K[rr]  e == sent[n]
  <2>4. Made(e, n, key, <<f, rr>>)
    BY <2>1
  <2> HIDE DEF key, e
  <2>5. Blocked(e, key, f, rr)
    BY <2>2, <2>4, MadeBlocks
  <2>6. \A x \in BlocksOf(ElementsOf(e.body)) : BlockFor(K, n, x, 1 .. WordMod - 1)
    BY <2>1, <2>5 DEF Blocked, BlockFor, key
  <2>7. \A x \in BlocksOf(ElementsOf(e.tag.key)) : BlockFor(K, n, x, {0})
    BY <2>1, <2>5 DEF Blocked, BlockFor, key
  <2> QED BY <2>3, <2>6, <2>7 DEF e
<1>4. ASSUME NEW n \in DOMAIN sent, NEW m \in DOMAIN sent, NEW x, NEW a, NEW b,
             BlockFor(K, n, x, a), BlockFor(K, m, x, b)
      PROVE  n = m /\ a \cap b # {}
  <2>1. PICK rr \in 0 .. R, f \in 0 .. v - 1, o \in a : rr * v + f = n - 1 /\ x = <<K[rr], rr, f, o>>
    BY <1>4 DEF BlockFor
  <2>2. PICK s \in 0 .. R, g \in 0 .. v - 1, u \in b : s * v + g = m - 1 /\ x = <<K[s], s, g, u>>
    BY <1>4 DEF BlockFor
  <2>3. rr = s /\ f = g /\ o = u
    BY <2>1, <2>2
  <2>4. n - 1 = m - 1 /\ n \in Int /\ m \in Int
    BY <1>1, <2>1, <2>2, <2>3
  <2> QED BY <2>1, <2>2, <2>3, <2>4
<1>5. (1 .. WordMod - 1) \cap {0} = {}
  OBVIOUS
<1>6. ASSUME NEW m \in DOMAIN sent, NEW n \in DOMAIN sent
      PROVE  /\ TextPads[m] \cap TagPads[n] = {}
             /\ m # n => TextPads[m] \cap TextPads[n] = {} /\ TagPads[m] \cap TagPads[n] = {}
  <2>1. ASSUME NEW x \in TextPads[m], x \in TagPads[n] PROVE FALSE
    <3>1. BlockFor(K, m, x, 1 .. WordMod - 1) /\ BlockFor(K, n, x, {0})
      BY <1>3, <2>1
    <3> DEFINE later == 1 .. WordMod - 1  first == {0}
    <3>2. BlockFor(K, m, x, later) /\ BlockFor(K, n, x, first) /\ later \cap first = {}
      BY <1>5, <3>1
    <3> HIDE DEF later, first
    <3>3. later \cap first # {}
      BY <1>4, <3>2
    <3> QED BY <3>2, <3>3
  <2>2. ASSUME NEW x \in TextPads[m], x \in TextPads[n] PROVE m = n
    <3>1. BlockFor(K, m, x, 1 .. WordMod - 1) /\ BlockFor(K, n, x, 1 .. WordMod - 1)
      BY <1>3, <2>2
    <3> QED BY <1>4, <3>1
  <2>3. ASSUME NEW x \in TagPads[m], x \in TagPads[n] PROVE m = n
    <3>1. BlockFor(K, m, x, {0}) /\ BlockFor(K, n, x, {0})
      BY <1>3, <2>3
    <3> QED BY <1>4, <3>1
  <2> QED BY <2>1, <2>2, <2>3
<1>7. ASSUME NEW n \in DOMAIN sent, NEW x \in TextPads[n] \cup TagPads[n]
      PROVE  \E rr \in 0 .. R : x[1] = K[rr] /\ x[3] # WordMod - 1
  <2>1. PICK rr \in 0 .. R, f \in 0 .. v - 1, b \in (1 .. WordMod - 1) \cup {0} : x = <<K[rr], rr, f, b>>
    <3>1. BlockFor(K, n, x, 1 .. WordMod - 1) \/ BlockFor(K, n, x, {0})
      BY <1>3, <1>7
    <3> QED BY <3>1 DEF BlockFor
  <2>2. f # WordMod - 1
    BY <1>1
  <2> QED BY <2>1, <2>2
<1>8. ASSUME NEW x \in KeyPads PROVE x[3] = WordMod - 1
  <2> DEFINE all == UNION {TextPads[n] \cup TagPads[n] : n \in DOMAIN sent}
             bytes == UNION {ElementsOf(b[1]) : b \in all}
  <2>1. PICK t \in UNION bytes : Len(t) = 5 /\ x = <<t[1], t[2], t[3], t[4]>>
    BY DEF KeyPads, BlocksOf
  <2>2. PICK b \in all : t \in UNION ElementsOf(b[1])
    BY <2>1
  <2>3. PICK rr \in 0 .. R : b[1] = K[rr]
    BY <1>7
  <2>4. PICK j \in DOMAIN K[rr] : t \in K[rr][j]
    BY <2>2, <2>3 DEF ElementsOf
  <2>5. t[3] = WordMod - 1
    BY <1>1, <1>2, <2>1, <2>4, ChainBlocks
  <2> QED BY <2>1, <2>5
<1>9. KeyPads \cap UNION {TextPads[n] \cup TagPads[n] : n \in DOMAIN sent} = {}
  BY <1>7, <1>8
<1> QED BY <1>6, <1>9 DEF PadsUsedOnce

\* Theorem: no block of keystream is used twice, by two packets, by the text
\* and the tag of one packet, or by a packet and a rekey, for every interval
\* and number of packets (the nonces of cc20poly1305.cpp 99-131, the blocks of
\* 54-65 and 93-97).
THEOREM NoPadTwice == FSSpec => []PadsUsedOnce
<1>1. FSSpec => []Faithful
  BY InitFaithful, NextFaithful, PTL DEF FSSpec
<1> QED BY <1>1, FaithfulPads, PTL
-----------------------------------------------------------------------------
(* The arithmetic of crypto/poly1305.cpp in five limbs (PolyLimbs), for    *)
(* every width of a limb that has 64 values or more.                       *)

\* Base and the prime are numbers, and the prime is the larger one by far.
LEMMA PrimeFacts ==
  /\ Base \in Nat /\ Base >= 64 /\ Half \in Nat /\ Half > 0
  /\ Prime \in Nat /\ Prime > 64 * Base /\ Half * Half = Prime + 5
  /\ Base * (Base * (Base * (Base * Base))) = Prime + 5
<1> DEFINE B == Base  p == B * B  q == p * p
<1>1. B \in Nat /\ B >= 64 /\ Half \in Nat /\ Half * Half = B * B * B * B * B
  BY LimbAssumption
<1> HIDE DEF B
<1>2. p \in Nat /\ p >= 4096
  <2>1. B * B = 64 * 64 + (B - 64) * B + 64 * (B - 64)
    BY <1>1
  <2>2. (B - 64) * B \in Nat
    BY <1>1
  <2> QED BY <1>1, <2>1, <2>2
<1>3. B * (B * (B * (B * B))) = B * q /\ B * B * B * B * B = B * q
  BY <1>1
<1> HIDE DEF p
<1>4. q \in Nat /\ q >= 4096
  <2>1. p * p = 4096 * p + (p - 4096) * p /\ (p - 4096) * p \in Nat
    BY <1>2
  <2> QED BY <1>2, <2>1
<1> HIDE DEF q
<1>5. B * q = 4096 * B + B * (q - 4096) /\ B * (q - 4096) \in Nat
  BY <1>1, <1>4
<1>6. Half # 0
  BY <1>1, <1>3, <1>5
<1>7. Prime = Half * Half - 5 /\ Half * Half \in Nat
  BY <1>1 DEF Prime
<1> QED BY <1>1, <1>3, <1>5, <1>6, <1>7 DEF B

-----------------------------------------------------------------------------
(* Numbers modulo the prime.                                               *)

\* x and y are the same modulo the prime.
Cong(x, y) == \E k \in Int : x = y + k * Prime

\* A number is itself.
LEMMA CongIs == ASSUME NEW x \in Int PROVE Cong(x, x)
<1>1. x = x + 0 * Prime /\ 0 \in Int
  BY PrimeFacts
<1> QED BY <1>1 DEF Cong

\* One after another.
LEMMA CongTrans ==
  ASSUME NEW x \in Int, NEW y \in Int, NEW z \in Int, Cong(x, y), Cong(y, z)
  PROVE  Cong(x, z)
<1>1. PICK k \in Int : x = y + k * Prime
  BY DEF Cong
<1>2. PICK l \in Int : y = z + l * Prime
  BY DEF Cong
<1>3. (k + l) * Prime = k * Prime + l * Prime /\ k + l \in Int /\ k * Prime \in Int /\ l * Prime \in Int
  BY PrimeFacts
<1> DEFINE n == k + l
<1>4. n \in Int /\ x = z + n * Prime
  BY <1>1, <1>2, <1>3
<1> HIDE DEF n
<1> QED BY <1>4 DEF Cong

\* The other way round.
LEMMA CongBack ==
  ASSUME NEW x \in Int, NEW y \in Int, Cong(x, y)
  PROVE  Cong(y, x)
<1>1. PICK k \in Int : x = y + k * Prime
  BY DEF Cong
<1> DEFINE n == -k
<1>2. n \in Int /\ y = x + n * Prime
  BY <1>1, PrimeFacts
<1> HIDE DEF n
<1> QED BY <1>2 DEF Cong

\* Sums.
LEMMA CongSum ==
  ASSUME NEW x \in Int, NEW y \in Int, NEW u \in Int, NEW v \in Int, Cong(x, y), Cong(u, v)
  PROVE  Cong(x + u, y + v)
<1>1. PICK k \in Int : x = y + k * Prime
  BY DEF Cong
<1>2. PICK l \in Int : u = v + l * Prime
  BY DEF Cong
<1>3. (k + l) * Prime = k * Prime + l * Prime /\ k + l \in Int /\ k * Prime \in Int /\ l * Prime \in Int
  BY PrimeFacts
<1> DEFINE n == k + l
<1>4. n \in Int /\ x + u = y + v + n * Prime
  BY <1>1, <1>2, <1>3
<1> HIDE DEF n
<1> QED BY <1>4 DEF Cong

\* Products.
LEMMA CongTimes ==
  ASSUME NEW x \in Int, NEW y \in Int, NEW a \in Int, Cong(x, y)
  PROVE  Cong(a * x, a * y)
<1>1. PICK k \in Int : x = y + k * Prime
  BY DEF Cong
<1> DEFINE n == a * k  p == Prime
<1>2. p \in Nat /\ x = y + k * p
  BY <1>1, PrimeFacts
<1> HIDE DEF p
<1>3. n \in Int /\ a * x = a * y + n * p
  BY <1>2
<1> HIDE DEF n
<1> QED BY <1>3 DEF Cong, p

\* Below the prime there is one number of each kind.
LEMMA CongSame ==
  ASSUME NEW x \in 0 .. Prime - 1, NEW y \in 0 .. Prime - 1, Cong(x, y)
  PROVE  x = y
<1>1. PICK k \in Int : x = y + k * Prime
  BY DEF Cong
<1> DEFINE p == Prime
<1>2. p \in Nat /\ p > 0 /\ x = y + k * p /\ x \in 0 .. p - 1 /\ y \in 0 .. p - 1
  BY <1>1, PrimeFacts
<1> HIDE DEF p
<1>3. CASE k >= 1
  <2>1. k * p = p + (k - 1) * p /\ (k - 1) * p \in Nat
    BY <1>2, <1>3
  <2> QED BY <1>2, <2>1
<1>4. CASE k <= -1
  <2>1. k * p = -p - (-1 - k) * p /\ (-1 - k) * p \in Nat
    BY <1>2, <1>4
  <2> QED BY <1>2, <2>1
<1>5. CASE k = 0
  BY <1>2, <1>5
<1> QED BY <1>3, <1>4, <1>5

\* The sum of two numbers below the prime.
LEMMA PlusCong ==
  ASSUME NEW a \in 0 .. Prime - 1, NEW b \in 0 .. Prime - 1
  PROVE  Plus(a, b) \in 0 .. Prime - 1 /\ Cong(Plus(a, b), a + b)
<1>1. Prime \in Nat
  BY PrimeFacts
<1>2. CASE a >= Prime - b
  <2>1. Plus(a, b) = a + b + (-1) * Prime /\ Plus(a, b) \in 0 .. Prime - 1
    BY <1>1, <1>2 DEF Plus
  <2> QED BY <2>1 DEF Cong
<1>3. CASE a < Prime - b
  <2>1. Plus(a, b) = a + b /\ Plus(a, b) \in 0 .. Prime - 1
    BY <1>1, <1>3 DEF Plus
  <2> QED BY <1>1, <2>1, CongIs
<1> QED BY <1>1, <1>2, <1>3

\* A remainder.
LEMMA RestCong ==
  ASSUME NEW x \in Nat
  PROVE  x % Prime \in 0 .. Prime - 1 /\ Cong(x % Prime, x)
<1> DEFINE p == Prime  q == x \div p  n == -q
<1>1. p \in Nat /\ p > 0
  BY PrimeFacts
<1> HIDE DEF p
<1>2. q \in Int /\ x % p \in 0 .. p - 1 /\ x = q * p + (x % p)
  BY <1>1
<1> HIDE DEF q
<1>3. n \in Int /\ x % p = x + n * p
  BY <1>1, <1>2
<1> HIDE DEF n
<1> QED BY <1>2, <1>3 DEF Cong, p

\* Quotient and remainder.
LEMMA DivFacts ==
  ASSUME NEW x \in Nat, NEW b \in Nat, b > 0
  PROVE  x \div b \in Nat /\ x % b \in 0 .. b - 1 /\ x = (x \div b) * b + (x % b)
OBVIOUS

\* The parts of a product made by halves.
LEMMA HalvesFacts ==
  ASSUME NEW a \in 0 .. Prime - 1, NEW n \in 0 .. 2 * Base,
         NEW q, NEW s, NEW u, NEW w,
         q = a \div Half, s = a % Half, u = (q * n) \div Half, w = (q * n) % Half
  PROVE  /\ s * n \in Nat /\ w * Half \in Nat /\ 5 * u \in 0 .. Prime - 1
         /\ a * n = s * n + w * Half + 5 * u + u * Prime
<1> DEFINE H == Half  p == Prime  B == Base  e == q * n
<1>1. H \in Nat /\ H > 0 /\ p \in Nat /\ p > 64 * B /\ B \in Nat /\ H * H = p + 5
      /\ a \in 0 .. p - 1 /\ n \in 0 .. 2 * B
  BY PrimeFacts
<1>2. q = a \div H /\ s = a % H /\ u = e \div H /\ w = e % H
  OBVIOUS
<1> HIDE DEF H, p, B, e
<1>3. a = q * H + s /\ s \in 0 .. H - 1 /\ q \in Nat
  <2>1. a \in Nat /\ H \in Nat /\ H > 0
    BY <1>1
  <2>2. a \div H \in Nat /\ a % H \in 0 .. H - 1 /\ a = (a \div H) * H + (a % H)
    BY <2>1, DivFacts
  <2> QED BY <1>2, <2>2
<1>4. e \in Nat /\ n \in Nat
  BY <1>1, <1>3 DEF e
<1>5. e = u * H + w /\ w \in 0 .. H - 1 /\ u \in Nat
  <2>1. H \in Nat /\ H > 0
    BY <1>1
  <2>2. e \div H \in Nat /\ e % H \in 0 .. H - 1 /\ e = (e \div H) * H + (e % H)
    BY <1>4, <2>1, DivFacts
  <2> QED BY <1>2, <2>2
<1>6. q <= H
  <2>1. CASE q > H
    <3>1. q * H = H * H + (q - H) * H /\ (q - H) * H \in Nat
      BY <1>1, <1>3, <2>1
    <3> QED BY <1>1, <1>3, <3>1
  <2> QED BY <1>1, <1>3, <2>1
<1>7. u <= 2 * B
  <2> DEFINE x == (H - q) * n  y == H * (2 * B - n)  t == H * (2 * B)
  <2>1. e = t - (x + y) /\ t \in Nat
    BY <1>1, <1>3 DEF e
  <2>2. x \in Nat /\ y \in Nat
    BY <1>1, <1>3, <1>6
  <2> HIDE DEF x, y
  <2>3. CASE u > 2 * B
    <3> DEFINE z == (u - 2 * B) * H  v == u * H
    <3>1. v = t + z /\ z >= 1 /\ v \in Nat /\ z \in Nat
      BY <1>1, <1>5, <2>3
    <3>2. e = v + w
      BY <1>5
    <3> HIDE DEF z, v, t
    <3> QED BY <1>5, <2>1, <2>2, <3>1, <3>2
  <2> QED BY <1>1, <1>5, <2>3
<1>8. 5 * u \in 0 .. p - 1
  BY <1>1, <1>5, <1>7
<1>9. a * n = s * n + w * H + 5 * u + u * p
  <2>1. a * n = e * H + s * n
    BY <1>1, <1>3 DEF e
  <2>2. e * H = u * (H * H) + w * H
    BY <1>1, <1>5
  <2>3. u * (H * H) = 5 * u + u * p
    <3> DEFINE x == H * H
    <3>1. x = p + 5 /\ p \in Nat /\ u \in Nat
      BY <1>1, <1>5
    <3> HIDE DEF x
    <3>2. u * x = 5 * u + u * p
      BY <3>1
    <3> QED BY <3>2 DEF x
  <2>4. s * n \in Nat /\ w * H \in Nat /\ u * p \in Nat
    BY <1>1, <1>3, <1>5
  <2> QED BY <1>5, <2>1, <2>2, <2>3, <2>4
<1>10. s * n \in Nat /\ w * H \in Nat
  BY <1>1, <1>3, <1>5
<1> QED BY <1>8, <1>9, <1>10 DEF H, p

\* A product modulo the prime.
LEMMA TimesCong ==
  ASSUME NEW a \in 0 .. Prime - 1, NEW n \in 0 .. 2 * Base
  PROVE  Times(a, n) \in 0 .. Prime - 1 /\ Cong(Times(a, n), a * n)
<1> DEFINE q == a \div Half  s == a % Half  u == (q * n) \div Half  w == (q * n) % Half
           x == s * n  y == w * Half  z == 5 * u
           xx == x % Prime  yy == y % Prime  t == Plus(xx, yy)
<1>1. /\ x \in Nat /\ y \in Nat /\ z \in 0 .. Prime - 1
      /\ a * n = x + y + z + u * Prime
  BY HalvesFacts
<1>2. Times(a, n) = Plus(t, z)
  BY DEF Times
<1>3. u \in Int /\ a * n \in Int /\ z \in Int /\ Prime \in Nat
  <2>1. Half \in Nat /\ Half > 0 /\ a \in Nat /\ n \in Nat /\ Prime \in Nat
    BY PrimeFacts
  <2>2. q \in Int
    BY <2>1
  <2> HIDE DEF q
  <2>3. q * n \in Int
    BY <2>1, <2>2
  <2> QED BY <1>1, <2>1, <2>3
<1> HIDE DEF q, s, u, w, x, y, z, xx, yy, t
<1>4. xx \in 0 .. Prime - 1 /\ Cong(xx, x) /\ yy \in 0 .. Prime - 1 /\ Cong(yy, y)
  BY <1>1, RestCong DEF xx, yy
<1>5. xx \in Int /\ yy \in Int /\ x \in Int /\ y \in Int
  BY <1>1, <1>3, <1>4
<1>6. t \in 0 .. Prime - 1 /\ Cong(t, xx + yy)
  BY <1>4, PlusCong DEF t
<1>7. Plus(t, z) \in 0 .. Prime - 1 /\ Cong(Plus(t, z), t + z)
  BY <1>1, <1>6, PlusCong
<1> DEFINE v == Plus(t, z)  xy == x + y  xxyy == xx + yy  tz == t + z  xyz == x + y + z
<1>8. v \in Int /\ xy \in Int /\ xxyy \in Int /\ tz \in Int /\ xyz \in Int /\ t \in Int
  BY <1>1, <1>3, <1>4, <1>6, <1>7
<1>9. Cong(xxyy, xy)
  BY <1>4, <1>5, CongSum
<1>10. Cong(t, xy)
  <2> HIDE DEF xy
  <2>1. Cong(t, xxyy)
    BY <1>6
  <2> HIDE DEF xxyy
  <2> QED BY <1>8, <1>9, <2>1, CongTrans
<1>11. Cong(tz, xyz)
  <2>1. Cong(z, z)
    BY <1>3, CongIs
  <2>2. xyz = xy + z
    OBVIOUS
  <2> HIDE DEF xy, xyz
  <2>3. Cong(t + z, xy + z)
    BY <1>3, <1>8, <1>10, <2>1, CongSum
  <2> QED BY <2>2, <2>3
<1>12. Cong(v, tz)
  BY <1>7
<1> DEFINE m == a * n
<1>13. Cong(xyz, m)
  <2> DEFINE k == -u
  <2>1. k \in Int /\ xyz = m + k * Prime
    BY <1>1, <1>3
  <2> HIDE DEF k, xyz, m
  <2> QED BY <2>1 DEF Cong
<1>14. m \in Int
  BY <1>3
<1> HIDE DEF v, xy, xxyy, tz, xyz, m
<1>15. Cong(v, xyz)
  BY <1>8, <1>11, <1>12, CongTrans
<1>16. Cong(v, m)
  BY <1>8, <1>13, <1>14, <1>15, CongTrans
<1> QED BY <1>2, <1>7, <1>16 DEF v, m

\* v is a times z, modulo the prime.
IsTimes(v, a, z) == v \in 0 .. Prime - 1 /\ z \in Int /\ Cong(v, a * z)

\* One turn of Horner's rule.
LEMMA HornerCong ==
  ASSUME NEW a \in 0 .. Prime - 1, NEW n \in 0 .. 2 * Base, NEW v, NEW z, IsTimes(v, a, z)
  PROVE  IsTimes(Horner(a, n, v), a, n + Base * z)
<1> DEFINE B == Base  x == Times(v, B)  y == Times(a, n)  s == Plus(x, y)
           az == a * z  bv == B * v  bz == B * az  an == a * n  sum == x + y  all == bz + an
<1>1. Prime \in Nat /\ B \in Nat /\ B \in 0 .. 2 * Base /\ a \in Int /\ n \in Int /\ v \in Int
      /\ v \in 0 .. Prime - 1 /\ z \in Int /\ Cong(v, az)
  BY PrimeFacts DEF IsTimes
<1>2. x \in 0 .. Prime - 1 /\ Cong(x, v * B) /\ y \in 0 .. Prime - 1 /\ Cong(y, an)
  BY <1>1, TimesCong
<1>3. v * B = bv /\ az \in Int /\ bv \in Int /\ an \in Int
  BY <1>1
<1>4. bz \in Int
  <2> HIDE DEF az
  <2> QED BY <1>1, <1>3
<1>5. Cong(x, bv)
  BY <1>2, <1>3
<1>6. Cong(bv, bz)
  <2> HIDE DEF B, az
  <2> QED BY <1>1, <1>3, CongTimes
<1>7. s \in 0 .. Prime - 1 /\ Cong(s, sum)
  BY <1>2, PlusCong
<1>8. Horner(a, n, v) = s
  BY DEF Horner
<1>9. a * (n + Base * z) = all /\ n + Base * z \in Int
  BY <1>1
<1> HIDE DEF x, y, bv, bz, an, B
<1>10. x \in Int /\ y \in Int /\ sum \in Int /\ all \in Int
  BY <1>1, <1>2, <1>3, <1>4
<1>11. Cong(x, bz)
  BY <1>3, <1>4, <1>5, <1>6, <1>10, CongTrans
<1>12. Cong(sum, all)
  BY <1>2, <1>3, <1>4, <1>10, <1>11, CongSum
<1> HIDE DEF s, sum, all
<1>13. s \in Int
  BY <1>1, <1>7
<1>14. Cong(s, all)
  BY <1>7, <1>10, <1>12, <1>13, CongTrans
<1> QED BY <1>7, <1>8, <1>9, <1>14 DEF IsTimes

\* Five limbs that a number may be multiplied with.
Factors == [Limbs -> 0 .. 2 * Base]

\* A number times the number of five limbs.
LEMMA TimesLimbsCong ==
  ASSUME NEW a \in 0 .. Prime - 1, NEW l \in Factors
  PROVE  IsTimes(TimesLimbs(a, l), a, Value(l))
<1> DEFINE n0 == l[0]  n1 == l[1]  n2 == l[2]  n3 == l[3]  n4 == l[4]
           z4 == n4 + Base * 0  z3 == n3 + Base * z4  z2 == n2 + Base * z3  z1 == n1 + Base * z2  z0 == n0 + Base * z1
           v4 == Horner(a, n4, 0)  v3 == Horner(a, n3, v4)  v2 == Horner(a, n2, v3)  v1 == Horner(a, n1, v2)
           v0 == Horner(a, n0, v1)
<1>1. Prime \in Nat /\ Prime > 0 /\ Base \in Nat /\ a \in Int
  BY PrimeFacts
<1>2. /\ n0 \in 0 .. 2 * Base /\ n1 \in 0 .. 2 * Base /\ n2 \in 0 .. 2 * Base
      /\ n3 \in 0 .. 2 * Base /\ n4 \in 0 .. 2 * Base
  BY DEF Factors, Limbs
<1>3. TimesLimbs(a, l) = v0
  BY DEF TimesLimbs
<1>4. Value(l) = z0
  <2>1. Base * 0 = 0 /\ n4 \in Int
    BY <1>1, <1>2
  <2>2. z4 = n4
    BY <2>1
  <2> HIDE DEF z4
  <2> QED BY <2>2 DEF Value
<1> HIDE DEF n0, n1, n2, n3, n4
<1>5. IsTimes(v4, a, z4)
  <2>1. 0 \in 0 .. Prime - 1 /\ a * 0 = 0 /\ 0 \in Int
    BY <1>1
  <2>2. IsTimes(0, a, 0)
    BY <2>1, CongIs DEF IsTimes
  <2> QED BY <1>2, <2>2, HornerCong
<1> HIDE DEF v4, z4
<1>6. IsTimes(v3, a, z3)
  BY <1>2, <1>5, HornerCong
<1> HIDE DEF v3, z3
<1>7. IsTimes(v2, a, z2)
  BY <1>2, <1>6, HornerCong
<1> HIDE DEF v2, z2
<1>8. IsTimes(v1, a, z1)
  BY <1>2, <1>7, HornerCong
<1> HIDE DEF v1, z1
<1>9. IsTimes(v0, a, z0)
  BY <1>2, <1>8, HornerCong
<1> QED BY <1>3, <1>4, <1>9

\* What is carried to the next limb counts as much there.
LEMMA Moved ==
  ASSUME NEW x \in Int, NEW y \in Int, NEW t \in Int, NEW q \in Int, NEW m \in Int, NEW B \in Int,
         x = q * B + m
  PROVE  m + B * (y + q + t) = x + B * (y + t)
<1>1. B * (y + q + t) = q * B + B * (y + t)
  OBVIOUS
<1> QED BY <1>1

\* The limbs as words.
Words == [Limbs -> Nat]

\* The five limbs of a number.
LEMMA FiveLimbs ==
  ASSUME NEW d \in Words
  PROVE  /\ d[0] \in Nat /\ d[1] \in Nat /\ d[2] \in Nat /\ d[3] \in Nat /\ d[4] \in Nat
         /\ DOMAIN d = Limbs
         /\ Value(d) \in Nat
<1>1. d[0] \in Nat /\ d[1] \in Nat /\ d[2] \in Nat /\ d[3] \in Nat /\ d[4] \in Nat /\ DOMAIN d = Limbs
  BY DEF Words, Limbs
<1> DEFINE d0 == d[0]  d1 == d[1]  d2 == d[2]  d3 == d[3]  d4 == d[4]  B == Base
<1>2. B \in Nat
  BY PrimeFacts
<1> HIDE DEF d0, d1, d2, d3, d4, B
<1>3. d0 \in Nat /\ d1 \in Nat /\ d2 \in Nat /\ d3 \in Nat /\ d4 \in Nat
  BY <1>1 DEF d0, d1, d2, d3, d4
<1> DEFINE t3 == d3 + B * d4  t2 == d2 + B * t3  t1 == d1 + B * t2
<1>4. t3 \in Nat
  BY <1>2, <1>3
<1> HIDE DEF t3
<1>5. t2 \in Nat
  BY <1>2, <1>3, <1>4
<1> HIDE DEF t2
<1>6. t1 \in Nat
  BY <1>2, <1>3, <1>5
<1> HIDE DEF t1
<1>7. d0 + B * t1 \in Nat
  BY <1>2, <1>3, <1>6
<1> QED BY <1>1, <1>7 DEF Value, B, t1, t2, t3, d0, d1, d2, d3, d4

\* e is d after a carry out of limb i.
Carried(d, i, e) ==
  /\ e \in Words
  /\ e[i] = d[i] % Base /\ e[i + 1] = d[i + 1] + (d[i] \div Base)
  /\ \A j \in Limbs : j # i /\ j # i + 1 => e[j] = d[j]
  /\ Value(e) = Value(d)

\* A carry that overflows neither a word nor width.
LEMMA CarryFacts ==
  ASSUME NEW d \in Words, NEW i \in 0 .. 3, NEW width \in Nat,
         d[i] \div Base < Word, d[i + 1] + (d[i] \div Base) < width
  PROVE  Carried(d, i, Carry(d, i, width))
<1> DEFINE B == Base  x == d[i]  y == d[i + 1]  q == x \div B  m == x % B  e == Carry(d, i, width)
<1>1. i \in Limbs /\ i + 1 \in Limbs /\ i + 1 # i /\ i \in Int
  BY DEF Limbs
<1>2. B \in Nat /\ B > 0 /\ x \in Nat /\ y \in Nat /\ Word \in Nat
  BY <1>1, PrimeFacts DEF Words, Word
<1>3. q \in Nat /\ m \in 0 .. B - 1 /\ x = q * B + m
  <2> HIDE DEF x, B
  <2>1. x \div B \in Nat /\ x % B \in 0 .. B - 1 /\ x = (x \div B) * B + (x % B)
    BY <1>2, DivFacts
  <2> QED BY <2>1
<1>4. q < Word /\ y + q < width
  OBVIOUS
<1>5. e = [d EXCEPT ![i] = m, ![i + 1] = (y + (q % Word)) % width]
  BY <1>1 DEF Carry, Words
<1> HIDE DEF q, m, x, y, B, e
<1>6. q % Word = q /\ (y + q) % width = y + q
  BY <1>2, <1>3, <1>4
<1>7. e = [d EXCEPT ![i] = m, ![i + 1] = y + q]
  BY <1>5, <1>6
<1>8. /\ e \in Words /\ e[i] = m /\ e[i + 1] = y + q
      /\ \A j \in Limbs : j # i /\ j # i + 1 => e[j] = d[j]
  <2>1. m \in Nat /\ y + q \in Nat
    BY <1>2, <1>3
  <2> DEFINE n == i + 1
  <2>2. n \in Limbs /\ n # i /\ e = [d EXCEPT ![i] = m, ![n] = y + q]
    BY <1>1, <1>7
  <2> HIDE DEF n
  <2>3. e \in Words /\ e[i] = m /\ e[n] = y + q /\ \A j \in Limbs : j # i /\ j # n => e[j] = d[j]
    BY <1>1, <2>1, <2>2 DEF Words
  <2> QED BY <2>3 DEF n
<1>9. Value(e) = Value(d)
  <2> DEFINE t3 == d[3] + B * d[4]  t2 == d[2] + B * t3
  <2>1. /\ d[0] \in Nat /\ d[1] \in Nat /\ d[2] \in Nat /\ d[3] \in Nat /\ d[4] \in Nat
    BY FiveLimbs
  <2>2. t3 \in Nat
    BY <1>2, <2>1
  <2>3. t2 \in Nat
    <3> HIDE DEF t3
    <3> QED BY <1>2, <2>1, <2>2
  <2>4. B * t2 \in Nat /\ B * t3 \in Nat /\ B * d[4] \in Nat
    <3> HIDE DEF t3, t2
    <3> QED BY <1>2, <2>1, <2>2, <2>3
  <2>5. 0 \in Limbs /\ 1 \in Limbs /\ 2 \in Limbs /\ 3 \in Limbs /\ 4 \in Limbs
    BY DEF Limbs
  <2>6. ASSUME NEW t \in Int PROVE m + B * (y + q + t) = x + B * (y + t)
    BY <1>2, <1>3, Moved
  <2>7. CASE i = 0
    <3>1. x = d[0] /\ y = d[1] /\ e[0] = m /\ e[1] = y + q /\ e[2] = d[2] /\ e[3] = d[3] /\ e[4] = d[4]
      BY <1>8, <2>5, <2>7 DEF x, y
    <3>2. m + B * (y + q + B * t2) = x + B * (y + B * t2)
      BY <2>4, <2>6
    <3>3. Value(e) = m + B * (y + q + B * t2)
      BY <3>1 DEF Value, B
    <3>4. Value(d) = x + B * (y + B * t2)
      BY <3>1 DEF Value, B
    <3> QED BY <3>2, <3>3, <3>4
  <2>8. CASE i = 1
    <3>1. x = d[1] /\ y = d[2] /\ e[0] = d[0] /\ e[1] = m /\ e[2] = y + q /\ e[3] = d[3] /\ e[4] = d[4]
      BY <1>8, <2>5, <2>8 DEF x, y
    <3>2. m + B * (y + q + B * t3) = x + B * (y + B * t3)
      BY <2>4, <2>6
    <3>3. Value(e) = d[0] + B * (m + B * (y + q + B * t3))
      BY <3>1 DEF Value, B
    <3>4. Value(d) = d[0] + B * (x + B * (y + B * t3))
      BY <3>1 DEF Value, B
    <3> QED BY <3>2, <3>3, <3>4
  <2>9. CASE i = 2
    <3>1. x = d[2] /\ y = d[3] /\ e[0] = d[0] /\ e[1] = d[1] /\ e[2] = m /\ e[3] = y + q /\ e[4] = d[4]
      BY <1>8, <2>5, <2>9 DEF x, y
    <3>2. m + B * (y + q + B * d[4]) = x + B * (y + B * d[4])
      BY <2>4, <2>6
    <3>3. Value(e) = d[0] + B * (d[1] + B * (m + B * (y + q + B * d[4])))
      BY <3>1 DEF Value, B
    <3>4. Value(d) = d[0] + B * (d[1] + B * (x + B * (y + B * d[4])))
      BY <3>1 DEF Value, B
    <3> QED BY <3>2, <3>3, <3>4
  <2>10. CASE i = 3
    <3>1. x = d[3] /\ y = d[4] /\ e[0] = d[0] /\ e[1] = d[1] /\ e[2] = d[2] /\ e[3] = m /\ e[4] = y + q
      BY <1>8, <2>5, <2>10 DEF x, y
    <3>2. m + B * (y + q + 0) = x + B * (y + 0)
      BY <2>6
    <3>3. m + B * (y + q) = x + B * y
      BY <1>2, <1>3, <3>2
    <3>4. Value(e) = d[0] + B * (d[1] + B * (d[2] + B * (m + B * (y + q))))
      BY <3>1 DEF Value, B
    <3>5. Value(d) = d[0] + B * (d[1] + B * (d[2] + B * (x + B * y)))
      BY <3>1 DEF Value, B
    <3> QED BY <3>3, <3>4, <3>5
  <2> QED BY <2>7, <2>8, <2>9, <2>10
<1> QED BY <1>8, <1>9 DEF Carried, e, m, q, x, y, B

\* e is d after the carry out of its last limb.
Rounded(d, e) ==
  LET c == d[4] \div Base  s == d[0] + c * 5
  IN  /\ e \in Words
      /\ e[0] = s % Base /\ e[1] = d[1] + (s \div Base) /\ e[2] = d[2] /\ e[3] = d[3] /\ e[4] = d[4] % Base
      /\ c \in Nat /\ Value(d) = Value(e) + c * Prime

\* What comes out of the last limb counts five times in the first.
LEMMA AroundFacts ==
  ASSUME NEW d \in Words, NEW c, NEW s, c = d[4] \div Base, s = d[0] + c * 5,
         c < Word, s < Word, d[1] + (s \div Base) < Word
  PROVE  Rounded(d, Around(d))
<1> DEFINE B == Base  x0 == d[0]  x1 == d[1]  x2 == d[2]  x3 == d[3]  x4 == d[4]
           m == x4 % B  q == s \div B  n == s % B  e == Around(d)
<1>1. /\ x0 \in Nat /\ x1 \in Nat /\ x2 \in Nat /\ x3 \in Nat /\ x4 \in Nat /\ DOMAIN d = Limbs
      /\ B \in Nat /\ B > 0 /\ Word \in Nat /\ Prime \in Nat
  BY FiveLimbs, PrimeFacts DEF Word
<1>2. c = x4 \div B
  OBVIOUS
<1>3. s = x0 + c * 5 /\ x1 + q < Word
  OBVIOUS
<1>4. e = [d EXCEPT ![0] = ((x0 + (c % Word) * 5) % Word) % B,
                    ![1] = (x1 + (((x0 + (c % Word) * 5) % Word) \div B)) % Word, ![4] = m]
  BY <1>1 DEF Around, Limbs
<1> HIDE DEF x0, x1, x2, x3, x4, B, e
<1>5. c \in Nat /\ m \in 0 .. B - 1 /\ x4 = c * B + m
  <2>1. x4 \div B \in Nat /\ x4 % B \in 0 .. B - 1 /\ x4 = (x4 \div B) * B + (x4 % B)
    BY <1>1, DivFacts
  <2> QED BY <1>2, <2>1
<1> HIDE DEF m
<1>6. s \in Nat
  BY <1>1, <1>5, <1>3
<1>7. q \in Nat /\ n \in 0 .. B - 1 /\ s = q * B + n
  <2>1. s \div B \in Nat /\ s % B \in 0 .. B - 1 /\ s = (s \div B) * B + (s % B)
    BY <1>1, <1>6, DivFacts
  <2> QED BY <2>1
<1>8. c % Word = c /\ s % Word = s
  BY <1>1, <1>5, <1>6
<1>9. (x0 + (c % Word) * 5) % Word = s
  BY <1>8, <1>3
<1>10. e = [d EXCEPT ![0] = n, ![1] = (x1 + q) % Word, ![4] = m]
  BY <1>4, <1>9
<1> HIDE DEF q, n
<1>11. (x1 + q) % Word = x1 + q
  <2> DEFINE z == x1 + q
  <2>1. z \in Nat /\ z < Word
    BY <1>1, <1>3, <1>7
  <2> HIDE DEF z
  <2>2. z % Word = z
    BY <1>1, <2>1
  <2> QED BY <2>2 DEF z
<1>12. e = [d EXCEPT ![0] = n, ![1] = x1 + q, ![4] = m]
  BY <1>10, <1>11
<1>13. e \in Words /\ e[0] = n /\ e[1] = x1 + q /\ e[2] = x2 /\ e[3] = x3 /\ e[4] = m
  <2>1. n \in Nat /\ x1 + q \in Nat /\ m \in Nat
    BY <1>1, <1>5, <1>7
  <2>2. 0 \in Limbs /\ 1 \in Limbs /\ 2 \in Limbs /\ 3 \in Limbs /\ 4 \in Limbs
    BY DEF Limbs
  <2> QED BY <1>12, <2>1, <2>2 DEF Words, x2, x3
<1>14. Value(d) = Value(e) + c * Prime
  <2> DEFINE p4 == x3 + B * m  p3 == x2 + B * p4  p2 == x1 + B * p3
             w1 == B * c  w2 == B * w1  w3 == B * w2  w4 == B * w3  w5 == B * w4
             u4 == x3 + B * x4  u3 == x2 + B * u4  u2 == x1 + B * u3
  <2>1. Value(d) = x0 + B * u2
    BY DEF Value, x0, x1, x2, x3, x4, B
  <2>2. Value(e) = n + B * (x1 + q + B * p3)
    BY <1>13 DEF Value, B
  <2>3. w1 \in Nat /\ w2 \in Nat /\ w3 \in Nat /\ w4 \in Nat /\ w5 \in Nat
    <3>1. w1 \in Nat
      BY <1>1, <1>5
    <3> HIDE DEF w1
    <3>2. w2 \in Nat
      BY <1>1, <3>1
    <3> HIDE DEF w2
    <3>3. w3 \in Nat
      BY <1>1, <3>2
    <3> HIDE DEF w3
    <3>4. w4 \in Nat
      BY <1>1, <3>3
    <3> HIDE DEF w4
    <3>5. w5 \in Nat
      BY <1>1, <3>4
    <3> QED BY <3>1, <3>2, <3>3, <3>4, <3>5
  <2>4. p4 \in Nat /\ u4 = p4 + w2
    BY <1>1, <1>5
  <2>5. p3 \in Nat /\ u3 = p3 + w3
    <3> HIDE DEF p4, u4, w2
    <3> QED BY <1>1, <2>3, <2>4
  <2>6. p2 \in Nat /\ u2 = p2 + w4
    <3> HIDE DEF p3, u3, w3
    <3> QED BY <1>1, <2>3, <2>5
  <2>7. B * u2 = B * p2 + w5
    <3> HIDE DEF p2, u2, w4
    <3> QED BY <1>1, <2>3, <2>6
  <2>8. n + B * (x1 + q + B * p3) = s + B * p2
    <3> DEFINE t == B * p3
    <3>1. t \in Int /\ p2 = x1 + t
      <4> HIDE DEF p3
      <4> QED BY <1>1, <2>5
    <3> HIDE DEF t
    <3>2. n + B * (x1 + q + t) = s + B * (x1 + t)
      BY <1>1, <1>6, <1>7, <3>1, Moved
    <3> QED BY <3>1, <3>2 DEF t
  <2>9. w5 = c * (Prime + 5)
    <3> DEFINE b2 == B * B  b3 == B * b2  b4 == B * b3  b5 == B * b4
    <3>1. b5 = Prime + 5
      BY PrimeFacts DEF B
    <3>2. b2 \in Nat /\ w2 = c * b2
      BY <1>1, <1>5
    <3> HIDE DEF b2, w2
    <3>3. b3 \in Nat /\ w3 = c * b3
      BY <1>1, <1>5, <3>2
    <3> HIDE DEF b3, w3
    <3>4. b4 \in Nat /\ w4 = c * b4
      BY <1>1, <1>5, <3>3
    <3> HIDE DEF b4, w4
    <3>5. w5 = c * b5
      BY <1>1, <1>5, <3>4
    <3> QED BY <3>1, <3>5
  <2> DEFINE v == B * p2  k == c * Prime
  <2>10. v \in Nat /\ k \in Nat /\ c * (Prime + 5) = k + c * 5
    <3> HIDE DEF p2
    <3> QED BY <1>1, <1>5, <2>6
  <2> HIDE DEF p2, u2, w5, v, k
  <2>11. Value(d) = x0 + v + k + c * 5
    BY <1>1, <2>1, <2>3, <2>7, <2>9, <2>10 DEF v
  <2>12. Value(e) = s + v
    BY <2>2, <2>8 DEF v
  <2> QED BY <1>1, <1>5, <1>3, <2>10, <2>11, <2>12 DEF k
<1> QED BY <1>2, <1>5, <1>13, <1>14, <1>3 DEF Rounded, e, m, n, q, x0, x1, x2, x3, x4, B

-----------------------------------------------------------------------------
\* y has the limbs of x moved up by one, the last of them at the bottom five
\* times.
LEMMA Rotated ==
  ASSUME NEW x \in Words, NEW y \in Words,
         y[0] = x[4] * 5, y[1] = x[0], y[2] = x[1], y[3] = x[2], y[4] = x[3]
  PROVE  Base * Value(x) = Value(y) + x[4] * Prime
<1> DEFINE B == Base  x0 == x[0]  x1 == x[1]  x2 == x[2]  x3 == x[3]  x4 == x[4]
           b2 == B * B  b3 == B * b2  b4 == B * b3  b5 == B * b4
           u4 == x3 + B * x4  u3 == x2 + B * u4  u2 == x1 + B * u3  u1 == x0 + B * u2
           v4 == x2 + B * x3  v3 == x1 + B * v4  v2 == x0 + B * v3
<1>1. /\ x0 \in Nat /\ x1 \in Nat /\ x2 \in Nat /\ x3 \in Nat /\ x4 \in Nat
      /\ B \in Nat /\ Prime \in Nat /\ b5 = Prime + 5
  BY FiveLimbs, PrimeFacts
<1>2. Value(x) = u1 /\ Value(y) = x4 * 5 + B * v2
  BY DEF Value
<1> HIDE DEF x0, x1, x2, x3, x4, B
<1>3. B * u4 = B * x3 + x4 * b2 /\ b2 \in Nat /\ u4 \in Nat
  BY <1>1
<1> HIDE DEF b2, u4
<1>4. B * u3 = B * v4 + x4 * b3 /\ b3 \in Nat /\ u3 \in Nat /\ v4 \in Nat
  <2>1. u3 = v4 + x4 * b2
    BY <1>1, <1>3
  <2>2. v4 \in Nat
    BY <1>1
  <2> HIDE DEF u3, v4
  <2> QED BY <1>1, <1>3, <2>1, <2>2
<1>5. B * u2 = B * v3 + x4 * b4 /\ b4 \in Nat /\ u2 \in Nat /\ v3 \in Nat
  <2> HIDE DEF b3, u3, v4
  <2>1. u2 = v3 + x4 * b3 /\ v3 \in Nat
    BY <1>1, <1>4
  <2> HIDE DEF u2, v3
  <2> QED BY <1>1, <1>4, <2>1
<1>6. B * u1 = B * v2 + x4 * b5
  <2> HIDE DEF b4, u2, v3
  <2>1. u1 = v2 + x4 * b4 /\ v2 \in Nat
    BY <1>1, <1>5
  <2> HIDE DEF u1, v2
  <2> QED BY <1>1, <1>5, <2>1
<1>7. v2 \in Nat
  <2> HIDE DEF v3
  <2> QED BY <1>1, <1>5
<1> HIDE DEF u1, v2, b5
<1>8. x4 * b5 = x4 * Prime + x4 * 5
  BY <1>1
<1>9. B * v2 \in Nat /\ x4 * Prime \in Nat
  BY <1>1, <1>7
<1> QED BY <1>1, <1>2, <1>6, <1>8, <1>9 DEF B, x4

\* The number of scaled and added limbs.
LEMMA Scaled ==
  ASSUME NEW x \in Words, NEW y \in Words, NEW z \in Words, NEW n \in Nat,
         \A i \in Limbs : z[i] = x[i] + n * y[i]
  PROVE  Value(z) = Value(x) + n * Value(y)
<1> DEFINE B == Base  x0 == x[0]  x1 == x[1]  x2 == x[2]  x3 == x[3]  x4 == x[4]
           y0 == y[0]  y1 == y[1]  y2 == y[2]  y3 == y[3]  y4 == y[4]
           t3 == x3 + B * x4  t2 == x2 + B * t3  t1 == x1 + B * t2
           u3 == y3 + B * y4  u2 == y2 + B * u3  u1 == y1 + B * u2
           v4 == x4 + n * y4  v3 == x3 + n * y3 + B * v4  v2 == x2 + n * y2 + B * v3  v1 == x1 + n * y1 + B * v2
<1>1. /\ x0 \in Nat /\ x1 \in Nat /\ x2 \in Nat /\ x3 \in Nat /\ x4 \in Nat
      /\ y0 \in Nat /\ y1 \in Nat /\ y2 \in Nat /\ y3 \in Nat /\ y4 \in Nat
      /\ B \in Nat
  BY FiveLimbs, PrimeFacts
<1>2. z[0] = x0 + n * y0 /\ z[1] = x1 + n * y1 /\ z[2] = x2 + n * y2 /\ z[3] = x3 + n * y3 /\ z[4] = x4 + n * y4
  BY DEF Limbs
<1>3. Value(x) = x0 + B * t1 /\ Value(y) = y0 + B * u1 /\ Value(z) = x0 + n * y0 + B * v1
  BY <1>2 DEF Value
<1> HIDE DEF x0, x1, x2, x3, x4, y0, y1, y2, y3, y4, B
<1>4. v3 = t3 + n * u3 /\ t3 \in Nat /\ u3 \in Nat
  BY <1>1
<1> HIDE DEF v3, t3, u3
<1>5. v2 = t2 + n * u2 /\ t2 \in Nat /\ u2 \in Nat
  BY <1>1, <1>4
<1> HIDE DEF v2, t2, u2
<1>6. v1 = t1 + n * u1 /\ t1 \in Nat /\ u1 \in Nat
  BY <1>1, <1>5
<1> HIDE DEF v1, t1, u1
<1>7. x0 + n * y0 + B * v1 = (x0 + B * t1) + n * (y0 + B * u1)
  BY <1>1, <1>6
<1> QED BY <1>3, <1>7

\* The factors of limb j of a product.
Column(j) == [i \in Limbs |-> Factor(i, j)]

\* Every factor, and that none overflows.
LEMMA FactorFacts ==
  ASSUME r \in Loaded
  PROVE  /\ Factor(0, 0) = r[0] /\ Factor(1, 0) = r[1] /\ Factor(2, 0) = r[2] /\ Factor(3, 0) = r[3] /\ Factor(4, 0) = r[4]
         /\ Factor(0, 1) = r[4] * 5 /\ Factor(1, 1) = r[0] /\ Factor(2, 1) = r[1] /\ Factor(3, 1) = r[2] /\ Factor(4, 1) = r[3]
         /\ Factor(0, 2) = r[3] * 5 /\ Factor(1, 2) = r[4] * 5 /\ Factor(2, 2) = r[0] /\ Factor(3, 2) = r[1] /\ Factor(4, 2) = r[2]
         /\ Factor(0, 3) = r[2] * 5 /\ Factor(1, 3) = r[3] * 5 /\ Factor(2, 3) = r[4] * 5 /\ Factor(3, 3) = r[0] /\ Factor(4, 3) = r[1]
         /\ Factor(0, 4) = r[1] * 5 /\ Factor(1, 4) = r[2] * 5 /\ Factor(2, 4) = r[3] * 5 /\ Factor(3, 4) = r[4] * 5 /\ Factor(4, 4) = r[0]
<1>1. Base \in Nat /\ Base >= 64 /\ Word = Base * 64
  BY PrimeFacts DEF Word
<1>2. r \in Words /\ \A i \in Limbs : r[i] \in Nat /\ (r[i] * 5) % Word = r[i] * 5
  <2>1. r \in Words /\ \A i \in Limbs : r[i] \in 0 .. Base - 1
    BY <1>1 DEF Loaded, Words
  <2>2. ASSUME NEW x \in 0 .. Base - 1 PROVE (x * 5) % Word = x * 5
    BY <1>1
  <2> QED BY <1>1, <2>1, <2>2
<1>3. /\ (r[1] * 5) % Word = r[1] * 5 /\ (r[2] * 5) % Word = r[2] * 5
      /\ (r[3] * 5) % Word = r[3] * 5 /\ (r[4] * 5) % Word = r[4] * 5
  BY <1>2 DEF Limbs
<1> QED BY <1>3 DEF Factor

\* The columns follow one another as powers of Base do.
LEMMA ColumnFacts ==
  ASSUME r \in Loaded, NEW j \in 0 .. 4
  PROVE  /\ Column(j) \in Words /\ \A i \in Limbs : Column(j)[i] <= 5 * Base
         /\ j < 4 => Cong(Base * Value(Column(j)), Value(Column(j + 1)))
<1>1. /\ r[0] \in 0 .. Base - 1 /\ r[1] \in 0 .. Base - 1 /\ r[2] \in 0 .. Base - 1
      /\ r[3] \in 0 .. Base - 1 /\ r[4] \in 0 .. Base - 1 /\ Base \in Nat /\ Prime \in Nat
  BY PrimeFacts DEF Loaded, Limbs
<1>2. ASSUME NEW n \in 0 .. 4 PROVE Column(n) \in Words /\ \A i \in Limbs : Column(n)[i] <= 5 * Base
  <2>1. ASSUME NEW i \in Limbs PROVE Factor(i, n) \in Nat /\ Factor(i, n) <= 5 * Base
    <3>1. i \in 0 .. 4
      BY DEF Limbs
    <3>2. CASE n = 0
      BY <1>1, <3>1, <3>2, FactorFacts
    <3>3. CASE n = 1
      BY <1>1, <3>1, <3>3, FactorFacts
    <3>4. CASE n = 2
      BY <1>1, <3>1, <3>4, FactorFacts
    <3>5. CASE n = 3
      BY <1>1, <3>1, <3>5, FactorFacts
    <3>6. CASE n = 4
      BY <1>1, <3>1, <3>6, FactorFacts
    <3> QED BY <3>2, <3>3, <3>4, <3>5, <3>6
  <2> QED BY <2>1 DEF Column, Words
<1>3. ASSUME j < 4 PROVE Cong(Base * Value(Column(j)), Value(Column(j + 1)))
  <2> DEFINE x == Column(j)  y == Column(j + 1)
  <2>1. x \in Words /\ y \in Words
    BY <1>2, <1>3
  <2>2. ASSUME NEW n \in 0 .. 4
        PROVE  /\ Column(n)[0] = Factor(0, n) /\ Column(n)[1] = Factor(1, n) /\ Column(n)[2] = Factor(2, n)
               /\ Column(n)[3] = Factor(3, n) /\ Column(n)[4] = Factor(4, n)
    BY DEF Column, Limbs
  <2>3. y[0] = x[4] * 5 /\ y[1] = x[0] /\ y[2] = x[1] /\ y[3] = x[2] /\ y[4] = x[3]
    <3>1. CASE j = 0
      BY <2>2, <3>1, FactorFacts
    <3>2. CASE j = 1
      BY <2>2, <3>2, FactorFacts
    <3>3. CASE j = 2
      BY <2>2, <3>3, FactorFacts
    <3>4. CASE j = 3
      BY <2>2, <3>4, FactorFacts
    <3> QED BY <1>3, <3>1, <3>2, <3>3, <3>4
  <2> HIDE DEF x, y
  <2>4. Base * Value(x) = Value(y) + x[4] * Prime /\ x[4] \in Int
    BY <2>1, <2>3, Rotated, FiveLimbs
  <2>5. Cong(Base * Value(x), Value(y))
    BY <2>4 DEF Cong
  <2> QED BY <2>5 DEF x, y
<1> QED BY <1>2, <1>3

\* x is s and t times w, modulo the prime.
Spread(x, s, t, w) ==
  /\ x \in Int /\ s \in Int /\ t \in Int /\ w \in Int
  /\ Cong(x, s + t * w)

\* A number and what is above its lowest limb; a factor and the next one.
Digit(t, a, u) == t \in Int /\ a \in Int /\ u \in Int /\ t = a + Base * u
Follows(w, v) == w \in Int /\ v \in Int /\ Cong(Base * w, v)
Step(s, a, w, y) == s \in Int /\ a \in Int /\ w \in Int /\ y = s + a * w

\* The lowest limb of t goes to the sum.
LEMMA Spreads ==
  ASSUME NEW x, NEW s, NEW t, NEW w, Spread(x, s, t, w),
         NEW a, NEW u, NEW v, NEW y, Digit(t, a, u), Follows(w, v), Step(s, a, w, y)
  PROVE  Spread(x, y, u, v)
<1> DEFINE B == Base  bw == B * w  ubw == u * bw  uv == u * v
<1>1. B \in Nat /\ x \in Int /\ s \in Int /\ t \in Int /\ w \in Int /\ v \in Int /\ a \in Int /\ u \in Int
      /\ t = a + B * u /\ y = s + a * w
  BY PrimeFacts DEF Spread, Digit, Follows, Step
<1>2. Cong(x, s + t * w)
  BY DEF Spread
<1>2a. Cong(bw, v)
  BY DEF Follows
<1> HIDE DEF B
<1>3. bw \in Int /\ y \in Int /\ uv \in Int
  BY <1>1
<1>4. t * w = a * w + u * bw
  <2>1. (a + B * u) * w = a * w + u * (B * w)
    BY <1>1
  <2> QED BY <1>1, <2>1
<1> HIDE DEF bw
<1>5. ubw \in Int
  BY <1>1, <1>3
<1>6. Cong(ubw, uv)
  BY <1>1, <1>2a, <1>3, CongTimes
<1> DEFINE aw == a * w  tw == t * w  stw == s + tw  yu == y + ubw  yv == y + uv
<1>6a. aw \in Int /\ tw = aw + ubw /\ y = s + aw
  BY <1>1, <1>4
<1> HIDE DEF aw, ubw, uv
<1>7. stw = yu /\ Cong(x, stw)
  <2>1. Cong(x, stw)
    BY <1>2
  <2> HIDE DEF tw
  <2> QED BY <1>1, <1>5, <1>6a, <2>1
<1>8. Cong(yu, yv)
  BY <1>3, <1>5, <1>6, CongIs, CongSum
<1>9. yu \in Int /\ yv \in Int
  BY <1>3, <1>5
<1>10. Cong(x, yu)
  <2> HIDE DEF stw, yu
  <2> QED BY <1>7
<1> HIDE DEF yu, yv
<1>11. Cong(x, yv)
  BY <1>1, <1>8, <1>9, <1>10, CongTrans
<1> QED BY <1>1, <1>3, <1>11 DEF Spread, yv, uv

\* The columns of a product, added up with the limbs of a number.
Mixed(a) == [i \in Limbs |-> a[0] * Factor(i, 0) + a[1] * Factor(i, 1) + a[2] * Factor(i, 2)
                                + a[3] * Factor(i, 3) + a[4] * Factor(i, 4)]

\* They are the product with r, modulo the prime.
LEMMA MixedCong ==
  ASSUME r \in Loaded, NEW a \in Words
  PROVE  Mixed(a) \in Words /\ Cong(Value(a) * Value(r), Value(Mixed(a)))
<1> DEFINE c0 == Column(0)  c1 == Column(1)  c2 == Column(2)  c3 == Column(3)  c4 == Column(4)
           w0 == Value(c0)  w1 == Value(c1)  w2 == Value(c2)  w3 == Value(c3)  w4 == Value(c4)
           a0 == a[0]  a1 == a[1]  a2 == a[2]  a3 == a[3]  a4 == a[4]
           t3 == a3 + Base * a4  t2 == a2 + Base * t3  t1 == a1 + Base * t2  t0 == a0 + Base * t1
<1>1. Base \in Nat /\ a0 \in Nat /\ a1 \in Nat /\ a2 \in Nat /\ a3 \in Nat /\ a4 \in Nat
  BY PrimeFacts, FiveLimbs
<1>2. c0 \in Words /\ c1 \in Words /\ c2 \in Words /\ c3 \in Words /\ c4 \in Words
  BY ColumnFacts
<1>3. Cong(Base * w0, w1) /\ Cong(Base * w1, w2) /\ Cong(Base * w2, w3) /\ Cong(Base * w3, w4)
  <2>1. 0 \in 0 .. 4 /\ 1 \in 0 .. 4 /\ 2 \in 0 .. 4 /\ 3 \in 0 .. 4
    OBVIOUS
  <2>2. 0 + 1 = 1 /\ 1 + 1 = 2 /\ 2 + 1 = 3 /\ 3 + 1 = 4
    OBVIOUS
  <2>3. Cong(Base * Value(Column(0)), Value(Column(0 + 1)))
    BY <2>1, ColumnFacts
  <2>4. Cong(Base * Value(Column(1)), Value(Column(1 + 1)))
    BY <2>1, ColumnFacts
  <2>5. Cong(Base * Value(Column(2)), Value(Column(2 + 1)))
    BY <2>1, ColumnFacts
  <2>6. Cong(Base * Value(Column(3)), Value(Column(3 + 1)))
    BY <2>1, ColumnFacts
  <2> QED BY <2>2, <2>3, <2>4, <2>5, <2>6
<1>4. w0 \in Nat /\ w1 \in Nat /\ w2 \in Nat /\ w3 \in Nat /\ w4 \in Nat
  <2> HIDE DEF c0, c1, c2, c3, c4
  <2> QED BY <1>2, FiveLimbs
<1>5. w0 = Value(r)
  <2>1. c0[0] = r[0] /\ c0[1] = r[1] /\ c0[2] = r[2] /\ c0[3] = r[3] /\ c0[4] = r[4]
    BY FactorFacts DEF Column, Limbs
  <2> HIDE DEF c0
  <2> QED BY <2>1 DEF Value
<1>6. Value(a) = t0
  BY DEF Value
<1> HIDE DEF a0, a1, a2, a3, a4, w0, w1, w2, w3, w4
<1>7. t3 \in Nat
  BY <1>1
<1> HIDE DEF t3
<1>8. t2 \in Nat
  BY <1>1, <1>7
<1> HIDE DEF t2
<1>9. t1 \in Nat
  BY <1>1, <1>8
<1> HIDE DEF t1
<1>10. t0 \in Nat
  BY <1>1, <1>9
<1>10a. Digit(t0, a0, t1) /\ Digit(t1, a1, t2) /\ Digit(t2, a2, t3) /\ Digit(t3, a3, a4)
  BY <1>1, <1>7, <1>8, <1>9, <1>10 DEF Digit, t1, t2, t3
<1>10b. Follows(w0, w1) /\ Follows(w1, w2) /\ Follows(w2, w3) /\ Follows(w3, w4)
  BY <1>3, <1>4 DEF Follows
<1> HIDE DEF t0
<1> DEFINE x == t0 * w0  s1 == 0 + a0 * w0  s2 == s1 + a1 * w1  s3 == s2 + a2 * w2  s4 == s3 + a3 * w3
           s5 == s4 + a4 * w4
<1>11. Spread(x, 0, t0, w0)
  <2>1. x \in Int
    BY <1>4, <1>10
  <2>2. x = 0 + t0 * w0
    BY <2>1
  <2> QED BY <1>4, <1>10, <2>1, <2>2, CongIs DEF Spread
<1> HIDE DEF x
<1>12. s1 \in Int /\ Step(0, a0, w0, s1) /\ Spread(x, s1, t1, w1)
  <2>1. s1 \in Int /\ Step(0, a0, w0, s1)
    BY <1>1, <1>4 DEF Step
  <2> HIDE DEF s1
  <2> QED BY <1>10a, <1>10b, <1>11, <2>1, Spreads
<1> HIDE DEF s1
<1>13. s2 \in Int /\ Spread(x, s2, t2, w2)
  <2>1. s2 \in Int /\ Step(s1, a1, w1, s2)
    BY <1>1, <1>4, <1>12 DEF Step
  <2> HIDE DEF s2
  <2> QED BY <1>10a, <1>10b, <1>12, <2>1, Spreads
<1> HIDE DEF s2
<1>14. s3 \in Int /\ Spread(x, s3, t3, w3)
  <2>1. s3 \in Int /\ Step(s2, a2, w2, s3)
    BY <1>1, <1>4, <1>13 DEF Step
  <2> HIDE DEF s3
  <2> QED BY <1>10a, <1>10b, <1>13, <2>1, Spreads
<1> HIDE DEF s3
<1>15. s4 \in Int /\ Spread(x, s4, a4, w4)
  <2>1. s4 \in Int /\ Step(s3, a3, w3, s4)
    BY <1>1, <1>4, <1>14 DEF Step
  <2> HIDE DEF s4
  <2> QED BY <1>10a, <1>10b, <1>14, <2>1, Spreads
<1>16. Cong(x, s5)
  BY <1>15 DEF Spread
<1> DEFINE z == [i \in Limbs |-> 0]
           f1 == [i \in Limbs |-> z[i] + a0 * c0[i]]   f2 == [i \in Limbs |-> f1[i] + a1 * c1[i]]
           f3 == [i \in Limbs |-> f2[i] + a2 * c2[i]]  f4 == [i \in Limbs |-> f3[i] + a3 * c3[i]]
           f5 == [i \in Limbs |-> f4[i] + a4 * c4[i]]
<1>17. Mixed(a) = f5
  <2>1. ASSUME NEW i \in Limbs PROVE Mixed(a)[i] = f5[i]
    <3>1. c0[i] = Factor(i, 0) /\ c1[i] = Factor(i, 1) /\ c2[i] = Factor(i, 2) /\ c3[i] = Factor(i, 3) /\ c4[i] = Factor(i, 4)
      BY DEF Column
    <3>2. /\ Factor(i, 0) \in Nat /\ Factor(i, 1) \in Nat /\ Factor(i, 2) \in Nat
          /\ Factor(i, 3) \in Nat /\ Factor(i, 4) \in Nat
      BY <1>2, <3>1 DEF Words
    <3> DEFINE g0 == Factor(i, 0)  g1 == Factor(i, 1)  g2 == Factor(i, 2)  g3 == Factor(i, 3)  g4 == Factor(i, 4)
    <3>3. Mixed(a)[i] = a0 * g0 + a1 * g1 + a2 * g2 + a3 * g3 + a4 * g4
      BY DEF Mixed, a0, a1, a2, a3, a4
    <3>4. f5[i] = 0 + a0 * g0 + a1 * g1 + a2 * g2 + a3 * g3 + a4 * g4
      BY <3>1
    <3> HIDE DEF g0, g1, g2, g3, g4, f5
    <3>5. a0 * g0 \in Nat
      BY <1>1, <3>2 DEF g0
    <3> QED BY <3>3, <3>4, <3>5
  <2> QED BY <2>1 DEF Mixed
<1> HIDE DEF c0, c1, c2, c3, c4
<1>18. z \in Words /\ Value(z) = 0
  <2>1. Base \in Nat
    BY <1>1
  <2> QED BY <2>1 DEF Words, Limbs, Value
<1>19. f1 \in Words /\ Value(f1) = s1
  <2>1. f1 \in Words
    BY <1>1, <1>2, <1>18 DEF Words
  <2>2. \A i \in Limbs : f1[i] = z[i] + a0 * c0[i]
    OBVIOUS
  <2> HIDE DEF f1, z
  <2>3. Value(f1) = Value(z) + a0 * Value(c0)
    BY <1>1, <1>2, <1>18, <2>1, <2>2, Scaled
  <2> QED BY <1>18, <2>1, <2>3 DEF s1, w0
<1> HIDE DEF f1
<1>20. f2 \in Words /\ Value(f2) = s2
  <2>1. f2 \in Words
    BY <1>1, <1>2, <1>19 DEF Words
  <2>2. \A i \in Limbs : f2[i] = f1[i] + a1 * c1[i]
    OBVIOUS
  <2> HIDE DEF f2
  <2>3. Value(f2) = Value(f1) + a1 * Value(c1)
    BY <1>1, <1>2, <1>19, <2>1, <2>2, Scaled
  <2> QED BY <1>19, <2>1, <2>3 DEF s2, w1
<1> HIDE DEF f2
<1>21. f3 \in Words /\ Value(f3) = s3
  <2>1. f3 \in Words
    BY <1>1, <1>2, <1>20 DEF Words
  <2>2. \A i \in Limbs : f3[i] = f2[i] + a2 * c2[i]
    OBVIOUS
  <2> HIDE DEF f3
  <2>3. Value(f3) = Value(f2) + a2 * Value(c2)
    BY <1>1, <1>2, <1>20, <2>1, <2>2, Scaled
  <2> QED BY <1>20, <2>1, <2>3 DEF s3, w2
<1> HIDE DEF f3
<1>22. f4 \in Words /\ Value(f4) = s4
  <2>1. f4 \in Words
    BY <1>1, <1>2, <1>21 DEF Words
  <2>2. \A i \in Limbs : f4[i] = f3[i] + a3 * c3[i]
    OBVIOUS
  <2> HIDE DEF f4
  <2>3. Value(f4) = Value(f3) + a3 * Value(c3)
    BY <1>1, <1>2, <1>21, <2>1, <2>2, Scaled
  <2> QED BY <1>21, <2>1, <2>3 DEF s4, w3
<1> HIDE DEF f4
<1>23. f5 \in Words /\ Value(f5) = s5
  <2>1. f5 \in Words
    BY <1>1, <1>2, <1>22 DEF Words
  <2>2. \A i \in Limbs : f5[i] = f4[i] + a4 * c4[i]
    OBVIOUS
  <2> HIDE DEF f5
  <2>3. Value(f5) = Value(f4) + a4 * Value(c4)
    BY <1>1, <1>2, <1>22, <2>1, <2>2, Scaled
  <2> QED BY <1>22, <2>1, <2>3 DEF s5, w4
<1> QED BY <1>5, <1>6, <1>16, <1>17, <1>23 DEF x

\* A block with its high bit.
Block(m, high) == [m EXCEPT ![4] = @ + high]

\* The block is added to the sum without a carry.
LEMMA AddedFacts ==
  ASSUME LimbsTypeOK, NEW m \in Loaded, NEW high \in {0, Hibit}, NEW a, a = Added(m, high)
  PROVE  /\ a \in Words /\ Block(m, high) \in Words /\ Block(m, high) \in Factors
         /\ a[0] <= 2 * Base /\ a[1] <= 3 * Base /\ a[2] <= 2 * Base /\ a[3] <= 2 * Base /\ a[4] <= 2 * Base
         /\ h \in Words /\ Value(a) = Value(h) + Value(Block(m, high))
<1> DEFINE B == Base  W == Word  t == Hibit  b == Block(m, high)
<1>1. B \in Nat /\ B >= 64 /\ W = B * 64 /\ t \in Nat /\ 4 * t <= B
  <2>1. B \in Nat /\ B >= 64 /\ W = B * 64 /\ t = B \div 4
    BY PrimeFacts DEF Word, Hibit
  <2> QED BY <2>1
<1>2. /\ h[0] \in 0 .. B - 1 /\ h[1] \in 0 .. B + 62 /\ h[2] \in 0 .. B - 1 /\ h[3] \in 0 .. B - 1 /\ h[4] \in 0 .. B - 1
      /\ h \in [Limbs -> Nat]
  <2>1. h \in [Limbs -> 0 .. B + 62] /\ \A i \in Limbs \ {1} : h[i] < B
    BY DEF LimbsTypeOK
  <2> QED BY <1>1, <2>1 DEF Limbs
<1>3. /\ m[0] \in 0 .. B - 1 /\ m[1] \in 0 .. B - 1 /\ m[2] \in 0 .. B - 1 /\ m[3] \in 0 .. B - 1 /\ m[4] \in 0 .. t - 1
      /\ m \in [Limbs -> 0 .. B - 1]
  BY <1>1 DEF Loaded, Limbs
<1>4. high \in 0 .. t
  BY <1>1
<1>5. b \in [Limbs -> 0 .. 2 * B] /\ b[0] = m[0] /\ b[1] = m[1] /\ b[2] = m[2] /\ b[3] = m[3] /\ b[4] = m[4] + high
  <2>1. m[4] + high \in 0 .. 2 * B
    BY <1>1, <1>3, <1>4
  <2>2. m \in [Limbs -> 0 .. 2 * B]
    BY <1>1, <1>3
  <2> QED BY <1>3, <2>1, <2>2 DEF Block, Limbs
<1> DEFINE sum(i) == h[i] + m[i] + (IF i = 4 THEN high ELSE 0)
<1>6. ASSUME NEW i \in Limbs PROVE sum(i) \in Nat /\ sum(i) % W = sum(i) /\ sum(i) = h[i] + 1 * b[i]
  <2>1. i \in 0 .. 4
    BY DEF Limbs
  <2>2. sum(i) \in Nat /\ sum(i) < W /\ sum(i) = h[i] + b[i]
    BY <1>1, <1>2, <1>3, <1>4, <1>5, <2>1
  <2>3. sum(i) = h[i] + 1 * b[i]
    BY <1>2, <1>5, <2>2
  <2> DEFINE z == sum(i)
  <2>4. z \in Nat /\ z < W
    BY <2>2
  <2> HIDE DEF z
  <2>5. z % W = z
    BY <1>1, <2>4
  <2> QED BY <2>2, <2>3, <2>5 DEF z
<1>7. a = [i \in Limbs |-> sum(i)]
  BY <1>6 DEF Added
<1>8. a \in Words /\ b \in Words /\ h \in Words
  BY <1>2, <1>5, <1>6, <1>7 DEF Words
<1>9. \A i \in Limbs : a[i] = h[i] + 1 * b[i]
  BY <1>6, <1>7
<1>10. /\ a[0] <= 2 * B /\ a[1] <= 3 * B /\ a[2] <= 2 * B /\ a[3] <= 2 * B /\ a[4] <= 2 * B
  <2>1. a[0] = sum(0) /\ a[1] = sum(1) /\ a[2] = sum(2) /\ a[3] = sum(3) /\ a[4] = sum(4)
    BY <1>7 DEF Limbs
  <2> QED BY <1>1, <1>2, <1>3, <1>4, <2>1
<1> HIDE DEF b
<1>11. Value(a) = Value(h) + 1 * Value(b)
  BY <1>8, <1>9, Scaled
<1>12. Value(a) = Value(h) + Value(b)
  <2>1. Value(b) \in Nat
    BY <1>8, FiveLimbs
  <2> QED BY <1>11, <2>1
<1> QED BY <1>5, <1>8, <1>10, <1>12 DEF b, Factors

\* A product is monotone.
LEMMA TermBound ==
  ASSUME NEW x \in Nat, NEW y \in Nat, NEW p \in Nat, NEW q \in Nat, x <= p, y <= q
  PROVE  x * y \in Nat /\ x * y <= p * q
<1>1. p * q = x * y + x * (q - y) + (p - x) * q
  OBVIOUS
<1>2. x * y \in Nat /\ x * (q - y) \in Nat /\ (p - x) * q \in Nat
  OBVIOUS
<1> QED BY <1>1, <1>2

\* The quotient by Base of what is below n * Base * Base.
LEMMA DivBound ==
  ASSUME NEW x \in Nat, NEW y \in Nat, x < (y + 1) * Base
  PROVE  x \div Base \in Nat /\ x \div Base <= y
<1> DEFINE B == Base  q == x \div B
<1>1. B \in Nat /\ B > 0 /\ x < (y + 1) * B
  BY PrimeFacts
<1> HIDE DEF B
<1>2. q \in Nat /\ x % B \in 0 .. B - 1 /\ x = q * B + (x % B)
  BY <1>1, DivFacts
<1> HIDE DEF q
<1>3. CASE q > y
  <2>1. q * B = (y + 1) * B + (q - y - 1) * B /\ (q - y - 1) * B \in Nat /\ (y + 1) * B \in Nat
    BY <1>1, <1>2, <1>3
  <2> DEFINE u == q * B  v == (y + 1) * B  z == (q - y - 1) * B  m == x % B
  <2>2. u = v + z /\ z \in Nat /\ x = u + m /\ m \in Nat /\ x < v /\ v \in Nat
    BY <1>1, <1>2, <2>1
  <2> HIDE DEF u, v, z, m
  <2> QED BY <2>2
<1> QED BY <1>2, <1>3 DEF q, B

\* The limbs that a block is added to.
Loose(a) ==
  /\ a \in Words
  /\ a[0] <= 2 * Base /\ a[1] <= 3 * Base /\ a[2] <= 2 * Base /\ a[3] <= 2 * Base /\ a[4] <= 2 * Base

\* No sum of products overflows.
LEMMA ProductBounds ==
  ASSUME r \in Loaded, NEW a, Loose(a)
  PROVE  /\ Products(a) = Mixed(a)
         /\ \A i \in Limbs : Mixed(a)[i] \in Nat /\ Mixed(a)[i] <= 55 * (Base * Base)
         /\ Mixed(a)[4] <= 11 * (Base * Base)
<1> DEFINE B == Base  bb == B * B  a0 == a[0]  a1 == a[1]  a2 == a[2]  a3 == a[3]  a4 == a[4]
<1>1. B \in Nat /\ B >= 64
  BY PrimeFacts
<1>2. bb \in Nat /\ bb > 0
  <2>1. B * B = B + (B - 1) * B /\ (B - 1) * B \in Nat
    BY <1>1
  <2> QED BY <1>1, <2>1
<1>3. /\ a0 \in Nat /\ a1 \in Nat /\ a2 \in Nat /\ a3 \in Nat /\ a4 \in Nat
      /\ a0 <= 2 * B /\ a1 <= 3 * B /\ a2 <= 2 * B /\ a3 <= 2 * B /\ a4 <= 2 * B
  BY FiveLimbs DEF Loose
<1>4. (2 * B) * (5 * B) = 10 * bb /\ (3 * B) * (5 * B) = 15 * bb /\ (2 * B) * B = 2 * bb /\ (3 * B) * B = 3 * bb
  BY <1>1
<1>5. DWord = 4096 * bb
  BY <1>1 DEF DWord
<1> HIDE DEF bb, B
<1>6. ASSUME NEW g0 \in Nat, NEW g1 \in Nat, NEW g2 \in Nat, NEW g3 \in Nat, NEW g4 \in Nat, NEW n \in {1, 5},
             g0 <= n * B, g1 <= n * B, g2 <= n * B, g3 <= n * B, g4 <= n * B
      PROVE  /\ a0 * g0 + a1 * g1 + a2 * g2 + a3 * g3 + a4 * g4 \in Nat
             /\ a0 * g0 + a1 * g1 + a2 * g2 + a3 * g3 + a4 * g4 <= (11 * n) * bb
  <2> HIDE DEF a0, a1, a2, a3, a4
  <2> DEFINE k == n * B  b2 == 2 * B  b3 == 3 * B  p2 == b2 * k  p3 == b3 * k
             x0 == a0 * g0  x1 == a1 * g1  x2 == a2 * g2  x3 == a3 * g3  x4 == a4 * g4
  <2>1. p2 = 2 * (n * bb) /\ p3 = 3 * (n * bb) /\ n * bb \in Nat
    <3>1. CASE n = 1
      BY <1>1, <1>2, <1>4, <3>1
    <3>2. CASE n = 5
      BY <1>1, <1>2, <1>4, <3>2
    <3> QED BY <3>1, <3>2
  <2>2. /\ k \in Nat /\ b2 \in Nat /\ b3 \in Nat
        /\ g0 <= k /\ g1 <= k /\ g2 <= k /\ g3 <= k /\ g4 <= k
        /\ a0 <= b2 /\ a1 <= b3 /\ a2 <= b2 /\ a3 <= b2 /\ a4 <= b2
    BY <1>1, <1>3, <1>6
  <2> HIDE DEF k, b2, b3
  <2>3. x0 \in Nat /\ x0 <= p2
    BY <1>3, <1>6, <2>2, TermBound
  <2>4. x1 \in Nat /\ x1 <= p3
    BY <1>3, <1>6, <2>2, TermBound
  <2>5. x2 \in Nat /\ x2 <= p2
    BY <1>3, <1>6, <2>2, TermBound
  <2>6. x3 \in Nat /\ x3 <= p2
    BY <1>3, <1>6, <2>2, TermBound
  <2>7. x4 \in Nat /\ x4 <= p2
    BY <1>3, <1>6, <2>2, TermBound
  <2>8. (11 * n) * bb = 11 * (n * bb)
    BY <1>2
  <2> DEFINE y == n * bb
  <2>9. y \in Nat /\ p2 = 2 * y /\ p3 = 3 * y /\ (11 * n) * bb = 11 * y
    BY <2>1, <2>8
  <2> HIDE DEF x0, x1, x2, x3, x4, p2, p3, y
  <2>10. x0 + x1 + x2 + x3 + x4 \in Nat /\ x0 + x1 + x2 + x3 + x4 <= 11 * y
    BY <2>3, <2>4, <2>5, <2>6, <2>7, <2>9
  <2> QED BY <2>9, <2>10 DEF x0, x1, x2, x3, x4
<1>7. ASSUME NEW i \in Limbs PROVE Mixed(a)[i] \in Nat /\ Mixed(a)[i] <= 55 * bb /\ Products(a)[i] = Mixed(a)[i]
  <2> DEFINE g0 == Factor(i, 0)  g1 == Factor(i, 1)  g2 == Factor(i, 2)  g3 == Factor(i, 3)  g4 == Factor(i, 4)
             z == a0 * g0 + a1 * g1 + a2 * g2 + a3 * g3 + a4 * g4
  <2>1. ASSUME NEW j \in 0 .. 4 PROVE Factor(i, j) \in Nat /\ Factor(i, j) <= 5 * B
    <3>1. Column(j) \in Words /\ Column(j)[i] <= 5 * B
      BY ColumnFacts DEF B
    <3> QED BY <3>1 DEF Column, Words
  <2>2. /\ g0 \in Nat /\ g1 \in Nat /\ g2 \in Nat /\ g3 \in Nat /\ g4 \in Nat
        /\ g0 <= 5 * B /\ g1 <= 5 * B /\ g2 <= 5 * B /\ g3 <= 5 * B /\ g4 <= 5 * B
    BY <2>1
  <2>3. Mixed(a)[i] = z /\ Products(a)[i] = z % DWord
    BY DEF Mixed, Products
  <2> HIDE DEF g0, g1, g2, g3, g4, a0, a1, a2, a3, a4
  <2>4. z \in Nat /\ z <= (11 * 5) * bb
    BY <1>6, <2>2
  <2> HIDE DEF z
  <2>5. z < DWord /\ DWord \in Nat
    BY <1>2, <1>5, <2>4
  <2>6. z % DWord = z
    BY <2>4, <2>5
  <2> QED BY <2>3, <2>4, <2>6
<1>8. Mixed(a)[4] <= 11 * bb
  <2> DEFINE g0 == Factor(4, 0)  g1 == Factor(4, 1)  g2 == Factor(4, 2)  g3 == Factor(4, 3)  g4 == Factor(4, 4)
             z == a0 * g0 + a1 * g1 + a2 * g2 + a3 * g3 + a4 * g4
  <2>1. /\ r[0] \in 0 .. B - 1 /\ r[1] \in 0 .. B - 1 /\ r[2] \in 0 .. B - 1 /\ r[3] \in 0 .. B - 1 /\ r[4] \in 0 .. B - 1
    BY DEF Loaded, Limbs, B
  <2>2. /\ g0 \in 0 .. B - 1 /\ g1 \in 0 .. B - 1 /\ g2 \in 0 .. B - 1 /\ g3 \in 0 .. B - 1 /\ g4 \in 0 .. B - 1
    BY <2>1, FactorFacts
  <2>3. /\ g0 \in Nat /\ g1 \in Nat /\ g2 \in Nat /\ g3 \in Nat /\ g4 \in Nat
        /\ g0 <= 1 * B /\ g1 <= 1 * B /\ g2 <= 1 * B /\ g3 <= 1 * B /\ g4 <= 1 * B
    BY <1>1, <2>2
  <2>4. 4 \in Limbs
    BY DEF Limbs
  <2>5. Mixed(a)[4] = z
    BY <2>4 DEF Mixed
  <2> HIDE DEF g0, g1, g2, g3, g4, a0, a1, a2, a3, a4
  <2>6. z <= (11 * 1) * bb
    BY <1>6, <2>3
  <2> QED BY <1>2, <2>5, <2>6
<1>9. Products(a) = Mixed(a)
  BY <1>7 DEF Products, Mixed
<1> QED BY <1>7, <1>8, <1>9 DEF bb, B

\* Six of the code's bits are spare above a limb, and twelve above two.
LEMMA Room ==
  /\ Base \in Nat /\ Base >= 64 /\ Word = 64 * Base
  /\ Base * Base \in Nat /\ Base * Base >= 64 * Base /\ DWord = 4096 * (Base * Base)
<1>1. Base \in Nat /\ Base >= 64
  BY PrimeFacts
<1> DEFINE B == Base  bb == B * B
<1>2. bb = 64 * B + (B - 64) * B /\ (B - 64) * B \in Nat
  BY <1>1
<1>3. B * B * 4096 = 4096 * bb
  BY <1>1
<1> QED BY <1>1, <1>2, <1>3 DEF Word, DWord

\* A carry of what is up to 56 * Base * Base.
LEMMA Carries ==
  ASSUME NEW d \in Words, NEW i \in 0 .. 3, NEW n \in 0 .. 55,
         d[i] <= 55 * (Base * Base) + 56 * Base, d[i + 1] <= n * (Base * Base)
  PROVE  /\ Carried(d, i, Carry(d, i, DWord))
         /\ Carry(d, i, DWord)[i] \in 0 .. Base - 1
         /\ Carry(d, i, DWord)[i + 1] <= n * (Base * Base) + 56 * Base
<1> DEFINE B == Base  bb == B * B  x == d[i]  y == d[i + 1]  q == x \div B  e == Carry(d, i, DWord)  nb == n * bb
<1>1. B \in Nat /\ B >= 64 /\ Word = 64 * B /\ bb \in Nat /\ bb >= 64 * B /\ DWord = 4096 * bb
  BY Room
<1>2. i \in Limbs /\ i + 1 \in Limbs
  BY DEF Limbs
<1>3. x \in Nat /\ y \in Nat /\ x <= 55 * bb + 56 * B /\ y <= nb
  BY <1>2 DEF Words
<1>4. nb \in Nat /\ nb <= 55 * bb
  <2> HIDE DEF bb
  <2>1. 55 * bb = nb + (55 - n) * bb /\ (55 - n) * bb \in Nat /\ nb \in Nat
    BY <1>1
  <2> QED BY <2>1
<1>5. x < (56 * B + 1) * Base
  <2>1. (56 * B + 1) * B = 56 * bb + B
    BY <1>1
  <2> HIDE DEF bb
  <2>2. x < 56 * bb + B
    BY <1>1, <1>3
  <2> QED BY <2>1, <2>2
<1>6. q \in Nat /\ q <= 56 * B
  <2> HIDE DEF x
  <2> QED BY <1>1, <1>3, <1>5, DivBound
<1> HIDE DEF q, bb, nb
<1>7. q < Word /\ y + q < DWord /\ DWord \in Nat
  BY <1>1, <1>3, <1>4, <1>6
<1>8. Carried(d, i, e)
  BY <1>7, CarryFacts DEF q
<1>9. e[i] = x % B /\ e[i + 1] = y + q
  BY <1>8 DEF Carried, q
<1> HIDE DEF x, y, B, e
<1>10. x % B \in 0 .. B - 1 /\ y + q <= nb + 56 * B
  <2>1. x % B \in 0 .. B - 1
    BY <1>1, <1>3
  <2>2. y + q <= nb + 56 * B
    BY <1>1, <1>3, <1>4, <1>6
  <2> QED BY <2>1, <2>2
<1> QED BY <1>8, <1>9, <1>10 DEF e, B, nb, bb

\* One turn of the loop of poly1305_blocks: the limbs stay below their bounds
\* and their number is (h + m) * r modulo the prime.
LEMMA AbsorbFacts ==
  ASSUME LimbsTypeOK, r \in Loaded, NEW m \in Loaded, NEW high \in {0, Hibit}, NEW k, k = AbsorbLimbs(m, high)
  PROVE  /\ k \in [Limbs -> 0 .. Base + 62] /\ \A i \in Limbs \ {1} : k[i] < Base
         /\ k \in Words /\ Cong((Value(h) + Value(Block(m, high))) * Value(r), Value(k))
<1> DEFINE B == Base  bb == B * B  a == Added(m, high)  d == Products(a)
           e1 == Carry(d, 0, DWord)  e2 == Carry(e1, 1, DWord)  e3 == Carry(e2, 2, DWord)  e4 == Carry(e3, 3, DWord)
           v == Value(h) + Value(Block(m, high))
<1>1. k = Around(e4)
  BY DEF AbsorbLimbs, CarryUp
<1>2. B \in Nat /\ B >= 64 /\ Word = 64 * B /\ bb \in Nat /\ bb >= 64 * B
  BY Room
<1>3. Loose(a) /\ Value(a) = v
  BY AddedFacts DEF Loose
<1>4. d \in Words /\ (\A i \in Limbs : d[i] <= 55 * bb) /\ d[4] <= 11 * bb /\ Cong(Value(a) * Value(r), Value(d))
  <2> HIDE DEF a
  <2>1. a \in Words /\ d = Mixed(a)
    BY <1>3, ProductBounds DEF Loose
  <2>2. Mixed(a) \in Words /\ Cong(Value(a) * Value(r), Value(Mixed(a)))
    BY <2>1, MixedCong
  <2>3. (\A i \in Limbs : Mixed(a)[i] <= 55 * bb) /\ Mixed(a)[4] <= 11 * bb
    BY <1>3, ProductBounds
  <2> QED BY <2>1, <2>2, <2>3
<1> HIDE DEF a, d, v, B, bb
<1>5. /\ d[0] <= 55 * bb /\ d[1] <= 55 * bb /\ d[2] <= 55 * bb /\ d[3] <= 55 * bb /\ d[4] <= 11 * bb
      /\ d[0] \in Nat
  BY <1>4, FiveLimbs DEF Limbs
<1>6. /\ e1 \in Words /\ e1[0] \in 0 .. B - 1 /\ e1[1] <= 55 * bb + 56 * B /\ e1[2] = d[2] /\ e1[3] = d[3] /\ e1[4] = d[4]
      /\ Value(e1) = Value(d)
  <2>1. d[0] <= 55 * bb + 56 * B /\ 0 + 1 = 1 /\ 55 \in 0 .. 55 /\ 0 \in 0 .. 3
    BY <1>2, <1>5
  <2>2. Carried(d, 0, e1) /\ e1[0] \in 0 .. B - 1 /\ e1[0 + 1] <= 55 * bb + 56 * B
    <3> HIDE DEF e1
    <3> QED BY <1>4, <1>5, <2>1, Carries DEF B, bb, e1
  <2> HIDE DEF e1
  <2> QED BY <2>1, <2>2 DEF Carried, Limbs
<1> HIDE DEF e1
<1>7. /\ e2 \in Words /\ e2[0] = e1[0] /\ e2[1] \in 0 .. B - 1 /\ e2[2] <= 55 * bb + 56 * B /\ e2[3] = d[3] /\ e2[4] = d[4]
      /\ Value(e2) = Value(d)
  <2>1. 1 + 1 = 2 /\ 55 \in 0 .. 55 /\ 1 \in 0 .. 3
    OBVIOUS
  <2>2. Carried(e1, 1, e2) /\ e2[1] \in 0 .. B - 1 /\ e2[1 + 1] <= 55 * bb + 56 * B
    <3> HIDE DEF e2
    <3> QED BY <1>5, <1>6, <2>1, Carries DEF B, bb, e2
  <2> HIDE DEF e2
  <2> QED BY <1>6, <2>1, <2>2 DEF Carried, Limbs
<1> HIDE DEF e2
<1>8. /\ e3 \in Words /\ e3[0] = e1[0] /\ e3[1] = e2[1] /\ e3[2] \in 0 .. B - 1 /\ e3[3] <= 55 * bb + 56 * B /\ e3[4] = d[4]
      /\ Value(e3) = Value(d)
  <2>1. 2 + 1 = 3 /\ 55 \in 0 .. 55 /\ 2 \in 0 .. 3
    OBVIOUS
  <2>2. Carried(e2, 2, e3) /\ e3[2] \in 0 .. B - 1 /\ e3[2 + 1] <= 55 * bb + 56 * B
    <3> HIDE DEF e3
    <3> QED BY <1>5, <1>7, <2>1, Carries DEF B, bb, e3
  <2> HIDE DEF e3
  <2> QED BY <1>7, <2>1, <2>2 DEF Carried, Limbs
<1> HIDE DEF e3
<1>9. /\ e4 \in Words /\ e4[0] = e1[0] /\ e4[1] = e2[1] /\ e4[2] = e3[2] /\ e4[3] \in 0 .. B - 1 /\ e4[4] <= 11 * bb + 56 * B
      /\ Value(e4) = Value(d)
  <2>1. 3 + 1 = 4 /\ 11 \in 0 .. 55 /\ 3 \in 0 .. 3
    OBVIOUS
  <2>2. Carried(e3, 3, e4) /\ e4[3] \in 0 .. B - 1 /\ e4[3 + 1] <= 11 * bb + 56 * B
    <3> HIDE DEF e4
    <3> QED BY <1>5, <1>8, <2>1, Carries DEF B, bb, e4
  <2> HIDE DEF e4
  <2> QED BY <1>8, <2>1, <2>2 DEF Carried, Limbs
<1> HIDE DEF e4
<1> DEFINE x4 == e4[4]  x0 == e4[0]  x1 == e4[1]  c == x4 \div Base  s == x0 + c * 5  q == s \div Base
<1>10. /\ x4 \in Nat /\ x0 \in 0 .. B - 1 /\ x1 \in 0 .. B - 1 /\ e4[2] \in 0 .. B - 1 /\ e4[3] \in 0 .. B - 1
       /\ x4 <= 11 * bb + 56 * B
  BY <1>6, <1>7, <1>8, <1>9, FiveLimbs
<1> HIDE DEF x4, x0, x1
<1>11. c \in Nat /\ c <= 12 * B
  <2>1. (12 * B + 1) * Base = 12 * bb + B
    BY <1>2 DEF B, bb
  <2>2. x4 < (12 * B + 1) * Base
    BY <1>2, <1>10, <2>1
  <2> QED BY <1>2, <1>10, <2>2, DivBound
<1> HIDE DEF c
<1>12. s \in Nat /\ s < 61 * B
  BY <1>2, <1>10, <1>11
<1>13. q \in Nat /\ q <= 60
  <2>1. (60 + 1) * Base = 61 * B
    BY <1>2 DEF B
  <2> HIDE DEF s
  <2> QED BY <1>12, <2>1, DivBound
<1> HIDE DEF s, q
<1>14. c < Word /\ s < Word /\ x1 + q < Word
  BY <1>2, <1>10, <1>11, <1>12, <1>13
<1>15. Rounded(e4, k)
  BY <1>1, <1>9, <1>14, AroundFacts DEF c, s, q, x4, x0, x1
<1>16. /\ k \in Words /\ k[0] = s % B /\ k[1] = x1 + q /\ k[2] = e4[2] /\ k[3] = e4[3] /\ k[4] = x4 % B
       /\ Value(e4) = Value(k) + c * Prime
  BY <1>15 DEF Rounded, c, s, q, x4, x0, x1, B
<1>17. s % B \in 0 .. B - 1 /\ x4 % B \in 0 .. B - 1
  BY <1>2, <1>10, <1>12
<1>18. /\ k[0] \in 0 .. B - 1 /\ k[1] \in 0 .. B + 62 /\ k[2] \in 0 .. B - 1 /\ k[3] \in 0 .. B - 1 /\ k[4] \in 0 .. B - 1
  BY <1>2, <1>10, <1>13, <1>16, <1>17
<1>19. k \in [Limbs -> 0 .. B + 62] /\ \A i \in Limbs \ {1} : k[i] < B
  <2>1. DOMAIN k = Limbs /\ k = [i \in Limbs |-> k[i]]
    BY <1>16 DEF Words
  <2>2. ASSUME NEW i \in Limbs PROVE k[i] \in 0 .. B + 62 /\ (i # 1 => k[i] < B)
    <3>1. i \in {0, 1, 2, 3, 4}
      BY DEF Limbs
    <3> QED BY <1>2, <1>18, <3>1
  <2> QED BY <2>1, <2>2
<1>20. Cong(v * Value(r), Value(k))
  <2> DEFINE w == v * Value(r)  y == Value(d)  z == Value(k)
  <2>1. Cong(w, y)
    BY <1>3, <1>4
  <2>2. y = z + c * Prime /\ c \in Int
    BY <1>9, <1>11, <1>16
  <2>3. y \in Int /\ z \in Int
    BY <1>4, <1>16, FiveLimbs
  <2>4. w \in Int
    <3>1. Value(h) \in Int /\ Value(Block(m, high)) \in Int
      BY AddedFacts, FiveLimbs
    <3>2. r \in Words
      BY <1>2 DEF Loaded, Words, B
    <3>3. Value(r) \in Int /\ v \in Int
      BY <3>1, <3>2, FiveLimbs DEF v
    <3> QED BY <3>3
  <2> HIDE DEF w, y, z
  <2>5. Cong(y, z)
    BY <2>2 DEF Cong
  <2>6. Cong(w, z)
    BY <2>1, <2>3, <2>4, <2>5, CongTrans
  <2> QED BY <2>6 DEF w, z
<1> QED BY <1>16, <1>19, <1>20 DEF B, v

\* e is d after a carry of nothing or of one out of limb i.
CarriedOne(d, i, e) ==
  /\ e \in Words /\ e[i] \in 0 .. Base - 1 /\ Value(e) = Value(d)
  /\ \/ d[i] < Base /\ e[i] = d[i] /\ e[i + 1] = d[i + 1]
     \/ d[i] >= Base /\ e[i] = d[i] - Base /\ e[i + 1] = d[i + 1] + 1
  /\ \A j \in Limbs : j # i /\ j # i + 1 => e[j] = d[j]

\* The quotient and the remainder of less than two limbs.
LEMMA OneOrNone ==
  ASSUME NEW x \in Nat, x < 2 * Base
  PROVE  /\ x < Base => x \div Base = 0 /\ x % Base = x
         /\ x >= Base => x \div Base = 1 /\ x % Base = x - Base
<1> DEFINE B == Base  q == x \div B  m == x % B
<1>1. B \in Nat /\ B > 0 /\ x < 2 * B
  BY PrimeFacts
<1> HIDE DEF B
<1>2. q \in Nat /\ m \in 0 .. B - 1 /\ x = q * B + m
  BY <1>1, DivFacts
<1> HIDE DEF q, m
<1>3. CASE q = 0
  BY <1>1, <1>2, <1>3 DEF q, m, B
<1>4. CASE q = 1
  BY <1>1, <1>2, <1>4 DEF q, m, B
<1>5. CASE q >= 2
  <2>1. q * B = 2 * B + (q - 2) * B /\ (q - 2) * B \in Nat
    BY <1>1, <1>2, <1>5
  <2> DEFINE u == q * B  z == (q - 2) * B
  <2>2. u = 2 * B + z /\ z \in Nat /\ x = u + m
    BY <1>2, <2>1
  <2> HIDE DEF u, z
  <2> QED BY <1>1, <1>2, <2>2
<1> QED BY <1>2, <1>3, <1>4, <1>5

\* A carry between limbs that are nearly full.
LEMMA CarryOne ==
  ASSUME NEW d \in Words, NEW i \in 0 .. 3, d[i] < 2 * Base, d[i + 1] < 2 * Base
  PROVE  CarriedOne(d, i, Carry(d, i, Word))
<1> DEFINE B == Base  x == d[i]  y == d[i + 1]  q == x \div Base  m == x % Base  e == Carry(d, i, Word)
<1>1. B \in Nat /\ B >= 64 /\ Word = 64 * B /\ Word \in Nat
  BY Room
<1>2. x \in Nat /\ y \in Nat /\ x < 2 * B /\ y < 2 * B
  BY DEF Words, Limbs
<1>3. (x < B /\ q = 0 /\ m = x) \/ (x >= B /\ q = 1 /\ m = x - B)
  <2> HIDE DEF x
  <2> QED BY <1>1, <1>2, OneOrNone
<1> HIDE DEF q, m
<1>4. q < Word /\ y + q < Word
  BY <1>1, <1>2, <1>3
<1>5. Carried(d, i, e)
  BY <1>1, <1>4, CarryFacts DEF q
<1>6. /\ e \in Words /\ e[i] = m /\ e[i + 1] = y + q /\ Value(e) = Value(d)
      /\ \A j \in Limbs : j # i /\ j # i + 1 => e[j] = d[j]
  BY <1>5 DEF Carried, q, m
<1> HIDE DEF x, y, B, e
<1>7. m \in 0 .. B - 1
  BY <1>1, <1>2, <1>3
<1>8. (x < B /\ m = x /\ y + q = y) \/ (x >= B /\ m = x - B /\ y + q = y + 1)
  BY <1>2, <1>3
<1> QED BY <1>6, <1>7, <1>8 DEF CarriedOne, e, B, x, y

\* The limbs between two blocks.
Between(k) ==
  /\ k \in Words
  /\ k[0] < Base /\ k[1] <= Base + 62 /\ k[2] < Base /\ k[3] < Base /\ k[4] < Base

\* Every limb below Base.
Full(k) == k[0] < Base /\ k[1] < Base /\ k[2] < Base /\ k[3] < Base /\ k[4] < Base

\* Carried fully.
LEMMA FullFacts ==
  ASSUME NEW k, Between(k), NEW f, f = Around(CarryUp(k, Word))
  PROVE  f \in Words /\ Full(f) /\ Cong(Value(k), Value(f))
<1> DEFINE B == Base  e1 == Carry(k, 1, Word)  e2 == Carry(e1, 2, Word)  e3 == Carry(e2, 3, Word)
<1>1. B \in Nat /\ B >= 64 /\ Word = 64 * B /\ Word \in Nat
  BY Room
<1>2. f = Around(e3)
  BY DEF CarryUp
<1>3. /\ k \in Words /\ k[0] \in Nat /\ k[1] \in Nat /\ k[2] \in Nat /\ k[3] \in Nat /\ k[4] \in Nat
      /\ k[0] < B /\ k[1] <= B + 62 /\ k[2] < B /\ k[3] < B /\ k[4] < B
  BY FiveLimbs DEF Between
<1> HIDE DEF B
<1>4. CarriedOne(k, 1, e1)
  <2>1. k[1] < 2 * B /\ k[1 + 1] < 2 * B /\ 1 \in 0 .. 3
    BY <1>1, <1>3
  <2> QED BY <1>3, <2>1, CarryOne DEF B
<1>5. /\ e1 \in Words /\ e1[0] = k[0] /\ e1[1] \in 0 .. B - 1 /\ e1[3] = k[3] /\ e1[4] = k[4] /\ Value(e1) = Value(k)
      /\ (e1[2] = k[2] \/ (e1[2] = k[2] + 1 /\ e1[1] <= 62))
  <2> HIDE DEF e1
  <2>1. 1 + 1 = 2
    OBVIOUS
  <2> QED BY <1>1, <1>3, <1>4, <2>1 DEF CarriedOne, Limbs, B
<1> HIDE DEF e1
<1>6. CarriedOne(e1, 2, e2)
  <2>1. e1[2] < 2 * B /\ e1[2 + 1] < 2 * B /\ 2 \in 0 .. 3
    BY <1>1, <1>3, <1>5
  <2> QED BY <1>5, <2>1, CarryOne DEF B
<1>7. /\ e2 \in Words /\ e2[0] = k[0] /\ e2[1] = e1[1] /\ e2[2] \in 0 .. B - 1 /\ e2[4] = k[4] /\ Value(e2) = Value(k)
      /\ (e2[3] = k[3] \/ (e2[3] = k[3] + 1 /\ e1[1] <= 62))
  <2> HIDE DEF e2
  <2>1. 2 + 1 = 3
    OBVIOUS
  <2> QED BY <1>1, <1>3, <1>5, <1>6, <2>1 DEF CarriedOne, Limbs, B
<1> HIDE DEF e2
<1>8. CarriedOne(e2, 3, e3)
  <2>1. e2[3] < 2 * B /\ e2[3 + 1] < 2 * B /\ 3 \in 0 .. 3
    BY <1>1, <1>3, <1>7
  <2> QED BY <1>7, <2>1, CarryOne DEF B
<1>9. /\ e3 \in Words /\ e3[0] = k[0] /\ e3[1] = e1[1] /\ e3[2] = e2[2] /\ e3[3] \in 0 .. B - 1 /\ Value(e3) = Value(k)
      /\ (e3[4] = k[4] \/ (e3[4] = k[4] + 1 /\ e1[1] <= 62))
  <2> HIDE DEF e3
  <2>1. 3 + 1 = 4
    OBVIOUS
  <2> QED BY <1>1, <1>3, <1>7, <1>8, <2>1 DEF CarriedOne, Limbs, B
<1> HIDE DEF e3
<1> DEFINE x4 == e3[4]  x0 == e3[0]  x1 == e3[1]  c == x4 \div Base  m == x4 % Base
           s == x0 + c * 5  q == s \div Base  n == s % Base
<1>10. /\ x4 \in Nat /\ x0 \in 0 .. B - 1 /\ x1 \in 0 .. B - 1
       /\ (x4 < B \/ (x4 = B /\ x1 <= 62))
  BY <1>1, <1>3, <1>5, <1>9, FiveLimbs
<1> HIDE DEF x4, x0, x1
<1>11. (c = 0 /\ m = x4 /\ x4 < B) \/ (c = 1 /\ m = 0 /\ x1 <= 62)
  <2>1. x4 < 2 * Base
    BY <1>1, <1>10 DEF B
  <2>2. /\ x4 < B => c = 0 /\ m = x4
        /\ x4 >= B => c = 1 /\ m = x4 - B
    BY <1>10, <2>1, OneOrNone DEF B
  <2> HIDE DEF c, m
  <2> QED BY <1>1, <1>10, <2>2
<1> HIDE DEF c, m
<1>12. s \in Nat /\ s < 2 * B /\ (c = 0 => s < B)
  BY <1>1, <1>10, <1>11
<1> HIDE DEF s
<1>13. q \in {0, 1} /\ n \in 0 .. B - 1 /\ (c = 0 => q = 0)
  <2>1. /\ s < B => q = 0 /\ n = s
        /\ s >= B => q = 1 /\ n = s - B
    BY <1>12, OneOrNone DEF B
  <2> HIDE DEF q, n
  <2> QED BY <1>1, <1>12, <2>1
<1> HIDE DEF q, n
<1>14. c < Word /\ s < Word /\ x1 + q < Word
  BY <1>1, <1>10, <1>11, <1>12, <1>13
<1>15. Rounded(e3, f)
  BY <1>2, <1>9, <1>14, AroundFacts DEF c, s, q, x4, x0, x1
<1>16. /\ f \in Words /\ f[0] = n /\ f[1] = x1 + q /\ f[2] = e2[2] /\ f[3] = e3[3] /\ f[4] = m
       /\ Value(e3) = Value(f) + c * Prime
  BY <1>9, <1>15 DEF Rounded, c, s, q, n, m, x4, x0, x1
<1>17. f[0] < B /\ f[1] < B /\ f[2] < B /\ f[3] < B /\ f[4] < B
  BY <1>1, <1>7, <1>9, <1>10, <1>11, <1>13, <1>16
<1>18. Cong(Value(k), Value(f))
  <2>1. c \in Int
    BY <1>11
  <2> QED BY <1>9, <1>16, <2>1 DEF Cong
<1> QED BY <1>16, <1>17, <1>18 DEF Full, B

\* Limbs below Base stand for a number below Base^5.
LEMMA FullBound ==
  ASSUME NEW k \in Words, Full(k)
  PROVE  Value(k) <= Prime + 4
<1> DEFINE B == Base  k0 == k[0]  k1 == k[1]  k2 == k[2]  k3 == k[3]  k4 == k[4]
           b2 == B * B  b3 == B * b2  b4 == B * b3  b5 == B * b4
           t3 == k3 + B * k4  t2 == k2 + B * t3  t1 == k1 + B * t2  t0 == k0 + B * t1
<1>1. /\ k0 \in 0 .. B - 1 /\ k1 \in 0 .. B - 1 /\ k2 \in 0 .. B - 1 /\ k3 \in 0 .. B - 1 /\ k4 \in 0 .. B - 1
      /\ B \in Nat /\ Prime \in Nat /\ b5 = Prime + 5
  BY FiveLimbs, PrimeFacts DEF Full
<1>2. Value(k) = t0
  BY DEF Value
<1> HIDE DEF B, k0, k1, k2, k3, k4
<1>3. ASSUME NEW x \in 0 .. B - 1, NEW y, NEW u \in Nat, y \in 0 .. u - 1
      PROVE  x + B * y \in 0 .. B * u - 1
  <2>1. B * u = B * y + B * (u - 1 - y) + B /\ B * (u - 1 - y) \in Nat /\ B * y \in Nat
    BY <1>1, <1>3
  <2> DEFINE p == B * y  o == B * (u - 1 - y)  w == B * u
  <2>2. w = p + o + B /\ o \in Nat /\ p \in Nat
    BY <2>1
  <2> HIDE DEF p, o, w
  <2>3. x + p \in 0 .. w - 1
    BY <1>1, <2>2
  <2> QED BY <2>3 DEF p, w
<1>4. b2 \in Nat /\ t3 \in 0 .. b2 - 1
  BY <1>1, <1>3
<1> HIDE DEF b2, t3
<1>5. b3 \in Nat /\ t2 \in 0 .. b3 - 1
  BY <1>1, <1>3, <1>4
<1> HIDE DEF b3, t2
<1>6. b4 \in Nat /\ t1 \in 0 .. b4 - 1
  BY <1>1, <1>3, <1>5
<1> HIDE DEF b4, t1
<1>7. t0 \in 0 .. b5 - 1
  BY <1>1, <1>3, <1>6
<1> QED BY <1>1, <1>2, <1>7

\* Five added to full limbs, and carried up to the last.
LEMMA FiveMore ==
  ASSUME NEW f \in Words, Full(f), NEW g, g = CarryUp(Carry([f EXCEPT ![0] = @ + 5], 0, Word), Word)
  PROVE  /\ g \in Words /\ g[0] < Base /\ g[1] < Base /\ g[2] < Base /\ g[3] < Base /\ g[4] <= Base
         /\ Value(g) = Value(f) + 5
<1> DEFINE B == Base  d == [f EXCEPT ![0] = @ + 5]
           e0 == Carry(d, 0, Word)  e1 == Carry(e0, 1, Word)  e2 == Carry(e1, 2, Word)  e3 == Carry(e2, 3, Word)
<1>1. B \in Nat /\ B >= 64
  BY Room
<1>2. g = e3
  BY DEF CarryUp
<1>3. /\ f[0] \in Nat /\ f[1] \in Nat /\ f[2] \in Nat /\ f[3] \in Nat /\ f[4] \in Nat /\ DOMAIN f = Limbs
      /\ f[0] < B /\ f[1] < B /\ f[2] < B /\ f[3] < B /\ f[4] < B
  BY FiveLimbs DEF Full
<1>4. d \in Words /\ d[0] = f[0] + 5 /\ d[1] = f[1] /\ d[2] = f[2] /\ d[3] = f[3] /\ d[4] = f[4]
  BY <1>3 DEF Words, Limbs
<1> HIDE DEF d
<1>5. Value(d) = Value(f) + 5
  <2> DEFINE t == B * (f[1] + B * (f[2] + B * (f[3] + B * f[4])))
  <2>1. Value(d) = f[0] + 5 + t /\ Value(f) = f[0] + t
    BY <1>4 DEF Value
  <2>2. Value(f) \in Nat /\ Value(d) \in Nat
    BY <1>4, FiveLimbs
  <2>3. t \in Int
    <3> DEFINE t3 == f[3] + B * f[4]  t2 == f[2] + B * t3  t1 == f[1] + B * t2
    <3>1. t3 \in Int
      BY <1>1, <1>3
    <3> HIDE DEF t3
    <3>2. t2 \in Int
      BY <1>1, <1>3, <3>1
    <3> HIDE DEF t2
    <3>3. t1 \in Int
      BY <1>1, <1>3, <3>2
    <3> HIDE DEF t1
    <3>4. B * t1 \in Int
      BY <1>1, <3>3
    <3> QED BY <3>4 DEF t1, t2, t3
  <2> HIDE DEF t
  <2> QED BY <1>3, <2>1, <2>3
<1> HIDE DEF B
<1>6. CarriedOne(d, 0, e0)
  <2>1. d[0] < 2 * B /\ d[0 + 1] < 2 * B /\ 0 \in 0 .. 3
    BY <1>1, <1>3, <1>4
  <2> QED BY <1>4, <2>1, CarryOne DEF B
<1>7. /\ e0 \in Words /\ e0[0] \in 0 .. B - 1 /\ e0[1] \in 0 .. B /\ e0[2] = f[2] /\ e0[3] = f[3] /\ e0[4] = f[4]
      /\ Value(e0) = Value(d)
  <2> HIDE DEF e0
  <2>1. 0 + 1 = 1
    OBVIOUS
  <2> QED BY <1>1, <1>3, <1>4, <1>6, <2>1 DEF CarriedOne, Limbs, B
<1> HIDE DEF e0
<1>8. CarriedOne(e0, 1, e1)
  <2>1. e0[1] < 2 * B /\ e0[1 + 1] < 2 * B /\ 1 \in 0 .. 3
    BY <1>1, <1>3, <1>7
  <2> QED BY <1>7, <2>1, CarryOne DEF B
<1>9. /\ e1 \in Words /\ e1[0] = e0[0] /\ e1[1] \in 0 .. B - 1 /\ e1[2] \in 0 .. B /\ e1[3] = f[3] /\ e1[4] = f[4]
      /\ Value(e1) = Value(d)
  <2> HIDE DEF e1
  <2>1. 1 + 1 = 2
    OBVIOUS
  <2> QED BY <1>1, <1>3, <1>7, <1>8, <2>1 DEF CarriedOne, Limbs, B
<1> HIDE DEF e1
<1>10. CarriedOne(e1, 2, e2)
  <2>1. e1[2] < 2 * B /\ e1[2 + 1] < 2 * B /\ 2 \in 0 .. 3
    BY <1>1, <1>3, <1>9
  <2> QED BY <1>9, <2>1, CarryOne DEF B
<1>11. /\ e2 \in Words /\ e2[0] = e0[0] /\ e2[1] = e1[1] /\ e2[2] \in 0 .. B - 1 /\ e2[3] \in 0 .. B /\ e2[4] = f[4]
       /\ Value(e2) = Value(d)
  <2> HIDE DEF e2
  <2>1. 2 + 1 = 3
    OBVIOUS
  <2> QED BY <1>1, <1>3, <1>9, <1>10, <2>1 DEF CarriedOne, Limbs, B
<1> HIDE DEF e2
<1>12. CarriedOne(e2, 3, e3)
  <2>1. e2[3] < 2 * B /\ e2[3 + 1] < 2 * B /\ 3 \in 0 .. 3
    BY <1>1, <1>3, <1>11
  <2> QED BY <1>11, <2>1, CarryOne DEF B
<1>13. /\ e3 \in Words /\ e3[0] = e0[0] /\ e3[1] = e1[1] /\ e3[2] = e2[2] /\ e3[3] \in 0 .. B - 1 /\ e3[4] \in 0 .. B
       /\ Value(e3) = Value(d)
  <2> HIDE DEF e3
  <2>1. 3 + 1 = 4
    OBVIOUS
  <2> QED BY <1>1, <1>3, <1>11, <1>12, <2>1 DEF CarriedOne, Limbs, B
<1> HIDE DEF e3
<1> QED BY <1>1, <1>2, <1>5, <1>7, <1>9, <1>11, <1>13 DEF B

\* poly1305_finish reduces the number of the limbs below the prime.
LEMMA FinishReduces ==
  ASSUME Between(h)
  PROVE  /\ FinishLimbs \in [Limbs -> 0 .. Base - 1]
         /\ Value(FinishLimbs) \in 0 .. Prime - 1 /\ Cong(Value(h), Value(FinishLimbs))
<1> DEFINE B == Base  f == Around(CarryUp(h, Word))
           g == CarryUp(Carry([f EXCEPT ![0] = @ + 5], 0, Word), Word)
           top == (g[4] + Word - B) % Word  o == [g EXCEPT ![4] = top]
<1>1. B \in Nat /\ B >= 64 /\ Word = 64 * B /\ Prime \in Nat /\ Prime > 5
  BY Room, PrimeFacts
<1>2. FinishLimbs = IF top >= Word \div 2 THEN f ELSE o
  BY DEF FinishLimbs
<1>3. f \in Words /\ Full(f) /\ Cong(Value(h), Value(f))
  BY FullFacts
<1> HIDE DEF f
<1>4. /\ g \in Words /\ g[0] < Base /\ g[1] < Base /\ g[2] < Base /\ g[3] < Base /\ g[4] <= Base
      /\ Value(g) = Value(f) + 5
  BY <1>3, FiveMore
<1> HIDE DEF g
<1>5. Value(f) \in Nat /\ Value(f) <= Prime + 4 /\ Value(g) \in Nat /\ g[4] \in Nat
  BY <1>3, <1>4, FiveLimbs, FullBound
<1>6. ASSUME NEW k \in Words, Full(k) PROVE k \in [Limbs -> 0 .. Base - 1]
  <2>1. DOMAIN k = Limbs /\ k = [i \in Limbs |-> k[i]]
    BY DEF Words
  <2>2. ASSUME NEW i \in Limbs PROVE k[i] \in 0 .. Base - 1
    <3>1. i \in {0, 1, 2, 3, 4}
      BY DEF Limbs
    <3> QED BY <1>1, <1>6, <3>1, FiveLimbs DEF Full
  <2> QED BY <2>1, <2>2
<1>7. CASE g[4] < B
  <2>1. top = g[4] + Word - B /\ top >= Word \div 2
    <3> DEFINE z == g[4] + Word - B
    <3>1. z \in Nat /\ z < Word /\ z >= 63 * B
      BY <1>1, <1>5, <1>7
    <3>2. Word \div 2 = 32 * B
      BY <1>1
    <3> HIDE DEF z
    <3>3. z % Word = z
      BY <1>1, <3>1
    <3> QED BY <1>1, <3>1, <3>2, <3>3 DEF z
  <2>2. FinishLimbs = f
    BY <1>2, <2>1
  <2>3. Full(g)
    BY <1>4, <1>7 DEF Full
  <2>4. Value(g) <= Prime + 4
    BY <1>4, <2>3, FullBound
  <2>5. Value(f) \in 0 .. Prime - 1
    BY <1>1, <1>4, <1>5, <2>4
  <2> QED BY <1>3, <1>6, <2>2, <2>5
<1>8. CASE g[4] = B
  <2>1. top = 0 /\ ~(top >= Word \div 2)
    <3>1. g[4] + Word - B = Word
      BY <1>1, <1>8
    <3>2. Word % Word = 0 /\ Word \div 2 = 32 * B
      BY <1>1
    <3> QED BY <1>1, <3>1, <3>2
  <2> HIDE DEF top
  <2>2. FinishLimbs = o
    BY <1>2, <2>1
  <2>3. o \in Words /\ o[0] = g[0] /\ o[1] = g[1] /\ o[2] = g[2] /\ o[3] = g[3] /\ o[4] = 0
    BY <1>4, <2>1 DEF Words, Limbs
  <2> HIDE DEF o
  <2>4. Value(g) = Value(o) + (Prime + 5)
    <3> DEFINE b2 == B * B  b3 == B * b2  b4 == B * b3  b5 == B * b4
               g0 == g[0]  g1 == g[1]  g2 == g[2]  g3 == g[3]
               t3 == g3 + B * 0  t2 == g2 + B * t3  t1 == g1 + B * t2
               u3 == g3 + B * B  u2 == g2 + B * u3  u1 == g1 + B * u2
    <3>1. b5 = Prime + 5
      BY PrimeFacts
    <3>2. g0 \in Nat /\ g1 \in Nat /\ g2 \in Nat /\ g3 \in Nat
      BY <1>4, FiveLimbs
    <3>3. Value(g) = g0 + B * u1 /\ Value(o) = g0 + B * t1
      BY <1>8, <2>3 DEF Value
    <3> HIDE DEF B, g0, g1, g2, g3
    <3>4. t3 \in Nat /\ u3 = t3 + b2 /\ b2 \in Nat
      BY <1>1, <3>2
    <3> HIDE DEF t3, u3, b2
    <3>5. t2 \in Nat /\ u2 = t2 + b3 /\ b3 \in Nat
      BY <1>1, <3>2, <3>4
    <3> HIDE DEF t2, u2, b3
    <3>6. t1 \in Nat /\ u1 = t1 + b4 /\ b4 \in Nat
      BY <1>1, <3>2, <3>5
    <3> HIDE DEF t1, u1, b4
    <3>7. B * u1 = B * t1 + b5 /\ B * t1 \in Nat /\ b5 \in Nat
      BY <1>1, <3>6
    <3> QED BY <3>1, <3>2, <3>3, <3>7
  <2>5. Value(o) \in Nat
    BY <2>3, FiveLimbs
  <2>6. Value(o) = Value(f) - Prime /\ Value(o) \in 0 .. Prime - 1
    BY <1>1, <1>4, <1>5, <2>4, <2>5
  <2>7. Full(o)
    BY <1>1, <1>4, <2>3 DEF Full
  <2>8. Cong(Value(h), Value(o))
    <3> DEFINE x == Value(h)  y == Value(f)  z == Value(o)
    <3>1. x \in Int /\ y \in Int /\ z \in Int /\ Cong(x, y)
      BY <1>3, <2>3, FiveLimbs DEF Between
    <3>2. y = z + 1 * Prime
      BY <1>1, <1>5, <2>5, <2>6
    <3> HIDE DEF x, y, z
    <3>3. Cong(y, z)
      BY <3>2 DEF Cong
    <3>4. Cong(x, z)
      BY <3>1, <3>3, CongTrans
    <3> QED BY <3>4 DEF x, z
  <2> QED BY <1>6, <2>2, <2>3, <2>6, <2>7, <2>8
<1> QED BY <1>1, <1>4, <1>5, <1>7, <1>8

-----------------------------------------------------------------------------
\* The inductive invariant: the limbs stand for the polynomial's value, modulo
\* the prime.
LimbsInv == LimbsTypeOK /\ Cong(Value(h), poly)

\* Initially both are zero.
LEMMA InitLimbs == ASSUME PolyLimbsInit PROVE LimbsInv
<1>1. Base \in Nat /\ Base >= 64 /\ Prime \in Nat /\ Prime > 0 /\ MaxBlocks \in Nat
  BY PrimeFacts, LimbAssumption
<1>2. h = [i \in Limbs |-> 0] /\ poly = 0 /\ absorbed = 0 /\ r \in KeyLimbs
  BY DEF PolyLimbsInit
<1>3. LimbsTypeOK
  BY <1>1, <1>2 DEF LimbsTypeOK
<1>4. Value(h) = 0
  <2>1. h[0] = 0 /\ h[1] = 0 /\ h[2] = 0 /\ h[3] = 0 /\ h[4] = 0
    BY <1>2 DEF Limbs
  <2> QED BY <1>1, <2>1 DEF Value
<1>5. Cong(0, 0)
  BY CongIs
<1> QED BY <1>2, <1>3, <1>4, <1>5 DEF LimbsInv

\* A block keeps the invariant.
LEMMA BlockKeeps ==
  ASSUME LimbsInv, NEW m \in BlockLimbs, NEW last \in BOOLEAN, AbsorbBlock(m, last)
  PROVE  LimbsInv'
<1> DEFINE high == IF last THEN 0 ELSE Hibit
           b == Block(m, high)  k == AbsorbLimbs(m, high)
           x == Value(h)  y == Value(b)  z == Value(r)  t == TimesLimbs(1, b)  p == Plus(poly, t)
           v == TimesLimbs(p, r)  kv == Value(k)
<1>1. /\ Base \in Nat /\ Base >= 64 /\ Prime \in Nat /\ Prime > 64 * Base /\ MaxBlocks \in Nat
      /\ r \in Loaded /\ m \in Loaded /\ high \in {0, Hibit} /\ LimbsTypeOK /\ Cong(x, poly)
      /\ poly \in 0 .. Prime - 1 /\ absorbed \in 0 .. MaxBlocks /\ r \in KeyLimbs
  BY PrimeFacts, LimbAssumption DEF LimbsInv, LimbsTypeOK
<1>2. h' = k /\ poly' = v /\ absorbed' = absorbed + 1 /\ absorbed < MaxBlocks /\ r' = r
  BY DEF AbsorbBlock, Block
<1> HIDE DEF high
<1>3. /\ k \in [Limbs -> 0 .. Base + 62] /\ \A i \in Limbs \ {1} : k[i] < Base
      /\ k \in Words /\ Cong((x + y) * z, kv)
  BY <1>1, AbsorbFacts
<1>4. h \in Words /\ b \in Words /\ b \in Factors /\ r \in Words /\ r \in Factors
  <2>1. h \in Words /\ b \in Words /\ b \in Factors
    BY <1>1, AddedFacts
  <2>2. r \in Words /\ r \in Factors
    BY <1>1 DEF Loaded, Words, Factors
  <2> QED BY <2>1, <2>2
<1> HIDE DEF b, k
<1>5. x \in Int /\ y \in Int /\ z \in Int /\ kv \in Int /\ poly \in Int
  BY <1>1, <1>3, <1>4, FiveLimbs
<1>6. t \in 0 .. Prime - 1 /\ Cong(t, y)
  <2>1. 1 \in 0 .. Prime - 1
    BY <1>1
  <2>2. IsTimes(t, 1, y)
    BY <1>4, <2>1, TimesLimbsCong
  <2>3. 1 * y = y
    BY <1>5
  <2> QED BY <2>2, <2>3 DEF IsTimes
<1> HIDE DEF x, y, z, t, kv
<1>7. p \in 0 .. Prime - 1 /\ Cong(p, poly + t)
  BY <1>1, <1>6, PlusCong
<1> HIDE DEF p
<1>8. v \in 0 .. Prime - 1 /\ Cong(v, p * z)
  <2>1. IsTimes(v, p, z)
    BY <1>4, <1>7, TimesLimbsCong DEF z
  <2> QED BY <2>1 DEF IsTimes
<1> HIDE DEF v
<1> DEFINE pt == poly + t  xy == x + y  zp == z * p  zxy == z * xy
<1>9. t \in Int /\ p \in Int /\ v \in Int /\ pt \in Int /\ xy \in Int
  BY <1>1, <1>5, <1>6, <1>7, <1>8
<1>10. Cong(xy, pt)
  <2>1. Cong(y, t)
    BY <1>5, <1>6, <1>9, CongBack
  <2> QED BY <1>1, <1>5, <1>9, <2>1, CongSum
<1>11. Cong(pt, p)
  <2>1. Cong(p, pt)
    BY <1>7
  <2> HIDE DEF pt
  <2> QED BY <1>9, <2>1, CongBack
<1>12. (x + y) * z = zxy /\ p * z = zp /\ zp \in Int /\ zxy \in Int
  BY <1>5, <1>9
<1> HIDE DEF pt, xy
<1>13. Cong(zxy, zp)
  <2>1. Cong(xy, p)
    BY <1>9, <1>10, <1>11, CongTrans
  <2> QED BY <1>5, <1>9, <2>1, CongTimes
<1>14. Cong(kv, zxy) /\ Cong(zp, v)
  <2>1. Cong(zxy, kv) /\ Cong(v, zp)
    BY <1>3, <1>8, <1>12
  <2> HIDE DEF zxy, zp
  <2> QED BY <1>5, <1>9, <1>12, <2>1, CongBack
<1> HIDE DEF zxy, zp
<1>15. Cong(kv, v)
  <2>1. Cong(kv, zp)
    BY <1>5, <1>12, <1>13, <1>14, CongTrans
  <2> QED BY <1>5, <1>9, <1>12, <1>14, <2>1, CongTrans
<1>16. absorbed' \in 0 .. MaxBlocks
  BY <1>1, <1>2
<1>17. LimbsTypeOK'
  BY <1>1, <1>2, <1>3, <1>8, <1>16 DEF LimbsTypeOK
<1>18. Cong(Value(h), poly)'
  BY <1>2, <1>15 DEF kv, Cong, Value, Prime
<1> QED BY <1>17, <1>18 DEF LimbsInv

\* The sum that poly1305_blocks keeps in five limbs stands for the value of
\* the polynomial, and stays within the bounds that make it so.
LEMMA LimbsInvariant == PolyLimbsSpec => []LimbsInv
<1>1. PolyLimbsInit => LimbsInv
  BY InitLimbs
<1>2. LimbsInv /\ [PolyLimbsNext]_polyVars => LimbsInv'
  <2> SUFFICES ASSUME LimbsInv, [PolyLimbsNext]_polyVars PROVE LimbsInv'
    OBVIOUS
  <2>1. CASE UNCHANGED polyVars
    BY <2>1 DEF polyVars, LimbsInv, LimbsTypeOK, Cong, Value, Prime
  <2>2. CASE PolyLimbsNext
    BY <2>2, BlockKeeps DEF PolyLimbsNext
  <2> QED BY <2>1, <2>2
<1> QED BY <1>1, <1>2, PTL DEF PolyLimbsSpec

\* Type correctness of the limbs: between blocks each is below Base but the
\* second, which may exceed it by 62 (poly1305.cpp 79-86).
THEOREM LimbsTypeCorrect == PolyLimbsSpec => []LimbsTypeOK
<1>1. LimbsInv => LimbsTypeOK
  BY DEF LimbsInv
<1> QED BY <1>1, LimbsInvariant, PTL

\* Whatever the key, the blocks and their number, what poly1305_finish makes
\* of the limbs is the value of the polynomial reduced below the prime: no
\* word of poly1305_blocks overflows, and the last subtraction is made exactly
\* when it is due (poly1305.cpp 64-97, 115-148).
THEOREM TagIsThePolynomial == PolyLimbsSpec => []TagIsPolynomial
<1>1. LimbsInv => TagIsPolynomial
  <2> SUFFICES ASSUME LimbsInv PROVE TagIsPolynomial
    OBVIOUS
  <2> DEFINE x == Value(h)  y == Value(FinishLimbs)
  <2>1. Between(h)
    <3>1. Base \in Nat
      BY PrimeFacts
    <3>2. h \in [Limbs -> 0 .. Base + 62] /\ \A i \in Limbs \ {1} : h[i] < Base
      BY DEF LimbsInv, LimbsTypeOK
    <3>3. h \in Words
      BY <3>1, <3>2 DEF Words
    <3> QED BY <3>1, <3>2, <3>3 DEF Between, Limbs
  <2>2. FinishLimbs \in [Limbs -> 0 .. Base - 1] /\ y \in 0 .. Prime - 1 /\ Cong(x, y)
    BY <2>1, FinishReduces
  <2>3. x \in Int /\ poly \in 0 .. Prime - 1 /\ Cong(x, poly)
    BY <2>1, FiveLimbs DEF LimbsInv, LimbsTypeOK, Between
  <2> HIDE DEF x, y
  <2>4. y \in Int /\ poly \in Int
    BY <2>2, <2>3, PrimeFacts
  <2>5. Cong(y, poly)
    <3>1. Cong(y, x)
      BY <2>2, <2>3, <2>4, CongBack
    <3> QED BY <2>3, <2>4, <3>1, CongTrans
  <2>6. y = poly
    BY <2>2, <2>3, <2>5, CongSame
  <2> QED BY <2>2, <2>6 DEF TagIsPolynomial, y
<1> QED BY <1>1, LimbsInvariant, PTL

=============================================================================
