-------------------------- MODULE RingBufferProofs --------------------------
(***************************************************************************)
(* Proofs about RingBuffer, for every capacity, byte size and payload set. *)
(* The inductive invariant is Typed /\ Intact: Intact alone is not         *)
(* inductive (a vector whose offsets may be anything says nothing about    *)
(* where the next byte goes), and Typed alone does not bound the length    *)
(* read back from a prefix, so that Pop could move tail past head.         *)
(***************************************************************************)
EXTENDS RingBuffer, SequenceTheorems, TLAPS

-----------------------------------------------------------------------------
(* Arithmetic and sequences.                                               *)

\* A function on 1 .. n is a sequence of length n.
LEMMA SeqOfFunction ==
  ASSUME NEW S, NEW n \in Nat, NEW f \in [1 .. n -> S]
  PROVE  f \in Seq(S) /\ Len(f) = n
  OBVIOUS

\* Two bytes followed by m: where each position of the whole comes from.
LEMMA TwoThen ==
  ASSUME NEW S, NEW p \in Seq(S), NEW m \in Seq(S), Len(p) = 2
  PROVE  /\ p \o m \in Seq(S)
         /\ Len(p \o m) = 2 + Len(m)
         /\ (p \o m)[1] = p[1]
         /\ (p \o m)[2] = p[2]
         /\ \A k \in 1 .. Len(m) : (p \o m)[2 + k] = m[k]
PROOF
<1>1. /\ p \o m \in Seq(S)
      /\ Len(p \o m) = Len(p) + Len(m)
      /\ \A i \in 1 .. Len(p) + Len(m) :
           (p \o m)[i] = IF i <= Len(p) THEN p[i] ELSE m[i - Len(p)]
  BY ConcatProperties
<1>2. Len(m) \in Nat
  OBVIOUS
<1>3. \A i \in 1 .. 2 + Len(m) :
        (p \o m)[i] = IF i <= 2 THEN p[i] ELSE m[i - 2]
  BY <1>1
<1>4. (p \o m)[1] = p[1] /\ (p \o m)[2] = p[2]
  <2>1. 1 \in 1 .. 2 + Len(m) /\ 2 \in 1 .. 2 + Len(m) /\ 1 <= 2 /\ 2 <= 2
    BY <1>2
  <2> QED BY <2>1, <1>3
<1>5. ASSUME NEW k \in 1 .. Len(m) PROVE (p \o m)[2 + k] = m[k]
  <2>1. 2 + k \in 1 .. 2 + Len(m) /\ ~(2 + k <= 2) /\ (2 + k) - 2 = k
    BY <1>2
  <2> QED BY <2>1, <1>3
<1> QED BY <1>1, <1>2, <1>4, <1>5

\* The remainder of a number below 2 * n takes one subtraction.
LEMMA ModOnce ==
  ASSUME NEW a, NEW b, NEW N,
         a \in Nat, b \in Nat, N \in Nat, a < N, b <= N
  PROVE  (a + b) % N = IF a + b < N THEN a + b ELSE a + b - N
  OBVIOUS

\* A length up to MaxLen survives the two bytes of its prefix.
LEMMA PrefixRoundTrip ==
  ASSUME NEW n \in 0 .. MaxLen
  PROVE  /\ Prefix(n) \in Seq(Byte)
         /\ Len(Prefix(n)) = PrefixSize
         /\ Length(Prefix(n)) = n
PROOF
<1>1. Radix \in Nat /\ Radix >= 2 /\ n \in Nat /\ n < Radix * Radix
  BY RingAssumption DEF MaxLen
<1>2. n % Radix \in 0 .. Radix - 1 /\ n \div Radix \in Nat
  BY <1>1
<1>3. n = (n % Radix) + Radix * (n \div Radix)
  BY <1>1
<1>4. n \div Radix < Radix
  <2>1. SUFFICES ASSUME n \div Radix >= Radix PROVE FALSE
    BY <1>1, <1>2
  <2>2. Radix * (n \div Radix) >= Radix * Radix
    BY <2>1, <1>1, <1>2
  <2>3. Radix * (n \div Radix) \in Nat /\ Radix * Radix \in Nat
    BY <1>1, <1>2
  <2> QED BY <2>2, <2>3, <1>1, <1>2, <1>3
<1> QED BY <1>1, <1>2, <1>3, <1>4 DEF Prefix, Length, Byte, PrefixSize
-----------------------------------------------------------------------------
(* The arithmetic of the offsets, over a vector of N bytes with head at h   *)
(* and tail at t.                                                           *)
Dist(N, h, t) == IF h >= t THEN h - t ELSE N - t + h
Wrap(N, i)    == IF i <= N THEN i ELSE i - N

\* The situation in which n bytes are stored: they fit, and s is the new head.
Fits(N, h, t, n, s) ==
  /\ N \in Nat /\ N >= 2 /\ n \in Nat /\ n >= 1
  /\ h \in Nat /\ h < N /\ t \in Nat /\ t < N
  /\ h >= t => n <= N - h + t - 1
  /\ h < t => n <= t - h - 1
  /\ s = IF N - h < n THEN n - (N - h)
         ELSE IF h + n < N THEN h + n ELSE h + n - N

\* Where head ends up after n bytes were stored in Push.
LEMMA StoreHead ==
  ASSUME NEW N, NEW h, NEW t, NEW n, NEW s, Fits(N, h, t, n, s)
  PROVE  /\ s \in Nat /\ s < N
         /\ Dist(N, h, t) \in Nat /\ Dist(N, h, t) < N
         /\ Dist(N, s, t) = Dist(N, h, t) + n
  BY DEF Fits, Dist

\* No byte that is still unread lies where bytes are stored.
LEMMA StoreMisses ==
  ASSUME NEW N, NEW h, NEW t, NEW n, NEW s, Fits(N, h, t, n, s),
         NEW k \in 1 .. Dist(N, h, t)
  PROVE  LET c == Wrap(N, t + k)
         IN  /\ c \in 1 .. N
             /\ N - h < n => ~(c > h) /\ ~(c <= n - (N - h))
             /\ ~(N - h < n) => c \notin h + 1 .. h + n
  BY DEF Fits, Dist, Wrap

\* The k-th byte stored becomes the k-th one after those unread before.
LEMMA StoreHits ==
  ASSUME NEW N, NEW h, NEW t, NEW n, NEW s, Fits(N, h, t, n, s),
         NEW k \in 1 .. n
  PROVE  LET c == Wrap(N, t + (Dist(N, h, t) + k))
         IN  /\ c \in 1 .. N
             /\ N - h < n /\ c > h  => c - h = k
             /\ N - h < n /\ ~(c > h) => c <= n - (N - h) /\ N - h + c = k
             /\ ~(N - h < n) => c \in h + 1 .. h + n /\ c - h = k
  BY DEF Fits, Dist, Wrap

\* The situation in which n bytes are read at p, o bytes after tail.
After(N, t, o) == IF t + o < N THEN t + o ELSE t + o - N

Reads(N, t, o, n, p) ==
  /\ N \in Nat /\ N >= 2 /\ t \in Nat /\ t < N
  /\ o \in Nat /\ n \in Nat /\ n >= 1 /\ o + n < N
  /\ p = After(N, t, o)

\* Going m bytes ahead and then k more is going m + k ahead.
LEMMA AfterThenWrap ==
  ASSUME NEW N, NEW t, NEW m, NEW k,
         N \in Nat, t \in Nat, t < N, m \in Nat, k \in Nat, m + k < N, k >= 1
  PROVE  Wrap(N, After(N, t, m) + k) = Wrap(N, t + (m + k))
  BY DEF Wrap, After

\* With tail moved m unread bytes ahead, m fewer are unread.
LEMMA DistAfter ==
  ASSUME NEW N, NEW h, NEW t, NEW m,
         N \in Nat, h \in Nat, h < N, t \in Nat, t < N, m \in Nat,
         m <= Dist(N, h, t)
  PROVE  Dist(N, h, After(N, t, m)) = Dist(N, h, t) - m
  BY DEF Dist, After

\* Loading n bytes that are unread ends n bytes further on, in the vector.
LEMMA LoadLands ==
  ASSUME NEW N, NEW t, NEW o, NEW n, NEW p, Reads(N, t, o, n, p)
  PROVE  (IF N - p < n THEN (n - (N - p)) % N ELSE (n + p) % N)
           = After(N, t, o + n)
PROOF
<1>1. p \in Nat /\ p < N
  BY DEF Reads, After
<1>2. CASE N - p < n
  <2>1. n - (N - p) \in 0 .. N - 1
    BY <1>1, <1>2 DEF Reads
  <2>2. (n - (N - p)) % N = n - (N - p)
    BY <2>1 DEF Reads
  <2> QED BY <1>2, <2>2 DEF Reads, After
<1>3. CASE ~(N - p < n)
  <2>1. (p + n) % N = IF p + n < N THEN p + n ELSE p + n - N
    BY <1>1, ModOnce DEF Reads
  <2>2. p + n = n + p
    BY <1>1 DEF Reads
  <2> QED BY <1>3, <2>1, <2>2 DEF Reads, After
<1> QED BY <1>2, <1>3

\* The k-th byte loaded from o positions after tail is the one o + k after it.
LEMMA LoadHits ==
  ASSUME NEW N, NEW t, NEW o, NEW n, NEW p, Reads(N, t, o, n, p),
         NEW k \in 1 .. n
  PROVE  Wrap(N, t + (o + k)) = IF k <= N - p THEN p + k ELSE k - (N - p)
  BY DEF Reads, After, Wrap
-----------------------------------------------------------------------------
(* One ring.                                                               *)

\* A ring with a vector has its size less one as used and free bytes together.
LEMMA UsedAndFree ==
  ASSUME NEW rb \in Live
  PROVE  /\ Used(rb) \in 0 .. Size(rb) - 1
         /\ FreeSpace(rb) \in 0 .. Size(rb) - 1
         /\ Used(rb) + FreeSpace(rb) = Size(rb) - 1
         /\ Size(rb) \in Nat /\ Size(rb) >= 2
         /\ IsEmpty(rb) <=> Used(rb) = 0
  BY SMTT(30) DEF Live, Used, FreeSpace, Size, IsEmpty

\* The cell of the k-th unread byte, with the wrap written out.
LEMMA CellWraps ==
  ASSUME NEW rb, NEW k,
         Len(rb.buf) \in Nat, rb.tail \in Nat, k \in Nat
  PROVE  Cell(rb, k) = Wrap(Len(rb.buf), rb.tail + k)
  BY DEF Cell, Size, Wrap

\* Storing data that fits appends it to the unread bytes.
LEMMA StoreAppends ==
  ASSUME NEW rb \in Live, NEW data \in Seq(Byte),
         Len(data) >= 1, Len(data) <= FreeSpace(rb)
  PROVE  /\ Store(rb, data) \in Live
         /\ Size(Store(rb, data)) = Size(rb)
         /\ Used(Store(rb, data)) = Used(rb) + Len(data)
         /\ \A k \in 1 .. Used(rb) :
              Unread(Store(rb, data))[k] = Unread(rb)[k]
         /\ \A k \in 1 .. Len(data) :
              Unread(Store(rb, data))[Used(rb) + k] = data[k]
PROOF
<1> DEFINE N     == Len(rb.buf)
           n     == Len(data)
           space == N - rb.head
           st    == Store(rb, data)
           at(i) == IF space < n
                    THEN IF i > rb.head THEN data[i - rb.head]
                         ELSE IF i <= n - space THEN data[space + i]
                         ELSE rb.buf[i]
                    ELSE IF i \in rb.head + 1 .. rb.head + n
                         THEN data[i - rb.head] ELSE rb.buf[i]
<1>1. /\ N \in Nat /\ N >= 2 /\ n \in Nat /\ n >= 1
      /\ rb.head \in Nat /\ rb.head < N /\ rb.tail \in Nat /\ rb.tail < N
      /\ rb.head >= rb.tail => n <= N - rb.head + rb.tail - 1
      /\ rb.head < rb.tail => n <= rb.tail - rb.head - 1
  BY DEF Live, FreeSpace, Size
<1>b. rb.buf \in Seq(Byte) /\ DOMAIN rb.buf = 1 .. N
  BY DEF Live
<1>2. /\ st = [buf  |-> [i \in 1 .. N |-> at(i)],
                head |-> IF space < n THEN n - space
                         ELSE IF rb.head + n < N THEN rb.head + n
                         ELSE rb.head + n - N,
                tail |-> rb.tail]
  <2>1. (rb.head + n) % N = IF rb.head + n < N THEN rb.head + n
                            ELSE rb.head + n - N
    <3>1. n <= N
      BY <1>1
    <3> HIDE DEF N, n
    <3> QED BY <1>1, <3>1, ModOnce
  <2>2. rb = [buf |-> rb.buf, head |-> rb.head, tail |-> rb.tail]
    BY DEF Live
  <2>3. CASE space < n
    <3>1. st = [rb EXCEPT !.buf = [i \in DOMAIN rb.buf |->
                                     IF i > rb.head THEN data[i - rb.head]
                                     ELSE IF i <= n - space THEN data[space + i]
                                     ELSE rb.buf[i]],
                          !.head = n - space]
      BY <2>3 DEF Store, Size
    <3> QED BY <3>1, <1>1, <1>b, <2>2, <2>3
  <2>4. CASE ~(space < n)
    <3>1. st = [rb EXCEPT !.buf = [i \in DOMAIN rb.buf |->
                                     IF i \in rb.head + 1 .. rb.head + n
                                     THEN data[i - rb.head] ELSE rb.buf[i]],
                          !.head = (rb.head + n) % N]
      BY <2>4 DEF Store, Size
    <3> QED BY <3>1, <1>1, <1>b, <2>1, <2>2, <2>4
  <2> QED BY <2>3, <2>4
<1>h. /\ st.head = IF space < n THEN n - space
                   ELSE IF rb.head + n < N THEN rb.head + n
                   ELSE rb.head + n - N
      /\ st.tail = rb.tail
  BY <1>2
<1>f. Fits(N, rb.head, rb.tail, n, st.head)
  BY <1>1, <1>h DEF Fits
<1>u. Used(rb) = Dist(N, rb.head, rb.tail)
  BY DEF Used, Size, Dist
<1>3. \A i \in 1 .. N : at(i) \in Byte
  <2>1. \A j \in 1 .. n : data[j] \in Byte
    OBVIOUS
  <2>2. \A j \in 1 .. N : rb.buf[j] \in Byte
    BY <1>b
  <2> SUFFICES ASSUME NEW i \in 1 .. N PROVE at(i) \in Byte
    OBVIOUS
  <2>3. CASE space < n
    BY <1>1, <2>1, <2>2, <2>3, SMTT(30)
  <2>4. CASE ~(space < n)
    <3>1. CASE i \in rb.head + 1 .. rb.head + n
      <4>1. i - rb.head \in 1 .. n
        BY <1>1, <3>1
      <4> QED BY <4>1, <2>1, <2>4, <3>1
    <3>2. CASE i \notin rb.head + 1 .. rb.head + n
      BY <2>2, <2>4, <3>2
    <3> QED BY <3>1, <3>2
  <2> QED BY <2>3, <2>4
<1> HIDE DEF at
<1>4. st.buf = [i \in 1 .. N |-> at(i)]
  BY <1>2
<1>5. st.buf \in Seq(Byte) /\ Len(st.buf) = N
  BY <1>1, <1>3, <1>4, SeqOfFunction
<1>6. /\ Used(st) = Dist(N, st.head, rb.tail)
      /\ Used(st) = Used(rb) + n
      /\ Used(rb) \in Nat
      /\ st.head \in Nat /\ st.head < N
  BY <1>f, <1>h, <1>5, <1>u, StoreHead DEF Used, Size, Dist
<1>7. st \in Live /\ Size(st) = N
  BY <1>1, <1>2, <1>h, <1>5, <1>6 DEF Live, Size
<1>8. ASSUME NEW k \in 1 .. Used(rb)
      PROVE  Unread(st)[k] = Unread(rb)[k]
  <2> DEFINE c == Wrap(N, rb.tail + k)
  <2>0. k \in Nat
    BY <1>6
  <2>1. Cell(st, k) = c /\ Cell(rb, k) = c
    BY <2>0, <1>1, <1>h, <1>5, CellWraps
  <2>2. /\ c \in 1 .. N
        /\ space < n => ~(c > rb.head) /\ ~(c <= n - space)
        /\ ~(space < n) => c \notin rb.head + 1 .. rb.head + n
    BY <1>f, <1>u, StoreMisses
  <2>3. at(c) = rb.buf[c]
    BY <2>2 DEF at
  <2>4. k \in 1 .. Used(st)
    BY <1>6, <1>1
  <2> HIDE DEF c
  <2> QED BY <2>1, <2>2, <2>3, <2>4, <1>4 DEF Unread
<1>9. ASSUME NEW k \in 1 .. n
      PROVE  Unread(st)[Used(rb) + k] = data[k]
  <2> DEFINE c == Wrap(N, rb.tail + (Used(rb) + k))
  <2>0. Used(rb) + k \in Nat
    BY <1>6
  <2>1. Cell(st, Used(rb) + k) = c
    BY <2>0, <1>1, <1>h, <1>5, CellWraps
  <2>2. /\ c \in 1 .. N
        /\ space < n /\ c > rb.head => c - rb.head = k
        /\ space < n /\ ~(c > rb.head) => c <= n - space /\ space + c = k
        /\ ~(space < n) => c \in rb.head + 1 .. rb.head + n /\ c - rb.head = k
    BY <1>f, <1>u, StoreHits
  <2>3. at(c) = data[k]
    BY <2>2 DEF at
  <2>4. Used(rb) + k \in 1 .. Used(st)
    BY <1>6, <1>1
  <2> HIDE DEF c
  <2> QED BY <2>1, <2>2, <2>3, <2>4, <1>4 DEF Unread
<1> QED BY <1>7, <1>6, <1>h, <1>8, <1>9 DEF Size

\* Loading n bytes from o bytes after tail reads unread bytes o+1 .. o+n and
\* ends o + n bytes after tail.
At(rb, o) == After(Size(rb), rb.tail, o)

\* Pop's loads of bytes that are unread return exactly those bytes.
LEMMA LoadReads ==
  ASSUME NEW rb \in Live, NEW o \in Nat, NEW n \in Nat, n >= 1,
         o + n <= Used(rb)
  PROVE  /\ LoadBytes(rb, At(rb, o), n)
              = [k \in 1 .. n |-> Unread(rb)[o + k]]
         /\ LoadPos(rb, At(rb, o), n) = At(rb, o + n)
PROOF
<1> DEFINE N == Len(rb.buf)
           p == At(rb, o)
<1>1. /\ N \in Nat /\ N >= 2
      /\ rb.head \in Nat /\ rb.head < N /\ rb.tail \in Nat /\ rb.tail < N
      /\ Used(rb) \in Nat /\ Used(rb) < N /\ Size(rb) = N
  BY UsedAndFree DEF Live, Size
<1>2. Reads(N, rb.tail, o, n, p)
  BY <1>1 DEF Reads, At
<1>3. LoadPos(rb, p, n) = At(rb, o + n)
  BY <1>1, <1>2, LoadLands DEF LoadPos, At
<1> HIDE DEF p
<1>4. ASSUME NEW k \in 1 .. n
      PROVE  (IF k <= N - p THEN rb.buf[p + k] ELSE rb.buf[k - (N - p)])
               = Unread(rb)[o + k]
  <2>1. o + k \in 1 .. Used(rb) /\ o + k \in Nat
    BY <1>1
  <2>2. Unread(rb)[o + k] = rb.buf[Cell(rb, o + k)]
    BY <2>1 DEF Unread
  <2>3. Cell(rb, o + k) = Wrap(N, rb.tail + (o + k))
    BY <2>1, <1>1, CellWraps
  <2>4. Wrap(N, rb.tail + (o + k))
          = IF k <= N - p THEN p + k ELSE k - (N - p)
    BY <1>2, LoadHits
  <2>5. Unread(rb)[o + k]
          = rb.buf[IF k <= N - p THEN p + k ELSE k - (N - p)]
    BY <2>2, <2>3, <2>4
  <2> QED BY <2>5
<1>5. LoadBytes(rb, p, n) = [k \in 1 .. n |-> Unread(rb)[o + k]]
  BY <1>1, <1>4 DEF LoadBytes
<1> QED BY <1>3, <1>5 DEF p

\* Moving tail m unread bytes ahead drops exactly those bytes.
LEMMA MoveTail ==
  ASSUME NEW rb \in Live, NEW m \in Nat, m <= Used(rb)
  PROVE  LET st == [rb EXCEPT !.tail = At(rb, m)]
         IN  /\ st \in Live
             /\ Size(st) = Size(rb)
             /\ Used(st) = Used(rb) - m
             /\ \A k \in 1 .. Used(rb) - m : Unread(st)[k] = Unread(rb)[m + k]
PROOF
<1> DEFINE N  == Len(rb.buf)
           st == [rb EXCEPT !.tail = At(rb, m)]
<1>1. /\ N \in Nat /\ N >= 2
      /\ rb.head \in Nat /\ rb.head < N /\ rb.tail \in Nat /\ rb.tail < N
      /\ Used(rb) \in Nat /\ Used(rb) < N /\ Size(rb) = N
  BY UsedAndFree DEF Live, Size
<1>2. st.buf = rb.buf /\ st.head = rb.head /\ st.tail = After(N, rb.tail, m)
  BY <1>1 DEF Live, At
<1>3. After(N, rb.tail, m) \in Nat /\ After(N, rb.tail, m) < N
  BY <1>1 DEF After
<1>4. st \in Live
  BY <1>1, <1>2, <1>3 DEF Live
<1> HIDE DEF st
<1>5. Used(rb) = Dist(N, rb.head, rb.tail)
  BY DEF Used, Size, Dist
<1>6. Used(st) = Dist(N, rb.head, After(N, rb.tail, m))
  BY <1>2 DEF Used, Size, Dist
<1>7. Used(st) = Used(rb) - m
  BY <1>1, <1>5, <1>6, DistAfter
<1>8. ASSUME NEW k \in 1 .. Used(rb) - m
      PROVE  Unread(st)[k] = Unread(rb)[m + k]
  <2>1. /\ k \in Nat /\ m + k \in Nat
        /\ k \in 1 .. Used(st) /\ m + k \in 1 .. Used(rb)
    BY <1>1, <1>7
  <2>2. Cell(st, k) = Wrap(N, After(N, rb.tail, m) + k)
    BY <2>1, <1>1, <1>2, <1>3, CellWraps
  <2>3. Cell(rb, m + k) = Wrap(N, rb.tail + (m + k))
    BY <2>1, <1>1, CellWraps
  <2>4. Wrap(N, After(N, rb.tail, m) + k) = Wrap(N, rb.tail + (m + k))
    BY <2>1, <1>1, AfterThenWrap, SMTT(30)
  <2> QED BY <2>1, <2>2, <2>3, <2>4, <1>2 DEF Unread
<1> QED BY <1>1, <1>2, <1>4, <1>7, <1>8 DEF st, Size
-----------------------------------------------------------------------------
(* One ring and the messages it holds.                                     *)

\* off lays the messages of q out in the unread bytes of rb.
LaidOut(rb, q, off) ==
  /\ off \in [1 .. Len(q) + 1 -> 0 .. Used(rb)]
  /\ off[1] = 0
  /\ off[Len(q) + 1] = Used(rb)
  /\ \A i, j \in 1 .. Len(q) + 1 : i <= j => off[i] <= off[j]
  /\ \A i \in 1 .. Len(q) :
       /\ Len(q[i]) \in 1 .. MaxLen
       /\ off[i + 1] = off[i] + PrefixSize + Len(q[i])
       /\ \A k \in 1 .. PrefixSize + Len(q[i]) :
            Unread(rb)[off[i] + k] = Frame(q[i])[k]

\* A frame of n bytes that starts after a bytes and ends by u lies in 1 .. u.
LEMMA InFrame ==
  ASSUME NEW a \in Nat, NEW n \in Nat, NEW u \in Nat, a + PrefixSize + n <= u,
         NEW k \in 1 .. PrefixSize + n
  PROVE  a + k \in 1 .. u
  BY DEF PrefixSize

\* Layout, said of the unread bytes alone.
LEMMA LayoutIsLaidOut ==
  ASSUME NEW rb, NEW q
  PROVE  Layout(rb, q) <=> \E off : LaidOut(rb, q, off)
  BY ZenonT(40) DEF Layout, LaidOut

\* The bytes of a frame: the two of the length, then the message.
LEMMA FrameIs ==
  ASSUME NEW m \in Seq(Byte), Len(m) \in 1 .. MaxLen
  PROVE  /\ Frame(m) \in Seq(Byte)
         /\ Len(Frame(m)) = PrefixSize + Len(m)
         /\ Frame(m)[1] = Prefix(Len(m))[1]
         /\ Frame(m)[2] = Prefix(Len(m))[2]
         /\ \A k \in 1 .. Len(m) : Frame(m)[PrefixSize + k] = m[k]
PROOF
<1> DEFINE p == Prefix(Len(m))
<1>1. p \in Seq(Byte) /\ Len(p) = 2
  BY PrefixRoundTrip DEF PrefixSize
<1> HIDE DEF p
<1> QED BY <1>1, TwoThen DEF Frame, p, PrefixSize

\* A ring with head and tail equal holds no message.
LEMMA EmptyLayout ==
  ASSUME NEW rb \in RingType, rb.head = rb.tail
  PROVE  Layout(rb, <<>>)
PROOF
<1>1. Used(rb) = 0
  BY DEF Used, RingType, Live, Vacated
<1>2. LaidOut(rb, <<>>, [i \in 1 .. 1 |-> 0])
  BY <1>1 DEF LaidOut
<1> QED BY <1>2, LayoutIsLaidOut

\* An accepted message is stored whole, after the messages already there.
LEMMA PushLayout ==
  ASSUME NEW rb \in RingType, NEW q \in Seq(Seq(Byte)), NEW data \in Seq(Byte),
         Accepts(rb, data), Layout(rb, q)
  PROVE  /\ rb \in Live
         /\ Pushed(rb, data) \in Live
         /\ Size(Pushed(rb, data)) = Size(rb)
         /\ Used(Pushed(rb, data)) = Used(rb) + PrefixSize + Len(data)
         /\ Layout(Pushed(rb, data), Append(q, data))
PROOF
<1> DEFINE n   == Len(data)
           u   == Used(rb)
           p   == Prefix(n)
           pre == Store(rb, p)
           st  == Pushed(rb, data)
           qq  == Append(q, data)
           l   == Len(q)
<1>1. rb \in Live
  BY DEF Accepts, FreeSpace, RingType, Vacated, Size, PrefixSize
<1>2. n \in 1 .. MaxLen /\ n \in Nat /\ n >= 1 /\ n + 2 <= FreeSpace(rb)
  BY DEF Accepts, PrefixSize
<1>3. /\ p \in Seq(Byte) /\ Len(p) = 2
  BY <1>2, PrefixRoundTrip DEF PrefixSize
<1>4. /\ u \in Nat /\ FreeSpace(rb) \in Nat /\ Size(rb) \in Nat
      /\ u + FreeSpace(rb) = Size(rb) - 1
  BY <1>1, UsedAndFree
<1>p. Pushed(rb, data) = Store(pre, data)
  BY DEF Pushed
<1> HIDE DEF p
<1>5. /\ pre \in Live /\ Size(pre) = Size(rb) /\ Used(pre) = u + 2
      /\ \A k \in 1 .. u : Unread(pre)[k] = Unread(rb)[k]
      /\ \A k \in 1 .. 2 : Unread(pre)[u + k] = p[k]
  <2>1. Len(p) >= 1 /\ Len(p) <= FreeSpace(rb)
    BY <1>2, <1>3, <1>4
  <2>2. /\ pre \in Live
        /\ Size(pre) = Size(rb)
        /\ Used(pre) = u + Len(p)
        /\ \A k \in 1 .. u : Unread(pre)[k] = Unread(rb)[k]
        /\ \A k \in 1 .. Len(p) : Unread(pre)[u + k] = p[k]
    BY <1>1, <1>3, <2>1, StoreAppends
  <2> QED BY <2>2, <1>3
<1> HIDE DEF pre
<1>6. n <= FreeSpace(pre)
  <2>1. /\ FreeSpace(pre) \in Nat
        /\ Used(pre) + FreeSpace(pre) = Size(pre) - 1
    BY <1>5, UsedAndFree
  <2> QED BY <2>1, <1>2, <1>4, <1>5
<1>7. /\ st \in Live /\ Size(st) = Size(rb) /\ Used(st) = (u + 2) + n
      /\ \A k \in 1 .. u + 2 : Unread(st)[k] = Unread(pre)[k]
      /\ \A k \in 1 .. n : Unread(st)[(u + 2) + k] = data[k]
  <2>1. /\ Store(pre, data) \in Live
        /\ Size(Store(pre, data)) = Size(pre)
        /\ Used(Store(pre, data)) = Used(pre) + n
        /\ \A k \in 1 .. Used(pre) :
             Unread(Store(pre, data))[k] = Unread(pre)[k]
        /\ \A k \in 1 .. n :
             Unread(Store(pre, data))[Used(pre) + k] = data[k]
    BY <1>2, <1>5, <1>6, StoreAppends
  <2> QED BY <2>1, <1>5, <1>p
<1> HIDE DEF st
<1>8. \A k \in 1 .. u : Unread(st)[k] = Unread(rb)[k]
  BY <1>4, <1>5, <1>7
<1>9. ASSUME NEW k \in 1 .. 2 + n PROVE Unread(st)[u + k] = Frame(data)[k]
  <2>1. CASE k \in 1 .. 2
    <3>1. u + k \in 1 .. u + 2
      BY <1>4, <2>1
    <3>2. Unread(st)[u + k] = p[k]
      BY <3>1, <2>1, <1>5, <1>7
    <3>3. Frame(data)[1] = p[1] /\ Frame(data)[2] = p[2]
      BY <1>2, FrameIs DEF p
    <3>4. k = 1 \/ k = 2
      BY <2>1
    <3> QED BY <3>2, <3>3, <3>4
  <2>2. CASE k \notin 1 .. 2
    <3>1. k - 2 \in 1 .. n /\ 2 + (k - 2) = k /\ (u + 2) + (k - 2) = u + k
      BY <1>2, <1>4, <2>2
    <3>2. Unread(st)[u + k] = data[k - 2]
      BY <3>1, <1>7
    <3> QED BY <3>1, <3>2, <1>2, FrameIs DEF PrefixSize
  <2> QED BY <2>1, <2>2
<1>10. PICK off : LaidOut(rb, q, off)
  BY LayoutIsLaidOut
<1> DEFINE offs == [i \in 1 .. l + 2 |-> IF i <= l + 1 THEN off[i]
                                        ELSE (u + 2) + n]
<1>11. /\ qq \in Seq(Seq(Byte)) /\ Len(qq) = l + 1 /\ l \in Nat
       /\ \A i \in 1 .. l : qq[i] = q[i]
       /\ qq[l + 1] = data
  BY AppendProperties
<1> HIDE DEF qq
<1>12. \A i \in 1 .. l + 1 : off[i] \in Nat /\ off[i] <= u
  BY <1>4, <1>10 DEF LaidOut
<1>13. offs \in [1 .. Len(qq) + 1 -> 0 .. Used(st)]
  <2>1. ASSUME NEW i \in 1 .. l + 2
        PROVE  (IF i <= l + 1 THEN off[i] ELSE (u + 2) + n) \in 0 .. (u + 2) + n
    <3>1. u \in Nat /\ n \in Nat
      BY <1>2, <1>4
    <3>2. CASE i <= l + 1
      <4>1. i \in 1 .. l + 1
        BY <1>11, <3>2
      <4> HIDE DEF l, u, n
      <4> QED BY <1>12, <3>1, <3>2, <4>1
    <3>3. CASE ~(i <= l + 1)
      <4> HIDE DEF l, u, n
      <4> QED BY <3>1, <3>3
    <3> QED BY <3>2, <3>3
  <2>2. 1 .. Len(qq) + 1 = 1 .. l + 2
    BY <1>11
  <2> QED BY <2>1, <2>2, <1>7
<1>14. offs[1] = 0 /\ offs[Len(qq) + 1] = Used(st)
  BY <1>7, <1>10, <1>11 DEF LaidOut
<1>15. \A i, j \in 1 .. Len(qq) + 1 : i <= j => offs[i] <= offs[j]
  BY <1>2, <1>4, <1>10, <1>11, <1>12, SMTT(30) DEF LaidOut
<1>16. ASSUME NEW i \in 1 .. Len(qq)
       PROVE  /\ Len(qq[i]) \in 1 .. MaxLen
              /\ offs[i + 1] = offs[i] + PrefixSize + Len(qq[i])
              /\ \A k \in 1 .. PrefixSize + Len(qq[i]) :
                   Unread(st)[offs[i] + k] = Frame(qq[i])[k]
  <2>1. CASE i \in 1 .. l
    <3>1. /\ i + 1 \in 1 .. l + 1 /\ i \in 1 .. l + 1
          /\ offs[i] = off[i] /\ offs[i + 1] = off[i + 1] /\ qq[i] = q[i]
      BY <2>1, <1>11
    <3>2. /\ Len(q[i]) \in 1 .. MaxLen
          /\ off[i + 1] = off[i] + PrefixSize + Len(q[i])
          /\ \A k \in 1 .. PrefixSize + Len(q[i]) :
               Unread(rb)[off[i] + k] = Frame(q[i])[k]
      BY <2>1, <1>10 DEF LaidOut
    <3>3. ASSUME NEW k \in 1 .. PrefixSize + Len(q[i])
          PROVE  off[i] + k \in 1 .. u
      <4>1. /\ off[i] \in Nat /\ off[i + 1] <= u /\ Len(q[i]) \in Nat
            /\ off[i] + PrefixSize + Len(q[i]) <= u
        BY <3>1, <3>2, <1>12, SMTT(30)
      <4> QED BY <4>1, <3>2, <1>4, InFrame
    <3> HIDE DEF offs
    <3> QED BY <3>1, <3>2, <3>3, <1>8
  <2>2. CASE i = l + 1
    <3>1. off[l + 1] = u
      BY <1>10 DEF LaidOut
    <3>2. offs[i] = u /\ offs[i + 1] = (u + 2) + n /\ qq[i] = data
      BY <2>2, <3>1, <1>11
    <3> QED BY <3>2, <1>2, <1>4, <1>9 DEF PrefixSize
  <2>3. i \in 1 .. l \/ i = l + 1
    BY <1>11
  <2> QED BY <2>1, <2>2, <2>3
<1> HIDE DEF offs
<1>17. LaidOut(st, qq, offs)
  BY <1>13, <1>14, <1>15, <1>16 DEF LaidOut
<1>18. Layout(st, qq)
  BY <1>17, LayoutIsLaidOut
<1> QED BY <1>1, <1>4, <1>7, <1>18, <1>2 DEF st, qq, PrefixSize

\* No message is left in a ring with head and tail equal.
LEMMA EmptyHoldsNothing ==
  ASSUME NEW rb \in RingType, NEW q \in Seq(Seq(Byte)), IsEmpty(rb), Layout(rb, q)
  PROVE  q = <<>>
PROOF
<1>1. Used(rb) = 0
  BY DEF IsEmpty, Used, RingType, Live, Vacated
<1>2. PICK off : LaidOut(rb, q, off)
  BY LayoutIsLaidOut
<1>3. SUFFICES ASSUME q # <<>> PROVE FALSE
  OBVIOUS
<1>4. Len(q) \in Nat /\ Len(q) >= 1 /\ Len(q[1]) \in Nat
  BY <1>3
<1>5. off[1] = 0 /\ off[1 + 1] = off[1] + PrefixSize + Len(q[1])
  <2>1. 1 \in 1 .. Len(q)
    BY <1>4
  <2>2. off[1] = 0 /\ \A i \in 1 .. Len(q) : off[i + 1] = off[i] + PrefixSize + Len(q[i])
    BY <1>2 DEF LaidOut
  <2> QED BY <2>1, <2>2
<1>6. off[2] \in 0 .. 0
  <2>1. 2 \in 1 .. Len(q) + 1
    BY <1>4
  <2>2. off \in [1 .. Len(q) + 1 -> 0 .. 0]
    BY <1>1, <1>2 DEF LaidOut
  <2> QED BY <2>1, <2>2
<1> QED BY <1>4, <1>5, <1>6 DEF PrefixSize

\* The bytes at tail are the frame of the oldest message, and Pop reads and
\* drops exactly that frame.
LEMMA PopLayout ==
  ASSUME NEW rb \in RingType, NEW q \in Seq(Seq(Byte)),
         ~IsEmpty(rb), Layout(rb, q)
  PROVE  /\ rb \in Live
         /\ q # <<>>
         /\ FrontData(rb) = Head(q)
         /\ Popped(rb) \in Live
         /\ Size(Popped(rb)) = Size(rb)
         /\ Used(Popped(rb)) = Used(rb) - (PrefixSize + Len(Head(q)))
         /\ Layout(Popped(rb), Tail(q))
PROOF
<1> DEFINE m  == q[1]
           n  == Len(m)
           u  == Used(rb)
           l  == Len(q)
           st == Popped(rb)
           qq == Tail(q)
<1>1. rb \in Live
  BY DEF IsEmpty, RingType, Vacated
<1>2. u \in Nat /\ u # 0
  BY <1>1, UsedAndFree
<1>3. PICK off : LaidOut(rb, q, off)
  BY LayoutIsLaidOut
<1>4. l \in Nat /\ l # 0 /\ q # <<>>
  BY <1>2, <1>3 DEF LaidOut
<1>5. m \in Seq(Byte) /\ Head(q) = m /\ 1 \in 1 .. l
  BY <1>4
<1>6. /\ n \in 1 .. MaxLen /\ n \in Nat /\ n >= 1
      /\ off[1] = 0 /\ off[2] = 2 + n
      /\ \A k \in 1 .. 2 + n : Unread(rb)[k] = Frame(m)[k]
  <2>1. /\ n \in 1 .. MaxLen
        /\ off[1] = 0 /\ off[1 + 1] = off[1] + PrefixSize + n
        /\ \A k \in 1 .. PrefixSize + n : Unread(rb)[off[1] + k] = Frame(m)[k]
    BY <1>3, <1>5 DEF LaidOut
  <2>2. n \in Nat /\ n >= 1
    BY <1>5, <2>1
  <2> QED BY <2>1, <2>2 DEF PrefixSize
<1>7. \A i \in 1 .. l + 1 : off[i] \in Nat /\ off[i] <= u
  BY <1>2, <1>3 DEF LaidOut
<1>8. 2 + n <= u
  BY <1>4, <1>6, <1>7
<1>9. rb.tail = At(rb, 0)
  BY <1>1 DEF At, After, Live, Size
<1>10. /\ LoadBytes(rb, rb.tail, 2) = [k \in 1 .. 2 |-> Unread(rb)[0 + k]]
       /\ LoadPos(rb, rb.tail, 2) = At(rb, 2)
  <2>1. 0 + 2 <= u /\ 0 + 2 = 2 /\ 2 >= 1 /\ 0 \in Nat /\ 2 \in Nat
    BY <1>2, <1>6, <1>8
  <2>2. /\ LoadBytes(rb, At(rb, 0), 2) = [k \in 1 .. 2 |-> Unread(rb)[0 + k]]
        /\ LoadPos(rb, At(rb, 0), 2) = At(rb, 0 + 2)
    BY <2>1, <1>1, LoadReads
  <2> QED BY <2>1, <2>2, <1>9
<1>11. FrontLen(rb) = n
  <2>1. FrontLen(rb) = Unread(rb)[1] + Radix * Unread(rb)[2]
    BY <1>10 DEF FrontLen, Length, PrefixSize
  <2>2. Unread(rb)[1] = Prefix(n)[1] /\ Unread(rb)[2] = Prefix(n)[2]
    <3>1. 1 \in 1 .. 2 + n /\ 2 \in 1 .. 2 + n
      BY <1>6
    <3> QED BY <3>1, <1>5, <1>6, FrameIs
  <2>3. Length(Prefix(n)) = n
    BY <1>6, PrefixRoundTrip
  <2> QED BY <2>1, <2>2, <2>3 DEF Length
<1>12. /\ LoadBytes(rb, At(rb, 2), n) = [k \in 1 .. n |-> Unread(rb)[2 + k]]
       /\ LoadPos(rb, At(rb, 2), n) = At(rb, 2 + n)
  BY <1>1, <1>6, <1>8, LoadReads, ZenonT(40)
<1>13. FrontData(rb) = m
  <2>1. FrontData(rb) = [k \in 1 .. n |-> Unread(rb)[2 + k]]
    BY <1>10, <1>11, <1>12 DEF FrontData, PrefixSize
  <2>2. ASSUME NEW k \in 1 .. n PROVE Unread(rb)[2 + k] = m[k]
    <3>1. 2 + k \in 1 .. 2 + n
      BY <1>6
    <3> QED BY <3>1, <1>5, <1>6, FrameIs DEF PrefixSize
  <2>3. m = [k \in 1 .. n |-> m[k]]
    BY <1>5
  <2> QED BY <2>1, <2>2, <2>3
<1>14. st = [rb EXCEPT !.tail = At(rb, 2 + n)]
  BY <1>10, <1>11, <1>12 DEF Popped, PrefixSize
<1>15. /\ st \in Live /\ Size(st) = Size(rb) /\ Used(st) = u - (2 + n)
       /\ \A k \in 1 .. u - (2 + n) : Unread(st)[k] = Unread(rb)[(2 + n) + k]
  <2>1. 2 + n \in Nat
    BY <1>6
  <2> QED BY <2>1, <1>1, <1>8, <1>14, MoveTail, ZenonT(40)
<1> HIDE DEF st
<1> DEFINE offs == [i \in 1 .. l |-> off[i + 1] - (2 + n)]
<1>16. /\ qq \in Seq(Seq(Byte)) /\ Len(qq) = l - 1
       /\ \A i \in 1 .. l - 1 : qq[i] = q[i + 1]
  BY <1>4, HeadTailProperties
<1> HIDE DEF qq
<1>17. \A i \in 1 .. l : off[i + 1] \in 2 + n .. u
  <2>1. \A i \in 1 .. l : 2 \in 1 .. l + 1 /\ i + 1 \in 1 .. l + 1 /\ 2 <= i + 1
    BY <1>4
  <2>2. \A i \in 1 .. l : off[2] <= off[i + 1]
    BY <2>1, <1>3 DEF LaidOut
  <2> QED BY <2>1, <2>2, <1>2, <1>6, <1>7
<1>18. offs \in [1 .. Len(qq) + 1 -> 0 .. Used(st)]
  <2>1. ASSUME NEW i \in 1 .. l PROVE off[i + 1] - (2 + n) \in 0 .. u - (2 + n)
    BY <1>2, <1>6, <1>17
  <2>2. 1 .. Len(qq) + 1 = 1 .. l
    BY <1>4, <1>16
  <2> QED BY <2>1, <2>2, <1>15
<1>19. offs[1] = 0 /\ offs[Len(qq) + 1] = Used(st)
  <2>1. offs[1] = off[2] - (2 + n) /\ offs[l] = off[l + 1] - (2 + n)
    BY <1>4
  <2>2. off[l + 1] = u
    BY <1>3 DEF LaidOut
  <2> QED BY <2>1, <2>2, <1>4, <1>6, <1>15, <1>16
<1>20. \A i, j \in 1 .. Len(qq) + 1 : i <= j => offs[i] <= offs[j]
  <2>1. SUFFICES ASSUME NEW i \in 1 .. l, NEW j \in 1 .. l, i <= j
                 PROVE  off[i + 1] - (2 + n) <= off[j + 1] - (2 + n)
    BY <1>4, <1>16
  <2>2. off[i + 1] <= off[j + 1]
    <3>1. i + 1 \in 1 .. l + 1 /\ j + 1 \in 1 .. l + 1 /\ i + 1 <= j + 1
      BY <2>1, <1>4
    <3> QED BY <3>1, <1>3 DEF LaidOut
  <2>3. off[i + 1] \in Nat /\ off[j + 1] \in Nat
    BY <1>6, <1>17
  <2> QED BY <2>2, <2>3, <1>6, SMTT(30)
<1>21. ASSUME NEW i \in 1 .. Len(qq)
       PROVE  /\ Len(qq[i]) \in 1 .. MaxLen
              /\ offs[i + 1] = offs[i] + PrefixSize + Len(qq[i])
              /\ \A k \in 1 .. PrefixSize + Len(qq[i]) :
                   Unread(st)[offs[i] + k] = Frame(qq[i])[k]
  <2>1. /\ i \in Nat /\ i + 1 \in 1 .. l /\ i \in 1 .. l /\ qq[i] = q[i + 1]
        /\ offs[i] = off[i + 1] - (2 + n)
        /\ offs[i + 1] = off[(i + 1) + 1] - (2 + n)
    BY <1>4, <1>16
  <2> HIDE DEF offs
  <2>2. /\ Len(q[i + 1]) \in 1 .. MaxLen
        /\ off[(i + 1) + 1] = off[i + 1] + PrefixSize + Len(q[i + 1])
        /\ \A k \in 1 .. PrefixSize + Len(q[i + 1]) :
             Unread(rb)[off[i + 1] + k] = Frame(q[i + 1])[k]
    BY <2>1, <1>3 DEF LaidOut
  <2>3. /\ off[i + 1] \in Nat /\ off[i + 1] >= 2 + n
        /\ off[(i + 1) + 1] <= u /\ Len(q[i + 1]) \in Nat
        /\ 2 + n \in Nat /\ 2 + n <= off[i + 1]
    <3>1. off[i + 1] \in 2 + n .. u /\ off[(i + 1) + 1] \in 2 + n .. u
      BY <2>1, <1>17
    <3>2. Len(q[i + 1]) \in Nat
      BY <2>1
    <3> QED BY <3>1, <3>2, <1>2, <1>6, SMTT(30)
  <2> DEFINE a == off[i + 1]
             b == off[(i + 1) + 1]
             w == Len(q[i + 1])
             c == 2 + n
  <2>6. /\ a \in Nat /\ w \in Nat /\ u \in Nat /\ c \in Nat /\ c <= a
        /\ b = a + 2 + w /\ b <= u
    BY <1>2, <2>2, <2>3 DEF PrefixSize
  <2>7. /\ offs[i] = a - c /\ offs[i + 1] = b - c
        /\ \A k \in 1 .. u - c : Unread(st)[k] = Unread(rb)[c + k]
    BY <1>15, <2>1
  <2> HIDE DEF a, b, w, c
  <2>4. ASSUME NEW k \in 1 .. PrefixSize + w
        PROVE  Unread(st)[offs[i] + k] = Unread(rb)[a + k]
    <3>1. (a - c) + k \in 1 .. u - c /\ c + ((a - c) + k) = a + k
      BY <2>6 DEF PrefixSize
    <3> QED BY <3>1, <2>7
  <2>5. offs[i + 1] = offs[i] + PrefixSize + w
    BY <2>6, <2>7 DEF PrefixSize
  <2> USE DEF a, w
  <2> QED BY <2>1, <2>2, <2>4, <2>5
<1> HIDE DEF offs
<1>22. LaidOut(st, qq, offs)
  BY <1>18, <1>19, <1>20, <1>21 DEF LaidOut
<1>23. Layout(st, qq)
  BY <1>22, LayoutIsLaidOut
<1> QED BY <1>1, <1>4, <1>5, <1>13, <1>15, <1>23 DEF st, qq, PrefixSize
-----------------------------------------------------------------------------
(* The invariant.                                                          *)

\* The types of the variables, which is TypeOK but for the vectors' sizes.
Typed ==
  /\ ring  \in [Rings -> RingType]
  /\ queue \in [Rings -> Seq(Seq(Byte))]
  /\ ret   \in [op : {"none", "push", "pop", "clear", "swap", "move"},
                ok : BOOLEAN, data : Seq(Byte)]

IInv == Typed /\ Intact

\* What an operation has to establish about the rings it touches.
Good(rb, q) == rb \in RingType /\ q \in Seq(Seq(Byte)) /\ Layout(rb, q)

RetType == [op : {"none", "push", "pop", "clear", "swap", "move"},
            ok : BOOLEAN, data : Seq(Byte)]

\* The results that the operations return are of the type of ret.
LEMMA RetTyped ==
  ASSUME NEW o \in {"push", "pop", "clear", "swap", "move"}, NEW k \in BOOLEAN
  PROVE  /\ [op |-> o, ok |-> k, data |-> <<>>] \in RetType
         /\ \A d \in Seq(Byte) : [op |-> o, ok |-> k, data |-> d] \in RetType
  BY DEF RetType

\* A ring just constructed is well formed and holds nothing.
LEMMA GoodConstructed ==
  ASSUME NEW cap \in Nat \ {0}
  PROVE  Constructed(cap) \in Live /\ Good(Constructed(cap), <<>>)
PROOF
<1> DEFINE b == [i \in 1 .. cap + 1 |-> 0]
<1>1. 0 \in Byte /\ cap + 1 \in Nat /\ cap + 1 >= 2
  BY RingAssumption DEF Byte
<1>2. b \in [1 .. cap + 1 -> Byte]
  BY <1>1
<1>3. b \in Seq(Byte) /\ Len(b) = cap + 1
  BY <1>1, <1>2, SeqOfFunction
<1>4. Constructed(cap) = [buf |-> b, head |-> 0, tail |-> 0]
  BY DEF Constructed
<1> HIDE DEF b
<1>5. Constructed(cap) \in Live
  BY <1>1, <1>3, <1>4 DEF Live
<1>6. Constructed(cap).head = Constructed(cap).tail
  BY <1>4
<1> QED BY <1>5, <1>6, EmptyLayout DEF Good, RingType

\* A ring just cleared is well formed and holds nothing.
LEMMA GoodCleared ==
  ASSUME NEW rb \in RingType
  PROVE  Good(Cleared(rb), <<>>)
PROOF
<1>1. CASE rb = Vacated
  <2>1. Cleared(rb) = Vacated
    BY <1>1 DEF Cleared, Vacated
  <2>2. Vacated \in RingType /\ Vacated.head = Vacated.tail
    BY DEF RingType, Vacated
  <2> QED BY <2>1, <2>2, EmptyLayout DEF Good
<1>2. CASE rb \in Live
  <2>1. /\ rb \in [buf : Seq(Byte), head : Nat, tail : Nat]
        /\ rb.buf \in Seq(Byte) /\ Len(rb.buf) \in Nat /\ Len(rb.buf) >= 2
    BY <1>2 DEF Live
  <2>2. Cleared(rb) = [buf |-> rb.buf, head |-> 0, tail |-> 0]
    BY DEF Cleared
  <2>3. 0 < Len(rb.buf)
    BY <2>1
  <2>4. Cleared(rb) \in Live /\ Cleared(rb).head = Cleared(rb).tail
    BY <2>1, <2>2, <2>3 DEF Live
  <2> QED BY <2>4, EmptyLayout DEF Good, RingType
<1> QED BY <1>1, <1>2 DEF RingType

\* The inductive invariant holds of the rings just constructed.
LEMMA InitInv == Init => IInv
PROOF
<1> SUFFICES ASSUME Init PROVE IInv
  OBVIOUS
<1>1. \A r \in Rings : Good(ring[r], queue[r])
  BY GoodConstructed, RingAssumption DEF Init
<1>2. ret \in RetType
  BY DEF Init, RetType
<1>3. ring \in [Rings -> RingType] /\ queue \in [Rings -> Seq(Seq(Byte))]
  BY <1>1 DEF Init, Good
<1> QED BY <1>1, <1>2, <1>3 DEF IInv, Typed, Intact, Good, RetType

\* Every operation preserves the inductive invariant.
LEMMA NextInv == IInv /\ [Next]_vars => IInv'
PROOF
<1> SUFFICES ASSUME IInv, [Next]_vars PROVE IInv'
  OBVIOUS
<1>1. /\ ring \in [Rings -> RingType]
      /\ queue \in [Rings -> Seq(Seq(Byte))]
      /\ ret \in RetType
      /\ \A r \in Rings : Good(ring[r], queue[r])
  BY DEF IInv, Typed, Intact, Good, RetType
<1>2. ASSUME NEW r \in Rings, NEW data \in Payloads, Push(r, data)
      PROVE  IInv'
  <2>1. data \in Seq(Byte)
    BY RingAssumption
  <2>2. Good(Pushed(ring[r], data), Append(queue[r], data))
    BY <1>1, <1>2, <2>1, PushLayout, AppendProperties DEF Push, Good, RingType
  <2>3. /\ ring' = [s \in Rings |-> IF s = r THEN Pushed(ring[r], data) ELSE ring[s]]
        /\ queue' = [s \in Rings |-> IF s = r THEN Append(queue[r], data) ELSE queue[s]]
    BY <1>1, <1>2 DEF Push
  <2>9. ret' \in RetType
    BY <1>1, <1>2, RetTyped DEF Push
  <2> QED BY <1>1, <2>2, <2>3, <2>9 DEF IInv, Typed, Intact, Good, RetType
<1>3. ASSUME NEW r \in Rings, NEW data \in Payloads, PushRefused(r, data)
      PROVE  IInv'
  BY <1>1, <1>3, RetTyped DEF PushRefused, IInv, Typed, Intact, RetType
<1>4. ASSUME NEW r \in Rings, Pop(r)
      PROVE  IInv'
  <2>1. /\ Good(Popped(ring[r]), Tail(queue[r]))
        /\ FrontData(ring[r]) \in Seq(Byte)
    <3>1. /\ queue[r] # <<>>
          /\ FrontData(ring[r]) = Head(queue[r])
          /\ Popped(ring[r]) \in Live
          /\ Layout(Popped(ring[r]), Tail(queue[r]))
      BY <1>1, <1>4, PopLayout DEF Pop, Good
    <3> QED BY <1>1, <3>1, HeadTailProperties DEF Good, RingType
  <2>2. /\ ring' = [s \in Rings |-> IF s = r THEN Popped(ring[r]) ELSE ring[s]]
        /\ queue' = [s \in Rings |-> IF s = r THEN Tail(queue[r]) ELSE queue[s]]
    BY <1>1, <1>4, <2>1 DEF Pop
  <2>9. ret' \in RetType
    BY <1>1, <1>4, <2>1, RetTyped DEF Pop
  <2> QED BY <1>1, <2>1, <2>2, <2>9 DEF IInv, Typed, Intact, Good, RetType
<1>5. ASSUME NEW r \in Rings, PopEmpty(r)
      PROVE  IInv'
  BY <1>1, <1>5, RetTyped DEF PopEmpty, IInv, Typed, Intact, RetType
<1>6. ASSUME NEW r \in Rings, Clear(r)
      PROVE  IInv'
  <2> DEFINE st == Cleared(ring[r])
  <2>1. Good(st, <<>>)
    BY <1>1, GoodCleared DEF Good
  <2>2. /\ ring' = [s \in Rings |-> IF s = r THEN st ELSE ring[s]]
        /\ queue' = [s \in Rings |-> IF s = r THEN <<>> ELSE queue[s]]
    BY <1>1, <1>6 DEF Clear
  <2>9. ret' \in RetType
    BY <1>1, <1>6, RetTyped DEF Clear
  <2> HIDE DEF st
  <2> QED BY <1>1, <2>1, <2>2, <2>9 DEF IInv, Typed, Intact, Good, RetType
<1>7. ASSUME NEW r \in Rings, NEW s \in Rings, Swap(r, s)
      PROVE  IInv'
  <2>1. /\ ring' = [x \in Rings |-> IF x = s THEN ring[r]
                                    ELSE IF x = r THEN ring[s] ELSE ring[x]]
        /\ queue' = [x \in Rings |-> IF x = s THEN queue[r]
                                     ELSE IF x = r THEN queue[s] ELSE queue[x]]
    BY <1>1, <1>7 DEF Swap
  <2>9. ret' \in RetType
    BY <1>1, <1>7, RetTyped DEF Swap
  <2> QED BY <1>1, <2>1, <2>9 DEF IInv, Typed, Intact, Good, RetType
<1>8. ASSUME NEW r \in Rings, NEW s \in Rings, MoveAssign(r, s)
      PROVE  IInv'
  <2>1. Good(Vacated, <<>>)
    BY EmptyLayout DEF Good, RingType, Vacated
  <2>2. /\ ring' = [x \in Rings |-> IF x = s THEN Vacated
                                    ELSE IF x = r THEN ring[s] ELSE ring[x]]
        /\ queue' = [x \in Rings |-> IF x = s THEN <<>>
                                     ELSE IF x = r THEN queue[s] ELSE queue[x]]
    BY <1>1, <1>8 DEF MoveAssign
  <2>9. ret' \in RetType
    BY <1>1, <1>8, RetTyped DEF MoveAssign
  <2> QED BY <1>1, <2>1, <2>2, <2>9 DEF IInv, Typed, Intact, Good, RetType
<1>9. CASE UNCHANGED vars
  BY <1>9 DEF vars, IInv, Typed, Intact
<1> QED BY <1>2, <1>3, <1>4, <1>5, <1>6, <1>7, <1>8, <1>9 DEF Next

\* Every state of every ring satisfies the inductive invariant: each ring
\* is well formed and holds exactly the messages accepted and not yet popped.
THEOREM RingInvariant == Spec => []IInv
PROOF
<1> QED BY InitInv, NextInv, PTL DEF Spec

\* Calls other than Swap and moves leave every vector its size.
LEMMA SizesStay ==
  ASSUME IInv, NEW r \in Rings,
         \/ Pop(r) \/ PopEmpty(r) \/ Clear(r)
         \/ \E data \in Payloads : Push(r, data) \/ PushRefused(r, data)
  PROVE  \A s \in Rings : Size(ring'[s]) = Size(ring[s])
PROOF
<1>1. ring \in [Rings -> RingType] /\ \A s \in Rings : Good(ring[s], queue[s])
  BY DEF IInv, Typed, Intact, Good
<1>2. CASE \E data \in Payloads : Push(r, data)
  <2>1. PICK data \in Payloads : Push(r, data)
    BY <1>2
  <2>2. data \in Seq(Byte)
    BY RingAssumption
  <2>3. Size(Pushed(ring[r], data)) = Size(ring[r])
    BY <1>1, <2>1, <2>2, PushLayout DEF Push, Good
  <2> QED BY <1>1, <2>1, <2>3 DEF Push
<1>3. CASE Pop(r)
  <2>1. Size(Popped(ring[r])) = Size(ring[r])
    BY <1>1, <1>3, PopLayout DEF Pop, Good
  <2> QED BY <1>1, <1>3, <2>1 DEF Pop
<1>4. CASE Clear(r)
  BY <1>1, <1>4 DEF Clear, Cleared, Size
<1>5. CASE PopEmpty(r) \/ \E data \in Payloads : PushRefused(r, data)
  BY <1>5 DEF PopEmpty, PushRefused
<1> QED BY <1>2, <1>3, <1>4, <1>5

\* Every call keeps the vectors: Swap and moves hand them on.
LEMMA VectorsStay == IInv /\ VectorsKept /\ [Next]_vars => VectorsKept'
PROOF
<1> SUFFICES ASSUME IInv, VectorsKept, [Next]_vars PROVE VectorsKept'
  OBVIOUS
<1>1. ring \in [Rings -> RingType]
  BY DEF IInv, Typed
<1>2. PICK of \in [Rings -> Rings] :
        /\ \A r, s \in Rings : of[r] = of[s] => r = s
        /\ \A r \in Rings : Size(ring[r]) # 0 => Size(ring[r]) = Capacity[of[r]] + 1
  BY DEF VectorsKept
<1>3. ASSUME \A s \in Rings : Size(ring'[s]) = Size(ring[s]) PROVE VectorsKept'
  BY <1>2, <1>3 DEF VectorsKept
<1>4. ASSUME NEW r \in Rings, NEW s \in Rings, Swap(r, s) \/ MoveAssign(r, s) PROVE VectorsKept'
  <2> DEFINE new == [x \in Rings |-> IF x = s THEN of[r] ELSE IF x = r THEN of[s] ELSE of[x]]
  <2>1. new \in [Rings -> Rings] /\ \A x, y \in Rings : new[x] = new[y] => x = y
    BY <1>2
  <2>2. \A x \in Rings : Size(ring'[x]) # 0 => Size(ring'[x]) = Capacity[new[x]] + 1
    <3>1. Size(Vacated) = 0
      BY DEF Size, Vacated
    <3>2. \/ ring' = [x \in Rings |-> IF x = s THEN ring[r] ELSE IF x = r THEN ring[s] ELSE ring[x]]
          \/ ring' = [x \in Rings |-> IF x = s THEN Vacated ELSE IF x = r THEN ring[s] ELSE ring[x]]
      BY <1>1, <1>4 DEF Swap, MoveAssign
    <3> QED BY <1>2, <3>1, <3>2
  <2> HIDE DEF new
  <2> QED BY <2>1, <2>2 DEF VectorsKept
<1>5. CASE UNCHANGED vars
  BY <1>3, <1>5 DEF vars
<1> QED BY <1>3, <1>4, <1>5, SizesStay DEF Next

\* The vectors of the rings are those that the constructors made.
LEMMA InitVectors == Init => VectorsKept
PROOF
<1> SUFFICES ASSUME Init PROVE VectorsKept
  OBVIOUS
<1> DEFINE own == [r \in Rings |-> r]
<1>1. ASSUME NEW r \in Rings PROVE Size(ring[r]) = Capacity[own[r]] + 1
  <2>1. Capacity[r] \in Nat \ {0} /\ ring[r] = Constructed(Capacity[r])
    BY RingAssumption DEF Init
  <2> DEFINE n == Capacity[r] + 1  b == [i \in 1 .. n |-> 0]
  <2>2. n \in Nat /\ b \in [1 .. n -> {0}]
    BY <2>1
  <2> HIDE DEF b
  <2>3. Len(b) = n
    BY <2>2, SeqOfFunction
  <2> QED BY <2>1, <2>3 DEF Constructed, Size, b
<1>2. own \in [Rings -> Rings] /\ \A r, s \in Rings : own[r] = own[s] => r = s
  OBVIOUS
<1> HIDE DEF own
<1> QED BY <1>1, <1>2 DEF VectorsKept

\* Both offsets of every ring stay inside its vector, whatever the calls, and
\* every vector keeps the size that a constructor gave it.
THEOREM TypeCorrect == Spec => []TypeOK
PROOF
<1>1. IInv /\ VectorsKept => TypeOK
  BY DEF IInv, Typed, TypeOK
<1>2. Spec => []VectorsKept
  BY InitVectors, VectorsStay, RingInvariant, PTL DEF Spec
<1> QED BY <1>1, <1>2, RingInvariant, PTL

\* The unread bytes of every ring are exactly the frames of the messages
\* accepted and not yet popped, for every capacity and every payload.
THEOREM UnreadIsIntact == Spec => []Intact
PROOF
<1>1. IInv => Intact
  BY DEF IInv
<1> QED BY <1>1, RingInvariant, PTL
-----------------------------------------------------------------------------
(* A ring is a message queue.                                              *)

Bar == [r \in Rings |-> Abstract(ring[r], queue[r])]

\* Rings just constructed are empty queues of the same capacity.
LEMMA InitRefines == Init => MQ!Init
PROOF
<1> SUFFICES ASSUME Init PROVE MQ!Init
  OBVIOUS
<1>1. ASSUME NEW r \in Rings
      PROVE  /\ Abstract(ring[r], queue[r]).cap > 0
             /\ Abstract(ring[r], queue[r]).used = 0
             /\ Abstract(ring[r], queue[r]).msgs = <<>>
  <2>1. ring[r] = Constructed(Capacity[r]) /\ queue[r] = <<>>
    BY DEF Init
  <2>2. Capacity[r] \in Nat \ {0}
    BY RingAssumption
  <2>3. Constructed(Capacity[r]) \in Live
    BY <2>2, GoodConstructed
  <2>4. /\ Size(Constructed(Capacity[r])) \in Nat
        /\ Size(Constructed(Capacity[r])) >= 2
    BY <2>3, UsedAndFree
  <2>5. Used(Constructed(Capacity[r])) = 0
    BY DEF Used, Constructed
  <2> QED BY <2>1, <2>4, <2>5 DEF Abstract, GetCapacity
<1> QED BY <1>1 DEF Init, MQ!Init

\* Every operation of a ring is the same operation of its queue.
LEMMA NextRefines == IInv /\ [Next]_vars => [MQ!Next]_(MQ!vars)
PROOF
<1> SUFFICES ASSUME IInv, [Next]_vars PROVE [MQ!Next]_(MQ!vars)
  OBVIOUS
<1>1. /\ ring \in [Rings -> RingType]
      /\ queue \in [Rings -> Seq(Seq(Byte))]
      /\ \A r \in Rings : Good(ring[r], queue[r])
  BY DEF IInv, Typed, Intact, Good
<1>2. ASSUME NEW rb \in Live
      PROVE  /\ GetCapacity(rb) = Size(rb) - 1
             /\ Used(rb) \in Nat /\ FreeSpace(rb) \in Nat
             /\ Size(rb) \in Nat
             /\ Used(rb) + FreeSpace(rb) = GetCapacity(rb)
  BY UsedAndFree DEF GetCapacity
<1>3. ASSUME NEW r \in Rings, NEW data \in Payloads, Push(r, data)
      PROVE  MQ!Push(r, data)
  <2> DEFINE new == Pushed(ring[r], data)
  <2>1. data \in Seq(Byte) /\ Len(data) \in Nat /\ Accepts(ring[r], data)
    BY <1>3, RingAssumption DEF Push
  <2>2. /\ ring[r] \in Live /\ new \in Live /\ Size(new) = Size(ring[r])
        /\ Used(new) = Used(ring[r]) + PrefixSize + Len(data)
    BY <1>1, <2>1, PushLayout DEF Good
  <2>3. MQ!Fits(r, data)
    BY <2>1, <2>2, <1>2 DEF MQ!Fits, MQ!Cost, Accepts, Abstract, PrefixSize
  <2>4. Abstract(new, Append(queue[r], data))
          = MQ!With(Abstract(ring[r], queue[r]), data)
    <3>1. GetCapacity(new) = GetCapacity(ring[r])
      BY <2>2, <1>2
    <3>2. Used(new) = Used(ring[r]) + (PrefixSize + Len(data))
      BY <2>1, <2>2, <1>2 DEF PrefixSize
    <3> QED BY <3>1, <3>2 DEF MQ!With, MQ!Cost, Abstract
  <2>5. Bar' = [Bar EXCEPT ![r] = MQ!With(@, data)]
    BY <1>1, <1>3, <2>4 DEF Push, Bar
  <2> QED BY <1>3, <2>3, <2>5 DEF MQ!Push, Push, Bar
<1>4. ASSUME NEW r \in Rings, NEW data \in Payloads, PushRefused(r, data)
      PROVE  MQ!PushRefused(r, data)
  <2>1. data \in Seq(Byte) /\ Len(data) \in Nat /\ ~Accepts(ring[r], data)
    BY <1>4, RingAssumption DEF PushRefused
  <2>2. CASE ring[r] = Vacated
    BY <1>4, <2>1, <2>2
       DEF PushRefused, MQ!PushRefused, MQ!Fits, MQ!Cost, Abstract, GetCapacity,
           Used, Size, Vacated, PrefixSize
  <2>3. CASE ring[r] \in Live
    <3>1. ~MQ!Fits(r, data)
      BY <2>1, <2>3, <1>2 DEF MQ!Fits, MQ!Cost, Accepts, Abstract, PrefixSize
    <3> QED BY <1>4, <3>1 DEF PushRefused, MQ!PushRefused
  <2> QED BY <1>1, <2>2, <2>3 DEF RingType
<1>5. ASSUME NEW r \in Rings, Pop(r)
      PROVE  MQ!Pop(r)
  <2> DEFINE new == Popped(ring[r])
  <2>1. /\ ring[r] \in Live /\ new \in Live /\ Size(new) = Size(ring[r])
        /\ queue[r] # <<>>
        /\ FrontData(ring[r]) = Head(queue[r])
        /\ Used(new) = Used(ring[r]) - (PrefixSize + Len(Head(queue[r])))
    BY <1>1, <1>5, PopLayout DEF Pop, Good
  <2>2. Abstract(new, Tail(queue[r]))
          = MQ!WithoutHead(Abstract(ring[r], queue[r]))
    BY <2>1, <1>2 DEF MQ!WithoutHead, MQ!Cost, Abstract
  <2>3. Bar' = [Bar EXCEPT ![r] = MQ!WithoutHead(@)]
    BY <1>1, <1>5, <2>2 DEF Pop, Bar
  <2> QED BY <1>5, <2>1, <2>3 DEF MQ!Pop, Pop, Bar, Abstract
<1>6. ASSUME NEW r \in Rings, PopEmpty(r)
      PROVE  MQ!PopEmpty(r)
  <2>1. queue[r] = <<>>
    BY <1>1, <1>6, EmptyHoldsNothing DEF PopEmpty, Good
  <2> QED BY <1>6, <2>1 DEF MQ!PopEmpty, PopEmpty, Abstract
<1>7. ASSUME NEW r \in Rings, Clear(r)
      PROVE  MQ!Clear(r)
  <2>1. Abstract(Cleared(ring[r]), <<>>) = MQ!Emptied(Abstract(ring[r], queue[r]))
    BY DEF Abstract, Cleared, MQ!Emptied, Used, GetCapacity, Size
  <2>2. Bar' = [Bar EXCEPT ![r] = MQ!Emptied(@)]
    BY <1>1, <1>7, <2>1 DEF Clear, Bar
  <2> QED BY <1>7, <2>2 DEF MQ!Clear, Clear, Bar
<1>8. ASSUME NEW r \in Rings, NEW s \in Rings, Swap(r, s)
      PROVE  MQ!Swap(r, s)
  <2>1. Bar' = [Bar EXCEPT ![r] = Bar[s], ![s] = Bar[r]]
    BY <1>1, <1>8 DEF Swap, Bar
  <2> QED BY <1>8, <2>1 DEF MQ!Swap, Swap, Bar
<1>9. ASSUME NEW r \in Rings, NEW s \in Rings, MoveAssign(r, s)
      PROVE  MQ!MoveAssign(r, s)
  <2>1. Abstract(Vacated, <<>>) = MQ!Vacated
    BY DEF Abstract, Vacated, MQ!Vacated, Used, GetCapacity, Size
  <2>2. Bar' = [Bar EXCEPT ![r] = Bar[s], ![s] = MQ!Vacated]
    BY <1>1, <1>9, <2>1 DEF MoveAssign, Bar
  <2> QED BY <1>9, <2>2 DEF MQ!MoveAssign, MoveAssign, Bar
<1>10. CASE UNCHANGED vars
  BY <1>10 DEF vars, MQ!vars
<1> QED BY <1>3, <1>4, <1>5, <1>6, <1>7, <1>8, <1>9, <1>10 DEF Next, MQ!Next

\* A ring behaves as the bounded queue of whole messages that its users rely
\* on: whatever it does is a step of MessageQueue.
THEOREM ImplementsMessageQueue == Spec => IsMessageQueue
PROOF
<1> QED BY InitRefines, NextRefines, RingInvariant, PTL
        DEF Spec, MQ!Spec, IsMessageQueue
=============================================================================
