------------------------------ MODULE QueueFacts ------------------------------
(***************************************************************************)
(* Facts that the proofs share: how often an element is in a queue, what   *)
(* Append, Tail and \o do to that number and to the set of the elements;   *)
(* that a set of natural numbers has a least element; the remainder of a   *)
(* sum; and joining and cutting sequences whose elements have no set.      *)
(***************************************************************************)
EXTENDS Integers, Sequences, SequencesExt, FiniteSetTheorems, SequenceTheorems, TLAPS

\* Where e is in q, and how often.
Places(q, e) == {i \in DOMAIN q : q[i] = e}
Count(q, e)  == Cardinality(Places(q, e))

\* Shifting a finite set of integers leaves its cardinality alone.
LEMMA Shift ==
  ASSUME NEW T \in SUBSET Int, IsFiniteSet(T), NEW k \in Int,
         NEW U, U = {i + k : i \in T}
  PROVE  IsFiniteSet(U) /\ Cardinality(U) = Cardinality(T)
<1> DEFINE f == [i \in T |-> i + k]
<1>1. f \in Bijection(T, U)
  <2>1. f \in [T -> U]
    OBVIOUS
  <2>2. \A a, b \in T : f[a] = f[b] => a = b
    OBVIOUS
  <2>3. \A t \in U : \E s \in T : f[s] = t
    OBVIOUS
  <2> QED BY <2>1, <2>2, <2>3 DEF Bijection, Injection, Surjection, IsInjective
<1> QED BY <1>1, FS_Bijection DEF ExistsBijection

\* The places of an element are finitely many.
LEMMA PlacesFinite ==
  ASSUME NEW S, NEW q \in Seq(S), NEW e
  PROVE  /\ IsFiniteSet(Places(q, e)) /\ Places(q, e) \subseteq 1 .. Len(q)
         /\ Count(q, e) \in Nat
<1>1. Len(q) \in Nat /\ DOMAIN q = 1 .. Len(q)
  BY LenProperties
<1>2. IsFiniteSet(1 .. Len(q)) /\ Places(q, e) \subseteq 1 .. Len(q)
  BY <1>1, FS_Interval DEF Places
<1>3. IsFiniteSet(Places(q, e))
  BY <1>2, FS_Subset
<1> QED BY <1>2, <1>3, FS_CardinalityType DEF Count

\* An element is in a queue if it is there at least once.
LEMMA CountedIsIn ==
  ASSUME NEW S, NEW q \in Seq(S), NEW e
  PROVE  e \in ToSet(q) <=> Count(q, e) > 0
<1>1. IsFiniteSet(Places(q, e)) /\ Count(q, e) \in Nat
  BY PlacesFinite
<1>2. Count(q, e) = 0 <=> Places(q, e) = {}
  BY <1>1, FS_EmptySet DEF Count
<1>3. e \in ToSet(q) <=> Places(q, e) # {}
  BY DEF ToSet, Places
<1> QED BY <1>1, <1>2, <1>3

\* The elements of r come behind those of q.
LEMMA ConcatSteps ==
  ASSUME NEW S, NEW q \in Seq(S), NEW r \in Seq(S)
  PROVE  /\ q \o r \in Seq(S) /\ Len(q) \in Nat /\ Len(r) \in Nat
         /\ DOMAIN q = 1 .. Len(q) /\ DOMAIN r = 1 .. Len(r)
         /\ Len(q \o r) = Len(q) + Len(r) /\ DOMAIN (q \o r) = 1 .. Len(q) + Len(r)
         /\ \A i \in 1 .. Len(q) : (q \o r)[i] = q[i]
         /\ \A i \in 1 .. Len(q) + Len(r) : i > Len(q) =>
              i - Len(q) \in 1 .. Len(r) /\ (q \o r)[i] = r[i - Len(q)]
<1>1. /\ Len(q) \in Nat /\ Len(r) \in Nat /\ DOMAIN q = 1 .. Len(q) /\ DOMAIN r = 1 .. Len(r)
  BY LenProperties
<1>2. q \o r \in Seq(S) /\ Len(q \o r) = Len(q) + Len(r)
  BY ConcatProperties
<1>3. \A i \in 1 .. Len(q) + Len(r) : (q \o r)[i] = IF i <= Len(q) THEN q[i] ELSE r[i - Len(q)]
  BY ConcatProperties
<1>4. DOMAIN (q \o r) = 1 .. Len(q) + Len(r)
  BY <1>2, LenProperties
<1>5. ASSUME NEW i \in 1 .. Len(q) PROVE (q \o r)[i] = q[i]
  BY <1>1, <1>3
<1>6. ASSUME NEW i \in 1 .. Len(q) + Len(r), i > Len(q)
      PROVE  i - Len(q) \in 1 .. Len(r) /\ (q \o r)[i] = r[i - Len(q)]
  <2>1. i - Len(q) \in 1 .. Len(r) /\ ~(i <= Len(q))
    BY <1>1, <1>6
  <2> QED BY <1>3, <2>1
<1> QED BY <1>1, <1>2, <1>4, <1>5, <1>6

\* Nothing is in the empty queue.
LEMMA CountEmpty == \A e : Count(<<>>, e) = 0
  BY FS_EmptySet DEF Count, Places

\* Adding r at the end of q adds up the numbers.
LEMMA CountConcat ==
  ASSUME NEW S, NEW q \in Seq(S), NEW r \in Seq(S)
  PROVE  /\ q \o r \in Seq(S) /\ ToSet(q \o r) = ToSet(q) \cup ToSet(r)
         /\ \A e : Count(q \o r, e) = Count(q, e) + Count(r, e)
<1> SUFFICES ASSUME NEW e
             PROVE  /\ q \o r \in Seq(S) /\ ToSet(q \o r) = ToSet(q) \cup ToSet(r)
                    /\ Count(q \o r, e) = Count(q, e) + Count(r, e)
  OBVIOUS
<1> DEFINE Q == Places(q, e)  R == Places(r, e)  U == {i + Len(q) : i \in R}
<1>1. /\ Len(q) \in Nat /\ DOMAIN q = 1 .. Len(q)
      /\ Len(r) \in Nat /\ DOMAIN r = 1 .. Len(r)
  BY LenProperties
<1>2. /\ q \o r \in Seq(S) /\ Len(q \o r) = Len(q) + Len(r)
      /\ DOMAIN (q \o r) = 1 .. Len(q) + Len(r)
      /\ \A i \in 1 .. Len(q) : (q \o r)[i] = q[i]
      /\ \A i \in 1 .. Len(r) : (q \o r)[i + Len(q)] = r[i]
  <2>1. q \o r \in Seq(S) /\ Len(q \o r) = Len(q) + Len(r)
    BY ConcatProperties
  <2>2. \A i \in 1 .. Len(q) + Len(r) :
           (q \o r)[i] = IF i <= Len(q) THEN q[i] ELSE r[i - Len(q)]
    BY ConcatProperties
  <2>3. ASSUME NEW i \in 1 .. Len(q) PROVE (q \o r)[i] = q[i]
    BY <1>1, <2>2
  <2>4. ASSUME NEW i \in 1 .. Len(r) PROVE (q \o r)[i + Len(q)] = r[i]
    <3>1. i + Len(q) \in 1 .. Len(q) + Len(r) /\ ~(i + Len(q) <= Len(q)) /\ (i + Len(q)) - Len(q) = i
      BY <1>1
    <3> QED BY <3>1, <2>2
  <2>5. DOMAIN (q \o r) = 1 .. Len(q) + Len(r)
    BY <2>1, LenProperties
  <2> QED BY <2>1, <2>3, <2>4, <2>5
<1>3. \A i \in 1 .. Len(q) + Len(r) : i \in 1 .. Len(q) \/ (i - Len(q) \in 1 .. Len(r) /\ i = (i - Len(q)) + Len(q))
  BY <1>1
<1>4. ToSet(q \o r) = ToSet(q) \cup ToSet(r)
  <2>1. ASSUME NEW i \in 1 .. Len(q) + Len(r) PROVE (q \o r)[i] \in ToSet(q) \cup ToSet(r)
    BY <1>1, <1>2, <1>3 DEF ToSet
  <2>2. ASSUME NEW i \in 1 .. Len(q) PROVE q[i] \in ToSet(q \o r)
    BY <1>1, <1>2 DEF ToSet
  <2>3. ASSUME NEW i \in 1 .. Len(r) PROVE r[i] \in ToSet(q \o r)
    <3>1. i + Len(q) \in 1 .. Len(q) + Len(r)
      BY <1>1
    <3> QED BY <3>1, <1>2 DEF ToSet
  <2>4. ToSet(q \o r) \subseteq ToSet(q) \cup ToSet(r)
    BY <2>1, <1>2 DEF ToSet
  <2>5. ToSet(q) \cup ToSet(r) \subseteq ToSet(q \o r)
    BY <2>2, <2>3, <1>1 DEF ToSet
  <2> QED BY <2>4, <2>5
<1>5. /\ IsFiniteSet(Q) /\ Q \subseteq 1 .. Len(q) /\ Cardinality(Q) = Count(q, e) /\ Count(q, e) \in Nat
      /\ IsFiniteSet(R) /\ R \subseteq 1 .. Len(r) /\ Cardinality(R) = Count(r, e) /\ Count(r, e) \in Nat
  BY PlacesFinite DEF Count
<1>6. IsFiniteSet(U) /\ Cardinality(U) = Count(r, e)
  <2>1. R \in SUBSET Int /\ Len(q) \in Int
    BY <1>1, <1>5
  <2>2. IsFiniteSet(R) /\ Cardinality(R) = Count(r, e)
    BY <1>5
  <2> HIDE DEF R
  <2>3. IsFiniteSet(U) /\ Cardinality(U) = Cardinality(R)
    BY <2>1, <2>2, Shift
  <2> QED BY <2>2, <2>3
<1>7. Q \cap U = {}
  BY <1>1, <1>5
<1>8. Places(q \o r, e) = Q \cup U
  <2>1. ASSUME NEW i \in Places(q \o r, e) PROVE i \in Q \cup U
    <3>1. i \in 1 .. Len(q) + Len(r) /\ (q \o r)[i] = e
      BY <1>2 DEF Places
    <3>2. CASE i \in 1 .. Len(q)
      BY <3>1, <3>2, <1>1, <1>2 DEF Places
    <3>3. CASE i - Len(q) \in 1 .. Len(r) /\ i = (i - Len(q)) + Len(q)
      BY <3>1, <3>3, <1>1, <1>2 DEF Places
    <3> QED BY <3>1, <3>2, <3>3, <1>3
  <2>2. ASSUME NEW i \in Q PROVE i \in Places(q \o r, e)
    BY <1>1, <1>2 DEF Places
  <2>3. ASSUME NEW i \in R PROVE i + Len(q) \in Places(q \o r, e)
    <3>1. i \in 1 .. Len(r) /\ r[i] = e /\ i + Len(q) \in 1 .. Len(q) + Len(r)
      BY <1>1 DEF Places
    <3> QED BY <3>1, <1>2 DEF Places
  <2> HIDE DEF Q, R
  <2> QED BY <2>1, <2>2, <2>3
<1> HIDE DEF Q, U
<1>9. Cardinality(Q \cup U) = Count(q, e) + Count(r, e)
  <2>1. Cardinality(Q \cup U) = Cardinality(Q) + Cardinality(U) - Cardinality(Q \cap U)
    BY <1>5, <1>6, FS_Union
  <2>2. Cardinality(Q \cap U) = 0
    BY <1>7, FS_EmptySet
  <2> QED BY <2>1, <2>2, <1>5, <1>6
<1> QED BY <1>2, <1>4, <1>8, <1>9 DEF Count

\* The number in the queue of one element.
LEMMA CountOne ==
  ASSUME NEW x
  PROVE  /\ ToSet(<<x>>) = {x}
         /\ \A e : Count(<<x>>, e) = IF x = e THEN 1 ELSE 0
<1> SUFFICES ASSUME NEW e
             PROVE  /\ ToSet(<<x>>) = {x}
                    /\ Count(<<x>>, e) = IF x = e THEN 1 ELSE 0
  OBVIOUS
<1>1. DOMAIN <<x>> = {1} /\ <<x>>[1] = x
  OBVIOUS
<1>2. CASE x = e
  <2>1. Places(<<x>>, e) = {1}
    BY <1>1, <1>2 DEF Places
  <2> QED BY <1>1, <1>2, <2>1, FS_Singleton DEF Count, ToSet
<1>3. CASE x # e
  <2>1. Places(<<x>>, e) = {}
    BY <1>1, <1>3 DEF Places
  <2> QED BY <1>1, <1>3, <2>1, FS_EmptySet DEF Count, ToSet
<1> QED BY <1>2, <1>3

\* Append adds one.
LEMMA CountAppend ==
  ASSUME NEW S, NEW q \in Seq(S), NEW x \in S
  PROVE  /\ Append(q, x) \in Seq(S) /\ ToSet(Append(q, x)) = ToSet(q) \cup {x}
         /\ \A e : Count(Append(q, x), e) = Count(q, e) + (IF x = e THEN 1 ELSE 0)
<1> SUFFICES ASSUME NEW e
             PROVE  /\ Append(q, x) \in Seq(S) /\ ToSet(Append(q, x)) = ToSet(q) \cup {x}
                    /\ Count(Append(q, x), e) = Count(q, e) + (IF x = e THEN 1 ELSE 0)
  OBVIOUS
<1>1. Append(q, x) = q \o <<x>> /\ <<x>> \in Seq(S)
  BY AppendIsConcat
<1>2. /\ q \o <<x>> \in Seq(S) /\ ToSet(q \o <<x>>) = ToSet(q) \cup ToSet(<<x>>)
      /\ Count(q \o <<x>>, e) = Count(q, e) + Count(<<x>>, e)
  <2> DEFINE r == <<x>>
  <2>1. r \in Seq(S)
    BY <1>1
  <2> HIDE DEF r
  <2>2. /\ q \o r \in Seq(S) /\ ToSet(q \o r) = ToSet(q) \cup ToSet(r)
        /\ Count(q \o r, e) = Count(q, e) + Count(r, e)
    BY <2>1, CountConcat
  <2> QED BY <2>2 DEF r
<1>3. ToSet(<<x>>) = {x} /\ Count(<<x>>, e) = IF x = e THEN 1 ELSE 0
  BY CountOne
<1> QED BY <1>1, <1>2, <1>3

\* Taking the head takes one.
LEMMA CountTail ==
  ASSUME NEW S, NEW q \in Seq(S), q # <<>>
  PROVE  /\ Head(q) \in S /\ Tail(q) \in Seq(S) /\ ToSet(q) = {Head(q)} \cup ToSet(Tail(q))
         /\ \A e : Count(q, e) = (IF Head(q) = e THEN 1 ELSE 0) + Count(Tail(q), e)
<1> SUFFICES ASSUME NEW e
             PROVE  /\ Head(q) \in S /\ Tail(q) \in Seq(S) /\ ToSet(q) = {Head(q)} \cup ToSet(Tail(q))
                    /\ Count(q, e) = (IF Head(q) = e THEN 1 ELSE 0) + Count(Tail(q), e)
  OBVIOUS
<1>1. /\ Head(q) \in S /\ Tail(q) \in Seq(S) /\ <<Head(q)>> \in Seq(S)
  BY HeadTailProperties
<1>2. /\ Len(q) \in Nat \ {0} /\ Len(Tail(q)) = Len(q) - 1
      /\ \A i \in 1 .. Len(Tail(q)) : Tail(q)[i] = q[i + 1]
      /\ Head(q) = q[1]
  BY HeadTailProperties, EmptySeq
<1>3. /\ <<Head(q)>> \o Tail(q) \in Seq(S) /\ Len(<<Head(q)>> \o Tail(q)) = 1 + Len(Tail(q))
      /\ \A i \in 1 .. 1 + Len(Tail(q)) :
           (<<Head(q)>> \o Tail(q))[i] = IF i <= 1 THEN <<Head(q)>>[i] ELSE Tail(q)[i - 1]
  BY <1>1, ConcatProperties
<1>4. q = <<Head(q)>> \o Tail(q)
  <2>1. Len(q) = Len(<<Head(q)>> \o Tail(q))
    BY <1>2, <1>3
  <2>2. ASSUME NEW i \in 1 .. Len(q) PROVE q[i] = (<<Head(q)>> \o Tail(q))[i]
    <3>1. CASE i = 1
      BY <3>1, <1>2, <1>3
    <3>2. CASE i # 1
      <4>1. i \in 1 .. 1 + Len(Tail(q)) /\ ~(i <= 1) /\ i - 1 \in 1 .. Len(Tail(q)) /\ (i - 1) + 1 = i
        BY <3>2, <1>2
      <4> QED BY <4>1, <1>2, <1>3
    <3> QED BY <3>1, <3>2
  <2> QED BY <2>1, <2>2, <1>3, SeqEqual
<1>5. /\ ToSet(<<Head(q)>> \o Tail(q)) = ToSet(<<Head(q)>>) \cup ToSet(Tail(q))
      /\ Count(<<Head(q)>> \o Tail(q), e) = Count(<<Head(q)>>, e) + Count(Tail(q), e)
  <2> DEFINE h == <<Head(q)>>  t == Tail(q)
  <2>1. h \in Seq(S) /\ t \in Seq(S)
    BY <1>1
  <2> HIDE DEF h, t
  <2>2. /\ ToSet(h \o t) = ToSet(h) \cup ToSet(t)
        /\ Count(h \o t, e) = Count(h, e) + Count(t, e)
    BY <2>1, CountConcat
  <2> QED BY <2>2 DEF h, t
<1>6. ToSet(<<Head(q)>>) = {Head(q)} /\ Count(<<Head(q)>>, e) = IF Head(q) = e THEN 1 ELSE 0
  BY CountOne
<1> QED BY <1>1, <1>4, <1>5, <1>6

\* The lengths of a queue with an element more at its end, or without its
\* head; and which element is where.
LEMMA QueueSteps ==
  ASSUME NEW S, NEW q \in Seq(S)
  PROVE  /\ Len(q) \in Nat /\ DOMAIN q = 1 .. Len(q)
         /\ \A x \in S : /\ Append(q, x) \in Seq(S) /\ Len(Append(q, x)) = Len(q) + 1
                         /\ DOMAIN Append(q, x) = 1 .. Len(q) + 1
                         /\ \A i \in 1 .. Len(q) : Append(q, x)[i] = q[i]
                         /\ Append(q, x)[Len(q) + 1] = x
         /\ q # <<>> => /\ Head(q) \in S /\ Head(q) = q[1] /\ Len(q) > 0
                        /\ Tail(q) \in Seq(S) /\ Len(Tail(q)) = Len(q) - 1
                        /\ DOMAIN Tail(q) = 1 .. Len(q) - 1
                        /\ \A i \in 1 .. Len(q) - 1 : Tail(q)[i] = q[i + 1]
<1>1. Len(q) \in Nat /\ DOMAIN q = 1 .. Len(q)
  BY LenProperties
<1>2. ASSUME NEW x \in S
      PROVE  /\ Append(q, x) \in Seq(S) /\ Len(Append(q, x)) = Len(q) + 1
             /\ DOMAIN Append(q, x) = 1 .. Len(q) + 1
             /\ \A i \in 1 .. Len(q) : Append(q, x)[i] = q[i]
             /\ Append(q, x)[Len(q) + 1] = x
  <2>1. /\ Append(q, x) \in Seq(S) /\ Len(Append(q, x)) = Len(q) + 1
        /\ \A i \in 1 .. Len(q) : Append(q, x)[i] = q[i]
        /\ Append(q, x)[Len(q) + 1] = x
    BY AppendProperties
  <2>2. DOMAIN Append(q, x) = 1 .. Len(q) + 1
    BY <2>1, LenProperties
  <2> QED BY <2>1, <2>2
<1>3. ASSUME q # <<>>
      PROVE  /\ Head(q) \in S /\ Head(q) = q[1] /\ Len(q) > 0
             /\ Tail(q) \in Seq(S) /\ Len(Tail(q)) = Len(q) - 1
             /\ DOMAIN Tail(q) = 1 .. Len(q) - 1
             /\ \A i \in 1 .. Len(q) - 1 : Tail(q)[i] = q[i + 1]
  <2>1. /\ Head(q) \in S /\ Tail(q) \in Seq(S) /\ Len(Tail(q)) = Len(q) - 1
        /\ \A i \in 1 .. Len(Tail(q)) : Tail(q)[i] = q[i + 1]
    BY <1>3, HeadTailProperties
  <2>2. Head(q) = q[1] /\ Len(q) > 0
    BY <1>1, <1>3, EmptySeq
  <2>3. DOMAIN Tail(q) = 1 .. Len(q) - 1
    BY <2>1, LenProperties
  <2> QED BY <2>1, <2>2, <2>3
<1> QED BY <1>1, <1>2, <1>3

\* Taking an element out leaves the others.
LEMMA RemoveAtFacts ==
  ASSUME NEW S, NEW q \in Seq(S), NEW k \in DOMAIN q
  PROVE  /\ RemoveAt(q, k) \in Seq(S) /\ Len(RemoveAt(q, k)) = Len(q) - 1
         /\ ToSet(RemoveAt(q, k)) \subseteq ToSet(q)
         /\ q[k] \in S /\ q[k] \in ToSet(q) /\ Len(q) > 0
<1> DEFINE a == SubSeq(q, 1, k - 1)  b == SubSeq(q, k + 1, Len(q))
<1>1. Len(q) \in Nat /\ DOMAIN q = 1 .. Len(q) /\ k \in 1 .. Len(q) /\ \A i \in 1 .. Len(q) : q[i] \in S
  BY LenProperties, ElementOfSeq
<1>2. a \in Seq(S) /\ Len(a) = k - 1 /\ \A i \in 1 .. k - 1 : a[i] = q[i]
  <2>1. \A i \in 1 .. k - 1 : q[i] \in S
    BY <1>1
  <2>2. /\ a \in Seq(S) /\ Len(a) = (IF 1 <= k - 1 THEN (k - 1) - 1 + 1 ELSE 0)
        /\ \A i \in 1 .. (k - 1) - 1 + 1 : a[i] = q[1 + i - 1]
    BY <1>1, <2>1, SubSeqProperties
  <2> HIDE DEF a
  <2>3. Len(a) = k - 1
    BY <1>1, <2>2
  <2>4. \A i \in 1 .. k - 1 : i \in 1 .. (k - 1) - 1 + 1 /\ 1 + i - 1 = i
    BY <1>1
  <2> QED BY <2>2, <2>3, <2>4
<1>3. b \in Seq(S) /\ Len(b) = Len(q) - k /\ \A i \in 1 .. Len(q) - k : b[i] = q[k + i]
  <2>1. \A i \in k + 1 .. Len(q) : q[i] \in S
    BY <1>1
  <2>2. /\ b \in Seq(S) /\ Len(b) = (IF k + 1 <= Len(q) THEN Len(q) - (k + 1) + 1 ELSE 0)
        /\ \A i \in 1 .. Len(q) - (k + 1) + 1 : b[i] = q[(k + 1) + i - 1]
    BY <1>1, <2>1, SubSeqProperties
  <2> HIDE DEF b
  <2>3. Len(b) = Len(q) - k
    BY <1>1, <2>2
  <2>4. \A i \in 1 .. Len(q) - k : i \in 1 .. Len(q) - (k + 1) + 1 /\ (k + 1) + i - 1 = k + i
    BY <1>1
  <2> QED BY <2>2, <2>3, <2>4
<1>4. ToSet(a) \subseteq ToSet(q) /\ ToSet(b) \subseteq ToSet(q)
  <2>1. ASSUME NEW i \in 1 .. k - 1 PROVE a[i] \in ToSet(q)
    BY <1>1, <1>2 DEF ToSet
  <2>2. ASSUME NEW i \in 1 .. Len(q) - k PROVE b[i] \in ToSet(q)
    <3>1. k + i \in 1 .. Len(q)
      BY <1>1
    <3> QED BY <3>1, <1>1, <1>3 DEF ToSet
  <2>3. DOMAIN a = 1 .. k - 1 /\ DOMAIN b = 1 .. Len(q) - k
    BY <1>2, <1>3, LenProperties
  <2> HIDE DEF a, b
  <2> QED BY <2>1, <2>2, <2>3 DEF ToSet
<1>5. RemoveAt(q, k) = a \o b
  BY DEF RemoveAt
<1>6. q[k] \in S /\ q[k] \in ToSet(q) /\ Len(q) > 0
  BY <1>1 DEF ToSet
<1> HIDE DEF a, b
<1>7. a \o b \in Seq(S) /\ Len(a \o b) = Len(a) + Len(b) /\ ToSet(a \o b) = ToSet(a) \cup ToSet(b)
  BY <1>2, <1>3, CountConcat, ConcatProperties, ZenonT(40)
<1>8. Len(a) + Len(b) = Len(q) - 1
  BY <1>1, <1>2, <1>3
<1> QED BY <1>4, <1>5, <1>6, <1>7, <1>8

\* Each way to order a finite set is a queue of its elements.
LEMMA OrderIsQueue ==
  ASSUME NEW S, IsFiniteSet(S), NEW order \in SetToSeqs(S)
  PROVE  order \in Seq(S)
<1>1. Cardinality(S) \in Nat
  BY FS_CardinalityType
<1>2. order \in [1 .. Cardinality(S) -> S]
  BY DEF SetToSeqs
<1> QED BY <1>1, <1>2, SeqDef

\* A set of natural numbers has a least element.
LEMMA Least ==
  ASSUME NEW T \in SUBSET Nat, T # {}
  PROVE  \E n \in T : \A m \in T : n <= m
<1>1. PICK k \in T : TRUE
  OBVIOUS
<1> DEFINE Below(n) == {m \in T : m <= n}
           B == {Below(n) : n \in T}
<1>2. ASSUME NEW n \in T PROVE Below(n) \in FiniteSubsetsOf(Nat)
  <2>1. IsFiniteSet(0 .. n) /\ Below(n) \subseteq 0 .. n
    <3>1. IsFiniteSet(0 .. n)
      BY FS_Interval
    <3>2. ASSUME NEW i \in T, i <= n PROVE i \in 0 .. n
      <4>1. i \in Nat /\ n \in Nat
        OBVIOUS
      <4> QED BY <3>2, <4>1
    <3> QED BY <3>1, <3>2
  <2> HIDE DEF Below
  <2>2. IsFiniteSet(Below(n))
    BY <2>1, FS_Subset
  <2>3. Below(n) \in SUBSET Nat
    BY DEF Below
  <2> QED BY <2>2, <2>3 DEF FiniteSubsetsOf
<1>3. IsWellFoundedOn(StrictSubsetOrdering(Nat), FiniteSubsetsOf(Nat))
  BY FS_StrictSubsetOrderingWellFounded
<1>4. B \subseteq FiniteSubsetsOf(Nat) /\ B # {}
  BY <1>1, <1>2
<1>5. PICK b \in B : \A c \in B : ~(<<c, b>> \in StrictSubsetOrdering(Nat))
  BY <1>3, <1>4, WFMin
<1>6. PICK n \in T : b = Below(n)
  BY <1>5
<1>7. ASSUME NEW m \in T, m < n PROVE FALSE
  <2>1. Below(m) \in B /\ Below(m) \subseteq Below(n) /\ n \in Below(n) /\ n \notin Below(m)
    <3>1. m \in Nat /\ n \in Nat /\ ~(n <= m) /\ \A j \in T : j <= m => j <= n
      BY <1>7
    <3>2. Below(m) \in B
      OBVIOUS
    <3>3. Below(m) \subseteq Below(n)
      BY <3>1
    <3>4. n \in Below(n) /\ n \notin Below(m)
      BY <3>1
    <3> QED BY <3>2, <3>3, <3>4
  <2>2. Below(m) \in SUBSET Nat /\ Below(n) \in SUBSET Nat
    OBVIOUS
  <2>3. <<Below(m), Below(n)>> \in StrictSubsetOrdering(Nat)
    BY <2>1, <2>2 DEF StrictSubsetOrdering
  <2> QED BY <2>1, <2>3, <1>5, <1>6
<1> QED BY <1>7
-----------------------------------------------------------------------------
(* Quotient and remainder.                                                  *)

\* Quotient and remainder are the only ones.
LEMMA OneRemainder ==
  ASSUME NEW m \in Nat, NEW q \in Int, NEW r \in Int, 0 <= r, r < m
  PROVE  (q * m + r) % m = r /\ (q * m + r) \div m = q
<1> DEFINE x == q * m + r
<1>1. x \in Int /\ m > 0
  OBVIOUS
<1> DEFINE d == x \div m  e == x % m
<1>2. d \in Int /\ e \in Int /\ x = m * d + e /\ 0 <= e /\ e < m
  BY <1>1
<1>3. d = q
  <2>0. (d - q) * m = r - e
    <3>1. (d - q) * m = m * d - q * m
      BY <1>1, <1>2
    <3> QED BY <1>2, <3>1
  <2> HIDE DEF d, e
  <2>1. CASE d > q
    <3>1. PICK k \in Nat : d - q = 1 + k
      <4>1. d - q - 1 \in Nat /\ d - q = 1 + (d - q - 1)
        BY <1>2, <2>1
      <4> QED BY <4>1
    <3>2. (d - q) * m = m + k * m /\ k * m \in Nat
      BY <3>1
    <3> QED BY <1>2, <2>0, <3>2
  <2>2. CASE d < q
    <3>1. PICK k \in Nat : q - d = 1 + k
      <4>1. q - d - 1 \in Nat /\ q - d = 1 + (q - d - 1)
        BY <1>2, <2>2
      <4> QED BY <4>1
    <3>2. (q - d) * m = m + k * m /\ k * m \in Nat
      BY <3>1
    <3>3. (q - d) * m = 0 - (d - q) * m
      BY <1>2
    <3> QED BY <1>2, <2>0, <3>2, <3>3
  <2> QED BY <1>2, <2>1, <2>2
<1> HIDE DEF d, e
<1>4. m * d = q * m
  BY <1>3
<1> QED BY <1>1, <1>2, <1>3, <1>4 DEF d, e

\* The remainder of a sum is that of the remainders.
LEMMA SumRemainder ==
  ASSUME NEW m \in Nat, m > 0, NEW a \in Int, NEW b \in Int
  PROVE  /\ ((a % m) + b) % m = (a + b) % m
         /\ a % m \in 0 .. m - 1
         /\ (a + m) % m = a % m
         /\ a \in 0 .. m - 1 => a % m = a
<1> DEFINE d == a \div m  e == a % m
<1>1. d \in Int /\ e \in Int /\ a = d * m + e /\ 0 <= e /\ e < m
  OBVIOUS
<1> HIDE DEF d, e
<1> DEFINE x == e + b  f == x \div m  g == x % m
<1>2. x \in Int /\ f \in Int /\ g \in Int /\ x = f * m + g /\ 0 <= g /\ g < m
  BY <1>1
<1> HIDE DEF x, f, g
<1>3. a + b = (d + f) * m + g
  <2>1. (d + f) * m = d * m + f * m
    BY <1>1, <1>2
  <2> QED BY <1>1, <1>2, <2>1 DEF x
<1>4. d + f \in Int
  BY <1>1, <1>2
<1>5. (a + b) % m = g
  BY <1>2, <1>3, <1>4, OneRemainder
<1>6. a + m = (d + 1) * m + e /\ d + 1 \in Int
  <2>1. (d + 1) * m = d * m + m
    BY <1>1
  <2> QED BY <1>1, <2>1
<1>7. (a + m) % m = e
  BY <1>1, <1>6, OneRemainder
<1>8. a \in 0 .. m - 1 => a % m = a
  <2>1. a = 0 * m + a
    OBVIOUS
  <2> QED BY <2>1, OneRemainder
<1> QED BY <1>1, <1>5, <1>7, <1>8 DEF e, g, x
-----------------------------------------------------------------------------
(* Sequences of elements of whatever kind, as the bytes of the ciphers are.*)

\* s is a sequence of n elements, of whatever kind.
Tuple(s, n) == s = [i \in 1 .. n |-> s[i]]

\* Such a sequence has a length and a domain.
LEMMA TupleFacts ==
  ASSUME NEW n \in Nat, NEW s, Tuple(s, n)
  PROVE  s \in Seq({s[i] : i \in 1 .. n}) /\ Len(s) = n /\ DOMAIN s = 1 .. n
<1>1. s \in [1 .. n -> {s[i] : i \in 1 .. n}]
  BY DEF Tuple
<1> QED BY <1>1, SeqDef

\* Two that agree are the same.
LEMMA TupleSame ==
  ASSUME NEW n \in Nat, NEW s, Tuple(s, n), NEW t, Tuple(t, n), \A i \in 1 .. n : s[i] = t[i]
  PROVE  s = t
  BY DEF Tuple

\* u has the n elements of s, then the m elements of t.
Chained(u, s, n, t, m) ==
  /\ Tuple(u, n + m)
  /\ \A i \in 1 .. n : u[i] = s[i]
  /\ \A i \in 1 .. n + m : i > n => i - n \in 1 .. m /\ u[i] = t[i - n]

\* The elements of one behind another.
LEMMA TupleJoin ==
  ASSUME NEW n \in Nat, NEW m \in Nat, NEW s, Tuple(s, n), NEW t, Tuple(t, m)
  PROVE  Chained(s \o t, s, n, t, m)
<1> DEFINE u == s \o t
<1> DEFINE S == {s[i] : i \in 1 .. n} \cup {t[i] : i \in 1 .. m}
<1>1. s \in Seq(S) /\ t \in Seq(S) /\ Len(s) = n /\ Len(t) = m
  <2>1. s \in [1 .. n -> S] /\ t \in [1 .. m -> S]
    BY DEF Tuple
  <2> HIDE DEF S
  <2>2. \A k \in Nat : \A f \in [1 .. k -> S] : f \in Seq(S) /\ Len(f) = k
    BY SeqDef
  <2> QED BY <2>1, <2>2
<1> HIDE DEF S
<1>2. /\ u \in Seq(S) /\ Len(u) = n + m
      /\ \A i \in 1 .. n : u[i] = s[i]
      /\ \A i \in 1 .. n + m : i > n => i - n \in 1 .. m /\ u[i] = t[i - n]
  BY <1>1, ConcatSteps
<1>3. Tuple(u, n + m)
  BY <1>2, LenProperties DEF Tuple
<1> QED BY <1>2, <1>3 DEF Chained

\* u has the k elements of s from place a on.
CutOf(u, s, a, k) ==
  /\ Tuple(u, k)
  /\ \A i \in 1 .. k : u[i] = s[a + i - 1]

\* A piece of one.
LEMMA TupleCut ==
  ASSUME NEW n \in Nat, NEW s, Tuple(s, n), NEW a \in Nat, NEW b \in Nat, 1 <= a, b <= n, a <= b + 1
  PROVE  CutOf(SubSeq(s, a, b), s, a, b - a + 1)
<1> DEFINE S == {s[i] : i \in 1 .. n}  k == b - a + 1
<1>1. s \in Seq(S) /\ Len(s) = n
  BY TupleFacts
<1> HIDE DEF S
<1>2. CASE k = 0
  <2>1. SubSeq(s, a, b) = << >>
    BY <1>1, <1>2, SubSeqEmpty
  <2>2. Tuple(<< >>, 0)
    BY DEF Tuple
  <2> QED BY <1>2, <2>1, <2>2 DEF CutOf
<1>3. CASE k > 0
  <2>1. a \in 1 .. Len(s) + 1 /\ b \in a - 1 .. Len(s)
    BY <1>1, <1>3
  <2>2. /\ SubSeq(s, a, b) \in Seq(S) /\ Len(SubSeq(s, a, b)) = k
        /\ \A i \in 1 .. k : SubSeq(s, a, b)[i] = s[a + i - 1]
    BY <1>1, <2>1, SubSeqProperties
  <2> QED BY <1>1, <2>2, LenProperties DEF Tuple, CutOf
<1> QED BY <1>2, <1>3
=============================================================================
