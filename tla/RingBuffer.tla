----------------------------- MODULE RingBuffer -----------------------------
(***************************************************************************)
(* containers::RingBuffer (include/ring_buffer.h): the byte ring in which  *)
(* a session keeps the packets it has yet to write.  A ring is the vector  *)
(* buffer_ and the two offsets head_ (next byte written) and tail_ (next   *)
(* byte read); one byte stays free so that head = tail means empty.  Each  *)
(* message is stored as a 2-byte length followed by its bytes, and both    *)
(* may wrap around the end of the vector.                                  *)
(*                                                                         *)
(* A byte ranges over 0 .. Radix - 1 (256 in the code), so that the limit a   *)
(* 2-byte length puts on a message is reached by small instances too.      *)
(* buffer_[i] is buf[i+1]: vectors are sequences.                          *)
(***************************************************************************)
EXTENDS Integers, Sequences

CONSTANTS
  Rings,     \* the ring objects
  Capacity,  \* Capacity[r]: constructor argument of ring r
  Radix,     \* number of values of a byte
  Payloads   \* the messages offered to Push

Byte == 0 .. Radix - 1

ASSUME RingAssumption ==
  /\ Capacity \in [Rings -> Nat \ {0}]
  /\ Radix \in Nat \ {0, 1}
  /\ Payloads \subseteq Seq(Byte)

VARIABLES
  ring,   \* ring[r]: the vector and the two offsets of ring r
  queue,  \* history: queue[r] holds the messages accepted and not yet popped
  ret     \* result of the last call

vars == <<ring, queue, ret>>
-----------------------------------------------------------------------------
\* sizeof(uint16_t), the length as two host-order bytes, and its limit.
PrefixSize == 2
Prefix(n)  == <<n % Radix, n \div Radix>>
Length(b)  == b[1] + Radix * b[2]
MaxLen     == Radix * Radix - 1

\* A ring whose vector was moved away.
Vacated == [buf |-> <<>>, head |-> 0, tail |-> 0]

Constructed(cap) ==
  [buf |-> [i \in 1 .. cap + 1 |-> 0], head |-> 0, tail |-> 0]

Size(rb)    == Len(rb.buf)
IsEmpty(rb) == rb.head = rb.tail
GetCapacity(rb) == IF Size(rb) = 0 THEN 0 ELSE Size(rb) - 1

\* A bug one could write: the byte that tells full from empty is not kept.
FreeSpaceNoGap(rb) ==
  IF Size(rb) = 0 THEN 0
  ELSE IF rb.head >= rb.tail
       THEN (Size(rb) - rb.head) + rb.tail
       ELSE rb.tail - rb.head

FreeSpace(rb) ==
  IF Size(rb) = 0 THEN 0
  ELSE IF rb.head >= rb.tail
       THEN (Size(rb) - rb.head) + rb.tail - 1
       ELSE rb.tail - rb.head - 1

\* A bug one could write: head is not reset when the bytes end at the end of
\* the vector.
StoreNoWrap(rb, data) ==
  LET space == Size(rb) - rb.head
      n     == Len(data)
  IN  IF space < n
      THEN [rb EXCEPT
              !.buf  = [i \in DOMAIN rb.buf |->
                          IF i > rb.head THEN data[i - rb.head]
                          ELSE IF i <= n - space THEN data[space + i]
                          ELSE rb.buf[i]],
              !.head = n - space]
      ELSE [rb EXCEPT
              !.buf  = [i \in DOMAIN rb.buf |->
                          IF i \in rb.head + 1 .. rb.head + n
                          THEN data[i - rb.head] ELSE rb.buf[i]],
              !.head = rb.head + n]

\* Push's helper: copy data in at head, in two parts when it does not fit
\* before the end of the vector, and advance head.
Store(rb, data) ==
  LET space == Size(rb) - rb.head
      n     == Len(data)
  IN  IF space < n
      THEN [rb EXCEPT
              !.buf  = [i \in DOMAIN rb.buf |->
                          IF i > rb.head THEN data[i - rb.head]
                          ELSE IF i <= n - space THEN data[space + i]
                          ELSE rb.buf[i]],
              !.head = n - space]
      ELSE [rb EXCEPT
              !.buf  = [i \in DOMAIN rb.buf |->
                          IF i \in rb.head + 1 .. rb.head + n
                          THEN data[i - rb.head] ELSE rb.buf[i]],
              !.head = (rb.head + n) % Size(rb)]

\* Pop's helper: the n bytes from offset pos on, and the offset after them.
LoadBytes(rb, pos, n) ==
  LET space == Size(rb) - pos
  IN  [k \in 1 .. n |-> IF k <= space THEN rb.buf[pos + k]
                                      ELSE rb.buf[k - space]]

LoadPos(rb, pos, n) ==
  LET space == Size(rb) - pos
  IN  IF space < n THEN (n - space) % Size(rb) ELSE (n + pos) % Size(rb)

Accepts(rb, data) ==
  /\ data # <<>>
  /\ FreeSpace(rb) >= Len(data) + PrefixSize
  /\ Len(data) <= MaxLen

Pushed(rb, data) == Store(Store(rb, Prefix(Len(data))), data)

\* The message at tail and the ring without it.
FrontLen(rb)  == Length(LoadBytes(rb, rb.tail, PrefixSize))
FrontData(rb) ==
  LoadBytes(rb, LoadPos(rb, rb.tail, PrefixSize), FrontLen(rb))
Popped(rb) ==
  [rb EXCEPT !.tail =
     LoadPos(rb, LoadPos(rb, rb.tail, PrefixSize), FrontLen(rb))]

Cleared(rb) == [buf |-> rb.buf, head |-> 0, tail |-> 0]
-----------------------------------------------------------------------------
Init ==
  /\ ring  = [r \in Rings |-> Constructed(Capacity[r])]
  /\ queue = [r \in Rings |-> <<>>]
  /\ ret   = [op |-> "none", ok |-> TRUE, data |-> <<>>]

Push(r, data) ==
  /\ Accepts(ring[r], data)
  /\ ring'  = [ring EXCEPT ![r] = Pushed(@, data)]
  /\ queue' = [queue EXCEPT ![r] = Append(@, data)]
  /\ ret'   = [op |-> "push", ok |-> TRUE, data |-> <<>>]

PushRefused(r, data) ==
  /\ ~Accepts(ring[r], data)
  /\ ret' = [op |-> "push", ok |-> FALSE, data |-> <<>>]
  /\ UNCHANGED <<ring, queue>>

Pop(r) ==
  /\ ~IsEmpty(ring[r])
  /\ ret'   = [op |-> "pop", ok |-> TRUE, data |-> FrontData(ring[r])]
  /\ ring'  = [ring EXCEPT ![r] = Popped(@)]
  /\ queue' = [queue EXCEPT ![r] = Tail(@)]

PopEmpty(r) ==
  /\ IsEmpty(ring[r])
  /\ ret' = [op |-> "pop", ok |-> FALSE, data |-> <<>>]
  /\ UNCHANGED <<ring, queue>>

Clear(r) ==
  /\ ring'  = [ring EXCEPT ![r] = Cleared(@)]
  /\ queue' = [queue EXCEPT ![r] = <<>>]
  /\ ret'   = [op |-> "clear", ok |-> TRUE, data |-> <<>>]

Swap(r, s) ==
  /\ ring'  = [ring EXCEPT ![r] = ring[s], ![s] = ring[r]]
  /\ queue' = [queue EXCEPT ![r] = queue[s], ![s] = queue[r]]
  /\ ret'   = [op |-> "swap", ok |-> TRUE, data |-> <<>>]

\* Move assignment; the move constructor has the same effect on a new ring.
MoveAssign(r, s) ==
  /\ r # s
  /\ ring'  = [ring EXCEPT ![r] = ring[s], ![s] = Vacated]
  /\ queue' = [queue EXCEPT ![r] = queue[s], ![s] = <<>>]
  /\ ret'   = [op |-> "move", ok |-> TRUE, data |-> <<>>]

Next ==
  \/ \E r \in Rings, data \in Payloads : Push(r, data) \/ PushRefused(r, data)
  \/ \E r \in Rings : Pop(r) \/ PopEmpty(r) \/ Clear(r)
  \/ \E r, s \in Rings : Swap(r, s) \/ MoveAssign(r, s)

Spec == Init /\ [][Next]_vars
-----------------------------------------------------------------------------
\* The bytes written and not yet read, oldest first.
Used(rb) ==
  IF rb.head >= rb.tail THEN rb.head - rb.tail
                        ELSE Size(rb) - rb.tail + rb.head
Cell(rb, k) ==
  IF rb.tail + k <= Size(rb) THEN rb.tail + k ELSE rb.tail + k - Size(rb)
Unread(rb) == [k \in 1 .. Used(rb) |-> rb.buf[Cell(rb, k)]]

Frame(m) == Prefix(Len(m)) \o m

\* A ring that has a vector has both offsets inside it.
Live ==
  {rb \in [buf : Seq(Byte), head : Nat, tail : Nat] :
     Len(rb.buf) >= 2 /\ rb.head < Len(rb.buf) /\ rb.tail < Len(rb.buf)}
RingType == {Vacated} \cup Live

\* The vector of each ring is one that a constructor made, as that of of[r],
\* and no two rings have the same one.
VectorsKept ==
  \E of \in [Rings -> Rings] :
    /\ \A r, s \in Rings : of[r] = of[s] => r = s
    /\ \A r \in Rings : Size(ring[r]) # 0 => Size(ring[r]) = Capacity[of[r]] + 1

\* Type invariant: both offsets index the vector whenever there is one, and the
\* vectors keep the size that the constructors gave them while Swap and moves
\* hand them on (ring_buffer.h:22-40, 123-127).
TypeOK ==
  /\ ring  \in [Rings -> RingType]
  /\ queue \in [Rings -> Seq(Seq(Byte))]
  /\ ret   \in [op : {"none", "push", "pop", "clear", "swap", "move"},
                ok : BOOLEAN, data : Seq(Byte)]
  /\ VectorsKept

\* The unread bytes of a ring are the frames of the accepted messages, one
\* after the other, with nothing before, between or after them: off[i] bytes
\* precede message i.
Layout(rb, q) ==
  \E off \in [1 .. Len(q) + 1 -> 0 .. Used(rb)] :
    /\ off[1] = 0
    /\ off[Len(q) + 1] = Used(rb)
    /\ \A i, j \in DOMAIN off : i <= j => off[i] <= off[j]
    /\ \A i \in 1 .. Len(q) :
         /\ Len(q[i]) \in 1 .. MaxLen
         /\ off[i + 1] = off[i] + PrefixSize + Len(q[i])
         /\ \A k \in 1 .. PrefixSize + Len(q[i]) :
              Unread(rb)[off[i] + k] = Frame(q[i])[k]

\* However messages wrap around the end of the vector and however pushes,
\* pops, clears, swaps and moves are mixed, the bytes between tail and head
\* are exactly the frames of the messages accepted and not popped: no push
\* overwrites an unread byte and no pop stops in the middle of a frame.
Intact == \A r \in Rings : Layout(ring[r], queue[r])

\* The ring promises its users a bounded FIFO of whole messages: a refused
\* Push is one whose frame does not fit, Pop returns the oldest message.
Abstract(rb, q) ==
  [cap |-> GetCapacity(rb), used |-> Used(rb), msgs |-> q]
MQ == INSTANCE MessageQueue WITH
        Queues <- Rings,
        mq <- [r \in Rings |-> Abstract(ring[r], queue[r])]
IsMessageQueue == MQ!Spec
=============================================================================
