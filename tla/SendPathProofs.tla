--------------------------- MODULE SendPathProofs ---------------------------
(* Proofs about SendPath, for every capacity of the queue, every number of  *)
(* packets and of pieces a packet is sent in.                               *)
EXTENDS SendPath, QueueFacts

-----------------------------------------------------------------------------
(* The inductive invariant of a packet's way.                              *)

\* Handlers of Write wait in the order of the calls, and every packet an
\* async_write has had was written before those that still wait.
InLine ==
  /\ \A i, j \in DOMAIN tasks :
       i < j /\ tasks[i].op = "write" /\ tasks[j].op = "write"
         => tasks[i].msg < tasks[j].msg
  /\ \A i \in DOMAIN tasks :
       tasks[i].op = "write" =>
         /\ tasks[i].msg <= calls
         /\ \A m \in Packets : op[m].phase # "none" => m < tasks[i].msg

\* A packet was handed to async_write only if Write was called with it, and
\* each packet of a call has its handler waiting or was handed on.
Issued ==
  \A m \in Packets :
    /\ op[m].phase # "none" => m <= calls
    /\ m <= calls /\ op[m].phase = "none" => \E i \in DOMAIN tasks : tasks[i] = WriteTask(m)

\* A send that has succeeded has sent something.
Progress == \A m \in Packets : op[m].phase = "ready" /\ ~op[m].ec => op[m].sent > 0

\* The descriptor's queue holds packets of an async_write; those of which
\* nothing went out yet wait in the order of the calls.
Waiting ==
  /\ \A i \in DOMAIN sendq : op[sendq[i]].phase # "none"
  /\ \A i, j \in DOMAIN sendq :
       i < j /\ op[sendq[i]].sent = 0 /\ op[sendq[j]].sent = 0 => sendq[i] < sendq[j]

\* A packet with its first piece on the wire has sent something, and comes
\* before the packets that wait with nothing sent.
OnWire ==
  \A i \in DOMAIN wire :
    wire[i].part = 1 =>
      /\ op[wire[i].msg].phase # "none" /\ op[wire[i].msg].sent > 0
      /\ \A j \in DOMAIN sendq : op[sendq[j]].sent = 0 => wire[i].msg < sendq[j]

Inv ==
  /\ TypeOK /\ QueueNeverHolds
  /\ InLine /\ Issued /\ Progress /\ Waiting /\ OnWire /\ StartsInOrder
-----------------------------------------------------------------------------

\* WriteImpl on a queue of one packet leaves the queue empty.
LEMMA PumpTakesTheOnly ==
  ASSUME NEW m, NEW o, WriteImpl(<<m>>, o)
  PROVE  mq' = <<>>
<1>1. <<m>> # <<>> /\ Tail(<<m>>) = <<>>
  OBVIOUS
<1> QED BY <1>1 DEF WriteImpl

\* Every step keeps message_queue_ empty and refuses no packet.
LEMMA QueueStep ==
  ASSUME QueueNeverHolds, [Next]_vars
  PROVE  QueueNeverHolds'
<1> USE DEF QueueNeverHolds
<1>1. CASE Write
  BY <1>1 DEF Write, pump
<1>2. CASE RunWrite
  <2>1. Len(mq) < QueueCap
    BY SendPathAssumption
  <2> DEFINE m == Head(tasks).msg
  <2>2. Append(mq, m) = <<m>>
    OBVIOUS
  <2>3. WriteImpl(<<m>>, op) /\ lost' = lost
    BY <1>2, <2>1, <2>2 DEF RunWrite
  <2> QED BY <2>3, PumpTakesTheOnly
<1>3. CASE Close
  BY <1>3 DEF Close, pump
<1>4. CASE RunClose
  <2>1. ToSet(mq) = {}
    BY DEF ToSet
  <2> QED BY <1>4, <2>1 DEF RunClose, pump
<1>5. ASSUME NEW m \in Packets, Complete(m)
      PROVE  QueueNeverHolds'
  BY <1>5 DEF Complete, WriteImpl
<1>6. CASE Writable
  BY <1>6 DEF Writable
<1>7. CASE PeerReset
  BY <1>7 DEF PeerReset
<1>8. CASE UNCHANGED vars
  BY <1>8 DEF vars, pump
<1> QED BY <1>1, <1>2, <1>3, <1>4, <1>5, <1>6, <1>7, <1>8 DEF Next, Handlers

\* message_queue_ never holds a packet between two handlers, and its capacity
\* refuses none, for every capacity: SessionServer::Write and
\* SessionClient::Write start an async_write per packet.
THEOREM QueueIsNeverUsed == Spec => []QueueNeverHolds
<1>1. Init => QueueNeverHolds
  BY DEF Init, QueueNeverHolds
<1>2. QueueNeverHolds /\ [Next]_vars => QueueNeverHolds'
  BY QueueStep
<1> QED BY <1>1, <1>2, PTL DEF Spec
-----------------------------------------------------------------------------
Phases == {"none", "waiting", "ready", "over"}
Ops    == [phase : Phases, sent : 0 .. Parts, ec : BOOLEAN]
Piece  == [msg : Packets, part : 1 .. Parts, live : BOOLEAN]
Tasks  == {WriteTask(m) : m \in Packets} \cup {CloseTask}

\* What a send does to one operation: its other fields and the other
\* operations stay.
LEMMA OpSends ==
  ASSUME op \in [Packets -> Ops], NEW m \in Packets, NEW n \in 0 .. Parts,
         op' = [op EXCEPT ![m].phase = "ready", ![m].sent = n]
  PROVE  /\ op' \in [Packets -> Ops]
         /\ op'[m].phase = "ready" /\ op'[m].sent = n /\ op'[m].ec = op[m].ec
         /\ \A p \in Packets : p # m => op'[p] = op[p]
<1>1. \A p \in Packets : op[p] \in Ops /\ op[p].sent \in 0 .. Parts /\ op[p].ec \in BOOLEAN
  BY DEF Ops
<1> QED BY <1>1 DEF Ops, Phases

\* What waiting and ending do to one operation (StartSend, Complete).
LEMMA OpMoves ==
  ASSUME op \in [Packets -> Ops], NEW m \in Packets, NEW ph \in Phases,
         op' = [op EXCEPT ![m].phase = ph]
  PROVE  /\ op' \in [Packets -> Ops]
         /\ op'[m].phase = ph /\ op'[m].sent = op[m].sent /\ op'[m].ec = op[m].ec
         /\ \A p \in Packets : p # m => op'[p] = op[p]
<1>1. \A p \in Packets : op[p] \in Ops /\ op[p].sent \in 0 .. Parts /\ op[p].ec \in BOOLEAN
  BY DEF Ops
<1> QED BY <1>1 DEF Ops

\* What an error does to one operation (StartSend).
LEMMA OpFails ==
  ASSUME op \in [Packets -> Ops], NEW m \in Packets,
         op' = [op EXCEPT ![m].phase = "ready", ![m].ec = TRUE]
  PROVE  /\ op' \in [Packets -> Ops]
         /\ op'[m].phase = "ready" /\ op'[m].sent = op[m].sent /\ op'[m].ec = TRUE
         /\ \A p \in Packets : p # m => op'[p] = op[p]
<1>1. \A p \in Packets : op[p] \in Ops /\ op[p].sent \in 0 .. Parts /\ op[p].ec \in BOOLEAN
  BY DEF Ops
<1> QED BY <1>1 DEF Ops, Phases

\* What is on the wire after some pieces were added.
LEMMA WireGrows ==
  ASSUME wire \in Seq(Piece), NEW ps \in Seq(Piece), wire' = wire \o ps
  PROVE  /\ wire' \in Seq(Piece) /\ DOMAIN wire = 1 .. Len(wire) /\ Len(wire) \in Nat
         /\ DOMAIN wire' = 1 .. Len(wire') /\ Len(wire') \in Nat
         /\ \A i \in DOMAIN wire' : wire'[i] \in Piece
         /\ \A i \in DOMAIN wire' : i \in DOMAIN wire => wire'[i] = wire[i]
         /\ \A i \in DOMAIN wire' : i \notin DOMAIN wire =>
              i > Len(wire) /\ i - Len(wire) \in 1 .. Len(ps) /\ wire'[i] = ps[i - Len(wire)]
<1>1. /\ wire' \in Seq(Piece) /\ Len(wire') = Len(wire) + Len(ps)
      /\ \A i \in 1 .. Len(wire) + Len(ps) : wire'[i] = IF i <= Len(wire) THEN wire[i] ELSE ps[i - Len(wire)]
  <2>1. Len(wire \o ps) = Len(wire) + Len(ps)
    BY ConcatProperties
  <2>2. \A i \in 1 .. Len(wire) + Len(ps) : (wire \o ps)[i] = IF i <= Len(wire) THEN wire[i] ELSE ps[i - Len(wire)]
    BY ConcatProperties
  <2> QED BY <2>1, <2>2
<1>2. /\ Len(wire) \in Nat /\ DOMAIN wire = 1 .. Len(wire) /\ Len(ps) \in Nat
      /\ DOMAIN wire' = 1 .. Len(wire') /\ Len(wire') \in Nat
      /\ \A i \in DOMAIN wire' : wire'[i] \in Piece
  BY <1>1, LenProperties, ElementOfSeq
<1>3. ASSUME NEW i \in DOMAIN wire', i \notin DOMAIN wire
      PROVE  i > Len(wire) /\ i - Len(wire) \in 1 .. Len(ps) /\ wire'[i] = ps[i - Len(wire)]
  <2>1. i \in Nat /\ i > Len(wire) /\ i <= Len(wire) + Len(ps)
    BY <1>1, <1>2, <1>3
  <2>2. i - Len(wire) \in 1 .. Len(ps)
    BY <1>2, <2>1
  <2> QED BY <1>1, <1>2, <2>1, <2>2
<1>4. ASSUME NEW i \in DOMAIN wire', i \in DOMAIN wire PROVE wire'[i] = wire[i]
  BY <1>1, <1>2, <1>4
<1> QED BY <1>1, <1>2, <1>3, <1>4

\* The pieces k .. n of packet m that one send hands to the kernel.
LEMMA PiecesFacts ==
  ASSUME NEW m \in Packets, NEW k \in Nat, NEW n \in Nat, 1 <= k, k <= n, n <= Parts,
         NEW live \in BOOLEAN
  PROVE  /\ Pieces(m, k, n, live) \in Seq(Piece)
         /\ \A x \in 1 .. Len(Pieces(m, k, n, live)) :
              /\ Pieces(m, k, n, live)[x].msg = m
              /\ Pieces(m, k, n, live)[x].part = k + x - 1
<1> DEFINE l == n - k + 1
<1>1. l \in Nat /\ l > 0 /\ \A x \in 1 .. l : k + x - 1 \in 1 .. Parts
  BY SendPathAssumption
<1>2. \A x \in 1 .. l : [msg |-> m, part |-> k + x - 1, live |-> live] \in Piece
  BY <1>1 DEF Piece
<1> DEFINE ps == Pieces(m, k, n, live)
<1>3. ps = [x \in 1 .. l |-> [msg |-> m, part |-> k + x - 1, live |-> live]]
  BY DEF Pieces
<1> HIDE DEF ps, l
<1>4. ps \in [1 .. l -> Piece] /\ \A x \in 1 .. l : ps[x].msg = m /\ ps[x].part = k + x - 1
  BY <1>2, <1>3
<1>5. ps \in Seq(Piece)
  BY <1>1, <1>4
<1>6. 1 .. Len(ps) = 1 .. l
  BY <1>4, <1>5, LenProperties
<1>7. /\ ps \in Seq(Piece)
      /\ \A x \in 1 .. Len(ps) : ps[x].msg = m /\ ps[x].part = k + x - 1
  BY <1>4, <1>5, <1>6
<1> QED BY <1>7 DEF ps

\* A packet of which n pieces have now gone out: its first piece, if it is
\* among them, is behind the first pieces of the packets written before it
\* and ahead of the packets that wait (StartSend and Writable).
LEMMA SentNow ==
  ASSUME Inv, NEW m \in Packets, NEW n \in op[m].sent + 1 .. Parts, NEW live \in BOOLEAN,
         op' = [op EXCEPT ![m].phase = "ready", ![m].sent = n],
         wire' = wire \o Pieces(m, op[m].sent + 1, n, live),
         sendq' \in Seq(Packets),
         op[m].sent = 0 =>
           /\ \A i \in DOMAIN wire : wire[i].part = 1 => wire[i].msg < m
           /\ \A j \in DOMAIN sendq' : op[sendq'[j]].sent = 0 => sendq'[j] = m \/ m < sendq'[j],
         \A j \in DOMAIN sendq' : \E k \in DOMAIN sendq : sendq'[j] = sendq[k]
  PROVE  /\ wire' \in Seq(Piece)
         /\ OnWire' /\ StartsInOrder'
<1>0. /\ op \in [Packets -> Ops] /\ wire \in Seq(Piece)
      /\ op[m].sent \in 0 .. Parts /\ op[m].sent \in Nat /\ n \in Nat /\ n > op[m].sent
      /\ n \in 0 .. Parts
  <2>1. op \in [Packets -> Ops] /\ wire \in Seq(Piece)
    BY DEF Inv, TypeOK, Ops, Phases, Piece
  <2>2. op[m].sent \in 0 .. Parts
    BY <2>1 DEF Ops
  <2> QED BY <2>1, <2>2, SendPathAssumption
<1>1. /\ op' \in [Packets -> Ops] /\ op'[m].phase = "ready" /\ op'[m].sent = n
      /\ \A p \in Packets : p # m => op'[p] = op[p]
  BY <1>0, OpSends
<1>2. /\ wire' \in Seq(Piece) /\ DOMAIN wire = 1 .. Len(wire) /\ Len(wire) \in Nat
      /\ DOMAIN wire' = 1 .. Len(wire') /\ Len(wire') \in Nat
      /\ \A i \in DOMAIN wire' : wire'[i] \in Piece
      /\ \A i \in DOMAIN wire' : i \in DOMAIN wire => wire'[i] = wire[i]
      /\ \A i \in DOMAIN wire' : i \notin DOMAIN wire =>
           i > Len(wire) /\ wire'[i].msg = m /\ wire'[i].part = op[m].sent + (i - Len(wire))
  <2> DEFINE k == op[m].sent + 1  ps == Pieces(m, k, n, live)
  <2>1. k \in Nat /\ n \in Nat /\ 1 <= k /\ k <= n /\ n <= Parts /\ k - 1 = op[m].sent
    <3>1. op[m].sent \in Nat /\ n \in Nat /\ n > op[m].sent /\ n <= Parts
      BY <1>0, SendPathAssumption
    <3> HIDE DEF ps
    <3> QED BY <3>1
  <2>2. wire' = wire \o ps
    OBVIOUS
  <2> HIDE DEF k
  <2>3. ps \in Seq(Piece) /\ \A x \in 1 .. Len(ps) : ps[x].msg = m /\ ps[x].part = k + x - 1
    BY <2>1, PiecesFacts
  <2> HIDE DEF ps
  <2>4. /\ wire' \in Seq(Piece) /\ DOMAIN wire = 1 .. Len(wire) /\ Len(wire) \in Nat
        /\ DOMAIN wire' = 1 .. Len(wire') /\ Len(wire') \in Nat
        /\ \A i \in DOMAIN wire' : wire'[i] \in Piece
        /\ \A i \in DOMAIN wire' : i \in DOMAIN wire => wire'[i] = wire[i]
        /\ \A i \in DOMAIN wire' : i \notin DOMAIN wire =>
             i > Len(wire) /\ i - Len(wire) \in 1 .. Len(ps) /\ wire'[i] = ps[i - Len(wire)]
    BY <1>0, <2>2, <2>3, WireGrows
  <2>5. ASSUME NEW i \in DOMAIN wire', i \notin DOMAIN wire
        PROVE  i > Len(wire) /\ wire'[i].msg = m /\ wire'[i].part = op[m].sent + (i - Len(wire))
    <3>1. i > Len(wire) /\ i - Len(wire) \in 1 .. Len(ps) /\ wire'[i] = ps[i - Len(wire)]
      BY <2>4, <2>5
    <3>2. wire'[i].msg = m /\ wire'[i].part = k + (i - Len(wire)) - 1
      BY <2>3, <3>1
    <3>3. i \in Nat /\ Len(wire) \in Nat
      BY <2>4
    <3> QED BY <2>1, <3>1, <3>2, <3>3
  <2> QED BY <2>4, <2>5
<1>3. /\ Len(wire') \in Nat /\ DOMAIN wire' = 1 .. Len(wire')
      /\ \A j \in DOMAIN sendq' : sendq'[j] \in Packets
  BY <1>2, LenProperties, ElementOfSeq
<1>4. ASSUME NEW i \in DOMAIN wire', wire'[i].part = 1, i \notin DOMAIN wire
      PROVE  op[m].sent = 0 /\ i = Len(wire) + 1 /\ wire'[i].msg = m
  <2>1. i \in Nat /\ Len(wire) \in Nat /\ i > Len(wire)
    BY <1>2, <1>4
  <2>2. wire'[i].msg = m /\ 1 = op[m].sent + (i - Len(wire))
    BY <1>2, <1>4
  <2>3. op[m].sent \in Nat
    BY <1>0
  <2> QED BY <2>1, <2>2, <2>3
<1>5. OnWire'
  <2> SUFFICES ASSUME NEW i \in DOMAIN wire', wire'[i].part = 1
               PROVE  /\ op'[wire'[i].msg].phase # "none" /\ op'[wire'[i].msg].sent > 0
                      /\ \A j \in DOMAIN sendq' : op'[sendq'[j]].sent = 0 => wire'[i].msg < sendq'[j]
    BY DEF OnWire
  <2>1. wire'[i].msg \in Packets
    BY <1>2 DEF Piece
  <2>2. CASE i \notin DOMAIN wire
    <3>1. op[m].sent = 0 /\ wire'[i].msg = m
      BY <1>4, <2>2
    <3>2. ASSUME NEW j \in DOMAIN sendq', op'[sendq'[j]].sent = 0 PROVE m < sendq'[j]
      <4>1. sendq'[j] # m
        BY <1>0, <1>1, <3>2
      <4> QED BY <1>1, <1>3, <3>1, <3>2, <4>1
    <3> QED BY <1>0, <1>1, <3>1, <3>2
  <2>3. CASE i \in DOMAIN wire
    <3>1. wire'[i] = wire[i]
      BY <1>2, <2>3
    <3>2. /\ op[wire[i].msg].phase # "none" /\ op[wire[i].msg].sent > 0
          /\ \A j \in DOMAIN sendq : op[sendq[j]].sent = 0 => wire[i].msg < sendq[j]
      BY <2>3, <3>1 DEF Inv, OnWire
    <3>3. op'[wire[i].msg].phase # "none" /\ op'[wire[i].msg].sent > 0
      BY <1>0, <1>1, <2>1, <3>1, <3>2
    <3>4. ASSUME NEW j \in DOMAIN sendq', op'[sendq'[j]].sent = 0 PROVE wire[i].msg < sendq'[j]
      <4>1. sendq'[j] # m
        BY <1>0, <1>1, <3>4
      <4>2. op[sendq'[j]].sent = 0
        BY <1>1, <1>3, <3>4, <4>1
      <4>3. PICK k \in DOMAIN sendq : sendq'[j] = sendq[k]
        OBVIOUS
      <4> QED BY <3>2, <4>2, <4>3
    <3> QED BY <3>1, <3>3, <3>4
  <2> QED BY <2>2, <2>3
<1>6. StartsInOrder'
  <2> SUFFICES ASSUME NEW i \in DOMAIN wire', NEW j \in DOMAIN wire', i < j,
                      wire'[i].part = 1, wire'[j].part = 1
               PROVE  wire'[i].msg < wire'[j].msg
    BY DEF StartsInOrder
  <2>1. CASE j \in DOMAIN wire
    <3>1. i \in DOMAIN wire
      BY <1>2, <1>3, <2>1
    <3> QED BY <1>2, <2>1, <3>1 DEF Inv, StartsInOrder
  <2>2. CASE j \notin DOMAIN wire
    <3>1. op[m].sent = 0 /\ j = Len(wire) + 1 /\ wire'[j].msg = m
      BY <1>4, <2>2
    <3>2. i \in DOMAIN wire
      BY <1>2, <1>3, <3>1
    <3>3. wire'[i] = wire[i]
      BY <1>2, <3>2
    <3> QED BY <3>1, <3>2, <3>3
  <2> QED BY <2>1, <2>2
<1> QED BY <1>2, <1>5, <1>6

\* What the type invariant says of the elements.
LEMMA Typed ==
  ASSUME TypeOK
  PROVE  /\ op \in [Packets -> Ops] /\ sendq \in Seq(Packets) /\ wire \in Seq(Piece)
         /\ tasks \in Seq(Tasks) /\ calls \in Nat
         /\ \A p \in Packets : /\ p \in Nat /\ op[p].sent \in 0 .. Parts /\ op[p].sent \in Nat
                                /\ op[p].ec \in BOOLEAN /\ op[p].phase \in Phases
         /\ \A i \in DOMAIN sendq : sendq[i] \in Packets
         /\ \A i \in DOMAIN wire : wire[i].msg \in Packets
         /\ \A i \in DOMAIN tasks : tasks[i] \in Tasks
         /\ Parts \in Nat
<1>1. /\ op \in [Packets -> Ops] /\ sendq \in Seq(Packets) /\ wire \in Seq(Piece)
      /\ tasks \in Seq(Tasks)
  BY DEF TypeOK, Ops, Phases, Piece, Tasks
<1>2. calls \in Nat /\ Parts \in Nat /\ \A p \in Packets : p \in Nat
  BY SendPathAssumption DEF TypeOK, Packets
<1>3. \A p \in Packets : op[p].sent \in 0 .. Parts /\ op[p].ec \in BOOLEAN /\ op[p].phase \in Phases
  BY <1>1 DEF Ops
<1>4. \A p \in Packets : op[p].sent \in Nat
  BY <1>2, <1>3
<1>5. /\ \A i \in DOMAIN sendq : sendq[i] \in Packets
      /\ \A i \in DOMAIN wire : wire[i] \in Piece
      /\ \A i \in DOMAIN tasks : tasks[i] \in Tasks
  BY <1>1, ElementOfSeq, LenProperties
<1>6. \A i \in DOMAIN wire : wire[i].msg \in Packets
  BY <1>5 DEF Piece
<1> QED BY <1>1, <1>2, <1>3, <1>4, <1>5, <1>6

\* A step that puts nothing on the wire, forgets no operation and adds nothing
\* to the descriptor's queue keeps the order.
LEMMA NothingSent ==
  ASSUME Inv, wire' = wire, sendq' = sendq \/ sendq' = <<>>,
         \A p \in Packets : /\ op'[p].sent = op[p].sent
                            /\ (op[p].phase # "none" => op'[p].phase # "none")
  PROVE  Waiting' /\ OnWire' /\ StartsInOrder'
<1>2. /\ \A i \in DOMAIN sendq : sendq[i] \in Packets
      /\ \A i \in DOMAIN wire : wire[i].msg \in Packets
  BY Typed DEF Inv
<1>3. CASE sendq' = sendq
  BY <1>2, <1>3 DEF Inv, Waiting, OnWire, StartsInOrder
<1>4. CASE sendq' = <<>>
  BY <1>2, <1>4 DEF Inv, Waiting, OnWire, StartsInOrder
<1> QED BY <1>3, <1>4

\* An async_write starts its next send: at once, or in the descriptor's queue,
\* or with an error.  The packet has had a piece sent before, or is newer than
\* every packet an async_write had (StartSend).
LEMMA SendStarts ==
  ASSUME Inv, NEW m \in Packets, NEW live \in BOOLEAN, StartSend(op, m, live),
         op[m].sent > 0 \/ \A p \in Packets : op[p].phase # "none" => p < m
  PROVE  /\ op' \in [Packets -> Ops] /\ sendq' \in Seq(Packets) /\ wire' \in Seq(Piece)
         /\ op'[m].phase # "none" /\ \A p \in Packets : p # m => op'[p].phase = op[p].phase
         /\ Progress' /\ Waiting' /\ OnWire' /\ StartsInOrder'
<1>1. /\ op \in [Packets -> Ops] /\ sendq \in Seq(Packets) /\ wire \in Seq(Piece)
      /\ \A p \in Packets : op[p].sent \in 0 .. Parts /\ op[p].sent \in Nat /\ p \in Nat
      /\ \A i \in DOMAIN wire : wire[i].msg \in Packets
      /\ \A i \in DOMAIN sendq : sendq[i] \in Packets
      /\ Parts \in Nat
  BY Typed DEF Inv
<1>2. CASE socket # "open"
  <2>1. op' = [op EXCEPT ![m].phase = "ready", ![m].ec = TRUE] /\ sendq' = sendq /\ wire' = wire
    BY <1>2 DEF StartSend
  <2>2. /\ op' \in [Packets -> Ops] /\ op'[m].phase = "ready" /\ op'[m].sent = op[m].sent
        /\ op'[m].ec = TRUE /\ \A p \in Packets : p # m => op'[p] = op[p]
    BY <1>1, <2>1, OpFails
  <2>3. Progress'
    BY <2>2 DEF Inv, Progress
  <2>4. Waiting' /\ OnWire' /\ StartsInOrder'
    BY <2>1, <2>2, NothingSent
  <2> QED BY <1>1, <2>1, <2>2, <2>3, <2>4
<1>3. CASE /\ socket = "open" /\ sendq = <<>>
           /\ \E n \in op[m].sent + 1 .. Parts :
                /\ op' = [op EXCEPT ![m].phase = "ready", ![m].sent = n]
                /\ wire' = wire \o Pieces(m, op[m].sent + 1, n, live)
           /\ UNCHANGED sendq
  <2>1. PICK n \in op[m].sent + 1 .. Parts :
          /\ op' = [op EXCEPT ![m].phase = "ready", ![m].sent = n]
          /\ wire' = wire \o Pieces(m, op[m].sent + 1, n, live)
    BY <1>3
  <2>2. sendq' = <<>> /\ sendq = <<>> /\ sendq' \in Seq(Packets)
    BY <1>1, <1>3
  <2>3. ASSUME op[m].sent = 0, NEW i \in DOMAIN wire, wire[i].part = 1
        PROVE  wire[i].msg < m
    <3>1. wire[i].msg \in Packets
      BY <1>1
    <3> QED BY <1>1, <2>3, <3>1 DEF Inv, OnWire
  <2>9. DOMAIN sendq' = {}
    BY <2>2
  <2>4. wire' \in Seq(Piece) /\ OnWire' /\ StartsInOrder'
    BY <2>1, <2>2, <2>3, <2>9, SentNow
  <2>5. n \in 0 .. Parts /\ n > 0
    BY <1>1
  <2>6. /\ op' \in [Packets -> Ops] /\ op'[m].phase = "ready" /\ op'[m].sent = n
        /\ \A p \in Packets : p # m => op'[p] = op[p]
    BY <1>1, <2>1, <2>5, OpSends
  <2>7. Progress'
    BY <2>5, <2>6 DEF Inv, Progress
  <2>8. Waiting'
    BY <2>2 DEF Waiting
  <2> QED BY <2>2, <2>4, <2>6, <2>7, <2>8
<1>4. CASE /\ socket = "open"
           /\ op' = [op EXCEPT ![m].phase = "waiting"]
           /\ sendq' = Append(sendq, m)
           /\ UNCHANGED wire
  <2>1. /\ op' \in [Packets -> Ops] /\ op'[m].phase = "waiting" /\ op'[m].sent = op[m].sent
        /\ op'[m].ec = op[m].ec /\ \A p \in Packets : p # m => op'[p] = op[p]
    <3>1. "waiting" \in Phases
      BY DEF Phases
    <3> QED BY <1>1, <1>4, <3>1, OpMoves
  <2>2. \A p \in Packets : op'[p].sent = op[p].sent /\ (op[p].phase # "none" => op'[p].phase # "none")
    BY <2>1
  <2>3. /\ sendq' \in Seq(Packets) /\ DOMAIN sendq' = 1 .. Len(sendq) + 1
        /\ Len(sendq) \in Nat /\ DOMAIN sendq = 1 .. Len(sendq)
        /\ \A i \in 1 .. Len(sendq) : sendq'[i] = sendq[i]
        /\ sendq'[Len(sendq) + 1] = m
    BY <1>1, <1>4, QueueSteps
  <2>4. \A i \in DOMAIN sendq' : i \in DOMAIN sendq \/ i = Len(sendq) + 1
    BY <2>3
  <2>5. \A i \in DOMAIN sendq : sendq[i] \in Packets /\ op[sendq[i]].phase # "none"
    BY <1>1 DEF Inv, Waiting
  <2>6. Progress'
    BY <2>1 DEF Inv, Progress
  <2>7. Waiting'
    <3>1. ASSUME NEW i \in DOMAIN sendq' PROVE op'[sendq'[i]].phase # "none"
      BY <2>1, <2>2, <2>3, <2>4, <2>5
    <3>2. ASSUME NEW i \in DOMAIN sendq', NEW j \in DOMAIN sendq', i < j,
                 op'[sendq'[i]].sent = 0, op'[sendq'[j]].sent = 0
          PROVE  sendq'[i] < sendq'[j]
      <4>1. i \in DOMAIN sendq
        BY <2>3, <3>2
      <4>2. sendq'[i] = sendq[i] /\ sendq[i] \in Packets /\ op[sendq[i]].sent = 0
        BY <2>2, <2>3, <2>5, <3>2, <4>1
      <4>3. CASE j \in DOMAIN sendq
        <5>1. sendq'[j] = sendq[j] /\ sendq[j] \in Packets /\ op[sendq[j]].sent = 0
          BY <2>2, <2>3, <2>5, <3>2, <4>3
        <5> QED BY <3>2, <4>1, <4>2, <4>3, <5>1 DEF Inv, Waiting
      <4>4. CASE j = Len(sendq) + 1
        <5>1. sendq'[j] = m /\ op[m].sent = 0
          BY <2>2, <2>3, <3>2, <4>4
        <5>2. op[sendq[i]].phase # "none"
          BY <2>5, <4>1
        <5> QED BY <1>1, <4>2, <5>1, <5>2
      <4> QED BY <2>4, <4>3, <4>4
    <3> QED BY <3>1, <3>2 DEF Waiting
  <2>8. OnWire'
    <3> SUFFICES ASSUME NEW i \in DOMAIN wire, wire[i].part = 1
                 PROVE  /\ op'[wire[i].msg].phase # "none" /\ op'[wire[i].msg].sent > 0
                        /\ \A j \in DOMAIN sendq' : op'[sendq'[j]].sent = 0 => wire[i].msg < sendq'[j]
      BY <1>4 DEF OnWire
    <3>1. wire[i].msg \in Packets
      BY <1>1
    <3>2. /\ op[wire[i].msg].phase # "none" /\ op[wire[i].msg].sent > 0
          /\ \A j \in DOMAIN sendq : op[sendq[j]].sent = 0 => wire[i].msg < sendq[j]
      BY DEF Inv, OnWire
    <3>3. ASSUME NEW j \in DOMAIN sendq', op'[sendq'[j]].sent = 0 PROVE wire[i].msg < sendq'[j]
      <4>1. CASE j \in DOMAIN sendq
        BY <2>2, <2>3, <2>5, <3>2, <3>3, <4>1
      <4>2. CASE j = Len(sendq) + 1
        <5>1. sendq'[j] = m /\ op[m].sent = 0
          BY <2>2, <2>3, <3>3, <4>2
        <5> QED BY <1>1, <3>1, <3>2, <5>1
      <4> QED BY <2>4, <4>1, <4>2
    <3> QED BY <2>2, <3>1, <3>2, <3>3
  <2>9. StartsInOrder'
    BY <1>4 DEF Inv, StartsInOrder
  <2> QED BY <1>1, <1>4, <2>1, <2>3, <2>6, <2>7, <2>8, <2>9
<1> QED BY <1>2, <1>3, <1>4 DEF StartSend

\* The kernel takes pieces of the first packet that waits (Writable).
LEMMA WritableStep ==
  ASSUME Inv, Writable
  PROVE  /\ op' \in [Packets -> Ops] /\ sendq' \in Seq(Packets) /\ wire' \in Seq(Piece)
         /\ \A p \in Packets : op'[p].phase = "none" <=> op[p].phase = "none"
         /\ Progress' /\ Waiting' /\ OnWire' /\ StartsInOrder'
<1>1. /\ op \in [Packets -> Ops] /\ sendq \in Seq(Packets) /\ wire \in Seq(Piece)
      /\ \A p \in Packets : op[p].sent \in 0 .. Parts /\ op[p].sent \in Nat /\ p \in Nat
      /\ \A i \in DOMAIN wire : wire[i].msg \in Packets
      /\ \A i \in DOMAIN sendq : sendq[i] \in Packets
      /\ Parts \in Nat
  BY Typed DEF Inv
<1> DEFINE first == Head(sendq)
<1>2. /\ sendq # <<>> /\ sendq' = Tail(sendq)
      /\ \E n \in op[first].sent + 1 .. Parts :
           /\ op' = [op EXCEPT ![first].phase = "ready", ![first].sent = n]
           /\ wire' = wire \o Pieces(first, op[first].sent + 1, n, FALSE)
  BY DEF Writable
<1>3. /\ first \in Packets /\ first = sendq[1] /\ Len(sendq) \in Nat /\ Len(sendq) > 0
      /\ DOMAIN sendq = 1 .. Len(sendq)
      /\ sendq' \in Seq(Packets) /\ DOMAIN sendq' = 1 .. Len(sendq) - 1
      /\ \A i \in 1 .. Len(sendq) - 1 : sendq'[i] = sendq[i + 1]
  BY <1>1, <1>2, QueueSteps
<1>4. PICK m \in Packets : m = first
  BY <1>3
<1>5. PICK n \in op[m].sent + 1 .. Parts :
        /\ op' = [op EXCEPT ![m].phase = "ready", ![m].sent = n]
        /\ wire' = wire \o Pieces(m, op[m].sent + 1, n, FALSE)
  BY <1>2, <1>4
<1> HIDE DEF first
<1>6. \A i \in DOMAIN sendq : sendq[i] \in Packets /\ op[sendq[i]].phase # "none"
  BY <1>1 DEF Inv, Waiting
<1>7. /\ 1 \in DOMAIN sendq /\ sendq[1] = m
      /\ \A i \in DOMAIN sendq' : i \in Nat /\ i > 0 /\ i + 1 \in DOMAIN sendq /\ sendq'[i] = sendq[i + 1]
  BY <1>3, <1>4
<1>8. ASSUME op[m].sent = 0
      PROVE  /\ \A i \in DOMAIN wire : wire[i].part = 1 => wire[i].msg < m
             /\ \A j \in DOMAIN sendq' : op[sendq'[j]].sent = 0 => sendq'[j] = m \/ m < sendq'[j]
  <2>1. ASSUME NEW i \in DOMAIN wire, wire[i].part = 1 PROVE wire[i].msg < m
    BY <1>7, <1>8, <2>1 DEF Inv, OnWire
  <2>2. ASSUME NEW j \in DOMAIN sendq', op[sendq'[j]].sent = 0 PROVE m < sendq'[j]
    <3>1. 1 < j + 1 /\ j + 1 \in DOMAIN sendq /\ sendq'[j] = sendq[j + 1]
      BY <1>7
    <3> QED BY <1>7, <1>8, <2>2, <3>1 DEF Inv, Waiting
  <2> QED BY <2>1, <2>2
<1>9. \A j \in DOMAIN sendq' : \E k \in DOMAIN sendq : sendq'[j] = sendq[k]
  BY <1>7
<1>10. wire' \in Seq(Piece) /\ OnWire' /\ StartsInOrder'
  BY <1>3, <1>5, <1>8, <1>9, SentNow
<1>11. n \in 0 .. Parts /\ n > 0
  BY <1>1
<1>12. /\ op' \in [Packets -> Ops] /\ op'[m].phase = "ready" /\ op'[m].sent = n
       /\ \A p \in Packets : p # m => op'[p] = op[p]
  BY <1>1, <1>5, <1>11, OpSends
<1>13. Progress'
  BY <1>11, <1>12 DEF Inv, Progress
<1>14. op[m].phase # "none"
  BY <1>6, <1>7
<1>15. Waiting'
  <2>1. ASSUME NEW i \in DOMAIN sendq' PROVE op'[sendq'[i]].phase # "none"
    BY <1>6, <1>7, <1>12
  <2>2. ASSUME NEW i \in DOMAIN sendq', NEW j \in DOMAIN sendq', i < j,
               op'[sendq'[i]].sent = 0, op'[sendq'[j]].sent = 0
        PROVE  sendq'[i] < sendq'[j]
    <3>1. /\ i + 1 \in DOMAIN sendq /\ j + 1 \in DOMAIN sendq /\ i + 1 < j + 1
          /\ sendq'[i] = sendq[i + 1] /\ sendq'[j] = sendq[j + 1]
      BY <1>7, <2>2
    <3>2. sendq'[i] # m /\ sendq'[j] # m
      BY <1>11, <1>12, <2>2
    <3>3. op[sendq[i + 1]].sent = 0 /\ op[sendq[j + 1]].sent = 0
      BY <1>6, <1>12, <2>2, <3>1, <3>2
    <3> QED BY <3>1, <3>3 DEF Inv, Waiting
  <2> QED BY <2>1, <2>2 DEF Waiting
<1> QED BY <1>3, <1>10, <1>12, <1>13, <1>14, <1>15
-----------------------------------------------------------------------------
\* A step that posts and runs no handler and neither starts nor forgets an
\* async_write keeps the line.
LEMMA LineStays ==
  ASSUME Inv, tasks' = tasks, calls' = calls,
         \A p \in Packets : op'[p].phase = "none" <=> op[p].phase = "none"
  PROVE  InLine' /\ Issued'
<1>1. InLine'
  BY DEF Inv, InLine
<1>2. Issued'
  BY DEF Inv, Issued
<1> QED BY <1>1, <1>2

\* A handler posted at the end of the line: of the newest call, or of Close.
LEMMA LineGrows ==
  ASSUME Inv, NEW t \in Tasks, tasks' = Append(tasks, t), op' = op,
         \/ calls < MaxWrites /\ calls' = calls + 1 /\ t = WriteTask(calls + 1)
         \/ calls' = calls /\ t = CloseTask
  PROVE  InLine' /\ Issued' /\ tasks' \in Seq(Tasks)
<1>1. /\ tasks' \in Seq(Tasks) /\ Len(tasks) \in Nat /\ DOMAIN tasks = 1 .. Len(tasks)
      /\ DOMAIN tasks' = 1 .. Len(tasks) + 1
      /\ \A i \in 1 .. Len(tasks) : tasks'[i] = tasks[i]
      /\ tasks'[Len(tasks) + 1] = t
  BY Typed, QueueSteps DEF Inv
<1>2. /\ \A i \in DOMAIN tasks : i \in DOMAIN tasks' /\ tasks'[i] = tasks[i] /\ i \in Nat /\ i < Len(tasks) + 1
      /\ \A i \in DOMAIN tasks' : i \in DOMAIN tasks \/ i = Len(tasks) + 1
      /\ Len(tasks) + 1 \in DOMAIN tasks' /\ Len(tasks) + 1 \in Nat
  BY <1>1
<1>3. /\ calls \in Nat /\ calls' \in Nat /\ calls <= calls' /\ \A p \in Packets : p \in Nat
      /\ t.op = "write" => t.msg = calls + 1 /\ calls' = calls + 1
  BY Typed DEF Inv, WriteTask, CloseTask
<1>4. \A i \in DOMAIN tasks :
        tasks[i].op = "write" => tasks[i].msg \in Packets /\ tasks[i].msg \in Nat /\ tasks[i].msg <= calls
  <2>1. \A i \in DOMAIN tasks : tasks[i].op = "write" => tasks[i].msg \in Packets
    BY Typed DEF Inv, Tasks, WriteTask, CloseTask
  <2> QED BY <1>3, <2>1 DEF Inv, InLine
<1>5. \A p \in Packets : op[p].phase # "none" => p <= calls
  BY DEF Inv, Issued
<1>6. InLine'
  <2>1. ASSUME NEW i \in DOMAIN tasks', NEW j \in DOMAIN tasks', i < j,
               tasks'[i].op = "write", tasks'[j].op = "write"
        PROVE  tasks'[i].msg < tasks'[j].msg
    <3>1. i \in DOMAIN tasks /\ tasks'[i] = tasks[i]
      BY <1>1, <1>2, <2>1
    <3>2. CASE j \in DOMAIN tasks
      BY <1>2, <2>1, <3>1, <3>2 DEF Inv, InLine
    <3>3. CASE j = Len(tasks) + 1
      BY <1>1, <1>3, <1>4, <2>1, <3>1, <3>3
    <3> QED BY <1>2, <3>2, <3>3
  <2>2. ASSUME NEW i \in DOMAIN tasks', tasks'[i].op = "write"
        PROVE  /\ tasks'[i].msg <= calls'
               /\ \A m \in Packets : op'[m].phase # "none" => m < tasks'[i].msg
    <3>1. CASE i \in DOMAIN tasks
      <4>1. tasks'[i] = tasks[i] /\ tasks[i].msg <= calls /\ tasks[i].msg \in Nat
        BY <1>2, <1>4, <2>2, <3>1
      <4>2. tasks[i].msg <= calls'
        BY <1>3, <4>1
      <4> QED BY <2>2, <3>1, <4>1, <4>2 DEF Inv, InLine
    <3>2. CASE i = Len(tasks) + 1
      <4>1. tasks'[i].msg = calls + 1 /\ calls' = calls + 1
        BY <1>1, <1>3, <2>2, <3>2
      <4> QED BY <1>3, <1>5, <4>1
    <3> QED BY <1>2, <3>1, <3>2
  <2> QED BY <2>1, <2>2 DEF InLine
<1>7. Issued'
  <2> SUFFICES ASSUME NEW m \in Packets
               PROVE  /\ op[m].phase # "none" => m <= calls'
                      /\ m <= calls' /\ op[m].phase = "none" =>
                           \E i \in DOMAIN tasks' : tasks'[i] = WriteTask(m)
    BY DEF Issued, WriteTask
  <2>1. op[m].phase # "none" => m <= calls'
    BY <1>3, <1>5
  <2>2. ASSUME m <= calls', op[m].phase = "none"
        PROVE  \E i \in DOMAIN tasks' : tasks'[i] = WriteTask(m)
    <3>1. CASE m <= calls
      <4>1. PICK i \in DOMAIN tasks : tasks[i] = WriteTask(m)
        BY <2>2, <3>1 DEF Inv, Issued
      <4> QED BY <1>2, <4>1
    <3>2. CASE ~(m <= calls)
      <4>1. m = calls + 1 /\ t = WriteTask(m)
        BY <1>3, <2>2, <3>2
      <4> QED BY <1>1, <1>2, <4>1
    <3> QED BY <3>1, <3>2
  <2> QED BY <2>1, <2>2
<1> QED BY <1>1, <1>6, <1>7

\* The first handler runs: of Close, which starts nothing, or of Write, which
\* hands its packet to async_write.
LEMMA LineMoves ==
  ASSUME Inv, tasks # <<>>, tasks' = Tail(tasks), calls' = calls,
         \/ /\ Head(tasks).op = "close"
            /\ \A p \in Packets : op'[p].phase = "none" <=> op[p].phase = "none"
         \/ /\ Head(tasks).op = "write"
            /\ op'[Head(tasks).msg].phase # "none"
            /\ \A p \in Packets : p # Head(tasks).msg => op'[p].phase = op[p].phase
  PROVE  InLine' /\ Issued' /\ tasks' \in Seq(Tasks)
<1>1. /\ Head(tasks) \in Tasks /\ Head(tasks) = tasks[1] /\ Len(tasks) \in Nat /\ Len(tasks) > 0
      /\ DOMAIN tasks = 1 .. Len(tasks)
      /\ tasks' \in Seq(Tasks) /\ DOMAIN tasks' = 1 .. Len(tasks) - 1
      /\ \A i \in 1 .. Len(tasks) - 1 : tasks'[i] = tasks[i + 1]
  BY Typed, QueueSteps DEF Inv
<1>2. /\ 1 \in DOMAIN tasks
      /\ \A i \in DOMAIN tasks' : i \in Nat /\ 1 < i + 1 /\ i + 1 \in DOMAIN tasks /\ tasks'[i] = tasks[i + 1]
      /\ \A i \in DOMAIN tasks : i = 1 \/ (i - 1 \in DOMAIN tasks' /\ tasks'[i - 1] = tasks[i])
  BY <1>1
<1>3. \A i \in DOMAIN tasks' : tasks[i + 1] = tasks'[i]
  BY <1>2
<1>4. ASSUME NEW i \in DOMAIN tasks', tasks'[i].op = "write"
      PROVE  /\ tasks'[i].msg <= calls'
             /\ \A m \in Packets : op'[m].phase # "none" => m < tasks'[i].msg
  <2>1. /\ i + 1 \in DOMAIN tasks /\ tasks'[i] = tasks[i + 1] /\ 1 < i + 1 /\ 1 \in DOMAIN tasks
        /\ tasks[i + 1].op = "write"
    BY <1>2, <1>4
  <2>2. /\ tasks[i + 1].msg <= calls
        /\ \A m \in Packets : op[m].phase # "none" => m < tasks[i + 1].msg
        /\ tasks[1].op = "write" => tasks[1].msg < tasks[i + 1].msg
    BY <2>1 DEF Inv, InLine
  <2>3. ASSUME NEW m \in Packets, op'[m].phase # "none" PROVE m < tasks[i + 1].msg
    <3>1. CASE op[m].phase # "none"
      BY <2>2, <3>1
    <3>2. CASE op[m].phase = "none"
      <4>1. m = tasks[1].msg /\ tasks[1].op = "write"
        BY <1>1, <2>3, <3>2
      <4> QED BY <2>2, <4>1
    <3> QED BY <3>1, <3>2
  <2> QED BY <2>1, <2>2, <2>3
<1>5. ASSUME NEW i \in DOMAIN tasks', NEW j \in DOMAIN tasks', i < j,
             tasks'[i].op = "write", tasks'[j].op = "write"
      PROVE  tasks'[i].msg < tasks'[j].msg
  <2>1. /\ i + 1 \in DOMAIN tasks /\ tasks'[i] = tasks[i + 1] /\ i + 1 < j + 1
        /\ j + 1 \in DOMAIN tasks /\ tasks'[j] = tasks[j + 1]
    BY <1>2, <1>5
  <2> QED BY <1>5, <2>1 DEF Inv, InLine
<1>6. Issued'
  <2> SUFFICES ASSUME NEW m \in Packets
               PROVE  /\ op'[m].phase # "none" => m <= calls
                      /\ m <= calls /\ op'[m].phase = "none" =>
                           \E i \in DOMAIN tasks' : tasks'[i] = WriteTask(m)
    BY DEF Issued, WriteTask
  <2>1. ASSUME op'[m].phase # "none" PROVE m <= calls
    <3>1. CASE op[m].phase # "none"
      BY <3>1 DEF Inv, Issued
    <3>2. CASE op[m].phase = "none"
      <4>1. m = tasks[1].msg /\ tasks[1].op = "write"
        BY <1>1, <2>1, <3>2
      <4> QED BY <1>2, <4>1 DEF Inv, InLine
    <3> QED BY <3>1, <3>2
  <2>2. ASSUME m <= calls, op'[m].phase = "none"
        PROVE  \E i \in DOMAIN tasks' : tasks'[i] = WriteTask(m)
    <3>1. op[m].phase = "none" /\ tasks[1] # WriteTask(m)
      BY <1>1, <2>2 DEF WriteTask
    <3>2. PICK i \in DOMAIN tasks : tasks[i] = WriteTask(m)
      BY <2>2, <3>1 DEF Inv, Issued
    <3>3. i # 1
      BY <3>1, <3>2
    <3> QED BY <1>2, <3>2, <3>3
  <2> QED BY <2>1, <2>2
<1> QED BY <1>1, <1>4, <1>5, <1>6 DEF InLine

\* What the steps that leave most of a packet's way alone have to show.
LEMMA TypeParts ==
  ASSUME Inv, QueueNeverHolds', op' \in [Packets -> Ops], sendq' \in Seq(Packets),
         wire' \in Seq(Piece), tasks' \in Seq(Tasks), calls' \in 0 .. MaxWrites,
         socket' \in {"open", "closed", "reset"}, running' \in BOOLEAN
  PROVE  TypeOK'
<1>1. mq' \in Seq(Packets) /\ lost' \subseteq Packets
  BY DEF QueueNeverHolds
<1> QED BY <1>1 DEF TypeOK, Ops, Phases, Piece, Tasks

\* Every send that waits ends with an error: nothing of the order changes.
LEMMA SendsFail ==
  ASSUME Inv, FailSends, wire' = wire
  PROVE  /\ op' \in [Packets -> Ops] /\ sendq' \in Seq(Packets)
         /\ \A p \in Packets : op'[p].phase = "none" <=> op[p].phase = "none"
         /\ Progress' /\ Waiting' /\ OnWire' /\ StartsInOrder'
<1>1. op \in [Packets -> Ops]
  BY Typed DEF Inv
<1> DEFINE F(p) == IF op[p].phase = "waiting"
                   THEN [op[p] EXCEPT !.phase = "ready", !.ec = TRUE] ELSE op[p]
<1>2. /\ op' = [p \in Packets |-> F(p)] /\ \A p \in Packets : op'[p] = F(p)
      /\ sendq' = <<>>
  BY DEF FailSends
<1>3. ASSUME NEW p \in Packets
      PROVE  /\ op'[p] \in Ops /\ op'[p].sent = op[p].sent
             /\ (op'[p].phase = "none" <=> op[p].phase = "none")
             /\ (op'[p].phase = "ready" /\ ~op'[p].ec => op[p].phase = "ready" /\ ~op[p].ec)
  <2>1. op[p] \in Ops
    BY <1>1
  <2>2. CASE op[p].phase = "waiting"
    <3>1. op'[p] = [op[p] EXCEPT !.phase = "ready", !.ec = TRUE]
      BY <1>2, <2>2
    <3> QED BY <2>1, <2>2, <3>1 DEF Ops, Phases
  <2>3. CASE op[p].phase # "waiting"
    <3>1. op'[p] = op[p]
      BY <1>2, <2>3
    <3> QED BY <2>1, <3>1
  <2> QED BY <2>2, <2>3
<1>4. op' \in [Packets -> Ops] /\ sendq' \in Seq(Packets)
  <2>1. \A p \in Packets : F(p) \in Ops
    BY <1>2, <1>3
  <2> HIDE DEF F
  <2>2. op' \in [Packets -> Ops]
    BY <1>2, <2>1
  <2> QED BY <1>2, <2>2
<1>5. Progress'
  BY <1>3 DEF Inv, Progress
<1>6. Waiting' /\ OnWire' /\ StartsInOrder'
  BY <1>2, <1>3, NothingSent
<1> QED BY <1>3, <1>4, <1>5, <1>6

\* An async_write ends: nothing of the order changes.
LEMMA WriteEnds ==
  ASSUME Inv, NEW m \in Packets, op[m].phase # "none",
         op' = [op EXCEPT ![m].phase = "over"], sendq' = sendq, wire' = wire
  PROVE  /\ op' \in [Packets -> Ops]
         /\ \A p \in Packets : op'[p].phase = "none" <=> op[p].phase = "none"
         /\ Progress' /\ Waiting' /\ OnWire' /\ StartsInOrder'
<1>1. op \in [Packets -> Ops] /\ "over" \in Phases
  BY Typed DEF Inv, Phases
<1>2. /\ op' \in [Packets -> Ops] /\ op'[m].phase = "over" /\ op'[m].sent = op[m].sent
      /\ op'[m].ec = op[m].ec /\ \A p \in Packets : p # m => op'[p] = op[p]
  BY <1>1, OpMoves
<1>3. Progress'
  BY <1>2 DEF Inv, Progress
<1>4. Waiting' /\ OnWire' /\ StartsInOrder'
  BY <1>2, NothingSent
<1> QED BY <1>2, <1>3, <1>4

\* Every step keeps the invariant.
LEMMA InvStep ==
  ASSUME Inv, [Next]_vars
  PROVE  Inv'
<1>0. /\ op \in [Packets -> Ops] /\ sendq \in Seq(Packets) /\ wire \in Seq(Piece)
      /\ tasks \in Seq(Tasks) /\ calls \in Nat /\ calls \in 0 .. MaxWrites /\ MaxWrites \in Nat
      /\ socket \in {"open", "closed", "reset"} /\ running \in BOOLEAN
  BY Typed, SendPathAssumption DEF Inv, TypeOK
<1>1. QueueNeverHolds'
  BY QueueStep DEF Inv
<1>2. ASSUME UNCHANGED <<op, sendq, wire>>
      PROVE  Progress' /\ Waiting' /\ OnWire' /\ StartsInOrder'
  BY <1>2 DEF Inv, Progress, Waiting, OnWire, StartsInOrder
<1>3. CASE Write
  <2>1. /\ calls < MaxWrites /\ calls' = calls + 1 /\ tasks' = Append(tasks, WriteTask(calls + 1))
        /\ UNCHANGED <<op, sendq, wire, socket, running>>
    BY <1>3 DEF Write, pump
  <2>2. WriteTask(calls + 1) \in Tasks /\ calls' \in 0 .. MaxWrites
    <3>1. calls + 1 \in Packets /\ calls' \in 0 .. MaxWrites
      BY <1>0, <2>1 DEF Packets
    <3> QED BY <3>1 DEF Tasks
  <2>3. InLine' /\ Issued' /\ tasks' \in Seq(Tasks)
    BY <2>1, <2>2, LineGrows
  <2>4. TypeOK'
    BY <1>0, <1>1, <2>1, <2>2, <2>3, TypeParts
  <2> QED BY <1>1, <1>2, <2>1, <2>3, <2>4 DEF Inv
<1>4. CASE Close
  <2>1. /\ calls' = calls /\ tasks' = Append(tasks, CloseTask)
        /\ UNCHANGED <<op, sendq, wire, socket, running>>
    BY <1>4 DEF Close, pump
  <2>2. CloseTask \in Tasks
    BY DEF Tasks
  <2>3. InLine' /\ Issued' /\ tasks' \in Seq(Tasks)
    BY <2>1, <2>2, LineGrows
  <2>4. TypeOK'
    BY <1>0, <1>1, <2>1, <2>3, TypeParts
  <2> QED BY <1>1, <1>2, <2>1, <2>3, <2>4 DEF Inv
<1>5. CASE RunWrite
  <2> DEFINE m == Head(tasks).msg
  <2>1. /\ tasks # <<>> /\ Head(tasks).op = "write" /\ tasks' = Tail(tasks)
        /\ UNCHANGED <<calls, socket, running>>
    BY <1>5 DEF RunWrite
  <2>2. /\ Head(tasks) = tasks[1] /\ 1 \in DOMAIN tasks /\ m \in Packets
    <3>1. Head(tasks) \in Tasks /\ Head(tasks) = tasks[1] /\ 1 \in DOMAIN tasks
      <4>1. /\ Head(tasks) \in Tasks /\ Head(tasks) = tasks[1] /\ Len(tasks) > 0
            /\ Len(tasks) \in Nat /\ DOMAIN tasks = 1 .. Len(tasks)
        BY <1>0, <2>1, QueueSteps
      <4> QED BY <4>1
    <3> QED BY <2>1, <3>1 DEF Tasks, WriteTask, CloseTask
  <2>3. StartSend(op, m, TRUE)
    <3>1. Len(mq) < QueueCap /\ mq = <<>>
      BY SendPathAssumption DEF Inv, QueueNeverHolds
    <3>2. WriteImpl(Append(mq, m), op)
      BY <1>5, <3>1 DEF RunWrite
    <3>3. Append(mq, m) # <<>> /\ Head(Append(mq, m)) = m
      BY <3>1
    <3> QED BY <3>2, <3>3 DEF WriteImpl
  <2>4. \A p \in Packets : op[p].phase # "none" => p < m
    BY <2>1, <2>2 DEF Inv, InLine
  <2>5. PICK p \in Packets : p = m
    BY <2>2
  <2> HIDE DEF m
  <2>6. /\ op' \in [Packets -> Ops] /\ sendq' \in Seq(Packets) /\ wire' \in Seq(Piece)
        /\ op'[p].phase # "none" /\ \A r \in Packets : r # p => op'[r].phase = op[r].phase
        /\ Progress' /\ Waiting' /\ OnWire' /\ StartsInOrder'
    BY <2>3, <2>4, <2>5, SendStarts
  <2>7. InLine' /\ Issued' /\ tasks' \in Seq(Tasks)
    BY <2>1, <2>5, <2>6, LineMoves DEF m
  <2>8. TypeOK'
    BY <1>0, <1>1, <2>1, <2>6, <2>7, TypeParts
  <2> QED BY <1>1, <2>6, <2>7, <2>8 DEF Inv
<1>6. CASE RunClose
  <2>1. /\ tasks # <<>> /\ Head(tasks).op = "close" /\ tasks' = Tail(tasks) /\ calls' = calls
        /\ socket' \in {"open", "closed", "reset"} /\ running' \in BOOLEAN /\ wire' = wire
        /\ FailSends \/ UNCHANGED <<op, sendq, wire>>
    BY <1>0, <1>6 DEF RunClose, pump
  <2>2. /\ op' \in [Packets -> Ops] /\ sendq' \in Seq(Packets)
        /\ \A p \in Packets : op'[p].phase = "none" <=> op[p].phase = "none"
        /\ Progress' /\ Waiting' /\ OnWire' /\ StartsInOrder'
    <3>1. CASE FailSends
      BY <2>1, <3>1, SendsFail
    <3>2. CASE UNCHANGED <<op, sendq, wire>>
      BY <1>0, <1>2, <3>2
    <3> QED BY <2>1, <3>1, <3>2
  <2>3. InLine' /\ Issued' /\ tasks' \in Seq(Tasks)
    BY <2>1, <2>2, LineMoves
  <2>4. TypeOK'
    BY <1>0, <1>1, <2>1, <2>2, <2>3, TypeParts
  <2> QED BY <1>1, <2>2, <2>3, <2>4 DEF Inv
<1>7. ASSUME NEW m \in Packets, Complete(m)
      PROVE  Inv'
  <2>1. /\ op[m].phase = "ready" /\ UNCHANGED <<calls, tasks, socket, running>>
        /\ mq = <<>>
    BY <1>7 DEF Complete, Inv, QueueNeverHolds
  <2>2. \/ op' = [op EXCEPT ![m].phase = "over"] /\ UNCHANGED <<sendq, wire>>
        \/ ~op[m].ec /\ StartSend(op, m, FALSE)
    BY <1>7, <2>1 DEF Complete, WriteImpl
  <2>3. /\ op' \in [Packets -> Ops] /\ sendq' \in Seq(Packets) /\ wire' \in Seq(Piece)
        /\ \A p \in Packets : op'[p].phase = "none" <=> op[p].phase = "none"
        /\ Progress' /\ Waiting' /\ OnWire' /\ StartsInOrder'
    <3>1. CASE op' = [op EXCEPT ![m].phase = "over"] /\ UNCHANGED <<sendq, wire>>
      BY <1>0, <2>1, <3>1, WriteEnds
    <3>2. CASE ~op[m].ec /\ StartSend(op, m, FALSE)
      <4>1. op[m].sent > 0
        BY <2>1, <3>2 DEF Inv, Progress
      <4>2. /\ op' \in [Packets -> Ops] /\ sendq' \in Seq(Packets) /\ wire' \in Seq(Piece)
            /\ op'[m].phase # "none" /\ \A p \in Packets : p # m => op'[p].phase = op[p].phase
            /\ Progress' /\ Waiting' /\ OnWire' /\ StartsInOrder'
        BY <3>2, <4>1, SendStarts
      <4> QED BY <2>1, <4>2
    <3> QED BY <2>2, <3>1, <3>2
  <2>4. InLine' /\ Issued'
    BY <2>1, <2>3, LineStays
  <2>5. TypeOK'
    BY <1>0, <1>1, <2>1, <2>3, TypeParts
  <2> QED BY <1>1, <2>3, <2>4, <2>5 DEF Inv
<1>8. CASE Writable
  <2>1. UNCHANGED <<calls, tasks, socket, running>>
    BY <1>8 DEF Writable
  <2>2. /\ op' \in [Packets -> Ops] /\ sendq' \in Seq(Packets) /\ wire' \in Seq(Piece)
        /\ \A p \in Packets : op'[p].phase = "none" <=> op[p].phase = "none"
        /\ Progress' /\ Waiting' /\ OnWire' /\ StartsInOrder'
    BY <1>8, WritableStep
  <2>3. InLine' /\ Issued'
    BY <2>1, <2>2, LineStays
  <2>4. TypeOK'
    BY <1>0, <1>1, <2>1, <2>2, TypeParts
  <2> QED BY <1>1, <2>2, <2>3, <2>4 DEF Inv
<1>9. CASE PeerReset
  <2>1. UNCHANGED <<calls, tasks, running, wire>> /\ socket' = "reset" /\ FailSends
    BY <1>9 DEF PeerReset
  <2>2. /\ op' \in [Packets -> Ops] /\ sendq' \in Seq(Packets)
        /\ \A p \in Packets : op'[p].phase = "none" <=> op[p].phase = "none"
        /\ Progress' /\ Waiting' /\ OnWire' /\ StartsInOrder'
    BY <2>1, SendsFail
  <2>3. InLine' /\ Issued'
    BY <2>1, <2>2, LineStays
  <2>4. TypeOK'
    BY <1>0, <1>1, <2>1, <2>2, TypeParts
  <2> QED BY <1>1, <2>2, <2>3, <2>4 DEF Inv
<1>10. CASE UNCHANGED vars
  <2>1. UNCHANGED <<calls, tasks, op, sendq, wire, socket, running>>
    BY <1>10 DEF vars, pump
  <2>2. InLine' /\ Issued'
    BY <2>1, LineStays
  <2>3. TypeOK'
    BY <1>0, <1>1, <2>1, TypeParts
  <2> QED BY <1>1, <1>2, <2>1, <2>2, <2>3 DEF Inv
<1> QED BY <1>3, <1>4, <1>5, <1>6, <1>7, <1>8, <1>9, <1>10 DEF Next, Handlers

\* At the start nothing waits and nothing went out.
LEMMA InvInit == Init => Inv
<1> SUFFICES ASSUME Init PROVE Inv
  OBVIOUS
<1>1. /\ Idle \in Ops /\ Idle.phase = "none" /\ \A m \in Packets : op[m] = Idle
  BY SendPathAssumption DEF Init, Idle, Ops, Phases
<1>2. TypeOK
  <2>1. op \in [Packets -> Ops]
    BY <1>1 DEF Init
  <2> QED BY <2>1, SendPathAssumption DEF Init, TypeOK, Ops, Phases
<1>3. InLine /\ Issued /\ Progress /\ Waiting /\ OnWire /\ StartsInOrder /\ QueueNeverHolds
  <2>1. calls = 0 /\ \A m \in Packets : ~(m <= 0)
    BY SendPathAssumption DEF Init, Packets
  <2> QED BY <1>1, <2>1 DEF Init, InLine, Issued, Progress, Waiting, OnWire, StartsInOrder, QueueNeverHolds
<1> QED BY <1>2, <1>3 DEF Inv

\* Where the packets are, by the invariant: a handler waits, or one async_write
\* has it, and nowhere else.
LEMMA OnePlace == Inv => Accounted
<1> SUFFICES ASSUME Inv PROVE Accounted
  OBVIOUS
<1>1. ToSet(mq) = {} /\ lost = {}
  BY DEF Inv, QueueNeverHolds, ToSet
<1>2. \A m \in Packets : m \in Posted <=> \E i \in DOMAIN tasks : tasks[i] = WriteTask(m)
  BY DEF Posted, ToSet
<1>3. \A m \in Packets : m \in 1 .. calls <=> m <= calls
  BY SendPathAssumption DEF Inv, TypeOK, Packets
<1>4. Posted \subseteq Packets /\ Begun \subseteq Packets /\ 1 .. calls \subseteq Packets
  BY SendPathAssumption DEF Inv, TypeOK, Posted, Begun, Packets
<1>5. ASSUME NEW m \in Packets, m \in Posted PROVE m <= calls /\ m \notin Begun
  <2>1. PICK i \in DOMAIN tasks : tasks[i] = WriteTask(m)
    BY <1>2, <1>5
  <2>2. tasks[i].op = "write" /\ tasks[i].msg = m
    BY <2>1 DEF WriteTask
  <2>3. m <= calls /\ (op[m].phase # "none" => m < m)
    BY <2>2 DEF Inv, InLine
  <2>4. m \in Nat
    BY Typed DEF Inv
  <2> QED BY <2>3, <2>4 DEF Begun
<1>6. ASSUME NEW m \in Packets
      PROVE  /\ m \in Begun => m <= calls
             /\ m <= calls => m \in Posted \/ m \in Begun
  <2>1. m \in Begun => m <= calls
    BY DEF Inv, Issued, Begun
  <2>2. m <= calls => m \in Posted \/ m \in Begun
    BY <1>2 DEF Inv, Issued, Begun
  <2> QED BY <2>1, <2>2
<1>7. Posted \cup Begun = 1 .. calls /\ Posted \cap Begun = {}
  <2>1. Posted \cup Begun \subseteq 1 .. calls
    BY <1>3, <1>4, <1>5, <1>6
  <2>2. 1 .. calls \subseteq Posted \cup Begun
    <3> SUFFICES ASSUME NEW m \in 1 .. calls PROVE m \in Posted \cup Begun
      OBVIOUS
    <3> QED BY <1>3, <1>4, <1>6
  <2>3. Posted \cap Begun = {}
    BY <1>4, <1>5
  <2> QED BY <2>1, <2>2, <2>3
<1> DEFINE places == <<Posted, ToSet(mq), Begun, lost>>
<1>8. /\ DOMAIN places = 1 .. 4
      /\ places[1] = Posted /\ places[2] = {} /\ places[3] = Begun /\ places[4] = {}
  BY <1>1
<1> HIDE DEF places
<1>9. \A i \in 1 .. 4 : i = 1 \/ i = 2 \/ i = 3 \/ i = 4
  OBVIOUS
<1>10. UNION {places[i] : i \in DOMAIN places} = 1 .. calls
  <2>1. UNION {places[i] : i \in DOMAIN places} \subseteq Posted \cup Begun
    BY <1>8, <1>9
  <2>2. Posted \cup Begun \subseteq UNION {places[i] : i \in DOMAIN places}
    BY <1>8
  <2> QED BY <1>7, <2>1, <2>2
<1>11. \A i, j \in DOMAIN places : i # j => places[i] \cap places[j] = {}
  BY <1>7, <1>8, <1>9
<1> QED BY <1>10, <1>11 DEF Accounted, places

\* The invariant holds always.
LEMMA AlwaysInv == Spec => []Inv
  BY InvInit, InvStep, PTL DEF Spec

\* The state is of its type, for every number of packets and of the pieces the
\* kernel may take them in (SessionServer::Write, WriteImpl and their
\* completion handlers).
THEOREM TypeCorrect == Spec => []TypeOK
<1>1. Inv => TypeOK
  BY DEF Inv
<1> QED BY <1>1, AlwaysInv, PTL

\* Every packet that was written is posted, in progress, sent or failed, and
\* never in two of these: none is lost between the handlers (server.cpp:152-216).
THEOREM PacketInOnePlace == Spec => []Accounted
<1>1. Inv => Accounted
  BY OnePlace
<1> QED BY <1>1, AlwaysInv, PTL

\* Packets start on the wire in the order of the calls of Write, however many
\* async_writes are in progress and however the kernel splits them
\* (server.cpp:152-216, client.cpp:23-83).
THEOREM PacketsStartInOrder == Spec => []StartsInOrder
<1>1. Inv => StartsInOrder
  BY DEF Inv
<1> QED BY <1>1, AlwaysInv, PTL
=============================================================================
