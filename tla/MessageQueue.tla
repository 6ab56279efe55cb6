---------------------------- MODULE MessageQueue ----------------------------
(***************************************************************************)
(* What a session relies on when it puts its outgoing packets into a       *)
(* containers::RingBuffer: a bounded queue of whole messages.  Every       *)
(* message costs its length plus a length prefix, a message is either      *)
(* taken whole or refused, and messages come out whole, in the order they  *)
(* went in.  Module RingBuffer models the byte array that implements this. *)
(***************************************************************************)
EXTENDS Integers, Sequences

CONSTANTS
  Queues,      \* the queue objects
  Payloads,    \* the messages their users may offer
  PrefixSize,  \* bytes the length prefix of a message takes
  MaxLen       \* longest message the prefix can describe

VARIABLES
  mq,   \* mq[q]: capacity, bytes in use and the messages held, oldest first
  ret   \* result of the last call

vars == <<mq, ret>>

\* What is left of a queue another one was move-assigned from.
Vacated == [cap |-> 0, used |-> 0, msgs |-> <<>>]

Cost(m) == PrefixSize + Len(m)

With(b, m) ==
  [cap |-> b.cap, used |-> b.used + Cost(m), msgs |-> Append(b.msgs, m)]
WithoutHead(b) ==
  [cap |-> b.cap, used |-> b.used - Cost(Head(b.msgs)), msgs |-> Tail(b.msgs)]
Emptied(b) == [cap |-> b.cap, used |-> 0, msgs |-> <<>>]

Init ==
  /\ \A q \in Queues : mq[q].cap > 0 /\ mq[q].used = 0 /\ mq[q].msgs = <<>>
  /\ ret = [op |-> "none", ok |-> TRUE, data |-> <<>>]

Fits(q, m) ==
  /\ m # <<>>
  /\ mq[q].used + Cost(m) <= mq[q].cap
  /\ Len(m) <= MaxLen

Push(q, m) ==
  /\ Fits(q, m)
  /\ mq' = [mq EXCEPT ![q] = With(@, m)]
  /\ ret' = [op |-> "push", ok |-> TRUE, data |-> <<>>]

PushRefused(q, m) ==
  /\ ~Fits(q, m)
  /\ ret' = [op |-> "push", ok |-> FALSE, data |-> <<>>]
  /\ UNCHANGED mq

Pop(q) ==
  /\ mq[q].msgs # <<>>
  /\ mq' = [mq EXCEPT ![q] = WithoutHead(@)]
  /\ ret' = [op |-> "pop", ok |-> TRUE, data |-> Head(mq[q].msgs)]

PopEmpty(q) ==
  /\ mq[q].msgs = <<>>
  /\ ret' = [op |-> "pop", ok |-> FALSE, data |-> <<>>]
  /\ UNCHANGED mq

Clear(q) ==
  /\ mq' = [mq EXCEPT ![q] = Emptied(@)]
  /\ ret' = [op |-> "clear", ok |-> TRUE, data |-> <<>>]

Swap(q, p) ==
  /\ mq' = [mq EXCEPT ![q] = mq[p], ![p] = mq[q]]
  /\ ret' = [op |-> "swap", ok |-> TRUE, data |-> <<>>]

MoveAssign(q, p) ==
  /\ q # p
  /\ mq' = [mq EXCEPT ![q] = mq[p], ![p] = Vacated]
  /\ ret' = [op |-> "move", ok |-> TRUE, data |-> <<>>]

Next ==
  \/ \E q \in Queues, m \in Payloads : Push(q, m) \/ PushRefused(q, m)
  \/ \E q \in Queues : Pop(q) \/ PopEmpty(q) \/ Clear(q)
  \/ \E q, p \in Queues : Swap(q, p) \/ MoveAssign(q, p)

Spec == Init /\ [][Next]_vars
=============================================================================
