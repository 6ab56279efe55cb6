------------------------------ MODULE SendPath ------------------------------
(***************************************************************************)
(* The way of a packet from SessionServer::Write to the wire (net/server.h *)
(* and net/server.cpp; SessionClient::Write and WriteImpl in client.cpp    *)
(* are the same pump): Write posts a handler to the executor of the        *)
(* socket; the handler pushes the packet onto message_queue_ and starts    *)
(* the pump when the queue was empty; the pump pops one packet, hands it   *)
(* to asio::async_write, and continues from the completion handler.        *)
(*                                                                         *)
(* message_queue_ is the bounded FIFO of whole packets that module         *)
(* MessageQueue specifies; packets are taken to cost the same, so that its *)
(* capacity is a number of packets.  The packet of the i-th call of Write  *)
(* is i.  async_write and the reactor below it are asio's (libs/asio),     *)
(* modelled from how this code uses them: a packet goes out in 1 .. Parts  *)
(* pieces, one send may take any number of the pieces left, and a send     *)
(* that cannot go out at once waits in the write queue of the descriptor.  *)
(***************************************************************************)
EXTENDS Naturals, Sequences, FiniteSets, SequencesExt

CONSTANTS
  QueueCap,   \* packets message_queue_ has room for
  Parts,      \* pieces a packet may be sent in
  MaxWrites   \* bound: calls of Write

ASSUME SendPathAssumption ==
  /\ QueueCap \in Nat \ {0}
  /\ Parts \in Nat \ {0}
  /\ MaxWrites \in Nat

Packets == 1 .. MaxWrites

VARIABLES
  calls,    \* number of calls of Write so far
  tasks,    \* handlers posted to the executor, oldest first
  mq,       \* message_queue_
  op,       \* op[m]: the async_write of packet m
  sendq,    \* write queue of the descriptor: packets whose next send waits
  wire,     \* pieces handed to the kernel, in order
  socket,   \* "open", "closed", or "reset" once the peer is gone
  running,  \* FALSE once an exception has left a handler
  lost      \* history: packets Push refused or Close cleared

pump == <<mq, op, sendq, wire>>
vars == <<calls, tasks, pump, socket, running, lost>>

WriteTask(m) == [op |-> "write", msg |-> m]
CloseTask    == [op |-> "close", msg |-> 0]

\* Phases of an async_write: "none", "waiting" in the descriptor's queue,
\* "ready" when its completion is due, "over" once the handler has run.
Idle == [phase |-> "none", sent |-> 0, ec |-> FALSE]
Active == {m \in Packets : op[m].phase \in {"waiting", "ready"}}

\* What is known of a packet that neither waits nor is on its way any more.
Settled(m) == op[m].phase = "over" \/ m \in lost

Init ==
  /\ calls = 0 /\ tasks = <<>> /\ mq = <<>>
  /\ op = [m \in Packets |-> Idle]
  /\ sendq = <<>> /\ wire = <<>>
  /\ socket = "open" /\ running = TRUE
  /\ lost = {}
-----------------------------------------------------------------------------
(* asio: one send of an async_write.                                       *)

\* Pieces of m from the i-th to the j-th; live tells whether the buffer that
\* holds them still exists.
Pieces(m, i, j, live) ==
  [k \in 1 .. j - i + 1 |-> [msg |-> m, part |-> i + k - 1, live |-> live]]

\* Start a send of what is left of m, given the operations o: it fails on a
\* socket that is closed or reset, sends pieces at once if no send waits, or
\* waits.
StartSend(o, m, live) ==
  \/ /\ socket # "open"
     /\ op' = [o EXCEPT ![m].phase = "ready", ![m].ec = TRUE]
     /\ UNCHANGED <<sendq, wire>>
  \/ /\ socket = "open" /\ sendq = <<>>
     /\ \E n \in o[m].sent + 1 .. Parts :
          /\ op' = [o EXCEPT ![m].phase = "ready", ![m].sent = n]
          /\ wire' = wire \o Pieces(m, o[m].sent + 1, n, live)
     /\ UNCHANGED sendq
  \/ /\ socket = "open"
     /\ op' = [o EXCEPT ![m].phase = "waiting"]
     /\ sendq' = Append(sendq, m)
     /\ UNCHANGED wire

\* The kernel has room again: the first send that waits takes some pieces.
Writable ==
  /\ running /\ socket = "open" /\ sendq # <<>>
  /\ LET m == Head(sendq) IN
       \E n \in op[m].sent + 1 .. Parts :
         /\ op' = [op EXCEPT ![m].phase = "ready", ![m].sent = n]
         /\ wire' = wire \o Pieces(m, op[m].sent + 1, n, FALSE)
  /\ sendq' = Tail(sendq)
  /\ UNCHANGED <<calls, tasks, mq, socket, running, lost>>

\* Every send that waits ends with an error.
FailSends ==
  /\ op' = [m \in Packets |->
              IF op[m].phase = "waiting"
              THEN [op[m] EXCEPT !.phase = "ready", !.ec = TRUE] ELSE op[m]]
  /\ sendq' = <<>>

\* The peer resets the connection.
PeerReset ==
  /\ running /\ socket = "open"
  /\ socket' = "reset"
  /\ FailSends
  /\ UNCHANGED <<calls, tasks, mq, wire, running, lost>>
-----------------------------------------------------------------------------
(* The session.                                                            *)

\* A bug one could write: the pump sends the head of the queue and leaves it
\* there.
WriteImplPeek(q, o) ==
  IF q = <<>>
  THEN mq' = q /\ op' = o /\ UNCHANGED <<sendq, wire>>
  ELSE mq' = q /\ StartSend(o, Head(q), TRUE)

\* WriteImpl, with the queue q and the operations o: pop one packet, copy it
\* into a buffer and start its async_write.  Nothing but WriteImpl owns the
\* buffer (the completion handler does not capture it), so that it is gone
\* when WriteImpl returns: only a send made at once finds it.
WriteImpl(q, o) ==
  IF q = <<>>
  THEN mq' = q /\ op' = o /\ UNCHANGED <<sendq, wire>>
  ELSE mq' = Tail(q) /\ StartSend(o, Head(q), TRUE)

\* A bug one could write: the call posts the packet of the call before.
WriteOld ==
  /\ running /\ calls < MaxWrites
  /\ calls' = calls + 1
  /\ tasks' = Append(tasks, WriteTask(calls))
  /\ UNCHANGED <<pump, socket, running, lost>>

\* A bug one could write: the handler is posted to a pool of threads.
WritePooled ==
  /\ running /\ calls < MaxWrites
  /\ calls' = calls + 1
  /\ \E i \in 1 .. Len(tasks) + 1 : tasks' = InsertAt(tasks, i, WriteTask(calls + 1))
  /\ UNCHANGED <<pump, socket, running, lost>>

\* A call of Write, by whatever thread.
Write ==
  /\ running /\ calls < MaxWrites
  /\ calls' = calls + 1
  /\ tasks' = Append(tasks, WriteTask(calls + 1))
  /\ UNCHANGED <<pump, socket, running, lost>>

\* A bug one could write: the pump is started when the queue is empty after
\* the Push.
RunWriteLateTest ==
  /\ running /\ tasks # <<>> /\ Head(tasks).op = "write"
  /\ LET m    == Head(tasks).msg
         fits == Len(mq) < QueueCap
         q    == IF fits THEN Append(mq, m) ELSE mq
     IN  /\ lost' = IF fits THEN lost ELSE lost \cup {m}
         /\ IF q = <<>> THEN WriteImpl(q, op)
                        ELSE mq' = q /\ UNCHANGED <<op, sendq, wire>>
  /\ tasks' = Tail(tasks)
  /\ UNCHANGED <<calls, socket, running>>

\* The handler Write posted: Push's result is ignored.
RunWrite ==
  /\ running /\ tasks # <<>> /\ Head(tasks).op = "write"
  /\ LET m    == Head(tasks).msg
         fits == Len(mq) < QueueCap
         q    == IF fits THEN Append(mq, m) ELSE mq
     IN  /\ lost' = IF fits THEN lost ELSE lost \cup {m}
         /\ IF mq = <<>> THEN WriteImpl(q, op)
                         ELSE mq' = q /\ UNCHANGED <<op, sendq, wire>>
  /\ tasks' = Tail(tasks)
  /\ UNCHANGED <<calls, socket, running>>

\* A send of packet m has ended.  On an error the handler of WriteImpl
\* returns; async_write goes on while pieces are left; then the handler
\* continues the pump unless the queue is empty.
Complete(m) ==
  /\ running /\ op[m].phase = "ready"
  /\ LET done == [op EXCEPT ![m].phase = "over"] IN
       \/ op[m].ec /\ op' = done /\ UNCHANGED <<mq, sendq, wire>>
       \/ /\ ~op[m].ec /\ op[m].sent < Parts
          /\ StartSend(op, m, FALSE)
          /\ UNCHANGED mq
       \/ /\ ~op[m].ec /\ op[m].sent = Parts
          /\ WriteImpl(mq, done)
  /\ UNCHANGED <<calls, tasks, socket, running, lost>>

\* Somebody calls Close (RemoveSession or Worker::Stop), from another thread;
\* bound: one such handler waits at a time.
Close ==
  /\ running /\ CloseTask \notin ToSet(tasks)
  /\ tasks' = Append(tasks, CloseTask)
  /\ UNCHANGED <<calls, pump, socket, running, lost>>

\* The handler Close dispatched.  shutdown() throws on a connection that was
\* reset; nothing catches it, and the process ends.
RunClose ==
  /\ running /\ tasks # <<>> /\ Head(tasks).op = "close"
  /\ tasks' = Tail(tasks)
  /\ \/ /\ socket = "open"
        /\ socket' = "closed" /\ FailSends
        /\ mq' = <<>> /\ lost' = lost \cup ToSet(mq)
        /\ UNCHANGED <<wire, running>>
     \/ /\ socket = "reset"
        /\ running' = FALSE
        /\ UNCHANGED <<pump, socket, lost>>
     \/ socket = "closed" /\ UNCHANGED <<pump, socket, lost, running>>
  /\ UNCHANGED calls

Handlers == RunWrite \/ RunClose \/ \E m \in Packets : Complete(m)

Next == Write \/ Close \/ Handlers \/ Writable \/ PeerReset

\* The thread of the io_context runs every handler that is due, and the peer
\* reads or resets: fairness of the io thread and of the kernel.
Fairness ==
  /\ WF_vars(RunWrite) /\ WF_vars(RunClose)
  /\ \A m \in Packets : WF_vars(Complete(m))
  /\ WF_vars(Writable)

Spec     == Init /\ [][Next]_vars
FairSpec == Spec /\ Fairness
-----------------------------------------------------------------------------
\* Type invariant.
TypeOK ==
  /\ calls \in 0 .. MaxWrites
  /\ tasks \in Seq({WriteTask(m) : m \in Packets} \cup {CloseTask})
  /\ mq \in Seq(Packets)
  /\ op \in [Packets -> [phase : {"none", "waiting", "ready", "over"},
                         sent : 0 .. Parts, ec : BOOLEAN]]
  /\ sendq \in Seq(Packets)
  /\ wire \in Seq([msg : Packets, part : 1 .. Parts, live : BOOLEAN])
  /\ socket \in {"open", "closed", "reset"}
  /\ running \in BOOLEAN /\ lost \subseteq Packets

\* message_queue_ is empty between handlers, and Push never refuses: the
\* handler that pushes a packet finds the queue empty and pops the packet at
\* once, however many async_writes are in progress.  Its capacity limits
\* nothing (server.cpp:186-189 and 195-201).
QueueNeverHolds == mq = <<>> /\ lost = {}

\* Packets whose handler waits, and packets an async_write has or had.
Posted == {m \in Packets : WriteTask(m) \in ToSet(tasks)}
Begun  == {m \in Packets : op[m].phase # "none"}

\* The packets that Write was called with, and no others, are in one place
\* each: the handler waits, or the packet is queued, or one async_write has it,
\* or it was given up.
Accounted ==
  LET places == <<Posted, ToSet(mq), Begun, lost>>
  IN  /\ UNION {places[i] : i \in DOMAIN places} = 1 .. calls
      /\ \A i, j \in DOMAIN places : i # j => places[i] \cap places[j] = {}

\* Packets start on the wire in the order in which Write was called, however
\* many async_writes are in progress: the first piece of a packet comes after
\* the first pieces of the packets written before it.
StartsInOrder ==
  \A i, j \in DOMAIN wire :
    i < j /\ wire[i].part = 1 /\ wire[j].part = 1 => wire[i].msg < wire[j].msg

\* Every packet Write accepted is sent, or fails, or is given up, unless the
\* process ends (server.cpp:160-216).
EveryPacketSettles == \A m \in Packets : m <= calls ~> Settled(m) \/ ~running

\* What asio asks of its callers (libs/asio/asio/write.hpp:761-764): no other
\* write on the stream until an async_write completes.
SingleWriter == Cardinality(Active) <= 1

\* What asio asks of its callers (libs/asio/asio/write.hpp:770-773): the
\* buffers of an async_write stay valid until its handler is called.
BufferAlive == \A i \in DOMAIN wire : wire[i].live

\* The weakest reading of the two demands: at every moment the callers keep at
\* least one of them. A state that breaks it breaks each of the two
\* (server.cpp:186-203 and client.cpp:51-70 against write.hpp:761-773).
SomeDemandMet == SingleWriter \/ BufferAlive
=============================================================================
