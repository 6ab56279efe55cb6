------------------------------- MODULE Client -------------------------------
(***************************************************************************)
(* A client from its connection to its exit (net/client.h, net/client.cpp, *)
(* client_main.cpp): the io_context that runs on a thread of the pool, the *)
(* callbacks that wait in task_queue_ for the reply to their packet, the   *)
(* chain of reads, and the shutdown, which only gives up the work guard    *)
(* and lets asio find that there is nothing left to do.                    *)
(*                                                                         *)
(* Who runs what: the main thread connects, calls Write and shuts down;    *)
(* one thread of the pool runs io_ and with it the handlers of Write and   *)
(* Read; the others parse the packets that came and run callbacks.  A      *)
(* packet has the name of its message_id, its reply has the same; whether  *)
(* a reply is readable (Protocol) is left open.  The bytes of a write are  *)
(* SendPath's; task_queue_ is taken to change atomically.                  *)
(***************************************************************************)
EXTENDS Naturals, Sequences, FiniteSets, SequencesExt

CONSTANTS
  Ids,        \* bound: the packets that are written
  Threads,    \* threads of the pool
  Strays      \* bound: the packets from the server that answer nothing

ASSUME ClientAssumption ==
  /\ IsFiniteSet(Ids)
  /\ Threads \in Nat \ {0}
  /\ IsFiniteSet(Strays) /\ Strays \cap Ids = {}
  /\ "run" \notin Ids \cup Strays

VARIABLES
  main,       \* how far the main thread has come
  guard,      \* work_guard_ is held
  run,        \* the task that runs io_
  pool,       \* tasks of the pool that no thread has taken, oldest first
  working,    \* packets that threads of the pool are at, with how far they are
  io,         \* handlers of Write posted to io_, oldest first
  writing,    \* packets whose async_write is in progress
  reading,    \* a read is outstanding
  tasks,      \* task_queue_
  asked,      \* history: packets that were written with a callback
  written,    \* history: packets that Write accepted
  sent,       \* history: packets that have gone out to the server
  lost,       \* history: packets whose write failed before that
  inbox,      \* packets that the server has sent and the client has not read
  replied,    \* packets of either kind that the server has sent
  open,       \* the server has not closed the connection
  answered,   \* history: readable replies that the server has sent
  called,     \* history: packets whose callback has returned
  missed      \* history: readable replies that found no callback

owner   == <<main, guard>>
threads == <<run, pool, working>>
session == <<io, writing, reading, tasks>>
server  == <<inbox, replied, open>>
history == <<asked, written, sent, lost, answered, called, missed>>
vars    == <<owner, threads, session, server, history>>

RunTask == [id |-> "run", ok |-> TRUE]
Replies == [id : Ids \cup Strays, ok : BOOLEAN]

\* The process is there: Connect has not failed, main has not returned.
Alive == main \notin {"failed", "joined"}

Occupied == Cardinality(working) + (IF run = "running" THEN 1 ELSE 0)

\* Work that keeps io_.run() from returning.
Outstanding == guard \/ io # <<>> \/ writing # {} \/ reading

Init ==
  /\ main = "new" /\ guard = TRUE
  /\ run = "posted" /\ pool = <<RunTask>> /\ working = {}
  /\ io = <<>> /\ writing = {} /\ reading = FALSE /\ tasks = {}
  /\ inbox = <<>> /\ replied = {} /\ open = TRUE
  /\ asked = {} /\ written = {} /\ sent = {} /\ lost = {}
  /\ answered = {} /\ called = {} /\ missed = {}
-----------------------------------------------------------------------------
(* The main thread.                                                        *)

\* Connect, and the first Read.
Connect ==
  /\ main = "new" /\ main' = "up"
  /\ reading' = TRUE
  /\ UNCHANGED <<guard, threads, io, writing, tasks, server, history>>

\* Connect throws: main returns, while io_ may be running.
ConnectFails ==
  /\ main = "new" /\ main' = "failed"
  /\ guard' = FALSE
  /\ UNCHANGED <<threads, session, server, history>>

\* Write with a callback or without posts its handler.
Write(i, cb) ==
  /\ main = "up" /\ i \notin written
  /\ written' = written \cup {i}
  /\ asked' = IF cb THEN asked \cup {i} ELSE asked
  /\ io' = Append(io, i)
  /\ UNCHANGED <<owner, threads, writing, reading, tasks, server, sent, lost, answered, called, missed>>

\* A bug one could write: Stop stops io_ at once.
StopAtOnce ==
  /\ main = "up" /\ main' = "stop"
  /\ guard' = FALSE
  /\ run' = IF run = "running" THEN "over" ELSE run
  /\ UNCHANGED <<pool, working, session, server, history>>

\* A bug one could write: Stop leaves the guard alone.
StopGuarded ==
  /\ main = "up" /\ main' = "stop"
  /\ UNCHANGED <<guard, threads, session, server, history>>

\* Stop, and on to pool.join().
Stop ==
  /\ main = "up" /\ main' = "stop"
  /\ guard' = FALSE
  /\ UNCHANGED <<threads, session, server, history>>

\* pool.join() returns when the threads are out of work.
Join ==
  /\ main = "stop" /\ pool = <<>> /\ working = {} /\ run = "over"
  /\ main' = "joined"
  /\ UNCHANGED <<guard, threads, session, server, history>>
-----------------------------------------------------------------------------
(* The thread that runs io_.                                               *)

IoRuns == Alive /\ run = "running"

\* A bug one could write: a packet without a callback is stored too.
RunWriteStoreAll ==
  /\ IoRuns /\ io # <<>>
  /\ io' = Tail(io)
  /\ tasks' = tasks \cup {Head(io)}
  /\ writing' = writing \cup {Head(io)}
  /\ UNCHANGED <<owner, threads, reading, server, history>>

\* A bug one could write: the callback is stored only by the handler that
\* starts the pump.
RunWriteStoreFirst ==
  /\ IoRuns /\ io # <<>>
  /\ io' = Tail(io)
  /\ tasks' = IF writing = {} THEN tasks \cup ({Head(io)} \cap asked) ELSE tasks
  /\ writing' = writing \cup {Head(io)}
  /\ UNCHANGED <<owner, threads, reading, server, history>>

\* The handler of Write: the callback is stored, then the packet is written.
RunWrite ==
  /\ IoRuns /\ io # <<>>
  /\ io' = Tail(io)
  /\ tasks' = tasks \cup ({Head(io)} \cap asked)
  /\ writing' = writing \cup {Head(io)}
  /\ UNCHANGED <<owner, threads, reading, server, history>>

\* A bug one could write: the handler does not read again.
ReadHandlerOnce ==
  /\ IoRuns /\ reading /\ inbox # <<>>
  /\ inbox' = Tail(inbox) /\ reading' = FALSE
  /\ pool' = Append(pool, Head(inbox))
  /\ UNCHANGED <<owner, run, working, io, writing, tasks, replied, open, history>>

\* The handler of a read that ended with data posts the packet to the pool and
\* reads again.
ReadHandler ==
  /\ IoRuns /\ reading /\ inbox # <<>>
  /\ inbox' = Tail(inbox)
  /\ pool' = Append(pool, Head(inbox))
  /\ UNCHANGED <<owner, run, working, session, replied, open, history>>

\* The handler of a read that failed gives up.
ReadFails ==
  /\ IoRuns /\ reading /\ inbox = <<>> /\ ~open
  /\ reading' = FALSE
  /\ UNCHANGED <<owner, threads, io, writing, tasks, server, history>>

\* io_.run() returns once there is no work left.
RunReturns ==
  /\ IoRuns /\ ~Outstanding
  /\ run' = "over"
  /\ UNCHANGED <<owner, pool, working, session, server, history>>
-----------------------------------------------------------------------------
(* The other threads of the pool.                                          *)

\* A thread that is free takes the oldest task.
TakeTask ==
  /\ Alive /\ pool # <<>> /\ Occupied < Threads
  /\ pool' = Tail(pool)
  /\ \/ /\ Head(pool) = RunTask
        /\ run' = "running"
        /\ UNCHANGED working
     \/ /\ Head(pool) # RunTask
        /\ working' = working \cup {[packet |-> Head(pool), calling |-> FALSE]}
        /\ UNCHANGED run
  /\ UNCHANGED <<owner, session, server, history>>

\* A bug one could write: the callback is copied, and its entry stays.
FindCallbackKeep(t) ==
  /\ Alive /\ ~t.calling
  /\ working' = (working \ {t}) \cup
       (IF t.packet.ok /\ t.packet.id \in tasks THEN {[t EXCEPT !.calling = TRUE]} ELSE {})
  /\ UNCHANGED <<owner, run, pool, session, server, history>>

\* ReadPacket, and the callback of its message_id is moved out of the table; a
\* packet that is refused or that nobody waits for ends the task.
FindCallback(t) ==
  /\ Alive /\ ~t.calling
  /\ \/ /\ t.packet.ok /\ t.packet.id \in tasks
        /\ tasks' = tasks \ {t.packet.id}
        /\ working' = (working \ {t}) \cup {[t EXCEPT !.calling = TRUE]}
        /\ UNCHANGED missed
     \/ /\ ~(t.packet.ok /\ t.packet.id \in tasks)
        /\ working' = working \ {t}
        /\ missed' = IF t.packet \in [id : asked, ok : {TRUE}] THEN missed \cup {t.packet.id} ELSE missed
        /\ UNCHANGED tasks
  /\ UNCHANGED <<owner, run, pool, io, writing, reading, server, asked, written, sent, lost, answered, called>>

\* The callback returns, and with it the task.
CallbackReturns(t) ==
  /\ Alive /\ t.calling
  /\ working' = working \ {t}
  /\ called' = called \cup {t.packet.id}
  /\ UNCHANGED <<owner, run, pool, session, server, asked, written, sent, lost, answered, missed>>
-----------------------------------------------------------------------------
(* The network and the server.                                             *)

\* The last byte of a packet goes out.
PacketSent(i) ==
  /\ Alive /\ open /\ i \in writing \ sent
  /\ sent' = sent \cup {i}
  /\ UNCHANGED <<owner, threads, session, server, asked, written, lost, answered, called, missed>>

\* The completion handler of a write runs, which changes nothing that is
\* modelled here: the packet has gone out, or the connection has ended.
WriteEnds(i) ==
  /\ IoRuns /\ i \in writing
  /\ i \in sent \/ ~open
  /\ writing' = writing \ {i}
  /\ lost' = lost \cup ({i} \ sent)
  /\ UNCHANGED <<owner, threads, io, reading, tasks, server, asked, written, sent, answered, called, missed>>

\* The server answers a packet, in a way that the client can read or not, or
\* sends one of its own.
ServerSends(i, ok) ==
  /\ Alive /\ main # "new" /\ open
  /\ i \in (sent \cup Strays) \ replied
  /\ replied' = replied \cup {i}
  /\ inbox' = Append(inbox, [id |-> i, ok |-> ok])
  /\ answered' = IF ok THEN answered \cup {i} ELSE answered
  /\ UNCHANGED <<owner, threads, session, open, asked, written, sent, lost, called, missed>>

\* The server closes the connection.
ServerCloses ==
  /\ main \in {"up", "stop"} /\ open
  /\ open' = FALSE
  /\ UNCHANGED <<owner, threads, session, inbox, replied, history>>
-----------------------------------------------------------------------------
Next ==
  \/ Connect \/ ConnectFails \/ Stop \/ Join
  \/ \E i \in Ids, cb \in BOOLEAN : Write(i, cb)
  \/ RunWrite \/ ReadHandler \/ ReadFails \/ RunReturns
  \/ TakeTask
  \/ \E t \in working : FindCallback(t) \/ CallbackReturns(t)
  \/ \E i \in Ids : PacketSent(i) \/ WriteEnds(i)
  \/ \E i \in Ids \cup Strays, ok \in BOOLEAN : ServerSends(i, ok)
  \/ ServerCloses

\* The threads run what is due, callbacks return, writes end, and the server
\* closes the connection of a client that has gone silent (its heartbeat).
Fairness ==
  /\ WF_vars(Join) /\ WF_vars(TakeTask)
  /\ WF_vars(RunWrite) /\ WF_vars(ReadHandler) /\ WF_vars(ReadFails) /\ WF_vars(RunReturns)
  /\ \A i \in Ids : WF_vars(WriteEnds(i))
  /\ \A p \in Replies, c \in BOOLEAN :
       LET t == [packet |-> p, calling |-> c]
       IN  WF_vars(t \in working /\ (FindCallback(t) \/ CallbackReturns(t)))
  /\ WF_vars(main = "stop" /\ ServerCloses)

Spec     == Init /\ [][Next]_vars
FairSpec == Spec /\ Fairness
-----------------------------------------------------------------------------
\* Type invariant: the pool has no more tasks under way than threads, and callbacks wait only
\* for packets that were asked for.
TypeOK ==
  /\ main \in {"new", "up", "stop", "joined", "failed"} /\ guard \in BOOLEAN
  /\ run \in {"posted", "running", "over"}
  /\ pool \in Seq(Replies \cup {RunTask})
  /\ working \subseteq [packet : Replies, calling : BOOLEAN] /\ Occupied <= Threads
  /\ io \in Seq(Ids) /\ writing \subseteq Ids /\ reading \in BOOLEAN /\ tasks \subseteq asked
  /\ inbox \in Seq(Replies) /\ replied \subseteq Ids \cup Strays /\ open \in BOOLEAN
  /\ asked \subseteq written /\ written \subseteq Ids
  /\ sent \subseteq written /\ lost \subseteq written \ sent
  /\ answered \subseteq replied /\ called \subseteq asked /\ missed \subseteq asked

\* A callback is there before the reply it waits for can be: no readable reply
\* to a packet that was written with a callback finds none (client.cpp:47-54).
RepliesFindCallbacks == missed = {}

\* A callback is in exactly one place: with the handler of its Write, in
\* task_queue_, where it stays if no reply comes, with the thread that calls
\* it, or done (client.cpp:47-49, 106-113).
InOnePlace ==
  LET places == <<ToSet(io), tasks, {t.packet.id : t \in {u \in working : u.calling}}, called>>
  IN  \A i \in asked : Cardinality({p \in 1 .. 4 : i \in places[p]}) = 1

\* When pool.join() has returned, every packet that Write accepted has gone out
\* or has failed, although Stop came right behind it (client.h:124).
WrittenBeforeExit == main = "joined" => written \subseteq sent \cup lost

\* The callback of a packet that was answered is run, be it that the client is
\* already shutting down (client.cpp:100-113).
AnsweredIsCalled == \A i \in Ids : i \in answered \cap asked ~> i \in called

\* pool.join() returns, once the server gives up a client that went silent
\* (client_main.cpp:99-101).
JoinReturns == main = "stop" ~> main = "joined"
=============================================================================
