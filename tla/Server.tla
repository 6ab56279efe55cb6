------------------------------- MODULE Server -------------------------------
(***************************************************************************)
(* The life of sessions in the server (net/server.h, net/server.cpp): the  *)
(* acceptor and the choice of a worker, the worker's table of sessions,    *)
(* the read chain that notices a peer that is gone, the heartbeat that     *)
(* notices one that is silent, the removal of a session and its Close, and *)
(* Run and Stop.                                                           *)
(*                                                                         *)
(* Who runs what: the thread of Server::io_ runs the acceptor and, since   *)
(* an accepted socket keeps the executor of the acceptor, the read         *)
(* handlers and Close; the thread of Worker::io_ runs the handlers that    *)
(* create and remove sessions and the heartbeat; the owner of the server   *)
(* calls Run and Stop.  A handler is one step, except that Worker::Stop    *)
(* and PeekWorker, on other threads, may find the handler of a worker in   *)
(* progress: they see the table with or without its effect.                *)
(*                                                                         *)
(* A connection and the session made of it have the same number; they are  *)
(* accepted in that order.  What a read brings is not modelled here.       *)
(***************************************************************************)
EXTENDS Naturals, Sequences, FiniteSets, SequencesExt

CONSTANTS
  NumSessions, \* bound: connections that peers open
  NumWorkers,  \* MAX_WORKERS_NUMBER, which the code sets to 2
  MaxClients,  \* WORKER_MAX_CLIENT_COUNT
  MaxRuns,     \* bound: calls of Run
  Resets       \* how far a connection may have come when its peer resets it

ASSUME ServerAssumption ==
  /\ NumSessions \in Nat
  /\ NumWorkers \in Nat \ {0, 1}
  /\ MaxClients \in Nat
  /\ MaxRuns \in Nat
  /\ Resets \subseteq {"new", "accepted", "open"}

Sessions == 1 .. NumSessions
Workers  == 1 .. NumWorkers

VARIABLES
  main,      \* where the owner is in Run or Stop, and with which worker
  runs,      \* number of calls of Run
  returned,  \* history: a call of Stop has returned
  halted,    \* Server::io_ has been stopped
  closes,    \* Close handlers posted to Server::io_, oldest first
  whalted,   \* whalted[w]: io_ of worker w has been stopped
  queue,     \* queue[w]: handlers posted to io_ of worker w, oldest first; none
             \* once it is stopped, for it never runs again
  timers,    \* timers[w]: heartbeat timers that are set
  busy,      \* busy[w]: the handler that the thread of w was in when io_ was stopped
  list,      \* list[w]: session_list_
  home,      \* home[s]: parent_worker_, 0 if none
  conn,      \* conn[s]: how far connection s has come
  peer,      \* peer[s]: what the other side has done
  stale,     \* stale[s]: last_timestamp_ is longer ago than the timeout
  reading,   \* reading[s]: the read that is outstanding; none once io_ is stopped
  running    \* FALSE once an exception has left a handler

owner   == <<main, runs, returned>>
server  == <<halted, closes>>
worker  == <<whalted, queue, timers, busy, list>>
session == <<home, conn, peer, stale, reading>>
vars    == <<owner, server, worker, session, running>>

CreateTask(s) == [op |-> "create", of |-> {s}]
RemoveTask(s) == [op |-> "remove", of |-> {s}]
BeatTask      == [op |-> "beat",   of |-> {}]
Idle          == [op |-> "idle",   of |-> {}]

\* The queues q after w was posted the handler t.
Post(q, w, t) == [q EXCEPT ![w] = Append(@, t)]

\* The handler that the thread of w may be in the middle of: the one it was
\* in when io_ was stopped, or else the oldest one posted.
InProgress(w) ==
  CASE busy[w] # Idle -> busy[w]
    [] busy[w] = Idle /\ queue[w] # <<>> -> Head(queue[w])
    [] OTHER -> Idle

\* session_list_ of w when that handler has had its effect.
ListAfter(w) ==
  CASE InProgress(w).op = "create" /\ Cardinality(list[w]) < MaxClients -> list[w] \cup InProgress(w).of
    [] InProgress(w).op = "remove" -> list[w] \ InProgress(w).of
    [] OTHER -> list[w]

\* The thread of w runs the handler t, which posts the handlers more: in vain
\* once io_ is stopped.
Takes(w, t, more) ==
  /\ running /\ InProgress(w) = t
  /\ busy' = [busy EXCEPT ![w] = Idle]
  /\ queue' = [queue EXCEPT ![w] = IF whalted[w] THEN <<>>
                                   ELSE (IF busy[w] = Idle THEN Tail(@) ELSE @) \o more]

Init ==
  /\ main = [at |-> "idle", w |-> 1] /\ runs = 0 /\ returned = FALSE
  /\ halted = FALSE /\ closes = <<>>
  /\ whalted = [w \in Workers |-> FALSE]
  /\ queue = [w \in Workers |-> <<>>]
  /\ timers = [w \in Workers |-> 0]
  /\ busy = [w \in Workers |-> Idle]
  /\ list = [w \in Workers |-> {}]
  /\ home = [s \in Sessions |-> 0]
  /\ conn = [s \in Sessions |-> "new"]
  /\ peer = [s \in Sessions |-> "up"]
  /\ stale = [s \in Sessions |-> FALSE]
  /\ reading = [s \in Sessions |-> "none"]
  /\ running = TRUE
-----------------------------------------------------------------------------
(* The owner of the server.                                                *)

\* Server::Run with Worker::Run: set a timer per worker, start the acceptor
\* and the threads.  A context that was stopped stays so, and a thread that
\* runs it ends at once.
Run ==
  /\ running /\ main.at = "idle" /\ runs < MaxRuns
  /\ main' = [main EXCEPT !.at = "up"]
  /\ runs' = runs + 1
  /\ timers' = [w \in Workers |-> timers[w] + 1]
  /\ UNCHANGED <<returned, server, whalted, queue, busy, list, session, running>>

\* Server::Stop: stop io_ and wait for its thread, then turn to the workers.
\* The reads that are outstanding will never end.
Stop ==
  /\ running /\ main.at = "up"
  /\ main' = [at |-> "halt", w |-> 1]
  /\ halted' = TRUE
  /\ reading' = [s \in Sessions |-> "none"]
  /\ UNCHANGED <<runs, returned, closes, worker, home, conn, peer, stale, running>>

\* The thread of a worker has ended: the next worker, or Stop returns.
Joined ==
  /\ main' = IF main.w < NumWorkers THEN [at |-> "halt", w |-> main.w + 1]
                                    ELSE [main EXCEPT !.at = "idle"]
  /\ returned' = (returned \/ main.w = NumWorkers)

\* Worker::Stop up to the join: stop io_, and Close every session of the
\* table.  The thread of the worker may be in the middle of a handler, which
\* is not stopped, and the walk sees the table with or without its effect.
\* Close is dispatched to Server::io_ from another thread and so only posted.
HaltWorker ==
  /\ running /\ main.at = "halt"
  /\ LET w == main.w IN
       \/ /\ \E order \in SetToSeqs(list[w]) : closes' = closes \o order
          /\ Joined
          /\ UNCHANGED busy
       \/ /\ InProgress(w) # Idle
          /\ main' = [main EXCEPT !.at = "join"]
          /\ busy' = [busy EXCEPT ![w] = InProgress(w)]
          /\ UNCHANGED returned
          /\ \E l \in {list[w], ListAfter(w)} : \E order \in SetToSeqs(l) : closes' = closes \o order
  /\ whalted' = [whalted EXCEPT ![main.w] = TRUE]
  /\ queue' = [queue EXCEPT ![main.w] = <<>>]
  /\ UNCHANGED <<runs, halted, timers, list, session, running>>

\* A bug one could write: Worker::Stop does not wait for its thread.
JoinWorkerNot ==
  /\ running /\ main.at = "join"
  /\ Joined
  /\ UNCHANGED <<runs, server, worker, session, running>>

\* Worker::Stop, last step: wait for the thread of the worker; then the next
\* worker, or Stop returns.
JoinWorker ==
  /\ running /\ main.at = "join" /\ busy[main.w] = Idle
  /\ Joined
  /\ UNCHANGED <<runs, server, worker, session, running>>
-----------------------------------------------------------------------------
(* The thread of Server::io_.                                              *)

\* PeekWorker, given the number of clients seen at each worker: the first of
\* those that have the fewest.  (The branch for one worker, which may find
\* none, is compiled out.)
PeekWorker(n) ==
  CHOOSE w \in Workers : /\ \A v \in Workers : n[w] <= n[v]
                         /\ \A v \in 1 .. w - 1 : n[w] < n[v]

\* The acceptor takes connection s, has it created by the worker chosen, and
\* goes on.  The sizes of the tables are read while their threads may be
\* changing them.  remote_endpoint() throws if the connection was reset
\* meanwhile; nothing catches it.
Accept(s) ==
  /\ running /\ ~halted /\ runs > 0 /\ conn[s] = "new"
  /\ \A t \in 1 .. s - 1 : conn[t] # "new"
  /\ \/ /\ peer[s] = "reset"
        /\ running' = FALSE
        /\ UNCHANGED <<home, conn, queue>>
     \/ /\ peer[s] # "reset"
        /\ \E n \in [Workers -> 0 .. Cardinality(Sessions)] :
             /\ \A w \in Workers : n[w] \in {Cardinality(list[w]), Cardinality(ListAfter(w))}
             /\ home' = [home EXCEPT ![s] = PeekWorker(n)]
             /\ conn' = [conn EXCEPT ![s] = "accepted"]
             /\ queue' = Post(queue, PeekWorker(n), CreateTask(s))
        /\ UNCHANGED running
  /\ UNCHANGED <<owner, server, whalted, timers, busy, list, peer, stale, reading>>

\* A bug one could write: the read handler gives up on an error, and nobody
\* hears of it.
ReadHandlerSilent(s) ==
  /\ running /\ ~halted
  /\ \/ /\ reading[s] = "ok"
        /\ stale' = [stale EXCEPT ![s] = FALSE]
        /\ reading' = [reading EXCEPT ![s] = IF conn[s] = "open" THEN "armed" ELSE "error"]
        /\ UNCHANGED queue
     \/ /\ reading[s] \in {"error", "aborted"}
        /\ reading' = [reading EXCEPT ![s] = "none"]
        /\ UNCHANGED <<queue, stale>>
  /\ UNCHANGED <<owner, server, whalted, timers, busy, list, home, conn, peer, running>>

\* The handler of ReadImpl: on data, refresh the timestamp and read again,
\* which fails on a socket that was closed meanwhile; when the read was
\* aborted, nothing; on any other error, RemoveSession.
ReadHandler(s) ==
  /\ running /\ ~halted
  /\ \/ /\ reading[s] = "ok"
        /\ stale' = [stale EXCEPT ![s] = FALSE]
        /\ reading' = [reading EXCEPT ![s] = IF conn[s] = "open" THEN "armed" ELSE "error"]
        /\ UNCHANGED queue
     \/ /\ reading[s] = "aborted"
        /\ reading' = [reading EXCEPT ![s] = "none"]
        /\ UNCHANGED <<queue, stale>>
     \/ /\ reading[s] = "error"
        /\ reading' = [reading EXCEPT ![s] = "none"]
        /\ queue' = Post(queue, home[s], RemoveTask(s))
        /\ UNCHANGED stale
  /\ UNCHANGED <<owner, server, whalted, timers, busy, list, home, conn, peer, running>>

\* SessionServer::Close: shutdown() throws on a connection that was reset;
\* closing the socket aborts the read that waits.
Close ==
  /\ running /\ ~halted /\ closes # <<>>
  /\ closes' = Tail(closes)
  /\ LET s == Head(closes) IN
       \/ /\ conn[s] = "open" /\ peer[s] # "reset"
          /\ conn' = [conn EXCEPT ![s] = "closed"]
          /\ reading' = [reading EXCEPT ![s] = IF @ = "armed" THEN "aborted" ELSE @]
          /\ UNCHANGED running
       \/ /\ conn[s] = "open" /\ peer[s] = "reset"
          /\ running' = FALSE
          /\ UNCHANGED <<conn, reading>>
       \/ conn[s] = "closed" /\ UNCHANGED <<conn, reading, running>>
  /\ UNCHANGED <<owner, halted, worker, home, peer, stale>>
-----------------------------------------------------------------------------
(* The thread of a worker.                                                 *)

\* The handler of CreateSession: a full worker drops the socket; else the
\* session enters the table and starts to read.
CreateSession(w, s) ==
  /\ Takes(w, CreateTask(s), <<>>)
  /\ \/ /\ Cardinality(list[w]) + 1 > MaxClients
        /\ conn' = [conn EXCEPT ![s] = "dropped"]
        /\ UNCHANGED <<list, reading>>
     \/ /\ Cardinality(list[w]) + 1 <= MaxClients
        /\ list' = [list EXCEPT ![w] = @ \cup {s}]
        /\ conn' = [conn EXCEPT ![s] = "open"]
        /\ reading' = [reading EXCEPT ![s] = IF halted THEN "none" ELSE "armed"]
  /\ UNCHANGED <<owner, server, whalted, timers, home, peer, stale, running>>

\* A bug one could write: the session leaves the table and stays open.
RemoveSessionOpen(w, s) ==
  /\ Takes(w, RemoveTask(s), <<>>)
  /\ list' = [list EXCEPT ![w] = @ \ {s}]
  /\ UNCHANGED <<closes, owner, halted, whalted, timers, session, running>>

\* A bug one could write: the session is closed again when it has left the table.
RemoveSessionTwice(w, s) ==
  /\ Takes(w, RemoveTask(s), <<>>)
  /\ closes' = Append(closes, s)
  /\ list' = [list EXCEPT ![w] = @ \ {s}]
  /\ UNCHANGED <<owner, halted, whalted, timers, session, running>>

\* The handler of RemoveSession: a session of the table is closed, which is
\* posted to Server::io_, and leaves the table.
RemoveSession(w, s) ==
  /\ Takes(w, RemoveTask(s), <<>>)
  /\ closes' = IF s \in list[w] THEN Append(closes, s) ELSE closes
  /\ list' = [list EXCEPT ![w] = @ \ {s}]
  /\ UNCHANGED <<owner, halted, whalted, timers, session, running>>

\* A bug one could write: the heartbeat sets two timers.
HeartbeatTwice(w) ==
  /\ \E order \in SetToSeqs({s \in list[w] : stale[s]}) :
       Takes(w, BeatTask, [i \in DOMAIN order |-> RemoveTask(order[i])])
  /\ timers' = [timers EXCEPT ![w] = @ + 2]
  /\ UNCHANGED <<owner, server, whalted, list, session, running>>

\* A bug one could write: the heartbeat sets no new timer.
HeartbeatOnce(w) ==
  /\ \E order \in SetToSeqs({s \in list[w] : stale[s]}) :
       Takes(w, BeatTask, [i \in DOMAIN order |-> RemoveTask(order[i])])
  /\ UNCHANGED <<timers, owner, server, whalted, list, session, running>>

\* The handler of Heartbeat: RemoveSession for every session of the table
\* that has been silent for too long, and a new timer.
Heartbeat(w) ==
  /\ \E order \in SetToSeqs({s \in list[w] : stale[s]}) :
       Takes(w, BeatTask, [i \in DOMAIN order |-> RemoveTask(order[i])])
  /\ timers' = [timers EXCEPT ![w] = @ + 1]
  /\ UNCHANGED <<owner, server, whalted, list, session, running>>

\* asio: a timer has expired.
Expire(w) ==
  /\ running /\ ~whalted[w] /\ timers[w] > 0
  /\ timers' = [timers EXCEPT ![w] = @ - 1]
  /\ queue' = Post(queue, w, BeatTask)
  /\ UNCHANGED <<owner, server, whalted, busy, list, session, running>>
-----------------------------------------------------------------------------
(* The network and the clock.                                              *)

\* The peer resets the connection, or shuts it down: that may as well happen
\* after it was accepted, since nothing tells before the first read.
PeerEnds(s) ==
  /\ running /\ ~halted /\ peer[s] = "up" /\ conn[s] \in {"new", "accepted", "open"}
  /\ \E p \in {"eof", "reset"} :
       /\ p = "reset" => conn[s] \in Resets
       /\ p = "eof" => conn[s] # "new"
       /\ peer' = [peer EXCEPT ![s] = p]
  /\ UNCHANGED <<owner, server, worker, home, conn, stale, reading, running>>

\* A read ends with data.
Receive(s) ==
  /\ running /\ ~halted /\ reading[s] = "armed" /\ peer[s] = "up"
  /\ reading' = [reading EXCEPT ![s] = "ok"]
  /\ UNCHANGED <<owner, server, worker, home, conn, peer, stale, running>>

\* A read ends because the peer is gone.
ReadFails(s) ==
  /\ running /\ ~halted /\ reading[s] = "armed" /\ peer[s] # "up"
  /\ reading' = [reading EXCEPT ![s] = "error"]
  /\ UNCHANGED <<owner, server, worker, home, conn, peer, stale, running>>

\* The completion handler of WriteImpl refreshes the timestamp.
Written(s) ==
  /\ running /\ ~halted /\ conn[s] = "open" /\ stale[s]
  /\ stale' = [stale EXCEPT ![s] = FALSE]
  /\ UNCHANGED <<owner, server, worker, home, conn, peer, reading, running>>

\* Time passes and nothing has come from s.
Silence(s) ==
  /\ running /\ ~halted /\ conn[s] = "open" /\ ~stale[s]
  /\ stale' = [stale EXCEPT ![s] = TRUE]
  /\ UNCHANGED <<owner, server, worker, home, conn, peer, reading, running>>
-----------------------------------------------------------------------------
Owner == Run \/ Stop \/ HaltWorker \/ JoinWorker

WorkerHandler(w) == \/ Heartbeat(w)
                    \/ \E s \in Sessions : CreateSession(w, s) \/ RemoveSession(w, s)

Next ==
  \/ Owner
  \/ Close
  \/ \E s \in Sessions : Accept(s) \/ ReadHandler(s)
  \/ \E w \in Workers : WorkerHandler(w) \/ Expire(w)
  \/ \E s \in Sessions : PeerEnds(s) \/ Receive(s) \/ ReadFails(s) \/ Written(s) \/ Silence(s)

\* The threads of the contexts run the handlers that are due, the kernel
\* reports the end of a connection, and a timer that is set expires.
Fairness ==
  /\ WF_vars(Close)
  /\ \A s \in Sessions : WF_vars(ReadHandler(s)) /\ WF_vars(ReadFails(s))
  /\ \A w \in Workers : WF_vars(WorkerHandler(w)) /\ WF_vars(Expire(w))

Spec     == Init /\ [][Next]_vars
FairSpec == Spec /\ Fairness
-----------------------------------------------------------------------------
Tasks == {CreateTask(s) : s \in Sessions} \cup {RemoveTask(s) : s \in Sessions} \cup {BeatTask}

\* Type invariant: the owner, the tables of the workers and the states of the sessions.
TypeOK ==
  /\ main \in [at : {"idle", "up", "halt", "join"}, w : Workers]
  /\ runs \in 0 .. MaxRuns /\ returned \in BOOLEAN
  /\ halted \in BOOLEAN /\ closes \in Seq(Sessions)
  /\ whalted \in [Workers -> BOOLEAN]
  /\ queue \in [Workers -> Seq(Tasks)]
  /\ timers \in [Workers -> 0 .. MaxRuns]
  /\ busy \in [Workers -> Tasks \cup {Idle}]
  /\ list \in [Workers -> SUBSET Sessions]
  /\ home \in [Sessions -> 0 .. NumWorkers]
  /\ conn \in [Sessions -> {"new", "accepted", "open", "closed", "dropped"}]
  /\ peer \in [Sessions -> {"up", "eof", "reset"}]
  /\ stale \in [Sessions -> BOOLEAN]
  /\ reading \in [Sessions -> {"none", "armed", "ok", "error", "aborted"}]
  /\ running \in BOOLEAN

\* No connection is orphaned while the process runs: a session that is open is
\* in the table of the worker that made it, where the heartbeat and Stop find
\* it, or its Close has been posted (server.cpp:81-89).
NoOrphan ==
  \A s \in Sessions : running /\ conn[s] = "open" =>
    s \in list[home[s]] \/ s \in ToSet(closes)

\* Until the server stops, a session of the table is read or its removal is
\* under way: the chain of reads never ends unnoticed (server.h:79-104).
ReadOrRemoved ==
  \A w \in Workers : \A s \in list[w] : reading[s] = "none" /\ ~halted =>
    RemoveTask(s) \in {busy[w]} \cup ToSet(queue[w])

\* A session is closed once. However often its removal is asked for, by a read
\* that failed and by heartbeat after heartbeat, one Close is posted to a server
\* that runs them, and none once the session is closed (server.cpp:81-89, 123-136).
ClosedOnce ==
  ~halted => IsInjective(closes) /\ \A s \in ToSet(closes) : conn[s] = "open"

\* While the server is stopped no session starts, ends, moves or is read: what
\* Stop leaves when it returns stays as it is until the next Run, whatever the
\* workers' threads were in the middle of (server.cpp:102-114, 235-247).
StillWhileStopped ==
  [][returned /\ main.at = "idle" => UNCHANGED <<list, home, conn, reading>>]_vars

Down == ~running \/ main.at # "up" \/ returned

\* A session whose peer is gone is closed, unless the server goes down first
\* (server.h:83-93).
GoneIsClosed ==
  \A s \in Sessions :
    conn[s] = "open" /\ peer[s] # "up" ~> conn[s] = "closed" \/ Down

\* A session that stays silent is closed, unless the server goes down first
\* (server.cpp:116-136).
SilentIsClosed ==
  \A s \in Sessions :
    conn[s] = "open" /\ stale[s] ~> conn[s] = "closed" \/ ~stale[s] \/ Down

\* "stop sessions" (server.cpp:106): no session is open when Stop has returned.
StopClosesSessions ==
  returned /\ main.at = "idle" => \A s \in Sessions : conn[s] # "open"

\* "any other error? kill myself" (server.h:88-89): an error of one session
\* ends that session, not the process.
ProcessSurvives == running
=============================================================================
