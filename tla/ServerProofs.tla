----------------------------- MODULE ServerProofs -----------------------------
(***************************************************************************)
(* The life of sessions in the server (net/server.h, net/server.cpp), for  *)
(* every number of sessions, workers, clients and calls of Run.  The       *)
(* argument counts the handlers that wait for the thread of each worker:   *)
(* a session is created once, by the worker that the acceptor chose; it is *)
(* in the table of that worker and no other until its Close is posted; and *)
(* each call of Run gives a worker one heartbeat.                          *)
(***************************************************************************)
EXTENDS Server, QueueFacts

\* How often handler t waits for the thread of w, the one that the thread is
\* in the middle of included.
Pending(w, t) == Count(queue[w], t) + (IF busy[w] = t THEN 1 ELSE 0)

\* Stop halts the server first, then the workers in their order, and waits for
\* each: a worker halted has no handlers left, but the one that its thread is
\* in while Stop waits.
Halting ==
  /\ main.at \in {"halt", "join"} => halted /\ \A v \in 1 .. main.w - 1 : whalted[v]
  /\ main.at = "join" => whalted[main.w]
  /\ \A w \in Workers : /\ whalted[w] => halted /\ queue[w] = <<>>
                        /\ busy[w] # Idle => whalted[w] /\ main.at = "join" /\ main.w = w
  /\ returned => \A w \in Workers : whalted[w] /\ busy[w] = Idle
  /\ halted => \A s \in Sessions : reading[s] = "none"

\* Each call of Run gives a worker one heartbeat: a timer or a handler.
Beating == \A w \in Workers : timers[w] + Pending(w, BeatTask) <= runs

\* A session is created once, by the worker chosen.
CreatedOnce ==
  \A w \in Workers, s \in Sessions :
    /\ Pending(w, CreateTask(s)) <= 1
    /\ Pending(w, CreateTask(s)) > 0 => home[s] = w /\ conn[s] = "accepted"

\* A session of a table is open, and in the table of its worker; while the
\* server runs, one whose Close is posted is in no table any more; a
\* session that reads or is open has a worker; only a Close aborts a read.
Listed ==
  /\ \A w \in Workers : \A s \in list[w] : home[s] = w /\ conn[s] = "open"
  /\ ~halted => \A s \in ToSet(closes) : /\ conn[s] \in {"open", "closed"}
                                         /\ \A w \in Workers : s \notin list[w]
  /\ \A s \in Sessions : /\ reading[s] = "aborted" => conn[s] = "closed"
                         /\ reading[s] # "none" \/ conn[s] = "open" => home[s] \in Workers

\* The inductive invariant.
Inv ==
  /\ TypeOK /\ Halting /\ Beating /\ CreatedOnce /\ Listed
  /\ NoOrphan /\ ReadOrRemoved /\ ClosedOnce
-----------------------------------------------------------------------------
(* The handlers that wait.                                                 *)

\* The handlers are told apart by what they do and for whom.
LEMMA TaskFacts ==
  /\ BeatTask \in Tasks /\ Idle \notin Tasks
  /\ \A s \in Sessions : /\ CreateTask(s) \in Tasks /\ RemoveTask(s) \in Tasks
                         /\ CreateTask(s) # BeatTask /\ RemoveTask(s) # BeatTask
                         /\ CreateTask(s) # Idle /\ RemoveTask(s) # Idle
                         /\ CreateTask(s).op = "create" /\ CreateTask(s).of = {s}
                         /\ RemoveTask(s).op = "remove" /\ RemoveTask(s).of = {s}
  /\ \A r, s \in Sessions : /\ CreateTask(r) # RemoveTask(s)
                            /\ CreateTask(r) = CreateTask(s) => r = s
                            /\ RemoveTask(r) = RemoveTask(s) => r = s
<1>2. /\ \A s : CreateTask(s).op = "create" /\ CreateTask(s).of = {s}
      /\ \A s : RemoveTask(s).op = "remove" /\ RemoveTask(s).of = {s}
      /\ BeatTask.op = "beat" /\ Idle.op = "idle"
  BY DEF CreateTask, RemoveTask, BeatTask, Idle
<1>3. BeatTask \in Tasks /\ \A s \in Sessions : CreateTask(s) \in Tasks /\ RemoveTask(s) \in Tasks
  BY DEF Tasks
<1>4. Idle \notin Tasks
  <2>1. \A t \in Tasks : t.op # "idle"
    BY <1>2 DEF Tasks
  <2> QED BY <1>2, <2>1
<1>5. /\ \A s : CreateTask(s) # BeatTask /\ RemoveTask(s) # BeatTask
      /\ \A s : CreateTask(s) # Idle /\ RemoveTask(s) # Idle
  BY <1>2
<1>6. /\ \A r, s : CreateTask(r) # RemoveTask(s)
      /\ \A r, s : CreateTask(r) = CreateTask(s) => r = s
      /\ \A r, s : RemoveTask(r) = RemoveTask(s) => r = s
  <2>1. ASSUME NEW r, NEW s PROVE CreateTask(r) # RemoveTask(s)
    BY <1>2
  <2>2. ASSUME NEW r, NEW s, CreateTask(r) = CreateTask(s) PROVE r = s
    <3>1. CreateTask(r).of = {r} /\ CreateTask(s).of = {s}
      BY <1>2
    <3> QED BY <2>2, <3>1
  <2>3. ASSUME NEW r, NEW s, RemoveTask(r) = RemoveTask(s) PROVE r = s
    <3>1. RemoveTask(r).of = {r} /\ RemoveTask(s).of = {s}
      BY <1>2
    <3> QED BY <2>3, <3>1
  <2> QED BY <2>1, <2>2, <2>3
<1> QED BY <1>2, <1>3, <1>4, <1>5, <1>6

\* The number of handlers that wait is a number, and tells whether one does.
LEMMA PendingFacts ==
  ASSUME TypeOK, NEW w \in Workers, NEW t
  PROVE  /\ Pending(w, t) \in Nat /\ Count(queue[w], t) \in Nat
         /\ Pending(w, t) > 0 <=> t \in {busy[w]} \cup ToSet(queue[w])
<1>1. queue[w] \in Seq(Tasks)
  BY DEF TypeOK
<1>2. Count(queue[w], t) \in Nat
  BY <1>1, PlacesFinite
<1>3. t \in ToSet(queue[w]) <=> Count(queue[w], t) > 0
  BY <1>1, CountedIsIn
<1> QED BY <1>2, <1>3 DEF Pending

\* A handler posted to w waits there once more, and the others as before.
LEMMA Posted ==
  ASSUME TypeOK, NEW w \in Workers, NEW t \in Tasks,
         queue' = Post(queue, w, t), UNCHANGED busy
  PROVE  /\ queue' \in [Workers -> Seq(Tasks)]
         /\ \A v \in Workers : v # w => queue'[v] = queue[v]
         /\ \A v \in Workers, e \in Tasks : v # w => Pending(v, e)' = Pending(v, e)
         /\ \A e \in Tasks : Pending(w, e)' = Pending(w, e) + (IF t = e THEN 1 ELSE 0)
<1>1. queue \in [Workers -> Seq(Tasks)] /\ queue[w] \in Seq(Tasks)
  BY DEF TypeOK
<1>2. Append(queue[w], t) \in Seq(Tasks)
  BY <1>1, CountAppend
<1>3. queue' = [queue EXCEPT ![w] = Append(queue[w], t)]
  BY DEF Post
<1>4. ASSUME NEW e \in Tasks PROVE Pending(w, e)' = Pending(w, e) + (IF t = e THEN 1 ELSE 0)
  <2>1. Count(Append(queue[w], t), e) = Count(queue[w], e) + (IF t = e THEN 1 ELSE 0)
    BY <1>1, CountAppend
  <2>2. queue'[w] = Append(queue[w], t)
    BY <1>1, <1>3
  <2>3. Count(queue[w], e) \in Nat
    BY PendingFacts
  <2> QED BY <2>1, <2>2, <2>3 DEF Pending
<1>5. \A v \in Workers : v # w => queue'[v] = queue[v]
  BY <1>1, <1>3
<1>6. \A v \in Workers, e \in Tasks : v # w => Pending(v, e)' = Pending(v, e)
  BY <1>5 DEF Pending
<1> QED BY <1>1, <1>2, <1>3, <1>4, <1>5, <1>6

\* A handler that runs waits once less, and what it posts waits once more,
\* unless its worker is halted.
LEMMA Taken ==
  ASSUME TypeOK, Halting, NEW w \in Workers, NEW t \in Tasks, NEW more \in Seq(Tasks),
         Takes(w, t, more)
  PROVE  /\ queue' \in [Workers -> Seq(Tasks)]
         /\ busy' = [busy EXCEPT ![w] = Idle]
         /\ \A v \in Workers, e \in Tasks : v # w => Pending(v, e)' = Pending(v, e)
         /\ \A e \in Tasks : Pending(w, e)' = Pending(w, e) - (IF e = t THEN 1 ELSE 0)
                                               + (IF whalted[w] THEN 0 ELSE Count(more, e))
         /\ Pending(w, t) > 0
         /\ ~returned
         /\ \A v \in Workers : whalted[v] => queue'[v] = <<>>
<1>1. /\ queue \in [Workers -> Seq(Tasks)] /\ queue[w] \in Seq(Tasks)
      /\ busy \in [Workers -> Tasks \cup {Idle}] /\ t # Idle /\ whalted[w] \in BOOLEAN
  BY TaskFacts DEF TypeOK
<1>2. /\ InProgress(w) = t /\ busy' = [busy EXCEPT ![w] = Idle]
      /\ queue' = [queue EXCEPT ![w] = IF whalted[w] THEN <<>>
                     ELSE (IF busy[w] = Idle THEN Tail(queue[w]) ELSE queue[w]) \o more]
  BY DEF Takes
<1>3. \A v \in Workers : v # w => queue'[v] = queue[v] /\ busy'[v] = busy[v]
  BY <1>1, <1>2
<1>4. \A v \in Workers, e \in Tasks : v # w => Pending(v, e)' = Pending(v, e)
  BY <1>3 DEF Pending
<1>5. \A e : Count(more, e) \in Nat
  BY PlacesFinite
<1>6. CASE whalted[w]
  <2>1. queue[w] = <<>> /\ queue'[w] = <<>> /\ busy'[w] = Idle /\ <<>> \in Seq(Tasks)
    BY <1>1, <1>2, <1>6 DEF Halting
  <2>2. busy[w] = t
    BY <1>1, <1>2, <2>1 DEF InProgress
  <2>3. queue' \in [Workers -> Seq(Tasks)]
    BY <1>1, <1>2, <1>6, <2>1
  <2>4. \A e : Count(queue[w], e) = 0 /\ Count(queue'[w], e) = 0
    BY <2>1, CountEmpty
  <2>5. \A e \in Tasks : Pending(w, e) = (IF t = e THEN 1 ELSE 0) /\ Pending(w, e)' = 0
    BY <2>1, <2>2, <2>4, TaskFacts DEF Pending
  <2>6. ~returned
    BY <1>1, <2>2 DEF Halting
  <2>7. \A v \in Workers : whalted[v] => queue'[v] = <<>>
    BY <1>3, <2>1 DEF Halting
  <2> QED BY <1>2, <1>4, <1>6, <2>3, <2>5, <2>6, <2>7
<1>7. CASE ~whalted[w]
  <2>1. busy[w] = Idle
    BY <1>7 DEF Halting
  <2>2. queue[w] # <<>> /\ Head(queue[w]) = t
    BY <1>1, <1>2, <2>1 DEF InProgress
  <2>3. Tail(queue[w]) \in Seq(Tasks)
    BY <1>1, <2>2, CountTail
  <2>4. queue' = [queue EXCEPT ![w] = Tail(queue[w]) \o more] /\ busy'[w] = Idle
    BY <1>1, <1>2, <1>7, <2>1
  <2>5. Tail(queue[w]) \o more \in Seq(Tasks)
    BY <2>3, CountConcat
  <2>6. queue' \in [Workers -> Seq(Tasks)] /\ queue'[w] = Tail(queue[w]) \o more
    BY <1>1, <2>4, <2>5
  <2>7. ASSUME NEW e \in Tasks
        PROVE  /\ Pending(w, e)' = Pending(w, e) - (IF e = t THEN 1 ELSE 0) + Count(more, e)
               /\ e = t => Pending(w, e) > 0
    <3>1. Count(queue[w], e) = (IF t = e THEN 1 ELSE 0) + Count(Tail(queue[w]), e)
      BY <1>1, <2>2, CountTail
    <3>2. Count(queue'[w], e) = Count(Tail(queue[w]), e) + Count(more, e)
      <4> DEFINE rest == Tail(queue[w])
      <4>1. rest \in Seq(Tasks)
        BY <2>3
      <4> HIDE DEF rest
      <4>2. Count(rest \o more, e) = Count(rest, e) + Count(more, e)
        BY <4>1, CountConcat
      <4> QED BY <4>2, <2>6 DEF rest
    <3>3. Count(Tail(queue[w]), e) \in Nat
      BY <2>3, PlacesFinite
    <3>4. e # Idle
      BY TaskFacts
    <3>5. Pending(w, e) = Count(queue[w], e) /\ Pending(w, e)' = Count(queue'[w], e)
      <4>1. Count(queue[w], e) \in Nat /\ Count(queue'[w], e) \in Nat
        BY <3>1, <3>2, <3>3, <1>5
      <4>2. busy[w] # e /\ busy'[w] # e
        BY <2>1, <2>4, <3>4
      <4> QED BY <4>1, <4>2 DEF Pending
    <3> QED BY <1>5, <3>1, <3>2, <3>3, <3>5
  <2>8. ~returned
    BY <1>7 DEF Halting
  <2>9. \A v \in Workers : whalted[v] => queue'[v] = <<>>
    BY <1>3, <1>7 DEF Halting
  <2> QED BY <1>2, <1>4, <1>7, <2>6, <2>7, <2>8, <2>9
<1> QED BY <1>1, <1>6, <1>7
-----------------------------------------------------------------------------
(* The owner's steps.                                                      *)

\* Sessions and the bounds are finite.
LEMMA Bounds ==
  /\ NumSessions \in Nat /\ NumWorkers \in Nat \ {0, 1} /\ MaxRuns \in Nat /\ MaxClients \in Nat
  /\ IsFiniteSet(Sessions) /\ Sessions \subseteq Nat \ {0}
  /\ 1 \in Workers /\ Workers \subseteq Nat \ {0} /\ \A w \in Workers : w < NumWorkers => w + 1 \in Workers
  /\ \A w \in Workers : 1 .. w \subseteq Workers
  /\ \A S \in SUBSET Sessions : IsFiniteSet(S) /\ Cardinality(S) \in Nat
<1>1. /\ NumSessions \in Nat /\ NumWorkers \in Nat \ {0, 1} /\ MaxRuns \in Nat /\ MaxClients \in Nat
  BY ServerAssumption
<1>2. IsFiniteSet(1 .. NumSessions)
  BY <1>1, FS_Interval
<1>3. ASSUME NEW S \in SUBSET Sessions PROVE IsFiniteSet(S) /\ Cardinality(S) \in Nat
  BY <1>2, FS_Subset, FS_CardinalityType DEF Sessions
<1> QED BY <1>1, <1>2, <1>3 DEF Sessions, Workers

\* The handler that a thread is in is one of those that wait, if any.
LEMMA HandlerFacts ==
  ASSUME TypeOK, NEW w \in Workers
  PROVE  /\ InProgress(w) \in Tasks \cup {Idle}
         /\ InProgress(w) # Idle => Pending(w, InProgress(w)) > 0
         /\ ListAfter(w) \in SUBSET Sessions
<1>1. /\ queue[w] \in Seq(Tasks) /\ busy[w] \in Tasks \cup {Idle} /\ list[w] \in SUBSET Sessions
  BY DEF TypeOK
<1>2. \A t \in Tasks \cup {Idle} : t.of \subseteq Sessions
  BY DEF Tasks, CreateTask, RemoveTask, BeatTask, Idle
<1>3. queue[w] # <<>> => Head(queue[w]) \in Tasks /\ Head(queue[w]) \in ToSet(queue[w])
  BY <1>1, CountTail
<1>4. InProgress(w) \in Tasks \cup {Idle}
  BY <1>1, <1>3 DEF InProgress
<1>5. InProgress(w) # Idle => InProgress(w) \in {busy[w]} \cup ToSet(queue[w])
  BY <1>3 DEF InProgress
<1> QED BY <1>1, <1>2, <1>4, <1>5, PendingFacts DEF ListAfter

\* The Close handlers posted are for sessions.
LEMMA ClosesTyped ==
  ASSUME TypeOK
  PROVE  closes \in Seq(Sessions) /\ ToSet(closes) \subseteq Sessions
<1>1. closes \in Seq(Sessions)
  BY DEF TypeOK
<1> QED BY <1>1, LenProperties DEF ToSet

\* Run sets one more timer for each worker.
LEMMA RunInv ==
  ASSUME Inv, Run
  PROVE  Inv'
<1> USE DEF Inv, Run, owner, server, worker, session
<1>1. runs' <= MaxRuns /\ runs \in Nat /\ MaxRuns \in Nat /\ timers \in [Workers -> Nat]
  BY Bounds, SMTT(30) DEF TypeOK
<1>2. Beating'
  <2> SUFFICES ASSUME NEW w \in Workers PROVE timers'[w] + Pending(w, BeatTask)' <= runs'
    BY DEF Beating
  <2>1. Pending(w, BeatTask)' = Pending(w, BeatTask) /\ Pending(w, BeatTask) \in Nat
    BY PendingFacts DEF Pending
  <2>2. timers[w] + Pending(w, BeatTask) <= runs /\ timers'[w] = timers[w] + 1
    BY DEF Beating
  <2> QED BY <1>1, <2>1, <2>2
<1>3. TypeOK'
  <2>1. \A w \in Workers : timers'[w] \in 0 .. MaxRuns
    BY <1>1, <1>2, PendingFacts DEF Beating, Pending
  <2>2. timers' \in [Workers -> 0 .. MaxRuns]
    BY <2>1
  <2>3. main' \in [at : {"idle", "up", "halt", "join"}, w : Workers]
    BY DEF TypeOK
  <2> QED BY <1>1, <2>2, <2>3 DEF TypeOK
<1>4. Halting'
  BY DEF Halting, TypeOK
<1>5. CreatedOnce' /\ Listed'
  BY DEF CreatedOnce, Listed, Pending
<1>6. NoOrphan' /\ ReadOrRemoved' /\ ClosedOnce'
  BY DEF NoOrphan, ReadOrRemoved, ClosedOnce
<1> QED BY <1>2, <1>3, <1>4, <1>5, <1>6

\* Stop halts the server, so that no read is outstanding.
LEMMA StopInv ==
  ASSUME Inv, Stop
  PROVE  Inv'
<1> USE DEF Inv, Stop, owner, server, worker, session
<1>1. TypeOK'
  <2>1. reading' \in [Sessions -> {"none", "armed", "ok", "error", "aborted"}]
    OBVIOUS
  <2>2. main' \in [at : {"idle", "up", "halt", "join"}, w : Workers]
    BY Bounds
  <2> QED BY <2>1, <2>2 DEF TypeOK
<1>2. Halting'
  <2>1. main'.at = "halt" /\ main'.w = 1 /\ 1 .. 1 - 1 = {} /\ main.at = "up"
    OBVIOUS
  <2>2. \A w \in Workers : busy[w] = Idle
    BY <2>1 DEF Halting
  <2> QED BY <2>1, <2>2 DEF Halting
<1>3. Beating' /\ CreatedOnce'
  BY DEF Beating, CreatedOnce, Pending
<1>4. Listed' /\ NoOrphan' /\ ReadOrRemoved' /\ ClosedOnce'
  BY DEF Listed, NoOrphan, ReadOrRemoved, ClosedOnce
<1> QED BY <1>1, <1>2, <1>3, <1>4

\* Worker::Stop halts its worker: nothing waits there but the handler it is in.
LEMMA HaltWorkerInv ==
  ASSUME Inv, HaltWorker
  PROVE  Inv'
<1> USE DEF Inv, owner, server, worker, session
<1> DEFINE w == main.w
<1>1. /\ main.at = "halt" /\ w \in Workers /\ halted /\ w \in Nat
      /\ \A v \in 1 .. w - 1 : whalted[v]
      /\ main \in [at : {"idle", "up", "halt", "join"}, w : Workers]
      /\ queue \in [Workers -> Seq(Tasks)] /\ whalted \in [Workers -> BOOLEAN]
      /\ busy \in [Workers -> Tasks \cup {Idle}] /\ list[w] \in SUBSET Sessions
      /\ closes \in Seq(Sessions)
  BY Bounds DEF HaltWorker, TypeOK, Halting
<1>2. \A v \in Workers : busy[v] = Idle
  BY <1>1 DEF Halting
<1>3. /\ whalted' = [whalted EXCEPT ![w] = TRUE] /\ queue' = [queue EXCEPT ![w] = <<>>]
      /\ UNCHANGED <<runs, halted, timers, list, home, conn, peer, stale, reading, running>>
  BY DEF HaltWorker
<1>4. queue' \in [Workers -> Seq(Tasks)] /\ queue'[w] = <<>> /\ \A v \in Workers : v # w => queue'[v] = queue[v]
  <2>1. <<>> \in Seq(Tasks)
    BY EmptySeq
  <2> QED BY <1>1, <1>3, <2>1
<1>5. \E l \in SUBSET Sessions : \E order \in SetToSeqs(l) : closes' = closes \o order
  BY <1>1, HandlerFacts DEF HaltWorker
<1>6. closes' \in Seq(Sessions) /\ ToSet(closes) \subseteq ToSet(closes')
  <2>1. PICK l \in SUBSET Sessions : \E order \in SetToSeqs(l) : closes' = closes \o order
    BY <1>5
  <2>2. PICK order \in SetToSeqs(l) : closes' = closes \o order
    BY <2>1
  <2>3. order \in Seq(l)
    BY Bounds, OrderIsQueue
  <2>4. order \in Seq(Sessions)
    BY <2>3, SeqMonotonic
  <2> QED BY <1>1, <2>2, <2>4, CountConcat
<1>7. \/ /\ Joined /\ UNCHANGED busy
      \/ /\ main' = [main EXCEPT !.at = "join"] /\ UNCHANGED returned
         /\ InProgress(w) # Idle /\ busy' = [busy EXCEPT ![w] = InProgress(w)]
  BY DEF HaltWorker
<1>8. /\ busy' \in [Workers -> Tasks \cup {Idle}]
      /\ \A v \in Workers : v # w => busy'[v] = busy[v]
      /\ busy'[w] # Idle => busy'[w] = InProgress(w)
  BY <1>1, <1>2, <1>7, HandlerFacts
<1>9. main' \in [at : {"idle", "up", "halt", "join"}, w : Workers] /\ returned' \in BOOLEAN
  <2>1. main.w < NumWorkers => main.w + 1 \in Workers
    BY <1>1, Bounds
  <2>2. returned' \in BOOLEAN
    BY <1>7 DEF Joined, TypeOK
  <2>3. CASE main' = [main EXCEPT !.at = "join"]
    BY <1>1, <2>2, <2>3
  <2>4. CASE Joined
    BY <1>1, <2>1, <2>2, <2>4 DEF Joined
  <2> QED BY <1>7, <2>3, <2>4
<1>10. \A v \in Workers : whalted'[v] = (whalted[v] \/ v = w)
  BY <1>1, <1>3
<1>11. Halting'
  <2>1. \A v \in Workers : whalted'[v] => halted' /\ queue'[v] = <<>>
    BY <1>1, <1>3, <1>4, <1>10 DEF Halting
  <2>2. \A v \in 1 .. w : whalted'[v]
    <3>1. \A v \in 1 .. w : v \in Workers /\ (v = w \/ v \in 1 .. w - 1)
      BY <1>1, Bounds
    <3> QED BY <3>1, <1>1, <1>10
  <2>3. \A s \in Sessions : reading'[s] = "none"
    BY <1>1, <1>3 DEF Halting
  <2>4. CASE Joined /\ UNCHANGED busy
    <3>1. main'.at # "join" /\ (main'.at = "halt" => main'.w = w + 1)
      BY <1>1, <2>4 DEF Joined
    <3>2. main'.at \in {"halt", "join"} => \A v \in 1 .. main'.w - 1 : whalted'[v]
      BY <1>1, <2>2, <3>1
    <3>3. returned' => \A v \in Workers : whalted'[v]
      BY <1>1, <1>10, <2>2, <2>4 DEF Joined, Halting, Workers
    <3> QED BY <1>1, <1>2, <1>3, <2>1, <2>3, <2>4, <3>1, <3>2, <3>3 DEF Halting
  <2>5. CASE /\ main' = [main EXCEPT !.at = "join"] /\ UNCHANGED returned
             /\ InProgress(w) # Idle /\ busy' = [busy EXCEPT ![w] = InProgress(w)]
    <3>1. main'.at = "join" /\ main'.w = w
      BY <1>1, <2>5
    <3>2. ~returned
      BY <1>1, <1>2, <2>5 DEF Halting, InProgress
    <3>3. \A v \in 1 .. w - 1 : whalted'[v]
      BY <1>1, <2>2
    <3> QED BY <1>1, <1>2, <1>3, <1>8, <1>10, <2>1, <2>3, <2>5, <3>1, <3>2, <3>3 DEF Halting
  <2> QED BY <1>7, <2>4, <2>5
<1>12. TypeOK'
  <2>1. whalted' \in [Workers -> BOOLEAN]
    BY <1>1, <1>3
  <2> QED BY <1>3, <1>4, <1>6, <1>8, <1>9, <2>1 DEF TypeOK
<1>13. \A v \in Workers, e \in Tasks : Pending(v, e)' <= Pending(v, e) /\ Pending(v, e)' \in Nat
  <2> TAKE v \in Workers, e \in Tasks
  <2>1. CASE v # w
    <3>1. Pending(v, e)' = Pending(v, e)
      BY <2>1, <1>4, <1>8 DEF Pending
    <3>2. Pending(v, e) \in Nat
      BY PendingFacts
    <3> QED BY <3>1, <3>2
  <2>2. CASE v = w
    <3>1. Count(queue'[w], e) = 0
      BY <1>4, CountEmpty
    <3>2. busy'[w] = e => Pending(w, e) > 0
      BY <1>1, <1>8, TaskFacts, HandlerFacts
    <3> QED BY <2>2, <3>1, <3>2, <1>1, PendingFacts DEF Pending
  <2> QED BY <2>1, <2>2
<1>14. Beating'
  <2> SUFFICES ASSUME NEW v \in Workers PROVE timers'[v] + Pending(v, BeatTask)' <= runs'
    BY DEF Beating
  <2>1. timers[v] + Pending(v, BeatTask) <= runs
    BY DEF Beating
  <2>2. timers[v] \in Nat /\ runs \in Nat /\ timers' = timers /\ runs' = runs
    BY <1>3, Bounds DEF TypeOK
  <2>3. Pending(v, BeatTask)' <= Pending(v, BeatTask) /\ Pending(v, BeatTask)' \in Nat /\ Pending(v, BeatTask) \in Nat
    BY <1>13, TaskFacts, PendingFacts
  <2> QED BY <2>1, <2>2, <2>3
<1>15. CreatedOnce'
  <2> SUFFICES ASSUME NEW v \in Workers, NEW s \in Sessions
               PROVE  /\ Pending(v, CreateTask(s))' <= 1
                      /\ Pending(v, CreateTask(s))' > 0 => home'[s] = v /\ conn'[s] = "accepted"
    BY DEF CreatedOnce
  <2>1. /\ Pending(v, CreateTask(s))' <= Pending(v, CreateTask(s))
        /\ Pending(v, CreateTask(s))' \in Nat /\ Pending(v, CreateTask(s)) \in Nat
    BY <1>13, TaskFacts, PendingFacts
  <2>2. /\ Pending(v, CreateTask(s)) <= 1
        /\ Pending(v, CreateTask(s)) > 0 => home[s] = v /\ conn[s] = "accepted"
    BY DEF CreatedOnce
  <2>3. Pending(v, CreateTask(s))' > 0 => Pending(v, CreateTask(s)) > 0
    BY <2>1
  <2> QED BY <2>1, <2>2, <2>3, <1>3
<1>16. Listed' /\ ReadOrRemoved'
  BY <1>1, <1>3 DEF Listed, ReadOrRemoved
<1>17. NoOrphan' /\ ClosedOnce'
  BY <1>1, <1>3, <1>6 DEF NoOrphan, ClosedOnce
<1> QED BY <1>11, <1>12, <1>14, <1>15, <1>16, <1>17

\* The join is over when the worker's thread is out of its handler.
LEMMA JoinWorkerInv ==
  ASSUME Inv, JoinWorker
  PROVE  Inv'
<1> USE DEF Inv, JoinWorker, Joined, owner, server, worker, session
<1>1. /\ main.at = "join" /\ main.w \in Workers /\ main.w \in Nat
      /\ \A v \in 1 .. main.w - 1 : whalted[v]
      /\ whalted[main.w] /\ busy[main.w] = Idle
      /\ main \in [at : {"idle", "up", "halt", "join"}, w : Workers]
      /\ main.w < NumWorkers => main.w + 1 \in Workers
  BY Bounds DEF TypeOK, Halting
<1>2. TypeOK'
  <2>1. main' \in [at : {"idle", "up", "halt", "join"}, w : Workers] /\ returned' \in BOOLEAN
    BY <1>1 DEF TypeOK
  <2> QED BY <2>1 DEF TypeOK
<1>3. Halting'
  <2>1. \A v \in 1 .. main.w : whalted[v]
    <3>1. \A v \in 1 .. main.w : v = main.w \/ v \in 1 .. main.w - 1
      BY <1>1
    <3> QED BY <1>1, <3>1
  <2>2. \A v \in Workers : busy[v] = Idle
    BY <1>1 DEF Halting
  <2>3. main'.at # "join" /\ (main'.at = "halt" => main'.w = main.w + 1)
    BY <1>1
  <2>4. main'.at \in {"halt", "join"} => \A v \in 1 .. main'.w - 1 : whalted[v]
    BY <1>1, <2>1, <2>3
  <2>5. returned' => \A v \in Workers : whalted[v]
    BY <2>1 DEF Halting, Workers
  <2>6. halted
    BY <1>1 DEF Halting
  <2> QED BY <2>2, <2>3, <2>4, <2>5, <2>6 DEF Halting
<1>4. Beating' /\ CreatedOnce'
  BY DEF Beating, CreatedOnce, Pending
<1>5. Listed' /\ NoOrphan' /\ ReadOrRemoved' /\ ClosedOnce'
  BY DEF Listed, NoOrphan, ReadOrRemoved, ClosedOnce
<1> QED BY <1>2, <1>3, <1>4, <1>5
-----------------------------------------------------------------------------
(* The steps of the thread of Server::io_.                                 *)

\* ReadOrRemoved, put in terms of the number of handlers that wait.
LEMMA StillReadOrRemoved ==
  ASSUME queue' \in [Workers -> Seq(Tasks)],
         \A w \in Workers : \A s \in list'[w] :
            reading'[s] = "none" /\ ~halted' => Pending(w, RemoveTask(s))' > 0
  PROVE  ReadOrRemoved'
<1> SUFFICES ASSUME NEW w \in Workers, NEW s \in list'[w], reading'[s] = "none", ~halted'
             PROVE  RemoveTask(s) \in {busy'[w]} \cup ToSet(queue'[w])
  BY DEF ReadOrRemoved
<1>1. Pending(w, RemoveTask(s))' > 0 /\ queue'[w] \in Seq(Tasks)
  OBVIOUS
<1>2. Count(queue'[w], RemoveTask(s)) > 0 <=> RemoveTask(s) \in ToSet(queue'[w])
  BY <1>1, CountedIsIn
<1>3. busy'[w] # RemoveTask(s) => Count(queue'[w], RemoveTask(s)) > 0
  BY <1>1, PlacesFinite DEF Pending
<1> QED BY <1>2, <1>3

\* ClosedOnce stays true while no Close is posted or run.
LEMMA StillClosedOnce ==
  ASSUME ClosedOnce, UNCHANGED <<halted, closes>>,
         \A s \in ToSet(closes) : conn[s] = "open" => conn'[s] = "open"
  PROVE  ClosedOnce'
  BY DEF ClosedOnce

\* The sessions to be closed stay distinct when a new one is added, and what
\* is taken out is not among those that are left.
LEMMA DistinctCloses ==
  ASSUME NEW q \in Seq(Sessions), IsInjective(q)
  PROVE  /\ \A s \in Sessions : s \notin ToSet(q) => IsInjective(Append(q, s))
         /\ q # <<>> => IsInjective(Tail(q)) /\ Head(q) \notin ToSet(Tail(q))
<1>1. Len(q) \in Nat /\ DOMAIN q = 1 .. Len(q)
  BY LenProperties
<1>2. ASSUME NEW s \in Sessions, s \notin ToSet(q) PROVE IsInjective(Append(q, s))
  <2>1. /\ DOMAIN Append(q, s) = 1 .. Len(q) + 1
        /\ \A i \in 1 .. Len(q) : Append(q, s)[i] = q[i]
        /\ Append(q, s)[Len(q) + 1] = s
    BY <1>1, AppendProperties
  <2>2. \A i \in 1 .. Len(q) : q[i] # s
    BY <1>1, <1>2 DEF ToSet
  <2>3. \A i \in 1 .. Len(q) + 1 : i \in 1 .. Len(q) \/ i = Len(q) + 1
    BY <1>1
  <2> QED BY <1>1, <2>1, <2>2, <2>3 DEF IsInjective
<1>3. ASSUME q # <<>> PROVE IsInjective(Tail(q)) /\ Head(q) \notin ToSet(Tail(q))
  <2>1. /\ DOMAIN Tail(q) = 1 .. Len(q) - 1 /\ Head(q) = q[1] /\ 1 \in DOMAIN q
        /\ \A i \in 1 .. Len(q) - 1 : Tail(q)[i] = q[i + 1]
    BY <1>1, <1>3, HeadTailProperties, EmptySeq
  <2>2. \A i \in 1 .. Len(q) - 1 : i + 1 \in DOMAIN q /\ i + 1 # 1
    BY <1>1
  <2>3. IsInjective(Tail(q))
    <3> SUFFICES ASSUME NEW i \in 1 .. Len(q) - 1, NEW j \in 1 .. Len(q) - 1, q[i + 1] = q[j + 1]
                 PROVE  i = j
      BY <2>1 DEF IsInjective
    <3>1. i + 1 = j + 1
      BY <2>2 DEF IsInjective
    <3> QED BY <1>1, <3>1
  <2>4. Head(q) \notin ToSet(Tail(q))
    BY <2>1, <2>2 DEF IsInjective, ToSet
  <2> QED BY <2>3, <2>4
<1> QED BY <1>2, <1>3

\* PeekWorker finds a worker.
LEMMA Peeked ==
  ASSUME NEW n \in [Workers -> Nat]
  PROVE  PeekWorker(n) \in Workers
<1> DEFINE sizes == {n[w] : w \in Workers}
<1>1. sizes \in SUBSET Nat /\ sizes # {}
  BY Bounds
<1>2. PICK k \in sizes : \A m \in sizes : k <= m
  BY <1>1, Least
<1> DEFINE smallest == {w \in Workers : n[w] = k}
<1>3. smallest \in SUBSET Nat /\ smallest # {}
  BY <1>2, Bounds
<1>4. PICK w \in smallest : \A v \in smallest : w <= v
  BY <1>3, Least
<1>5. \A v \in Workers : n[w] <= n[v]
  BY <1>2, <1>4
<1>6. ASSUME NEW v \in 1 .. w - 1 PROVE n[w] < n[v]
  <2>1. v \in Workers /\ ~(w <= v)
    BY <1>4, Bounds DEF Workers
  <2>2. n[v] # k /\ k <= n[v] /\ n[w] = k /\ n[v] \in Nat /\ k \in Nat
    BY <2>1, <1>1, <1>2, <1>4
  <2> QED BY <2>2
<1> QED BY <1>4, <1>5, <1>6 DEF PeekWorker

\* A connection accepted has its creation waiting, once, at its worker.
LEMMA AcceptInv ==
  ASSUME Inv, NEW s \in Sessions, Accept(s)
  PROVE  Inv'
<1> USE DEF Inv, owner, server, worker, session
<1>1. /\ ~halted /\ conn[s] = "new" /\ conn \in [Sessions -> {"new", "accepted", "open", "closed", "dropped"}]
      /\ home \in [Sessions -> 0 .. NumWorkers]
      /\ UNCHANGED <<main, runs, returned, halted, closes, whalted, timers, busy, list, peer, stale, reading>>
  BY DEF Accept, TypeOK
<1>2. CASE running' = FALSE /\ UNCHANGED <<home, conn, queue>>
  <2>1. TypeOK'
    BY <1>1, <1>2 DEF TypeOK
  <2>2. Halting' /\ Beating' /\ CreatedOnce' /\ Listed'
    BY <1>1, <1>2 DEF Halting, Beating, CreatedOnce, Listed, Pending
  <2>3. NoOrphan' /\ ReadOrRemoved' /\ ClosedOnce'
    BY <1>1, <1>2 DEF NoOrphan, ReadOrRemoved, ClosedOnce
  <2> QED BY <2>1, <2>2, <2>3
<1>3. ASSUME NEW n \in [Workers -> 0 .. Cardinality(Sessions)],
             home' = [home EXCEPT ![s] = PeekWorker(n)],
             conn' = [conn EXCEPT ![s] = "accepted"],
             queue' = Post(queue, PeekWorker(n), CreateTask(s)),
             UNCHANGED running
      PROVE  Inv'
  <2> DEFINE w == PeekWorker(n)
  <2>1. w \in Workers
    <3>1. 0 .. Cardinality(Sessions) \subseteq Nat
      OBVIOUS
    <3>2. n \in [Workers -> Nat]
      BY <3>1
    <3> QED BY <3>2, Peeked
  <2> HIDE DEF w
  <2>2. /\ queue' \in [Workers -> Seq(Tasks)]
        /\ \A v \in Workers : v # w => queue'[v] = queue[v]
        /\ \A v \in Workers, e \in Tasks : v # w => Pending(v, e)' = Pending(v, e)
        /\ \A e \in Tasks : Pending(w, e)' = Pending(w, e) + (IF CreateTask(s) = e THEN 1 ELSE 0)
    <3>1. queue' = Post(queue, w, CreateTask(s)) /\ CreateTask(s) \in Tasks /\ UNCHANGED busy
      BY <1>1, <1>3, TaskFacts DEF w
    <3> QED BY <2>1, <3>1, Posted
  <2>3. /\ home' \in [Sessions -> 0 .. NumWorkers] /\ home'[s] = w
        /\ conn' \in [Sessions -> {"new", "accepted", "open", "closed", "dropped"}] /\ conn'[s] = "accepted"
        /\ \A r \in Sessions : r # s => home'[r] = home[r] /\ conn'[r] = conn[r]
    BY <1>1, <1>3, <2>1 DEF w, Workers
  <2>4. TypeOK'
    BY <1>1, <1>3, <2>2, <2>3 DEF TypeOK
  <2>5. Halting'
    BY <1>1, <2>1, <2>2 DEF Halting
  <2>6. Beating'
    BY <1>1, <2>2, TaskFacts, PendingFacts DEF Beating
  <2>7. CreatedOnce'
    <3> SUFFICES ASSUME NEW v \in Workers, NEW r \in Sessions
                 PROVE  /\ Pending(v, CreateTask(r))' <= 1
                        /\ Pending(v, CreateTask(r))' > 0 => home'[r] = v /\ conn'[r] = "accepted"
      BY DEF CreatedOnce
    <3>1. /\ Pending(v, CreateTask(r)) <= 1 /\ Pending(v, CreateTask(r)) \in Nat
          /\ Pending(v, CreateTask(r)) > 0 => home[r] = v /\ conn[r] = "accepted"
      BY PendingFacts DEF CreatedOnce
    <3>2. CASE r # s
      <4>1. Pending(v, CreateTask(r))' = Pending(v, CreateTask(r))
        BY <2>2, <3>1, <3>2, TaskFacts
      <4> QED BY <2>3, <3>1, <3>2, <4>1
    <3>3. CASE r = s
      <4>1. Pending(v, CreateTask(s)) = 0
        BY <1>1, <3>1, <3>3
      <4>2. Pending(v, CreateTask(s))' = IF v = w THEN 1 ELSE 0
        BY <2>2, <4>1, TaskFacts
      <4> QED BY <2>3, <3>3, <4>2
    <3> QED BY <3>2, <3>3
  <2>8. \A v \in Workers : s \notin list[v]
    BY <1>1 DEF Listed
  <2>9. s \notin ToSet(closes)
    BY <1>1 DEF Listed
  <2>10. Listed'
    <3>1. ASSUME NEW v \in Workers, NEW r \in list[v] PROVE home'[r] = v /\ conn'[r] = "open"
      <4>1. r \in Sessions /\ r # s
        BY <2>8 DEF TypeOK
      <4> QED BY <4>1, <2>3 DEF Listed
    <3>2. ASSUME NEW r \in ToSet(closes)
          PROVE  conn'[r] \in {"open", "closed"} /\ \A v \in Workers : r \notin list[v]
      <4>1. r \in Sessions /\ r # s
        BY <2>9, ClosesTyped
      <4> QED BY <4>1, <2>3, <1>1 DEF Listed
    <3>3. ASSUME NEW r \in Sessions
          PROVE  /\ reading[r] = "aborted" => conn'[r] = "closed"
                 /\ reading[r] # "none" \/ conn'[r] = "open" => home'[r] \in Workers
      BY <1>1, <2>1, <2>3 DEF Listed
    <3> QED BY <1>1, <3>1, <3>2, <3>3 DEF Listed
  <2>11. NoOrphan'
    BY <1>1, <1>3, <2>3 DEF NoOrphan
  <2>12. ReadOrRemoved'
    <3>1. ASSUME NEW v \in Workers, NEW r \in list'[v], reading'[r] = "none", ~halted'
          PROVE  Pending(v, RemoveTask(r))' > 0
      <4>1. r \in Sessions
        BY <1>1, <3>1 DEF TypeOK
      <4>2. Pending(v, RemoveTask(r)) > 0 /\ Pending(v, RemoveTask(r)) \in Nat
        BY <1>1, <3>1, PendingFacts DEF ReadOrRemoved
      <4> QED BY <4>1, <4>2, <2>2, TaskFacts, SMTT(30)
    <3> QED BY <2>2, <3>1, StillReadOrRemoved
  <2>13. ClosedOnce'
    <3>1. \A r \in ToSet(closes) : r \in Sessions /\ r # s
      BY <2>9, ClosesTyped
    <3> QED BY <1>1, <2>3, <3>1, StillClosedOnce
  <2> QED BY <2>4, <2>5, <2>6, <2>7, <2>10, <2>11, <2>12, <2>13
<1> QED BY <1>2, <1>3 DEF Accept

\* A read that fails leaves a removal waiting at the worker of the session.
LEMMA ReadHandlerInv ==
  ASSUME Inv, NEW s \in Sessions, ReadHandler(s)
  PROVE  Inv'
<1> USE DEF Inv, owner, server, worker, session
<1>1. /\ ~halted /\ reading \in [Sessions -> {"none", "armed", "ok", "error", "aborted"}]
      /\ UNCHANGED <<main, runs, returned, halted, closes, whalted, timers, busy, list, home, conn, peer, running>>
      /\ \A r \in Sessions : r # s => reading'[r] = reading[r]
      /\ reading[s] # "none"
  BY DEF ReadHandler, TypeOK
<1>2. /\ stale' \in [Sessions -> BOOLEAN]
      /\ reading' \in [Sessions -> {"none", "armed", "ok", "error", "aborted"}]
      /\ reading'[s] # "aborted"
  BY <1>1 DEF ReadHandler, TypeOK
<1>3. PICK w \in Workers : home[s] = w
  BY <1>1 DEF Listed
<1>4. \/ UNCHANGED queue
      \/ reading[s] = "error" /\ queue' = Post(queue, w, RemoveTask(s))
  BY <1>3 DEF ReadHandler
<1>5. /\ queue' \in [Workers -> Seq(Tasks)]
      /\ \A v \in Workers : whalted[v] => queue'[v] = queue[v]
      /\ \A v \in Workers, e \in Tasks : /\ Pending(v, e)' >= Pending(v, e)
                                         /\ e # RemoveTask(s) => Pending(v, e)' = Pending(v, e)
  <2>1. \A v \in Workers, e \in Tasks : Pending(v, e) \in Nat
    BY PendingFacts
  <2>2. CASE UNCHANGED queue
    BY <1>1, <2>1, <2>2 DEF TypeOK, Pending
  <2>3. CASE queue' = Post(queue, w, RemoveTask(s))
    <3>1. /\ queue' \in [Workers -> Seq(Tasks)]
          /\ \A v \in Workers, e \in Tasks : v # w => Pending(v, e)' = Pending(v, e)
          /\ \A e \in Tasks : Pending(w, e)' = Pending(w, e) + (IF RemoveTask(s) = e THEN 1 ELSE 0)
      BY <1>1, <1>3, <2>3, TaskFacts, Posted
    <3>2. ~whalted[w]
      BY <1>1, <1>3 DEF Halting
    <3>3. \A v \in Workers : v # w => queue'[v] = queue[v]
      BY <1>1, <1>3, <2>3, TaskFacts, Posted
    <3>4. ASSUME NEW v \in Workers, NEW e \in Tasks
          PROVE  /\ Pending(v, e)' >= Pending(v, e)
                 /\ e # RemoveTask(s) => Pending(v, e)' = Pending(v, e)
      <4>1. Pending(v, e) \in Nat
        BY <2>1
      <4>2. CASE v = w /\ e = RemoveTask(s)
        <5>1. Pending(v, e)' = Pending(v, e) + 1
          BY <3>1, <4>2
        <5> QED BY <4>1, <4>2, <5>1
      <4>3. CASE v # w \/ e # RemoveTask(s)
        <5>1. Pending(v, e)' = Pending(v, e)
          BY <3>1, <4>1, <4>3
        <5> QED BY <4>1, <5>1
      <4> QED BY <4>2, <4>3
    <3> QED BY <3>1, <3>2, <3>3, <3>4
  <2> QED BY <1>4, <2>2, <2>3
<1>6. TypeOK'
  BY <1>1, <1>2, <1>5 DEF TypeOK
<1>7. Halting'
  BY <1>1, <1>5 DEF Halting
<1>8. Beating' /\ CreatedOnce'
  BY <1>1, <1>5, TaskFacts DEF Beating, CreatedOnce
<1>9. Listed'
  <2>1. ASSUME NEW r \in Sessions
        PROVE  /\ reading'[r] = "aborted" => conn[r] = "closed"
               /\ reading'[r] # "none" \/ conn[r] = "open" => home[r] \in Workers
    BY <1>1, <1>2, <1>3 DEF Listed
  <2> QED BY <1>1, <2>1 DEF Listed
<1>10. NoOrphan' /\ ClosedOnce'
  BY <1>1 DEF NoOrphan, ClosedOnce
<1>11. ReadOrRemoved'
  <2>1. ASSUME NEW v \in Workers, NEW r \in list'[v], reading'[r] = "none", ~halted'
        PROVE  Pending(v, RemoveTask(r))' > 0
    <3>1. r \in Sessions /\ RemoveTask(r) \in Tasks /\ r \in list[v] /\ home[r] = v /\ conn[r] = "open"
      BY <1>1, <2>1, TaskFacts DEF TypeOK, Listed
    <3>2. CASE reading[r] = "none"
      <4>1. Pending(v, RemoveTask(r)) > 0 /\ Pending(v, RemoveTask(r)) \in Nat
        BY <1>1, <3>1, <3>2, PendingFacts DEF ReadOrRemoved
      <4>2. Pending(v, RemoveTask(r))' >= Pending(v, RemoveTask(r))
        BY <1>5, <3>1
      <4>3. Pending(v, RemoveTask(r))' \in Nat
        BY <3>1, <1>5, PlacesFinite DEF Pending
      <4> QED BY <4>1, <4>2, <4>3
    <3>3. CASE reading[r] # "none"
      <4>1. r = s /\ reading[s] = "error" /\ queue' = Post(queue, w, RemoveTask(s))
        BY <1>1, <1>3, <2>1, <3>1, <3>3 DEF ReadHandler, Listed
      <4>2. Pending(v, RemoveTask(s))' = Pending(v, RemoveTask(s)) + 1
        BY <1>1, <1>3, <3>1, <4>1, Posted
      <4> QED BY <4>1, <4>2, PendingFacts
    <3> QED BY <3>2, <3>3
  <2> QED BY <1>5, <2>1, StillReadOrRemoved
<1> QED BY <1>6, <1>7, <1>8, <1>9, <1>10, <1>11

\* A session whose Close runs is in no table.
LEMMA CloseInv ==
  ASSUME Inv, Close
  PROVE  Inv'
<1> USE DEF Inv, owner, server, worker, session
<1> DEFINE s == Head(closes)
<1>1. /\ ~halted /\ closes # <<>> /\ closes' = Tail(closes)
      /\ UNCHANGED <<main, runs, returned, halted, whalted, queue, timers, busy, list, home, peer, stale>>
      /\ conn \in [Sessions -> {"new", "accepted", "open", "closed", "dropped"}]
      /\ reading \in [Sessions -> {"none", "armed", "ok", "error", "aborted"}]
  BY DEF Close, TypeOK
<1>2. /\ s \in Sessions /\ Tail(closes) \in Seq(Sessions)
      /\ ToSet(closes) = {s} \cup ToSet(Tail(closes))
  BY <1>1, ClosesTyped, CountTail
<1>3. \/ /\ conn[s] = "open" /\ running' = running
         /\ conn' = [conn EXCEPT ![s] = "closed"]
         /\ reading' = [reading EXCEPT ![s] = IF reading[s] = "armed" THEN "aborted" ELSE reading[s]]
      \/ conn[s] = "open" /\ running' = FALSE /\ UNCHANGED <<conn, reading>>
      \/ conn[s] = "closed" /\ UNCHANGED <<conn, reading, running>>
  BY DEF Close
<1> HIDE DEF s
<1>4. /\ conn' \in [Sessions -> {"new", "accepted", "open", "closed", "dropped"}]
      /\ reading' \in [Sessions -> {"none", "armed", "ok", "error", "aborted"}]
      /\ running' \in BOOLEAN
      /\ \A r \in Sessions : r # s => conn'[r] = conn[r] /\ reading'[r] = reading[r]
      /\ conn[s] \in {"open", "closed"} /\ conn'[s] \in {"open", "closed"}
      /\ running' => running /\ conn'[s] = "closed"
      /\ conn'[s] = "open" => conn[s] = "open"
      /\ reading'[s] = "none" <=> reading[s] = "none"
      /\ reading'[s] = "aborted" => conn'[s] = "closed"
  <2>1. running \in BOOLEAN /\ (reading[s] = "aborted" => conn[s] = "closed")
    BY <1>2 DEF TypeOK, Listed
  <2>2. CASE /\ conn[s] = "open" /\ running' = running
             /\ conn' = [conn EXCEPT ![s] = "closed"]
             /\ reading' = [reading EXCEPT ![s] = IF reading[s] = "armed" THEN "aborted" ELSE reading[s]]
    BY <1>1, <1>2, <2>1, <2>2
  <2>3. CASE conn[s] = "open" /\ running' = FALSE /\ UNCHANGED <<conn, reading>>
    BY <1>1, <1>2, <2>1, <2>3
  <2>4. CASE conn[s] = "closed" /\ UNCHANGED <<conn, reading, running>>
    BY <1>1, <1>2, <2>1, <2>4
  <2> QED BY <1>3, <2>2, <2>3, <2>4
<1>5. TypeOK'
  BY <1>1, <1>2, <1>4 DEF TypeOK
<1>6. Halting' /\ Beating'
  BY <1>1, <1>4 DEF Halting, Beating, Pending
<1>7. CreatedOnce'
  <2>1. \A v \in Workers, r \in Sessions : Pending(v, CreateTask(r))' = Pending(v, CreateTask(r))
    BY <1>1 DEF Pending
  <2>2. \A v \in Workers, r \in Sessions : Pending(v, CreateTask(r)) > 0 => r # s
    BY <1>4 DEF CreatedOnce
  <2> QED BY <1>1, <1>4, <2>1, <2>2 DEF CreatedOnce
<1>8. \A v \in Workers : s \notin list[v]
  BY <1>1, <1>2 DEF Listed
<1>9. Listed'
  <2>1. ASSUME NEW v \in Workers, NEW r \in list[v] PROVE home[r] = v /\ conn'[r] = "open"
    <3>1. r \in Sessions /\ r # s
      BY <1>8 DEF TypeOK
    <3> QED BY <3>1, <1>4 DEF Listed
  <2>2. ASSUME NEW r \in ToSet(closes')
        PROVE  conn'[r] \in {"open", "closed"} /\ \A v \in Workers : r \notin list[v]
    <3>1. r \in ToSet(closes) /\ r \in Sessions
      BY <1>1, <1>2, ClosesTyped
    <3> QED BY <3>1, <1>1, <1>4 DEF Listed
  <2>3. ASSUME NEW r \in Sessions
        PROVE  /\ reading'[r] = "aborted" => conn'[r] = "closed"
               /\ reading'[r] # "none" \/ conn'[r] = "open" => home[r] \in Workers
    BY <1>4 DEF Listed
  <2> QED BY <1>1, <2>1, <2>2, <2>3 DEF Listed
<1>10. NoOrphan'
  <2> SUFFICES ASSUME NEW r \in Sessions, running', conn'[r] = "open"
               PROVE  r \in list[home[r]] \/ r \in ToSet(closes')
    BY <1>1 DEF NoOrphan
  <2>1. r # s /\ conn[r] = "open" /\ running
    BY <1>4
  <2> QED BY <2>1, <1>1, <1>2 DEF NoOrphan
<1>11. ReadOrRemoved'
  <2>1. \A r \in Sessions : reading'[r] = "none" <=> reading[r] = "none"
    BY <1>4
  <2> QED BY <1>1, <2>1 DEF ReadOrRemoved, TypeOK
<1>12. ClosedOnce'
  <2>1. IsInjective(closes) /\ closes \in Seq(Sessions) /\ \A r \in ToSet(closes) : conn[r] = "open"
    BY <1>1, ClosesTyped DEF ClosedOnce
  <2>2. IsInjective(Tail(closes)) /\ s \notin ToSet(Tail(closes))
    BY <1>1, <2>1, DistinctCloses DEF s
  <2>3. \A r \in ToSet(Tail(closes)) : r \in Sessions /\ r # s /\ conn[r] = "open"
    BY <1>2, <2>1, <2>2, ClosesTyped
  <2> QED BY <1>1, <1>4, <2>2, <2>3 DEF ClosedOnce
<1> QED BY <1>5, <1>6, <1>7, <1>9, <1>10, <1>11, <1>12
-----------------------------------------------------------------------------
(* The steps of the thread of a worker.                                    *)

\* What holds after any handler of a worker that posts removals only.
LEMMA HandlerRuns ==
  ASSUME Inv, NEW w \in Workers, NEW t \in Tasks, NEW more \in Seq(Tasks), Takes(w, t, more),
         \A e \in Tasks : (e = BeatTask \/ \E s \in Sessions : e = CreateTask(s)) => Count(more, e) = 0,
         UNCHANGED <<main, runs, returned, halted, whalted>>
  PROVE  /\ queue' \in [Workers -> Seq(Tasks)] /\ busy' \in [Workers -> Tasks \cup {Idle}]
         /\ Pending(w, t) > 0 /\ ~returned
         /\ (\A s \in Sessions : halted => reading'[s] = "none") => Halting'
         /\ \A v \in Workers, e \in Tasks : v # w => Pending(v, e)' = Pending(v, e)
         /\ \A s \in Sessions :
              Pending(w, CreateTask(s))' = Pending(w, CreateTask(s)) - (IF t = CreateTask(s) THEN 1 ELSE 0)
         /\ Pending(w, BeatTask)' = Pending(w, BeatTask) - (IF t = BeatTask THEN 1 ELSE 0)
         /\ \A e \in Tasks : ~halted /\ e # t /\ Pending(w, e) > 0 => Pending(w, e)' > 0
<1> USE DEF Inv
<1>1. /\ queue' \in [Workers -> Seq(Tasks)]
      /\ busy' = [busy EXCEPT ![w] = Idle]
      /\ \A v \in Workers, e \in Tasks : v # w => Pending(v, e)' = Pending(v, e)
      /\ \A e \in Tasks : Pending(w, e)' = Pending(w, e) - (IF e = t THEN 1 ELSE 0)
                                            + (IF whalted[w] THEN 0 ELSE Count(more, e))
      /\ Pending(w, t) > 0
      /\ ~returned
      /\ \A v \in Workers : whalted[v] => queue'[v] = <<>>
  BY Taken
<1>2. /\ \A e \in Tasks : Pending(w, e) \in Nat
      /\ \A e : Count(more, e) \in Nat
  BY PendingFacts, PlacesFinite
<1>3. busy' \in [Workers -> Tasks \cup {Idle}] /\ \A v \in Workers : busy'[v] # Idle => busy'[v] = busy[v]
  BY <1>1 DEF TypeOK
<1>4. (\A s \in Sessions : halted => reading'[s] = "none") => Halting'
  BY <1>1, <1>3 DEF Halting
<1>5. ASSUME NEW e \in Tasks, Count(more, e) = 0
      PROVE  Pending(w, e)' = Pending(w, e) - (IF t = e THEN 1 ELSE 0)
  <2>1. Pending(w, e)' = Pending(w, e) - (IF e = t THEN 1 ELSE 0) + (IF whalted[w] THEN 0 ELSE Count(more, e))
    BY <1>1
  <2> QED BY <1>2, <1>5, <2>1
<1>6. ASSUME NEW e \in Tasks, ~halted, e # t, Pending(w, e) > 0 PROVE Pending(w, e)' > 0
  <2>1. ~whalted[w]
    BY <1>6 DEF Halting
  <2>2. Pending(w, e)' = Pending(w, e) - 0 + Count(more, e)
    BY <1>1, <1>6, <2>1
  <2> QED BY <1>2, <1>6, <2>2
<1>7. /\ BeatTask \in Tasks /\ Count(more, BeatTask) = 0
      /\ \A s \in Sessions : CreateTask(s) \in Tasks /\ Count(more, CreateTask(s)) = 0
  BY TaskFacts
<1> QED BY <1>1, <1>3, <1>4, <1>5, <1>6, <1>7

\* A session enters the table of the worker it was given to, or is dropped
\* because that worker is full.
LEMMA CreateSessionInv ==
  ASSUME Inv, NEW w \in Workers, NEW s \in Sessions, CreateSession(w, s)
  PROVE  Inv'
<1> USE DEF Inv, owner, server, worker, session
<1> DEFINE t == CreateTask(s)
<1>1. /\ Takes(w, t, <<>>) /\ t \in Tasks /\ <<>> \in Seq(Tasks)
      /\ UNCHANGED <<main, runs, returned, halted, closes, whalted, timers, home, peer, stale, running>>
      /\ conn \in [Sessions -> {"new", "accepted", "open", "closed", "dropped"}]
      /\ reading \in [Sessions -> {"none", "armed", "ok", "error", "aborted"}]
      /\ list \in [Workers -> SUBSET Sessions]
  BY TaskFacts, EmptySeq DEF CreateSession, TypeOK
<1>2. /\ queue' \in [Workers -> Seq(Tasks)] /\ busy' \in [Workers -> Tasks \cup {Idle}]
      /\ Pending(w, t) > 0 /\ ~returned
      /\ (\A r \in Sessions : halted => reading'[r] = "none") => Halting'
      /\ \A v \in Workers, e \in Tasks : v # w => Pending(v, e)' = Pending(v, e)
      /\ \A r \in Sessions :
           Pending(w, CreateTask(r))' = Pending(w, CreateTask(r)) - (IF t = CreateTask(r) THEN 1 ELSE 0)
      /\ Pending(w, BeatTask)' = Pending(w, BeatTask) - (IF t = BeatTask THEN 1 ELSE 0)
      /\ \A e \in Tasks : ~halted /\ e # t /\ Pending(w, e) > 0 => Pending(w, e)' > 0
  <2>1. \A e : Count(<<>>, e) = 0
    BY CountEmpty
  <2> HIDE DEF t, Inv
  <2> QED BY <1>1, <2>1, HandlerRuns
<1>3. home[s] = w /\ conn[s] = "accepted"
  BY <1>2 DEF CreatedOnce
<1>4. \/ /\ Cardinality(list[w]) + 1 > MaxClients
         /\ conn' = [conn EXCEPT ![s] = "dropped"] /\ UNCHANGED <<list, reading>>
      \/ /\ conn' = [conn EXCEPT ![s] = "open"]
         /\ list' = [list EXCEPT ![w] = list[w] \cup {s}]
         /\ reading' = [reading EXCEPT ![s] = IF halted THEN "none" ELSE "armed"]
  BY DEF CreateSession
<1>5. /\ conn' \in [Sessions -> {"new", "accepted", "open", "closed", "dropped"}]
      /\ reading' \in [Sessions -> {"none", "armed", "ok", "error", "aborted"}]
      /\ list' \in [Workers -> SUBSET Sessions]
      /\ conn'[s] \in {"open", "dropped"}
      /\ \A r \in Sessions : r # s => conn'[r] = conn[r] /\ reading'[r] = reading[r]
      /\ \A v \in Workers, r \in Sessions : r # s => (r \in list'[v] <=> r \in list[v])
      /\ \A v \in Workers : s \in list'[v] => v = w /\ conn'[s] = "open" /\ (~halted => reading'[s] = "armed")
      /\ conn'[s] = "open" => s \in list'[w]
      /\ halted /\ reading[s] = "none" => reading'[s] = "none"
      /\ reading'[s] = "aborted" => reading[s] = "aborted"
  <2>1. \A v \in Workers : s \notin list[v]
    BY <1>3 DEF Listed
  <2>2. CASE /\ conn' = [conn EXCEPT ![s] = "dropped"] /\ UNCHANGED <<list, reading>>
    BY <1>1, <2>1, <2>2
  <2>3. CASE /\ conn' = [conn EXCEPT ![s] = "open"]
             /\ list' = [list EXCEPT ![w] = list[w] \cup {s}]
             /\ reading' = [reading EXCEPT ![s] = IF halted THEN "none" ELSE "armed"]
    BY <1>1, <2>1, <2>3
  <2> QED BY <1>4, <2>2, <2>3
<1>6. TypeOK'
  BY <1>1, <1>2, <1>5 DEF TypeOK
<1>7. Halting'
  <2>1. \A r \in Sessions : halted => reading'[r] = "none"
    BY <1>5 DEF Halting
  <2> QED BY <1>2, <2>1
<1>8. Beating'
  <2>1. \A v \in Workers : Pending(v, BeatTask)' = Pending(v, BeatTask)
    BY <1>2, TaskFacts, PendingFacts
  <2> QED BY <1>1, <2>1 DEF Beating
<1>9. CreatedOnce'
  <2> SUFFICES ASSUME NEW v \in Workers, NEW r \in Sessions
               PROVE  /\ Pending(v, CreateTask(r))' <= 1
                      /\ Pending(v, CreateTask(r))' > 0 => home[r] = v /\ conn'[r] = "accepted"
    BY <1>1 DEF CreatedOnce
  <2>1. /\ Pending(v, CreateTask(r)) <= 1 /\ Pending(v, CreateTask(r)) \in Nat
        /\ Pending(v, CreateTask(r)) > 0 => home[r] = v /\ conn[r] = "accepted"
    BY PendingFacts DEF CreatedOnce
  <2>2. CASE r # s
    <3>1. Pending(v, CreateTask(r))' = Pending(v, CreateTask(r))
      BY <1>2, <2>1, <2>2, TaskFacts
    <3> QED BY <1>5, <2>1, <2>2, <3>1
  <2>3. CASE r = s
    <3>1. Pending(v, CreateTask(s))' = 0
      <4>1. CASE v = w
        <5>1. Pending(w, CreateTask(s))' = Pending(w, CreateTask(s)) - 1
          BY <1>2
        <5> QED BY <5>1, <4>1, <2>1, <2>3, <1>2
      <4>2. CASE v # w
        BY <4>2, <1>2, <1>3, <2>1, <2>3, TaskFacts
      <4> QED BY <4>1, <4>2
    <3> QED BY <2>3, <3>1
  <2> QED BY <2>2, <2>3
<1>10. Listed'
  <2>1. ASSUME NEW v \in Workers, NEW r \in list'[v] PROVE home[r] = v /\ conn'[r] = "open"
    <3>1. r \in Sessions
      BY <1>5
    <3> QED BY <3>1, <1>3, <1>5 DEF Listed
  <2>2. ASSUME ~halted, NEW r \in ToSet(closes)
        PROVE  conn'[r] \in {"open", "closed"} /\ \A v \in Workers : r \notin list'[v]
    <3>1. r \in Sessions /\ r # s
      BY <1>3, <2>2, ClosesTyped DEF Listed
    <3> QED BY <3>1, <1>5, <2>2 DEF Listed
  <2>3. ASSUME NEW r \in Sessions
        PROVE  /\ reading'[r] = "aborted" => conn'[r] = "closed"
               /\ reading'[r] # "none" \/ conn'[r] = "open" => home[r] \in Workers
    BY <1>3, <1>5 DEF Listed
  <2> QED BY <1>1, <2>1, <2>2, <2>3 DEF Listed
<1>11. NoOrphan'
  <2> SUFFICES ASSUME NEW r \in Sessions, running, conn'[r] = "open"
               PROVE  r \in list'[home[r]] \/ r \in ToSet(closes)
    BY <1>1 DEF NoOrphan
  <2>1. CASE r = s
    BY <2>1, <1>3, <1>5
  <2>2. CASE r # s
    <3>1. conn[r] = "open" /\ home[r] \in Workers
      BY <2>2, <1>5 DEF Listed
    <3> QED BY <2>2, <3>1, <1>5 DEF NoOrphan
  <2> QED BY <2>1, <2>2
<1>12. ReadOrRemoved'
  <2>1. ASSUME NEW v \in Workers, NEW r \in list'[v], reading'[r] = "none", ~halted'
        PROVE  Pending(v, RemoveTask(r))' > 0
    <3>1. r \in Sessions /\ RemoveTask(r) \in Tasks /\ RemoveTask(r) # t /\ ~halted
      BY <1>1, <1>5, <2>1, TaskFacts
    <3>2. r # s /\ r \in list[v] /\ reading[r] = "none"
      BY <1>5, <2>1, <3>1
    <3>3. Pending(v, RemoveTask(r)) > 0
      BY <3>1, <3>2, PendingFacts DEF ReadOrRemoved
    <3> QED BY <1>2, <3>1, <3>3
  <2> QED BY <1>2, <2>1, StillReadOrRemoved
<1>13. ClosedOnce'
  <2>1. \A r \in ToSet(closes) : r \in Sessions
    BY ClosesTyped
  <2>2. \A r \in ToSet(closes) : conn[r] = "open" => conn'[r] = "open"
    BY <1>3, <1>5, <2>1
  <2> QED BY <1>1, <2>2, StillClosedOnce
<1> QED BY <1>6, <1>7, <1>8, <1>9, <1>10, <1>11, <1>12, <1>13

\* A session that leaves its table has its Close posted.
LEMMA RemoveSessionInv ==
  ASSUME Inv, NEW w \in Workers, NEW s \in Sessions, RemoveSession(w, s)
  PROVE  Inv'
<1> USE DEF Inv, owner, server, worker, session
<1> DEFINE t == RemoveTask(s)
<1>1. /\ Takes(w, t, <<>>) /\ t \in Tasks /\ <<>> \in Seq(Tasks)
      /\ UNCHANGED <<main, runs, returned, halted, whalted, timers, home, conn, peer, stale, reading, running>>
      /\ closes' = IF s \in list[w] THEN Append(closes, s) ELSE closes
      /\ list' = [list EXCEPT ![w] = list[w] \ {s}]
      /\ list \in [Workers -> SUBSET Sessions]
  BY TaskFacts, EmptySeq DEF RemoveSession, TypeOK
<1>2. /\ queue' \in [Workers -> Seq(Tasks)] /\ busy' \in [Workers -> Tasks \cup {Idle}]
      /\ Pending(w, t) > 0 /\ ~returned
      /\ (\A r \in Sessions : halted => reading'[r] = "none") => Halting'
      /\ \A v \in Workers, e \in Tasks : v # w => Pending(v, e)' = Pending(v, e)
      /\ \A r \in Sessions :
           Pending(w, CreateTask(r))' = Pending(w, CreateTask(r)) - (IF t = CreateTask(r) THEN 1 ELSE 0)
      /\ Pending(w, BeatTask)' = Pending(w, BeatTask) - (IF t = BeatTask THEN 1 ELSE 0)
      /\ \A e \in Tasks : ~halted /\ e # t /\ Pending(w, e) > 0 => Pending(w, e)' > 0
  <2>1. \A e : Count(<<>>, e) = 0
    BY CountEmpty
  <2> HIDE DEF t, Inv
  <2> QED BY <1>1, <2>1, HandlerRuns
<1>3. /\ list' \in [Workers -> SUBSET Sessions]
      /\ \A v \in Workers : list'[v] \subseteq list[v]
      /\ \A v \in Workers : \A r \in list[v] : r \notin list'[v] => v = w /\ r = s
      /\ s \notin list'[w]
  BY <1>1
<1>4. /\ closes' \in Seq(Sessions)
      /\ ToSet(closes') = ToSet(closes) \cup (IF s \in list[w] THEN {s} ELSE {})
  BY <1>1, ClosesTyped, CountAppend
<1>5. TypeOK'
  BY <1>1, <1>2, <1>3, <1>4 DEF TypeOK
<1>6. Halting'
  BY <1>1, <1>2 DEF Halting
<1>7. \A v \in Workers, r \in Sessions : /\ Pending(v, CreateTask(r))' = Pending(v, CreateTask(r))
                                          /\ Pending(v, BeatTask)' = Pending(v, BeatTask)
  BY <1>2, TaskFacts, PendingFacts
<1>8. Beating' /\ CreatedOnce'
  <2>1. \A v \in Workers : Pending(v, BeatTask)' = Pending(v, BeatTask)
    BY <1>7
  <2> QED BY <1>1, <1>7, <2>1 DEF Beating, CreatedOnce
<1>9. s \in list[w] => conn[s] = "open" /\ home[s] = w /\ \A v \in Workers : s \notin list'[v]
  BY <1>1, <1>3 DEF Listed
<1>10. Listed'
  <2>1. ASSUME NEW v \in Workers, NEW r \in list'[v] PROVE home[r] = v /\ conn[r] = "open"
    BY <1>3 DEF Listed
  <2>2. ASSUME ~halted, NEW r \in ToSet(closes')
        PROVE  conn[r] \in {"open", "closed"} /\ \A v \in Workers : r \notin list'[v]
    BY <1>3, <1>4, <1>9, <2>2 DEF Listed
  <2>3. ASSUME NEW r \in Sessions
        PROVE  /\ reading[r] = "aborted" => conn[r] = "closed"
               /\ reading[r] # "none" \/ conn[r] = "open" => home[r] \in Workers
    BY DEF Listed
  <2> QED BY <1>1, <2>1, <2>2, <2>3 DEF Listed
<1>11. NoOrphan'
  <2> SUFFICES ASSUME NEW r \in Sessions, running, conn[r] = "open"
               PROVE  r \in list'[home[r]] \/ r \in ToSet(closes')
    BY <1>1 DEF NoOrphan
  <2>1. home[r] \in Workers
    BY DEF Listed
  <2>2. r \in list[home[r]] \/ r \in ToSet(closes)
    BY DEF NoOrphan
  <2> QED BY <2>1, <2>2, <1>3, <1>4
<1>12. ReadOrRemoved'
  <2>1. ASSUME NEW v \in Workers, NEW r \in list'[v], reading'[r] = "none", ~halted'
        PROVE  Pending(v, RemoveTask(r))' > 0
    <3>1. r \in Sessions /\ RemoveTask(r) \in Tasks /\ ~halted /\ r \in list[v] /\ reading[r] = "none"
      BY <1>1, <1>3, <2>1, TaskFacts
    <3>2. Pending(v, RemoveTask(r)) > 0
      BY <3>1, PendingFacts DEF ReadOrRemoved
    <3>3. v # w \/ RemoveTask(r) # t
      BY <1>3, <2>1, <3>1, TaskFacts
    <3> QED BY <1>2, <3>1, <3>2, <3>3
  <2> QED BY <1>2, <2>1, StillReadOrRemoved
<1>13. ClosedOnce'
  <2>1. CASE s \in list[w]
    <3>1. ~halted => s \notin ToSet(closes)
      BY <2>1 DEF Listed
    <3>2. ~halted => IsInjective(closes') /\ ToSet(closes') = ToSet(closes) \cup {s}
      BY <1>1, <1>4, <2>1, <3>1, ClosesTyped, DistinctCloses DEF ClosedOnce
    <3> QED BY <1>1, <1>9, <2>1, <3>2 DEF ClosedOnce
  <2>2. CASE s \notin list[w]
    BY <1>1, <2>2 DEF ClosedOnce
  <2> QED BY <2>1, <2>2
<1> QED BY <1>5, <1>6, <1>8, <1>10, <1>11, <1>12, <1>13

\* The heartbeat that has run is replaced by a timer.
LEMMA HeartbeatInv ==
  ASSUME Inv, NEW w \in Workers, Heartbeat(w)
  PROVE  Inv'
<1> USE DEF Inv, owner, server, worker, session
<1> DEFINE silent == {s \in list[w] : stale[s]}
<1>1. PICK order \in SetToSeqs(silent) :
        Takes(w, BeatTask, [i \in DOMAIN order |-> RemoveTask(order[i])])
  BY DEF Heartbeat
<1> DEFINE more == [i \in DOMAIN order |-> RemoveTask(order[i])]
<1>2. /\ UNCHANGED <<main, runs, returned, halted, closes, whalted, list>>
      /\ UNCHANGED <<home, conn, peer, stale, reading, running>>
      /\ timers' = [timers EXCEPT ![w] = timers[w] + 1]
      /\ timers \in [Workers -> Nat] /\ runs \in 0 .. MaxRuns /\ MaxRuns \in Nat
      /\ list[w] \in SUBSET Sessions
  BY Bounds DEF Heartbeat, TypeOK
<1>3. more \in Seq(Tasks) /\ \A e \in Tasks : (\A s \in Sessions : e # RemoveTask(s)) => Count(more, e) = 0
  <2>1. silent \in SUBSET Sessions
    BY <1>2
  <2>2. order \in Seq(silent)
    BY <2>1, Bounds, OrderIsQueue
  <2>3. Len(order) \in Nat /\ DOMAIN order = 1 .. Len(order) /\ \A i \in DOMAIN order : order[i] \in Sessions
    BY <2>1, <2>2, LenProperties
  <2>4. more \in Seq(Tasks)
    <3>1. more \in [1 .. Len(order) -> Tasks]
      BY <2>3, TaskFacts
    <3> QED BY <2>3, <3>1, SeqDef
  <2>5. ASSUME NEW e \in Tasks, \A s \in Sessions : e # RemoveTask(s) PROVE Count(more, e) = 0
    <3>1. e \notin ToSet(more)
      BY <2>3, <2>5 DEF ToSet
    <3>2. Count(more, e) \in Nat /\ ~(Count(more, e) > 0)
      BY <2>4, <3>1, PlacesFinite, CountedIsIn
    <3> QED BY <3>2
  <2> QED BY <2>4, <2>5
<1>4. /\ queue' \in [Workers -> Seq(Tasks)] /\ busy' \in [Workers -> Tasks \cup {Idle}]
      /\ Pending(w, BeatTask) > 0 /\ ~returned
      /\ (\A r \in Sessions : halted => reading'[r] = "none") => Halting'
      /\ \A v \in Workers, e \in Tasks : v # w => Pending(v, e)' = Pending(v, e)
      /\ \A r \in Sessions :
           Pending(w, CreateTask(r))' = Pending(w, CreateTask(r)) - (IF BeatTask = CreateTask(r) THEN 1 ELSE 0)
      /\ Pending(w, BeatTask)' = Pending(w, BeatTask) - (IF BeatTask = BeatTask THEN 1 ELSE 0)
      /\ \A e \in Tasks : ~halted /\ e # BeatTask /\ Pending(w, e) > 0 => Pending(w, e)' > 0
  <2>1. \A e \in Tasks : (e = BeatTask \/ \E s \in Sessions : e = CreateTask(s)) => Count(more, e) = 0
    BY <1>3, TaskFacts
  <2>2. Takes(w, BeatTask, more)
    BY <1>1
  <2> HIDE DEF more, Inv
  <2> QED BY <1>2, <1>3, <2>1, <2>2, TaskFacts, HandlerRuns
<1>5. Halting'
  BY <1>2, <1>4 DEF Halting
<1>6. Beating'
  <2> SUFFICES ASSUME NEW v \in Workers PROVE timers'[v] + Pending(v, BeatTask)' <= runs
    BY <1>2 DEF Beating
  <2>1. /\ timers[v] + Pending(v, BeatTask) <= runs /\ timers[v] \in Nat /\ runs \in Nat
        /\ Pending(v, BeatTask) \in Nat
    BY <1>2, PendingFacts DEF Beating
  <2>2. CASE v = w
    <3>1. Pending(w, BeatTask)' = Pending(w, BeatTask) - 1 /\ timers'[w] = timers[w] + 1
      BY <1>2, <1>4
    <3> QED BY <2>1, <2>2, <3>1
  <2>3. CASE v # w
    BY <2>1, <2>3, <1>2, <1>4, TaskFacts
  <2> QED BY <2>2, <2>3
<1>7. TypeOK'
  <2>1. ASSUME NEW v \in Workers PROVE timers'[v] \in 0 .. MaxRuns
    <3>1. timers'[v] \in Nat /\ Pending(v, BeatTask)' \in Nat
      <4>1. queue'[v] \in Seq(Tasks)
        BY <1>4
      <4>2. Count(queue'[v], BeatTask) \in Nat
        BY <4>1, PlacesFinite
      <4>3. timers'[v] \in Nat
        BY <1>2
      <4> QED BY <4>2, <4>3 DEF Pending
    <3>2. timers'[v] + Pending(v, BeatTask)' <= runs
      BY <1>2, <1>6 DEF Beating
    <3> QED BY <1>2, <3>1, <3>2
  <2>2. timers' \in [Workers -> 0 .. MaxRuns]
    BY <1>2, <2>1
  <2> QED BY <1>2, <1>4, <2>2 DEF TypeOK
<1>8. CreatedOnce'
  <2>1. \A v \in Workers, r \in Sessions : Pending(v, CreateTask(r))' = Pending(v, CreateTask(r))
    BY <1>4, TaskFacts, PendingFacts
  <2> QED BY <1>2, <2>1 DEF CreatedOnce
<1>9. Listed' /\ NoOrphan' /\ ClosedOnce'
  BY <1>2 DEF Listed, NoOrphan, ClosedOnce
<1>10. ReadOrRemoved'
  <2>1. ASSUME NEW v \in Workers, NEW r \in list'[v], reading'[r] = "none", ~halted'
        PROVE  Pending(v, RemoveTask(r))' > 0
    <3>1. /\ r \in Sessions /\ RemoveTask(r) \in Tasks /\ RemoveTask(r) # BeatTask
          /\ ~halted /\ r \in list[v] /\ reading[r] = "none"
      BY <1>2, <2>1, TaskFacts DEF TypeOK
    <3>2. Pending(v, RemoveTask(r)) > 0
      BY <3>1, PendingFacts DEF ReadOrRemoved
    <3> QED BY <1>4, <3>1, <3>2
  <2> QED BY <1>4, <2>1, StillReadOrRemoved
<1> QED BY <1>5, <1>6, <1>7, <1>8, <1>9, <1>10

\* The timer that has expired is replaced by a heartbeat.
LEMMA ExpireInv ==
  ASSUME Inv, NEW w \in Workers, Expire(w)
  PROVE  Inv'
<1> USE DEF Inv, owner, server, worker, session
<1>1. /\ UNCHANGED <<main, runs, returned, halted, closes, whalted, busy, list>>
      /\ UNCHANGED <<home, conn, peer, stale, reading, running>>
      /\ timers' = [timers EXCEPT ![w] = timers[w] - 1] /\ timers[w] > 0 /\ ~whalted[w]
      /\ timers \in [Workers -> 0 .. MaxRuns] /\ runs \in Nat /\ MaxRuns \in Nat
      /\ queue' = Post(queue, w, BeatTask)
  BY Bounds DEF Expire, TypeOK
<1>2. /\ queue' \in [Workers -> Seq(Tasks)]
      /\ \A v \in Workers : v # w => queue'[v] = queue[v]
      /\ \A v \in Workers, e \in Tasks : v # w => Pending(v, e)' = Pending(v, e)
      /\ \A e \in Tasks : Pending(w, e)' = Pending(w, e) + (IF BeatTask = e THEN 1 ELSE 0)
  BY <1>1, TaskFacts, Posted
<1>3. TypeOK'
  <2>1. timers' \in [Workers -> 0 .. MaxRuns]
    BY <1>1
  <2> QED BY <1>1, <1>2, <2>1 DEF TypeOK
<1>4. Halting'
  BY <1>1, <1>2 DEF Halting
<1>5. Beating'
  <2> SUFFICES ASSUME NEW v \in Workers PROVE timers'[v] + Pending(v, BeatTask)' <= runs
    BY <1>1 DEF Beating
  <2>1. /\ timers[v] + Pending(v, BeatTask) <= runs /\ timers[v] \in 0 .. MaxRuns
        /\ Pending(v, BeatTask) \in Nat
    BY <1>1, PendingFacts DEF Beating
  <2>2. CASE v = w
    <3>1. Pending(w, BeatTask)' = Pending(w, BeatTask) + 1 /\ timers'[w] = timers[w] - 1
      BY <1>1, <1>2, TaskFacts
    <3> QED BY <1>1, <2>1, <2>2, <3>1
  <2>3. CASE v # w
    BY <2>1, <2>3, <1>1, <1>2, TaskFacts
  <2> QED BY <2>2, <2>3
<1>6. \A v \in Workers, e \in Tasks : e # BeatTask => Pending(v, e)' = Pending(v, e)
  BY <1>2, PendingFacts
<1>7. CreatedOnce'
  BY <1>1, <1>6, TaskFacts DEF CreatedOnce
<1>8. Listed' /\ NoOrphan' /\ ClosedOnce'
  BY <1>1 DEF Listed, NoOrphan, ClosedOnce
<1>9. ReadOrRemoved'
  <2>1. ASSUME NEW v \in Workers, NEW r \in list'[v], reading'[r] = "none", ~halted'
        PROVE  Pending(v, RemoveTask(r))' > 0
    <3>1. /\ r \in Sessions /\ RemoveTask(r) \in Tasks /\ RemoveTask(r) # BeatTask
          /\ ~halted /\ r \in list[v] /\ reading[r] = "none"
      BY <1>1, <2>1, TaskFacts DEF TypeOK
    <3>2. Pending(v, RemoveTask(r)) > 0
      BY <3>1, PendingFacts DEF ReadOrRemoved
    <3> QED BY <1>6, <3>1, <3>2
  <2> QED BY <1>2, <2>1, StillReadOrRemoved
<1> QED BY <1>3, <1>4, <1>5, <1>7, <1>8, <1>9
-----------------------------------------------------------------------------
(* The network and the clock.                                              *)

\* The network and the clock end no read that the server must notice itself.
LEMMA NetworkInv ==
  ASSUME Inv, NEW s \in Sessions,
         PeerEnds(s) \/ Receive(s) \/ ReadFails(s) \/ Written(s) \/ Silence(s)
  PROVE  Inv'
<1> USE DEF Inv, owner, server, worker, session
<1>1. /\ ~halted
      /\ UNCHANGED <<main, runs, returned, halted, closes, whalted, queue, timers, busy, list, home, conn, running>>
      /\ reading \in [Sessions -> {"none", "armed", "ok", "error", "aborted"}]
  BY DEF PeerEnds, Receive, ReadFails, Written, Silence, TypeOK
<1>2. /\ peer' \in [Sessions -> {"up", "eof", "reset"}] /\ stale' \in [Sessions -> BOOLEAN]
      /\ reading' \in [Sessions -> {"none", "armed", "ok", "error", "aborted"}]
      /\ \A r \in Sessions : reading'[r] # reading[r] => reading[r] = "armed" /\ reading'[r] \in {"ok", "error"}
  <2>1. CASE PeerEnds(s) \/ Written(s) \/ Silence(s)
    <3>1. CASE PeerEnds(s)
      BY <3>1 DEF PeerEnds, TypeOK
    <3>2. CASE Written(s)
      BY <3>2 DEF Written, TypeOK
    <3>3. CASE Silence(s)
      BY <3>3 DEF Silence, TypeOK
    <3> QED BY <2>1, <3>1, <3>2, <3>3
  <2>2. CASE Receive(s) \/ ReadFails(s)
    BY <1>1, <2>2, ZenonT(40) DEF Receive, ReadFails, TypeOK
  <2> QED BY <2>1, <2>2
<1>3. TypeOK'
  BY <1>1, <1>2 DEF TypeOK
<1>4. Halting' /\ Beating' /\ CreatedOnce'
  BY <1>1 DEF Halting, Beating, CreatedOnce, Pending
<1>5. Listed'
  <2>1. ASSUME NEW r \in Sessions
        PROVE  /\ reading'[r] = "aborted" => conn[r] = "closed"
               /\ reading'[r] # "none" \/ conn[r] = "open" => home[r] \in Workers
    BY <1>2 DEF Listed
  <2> QED BY <1>1, <2>1 DEF Listed
<1>6. NoOrphan' /\ ClosedOnce'
  BY <1>1 DEF NoOrphan, ClosedOnce
<1>7. ReadOrRemoved'
  <2>1. \A r \in Sessions : reading'[r] = "none" => reading[r] = "none"
    BY <1>2
  <2> QED BY <1>1, <2>1 DEF ReadOrRemoved, TypeOK
<1> QED BY <1>3, <1>4, <1>5, <1>6, <1>7
-----------------------------------------------------------------------------
\* The invariant holds at first.
LEMMA InitInv ==
  ASSUME Init
  PROVE  Inv
<1> USE DEF Init
<1>1. TypeOK
  <2>1. main \in [at : {"idle", "up", "halt", "join"}, w : Workers] /\ runs \in 0 .. MaxRuns
    BY Bounds
  <2>2. closes \in Seq(Sessions) /\ queue \in [Workers -> Seq(Tasks)]
    BY EmptySeq
  <2>3. timers \in [Workers -> 0 .. MaxRuns] /\ home \in [Sessions -> 0 .. NumWorkers]
    <3>1. 0 \in 0 .. MaxRuns /\ 0 \in 0 .. NumWorkers
      BY Bounds
    <3> QED BY <3>1
  <2> QED BY <2>1, <2>2, <2>3 DEF TypeOK
<1>2. Halting /\ Listed /\ NoOrphan /\ ReadOrRemoved /\ ClosedOnce
  <2>1. ToSet(closes) = {} /\ \A s \in Sessions : conn[s] = "new" /\ reading[s] = "none"
    BY DEF ToSet
  <2>2. IsInjective(closes)
    BY DEF IsInjective
  <2> QED BY <2>1, <2>2 DEF Halting, Listed, NoOrphan, ReadOrRemoved, ClosedOnce
<1>3. ASSUME NEW w \in Workers, NEW e \in Tasks PROVE Pending(w, e) = 0
  BY CountEmpty, TaskFacts DEF Pending
<1>4. Beating /\ CreatedOnce
  BY <1>3, TaskFacts DEF Beating, CreatedOnce
<1> QED BY <1>1, <1>2, <1>4 DEF Inv

\* Every step preserves the invariant.
LEMMA StepInv ==
  ASSUME Inv, [Next]_vars
  PROVE  Inv'
<1>1. CASE UNCHANGED vars
  <2> USE <1>1 DEF vars, owner, server, worker, session, Inv
  <2>1. TypeOK' /\ Halting' /\ Beating' /\ CreatedOnce' /\ Listed'
    BY DEF TypeOK, Halting, Beating, CreatedOnce, Listed, Pending
  <2>2. NoOrphan' /\ ReadOrRemoved' /\ ClosedOnce'
    BY DEF NoOrphan, ReadOrRemoved, ClosedOnce
  <2> QED BY <2>1, <2>2
<1>2. CASE Owner
  BY <1>2, RunInv, StopInv, HaltWorkerInv, JoinWorkerInv DEF Owner
<1>3. CASE Close
  BY <1>3, CloseInv
<1>4. ASSUME NEW s \in Sessions, Accept(s) \/ ReadHandler(s) PROVE Inv'
  BY <1>4, AcceptInv, ReadHandlerInv
<1>5. ASSUME NEW w \in Workers, WorkerHandler(w) \/ Expire(w) PROVE Inv'
  BY <1>5, HeartbeatInv, CreateSessionInv, RemoveSessionInv, ExpireInv DEF WorkerHandler
<1>6. ASSUME NEW s \in Sessions,
             PeerEnds(s) \/ Receive(s) \/ ReadFails(s) \/ Written(s) \/ Silence(s)
      PROVE  Inv'
  BY <1>6, NetworkInv
<1> QED BY <1>1, <1>2, <1>3, <1>4, <1>5, <1>6 DEF Next

\* The invariant holds always.
LEMMA AlwaysInv == Spec => []Inv
  BY InitInv, StepInv, PTL DEF Spec

\* The state is of its type, whatever the number of sessions, workers, clients
\* and runs: each worker has at most one heartbeat for each call of Run
\* (server.cpp:102-136).
THEOREM TypeCorrect == Spec => []TypeOK
<1>1. Inv => TypeOK
  BY DEF Inv
<1> QED BY <1>1, AlwaysInv, PTL

\* A connection that is open is in the table of its worker or about to be
\* closed (server.cpp:84-100, 249-278, server.h:79-96).
THEOREM NoneOrphaned == Spec => []NoOrphan
<1>1. Inv => NoOrphan
  BY DEF Inv
<1> QED BY <1>1, AlwaysInv, PTL

\* A session of a table is being read or about to be removed: none stays in
\* its worker for good unless its peer does (server.h:79-104).
THEOREM NoneForgotten == Spec => []ReadOrRemoved
<1>1. Inv => ReadOrRemoved
  BY DEF Inv
<1> QED BY <1>1, AlwaysInv, PTL

\* A session is closed once, however often its removal is asked for: of the
\* removals that wait, one finds it in the table of its worker
\* (server.cpp:81-89, 123-136, server.h:83-93).
THEOREM RemovedOnce == Spec => []ClosedOnce
<1>1. Inv => ClosedOnce
  BY DEF Inv
<1> QED BY <1>1, AlwaysInv, PTL

\* Once Stop has returned no handler can run any more: every context is halted
\* and every thread that was in one has been waited for (server.cpp:102-114,
\* 235-247).
THEOREM NothingAfterStop == Spec => StillWhileStopped
<1> USE DEF owner, server, worker, session
<1>1. ASSUME Inv, [Next]_vars, returned PROVE UNCHANGED <<list, home, conn, reading>>
  <2>1. /\ halted /\ \A s \in Sessions : reading[s] = "none"
        /\ \A w \in Workers : whalted[w] /\ busy[w] = Idle /\ queue[w] = <<>>
    BY <1>1, Bounds DEF Inv, Halting
  <2>2. \A w \in Workers : InProgress(w) = Idle
    BY <2>1 DEF InProgress
  <2>3. CASE Run \/ HaltWorker \/ JoinWorker
    BY <2>3 DEF Run, HaltWorker, JoinWorker
  <2>4. CASE Stop
    <3>1. reading = [s \in Sessions |-> "none"]
      BY <1>1, <2>1 DEF Inv, TypeOK
    <3> QED BY <2>4, <3>1 DEF Stop
  <2>5. ~Close /\ \A s \in Sessions : ~Accept(s) /\ ~ReadHandler(s)
    BY <2>1 DEF Accept, ReadHandler, Close
  <2>6. ASSUME NEW s \in Sessions PROVE ~PeerEnds(s) /\ ~Receive(s) /\ ~ReadFails(s) /\ ~Written(s) /\ ~Silence(s)
    BY <2>1 DEF PeerEnds, Receive, ReadFails, Written, Silence
  <2>7. ASSUME NEW w \in Workers PROVE ~WorkerHandler(w) /\ ~Expire(w)
    <3>1. ASSUME NEW t \in Tasks, NEW more PROVE ~Takes(w, t, more)
      BY <2>2, TaskFacts DEF Takes
    <3>2. ~Heartbeat(w)
      BY <3>1, TaskFacts DEF Heartbeat
    <3>3. ASSUME NEW s \in Sessions PROVE ~CreateSession(w, s) /\ ~RemoveSession(w, s)
      BY <3>1, TaskFacts DEF CreateSession, RemoveSession
    <3> QED BY <2>1, <3>2, <3>3 DEF WorkerHandler, Expire
  <2>8. CASE UNCHANGED vars
    BY <2>8 DEF vars
  <2> QED BY <1>1, <2>3, <2>4, <2>5, <2>6, <2>7, <2>8 DEF Next, Owner
<1>2. Inv /\ [Next]_vars
        => [returned /\ main.at = "idle" => UNCHANGED <<list, home, conn, reading>>]_vars
  BY <1>1
<1>3. Init => Inv
  BY InitInv
<1>4. Inv /\ [Next]_vars => Inv'
  BY StepInv
<1> QED BY <1>2, <1>3, <1>4, PTL DEF Spec, StillWhileStopped
=============================================================================
