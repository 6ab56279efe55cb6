----------------------------- MODULE ClientProofs -----------------------------
(***************************************************************************)
(* The callbacks of a client (net/client.cpp), for every set of packets    *)
(* and every size of the pool: each callback is in one place, and it is    *)
(* stored before a reply can look for it.  The argument follows a message  *)
(* id round: Write, task_queue_, the server, the read and the pool; it is  *)
(* in one of these only, because an id is written and answered once.       *)
(***************************************************************************)
EXTENDS Client, FiniteSetTheorems, SequenceTheorems, TLAPS

\* The ids of a queue of packets, and that none is there twice.
IdsIn(q)    == {q[n].id : n \in DOMAIN q}
Distinct(q) == \A m, n \in DOMAIN q : q[m].id = q[n].id => m = n

\* The ids of the packets that a thread is looking at, and of those whose
\* callback a thread has called.
Looking == {t.packet.id : t \in {u \in working : ~u.calling}}
Calling == {t.packet.id : t \in {u \in working : u.calling}}

\* The parts of the type invariant that the rest needs.
Typed ==
  /\ io \in Seq(Ids) /\ inbox \in Seq(Replies) /\ pool \in Seq(Replies \cup {RunTask})
  /\ working \subseteq [packet : Replies, calling : BOOLEAN]
  /\ asked \subseteq written /\ written \subseteq Ids /\ sent \subseteq written
  /\ tasks \subseteq asked /\ replied \subseteq Ids \cup Strays

\* A packet is posted, then written, then sent, then answered.
InOrder ==
  /\ \A m, n \in DOMAIN io : io[m] = io[n] => m = n
  /\ ToSet(io) \subseteq written /\ writing \subseteq written
  /\ ToSet(io) \cap (writing \cup sent) = {}
  /\ replied \cap Ids \subseteq sent

\* A packet from the server is in one place, with its id to itself.
OneAnswer ==
  /\ Distinct(inbox) /\ Distinct(pool)
  /\ IdsIn(inbox) \cap IdsIn(pool) = {}
  /\ (IdsIn(inbox) \cup IdsIn(pool)) \cap (Looking \cup Calling) = {}
  /\ \A t, u \in working : t.packet.id = u.packet.id => t = u
  /\ (IdsIn(inbox) \cup IdsIn(pool) \cup Looking \cup Calling \cup called) \subseteq replied \cup {"run"}

\* The callback of each packet is in one of four places, and in task_queue_
\* if an answer is yet to be looked at.
OneCallback ==
  /\ asked \subseteq ToSet(io) \cup tasks \cup Calling \cup called
  /\ tasks \cap (ToSet(io) \cup Calling \cup called) = {}
  /\ Calling \cap (ToSet(io) \cup called) = {}
  /\ called \cap ToSet(io) = {}
  /\ (IdsIn(inbox) \cup IdsIn(pool) \cup Looking) \cap asked \subseteq tasks
  /\ missed = {}

\* The inductive invariant.
Tracked == Typed /\ InOrder /\ OneAnswer /\ OneCallback
-----------------------------------------------------------------------------
(* Queues.                                                                 *)

\* A packet at the end of a queue.
LEMMA IdsAppend ==
  ASSUME NEW S, NEW q \in Seq(S), NEW e \in S
  PROVE  /\ Append(q, e) \in Seq(S)
         /\ IdsIn(Append(q, e)) = IdsIn(q) \cup {e.id}
         /\ Distinct(q) /\ e.id \notin IdsIn(q) => Distinct(Append(q, e))
  BY AppendProperties DEF IdsIn, Distinct

\* The first packet of a queue leaves it.
LEMMA IdsTail ==
  ASSUME NEW S, NEW q \in Seq(S), q # <<>>, Distinct(q)
  PROVE  /\ Head(q) \in S /\ Tail(q) \in Seq(S)
         /\ IdsIn(q) = IdsIn(Tail(q)) \cup {Head(q).id}
         /\ Head(q).id \notin IdsIn(Tail(q)) /\ Distinct(Tail(q))
<1>1. /\ Head(q) = q[1] /\ Head(q) \in S /\ Tail(q) \in Seq(S)
      /\ Len(q) \in Nat \ {0} /\ Len(Tail(q)) = Len(q) - 1
      /\ \A n \in 1 .. Len(q) - 1 : Tail(q)[n] = q[n + 1]
      /\ DOMAIN q = 1 .. Len(q) /\ DOMAIN Tail(q) = 1 .. Len(q) - 1
  BY HeadTailProperties
<1>2. \A n \in DOMAIN q : n = 1 \/ (n - 1 \in DOMAIN Tail(q) /\ q[n] = Tail(q)[n - 1])
  BY <1>1
<1>3. \A n \in DOMAIN Tail(q) : n + 1 \in DOMAIN q /\ n + 1 # 1 /\ Tail(q)[n] = q[n + 1]
  BY <1>1
<1>4. 1 \in DOMAIN q
  BY <1>1
<1>5. IdsIn(q) = IdsIn(Tail(q)) \cup {Head(q).id}
  <2>1. ASSUME NEW n \in DOMAIN q PROVE q[n].id \in IdsIn(Tail(q)) \cup {Head(q).id}
    BY <1>1, <1>2 DEF IdsIn
  <2>2. ASSUME NEW n \in DOMAIN Tail(q) PROVE Tail(q)[n].id \in IdsIn(q)
    BY <1>3 DEF IdsIn
  <2>3. Head(q).id \in IdsIn(q)
    BY <1>1, <1>4 DEF IdsIn
  <2>4. IdsIn(q) \subseteq IdsIn(Tail(q)) \cup {Head(q).id}
    BY <2>1 DEF IdsIn
  <2>5. IdsIn(Tail(q)) \subseteq IdsIn(q)
    BY <2>2 DEF IdsIn
  <2> QED BY <2>3, <2>4, <2>5
<1>6. Head(q).id \notin IdsIn(Tail(q))
  BY <1>1, <1>3, <1>4 DEF IdsIn, Distinct
<1>7. Distinct(Tail(q))
  <2> SUFFICES ASSUME NEW m \in DOMAIN Tail(q), NEW n \in DOMAIN Tail(q), Tail(q)[m].id = Tail(q)[n].id
               PROVE  m = n
    BY DEF Distinct
  <2>1. m + 1 = n + 1
    BY <1>3 DEF Distinct
  <2> QED BY <2>1, <1>1
<1> QED BY <1>1, <1>5, <1>6, <1>7

\* A handler at the end of a queue.
LEMMA SetAppend ==
  ASSUME NEW S, NEW q \in Seq(S), NEW e \in S
  PROVE  /\ Append(q, e) \in Seq(S)
         /\ ToSet(Append(q, e)) = ToSet(q) \cup {e}
         /\ (\A m, n \in DOMAIN q : q[m] = q[n] => m = n) /\ e \notin ToSet(q)
              => \A m, n \in DOMAIN Append(q, e) : Append(q, e)[m] = Append(q, e)[n] => m = n
  BY AppendProperties DEF ToSet

\* The first handler of a queue leaves it.
LEMMA SetTail ==
  ASSUME NEW S, NEW q \in Seq(S), q # <<>>, \A m, n \in DOMAIN q : q[m] = q[n] => m = n
  PROVE  /\ Head(q) \in S /\ Tail(q) \in Seq(S)
         /\ ToSet(q) = ToSet(Tail(q)) \cup {Head(q)}
         /\ Head(q) \notin ToSet(Tail(q))
         /\ \A m, n \in DOMAIN Tail(q) : Tail(q)[m] = Tail(q)[n] => m = n
<1>1. /\ Head(q) = q[1] /\ Head(q) \in S /\ Tail(q) \in Seq(S)
      /\ Len(q) \in Nat \ {0} /\ Len(Tail(q)) = Len(q) - 1
      /\ \A n \in 1 .. Len(q) - 1 : Tail(q)[n] = q[n + 1]
      /\ DOMAIN q = 1 .. Len(q) /\ DOMAIN Tail(q) = 1 .. Len(q) - 1
  BY HeadTailProperties
<1>2. \A n \in DOMAIN q : n = 1 \/ (n - 1 \in DOMAIN Tail(q) /\ q[n] = Tail(q)[n - 1])
  BY <1>1
<1>3. \A n \in DOMAIN Tail(q) : n + 1 \in DOMAIN q /\ n + 1 # 1 /\ Tail(q)[n] = q[n + 1]
  BY <1>1
<1>4. 1 \in DOMAIN q
  BY <1>1
<1>5. ToSet(q) = ToSet(Tail(q)) \cup {Head(q)}
  <2>1. ASSUME NEW n \in DOMAIN q PROVE q[n] \in ToSet(Tail(q)) \cup {Head(q)}
    <3>1. CASE n = 1
      BY <1>1, <3>1
    <3>2. CASE n - 1 \in DOMAIN Tail(q) /\ q[n] = Tail(q)[n - 1]
      BY <3>2 DEF ToSet
    <3> QED BY <1>2, <3>1, <3>2
  <2>2. ASSUME NEW n \in DOMAIN Tail(q) PROVE Tail(q)[n] \in ToSet(q)
    BY <1>3 DEF ToSet
  <2>3. Head(q) \in ToSet(q)
    BY <1>1, <1>4 DEF ToSet
  <2>4. ToSet(q) \subseteq ToSet(Tail(q)) \cup {Head(q)}
    BY <2>1 DEF ToSet
  <2>5. ToSet(Tail(q)) \subseteq ToSet(q)
    BY <2>2 DEF ToSet
  <2> QED BY <2>3, <2>4, <2>5
<1>6. Head(q) \notin ToSet(Tail(q))
  BY <1>1, <1>3, <1>4 DEF ToSet
<1>7. ASSUME NEW m \in DOMAIN Tail(q), NEW n \in DOMAIN Tail(q), Tail(q)[m] = Tail(q)[n]
      PROVE  m = n
  <2>1. m + 1 = n + 1
    BY <1>3, <1>7
  <2> QED BY <2>1, <1>1
<1> QED BY <1>1, <1>5, <1>6, <1>7
-----------------------------------------------------------------------------
(* The steps.                                                              *)

\* At the start nothing was written.
LEMMA InitTracked == Init => Tracked
<1> SUFFICES ASSUME Init PROVE Tracked
  OBVIOUS
<1>1. /\ io = <<>> /\ inbox = <<>> /\ working = {} /\ writing = {} /\ tasks = {} /\ replied = {}
      /\ asked = {} /\ written = {} /\ sent = {} /\ called = {} /\ missed = {} /\ pool = <<RunTask>>
  BY DEF Init
<1>2. pool \in Seq(Replies \cup {RunTask}) /\ IdsIn(pool) = {"run"} /\ Distinct(pool)
  BY <1>1 DEF IdsIn, Distinct, RunTask
<1>3. IdsIn(inbox) = {} /\ Distinct(inbox) /\ ToSet(io) = {} /\ Looking = {} /\ Calling = {}
  BY <1>1 DEF IdsIn, Distinct, ToSet, Looking, Calling
<1>4. Typed
  BY <1>1, <1>2 DEF Typed
<1>5. InOrder
  BY <1>1, <1>3 DEF InOrder
<1>6. OneAnswer
  BY <1>1, <1>2, <1>3 DEF OneAnswer
<1>7. OneCallback
  BY <1>1, <1>3, <1>2 DEF OneCallback
<1> QED BY <1>4, <1>5, <1>6, <1>7 DEF Tracked

\* What the other steps leave alone, or take away where less is no harm.
LEMMA OtherSteps ==
  ASSUME Tracked, UNCHANGED <<io, tasks, pool, working, inbox, asked, written, sent, replied, called, missed>>,
         writing' \subseteq writing
  PROVE  Tracked'
<1>1. Typed'
  BY DEF Tracked, Typed
<1>2. InOrder'
  BY DEF Tracked, InOrder
<1>3. /\ IdsIn(inbox)' = IdsIn(inbox) /\ IdsIn(pool)' = IdsIn(pool)
      /\ Looking' = Looking /\ Calling' = Calling
      /\ Distinct(inbox)' = Distinct(inbox) /\ Distinct(pool)' = Distinct(pool)
  BY DEF IdsIn, Looking, Calling, Distinct
<1>4. OneAnswer'
  BY <1>3 DEF Tracked, OneAnswer
<1>5. OneCallback'
  BY <1>3 DEF Tracked, OneCallback
<1> QED BY <1>1, <1>2, <1>4, <1>5 DEF Tracked

\* Write posts a packet that is nowhere yet.
LEMMA WriteSteps ==
  ASSUME Tracked, NEW i \in Ids, NEW cb \in BOOLEAN, Write(i, cb)
  PROVE  Tracked'
<1>1. /\ i \notin written /\ written' = written \cup {i} /\ io' = Append(io, i)
      /\ asked' \subseteq asked \cup {i} /\ asked \subseteq asked'
      /\ UNCHANGED <<pool, working, writing, tasks, inbox, replied, sent, called, missed>>
  BY DEF Write, owner, threads, server
<1>2. /\ io' \in Seq(Ids) /\ ToSet(io') = ToSet(io) \cup {i}
      /\ \A m, n \in DOMAIN io' : io'[m] = io'[n] => m = n
  <2>1. i \notin ToSet(io)
    BY <1>1 DEF Tracked, InOrder
  <2> QED BY <1>1, <2>1, SetAppend DEF Tracked, Typed, InOrder
<1>3. Typed'
  BY <1>1, <1>2 DEF Tracked, Typed
<1>4. i \notin sent /\ i \notin writing /\ i \notin replied /\ i \notin tasks
  BY <1>1 DEF Tracked, Typed, InOrder
<1>5. InOrder'
  BY <1>1, <1>2, <1>4 DEF Tracked, InOrder
<1>6. /\ IdsIn(inbox)' = IdsIn(inbox) /\ IdsIn(pool)' = IdsIn(pool)
      /\ Looking' = Looking /\ Calling' = Calling
      /\ Distinct(inbox)' = Distinct(inbox) /\ Distinct(pool)' = Distinct(pool)
  BY <1>1 DEF IdsIn, Looking, Calling, Distinct
<1>7. OneAnswer'
  BY <1>1, <1>6 DEF Tracked, OneAnswer
<1>8. i # "run"
  BY ClientAssumption
<1>9. i \notin IdsIn(inbox) \cup IdsIn(pool) \cup Looking \cup Calling \cup called
  BY <1>4, <1>8 DEF Tracked, OneAnswer
<1>10. OneCallback'
  BY <1>1, <1>2, <1>4, <1>6, <1>9 DEF Tracked, OneCallback
<1> QED BY <1>3, <1>5, <1>7, <1>10 DEF Tracked

\* The handler of Write stores the callback and starts the write.
LEMMA RunWriteSteps ==
  ASSUME Tracked, RunWrite
  PROVE  Tracked'
<1> DEFINE h == Head(io)
<1>1. /\ io # <<>> /\ io' = Tail(io) /\ tasks' = tasks \cup ({h} \cap asked)
      /\ writing' = writing \cup {h}
      /\ UNCHANGED <<pool, working, inbox, replied, sent, asked, written, called, missed>>
  BY DEF RunWrite, threads, server, history
<1>2. /\ h \in Ids /\ io' \in Seq(Ids) /\ ToSet(io) = ToSet(io') \cup {h} /\ h \notin ToSet(io')
      /\ \A m, n \in DOMAIN io' : io'[m] = io'[n] => m = n
  BY <1>1, SetTail DEF Tracked, Typed, InOrder
<1> HIDE DEF h
<1>3. Typed'
  BY <1>1, <1>2 DEF Tracked, Typed
<1>4. InOrder'
  BY <1>1, <1>2 DEF Tracked, InOrder
<1>5. /\ IdsIn(inbox)' = IdsIn(inbox) /\ IdsIn(pool)' = IdsIn(pool)
      /\ Looking' = Looking /\ Calling' = Calling
      /\ Distinct(inbox)' = Distinct(inbox) /\ Distinct(pool)' = Distinct(pool)
  BY <1>1 DEF IdsIn, Looking, Calling, Distinct
<1>6. OneAnswer'
  BY <1>1, <1>5 DEF Tracked, OneAnswer
<1>7. OneCallback'
  BY <1>1, <1>2, <1>5 DEF Tracked, OneCallback
<1> QED BY <1>3, <1>4, <1>6, <1>7 DEF Tracked

\* A packet that was read goes to the pool.
LEMMA ReadHandlerSteps ==
  ASSUME Tracked, ReadHandler
  PROVE  Tracked'
<1> DEFINE h == Head(inbox)
<1>1. /\ inbox # <<>> /\ inbox' = Tail(inbox) /\ pool' = Append(pool, h)
      /\ UNCHANGED <<io, tasks, writing, working, replied, sent, asked, written, called, missed>>
  BY DEF ReadHandler, session, history
<1>2. /\ h \in Replies /\ inbox' \in Seq(Replies) /\ IdsIn(inbox) = IdsIn(inbox') \cup {h.id}
      /\ h.id \notin IdsIn(inbox') /\ Distinct(inbox')
  BY <1>1, IdsTail DEF Tracked, Typed, OneAnswer
<1> HIDE DEF h
<1>3. h.id \notin IdsIn(pool)
  BY <1>2 DEF Tracked, OneAnswer
<1>4. pool' \in Seq(Replies \cup {RunTask}) /\ IdsIn(pool') = IdsIn(pool) \cup {h.id} /\ Distinct(pool')
  BY <1>1, <1>2, <1>3, IdsAppend DEF Tracked, Typed, OneAnswer
<1>5. Typed'
  BY <1>1, <1>2, <1>4 DEF Tracked, Typed
<1>6. InOrder'
  BY <1>1 DEF Tracked, InOrder
<1>7. Looking' = Looking /\ Calling' = Calling
  BY <1>1 DEF Looking, Calling
<1>8. OneAnswer'
  BY <1>1, <1>2, <1>4, <1>7 DEF Tracked, OneAnswer
<1>9. OneCallback'
  BY <1>1, <1>2, <1>4, <1>7 DEF Tracked, OneCallback
<1> QED BY <1>5, <1>6, <1>8, <1>9 DEF Tracked

\* A thread takes a packet from the pool.
LEMMA TakeTaskSteps ==
  ASSUME Tracked, TakeTask
  PROVE  Tracked'
<1> DEFINE h == Head(pool)
           t == [packet |-> h, calling |-> FALSE]
<1>1. /\ pool # <<>> /\ pool' = Tail(pool)
      /\ UNCHANGED <<io, tasks, writing, inbox, replied, sent, asked, written, called, missed>>
      /\ \/ h = RunTask /\ working' = working
         \/ h # RunTask /\ working' = working \cup {t}
  BY DEF TakeTask, session, server, history
<1>2. /\ h \in Replies \cup {RunTask} /\ pool' \in Seq(Replies \cup {RunTask})
      /\ IdsIn(pool) = IdsIn(pool') \cup {h.id}
      /\ h.id \notin IdsIn(pool') /\ Distinct(pool')
  BY <1>1, IdsTail DEF Tracked, Typed, OneAnswer
<1>3. /\ t.packet = h /\ t.calling = FALSE
      /\ h # RunTask => t \in [packet : Replies, calling : BOOLEAN]
  BY <1>2
<1> HIDE DEF t, h
<1>4. Typed'
  BY <1>1, <1>2, <1>3 DEF Tracked, Typed
<1>5. InOrder'
  BY <1>1 DEF Tracked, InOrder
<1>6. Calling' = Calling /\ Looking' \subseteq Looking \cup {h.id}
  BY <1>1, <1>3 DEF Looking, Calling
<1>7. IdsIn(inbox)' = IdsIn(inbox) /\ Distinct(inbox)' = Distinct(inbox)
  BY <1>1 DEF IdsIn, Distinct
<1>8. h.id \notin Looking \cup Calling \cup IdsIn(inbox)
  BY <1>2 DEF Tracked, OneAnswer
<1>9. \A u, v \in working' : u.packet.id = v.packet.id => u = v
  <2>1. \A u \in working : u.packet.id \in Looking \cup Calling
    BY DEF Looking, Calling
  <2>2. \A u \in working : u.packet.id # t.packet.id
    BY <1>3, <1>8, <2>1
  <2> QED BY <1>1, <2>2 DEF Tracked, OneAnswer
<1>10. OneAnswer'
  BY <1>1, <1>2, <1>6, <1>7, <1>8, <1>9 DEF Tracked, OneAnswer
<1>11. OneCallback'
  BY <1>1, <1>2, <1>6, <1>7 DEF Tracked, OneCallback
<1> QED BY <1>4, <1>5, <1>10, <1>11 DEF Tracked

\* The id of one of the packets that threads are at, and the others.
LEMMA Others ==
  ASSUME Tracked, NEW t \in working, NEW W, W = working \ {t}
  PROVE  /\ \A u \in W : u.packet.id # t.packet.id
         /\ t.packet.id \in replied \cup {"run"}
         /\ t.packet.id \notin IdsIn(inbox) \cup IdsIn(pool)
  BY DEF Tracked, OneAnswer, Looking, Calling

\* A thread looks for the callback of a packet.
LEMMA FindCallbackSteps ==
  ASSUME Tracked, NEW t \in working, FindCallback(t)
  PROVE  Tracked'
<1> DEFINE i == t.packet.id
           W == working \ {t}
           c == [t EXCEPT !.calling = TRUE]
<1>1. /\ ~t.calling
      /\ UNCHANGED <<io, writing, pool, inbox, replied, sent, asked, written, called>>
  BY DEF FindCallback, server
<1>2. /\ \A u \in W : u.packet.id # i
      /\ i \in replied \cup {"run"} /\ i \notin IdsIn(inbox) \cup IdsIn(pool)
  BY Others
<1>3. t \in [packet : Replies, calling : BOOLEAN] /\ W \subseteq working
  BY DEF Tracked, Typed
<1>4. c \in [packet : Replies, calling : BOOLEAN] /\ c.packet = t.packet /\ c.calling = TRUE
  BY <1>3
<1>5. /\ IdsIn(inbox)' = IdsIn(inbox) /\ IdsIn(pool)' = IdsIn(pool)
      /\ Distinct(inbox)' = Distinct(inbox) /\ Distinct(pool)' = Distinct(pool)
  BY <1>1 DEF IdsIn, Distinct
<1>6. i \in Looking
  BY <1>1 DEF Looking
<1>7. InOrder'
  BY <1>1 DEF Tracked, InOrder
<1>8. CASE i \in tasks /\ tasks' = tasks \ {i} /\ working' = W \cup {c} /\ missed' = missed
  <2> HIDE DEF c
  <2>1. Typed'
    BY <1>1, <1>3, <1>4, <1>8 DEF Tracked, Typed
  <2>2. Calling' = Calling \cup {i} /\ Looking' \subseteq Looking \ {i}
    BY <1>1, <1>2, <1>4, <1>8 DEF Looking, Calling
  <2>3. \A u, v \in working' : u.packet.id = v.packet.id => u = v
    BY <1>2, <1>3, <1>4, <1>8 DEF Tracked, OneAnswer
  <2>4. OneAnswer'
    BY <1>1, <1>2, <1>5, <1>6, <2>2, <2>3 DEF Tracked, OneAnswer
  <2>5. OneCallback'
    BY <1>1, <1>2, <1>5, <1>8, <2>2 DEF Tracked, OneCallback
  <2> QED BY <1>7, <2>1, <2>4, <2>5 DEF Tracked
<1>9. CASE /\ ~(t.packet.ok /\ i \in tasks) /\ tasks' = tasks /\ working' = W
           /\ missed' = IF t.packet \in [id : asked, ok : {TRUE}] THEN missed \cup {i} ELSE missed
  <2>1. missed' = missed
    <3>1. t.packet \in [id : asked, ok : {TRUE}] => i \in asked /\ t.packet.ok
      OBVIOUS
    <3>2. i \in asked => i \in tasks
      BY <1>6 DEF Tracked, OneCallback
    <3> QED BY <1>9, <3>1, <3>2
  <2>2. Typed'
    BY <1>1, <1>3, <1>9 DEF Tracked, Typed
  <2>3. Calling' = Calling /\ Looking' \subseteq Looking
    BY <1>1, <1>3, <1>9 DEF Looking, Calling
  <2>4. \A u, v \in working' : u.packet.id = v.packet.id => u = v
    BY <1>3, <1>9 DEF Tracked, OneAnswer
  <2>5. OneAnswer'
    BY <1>1, <1>5, <2>3, <2>4 DEF Tracked, OneAnswer
  <2>6. OneCallback'
    BY <1>1, <1>5, <1>9, <2>1, <2>3 DEF Tracked, OneCallback
  <2> QED BY <1>7, <2>2, <2>5, <2>6 DEF Tracked
<1> QED BY <1>8, <1>9 DEF FindCallback

\* A callback is done.
LEMMA CallbackReturnsSteps ==
  ASSUME Tracked, NEW t \in working, CallbackReturns(t)
  PROVE  Tracked'
<1> DEFINE i == t.packet.id
           W == working \ {t}
<1>1. /\ t.calling /\ working' = W /\ called' = called \cup {i}
      /\ UNCHANGED <<io, writing, tasks, pool, inbox, replied, sent, asked, written, missed>>
  BY DEF CallbackReturns, session, server
<1>2. /\ \A u \in W : u.packet.id # i
      /\ i \in replied \cup {"run"} /\ i \notin IdsIn(inbox) \cup IdsIn(pool)
  BY Others
<1>3. /\ IdsIn(inbox)' = IdsIn(inbox) /\ IdsIn(pool)' = IdsIn(pool)
      /\ Distinct(inbox)' = Distinct(inbox) /\ Distinct(pool)' = Distinct(pool)
  BY <1>1 DEF IdsIn, Distinct
<1>4. Typed'
  BY <1>1 DEF Tracked, Typed
<1>5. InOrder'
  BY <1>1 DEF Tracked, InOrder
<1>6. Calling = Calling' \cup {i} /\ i \notin Calling' /\ Looking' = Looking
  BY <1>1, <1>2 DEF Looking, Calling
<1>7. \A u, v \in working' : u.packet.id = v.packet.id => u = v
  BY <1>1 DEF Tracked, OneAnswer
<1>8. OneAnswer'
  BY <1>1, <1>2, <1>3, <1>6, <1>7 DEF Tracked, OneAnswer
<1>9. OneCallback'
  BY <1>1, <1>3, <1>6 DEF Tracked, OneCallback
<1> QED BY <1>4, <1>5, <1>8, <1>9 DEF Tracked

\* A packet goes out.
LEMMA PacketSentSteps ==
  ASSUME Tracked, NEW i \in Ids, PacketSent(i)
  PROVE  Tracked'
<1>1. /\ i \in writing /\ sent' = sent \cup {i}
      /\ UNCHANGED <<io, writing, tasks, pool, working, inbox, replied, asked, written, called, missed>>
  BY DEF PacketSent, session, server, threads
<1>2. Typed'
  BY <1>1 DEF Tracked, Typed, InOrder
<1>3. InOrder'
  BY <1>1 DEF Tracked, InOrder
<1>4. /\ IdsIn(inbox)' = IdsIn(inbox) /\ IdsIn(pool)' = IdsIn(pool)
      /\ Looking' = Looking /\ Calling' = Calling
      /\ Distinct(inbox)' = Distinct(inbox) /\ Distinct(pool)' = Distinct(pool)
  BY <1>1 DEF IdsIn, Looking, Calling, Distinct
<1>5. OneAnswer'
  BY <1>1, <1>4 DEF Tracked, OneAnswer
<1>6. OneCallback'
  BY <1>1, <1>4 DEF Tracked, OneCallback
<1> QED BY <1>2, <1>3, <1>5, <1>6 DEF Tracked

\* The server answers a packet that has gone out, once.
LEMMA ServerSendsSteps ==
  ASSUME Tracked, NEW i \in Ids \cup Strays, NEW ok \in BOOLEAN, ServerSends(i, ok)
  PROVE  Tracked'
<1> DEFINE e == [id |-> i, ok |-> ok]
<1>1. /\ i \in sent \cup Strays /\ i \notin replied /\ replied' = replied \cup {i}
      /\ inbox' = Append(inbox, e)
      /\ UNCHANGED <<io, writing, tasks, pool, working, asked, written, sent, called, missed>>
  BY DEF ServerSends, session, threads
<1>2. e \in Replies /\ e.id = i
  BY DEF Replies
<1> HIDE DEF e
<1>3. i # "run"
  BY ClientAssumption
<1>4. i \notin IdsIn(inbox) \cup IdsIn(pool) \cup Looking \cup Calling \cup called
  BY <1>1, <1>3 DEF Tracked, OneAnswer
<1>5. inbox' \in Seq(Replies) /\ IdsIn(inbox') = IdsIn(inbox) \cup {i} /\ Distinct(inbox')
  BY <1>1, <1>2, <1>4, IdsAppend DEF Tracked, Typed, OneAnswer
<1>6. Typed'
  BY <1>1, <1>5 DEF Tracked, Typed
<1>7. InOrder'
  BY <1>1, ClientAssumption DEF Tracked, InOrder
<1>8. /\ IdsIn(pool)' = IdsIn(pool) /\ Looking' = Looking /\ Calling' = Calling
      /\ Distinct(pool)' = Distinct(pool)
  BY <1>1 DEF IdsIn, Looking, Calling, Distinct
<1>9. OneAnswer'
  BY <1>1, <1>4, <1>5, <1>8 DEF Tracked, OneAnswer
<1>10. i \in asked => i \in tasks
  <2>1. i \in asked => i \in sent
    BY <1>1, ClientAssumption DEF Tracked, Typed
  <2>2. i \in sent => i \notin ToSet(io)
    BY DEF Tracked, InOrder
  <2> QED BY <1>4, <2>1, <2>2 DEF Tracked, OneCallback
<1>11. OneCallback'
  BY <1>1, <1>5, <1>8, <1>10 DEF Tracked, OneCallback
<1> QED BY <1>6, <1>7, <1>9, <1>11 DEF Tracked

\* Every step keeps the invariant.
LEMMA NextTracked == Tracked /\ [Next]_vars => Tracked'
<1> SUFFICES ASSUME Tracked, [Next]_vars PROVE Tracked'
  OBVIOUS
<1> USE DEF owner, threads, session, server, history
<1>1. CASE Connect
  BY <1>1, OtherSteps DEF Connect
<1>2. CASE ConnectFails
  BY <1>2, OtherSteps DEF ConnectFails
<1>3. CASE Stop
  BY <1>3, OtherSteps DEF Stop
<1>4. CASE Join
  BY <1>4, OtherSteps DEF Join
<1>5. ASSUME NEW i \in Ids, NEW cb \in BOOLEAN, Write(i, cb) PROVE Tracked'
  BY <1>5, WriteSteps
<1>6. CASE RunWrite
  BY <1>6, RunWriteSteps
<1>7. CASE ReadHandler
  BY <1>7, ReadHandlerSteps
<1>8. CASE ReadFails
  BY <1>8, OtherSteps DEF ReadFails
<1>9. CASE RunReturns
  BY <1>9, OtherSteps DEF RunReturns
<1>10. CASE TakeTask
  BY <1>10, TakeTaskSteps
<1>11. ASSUME NEW t \in working, FindCallback(t) PROVE Tracked'
  BY <1>11, FindCallbackSteps
<1>12. ASSUME NEW t \in working, CallbackReturns(t) PROVE Tracked'
  BY <1>12, CallbackReturnsSteps
<1>13. ASSUME NEW i \in Ids, PacketSent(i) PROVE Tracked'
  BY <1>13, PacketSentSteps
<1>14. ASSUME NEW i \in Ids, WriteEnds(i) PROVE Tracked'
  BY <1>14, OtherSteps DEF WriteEnds
<1>15. ASSUME NEW i \in Ids \cup Strays, NEW ok \in BOOLEAN, ServerSends(i, ok) PROVE Tracked'
  BY <1>15, ServerSendsSteps
<1>16. CASE ServerCloses
  BY <1>16, OtherSteps DEF ServerCloses
<1>17. CASE UNCHANGED vars
  BY <1>17, OtherSteps DEF vars
<1> QED
  BY <1>1, <1>2, <1>3, <1>4, <1>5, <1>6, <1>7, <1>8, <1>9, <1>10, <1>11, <1>12, <1>13, <1>14,
     <1>15, <1>16, <1>17 DEF Next

\* The invariant holds always.
LEMMA AlwaysTracked == Spec => []Tracked
  BY InitTracked, NextTracked, PTL DEF Spec
-----------------------------------------------------------------------------
\* Theorem: no readable reply to a packet that was written with a callback
\* finds none in task_queue_ (client.cpp:47-54, 106-113).
THEOREM CallbackBeforeReply == Spec => []RepliesFindCallbacks
<1>1. Tracked => RepliesFindCallbacks
  BY DEF Tracked, OneCallback, RepliesFindCallbacks
<1> QED BY <1>1, AlwaysTracked, PTL

\* Theorem: a callback is posted, in task_queue_, being called or done, and
\* never in two of these (client.cpp:47-49, 106-113).
THEOREM CallbackInOnePlace == Spec => []InOnePlace
<1>1. ASSUME Tracked PROVE InOnePlace
  <2> DEFINE places == <<ToSet(io), tasks, {t.packet.id : t \in {u \in working : u.calling}}, called>>
  <2> SUFFICES ASSUME NEW i \in asked PROVE Cardinality({p \in 1 .. 4 : i \in places[p]}) = 1
    BY DEF InOnePlace
  <2>1. places = <<ToSet(io), tasks, Calling, called>>
    BY DEF Calling
  <2>2. /\ places[1] = ToSet(io) /\ places[2] = tasks /\ places[3] = Calling /\ places[4] = called
    BY <2>1
  <2> HIDE DEF places
  <2>3. \A p \in 1 .. 4 : p = 1 \/ p = 2 \/ p = 3 \/ p = 4
    OBVIOUS
  <2>4. \E p \in 1 .. 4 : {q \in 1 .. 4 : i \in places[q]} = {p}
    <3>1. i \in ToSet(io) \/ i \in tasks \/ i \in Calling \/ i \in called
      BY <1>1 DEF Tracked, OneCallback
    <3>2. /\ tasks \cap (ToSet(io) \cup Calling \cup called) = {}
          /\ Calling \cap (ToSet(io) \cup called) = {} /\ called \cap ToSet(io) = {}
      BY <1>1 DEF Tracked, OneCallback
    <3>3. CASE i \in ToSet(io)
      <4>1. {q \in 1 .. 4 : i \in places[q]} = {1}
        BY <2>2, <2>3, <3>2, <3>3
      <4> QED BY <4>1
    <3>4. CASE i \in tasks
      <4>1. {q \in 1 .. 4 : i \in places[q]} = {2}
        BY <2>2, <2>3, <3>2, <3>4
      <4> QED BY <4>1
    <3>5. CASE i \in Calling
      <4>1. {q \in 1 .. 4 : i \in places[q]} = {3}
        BY <2>2, <2>3, <3>2, <3>5
      <4> QED BY <4>1
    <3>6. CASE i \in called
      <4>1. {q \in 1 .. 4 : i \in places[q]} = {4}
        BY <2>2, <2>3, <3>2, <3>6
      <4> QED BY <4>1
    <3> QED BY <3>1, <3>3, <3>4, <3>5, <3>6
  <2> QED BY <2>4, FS_Singleton
<1> QED BY <1>1, AlwaysTracked, PTL
-----------------------------------------------------------------------------
(* The shutdown.                                                           *)

\* How far the threads have come: io_.run() returns only without the guard and
\* without work, its task is taken once, and main joins after it.
Winding ==
  /\ main \in {"new", "up", "stop", "joined", "failed"} /\ guard \in BOOLEAN
  /\ run \in {"posted", "running", "over"} /\ reading \in BOOLEAN /\ open \in BOOLEAN
  /\ main \in {"new", "up"} => guard
  /\ run = "over" => ~guard /\ io = <<>> /\ writing = {}
  /\ run # "posted" => "run" \notin IdsIn(pool)
  /\ main = "joined" => run = "over"

\* The threads of the pool that are at work.
Manned == IsFiniteSet(working) /\ Occupied <= Threads

\* A packet of Write is posted, being written, out, or lost.
Traced ==
  /\ written \subseteq ToSet(io) \cup writing \cup sent \cup lost
  /\ lost \subseteq written /\ lost \cap (ToSet(io) \cup writing \cup sent) = {}
  /\ Calling \cup called \subseteq asked /\ answered \subseteq replied

Inv == Tracked /\ Winding /\ Manned /\ Traced

\* At the start the task that runs io_ waits, and nothing else.
LEMMA InitWinding == Init => Winding /\ Manned /\ Traced
<1> SUFFICES ASSUME Init PROVE Winding /\ Manned /\ Traced
  OBVIOUS
<1>1. Winding
  BY DEF Init, Winding
<1>2. Manned
  <2>1. IsFiniteSet(working) /\ Cardinality(working) = 0 /\ run = "posted"
    BY FS_EmptySet DEF Init
  <2> QED BY <2>1, ClientAssumption DEF Manned, Occupied
<1>3. Traced
  <2>1. Calling = {} /\ ToSet(io) = {}
    BY DEF Init, Calling, ToSet
  <2> QED BY <2>1 DEF Init, Traced
<1> QED BY <1>1, <1>2, <1>3

\* Every step keeps the order of the shutdown.
LEMMA WindingStep ==
  ASSUME Tracked, Winding, [Next]_vars
  PROVE  Winding'
<1> USE DEF owner, threads, session, server, history
<1>1. CASE Connect
  BY <1>1 DEF Connect, Winding
<1>2. CASE ConnectFails
  BY <1>2 DEF ConnectFails, Winding
<1>3. CASE Stop
  BY <1>3 DEF Stop, Winding
<1>4. CASE Join
  BY <1>4 DEF Join, Winding
<1>5. ASSUME NEW i \in Ids, NEW cb \in BOOLEAN, Write(i, cb) PROVE Winding'
  <2>1. guard /\ run # "over"
    BY <1>5 DEF Write, Winding
  <2> QED BY <1>5, <2>1 DEF Write, Winding
<1>6. CASE RunWrite
  <2>1. run = "running"
    BY <1>6 DEF RunWrite, IoRuns
  <2> QED BY <1>6, <2>1 DEF RunWrite, Winding
<1>7. CASE ReadHandler
  <2> DEFINE h == Head(inbox)
  <2>1. /\ run = "running" /\ inbox # <<>> /\ pool' = Append(pool, h)
        /\ UNCHANGED <<main, guard, run, io, writing, reading, open>>
    BY <1>7 DEF ReadHandler, IoRuns
  <2>2. h \in Replies
    BY <2>1, IdsTail DEF Tracked, Typed, OneAnswer
  <2>3. h.id # "run" /\ h \in Replies \cup {RunTask}
    BY <2>2, ClientAssumption DEF Replies
  <2> HIDE DEF h
  <2>4. IdsIn(pool') = IdsIn(pool) \cup {h.id}
    BY <2>1, <2>3, IdsAppend DEF Tracked, Typed
  <2>5. "run" \notin IdsIn(pool')
    BY <2>1, <2>3, <2>4 DEF Winding
  <2>6. /\ main' = main /\ guard' = guard /\ run' = run /\ io' = io /\ writing' = writing
        /\ reading' = reading /\ open' = open
    BY <2>1
  <2> QED BY <2>5, <2>6 DEF Winding
<1>8. CASE ReadFails
  BY <1>8 DEF ReadFails, Winding
<1>9. CASE RunReturns
  BY <1>9 DEF RunReturns, Outstanding, IoRuns, Winding
<1>10. CASE TakeTask
  <2> DEFINE h == Head(pool)
  <2>1. /\ pool # <<>> /\ pool' = Tail(pool)
        /\ UNCHANGED <<main, guard, io, writing, reading, open>>
        /\ \/ h = RunTask /\ run' = "running"
           \/ h # RunTask /\ run' = run
    BY <1>10 DEF TakeTask
  <2>2. IdsIn(pool) = IdsIn(pool') \cup {h.id} /\ h.id \notin IdsIn(pool')
    BY <2>1, IdsTail DEF Tracked, Typed, OneAnswer
  <2> HIDE DEF h
  <2>3. CASE h = RunTask /\ run' = "running"
    <3>1. h.id = "run"
      BY <2>3 DEF RunTask
    <3>2. run = "posted" /\ "run" \notin IdsIn(pool')
      BY <2>2, <3>1 DEF Winding
    <3> QED BY <2>1, <2>3, <3>2 DEF Winding
  <2>4. CASE h # RunTask /\ run' = run
    BY <2>1, <2>2, <2>4 DEF Winding
  <2> QED BY <2>1, <2>3, <2>4
<1>11. ASSUME NEW t \in working, FindCallback(t) PROVE Winding'
  BY <1>11 DEF FindCallback, Winding
<1>12. ASSUME NEW t \in working, CallbackReturns(t) PROVE Winding'
  BY <1>12 DEF CallbackReturns, Winding
<1>13. ASSUME NEW i \in Ids, PacketSent(i) PROVE Winding'
  BY <1>13 DEF PacketSent, Winding
<1>14. ASSUME NEW i \in Ids, WriteEnds(i) PROVE Winding'
  BY <1>14 DEF WriteEnds, IoRuns, Winding
<1>15. ASSUME NEW i \in Ids \cup Strays, NEW ok \in BOOLEAN, ServerSends(i, ok) PROVE Winding'
  BY <1>15 DEF ServerSends, Winding
<1>16. CASE ServerCloses
  BY <1>16 DEF ServerCloses, Winding
<1>17. CASE UNCHANGED vars
  BY <1>17 DEF vars, Winding
<1> QED
  BY <1>1, <1>2, <1>3, <1>4, <1>5, <1>6, <1>7, <1>8, <1>9, <1>10, <1>11, <1>12, <1>13, <1>14,
     <1>15, <1>16, <1>17 DEF Next

\* A task leaves a thread, or goes on to its callback.
LEMMA TaskMoves ==
  ASSUME Manned, NEW t \in working, NEW c, run' = run,
         working' = working \ {t} \/ working' = (working \ {t}) \cup {c}
  PROVE  Manned'
<1>1. /\ IsFiniteSet(working \ {t}) /\ Cardinality(working) \in Nat
      /\ Cardinality(working \ {t}) = Cardinality(working) - 1
  BY FS_RemoveElement, FS_CardinalityType DEF Manned
<1> DEFINE W == working \ {t}
           n == Cardinality(working)
<1>2. IsFiniteSet(W) /\ Cardinality(W) = n - 1 /\ n \in Nat /\ Cardinality(W) \in Nat
  BY <1>1, FS_CardinalityType
<1> HIDE DEF W, n
<1>3. /\ IsFiniteSet(W \cup {c}) /\ Cardinality(W \cup {c}) \in Nat
      /\ Cardinality(W \cup {c}) = Cardinality(W) \/ Cardinality(W \cup {c}) = Cardinality(W) + 1
  BY <1>2, FS_AddElement, FS_CardinalityType
<1>4. IsFiniteSet(working') /\ Cardinality(working') \in Nat /\ Cardinality(working') <= Cardinality(working)
  <2>1. CASE working' = W
    BY <1>2, <2>1 DEF n
  <2>2. CASE working' = W \cup {c}
    <3>1. IsFiniteSet(working') /\ Cardinality(working') \in Nat /\ Cardinality(working') <= n
      BY <1>2, <1>3, <2>2
    <3> QED BY <3>1 DEF n
  <2> QED BY <2>1, <2>2 DEF W
<1>5. Occupied' <= Occupied /\ Occupied \in Nat /\ Occupied' \in Nat
  BY <1>1, <1>4 DEF Occupied
<1> QED BY <1>4, <1>5, ClientAssumption DEF Manned

\* A thread that is free takes a task.
LEMMA TaskTaken ==
  ASSUME Manned, TakeTask
  PROVE  Manned'
<1>1. Cardinality(working) \in Nat /\ IsFiniteSet(working) /\ Occupied \in Nat /\ Occupied + 1 <= Threads
  <2>1. Cardinality(working) \in Nat /\ IsFiniteSet(working) /\ Occupied < Threads
    BY FS_CardinalityType DEF Manned, TakeTask
  <2>2. Occupied \in Nat
    BY <2>1 DEF Occupied
  <2> QED BY <2>1, <2>2, ClientAssumption
<1> DEFINE t == [packet |-> Head(pool), calling |-> FALSE]
<1>2. \/ run' = "running" /\ working' = working
      \/ run' = run /\ working' = working \cup {t}
  BY DEF TakeTask
<1> HIDE DEF t
<1>3. /\ IsFiniteSet(working \cup {t}) /\ Cardinality(working \cup {t}) \in Nat
      /\ Cardinality(working \cup {t}) <= Cardinality(working) + 1
  BY <1>1, FS_AddElement, FS_CardinalityType
<1>4. IsFiniteSet(working') /\ Occupied' <= Occupied + 1 /\ Occupied' \in Nat
  <2>1. CASE run' = "running" /\ working' = working
    BY <1>1, <2>1 DEF Occupied
  <2>2. CASE run' = run /\ working' = working \cup {t}
    BY <1>1, <1>3, <2>2 DEF Occupied
  <2> QED BY <1>2, <2>1, <2>2
<1> QED BY <1>1, <1>4, ClientAssumption DEF Manned

\* Every step keeps the pool within its threads.
LEMMA MannedStep ==
  ASSUME Manned, [Next]_vars
  PROVE  Manned'
<1> USE DEF owner, threads, session, server, history
<1>1. CASE TakeTask
  BY <1>1, TaskTaken
<1>2. ASSUME NEW t \in working, FindCallback(t) PROVE Manned'
  <2> DEFINE c == [t EXCEPT !.calling = TRUE]
  <2>1. run' = run /\ (working' = working \ {t} \/ working' = (working \ {t}) \cup {c})
    BY <1>2 DEF FindCallback
  <2> HIDE DEF c
  <2> QED BY <2>1, TaskMoves
<1>3. ASSUME NEW t \in working, CallbackReturns(t) PROVE Manned'
  <2>1. run' = run /\ working' = working \ {t}
    BY <1>3 DEF CallbackReturns
  <2> QED BY <2>1, TaskMoves
<1>4. CASE RunReturns
  <2>1. run' = "over" /\ working' = working /\ run = "running"
    BY <1>4 DEF RunReturns, IoRuns
  <2>2. Cardinality(working) \in Nat
    BY FS_CardinalityType DEF Manned
  <2> QED BY <2>1, <2>2, ClientAssumption DEF Manned, Occupied
<1>5. ASSUME run' = run, working' = working PROVE Manned'
  BY <1>5 DEF Manned, Occupied
<1>6. CASE Connect \/ ConnectFails \/ Stop \/ Join
  BY <1>5, <1>6 DEF Connect, ConnectFails, Stop, Join
<1>7. ASSUME NEW i \in Ids, NEW cb \in BOOLEAN, Write(i, cb) PROVE Manned'
  BY <1>5, <1>7 DEF Write
<1>8. CASE RunWrite \/ ReadHandler \/ ReadFails
  BY <1>5, <1>8 DEF RunWrite, ReadHandler, ReadFails
<1>9. ASSUME NEW i \in Ids, PacketSent(i) \/ WriteEnds(i) PROVE Manned'
  BY <1>5, <1>9 DEF PacketSent, WriteEnds
<1>10. ASSUME NEW i \in Ids \cup Strays, NEW ok \in BOOLEAN, ServerSends(i, ok) PROVE Manned'
  BY <1>5, <1>10 DEF ServerSends
<1>11. CASE ServerCloses
  BY <1>5, <1>11 DEF ServerCloses
<1>12. CASE UNCHANGED vars
  BY <1>5, <1>12 DEF vars
<1> QED BY <1>1, <1>2, <1>3, <1>4, <1>6, <1>7, <1>8, <1>9, <1>10, <1>11, <1>12 DEF Next

\* Every step keeps track of the packets that were written.
LEMMA TracedStep ==
  ASSUME Tracked, Traced, [Next]_vars
  PROVE  Traced'
<1> USE DEF owner, threads, session, server, history
<1>1. ASSUME UNCHANGED <<written, io, writing, sent, lost, working, called, asked, answered, replied>>
      PROVE  Traced'
  <2>1. Calling' = Calling
    BY <1>1 DEF Calling
  <2> QED BY <1>1, <2>1 DEF Traced
<1>2. CASE Connect \/ ConnectFails \/ Stop \/ Join
  BY <1>1, <1>2 DEF Connect, ConnectFails, Stop, Join
<1>3. ASSUME NEW i \in Ids, NEW cb \in BOOLEAN, Write(i, cb) PROVE Traced'
  <2>1. /\ i \notin written /\ written' = written \cup {i} /\ io' = Append(io, i)
        /\ asked \subseteq asked'
        /\ UNCHANGED <<writing, sent, lost, working, called, answered, replied>>
    BY <1>3 DEF Write
  <2>2. ToSet(io') = ToSet(io) \cup {i}
    BY <2>1, SetAppend DEF Tracked, Typed
  <2>3. Calling' = Calling
    BY <2>1 DEF Calling
  <2> QED BY <2>1, <2>2, <2>3 DEF Traced
<1>4. CASE RunWrite
  <2> DEFINE h == Head(io)
  <2>1. /\ io # <<>> /\ io' = Tail(io) /\ writing' = writing \cup {h}
        /\ UNCHANGED <<written, sent, lost, working, called, asked, answered, replied>>
    BY <1>4 DEF RunWrite
  <2>2. ToSet(io) = ToSet(io') \cup {h}
    BY <2>1, SetTail DEF Tracked, Typed, InOrder
  <2> HIDE DEF h
  <2>3. Calling' = Calling
    BY <2>1 DEF Calling
  <2>4. ToSet(io') \cup writing' = ToSet(io) \cup writing
    BY <2>1, <2>2
  <2> QED BY <2>1, <2>3, <2>4 DEF Traced
<1>5. CASE ReadHandler \/ ReadFails \/ RunReturns
  BY <1>1, <1>5 DEF ReadHandler, ReadFails, RunReturns
<1>6. CASE TakeTask
  <2> DEFINE t == [packet |-> Head(pool), calling |-> FALSE]
  <2>1. /\ working' = working \/ working' = working \cup {t}
        /\ UNCHANGED <<written, io, writing, sent, lost, called, asked, answered, replied>>
    BY <1>6 DEF TakeTask
  <2>2. Calling' = Calling
    BY <2>1 DEF Calling
  <2> HIDE DEF t
  <2> QED BY <2>1, <2>2 DEF Traced
<1>7. ASSUME NEW t \in working, FindCallback(t) PROVE Traced'
  <2> DEFINE c == [t EXCEPT !.calling = TRUE]
  <2>1. /\ \/ t.packet.id \in tasks /\ working' = (working \ {t}) \cup {c}
           \/ working' = working \ {t}
        /\ UNCHANGED <<written, io, writing, sent, lost, called, asked, answered, replied>>
    BY <1>7 DEF FindCallback
  <2>2. c.packet = t.packet
    BY DEF Tracked, Typed
  <2> HIDE DEF c
  <2>3. Calling' \subseteq asked
    <3>1. t.packet.id \in tasks => t.packet.id \in asked
      BY DEF Tracked, Typed
    <3> QED BY <2>1, <2>2, <3>1 DEF Traced, Calling
  <2> QED BY <2>1, <2>3 DEF Traced
<1>8. ASSUME NEW t \in working, CallbackReturns(t) PROVE Traced'
  <2>1. /\ t.calling /\ working' = working \ {t} /\ called' = called \cup {t.packet.id}
        /\ UNCHANGED <<written, io, writing, sent, lost, asked, answered, replied>>
    BY <1>8 DEF CallbackReturns
  <2>2. Calling' \subseteq Calling /\ t.packet.id \in Calling
    BY <2>1 DEF Calling
  <2> QED BY <2>1, <2>2 DEF Traced
<1>9. ASSUME NEW i \in Ids, PacketSent(i) PROVE Traced'
  <2>1. /\ i \in writing /\ sent' = sent \cup {i}
        /\ UNCHANGED <<written, io, writing, lost, working, called, asked, answered, replied>>
    BY <1>9 DEF PacketSent
  <2>2. Calling' = Calling
    BY <2>1 DEF Calling
  <2> QED BY <2>1, <2>2 DEF Traced
<1>10. ASSUME NEW i \in Ids, WriteEnds(i) PROVE Traced'
  <2>1. /\ i \in writing /\ writing' = writing \ {i} /\ lost' = lost \cup ({i} \ sent)
        /\ UNCHANGED <<written, io, sent, working, called, asked, answered, replied>>
    BY <1>10 DEF WriteEnds
  <2>2. Calling' = Calling
    BY <2>1 DEF Calling
  <2>3. i \in written /\ i \notin ToSet(io)
    BY <2>1 DEF Tracked, InOrder
  <2>4. ToSet(io') = ToSet(io)
    BY <2>1
  <2>5. written' \subseteq ToSet(io') \cup writing' \cup sent' \cup lost'
    BY <2>1, <2>4 DEF Traced
  <2>6. lost' \subseteq written' /\ lost' \cap (ToSet(io') \cup writing' \cup sent') = {}
    BY <2>1, <2>3, <2>4 DEF Traced
  <2> QED BY <2>1, <2>2, <2>5, <2>6 DEF Traced
<1>11. ASSUME NEW i \in Ids \cup Strays, NEW ok \in BOOLEAN, ServerSends(i, ok) PROVE Traced'
  <2>1. /\ replied' = replied \cup {i} /\ answered' \subseteq answered \cup {i}
        /\ UNCHANGED <<written, io, writing, sent, lost, working, called, asked>>
    BY <1>11 DEF ServerSends
  <2>2. Calling' = Calling
    BY <2>1 DEF Calling
  <2> QED BY <2>1, <2>2 DEF Traced
<1>12. CASE ServerCloses
  BY <1>1, <1>12 DEF ServerCloses
<1>13. CASE UNCHANGED vars
  BY <1>1, <1>13 DEF vars
<1> QED BY <1>2, <1>3, <1>4, <1>5, <1>6, <1>7, <1>8, <1>9, <1>10, <1>11, <1>12, <1>13 DEF Next

\* The invariant holds always.
LEMMA AlwaysInv == Spec => []Inv
<1>1. Init => Inv
  BY InitTracked, InitWinding DEF Inv
<1>2. Inv /\ [Next]_vars => Inv'
  BY NextTracked, WindingStep, MannedStep, TracedStep DEF Inv
<1> QED BY <1>1, <1>2, PTL DEF Spec

\* The state is of its type, for every set of packets and every number of
\* threads: the pool never has more under way than threads (client.h:124).
THEOREM TypeCorrect == Spec => []TypeOK
<1>1. Inv => TypeOK
  <2> SUFFICES ASSUME Inv PROVE TypeOK
    OBVIOUS
  <2>1. /\ io \in Seq(Ids) /\ inbox \in Seq(Replies) /\ pool \in Seq(Replies \cup {RunTask})
        /\ working \subseteq [packet : Replies, calling : BOOLEAN] /\ Occupied <= Threads
        /\ writing \subseteq Ids /\ tasks \subseteq asked /\ asked \subseteq written /\ written \subseteq Ids
        /\ sent \subseteq written /\ replied \subseteq Ids \cup Strays
    BY DEF Inv, Tracked, Typed, InOrder, Manned
  <2>2. /\ lost \subseteq written \ sent /\ called \subseteq asked /\ answered \subseteq replied /\ missed \subseteq asked
    BY DEF Inv, Traced, Tracked, OneCallback
  <2>3. /\ main \in {"new", "up", "stop", "joined", "failed"} /\ guard \in BOOLEAN
        /\ run \in {"posted", "running", "over"} /\ reading \in BOOLEAN /\ open \in BOOLEAN
    BY DEF Inv, Winding
  <2> QED BY <2>1, <2>2, <2>3 DEF TypeOK
<1> QED BY <1>1, AlwaysInv, PTL

\* When pool.join() has returned every packet that Write accepted has gone out
\* or has failed, although Stop came right behind it (client_main.cpp:99-101).
THEOREM NothingLeftAtExit == Spec => []WrittenBeforeExit
<1>1. Inv => WrittenBeforeExit
  <2> SUFFICES ASSUME Inv, main = "joined" PROVE written \subseteq sent \cup lost
    BY DEF WrittenBeforeExit
  <2>1. io = <<>> /\ writing = {}
    BY DEF Inv, Winding
  <2>2. ToSet(io) = {}
    BY <2>1 DEF ToSet
  <2> QED BY <2>1, <2>2 DEF Inv, Traced
<1> QED BY <1>1, AlwaysInv, PTL
=============================================================================
