------------------------- MODULE NatsAdapterProofs -------------------------
(***************************************************************************)
(* Proofs about NatsAdapter: its types, with what the stream holds; that a *)
(* message is answered once for each time it is handled; that a client is  *)
(* told of a subscription once, and of none the gateway did not make; and  *)
(* that the result of an invocation is that of its command.                *)
(***************************************************************************)
EXTENDS NatsAdapter, SequenceTheorems, TLAPS

\* what is kept in sequences
Within(m, s) == \E k \in 1 .. Len(s) : s[k] = m
Distinct(s)  == \A k, l \in 1 .. Len(s) : s[k] = s[l] => k = l

\* The stream holds each message that is queued once, and nothing else.
Stored(q, j) ==
    /\ q \in Seq(Messages) /\ Distinct(q)
    /\ \A m \in Messages : Within(m, q) <=> j[m].st = "queued"

(***************************************************************************)
(* Settled  the answers of a job: a handler that runs still owes one of    *)
(*          those its dispatches account for                               *)
(***************************************************************************)
Settled(m, j) ==
    /\ j.answers <= j.takes
    /\ j.st = "running" => j.answers < j.takes
    /\ Kind[m] = "event" /\ j.st \in {"done", "missed"} => j.answers > 0

Subscribing(m) == Wants[m] \in {"subscribe", "unsubscribe"}

\* What a socket was told was done at the gateway, and its job is over with it.
Truthful(s) ==
    /\ Distinct(told[s])
    /\ \A k \in 1 .. Len(told[s]) : /\ Within(told[s][k], gate[s].log)
                                    /\ job[told[s][k]].op = "heard"

\* What the gateway has accepted is in its log.
Logged(m) == job[m].op = "ok" /\ Subscribing(m) => Within(m, gate[From[m]].log)

\* The result of an invocation.
Honest(c) ==
    /\ c.res = "data" => c.ran \in {"returned", "muted"}
    /\ c.res = "error" => c.ran \in {"no", "threw", "unsendable"}

Socket == [st : {"none", "open", "closed"}, subscribed : BOOLEAN, log : Seq(Messages)]

Typed ==
    /\ load \in Loads
    /\ inst \in [Instances -> Phase]
    /\ job \in [Messages -> Job]
    /\ gate \in [Sockets -> Socket]
    /\ told \in [Sockets -> Seq(Messages)]
    /\ call \in [Calls -> Call]
    /\ crashes \in 0 .. MaxCrashes

Inv ==
    /\ Typed
    /\ Stored(queue, job)
    /\ \A m \in Messages : Settled(m, job[m]) /\ Logged(m)
    /\ \A s \in Sockets : Truthful(s)
    /\ \A c \in Calls : Honest(call[c])

-----------------------------------------------------------------------------
(* Sequences                                                               *)

\* What a sequence holds after something is appended.
LEMMA AppendHolds ==
    ASSUME NEW S, NEW s \in Seq(S), NEW e \in S
    PROVE  /\ Append(s, e) \in Seq(S)
           /\ \A x : Within(x, Append(s, e)) <=> Within(x, s) \/ x = e
           /\ Distinct(s) /\ ~Within(e, s) => Distinct(Append(s, e))
<1>1. /\ Append(s, e) \in Seq(S) /\ Len(s) \in Nat /\ Len(Append(s, e)) = Len(s) + 1
      /\ \A k \in 1 .. Len(s) : Append(s, e)[k] = s[k]
      /\ Append(s, e)[Len(s) + 1] = e
  BY AppendProperties
<1> DEFINE a == Append(s, e)
           n == Len(s)
<1> HIDE DEF a, n
<1>2. \A x : Within(x, a) <=> Within(x, s) \/ x = e
  BY <1>1 DEF Within, a, n
<1>3. Distinct(s) /\ ~Within(e, s) => Distinct(a)
  BY <1>1 DEF Within, Distinct, a, n
<1>4. QED
  BY <1>1, <1>2, <1>3 DEF a

\* What it holds after its first element was taken.
LEMMA TailHolds ==
    ASSUME NEW S, NEW s \in Seq(S), s # << >>, Distinct(s)
    PROVE  /\ Head(s) \in S /\ Within(Head(s), s) /\ Tail(s) \in Seq(S)
           /\ \A x : Within(x, Tail(s)) <=> Within(x, s) /\ x # Head(s)
           /\ Distinct(Tail(s))
<1>1. /\ Head(s) = s[1] /\ Head(s) \in S /\ Tail(s) \in Seq(S)
      /\ Len(s) \in Nat \ {0} /\ Len(Tail(s)) = Len(s) - 1
      /\ \A k \in 1 .. Len(s) - 1 : Tail(s)[k] = s[k + 1]
  BY HeadTailProperties, EmptySeq, LenProperties
<1> DEFINE t == Tail(s)
           n == Len(s)
           h == Head(s)
<1> HIDE DEF t, n, h
<1>2. Within(h, s)
  BY <1>1 DEF Within, h, n
<1>3. ASSUME NEW x
      PROVE  Within(x, t) <=> Within(x, s) /\ x # h
  <2>1. ASSUME NEW k \in 1 .. n - 1, t[k] = x
        PROVE  Within(x, s) /\ x # h
    BY <1>1, <2>1 DEF Within, Distinct, t, n, h
  <2>2. ASSUME NEW k \in 1 .. n, s[k] = x, x # h
        PROVE  Within(x, t)
    <3>1. k - 1 \in 1 .. n - 1 /\ t[k - 1] = x
      BY <1>1, <2>2 DEF t, n, h
    <3>2. QED
      BY <1>1, <3>1 DEF Within, t, n
  <2>3. QED
    BY <1>1, <2>1, <2>2 DEF Within, t, n
<1>4. Distinct(t)
  BY <1>1 DEF Distinct, t, n
<1>5. QED
  BY <1>1, <1>2, <1>3, <1>4 DEF t, h

-----------------------------------------------------------------------------
(* Steps that change jobs                                                  *)

\* What a typed job is made of.
LEMMA JobFields ==
    ASSUME NEW j \in Job
    PROVE  j.takes \in Nat /\ j.answers \in Nat
BY DEF Job

\* What clients were told stays true as long as the log does and no job forgets
\* what it has heard.
LEMMA TruthStays ==
    ASSUME Inv, told' = told, \A s \in Sockets : gate'[s].log = gate[s].log,
           \A m \in Messages : /\ job[m].op = "heard" => job'[m].op = "heard"
                               /\ job'[m].op = "ok" => job[m].op = "ok"
    PROVE  (\A s \in Sockets : Truthful(s))' /\ (\A m \in Messages : Logged(m))'
<1>1. ASSUME NEW s \in Sockets
      PROVE  Truthful(s)'
  <2>1. told[s] \in Seq(Messages) /\ Truthful(s)
    BY DEF Inv, Typed
  <2>2. \A k \in 1 .. Len(told[s]) : told[s][k] \in Messages
    BY <2>1
  <2>3. /\ told'[s] = told[s] /\ gate'[s].log = gate[s].log
        /\ \A k \in 1 .. Len(told[s]) : job'[told[s][k]].op = "heard"
    BY <2>1, <2>2 DEF Truthful
  <2>4. QED
    BY <2>1, <2>3 DEF Truthful, Within, Distinct
<1>2. ASSUME NEW m \in Messages
      PROVE  Logged(m)'
  <2>1. From[m] \in Sockets
    BY NatsAssumption
  <2>2. QED
    BY <2>1 DEF Inv, Logged, Within
<1>3. QED
  BY <1>1, <1>2

\* A step of one job.
LEMMA JobKeeps ==
    ASSUME Inv, NEW m \in Messages, NEW j \in Job, job' = [job EXCEPT ![m] = j],
           UNCHANGED <<load, inst, gate, told, call, crashes>>, Stored(queue', job'),
           Settled(m, j), job[m].op = "heard" => j.op = "heard", j.op = "ok" => job[m].op = "ok"
    PROVE  Inv'
<1>1. Typed'
  BY DEF Inv, Typed
<1>2. \A n \in Messages : job'[n] = IF n = m THEN j ELSE job[n]
  BY DEF Inv, Typed
<1>3. (\A s \in Sockets : Truthful(s))' /\ (\A n \in Messages : Logged(n))'
  BY <1>2, TruthStays
<1>4. \A n \in Messages : Settled(n, job'[n])
  BY <1>2 DEF Inv
<1>5. QED
  BY <1>1, <1>3, <1>4 DEF Inv, Stored, Within, Distinct, Settled, Honest

\* One that neither enters the stream nor leaves it.
LEMMA JobStays ==
    ASSUME Inv, NEW m \in Messages, NEW j \in Job, job' = [job EXCEPT ![m] = j],
           UNCHANGED <<load, inst, queue, gate, told, call, crashes>>,
           j.st = "queued" <=> job[m].st = "queued",
           Settled(m, j), job[m].op = "heard" => j.op = "heard", j.op = "ok" => job[m].op = "ok"
    PROVE  Inv'
<1>1. Stored(queue', job')
  BY DEF Inv, Typed, Stored
<1>2. QED
  BY <1>1, JobKeeps

-----------------------------------------------------------------------------
(* Jobs, as the steps leave them                                           *)

\* Taking a message is acking it, and is counted.
LEMMA AckedIs ==
    ASSUME Inv, NEW m \in Messages
    PROVE  /\ Acked(m) \in Job /\ Acked(m).takes = job[m].takes + 1
           /\ Acked(m).answers = job[m].answers /\ Acked(m).op = job[m].op
           /\ Acked(m).answers < Acked(m).takes
<1>1. /\ job[m] \in Job /\ job[m].answers <= job[m].takes
      /\ job[m].takes \in Nat /\ job[m].answers \in Nat
  BY JobFields DEF Inv, Typed, Settled
<1> DEFINE j == job[m]
           n == j.takes + 1
<1>2. n \in Nat /\ j.answers < n /\ j \in Job
  BY <1>1
<1>3. Acked(m) = [j EXCEPT !.ack = "written", !.takes = n]
  BY DEF Acked
<1> HIDE DEF j, n
<1>4. /\ Acked(m) \in Job /\ Acked(m).takes = n /\ Acked(m).answers = j.answers
      /\ Acked(m).op = j.op
  BY <1>2, <1>3 DEF Job
<1>5. QED
  BY <1>2, <1>4 DEF j, n

\* A job that owes an answer may give it, whatever becomes of the job.
LEMMA AnsweredIs ==
    ASSUME NEW j \in Job, j.answers < j.takes
    PROVE  /\ Answered(j) \in Job /\ Answered(j).answers > 0
           /\ Answered(j).answers <= Answered(j).takes
           /\ Answered(j).st = j.st /\ Answered(j).op = j.op
<1>1. j.answers \in Nat /\ j.takes \in Nat /\ j.answers + 1 \in Nat
  BY JobFields
<1>2. /\ Answered(j) \in Job /\ Answered(j).answers = j.answers + 1
      /\ Answered(j).takes = j.takes /\ Answered(j).st = j.st /\ Answered(j).op = j.op
  BY <1>1 DEF Answered, Job
<1>3. QED
  BY <1>1, <1>2

\* The two ways a handler ends.
LEMMA EndedIs ==
    ASSUME NEW m, NEW j \in Job, j.answers < j.takes
    PROVE  /\ Threw(j) \in Job /\ Settled(m, Threw(j)) /\ Threw(j).st = "done"
           /\ Threw(j).op = j.op
           /\ Returned(j, m) \in Job /\ Settled(m, Returned(j, m)) /\ Returned(j, m).st = "done"
           /\ Returned(j, m).op = j.op
<1> DEFINE d == [j EXCEPT !.st = "done"]
<1>1. /\ d \in Job /\ d.st = "done" /\ d.op = j.op
      /\ d.answers = j.answers /\ d.takes = j.takes
      /\ d.answers \in Nat /\ d.takes \in Nat
  BY JobFields DEF Job
<1>2. Threw(j) = Answered(d) /\ Returned(j, m) = IF Kind[m] = "event" THEN Answered(d) ELSE d
  BY DEF Threw, Returned
<1> HIDE DEF d
<1>3. QED
  BY <1>1, <1>2, AnsweredIs DEF Settled

\* What becomes of a message in handleUpstream, up to its handler.
LEMMA DispatchedIs ==
    ASSUME Inv, NEW i \in Instances, NEW m \in Messages
    PROVE  LET j == Dispatched(i, m)
           IN  /\ j \in Job /\ Settled(m, j) /\ j.op = job[m].op
               /\ j.st \in {"skipped", "missed", "running"}
<1> DEFINE a == Acked(m)
<1>1. /\ a \in Job /\ a.op = job[m].op /\ a.answers < a.takes
      /\ a.answers \in Nat /\ a.takes \in Nat
  BY AckedIs, JobFields
<1> HIDE DEF a
<1>2. ASSUME NEW st \in {"skipped", "running"}
      PROVE  LET j == [a EXCEPT !.st = st]
             IN  j \in Job /\ Settled(m, j) /\ j.op = job[m].op /\ j.st = st
  BY <1>1 DEF Job, Settled
<1>3. LET j == [Answered(a) EXCEPT !.st = "missed"]
      IN  j \in Job /\ Settled(m, j) /\ j.op = job[m].op /\ j.st = "missed"
  BY <1>1, AnsweredIs DEF Job, Settled
<1>4. QED
  BY <1>2, <1>3 DEF Dispatched, Missed, a

-----------------------------------------------------------------------------
(* Steps                                                                   *)

\* handleUpstream, up to its handler or its early return.
LEMMA TakeKeeps ==
    ASSUME Inv, NEW i \in Instances, Take(i) \/ TakeGarbled(i)
    PROVE  Inv'
<1>1. CASE Take(i)
  <2>1. PICK m \in Messages :
            /\ NextMessage(i, m) /\ job' = [job EXCEPT ![m] = Dispatched(i, m)]
            /\ UNCHANGED <<load, inst, queue, gate, told, call, crashes>>
    BY <1>1 DEF Take
  <2>2. job[m].st = "pulled"
    BY <2>1 DEF NextMessage
  <2>3. QED
    BY <2>1, <2>2, DispatchedIs, JobStays
<1>2. CASE TakeGarbled(i)
  <2>1. PICK m \in Messages :
            /\ NextMessage(i, m)
            /\ \/ job' = [job EXCEPT ![m] = [Acked(m) EXCEPT !.st = "skipped"]]
               \/ job' = [job EXCEPT ![m] = Threw(Acked(m))]
            /\ UNCHANGED <<load, inst, queue, gate, told, call, crashes>>
    BY <1>2 DEF TakeGarbled
  <2>2. job[m].st = "pulled"
    BY <2>1 DEF NextMessage
  <2> DEFINE a == Acked(m)
             k == [a EXCEPT !.st = "skipped"]
  <2>3. /\ a \in Job /\ a.op = job[m].op /\ a.answers < a.takes
        /\ a.answers \in Nat /\ a.takes \in Nat
    BY AckedIs, JobFields
  <2>4. \/ job' = [job EXCEPT ![m] = k]
        \/ job' = [job EXCEPT ![m] = Threw(a)]
    BY <2>1
  <2> HIDE DEF a
  <2>5. k \in Job /\ Settled(m, k) /\ k.op = job[m].op /\ k.st = "skipped"
    BY <2>3 DEF Job, Settled
  <2> HIDE DEF k
  <2>6. CASE job' = [job EXCEPT ![m] = k]
    BY <2>1, <2>2, <2>5, <2>6, JobStays
  <2>7. CASE job' = [job EXCEPT ![m] = Threw(a)]
    <3> DEFINE r == Threw(a)
    <3>1. r \in Job /\ Settled(m, r) /\ r.st = "done" /\ r.op = job[m].op
      BY <2>3, EndedIs
    <3>2. job' = [job EXCEPT ![m] = r]
      BY <2>7
    <3> HIDE DEF r
    <3>3. QED
      BY <2>1, <2>2, <3>1, <3>2, JobStays
  <2>8. QED
    BY <2>4, <2>6, <2>7
<1>3. QED
  BY <1>1, <1>2

\* A handler that runs asks, hears, stops waiting, and ends.
LEMMA HandlerKeeps ==
    ASSUME Inv, NEW m \in Messages,
           \/ AckOut(m) \/ GatewayFails(m) \/ Ask(m) \/ Refusal(m) \/ OperationTimeout(m)
           \/ DispatchThrows(m) \/ HandlerReturns(m) \/ HandlerThrows(m)
    PROVE  Inv'
<1> DEFINE j == job[m]
<1>1. j \in Job /\ Settled(m, j) /\ j.answers \in Nat /\ j.takes \in Nat
  BY JobFields DEF Inv, Typed
<1>2. UNCHANGED <<load, inst, queue, gate, told, call, crashes>>
  BY DEF AckOut, GatewayFails, Ask, Refusal, OperationTimeout, DispatchThrows, HandlerReturns,
         HandlerThrows
<1>3. ASSUME NEW op \in {"sent", "late", "refused", "heard"}, NEW ack \in {j.ack, "out"},
             job' = [job EXCEPT ![m] = [j EXCEPT !.op = op, !.ack = ack]], j.op # "heard"
      PROVE  Inv'
  <2> DEFINE k == [j EXCEPT !.op = op, !.ack = ack]
  <2>1. /\ k \in Job /\ k.st = j.st /\ k.answers = j.answers /\ k.takes = j.takes /\ k.op = op
    BY <1>1 DEF Job
  <2>2. job' = [job EXCEPT ![m] = k]
    BY <1>3
  <2> HIDE DEF j, k
  <2>3. Settled(m, k)
    BY <1>1, <2>1 DEF Settled
  <2>4. QED
    BY <1>2, <1>3, <2>1, <2>2, <2>3, JobStays DEF j
<1>4. CASE AckOut(m)
  <2> DEFINE k == [j EXCEPT !.ack = "out"]
  <2>1. k \in Job /\ k.st = j.st /\ k.answers = j.answers /\ k.takes = j.takes /\ k.op = j.op
    BY <1>1 DEF Job
  <2>2. job' = [job EXCEPT ![m] = k]
    BY <1>4 DEF AckOut
  <2> HIDE DEF k
  <2>3. Settled(m, k)
    BY <1>1, <2>1 DEF Settled
  <2>4. QED
    BY <1>2, <2>1, <2>2, <2>3, JobStays
<1>5. CASE GatewayFails(m) \/ Refusal(m) \/ OperationTimeout(m)
  <2>1. \E op \in {"sent", "late", "refused", "heard"} :
            job' = [job EXCEPT ![m] = [j EXCEPT !.op = op, !.ack = j.ack]]
    BY <1>1, <1>5 DEF GatewayFails, Refusal, OperationTimeout, Job, Inv, Typed
  <2>2. j.op # "heard"
    BY <1>5 DEF GatewayFails, Refusal, OperationTimeout
  <2>3. QED
    BY <1>3, <2>1, <2>2
<1>6. CASE Ask(m)
  <2>1. job' = [job EXCEPT ![m] = [j EXCEPT !.op = "sent", !.ack = "out"]] /\ j.op # "heard"
    BY <1>6 DEF Ask
  <2>2. QED
    BY <1>3, <2>1
\* a handler that runs owes an answer
<1>7. ASSUME NEW op \in {j.op, "late", "heard"}, NEW ack \in {j.ack, "out"},
             j.st = "running", j.op = "heard" => op = "heard"
      PROVE  LET k == [j EXCEPT !.op = op, !.ack = ack]
             IN  /\ job' = [job EXCEPT ![m] = Threw(k)] => Inv'
                 /\ job' = [job EXCEPT ![m] = Returned(k, m)] => Inv'
  <2> DEFINE k == [j EXCEPT !.op = op, !.ack = ack]
  <2>1. k \in Job /\ k.op = op /\ k.answers < k.takes
    BY <1>1, <1>7 DEF Job, Settled
  <2> HIDE DEF k
  <2> DEFINE a == Threw(k)
             b == Returned(k, m)
  <2>2. /\ a \in Job /\ Settled(m, a) /\ a.st = "done" /\ a.op = op
        /\ b \in Job /\ Settled(m, b) /\ b.st = "done" /\ b.op = op
    BY <2>1, EndedIs
  <2> HIDE DEF a, b
  <2>3. op = "ok" => j.op = "ok"
    BY <1>7
  <2>4. job' = [job EXCEPT ![m] = a] => Inv'
    BY <1>2, <1>7, <2>2, <2>3, JobStays
  <2>5. job' = [job EXCEPT ![m] = b] => Inv'
    BY <1>2, <1>7, <2>2, <2>3, JobStays
  <2>6. QED
    BY <2>4, <2>5 DEF a, b, k
<1>8. CASE DispatchThrows(m)
  <2>1. PICK op \in {"late", "heard"} : job' = [job EXCEPT ![m] = Threw([j EXCEPT !.op = op])]
    BY <1>8 DEF DispatchThrows
  <2>2. j.st = "running" /\ j.op # "heard"
    BY <1>8 DEF DispatchThrows
  <2>3. [j EXCEPT !.op = op] = [j EXCEPT !.op = op, !.ack = j.ack]
    BY <1>1 DEF Job
  <2>4. QED
    BY <1>7, <2>1, <2>2, <2>3
<1>9. CASE HandlerReturns(m) \/ HandlerThrows(m)
  <2>1. /\ j.st = "running"
        /\ \/ job' = [job EXCEPT ![m] = Threw([j EXCEPT !.ack = "out"])]
           \/ job' = [job EXCEPT ![m] = Returned([j EXCEPT !.ack = "out"], m)]
    BY <1>9 DEF HandlerReturns, HandlerThrows, Idling
  <2>2. [j EXCEPT !.ack = "out"] = [j EXCEPT !.op = j.op, !.ack = "out"]
    BY <1>1 DEF Job
  <2>3. QED
    BY <1>7, <2>1, <2>2
<1>10. QED
  BY <1>4, <1>5, <1>6, <1>8, <1>9

\* A message leaves the stream for one instance, or returns to it.
LEMMA StreamKeeps ==
    ASSUME Inv, (\E i \in Instances : Deliver(i)) \/ \E m \in Messages : Redeliver(m)
    PROVE  Inv'
<1>1. /\ Stored(queue, job) /\ job \in [Messages -> Job]
      /\ \A m \in Messages : Settled(m, job[m])
  BY DEF Inv, Typed
<1>2. ASSUME NEW i \in Instances, Deliver(i)
      PROVE  Inv'
  <2> DEFINE m == Head(queue)
             j == [job[m] EXCEPT !.st = "pulled", !.at = i]
  <2>1. /\ m \in Messages /\ Within(m, queue) /\ Tail(queue) \in Seq(Messages)
        /\ \A x : Within(x, Tail(queue)) <=> Within(x, queue) /\ x # m
        /\ Distinct(Tail(queue))
    BY <1>1, <1>2, TailHolds DEF Deliver, Stored
  <2>2. /\ job' = [job EXCEPT ![m] = j] /\ queue' = Tail(queue)
        /\ UNCHANGED <<load, inst, gate, told, call, crashes>>
    BY <1>2 DEF Deliver
  <2> HIDE DEF m
  <2>3. j \in Job /\ j.st = "pulled" /\ j.op = job[m].op /\ Settled(m, j)
    BY <1>1, <2>1 DEF Job, Settled
  <2> HIDE DEF j
  <2>4. Stored(queue', job')
    BY <1>1, <2>1, <2>2, <2>3 DEF Stored
  <2>5. QED
    BY <2>1, <2>2, <2>3, <2>4, JobKeeps
<1>3. ASSUME NEW m \in Messages, Redeliver(m)
      PROVE  Inv'
  <2> DEFINE j == [job[m] EXCEPT !.st = "queued", !.at = None]
  <2>1. /\ job' = [job EXCEPT ![m] = j] /\ queue' = Append(queue, m) /\ job[m].st = "unheard"
        /\ UNCHANGED <<load, inst, gate, told, call, crashes>>
    BY <1>3 DEF Redeliver
  <2>2. j \in Job /\ j.st = "queued" /\ j.op = job[m].op /\ Settled(m, j)
    BY <1>1, <2>1 DEF Job, Settled
  <2> HIDE DEF j
  <2>3. Stored(queue', job')
    BY <1>1, <2>1, <2>2, AppendHolds DEF Stored
  <2>4. QED
    BY <2>1, <2>2, <2>3, JobKeeps
<1>4. QED
  BY <1>2, <1>3

\* The gateway publishes a message: what it has done for others stays done.
LEMMA PublishKeeps ==
    ASSUME Inv, NEW m \in Messages, Publish(m)
    PROVE  Inv'
<1> DEFINE o == \A i \in Instances : inst[i] = "down"
           j == [job[m] EXCEPT !.st = "queued", !.offline = o]
<1>1. /\ Typed /\ Stored(queue, job) /\ \A n \in Messages : Settled(n, job[n])
      /\ job[m] \in Job /\ From[m] \in Sockets /\ Kind[m] \in Kinds
  BY NatsAssumption DEF Inv, Typed
<1>2. /\ job' = [job EXCEPT ![m] = j] /\ queue' = Append(queue, m) /\ job[m].st = "unsent"
      /\ UNCHANGED <<load, inst, told, call, crashes>>
  BY DEF Publish
<1>3. gate' \in [Sockets -> Socket] /\ \A s \in Sockets : gate'[s].log = gate[s].log
  <2>1. gate \in [Sockets -> Socket]
    BY <1>1 DEF Typed
  <2>2. CASE Kind[m] = "connected"
    <3>1. gate' = [gate EXCEPT ![From[m]].st = "open"]
      BY <2>2 DEF Publish
    <3>2. QED
      BY <1>1, <2>1, <3>1 DEF Socket
  <2>3. CASE Kind[m] = "event"
    BY <2>1, <2>3 DEF Publish
  <2>4. CASE Kind[m] = "disconnected"
    <3>1. gate' = [gate EXCEPT ![From[m]].st = "closed", ![From[m]].subscribed = FALSE]
      BY <2>4 DEF Publish
    <3>2. QED
      BY <1>1, <2>1, <3>1 DEF Socket
  <2>5. QED
    BY <1>1, <2>2, <2>3, <2>4 DEF Kinds
<1>4. o \in BOOLEAN
  OBVIOUS
<1> HIDE DEF o
<1>5. j \in Job /\ j.st = "queued" /\ j.op = job[m].op /\ Settled(m, j)
  BY <1>1, <1>2, <1>4 DEF Job, Settled
<1> HIDE DEF j
<1>6. \A n \in Messages : job'[n] = IF n = m THEN j ELSE job[n]
  BY <1>1, <1>2 DEF Typed
<1>7. Typed'
  BY <1>1, <1>2, <1>3, <1>5 DEF Typed
<1>8. Stored(queue', job')
  BY <1>1, <1>2, <1>5, <1>6, AppendHolds DEF Stored
<1>9. (\A s \in Sockets : Truthful(s))' /\ (\A n \in Messages : Logged(n))'
  BY <1>2, <1>3, <1>5, <1>6, TruthStays
<1>10. QED
  BY <1>1, <1>2, <1>5, <1>6, <1>7, <1>8, <1>9 DEF Inv, Stored, Within, Distinct, Settled, Honest

\* The gateway does what it is asked for, and notes it.
LEMMA GatewayKeeps ==
    ASSUME Inv, NEW m \in Messages, GatewayExecutes(m)
    PROVE  Inv'
<1> DEFINE s    == From[m]
           done == gate[s].st = "open" \/ Wants[m] = "dispatch"
           j    == job'[m]
<1>1. /\ Typed /\ Stored(queue, job) /\ \A n \in Messages : Settled(n, job[n]) /\ Logged(n)
      /\ job[m] \in Job /\ s \in Sockets /\ \A r \in Sockets : Truthful(r)
      /\ gate \in [Sockets -> Socket] /\ told \in [Sockets -> Seq(Messages)]
  BY NatsAssumption DEF Inv, Typed
<1>2. PICK op \in {"heard", "ok", "refused"} :
          /\ job' = [job EXCEPT ![m].op = op] /\ job[m].op \in {"sent", "late"}
          /\ op = "ok" => done
  <2> DEFINE o == IF job[m].op = "late" THEN "heard" ELSE IF done THEN "ok" ELSE "refused"
  <2>1. job' = [job EXCEPT ![m].op = o] /\ job[m].op \in {"sent", "late"}
    BY DEF GatewayExecutes, ClientOf
  <2>2. o \in {"heard", "ok", "refused"} /\ (o = "ok" => done)
    OBVIOUS
  <2> HIDE DEF o, done
  <2>3. QED
    BY <2>1, <2>2
<1>3. UNCHANGED <<load, inst, queue, told, call, crashes>>
  BY DEF GatewayExecutes
<1>4. /\ j \in Job /\ j.op = op /\ j.st = job[m].st /\ Settled(m, j)
      /\ job' \in [Messages -> Job] /\ \A n \in Messages : n # m => job'[n] = job[n]
  BY <1>1, <1>2 DEF Typed, Job, Settled
<1>5. /\ gate' \in [Sockets -> Socket]
      /\ \A r \in Sockets : \A x : Within(x, gate[r].log) => Within(x, gate'[r].log)
      /\ done /\ Subscribing(m) => Within(m, gate'[s].log)
  <2>1. CASE done /\ Subscribing(m)
    <3> DEFINE g == [gate[s] EXCEPT !.subscribed = (Wants[m] = "subscribe"),
                                    !.log = Append(gate[s].log, m)]
    <3>1. gate' = [gate EXCEPT ![s] = g]
      BY <1>1, <2>1 DEF GatewayExecutes, ClientOf, Subscribing, Socket
    <3>2. g \in Socket /\ g.log = Append(gate[s].log, m)
      BY <1>1, AppendHolds DEF Socket
    <3>3. gate[s].log \in Seq(Messages)
      BY <1>1 DEF Socket
    <3> HIDE DEF g
    <3>4. /\ gate' \in [Sockets -> Socket] /\ gate'[s].log = Append(gate[s].log, m)
          /\ \A r \in Sockets : r # s => gate'[r] = gate[r]
      BY <1>1, <3>1, <3>2
    <3> HIDE DEF s
    <3>5. \A x : Within(x, gate'[s].log) <=> Within(x, gate[s].log) \/ x = m
      BY <3>3, <3>4, AppendHolds
    <3>6. \A r \in Sockets : r # s => gate'[r].log = gate[r].log
      BY <3>4
    <3>7. QED
      BY <1>1, <3>4, <3>5, <3>6
  <2>2. CASE ~(done /\ Subscribing(m))
    <3>1. gate' = gate
      BY <2>2 DEF GatewayExecutes, ClientOf, Subscribing
    <3>2. QED
      BY <1>1, <2>2, <3>1
  <2>3. QED
    BY <2>1, <2>2
<1>6. Typed'
  BY <1>1, <1>3, <1>4, <1>5 DEF Typed
<1>7. Stored(queue', job')
  BY <1>1, <1>3, <1>4 DEF Stored
<1>8. ASSUME NEW n \in Messages
      PROVE  Settled(n, job'[n]) /\ Logged(n)'
  <2>1. From[n] \in Sockets
    BY NatsAssumption
  <2>2. CASE n = m
    BY <1>2, <1>4, <1>5, <2>2 DEF Logged, Subscribing
  <2>3. CASE n # m
    BY <1>1, <1>4, <1>5, <2>1, <2>3 DEF Logged, Subscribing
  <2>4. QED
    BY <2>2, <2>3
<1>9. ASSUME NEW r \in Sockets
      PROVE  Truthful(r)'
  <2>1. \A k \in 1 .. Len(told[r]) : told[r][k] \in Messages /\ told[r][k] # m
    BY <1>1, <1>2 DEF Truthful
  <2>2. QED
    BY <1>1, <1>3, <1>4, <1>5, <2>1 DEF Truthful, Distinct
<1>10. QED
  BY <1>1, <1>3, <1>6, <1>7, <1>8, <1>9 DEF Inv, Stored, Within, Distinct, Settled, Honest

\* A client is told of what the gateway has done, when its handler hears of it.
LEMMA ReplyKeeps ==
    ASSUME Inv, NEW m \in Messages, Reply(m)
    PROVE  Inv'
<1> DEFINE s == From[m]
           j == [job[m] EXCEPT !.op = "heard"]
<1>1. /\ Typed /\ Stored(queue, job) /\ \A n \in Messages : Settled(n, job[n]) /\ Logged(n)
      /\ job \in [Messages -> Job] /\ s \in Sockets /\ \A r \in Sockets : Truthful(r)
      /\ told \in [Sockets -> Seq(Messages)]
  BY NatsAssumption DEF Inv, Typed
<1>2. /\ job' = [job EXCEPT ![m] = j] /\ job[m].op = "ok" /\ told' = Confirmed(m)
      /\ UNCHANGED <<load, inst, queue, gate, call, crashes>>
  BY DEF Reply
<1>3. j \in Job /\ j.op = "heard" /\ j.st = job[m].st /\ Settled(m, j)
  BY <1>1 DEF Job, Settled
<1> HIDE DEF j
<1>4. job' \in [Messages -> Job] /\ \A n \in Messages : job'[n] = IF n = m THEN j ELSE job[n]
  BY <1>1, <1>2, <1>3
<1>5. \A r \in Sockets : ~Within(m, told[r])
  BY <1>1, <1>2 DEF Truthful, Within
<1>6. told' \in [Sockets -> Seq(Messages)] /\ \A r \in Sockets : Truthful(r)'
  <2>1. ASSUME NEW r \in Sockets, told'[r] = told[r]
        PROVE  Truthful(r)'
    <3>1. \A k \in 1 .. Len(told[r]) : told[r][k] \in Messages /\ told[r][k] # m
      BY <1>1, <1>5 DEF Within
    <3>2. gate' = gate /\ \A k \in 1 .. Len(told[r]) : job'[told[r][k]] = job[told[r][k]]
      BY <1>2, <1>4, <3>1
    <3>3. QED
      BY <1>1, <2>1, <3>2 DEF Truthful, Distinct, Within
  <2>2. CASE ~Subscribing(m)
    <3>1. told' = told
      BY <1>2, <2>2 DEF Confirmed, Subscribing
    <3>2. QED
      BY <1>1, <2>1, <3>1
  <2>3. CASE Subscribing(m)
    <3>1. told' = [told EXCEPT ![s] = Append(told[s], m)]
      BY <1>2, <2>3 DEF Confirmed, Subscribing, ClientOf
    <3>2. /\ Append(told[s], m) \in Seq(Messages) /\ Distinct(Append(told[s], m))
          /\ \A x : Within(x, Append(told[s], m)) <=> Within(x, told[s]) \/ x = m
      BY <1>1, <1>5, AppendHolds DEF Truthful
    <3> DEFINE a == Append(told[s], m)
    <3>3. told' \in [Sockets -> Seq(Messages)] /\ told'[s] = a
          /\ \A r \in Sockets : r # s => told'[r] = told[r]
      BY <1>1, <3>1, <3>2
    <3>4. Within(m, gate[s].log)
      BY <1>1, <1>2, <2>3 DEF Logged
    <3>5. ASSUME NEW k \in 1 .. Len(a)
          PROVE  Within(a[k], gate[s].log) /\ job'[a[k]].op = "heard"
      <4>1. Within(a[k], a)
        BY DEF Within
      <4>2. a[k] = m \/ Within(a[k], told[s])
        BY <3>2, <4>1
      <4>3. CASE a[k] = m
        BY <1>3, <1>4, <3>4, <4>3
      <4>4. CASE Within(a[k], told[s])
        <5> HIDE DEF a
        <5>1. PICK l \in 1 .. Len(told[s]) : told[s][l] = a[k]
          BY <4>4 DEF Within
        <5>2. /\ told[s][l] \in Messages /\ job[told[s][l]].op = "heard"
              /\ Within(told[s][l], gate[s].log)
          BY <1>1 DEF Truthful
        <5>3. QED
          BY <1>3, <1>4, <5>1, <5>2
      <4>5. QED
        BY <4>2, <4>3, <4>4
    <3> HIDE DEF a
    <3>6. gate' = gate
      BY <1>2
    <3>7. Truthful(s)'
      BY <3>2, <3>3, <3>5, <3>6 DEF Truthful, Distinct, Within, a
    <3>8. QED
      BY <2>1, <3>3, <3>7
  <2>4. QED
    BY <2>2, <2>3
<1>7. Typed'
  BY <1>1, <1>2, <1>4, <1>6 DEF Typed
<1>8. Stored(queue', job')
  BY <1>1, <1>2, <1>3, <1>4 DEF Stored
<1>9. \A n \in Messages : Settled(n, job'[n]) /\ Logged(n)'
  BY <1>1, <1>2, <1>3, <1>4 DEF Logged, Subscribing, Within
<1>10. QED
  BY <1>1, <1>2, <1>6, <1>7, <1>8, <1>9 DEF Inv, Stored, Within, Distinct, Settled, Honest

\* What a crash leaves of a job.
LEMMA DroppedIs ==
    ASSUME NEW m, NEW j \in Job, Settled(m, j)
    PROVE  LET d == Dropped(j)
           IN  /\ d \in Job /\ Settled(m, d) /\ d.op = j.op
               /\ d.st = "queued" <=> j.st = "queued"
<1>1. CASE j.ack # "out" /\ j.st # "queued"
  <2> DEFINE d == [j EXCEPT !.st = "unheard", !.ack = "none"]
  <2>1. /\ d \in Job /\ d.op = j.op /\ d.st = "unheard" /\ d.answers = j.answers
        /\ d.takes = j.takes
    BY DEF Job
  <2>2. Dropped(j) = d
    BY <1>1 DEF Dropped
  <2> HIDE DEF d
  <2>3. QED
    BY <1>1, <2>1, <2>2 DEF Settled
<1>2. CASE ~(j.ack # "out" /\ j.st # "queued") /\ j.st = "running"
  <2> DEFINE d == [j EXCEPT !.st = "dead"]
  <2>1. d \in Job /\ d.op = j.op /\ d.st = "dead" /\ d.answers = j.answers /\ d.takes = j.takes
    BY DEF Job
  <2>2. Dropped(j) = d
    BY <1>2 DEF Dropped
  <2> HIDE DEF d
  <2>3. QED
    BY <1>2, <2>1, <2>2 DEF Settled
<1>3. CASE ~(j.ack # "out" /\ j.st # "queued") /\ j.st # "running"
  BY <1>3 DEF Dropped
<1>4. QED
  BY <1>1, <1>2, <1>3

\* An instance crashes at any point of its work.
LEMMA CrashKeeps ==
    ASSUME Inv, NEW i \in Instances, Crash(i)
    PROVE  Inv'
<1>1. /\ Typed /\ Stored(queue, job) /\ \A m \in Messages : Settled(m, job[m]) /\ job[m] \in Job
      /\ \A c \in Calls : Honest(call[c]) /\ call[c] \in Call
  BY DEF Inv, Typed
<1>2. /\ inst' = [inst EXCEPT ![i] = "down"] /\ UNCHANGED <<load, queue, gate, told>>
      /\ job' = [m \in Messages |-> IF job[m].at = i THEN Dropped(job[m]) ELSE job[m]]
  BY DEF Crash
<1>3. crashes' \in 0 .. MaxCrashes
  <2>1. crashes' = crashes + 1 /\ crashes < MaxCrashes
    BY DEF Crash
  <2>2. QED
    BY <1>1, <2>1, NatsAssumption DEF Typed
<1>4. /\ job' \in [Messages -> Job]
      /\ \A m \in Messages : /\ Settled(m, job'[m]) /\ job'[m].op = job[m].op
                             /\ job'[m].st = "queued" <=> job[m].st = "queued"
  <2>1. ASSUME NEW m \in Messages
        PROVE  /\ job'[m] \in Job /\ Settled(m, job'[m]) /\ job'[m].op = job[m].op
               /\ job'[m].st = "queued" <=> job[m].st = "queued"
    BY <1>1, <1>2, DroppedIs
  <2>2. QED
    BY <1>2, <2>1
<1>5. call' \in [Calls -> Call] /\ \A c \in Calls : Honest(call'[c])
  <2>1. call' = [c \in Calls |-> IF call[c].at = i /\ call[c].ran = "running"
                                THEN [call[c] EXCEPT !.ran = "dead", !.at = None] ELSE call[c]]
    BY DEF Crash
  <2>2. ASSUME NEW c \in Calls
        PROVE  call'[c] \in Call /\ Honest(call'[c])
    <3>1. CASE call[c].at = i /\ call[c].ran = "running"
      <4>1. call'[c] = [call[c] EXCEPT !.ran = "dead", !.at = None]
        BY <2>1, <3>1
      <4>2. QED
        BY <1>1, <3>1, <4>1 DEF Call, Honest
    <3>2. CASE ~(call[c].at = i /\ call[c].ran = "running")
      BY <1>1, <2>1, <3>2
    <3>3. QED
      BY <3>1, <3>2
  <2>3. QED
    BY <2>1, <2>2
<1>6. Typed'
  BY <1>1, <1>2, <1>3, <1>4, <1>5 DEF Typed, Phase
<1>7. Stored(queue', job')
  BY <1>1, <1>2, <1>4 DEF Stored
<1>8. (\A s \in Sockets : Truthful(s))' /\ (\A m \in Messages : Logged(m))'
  BY <1>2, <1>4, TruthStays
<1>9. QED
  BY <1>4, <1>5, <1>6, <1>7, <1>8 DEF Inv, Stored, Within, Distinct, Settled, Honest

\* An instance gets on with its start.
LEMMA StartKeeps ==
    ASSUME Inv, NEW i \in Instances, Start(i) \/ EngineUp(i) \/ Ready(i)
    PROVE  Inv'
<1>1. UNCHANGED <<load, queue, job, gate, told, call, crashes>>
  BY DEF Start, EngineUp, Ready
<1>2. inst' \in [Instances -> Phase]
  BY DEF Start, EngineUp, Ready, Phase, Inv, Typed
<1>3. QED
  BY <1>1, <1>2 DEF Inv, Typed, Stored, Settled, Logged, Subscribing, Truthful, Within, Distinct, Honest

\* A command is invoked, runs, and is answered, in time or not.
LEMMA CallKeeps ==
    ASSUME Inv, NEW c \in Calls,
           \/ \E i \in Instances : Invoke(c, i)
           \/ NoResponders(c) \/ CommandEnds(c) \/ Responded(c) \/ InvokeTimeout(c)
    PROVE  Inv'
<1>1. call \in [Calls -> Call] /\ call[c] \in Call /\ \A d \in Calls : Honest(call[d])
  BY DEF Inv, Typed
<1>2. UNCHANGED <<load, inst, queue, job, gate, told, crashes>>
  BY DEF Invoke, NoResponders, CommandEnds, Responded, InvokeTimeout
<1>3. ASSUME NEW d \in Call, Honest(d), call' = [call EXCEPT ![c] = d]
      PROVE  Inv'
  <2>1. call' \in [Calls -> Call] /\ \A e \in Calls : Honest(call'[e])
    BY <1>1, <1>3
  <2>2. QED
    BY <1>2, <2>1
       DEF Inv, Typed, Stored, Settled, Logged, Subscribing, Truthful, Within, Distinct, Honest
<1>4. ASSUME NEW i \in Instances, Invoke(c, i)
      PROVE  Inv'
  <2> DEFINE d == [call[c] EXCEPT !.ran = "running", !.at = i]
  <2>1. call[c].res = "none"
    BY <1>4 DEF Invoke, Idle
  <2>2. d \in Call /\ Honest(d)
    BY <1>1, <2>1 DEF Call, Honest
  <2>3. call' = [call EXCEPT ![c] = d]
    BY <1>4 DEF Invoke
  <2>4. QED
    BY <1>3, <2>2, <2>3
<1>5. ASSUME NEW ran \in {"returned", "unsendable", "threw", "muted"}, call[c].ran = "running",
             call' = [call EXCEPT ![c].ran = ran, ![c].at = None]
      PROVE  Inv'
  <2> DEFINE d == [call[c] EXCEPT !.ran = ran, !.at = None]
  <2>1. d \in Call /\ Honest(d)
    BY <1>1, <1>5 DEF Call, Honest
  <2>2. call' = [call EXCEPT ![c] = d]
    BY <1>5
  <2>3. QED
    BY <1>3, <2>1, <2>2
<1>6. CASE CommandEnds(c)
  BY <1>5, <1>6 DEF CommandEnds
<1>7. ASSUME NEW res \in {"data", "error", "timeout"}, call' = [call EXCEPT ![c].res = res],
             res = "data" => call[c].ran \in {"returned", "muted"},
             res = "error" => call[c].ran \in {"no", "threw", "unsendable"}
      PROVE  Inv'
  <2> DEFINE d == [call[c] EXCEPT !.res = res]
  <2>1. d \in Call /\ Honest(d)
    BY <1>1, <1>7 DEF Call, Honest
  <2>2. call' = [call EXCEPT ![c] = d]
    BY <1>7
  <2>3. QED
    BY <1>3, <2>1, <2>2
<1>8. CASE NoResponders(c)
  BY <1>7, <1>8 DEF NoResponders, Idle
<1>9. CASE Responded(c)
  <2>1. CASE call[c].ran \in {"threw", "unsendable"}
    BY <1>7, <1>9, <2>1 DEF Responded
  <2>2. CASE call[c].ran \notin {"threw", "unsendable"}
    BY <1>7, <1>9, <2>2 DEF Responded, Responses
  <2>3. QED
    BY <2>1, <2>2
<1>10. CASE InvokeTimeout(c)
  BY <1>7, <1>10 DEF InvokeTimeout
<1>11. QED
  BY <1>4, <1>6, <1>8, <1>9, <1>10

-----------------------------------------------------------------------------
(* Theorems                                                                *)

LEMMA InitInv ==
    ASSUME Init
    PROVE  Inv
<1>1. /\ Fresh \in Job /\ Idle \in Call /\ 0 \in 0 .. MaxCrashes /\ "down" \in Phase
      /\ << >> \in Seq(Messages) /\ Len(<< >>) = 0
  BY NatsAssumption DEF Fresh, Job, Idle, Call, Phase
<1>2. Fresh.st = "unsent" /\ Fresh.op = "none" /\ Idle.res = "none" /\ \A m : Settled(m, Fresh)
  BY DEF Fresh, Idle, Settled
<1>3. gate \in [Sockets -> Socket]
  BY <1>1 DEF Init, Socket
<1>4. Typed
  BY <1>1, <1>3 DEF Init, Typed
<1>5. Stored(queue, job)
  BY <1>1, <1>2 DEF Init, Stored, Within, Distinct
<1>6. \A s \in Sockets : Truthful(s)
  BY <1>1 DEF Init, Truthful, Distinct
<1>7. \A m \in Messages : Settled(m, job[m]) /\ Logged(m)
  BY <1>2 DEF Init, Logged
<1>8. \A c \in Calls : Honest(call[c])
  BY <1>2 DEF Init, Honest
<1>9. QED
  BY <1>4, <1>5, <1>6, <1>7, <1>8 DEF Inv

LEMMA StepInv ==
    ASSUME Inv, [Next]_vars
    PROVE  Inv'
<1>1. CASE Next
  BY <1>1, StartKeeps, CrashKeeps, StreamKeeps, TakeKeeps, PublishKeeps, GatewayKeeps, ReplyKeeps,
     HandlerKeeps, CallKeeps DEF Next
<1>2. CASE UNCHANGED vars
  BY <1>2 DEF vars, Inv, Typed, Stored, Settled, Logged, Subscribing, Truthful, Within, Distinct, Honest
<1>3. QED
  BY <1>1, <1>2

LEMMA Invariance == Spec => []Inv
BY InitInv, StepInv, PTL DEF Spec

\* For any number of instances, messages and crashes every value has its type,
\* and the stream holds what is queued, each message once.
THEOREM TypeCorrect == Spec => []TypeOK
<1>1. Inv => TypeOK
  <2> SUFFICES ASSUME Inv
               PROVE  TypeOK
    OBVIOUS
  <2>1. {queue[k] : k \in 1 .. Len(queue)} = {m \in Messages : job[m].st = "queued"}
    <3>1. \A k \in 1 .. Len(queue) : queue[k] \in Messages
      BY DEF Inv, Stored
    <3>2. QED
      BY <3>1 DEF Inv, Stored, Within
  <2>2. QED
    BY <2>1 DEF Inv, Typed, Stored, Distinct, TypeOK, Socket
<1>2. QED
  BY <1>1, Invariance, PTL

\* However often a message is delivered again, after whatever crashes, it is
\* answered at most once for each time it was taken, and not left without.
THEOREM EveryTakeAnsweredOnce == Spec => []AnsweredOnce
<1>1. Inv => AnsweredOnce
  BY DEF Inv, AnsweredOnce, Settled
<1>2. QED
  BY <1>1, Invariance, PTL

\* No client is told of a subscription the gateway did not make or end, nor is
\* it told twice, whatever is refused, late, given up or lost with its instance.
THEOREM ConfirmationsTrue == Spec => []NoFalseConfirmation
<1>1. Inv => NoFalseConfirmation
  BY DEF Inv, NoFalseConfirmation, Truthful, Within, Distinct
<1>2. QED
  BY <1>1, Invariance, PTL

\* What invoke() comes back with is what became of the command, or of the
\* sending of its result, for any number of instances, calls and crashes.
THEOREM ResultsTrue == Spec => []SuccessMeansDone
<1>1. Inv => SuccessMeansDone
  BY DEF Inv, SuccessMeansDone, Honest
<1>2. QED
  BY <1>1, Invariance, PTL

=============================================================================
