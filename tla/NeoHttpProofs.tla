--------------------------- MODULE NeoHttpProofs ---------------------------
(***************************************************************************)
(* Proofs about NeoHttp.  Every action ends in one of a few completion     *)
(* operators (Leave, Crash, UserSend, Handle, Iterate, FastRun).  Outcome says *)
(* what all of them have in common; one lemma shows that every step of the *)
(* pipeline is an Outcome for some request, and the theorems follow from   *)
(* that.                                                                   *)
(***************************************************************************)
EXTENDS NeoHttp, FiniteSetTheorems, TLAPS

\* the request is counted by the engine
Alive(q) == q.raw # "none" /\ ~q.completed /\ ~q.streamed

\* no stream of a known size has touched the request
Unsized(q) ==
    /\ ~q.streamed
    /\ \A j \in Runs : q.run[j] \notin {"sizing", "flushed"}

\* nothing user code does escapes the engine's bookkeeping
Plain == Behaviours \cap {"sized", "listener"} = {}

\* what is not completed can be answered, and has not been resolved
Regular(q) == Unsized(q) /\ (q.completed \/ q.raw = "open")

\* The only middleware has thrown into on_request, which has ended the raw
\* response behind the back of the Response.  Nothing happens to it any more.
Dead(r, q) ==
    /\ q.raw = "ended" /\ ~q.completed /\ ~q.streamed /\ ~q.sse /\ q.body = "none"
    /\ \A i \in Mws(r) : q.mw[i] = "threw"
    /\ \A j \in Runs : q.run[j] = "idle"

\* From the state q of r and the counter c, the step leaves r in a well-typed
\* state and the counter alone, or settles r and resolves one request.
Outcome(r, q, c) ==
    /\ up' \in BOOLEAN
    /\ \E p \in ReqState(r) :
          /\ req' = [req EXCEPT ![r] = p]
          /\ p.raw # "none"
          /\ Plain /\ Regular(q) => Regular(p) \/ Dead(r, p)
          /\ \/ /\ count' = c
                /\ Alive(p) <=> Alive(q)
             \/ /\ count' = Resolve(c)
                /\ ~Alive(p)
                /\ Alive(q) \/ ~Unsized(q)
             \/ /\ count' = c
                /\ ~Alive(p)
                /\ ~Regular(q)

\* q is a state of r that has left the socket
Begun(r, q) == q \in ReqState(r) /\ q.raw # "none"

LEMMA ResolveNat == ASSUME NEW c \in Nat PROVE Resolve(c) \in Nat
BY DEF Resolve

\* Leave and Crash change nothing beyond q and c.
LEMMA LeaveOutcome ==
    ASSUME TypeOK, NEW r \in Requests, NEW q, Begun(r, q), NEW c \in Nat,
           Leave(r, q, c) \/ Crash(r, q, c)
    PROVE  Outcome(r, q, c)
BY DEF Leave, Crash, Outcome, Begun, TypeOK

\* raw.end, with and without what send() does after it.
LEMMA Sent ==
    ASSUME NEW r \in Requests, NEW q, Begun(r, q)
    PROVE  /\ Ended(q) \in ReqState(r) /\ Ended(q).raw = "ended"
           /\ Replied(q) \in ReqState(r) /\ Replied(q).raw = "ended" /\ Replied(q).completed
           /\ Ended(q).completed = q.completed
           /\ Ended(q).streamed = q.streamed /\ Replied(q).streamed = q.streamed
           /\ Ended(q).run = q.run /\ Replied(q).run = q.run
           /\ Ended(q).sse = q.sse /\ Ended(q).body = q.body /\ Ended(q).mw = q.mw
BY DEF Begun, ReqState, RawStates, Ended, Replied

\* A reply settles a request that is not completed.
LEMMA ReplyOutcome ==
    ASSUME TypeOK, NEW r \in Requests, NEW q, Begun(r, q), ~q.completed, NEW c \in Nat,
           Leave(r, Replied(q), Resolve(c)) \/ Crash(r, Replied(q), Resolve(c))
    PROVE  Outcome(r, q, c)
<1> DEFINE p == Replied(q)
<1>1. p \in ReqState(r) /\ p.raw = "ended" /\ p.completed
      /\ p.streamed = q.streamed /\ p.run = q.run
  BY Sent
<1>2. req' = [req EXCEPT ![r] = p] /\ count' = Resolve(c) /\ up' \in BOOLEAN
  BY DEF Leave, Crash, TypeOK
<1> HIDE DEF p
<1>3. Regular(q) => Regular(p)
  BY <1>1 DEF Regular, Unsized
<1>4. ~Alive(p) /\ (Alive(q) \/ ~Unsized(q))
  BY <1>1 DEF Alive, Unsized, Begun
<1>5. QED
  BY <1>1, <1>2, <1>3, <1>4 DEF Outcome

\* Send settles a request that is not completed, once; with a listener that
\* throws it may settle it or leave it on a finished wire.
LEMMA SendOutcome ==
    ASSUME TypeOK, NEW r \in Requests, NEW q, Begun(r, q), NEW c \in Nat,
           UserSend(r, q, c) \/ EngineSend(r, q, c) \/ CloseThrows(r, q, c)
    PROVE  Outcome(r, q, c)
<1>1. CASE Leave(r, q, c) \/ Crash(r, q, c)
  BY <1>1, LeaveOutcome
<1>2. CASE ~q.completed /\ (Leave(r, Replied(q), Resolve(c)) \/ Crash(r, Replied(q), Resolve(c)))
  BY <1>2, ReplyOutcome
<1>3. CASE Fires(q) /\ (Leave(r, Ended(q), c) \/ Crash(r, Ended(q), c))
  <2> DEFINE p == Ended(q)
  <2>1. p \in ReqState(r) /\ p.raw = "ended" /\ p.completed = q.completed
        /\ p.streamed = q.streamed
    BY Sent
  <2>2. req' = [req EXCEPT ![r] = p] /\ count' = c /\ up' \in BOOLEAN
    BY <1>3 DEF Leave, Crash, TypeOK
  <2> HIDE DEF p
  <2>3. Alive(p) <=> Alive(q)
    BY <2>1 DEF Alive, Begun
  <2>4. ~Plain
    BY <1>3 DEF Fires, Plain
  <2>5. QED
    BY <2>1, <2>2, <2>3, <2>4 DEF Outcome
<1>4. QED
  BY <1>1, <1>2, <1>3 DEF UserSend, EngineSend, FinishCaught, FinishThrows, CloseThrows, Fires, Send

LEMMA PlainSend ==
    ASSUME NEW r, NEW q, NEW c, Send(r, q, c)
    PROVE  UserSend(r, q, c)
BY DEF UserSend

\* Handle starts one more execution of the handler.
LEMMA HandleOutcome ==
    ASSUME TypeOK, NEW r \in Requests, NEW q, Begun(r, q), NEW c \in Nat,
           Handle(r, q, c)
    PROVE  Outcome(r, q, c)
<1> DEFINE n == q.runs + 1
           f == [q.run EXCEPT ![n] = "running"]
           p == [q EXCEPT !.runs = n, !.run = f]
<1>0. n \in 0 .. MaxRuns /\ f \in [Runs -> RunStates]
  <2>1. q.runs \in 0 .. MaxRuns /\ q.runs < MaxRuns /\ q.run \in [Runs -> RunStates]
    BY DEF Begun, ReqState, Handle
  <2>2. "running" \in RunStates
    BY DEF RunStates
  <2>3. n \in 0 .. MaxRuns
    BY <2>1, ConfigAssumption
  <2>4. f \in [Runs -> RunStates]
    <3> HIDE DEF n
    <3> QED BY <2>1, <2>2
  <2>5. QED
    BY <2>3, <2>4
<1>a. \A j \in Runs : f[j] = q.run[j] \/ f[j] = "running"
  BY DEF Begun, ReqState
<1>3. req' = [req EXCEPT ![r] = p] /\ count' = c /\ up' \in BOOLEAN
  BY DEF Handle, Leave, TypeOK
<1> HIDE DEF n, f
<1>1. p \in ReqState(r)
  BY <1>0 DEF Begun, ReqState
<1>2. /\ p.raw = q.raw /\ p.completed = q.completed /\ p.streamed = q.streamed
      /\ \A j \in Runs : p.run[j] = q.run[j] \/ p.run[j] = "running"
  BY <1>a DEF Begun, ReqState
<1>4. Regular(q) => Regular(p)
  BY <1>2 DEF Regular, Unsized
<1>5. Alive(p) <=> Alive(q)
  BY <1>2 DEF Alive
<1> HIDE DEF p
<1>6. QED
  BY <1>1, <1>2, <1>3, <1>4, <1>5 DEF Outcome, Begun

\* Two states of a request that count alike.
Alike(p, q) ==
    (Alive(p) <=> Alive(q)) /\ (Unsized(p) <=> Unsized(q)) /\ (Regular(p) <=> Regular(q))

\* An Outcome does not depend on the fields that do not count.
LEMMA OutcomeTransfer ==
    ASSUME NEW r, NEW q, NEW p, NEW c, Outcome(r, p, c), Alike(p, q)
    PROVE  Outcome(r, q, c)
BY DEF Outcome, Alike

\* It is one of any state that is at least as regular.
LEMMA OutcomeBack ==
    ASSUME NEW r, NEW q, NEW p, NEW c, Outcome(r, p, c),
           Alive(p) <=> Alive(q), Unsized(q) => Unsized(p), Regular(q) => Regular(p)
    PROVE  Outcome(r, q, c)
BY DEF Outcome

\* Moving a middleware on is nothing to the counter.
LEMMA MwAlike ==
    ASSUME NEW r \in Requests, NEW q, Begun(r, q), NEW i \in Mws(r), NEW s \in MwStates
    PROVE  Begun(r, [q EXCEPT !.mw[i] = s]) /\ Alike([q EXCEPT !.mw[i] = s], q)
<1> DEFINE f == [q.mw EXCEPT ![i] = s]
           p == [q EXCEPT !.mw = f]
<1>1. f \in [Mws(r) -> MwStates]
  BY DEF Begun, ReqState
<1> HIDE DEF f
<1>2. p \in ReqState(r) /\ p.raw = q.raw /\ p.completed = q.completed
      /\ p.streamed = q.streamed /\ p.run = q.run
  BY <1>1 DEF Begun, ReqState
<1> HIDE DEF p
<1>3. Begun(r, p) /\ Alike(p, q)
  BY <1>2 DEF Begun, Alike, Alive, Unsized, Regular
<1>4. QED
  BY <1>3 DEF p, f

\* So is moving an execution of the handler, except into or out of a sized stream.
LEMMA RunAlike ==
    ASSUME NEW r \in Requests, NEW q, Begun(r, q), NEW j \in Runs, NEW s \in RunStates
    PROVE  /\ Begun(r, [q EXCEPT !.run[j] = s])
           /\ Alive([q EXCEPT !.run[j] = s]) <=> Alive(q)
           /\ s \notin {"sizing", "flushed"} /\ Unsized(q) => Unsized([q EXCEPT !.run[j] = s])
           /\ s \notin {"sizing", "flushed"} /\ Regular(q) => Regular([q EXCEPT !.run[j] = s])
           /\ [q EXCEPT !.run[j] = s].raw = q.raw
           /\ [q EXCEPT !.run[j] = s].completed = q.completed
           /\ [q EXCEPT !.run[j] = s].streamed = q.streamed
<1> DEFINE f == [q.run EXCEPT ![j] = s]
           p == [q EXCEPT !.run = f]
<1>1. f \in [Runs -> RunStates] /\ \A k \in Runs : f[k] = q.run[k] \/ f[k] = s
  BY DEF Begun, ReqState
<1> HIDE DEF f
<1>2. p \in ReqState(r) /\ p.raw = q.raw /\ p.completed = q.completed
      /\ p.streamed = q.streamed /\ p.run = f
  BY <1>1 DEF Begun, ReqState
<1> HIDE DEF p
<1>3. /\ Begun(r, p) /\ (Alive(p) <=> Alive(q))
      /\ s \notin {"sizing", "flushed"} /\ Unsized(q) => Unsized(p)
      /\ s \notin {"sizing", "flushed"} /\ Regular(q) => Regular(p)
  BY <1>1, <1>2 DEF Begun, Alive, Unsized, Regular
<1>4. QED
  BY <1>2, <1>3 DEF p, f

\* The step of the iterator at cursor i.
LEMMA IterateOutcome ==
    ASSUME TypeOK, NEW r \in Requests, NEW q, Begun(r, q), NEW i \in Nat, NEW c \in Nat,
           Iterate(r, q, i, c)
    PROVE  Outcome(r, q, c)
<1>1. CASE Leave(r, q, c) \/ UserSend(r, q, c) \/ Handle(r, q, c)
  BY <1>1, LeaveOutcome, SendOutcome, HandleOutcome
<1>2. CASE i \in Mws(r) /\ Leave(r, [q EXCEPT !.cursor = i, !.mw[i] = "running"], c)
  <2> DEFINE p == [q EXCEPT !.cursor = i]
             u == [p EXCEPT !.mw[i] = "running"]
  <2>1. Begun(r, p) /\ Alike(p, q)
    <3>1. i \in -1 .. Chain(r) - 1
      BY <1>2 DEF Mws
    <3>2. p \in ReqState(r) /\ p.raw = q.raw /\ p.completed = q.completed
          /\ p.streamed = q.streamed /\ p.run = q.run
      BY <3>1 DEF Begun, ReqState
    <3> HIDE DEF p
    <3>3. QED
      BY <3>2 DEF Begun, Alike, Alive, Unsized, Regular
  <2>2. Leave(r, u, c)
    BY <1>2
  <2> HIDE DEF p
  <2>3. Begun(r, u) /\ Alike(u, p)
    BY <2>1, <1>2, MwAlike DEF MwStates
  <2> HIDE DEF u
  <2>4. Outcome(r, u, c)
    BY <2>2, <2>3, LeaveOutcome
  <2>5. QED
    BY <2>1, <2>3, <2>4, OutcomeTransfer
<1>3. QED
  BY <1>1, <1>2 DEF Iterate

\* The steps of the fast path.
LEMMA FastRunOutcome ==
    ASSUME TypeOK, NEW r \in Requests, NEW q, Begun(r, q), NEW c \in Nat,
           FastRun(r, q, c)
    PROVE  Outcome(r, q, c)
<1>1. CASE Handle(r, q, c)
  BY <1>1, HandleOutcome
<1>2. ASSUME Global = 1, NEW s \in MwStates,
             \/ Leave(r, [q EXCEPT !.mw[0] = s], c)
             \/ Handle(r, [q EXCEPT !.mw[0] = s], c)
             \/ Send(r, [q EXCEPT !.mw[0] = s], c)
      PROVE  Outcome(r, q, c)
  <2> DEFINE p == [q EXCEPT !.mw[0] = s]
  <2>1. 0 \in Mws(r)
    BY <1>2, ConfigAssumption DEF Mws, Chain
  <2>2. Begun(r, p) /\ Alike(p, q)
    BY <2>1, MwAlike
  <2> HIDE DEF p
  <2>3. Outcome(r, p, c)
    BY <1>2, <2>2, LeaveOutcome, HandleOutcome, SendOutcome, PlainSend DEF p
  <2>4. QED
    BY <2>2, <2>3, OutcomeTransfer
<1>3. QED
  BY <1>1, <1>2 DEF FastRun, MwStates

-----------------------------------------------------------------------------
\* A request that has not come in is untouched.
Untouched == \A r \in Requests : req[r].raw = "none" => req[r] = Unborn(r)

\* The step of a request that comes in, and of one that is there.
Steps(r) ==
    \/ /\ req[r].raw = "none"
       /\ \E b \in {"none", "partial"} : Outcome(r, Accepted(r, b), count + 1)
    \/ req[r].raw # "none" /\ ~Dead(r, req[r]) /\ Outcome(r, req[r], count)

LEMMA AcceptedBegun ==
    ASSUME NEW r \in Requests, NEW b \in {"none", "partial"}
    PROVE  /\ Begun(r, Accepted(r, b)) /\ Alive(Accepted(r, b))
           /\ Unsized(Accepted(r, b)) /\ Regular(Accepted(r, b))
<1>1. Chain(r) \in Nat /\ MaxRuns \in Nat
  BY ConfigAssumption DEF Chain
<1>2. -1 \in -1 .. Chain(r) - 1 /\ 0 \in 0 .. MaxRuns
  BY <1>1
<1>3. Unborn(r) \in ReqState(r)
  BY <1>2 DEF Unborn, ReqState, RawStates, BodyStates, MwStates, RunStates
<1>4. QED
  BY <1>3 DEF Accepted, Begun, ReqState, Unborn, RawStates, BodyStates, Alive, Unsized, Regular

LEMMA ArriveSteps ==
    ASSUME TypeOK, NEW r \in Requests, Arrive(r)
    PROVE  Steps(r)
<1> DEFINE q == Accepted(r, "none")
           qb == Accepted(r, "partial")
<1>1. Begun(r, q) /\ Alive(q) /\ Unsized(q) /\ Begun(r, qb) /\ count + 1 \in Nat
  BY AcceptedBegun DEF TypeOK
<1>0. Outcome(r, q, count + 1) \/ Outcome(r, qb, count + 1) => Steps(r)
  BY DEF Steps, Arrive
<1>2. CASE ArriveWithBody(r)
  BY <1>0, <1>1, <1>2, LeaveOutcome DEF ArriveWithBody
<1>3. CASE ArriveFast(r)
  BY <1>0, <1>1, <1>3, FastRunOutcome DEF ArriveFast
<1>4. CASE ArriveSlow(r)
  BY <1>0, <1>1, <1>4, IterateOutcome DEF ArriveSlow
<1>5. CASE ArriveThrow(r)
  <2> DEFINE m == [q EXCEPT !.mw[0] = "threw"]
  <2>1. 0 \in Mws(r) /\ Mws(r) = {0}
    BY <1>5, ConfigAssumption DEF ArriveThrow, Mws, Chain, Fast
  <2>2. \/ Leave(r, Ended(m), count + 1)
        \/ Crash(r, m, count + 1)
        \/ Crash(r, Replied(m), Resolve(count + 1))
        \/ "listener" \in Behaviours /\ Crash(r, Ended(m), count + 1)
    BY <1>5 DEF ArriveThrow
  <2>a. /\ q.mw \in [Mws(r) -> MwStates] /\ q.body = "none" /\ ~q.sse /\ ~q.streamed
        /\ ~q.completed /\ q.raw = "open" /\ \A j \in Runs : q.run[j] = "idle"
    BY <1>1 DEF Accepted, Unborn, Begun, ReqState
  <2>b. /\ m.body = "none" /\ ~m.sse /\ ~m.streamed /\ ~m.completed /\ m.raw = "open"
        /\ \A i \in Mws(r) : m.mw[i] = "threw"
        /\ \A j \in Runs : m.run[j] = "idle"
    <3> HIDE DEF q
    <3>1. q \in ReqState(r)
      BY <1>1 DEF Begun
    <3>2. QED
      BY <2>1, <2>a, <3>1 DEF ReqState
  <2> HIDE DEF q
  <2>3. Begun(r, m) /\ Alike(m, q)
    BY <1>1, <2>1, MwAlike DEF MwStates
  <2> HIDE DEF m
  <2>4. CASE Crash(r, m, count + 1) \/ Crash(r, Replied(m), Resolve(count + 1))
    <3>1. Outcome(r, m, count + 1)
      BY <2>3, <2>4, <2>b, <1>1, LeaveOutcome, ReplyOutcome
    <3>2. Outcome(r, q, count + 1)
      BY <3>1, <2>3, OutcomeTransfer
    <3>3. QED
      BY <3>2, <1>0
  <2>5. CASE Leave(r, Ended(m), count + 1) \/ Crash(r, Ended(m), count + 1)
    <3> DEFINE p == Ended(m)
    <3>1. /\ p \in ReqState(r) /\ p.raw = "ended" /\ p.completed = m.completed
          /\ p.streamed = m.streamed /\ p.run = m.run /\ p.sse = m.sse
          /\ p.body = m.body /\ p.mw = m.mw
      BY <2>3, Sent
    <3>2. req' = [req EXCEPT ![r] = p] /\ count' = count + 1 /\ up' \in BOOLEAN
      BY <2>5 DEF Leave, Crash, TypeOK
    <3> HIDE DEF p
    <3>3. Dead(r, p) /\ Alive(p) /\ Alive(m)
      BY <3>1, <2>b DEF Dead, Alive
    <3>4. Outcome(r, m, count + 1)
      BY <3>1, <3>2, <3>3 DEF Outcome
    <3>5. Outcome(r, q, count + 1)
      BY <3>4, <2>3, OutcomeTransfer
    <3>6. QED
      BY <3>5, <1>0
  <2>6. QED
    BY <2>2, <2>4, <2>5
<1>6. QED
  BY <1>2, <1>3, <1>4, <1>5 DEF Arrive

\* Whatever has moved has come in.
LEMMA Here ==
    ASSUME TypeOK, Untouched, NEW r \in Requests,
           \/ req[r].raw = "open"
           \/ req[r].body # "none"
           \/ \E i \in Mws(r) : req[r].mw[i] \notin {"idle", "threw"}
           \/ \E j \in Runs : req[r].run[j] # "idle"
           \/ req[r].sse
    PROVE  Begun(r, req[r]) /\ count \in Nat /\ (Outcome(r, req[r], count) => Steps(r))
<1>1. req[r] \in ReqState(r) /\ count \in Nat
  BY DEF TypeOK
<1>2. ASSUME req[r].raw = "none"
      PROVE  FALSE
  <2>1. req[r] = Unborn(r)
    BY <1>2 DEF Untouched
  <2>2. /\ Unborn(r).raw = "none" /\ Unborn(r).body = "none" /\ Unborn(r).sse = FALSE
        /\ Unborn(r).mw = [i \in Mws(r) |-> "idle"]
        /\ Unborn(r).run = [j \in Runs |-> "idle"]
    BY DEF Unborn
  <2>3. QED
    BY <2>1, <2>2
<1>3. ~Dead(r, req[r])
  BY DEF Dead
<1>4. QED
  BY <1>1, <1>2, <1>3 DEF Begun, Steps

LEMMA BodySteps ==
    ASSUME TypeOK, Untouched, NEW r \in Requests,
           BodyTooLarge(r) \/ BodyEnd(r) \/ BodyResume(r)
    PROVE  Steps(r)
<1>1. req[r].body # "none"
  BY DEF BodyTooLarge, BodyEnd, BodyResume
<1>2. Begun(r, req[r]) /\ count \in Nat /\ (Outcome(r, req[r], count) => Steps(r))
  BY <1>1, Here
<1>3. ASSUME NEW b \in BodyStates, NEW q, q = [req[r] EXCEPT !.body = b]
      PROVE  Begun(r, q) /\ Alike(q, req[r]) /\ (Outcome(r, q, count) => Steps(r))
  <2>1. q \in ReqState(r) /\ q.raw = req[r].raw /\ q.completed = req[r].completed
        /\ q.streamed = req[r].streamed /\ q.run = req[r].run
    BY <1>2, <1>3 DEF Begun, ReqState
  <2>2. Begun(r, q) /\ Alike(q, req[r])
    BY <1>2, <2>1 DEF Begun, Alike, Alive, Unsized, Regular
  <2>3. QED
    BY <1>2, <2>2, OutcomeTransfer
<1>4. CASE BodyTooLarge(r)
  <2> DEFINE q == [req[r] EXCEPT !.body = "oversize"]
  <2>1. Begun(r, q) /\ (Outcome(r, q, count) => Steps(r))
    BY <1>3 DEF BodyStates
  <2>2. Send(r, q, count)
    BY <1>4 DEF BodyTooLarge
  <2> HIDE DEF q
  <2>3. QED
    BY <2>1, <2>2, <1>2, SendOutcome, PlainSend
<1>5. CASE BodyEnd(r)
  <2> DEFINE q == [req[r] EXCEPT !.body = "whole"]
  <2>1. Begun(r, q) /\ (Outcome(r, q, count) => Steps(r))
    BY <1>3 DEF BodyStates
  <2>2. Leave(r, q, count)
    BY <1>5 DEF BodyEnd
  <2> HIDE DEF q
  <2>3. QED
    BY <2>1, <2>2, <1>2, LeaveOutcome
<1>6. CASE BodyResume(r)
  <2> DEFINE q == [req[r] EXCEPT !.body = "parsed"]
             m == [q EXCEPT !.mw[0] = "threw"]
  <2>1. Begun(r, q) /\ (Outcome(r, q, count) => Steps(r))
    BY <1>3 DEF BodyStates
  <2>2. \/ Leave(r, q, count) \/ FastRun(r, q, count) \/ Iterate(r, q, 0, count)
        \/ Global = 1 /\ Crash(r, m, count)
    BY <1>6 DEF BodyResume
  <2> HIDE DEF q
  <2>3. CASE Leave(r, q, count) \/ FastRun(r, q, count) \/ Iterate(r, q, 0, count)
    BY <2>1, <2>3, <1>2, LeaveOutcome, FastRunOutcome, IterateOutcome
  <2>4. CASE Global = 1 /\ Crash(r, m, count)
    <3>1. 0 \in Mws(r)
      BY <2>4, ConfigAssumption DEF Mws, Chain
    <3>2. Begun(r, m) /\ Alike(m, q)
      BY <2>1, <3>1, MwAlike DEF MwStates
    <3> HIDE DEF m
    <3>3. Outcome(r, m, count)
      BY <2>4, <3>2, <1>2, LeaveOutcome
    <3>4. QED
      BY <3>2, <3>3, <2>1, OutcomeTransfer
  <2>5. QED
    BY <2>2, <2>3, <2>4
<1>7. QED
  BY <1>4, <1>5, <1>6

LEMMA AbortSteps ==
    ASSUME TypeOK, Untouched, NEW r \in Requests, Abort(r)
    PROVE  Steps(r)
<1> DEFINE q == [req[r] EXCEPT !.raw = "aborted"]
           p == [q EXCEPT !.completed = TRUE]
<1>1. Begun(r, req[r]) /\ count \in Nat /\ (Outcome(r, req[r], count) => Steps(r))
  BY Here DEF Abort
<1>2. /\ q \in ReqState(r) /\ q.raw = "aborted" /\ q.completed = req[r].completed
      /\ q.streamed = req[r].streamed /\ q.run = req[r].run
  BY <1>1 DEF Begun, ReqState, RawStates
<1>3. \/ req[r].completed /\ Leave(r, q, count)
      \/ /\ ~req[r].completed
         /\ Leave(r, p, Resolve(count)) \/ Crash(r, p, Resolve(count))
  BY <1>2 DEF Abort
<1> HIDE DEF q
<1>4. /\ p \in ReqState(r) /\ p.raw = "aborted" /\ p.completed
      /\ p.streamed = req[r].streamed /\ p.run = req[r].run
  BY <1>2 DEF ReqState
<1> HIDE DEF p
<1>5. CASE req[r].completed
  <2>1. Begun(r, q) /\ Alike(q, req[r])
    BY <1>1, <1>2, <1>5 DEF Begun, Alike, Alive, Unsized, Regular
  <2>2. Outcome(r, q, count)
    BY <2>1, <1>1, <1>3, <1>5, LeaveOutcome
  <2>3. QED
    BY <1>1, <2>1, <2>2, OutcomeTransfer
<1>6. CASE ~req[r].completed
  <2>1. ~Alive(p) /\ (Regular(req[r]) => Regular(p)) /\ (Alive(req[r]) \/ ~Unsized(req[r]))
    BY <1>1, <1>4, <1>6 DEF Begun, Alive, Unsized, Regular
  <2>2. Outcome(r, req[r], count)
    BY <2>1, <1>4, <1>3, <1>6 DEF Outcome, Leave, Crash, TypeOK
  <2>3. QED
    BY <1>1, <2>2
<1>7. QED
  BY <1>5, <1>6

LEMMA MwSteps ==
    ASSUME TypeOK, Untouched, NEW r \in Requests, NEW i \in Mws(r),
           MwSend(r, i) \/ MwNext(r, i) \/ MwReturn(r, i) \/ MwThrow(r, i)
    PROVE  Steps(r)
<1>1. req[r].mw[i] \notin {"idle", "threw"}
  BY DEF MwSend, MwNext, MwReturn, MwThrow, InMw
<1>2. Begun(r, req[r]) /\ count \in Nat /\ (Outcome(r, req[r], count) => Steps(r))
  BY <1>1, Here
<1>3. i + 1 \in Nat
  BY ConfigAssumption DEF Mws, Chain
<1>4. ASSUME NEW q, Begun(r, q), Alike(q, req[r]),
             \/ Leave(r, q, count) \/ Crash(r, q, count) \/ UserSend(r, q, count)
             \/ EngineSend(r, q, count) \/ CloseThrows(r, q, count)
             \/ Handle(r, q, count) \/ Iterate(r, q, i + 1, count)
      PROVE  Steps(r)
  <2>1. Outcome(r, q, count)
    BY <1>2, <1>3, <1>4, LeaveOutcome, SendOutcome, HandleOutcome, IterateOutcome
  <2>2. QED
    BY <1>2, <1>4, <2>1, OutcomeTransfer
<1>5. CASE UserSend(r, req[r], count) \/ Iterate(r, req[r], i + 1, count)
  BY <1>2, <1>4, <1>5 DEF Alike
<1>6. ASSUME NEW s \in MwStates, NEW q, q = [req[r] EXCEPT !.mw[i] = s],
             \/ Leave(r, q, count) \/ Crash(r, q, count) \/ UserSend(r, q, count)
             \/ EngineSend(r, q, count) \/ CloseThrows(r, q, count)
             \/ Handle(r, q, count) \/ Iterate(r, q, i + 1, count)
      PROVE  Steps(r)
  <2>1. Begun(r, q) /\ Alike(q, req[r])
    BY <1>2, <1>6, MwAlike
  <2>2. QED
    BY <1>4, <1>6, <2>1
<1>7. CASE MwSend(r, i)
  BY <1>5, <1>7 DEF MwSend
<1>8. CASE MwNext(r, i)
  BY <1>5, <1>6, <1>8 DEF MwNext, MwStates
<1>9. CASE MwReturn(r, i)
  BY <1>6, <1>9 DEF MwReturn, MwStates
<1>10. CASE MwThrow(r, i)
  BY <1>6, <1>10 DEF MwThrow, MwStates
<1>11. QED
  BY <1>7, <1>8, <1>9, <1>10

LEMMA HandlerSteps ==
    ASSUME TypeOK, Untouched, NEW r \in Requests, NEW j \in Runs,
           \/ HSend(r, j) \/ HReturn(r, j) \/ HThrow(r, j)
           \/ ChunkRefused(r, j) \/ ChunkTooLate(r, j)
    PROVE  Steps(r)
<1>1. req[r].run[j] # "idle"
  BY DEF HSend, HReturn, HThrow, ChunkRefused, ChunkTooLate, Running, Streaming
<1>2. Begun(r, req[r]) /\ count \in Nat /\ (Outcome(r, req[r], count) => Steps(r))
  BY <1>1, Here
<1>3. CASE UserSend(r, req[r], count) \/ Crash(r, req[r], count)
  BY <1>2, <1>3, SendOutcome, LeaveOutcome
<1>4. ASSUME NEW s \in {"done", "stalled"}, NEW q, q = [req[r] EXCEPT !.run[j] = s],
             \/ Leave(r, q, count) \/ Crash(r, q, count)
             \/ EngineSend(r, q, count) \/ CloseThrows(r, q, count)
      PROVE  Steps(r)
  <2>1. /\ Begun(r, q) /\ (Alive(q) <=> Alive(req[r]))
        /\ Unsized(req[r]) => Unsized(q)
        /\ Regular(req[r]) => Regular(q)
    BY <1>2, <1>4, RunAlike DEF RunStates
  <2>2. Outcome(r, q, count)
    BY <1>2, <1>4, <2>1, LeaveOutcome, SendOutcome
  <2>3. QED
    BY <1>2, <2>1, <2>2, OutcomeBack
<1>5. QED
  BY <1>3, <1>4 DEF HSend, HReturn, HThrow, ChunkRefused, ChunkTooLate

LEMMA CloseSteps ==
    ASSUME TypeOK, Untouched, NEW r \in Requests, NEW j \in Runs, HClose(r, j)
    PROVE  Steps(r)
<1> DEFINE w == IF req[r].raw = "open" THEN "closed" ELSE req[r].raw
           p == [req[r] EXCEPT !.completed = TRUE, !.raw = w]
<1>1. Begun(r, req[r]) /\ count \in Nat /\ (Outcome(r, req[r], count) => Steps(r))
  BY Here DEF HClose, Running
<1>2. w \in RawStates /\ w # "none"
  BY <1>1 DEF Begun, ReqState, RawStates
<1>3. Leave(r, p, Resolve(count)) /\ ~req[r].completed
  BY DEF HClose
<1> HIDE DEF w
<1>4. /\ p \in ReqState(r) /\ p.raw = w /\ p.completed
      /\ p.streamed = req[r].streamed /\ p.run = req[r].run
  BY <1>1, <1>2 DEF Begun, ReqState
<1> HIDE DEF p
<1>5. ~Alive(p) /\ (Regular(req[r]) => Regular(p)) /\ (Alive(req[r]) \/ ~Unsized(req[r]))
  BY <1>1, <1>3, <1>4 DEF Begun, Alive, Unsized, Regular
<1>6. QED
  BY <1>1, <1>2, <1>3, <1>4, <1>5 DEF Outcome, Leave, TypeOK

LEMMA SseSteps ==
    ASSUME TypeOK, Untouched, NEW r \in Requests, NEW j \in Runs,
           SseOpen(r, j) \/ SseClose(r) \/ SseWriteFails(r)
    PROVE  Steps(r)
<1> DEFINE p == [req[r] EXCEPT !.sse = TRUE]
<1>1. Begun(r, req[r]) /\ count \in Nat /\ (Outcome(r, req[r], count) => Steps(r))
  <2>1. req[r].sse \/ req[r].raw = "open" \/ \E k \in Runs : req[r].run[k] # "idle"
    BY DEF SseOpen, SseClose, SseWriteFails, Running
  <2>2. QED
    BY <2>1, Here
<1>2. CASE SseClose(r)
  BY <1>1, <1>2, SendOutcome DEF SseClose
<1>3. CASE SseOpen(r, j)
  <2>1. Leave(r, p, count)
    BY <1>3 DEF SseOpen
  <2>2. /\ p \in ReqState(r) /\ p.raw = req[r].raw /\ p.completed = req[r].completed
        /\ p.streamed = req[r].streamed /\ p.run = req[r].run
    BY <1>1 DEF Begun, ReqState
  <2> HIDE DEF p
  <2>3. Begun(r, p) /\ Alike(p, req[r])
    BY <1>1, <2>2 DEF Begun, Alike, Alive, Unsized, Regular
  <2>4. Outcome(r, p, count)
    BY <1>1, <2>1, <2>3, LeaveOutcome
  <2>5. QED
    BY <1>1, <2>3, <2>4, OutcomeTransfer
<1>4. CASE SseWriteFails(r)
  <2> DEFINE u == [req[r] EXCEPT !.completed = TRUE]
  <2>1. /\ Leave(r, u, count) /\ ~req[r].completed
        /\ req[r].raw # "open"
    BY <1>4 DEF SseWriteFails
  <2>2. u \in ReqState(r) /\ u.raw = req[r].raw /\ u.completed
    BY <1>1 DEF Begun, ReqState
  <2> HIDE DEF u
  <2>3. ~Alive(u) /\ ~Regular(req[r])
    BY <2>1, <2>2 DEF Alive, Regular
  <2>4. Outcome(r, req[r], count)
    BY <1>1, <2>1, <2>2, <2>3 DEF Outcome, Leave, Begun, TypeOK
  <2>5. QED
    BY <1>1, <2>4
<1>5. QED
  BY <1>2, <1>3, <1>4

LEMMA StreamSteps ==
    ASSUME TypeOK, Untouched, NEW r \in Requests, NEW j \in Runs,
           StreamStart(r, j) \/ ChunkLast(r, j) \/ StreamEnd(r, j)
    PROVE  Steps(r)
<1>1. Begun(r, req[r]) /\ count \in Nat /\ (Outcome(r, req[r], count) => Steps(r))
  BY Here DEF StreamStart, Running, ChunkLast, StreamEnd, Streaming
<1>2. CASE StreamStart(r, j)
  <2>1. PICK s \in {"streaming", "sizing"} :
          /\ Leave(r, [req[r] EXCEPT !.run[j] = s], count)
          /\ "sized" \notin Behaviours => s = "streaming"
    BY <1>2 DEF StreamStart
  <2> DEFINE p == [req[r] EXCEPT !.run[j] = s]
  <2>2. /\ Begun(r, p) /\ (Alive(p) <=> Alive(req[r])) /\ Leave(r, p, count)
        /\ Plain /\ Regular(req[r]) => Regular(p)
    BY <1>1, <2>1, RunAlike DEF RunStates, Plain
  <2> HIDE DEF p
  <2>3. QED
    BY <1>1, <2>2 DEF Outcome, Leave, Begun, TypeOK
<1>3. CASE ChunkLast(r, j)
  <2> DEFINE q == [req[r] EXCEPT !.run[j] = "flushed"]
             p == [q EXCEPT !.raw = "ended"]
  <2>1. Begun(r, q) /\ (Alive(q) <=> Alive(req[r])) /\ ~Regular(req[r])
    BY <1>1, <1>3, RunAlike DEF RunStates, ChunkLast, Unsized, Regular
  <2>2. Leave(r, p, count)
    BY <1>3 DEF ChunkLast
  <2> HIDE DEF q
  <2>3. /\ p \in ReqState(r) /\ p.raw = "ended" /\ p.completed = q.completed
        /\ p.streamed = q.streamed
    BY <2>1 DEF Begun, ReqState, RawStates
  <2> HIDE DEF p
  <2>4. Alive(p) <=> Alive(req[r])
    BY <2>1, <2>3 DEF Alive, Begun
  <2>5. QED
    BY <1>1, <2>1, <2>2, <2>3, <2>4 DEF Outcome, Leave, TypeOK
<1>4. CASE StreamEnd(r, j)
  <2> DEFINE q == [req[r] EXCEPT !.run[j] = "running"]
             p == [q EXCEPT !.streamed = TRUE]
  <2>1. /\ Begun(r, q) /\ (Alive(q) <=> Alive(req[r]))
        /\ Unsized(req[r]) => Unsized(q)
        /\ Regular(req[r]) => Regular(q)
        /\ q.completed = req[r].completed /\ q.streamed = req[r].streamed
    <3>1. "running" \in RunStates /\ "running" \notin {"sizing", "flushed"}
      BY DEF RunStates
    <3>2. QED
      BY <1>1, <3>1, RunAlike, SMTT(30)
  <2>2. \/ Leave(r, q, count)
        \/ ~q.completed /\ UserSend(r, q, count) /\ req[r].run[j] = "streaming"
        \/ /\ req[r].run[j] \in {"flushed", "sizing"} /\ ~q.completed
           /\ Leave(r, p, Resolve(count))
    BY <1>4 DEF StreamEnd
  <2> HIDE DEF q
  <2>3. CASE Leave(r, q, count)
    BY <1>1, <2>1, <2>3 DEF Outcome, Leave, Begun, TypeOK
  <2>4. CASE UserSend(r, q, count)
    <3>1. Outcome(r, q, count)
      BY <1>1, <2>1, <2>4, SendOutcome
    <3>2. QED
      BY <1>1, <2>1, <3>1, OutcomeBack
  <2>5. CASE /\ req[r].run[j] \in {"flushed", "sizing"} /\ ~q.completed
             /\ Leave(r, p, Resolve(count))
    <3>1. ~Unsized(req[r])
      BY <2>5 DEF Unsized
    <3>2. p \in ReqState(r) /\ p.raw = q.raw /\ p.streamed
      BY <2>1 DEF Begun, ReqState
    <3> HIDE DEF p
    <3>3. ~Alive(p) /\ p.raw # "none"
      BY <2>1, <3>2 DEF Alive, Begun
    <3>4. ~Regular(req[r])
      BY <3>1 DEF Regular
    <3>5. QED
      BY <1>1, <2>5, <3>1, <3>2, <3>3, <3>4 DEF Outcome, Leave, TypeOK
  <2>6. QED
    BY <2>2, <2>3, <2>4, <2>5
<1>5. QED
  BY <1>2, <1>3, <1>4

\* Every step of the pipeline is an Outcome for the request that takes it.
LEMMA NextSteps ==
    ASSUME TypeOK, Untouched, Next
    PROVE  \E r \in Requests : Steps(r)
<1>1. PICK r \in Requests : Socket(r) \/ Mw(r) \/ Handler(r) \/ SseClose(r) \/ SseWriteFails(r)
  BY DEF Next
<1>2. CASE Socket(r)
  BY <1>2, ArriveSteps, BodySteps, AbortSteps DEF Socket
<1>3. CASE Mw(r)
  BY <1>3, MwSteps DEF Mw
<1>4. CASE Handler(r)
  BY <1>4, HandlerSteps, CloseSteps, SseSteps, StreamSteps DEF Handler
<1>5. CASE SseClose(r) \/ SseWriteFails(r)
  <2>1. 1 \in Runs
    BY ConfigAssumption DEF Runs
  <2>2. QED
    BY <1>5, <2>1, SseSteps
<1>6. QED
  BY <1>1, <1>2, <1>3, <1>4, <1>5

-----------------------------------------------------------------------------
(* The inductive invariant and what it gives                               *)

\* well typed, and a request that has not come in is untouched
IInv == TypeOK /\ Untouched

\* What a step does to r, the other requests and the counter.
StepShape(r) ==
    \E p \in ReqState(r) :
       /\ req' = [req EXCEPT ![r] = p]
       /\ req'[r] = p /\ p.raw # "none"
       /\ \A s \in Requests \ {r} : req'[s] = req[s]
       /\ up' \in BOOLEAN
       /\ \/ /\ req[r].raw = "none"
             /\ Plain => Regular(p) \/ Dead(r, p)
             /\ \/ count' = count + 1 /\ Alive(p)
                \/ count' = count /\ ~Alive(p)
          \/ /\ req[r].raw # "none" /\ ~Dead(r, req[r])
             /\ Plain /\ Regular(req[r]) => Regular(p) \/ Dead(r, p)
             /\ \/ count' = count /\ (Alive(p) <=> Alive(req[r]))
                \/ /\ count' = Resolve(count) /\ ~Alive(p)
                   /\ Alive(req[r]) \/ ~Unsized(req[r])
                \/ count' = count /\ ~Alive(p) /\ ~Regular(req[r])

LEMMA StepEffect ==
    ASSUME IInv, NEW r \in Requests, Steps(r)
    PROVE  StepShape(r)
<1> USE DEF IInv
<1>1. ASSUME req[r].raw = "none", NEW b \in {"none", "partial"},
             Outcome(r, Accepted(r, b), count + 1)
      PROVE  StepShape(r)
  <2>1. Alive(Accepted(r, b)) /\ Unsized(Accepted(r, b)) /\ Regular(Accepted(r, b))
    BY AcceptedBegun
  <2>2. Resolve(count + 1) = count
    BY DEF Resolve, TypeOK
  <2>3. PICK p \in ReqState(r) :
          /\ req' = [req EXCEPT ![r] = p]
          /\ p.raw # "none"
          /\ Plain => Regular(p) \/ Dead(r, p)
          /\ \/ count' = count + 1 /\ Alive(p)
             \/ count' = count /\ ~Alive(p)
    BY <1>1, <2>1, <2>2 DEF Outcome
  <2>4. QED
    BY <1>1, <2>3 DEF Outcome, TypeOK, StepShape
<1>2. CASE req[r].raw # "none" /\ ~Dead(r, req[r]) /\ Outcome(r, req[r], count)
  BY <1>2 DEF Outcome, TypeOK, StepShape
<1>3. QED
  BY <1>1, <1>2 DEF Steps

LEMMA InitIInv == Init => IInv
<1> SUFFICES ASSUME Init PROVE IInv
  OBVIOUS
<1>1. ASSUME NEW r \in Requests PROVE Unborn(r) \in ReqState(r)
  <2>1. Chain(r) \in Nat /\ MaxRuns \in Nat
    BY ConfigAssumption DEF Chain
  <2>2. -1 \in -1 .. Chain(r) - 1 /\ 0 \in 0 .. MaxRuns
    BY <2>1
  <2>3. QED
    BY <2>2 DEF Unborn, ReqState, RawStates, BodyStates, MwStates, RunStates
<1>2. QED
  BY <1>1 DEF Init, IInv, TypeOK, Untouched

LEMMA StepIInv == IInv /\ [Next]_vars => IInv'
<1> SUFFICES ASSUME IInv, [Next]_vars PROVE IInv'
  OBVIOUS
<1>1. CASE Next
  <2>1. PICK r \in Requests : Steps(r)
    BY <1>1, NextSteps DEF IInv
  <2>2. PICK p \in ReqState(r) :
          /\ req' = [req EXCEPT ![r] = p]
          /\ req'[r] = p /\ p.raw # "none"
          /\ \A s \in Requests \ {r} : req'[s] = req[s]
          /\ up' \in BOOLEAN
          /\ count' \in Nat
    <3>1. count \in Nat /\ count + 1 \in Nat /\ Resolve(count) \in Nat
      BY ResolveNat DEF IInv, TypeOK
    <3>2. QED
      BY <2>1, <3>1, StepEffect DEF StepShape
  <2>3. TypeOK'
    BY <2>2 DEF IInv, TypeOK
  <2>4. Untouched'
    BY <2>2 DEF IInv, Untouched
  <2>5. QED
    BY <2>3, <2>4 DEF IInv
<1>2. CASE UNCHANGED vars
  BY <1>2 DEF vars, IInv, TypeOK, Untouched
<1>3. QED
  BY <1>1, <1>2

LEMMA Inductive == Spec => []IInv
BY InitIInv, StepIInv, PTL DEF Spec

\* Requests, responses, frames and the counter keep their types, whatever the
\* chains, the requests and the behaviour of user code.
THEOREM TypeCorrect == Spec => []TypeOK
<1>1. IInv => TypeOK
  BY DEF IInv
<1>2. QED
  BY <1>1, Inductive, PTL

-----------------------------------------------------------------------------
(* The pending-request counter                                             *)

LEMMA PendingFinite == IsFiniteSet(Pending) /\ IsFiniteSet(Pending')
                       /\ Cardinality(Pending) \in Nat /\ Cardinality(Pending') \in Nat
<1>1. Pending \subseteq Requests /\ Pending' \subseteq Requests
  BY DEF Pending
<1>2. QED
  BY <1>1, FS_Subset, FS_CardinalityType, ConfigAssumption

LEMMA AddOne ==
    ASSUME NEW S, NEW x, IsFiniteSet(S), x \notin S
    PROVE  Cardinality(S \cup {x}) = Cardinality(S) + 1
BY FS_AddElement

LEMMA DropOne ==
    ASSUME NEW S, NEW x, IsFiniteSet(S), x \in S
    PROVE  Cardinality(S \ {x}) = Cardinality(S) - 1
BY FS_RemoveElement

\* A step changes the set of pending requests by r at most.
LEMMA PendingEffect ==
    ASSUME IInv, NEW r \in Requests, NEW p \in ReqState(r),
           req'[r] = p, \A s \in Requests \ {r} : req'[s] = req[s]
    PROVE  /\ r \in Pending <=> Alive(req[r])
           /\ Alive(p) => Pending' = Pending \cup {r}
           /\ ~Alive(p) => Pending' = Pending \ {r}
BY DEF Pending, Alive

\* no user code gets at a request behind the engine's back, and the counter is
\* exact
CountInv ==
    /\ \A r \in Requests : req[r].raw # "none" => Regular(req[r]) \/ Dead(r, req[r])
    /\ CountExact

LEMMA InitCountInv == Init => CountInv
<1> SUFFICES ASSUME Init PROVE CountInv
  OBVIOUS
<1>1. Pending = {} /\ \A r \in Requests : req[r].raw = "none"
  BY DEF Init, Pending, Unborn
<1>2. QED
  BY <1>1, FS_EmptySet DEF Init, CountInv, CountExact

\* What a step is for the counter when it is exact: the counter moves with the
\* set of pending requests.
LEMMA ExactEffect ==
    ASSUME Plain, IInv, CountInv, NEW r \in Requests, Steps(r)
    PROVE  /\ CountInv'
           /\ \/ Pending' = Pending /\ count' = count
              \/ /\ req[r].raw = "none"
                 /\ Pending' = Pending \cup {r} /\ count' = count + 1
              \/ /\ r \in Pending /\ req[r].raw # "none"
                 /\ Pending' = Pending \ {r} /\ count' = count - 1
<1>1. PICK p \in ReqState(r) :
         /\ req'[r] = p /\ p.raw # "none"
         /\ Regular(p) \/ Dead(r, p)
         /\ \A s \in Requests \ {r} : req'[s] = req[s]
         /\ \/ /\ req[r].raw = "none"
               /\ \/ count' = count + 1 /\ Alive(p)
                  \/ count' = count /\ ~Alive(p)
            \/ /\ req[r].raw # "none"
               /\ \/ count' = count /\ (Alive(p) <=> Alive(req[r]))
                  \/ count' = Resolve(count) /\ ~Alive(p) /\ Alive(req[r])
  BY StepEffect DEF StepShape, CountInv, Regular
<1>2. /\ r \in Pending <=> Alive(req[r])
      /\ Alive(p) => Pending' = Pending \cup {r}
      /\ ~Alive(p) => Pending' = Pending \ {r}
  BY <1>1, PendingEffect
<1>3. req[r].raw = "none" => ~Alive(req[r])
  BY DEF Alive
<1>4. r \notin Pending => Cardinality(Pending \cup {r}) = Cardinality(Pending) + 1
  BY PendingFinite, AddOne
<1>5. r \in Pending => Cardinality(Pending \ {r}) = Cardinality(Pending) - 1
  BY PendingFinite, DropOne
<1>6. /\ r \in Pending => Pending \cup {r} = Pending
      /\ r \notin Pending => Pending \ {r} = Pending
  OBVIOUS
<1>7. count \in Nat /\ count = Cardinality(Pending)
      /\ Cardinality(Pending) \in Nat /\ Cardinality(Pending') \in Nat
  BY PendingFinite DEF IInv, TypeOK, CountInv, CountExact
<1>8. r \in Pending => count >= 1
  BY <1>7, PendingFinite, FS_EmptySet
<1>9. /\ CountExact'
      /\ \/ Pending' = Pending /\ count' = count
         \/ /\ req[r].raw = "none"
            /\ Pending' = Pending \cup {r} /\ count' = count + 1
         \/ /\ r \in Pending /\ req[r].raw # "none"
            /\ Pending' = Pending \ {r} /\ count' = count - 1
  <2>1. CASE req[r].raw = "none"
    BY <1>1, <1>2, <1>3, <1>4, <1>6, <1>7, <2>1 DEF CountExact
  <2>2. CASE req[r].raw # "none" /\ count' = count /\ (Alive(p) <=> Alive(req[r]))
    BY <1>2, <1>6, <1>7, <2>2 DEF CountExact
  <2>3. CASE req[r].raw # "none" /\ count' = Resolve(count) /\ ~Alive(p) /\ Alive(req[r])
    <3>1. r \in Pending /\ Pending' = Pending \ {r} /\ count' = count - 1
      BY <1>2, <1>7, <1>8, <2>3 DEF Resolve
    <3>2. Cardinality(Pending') = Cardinality(Pending) - 1
      BY <1>5, <3>1
    <3>3. QED
      BY <1>7, <2>3, <3>1, <3>2 DEF CountExact
  <2>4. QED
    BY <1>1, <2>1, <2>2, <2>3
<1>10. \A s \in Requests : req'[s].raw # "none" => Regular(req'[s]) \/ Dead(s, req'[s])
  BY <1>1 DEF CountInv
<1>11. (\A s \in Requests : req[s].raw # "none" => Regular(req[s]) \/ Dead(s, req[s]))'
  BY <1>10 DEF Regular, Unsized, Dead, Mws, Chain, Runs
<1>12. CountInv'
  BY <1>9, <1>11 DEF CountInv
<1>13. QED
  BY <1>9, <1>12

LEMMA StepCountInv ==
    ASSUME Plain, IInv, CountInv, [Next]_vars
    PROVE  CountInv'
<1>1. CASE Next
  BY <1>1, NextSteps, ExactEffect DEF IInv
<1>2. CASE UNCHANGED vars
  BY <1>2 DEF vars, CountInv, CountExact, Pending, Regular, Unsized, Dead, Mws, Chain, Runs
<1>3. QED
  BY <1>1, <1>2

\* pending_requests_count is the number of requests in flight, for every
\* interleaving of any number of requests and of user code that may throw
\* anything, call next() again or late, close, or never answer, as long as no
\* stream has a total_size and no listener throws.
THEOREM CounterIsExact ==
    ASSUME Plain
    PROVE  Spec => []CountExact
<1>1. IInv /\ CountInv /\ [Next]_vars => CountInv'
  BY StepCountInv
<1>2. CountInv => CountExact
  BY DEF CountInv
<1>3. QED
  BY InitCountInv, <1>1, <1>2, Inductive, PTL DEF Spec

\* Every step of the engine is a step of InFlight or leaves it alone.
LEMMA StepRefines ==
    ASSUME Plain, IInv, CountInv, [Next]_vars
    PROVE  [Abstract!Next]_(Abstract!vars)
<1> DEFINE fresh == {r \in Requests : req[r].raw = "none"}
<1>1. CASE Next
  <2>1. PICK r \in Requests : Steps(r)
    BY <1>1, NextSteps DEF IInv
  <2>2. /\ \/ Pending' = Pending /\ count' = count
           \/ /\ req[r].raw = "none"
              /\ Pending' = Pending \cup {r} /\ count' = count + 1
           \/ /\ r \in Pending /\ req[r].raw # "none"
              /\ Pending' = Pending \ {r} /\ count' = count - 1
    BY <2>1, ExactEffect
  <2>3. req'[r].raw # "none" /\ \A s \in Requests \ {r} : req'[s] = req[s]
    BY <2>1, StepEffect DEF StepShape
  <2>4. /\ req[r].raw = "none" => r \in fresh /\ fresh' = fresh \ {r}
        /\ req[r].raw # "none" => fresh' = fresh
    BY <2>3
  <2> HIDE DEF fresh
  <2>5. CASE Pending' = Pending /\ count' = count /\ req[r].raw = "none"
    <3>1. Abstract!Serve(r)
      BY <2>4, <2>5 DEF Abstract!Serve, fresh
    <3>2. QED
      BY <3>1 DEF Abstract!Next
  <2>6. CASE Pending' = Pending /\ count' = count /\ req[r].raw # "none"
    BY <2>4, <2>6 DEF Abstract!vars, fresh
  <2>7. CASE /\ req[r].raw = "none"
             /\ Pending' = Pending \cup {r} /\ count' = count + 1
    <3>1. Abstract!Admit(r)
      BY <2>4, <2>7 DEF Abstract!Admit, fresh
    <3>2. QED
      BY <3>1 DEF Abstract!Next
  <2>8. CASE /\ r \in Pending /\ req[r].raw # "none"
             /\ Pending' = Pending \ {r} /\ count' = count - 1
    <3>1. Abstract!Settle(r)
      BY <2>4, <2>8 DEF Abstract!Settle, fresh
    <3>2. QED
      BY <3>1 DEF Abstract!Next
  <2>9. QED
    BY <2>2, <2>5, <2>6, <2>7, <2>8
<1>2. CASE UNCHANGED vars
  BY <1>2 DEF vars, Abstract!vars, Pending
<1>3. QED
  BY <1>1, <1>2

\* The engine's bookkeeping implements InFlight: a request is admitted once,
\* settled at most once, and the counter follows.
THEOREM Refinement ==
    ASSUME Plain
    PROVE  Spec => Implements
<1>1. Init => Abstract!Init
  <2> SUFFICES ASSUME Init PROVE Abstract!Init
    OBVIOUS
  <2>1. Pending = {} /\ {r \in Requests : req[r].raw = "none"} = Requests
    BY DEF Init, Pending, Unborn
  <2>2. QED
    BY <2>1 DEF Init, Abstract!Init
<1>2. IInv /\ CountInv /\ [Next]_vars => [Abstract!Next]_(Abstract!vars)
  BY StepRefines
<1>3. IInv /\ CountInv /\ [Next]_vars => CountInv'
  BY StepCountInv
<1>4. QED
  BY InitCountInv, <1>1, <1>2, <1>3, Inductive, PTL DEF Spec, Implements, Abstract!Spec

=============================================================================
