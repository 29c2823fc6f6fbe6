------------------------- MODULE NeoHttpOrderProofs -------------------------
(***************************************************************************)
(* Proofs about the order in which NeoHttp runs the user's code: never     *)
(* before the body, never after completion, no middleware twice, the       *)
(* handler behind all of them; and about what ends the process.            *)
(***************************************************************************)
EXTENDS NeoHttpProofs

LetThrough == {"advanced", "returned", "done"}

\* next() is called at most once by a middleware, and before it has returned
Calm == Behaviours \cap {"double_next", "late"} = {}

(***************************************************************************)
(* The strengthening, of a request in state q.                             *)
(***************************************************************************)

\* the chain has run in order up to the cursor; the fast path has no next()
InOrder(r, q) ==
    /\ ~Fast(r) =>
          \A i \in Mws(r) : q.mw[i] # "idle" =>
              /\ i <= q.cursor
              /\ \A k \in Mws(r) : k < i => q.mw[k] \notin {"idle", "running"}
    /\ Fast(r) => \A i \in Mws(r) : q.mw[i] # "advanced"

\* nothing has started while the body is on its way, or after it was refused
Waits(r, q) ==
    /\ q.body \notin {"none", "parsed"} => q.runs = 0 /\ \A i \in Mws(r) : q.mw[i] = "idle"
    /\ q.runs = 0 => \A j \in Runs : q.run[j] = "idle"

Final(q) == q.completed => q.raw \in {"ended", "closed", "aborted"}

\* one middleware runs, or the handler has been started, or neither
Baton(r, q) ==
    Calm => /\ q.runs <= 1
            /\ q.runs = 1 => \A i \in Mws(r) : q.mw[i] # "running"
            /\ \A i, k \in Mws(r) : q.mw[i] = "running" /\ q.mw[k] = "running" => i = k

\* what is not completed can still be answered, behind the iterator
Answerable(r, q) ==
    Plain /\ ~Fast(r) => Unsized(q) /\ (q.completed \/ q.raw \in {"none", "open"})

Sound(r, q) ==
    InOrder(r, q) /\ Waits(r, q) /\ Final(q) /\ Baton(r, q) /\ Answerable(r, q)

\* a throw of a middleware is answered, or it ends the process
Thrown(r, q) == ~Fast(r) => \A i \in Mws(r) : q.mw[i] = "threw" => q.completed \/ ~up

Ordered ==
    /\ IInv
    /\ \A r \in Requests : Sound(r, req[r]) /\ Thrown(r, req[r])

-----------------------------------------------------------------------------
(* What a step does to the request that takes it                           *)

\* From the state q of r, the step ends with nothing started, with the next
\* middleware started, or with the handler started behind all of them.
Went(r, q) ==
    /\ \A s \in Requests \ {r} : req'[s] = req[s]
    /\ Sound(r, req'[r])
    /\ up' \in {up, FALSE} /\ (Plain /\ ~Fast(r) => up' = up)
    /\ q.completed => req'[r].completed
    /\ \/ req'[r].mw = q.mw /\ req'[r].runs = q.runs
       \/ /\ ~q.completed /\ req'[r].runs = q.runs
          /\ \E i \in Mws(r) : q.mw[i] = "idle" /\ req'[r].mw = [q.mw EXCEPT ![i] = "running"]
       \/ /\ ~q.completed /\ req'[r].mw = q.mw
          /\ \A i \in Mws(r) : q.mw[i] \in LetThrough

\* The same from the state in which the step found r.
Moved(r) ==
    /\ \A s \in Requests \ {r} : req'[s] = req[s]
    /\ Sound(r, req'[r])
    /\ Thrown(r, req[r])'
    /\ up' \in {up, FALSE} /\ (Plain /\ ~Fast(r) => up' = up)
    /\ req[r].completed =>
          /\ req'[r].runs = req[r].runs
          /\ \A i \in Mws(r) : req[r].mw[i] = "idle" => req'[r].mw[i] = "idle"
    /\ \A i \in Mws(r) :
          req[r].mw[i] # "idle" => (req'[r].mw[i] = "running" => req[r].mw[i] = "running")
    /\ req'[r].runs > req[r].runs => \A i \in Mws(r) : req'[r].mw[i] \in LetThrough

\* The step has brought r to q so far and has started nothing.
Near(r, q) ==
    /\ Begun(r, q)
    /\ q.runs = req[r].runs
    /\ req[r].completed => q.completed
    /\ \A i \in Mws(r) :
          \/ q.mw[i] = req[r].mw[i]
          \/ q.mw[i] \notin {"idle", "running"} /\ (req[r].mw[i] # "idle" \/ ~req[r].completed)

\* What a throw has met so far.
Caught(r, q) ==
    \/ Fast(r)
    \/ \A i \in Mws(r) : q.mw[i] = "threw" => q.completed
    \/ req'[r].completed
    \/ ~up'

LEMMA WentMoved ==
    ASSUME IInv, IInv', NEW r \in Requests, NEW q, Near(r, q), Went(r, q), Caught(r, q)
    PROVE  Moved(r)
<1> DEFINE p == req'[r]
<1>0. /\ q.mw \in [Mws(r) -> MwStates] /\ req[r].mw \in [Mws(r) -> MwStates]
      /\ p.mw \in [Mws(r) -> MwStates] /\ req[r].runs \in Nat /\ p.runs \in Nat
  BY ConfigAssumption DEF Near, Begun, IInv, TypeOK, ReqState
<1>1. /\ q.runs = req[r].runs
      /\ req[r].completed => q.completed
      /\ \A i \in Mws(r) :
            \/ q.mw[i] = req[r].mw[i]
            \/ q.mw[i] \notin {"idle", "running"} /\ (req[r].mw[i] # "idle" \/ ~req[r].completed)
  BY DEF Near
<1>2. /\ q.completed => p.completed
      /\ \/ p.mw = q.mw /\ p.runs = q.runs
         \/ /\ ~q.completed /\ p.runs = q.runs
            /\ \E i \in Mws(r) : q.mw[i] = "idle" /\ p.mw = [q.mw EXCEPT ![i] = "running"]
         \/ /\ ~q.completed /\ p.mw = q.mw
            /\ \A i \in Mws(r) : q.mw[i] \in LetThrough
  BY DEF Went
<1> HIDE DEF p
<1>3. CASE p.mw = q.mw /\ p.runs = q.runs
  <2>1. /\ \A i \in Mws(r) : p.mw[i] = q.mw[i]
        /\ ~(p.runs > req[r].runs)
    BY <1>0, <1>1, <1>3
  <2>2. req[r].completed =>
          p.runs = req[r].runs /\ \A i \in Mws(r) : req[r].mw[i] = "idle" => p.mw[i] = "idle"
    BY <1>1, <1>3, <2>1
  <2>3. ~Fast(r) => \A i \in Mws(r) : p.mw[i] = "threw" => p.completed \/ ~up'
    BY <1>2, <2>1 DEF Caught, p
  <2>4. QED
    BY <1>1, <2>1, <2>2, <2>3 DEF Moved, Went, Thrown, p, Fast, Mws, Chain
<1>4. CASE /\ ~q.completed /\ p.runs = q.runs
           /\ \E i \in Mws(r) : q.mw[i] = "idle" /\ p.mw = [q.mw EXCEPT ![i] = "running"]
  <2>1. PICK i \in Mws(r) : q.mw[i] = "idle" /\ p.mw = [q.mw EXCEPT ![i] = "running"]
    BY <1>4
  <2>2. /\ p.mw[i] = "running" /\ req[r].mw[i] = "idle" /\ ~req[r].completed
        /\ \A k \in Mws(r) \ {i} : p.mw[k] = q.mw[k]
        /\ ~(p.runs > req[r].runs)
    BY <1>0, <1>1, <1>4, <2>1
  <2>3. ~Fast(r) => \A k \in Mws(r) : p.mw[k] = "threw" => p.completed \/ ~up'
    BY <1>2, <2>2 DEF Caught, p
  <2>4. QED
    BY <1>1, <2>2, <2>3 DEF Moved, Went, Thrown, p, Fast, Mws, Chain
<1>5. CASE /\ ~q.completed /\ p.mw = q.mw
           /\ \A i \in Mws(r) : q.mw[i] \in LetThrough
  <2>1. \A i \in Mws(r) : p.mw[i] = q.mw[i] /\ p.mw[i] \in LetThrough /\ p.mw[i] # "threw"
    BY <1>5 DEF LetThrough
  <2>2. ~req[r].completed
    BY <1>1, <1>5
  <2>3. QED
    BY <1>1, <2>1, <2>2 DEF Moved, Went, Thrown, p, Fast, Mws, Chain
<1>6. QED
  BY <1>2, <1>3, <1>4, <1>5

\* Where a step leaves r, the others are untouched.
LEMMA Put ==
    ASSUME IInv, NEW r \in Requests, NEW p, req' = [req EXCEPT ![r] = p]
    PROVE  req'[r] = p /\ \A s \in Requests \ {r} : req'[s] = req[s]
BY DEF IInv, TypeOK

-----------------------------------------------------------------------------
(* The completion operators                                                *)

LEMMA LeaveWent ==
    ASSUME IInv, NEW r \in Requests, NEW q, Begun(r, q), Sound(r, q), NEW c, Leave(r, q, c)
    PROVE  Went(r, q)
BY Put DEF Leave, Went

\* The wire or the whole response is done with.
LEMMA EndedSound ==
    ASSUME NEW r \in Requests, NEW q, Begun(r, q), Sound(r, q)
    PROVE  /\ Sound(r, Replied(q)) /\ Replied(q).completed
           /\ Replied(q).mw = q.mw /\ Replied(q).runs = q.runs
           /\ Ended(q).mw = q.mw /\ Ended(q).runs = q.runs /\ Ended(q).completed = q.completed
           /\ ~Plain \/ Fast(r) => Sound(r, Ended(q))
<1> DEFINE p == Replied(q)
           e == Ended(q)
<1>1. /\ p.raw = "ended" /\ p.completed /\ p.streamed = q.streamed /\ p.run = q.run
      /\ p.mw = q.mw /\ p.runs = q.runs /\ p.body = q.body /\ p.cursor = q.cursor
  BY DEF Begun, ReqState, Replied
<1>2. /\ e.raw = "ended" /\ e.completed = q.completed /\ e.streamed = q.streamed
      /\ e.run = q.run /\ e.mw = q.mw /\ e.runs = q.runs /\ e.body = q.body
      /\ e.cursor = q.cursor
  BY DEF Begun, ReqState, Ended
<1> HIDE DEF p, e
<1>3. Sound(r, p)
  BY <1>1 DEF Sound, InOrder, Waits, Final, Baton, Answerable, Unsized
<1>4. ~Plain \/ Fast(r) => Sound(r, e)
  BY <1>2 DEF Sound, InOrder, Waits, Final, Baton, Answerable
<1>5. QED
  BY <1>1, <1>2, <1>3, <1>4 DEF p, e

\* A rejection or exception that nobody handles.
LEMMA CrashWent ==
    ASSUME IInv, NEW r \in Requests, NEW q, NEW p, Sound(r, p), NEW c, Crash(r, p, c),
           p.mw = q.mw, p.runs = q.runs, q.completed => p.completed, ~Plain \/ Fast(r)
    PROVE  Went(r, q) /\ ~up'
BY Put DEF Crash, Went

\* A reply, with the listeners it calls.
LEMMA SendWent ==
    ASSUME IInv, NEW r \in Requests, NEW q, Begun(r, q), Sound(r, q), NEW c,
           UserSend(r, q, c) \/ EngineSend(r, q, c) \/ CloseThrows(r, q, c)
    PROVE  Went(r, q)
<1>1. CASE q.completed /\ Leave(r, q, c)
  BY <1>1, LeaveWent, Put DEF Leave
<1>2. CASE ~q.completed /\ Leave(r, Replied(q), Resolve(c))
  <2>1. req' = [req EXCEPT ![r] = Replied(q)] /\ up' = up
    BY <1>2 DEF Leave
  <2>2. req'[r] = Replied(q) /\ \A s \in Requests \ {r} : req'[s] = req[s]
    BY <2>1, Put
  <2>3. QED
    BY <2>1, <2>2, EndedSound DEF Went
<1>3. CASE ~q.completed /\ q.raw # "open" /\ Crash(r, q, c)
  <2>1. ~Plain \/ Fast(r)
    BY <1>3 DEF Sound, Answerable, Begun
  <2>2. QED
    BY <1>3, <2>1, CrashWent
<1>4. CASE Fires(q) /\ (Leave(r, Ended(q), c) \/ Crash(r, Ended(q), c))
  <2>1. ~Plain
    BY <1>4 DEF Fires, Plain
  <2>2. CASE Leave(r, Ended(q), c)
    <3>1. req' = [req EXCEPT ![r] = Ended(q)] /\ up' = up
      BY <2>2 DEF Leave
    <3>2. req'[r] = Ended(q) /\ \A s \in Requests \ {r} : req'[s] = req[s]
      BY <3>1, Put
    <3>3. QED
      BY <2>1, <3>1, <3>2, EndedSound DEF Went
  <2>3. CASE Crash(r, Ended(q), c)
    BY <2>1, <2>3, EndedSound, CrashWent
  <2>4. QED
    BY <1>4, <2>2, <2>3
<1>5. CASE Fires(q) /\ Crash(r, Replied(q), Resolve(c))
  <2>1. ~Plain
    BY <1>5 DEF Fires, Plain
  <2>2. QED
    BY <1>5, <2>1, EndedSound, CrashWent
<1>6. QED
  BY <1>1, <1>2, <1>3, <1>4, <1>5
     DEF UserSend, EngineSend, FinishCaught, FinishThrows, CloseThrows, Fires, Send

\* A wrapper of the framework has answered, or it has ended the process.
LEMMA EngineSettles ==
    ASSUME IInv, NEW r \in Requests, NEW q, Begun(r, q), NEW c,
           EngineSend(r, q, c) \/ CloseThrows(r, q, c)
    PROVE  req'[r].completed \/ ~up'
<1>1. CASE q.completed /\ Leave(r, q, c)
  BY <1>1, Put DEF Leave
<1>2. CASE Leave(r, Replied(q), Resolve(c))
  <2>1. req'[r] = Replied(q)
    BY <1>2, Put DEF Leave
  <2>2. QED
    BY <2>1, Sent
<1>3. CASE \/ Crash(r, q, c) \/ Crash(r, Ended(q), c)
           \/ Crash(r, Replied(q), Resolve(c))
  BY <1>3 DEF Crash
<1>4. QED
  BY <1>1, <1>2, <1>3 DEF EngineSend, FinishThrows, CloseThrows, Send

\* What lets the code behind middleware i be started.
GoesOn(r, q, i) ==
    /\ q.body \in {"none", "parsed"}
    /\ Calm => q.runs = 0 /\ \A k \in Mws(r) : q.mw[k] # "running"
    /\ \A k \in Mws(r) : k < i => q.mw[k] \in LetThrough

LEMMA HandleWent ==
    ASSUME IInv, NEW r \in Requests, NEW q, Begun(r, q), Sound(r, q), NEW c, NEW i \in Nat,
           ~q.completed, GoesOn(r, q, i), i \notin Mws(r), Handle(r, q, c)
    PROVE  Went(r, q)
<1> DEFINE n == q.runs + 1
           f == [q.run EXCEPT ![n] = "running"]
           p == [q EXCEPT !.runs = n, !.run = f]
<1>1. /\ q.runs \in 0 .. MaxRuns /\ q.runs < MaxRuns /\ q.run \in [Runs -> RunStates]
      /\ MaxRuns \in Nat /\ n \in Nat /\ n # 0 /\ (q.runs = 0 => n = 1)
  BY ConfigAssumption DEF Begun, ReqState, Handle
<1>2. req' = [req EXCEPT ![r] = p] /\ up' = up
  BY DEF Handle, Leave
<1> HIDE DEF n
<1>3. \A j \in Runs : f[j] = q.run[j] \/ f[j] = "running"
  BY <1>1
<1> HIDE DEF f
<1>4. /\ p.raw = q.raw /\ p.completed = q.completed /\ p.streamed = q.streamed /\ p.run = f
      /\ p.mw = q.mw /\ p.runs = n /\ p.body = q.body /\ p.cursor = q.cursor
  BY DEF Begun, ReqState
<1> HIDE DEF p
<1>5. \A k \in Mws(r) : q.mw[k] \in LetThrough
  BY ConfigAssumption DEF GoesOn, Mws, Chain
<1>6. Sound(r, p)
  <2>1. InOrder(r, p) /\ Final(p)
    BY <1>4 DEF Sound, InOrder, Final
  <2>2. Waits(r, p)
    BY <1>1, <1>4 DEF Waits, GoesOn
  <2>3. Baton(r, p)
    BY <1>1, <1>4 DEF Baton, GoesOn
  <2>4. Answerable(r, p)
    BY <1>3, <1>4 DEF Sound, Answerable, Unsized
  <2>5. QED
    BY <2>1, <2>2, <2>3, <2>4 DEF Sound
<1>7. req'[r] = p /\ \A s \in Requests \ {r} : req'[s] = req[s]
  BY <1>2, Put
<1>8. QED
  BY <1>2, <1>4, <1>5, <1>6, <1>7 DEF Went

LEMMA IterateWent ==
    ASSUME IInv, NEW r \in Requests, NEW q, Begun(r, q), Sound(r, q), NEW c, NEW i \in Nat,
           ~Fast(r), ~q.completed => GoesOn(r, q, i), Iterate(r, q, i, c)
    PROVE  Went(r, q)
<1>1. CASE Leave(r, q, c) \/ UserSend(r, q, c)
  BY <1>1, LeaveWent, SendWent
<1>2. CASE ~q.completed /\ i \notin Mws(r) /\ Handle(r, q, c)
  BY <1>2, HandleWent
<1>3. CASE /\ ~q.completed /\ i \in Mws(r) /\ (q.cursor = -1 \/ i > q.cursor)
           /\ Leave(r, [q EXCEPT !.cursor = i, !.mw[i] = "running"], c)
  <2> DEFINE f == [q.mw EXCEPT ![i] = "running"]
             p == [q EXCEPT !.cursor = i, !.mw = f]
  <2>1. q.mw \in [Mws(r) -> MwStates] /\ q.cursor \in Int /\ Chain(r) \in Nat
    BY ConfigAssumption DEF Begun, ReqState, Chain
  <2>2. req' = [req EXCEPT ![r] = p] /\ up' = up
    BY <1>3 DEF Leave
  <2>3. f[i] = "running" /\ \A k \in Mws(r) \ {i} : f[k] = q.mw[k]
    BY <1>3, <2>1
  <2> HIDE DEF f
  <2>4. /\ p.raw = q.raw /\ p.completed = q.completed /\ p.streamed = q.streamed
        /\ p.run = q.run /\ p.mw = f /\ p.runs = q.runs /\ p.body = q.body /\ p.cursor = i
    BY DEF Begun, ReqState
  <2> HIDE DEF p
  <2>5. /\ GoesOn(r, q, i)
        /\ \A k \in Mws(r) : q.mw[k] # "idle" => k <= q.cursor
        /\ \A k \in Mws(r) : k \in Nat
    BY <1>3, <2>1 DEF Sound, InOrder, Mws
  <2>6. \A k \in Mws(r) : q.mw[k] # "idle" => k < i
    BY <1>3, <2>1, <2>5
  <2>7. q.mw[i] = "idle"
    BY <1>3, <2>6
  <2>8. Sound(r, p)
    <3>1. InOrder(r, p)
      <4>1. \A k \in Mws(r) : p.mw[k] # "idle" => k <= i
        BY <2>3, <2>4, <2>5, <2>6
      <4>2. \A k \in Mws(r) : k < i => p.mw[k] \notin {"idle", "running"}
        BY <2>3, <2>4, <2>5 DEF GoesOn, LetThrough
      <4>3. \A k, m \in Mws(r) : p.mw[k] # "idle" /\ m < k => m < i
        BY <1>3, <2>5, <4>1
      <4>4. QED
        BY <2>4, <4>1, <4>2, <4>3 DEF InOrder
    <3>2. Waits(r, p)
      BY <2>4, <2>5 DEF Waits, GoesOn, Sound
    <3>3. Baton(r, p)
      BY <2>3, <2>4, <2>5 DEF Baton, GoesOn
    <3>4. Final(p) /\ Answerable(r, p)
      BY <2>4 DEF Sound, Final, Answerable, Unsized
    <3>5. QED
      BY <3>1, <3>2, <3>3, <3>4 DEF Sound
  <2>9. req'[r] = p /\ \A s \in Requests \ {r} : req'[s] = req[s]
    BY <2>2, Put
  <2>10. QED
    BY <1>3, <2>2, <2>4, <2>7, <2>8, <2>9 DEF Went, f
<1>4. QED
  BY <1>1, <1>2, <1>3 DEF Iterate

\* Moving on a middleware that has been called.
LEMMA MwMoves ==
    ASSUME NEW r \in Requests, NEW q, Begun(r, q), Sound(r, q), NEW i \in Mws(r),
           NEW s \in LetThrough \cup {"threw"}, Fast(r) => s # "advanced",
           q.mw[i] # "idle" \/ (Fast(r) /\ q.body \in {"none", "parsed"})
    PROVE  LET p == [q EXCEPT !.mw[i] = s]
           IN  /\ Begun(r, p) /\ Sound(r, p)
               /\ p.completed = q.completed /\ p.runs = q.runs /\ p.body = q.body
               /\ p.raw = q.raw
               /\ p.mw[i] = s /\ \A k \in Mws(r) \ {i} : p.mw[k] = q.mw[k]
<1> DEFINE f == [q.mw EXCEPT ![i] = s]
           p == [q EXCEPT !.mw = f]
<1>1. q.mw \in [Mws(r) -> MwStates] /\ s \in MwStates /\ s \notin {"idle", "running"}
  BY DEF Begun, ReqState, LetThrough, MwStates
<1>2. Begun(r, p)
  BY <1>1, MwAlike
<1>3. f[i] = s /\ \A k \in Mws(r) \ {i} : f[k] = q.mw[k]
  BY <1>1
<1> HIDE DEF f
<1>4. /\ p.raw = q.raw /\ p.completed = q.completed /\ p.streamed = q.streamed
      /\ p.run = q.run /\ p.mw = f /\ p.runs = q.runs /\ p.body = q.body /\ p.cursor = q.cursor
  BY DEF Begun, ReqState
<1> HIDE DEF p
<1>5. InOrder(r, p)
  <2>1. \A k \in Mws(r) : p.mw[k] # "idle" => q.mw[k] # "idle" \/ Fast(r)
    BY <1>3, <1>4
  <2>2. \A k \in Mws(r) : q.mw[k] \notin {"idle", "running"} => p.mw[k] \notin {"idle", "running"}
    BY <1>1, <1>3, <1>4
  <2>3. Fast(r) => \A k \in Mws(r) : p.mw[k] # "advanced"
    BY <1>3, <1>4 DEF Sound, InOrder
  <2>4. QED
    BY <1>4, <2>1, <2>2, <2>3 DEF Sound, InOrder
<1>6. Waits(r, p)
  BY <1>4 DEF Sound, Waits
<1>7. \A k \in Mws(r) : p.mw[k] = "running" => q.mw[k] = "running"
  BY <1>1, <1>3, <1>4
<1>8. Baton(r, p)
  BY <1>4, <1>7 DEF Sound, Baton
<1>9. Final(p) /\ Answerable(r, p)
  BY <1>4 DEF Sound, Final, Answerable, Unsized
<1>10. Sound(r, p)
  BY <1>5, <1>6, <1>8, <1>9 DEF Sound
<1>11. QED
  BY <1>2, <1>3, <1>4, <1>10 DEF p, f

\* Moving on an execution of the handler that has been started.
LEMMA RunMoves ==
    ASSUME NEW r \in Requests, NEW q, Begun(r, q), Sound(r, q), NEW j \in Runs,
           q.run[j] # "idle", NEW s \in RunStates,
           Plain /\ ~Fast(r) => s \notin {"sizing", "flushed"}
    PROVE  LET p == [q EXCEPT !.run[j] = s]
           IN  /\ Begun(r, p) /\ Sound(r, p)
               /\ p.completed = q.completed /\ p.runs = q.runs /\ p.mw = q.mw
<1> DEFINE f == [q.run EXCEPT ![j] = s]
           p == [q EXCEPT !.run = f]
<1>1. Begun(r, p)
  BY RunAlike
<1>2. \A k \in Runs : f[k] = q.run[k] \/ f[k] = s
  BY DEF Begun, ReqState
<1> HIDE DEF f
<1>3. /\ p.raw = q.raw /\ p.completed = q.completed /\ p.streamed = q.streamed
      /\ p.run = f /\ p.mw = q.mw /\ p.runs = q.runs /\ p.body = q.body /\ p.cursor = q.cursor
  BY DEF Begun, ReqState
<1> HIDE DEF p
<1>4. q.runs # 0
  BY DEF Sound, Waits
<1>5. InOrder(r, p) /\ Waits(r, p) /\ Final(p) /\ Baton(r, p)
  BY <1>3, <1>4 DEF Sound, InOrder, Waits, Final, Baton
<1>6. Answerable(r, p)
  BY <1>2, <1>3 DEF Sound, Answerable, Unsized
<1>7. QED
  BY <1>1, <1>3, <1>5, <1>6 DEF Sound, p, f

\* The fast path, from a request for which nothing has been started.
LEMMA FastRunMoved ==
    ASSUME IInv, IInv', NEW r \in Requests, NEW q, Fast(r), Near(r, q), Sound(r, q), NEW c,
           ~q.completed, q.body \in {"none", "parsed"}, q.runs = 0,
           \A i \in Mws(r) : q.mw[i] = "idle", FastRun(r, q, c)
    PROVE  Moved(r)
<1>0. Begun(r, q) /\ Caught(r, q) /\ Global \in Nat
  BY ConfigAssumption DEF Near, Caught
<1>1. CASE Global = 0 /\ Handle(r, q, c)
  <2>1. Mws(r) = {}
    BY <1>1, ConfigAssumption DEF Mws, Chain, Fast
  <2>2. GoesOn(r, q, 0) /\ 0 \notin Mws(r)
    BY <2>1 DEF GoesOn
  <2>3. Went(r, q)
    BY <1>0, <1>1, <2>2, HandleWent
  <2>4. QED
    BY <1>0, <2>3, WentMoved
<1>2. CASE Global = 1
  <2>1. Mws(r) = {0}
    BY <1>2, ConfigAssumption DEF Mws, Chain, Fast
  <2>2. CASE Leave(r, [q EXCEPT !.mw[0] = "running"], c)
    <3> DEFINE f == [q.mw EXCEPT ![0] = "running"]
               p == [q EXCEPT !.mw = f]
    <3>1. req' = [req EXCEPT ![r] = p] /\ up' = up
      BY <2>2 DEF Leave
    <3>2. f[0] = "running"
      BY <1>0, <2>1 DEF Begun, ReqState
    <3> HIDE DEF f
    <3>3. /\ p.raw = q.raw /\ p.completed = q.completed /\ p.streamed = q.streamed
          /\ p.run = q.run /\ p.mw = f /\ p.runs = q.runs /\ p.body = q.body
          /\ p.cursor = q.cursor
      BY <1>0 DEF Begun, ReqState
    <3> HIDE DEF p
    <3>4. Sound(r, p)
      BY <2>1, <3>2, <3>3
         DEF Sound, InOrder, Waits, Final, Baton, Answerable, Unsized
    <3>5. req'[r] = p /\ \A s \in Requests \ {r} : req'[s] = req[s]
      BY <3>1, Put
    <3>6. Went(r, q)
      BY <2>1, <3>1, <3>3, <3>4, <3>5 DEF Went, f
    <3>7. QED
      BY <1>0, <3>6, WentMoved
  <2>3. CASE \/ Handle(r, [q EXCEPT !.mw[0] = "done"], c)
             \/ Send(r, [q EXCEPT !.mw[0] = "done"], c)
    <3> DEFINE p == [q EXCEPT !.mw[0] = "done"]
    <3>1. /\ Begun(r, p) /\ Sound(r, p)
          /\ p.completed = q.completed /\ p.runs = q.runs /\ p.body = q.body
          /\ p.mw[0] = "done"
      <4>1. 0 \in Mws(r) /\ "done" \in LetThrough \cup {"threw"} /\ "done" # "advanced"
        BY <2>1 DEF LetThrough
      <4>2. QED
        BY <1>0, <4>1, MwMoves
    <3>2. Handle(r, p, c) \/ Send(r, p, c)
      BY <2>3
    <3> HIDE DEF p
    <3>3. Near(r, p)
      BY <2>1, <3>1 DEF Near
    <3>4. Caught(r, p)
      BY DEF Caught
    <3>5. GoesOn(r, p, 1) /\ 1 \notin Mws(r) /\ 1 \in Nat
      BY <2>1, <3>1 DEF GoesOn, LetThrough
    <3>6. Went(r, p)
      BY <3>1, <3>2, <3>5, HandleWent, SendWent, PlainSend
    <3>7. QED
      BY <3>3, <3>4, <3>6, WentMoved
  <2>4. QED
    BY <1>2, <2>2, <2>3 DEF FastRun
<1>3. QED
  BY <1>0, <1>1, <1>2 DEF FastRun

-----------------------------------------------------------------------------
(* Requests that come in, and their bodies                                 *)

LEMMA FreshSound ==
    ASSUME NEW r \in Requests, NEW b \in {"none", "partial"}
    PROVE  LET q == Accepted(r, b)
           IN  /\ Begun(r, q) /\ Sound(r, q)
               /\ q.raw = "open" /\ q.body = b /\ ~q.completed /\ q.runs = 0
               /\ \A i \in Mws(r) : q.mw[i] = "idle"
<1> DEFINE q == Accepted(r, b)
<1>1. /\ q.raw = "open" /\ q.body = b /\ q.completed = FALSE /\ q.streamed = FALSE
      /\ q.cursor = -1 /\ q.runs = 0
      /\ \A i \in Mws(r) : q.mw[i] = "idle"
      /\ \A j \in Runs : q.run[j] = "idle"
  BY DEF Accepted, Unborn
<1>2. Begun(r, q)
  BY AcceptedBegun
<1> HIDE DEF q
<1>3. InOrder(r, q) /\ Waits(r, q) /\ Final(q)
  BY <1>1 DEF InOrder, Waits, Final
<1>4. Baton(r, q) /\ Answerable(r, q)
  BY <1>1 DEF Baton, Answerable, Unsized
<1>5. QED
  BY <1>1, <1>2, <1>3, <1>4 DEF Sound, q

\* The slow path from its beginning.
LEMMA IterateMoved ==
    ASSUME IInv, IInv', NEW r \in Requests, NEW q, ~Fast(r), Near(r, q), Sound(r, q), NEW c,
           q.body \in {"none", "parsed"}, q.runs = 0,
           \A i \in Mws(r) : q.mw[i] = "idle", Iterate(r, q, 0, c)
    PROVE  Moved(r)
<1>1. GoesOn(r, q, 0)
  BY ConfigAssumption DEF GoesOn, Mws, Chain
<1>2. Went(r, q) /\ Caught(r, q)
  BY <1>1, IterateWent DEF Near, Caught
<1>3. QED
  BY <1>2, WentMoved

LEMMA ArriveMoved ==
    ASSUME IInv, IInv', NEW r \in Requests, Arrive(r)
    PROVE  Moved(r)
<1>1. /\ req[r] = Unborn(r)
      /\ req[r].runs = 0 /\ ~req[r].completed /\ \A i \in Mws(r) : req[r].mw[i] = "idle"
  <2>1. req[r] = Unborn(r)
    BY DEF IInv, Untouched, Arrive
  <2>2. QED
    BY <2>1 DEF Unborn
<1>2. ASSUME NEW b \in {"none", "partial"}
      PROVE  Near(r, Accepted(r, b)) /\ Caught(r, Accepted(r, b))
  BY <1>1, <1>2, FreshSound DEF Near, Caught
<1>3. CASE ArriveWithBody(r)
  BY <1>2, <1>3, FreshSound, LeaveWent, WentMoved DEF ArriveWithBody
<1>4. CASE ArriveFast(r)
  BY <1>2, <1>4, FreshSound, FastRunMoved DEF ArriveFast
<1>5. CASE ArriveSlow(r)
  BY <1>2, <1>5, FreshSound, IterateMoved DEF ArriveSlow
<1>6. CASE ArriveThrow(r)
  <2> DEFINE q == Accepted(r, "none")
             m == [q EXCEPT !.mw[0] = "threw"]
  <2>1. Fast(r) /\ 0 \in Mws(r)
    BY <1>6, ConfigAssumption DEF ArriveThrow, Mws, Chain
  <2>2. \/ Leave(r, Ended(m), count + 1) \/ Crash(r, Ended(m), count + 1)
        \/ Crash(r, m, count + 1) \/ Crash(r, Replied(m), Resolve(count + 1))
    BY <1>6 DEF ArriveThrow
  <2>3. /\ Begun(r, q) /\ Sound(r, q) /\ ~q.completed /\ q.runs = 0 /\ q.body = "none"
        /\ \A i \in Mws(r) : q.mw[i] = "idle"
    BY FreshSound
  <2> HIDE DEF q
  <2>4. /\ Begun(r, m) /\ Sound(r, m) /\ ~m.completed /\ m.runs = 0 /\ m.body = "none"
        /\ m.mw[0] = "threw" /\ \A i \in Mws(r) \ {0} : m.mw[i] = "idle"
    BY <2>1, <2>3, MwMoves
  <2> HIDE DEF m
  <2>5. PICK v \in {m, Ended(m), Replied(m)} : req' = [req EXCEPT ![r] = v] /\ up' \in {up, FALSE}
    BY <2>2 DEF Leave, Crash
  <2>6. Sound(r, v) /\ v.runs = 0 /\ \A i \in Mws(r) : v.mw[i] \in {"idle", "threw"}
    BY <2>1, <2>4, EndedSound
  <2>7. req'[r] = v /\ \A s \in Requests \ {r} : req'[s] = req[s]
    BY <2>5, Put
  <2>8. Thrown(r, req[r])'
    BY <2>1 DEF Thrown, Fast
  <2>9. /\ req'[r].runs = req[r].runs /\ ~(req'[r].runs > req[r].runs)
        /\ \A i \in Mws(r) : req'[r].mw[i] # "running"
    BY <1>1, <2>6, <2>7
  <2>10. QED
    BY <1>1, <2>1, <2>5, <2>6, <2>7, <2>8, <2>9 DEF Moved
<1>7. QED
  BY <1>3, <1>4, <1>5, <1>6 DEF Arrive

LEMMA BodyMoved ==
    ASSUME IInv, IInv', NEW r \in Requests, Sound(r, req[r]),
           BodyTooLarge(r) \/ BodyEnd(r) \/ BodyResume(r)
    PROVE  Moved(r)
<1>1. Begun(r, req[r]) /\ req[r].body \in {"partial", "whole"}
  BY Here DEF IInv, BodyTooLarge, BodyEnd, BodyResume
<1>2. /\ req[r].runs = 0 /\ \A i \in Mws(r) : req[r].mw[i] = "idle"
      /\ \A j \in Runs : req[r].run[j] = "idle"
  BY <1>1 DEF Sound, Waits
<1>3. ASSUME NEW b \in BodyStates, NEW q, q = [req[r] EXCEPT !.body = b]
      PROVE  /\ Begun(r, q) /\ Sound(r, q) /\ Near(r, q) /\ Caught(r, q)
             /\ q.body = b /\ q.runs = 0 /\ q.completed = req[r].completed
             /\ \A i \in Mws(r) : q.mw[i] = "idle"
  <2>1. /\ q \in ReqState(r) /\ q.raw = req[r].raw /\ q.completed = req[r].completed
        /\ q.streamed = req[r].streamed /\ q.run = req[r].run /\ q.mw = req[r].mw
        /\ q.runs = req[r].runs /\ q.cursor = req[r].cursor /\ q.body = b
    BY <1>1, <1>3 DEF Begun, ReqState
  <2>2. Begun(r, q)
    BY <1>1, <2>1 DEF Begun
  <2>3. InOrder(r, q) /\ Waits(r, q) /\ Final(q) /\ Baton(r, q)
    BY <1>2, <2>1 DEF Sound, InOrder, Waits, Final, Baton
  <2>4. Answerable(r, q)
    BY <2>1 DEF Sound, Answerable, Unsized
  <2>5. Near(r, q) /\ Caught(r, q)
    BY <1>2, <2>1, <2>2 DEF Near, Caught
  <2>6. QED
    BY <1>2, <2>1, <2>2, <2>3, <2>4, <2>5 DEF Sound
<1>4. CASE BodyTooLarge(r)
  <2> DEFINE q == [req[r] EXCEPT !.body = "oversize"]
  <2>1. Begun(r, q) /\ Sound(r, q) /\ Near(r, q) /\ Caught(r, q)
    BY <1>3 DEF BodyStates
  <2>2. Send(r, q, count)
    BY <1>4 DEF BodyTooLarge
  <2> HIDE DEF q
  <2>3. QED
    BY <2>1, <2>2, SendWent, PlainSend, WentMoved
<1>5. CASE BodyEnd(r)
  <2> DEFINE q == [req[r] EXCEPT !.body = "whole"]
  <2>1. Begun(r, q) /\ Sound(r, q) /\ Near(r, q) /\ Caught(r, q)
    BY <1>3 DEF BodyStates
  <2>2. Leave(r, q, count)
    BY <1>5 DEF BodyEnd
  <2> HIDE DEF q
  <2>3. QED
    BY <2>1, <2>2, LeaveWent, WentMoved
<1>6. CASE BodyResume(r)
  <2> DEFINE q == [req[r] EXCEPT !.body = "parsed"]
             m == [q EXCEPT !.mw[0] = "threw"]
  <2>1. /\ Begun(r, q) /\ Sound(r, q) /\ Near(r, q) /\ Caught(r, q)
        /\ q.body = "parsed" /\ q.runs = 0 /\ q.completed = req[r].completed
        /\ \A i \in Mws(r) : q.mw[i] = "idle"
    <3>1. "parsed" \in BodyStates
      BY DEF BodyStates
    <3>2. /\ Begun(r, q) /\ Sound(r, q) /\ Near(r, q) /\ Caught(r, q)
          /\ q.body = "parsed" /\ q.runs = 0 /\ q.completed = req[r].completed
      BY <1>3, <3>1
    <3>3. \A i \in Mws(r) : q.mw[i] = "idle"
      BY <1>1, <1>2 DEF Begun, ReqState
    <3>4. QED
      BY <3>2, <3>3
  <2>2. \/ Leave(r, q, count)
        \/ ~q.completed /\ Fast(r) /\ FastRun(r, q, count)
        \/ ~Fast(r) /\ Iterate(r, q, 0, count)
        \/ ~q.completed /\ Fast(r) /\ Global = 1 /\ Crash(r, m, count)
    BY <1>6 DEF BodyResume
  <2> HIDE DEF q
  <2>3. CASE Leave(r, q, count)
    BY <2>1, <2>3, LeaveWent, WentMoved
  <2>4. CASE ~q.completed /\ Fast(r) /\ FastRun(r, q, count)
    BY <2>1, <2>4, FastRunMoved
  <2>5. CASE ~Fast(r) /\ Iterate(r, q, 0, count)
    BY <2>1, <2>5, IterateMoved
  <2>6. CASE ~q.completed /\ Fast(r) /\ Global = 1 /\ Crash(r, m, count)
    <3>1. 0 \in Mws(r)
      BY <2>6, ConfigAssumption DEF Mws, Chain
    <3>2. /\ Begun(r, m) /\ Sound(r, m) /\ m.completed = q.completed /\ m.runs = q.runs
          /\ m.mw[0] = "threw" /\ \A i \in Mws(r) \ {0} : m.mw[i] = q.mw[i]
      BY <2>1, <2>6, <3>1, MwMoves
    <3> HIDE DEF m
    <3>3. /\ req'[r] = m /\ \A s \in Requests \ {r} : req'[s] = req[s]
          /\ up' = FALSE
      BY <2>6, Put DEF Crash
    <3>4. Went(r, m)
      BY <2>6, <3>2, <3>3 DEF Went
    <3>5. Near(r, m) /\ Caught(r, m)
      <4>1. ~req[r].completed /\ m.runs = req[r].runs
        BY <2>1, <2>6, <1>2, <3>2
      <4>2. \A i \in Mws(r) : m.mw[i] = req[r].mw[i] \/ m.mw[i] = "threw"
        BY <1>2, <2>1, <3>2
      <4>3. QED
        BY <2>6, <3>2, <4>1, <4>2 DEF Near, Caught
    <3>6. QED
      BY <3>4, <3>5, WentMoved
  <2>7. QED
    BY <2>2, <2>3, <2>4, <2>5, <2>6
<1>7. QED
  BY <1>4, <1>5, <1>6

\* A step that ends r on the wire, or leaves it as it is, and starts nothing.
LEMMA EndMoved ==
    ASSUME IInv, NEW r \in Requests, Begun(r, req[r]), Sound(r, req[r]), Thrown(r, req[r]),
           NEW p, req' = [req EXCEPT ![r] = p],
           p.mw = req[r].mw, p.runs = req[r].runs, p.run = req[r].run, p.body = req[r].body,
           p.cursor = req[r].cursor, req[r].completed => p.completed,
           \/ p.raw \in {"ended", "closed", "aborted"}
           \/ p.raw = req[r].raw /\ p.completed = req[r].completed,
           Plain /\ ~Fast(r) =>
               p.streamed = req[r].streamed /\ (p.completed \/ p.raw = req[r].raw),
           up' \in {up, FALSE}, Plain /\ ~Fast(r) => up' = up
    PROVE  Moved(r)
<1>1. req'[r] = p /\ \A s \in Requests \ {r} : req'[s] = req[s]
  BY Put
<1>2. Sound(r, p)
  <2>1. InOrder(r, p) /\ Waits(r, p) /\ Final(p) /\ Baton(r, p)
    BY DEF Sound, InOrder, Waits, Final, Baton
  <2>2. Answerable(r, p)
    BY DEF Sound, Answerable, Unsized
  <2>3. QED
    BY <2>1, <2>2 DEF Sound
<1>3. Thrown(r, req[r])'
  BY <1>1 DEF Thrown, Fast, Mws, Chain
<1>4. ~(req'[r].runs > req[r].runs)
  BY <1>1, ConfigAssumption DEF Begun, ReqState
<1>5. QED
  BY <1>1, <1>2, <1>3, <1>4 DEF Moved

LEMMA AbortMoved ==
    ASSUME IInv, NEW r \in Requests, Sound(r, req[r]), Thrown(r, req[r]), Abort(r)
    PROVE  Moved(r)
<1> DEFINE q == [req[r] EXCEPT !.raw = "aborted"]
           p == [q EXCEPT !.completed = TRUE]
<1>1. Begun(r, req[r])
  BY Here DEF Abort, IInv
<1>2. ~req[r].completed
  BY DEF Sound, Final, Abort
<1>3. /\ q \in ReqState(r) /\ q.raw = "aborted" /\ q.completed = req[r].completed
      /\ q.streamed = req[r].streamed /\ q.run = req[r].run /\ q.mw = req[r].mw
      /\ q.runs = req[r].runs /\ q.cursor = req[r].cursor /\ q.body = req[r].body
  BY <1>1 DEF Begun, ReqState, RawStates
<1>4. req' = [req EXCEPT ![r] = p] /\ up' \in {up, FALSE} /\ (Plain => up' = up)
  BY <1>2, <1>3 DEF Abort, Leave, Crash, Plain
<1> HIDE DEF q
<1>5. /\ p.raw = "aborted" /\ p.completed
      /\ p.streamed = req[r].streamed /\ p.run = req[r].run /\ p.mw = req[r].mw
      /\ p.runs = req[r].runs /\ p.cursor = req[r].cursor /\ p.body = req[r].body
  BY <1>3 DEF ReqState
<1> HIDE DEF p
<1>6. QED
  BY <1>1, <1>4, <1>5, EndMoved

-----------------------------------------------------------------------------
(* Middlewares                                                             *)

LEMMA MwMoved ==
    ASSUME IInv, IInv', up, NEW r \in Requests, Sound(r, req[r]), Thrown(r, req[r]),
           NEW i \in Mws(r),
           MwSend(r, i) \/ MwNext(r, i) \/ MwReturn(r, i) \/ MwThrow(r, i)
    PROVE  Moved(r)
<1> DEFINE o == req[r]
<1>1. o.mw[i] \in {"running", "advanced", "returned", "done"}
  BY DEF MwSend, MwNext, MwReturn, MwThrow, InMw
<1>2. Begun(r, o)
  BY <1>1, Here DEF IInv
<1>3. i \in Nat /\ i + 1 \in Nat /\ \A k \in Mws(r) : k \in Nat /\ (k < i + 1 => k = i \/ k < i)
  BY ConfigAssumption DEF Mws, Chain
<1>4. o.mw \in [Mws(r) -> MwStates] /\ o.runs \in Nat
  BY <1>2, ConfigAssumption DEF Begun, ReqState
<1>5. \A q : Begun(r, q) /\ q.runs = o.runs /\ q.completed = o.completed
             /\ (\A k \in Mws(r) \ {i} : q.mw[k] = o.mw[k])
             /\ q.mw[i] \in LetThrough \cup {"threw"}
             => Near(r, q)
  BY <1>1 DEF Near, LetThrough
<1>6. Near(r, o) /\ Caught(r, o)
  BY <1>2 DEF Near, Caught, Thrown
<1>7. ~Fast(r) /\ ~o.completed => \A k \in Mws(r) : k < i => o.mw[k] \in LetThrough
  BY <1>1, <1>4 DEF Sound, InOrder, Thrown, LetThrough, MwStates
<1>8. o.body \in {"none", "parsed"}
  BY <1>1 DEF Sound, Waits
<1>9. ASSUME NEW s \in LetThrough \cup {"threw"}, Fast(r) => s # "advanced",
             NEW q, q = [o EXCEPT !.mw[i] = s]
      PROVE  /\ Begun(r, q) /\ Sound(r, q) /\ Near(r, q)
             /\ q.completed = o.completed /\ q.runs = o.runs /\ q.body = o.body
             /\ q.mw[i] = s /\ \A k \in Mws(r) \ {i} : q.mw[k] = o.mw[k]
             /\ s # "threw" => Caught(r, q)
             /\ s # "threw" /\ ~Fast(r) /\ (Calm => o.mw[i] = "running") /\ ~q.completed =>
                   GoesOn(r, q, i + 1)
  <2>1. /\ Begun(r, q) /\ Sound(r, q)
        /\ q.completed = o.completed /\ q.runs = o.runs /\ q.body = o.body
        /\ q.mw[i] = s /\ \A k \in Mws(r) \ {i} : q.mw[k] = o.mw[k]
    BY <1>1, <1>2, <1>9, MwMoves
  <2>2. Near(r, q)
    BY <1>5, <2>1
  <2>3. s # "threw" => Caught(r, q)
    BY <2>1 DEF Caught, Thrown
  <2>4. ASSUME s # "threw", ~Fast(r), Calm => o.mw[i] = "running", ~q.completed
        PROVE  GoesOn(r, q, i + 1)
    <3>1. Calm => q.runs = 0 /\ \A k \in Mws(r) : q.mw[k] # "running"
      <4>1. ASSUME Calm
            PROVE  o.runs = 0 /\ \A k \in Mws(r) \ {i} : o.mw[k] # "running"
        BY <1>4, <2>4, <4>1 DEF Sound, Baton
      <4>2. QED
        BY <1>9, <2>1, <4>1 DEF LetThrough
    <3>2. \A k \in Mws(r) : k < i + 1 => q.mw[k] \in LetThrough
      BY <1>3, <1>7, <2>1, <2>4
    <3>3. QED
      BY <1>8, <2>1, <3>1, <3>2 DEF GoesOn
  <2>5. QED
    BY <2>1, <2>2, <2>3, <2>4
<1>10. CASE MwSend(r, i)
  BY <1>2, <1>6, <1>10, SendWent, WentMoved DEF MwSend
<1>11. CASE MwNext(r, i)
  <2>1. ~Fast(r)
    BY <1>11 DEF MwNext
  <2>2. ASSUME NEW s \in {"advanced", "done"}, Calm => o.mw[i] = "running",
               Iterate(r, [o EXCEPT !.mw[i] = s], i + 1, count)
        PROVE  Moved(r)
    <3> DEFINE q == [o EXCEPT !.mw[i] = s]
    <3>1. s \in LetThrough /\ s # "threw"
      BY DEF LetThrough
    <3>2. /\ Begun(r, q) /\ Sound(r, q) /\ Near(r, q) /\ Caught(r, q)
          /\ ~q.completed => GoesOn(r, q, i + 1)
      BY <1>9, <2>1, <2>2, <3>1
    <3>3. Iterate(r, q, i + 1, count)
      BY <2>2
    <3> HIDE DEF q
    <3>4. QED
      BY <1>3, <2>1, <3>2, <3>3, IterateWent, WentMoved
  <2>3. ASSUME "double_next" \in Behaviours, o.mw[i] \in {"advanced", "done"},
               Iterate(r, o, i + 1, count)
        PROVE  Moved(r)
    <3>1. ~Calm
      BY <2>3 DEF Calm
    <3>2. ~o.completed => GoesOn(r, o, i + 1)
      BY <1>3, <1>7, <1>8, <2>1, <2>3, <3>1 DEF GoesOn, LetThrough
    <3>3. QED
      BY <1>2, <1>3, <1>6, <2>1, <2>3, <3>2, IterateWent, WentMoved
  <2>4. "late" \in Behaviours => ~Calm
    BY DEF Calm
  <2>5. QED
    BY <1>11, <2>2, <2>3, <2>4 DEF MwNext
<1>12. CASE MwReturn(r, i)
  <2>1. CASE /\ ~Fast(r) /\ o.mw[i] = "running"
             /\ Iterate(r, [o EXCEPT !.mw[i] = "returned"], i + 1, count)
    <3> DEFINE q == [o EXCEPT !.mw[i] = "returned"]
    <3>1. "returned" \in LetThrough
      BY DEF LetThrough
    <3>2. /\ Begun(r, q) /\ Sound(r, q) /\ Near(r, q) /\ Caught(r, q)
          /\ ~q.completed => GoesOn(r, q, i + 1)
      BY <1>9, <2>1, <3>1
    <3>3. Iterate(r, q, i + 1, count)
      BY <2>1
    <3> HIDE DEF q
    <3>4. QED
      BY <1>3, <2>1, <3>2, <3>3, IterateWent, WentMoved
  <2>2. CASE ~Fast(r) /\ o.mw[i] = "advanced" /\ Leave(r, [o EXCEPT !.mw[i] = "done"], count)
    <3> DEFINE q == [o EXCEPT !.mw[i] = "done"]
    <3>1. "done" \in LetThrough
      BY DEF LetThrough
    <3>2. Begun(r, q) /\ Sound(r, q) /\ Near(r, q) /\ Caught(r, q)
      BY <1>9, <3>1
    <3>3. Leave(r, q, count)
      BY <2>2
    <3> HIDE DEF q
    <3>4. QED
      BY <3>2, <3>3, LeaveWent, WentMoved
  <2>3. CASE Fast(r) /\ InMw(r, i)
    <3> DEFINE q == [o EXCEPT !.mw[i] = "done"]
    <3>1. "done" \in LetThrough
      BY DEF LetThrough
    <3>2. /\ Begun(r, q) /\ Sound(r, q) /\ Near(r, q) /\ Caught(r, q)
          /\ q.runs = o.runs /\ q.body = o.body
          /\ q.mw[i] = "done"
      BY <1>9, <3>1
    <3>3. IF q.completed THEN Leave(r, q, count) ELSE Handle(r, q, count)
      BY <1>12, <2>3 DEF MwReturn
    <3>4. Mws(r) = {0} /\ i = 0 /\ 1 \in Nat /\ 1 \notin Mws(r)
      BY <2>3, ConfigAssumption DEF Fast, Mws, Chain
    <3>5. o.mw[i] = "running"
      BY <2>3 DEF Sound, InOrder, InMw
    <3> HIDE DEF q
    <3>6. GoesOn(r, q, 1)
      <4>1. Calm => o.runs = 0
        BY <1>4, <3>5 DEF Sound, Baton
      <4>2. QED
        BY <1>8, <3>1, <3>2, <3>4, <4>1 DEF GoesOn
    <3>7. Went(r, q)
      BY <3>2, <3>3, <3>4, <3>6, LeaveWent, HandleWent
    <3>8. QED
      BY <3>2, <3>7, WentMoved
  <2>4. QED
    BY <1>12, <2>1, <2>2, <2>3 DEF MwReturn
<1>13. CASE MwThrow(r, i)
  <2> DEFINE q == [o EXCEPT !.mw[i] = "threw"]
  <2>1. Begun(r, q) /\ Sound(r, q) /\ Near(r, q)
    BY <1>9
  <2>2. \/ Fast(r) /\ Crash(r, q, count)
        \/ ~Fast(r) /\ (EngineSend(r, q, count) \/ CloseThrows(r, q, count))
    BY <1>13 DEF MwThrow
  <2> HIDE DEF q
  <2>4. CASE Fast(r)
    <3>1. Went(r, q) /\ Caught(r, q)
      BY <2>1, <2>2, <2>4, CrashWent DEF Caught
    <3>2. QED
      BY <2>1, <3>1, WentMoved
  <2>5. CASE ~Fast(r)
    <3>1. Went(r, q) /\ Caught(r, q)
      BY <2>1, <2>2, <2>5, SendWent, EngineSettles DEF Caught
    <3>2. QED
      BY <2>1, <3>1, WentMoved
  <2>6. QED
    BY <2>4, <2>5
<1>14. QED
  BY <1>10, <1>11, <1>12, <1>13

-----------------------------------------------------------------------------
(* Handlers                                                                *)

\* A step that brings r to q and ends there, or with a reply.
LEMMA SettleMoved ==
    ASSUME IInv, IInv', NEW r \in Requests, Thrown(r, req[r]),
           NEW q, Begun(r, q), Sound(r, q), q.mw = req[r].mw, q.runs = req[r].runs,
           q.completed = req[r].completed, up,
           \/ Leave(r, q, count) \/ UserSend(r, q, count) \/ EngineSend(r, q, count)
           \/ CloseThrows(r, q, count)
           \/ Fast(r) /\ Crash(r, q, count)
    PROVE  Moved(r)
<1>1. Near(r, q)
  BY DEF Near
<1>2. Caught(r, q)
  BY DEF Caught, Thrown
<1>3. Went(r, q)
  BY LeaveWent, SendWent, CrashWent
<1>4. QED
  BY <1>1, <1>2, <1>3, WentMoved

LEMMA HandlerMoved ==
    ASSUME IInv, IInv', up, NEW r \in Requests, Sound(r, req[r]), Thrown(r, req[r]),
           NEW j \in Runs,
           \/ HSend(r, j) \/ HClose(r, j) \/ HReturn(r, j) \/ HThrow(r, j)
           \/ SseOpen(r, j) \/ SseClose(r) \/ SseWriteFails(r)
    PROVE  Moved(r)
<1> DEFINE o == req[r]
<1>1. Begun(r, o)
  <2>1. o.sse \/ \E k \in Runs : o.run[k] # "idle"
    BY DEF HSend, HClose, HReturn, HThrow, Running, SseOpen, SseClose, SseWriteFails
  <2>2. QED
    BY <2>1, Here DEF IInv
<1>2. CASE HSend(r, j) \/ SseClose(r)
  BY <1>1, <1>2, SettleMoved DEF HSend, SseClose
<1>3. CASE HReturn(r, j) \/ HThrow(r, j)
  <2> DEFINE q == [o EXCEPT !.run[j] = "done"]
  <2>1. o.run[j] # "idle"
    BY <1>3 DEF HReturn, HThrow, Running
  <2>2. "done" \in RunStates /\ "done" \notin {"sizing", "flushed"}
    BY DEF RunStates
  <2>3. /\ Begun(r, q) /\ Sound(r, q)
        /\ q.completed = o.completed /\ q.runs = o.runs /\ q.mw = o.mw
    BY <1>1, <2>1, <2>2, RunMoves
  <2>4. \/ Leave(r, q, count) \/ EngineSend(r, q, count)
        \/ CloseThrows(r, q, count)
        \/ Fast(r) /\ Crash(r, q, count)
    BY <1>3 DEF HReturn, HThrow
  <2> HIDE DEF q
  <2>5. QED
    BY <2>3, <2>4, SettleMoved
<1>4. CASE HClose(r, j)
  <2> DEFINE w == IF o.raw = "open" THEN "closed" ELSE o.raw
             p == [o EXCEPT !.completed = TRUE, !.raw = w]
  <2>1. req' = [req EXCEPT ![r] = p] /\ up' = up
    BY <1>4 DEF HClose, Leave
  <2>2. w \in {"ended", "closed", "aborted"}
    BY <1>1 DEF Begun, ReqState, RawStates
  <2> HIDE DEF w
  <2>3. /\ p.raw = w /\ p.completed
        /\ p.streamed = o.streamed /\ p.run = o.run /\ p.mw = o.mw
        /\ p.runs = o.runs /\ p.cursor = o.cursor /\ p.body = o.body
    BY <1>1 DEF Begun, ReqState
  <2> HIDE DEF p
  <2>4. QED
    BY <1>1, <2>1, <2>2, <2>3, EndMoved
<1>5. CASE SseOpen(r, j)
  <2> DEFINE p == [o EXCEPT !.sse = TRUE]
  <2>1. req' = [req EXCEPT ![r] = p] /\ up' = up
    BY <1>5 DEF SseOpen, Leave
  <2>2. /\ p.raw = o.raw /\ p.completed = o.completed
        /\ p.streamed = o.streamed /\ p.run = o.run /\ p.mw = o.mw
        /\ p.runs = o.runs /\ p.cursor = o.cursor /\ p.body = o.body
    BY <1>1 DEF Begun, ReqState
  <2> HIDE DEF p
  <2>3. QED
    BY <1>1, <2>1, <2>2, EndMoved
<1>6. CASE SseWriteFails(r)
  <2> DEFINE p == [o EXCEPT !.completed = TRUE]
  <2>1. req' = [req EXCEPT ![r] = p] /\ up' = up /\ o.raw \notin {"none", "open"}
    BY <1>6 DEF SseWriteFails, Leave
  <2>2. /\ p.raw = o.raw /\ p.completed
        /\ p.streamed = o.streamed /\ p.run = o.run /\ p.mw = o.mw
        /\ p.runs = o.runs /\ p.cursor = o.cursor /\ p.body = o.body
    BY <1>1 DEF Begun, ReqState
  <2>3. p.raw \in {"ended", "closed", "aborted"}
    BY <1>1, <2>1, <2>2 DEF Begun, ReqState, RawStates
  <2> HIDE DEF p
  <2>4. QED
    BY <1>1, <2>1, <2>2, <2>3, EndMoved
<1>7. QED
  BY <1>2, <1>3, <1>4, <1>5, <1>6

LEMMA StreamMoved ==
    ASSUME IInv, IInv', up, NEW r \in Requests, Sound(r, req[r]), Thrown(r, req[r]),
           NEW j \in Runs,
           \/ StreamStart(r, j) \/ ChunkRefused(r, j) \/ ChunkTooLate(r, j)
           \/ ChunkLast(r, j) \/ StreamEnd(r, j)
    PROVE  Moved(r)
<1> DEFINE o == req[r]
<1>1. o.run[j] # "idle"
  BY DEF StreamStart, Running, ChunkRefused, ChunkTooLate, ChunkLast, StreamEnd, Streaming
<1>2. Begun(r, o)
  BY <1>1, Here DEF IInv
<1>3. ASSUME NEW s \in RunStates, Plain /\ ~Fast(r) => s \notin {"sizing", "flushed"},
             NEW q, q = [o EXCEPT !.run[j] = s]
      PROVE  /\ Begun(r, q) /\ Sound(r, q)
             /\ q.completed = o.completed /\ q.runs = o.runs /\ q.mw = o.mw
  BY <1>1, <1>2, <1>3, RunMoves
<1>4. CASE StreamStart(r, j)
  <2>1. PICK s \in {"streaming", "sizing"} :
          /\ Leave(r, [o EXCEPT !.run[j] = s], count)
          /\ "sized" \notin Behaviours => s = "streaming"
    BY <1>4 DEF StreamStart
  <2> DEFINE q == [o EXCEPT !.run[j] = s]
  <2>2. s \in RunStates /\ (Plain => s \notin {"sizing", "flushed"})
    BY <2>1 DEF RunStates, Plain
  <2>3. /\ Begun(r, q) /\ Sound(r, q)
        /\ q.completed = o.completed /\ q.runs = o.runs /\ q.mw = o.mw
    BY <1>3, <2>2
  <2>4. Leave(r, q, count)
    BY <2>1
  <2> HIDE DEF q
  <2>5. QED
    BY <2>3, <2>4, SettleMoved
<1>5. CASE ChunkRefused(r, j)
  <2> DEFINE q == [o EXCEPT !.run[j] = "stalled"]
  <2>1. "stalled" \in RunStates /\ "stalled" \notin {"sizing", "flushed"}
    BY DEF RunStates
  <2>2. /\ Begun(r, q) /\ Sound(r, q)
        /\ q.completed = o.completed /\ q.runs = o.runs /\ q.mw = o.mw
    BY <1>3, <2>1
  <2>3. Leave(r, q, count)
    BY <1>5 DEF ChunkRefused
  <2> HIDE DEF q
  <2>4. QED
    BY <2>2, <2>3, SettleMoved
<1>6. CASE ChunkTooLate(r, j)
  <2>1. ~Plain \/ Fast(r)
    BY <1>2, <1>6 DEF ChunkTooLate, Sound, Answerable, Begun
  <2>2. Went(r, o) /\ Near(r, o) /\ Caught(r, o)
    BY <1>2, <1>6, <2>1, CrashWent DEF ChunkTooLate, Near, Caught
  <2>3. QED
    BY <1>2, <2>2, WentMoved
<1>7. CASE ChunkLast(r, j)
  <2> DEFINE f == [o.run EXCEPT ![j] = "flushed"]
             p == [o EXCEPT !.run = f, !.raw = "ended"]
  <2>1. ~Plain \/ Fast(r)
    BY <1>7 DEF ChunkLast, Sound, Answerable, Unsized
  <2>2. req' = [req EXCEPT ![r] = p] /\ up' = up
    BY <1>7 DEF ChunkLast, Leave
  <2> HIDE DEF f
  <2>3. /\ p.raw = "ended" /\ p.completed = o.completed /\ p.mw = o.mw
        /\ p.runs = o.runs /\ p.cursor = o.cursor /\ p.body = o.body
    BY <1>2 DEF Begun, ReqState
  <2> HIDE DEF p
  <2>4. o.runs # 0 /\ o.runs \in Nat
    BY <1>1, <1>2, ConfigAssumption DEF Sound, Waits, Begun, ReqState
  <2>5. Sound(r, p)
    BY <2>1, <2>3, <2>4 DEF Sound, InOrder, Waits, Final, Baton, Answerable
  <2>6. Thrown(r, p)
    BY <2>3 DEF Thrown
  <2>7. req'[r] = p /\ \A s \in Requests \ {r} : req'[s] = req[s]
    BY <2>2, Put
  <2>8. Thrown(r, req[r])'
    BY <2>2, <2>6, <2>7 DEF Thrown, Fast, Mws, Chain
  <2>9. ~(req'[r].runs > req[r].runs)
    BY <2>3, <2>4, <2>7
  <2>10. QED
    BY <2>1, <2>2, <2>3, <2>5, <2>7, <2>8, <2>9 DEF Moved
<1>8. CASE StreamEnd(r, j)
  <2> DEFINE q == [o EXCEPT !.run[j] = "running"]
             p == [q EXCEPT !.streamed = TRUE]
  <2>1. "running" \in RunStates /\ "running" \notin {"sizing", "flushed"}
    BY DEF RunStates
  <2>2. /\ Begun(r, q) /\ Sound(r, q)
        /\ q.completed = o.completed /\ q.runs = o.runs /\ q.mw = o.mw
    BY <1>3, <2>1
  <2>3. \/ Leave(r, q, count) \/ UserSend(r, q, count)
        \/ o.run[j] \in {"flushed", "sizing"} /\ Leave(r, p, Resolve(count))
    BY <1>8 DEF StreamEnd
  <2> HIDE DEF q
  <2>4. CASE Leave(r, q, count) \/ UserSend(r, q, count)
    BY <2>2, <2>4, SettleMoved
  <2>5. CASE o.run[j] \in {"flushed", "sizing"} /\ Leave(r, p, Resolve(count))
    <3>1. ~Plain \/ Fast(r)
      BY <2>5 DEF Sound, Answerable, Unsized
    <3>2. /\ p.raw = q.raw /\ p.completed = q.completed /\ p.mw = q.mw /\ p.run = q.run
          /\ p.runs = q.runs /\ p.cursor = q.cursor /\ p.body = q.body
      BY <2>2 DEF Begun, ReqState
    <3>3. req' = [req EXCEPT ![r] = p] /\ up' = up
      BY <2>5 DEF Leave
    <3> HIDE DEF p
    <3>4. Sound(r, p)
      BY <2>2, <3>1, <3>2 DEF Sound, InOrder, Waits, Final, Baton, Answerable
    <3>5. Thrown(r, p)
      BY <2>2, <3>2 DEF Thrown
    <3>6. req'[r] = p /\ \A s \in Requests \ {r} : req'[s] = req[s]
      BY <3>3, Put
    <3>7. Thrown(r, req[r])'
      BY <3>3, <3>5, <3>6 DEF Thrown, Fast, Mws, Chain
    <3>8. ~(req'[r].runs > req[r].runs)
      BY <1>2, <2>2, <3>2, <3>6, ConfigAssumption DEF Begun, ReqState
    <3>9. QED
      BY <2>2, <3>1, <3>2, <3>3, <3>4, <3>6, <3>7, <3>8 DEF Moved
  <2>6. QED
    BY <2>3, <2>4, <2>5
<1>9. QED
  BY <1>4, <1>5, <1>6, <1>7, <1>8

-----------------------------------------------------------------------------
(* The invariant                                                           *)

LEMMA NextMoved ==
    ASSUME Ordered, Next
    PROVE  \E r \in Requests : Moved(r)
<1>1. IInv /\ IInv' /\ up
  BY StepIInv DEF Ordered, Next
<1>2. PICK r \in Requests : Socket(r) \/ Mw(r) \/ Handler(r) \/ SseClose(r) \/ SseWriteFails(r)
  BY DEF Next
<1>3. Sound(r, req[r]) /\ Thrown(r, req[r])
  BY DEF Ordered
<1>4. CASE Socket(r)
  BY <1>1, <1>3, <1>4, ArriveMoved, BodyMoved, AbortMoved DEF Socket
<1>5. CASE Mw(r)
  BY <1>1, <1>3, <1>5, MwMoved DEF Mw
<1>6. CASE Handler(r)
  BY <1>1, <1>3, <1>6, HandlerMoved, StreamMoved DEF Handler
<1>7. CASE SseClose(r) \/ SseWriteFails(r)
  <2>1. 1 \in Runs
    BY ConfigAssumption DEF Runs
  <2>2. QED
    BY <1>1, <1>3, <1>7, <2>1, HandlerMoved
<1>8. QED
  BY <1>2, <1>4, <1>5, <1>6, <1>7

LEMMA InitOrdered ==
    ASSUME Init
    PROVE  Ordered
<1>1. ASSUME NEW r \in Requests
      PROVE  Sound(r, req[r]) /\ Thrown(r, req[r])
  <2> DEFINE q == req[r]
  <2>1. /\ q.raw = "none" /\ q.body = "none" /\ q.completed = FALSE /\ q.streamed = FALSE
        /\ q.cursor = -1 /\ q.runs = 0
        /\ \A i \in Mws(r) : q.mw[i] = "idle"
        /\ \A j \in Runs : q.run[j] = "idle"
    BY DEF Init, Unborn
  <2> HIDE DEF q
  <2>2. InOrder(r, q) /\ Waits(r, q) /\ Final(q) /\ Thrown(r, q)
    BY <2>1 DEF InOrder, Waits, Final, Thrown
  <2>3. Baton(r, q) /\ Answerable(r, q)
    BY <2>1 DEF Baton, Answerable, Unsized
  <2>4. QED
    BY <2>2, <2>3 DEF Sound, q
<1>2. QED
  BY <1>1, InitIInv DEF Init, Ordered

LEMMA StepOrdered ==
    ASSUME Ordered, [Next]_vars
    PROVE  Ordered'
<1>1. IInv'
  BY StepIInv DEF Ordered
<1>2. CASE Next
  <2>1. PICK r \in Requests : Moved(r)
    BY <1>2, NextMoved
  <2>2. ASSUME NEW s \in Requests \ {r}
        PROVE  Sound(s, req'[s]) /\ Thrown(s, req[s])'
    <3>1. req'[s] = req[s] /\ up' \in {up, FALSE} /\ Sound(s, req[s]) /\ Thrown(s, req[s])
      BY <2>1 DEF Moved, Ordered
    <3>2. Sound(s, req'[s])
      BY <3>1
    <3>3. Thrown(s, req[s])'
      BY <3>1 DEF Thrown, Fast, Mws, Chain
    <3>4. QED
      BY <3>2, <3>3
  <2>3. Sound(r, req'[r]) /\ Thrown(r, req[r])'
    BY <2>1 DEF Moved
  <2>4. \A s \in Requests : Sound(s, req'[s]) /\ Thrown(s, req[s])'
    BY <2>2, <2>3
  <2>5. \A s \in Requests : Sound(s, req[s])'
    BY <2>4 DEF Sound, InOrder, Waits, Final, Baton, Answerable, Unsized, Calm, Plain, Fast,
                Mws, Chain, Runs
  <2>6. QED
    BY <1>1, <2>4, <2>5, <2>6 DEF Ordered
<1>3. CASE UNCHANGED vars
  BY <1>1, <1>3 DEF vars, Ordered, Sound, InOrder, Waits, Final, Baton, Answerable, Unsized, Calm,
                    Plain, Fast, Thrown, Mws, Chain, Runs
<1>4. QED
  BY <1>2, <1>3

LEMMA AlwaysOrdered == Spec => []Ordered
BY InitOrdered, StepOrdered, PTL DEF Spec

LEMMA StepMoved ==
    ASSUME Ordered, [Next]_vars
    PROVE  \/ UNCHANGED vars
           \/ \E r \in Requests : Moved(r)
BY NextMoved

-----------------------------------------------------------------------------
(* Theorems                                                                *)

\* A Response that is completed is done on the wire as well, whatever user code
\* and clients do.
THEOREM CompletionIsFinal == Spec => []CompletedIsFinal
<1>1. Ordered => CompletedIsFinal
  BY DEF Ordered, Sound, Final, CompletedIsFinal
<1>2. QED
  BY <1>1, AlwaysOrdered, PTL

\* No middleware and no handler starts before the body of its request has
\* arrived, and none for a body that was refused.
THEOREM BodyComesFirst == Spec => []BodyBeforeCode
<1>1. ASSUME Ordered
      PROVE  BodyBeforeCode
  <2>1. \A r \in Requests : Waits(r, req[r])
    BY <1>1 DEF Ordered, Sound
  <2>2. QED
    BY <2>1 DEF Waits, BodyBeforeCode, Entered
<1>2. QED
  BY <1>1, AlwaysOrdered, PTL

\* The handler runs at most once for a request if no middleware calls next()
\* twice, or after it has returned.  (One that does can run it again.)
THEOREM HandlerRunsOnce ==
    ASSUME Calm
    PROVE  Spec => []HandlerOnce
<1>1. Ordered => HandlerOnce
  BY DEF Ordered, Sound, Baton, HandlerOnce
<1>2. QED
  BY <1>1, AlwaysOrdered, PTL

\* Whatever user code throws, null included, a request that goes through the
\* iterator never ends the process, as long as no stream has a total_size and no
\* listener throws: only requests on the fast path can.
THEOREM RejectionsAreCaught ==
    ASSUME Plain
    PROVE  Spec => ThrowsContained
<1> DEFINE A == ~up' => \A r \in Requests : ~Fast(r) => req'[r] = req[r]
<1>1. Ordered /\ [Next]_vars => [A]_vars
  <2> SUFFICES ASSUME Ordered, Next
               PROVE  A
    BY DEF vars
  <2>1. PICK r \in Requests : Moved(r)
    BY NextMoved
  <2>2. up
    BY DEF Next
  <2>3. QED
    BY <2>1, <2>2 DEF Moved
<1>2. QED
  BY <1>1, AlwaysOrdered, PTL DEF Spec, ThrowsContained

\* Once a response is completed no step starts a middleware or the handler.
THEOREM CompletedIsTheEnd == Spec => NothingAfterCompletion
<1> DEFINE A == \A r \in Requests :
                   req[r].completed =>
                       /\ req'[r].runs = req[r].runs
                       /\ \A i \in Mws(r) : req[r].mw[i] = "idle" => req'[r].mw[i] = "idle"
<1>1. Ordered /\ [Next]_vars => [A]_vars
  BY StepMoved DEF Moved
<1>2. QED
  BY <1>1, AlwaysOrdered, PTL DEF Spec, NothingAfterCompletion

\* No step starts a middleware that has been started before.
THEOREM MiddlewaresRunOnce == Spec => NoMiddlewareReplay
<1> DEFINE A == \A r \in Requests : \A i \in Mws(r) :
                   req[r].mw[i] # "idle" =>
                       (req'[r].mw[i] = "running" => req[r].mw[i] = "running")
<1>1. Ordered /\ [Next]_vars => [A]_vars
  BY StepMoved DEF Moved
<1>2. QED
  BY <1>1, AlwaysOrdered, PTL DEF Spec, NoMiddlewareReplay

\* A step that starts the handler finds every middleware of the chain passed:
\* none is left out, none still runs, none has thrown.
THEOREM HandlerIsLast == Spec => HandlerGate
<1> DEFINE A == \A r \in Requests :
                   req'[r].runs > req[r].runs =>
                       \A i \in Mws(r) : req'[r].mw[i] \in {"advanced", "returned", "done"}
<1>1. Ordered /\ [Next]_vars => [A]_vars
  <2> SUFFICES ASSUME Ordered, Next
               PROVE  A
    OBVIOUS
  <2>1. PICK r \in Requests : Moved(r)
    BY NextMoved
  <2>2. ASSUME NEW s \in Requests \ {r}
        PROVE  ~(req'[s].runs > req[s].runs)
    <3>1. req'[s] = req[s] /\ req[s].runs \in Nat
      BY <2>1, ConfigAssumption DEF Moved, Ordered, IInv, TypeOK, ReqState
    <3>2. QED
      BY <3>1
  <2>3. QED
    BY <2>1, <2>2 DEF Moved, LetThrough
<1>2. QED
  BY <1>1, AlwaysOrdered, PTL DEF Spec, HandlerGate

=============================================================================
