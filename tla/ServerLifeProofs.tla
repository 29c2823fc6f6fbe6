-------------------------- MODULE ServerLifeProofs --------------------------
(***************************************************************************)
(* Proofs about ServerLife: its types, that the listen socket and the      *)
(* hooks are closed once, that a process which reports ready listens, and  *)
(* that the gateway was told of everything it serves.                      *)
(***************************************************************************)
EXTENDS ServerLife, TLAPS

(***************************************************************************)
(* The strengthening.  Every process is sound on its own:                  *)
(* Unpublished  it has not told the gateway, nor loaded a plugin           *)
(* Unlistened   its socket is not open yet, so nothing was closed          *)
(* Hooked       it lives, so that onClose has not been called              *)
(***************************************************************************)
Unpublished == {"none", "boot", "nats", "engine", "init", "hook", "files", "wsFiles", "base", "publish"}
Unlistened  == Unpublished \cup {"plugins", "listen"}

\* what is registered only after the gateway was told, and what it is told of the rest
Late    == {"plugins", "late"}
Told(R) == {r \in R : r.name = "own" /\ r.by \notin Late}

Listed(q) ==
    /\ q.pc \in Unpublished => q.pub = {} /\ \A r \in q.regs : r.by \notin Late
    /\ q.pc \in {"plugins", "listen", "after", "ready"} => q.pub = Told(q.regs)

Bound(q) ==
    /\ q.pc \in Unlistened => q.sock = "none" /\ q.closes = 0 /\ ~q.armed
    /\ q.pc \in {"after", "ready"} =>
         \/ q.sock = "open" /\ q.closes = 0 /\ q.armed
         \/ q.sock = "closed" /\ q.closes = 1 /\ ~q.armed /\ q.fault = "signal"
    /\ q.pc # "dead" => q.hooks = 0
    /\ q.pc # "dead" /\ "USR2" \in q.sig => q.fault = "signal"

Over(q) ==
    q.pc = "dead" =>
        /\ q.closes <= 1 /\ q.hooks <= 1 /\ q.sock # "open"
        /\ q.sock = "closed" <=> q.closes = 1

Sound(q) == Listed(q) /\ Bound(q) /\ Over(q)

\* A child beyond the first is owed to a change of the source, and so is a
\* timer that runs and a change that was not noticed yet.
Owed(w) == w.child + (IF w.timer THEN 1 ELSE 0) + (IF w.unnoticed THEN 1 ELSE 0)

Inv ==
    /\ TypeOK
    /\ Owed(watch) <= edits + 1
    /\ \A p \in Pids : Sound(proc[p])

-----------------------------------------------------------------------------
(* The order of the boot sequence                                          *)

LEMMA PlaceIs ==
    ASSUME NEW k \in 1 .. 12
    PROVE  Place(Order[k]) = k
<1>1. Len(Order) = 13
  BY DEF Order
<1>2. \A i, j \in 1 .. 13 : Order[i] = Order[j] => i = j
  BY DEF Order
<1>3. QED
  BY <1>1, <1>2 DEF Place

\* What follows each place.
LEMMA Follows ==
    /\ Then("boot") = "nats" /\ Then("nats") = "engine" /\ Then("engine") = "init"
    /\ Then("init") = "hook" /\ Then("hook") = "files" /\ Then("files") = "wsFiles"
    /\ Then("wsFiles") = "base" /\ Then("base") = "publish" /\ Then("publish") = "plugins"
    /\ Then("plugins") = "listen" /\ Then("listen") = "after" /\ Then("after") = "ready"
<1>1. \A k \in 1 .. 12 : Then(Order[k]) = Order[k + 1]
  BY PlaceIs DEF Then
<1>2. /\ Order[1] = "boot" /\ Order[2] = "nats" /\ Order[3] = "engine" /\ Order[4] = "init"
      /\ Order[5] = "hook" /\ Order[6] = "files" /\ Order[7] = "wsFiles" /\ Order[8] = "base"
      /\ Order[9] = "publish" /\ Order[10] = "plugins" /\ Order[11] = "listen"
      /\ Order[12] = "after" /\ Order[13] = "ready"
  BY DEF Order
<1>3. QED
  BY <1>1, <1>2

\* Where a process may be.
LEMMA Places ==
    {Order[k] : k \in 1 .. Len(Order)} =
        {"boot", "nats", "engine", "init", "hook", "files", "wsFiles", "base", "publish",
         "plugins", "listen", "after", "ready"}
<1>1. Len(Order) = 13
  BY DEF Order
<1>2. \A x : (\E k \in 1 .. 13 : x = Order[k]) <=>
        x \in {"boot", "nats", "engine", "init", "hook", "files", "wsFiles", "base", "publish",
               "plugins", "listen", "after", "ready"}
  BY DEF Order
<1>3. QED
  BY <1>1, <1>2

-----------------------------------------------------------------------------
(* Processes                                                               *)

\* A process of which one is told everything.
LEMMA Fields ==
    ASSUME NEW q \in Proc
    PROVE  /\ q.pc \in {"none", "dead", "boot", "nats", "engine", "init", "hook", "files", "wsFiles",
                        "base", "publish", "plugins", "listen", "after", "ready"}
           /\ q.closes \in Nat /\ q.hooks \in Nat /\ q.armed \in BOOLEAN
           /\ q.regs \subseteq Registrations /\ q.pub \subseteq {r \in Registrations : ~Internal(r)}
           /\ q.sig \subseteq {"TERM", "USR2"}
BY Places DEF Proc

LEMMA BornSound ==
    /\ Unborn \in Proc /\ Sound(Unborn)
    /\ Born \in Proc /\ Sound(Born)
<1>1. 0 \in 0 .. MaxEdits
  BY LifeAssumption
<1>2. Unborn \in Proc
  BY <1>1, Places DEF Unborn, Proc
<1>3. Born \in Proc
  BY <1>1, Places DEF Born, Unborn, Proc
<1>4. Sound(Unborn)
  BY DEF Unborn, Sound, Listed, Bound, Over, Unlistened, Unpublished
<1>5. Sound(Born)
  BY DEF Born, Unborn, Sound, Listed, Bound, Over, Unlistened, Unpublished
<1>6. QED
  BY <1>2, <1>3, <1>4, <1>5

Faults == {"none", "boot", "init", "middleware", "run", "signal"}

\* A process that is gone, whatever it is said to have failed with.
Ended(q) ==
    /\ q.pc = "dead"
    /\ \A f \in Faults : /\ [q EXCEPT !.fault = f] \in Proc
                         /\ [q EXCEPT !.fault = f].pc = "dead"
                         /\ Sound([q EXCEPT !.fault = f])
    /\ q \in Proc /\ Sound(q)

\* What is left of a process that was closed.
LEMMA GoneEnds ==
    ASSUME NEW q, q.sock \in {"none", "closed"}, q.closes \in {0, 1}, q.hooks \in {0, 1},
           q.sock = "closed" <=> q.closes = 1, q.fault \in Faults
    PROVE  Ended(Gone(q))
<1>1. Unborn \in Proc /\ q.fault \in Faults /\ q.closes \in Nat /\ q.hooks \in Nat
  BY BornSound
<1>2. /\ Gone(q) \in Proc /\ Gone(q).pc = "dead"
      /\ Gone(q).sock = q.sock /\ Gone(q).closes = q.closes /\ Gone(q).hooks = q.hooks
  <2> DEFINE a == [Unborn EXCEPT !.pc = "dead", !.sock = q.sock]
  <2>1. a \in Proc /\ a.pc = "dead" /\ a.sock = q.sock
    BY <1>1 DEF Proc
  <2>2. Gone(q) = [a EXCEPT !.closes = q.closes, !.hooks = q.hooks, !.fault = q.fault]
    BY DEF Gone
  <2> HIDE DEF a
  <2>3. QED
    BY <1>1, <2>1, <2>2 DEF Proc, Faults
<1>3. \A f \in Faults :
        LET g == [Gone(q) EXCEPT !.fault = f]
        IN  /\ g \in Proc /\ g.pc = "dead"
            /\ g.sock = q.sock /\ g.closes = q.closes /\ g.hooks = q.hooks
  BY <1>2 DEF Proc, Faults
<1>4. \A g : /\ g.pc = "dead" /\ g.sock = q.sock /\ g.closes = q.closes /\ g.hooks = q.hooks
            => Sound(g)
  BY DEF Sound, Listed, Bound, Over, Unlistened, Unpublished
<1>5. QED
  BY <1>2, <1>3, <1>4 DEF Ended

\* However a living process ends, its socket is closed, once, if it was open.
LEMMA Ends ==
    ASSUME NEW q \in Proc, Sound(q), q.pc \notin {"none", "dead"}
    PROVE  Ended(Exited(q)) /\ (~q.armed => Ended(Killed(q)))
<1>1. /\ q.closes \in Nat /\ q.hooks = 0 /\ q.fault \in Faults /\ q.sock \in {"none", "open", "closed"}
      /\ \/ q.sock = "open" /\ q.closes = 0 /\ q.armed
         \/ q.sock = "closed" /\ q.closes = 1 /\ ~q.armed
         \/ q.sock = "none" /\ q.closes = 0 /\ ~q.armed
  BY Fields DEF Sound, Bound, Proc, Unlistened, Unpublished, Faults
<1> DEFINE r == FireClose(q)
<1>2. /\ r.sock = (IF q.sock = "open" THEN "closed" ELSE q.sock)
      /\ r.closes = (IF q.sock = "open" THEN q.closes + 1 ELSE q.closes)
      /\ r.hooks = 1 /\ r.fault = q.fault
  BY <1>1 DEF FireClose, Close, Proc
<1>3. Exited(q) = Gone(r)
  BY <1>2 DEF Exited, Close
<1>4. Killed(q) = Gone(q)
  BY DEF Killed
<1> HIDE DEF r
<1>5. QED
  BY <1>1, <1>2, <1>3, <1>4, GoneEnds

\* A process before it runs has not even begun to listen.
LEMMA UnarmedEarly ==
    ASSUME NEW q \in Proc, Sound(q), q.pc = "boot"
    PROVE  ~q.armed
BY DEF Sound, Bound, Unlistened, Unpublished

-----------------------------------------------------------------------------
(* Steps                                                                   *)

\* A step of one process that leaves it sound, and the watcher alone.
LEMMA ProcessKeeps ==
    ASSUME Inv, NEW p \in Pids, NEW q \in Proc, Sound(q), proc' = [proc EXCEPT ![p] = q],
           UNCHANGED <<broken, edits, watch>>, faults' \in 0 .. MaxFaults
    PROVE  Inv'
<1>1. TypeOK'
  BY DEF Inv, TypeOK
<1>2. \A r \in Pids : Sound(proc'[r])
  BY DEF Inv, TypeOK
<1>3. Owed(watch') <= edits' + 1
  BY DEF Inv
<1>4. QED
  BY <1>1, <1>2, <1>3 DEF Inv, Sound, Listed, Bound, Over

\* A step of one process that ends it.
LEMMA EndKeeps ==
    ASSUME Inv, NEW p \in Pids, NEW q, Ended(q), proc' = [proc EXCEPT ![p] = q],
           UNCHANGED <<broken, edits, watch>>, faults' \in 0 .. MaxFaults
    PROVE  Inv'
BY ProcessKeeps DEF Ended

\* One that ends it with a fault of its own.
LEMMA FaultKeeps ==
    ASSUME Inv, NEW p \in Pids, NEW q, Ended(q), NEW f \in Faults, Fault,
           proc' = [proc EXCEPT ![p] = [q EXCEPT !.fault = f]],
           UNCHANGED <<broken, edits, watch>>
    PROVE  Inv'
<1>1. faults' \in 0 .. MaxFaults
  BY LifeAssumption DEF Fault, Inv, TypeOK
<1>2. QED
  BY <1>1, ProcessKeeps DEF Ended

\* What a step of the boot sequence that does not listen leaves alone.
Alike(q, r) ==
    /\ q.pc = r.pc /\ q.sock = r.sock /\ q.closes = r.closes /\ q.hooks = r.hooks
    /\ q.armed = r.armed /\ q.fault = r.fault /\ q.sig = r.sig

\* A process that is through with what it waited for.
LEMMA ThroughKeeps ==
    ASSUME Inv, NEW p \in Pids, NEW pc, NEW q \in Proc, Through(p, pc, q),
           pc \in {"boot", "nats", "engine", "init", "hook", "files", "wsFiles", "base",
                  "publish", "plugins", "after"},
           Alike(q, proc[p]), Listed([q EXCEPT !.pc = Then(pc)])
    PROVE  Inv'
<1> DEFINE r == [q EXCEPT !.pc = Then(pc)]
<1>1. proc[p] \in Proc /\ Sound(proc[p]) /\ proc[p].pc = pc
  BY DEF Inv, TypeOK, Through
<1>2. IF pc = "after" THEN Then(pc) = "ready" ELSE Then(pc) \in Unlistened \ {"none"}
  BY Follows DEF Unlistened, Unpublished
<1>3. /\ r.pc = Then(pc) /\ r.sock = q.sock /\ r.closes = q.closes /\ r.hooks = q.hooks
      /\ r.armed = q.armed /\ r.fault = q.fault /\ r.sig = q.sig
  BY DEF Proc
<1>4. r \in Proc
  BY <1>2, Places DEF Proc, Unlistened, Unpublished
<1>5. proc' = [proc EXCEPT ![p] = r] /\ UNCHANGED <<broken, edits, watch, faults>>
  BY DEF Through
<1> HIDE DEF r
<1>6. Bound(r) /\ Over(r)
  <2> DEFINE t == proc[p]
  <2>1. /\ r.sock = t.sock /\ r.closes = t.closes /\ r.hooks = t.hooks
        /\ r.armed = t.armed /\ r.fault = t.fault /\ r.sig = t.sig
        /\ Bound(t) /\ t.pc = pc
    BY <1>1, <1>3 DEF Alike, Sound
  <2> HIDE DEF t
  <2>2. CASE pc = "after"
    BY <1>2, <1>3, <2>1, <2>2 DEF Bound, Over, Unlistened, Unpublished
  <2>3. CASE pc # "after"
    BY <1>2, <1>3, <2>1, <2>3 DEF Bound, Over, Unlistened, Unpublished
  <2>4. QED
    BY <2>2, <2>3
<1>7. faults' \in 0 .. MaxFaults
  BY <1>5 DEF Inv, TypeOK
<1>8. QED
  BY <1>4, <1>5, <1>6, <1>7, ProcessKeeps DEF Sound, r

\* One that registers something.
LEMMA RegisterKeeps ==
    ASSUME Inv, NEW p \in Pids, NEW pc, NEW R \in SUBSET Registrations, Registers(p, pc, R),
           pc \in {"engine", "hook", "base", "plugins", "after"},
           \A r \in R : r.by \in Late <=> pc \in {"plugins", "after"}
    PROVE  Inv'
<1> DEFINE q == [proc[p] EXCEPT !.regs = @ \cup R]
<1>1. proc[p] \in Proc /\ Sound(proc[p]) /\ proc[p].pc = pc /\ Through(p, pc, q)
  BY DEF Inv, TypeOK, Registers, Through
<1>2. q \in Proc /\ Alike(q, proc[p]) /\ q.regs = proc[p].regs \cup R /\ q.pub = proc[p].pub
  BY <1>1 DEF Proc, Alike
<1> HIDE DEF q
<1> DEFINE r == [q EXCEPT !.pc = Then(pc)]
<1>3. r.pc = Then(pc) /\ r.regs = q.regs /\ r.pub = q.pub
  BY <1>2 DEF Proc
<1>4. Listed(r)
  BY <1>1, <1>2, <1>3, Follows DEF Sound, Listed, Unpublished, Told, Late
<1>5. QED
  BY <1>1, <1>2, <1>4, ThroughKeeps

\* One that walks a directory.
LEMMA ScanKeeps ==
    ASSUME Inv, NEW p \in Pids, NEW pc \in {"files", "wsFiles"}, NEW R \in SUBSET Registrations,
           Through(p, pc, Scanned(proc[p], R)), \A r \in R : r.by \notin Late
    PROVE  Inv'
<1> DEFINE q == Scanned(proc[p], R)
<1>1. proc[p] \in Proc /\ Sound(proc[p]) /\ proc[p].pc = pc
  BY DEF Inv, TypeOK, Through
<1>2. /\ q \in Proc /\ Alike(q, proc[p])
      /\ q.regs = proc[p].regs \cup R /\ q.pub = proc[p].pub
  BY <1>1 DEF Proc, Alike, Scanned, Inv, TypeOK
<1> HIDE DEF q
<1> DEFINE r == [q EXCEPT !.pc = Then(pc)]
<1>3. r.pc = Then(pc) /\ r.regs = q.regs /\ r.pub = q.pub
  BY <1>2 DEF Proc
<1>4. Listed(r)
  BY <1>1, <1>2, <1>3, Follows DEF Sound, Listed, Unpublished, Told, Late
<1>5. QED
  BY <1>1, <1>2, <1>4, ThroughKeeps DEF q

\* The step that listens, on a socket that was not open before.
LEMMA ListenKeeps ==
    ASSUME Inv, NEW p \in Pids, Listen(p)
    PROVE  Inv'
<1> DEFINE q == [proc[p] EXCEPT !.sock = "open", !.armed = TRUE]
           r == [q EXCEPT !.pc = "after"]
<1>1. proc[p] \in Proc /\ Sound(proc[p]) /\ proc[p].pc = "listen"
  BY DEF Inv, TypeOK, Listen, Through
<1>2. proc' = [proc EXCEPT ![p] = r] /\ UNCHANGED <<broken, edits, watch, faults>>
  BY Follows DEF Listen, Through
<1>3. /\ q \in Proc /\ q.sock = "open" /\ q.armed
      /\ q.closes = proc[p].closes /\ q.hooks = proc[p].hooks /\ q.sig = proc[p].sig
      /\ q.fault = proc[p].fault /\ q.regs = proc[p].regs /\ q.pub = proc[p].pub
  BY <1>1 DEF Proc
<1> HIDE DEF q
<1>4. /\ r \in Proc /\ r.pc = "after" /\ r.sock = q.sock /\ r.armed = q.armed
      /\ r.closes = q.closes /\ r.hooks = q.hooks /\ r.sig = q.sig
      /\ r.fault = q.fault /\ r.regs = q.regs /\ r.pub = q.pub
  BY <1>3, Places DEF Proc
<1> HIDE DEF r
<1>5. Sound(r)
  BY <1>1, <1>3, <1>4 DEF Sound, Listed, Bound, Over, Unlistened, Unpublished
<1>6. faults' \in 0 .. MaxFaults
  BY <1>2 DEF Inv, TypeOK
<1>7. QED
  BY <1>2, <1>4, <1>5, <1>6, ProcessKeeps

\* What is asked for by source is registered by one of those.
LEMMA AskedIs ==
    ASSUME NEW S
    PROVE  /\ Initialised(S) \subseteq By(S) /\ EventsOf(S) \subseteq By(S) /\ Asked(S) \subseteq By(S)
           /\ By(S) \subseteq Registrations /\ \A r \in By(S) : r.by \in S
BY DEF Initialised, EventsOf, Asked, By

LEMMA BootKeeps ==
    ASSUME Inv, NEW p \in Pids,
           \/ Framework(p) \/ InitTasks(p) \/ Declared(p) \/ Plugins(p) \/ AfterInitialize(p)
    PROVE  Inv'
<1> USE AskedIs DEF Late
<1>1. /\ proc[p] \in Proc /\ Sound(proc[p])
      /\ Alike(proc[p], proc[p]) /\ edits \in 0 .. MaxEdits
  BY DEF Inv, TypeOK, Alike
<1>2. \A pc : LET r == [proc[p] EXCEPT !.pc = pc]
              IN  r.pc = pc /\ r.regs = proc[p].regs /\ r.pub = proc[p].pub
  BY <1>1 DEF Proc
<1>3. CASE Boot(p)
  <2> DEFINE q == [proc[p] EXCEPT !.ver = edits]
  <2>1. Through(p, "boot", q) /\ proc[p].pc = "boot"
    BY <1>3 DEF Boot, Through
  <2>2. q \in Proc /\ Alike(q, proc[p]) /\ q.regs = proc[p].regs /\ q.pub = proc[p].pub
    BY <1>1 DEF Proc, Alike
  <2> HIDE DEF q
  <2> DEFINE r == [q EXCEPT !.pc = Then("boot")]
  <2>3. r.pc = "nats" /\ r.regs = q.regs /\ r.pub = q.pub
    BY <2>2, Follows DEF Proc
  <2>4. Listed(r)
    BY <1>1, <2>1, <2>2, <2>3 DEF Sound, Listed, Unpublished
  <2>5. QED
    BY <2>1, <2>2, <2>4, ThroughKeeps
<1>4. ASSUME NEW pc \in {"nats", "init"}, Through(p, pc, proc[p])
      PROVE  Inv'
  <2>1. proc[p].pc = pc
    BY <1>4 DEF Through
  <2>2. Listed([proc[p] EXCEPT !.pc = Then(pc)])
    BY <1>1, <1>2, <2>1, Follows DEF Sound, Listed, Unpublished
  <2>3. QED
    BY <1>1, <1>4, <2>2, ThroughKeeps
<1>5. CASE NatsUp(p) \/ InitTasks(p)
  BY <1>4, <1>5 DEF NatsUp, InitTasks
<1>6. CASE EngineUp(p)
  <2>1. CatchAll \in Registrations /\ CatchAll.by = "default"
    BY DEF CatchAll, Registrations, Sources
  <2>2. QED
    BY <1>6, <2>1, RegisterKeeps DEF EngineUp
<1>7. CASE Declared(p)
  BY <1>7, RegisterKeeps DEF Declared
<1>8. CASE FileRoutes(p)
  BY <1>8, ScanKeeps DEF FileRoutes
<1>9. CASE WsFileEvents(p)
  BY <1>9, ScanKeeps DEF WsFileEvents
<1>10. CASE BaseRoutes(p)
  BY <1>10, RegisterKeeps DEF BaseRoutes
<1>11. CASE Plugins(p) \/ AfterInitialize(p)
  BY <1>11, RegisterKeeps DEF Plugins, AfterInitialize
<1>12. CASE Publish(p)
  <2> DEFINE told == {r \in proc[p].regs : ~Internal(r)}
             q    == [proc[p] EXCEPT !.pub = told]
  <2>1. Through(p, "publish", q) /\ proc[p].pc = "publish"
    BY <1>12 DEF Publish, Through
  <2>2. /\ q \in Proc /\ Alike(q, proc[p])
        /\ q.regs = proc[p].regs /\ q.pub = told
    BY <1>1 DEF Proc, Alike
  <2>3. told = Told(proc[p].regs)
    <3>1. \A r \in proc[p].regs : r \in Registrations /\ r.by \notin Late
      BY <1>1, <2>1, Fields DEF Sound, Listed, Unpublished
    <3>2. \A r \in Registrations : ~Internal(r) <=> r.name = "own"
      BY DEF Registrations, Internal
    <3>3. QED
      BY <3>1, <3>2 DEF Told
  <2> HIDE DEF q
  <2> DEFINE r == [q EXCEPT !.pc = Then("publish")]
  <2>4. r.pc = "plugins" /\ r.regs = q.regs /\ r.pub = q.pub
    BY <2>2, Follows DEF Proc
  <2>5. Listed(r)
    BY <2>2, <2>4, <2>3 DEF Listed, Unpublished
  <2>6. QED
    BY <2>1, <2>2, <2>5, ThroughKeeps
<1>13. CASE Listen(p)
  BY <1>13, ListenKeeps
<1>14. QED
  BY <1>3, <1>5, <1>6, <1>7, <1>8, <1>9, <1>10, <1>11, <1>12, <1>13 DEF Framework

\* Signals: whoever hears one goes on soundly, or ends.
LEMMA SignalKeeps ==
    ASSUME Inv, NEW p \in Pids,
           HandleTerm(p) \/ HandleUsr2(p) \/ \E s \in {"TERM", "USR2"} : Signal(p, s)
    PROVE  Inv'
<1> DEFINE q == proc[p]
<1>1. /\ q \in Proc /\ Sound(q) /\ q.pc \notin {"none", "dead"}
      /\ Ended(Exited(q)) /\ (~q.armed => Ended(Killed(q)))
  BY Ends DEF Inv, TypeOK, HandleTerm, HandleUsr2, Signal, Alive
<1>2. faults \in 0 .. MaxFaults
  BY DEF Inv, TypeOK
<1>3. CASE HandleTerm(p)
  <2>1. UNCHANGED <<broken, edits, watch, faults>>
    BY <1>3 DEF HandleTerm
  <2>2. CASE q.pc = "boot"
    BY <1>1, <1>2, <1>3, <2>1, <2>2, UnarmedEarly, EndKeeps DEF HandleTerm
  <2>3. CASE q.pc # "boot"
    BY <1>1, <1>2, <1>3, <2>1, <2>3, EndKeeps DEF HandleTerm
  <2>4. QED
    BY <2>2, <2>3
<1>4. CASE HandleUsr2(p)
  <2>1. UNCHANGED <<broken, edits, watch, faults>> /\ q.fault = "signal"
    BY <1>1, <1>4 DEF HandleUsr2, Sound, Bound
  <2>2. CASE ~q.armed
    BY <1>1, <1>2, <1>4, <2>1, <2>2, EndKeeps DEF HandleUsr2
  <2>3. CASE q.armed
    <3> DEFINE c == Close(q)
               r == Usr2Heard(q)
    <3>1. q.sock = "open" /\ q.closes = 0 /\ q.pc \in {"after", "ready"}
      BY <1>1, <2>3, Fields DEF Sound, Bound, Unlistened, Unpublished
    <3>2. /\ c \in Proc /\ c.sock = "closed" /\ c.closes = 1
          /\ c.pc = q.pc /\ c.hooks = q.hooks /\ c.fault = q.fault
          /\ c.regs = q.regs /\ c.pub = q.pub
      <4> HIDE DEF q
      <4>1. q.closes + 1 = 1 /\ 1 \in Nat
        BY <3>1
      <4>2. c = [q EXCEPT !.sock = "closed", !.closes = 1]
        BY <3>1, <4>1 DEF Close
      <4> HIDE DEF c
      <4>3. QED
        BY <1>1, <4>1, <4>2 DEF Proc
    <3>3. proc' = [proc EXCEPT ![p] = r]
      BY <1>4, <2>3 DEF HandleUsr2
    <3>4. r = [c EXCEPT !.armed = FALSE, !.sig = @ \ {"USR2"}]
      BY DEF Usr2Heard
    <3> HIDE DEF c, r
    <3>5. /\ r \in Proc /\ r.sock = c.sock /\ r.closes = c.closes /\ ~r.armed
          /\ r.pc = c.pc /\ r.hooks = c.hooks /\ r.fault = c.fault
          /\ r.regs = c.regs /\ r.pub = c.pub /\ "USR2" \notin r.sig
      BY <3>2, <3>4 DEF Proc
    <3>6. Sound(r)
      BY <1>1, <2>1, <3>1, <3>2, <3>5 DEF Sound, Listed, Bound, Over, Unlistened, Unpublished
    <3>7. QED
      BY <1>2, <2>1, <3>3, <3>5, <3>6, ProcessKeeps
  <2>4. QED
    BY <2>2, <2>3
<1>5. ASSUME NEW s \in {"TERM", "USR2"}, Signal(p, s)
      PROVE  Inv'
  <2> DEFINE r == [Signalled(q, s) EXCEPT !.fault = "signal"]
  <2>1. /\ r \in Proc /\ r.pc = q.pc /\ r.sock = q.sock /\ r.closes = q.closes
        /\ r.hooks = q.hooks /\ r.armed = q.armed /\ r.fault = "signal"
        /\ r.regs = q.regs /\ r.pub = q.pub
    BY <1>1 DEF Proc, Signalled
  <2>2. proc' = [proc EXCEPT ![p] = r] /\ UNCHANGED <<broken, edits, watch>>
    BY <1>5 DEF Signal
  <2>3. faults' \in 0 .. MaxFaults
    BY <1>2, <1>5, LifeAssumption DEF Signal, Fault
  <2> HIDE DEF r
  <2>4. Sound(r)
    BY <1>1, <2>1 DEF Sound, Listed, Bound, Over, Unlistened, Unpublished
  <2>5. QED
    BY <2>1, <2>2, <2>3, <2>4, ProcessKeeps
<1>6. QED
  BY <1>3, <1>4, <1>5

\* Failures: the process ends.
LEMMA FailKeeps ==
    ASSUME Inv, NEW p \in Pids,
           BootFails(p) \/ InitFails(p) \/ MiddlewareMissing(p) \/ RunFails(p)
    PROVE  Inv'
<1> USE DEF Faults
<1>1. /\ proc[p] \in Proc /\ Sound(proc[p]) /\ proc[p].pc \notin {"none", "dead"}
      /\ Ended(Exited(proc[p])) /\ (~proc[p].armed => Ended(Killed(proc[p])))
  BY Ends DEF Inv, TypeOK, BootFails, InitFails, MiddlewareMissing, RunFails
<1>2. CASE BootFails(p)
  BY <1>1, <1>2, UnarmedEarly, FaultKeeps DEF BootFails
<1>3. CASE InitFails(p)
  BY <1>1, <1>3, FaultKeeps DEF InitFails
<1>4. CASE MiddlewareMissing(p)
  BY <1>1, <1>4, FaultKeeps DEF MiddlewareMissing
<1>5. CASE RunFails(p)
  BY <1>1, <1>5, FaultKeeps DEF RunFails
<1>6. QED
  BY <1>2, <1>3, <1>4, <1>5

Watch == [child : Pids, unnoticed : BOOLEAN, timer : BOOLEAN, used : BOOLEAN]

\* The watcher never runs out of children: each is owed to a change.
LEMMA WatchKeeps ==
    ASSUME Inv, Edit \/ Noticed \/ Reload
    PROVE  Inv'
<1>1. /\ watch \in Watch /\ edits \in 0 .. MaxEdits /\ MaxEdits \in Nat /\ Owed(watch) <= edits + 1
      /\ proc \in [Pids -> Proc] /\ \A p \in Pids : Sound(proc[p])
      /\ watch.child \in Nat
  BY LifeAssumption DEF Inv, TypeOK, Watch, Pids
<1>2. CASE Edit
  <2>1. watch' \in Watch /\ Owed(watch') <= Owed(watch) + 1 /\ edits' = edits + 1
    <3>1. watch' \in Watch /\ watch'.child = watch.child /\ watch'.timer = watch.timer
      BY <1>1, <1>2 DEF Edit, Watch
    <3>2. QED
      BY <1>1, <1>2, <3>1 DEF Edit, Owed
  <2>2. Owed(watch') <= edits' + 1
    BY <1>1, <2>1 DEF Owed, Watch, Pids
  <2>3. QED
    BY <1>1, <1>2, <2>1, <2>2 DEF Edit, Inv, TypeOK, Watch, Sound, Listed, Bound, Over
<1>3. CASE Noticed
  <2>1. watch' \in Watch /\ Owed(watch') <= Owed(watch)
    <3>1. /\ watch' \in Watch /\ watch'.child = watch.child
          /\ watch.unnoticed /\ watch'.unnoticed = FALSE
      BY <1>1, <1>3 DEF Noticed, Debounced, Watch
    <3>2. QED
      BY <1>1, <3>1 DEF Owed
  <2>2. Owed(watch') <= edits' + 1
    BY <1>1, <1>3, <2>1 DEF Noticed, Owed, Watch, Pids
  <2>3. QED
    BY <1>1, <1>3, <2>1, <2>2 DEF Noticed, Inv, TypeOK, Watch, Sound, Listed, Bound, Over
<1>4. CASE Reload
  <2>1. watch.child + 1 \in Pids /\ watch.timer
    BY <1>1, <1>4 DEF Reload, Owed, Watch, Pids
  <2>2. watch' = [watch EXCEPT !.timer = FALSE, !.child = watch.child + 1]
        /\ UNCHANGED <<broken, edits, faults>>
    BY <1>4 DEF Reload
  <2>3. watch' \in Watch /\ Owed(watch') = Owed(watch)
    <3>1. /\ watch' \in Watch /\ watch'.child = watch.child + 1 /\ watch'.timer = FALSE
          /\ watch'.unnoticed = watch.unnoticed
      BY <1>1, <2>1, <2>2 DEF Watch
    <3>2. QED
      BY <1>1, <2>1, <3>1 DEF Owed
  <2> DEFINE old == watch.child
             r   == IF Alive(old) THEN Signalled(proc[old], "TERM") ELSE proc[old]
  <2>4. proc' = [proc EXCEPT ![old] = r, ![old + 1] = Born]
    BY <1>4, Zenon DEF Reload
  <2>5. old \in Pids /\ r \in Proc
    <3>1. old \in Pids /\ proc[old] \in Proc
      BY <1>1 DEF Watch
    <3>2. Signalled(proc[old], "TERM") \in Proc
      BY <3>1 DEF Proc, Signalled
    <3>3. QED
      BY <3>1, <3>2
  <2>6. Sound(r)
    <3>1. CASE Alive(old)
      <4>1. /\ r.pc = proc[old].pc /\ r.sock = proc[old].sock /\ r.closes = proc[old].closes
            /\ r.hooks = proc[old].hooks /\ r.armed = proc[old].armed /\ r.fault = proc[old].fault
            /\ r.regs = proc[old].regs /\ r.pub = proc[old].pub
            /\ "USR2" \in r.sig => "USR2" \in proc[old].sig
        BY <1>1, <2>5, <3>1 DEF Proc, Signalled
      <4> HIDE DEF r
      <4>2. QED
        BY <1>1, <2>5, <4>1 DEF Sound, Listed, Bound, Over
    <3>2. CASE ~Alive(old)
      BY <1>1, <2>5, <3>2
    <3>3. QED
      BY <3>1, <3>2
  <2> HIDE DEF r
  <2>7. proc' \in [Pids -> Proc] /\ \A p \in Pids : Sound(proc'[p])
    BY <1>1, <2>1, <2>4, <2>5, <2>6, BornSound
  <2>8. QED
    BY <1>1, <2>2, <2>3, <2>7 DEF Inv, TypeOK, Watch, Sound, Listed, Bound, Over
<1>5. QED
  BY <1>2, <1>3, <1>4

-----------------------------------------------------------------------------
(* Theorems                                                                *)

LEMMA InitInv ==
    ASSUME Init
    PROVE  Inv
<1>1. 1 \in Pids /\ 0 \in 0 .. MaxEdits /\ 0 \in 0 .. MaxFaults
  BY LifeAssumption DEF Pids
<1>2. watch = [child |-> 1, unnoticed |-> FALSE, timer |-> FALSE, used |-> FALSE] /\ edits = 0
  BY DEF Init
<1>3. TypeOK
  BY <1>1, BornSound DEF Init, TypeOK
<1>4. Owed(watch) <= edits + 1
  BY <1>2 DEF Owed
<1>5. \A p \in Pids : Sound(proc[p])
  BY BornSound DEF Init
<1>6. QED
  BY <1>3, <1>4, <1>5 DEF Inv

LEMMA StepInv ==
    ASSUME Inv, [Next]_vars
    PROVE  Inv'
<1>1. CASE Next
  BY <1>1, BootKeeps, SignalKeeps, FailKeeps, WatchKeeps DEF Next
<1>2. CASE UNCHANGED vars
  BY <1>2 DEF vars, Inv, TypeOK, Owed, Sound, Listed, Bound, Over
<1>3. QED
  BY <1>1, <1>2

LEMMA Invariance == Spec => []Inv
BY InitInv, StepInv, PTL DEF Spec

\* The watcher, every child and the bounds have their types, for any service,
\* any number of changes and of failures: no child is forked beyond those the
\* changes account for, and the gateway is told of no internal route.
THEOREM TypeCorrect == Spec => []TypeOK
<1>1. Inv => TypeOK
  BY DEF Inv
<1>2. QED
  BY <1>1, Invariance, PTL

\* Whatever signals, failures and reloads meet a process, at any step of its
\* start, its listen socket and its hooks are closed at most once, and nothing
\* is left open by one that is gone.
THEOREM SocketClosedOnce == Spec => []ClosedOnce
<1>1. Inv => ClosedOnce
  <2> SUFFICES ASSUME Inv, NEW p \in Pids
               PROVE  /\ proc[p].closes <= 1 /\ proc[p].hooks <= 1
                      /\ proc[p].sock = "closed" <=> proc[p].closes = 1
                      /\ proc[p].pc = "dead" => proc[p].sock # "open"
    BY DEF ClosedOnce
  <2>1. proc[p] \in Proc /\ Sound(proc[p])
    BY DEF Inv, TypeOK
  <2>2. QED
    BY <2>1, Fields DEF Sound, Bound, Over, Unlistened, Unpublished
<1>2. QED
  BY <1>1, Invariance, PTL

\* A process that reports ready listens, unless a signal has closed its socket.
THEOREM ReadyListens == Spec => []ReadyMeansListening
<1>1. Inv => ReadyMeansListening
  BY DEF Inv, ReadyMeansListening, Sound, Bound
<1>2. QED
  BY <1>1, Invariance, PTL

\* The gateway was told of exactly what a ready service serves but for reserved
\* names, whoever uses them, and for what was registered after the telling, for
\* any service: whatever it asks for, and whatever of it is broken.
THEOREM ListedToGateway == Spec => []ListingComplete
<1>1. Inv => ListingComplete
  <2> SUFFICES ASSUME Inv, NEW p \in Pids, proc[p].pc = "ready"
               PROVE  proc[p].pub = Told(proc[p].regs)
    BY DEF ListingComplete, Told, Late
  <2>1. QED
    BY DEF Inv, Sound, Listed
<1>2. QED
  BY <1>1, Invariance, PTL

=============================================================================
