------------------------ MODULE RTEngineClientProofs ------------------------
(***************************************************************************)
(* Proofs about RTEngineClient: its types; that no socket but the client's *)
(* own is alive, when the token is at hand; that a client which is to be   *)
(* connected always has an attempt before it, unless it has given up or    *)
(* was refused its token; and that a client which reconnects by itself     *)
(* loses no topic.                                                         *)
(***************************************************************************)
EXTENDS RTEngineClient, SequenceTheorems, TLAPS

\* The server keeps topic t for the socket q, or is about to, or is not to any more.
Holds(q, t) ==
    \/ t \in q.held
    \/ \E i \in 1 .. Len(q.up) : q.up[i].kind = "sub" /\ t \in q.up[i].topics
    \/ \E i \in 1 .. Len(q.down) : q.down[i] = Unsubscribed(t)

Resumed(q) == q.st = "open" /\ ~q.mute /\ q.resumed /\ ~q.missed

(***************************************************************************)
(* What the pieces of the handlers preserve, of a client c, the sockets k  *)
(* and the topics R it counts on.                                          *)
(* Single  no socket is alive but the client's own                         *)
(* Told    a client whose worker has an open socket knows that it has      *)
(* Kept    no topic was lost in a reconnection                             *)
(***************************************************************************)
Single(c, k)  == setup.token = "static" => \A s \in Slots : k[s].st # "none" => s = c.socket
Told(c, k)    == setup.worker /\ c.socket # None /\ k[c.socket].st = "open" => c.connected
Kept(c, k, R) ==
    \A s \in Slots : Resumed(k[s]) /\ s = c.socket => \A t \in R : Holds(k[s], t)

Core(c, k, R) ==
    /\ c \in Client /\ k \in [Slots -> Socket] /\ R \subseteq Topics
    /\ Single(c, k) /\ Told(c, k) /\ Kept(c, k, R)

\* What is left when the client is taken out of TypeOK.
Rest ==
    /\ setup \in Setups
    /\ awaits \in Nat
    /\ calls \in [Calls -> {"unsent", "pending", "bare", "resolved", "rejected"}]
    /\ wanted \in BOOLEAN
    /\ faults \in 0 .. MaxFaults /\ ops \in 0 .. MaxOps[setup]
    /\ setup.token = "static" => awaits = 0

\* An attempt is made, or is to come, or the client has given up.
Going == GaveUp \/ Scheduled \/ cl.denied \/ \E s \in Slots : Live(s)

Inv ==
    /\ Rest
    /\ Core(cl, conn, refs)
    /\ wanted => ~cl.aborted
    /\ wanted => Going

-----------------------------------------------------------------------------
(* Messages and sockets                                                    *)

LEMMA GoneTyped == Gone \in Socket /\ Gone.st = "none"
BY DEF Gone, Socket

\* What is appended to a sequence comes after all it held.
LEMMA Appended ==
    ASSUME NEW S, NEW s \in Seq(S), NEW e \in S
    PROVE  /\ Append(s, e) \in Seq(S) /\ Len(s) \in Nat /\ Len(Append(s, e)) = Len(s) + 1
           /\ \A i \in 1 .. Len(s) : Append(s, e)[i] = s[i]
           /\ Append(s, e)[Len(s) + 1] = e
BY AppendProperties

\* What is left of one without its first element.
LEMMA Shortened ==
    ASSUME NEW S, NEW s \in Seq(S), s # << >>
    PROVE  /\ Head(s) = s[1] /\ Head(s) \in S /\ Tail(s) \in Seq(S)
           /\ Len(s) \in Nat \ {0} /\ Len(Tail(s)) = Len(s) - 1
           /\ \A i \in 1 .. Len(s) - 1 : Tail(s)[i] = s[i + 1]
BY HeadTailProperties, EmptySeq, LenProperties

\* A socket that lives on, and for which no topic is lost.
Grown(q, r) ==
    /\ r \in Socket /\ r.st = q.st /\ r.mute = q.mute /\ r.resumed = q.resumed /\ r.missed = q.missed
    /\ \A t \in Topics : Holds(q, t) => Holds(r, t)

LEMMA GrownSelf ==
    ASSUME NEW q \in Socket
    PROVE  Grown(q, q)
BY DEF Grown

\* One to which something is sent.
LEMMA SentGrows ==
    ASSUME NEW q \in Socket, NEW m \in ToServer
    PROVE  LET r == [q EXCEPT !.up = Append(@, m)]
           IN  /\ Grown(q, r)
               /\ \A t \in Topics : m.kind = "sub" /\ t \in m.topics => Holds(r, t)
<1> DEFINE u == Append(q.up, m)
           r == [q EXCEPT !.up = u]
<1>1. q.up \in Seq(ToServer)
  BY DEF Socket
<1>2. /\ u \in Seq(ToServer) /\ Len(q.up) \in Nat /\ Len(u) = Len(q.up) + 1
      /\ \A i \in 1 .. Len(q.up) : u[i] = q.up[i]
      /\ u[Len(q.up) + 1] = m
  BY <1>1, Appended
<1> HIDE DEF u
<1>3. /\ r \in Socket /\ r.st = q.st /\ r.mute = q.mute /\ r.resumed = q.resumed /\ r.missed = q.missed
      /\ r.held = q.held /\ r.up = u /\ r.down = q.down
  BY <1>2 DEF Socket
<1> HIDE DEF r
<1>4. \A t \in Topics : Holds(q, t) => Holds(r, t)
  BY <1>2, <1>3 DEF Holds
<1>5. \A t \in Topics : m.kind = "sub" /\ t \in m.topics => Holds(r, t)
  BY <1>2, <1>3 DEF Holds
<1>6. QED
  BY <1>3, <1>4, <1>5 DEF Grown, r, u

LEMMA EmitGrows ==
    ASSUME NEW c \in Client, NEW k \in [Slots -> Socket], NEW m \in ToServer
    PROVE  /\ Emit(c, k, m) \in [Slots -> Socket]
           /\ \A s \in Slots : Grown(k[s], Emit(c, k, m)[s])
<1>1. c.socket # None => c.socket \in Slots
  BY DEF Client
<1>2. CASE CanEmit(c, k) /\ k[c.socket].st = "open" /\ ~k[c.socket].mute
  <2> DEFINE q == k[c.socket]
             r == [q EXCEPT !.up = Append(@, m)]
  <2>1. c.socket \in Slots /\ q \in Socket
    BY <1>1, <1>2 DEF CanEmit
  <2>2. Grown(q, r)
    BY <2>1, SentGrows
  <2>3. Emit(c, k, m) = [k EXCEPT ![c.socket] = r]
    BY <1>2 DEF Emit
  <2> HIDE DEF r
  <2>4. QED
    BY <2>1, <2>2, <2>3, GrownSelf DEF Grown
<1>3. CASE ~(CanEmit(c, k) /\ k[c.socket].st = "open" /\ ~k[c.socket].mute)
  BY <1>3, GrownSelf DEF Emit
<1>4. QED
  BY <1>2, <1>3

\* The messages are told apart.
LEMMA Kinds ==
    /\ Ping \in ToServer /\ \A S \in SUBSET Topics : Sub(S) \in ToServer
    /\ \A t \in Topics : Unsub(t) \in ToServer
    /\ \A c \in Calls : Call(c) \in ToServer
    /\ Pong \in ToClient /\ \A c \in Calls : Ack(c) \in ToClient
    /\ \A t \in Topics : Unsubscribed(t) \in ToClient
    /\ \A S : Sub(S).kind = "sub" /\ Sub(S).topics = S
BY DEF ToServer, ToClient, Sub

\* What a client sends about topics reaches a socket that is open.
LEMMA SubHeld ==
    ASSUME NEW c \in Client, NEW k \in [Slots -> Socket], NEW S \in SUBSET Topics, Told(c, k),
           c.socket # None, k[c.socket].st = "open", ~k[c.socket].mute
    PROVE  \A t \in S : Holds(Emit(c, k, Sub(S))[c.socket], t)
<1> DEFINE q == k[c.socket]
           r == [q EXCEPT !.up = Append(@, Sub(S))]
<1>1. c.socket \in Slots /\ q \in Socket
  BY DEF Client
<1>2. CanEmit(c, k)
  BY DEF CanEmit, Told
<1>3. Emit(c, k, Sub(S)) = [k EXCEPT ![c.socket] = r]
  BY <1>2 DEF Emit
<1> DEFINE m == Sub(S)
<1>4. m \in ToServer /\ m.kind = "sub" /\ m.topics = S
  BY Kinds
<1> HIDE DEF m, q
<1>5. \A t \in S : Holds([q EXCEPT !.up = Append(@, m)], t)
  BY <1>1, <1>4, SentGrows
<1> USE DEF m
<1>6. \A t \in S : Holds(r, t)
  BY <1>5
<1> HIDE DEF r
<1>7. QED
  BY <1>1, <1>3, <1>6

-----------------------------------------------------------------------------
(* The pieces of the handlers                                              *)

\* What a client is made of.
LEMMA ClientFields ==
    ASSUME NEW c \in Client
    PROVE  /\ c.socket \in Slots \cup {None} /\ c.retries \in 0 .. MaxRetries
           /\ c.lostRetries \in Nat /\ c.lostBeats \in Nat
           /\ c.connected \in BOOLEAN /\ c.beat \in BOOLEAN /\ c.aborted \in BOOLEAN
           /\ c.retry \in BOOLEAN /\ c.reconnecting \in BOOLEAN /\ c.pong \in BOOLEAN
           /\ c.auto \in BOOLEAN /\ c.denied \in BOOLEAN /\ c.crossed \in BOOLEAN
BY DEF Client

\* Sockets that live on, of a client that keeps its socket.
LEMMA CoreGrows ==
    ASSUME NEW c, NEW k, NEW R, Core(c, k, R),
           NEW d \in Client, d.socket = c.socket, setup.worker /\ c.connected => d.connected,
           NEW l \in [Slots -> Socket], \A s \in Slots : Grown(k[s], l[s]),
           NEW Q \in SUBSET R
    PROVE  Core(d, l, Q)
<1>1. Single(d, l)
  BY DEF Core, Single, Grown
<1>2. Told(d, l)
  BY ClientFields DEF Core, Told, Grown
<1>3. Kept(d, l, Q)
  BY DEF Core, Kept, Grown, Resumed
<1>4. QED
  BY <1>1, <1>2, <1>3 DEF Core

Free0(k) == setup.token = "static" => \A s \in Slots : k[s].st = "none"

\* What is left when the client lets go of its socket.
LEMMA LetGo ==
    ASSUME setup \in Setups, NEW c \in Client, NEW k \in [Slots -> Socket], Single(c, k)
    PROVE  /\ Cleaned(c) \in Client /\ Cleaned(c).socket = None
           /\ Cleaned(c).aborted = c.aborted /\ Cleaned(c).retries = c.retries
           /\ Cleaned(c).retry = c.retry /\ Cleaned(c).lostRetries = c.lostRetries
           /\ Detach(c, k) \in [Slots -> Socket] /\ Free0(Detach(c, k))
<1>1. /\ Cleaned(c) \in Client /\ Cleaned(c).socket = None
      /\ Cleaned(c).aborted = c.aborted /\ Cleaned(c).retries = c.retries
      /\ Cleaned(c).retry = c.retry /\ Cleaned(c).lostRetries = c.lostRetries
  BY DEF Cleaned, Client
<1>2. CASE c.socket = None
  BY <1>1, <1>2, ClientAssumption DEF Detach, Free0, Single
<1>3. CASE c.socket # None
  <2>1. c.socket \in Slots
    BY <1>3 DEF Client
  <2>2. Detach(c, k) = [k EXCEPT ![c.socket] = Gone]
    BY <1>3 DEF Detach
  <2>3. QED
    BY <1>1, <2>1, <2>2, GoneTyped DEF Free0, Single
<1>4. QED
  BY <1>2, <1>3

\* A client without a socket, when no other is alive.
LEMMA Alone ==
    ASSUME NEW c \in Client, c.socket = None, NEW k \in [Slots -> Socket], Free0(k),
           NEW R \in SUBSET Topics
    PROVE  Core(c, k, R)
BY ClientAssumption DEF Core, Single, Told, Kept, Free0

\* A new connection is opened when no other is alive.
LEMMA Dials ==
    ASSUME NEW c \in Client, NEW k \in [Slots -> Socket], Free0(k), Dial(c, k),
           NEW R \in SUBSET Topics
    PROVE  /\ Core(cl', conn', R) /\ cl'.aborted = c.aborted
           /\ \E s \in Slots : conn'[s].st = "connecting"
<1> DEFINE s == CHOOSE s \in Free(k) : TRUE
           g == [Gone EXCEPT !.st = "connecting", !.auto = c.auto]
<1>1. s \in Slots /\ k[s].st = "none"
  BY DEF Dial, Free
<1>2. conn' = [k EXCEPT ![s] = g] /\ cl' = [c EXCEPT !.socket = s, !.denied = FALSE]
  BY DEF Dial
<1> HIDE DEF s
<1>3. g \in Socket /\ g.st = "connecting"
  BY GoneTyped, ClientFields DEF Socket
<1> HIDE DEF g
<1>4. cl' \in Client /\ cl'.socket = s /\ cl'.aborted = c.aborted
  BY <1>1, <1>2 DEF Client
<1>5. /\ conn' \in [Slots -> Socket] /\ conn'[s].st = "connecting"
      /\ \A r \in Slots : r # s => conn'[r] = k[r]
  BY <1>1, <1>2, <1>3
<1>6. Single(cl', conn') /\ Told(cl', conn') /\ Kept(cl', conn', R)
  BY <1>4, <1>5 DEF Single, Told, Kept, Free0, Resumed
<1>7. QED
  BY <1>1, <1>4, <1>5, <1>6 DEF Core

\* connect(), from whatever state.
LEMMA Starts ==
    ASSUME Inv, NEW c \in Client, c.socket = cl.socket, StartConnect(c), UNCHANGED <<setup, refs>>
    PROVE  /\ Core(cl', conn', refs') /\ ~cl'.aborted
           /\ awaits' \in Nat /\ (setup'.token = "static" => awaits' = 0)
           /\ awaits' > 0 \/ \E s \in Slots : conn'[s].st = "connecting"
<1> DEFINE b == [c EXCEPT !.aborted = FALSE]
           d == Cleaned(b)
           k == Detach(c, conn)
<1>1. /\ setup \in Setups /\ conn \in [Slots -> Socket] /\ Single(cl, conn) /\ refs \subseteq Topics
      /\ awaits \in Nat /\ (setup.token = "static" => awaits = 0)
  BY DEF Inv, Rest, Core
<1>2. b \in Client /\ b.socket = cl.socket /\ ~b.aborted
  BY DEF Client
<1>3. k = Detach(b, conn) /\ Single(b, conn)
  BY <1>1, <1>2 DEF Detach, Single
<1> HIDE DEF b
<1>4. d \in Client /\ d.socket = None /\ ~d.aborted /\ k \in [Slots -> Socket] /\ Free0(k)
  BY <1>1, <1>2, <1>3, LetGo
<1>5. IF setup.token = "static" THEN Dial(d, k) /\ UNCHANGED awaits
      ELSE conn' = k /\ cl' = d /\ awaits' = awaits + 1
  BY DEF StartConnect, b
<1> HIDE DEF d, k
<1>6. CASE setup.token = "static"
  BY <1>1, <1>4, <1>5, <1>6, Dials
<1>7. CASE setup.token # "static"
  <2>1. Core(cl', conn', refs')
    BY <1>1, <1>4, <1>5, <1>7, Alone
  <2>2. QED
    BY <1>1, <1>4, <1>5, <1>7, <2>1
<1>8. QED
  BY <1>6, <1>7

\* A heartbeat.
LEMMA Beats ==
    ASSUME NEW c, NEW k, NEW R, Core(c, k, R)
    PROVE  /\ Core(BeatClient(c), BeatConn(c, k), R)
           /\ BeatClient(c).socket = c.socket /\ BeatClient(c).aborted = c.aborted
           /\ BeatClient(c).retries = c.retries /\ BeatClient(c).retry = c.retry
           /\ BeatClient(c).lostRetries = c.lostRetries /\ BeatClient(c).denied = c.denied
           /\ \A s \in Slots : BeatConn(c, k)[s].st = k[s].st
<1>1. c \in Client /\ k \in [Slots -> Socket]
  BY DEF Core
<1> DEFINE d == BeatClient(c)
           l == BeatConn(c, k)
<1>2. /\ d \in Client /\ d.socket = c.socket /\ d.connected = c.connected /\ d.aborted = c.aborted
      /\ d.retries = c.retries /\ d.retry = c.retry /\ d.lostRetries = c.lostRetries
      /\ d.denied = c.denied
  <2>1. CASE Beating(c)
    <3> DEFINE n == IF c.beat THEN c.lostBeats + 1 ELSE c.lostBeats
    <3>1. n \in Nat
      BY <1>1, ClientFields
    <3>2. d = [c EXCEPT !.pong = FALSE, !.beat = TRUE, !.lostBeats = n]
      BY <2>1 DEF BeatClient
    <3> HIDE DEF n, d
    <3>3. QED
      BY <1>1, <3>1, <3>2 DEF Client
  <2>2. CASE ~Beating(c)
    BY <1>1, <2>2 DEF BeatClient
  <2>3. QED
    BY <2>1, <2>2
<1>3. l \in [Slots -> Socket] /\ \A s \in Slots : Grown(k[s], l[s])
  BY <1>1, EmitGrows, GrownSelf, Kinds DEF BeatConn
<1> HIDE DEF d, l
<1>4. Core(d, l, R)
  BY <1>2, <1>3, CoreGrows
<1>5. QED
  BY <1>2, <1>3, <1>4 DEF d, l, Grown

-----------------------------------------------------------------------------
(* Steps                                                                   *)

LEMMA Primed ==
    ASSUME UNCHANGED setup, Core(cl', conn', refs')
    PROVE  Core(cl, conn, refs)'
BY DEF Core, Single, Told, Kept, Resumed, Holds

\* A step that lets every socket live or be dead as it was.
LEMMA QuietKeeps ==
    ASSUME Inv, Rest', Core(cl', conn', refs'), UNCHANGED <<setup, wanted, awaits>>,
           cl'.socket = cl.socket, cl'.retries = cl.retries, cl'.retry = cl.retry,
           cl'.lostRetries = cl.lostRetries, cl'.aborted = cl.aborted, cl'.denied = cl.denied,
           \A s \in Slots : Live(s)' <=> Live(s)
    PROVE  Inv'
<1>1. Core(cl, conn, refs)'
  BY Primed
<1>2. cl.socket \in Slots \cup {None}
  BY ClientFields DEF Inv, Core
<1>3. Going => Going'
  BY <1>2 DEF Going, GaveUp, Scheduled
<1>4. QED
  BY <1>1, <1>3 DEF Inv

\* The counters that nothing else depends on.
LEMMA Counted ==
    ASSUME Inv
    PROVE  /\ Operation /\ UNCHANGED setup => ops' \in 0 .. MaxOps[setup]
           /\ faults < MaxFaults /\ faults' = faults + 1 => faults' \in 0 .. MaxFaults
<1>1. MaxOps[setup] \in Nat /\ MaxFaults \in Nat
  BY ClientAssumption DEF Inv, Rest
<1>2. QED
  BY <1>1 DEF Operation, Inv, Rest

\* connect(), called by the user or by a timer.
LEMMA StartKeeps ==
    ASSUME Inv, Connect \/ RetryTimer \/ LostRetryTimer
    PROVE  Inv'
<1>1. cl \in Client /\ cl.lostRetries \in Nat
  BY ClientFields DEF Inv, Core
<1>2. ASSUME NEW c \in Client, c.socket = cl.socket, StartConnect(c),
             UNCHANGED <<setup, refs, calls, faults>>, ops' \in 0 .. MaxOps[setup], wanted' \in BOOLEAN
      PROVE  Inv'
  <2>1. /\ Core(cl', conn', refs') /\ ~cl'.aborted
        /\ awaits' \in Nat /\ (setup'.token = "static" => awaits' = 0)
        /\ awaits' > 0 \/ \E s \in Slots : conn'[s].st = "connecting"
    BY <1>2, Starts
  <2>2. Rest'
    BY <1>2, <2>1 DEF Inv, Rest
  <2>3. Going'
    BY <2>1 DEF Going, Scheduled, Live
  <2>4. QED
    BY <1>2, <2>1, <2>2, <2>3, Primed DEF Inv
<1>3. CASE Connect
  <2> DEFINE b == cl.crossed \/ Scheduled
             c == [cl EXCEPT !.auto = FALSE, !.crossed = b]
  <2>1. b \in BOOLEAN
    BY <1>1 DEF Client
  <2>2. StartConnect(c)
    BY <1>3 DEF Connect
  <2> HIDE DEF b
  <2>3. c \in Client /\ c.socket = cl.socket
    BY <1>1, <2>1 DEF Client
  <2> HIDE DEF c
  <2>4. QED
    BY <1>2, <1>3, <2>2, <2>3, Counted DEF Connect
<1>4. CASE RetryTimer
  <2> DEFINE c == [cl EXCEPT !.retry = FALSE, !.auto = TRUE]
  <2>1. c \in Client /\ c.socket = cl.socket
    BY <1>1 DEF Client
  <2>2. StartConnect(c)
    BY <1>4 DEF RetryTimer
  <2> HIDE DEF c
  <2>3. QED
    BY <1>2, <1>4, <2>1, <2>2 DEF RetryTimer, Inv, Rest
<1>5. CASE LostRetryTimer
  <2> DEFINE c == [cl EXCEPT !.lostRetries = @ - 1, !.auto = TRUE]
  <2>1. cl.lostRetries - 1 \in Nat
    BY <1>1, <1>5 DEF LostRetryTimer
  <2>2. c \in Client /\ c.socket = cl.socket
    BY <1>1, <2>1 DEF Client
  <2>3. StartConnect(c) /\ UNCHANGED <<setup, refs, calls, wanted, faults, ops>>
    BY <1>5 DEF LostRetryTimer
  <2> HIDE DEF c
  <2>4. QED
    BY <1>2, <2>2, <2>3 DEF Inv, Rest
<1>6. QED
  BY <1>3, <1>4, <1>5

\* The token function comes back.
LEMMA TokenKeeps ==
    ASSUME Inv, TokenResolves \/ TokenRejects
    PROVE  Inv'
<1>1. /\ awaits' \in Nat /\ setup.token # "static"
      /\ UNCHANGED <<setup, refs, calls, wanted, faults, ops>>
  BY DEF TokenResolves, TokenRejects, Inv, Rest
<1>2. Rest'
  BY <1>1 DEF Inv, Rest
<1>3. CASE TokenResolves
  <2>1. /\ Core(cl', conn', refs) /\ cl'.aborted = cl.aborted
        /\ \E s \in Slots : conn'[s].st = "connecting"
    BY <1>1, <1>3, Dials DEF TokenResolves, Inv, Core, Free0
  <2>2. Going'
    BY <2>1 DEF Going, Live
  <2>3. QED
    BY <1>1, <1>2, <2>1, <2>2, Primed DEF Inv
<1>4. CASE TokenRejects
  <2>1. UNCHANGED conn /\ cl' = [cl EXCEPT !.denied = TRUE] /\ Core(cl, conn, refs)
    BY <1>4 DEF TokenRejects, Inv
  <2>2. /\ cl' \in Client /\ cl'.socket = cl.socket /\ cl'.connected = cl.connected
        /\ cl'.aborted = cl.aborted /\ cl'.denied
    BY <2>1 DEF Core, Client
  <2>3. Core(cl', conn', refs')
    BY <1>1, <2>1, <2>2 DEF Core, Single, Told, Kept
  <2>4. QED
    BY <1>1, <1>2, <2>2, <2>3, Primed DEF Inv, Going
<1>5. QED
  BY <1>3, <1>4

\* destroy().
LEMMA DestroyKeeps ==
    ASSUME Inv, Destroy
    PROVE  Inv'
<1>1. /\ setup \in Setups /\ Core(cl, conn, refs) /\ cl \in Client /\ refs \in SUBSET Topics
      /\ conn \in [Slots -> Socket] /\ Single(cl, conn)
  BY DEF Inv, Rest, Core
<1>2. ~wanted' /\ wanted' \in BOOLEAN /\ UNCHANGED <<setup, awaits, refs, faults>>
  BY DEF Destroy, DestroyLeaving
<1>3. calls' \in [Calls -> {"unsent", "pending", "bare", "resolved", "rejected"}]
  BY DEF Destroy, DestroyLeaving, Inv, Rest
<1>4. Rest'
  BY <1>2, <1>3, Counted DEF Destroy, DestroyLeaving, Inv, Rest
<1>5. CASE cl.socket = None /\ ~cl.reconnecting
  <2>1. UNCHANGED <<conn, cl>>
    BY <1>5 DEF Destroy, DestroyLeaving
  <2>2. QED
    BY <1>1, <1>2, <1>4, <2>1, Primed DEF Inv
<1>6. CASE ~(cl.socket = None /\ ~cl.reconnecting)
  <2> DEFINE c == Cleaned(cl)
             k == Detach(cl, conn)
  <2>1. c \in Client /\ c.socket = None /\ k \in [Slots -> Socket] /\ Free0(k)
    BY <1>1, LetGo
  <2>2. /\ conn' = k
        /\ cl' = [c EXCEPT !.retry = FALSE, !.beat = FALSE, !.aborted = TRUE,
                           !.reconnecting = FALSE, !.retries = 0]
    BY <1>6 DEF Destroy, DestroyLeaving
  <2> HIDE DEF c, k
  <2>3. cl' \in Client /\ cl'.socket = None
    <3>1. 0 \in 0 .. MaxRetries
      BY ClientAssumption
    <3>2. QED
      BY <2>1, <2>2, <3>1 DEF Client
  <2>4. Core(cl', conn', refs')
    BY <1>1, <1>2, <2>1, <2>2, <2>3, Alone
  <2>5. QED
    BY <1>2, <1>4, <2>4, Primed DEF Inv
<1>7. QED
  BY <1>5, <1>6

\* What the user sends, and the timeouts of calls.
LEMMA UserKeeps ==
    ASSUME Inv, \/ \E t \in Topics : Subscribe(t) \/ Unsubscribe(t)
                \/ \E c \in Calls : MakeCall(c) \/ CallTimeout(c)
    PROVE  Inv'
<1>1. /\ Core(cl, conn, refs) /\ cl \in Client /\ refs \subseteq Topics
      /\ conn \in [Slots -> Socket]
  BY DEF Inv, Core
<1>2. ASSUME NEW m \in ToServer, conn' = Emit(cl, conn, m), UNCHANGED <<setup, cl, awaits, wanted>>,
             Core(cl, conn', refs'), Rest'
      PROVE  Inv'
  <2>1. \A s \in Slots : conn'[s].st = conn[s].st
    BY <1>1, <1>2, EmitGrows DEF Grown
  <2>2. QED
    BY <1>2, <2>1, QuietKeeps DEF Live
<1>3. ASSUME NEW m \in ToServer, conn' = Emit(cl, conn, m)
      PROVE  Core(cl, conn', refs)
  BY <1>1, <1>3, EmitGrows, CoreGrows
<1>4. ASSUME NEW t \in Topics, Subscribe(t)
      PROVE  Inv'
  <2> DEFINE m == Sub({t})
  <2>1. /\ m \in ToServer /\ conn' = Emit(cl, conn, m) /\ refs' = refs \cup {t}
        /\ UNCHANGED <<setup, cl, awaits, calls, wanted, faults>> /\ Operation
    BY <1>4, Kinds DEF Subscribe
  <2>2. Core(cl, conn', refs)
    BY <1>3, <2>1
  <2>3. ASSUME NEW s \in Slots, Resumed(conn'[s]), s = cl.socket
        PROVE  Holds(conn'[s], t)
    <3>1. Resumed(conn[s])
      BY <1>1, <2>1, <2>3, EmitGrows DEF Grown, Resumed
    <3>2. cl.socket # None /\ Told(cl, conn)
      BY <1>1, <2>3, ClientAssumption DEF Core
    <3>3. QED
      BY <1>1, <2>1, <2>3, <3>1, <3>2, SubHeld DEF Resumed
  <2> HIDE DEF m
  <2>4. Core(cl, conn', refs')
    BY <2>1, <2>2, <2>3 DEF Core, Kept
  <2>5. Rest'
    BY <2>1, Counted DEF Inv, Rest
  <2>6. QED
    BY <1>2, <2>1, <2>4, <2>5
<1>5. ASSUME NEW t \in Topics, Unsubscribe(t)
      PROVE  Inv'
  <2>1. /\ Unsub(t) \in ToServer /\ conn' = Emit(cl, conn, Unsub(t))
        /\ UNCHANGED <<setup, cl, awaits, refs, calls, wanted, faults>> /\ Operation
    BY <1>5, Kinds DEF Unsubscribe
  <2>2. Rest'
    BY <2>1, Counted DEF Inv, Rest
  <2>3. QED
    BY <1>2, <1>3, <2>1, <2>2
<1>6. ASSUME NEW c \in Calls, MakeCall(c)
      PROVE  Inv'
  <2>1. /\ Call(c) \in ToServer /\ conn' = Emit(cl, conn, Call(c))
        /\ UNCHANGED <<setup, cl, awaits, refs, wanted, faults, ops>>
    BY <1>6, Kinds DEF MakeCall
  <2>2. Rest'
    BY <1>6, <2>1 DEF MakeCall, Inv, Rest
  <2>3. QED
    BY <1>2, <1>3, <2>1, <2>2
<1>7. ASSUME NEW c \in Calls, CallTimeout(c)
      PROVE  Inv'
  <2>1. UNCHANGED <<setup, conn, cl, awaits, refs, wanted, faults, ops>> /\ Rest'
    BY <1>7 DEF CallTimeout, Inv, Rest
  <2>2. QED
    BY <1>1, <2>1, QuietKeeps DEF Live
<1>8. QED
  BY <1>4, <1>5, <1>6, <1>7

\* A socket opens: the client that was reconnecting repeats its subscriptions.
LEMMA OpenedKeeps ==
    ASSUME Inv, NEW s \in Slots, Opened(s)
    PROVE  Inv'
<1> DEFINE g  == [Gone EXCEPT !.st = "open", !.auto = conn[s].auto, !.resumed = cl.reconnecting]
           c  == [cl EXCEPT !.connected = TRUE, !.retries = 0, !.reconnecting = FALSE]
           k  == [conn EXCEPT ![s] = g]
           kr == IF cl.reconnecting THEN Emit(c, k, Sub(refs)) ELSE k
<1>1. /\ Core(cl, conn, refs) /\ cl \in Client /\ refs \in SUBSET Topics
      /\ conn \in [Slots -> Socket] /\ cl.reconnecting \in BOOLEAN /\ conn[s].auto \in BOOLEAN
  <2>1. Core(cl, conn, refs) /\ cl \in Client /\ conn \in [Slots -> Socket] /\ refs \in SUBSET Topics
    BY DEF Inv, Core
  <2>2. conn[s] \in Socket
    BY <2>1
  <2>3. conn[s].auto \in BOOLEAN
    BY <2>2 DEF Socket
  <2>4. QED
    BY <2>1, <2>3, ClientFields
<1>2. /\ conn[s].st = "connecting" /\ cl' = BeatClient(c) /\ conn' = BeatConn(c, kr)
      /\ UNCHANGED <<setup, awaits, refs, calls, wanted, faults, ops>>
  BY DEF Opened, OpenedSending
<1>3. g \in Socket /\ g.st = "open" /\ ~g.mute /\ g.resumed = cl.reconnecting
  <2>1. Gone.mute = FALSE
    BY DEF Gone
  <2>2. QED
    BY <1>1, <2>1, GoneTyped DEF Socket
<1> HIDE DEF g
<1>4. /\ c \in Client /\ c.socket = cl.socket /\ c.connected /\ c.aborted = cl.aborted
  <2>1. 0 \in 0 .. MaxRetries
    BY ClientAssumption
  <2>2. QED
    BY <1>1, <2>1 DEF Client
<1> HIDE DEF c
<1>5. /\ k \in [Slots -> Socket] /\ k[s] = g /\ \A r \in Slots : r # s => k[r] = conn[r]
  BY <1>1, <1>3
<1> HIDE DEF k
<1>6. kr \in [Slots -> Socket] /\ \A r \in Slots : Grown(k[r], kr[r])
  BY <1>1, <1>4, <1>5, EmitGrows, GrownSelf, Kinds
<1>7. Single(c, kr) /\ Told(c, kr)
  BY <1>1, <1>2, <1>4, <1>5, <1>6 DEF Core, Single, Told, Grown
<1>8. Kept(c, kr, refs)
  <2> SUFFICES ASSUME NEW r \in Slots, Resumed(kr[r]), r = c.socket, NEW t \in refs
               PROVE  Holds(kr[r], t)
    BY DEF Kept
  <2>1. Grown(k[r], kr[r]) /\ Resumed(k[r]) /\ t \in Topics
    BY <1>1, <1>6 DEF Grown, Resumed
  <2>2. CASE r = s
    <3>1. cl.reconnecting /\ kr = Emit(c, k, Sub(refs))
      BY <1>3, <1>5, <2>1, <2>2 DEF Resumed
    <3>2. Told(c, k) /\ c.socket # None
      BY <1>4, ClientAssumption DEF Told
    <3> HIDE DEF kr
    <3>3. QED
      BY <1>1, <1>4, <1>5, <2>1, <3>1, <3>2, SubHeld DEF Resumed
  <2>3. CASE r # s
    <3>1. Holds(k[r], t)
      BY <1>1, <1>4, <1>5, <2>1, <2>3 DEF Core, Kept
    <3>2. QED
      BY <2>1, <3>1 DEF Grown
  <2>4. QED
    BY <2>2, <2>3
<1> HIDE DEF kr
<1>9. Core(c, kr, refs)
  BY <1>1, <1>4, <1>6, <1>7, <1>8 DEF Core
<1>10. Core(cl', conn', refs') /\ cl'.aborted = cl.aborted /\ conn'[s].st = "open"
  <2>1. /\ Core(BeatClient(c), BeatConn(c, kr), refs) /\ BeatClient(c).aborted = c.aborted
        /\ \A r \in Slots : BeatConn(c, kr)[r].st = kr[r].st
    BY <1>9, Beats
  <2>2. kr[s].st = "open"
    BY <1>3, <1>5, <1>6 DEF Grown
  <2>3. QED
    BY <1>2, <1>4, <2>1, <2>2
<1>11. Rest' /\ Going'
  BY <1>2, <1>10 DEF Inv, Rest, Going, Live
<1>12. QED
  BY <1>2, <1>10, <1>11, Primed DEF Inv

\* A socket closes: the client gives up, goes on without it, or tries again.
LEMMA ClosedKeeps ==
    ASSUME Inv, NEW s \in Slots, conn[s].st \in {"connecting", "open", "closing"}, HandleClose(s),
           UNCHANGED <<setup, awaits, refs, calls, wanted, ops>>, faults' \in 0 .. MaxFaults
    PROVE  Inv'
<1> DEFINE stop == cl.aborted \/ AlreadyConnecting(s, cl) \/ cl.retries = MaxRetries
           g == [Gone EXCEPT !.st = "closed"]
           k == [conn EXCEPT ![s] = IF s = cl.socket THEN g ELSE Gone]
           d == Closed
<1>1. /\ Core(cl, conn, refs) /\ cl \in Client /\ refs \in SUBSET Topics /\ setup \in Setups
      /\ conn \in [Slots -> Socket] /\ cl.socket \in Slots \cup {None} /\ MaxRetries \in Nat
      /\ cl.retries \in 0 .. MaxRetries /\ cl.lostRetries \in Nat
  BY ClientFields, ClientAssumption DEF Inv, Rest, Core
<1>2. g \in Socket /\ g.st = "closed"
  BY GoneTyped DEF Socket
<1>3. /\ d \in Client /\ d.socket = cl.socket /\ ~d.connected /\ d.aborted = cl.aborted
      /\ d.retries = cl.retries /\ d.retry = cl.retry /\ d.lostRetries = cl.lostRetries
  BY <1>1 DEF Closed, Client
<1>4. IF stop THEN cl' = d /\ conn' = k
      ELSE /\ cl' = [Cleaned(d) EXCEPT !.retries = @ + 1, !.reconnecting = TRUE, !.retry = TRUE,
                                       !.lostRetries = IF cl.retry THEN @ + 1 ELSE @]
           /\ conn' = Detach(d, k)
  BY DEF HandleClose, HandleCloseUnless
<1> HIDE DEF g, d
<1>5. /\ k \in [Slots -> Socket] /\ k[s].st \in {"none", "closed"}
      /\ \A r \in Slots : r # s => k[r] = conn[r]
      /\ s # cl.socket => k[s].st = "none"
  BY <1>1, <1>2, GoneTyped
<1> HIDE DEF k
<1>6. Single(d, k)
  BY <1>1, <1>3, <1>5 DEF Core, Single
<1>7. Rest'
  BY DEF Inv, Rest
<1>8. CASE stop
  <2>1. Told(d, k)
    <3>1. setup.worker => s = cl.socket
      BY <1>1, ClientAssumption DEF Core, Single
    <3>2. QED
      BY <1>3, <1>5, <3>1 DEF Told
  <2>2. Kept(d, k, refs)
    BY <1>1, <1>3, <1>5 DEF Core, Kept, Resumed
  <2>3. Core(cl', conn', refs')
    BY <1>1, <1>3, <1>4, <1>5, <1>6, <1>8, <2>1, <2>2 DEF Core
  <2>4. wanted => Going'
    <3> HAVE wanted
    <3>1. ~cl.aborted
      BY DEF Inv
    <3>2. CASE AlreadyConnecting(s, cl)
      <4>1. cl.socket \in Slots /\ conn'[cl.socket].st = "connecting"
        BY <1>1, <1>4, <1>5, <1>8, <3>2 DEF AlreadyConnecting
      <4>2. QED
        BY <4>1 DEF Going, Live
    <3>3. CASE cl.retries = MaxRetries
      <4>1. cl'.retries = MaxRetries /\ cl'.socket = cl.socket
        BY <1>3, <1>4, <1>8, <3>3
      <4>2. cl.socket # None => cl.socket \in Slots
        BY <1>1
      <4>3. QED
        BY <4>1, <4>2 DEF Going, GaveUp
    <3>4. QED
      BY <1>8, <3>1, <3>2, <3>3
  <2>5. cl'.aborted = cl.aborted
    BY <1>3, <1>4, <1>8
  <2>6. QED
    BY <1>7, <2>3, <2>4, <2>5, Primed DEF Inv
<1>9. CASE ~stop
  <2> DEFINE b == Cleaned(d)
             n == IF cl.retry THEN b.lostRetries + 1 ELSE b.lostRetries
  <2>1. /\ b \in Client /\ b.socket = None /\ b.aborted = cl.aborted
        /\ b.retries = cl.retries /\ b.lostRetries = cl.lostRetries
        /\ conn' \in [Slots -> Socket] /\ Free0(conn')
    BY <1>1, <1>3, <1>4, <1>5, <1>6, <1>9, LetGo
  <2>2. cl' = [b EXCEPT !.retries = b.retries + 1, !.reconnecting = TRUE, !.retry = TRUE,
                        !.lostRetries = n]
    BY <1>4, <1>9
  <2>3. b.retries + 1 \in 0 .. MaxRetries /\ n \in Nat
    BY <1>1, <1>9, <2>1
  <2> HIDE DEF b, n
  <2>4. cl' \in Client /\ cl'.socket = None /\ cl'.aborted = cl.aborted /\ cl'.retry
    BY <2>1, <2>2, <2>3 DEF Client
  <2>5. Core(cl', conn', refs')
    BY <1>1, <2>1, <2>4, Alone
  <2>6. Going'
    BY <2>4 DEF Going, Scheduled
  <2>7. QED
    BY <1>7, <2>4, <2>5, <2>6, Primed DEF Inv
<1>10. QED
  BY <1>8, <1>9

\* A step of one socket, after which it holds what the client counts on.
LEMMA SocketKeeps ==
    ASSUME Inv, NEW s \in Slots, NEW r \in Socket, conn' = [conn EXCEPT ![s] = r], r.st = conn[s].st,
           cl' \in Client, cl'.socket = cl.socket, cl'.connected = cl.connected,
           cl'.retries = cl.retries, cl'.retry = cl.retry, cl'.lostRetries = cl.lostRetries,
           cl'.aborted = cl.aborted, cl'.denied = cl.denied,
           refs' \subseteq refs, UNCHANGED <<setup, wanted, awaits>>, Rest',
           Resumed(r) =>
               Resumed(conn[s]) /\ \A t \in refs' : Holds(conn[s], t) => Holds(r, t)
    PROVE  Inv'
<1>1. /\ Core(cl, conn, refs) /\ conn \in [Slots -> Socket] /\ refs \subseteq Topics
      /\ cl.socket \in Slots \cup {None}
  BY ClientFields DEF Inv, Core
<1>2. /\ conn' \in [Slots -> Socket] /\ conn'[s] = r
      /\ \A q \in Slots : q # s => conn'[q] = conn[q]
  BY <1>1
<1>3. \A q \in Slots : conn'[q].st = conn[q].st
  BY <1>2
<1>4. Single(cl', conn') /\ Told(cl', conn')
  BY <1>1, <1>3 DEF Core, Single, Told
<1>5. Kept(cl', conn', refs')
  BY <1>1, <1>2 DEF Core, Kept
<1>6. Core(cl', conn', refs')
  BY <1>1, <1>2, <1>4, <1>5 DEF Core
<1>7. \A q \in Slots : Live(q)' <=> Live(q)
  BY <1>3 DEF Live
<1>8. QED
  BY <1>6, <1>7, QuietKeeps

\* Connections that are lost, and messages that arrive at the client.
LEMMA ArriveKeeps ==
    ASSUME Inv, NEW s \in Slots, CloseEvent(s) \/ Lose(s) \/ Mute(s) \/ Receive(s)
    PROVE  Inv'
<1>1. /\ conn[s] \in Socket /\ conn \in [Slots -> Socket] /\ cl \in Client
      /\ faults \in 0 .. MaxFaults /\ Rest
  BY DEF Inv, Core, Rest
<1>2. CASE CloseEvent(s)
  BY <1>1, <1>2, ClosedKeeps DEF CloseEvent
<1>3. CASE Lose(s)
  BY <1>3, ClosedKeeps, Counted DEF Lose
<1>4. CASE Mute(s)
  <2> DEFINE r == [conn[s] EXCEPT !.mute = TRUE, !.up = << >>, !.down = << >>]
  <2>1. r \in Socket /\ r.st = conn[s].st /\ r.mute
    <3>1. << >> \in Seq(ToServer) /\ << >> \in Seq(ToClient)
      OBVIOUS
    <3>2. QED
      BY <1>1, <3>1 DEF Socket
  <2>2. conn' = [conn EXCEPT ![s] = r] /\ UNCHANGED <<setup, cl, awaits, refs, calls, wanted, ops>>
    BY <1>1, <1>4 DEF Mute, Socket
  <2> HIDE DEF r
  <2>3. Rest'
    BY <1>4, <2>2, Counted DEF Mute, Inv, Rest
  <2>4. QED
    BY <1>1, <2>1, <2>2, <2>3, SocketKeeps DEF Resumed
<1>5. CASE Receive(s)
  <2> DEFINE q == conn[s]
             d == Tail(q.down)
             m == Head(q.down)
             r == [q EXCEPT !.down = d]
  <2>1. q.down \in Seq(ToClient) /\ q.down # << >>
    BY <1>1, <1>5 DEF Receive, Socket
  <2>2. /\ m = q.down[1] /\ d \in Seq(ToClient)
        /\ Len(q.down) \in Nat \ {0} /\ Len(d) = Len(q.down) - 1
        /\ \A i \in 1 .. Len(q.down) - 1 : d[i] = q.down[i + 1]
    BY <2>1, Shortened
  <2>3. /\ conn' = [conn EXCEPT ![s] = r] /\ refs' = refs \ {t \in Topics : m = Unsubscribed(t)}
        /\ cl' = IF m = Pong THEN [cl EXCEPT !.pong = TRUE] ELSE cl
        /\ calls' = IF m.kind = "ack"
                    THEN [c \in Calls |-> IF calls[c] = "pending" THEN "resolved" ELSE calls[c]]
                    ELSE calls
        /\ UNCHANGED <<setup, awaits, wanted, faults, ops>>
    BY <1>5 DEF Receive
  <2> HIDE DEF d, m
  <2>4. /\ r \in Socket /\ r.st = q.st /\ r.mute = q.mute /\ r.resumed = q.resumed /\ r.missed = q.missed
        /\ r.held = q.held /\ r.up = q.up /\ r.down = d
    BY <1>1, <2>2 DEF Socket
  <2> HIDE DEF q, r
  <2>5. \A t \in refs' : Holds(q, t) => Holds(r, t)
    <3> SUFFICES ASSUME NEW t \in refs', NEW i \in 1 .. Len(q.down), q.down[i] = Unsubscribed(t)
                 PROVE  Holds(r, t)
      BY <2>4 DEF Holds
    <3>1. t \in Topics /\ m # Unsubscribed(t)
      BY <2>3 DEF Inv, Core
    <3>2. i # 1
      BY <2>2, <3>1
    <3>3. i - 1 \in 1 .. Len(d) /\ d[i - 1] = Unsubscribed(t)
      BY <2>2, <3>2
    <3>4. QED
      BY <2>4, <3>3 DEF Holds
  <2>6. /\ cl' \in Client /\ cl'.socket = cl.socket /\ cl'.connected = cl.connected
        /\ cl'.retries = cl.retries /\ cl'.retry = cl.retry /\ cl'.lostRetries = cl.lostRetries
        /\ cl'.aborted = cl.aborted /\ cl'.denied = cl.denied
    <3>1. CASE m = Pong
      <4>1. cl' = [cl EXCEPT !.pong = TRUE]
        BY <2>3, <3>1
      <4>2. QED
        BY <1>1, <4>1 DEF Client
    <3>2. CASE m # Pong
      BY <1>1, <2>3, <3>2
    <3>3. QED
      BY <3>1, <3>2
  <2>7. Rest'
    BY <1>1, <2>3 DEF Rest
  <2>8. refs' \subseteq refs
    BY <2>3
  <2>9. QED
    BY <2>3, <2>4, <2>5, <2>6, <2>7, <2>8, SocketKeeps DEF Resumed, q
<1>6. QED
  BY <1>2, <1>3, <1>4, <1>5

\* The server takes a message: a subscription it hears of is kept, one that it
\* ends is confirmed.
LEMMA ServerKeeps ==
    ASSUME Inv, NEW s \in Slots, ServerReady(s) \/ ServerTakes(s)
    PROVE  Inv'
<1> DEFINE q == conn[s]
<1>1. /\ q \in Socket /\ conn \in [Slots -> Socket] /\ cl \in Client
      /\ UNCHANGED <<setup, cl, awaits, refs, calls, wanted, faults, ops>>
  BY DEF Inv, Core, ServerReady, ServerTakes
<1>2. Rest'
  BY <1>1 DEF Inv, Rest
<1>3. ASSUME NEW r \in Socket, conn' = [conn EXCEPT ![s] = r], r.st = q.st,
             Grown(q, r) \/ r.missed
      PROVE  Inv'
  <2>1. refs \subseteq Topics
    BY DEF Inv, Core
  <2>2. Resumed(r) => Resumed(q) /\ \A t \in refs' : Holds(q, t) => Holds(r, t)
    BY <1>1, <1>3, <2>1 DEF Grown, Resumed
  <2>3. QED
    BY <1>1, <1>2, <1>3, <2>2, SocketKeeps
<1>4. CASE ServerReady(s)
  <2> DEFINE r == [q EXCEPT !.ready = TRUE]
  <2>1. /\ r \in Socket /\ r.st = q.st /\ r.mute = q.mute /\ r.resumed = q.resumed /\ r.missed = q.missed
        /\ r.held = q.held /\ r.up = q.up /\ r.down = q.down
    BY <1>1 DEF Socket
  <2>2. conn' = [conn EXCEPT ![s] = r]
    BY <1>4 DEF ServerReady
  <2> HIDE DEF r
  <2>3. Grown(q, r)
    BY <2>1 DEF Grown, Holds
  <2>4. QED
    BY <1>3, <2>1, <2>2, <2>3
<1>5. CASE ServerTakes(s)
  <2> DEFINE u    == Tail(q.up)
             m    == Head(q.up)
             rest == [q EXCEPT !.up = u]
  <2>1. q.up \in Seq(ToServer) /\ q.up # << >>
    BY <1>1, <1>5 DEF ServerTakes, Socket
  <2>2. /\ m = q.up[1] /\ m \in ToServer /\ u \in Seq(ToServer)
        /\ Len(q.up) \in Nat \ {0} /\ Len(u) = Len(q.up) - 1
        /\ \A i \in 1 .. Len(q.up) - 1 : u[i] = q.up[i + 1]
    BY <2>1, Shortened
  <2>3. conn' = [conn EXCEPT ![s] =
             IF ~rest.ready THEN [rest EXCEPT !.missed = TRUE]
             ELSE CASE m.kind = "ping"  -> [rest EXCEPT !.down = Append(@, Pong)]
                    [] m.kind = "sub"   -> [rest EXCEPT !.held = @ \cup m.topics]
                    [] m.kind = "unsub" -> [rest EXCEPT !.held = @ \ {m.topic},
                                                        !.down = Append(@, Unsubscribed(m.topic))]
                    [] m.kind = "call"  -> [rest EXCEPT !.down = Append(@, Ack(m.of))]]
    BY <1>5 DEF ServerTakes
  <2> HIDE DEF u, m
  <2>4. /\ rest \in Socket /\ rest.st = q.st /\ rest.mute = q.mute /\ rest.resumed = q.resumed /\ rest.missed = q.missed
        /\ rest.ready = q.ready /\ rest.held = q.held /\ rest.up = u /\ rest.down = q.down
    BY <1>1, <2>2 DEF Socket
  <2> HIDE DEF rest
  \* what it still has to hear: all but the head
  <2>5. ASSUME NEW t \in Topics, Holds(q, t), ~(m.kind = "sub" /\ t \in m.topics)
        PROVE  Holds(rest, t)
    <3>1. ASSUME NEW i \in 1 .. Len(q.up), q.up[i].kind = "sub", t \in q.up[i].topics
          PROVE  Holds(rest, t)
      <4>1. i # 1
        BY <2>2, <2>5, <3>1
      <4>2. i - 1 \in 1 .. Len(u) /\ u[i - 1] = q.up[i]
        BY <2>2, <4>1
      <4>3. QED
        BY <2>4, <3>1, <4>2 DEF Holds
    <3>2. QED
      BY <2>4, <2>5, <3>1 DEF Holds
  \* what goes down to the client comes after what did
  <2>6. ASSUME NEW a \in ToClient, NEW h \in SUBSET Topics
        PROVE  LET r == [rest EXCEPT !.held = h, !.down = Append(rest.down, a)]
               IN  /\ r \in Socket /\ r.st = q.st /\ r.mute = q.mute /\ r.resumed = q.resumed /\ r.missed = q.missed
                   /\ \A t \in Topics :
                          Holds(rest, t) => t \in rest.held \ h \/ Holds(r, t)
                   /\ \A t \in Topics : t \in h \/ a = Unsubscribed(t) => Holds(r, t)
    <3> DEFINE w == Append(rest.down, a)
               r == [rest EXCEPT !.held = h, !.down = w]
    <3>1. rest.down \in Seq(ToClient)
      BY <2>4 DEF Socket
    <3>2. /\ w \in Seq(ToClient) /\ Len(rest.down) \in Nat /\ Len(w) = Len(rest.down) + 1
          /\ \A i \in 1 .. Len(rest.down) : w[i] = rest.down[i]
          /\ w[Len(rest.down) + 1] = a
      BY <3>1, Appended
    <3> HIDE DEF w
    <3>3. /\ r \in Socket /\ r.st = q.st /\ r.mute = q.mute /\ r.resumed = q.resumed /\ r.missed = q.missed
          /\ r.held = h /\ r.up = rest.up /\ r.down = w
      BY <2>4, <3>2 DEF Socket
    <3> HIDE DEF r
    <3>4. \A t \in Topics : Holds(rest, t) => t \in rest.held \ h \/ Holds(r, t)
      BY <3>2, <3>3 DEF Holds
    <3>5. \A t \in Topics : t \in h \/ a = Unsubscribed(t) => Holds(r, t)
      BY <3>2, <3>3 DEF Holds
    <3>6. QED
      BY <3>3, <3>4, <3>5 DEF r, w
  <2>7. rest.held \in SUBSET Topics /\ rest = [rest EXCEPT !.held = rest.held]
    BY <2>4 DEF Socket
  <2>8. ASSUME NEW a \in ToClient, m.kind \in {"ping", "call"},
               conn' = [conn EXCEPT ![s] = [rest EXCEPT !.down = Append(@, a)]]
        PROVE  Inv'
    <3> DEFINE r == [rest EXCEPT !.held = rest.held, !.down = Append(rest.down, a)]
    <3>1. conn' = [conn EXCEPT ![s] = r]
      BY <2>7, <2>8
    <3>2. /\ r \in Socket /\ r.st = q.st /\ r.mute = q.mute /\ r.resumed = q.resumed /\ r.missed = q.missed
          /\ \A t \in Topics : Holds(rest, t) => Holds(r, t)
      BY <2>6, <2>7
    <3> HIDE DEF r
    <3>3. Grown(q, r)
      BY <2>5, <2>8, <3>2 DEF Grown
    <3>4. QED
      BY <1>3, <3>1, <3>2, <3>3
  <2>9. CASE ~rest.ready
    <3> DEFINE r == [rest EXCEPT !.missed = TRUE]
    <3>1. conn' = [conn EXCEPT ![s] = r]
      BY <2>3, <2>9
    <3>2. r \in Socket /\ r.st = q.st /\ r.missed
      BY <2>4 DEF Socket
    <3> HIDE DEF r
    <3>3. QED
      BY <1>3, <3>1, <3>2
  <2>10. CASE rest.ready /\ m = Ping
    <3>1. m.kind = "ping"
      BY <2>10 DEF Ping
    <3>2. QED
      BY <2>3, <2>8, <2>10, <3>1, Kinds
  <2>11. CASE rest.ready /\ \E c \in Calls : m = Call(c)
    <3>1. PICK c \in Calls : m = Call(c)
      BY <2>11
    <3>2. m.kind = "call" /\ m.of = c
      BY <3>1 DEF Call
    <3>3. QED
      BY <2>3, <2>8, <2>11, <3>2, Kinds
  <2>12. CASE rest.ready /\ \E S \in SUBSET Topics : m = Sub(S)
    <3>1. PICK S \in SUBSET Topics : m = Sub(S)
      BY <2>12
    <3> DEFINE r == [rest EXCEPT !.held = rest.held \cup S]
    <3>2. m.kind = "sub" /\ m.topics = S
      BY <3>1, Kinds
    <3>3. conn' = [conn EXCEPT ![s] = r]
      BY <2>3, <2>12, <3>2
    <3>4. /\ r \in Socket /\ r.st = q.st /\ r.mute = q.mute /\ r.resumed = q.resumed /\ r.missed = q.missed
          /\ r.held = rest.held \cup S /\ r.up = rest.up /\ r.down = rest.down
      BY <2>4 DEF Socket
    <3> HIDE DEF r
    <3>5. \A t \in Topics : (Holds(rest, t) => Holds(r, t)) /\ (t \in S => Holds(r, t))
      BY <3>4 DEF Holds
    <3>6. Grown(q, r)
      BY <2>5, <3>2, <3>4, <3>5 DEF Grown
    <3>7. QED
      BY <1>3, <3>3, <3>4, <3>6
  <2>13. CASE rest.ready /\ \E t \in Topics : m = Unsub(t)
    <3>1. PICK t \in Topics : m = Unsub(t)
      BY <2>13
    <3> DEFINE h == rest.held \ {t}
               a == Unsubscribed(t)
               r == [rest EXCEPT !.held = h, !.down = Append(rest.down, a)]
    <3>2. m.kind = "unsub" /\ m.topic = t
      BY <3>1 DEF Unsub
    <3>3. conn' = [conn EXCEPT ![s] = r]
      BY <2>3, <2>13, <3>2
    <3>4. h \in SUBSET Topics /\ rest.held \ h \subseteq {t} /\ a \in ToClient
      BY <2>7, Kinds
    <3> HIDE DEF h
    <3>5. /\ r \in Socket /\ r.st = q.st /\ r.mute = q.mute /\ r.resumed = q.resumed /\ r.missed = q.missed
          /\ \A x \in Topics : Holds(rest, x) => x \in rest.held \ h \/ Holds(r, x)
          /\ a = Unsubscribed(t) => Holds(r, t)
      <4> HIDE DEF a
      <4>1. QED
        BY <2>6, <3>4
    <3> HIDE DEF r
    <3>6. Grown(q, r)
      BY <2>5, <3>2, <3>4, <3>5 DEF Grown
    <3>7. QED
      BY <1>3, <3>3, <3>5, <3>6
  <2>14. QED
    BY <2>2, <2>9, <2>10, <2>11, <2>12, <2>13 DEF ToServer
<1>6. QED
  BY <1>4, <1>5

\* The heartbeat that is current, and those that are lost.
LEMMA HeartbeatKeeps ==
    ASSUME Inv, HeartbeatTimer \/ LostHeartbeatTimer
    PROVE  Inv'
<1>1. /\ Core(cl, conn, refs) /\ cl \in Client /\ refs \in SUBSET Topics /\ Rest
      /\ conn \in [Slots -> Socket] /\ cl.lostBeats \in Nat
  BY ClientFields DEF Inv, Core
<1>2. ASSUME NEW c \in Client, BeatExpires(c), c.socket = cl.socket, c.connected = cl.connected,
             c.retries = cl.retries, c.retry = cl.retry, c.lostRetries = cl.lostRetries,
             c.aborted = cl.aborted, c.denied = cl.denied
      PROVE  Inv'
  <2>1. UNCHANGED <<setup, awaits, refs, calls, wanted, faults, ops>> /\ Rest'
    BY <1>1, <1>2 DEF BeatExpires, Rest
  <2>2. Core(c, conn, refs)
    BY <1>1, <1>2, GrownSelf, CoreGrows
  <2>3. CASE cl' = c /\ UNCHANGED conn
    BY <1>2, <2>1, <2>2, <2>3, QuietKeeps DEF Live
  <2>4. CASE /\ cl' = c
             /\ conn' = [s \in Slots |-> IF s = c.socket /\ conn[s].st \in {"connecting", "open"}
                                         THEN [conn[s] EXCEPT !.st = "closing"]
                                         ELSE conn[s]]
    <3>1. ASSUME NEW s \in Slots
          PROVE  /\ conn'[s] \in Socket /\ (conn'[s] = conn[s] \/ conn'[s].st = "closing")
                 /\ Live(s)' <=> Live(s)
                 /\ conn'[s].st = "none" <=> conn[s].st = "none"
      <4>1. CASE s = c.socket /\ conn[s].st \in {"connecting", "open"}
        <5>1. conn'[s] = [conn[s] EXCEPT !.st = "closing"]
          BY <2>4, <4>1
        <5>2. conn'[s] \in Socket /\ conn'[s].st = "closing"
          BY <1>1, <5>1 DEF Socket
        <5>3. QED
          BY <4>1, <5>2 DEF Live
      <4>2. CASE ~(s = c.socket /\ conn[s].st \in {"connecting", "open"})
        BY <1>1, <2>4, <4>2 DEF Live
      <4>3. QED
        BY <4>1, <4>2
    <3>2. conn' \in [Slots -> Socket]
      BY <2>4, <3>1
    <3>3. c.socket # None => c.socket \in Slots
      BY ClientFields
    <3>4. Single(c, conn') /\ Told(c, conn') /\ Kept(c, conn', refs)
      BY <2>2, <3>1, <3>3 DEF Core, Single, Told, Kept, Resumed
    <3>5. Core(cl', conn', refs')
      BY <1>1, <2>1, <2>4, <3>2, <3>4 DEF Core
    <3>6. QED
      BY <1>2, <2>1, <2>4, <3>1, <3>5, QuietKeeps
  <2>5. CASE cl' = BeatClient(c) /\ conn' = BeatConn(c, conn)
    <3>1. /\ Core(BeatClient(c), BeatConn(c, conn), refs)
          /\ BeatClient(c).socket = c.socket /\ BeatClient(c).aborted = c.aborted
          /\ BeatClient(c).retries = c.retries /\ BeatClient(c).retry = c.retry
          /\ BeatClient(c).lostRetries = c.lostRetries /\ BeatClient(c).denied = c.denied
          /\ \A s \in Slots : BeatConn(c, conn)[s].st = conn[s].st
      BY <2>2, Beats
    <3>2. \A s \in Slots : Live(s)' <=> Live(s)
      BY <2>5, <3>1 DEF Live
    <3>3. Core(cl', conn', refs')
      BY <2>1, <2>5, <3>1
    <3>4. QED
      BY <1>2, <2>1, <2>5, <3>1, <3>2, <3>3, QuietKeeps
  <2>6. QED
    BY <1>2, <2>3, <2>4, <2>5 DEF BeatExpires
<1>3. CASE HeartbeatTimer
  <2> DEFINE c == [cl EXCEPT !.beat = FALSE]
  <2>1. /\ c \in Client /\ c.socket = cl.socket /\ c.connected = cl.connected
        /\ c.retries = cl.retries /\ c.retry = cl.retry /\ c.lostRetries = cl.lostRetries
        /\ c.aborted = cl.aborted /\ c.denied = cl.denied
    BY <1>1 DEF Client
  <2>2. BeatExpires(c)
    BY <1>3 DEF HeartbeatTimer
  <2> HIDE DEF c
  <2>3. QED
    BY <1>2, <2>1, <2>2
<1>4. CASE LostHeartbeatTimer
  <2> DEFINE n == cl.lostBeats - 1
             c == [cl EXCEPT !.lostBeats = n]
  <2>1. n \in Nat
    BY <1>1, <1>4 DEF LostHeartbeatTimer
  <2>2. BeatExpires(c)
    BY <1>4 DEF LostHeartbeatTimer
  <2> HIDE DEF n
  <2>3. /\ c \in Client /\ c.socket = cl.socket /\ c.connected = cl.connected
        /\ c.retries = cl.retries /\ c.retry = cl.retry /\ c.lostRetries = cl.lostRetries
        /\ c.aborted = cl.aborted /\ c.denied = cl.denied
    BY <1>1, <2>1 DEF Client
  <2> HIDE DEF c
  <2>4. QED
    BY <1>2, <2>2, <2>3
<1>5. QED
  BY <1>3, <1>4

-----------------------------------------------------------------------------
(* A client that reconnects by itself                                      *)

\* What a step must keep of a socket for the next invariant.
Trace(q) == <<q.st, q.auto, q.resumed>>

(***************************************************************************)
(* As long as the user calls connect() only when no attempt is to come,    *)
(* the attempts come one after the other: a timer is set, the token is     *)
(* awaited, or the client has its socket.  An attempt that a retry timer   *)
(* makes then finds the client reconnecting, until its socket opens.       *)
(***************************************************************************)
InTurn ==
    /\ cl.lostRetries = 0 /\ awaits <= 1
    /\ \A s \in Slots : conn[s].st # "none" => s = cl.socket
    /\ cl.retry \/ awaits > 0 => cl.socket = None
    /\ cl.retry => awaits = 0

ByItself ==
    /\ cl.retry \/ (awaits > 0 /\ cl.auto) => cl.reconnecting
    /\ \A s \in Slots : conn[s].auto /\ conn[s].st = "connecting" => cl.reconnecting
    /\ \A s \in Slots : conn[s].auto /\ conn[s].st = "open" => conn[s].resumed

Pace == ~cl.crossed => InTurn /\ (wanted => ByItself)

\* A step that keeps what Pace looks at.
Steady ==
    /\ awaits' = awaits /\ wanted' = wanted /\ cl'.crossed = cl.crossed
    /\ cl'.lostRetries = cl.lostRetries /\ cl'.retry = cl.retry /\ cl'.socket = cl.socket
    /\ cl'.auto = cl.auto /\ cl'.reconnecting = cl.reconnecting
    /\ \A s \in Slots : \/ Trace(conn'[s]) = Trace(conn[s])
                        \/ /\ conn'[s].st = "closing"
                           /\ conn[s].st # "none"

LEMMA PaceKept ==
    ASSUME Pace, Steady
    PROVE  Pace'
BY DEF Steady, Pace, InTurn, ByItself, Trace

LEMMA EmitTraces ==
    ASSUME NEW c, NEW k \in [Slots -> Socket], NEW m
    PROVE  \A s \in Slots : Trace(Emit(c, k, m)[s]) = Trace(k[s])
<1> SUFFICES ASSUME NEW s \in Slots PROVE Trace(Emit(c, k, m)[s]) = Trace(k[s])
  OBVIOUS
<1>1. CASE Emit(c, k, m) = k
  BY <1>1
<1>2. CASE Emit(c, k, m) = [k EXCEPT ![c.socket].up = Append(@, m)]
  <2> DEFINE q == k[s]
             u == Append(q.up, m)
  <2>1. q \in Socket
    OBVIOUS
  <2>2. Emit(c, k, m)[s] = q \/ Emit(c, k, m)[s] = [q EXCEPT !.up = u]
    BY <1>2
  <2> HIDE DEF q, u
  <2>3. Trace([q EXCEPT !.up = u]) = Trace(q)
    BY <2>1 DEF Trace, Socket
  <2>4. QED
    BY <2>2, <2>3 DEF q
<1>3. QED
  BY <1>1, <1>2 DEF Emit

\* A heartbeat is a ping, and leaves the attempts alone.
LEMMA BeatTraces ==
    ASSUME NEW c \in Client, NEW k \in [Slots -> Socket]
    PROVE  /\ \A s \in Slots : Trace(BeatConn(c, k)[s]) = Trace(k[s])
           /\ BeatClient(c).crossed = c.crossed /\ BeatClient(c).lostRetries = c.lostRetries
           /\ BeatClient(c).retry = c.retry /\ BeatClient(c).socket = c.socket
           /\ BeatClient(c).auto = c.auto /\ BeatClient(c).reconnecting = c.reconnecting
<1>1. \A s \in Slots : Trace(BeatConn(c, k)[s]) = Trace(k[s])
  BY EmitTraces DEF BeatConn
<1>2. CASE Beating(c)
  <2> DEFINE n == IF c.beat THEN c.lostBeats + 1 ELSE c.lostBeats
             d == BeatClient(c)
  <2>1. d = [c EXCEPT !.pong = FALSE, !.beat = TRUE, !.lostBeats = n]
    BY <1>2 DEF BeatClient
  <2> HIDE DEF n, d
  <2>2. /\ d.crossed = c.crossed /\ d.lostRetries = c.lostRetries /\ d.retry = c.retry
        /\ d.socket = c.socket /\ d.auto = c.auto /\ d.reconnecting = c.reconnecting
    BY <2>1 DEF Client
  <2>3. QED
    BY <1>1, <2>2 DEF d
<1>3. CASE ~Beating(c)
  BY <1>1, <1>3 DEF BeatClient
<1>4. QED
  BY <1>2, <1>3

\* The steps that make no attempt and lose no socket.
LEMMA QuietPace ==
    ASSUME Inv, Pace,
           \/ \E t \in Topics : Subscribe(t) \/ Unsubscribe(t)
           \/ \E c \in Calls : MakeCall(c) \/ CallTimeout(c)
           \/ \E s \in Slots : Mute(s) \/ Receive(s) \/ ServerReady(s) \/ ServerTakes(s)
    PROVE  Pace'
<1>1. cl \in Client /\ conn \in [Slots -> Socket]
  BY DEF Inv, Core
<1>2. CASE \/ \E t \in Topics : Subscribe(t) \/ Unsubscribe(t)
           \/ \E c \in Calls : MakeCall(c) \/ CallTimeout(c)
  <2>1. UNCHANGED <<cl, awaits, wanted>>
    BY <1>2 DEF Subscribe, Unsubscribe, MakeCall, CallTimeout
  <2>2. conn' = conn \/ \E m : conn' = Emit(cl, conn, m)
    BY <1>2 DEF Subscribe, Unsubscribe, MakeCall, CallTimeout
  <2>3. \A s \in Slots : Trace(conn'[s]) = Trace(conn[s])
    BY <1>1, <2>2, EmitTraces
  <2>4. QED
    BY <2>1, <2>3, PaceKept DEF Steady
<1>3. ASSUME NEW s \in Slots, Mute(s) \/ Receive(s) \/ ServerReady(s) \/ ServerTakes(s)
      PROVE  Pace'
  <2> DEFINE q == conn[s]
  <2>1. q \in Socket
    BY <1>1
  <2>2. /\ UNCHANGED <<awaits, wanted>>
        /\ cl' = cl \/ cl' = [cl EXCEPT !.pong = TRUE]
    BY <1>3 DEF Mute, Receive, ServerReady, ServerTakes
  <2>3. /\ cl'.crossed = cl.crossed /\ cl'.lostRetries = cl.lostRetries /\ cl'.retry = cl.retry
        /\ cl'.socket = cl.socket /\ cl'.auto = cl.auto /\ cl'.reconnecting = cl.reconnecting
    BY <1>1, <2>2 DEF Client
  <2>4. PICK r : conn' = [conn EXCEPT ![s] = r] /\ Trace(r) = Trace(q)
    <3>1. CASE Mute(s)
      <4> DEFINE r == [q EXCEPT !.mute = TRUE, !.up = << >>, !.down = << >>]
      <4>1. conn' = [conn EXCEPT ![s] = r]
        BY <1>1, <3>1 DEF Mute, Socket
      <4>2. Trace(r) = Trace(q)
        BY <2>1 DEF Trace, Socket
      <4>3. QED
        BY <4>1, <4>2
    <3>2. CASE Receive(s)
      <4> DEFINE r == [q EXCEPT !.down = Tail(@)]
      <4>1. conn' = [conn EXCEPT ![s] = r]
        BY <3>2 DEF Receive
      <4>2. Trace(r) = Trace(q)
        BY <2>1 DEF Trace, Socket
      <4>3. QED
        BY <4>1, <4>2
    <3>3. CASE ServerReady(s)
      <4> DEFINE r == [q EXCEPT !.ready = TRUE]
      <4>1. conn' = [conn EXCEPT ![s] = r]
        BY <3>3 DEF ServerReady
      <4>2. Trace(r) = Trace(q)
        BY <2>1 DEF Trace, Socket
      <4>3. QED
        BY <4>1, <4>2
    <3>4. CASE ServerTakes(s)
      <4> DEFINE m    == Head(q.up)
                 rest == [q EXCEPT !.up = Tail(q.up)]
      <4>1. q.up \in Seq(ToServer) /\ q.up # << >>
        BY <2>1, <3>4 DEF ServerTakes, Socket
      <4>2. m \in ToServer
        BY <4>1, Shortened
      <4>3. conn' = [conn EXCEPT ![s] =
                 IF ~rest.ready THEN [rest EXCEPT !.missed = TRUE]
                 ELSE CASE m.kind = "ping"  -> [rest EXCEPT !.down = Append(@, Pong)]
                        [] m.kind = "sub"   -> [rest EXCEPT !.held = @ \cup m.topics]
                        [] m.kind = "unsub" -> [rest EXCEPT !.held = @ \ {m.topic},
                                                            !.down = Append(@, Unsubscribed(m.topic))]
                        [] m.kind = "call"  -> [rest EXCEPT !.down = Append(@, Ack(m.of))]]
        BY <3>4 DEF ServerTakes
      <4>4. DOMAIN rest = DOMAIN q /\ Trace(rest) = Trace(q)
            /\ DOMAIN q = {"st", "mute", "ready", "held", "auto", "resumed", "missed", "up", "down"}
        BY <2>1 DEF Trace, Socket
      <4> HIDE DEF m, rest
      <4>5. /\ Trace([rest EXCEPT !.missed = TRUE]) = Trace(q)
            /\ \A d : Trace([rest EXCEPT !.down = d]) = Trace(q)
            /\ \A h : Trace([rest EXCEPT !.held = h]) = Trace(q)
            /\ \A h, d : Trace([rest EXCEPT !.held = h, !.down = d]) = Trace(q)
        BY <4>4 DEF Trace
      <4>6. m.kind \in {"ping", "sub", "unsub", "call"}
        BY <4>2 DEF ToServer, Ping, Sub, Unsub, Call
      <4>7. CASE ~rest.ready
        BY <4>3, <4>5, <4>7
      <4>8. CASE rest.ready /\ m.kind = "ping"
        <5> DEFINE r == [rest EXCEPT !.down = Append(rest.down, Pong)]
        <5>1. conn' = [conn EXCEPT ![s] = r]
          BY <4>3, <4>8
        <5>2. Trace(r) = Trace(q)
          BY <4>5
        <5> HIDE DEF r
        <5>3. QED
          BY <5>1, <5>2
      <4>9. CASE rest.ready /\ m.kind = "sub"
        <5> DEFINE r == [rest EXCEPT !.held = rest.held \cup m.topics]
        <5>1. conn' = [conn EXCEPT ![s] = r]
          BY <4>3, <4>9
        <5>2. Trace(r) = Trace(q)
          BY <4>5
        <5> HIDE DEF r
        <5>3. QED
          BY <5>1, <5>2
      <4>10. CASE rest.ready /\ m.kind = "unsub"
        <5> DEFINE r == [rest EXCEPT !.held = rest.held \ {m.topic}, !.down = Append(rest.down, Unsubscribed(m.topic))]
        <5>1. conn' = [conn EXCEPT ![s] = r]
          BY <4>3, <4>10
        <5>2. Trace(r) = Trace(q)
          BY <4>5
        <5> HIDE DEF r
        <5>3. QED
          BY <5>1, <5>2
      <4>11. CASE rest.ready /\ m.kind = "call"
        <5> DEFINE r == [rest EXCEPT !.down = Append(rest.down, Ack(m.of))]
        <5>1. conn' = [conn EXCEPT ![s] = r]
          BY <4>3, <4>11
        <5>2. Trace(r) = Trace(q)
          BY <4>5
        <5> HIDE DEF r
        <5>3. QED
          BY <5>1, <5>2
      <4>12. QED
        BY <4>6, <4>7, <4>8, <4>9, <4>10, <4>11
    <3>5. QED
      BY <1>3, <3>1, <3>2, <3>3, <3>4
  <2> HIDE DEF q
  <2>5. \A x \in Slots : Trace(conn'[x]) = Trace(conn[x])
    BY <1>1, <2>4 DEF q
  <2>6. QED
    BY <2>2, <2>3, <2>5, PaceKept DEF Steady
<1>4. QED
  BY <1>2, <1>3

\* connect() with the token at hand makes the one socket; with a token to await
\* it leaves none.
LEMMA StartPace ==
    ASSUME Inv, NEW c \in Client, StartConnect(c), c.socket = cl.socket,
           c.lostRetries = 0, ~c.retry, awaits = 0,
           \A s \in Slots : conn[s].st # "none" => s = cl.socket,
           c.auto /\ wanted' => c.reconnecting
    PROVE  Pace'
<1> DEFINE b == [c EXCEPT !.aborted = FALSE]
           d == Cleaned(b)
           k == Detach(c, conn)
<1>1. conn \in [Slots -> Socket] /\ c.socket \in Slots \cup {None} /\ setup \in Setups
  BY ClientFields DEF Inv, Core, Rest
<1>2. b \in Client /\ b.socket = c.socket /\ b.lostRetries = 0 /\ ~b.retry
      /\ b.auto = c.auto /\ b.reconnecting = c.reconnecting
  BY DEF Client
<1> HIDE DEF b
<1>3. d \in Client /\ d.socket = None /\ d.lostRetries = 0 /\ ~d.retry
      /\ d.auto = c.auto /\ d.reconnecting = c.reconnecting
  BY <1>2 DEF Cleaned, Client
<1>4. k \in [Slots -> Socket] /\ \A s \in Slots : k[s].st = "none"
  BY <1>1, ClientAssumption, GoneTyped DEF Detach
<1>5. IF setup.token = "static" THEN Dial(d, k) /\ UNCHANGED awaits
      ELSE conn' = k /\ cl' = d /\ awaits' = awaits + 1
  BY DEF StartConnect, b
<1> HIDE DEF d, k
<1>6. CASE setup.token = "static"
  <2> DEFINE x == CHOOSE s \in Free(k) : TRUE
             g == [Gone EXCEPT !.st = "connecting", !.auto = d.auto]
  <2>1. x \in Slots /\ conn' = [k EXCEPT ![x] = g] /\ cl' = [d EXCEPT !.socket = x, !.denied = FALSE]
    BY <1>5, <1>6 DEF Dial, Free
  <2> HIDE DEF x
  <2>2. g.st = "connecting" /\ g.auto = c.auto
    BY <1>3 DEF Gone
  <2> HIDE DEF g
  <2>3. /\ cl'.socket = x /\ cl'.lostRetries = 0 /\ ~cl'.retry
        /\ cl'.auto = c.auto /\ cl'.reconnecting = c.reconnecting
    BY <1>3, <2>1 DEF Client
  <2>4. awaits' = 0 /\ \A s \in Slots : s # x => conn'[s].st = "none"
    BY <1>4, <1>5, <1>6, <2>1
  <2>5. conn'[x].st = "connecting" /\ conn'[x].auto = c.auto
    BY <1>4, <2>1, <2>2
  <2>6. QED
    BY <2>3, <2>4, <2>5 DEF Pace, InTurn, ByItself
<1>7. CASE setup.token # "static"
  BY <1>3, <1>4, <1>5, <1>7 DEF Pace, InTurn, ByItself
<1>8. QED
  BY <1>6, <1>7

\* The attempts of the user and of the timers, and the tokens.
LEMMA AttemptPace ==
    ASSUME Inv, Pace, Connect \/ RetryTimer \/ LostRetryTimer \/ TokenResolves \/ TokenRejects
    PROVE  Pace'
<1>1. /\ cl \in Client /\ conn \in [Slots -> Socket] /\ awaits \in Nat /\ cl.lostRetries \in Nat
      /\ cl.crossed \in BOOLEAN /\ cl.retry \in BOOLEAN
  BY ClientFields DEF Inv, Core, Rest
\* connect() keeps what the history says of the attempt it makes
<1>2. ASSUME NEW c \in Client, StartConnect(c)
      PROVE  cl'.crossed = c.crossed
  <2> DEFINE b == [c EXCEPT !.aborted = FALSE]
             d == Cleaned(b)
  <2>1. b \in Client /\ b.crossed = c.crossed
    BY DEF Client
  <2> HIDE DEF b
  <2>2. d \in Client /\ d.crossed = c.crossed
    BY <2>1 DEF Cleaned, Client
  <2>3. cl' = d \/ \E s : cl' = [d EXCEPT !.socket = s, !.denied = FALSE]
    BY <1>2 DEF StartConnect, Dial, b
  <2> HIDE DEF d
  <2>4. QED
    BY <2>2, <2>3 DEF Client
<1>3. CASE Connect
  <2> DEFINE b == cl.crossed \/ Scheduled
             c == [cl EXCEPT !.auto = FALSE, !.crossed = b]
  <2>1. StartConnect(c)
    BY <1>3 DEF Connect
  <2>2. b \in BOOLEAN
    BY <1>1
  <2> HIDE DEF b
  <2>3. /\ c \in Client /\ c.socket = cl.socket /\ c.crossed = b /\ ~c.auto
        /\ c.retry = cl.retry /\ c.lostRetries = cl.lostRetries
    BY <1>1, <2>2 DEF Client
  <2> HIDE DEF c
  <2>4. CASE b
    BY <1>2, <2>1, <2>3, <2>4 DEF Pace
  <2>5. CASE ~b
    <3>1. ~cl.retry /\ cl.lostRetries = 0 /\ awaits = 0 /\ ~cl.crossed
      BY <1>1, <2>5 DEF b, Scheduled
    <3>2. \A s \in Slots : conn[s].st # "none" => s = cl.socket
      BY <3>1 DEF Pace, InTurn
    <3>3. QED
      BY <2>1, <2>3, <3>1, <3>2, StartPace
  <2>6. QED
    BY <2>4, <2>5
<1>4. CASE RetryTimer
  <2> DEFINE c == [cl EXCEPT !.retry = FALSE, !.auto = TRUE]
  <2>1. StartConnect(c) /\ cl.retry /\ UNCHANGED wanted
    BY <1>4 DEF RetryTimer
  <2>2. /\ c \in Client /\ c.socket = cl.socket /\ c.crossed = cl.crossed /\ ~c.retry
        /\ c.lostRetries = cl.lostRetries /\ c.reconnecting = cl.reconnecting
    BY <1>1 DEF Client
  <2> HIDE DEF c
  <2>3. CASE cl.crossed
    BY <1>2, <2>1, <2>2, <2>3 DEF Pace
  <2>4. CASE ~cl.crossed
    <3>1. /\ cl.lostRetries = 0 /\ awaits = 0 /\ (wanted => cl.reconnecting)
          /\ \A s \in Slots : conn[s].st # "none" => s = cl.socket
      BY <2>1, <2>4 DEF Pace, InTurn, ByItself
    <3>2. QED
      BY <2>1, <2>2, <3>1, StartPace
  <2>5. QED
    BY <1>1, <2>3, <2>4
<1>5. CASE LostRetryTimer
  <2> DEFINE n == cl.lostRetries - 1
             c == [cl EXCEPT !.lostRetries = n, !.auto = TRUE]
  <2>1. StartConnect(c) /\ cl.lostRetries > 0
    BY <1>5 DEF LostRetryTimer
  <2>2. n \in Nat
    BY <1>1, <2>1
  <2> HIDE DEF n
  <2>3. c \in Client /\ c.crossed = cl.crossed
    BY <1>1, <2>2 DEF Client
  <2> HIDE DEF c
  <2>4. cl.crossed
    BY <1>1, <2>1 DEF Pace, InTurn
  <2>5. QED
    BY <1>2, <2>1, <2>3, <2>4 DEF Pace
<1>6. CASE TokenResolves
  <2> DEFINE x == CHOOSE s \in Free(conn) : TRUE
             g == [Gone EXCEPT !.st = "connecting", !.auto = cl.auto]
  <2>1. /\ x \in Slots /\ conn' = [conn EXCEPT ![x] = g] /\ awaits > 0 /\ awaits' = awaits - 1
        /\ cl' = [cl EXCEPT !.socket = x, !.denied = FALSE] /\ UNCHANGED wanted
    BY <1>6 DEF TokenResolves, Dial, Free
  <2> HIDE DEF x
  <2>2. g.st = "connecting" /\ g.auto = cl.auto
    BY <1>1, ClientFields DEF Gone
  <2> HIDE DEF g
  <2>3. /\ cl'.socket = x /\ cl'.lostRetries = cl.lostRetries /\ cl'.retry = cl.retry
        /\ cl'.auto = cl.auto /\ cl'.reconnecting = cl.reconnecting /\ cl'.crossed = cl.crossed
    BY <1>1, <2>1 DEF Client
  <2>4. conn'[x].st = "connecting" /\ conn'[x].auto = cl.auto
    BY <1>1, <2>1, <2>2
  <2>5. CASE cl.crossed
    BY <2>3, <2>5 DEF Pace
  <2>6. CASE ~cl.crossed
    <3>1. /\ cl.lostRetries = 0 /\ awaits = 1 /\ ~cl.retry /\ cl.socket = None
          /\ wanted /\ cl.auto => cl.reconnecting
      BY <1>1, <2>1, <2>6 DEF Pace, InTurn, ByItself
    <3>2. \A s \in Slots : conn[s].st = "none"
      BY <2>6, <3>1, ClientAssumption DEF Pace, InTurn
    <3>3. awaits' = 0 /\ \A s \in Slots : s # x => conn'[s].st = "none"
      BY <1>1, <2>1, <3>1, <3>2
    <3>4. QED
      BY <2>1, <2>3, <2>4, <3>1, <3>3 DEF Pace, InTurn, ByItself
  <2>7. QED
    BY <1>1, <2>5, <2>6
<1>7. CASE TokenRejects
  <2>1. /\ awaits > 0 /\ awaits' = awaits - 1 /\ UNCHANGED <<conn, wanted>>
        /\ cl' = [cl EXCEPT !.denied = TRUE]
    BY <1>7 DEF TokenRejects
  <2>2. /\ cl'.socket = cl.socket /\ cl'.lostRetries = cl.lostRetries /\ cl'.retry = cl.retry
        /\ cl'.auto = cl.auto /\ cl'.reconnecting = cl.reconnecting /\ cl'.crossed = cl.crossed
    BY <1>1, <2>1 DEF Client
  <2>3. QED
    BY <1>1, <2>1, <2>2 DEF Pace, InTurn, ByItself
<1>8. QED
  BY <1>3, <1>4, <1>5, <1>6, <1>7

\* destroy() lets go of the socket and of the timer.
LEMMA DestroyPace ==
    ASSUME Inv, Pace, Destroy
    PROVE  Pace'
<1>1. cl \in Client /\ conn \in [Slots -> Socket] /\ cl.socket \in Slots \cup {None} /\ ~wanted'
      /\ UNCHANGED awaits
  BY ClientFields DEF Inv, Core, Destroy, DestroyLeaving
<1>2. CASE UNCHANGED <<conn, cl>>
  BY <1>1, <1>2 DEF Pace, InTurn
<1>3. CASE /\ conn' = Detach(cl, conn)
           /\ cl' = [Cleaned(cl) EXCEPT !.retry = FALSE, !.beat = FALSE, !.aborted = TRUE,
                                        !.reconnecting = FALSE, !.retries = 0]
  <2> DEFINE d == Cleaned(cl)
  <2>1. d \in Client /\ d.socket = None /\ d.lostRetries = cl.lostRetries /\ d.crossed = cl.crossed
    BY <1>1 DEF Cleaned, Client
  <2>2. cl' = [d EXCEPT !.retry = FALSE, !.beat = FALSE, !.aborted = TRUE,
                        !.reconnecting = FALSE, !.retries = 0]
    BY <1>3
  <2> HIDE DEF d
  <2>3. cl'.socket = None /\ ~cl'.retry /\ cl'.lostRetries = cl.lostRetries /\ cl'.crossed = cl.crossed
    BY <2>1, <2>2 DEF Client
  <2>4. ~cl.crossed => \A s \in Slots : conn'[s].st = "none"
    BY <1>1, <1>3, ClientAssumption, GoneTyped DEF Detach, Pace, InTurn
  <2>5. QED
    BY <1>1, <2>3, <2>4 DEF Pace, InTurn
<1>4. QED
  BY <1>2, <1>3 DEF Destroy, DestroyLeaving

\* The one socket opens: nothing else is to come.
LEMMA OpenedPace ==
    ASSUME Inv, Pace, NEW s \in Slots, Opened(s)
    PROVE  Pace'
<1> DEFINE g  == [Gone EXCEPT !.st = "open", !.auto = conn[s].auto, !.resumed = cl.reconnecting]
           c  == [cl EXCEPT !.connected = TRUE, !.retries = 0, !.reconnecting = FALSE]
           k  == [conn EXCEPT ![s] = g]
           kr == IF cl.reconnecting THEN Emit(c, k, Sub(refs)) ELSE k
<1>1. /\ cl \in Client /\ conn \in [Slots -> Socket] /\ conn[s] \in Socket
      /\ cl.reconnecting \in BOOLEAN /\ refs \in SUBSET Topics
  BY ClientFields DEF Inv, Core
<1>2. /\ conn[s].st = "connecting" /\ cl' = BeatClient(c) /\ conn' = BeatConn(c, kr)
      /\ UNCHANGED <<awaits, wanted>>
  BY DEF Opened, OpenedSending
<1>3. g \in Socket /\ Trace(g) = <<"open", conn[s].auto, cl.reconnecting>>
  BY <1>1, GoneTyped DEF Socket, Trace
<1> HIDE DEF g
<1>4. /\ c \in Client /\ c.socket = cl.socket /\ c.retry = cl.retry /\ ~c.reconnecting
      /\ c.lostRetries = cl.lostRetries /\ c.auto = cl.auto /\ c.crossed = cl.crossed
  <2>1. 0 \in 0 .. MaxRetries
    BY ClientAssumption
  <2>2. QED
    BY <1>1, <2>1 DEF Client
<1> HIDE DEF c
<1>5. /\ k \in [Slots -> Socket] /\ k[s] = g /\ \A r \in Slots : r # s => k[r] = conn[r]
  BY <1>1, <1>3
<1> HIDE DEF k
<1>6. kr \in [Slots -> Socket] /\ \A r \in Slots : Trace(kr[r]) = Trace(k[r])
  BY <1>1, <1>4, <1>5, EmitTraces, EmitGrows, Kinds
<1> HIDE DEF kr
<1>7. /\ \A r \in Slots : Trace(conn'[r]) = Trace(k[r])
      /\ cl'.crossed = cl.crossed /\ cl'.lostRetries = cl.lostRetries
      /\ cl'.retry = cl.retry /\ cl'.socket = cl.socket
      /\ cl'.auto = cl.auto
  BY <1>2, <1>4, <1>6, BeatTraces
<1>8. CASE cl.crossed
  BY <1>7, <1>8 DEF Pace
<1>9. CASE ~cl.crossed
  <2>1. s = cl.socket /\ \A r \in Slots : r # s => conn[r].st = "none"
    BY <1>2, <1>9 DEF Pace, InTurn
  <2>2. cl.socket # None
    BY <2>1, ClientAssumption
  <2>3. \A r \in Slots : r # s => conn'[r].st = "none"
    BY <1>5, <1>7, <2>1 DEF Trace
  <2>4. conn'[s].st = "open" /\ conn'[s].auto = conn[s].auto /\ conn'[s].resumed = cl.reconnecting
    BY <1>3, <1>5, <1>7 DEF Trace
  <2>5. ~cl.retry /\ ~(awaits > 0) /\ InTurn /\ (wanted => ByItself)
    BY <1>9, <2>2 DEF Pace, InTurn
  <2>6. InTurn'
    BY <1>2, <1>7, <2>1, <2>3, <2>5 DEF InTurn
  <2>7. wanted => ByItself'
    BY <1>2, <1>7, <2>3, <2>4, <2>5 DEF ByItself
  <2>8. QED
    BY <1>2, <2>6, <2>7 DEF Pace
<1>10. QED
  BY <1>8, <1>9

\* The one socket closes: a retry is to come, and nothing else.
LEMMA ClosedPace ==
    ASSUME Inv, Pace, NEW s \in Slots, CloseEvent(s) \/ Lose(s)
    PROVE  Pace'
<1> DEFINE stop == cl.aborted \/ AlreadyConnecting(s, cl) \/ cl.retries = MaxRetries
           g == [Gone EXCEPT !.st = "closed"]
           k == [conn EXCEPT ![s] = IF s = cl.socket THEN g ELSE Gone]
           d == Closed
<1>1. /\ cl \in Client /\ conn \in [Slots -> Socket] /\ cl.socket \in Slots \cup {None}
      /\ cl.crossed \in BOOLEAN
  BY ClientFields DEF Inv, Core
<1>2. conn[s].st # "none" /\ HandleClose(s) /\ UNCHANGED <<awaits, wanted>>
  BY DEF CloseEvent, Lose
<1>3. g.st = "closed" /\ ~g.auto
  BY DEF Gone
<1>4. /\ d \in Client /\ d.socket = cl.socket /\ d.retry = cl.retry /\ d.auto = cl.auto
      /\ d.lostRetries = cl.lostRetries /\ d.crossed = cl.crossed /\ d.reconnecting = cl.reconnecting
  BY <1>1 DEF Closed, Client
<1>5. IF stop THEN cl' = d /\ conn' = k
      ELSE /\ cl' = [Cleaned(d) EXCEPT !.retries = @ + 1, !.reconnecting = TRUE, !.retry = TRUE,
                                       !.lostRetries = IF cl.retry THEN @ + 1 ELSE @]
           /\ conn' = Detach(d, k)
  BY <1>2 DEF HandleClose, HandleCloseUnless
<1> HIDE DEF g, d
<1>6. /\ DOMAIN k = Slots /\ \A r \in Slots : r # s => k[r] = conn[r]
      /\ s = cl.socket => k[s] = g
  BY <1>1
<1> HIDE DEF k, stop
<1>7. CASE stop
  <2>1. CASE cl.crossed
    BY <1>4, <1>5, <1>7, <2>1 DEF Pace
  <2>2. CASE ~cl.crossed
    <3>1. s = cl.socket /\ InTurn /\ (wanted => ByItself)
      BY <1>2, <2>2 DEF Pace, InTurn
    <3>2. InTurn'
      BY <1>2, <1>4, <1>5, <1>6, <1>7, <3>1 DEF InTurn
    <3>3. wanted => ByItself'
      BY <1>2, <1>3, <1>4, <1>5, <1>6, <1>7, <3>1 DEF ByItself
    <3>4. QED
      BY <1>2, <3>2, <3>3 DEF Pace
  <2>3. QED
    BY <1>1, <2>1, <2>2
<1>8. CASE ~stop
  <2> DEFINE b == Cleaned(d)
             n == IF cl.retry THEN b.lostRetries + 1 ELSE b.lostRetries
             m == b.retries + 1
  <2>1. b \in Client /\ b.socket = None /\ b.lostRetries = cl.lostRetries /\ b.crossed = cl.crossed
    BY <1>4 DEF Cleaned, Client
  <2>2. cl' = [b EXCEPT !.retries = m, !.reconnecting = TRUE, !.retry = TRUE, !.lostRetries = n]
    BY <1>5, <1>8
  <2>3. ~cl.retry => n = cl.lostRetries
    BY <2>1
  <2> HIDE DEF b, n, m
  <2>4. cl'.socket = None /\ cl'.reconnecting /\ cl'.retry /\ cl'.lostRetries = n /\ cl'.crossed = cl.crossed
    BY <2>1, <2>2 DEF Client
  <2>5. CASE cl.crossed
    BY <2>4, <2>5 DEF Pace
  <2>6. CASE ~cl.crossed
    <3>1. s = cl.socket /\ InTurn
      BY <1>2, <2>6 DEF Pace, InTurn
    <3>2. cl.socket # None /\ ~cl.retry /\ ~(awaits > 0)
      BY <3>1, ClientAssumption DEF InTurn
    <3>3. conn' = [k EXCEPT ![s] = Gone]
      BY <1>4, <1>5, <1>8, <3>1, <3>2 DEF Detach
    <3>4. \A r \in Slots : conn'[r].st = "none"
      BY <1>6, <3>1, <3>3, GoneTyped DEF InTurn
    <3>5. awaits = 0
      BY <3>2 DEF Inv, Rest
    <3>6. QED
      BY <1>2, <2>3, <2>4, <3>1, <3>2, <3>4, <3>5 DEF Pace, InTurn, ByItself
  <2>7. QED
    BY <1>1, <2>5, <2>6
<1>9. QED
  BY <1>7, <1>8

LEMMA HeartbeatPace ==
    ASSUME Inv, Pace, HeartbeatTimer \/ LostHeartbeatTimer
    PROVE  Pace'
<1>1. cl \in Client /\ conn \in [Slots -> Socket] /\ cl.lostBeats \in Nat
  BY ClientFields DEF Inv, Core
<1>2. PICK c \in Client :
          /\ BeatExpires(c) /\ c.crossed = cl.crossed /\ c.lostRetries = cl.lostRetries
          /\ c.retry = cl.retry /\ c.socket = cl.socket /\ c.auto = cl.auto
          /\ c.reconnecting = cl.reconnecting
  <2>1. CASE HeartbeatTimer
    <3> DEFINE c == [cl EXCEPT !.beat = FALSE]
    <3>1. BeatExpires(c)
      BY <2>1 DEF HeartbeatTimer
    <3>2. /\ c \in Client /\ c.crossed = cl.crossed /\ c.lostRetries = cl.lostRetries
          /\ c.retry = cl.retry /\ c.socket = cl.socket /\ c.auto = cl.auto
          /\ c.reconnecting = cl.reconnecting
      BY <1>1 DEF Client
    <3> HIDE DEF c
    <3>3. QED
      BY <3>1, <3>2
  <2>2. CASE LostHeartbeatTimer
    <3> DEFINE n == cl.lostBeats - 1
               c == [cl EXCEPT !.lostBeats = n]
    <3>1. BeatExpires(c) /\ n \in Nat
      BY <1>1, <2>2 DEF LostHeartbeatTimer
    <3> HIDE DEF n
    <3>2. /\ c \in Client /\ c.crossed = cl.crossed /\ c.lostRetries = cl.lostRetries
          /\ c.retry = cl.retry /\ c.socket = cl.socket /\ c.auto = cl.auto
          /\ c.reconnecting = cl.reconnecting
      BY <1>1, <3>1 DEF Client
    <3> HIDE DEF c
    <3>3. QED
      BY <3>1, <3>2
  <2>3. QED
    BY <2>1, <2>2
<1>3. UNCHANGED <<awaits, wanted>>
  BY <1>2 DEF BeatExpires
<1>4. CASE cl' = c /\ UNCHANGED conn
  BY <1>2, <1>3, <1>4, PaceKept DEF Steady
<1>5. CASE /\ cl' = c
           /\ conn' = [s \in Slots |-> IF s = c.socket /\ conn[s].st \in {"connecting", "open"}
                                       THEN [conn[s] EXCEPT !.st = "closing"]
                                       ELSE conn[s]]
  <2>1. ASSUME NEW s \in Slots
        PROVE  conn'[s] = conn[s] \/ (conn'[s].st = "closing" /\ conn[s].st # "none")
    <3>1. [conn[s] EXCEPT !.st = "closing"].st = "closing"
      BY <1>1 DEF Socket
    <3>2. QED
      BY <1>5, <3>1
  <2>2. QED
    BY <1>2, <1>3, <1>5, <2>1, PaceKept DEF Steady
<1>6. CASE cl' = BeatClient(c) /\ conn' = BeatConn(c, conn)
  <2>1. /\ \A s \in Slots : Trace(conn'[s]) = Trace(conn[s])
        /\ cl'.crossed = cl.crossed /\ cl'.lostRetries = cl.lostRetries /\ cl'.retry = cl.retry
        /\ cl'.socket = cl.socket /\ cl'.auto = cl.auto /\ cl'.reconnecting = cl.reconnecting
    BY <1>1, <1>2, <1>6, BeatTraces
  <2>2. QED
    BY <1>3, <2>1, PaceKept DEF Steady
<1>7. QED
  BY <1>2, <1>4, <1>5, <1>6 DEF BeatExpires

-----------------------------------------------------------------------------
(* Theorems                                                                *)

LEMMA InitInv ==
    ASSUME Init
    PROVE  Inv
<1>1. /\ 0 \in 0 .. MaxRetries /\ 0 \in 0 .. MaxFaults /\ setup \in Setups
      /\ 0 \in 0 .. MaxOps[setup]
  BY ClientAssumption DEF Init
<1>2. Rest
  BY <1>1 DEF Init, Rest
<1>3. cl \in Client /\ cl.socket = None /\ ~wanted
  BY <1>1 DEF Init, Client
<1>4. conn \in [Slots -> Socket] /\ Free0(conn) /\ refs \in SUBSET Topics
  BY GoneTyped DEF Init, Free0
<1>5. Core(cl, conn, refs)
  BY <1>3, <1>4, Alone
<1>6. QED
  BY <1>2, <1>3, <1>5 DEF Inv

LEMMA StepInv ==
    ASSUME Inv, [Next]_vars
    PROVE  Inv'
<1>1. CASE Next
  BY <1>1, StartKeeps, TokenKeeps, DestroyKeeps, UserKeeps, OpenedKeeps, ArriveKeeps, ServerKeeps,
     HeartbeatKeeps DEF Next, Works, Timers
<1>2. CASE UNCHANGED vars
  BY <1>2, Primed DEF vars, Inv, Rest, Going, GaveUp, Scheduled, Live
<1>3. QED
  BY <1>1, <1>2

LEMMA Invariance == Spec => []Inv
BY InitInv, StepInv, PTL DEF Spec

\* The client, its sockets and its counters have their types, for any number of
\* sockets, topics, calls, retries and faults.
THEOREM TypeCorrect == Spec => []TypeOK
<1>1. Inv => TypeOK
  BY DEF Inv, Rest, Core, TypeOK
<1>2. QED
  BY <1>1, Invariance, PTL

\* A client whose token is at hand has one connection, whatever timers, lost
\* ones among them, and calls of connect() and destroy() cross.
THEOREM SingleConnection == Spec => []OneConnection
<1>1. Inv => OneConnection
  BY DEF Inv, Core, Single, OneConnection
<1>2. QED
  BY <1>1, Invariance, PTL

\* A client that is to be connected never waits for nothing, in any set-up: it
\* has a live socket, an attempt to come, or has used up its retries, or its
\* token function has rejected.
THEOREM AlwaysTrying == Spec => []NeverStuck
<1>1. Inv => NeverStuck
  BY DEF Inv, Going, NeverStuck
<1>2. QED
  BY <1>1, Invariance, PTL

LEMMA InitPace == Init => Pace
BY DEF Init, Pace, InTurn, ByItself, Gone

LEMMA StepPace ==
    ASSUME Inv, Pace, [Next]_vars
    PROVE  Pace'
<1>1. CASE Next
  BY <1>1, QuietPace, AttemptPace, DestroyPace, OpenedPace, ClosedPace, HeartbeatPace
     DEF Next, Works, Timers
<1>2. CASE UNCHANGED vars
  BY <1>2 DEF vars, Pace, InTurn, ByItself
<1>3. QED
  BY <1>1, <1>2

\* A client that reconnects by itself loses no subscription, whatever the way its
\* token comes, when it was destroyed and connected again, and however often
\* connections are refused, lost or fall silent: unless the user called connect()
\* across an attempt to come, or the server did not listen yet.
THEOREM TopicsRestored == Spec => []Restored
<1>1. Inv /\ Pace => Restored
  <2> SUFFICES ASSUME Inv, Pace, wanted, ~cl.crossed, NEW s \in Slots,
                      conn[s].st = "open", ~conn[s].mute, conn[s].auto, ~conn[s].missed,
                      s = cl.socket, NEW t \in refs
               PROVE  Holds(conn[s], t)
    BY DEF Restored, Holds
  <2>1. conn[s].resumed
    BY DEF Pace, ByItself
  <2>2. QED
    BY <2>1 DEF Inv, Core, Kept, Resumed
<1>2. QED
  BY <1>1, Invariance, InitPace, StepPace, PTL DEF Spec

=============================================================================
