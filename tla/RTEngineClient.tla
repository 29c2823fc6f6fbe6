--------------------------- MODULE RTEngineClient ---------------------------
(***************************************************************************)
(* The client of the real-time engine (client/src/rtengine): one client    *)
(* object, the sockets it opens, its reconnection and heartbeat timers,    *)
(* its calls and its topics, against a server that answers, is slow to     *)
(* attach its listeners, goes away or falls silent.                        *)
(*                                                                         *)
(* Single threaded: a step is a call of the user, a callback of a socket,  *)
(* a timer, or the continuation of connect() after the token function.     *)
(* With params.worker the socket and its heartbeat live in a worker        *)
(* (worker.js); what the worker posts is handled in the step that caused   *)
(* it.  autoReconnect and heartbeat have their default, true.              *)
(***************************************************************************)
EXTENDS Integers, Sequences, FiniteSets

CONSTANTS
    Slots,       \* bound: sockets that exist at a time
    Topics,      \* the topics the user subscribes to
    Calls,       \* the calls of the user, all of one event
    None,        \* no socket
    Setups,      \* the ways the client may be set up
    MaxRetries,  \* params.maxConnectRetries
    Hooked,      \* the server has an onConnection hook that suspends
    Again,       \* connect() is called also on a client that is connected
    MaxFaults,   \* bound: connections that are refused, reset or fall silent
    MaxOps       \* bound: connect, destroy, subscribe, unsubscribe, for each set-up

(***************************************************************************)
(* static   params.token is a string, or there is none                     *)
(* async    it is a function that resolves                                 *)
(* failing  it is a function that may reject                               *)
(***************************************************************************)
Setup == [worker : BOOLEAN, token : {"static", "async", "failing"}]

\* A worker beats its own heart, and the model has one heartbeat: no two workers
\* are alive at a time, which a token that is awaited would allow.
ASSUME ClientAssumption ==
    /\ IsFiniteSet(Slots) /\ Slots # {} /\ None \notin Slots
    /\ Setups \subseteq Setup
    /\ \A h \in Setups : h.worker => h.token = "static"
    /\ MaxRetries \in Nat /\ MaxFaults \in Nat /\ MaxOps \in [Setups -> Nat]
    /\ Hooked \in BOOLEAN /\ Again \in BOOLEAN

VARIABLES
    setup,     \* how the client was set up
    conn,      \* the sockets, with both directions of their connections
    cl,        \* the client object and its timers
    awaits,    \* how many connect() wait for the token function
    refs,      \* topics.subscriptionsRefs
    calls,     \* the calls: "bare" is pending without its handler
    wanted,    \* the user's last word was connect(), not destroy()
    faults,    \* bounded by MaxFaults
    ops        \* bounded by MaxOps

vars == <<setup, conn, cl, awaits, refs, calls, wanted, faults, ops>>

Ping     == [kind |-> "ping"]
Pong     == [kind |-> "pong"]
Sub(S)   == [kind |-> "sub", topics |-> S]    \* one emit for each topic, back to back
Unsub(t) == [kind |-> "unsub", topic |-> t]
Unsubscribed(t) == [kind |-> "topic:unsubscribed", topic |-> t]
Call(c)  == [kind |-> "call", of |-> c]
Ack(c)   == [kind |-> "ack", of |-> c]

ToServer == {Ping} \cup {Sub(S) : S \in SUBSET Topics} \cup {Unsub(t) : t \in Topics}
                \cup {Call(c) : c \in Calls}
ToClient == {Pong} \cup {Unsubscribed(t) : t \in Topics} \cup {Ack(c) : c \in Calls}

(***************************************************************************)
(* st       readyState; "none" is a socket that is gone or has been let go *)
(* mute     the connection is dead and nobody was told                     *)
(* ready    the server listens to its messages                             *)
(* held     the topics the server keeps for it                             *)
(* History, that nothing in the code depends on:                           *)
(* auto     the attempt was made by a retry timer, not by the user         *)
(* resumed  opened while the client was reconnecting                       *)
(* missed   a message of it met no listener                                *)
(***************************************************************************)
Socket ==
    [st : {"none", "connecting", "open", "closing", "closed"}, mute : BOOLEAN, ready : BOOLEAN,
     held : SUBSET Topics, auto : BOOLEAN, resumed : BOOLEAN, missed : BOOLEAN, up : Seq(ToServer), down : Seq(ToClient)]

Gone == [st |-> "none", mute |-> FALSE, ready |-> FALSE, held |-> {}, auto |-> FALSE,
         resumed |-> FALSE, missed |-> FALSE, up |-> << >>, down |-> << >>]

(***************************************************************************)
(* pong     lastPong is not null (in worker mode: lastPongReceived)        *)
(* retry    the reconnection timer #reconnectTimer names, and lost ones    *)
(* beat     the heartbeat timer #heartbeatTimer names, and lost ones       *)
(* History, that nothing in the code depends on:                           *)
(* auto     the last connect() was that of a retry timer                   *)
(* denied   the last connect() that ended was refused its token            *)
(* crossed  the user called connect() while another attempt was to come    *)
(***************************************************************************)
Client ==
    [socket : Slots \cup {None}, connected : BOOLEAN, reconnecting : BOOLEAN,
     retries : 0 .. MaxRetries, aborted : BOOLEAN, pong : BOOLEAN,
     retry : BOOLEAN, lostRetries : Nat, beat : BOOLEAN, lostBeats : Nat,
     auto : BOOLEAN, denied : BOOLEAN, crossed : BOOLEAN]

Init ==
    /\ setup \in Setups
    /\ conn = [s \in Slots |-> Gone]
    /\ cl = [socket |-> None, connected |-> FALSE, reconnecting |-> FALSE, retries |-> 0,
             aborted |-> FALSE, pong |-> FALSE, retry |-> FALSE, lostRetries |-> 0,
             beat |-> FALSE, lostBeats |-> 0,
             auto |-> FALSE, denied |-> FALSE, crossed |-> FALSE]
    /\ awaits = 0
    /\ refs = {}
    /\ calls = [c \in Calls |-> "unsent"]
    /\ wanted = FALSE
    /\ faults = 0
    /\ ops = 0

-----------------------------------------------------------------------------
(* Pieces of the handlers: each takes the client c and the sockets k as    *)
(* it finds them.                                                          *)

\* emit's conditions; a worker is asked whenever the client counts as connected
CanEmit(c, k) ==
    /\ c.socket # None
    /\ IF setup.worker THEN c.connected ELSE k[c.socket].st = "open"

\* what is sent on a socket that is not open, or on a dead connection, is lost
Emit(c, k, m) ==
    IF CanEmit(c, k) /\ k[c.socket].st = "open" /\ ~k[c.socket].mute
    THEN [k EXCEPT ![c.socket].up = Append(@, m)]
    ELSE k

\* #cleanupSocket: nothing of the socket reaches the client any more
Detach(c, k) == IF c.socket = None THEN k ELSE [k EXCEPT ![c.socket] = Gone]

\* a terminated worker takes its heartbeat with it
Cleaned(c) == [c EXCEPT !.socket = None, !.beat = @ /\ (~setup.worker \/ c.socket = None)]

Free(k) == {s \in Slots : k[s].st = "none"}

\* connect(), once the token is there
Dial(c, k) ==
    /\ Free(k) # {}
    /\ LET s == CHOOSE s \in Free(k) : TRUE
       IN  /\ conn' = [k EXCEPT ![s] = [Gone EXCEPT !.st = "connecting", !.auto = c.auto]]
           /\ cl' = [c EXCEPT !.socket = s, !.denied = FALSE]

\* a connect() that does not close the socket it finds
StartConnectOver(c) ==
    IF setup.token = "static"
    THEN Dial([c EXCEPT !.aborted = FALSE], conn) /\ UNCHANGED awaits
    ELSE /\ conn' = conn
         /\ cl' = [c EXCEPT !.aborted = FALSE]
         /\ awaits' = awaits + 1

\* connect() up to the token, or to its end when the token is at hand
StartConnect(c) ==
    LET d == Cleaned([c EXCEPT !.aborted = FALSE])
    IN  IF setup.token = "static"
        THEN Dial(d, Detach(c, conn)) /\ UNCHANGED awaits
        ELSE /\ conn' = Detach(c, conn)
             /\ cl' = d
             /\ awaits' = awaits + 1

\* #heartbeat (doHeartbeat in the worker): ping and wait
Beating(c)    == c.connected /\ ~c.aborted
BeatClient(c) == IF Beating(c)
                 THEN [c EXCEPT !.pong = FALSE, !.beat = TRUE,
                                !.lostBeats = IF c.beat THEN @ + 1 ELSE @]
                 ELSE c
BeatConn(c, k) == IF Beating(c) THEN Emit(c, k, Ping) ELSE k

-----------------------------------------------------------------------------
(* The user                                                                *)

\* an attempt is to come: a timer is set, or connect() awaits the token
Scheduled == cl.retry \/ cl.lostRetries > 0 \/ awaits > 0

Operation == ops < MaxOps[setup] /\ ops' = ops + 1

Connect ==
    /\ Operation
    /\ wanted => Again
    /\ StartConnect([cl EXCEPT !.auto = FALSE, !.crossed = @ \/ Scheduled])
    /\ wanted' = TRUE
    /\ UNCHANGED <<setup, refs, calls, faults>>

TokenResolves ==
    /\ awaits > 0
    /\ Dial(cl, conn)
    /\ awaits' = awaits - 1
    /\ UNCHANGED <<setup, refs, calls, wanted, faults, ops>>

\* connect() ends: no socket, no retry
TokenRejects ==
    /\ awaits > 0
    /\ setup.token = "failing"
    /\ awaits' = awaits - 1
    /\ cl' = [cl EXCEPT !.denied = TRUE]
    /\ UNCHANGED <<setup, conn, refs, calls, wanted, faults, ops>>

\* destroy(): a client without a socket that is not reconnecting is left as it
\* is.  What unsubscribeAll sends is overtaken by the close.
DestroyLeaving(pending) ==
    /\ Operation
    /\ wanted' = FALSE
    /\ IF cl.socket = None /\ ~cl.reconnecting
       THEN UNCHANGED <<conn, cl, calls>>
       ELSE /\ conn' = Detach(cl, conn)
            /\ cl' = [Cleaned(cl) EXCEPT !.retry = FALSE, !.beat = FALSE, !.aborted = TRUE,
                                         !.reconnecting = FALSE, !.retries = 0]
            /\ calls' = [c \in Calls |-> IF calls[c] = "pending" THEN pending ELSE calls[c]]
    /\ UNCHANGED <<setup, awaits, refs, faults>>

\* one that clears the timeouts of the calls with their handlers
DestroyWithCalls == DestroyLeaving("hung")

Destroy == DestroyLeaving("bare")

Subscribe(t) ==
    /\ Operation
    /\ refs' = refs \cup {t}
    /\ conn' = Emit(cl, conn, Sub({t}))
    /\ UNCHANGED <<setup, cl, awaits, calls, wanted, faults>>

\* the reference stays until the server confirms
Unsubscribe(t) ==
    /\ Operation
    /\ conn' = Emit(cl, conn, Unsub(t))
    /\ UNCHANGED <<setup, cl, awaits, refs, calls, wanted, faults>>

MakeCall(c) ==
    /\ calls[c] = "unsent"
    /\ calls' = [calls EXCEPT ![c] = IF CanEmit(cl, conn) THEN "pending" ELSE "rejected"]
    /\ conn' = Emit(cl, conn, Call(c))
    /\ UNCHANGED <<setup, cl, awaits, refs, wanted, faults, ops>>

CallTimeout(c) ==
    /\ calls[c] \in {"pending", "bare"}
    /\ calls' = [calls EXCEPT ![c] = "rejected"]
    /\ UNCHANGED <<setup, conn, cl, awaits, refs, wanted, faults, ops>>

-----------------------------------------------------------------------------
(* The callbacks of the sockets                                            *)

\* handleOpen, with what it sends when it was reconnecting
OpenedSending(s, resubscribe) ==
    /\ conn[s].st = "connecting"
    /\ LET c  == [cl EXCEPT !.connected = TRUE, !.retries = 0, !.reconnecting = FALSE]
           k  == [conn EXCEPT ![s] = [Gone EXCEPT !.st = "open", !.auto = conn[s].auto,
                                                 !.resumed = cl.reconnecting]]
           kr == IF resubscribe THEN Emit(c, k, Sub(refs)) ELSE k
       IN  /\ cl' = BeatClient(c)
           /\ conn' = BeatConn(c, kr)
    /\ UNCHANGED <<setup, awaits, refs, calls, wanted, faults, ops>>

\* a handleOpen that clears reconnecting before it looks at it
OpenedForgetting(s) == OpenedSending(s, FALSE)

\* regenerate() repeats every subscription on the new connection
Opened(s) == OpenedSending(s, cl.reconnecting)

\* tryReconnect looks at the socket of the client, which is another one when
\* two were opened side by side
AlreadyConnecting(s, c) ==
    /\ c.reconnecting /\ ~setup.worker
    /\ c.socket \notin {None, s} /\ conn[c.socket].st = "connecting"

\* the client when its socket has closed
Closed == [cl EXCEPT !.connected = FALSE, !.beat = FALSE]

\* the socket s has closed: handleClose, and tryReconnect unless it ends early
HandleCloseUnless(s, stop) ==
    LET k == [conn EXCEPT ![s] = IF s = cl.socket THEN [Gone EXCEPT !.st = "closed"] ELSE Gone]
    IN  IF stop
        THEN cl' = Closed /\ conn' = k
        ELSE /\ cl' = [Cleaned(Closed) EXCEPT !.retries = @ + 1, !.reconnecting = TRUE, !.retry = TRUE,
                                              !.lostRetries = IF cl.retry THEN @ + 1 ELSE @]
             /\ conn' = Detach(Closed, k)

\* a tryReconnect that counts one attempt too many
HandleCloseOneMore(s) ==
    HandleCloseUnless(s, cl.aborted \/ AlreadyConnecting(s, cl) \/ cl.retries > MaxRetries)

\* one that takes an attempt for scheduled when the client is reconnecting
HandleCloseOnce(s) ==
    HandleCloseUnless(s, cl.aborted \/ cl.reconnecting \/ cl.retries = MaxRetries)

HandleClose(s) ==
    HandleCloseUnless(s, cl.aborted \/ AlreadyConnecting(s, cl) \/ cl.retries = MaxRetries)

CloseEvent(s) ==
    /\ conn[s].st = "closing"
    /\ HandleClose(s)
    /\ UNCHANGED <<setup, awaits, refs, calls, wanted, faults, ops>>

\* the server refuses, restarts or closes, or the network tells of a loss
Lose(s) ==
    /\ conn[s].st \in {"connecting", "open"}
    /\ faults < MaxFaults
    /\ faults' = faults + 1
    /\ HandleClose(s)
    /\ UNCHANGED <<setup, awaits, refs, calls, wanted, ops>>

\* the connection dies and neither end is told
Mute(s) ==
    /\ conn[s].st = "open" /\ ~conn[s].mute
    /\ faults < MaxFaults
    /\ faults' = faults + 1
    /\ conn' = [conn EXCEPT ![s].mute = TRUE, ![s].up = << >>, ![s].down = << >>]
    /\ UNCHANGED <<setup, cl, awaits, refs, calls, wanted, ops>>

\* handleMessage.  An ack goes to every call of its event that has a handler.
Receive(s) ==
    /\ conn[s].st = "open"
    /\ conn[s].down # << >>
    /\ LET m == Head(conn[s].down)
       IN  /\ cl' = IF m = Pong THEN [cl EXCEPT !.pong = TRUE] ELSE cl
           /\ refs' = refs \ {t \in Topics : m = Unsubscribed(t)}
           /\ calls' = IF m.kind = "ack"
                       THEN [c \in Calls |-> IF calls[c] = "pending" THEN "resolved" ELSE calls[c]]
                       ELSE calls
    /\ conn' = [conn EXCEPT ![s].down = Tail(@)]
    /\ UNCHANGED <<setup, awaits, wanted, faults, ops>>

-----------------------------------------------------------------------------
(* The timers                                                              *)

\* the timer #reconnectTimer names
RetryTimer ==
    /\ cl.retry
    /\ StartConnect([cl EXCEPT !.retry = FALSE, !.auto = TRUE])
    /\ UNCHANGED <<setup, refs, calls, wanted, faults, ops>>

\* one that a later tryReconnect has overwritten: no destroy() clears it
LostRetryTimer ==
    /\ cl.lostRetries > 0
    /\ StartConnect([cl EXCEPT !.lostRetries = @ - 1, !.auto = TRUE])
    /\ UNCHANGED <<setup, refs, calls, wanted, faults, ops>>

\* a heartbeat that beats again whatever it heard
BeatExpiresDeaf(c) ==
    /\ cl' = BeatClient(c) /\ conn' = BeatConn(c, conn)
    /\ UNCHANGED <<setup, awaits, refs, calls, wanted, faults, ops>>

\* no pong since the ping: close, which leads to the close event.  In the
\* worker a socket that is not open ends the heartbeat.
BeatExpires(c) ==
    /\ IF c.aborted \/ (setup.worker /\ conn[c.socket].st # "open")
       THEN cl' = c /\ UNCHANGED conn
       ELSE IF ~c.pong
       THEN /\ cl' = c
            /\ conn' = [s \in Slots |-> IF s = c.socket /\ conn[s].st \in {"connecting", "open"}
                                        THEN [conn[s] EXCEPT !.st = "closing"]
                                        ELSE conn[s]]
       ELSE cl' = BeatClient(c) /\ conn' = BeatConn(c, conn)
    /\ UNCHANGED <<setup, awaits, refs, calls, wanted, faults, ops>>

\* the timeout of 10 s is longer than a round trip on a connection that works
Answering ==
    /\ cl.socket # None
    /\ \/ \E i \in 1 .. Len(conn[cl.socket].up) : conn[cl.socket].up[i] = Ping
       \/ \E i \in 1 .. Len(conn[cl.socket].down) : conn[cl.socket].down[i] = Pong

HeartbeatTimer ==
    /\ cl.beat
    /\ ~Answering
    /\ BeatExpires([cl EXCEPT !.beat = FALSE])

\* one that a later heartbeat has overwritten started before the last ping
LostHeartbeatTimer ==
    /\ cl.lostBeats > 0
    /\ BeatExpires([cl EXCEPT !.lostBeats = @ - 1])

-----------------------------------------------------------------------------
(* The server (RTEngine): what comes before handleConnection is through    *)
(* meets no listener, which needs a hook that suspends; then it answers    *)
(* in order                                                                *)

ServerReady(s) ==
    /\ conn[s].st = "open" /\ ~conn[s].mute /\ ~conn[s].ready
    /\ conn' = [conn EXCEPT ![s].ready = TRUE]
    /\ UNCHANGED <<setup, cl, awaits, refs, calls, wanted, faults, ops>>

ServerTakes(s) ==
    /\ conn[s].st = "open"
    /\ conn[s].up # << >>
    /\ conn[s].ready \/ Hooked
    /\ LET m == Head(conn[s].up)
           rest == [conn[s] EXCEPT !.up = Tail(@)]
       IN  conn' = [conn EXCEPT ![s] =
             IF ~rest.ready THEN [rest EXCEPT !.missed = TRUE]
             ELSE CASE m.kind = "ping"  -> [rest EXCEPT !.down = Append(@, Pong)]
                    [] m.kind = "sub"   -> [rest EXCEPT !.held = @ \cup m.topics]
                    [] m.kind = "unsub" -> [rest EXCEPT !.held = @ \ {m.topic},
                                                        !.down = Append(@, Unsubscribed(m.topic))]
                    [] m.kind = "call"  -> [rest EXCEPT !.down = Append(@, Ack(m.of))]]
    /\ UNCHANGED <<setup, cl, awaits, refs, calls, wanted, faults, ops>>

-----------------------------------------------------------------------------
Works(s) == Opened(s) \/ CloseEvent(s) \/ Receive(s) \/ ServerReady(s) \/ ServerTakes(s)
Timers   == RetryTimer \/ LostRetryTimer \/ HeartbeatTimer \/ LostHeartbeatTimer

Next ==
    \/ Connect \/ Destroy \/ TokenResolves \/ TokenRejects \/ Timers
    \/ \E t \in Topics : Subscribe(t) \/ Unsubscribe(t)
    \/ \E c \in Calls : MakeCall(c) \/ CallTimeout(c)
    \/ \E s \in Slots : Works(s) \/ Lose(s) \/ Mute(s)

\* sockets, tokens and timers take their course; the user need not do anything
Fairness ==
    /\ \A s \in Slots : WF_vars(Works(s))
    /\ \A c \in Calls : WF_vars(CallTimeout(c))
    /\ WF_vars(TokenResolves \/ TokenRejects)
    /\ WF_vars(RetryTimer) /\ WF_vars(LostRetryTimer)
    /\ WF_vars(HeartbeatTimer) /\ WF_vars(LostHeartbeatTimer)

Spec == Init /\ [][Next]_vars /\ Fairness

-----------------------------------------------------------------------------
(* Properties                                                              *)

\* The client object, its sockets and its bounded counters have their types.
TypeOK ==
    /\ setup \in Setups
    /\ conn \in [Slots -> Socket]
    /\ cl \in Client
    /\ awaits \in Nat
    /\ refs \subseteq Topics
    /\ calls \in [Calls -> {"unsent", "pending", "bare", "resolved", "rejected"}]
    /\ wanted \in BOOLEAN
    /\ faults \in 0 .. MaxFaults /\ ops \in 0 .. MaxOps[setup]

Live(s) == conn[s].st \in {"connecting", "open", "closing"}

\* "Automatically disconnects any existing connection first": whatever timers
\* and calls of connect() cross, no socket but the client's own is alive, when
\* the token is at hand.
OneConnection ==
    setup.token = "static" => \A s \in Slots : conn[s].st # "none" => s = cl.socket

GaveUp == cl.retries = MaxRetries /\ (cl.socket = None \/ ~Live(cl.socket))

\* A client that is to be connected and has no live socket has a further
\* attempt coming, unless it has used up its retries or its token function has
\* rejected: connect() then returns without a retry, and the client stays as it
\* is until the user calls connect() again.
NeverStuck ==
    wanted => GaveUp \/ Scheduled \/ cl.denied \/ \E s \in Slots : Live(s)

\* When the client has reconnected by itself, the server keeps every topic the
\* client counts on, or is about to.  Two things are in the way of that: a user
\* who calls connect() while an attempt is to come, since the timer that is left
\* over replaces the new connection by one on which nothing is repeated; and a
\* server that does not listen yet.
Restored ==
    wanted /\ ~cl.crossed =>
        \A s \in Slots :
            conn[s].st = "open" /\ ~conn[s].mute /\ conn[s].auto /\ ~conn[s].missed /\ s = cl.socket =>
                \A t \in refs :
                    \/ t \in conn[s].held
                    \/ \E i \in 1 .. Len(conn[s].up) :
                            conn[s].up[i].kind = "sub" /\ t \in conn[s].up[i].topics
                    \/ \E i \in 1 .. Len(conn[s].down) : conn[s].down[i] = Unsubscribed(t)

\* "Permanently close the client connection, cancels any pending reconnection
\* attempts": no socket outlives destroy(), or is opened after it.
DestroyIsFinal == ~wanted => \A s \in Slots : ~Live(s)

\* "if no last pong is received, it means the connection is lost or the latency
\* is too high": the heartbeat closes no connection that works.
NoPongMeansLost ==
    [][\A s \in Slots : conn[s].st = "open" /\ conn'[s].st = "closing" => conn[s].mute]_vars

Connected == cl.socket # None /\ conn[cl.socket].st = "open" /\ ~conn[cl.socket].mute

\* Once connections stop failing the client is connected and stays so, unless
\* it was destroyed or gave up: a dead connection is noticed, an attempt that
\* fails is repeated, and no timer that is left over keeps tearing it down.
\* (When the token is awaited two sockets can be open side by side, and the
\* client be left with the dead one.)
Settles == <>[](Connected \/ ~wanted \/ GaveUp \/ setup.token # "static")

\* Every call is settled, also when its connection is lost, replaced or destroyed.
CallsSettle == \A c \in Calls : calls[c] # "unsent" ~> calls[c] \in {"resolved", "rejected"}

=============================================================================
