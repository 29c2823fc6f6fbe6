--------------------------- MODULE RTEngineProofs ---------------------------
(***************************************************************************)
(* Proofs about RTEngine: its types, which clients are in the collection,  *)
(* and that a client hears first, and once, that it is connected.          *)
(***************************************************************************)
EXTENDS RTEngine, TLAPS

\* What a client has heard so far: nothing, or "connected" and then the rest.
Heard(q) == \A i \in 1 .. Len(q) : q[i] = Connected <=> i = 1

(***************************************************************************)
(* The strengthening.  Whatever reaches a socket is open and through       *)
(* handleConnection: the members of a topic, the clients of the collection *)
(* and the sockets whose messages have a handler.                          *)
(***************************************************************************)
Lifecycle(s) ==
    /\ s \in clients <=> Ready(s) /\ sock[s].disc # "done"
    /\ sock[s].disc # "none" => Ready(s) /\ sock[s].ws = "closed"
    /\ sock[s].ws \in {"none", "asked", "refused"} => sock[s].conn = "none"
    /\ sock[s].topics # {} => Ready(s) /\ Open(s)

Inbox(s) ==
    /\ ~Ready(s) => out[s] = << >>
    /\ Ready(s) /\ Open(s) => out[s] # << >>
    /\ Heard(out[s])

Served(r) == req[r].st = "running" => Ready(From[r])

Inv ==
    /\ TypeOK
    /\ \A s \in Sockets : Lifecycle(s) /\ Inbox(s)
    /\ \A r \in Requests : Served(r)

-----------------------------------------------------------------------------
(* Messages                                                                *)

\* "connected" is one message of its own among those the engine sends.
LEMMA Kinds ==
    /\ Connected \in Messages /\ Reply \in Messages \ {Connected}
    /\ \A t \in Topics : Subscribed(t) \in Messages \ {Connected}
                         /\ Unsubscribed(t) \in Messages \ {Connected}
    /\ \A r \in Requests : Event(r) \in Messages \ {Connected}
                           /\ Ack(r) \in Messages \ {Connected}
    /\ \A r \in Requests, t \in Topics : Published(r, t) \in Messages \ {Connected}
<1>1. Reply # Connected
  BY DEF Reply, Connected
<1>2. \A t : Subscribed(t) # Connected /\ Unsubscribed(t) # Connected
  BY DEF Subscribed, Unsubscribed, Connected
<1>3. \A r : Event(r) # Connected /\ Ack(r) # Connected
  BY DEF Event, Ack, Connected
<1>4. \A r, t : Published(r, t) # Connected
  BY DEF Published, Connected
<1>5. Connected \in Messages /\ Reply \in Messages
  BY DEF Messages
<1>6. \A t \in Topics : Subscribed(t) \in Messages /\ Unsubscribed(t) \in Messages
  BY DEF Messages
<1>7. \A r \in Requests : Event(r) \in Messages /\ Ack(r) \in Messages
  BY DEF Messages
<1>8. \A r \in Requests, t \in Topics : Published(r, t) \in Messages
  BY DEF Messages
<1>9. QED
  BY <1>1, <1>2, <1>3, <1>4, <1>5, <1>6, <1>7, <1>8

\* Once it is connected, a client may hear anything else.
LEMMA HeardMore ==
    ASSUME NEW q \in Seq(Messages), q # << >>, Heard(q), NEW m \in Messages \ {Connected}
    PROVE  Append(q, m) \in Seq(Messages) /\ Append(q, m) # << >> /\ Heard(Append(q, m))
<1>1. Len(q) \in Nat /\ Len(q) >= 1
  OBVIOUS
<1>2. /\ Append(q, m) \in Seq(Messages)
      /\ Len(Append(q, m)) = Len(q) + 1
      /\ \A i \in 1 .. Len(q) : Append(q, m)[i] = q[i]
      /\ Append(q, m)[Len(q) + 1] = m
  OBVIOUS
<1>3. QED
  BY <1>1, <1>2 DEF Heard

\* The first message to a client is that it is connected.
LEMMA HeardFirst ==
    /\ Heard(<< >>)
    /\ Append(<< >>, Connected) \in Seq(Messages)
    /\ Append(<< >>, Connected) # << >> /\ Heard(Append(<< >>, Connected))
<1>1. Connected \in Messages
  BY Kinds
<1>2. Append(<< >>, Connected) = << Connected >>
  OBVIOUS
<1>3. QED
  BY <1>1, <1>2 DEF Heard

\* A step in which connected clients hear something and nobody else does.
Speaks ==
    /\ out' = [s \in Sockets |-> out'[s]]
    /\ \A s \in Sockets :
          \/ out'[s] = out[s]
          \/ /\ Open(s) /\ Ready(s)
             /\ \E m \in Messages \ {Connected} : out'[s] = Append(out[s], m)

LEMMA SpeaksKeeps ==
    ASSUME Inv, Speaks
    PROVE  /\ out' \in [Sockets -> Seq(Messages)]
           /\ \A s \in Sockets : /\ Heard(out'[s])
                                 /\ out[s] # << >> => out'[s] # << >>
                                 /\ ~Ready(s) => out'[s] = << >>
<1>1. ASSUME NEW s \in Sockets
      PROVE  /\ out'[s] \in Seq(Messages) /\ Heard(out'[s])
             /\ out[s] # << >> => out'[s] # << >>
             /\ ~Ready(s) => out'[s] = << >>
  <2>1. out[s] \in Seq(Messages) /\ Heard(out[s])
        /\ (~Ready(s) => out[s] = << >>) /\ (Ready(s) /\ Open(s) => out[s] # << >>)
    BY DEF Inv, TypeOK, Inbox
  <2>2. CASE out'[s] = out[s]
    BY <2>1, <2>2
  <2>3. ASSUME Open(s), Ready(s), NEW m \in Messages \ {Connected}, out'[s] = Append(out[s], m)
        PROVE  out'[s] \in Seq(Messages) /\ out'[s] # << >> /\ Heard(out'[s])
    BY <2>1, <2>3, HeardMore
  <2>4. QED
    BY <2>2, <2>3 DEF Speaks
<1>2. QED
  BY <1>1 DEF Speaks

\* Websocket.send to connected clients, or to none, is such a step.
LEMMA SendSpeaks ==
    ASSUME Inv, NEW S, NEW m \in Messages \ {Connected}, Send(S, m),
           \A s \in S \cap Sockets : Ready(s)
    PROVE  Speaks
BY DEF Send, Speaks

\* The connections are left alone while clients hear things.
LEMMA StillConnected ==
    ASSUME Inv, Speaks, UNCHANGED <<sock, clients>>
    PROVE  \A s \in Sockets : Lifecycle(s)' /\ Inbox(s)'
BY SpeaksKeeps DEF Inv, Lifecycle, Inbox, Ready, Open

\* What the steps of a request have in common.
RequestStep(r) ==
    /\ Speaks
    /\ req' = [q \in Requests |-> req'[q]]
    /\ \A q \in Requests : req'[q] \in ReqState /\ req'[q].n <= MaxSteps[q]
    /\ \A q \in Requests : req'[q].st = "running" => req[q].st = "running" \/ Ready(From[q])
    /\ UNCHANGED <<clients, up>>

LEMMA RequestKeeps ==
    ASSUME Inv, NEW r \in Requests, RequestStep(r), UNCHANGED sock
    PROVE  Inv'
<1>1. \A s \in Sockets : Lifecycle(s)' /\ Inbox(s)'
  BY StillConnected DEF RequestStep
<1>2. TypeOK'
  BY SpeaksKeeps DEF Inv, TypeOK, RequestStep
<1>3. \A q \in Requests : Served(q)'
  BY DEF Inv, Served, RequestStep, Ready
<1>4. QED
  BY <1>1, <1>2, <1>3 DEF Inv

\* A handler that calls its client: the request goes on, nothing else changes.
LEMMA CallsStep ==
    ASSUME Inv, NEW r \in Requests, Calls(r), Speaks
    PROVE  RequestStep(r) /\ Ready(From[r]) /\ From[r] \in Sockets
<1>1. From[r] \in Sockets /\ MaxSteps[r] \in Nat
  BY EngineAssumption
<1>2. req \in [Requests -> ReqState] /\ req[r].n \in Nat /\ req[r].n < MaxSteps[r]
  BY DEF Inv, TypeOK, ReqState, Calls
<1>3. [req[r] EXCEPT !.n = @ + 1] \in ReqState
      /\ [req[r] EXCEPT !.n = @ + 1].n = req[r].n + 1
      /\ [req[r] EXCEPT !.n = @ + 1].st = req[r].st
  BY <1>2 DEF ReqState
<1>4. req' = [req EXCEPT ![r] = [req[r] EXCEPT !.n = @ + 1]]
  BY DEF Calls
<1>5. \A q \in Requests : req'[q].n <= MaxSteps[q]
  BY <1>1, <1>2, <1>3, <1>4 DEF Inv, TypeOK
<1>6. \A q \in Requests : req'[q] \in ReqState
  BY <1>2, <1>3, <1>4
<1>7. \A q \in Requests : req'[q].st = req[q].st
  BY <1>2, <1>3, <1>4
<1>8. QED
  BY <1>1, <1>2, <1>4, <1>5, <1>6, <1>7 DEF RequestStep, Inv, Served, Calls

\* The topics of a connected socket change, and nothing else about a socket.
LEMMA TopicsKeep ==
    ASSUME Inv, NEW r \in Requests, RequestStep(r), From[r] \in Sockets,
           Ready(From[r]), Open(From[r]),
           NEW T \in SUBSET Topics, sock' = [sock EXCEPT ![From[r]].topics = T]
    PROVE  Inv'
<1>1. /\ sock \in [Sockets -> SockState]
      /\ sock' = [sock EXCEPT ![From[r]] = [sock[From[r]] EXCEPT !.topics = T]]
  BY DEF Inv, TypeOK
<1>2. [sock[From[r]] EXCEPT !.topics = T] \in SockState
  BY <1>1 DEF SockState
<1>3. \A s \in Sockets : /\ sock'[s].ws = sock[s].ws /\ sock'[s].conn = sock[s].conn
                         /\ sock'[s].disc = sock[s].disc
                         /\ sock'[s].topics # sock[s].topics => s = From[r]
  BY <1>1 DEF SockState
<1>4. \A s \in Sockets : Lifecycle(s)' /\ Inbox(s)'
  BY <1>3, SpeaksKeeps DEF Inv, Lifecycle, Inbox, Ready, Open, RequestStep
<1>5. TypeOK'
  BY <1>1, <1>2, SpeaksKeeps DEF Inv, TypeOK, RequestStep
<1>6. \A q \in Requests : Served(q)'
  BY <1>3, EngineAssumption DEF Inv, Served, RequestStep, Ready
<1>7. QED
  BY <1>4, <1>5, <1>6 DEF Inv

LEMMA RequestInv ==
    ASSUME Inv, NEW r \in Requests, Request(r)
    PROVE  Inv'
<1> USE Kinds
<1>0. /\ From[r] \in Sockets
      /\ req \in [Requests -> ReqState]
      /\ \A q \in Requests : req[q].n <= MaxSteps[q]
      /\ req[r].st = "running" => Ready(From[r])
      /\ \A s \in clients : s \in Sockets /\ Ready(s)
      /\ \A t, s : s \in Members(t) => Ready(s) /\ Open(s)
  BY EngineAssumption DEF Inv, TypeOK, Served, Lifecycle, Members
<1>1. CASE ReceiveLost(r)
  <2>1. Speaks
    BY <1>1 DEF ReceiveLost, Speaks, Inv, TypeOK
  <2>2. RequestStep(r)
    BY <1>0, <1>1, <2>1 DEF ReceiveLost, RequestStep, ReqState
  <2>3. QED
    BY <1>1, <2>2, RequestKeeps DEF ReceiveLost
<1>2. CASE Receive(r)
  <2>1. Speaks
    BY <1>2 DEF Receive, Speaks, Inv, TypeOK
  <2>2. RequestStep(r)
    <3>1. PICK ack \in BOOLEAN : req' = [req EXCEPT ![r].st = "running", ![r].ack = ack]
      BY <1>2 DEF Receive
    <3>2. QED
      BY <1>0, <1>2, <2>1, <3>1 DEF Receive, RequestStep, ReqState
  <2>3. QED
    BY <1>2, <2>2, RequestKeeps DEF Receive
<1>3. CASE ReceiveOther(r)
  <2>1. Speaks
    BY <1>0, <1>3, SendSpeaks DEF ReceiveOther, Speaks, Inv, TypeOK
  <2>2. RequestStep(r)
    BY <1>0, <1>3, <2>1 DEF ReceiveOther, RequestStep, ReqState
  <2>3. QED
    BY <1>3, <2>2, RequestKeeps DEF ReceiveOther
<1>4. CASE HandlerEnd(r)
  <2>1. Speaks
    BY <1>0, <1>4, SendSpeaks DEF HandlerEnd
  <2>2. RequestStep(r)
    BY <1>0, <1>4, <2>1 DEF HandlerEnd, Finish, RequestStep, ReqState
  <2>3. QED
    BY <1>4, <2>2, RequestKeeps DEF HandlerEnd
<1>5. CASE Emit(r)
  <2>1. Speaks
    BY <1>0, <1>5, SendSpeaks DEF Emit, Calls
  <2>2. QED
    BY <1>5, <2>1, CallsStep, RequestKeeps DEF Emit
<1>6. ASSUME NEW t \in Topics, Subscribe(r, t) \/ Unsubscribe(r, t)
      PROVE  Inv'
  <2>1. Calls(r) /\ \E m \in {Subscribed(t), Unsubscribed(t)} : Send({From[r]}, m)
    BY <1>6 DEF Subscribe, Unsubscribe
  <2>2. Speaks
    BY <1>0, <2>1, SendSpeaks DEF Calls
  <2>3. RequestStep(r) /\ Ready(From[r])
    BY <2>1, <2>2, CallsStep
  <2>4. CASE sock' = sock
    BY <2>3, <2>4, RequestKeeps
  <2>5. sock[From[r]].topics \subseteq Topics
    BY <1>0 DEF Inv, TypeOK, SockState
  <2>6. CASE Open(From[r]) /\ Subscribe(r, t)
    <3> DEFINE T == sock[From[r]].topics \cup {t}
    <3>1. T \in SUBSET Topics /\ sock' = [sock EXCEPT ![From[r]].topics = T]
      BY <2>5, <2>6 DEF Subscribe
    <3>2. QED
      BY <1>0, <2>3, <2>6, <3>1, TopicsKeep
  <2>7. CASE Open(From[r]) /\ Unsubscribe(r, t)
    <3> DEFINE T == sock[From[r]].topics \ {t}
    <3>1. T \in SUBSET Topics /\ sock' = [sock EXCEPT ![From[r]].topics = T]
      BY <2>5, <2>7 DEF Unsubscribe
    <3>2. QED
      BY <1>0, <2>3, <2>7, <3>1, TopicsKeep
  <2>8. QED
    BY <1>6, <2>4, <2>6, <2>7 DEF Subscribe, Unsubscribe
<1>7. ASSUME NEW t \in Topics, ToTopic(r, t)
      PROVE  Inv'
  <2>1. Speaks
    <3>1. PICK self \in BOOLEAN :
             out' = [s \in Sockets |->
                       IF ~Open(From[r]) THEN out[s]
                       ELSE IF s = From[r] THEN IF self THEN Append(out[s], Event(r)) ELSE out[s]
                       ELSE IF s \in Members(t) THEN Append(out[s], Published(r, t))
                       ELSE out[s]]
      BY <1>7 DEF ToTopic
    <3>2. Ready(From[r]) /\ Event(r) \in Messages \ {Connected}
          /\ Published(r, t) \in Messages \ {Connected}
      BY <1>0, <1>7 DEF ToTopic, Calls
    <3>3. ASSUME NEW s \in Sockets
          PROVE  \/ out'[s] = out[s]
                 \/ /\ Open(s) /\ Ready(s)
                    /\ \E m \in Messages \ {Connected} : out'[s] = Append(out[s], m)
      <4>1. CASE self
        BY <1>0, <3>1, <3>2, <4>1
      <4>2. CASE ~self
        BY <1>0, <3>1, <3>2, <4>2
      <4>3. QED
        BY <4>1, <4>2
    <3>4. out' = [s \in Sockets |-> out'[s]]
      BY <3>1
    <3>5. QED
      BY <3>3, <3>4 DEF Speaks
  <2>2. QED
    BY <1>7, <2>1, CallsStep, RequestKeeps DEF ToTopic
<1>8. ASSUME NEW t \in Topics, SendToTopic(r, t)
      PROVE  Inv'
  <2>1. Speaks
    BY <1>0, <1>8, SendSpeaks DEF SendToTopic
  <2>2. QED
    BY <1>8, <2>1, CallsStep, RequestKeeps DEF SendToTopic
<1>9. ASSUME NEW s \in Sockets, SendToUserId(r, s) \/ SendToClientId(r, s)
      PROVE  Inv'
  <2>1. Speaks
    BY <1>0, <1>9, SendSpeaks DEF SendToUserId, SendToClientId
  <2>2. QED
    BY <1>9, <2>1, CallsStep, RequestKeeps DEF SendToUserId, SendToClientId
<1>10. QED
  BY <1>1, <1>2, <1>3, <1>4, <1>5, <1>6, <1>7, <1>8, <1>9 DEF Request

-----------------------------------------------------------------------------
(* Sockets                                                                 *)

\* A step that concerns one socket and brings it nothing.
LEMMA SilentKeeps ==
    ASSUME Inv, NEW s \in Sockets, NEW v \in SockState, sock' = [sock EXCEPT ![s] = v],
           clients' \in {clients, clients \ {s}},
           v.conn = sock[s].conn, v.ws = "open" => Open(s), v.topics = {},
           v.disc # "none" => Ready(s) /\ v.ws = "closed",
           v.ws \in {"none", "asked", "refused"} => v.conn = "none",
           s \in clients' <=> v.conn = "ready" /\ v.disc # "done",
           UNCHANGED <<req, out, up>>
    PROVE  Inv'
<1>1. sock \in [Sockets -> SockState] /\ sock' \in [Sockets -> SockState]
      /\ sock'[s] = v /\ \A c \in Sockets \ {s} : sock'[c] = sock[c]
  BY DEF Inv, TypeOK
<1>2. TypeOK'
  BY <1>1 DEF Inv, TypeOK
<1>3. \A c \in Sockets : Lifecycle(c)'
  BY <1>1 DEF Inv, Lifecycle, Ready, Open
<1>4. \A c \in Sockets : Inbox(c)'
  BY <1>1 DEF Inv, Inbox, Ready, Open
<1>5. \A r \in Requests : Served(r)'
  BY <1>1, EngineAssumption DEF Inv, Served, Ready
<1>6. QED
  BY <1>2, <1>3, <1>4, <1>5 DEF Inv

\* handleConnection begins on a socket that has just been opened.
LEMMA ConnectKeeps ==
    ASSUME Inv, NEW s \in Sockets, sock[s].ws \in {"none", "asked"}, Connect(s)
    PROVE  Inv'
<1>1. sock \in [Sockets -> SockState] /\ sock[s] \in SockState
  BY DEF Inv, TypeOK
<1>2. /\ sock[s].conn = "none" /\ sock[s].disc = "none" /\ sock[s].topics = {}
      /\ out[s] = << >> /\ s \notin clients
  BY <1>1 DEF Inv, Lifecycle, Inbox, Ready, SockState
<1>3. CASE "connection" \in Hooks
  <2> DEFINE v == [sock[s] EXCEPT !.ws = "open", !.conn = "hook"]
  <2>1. sock' = [sock EXCEPT ![s] = v] /\ UNCHANGED <<clients, req, out, up>>
    BY <1>1, <1>3 DEF Connect
  <2>2. v \in SockState /\ v.ws = "open" /\ v.conn = "hook" /\ v.disc = "none" /\ v.topics = {}
    BY <1>1, <1>2 DEF SockState
  <2> HIDE DEF v
  <2>3. sock'[s] = v /\ \A c \in Sockets \ {s} : sock'[c] = sock[c]
    BY <1>1, <2>1
  <2>4. TypeOK'
    BY <1>1, <2>1, <2>2 DEF Inv, TypeOK
  <2>5. \A c \in Sockets : Lifecycle(c)' /\ Inbox(c)'
    BY <1>2, <2>1, <2>2, <2>3, HeardFirst DEF Inv, Lifecycle, Inbox, Ready, Open
  <2>6. \A r \in Requests : Served(r)'
    BY <1>2, <2>1, <2>2, <2>3, EngineAssumption DEF Inv, Served, Ready
  <2>7. QED
    BY <2>4, <2>5, <2>6 DEF Inv
<1>4. CASE "connection" \notin Hooks
  <2> DEFINE v == [sock[s] EXCEPT !.ws = "open", !.conn = "ready"]
  <2>1. sock' = [sock EXCEPT ![s] = v] /\ clients' = clients \cup {s} /\ UNCHANGED <<req, up>>
    BY <1>1, <1>4 DEF Connect
  <2>2. v \in SockState /\ v.ws = "open" /\ v.conn = "ready" /\ v.disc = "none" /\ v.topics = {}
    BY <1>1, <1>2 DEF SockState
  <2> HIDE DEF v
  <2>3. sock'[s] = v /\ \A c \in Sockets \ {s} : sock'[c] = sock[c]
    BY <1>1, <2>1
  <2>4. out \in [Sockets -> Seq(Messages)] /\ out' = [out EXCEPT ![s] = Append(<< >>, Connected)]
    BY <1>2, <1>4 DEF Connect, Inv, TypeOK
  <2>5. out' \in [Sockets -> Seq(Messages)] /\ out'[s] = Append(<< >>, Connected)
        /\ \A c \in Sockets \ {s} : out'[c] = out[c]
    BY <2>4, HeardFirst
  <2>6. TypeOK'
    BY <1>1, <2>1, <2>2, <2>5 DEF Inv, TypeOK
  <2>7. ASSUME NEW c \in Sockets
        PROVE  Lifecycle(c)' /\ Inbox(c)'
    <3>1. CASE c = s
      <4>1. Lifecycle(c)'
        BY <2>1, <2>2, <2>3, <3>1 DEF Lifecycle, Ready, Open
      <4>2. Ready(c)' /\ out'[c] # << >> /\ Heard(out'[c])
        BY <2>2, <2>3, <2>5, <3>1, HeardFirst DEF Ready
      <4>3. QED
        BY <4>1, <4>2 DEF Inbox
    <3>2. CASE c # s
      BY <2>1, <2>3, <2>5, <3>2 DEF Inv, Lifecycle, Inbox, Ready, Open
    <3>3. QED
      BY <3>1, <3>2
  <2>8. \A r \in Requests : Served(r)'
    BY <2>1, <2>2, <2>3, EngineAssumption DEF Inv, Served, Ready
  <2>9. QED
    BY <2>6, <2>7, <2>8 DEF Inv
<1>5. QED
  BY <1>3, <1>4

\* The hook of a socket returns: it is open still, or gone.
LEMMA HookKeeps ==
    ASSUME Inv, NEW s \in Sockets, ConnectionHook(s)
    PROVE  Inv'
<1> DEFINE v == [sock[s] EXCEPT !.conn = "ready"]
<1>1. sock \in [Sockets -> SockState] /\ sock[s] \in SockState
  BY DEF Inv, TypeOK
<1>2. sock[s].disc = "none" /\ sock[s].topics = {} /\ out[s] = << >> /\ s \notin clients
      /\ sock[s].ws \in {"open", "closed"}
  BY <1>1 DEF Inv, Lifecycle, Inbox, Ready, SockState, ConnectionHook
<1>3. sock' = [sock EXCEPT ![s] = v] /\ clients' = clients \cup {s} /\ UNCHANGED <<req, up>>
  BY <1>1 DEF ConnectionHook
<1>4. v \in SockState /\ v.ws = sock[s].ws /\ v.conn = "ready" /\ v.disc = "none" /\ v.topics = {}
  BY <1>1, <1>2 DEF SockState
<1> HIDE DEF v
<1>5. sock'[s] = v /\ \A c \in Sockets \ {s} : sock'[c] = sock[c]
  BY <1>1, <1>3
<1>6. /\ out' = [c \in Sockets |-> out'[c]]
      /\ Open(s) => out'[s] = Append(<< >>, Connected)
      /\ ~Open(s) => out'[s] = << >>
      /\ \A c \in Sockets \ {s} : out'[c] = out[c]
  BY <1>2 DEF ConnectionHook, Send
<1>7. out' \in [Sockets -> Seq(Messages)]
  <2>1. out \in [Sockets -> Seq(Messages)] /\ << >> \in Seq(Messages)
    BY DEF Inv, TypeOK
  <2>2. out'[s] \in Seq(Messages)
    BY <1>6, <2>1, HeardFirst
  <2>3. \A c \in Sockets : out'[c] \in Seq(Messages)
    BY <1>6, <2>1, <2>2
  <2>4. QED
    BY <1>6, <2>3
<1>8. TypeOK'
  BY <1>1, <1>3, <1>4, <1>7 DEF Inv, TypeOK
<1>9. \A c \in Sockets : Lifecycle(c)' /\ Inbox(c)'
  BY <1>2, <1>3, <1>4, <1>5, <1>6, HeardFirst DEF Inv, Lifecycle, Inbox, Ready, Open
<1>10. \A r \in Requests : Served(r)'
  BY <1>3, <1>4, <1>5, EngineAssumption DEF Inv, Served, Ready
<1>11. QED
  BY <1>8, <1>9, <1>10 DEF Inv

LEMMA CrashKeeps ==
    ASSUME Inv, Crash
    PROVE  Inv'
BY DEF Inv, Crash, TypeOK, Lifecycle, Inbox, Served, Ready, Open

LEMMA SocketInv ==
    ASSUME Inv, NEW s \in Sockets, Socket(s)
    PROVE  Inv'
<1>1. /\ sock \in [Sockets -> SockState] /\ sock[s] \in SockState
      /\ Lifecycle(s)
  BY DEF Inv, TypeOK
<1>2. CASE Upgrade(s) /\ "upgrade" \in Hooks /\ Adaptor # "neo"
  <2> DEFINE v == [sock[s] EXCEPT !.ws = "asked"]
  <2>1. v \in SockState /\ v.ws = "asked" /\ v.conn = sock[s].conn /\ v.disc = sock[s].disc
        /\ v.topics = sock[s].topics
    BY <1>1 DEF SockState
  <2>2. sock' = [sock EXCEPT ![s] = v] /\ UNCHANGED <<clients, req, out, up>> /\ sock[s].ws = "none"
    BY <1>1, <1>2 DEF Upgrade
  <2> HIDE DEF v
  <2>3. QED
    BY <1>1, <2>1, <2>2, SilentKeeps DEF Lifecycle, Ready, Open
<1>3. CASE Upgrade(s) /\ ~("upgrade" \in Hooks /\ Adaptor # "neo")
  BY <1>3, CrashKeeps, ConnectKeeps DEF Upgrade
<1>4. CASE Accept(s)
  BY <1>4, ConnectKeeps DEF Accept
<1>5. CASE Refuse(s)
  <2> DEFINE v == [sock[s] EXCEPT !.ws = "refused"]
  <2>1. v \in SockState /\ v.ws = "refused" /\ v.conn = sock[s].conn /\ v.disc = sock[s].disc
        /\ v.topics = sock[s].topics
    BY <1>1 DEF SockState
  <2>2. sock' = [sock EXCEPT ![s] = v] /\ UNCHANGED <<clients, req, out, up>> /\ sock[s].ws = "asked"
    BY <1>1, <1>5 DEF Refuse
  <2> HIDE DEF v
  <2>3. QED
    BY <1>1, <2>1, <2>2, SilentKeeps DEF Lifecycle, Ready, Open
<1>6. CASE ConnectionHook(s)
  BY <1>6, HookKeeps
<1>7. CASE ConnectionHookThrows(s)
  BY <1>7, CrashKeeps DEF ConnectionHookThrows
<1>8. CASE Close(s)
  <2>1. ASSUME NEW d \in {"none", "hook", "done"}
        PROVE  LET v == [sock[s] EXCEPT !.ws = "closed", !.topics = {}, !.disc = d]
               IN  /\ v \in SockState /\ v.ws = "closed" /\ v.conn = sock[s].conn
                   /\ v.disc = d /\ v.topics = {}
    BY <1>1 DEF SockState
  <2>2. PICK d \in {"none", "hook", "done"} :
          /\ sock' = [sock EXCEPT ![s] = [sock[s] EXCEPT !.ws = "closed", !.topics = {}, !.disc = d]]
          /\ clients' = IF d = "done" THEN clients \ {s} ELSE clients
          /\ d = "none" <=> ~Ready(s)
          /\ UNCHANGED <<req, out, up>>
    <3>1. sock[s].disc = "none"
      BY <1>1, <1>8 DEF Lifecycle, Close, Open
    <3>2. [sock[s] EXCEPT !.ws = "closed", !.topics = {}]
          = [sock[s] EXCEPT !.ws = "closed", !.topics = {}, !.disc = "none"]
      BY <1>1, <3>1 DEF SockState
    <3>3. \A d : [[sock[s] EXCEPT !.ws = "closed", !.topics = {}] EXCEPT !.disc = d]
                 = [sock[s] EXCEPT !.ws = "closed", !.topics = {}, !.disc = d]
      OBVIOUS
    <3>4. CASE ~Ready(s)
      BY <1>8, <3>2, <3>4 DEF Close
    <3>5. CASE Ready(s) /\ "disconnect" \in Hooks
      BY <1>8, <3>3, <3>5 DEF Close
    <3>6. CASE Ready(s) /\ "disconnect" \notin Hooks
      BY <1>8, <3>3, <3>6 DEF Close
    <3>7. QED
      BY <3>4, <3>5, <3>6
  <2> DEFINE v == [sock[s] EXCEPT !.ws = "closed", !.topics = {}, !.disc = d]
  <2>3. /\ v \in SockState /\ v.ws = "closed" /\ v.conn = sock[s].conn
        /\ v.disc = d /\ v.topics = {}
    BY <2>1
  <2>4. sock' = [sock EXCEPT ![s] = v]
    BY <2>2
  <2> HIDE DEF v
  <2>5. Open(s) /\ sock[s].disc = "none"
    BY <1>1, <1>8 DEF Lifecycle, Close, Open
  <2>6. s \in clients' <=> v.conn = "ready" /\ v.disc # "done"
    BY <1>1, <2>2, <2>3, <2>5 DEF Lifecycle, Ready
  <2>7. QED
    BY <2>2, <2>3, <2>4, <2>5, <2>6, SilentKeeps
<1>9. CASE DisconnectHook(s)
  <2> DEFINE v == [sock[s] EXCEPT !.disc = "done"]
  <2>1. v \in SockState /\ v.ws = sock[s].ws /\ v.conn = sock[s].conn /\ v.disc = "done"
        /\ v.topics = sock[s].topics
    BY <1>1 DEF SockState
  <2>2. sock' = [sock EXCEPT ![s] = v] /\ clients' = clients \ {s} /\ UNCHANGED <<req, out, up>>
        /\ sock[s].disc = "hook"
    BY <1>1, <1>9 DEF DisconnectHook
  <2> HIDE DEF v
  <2>3. sock[s].ws = "closed" /\ Ready(s) /\ sock[s].topics = {}
    BY <1>1, <2>2 DEF Lifecycle, Open
  <2>4. QED
    BY <2>1, <2>2, <2>3, SilentKeeps DEF Ready
<1>10. QED
  BY <1>2, <1>3, <1>4, <1>5, <1>6, <1>7, <1>8, <1>9 DEF Socket

-----------------------------------------------------------------------------
(* Theorems                                                                *)

LEMMA InitInv ==
    ASSUME Init
    PROVE  Inv
<1>1. \A s \in Sockets : /\ sock[s] = [ws |-> "none", conn |-> "none", disc |-> "none", topics |-> {}]
                         /\ out[s] = << >>
  BY DEF Init
<1>2. TypeOK
  BY EngineAssumption DEF Init, TypeOK, SockState, ReqState
<1>3. \A s \in Sockets : Lifecycle(s) /\ Inbox(s)
  BY <1>1, HeardFirst DEF Init, Lifecycle, Inbox, Ready, Open
<1>4. \A r \in Requests : Served(r)
  BY DEF Init, Served
<1>5. QED
  BY <1>2, <1>3, <1>4 DEF Inv

LEMMA StepInv ==
    ASSUME Inv, [Next]_vars
    PROVE  Inv'
<1>1. CASE Next
  BY <1>1, SocketInv, RequestInv DEF Next
<1>2. CASE UNCHANGED vars
  BY <1>2 DEF vars, Inv, TypeOK, Lifecycle, Inbox, Served, Ready, Open
<1>3. QED
  BY <1>1, <1>2

LEMMA Invariance == Spec => []Inv
BY InitInv, StepInv, PTL DEF Spec

\* The sockets, the collection, the requests and everything that is sent have
\* their types, for any number of clients, requests and topics.
THEOREM TypeCorrect == Spec => []TypeOK
<1>1. Inv => TypeOK
  BY DEF Inv
<1>2. QED
  BY <1>1, Invariance, PTL

\* RTEngine.clients holds a client from the end of handleConnection to the end
\* of handleDisconnect, whatever hooks there are and whatever they do.
THEOREM ClientsAreRegistered == Spec => []Registered
<1>1. Inv => Registered
  BY DEF Inv, Registered, Lifecycle
<1>2. QED
  BY <1>1, Invariance, PTL

\* Whoever sends to a client, by its topic, its user, its id or in answer to a
\* message, the client has heard "connected" before, and hears it once.
THEOREM ConnectedIsFirst == Spec => []ConnectedFirst
<1>1. Inv => ConnectedFirst
  BY DEF Inv, ConnectedFirst, Inbox, Heard
<1>2. QED
  BY <1>1, Invariance, PTL

=============================================================================
