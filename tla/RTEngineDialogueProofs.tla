----------------------- MODULE RTEngineDialogueProofs -----------------------
(***************************************************************************)
(* Proofs about what RTEngine says to its clients: the acknowledgments of  *)
(* their requests and the confirmations of their topics.                   *)
(***************************************************************************)
EXTENDS RTEngineProofs, FiniteSetTheorems

\* t is confirmed by the first n messages of q
Latest(q, t, n) ==
    \E i \in 1 .. n : /\ q[i] = Subscribed(t)
                      /\ \A j \in 1 .. n : q[j] \in {Subscribed(t), Unsubscribed(t)} => j <= i

Pubs(t) == {Published(r, t) : r \in Requests}

(***************************************************************************)
(* The strengthening.  Beside Inv, a request that was sent has a socket    *)
(* that is or was open: a socket opens before its first request, so that   *)
(* an acknowledgment which met a closed socket is owed to nobody.          *)
(***************************************************************************)
Asked(r) == req[r].st # "unsent" => sock[From[r]].ws \in {"open", "closed"}

Answers(s, r) ==
    /\ Acks(s, r) # {} => s = From[r] /\ req[r].ack /\ req[r].st = "done"
    /\ \A i, j \in Acks(s, r) : i = j
    /\ s = From[r] /\ req[r].ack /\ req[r].st = "done" /\ Open(s) => Acks(s, r) # {}

Agreed(s, t) ==
    /\ Open(s) => (t \in sock[s].topics <=> Latest(out[s], t, Len(out[s])))
    /\ \A i \in 1 .. Len(out[s]) : out[s][i] \in Pubs(t) => Latest(out[s], t, i)

Talk ==
    /\ Inv
    /\ \A r \in Requests : Asked(r)
    /\ \A s \in Sockets, r \in Requests : Answers(s, r)
    /\ \A s \in Sockets, t \in Topics : Agreed(s, t)

-----------------------------------------------------------------------------
(* Messages and sequences of them                                          *)

\* Which messages are which.
LEMMA Apart ==
    /\ \A r, q : Ack(r) = Ack(q) => r = q
    /\ \A r : /\ Ack(r) # Connected /\ Ack(r) # Reply
              /\ \A q : Ack(r) # Event(q)
              /\ \A t : Ack(r) # Subscribed(t) /\ Ack(r) # Unsubscribed(t)
              /\ \A q, t : Ack(r) # Published(q, t)
    /\ \A t : /\ Connected \notin {Subscribed(t), Unsubscribed(t)} \cup Pubs(t)
              /\ Reply \notin {Subscribed(t), Unsubscribed(t)} \cup Pubs(t)
              /\ \A q : Event(q) \notin {Subscribed(t), Unsubscribed(t)} \cup Pubs(t)
              /\ \A q : Ack(q) \notin {Subscribed(t), Unsubscribed(t)} \cup Pubs(t)
    /\ \A t : Subscribed(t) # Unsubscribed(t)
    /\ \A t, u : /\ Subscribed(u) \notin Pubs(t) /\ Unsubscribed(u) \notin Pubs(t)
                 /\ t # u => /\ Subscribed(u) \notin {Subscribed(t), Unsubscribed(t)}
                             /\ Unsubscribed(u) \notin {Subscribed(t), Unsubscribed(t)}
    /\ \A q, t, u : /\ Published(q, u) \notin {Subscribed(t), Unsubscribed(t)}
                    /\ Published(q, u) \in Pubs(t) => t = u
<1> USE DEF Pubs, Connected, Reply, Event, Ack, Published, Subscribed, Unsubscribed
<1>1. \A r, q : Ack(r) = Ack(q) => r = q
  OBVIOUS
<1>2. \A r : /\ Ack(r) # Connected /\ Ack(r) # Reply
             /\ \A q : Ack(r) # Event(q)
             /\ \A t : Ack(r) # Subscribed(t) /\ Ack(r) # Unsubscribed(t)
             /\ \A q, t : Ack(r) # Published(q, t)
  OBVIOUS
<1>3. \A t : /\ Connected \notin {Subscribed(t), Unsubscribed(t)} \cup Pubs(t)
             /\ Reply \notin {Subscribed(t), Unsubscribed(t)} \cup Pubs(t)
             /\ \A q : Event(q) \notin {Subscribed(t), Unsubscribed(t)} \cup Pubs(t)
             /\ \A q : Ack(q) \notin {Subscribed(t), Unsubscribed(t)} \cup Pubs(t)
  OBVIOUS
<1>4. \A t : Subscribed(t) # Unsubscribed(t)
  OBVIOUS
<1>5. \A t, u : /\ Subscribed(u) \notin Pubs(t) /\ Unsubscribed(u) \notin Pubs(t)
                /\ t # u => /\ Subscribed(u) \notin {Subscribed(t), Unsubscribed(t)}
                            /\ Unsubscribed(u) \notin {Subscribed(t), Unsubscribed(t)}
  OBVIOUS
<1>6. \A q, t, u : /\ Published(q, u) \notin {Subscribed(t), Unsubscribed(t)}
                   /\ Published(q, u) \in Pubs(t) => t = u
  OBVIOUS
<1>7. QED
  BY <1>1, <1>2, <1>3, <1>4, <1>5, <1>6

\* One more message is one more acknowledgment, or none.
LEMMA AcksGrow ==
    ASSUME NEW s \in Sockets, NEW r, out[s] \in Seq(Messages),
           NEW m \in Messages, out'[s] = Append(out[s], m)
    PROVE  Acks(s, r)' = IF m = Ack(r) THEN Acks(s, r) \cup {Len(out[s]) + 1} ELSE Acks(s, r)
<1>1. /\ Len(out[s]) \in Nat /\ Len(out'[s]) = Len(out[s]) + 1
      /\ \A i \in 1 .. Len(out[s]) : out'[s][i] = out[s][i]
      /\ out'[s][Len(out[s]) + 1] = m
  OBVIOUS
<1>2. QED
  BY <1>1 DEF Acks

\* What was confirmed stays so, and the last message decides what is now.
LEMMA LatestGrows ==
    ASSUME NEW q \in Seq(Messages), NEW m \in Messages, NEW t
    PROVE  LET p == Append(q, m)
               n == Len(q)
           IN  /\ \A k \in 1 .. n : Latest(p, t, k) <=> Latest(q, t, k)
               /\ m \notin {Subscribed(t), Unsubscribed(t)} =>
                     (Latest(p, t, n + 1) <=> Latest(q, t, n))
               /\ m = Subscribed(t) => Latest(p, t, n + 1)
               /\ m = Unsubscribed(t) => ~Latest(p, t, n + 1)
<1> DEFINE p == Append(q, m)
           n == Len(q)
<1>1. /\ n \in Nat /\ Len(p) = n + 1 /\ \A i \in 1 .. n : p[i] = q[i]
      /\ p[n + 1] = m
  OBVIOUS
<1> HIDE DEF p, n
<1>2. \A k \in 1 .. n : Latest(p, t, k) <=> Latest(q, t, k)
  <2>1. \A k \in 1 .. n : \A i \in 1 .. k : p[i] = q[i]
    BY <1>1
  <2>2. QED
    BY <2>1 DEF Latest
<1>3. ASSUME m \notin {Subscribed(t), Unsubscribed(t)}
      PROVE  Latest(p, t, n + 1) <=> Latest(q, t, n)
  <2>1. \A i \in 1 .. n + 1 : i \in 1 .. n \/ i = n + 1
    BY <1>1
  <2>2. 1 .. n \subseteq 1 .. n + 1
    BY <1>1
  <2>3. QED
    BY <1>1, <1>3, <2>1, <2>2 DEF Latest
<1>4. ASSUME m = Subscribed(t)
      PROVE  Latest(p, t, n + 1)
  BY <1>1, <1>4 DEF Latest
<1>5. ASSUME m = Unsubscribed(t)
      PROVE  ~Latest(p, t, n + 1)
  <2>1. Subscribed(t) # Unsubscribed(t)
    BY Apart
  <2>2. ASSUME NEW i \in 1 .. n + 1, p[i] = Subscribed(t),
               \A j \in 1 .. n + 1 : p[j] \in {Subscribed(t), Unsubscribed(t)} => j <= i
        PROVE  FALSE
    BY <1>1, <1>5, <2>1, <2>2
  <2>3. QED
    BY <2>2 DEF Latest
<1>6. QED
  BY <1>2, <1>3, <1>4, <1>5 DEF p, n

-----------------------------------------------------------------------------
(* What a step does                                                        *)

\* Why m goes to s.
Cause(s, m) ==
    \/ m \in {Connected, Reply} \cup {Event(q) : q \in Requests}
    \/ \E q \in Requests : m = Ack(q) /\ HandlerEnd(q) /\ s = From[q] /\ req[q].ack
    \/ \E q \in Requests, t \in Topics :
          \/ m = Published(q, t) /\ t \in sock[s].topics /\ UNCHANGED sock
          \/ m = Subscribed(t) /\ Subscribe(q, t) /\ s = From[q]
          \/ m = Unsubscribed(t) /\ Unsubscribe(q, t) /\ s = From[q]

\* A step brings a socket nothing, or one message for one of these causes.
Said(s) ==
    \/ out'[s] = out[s]
    \/ \E m \in Messages : out'[s] = Append(out[s], m) /\ Cause(s, m)

\* What Send does, for the recipients it names.
LEMMA SendSaid ==
    ASSUME NEW S, NEW m \in Messages, Send(S, m), NEW s \in Sockets, s \in S => Cause(s, m)
    PROVE  Said(s)
BY DEF Send, Said

LEMMA RequestSays ==
    ASSUME Inv, NEW r \in Requests, Request(r), NEW s \in Sockets
    PROVE  Said(s)
<1> USE Kinds
<1>1. CASE ReceiveLost(r) \/ Receive(r)
  BY <1>1 DEF ReceiveLost, Receive, Said
<1>2. CASE ReceiveOther(r)
  BY <1>2, SendSaid DEF ReceiveOther, Cause, Said
<1>3. CASE HandlerEnd(r)
  <2>1. Send(IF req[r].ack THEN {From[r]} ELSE {}, Ack(r))
    BY <1>3 DEF HandlerEnd
  <2>2. s \in (IF req[r].ack THEN {From[r]} ELSE {}) => Cause(s, Ack(r))
    BY <1>3 DEF Cause
  <2>3. QED
    BY <2>1, <2>2, SendSaid
<1>4. CASE Emit(r)
  BY <1>4, SendSaid DEF Emit, Cause
<1>5. ASSUME NEW t \in Topics, Subscribe(r, t)
      PROVE  Said(s)
  <2>1. Send({From[r]}, Subscribed(t))
    BY <1>5 DEF Subscribe
  <2>2. s \in {From[r]} => Cause(s, Subscribed(t))
    BY <1>5 DEF Cause
  <2>3. QED
    BY <2>1, <2>2, SendSaid
<1>6. ASSUME NEW t \in Topics, Unsubscribe(r, t)
      PROVE  Said(s)
  <2>1. Send({From[r]}, Unsubscribed(t))
    BY <1>6 DEF Unsubscribe
  <2>2. s \in {From[r]} => Cause(s, Unsubscribed(t))
    BY <1>6 DEF Cause
  <2>3. QED
    BY <2>1, <2>2, SendSaid
<1>7. ASSUME NEW t \in Topics, ToTopic(r, t)
      PROVE  Said(s)
  <2>1. PICK self \in BOOLEAN :
           out' = [c \in Sockets |->
                     IF ~Open(From[r]) THEN out[c]
                     ELSE IF c = From[r] THEN IF self THEN Append(out[c], Event(r)) ELSE out[c]
                     ELSE IF c \in Members(t) THEN Append(out[c], Published(r, t))
                     ELSE out[c]]
    BY <1>7 DEF ToTopic
  <2>2. \/ out'[s] = out[s]
        \/ out'[s] = Append(out[s], Event(r))
        \/ out'[s] = Append(out[s], Published(r, t)) /\ s \in Members(t)
    <3>1. CASE self
      BY <2>1, <3>1
    <3>2. CASE ~self
      BY <2>1, <3>2
    <3>3. QED
      BY <3>1, <3>2
  <2>3. UNCHANGED sock
    BY <1>7 DEF ToTopic
  <2>4. QED
    BY <2>2, <2>3 DEF Said, Cause, Members
<1>8. ASSUME NEW t \in Topics, SendToTopic(r, t)
      PROVE  Said(s)
  <2>1. Send(Members(t), Published(r, t)) /\ UNCHANGED sock
    BY <1>8 DEF SendToTopic
  <2>2. s \in Members(t) => Cause(s, Published(r, t))
    BY <2>1 DEF Cause, Members
  <2>3. QED
    BY <2>1, <2>2, SendSaid
<1>9. ASSUME NEW c \in Sockets, SendToUserId(r, c) \/ SendToClientId(r, c)
      PROVE  Said(s)
  <2>1. PICK S : Send(S, Event(r))
    BY <1>9 DEF SendToUserId, SendToClientId
  <2>2. Cause(s, Event(r))
    BY DEF Cause
  <2>3. QED
    BY <2>1, <2>2, SendSaid
<1>10. QED
  BY <1>1, <1>2, <1>3, <1>4, <1>5, <1>6, <1>7, <1>8, <1>9 DEF Request

LEMMA StepSays ==
    ASSUME Inv, Next, NEW s \in Sockets
    PROVE  Said(s)
<1>1. ASSUME NEW c \in Sockets, Socket(c)
      PROVE  Said(s)
  <2>1. Connected \in Messages /\ Cause(s, Connected)
    BY Kinds DEF Cause
  <2>2. CASE UNCHANGED out
    BY <2>2 DEF Said
  <2>3. CASE Connect(c)
    <3>1. out \in [Sockets -> Seq(Messages)]
      BY DEF Inv, TypeOK
    <3>2. QED
      BY <2>1, <2>2, <2>3, <3>1 DEF Connect, Said
  <2>4. CASE ConnectionHook(c)
    BY <2>1, <2>4, SendSaid DEF ConnectionHook
  <2>5. QED
    BY <1>1, <2>2, <2>3, <2>4
       DEF Socket, Upgrade, Accept, Refuse, ConnectionHookThrows, Crash, Close, DisconnectHook
<1>2. QED
  BY <1>1, RequestSays DEF Next

\* A request that was sent stays so, and is done when its handler ends.
LEMMA StepServes ==
    ASSUME Inv, Next, NEW r \in Requests
    PROVE  /\ req'[r].st # "unsent" => req[r].st # "unsent" \/ Open(From[r])
           /\ \/ HandlerEnd(r) /\ req'[r].st = "done" /\ req'[r].ack = req[r].ack
              \/ /\ req'[r].st = "done" <=> req[r].st = "done"
                 /\ req[r].st = "done" => req'[r].ack = req[r].ack
<1>1. req \in [Requests -> ReqState]
  BY DEF Inv, TypeOK
<1>2. CASE UNCHANGED req
  BY <1>2
<1>3. ASSUME NEW q \in Requests, Request(q)
      PROVE  /\ req'[r].st # "unsent" => req[r].st # "unsent" \/ Open(From[r])
             /\ \/ HandlerEnd(r) /\ req'[r].st = "done" /\ req'[r].ack = req[r].ack
                \/ /\ req'[r].st = "done" <=> req[r].st = "done"
                   /\ req[r].st = "done" => req'[r].ack = req[r].ack
  <2>1. CASE Calls(q)
    <3>1. req' = [req EXCEPT ![q] = [req[q] EXCEPT !.n = @ + 1]]
      BY <2>1 DEF Calls
    <3>2. req'[r].st = req[r].st /\ req'[r].ack = req[r].ack
      BY <1>1, <3>1 DEF ReqState
    <3>3. QED
      BY <3>2
  <2>2. CASE HandlerEnd(q)
    BY <1>1, <2>2 DEF HandlerEnd, Finish, ReqState
  <2>3. CASE ReceiveLost(q)
    BY <1>1, <2>3 DEF ReceiveLost, ReqState
  <2>4. CASE ReceiveOther(q)
    BY <1>1, <2>4 DEF ReceiveOther, ReqState
  <2>5. CASE Receive(q)
    <3>1. PICK ack : req' = [req EXCEPT ![q].st = "running", ![q].ack = ack]
      BY <2>5 DEF Receive
    <3>2. req[q].st = "unsent" /\ Open(From[q])
      BY <2>5 DEF Receive
    <3>3. QED
      BY <1>1, <3>1, <3>2 DEF ReqState
  <2>6. QED
    BY <1>3, <2>1, <2>2, <2>3, <2>4, <2>5
       DEF Request, Emit, Subscribe, Unsubscribe, ToTopic, SendToTopic, SendToUserId, SendToClientId
<1>4. QED
  BY <1>2, <1>3
     DEF Next, Socket, Upgrade, Accept, Refuse, Connect, ConnectionHook, ConnectionHookThrows, Crash,
         Close, DisconnectHook

\* A socket opens once, before anything is said to it, and its topics change
\* only where its handlers say so or when it closes.
LEMMA StepSockets ==
    ASSUME Inv, Next, NEW s \in Sockets
    PROVE  /\ sock[s].ws \in {"open", "closed"} =>
                 sock'[s].ws \in {"open", "closed"} /\ (Open(s)' => Open(s))
           /\ Open(s)' => Open(s) \/ out[s] = << >>
           /\ \A t \in Topics :
                 \/ t \in sock'[s].topics <=> t \in sock[s].topics
                 \/ ~Open(s)'
                 \/ \E q \in Requests : s = From[q] /\ (Subscribe(q, t) \/ Unsubscribe(q, t))
<1> DEFINE Goal ==
             /\ sock[s].ws \in {"open", "closed"} =>
                   sock'[s].ws \in {"open", "closed"} /\ (Open(s)' => Open(s))
             /\ Open(s)' => Open(s) \/ out[s] = << >>
             /\ \A t \in Topics :
                   \/ t \in sock'[s].topics <=> t \in sock[s].topics
                   \/ ~Open(s)'
                   \/ \E q \in Requests : s = From[q] /\ (Subscribe(q, t) \/ Unsubscribe(q, t))
<1>1. /\ sock \in [Sockets -> SockState] /\ sock[s] \in SockState
      /\ Lifecycle(s) /\ Inbox(s)
      /\ sock[s].ws \in {"none", "asked"} => out[s] = << >>
  BY DEF Inv, TypeOK, Lifecycle, Inbox, Ready
<1>2. CASE sock'[s] = sock[s]
  BY <1>2 DEF Open
<1>3. ASSUME NEW q \in Requests, NEW t \in Topics, s = From[q],
             Subscribe(q, t) \/ Unsubscribe(q, t),
             NEW T \in {sock[s].topics \cup {t}, sock[s].topics \ {t}},
             sock' = [sock EXCEPT ![s].topics = T]
      PROVE  Goal
  <2>1. /\ sock' = [sock EXCEPT ![s] = [sock[s] EXCEPT !.topics = T]]
        /\ \A u \in Topics \ {t} : u \in T <=> u \in sock[s].topics
    BY <1>3
  <2>2. sock'[s].ws = sock[s].ws /\ sock'[s].topics = T
    BY <1>1, <2>1 DEF SockState
  <2>3. QED
    BY <1>3, <2>1, <2>2 DEF Open
<1>4. ASSUME NEW q \in Requests, Request(q)
      PROVE  Goal
  <2>1. CASE UNCHANGED sock
    BY <1>2, <2>1
  <2>2. ASSUME NEW t \in Topics, Subscribe(q, t) \/ Unsubscribe(q, t), sock' # sock
        PROVE  Goal
    <3>1. CASE s = From[q]
      BY <1>3, <2>2, <3>1 DEF Subscribe, Unsubscribe
    <3>2. CASE s # From[q]
      <4>1. sock'[s] = sock[s]
        BY <1>1, <2>2, <3>2 DEF Subscribe, Unsubscribe
      <4>2. QED
        BY <1>2, <4>1
    <3>3. QED
      BY <3>1, <3>2
  <2>3. QED
    BY <1>4, <2>1, <2>2
       DEF Request, ReceiveLost, Receive, ReceiveOther, Emit, HandlerEnd, ToTopic, SendToTopic,
           SendToUserId, SendToClientId
<1>5. ASSUME NEW c \in Sockets, Socket(c)
      PROVE  Goal
  <2>1. CASE c # s
    <3>1. sock'[s] = sock[s]
      BY <1>1, <1>5, <2>1
         DEF Socket, Upgrade, Accept, Refuse, Connect, ConnectionHook, ConnectionHookThrows, Crash,
             Close, DisconnectHook
    <3>2. QED
      BY <1>2, <3>1
  <2>2. CASE c = s /\ Connect(s) /\ sock[s].ws \in {"none", "asked"}
    <3>1. sock'[s].topics = sock[s].topics
      BY <1>1, <2>2 DEF Connect, SockState
    <3>2. QED
      BY <1>1, <2>2, <3>1
  <2>3. CASE sock' = [sock EXCEPT ![s].ws = "asked"] /\ sock[s].ws = "none"
    BY <1>1, <2>3 DEF Open, SockState
  <2>4. CASE Refuse(s)
    BY <1>1, <2>4 DEF Refuse, Open, SockState
  <2>5. CASE ConnectionHook(s)
    BY <1>1, <2>5 DEF ConnectionHook, Open, SockState
  <2>6. CASE Close(s)
    <3> DEFINE gone == [sock[s] EXCEPT !.ws = "closed", !.topics = {}]
    <3>1. PICK v : /\ v = gone \/ (\E d : v = [gone EXCEPT !.disc = d])
                   /\ sock' = [sock EXCEPT ![s] = v]
      BY <2>6 DEF Close
    <3>2. v.ws = "closed"
      BY <1>1, <3>1 DEF SockState
    <3>3. sock'[s].ws = "closed"
      BY <1>1, <3>1, <3>2
    <3>4. QED
      BY <3>3 DEF Open
  <2>7. CASE DisconnectHook(s)
    BY <1>1, <2>7 DEF DisconnectHook, Open, SockState
  <2>8. CASE Crash
    BY <1>2, <2>8 DEF Crash
  <2>9. QED
    BY <1>5, <2>1, <2>2, <2>3, <2>4, <2>5, <2>6, <2>7, <2>8
       DEF Socket, Upgrade, Accept, ConnectionHookThrows
<1>6. QED
  BY <1>4, <1>5 DEF Next

-----------------------------------------------------------------------------
(* Acknowledgments                                                         *)

LEMMA AskedKeeps ==
    ASSUME Talk, Next, NEW r \in Requests
    PROVE  Asked(r)'
<1>1. From[r] \in Sockets
  BY EngineAssumption
<1>2. /\ sock[From[r]].ws \in {"open", "closed"} => sock'[From[r]].ws \in {"open", "closed"}
      /\ req'[r].st # "unsent" => req[r].st # "unsent" \/ Open(From[r])
  BY <1>1, StepSockets, StepServes DEF Talk
<1>3. QED
  BY <1>2 DEF Talk, Asked, Open

LEMMA AnswersKeep ==
    ASSUME Talk, Next, NEW s \in Sockets, NEW r \in Requests
    PROVE  Answers(s, r)'
<1>1. /\ Inv /\ Answers(s, r) /\ Asked(r) /\ From[r] \in Sockets
      /\ req \in [Requests -> ReqState] /\ out[s] \in Seq(Messages)
  BY EngineAssumption DEF Talk, Inv, TypeOK
<1>2. /\ Len(out[s]) \in Nat /\ Len(out[s]) + 1 \notin Acks(s, r)
  BY <1>1 DEF Acks
<1>3. CASE HandlerEnd(r)
  <2>1. /\ req[r].st = "running" /\ req'[r].st = "done" /\ req'[r].ack = req[r].ack
        /\ UNCHANGED sock
    BY <1>1, <1>3 DEF HandlerEnd, Finish, ReqState
  <2>2. Acks(s, r) = {}
    BY <1>1, <2>1 DEF Answers
  <2>3. Ack(r) \in Messages
    BY Kinds
  <2>4. CASE s = From[r] /\ req[r].ack /\ Open(s)
    <3>1. out'[s] = Append(out[s], Ack(r))
      BY <1>3, <2>4 DEF HandlerEnd, Send
    <3>2. Acks(s, r)' = {Len(out[s]) + 1}
      BY <1>1, <2>2, <2>3, <3>1, AcksGrow
    <3>3. QED
      BY <2>1, <2>4, <3>2 DEF Answers
  <2>5. CASE ~(s = From[r] /\ req[r].ack /\ Open(s))
    <3>1. out'[s] = out[s]
      BY <1>3, <2>5 DEF HandlerEnd, Send
    <3>2. Acks(s, r)' = {}
      BY <2>2, <3>1 DEF Acks
    <3>3. QED
      BY <2>1, <2>5, <3>2 DEF Answers, Open
  <2>6. QED
    BY <2>4, <2>5
<1>4. CASE ~HandlerEnd(r)
  <2>1. /\ req'[r].st = "done" <=> req[r].st = "done"
        /\ req[r].st = "done" => req'[r].ack = req[r].ack
    BY <1>1, <1>4, StepServes
  <2>2. Acks(s, r)' = Acks(s, r)
    <3>1. CASE out'[s] = out[s]
      BY <3>1 DEF Acks
    <3>2. ASSUME NEW m \in Messages, out'[s] = Append(out[s], m), Cause(s, m)
          PROVE  Acks(s, r)' = Acks(s, r)
      <4>1. m # Ack(r)
        BY <1>4, <3>2, Apart DEF Cause
      <4>2. QED
        BY <1>1, <3>2, <4>1, AcksGrow
    <3>3. QED
      BY <1>1, <3>1, <3>2, StepSays DEF Said
  <2>3. s = From[r] /\ req[r].st = "done" /\ Open(s)' => Open(s)
    BY <1>1, StepSockets DEF Asked
  <2>4. QED
    BY <1>1, <2>1, <2>2, <2>3 DEF Answers
<1>5. QED
  BY <1>3, <1>4

-----------------------------------------------------------------------------
(* Topics                                                                  *)

\* A confirmation goes out with the change that it confirms.
LEMMA ConfirmationsKeep ==
    ASSUME Talk, Next, NEW s \in Sockets, NEW t \in Topics, NEW q \in Requests, s = From[q],
           Subscribe(q, t) \/ Unsubscribe(q, t)
    PROVE  Agreed(s, t)'
<1>1. Agreed(s, t) /\ out[s] \in Seq(Messages) /\ sock \in [Sockets -> SockState]
  BY DEF Talk, Inv, TypeOK
<1>2. CASE ~Open(s)
  <2>1. out'[s] = out[s] /\ sock' = sock
    BY <1>2 DEF Subscribe, Unsubscribe, Send
  <2>2. QED
    BY <1>1, <2>1 DEF Agreed, Open
<1>3. CASE Open(s)
  <2>1. PICK m \in {Subscribed(t), Unsubscribed(t)} :
          /\ out'[s] = Append(out[s], m)
          /\ t \in sock'[s].topics <=> m = Subscribed(t)
    BY <1>1, <1>3, Apart DEF Subscribe, Unsubscribe, Send, SockState
  <2>2. m \in Messages /\ m \notin Pubs(t)
    BY Kinds, Apart
  <2> DEFINE n == Len(out[s])
  <2>3. /\ n \in Nat /\ Len(out'[s]) = n + 1 /\ out'[s][n + 1] = m
        /\ \A i \in 1 .. n : out'[s][i] = out[s][i]
    BY <1>1, <2>1, <2>2
  <2>4. /\ \A k \in 1 .. n : Latest(out'[s], t, k) <=> Latest(out[s], t, k)
        /\ Latest(out'[s], t, n + 1) <=> m = Subscribed(t)
    BY <1>1, <2>1, <2>2, LatestGrows, Apart
  <2> HIDE DEF n
  <2>5. \A i \in 1 .. n + 1 : out'[s][i] \in Pubs(t) => Latest(out'[s], t, i)
    <3>1. \A i \in 1 .. n : out[s][i] \in Pubs(t) => Latest(out[s], t, i)
      BY <1>1 DEF Agreed, n
    <3>2. \A i \in 1 .. n + 1 : i \in 1 .. n \/ i = n + 1
      BY <2>3
    <3>3. QED
      BY <2>2, <2>3, <2>4, <3>1, <3>2
  <2>6. QED
    BY <2>1, <2>3, <2>4, <2>5 DEF Agreed, Pubs
<1>4. QED
  BY <1>2, <1>3

LEMMA AgreedKeeps ==
    ASSUME Talk, Next, NEW s \in Sockets, NEW t \in Topics
    PROVE  Agreed(s, t)'
<1> DEFINE n == Len(out[s])
<1>1. Inv /\ Agreed(s, t) /\ out[s] \in Seq(Messages) /\ n \in Nat
  BY DEF Talk, Inv, TypeOK
<1>2. CASE \E q \in Requests : s = From[q] /\ (Subscribe(q, t) \/ Unsubscribe(q, t))
  BY <1>2, ConfirmationsKeep
<1>3. CASE ~\E q \in Requests : s = From[q] /\ (Subscribe(q, t) \/ Unsubscribe(q, t))
  <2>1. t \in sock[s].topics => Open(s)
    BY <1>1 DEF Inv, Lifecycle
  <2>2. Open(s)' => (t \in sock'[s].topics <=> Latest(out[s], t, n))
    <3>1. out[s] = << >> => ~Latest(out[s], t, n)
      BY DEF Latest
    <3>2. Open(s)' => (t \in sock'[s].topics <=> t \in sock[s].topics)
      BY <1>1, <1>3, StepSockets
    <3>3. Open(s)' => Open(s) \/ out[s] = << >>
      BY <1>1, StepSockets
    <3>4. Open(s) => (t \in sock[s].topics <=> Latest(out[s], t, n))
      BY <1>1 DEF Agreed
    <3>5. QED
      BY <2>1, <3>1, <3>2, <3>3, <3>4
  <2>3. CASE out'[s] = out[s]
    BY <1>1, <2>2, <2>3 DEF Agreed, Pubs
  <2>4. ASSUME NEW m \in Messages, out'[s] = Append(out[s], m), Cause(s, m)
        PROVE  Agreed(s, t)'
    <3>1. m \notin {Subscribed(t), Unsubscribed(t)}
      BY <1>3, <2>4, Apart DEF Cause
    <3>2. m \in Pubs(t) => t \in sock[s].topics
      BY <2>4, Apart DEF Cause
    <3>3. /\ Len(out'[s]) = n + 1 /\ out'[s][n + 1] = m
          /\ \A i \in 1 .. n : out'[s][i] = out[s][i]
      BY <1>1, <2>4
    <3>4. /\ \A k \in 1 .. n : Latest(out'[s], t, k) <=> Latest(out[s], t, k)
          /\ Latest(out'[s], t, n + 1) <=> Latest(out[s], t, n)
      BY <1>1, <2>4, <3>1, LatestGrows
    <3>5. m \in Pubs(t) => Latest(out[s], t, n)
      BY <1>1, <2>1, <3>2 DEF Agreed
    <3>6. \A i \in 1 .. n : out[s][i] \in Pubs(t) => Latest(out[s], t, i)
      BY <1>1 DEF Agreed
    <3>7. \A i \in 1 .. n + 1 : i \in 1 .. n \/ i = n + 1
      BY <1>1
    <3> HIDE DEF n
    <3>8. \A i \in 1 .. n + 1 : out'[s][i] \in Pubs(t) => Latest(out'[s], t, i)
      BY <3>3, <3>4, <3>5, <3>6, <3>7
    <3>9. QED
      BY <2>2, <3>3, <3>4, <3>8 DEF Agreed, Pubs
  <2>5. QED
    BY <1>1, <2>3, <2>4, StepSays DEF Said
<1>4. QED
  BY <1>2, <1>3

-----------------------------------------------------------------------------
(* Theorems                                                                *)

LEMMA InitTalk ==
    ASSUME Init
    PROVE  Talk
<1>1. \A s \in Sockets : /\ out[s] = << >> /\ Len(out[s]) = 0
                         /\ sock[s] = [ws |-> "none", conn |-> "none", disc |-> "none", topics |-> {}]
  BY DEF Init
<1>2. \A r \in Requests : Asked(r)
  BY DEF Init, Asked
<1>3. \A s \in Sockets, r \in Requests : Answers(s, r)
  <2>1. \A s \in Sockets, r \in Requests : Acks(s, r) = {} /\ ~Open(s)
    BY <1>1 DEF Acks, Open
  <2>2. QED
    BY <2>1 DEF Answers
<1>4. \A s \in Sockets, t \in Topics : Agreed(s, t)
  BY <1>1 DEF Agreed, Open
<1>5. QED
  BY <1>2, <1>3, <1>4, InitInv DEF Talk

LEMMA StepTalk ==
    ASSUME Talk, [Next]_vars
    PROVE  Talk'
<1>1. Inv'
  BY StepInv DEF Talk
<1>2. CASE Next
  BY <1>1, <1>2, AskedKeeps, AnswersKeep, AgreedKeeps DEF Talk
<1>3. CASE UNCHANGED vars
  BY <1>1, <1>3 DEF vars, Talk, Asked, Answers, Acks, Agreed, Open, Pubs
<1>4. QED
  BY <1>2, <1>3

LEMMA TalkAlways == Spec => []Talk
BY InitTalk, StepTalk, PTL DEF Spec

\* An acknowledgment goes to the client that asked for it, once, after its
\* handler has ended, and it is there from then on unless the client has gone:
\* for any number of clients, requests and concurrent handlers.
THEOREM EveryRequestAcknowledged == Spec => []AckDiscipline
<1>1. ASSUME Talk
      PROVE  AckDiscipline
  <2>1. ASSUME NEW s \in Sockets, NEW r \in Requests
        PROVE  Cardinality(Acks(s, r)) <= 1
    <3>1. CASE Acks(s, r) = {}
      BY <3>1, FS_EmptySet
    <3>2. CASE Acks(s, r) # {}
      <4>1. PICK i \in Acks(s, r) : TRUE
        BY <3>2
      <4>2. Acks(s, r) = {i}
        BY <1>1, <4>1 DEF Talk, Answers
      <4>3. QED
        BY <4>2, FS_Singleton
    <3>3. QED
      BY <3>1, <3>2
  <2>2. QED
    BY <1>1, <2>1 DEF Talk, Answers, AckDiscipline
<1>2. QED
  BY <1>1, TalkAlways, PTL

\* What a client makes of its topics from the confirmations it got is what the
\* server keeps, and nothing is published to it outside a confirmed
\* subscription: for any number of handlers that work for it at a time.
THEOREM TopicsAgree == Spec => []TopicsAsConfirmed
<1>1. ASSUME NEW s \in Sockets, NEW t \in Topics, NEW n, out[s] \in Seq(Messages)
      PROVE  ConfirmedAt(s, t, n) <=> Latest(out[s], t, n)
  BY DEF ConfirmedAt, Confirmations, Latest
<1>2. ASSUME Talk
      PROVE  TopicsAsConfirmed
  <2>1. \A s \in Sockets : out[s] \in Seq(Messages)
    BY <1>2 DEF Talk, Inv, TypeOK
  <2>2. QED
    BY <1>1, <1>2, <2>1 DEF Talk, Agreed, Pubs, TopicsAsConfirmed
<1>3. QED
  BY <1>2, TalkAlways, PTL

=============================================================================
