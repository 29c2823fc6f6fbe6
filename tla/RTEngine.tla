------------------------------ MODULE RTEngine ------------------------------
(***************************************************************************)
(* The real-time engine (server/src/classes/RtEngine): from the upgrade of *)
(* an HTTP request to the clients collection, the handlers of the events a *)
(* client sends and the topics it is subscribed to.                        *)
(*                                                                         *)
(* Single threaded like NeoHttp: a step is a socket callback, a piece of a *)
(* user function up to its next await, or the continuation of an await.    *)
(* Awaits of the framework's own functions end before the next socket      *)
(* callback and are part of the step.                                      *)
(***************************************************************************)
EXTENDS Integers, Sequences, FiniteSets

CONSTANTS
    Sockets,    \* the connections clients ask for, each at most once
    Requests,   \* the messages clients send, each at most once
    From,       \* the socket that sends each of them
    Topics,     \* the topics in use
    UserOf,     \* the user a socket belongs to (context.user._id)
    Adaptor,    \* what calls the engine: the Neo engine or an app it is attached to
    Hooks,      \* the hooks that are set and suspend
    Behaviours, \* what user code may do beyond the ordinary
    MaxSteps    \* bound: calls of the client's methods by each handler

HookKinds == {"upgrade", "connection", "disconnect"}

(***************************************************************************)
(* throw    onConnection throws or rejects                                 *)
(* unasked  a request without ack: true                                    *)
(* odd      a client sends what is no event, or an event without a handler *)
(***************************************************************************)
BehaviourKinds == {"throw", "unasked", "odd"}

ASSUME EngineAssumption ==
    /\ IsFiniteSet(Sockets)
    /\ From \in [Requests -> Sockets]
    /\ Adaptor \in {"neo", "app"}
    /\ Hooks \subseteq HookKinds
    /\ Behaviours \subseteq BehaviourKinds
    /\ MaxSteps \in [Requests -> Nat]

VARIABLES
    sock,      \* every socket
    clients,   \* RTEngine.clients, by the id of the socket
    req,       \* every request and the handler that serves it
    out,       \* what was sent to every socket, in order
    up         \* the process runs

vars == <<sock, clients, req, out, up>>

(***************************************************************************)
(* ws      the uWS socket; "asked" while onUpgrade is awaited              *)
(* conn    handleConnection: in its hook, or through                       *)
(* disc    handleDisconnect: in its hook, or through                       *)
(* topics  the subscriptions uWS keeps for the socket                      *)
(***************************************************************************)
SockState ==
    [ws : {"none", "asked", "refused", "open", "closed"}, conn : {"none", "hook", "ready"},
     disc : {"none", "hook", "done"}, topics : SUBSET Topics]

ReqState == [st : {"unsent", "dropped", "answered", "running", "done"}, ack : BOOLEAN, n : Nat]

Connected       == [kind |-> "connected"]
Reply           == [kind |-> "reply"]    \* a pong, an error, the ack of an event nobody handles
Subscribed(t)   == [kind |-> "topic:subscribed", topic |-> t]
Unsubscribed(t) == [kind |-> "topic:unsubscribed", topic |-> t]
Event(r)        == [kind |-> "event", by |-> r]
Published(r, t) == [kind |-> "published", by |-> r, topic |-> t]
Ack(r)          == [kind |-> "ack", of |-> r]

Messages ==
    {Connected, Reply}
        \cup {Subscribed(t) : t \in Topics} \cup {Unsubscribed(t) : t \in Topics}
        \cup {Event(r) : r \in Requests} \cup {Published(r, t) : r \in Requests, t \in Topics}
        \cup {Ack(r) : r \in Requests}

Init ==
    /\ sock = [s \in Sockets |-> [ws |-> "none", conn |-> "none", disc |-> "none", topics |-> {}]]
    /\ clients = {}
    /\ req = [r \in Requests |-> [st |-> "unsent", ack |-> FALSE, n |-> 0]]
    /\ out = [s \in Sockets |-> << >>]
    /\ up = TRUE

Open(s)  == sock[s].ws = "open"
Ready(s) == sock[s].conn = "ready"

\* Websocket.send and uWS publish: nothing goes to a socket that is gone
Send(S, m) == out' = [s \in Sockets |-> IF s \in S /\ Open(s) THEN Append(out[s], m) ELSE out[s]]

-----------------------------------------------------------------------------
(* Connecting                                                              *)

\* an unhandled rejection
Crash ==
    /\ up' = FALSE
    /\ UNCHANGED <<sock, clients, req, out>>

\* handleConnection up to its hook, or to its end when there is none
Connect(s) ==
    /\ IF "connection" \in Hooks
       THEN /\ sock' = [sock EXCEPT ![s].ws = "open", ![s].conn = "hook"]
            /\ UNCHANGED <<clients, out>>
       ELSE /\ sock' = [sock EXCEPT ![s].ws = "open", ![s].conn = "ready"]
            /\ clients' = clients \cup {s}
            /\ out' = [out EXCEPT ![s] = Append(@, Connected)]
    /\ UNCHANGED <<req, up>>

\* handleUpgrade.  Neo hands it the bare uWS request, which has no query, and
\* the bare response, which has no status(): the catch block throws as well.
Upgrade(s) ==
    /\ sock[s].ws = "none"
    /\ IF Adaptor = "neo" THEN Crash
       ELSE IF "upgrade" \in Hooks
            THEN sock' = [sock EXCEPT ![s].ws = "asked"] /\ UNCHANGED <<clients, req, out, up>>
            ELSE Connect(s)

\* onUpgrade calls res.upgrade(context)
Accept(s) ==
    /\ sock[s].ws = "asked"
    /\ Connect(s)

\* onUpgrade rejects or throws (401), or the client has gone
Refuse(s) ==
    /\ sock[s].ws = "asked"
    /\ sock' = [sock EXCEPT ![s].ws = "refused"]
    /\ UNCHANGED <<clients, req, out, up>>

\* the listeners are there from now on, whatever became of the socket
ConnectionHook(s) ==
    /\ sock[s].conn = "hook"
    /\ sock' = [sock EXCEPT ![s].conn = "ready"]
    /\ clients' = clients \cup {s}
    /\ Send({s}, Connected)
    /\ UNCHANGED <<req, up>>

\* nobody catches what onConnection throws
ConnectionHookThrows(s) ==
    /\ "throw" \in Behaviours
    /\ sock[s].conn = "hook"
    /\ Crash

-----------------------------------------------------------------------------
(* Messages.  Before handleConnection is through they meet no listener.    *)
(* Afterwards the client of an open socket is in the collection: the       *)
(* branch "Client not found" is never taken.                               *)

\* a message for which nobody listens yet
ReceiveLost(r) ==
    /\ req[r].st = "unsent"
    /\ Open(From[r])
    /\ ~Ready(From[r])
    /\ req' = [req EXCEPT ![r].st = "dropped"]
    /\ UNCHANGED <<sock, clients, out, up>>

\* a listener that is attached before the hook
ReceiveEarly(r) ==
    /\ req[r].st = "unsent"
    /\ Open(From[r])
    /\ req' = [req EXCEPT ![r].st = "running", ![r].ack = TRUE]
    /\ UNCHANGED <<sock, clients, out, up>>

\* a request whose handler starts
Receive(r) ==
    /\ req[r].st = "unsent"
    /\ Open(From[r])
    /\ Ready(From[r])
    /\ \E ack \in {TRUE} \cup (IF "unasked" \in Behaviours THEN {FALSE} ELSE {}) :
          req' = [req EXCEPT ![r].st = "running", ![r].ack = ack]
    /\ UNCHANGED <<sock, clients, out, up>>

\* a ping, something that is no event, an event nobody handles: answered at
\* once, whether an ack was asked for or not; what is no JSON, or null, is not
ReceiveOther(r) ==
    /\ "odd" \in Behaviours
    /\ req[r].st = "unsent"
    /\ Open(From[r])
    /\ Ready(From[r])
    /\ \/ /\ req' = [req EXCEPT ![r].st = "answered"]
          /\ Send({From[r]}, Reply)
       \/ /\ req' = [req EXCEPT ![r].st = "dropped"]
          /\ UNCHANGED out
    /\ UNCHANGED <<sock, clients, up>>

-----------------------------------------------------------------------------
(* What the handler of r does, with the client of the socket it came from  *)

Calls(r) ==
    /\ req[r].st = "running"
    /\ req[r].n < MaxSteps[r]
    /\ req' = [req EXCEPT ![r].n = @ + 1]
    /\ UNCHANGED <<clients, up>>

\* client.subscribe
Subscribe(r, t) ==
    /\ Calls(r)
    /\ sock' = IF Open(From[r]) THEN [sock EXCEPT ![From[r]].topics = @ \cup {t}] ELSE sock
    /\ Send({From[r]}, Subscribed(t))

\* a confirmation while uWS keeps the subscription
UnsubscribeConfirmed(r, t) ==
    /\ Calls(r)
    /\ Send({From[r]}, Unsubscribed(t))
    /\ UNCHANGED sock

\* client.unsubscribe
Unsubscribe(r, t) ==
    /\ Calls(r)
    /\ sock' = IF Open(From[r]) THEN [sock EXCEPT ![From[r]].topics = @ \ {t}] ELSE sock
    /\ Send({From[r]}, Unsubscribed(t))

\* client.emit
Emit(r) ==
    /\ Calls(r)
    /\ Send({From[r]}, Event(r))
    /\ UNCHANGED sock

Members(t) == {s \in Sockets : t \in sock[s].topics}

\* client.toTopic: to the others of the topic, and with self a plain event to
\* the sender.  A socket that is gone publishes nothing.
ToTopic(r, t) ==
    /\ Calls(r)
    /\ \E self \in BOOLEAN :
          out' = [s \in Sockets |->
                    IF ~Open(From[r]) THEN out[s]
                    ELSE IF s = From[r] THEN IF self THEN Append(out[s], Event(r)) ELSE out[s]
                    ELSE IF s \in Members(t) THEN Append(out[s], Published(r, t))
                    ELSE out[s]]
    /\ UNCHANGED sock

\* a publication whose payload lacks the topic
SendToTopicBare(r, t) ==
    /\ Calls(r)
    /\ Send(Members(t), [kind |-> "published", by |-> r])
    /\ UNCHANGED sock

\* senders.toTopic: publish of the app, the sender included
SendToTopic(r, t) ==
    /\ Calls(r)
    /\ Send(Members(t), Published(r, t))
    /\ UNCHANGED sock

\* senders.toUserId: to every client of the user
SendToUserId(r, s) ==
    /\ Calls(r)
    /\ Send({c \in clients : UserOf[c] = UserOf[s]}, Event(r))
    /\ UNCHANGED sock

\* senders.toClientId, when the client is there
SendToClientId(r, s) ==
    /\ s \in clients
    /\ Calls(r)
    /\ Send({s}, Event(r))
    /\ UNCHANGED sock

Finish(r) == req' = [req EXCEPT ![r].st = "done"]

\* an acknowledgment that does not look at payload.ack
HandlerEndAcking(r) ==
    /\ req[r].st = "running"
    /\ Finish(r)
    /\ Send({From[r]}, Ack(r))
    /\ UNCHANGED <<sock, clients, up>>

\* executeAsWebsocket has returned [result, error], and whichever it is goes
\* into the ack, when one was asked for
HandlerEnd(r) ==
    /\ req[r].st = "running"
    /\ Finish(r)
    /\ Send(IF req[r].ack THEN {From[r]} ELSE {}, Ack(r))
    /\ UNCHANGED <<sock, clients, up>>

-----------------------------------------------------------------------------
(* Disconnecting                                                           *)

\* the socket closes; handleDisconnect runs if its listener is there already
Close(s) ==
    /\ Open(s)
    /\ LET gone == [sock[s] EXCEPT !.ws = "closed", !.topics = {}]
       IN  IF ~Ready(s)
           THEN sock' = [sock EXCEPT ![s] = gone] /\ UNCHANGED clients
           ELSE IF "disconnect" \in Hooks
           THEN sock' = [sock EXCEPT ![s] = [gone EXCEPT !.disc = "hook"]] /\ UNCHANGED clients
           ELSE /\ sock' = [sock EXCEPT ![s] = [gone EXCEPT !.disc = "done"]]
                /\ clients' = clients \ {s}
    /\ UNCHANGED <<req, out, up>>

\* an onDisconnect that rejects ends the handler
DisconnectHookLost(s) ==
    /\ sock[s].disc = "hook"
    /\ sock' = [sock EXCEPT ![s].disc = "done"]
    /\ UNCHANGED <<clients, req, out, up>>

\* onDisconnect has returned or thrown.  The topics of a closed socket are an
\* empty list, so that unsubscribeAll finds nothing to do.
DisconnectHook(s) ==
    /\ sock[s].disc = "hook"
    /\ sock' = [sock EXCEPT ![s].disc = "done"]
    /\ clients' = clients \ {s}
    /\ UNCHANGED <<req, out, up>>

-----------------------------------------------------------------------------
Socket(s) ==
    \/ Upgrade(s) \/ Accept(s) \/ Refuse(s)
    \/ ConnectionHook(s) \/ ConnectionHookThrows(s)
    \/ Close(s) \/ DisconnectHook(s)

Request(r) ==
    \/ ReceiveLost(r) \/ Receive(r) \/ ReceiveOther(r)
    \/ Emit(r) \/ HandlerEnd(r)
    \/ \E t \in Topics : Subscribe(r, t) \/ Unsubscribe(r, t) \/ ToTopic(r, t) \/ SendToTopic(r, t)
    \/ \E s \in Sockets : SendToUserId(r, s) \/ SendToClientId(r, s)

Next ==
    /\ up
    /\ (\E s \in Sockets : Socket(s)) \/ (\E r \in Requests : Request(r))

Spec == Init /\ [][Next]_vars

-----------------------------------------------------------------------------
(* Properties                                                              *)

\* Every socket, request and message has its type.
TypeOK ==
    /\ sock \in [Sockets -> SockState]
    /\ clients \subseteq Sockets
    /\ req \in [Requests -> ReqState]
    /\ \A r \in Requests : req[r].n <= MaxSteps[r]
    /\ out \in [Sockets -> Seq(Messages)]
    /\ up \in BOOLEAN

\* A client is in the collection from the end of handleConnection to the end of
\* handleDisconnect, whatever the hooks in between do: no sender misses a
\* connected client, none finds one whose disconnection is through.
Registered == \A s \in Sockets : s \in clients <=> Ready(s) /\ sock[s].disc # "done"

\* "Collection of currently connected clients": a closed socket is in it at
\* most until its disconnect hook has returned.
NoZombie == \A s \in Sockets : s \in clients => Open(s) \/ sock[s].disc = "hook"

\* "On error, responds with HTTP 401 and closes": an upgrade does not end the
\* process.
UpgradeSurvives == up

\* The first thing a client hears is that it is connected, and it hears it once:
\* no handler, topic or sender reaches it before.
ConnectedFirst ==
    \A s \in Sockets : \A i \in 1 .. Len(out[s]) : out[s][i] = Connected <=> i = 1

\* the confirmations about t among the first n messages to s
Confirmations(s, t, n) == {i \in 1 .. n : out[s][i] \in {Subscribed(t), Unsubscribed(t)}}

ConfirmedAt(s, t, n) ==
    \E i \in Confirmations(s, t, n) :
        /\ out[s][i] = Subscribed(t)
        /\ \A j \in Confirmations(s, t, n) : j <= i

\* A client's view of its topics, made of the confirmations it got, is the
\* server's, and nothing is published to it outside a confirmed subscription,
\* however many handlers work for it at a time.
TopicsAsConfirmed ==
    \A s \in Sockets, t \in Topics :
        /\ Open(s) => (t \in sock[s].topics <=> ConfirmedAt(s, t, Len(out[s])))
        /\ \A i \in 1 .. Len(out[s]) :
              out[s][i] \in {Published(r, t) : r \in Requests} => ConfirmedAt(s, t, i)

Acks(s, r) == {i \in 1 .. Len(out[s]) : out[s][i] = Ack(r)}

\* An acknowledgment goes to the client that asked for it, once, when the
\* handler has ended, and it does come unless the client has gone.
AckDiscipline ==
    \A s \in Sockets, r \in Requests :
        /\ Acks(s, r) # {} => s = From[r] /\ req[r].ack /\ req[r].st = "done"
        /\ Cardinality(Acks(s, r)) <= 1
        /\ s = From[r] /\ req[r].ack /\ req[r].st = "done" /\ Open(s) => Acks(s, r) # {}

=============================================================================
