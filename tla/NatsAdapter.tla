----------------------------- MODULE NatsAdapter -----------------------------
(***************************************************************************)
(* A service behind the gateway (server/src/classes/Nats and IPC): its     *)
(* instances share a durable JetStream consumer, rebuild the client of     *)
(* every message from its headers, run the handler and answer through the  *)
(* gateway; client operations are requests to the gateway, and other       *)
(* services invoke the commands in ipcEvents.                              *)
(*                                                                         *)
(* Every instance is single threaded: a step is a piece of a handler up to *)
(* its next await.  NATS and the gateway are external: the stream hands    *)
(* each message to one instance and again when its ack was lost, requests  *)
(* are answered late, or never.                                            *)
(***************************************************************************)
EXTENDS Naturals, Sequences, FiniteSets

CONSTANTS
    Instances,   \* the processes that run the service
    Sockets,     \* the clients of the gateway
    Messages,    \* what the gateway publishes for the service, each at most once
    Kind,        \* what each of them is
    From,        \* the socket it is about
    Wants,       \* the operation its handler asks of the gateway
    Calls,       \* what other services invoke
    Loads,       \* which messages and calls there are to be, one of these
    None,
    Behaviours,  \* what user code and clients may do beyond the ordinary
    MaxCrashes   \* bound: crashes

Kinds == {"connected", "event", "disconnected"}
Operations == {"none", "subscribe", "unsubscribe", "toTopic", "dispatch"}

(***************************************************************************)
(* garbled  a message without the name of its event, or with data that is  *)
(*          no JSON                                                        *)
(* throw    user code throws an error with a message                       *)
(* mute     user code throws one whose message is empty, or what is no     *)
(*          error: it has no message                                       *)
(* unsendable  a command returns what cannot be encoded (a BigInt, a       *)
(*          cycle) or is too large for the connection                      *)
(***************************************************************************)
BehaviourKinds == {"garbled", "throw", "mute", "unsendable"}

ASSUME NatsAssumption ==
    /\ IsFiniteSet(Instances) /\ IsFiniteSet(Messages)
    /\ None \notin Instances
    /\ Kind \in [Messages -> Kinds]
    /\ From \in [Messages -> Sockets]
    /\ Wants \in [Messages -> Operations]
    /\ Loads \subseteq SUBSET (Messages \cup Calls)
    /\ Behaviours \subseteq BehaviourKinds
    /\ MaxCrashes \in Nat

VARIABLES
    load,      \* the messages and the calls of this behaviour
    inst,      \* how far every instance has started
    queue,     \* the stream: what waits for an instance
    job,       \* every message and the run of handleUpstream it got
    gate,      \* the sockets of the gateway
    told,      \* the confirmations sent to every socket, in order
    call,      \* the invocations
    crashes    \* bounded by MaxCrashes

vars == <<load, inst, queue, job, gate, told, call, crashes>>

(***************************************************************************)
(* bare    NatsAdapter.initialize and the IPC constructor are through,     *)
(*         engine.ws does not exist                                        *)
(* engine  engine.ws exists, the service's events are not registered       *)
(***************************************************************************)
Phase == {"down", "bare", "engine", "ready"}

(***************************************************************************)
(* st      pulled    prefetched by the instance's iterator                 *)
(*         unheard   its instance crashed before the ack was out           *)
(*         missed    answered with "No handler for event"                  *)
(*         dead      acked, then its instance crashed                      *)
(* op      the request to the gateway: "late" when the handler gave up     *)
(*         waiting, "heard" when there is nothing left to wait for         *)
(* ack     message.ack(): written to the connection, or out                *)
(* offline it was published while no instance ran                          *)
(***************************************************************************)
Job ==
    [st : {"unsent", "queued", "pulled", "unheard", "skipped", "missed", "running", "done", "dead"},
     at : Instances \cup {None}, op : {"none", "sent", "late", "ok", "refused", "heard"},
     ack : {"none", "written", "out"}, takes : Nat, answers : Nat, offline : BOOLEAN]

Fresh == [st |-> "unsent", at |-> None, op |-> "none", ack |-> "none",
          takes |-> 0, answers |-> 0, offline |-> FALSE]

(***************************************************************************)
(* ran   the command: "muted" threw without a message, "unsendable" ran to *)
(*       its end, and its result cannot be sent                            *)
(* res   what invoke() came back with                                      *)
(***************************************************************************)
Call == [ran : {"no", "running", "returned", "unsendable", "threw", "muted", "dead"},
         at : Instances \cup {None}, res : {"none", "data", "error", "timeout"}]

Idle == [ran |-> "no", at |-> None, res |-> "none"]

\* the client rebuilt from the headers of a message is its socket at the gateway
ClientOf(m) == From[m]

Init ==
    /\ load \in Loads
    /\ inst = [i \in Instances |-> "down"]
    /\ queue = << >>
    /\ job = [m \in Messages |-> Fresh]
    /\ gate = [s \in Sockets |->
           [st |-> IF \E m \in load \cap Messages : From[m] = s /\ Kind[m] = "connected"
                   THEN "none" ELSE "open",
            subscribed |-> FALSE, log |-> << >>]]
    /\ told = [s \in Sockets |-> << >>]
    /\ call = [c \in Calls |-> Idle]
    /\ crashes = 0

-----------------------------------------------------------------------------
(* An instance starts, as Server.run does it.                              *)

\* the durable consumer exists since the service was first started
Start(i) ==
    /\ inst[i] = "down"
    /\ inst' = [inst EXCEPT ![i] = "bare"]
    /\ UNCHANGED <<load, queue, job, gate, told, call, crashes>>

EngineUp(i) ==
    /\ inst[i] = "bare"
    /\ inst' = [inst EXCEPT ![i] = "engine"]
    /\ UNCHANGED <<load, queue, job, gate, told, call, crashes>>

\* after the tasks of initialize and onInitialize
Ready(i) ==
    /\ inst[i] = "engine"
    /\ inst' = [inst EXCEPT ![i] = "ready"]
    /\ UNCHANGED <<load, queue, job, gate, told, call, crashes>>

\* what was written and is not out is lost with the process
Dropped(j) ==
    IF j.ack # "out" /\ j.st # "queued" THEN [j EXCEPT !.st = "unheard", !.ack = "none"]
    ELSE IF j.st = "running"            THEN [j EXCEPT !.st = "dead"]
    ELSE j

\* also by throwing null: error.message throws in the catch block, nothing awaits it
Crash(i) ==
    /\ inst[i] # "down"
    /\ crashes < MaxCrashes
    /\ crashes' = crashes + 1
    /\ inst' = [inst EXCEPT ![i] = "down"]
    /\ job' = [m \in Messages |-> IF job[m].at = i THEN Dropped(job[m]) ELSE job[m]]
    /\ call' = [c \in Calls |-> IF call[c].at = i /\ call[c].ran = "running"
                                THEN [call[c] EXCEPT !.ran = "dead", !.at = None] ELSE call[c]]
    /\ UNCHANGED <<load, queue, gate, told>>

-----------------------------------------------------------------------------
(* The stream and the gateway (external).                                  *)

Publish(m) ==
    LET s == From[m] IN
    /\ m \in load /\ job[m].st = "unsent"
    /\ gate[s].st = (IF Kind[m] = "connected" THEN "none" ELSE "open")
    /\ gate' = CASE Kind[m] = "connected"    -> [gate EXCEPT ![s].st = "open"]
                 [] Kind[m] = "event"        -> gate
                 [] Kind[m] = "disconnected" ->
                        [gate EXCEPT ![s].st = "closed", ![s].subscribed = FALSE]
    /\ queue' = Append(queue, m)
    /\ job' = [job EXCEPT ![m].st = "queued", ![m].offline = \A i \in Instances : inst[i] = "down"]
    /\ UNCHANGED <<load, inst, told, call, crashes>>

\* mutant: the message stays in the stream
DeliverKeeping(i) ==
    /\ inst[i] # "down"
    /\ queue # << >>
    /\ job' = [job EXCEPT ![Head(queue)] = [@ EXCEPT !.st = "pulled", !.at = i]]
    /\ UNCHANGED <<load, inst, queue, gate, told, call, crashes>>

\* max_messages: 1, the iterator holds one message at a time
Deliver(i) ==
    /\ inst[i] # "down"
    /\ queue # << >>
    /\ \A m \in Messages : ~(job[m].at = i /\ job[m].st = "pulled")
    /\ job' = [job EXCEPT ![Head(queue)] = [@ EXCEPT !.st = "pulled", !.at = i]]
    /\ queue' = Tail(queue)
    /\ UNCHANGED <<load, inst, gate, told, call, crashes>>

\* ack_wait is over: to whichever instance asks next
Redeliver(m) ==
    /\ job[m].st = "unheard"
    /\ job' = [job EXCEPT ![m] = [@ EXCEPT !.st = "queued", !.at = None]]
    /\ queue' = Append(queue, m)
    /\ UNCHANGED <<load, inst, gate, told, call, crashes>>

AckOut(m) ==
    /\ job[m].ack = "written"
    /\ job' = [job EXCEPT ![m].ack = "out"]
    /\ UNCHANGED <<load, inst, queue, gate, told, call, crashes>>

\* an operation on a socket that is gone is refused; a late reply finds nobody
GatewayExecutes(m) ==
    LET s    == ClientOf(m)
        done == gate[s].st = "open" \/ Wants[m] = "dispatch"
    IN
    /\ job[m].op \in {"sent", "late"}
    /\ job' = [job EXCEPT ![m].op = IF job[m].op = "late" THEN "heard"
                                      ELSE IF done THEN "ok" ELSE "refused"]
    /\ gate' = IF done /\ Wants[m] \in {"subscribe", "unsubscribe"}
               THEN [gate EXCEPT ![s].subscribed = (Wants[m] = "subscribe"), ![s].log = Append(@, m)]
               ELSE gate
    /\ UNCHANGED <<load, inst, queue, told, call, crashes>>

\* an operation it does not know, or that fails
GatewayFails(m) ==
    /\ job[m].op = "sent"
    /\ job' = [job EXCEPT ![m].op = "refused"]
    /\ UNCHANGED <<load, inst, queue, gate, told, call, crashes>>

-----------------------------------------------------------------------------
(* handleUpstream                                                          *)

\* client.ack; what cannot be serialised throws before it is sent, and is answered as an error
Answered(j) == [j EXCEPT !.answers = @ + 1]

\* message.ack() is the first thing it does
Acked(m) == [job[m] EXCEPT !.ack = "written", !.takes = @ + 1]

\* an event is answered with its result or its error, a hook only with its error
Returned(j, m) ==
    LET f == [j EXCEPT !.st = "done"] IN IF Kind[m] = "event" THEN Answered(f) ELSE f

Threw(j) == Answered([j EXCEPT !.st = "done"])

\* mutant: no return after "No handler", the catch block answers again
MissedTwice(m) == [Answered(Answered(Acked(m))) EXCEPT !.st = "missed"]

\* a hook that does not exist is skipped, an event nobody handles is answered at once
Missed(m) == [Answered(Acked(m)) EXCEPT !.st = "missed"]

Dispatched(i, m) ==
    CASE Kind[m] # "event" /\ inst[i] = "bare"  -> [Acked(m) EXCEPT !.st = "skipped"]
      [] Kind[m] = "event" /\ inst[i] # "ready" -> Missed(m)
      [] OTHER                                  -> [Acked(m) EXCEPT !.st = "running"]

\* mutant: the loop awaits handleUpstream
NextAwaited(i, m) ==
    /\ job[m].st = "pulled" /\ job[m].at = i
    /\ \A n \in Messages : ~(job[n].at = i /\ job[n].st = "running")

\* the loop does not await handleUpstream
NextMessage(i, m) == job[m].st = "pulled" /\ job[m].at = i

Take(i) ==
    \E m \in Messages :
        /\ inst[i] # "down" /\ NextMessage(i, m)
        /\ job' = [job EXCEPT ![m] = Dispatched(i, m)]
        /\ UNCHANGED <<load, inst, queue, gate, told, call, crashes>>

\* no event in the headers: acked and dropped; no JSON in the data: codec.decode throws
TakeGarbled(i) ==
    \E m \in Messages :
        /\ "garbled" \in Behaviours
        /\ inst[i] # "down" /\ NextMessage(i, m)
        /\ \/ job' = [job EXCEPT ![m] = [Acked(m) EXCEPT !.st = "skipped"]]
           \/ /\ Kind[m] = "event" /\ inst[i] = "ready"
              /\ job' = [job EXCEPT ![m] = Threw(Acked(m))]
        /\ UNCHANGED <<load, inst, queue, gate, told, call, crashes>>

\* what the handler sends is behind the ack on the same connection
Ask(m) ==
    /\ job[m].st = "running" /\ job[m].op = "none" /\ Wants[m] # "none"
    /\ job' = [job EXCEPT ![m] = [@ EXCEPT !.op = "sent", !.ack = "out"]]
    /\ UNCHANGED <<load, inst, queue, gate, told, call, crashes>>

\* NatsClient.subscribe and unsubscribe confirm what the gateway has done
Confirmed(m) ==
    IF Wants[m] \in {"subscribe", "unsubscribe"}
    THEN [told EXCEPT ![ClientOf(m)] = Append(@, m)] ELSE told

Reply(m) ==
    /\ job[m].st = "running" /\ job[m].op = "ok"
    /\ job' = [job EXCEPT ![m].op = "heard"]
    /\ told' = Confirmed(m)
    /\ UNCHANGED <<load, inst, queue, gate, call, crashes>>

\* the error is emitted, operation() returns what error() returns: nothing
Refusal(m) ==
    /\ job[m].st = "running" /\ job[m].op = "refused" /\ Wants[m] # "dispatch"
    /\ job' = [job EXCEPT ![m].op = "heard"]
    /\ UNCHANGED <<load, inst, queue, gate, told, call, crashes>>

\* dispatchOperation throws into the handler what is refused or out of time
DispatchThrows(m) ==
    LET op == IF job[m].op = "sent" THEN "late" ELSE "heard" IN
    /\ job[m].st = "running" /\ job[m].op \in {"sent", "refused"} /\ Wants[m] = "dispatch"
    /\ job' = [job EXCEPT ![m] = Threw([@ EXCEPT !.op = op])]
    /\ UNCHANGED <<load, inst, queue, gate, told, call, crashes>>

\* mutant: no "if (!response) return null"
TimeoutConfirming(m) ==
    /\ job[m].st = "running" /\ job[m].op \in {"sent", "ok", "refused"}
    /\ job' = [job EXCEPT ![m].op = IF job[m].op = "sent" THEN "late" ELSE "heard"]
    /\ told' = Confirmed(m)
    /\ UNCHANGED <<load, inst, queue, gate, call, crashes>>

\* 50 seconds: operation() returns null, and so does its caller
OperationTimeout(m) ==
    /\ job[m].st = "running" /\ job[m].op \in {"sent", "ok", "refused"} /\ Wants[m] # "dispatch"
    /\ job' = [job EXCEPT ![m].op = IF job[m].op = "sent" THEN "late" ELSE "heard"]
    /\ UNCHANGED <<load, inst, queue, gate, told, call, crashes>>

\* the handler does not wait for its operation any more, or never asked
Idling(m) == job[m].st = "running" /\ job[m].op \in {"none", "late", "heard"}

HandlerReturns(m) ==
    /\ Idling(m)
    /\ job' = [job EXCEPT ![m] = Returned([@ EXCEPT !.ack = "out"], m)]
    /\ UNCHANGED <<load, inst, queue, gate, told, call, crashes>>

HandlerThrows(m) ==
    /\ "throw" \in Behaviours
    /\ Idling(m)
    /\ job' = [job EXCEPT ![m] = Threw([@ EXCEPT !.ack = "out"])]
    /\ UNCHANGED <<load, inst, queue, gate, told, call, crashes>>

-----------------------------------------------------------------------------
(* IPC: invoke in another service, handleReceivedEvent in an instance.     *)

\* the queue group gives it to one instance
Invoke(c, i) ==
    /\ c \in load /\ call[c] = Idle
    /\ inst[i] # "down"
    /\ call' = [call EXCEPT ![c].ran = "running", ![c].at = i]
    /\ UNCHANGED <<load, inst, queue, job, gate, told, crashes>>

NoResponders(c) ==
    /\ c \in load /\ call[c] = Idle
    /\ \A i \in Instances : inst[i] = "down"
    /\ call' = [call EXCEPT ![c].res = "error"]
    /\ UNCHANGED <<load, inst, queue, job, gate, told, crashes>>

\* a command that does not exist, or whose payload is no JSON, answers as one that throws
CommandEnds(c) ==
    /\ call[c].ran = "running"
    /\ \E how \in {"returned"} \cup (IF "throw" \in Behaviours THEN {"threw"} ELSE {})
                               \cup (IF "mute" \in Behaviours THEN {"muted"} ELSE {})
                               \cup (Behaviours \cap {"unsendable"}) :
            call' = [call EXCEPT ![c].ran = how, ![c].at = None]
    /\ UNCHANGED <<load, inst, queue, job, gate, told, crashes>>

\* mutant: the command is not awaited
ResponsesEarly(c) == {"running", "returned", "unsendable", "threw", "muted"}

\* message.respond follows the command
Responses(c) == {"returned", "unsendable", "threw", "muted"}

\* the result is encoded and sent in the try block of the command: when that fails, the catch
\* block answers with the error; an error that is empty is none to invoke
Responded(c) ==
    /\ call[c].ran \in Responses(c) /\ call[c].res = "none"
    /\ call' = [call EXCEPT ![c].res = IF call[c].ran \in {"threw", "unsendable"}
                                           THEN "error" ELSE "data"]
    /\ UNCHANGED <<load, inst, queue, job, gate, told, crashes>>

\* 50 seconds; what was asked for may still happen
InvokeTimeout(c) ==
    /\ call[c].ran # "no" /\ call[c].res = "none"
    /\ call' = [call EXCEPT ![c].res = "timeout"]
    /\ UNCHANGED <<load, inst, queue, job, gate, told, crashes>>

-----------------------------------------------------------------------------
Next ==
    \/ \E i \in Instances :
           Start(i) \/ EngineUp(i) \/ Ready(i) \/ Crash(i) \/ Deliver(i) \/ Take(i) \/ TakeGarbled(i)
    \/ \E m \in Messages :
           \/ Publish(m) \/ Redeliver(m) \/ AckOut(m) \/ GatewayExecutes(m) \/ GatewayFails(m)
           \/ Ask(m) \/ Reply(m) \/ Refusal(m) \/ OperationTimeout(m) \/ DispatchThrows(m)
           \/ HandlerReturns(m) \/ HandlerThrows(m)
    \/ \E c \in Calls :
           \/ \E i \in Instances : Invoke(c, i)
           \/ NoResponders(c) \/ CommandEnds(c) \/ Responded(c) \/ InvokeTimeout(c)

(***************************************************************************)
(* A stream that has messages hands them out, a loop that has one runs,    *)
(* and ack_wait runs out.  User code may hang, the gateway may be silent.  *)
(***************************************************************************)
Fairness ==
    /\ \A i \in Instances : WF_vars(Deliver(i)) /\ WF_vars(Take(i) \/ TakeGarbled(i))
    /\ \A m \in Messages : WF_vars(Redeliver(m))

Spec == Init /\ [][Next]_vars /\ Fairness

-----------------------------------------------------------------------------
(* Properties                                                              *)

\* Every value has its type; the stream holds each message that is queued once and nothing
\* else (adapter.ts, initialize: each message goes to one instance).
TypeOK ==
    /\ load \in Loads
    /\ inst \in [Instances -> Phase]
    /\ queue \in Seq(Messages)
    /\ \A k, l \in 1 .. Len(queue) : queue[k] = queue[l] => k = l
    /\ {queue[k] : k \in 1 .. Len(queue)} = {m \in Messages : job[m].st = "queued"}
    /\ job \in [Messages -> Job]
    /\ gate \in [Sockets -> [st : {"none", "open", "closed"}, subscribed : BOOLEAN, log : Seq(Messages)]]
    /\ told \in [Sockets -> Seq(Messages)]
    /\ call \in [Calls -> Call]
    /\ crashes \in 0 .. MaxCrashes

\* However often a message is delivered again, the client gets at most one answer for each
\* time a handler was dispatched, and no event is done with without one: no path through
\* handleUpstream acks twice (handleUpstream.ts, the early returns and the catch block).
AnsweredOnce ==
    \A m \in Messages :
        /\ job[m].answers <= job[m].takes
        /\ Kind[m] = "event" /\ job[m].st \in {"done", "missed"} => job[m].answers > 0

\* A client is told "topic:subscribed" or "topic:unsubscribed" at most once for each message,
\* and only of what the gateway has done, whatever is refused, late or given up
\* (client.ts, subscribe and unsubscribe: the guards on the response).
NoFalseConfirmation ==
    \A s \in Sockets : \A k \in 1 .. Len(told[s]) :
        /\ \E e \in 1 .. Len(gate[s].log) : gate[s].log[e] = told[s][k]
        /\ \A l \in 1 .. Len(told[s]) : told[s][k] = told[s][l] => k = l

\* An invocation that comes back with data has a command behind it that ran to its end, or
\* threw without a message, which invoke() takes for no error.  One that comes back with an
\* error met no instance, or its command is over: it threw, or it ran to its end and only its
\* result could not be sent - an error does not say that nothing was done.  Neither comes back
\* of a command that still runs, or that ended with its process (handleReceivedEvent.ts: the
\* command, the encoding and the answer share one try block; invoke.ts).
SuccessMeansDone ==
    \A c \in Calls :
        /\ call[c].res = "data" => call[c].ran \in {"returned", "muted"}
        /\ call[c].res = "error" => call[c].ran \in {"no", "threw", "unsendable"}

Waiting(m) == job[m].st \in {"queued", "pulled", "unheard"}

\* Once some instance runs for good, the stream runs empty again and again, with nothing
\* prefetched or unacked left: every message reaches handleUpstream, though handlers of earlier
\* ones never return and instances crash with messages they had not acked (adapter.ts, the event
\* loop does not await handleUpstream).
Consumed ==
    <>[](\E i \in Instances : inst[i] # "down") => []<>(\A m \in Messages : ~Waiting(m))

\* adapter.ts:72 says the durable consumer is created "so messages are not lost if this instance
\* is temporarily down": what was published meanwhile finds its handler.
NotLost == \A m \in Messages : job[m].offline => job[m].st # "missed"

=============================================================================
