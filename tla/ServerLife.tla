------------------------------ MODULE ServerLife ------------------------------
(***************************************************************************)
(* The life of a service: the bootloader and its watcher, the boot         *)
(* sequence of Server.run, the listing the gateway is sent, the signals    *)
(* and the two ways the listen socket is closed                            *)
(* (server/bootloader, server/src/server.ts, registers, engines/neo).      *)
(*                                                                         *)
(* A step of a process is what run() does between two awaits; a signal is  *)
(* handled before the next step.  The watcher is a process of its own; it  *)
(* forks a child for every reload, so that an old child and a new one      *)
(* overlap.                                                                *)
(***************************************************************************)
EXTENDS Naturals, Sequences, FiniteSets

CONSTANTS
    Wanted,      \* what the service's class and its environment ask to be registered
    Breakable,   \* those of it that may not initialise, or export no handler
    Behaviours,  \* what may go wrong in the service's own code
    MaxEdits,    \* bound: changes of the source
    MaxFaults    \* bound: boot sequences that fail, and signals sent by somebody else

(***************************************************************************)
(* The routes and events of the engine: who registers them (default: the   *)
(* engine itself; hook: the service's own code before it is declared;      *)
(* late: in afterInitialize), and whether they have a reserved name: "/"   *)
(* or "/_map" of a route, "ping", "topic:subscribe" or "topic:unsubscribe" *)
(* of an event.  Anybody may use those.                                    *)
(***************************************************************************)
Sources == {"default", "hook", "routes", "wsEvents", "files", "wsFiles", "base", "plugins", "late"}

Registrations == [by : Sources, name : {"own", "reserved"}]

By(S) == {r \in Registrations : r.by \in S}

\* "/*" is the engine's, "ping" is built in, "/" and "/_map" are the base routes
CatchAll == [by |-> "default", name |-> "own"]
BuiltIn  == [by : {"default", "base"}, name : {"reserved"}]

\* what the gateway is not told of is decided by the name alone
Internal(r) == r.name = "reserved"

(***************************************************************************)
(* signal   somebody sends SIGTERM, SIGINT or SIGUSR2                      *)
(* fail     a task, a hook, a module or a server it needs fails            *)
(***************************************************************************)
BehaviourKinds == {"signal", "fail"}

ASSUME LifeAssumption ==
    /\ Wanted \subseteq By(Sources \ {"default", "base"}) \cup BuiltIn
    /\ Breakable \subseteq Wanted \ BuiltIn
    /\ Behaviours \subseteq BehaviourKinds
    /\ MaxEdits \in Nat /\ MaxFaults \in Nat

Pids == 1 .. MaxEdits + 1    \* the children, in the order they are forked

VARIABLES
    broken,    \* the registrations that cannot be initialised
    edits,     \* the version of the source
    watch,     \* the watcher
    proc,      \* every child
    faults     \* bounded by MaxFaults

vars == <<broken, edits, watch, proc, faults>>

\* mutant: the gateway is told before the file system was scanned
OrderEarly ==
    <<"boot", "nats", "engine", "init", "hook", "publish", "files", "wsFiles", "base",
      "plugins", "listen", "after", "ready">>

\* what a process waits for, in the order of Boot and Server.run
Order ==
    <<"boot", "nats", "engine", "init", "hook", "files", "wsFiles", "base", "publish",
      "plugins", "listen", "after", "ready">>

Place(pc) == CHOOSE k \in 1 .. Len(Order) : Order[k] = pc
Then(pc)  == Order[Place(pc) + 1]

(***************************************************************************)
(* ver, files  the version its main module and its route files are of      *)
(* sock        the engine's listen socket; closes counts the calls of      *)
(*             us_listen_socket_close, hooks those of onClose              *)
(* armed       the engine's SIGUSR2 listener is installed                  *)
(* pub         what it told the gateway                                    *)
(* sig         signals that are not handled yet                            *)
(* fault       what failed, or that somebody else sent it a signal         *)
(***************************************************************************)
Proc ==
    [pc : {"none", "dead"} \cup {Order[k] : k \in 1 .. Len(Order)}, ver : 0 .. MaxEdits,
     files : 0 .. MaxEdits, sock : {"none", "open", "closed"}, closes : Nat, hooks : Nat,
     armed : BOOLEAN, regs : SUBSET Registrations, pub : SUBSET {r \in Registrations : ~Internal(r)},
     sig : SUBSET {"TERM", "USR2"}, fault : {"none", "boot", "init", "middleware", "run", "signal"}]

Unborn == [pc |-> "none", ver |-> 0, files |-> 0, sock |-> "none", closes |-> 0, hooks |-> 0,
           armed |-> FALSE, regs |-> {}, pub |-> {}, sig |-> {}, fault |-> "none"]

\* a fork runs the bootloader from its start
Born == [Unborn EXCEPT !.pc = "boot"]

\* main() of run.js: with --watch the first child is forked at once
Init ==
    /\ broken \in SUBSET Breakable
    /\ edits = 0
    /\ watch = [child |-> 1, unnoticed |-> FALSE, timer |-> FALSE, used |-> FALSE]
    /\ proc = [p \in Pids |-> IF p = 1 THEN Born ELSE Unborn]
    /\ faults = 0

Alive(p) == proc[p].pc \notin {"none", "dead"}

-----------------------------------------------------------------------------
(* The end of a process.                                                   *)

\* mutant: listen_socket is not set to null
CloseAgain(q) ==
    IF q.sock = "none" THEN q ELSE [q EXCEPT !.sock = "closed", !.closes = @ + 1]

\* Engine.close
Close(q) == IF q.sock = "open" THEN [q EXCEPT !.sock = "closed", !.closes = @ + 1] ELSE q

\* Server._fireClose, the exit handler of Boot
FireClose(q) == Close([q EXCEPT !.hooks = @ + 1])

\* nothing of a process is left but what it did
Gone(q) == [Unborn EXCEPT !.pc = "dead", !.sock = q.sock, !.closes = q.closes, !.hooks = q.hooks,
                          !.fault = q.fault]

\* the exit handlers in the order they were installed: Boot's, then the engine's
Exited(q) ==
    LET r == FireClose(q) IN Gone(IF q.armed THEN Close(r) ELSE r)

\* before Boot installs its handlers, and by a signal nobody listens to
Killed(q) == Gone(q)

\* SIGTERM and SIGINT: process.exit(0) in Boot's listener, which is before the engine's
HandleTerm(p) ==
    /\ Alive(p) /\ "TERM" \in proc[p].sig
    /\ proc' = [proc EXCEPT ![p] = IF @.pc = "boot" THEN Killed(@) ELSE Exited(@)]
    /\ UNCHANGED <<broken, edits, watch, faults>>

\* the engine's listener closes, once
Usr2Heard(q) == [Close(q) EXCEPT !.armed = FALSE, !.sig = @ \ {"USR2"}]

\* SIGUSR2: the process lives on, if there is a listener
HandleUsr2(p) ==
    /\ Alive(p) /\ "USR2" \in proc[p].sig
    /\ proc' = [proc EXCEPT ![p] = IF @.armed THEN Usr2Heard(@) ELSE Killed(@)]
    /\ UNCHANGED <<broken, edits, watch, faults>>

Fault == faults < MaxFaults /\ faults' = faults + 1

Signalled(q, s) == [q EXCEPT !.sig = @ \cup {s}]

Signal(p, s) ==
    /\ "signal" \in Behaviours /\ Alive(p) /\ Fault
    /\ proc' = [proc EXCEPT ![p] = [Signalled(@, s) EXCEPT !.fault = "signal"]]
    /\ UNCHANGED <<broken, edits, watch>>

\* boot.js logs it; nothing keeps the process alive, and it has no exit handler
BootFails(p) ==
    /\ "fail" \in Behaviours /\ proc[p].pc = "boot" /\ Fault
    /\ proc' = [proc EXCEPT ![p] = [Killed(@) EXCEPT !.fault = "boot"]]
    /\ UNCHANGED <<broken, edits, watch>>

\* process.exit(1) after a failed task or onInitialize
InitFails(p) ==
    /\ "fail" \in Behaviours /\ proc[p].pc \in {"init", "hook"} /\ Fault
    /\ proc' = [proc EXCEPT ![p] = [Exited(@) EXCEPT !.fault = "init"]]
    /\ UNCHANGED <<broken, edits, watch>>

\* a middleware of the class does not exist: registerBaseMiddlewares is not awaited, run() gets as
\* far as its next await before the rejection nobody catches ends the process
MiddlewareMissing(p) ==
    /\ "fail" \in Behaviours /\ proc[p].pc = "files" /\ Fault
    /\ proc' = [proc EXCEPT ![p] = [Exited(@) EXCEPT !.fault = "middleware"]]
    /\ UNCHANGED <<broken, edits, watch>>

\* run() rejects, nobody catches it: no NATS, no certificate, a module or a plugin that throws, a
\* busy port; or, whenever it hears of it, a gateway that is away
RunFails(p) ==
    /\ "fail" \in Behaviours /\ proc[p].pc \notin {"none", "dead", "boot", "init", "hook"}
    /\ Fault
    /\ proc' = [proc EXCEPT ![p] = [Exited(@) EXCEPT !.fault = "run"]]
    /\ UNCHANGED <<broken, edits, watch>>

-----------------------------------------------------------------------------
(* The boot sequence.                                                      *)

\* the params, merged in the constructor, and the environment decide what is asked for
Asked(S) == By(S) \cap Wanted

\* a route that cannot be initialised is logged and skipped
Initialised(S) == Asked(S) \ broken

\* an event that is no function and has none is logged and skipped
EventsOf(S) == Asked(S) \ broken

\* process p is through with what it waited for at pc, and becomes q but for its place
Through(p, pc, q) ==
    /\ proc[p].pc = pc /\ proc[p].sig = {}
    /\ proc' = [proc EXCEPT ![p] = [q EXCEPT !.pc = Then(pc)]]
    /\ UNCHANGED <<broken, edits, watch, faults>>

Registers(p, pc, R) == Through(p, pc, [proc[p] EXCEPT !.regs = @ \cup R])

\* a directory is walked, its modules are loaded as they are now
Scanned(q, R) == [q EXCEPT !.files = edits, !.regs = @ \cup R]

\* Boot loads the secrets and the main module, and installs its handlers
Boot(p) == Through(p, "boot", [proc[p] EXCEPT !.ver = edits])

NatsUp(p) == Through(p, "nats", proc[p])

\* the engine registers its default route itself, and with websockets the built-in events
EngineUp(p) == Registers(p, "engine", {CatchAll} \cup Asked({"default"}))

InitTasks(p) == Through(p, "init", proc[p])

\* those of onInitialize, and then the registrations of the class
Declared(p) == Registers(p, "hook", Initialised({"hook", "routes"}) \cup EventsOf({"wsEvents"}))

FileRoutes(p) == Through(p, "files", Scanned(proc[p], Initialised({"files"})))

WsFileEvents(p) == Through(p, "wsFiles", Scanned(proc[p], EventsOf({"wsFiles"})))

BaseRoutes(p) == Registers(p, "base", Initialised({"base"}))

\* mutant: "/" and "/_map" are listed too
PublishAll(p) == Through(p, "publish", [proc[p] EXCEPT !.pub = proc[p].regs])

\* getRoutes, less what is internal by its name
Publish(p) == Through(p, "publish", [proc[p] EXCEPT !.pub = {r \in proc[p].regs : ~Internal(r)}])

Plugins(p) == Registers(p, "plugins", Initialised({"plugins"}))

\* mutant: engine.listen() is not awaited, and the port is busy
ListenUnawaited(p) == Through(p, "listen", proc[p])

\* resolves with the socket, and only then
Listen(p) == Through(p, "listen", [proc[p] EXCEPT !.sock = "open", !.armed = TRUE])

\* afterInitialize; Boot reports "ready"
AfterInitialize(p) == Registers(p, "after", Initialised({"late"}))

-----------------------------------------------------------------------------
(* The watcher.                                                            *)

Edit ==
    /\ edits < MaxEdits
    /\ edits' = edits + 1
    /\ watch' = [watch EXCEPT !.unnoticed = TRUE]
    /\ UNCHANGED <<broken, proc, faults>>

\* mutant: a timer that exists is left alone, also when it has fired
DebouncedOnce(w) == [w EXCEPT !.timer = @ \/ ~w.used, !.used = TRUE]

\* selfReloadDebounce: the timer starts again
Debounced(w) == [w EXCEPT !.timer = TRUE, !.used = TRUE]

Noticed ==
    /\ watch.unnoticed
    /\ watch' = Debounced([watch EXCEPT !.unnoticed = FALSE])
    /\ UNCHANGED <<broken, edits, proc, faults>>

\* selfReload: SIGTERM to the child, which may be gone, and the next one at once
Reload ==
    LET old == watch.child IN
    /\ watch.timer
    /\ watch' = [watch EXCEPT !.timer = FALSE, !.child = old + 1]
    /\ proc' = [proc EXCEPT ![old] = IF Alive(old) THEN Signalled(@, "TERM") ELSE @, ![old + 1] = Born]
    /\ UNCHANGED <<broken, edits, faults>>

-----------------------------------------------------------------------------
\* what does not wait for the service's own code
Framework(p) ==
    \/ Boot(p) \/ NatsUp(p) \/ EngineUp(p) \/ FileRoutes(p) \/ WsFileEvents(p) \/ BaseRoutes(p)
    \/ Publish(p) \/ Listen(p)

Next ==
    \/ \E p \in Pids :
           \/ Framework(p) \/ InitTasks(p) \/ Declared(p) \/ Plugins(p) \/ AfterInitialize(p)
           \/ HandleTerm(p) \/ HandleUsr2(p) \/ BootFails(p) \/ InitFails(p)
           \/ MiddlewareMissing(p) \/ RunFails(p)
           \/ \E s \in {"TERM", "USR2"} : Signal(p, s)
    \/ Edit \/ Noticed \/ Reload

(***************************************************************************)
(* The framework's own steps are not put off for ever, signals are         *)
(* delivered, the watcher hears of changes and its timer fires.  Tasks,    *)
(* hooks and plugins of the service may hang.                              *)
(***************************************************************************)
Fairness ==
    /\ \A p \in Pids : WF_vars(Framework(p)) /\ WF_vars(HandleTerm(p))
    /\ WF_vars(Noticed) /\ WF_vars(Reload)

Spec == Init /\ [][Next]_vars /\ Fairness

-----------------------------------------------------------------------------
(* Properties                                                              *)

\* Every value has its type: in particular the gateway is never told of a reserved name.
TypeOK ==
    /\ broken \subseteq Breakable
    /\ edits \in 0 .. MaxEdits
    /\ watch \in [child : Pids, unnoticed : BOOLEAN, timer : BOOLEAN, used : BOOLEAN]
    /\ proc \in [Pids -> Proc]
    /\ faults \in 0 .. MaxFaults

\* Over SIGUSR2, SIGTERM and the two exit handlers the listen socket is closed at most once,
\* onClose is called at most once, and a process that is gone has left no socket open
\* (close.ts, _fireClose, boot_function.js).
ClosedOnce ==
    \A p \in Pids :
        /\ proc[p].closes <= 1 /\ proc[p].hooks <= 1
        /\ proc[p].sock = "closed" <=> proc[p].closes = 1
        /\ proc[p].pc = "dead" => proc[p].sock # "open"

\* A process that reports ready listens, unless SIGUSR2 has closed its socket: afterInitialize
\* runs and "ready" is sent only once the port is bound (server.ts, run; boot_function.js).
ReadyMeansListening ==
    \A p \in Pids :
        proc[p].pc \in {"after", "ready"} =>
            proc[p].sock = "open" \/ (proc[p].fault = "signal" /\ ~proc[p].armed)

\* A service that is ready has told the gateway of exactly what it serves, whoever registered it,
\* but for what has a reserved name - the service's own "/" and events among it - and for what
\* plugins and afterInitialize registered, which the gateway never hears of (server.ts, run: it is
\* told after the scans of the file system and before the plugins; gateway.ts, the filters).
ListingComplete ==
    \A p \in Pids : \A r \in Registrations :
        proc[p].pc = "ready" =>
            (r \in proc[p].pub <=>
                r \in proc[p].regs /\ r.name = "own" /\ r.by \notin {"plugins", "late"})

Newest == proc[watch.child]

\* When the edits are over, the older children end, and the newest has loaded its main module and
\* its route files at the last version and listens, unless its own code hangs or something failed:
\* no change is lost between the events, the debounce and the forks (run.js).
LastChangeServed ==
    <>[] /\ \A p \in Pids : p < watch.child => ~Alive(p)
         /\ \/ Newest.fault # "none"
            \/ /\ Newest.ver = edits
               /\ Newest.pc \in {"init", "hook", "plugins", "after", "ready"}
               /\ Newest.pc = "ready" => Newest.files = edits /\ Newest.sock = "open"

=============================================================================
