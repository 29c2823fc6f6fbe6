------------------------------ MODULE NeoHttp ------------------------------
(***************************************************************************)
(* The HTTP pipeline of the Neo engine (server/src/engines/neo): what      *)
(* happens to a request between the uWS route callback and the moment its  *)
(* Response is completed.                                                  *)
(*                                                                         *)
(* The process is single threaded.  A step of this module is the code that *)
(* runs between two points where it may be suspended: a uWS callback       *)
(* (request, body data, abort), a piece of a middleware or handler up to   *)
(* its next await, or the continuation of an await.  Middlewares and       *)
(* handlers are the user's: what they may do next is a free choice, cut    *)
(* down by the constant Behaviours.                                        *)
(***************************************************************************)
EXTENDS Integers, FiniteSets

CONSTANTS
    Requests,   \* the requests the clients send, each at most once
    Global,     \* number of middlewares of the engine (Engine.middlewares)
    RouteMw,    \* number of middlewares of the route a request matches
    Behaviours, \* what user code, clients and sockets may do beyond the ordinary
    MaxRuns     \* bound: handler executions of one request that are followed

(***************************************************************************)
(* throw        a middleware or handler throws an Error or rejects with it *)
(* throw_null   it throws null or undefined                                *)
(* listener     a finish, close or abort listener of user code throws      *)
(* double_next  a middleware calls next() again                            *)
(* late         a middleware calls next() or answers after it has returned *)
(* no_reply     a handler returns nothing and has not answered             *)
(* sized        a handler calls stream() with a total_size                 *)
(* short        a Readable ends before total_size bytes                    *)
(* backpressure uWS does not take a whole chunk                            *)
(* User code is taken not to catch what next() rejects with.  What a       *)
(* listener throws it may catch or let through, so that listener comes     *)
(* with throw.                                                             *)
(***************************************************************************)
BehaviourKinds ==
    {"throw", "throw_null", "listener", "double_next", "late", "no_reply", "sized",
     "short", "backpressure"}

ASSUME ConfigAssumption ==
    /\ IsFiniteSet(Requests)
    /\ Global \in Nat
    /\ RouteMw \in [Requests -> Nat]
    /\ Behaviours \subseteq BehaviourKinds
    /\ "listener" \in Behaviours => "throw" \in Behaviours
    /\ MaxRuns \in Nat \ {0, 1}

VARIABLES
    req,       \* the Request/Response pair of every request, and its frames
    count,     \* Engine.pending_requests_count
    up         \* the process runs; an unhandled rejection ends it

vars == <<req, count, up>>

-----------------------------------------------------------------------------
(* The merged chain of a request, and whether on_request skips the iterator *)

Chain(r) == Global + RouteMw[r]
Fast(r)  == Global <= 1 /\ RouteMw[r] = 0
Mws(r)   == 0 .. Chain(r) - 1
Runs     == 1 .. MaxRuns

RawStates  == {"none", "open", "ended", "closed", "aborted"}
BodyStates == {"none", "partial", "whole", "parsed", "oversize"}
MwStates   == {"idle", "running", "advanced", "returned", "done", "threw"}
RunStates  == {"idle", "running", "streaming", "sizing", "flushed", "stalled", "done"}

(***************************************************************************)
(* raw        the uWS HttpResponse: not there yet, usable, or finished     *)
(* body       Request._received and the state of _body_promise             *)
(* completed  Response.completed                                           *)
(* streamed   stream() with a total_size has resolved the pending request  *)
(* sse        Response.sse has written its headers                         *)
(* cursor     Response._middleware_cursor                                  *)
(* mw         middleware i: its function runs, runs and has called next(), *)
(*            has finished without calling next(), has finished, has thrown *)
(* runs       how often route.handler.execute was called                   *)
(* run        each of these executions                                     *)
(***************************************************************************)
ReqState(r) ==
    [raw : RawStates, body : BodyStates, completed : BOOLEAN,
     streamed : BOOLEAN, sse : BOOLEAN, cursor : -1 .. Chain(r) - 1,
     mw : [Mws(r) -> MwStates], runs : 0 .. MaxRuns, run : [Runs -> RunStates]]

Unborn(r) ==
    [raw |-> "none", body |-> "none", completed |-> FALSE, streamed |-> FALSE,
     sse |-> FALSE, cursor |-> -1, mw |-> [i \in Mws(r) |-> "idle"],
     runs |-> 0, run |-> [j \in Runs |-> "idle"]]

Init ==
    /\ req = [r \in Requests |-> Unborn(r)]
    /\ count = 0
    /\ up = TRUE

-----------------------------------------------------------------------------
(* Completion.  Every operator takes the state q the step has given r so   *)
(* far and the counter c, and finishes the step.                           *)

\* Engine._resolve_pending_request
Resolve(c) == IF c < 1 THEN c ELSE c - 1

\* the step ends here
Leave(r, q, c) ==
    /\ req' = [req EXCEPT ![r] = q]
    /\ count' = c
    /\ up' = up

\* the step ends in a rejection nobody handles, and Node stops the process
Crash(r, q, c) ==
    /\ req' = [req EXCEPT ![r] = q]
    /\ count' = c
    /\ up' = FALSE

\* what user code may throw
Throws == Behaviours \cap {"throw", "throw_null"}

\* user code has been called, and may have registered listeners
Entered(r, q) == q.runs > 0 \/ \E i \in Mws(r) : q.mw[i] # "idle"

\* the state behind raw.end, and the state behind all of send()
Ended(q)   == [q EXCEPT !.raw = "ended"]
Replied(q) == [q EXCEPT !.completed = TRUE, !.raw = "ended"]

\* Send with the test of completed left out
SendUnchecked(r, q, c) ==
    IF q.raw = "open" THEN Leave(r, Replied(q), Resolve(c)) ELSE Crash(r, q, c)

\* Response.send: nothing when completed; otherwise raw.end, and uWS throws
\* when the raw response is already finished.  The 500 of the catch blocks
\* then throws as well, so that the rejection reaches the top.
Send(r, q, c) ==
    \/ /\ q.completed
       /\ Leave(r, q, c)
    \/ /\ ~q.completed
       /\ q.raw = "open"
       /\ Leave(r, Replied(q), Resolve(c))
    \/ /\ ~q.completed
       /\ q.raw # "open"
       /\ Crash(r, q, c)

\* send() with a listener that throws: a finish listener before completed is
\* set and the request resolved, a close listener after both
Fires(q) == "listener" \in Behaviours /\ ~q.completed /\ q.raw = "open"

FinishCaught(r, q, c) == Fires(q) /\ Leave(r, Ended(q), c)
FinishThrows(r, q, c) == Fires(q) /\ Crash(r, Ended(q), c)
CloseThrows(r, q, c)  == Fires(q) /\ Crash(r, Replied(q), Resolve(c))

\* send() called by user code, which may catch what it throws
UserSend(r, q, c) ==
    Send(r, q, c) \/ FinishCaught(r, q, c) \/ FinishThrows(r, q, c) \/ CloseThrows(r, q, c)

\* send() called by a wrapper of the framework.  After a finish listener every
\* catch block on the way up calls raw.end again and throws; after a close
\* listener the next catch block finds completed set.
EngineSend(r, q, c) == Send(r, q, c) \/ FinishThrows(r, q, c)

\* route.handler.execute up to the first await of the handler
Handle(r, q, c) ==
    /\ q.runs < MaxRuns
    /\ LET n == q.runs + 1
       IN  Leave(r, [q EXCEPT !.runs = n, !.run = [q.run EXCEPT ![n] = "running"]], c)

\* the iterator storing the cursor of the next middleware
IterateAhead(r, q, i, c) ==
    \/ q.completed /\ Leave(r, q, c)
    \/ /\ ~q.completed /\ i \in Mws(r)
       /\ Leave(r, [q EXCEPT !.cursor = i + 1, !.mw[i] = "running"], c)
    \/ ~q.completed /\ i \notin Mws(r) /\ Handle(r, q, c)

\* the iterator without its test of completed
IterateUnchecked(r, q, i, c) ==
    \/ i \in Mws(r) /\ Leave(r, [q EXCEPT !.cursor = i, !.mw[i] = "running"], c)
    \/ i \notin Mws(r) /\ Handle(r, q, c)

\* the iterator without _track_middleware_cursor
IterateUntracked(r, q, i, c) ==
    \/ q.completed /\ Leave(r, q, c)
    \/ ~q.completed /\ i \in Mws(r) /\ Leave(r, [q EXCEPT !.mw[i] = "running"], c)
    \/ ~q.completed /\ i \notin Mws(r) /\ Handle(r, q, c)

\* request_iterator with cursor i, up to the first await of what it calls
Iterate(r, q, i, c) ==
    \/ /\ q.completed
       /\ Leave(r, q, c)
    \/ /\ ~q.completed
       /\ i \in Mws(r)
       /\ q.cursor = -1 \/ i > q.cursor
       /\ Leave(r, [q EXCEPT !.cursor = i, !.mw[i] = "running"], c)
    \/ /\ ~q.completed            \* _track_middleware_cursor throws: 500
       /\ i \in Mws(r)
       /\ q.cursor # -1 /\ i <= q.cursor
       /\ UserSend(r, q, c)
    \/ /\ ~q.completed
       /\ i \notin Mws(r)
       /\ Handle(r, q, c)

\* runMiddlewares of the fast path when there is no engine middleware, when the
\* function returns a promise, when it returns otherwise, and when it answers
FastRun(r, q, c) ==
    \/ /\ Global = 0
       /\ Handle(r, q, c)
    \/ /\ Global = 1
       /\ Leave(r, [q EXCEPT !.mw[0] = "running"], c)
    \/ /\ Global = 1
       /\ Handle(r, [q EXCEPT !.mw[0] = "done"], c)
    \/ /\ Global = 1
       /\ Send(r, [q EXCEPT !.mw[0] = "done"], c)

-----------------------------------------------------------------------------
(* uWS callbacks                                                           *)

\* a request with the method's kind of body: none for BODYLESS_METHODS
Accepted(r, b) == [Unborn(r) EXCEPT !.raw = "open", !.body = b]

\* on_request going on before the body is there
ArriveNoWait(r) ==
    LET q == Accepted(r, "partial")
    IN  IF Fast(r) THEN FastRun(r, q, count + 1) ELSE Iterate(r, q, 0, count + 1)

\* on_request for a method with a body: the parser listens, the rest waits
ArriveWithBody(r) == Leave(r, Accepted(r, "partial"), count + 1)

\* on_request without a body runs on synchronously
ArriveFast(r) ==
    /\ Fast(r)
    /\ FastRun(r, Accepted(r, "none"), count + 1)

ArriveSlow(r) ==
    /\ ~Fast(r)
    /\ Iterate(r, Accepted(r, "none"), 0, count + 1)

\* The only middleware is no async function and throws into on_request.  Its
\* catch block ends the raw response itself.  If exception is null, or if the
\* middleware has answered before (to the end, or up to a finish listener that
\* throws), the block throws and the exception leaves the uWS callback.
ArriveThrow(r) ==
    /\ Fast(r)
    /\ Global = 1
    /\ LET q == [Accepted(r, "none") EXCEPT !.mw[0] = "threw"]
       IN  \/ "throw" \in Behaviours /\ Leave(r, Ended(q), count + 1)
           \/ "throw_null" \in Behaviours /\ Crash(r, q, count + 1)
           \/ Throws # {} /\ Crash(r, Replied(q), Resolve(count + 1))
           \/ "listener" \in Behaviours /\ Crash(r, Ended(q), count + 1)

Arrive(r) ==
    /\ req[r].raw = "none"
    /\ ArriveWithBody(r) \/ ArriveFast(r) \/ ArriveSlow(r) \/ ArriveThrow(r)

\* onData with too many bytes: 413, and _onDone is never called
BodyTooLarge(r) ==
    /\ req[r].body = "partial"
    /\ ~req[r].completed
    /\ Send(r, [req[r] EXCEPT !.body = "oversize"], count)

\* onData with the last chunk resolves the body promise
BodyEnd(r) ==
    /\ req[r].body = "partial"
    /\ ~req[r].completed
    /\ Leave(r, [req[r] EXCEPT !.body = "whole"], count)

\* the continuation of parseBody(); a synchronous throw of the only
\* middleware is now a rejection of the promise nobody waits for
BodyResume(r) ==
    /\ req[r].body = "whole"
    /\ LET q == [req[r] EXCEPT !.body = "parsed"]
       IN  \/ /\ q.completed
              /\ Leave(r, q, count)
           \/ /\ ~q.completed
              /\ Fast(r)
              /\ FastRun(r, q, count)
           \/ /\ ~q.completed
              /\ Fast(r)
              /\ Global = 1
              /\ Throws # {}
              /\ Crash(r, [q EXCEPT !.mw[0] = "threw"], count)
           \/ /\ ~q.completed
              /\ ~Fast(r)
              /\ Iterate(r, q, 0, count)

\* an abort that forgets to resolve the pending request
AbortUncounted(r) ==
    /\ req[r].raw = "open"
    /\ Leave(r, [req[r] EXCEPT !.raw = "aborted", !.completed = TRUE], count)

\* onAborted: the client is gone before the response has ended.  What an
\* abort or close listener throws leaves the uWS callback.
Abort(r) ==
    /\ req[r].raw = "open"
    /\ LET q == [req[r] EXCEPT !.raw = "aborted"]
           p == [q EXCEPT !.completed = TRUE]
       IN  \/ q.completed /\ Leave(r, q, count)
           \/ ~q.completed /\ Leave(r, p, Resolve(count))
           \/ /\ ~q.completed
              /\ "listener" \in Behaviours
              /\ Entered(r, q)
              /\ Crash(r, p, Resolve(count))

-----------------------------------------------------------------------------
(* Middlewares                                                             *)

InMw(r, i) == req[r].mw[i] \in {"running", "advanced"}

\* the middleware answers the request itself
MwSend(r, i) ==
    /\ InMw(r, i) \/ ("late" \in Behaviours /\ req[r].mw[i] \in {"returned", "done"})
    /\ ~req[r].completed
    /\ UserSend(r, req[r], count)

\* next() of the iterator.  The next() of the fast path is EMPTY_NEXT.
MwNext(r, i) ==
    /\ ~Fast(r)
    /\ \/ /\ req[r].mw[i] = "running"
          /\ Iterate(r, [req[r] EXCEPT !.mw[i] = "advanced"], i + 1, count)
       \/ /\ "double_next" \in Behaviours
          /\ req[r].mw[i] \in {"advanced", "done"}
          /\ Iterate(r, req[r], i + 1, count)
       \/ /\ "late" \in Behaviours
          /\ req[r].mw[i] = "returned"
          /\ Iterate(r, [req[r] EXCEPT !.mw[i] = "done"], i + 1, count)

\* auto-advance that forgets whether next() was called
MwReturnAlways(r, i) ==
    /\ InMw(r, i)
    /\ Iterate(r, [req[r] EXCEPT !.mw[i] = "done"], i + 1, count)

\* The function has finished.  The iterator goes on by itself if next() was
\* not called, the fast path goes on always, both unless the response is sent.
MwReturn(r, i) ==
    \/ /\ ~Fast(r)
       /\ req[r].mw[i] = "running"
       /\ Iterate(r, [req[r] EXCEPT !.mw[i] = "returned"], i + 1, count)
    \/ /\ ~Fast(r)
       /\ req[r].mw[i] = "advanced"
       /\ Leave(r, [req[r] EXCEPT !.mw[i] = "done"], count)
    \/ /\ Fast(r)
       /\ InMw(r, i)
       /\ LET q == [req[r] EXCEPT !.mw[i] = "done"]
          IN  IF q.completed THEN Leave(r, q, count) ELSE Handle(r, q, count)

\* a thrown error that is swallowed: the iterator goes on
MwThrowOn(r, i) ==
    /\ "throw" \in Behaviours
    /\ InMw(r, i)
    /\ Iterate(r, [req[r] EXCEPT !.mw[i] = "threw"], i + 1, count)

\* a thrown error that nobody answers
MwThrowLost(r, i) ==
    /\ "throw" \in Behaviours
    /\ InMw(r, i)
    /\ Leave(r, [req[r] EXCEPT !.mw[i] = "threw"], count)

\* executeAsMiddleware answers an Error with a 500; null makes its catch block
\* throw, and the one of the iterator answers.  The fast path has called the
\* function itself and leaves the rejection to the process.
MwThrow(r, i) ==
    /\ InMw(r, i)
    /\ LET q == [req[r] EXCEPT !.mw[i] = "threw"]
       IN  \/ Fast(r) /\ Throws # {} /\ Crash(r, q, count)
           \/ ~Fast(r) /\ Throws # {} /\ EngineSend(r, q, count)
           \/ ~Fast(r) /\ "throw_null" \in Behaviours /\ CloseThrows(r, q, count)

-----------------------------------------------------------------------------
(* Handlers: the j-th execution of the handler of r                        *)

Running(r, j) == req[r].run[j] = "running"

HSend(r, j) ==
    /\ Running(r, j)
    /\ ~req[r].completed
    /\ UserSend(r, req[r], count)

\* close that leaves the raw response open
HCloseSilent(r, j) ==
    /\ Running(r, j)
    /\ ~req[r].completed
    /\ Leave(r, [req[r] EXCEPT !.completed = TRUE], Resolve(count))

\* close without its test of completed
HCloseTwice(r, j) ==
    /\ Running(r, j)
    /\ Leave(r, [req[r] EXCEPT !.completed = TRUE,
                               !.raw = IF @ = "open" THEN "closed" ELSE @],
             Resolve(count))

\* Response.close
HClose(r, j) ==
    /\ Running(r, j)
    /\ ~req[r].completed
    /\ Leave(r, [req[r] EXCEPT !.completed = TRUE,
                               !.raw = IF @ = "open" THEN "closed" ELSE @],
             Resolve(count))

\* executeAsHttp: a truthy result is sent as JSON unless completed
HReturn(r, j) ==
    /\ Running(r, j)
    /\ LET q == [req[r] EXCEPT !.run[j] = "done"]
       IN  \/ EngineSend(r, q, count)
           \/ /\ \/ q.completed \/ q.streamed \/ q.sse \/ q.raw # "open"
                 \/ "no_reply" \in Behaviours
              /\ Leave(r, q, count)

\* executeAsHttp: an Error becomes its status code or a 500.  null or undefined
\* makes the catch block itself throw: the iterator's catch answers instead,
\* and behind the fast path there is none.  The same holds for what a close
\* listener throws into that 500.
HThrow(r, j) ==
    /\ Running(r, j)
    /\ LET q == [req[r] EXCEPT !.run[j] = "done"]
       IN  \/ "throw" \in Behaviours /\ EngineSend(r, q, count)
           \/ "throw" \in Behaviours /\ Fast(r) /\ CloseThrows(r, q, count)
           \/ "throw_null" \in Behaviours /\ Fast(r) /\ Crash(r, q, count)
           \/ /\ "throw_null" \in Behaviours
              /\ ~Fast(r)
              /\ EngineSend(r, q, count) \/ CloseThrows(r, q, count)

\* Response.sse exists on GET only; its writes end the cork of the wrapper
SseOpen(r, j) ==
    /\ req[r].body = "none"
    /\ Running(r, j)
    /\ req[r].raw = "open"
    /\ ~req[r].sse
    /\ Leave(r, [req[r] EXCEPT !.sse = TRUE], count)

\* SSEventStream.close, from the handler or from a timer it left behind
SseClose(r) ==
    /\ req[r].sse
    /\ ~req[r].completed
    /\ UserSend(r, req[r], count)

\* SSEventStream._write on a raw response that is finished, from a timer, or
\* from a handler that opens the stream on a response with its headers sent:
\* the catch block sets completed and resolves nothing.
SseWriteFails(r) ==
    /\ \/ req[r].sse
       \/ req[r].body = "none" /\ \E j \in Runs : Running(r, j)
    /\ req[r].raw \notin {"none", "open"}
    /\ ~req[r].completed
    /\ Leave(r, [req[r] EXCEPT !.completed = TRUE], count)

\* Response.stream, with (sizing) or without a total_size
StreamStart(r, j) ==
    /\ Running(r, j)
    /\ ~req[r].completed
    /\ \E s \in {"streaming"} \cup (IF "sized" \in Behaviours THEN {"sizing"} ELSE {}) :
          Leave(r, [req[r] EXCEPT !.run[j] = s], count)

Streaming(r, j) == req[r].run[j] \in {"streaming", "sizing"}

\* A chunk that uWS takes changes nothing here.  One it does not take is left
\* to the drain handler.  drain() asks uWS for onWritable only when the field
\* _drain_handler is null, and it is undefined: nothing resumes the stream.
ChunkRefused(r, j) ==
    /\ "backpressure" \in Behaviours
    /\ Streaming(r, j)
    /\ req[r].raw = "open"
    /\ Leave(r, [req[r] EXCEPT !.run[j] = "stalled"], count)

\* a chunk for a raw response somebody else has finished: uWS throws
ChunkTooLate(r, j) ==
    /\ Streaming(r, j)
    /\ ~req[r].completed
    /\ req[r].raw # "open"
    /\ Crash(r, req[r], count)

\* tryEnd has sent the last of total_size bytes: uWS is done, completed is not set
ChunkLast(r, j) ==
    /\ req[r].run[j] = "sizing"
    /\ req[r].raw = "open"
    /\ Leave(r, [req[r] EXCEPT !.run[j] = "flushed", !.raw = "ended"], count)

\* the loop of stream() ends: the Readable has ended or the response is completed
StreamEnd(r, j) ==
    LET q == [req[r] EXCEPT !.run[j] = "running"]
    IN  \/ /\ Streaming(r, j) \/ req[r].run[j] = "flushed"
           /\ q.completed
           /\ Leave(r, q, count)
        \/ /\ req[r].run[j] = "streaming"
           /\ ~q.completed
           /\ UserSend(r, q, count)
        \/ /\ \/ req[r].run[j] = "flushed"
              \/ req[r].run[j] = "sizing" /\ (q.raw # "open" \/ "short" \in Behaviours)
           /\ ~q.completed
           /\ Leave(r, [q EXCEPT !.streamed = TRUE], Resolve(count))

-----------------------------------------------------------------------------
Mw(r) ==
    \E i \in Mws(r) : MwSend(r, i) \/ MwNext(r, i) \/ MwReturn(r, i) \/ MwThrow(r, i)

Handler(r) ==
    \E j \in Runs :
        \/ HSend(r, j) \/ HClose(r, j) \/ HReturn(r, j) \/ HThrow(r, j)
        \/ SseOpen(r, j)
        \/ StreamStart(r, j) \/ ChunkRefused(r, j) \/ ChunkTooLate(r, j)
        \/ ChunkLast(r, j) \/ StreamEnd(r, j)

Socket(r) ==
    Arrive(r) \/ BodyTooLarge(r) \/ BodyEnd(r) \/ BodyResume(r) \/ Abort(r)

Next ==
    /\ up
    /\ \E r \in Requests : Socket(r) \/ Mw(r) \/ Handler(r) \/ SseClose(r) \/ SseWriteFails(r)

Spec == Init /\ [][Next]_vars

-----------------------------------------------------------------------------
(* Scheduling.  A pending continuation or microtask always runs, and the    *)
(* user's functions, once started, get on with it: they return, throw or    *)
(* answer in the end.  A client that has begun a body finishes it or goes.  *)
(* Nothing says that a client ever aborts, or that anyone ends an SSE       *)
(* stream.                                                                  *)

Step(A) == up /\ A

Fairness ==
    \A r \in Requests :
        /\ WF_vars(Step(BodyTooLarge(r) \/ BodyEnd(r)))
        /\ WF_vars(Step(BodyResume(r)))
        /\ \A i \in Mws(r) : WF_vars(Step(MwReturn(r, i)))
        /\ \A j \in Runs :
              /\ WF_vars(Step(HReturn(r, j)))
              /\ WF_vars(Step(ChunkLast(r, j) \/ StreamEnd(r, j)))

FairSpec == Spec /\ Fairness

-----------------------------------------------------------------------------
(* Properties                                                              *)

\* Every field of every request, the counter and the flag have their types.
TypeOK ==
    /\ DOMAIN req = Requests
    /\ \A r \in Requests : req[r] \in ReqState(r)
    /\ count \in Nat
    /\ up \in BOOLEAN

\* the requests on_request has counted and nobody has resolved
Pending == {r \in Requests : req[r].raw # "none" /\ ~req[r].completed /\ ~req[r].streamed}

\* pending_requests_count is the number of requests that are not completed,
\* however replies, aborts, closes and throws of several requests interleave.
\* It needs that no stream has a total_size and no listener throws: after either
\* a request may be resolved twice, or never (SseWriteFails).
CountExact == count = Cardinality(Pending)

\* The engine implements the counter's specification: no request is settled
\* twice, none comes back, and the counter moves with each of these steps.
Abstract ==
    INSTANCE InFlight WITH fresh <- {r \in Requests : req[r].raw = "none"},
                           live <- Pending, pending <- count

Implements == Abstract!Spec

\* A Response is flagged completed only when the wire is done with it: no
\* client waits for a response the engine has given up on.
CompletedIsFinal ==
    \A r \in Requests :
        req[r].completed => req[r].raw \in {"ended", "closed", "aborted"}

\* User code never sees half a body: a middleware or handler has started only
\* when there is no body or parseBody() has returned, never after a 413.
BodyBeforeCode ==
    \A r \in Requests : Entered(r, req[r]) => req[r].body \in {"none", "parsed"}

\* The handler of a request runs at most once.
HandlerOnce == \A r \in Requests : req[r].runs <= 1

\* Once the response is completed (a reply, an abort during the body, a close)
\* neither the next middleware nor the handler is started.
NothingAfterCompletion ==
    [][\A r \in Requests :
          req[r].completed =>
              /\ req'[r].runs = req[r].runs
              /\ \A i \in Mws(r) : req[r].mw[i] = "idle" => req'[r].mw[i] = "idle"]_vars

\* No middleware function is called twice, whatever calls to next() are made.
NoMiddlewareReplay ==
    [][\A r \in Requests : \A i \in Mws(r) :
          req[r].mw[i] # "idle" =>
              (req'[r].mw[i] = "running" => req[r].mw[i] = "running")]_vars

\* When the handler starts, no middleware of the chain has been left out, none
\* still runs and none has thrown.  One that has returned without calling next()
\* does not stop the request: the iterator goes on by itself
\* (request_iterator.ts:73-76), whatever the comment on executeAsMiddleware and
\* the guide on middlewares say.  To stop a request a middleware must answer it.
HandlerGate ==
    [][\A r \in Requests :
          req'[r].runs > req[r].runs =>
              \A i \in Mws(r) : req'[r].mw[i] \in {"advanced", "returned", "done"}]_vars

\* What user code throws ends the process at most from the fast path, where
\* nothing stands behind executeAsHttp: no step of a request that goes through
\* the iterator does, whatever it throws.  It needs that no stream has a
\* total_size and that no listener throws.
ThrowsContained ==
    [][~up' => \A r \in Requests : ~Fast(r) => req'[r] = req[r]]_vars

\* Every request that came in is answered, or its client has gone, or it is an
\* SSE stream, or the process has died.
Answered ==
    \A r \in Requests :
        req[r].raw = "open" ~> (req[r].raw # "open" \/ req[r].sse \/ ~up)

\* stream() "handles backpressure via uWS drain": a refused chunk is sent later.
RefusedChunkIsSent ==
    \A r \in Requests : \A j \in Runs :
        req[r].run[j] = "stalled" ~> req[r].run[j] # "stalled"

=============================================================================
