----------------------------- MODULE MCNeoHttp -----------------------------
(* Instances of NeoHttp for TLC: two requests on routes of their own        *)
EXTENDS NeoHttp

CONSTANTS r1, r2

TwoRequests == {r1, r2}

\* with Global = 1 the fast path for both, with Global = 0 two bare handlers
NoRouteMw == [r \in {r1, r2} |-> 0]

\* a chain of Global for r1, and one middleware more for r2
OneRouteMw == [r \in {r1, r2} |-> IF r = r1 THEN 0 ELSE 1]

\* a chain of Global for r1, and two middlewares more for r2
TwoRouteMw == [r \in {r1, r2} |-> IF r = r1 THEN 0 ELSE 2]

\* Bound of http_pipeline: one of the two requests streams, the other does all else.
Streams(q) ==
    \/ q.sse \/ q.streamed
    \/ \E j \in Runs : q.run[j] \in {"streaming", "sizing", "flushed", "stalled"}

OneStreams == \A r, s \in Requests : Streams(req[r]) /\ Streams(req[s]) => r = s

=============================================================================
