----------------------------- MODULE InFlight -----------------------------
(***************************************************************************)
(* What the pending-request counter of the Neo engine promises, seen from  *)
(* outside: a request becomes live once, stops being live once, and the    *)
(* counter follows.  NeoHttp is shown to implement this specification.     *)
(***************************************************************************)
EXTENDS Naturals

CONSTANT Requests

VARIABLES
    fresh,     \* requests that have not come in
    live,      \* requests that have come in and are not settled
    pending    \* how many the engine believes are live

vars == <<fresh, live, pending>>

Init ==
    /\ fresh = Requests
    /\ live = {}
    /\ pending = 0

\* a request comes in and stays
Admit(r) ==
    /\ r \in fresh
    /\ fresh' = fresh \ {r}
    /\ live' = live \cup {r}
    /\ pending' = pending + 1

\* a request comes in and is settled on the spot
Serve(r) ==
    /\ r \in fresh
    /\ fresh' = fresh \ {r}
    /\ UNCHANGED <<live, pending>>

\* a live request is answered, closed or aborted
Settle(r) ==
    /\ r \in live
    /\ live' = live \ {r}
    /\ pending' = pending - 1
    /\ UNCHANGED fresh

Next == \E r \in Requests : Admit(r) \/ Serve(r) \/ Settle(r)

Spec == Init /\ [][Next]_vars

=============================================================================
