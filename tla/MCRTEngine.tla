----------------------------- MODULE MCRTEngine -----------------------------
(* Instances of RTEngine for TLC.                                           *)
EXTENDS RTEngine, TLC

CONSTANTS s1, s2, r1, r2, r3, t1, u1

TwoSockets  == {s1, s2}
ThreeRequests == {r1, r2, r3}
OneRequest  == {r1}
OneTopic    == {t1}

\* two requests of one client and one of the other, and one alone
TwoAndOne == [r \in ThreeRequests |-> IF r = r3 THEN s2 ELSE s1]
Alone     == [r \in OneRequest |-> s1]

\* the two requests of s1 are alike
SymRequests == Permutations({r1, r2})

\* how often each handler calls its client
Once  == [r \in ThreeRequests |-> 1]
Twice == [r \in OneRequest |-> 2]

SameUser == [s \in TwoSockets |-> u1]

=============================================================================
