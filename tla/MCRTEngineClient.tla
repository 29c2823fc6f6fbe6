-------------------------- MODULE MCRTEngineClient --------------------------
(* Instances of RTEngineClient for TLC.                                     *)
EXTENDS RTEngineClient, TLC

CONSTANTS k1, k2, t1, c1

TwoSlots == {k1, k2}
OneTopic == {t1}
OneCall  == {c1}

\* the socket in a worker and in the window, and the two kinds of token functions
AllSetups ==
    {[worker |-> FALSE, token |-> "static"], [worker |-> TRUE, token |-> "static"],
     [worker |-> FALSE, token |-> "async"], [worker |-> FALSE, token |-> "failing"]}

StaticToken == {[worker |-> FALSE, token |-> "static"]}
AsyncToken  == {[worker |-> FALSE, token |-> "async"]}

\* fewer operations where several attempts can wait for a token
OpsOf == [h \in Setups |-> IF h.token = "static" THEN 4 ELSE 2]

=============================================================================
