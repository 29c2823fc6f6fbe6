--------------------------- MODULE MCNatsAdapter ---------------------------
(* Instances of NatsAdapter for TLC.                                        *)
EXTENDS NatsAdapter, TLC

CONSTANTS i1, i2, s1, open, join, leave, shut, c1

TwoInstances == {i1, i2}
OneInstance  == {i1}
OneSocket    == {s1}
OneCall      == {c1}

\* a client connects, subscribes, unsubscribes (or reads through the service) and leaves
Life     == {open, join, leave, shut}
KindOf   == open :> "connected" @@ join :> "event" @@ leave :> "event" @@ shut :> "disconnected"
FromOf   == [m \in Life |-> s1]
WantsOf  == open :> "toTopic" @@ join :> "subscribe" @@ leave :> "unsubscribe" @@ shut :> "dispatch"

\* a client that comes, one with two operations in flight, one that leaves, and a command
TwoAtATime == {{open}, {join, leave}, {join, shut}, {c1, shut}}
JustEvents == {{join}}

=============================================================================
