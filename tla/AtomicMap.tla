----------------------------- MODULE AtomicMap -----------------------------
(***************************************************************************)
(* What SharedMap promises to its callers: a map of at most Capacity keys  *)
(* on which every call of set and get takes effect at one instant between  *)
(* the moment it is made and the moment it returns.  SharedMap is shown to *)
(* implement this specification.                                           *)
(***************************************************************************)
EXTENDS Integers, FiniteSets

CONSTANTS Procs, Keys, Values, Capacity, Absent

VARIABLES
    kv,      \* the map: the value of every key, Absent when it has none
    call     \* the call every process is in

vars == <<kv, call>>

\* No call; a call that has not taken effect; one that has, with its result
\* ("ok" or "full" for set, the value or Absent for get).
Idle == [st |-> "idle"]
Invoked(op, k, v) == [st |-> "invoked", op |-> op, key |-> k, val |-> v]
Done(res) == [st |-> "done", res |-> res]

Present == {k \in Keys : kv[k] # Absent}

Init ==
    /\ kv = [k \in Keys |-> Absent]
    /\ call = [p \in Procs |-> Idle]

Invoke(p) ==
    /\ call[p] = Idle
    /\ \E k \in Keys :
          \/ \E v \in Values : call' = [call EXCEPT ![p] = Invoked("set", k, v)]
          \/ call' = [call EXCEPT ![p] = Invoked("get", k, Absent)]
    /\ UNCHANGED kv

Set(p) ==
    /\ call[p].st = "invoked" /\ call[p].op = "set"
    /\ call[p].key \in Present \/ Cardinality(Present) < Capacity
    /\ kv' = [kv EXCEPT ![call[p].key] = call[p].val]
    /\ call' = [call EXCEPT ![p] = Done("ok")]

\* "When the map has no free slots and the key is new"
SetFull(p) ==
    /\ call[p].st = "invoked" /\ call[p].op = "set"
    /\ call[p].key \notin Present /\ Cardinality(Present) = Capacity
    /\ call' = [call EXCEPT ![p] = Done("full")]
    /\ UNCHANGED kv

Get(p) ==
    /\ call[p].st = "invoked" /\ call[p].op = "get"
    /\ call' = [call EXCEPT ![p] = Done(kv[call[p].key])]
    /\ UNCHANGED kv

Return(p) ==
    /\ call[p].st = "done"
    /\ call' = [call EXCEPT ![p] = Idle]
    /\ UNCHANGED kv

Next == \E p \in Procs : Invoke(p) \/ Set(p) \/ SetFull(p) \/ Get(p) \/ Return(p)

Spec == Init /\ [][Next]_vars

=============================================================================
