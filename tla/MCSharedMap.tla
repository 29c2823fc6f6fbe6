---------------------------- MODULE MCSharedMap ----------------------------
(* Instances of SharedMap for TLC.  Keys have two words: the empty key,     *)
(* which is all zeros, a key of one word, and one that begins with it.      *)
EXTENDS SharedMap

CONSTANTS p1, p2, p3, v1, v2

TwoProcs   == {p1, p2}
ThreeProcs == {p1, p2, p3}
TwoValues  == {v1, v2}
OneValue   == {v1}

EmptyKey == <<0, 0>>
ShortKey == <<1, 0>>
LongKey  == <<1, 1>>

ThreeKeys == {EmptyKey, ShortKey, LongKey}
OneKey    == {LongKey}

\* two of the keys collide
Colliding == [k \in ThreeKeys |-> IF k = ShortKey THEN 0 ELSE 1]
OneHash   == [k \in OneKey |-> 0]

=============================================================================
