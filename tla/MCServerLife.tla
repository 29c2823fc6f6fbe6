---------------------------- MODULE MCServerLife ----------------------------
(* Instances of ServerLife for TLC.                                         *)
EXTENDS ServerLife, TLC

\* a service that uses every way to register something, under every kind of name
Everything == By(Sources \ {"default", "base"}) \cup BuiltIn

\* a route file that cannot be initialised
RouteFile == {[by |-> "files", name |-> "own"]}

=============================================================================
