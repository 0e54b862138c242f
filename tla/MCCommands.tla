----------------------------- MODULE MCCommands -----------------------------
(* Instances of Commands for TLC. *)
EXTENDS Commands, TLC

CONSTANTS c1, c2, n1, n2, n3, n4

\* The containers share n1; n3 is an internal network, n4 that of a plugin.
SharedNets == c1 :> {n1, n2, n3, n4} @@ c2 :> {n1, n4}
=============================================================================
