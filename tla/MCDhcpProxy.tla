---------------------------- MODULE MCDhcpProxy -----------------------------
(* Model values for the instances of DhcpProxy. *)
EXTENDS DhcpProxy, TLC

CONSTANTS c1, c2, l1, l2
=============================================================================
