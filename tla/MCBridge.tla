------------------------------ MODULE MCBridge ------------------------------
(* Instances of Bridge for TLC. *)
EXTENDS Bridge, TLC

CONSTANTS s1, s2, s3, t1, t2, t3, c1, c2, c3, n1, n2

Command(k, c, n) == [kind |-> k, ctr |-> c, net |-> n]

\* Two containers on n1 and one on the internal network n2.
LifeCmds ==
    s1 :> Command("setup", c1, n1) @@ s2 :> Command("setup", c2, n1) @@ s3 :> Command("setup", c3, n2) @@
    t1 :> Command("teardown", c1, n1) @@ t2 :> Command("teardown", c2, n1) @@ t3 :> Command("teardown", c3, n2)
=============================================================================
