----------------------------- MODULE MCAardvark -----------------------------
(* Instances of Aardvark for TLC. *)
EXTENDS AardvarkRegistry, TLC

CONSTANTS s1, s2, t1, t2, u1, c1, c2, n1, n2, dA, dB

Command(k, c, ns, d) == [kind |-> k, ctr |-> c, nets |-> ns, dns |-> d]

\* Setups sharing two networks and a teardown.
OverlapCmds ==
    s1 :> Command("setup", c1, {n1, n2}, dA) @@ s2 :> Command("setup", c2, {n1, n2}, NoDns) @@
    t1 :> Command("teardown", c1, {n1}, NoDns)

\* Setups, teardowns and an update of the same networks.
MixedCmds ==
    s1 :> Command("setup", c1, {n1, n2}, dA) @@ s2 :> Command("setup", c2, {n1}, NoDns) @@
    t1 :> Command("teardown", c1, {n1, n2}, NoDns) @@ t2 :> Command("teardown", c2, {n1}, NoDns) @@
    u1 :> Command("update", c1, {n1}, dB)

\* An update that clears the list.
ClearCmds ==
    s1 :> Command("setup", c1, {n1}, dA) @@ u1 :> Command("update", c1, {n1}, NoDns)

OwnLine == [c \in Containers |-> {c}]
=============================================================================
