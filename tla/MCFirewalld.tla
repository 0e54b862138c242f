---------------------------- MODULE MCFirewalld -----------------------------
(* Instance of Firewalld for TLC. *)
EXTENDS Firewalld, TLC

CONSTANTS s1, s2, s3, t1, c1, c2, c3, n1, n2, a1, a2, b1, h1

Command(k, c, n) == [kind |-> k, ctr |-> c, net |-> n]
Mapping(host, ctr, range, ip) == [host_port |-> host, container_port |-> ctr, range |-> range, host_ip |-> ip]

\* n1 has two subnets, one for each family.
TwoNetworks == n1 :> <<a1, a2>> @@ n2 :> <<b1>>
DualStack == n1 :> {"v4", "v6"} @@ n2 :> {"v4"}

\* Two containers on n1 and one on n2.
LifeCmds ==
    s1 :> Command("setup", c1, n1) @@ s2 :> Command("setup", c2, n1) @@ s3 :> Command("setup", c3, n2) @@
    t1 :> Command("teardown", c1, n1)

\* A range that ends with the last port, a single port, and one with a host ip.
PortMappings ==
    c1 :> {Mapping(PortMod - 2, 1, 2, None)} @@ c2 :> {Mapping(2, 2, 1, None)} @@
    c3 :> {Mapping(3, 3, 0, None), Mapping(4, 4, 1, h1)}
=============================================================================
