------------------------------- MODULE MCVlan -------------------------------
(* An instance of Vlan for TLC. *)
EXTENDS Vlan, TLC

CONSTANTS n1, n2, n3, n4, n5

Network(ifname, parent, ipam, subnets, static, internal) ==
    [ifname |-> ifname, parent |-> parent, ipam |-> ipam, subnets |-> subnets, static |-> static, internal |-> internal]

V4 == [fam |-> 4, gw |-> TRUE]
V6 == [fam |-> 6, gw |-> TRUE]
NoGw == [fam |-> 4, gw |-> FALSE]

\* The name of n1 is taken on the host; n4 has a subnet more than ips; n5 asks for
\* a lease without a parent.
Confs ==
    n1 :> Network("eth0", "eth1", "dhcp", <<>>, 0, FALSE) @@
    n2 :> Network("eth4", "eth0", "dhcp", <<>>, 0, FALSE) @@
    n3 :> Network("eth2", "", "host-local", <<NoGw, V4, V6, V4>>, 4, FALSE) @@
    n4 :> Network("eth3", "eth0", "host-local", <<V4, V6>>, 1, TRUE) @@
    n5 :> Network("eth5", "", "dhcp", <<>>, 0, FALSE)

\* The first route without a destination has no output interface.
Host == <<"lo", "eth0", "eth1", "mv-a">>
RoutesOfHost == <<[dest |-> TRUE, oif |-> 1], [dest |-> FALSE, oif |-> 0], [dest |-> FALSE, oif |-> 3]>>
=============================================================================
