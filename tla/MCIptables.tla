----------------------------- MODULE MCIptables -----------------------------
(* Instances of Iptables for TLC. *)
EXTENDS Iptables, TLC

CONSTANTS s1, s2, s3, s4, s5, s6, s7, t1, t2, t3, t5, t7, c1, c2, c3, c4, c5, c6, c7, n1, n2, n3, a1, a2, b1, d1

Command(k, c, n) == [kind |-> k, ctr |-> c, net |-> n]

\* n1 has two subnets.
SubnetsOf == [n \in Networks |-> CASE n = n1 -> <<a1, a2>> [] n = n2 -> <<b1>> [] n = n3 -> <<d1>>]

OneSubnet == n1 :> <<a1>> @@ n2 :> <<b1>> @@ n3 :> <<d1>>

\* Two containers on n1 and one on n2, set up and torn down; on n3, which is
\* not isolated, the setup of c4 overlaps the setup and the teardown of c5, and
\* the setup of c6 the teardown of c7, which publishes a port as well.
LifeCmds ==
    [p \in Procs |->
        CASE p = s1 -> Command("setup", c1, n1) [] p = t1 -> Command("teardown", c1, n1)
          [] p = s2 -> Command("setup", c2, n1) [] p = t2 -> Command("teardown", c2, n1)
          [] p = s3 -> Command("setup", c3, n2) [] p = t3 -> Command("teardown", c3, n2)
          [] p = s5 -> Command("setup", c5, n3) [] p = t5 -> Command("teardown", c5, n3)
          [] p = s4 -> Command("setup", c4, n3) [] p = s6 -> Command("setup", c6, n3)
          [] p = s7 -> Command("setup", c7, n3) [] p = t7 -> Command("teardown", c7, n3)]

\* One container on each of three networks; the third goes.
ThirdGoesCmds ==
    s1 :> Command("setup", c1, n1) @@ s2 :> Command("setup", c2, n2) @@ s3 :> Command("setup", c3, n3) @@
    t3 :> Command("teardown", c3, n3)
=============================================================================
