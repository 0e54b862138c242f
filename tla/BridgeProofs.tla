---------------------------- MODULE BridgeProofs ----------------------------
(***************************************************************************)
(* For every number of invocations, containers and networks: an attached   *)
(* interface keeps its bridge and a container that is set up is connected, *)
(* although nothing locks the requests of one invocation together.         *)
(***************************************************************************)
EXTENDS Bridge, TLAPS

\* Time enough for the provers on a busy machine, and a second try.
USE SMTT(30), ZenonT(30), Z3T(30)

SetupPcs == {"get_bridge", "create_bridge", "find_bridge", "add_addr", "set_up", "create_veth",
             "configure", "fw_network", "fw_port"}
LinkPcs == {"del_veth", "find", "dump", "del_bridge"}
TeardownPcs == LinkPcs \cup {"fw_network_td", "fw_port_td"}
Labels == {"idle"} \cup Ended \cup SetupPcs \cup TeardownPcs

\* The values of the variables, apart from the masters of the ports.
Shapes ==
    /\ bridge \in [Networks -> [index : Nat, addr : BOOLEAN, up : BOOLEAN]]
    /\ next \in Nat \ {0}
    /\ veth \in [Containers -> [Networks -> [there : BOOLEAN, master : Nat, ready : BOOLEAN]]]
    /\ idx \in [Procs -> Nat]
    /\ complete \in [Procs -> BOOLEAN] /\ erred \in [Procs -> BOOLEAN]
    /\ pc \in [Procs -> Labels]
    /\ mixed \subseteq Networks

Counts ==
    /\ fwnet \subseteq Networks \ Internal
    /\ fwport \subseteq Containers \X (Networks \ Internal)
    /\ faults \in 0 .. MaxFaults

\* An index is given once.
Indices ==
    /\ \A n \in Networks : bridge[n].index < next
    /\ \A m, n \in Networks : m # n /\ bridge[m].index = bridge[n].index => bridge[n].index = 0

Masters ==
    \A c \in Containers, n \in Networks :
        veth[c][n].master \in {0, bridge[n].index} /\ (veth[c][n].ready => veth[c][n].there)

\* What an invocation can be at.
Placed(p) ==
    /\ pc[p] \in SetupPcs => Cmd[p].kind = "setup"
    /\ pc[p] \in TeardownPcs => Cmd[p].kind = "teardown"
    /\ pc[p] \in {"fw_network", "fw_port"} => Net(p) \notin Internal
    /\ pc[p] \in {"idle"} \cup LinkPcs => ~complete[p]

\* Setups and teardowns that run together are recorded, and a container is torn
\* down after it was set up.
Ordered ==
    \A p, q \in Procs : Cmd[p].kind = "setup" /\ Cmd[q].kind = "teardown" =>
        /\ Running(p) /\ Running(q) /\ Net(p) = Net(q) => Net(p) \in mixed
        /\ Ctr(p) = Ctr(q) /\ pc[q] # "idle" => pc[p] \in Ended

\* What a teardown knows of the network's ports, unless a setup runs as well.
Emptied(p) ==
    /\ pc[p] \in {"dump", "del_bridge"} => idx[p] # 0
    /\ Net(p) \notin mixed => \A c \in Containers :
        /\ pc[p] = "del_bridge" /\ veth[c][Net(p)].there => veth[c][Net(p)].master # idx[p]
        /\ pc[p] = "fw_network_td" /\ complete[p] => ~veth[c][Net(p)].there

\* What the setup that made the bridge knows of it, unless a teardown runs as well.
Made(p) ==
    Net(p) \notin mixed =>
        /\ pc[p] = "find_bridge" => bridge[Net(p)].index # 0
        /\ pc[p] \in {"add_addr", "set_up"} => Mine(p)
        /\ pc[p] = "set_up" => bridge[Net(p)].addr

\* A bridge that is not complete has a setup at work on it.
HalfMade(n) ==
    n \notin mixed /\ faults = 0 /\ bridge[n].index # 0 /\ ~(bridge[n].addr /\ bridge[n].up) =>
        \E p \in Procs : Net(p) = n /\ pc[p] \in {"find_bridge", "add_addr", "set_up"}

\* No teardown of its container has begun.
Unclaimed(p) ==
    \A q \in Procs : Cmd[q].kind = "teardown" /\ Ctr(q) = Ctr(p) /\ Net(q) = Net(p) => pc[q] = "idle"

\* What a setup has done stays, the firewall rules if no teardown ran with it.
Attached(p) ==
    Cmd[p].kind = "setup" /\ Unclaimed(p) =>
        /\ pc[p] \in {"configure", "fw_network", "fw_port", "done"} => veth[Ctr(p)][Net(p)].there
        /\ pc[p] \in {"fw_network", "fw_port", "done"} => veth[Ctr(p)][Net(p)].ready
        /\ Net(p) \notin mixed \cup Internal =>
            /\ pc[p] \in {"fw_port", "done"} => Net(p) \in fwnet
            /\ pc[p] = "done" => <<Ctr(p), Net(p)>> \in fwport

BridgeInv ==
    /\ Shapes /\ Counts /\ Indices /\ Masters /\ Ordered
    /\ \A p \in Procs : Placed(p) /\ Emptied(p) /\ Made(p) /\ Attached(p)
    /\ \A n \in Networks : HalfMade(n)
    /\ RemovedOnlyWhenEmpty

\* Nothing is there before the first command.
LEMMA BridgeInit == Init => BridgeInv
<1> SUFFICES ASSUME Init PROVE BridgeInv
  OBVIOUS
<1> USE BridgeAssumption DEF Init, NoBridge, NoVeth
<1>1. Shapes /\ Counts /\ Indices /\ Masters /\ RemovedOnlyWhenEmpty
  BY DEF Shapes, Counts, Indices, Masters, RemovedOnlyWhenEmpty, Labels
<1>2. Ordered
  BY DEF Ordered, Running
<1>3. \A p \in Procs : Placed(p) /\ Emptied(p) /\ Made(p) /\ Attached(p)
  BY DEF Placed, Emptied, Made, Attached, SetupPcs, TeardownPcs, LinkPcs, Ended
<1>4. \A n \in Networks : HalfMade(n)
  BY DEF HalfMade
<1> QED
  BY <1>1, <1>2, <1>3, <1>4 DEF BridgeInv

\* What a command is about.
LEMMA CmdFacts ==
    ASSUME NEW p \in Procs
    PROVE  Ctr(p) \in Containers /\ Net(p) \in Networks /\ Cmd[p].kind \in {"setup", "teardown"}
BY BridgeAssumption DEF Ctr, Net

\* An invocation that does not step keeps what it knows of the interfaces while
\* they are only detached or removed.
LEMMA EmptiedStays ==
    ASSUME NEW q \in Procs, Emptied(q), pc'[q] = pc[q], complete'[q] = complete[q], idx'[q] = idx[q],
           mixed \subseteq mixed',
           \A c \in Containers : veth'[c][Net(q)].there =>
               veth[c][Net(q)].there /\ veth'[c][Net(q)].master \in {0, veth[c][Net(q)].master}
    PROVE  Emptied(q)'
<1>1. Net(q) \in Networks /\ Net(q)' = Net(q)
  BY CmdFacts DEF Net
<1>2. pc[q] = "del_bridge" => idx[q] # 0
  BY DEF Emptied
<1>3. ASSUME Net(q) \notin mixed, NEW c \in Containers
      PROVE  /\ pc[q] = "del_bridge" /\ veth'[c][Net(q)].there => veth'[c][Net(q)].master # idx[q]
             /\ pc[q] = "fw_network_td" /\ complete[q] => ~veth'[c][Net(q)].there
  <2>1. /\ pc[q] = "del_bridge" /\ veth[c][Net(q)].there => veth[c][Net(q)].master # idx[q]
        /\ pc[q] = "fw_network_td" /\ complete[q] => ~veth[c][Net(q)].there
    BY <1>3 DEF Emptied
  <2> QED
    BY <1>2, <2>1
<1> QED
  BY <1>1, <1>3 DEF Emptied

\* The control part of a step of an invocation that has begun.
LEMMA Control ==
    ASSUME BridgeInv, NEW p \in Procs, NEW l \in Labels \ {"idle"}, Running(p), Goto(p, l), mixed' = mixed,
           Placed(p)'
    PROVE  /\ pc' \in [Procs -> Labels] /\ pc'[p] = l /\ \A q \in Procs \ {p} : pc'[q] = pc[q]
           /\ Ordered'
           /\ \A q \in Procs : Unclaimed(q)' => Unclaimed(q)
<1>1. pc \in [Procs -> Labels]
  BY DEF BridgeInv, Shapes
<1>2. pc' \in [Procs -> Labels] /\ pc'[p] = l /\ \A q \in Procs \ {p} : pc'[q] = pc[q]
  BY <1>1 DEF Goto
<1>3. \A q \in Procs : (pc'[q] = "idle" => pc[q] = "idle") /\ (pc[q] = "idle" => pc'[q] = "idle")
  BY <1>2 DEF Running
<1>4. \A q \in Procs : Running(q)' => Running(q)
  BY <1>2 DEF Running
<1>5. \A q \in Procs : pc[q] \in Ended => pc'[q] \in Ended
  BY <1>2 DEF Running
<1>6. Ordered'
  BY <1>3, <1>4, <1>5 DEF BridgeInv, Ordered, Ctr, Net
<1>7. \A q \in Procs : Unclaimed(q)' => Unclaimed(q)
  BY <1>3 DEF Unclaimed, Ctr, Net
<1> QED
  BY <1>2, <1>6, <1>7

\* A step that changes neither interfaces nor their state.
LEMMA KernelSame ==
    ASSUME BridgeInv, NEW p \in Procs, NEW l \in Labels \ {"idle"}, Running(p), Goto(p, l),
           UNCHANGED <<bridge, next, veth, mixed>>,
           idx' \in [Procs -> Nat], \A q \in Procs \ {p} : idx'[q] = idx[q],
           complete' = complete, erred' \in [Procs -> BOOLEAN],
           Counts', faults' = 0 => faults = 0,
           Placed(p)', Emptied(p)', Made(p)', \A q \in Procs : Attached(q)',
           pc[p] \in {"find_bridge", "add_addr", "set_up"} => pc'[p] \in {"find_bridge", "add_addr", "set_up"}
               \/ faults' # 0 \/ Net(p) \in mixed
    PROVE  BridgeInv'
<1>1. /\ pc' \in [Procs -> Labels] /\ pc'[p] = l /\ \A q \in Procs \ {p} : pc'[q] = pc[q]
      /\ Ordered'
  BY Control
<1>2. Shapes' /\ Indices' /\ Masters' /\ RemovedOnlyWhenEmpty'
  <2>1. Shapes /\ Indices /\ Masters /\ RemovedOnlyWhenEmpty
    BY DEF BridgeInv
  <2>2. Shapes'
    BY <1>1, <2>1 DEF Shapes
  <2>3. Indices' /\ Masters'
    BY <2>1 DEF Indices, Masters
  <2>4. RemovedOnlyWhenEmpty'
    BY <2>1 DEF RemovedOnlyWhenEmpty, Apart
  <2> QED
    BY <2>2, <2>3, <2>4
<1>3. ASSUME NEW q \in Procs \ {p} PROVE Placed(q)' /\ Emptied(q)' /\ Made(q)'
  <2>1. Placed(q) /\ Emptied(q) /\ Made(q) /\ pc'[q] = pc[q] /\ idx'[q] = idx[q]
    BY <1>1 DEF BridgeInv
  <2>2. Placed(q)'
    BY <2>1 DEF Placed, Net
  <2>3. Emptied(q)'
    BY <2>1, Zenon, ZenonT(60) DEF Emptied, Net
  <2>4. Made(q)'
    BY <2>1 DEF Made, Mine, Net
  <2> QED
    BY <2>2, <2>3, <2>4
<1>4. ASSUME NEW n \in Networks PROVE HalfMade(n)'
  <2>1. HalfMade(n)
    BY DEF BridgeInv
  <2> QED
    BY <1>1, <2>1 DEF HalfMade, Net
<1> QED
  BY <1>1, <1>2, <1>3, <1>4 DEF BridgeInv

\* Rules that stay keep what the other setups have.
LEMMA OthersAttached ==
    ASSUME BridgeInv, NEW p \in Procs, NEW q \in Procs \ {p}, pc'[q] = pc[q], Unclaimed(q)' => Unclaimed(q),
           UNCHANGED <<veth, mixed>>, fwnet \subseteq fwnet', fwport \subseteq fwport'
    PROVE  Attached(q)'
BY Zenon, ZenonT(60) DEF BridgeInv, Attached, Ctr, Net

\* get_link, and the lookup of the bridge just made.
LEMMA LookupSteps ==
    ASSUME BridgeInv, NEW p \in Procs, GetBridge(p) \/ FindBridge(p)
    PROVE  BridgeInv'
<1> USE CmdFacts
<1>1. /\ pc[p] \in {"get_bridge", "find_bridge"} /\ Running(p)
      /\ UNCHANGED <<bridge, next, veth, fwnet, fwport, complete, erred, faults, mixed>>
  BY DEF GetBridge, FindBridge, Running, Ended
<1>2. /\ idx \in [Procs -> Nat] /\ pc \in [Procs -> Labels] /\ erred \in [Procs -> BOOLEAN]
      /\ bridge[Net(p)].index \in Nat /\ idx' = [idx EXCEPT ![p] = bridge[Net(p)].index]
  BY DEF BridgeInv, Shapes, GetBridge, FindBridge
<1>3. idx' \in [Procs -> Nat] /\ idx'[p] = bridge[Net(p)].index /\ \A q \in Procs \ {p} : idx'[q] = idx[q]
  BY <1>2
<1>4. PICK l \in {"create_bridge", "create_veth", "failed", "add_addr"} :
        /\ Goto(p, l)
        /\ pc[p] = "get_bridge" => l \in {"create_bridge", "create_veth"}
        /\ pc[p] = "find_bridge" => l = IF bridge[Net(p)].index = 0 THEN "failed" ELSE "add_addr"
  BY DEF GetBridge, FindBridge
<1>5. l \in Labels \ {"idle"} /\ pc'[p] = l
  BY <1>2, <1>4 DEF Labels, SetupPcs, Ended, Goto
<1>6. Placed(p)' /\ Emptied(p)' /\ Counts'
  BY <1>1, <1>4, <1>5 DEF BridgeInv, Placed, Emptied, Counts, SetupPcs, TeardownPcs, LinkPcs, Net
<1>7. Made(p)'
  BY <1>1, <1>3, <1>4, <1>5 DEF Made, Mine, Net
<1>8. \A q \in Procs \ {p} : pc'[q] = pc[q]
  BY <1>2, <1>4 DEF Goto
<1>9. ASSUME NEW q \in Procs PROVE Attached(q)'
  <2>1. CASE q = p
    BY <1>4, <1>5, <2>1 DEF Attached
  <2>2. CASE q # p
    BY <1>1, <1>4, <1>5, <1>6, <1>8, <2>2, Control, OthersAttached
  <2> QED
    BY <2>1, <2>2
<1>10. pc[p] = "find_bridge" => l = "add_addr" \/ Net(p) \in mixed
  BY <1>4 DEF BridgeInv, Made
<1> QED
  BY <1>1, <1>2, <1>3, <1>4, <1>5, <1>6, <1>7, <1>9, <1>10, KernelSame

\* setup_firewall adds rules.
LEMMA FirewallSteps ==
    ASSUME BridgeInv, NEW p \in Procs, FwNetwork(p) \/ FwPort(p)
    PROVE  BridgeInv'
<1> USE CmdFacts
<1>1. /\ pc[p] \in {"fw_network", "fw_port"} /\ Running(p)
      /\ UNCHANGED <<bridge, next, veth, idx, complete, erred, faults, mixed>>
      /\ fwnet' \in {fwnet, fwnet \cup {Net(p)}} /\ fwport' \in {fwport, fwport \cup {<<Ctr(p), Net(p)>>}}
  BY DEF FwNetwork, FwPort, Running, Ended
<1>2. /\ idx \in [Procs -> Nat] /\ pc \in [Procs -> Labels] /\ erred \in [Procs -> BOOLEAN]
      /\ Net(p) \notin Internal /\ Cmd[p].kind = "setup"
  BY <1>1 DEF BridgeInv, Shapes, Placed, SetupPcs
<1>3. PICK l \in {"failed", "fw_port", "done"} :
        /\ Goto(p, l)
        /\ l = "fw_port" => pc[p] = "fw_network" /\ Net(p) \in fwnet'
        /\ l = "done" => pc[p] = "fw_port" /\ <<Ctr(p), Net(p)>> \in fwport'
  BY DEF FwNetwork, FwPort
<1>4. l \in Labels \ {"idle"} /\ pc'[p] = l
  BY <1>2, <1>3 DEF Labels, SetupPcs, Ended, Goto
<1>5. Placed(p)' /\ Emptied(p)' /\ Made(p)'
  BY <1>1, <1>2, <1>3, <1>4, Zenon, ZenonT(60) DEF Placed, Emptied, Made, SetupPcs, TeardownPcs, LinkPcs, Net
<1>6. Counts'
  <2>1. Counts
    BY DEF BridgeInv
  <2>2. fwnet' \subseteq Networks \ Internal /\ fwport' \subseteq Containers \X (Networks \ Internal)
    BY <1>1, <1>2, <2>1 DEF Counts
  <2> QED
    BY <1>1, <2>1, <2>2 DEF Counts
<1>7. (\A q \in Procs \ {p} : pc'[q] = pc[q]) /\ \A q \in Procs : Unclaimed(q)' => Unclaimed(q)
  BY <1>1, <1>3, <1>4, <1>5, Control
<1>8. ASSUME NEW q \in Procs PROVE Attached(q)'
  <2>1. CASE q = p
    <3>1. Attached(p) /\ (Unclaimed(p)' => Unclaimed(p)) /\ fwnet \subseteq fwnet'
      BY <1>1, <1>7, Zenon, ZenonT(60) DEF BridgeInv
    <3> QED
      BY <1>1, <1>2, <1>3, <1>4, <2>1, <3>1, Zenon, ZenonT(60) DEF Attached, Ctr, Net
  <2>2. CASE q # p
    BY <1>1, <1>7, <2>2, OthersAttached, Zenon, ZenonT(60)
  <2> QED
    BY <2>1, <2>2
<1> QED
  BY <1>1, <1>2, <1>3, <1>4, <1>5, <1>6, <1>8, KernelSame

\* remove_link looks the bridge up and lists its ports.
LEMMA ListSteps ==
    ASSUME BridgeInv, NEW p \in Procs, Find(p) \/ Dump(p)
    PROVE  BridgeInv'
<1> USE CmdFacts
<1>1. /\ pc[p] \in {"find", "dump"} /\ Running(p)
      /\ UNCHANGED <<bridge, next, veth, fwnet, fwport, complete, faults, mixed>>
  BY DEF Find, Dump, Running, Ended
<1>2. /\ idx \in [Procs -> Nat] /\ pc \in [Procs -> Labels] /\ erred \in [Procs -> BOOLEAN]
      /\ bridge[Net(p)].index \in Nat /\ Cmd[p].kind = "teardown" /\ ~complete[p]
  BY <1>1 DEF BridgeInv, Shapes, Placed, TeardownPcs, LinkPcs
<1>3. PICK l \in {"dump", "del_bridge", "fw_network_td"} :
        /\ Goto(p, l)
        /\ l = "dump" => idx'[p] # 0
        /\ l = "del_bridge" => pc[p] = "dump" /\ idx' = idx /\ Ports(idx[p]) = {}
  BY <1>2, Zenon, ZenonT(60) DEF Find, Dump, LinkError
<1>4. l \in Labels \ {"idle"} /\ pc'[p] = l
  BY <1>2, <1>3 DEF Labels, TeardownPcs, LinkPcs, Goto
<1>5. /\ idx' \in [Procs -> Nat] /\ (\A q \in Procs \ {p} : idx'[q] = idx[q])
      /\ erred' \in [Procs -> BOOLEAN]
  BY Zenon, ZenonT(60), <1>2 DEF Find, Dump, LinkError
<1>6. Placed(p)' /\ Made(p)' /\ Counts'
  BY <1>1, <1>2, <1>3, <1>4, Zenon, ZenonT(60) DEF BridgeInv, Placed, Made, Counts, SetupPcs, TeardownPcs, LinkPcs, Net
<1>7. Emptied(p)'
  <2>1. l = "del_bridge" => idx[p] # 0
    BY <1>3 DEF BridgeInv, Emptied
  <2>2. l = "del_bridge" => \A c \in Containers : veth[c][Net(p)].there => veth[c][Net(p)].master # idx[p]
    BY <1>3 DEF Ports
  <2> QED
    BY <1>1, <1>2, <1>3, <1>4, <2>1, <2>2, Zenon, ZenonT(60) DEF Emptied, Net
<1>8. (\A q \in Procs \ {p} : pc'[q] = pc[q]) /\ \A q \in Procs : Unclaimed(q)' => Unclaimed(q)
  BY <1>1, <1>3, <1>4, <1>6, Control
<1>9. ASSUME NEW q \in Procs PROVE Attached(q)'
  <2>1. CASE q = p
    BY <1>2, <2>1 DEF Attached
  <2>2. CASE q # p
    BY <1>1, <1>8, <2>2, OthersAttached
  <2> QED
    BY <2>1, <2>2
<1> QED
  BY <1>1, <1>3, <1>4, <1>5, <1>6, <1>7, <1>9, KernelSame

\* teardown_firewall: the network's rules go when no container is left on it, and
\* the ports of the container are its own.
LEMMA TeardownFirewallSteps ==
    ASSUME BridgeInv, NEW p \in Procs, FwNetworkTd(p) \/ FwPortTd(p)
    PROVE  BridgeInv'
<1> USE CmdFacts
<1>1. /\ pc[p] \in {"fw_network_td", "fw_port_td"} /\ Running(p)
      /\ UNCHANGED <<bridge, next, veth, idx, complete, erred, faults, mixed>>
  BY DEF FwNetworkTd, FwPortTd, Running, Ended
<1>2. /\ idx \in [Procs -> Nat] /\ pc \in [Procs -> Labels] /\ erred \in [Procs -> BOOLEAN]
      /\ Cmd[p].kind = "teardown"
  BY <1>1 DEF BridgeInv, Shapes, Placed, TeardownPcs
<1>3. PICK l \in {"failed", "fw_port_td", "done"} : Goto(p, l)
  BY DEF FwNetworkTd, FwPortTd, Finish
<1>4. l \in Labels \ {"idle"} /\ pc'[p] = l
  BY <1>2, <1>3 DEF Labels, TeardownPcs, Ended, Goto
<1>5. Placed(p)' /\ Emptied(p)' /\ Made(p)'
  BY <1>1, <1>2, <1>3, <1>4 DEF Placed, Emptied, Made, SetupPcs, TeardownPcs, LinkPcs, Net
<1>6. /\ fwnet' \subseteq fwnet /\ fwport' \subseteq fwport
      /\ \A n \in fwnet \ fwnet' : n = Net(p) /\ pc[p] = "fw_network_td" /\ complete[p]
      /\ \A x \in fwport \ fwport' : x = <<Ctr(p), Net(p)>>
  BY DEF FwNetworkTd, FwPortTd
<1>7. Counts'
  BY <1>1, <1>6 DEF BridgeInv, Counts
<1>8. (\A q \in Procs \ {p} : pc'[q] = pc[q]) /\ \A q \in Procs : Unclaimed(q)' => Unclaimed(q)
  BY <1>1, <1>3, <1>4, <1>5, Control
<1>9. ASSUME NEW q \in Procs PROVE Attached(q)'
  <2> SUFFICES ASSUME Cmd[q].kind = "setup", Unclaimed(q) PROVE Attached(q)'
    BY <1>8, Zenon, ZenonT(60) DEF Attached
  <2>1. q # p /\ pc'[q] = pc[q]
    BY <1>2, <1>8
  <2>2. Attached(q)
    BY Zenon, ZenonT(60) DEF BridgeInv
  <2>3. ASSUME Net(q) \notin mixed \cup Internal, pc[q] \in {"fw_port", "done"}
        PROVE  Net(q) \in fwnet'
    <3>1. veth[Ctr(q)][Net(q)].there /\ Net(q) \in fwnet
      BY <2>2, <2>3 DEF Attached
    <3>2. ~(Net(q) = Net(p) /\ pc[p] = "fw_network_td" /\ complete[p])
      BY <2>3, <3>1 DEF BridgeInv, Emptied
    <3> QED
      BY <1>6, <3>1, <3>2
  <2>4. <<Ctr(q), Net(q)>> # <<Ctr(p), Net(p)>>
    BY <1>1, <1>2, Zenon, ZenonT(60) DEF Unclaimed
  <2>5. ASSUME Net(q) \notin mixed \cup Internal, pc[q] = "done"
        PROVE  <<Ctr(q), Net(q)>> \in fwport'
    BY <1>6, <2>2, <2>4, <2>5 DEF Attached
  <2> QED
    BY <1>1, <2>1, <2>2, <2>3, <2>5, ZenonT(60), ZenonT(90) DEF Attached, Ctr, Net
<1> QED
  BY <1>1, <1>2, <1>3, <1>4, <1>5, <1>7, <1>9, KernelSame

\* A request fails: the invocation gives up, or goes on with its firewall rules.
LEMMA FaultStep ==
    ASSUME BridgeInv, NEW p \in Procs, Fault(p)
    PROVE  BridgeInv'
<1> USE CmdFacts, BridgeAssumption
<1>1. /\ Running(p) /\ UNCHANGED <<bridge, next, veth, fwnet, fwport, idx, complete, mixed>>
      /\ faults' = faults + 1 /\ faults \in 0 .. MaxFaults /\ faults < MaxFaults
  BY Zenon, ZenonT(60) DEF Fault, BridgeInv, Counts
<1>2. /\ idx \in [Procs -> Nat] /\ pc \in [Procs -> Labels] /\ erred \in [Procs -> BOOLEAN]
      /\ Placed(p)
  BY DEF BridgeInv, Shapes
<1>3. PICK l \in {"failed", "fw_network_td"} :
        Goto(p, l) /\ (l = "fw_network_td" => pc[p] \in LinkPcs)
  BY DEF Fault, LinkError, LinkPcs
<1>4. l \in Labels \ {"idle"} /\ pc'[p] = l
  BY <1>2, <1>3 DEF Labels, TeardownPcs, Ended, Goto
<1>5. erred' \in [Procs -> BOOLEAN]
  BY ZenonT(60), ZenonT(90), <1>2 DEF Fault, LinkError
<1>6. Placed(p)' /\ Emptied(p)' /\ Made(p)'
  BY <1>1, <1>2, <1>3, <1>4, Zenon, ZenonT(60) DEF Placed, Emptied, Made, SetupPcs, TeardownPcs, LinkPcs, Net
<1>7. Counts' /\ faults' # 0
  BY <1>1 DEF BridgeInv, Counts
<1>8. (\A q \in Procs \ {p} : pc'[q] = pc[q]) /\ \A q \in Procs : Unclaimed(q)' => Unclaimed(q)
  BY <1>1, <1>3, <1>4, <1>6, Control
<1>9. ASSUME NEW q \in Procs PROVE Attached(q)'
  <2>1. CASE q = p
    BY <1>3, <1>4, <2>1 DEF Attached
  <2>2. CASE q # p
    BY Zenon, ZenonT(60), <1>1, <1>8, <2>2, OthersAttached
  <2> QED
    BY <2>1, <2>2
<1> QED
  BY <1>1, <1>2, <1>3, <1>4, <1>5, <1>6, <1>7, <1>9, KernelSame

\* A command begins: if one of the other kind runs on its network, that is recorded.
LEMMA BeginStep ==
    ASSUME BridgeInv, NEW p \in Procs, Begin(p)
    PROVE  BridgeInv'
<1> USE CmdFacts
<1>1. /\ pc[p] = "idle" /\ UNCHANGED <<bridge, next, veth, fwnet, fwport, idx, complete, erred, faults>>
      /\ pc \in [Procs -> Labels] /\ mixed \subseteq Networks /\ ~complete[p]
  BY Zenon, ZenonT(60) DEF Begin, BridgeInv, Shapes, Placed
<1>2. PICK l \in {"get_bridge", "del_veth"} :
        Goto(p, l) /\ (l = "get_bridge" <=> Cmd[p].kind = "setup")
  BY Zenon, ZenonT(60) DEF Begin
<1>3. pc' \in [Procs -> Labels] /\ pc'[p] = l /\ \A q \in Procs \ {p} : pc'[q] = pc[q]
  BY <1>1, <1>2, ZenonT(60), ZenonT(90) DEF Goto, Labels, SetupPcs, TeardownPcs, LinkPcs
<1>4. /\ mixed \subseteq mixed' /\ mixed' \subseteq Networks
      /\ \A q \in Procs \ {p} : Running(q) /\ Net(q) = Net(p) /\ Cmd[q].kind # Cmd[p].kind => Net(p) \in mixed'
  BY <1>1, Zenon, ZenonT(60) DEF Begin
<1>5. Shapes' /\ Counts' /\ Indices' /\ Masters' /\ RemovedOnlyWhenEmpty'
  <2>1. Shapes /\ Counts /\ Indices /\ Masters /\ RemovedOnlyWhenEmpty
    BY DEF BridgeInv
  <2>2. Shapes' /\ Counts'
    BY <1>1, <1>3, <1>4, <2>1, ZenonT(60), ZenonT(90) DEF Shapes, Counts
  <2>3. Indices' /\ Masters'
    BY <1>1, <2>1, ZenonT(60), ZenonT(90) DEF Indices, Masters
  <2>4. RemovedOnlyWhenEmpty'
    BY <1>1, <1>4, <2>1, Zenon, ZenonT(60) DEF RemovedOnlyWhenEmpty, Apart
  <2> QED
    BY <2>2, <2>3, <2>4
<1>6. Ordered'
  <2> SUFFICES ASSUME NEW a \in Procs, NEW b \in Procs, Cmd[a].kind = "setup", Cmd[b].kind = "teardown"
               PROVE  /\ Running(a)' /\ Running(b)' /\ Net(a) = Net(b) => Net(a) \in mixed'
                      /\ Ctr(a) = Ctr(b) /\ pc'[b] # "idle" => pc'[a] \in Ended
    BY DEF Ordered, Ctr, Net
  <2>1. /\ Running(a) /\ Running(b) /\ Net(a) = Net(b) => Net(a) \in mixed
        /\ Ctr(a) = Ctr(b) /\ pc[b] # "idle" => pc[a] \in Ended
    BY Zenon, ZenonT(60) DEF BridgeInv, Ordered
  <2>2. CASE a = p
    BY <1>1, <1>3, <1>4, <2>1, <2>2 DEF Running, Ended
  <2>3. CASE b = p
    BY <1>3, <1>4, <2>3, ZenonT(60), ZenonT(90) DEF Running, Begin
  <2>4. CASE a # p /\ b # p
    BY <1>3, <1>4, <2>1, <2>4 DEF Running
  <2> QED
    BY <2>2, <2>3, <2>4, ZenonT(60), ZenonT(90)
<1>7. ASSUME NEW q \in Procs PROVE Placed(q)' /\ Emptied(q)' /\ Made(q)'
  <2>1. CASE q = p
    BY <1>1, <1>2, <1>3, <2>1, Zenon, ZenonT(60) DEF Placed, Emptied, Made, SetupPcs, TeardownPcs, LinkPcs, Net
  <2>2. CASE q # p
    <3>1. Placed(q) /\ Emptied(q) /\ Made(q) /\ pc'[q] = pc[q]
      BY <1>3, <2>2, Zenon, ZenonT(60) DEF BridgeInv
    <3>2. Placed(q)'
      BY <1>1, <3>1, Zenon, ZenonT(60) DEF Placed, Net
    <3>3. Emptied(q)'
      BY Zenon, ZenonT(60), <1>1, <1>4, <3>1 DEF Emptied, Net
    <3>4. Made(q)'
      BY Zenon, ZenonT(60), <1>1, <1>4, <3>1 DEF Made, Mine, Net
    <3> QED
      BY <3>2, <3>3, <3>4
  <2> QED
    BY <2>1, <2>2
<1>8. ASSUME NEW q \in Procs PROVE Attached(q)'
  <2>1. Unclaimed(q)' => Unclaimed(q)
    BY <1>1, <1>3 DEF Unclaimed, Ctr, Net
  <2>2. CASE q = p
    BY <1>3, <2>2 DEF Attached
  <2>3. CASE q # p
    BY <1>1, <1>3, <1>4, <2>1, <2>3, Zenon, ZenonT(60) DEF BridgeInv, Attached, Ctr, Net
  <2> QED
    BY <2>2, <2>3, Zenon, ZenonT(60)
<1>9. ASSUME NEW n \in Networks PROVE HalfMade(n)'
  BY <1>1, <1>3, <1>4, ZenonT(60), ZenonT(90) DEF BridgeInv, HalfMade, Net
<1> QED
  BY ZenonT(60), ZenonT(90), <1>5, <1>6, <1>7, <1>8, <1>9 DEF BridgeInv

-----------------------------------------------------------------------------
\* Bridge::setup.


\* A step that makes a bridge or changes its state.
LEMMA BridgeOnly ==
    ASSUME BridgeInv, NEW p \in Procs, NEW l \in {"find_bridge", "set_up", "create_veth"}, Running(p), Goto(p, l),
           Cmd[p].kind = "setup",
           UNCHANGED <<veth, fwnet, fwport, idx, complete, erred, faults, mixed>>,
           bridge' \in [Networks -> [index : Nat, addr : BOOLEAN, up : BOOLEAN]], next' \in Nat \ {0},
           Indices', Masters', \A q \in Procs : Made(q)', \A n \in Networks : HalfMade(n)'
    PROVE  BridgeInv'
<1> USE CmdFacts
<1>1. l \in Labels \ {"idle"} /\ pc \in [Procs -> Labels]
  BY Zenon, ZenonT(60) DEF Labels, SetupPcs, BridgeInv, Shapes
<1>2. pc'[p] = l
  BY <1>1 DEF Goto
<1>3. Placed(p)' /\ Emptied(p)'
  BY <1>2, Zenon, ZenonT(60) DEF Placed, Emptied, TeardownPcs, LinkPcs, Net
<1>4. /\ pc' \in [Procs -> Labels] /\ \A q \in Procs \ {p} : pc'[q] = pc[q]
      /\ Ordered' /\ \A q \in Procs : Unclaimed(q)' => Unclaimed(q)
  BY <1>1, <1>3, Control, Zenon, ZenonT(60)
<1>5. Shapes' /\ Counts' /\ RemovedOnlyWhenEmpty'
  BY ZenonT(60), ZenonT(90), <1>4 DEF BridgeInv, Shapes, Counts, RemovedOnlyWhenEmpty, Apart
<1>6. ASSUME NEW q \in Procs PROVE Placed(q)' /\ Emptied(q)'
  <2>1. CASE q = p
    BY <1>3, <2>1, Zenon, ZenonT(60)
  <2>2. CASE q # p
    <3>1. Placed(q) /\ Emptied(q) /\ pc'[q] = pc[q]
      BY ZenonT(60), ZenonT(90), <1>4, <2>2 DEF BridgeInv
    <3>2. Placed(q)'
      BY <3>1, Zenon, ZenonT(60) DEF Placed, Net
    <3>3. Emptied(q)'
      BY <3>1, Zenon, ZenonT(60) DEF Emptied, Net
    <3> QED
      BY <3>2, <3>3
  <2> QED
    BY Zenon, ZenonT(60), <2>1, <2>2
<1>7. ASSUME NEW q \in Procs PROVE Attached(q)'
  <2>1. CASE q = p
    BY <1>2, <2>1, Zenon, ZenonT(60) DEF Attached
  <2>2. CASE q # p
    BY <1>4, <2>2, OthersAttached, ZenonT(60), ZenonT(90)
  <2> QED
    BY <2>1, <2>2, Zenon, ZenonT(60)
<1> QED
  BY Zenon, ZenonT(60), <1>4, <1>5, <1>6, <1>7 DEF BridgeInv

\* A setup that gives up leaves what is there as it is.
LEMMA GiveUp ==
    ASSUME BridgeInv, NEW p \in Procs, Running(p), Cmd[p].kind = "setup", Goto(p, "failed"),
           UNCHANGED <<bridge, next, veth, fwnet, fwport, idx, complete, erred, faults, mixed>>,
           pc[p] \in {"find_bridge", "add_addr", "set_up"} => Net(p) \in mixed
    PROVE  BridgeInv'
<1> USE CmdFacts
<1>1. /\ "failed" \in Labels \ {"idle"} /\ pc \in [Procs -> Labels]
      /\ idx \in [Procs -> Nat] /\ erred \in [Procs -> BOOLEAN]
  BY Zenon, ZenonT(60) DEF Labels, Ended, BridgeInv, Shapes
<1>2. pc'[p] = "failed"
  BY <1>1 DEF Goto
<1>3. Placed(p)' /\ Emptied(p)' /\ Made(p)' /\ Counts'
  BY Zenon, ZenonT(60), <1>2 DEF BridgeInv, Counts, Placed, Emptied, Made, SetupPcs, TeardownPcs, LinkPcs, Net
<1>4. (\A q \in Procs \ {p} : pc'[q] = pc[q]) /\ \A q \in Procs : Unclaimed(q)' => Unclaimed(q)
  BY Zenon, ZenonT(60), <1>1, <1>3, Control
<1>5. ASSUME NEW q \in Procs PROVE Attached(q)'
  <2>1. CASE q = p
    BY <1>2, <2>1 DEF Attached
  <2>2. CASE q # p
    BY <1>4, <2>2, OthersAttached
  <2> QED
    BY <2>1, <2>2
<1> QED
  BY <1>1, <1>3, <1>5, KernelSame, ZenonT(60), ZenonT(90)

\* create_link gives the bridge an index nobody had.
LEMMA CreateBridgeStep ==
    ASSUME BridgeInv, NEW p \in Procs, CreateBridge(p)
    PROVE  BridgeInv'
<1> USE CmdFacts
<1>1. /\ pc[p] = "create_bridge" /\ Running(p) /\ Cmd[p].kind = "setup"
      /\ UNCHANGED <<veth, fwnet, fwport, idx, complete, erred, faults, mixed>>
  BY DEF CreateBridge, Running, Ended, BridgeInv, Placed, SetupPcs
<1>2. CASE bridge[Net(p)].index # 0
  BY <1>1, <1>2, GiveUp DEF CreateBridge
<1>3. CASE bridge[Net(p)].index = 0
  <2>1. /\ bridge' = [bridge EXCEPT ![Net(p)] = [NoBridge EXCEPT !.index = next]]
        /\ next' = next + 1 /\ Goto(p, "find_bridge")
    BY <1>3 DEF CreateBridge
  <2>2. /\ bridge \in [Networks -> [index : Nat, addr : BOOLEAN, up : BOOLEAN]] /\ next \in Nat \ {0}
        /\ pc \in [Procs -> Labels]
    BY Zenon, ZenonT(60) DEF BridgeInv, Shapes
  <2>3. /\ bridge' \in [Networks -> [index : Nat, addr : BOOLEAN, up : BOOLEAN]] /\ next' \in Nat \ {0}
        /\ bridge'[Net(p)].index = next /\ \A n \in Networks \ {Net(p)} : bridge'[n] = bridge[n]
    <3> DEFINE b == [NoBridge EXCEPT !.index = next]
    <3>1. b \in [index : Nat, addr : BOOLEAN, up : BOOLEAN] /\ b.index = next
      BY Zenon, ZenonT(60), <2>2 DEF NoBridge
    <3>2. bridge' = [bridge EXCEPT ![Net(p)] = b] /\ next' \in Nat \ {0}
      BY <2>1, <2>2
    <3> HIDE DEF b
    <3> QED
      BY <2>2, <3>1, <3>2
  <2>4. pc'[p] = "find_bridge" /\ \A q \in Procs \ {p} : pc'[q] = pc[q]
    BY <2>1, <2>2 DEF Goto
  <2>5. Indices'
    <3>1. \A n \in Networks : bridge[n].index \in Nat /\ bridge[n].index < next
      BY <2>2 DEF BridgeInv, Indices
    <3>2. \A n \in Networks : bridge'[n].index < next'
      BY <2>1, <2>2, <2>3, <3>1
    <3>3. \A n \in Networks \ {Net(p)} : bridge'[n].index # bridge'[Net(p)].index
      BY <2>2, <2>3, <3>1
    <3>4. \A m, n \in Networks : m # n /\ bridge'[m].index = bridge'[n].index => bridge'[n].index = 0
      BY <2>3, <3>3, ZenonT(60), ZenonT(90) DEF BridgeInv, Indices
    <3> QED
      BY <3>2, <3>4 DEF Indices
  <2>6. Masters'
    <3> SUFFICES ASSUME NEW c \in Containers, NEW n \in Networks
                 PROVE  veth[c][n].master \in {0, bridge'[n].index} /\ (veth[c][n].ready => veth[c][n].there)
      BY <1>1 DEF Masters
    <3>1. veth[c][n].master \in {0, bridge[n].index} /\ (veth[c][n].ready => veth[c][n].there)
      BY Zenon, ZenonT(60) DEF BridgeInv, Masters
    <3> QED
      BY <1>3, <2>3, <3>1
  <2>7. ASSUME NEW q \in Procs PROVE Made(q)'
    <3>1. CASE q = p
      BY <2>2, <2>3, <2>4, <3>1 DEF Made, Net
    <3>2. CASE q # p /\ Net(q) = Net(p)
      <4>1. Net(q) \notin mixed => pc[q] \notin {"add_addr", "set_up"}
        BY <1>3, <3>2, Zenon, ZenonT(60) DEF BridgeInv, Made, Mine
      <4> QED
        BY <1>1, <2>2, <2>3, <2>4, <3>2, <4>1, Zenon, ZenonT(60) DEF Made, Net
    <3>3. CASE q # p /\ Net(q) # Net(p)
      <4>1. Made(q) /\ bridge'[Net(q)] = bridge[Net(q)] /\ pc'[q] = pc[q]
        BY Zenon, ZenonT(60), <2>3, <2>4, <3>3 DEF BridgeInv
      <4> QED
        BY <1>1, <4>1, Zenon, ZenonT(60) DEF Made, Mine, Net
    <3> QED
      BY <3>1, <3>2, <3>3
  <2>8. ASSUME NEW n \in Networks PROVE HalfMade(n)'
    <3>1. CASE n = Net(p)
      BY <2>4, <3>1 DEF HalfMade, Net
    <3>2. CASE n # Net(p)
      <4>1. HalfMade(n) /\ bridge'[n] = bridge[n] /\ \A q \in Procs : Net(q) = n => pc'[q] = pc[q]
        BY <2>3, <2>4, <3>2, Zenon, ZenonT(60) DEF BridgeInv
      <4> QED
        BY <1>1, <4>1 DEF HalfMade, Net
    <3> QED
      BY <3>1, <3>2
  <2> QED
    BY <1>1, <2>1, <2>3, <2>5, <2>6, <2>7, <2>8, BridgeOnly
<1> QED
  BY <1>2, <1>3

\* The new bridge gets its addresses and is set up, in that order.
LEMMA BridgeStateSteps ==
    ASSUME BridgeInv, NEW p \in Procs, AddAddr(p) \/ SetUp(p)
    PROVE  BridgeInv'
<1> USE CmdFacts
<1>1. /\ pc[p] \in {"add_addr", "set_up"} /\ Running(p) /\ Cmd[p].kind = "setup"
      /\ UNCHANGED <<next, veth, fwnet, fwport, idx, complete, erred, faults, mixed>>
  BY DEF AddAddr, SetUp, Running, Ended, BridgeInv, Placed, SetupPcs
<1>2. CASE ~Mine(p)
  <2>1. Net(p) \in mixed
    BY <1>1, <1>2, ZenonT(60), ZenonT(90) DEF BridgeInv, Made
  <2> QED
    BY <1>1, <1>2, <2>1, GiveUp DEF AddAddr, SetUp
<1>3. CASE Mine(p)
  <2>1. /\ bridge \in [Networks -> [index : Nat, addr : BOOLEAN, up : BOOLEAN]] /\ next \in Nat \ {0}
        /\ pc \in [Procs -> Labels]
    BY DEF BridgeInv, Shapes
  <2>2. PICK l \in {"set_up", "create_veth"} :
          /\ Goto(p, l) /\ (l = "set_up" <=> pc[p] = "add_addr")
          /\ bridge' = IF l = "set_up" THEN [bridge EXCEPT ![Net(p)].addr = TRUE]
                                       ELSE [bridge EXCEPT ![Net(p)].up = TRUE]
    BY <1>3 DEF AddAddr, SetUp
  <2>3. /\ bridge' \in [Networks -> [index : Nat, addr : BOOLEAN, up : BOOLEAN]]
        /\ \A n \in Networks : /\ bridge'[n].index = bridge[n].index
                               /\ bridge[n].addr => bridge'[n].addr
        /\ \A n \in Networks \ {Net(p)} : bridge'[n] = bridge[n]
        /\ l = "set_up" => bridge'[Net(p)].addr
        /\ l = "create_veth" => bridge'[Net(p)].up
    <3>1. CASE l = "set_up"
      BY Zenon, ZenonT(60), <2>1, <2>2, <3>1
    <3>2. CASE l = "create_veth"
      BY Zenon, ZenonT(60), <2>1, <2>2, <3>2
    <3> QED
      BY <3>1, <3>2, Zenon, ZenonT(60)
  <2>4. pc'[p] = l /\ \A q \in Procs \ {p} : pc'[q] = pc[q]
    BY <2>1, <2>2 DEF Goto
  <2>5. Indices' /\ Masters'
    <3>1. Indices /\ Masters /\ \A n \in Networks : bridge'[n].index = bridge[n].index
      BY <2>3, Zenon, ZenonT(60) DEF BridgeInv
    <3>2. Indices'
      <4>1. next' = next
        BY <1>1
      <4> QED
        BY <3>1, <4>1 DEF Indices
    <3>3. Masters'
      BY <1>1, <3>1, Zenon, ZenonT(60) DEF Masters
    <3> QED
      BY <3>2, <3>3
  <2>6. ASSUME NEW q \in Procs PROVE Made(q)'
    <3>1. CASE q = p
      BY Zenon, ZenonT(60), <1>1, <1>3, <2>3, <2>4, <3>1 DEF Made, Mine, Net
    <3>2. CASE q # p
      <4>1. Made(q) /\ pc'[q] = pc[q]
        BY <2>4, <3>2, ZenonT(60), ZenonT(90) DEF BridgeInv
      <4>2. bridge'[Net(q)].index = bridge[Net(q)].index /\ (bridge[Net(q)].addr => bridge'[Net(q)].addr)
        BY <2>3, ZenonT(60), ZenonT(90)
      <4> QED
        BY <1>1, <4>1, <4>2, Zenon, ZenonT(60) DEF Made, Mine, Net
    <3> QED
      BY <3>1, <3>2
  <2>7. ASSUME NEW n \in Networks PROVE HalfMade(n)'
    <3>1. CASE n # Net(p)
      <4>1. HalfMade(n) /\ bridge'[n] = bridge[n]
        BY <2>3, <3>1, Zenon, ZenonT(60) DEF BridgeInv
      <4> QED
        BY <1>1, <2>4, <3>1, <4>1, Zenon, ZenonT(60) DEF HalfMade, Net
    <3>2. CASE n = Net(p) /\ l = "set_up"
      BY <2>4, <3>2, Zenon, ZenonT(60) DEF HalfMade, Net
    <3>3. CASE n = Net(p) /\ l = "create_veth"
      <4>1. n \notin mixed => bridge[n].addr
        BY <1>1, <2>2, <3>3 DEF BridgeInv, Made
      <4> QED
        BY <1>1, <2>3, <3>3, <4>1, Zenon, ZenonT(60) DEF HalfMade
    <3> QED
      BY <3>1, <3>2, <3>3
  <2> QED
    <3>1. l \in {"find_bridge", "set_up", "create_veth"} /\ next' \in Nat \ {0} /\ Goto(p, l)
      BY <1>1, <2>1, <2>2
    <3>2. bridge' \in [Networks -> [index : Nat, addr : BOOLEAN, up : BOOLEAN]]
      BY <2>3
    <3> QED
      BY <1>1, <2>5, <2>6, <2>7, <3>1, <3>2, BridgeOnly
<1> QED
  BY <1>2, <1>3

\* A setup and a teardown at work on one network.
LEMMA Together ==
    ASSUME BridgeInv, NEW p \in Procs, NEW q \in Procs, Cmd[p].kind = "setup", Cmd[q].kind = "teardown",
           Running(p), Running(q), Net(p) = Net(q)
    PROVE  Net(p) \in mixed
BY DEF BridgeInv, Ordered

\* While a setup runs, no teardown of its container has begun.
LEMMA SetupUnclaimed ==
    ASSUME BridgeInv, NEW p \in Procs, Cmd[p].kind = "setup", Running(p)
    PROVE  Unclaimed(p)
BY DEF BridgeInv, Ordered, Unclaimed, Running

\* A step that changes the interface of its container alone.
LEMMA VethOnly ==
    ASSUME BridgeInv, NEW p \in Procs, NEW l \in Labels \ {"idle", "find_bridge", "add_addr", "set_up"},
           Running(p), Goto(p, l), pc[p] \notin {"find_bridge", "add_addr", "set_up"},
           UNCHANGED <<bridge, next, fwnet, fwport, idx, complete, erred, faults, mixed>>,
           NEW v \in [there : BOOLEAN, master : Nat, ready : BOOLEAN],
           veth' = [veth EXCEPT ![Ctr(p)][Net(p)] = v],
           v.master \in {0, bridge[Net(p)].index}, v.ready => v.there,
           v.there /\ Net(p) \notin mixed => v.master # 0,
           Placed(p)', \A q \in Procs : Emptied(q)' /\ Attached(q)'
    PROVE  BridgeInv'
<1> USE CmdFacts
<1>1. veth \in [Containers -> [Networks -> [there : BOOLEAN, master : Nat, ready : BOOLEAN]]]
  BY Zenon, ZenonT(60) DEF BridgeInv, Shapes
<1>2. /\ veth' \in [Containers -> [Networks -> [there : BOOLEAN, master : Nat, ready : BOOLEAN]]]
      /\ \A c \in Containers, n \in Networks :
           veth'[c][n] = IF c = Ctr(p) /\ n = Net(p) THEN v ELSE veth[c][n]
  BY <1>1, Zenon, ZenonT(60)
<1>3. /\ pc' \in [Procs -> Labels] /\ pc'[p] = l /\ \A q \in Procs \ {p} : pc'[q] = pc[q]
      /\ Ordered'
  BY Control
<1>4. Shapes' /\ Counts' /\ Indices'
  <2>1. Shapes /\ Counts /\ Indices
    BY DEF BridgeInv
  <2>2. Shapes'
    BY <1>2, <1>3, <2>1, Zenon, ZenonT(60) DEF Shapes
  <2>3. Counts' /\ Indices'
    BY <2>1 DEF Counts, Indices
  <2> QED
    BY <2>2, <2>3
<1>5. Masters'
  BY ZenonT(60), ZenonT(90), <1>2 DEF BridgeInv, Masters
<1>6. RemovedOnlyWhenEmpty'
  <2>1. RemovedOnlyWhenEmpty
    BY DEF BridgeInv
  <2> SUFFICES ASSUME NEW c \in Containers, NEW n \in Networks, veth'[c][n].there, n \notin mixed
               PROVE  veth'[c][n].master # 0
    BY DEF RemovedOnlyWhenEmpty, Apart
  <2>2. CASE c = Ctr(p) /\ n = Net(p)
    BY <1>2, <2>2, Zenon, ZenonT(60)
  <2>3. CASE ~(c = Ctr(p) /\ n = Net(p))
    <3>1. veth'[c][n] = veth[c][n]
      BY <1>2, <2>3, Zenon, ZenonT(60)
    <3> QED
      BY <2>1, <3>1 DEF RemovedOnlyWhenEmpty, Apart
  <2> QED
    BY <2>2, <2>3
<1>7. ASSUME NEW q \in Procs PROVE Placed(q)' /\ Made(q)'
  <2>1. Placed(q) /\ Made(q)
    BY DEF BridgeInv
  <2>2. CASE q = p
    BY <1>3, <2>1, <2>2, Zenon, ZenonT(60) DEF Placed, Made, Mine, Net
  <2>3. CASE q # p
    BY <1>3, <2>1, <2>3, Zenon, ZenonT(60) DEF Placed, Made, Mine, Net
  <2> QED
    BY <2>2, <2>3
<1>8. ASSUME NEW n \in Networks PROVE HalfMade(n)'
  <2>1. HalfMade(n)
    BY DEF BridgeInv
  <2> QED
    BY <1>3, <2>1 DEF HalfMade, Net
<1> QED
  BY <1>3, <1>4, <1>5, <1>6, <1>7, <1>8 DEF BridgeInv

\* create_veth_pair attaches the interface to the bridge that is there.
LEMMA CreateVethStep ==
    ASSUME BridgeInv, NEW p \in Procs, CreateVeth(p)
    PROVE  BridgeInv'
<1> USE CmdFacts
<1>1. /\ pc[p] = "create_veth" /\ Running(p) /\ Cmd[p].kind = "setup"
      /\ UNCHANGED <<bridge, next, fwnet, fwport, idx, complete, erred, faults, mixed>>
  BY DEF CreateVeth, Running, Ended, BridgeInv, Placed, SetupPcs
<1>2. CASE ~(Mine(p) /\ ~veth[Ctr(p)][Net(p)].there)
  BY <1>1, <1>2, GiveUp DEF CreateVeth
<1>3. CASE Mine(p) /\ ~veth[Ctr(p)][Net(p)].there
  <2> DEFINE v == [there |-> TRUE, master |-> idx[p], ready |-> FALSE]
  <2>1. veth' = [veth EXCEPT ![Ctr(p)][Net(p)] = v] /\ Goto(p, "configure")
    BY <1>3 DEF CreateVeth
  <2>2. /\ veth \in [Containers -> [Networks -> [there : BOOLEAN, master : Nat, ready : BOOLEAN]]]
        /\ pc \in [Procs -> Labels] /\ idx \in [Procs -> Nat]
    BY DEF BridgeInv, Shapes
  <2>3. /\ v \in [there : BOOLEAN, master : Nat, ready : BOOLEAN] /\ v.there /\ ~v.ready
        /\ v.master \in {0, bridge[Net(p)].index} /\ v.master # 0
    BY <1>3, <2>2, Zenon, ZenonT(60) DEF Mine
  <2> HIDE DEF v
  <2>4. \A c \in Containers, n \in Networks :
          veth'[c][n] = IF c = Ctr(p) /\ n = Net(p) THEN v ELSE veth[c][n]
    BY <2>1, <2>2
  <2>5. "configure" \in Labels \ {"idle", "find_bridge", "add_addr", "set_up"} /\ pc'[p] = "configure"
    BY <2>1, <2>2 DEF Goto, Labels, SetupPcs
  <2>6. Placed(p)'
    BY <1>1, <2>5 DEF Placed, TeardownPcs, LinkPcs
  <2>7. (\A q \in Procs \ {p} : pc'[q] = pc[q]) /\ \A q \in Procs : Unclaimed(q)' => Unclaimed(q)
    BY <1>1, <2>1, <2>5, <2>6, Control
  <2>8. ASSUME NEW q \in Procs PROVE Emptied(q)'
    <3>1. CASE q = p
      BY <2>5, <3>1, Zenon, ZenonT(60) DEF Emptied, Net
    <3>2. CASE q # p /\ Net(q) # Net(p)
      <4>1. Emptied(q) /\ pc'[q] = pc[q]
        BY Zenon, ZenonT(60), <2>7, <3>2 DEF BridgeInv
      <4>2. \A c \in Containers : veth'[c][Net(q)] = veth[c][Net(q)]
        BY <2>4, <3>2
      <4> QED
        BY ZenonT(60), ZenonT(90), <1>1, <4>1, <4>2 DEF Emptied, Net
    <3>3. CASE q # p /\ Net(q) = Net(p)
      <4>1. pc[q] \in {"del_bridge", "fw_network_td"} => Running(q) /\ Cmd[q].kind = "teardown"
        BY ZenonT(60), ZenonT(90) DEF BridgeInv, Placed, TeardownPcs, LinkPcs, Running, Ended
      <4>2. pc[q] \in {"del_bridge", "fw_network_td"} => Net(q) \in mixed
        BY <1>1, <3>3, <4>1, Together, Zenon, ZenonT(60)
      <4> QED
        BY Zenon, ZenonT(60), <1>1, <2>7, <3>3, <4>2 DEF BridgeInv, Emptied, Net
    <3> QED
      BY <3>1, <3>2, <3>3
  <2>9. ASSUME NEW q \in Procs PROVE Attached(q)'
    <3>1. CASE q = p
      BY <2>3, <2>4, <2>5, <3>1, Zenon, ZenonT(60) DEF Attached, Ctr, Net
    <3>2. CASE q # p
      <4>1. Attached(q) /\ pc'[q] = pc[q] /\ (Unclaimed(q)' => Unclaimed(q))
        BY <2>7, <3>2, Zenon, ZenonT(60) DEF BridgeInv
      <4>2. CASE Ctr(q) = Ctr(p) /\ Net(q) = Net(p)
        BY Zenon, ZenonT(60), <1>1, <1>3, <4>1, <4>2 DEF Attached, Ctr, Net
      <4>3. CASE ~(Ctr(q) = Ctr(p) /\ Net(q) = Net(p))
        BY Zenon, ZenonT(60), <1>1, <2>4, <4>1, <4>3 DEF Attached, Ctr, Net
      <4> QED
        BY <4>2, <4>3
    <3> QED
      BY <3>1, <3>2
  <2> QED
    BY Zenon, ZenonT(60), <1>1, <2>1, <2>3, <2>5, <2>6, <2>8, <2>9, VethOnly
<1> QED
  BY <1>2, <1>3

\* The interface gets its addresses: no teardown can have taken it meanwhile.
LEMMA ConfigureStep ==
    ASSUME BridgeInv, NEW p \in Procs, Configure(p)
    PROVE  BridgeInv'
<1> USE CmdFacts
<1>1. /\ pc[p] = "configure" /\ Running(p) /\ Cmd[p].kind = "setup"
      /\ UNCHANGED <<bridge, next, fwnet, fwport, idx, complete, erred, faults, mixed>>
  BY DEF Configure, Running, Ended, BridgeInv, Placed, SetupPcs
<1>2. /\ veth \in [Containers -> [Networks -> [there : BOOLEAN, master : Nat, ready : BOOLEAN]]]
      /\ pc \in [Procs -> Labels]
  BY Zenon, ZenonT(60) DEF BridgeInv, Shapes
<1>3. veth[Ctr(p)][Net(p)].there
  BY Zenon, ZenonT(60), <1>1, SetupUnclaimed DEF BridgeInv, Attached
<1> DEFINE v == [veth[Ctr(p)][Net(p)] EXCEPT !.ready = TRUE]
<1>4. /\ v \in [there : BOOLEAN, master : Nat, ready : BOOLEAN] /\ v.there /\ v.ready
      /\ v.master = veth[Ctr(p)][Net(p)].master
  <2>1. veth[Ctr(p)][Net(p)] \in [there : BOOLEAN, master : Nat, ready : BOOLEAN]
    BY <1>2
  <2>2. /\ v \in [there : BOOLEAN, master : Nat, ready : BOOLEAN] /\ v.ready
        /\ v.master = veth[Ctr(p)][Net(p)].master /\ v.there = veth[Ctr(p)][Net(p)].there
    BY Zenon, ZenonT(60), <2>1
  <2> HIDE DEF v
  <2> QED
    BY <1>3, <2>2
<1>5. veth' = [veth EXCEPT ![Ctr(p)][Net(p)] = v]
  BY <1>2 DEF Configure
<1> HIDE DEF v
<1>6. /\ v.master \in {0, bridge[Net(p)].index}
      /\ Net(p) \notin mixed => v.master # 0
  <2>1. veth[Ctr(p)][Net(p)].master \in {0, bridge[Net(p)].index}
    BY ZenonT(60), ZenonT(90) DEF BridgeInv, Masters
  <2>2. Net(p) \notin mixed => veth[Ctr(p)][Net(p)].master # 0
    BY <1>3, Zenon, ZenonT(60) DEF BridgeInv, RemovedOnlyWhenEmpty, Apart
  <2> QED
    BY <1>4, <2>1, <2>2, Zenon, ZenonT(60)
<1>7. \A c \in Containers, n \in Networks :
        veth'[c][n] = IF c = Ctr(p) /\ n = Net(p) THEN v ELSE veth[c][n]
  BY <1>2, <1>5
<1>8. \A c \in Containers, n \in Networks :
        /\ veth'[c][n].there <=> veth[c][n].there
        /\ veth'[c][n].master = veth[c][n].master
        /\ veth[c][n].ready => veth'[c][n].ready
  <2> TAKE c \in Containers, n \in Networks
  <2>1. CASE c = Ctr(p) /\ n = Net(p)
    BY <1>3, <1>4, <1>7, <2>1, ZenonT(60), ZenonT(90)
  <2>2. CASE ~(c = Ctr(p) /\ n = Net(p))
    BY <1>7, <2>2, Zenon, ZenonT(60)
  <2> QED
    BY <2>1, <2>2, ZenonT(60), ZenonT(90)
<1>9. PICK l \in {"fw_network", "done", "failed"} :
        Goto(p, l) /\ (l = "fw_network" => Net(p) \notin Internal) /\ (l = "done" => Net(p) \in Internal)
  BY DEF Configure
<1>10. l \in Labels \ {"idle", "find_bridge", "add_addr", "set_up"} /\ pc'[p] = l
  BY <1>2, <1>9 DEF Goto, Labels, SetupPcs, Ended
<1>11. Placed(p)'
  BY <1>1, <1>9, <1>10 DEF Placed, SetupPcs, TeardownPcs, LinkPcs, Net
<1>12. (\A q \in Procs \ {p} : pc'[q] = pc[q]) /\ \A q \in Procs : Unclaimed(q)' => Unclaimed(q)
  BY <1>1, <1>9, <1>10, <1>11, Control, Zenon, ZenonT(60)
<1>13. ASSUME NEW q \in Procs PROVE Emptied(q)'
  <2>1. CASE q = p
    BY <1>9, <1>10, <2>1, Zenon, ZenonT(60) DEF Emptied, Net
  <2>2. CASE q # p
    <3>1. Emptied(q) /\ pc'[q] = pc[q]
      BY ZenonT(60), ZenonT(90), <1>12, <2>2 DEF BridgeInv
    <3> QED
      BY Zenon, ZenonT(60), <1>1, <1>8, <3>1, EmptiedStays
  <2> QED
    BY <2>1, <2>2
<1>14. ASSUME NEW q \in Procs PROVE Attached(q)'
  <2>1. CASE q = p
    BY <1>4, <1>7, <1>9, <1>10, <2>1, Zenon, ZenonT(60) DEF Attached, Ctr, Net
  <2>2. CASE q # p
    <3>1. Attached(q) /\ pc'[q] = pc[q] /\ (Unclaimed(q)' => Unclaimed(q))
      BY ZenonT(60), ZenonT(90), <1>12, <2>2 DEF BridgeInv
    <3> QED
      BY Zenon, ZenonT(60), <1>1, <1>8, <3>1 DEF Attached, Ctr, Net
  <2> QED
    BY <2>1, <2>2
<1> QED
  BY Zenon, ZenonT(60), <1>1, <1>4, <1>5, <1>6, <1>9, <1>10, <1>11, <1>13, <1>14, VethOnly

-----------------------------------------------------------------------------
\* Bridge::teardown and the theorems.

\* An error of remove_link: the teardown goes on, and is not complete.
LEMMA LinkErrorStep ==
    ASSUME BridgeInv, NEW p \in Procs, pc[p] \in LinkPcs, LinkError(p),
           UNCHANGED <<bridge, next, veth, fwnet, fwport, idx, complete, faults, mixed>>
    PROVE  BridgeInv'
<1> USE CmdFacts
<1>1. /\ "fw_network_td" \in Labels \ {"idle"} /\ pc \in [Procs -> Labels]
      /\ idx \in [Procs -> Nat] /\ erred \in [Procs -> BOOLEAN]
      /\ Cmd[p].kind = "teardown" /\ ~complete[p] /\ Running(p)
  BY ZenonT(60), ZenonT(90) DEF Labels, LinkPcs, TeardownPcs, BridgeInv, Shapes, Placed, Running, Ended
<1>2. Goto(p, "fw_network_td") /\ pc'[p] = "fw_network_td" /\ erred' \in [Procs -> BOOLEAN]
  BY <1>1, ZenonT(60), ZenonT(90) DEF LinkError, Goto
<1>3. Placed(p)' /\ Emptied(p)' /\ Made(p)' /\ Counts'
  BY <1>1, <1>2, ZenonT(60), ZenonT(90) DEF BridgeInv, Counts, Placed, Emptied, Made, SetupPcs, TeardownPcs, LinkPcs, Net
<1>4. (\A q \in Procs \ {p} : pc'[q] = pc[q]) /\ \A q \in Procs : Unclaimed(q)' => Unclaimed(q)
  BY <1>1, <1>2, <1>3, Control, ZenonT(60), ZenonT(90)
<1>5. ASSUME NEW q \in Procs PROVE Attached(q)'
  <2>1. CASE q = p
    BY <1>1, <2>1, ZenonT(60), ZenonT(90) DEF Attached
  <2>2. CASE q # p
    BY <1>4, <2>2, OthersAttached, Zenon, ZenonT(60)
  <2> QED
    BY <2>1, <2>2, ZenonT(60), ZenonT(90)
<1>6. pc[p] \notin {"find_bridge", "add_addr", "set_up"}
  BY DEF LinkPcs
<1> QED
  BY <1>1, <1>2, <1>3, <1>5, <1>6, KernelSame, ZenonT(60), ZenonT(90)

\* remove_link takes the interface of a container that is torn down.
LEMMA DelVethStep ==
    ASSUME BridgeInv, NEW p \in Procs, DelVeth(p)
    PROVE  BridgeInv'
<1> USE CmdFacts
<1>1. /\ pc[p] = "del_veth" /\ Running(p) /\ Cmd[p].kind = "teardown" /\ pc[p] \in LinkPcs /\ ~complete[p]
      /\ UNCHANGED <<bridge, next, fwnet, fwport, idx, complete, faults, mixed>>
  BY DEF DelVeth, Running, Ended, BridgeInv, Placed, TeardownPcs, LinkPcs
<1>2. CASE ~veth[Ctr(p)][Net(p)].there
  BY <1>1, <1>2, LinkErrorStep DEF DelVeth
<1>3. CASE veth[Ctr(p)][Net(p)].there
  <2>1. veth' = [veth EXCEPT ![Ctr(p)][Net(p)] = NoVeth] /\ Goto(p, "find") /\ erred' = erred
    BY <1>3 DEF DelVeth
  <2>2. /\ veth \in [Containers -> [Networks -> [there : BOOLEAN, master : Nat, ready : BOOLEAN]]]
        /\ pc \in [Procs -> Labels]
    BY DEF BridgeInv, Shapes
  <2>3. /\ NoVeth \in [there : BOOLEAN, master : Nat, ready : BOOLEAN]
        /\ ~NoVeth.there /\ ~NoVeth.ready /\ NoVeth.master = 0
    BY Zenon, ZenonT(60) DEF NoVeth
  <2>4. \A c \in Containers, n \in Networks :
          veth'[c][n] = IF c = Ctr(p) /\ n = Net(p) THEN NoVeth ELSE veth[c][n]
    BY <2>1, <2>2
  <2>5. "find" \in Labels \ {"idle", "find_bridge", "add_addr", "set_up"} /\ pc'[p] = "find"
    BY <2>1, <2>2 DEF Goto, Labels, TeardownPcs, LinkPcs
  <2>6. Placed(p)'
    BY <1>1, <2>5 DEF Placed, SetupPcs
  <2>7. (\A q \in Procs \ {p} : pc'[q] = pc[q]) /\ \A q \in Procs : Unclaimed(q)' => Unclaimed(q)
    BY <1>1, <2>1, <2>5, <2>6, Control
  <2>8. ASSUME NEW q \in Procs PROVE Emptied(q)'
    <3>1. CASE q = p
      BY <2>5, <3>1 DEF Emptied, Net
    <3>2. CASE q # p
      <4>1. Emptied(q) /\ pc'[q] = pc[q]
        BY <2>7, <3>2, ZenonT(60), ZenonT(90) DEF BridgeInv
      <4>2. \A c \in Containers : veth'[c][Net(q)].there =>
              veth[c][Net(q)].there /\ veth'[c][Net(q)].master = veth[c][Net(q)].master
        BY <2>3, <2>4, ZenonT(60), ZenonT(90)
      <4> QED
        BY <1>1, <4>1, <4>2, EmptiedStays, ZenonT(60), ZenonT(90)
    <3> QED
      BY <3>1, <3>2
  <2>9. ASSUME NEW q \in Procs PROVE Attached(q)'
    <3> SUFFICES ASSUME Cmd[q].kind = "setup", Unclaimed(q) PROVE Attached(q)'
      BY <2>7, ZenonT(60), ZenonT(90) DEF Attached
    <3>1. q # p /\ ~(Ctr(q) = Ctr(p) /\ Net(q) = Net(p))
      BY <1>1, ZenonT(60), ZenonT(90) DEF Unclaimed
    <3>2. veth'[Ctr(q)][Net(q)] = veth[Ctr(q)][Net(q)] /\ pc'[q] = pc[q] /\ Attached(q)
      BY <2>4, <2>7, <3>1, ZenonT(60), ZenonT(90) DEF BridgeInv
    <3> QED
      BY <1>1, <3>2, Zenon, ZenonT(60) DEF Attached, Ctr, Net
  <2> QED
    BY Zenon, ZenonT(60), <1>1, <2>1, <2>3, <2>5, <2>6, <2>8, <2>9, VethOnly
<1> QED
  BY <1>2, <1>3

\* del_link: what the listing of the ports said still holds, unless a setup ran
\* since, so that no port loses its master.
LEMMA DelBridgeStep ==
    ASSUME BridgeInv, NEW p \in Procs, DelBridge(p)
    PROVE  BridgeInv'
<1> USE CmdFacts
<1>1. /\ pc[p] = "del_bridge" /\ Running(p) /\ Cmd[p].kind = "teardown" /\ pc[p] \in LinkPcs /\ idx[p] # 0
      /\ UNCHANGED <<next, fwnet, fwport, idx, faults, mixed>>
  BY DEF DelBridge, Running, Ended, BridgeInv, Placed, TeardownPcs, LinkPcs, Emptied
<1>2. CASE ~Mine(p)
  BY <1>1, <1>2, LinkErrorStep DEF DelBridge
<1>3. CASE Mine(p)
  <2>1. /\ bridge' = [bridge EXCEPT ![Net(p)] = NoBridge]
        /\ veth' = [c \in Containers |-> [n \in Networks |->
                      IF veth[c][n].master = idx[p] THEN [veth[c][n] EXCEPT !.master = 0] ELSE veth[c][n]]]
        /\ complete' = [complete EXCEPT ![p] = TRUE] /\ Goto(p, "fw_network_td") /\ erred' = erred
    BY <1>3 DEF DelBridge
  <2>2. /\ bridge \in [Networks -> [index : Nat, addr : BOOLEAN, up : BOOLEAN]] /\ next \in Nat \ {0}
        /\ veth \in [Containers -> [Networks -> [there : BOOLEAN, master : Nat, ready : BOOLEAN]]]
        /\ complete \in [Procs -> BOOLEAN] /\ pc \in [Procs -> Labels]
    BY Zenon, ZenonT(60) DEF BridgeInv, Shapes
  <2>3. /\ NoBridge \in [index : Nat, addr : BOOLEAN, up : BOOLEAN] /\ NoBridge.index = 0
    BY DEF NoBridge
  <2>4. /\ bridge' \in [Networks -> [index : Nat, addr : BOOLEAN, up : BOOLEAN]]
        /\ bridge'[Net(p)] = NoBridge /\ \A n \in Networks \ {Net(p)} : bridge'[n] = bridge[n]
    BY <2>1, <2>2, <2>3
  <2>5. /\ veth' \in [Containers -> [Networks -> [there : BOOLEAN, master : Nat, ready : BOOLEAN]]]
        /\ \A c \in Containers, n \in Networks :
             /\ veth'[c][n].there <=> veth[c][n].there
             /\ veth'[c][n].ready <=> veth[c][n].ready
             /\ veth'[c][n].master = IF veth[c][n].master = idx[p] THEN 0 ELSE veth[c][n].master
    <3>1. ASSUME NEW w \in [there : BOOLEAN, master : Nat, ready : BOOLEAN]
          PROVE  /\ [w EXCEPT !.master = 0] \in [there : BOOLEAN, master : Nat, ready : BOOLEAN]
                 /\ [w EXCEPT !.master = 0].there = w.there /\ [w EXCEPT !.master = 0].ready = w.ready
                 /\ [w EXCEPT !.master = 0].master = 0
      OBVIOUS
    <3>2. ASSUME NEW c \in Containers, NEW n \in Networks
          PROVE  /\ veth[c][n] \in [there : BOOLEAN, master : Nat, ready : BOOLEAN]
                 /\ veth'[c][n] = IF veth[c][n].master = idx[p]
                                  THEN [veth[c][n] EXCEPT !.master = 0] ELSE veth[c][n]
      BY <2>1, <2>2
    <3>3. ASSUME NEW c \in Containers, NEW n \in Networks
          PROVE  /\ veth'[c][n] \in [there : BOOLEAN, master : Nat, ready : BOOLEAN]
                 /\ veth'[c][n].there <=> veth[c][n].there
                 /\ veth'[c][n].ready <=> veth[c][n].ready
                 /\ veth'[c][n].master = IF veth[c][n].master = idx[p] THEN 0 ELSE veth[c][n].master
      <4>1. CASE veth[c][n].master = idx[p]
        <5> DEFINE w == veth[c][n]
        <5>1. w \in [there : BOOLEAN, master : Nat, ready : BOOLEAN] /\ veth'[c][n] = [w EXCEPT !.master = 0]
          BY <3>2, <4>1
        <5> HIDE DEF w
        <5>2. /\ veth'[c][n] \in [there : BOOLEAN, master : Nat, ready : BOOLEAN]
              /\ veth'[c][n].there = w.there /\ veth'[c][n].ready = w.ready /\ veth'[c][n].master = 0
          BY <3>1, <5>1
        <5> QED
          BY <4>1, <5>2 DEF w
      <4>2. CASE veth[c][n].master # idx[p]
        BY <3>2, <4>2, Zenon, ZenonT(60)
      <4> QED
        BY <4>1, <4>2, ZenonT(60), ZenonT(90)
    <3>4. veth' \in [Containers -> [Networks -> [there : BOOLEAN, master : Nat, ready : BOOLEAN]]]
      <4>1. veth' = [c \in Containers |-> [n \in Networks |-> veth'[c][n]]]
        BY <2>1
      <4> QED
        BY <3>3, <4>1
    <3> QED
      BY <3>3, <3>4, Zenon, ZenonT(60)
  <2>6. /\ complete' \in [Procs -> BOOLEAN] /\ \A q \in Procs \ {p} : complete'[q] = complete[q]
        /\ "fw_network_td" \in Labels \ {"idle"} /\ pc'[p] = "fw_network_td"
    BY <2>1, <2>2 DEF Goto, Labels, TeardownPcs
  <2>7. Placed(p)'
    BY <1>1, <2>6 DEF Placed, SetupPcs, LinkPcs
  <2>8. /\ pc' \in [Procs -> Labels] /\ \A q \in Procs \ {p} : pc'[q] = pc[q]
        /\ Ordered' /\ \A q \in Procs : Unclaimed(q)' => Unclaimed(q)
    BY <1>1, <2>1, <2>6, <2>7, Control
  <2>9. Shapes' /\ Counts'
    BY <1>1, <2>1, <2>4, <2>5, <2>6, <2>8 DEF BridgeInv, Shapes, Counts
  <2>10. Indices'
    <3>1. \A n \in Networks : bridge[n].index \in Nat /\ bridge[n].index < next
      BY <2>2, Zenon, ZenonT(60) DEF BridgeInv, Indices
    <3>2. bridge'[Net(p)].index = 0 /\ \A n \in Networks \ {Net(p)} : bridge'[n].index = bridge[n].index
      BY <2>3, <2>4
    <3>3. next' = next /\ 0 < next
      BY <1>1, <2>2
    <3>4. \A n \in Networks : bridge'[n].index < next'
      <4> SUFFICES ASSUME NEW n \in Networks PROVE bridge'[n].index < next
        BY <3>3
      <4>1. CASE n = Net(p)
        BY <3>2, <3>3, <4>1
      <4>2. CASE n # Net(p)
        BY <3>1, <3>2, <4>2
      <4> QED
        BY <4>1, <4>2
    <3>5. \A m, n \in Networks : m # n /\ bridge'[m].index = bridge'[n].index => bridge'[n].index = 0
      BY <3>2, ZenonT(60), ZenonT(90) DEF BridgeInv, Indices
    <3> QED
      BY <3>4, <3>5 DEF Indices
  <2>11. \A c \in Containers, n \in Networks \ {Net(p)} : veth'[c][n].master = veth[c][n].master
    <3> SUFFICES ASSUME NEW c \in Containers, NEW n \in Networks \ {Net(p)} PROVE veth[c][n].master # idx[p]
      BY <2>5, ZenonT(60), ZenonT(90)
    <3>1. bridge[Net(p)].index = idx[p] /\ bridge[n].index # idx[p]
      BY <1>1, <1>3, Zenon, ZenonT(60) DEF BridgeInv, Indices, Mine
    <3> QED
      BY <1>1, <3>1, Zenon, ZenonT(60) DEF BridgeInv, Masters
  <2>12. \A c \in Containers : Net(p) \notin mixed => ~veth[c][Net(p)].there
    <3> SUFFICES ASSUME NEW c \in Containers, Net(p) \notin mixed, veth[c][Net(p)].there PROVE FALSE
      OBVIOUS
    <3>1. veth[c][Net(p)].master \in {0, idx[p]}
      BY <1>3, ZenonT(60), ZenonT(90) DEF BridgeInv, Masters, Mine
    <3>2. veth[c][Net(p)].master # 0
      BY ZenonT(60), ZenonT(90) DEF BridgeInv, RemovedOnlyWhenEmpty, Apart
    <3>3. Emptied(p)
      BY DEF BridgeInv
    <3>4. veth[c][Net(p)].master # idx[p]
      BY <1>1, <3>3, ZenonT(60), ZenonT(90) DEF Emptied
    <3> QED
      BY <3>1, <3>2, <3>4
  <2>13. Masters'
    <3> SUFFICES ASSUME NEW c \in Containers, NEW n \in Networks
                 PROVE  veth'[c][n].master \in {0, bridge'[n].index} /\ (veth'[c][n].ready => veth'[c][n].there)
      BY DEF Masters
    <3>1. veth[c][n].master \in {0, bridge[n].index} /\ (veth[c][n].ready => veth[c][n].there)
      BY ZenonT(60), ZenonT(90) DEF BridgeInv, Masters
    <3>2. veth'[c][n].ready => veth'[c][n].there
      BY <2>5, <3>1, Zenon, ZenonT(60)
    <3>3. CASE n = Net(p)
      <4>1. veth'[c][n].master = 0
        <5>1. veth[c][n].master \in {0, idx[p]}
          BY <1>3, <3>1, <3>3, ZenonT(60), ZenonT(90) DEF Mine
        <5> QED
          BY <2>5, <5>1
      <4> QED
        BY <3>2, <4>1
    <3>4. CASE n # Net(p)
      BY <2>4, <2>11, <3>1, <3>2, <3>4, ZenonT(60), ZenonT(90)
    <3> QED
      BY <3>3, <3>4, Zenon, ZenonT(60)
  <2>14. RemovedOnlyWhenEmpty'
    <3> SUFFICES ASSUME NEW c \in Containers, NEW n \in Networks, veth'[c][n].there, n \notin mixed
                 PROVE  veth'[c][n].master # 0
      BY <1>1, ZenonT(60), ZenonT(90) DEF RemovedOnlyWhenEmpty, Apart
    <3>1. veth[c][n].there
      BY <2>5, Zenon, ZenonT(60)
    <3>2. n # Net(p)
      BY <2>12, <3>1
    <3>3. veth[c][n].master # 0
      BY <3>1, ZenonT(60), ZenonT(90) DEF BridgeInv, RemovedOnlyWhenEmpty, Apart
    <3> QED
      BY <2>11, <3>2, <3>3
  <2>15. ASSUME NEW q \in Procs PROVE Emptied(q)'
    <3>1. CASE q = p
      BY ZenonT(60), ZenonT(90), <1>1, <2>5, <2>6, <2>12, <3>1 DEF Emptied, Net
    <3>2. CASE q # p
      <4>1. Emptied(q) /\ pc'[q] = pc[q] /\ complete'[q] = complete[q]
        BY <2>6, <2>8, <3>2, ZenonT(60), ZenonT(90) DEF BridgeInv
      <4>2. \A c \in Containers, n \in Networks :
              /\ veth'[c][n].there => veth[c][n].there
              /\ veth'[c][n].master \in {0, veth[c][n].master}
        BY <2>5, ZenonT(60), ZenonT(90)
      <4> QED
        BY <1>1, <4>1, <4>2, EmptiedStays, ZenonT(60), ZenonT(90)
    <3> QED
      BY <3>1, <3>2, Zenon, ZenonT(60)
  <2>16. ASSUME NEW q \in Procs PROVE Made(q)'
    <3>1. CASE q = p
      BY <2>6, <3>1, ZenonT(60), ZenonT(90) DEF Made, Net
    <3>2. CASE q # p /\ Net(q) # Net(p)
      <4>1. Made(q) /\ bridge'[Net(q)] = bridge[Net(q)] /\ pc'[q] = pc[q]
        BY <2>4, <2>8, <3>2, Zenon, ZenonT(60) DEF BridgeInv
      <4> QED
        BY <1>1, <4>1, ZenonT(60), ZenonT(90) DEF Made, Mine, Net
    <3>3. CASE q # p /\ Net(q) = Net(p)
      <4>1. pc[q] \in {"find_bridge", "add_addr", "set_up"} => Running(q) /\ Cmd[q].kind = "setup"
        BY ZenonT(60), ZenonT(90) DEF BridgeInv, Placed, SetupPcs, Running, Ended
      <4>2. pc[q] \in {"find_bridge", "add_addr", "set_up"} => Net(q) \in mixed
        BY <1>1, <3>3, <4>1, Together
      <4> QED
        BY <1>1, <2>8, <3>3, <4>2, ZenonT(60), ZenonT(90) DEF Made, Net
    <3> QED
      BY <3>1, <3>2, <3>3, ZenonT(60), ZenonT(90)
  <2>17. ASSUME NEW q \in Procs PROVE Placed(q)'
    BY <2>6, <2>7, <2>8, ZenonT(60), ZenonT(90) DEF BridgeInv, Placed, Net
  <2>18. ASSUME NEW q \in Procs PROVE Attached(q)'
    <3>1. CASE q = p
      BY <1>1, <3>1, Zenon, ZenonT(60) DEF Attached
    <3>2. CASE q # p
      <4>1. Attached(q) /\ pc'[q] = pc[q] /\ (Unclaimed(q)' => Unclaimed(q))
        BY <2>8, <3>2, Zenon, ZenonT(60) DEF BridgeInv
      <4> QED
        BY <1>1, <2>5, <4>1, ZenonT(60), ZenonT(90) DEF Attached, Ctr, Net
    <3> QED
      BY <3>1, <3>2, ZenonT(60), ZenonT(90)
  <2>19. ASSUME NEW n \in Networks PROVE HalfMade(n)'
    <3>1. CASE n = Net(p)
      BY <2>3, <2>4, <3>1 DEF HalfMade
    <3>2. CASE n # Net(p)
      <4>1. HalfMade(n) /\ bridge'[n] = bridge[n]
        BY <2>4, <3>2, Zenon, ZenonT(60) DEF BridgeInv
      <4> QED
        BY <1>1, <2>8, <4>1, ZenonT(60), ZenonT(90) DEF HalfMade, Net
    <3> QED
      BY <3>1, <3>2
  <2> QED
    BY <2>8, <2>9, <2>10, <2>13, <2>14, <2>15, <2>16, <2>17, <2>18, <2>19, Zenon, ZenonT(60) DEF BridgeInv
<1> QED
  BY <1>2, <1>3, Zenon, ZenonT(60)

\* Every step keeps the invariant.
LEMMA BridgeNext == BridgeInv /\ [Next]_vars => BridgeInv'
<1> SUFFICES ASSUME BridgeInv, [Next]_vars PROVE BridgeInv'
  OBVIOUS
<1>1. CASE UNCHANGED vars
  <2>1. /\ UNCHANGED <<bridge, next, veth, fwnet, fwport, pc, idx>>
        /\ UNCHANGED <<complete, erred, faults, mixed>>
    BY <1>1 DEF vars, procVars
  <2>2. Shapes' /\ Counts' /\ Indices' /\ Masters' /\ Ordered' /\ RemovedOnlyWhenEmpty'
    BY <2>1, ZenonT(60), ZenonT(90) DEF BridgeInv, Shapes, Counts, Indices, Masters, Ordered, Running, Ctr, Net, RemovedOnlyWhenEmpty, Apart
  <2>3. ASSUME NEW p \in Procs PROVE Placed(p)' /\ Emptied(p)' /\ Made(p)'
    BY Zenon, ZenonT(60), <2>1 DEF BridgeInv, Placed, Emptied, Made, Mine, Net
  <2>4. ASSUME NEW p \in Procs PROVE Attached(p)'
    BY <2>1, Zenon, ZenonT(60) DEF BridgeInv, Attached, Unclaimed, Ctr, Net
  <2>5. ASSUME NEW n \in Networks PROVE HalfMade(n)'
    BY <2>1 DEF BridgeInv, HalfMade, Net
  <2> QED
    BY <2>2, <2>3, <2>4, <2>5 DEF BridgeInv
<1>2. ASSUME NEW p \in Procs, SetupStep(p) PROVE BridgeInv'
  BY <1>2, LookupSteps, FirewallSteps, CreateBridgeStep, BridgeStateSteps, CreateVethStep, ConfigureStep
  DEF SetupStep
<1>3. ASSUME NEW p \in Procs, TeardownStep(p) PROVE BridgeInv'
  BY <1>3, ListSteps, TeardownFirewallSteps, DelVethStep, DelBridgeStep DEF TeardownStep
<1> QED
  BY <1>1, <1>2, <1>3, BeginStep, FaultStep DEF Next

\* The invariant holds in every reachable state.
LEMMA BridgeInvHolds == Spec => []BridgeInv
BY BridgeInit, BridgeNext, PTL DEF Spec

\* TypeOK: a port's master is the bridge of its own network, whichever invocations
\* created and removed bridges meanwhile.
THEOREM BridgeTypes == Spec => []TypeOK
<1>1. BridgeInv => TypeOK
  BY DEF BridgeInv, Shapes, Counts, Masters, TypeOK
<1> QED
  BY <1>1, BridgeInvHolds, PTL

\* RemovedOnlyWhenEmpty: remove_link deletes no bridge that has a port, unless a
\* setup and a teardown of the network ran at the same time.
THEOREM BridgeKept == Spec => []RemovedOnlyWhenEmpty
<1>1. BridgeInv => RemovedOnlyWhenEmpty
  BY DEF BridgeInv
<1> QED
  BY <1>1, BridgeInvHolds, PTL

\* Connected: a container whose Bridge::setup succeeded has its interface on a
\* bridge that is up and has its addresses, and its firewall rules.
THEOREM SetupConnects == Spec => []Connected
<1>1. BridgeInv => Connected
  <2> SUFFICES ASSUME BridgeInv, Quiet, faults = 0, NEW p \in Procs, Served(p), Net(p) \notin mixed
               PROVE  LET b == bridge[Net(p)]
                          v == veth[Ctr(p)][Net(p)]
                      IN /\ v.there /\ v.ready /\ v.master = b.index
                         /\ b.index # 0 /\ b.addr /\ b.up
                         /\ Net(p) \notin Internal => Net(p) \in fwnet /\ <<Ctr(p), Net(p)>> \in fwport
    BY ZenonT(60), ZenonT(90) DEF Connected, Apart
  <2> USE CmdFacts
  <2>1. /\ veth[Ctr(p)][Net(p)].there /\ veth[Ctr(p)][Net(p)].ready
        /\ Net(p) \notin Internal => Net(p) \in fwnet /\ <<Ctr(p), Net(p)>> \in fwport
    BY ZenonT(60), ZenonT(90) DEF BridgeInv, Attached, Served, Unclaimed
  <2>2. veth[Ctr(p)][Net(p)].master # 0
    BY <2>1, ZenonT(60), ZenonT(90) DEF BridgeInv, RemovedOnlyWhenEmpty, Apart
  <2>3. veth[Ctr(p)][Net(p)].master = bridge[Net(p)].index
    BY <2>2, Zenon, ZenonT(60) DEF BridgeInv, Masters
  <2>4. \A q \in Procs : pc[q] \notin {"find_bridge", "add_addr", "set_up"}
    BY DEF Quiet, Running, Ended
  <2>5. bridge[Net(p)].addr /\ bridge[Net(p)].up
    BY <2>2, <2>3, <2>4, ZenonT(60), ZenonT(90) DEF BridgeInv, HalfMade
  <2> QED
    BY <2>1, <2>2, <2>3, <2>5, ZenonT(60), ZenonT(90)
<1> QED
  BY <1>1, BridgeInvHolds, PTL

-----------------------------------------------------------------------------
\* What is left when every container of a network is gone.

\* A container that is set up on a network is also torn down from it.
Paired ==
    \A p \in Procs : Cmd[p].kind = "setup" =>
        \E q \in Procs : Cmd[q].kind = "teardown" /\ Ctr(q) = Ctr(p) /\ Net(q) = Net(p)

\* An interface and a forwarded port are those of a setup.
Owned ==
    \A c \in Containers, n \in Networks : veth[c][n].there \/ <<c, n>> \in fwport =>
        \E p \in Procs : Cmd[p].kind = "setup" /\ Ctr(p) = c /\ Net(p) = n

\* What a teardown has removed, for good: no setup of the container follows it.
TornDown(q) ==
    faults = 0 /\ Cmd[q].kind = "teardown" =>
        /\ pc[q] \notin {"idle", "del_veth"} => ~veth[Ctr(q)][Net(q)].there
        /\ pc[q] \in Ended => <<Ctr(q), Net(q)>> \notin fwport

\* The bridge that a teardown found is the one of the network until somebody
\* removes it.
Sees(q) ==
    Net(q) \notin mixed /\ pc[q] \in {"dump", "del_bridge"} => bridge[Net(q)].index \in {0, idx[q]}

\* Somebody uses the bridge of n, or will look whether anybody does.
Occupied(n) ==
    \/ \E c \in Containers : veth[c][n].there
    \/ \E p \in Procs :
        /\ Net(p) = n
        /\ pc[p] \in SetupPcs \cup {"find", "dump", "del_bridge"} \/ (Cmd[p].kind = "setup" /\ pc[p] = "failed")

\* The rules of n go with its bridge.
Ruled(n) ==
    bridge[n].index # 0 \/ \E q \in Procs : Net(q) = n /\ pc[q] = "fw_network_td" /\ complete[q]

Used(n) ==
    n \notin mixed /\ faults = 0 =>
        (bridge[n].index # 0 => Occupied(n)) /\ (n \in fwnet => Ruled(n))

LeftInv ==
    /\ Owned
    /\ \A q \in Procs : TornDown(q) /\ Sees(q)
    /\ \A n \in Networks : Used(n)

\* What a step of p leaves to the others.
Frame(p) ==
    /\ \A q \in Procs \ {p} : pc'[q] = pc[q] /\ idx'[q] = idx[q] /\ complete'[q] = complete[q]
    /\ mixed \subseteq mixed' /\ (faults' = 0 => faults = 0)
    /\ \A c \in Containers, n \in Networks : veth'[c][n].there =>
        veth[c][n].there \/ (pc[p] = "create_veth" /\ Ctr(p) = c /\ Net(p) = n)
    /\ \A c \in Containers, n \in Networks : <<c, n>> \in fwport' =>
        <<c, n>> \in fwport \/ (pc[p] = "fw_port" /\ Ctr(p) = c /\ Net(p) = n)
    /\ bridge'[Net(p)].index \in {0, bridge[Net(p)].index} \/ pc[p] = "create_bridge"
    /\ \A n \in Networks \ {Net(p)} :
        /\ bridge'[n].index = bridge[n].index /\ (n \in fwnet' => n \in fwnet)
        /\ \A c \in Containers : veth[c][n].there => veth'[c][n].there

\* A step that changes no interface, bridge or rule.
LEMMA LookFrame ==
    ASSUME BridgeInv, NEW p \in Procs, NEW l, Goto(p, l), faults' \in {faults, faults + 1}, mixed \subseteq mixed',
           UNCHANGED <<bridge, veth, fwnet, fwport, complete>>,
           \A q \in Procs \ {p} : idx'[q] = idx[q]
    PROVE  Frame(p)
<1>1. pc \in [Procs -> Labels] /\ faults \in Nat
  BY BridgeAssumption DEF BridgeInv, Shapes, Counts
<1>2. \A q \in Procs \ {p} : pc'[q] = pc[q]
  BY <1>1 DEF Goto
<1>3. faults' = 0 => faults = 0
  BY <1>1
<1> QED
  BY <1>2, <1>3, Zenon, ZenonT(60) DEF Frame

\* The steps of Bridge::setup change what belongs to their own invocation.
LEMMA SetupFrame ==
    ASSUME BridgeInv, NEW p \in Procs, SetupStep(p)
    PROVE  Frame(p)
<1>1. /\ pc \in [Procs -> Labels] /\ idx \in [Procs -> Nat]
      /\ Net(p) \in Networks /\ Ctr(p) \in Containers
      /\ bridge \in [Networks -> [index : Nat, addr : BOOLEAN, up : BOOLEAN]]
      /\ veth \in [Containers -> [Networks -> [there : BOOLEAN, master : Nat, ready : BOOLEAN]]]
  BY CmdFacts, Zenon, ZenonT(60) DEF BridgeInv, Shapes
<1>2. UNCHANGED <<complete, faults, mixed>>
  BY DEF SetupStep, GetBridge, CreateBridge, FindBridge, AddAddr, SetUp, CreateVeth, Configure, FwNetwork, FwPort
<1>3. \A l : Goto(p, l) => \A q \in Procs \ {p} : pc'[q] = pc[q]
  BY <1>1 DEF Goto
<1>4. CASE GetBridge(p) \/ FindBridge(p)
  <2>1. UNCHANGED <<bridge, veth, fwnet, fwport>> /\ \A q \in Procs \ {p} : idx'[q] = idx[q]
    BY <1>1, <1>4 DEF GetBridge, FindBridge
  <2>2. \E l : Goto(p, l)
    BY <1>4, ZenonT(60), ZenonT(90) DEF GetBridge, FindBridge
  <2> QED
    BY <1>2, <2>1, <2>2, LookFrame, ZenonT(60), ZenonT(90)
<1>5. CASE CreateBridge(p) \/ AddAddr(p) \/ SetUp(p)
  <2>1. UNCHANGED <<veth, fwnet, fwport, idx>>
    BY <1>5 DEF CreateBridge, AddAddr, SetUp
  <2>2. \A q \in Procs \ {p} : pc'[q] = pc[q]
    BY <1>3, <1>5 DEF CreateBridge, AddAddr, SetUp
  <2>3. /\ \A n \in Networks \ {Net(p)} : bridge'[n].index = bridge[n].index
        /\ bridge'[Net(p)].index \in {0, bridge[Net(p)].index} \/ pc[p] = "create_bridge"
    <3>1. CASE CreateBridge(p)
      BY <1>1, <3>1 DEF CreateBridge
    <3>2. CASE AddAddr(p)
      BY <1>1, <3>2 DEF AddAddr
    <3>3. CASE SetUp(p)
      BY <1>1, <3>3 DEF SetUp
    <3> QED
      BY <1>5, <3>1, <3>2, <3>3, Zenon, ZenonT(60)
  <2> QED
    BY <1>2, <2>1, <2>2, <2>3, Zenon, ZenonT(60) DEF Frame
<1>6. CASE CreateVeth(p) \/ Configure(p)
  <2>1. UNCHANGED <<bridge, fwnet, fwport, idx>>
    BY <1>6 DEF CreateVeth, Configure
  <2>2. \A q \in Procs \ {p} : pc'[q] = pc[q]
    BY <1>3, <1>6 DEF CreateVeth, Configure
  <2>3. \A c \in Containers, n \in Networks :
          /\ veth[c][n].there => veth'[c][n].there
          /\ veth'[c][n].there => veth[c][n].there \/ (pc[p] = "create_veth" /\ Ctr(p) = c /\ Net(p) = n)
    <3>1. CASE veth' = [veth EXCEPT ![Ctr(p)][Net(p)] = [there |-> TRUE, master |-> idx[p], ready |-> FALSE]]
                 /\ pc[p] = "create_veth"
      BY <1>1, <3>1
    <3>2. CASE veth' = [veth EXCEPT ![Ctr(p)][Net(p)].ready = TRUE]
      BY <1>1, <3>2
    <3>3. CASE veth' = veth
      BY <3>3
    <3> QED
      BY <1>6, <3>1, <3>2, <3>3 DEF CreateVeth, Configure
  <2> QED
    BY <1>2, <2>1, <2>2, <2>3, Zenon, ZenonT(60) DEF Frame
<1>7. CASE FwNetwork(p) \/ FwPort(p)
  <2>1. UNCHANGED <<bridge, veth, idx>>
    BY <1>7, Zenon, ZenonT(60) DEF FwNetwork, FwPort
  <2>2. \A q \in Procs \ {p} : pc'[q] = pc[q]
    BY <1>3, <1>7, ZenonT(60), ZenonT(90) DEF FwNetwork, FwPort
  <2>3. /\ \A n \in Networks \ {Net(p)} : n \in fwnet' => n \in fwnet
        /\ \A c \in Containers, n \in Networks : <<c, n>> \in fwport' =>
             <<c, n>> \in fwport \/ (pc[p] = "fw_port" /\ Ctr(p) = c /\ Net(p) = n)
    BY <1>7, Zenon, ZenonT(60) DEF FwNetwork, FwPort
  <2> QED
    BY <1>2, <2>1, <2>2, <2>3, ZenonT(60), ZenonT(90) DEF Frame
<1> QED
  BY <1>4, <1>5, <1>6, <1>7 DEF SetupStep

\* So do the steps of Bridge::teardown.
LEMMA TeardownFrame ==
    ASSUME BridgeInv, NEW p \in Procs, TeardownStep(p) \/ Begin(p) \/ Fault(p)
    PROVE  Frame(p)
<1>1. /\ pc \in [Procs -> Labels] /\ idx \in [Procs -> Nat] /\ complete \in [Procs -> BOOLEAN]
      /\ Net(p) \in Networks /\ Ctr(p) \in Containers
      /\ bridge \in [Networks -> [index : Nat, addr : BOOLEAN, up : BOOLEAN]]
      /\ veth \in [Containers -> [Networks -> [there : BOOLEAN, master : Nat, ready : BOOLEAN]]]
  BY CmdFacts, Zenon, ZenonT(60) DEF BridgeInv, Shapes
<1>2. \A l : Goto(p, l) => \A q \in Procs \ {p} : pc'[q] = pc[q]
  BY <1>1 DEF Goto
<1>3. CASE Begin(p) \/ Fault(p) \/ Find(p) \/ Dump(p)
  <2>1. /\ UNCHANGED <<bridge, veth, fwnet, fwport, complete>> /\ \A q \in Procs \ {p} : idx'[q] = idx[q]
        /\ faults' \in {faults, faults + 1} /\ mixed \subseteq mixed'
    BY <1>1, <1>3, Zenon, ZenonT(60) DEF Begin, Fault, Find, Dump
  <2>2. \E l : Goto(p, l)
    BY <1>3, Zenon, ZenonT(60) DEF Begin, Fault, Find, Dump, LinkError
  <2> QED
    BY <2>1, <2>2, LookFrame, Zenon, ZenonT(60)
<1>4. CASE DelVeth(p)
  <2>1. UNCHANGED <<bridge, fwnet, fwport, idx, complete, faults, mixed>>
    BY <1>4 DEF DelVeth
  <2>2. \A q \in Procs \ {p} : pc'[q] = pc[q]
    BY <1>2, <1>4 DEF DelVeth, LinkError
  <2>3. veth' = veth \/ veth' = [veth EXCEPT ![Ctr(p)][Net(p)] = NoVeth]
    BY <1>4 DEF DelVeth
  <2>4. \A c \in Containers, n \in Networks :
          /\ veth'[c][n].there => veth[c][n].there
          /\ n # Net(p) /\ veth[c][n].there => veth'[c][n].there
    <3>1. CASE veth' = veth
      BY <3>1
    <3>2. CASE veth' = [veth EXCEPT ![Ctr(p)][Net(p)] = NoVeth]
      <4>1. \A c \in Containers, n \in Networks :
              veth'[c][n] = IF c = Ctr(p) /\ n = Net(p) THEN NoVeth ELSE veth[c][n]
        BY <1>1, <3>2
      <4> QED
        BY <4>1 DEF NoVeth
    <3> QED
      BY <2>3, <3>1, <3>2
  <2> QED
    BY <2>1, <2>2, <2>4, Zenon, ZenonT(60) DEF Frame
<1>5. CASE DelBridge(p)
  <2>1. UNCHANGED <<fwnet, fwport, idx, faults, mixed>>
    BY <1>5 DEF DelBridge
  <2>2. \A q \in Procs \ {p} : pc'[q] = pc[q] /\ complete'[q] = complete[q]
    BY <1>1, <1>2, <1>5 DEF DelBridge, LinkError
  <2>3. \A c \in Containers, n \in Networks : veth'[c][n].there <=> veth[c][n].there
    <3>1. CASE veth' = veth
      BY <3>1
    <3>2. CASE veth' = [c \in Containers |-> [n \in Networks |->
                          IF veth[c][n].master = idx[p] THEN [veth[c][n] EXCEPT !.master = 0] ELSE veth[c][n]]]
      <4> TAKE c \in Containers, n \in Networks
      <4>1. veth[c][n] \in [there : BOOLEAN, master : Nat, ready : BOOLEAN]
        BY <1>1
      <4>2. veth'[c][n] = IF veth[c][n].master = idx[p] THEN [veth[c][n] EXCEPT !.master = 0] ELSE veth[c][n]
        BY <3>2
      <4> QED
        BY <4>1, <4>2
    <3> QED
      BY <1>5, <3>1, <3>2 DEF DelBridge
  <2>4. bridge' = bridge \/ bridge' = [bridge EXCEPT ![Net(p)] = NoBridge]
    BY <1>5 DEF DelBridge
  <2>5. /\ \A n \in Networks \ {Net(p)} : bridge'[n] = bridge[n]
        /\ bridge'[Net(p)].index \in {0, bridge[Net(p)].index}
    BY <1>1, <2>4 DEF NoBridge
  <2> QED
    BY <2>1, <2>2, <2>3, <2>5, Zenon, ZenonT(60) DEF Frame
<1>6. CASE FwNetworkTd(p) \/ FwPortTd(p)
  <2>1. UNCHANGED <<bridge, veth, idx, complete, faults, mixed>> /\ fwnet' \subseteq fwnet /\ fwport' \subseteq fwport
    BY <1>6, Zenon, ZenonT(60) DEF FwNetworkTd, FwPortTd
  <2>2. \A q \in Procs \ {p} : pc'[q] = pc[q]
    BY Zenon, ZenonT(60), <1>2, <1>6 DEF FwNetworkTd, FwPortTd, Finish
  <2> QED
    BY <2>1, <2>2, Zenon, ZenonT(60) DEF Frame
<1> QED
  BY <1>3, <1>4, <1>5, <1>6 DEF TeardownStep

\* What the step of p may not break of the others.
LEMMA FrameLeft ==
    ASSUME BridgeInv, LeftInv, NEW p \in Procs, Frame(p), TornDown(p)', Sees(p)', Used(Net(p))'
    PROVE  LeftInv'
<1>1. Net(p) \in Networks /\ Ctr(p) \in Containers
  BY CmdFacts
<1>2. Owned'
  <2>1. pc[p] \in {"create_veth", "fw_port"} => Cmd[p].kind = "setup"
    BY ZenonT(60), ZenonT(90) DEF BridgeInv, Placed, SetupPcs
  <2> SUFFICES ASSUME NEW c \in Containers, NEW n \in Networks, veth'[c][n].there \/ <<c, n>> \in fwport'
               PROVE  \E q \in Procs : Cmd[q].kind = "setup" /\ Ctr(q) = c /\ Net(q) = n
    BY Zenon, ZenonT(60) DEF Owned, Ctr, Net
  <2>2. \/ veth[c][n].there \/ <<c, n>> \in fwport
        \/ pc[p] \in {"create_veth", "fw_port"} /\ Ctr(p) = c /\ Net(p) = n
    BY Zenon, ZenonT(60) DEF Frame
  <2> QED
    BY <2>1, <2>2, ZenonT(60), ZenonT(90) DEF LeftInv, Owned
<1>3. ASSUME NEW q \in Procs, q # p PROVE TornDown(q)'
  <2>1. TornDown(q) /\ Ctr(q) \in Containers /\ Net(q) \in Networks /\ pc'[q] = pc[q] /\ (faults' = 0 => faults = 0)
    BY <1>3, CmdFacts, Zenon, ZenonT(60) DEF LeftInv, Frame
  <2>2. pc[p] \in {"create_veth", "fw_port"} => Running(p) /\ Cmd[p].kind = "setup"
    BY ZenonT(60), ZenonT(90) DEF BridgeInv, Placed, SetupPcs, Running, Ended
  <2>3. pc[p] \in {"create_veth", "fw_port"} /\ Cmd[q].kind = "teardown" /\ pc[q] # "idle" => Ctr(p) # Ctr(q)
    BY <2>2, Zenon, ZenonT(60) DEF BridgeInv, Ordered, Running
  <2>4. /\ veth'[Ctr(q)][Net(q)].there =>
             veth[Ctr(q)][Net(q)].there \/ (pc[p] = "create_veth" /\ Ctr(p) = Ctr(q))
        /\ <<Ctr(q), Net(q)>> \in fwport' =>
             <<Ctr(q), Net(q)>> \in fwport \/ (pc[p] = "fw_port" /\ Ctr(p) = Ctr(q))
    BY <2>1, Zenon, ZenonT(60) DEF Frame
  <2> QED
    BY Zenon, ZenonT(60), <2>1, <2>3, <2>4 DEF TornDown, Ctr, Net, Ended
<1>4. ASSUME NEW q \in Procs, q # p PROVE Sees(q)'
  <2>1. Sees(q) /\ Net(q) \in Networks /\ pc'[q] = pc[q] /\ idx'[q] = idx[q] /\ mixed \subseteq mixed'
    BY ZenonT(60), ZenonT(90), <1>4, CmdFacts DEF LeftInv, Frame
  <2>2. bridge'[Net(q)].index \in {0, bridge[Net(q)].index} \/ (pc[p] = "create_bridge" /\ Net(p) = Net(q))
    BY <2>1, Zenon, ZenonT(60) DEF Frame
  <2>3. pc[p] = "create_bridge" => Running(p) /\ Cmd[p].kind = "setup"
    BY Zenon, ZenonT(60) DEF BridgeInv, Placed, SetupPcs, Running, Ended
  <2>4. pc[q] \in {"dump", "del_bridge"} => Running(q) /\ Cmd[q].kind = "teardown"
    BY ZenonT(60), ZenonT(90) DEF BridgeInv, Placed, TeardownPcs, LinkPcs, Running, Ended
  <2>5. pc[p] = "create_bridge" /\ Net(p) = Net(q) /\ pc[q] \in {"dump", "del_bridge"} => Net(q) \in mixed
    BY <2>3, <2>4, ZenonT(60), ZenonT(90) DEF BridgeInv, Ordered
  <2> QED
    BY Zenon, ZenonT(60), <2>1, <2>2, <2>5 DEF Sees, Net
<1>5. ASSUME NEW n \in Networks, n # Net(p) PROVE Used(n)'
  <2>1. Used(n) /\ mixed \subseteq mixed' /\ (faults' = 0 => faults = 0)
    BY Zenon, ZenonT(60) DEF LeftInv, Frame
  <2>2. bridge'[n].index = bridge[n].index /\ (n \in fwnet' => n \in fwnet)
    BY <1>5, Zenon, ZenonT(60) DEF Frame
  <2>3. Occupied(n) => Occupied(n)'
    BY <1>5, ZenonT(60), ZenonT(90) DEF Occupied, Frame, Net
  <2>4. Ruled(n) => Ruled(n)'
    BY <1>5, <2>2, Zenon, ZenonT(60) DEF Ruled, Frame, Net
  <2> QED
    BY <2>1, <2>2, <2>3, <2>4, Zenon, ZenonT(60) DEF Used
<1> QED
  BY <1>2, <1>3, <1>4, <1>5 DEF LeftInv

\* The teardown itself: past del_veth its interface is gone, once it has ended its
\* port forwarding is.
LEMMA TornDownStays ==
    ASSUME BridgeInv, BridgeInv', LeftInv, NEW p \in Procs, Begin(p) \/ SetupStep(p) \/ TeardownStep(p) \/ Fault(p)
    PROVE  TornDown(p)'
<1>1. /\ pc \in [Procs -> Labels] /\ TornDown(p) /\ Placed(p) /\ Frame(p)
      /\ Net(p) \in Networks /\ Ctr(p) \in Containers
      /\ veth \in [Containers -> [Networks -> [there : BOOLEAN, master : Nat, ready : BOOLEAN]]]
  BY Zenon, ZenonT(60), CmdFacts, SetupFrame, TeardownFrame DEF BridgeInv, Shapes, LeftInv
<1> SUFFICES ASSUME faults' = 0, Cmd[p].kind = "teardown"
             PROVE  /\ pc'[p] \notin {"idle", "del_veth"} => ~veth'[Ctr(p)][Net(p)].there
                    /\ pc'[p] \in Ended => <<Ctr(p), Net(p)>> \notin fwport'
  BY Zenon, ZenonT(60) DEF TornDown, Ctr, Net
<1>2. faults = 0 /\ faults' # faults + 1
  <2>1. faults = 0
    BY Zenon, ZenonT(60), <1>1 DEF Frame
  <2> QED
    BY <2>1
<1>3. Begin(p) \/ TeardownStep(p)
  <2>1. ~Fault(p)
    BY ZenonT(60), ZenonT(90), <1>2 DEF Fault
  <2>2. ~SetupStep(p)
    BY <1>1, Zenon, ZenonT(60) DEF Placed, SetupPcs, SetupStep, GetBridge, CreateBridge, FindBridge, AddAddr, SetUp, CreateVeth,
                Configure, FwNetwork, FwPort
  <2> QED
    BY <2>1, <2>2
<1>4. \A l : Goto(p, l) => pc'[p] = l
  BY Zenon, ZenonT(60), <1>1 DEF Goto
<1>5. pc[p] \notin {"idle", "del_veth"} => ~veth'[Ctr(p)][Net(p)].there
  <2>1. pc[p] # "create_veth"
    BY <1>1, Zenon, ZenonT(60) DEF Placed, SetupPcs
  <2> QED
    BY <1>1, <1>2, <2>1, Zenon, ZenonT(60) DEF TornDown, Frame
<1>6. CASE Begin(p)
  BY ZenonT(60), ZenonT(90), <1>4, <1>6 DEF Begin, Ended
<1>7. CASE DelVeth(p)
  <2>1. pc'[p] \notin Ended
    BY <1>4, <1>7 DEF DelVeth, LinkError, Ended
  <2>2. ~veth'[Ctr(p)][Net(p)].there
    <3>1. CASE veth[Ctr(p)][Net(p)].there
      <4>1. veth' = [veth EXCEPT ![Ctr(p)][Net(p)] = NoVeth]
        BY <1>7, <3>1 DEF DelVeth
      <4>2. veth'[Ctr(p)][Net(p)] = NoVeth
        BY <1>1, <4>1, ZenonT(60), ZenonT(90)
      <4> QED
        BY <4>2 DEF NoVeth
    <3>2. CASE ~veth[Ctr(p)][Net(p)].there
      <4>1. veth' = veth
        BY <1>7, <3>2 DEF DelVeth
      <4> QED
        BY <3>2, <4>1, Zenon, ZenonT(60)
    <3> QED
      BY <3>1, <3>2, ZenonT(60), ZenonT(90)
  <2> QED
    BY <2>1, <2>2, Zenon, ZenonT(60)
<1>8. CASE Find(p) \/ Dump(p) \/ DelBridge(p)
  <2>1. pc[p] \notin {"idle", "del_veth"} /\ pc'[p] \notin Ended
    BY <1>4, <1>8 DEF Find, Dump, DelBridge, LinkError, Ended
  <2> QED
    BY <1>5, <2>1, Zenon, ZenonT(60)
<1>9. CASE FwNetworkTd(p)
  <2>1. pc[p] \notin {"idle", "del_veth"} /\ (pc'[p] \in Ended => Net(p) \in Internal)
    BY <1>4, <1>9, ZenonT(60), ZenonT(90) DEF FwNetworkTd, Ended
  <2>2. fwport' \subseteq Containers \X (Networks \ Internal)
    BY ZenonT(60), ZenonT(90) DEF BridgeInv, Counts
  <2> QED
    BY <1>5, <2>1, <2>2, ZenonT(60), ZenonT(90)
<1>10. CASE FwPortTd(p)
  BY <1>5, <1>10, Zenon, ZenonT(60) DEF FwPortTd
<1> QED
  BY Zenon, ZenonT(60), <1>3, <1>6, <1>7, <1>8, <1>9, <1>10 DEF TeardownStep

\* remove_link: the index it has looked up.
LEMMA SeesStays ==
    ASSUME BridgeInv, LeftInv, NEW p \in Procs, Begin(p) \/ SetupStep(p) \/ TeardownStep(p) \/ Fault(p)
    PROVE  Sees(p)'
<1>1. /\ pc \in [Procs -> Labels] /\ idx \in [Procs -> Nat] /\ Sees(p) /\ Frame(p) /\ Net(p) \in Networks
  BY Zenon, ZenonT(60), CmdFacts, SetupFrame, TeardownFrame DEF BridgeInv, Shapes, LeftInv
<1>2. \A l : Goto(p, l) => pc'[p] = l
  BY <1>1 DEF Goto
<1>3. CASE Find(p)
  BY Zenon, ZenonT(60), <1>1, <1>3 DEF Find, Sees, Net
<1>4. CASE Dump(p)
  BY <1>1, <1>4, ZenonT(60), ZenonT(90) DEF Dump, Sees, Net
<1>5. CASE ~Find(p) /\ ~Dump(p)
  <2>1. pc'[p] \notin {"dump", "del_bridge"}
    BY <1>2, <1>5, ZenonT(60), ZenonT(90) DEF Begin, SetupStep, GetBridge, CreateBridge, FindBridge, AddAddr, SetUp, CreateVeth, Configure,
       FwNetwork, FwPort, TeardownStep, DelVeth, DelBridge, FwNetworkTd, FwPortTd, Finish, Fault, LinkError
  <2> QED
    BY <2>1 DEF Sees
<1> QED
  BY <1>3, <1>4, <1>5

\* A step of p that is of no account for its network.
LEMMA UsedByOthers ==
    ASSUME BridgeInv, LeftInv, NEW p \in Procs, Frame(p), UNCHANGED <<bridge, veth>>,
           pc[p] \in {"idle", "del_veth", "fw_network_td", "fw_port_td"}, pc[p] # "idle" => Cmd[p].kind = "teardown",
           Net(p) \in fwnet' => Net(p) \in fwnet /\ ~(pc[p] = "fw_network_td" /\ complete[p])
    PROVE  Used(Net(p))'
<1>1. Net(p) \in Networks /\ Net(p)' = Net(p) /\ Used(Net(p))
  BY CmdFacts, ZenonT(60), ZenonT(90) DEF LeftInv, Net
<1>2. Occupied(Net(p)) => Occupied(Net(p))'
  <2>1. pc[p] \notin SetupPcs \cup {"find", "dump", "del_bridge"} /\ ~(Cmd[p].kind = "setup" /\ pc[p] = "failed")
    BY DEF SetupPcs
  <2> SUFFICES ASSUME Occupied(Net(p)) PROVE Occupied(Net(p))'
    OBVIOUS
  <2>2. CASE \E c \in Containers : veth[c][Net(p)].there
    <3>1. veth' = veth
      OBVIOUS
    <3> QED
      BY <1>1, <2>2, <3>1, ZenonT(60), ZenonT(90) DEF Occupied
  <2>3. CASE ~\E c \in Containers : veth[c][Net(p)].there
    <3>1. PICK q \in Procs : /\ Net(q) = Net(p)
                             /\ \/ pc[q] \in SetupPcs \cup {"find", "dump", "del_bridge"}
                                \/ Cmd[q].kind = "setup" /\ pc[q] = "failed"
      BY <2>3, ZenonT(60), ZenonT(90) DEF Occupied
    <3>2. q # p
      BY <2>1, <3>1
    <3>f. \A r \in Procs \ {p} : pc'[r] = pc[r]
      BY ZenonT(60), ZenonT(90) DEF Frame
    <3>3. pc'[q] = pc[q]
      BY <3>2, <3>f, ZenonT(60), ZenonT(90)
    <3> QED
      BY <3>1, <3>3, ZenonT(60), ZenonT(90) DEF Occupied, Net
  <2> QED
    BY <2>2, <2>3, Zenon, ZenonT(60)
<1>3. Net(p) \in fwnet' /\ Ruled(Net(p)) => Ruled(Net(p))'
  BY <1>1, ZenonT(60), ZenonT(90) DEF Ruled, Frame, Net
<1>4. mixed \subseteq mixed' /\ (faults' = 0 => faults = 0)
  BY ZenonT(60), ZenonT(90) DEF Frame
<1> QED
  BY <1>1, <1>2, <1>3, <1>4, ZenonT(60), ZenonT(90) DEF Used

\* A setup is at work on the bridge, has failed, or has left its interface there.
LEMMA SetupUses ==
    ASSUME BridgeInv, BridgeInv', LeftInv, NEW p \in Procs, SetupStep(p)
    PROVE  Used(Net(p))'
<1>1. /\ pc \in [Procs -> Labels] /\ Frame(p) /\ Net(p) \in Networks /\ Ctr(p) \in Containers
      /\ Net(p)' = Net(p) /\ Ctr(p)' = Ctr(p)
  BY Zenon, ZenonT(60), CmdFacts, SetupFrame DEF BridgeInv, Shapes, Net, Ctr
<1>2. pc[p] \in SetupPcs /\ Running(p) /\ Cmd[p].kind = "setup" /\ pc'[p] \in SetupPcs \cup Ended
  <2>1. pc[p] \in SetupPcs
    BY DEF SetupStep, GetBridge, CreateBridge, FindBridge, AddAddr, SetUp, CreateVeth, Configure, FwNetwork, FwPort,
           SetupPcs
  <2>2. PICK l \in SetupPcs \cup Ended : Goto(p, l)
    BY DEF SetupStep, GetBridge, CreateBridge, FindBridge, AddAddr, SetUp, CreateVeth, Configure, FwNetwork, FwPort,
           SetupPcs, Ended
  <2>3. pc'[p] = l
    BY <1>1, <2>2 DEF Goto
  <2>4. Running(p)
    BY <2>1 DEF Running, SetupPcs, Ended
  <2>5. Cmd[p].kind = "setup"
    BY Zenon, ZenonT(60), <2>1 DEF BridgeInv, Placed
  <2> QED
    BY <2>1, <2>2, <2>3, <2>4, <2>5
<1>3. Unclaimed(p) /\ Unclaimed(p)'
  <2>1. Unclaimed(p)
    BY <1>2, Zenon, ZenonT(60) DEF BridgeInv, Ordered, Running, Unclaimed
  <2>2. \A q \in Procs : Cmd[q].kind = "teardown" => q # p
    BY <1>2
  <2>3. \A q \in Procs \ {p} : pc'[q] = pc[q]
    BY ZenonT(60), ZenonT(90), <1>1 DEF Frame
  <2>4. Unclaimed(p)'
    BY <2>1, <2>2, <2>3 DEF Unclaimed, Ctr, Net
  <2> QED
    BY <2>1, <2>4
<1>4. Occupied(Net(p))'
  <2>1. CASE pc'[p] = "done"
    <3>1. Attached(p)'
      BY DEF BridgeInv
    <3>2. veth'[Ctr(p)][Net(p)].there
      BY <1>1, <1>2, <1>3, <2>1, <3>1, ZenonT(60), ZenonT(90) DEF Attached
    <3> QED
      BY <1>1, <3>2, Zenon, ZenonT(60) DEF Occupied
  <2>2. CASE pc'[p] # "done"
    BY <1>1, <1>2, <2>2 DEF Occupied, Ended, Net
  <2> QED
    BY <2>1, <2>2
<1>5. ASSUME Net(p) \notin mixed', faults' = 0, Net(p) \in fwnet' PROVE Ruled(Net(p))'
  <2>1. Net(p) \notin mixed /\ faults = 0
    BY Zenon, ZenonT(60), <1>1, <1>5 DEF Frame
  <2>2. CASE FwNetwork(p)
    <3>1. pc[p] = "fw_network" /\ UNCHANGED bridge
      BY <2>2, ZenonT(60), ZenonT(90) DEF FwNetwork
    <3>2. veth[Ctr(p)][Net(p)].there
      <4>1. Attached(p)
        BY DEF BridgeInv
      <4> QED
        BY <1>2, <1>3, <3>1, <4>1, Zenon, ZenonT(60) DEF Attached
    <3>3. veth[Ctr(p)][Net(p)].master # 0
      BY <1>1, <2>1, <3>2, Zenon, ZenonT(60) DEF BridgeInv, RemovedOnlyWhenEmpty, Apart
    <3>4. veth[Ctr(p)][Net(p)].master \in {0, bridge[Net(p)].index}
      BY ZenonT(60), ZenonT(90), <1>1 DEF BridgeInv, Masters
    <3> QED
      BY <1>1, <3>1, <3>3, <3>4, ZenonT(60), ZenonT(90) DEF Ruled
  <2>3. CASE ~FwNetwork(p)
    <3>1. Net(p) \in fwnet
      BY <1>5, <2>3 DEF SetupStep, GetBridge, CreateBridge, FindBridge, AddAddr, SetUp, CreateVeth, Configure, FwPort
    <3>2. Ruled(Net(p))
      BY <1>1, <2>1, <3>1, Zenon, ZenonT(60) DEF LeftInv, Used
    <3>3. bridge[Net(p)].index # 0 => bridge'[Net(p)].index # 0
      <4>1. bridge \in [Networks -> [index : Nat, addr : BOOLEAN, up : BOOLEAN]]
        BY DEF BridgeInv, Shapes
      <4>2. CASE bridge' = bridge
        BY <4>2
      <4>3. CASE AddAddr(p)
        BY <1>1, <4>1, <4>3 DEF AddAddr
      <4>4. CASE SetUp(p)
        BY <1>1, <4>1, <4>4 DEF SetUp
      <4>5. CASE CreateBridge(p)
        BY <4>5 DEF CreateBridge
      <4> QED
        BY <2>3, <4>2, <4>3, <4>4, <4>5 DEF SetupStep, GetBridge, FindBridge, CreateVeth, Configure, FwPort
    <3>4. pc[p] # "fw_network_td"
      BY <1>2 DEF SetupPcs
    <3>5. CASE bridge[Net(p)].index # 0
      BY <1>1, <3>3, <3>5, Zenon, ZenonT(60) DEF Ruled
    <3>6. ASSUME NEW q \in Procs, Net(q) = Net(p), pc[q] = "fw_network_td", complete[q] PROVE Ruled(Net(p))'
      <4>1. q # p
        BY <3>4, <3>6, Zenon, ZenonT(60)
      <4>2. pc'[q] = pc[q] /\ complete'[q] = complete[q]
        BY <1>1, <4>1, Zenon, ZenonT(60) DEF Frame
      <4>3. pc'[q] = "fw_network_td" /\ complete'[q] /\ Net(q)' = Net(p)'
        BY <3>6, <4>2, ZenonT(60), ZenonT(90) DEF Net
      <4> QED
        BY <4>3, ZenonT(60), ZenonT(90) DEF Ruled
    <3> QED
      BY <3>2, <3>5, <3>6 DEF Ruled
  <2> QED
    BY <2>2, <2>3
<1> QED
  BY <1>1, <1>4, <1>5, Zenon, ZenonT(60) DEF Used

\* remove_link: the teardown that leaves the bridge has seen a port on it.
LEMMA RemoveLinkUses ==
    ASSUME BridgeInv, LeftInv, NEW p \in Procs, DelVeth(p) \/ Find(p) \/ Dump(p) \/ DelBridge(p)
    PROVE  Used(Net(p))'
<1>1. /\ pc \in [Procs -> Labels] /\ complete \in [Procs -> BOOLEAN] /\ Frame(p) /\ Net(p) \in Networks
      /\ Net(p)' = Net(p) /\ Used(Net(p)) /\ Sees(p)
      /\ bridge \in [Networks -> [index : Nat, addr : BOOLEAN, up : BOOLEAN]]
  BY Zenon, ZenonT(60), CmdFacts, TeardownFrame DEF BridgeInv, Shapes, Net, LeftInv, TeardownStep
<1>2. pc[p] \in LinkPcs /\ Cmd[p].kind = "teardown"
  <2>1. pc[p] \in LinkPcs
    BY DEF DelVeth, Find, Dump, DelBridge, LinkPcs
  <2>2. Placed(p)
    BY DEF BridgeInv
  <2> QED
    BY Zenon, ZenonT(60), <2>1, <2>2 DEF Placed, TeardownPcs
<1>3. \A l : Goto(p, l) => pc'[p] = l
  BY <1>1 DEF Goto
<1>4. ASSUME Ruled(Net(p)), bridge'[Net(p)].index = bridge[Net(p)].index PROVE Ruled(Net(p))'
  <2>1. pc[p] # "fw_network_td"
    BY DEF DelVeth, Find, Dump, DelBridge
  <2> QED
    BY <1>1, <1>4, <2>1, ZenonT(60), ZenonT(90) DEF Ruled, Frame, Net
<1>5. ASSUME pc'[p] \in {"find", "dump", "del_bridge"} PROVE Occupied(Net(p))'
  BY Zenon, ZenonT(60), <1>1, <1>5 DEF Occupied, Net
<1> SUFFICES ASSUME Net(p) \notin mixed', faults' = 0
             PROVE  /\ bridge'[Net(p)].index # 0 => Occupied(Net(p))'
                    /\ Net(p) \in fwnet' => Ruled(Net(p))'
  BY <1>1, Zenon, ZenonT(60) DEF Used
<1>6. Net(p) \notin mixed /\ faults = 0
  BY Zenon, ZenonT(60), <1>1 DEF Frame
<1>7. Net(p) \in fwnet' => Ruled(Net(p))
  <2>1. UNCHANGED fwnet
    BY DEF DelVeth, Find, Dump, DelBridge
  <2> QED
    BY Zenon, ZenonT(60), <1>1, <1>6, <2>1 DEF Used
<1>8. CASE DelVeth(p)
  <2>1. bridge' = bridge
    BY <1>8 DEF DelVeth
  <2>2. CASE Goto(p, "find")
    BY <1>3, <1>4, <1>5, <1>7, <2>1, <2>2, Zenon, ZenonT(60)
  <2>3. CASE ~Goto(p, "find")
    <3>1. UNCHANGED <<bridge, veth, fwnet>> /\ pc[p] = "del_veth"
      BY <1>8, <2>3, Zenon, ZenonT(60) DEF DelVeth
    <3>2. Used(Net(p))'
      BY ZenonT(60), ZenonT(90), <1>1, <1>2, <3>1, UsedByOthers
    <3> QED
      BY <1>1, <3>2, ZenonT(60), ZenonT(90) DEF Used
  <2> QED
    BY <2>2, <2>3, Zenon, ZenonT(60)
<1>9. CASE Find(p)
  <2>1. bridge' = bridge
    BY <1>9, ZenonT(60), ZenonT(90) DEF Find
  <2>2. CASE bridge[Net(p)].index # 0
    <3>1. Goto(p, "dump")
      BY <1>9, <2>2, Zenon, ZenonT(60) DEF Find
    <3> QED
      BY <1>3, <1>4, <1>5, <1>7, <2>1, <3>1, Zenon, ZenonT(60)
  <2>3. CASE bridge[Net(p)].index = 0
    BY <1>4, <1>7, <2>1, <2>3, Zenon, ZenonT(60)
  <2> QED
    BY <2>2, <2>3, Zenon, ZenonT(60)
<1>10. CASE Dump(p)
  <2>1. bridge' = bridge /\ veth' = veth /\ pc[p] = "dump"
    BY Zenon, ZenonT(60), <1>10 DEF Dump
  <2>2. CASE Ports(idx[p]) = {}
    <3>1. Goto(p, "del_bridge")
      BY <1>10, <2>2, ZenonT(60), ZenonT(90) DEF Dump
    <3> QED
      BY <1>3, <1>4, <1>5, <1>7, <2>1, <3>1, ZenonT(60), ZenonT(90)
  <2>3. CASE Ports(idx[p]) # {} /\ bridge[Net(p)].index # 0
    <3>1. PICK c \in Containers, n \in Networks : veth[c][n].there /\ veth[c][n].master = idx[p]
      BY <2>3 DEF Ports
    <3>2. idx[p] # 0 /\ bridge[Net(p)].index = idx[p]
      BY ZenonT(60), ZenonT(90), <1>1, <1>6, <2>1, <2>3 DEF BridgeInv, Emptied, Sees
    <3>3. veth[c][n].master \in {0, bridge[n].index}
      BY ZenonT(60), ZenonT(90) DEF BridgeInv, Masters
    <3>4. bridge[n].index = bridge[Net(p)].index /\ bridge[n].index # 0
      BY <3>1, <3>2, <3>3, ZenonT(60), ZenonT(90)
    <3>5. n = Net(p)
      BY <1>1, <3>4 DEF BridgeInv, Indices
    <3>6. Occupied(Net(p))'
      BY <1>1, <2>1, <3>1, <3>5, ZenonT(60), ZenonT(90) DEF Occupied
    <3> QED
      BY <1>4, <1>7, <2>1, <3>6, ZenonT(60), ZenonT(90)
  <2>4. CASE bridge[Net(p)].index = 0
    BY <1>4, <1>7, <2>1, <2>4, ZenonT(60), ZenonT(90)
  <2> QED
    BY <2>2, <2>3, <2>4, Zenon, ZenonT(60)
<1>11. CASE DelBridge(p)
  <2>1. pc[p] = "del_bridge" /\ idx[p] # 0
    BY <1>11 DEF DelBridge, BridgeInv, Emptied
  <2>2. CASE Mine(p)
    <3>1. bridge' = [bridge EXCEPT ![Net(p)] = NoBridge] /\ complete' = [complete EXCEPT ![p] = TRUE]
          /\ Goto(p, "fw_network_td")
      BY <1>11, <2>2 DEF DelBridge
    <3>2. bridge'[Net(p)].index = 0 /\ complete'[p] /\ pc'[p] = "fw_network_td"
      BY <1>1, <1>3, <3>1, Zenon, ZenonT(60) DEF NoBridge
    <3> QED
      BY <1>1, <3>2, Zenon, ZenonT(60) DEF Ruled, Net
  <2>3. CASE ~Mine(p)
    <3>1. bridge' = bridge
      BY <1>11, <2>3 DEF DelBridge
    <3>2. bridge[Net(p)].index = 0
      BY <1>1, <1>6, <2>1, <2>3, ZenonT(60), ZenonT(90) DEF Sees, Mine
    <3> QED
      BY <1>4, <1>7, <3>1, <3>2, Zenon, ZenonT(60)
  <2> QED
    BY <2>2, <2>3, Zenon, ZenonT(60)
<1> QED
  BY <1>8, <1>9, <1>10, <1>11, Zenon, ZenonT(60)

\* A bridge in use stays in use, or its user is the one that goes.
LEMMA UsedStays ==
    ASSUME BridgeInv, BridgeInv', LeftInv, NEW p \in Procs, Begin(p) \/ SetupStep(p) \/ TeardownStep(p) \/ Fault(p)
    PROVE  Used(Net(p))'
<1>1. Frame(p) /\ Placed(p)
  BY SetupFrame, TeardownFrame, ZenonT(60), ZenonT(90) DEF BridgeInv
<1>2. CASE Begin(p)
  <2>1. UNCHANGED <<bridge, veth, fwnet>> /\ pc[p] = "idle"
    BY Zenon, ZenonT(60), <1>2 DEF Begin
  <2> QED
    BY <1>1, <2>1, UsedByOthers, Zenon, ZenonT(60)
<1>3. CASE FwNetworkTd(p) \/ FwPortTd(p)
  <2>1. /\ UNCHANGED <<bridge, veth>> /\ pc[p] \in {"fw_network_td", "fw_port_td"}
        /\ pc[p] = "fw_network_td" => fwnet' = IF Net(p) \notin Internal /\ complete[p] THEN fwnet \ {Net(p)} ELSE fwnet
        /\ pc[p] # "fw_network_td" => fwnet' = fwnet
    BY <1>3, ZenonT(60), ZenonT(90) DEF FwNetworkTd, FwPortTd
  <2>2. Cmd[p].kind = "teardown"
    BY <1>1, <2>1, ZenonT(60), ZenonT(90) DEF Placed, TeardownPcs
  <2>3. fwnet \subseteq Networks \ Internal
    BY DEF BridgeInv, Counts
  <2>4. Net(p) \in fwnet' => Net(p) \in fwnet /\ ~(pc[p] = "fw_network_td" /\ complete[p])
    BY <2>1, <2>3, ZenonT(60), ZenonT(90)
  <2> QED
    BY Zenon, ZenonT(60), <1>1, <2>1, <2>2, <2>4, UsedByOthers
<1>4. CASE Fault(p)
  <2>1. faults' = faults + 1 /\ faults \in Nat
    <3>1. faults' = faults + 1
      BY <1>4, ZenonT(60), ZenonT(90) DEF Fault
    <3>2. faults \in Nat
      BY BridgeAssumption DEF BridgeInv, Counts
    <3> QED
      BY <3>1, <3>2
  <2>2. faults' # 0
    BY <2>1
  <2> QED
    BY <2>2, Zenon, ZenonT(60) DEF Used
<1> QED
  BY <1>2, <1>3, <1>4, SetupUses, RemoveLinkUses DEF TeardownStep

\* Nothing has been made yet.
LEMMA LeftInit == Init => LeftInv
<1> SUFFICES ASSUME Init PROVE LeftInv
  OBVIOUS
<1>1. Owned
  BY Zenon, ZenonT(60) DEF Init, Owned, NoVeth
<1>2. \A p \in Procs : pc[p] = "idle"
  BY DEF Init
<1>3. \A p \in Procs : TornDown(p) /\ Sees(p)
  BY <1>2, ZenonT(60), ZenonT(90) DEF TornDown, Sees, Ended
<1>4. \A n \in Networks : bridge[n].index = 0 /\ n \notin fwnet
  BY DEF Init, NoBridge
<1>5. \A n \in Networks : Used(n)
  BY <1>4 DEF Used
<1> QED
  BY <1>1, <1>3, <1>5 DEF LeftInv

\* Every step keeps what a bridge that is left is left for.
LEMMA LeftNext ==
    ASSUME BridgeInv, LeftInv, [Next]_vars
    PROVE  LeftInv'
<1>1. BridgeInv'
  BY BridgeNext
<1>2. ASSUME NEW p \in Procs, Begin(p) \/ SetupStep(p) \/ TeardownStep(p) \/ Fault(p) PROVE LeftInv'
  <2>1. Frame(p)
    BY <1>2, SetupFrame, TeardownFrame
  <2>2. TornDown(p)' /\ Sees(p)' /\ Used(Net(p))'
    BY <1>1, <1>2, TornDownStays, SeesStays, UsedStays
  <2> QED
    BY <2>1, <2>2, FrameLeft
<1>3. CASE UNCHANGED vars
  <2>1. UNCHANGED <<bridge, veth, fwnet, fwport, pc, idx, complete, faults, mixed>>
    BY <1>3 DEF vars, procVars
  <2>2. Owned'
    <3>1. Owned
      BY DEF LeftInv
    <3> SUFFICES ASSUME NEW c \in Containers, NEW n \in Networks, veth'[c][n].there \/ <<c, n>> \in fwport'
                 PROVE  \E q \in Procs : Cmd[q].kind = "setup" /\ Ctr(q) = c /\ Net(q) = n
      BY Zenon, ZenonT(60) DEF Owned, Ctr, Net
    <3>2. veth[c][n].there \/ <<c, n>> \in fwport
      BY <2>1
    <3> QED
      BY <3>1, <3>2, Zenon, ZenonT(60) DEF Owned
  <2>3. ASSUME NEW q \in Procs PROVE TornDown(q)' /\ Sees(q)'
    <3>1. TornDown(q) /\ Sees(q)
      BY DEF LeftInv
    <3>2. TornDown(q)'
      BY <2>1, <3>1, ZenonT(60), ZenonT(90) DEF TornDown, Ctr, Net
    <3>3. Sees(q)'
      BY <2>1, <3>1, Zenon, ZenonT(60) DEF Sees, Net
    <3> QED
      BY <3>2, <3>3
  <2>4. ASSUME NEW n \in Networks PROVE Used(n)'
    <3>1. Used(n)
      BY DEF LeftInv
    <3>2. Occupied(n) => Occupied(n)'
      BY <2>1, Zenon, ZenonT(60) DEF Occupied, Net
    <3>3. Ruled(n) => Ruled(n)'
      BY <2>1, Zenon, ZenonT(60) DEF Ruled, Net
    <3> QED
      BY <2>1, <3>1, <3>2, <3>3, Zenon, ZenonT(60) DEF Used
  <2> QED
    BY <2>2, <2>3, <2>4 DEF LeftInv
<1> QED
  BY <1>2, <1>3 DEF Next

\* NothingLeft: with every container of a network torn down again, by teardowns
\* that may have run at once, its bridge and rules are gone, whichever of them
\* found the bridge without ports.
THEOREM BridgeIsRemoved ==
    ASSUME Paired
    PROVE  Spec => []NothingLeft
<1>1. Init => BridgeInv /\ LeftInv
  BY BridgeInit, LeftInit
<1>2. BridgeInv /\ LeftInv /\ [Next]_vars => (BridgeInv /\ LeftInv)'
  BY BridgeNext, LeftNext
<1>3. BridgeInv /\ LeftInv => NothingLeft
  <2> SUFFICES ASSUME BridgeInv, LeftInv, Quiet, faults = 0, NEW n \in Networks, n \notin mixed,
                      \A p \in Procs : Net(p) = n => pc[p] # "idle" /\ (Cmd[p].kind = "setup" => pc[p] = "done")
               PROVE  bridge[n].index = 0 /\ n \notin fwnet /\ \A c \in Containers : <<c, n>> \notin fwport
    BY DEF NothingLeft, Apart
  <2>1. \A p \in Procs : Net(p) = n => pc[p] \in Ended
    <3>1. \A p \in Procs : pc[p] \in Ended \cup {"idle"}
      BY ZenonT(60), ZenonT(90) DEF Quiet, Running
    <3> QED
      BY <3>1, ZenonT(60), ZenonT(90)
  <2>2. ASSUME NEW c \in Containers PROVE ~veth[c][n].there /\ <<c, n>> \notin fwport
    <3> SUFFICES ASSUME veth[c][n].there \/ <<c, n>> \in fwport PROVE FALSE
      OBVIOUS
    <3>1. PICK p \in Procs : Cmd[p].kind = "setup" /\ Ctr(p) = c /\ Net(p) = n
      BY ZenonT(60), ZenonT(90) DEF LeftInv, Owned
    <3>2. PICK q \in Procs : Cmd[q].kind = "teardown" /\ Ctr(q) = c /\ Net(q) = n
      BY <3>1, ZenonT(60), ZenonT(90) DEF Paired
    <3>3. TornDown(q) /\ pc[q] \in Ended
      BY <2>1, <3>2, Zenon, ZenonT(60) DEF LeftInv
    <3> QED
      BY <3>2, <3>3, ZenonT(60), ZenonT(90) DEF TornDown, Ended
  <2>3. Used(n)
    BY Zenon, ZenonT(60) DEF LeftInv
  <2>4. ~Occupied(n)
    <3>1. ASSUME NEW p \in Procs, Net(p) = n
          PROVE  /\ pc[p] \notin SetupPcs \cup {"find", "dump", "del_bridge"}
                 /\ ~(Cmd[p].kind = "setup" /\ pc[p] = "failed")
      <4>1. pc[p] \in Ended /\ (Cmd[p].kind = "setup" => pc[p] = "done")
        BY <2>1, <3>1, ZenonT(60), ZenonT(90)
      <4> QED
        BY <4>1, ZenonT(60), ZenonT(90) DEF SetupPcs, Ended
    <3> QED
      BY <2>2, <3>1, ZenonT(60), ZenonT(90) DEF Occupied
  <2>5. bridge[n].index = 0
    BY <2>3, <2>4 DEF Used
  <2>6. ~Ruled(n)
    BY <2>1, <2>5 DEF Ruled, Ended
  <2> QED
    BY <2>2, <2>3, <2>5, <2>6, ZenonT(60), ZenonT(90) DEF Used
<1> QED
  BY <1>1, <1>2, <1>3, PTL DEF Spec
=============================================================================
