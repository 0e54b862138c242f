------------------------------- MODULE Bridge -------------------------------
(***************************************************************************)
(* The bridge driver (src/network/bridge.rs) at the granularity of its     *)
(* netlink requests: invocations for containers on the same network create *)
(* and remove one bridge between them, with no lock around it.  The        *)
(* firewall driver is reduced to which networks and which containers have  *)
(* their rules; Iptables has the rest.                                     *)
(***************************************************************************)
EXTENDS Naturals, FiniteSets

CONSTANTS Procs,      \* netavark invocations, for one network each
          Containers,
          Networks,
          Internal,   \* networks without forwarding and firewall rules
          Mapped,     \* containers with port mappings
          Cmd,        \* the command of each invocation
          MaxFaults   \* failing requests in one behaviour

ASSUME BridgeAssumption ==
    /\ Cmd \in [Procs -> [kind : {"setup", "teardown"}, ctr : Containers, net : Networks]]
    /\ Internal \subseteq Networks /\ Mapped \subseteq Containers
    /\ MaxFaults \in Nat

VARIABLES bridge,   \* per network: interface index (0: none), has its addresses, is up
          next,     \* the kernel's next interface index
          veth,     \* per container and network: exists, index of its master (0: none), configured
          fwnet,    \* networks with firewall rules
          fwport,   \* pairs of container and network with port forwarding set up
          pc, idx, complete, erred,
          faults,
          mixed     \* networks on which a setup and a teardown ran at the same time

procVars == <<pc, idx, complete, erred>>
vars == <<bridge, next, veth, fwnet, fwport, procVars, faults, mixed>>

Ended == {"done", "failed"}

NoBridge == [index |-> 0, addr |-> FALSE, up |-> FALSE]
NoVeth == [there |-> FALSE, master |-> 0, ready |-> FALSE]

Ctr(p) == Cmd[p].ctr
Net(p) == Cmd[p].net
Goto(p, l) == pc' = [pc EXCEPT ![p] = l]

Init ==
    /\ bridge = [n \in Networks |-> NoBridge]
    /\ next = 1
    /\ veth = [c \in Containers |-> [n \in Networks |-> NoVeth]]
    /\ fwnet = {}
    /\ fwport = {}
    /\ pc = [p \in Procs |-> "idle"]
    /\ idx = [p \in Procs |-> 0]
    /\ complete = [p \in Procs |-> FALSE]
    /\ erred = [p \in Procs |-> FALSE]
    /\ faults = 0
    /\ mixed = {}

Running(p) == pc[p] \notin Ended \cup {"idle"}

\* podman runs the commands of one container one after the other, setup first.
Begin(p) ==
    /\ pc[p] = "idle"
    /\ \A q \in Procs \ {p} : Ctr(q) = Ctr(p) => ~Running(q) /\ (Cmd[q].kind = "setup" => pc[q] \in Ended)
    /\ Goto(p, IF Cmd[p].kind = "setup" THEN "get_bridge" ELSE "del_veth")
    /\ mixed' = mixed \cup {n \in {Net(p)} : \E q \in Procs :
                              Running(q) /\ Net(q) = n /\ Cmd[q].kind # Cmd[p].kind}
    /\ UNCHANGED <<bridge, next, veth, fwnet, fwport, idx, complete, erred, faults>>

-----------------------------------------------------------------------------
\* Bridge::setup

\* get_link: use the bridge that is there, or create it on ENODEV.
GetBridge(p) ==
    /\ pc[p] = "get_bridge"
    /\ idx' = [idx EXCEPT ![p] = bridge[Net(p)].index]
    /\ Goto(p, IF bridge[Net(p)].index = 0 THEN "create_bridge" ELSE "create_veth")
    /\ UNCHANGED <<bridge, next, veth, fwnet, fwport, complete, erred, faults, mixed>>

\* create_link, EEXIST if another invocation was faster.
CreateBridge(p) ==
    /\ pc[p] = "create_bridge"
    /\ IF bridge[Net(p)].index # 0
       THEN Goto(p, "failed") /\ UNCHANGED <<bridge, next>>
       ELSE /\ bridge' = [bridge EXCEPT ![Net(p)] = [NoBridge EXCEPT !.index = next]]
            /\ next' = next + 1
            /\ Goto(p, "find_bridge")
    /\ UNCHANGED <<veth, fwnet, fwport, idx, complete, erred, faults, mixed>>

FindBridge(p) ==
    /\ pc[p] = "find_bridge"
    /\ idx' = [idx EXCEPT ![p] = bridge[Net(p)].index]
    /\ Goto(p, IF bridge[Net(p)].index = 0 THEN "failed" ELSE "add_addr")
    /\ UNCHANGED <<bridge, next, veth, fwnet, fwport, complete, erred, faults, mixed>>

\* The bridge p works on is still the network's bridge.
Mine(p) == idx[p] # 0 /\ bridge[Net(p)].index = idx[p]

AddAddr(p) ==
    /\ pc[p] = "add_addr"
    /\ IF Mine(p)
       THEN bridge' = [bridge EXCEPT ![Net(p)].addr = TRUE] /\ Goto(p, "set_up")
       ELSE Goto(p, "failed") /\ UNCHANGED bridge
    /\ UNCHANGED <<next, veth, fwnet, fwport, idx, complete, erred, faults, mixed>>

SetUp(p) ==
    /\ pc[p] = "set_up"
    /\ IF Mine(p)
       THEN bridge' = [bridge EXCEPT ![Net(p)].up = TRUE] /\ Goto(p, "create_veth")
       ELSE Goto(p, "failed") /\ UNCHANGED bridge
    /\ UNCHANGED <<next, veth, fwnet, fwport, idx, complete, erred, faults, mixed>>

\* create_veth_pair: one request makes both ends and attaches the host end.
CreateVeth(p) ==
    /\ pc[p] = "create_veth"
    /\ IF Mine(p) /\ ~veth[Ctr(p)][Net(p)].there
       THEN /\ veth' = [veth EXCEPT ![Ctr(p)][Net(p)] = [there |-> TRUE, master |-> idx[p], ready |-> FALSE]]
            /\ Goto(p, "configure")
       ELSE Goto(p, "failed") /\ UNCHANGED veth
    /\ UNCHANGED <<bridge, next, fwnet, fwport, idx, complete, erred, faults, mixed>>

\* Mutant: an internal network gets firewall rules too.
ConfigureInternalToo(p) ==
    /\ pc[p] = "configure"
    /\ veth' = [veth EXCEPT ![Ctr(p)][Net(p)].ready = TRUE]
    /\ Goto(p, "fw_network")
    /\ UNCHANGED <<bridge, next, fwnet, fwport, idx, complete, erred, faults, mixed>>

\* Sysctls, addresses and routes of the pair.  An internal network then has its
\* forwarding switched off, a file that goes with the bridge, and is done.
Configure(p) ==
    /\ pc[p] = "configure"
    /\ veth' = [veth EXCEPT ![Ctr(p)][Net(p)].ready = TRUE]
    /\ Goto(p, IF Net(p) \notin Internal THEN "fw_network"
               ELSE IF bridge[Net(p)].index # 0 THEN "done" ELSE "failed")
    /\ UNCHANGED <<bridge, next, fwnet, fwport, idx, complete, erred, faults, mixed>>

\* setup_firewall: setup_network, route_localnet of the bridge, setup_port_forward.
FwNetwork(p) ==
    /\ pc[p] = "fw_network"
    /\ fwnet' = fwnet \cup {Net(p)}
    /\ Goto(p, IF Ctr(p) \in Mapped /\ bridge[Net(p)].index = 0 THEN "failed" ELSE "fw_port")
    /\ UNCHANGED <<bridge, next, veth, fwport, idx, complete, erred, faults, mixed>>

FwPort(p) ==
    /\ pc[p] = "fw_port"
    /\ fwport' = fwport \cup {<<Ctr(p), Net(p)>>}
    /\ Goto(p, "done")
    /\ UNCHANGED <<bridge, next, veth, fwnet, idx, complete, erred, faults, mixed>>

-----------------------------------------------------------------------------
\* Bridge::teardown

\* An error of remove_link is collected, and the teardown is not complete.
LinkError(p) ==
    /\ erred' = [erred EXCEPT ![p] = TRUE]
    /\ Goto(p, "fw_network_td")

DelVeth(p) ==
    /\ pc[p] = "del_veth"
    /\ IF veth[Ctr(p)][Net(p)].there
       THEN /\ veth' = [veth EXCEPT ![Ctr(p)][Net(p)] = NoVeth]
            /\ Goto(p, "find")
            /\ UNCHANGED erred
       ELSE LinkError(p) /\ UNCHANGED veth
    /\ UNCHANGED <<bridge, next, fwnet, fwport, idx, complete, faults, mixed>>

Find(p) ==
    /\ pc[p] = "find"
    /\ idx' = [idx EXCEPT ![p] = bridge[Net(p)].index]
    /\ IF bridge[Net(p)].index # 0 THEN Goto(p, "dump") /\ UNCHANGED erred ELSE LinkError(p)
    /\ UNCHANGED <<bridge, next, veth, fwnet, fwport, complete, faults, mixed>>

Ports(i) == {c \in Containers : \E n \in Networks : veth[c][n].there /\ veth[c][n].master = i}

\* Mutant: one interface left on the bridge is taken for the container's own.
DumpLeavesOne(p) ==
    /\ pc[p] = "dump"
    /\ Goto(p, IF Cardinality(Ports(idx[p])) <= 1 THEN "del_bridge" ELSE "fw_network_td")
    /\ UNCHANGED <<bridge, next, veth, fwnet, fwport, idx, complete, erred, faults, mixed>>

\* Mutant: the bridge is kept.
DumpKeepsBridge(p) ==
    /\ pc[p] = "dump"
    /\ Goto(p, "fw_network_td")
    /\ UNCHANGED <<bridge, next, veth, fwnet, fwport, idx, complete, erred, faults, mixed>>

\* dump_links of the bridge's ports.
Dump(p) ==
    /\ pc[p] = "dump"
    /\ Goto(p, IF Ports(idx[p]) = {} THEN "del_bridge" ELSE "fw_network_td")
    /\ UNCHANGED <<bridge, next, veth, fwnet, fwport, idx, complete, erred, faults, mixed>>

\* del_link by index; ports attached since the dump lose their master.
DelBridge(p) ==
    /\ pc[p] = "del_bridge"
    /\ IF Mine(p)
       THEN /\ bridge' = [bridge EXCEPT ![Net(p)] = NoBridge]
            /\ veth' = [c \in Containers |-> [n \in Networks |->
                          IF veth[c][n].master = idx[p] THEN [veth[c][n] EXCEPT !.master = 0] ELSE veth[c][n]]]
            /\ complete' = [complete EXCEPT ![p] = TRUE]
            /\ Goto(p, "fw_network_td")
            /\ UNCHANGED erred
       ELSE LinkError(p) /\ UNCHANGED <<bridge, veth, complete>>
    /\ UNCHANGED <<next, fwnet, fwport, idx, faults, mixed>>

Finish(p) == Goto(p, IF erred[p] THEN "failed" ELSE "done")

\* teardown_firewall, skipped for an internal network.
FwNetworkTd(p) ==
    /\ pc[p] = "fw_network_td"
    /\ IF Net(p) \in Internal THEN Finish(p) ELSE Goto(p, "fw_port_td")
    /\ fwnet' = IF Net(p) \notin Internal /\ complete[p] THEN fwnet \ {Net(p)} ELSE fwnet
    /\ UNCHANGED <<bridge, next, veth, fwport, idx, complete, erred, faults, mixed>>

FwPortTd(p) ==
    /\ pc[p] = "fw_port_td"
    /\ fwport' = fwport \ {<<Ctr(p), Net(p)>>}
    /\ Finish(p)
    /\ UNCHANGED <<bridge, next, veth, fwnet, idx, complete, erred, faults, mixed>>

\* A request fails.  Setup returns; so does the firewall half of teardown, while
\* an error of remove_link is collected.
Fault(p) ==
    /\ Running(p)
    /\ pc[p] = "fw_network_td" => complete[p] /\ Net(p) \notin Internal
    /\ faults < MaxFaults
    /\ faults' = faults + 1
    /\ IF pc[p] \in {"del_veth", "find", "dump", "del_bridge"}
       THEN LinkError(p)
       ELSE Goto(p, "failed") /\ UNCHANGED erred
    /\ UNCHANGED <<bridge, next, veth, fwnet, fwport, idx, complete, mixed>>

SetupStep(p) ==
    \/ GetBridge(p) \/ CreateBridge(p) \/ FindBridge(p) \/ AddAddr(p) \/ SetUp(p)
    \/ CreateVeth(p) \/ Configure(p) \/ FwNetwork(p) \/ FwPort(p)

TeardownStep(p) ==
    DelVeth(p) \/ Find(p) \/ Dump(p) \/ DelBridge(p) \/ FwNetworkTd(p) \/ FwPortTd(p)

Next == \E p \in Procs : Begin(p) \/ SetupStep(p) \/ TeardownStep(p) \/ Fault(p)

Spec == Init /\ [][Next]_vars

-----------------------------------------------------------------------------
\* Properties.

\* The values of the variables; a port's master is a bridge that exists, and an
\* internal network has no firewall rules.
TypeOK ==
    /\ bridge \in [Networks -> [index : Nat, addr : BOOLEAN, up : BOOLEAN]]
    /\ next \in Nat \ {0}
    /\ veth \in [Containers -> [Networks -> [there : BOOLEAN, master : Nat, ready : BOOLEAN]]]
    /\ fwnet \subseteq Networks \ Internal
    /\ fwport \subseteq Containers \X (Networks \ Internal)
    /\ idx \in [Procs -> Nat]
    /\ complete \in [Procs -> BOOLEAN] /\ erred \in [Procs -> BOOLEAN]
    /\ faults \in 0 .. MaxFaults
    /\ mixed \subseteq Networks
    /\ \A c \in Containers, n \in Networks :
        veth[c][n].master \in {0, bridge[n].index} /\ (veth[c][n].ready => veth[c][n].there)

Quiet == \A p \in Procs : ~Running(p)

\* The exceptions of the properties below: remove_link lists the ports of a bridge
\* and deletes it in two requests with no lock against setups.
Apart(n) == n \notin mixed

Served(p) ==
    /\ Cmd[p].kind = "setup" /\ pc[p] = "done"
    /\ \A q \in Procs : Cmd[q].kind = "teardown" /\ Ctr(q) = Ctr(p) /\ Net(q) = Net(p) => pc[q] = "idle"

\* A container whose setup succeeded is attached to a bridge that has its
\* addresses and is up, and has its firewall rules, although the bridge may
\* have been made by another invocation and others may have left it.
Connected ==
    Quiet /\ faults = 0 => \A p \in Procs : Served(p) /\ Apart(Net(p)) =>
        LET b == bridge[Net(p)]
            v == veth[Ctr(p)][Net(p)]
        IN /\ v.there /\ v.ready /\ v.master = b.index
           /\ b.index # 0 /\ b.addr /\ b.up
           /\ Net(p) \notin Internal => Net(p) \in fwnet /\ <<Ctr(p), Net(p)>> \in fwport

\* When the last container of a network has been torn down, by whichever of
\* several teardowns running at once, the bridge and all rules are gone: remove_link,
\* as its tests ask.  (The manual page and the comment on Teardown::new say of bridge
\* interfaces that they "will not be removed".)
NothingLeft ==
    Quiet /\ faults = 0 => \A n \in Networks :
        Apart(n) /\ (\A p \in Procs : Net(p) = n => pc[p] # "idle" /\ (Cmd[p].kind = "setup" => pc[p] = "done"))
        => bridge[n].index = 0 /\ n \notin fwnet /\ \A c \in Containers : <<c, n>> \notin fwport

\* "Remove bridge only when no containers are attached": an attached interface
\* keeps its bridge at every moment, whichever requests fail, unless a setup and
\* a teardown of its network ran at the same time.
RemovedOnlyWhenEmpty ==
    \A c \in Containers, n \in Networks : veth[c][n].there /\ Apart(n) => veth[c][n].master # 0
=============================================================================
