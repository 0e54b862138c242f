----------------------------- MODULE Firewalld ------------------------------
(***************************************************************************)
(* The firewalld driver (src/firewall/firewalld.rs) under the bridge       *)
(* driver's setup_firewall and teardown_firewall (src/network/bridge.rs).  *)
(* Several netavark processes talk to one firewalld; every D-Bus call is a *)
(* step of its own, and nothing locks the calls of one function together.  *)
(*                                                                         *)
(* firewalld has a permanent configuration, which holds the zone and the   *)
(* two policies netavark adds, and a running one, which a reload makes     *)
(* again from the permanent one: sources and forwarded ports, which only   *)
(* the running one has, go with it.                                        *)
(***************************************************************************)
EXTENDS Naturals, Sequences, Functions

CONSTANTS Procs,        \* netavark invocations, for one network each
          Containers,
          Networks,
          Subnets,      \* subnets of each network, in order
          Families,     \* IP families in which the containers of a network have an address
          Mappings,     \* port mappings of each container
          None,         \* no host_ip in a mapping
          RedirectDns,  \* the dns port is not 53
          Cmd,          \* the command of each invocation
          PortMod,      \* ports are numbers below it, 2^16 in the code
          MaxFaults     \* D-Bus errors and reloads by others in one behaviour

Zone == "netavark_zone"
PortPolicy == "netavark_portfwd"

\* What setup_network makes sure of, in its order.
Objects == <<Zone, "netavark_policy", PortPolicy>>

AllObjects == Range(Objects)

ASSUME FirewalldAssumption ==
    /\ Cmd \in [Procs -> [kind : {"setup", "teardown"}, ctr : Containers, net : Networks]]
    /\ Subnets \in [Networks -> Seq(UNION {Range(Subnets[n]) : n \in Networks})]
    /\ RedirectDns \in BOOLEAN
    /\ MaxFaults \in Nat

VARIABLES permanent,  \* objects in the permanent configuration
          running,    \* objects in the running configuration
          sources,    \* subnets in netavark's zone
          ports,      \* forward_ports of the port policy
          rich,       \* networks whose dns rich rule is in the port policy
          attached,   \* containers with an interface on each network's bridge
          pc,
          at,         \* position in Objects or in the network's subnets
          reload,     \* need_reload
          snap,       \* the policy settings it has read
          complete,   \* it tears its network's last container down
          faults,
          mixed,      \* networks on which a setup and a teardown ran at the same time
          stale,      \* invocations that had begun when the configuration was last reloaded
          raced,      \* invocations whose change of the policy met another's, see Overtaken
          early       \* setups that began before everything was in the running configuration

daemonVars == <<permanent, running, sources, ports, rich>>
ghostVars == <<mixed, stale, raced, early>>
vars == <<daemonVars, attached, pc, at, reload, snap, complete, faults, ghostVars>>

Ended == {"done", "failed"}
Ctr(p) == Cmd[p].ctr
Net(p) == Cmd[p].net
SubnetsOf(n) == Range(Subnets[n])
Goto(p, l) == pc' = [pc EXCEPT ![p] = l]
Running(p) == pc[p] \notin Ended \cup {"idle"}

NoSettings == [ports |-> {}, rich |-> {}]

Init ==
    /\ permanent = {} /\ running = {} /\ sources = {} /\ ports = {} /\ rich = {}
    /\ attached = [n \in Networks |-> {}]
    /\ pc = [p \in Procs |-> "idle"]
    /\ at = [p \in Procs |-> 1]
    /\ reload = [p \in Procs |-> FALSE]
    /\ snap = [p \in Procs |-> NoSettings]
    /\ complete = [p \in Procs |-> FALSE]
    /\ faults = 0
    /\ mixed = {} /\ stale = {} /\ raced = {} /\ early = {}

-----------------------------------------------------------------------------
\* podman runs the commands of one container one after the other, setup first.
MayBegin(p) ==
    /\ pc[p] = "idle"
    /\ \A q \in Procs \ {p} : Ctr(q) = Ctr(p) => ~Running(q) /\ (Cmd[q].kind = "setup" => pc[q] \in Ended)

Mixes(p) ==
    mixed' = mixed \cup {n \in {Net(p)} : \E q \in Procs :
                           Running(q) /\ Net(q) = n /\ Cmd[q].kind # Cmd[p].kind}

\* Bridge::setup has attached the container and calls setup_firewall.
Setup(p) ==
    /\ MayBegin(p)
    /\ Cmd[p].kind = "setup"
    /\ attached' = [attached EXCEPT ![Net(p)] = @ \cup {Ctr(p)}]
    /\ Goto(p, "list_running")
    /\ Mixes(p)
    /\ early' = IF AllObjects \subseteq running THEN early ELSE early \cup {p}
    /\ UNCHANGED <<daemonVars, at, reload, snap, complete, faults, stale, raced>>

\* Bridge::teardown has removed the interface and calls teardown_firewall;
\* teardown_network is for the last container only.
Teardown(p) ==
    LET left == attached[Net(p)] \ {Ctr(p)}
        last == Ctr(p) \in attached[Net(p)] /\ left = {}
    IN /\ MayBegin(p)
       /\ Cmd[p].kind = "teardown"
       /\ attached' = [attached EXCEPT ![Net(p)] = left]
       /\ complete' = [complete EXCEPT ![p] = last]
       /\ Goto(p, IF last /\ Subnets[Net(p)] # <<>> THEN "remove_source" ELSE "get_settings")
       /\ Mixes(p)
       /\ UNCHANGED <<daemonVars, at, reload, snap, faults, stale, raced, early>>

-----------------------------------------------------------------------------
\* setup_network

AfterObjects(p, need) ==
    IF need THEN "reload" ELSE IF Subnets[Net(p)] = <<>> THEN "get_settings" ELSE "get_zone"

\* create_zone_if_not_exist or add_policy_if_not_exist is done with an object.
NextObject(p, need) ==
    /\ reload' = [reload EXCEPT ![p] = need]
    /\ IF at[p] = Len(Objects)
       THEN /\ at' = [at EXCEPT ![p] = 1]
            /\ Goto(p, AfterObjects(p, need))
       ELSE /\ at' = [at EXCEPT ![p] = @ + 1]
            /\ Goto(p, "list_running")

\* Mutant: every setup reloads.
ListRunningReloads(p) ==
    /\ pc[p] = "list_running"
    /\ IF Objects[at[p]] \in running
       THEN NextObject(p, TRUE)
       ELSE Goto(p, "list_permanent") /\ UNCHANGED <<at, reload>>
    /\ UNCHANGED <<daemonVars, attached, snap, complete, faults, ghostVars>>

\* getZones, getPolicies: nothing to do for what is in the running configuration.
ListRunning(p) ==
    /\ pc[p] = "list_running"
    /\ IF Objects[at[p]] \in running
       THEN NextObject(p, reload[p])
       ELSE Goto(p, "list_permanent") /\ UNCHANGED <<at, reload>>
    /\ UNCHANGED <<daemonVars, attached, snap, complete, faults, ghostVars>>

\* Mutant: no reload for an object that another invocation has added.
ListPermanentNoReload(p) ==
    /\ pc[p] = "list_permanent"
    /\ IF Objects[at[p]] \in permanent
       THEN NextObject(p, reload[p])
       ELSE Goto(p, "add_object") /\ UNCHANGED <<at, reload>>
    /\ UNCHANGED <<daemonVars, attached, snap, complete, faults, ghostVars>>

\* getZoneNames, getPolicyNames: what is only there needs a reload.
ListPermanent(p) ==
    /\ pc[p] = "list_permanent"
    /\ IF Objects[at[p]] \in permanent
       THEN NextObject(p, TRUE)
       ELSE Goto(p, "add_object") /\ UNCHANGED <<at, reload>>
    /\ UNCHANGED <<daemonVars, attached, snap, complete, faults, ghostVars>>

\* Mutant: a setup whose call fails takes the object out again.
AddObjectCleansUp(p) ==
    /\ pc[p] = "add_object"
    /\ IF Objects[at[p]] \in permanent
       THEN permanent' = permanent \ {Objects[at[p]]} /\ Goto(p, "failed") /\ UNCHANGED <<at, reload>>
       ELSE permanent' = permanent \cup {Objects[at[p]]} /\ NextObject(p, TRUE)
    /\ UNCHANGED <<running, sources, ports, rich, attached, snap, complete, faults, ghostVars>>

\* addZone2, addPolicy: an error when another invocation was faster.
AddObject(p) ==
    /\ pc[p] = "add_object"
    /\ IF Objects[at[p]] \in permanent
       THEN Goto(p, "failed") /\ UNCHANGED <<permanent, at, reload>>
       ELSE permanent' = permanent \cup {Objects[at[p]]} /\ NextObject(p, TRUE)
    /\ UNCHANGED <<running, sources, ports, rich, attached, snap, complete, faults, ghostVars>>

\* firewalld, external: the running configuration is made again.
DoReload ==
    /\ running' = permanent
    /\ sources' = {} /\ ports' = {} /\ rich' = {}
    /\ UNCHANGED permanent

Reload(p) ==
    /\ pc[p] = "reload"
    /\ DoReload
    /\ Goto(p, IF Subnets[Net(p)] = <<>> THEN "get_settings" ELSE "get_zone")
    /\ reload' = [reload EXCEPT ![p] = FALSE]
    /\ stale' = stale \cup {q \in Procs \ {p} : pc[q] # "idle"}
    /\ UNCHANGED <<attached, at, snap, complete, faults, mixed, raced, early>>

Subnet(p) == Subnets[Net(p)][at[p]]

\* The next subnet, or on to what follows the loop.
NextSubnet(p, again, after) ==
    IF at[p] = Len(Subnets[Net(p)])
    THEN at' = [at EXCEPT ![p] = 1] /\ Goto(p, after)
    ELSE at' = [at EXCEPT ![p] = @ + 1] /\ Goto(p, again)

\* getZoneOfSource: a subnet that is in the zone already ends the loop.
GetZoneOfSource(p) ==
    /\ pc[p] = "get_zone"
    /\ IF Subnet(p) \in sources
       THEN at' = [at EXCEPT ![p] = 1] /\ Goto(p, "get_settings")
       ELSE Goto(p, "change_zone") /\ UNCHANGED at
    /\ UNCHANGED <<daemonVars, attached, reload, snap, complete, faults, ghostVars>>

\* Mutant: the loop ends after the first subnet.
ChangeZoneOfFirst(p) ==
    /\ pc[p] = "change_zone"
    /\ Zone \in running
    /\ sources' = sources \cup {Subnet(p)}
    /\ at' = [at EXCEPT ![p] = 1]
    /\ Goto(p, "get_settings")
    /\ UNCHANGED <<permanent, running, ports, rich, attached, reload, snap, complete, faults, ghostVars>>

\* changeZoneOfSource: an error when the zone is not running.
ChangeZoneOfSource(p) ==
    /\ pc[p] = "change_zone"
    /\ IF Zone \in running
       THEN sources' = sources \cup {Subnet(p)} /\ NextSubnet(p, "get_zone", "get_settings")
       ELSE Goto(p, "failed") /\ UNCHANGED <<sources, at>>
    /\ UNCHANGED <<permanent, running, ports, rich, attached, reload, snap, complete, faults, ghostVars>>

\* teardown_network: removeSource is an error for a subnet that is not in the zone.
RemoveSource(p) ==
    /\ pc[p] = "remove_source"
    /\ IF Subnet(p) \in sources
       THEN sources' = sources \ {Subnet(p)} /\ NextSubnet(p, "remove_source", "get_settings")
       ELSE Goto(p, "failed") /\ UNCHANGED <<sources, at>>
    /\ UNCHANGED <<permanent, running, ports, rich, attached, reload, snap, complete, faults, ghostVars>>

-----------------------------------------------------------------------------
\* setup_port_forward and teardown_port_forward

\* getPolicySettings
GetPolicySettings(p) ==
    /\ pc[p] = "get_settings"
    /\ IF PortPolicy \in running
       THEN snap' = [snap EXCEPT ![p] = [ports |-> ports, rich |-> rich]] /\ Goto(p, "set_settings")
       ELSE Goto(p, "failed") /\ UNCHANGED snap
    /\ UNCHANGED <<daemonVars, attached, at, reload, complete, faults, ghostVars>>

\* container_ip_v4 and container_ip_v6 of get_firewall_conf
Addresses(c, n) == {<<c, n, f>> : f \in Families[n]}

\* Mutant: 1 is not taken off the end of a range.
MakePortTupleLong(m, addr) ==
    [port |-> <<m.host_port, (m.host_port + m.range) % PortMod>>,
     to |-> <<m.container_port, (m.container_port + m.range) % PortMod>>, addr |-> addr]

\* make_port_tuple, in 16 bit arithmetic; the sums may wrap on the way.
MakePortTuple(m, addr) ==
    LET end(first) == IF m.range > 1 THEN (((first + m.range) % PortMod) + PortMod - 1) % PortMod ELSE first
    IN [port |-> <<m.host_port, end(m.host_port)>>,
        to |-> <<m.container_port, end(m.container_port)>>, addr |-> addr]

\* The tuples setup_port_forward appends: a host ip takes the container's place.
PortTuples(c, n) ==
    UNION {{MakePortTuple(m, a) : a \in IF m.host_ip # None THEN {m.host_ip} ELSE Addresses(c, n)} :
             m \in Mappings[c]}

\* Mutant: the last container leaves the dns rule behind.
NewSettingsKeepDns(p) ==
    LET old == snap[p]
        setup == Cmd[p].kind = "setup"
    IN [ports |-> IF setup THEN old.ports \cup PortTuples(Ctr(p), Net(p))
                  ELSE {t \in old.ports : t.addr \notin Addresses(Ctr(p), Net(p))},
        rich |-> IF setup /\ RedirectDns THEN old.rich \cup {Net(p)} ELSE rich]

\* What is sent back: the tuples read with the container's added, or without
\* those that lead to one of its addresses; the dns rule of the network comes with
\* every container and goes with the last.  A key not sent keeps its value, and
\* teardown sends none that it has not read: firewalld leaves out what is empty.
NewSettings(p) ==
    LET old == snap[p]
        setup == Cmd[p].kind = "setup"
    IN [ports |-> IF setup THEN old.ports \cup PortTuples(Ctr(p), Net(p))
                  ELSE IF old.ports = {} THEN ports
                  ELSE {t \in old.ports : t.addr \notin Addresses(Ctr(p), Net(p))},
        rich |-> IF RedirectDns /\ setup THEN old.rich \cup {Net(p)}
                 ELSE IF RedirectDns /\ complete[p] /\ old.rich # {} THEN old.rich \ {Net(p)}
                 ELSE rich]

\* Ghost: a write of p between a read and a write of another may be lost.  When
\* the policy has changed since p read it, the write may also bring back what has
\* gone, which a teardown that read in between has not seen.
Overtaken(p) ==
    LET between == {q \in Procs \ {p} : pc[q] = "set_settings"}
        old == snap[p] # [ports |-> ports, rich |-> rich]
    IN (IF between = {} THEN {} ELSE {p}) \cup (IF old THEN {q \in between : Cmd[q].kind = "teardown"} ELSE {})

\* setPolicySettings
SetPolicySettings(p) ==
    /\ pc[p] = "set_settings"
    /\ IF PortPolicy \in running
       THEN /\ ports' = NewSettings(p).ports
            /\ rich' = NewSettings(p).rich
            /\ Goto(p, "done")
            /\ raced' = raced \cup Overtaken(p)
       ELSE Goto(p, "failed") /\ UNCHANGED <<ports, rich, raced>>
    /\ snap' = [snap EXCEPT ![p] = NoSettings]
    /\ UNCHANGED <<permanent, running, sources, attached, at, reload, complete, faults, mixed, stale, early>>

-----------------------------------------------------------------------------
\* A D-Bus call returns an error, or the process is killed.
Fault(p) ==
    /\ Running(p)
    /\ faults < MaxFaults
    /\ faults' = faults + 1
    /\ Goto(p, "failed")
    /\ at' = [at EXCEPT ![p] = 1]
    /\ reload' = [reload EXCEPT ![p] = FALSE]
    /\ snap' = [snap EXCEPT ![p] = NoSettings]
    /\ UNCHANGED <<daemonVars, attached, complete, ghostVars>>

\* firewalld, external: it is reloaded or restarted by somebody else.
Restart ==
    /\ faults < MaxFaults
    /\ faults' = faults + 1
    /\ DoReload
    /\ stale' = stale \cup {q \in Procs : pc[q] # "idle"}
    /\ UNCHANGED <<attached, pc, at, reload, snap, complete, mixed, raced, early>>

Step(p) ==
    \/ ListRunning(p) \/ ListPermanent(p) \/ AddObject(p) \/ Reload(p)
    \/ GetZoneOfSource(p) \/ ChangeZoneOfSource(p) \/ RemoveSource(p)
    \/ GetPolicySettings(p) \/ SetPolicySettings(p)

Next == Restart \/ \E p \in Procs : Setup(p) \/ Teardown(p) \/ Step(p) \/ Fault(p)

Spec == Init /\ [][Next]_vars

-----------------------------------------------------------------------------
\* Properties.

Labels == Ended \cup {"idle", "list_running", "list_permanent", "add_object", "reload", "get_zone",
                      "change_zone", "remove_source", "get_settings", "set_settings"}

AllSubnets == UNION {SubnetsOf(n) : n \in Networks}

\* The values of the variables; the running configuration has nothing the
\* permanent one has not.
TypeOK ==
    /\ permanent \subseteq AllObjects /\ running \subseteq permanent
    /\ sources \subseteq AllSubnets
    /\ rich \subseteq Networks
    /\ attached \in [Networks -> SUBSET Containers]
    /\ pc \in [Procs -> Labels]
    /\ at \in [Procs -> Nat \ {0}]
    /\ reload \in [Procs -> BOOLEAN]
    /\ DOMAIN snap = Procs /\ \A p \in Procs : snap[p].rich \subseteq Networks
    /\ complete \in [Procs -> BOOLEAN]
    /\ faults \in 0 .. MaxFaults
    /\ mixed \subseteq Networks /\ stale \cup raced \cup early \subseteq Procs

\* "MUST come after the reload; otherwise the zone we made might not be in the
\* running config": an invocation that has got as far as the sources or the port
\* policy finds the zone and the policies running, whoever added them and
\* whoever reloaded.
RunningWhenUsed ==
    \A p \in Procs : Cmd[p].kind = "setup" /\ pc[p] \in {"get_zone", "change_zone", "get_settings", "set_settings"}
        => AllObjects \subseteq running

Quiet == \A p \in Procs : ~Running(p)

\* Setup of p succeeded, nobody has begun to tear its container down, and the
\* configuration was not reloaded behind its back.
Served(p) ==
    /\ Cmd[p].kind = "setup" /\ pc[p] = "done" /\ p \notin stale
    /\ \A q \in Procs : Cmd[q].kind = "teardown" /\ Ctr(q) = Ctr(p) /\ Net(q) = Net(p) => pc[q] = "idle"

\* All subnets of a network with a container that is set up are in the zone, and
\* firewalld masquerades and accepts for them, also after a restart of firewalld
\* before the setup.  Exceptions: a command of the network failed, so that the
\* loop over its subnets stopped in the middle, or a setup met a teardown.
SourcesServed ==
    Quiet => \A p \in Procs :
        Served(p) /\ Net(p) \notin mixed /\ (\A q \in Procs : Net(q) = Net(p) => pc[q] # "failed")
        => SubnetsOf(Net(p)) \subseteq sources

\* Port h of the host leads to port d of address a.
Leads(h, d, a) ==
    \E t \in ports : /\ t.addr = a
                     /\ t.port[1] <= h /\ h <= t.port[2]
                     /\ t.to[1] + (h - t.port[1]) = d

\* Every port of every mapping of a container leads to the container, in both
\* families, from the end of setup until its teardown, whatever the other
\* invocations add and remove.  Exceptions: its own write fell between the read
\* and the write of another, the loss the comment "serious TOCTOU risk" is about,
\* or the mapping has a host ip, which takes the container's address' place.
PortsForwarded ==
    \A p \in Procs : Served(p) /\ p \notin raced => \A m \in Mappings[Ctr(p)] : m.host_ip = None =>
        \A i \in 0 .. (IF m.range > 1 THEN m.range - 1 ELSE 0) : \A a \in Addresses(Ctr(p), Net(p)) :
            Leads(m.host_port + i, m.container_port + i, a)

Down(p) == Cmd[p].kind = "teardown" /\ pc[p] = "done"

\* A container whose teardown succeeded has no port forwarded to one of its
\* addresses, and a network without containers has no source and no dns rule left.
\* Exceptions: a write of a teardown fell between the read and the write of another
\* as above, or an invocation with an old reading of the policy wrote it between
\* the teardown's read and write, and so brought back ports or rules that were
\* gone; for the network also a teardown that failed or met a setup.
NothingLeft ==
    /\ \A p \in Procs : Down(p) /\ p \notin raced => \A t \in ports : t.addr \notin Addresses(Ctr(p), Net(p))
    /\ Quiet => \A n \in Networks \ mixed :
         attached[n] = {} /\ (\A p \in Procs : Cmd[p].kind = "teardown" /\ Net(p) = n => pc[p] # "failed" /\ p \notin raced)
         => SubnetsOf(n) \cap sources = {} /\ n \notin rich

\* Once the zone and the policies are running, and the setups that began before
\* that have ended, netavark takes a subnet out of the zone only in the teardown of
\* the last container of its network: the setups of other networks do not reload.
SourcesKept ==
    [][AllObjects \subseteq running /\ (\A p \in early : ~Running(p)) /\ faults' = faults
       => \A s \in sources \ sources' : \E p \in Procs :
            pc[p] = "remove_source" /\ complete[p] /\ s \in SubnetsOf(Net(p))]_vars
=============================================================================
