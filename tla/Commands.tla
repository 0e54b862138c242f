------------------------------ MODULE Commands ------------------------------
(***************************************************************************)
(* The setup and teardown commands (src/commands/setup.rs, teardown.rs)    *)
(* over all networks of a container, and what is left when one of their    *)
(* steps fails.  A network has the bridge driver or that of a plugin       *)
(* (src/network/plugin.rs); Vlan has the commands over vlan networks.      *)
(* Commands run one after the other; the networks of a container come in   *)
(* any order, that of a hash map.  Drivers work on sets: Bridge and        *)
(* Iptables have the detail.                                               *)
(***************************************************************************)
EXTENDS Naturals, FiniteSets, Sequences

CONSTANTS Containers,
          Networks,
          Nets,       \* networks of each container
          Internal,   \* networks without firewall rules
          Dns,        \* networks with dns enabled
          Plugins,    \* networks whose driver is a plugin
          MaxFaults   \* failing steps in one behaviour

ASSUME CommandsAssumption ==
    /\ Nets \in [Containers -> SUBSET Networks \ {{}}]
    /\ Internal \subseteq Networks /\ Dns \subseteq Networks /\ Plugins \subseteq Networks
    /\ MaxFaults \in Nat

VARIABLES bridges,   \* networks whose bridge exists
          links,     \* pairs of container and network with a veth pair, or what a plugin made
          netrules,  \* networks with firewall rules on the host
          ports,     \* pairs with port forwarding rules on the host
          entries,   \* pairs with an aardvark-dns entry
          status,    \* how the last command of each container ended
          cmd,       \* the command that runs or ran last
          pc,
          ns,        \* network namespace of netavark's thread
          todo,      \* networks the loop has not reached
          did,       \* networks set up so far, in order
          made,      \* networks this setup has set up
          rolled,    \* networks rolled back
          hit,       \* networks whose driver failed in this teardown
          erred,     \* an error was collected
          faults

hostVars == <<bridges, links, netrules, ports>>
loopVars == <<todo, did, made, rolled, hit>>
vars == <<hostVars, entries, status, cmd, pc, ns, loopVars, erred, faults>>

c == cmd.ctr

Init ==
    /\ bridges = {} /\ links = {} /\ netrules = {} /\ ports = {} /\ entries = {}
    /\ status = [k \in Containers |-> "down"]
    /\ cmd \in [kind : {"teardown"}, ctr : Containers]
    /\ pc = "idle"
    /\ ns = "host"
    /\ todo = {} /\ did = <<>> /\ made = {} /\ rolled = {} /\ hit = {}
    /\ erred = FALSE
    /\ faults = 0

Fault == faults < MaxFaults /\ faults' = faults + 1

\* A new process, for a container that is down or to clean up after one.
Begin(kind, k) ==
    /\ pc = "idle"
    /\ (kind = "setup") <=> (status[k] = "down")
    /\ cmd' = [kind |-> kind, ctr |-> k]
    /\ pc' = IF kind = "setup" THEN "validate" ELSE "delete_dns"
    /\ ns' = "host"
    /\ todo' = Nets[k] /\ did' = <<>> /\ made' = {} /\ rolled' = {} /\ hit' = {}
    /\ erred' = FALSE
    /\ UNCHANGED <<hostVars, entries, status, faults>>

Return(s) ==
    /\ pc' = "idle"
    /\ status' = [status EXCEPT ![c] = s]

-----------------------------------------------------------------------------
\* exec_plugin: the executable was found and started, how it ended, and
\* whether its output is the JSON that netavark reads for that exit code.
PluginRuns == [started : BOOLEAN, exit : {"zero", "other", "signal"}, answer : BOOLEAN]

\* The status block is read after a setup only.
PluginOk(kind, r) == r.started /\ r.exit = "zero" /\ (kind = "setup" => r.answer)

\* A plugin, external: one that exits with 0 has done its work, any other part of
\* it or nothing.  It inherits the thread's namespace: elsewhere nothing is certain.
PluginEffects(r, done) ==
    IF ~r.started THEN {links} ELSE IF r.exit = "zero" /\ ns = "host" THEN {done} ELSE {links, done}

-----------------------------------------------------------------------------
\* setup: all drivers are validated before the first one does anything.
Validate ==
    /\ pc = "validate"
    /\ \/ pc' = "create" /\ UNCHANGED <<status, faults>>
       \/ Fault /\ Return("setup_failed")
    /\ UNCHANGED <<hostVars, entries, cmd, ns, loopVars, erred>>

\* Mutant: the rollback takes the failing driver too.
CreateInterfacesTakesFailing(n) ==
    /\ pc = "create"
    /\ n \in todo \ Plugins
    /\ todo' = todo \ {n}
    /\ did' = Append(did, n)
    /\ \/ /\ bridges' = bridges \cup {n} /\ links' = links \cup {<<c, n>>}
          /\ pc' = "netns"
          /\ UNCHANGED faults
       \/ /\ Fault
          /\ bridges' \in {bridges, bridges \cup {n}}
          /\ pc' = "rollback"
          /\ UNCHANGED links
    /\ UNCHANGED <<netrules, ports, entries, status, cmd, ns, made, rolled, hit, erred>>

\* create_interfaces up to the veth pair; a failure may leave a new bridge.
CreateInterfaces(n) ==
    /\ pc = "create"
    /\ n \in todo \ Plugins
    /\ todo' = todo \ {n}
    /\ \/ /\ bridges' = bridges \cup {n} /\ links' = links \cup {<<c, n>>}
          /\ did' = Append(did, n)
          /\ pc' = "netns"
          /\ UNCHANGED faults
       \/ /\ Fault
          /\ bridges' \in {bridges, bridges \cup {n}}
          /\ pc' = "rollback"
          /\ UNCHANGED <<links, did>>
    /\ UNCHANGED <<netrules, ports, entries, status, cmd, ns, made, rolled, hit, erred>>

\* PluginDriver::setup: anything but an exit with 0 and a status block fails.
SetupPlugin(n) ==
    /\ pc = "create"
    /\ n \in todo \cap Plugins
    /\ todo' = todo \ {n}
    /\ \E r \in PluginRuns :
           /\ links' \in PluginEffects(r, links \cup {<<c, n>>})
           /\ \/ /\ PluginOk("setup", r)
                 /\ did' = Append(did, n) /\ made' = made \cup {n}
                 /\ pc' = IF todo = {n} THEN "commit" ELSE "create"
                 /\ UNCHANGED faults
              \/ /\ ~PluginOk("setup", r)
                 /\ Fault
                 /\ pc' = "rollback"
                 /\ UNCHANGED <<did, made>>
    /\ UNCHANGED <<bridges, netrules, ports, entries, status, cmd, ns, rolled, hit, erred>>

This == did[Len(did)]
Done(n) == made' = made \cup {n} /\ pc' = IF todo = {} THEN "commit" ELSE "create"
DropThis == did' = SubSeq(did, 1, Len(did) - 1)

\* exec_netns: the thread joins the container's namespace, sets sysctls and
\* joins back; addresses and routes follow.  A "?" in the body skips the way back.
ExecNetns ==
    /\ pc = "netns"
    /\ \/ /\ IF This \in Internal THEN Done(This) ELSE pc' = "firewall" /\ UNCHANGED made
          /\ UNCHANGED <<ns, did, faults>>
       \/ Fault /\ ns' \in {"host", "container"} /\ DropThis /\ pc' = "rollback" /\ UNCHANGED made
    /\ UNCHANGED <<hostVars, entries, status, cmd, todo, rolled, hit, erred>>

\* setup_firewall: the rules of the network, then those of the ports; a failure
\* may leave some.
SetupFirewall ==
    LET nets == netrules \cup {This}
        all == ports \cup {<<c, This>>}
    IN /\ pc = "firewall"
       /\ \/ netrules' = nets /\ ports' = all /\ Done(This) /\ UNCHANGED <<did, faults>>
          \/ /\ Fault
             /\ \/ netrules' \in {netrules, nets} /\ UNCHANGED ports
                \/ netrules' = nets /\ ports' = all
             /\ DropThis
             /\ pc' = "rollback"
             /\ UNCHANGED made
       /\ UNCHANGED <<bridges, links, entries, status, cmd, ns, todo, rolled, hit, erred>>

\* Only the bridge driver hands out an aardvark entry, and only its are deleted.
Registered == Dns \ Plugins

\* commit_netavark_entries: an error returns, some entries written, nothing rolled back.
Commit ==
    LET mine == {<<c, n>> : n \in Nets[c] \cap Registered} IN
    /\ pc = "commit"
    /\ \/ entries' = entries \cup mine /\ Return("up") /\ UNCHANGED faults
       \/ /\ mine # {}
          /\ Fault
          /\ \E some \in SUBSET mine : entries' = entries \cup some
          /\ Return("commit_failed")
    /\ UNCHANGED <<hostVars, cmd, ns, loopVars, erred>>

-----------------------------------------------------------------------------
\* Bridge::teardown of network n.  The step that fails, if one does, is "veth"
\* or "bridge" of remove_link, or "network" or "port" of the firewall.  The firewall
\* works in the thread's namespace: elsewhere it finds no rules, and no chain to
\* remove, which is an error.
DriverTeardown(n, failing) ==
    LET unlinked == <<c, n>> \in links /\ failing # "veth"
        complete == unlinked /\ failing # "bridge" /\ \A k \in Containers \ {c} : <<k, n>> \notin links
        nets == complete /\ n \notin Internal
        portsReached == n \notin Internal /\ ~(nets /\ (failing = "network" \/ ns = "container"))
    IN /\ links' = IF unlinked THEN links \ {<<c, n>>} ELSE links
       /\ bridges' = IF complete THEN bridges \ {n} ELSE bridges
       /\ netrules' = IF nets /\ ns = "host" /\ failing # "network" THEN netrules \ {n} ELSE netrules
       /\ ports' = IF portsReached /\ ns = "host" /\ failing # "port" THEN ports \ {<<c, n>>} ELSE ports

\* PluginDriver::teardown.
PluginTeardown(n, r) ==
    /\ links' \in PluginEffects(r, links \ {<<c, n>>})
    /\ UNCHANGED <<bridges, netrules, ports>>

TeardownFails(n) == <<c, n>> \notin links

Steps == {"veth", "bridge", "network", "port"}

\* Mutant: the loop ends with the first driver.
RollbackOnce ==
    /\ pc = "rollback"
    /\ IF did = <<>> \/ rolled # {}
       THEN Return("setup_failed") /\ UNCHANGED <<hostVars, did, rolled, faults>>
       ELSE /\ did' = Tail(did)
            /\ rolled' = rolled \cup {Head(did)}
            /\ IF Head(did) \in Plugins THEN links' = links \ {<<c, Head(did)>>} /\ UNCHANGED <<bridges, netrules, ports>>
               ELSE DriverTeardown(Head(did), "none")
            /\ UNCHANGED <<pc, status, faults>>
    /\ UNCHANGED <<entries, cmd, ns, todo, made, hit, erred>>

\* The drivers before the failing one are torn down, errors only logged.
Rollback ==
    /\ pc = "rollback"
    /\ IF did = <<>>
       THEN Return("setup_failed") /\ UNCHANGED <<hostVars, did, rolled, faults>>
       ELSE /\ did' = Tail(did)
            /\ rolled' = rolled \cup {Head(did)}
            /\ IF Head(did) \in Plugins
               THEN \E r \in PluginRuns :
                        /\ PluginTeardown(Head(did), r)
                        /\ IF PluginOk("teardown", r) THEN UNCHANGED faults ELSE Fault
               ELSE \/ DriverTeardown(Head(did), "none") /\ UNCHANGED faults
                    \/ Fault /\ \E f \in Steps : DriverTeardown(Head(did), f)
            /\ UNCHANGED <<pc, status>>
    /\ UNCHANGED <<entries, cmd, ns, todo, made, hit, erred>>

-----------------------------------------------------------------------------
\* teardown

HasFile(n) == \E k \in Containers : <<k, n>> \in entries

\* delete_from_netavark_entries: the first network without a file, or a
\* failure, ends the loop; the error is collected.
DeleteDns ==
    LET nets == Nets[c] \cap Registered
        remove(gone) == entries' = entries \ {<<c, n>> : n \in gone}
        partly == \E gone \in SUBSET {n \in nets : HasFile(n)} : remove(gone)
    IN /\ pc = "delete_dns"
       /\ pc' = "open"
       /\ \/ (\A n \in nets : HasFile(n)) /\ remove(nets) /\ UNCHANGED <<erred, faults>>
          \/ (\E n \in nets : ~HasFile(n)) /\ partly /\ erred' = TRUE /\ UNCHANGED faults
          \/ nets # {} /\ Fault /\ partly /\ erred' = TRUE
       /\ UNCHANGED <<hostVars, status, cmd, ns, loopVars>>

\* The firewall driver and the netlink sockets: an error here returns.
Open ==
    /\ pc = "open"
    /\ \/ pc' = "networks" /\ UNCHANGED <<status, faults>>
       \/ Fault /\ Return("teardown_aborted")
    /\ UNCHANGED <<hostVars, entries, cmd, ns, loopVars, erred>>

\* Mutant: the first error ends the loop.
TeardownNetworkOrReturn(n) ==
    /\ pc = "networks"
    /\ n \in todo \ Plugins
    /\ todo' = IF TeardownFails(n) THEN {} ELSE todo \ {n}
    /\ DriverTeardown(n, "none")
    /\ erred' = (erred \/ TeardownFails(n))
    /\ UNCHANGED <<hit, faults, entries, status, cmd, pc, ns, did, made, rolled>>

\* Mutant: the errors of the drivers are only logged.
TeardownNetworkLogging(n) ==
    /\ pc = "networks"
    /\ n \in todo \ Plugins
    /\ todo' = todo \ {n}
    /\ \/ DriverTeardown(n, "none") /\ UNCHANGED <<hit, faults>>
       \/ Fault /\ hit' = hit \cup {n} /\ \E f \in Steps : DriverTeardown(n, f)
    /\ UNCHANGED <<erred, entries, status, cmd, pc, ns, did, made, rolled>>

\* One driver after the other; its error is collected and the loop goes on.
TeardownNetwork(n) ==
    /\ pc = "networks"
    /\ n \in todo \ Plugins
    /\ todo' = todo \ {n}
    /\ \/ DriverTeardown(n, "none") /\ erred' = (erred \/ TeardownFails(n)) /\ UNCHANGED <<hit, faults>>
       \/ /\ Fault
          /\ hit' = hit \cup {n}
          /\ erred' = TRUE
          /\ \E f \in Steps : DriverTeardown(n, f)
    /\ UNCHANGED <<entries, status, cmd, pc, ns, did, made, rolled>>

\* The same for a plugin.  That it fails where it made nothing is no fault.
TeardownPlugin(n) ==
    /\ pc = "networks"
    /\ n \in todo \cap Plugins
    /\ todo' = todo \ {n}
    /\ \E r \in PluginRuns :
           /\ PluginTeardown(n, r)
           /\ erred' = (erred \/ ~PluginOk("teardown", r))
           /\ IF PluginOk("teardown", r) \/ <<c, n>> \notin links
              THEN UNCHANGED <<hit, faults>>
              ELSE Fault /\ hit' = hit \cup {n}
    /\ UNCHANGED <<entries, status, cmd, pc, ns, did, made, rolled>>

\* The collected errors are returned at the end.
EndTeardown ==
    /\ pc = "networks"
    /\ todo = {}
    /\ Return(IF erred THEN "teardown_failed" ELSE "down")
    /\ UNCHANGED <<hostVars, entries, cmd, ns, loopVars, erred, faults>>

Setup == Validate \/ (\E n \in Networks : CreateInterfaces(n) \/ SetupPlugin(n)) \/ ExecNetns \/ SetupFirewall \/ Commit \/ Rollback

Teardown == DeleteDns \/ Open \/ (\E n \in Networks : TeardownNetwork(n) \/ TeardownPlugin(n)) \/ EndTeardown

Next == (\E kind \in {"setup", "teardown"}, k \in Containers : Begin(kind, k)) \/ Setup \/ Teardown

Spec == Init /\ [][Next]_vars

-----------------------------------------------------------------------------
\* Properties.

\* The values of the variables; a veth pair of the container is there for every
\* network that is set up and not yet rolled back.
TypeOK ==
    /\ bridges \subseteq Networks \ Plugins
    /\ netrules \subseteq Networks \ (Internal \cup Plugins)
    /\ links \subseteq Containers \X Networks
    /\ ports \subseteq Containers \X (Networks \ (Internal \cup Plugins))
    /\ entries \subseteq Containers \X Registered
    /\ status \in [Containers -> {"down", "up", "setup_failed", "commit_failed", "teardown_failed", "teardown_aborted"}]
    /\ cmd \in [kind : {"setup", "teardown"}, ctr : Containers]
    /\ ns \in {"host", "container"}
    /\ todo \subseteq Nets[c] /\ made \subseteq Nets[c] /\ rolled \subseteq made /\ hit \subseteq Nets[c]
    /\ \A i \in DOMAIN did : <<c, did[i]>> \in links /\ did[i] \notin todo \cup rolled
    /\ erred \in BOOLEAN
    /\ faults \in 0 .. MaxFaults

\* Nothing of the container is left on network n, and nothing of the network
\* itself when no other container uses it.
Undone(n) ==
    /\ <<c, n>> \notin links \cup ports
    /\ (\A k \in Containers : <<k, n>> \notin links) => n \notin bridges \cup netrules

\* "If there is an error we have to tear down all previous drivers": after a setup
\* that failed in a driver every network that had been set up is undone, provided
\* that the rollback itself met no failure.
RollbackUndoes ==
    pc = "idle" /\ status[c] = "setup_failed" /\ faults <= 1 => \A n \in made : Undone(n)

\* The same for the failures that leave the thread in the host's namespace.
RollbackOnHostUndoes ==
    pc = "idle" /\ status[c] = "setup_failed" /\ faults <= 1 /\ ns = "host" => \A n \in made : Undone(n)

\* A network all of whose containers are down has no bridge, rules, links or
\* dns entries, whatever failed before: no command reports success and leaves
\* something behind that no later command will remove.  (The bridge goes with its
\* last container, as the tests ask; the manual page says that it stays.)
SuccessLeavesNothing ==
    pc = "idle" => \A n \in Networks :
        (\A k \in Containers : n \in Nets[k] => status[k] = "down")
        => /\ n \notin bridges \cup netrules
           /\ \A k \in Containers : <<k, n>> \notin links \cup ports \cup entries

\* A failing driver, or an error of aardvark-dns, does not keep teardown from
\* undoing the container's other networks.
TeardownContinues ==
    pc = "idle" /\ cmd.kind = "teardown" /\ status[c] # "teardown_aborted"
        => \A n \in Nets[c] \ hit : <<c, n>> \notin links \cup ports
=============================================================================
