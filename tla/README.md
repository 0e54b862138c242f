# A TLA+ verification of netavark

netavark configures the network of a container: podman starts one `netavark`
process for each setup, teardown or update of a container, and those processes
share the host's bridges, its firewall (iptables or firewalld), the config files of the DNS server
aardvark-dns, and a DHCP proxy daemon. Little of that sharing is under a lock,
and every command is a sequence of system calls any of which can fail. This
directory models those parts, checks them with TLC on small instances and proves
the core ones with TLAPS.

Paths below are relative to `src/src/`, line numbers to the sources as checked in.

## 1. The system

| component | state it keeps | operations | correct when |
|---|---|---|---|
| aardvark-dns registry, `dns/aardvark.rs`, `commands/update.rs` | a config file per network, `aardvark.lock`, `aardvark.pid`, the server's loaded config | `commit_entries`, `delete_entry`, `modify_network_dns_servers`, `notify`, `start_aardvark_server` | no entry is lost, files stay well formed, the server ends up with what the files say, nobody blocks on the lock |
| DHCP proxy, `commands/dhcp_proxy.rs`, `dhcp_proxy/`, `network/macvlan_dhcp.rs` | lease map under a mutex, lease file, activity channel | requests Setup, Teardown, Clean; inactivity timer; signals | a container that is up has its lease on record, leases do not outlive containers, every request is answered, an idle daemon exits |
| iptables driver, `firewall/iptables.rs`, `firewall/varktables/` | chains and ordered rules shared by all networks | `setup_network`, `setup_port_forward` and their teardowns | rules of containers in use stay, nothing is left after the last container, isolation and positions hold |
| bridge driver, `network/bridge.rs` | the bridge of a network, veth pairs | `setup`, `teardown`, `remove_link` | one complete bridge while containers are attached, none afterwards |
| commands, `commands/setup.rs`, `commands/teardown.rs` | namespace of the thread, list of errors | loops over the networks, rollback | a failed setup is undone, teardown goes on after an error and reports it |
| firewalld driver, `firewall/firewalld.rs` | a zone and two policies, permanent and running, over D-Bus | as iptables | the zone and policies run before they are used, sources and ports of containers in use stay |
| vlan driver, `network/vlan.rs` | macvlan or ipvlan link in the container | `setup` with retries, `teardown` | the link has its name, parent, addresses and routes, no temporary link stays, nobody else's link is touched |
| netlink socket, `network/netlink.rs` | sequence number, answers not read yet | `send`, `recv` | a request gets its own answer, or an error |
| plugin driver, `network/plugin.rs` | a child process | setup, teardown | a plugin that fails is handled as a driver that fails |
| IPAM and utilities, `network/core_utils.rs`, `network/types.rs` | the thread's namespace | address selection, default routes, `exec_netns!` | addresses match subnets, the thread is back on the host |

Interaction: the commands call the drivers network after network; the bridge
driver calls the firewall driver; setup ends with, and teardown begins with, the
DNS registry; the macvlan driver is a client of the DHCP proxy over a unix
socket. Separate invocations meet only in shared state: files, kernel objects,
the daemon.

What is hard to test is the interleaving of invocations between system calls,
checks that are stale when acted on, steps that fail half way (with rollback
and retry after them), and sequences of legal commands that leave something
behind. `PROJECT.json` lists these hazards line by line.

**Podman.** netavark's caller is outside the repository. The models assume what
the code shows it relies on: the commands of one container run one after the
other, setup first, and a failed command may be followed by a teardown, which may
be retried. Whether invocations for *different* containers run at the same time
is a parameter of `Aardvark` and `Iptables`; in `Bridge`, `Firewalld` and
`DhcpProxy` they may, in `Commands` and `Vlan` they do not. The code takes a lock in `commit_entries`, so it
expects them to; a comment in `firewall/firewalld.rs:112-117` expects podman's own
locking to prevent it in the typical case. Where a behaviour needs
invocations that overlap, section 3 says so.

## 2. Modules

| module | models | extends |
|---|---|---|
| `Aardvark` | DNS files, lock, pid file and server, one action per system call | |
| `DnsRegistry` | abstract specification: a map from networks to containers and servers | |
| `AardvarkRegistry` | the refinement mapping: the files as that registry | `Aardvark`, instantiates `DnsRegistry` |
| `MCAardvark` | instances | `AardvarkRegistry` |
| `AardvarkProofs` | type correctness, the lock and the commits; well-formed files, without overlapping rewrites | `Aardvark` |
| `AardvarkSerialProofs` | an up-to-date server and the refinement, without overlapping rewrites | `AardvarkProofs`, `AardvarkRegistry` |
| `DhcpProxy`, `MCDhcpProxy` | the daemon, its cache and its clients | |
| `DhcpProxyProofs` | leases on record, and none left | `DhcpProxy` |
| `VarkTables` | operators: chains, rules and the iptables commands of the four driver calls | |
| `Iptables`, `MCIptables` | invocations that run those commands | `VarkTables` |
| `Bridge`, `MCBridge` | the bridge driver, one action per netlink request | |
| `BridgeProofs` | the bridge stays while it has ports and goes after that, setup connects | `Bridge` |
| `Firewalld`, `MCFirewalld` | the firewalld driver under the bridge driver, one action per D-Bus call | |
| `FirewalldProofs` | the reload before use, that sources stay, the order of the commands | `Firewalld` |
| `FirewalldServedProofs` | sources and ports of containers in use, and none left | `FirewalldProofs` |
| `Commands`, `MCCommands` | setup and teardown over all networks of a container, bridge networks and plugins | |
| `CommandsProofs` | rollback is complete, teardown goes on, success leaves nothing | `Commands` |
| `Netlink` | operators: flags, the kernel's answers, `recv` and the result macros | |
| `Vlan`, `MCVlan` | setup and teardown over vlan networks, one action per request and datagram | `Netlink` |
| `VlanProofs` | leases have their links, no temporary link is left, rollback, links of others | `Vlan` |

**Aardvark.** A file is a sequence of lines with a generation number; a
descriptor holds the generation it opened, so that writing to an unlinked file is
seen by nobody. An element of `Procs` is one invocation. A setup goes through
`LockExclusive`, per network `CreateNew` or `OpenAppend`, `WriteHeader` and
`CommitEntry`, then `Unlock`; a teardown or an update through `ReadFile`,
`Truncate`, one `WriteBack` per line and `DeleteEntryEnd` or `ModifyEnd`, without
the lock; all end in `GetPid`, `Kill` and, for a setup, `StartServer`. `Abort` is
an I/O error or a kill anywhere. `ServerReload` and `ServerCrash` model the
server, which is external. `Mentions` gives the ids that occur in the text of a
container's line, for `line.contains(container_id)`.

**DhcpProxy.** A request is a task whose steps are cut at awaits, at the cache's
mutex and at kernel calls: `GetDhcpLease`, `StartDora`, `Dora`, `CacheLease`,
`IpSetup` for a setup; `ReleaseDhcpLease`, `TakeLease`, `ReleaseLease`, `DelLink` for
a teardown. `SpawnSetup` and `SpawnTeardown` are the handlers, which put a message into the
activity channel before they start that task. `Save` models the file with its offset. `TimerReset` and
`TimerExpires` are `handle_wakeup`, which runs only when the timeout is not 0 (`timed`); without it
nobody empties the channel. `Serve` starts the daemon, by hand or by systemd for
a connection; `Killed`, `ClientKilled` and failing saves are faults.

**VarkTables and Iptables.** `GetNetworkChains` and `GetPortForwardingChains`
build the chains with rules, positions and teardown policies as the source does;
`SetupNetwork`, `SetupPortForward` and their teardowns flatten them to iptables
commands. `Check` and `Act` are the two commands of `append_unique` and its
siblings. Rules are records of a target and of what they match; one IP family is
modelled. `Histories` and `Overlaps` say which invocations a behaviour has and which of
them may run at the same time.

**Bridge.** Interfaces have kernel indices, so that a deleted and recreated
bridge is another bridge; `mixed` records the networks on which a setup and a
teardown overlapped. Setup: `GetBridge`, `CreateBridge`, `FindBridge`,
`AddAddr`, `SetUp`, `CreateVeth`, `Configure`, then the firewall. Teardown:
`DelVeth`, `Find`, `Dump`, `DelBridge`, then the firewall. `Fault` is a failing request.

**Commands.** Drivers act on sets of bridges, links, rules and entries; the
control of the commands is kept in full: validation before the first change,
rollback of the drivers before the failing one, collected errors, early returns,
and `ns`, the namespace that `exec_netns!` leaves the thread in. `made` collects the
networks a setup has set up, whatever the rollback then does with them; a setup
that fails in the DNS commit (`commit_failed`) is not rolled back by the code. A network has the
bridge driver or a plugin. `SetupPlugin` and `TeardownPlugin` are `exec_plugin`: the
child does not start, exits with zero or not, or is killed, answers with the JSON
expected or not (`PluginRuns`), and has done its work or not by then (`PluginEffects`).

**Firewalld.** firewalld, external, has a `permanent` and a `running` configuration;
a reload makes the second from the first and so drops `sources` and `ports`, which
only the second has. Setup: `ListRunning`, `ListPermanent`, `AddObject` for the zone
and each policy, `Reload` if one was not running, `GetZoneOfSource` and
`ChangeZoneOfSource` per subnet, then `GetPolicySettings` and `SetPolicySettings`, a
read and a write of all forwarded ports. `MakePortTuple` computes ranges modulo
`PortMod`. `Restart` is a reload by somebody else, `Fault` a failing call or a kill.

**Netlink and Vlan.** A socket is its sequence number and the queue of datagrams
not read; `Answers` is what the kernel queues for a request with given flags, `Scan`
what `recv` makes of a datagram, `Expect` the two result macros. A request of
`Vlan` changes the kernel's links and routes when it is sent and is answered by one or
more `Recv` steps; `Refuse` is a request the kernel turns down, `RecvFails` a receive
that fails with the answer read or not. The control is that of `vlan.rs`: the parent
from the default route, three temporary names, rename and removal by index, the sysctl
by name in the container's namespace, addresses, routes, lease; then rollback and
teardown as in the commands. A host-local network with more subnets than static ips
is an index out of bounds, and a lease without a gateway is one in the client: a
panic ends the process with nothing rolled back (`Ipam(n).panics`, status `panicked`). The proxy refuses
a lease for a network without a parent, which is an error like any other. `made` is as in `Commands`. `Ipam` and `DefaultRoutes` are `get_ipam_addresses` and
`add_default_routes`; `WorksWhenUp` compares what they lead to with a definition of
its own, `Works`.

## 3. Runs

Every run is a configuration `MC*.cfg`; `PROJECT.json` lists the properties of each
and, for every property of a passing run, a mutated definition (its name says the
bug) under which TLC finds the property violated.

Passing:

| run | instance | shows |
|---|---|---|
| `aardvark_commit` | 2 setups and a teardown on 2 networks, all overlapping, 1 fault, fair | `CommitLocked` on every path; `NoLostCommit`: no header or entry overwrites another; `EveryCommandEnds`: a failed or killed commit frees the lock |
| `aardvark_serial` | 2 setups that overlap, 2 teardowns and an update that do not | `ImplementsRegistry`: the files refine `DnsRegistry`; `HeaderFirst`, `NoEmptyFile`; `ServedWhenQuiet`: the server has what the files say |
| `dhcp_proxy` | 2 containers, 2 leases (one without gateway), with a timeout and without, 2 teardown attempts, 1 fault, fair | `LeaseWhileUp`, `NoOrphanLease`; `RequestsAnswered`, `EventuallyExits` |
| `iptables_driver` | 3 containers on 2 isolated networks, one with 2 subnets, DNS redirect, every order of commands; on a third network 2 setups and a teardown at once, and a setup with the teardown of a container with ports | `NetworkServed`, `NothingLeft`, `CommandsSucceed`, `IsolatedWhileJump`, `RulesOnce`; overlapping too: `PortsSurvive`, `MasqFirst` |
| `bridge_driver` | 2 containers on a network, 1 on an internal one, setups and teardowns in any overlap, 1 failing request | `Connected`, `NothingLeft`, `RemovedOnlyWhenEmpty`; no interface refers to a bridge that is gone (`TypeOK`) |
| `commands_faults` | 2 containers, 3 bridge networks (one internal) and a plugin, 3 failing steps | `RollbackOnHostUndoes`, `SuccessLeavesNothing`, `TeardownContinues` |
| `firewalld` | 3 setups and a teardown at once, 2 networks, one with a subnet per family, a port range up to the last port, 1 failing call or foreign reload | `RunningWhenUsed`, `SourcesServed`, `PortsForwarded`, `NothingLeft`, `SourcesKept` |
| `vlan` | 2 commands over one or two of 5 networks (dhcp with and without a parent, host-local with gateways of both families, too few ips), names taken on the host or in the container, 2 temporary names, one of them taken, 1 failure, fair | `WorksWhenUp`, `NoTmpLeft`, `LeaseHasLink`, `RolledBack`, `FailsForAReason`, `OthersUntouched`, `CommandsEnd` |

The other runs are disagreements between the code and what its documents or
comments say; TLC's counterexample is the witness. The quotations are in
`PROJECT.json`.

| run | what the code does |
|---|---|
| `aardvark_clear` | `update` to the empty list does not notify the server |
| `dhcp_file` | `set_len(0)` without a seek: NUL bytes before the JSON from the second save on |
| `iptables_isolation` | the teardown of one isolated network removes the jump all isolated networks need |
| `commands_rollback` | `?` inside `exec_netns!` leaves the thread in the container's namespace, where the rollback finds no rules |

One disagreement has no run of its own. The manual page (`docs/netavark.1.md:25`) and the
comment on `Teardown::new` (`commands/teardown.rs:20`) say that "bridge interfaces, for example, will not
be removed" by teardown. `remove_link` removes a bridge with its last port
(`network/bridge.rs:680-687`), the release notes announce that (`RELEASE_NOTES.md:34`) and the tests check it
(`test/100-bridge-iptables.bats:110`, `753`). `NothingLeft` of `Bridge` and `SuccessLeavesNothing` of
`Commands` state what the code and its tests do; the sentence is out of date.

Further behaviour that the models show, that the properties except, and that a
maintainer should know of:

* `remove_link` lists the ports of a bridge and deletes it in two requests; a
  container attached in between loses its bridge (`network/bridge.rs:677-684`; `Apart`
  in `Bridge`).
* `append_unique` checks and appends in two iptables commands; two setups at once add a
  rule twice and the teardown removes one copy (`firewall/varktables/helpers.rs:15-24`).
* `NETAVARK-DN-*` stays when the last container of a network publishes no port
  (`firewall/varktables/types.rs:428`, `firewall/iptables.rs:187`; `last` in `NothingLeft` of `Iptables`).
* a setup that panics is not rolled back: its earlier networks stay until podman calls
  teardown (`network/macvlan_dhcp.rs:67`; `FailsForAReason` in `Vlan`).
* a dhcp network without a parent is set up on the interface of the default route, and the
  request for its lease names no host interface, which the proxy refuses
  (`network/vlan.rs:174`, `dhcp_proxy/dhcp_service.rs:175-198`).
* two rewrites of one DNS file at once can lose each other's lines: nothing locks them
  (`dns/aardvark.rs:307`, `335`; see the conditions below).
* `notify` runs after the commit lock is released, so a server may be started while
  another invocation commits (`dns/aardvark.rs:245`, `302`).
* teardown stops at the first missing DNS file and leaves the entries of later
  networks (`dns/aardvark.rs:411`); it reports the error.
* a DHCP teardown without a lease on record fails on the blank lease
  (`dhcp_proxy/dhcp_service.rs:108`), and the link is not deleted.
* a first setup reloads firewalld, and with that takes the sources and ports of a
  container whose own first setup ended in between (`firewall/firewalld.rs:62-71`;
  `stale` in `Firewalld`). A reload by anybody else has the same effect for all.
* two setups at once lose each other's port forwardings, as the comment at
  `firewall/firewalld.rs:112` says; a write from an old reading, from
  before a reload or another's write, also brings back the ports of containers torn down
  since, which a teardown that read in between has not seen (`Overtaken` in `Firewalld`).
* a mapping with a host ip gets that address as the *destination* of its tuple
  (`firewall/firewalld.rs:176`), and teardown, which looks for the container's address,
  leaves the tuple (`PortTuples`, `NewSettings`).
* when the loop over a network's subnets fails in the middle, the next setup of the
  network finds the first subnet in the zone and skips the rest
  (`firewall/firewalld.rs:547`).
* an answer left unread by a failed `recv` makes the next request on that socket fail
  on its sequence number: the rollback of a network with a lease then gives up before
  the link is deleted (`network/netlink.rs:446`; `unread` in `Vlan`).

Those about `remove_link`, `append_unique`, `notify`, two rewrites, the reload by a setup and lost
port forwardings need invocations that overlap.

**Bounds.** Two networks are what it takes for a loop over networks to be cut
short in the middle; two containers on one network for "last" and "not last"
to differ; a third invocation for one to act between two others. Entries,
leases, rules and server lists are compared only for equality, so two or three
values of each suffice. `MaxFaults` is 0 in
`aardvark_serial`, 3 in `commands_faults`, so that a retry and its rollback can fail
too, and 1 in the other runs with faults; a DHCP request
may also fail for reasons that no bound counts. `QueueCap` is 1 instead of the code's 5 so that the channel
is full in reachable states. `MaxTries` bounds retries, and
`MaxCmds`, the commands on one namespace in `vlan`, is 2: a setup and what follows it. `PortMod` is 8 for
2^16; the range in `firewalld` ends with the last port, so the sum wraps. `CHECK_DEADLOCK FALSE` is set where
each invocation runs once and the system then stops; `DhcpProxy` and `Commands`
never stop and their deadlock check is on.

**Conditions in properties.** Some properties except what the code does not
promise. `NoLostCommit` is about networks that no
teardown or update has begun to rewrite (`Untouched`), `HeaderFirst` and the refinement are
checked without overlapping rewrites: these run outside the lock, and what two of them leave is
promised by nobody. Of `Iptables`, all but
`PortsSurvive` and `MasqFirst` ask that no invocations overlapped. `Connected` and `NothingLeft` of
`Bridge` except networks on which a setup and a teardown overlapped, and behaviours with
a failing request; `RemovedOnlyWhenEmpty` only the former. `LeaseWhileUp` excepts leases wiped by a
crash of the daemon or by Clean, since a restarted daemon begins with an empty
cache. `NoOrphanLease` and `EventuallyExits` except a setup whose client died, which the daemon may
finish after the teardown. `RollbackOnHostUndoes` and `IsolatedWhileJump` are what remains
of properties that `commands_rollback` and `iptables_isolation` show violated; the first
of them, with `faults <= 1`, asks that the rollback itself met no failure.
`NothingLeft` of `Iptables` asks that the port chain be gone, or empty when the last container to
go published no port. `EventuallyExits` is about a daemon with a timeout; `RequestsAnswered` also about one
without.
The properties of `Firewalld` except containers whose sources and ports a reload took
(`stale`), writes of the policy that met another's (`raced`), networks on which a setup and a teardown
overlapped or a command failed, and mappings with a host ip. In `Vlan`, `NoTmpLeft`
and the second half of `RolledBack` except failures of the very requests that clean up, and `RolledBack` the
unread answer above; both speak of setups that return an error, not of a panic.

**Fairness.** `Aardvark`: weak fairness of each started invocation's next step,
since the kernel runs every process and a file lock that stays free is granted; and
of `ServerReload`, the delivery of a signal. `DhcpProxy`: weak fairness of each
request's next step (the runtime polls its tasks and the DHCP exchange has a
timeout), of the timer, and of the client after its answer. `Vlan`: weak fairness of
the command's steps, of which there is one at a time, and the kernel answers every
request. No command is obliged
to begin and no fault to occur or not to occur.

## 4. Proofs

For every set of invocations, networks and containers, every assignment of commands
and every bound on faults, but for the hypotheses named below:

* `AardvarkProofs!TypeCorrect`: `Spec => []TypeOK`. `TypeOK` is inductive; one lemma
  per action.
* `AardvarkProofs!LockCorrect`: `Spec => []CommitLocked`, for any mix of
  commands. An invocation is inside `commit_entries` exactly when it holds the lock.
  With `TypeOK` this is inductive.
* `AardvarkProofs!NoCommitIsLost`: `Spec => []NoLostCommit`, for any mix of
  commands: a network keeps its entries until its own first teardown or update, whatever
  is rewritten next to it. `NoLostCommit` is not inductive: from a state in which a
  descriptor not in append mode stands in the middle of a file, the next write destroys an
  entry. The inductive invariant `CommitInv` adds `TypeOK`, `CommitLocked` (nobody else is
  between opening and writing), `AtEnd` (every write goes to the end of the current file)
  and `NoRewrite`.
* `AardvarkProofs!HeaderComesFirst`, `NoFileIsEmpty`: `Spec => []HeaderFirst` and
  `Spec => []NoEmptyFile` under `Serial`. The inductive invariant `FilesInv` says that a teardown or
  an update runs alone (`Alone`), what an invocation that writes has open and where its next
  write goes (`AtWork`), how a file that is being rewritten and the lines still to be written
  make up a well-formed one (`Halves`), and that every other file is one (`Formed`). A rewrite is one
  step per line, so no induction over the lines is needed.
* `AardvarkSerialProofs!ServerIsUpToDate`: `Spec => []ServedWhenQuiet` under `Serial` and
  `Announced`. The heart of `ServedInv`: of every network the server has loaded the file or has a signal
  pending (`Synced`), or an invocation on that network is on its way to a notification (`Due`).
* `AardvarkSerialProofs!FilesAreARegistry`: `Spec => ImplementsRegistry` under `Serial`. A rewrite is many system calls
  and one step of the registry. The mapping puts that step at the truncation: from there on a line counts as
  registered if it is in the file, or in the rewriter's buffer and not one that will be skipped, and the servers are those
  of the header that is in the file or will be (`Registered`, `HeaderDns`). A commit is the write of the entry. So `CommitEntry` is `Register`,
  `Truncate` is `Deregister` or `SetServers`, `Begin` and the last step are `Open` and `Close`, and every other step keeps
  the registry of every network (`Same`). `RegistryInv` adds to `FilesInv` what an invocation knows of its file (`Knows`): what it has read
  is what it truncates, a file opened to append has an entry, one that was made for the entry has the invocation's own
  header. It holds for any `Mentions`, also where the id of a container occurs in another's line.
* `DhcpProxyProofs!ProxyKept`, `LeaseOnRecord`, `NoLeaseLeft`: `Spec => []ProxyInv`,
  `Spec => []LeaseWhileUp` and `Spec => []NoOrphanLease`. `ProxyInv` relates the requests of a
  container to its client: a setup request whose client waits has its lease on record from the moment
  `ip::setup` runs (`SetupOf`), a teardown request begins after the setup request has ended or lost its
  client, and what it takes out of the map stays out (`TeardownOf`). A step about one container
  leaves the others alone, but for a crash and Clean.
* `FirewalldProofs!DriverTypes`, `ReloadedBeforeUse`, `SourcesAreKept`:
  `Spec => []TypeOK`, `Spec => []RunningWhenUsed` and `Spec => SourcesKept`. The inductive invariant
  `DriverInv` says where an invocation stands in its loops (`Placed`), that what it has gone through is in the
  permanent configuration, and in the running one unless it knows that it has to reload
  (`Visited`), and that a setup which began with everything running has no reason to
  reload (`Fresh`). Both configurations only grow, so the steps of others keep it.
* `FirewalldServedProofs!SourcesAreServed`: `Spec => []SourcesServed` under `Apart`. A setup skips the rest of
  a network's subnets when it finds the first one in the zone. `SourcesInv` shows that this is right: a subnet that
  is missing behind one that is there has a setup before it that is on its way to add it (`Chain`), and a setup past
  the first subnet has it in the zone (`First`). It rests on `OrderInv`, on how the commands of
  a container and of a network follow each other (`Ordered`, `Meets`, `Attached`, `Emptied`).
* `FirewalldServedProofs!PortsAreForwarded`: `Spec => []PortsForwarded` under `Fitting`. The tuples of a container that
  is up are in the policy and in every reading of it that is still to be written back (`Kept`); the tuple of a range
  covers its ports, whatever `% PortMod` does on the way (`EndOfRange`, `TupleLeads`).
* `FirewalldServedProofs!DriverCleansUp`: `Spec => []NothingLeft` under `Apart` and `Outside`. For ports, `Gone`: after a
  teardown neither the policy nor a reading of it has a tuple of the container. For sources, `Removed` and
  `Cleared`: what a network without containers has in the zone is what its last teardown has still to remove. For
  the dns rule, `Unruled`: the last teardown has still to write, or nobody has the rule (`Ruleless`). The proof is
  what settled the statement: a teardown that read before another's write can put back what that one had removed, which
  takes two teardowns and a third writer; such teardowns are now `raced`.
* `CommandsProofs!TypesHold`, `TeardownGoesOn`, `NothingIsLeft`: `Spec => []TypeOK`,
  `Spec => []TeardownContinues` and `Spec => []SuccessLeavesNothing`, for any containers,
  networks, plugins and number of failures. The heart of the inductive invariant
  `CommandInv` is `Owned`: whatever is there belongs to a container that is not down or
  whose command runs; and `Torn`: a teardown has undone what it passed without a failure
  and, while it has no error, left a bridge only to other containers.
* `CommandsProofs!RollbackIsComplete`: `Spec => []RollbackOnHostUndoes`. With `CommandInv`, `Rolls` is inductive: a
  rollback has a failure behind it, so while there is no second one all it has passed is undone; and what a setup
  has made is rolled back or still in the list of drivers (`MadeInv`), which is empty at the end.
* `BridgeProofs!BridgeTypes`, `BridgeKept`, `SetupConnects`: `Spec => []TypeOK`,
  `Spec => []RemovedOnlyWhenEmpty` and `Spec => []Connected`. None is inductive. The
  invariant `BridgeInv` adds that an index is given once (`Indices`), so that the bridge a
  teardown deletes is not another network's; that a setup and a teardown running together
  are recorded in `mixed` (`Ordered`); that outside `mixed` the listing of the ports is
  still true when the bridge is deleted (`Emptied`); that an unfinished bridge has a setup
  at work on it (`Made`, `HalfMade`); and what a setup has reached stays until a teardown
  of its container (`Attached`).
* `BridgeProofs!BridgeIsRemoved`: `Spec => []NothingLeft` under `Paired`. `LeftInv` adds to `BridgeInv` that a
  bridge has a port, or an invocation that will list its ports again (`Occupied`), and that the rules go with the bridge
  (`Ruled`).
* `VlanProofs!LeasesHaveLinks`, `TmpLinksGo`, `SetupIsRolledBack`, `OthersAreUntouched`: `Spec => []LeaseHasLink`,
  `Spec => []NoTmpLeft`, `Spec => []RolledBack` and `Spec => OthersUntouched` under `Named`, for any networks, host and number of
  commands, and any failures. The driver acts on links it has read off answers, so the inductive invariant `VlanInv` (theorem `VlanKept`) follows
  the answers through the queues: one that carries the number of the request in progress says what the place of the
  request makes of it (`Answered`, `Tells`), the others are from the past and end in an error; a socket on which nothing failed has no
  more than the answer to its request (`Clean`). On that rest what the driver knows where it stands (`Placed`: the link it
  renames, configures or deletes by name is the command's own, although names are checked by an earlier request), where
  a temporary link may be (`Temporary`), and what rollback has done (`Rolling`). That the rollback passes every network
  the setup has made is `MadeInv`, inductive with `VlanInv`.

Assumptions used: `DataAssumption` and `CmdAssumption` of `Aardvark`, `ProxyAssumption`,
`FirewalldAssumption`, `CommandsAssumption`, `BridgeAssumption` and `VlanAssumption`; TLC evaluates them in
every run of the corresponding MC module. Hypotheses of single theorems, all of them true of the runs that check
the same property:

| hypothesis | says | why |
|---|---|---|
| `Serial` | only setups overlap, nothing fails | teardown and update rewrite a file outside the lock, and an error in the middle leaves it truncated |
| `Announced` | an update sets a list | one that clears it does not notify: run `aardvark_clear` |
| `Paired` | a container that is set up on a network is torn down from it | otherwise the bridge stays, and has to |
| `Apart` | the subnets of all networks are different | podman hands out each subnet once, and the zone is a set of subnets without owners |
| `Fitting` | ports and ranges are 16 bit and end with the last port | beyond it the sum in `make_port_tuple` wraps to a smaller port |
| `Outside` | the host ip of a mapping is no container's address | it is the destination of the tuple, see section 3 |
| `Named` | the networks of a container have interface names of their own, none of them `lo` in use | podman chooses the names; teardown and rollback go by name |

Leaves that name `Zenon` are those that need no arithmetic and on which the SMT solver spends its time in vain.

Only model-checked: the invariants of `Iptables`, whose commands are flattened sequences of
sequences, so that each of them is an induction over data; `WorksWhenUp` and `FailsForAReason` of `Vlan`, which say
what loops over sequences of addresses and routes selected from the configuration add up to; and all liveness properties, since temporal reasoning with fairness and
ENABLED is beyond the installed provers.

## 5. Not modelled

The selection of the firewall driver, the command line, the library for plugin
authors, the conversions and hashes of `core_utils.rs`, and the wording of errors;
`PROJECT.json` gives the reason for each. Within modelled parts: the second IP family
of the iptables driver, which repeats the first; host addresses, port ranges and
protocols of port mappings there; the requests of the bridge driver are atomic, without
the datagrams of `Netlink`; the reuse of process ids; the pipes of a plugin, which
`exec_plugin` reads to the end before it waits; a container id that occurs in another
container's line (a parameter, which the runs do not use and the proofs cover).

## 6. Plan

1. An abstract firewall specification that `Iptables` and `Firewalld` both implement.
2. `Bridge` over `Netlink`, as `Vlan` is.
3. Setups of isolated and non-isolated networks at once: the order of `FORWARD`'s jumps.
4. Proofs: `MasqFirst` and `PortsSurvive` of `Iptables`, with the chains as functions on positions in
   place of sequences that are flattened.
