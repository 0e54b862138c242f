-------------------------------- MODULE Vlan --------------------------------
(***************************************************************************)
(* The macvlan and ipvlan driver (src/network/vlan.rs) under the setup and *)
(* teardown commands of one container, request by request on the two       *)
(* netlink sockets a command opens: one in the host's network namespace,   *)
(* one in the container's.  All networks of a command, and the rollback of *)
(* a failed setup, use the same two sockets.  Commands run one after the   *)
(* other in one namespace; the networks come in any order.                 *)
(***************************************************************************)
EXTENDS Netlink

CONSTANTS Networks,
          Conf,        \* per network: ifname, parent ("": that of the default route), ipam,
                       \* subnets (family, has a gateway), number of static ips, internal
          Requests,    \* the sets of networks a command may be for
          HostLinks,   \* names of the interfaces on the host, by index
          HostRoutes,  \* the host's routes: has a destination, output interface (0: none)
          Taken,       \* networks whose interface name may be taken in the container
          TmpNames,    \* "mv-" and ten random characters
          MaxCmds,     \* commands in one behaviour
          MaxFaults    \* failures in one behaviour

ASSUME VlanAssumption ==
    /\ Requests \subseteq (SUBSET Networks) \ {{}} /\ Taken \subseteq Networks
    /\ "lo" \notin TmpNames /\ \A n \in Networks : Conf[n].ifname \notin TmpNames
    /\ DOMAIN HostRoutes = 1 .. Len(HostRoutes) /\ Len(HostRoutes) \in Nat
    /\ MaxCmds \in Nat /\ MaxFaults \in Nat

VARIABLES links,   \* the container's links by index, with the command that made each
          next,    \* the next index there
          routes,  \* default routes there, each with its link
          leases,  \* links the DHCP proxy holds a lease for
          hostset, \* names on the host whose autoconf was changed
          sock, call,                            \* the sockets; the request in progress
          ns,                                    \* namespace of the thread
          cmd, kind, pc, net, todo, did, rolled, \* the command's loops
          made,                                  \* networks the command has set up
          try, name, dev, rest,                  \* locals of the driver
          erred, status, failedAt,               \* failedAt: the place and the network
          faults, hitAt,                         \* failures; where those of this command were
          unread                                 \* sockets on which one left an answer unread

kernelVars == <<links, next, routes>>
loopVars == <<cmd, kind, todo, did, rolled, made, status>>
localVars == <<net, try, name, dev, rest>>
vars == <<kernelVars, leases, hostset, sock, call, ns, loopVars, localVars, pc, erred, failedAt, faults, hitAt, unread>>

AnyNet == CHOOSE n \in Networks : TRUE
NoFailure == <<"none", AnyNet>>
NoCall == [sock |-> "none", flags |-> {}, want |-> 0, acc |-> <<>>]
Sockets == {"host", "netns"}
Names == {links[d].name : d \in DOMAIN links}
HostNames == {HostLinks[d] : d \in DOMAIN HostLinks}
Called(x) == {d \in DOMAIN links : links[d].name = x}

Link(x, parent) == [name |-> x, parent |-> parent, addrs |-> {}, up |-> FALSE, autoconf |-> TRUE, by |-> cmd]

\* The namespace before the first command: loopback, and perhaps a link that has
\* the name of a network's interface.
Namespaces ==
    LET old(x) == [name |-> x, parent |-> 0, addrs |-> {}, up |-> FALSE, autoconf |-> TRUE, by |-> 0]
    IN {<<old("lo")>>} \cup {<<old("lo"), old(Conf[n].ifname)>> : n \in Taken}

Init ==
    /\ links \in Namespaces
    /\ next = 3
    /\ routes = {} /\ leases = {} /\ hostset = {}
    /\ sock = [s \in Sockets |-> NewSocket]
    /\ call = NoCall
    /\ ns = "host"
    /\ cmd = 0 /\ kind = "none" /\ pc = "idle"
    /\ net = AnyNet
    /\ todo = {} /\ did = <<>> /\ rolled = {} /\ made = {}
    /\ try = 0 /\ name = "" /\ dev = 0 /\ rest = <<>>
    /\ erred = FALSE /\ status = "down" /\ failedAt = NoFailure
    /\ faults = 0 /\ hitAt = {} /\ unread = {}

-----------------------------------------------------------------------------
\* core_utils.rs

\* get_ipam_addresses of network n.  An address is its network and subnet; an
\* index past the static ips panics, which ends the process.
Ipam(n) ==
    LET c == Conf[n]
        subnets == DOMAIN c.subnets
        gateways == SelectSeq([j \in subnets |-> j], LAMBDA j : c.subnets[j].gw)
        local == c.ipam = "host-local"
        enough == Len(c.subnets) <= c.static
    IN [ok |-> c.ipam \in {"none", "dhcp"} \/ (local /\ c.static > 0 /\ enough),
        panics |-> local /\ c.static > 0 /\ ~enough,
        addrs |-> IF local THEN [j \in subnets |-> <<n, j>>] ELSE <<>>,
        gws |-> IF local /\ ~c.internal THEN gateways ELSE <<>>,
        dhcp |-> c.ipam = "dhcp"]

Family(n, j) == Conf[n].subnets[j].fam

\* Mutant: one default route in all.
DefaultRoutesOne(n) == LET gws == Ipam(n).gws IN SubSeq(gws, 1, IF gws = <<>> THEN 0 ELSE 1)

\* add_default_routes: the first gateway of each family.
DefaultRoutes(n) ==
    LET gws == Ipam(n).gws
        first(j) == \A m \in 1 .. j - 1 : Family(n, gws[m]) # Family(n, gws[j])
        picked == SelectSeq([j \in DOMAIN gws |-> j], first)
    IN [j \in DOMAIN picked |-> gws[picked[j]]]

-----------------------------------------------------------------------------
\* Control.

Goto(l) == pc' = l
NoHit == UNCHANGED <<faults, hitAt>>
Hit == faults < MaxFaults /\ faults' = faults + 1 /\ hitAt' = hitAt \cup {pc}
IfName == Conf[net].ifname

\* The process ends and its sockets with it.
Return(s) ==
    /\ Goto("idle")
    /\ status' = s
    /\ sock' = [q \in Sockets |-> NewSocket]
    /\ net' = AnyNet /\ name' = "" /\ dev' = 0 /\ rest' = <<>>

\* open_netlink_sockets, one in each namespace; an error ends the command.
Begin(k, req) ==
    /\ pc = "idle" /\ cmd < MaxCmds
    /\ cmd' = cmd + 1 /\ kind' = k
    /\ sock' = [s \in Sockets |-> NewSocket]
    /\ ns' = "host" /\ did' = <<>> /\ rolled' = {} /\ made' = {} /\ erred' = FALSE /\ failedAt' = NoFailure
    /\ \/ /\ Goto(IF k = "setup" THEN "lo" ELSE "networks")
          /\ todo' = req /\ status' = "running"
          /\ hitAt' = {} /\ UNCHANGED faults
       \/ /\ faults < MaxFaults /\ faults' = faults + 1 /\ hitAt' = {"open"}
          /\ todo' = {} /\ status' = "failed"
          /\ UNCHANGED pc
    /\ try' = 0 /\ unread' = {}
    /\ UNCHANGED <<kernelVars, leases, hostset, call, net, name, dev, rest>>

\* Commands keep the kernel's state apart from what they say below.
Still == UNCHANGED <<kernelVars, leases, hostset, call, ns, cmd, kind, try, unread>>

\* All drivers are validated before the first is set up.
Validate ==
    /\ pc = "validate"
    /\ IF \A n \in todo : Ipam(n).ok
       THEN Goto("next") /\ UNCHANGED <<sock, status, net, name, dev, rest, failedAt>>
       ELSE \E n \in todo :
              /\ ~Ipam(n).ok
              /\ Return(IF Ipam(n).panics THEN "panicked" ELSE "failed")
              /\ failedAt' = <<pc, n>>
    /\ Still /\ NoHit
    /\ UNCHANGED <<todo, did, rolled, made, erred>>

\* The next driver of a setup, or the end.
NextNetwork ==
    /\ pc = "next"
    /\ IF todo = {}
       THEN Return("up") /\ UNCHANGED todo
       ELSE \E n \in todo :
              /\ net' = n /\ todo' = todo \ {n}
              /\ name' = Conf[n].parent
              /\ Goto(IF Conf[n].parent = "" THEN "dump_routes" ELSE "get_primary")
              /\ UNCHANGED <<sock, status, dev, rest>>
    /\ Still /\ NoHit
    /\ UNCHANGED <<did, rolled, made, erred, failedAt>>

SetupFails(at) == failedAt' = <<at, net>> /\ Goto("rollback")

\* Mutant: a lease is released whatever the ipam driver.
EnterTeardownReleases(n) == net' = n /\ Goto("get_mac") /\ UNCHANGED <<sock, status, name, dev, rest, erred>>

\* Vlan::teardown up to its first request.
EnterTeardown(n) ==
    IF Ipam(n).panics THEN Return("panicked") /\ UNCHANGED erred
    ELSE /\ net' = n
         /\ IF Ipam(n).ok
            THEN Goto(IF Ipam(n).dhcp THEN "get_mac" ELSE "del_link") /\ UNCHANGED erred
            ELSE erred' = TRUE /\ UNCHANGED pc
         /\ UNCHANGED <<sock, status, name, dev, rest>>

\* Drivers before the failing one are torn down in order, errors logged.
Rollback ==
    /\ pc = "rollback"
    /\ IF did = <<>>
       THEN Return("failed") /\ UNCHANGED <<did, rolled, erred>>
       ELSE /\ did' = Tail(did) /\ rolled' = rolled \cup {Head(did)}
            /\ EnterTeardown(Head(did))
    /\ Still /\ NoHit
    /\ UNCHANGED <<todo, made, failedAt>>

\* teardown goes through all networks and collects the errors.
TeardownNetworks ==
    /\ pc = "networks"
    /\ IF todo = {}
       THEN Return(IF erred THEN "teardown_failed" ELSE "down") /\ UNCHANGED <<todo, erred>>
       ELSE \E n \in todo :
              /\ todo' = todo \ {n}
              /\ EnterTeardown(n)
    /\ Still /\ NoHit
    /\ UNCHANGED <<did, rolled, made, failedAt>>

TornDown == Goto(IF kind = "setup" THEN "rollback" ELSE "networks")
TeardownFails == erred' = TRUE /\ TornDown

-----------------------------------------------------------------------------
\* Requests: the kernel executes them as they are sent.

Request(s, flags, want, code, data) ==
    /\ sock' = [sock EXCEPT ![s] = Sent(@, Answers(flags, code, data))]
    /\ call' = [sock |-> s, flags |-> flags, want |-> want, acc |-> <<>>]

\* A request at the place at, which leaves the rest of the state alone.
AtPlace(at) == pc = at /\ call = NoCall
Asking == UNCHANGED <<leases, hostset, ns, loopVars, net, try, dev, rest, pc, erred, failedAt, faults, hitAt, unread>>

DumpRoutes ==
    /\ AtPlace("dump_routes")
    /\ Request("host", DumpFlags, 0, "ok", [j \in DOMAIN HostRoutes |-> j])
    /\ Asking /\ UNCHANGED <<kernelVars, name>>

\* get_link by index and by name, on the host and in the container.
GetLink(s, found) == Request(s, GetFlags, 1, IF found = {} THEN "ENODEV" ELSE "ok",
                             IF found = {} THEN <<>> ELSE <<CHOOSE d \in found : TRUE>>)

GetHostLink ==
    /\ \/ AtPlace("get_oif") /\ GetLink("host", {dev} \cap DOMAIN HostLinks)
       \/ AtPlace("get_primary") /\ GetLink("host", {d \in DOMAIN HostLinks : HostLinks[d] = name})
    /\ Asking /\ UNCHANGED <<kernelVars, name>>

GetContainerLink ==
    /\ \/ AtPlace("get_tmp") /\ GetLink("netns", Called(name))
       \/ (AtPlace("get_dev") \/ AtPlace("get_mac")) /\ GetLink("netns", Called(IfName))
    /\ Asking /\ UNCHANGED <<kernelVars, name>>

\* create_link makes the link on the host and moves it: its name is free in both.
CreateLink ==
    \E x \in IF pc = "create" THEN {IfName} ELSE TmpNames :
        LET free == x \notin HostNames \cup Names
        IN /\ AtPlace("create") \/ AtPlace("create_tmp")
           /\ Request("host", NewFlags, 0, IF free THEN "ok" ELSE "EEXIST", <<>>)
           /\ name' = x
           /\ links' = IF free THEN [d \in DOMAIN links \cup {next} |-> IF d = next THEN Link(x, dev) ELSE links[d]] ELSE links
           /\ next' = IF free THEN next + 1 ELSE next
           /\ Asking /\ UNCHANGED routes

\* Requests on link d: an answer, and what becomes of the link if there is one.
OnLink(at, flags, d, code, new) ==
    /\ AtPlace(at)
    /\ Request("netns", flags, 0, IF d \notin DOMAIN links THEN "ENODEV" ELSE code, <<>>)
    /\ links' = IF d \in DOMAIN links /\ code = "ok" THEN [links EXCEPT ![d] = new] ELSE links
    /\ Asking /\ UNCHANGED <<next, routes, name>>

SetLinkName == OnLink("rename", SetFlags, dev, IF IfName \in Names THEN "EEXIST" ELSE "ok",
                      [links[dev] EXCEPT !.name = IfName])

AddAddr == OnLink("addr", NewFlags, dev, "ok", [links[dev] EXCEPT !.addrs = @ \cup {Head(rest)}])

SetUp == OnLink("up", NewFlags, dev, "ok", [links[dev] EXCEPT !.up = TRUE])

\* "it should be safe to assume that 1 is the loopback index"
SetUpLo == OnLink("lo", NewFlags, 1, "ok", [links[1] EXCEPT !.up = TRUE])

\* A gateway is reached through a link that is up and has an address of its subnet.
AddRoute ==
    LET gw == <<net, Head(rest)>>
        via == {d \in DOMAIN links : links[d].up /\ gw \in links[d].addrs}
        code == IF via = {} THEN "ENETUNREACH"
                ELSE IF \E r \in routes : r.gw = gw THEN "EEXIST" ELSE "ok"
    IN /\ AtPlace("route")
       /\ Request("netns", RouteFlags, 0, code, <<>>)
       /\ routes' = IF code = "ok" THEN routes \cup {[gw |-> gw, link |-> Min(via)]} ELSE routes
       /\ Asking /\ UNCHANGED <<links, next, name>>

\* Deleting a link takes its routes along.
DelLink(found) ==
    /\ Request("netns", SetFlags, 0, IF found = {} THEN "ENODEV" ELSE "ok", <<>>)
    /\ links' = [d \in DOMAIN links \ found |-> links[d]]
    /\ routes' = {r \in routes : r.link \notin found}
    /\ Asking /\ UNCHANGED <<next, name>>

\* Mutant: the link is deleted by the name it was to get.
DelTmpByName == AtPlace("del_tmp") /\ DelLink(Called(IfName))

\* del_link of the temporary link, by index.
DelTmp == AtPlace("del_tmp") /\ DelLink({dev} \cap DOMAIN links)

DelByName == AtPlace("del_link") /\ DelLink(Called(IfName))

HostPlaces == {"dump_routes", "get_oif", "get_primary", "create", "create_tmp"}
NetnsPlaces == {"lo", "get_tmp", "rename", "del_tmp", "get_dev", "addr", "up", "route", "get_mac", "del_link"}

\* The kernel refuses a request for a reason of its own.
Refuse ==
    /\ pc \in HostPlaces \cup NetnsPlaces /\ call = NoCall
    /\ Request(IF pc \in HostPlaces THEN "host" ELSE "netns", SetFlags, 0, "refused", <<>>)
    /\ Hit
    /\ UNCHANGED <<kernelVars, leases, hostset, ns, loopVars, localVars, pc, erred, failedAt, unread>>

-----------------------------------------------------------------------------
\* What the driver does with a result o.

Then(o, l) == IF o.code = "ok" THEN Goto(l) /\ UNCHANGED failedAt ELSE SetupFails(pc)
ThenLink(o, l) == Then(o, l) /\ dev' = IF o.code = "ok" THEN o.data[1] ELSE dev

\* A loop with a request at place here for each element of seq.
ThenLoop(o, seq, here, after) ==
    /\ Then(o, IF seq = <<>> THEN after ELSE here)
    /\ rest' = IF o.code = "ok" THEN seq ELSE rest

\* get_default_route_interface: the first route with no destination and an
\* output interface.
AfterDump(o) ==
    LET default(j) == ~HostRoutes[j].dest /\ HostRoutes[j].oif > 0
        found == SelectSeq(o.data, default)
    IN IF o.code = "ok" /\ found # <<>>
       THEN dev' = HostRoutes[Head(found)].oif /\ Goto("get_oif") /\ UNCHANGED failedAt
       ELSE SetupFails(pc) /\ UNCHANGED dev

\* The loop over i: a name that is taken is replaced by a temporary one, three times.
AfterCreate(o) ==
    IF o.code = "ok" THEN Goto(IF pc = "create" THEN "join" ELSE "get_tmp") /\ UNCHANGED <<try, failedAt>>
    ELSE IF o.code = "EEXIST" /\ try < 3 THEN Goto("create_tmp") /\ try' = try + 1 /\ UNCHANGED failedAt
    ELSE SetupFails(pc) /\ UNCHANGED try

\* Mutant: the temporary link is not deleted.
AfterRenameReturns(o) == Then(o, "join")

AfterRename(o) == Goto(IF o.code = "ok" THEN "join" ELSE "del_tmp") /\ UNCHANGED failedAt

LastPlace == IF Ipam(net).dhcp THEN "lease" ELSE "configured"

\* What setup and teardown do with the result o of a request.
SetupHandles(o) ==
    /\ \/ pc = "lo" /\ Then(o, "validate") /\ UNCHANGED <<try, name, dev, rest>>
       \/ pc = "dump_routes" /\ AfterDump(o) /\ UNCHANGED <<try, name, rest>>
       \/ /\ pc = "get_oif" /\ Then(o, "get_primary")
          /\ name' = IF o.code = "ok" THEN HostLinks[o.data[1]] ELSE name
          /\ UNCHANGED <<try, dev, rest>>
       \/ pc = "get_primary" /\ ThenLink(o, "create") /\ try' = 0 /\ UNCHANGED <<name, rest>>
       \/ pc \in {"create", "create_tmp"} /\ AfterCreate(o) /\ UNCHANGED <<name, dev, rest>>
       \/ pc = "get_tmp" /\ ThenLink(o, "rename") /\ UNCHANGED <<try, name, rest>>
       \/ pc = "rename" /\ AfterRename(o) /\ UNCHANGED <<try, name, dev, rest>>
       \/ pc = "del_tmp" /\ SetupFails("rename") /\ UNCHANGED <<try, name, dev, rest>>
       \/ /\ pc = "get_dev" /\ ThenLoop(o, Ipam(net).addrs, "addr", "up")
          /\ dev' = IF o.code = "ok" THEN o.data[1] ELSE dev
          /\ UNCHANGED <<try, name>>
       \/ pc = "addr" /\ ThenLoop(o, Tail(rest), "addr", "up") /\ UNCHANGED <<try, name, dev>>
       \/ pc = "up" /\ ThenLoop(o, DefaultRoutes(net), "route", LastPlace) /\ UNCHANGED <<try, name, dev>>
       \/ pc = "route" /\ ThenLoop(o, Tail(rest), "route", LastPlace) /\ UNCHANGED <<try, name, dev>>
    /\ UNCHANGED erred

TeardownHandles(o) ==
    /\ pc \in {"get_mac", "del_link"}
    /\ IF o.code # "ok" THEN TeardownFails ELSE UNCHANGED erred /\ IF pc = "get_mac" THEN Goto("release") ELSE TornDown
    /\ dev' = IF o.code = "ok" /\ pc = "get_mac" THEN o.data[1] ELSE dev
    /\ UNCHANGED <<try, name, rest, failedAt>>

Handle(o) ==
    /\ SetupHandles(o) \/ TeardownHandles(o)
    /\ call' = NoCall
    /\ UNCHANGED net

\* recv reads one datagram.
Recv ==
    LET s == sock[call.sock]
        o == Expect(Scan(s, Head(s.queue), "DUMP" \in call.flags, call.acc), call.flags, call.want)
    IN /\ call # NoCall
       /\ s.queue # <<>>
       /\ sock' = [sock EXCEPT ![call.sock].queue = Tail(@)]
       /\ IF o.end THEN Handle(o)
          ELSE call' = [call EXCEPT !.acc = o.data] /\ UNCHANGED <<localVars, pc, erred, failedAt>>
       /\ UNCHANGED <<kernelVars, leases, hostset, ns, loopVars, faults, hitAt, unread>>

\* recv fails: the datagram is not read, or it is and makes no sense.
RecvFails ==
    /\ call # NoCall
    /\ sock[call.sock].queue # <<>>
    /\ Hit
    /\ sock' \in {sock, [sock EXCEPT ![call.sock].queue = Tail(@)]}
    /\ unread' = IF sock'[call.sock].queue = <<>> THEN unread ELSE unread \cup {call.sock}
    /\ Handle(Err("io"))
    /\ UNCHANGED <<kernelVars, leases, hostset, ns, loopVars>>

-----------------------------------------------------------------------------
\* Steps that are not netlink requests.

\* exec_netns: join the container's namespace, set the sysctl, join back.
JoinNetns ==
    /\ pc = "join"
    /\ \/ NoHit /\ ns' = "netns" /\ Goto("sysctl") /\ UNCHANGED failedAt
       \/ Hit /\ SetupFails(pc) /\ UNCHANGED ns
    /\ UNCHANGED <<kernelVars, leases, hostset, sock, call, loopVars, localVars, erred, unread>>

\* disable_ipv6_autoconf of the interface that has the name in the thread's
\* namespace; no such sysctl or a read-only one is no error.
DisableIpv6Autoconf ==
    /\ pc = "sysctl"
    /\ Goto("join_back")
    /\ \/ /\ NoHit
          /\ links' = IF ns = "host" THEN links
                      ELSE [d \in DOMAIN links |->
                              IF d \in Called(IfName) THEN [links[d] EXCEPT !.autoconf = FALSE] ELSE links[d]]
          /\ hostset' = IF ns = "host" THEN hostset \cup {IfName} ELSE hostset
          /\ UNCHANGED erred
       \/ NoHit /\ UNCHANGED <<links, hostset, erred>>
       \/ Hit /\ erred' = TRUE /\ UNCHANGED <<links, hostset>>
    /\ UNCHANGED <<next, routes, leases, sock, call, ns, loopVars, localVars, failedAt, unread>>

\* The error of the sysctl is looked at back in the host's namespace.
JoinBack ==
    /\ pc = "join_back"
    /\ \/ /\ NoHit /\ ns' = "host"
          /\ IF erred THEN SetupFails("sysctl") ELSE Goto("get_dev") /\ UNCHANGED failedAt
       \/ Hit /\ SetupFails(pc) /\ UNCHANGED ns
    /\ UNCHANGED <<kernelVars, leases, hostset, sock, call, loopVars, localVars, erred, unread>>

\* get_dhcp_lease for the link's address.  The proxy is given the parent that was
\* configured and refuses the empty name.  The proxy may have the lease although
\* the call fails; a lease without a gateway is a panic at gateways[0].
GetDhcpLease ==
    LET refused == Conf[net].parent = "" IN
    /\ pc = "lease"
    /\ \/ /\ ~refused /\ NoHit /\ leases' = leases \cup {dev}
          /\ \/ Goto("configured") /\ UNCHANGED <<sock, status, localVars, failedAt>>
             \/ Return("panicked") /\ failedAt' = <<pc, net>> /\ UNCHANGED try
       \/ /\ \/ refused /\ NoHit /\ UNCHANGED leases
             \/ ~refused /\ Hit /\ leases' \in {leases, leases \cup {dev}}
          /\ SetupFails(pc)
          /\ UNCHANGED <<sock, status, localVars>>
    /\ UNCHANGED <<kernelVars, hostset, call, ns, cmd, kind, todo, did, rolled, made, erred, unread>>

\* setup returns the status block of the network.
Configured ==
    /\ pc = "configured"
    /\ did' = Append(did, net) /\ made' = made \cup {net}
    /\ Goto("next")
    /\ NoHit
    /\ UNCHANGED <<kernelVars, leases, hostset, sock, call, ns, cmd, kind, todo, rolled, status, localVars, erred, failedAt, unread>>

\* release_dhcp_lease for the link's address, which the proxy may not know.
ReleaseDhcpLease ==
    /\ pc = "release"
    /\ \/ dev \in leases /\ NoHit /\ leases' = leases \ {dev} /\ Goto("del_link") /\ UNCHANGED erred
       \/ dev \notin leases /\ NoHit /\ TeardownFails /\ UNCHANGED leases
       \/ Hit /\ leases' \in {leases, leases \ {dev}} /\ TeardownFails
    /\ UNCHANGED <<kernelVars, hostset, sock, call, ns, loopVars, localVars, failedAt, unread>>

Requesting ==
    \/ SetUpLo \/ DumpRoutes \/ GetHostLink \/ GetContainerLink \/ CreateLink \/ SetLinkName
    \/ AddAddr \/ SetUp \/ AddRoute \/ DelTmp \/ DelByName \/ Refuse

Step ==
    \/ Validate \/ NextNetwork \/ Rollback \/ TeardownNetworks
    \/ Requesting \/ Recv \/ RecvFails
    \/ JoinNetns \/ DisableIpv6Autoconf \/ JoinBack \/ GetDhcpLease \/ Configured \/ ReleaseDhcpLease

Next == (\E k \in {"setup", "teardown"}, req \in Requests : Begin(k, req)) \/ Step

\* A process runs on and the kernel answers it.
Spec == Init /\ [][Next]_vars /\ WF_vars(Step)

-----------------------------------------------------------------------------
\* Properties.

\* What a user of network n is promised of link d: it is on the interface asked
\* for, or on that of the default route, is up, has all addresses, the default
\* route through the first gateway of each family, and a lease.
Works(n, d) ==
    LET c == Conf[n]
        default == {j \in DOMAIN HostRoutes : ~HostRoutes[j].dest /\ HostRoutes[j].oif # 0}
        gateways == {j \in DOMAIN c.subnets : c.ipam = "host-local" /\ ~c.internal /\ c.subnets[j].gw}
    IN /\ IF c.parent = "" THEN links[d].parent = HostRoutes[Min(default)].oif
                           ELSE HostLinks[links[d].parent] = c.parent
       /\ links[d].up
       /\ links[d].addrs = {<<n, j>> : j \in {i \in DOMAIN c.subnets : c.ipam = "host-local"}}
       /\ {r.gw : r \in {q \in routes : q.link = d}} =
             {<<n, j>> : j \in {i \in gateways : \A m \in gateways : m < i => Family(n, m) # Family(n, i)}}
       /\ c.ipam = "dhcp" => d \in leases

\* A setup that reports success leaves every network's interface under its own
\* name and working, also where the name was taken on the host and a temporary
\* one was used.
WorksWhenUp ==
    pc = "idle" /\ status = "up" => \A j \in DOMAIN did :
        \E d \in Called(Conf[did[j]].ifname) : links[d].by = cmd /\ Works(did[j], d)

\* A temporary link outlives its command only if making it, looking it up or
\* deleting it failed; a failed rename, whose answer may even be unread when the
\* link is deleted, leaves none.
NoTmpLeft ==
    pc = "idle" => \A d \in DOMAIN links : links[d].name \in TmpNames /\ links[d].by = cmd =>
        hitAt \cap {"create_tmp", "get_tmp", "del_tmp"} # {}

\* A setup, its rollback included, changes no link it did not make and no
\* interface of the host, although renaming, sysctl and rollback go by name.
OthersUntouched ==
    [][kind = "setup" /\ pc # "idle" =>
        /\ hostset' = hostset
        /\ \A d \in DOMAIN links \ {1} : links[d].by # cmd => d \in DOMAIN links' /\ links'[d] = links[d]]_vars

\* A lease is released before its link goes and the link is the one it was given
\* to, also when an earlier request left its answer on the socket.
LeaseHasLink == leases \subseteq DOMAIN links

\* A setup that returns an error has torn down every network it had set up, one
\* after the other whatever the teardowns returned.  If nothing fails in the rollback
\* itself they are undone, over the sockets the failure happened on.  The exception
\* is a network with a lease when the failure left an answer unread: its get_link
\* is then out of sync and teardown returns.
RolledBack ==
    pc = "idle" /\ status = "failed" =>
        /\ made \subseteq rolled
        /\ hitAt \cap {"get_mac", "release", "del_link"} = {} => \A n \in made :
             \/ Ipam(n).dhcp /\ "netns" \in unread
             \/ \A d \in Called(Conf[n].ifname) : links[d].by # cmd

\* A setup in which nothing fails ends without success only for a network that is
\* not valid, a name taken in the container, three temporary names taken, or a
\* lease that the proxy refuses for want of a parent or that has no gateway.
FailsForAReason ==
    LET n == failedAt[2] IN
    pc = "idle" /\ kind = "setup" /\ status # "up" /\ hitAt = {} =>
        \/ failedAt[1] = "validate" /\ ~Ipam(n).ok
        \/ failedAt[1] = "rename" /\ \E d \in Called(Conf[n].ifname) : links[d].by # cmd
        \/ failedAt[1] = "create_tmp" /\ try = 3
        \/ failedAt[1] = "lease" /\ Ipam(n).dhcp /\ (Conf[n].parent = "" <=> status = "failed")

\* Every command ends: each request is answered, and the loops are bounded.
CommandsEnd == pc # "idle" ~> pc = "idle"
=============================================================================
