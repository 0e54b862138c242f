----------------------------- MODULE VarkTables -----------------------------
(***************************************************************************)
(* The chains and rules of the iptables driver                             *)
(* (src/firewall/varktables/types.rs) for one IP family, and the sequences *)
(* of iptables commands that src/firewall/iptables.rs runs on them.        *)
(*                                                                         *)
(* A chain name is a pair of a kind and a network.  A rule is its jump     *)
(* target and what it matches: a kind of match and the subnet, network or  *)
(* container it is about.  The text of rules is left out, and a container  *)
(* publishes at most one port on a network.                                *)
(***************************************************************************)
EXTENDS Naturals, SequencesExt

CONSTANTS Networks,     \* network names, with hash chains of their own
          Subnets,      \* subnets of each network, in order
          Isolated,     \* networks with the isolate option
          Mapped,       \* containers with port mappings
          RedirectDns,  \* the dns port is not 53
          None

Shared(k) == <<k, None>>
Hash(n) == <<"NETAVARK-HASH", n>>
Dn(n) == <<"NETAVARK-DN-HASH", n>>

Postrouting == Shared("POSTROUTING")
Forward == Shared("FORWARD")
Prerouting == Shared("PREROUTING")
Output == Shared("OUTPUT")
NetavarkForward == Shared("NETAVARK_FORWARD")
Isolation1 == Shared("NETAVARK_ISOLATION_1")
Isolation2 == Shared("NETAVARK_ISOLATION_2")
HostportDnat == Shared("NETAVARK-HOSTPORT-DNAT")
HostportSetmark == Shared("NETAVARK-HOSTPORT-SETMARK")
HostportMasq == Shared("NETAVARK-HOSTPORT-MASQ")

Builtin == {Postrouting, Forward, Prerouting, Output}

\* Chains netavark creates on demand and never removes.
Permanent == {NetavarkForward, Isolation1, Isolation2, HostportDnat, HostportSetmark, HostportMasq}

Chains == Builtin \cup Permanent \cup {Hash(n) : n \in Networks} \cup {Dn(n) : n \in Networks}

\* Targets that are no chains.
Accept == Shared("ACCEPT")
Drop == Shared("DROP")
Masquerade == Shared("MASQUERADE")
Dnat == Shared("DNAT")
Mark == Shared("MARK")

Rule(jump, match, of) == [jump |-> jump, match |-> match, of |-> of]

\* VarkRule: policy "always" is None in the code, the rule goes with its
\* container; position 0 is None, the rule is appended.
VarkRule(rule, policy, position) == [rule |-> rule, policy |-> policy, position |-> position]

VarkChain(name, create, policy, rules) ==
    [name |-> name, create |-> create, policy |-> policy, rules |-> rules]

-----------------------------------------------------------------------------
ForwardRules(n) ==
    LET isolation == VarkRule(Rule(Isolation1, "any", None), "complete", 1)
        forward(i) == VarkRule(Rule(NetavarkForward, "any", None), "never", i)
    IN IF n \in Isolated THEN <<isolation, forward(2)>> ELSE <<forward(1)>>

\* get_network_chains for subnet s of network n
GetNetworkChains(n, s) ==
    LET onComplete(r) == VarkRule(r, "complete", 0)
        first(r) == VarkRule(r, "complete", 1)
    IN <<VarkChain(Hash(n), TRUE, "complete",
             <<onComplete(Rule(Accept, "to", s)), onComplete(Rule(Masquerade, "not multicast", None))>>),
         VarkChain(Postrouting, FALSE, "none", <<onComplete(Rule(Hash(n), "from", s))>>)>>
       \o (IF n \notin Isolated THEN <<>> ELSE
       <<VarkChain(Isolation1, TRUE, "none", <<first(Rule(Isolation2, "leaving", n))>>),
         VarkChain(Isolation2, TRUE, "none", <<first(Rule(Drop, "entering", n))>>)>>)
       \o
       <<VarkChain(Forward, FALSE, "none", ForwardRules(n)),
         VarkChain(NetavarkForward, TRUE, "none",
             <<onComplete(Rule(Accept, "established to", s)), onComplete(Rule(Accept, "from", s))>>)>>

\* The rules of a container's port: "to" in the network's own chain, and the
\* jump there.
PortRules(n, c) ==
    LET own(r) == VarkRule(r, "always", 0)
        ports(rules) == IF c \in Mapped THEN rules ELSE <<>>
    IN [to |-> ports(<<own(Rule(HostportSetmark, "subnet to port of", c)),
                       own(Rule(HostportSetmark, "localhost to port of", c)),
                       own(Rule(Dnat, "port of", c))>>),
        jump |-> ports(<<own(Rule(Dn(n), "port of", c))>>)]

\* get_port_forwarding_chains for container c on network n
GetPortForwardingChains(n, c) ==
    LET never(r) == VarkRule(r, "never", 0)
        dns == IF RedirectDns THEN <<VarkRule(Rule(Dnat, "dns of", n), "complete", 0)>> ELSE <<>>
    IN <<VarkChain(HostportSetmark, TRUE, "none", <<never(Rule(Mark, "any", None))>>),
         VarkChain(HostportMasq, TRUE, "none", <<never(Rule(Masquerade, "mark", None))>>),
         VarkChain(Postrouting, FALSE, "none", <<VarkRule(Rule(HostportMasq, "any", None), "never", 1)>>),
         VarkChain(Dn(n), c \in Mapped, "complete", PortRules(n, c).to),
         VarkChain(HostportDnat, TRUE, "none", dns \o PortRules(n, c).jump),
         VarkChain(Prerouting, FALSE, "none", <<never(Rule(HostportDnat, "local", None))>>),
         VarkChain(Output, FALSE, "none", <<never(Rule(HostportDnat, "local", None))>>)>>

-----------------------------------------------------------------------------
\* The iptables commands, each a check followed by an act when it is needed.
Op(op, chain, rule, position) == [op |-> op, chain |-> chain, rule |-> rule, position |-> position]

NoRule == Rule(None, "none", None)

Each(f(_), seq) == FlattenSeq([i \in DOMAIN seq |-> f(seq[i])])

\* Mutant: the position of a rule is ignored.
CreateNetworkChainsAppending(chains) ==
    Each(LAMBDA c : IF c.create THEN <<Op("add_chain", c.name, NoRule, 0)>> ELSE <<>>, chains) \o
    Each(LAMBDA c : [i \in DOMAIN c.rules |-> Op("add_rule", c.name, c.rules[i].rule, 0)], chains)

\* create_network_chains and add_rules: all chains first, since rules refer to them.
CreateNetworkChains(chains) ==
    Each(LAMBDA c : IF c.create THEN <<Op("add_chain", c.name, NoRule, 0)>> ELSE <<>>, chains) \o
    Each(LAMBDA c : [i \in DOMAIN c.rules |-> Op("add_rule", c.name, c.rules[i].rule, c.rules[i].position)],
         chains)

\* Mutant: the teardown policy of a rule is ignored.
RemoveRulesAll(chain, complete) ==
    Each(LAMBDA r : <<Op("remove_rule", chain.name, r.rule, 0)>>, chain.rules)

\* remove_rules: rules without a policy always go, the others with the last container.
RemoveRules(chain, complete) ==
    LET goes(r) == r.policy = "always" \/ (r.policy = "complete" /\ complete)
    IN Each(LAMBDA r : IF goes(r) THEN <<Op("remove_rule", chain.name, r.rule, 0)>> ELSE <<>>, chain.rules)

\* Mutant: each chain is removed right after its rules.
RemoveChainsInOneLoop(chains, complete, created) ==
    Each(LAMBDA c : RemoveRules(c, complete) \o
                    IF complete /\ c.policy = "complete" /\ (created => c.create)
                    THEN <<Op("remove_chain", c.name, NoRule, 0)>> ELSE <<>>, chains)

\* The two loops of both teardown functions: all rules, then the chains; for
\* port forwarding only chains this container would create.
RemoveChains(chains, complete, created) ==
    Each(LAMBDA c : RemoveRules(c, complete), chains) \o
    Each(LAMBDA c : IF complete /\ c.policy = "complete" /\ (created => c.create)
                    THEN <<Op("remove_chain", c.name, NoRule, 0)>> ELSE <<>>, chains)

\* Mutant: the loop over the subnets returns from its first turn.
SetupNetworkFirst(n) ==
    CreateNetworkChains(GetNetworkChains(n, Head(Subnets[n]))) \o <<Op("trust", Head(Subnets[n]), NoRule, 0)>>

SetupNetwork(n) ==
    Each(LAMBDA s : CreateNetworkChains(GetNetworkChains(n, s)) \o <<Op("trust", s, NoRule, 0)>>, Subnets[n])

TeardownNetwork(n) ==
    Each(LAMBDA s : RemoveChains(GetNetworkChains(n, s), TRUE, FALSE) \o
                    <<Op("untrust", s, NoRule, 0)>>, Subnets[n])

SetupPortForward(n, c) == CreateNetworkChains(GetPortForwardingChains(n, c))

\* Mutant: the chain of the ports is kept.
TeardownPortForwardKeeping(n, c, complete) ==
    Each(LAMBDA chain : RemoveRules(chain, complete), GetPortForwardingChains(n, c))

TeardownPortForward(n, c, complete) ==
    RemoveChains(GetPortForwardingChains(n, c), complete, TRUE)
=============================================================================
