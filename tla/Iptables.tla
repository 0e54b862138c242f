------------------------------ MODULE Iptables ------------------------------
(***************************************************************************)
(* Bridge networks and their iptables rules: the firewall half of the      *)
(* bridge driver's setup and teardown (src/network/bridge.rs) run with the *)
(* iptables driver (src/firewall/iptables.rs) by several netavark          *)
(* processes at once.  Every iptables command is one step, as the lock of  *)
(* iptables makes it; a check and the change it justifies are two.         *)
(***************************************************************************)
EXTENDS VarkTables, FiniteSets

CONSTANTS Procs,        \* netavark invocations, for one network each
          Containers,
          Cmd,          \* the command of each invocation
          Histories,    \* sets of invocations; one behaviour has those of one set
          Overlaps      \* pairs of invocations that may run at the same time

ASSUME IptablesAssumption ==
    /\ Cmd \in [Procs -> [kind : {"setup", "teardown"}, ctr : Containers, net : Networks]]
    /\ Subnets \in [Networks -> Seq(UNION {ToSet(Subnets[n]) : n \in Networks})]
    /\ Isolated \subseteq Networks /\ Mapped \subseteq Containers
    /\ RedirectDns \in BOOLEAN
    /\ Histories \subseteq SUBSET Procs /\ Overlaps \subseteq SUBSET Procs

VARIABLES chains,    \* chains that exist
          rules,     \* rules of each chain, in order
          trusted,   \* subnets in firewalld's trusted zone
          attached,  \* containers with an interface on each network's bridge
          pc,        \* "idle", "check", "act" or how the invocation ended
          ops,       \* iptables commands still to run
          erred,     \* an error was collected on the way
          overlapped,\* some invocation began while another ran (ghost)
          last       \* the last container detached from each network (ghost)

vars == <<chains, rules, trusted, attached, pc, ops, erred, overlapped, last>>

Ended == {"done", "failed"}

Init ==
    /\ chains = Builtin
    /\ rules = [c \in Chains |-> <<>>]
    /\ trusted = {}
    /\ attached = [n \in Networks |-> {}]
    /\ pc = [p \in Procs |-> "idle"]
    /\ ops = [p \in Procs |-> <<>>]
    /\ erred = [p \in Procs |-> FALSE]
    /\ overlapped = FALSE
    /\ last = [n \in Networks |-> None]

Quiet == \A p \in Procs : pc[p] \in Ended \cup {"idle"}

\* podman runs the commands of one container one after the other, setup first.
\* Commands of different containers may overlap; Histories and Overlaps bound which.
MayBegin(p) ==
    /\ pc[p] = "idle"
    /\ \E h \in Histories : p \in h /\ \A q \in Procs : pc[q] # "idle" => q \in h
    /\ \A q \in Procs : pc[q] \in {"check", "act"} => {p, q} \in Overlaps
    /\ \A q \in Procs : Cmd[q].ctr = Cmd[p].ctr =>
          IF Cmd[q].net = Cmd[p].net /\ Cmd[q].kind = "setup" /\ Cmd[p].kind = "teardown"
          THEN pc[q] \in Ended
          ELSE pc[q] \in Ended \cup {"idle"}
    /\ overlapped' = (overlapped \/ ~Quiet)

-----------------------------------------------------------------------------
\* Bridge::setup: create_interfaces attaches the container, setup_firewall follows.
Setup(p) ==
    LET n == Cmd[p].net
        c == Cmd[p].ctr
    IN /\ MayBegin(p)
       /\ Cmd[p].kind = "setup"
       /\ attached' = [attached EXCEPT ![n] = @ \cup {c}]
       /\ ops' = [ops EXCEPT ![p] = SetupNetwork(n) \o SetupPortForward(n, c)]
       /\ pc' = [pc EXCEPT ![p] = "check"]
       /\ UNCHANGED <<chains, rules, trusted, erred, last>>

\* Bridge::teardown: remove_link tells whether the container was the last one;
\* its error is collected and counts as "not the last".  teardown_firewall follows.
Teardown(p) ==
    LET n == Cmd[p].net
        c == Cmd[p].ctr
        complete == c \in attached[n] /\ attached[n] \ {c} = {}
    IN /\ MayBegin(p)
       /\ Cmd[p].kind = "teardown"
       /\ attached' = [attached EXCEPT ![n] = @ \ {c}]
       /\ last' = [last EXCEPT ![n] = IF c \in attached[n] THEN c ELSE @]
       /\ erred' = [erred EXCEPT ![p] = c \notin attached[n]]
       /\ ops' = [ops EXCEPT ![p] = (IF complete THEN TeardownNetwork(n) ELSE <<>>) \o
                                    TeardownPortForward(n, c, complete)]
       /\ pc' = [pc EXCEPT ![p] = "check"]
       /\ UNCHANGED <<chains, rules, trusted>>

-----------------------------------------------------------------------------
Now(p) == Head(ops[p])

\* Mutant: a rule is added without looking for it.
NeededUnchecked(p) ==
    LET o == Now(p) IN
    CASE o.op = "add_chain"    -> o.chain \notin chains
      [] o.op = "remove_rule"  -> Contains(rules[o.chain], o.rule)
      [] o.op = "remove_chain" -> o.chain \notin chains \/ rules[o.chain] = <<>>
      [] OTHER                 -> TRUE

\* iptables -C, list_chains and list: what the command finds to do.  Listing a
\* chain that is gone is an error, which the act reports.
Needed(p) ==
    LET o == Now(p) IN
    CASE o.op = "add_chain"    -> o.chain \notin chains
      [] o.op = "add_rule"     -> ~Contains(rules[o.chain], o.rule)
      [] o.op = "remove_rule"  -> Contains(rules[o.chain], o.rule)
      [] o.op = "remove_chain" -> o.chain \notin chains \/ rules[o.chain] = <<>>
      [] OTHER                 -> TRUE

Check(p) ==
    /\ pc[p] = "check"
    /\ ops[p] # <<>>
    /\ IF Needed(p)
       THEN pc' = [pc EXCEPT ![p] = "act"] /\ UNCHANGED ops
       ELSE ops' = [ops EXCEPT ![p] = Tail(@)] /\ UNCHANGED pc
    /\ UNCHANGED <<chains, rules, trusted, attached, erred, overlapped, last>>

Referenced(chain) == \E c \in Chains : \E r \in ToSet(rules[c]) : r.jump = chain

\* iptables refuses a second chain of a name, a rule for a missing chain or
\* target, a position beyond the end, and to delete what is gone or in use.
Possible(o) ==
    CASE o.op = "add_chain"    -> o.chain \notin chains
      [] o.op = "add_rule"     -> /\ o.chain \in chains
                                  /\ o.rule.jump \in Chains => o.rule.jump \in chains
                                  /\ o.position <= Len(rules[o.chain]) + 1
      [] o.op = "remove_rule"  -> Contains(rules[o.chain], o.rule)
      [] o.op = "remove_chain" -> o.chain \in chains /\ rules[o.chain] = <<>> /\ ~Referenced(o.chain)
      [] OTHER                 -> TRUE

Run(o) ==
    /\ chains' = CASE o.op = "add_chain" -> chains \cup {o.chain}
                   [] o.op = "remove_chain" -> chains \ {o.chain}
                   [] OTHER -> chains
    /\ rules' = CASE o.op = "add_rule" ->
                       [rules EXCEPT ![o.chain] = IF o.position = 0 THEN Append(@, o.rule)
                                                  ELSE InsertAt(@, o.position, o.rule)]
                  [] o.op = "remove_rule" -> [rules EXCEPT ![o.chain] = RemoveFirst(@, o.rule)]
                  [] OTHER -> rules
    /\ trusted' = CASE o.op = "trust" -> trusted \cup {o.chain}
                    [] o.op = "untrust" -> trusted \ {o.chain}
                    [] OTHER -> trusted

\* The command itself; its error ends the invocation.
Act(p) ==
    /\ pc[p] = "act"
    /\ IF Possible(Now(p))
       THEN /\ Run(Now(p))
            /\ ops' = [ops EXCEPT ![p] = Tail(@)]
            /\ pc' = [pc EXCEPT ![p] = "check"]
       ELSE /\ ops' = [ops EXCEPT ![p] = <<>>]
            /\ pc' = [pc EXCEPT ![p] = "failed"]
            /\ UNCHANGED <<chains, rules, trusted>>
    /\ UNCHANGED <<attached, erred, overlapped, last>>

End(p) ==
    /\ pc[p] = "check"
    /\ ops[p] = <<>>
    /\ pc' = [pc EXCEPT ![p] = IF erred[p] THEN "failed" ELSE "done"]
    /\ UNCHANGED <<chains, rules, trusted, attached, ops, erred, overlapped, last>>

Next == \E p \in Procs : Setup(p) \/ Teardown(p) \/ Check(p) \/ Act(p) \/ End(p)

Spec == Init /\ [][Next]_vars

-----------------------------------------------------------------------------
\* Properties.

\* No invocation runs, and none has overlapped another.
Serial == Quiet /\ ~overlapped

Has(chain, rule) == chain \in chains /\ Contains(rules[chain], rule)

\* Setup of p succeeded and nobody has begun to tear its container down.
Served(p) ==
    /\ Cmd[p].kind = "setup" /\ pc[p] = "done"
    /\ \A q \in Procs : Cmd[q].kind = "teardown" /\ Cmd[q].ctr = Cmd[p].ctr /\ Cmd[q].net = Cmd[p].net
                        => pc[q] = "idle"

\* A published port reaches its container from the moment setup succeeds until
\* the container's own teardown, whatever other invocations run meanwhile:
\* nobody else's teardown removes its rules or a chain on the way to them.
PortsSurvive ==
    \A p \in Procs : Served(p) /\ Cmd[p].ctr \in Mapped =>
        /\ Has(Prerouting, Rule(HostportDnat, "local", None))
        /\ Has(HostportDnat, Rule(Dn(Cmd[p].net), "port of", Cmd[p].ctr))
        /\ Has(Dn(Cmd[p].net), Rule(Dnat, "port of", Cmd[p].ctr))

\* While a network has a container that is set up, its traffic is forwarded
\* and masqueraded for every one of its subnets: the teardown of another
\* container or network never takes the network's rules with it.
NetworkServed ==
    Serial => \A p \in Procs : Served(p) =>
        LET n == Cmd[p].net IN \A s \in ToSet(Subnets[n]) :
            /\ Has(Postrouting, Rule(Hash(n), "from", s))
            /\ Has(Hash(n), Rule(Masquerade, "not multicast", None))
            /\ Has(Forward, Rule(NetavarkForward, "any", None))
            /\ Has(NetavarkForward, Rule(Accept, "from", s))
            /\ Has(NetavarkForward, Rule(Accept, "established to", s))
            /\ s \in trusted

\* Every container of a network, every subnet and every network issues the shared
\* rules again, and a teardown deletes one copy: as long as commands do not overlap
\* no chain holds a rule twice, so that one deletion is enough.
RulesOnce == Serial => \A c \in chains : IsInjective(rules[c])

RulesOf(n) ==
    {r \in UNION {ToSet(rules[c]) : c \in Chains} :
        r.jump \in {Hash(n), Dn(n)} \/ r.of \in {n} \cup ToSet(Subnets[n])}

\* When the last container of a network is torn down no rule about the network
\* is left, its hash chain is gone, and so is its port chain unless the container
\* that was the last to go published no port: then the chain stays, empty.
NothingLeft ==
    Serial => \A n \in Networks : attached[n] = {} =>
        /\ RulesOf(n) = {}
        /\ Hash(n) \notin chains
        /\ rules[Dn(n)] = <<>>
        /\ Dn(n) \in chains => last[n] \in Containers \ Mapped
        /\ ToSet(Subnets[n]) \cap trusted = {}

\* Commands that run one after the other report no error of iptables: no rule
\* is added before its chain and its target, no chain is removed while it has
\* rules or references, and no rule is removed twice.
CommandsSucceed == ~overlapped => \A p \in Procs : pc[p] = "failed" => erred[p]

\* The comment "This rule must be in the first position": the jump to
\* NETAVARK-HOSTPORT-MASQ comes before every rule of a network.
MasqFirst ==
    Contains(rules[Postrouting], Rule(HostportMasq, "any", None))
        => rules[Postrouting][1] = Rule(HostportMasq, "any", None)

\* A packet from network m to network n is dropped by the isolation chains
\* before the forwarding chain can accept it.
Dropped(m, n) ==
    \E i \in DOMAIN rules[Forward] :
        /\ rules[Forward][i].jump = Isolation1
        /\ \A j \in 1 .. (i - 1) : rules[Forward][j].jump # NetavarkForward
        /\ Has(Isolation1, Rule(Isolation2, "leaving", m))
        /\ Has(Isolation2, Rule(Drop, "entering", n))

BothServed(m, n) ==
    /\ m # n
    /\ \A k \in {m, n} : k \in Isolated /\ \E p \in Procs : Served(p) /\ Cmd[p].net = k

\* Two isolated networks in use cannot reach each other, as long as nobody has
\* taken FORWARD's jump to the isolation chains away: setups in any order put
\* the jump before the rules that accept.
IsolatedWhileJump ==
    Serial => \A m, n \in Networks : BothServed(m, n) /\ Has(Forward, Rule(Isolation1, "any", None))
        => Dropped(m, n)

\* Two isolated networks in use cannot reach each other.
IsolationHolds == Serial => \A m, n \in Networks : BothServed(m, n) => Dropped(m, n)
=============================================================================
