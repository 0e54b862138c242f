----------------------- MODULE FirewalldServedProofs ------------------------
(***************************************************************************)
(* What the firewalld driver leaves in the zone and in the port policy,    *)
(* for any number of invocations: the sources of a network, the forwarded  *)
(* ports of a container, and nothing once they are gone.                   *)
(***************************************************************************)
EXTENDS FirewalldProofs

\* Time enough for the provers on a busy machine, and a second try.
USE SMTT(30), ZenonT(30), Z3T(30)

\* The subnets of a network are different, and no two networks share one.
Apart ==
    \A n, m \in Networks : \A i \in 1 .. Len(Subnets[n]), j \in 1 .. Len(Subnets[m]) :
        Subnets[n][i] = Subnets[m][j] => n = m /\ i = j

\* A range of host ports ends with the last port at the latest.
Fitting ==
    /\ PortMod \in Nat \ {0}
    /\ \A c \in Containers : \A m \in Mappings[c] :
         /\ m.host_port \in 0 .. PortMod - 1 /\ m.container_port \in Nat /\ m.range \in Nat
         /\ m.host_port + m.range <= PortMod

\* The host ip of a mapping is no address of a container.
Outside ==
    \A c, d \in Containers, n \in Networks : \A m \in Mappings[c] :
        m.host_ip # None => m.host_ip \notin Addresses(d, n)

-----------------------------------------------------------------------------
\* The sources.

NoneFailed(n) == \A q \in Procs : Net(q) = n => pc[q] # "failed"
TornDown(n) == \A q \in Procs : IsTeardown(q) /\ Net(q) = n => pc[q] # "failed"
Adding(r) == pc[r] \in {"get_zone", "change_zone"}
Has(n, i) == Subnets[n][i] \in sources

\* A subnet that is missing after one that is there is on somebody's way.
Chain(n) ==
    \A i, j \in 1 .. Len(Subnets[n]) : i < j /\ Has(n, i) /\ ~Has(n, j) =>
        \E r \in Procs : Net(r) = n /\ Adding(r) /\ i < at[r] /\ at[r] <= j

\* Past the first subnet.
First(p) ==
    /\ Up(p) /\ p \notin stale /\ Subnets[Net(p)] # <<>>
    /\ pc[p] \in {"get_settings", "set_settings", "done"} \/ (Adding(p) /\ at[p] > 1)
    => Has(Net(p), 1)

\* What teardown_network has taken out stays out.
Removed(p) ==
    pc[p] = "remove_source" => \A i \in 1 .. Len(Subnets[Net(p)]) : i < at[p] => ~Has(Net(p), i)

Cleared(n) ==
    attached[n] = {} =>
        (\E p \in Procs : Net(p) = n /\ pc[p] = "remove_source") \/ SubnetsOf(n) \cap sources = {}

SourcesInv ==
    \A n \in Networks \ mixed :
        /\ NoneFailed(n) => Chain(n) /\ \A p \in Procs : Net(p) = n => First(p)
        /\ \A p \in Procs : Net(p) = n => Removed(p)
        /\ TornDown(n) => Cleared(n)

-----------------------------------------------------------------------------
\* The port policy.

Writing(q) == pc[q] = "set_settings"

\* The tuples that lead to p's container.
Own(p) == {t \in PortTuples(Ctr(p), Net(p)) : t.addr \in Addresses(Ctr(p), Net(p))}

\* They are in the policy and in what everybody has read of it.
Kept(p) ==
    Served(p) /\ p \notin raced => Own(p) \subseteq ports /\ \A q \in Procs : Writing(q) => Own(p) \subseteq snap[q].ports

Without(p, ts) == \A t \in ts : t.addr \notin Addresses(Ctr(p), Net(p))

\* And they are in neither after the teardown; one that has read no port at all
\* writes none, and nobody brings one back.
Gone(p) ==
    IsTeardown(p) /\ p \notin raced =>
        /\ pc[p] = "done" => Without(p, ports) /\ \A q \in Procs : Writing(q) => Without(p, snap[q].ports)
        /\ Writing(p) /\ snap[p].ports = {} => Without(p, ports)

KeptInv == \A p \in Procs : Kept(p)
GoneInv == \A p \in Procs : Gone(p)

\* No teardown of the network failed or was overtaken.
Undisturbed(n) == \A p \in Procs : IsTeardown(p) /\ Net(p) = n => pc[p] # "failed" /\ p \notin raced

\* Its rule is in neither.
Ruleless(n) == n \notin rich /\ \A q \in Procs : Writing(q) => n \notin snap[q].rich

\* The last teardown is still to remove it.
Removes(p, n) ==
    /\ Net(p) = n /\ complete[p]
    /\ \/ pc[p] \in {"remove_source", "get_settings"}
       \/ Writing(p) /\ (snap[p].rich = {} => n \notin rich)

Unruled(n) ==
    n \notin mixed /\ attached[n] = {} /\ Undisturbed(n) => Ruleless(n) \/ \E p \in Procs : Removes(p, n)

\* No rules without a dns port to redirect to.
Plain == RedirectDns \/ (rich = {} /\ \A q \in Procs : snap[q].rich = {})

RuleInv == Plain /\ \A n \in Networks : Unruled(n)

-----------------------------------------------------------------------------
\* The subnet at which p stands is no other subnet of its network, and none of
\* another network: p changes only that one.
LEMMA HasMoves ==
    ASSUME Apart, DriverInv, NEW p \in Procs, Acts(p), NEW n \in Networks, NEW i \in 1 .. Len(Subnets[n])
    PROVE  /\ Has(n, i)' => Has(n, i) \/ (Net(p) = n /\ pc[p] = "change_zone" /\ at[p] = i)
           /\ Has(n, i) /\ ~Has(n, i)' =>
                \/ Net(p) = n /\ pc[p] = "remove_source" /\ at[p] = i
                \/ sources' = {} /\ pc[p] = "reload" /\ \A q \in Procs \ {p} : pc[q] # "idle" => q \in stale'
<1>1. Moves(p) /\ Placed(p) /\ Net(p) \in Networks
  BY SourceMoves, SubnetFacts DEF DriverInv, ProcInv
<1>2. PICK s : s = Subnets[n][i]
  OBVIOUS
<1>3. (Has(n, i) <=> s \in sources) /\ (Has(n, i)' <=> s \in sources')
  BY <1>2 DEF Has
<1>4. pc[p] \in {"change_zone", "remove_source"} /\ s = Subnet(p) => Net(p) = n /\ at[p] = i
  <2> SUFFICES ASSUME pc[p] \in {"change_zone", "remove_source"}, s = Subnet(p) PROVE Net(p) = n /\ at[p] = i
    OBVIOUS
  <2>1. PICK a \in 1 .. Len(Subnets[Net(p)]) : a = at[p]
    BY <1>1 DEF Placed
  <2>2. Subnets[Net(p)][a] = Subnets[n][i]
    BY Zenon, ZenonT(60), <1>2, <2>1 DEF Subnet
  <2>3. Net(p) = n /\ a = i
    BY <1>1, <2>2 DEF Apart
  <2> QED
    BY <2>1, <2>3
<1> QED
  BY <1>1, <1>3, <1>4 DEF Moves

\* A gap in the sources of a network stays on somebody's way: who adds a subnet
\* goes on to the next, and who finds one in the zone leaves the rest to the one
\* that is ahead.
LEMMA ChainStep ==
    ASSUME Apart, DriverInv, OrderInv, SourcesInv, NEW p \in Procs, Acts(p), NEW n \in Networks \ mixed', NoneFailed(n)'
    PROVE  Chain(n)'
<1>0. /\ Others(p) /\ mixed \subseteq mixed' /\ pc[p] \notin Ended
      /\ at \in [Procs -> Nat \ {0}] /\ Len(Subnets[Net(p)]) \in Nat /\ Placed(p) /\ Goes(p)
  BY ActFacts, SourceMoves, SubnetFacts DEF DriverInv, TypeOK, ProcInv
<1>1. NoneFailed(n)
  <2>1. \A q \in Procs : Net(q) = n => pc'[q] # "failed"
    BY DEF NoneFailed, Net
  <2>2. \A q \in Procs : pc[q] = "failed" => pc'[q] = "failed"
    BY <1>0 DEF Others, Ended
  <2> QED
    BY <2>1, <2>2 DEF NoneFailed
<1>2. Chain(n) /\ (Net(p) = n => Removed(p))
  BY <1>0, <1>1 DEF SourcesInv
<1>3. Net(p) = n => pc'[p] # "failed"
  BY DEF NoneFailed, Net
<1> SUFFICES ASSUME NEW i \in 1 .. Len(Subnets[n]), NEW j \in 1 .. Len(Subnets[n]), i < j, Has(n, i)', ~Has(n, j)'
             PROVE  \E r \in Procs : Net(r) = n /\ Adding(r)' /\ i < at'[r] /\ at'[r] <= j
  BY DEF Chain, Net, Has
<1>i. i \in Nat /\ j \in Nat
  OBVIOUS
<1>4. sources' # {}
  BY DEF Has
<1>5. ASSUME NEW k \in 1 .. Len(Subnets[n]), k < j, Has(n, k), ~Has(n, j), ~(Net(p) = n /\ Adding(p))
      PROVE  \E r \in Procs : Net(r) = n /\ Adding(r)' /\ k < at'[r] /\ at'[r] <= j
  <2>1. PICK r \in Procs : Net(r) = n /\ Adding(r) /\ k < at[r] /\ at[r] <= j
    BY <1>2, <1>5 DEF Chain
  <2>2. r # p
    BY <1>5, <2>1
  <2>3. pc'[r] = pc[r] /\ at'[r] = at[r]
    BY <1>0, <2>2 DEF Others
  <2>4. Adding(r)' /\ k < at'[r] /\ at'[r] <= j
    BY <2>1, <2>3 DEF Adding
  <2> QED
    BY <2>1, <2>4
<1>6. CASE ~(Net(p) = n /\ Adding(p))
  <2>1. Has(n, i)
    BY <1>6, HasMoves DEF Adding
  <2>2. ~Has(n, j)
    <3> SUFFICES ASSUME Has(n, j) PROVE FALSE
      OBVIOUS
    <3>1. Net(p) = n /\ pc[p] = "remove_source" /\ at[p] = j
      BY <1>4, HasMoves
    <3>2. ~Has(n, i)
      BY <1>2, <3>1 DEF Removed
    <3> QED
      BY <2>1, <3>2
  <2> QED
    BY <1>5, <1>6, <2>1, <2>2
<1>7. CASE Net(p) = n /\ Adding(p)
  <2>0. PICK a \in 1 .. Len(Subnets[n]) : a = at[p]
    BY <1>0, <1>7 DEF Placed, Adding
  <2>1. PICK s : s = Subnets[n][a]
    OBVIOUS
  <2>2. Subnet(p) = s /\ pc[p] \in {"get_zone", "change_zone"} /\ pc'[p] # "failed"
    BY <1>3, <1>7, <2>0, <2>1 DEF Subnet, Adding
  <2>3. ~Has(n, j)
    BY <1>4, <2>2, HasMoves
  <2>4. CASE Has(n, i)
    <3>1. PICK r \in Procs : Net(r) = n /\ Adding(r) /\ i < at[r] /\ at[r] <= j
      BY <1>2, <2>3, <2>4 DEF Chain
    <3>2. CASE r # p
      <4>1. pc'[r] = pc[r] /\ at'[r] = at[r]
        BY <1>0, <3>2 DEF Others
      <4>2. Adding(r)' /\ i < at'[r] /\ at'[r] <= j
        BY <3>1, <4>1 DEF Adding
      <4> QED
        BY <3>1, <4>2
    <3>3. CASE r = p
      <4>0. i < a /\ a <= j
        BY <2>0, <3>1, <3>3
      <4>1. CASE pc'[p] = "change_zone" /\ at'[p] = at[p]
        <5>1. Adding(p)' /\ i < at'[p] /\ at'[p] <= j
          BY <2>0, <4>0, <4>1 DEF Adding
        <5> QED
          BY <1>7, <5>1
      <4>2. CASE pc[p] = "get_zone" /\ Subnet(p) \in sources
        <5>1. Has(n, a)
          BY <2>1, <2>2, <4>2 DEF Has
        <5>2. a # j /\ a < j
          BY <1>i, <2>3, <4>0, <5>1
        <5>3. PICK q \in Procs : Net(q) = n /\ Adding(q) /\ a < at[q] /\ at[q] <= j
          BY <1>2, <2>3, <5>1, <5>2 DEF Chain
        <5>4. at[q] \in Nat /\ at[q] # at[p]
          BY <1>0, <2>0, <5>3
        <5>5. q # p
          BY <5>4
        <5>6. pc'[q] = pc[q] /\ at'[q] = at[q]
          BY <1>0, <5>5 DEF Others
        <5>7. i < at[q]
          BY <1>i, <4>0, <5>3, <5>4
        <5>8. Adding(q)' /\ i < at'[q] /\ at'[q] <= j
          BY <5>3, <5>6, <5>7 DEF Adding
        <5> QED
          BY <5>3, <5>8
      <4>3. CASE pc[p] = "change_zone" /\ sources' = sources \cup {Subnet(p)}
        <5>1. Has(n, a)'
          BY <2>1, <2>2, <4>3 DEF Has
        <5>2. a # j /\ a < j
          BY <1>i, <4>0, <5>1
        <5>3. at[p] # Len(Subnets[Net(p)])
          BY <1>0, <1>7, <2>0, <5>2
        <5>4. pc'[p] = "get_zone" /\ at'[p] = a + 1
          BY <1>0, <2>0, <2>2, <4>3, <5>3, Zenon, ZenonT(60) DEF Goes
        <5>5. i < a + 1 /\ a + 1 <= j
          BY <1>i, <4>0, <5>2
        <5>6. Adding(p)' /\ i < at'[p] /\ at'[p] <= j
          BY <5>4, <5>5 DEF Adding
        <5> QED
          BY <1>7, <5>6
      <4> QED
        BY <1>0, <2>2, <4>1, <4>2, <4>3, Zenon, ZenonT(60) DEF Goes
    <3> QED
      BY <3>2, <3>3
  <2>5. CASE ~Has(n, i)
    <3>1. pc[p] = "change_zone" /\ at[p] = i /\ a = i
      BY <2>0, <2>5, HasMoves
    <3>2. at[p] # Len(Subnets[Net(p)])
      BY <1>0, <1>7, <3>1
    <3>3. pc'[p] = "get_zone" /\ at'[p] = at[p] + 1
      <4>1. sources' # sources
        BY <2>5 DEF Has
      <4> QED
        BY <1>0, <3>1, <3>2, <4>1, Zenon, ZenonT(60) DEF Goes
    <3>4. i < i + 1 /\ i + 1 <= j
      BY <1>i
    <3>5. Adding(p)' /\ i < at'[p] /\ at'[p] <= j
      BY <3>1, <3>3, <3>4 DEF Adding
    <3> QED
      BY <1>7, <3>5
  <2> QED
    BY <2>4, <2>5
<1> QED
  BY <1>6, <1>7

\* The first subnet of a network stays in the zone while a container is up:
\* teardown_network is for the last one, and a reload is known.
LEMMA FirstStep ==
    ASSUME Apart, DriverInv, OrderInv, SourcesInv, NEW p \in Procs, Acts(p), NEW q \in Procs,
           Net(q) \notin mixed', NoneFailed(Net(q))'
    PROVE  First(q)'
<1>0. /\ Others(p) /\ mixed \subseteq mixed' /\ stale \subseteq stale' /\ pc[p] \notin Ended
      /\ Net(q) \in Networks /\ Placed(p) /\ Goes(p) /\ at \in [Procs -> Nat \ {0}]
  BY ActFacts, SourceMoves, SubnetFacts, Zenon, ZenonT(60) DEF DriverInv, ProcInv, TypeOK
<1>1. NoneFailed(Net(q))
  <2>1. \A r \in Procs : Net(r) = Net(q) => pc'[r] # "failed"
    BY DEF NoneFailed, Net
  <2>2. \A r \in Procs : pc[r] = "failed" => pc'[r] = "failed"
    BY <1>0 DEF Others, Ended
  <2> QED
    BY <2>1, <2>2 DEF NoneFailed
<1>2. First(q)
  BY <1>0, <1>1 DEF SourcesInv
<1> SUFFICES ASSUME Up(q)', q \notin stale', Subnets[Net(q)] # <<>>,
                    pc'[q] \in {"get_settings", "set_settings", "done"} \/ (Adding(q)' /\ at'[q] > 1)
             PROVE  Has(Net(q), 1)'
  BY DEF First, Net, Has
<1>3. 1 \in 1 .. Len(Subnets[Net(q)]) /\ q \notin stale
  BY <1>0, SubnetFacts
<1>4. IsSetup(q)
  BY DEF Up, IsSetup
<1>5. CASE q # p
  <2>1. Up(q) /\ pc'[q] = pc[q] /\ at'[q] = at[q]
    BY <1>0, <1>5, UpBefore DEF Others
  <2>2. Has(Net(q), 1) /\ pc[q] # "idle"
    BY <1>2, <1>3, <2>1, ZenonT(60), ZenonT(90) DEF First, Adding, Up
  <2>3. ~(sources' = {} /\ pc[p] = "reload" /\ \A r \in Procs \ {p} : pc[r] # "idle" => r \in stale')
    BY <1>5, <2>2
  <2>4. ~(Net(p) = Net(q) /\ pc[p] = "remove_source")
    <3> SUFFICES ASSUME Net(p) = Net(q), pc[p] = "remove_source" PROVE FALSE
      OBVIOUS
    <3>1. complete[p] /\ Running(p)
      BY <1>0 DEF Placed, Running, Ended
    <3>2. attached[Net(q)] = {}
      BY <1>0, <3>1 DEF OrderInv, Emptied
    <3>3. Ctr(q) \in attached[Net(q)]
      BY <2>1 DEF OrderInv, Attached
    <3> QED
      BY <3>2, <3>3
  <2> QED
    BY <1>0, <1>3, <2>2, <2>3, <2>4, HasMoves
<1>6. CASE q = p
  <2>1. CASE pc[p] \in {"get_zone", "change_zone", "get_settings", "set_settings"}
    <3>1. Up(p)
      BY <1>6, <2>1, UpBefore
    <3>2. CASE Has(Net(p), 1)
      BY <1>0, <1>3, <1>6, <2>1, <3>2, HasMoves, ZenonT(60), ZenonT(90)
    <3>3. CASE ~Has(Net(p), 1)
      <4>1. Adding(p) /\ ~(at[p] > 1)
        BY <1>2, <1>3, <1>6, <2>1, <3>1, <3>3 DEF First, Adding
      <4>2. at[p] = 1
        <5>1. at[p] \in Nat \ {0}
          BY <1>0
        <5> QED
          BY <4>1, <5>1
      <4>3. pc'[p] # "failed"
        BY <1>6 DEF Adding
      <4>4. Subnet(p) = Subnets[Net(p)][1] /\ ~(at'[p] = at[p] /\ at'[p] > 1)
        BY <4>1, <4>2 DEF Subnet
      <4>5. Subnet(p) \in sources'
        <5>1. CASE pc[p] = "get_zone"
          <6>1. pc'[p] # "change_zone" \/ at'[p] # at[p]
            BY <1>6, <4>4
          <6> QED
            BY <1>0, <4>3, <5>1, <6>1, ZenonT(60), ZenonT(90) DEF Goes
        <5>2. CASE pc[p] = "change_zone"
          BY <1>0, <4>3, <5>2, Zenon, ZenonT(60) DEF Goes
        <5> QED
          BY <4>1, <5>1, <5>2 DEF Adding
      <4> QED
        BY <1>6, <4>4, <4>5 DEF Has, Net
    <3> QED
      BY <1>6, <3>2, <3>3
  <2>2. CASE pc[p] \notin {"get_zone", "change_zone", "get_settings", "set_settings"}
    <3>1. pc[p] # "remove_source"
      BY <1>0, <1>4, <1>6, Zenon, ZenonT(60) DEF Placed, IsSetup
    <3>2. ~(Adding(p)' /\ at'[p] > 1)
      <4>1. Adding(p)' => at'[p] = 1
        BY <1>0, <2>2, <3>1, Zenon, ZenonT(60) DEF Goes, Adding
      <4> QED
        BY <4>1
    <3>3. pc'[p] \notin {"get_settings", "set_settings", "done"}
      BY <1>0, <1>4, <1>6, <2>2, <3>1, Zenon, ZenonT(60) DEF Goes
    <3> QED
      BY <1>6, <3>2, <3>3
  <2> QED
    BY <2>1, <2>2
<1> QED
  BY <1>5, <1>6

\* What teardown_network has taken out comes back with a setup only, and then
\* the two have met.
LEMMA RemovedStep ==
    ASSUME Apart, DriverInv, OrderInv, SourcesInv, NEW p \in Procs, Acts(p), NEW q \in Procs, Net(q) \notin mixed'
    PROVE  Removed(q)'
<1>0. /\ Others(p) /\ mixed \subseteq mixed' /\ Net(q) \in Networks /\ Goes(p) /\ Placed(p) /\ Placed(q)
      /\ at \in [Procs -> Nat \ {0}]
  BY ActFacts, SourceMoves, SubnetFacts, Zenon, ZenonT(60) DEF DriverInv, ProcInv, TypeOK
<1>1. Removed(q)
  BY <1>0 DEF SourcesInv
<1> SUFFICES ASSUME pc'[q] = "remove_source", NEW i \in 1 .. Len(Subnets[Net(q)]), i < at'[q]
             PROVE  ~Has(Net(q), i)'
  BY DEF Removed, Net, Has
<1>2. CASE q # p
  <2>1. pc[q] = "remove_source" /\ at'[q] = at[q]
    BY <1>0, <1>2 DEF Others
  <2>2. ~Has(Net(q), i)
    BY <1>1, <2>1 DEF Removed
  <2>3. ~(Net(p) = Net(q) /\ pc[p] = "change_zone")
    <3> SUFFICES ASSUME Net(p) = Net(q), pc[p] = "change_zone" PROVE FALSE
      OBVIOUS
    <3>1. IsSetup(p) /\ Running(p) /\ IsTeardown(q) /\ Running(q)
      BY <1>0, <2>1, ZenonT(60), ZenonT(90) DEF Placed, IsSetup, IsTeardown, Running, Ended
    <3>2. Net(q) \in mixed
      BY <3>1, ZenonT(60), ZenonT(90) DEF OrderInv, Meets
    <3> QED
      BY <1>0, <3>2
  <2> QED
    BY Zenon, ZenonT(60), <1>0, <2>2, <2>3, HasMoves
<1>3. CASE q = p /\ pc[p] = "remove_source"
  <2>1. sources' = sources \ {Subnet(p)} /\ at'[p] = at[p] + 1
    BY <1>0, <1>3, ZenonT(60), ZenonT(90) DEF Goes
  <2>2. i < at[p] \/ i = at[p]
    BY <1>0, <1>3, <2>1
  <2>3. CASE i < at[p]
    BY <1>1, <1>3, <2>1, <2>3, ZenonT(60), ZenonT(90) DEF Removed, Has, Net
  <2>4. CASE i = at[p]
    BY <1>3, <2>1, <2>4, ZenonT(60), ZenonT(90) DEF Subnet, Has, Net
  <2> QED
    BY <2>2, <2>3, <2>4
<1>4. CASE q = p /\ pc[p] # "remove_source"
  <2>1. at'[q] = 1
    BY <1>0, <1>4, Zenon, ZenonT(60) DEF Goes
  <2>2. ~(i < 1)
    OBVIOUS
  <2> QED
    BY <2>1, <2>2, Zenon, ZenonT(60)
<1> QED
  BY <1>2, <1>3, <1>4

\* What a network without containers has in the zone is what its last teardown
\* has still to take out.
LEMMA ClearedStep ==
    ASSUME Apart, DriverInv, OrderInv, SourcesInv, NEW p \in Procs, Acts(p), NEW n \in Networks \ mixed', TornDown(n)'
    PROVE  Cleared(n)'
<1>0. /\ Others(p) /\ mixed \subseteq mixed' /\ pc[p] \notin Ended /\ Goes(p) /\ Placed(p)
      /\ at \in [Procs -> Nat \ {0}] /\ Net(p) \in Networks /\ attached \in [Networks -> SUBSET Containers]
  BY Zenon, ZenonT(60), ActFacts, SourceMoves, SubnetFacts DEF DriverInv, ProcInv, TypeOK
<1>1. \A q \in Procs : IsTeardown(q) /\ Net(q) = n => pc'[q] # "failed"
  BY DEF TornDown, IsTeardown, Net
<1>2. TornDown(n)
  <2>1. \A q \in Procs : pc[q] = "failed" => pc'[q] = "failed"
    BY <1>0, Zenon, ZenonT(60) DEF Others, Ended
  <2> QED
    BY <1>1, <2>1 DEF TornDown
<1>3. Cleared(n)
  BY <1>0, <1>2 DEF SourcesInv
<1>n. Subnets[n] \in Seq(UNION {Range(Subnets[m]) : m \in Networks})
  BY FirewalldAssumption
<1>4. ASSUME NEW S, \A i \in 1 .. Len(Subnets[n]) : Subnets[n][i] \notin S PROVE SubnetsOf(n) \cap S = {}
  <2>1. DOMAIN Subnets[n] = 1 .. Len(Subnets[n])
    BY <1>n
  <2> QED
    BY <1>4, <2>1 DEF SubnetsOf, Range
<1>5. ASSUME NEW S, SubnetsOf(n) \cap S = {} PROVE \A i \in 1 .. Len(Subnets[n]) : Subnets[n][i] \notin S
  <2>1. DOMAIN Subnets[n] = 1 .. Len(Subnets[n])
    BY <1>n
  <2> QED
    BY <1>5, <2>1, Zenon, ZenonT(60) DEF SubnetsOf, Range
<1> SUFFICES ASSUME attached'[n] = {}
             PROVE  (\E q \in Procs : Net(q) = n /\ pc'[q] = "remove_source") \/ SubnetsOf(n) \cap sources' = {}
  BY DEF Cleared, Net, SubnetsOf
<1>6. CASE attached[n] = {}
  <2>1. CASE SubnetsOf(n) \cap sources = {}
    <3>1. ~(Net(p) = n /\ pc[p] = "change_zone")
      <4> SUFFICES ASSUME Net(p) = n, pc[p] = "change_zone" PROVE FALSE
        OBVIOUS
      <4>1. IsSetup(p) /\ Running(p)
        BY <1>0, ZenonT(60), ZenonT(90) DEF Placed, IsSetup, Running, Ended
      <4> QED
        BY <1>6, <4>1, RunningIsUp
    <3>2. \A i \in 1 .. Len(Subnets[n]) : ~Has(n, i)
      BY <1>5, <2>1 DEF Has
    <3>3. \A i \in 1 .. Len(Subnets[n]) : ~Has(n, i)'
      BY <3>1, <3>2, HasMoves
    <3>4. \A i \in 1 .. Len(Subnets[n]) : Subnets[n][i] \notin sources'
      BY <3>3 DEF Has
    <3> QED
      BY <1>4, <3>4, Zenon, ZenonT(60)
  <2>2. CASE \E q \in Procs \ {p} : Net(q) = n /\ pc[q] = "remove_source"
    BY <1>0, <2>2, Zenon, ZenonT(60) DEF Others
  <2>3. CASE Net(p) = n /\ pc[p] = "remove_source"
    <3>1. IsTeardown(p) /\ at[p] \in 1 .. Len(Subnets[n]) /\ Removed(p)
      BY Zenon, ZenonT(60), <1>0, <2>3 DEF Placed, IsTeardown, SourcesInv
    <3>2. pc'[p] # "failed"
      BY <1>1, <2>3, <3>1, Zenon, ZenonT(60)
    <3>3. CASE pc'[p] = "remove_source"
      BY <2>3, <3>3, ZenonT(60), ZenonT(90)
    <3>4. CASE sources' = sources \ {Subnet(p)} /\ at[p] = Len(Subnets[n])
      <4>1. ASSUME NEW i \in 1 .. Len(Subnets[n]) PROVE Subnets[n][i] \notin sources'
        <5>1. i < at[p] \/ i = at[p]
          BY <3>1, <3>4
        <5>2. CASE i < at[p]
          BY <2>3, <3>1, <3>4, <5>2 DEF Removed, Has
        <5>3. CASE i = at[p]
          BY <2>3, <3>4, <5>3 DEF Subnet
        <5> QED
          BY <5>1, <5>2, <5>3
      <4> QED
        BY <1>4, <4>1, ZenonT(60), ZenonT(90)
    <3> QED
      BY <1>0, <2>3, <3>2, <3>3, <3>4, Zenon, ZenonT(60) DEF Goes
  <2> QED
    BY <1>3, <1>6, <2>1, <2>2, <2>3, ZenonT(60), ZenonT(90) DEF Cleared
<1>7. CASE attached[n] # {}
  <2>1. Teardown(p) /\ Net(p) = n
    <3>1. Setup(p) \/ Teardown(p)
      BY <1>7, ActFacts, ZenonT(60), ZenonT(90)
    <3>2. ~Setup(p)
      BY <1>0, <1>7, Zenon, ZenonT(60) DEF Setup
    <3>3. Teardown(p) => attached' = [attached EXCEPT ![Net(p)] = attached[Net(p)] \ {Ctr(p)}]
      BY Zenon, ZenonT(60) DEF Teardown
    <3> QED
      BY <1>0, <1>7, <3>1, <3>2, <3>3
  <2>2. attached'[n] = attached[n] \ {Ctr(p)} /\ pc \in [Procs -> Labels]
    BY ZenonT(60), ZenonT(90), <1>0, <2>1 DEF Teardown, DriverInv, TypeOK
  <2>3. Ctr(p) \in attached[n] /\ attached[n] \ {Ctr(p)} = {}
    BY <1>7, <2>2, Zenon, ZenonT(60)
  <2>4. pc'[p] = IF Subnets[n] # <<>> THEN "remove_source" ELSE "get_settings"
    BY <2>1, <2>2, <2>3, Zenon, ZenonT(60) DEF Teardown, Goto
  <2>5. CASE Subnets[n] = <<>>
    <3>0. 1 .. Len(Subnets[n]) = {}
      BY <2>5
    <3>1. \A i \in 1 .. Len(Subnets[n]) : Subnets[n][i] \notin sources'
      BY <3>0, Zenon, ZenonT(60)
    <3> QED
      BY <1>4, <3>1, ZenonT(60), ZenonT(90)
  <2> QED
    BY <2>1, <2>4, <2>5
<1> QED
  BY <1>6, <1>7, Zenon, ZenonT(60)

\* All of it together, with the reloads by somebody else, after which the zone
\* is empty and everybody's work on it old.
LEMMA SourcesNext ==
    ASSUME Apart, DriverInv, OrderInv, SourcesInv, [Next]_vars
    PROVE  SourcesInv'
<1>1. ASSUME NEW p \in Procs, Acts(p) PROVE SourcesInv'
  <2> SUFFICES ASSUME NEW n \in Networks \ mixed'
               PROVE  /\ NoneFailed(n)' => Chain(n)' /\ \A q \in Procs : Net(q) = n => First(q)'
                      /\ \A q \in Procs : Net(q) = n => Removed(q)'
                      /\ TornDown(n)' => Cleared(n)'
    BY DEF SourcesInv, Net
  <2> QED
    BY <1>1, ChainStep, FirstStep, RemovedStep, ClearedStep
<1>2. CASE Restart
  <2>1. sources' = {} /\ pc' = pc /\ stale' = stale \cup {q \in Procs : pc[q] # "idle"}
    BY <1>2 DEF Restart, DoReload
  <2> SUFFICES ASSUME NEW n \in Networks
               PROVE  Chain(n)' /\ Cleared(n)' /\ \A q \in Procs : First(q)' /\ Removed(q)'
    BY DEF SourcesInv
  <2>2. Chain(n)'
    BY <2>1 DEF Chain, Has
  <2>3. Cleared(n)'
    BY <2>1 DEF Cleared
  <2>4. ASSUME NEW q \in Procs PROVE First(q)' /\ Removed(q)'
    <3>1. ~(Up(q)' /\ q \notin stale')
      BY <2>1 DEF Up
    <3>2. Removed(q)'
      BY <2>1 DEF Removed, Has
    <3> QED
      BY <3>1, <3>2 DEF First
  <2> QED
    BY <2>2, <2>3, <2>4
<1>3. CASE UNCHANGED vars
  <2>1. UNCHANGED <<sources, pc, at, stale, mixed, attached>>
    BY <1>3 DEF vars, daemonVars, ghostVars
  <2> SUFFICES ASSUME NEW n \in Networks \ mixed
               PROVE  /\ NoneFailed(n)' => Chain(n)' /\ \A q \in Procs : Net(q) = n => First(q)'
                      /\ \A q \in Procs : Net(q) = n => Removed(q)'
                      /\ TornDown(n)' => Cleared(n)'
    BY <2>1 DEF SourcesInv, Net
  <2>2. /\ NoneFailed(n) => Chain(n) /\ \A q \in Procs : Net(q) = n => First(q)
        /\ \A q \in Procs : Net(q) = n => Removed(q)
        /\ TornDown(n) => Cleared(n)
    BY DEF SourcesInv
  <2>3. (NoneFailed(n)' => NoneFailed(n)) /\ (TornDown(n)' => TornDown(n))
    BY <2>1 DEF NoneFailed, TornDown, IsTeardown, Net
  <2>4. Chain(n) => Chain(n)'
    BY <2>1 DEF Chain, Has, Adding, Net
  <2>5. Cleared(n) => Cleared(n)'
    BY <2>1 DEF Cleared, SubnetsOf, Net
  <2>6. ASSUME NEW q \in Procs PROVE (First(q) => First(q)') /\ (Removed(q) => Removed(q)')
    <3>1. First(q) => First(q)'
      BY <2>1, Zenon, ZenonT(60) DEF First, Has, Adding, Net, Up, IsSetup, IsTeardown, Ctr
    <3>2. Removed(q) => Removed(q)'
      BY <2>1 DEF Removed, Has, Net
    <3> QED
      BY <3>1, <3>2
  <2> QED
    BY <2>2, <2>3, <2>4, <2>5, <2>6
<1> QED
  BY <1>1, <1>2, <1>3 DEF Next, Acts

-----------------------------------------------------------------------------
\* The read and the write of the port policy.

Reads(p) ==
    /\ pc[p] = "get_settings" /\ pc'[p] = "set_settings" /\ snap'[p].ports = ports /\ snap'[p].rich = rich
    /\ UNCHANGED <<ports, rich, raced, stale>>

Writes(p) ==
    /\ pc[p] = "set_settings" /\ pc'[p] = "done"
    /\ ports' = NewSettings(p).ports /\ rich' = NewSettings(p).rich /\ raced' = raced \cup Overtaken(p)
    /\ snap'[p].rich = {} /\ stale' = stale

\* Everything else that p does.
Passes(p) ==
    /\ pc'[p] \notin {"set_settings", "done"} /\ raced' = raced
    /\ \/ UNCHANGED <<ports, rich>>
       \/ ports' = {} /\ rich' = {} /\ \A q \in Procs \ {p} : pc[q] # "idle" => q \in stale'
    /\ pc[p] \in {"get_settings", "set_settings"} => pc'[p] = "failed"
    /\ pc[p] = "remove_source" => pc'[p] \in {"remove_source", "get_settings", "failed"}
    /\ snap'[p] = snap[p] \/ snap'[p].rich = {}

\* Only getPolicySettings reads the policy and only setPolicySettings changes it,
\* but for a reload.
LEMMA PolicyMoves ==
    ASSUME DriverInv, NEW p \in Procs, Acts(p)
    PROVE  Reads(p) \/ Writes(p) \/ Passes(p)
<1>0. pc \in [Procs -> Labels] /\ DOMAIN snap = Procs /\ Goes(p)
  BY SourceMoves DEF DriverInv, TypeOK
<1>1. \A l : Goto(p, l) => pc'[p] = l
  BY <1>0 DEF Goto
<1>2. \A x : snap' = [snap EXCEPT ![p] = x] => snap'[p] = x
  BY <1>0
<1>n. NoSettings.rich = {}
  BY DEF NoSettings
<1>3. CASE Setup(p) \/ Teardown(p)
  <2>1. pc[p] = "idle" /\ UNCHANGED <<ports, rich, raced, snap>> /\ pc'[p] \in {"list_running", "remove_source", "get_settings"}
    BY <1>1, <1>3, Zenon, ZenonT(60) DEF Setup, Teardown, MayBegin, daemonVars
  <2> QED
    BY <2>1 DEF Passes
<1>4. CASE ListRunning(p) \/ ListPermanent(p) \/ AddObject(p)
  <2>1. UNCHANGED <<ports, rich, raced, snap>> /\ pc[p] \in {"list_running", "list_permanent", "add_object"}
    BY Zenon, ZenonT(60), <1>4 DEF ListRunning, ListPermanent, AddObject, daemonVars, ghostVars
  <2>2. \/ \E need : NextObject(p, need)
        \/ \E l \in {"list_permanent", "add_object", "failed"} : Goto(p, l)
    BY ZenonT(60), ZenonT(90), <1>4 DEF ListRunning, ListPermanent, AddObject
  <2>3. pc'[p] \notin {"set_settings", "done"}
    BY <1>1, <2>2 DEF NextObject, AfterObjects
  <2> QED
    BY <2>1, <2>3, Zenon, ZenonT(60) DEF Passes
<1>5. CASE Reload(p)
  <2>1. /\ ports' = {} /\ rich' = {} /\ UNCHANGED <<raced, snap>> /\ pc[p] = "reload"
        /\ pc'[p] \in {"get_zone", "get_settings"} /\ \A q \in Procs \ {p} : pc[q] # "idle" => q \in stale'
    BY <1>1, <1>5, Zenon, ZenonT(60) DEF Reload, DoReload
  <2> QED
    BY <2>1, Zenon, ZenonT(60) DEF Passes
<1>6. CASE GetZoneOfSource(p) \/ ChangeZoneOfSource(p) \/ RemoveSource(p)
  <2>1. /\ UNCHANGED <<ports, rich, raced, snap>> /\ pc[p] \in {"get_zone", "change_zone", "remove_source"}
    BY <1>6 DEF GetZoneOfSource, ChangeZoneOfSource, RemoveSource, daemonVars, ghostVars
  <2>2. /\ pc'[p] \notin {"set_settings", "done"}
        /\ pc[p] = "remove_source" => pc'[p] \in {"remove_source", "get_settings", "failed"}
    BY <1>0, <2>1, ZenonT(60), ZenonT(90) DEF Goes
  <2> QED
    BY <2>1, <2>2 DEF Passes
<1>7. CASE GetPolicySettings(p)
  <2>1. pc[p] = "get_settings" /\ UNCHANGED <<ports, rich, raced, stale>>
    BY <1>7 DEF GetPolicySettings, daemonVars, ghostVars
  <2>2. \/ pc'[p] = "set_settings" /\ snap'[p] = [ports |-> ports, rich |-> rich]
        \/ pc'[p] = "failed" /\ snap' = snap
    BY <1>1, <1>2, <1>7, Zenon, ZenonT(60) DEF GetPolicySettings
  <2>3. [ports |-> ports, rich |-> rich].ports = ports /\ [ports |-> ports, rich |-> rich].rich = rich
    OBVIOUS
  <2> QED
    BY <2>1, <2>2, <2>3 DEF Reads, Passes
<1>8. CASE SetPolicySettings(p)
  <2>1. pc[p] = "set_settings" /\ stale' = stale /\ snap'[p] = NoSettings
    BY ZenonT(60), ZenonT(90), <1>2, <1>8 DEF SetPolicySettings
  <2>2. \/ /\ pc'[p] = "done" /\ ports' = NewSettings(p).ports /\ rich' = NewSettings(p).rich
           /\ raced' = raced \cup Overtaken(p)
        \/ pc'[p] = "failed" /\ UNCHANGED <<ports, rich, raced>>
    BY <1>1, <1>8 DEF SetPolicySettings
  <2> QED
    BY <1>n, <2>1, <2>2, Zenon, ZenonT(60) DEF Writes, Passes
<1>9. CASE Fault(p)
  <2>1. UNCHANGED <<ports, rich, raced>> /\ pc'[p] = "failed" /\ snap'[p] = NoSettings
    BY Zenon, ZenonT(60), <1>1, <1>2, <1>9 DEF Fault, daemonVars, ghostVars
  <2> QED
    BY <1>n, <2>1 DEF Passes
<1> QED
  BY <1>3, <1>4, <1>5, <1>6, <1>7, <1>8, <1>9 DEF Acts, Step

\* What a write makes of the ports.
LEMMA NewPorts ==
    ASSUME NEW p \in Procs
    PROVE  /\ IsSetup(p) => NewSettings(p).ports = snap[p].ports \cup PortTuples(Ctr(p), Net(p))
           /\ IsTeardown(p) /\ snap[p].ports = {} => NewSettings(p).ports = ports
           /\ IsTeardown(p) /\ snap[p].ports # {} =>
                NewSettings(p).ports = {t \in snap[p].ports : t.addr \notin Addresses(Ctr(p), Net(p))}
BY ZenonT(60), ZenonT(90) DEF NewSettings, IsSetup, IsTeardown

\* And of the rules.
LEMMA NewRules ==
    ASSUME NEW p \in Procs, Plain, NEW n
    PROVE  /\ n \in NewSettings(p).rich => n \in rich \/ n \in snap[p].rich \/ (IsSetup(p) /\ Net(p) = n)
           /\ IsTeardown(p) /\ complete[p] /\ Net(p) = n /\ n \in NewSettings(p).rich => snap[p].rich = {} /\ n \in rich
           /\ ~RedirectDns => NewSettings(p).rich = {}
<1> DEFINE setup == Cmd[p].kind = "setup"
           new == IF RedirectDns /\ setup THEN snap[p].rich \cup {Net(p)}
                  ELSE IF RedirectDns /\ complete[p] /\ snap[p].rich # {} THEN snap[p].rich \ {Net(p)}
                  ELSE rich
<1>1. NewSettings(p).rich = new
  BY Zenon, ZenonT(60) DEF NewSettings
<1>2. setup <=> IsSetup(p)
  BY DEF IsSetup
<1>3. IsTeardown(p) => ~setup
  BY DEF IsTeardown
<1> HIDE DEF setup
<1> QED
  BY <1>1, <1>2, <1>3, ZenonT(60), ZenonT(90) DEF Plain

\* Addresses belong to one container on one network.
LEMMA AddressesApart ==
    ASSUME NEW c, NEW d, NEW n, NEW m, NEW a, a \in Addresses(c, n), a \in Addresses(d, m)
    PROVE  c = d /\ n = m
BY DEF Addresses

\* A write of p while another is about to write leaves its mark on p, and on a
\* teardown when p's reading is old.
LEMMA Marks ==
    ASSUME NEW p \in Procs, NEW q \in Procs \ {p}, Writes(p), Writing(q)
    PROVE  p \in raced' /\ (IsTeardown(q) /\ q \notin raced' => snap[p].ports = ports /\ snap[p].rich = rich)
<1>1. raced' = raced \cup Overtaken(p)
  BY DEF Writes
<1>2. q \in {r \in Procs \ {p} : pc[r] = "set_settings"}
  BY DEF Writing
<1>3. p \in Overtaken(p)
  BY <1>2 DEF Overtaken
<1>4. IsTeardown(q) /\ snap[p] # [ports |-> ports, rich |-> rich] => q \in Overtaken(p)
  BY <1>2 DEF Overtaken, IsTeardown
<1>5. [ports |-> ports, rich |-> rich].ports = ports /\ [ports |-> ports, rich |-> rich].rich = rich
  OBVIOUS
<1>6. IsTeardown(q) /\ q \notin raced' => snap[p] = [ports |-> ports, rich |-> rich]
  BY <1>1, <1>4
<1> QED
  BY <1>1, <1>3, <1>5, <1>6

\* The forwarded ports of a container that is set up stay in the policy.
LEMMA KeptStep ==
    ASSUME DriverInv, KeptInv, NEW p \in Procs, Acts(p), NEW q \in Procs
    PROVE  Kept(q)'
<1>0. /\ Others(p) /\ pc'[p] # "idle" /\ stale \subseteq stale' /\ raced \subseteq raced' /\ Kept(q)
      /\ Cmd[p].kind \in {"setup", "teardown"}
  BY ActFacts, SubnetFacts, Zenon, ZenonT(60) DEF KeptInv
<1> SUFFICES ASSUME Served(q)', q \notin raced'
             PROVE  Own(q) \subseteq ports' /\ \A r \in Procs : Writing(r)' => Own(q) \subseteq snap'[r].ports
  BY Zenon, ZenonT(60) DEF Kept, Own, PortTuples, Ctr, Net, Addresses, Writing
<1>1. /\ IsSetup(q) /\ pc'[q] = "done" /\ q \notin stale'
      /\ \A t \in Procs : IsTeardown(t) /\ Ctr(t) = Ctr(q) /\ Net(t) = Net(q) => pc'[t] = "idle"
  BY DEF Served, IsSetup, IsTeardown, Ctr, Net
<1>2. CASE q = p
  <2>1. Writes(p)
    BY <1>1, <1>2, PolicyMoves, Zenon, ZenonT(60) DEF Reads, Passes
  <2>2. Own(p) \subseteq ports'
    BY Zenon, ZenonT(60), <1>1, <1>2, <2>1, NewPorts DEF Writes, Own
  <2>3. ASSUME NEW r \in Procs, Writing(r)' PROVE FALSE
    <3>1. r # p
      BY <1>1, <1>2, <2>3 DEF Writing
    <3>2. Writing(r)
      BY ZenonT(60), ZenonT(90), <1>0, <2>3, <3>1 DEF Writing, Others
    <3> QED
      BY <1>2, <2>1, <3>1, <3>2, Marks
  <2> QED
    BY <1>2, <2>2, <2>3
<1>3. CASE q # p
  <2>1. pc[q] = "done" /\ q \notin stale /\ q \notin raced
    BY <1>0, <1>1, <1>3, ZenonT(60), ZenonT(90) DEF Others
  <2>2. Served(q)
    <3>1. \A t \in Procs : pc'[t] = "idle" => pc[t] = "idle"
      BY <1>0 DEF Others
    <3> QED
      BY <1>1, <2>1, <3>1, ZenonT(60), ZenonT(90) DEF Served, IsSetup, IsTeardown
  <2>3. Own(q) \subseteq ports /\ \A r \in Procs : Writing(r) => Own(q) \subseteq snap[r].ports
    BY <1>0, <2>1, <2>2 DEF Kept
  <2>4. ASSUME NEW r \in Procs \ {p}, Writing(r)' PROVE Own(q) \subseteq snap'[r].ports
    BY <1>0, <2>3, <2>4 DEF Others, Writing
  <2>5. CASE Reads(p)
    <3>1. snap'[p].ports = ports /\ ports' = ports
      BY <2>5, ZenonT(60), ZenonT(90) DEF Reads
    <3> QED
      BY <2>3, <2>4, <3>1, ZenonT(60), ZenonT(90)
  <2>6. CASE Writes(p)
    <3>1. Own(q) \subseteq snap[p].ports /\ ports' = NewSettings(p).ports /\ ~Writing(p)'
      BY <2>3, <2>6, Zenon, ZenonT(60) DEF Writes, Writing
    <3>2. CASE IsSetup(p)
      BY ZenonT(60), ZenonT(90), <2>4, <3>1, <3>2, NewPorts
    <3>3. CASE IsTeardown(p)
      <4>1. Ctr(p) # Ctr(q) \/ Net(p) # Net(q)
        BY <1>0, <1>1, <3>3, Zenon, ZenonT(60)
      <4>2. \A t \in Own(q) : t.addr \notin Addresses(Ctr(p), Net(p))
        BY <4>1, AddressesApart DEF Own
      <4>3. Own(q) \subseteq ports'
        BY <2>3, <3>1, <3>3, <4>2, NewPorts, ZenonT(60), ZenonT(90)
      <4> QED
        BY <2>4, <3>1, <4>3
    <3> QED
      BY <1>0, <3>2, <3>3, Zenon, ZenonT(60) DEF IsSetup, IsTeardown
  <2>7. CASE Passes(p)
    <3>1. ports' = ports /\ ~Writing(p)'
      BY <1>1, <1>3, <2>1, <2>7, ZenonT(60), ZenonT(90) DEF Passes, Writing
    <3> QED
      BY <2>3, <2>4, <3>1
  <2> QED
    BY <2>5, <2>6, <2>7, PolicyMoves, Zenon, ZenonT(60)
<1> QED
  BY <1>2, <1>3, ZenonT(60), ZenonT(90)

\* The tuples a setup adds do not lead to another container.
LEMMA ForeignTuples ==
    ASSUME Outside, NEW p \in Procs, NEW q \in Procs, Ctr(p) # Ctr(q)
    PROVE  Without(q, PortTuples(Ctr(p), Net(p)))
<1> SUFFICES ASSUME NEW t \in PortTuples(Ctr(p), Net(p)) PROVE t.addr \notin Addresses(Ctr(q), Net(q))
  BY DEF Without
<1>1. PICK m \in Mappings[Ctr(p)] :
        \E a \in IF m.host_ip # None THEN {m.host_ip} ELSE Addresses(Ctr(p), Net(p)) : t = MakePortTuple(m, a)
  BY DEF PortTuples
<1>2. PICK a \in IF m.host_ip # None THEN {m.host_ip} ELSE Addresses(Ctr(p), Net(p)) : t = MakePortTuple(m, a)
  BY <1>1
<1>3. t.addr = a
  BY <1>2, ZenonT(60), ZenonT(90) DEF MakePortTuple
<1>4. Ctr(p) \in Containers /\ Ctr(q) \in Containers /\ Net(q) \in Networks
  BY SubnetFacts, Zenon, ZenonT(60)
<1>5. CASE m.host_ip # None
  BY <1>2, <1>3, <1>4, <1>5, ZenonT(60), ZenonT(90) DEF Outside
<1>6. CASE m.host_ip = None
  <2>1. a \in Addresses(Ctr(p), Net(p))
    BY <1>2, <1>6
  <2>2. a \notin Addresses(Ctr(q), Net(q))
    BY <2>1, AddressesApart
  <2> QED
    BY <1>3, <2>2, ZenonT(60), ZenonT(90)
<1> QED
  BY <1>5, <1>6, Zenon, ZenonT(60)

\* What p writes has no tuple of q, when neither p's reading nor the policy has.
LEMMA WritesWithout ==
    ASSUME Outside, OrderInv, NEW p \in Procs, NEW q \in Procs, Writes(p), IsTeardown(q), pc[q] # "idle",
           Without(q, ports), Without(q, snap[p].ports)
    PROVE  Without(q, ports')
<1>1. ports' = NewSettings(p).ports /\ pc[p] \notin Ended /\ Cmd[p].kind \in {"setup", "teardown"}
  BY SubnetFacts, Zenon, ZenonT(60) DEF Writes, Ended
<1>2. CASE IsSetup(p)
  <2>1. Ctr(p) # Ctr(q)
    BY <1>1, <1>2, Zenon, ZenonT(60) DEF OrderInv, Ordered
  <2>2. ports' = snap[p].ports \cup PortTuples(Ctr(p), Net(p))
    BY ZenonT(60), ZenonT(90), <1>1, <1>2, NewPorts
  <2>3. Without(q, PortTuples(Ctr(p), Net(p)))
    BY <2>1, ForeignTuples, Zenon, ZenonT(60)
  <2> QED
    BY <2>2, <2>3, ZenonT(60), ZenonT(90) DEF Without
<1>3. CASE IsTeardown(p)
  <2>1. ports' \subseteq ports \cup snap[p].ports
    BY <1>1, <1>3, NewPorts, Zenon, ZenonT(60)
  <2> QED
    BY <2>1 DEF Without
<1> QED
  BY <1>1, <1>2, <1>3, Zenon, ZenonT(60) DEF IsSetup, IsTeardown

\* The forwarded ports of a container that is torn down do not come back.
LEMMA GoneStep ==
    ASSUME Outside, DriverInv, OrderInv, GoneInv, NEW p \in Procs, Acts(p), NEW q \in Procs
    PROVE  Gone(q)'
<1>0. Others(p) /\ raced \subseteq raced' /\ Gone(q)
  BY ActFacts DEF GoneInv
<1> SUFFICES ASSUME IsTeardown(q), q \notin raced'
             PROVE  /\ pc'[q] = "done" => Without(q, ports') /\ \A r \in Procs : Writing(r)' => Without(q, snap'[r].ports)
                    /\ Writing(q)' /\ snap'[q].ports = {} => Without(q, ports')
  BY Zenon, ZenonT(60) DEF Gone, IsTeardown, Without, Ctr, Net, Addresses, Writing
<1>1. /\ pc[q] = "done" => Without(q, ports) /\ \A r \in Procs : Writing(r) => Without(q, snap[r].ports)
      /\ Writing(q) /\ snap[q].ports = {} => Without(q, ports)
  BY Zenon, ZenonT(60), <1>0 DEF Gone
<1>e. Without(q, {})
  BY DEF Without
<1>2. CASE q = p
  <2>1. CASE Reads(p)
    <3>1. pc'[p] = "set_settings" /\ snap'[p].ports = ports /\ ports' = ports
      BY <2>1, Zenon, ZenonT(60) DEF Reads
    <3> QED
      BY <1>2, <1>e, <3>1, ZenonT(60), ZenonT(90)
  <2>2. CASE Writes(p)
    <3>1. pc'[p] = "done" /\ Writing(p) /\ ports' = NewSettings(p).ports
      BY <2>2 DEF Writes, Writing
    <3>2. Without(p, ports')
      <4>1. CASE snap[p].ports = {}
        BY <1>1, <1>2, <3>1, <4>1, NewPorts, Zenon, ZenonT(60)
      <4>2. CASE snap[p].ports # {}
        BY Zenon, ZenonT(60), <1>2, <3>1, <4>2, NewPorts DEF Without
      <4> QED
        BY <4>1, <4>2
    <3>3. ASSUME NEW r \in Procs, Writing(r)' PROVE FALSE
      <4>1. r # p
        BY <3>1, <3>3 DEF Writing
      <4>2. Writing(r)
        BY <1>0, <3>3, <4>1 DEF Writing, Others
      <4> QED
        BY <1>2, <2>2, <4>1, <4>2, Marks
    <3> QED
      BY <1>2, <3>2, <3>3
  <2>3. CASE Passes(p)
    BY <1>2, <2>3, Zenon, ZenonT(60) DEF Passes, Writing
  <2> QED
    BY ZenonT(60), ZenonT(90), <2>1, <2>2, <2>3, PolicyMoves
<1>3. CASE q # p
  <2>0. pc'[q] = pc[q] /\ snap'[q] = snap[q] /\ (Writing(q)' <=> Writing(q))
    BY <1>0, <1>3, Zenon, ZenonT(60) DEF Others, Writing
  <2>1. ASSUME NEW r \in Procs \ {p}, Writing(r)', pc[q] = "done" PROVE Without(q, snap'[r].ports)
    BY <1>0, <1>1, <2>1, Zenon, ZenonT(60) DEF Others, Writing
  <2>2. CASE Reads(p)
    <3>1. snap'[p].ports = ports /\ ports' = ports
      BY <2>2 DEF Reads
    <3> QED
      BY ZenonT(60), ZenonT(90), <1>1, <2>0, <2>1, <3>1
  <2>3. CASE Writes(p)
    <3>1. Writing(p) /\ ~Writing(p)'
      BY <2>3 DEF Writes, Writing
    <3>2. CASE pc[q] = "done"
      <4>1. Without(q, ports')
        BY <1>1, <2>3, <3>1, <3>2, WritesWithout, Zenon, ZenonT(60)
      <4>2. ~Writing(q)'
        BY <2>0, <3>2 DEF Writing
      <4> QED
        BY <2>1, <3>1, <3>2, <4>1, <4>2, ZenonT(60), ZenonT(90)
    <3>3. CASE Writing(q) /\ snap[q].ports = {}
      <4>1. snap[p].ports = ports
        BY <1>3, <2>3, <3>3, Marks
      <4>2. Without(q, ports) /\ pc[q] # "idle" /\ pc[q] # "done"
        BY <1>1, <3>3, ZenonT(60), ZenonT(90) DEF Writing
      <4>3. Without(q, ports')
        BY <2>3, <4>1, <4>2, WritesWithout
      <4> QED
        BY ZenonT(60), ZenonT(90), <2>0, <4>2, <4>3
    <3> QED
      BY <2>0, <3>2, <3>3, Zenon, ZenonT(60)
  <2>4. CASE Passes(p)
    <3>1. ports' \in {ports, {}} /\ ~Writing(p)'
      BY <2>4, Zenon, ZenonT(60) DEF Passes, Writing
    <3> QED
      BY <1>1, <1>e, <2>0, <2>1, <3>1, Zenon, ZenonT(60)
  <2> QED
    BY ZenonT(60), ZenonT(90), <2>2, <2>3, <2>4, PolicyMoves
<1> QED
  BY <1>2, <1>3, ZenonT(60), ZenonT(90)

\* Without a dns port there is no rule, read or written.
LEMMA PlainStep ==
    ASSUME DriverInv, RuleInv, NEW p \in Procs, Acts(p)
    PROVE  Plain'
<1>0. Others(p) /\ Plain
  BY Zenon, ZenonT(60), ActFacts DEF RuleInv
<1> SUFFICES ASSUME ~RedirectDns PROVE rich' = {} /\ \A q \in Procs : snap'[q].rich = {}
  BY DEF Plain
<1>1. rich = {} /\ \A q \in Procs : snap[q].rich = {}
  BY <1>0 DEF Plain
<1>2. \A q \in Procs \ {p} : snap'[q].rich = {}
  BY <1>0, <1>1 DEF Others
<1>3. rich' = {} /\ snap'[p].rich = {}
  <2>1. CASE Reads(p)
    <3>1. snap'[p].rich = rich /\ rich' = rich
      BY <2>1 DEF Reads
    <3> QED
      BY <1>1, <3>1
  <2>2. CASE Writes(p)
    <3>1. rich' = NewSettings(p).rich /\ snap'[p].rich = {}
      BY <2>2 DEF Writes
    <3> QED
      BY <1>0, <3>1, NewRules, Zenon, ZenonT(60)
  <2>3. CASE Passes(p)
    <3>1. (rich' = rich \/ rich' = {}) /\ (snap'[p] = snap[p] \/ snap'[p].rich = {})
      BY <2>3, ZenonT(60), ZenonT(90) DEF Passes
    <3>2. rich = {} /\ snap[p].rich = {}
      BY <1>1, Zenon, ZenonT(60)
    <3> QED
      BY <3>1, <3>2
  <2> QED
    BY <2>1, <2>2, <2>3, PolicyMoves
<1> QED
  BY <1>2, <1>3

\* A network without containers and without rule does not get one again.
LEMMA RulelessStep ==
    ASSUME DriverInv, OrderInv, RuleInv, NEW p \in Procs, Acts(p), NEW n \in Networks, attached[n] = {}, Ruleless(n)
    PROVE  Ruleless(n)'
<1>0. Others(p) /\ Plain
  BY ActFacts, Zenon, ZenonT(60) DEF RuleInv
<1>1. n \notin rich /\ \A q \in Procs : Writing(q) => n \notin snap[q].rich
  BY DEF Ruleless
<1>2. \A q \in Procs \ {p} : Writing(q)' => n \notin snap'[q].rich
  BY <1>0, <1>1 DEF Others, Writing
<1>3. n \notin rich' /\ (Writing(p)' => n \notin snap'[p].rich)
  <2>1. CASE Reads(p)
    <3>1. snap'[p].rich = rich /\ rich' = rich
      BY <2>1 DEF Reads
    <3> QED
      BY <1>1, <3>1
  <2>2. CASE Writes(p)
    <3>1. rich' = NewSettings(p).rich /\ Writing(p) /\ ~Writing(p)' /\ Running(p)
      BY Zenon, ZenonT(60), <2>2 DEF Writes, Writing, Running, Ended
    <3>2. ~(IsSetup(p) /\ Net(p) = n)
      BY <3>1, RunningIsUp, Zenon, ZenonT(60)
    <3> QED
      BY Zenon, ZenonT(60), <1>0, <1>1, <3>1, <3>2, NewRules
  <2>3. CASE Passes(p)
    <3>1. rich' \in {rich, {}} /\ ~Writing(p)'
      BY <2>3 DEF Passes, Writing
    <3> QED
      BY <1>1, <3>1
  <2> QED
    BY <2>1, <2>2, <2>3, PolicyMoves
<1>4. \A q \in Procs : Writing(q)' => n \notin snap'[q].rich
  BY <1>2, <1>3
<1> QED
  BY <1>3, <1>4 DEF Ruleless, Writing

\* The last teardown goes on to remove the rule, and nobody brings it back behind
\* its reading.
LEMMA RemovesStep ==
    ASSUME DriverInv, OrderInv, RuleInv, NEW p \in Procs, Acts(p), NEW n \in Networks, n \notin mixed',
           Undisturbed(n)', NEW q \in Procs, Removes(q, n)
    PROVE  Removes(q, n)' \/ Ruleless(n)'
<1>0. /\ Others(p) /\ Plain /\ mixed \subseteq mixed' /\ raced \subseteq raced'
      /\ Net(q) = n /\ complete[q] /\ IsTeardown(q)
  BY ZenonT(60), ZenonT(90), ActFacts DEF RuleInv, Removes, OrderInv, Emptied
<1>1. pc'[q] # "failed" /\ q \notin raced'
  BY <1>0 DEF Undisturbed, IsTeardown, Net
<1>2. Running(q) /\ pc[q] # "idle"
  BY DEF Removes, Running, Ended, Writing
<1>3. CASE q # p
  <2>1. pc'[q] = pc[q] /\ snap'[q] = snap[q] /\ complete'[q]
    BY <1>0, <1>3, Zenon, ZenonT(60) DEF Others
  <2>2. ASSUME Writing(q), snap[q].rich = {} PROVE n \notin rich'
    <3>1. n \notin rich
      BY <2>2 DEF Removes, Writing
    <3>2. CASE Writes(p)
      <4>1. snap[p].rich = rich /\ rich' = NewSettings(p).rich
        BY <1>0, <1>1, <1>3, <2>2, <3>2, Marks, Zenon, ZenonT(60) DEF Writes
      <4>2. Running(p)
        BY <3>2, Zenon, ZenonT(60) DEF Writes, Running, Ended
      <4>3. ~(IsSetup(p) /\ Net(p) = n)
        BY ZenonT(60), ZenonT(90), <1>0, <1>2, <4>2 DEF OrderInv, Meets
      <4> QED
        BY Zenon, ZenonT(60), <1>0, <3>1, <4>1, <4>3, NewRules
    <3>3. CASE Reads(p) \/ Passes(p)
      BY <3>1, <3>3, ZenonT(60), ZenonT(90) DEF Reads, Passes
    <3> QED
      BY <3>2, <3>3, PolicyMoves
  <2>3. Writing(q)' <=> Writing(q)
    BY <2>1, ZenonT(60), ZenonT(90) DEF Writing
  <2>4. Removes(q, n)'
    BY <1>0, <2>1, <2>2, <2>3, Zenon, ZenonT(60) DEF Removes, Net
  <2> QED
    BY <2>4
<1>4. CASE q = p
  <2>1. complete'[p]
    BY Zenon, ZenonT(60), <1>0, <1>2, <1>4, ActFacts
  <2>2. CASE Reads(p)
    <3>1. Writing(p)' /\ snap'[p].rich = rich /\ rich' = rich
      BY <2>2, ZenonT(60), ZenonT(90) DEF Reads, Writing
    <3> QED
      BY <1>0, <1>4, <2>1, <3>1, ZenonT(60), ZenonT(90) DEF Removes, Net
  <2>3. CASE Writes(p)
    <3>1. rich' = NewSettings(p).rich /\ Writing(p) /\ ~Writing(p)'
      BY <2>3, Zenon, ZenonT(60) DEF Writes, Writing
    <3>2. n \notin rich'
      <4>1. snap[p].rich = {} => n \notin rich
        BY Zenon, ZenonT(60), <1>4, <3>1 DEF Removes, Writing
      <4> QED
        BY Zenon, ZenonT(60), <1>0, <1>4, <3>1, <4>1, NewRules
    <3>3. ASSUME NEW r \in Procs, Writing(r)' PROVE FALSE
      <4>1. r # p
        BY <3>1, <3>3
      <4>2. Writing(r)
        BY <1>0, <3>3, <4>1 DEF Writing, Others
      <4> QED
        BY <1>1, <1>4, <2>3, <4>1, <4>2, Marks, Zenon, ZenonT(60)
    <3>4. \A r \in Procs : Writing(r)' => n \notin snap'[r].rich
      BY <3>3
    <3> QED
      BY <3>2, <3>4, ZenonT(60), ZenonT(90) DEF Ruleless, Writing
  <2>4. CASE Passes(p)
    <3>1. pc'[p] \in {"remove_source", "get_settings"}
      BY <1>1, <1>4, <2>4, Zenon, ZenonT(60) DEF Passes, Removes, Writing
    <3> QED
      BY <1>0, <1>4, <2>1, <3>1, Zenon, ZenonT(60) DEF Removes, Net
  <2> QED
    BY <2>2, <2>3, <2>4, PolicyMoves
<1> QED
  BY <1>3, <1>4

\* The rule of a network goes with its last container.
LEMMA UnruledStep ==
    ASSUME DriverInv, OrderInv, RuleInv, NEW p \in Procs, Acts(p), NEW n \in Networks
    PROVE  Unruled(n)'
<1>0. /\ Others(p) /\ mixed \subseteq mixed' /\ raced \subseteq raced' /\ pc[p] \notin Ended /\ Unruled(n)
      /\ attached \in [Networks -> SUBSET Containers] /\ Net(p) \in Networks
  BY Zenon, ZenonT(60), ActFacts, SubnetFacts DEF RuleInv, DriverInv, TypeOK
<1> SUFFICES ASSUME n \notin mixed', attached'[n] = {}, Undisturbed(n)'
             PROVE  Ruleless(n)' \/ \E q \in Procs : Removes(q, n)'
  BY Zenon, ZenonT(60) DEF Unruled, Undisturbed, Ruleless, Removes, IsTeardown, Net
<1>1. CASE attached[n] = {}
  <2>1. Undisturbed(n)
    <3>1. \A q \in Procs : IsTeardown(q) /\ Net(q) = n => pc'[q] # "failed" /\ q \notin raced'
      BY DEF Undisturbed, IsTeardown, Net
    <3>2. \A q \in Procs : pc[q] = "failed" => pc'[q] = "failed"
      BY <1>0, Zenon, ZenonT(60) DEF Others, Ended
    <3> QED
      BY <1>0, <3>1, <3>2, Zenon, ZenonT(60) DEF Undisturbed
  <2>2. Ruleless(n) \/ \E q \in Procs : Removes(q, n)
    BY ZenonT(60), ZenonT(90), <1>0, <1>1, <2>1 DEF Unruled, Undisturbed, Ruleless, Removes
  <2> QED
    BY Zenon, ZenonT(60), <1>1, <2>2, RulelessStep, RemovesStep
<1>2. CASE attached[n] # {}
  <2>1. Teardown(p) /\ Net(p) = n
    <3>1. Setup(p) \/ Teardown(p)
      BY <1>2, ActFacts
    <3>2. ~Setup(p)
      BY <1>0, <1>2, Zenon, ZenonT(60) DEF Setup
    <3>3. Teardown(p) => attached' = [attached EXCEPT ![Net(p)] = attached[Net(p)] \ {Ctr(p)}]
      BY Zenon, ZenonT(60) DEF Teardown
    <3> QED
      BY <1>0, <1>2, <3>1, <3>2, <3>3
  <2>2. attached'[n] = attached[n] \ {Ctr(p)} /\ pc \in [Procs -> Labels] /\ complete \in [Procs -> BOOLEAN]
    BY ZenonT(60), ZenonT(90), <1>0, <2>1 DEF Teardown, DriverInv, TypeOK
  <2>3. Ctr(p) \in attached[n] /\ attached[n] \ {Ctr(p)} = {}
    BY <1>2, <2>2
  <2>4. pc'[p] \in {"remove_source", "get_settings"} /\ complete'[p]
    BY ZenonT(60), ZenonT(90), <2>1, <2>2, <2>3 DEF Teardown, Goto
  <2>5. Removes(p, n)'
    BY <2>1, <2>4 DEF Removes, Net
  <2> QED
    BY <2>5
<1> QED
  BY <1>1, <1>2, Zenon, ZenonT(60)

-----------------------------------------------------------------------------
\* The invariants hold initially.
LEMMA ServedInit == Init => OrderInv /\ SourcesInv /\ KeptInv /\ GoneInv /\ RuleInv
<1> SUFFICES ASSUME Init PROVE OrderInv /\ SourcesInv /\ KeptInv /\ GoneInv /\ RuleInv
  OBVIOUS
<1>1. /\ \A p \in Procs : pc[p] = "idle" /\ ~complete[p] /\ snap[p].rich = {}
      /\ sources = {} /\ rich = {}
  BY DEF Init, NoSettings
<1>2. \A p \in Procs : ~Running(p) /\ ~Up(p) /\ ~Writing(p) /\ ~Served(p)
  BY <1>1, Zenon, ZenonT(60) DEF Running, Up, Writing, Served
<1>3. OrderInv
  BY Zenon, ZenonT(60), <1>1, <1>2 DEF OrderInv, Ordered, Meets, Attached, Emptied
<1>4. SourcesInv
  <2>1. \A n \in Networks : Chain(n) /\ Cleared(n)
    BY Zenon, ZenonT(60), <1>1 DEF Chain, Cleared, Has
  <2>2. \A p \in Procs : First(p) /\ Removed(p)
    BY <1>1, <1>2, Zenon, ZenonT(60) DEF First, Removed
  <2> QED
    BY <2>1, <2>2 DEF SourcesInv
<1>5. KeptInv /\ GoneInv
  BY <1>1, <1>2, Zenon, ZenonT(60) DEF KeptInv, Kept, GoneInv, Gone
<1>6. RuleInv
  BY <1>1, <1>2, Zenon, ZenonT(60) DEF RuleInv, Plain, Unruled, Ruleless
<1> QED
  BY <1>3, <1>4, <1>5, <1>6

\* The ports of the containers that are set up.
LEMMA KeptNext ==
    ASSUME DriverInv, KeptInv, [Next]_vars
    PROVE  KeptInv'
<1>1. CASE Still
  <2> SUFFICES ASSUME NEW q \in Procs, Served(q)', q \notin raced'
               PROVE  Own(q) \subseteq ports' /\ \A r \in Procs : Writing(r)' => Own(q) \subseteq snap'[r].ports
    BY Zenon, ZenonT(60) DEF KeptInv, Kept, Own, PortTuples, Ctr, Net, Addresses, Writing
  <2>1. pc' = pc /\ snap' = snap /\ raced' = raced
    BY <1>1 DEF Still
  <2>2. pc[q] = "done" /\ q \notin stale'
    BY <2>1 DEF Served
  <2>3. ports' = ports /\ stale' = stale
    BY <1>1, <2>2 DEF Still
  <2>4. Served(q)
    BY <2>1, <2>3 DEF Served, Ctr, Net
  <2> QED
    BY <2>1, <2>3, <2>4, Zenon, ZenonT(60) DEF KeptInv, Kept, Writing
<1> QED
  BY <1>1, NextCases, KeptStep DEF KeptInv

\* The ports of the containers that are torn down.
LEMMA GoneNext ==
    ASSUME Outside, DriverInv, OrderInv, GoneInv, [Next]_vars
    PROVE  GoneInv'
<1>1. CASE Still
  <2> SUFFICES ASSUME NEW q \in Procs, IsTeardown(q), q \notin raced'
               PROVE  /\ pc'[q] = "done" => Without(q, ports') /\ \A r \in Procs : Writing(r)' => Without(q, snap'[r].ports)
                      /\ Writing(q)' /\ snap'[q].ports = {} => Without(q, ports')
    BY Zenon, ZenonT(60) DEF GoneInv, Gone, IsTeardown, Without, Ctr, Net, Addresses, Writing
  <2>1. pc' = pc /\ snap' = snap /\ raced' = raced /\ ports' \in {ports, {}}
    BY <1>1 DEF Still
  <2>2. Without(q, ports) => Without(q, ports')
    BY <2>1 DEF Without
  <2>3. Gone(q)
    BY DEF GoneInv
  <2> QED
    BY <2>1, <2>2, <2>3, Zenon, ZenonT(60) DEF Gone, Writing
<1> QED
  BY <1>1, NextCases, GoneStep DEF GoneInv

\* The dns rules.
LEMMA RuleNext ==
    ASSUME DriverInv, OrderInv, RuleInv, [Next]_vars
    PROVE  RuleInv'
<1>1. CASE Still
  <2>1. UNCHANGED <<pc, snap, complete, attached, mixed, raced>> /\ rich' \in {rich, {}}
    BY <1>1 DEF Still
  <2>2. Plain'
    BY <2>1 DEF RuleInv, Plain
  <2>3. ASSUME NEW n \in Networks PROVE Unruled(n)'
    <3>1. Unruled(n)
      BY DEF RuleInv
    <3>2. Undisturbed(n)' => Undisturbed(n)
      BY <2>1 DEF Undisturbed, IsTeardown, Net
    <3>3. Ruleless(n) => Ruleless(n)'
      BY <2>1 DEF Ruleless, Writing
    <3>4. ASSUME NEW q \in Procs PROVE Removes(q, n) => Removes(q, n)'
      BY <2>1 DEF Removes, Writing, Net
    <3> QED
      BY Zenon, ZenonT(60), <2>1, <3>1, <3>2, <3>3, <3>4 DEF Unruled
  <2> QED
    BY <2>2, <2>3 DEF RuleInv
<1> QED
  BY <1>1, NextCases, PlainStep, UnruledStep DEF RuleInv

-----------------------------------------------------------------------------
\* make_port_tuple: the sums wrap when a range ends with the last port, and
\* taking 1 off wraps back.
LEMMA EndOfRange ==
    ASSUME NEW M \in Nat \ {0}, NEW first \in 0 .. M - 1, NEW range \in Nat, range > 1, first + range <= M
    PROVE  (((first + range) % M) + M - 1) % M = first + range - 1
<1>1. ASSUME NEW a \in 0 .. M - 1 PROVE a % M = a /\ (a + M) % M = a
  OBVIOUS
<1>2. M % M = 0
  OBVIOUS
<1>3. CASE first + range < M
  <2>1. PICK e \in 0 .. M - 1 : e = first + range - 1
    BY <1>3
  <2>2. (first + range) % M = first + range
    BY <1>1, <1>3
  <2>3. ((first + range) % M) + M - 1 = e + M
    BY <2>1, <2>2
  <2> QED
    BY <1>1, <2>1, <2>3
<1>4. CASE first + range = M
  <2>1. ((first + range) % M) + M - 1 = M - 1
    BY <1>2, <1>4
  <2>2. M - 1 \in 0 .. M - 1 /\ first + range - 1 = M - 1
    BY <1>4
  <2> QED
    BY <1>1, <2>1, <2>2
<1> QED
  BY <1>3, <1>4

\* Forward t takes port h to port d of address a, the body of Leads.
Carries(t, h, d, a) ==
    /\ t.addr = a
    /\ t.port[1] <= h /\ h <= t.port[2]
    /\ t.to[1] + (h - t.port[1]) = d

\* The tuple of a mapping leads each of its ports to the container's.
LEMMA TupleLeads ==
    ASSUME Fitting, NEW c \in Containers, NEW m \in Mappings[c], NEW a,
           NEW i \in 0 .. (IF m.range > 1 THEN m.range - 1 ELSE 0), NEW t, t = MakePortTuple(m, a)
    PROVE  Carries(t, m.host_port + i, m.container_port + i, a)
<1>1. /\ PortMod \in Nat \ {0} /\ m.host_port \in 0 .. PortMod - 1 /\ m.container_port \in Nat /\ m.range \in Nat
      /\ m.host_port + m.range <= PortMod
  BY DEF Fitting
<1>2. PICK end : end = IF m.range > 1 THEN (((m.host_port + m.range) % PortMod) + PortMod - 1) % PortMod ELSE m.host_port
  OBVIOUS
<1>3. t.addr = a /\ t.port[1] = m.host_port /\ t.port[2] = end /\ t.to[1] = m.container_port
  BY <1>2 DEF MakePortTuple
<1>4. m.host_port + i <= end
  <2>1. CASE m.range > 1
    <3>1. end = m.host_port + m.range - 1
      BY ZenonT(60), ZenonT(90), <1>1, <1>2, <2>1, EndOfRange
    <3>2. i <= m.range - 1 /\ i \in Nat
      BY <1>1, <2>1
    <3> QED
      BY <1>1, <3>1, <3>2
  <2>2. CASE ~(m.range > 1)
    <3>1. end = m.host_port
      BY <1>2, <2>2
    <3>2. i \in 0 .. 0
      BY <2>2
    <3>3. \A h \in Nat : h + 0 <= h
      OBVIOUS
    <3> QED
      BY <1>1, <3>1, <3>2, <3>3
  <2> QED
    BY <2>1, <2>2
<1>5. i \in Nat
  BY <1>1
<1>6. \A h, c1, j \in Nat : h <= h + j /\ c1 + ((h + j) - h) = c1 + j
  OBVIOUS
<1>7. m.host_port <= m.host_port + i /\ m.container_port + ((m.host_port + i) - m.host_port) = m.container_port + i
  BY <1>1, <1>5, <1>6
<1>8. t.port[1] <= m.host_port + i /\ m.host_port + i <= t.port[2]
  BY <1>3, <1>4, <1>7, Zenon, ZenonT(60)
<1>9. t.to[1] + ((m.host_port + i) - t.port[1]) = m.container_port + i
  BY <1>3, <1>7, Zenon, ZenonT(60)
<1> QED
  BY <1>3, <1>8, <1>9, Zenon, ZenonT(60) DEF Carries

\* add_source_subnets_to_zone stops at the first subnet that is in the zone, and
\* setups of one network run at the same time; still, when all have ended, every
\* subnet of a network with a container that is up is in the zone.
THEOREM SourcesAreServed ==
    ASSUME Apart
    PROVE  Spec => []SourcesServed
<1>1. DriverInv /\ OrderInv /\ SourcesInv => SourcesServed
  <2> SUFFICES ASSUME DriverInv, OrderInv, SourcesInv, Quiet, NEW p \in Procs, Served(p), Net(p) \notin mixed,
                      \A q \in Procs : Net(q) = Net(p) => pc[q] # "failed"
               PROVE  SubnetsOf(Net(p)) \subseteq sources
    BY DEF SourcesServed
  <2>1. Net(p) \in Networks /\ NoneFailed(Net(p))
    BY SubnetFacts, Zenon, ZenonT(60) DEF NoneFailed
  <2>2. Chain(Net(p)) /\ First(p)
    BY <2>1 DEF SourcesInv
  <2>3. Up(p) /\ p \notin stale /\ pc[p] = "done"
    BY Zenon, ZenonT(60) DEF Served, Up, IsSetup, IsTeardown
  <2>4. Subnets[Net(p)] # <<>> => Has(Net(p), 1) /\ 1 \in 1 .. Len(Subnets[Net(p)])
    BY Zenon, ZenonT(60), <2>2, <2>3, SubnetFacts DEF First
  <2>5. ASSUME NEW j \in 1 .. Len(Subnets[Net(p)]) PROVE Has(Net(p), j)
    <3> SUFFICES ASSUME ~Has(Net(p), j) PROVE FALSE
      OBVIOUS
    <3>0. Subnets[Net(p)] # <<>>
      BY <2>5
    <3>1. 1 \in 1 .. Len(Subnets[Net(p)]) /\ Has(Net(p), 1) /\ 1 < j
      <4>1. j # 1
        BY <2>4, <3>0
      <4>2. 1 < j
        BY <2>5, <4>1
      <4> QED
        BY <2>4, <3>0, <4>2, ZenonT(60), ZenonT(90)
    <3>2. PICK r \in Procs : Adding(r)
      BY <2>2, <2>5, <3>1, Zenon, ZenonT(60) DEF Chain
    <3> QED
      BY <3>2 DEF Quiet, Running, Adding, Ended
  <2>6. Subnets[Net(p)] \in Seq(UNION {Range(Subnets[n]) : n \in Networks})
    BY <2>1, FirewalldAssumption
  <2>7. DOMAIN Subnets[Net(p)] = 1 .. Len(Subnets[Net(p)])
    BY <2>6
  <2>8. \A j \in DOMAIN Subnets[Net(p)] : Subnets[Net(p)][j] \in sources
    BY <2>5, <2>7 DEF Has
  <2> QED
    BY <2>8 DEF SubnetsOf, Range
<1>2. Init => DriverInv /\ OrderInv /\ SourcesInv
  BY DriverInit, ServedInit
<1>3. DriverInv /\ OrderInv /\ SourcesInv /\ [Next]_vars => (DriverInv /\ OrderInv /\ SourcesInv)'
  BY DriverNext, OrderNext, SourcesNext
<1> QED
  BY <1>1, <1>2, <1>3, PTL DEF Spec

\* setup_port_forward: every port of every mapping leads to the container until
\* its teardown, whatever other invocations read and write, unless the write fell
\* between another's read and write.
THEOREM PortsAreForwarded ==
    ASSUME Fitting
    PROVE  Spec => []PortsForwarded
<1>1. DriverInv /\ KeptInv => PortsForwarded
  <2> SUFFICES ASSUME KeptInv, NEW p \in Procs, Served(p), p \notin raced, NEW m \in Mappings[Ctr(p)], m.host_ip = None,
                      NEW i \in 0 .. (IF m.range > 1 THEN m.range - 1 ELSE 0), NEW a \in Addresses(Ctr(p), Net(p))
               PROVE  Leads(m.host_port + i, m.container_port + i, a)
    BY ZenonT(60), ZenonT(90) DEF PortsForwarded
  <2>1. PICK t : t = MakePortTuple(m, a)
    BY Zenon, ZenonT(60)
  <2>2. Carries(t, m.host_port + i, m.container_port + i, a)
    <3>1. PICK c \in Containers : c = Ctr(p)
      BY SubnetFacts, Zenon, ZenonT(60)
    <3>2. m \in Mappings[c]
      BY <3>1, Zenon, ZenonT(60)
    <3> QED
      BY <2>1, <3>2, TupleLeads, Zenon, ZenonT(60)
  <2>3. t \in Own(p)
    <3>1. t \in PortTuples(Ctr(p), Net(p))
      BY <2>1 DEF PortTuples
    <3>2. t.addr = a
      BY <2>2, Zenon, ZenonT(60) DEF Carries
    <3> QED
      BY <3>1, <3>2, Zenon, ZenonT(60) DEF Own
  <2>4. t \in ports
    BY <2>3, Zenon, ZenonT(60) DEF KeptInv, Kept
  <2> QED
    BY <2>2, <2>4, Zenon, ZenonT(60) DEF Leads, Carries
<1>2. Init => DriverInv /\ KeptInv
  BY DriverInit, ServedInit
<1>3. DriverInv /\ KeptInv /\ [Next]_vars => (DriverInv /\ KeptInv)'
  BY DriverNext, KeptNext
<1> QED
  BY <1>1, <1>2, <1>3, PTL DEF Spec

\* teardown_port_forward and teardown_network: nothing leads to a container that
\* is torn down, and a network without containers has no source and no rule.
THEOREM DriverCleansUp ==
    ASSUME Apart, Outside
    PROVE  Spec => []NothingLeft
<1> DEFINE Inv == DriverInv /\ OrderInv /\ SourcesInv /\ GoneInv /\ RuleInv
<1>1. Inv => NothingLeft
  <2> SUFFICES ASSUME Inv PROVE NothingLeft
    OBVIOUS
  <2>1. ASSUME NEW p \in Procs, Down(p), p \notin raced PROVE \A t \in ports : t.addr \notin Addresses(Ctr(p), Net(p))
    BY <2>1, ZenonT(60), ZenonT(90) DEF GoneInv, Gone, Down, IsTeardown, Without
  <2>2. ASSUME Quiet, NEW n \in Networks \ mixed, attached[n] = {},
               \A p \in Procs : Cmd[p].kind = "teardown" /\ Net(p) = n => pc[p] # "failed" /\ p \notin raced
        PROVE  SubnetsOf(n) \cap sources = {} /\ n \notin rich
    <3>1. TornDown(n) /\ Undisturbed(n)
      BY <2>2, Zenon, ZenonT(60) DEF TornDown, Undisturbed, IsTeardown
    <3>2. Cleared(n) /\ Unruled(n)
      BY <3>1 DEF SourcesInv, RuleInv
    <3>3. \A p \in Procs : pc[p] \notin {"remove_source", "get_settings", "set_settings"}
      BY <2>2 DEF Quiet, Running, Ended
    <3> QED
      BY <2>2, <3>1, <3>2, <3>3, ZenonT(60), ZenonT(90) DEF Cleared, Unruled, Ruleless, Removes, Writing
  <2> QED
    BY <2>1, <2>2, Zenon, ZenonT(60) DEF NothingLeft
<1>2. Init => Inv
  BY DriverInit, ServedInit
<1>3. Inv /\ [Next]_vars => Inv'
  BY DriverNext, OrderNext, SourcesNext, GoneNext, RuleNext
<1> QED
  BY <1>1, <1>2, <1>3, PTL DEF Spec
=============================================================================
