-------------------------- MODULE DhcpProxyProofs ---------------------------
(***************************************************************************)
(* Proofs about DhcpProxy: a container that is up has its lease on record, *)
(* and a lease on record belongs to a container that is still to be torn   *)
(* down, for every number of containers, leases and failures.              *)
(***************************************************************************)
EXTENDS DhcpProxy, TLAPS

\* Time enough for the provers on a busy machine, and a second try.
USE SMTT(30), ZenonT(30), Z3T(30)

MaybeLease == Leases \cup {None}

Clients == {"idle", "setup", "setup_failed", "up", "teardown", "teardown_failed", "del_link", "down", "killed"}

Tasks == {"none", "received", "spawned", "dora", "add", "ip"}

Tears == {"none", "received", "remove", "release", "release_blank"}

Shapes ==
    /\ mem \in [Containers -> MaybeLease]
    /\ offer \in [Containers -> MaybeLease]
    /\ task \in [Containers -> Tasks]
    /\ tear \in [Containers -> Tears]
    /\ client \in [Containers -> Clients]
    /\ faults \in 0 .. MaxFaults

\* A daemon that does not run has no map and no requests.
Down == ~up => \A c \in Containers : mem[c] = None /\ task[c] = "none" /\ tear[c] = "none"

\* The setup request of a container: its client waits for it or was killed, and
\* an answer is owed to a client only with the lease on record.
SetupOf(c) ==
    /\ c \in dropped => client[c] \notin {"idle", "setup", "up"}
    /\ task[c] # "none" => client[c] = "setup" \/ c \in dropped
    /\ task[c] = "add" => offer[c] # None
    /\ task[c] = "ip" /\ c \notin dropped => mem[c] # None \/ c \in wiped
    /\ client[c] = "up" => mem[c] # None \/ c \in wiped

\* The teardown request: it begins after the setup request has ended, unless the
\* client of that one was killed, and what it takes out of the map stays out.
TeardownOf(c) ==
    /\ client[c] \in {"idle", "setup", "setup_failed", "up"} => tear[c] = "none"
    /\ client[c] = "idle" => mem[c] = None
    /\ c \notin dropped /\ (tear[c] \in {"release", "release_blank"} \/ client[c] \in {"del_link", "down"})
         => mem[c] = None

ProxyInv == Shapes /\ Down /\ \A c \in Containers : SetupOf(c) /\ TeardownOf(c)

\* What a step about one container leaves to another.
Same(k) ==
    /\ mem'[k] = mem[k] /\ offer'[k] = offer[k] /\ task'[k] = task[k] /\ tear'[k] = tear[k]
    /\ client'[k] = client[k] /\ (k \in dropped' <=> k \in dropped) /\ (k \in wiped' <=> k \in wiped)

-----------------------------------------------------------------------------
\* The bound on failures, of a call and of save_memory_to_fs.
LEMMA FaultCounted ==
    ASSUME faults \in 0 .. MaxFaults, Fault \/ UNCHANGED faults \/ \E m, ok : Save(m, ok)
    PROVE  faults' \in 0 .. MaxFaults
<1>1. Fault \/ UNCHANGED faults
  BY DEF Save
<1> QED
  BY <1>1, ProxyAssumption DEF Fault

\* A step about one container preserves the invariant when it does so for that
\* container.
LEMMA OneContainer ==
    ASSUME ProxyInv, NEW c \in Containers, Shapes', Down', SetupOf(c)', TeardownOf(c)',
           \A k \in Containers \ {c} : Same(k)
    PROVE  ProxyInv'
<1>1. ASSUME NEW k \in Containers, k # c PROVE SetupOf(k)' /\ TeardownOf(k)'
  <2>1. SetupOf(k) /\ TeardownOf(k) /\ Same(k)
    BY <1>1 DEF ProxyInv
  <2>2. SetupOf(k)'
    BY <2>1 DEF SetupOf, Same
  <2>3. TeardownOf(k)'
    BY <2>1 DEF TeardownOf, Same
  <2> QED
    BY <2>2, <2>3
<1> QED
  BY <1>1 DEF ProxyInv

\* The end of a setup request, whatever its result: the client is answered if it
\* is still there.
LEMMA EndSetupEffect ==
    ASSUME Shapes, NEW c \in Containers, NEW ok \in BOOLEAN, EndSetup(c, ok)
    PROVE  /\ client' \in [Containers -> Clients] /\ task' \in [Containers -> Tasks]
           /\ offer' \in [Containers -> MaybeLease]
           /\ \A k \in Containers \ {c} : client'[k] = client[k] /\ task'[k] = task[k] /\ offer'[k] = offer[k]
           /\ task'[c] = "none"
           /\ client[c] # "setup" => client'[c] = client[c]
           /\ client[c] = "setup" => client'[c] \in {"up", "setup_failed"}
           /\ client'[c] = "up" => ok \/ client[c] = "up"
<1>1. /\ task' = [task EXCEPT ![c] = "none"] /\ offer' = [offer EXCEPT ![c] = None]
      /\ task \in [Containers -> Tasks] /\ offer \in [Containers -> MaybeLease]
  BY DEF EndSetup, Shapes
<1>2. PICK r \in {"up", "setup_failed"} :
        client' = (IF client[c] # "setup" THEN client ELSE [client EXCEPT ![c] = r]) /\ (r = "up" => ok)
  BY Zenon, ZenonT(60) DEF EndSetup, Answered
<1>3. client \in [Containers -> Clients] /\ r \in Clients
  BY DEF Shapes, Clients
<1>4. /\ client' \in [Containers -> Clients] /\ \A k \in Containers \ {c} : client'[k] = client[k]
      /\ client[c] # "setup" => client'[c] = client[c]
      /\ client[c] = "setup" => client'[c] = r
  BY <1>2, <1>3
<1>5. /\ task' \in [Containers -> Tasks] /\ task'[c] = "none"
      /\ \A k \in Containers \ {c} : task'[k] = task[k]
  BY <1>1 DEF Tasks
<1>6. None \in MaybeLease /\ offer' \in [Containers -> MaybeLease] /\ \A k \in Containers \ {c} : offer'[k] = offer[k]
  BY <1>1 DEF MaybeLease
<1> QED
  BY <1>2, <1>4, <1>5, <1>6

\* A setup request that ends without an address: its client may have been told
\* that it failed.
LEMMA SetupFails ==
    ASSUME ProxyInv, NEW c \in Containers, task[c] # "none", EndSetup(c, FALSE), faults' \in 0 .. MaxFaults,
           mem' \in [Containers -> MaybeLease], \A k \in Containers \ {c} : mem'[k] = mem[k],
           mem'[c] = mem[c] \/ task[c] = "add", UNCHANGED <<up, tear, ghostVars>>
    PROVE  ProxyInv'
<1>1. Shapes /\ Down /\ SetupOf(c) /\ TeardownOf(c)
  BY DEF ProxyInv
<1>2. /\ client' \in [Containers -> Clients] /\ task' \in [Containers -> Tasks]
      /\ offer' \in [Containers -> MaybeLease]
      /\ \A k \in Containers \ {c} : client'[k] = client[k] /\ task'[k] = task[k] /\ offer'[k] = offer[k]
      /\ task'[c] = "none"
      /\ client[c] # "setup" => client'[c] = client[c]
      /\ client[c] = "setup" => client'[c] \in {"up", "setup_failed"}
      /\ client'[c] = "up" => client[c] = "up"
  BY Zenon, ZenonT(60), <1>1, EndSetupEffect
<1>3. client[c] = "setup" \/ c \in dropped
  BY <1>1 DEF SetupOf
<1>4. client'[c] = client[c] \/ (client[c] = "setup" /\ client'[c] = "setup_failed")
  BY <1>2
<1>5. client'[c] \notin {"idle", "setup", "up"} /\ up
  BY <1>1, <1>2, <1>3 DEF SetupOf, Down
<1>6. Shapes'
  BY <1>1, <1>2 DEF Shapes
<1>7. Down'
  BY <1>5 DEF Down
<1>8. SetupOf(c)'
  BY <1>2, <1>5 DEF SetupOf, ghostVars
<1>9. TeardownOf(c)'
  BY <1>1, <1>3, <1>4, <1>5 DEF TeardownOf, ghostVars
<1>10. \A k \in Containers \ {c} : Same(k)
  BY <1>2 DEF Same, ghostVars
<1> QED
  BY <1>6, <1>7, <1>8, <1>9, <1>10, OneContainer

\* The steps of a setup request up to the lease.
LEMMA ExchangeSteps ==
    ASSUME ProxyInv, NEW c \in Containers, SpawnSetup(c) \/ StartDora(c) \/ Dora(c)
    PROVE  ProxyInv'
<1>1. Shapes /\ Down /\ SetupOf(c) /\ TeardownOf(c)
  BY DEF ProxyInv
<1>2. task[c] # "none" /\ UNCHANGED <<up, mem, tear, ghostVars, faults>>
  BY Zenon, ZenonT(60) DEF SpawnSetup, StartDora, Dora, cacheVars
<1>3. CASE EndSetup(c, FALSE)
  <2>1. mem' \in [Containers -> MaybeLease] /\ faults' \in 0 .. MaxFaults
    BY <1>1, <1>2 DEF Shapes
  <2> QED
    BY Zenon, ZenonT(60), <1>2, <1>3, <2>1, SetupFails
<1>4. CASE ~EndSetup(c, FALSE)
  <2>1. PICK l \in MaybeLease, t \in {"spawned", "dora", "add"} :
          /\ offer' = [offer EXCEPT ![c] = l] /\ task' = [task EXCEPT ![c] = t] /\ UNCHANGED client
          /\ t = "add" => l # None
    <3>1. CASE SpawnSetup(c) \/ StartDora(c)
      <4>1. PICK t \in {"spawned", "dora"} : offer' = offer /\ task' = [task EXCEPT ![c] = t] /\ UNCHANGED client
        BY Zenon, ZenonT(60), <1>4, <3>1 DEF SpawnSetup, StartDora, clientVars
      <4>2. offer' = [offer EXCEPT ![c] = offer[c]] /\ offer[c] \in MaybeLease
        BY <1>1, <4>1 DEF Shapes
      <4>3. t \in {"spawned", "dora", "add"} /\ t # "add"
        BY <4>1
      <4> QED
        BY Zenon, ZenonT(60), <4>1, <4>2, <4>3
    <3>2. CASE Dora(c)
      <4>1. PICK l \in Leases :
              offer' = [offer EXCEPT ![c] = l] /\ task' = [task EXCEPT ![c] = "add"] /\ UNCHANGED client
        BY Zenon, ZenonT(60), <1>4, <3>2 DEF Dora, clientVars
      <4>2. l \in MaybeLease /\ l # None
        BY ProxyAssumption DEF MaybeLease
      <4> QED
        BY Zenon, ZenonT(60), <4>1, <4>2
    <3> QED
      BY <3>1, <3>2
  <2>2. /\ offer' \in [Containers -> MaybeLease] /\ offer'[c] = l
        /\ task' \in [Containers -> Tasks] /\ task'[c] = t
        /\ \A k \in Containers \ {c} : offer'[k] = offer[k] /\ task'[k] = task[k]
    BY <1>1, <2>1 DEF Shapes, Tasks
  <2>3. Shapes'
    BY <1>1, <1>2, <2>1, <2>2 DEF Shapes
  <2>4. Down'
    BY <1>1, <1>2 DEF Down
  <2>5. SetupOf(c)'
    BY <1>1, <1>2, <2>1, <2>2 DEF SetupOf, ghostVars
  <2>6. TeardownOf(c)'
    BY <1>1, <1>2, <2>1 DEF TeardownOf, ghostVars
  <2>7. \A k \in Containers \ {c} : Same(k)
    BY <1>2, <2>1, <2>2 DEF Same, ghostVars
  <2> QED
    BY <2>3, <2>4, <2>5, <2>6, <2>7, OneContainer
<1> QED
  BY Zenon, ZenonT(60), <1>3, <1>4

\* add_lease: the lease is on record before ip::setup runs; a failed save ends
\* the request with the lease in the map.
LEMMA CacheLeaseStep ==
    ASSUME ProxyInv, NEW c \in Containers, CacheLease(c)
    PROVE  ProxyInv'
<1>1. Shapes /\ Down /\ SetupOf(c) /\ TeardownOf(c)
  BY DEF ProxyInv
<1>2. task[c] = "add" /\ UNCHANGED <<up, tear, ghostVars>> /\ mem' = [mem EXCEPT ![c] = offer[c]]
  BY Zenon, ZenonT(60) DEF CacheLease, AddLease
<1>3. offer[c] \in MaybeLease /\ offer[c] # None /\ mem \in [Containers -> MaybeLease]
  BY <1>1, <1>2 DEF SetupOf, Shapes
<1>4. mem' \in [Containers -> MaybeLease] /\ mem'[c] # None /\ \A k \in Containers \ {c} : mem'[k] = mem[k]
  BY <1>2, <1>3
<1>5. faults' \in 0 .. MaxFaults
  <2>1. \E m, ok : Save(m, ok)
    BY Zenon, ZenonT(60) DEF CacheLease, AddLease
  <2>2. faults \in 0 .. MaxFaults
    BY <1>1 DEF Shapes
  <2> QED
    BY <2>1, <2>2, FaultCounted
<1>6. CASE EndSetup(c, FALSE)
  BY Zenon, ZenonT(60), <1>2, <1>4, <1>5, <1>6, SetupFails
<1>7. CASE ~EndSetup(c, FALSE)
  <2>1. task' = [task EXCEPT ![c] = "ip"] /\ UNCHANGED <<offer, client>>
    BY Zenon, ZenonT(60), <1>7 DEF CacheLease, clientVars
  <2>2. /\ task' \in [Containers -> Tasks] /\ task'[c] = "ip"
        /\ \A k \in Containers \ {c} : task'[k] = task[k]
    BY <1>1, <2>1 DEF Shapes, Tasks
  <2>3. client[c] = "setup" \/ c \in dropped
    BY <1>1, <1>2 DEF SetupOf
  <2>4. Shapes'
    BY <1>1, <1>2, <1>4, <1>5, <2>1, <2>2 DEF Shapes
  <2>5. Down'
    BY <1>1, <1>2 DEF Down
  <2>6. SetupOf(c)'
    BY <1>1, <1>2, <1>4, <2>1, <2>2, <2>3 DEF SetupOf, ghostVars
  <2>7. TeardownOf(c)'
    BY <1>1, <1>2, <2>1, <2>3 DEF TeardownOf, SetupOf, ghostVars
  <2>8. \A k \in Containers \ {c} : Same(k)
    BY <1>2, <1>4, <2>1, <2>2 DEF Same, ghostVars
  <2> QED
    BY <2>4, <2>5, <2>6, <2>7, <2>8, OneContainer
<1> QED
  BY Zenon, ZenonT(60), <1>6, <1>7

\* ip::setup and the answer: a client that is told it is up has its lease on
\* record.
LEMMA IpSetupStep ==
    ASSUME ProxyInv, NEW c \in Containers, IpSetup(c)
    PROVE  ProxyInv'
<1>1. Shapes /\ Down /\ SetupOf(c) /\ TeardownOf(c)
  BY DEF ProxyInv
<1>2. task[c] = "ip" /\ UNCHANGED <<up, mem, tear, ghostVars, faults>>
  BY DEF IpSetup, cacheVars
<1>3. PICK ok \in BOOLEAN : EndSetup(c, ok)
  BY DEF IpSetup
<1>4. /\ client' \in [Containers -> Clients] /\ task' \in [Containers -> Tasks]
      /\ offer' \in [Containers -> MaybeLease]
      /\ \A k \in Containers \ {c} : client'[k] = client[k] /\ task'[k] = task[k] /\ offer'[k] = offer[k]
      /\ task'[c] = "none"
      /\ client[c] # "setup" => client'[c] = client[c]
      /\ client[c] = "setup" => client'[c] \in {"up", "setup_failed"}
  BY <1>1, <1>3, EndSetupEffect
<1>5. client[c] = "setup" \/ c \in dropped
  BY <1>1, <1>2 DEF SetupOf
<1>6. Shapes'
  BY <1>1, <1>2, <1>4 DEF Shapes
<1>7. Down'
  BY <1>1, <1>2 DEF Down
<1>8. SetupOf(c)'
  BY <1>1, <1>2, <1>4, <1>5 DEF SetupOf, ghostVars
<1>9. TeardownOf(c)'
  BY <1>1, <1>2, <1>4, <1>5 DEF TeardownOf, ghostVars
<1>10. \A k \in Containers \ {c} : Same(k)
  BY <1>2, <1>4 DEF Same, ghostVars
<1> QED
  BY <1>6, <1>7, <1>8, <1>9, <1>10, OneContainer

-----------------------------------------------------------------------------
\* A teardown request that ends.
LEMMA EndTeardownEffect ==
    ASSUME Shapes, NEW c \in Containers, NEW r \in {"del_link", "teardown_failed"}, EndTeardown(c, r)
    PROVE  /\ client' \in [Containers -> Clients] /\ tear' \in [Containers -> Tears]
           /\ \A k \in Containers \ {c} : client'[k] = client[k] /\ tear'[k] = tear[k]
           /\ tear'[c] = "none" /\ (client'[c] = client[c] \/ client'[c] = r)
           /\ client[c] # "teardown" => client'[c] = client[c]
<1>1. /\ client' = (IF client[c] # "teardown" THEN client ELSE [client EXCEPT ![c] = r])
      /\ tear' = [tear EXCEPT ![c] = "none"]
  BY DEF EndTeardown
<1>2. client \in [Containers -> Clients] /\ tear \in [Containers -> Tears]
  BY DEF Shapes
<1>3. r \in Clients
  BY DEF Clients
<1>4. /\ client' \in [Containers -> Clients] /\ \A k \in Containers \ {c} : client'[k] = client[k]
      /\ client'[c] = client[c] \/ client'[c] = r
      /\ client[c] # "teardown" => client'[c] = client[c]
  BY <1>1, <1>2, <1>3
<1>5. /\ tear' \in [Containers -> Tears] /\ tear'[c] = "none"
      /\ \A k \in Containers \ {c} : tear'[k] = tear[k]
  BY <1>1, <1>2 DEF Tears
<1> QED
  BY <1>4, <1>5

\* remove_lease takes the container's own lease out of the map and no other.
LEMMA RemoveLeaseEffect ==
    ASSUME Shapes, NEW c \in Containers, NEW ok \in BOOLEAN, RemoveLease(c, ok)
    PROVE  /\ mem' \in [Containers -> MaybeLease] /\ mem'[c] = None
           /\ \A k \in Containers \ {c} : mem'[k] = mem[k]
           /\ faults' \in 0 .. MaxFaults
<1>1. mem \in [Containers -> MaybeLease] /\ None \in MaybeLease /\ faults \in 0 .. MaxFaults
  BY DEF Shapes, MaybeLease
<1>2. (mem[c] = None /\ mem' = mem) \/ mem' = [mem EXCEPT ![c] = None]
  BY DEF RemoveLease, cacheVars
<1>3. UNCHANGED faults \/ \E m, b : Save(m, b)
  BY DEF RemoveLease
<1>4. faults' \in 0 .. MaxFaults
  BY <1>1, <1>3, FaultCounted
<1> QED
  BY <1>1, <1>2, <1>4

\* The two halves of a teardown request: what was taken out of the map stays
\* out, and the client goes on to del_link only then.
LEMMA TeardownSteps ==
    ASSUME ProxyInv, NEW c \in Containers, TakeLease(c) \/ ReleaseLease(c)
    PROVE  ProxyInv'
<1>1. Shapes /\ Down /\ SetupOf(c) /\ TeardownOf(c)
  BY DEF ProxyInv
<1>2. tear[c] # "none" /\ UNCHANGED <<up, task, offer, ghostVars>>
  BY Zenon, ZenonT(60) DEF TakeLease, ReleaseLease
<1>3. client[c] \notin {"idle", "setup", "setup_failed", "up"} /\ up
  BY <1>1, <1>2 DEF TeardownOf, Down
<1>4. task[c] # "none" => c \in dropped
  BY <1>1, <1>3 DEF SetupOf
<1>5. /\ mem' \in [Containers -> MaybeLease] /\ \A k \in Containers \ {c} : mem'[k] = mem[k]
      /\ faults' \in 0 .. MaxFaults
      /\ c \notin dropped => mem'[c] = None
  <2>1. CASE TakeLease(c)
    <3>1. \E ok \in BOOLEAN : RemoveLease(c, ok)
      BY Zenon, ZenonT(60), <2>1 DEF TakeLease
    <3> QED
      BY <1>1, <3>1, RemoveLeaseEffect
  <2>2. CASE ReleaseLease(c)
    <3>1. tear[c] \in {"release", "release_blank"} /\ UNCHANGED <<mem, faults>>
      BY <2>2 DEF ReleaseLease, cacheVars
    <3> QED
      BY <1>1, <3>1 DEF TeardownOf, Shapes
  <2> QED
    BY <2>1, <2>2
<1>6. /\ client' \in [Containers -> Clients] /\ tear' \in [Containers -> Tears]
      /\ \A k \in Containers \ {c} : client'[k] = client[k] /\ tear'[k] = tear[k]
      /\ client'[c] \in {client[c], "del_link", "teardown_failed"}
  <2>1. CASE \E r \in {"del_link", "teardown_failed"} : EndTeardown(c, r)
    BY <1>1, <2>1, EndTeardownEffect
  <2>2. CASE \A r \in {"del_link", "teardown_failed"} : ~EndTeardown(c, r)
    <3>1. PICK t \in {"release", "release_blank"} : tear' = [tear EXCEPT ![c] = t] /\ UNCHANGED client
      BY Zenon, ZenonT(60), <2>2 DEF TakeLease, ReleaseLease
    <3> QED
      BY <1>1, <3>1 DEF Shapes, Tears
  <2> QED
    BY <2>1, <2>2
<1>7. Shapes'
  BY <1>1, <1>2, <1>5, <1>6 DEF Shapes
<1>8. Down'
  BY <1>2, <1>3 DEF Down
<1>9. client'[c] \notin {"idle", "setup", "setup_failed", "up"}
  BY <1>3, <1>6
<1>10. SetupOf(c)'
  BY <1>1, <1>2, <1>4, <1>9 DEF SetupOf, ghostVars
<1>11. TeardownOf(c)'
  BY <1>2, <1>5, <1>9 DEF TeardownOf, ghostVars
<1>12. \A k \in Containers \ {c} : Same(k)
  BY <1>2, <1>5, <1>6 DEF Same, ghostVars
<1> QED
  BY <1>7, <1>8, <1>10, <1>11, <1>12, OneContainer

\* The handler of teardown up to its thread, which takes nothing from the map.
LEMMA SpawnTeardownStep ==
    ASSUME ProxyInv, NEW c \in Containers, SpawnTeardown(c)
    PROVE  ProxyInv'
<1>1. Shapes /\ Down /\ SetupOf(c) /\ TeardownOf(c)
  BY DEF ProxyInv
<1>2. tear[c] = "received" /\ UNCHANGED <<up, mem, task, offer, client, ghostVars, faults>>
  BY DEF SpawnTeardown, cacheVars, clientVars
<1>3. PICK t \in {"none", "remove"} : tear' = [tear EXCEPT ![c] = t]
  BY Zenon, ZenonT(60) DEF SpawnTeardown
<1>4. tear' \in [Containers -> Tears] /\ tear'[c] = t /\ \A k \in Containers \ {c} : tear'[k] = tear[k]
  BY <1>1, <1>3 DEF Shapes, Tears
<1>5. Shapes'
  BY <1>1, <1>2, <1>4 DEF Shapes
<1>6. up
  BY <1>1, <1>2 DEF Down
<1>7. Down'
  BY <1>2, <1>6 DEF Down
<1>8. SetupOf(c)'
  BY <1>1, <1>2 DEF SetupOf, ghostVars
<1>9. TeardownOf(c)'
  BY <1>1, <1>2, <1>4 DEF TeardownOf, ghostVars
<1>10. \A k \in Containers \ {c} : Same(k)
  BY <1>2, <1>4 DEF Same, ghostVars
<1> QED
  BY <1>5, <1>7, <1>8, <1>9, <1>10, OneContainer

\* The steps of the client: it connects for a setup or a teardown, goes on after
\* the answer, or dies.
LEMMA ClientSteps ==
    ASSUME ProxyInv, NEW c \in Containers,
           GetDhcpLease(c) \/ ReleaseDhcpLease(c) \/ DelLink(c) \/ ClientKilled(c)
    PROVE  ProxyInv'
<1>1. Shapes /\ Down /\ SetupOf(c) /\ TeardownOf(c)
  BY DEF ProxyInv
<1>2. UNCHANGED <<up, mem, offer, wiped>>
  BY DEF GetDhcpLease, ReleaseDhcpLease, DelLink, ClientKilled, cacheVars, ghostVars
<1>3. PICK r \in Clients, t \in Tears, s \in Tasks :
        /\ client' = [client EXCEPT ![c] = r] /\ tear' = [tear EXCEPT ![c] = t] /\ task' = [task EXCEPT ![c] = s]
        /\ \/ client[c] = "idle" /\ r = "setup" /\ up /\ t = tear[c] /\ s = "received" /\ UNCHANGED <<dropped, faults>>
           \/ client[c] = "idle" /\ r = "setup_failed" /\ t = tear[c] /\ s = task[c] /\ UNCHANGED <<dropped, faults>>
           \/ /\ client[c] \in {"up", "setup_failed", "killed", "teardown_failed"}
              /\ (up /\ r = "teardown" /\ t = "received") \/ (r = "teardown_failed" /\ t = tear[c])
              /\ s = task[c] /\ UNCHANGED <<dropped, faults>>
           \/ client[c] = "del_link" /\ r = "down" /\ t = tear[c] /\ s = task[c] /\ UNCHANGED <<dropped, faults>>
           \/ /\ client[c] \in {"setup", "teardown", "del_link"} /\ r = "killed" /\ t = tear[c] /\ s = task[c] /\ Fault
              /\ dropped' = IF client[c] = "setup" THEN dropped \cup {c} ELSE dropped
  <2>1. /\ tear = [tear EXCEPT ![c] = tear[c]] /\ tear[c] \in Tears
        /\ task = [task EXCEPT ![c] = task[c]] /\ task[c] \in Tasks
    BY <1>1 DEF Shapes
  <2>2. CASE GetDhcpLease(c)
    BY <2>1, <2>2 DEF GetDhcpLease, GetClient, Clients, Tasks, ghostVars
  <2>3. CASE ReleaseDhcpLease(c)
    BY <2>1, <2>3, ZenonT(60), ZenonT(90) DEF ReleaseDhcpLease, GetClient, Clients, Tears, ghostVars
  <2>4. CASE DelLink(c)
    BY <2>1, <2>4 DEF DelLink, Clients, ghostVars
  <2>5. CASE ClientKilled(c)
    BY <2>1, <2>5, ZenonT(60), ZenonT(90) DEF ClientKilled, Clients
  <2> QED
    BY Zenon, ZenonT(60), <2>2, <2>3, <2>4, <2>5
<1>4. /\ client' \in [Containers -> Clients] /\ client'[c] = r
      /\ tear' \in [Containers -> Tears] /\ tear'[c] = t
      /\ task' \in [Containers -> Tasks] /\ task'[c] = s
      /\ \A k \in Containers \ {c} : client'[k] = client[k] /\ tear'[k] = tear[k] /\ task'[k] = task[k]
  BY <1>1, <1>3 DEF Shapes
<1>5. \A k \in Containers \ {c} : k \in dropped' <=> k \in dropped
  BY <1>3
<1>6. faults' \in 0 .. MaxFaults
  BY <1>1, <1>3, FaultCounted DEF Shapes
<1>7. Shapes'
  BY <1>1, <1>2, <1>4, <1>6 DEF Shapes
<1>8. Down'
  BY <1>1, <1>2, <1>3, <1>4 DEF Down
<1>9. SetupOf(c)'
  BY <1>1, <1>2, <1>3, <1>4 DEF SetupOf
<1>10. TeardownOf(c)'
  BY <1>1, <1>2, <1>3, <1>4 DEF TeardownOf
<1>11. \A k \in Containers \ {c} : Same(k)
  BY <1>2, <1>4, <1>5 DEF Same
<1> QED
  BY <1>7, <1>8, <1>9, <1>10, <1>11, OneContainer

-----------------------------------------------------------------------------
\* Clean and the end of the daemon empty the map: a lease that was in it is
\* accounted for, and the timer ends the daemon only when there is none.
LEMMA StopStep ==
    ASSUME ProxyInv, Stop, dropped' = dropped, faults' \in 0 .. MaxFaults, wiped \subseteq wiped',
           \A c \in Containers : mem[c] # None => c \in wiped'
    PROVE  ProxyInv'
<1>1. Shapes /\ Down
  BY DEF ProxyInv
<1>2. /\ mem' = NoLeases /\ offer' = NoLeases
      /\ task' = [c \in Containers |-> "none"] /\ tear' = [c \in Containers |-> "none"]
      /\ client' = [c \in Containers |-> IF client[c] = "setup" THEN "setup_failed"
                                         ELSE IF client[c] = "teardown" THEN "teardown_failed"
                                         ELSE client[c]]
  BY DEF Stop
<1>3. /\ mem' \in [Containers -> MaybeLease] /\ offer' \in [Containers -> MaybeLease]
      /\ \A c \in Containers : mem'[c] = None /\ task'[c] = "none" /\ tear'[c] = "none"
  BY <1>2 DEF NoLeases, MaybeLease
<1>4. client' \in [Containers -> Clients]
  BY <1>1, <1>2 DEF Shapes, Clients
<1>5. Shapes'
  BY <1>2, <1>3, <1>4 DEF Shapes, Tasks, Tears
<1>6. Down'
  BY <1>3 DEF Down
<1>7. ASSUME NEW c \in Containers PROVE SetupOf(c)' /\ TeardownOf(c)'
  <2>1. SetupOf(c)
    BY DEF ProxyInv
  <2>2. /\ client'[c] \in {client[c], "setup_failed", "teardown_failed"} /\ client'[c] # "setup"
        /\ mem'[c] = None /\ task'[c] = "none" /\ tear'[c] = "none"
    BY <1>2, <1>3
  <2>3. SetupOf(c)'
    BY <2>1, <2>2 DEF SetupOf
  <2>4. TeardownOf(c)'
    BY <2>2 DEF TeardownOf
  <2> QED
    BY <2>3, <2>4
<1> QED
  BY <1>5, <1>6, <1>7 DEF ProxyInv

\* The steps of the daemon: it starts, empties its map, counts activity and ends.
LEMMA DaemonSteps ==
    ASSUME ProxyInv, Clean \/ Serve \/ TimerReset \/ TimerExpires \/ Killed
    PROVE  ProxyInv'
<1>1. Shapes /\ Down /\ faults \in 0 .. MaxFaults
  BY DEF ProxyInv, Shapes
<1>2. CASE TimerExpires
  <2>1. Stop /\ UNCHANGED <<wiped, dropped, faults>> /\ mem = NoLeases
    BY <1>2 DEF TimerExpires, ghostVars
  <2>2. \A c \in Containers : mem[c] = None
    BY <2>1 DEF NoLeases
  <2> QED
    BY <1>1, <2>1, <2>2, StopStep
<1>3. CASE Killed
  <2>1. Stop /\ UNCHANGED dropped /\ Fault /\ wiped' = wiped \cup {c \in Containers : mem[c] # None}
    BY <1>3 DEF Killed
  <2>2. faults' \in 0 .. MaxFaults
    BY <1>1, <2>1, FaultCounted
  <2> QED
    BY <2>1, <2>2, StopStep
<1>4. CASE Clean \/ Serve \/ TimerReset
  <2>1. UNCHANGED <<task, offer, tear, client, dropped>> /\ wiped \subseteq wiped' /\ up'
    BY <1>4 DEF Clean, Serve, TimerReset, clientVars, ghostVars
  <2>2. /\ mem' \in [Containers -> MaybeLease]
        /\ \A c \in Containers : mem'[c] = mem[c] \/ (mem'[c] = None /\ c \in wiped')
    <3>1. CASE Clean
      BY <3>1 DEF Clean, NoLeases, MaybeLease
    <3>2. CASE Serve
      BY <1>1, <3>2 DEF Serve, NoLeases, MaybeLease, Down
    <3>3. CASE TimerReset
      BY <1>1, <3>3 DEF TimerReset, cacheVars, Shapes
    <3> QED
      BY <1>4, <3>1, <3>2, <3>3
  <2>3. faults' \in 0 .. MaxFaults
    <3>1. UNCHANGED faults \/ \E m, ok : Save(m, ok)
      BY <1>4 DEF Clean, Serve, TimerReset
    <3> QED
      BY <1>1, <3>1, FaultCounted
  <2>4. Shapes' /\ Down'
    BY <1>1, <2>1, <2>2, <2>3 DEF Shapes, Down
  <2>5. ASSUME NEW c \in Containers PROVE SetupOf(c)' /\ TeardownOf(c)'
    <3>1. SetupOf(c) /\ TeardownOf(c) /\ (mem'[c] = mem[c] \/ (mem'[c] = None /\ c \in wiped'))
      BY <2>2 DEF ProxyInv
    <3>2. SetupOf(c)'
      BY <2>1, <3>1 DEF SetupOf
    <3>3. TeardownOf(c)'
      BY <2>1, <3>1 DEF TeardownOf
    <3> QED
      BY <3>2, <3>3
  <2> QED
    BY <2>4, <2>5 DEF ProxyInv
<1> QED
  BY <1>2, <1>3, <1>4

-----------------------------------------------------------------------------
\* The proxy starts without leases, streams and tasks.
LEMMA ProxyInit == ASSUME Init PROVE ProxyInv
<1>1. /\ mem = NoLeases /\ offer = NoLeases /\ faults = 0 /\ dropped = {}
      /\ task = [c \in Containers |-> "none"] /\ tear = [c \in Containers |-> "none"]
      /\ client = [c \in Containers |-> "idle"]
  BY DEF Init
<1>2. Shapes
  BY <1>1, ProxyAssumption DEF Shapes, NoLeases, MaybeLease, Clients, Tasks, Tears
<1>3. Down
  BY <1>1 DEF Down, NoLeases
<1>4. \A c \in Containers : SetupOf(c) /\ TeardownOf(c)
  BY <1>1 DEF SetupOf, TeardownOf, NoLeases
<1> QED
  BY <1>2, <1>3, <1>4 DEF ProxyInv

\* Every step of a client, a task or the server keeps the invariant.
LEMMA ProxyNext == ASSUME ProxyInv, [Next]_vars PROVE ProxyInv'
<1>1. CASE UNCHANGED vars
  <2>1. UNCHANGED <<up, mem, offer, task, tear, client, faults, wiped, dropped>>
    BY <1>1 DEF vars, cacheVars, clientVars, ghostVars
  <2>2. Shapes' /\ Down'
    BY <2>1 DEF ProxyInv, Shapes, Down
  <2>3. \A c \in Containers : SetupOf(c)' /\ TeardownOf(c)'
    BY <2>1 DEF ProxyInv, SetupOf, TeardownOf
  <2> QED
    BY <2>2, <2>3 DEF ProxyInv
<1>2. ASSUME NEW c \in Containers,
             Handler(c) \/ GetDhcpLease(c) \/ ReleaseDhcpLease(c) \/ DelLink(c) \/ ClientKilled(c)
      PROVE  ProxyInv'
  BY <1>2, ExchangeSteps, CacheLeaseStep, IpSetupStep, SpawnTeardownStep, TeardownSteps,
     ClientSteps DEF Handler
<1> QED
  BY <1>1, <1>2, DaemonSteps DEF Next

\* The invariant: while its client waits, a setup request that has reached
\* ip::setup has its lease on record; a teardown request runs only after it has
\* ended or lost its client, and what it took out of the map stays out.
THEOREM ProxyKept == Spec => []ProxyInv
<1>1. Init => ProxyInv
  BY ProxyInit
<1>2. ProxyInv /\ [Next]_vars => ProxyInv'
  BY ProxyNext
<1> QED
  BY <1>1, <1>2, PTL DEF Spec

\* A container that was told it is up has its lease in the daemon's map until its
\* own teardown, whatever the other requests, a failed save of the lease file and
\* the inactivity timer do: only a crash or Clean takes it away.
THEOREM LeaseOnRecord == Spec => []LeaseWhileUp
<1>1. ProxyInv => LeaseWhileUp
  BY DEF ProxyInv, SetupOf, LeaseWhileUp
<1> QED
  BY <1>1, ProxyKept, PTL

\* No lease stays behind: once a container's teardown is done the daemon's map no
\* longer has its lease, except when the client of its setup was killed.
THEOREM NoLeaseLeft == Spec => []NoOrphanLease
<1>1. ProxyInv => NoOrphanLease
  <2> SUFFICES ASSUME ProxyInv, NEW c \in Containers, mem[c] # None, client[c] \in {"idle", "down"}
               PROVE  c \in dropped
    BY DEF NoOrphanLease
  <2>1. TeardownOf(c)
    BY DEF ProxyInv
  <2> QED
    BY <2>1 DEF TeardownOf
<1> QED
  BY <1>1, ProxyKept, PTL
=============================================================================
