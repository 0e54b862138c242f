-------------------------- MODULE FirewalldProofs ---------------------------
(* What the reload of setup_network is for: for any number of invocations,   *)
(* in any interleaving, with failing calls and with reloads by others, the   *)
(* zone and the policies are running when they are used.                     *)
EXTENDS Firewalld, TLAPS

\* Time enough for the provers on a busy machine, and a second try.
USE SMTT(30), ZenonT(30), Z3T(30)

Listing == {"list_running", "list_permanent", "add_object"}
Using == {"get_zone", "change_zone", "get_settings", "set_settings"}

\* Where an invocation stands in its loops.
Placed(p) ==
    /\ pc[p] = "idle" => at[p] = 1 /\ ~reload[p]
    /\ pc[p] \in Listing => at[p] \in 1 .. 3
    /\ pc[p] \in Listing \cup {"reload", "get_zone", "change_zone"} => Cmd[p].kind = "setup"
    /\ pc[p] = "reload" => at[p] = 1
    /\ pc[p] = "remove_source" => Cmd[p].kind = "teardown" /\ complete[p]
    /\ pc[p] \in {"get_zone", "change_zone", "remove_source"} => at[p] \in 1 .. Len(Subnets[Net(p)])

\* What the objects it is done with are in: the permanent configuration at
\* least, and the running one unless it knows that it has to reload.
Visited(p) ==
    /\ pc[p] \in Listing => \A i \in 1 .. 3 : i < at[p] =>
          Objects[i] \in permanent /\ (reload[p] \/ Objects[i] \in running)
    /\ pc[p] = "reload" => AllObjects \subseteq permanent
    /\ Cmd[p].kind = "setup" /\ pc[p] \in Using => AllObjects \subseteq running

\* A setup that began when everything was running has no reason to reload.
Fresh(p) ==
    Cmd[p].kind = "setup" /\ Running(p) /\ p \notin early =>
        AllObjects \subseteq running /\ ~reload[p] /\ pc[p] \notin {"list_permanent", "add_object", "reload"}

\* The inductive invariant.
ProcInv(p) == Placed(p) /\ Visited(p) /\ Fresh(p)
DriverInv == TypeOK /\ \A p \in Procs : ProcInv(p)

\* What a step of p leaves to the other invocations: their locals, and
\* configurations that only grow.
Frame(p) ==
    /\ permanent \subseteq permanent' /\ running \subseteq running' /\ early \subseteq early'
    /\ \A q \in Procs \ {p} : /\ pc'[q] = pc[q] /\ at'[q] = at[q] /\ reload'[q] = reload[q]
                              /\ complete'[q] = complete[q]

-----------------------------------------------------------------------------
\* The three objects of setup_network.
LEMMA ObjectFacts ==
    /\ Len(Objects) = 3
    /\ AllObjects = {Objects[1], Objects[2], Objects[3]}
    /\ \A i \in 1 .. 3 : Objects[i] \in AllObjects
BY DEF Objects, AllObjects, Range

\* The command and the subnets of an invocation.
LEMMA SubnetFacts ==
    ASSUME NEW p \in Procs
    PROVE  /\ Net(p) \in Networks /\ Ctr(p) \in Containers /\ Cmd[p].kind \in {"setup", "teardown"}
           /\ Len(Subnets[Net(p)]) \in Nat
           /\ Subnets[Net(p)] # <<>> => 1 \in 1 .. Len(Subnets[Net(p)])
           /\ \A i \in 1 .. Len(Subnets[Net(p)]) :
                Subnets[Net(p)][i] \in SubnetsOf(Net(p)) /\ Subnets[Net(p)][i] \in AllSubnets
<1>1. Net(p) \in Networks /\ Ctr(p) \in Containers /\ Cmd[p].kind \in {"setup", "teardown"}
  BY FirewalldAssumption DEF Net, Ctr
<1>2. Subnets[Net(p)] \in Seq(UNION {Range(Subnets[n]) : n \in Networks})
  BY <1>1, FirewalldAssumption
<1>3. \A i \in 1 .. Len(Subnets[Net(p)]) : Subnets[Net(p)][i] \in SubnetsOf(Net(p))
  BY <1>2 DEF SubnetsOf, Range
<1>4. SubnetsOf(Net(p)) \subseteq AllSubnets
  BY <1>1 DEF AllSubnets
<1> QED
  BY <1>1, <1>2, <1>3, <1>4

\* Growing configurations disturb nobody.
LEMMA OthersKeep ==
    ASSUME NEW p \in Procs, Frame(p), NEW q \in Procs \ {p}, ProcInv(q)
    PROVE  ProcInv(q)'
<1>1. Placed(q)'
  BY DEF Frame, ProcInv, Placed, Net
<1>2. Visited(q)'
  BY DEF Frame, ProcInv, Visited, Listing, Using
<1>3. Fresh(q)'
  BY DEF Frame, ProcInv, Fresh, Running
<1> QED
  BY <1>1, <1>2, <1>3 DEF ProcInv

\* With it, a step of p has to keep p's own part only.
LEMMA OwnPart ==
    ASSUME NEW p \in Procs, DriverInv, Frame(p), TypeOK', ProcInv(p)'
    PROVE  DriverInv'
BY OthersKeep DEF DriverInv

-----------------------------------------------------------------------------
\* The empty configuration.
LEMMA DriverInit == Init => DriverInv
<1> SUFFICES ASSUME Init PROVE DriverInv
  OBVIOUS
<1>1. TypeOK
  BY FirewalldAssumption DEF Init, TypeOK, Labels, Ended, NoSettings
<1>2. \A p \in Procs : ProcInv(p)
  BY DEF Init, ProcInv, Placed, Visited, Fresh, Listing, Using, Running, Ended
<1> QED
  BY <1>1, <1>2 DEF DriverInv

\* NextObject: the object at[p] is in the permanent configuration, and in the
\* running one unless a reload is due.
LEMMA NextObjectKeeps ==
    ASSUME DriverInv, NEW p \in Procs, NEW need \in BOOLEAN, NextObject(p, need), pc[p] \in Listing,
           permanent \subseteq permanent', permanent' \subseteq AllObjects, running' = running, early' = early,
           complete' = complete,
           Objects[at[p]] \in permanent', need \/ Objects[at[p]] \in running, reload[p] => need,
           p \in early \/ ~need
    PROVE  /\ pc' \in [Procs -> Labels] /\ at' \in [Procs -> Nat \ {0}] /\ reload' \in [Procs -> BOOLEAN]
           /\ Frame(p) /\ ProcInv(p)'
<1>0. /\ pc \in [Procs -> Labels] /\ at \in [Procs -> Nat \ {0}] /\ reload \in [Procs -> BOOLEAN]
      /\ Placed(p) /\ Visited(p) /\ Fresh(p) /\ running \subseteq permanent
  BY DEF DriverInv, TypeOK, ProcInv
<1>1. /\ at[p] \in 1 .. 3 /\ Cmd[p].kind = "setup"
      /\ \A i \in 1 .. 3 : i < at[p] => Objects[i] \in permanent' /\ (need \/ Objects[i] \in running)
  BY <1>0 DEF Placed, Visited
<1>2. reload' = [reload EXCEPT ![p] = need]
  BY DEF NextObject
<1>3. p \notin early => AllObjects \subseteq running
  BY <1>0, <1>1 DEF Fresh, Running, Listing, Ended
<1>4. CASE at[p] = 3
  <2>1. at' = [at EXCEPT ![p] = 1] /\ pc' = [pc EXCEPT ![p] = AfterObjects(p, need)]
    BY <1>4, ObjectFacts DEF NextObject, Goto
  <2>2. AllObjects \subseteq permanent' /\ (need \/ AllObjects \subseteq running)
    BY <1>1, <1>4, ObjectFacts
  <2>3. AfterObjects(p, need) \in {"reload", "get_settings", "get_zone"}
    BY DEF AfterObjects
  <2>4. pc' \in [Procs -> Labels] /\ at' \in [Procs -> Nat \ {0}] /\ reload' \in [Procs -> BOOLEAN]
    BY <1>0, <1>2, <2>1, <2>3 DEF Labels
  <2>5. pc'[p] = AfterObjects(p, need) /\ at'[p] = 1 /\ reload'[p] = need
    BY <1>0, <1>2, <2>1
  <2>6. Frame(p)
    BY <1>0, <1>2, <2>1 DEF Frame
  <2>7. Placed(p)'
    BY <1>1, <2>3, <2>5, SubnetFacts DEF Placed, Listing, AfterObjects, Net
  <2>8. Visited(p)'
    BY <1>1, <2>2, <2>3, <2>5 DEF Visited, Listing, Using, AfterObjects
  <2>9. Fresh(p)'
    BY <1>3, <2>3, <2>5 DEF Fresh, AfterObjects
  <2> QED
    BY <2>4, <2>6, <2>7, <2>8, <2>9 DEF ProcInv
<1>5. CASE at[p] # 3
  <2>1. at' = [at EXCEPT ![p] = at[p] + 1] /\ pc' = [pc EXCEPT ![p] = "list_running"]
    BY <1>5, ObjectFacts DEF NextObject, Goto
  <2>2. pc' \in [Procs -> Labels] /\ at' \in [Procs -> Nat \ {0}] /\ reload' \in [Procs -> BOOLEAN]
    BY <1>0, <1>2, <2>1 DEF Labels
  <2>3. pc'[p] = "list_running" /\ at'[p] = at[p] + 1 /\ reload'[p] = need
    BY <1>0, <1>2, <2>1
  <2>4. Frame(p)
    BY <1>0, <1>2, <2>1 DEF Frame
  <2>5. Placed(p)'
    BY <1>1, <1>5, <2>3 DEF Placed, Listing
  <2>6. \A i \in 1 .. 3 : i < at[p] + 1 => i < at[p] \/ i = at[p]
    BY <1>1
  <2>7. Visited(p)'
    BY <1>1, <2>3, <2>6 DEF Visited, Listing, Using
  <2>8. Fresh(p)'
    BY <1>3, <2>3 DEF Fresh
  <2> QED
    BY <2>2, <2>4, <2>5, <2>7, <2>8 DEF ProcInv
<1> QED
  BY <1>4, <1>5

\* create_zone_if_not_exist and add_policy_if_not_exist.
LEMMA ObjectSteps ==
    ASSUME DriverInv, NEW p \in Procs, ListRunning(p) \/ ListPermanent(p) \/ AddObject(p)
    PROVE  DriverInv'
<1>0. /\ TypeOK /\ Placed(p) /\ Visited(p) /\ Fresh(p)
      /\ pc \in [Procs -> Labels] /\ at \in [Procs -> Nat \ {0}] /\ reload \in [Procs -> BOOLEAN]
      /\ running \subseteq permanent /\ permanent \subseteq AllObjects
  BY DEF DriverInv, ProcInv, TypeOK
<1>1. /\ pc[p] \in Listing /\ at[p] \in 1 .. 3 /\ Objects[at[p]] \in AllObjects
      /\ Cmd[p].kind = "setup" /\ Running(p)
  BY Zenon, ZenonT(60), <1>0, ObjectFacts DEF ListRunning, ListPermanent, AddObject, Listing, Placed, Running, Ended
<1>2. UNCHANGED <<running, sources, ports, rich, attached, snap, complete, faults, mixed, stale, raced, early>>
  BY Zenon, ZenonT(60) DEF ListRunning, ListPermanent, AddObject, daemonVars, ghostVars
<1>3. ASSUME NEW need \in BOOLEAN, NextObject(p, need), permanent \subseteq permanent', permanent' \subseteq AllObjects,
             Objects[at[p]] \in permanent', need \/ Objects[at[p]] \in running, reload[p] => need,
             p \in early \/ ~need
      PROVE  DriverInv'
  <2>1. /\ pc' \in [Procs -> Labels] /\ at' \in [Procs -> Nat \ {0}] /\ reload' \in [Procs -> BOOLEAN]
        /\ Frame(p) /\ ProcInv(p)'
    BY <1>1, <1>2, <1>3, NextObjectKeeps
  <2>2. TypeOK'
    BY <1>0, <1>2, <1>3, <2>1, Zenon, ZenonT(60) DEF TypeOK
  <2> QED
    BY <2>1, <2>2, OwnPart
<1>4. ASSUME NEW l \in {"list_permanent", "add_object", "failed"}, Goto(p, l), UNCHANGED <<permanent, at, reload>>,
             p \in early \/ l = "failed"
      PROVE  DriverInv'
  <2>1. pc' = [pc EXCEPT ![p] = l]
    BY <1>4 DEF Goto
  <2>2. pc'[p] = l /\ pc' \in [Procs -> Labels] /\ Frame(p)
    BY <1>0, <1>2, <1>4, <2>1 DEF Frame, Labels, Ended
  <2>3. TypeOK'
    BY <1>0, <1>2, <1>4, <2>2, Zenon, ZenonT(60) DEF TypeOK
  <2>4. Placed(p)'
    BY <1>0, <1>1, <1>2, <1>4, <2>2 DEF Placed, Listing
  <2>5. Visited(p)'
    BY <1>0, <1>1, <1>2, <1>4, <2>2 DEF Visited, Listing, Using
  <2>6. Fresh(p)'
    BY <1>2, <1>4, <2>2 DEF Fresh, Running, Ended
  <2> QED
    BY <2>2, <2>3, <2>4, <2>5, <2>6, OwnPart DEF ProcInv
<1>5. CASE ListRunning(p)
  <2>1. UNCHANGED permanent
    BY <1>5 DEF ListRunning, daemonVars
  <2>2. CASE Objects[at[p]] \in running
    <3>1. NextObject(p, reload[p])
      BY <1>5, <2>2 DEF ListRunning
    <3>2. p \in early \/ ~reload[p]
      BY <1>0, <1>1 DEF Fresh
    <3> QED
      BY <1>0, <1>3, <2>1, <2>2, <3>1, <3>2
  <2>3. CASE Objects[at[p]] \notin running
    <3>1. Goto(p, "list_permanent") /\ UNCHANGED <<at, reload>>
      BY <1>5, <2>3 DEF ListRunning
    <3>2. p \in early
      BY <1>0, <1>1, <2>3 DEF Fresh
    <3> QED
      BY <1>4, <2>1, <3>1, <3>2
  <2> QED
    BY <2>2, <2>3
<1>6. CASE ListPermanent(p)
  <2>1. UNCHANGED permanent /\ pc[p] = "list_permanent"
    BY <1>6 DEF ListPermanent, daemonVars
  <2>2. p \in early
    BY <1>0, <1>1, <2>1 DEF Fresh
  <2>3. CASE Objects[at[p]] \in permanent
    <3>1. NextObject(p, TRUE)
      BY Zenon, ZenonT(60), <1>6, <2>3 DEF ListPermanent
    <3> QED
      BY Zenon, ZenonT(60), <1>0, <1>3, <2>1, <2>2, <2>3, <3>1
  <2>4. CASE Objects[at[p]] \notin permanent
    <3>1. Goto(p, "add_object") /\ UNCHANGED <<at, reload>>
      BY <1>6, <2>4 DEF ListPermanent
    <3> QED
      BY <1>4, <2>1, <2>2, <3>1
  <2> QED
    BY <2>3, <2>4
<1>7. CASE AddObject(p)
  <2>1. pc[p] = "add_object"
    BY <1>7 DEF AddObject
  <2>2. p \in early
    BY <1>0, <1>1, <2>1 DEF Fresh
  <2>3. CASE Objects[at[p]] \in permanent
    <3>1. Goto(p, "failed") /\ UNCHANGED <<permanent, at, reload>>
      BY <1>7, <2>3 DEF AddObject
    <3> QED
      BY <1>4, <3>1
  <2>4. CASE Objects[at[p]] \notin permanent
    <3>1. permanent' = permanent \cup {Objects[at[p]]} /\ NextObject(p, TRUE)
      BY Zenon, ZenonT(60), <1>7, <2>4 DEF AddObject
    <3> QED
      BY Zenon, ZenonT(60), <1>0, <1>1, <1>3, <2>2, <3>1
  <2> QED
    BY <2>3, <2>4
<1> QED
  BY <1>5, <1>6, <1>7

\* Reload: everything p has visited is running from now on.
LEMMA ReloadStep ==
    ASSUME DriverInv, NEW p \in Procs, Reload(p)
    PROVE  DriverInv'
<1>0. /\ TypeOK /\ Placed(p) /\ Visited(p) /\ Fresh(p)
      /\ pc \in [Procs -> Labels] /\ reload \in [Procs -> BOOLEAN]
  BY DEF DriverInv, ProcInv, TypeOK
<1> DEFINE l == IF Subnets[Net(p)] = <<>> THEN "get_settings" ELSE "get_zone"
<1>1. /\ pc[p] = "reload" /\ pc' = [pc EXCEPT ![p] = l] /\ reload' = [reload EXCEPT ![p] = FALSE]
      /\ running' = permanent /\ permanent' = permanent /\ sources' = {} /\ rich' = {}
      /\ stale' = stale \cup {q \in Procs \ {p} : pc[q] # "idle"}
      /\ UNCHANGED <<attached, at, snap, complete, faults, mixed, raced, early>>
  BY DEF Reload, DoReload, Goto
<1>2. pc'[p] = l /\ ~reload'[p] /\ pc' \in [Procs -> Labels] /\ reload' \in [Procs -> BOOLEAN]
  BY <1>0, <1>1 DEF Labels
<1>3. Frame(p)
  BY <1>0, <1>1, ZenonT(60), ZenonT(90) DEF Frame, TypeOK
<1>4. TypeOK'
  BY <1>0, <1>1, <1>2, ZenonT(60), ZenonT(90) DEF TypeOK
<1>5. at[p] = 1 /\ Cmd[p].kind = "setup" /\ AllObjects \subseteq permanent
  BY <1>0, <1>1 DEF Placed, Visited
<1>6. Placed(p)'
  BY <1>1, <1>2, <1>5, SubnetFacts, ZenonT(60), ZenonT(90) DEF Placed, Listing, Net
<1>7. Visited(p)' /\ Fresh(p)'
  BY <1>1, <1>2, <1>5, Zenon, ZenonT(60) DEF Visited, Fresh, Listing, Using
<1> QED
  BY <1>3, <1>4, <1>6, <1>7, OwnPart DEF ProcInv

\* Reloads by somebody else.
LEMMA RestartStep == DriverInv /\ Restart => DriverInv'
<1> SUFFICES ASSUME DriverInv, Restart PROVE DriverInv'
  OBVIOUS
<1>1. /\ running' = permanent /\ permanent' = permanent /\ sources' = {} /\ rich' = {}
      /\ faults < MaxFaults /\ faults' = faults + 1
      /\ stale' = stale \cup {q \in Procs : pc[q] # "idle"}
      /\ UNCHANGED <<attached, pc, at, reload, snap, complete, mixed, raced, early>>
  BY DEF Restart, DoReload
<1>2. TypeOK'
  <2>1. faults \in 0 .. MaxFaults
    BY DEF DriverInv, TypeOK
  <2>2. faults' \in 0 .. MaxFaults
    BY <1>1, <2>1, FirewalldAssumption
  <2> QED
    BY <1>1, <2>2 DEF DriverInv, TypeOK
<1>3. ASSUME NEW q \in Procs PROVE ProcInv(q)'
  <2>1. ProcInv(q) /\ running \subseteq permanent
    BY DEF DriverInv, TypeOK
  <2>2. Placed(q)'
    BY <1>1, <2>1 DEF ProcInv, Placed, Net
  <2>3. Visited(q)'
    BY <1>1, <2>1 DEF ProcInv, Visited
  <2>4. Fresh(q)'
    BY <1>1, <2>1 DEF ProcInv, Fresh, Running
  <2> QED
    BY <2>2, <2>3, <2>4 DEF ProcInv
<1> QED
  BY <1>2, <1>3 DEF DriverInv

\* Steps after the reload, and failures: p goes to l, at the first place of its
\* loop or at one that exists, and the configurations stay.
LEMMA LaterStep ==
    ASSUME DriverInv, NEW p \in Procs, Running(p), NEW l \in Ended \cup {"get_zone", "change_zone", "remove_source",
                                                            "get_settings", "set_settings"},
           Goto(p, l), NEW i \in Nat \ {0}, at' = [at EXCEPT ![p] = i],
           l \in {"get_zone", "change_zone", "remove_source"} => i \in 1 .. Len(Subnets[Net(p)]),
           l \in {"get_zone", "change_zone"} => pc[p] \in {"get_zone", "change_zone"},
           l = "remove_source" => pc[p] = "remove_source",
           l \in Ended \/ pc[p] \in Using \cup {"remove_source"},
           \/ reload' = reload
           \/ reload' = [reload EXCEPT ![p] = FALSE],
           UNCHANGED <<permanent, running, complete, early>>
    PROVE  /\ pc' \in [Procs -> Labels] /\ at' \in [Procs -> Nat \ {0}] /\ reload' \in [Procs -> BOOLEAN]
           /\ Frame(p) /\ ProcInv(p)'
<1>0. /\ pc \in [Procs -> Labels] /\ at \in [Procs -> Nat \ {0}] /\ reload \in [Procs -> BOOLEAN]
      /\ Placed(p) /\ Visited(p) /\ Fresh(p)
  BY Zenon, ZenonT(60) DEF DriverInv, TypeOK, ProcInv
<1>1. pc' = [pc EXCEPT ![p] = l]
  BY DEF Goto
<1>2. pc'[p] = l /\ at'[p] = i /\ (reload'[p] => reload[p])
  BY <1>0, <1>1
<1>3. pc' \in [Procs -> Labels]
  BY <1>0, <1>1 DEF Labels
<1>4. at' \in [Procs -> Nat \ {0}] /\ reload' \in [Procs -> BOOLEAN]
  BY Zenon, ZenonT(60), <1>0
<1>5. Frame(p)
  BY <1>0, <1>1 DEF Frame
<1>6. Placed(p)'
  BY <1>0, <1>2, ZenonT(60), ZenonT(90) DEF Placed, Listing, Net, Ended
<1>7. Visited(p)'
  BY <1>0, <1>2, ZenonT(60), ZenonT(90) DEF Visited, Placed, Listing, Using, Ended
<1>8. Fresh(p)'
  BY <1>0, <1>2, Zenon, ZenonT(60) DEF Fresh, Running, Ended
<1> QED
  BY <1>3, <1>4, <1>5, <1>6, <1>7, <1>8 DEF ProcInv

\* add_source_subnets_to_zone and teardown_network.
LEMMA SourceSteps ==
    ASSUME DriverInv, NEW p \in Procs, GetZoneOfSource(p) \/ ChangeZoneOfSource(p) \/ RemoveSource(p)
    PROVE  /\ DriverInv'
           /\ RemoveSource(p) => complete[p] /\ sources \ sources' \subseteq SubnetsOf(Net(p))
           /\ ~RemoveSource(p) => sources \subseteq sources'
<1>0. /\ TypeOK /\ Placed(p)
      /\ at \in [Procs -> Nat \ {0}] /\ pc \in [Procs -> Labels] /\ sources \subseteq AllSubnets
  BY DEF DriverInv, ProcInv, TypeOK
<1>1. pc[p] \in {"get_zone", "change_zone", "remove_source"}
  BY DEF GetZoneOfSource, ChangeZoneOfSource, RemoveSource
<1>2. at[p] \in 1 .. Len(Subnets[Net(p)]) /\ Len(Subnets[Net(p)]) \in Nat
  BY <1>0, <1>1, SubnetFacts DEF Placed
<1>3. Subnet(p) \in SubnetsOf(Net(p)) /\ Subnet(p) \in AllSubnets
  BY <1>2, SubnetFacts, Zenon, ZenonT(60) DEF Subnet
<1>4. UNCHANGED <<permanent, running, ports, rich, attached, reload, snap, complete, faults, mixed, stale, raced, early>>
  BY DEF GetZoneOfSource, ChangeZoneOfSource, RemoveSource, daemonVars, ghostVars
<1> DEFINE Kept == /\ pc' \in [Procs -> Labels] /\ at' \in [Procs -> Nat \ {0}] /\ reload' \in [Procs -> BOOLEAN]
                   /\ Frame(p) /\ ProcInv(p)'
<1>5. ASSUME NEW l \in Ended \cup {"get_zone", "change_zone", "remove_source", "get_settings", "set_settings"},
             NEW i \in Nat \ {0}, Goto(p, l), at' = [at EXCEPT ![p] = i],
             l \in {"get_zone", "change_zone", "remove_source"} => i \in 1 .. Len(Subnets[Net(p)]),
             l \in {"get_zone", "change_zone"} => pc[p] \in {"get_zone", "change_zone"},
             l = "remove_source" => pc[p] = "remove_source"
      PROVE  Kept
  <2>1. Running(p) /\ pc[p] \in Using \cup {"remove_source"}
    BY <1>1 DEF Running, Ended, Using
  <2> QED
    BY Zenon, ZenonT(60), <1>4, <1>5, <2>1, LaterStep
<1>6. Kept
  <2> HIDE DEF Kept
  <2>1. at = [at EXCEPT ![p] = at[p]] /\ at[p] \in Nat \ {0}
    BY <1>0
  <2>2. ASSUME at' = [at EXCEPT ![p] = 1], Goto(p, "get_settings") PROVE Kept
    <3>1. \A i \in Nat \ {0} : at' = [at EXCEPT ![p] = i] => Kept
      BY Zenon, ZenonT(60), <1>5, <2>2
    <3>2. 1 \in Nat \ {0}
      OBVIOUS
    <3> QED
      BY <2>2, <3>1, <3>2, Zenon, ZenonT(60)
  <2>3. ASSUME at' = at, Goto(p, "failed") PROVE Kept
    BY <1>5, <2>1, <2>3 DEF Ended
  <2>4. CASE GetZoneOfSource(p)
    <3>1. pc[p] = "get_zone"
      BY <2>4 DEF GetZoneOfSource
    <3>2. CASE Subnet(p) \in sources
      BY <2>2, <2>4, <3>2 DEF GetZoneOfSource
    <3>3. CASE Subnet(p) \notin sources
      <4>1. at' = [at EXCEPT ![p] = at[p]] /\ Goto(p, "change_zone")
        BY <2>1, <2>4, <3>3 DEF GetZoneOfSource
      <4> QED
        BY Zenon, ZenonT(60), <1>2, <1>5, <2>1, <3>1, <4>1
    <3> QED
      BY <3>2, <3>3
  <2>5. ASSUME NEW again \in {"get_zone", "remove_source"}, NextSubnet(p, again, "get_settings"),
               again = "get_zone" => pc[p] = "change_zone", again = "remove_source" => pc[p] = "remove_source"
        PROVE  Kept
    <3>1. CASE at[p] = Len(Subnets[Net(p)])
      BY <2>2, <2>5, <3>1 DEF NextSubnet
    <3>2. CASE at[p] # Len(Subnets[Net(p)])
      <4>1. at' = [at EXCEPT ![p] = at[p] + 1] /\ Goto(p, again)
        BY <2>5, <3>2 DEF NextSubnet
      <4>2. at[p] + 1 \in 1 .. Len(Subnets[Net(p)]) /\ at[p] + 1 \in Nat \ {0}
        BY <1>2, <3>2
      <4> QED
        BY Zenon, ZenonT(60), <1>5, <2>5, <4>1, <4>2
    <3> QED
      BY <3>1, <3>2
  <2>6. CASE ChangeZoneOfSource(p)
    <3>1. pc[p] = "change_zone" /\ (NextSubnet(p, "get_zone", "get_settings") \/ (Goto(p, "failed") /\ at' = at))
      BY <2>6 DEF ChangeZoneOfSource
    <3> QED
      BY <2>3, <2>5, <3>1
  <2>7. CASE RemoveSource(p)
    <3>1. pc[p] = "remove_source" /\ (NextSubnet(p, "remove_source", "get_settings") \/ (Goto(p, "failed") /\ at' = at))
      BY <2>7 DEF RemoveSource
    <3> QED
      BY <2>3, <2>5, <3>1
  <2> QED
    BY <2>4, <2>6, <2>7
<1>7. /\ RemoveSource(p) => sources' \in {sources, sources \ {Subnet(p)}}
      /\ ~RemoveSource(p) => sources' \in {sources, sources \cup {Subnet(p)}}
  BY DEF GetZoneOfSource, ChangeZoneOfSource, RemoveSource, daemonVars
<1>8. sources' \subseteq AllSubnets
  BY <1>0, <1>3, <1>7
<1>9. TypeOK'
  BY <1>0, <1>4, <1>6, <1>8, Zenon, ZenonT(60) DEF TypeOK
<1>10. RemoveSource(p) => complete[p]
  BY <1>0, Zenon, ZenonT(60) DEF RemoveSource, Placed
<1> QED
  BY <1>3, <1>6, <1>7, <1>9, <1>10, OwnPart

\* setup_port_forward and teardown_port_forward.
LEMMA PolicySteps ==
    ASSUME DriverInv, NEW p \in Procs, GetPolicySettings(p) \/ SetPolicySettings(p)
    PROVE  DriverInv'
<1>0. TypeOK /\ at \in [Procs -> Nat \ {0}] /\ Net(p) \in Networks
  BY SubnetFacts, Zenon, ZenonT(60) DEF DriverInv, TypeOK
<1>1. /\ pc[p] \in {"get_settings", "set_settings"}
      /\ UNCHANGED <<permanent, running, sources, attached, at, reload, complete, faults, mixed, stale, early>>
  BY DEF GetPolicySettings, SetPolicySettings, daemonVars, ghostVars
<1>2. Goto(p, "set_settings") \/ Goto(p, "done") \/ Goto(p, "failed")
  BY DEF GetPolicySettings, SetPolicySettings
<1>3. /\ pc' \in [Procs -> Labels] /\ at' \in [Procs -> Nat \ {0}] /\ reload' \in [Procs -> BOOLEAN]
      /\ Frame(p) /\ ProcInv(p)'
  <2>1. Running(p) /\ pc[p] \in Using /\ at' = [at EXCEPT ![p] = at[p]] /\ at[p] \in Nat \ {0}
    BY <1>0, <1>1 DEF Running, Ended, Using
  <2>2. ASSUME NEW l \in Ended \cup {"set_settings"}, Goto(p, l) PROVE <1>3!:
    <3>1. l \notin {"get_zone", "change_zone", "remove_source"}
      BY DEF Ended
    <3> QED
      BY Zenon, ZenonT(60), <1>1, <2>1, <2>2, <3>1, LaterStep
  <2> QED
    BY <1>2, <2>2 DEF Ended
<1>4. rich' \subseteq Networks /\ DOMAIN snap' = Procs /\ \A q \in Procs : snap'[q].rich \subseteq Networks
  <2>0. rich \subseteq Networks /\ DOMAIN snap = Procs /\ \A q \in Procs : snap[q].rich \subseteq Networks
    BY <1>0 DEF TypeOK
  <2>1. CASE GetPolicySettings(p)
    <3>1. rich' = rich /\ (snap' = snap \/ snap' = [snap EXCEPT ![p] = [ports |-> ports, rich |-> rich]])
      BY <2>1 DEF GetPolicySettings, daemonVars
    <3> QED
      BY <2>0, <3>1
  <2>2. CASE SetPolicySettings(p)
    <3>1. NewSettings(p).rich \subseteq Networks
      BY <1>0, <2>0, Zenon, ZenonT(60) DEF NewSettings
    <3>2. (rich' = rich \/ rich' = NewSettings(p).rich) /\ snap' = [snap EXCEPT ![p] = NoSettings]
      BY <2>2 DEF SetPolicySettings
    <3> QED
      BY <2>0, <3>1, <3>2 DEF NoSettings
  <2> QED
    BY <2>1, <2>2
<1>5. raced' \subseteq Procs
  <2>1. Overtaken(p) \subseteq Procs
    BY <1>0 DEF TypeOK, Overtaken
  <2>2. raced \subseteq Procs /\ raced' \in {raced, raced \cup Overtaken(p)}
    BY <1>0, ZenonT(60), ZenonT(90) DEF TypeOK, GetPolicySettings, SetPolicySettings, ghostVars
  <2> QED
    BY <2>1, <2>2
<1>6. TypeOK'
  BY <1>0, <1>1, <1>3, <1>4, <1>5, Zenon, ZenonT(60) DEF TypeOK
<1> QED
  BY <1>3, <1>6, OwnPart

\* A failing call ends the invocation.
LEMMA FaultStep ==
    ASSUME DriverInv, NEW p \in Procs, Fault(p)
    PROVE  DriverInv'
<1>0. TypeOK /\ at \in [Procs -> Nat \ {0}]
  BY Zenon, ZenonT(60) DEF DriverInv, TypeOK
<1>1. /\ Running(p) /\ Goto(p, "failed") /\ at' = [at EXCEPT ![p] = 1]
      /\ reload' = [reload EXCEPT ![p] = FALSE] /\ snap' = [snap EXCEPT ![p] = NoSettings]
      /\ faults < MaxFaults /\ faults' = faults + 1
      /\ UNCHANGED <<permanent, running, sources, ports, rich, attached, complete, mixed, stale, raced, early>>
  BY DEF Fault, daemonVars, ghostVars
<1>2. 1 \in Nat \ {0} /\ "failed" \in Ended
  BY DEF Ended
<1> DEFINE Kept == /\ pc' \in [Procs -> Labels] /\ at' \in [Procs -> Nat \ {0}] /\ reload' \in [Procs -> BOOLEAN]
                   /\ Frame(p) /\ ProcInv(p)'
<1>3. Kept
  <2>1. ASSUME NEW i \in Nat \ {0}, at' = [at EXCEPT ![p] = i], NEW l \in Ended, Goto(p, l) PROVE Kept
    <3>1. l \notin {"get_zone", "change_zone", "remove_source"}
      BY DEF Ended
    <3> QED
      BY Zenon, ZenonT(60), <1>1, <2>1, <3>1, LaterStep
  <2> HIDE DEF Kept
  <2> QED
    BY <1>1, <1>2, <2>1, Zenon, ZenonT(60)
<1>4. DOMAIN snap' = Procs /\ \A q \in Procs : snap'[q].rich \subseteq Networks
  BY <1>0, <1>1 DEF TypeOK, NoSettings
<1>5. faults' \in 0 .. MaxFaults
  <2>1. faults \in 0 .. MaxFaults
    BY <1>0 DEF TypeOK
  <2> QED
    BY <1>1, <2>1, FirewalldAssumption
<1>6. TypeOK'
  BY <1>0, <1>1, <1>3, <1>4, <1>5, Zenon, ZenonT(60) DEF TypeOK
<1> QED
  BY <1>3, <1>6, OwnPart

\* The bridge driver calls setup_firewall or teardown_firewall.
LEMMA BeginSteps ==
    ASSUME DriverInv, NEW p \in Procs, Setup(p) \/ Teardown(p)
    PROVE  DriverInv'
<1>0. /\ TypeOK /\ Placed(p)
      /\ pc \in [Procs -> Labels] /\ complete \in [Procs -> BOOLEAN] /\ attached \in [Networks -> SUBSET Containers]
      /\ Net(p) \in Networks /\ Ctr(p) \in Containers
  BY Zenon, ZenonT(60), SubnetFacts DEF DriverInv, ProcInv, TypeOK
<1>1. /\ pc[p] = "idle" /\ at[p] = 1 /\ ~reload[p] /\ Mixes(p)
      /\ UNCHANGED <<permanent, running, sources, ports, rich, at, reload, snap, faults, stale, raced>>
  BY Zenon, ZenonT(60), <1>0 DEF Setup, Teardown, MayBegin, Placed, daemonVars
<1>2. mixed' \subseteq Networks
  BY Zenon, ZenonT(60), <1>0, <1>1 DEF TypeOK, Mixes
<1>3. CASE Setup(p)
  <2>1. /\ pc' = [pc EXCEPT ![p] = "list_running"] /\ complete' = complete /\ Cmd[p].kind = "setup"
        /\ attached' = [attached EXCEPT ![Net(p)] = @ \cup {Ctr(p)}]
        /\ early' = IF AllObjects \subseteq running THEN early ELSE early \cup {p}
    BY <1>3, Zenon, ZenonT(60) DEF Setup, Goto
  <2>2. pc'[p] = "list_running" /\ pc' \in [Procs -> Labels] /\ attached' \in [Networks -> SUBSET Containers]
    BY <1>0, <2>1 DEF Labels
  <2>3. Frame(p)
    BY <1>0, <1>1, <2>1, Zenon, ZenonT(60) DEF Frame
  <2>4. TypeOK'
    BY <1>0, <1>1, <1>2, <2>1, <2>2, ZenonT(60), ZenonT(90) DEF TypeOK
  <2>5. at'[p] = 1 /\ Cmd[p].kind = "setup" /\ pc'[p] = "list_running" /\ pc'[p] \notin Using
    BY <1>1, <2>1, <2>2, Zenon, ZenonT(60) DEF Using
  <2>6. Placed(p)'
    <3>1. at'[p] \in 1 .. 3
      BY <2>5
    <3> QED
      BY <2>5, <3>1, Zenon, ZenonT(60) DEF Placed, Listing
  <2>7. Visited(p)'
    <3>1. \A i \in 1 .. 3 : ~(i < at'[p])
      BY <2>5
    <3> QED
      BY <2>5, <3>1 DEF Visited
  <2>8. Fresh(p)'
    BY <1>1, <2>1, <2>2, Zenon, ZenonT(60) DEF Fresh
  <2> QED
    BY <2>3, <2>4, <2>6, <2>7, <2>8, OwnPart DEF ProcInv
<1>4. CASE Teardown(p)
  <2> DEFINE left == attached[Net(p)] \ {Ctr(p)}
             last == Ctr(p) \in attached[Net(p)] /\ left = {}
             l == IF last /\ Subnets[Net(p)] # <<>> THEN "remove_source" ELSE "get_settings"
  <2>1. /\ pc' = [pc EXCEPT ![p] = l] /\ complete' = [complete EXCEPT ![p] = last] /\ Cmd[p].kind = "teardown"
        /\ attached' = [attached EXCEPT ![Net(p)] = left] /\ early' = early
    BY <1>4, Zenon, ZenonT(60) DEF Teardown, Goto
  <2>2. /\ pc'[p] = l /\ complete'[p] = last
        /\ pc' \in [Procs -> Labels] /\ complete' \in [Procs -> BOOLEAN] /\ attached' \in [Networks -> SUBSET Containers]
    BY <1>0, <2>1, Zenon, ZenonT(60) DEF Labels
  <2>3. Frame(p)
    BY Zenon, ZenonT(60), <1>0, <1>1, <2>1 DEF Frame
  <2>4. TypeOK'
    BY <1>0, <1>1, <1>2, <2>1, <2>2, Zenon, ZenonT(60) DEF TypeOK
  <2>5. Placed(p)'
    BY Zenon, ZenonT(60), <1>1, <2>1, <2>2, SubnetFacts DEF Placed, Listing, Net
  <2>6. Visited(p)' /\ Fresh(p)'
    BY Zenon, ZenonT(60), <2>1, <2>2 DEF Visited, Fresh, Listing, Using
  <2> QED
    BY <2>3, <2>4, <2>5, <2>6, OwnPart DEF ProcInv
<1> QED
  BY <1>3, <1>4

\* Every step preserves the inductive invariant.
LEMMA DriverNext == DriverInv /\ [Next]_vars => DriverInv'
<1> SUFFICES ASSUME DriverInv, [Next]_vars PROVE DriverInv'
  OBVIOUS
<1>1. CASE UNCHANGED vars
  <2>1. UNCHANGED <<daemonVars, attached, pc, at, reload, snap, complete, faults, mixed, stale, raced, early>>
    BY <1>1 DEF vars, ghostVars
  <2>2. TypeOK'
    BY <2>1 DEF daemonVars, DriverInv, TypeOK
  <2>3. ASSUME NEW p \in Procs PROVE ProcInv(p)'
    <3>1. Placed(p)' /\ Visited(p)' /\ Fresh(p)'
      BY <2>1, Zenon, ZenonT(60) DEF daemonVars, DriverInv, ProcInv, Placed, Visited, Fresh, Running, Net
    <3> QED
      BY <3>1 DEF ProcInv
  <2> QED
    BY <2>2, <2>3 DEF DriverInv
<1>2. CASE Restart
  BY <1>2, RestartStep
<1>3. ASSUME NEW p \in Procs, Setup(p) \/ Teardown(p) \/ Step(p) \/ Fault(p) PROVE DriverInv'
  BY <1>3, BeginSteps, ObjectSteps, ReloadStep, SourceSteps, PolicySteps, FaultStep DEF Step
<1> QED
  BY <1>1, <1>2, <1>3 DEF Next

\* The invariant holds in every behaviour of the driver.
LEMMA DriverInvHolds == Spec => []DriverInv
BY DriverInit, DriverNext, PTL DEF Spec

-----------------------------------------------------------------------------
\* The comment "MUST come after the reload; otherwise the zone we made might
\* not be in the running config" is kept by setup_network for any number of
\* invocations: sources and policy settings are used when all is running.
THEOREM ReloadedBeforeUse == Spec => []RunningWhenUsed
<1>1. DriverInv => RunningWhenUsed
  BY Zenon, ZenonT(60) DEF DriverInv, ProcInv, Visited, Using, RunningWhenUsed
<1> QED
  BY DriverInvHolds, <1>1, PTL

\* Types: in particular nothing runs in firewalld that a reload would not bring back.
THEOREM DriverTypes == Spec => []TypeOK
<1>1. DriverInv => TypeOK
  BY DEF DriverInv
<1> QED
  BY <1>1, DriverInvHolds, PTL

\* Setups of other networks do not reload once everything is running: only a
\* reload by somebody else, or the teardown of its last container, takes a
\* network's subnets out of the zone.
THEOREM SourcesAreKept == Spec => SourcesKept
<1> DEFINE Keeps == AllObjects \subseteq running /\ (\A p \in early : ~Running(p)) /\ faults' = faults
                    => \A s \in sources \ sources' : \E p \in Procs :
                         pc[p] = "remove_source" /\ complete[p] /\ s \in SubnetsOf(Net(p))
<1>1. DriverInv /\ [Next]_vars => [Keeps]_vars
  <2> SUFFICES ASSUME DriverInv, Next, AllObjects \subseteq running, \A p \in early : ~Running(p), faults' = faults,
                      NEW s \in sources \ sources'
               PROVE  \E p \in Procs : pc[p] = "remove_source" /\ complete[p] /\ s \in SubnetsOf(Net(p))
    OBVIOUS
  <2>1. CASE Restart
    <3>1. faults \in Nat /\ faults' = faults + 1
      <4>1. faults' = faults + 1
        BY <2>1 DEF Restart
      <4>2. faults \in 0 .. MaxFaults
        BY Zenon, ZenonT(60) DEF DriverInv, TypeOK
      <4> QED
        BY <4>1, <4>2, FirewalldAssumption
    <3>2. faults' # faults
      BY <3>1
    <3> QED
      BY <3>2, Zenon, ZenonT(60)
  <2>2. ASSUME NEW p \in Procs, Setup(p) \/ Teardown(p) \/ ListRunning(p) \/ ListPermanent(p) \/ AddObject(p)
                                \/ GetPolicySettings(p) \/ SetPolicySettings(p) \/ Fault(p)
        PROVE  FALSE
    BY Zenon, ZenonT(60), <2>2 DEF Setup, Teardown, ListRunning, ListPermanent, AddObject, GetPolicySettings, SetPolicySettings, Fault, daemonVars
  <2>3. ASSUME NEW p \in Procs, Reload(p) PROVE FALSE
    <3>1. Cmd[p].kind = "setup" /\ Running(p) /\ Fresh(p) /\ pc[p] = "reload"
      BY <2>3, Zenon, ZenonT(60) DEF Reload, DriverInv, ProcInv, Placed, Running, Ended
    <3> QED
      BY <3>1 DEF Fresh
  <2>4. ASSUME NEW p \in Procs, GetZoneOfSource(p) \/ ChangeZoneOfSource(p) \/ RemoveSource(p)
        PROVE  pc[p] = "remove_source" /\ complete[p] /\ s \in SubnetsOf(Net(p))
    <3>1. RemoveSource(p)
      BY <2>4, SourceSteps
    <3> QED
      BY Zenon, ZenonT(60), <3>1, SourceSteps DEF RemoveSource
  <2> QED
    BY <2>1, <2>2, <2>3, <2>4, Zenon, ZenonT(60) DEF Next, Step
<1> QED
  BY DriverInvHolds, <1>1, PTL DEF Spec, SourcesKept

-----------------------------------------------------------------------------
\* The order of the commands.

IsSetup(p) == Cmd[p].kind = "setup"
IsTeardown(p) == Cmd[p].kind = "teardown"

\* Begun, and no teardown of the same container has.
Up(p) ==
    /\ IsSetup(p) /\ pc[p] # "idle"
    /\ \A q \in Procs : IsTeardown(q) /\ Ctr(q) = Ctr(p) /\ Net(q) = Net(p) => pc[q] = "idle"

\* A teardown finds the setups of its container ended.
Ordered ==
    \A p, q \in Procs : IsTeardown(p) /\ pc[p] # "idle" /\ IsSetup(q) /\ Ctr(q) = Ctr(p) => pc[q] \in Ended

Meets ==
    \A p, q \in Procs : IsTeardown(p) /\ Running(p) /\ IsSetup(q) /\ Running(q) /\ Net(p) = Net(q) => Net(p) \in mixed

\* The containers that are up are attached; the last one leaves none behind.
Attached == \A p \in Procs : Up(p) => Ctr(p) \in attached[Net(p)]
Emptied ==
    \A p \in Procs : complete[p] => IsTeardown(p) /\ (Running(p) /\ Net(p) \notin mixed => attached[Net(p)] = {})

OrderInv == Ordered /\ Meets /\ Attached /\ Emptied

-----------------------------------------------------------------------------
\* What a step of p changes of the processes.

Acts(p) == Setup(p) \/ Teardown(p) \/ Step(p) \/ Fault(p)
Others(p) ==
    \A q \in Procs \ {p} : pc'[q] = pc[q] /\ at'[q] = at[q] /\ snap'[q] = snap[q] /\ complete'[q] = complete[q]

\* A step of p is p's: the others stay where they are, nobody becomes idle
\* again, and the marks stay.
LEMMA ActFacts ==
    ASSUME DriverInv, NEW p \in Procs, Acts(p)
    PROVE  /\ Others(p)
           /\ pc[p] \notin Ended /\ pc'[p] # "idle"
           /\ mixed \subseteq mixed' /\ stale \subseteq stale' /\ raced \subseteq raced'
           /\ pc[p] = "idle" => Setup(p) \/ Teardown(p)
           /\ pc[p] # "idle" => UNCHANGED <<attached, complete, mixed>>
<1>1. /\ pc \in [Procs -> Labels] /\ at \in [Procs -> Nat \ {0}] /\ DOMAIN snap = Procs /\ complete \in [Procs -> BOOLEAN]
  BY DEF DriverInv, TypeOK
<1>2. CASE Setup(p)
  <2>1. /\ pc[p] = "idle" /\ pc' = [pc EXCEPT ![p] = "list_running"] /\ Mixes(p)
        /\ UNCHANGED <<at, snap, complete, stale, raced>>
    BY <1>2, Zenon, ZenonT(60) DEF Setup, MayBegin, Goto
  <2>2. pc'[p] = "list_running" /\ Others(p)
    BY <1>1, <2>1 DEF Others
  <2> QED
    BY <1>2, <2>1, <2>2 DEF Ended, Mixes
<1>3. CASE Teardown(p)
  <2>0. PICK l : l \in {"remove_source", "get_settings"} /\ pc' = [pc EXCEPT ![p] = l]
    BY Zenon, ZenonT(60), <1>3 DEF Teardown, Goto
  <2>1. PICK b : complete' = [complete EXCEPT ![p] = b]
    BY Zenon, ZenonT(60), <1>3 DEF Teardown
  <2>2. pc[p] = "idle" /\ Mixes(p) /\ UNCHANGED <<at, snap, stale, raced>>
    BY <1>3, Zenon, ZenonT(60) DEF Teardown, MayBegin
  <2>3. pc'[p] = l /\ Others(p)
    BY <1>1, <2>0, <2>1, <2>2 DEF Others
  <2> QED
    BY <1>3, <2>0, <2>2, <2>3 DEF Ended, Mixes
<1>4. CASE ListRunning(p) \/ ListPermanent(p) \/ AddObject(p)
  <2>1. /\ pc[p] \in {"list_running", "list_permanent", "add_object"}
        /\ UNCHANGED <<snap, complete, attached, mixed, stale, raced>>
    BY Zenon, ZenonT(60), <1>4 DEF ListRunning, ListPermanent, AddObject, ghostVars
  <2>2. \/ \E need \in BOOLEAN : NextObject(p, need)
        \/ \E l \in {"list_permanent", "add_object", "failed"} : Goto(p, l) /\ at' = at
    <3>1. reload[p] \in BOOLEAN
      BY DEF DriverInv, TypeOK
    <3> QED
      BY Zenon, ZenonT(60), <1>4, <3>1 DEF ListRunning, ListPermanent, AddObject
  <2>3. PICK l, i : l \in Labels \ {"idle"} /\ pc' = [pc EXCEPT ![p] = l] /\ at' = [at EXCEPT ![p] = i]
    <3>1. CASE \E need \in BOOLEAN : NextObject(p, need)
      BY <3>1 DEF NextObject, Goto, AfterObjects, Labels
    <3>2. CASE \E l \in {"list_permanent", "add_object", "failed"} : Goto(p, l) /\ at' = at
      <4>1. at' = [at EXCEPT ![p] = at[p]]
        BY <1>1, <3>2
      <4> QED
        BY Zenon, ZenonT(60), <3>2, <4>1 DEF Goto, Labels, Ended
    <3> QED
      BY <2>2, <3>1, <3>2
  <2>4. pc'[p] = l /\ Others(p)
    BY <1>1, <2>1, <2>3 DEF Others
  <2> QED
    BY <2>1, <2>3, <2>4 DEF Ended
<1>5. CASE Reload(p)
  <2>1. PICK l \in {"get_zone", "get_settings"} : pc' = [pc EXCEPT ![p] = l]
    BY Zenon, ZenonT(60), <1>5 DEF Reload, Goto
  <2>2. /\ pc[p] = "reload" /\ UNCHANGED <<at, snap, complete, attached, mixed, raced>>
        /\ stale' = stale \cup {q \in Procs \ {p} : pc[q] # "idle"}
    BY <1>5 DEF Reload
  <2>3. pc'[p] = l /\ Others(p)
    BY <1>1, <2>1, <2>2 DEF Others
  <2> QED
    BY <2>2, <2>3, Zenon, ZenonT(60) DEF Ended
<1>6. CASE GetZoneOfSource(p) \/ ChangeZoneOfSource(p) \/ RemoveSource(p)
  <2>1. /\ pc[p] \in {"get_zone", "change_zone", "remove_source"}
        /\ UNCHANGED <<snap, complete, attached, mixed, stale, raced>>
    BY <1>6 DEF GetZoneOfSource, ChangeZoneOfSource, RemoveSource, ghostVars
  <2>2. PICK l : /\ l \in {"get_zone", "change_zone", "remove_source", "get_settings", "failed"}
                 /\ pc' = [pc EXCEPT ![p] = l]
    BY <1>6 DEF GetZoneOfSource, ChangeZoneOfSource, RemoveSource, NextSubnet, Goto
  <2>3. at' = at \/ at' = [at EXCEPT ![p] = 1] \/ at' = [at EXCEPT ![p] = at[p] + 1]
    BY <1>6 DEF GetZoneOfSource, ChangeZoneOfSource, RemoveSource, NextSubnet
  <2>4. \A q \in Procs \ {p} : at'[q] = at[q]
    BY <1>1, <2>3
  <2>5. pc'[p] = l /\ Others(p)
    BY <1>1, <2>1, <2>2, <2>4 DEF Others
  <2> QED
    BY <2>1, <2>2, <2>5 DEF Ended
<1>7. CASE GetPolicySettings(p) \/ SetPolicySettings(p) \/ Fault(p)
  <2>1. /\ pc[p] \notin Ended \cup {"idle"} /\ UNCHANGED <<complete, attached, mixed, stale>> /\ raced \subseteq raced'
    BY <1>7 DEF GetPolicySettings, SetPolicySettings, Fault, ghostVars, Running, Ended
  <2>2. PICK l \in {"set_settings", "done", "failed"} : pc' = [pc EXCEPT ![p] = l]
    BY <1>7 DEF GetPolicySettings, SetPolicySettings, Fault, Goto
  <2>3. PICK i : at' = [at EXCEPT ![p] = i]
    <3>1. at = [at EXCEPT ![p] = at[p]]
      BY <1>1
    <3> QED
      BY <1>7, <3>1 DEF GetPolicySettings, SetPolicySettings, Fault
  <2>4. \A q \in Procs \ {p} : snap'[q] = snap[q]
    <3>1. snap' = snap \/ \E x : snap' = [snap EXCEPT ![p] = x]
      BY <1>7 DEF GetPolicySettings, SetPolicySettings, Fault
    <3> QED
      BY <1>1, <3>1
  <2>5. pc'[p] = l /\ Others(p)
    BY <1>1, <2>1, <2>2, <2>3, <2>4 DEF Others
  <2> QED
    BY <2>1, <2>5, ZenonT(60), ZenonT(90) DEF Ended
<1> QED
  BY Zenon, ZenonT(60), <1>2, <1>3, <1>4, <1>5, <1>6, <1>7 DEF Acts, Step

\* Who is up after a step was up before it, or has just begun.
LEMMA UpBefore ==
    ASSUME DriverInv, NEW p \in Procs, Acts(p), NEW q \in Procs, Up(q)', q # p \/ pc[p] # "idle"
    PROVE  Up(q) /\ (IsTeardown(p) /\ Ctr(p) = Ctr(q) => Net(p) # Net(q))
<1>1. Others(p) /\ pc'[p] # "idle"
  BY ActFacts, ZenonT(60), ZenonT(90)
<1>2. /\ IsSetup(q) /\ pc'[q] # "idle"
      /\ \A t \in Procs : IsTeardown(t) /\ Ctr(t) = Ctr(q) /\ Net(t) = Net(q) => pc'[t] = "idle"
  BY DEF Up, IsSetup, IsTeardown, Ctr, Net
<1>3. \A t \in Procs : pc'[t] = "idle" => pc[t] = "idle"
  BY Zenon, ZenonT(60), <1>1 DEF Others
<1>4. pc[q] # "idle"
  BY ZenonT(60), ZenonT(90), <1>1, <1>2 DEF Others
<1> QED
  BY <1>1, <1>2, <1>3, <1>4, Zenon, ZenonT(60) DEF Up

\* A setup that is running is up: the teardowns of its container come later.
LEMMA RunningIsUp ==
    ASSUME OrderInv, NEW p \in Procs, IsSetup(p), Running(p)
    PROVE  Up(p) /\ Ctr(p) \in attached[Net(p)]
<1>1. pc[p] \notin Ended /\ pc[p] # "idle"
  BY DEF Running
<1>2. \A q \in Procs : IsTeardown(q) /\ Ctr(q) = Ctr(p) => pc[q] = "idle"
  BY <1>1 DEF OrderInv, Ordered
<1> QED
  BY <1>1, <1>2, Zenon, ZenonT(60) DEF Up, OrderInv, Attached

\* The first step of a command.
LEMMA BeginOrder ==
    ASSUME DriverInv, OrderInv, NEW p \in Procs, Setup(p) \/ Teardown(p)
    PROVE  OrderInv'
<1>0. /\ Others(p) /\ pc'[p] # "idle" /\ mixed \subseteq mixed' /\ pc[p] = "idle" /\ pc[p] \notin Ended
      /\ MayBegin(p) /\ Mixes(p) /\ Net(p) \in Networks /\ Cmd[p].kind \in {"setup", "teardown"}
      /\ attached \in [Networks -> SUBSET Containers] /\ complete \in [Procs -> BOOLEAN]
  BY Zenon, ZenonT(60), ActFacts, SubnetFacts DEF Acts, Setup, Teardown, MayBegin, DriverInv, TypeOK
<1>1. \A q \in Procs \ {p} : Ctr(q) = Ctr(p) => ~Running(q) /\ (IsSetup(q) => pc[q] \in Ended)
  BY <1>0, Zenon, ZenonT(60) DEF MayBegin, IsSetup
<1>2. \A q \in Procs \ {p} : pc'[q] = pc[q] /\ complete'[q] = complete[q]
  BY <1>0, Zenon, ZenonT(60) DEF Others
<1>3. ASSUME NEW q \in Procs, Running(q), Net(q) = Net(p), Cmd[q].kind # Cmd[p].kind PROVE Net(p) \in mixed'
  BY Zenon, ZenonT(60), <1>0, <1>3 DEF Mixes
<1>4. Ordered'
  <2> SUFFICES ASSUME NEW t \in Procs, NEW q \in Procs, IsTeardown(t), pc'[t] # "idle", IsSetup(q), Ctr(q) = Ctr(t)
               PROVE  pc'[q] \in Ended
    BY DEF Ordered, IsTeardown, IsSetup, Ctr, Ended
  <2>1. t # q
    BY DEF IsTeardown, IsSetup
  <2>2. CASE t = p
    BY <1>1, <1>2, <2>1, <2>2
  <2>3. CASE t # p
    <3>1. pc[q] \in Ended
      BY <1>2, <2>3, Zenon, ZenonT(60) DEF OrderInv, Ordered
    <3> QED
      BY <1>0, <1>2, <3>1, Zenon, ZenonT(60)
  <2> QED
    BY <2>2, <2>3
<1>5. Meets'
  <2> SUFFICES ASSUME NEW t \in Procs, NEW q \in Procs, IsTeardown(t), Running(t)', IsSetup(q), Running(q)', Net(t) = Net(q)
               PROVE  Net(t) \in mixed'
    BY DEF Meets, IsTeardown, IsSetup, Net
  <2>1. t # q /\ Cmd[t].kind # Cmd[q].kind
    BY DEF IsTeardown, IsSetup
  <2>2. \A r \in Procs \ {p} : Running(r)' => Running(r)
    BY <1>2 DEF Running
  <2>3. CASE t = p
    BY <1>3, <2>1, <2>2, <2>3
  <2>4. CASE q = p
    BY <1>3, <2>1, <2>2, <2>4
  <2>5. CASE t # p /\ q # p
    <3>1. Net(t) \in mixed
      BY <2>2, <2>5 DEF OrderInv, Meets
    <3> QED
      BY <1>0, <3>1, Zenon, ZenonT(60)
  <2> QED
    BY <2>3, <2>4, <2>5
<1>6. CASE Setup(p)
  <2>1. /\ attached' = [attached EXCEPT ![Net(p)] = attached[Net(p)] \cup {Ctr(p)}] /\ complete' = complete
        /\ IsSetup(p) /\ pc' = [pc EXCEPT ![p] = "list_running"]
    BY Zenon, ZenonT(60), <1>6 DEF Setup, IsSetup, Goto
  <2>2. Ctr(p) \in attached'[Net(p)] /\ \A n \in Networks : attached[n] \subseteq attached'[n] /\ (n # Net(p) => attached'[n] = attached[n])
    BY Zenon, ZenonT(60), <1>0, <2>1
  <2>3. Attached'
    <3> SUFFICES ASSUME NEW q \in Procs, Up(q)' PROVE Ctr(q) \in attached'[Net(q)]
      BY DEF Attached, Ctr, Net
    <3>1. CASE q = p
      BY <2>2, <3>1
    <3>2. CASE q # p
      <4>1. Up(q) /\ Net(q) \in Networks
        BY Zenon, ZenonT(60), <1>6, <3>2, UpBefore, SubnetFacts DEF Acts
      <4> QED
        BY <2>2, <4>1, Zenon, ZenonT(60) DEF OrderInv, Attached
    <3> QED
      BY <3>1, <3>2
  <2>4. Emptied'
    <3> SUFFICES ASSUME NEW q \in Procs, complete'[q]
                 PROVE  IsTeardown(q) /\ (Running(q)' /\ Net(q) \notin mixed' => attached'[Net(q)] = {})
      BY Zenon, ZenonT(60) DEF Emptied, IsTeardown, Net
    <3>1. complete[q] /\ IsTeardown(q) /\ (Running(q) /\ Net(q) \notin mixed => attached[Net(q)] = {})
      BY <2>1 DEF OrderInv, Emptied
    <3>2. q # p /\ Cmd[q].kind # Cmd[p].kind /\ Net(q) \in Networks
      BY <2>1, <3>1, SubnetFacts, Zenon, ZenonT(60) DEF IsTeardown, IsSetup
    <3>3. Running(q)' => Running(q)
      BY <1>2, <3>2, Zenon, ZenonT(60) DEF Running
    <3>4. Running(q) /\ Net(q) = Net(p) => Net(q) \in mixed'
      BY <1>3, <3>2, Zenon, ZenonT(60)
    <3>5. Net(q) # Net(p) => attached'[Net(q)] = attached[Net(q)]
      BY <2>2, <3>2, Zenon, ZenonT(60)
    <3> QED
      BY Zenon, ZenonT(60), <1>0, <3>1, <3>3, <3>4, <3>5
  <2> QED
    BY <1>4, <1>5, <2>3, <2>4 DEF OrderInv
<1>7. CASE Teardown(p)
  <2>1. /\ attached' = [attached EXCEPT ![Net(p)] = attached[Net(p)] \ {Ctr(p)}]
        /\ complete' = [complete EXCEPT ![p] = Ctr(p) \in attached[Net(p)] /\ attached[Net(p)] \ {Ctr(p)} = {}]
        /\ IsTeardown(p)
    BY Zenon, ZenonT(60), <1>7 DEF Teardown, IsTeardown
  <2>2. /\ attached'[Net(p)] = attached[Net(p)] \ {Ctr(p)}
        /\ \A n \in Networks : attached'[n] \subseteq attached[n] /\ (n # Net(p) => attached'[n] = attached[n])
    BY Zenon, ZenonT(60), <1>0, <2>1
  <2>3. Attached'
    <3> SUFFICES ASSUME NEW q \in Procs, Up(q)' PROVE Ctr(q) \in attached'[Net(q)]
      BY Zenon, ZenonT(60) DEF Attached, Ctr, Net
    <3>1. q # p /\ (Net(q) = Net(p) => Ctr(q) # Ctr(p))
      BY <1>0, <2>1, Zenon, ZenonT(60) DEF Up, IsSetup, IsTeardown, Ctr, Net
    <3>2. Up(q) /\ Net(q) \in Networks
      BY Zenon, ZenonT(60), <1>7, <3>1, UpBefore, SubnetFacts DEF Acts
    <3>3. Ctr(q) \in attached[Net(q)]
      BY <3>2, ZenonT(60), ZenonT(90) DEF OrderInv, Attached
    <3> QED
      BY Zenon, ZenonT(60), <2>2, <3>1, <3>2, <3>3
  <2>4. Emptied'
    <3> SUFFICES ASSUME NEW q \in Procs, complete'[q]
                 PROVE  IsTeardown(q) /\ (Running(q)' /\ Net(q) \notin mixed' => attached'[Net(q)] = {})
      BY DEF Emptied, IsTeardown, Net
    <3>1. CASE q = p
      <4>1. complete'[p] = (Ctr(p) \in attached[Net(p)] /\ attached[Net(p)] \ {Ctr(p)} = {})
        BY Zenon, ZenonT(60), <1>0, <2>1
      <4> QED
        BY Zenon, ZenonT(60), <2>1, <2>2, <3>1, <4>1
    <3>2. CASE q # p
      <4>1. complete[q] /\ IsTeardown(q) /\ (Running(q) /\ Net(q) \notin mixed => attached[Net(q)] = {}) /\ Net(q) \in Networks
        BY <1>2, <3>2, SubnetFacts, ZenonT(60), ZenonT(90) DEF OrderInv, Emptied
      <4>2. Running(q)' => Running(q)
        BY <1>2, <3>2, Zenon, ZenonT(60) DEF Running
      <4>3. attached'[Net(q)] \subseteq attached[Net(q)]
        BY Zenon, ZenonT(60), <2>2, <4>1
      <4> QED
        BY Zenon, ZenonT(60), <1>0, <4>1, <4>2, <4>3
    <3> QED
      BY <3>1, <3>2, Zenon, ZenonT(60)
  <2> QED
    BY <1>4, <1>5, <2>3, <2>4 DEF OrderInv
<1> QED
  BY <1>6, <1>7

\* The commands keep their order; after its first step a command changes nothing
\* that the order depends on, but that it ends.
LEMMA OrderStep ==
    ASSUME DriverInv, OrderInv, NEW p \in Procs, Acts(p)
    PROVE  OrderInv'
<1>1. CASE Setup(p) \/ Teardown(p)
  BY <1>1, BeginOrder
<1>2. CASE ~(Setup(p) \/ Teardown(p))
  <2>1. /\ Others(p) /\ pc[p] # "idle" /\ pc[p] \notin Ended /\ pc'[p] # "idle"
        /\ UNCHANGED <<attached, complete, mixed>>
    BY <1>2, ActFacts, Zenon, ZenonT(60)
  <2>2. \A q \in Procs : /\ pc'[q] # "idle" => pc[q] # "idle"
                         /\ pc[q] \in Ended => pc'[q] \in Ended
                         /\ Running(q)' => Running(q)
    <3>1. \A q \in Procs \ {p} : pc'[q] = pc[q]
      BY <2>1, Zenon, ZenonT(60) DEF Others
    <3>2. Running(p)
      BY <2>1, ZenonT(60), ZenonT(90) DEF Running
    <3> QED
      BY <2>1, <3>1, <3>2, Zenon, ZenonT(60) DEF Running
  <2>3. Ordered'
    <3> SUFFICES ASSUME NEW t \in Procs, NEW q \in Procs, IsTeardown(t), pc'[t] # "idle", IsSetup(q), Ctr(q) = Ctr(t)
                 PROVE  pc'[q] \in Ended
      BY DEF Ordered, IsTeardown, IsSetup, Ctr, Ended
    <3> QED
      BY <2>2 DEF OrderInv, Ordered
  <2>4. Meets'
    <3> SUFFICES ASSUME NEW t \in Procs, NEW q \in Procs, IsTeardown(t), Running(t)', IsSetup(q), Running(q)', Net(t) = Net(q)
                 PROVE  Net(t) \in mixed'
      BY DEF Meets, IsTeardown, IsSetup, Net
    <3>1. Net(t) \in mixed
      BY <2>2, Zenon, ZenonT(60) DEF OrderInv, Meets
    <3> QED
      BY <2>1, <3>1, ZenonT(60), ZenonT(90)
  <2>5. Attached'
    <3> SUFFICES ASSUME NEW q \in Procs, Up(q)' PROVE Ctr(q) \in attached'[Net(q)]
      BY DEF Attached, Ctr, Net
    <3>1. Up(q)
      BY <2>1, UpBefore, Zenon, ZenonT(60)
    <3> QED
      BY <2>1, <3>1, Zenon, ZenonT(60) DEF OrderInv, Attached
  <2>6. Emptied'
    <3> SUFFICES ASSUME NEW q \in Procs, complete'[q]
                 PROVE  IsTeardown(q) /\ (Running(q)' /\ Net(q) \notin mixed' => attached'[Net(q)] = {})
      BY DEF Emptied, IsTeardown, Net
    <3>1. complete[q] /\ (Running(q)' => Running(q)) /\ attached' = attached /\ mixed' = mixed
      BY <2>1, <2>2, Zenon, ZenonT(60)
    <3> QED
      BY <3>1, Zenon, ZenonT(60) DEF OrderInv, Emptied
  <2> QED
    BY <2>3, <2>4, <2>5, <2>6 DEF OrderInv
<1> QED
  BY <1>1, <1>2

\* What a step of nobody does: none at all, or a reload by somebody else.
Still ==
    /\ UNCHANGED <<pc, snap, complete, attached, mixed, raced>>
    /\ \/ UNCHANGED <<ports, rich, stale>>
       \/ ports' = {} /\ rich' = {} /\ \A q \in Procs : pc[q] # "idle" => q \in stale'

\* A step is one of an invocation or leaves the invocations alone.
LEMMA NextCases ==
    ASSUME [Next]_vars
    PROVE  Still \/ \E p \in Procs : Acts(p)
<1>1. CASE UNCHANGED vars
  BY <1>1 DEF vars, daemonVars, ghostVars, Still
<1>2. CASE Restart
  BY <1>2 DEF Restart, DoReload, Still
<1> QED
  BY <1>1, <1>2 DEF Next, Acts

\* The order of the commands.
LEMMA OrderNext ==
    ASSUME DriverInv, OrderInv, [Next]_vars
    PROVE  OrderInv'
<1>1. CASE Still
  <2>1. UNCHANGED <<pc, complete, attached, mixed>>
    BY <1>1 DEF Still
  <2>2. Ordered' /\ Meets'
    BY <2>1, ZenonT(60), ZenonT(90) DEF OrderInv, Ordered, Meets, Running, IsSetup, IsTeardown, Ctr, Net
  <2>3. Attached'
    BY <2>1, Zenon, ZenonT(60) DEF OrderInv, Attached, Up, IsSetup, IsTeardown, Ctr, Net
  <2>4. Emptied'
    BY <2>1, Zenon, ZenonT(60) DEF OrderInv, Emptied, Running, IsTeardown, Net
  <2> QED
    BY <2>2, <2>3, <2>4 DEF OrderInv
<1> QED
  BY <1>1, NextCases, OrderStep

-----------------------------------------------------------------------------
\* The loops over the subnets of a network.

\* What a step of p does to the sources.
Moves(p) ==
    \/ sources' = sources
    \/ sources' = {} /\ (\A q \in Procs \ {p} : pc[q] # "idle" => q \in stale') /\ pc[p] = "reload"
    \/ pc[p] = "change_zone" /\ sources' = sources \cup {Subnet(p)}
    \/ pc[p] = "remove_source" /\ sources' = sources \ {Subnet(p)}

\* And where p is in its loop.
Goes(p) ==
    LET len == Len(Subnets[Net(p)]) IN
    /\ pc[p] = "get_zone" => sources' = sources /\
         (\/ pc'[p] = "failed"
          \/ pc'[p] = "change_zone" /\ at'[p] = at[p]
          \/ pc'[p] = "get_settings" /\ Subnet(p) \in sources)
    /\ pc[p] = "change_zone" =>
         (\/ pc'[p] = "failed" /\ sources' = sources
          \/ sources' = sources \cup {Subnet(p)} /\ pc'[p] = "get_zone" /\ at'[p] = at[p] + 1 /\ at[p] < len
          \/ sources' = sources \cup {Subnet(p)} /\ pc'[p] = "get_settings" /\ at[p] = len)
    /\ pc[p] = "remove_source" =>
         (\/ pc'[p] = "failed" /\ sources' = sources
          \/ sources' = sources \ {Subnet(p)} /\ pc'[p] = "remove_source" /\ at'[p] = at[p] + 1 /\ at[p] < len
          \/ sources' = sources \ {Subnet(p)} /\ pc'[p] = "get_settings" /\ at[p] = len)
    /\ pc[p] \notin {"get_zone", "change_zone", "remove_source"} =>
         /\ pc'[p] = "remove_source" => at'[p] = 1
         /\ pc'[p] \in {"get_zone", "change_zone"} => at'[p] = 1
         /\ IsSetup(p) /\ pc'[p] \in {"get_settings", "set_settings", "done"} =>
              Subnets[Net(p)] = <<>> \/ (pc[p] \in {"get_settings", "set_settings"} /\ sources' = sources)

\* The calls to firewalld's zone, one by one.
LEMMA ZoneMoves ==
    ASSUME DriverInv, NEW p \in Procs, GetZoneOfSource(p) \/ ChangeZoneOfSource(p) \/ RemoveSource(p)
    PROVE  Moves(p) /\ Goes(p)
<1>0. pc \in [Procs -> Labels] /\ at \in [Procs -> Nat \ {0}] /\ Placed(p)
  BY Zenon, ZenonT(60) DEF DriverInv, TypeOK, ProcInv
<1>1. PICK len \in Nat : len = Len(Subnets[Net(p)])
  BY Zenon, ZenonT(60), SubnetFacts
<1>2. \A l : Goto(p, l) => pc'[p] = l
  BY <1>0 DEF Goto
<1>3. ASSUME pc[p] \in {"get_zone", "change_zone", "remove_source"} PROVE at[p] \in 1 .. len
  BY <1>0, <1>1, <1>3, Zenon, ZenonT(60) DEF Placed
<1>4. CASE GetZoneOfSource(p)
  <2>1. pc[p] = "get_zone" /\ sources' = sources
    BY <1>4 DEF GetZoneOfSource, daemonVars
  <2>2. \/ pc'[p] = "change_zone" /\ at'[p] = at[p]
        \/ pc'[p] = "get_settings" /\ Subnet(p) \in sources
    BY <1>2, <1>4, Zenon, ZenonT(60) DEF GetZoneOfSource
  <2> QED
    BY ZenonT(60), ZenonT(90), <2>1, <2>2 DEF Moves, Goes
<1>5. ASSUME NEW again, NextSubnet(p, again, "get_settings"), at[p] \in 1 .. len
      PROVE  \/ pc'[p] = again /\ at'[p] = at[p] + 1 /\ at[p] < len
             \/ pc'[p] = "get_settings" /\ at[p] = len
  <2>1. CASE at[p] = len
    BY <1>1, <1>2, <1>5, <2>1 DEF NextSubnet
  <2>2. CASE at[p] # len
    <3>1. at' = [at EXCEPT ![p] = at[p] + 1] /\ pc'[p] = again
      BY <1>1, <1>2, <1>5, <2>2 DEF NextSubnet
    <3>2. at'[p] = at[p] + 1
      BY <1>0, <3>1
    <3>3. at[p] < len
      BY <1>5, <2>2
    <3> QED
      BY <3>1, <3>2, <3>3
  <2> QED
    BY <2>1, <2>2, Zenon, ZenonT(60)
<1>6. CASE ChangeZoneOfSource(p)
  <2>1. pc[p] = "change_zone"
    BY <1>6 DEF ChangeZoneOfSource
  <2>2. \/ sources' = sources /\ pc'[p] = "failed"
        \/ sources' = sources \cup {Subnet(p)} /\ NextSubnet(p, "get_zone", "get_settings")
    BY <1>2, <1>6, Zenon, ZenonT(60) DEF ChangeZoneOfSource
  <2>3. \/ sources' = sources /\ pc'[p] = "failed"
        \/ sources' = sources \cup {Subnet(p)} /\ pc'[p] = "get_zone" /\ at'[p] = at[p] + 1 /\ at[p] < len
        \/ sources' = sources \cup {Subnet(p)} /\ pc'[p] = "get_settings" /\ at[p] = len
    BY <1>3, <1>5, <2>1, <2>2, Zenon, ZenonT(60)
  <2> QED
    BY Zenon, ZenonT(60), <1>1, <2>1, <2>3 DEF Moves, Goes
<1>7. CASE RemoveSource(p)
  <2>1. pc[p] = "remove_source"
    BY <1>7 DEF RemoveSource
  <2>2. \/ sources' = sources /\ pc'[p] = "failed"
        \/ sources' = sources \ {Subnet(p)} /\ NextSubnet(p, "remove_source", "get_settings")
    BY Zenon, ZenonT(60), <1>2, <1>7 DEF RemoveSource
  <2>3. \/ sources' = sources /\ pc'[p] = "failed"
        \/ sources' = sources \ {Subnet(p)} /\ pc'[p] = "remove_source" /\ at'[p] = at[p] + 1 /\ at[p] < len
        \/ sources' = sources \ {Subnet(p)} /\ pc'[p] = "get_settings" /\ at[p] = len
    BY <1>3, <1>5, <2>1, <2>2, Zenon, ZenonT(60)
  <2> QED
    BY Zenon, ZenonT(60), <1>1, <2>1, <2>3 DEF Moves, Goes
<1> QED
  BY <1>4, <1>6, <1>7

\* The steps outside these loops leave the zone alone, but for a reload; they
\* come to the first subnet, or past it when there is none.
LEMMA SourceMoves ==
    ASSUME DriverInv, NEW p \in Procs, Acts(p)
    PROVE  Moves(p) /\ Goes(p)
<1>0. pc \in [Procs -> Labels] /\ at \in [Procs -> Nat \ {0}] /\ Placed(p)
  BY Zenon, ZenonT(60) DEF DriverInv, TypeOK, ProcInv
<1>1. \A l : Goto(p, l) => pc'[p] = l
  BY <1>0 DEF Goto
<1>2. CASE GetZoneOfSource(p) \/ ChangeZoneOfSource(p) \/ RemoveSource(p)
  BY <1>2, ZoneMoves
<1>3. CASE Setup(p) \/ Teardown(p)
  <2>1. /\ sources' = sources /\ at' = at /\ pc[p] = "idle" /\ pc'[p] \in {"list_running", "remove_source", "get_settings"}
        /\ IsSetup(p) => pc'[p] = "list_running"
    BY Zenon, ZenonT(60), <1>1, <1>3 DEF Setup, Teardown, MayBegin, daemonVars, IsSetup
  <2>2. at[p] = 1
    BY Zenon, ZenonT(60), <1>0, <2>1 DEF Placed
  <2> QED
    BY Zenon, ZenonT(60), <2>1, <2>2 DEF Moves, Goes
<1>4. CASE ListRunning(p) \/ ListPermanent(p) \/ AddObject(p)
  <2>1. sources' = sources /\ pc[p] \in {"list_running", "list_permanent", "add_object"}
    BY Zenon, ZenonT(60), <1>4 DEF ListRunning, ListPermanent, AddObject, daemonVars
  <2>2. \/ \E need : NextObject(p, need)
        \/ \E l \in {"list_permanent", "add_object", "failed"} : Goto(p, l)
    BY Zenon, ZenonT(60), <1>4 DEF ListRunning, ListPermanent, AddObject
  <2>3. \/ pc'[p] \in {"list_running", "list_permanent", "add_object", "failed", "reload"}
        \/ pc'[p] = "get_settings" /\ Subnets[Net(p)] = <<>>
        \/ pc'[p] = "get_zone" /\ at'[p] = 1
    <3>1. ASSUME NEW need, NextObject(p, need) PROVE <2>3!:
      <4>1. \/ pc'[p] = "list_running"
            \/ at' = [at EXCEPT ![p] = 1] /\ pc'[p] = AfterObjects(p, need)
        BY <1>1, <3>1 DEF NextObject
      <4>2. at' = [at EXCEPT ![p] = 1] => at'[p] = 1
        BY <1>0
      <4> QED
        BY <4>1, <4>2 DEF AfterObjects
    <3> QED
      BY <1>1, <2>2, <3>1, Zenon, ZenonT(60)
  <2> QED
    BY Zenon, ZenonT(60), <2>1, <2>3 DEF Moves, Goes
<1>5. CASE Reload(p)
  <2>1. /\ sources' = {} /\ pc[p] = "reload" /\ at' = at
        /\ pc'[p] = IF Subnets[Net(p)] = <<>> THEN "get_settings" ELSE "get_zone"
        /\ \A q \in Procs \ {p} : pc[q] # "idle" => q \in stale'
    BY <1>1, <1>5, Zenon, ZenonT(60) DEF Reload, DoReload
  <2>2. at[p] = 1
    BY Zenon, ZenonT(60), <1>0, <2>1 DEF Placed
  <2> QED
    BY ZenonT(60), ZenonT(90), <2>1, <2>2 DEF Moves, Goes
<1>6. CASE GetPolicySettings(p) \/ SetPolicySettings(p)
  <2>1. /\ sources' = sources /\ pc[p] \in {"get_settings", "set_settings"}
        /\ pc'[p] \in {"set_settings", "done", "failed"}
    BY Zenon, ZenonT(60), <1>1, <1>6 DEF GetPolicySettings, SetPolicySettings, daemonVars
  <2> QED
    BY Zenon, ZenonT(60), <2>1 DEF Moves, Goes
<1>7. CASE Fault(p)
  <2>1. sources' = sources /\ pc'[p] = "failed"
    BY <1>1, <1>7 DEF Fault, daemonVars
  <2> QED
    BY Zenon, ZenonT(60), <2>1 DEF Moves, Goes
<1> QED
  BY <1>2, <1>3, <1>4, <1>5, <1>6, <1>7 DEF Acts, Step
=============================================================================
