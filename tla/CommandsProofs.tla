--------------------------- MODULE CommandsProofs ---------------------------
(***************************************************************************)
(* For every number of containers, networks and failing steps: the         *)
(* variables of Commands keep their types (TypesHold), a failing driver    *)
(* does not stop a teardown (TeardownGoesOn), a command that reports       *)
(* success leaves nothing behind (NothingIsLeft), and a failed setup has   *)
(* rolled back what it had made (RollbackIsComplete).                      *)
(***************************************************************************)
EXTENDS Commands, SequenceTheorems, TLAPS

\* Time enough for the provers on a busy machine, and a second try.
USE SMTT(30), ZenonT(30), Z3T(30)

-----------------------------------------------------------------------------
(* The sequence of networks that are set up, as a set. *)

Elems(s) == {s[i] : i \in DOMAIN s}
Distinct(s) == \A i, j \in DOMAIN s : s[i] = s[j] => i = j

\* The bound on failures.
LEMMA FaultCounted == ASSUME faults \in 0 .. MaxFaults, Fault PROVE faults' \in 0 .. MaxFaults
BY CommandsAssumption DEF Fault

\* A driver is pushed: Vec::push adds one element, and keeps them distinct.
LEMMA AppendElems ==
    ASSUME NEW S, NEW s \in Seq(S), NEW e \in S, Distinct(s), e \notin Elems(s)
    PROVE  /\ Append(s, e) \in Seq(S) /\ Distinct(Append(s, e))
           /\ Elems(Append(s, e)) = Elems(s) \cup {e}
           /\ Append(s, e) # <<>>
           /\ Append(s, e)[Len(Append(s, e))] = e
<1> DEFINE t == Append(s, e)
<1>1. t \in Seq(S) /\ Len(t) = Len(s) + 1 /\ t[Len(s) + 1] = e /\ \A i \in 1 .. Len(s) : t[i] = s[i]
  OBVIOUS
<1>2. DOMAIN t = 1 .. Len(s) + 1 /\ DOMAIN s = 1 .. Len(s) /\ Len(s) \in Nat
  BY <1>1
<1> HIDE DEF t
<1>3. Distinct(t)
  BY <1>1, <1>2 DEF Distinct, Elems
<1>4. Elems(t) = Elems(s) \cup {e}
  BY <1>1, <1>2 DEF Elems
<1>5. t # <<>>
  BY <1>1, <1>2
<1> QED BY <1>1, <1>2, <1>3, <1>4, <1>5 DEF t

\* The rollback goes through the drivers from the first one on.
LEMMA TailElems ==
    ASSUME NEW S, NEW s \in Seq(S), Distinct(s), s # <<>>
    PROVE  /\ Tail(s) \in Seq(S) /\ Distinct(Tail(s))
           /\ Elems(Tail(s)) = Elems(s) \ {Head(s)}
           /\ Head(s) \in Elems(s)
<1> DEFINE t == Tail(s)
<1>1. t \in Seq(S) /\ Len(t) = Len(s) - 1 /\ Len(s) \in Nat \ {0} /\ \A i \in 1 .. Len(t) : t[i] = s[i + 1]
  OBVIOUS
<1>2. DOMAIN t = 1 .. Len(s) - 1 /\ DOMAIN s = 1 .. Len(s) /\ Head(s) = s[1]
  BY <1>1
<1> HIDE DEF t
<1>3. Distinct(t)
  <2>1. ASSUME NEW i \in DOMAIN t, NEW j \in DOMAIN t, t[i] = t[j] PROVE i = j
    <3>1. i + 1 \in DOMAIN s /\ j + 1 \in DOMAIN s /\ i \in Int /\ j \in Int
      BY <1>1, <1>2
    <3>2. s[i + 1] = s[j + 1]
      BY <1>1, <1>2, <2>1
    <3>3. i + 1 = j + 1
      BY <3>1, <3>2 DEF Distinct
    <3> QED BY <3>1, <3>3
  <2> QED BY <2>1 DEF Distinct
<1>4. Elems(t) \subseteq Elems(s) \ {Head(s)}
  <2>1. ASSUME NEW i \in DOMAIN t PROVE t[i] \in Elems(s) /\ t[i] # Head(s)
    <3>1. i + 1 \in DOMAIN s /\ 1 \in DOMAIN s /\ i + 1 # 1 /\ t[i] = s[i + 1]
      BY <1>1, <1>2
    <3> QED BY <1>2, <3>1 DEF Distinct, Elems
  <2> QED BY <2>1 DEF Elems
<1>5. ASSUME NEW x \in Elems(s), x # Head(s) PROVE x \in Elems(t)
  <2>1. PICK i \in DOMAIN s : x = s[i]
    BY DEF Elems
  <2>2. i # 1 /\ i - 1 \in DOMAIN t /\ t[i - 1] = s[i]
    BY <2>1, <1>1, <1>2, <1>5
  <2> QED BY <2>1, <2>2 DEF Elems
<1>6. Head(s) \in Elems(s)
  BY <1>1, <1>2 DEF Elems
<1> QED BY <1>1, <1>3, <1>4, <1>5, <1>6 DEF t

\* The failing driver is not among those that are torn down.
LEMMA FrontElems ==
    ASSUME NEW S, NEW s \in Seq(S), Distinct(s), s # <<>>
    PROVE  /\ SubSeq(s, 1, Len(s) - 1) \in Seq(S) /\ Distinct(SubSeq(s, 1, Len(s) - 1))
           /\ Elems(SubSeq(s, 1, Len(s) - 1)) = Elems(s) \ {s[Len(s)]}
<1> DEFINE t == SubSeq(s, 1, Len(s) - 1)
<1>1. t \in Seq(S) /\ Len(t) = Len(s) - 1 /\ Len(s) \in Nat \ {0} /\ \A i \in 1 .. Len(t) : t[i] = s[i]
  <2>1. Len(s) \in Nat \ {0} /\ \A i \in 1 .. Len(s) - 1 : s[i] \in S
    OBVIOUS
  <2>2. /\ t \in Seq(S)
        /\ Len(t) = IF 1 <= Len(s) - 1 THEN Len(s) - 1 - 1 + 1 ELSE 0
        /\ \A i \in 1 .. Len(s) - 1 - 1 + 1 : t[i] = s[1 + i - 1]
    BY <2>1, SubSeqProperties
  <2> HIDE DEF t
  <2>3. Len(t) = Len(s) - 1
    <3>1. Len(s) \in Nat \ {0} /\ Len(t) = IF 1 <= Len(s) - 1 THEN Len(s) - 1 - 1 + 1 ELSE 0
      BY <2>1, <2>2
    <3>2. ASSUME NEW k \in Nat \ {0}
          PROVE  (IF 1 <= k - 1 THEN k - 1 - 1 + 1 ELSE 0) = k - 1
      OBVIOUS
    <3> QED BY <3>1, <3>2, Zenon, ZenonT(60)
  <2>4. ASSUME NEW i \in 1 .. Len(t) PROVE t[i] = s[i]
    <3>1. i \in 1 .. Len(s) - 1 - 1 + 1 /\ 1 + i - 1 = i
      BY <2>1, <2>3
    <3> QED BY <2>2, <3>1
  <2> QED BY <2>1, <2>2, <2>3, <2>4
<1>2. DOMAIN t = 1 .. Len(s) - 1 /\ DOMAIN s = 1 .. Len(s)
  BY <1>1
<1> HIDE DEF t
<1>3. Distinct(t)
  BY <1>1, <1>2 DEF Distinct
<1>4. Elems(t) \subseteq Elems(s) \ {s[Len(s)]}
  BY <1>1, <1>2 DEF Distinct, Elems
<1>5. ASSUME NEW x \in Elems(s), x # s[Len(s)] PROVE x \in Elems(t)
  <2>1. PICK i \in DOMAIN s : x = s[i]
    BY DEF Elems
  <2>2. i \in DOMAIN t /\ t[i] = s[i]
    BY <1>1, <1>2, <1>5, <2>1
  <2> QED BY <2>1, <2>2 DEF Elems
<1> QED BY <1>1, <1>3, <1>4, <1>5 DEF t

-----------------------------------------------------------------------------
(* The inductive invariant. *)

SetupPcs == {"validate", "create", "netns", "firewall", "commit", "rollback"}
TeardownPcs == {"delete_dns", "open", "networks"}
Statuses == {"down", "up", "setup_failed", "commit_failed", "teardown_failed", "teardown_aborted"}

\* The values of the variables but did.
Types ==
    /\ bridges \subseteq Networks \ Plugins
    /\ netrules \subseteq Networks \ (Internal \cup Plugins)
    /\ links \subseteq Containers \X Networks
    /\ ports \subseteq Containers \X (Networks \ (Internal \cup Plugins))
    /\ entries \subseteq Containers \X Registered
    /\ status \in [Containers -> Statuses]
    /\ cmd \in [kind : {"setup", "teardown"}, ctr : Containers]
    /\ ns \in {"host", "container"}
    /\ todo \subseteq Nets[c] /\ rolled \subseteq Nets[c] /\ hit \subseteq Nets[c]
    /\ erred \in BOOLEAN
    /\ faults \in 0 .. MaxFaults

\* Where a command is: a teardown runs in the host's namespace, for a container
\* that is not down, and meets no driver before the networks.  A setup leaves
\* the host's namespace only to roll back.
Places ==
    /\ pc \in {"idle"} \cup SetupPcs \cup TeardownPcs
    /\ pc \in SetupPcs => cmd.kind = "setup"
    /\ pc \in TeardownPcs => cmd.kind = "teardown" /\ ns = "host" /\ status[c] # "down"
    /\ pc \in {"delete_dns", "open"} => todo = Nets[c] /\ hit = {}
    /\ pc \in SetupPcs \ {"rollback"} => rolled = {} /\ ns = "host"

\* The networks set up so far: distinct, linked, and not waiting or rolled back.
DidInv ==
    /\ did \in Seq(Nets[c]) /\ Distinct(did)
    /\ \A n \in Elems(did) : <<c, n>> \in links /\ n \notin todo /\ n \notin rolled
    /\ cmd.kind = "teardown" => did = <<>>
    /\ pc \in {"netns", "firewall"} => did # <<>> /\ This \notin Plugins
    /\ pc = "firewall" => This \notin Internal

\* The networks this setup has made are those set up so far, but for the one in
\* progress, and those rolled back; a setup that failed in a driver has rolled
\* all of them back.
MadeInv ==
    /\ made \subseteq Nets[c] /\ rolled \subseteq made
    /\ cmd.kind = "teardown" => made = {}
    /\ pc = "validate" => did = <<>>
    /\ pc \in {"validate", "create", "commit", "rollback"} => made = Elems(did) \cup rolled
    /\ pc \in {"netns", "firewall"} => made = Elems(did) \ {This}
    /\ pc = "idle" /\ status[c] = "setup_failed" => made = rolled

\* A container that is not down, or whose command runs.
Busy(k) == status[k] # "down" \/ (k = c /\ pc # "idle")

\* Whatever is there has a container whose command will have to remove it.
Owned ==
    /\ \A k \in Containers, n \in Networks :
           <<k, n>> \in links \/ <<k, n>> \in ports \/ <<k, n>> \in entries => n \in Nets[k] /\ Busy(k)
    /\ \A n \in Networks : n \in bridges \/ n \in netrules => \E k \in Containers : n \in Nets[k] /\ Busy(k)

\* A teardown has undone the networks it passed without being hit, and, while
\* it has collected no error, left a bridge only to other containers.
Torn ==
    /\ pc = "networks" => \A n \in Nets[c] :
           n \notin todo /\ n \notin hit => <<c, n>> \notin links /\ <<c, n>> \notin ports
    /\ pc \in {"open", "networks"} /\ ~erred => hit = {} /\ \A n \in Networks : <<c, n>> \notin entries
    /\ pc = "networks" /\ ~erred => \A n \in Nets[c] :
           n \notin todo /\ (n \in bridges \/ n \in netrules)
               => \E k \in Containers : k # c /\ <<k, n>> \in links

CommandInv == Types /\ Places /\ DidInv /\ MadeInv /\ Owned /\ Torn /\ TeardownContinues

\* The container of the command, and its networks.
LEMMA CtrFacts ==
    ASSUME Types
    PROVE  c \in Containers /\ Nets[c] \subseteq Networks
BY CommandsAssumption DEF Types, c

\* No command has run yet.
LEMMA CommandInit == Init => CommandInv
<1> SUFFICES ASSUME Init PROVE CommandInv
  OBVIOUS
<1>1. c \in Containers /\ Nets[c] \subseteq Networks
  BY CommandsAssumption DEF Init, c
<1>2. Types
  <2>1. cmd \in [kind : {"setup", "teardown"}, ctr : Containers]
    BY DEF Init
  <2>2. status \in [Containers -> Statuses]
    BY DEF Init, Statuses
  <2>3. 0 \in 0 .. MaxFaults
    BY CommandsAssumption
  <2> QED BY Zenon, ZenonT(60), <2>1, <2>2, <2>3 DEF Init, Types
<1>3. Places
  BY DEF Init, Places, SetupPcs, TeardownPcs
<1>4. DidInv
  BY DEF Init, DidInv, Distinct, Elems
<1>5. Owned
  BY DEF Init, Owned
<1>6. Torn
  BY DEF Init, Torn
<1>7. TeardownContinues
  BY DEF Init, TeardownContinues
<1>8. MadeInv
  BY DEF Init, MadeInv, Elems
<1> QED BY <1>2, <1>3, <1>4, <1>5, <1>6, <1>7, <1>8 DEF CommandInv

\* A new process: the container it is for becomes busy, and no other ceases to be.
LEMMA BeginStep ==
    ASSUME CommandInv, NEW kind \in {"setup", "teardown"}, NEW k \in Containers, Begin(kind, k)
    PROVE  CommandInv'
<1> USE DEF CommandInv
<1>1. c' = k /\ cmd'.kind = kind /\ Nets[k] \subseteq Networks
  BY CommandsAssumption DEF Begin, c
<1>2. Types'
  BY Zenon, ZenonT(60), <1>1 DEF Begin, Types, hostVars
<1>3. Places'
  BY <1>1 DEF Begin, Places, SetupPcs, TeardownPcs
<1>4. DidInv'
  BY <1>1 DEF Begin, DidInv, Distinct, Elems
<1>5. Owned'
  <2>1. pc = "idle" /\ status' = status /\ UNCHANGED <<hostVars, entries>>
    BY DEF Begin
  <2>2. \A j \in Containers : Busy(j) => Busy(j)'
    BY <2>1 DEF Busy
  <2> QED BY <2>1, <2>2 DEF Owned, hostVars
<1>6. Torn' /\ TeardownContinues'
  BY DEF Begin, Torn, TeardownContinues
<1>7. MadeInv'
  BY <1>1 DEF Begin, MadeInv, Elems
<1> QED BY <1>2, <1>3, <1>4, <1>5, <1>6, <1>7

-----------------------------------------------------------------------------
(* setup *)

\* While a setup runs or ends, with a status that is not "down", what it has
\* put on the host is owned by its container.
LEMMA SetupOwned ==
    ASSUME Types, Types', Owned, pc \in SetupPcs, UNCHANGED cmd,
           \A k \in Containers : k # c => status'[k] = status[k],
           pc' # "idle" \/ status'[c] # "down",
           \A k \in Containers, n \in Networks :
               <<k, n>> \in links' \/ <<k, n>> \in ports' \/ <<k, n>> \in entries'
               => \/ <<k, n>> \in links \/ <<k, n>> \in ports \/ <<k, n>> \in entries
                  \/ k = c /\ n \in Nets[c],
           \A n \in Networks : n \in bridges' \/ n \in netrules'
               => n \in bridges \/ n \in netrules \/ n \in Nets[c]
    PROVE  Owned'
<1>1. c' = c /\ c \in Containers /\ Busy(c)'
  BY CtrFacts DEF c, Busy
<1>2. \A k \in Containers : Busy(k) => Busy(k)'
  BY <1>1 DEF Busy
<1>3. ASSUME NEW k \in Containers, NEW n \in Networks,
             <<k, n>> \in links' \/ <<k, n>> \in ports' \/ <<k, n>> \in entries'
      PROVE  n \in Nets[k] /\ Busy(k)'
  <2>1. CASE k = c /\ n \in Nets[c]
    BY <1>1, <2>1
  <2>2. CASE <<k, n>> \in links \/ <<k, n>> \in ports \/ <<k, n>> \in entries
    BY <1>2, <2>2 DEF Owned
  <2> QED BY <1>3, <2>1, <2>2
<1>4. ASSUME NEW n \in Networks, n \in bridges' \/ n \in netrules'
      PROVE  \E k \in Containers : n \in Nets[k] /\ Busy(k)'
  <2>1. CASE n \in Nets[c]
    BY <1>1, <2>1
  <2>2. CASE n \in bridges \/ n \in netrules
    BY <1>2, <2>2 DEF Owned
  <2> QED BY <1>4, <2>1, <2>2
<1> QED BY <1>3, <1>4 DEF Owned

\* The status of the container alone changes when a command returns.
LEMMA ReturnStatus ==
    ASSUME Types, NEW s \in Statuses, Return(s)
    PROVE  /\ status' \in [Containers -> Statuses]
           /\ status'[c] = s
           /\ \A k \in Containers : k # c => status'[k] = status[k]
           /\ pc' = "idle"
BY CtrFacts DEF Types, Return

\* The validation and the commit touch no network.
LEMMA ValidateStep == ASSUME CommandInv, Validate PROVE CommandInv'
<1> USE DEF CommandInv
<1>1. c' = c /\ c \in Containers /\ pc = "validate"
  BY CtrFacts DEF Validate, c
<1>2. \/ pc' = "create" /\ UNCHANGED <<status, faults>>
      \/ Fault /\ Return("setup_failed")
  BY DEF Validate
<1>3. /\ status' \in [Containers -> Statuses]
      /\ \A k \in Containers : k # c => status'[k] = status[k]
      /\ pc' = "create" \/ (pc' = "idle" /\ status'[c] # "down")
  <2>1. CASE pc' = "create" /\ UNCHANGED <<status, faults>>
    <3>1. status' = status /\ pc' = "create"
      BY <2>1
    <3>2. status \in [Containers -> Statuses]
      BY DEF Types
    <3> QED BY <3>1, <3>2, Zenon, ZenonT(60)
  <2>2. CASE Return("setup_failed")
    BY <2>2, ReturnStatus DEF Statuses
  <2> QED BY <1>2, <2>1, <2>2
<1>4. faults' \in 0 .. MaxFaults
  BY <1>2, FaultCounted DEF Types
<1>5. Types'
  BY <1>1, <1>3, <1>4 DEF Validate, Types, hostVars, loopVars
<1>6. Places'
  BY <1>1, <1>3 DEF Validate, Places, loopVars, SetupPcs, TeardownPcs
<1>7. DidInv'
  BY <1>1, <1>3 DEF Validate, DidInv, Distinct, Elems, hostVars, loopVars
<1>8. Owned'
  <2>1. UNCHANGED <<hostVars, entries, cmd>> /\ pc \in SetupPcs
    BY <1>1 DEF Validate, SetupPcs
  <2>2. pc' # "idle" \/ status'[c] # "down"
    BY <1>3
  <2> QED BY <1>3, <1>5, <2>1, <2>2, SetupOwned DEF hostVars
<1>9. Torn' /\ TeardownContinues'
  BY <1>1, <1>3 DEF Validate, Places, Torn, TeardownContinues, SetupPcs
<1>10. MadeInv'
  <2>1. UNCHANGED <<did, made, rolled, cmd>> /\ Elems(<<>>) = {}
    BY DEF Validate, loopVars, Elems
  <2> QED BY <1>1, <1>3, <2>1 DEF MadeInv
<1> QED BY <1>5, <1>6, <1>7, <1>8, <1>9, <1>10

\* An aborted commit leaves some of the container's entries.
LEMMA CommitStep == ASSUME CommandInv, Commit PROVE CommandInv'
<1> USE DEF CommandInv
<1>1. c' = c /\ c \in Containers /\ pc = "commit"
  BY CtrFacts DEF Commit, c
<1>2. PICK some \in SUBSET {<<c, n>> : n \in Nets[c] \cap Registered} : entries' = entries \cup some
  BY Zenon, ZenonT(60) DEF Commit
<1>3. /\ status' \in [Containers -> Statuses]
      /\ \A k \in Containers : k # c => status'[k] = status[k]
      /\ pc' = "idle" /\ status'[c] # "down" /\ status'[c] # "setup_failed"
  <2>1. Return("up") \/ Return("commit_failed")
    BY DEF Commit
  <2> QED BY <2>1, ReturnStatus DEF Statuses
<1>4. faults' \in 0 .. MaxFaults
  BY CommandsAssumption DEF Commit, Types, Fault
<1>5. Types'
  <2>1. entries' \subseteq Containers \X Registered
    BY <1>1, <1>2 DEF Types
  <2> QED BY <1>1, <1>3, <1>4, <2>1 DEF Commit, Types, hostVars, loopVars
<1>6. Places'
  BY <1>1, <1>3 DEF Commit, Places, loopVars, SetupPcs, TeardownPcs
<1>7. DidInv'
  <2>1. UNCHANGED <<did, links, todo, rolled, cmd>>
    BY DEF Commit, hostVars, loopVars
  <2> QED BY <1>1, <1>3, <2>1 DEF DidInv, Distinct, Elems
<1>8. Owned'
  <2>1. UNCHANGED <<hostVars, cmd>> /\ pc \in SetupPcs
    BY <1>1 DEF Commit, SetupPcs
  <2>2. \A k \in Containers, n \in Networks :
            <<k, n>> \in entries' => <<k, n>> \in entries \/ (k = c /\ n \in Nets[c])
    BY <1>2
  <2> QED BY <1>3, <1>5, <2>1, <2>2, SetupOwned DEF hostVars
<1>9. Torn' /\ TeardownContinues'
  BY <1>1, <1>3 DEF Commit, Places, Torn, TeardownContinues, SetupPcs
<1>10. MadeInv'
  <2>1. UNCHANGED <<did, made, rolled, cmd>>
    BY DEF Commit, loopVars
  <2> QED BY <1>1, <1>3, <2>1 DEF MadeInv
<1> QED BY <1>5, <1>6, <1>7, <1>8, <1>9, <1>10

\* The veth pair is there, or only the bridge.
LEMMA CreateStep ==
    ASSUME CommandInv, NEW n \in Networks, CreateInterfaces(n)
    PROVE  CommandInv'
<1> USE DEF CommandInv
<1>1. /\ c' = c /\ c \in Containers /\ pc = "create" /\ cmd.kind = "setup" /\ rolled = {} /\ rolled' = {}
      /\ n \in Nets[c] /\ n \in todo /\ n \notin Plugins /\ todo' = todo \ {n}
  BY CtrFacts DEF CreateInterfaces, c, Places, SetupPcs, Types
<1>2. \/ links' = links \cup {<<c, n>>} /\ did' = Append(did, n) /\ pc' = "netns" /\ faults' = faults
      \/ links' = links /\ did' = did /\ pc' = "rollback" /\ Fault
  BY DEF CreateInterfaces
<1>3. (bridges' = bridges \/ bridges' = bridges \cup {n}) /\ UNCHANGED <<netrules, ports, entries, status, cmd, ns, made, hit, erred>>
  BY DEF CreateInterfaces
<1>4. faults' \in 0 .. MaxFaults
  BY <1>2, FaultCounted DEF Types
<1>5. Types'
  <2>1. links' \subseteq Containers \X Networks /\ bridges' \subseteq Networks \ Plugins
    <3>1. <<c, n>> \in Containers \X Networks /\ n \in Networks \ Plugins
      BY <1>1
    <3> QED BY <1>2, <1>3, <3>1 DEF Types
  <2> QED BY <1>1, <1>3, <1>4, <2>1 DEF Types
<1>6. Places'
  BY <1>1, <1>2, <1>3 DEF Places, SetupPcs, TeardownPcs
<1>7. DidInv'
  <2>1. n \notin Elems(did) /\ did \in Seq(Nets[c]) /\ Distinct(did)
    BY ZenonT(60), ZenonT(90), <1>1 DEF DidInv
  <2>2. CASE links' = links \cup {<<c, n>>} /\ did' = Append(did, n) /\ pc' = "netns"
    <3>1. /\ did' \in Seq(Nets[c]) /\ Distinct(did')
          /\ Elems(did') = Elems(did) \cup {n} /\ did' # <<>> /\ did'[Len(did')] = n
      BY <1>1, <2>1, <2>2, AppendElems
    <3> QED BY <1>1, <2>2, <3>1, <1>3 DEF DidInv, This
  <2>3. CASE links' = links /\ did' = did /\ pc' = "rollback"
    BY <1>1, <1>3, <2>3 DEF DidInv
  <2> QED BY <1>2, <2>2, <2>3
<1>8. Owned'
  <2>1. \A k \in Containers, m \in Networks :
            <<k, m>> \in links' => <<k, m>> \in links \/ (k = c /\ m \in Nets[c])
    BY <1>1, <1>2
  <2>2. \A m \in Networks : m \in bridges' => m \in bridges \/ m \in Nets[c]
    BY <1>1, <1>3
  <2>3. pc \in SetupPcs /\ pc' # "idle"
    BY <1>1, <1>2 DEF SetupPcs
  <2> QED BY <1>3, <1>5, <2>1, <2>2, <2>3, SetupOwned
<1>9. Torn' /\ TeardownContinues'
  BY <1>1, <1>2 DEF Torn, TeardownContinues
<1>10. MadeInv'
  <2>1. made = Elems(did) /\ n \notin Elems(did) /\ did \in Seq(Nets[c]) /\ Distinct(did)
    BY Zenon, ZenonT(60), <1>1 DEF MadeInv, DidInv
  <2>2. CASE did' = Append(did, n) /\ pc' = "netns"
    <3>1. Elems(did') = Elems(did) \cup {n} /\ This' = n
      BY <1>1, <2>1, <2>2, AppendElems DEF This
    <3> QED BY <1>1, <1>3, <2>1, <2>2, <3>1 DEF MadeInv
  <2>3. CASE did' = did /\ pc' = "rollback"
    BY <1>1, <1>3, <2>1, <2>3 DEF MadeInv
  <2> QED BY <1>2, <2>2, <2>3
<1> QED BY <1>5, <1>6, <1>7, <1>8, <1>9, <1>10

\* What a plugin has made, whether it reported it or not.
LEMMA PluginSetupStep ==
    ASSUME CommandInv, NEW n \in Networks, SetupPlugin(n)
    PROVE  CommandInv'
<1> USE DEF CommandInv
<1>1. /\ c' = c /\ c \in Containers /\ pc = "create" /\ cmd.kind = "setup" /\ rolled = {} /\ rolled' = {}
      /\ n \in Nets[c] /\ n \in todo /\ n \in Plugins /\ todo' = todo \ {n} /\ ns = "host"
  BY CtrFacts, Zenon, ZenonT(60) DEF SetupPlugin, c, Places, SetupPcs, Types
<1>2. \/ /\ links' = links \cup {<<c, n>>} /\ did' = Append(did, n) /\ made' = made \cup {n}
         /\ (pc' = "commit" \/ pc' = "create") /\ faults' = faults
      \/ (links' = links \/ links' = links \cup {<<c, n>>}) /\ UNCHANGED <<did, made>> /\ pc' = "rollback" /\ Fault
  <2>1. PICK r \in PluginRuns :
            /\ links' \in PluginEffects(r, links \cup {<<c, n>>})
            /\ \/ /\ PluginOk("setup", r)
                  /\ did' = Append(did, n) /\ made' = made \cup {n}
                  /\ pc' = IF todo = {n} THEN "commit" ELSE "create"
                  /\ UNCHANGED faults
               \/ /\ ~PluginOk("setup", r)
                  /\ Fault
                  /\ pc' = "rollback"
                  /\ UNCHANGED <<did, made>>
    BY DEF SetupPlugin
  <2>2. PluginOk("setup", r) => links' = links \cup {<<c, n>>}
    BY <1>1, <2>1 DEF PluginOk, PluginEffects
  <2>3. links' = links \/ links' = links \cup {<<c, n>>}
    BY <2>1 DEF PluginEffects
  <2> QED BY <2>1, <2>2, <2>3
<1>3. UNCHANGED <<bridges, netrules, ports, entries, status, cmd, ns, hit, erred>>
  BY DEF SetupPlugin
<1>4. faults' \in 0 .. MaxFaults
  BY <1>2, FaultCounted DEF Types
<1>5. Types'
  <2>1. links' \subseteq Containers \X Networks
    <3>1. <<c, n>> \in Containers \X Networks
      BY <1>1
    <3> QED BY <1>2, <3>1 DEF Types
  <2> QED BY <1>1, <1>3, <1>4, <2>1 DEF Types
<1>6. Places'
  BY <1>1, <1>2, <1>3 DEF Places, SetupPcs, TeardownPcs
<1>7. DidInv'
  <2>1. n \notin Elems(did) /\ did \in Seq(Nets[c]) /\ Distinct(did)
    BY Zenon, ZenonT(60), <1>1 DEF DidInv
  <2>2. CASE links' = links \cup {<<c, n>>} /\ did' = Append(did, n) /\ (pc' = "commit" \/ pc' = "create")
    <3>1. did' \in Seq(Nets[c]) /\ Distinct(did') /\ Elems(did') = Elems(did) \cup {n}
      BY <1>1, <2>1, <2>2, AppendElems
    <3> QED BY <1>1, <2>2, <3>1, <1>3 DEF DidInv, This
  <2>3. CASE (links' = links \/ links' = links \cup {<<c, n>>}) /\ did' = did /\ pc' = "rollback"
    BY <1>1, <1>3, <2>3 DEF DidInv
  <2> QED BY <1>2, <2>2, <2>3
<1>8. Owned'
  <2>1. \A k \in Containers, m \in Networks :
            <<k, m>> \in links' => <<k, m>> \in links \/ (k = c /\ m \in Nets[c])
    BY <1>1, <1>2
  <2>2. pc \in SetupPcs /\ pc' # "idle"
    BY <1>1, <1>2 DEF SetupPcs
  <2> QED BY <1>3, <1>5, <2>1, <2>2, SetupOwned
<1>9. Torn' /\ TeardownContinues'
  BY <1>1, <1>2 DEF Torn, TeardownContinues
<1>10. MadeInv'
  <2>1. made = Elems(did) /\ n \notin Elems(did) /\ did \in Seq(Nets[c]) /\ Distinct(did)
    BY Zenon, ZenonT(60), <1>1 DEF MadeInv, DidInv
  <2>2. CASE did' = Append(did, n) /\ made' = made \cup {n} /\ (pc' = "commit" \/ pc' = "create")
    <3>1. Elems(did') = Elems(did) \cup {n}
      BY <1>1, <2>1, <2>2, AppendElems
    <3> QED BY <1>1, <1>3, <2>1, <2>2, <3>1 DEF MadeInv
  <2>3. CASE did' = did /\ made' = made /\ pc' = "rollback"
    BY <1>1, <1>3, <2>1, <2>3 DEF MadeInv
  <2> QED BY <1>2, <2>2, <2>3
<1> QED BY <1>5, <1>6, <1>7, <1>8, <1>9, <1>10

\* A failure in the container's namespace leaves the thread there.
LEMMA NetnsStep == ASSUME CommandInv, ExecNetns PROVE CommandInv'
<1> USE DEF CommandInv
<1>1. /\ c' = c /\ c \in Containers /\ pc = "netns" /\ cmd.kind = "setup" /\ rolled = {} /\ rolled' = {}
      /\ ns = "host" /\ did # <<>> /\ This \notin Plugins /\ did \in Seq(Nets[c]) /\ Distinct(did)
  BY CtrFacts DEF ExecNetns, c, Places, SetupPcs, DidInv
<1>2. \/ pc' \in {"commit", "create"} /\ made' = made \cup {This} /\ UNCHANGED <<ns, did, faults>>
      \/ pc' = "firewall" /\ This \notin Internal /\ UNCHANGED <<ns, did, made, faults>>
      \/ pc' = "rollback" /\ DropThis /\ Fault /\ ns' \in {"host", "container"} /\ UNCHANGED made
  BY DEF ExecNetns, Done
<1>3. UNCHANGED <<hostVars, entries, status, cmd, todo, hit, erred>>
  BY DEF ExecNetns
<1>4. faults' \in 0 .. MaxFaults /\ ns' \in {"host", "container"}
  BY <1>1, <1>2, FaultCounted DEF Types
<1>5. Types'
  BY <1>1, <1>3, <1>4 DEF Types, hostVars
<1>6. Places'
  BY <1>1, <1>2, <1>3 DEF Places, SetupPcs, TeardownPcs
<1>7. DidInv'
  <2>1. CASE pc' = "rollback" /\ DropThis
    <3>1. did' \in Seq(Nets[c]) /\ Distinct(did') /\ Elems(did') = Elems(did) \ {This}
      BY Zenon, ZenonT(60), <1>1, <2>1, FrontElems DEF DropThis, This
    <3> QED BY <1>1, <1>3, <2>1, <3>1 DEF DidInv, hostVars
  <2>2. CASE did' = did /\ pc' \in {"commit", "create"}
    BY <1>1, <1>3, <2>2 DEF DidInv, hostVars
  <2>3. CASE did' = did /\ pc' = "firewall" /\ This \notin Internal
    BY <1>1, <1>3, <2>3 DEF DidInv, hostVars, This
  <2> QED BY <1>2, <2>1, <2>2, <2>3
<1>8. Owned'
  <2>1. pc \in SetupPcs /\ pc' # "idle"
    BY <1>1, <1>2 DEF SetupPcs
  <2> QED BY <1>3, <1>5, <2>1, SetupOwned DEF hostVars
<1>9. Torn' /\ TeardownContinues'
  BY <1>1, <1>2 DEF Torn, TeardownContinues
<1>10. MadeInv'
  <2>1. made = Elems(did) \ {This} /\ made \subseteq Nets[c]
    BY <1>1 DEF MadeInv
  <2>2. This \in Nets[c] /\ This \in Elems(did)
    BY <1>1 DEF This, Elems
  <2>3. CASE pc' = "rollback" /\ DropThis /\ made' = made
    <3>1. Elems(did') = Elems(did) \ {This}
      BY Zenon, ZenonT(60), <1>1, <2>3, FrontElems DEF DropThis, This
    <3> QED BY <1>1, <1>3, <2>1, <2>3, <3>1 DEF MadeInv
  <2>4. CASE did' = did /\ pc' \in {"commit", "create"} /\ made' = made \cup {This}
    BY <1>1, <1>3, <2>1, <2>2, <2>4 DEF MadeInv
  <2>5. CASE did' = did /\ pc' = "firewall" /\ made' = made
    BY <1>1, <1>3, <2>1, <2>5 DEF MadeInv, This
  <2> QED BY <1>2, <2>3, <2>4, <2>5
<1> QED BY <1>5, <1>6, <1>7, <1>8, <1>9, <1>10

\* The rules of the network and the ports of the container, or some of them.
LEMMA FirewallStep == ASSUME CommandInv, SetupFirewall PROVE CommandInv'
<1> USE DEF CommandInv
<1>1. /\ c' = c /\ c \in Containers /\ pc = "firewall" /\ cmd.kind = "setup" /\ rolled = {} /\ rolled' = {}
      /\ ns = "host" /\ did # <<>> /\ did \in Seq(Nets[c]) /\ Distinct(did)
      /\ This \notin Plugins /\ This \notin Internal /\ Nets[c] \subseteq Networks
  BY CtrFacts DEF SetupFirewall, c, Places, SetupPcs, DidInv
<1>2. This \in Nets[c]
  BY <1>1 DEF This
<1>3. \/ pc' \in {"commit", "create"} /\ made' = made \cup {This} /\ UNCHANGED <<did, faults>>
      \/ pc' = "rollback" /\ DropThis /\ Fault /\ UNCHANGED made
  BY DEF SetupFirewall, Done
<1>4. /\ netrules' = netrules \/ netrules' = netrules \cup {This}
      /\ ports' = ports \/ ports' = ports \cup {<<c, This>>}
      /\ UNCHANGED <<bridges, links, entries, status, cmd, ns, todo, hit, erred>>
  BY DEF SetupFirewall
<1>5. Types'
  <2>1. faults' \in 0 .. MaxFaults
    BY <1>3, FaultCounted DEF Types
  <2>2. /\ netrules' \subseteq Networks \ (Internal \cup Plugins)
        /\ ports' \subseteq Containers \X (Networks \ (Internal \cup Plugins))
    <3>1. This \in Networks \ (Internal \cup Plugins) /\ <<c, This>> \in Containers \X (Networks \ (Internal \cup Plugins))
      BY <1>1, <1>2
    <3> QED BY <1>4, <3>1 DEF Types
  <2> QED BY <1>1, <1>4, <2>1, <2>2 DEF Types
<1>6. Places'
  BY <1>1, <1>3, <1>4 DEF Places, SetupPcs, TeardownPcs
<1>7. DidInv'
  <2>1. CASE pc' = "rollback" /\ DropThis
    <3>1. did' \in Seq(Nets[c]) /\ Distinct(did') /\ Elems(did') = Elems(did) \ {This}
      BY Zenon, ZenonT(60), <1>1, <2>1, FrontElems DEF DropThis, This
    <3> QED BY <1>1, <1>4, <2>1, <3>1 DEF DidInv
  <2>2. CASE did' = did /\ pc' \in {"commit", "create"}
    BY <1>1, <1>4, <2>2 DEF DidInv
  <2> QED BY <1>3, <2>1, <2>2
<1>8. Owned'
  <2>1. \A k \in Containers, m \in Networks :
            <<k, m>> \in ports' => <<k, m>> \in ports \/ (k = c /\ m \in Nets[c])
    BY <1>2, <1>4
  <2>2. \A m \in Networks : m \in netrules' => m \in netrules \/ m \in Nets[c]
    BY <1>2, <1>4
  <2>3. pc \in SetupPcs /\ pc' # "idle"
    BY <1>1, <1>3 DEF SetupPcs
  <2> QED BY <1>4, <1>5, <2>1, <2>2, <2>3, SetupOwned
<1>9. Torn' /\ TeardownContinues'
  BY <1>1, <1>3 DEF Torn, TeardownContinues
<1>10. MadeInv'
  <2>1. made = Elems(did) \ {This} /\ made \subseteq Nets[c]
    BY <1>1 DEF MadeInv
  <2>2. This \in Nets[c] /\ This \in Elems(did)
    BY <1>1 DEF This, Elems
  <2>3. CASE pc' = "rollback" /\ DropThis /\ made' = made
    <3>1. Elems(did') = Elems(did) \ {This}
      BY Zenon, ZenonT(60), <1>1, <2>3, FrontElems DEF DropThis, This
    <3> QED BY <1>1, <1>4, <2>1, <2>3, <3>1 DEF MadeInv
  <2>4. CASE did' = did /\ pc' \in {"commit", "create"} /\ made' = made \cup {This}
    BY <1>1, <1>4, <2>1, <2>2, <2>4 DEF MadeInv
  <2> QED BY <1>3, <2>3, <2>4
<1> QED BY <1>5, <1>6, <1>7, <1>8, <1>9, <1>10

-----------------------------------------------------------------------------
(* What a driver's teardown does, in a rollback and in a teardown. *)

\* Bridge::teardown removes, and only what is the container's or the network's.
LEMMA DriverTeardownRemoves ==
    ASSUME NEW n, NEW f, DriverTeardown(n, f)
    PROVE  /\ bridges' \subseteq bridges /\ netrules' \subseteq netrules
           /\ links' \subseteq links /\ links \ {<<c, n>>} \subseteq links'
           /\ ports' \subseteq ports
BY DEF DriverTeardown

\* PluginDriver::teardown: the same.
LEMMA PluginTeardownRemoves ==
    ASSUME NEW n, NEW r, PluginTeardown(n, r)
    PROVE  /\ bridges' \subseteq bridges /\ netrules' \subseteq netrules
           /\ links' \subseteq links /\ links \ {<<c, n>>} \subseteq links'
           /\ ports' \subseteq ports
BY DEF PluginTeardown, PluginEffects

\* What a step removes from the host, nobody has to own.
LEMMA RemovingKeepsOwned ==
    ASSUME Owned, UNCHANGED <<cmd, status>>, pc' = pc,
           bridges' \subseteq bridges, netrules' \subseteq netrules,
           links' \subseteq links, ports' \subseteq ports, entries' \subseteq entries
    PROVE  Owned'
<1>1. \A k \in Containers : Busy(k)' = Busy(k)
  BY DEF Busy, c
<1> QED BY <1>1 DEF Owned

\* The rollback takes one network after the other from those that are set up.
LEMMA RollbackStep == ASSUME CommandInv, Rollback PROVE CommandInv'
<1> USE DEF CommandInv
<1>1. /\ c' = c /\ c \in Containers /\ pc = "rollback" /\ cmd.kind = "setup"
      /\ did \in Seq(Nets[c]) /\ Distinct(did)
      /\ UNCHANGED <<entries, cmd, ns, todo, made, hit, erred>>
  BY CtrFacts DEF Rollback, c, Places, SetupPcs, DidInv
<1>2. CASE did = <<>>
  <2>1. Return("setup_failed") /\ UNCHANGED <<hostVars, did, rolled, faults>>
    BY <1>2 DEF Rollback
  <2>2. /\ status' \in [Containers -> Statuses]
        /\ status'[c] = "setup_failed" /\ pc' = "idle"
        /\ \A k \in Containers : k # c => status'[k] = status[k]
    BY <2>1, ReturnStatus DEF Statuses
  <2>3. Types'
    BY <1>1, <2>1, <2>2 DEF Types, hostVars
  <2>4. Places'
    BY <1>1, <2>1, <2>2 DEF Places, SetupPcs, TeardownPcs
  <2>5. DidInv'
    BY <1>1, <2>1, <2>2 DEF DidInv, hostVars
  <2>6. Owned'
    <3>1. pc \in SetupPcs /\ status'[c] # "down"
      BY <1>1, <2>2 DEF SetupPcs
    <3> QED BY <1>1, <2>1, <2>2, <2>3, <3>1, SetupOwned, Zenon, ZenonT(60) DEF hostVars
  <2>7. Torn' /\ TeardownContinues'
    BY <1>1, <2>2 DEF Torn, TeardownContinues
  <2>8. MadeInv'
    <3>1. Elems(<<>>) = {}
      BY DEF Elems
    <3> QED BY <1>1, <1>2, <2>1, <2>2, <3>1 DEF MadeInv
  <2> QED BY <2>3, <2>4, <2>5, <2>6, <2>7, <2>8
<1>3. CASE did # <<>>
  <2>1. did' = Tail(did) /\ rolled' = rolled \cup {Head(did)} /\ pc' = pc /\ status' = status
    BY <1>3 DEF Rollback
  <2>2. /\ bridges' \subseteq bridges /\ netrules' \subseteq netrules
        /\ links' \subseteq links /\ links \ {<<c, Head(did)>>} \subseteq links'
        /\ ports' \subseteq ports
    <3>1. (\E r \in PluginRuns : PluginTeardown(Head(did), r)) \/ \E f \in Steps \cup {"none"} : DriverTeardown(Head(did), f)
      BY <1>3 DEF Rollback
    <3> QED BY <3>1, DriverTeardownRemoves, PluginTeardownRemoves
  <2>3. faults' \in 0 .. MaxFaults
    <3>1. UNCHANGED faults \/ Fault
      BY <1>3 DEF Rollback
    <3> QED BY <3>1, FaultCounted DEF Types
  <2>4. /\ Tail(did) \in Seq(Nets[c]) /\ Distinct(Tail(did))
        /\ Elems(Tail(did)) = Elems(did) \ {Head(did)} /\ Head(did) \in Elems(did) /\ Head(did) \in Nets[c]
    BY <1>1, <1>3, TailElems
  <2>5. Types'
    BY <1>1, <2>1, <2>2, <2>3, <2>4, ZenonT(60), ZenonT(90) DEF Types
  <2>6. Places'
    BY <1>1, <2>1, Zenon, ZenonT(60) DEF Places, SetupPcs, TeardownPcs
  <2>7. DidInv'
    <3>1. \A n \in Elems(did') : <<c, n>> \in links' /\ n \notin todo /\ n \notin rolled'
      <4> SUFFICES ASSUME NEW n \in Elems(Tail(did)) PROVE <<c, n>> \in links' /\ n \notin todo /\ n \notin rolled'
        BY <2>1
      <4>1. n \in Elems(did) /\ n # Head(did)
        BY <2>4
      <4>2. <<c, n>> \in links /\ n \notin todo /\ n \notin rolled
        BY <4>1 DEF DidInv
      <4> QED BY <2>1, <2>2, <4>1, <4>2
    <3> QED BY <1>1, <2>1, <2>4, <3>1, Zenon, ZenonT(60) DEF DidInv
  <2>8. Owned'
    BY <1>1, <2>1, <2>2, RemovingKeepsOwned
  <2>9. Torn' /\ TeardownContinues'
    BY Zenon, ZenonT(60), <1>1, <2>1 DEF Torn, TeardownContinues
  <2>10. MadeInv'
    BY <1>1, <2>1, <2>4 DEF MadeInv
  <2> QED BY <2>5, <2>6, <2>7, <2>8, <2>9, <2>10
<1> QED BY <1>2, <1>3

-----------------------------------------------------------------------------
(* teardown *)

\* Without an error all entries of the container are deleted.
LEMMA DeleteStep == ASSUME CommandInv, DeleteDns PROVE CommandInv'
<1> USE DEF CommandInv
<1>1. /\ c' = c /\ c \in Containers /\ pc = "delete_dns" /\ pc' = "open" /\ cmd.kind = "teardown"
      /\ UNCHANGED <<hostVars, status, cmd, ns, loopVars>>
      /\ hit = {}
  BY CtrFacts, Zenon, ZenonT(60) DEF DeleteDns, c, Places, TeardownPcs
<1>2. entries' \subseteq entries /\ erred' \in BOOLEAN /\ faults' \in 0 .. MaxFaults
  <2>1. entries' \subseteq entries
    BY ZenonT(60), ZenonT(90) DEF DeleteDns
  <2>2. (erred' = erred /\ faults' = faults) \/ (erred' = TRUE /\ faults' = faults) \/ (erred' = TRUE /\ Fault)
    BY Zenon, ZenonT(60) DEF DeleteDns
  <2>3. erred' \in BOOLEAN
    BY Zenon, ZenonT(60), <2>2 DEF Types
  <2>4. faults' \in 0 .. MaxFaults
    BY <2>2, FaultCounted DEF Types
  <2> QED BY <2>1, <2>3, <2>4
<1>3. ~erred' => \A n \in Networks : <<c, n>> \notin entries'
  <2>1. ASSUME ~erred' PROVE entries' = entries \ {<<c, n>> : n \in Nets[c] \cap Registered}
    BY <2>1 DEF DeleteDns
  <2>2. ASSUME NEW n \in Networks, <<c, n>> \in entries PROVE n \in Nets[c] \cap Registered
    BY <1>1, <2>2 DEF Owned, Types
  <2> QED BY <2>1, <2>2
<1>4. Types'
  BY <1>1, <1>2 DEF Types, hostVars, loopVars
<1>5. Places'
  BY <1>1 DEF Places, SetupPcs, TeardownPcs, loopVars
<1>6. DidInv'
  BY <1>1 DEF DidInv, hostVars, loopVars
<1>7. Owned'
  <2>1. \A k \in Containers : Busy(k) => Busy(k)'
    BY <1>1 DEF Busy
  <2> QED BY <1>1, <1>2, <2>1 DEF Owned, hostVars
<1>8. Torn' /\ TeardownContinues'
  BY <1>1, <1>3 DEF Torn, TeardownContinues, loopVars
<1>9. MadeInv'
  BY <1>1 DEF MadeInv, loopVars
<1> QED BY <1>4, <1>5, <1>6, <1>7, <1>8, <1>9

\* No driver has run; the aborted teardown leaves its container not down.
LEMMA OpenStep == ASSUME CommandInv, Open PROVE CommandInv'
<1> USE DEF CommandInv
<1>1. /\ c' = c /\ c \in Containers /\ pc = "open" /\ cmd.kind = "teardown"
      /\ UNCHANGED <<hostVars, entries, cmd, ns, loopVars, erred>>
      /\ todo = Nets[c] /\ hit = {}
  BY CtrFacts DEF Open, c, Places, TeardownPcs
<1>2. CASE pc' = "networks" /\ UNCHANGED <<status, faults>>
  <2>1. Types'
    BY <1>1, <1>2 DEF Types, hostVars, loopVars
  <2>2. Places'
    BY <1>1, <1>2 DEF Places, SetupPcs, TeardownPcs, loopVars
  <2>3. DidInv'
    BY <1>1, <1>2, ZenonT(60), ZenonT(90) DEF DidInv, hostVars, loopVars
  <2>4. Owned'
    <3>1. \A k \in Containers : Busy(k) => Busy(k)'
      BY <1>1, <1>2 DEF Busy
    <3> QED BY <1>1, <3>1 DEF Owned, hostVars
  <2>5. Torn' /\ TeardownContinues'
    BY <1>1, <1>2 DEF Torn, TeardownContinues, hostVars, loopVars
  <2>6. MadeInv'
    BY <1>1, <1>2 DEF MadeInv, loopVars
  <2> QED BY <2>1, <2>2, <2>3, <2>4, <2>5, <2>6
<1>3. CASE Fault /\ Return("teardown_aborted")
  <2>1. /\ status' \in [Containers -> Statuses]
        /\ status'[c] = "teardown_aborted" /\ pc' = "idle"
        /\ \A k \in Containers : k # c => status'[k] = status[k]
    BY <1>3, ReturnStatus DEF Statuses
  <2>2. Types'
    <3>1. faults' \in 0 .. MaxFaults
      BY <1>3, FaultCounted DEF Types
    <3> QED BY <1>1, <2>1, <3>1 DEF Types, hostVars, loopVars
  <2>3. Places'
    BY <1>1, <2>1 DEF Places, SetupPcs, TeardownPcs
  <2>4. DidInv'
    BY <1>1, <2>1, Zenon, ZenonT(60) DEF DidInv, hostVars, loopVars
  <2>5. Owned'
    <3>1. \A k \in Containers : Busy(k) => Busy(k)'
      BY <1>1, <2>1 DEF Busy
    <3> QED BY <1>1, <3>1, Zenon, ZenonT(60) DEF Owned, hostVars
  <2>6. Torn' /\ TeardownContinues'
    BY <1>1, <2>1 DEF Torn, TeardownContinues
  <2>7. MadeInv'
    BY <1>1, <2>1 DEF MadeInv, loopVars
  <2> QED BY <2>2, <2>3, <2>4, <2>5, <2>6, <2>7
<1> QED BY <1>2, <1>3 DEF Open

\* What one turn of the loop has to show, for either kind of driver: the network
\* is undone unless it was hit, and nobody but others keep its bridge and rules
\* unless an error was collected.
LEMMA LoopStep ==
    ASSUME CommandInv, NEW n \in Networks, pc = "networks", n \in todo, todo' = todo \ {n},
           UNCHANGED <<entries, status, cmd, pc, ns, did, made, rolled>>,
           bridges' \subseteq bridges, netrules' \subseteq netrules, ports' \subseteq ports,
           links' \subseteq links, links \ {<<c, n>>} \subseteq links',
           faults' \in 0 .. MaxFaults, erred' \in BOOLEAN, erred => erred',
           hit' = hit \/ (hit' = hit \cup {n} /\ erred'),
           n \notin hit' => <<c, n>> \notin links' /\ <<c, n>> \notin ports',
           ~erred' /\ (n \in bridges' \/ n \in netrules') => \E k \in Containers : k # c /\ <<k, n>> \in links
    PROVE  CommandInv'
<1> USE DEF CommandInv
<1>1. c' = c /\ c \in Containers /\ cmd.kind = "teardown" /\ ns = "host" /\ status[c] # "down" /\ n \in Nets[c]
  BY CtrFacts, Zenon, ZenonT(60) DEF c, Places, TeardownPcs, Types
<1>2. Types'
  <2>1. hit' \subseteq Nets[c] /\ todo' \subseteq Nets[c]
    BY <1>1, Zenon, ZenonT(60) DEF Types
  <2> QED BY <1>1, <2>1, ZenonT(60), ZenonT(90) DEF Types
<1>3. Places'
  BY <1>1 DEF Places, SetupPcs, TeardownPcs
<1>4. DidInv'
  BY <1>1 DEF DidInv, Elems
<1>5. Owned'
  BY RemovingKeepsOwned
<1>6. Torn'
  <2>1. ASSUME NEW m \in Nets[c], m \notin todo', m \notin hit' PROVE <<c, m>> \notin links' /\ <<c, m>> \notin ports'
    <3>1. CASE m = n
      BY <2>1, <3>1
    <3>2. CASE m # n
      BY <2>1, <3>2 DEF Torn
    <3> QED BY <3>1, <3>2
  <2>2. ~erred' => hit' = {} /\ \A m \in Networks : <<c, m>> \notin entries'
    BY DEF Torn, Types
  <2>3. ASSUME ~erred', NEW m \in Nets[c], m \notin todo', m \in bridges' \/ m \in netrules'
        PROVE  \E k \in Containers : k # c /\ <<k, m>> \in links'
    <3>1. \E k \in Containers : k # c /\ <<k, m>> \in links
      <4>1. CASE m = n
        BY <2>3, <4>1
      <4>2. CASE m # n
        BY Zenon, ZenonT(60), <2>3, <4>2 DEF Torn, Types
      <4> QED BY <4>1, <4>2, Zenon, ZenonT(60)
    <3> QED BY <3>1, ZenonT(60), ZenonT(90)
  <2> QED BY <1>1, <2>1, <2>2, <2>3, Zenon, ZenonT(60) DEF Torn
<1>7. TeardownContinues'
  BY DEF TeardownContinues
<1>8. MadeInv'
  BY <1>1 DEF MadeInv
<1> QED BY <1>2, <1>3, <1>4, <1>5, <1>6, <1>7, <1>8

\* A bridge network: the link goes, the ports go, and with the last link the
\* bridge and the rules, when no step of the driver fails.
LEMMA TeardownStep ==
    ASSUME CommandInv, NEW n \in Networks, TeardownNetwork(n)
    PROVE  CommandInv'
<1> USE DEF CommandInv
<1>1. /\ pc = "networks" /\ n \in todo /\ n \notin Plugins /\ todo' = todo \ {n} /\ ns = "host"
      /\ UNCHANGED <<entries, status, cmd, pc, ns, did, made, rolled>>
  BY DEF TeardownNetwork, Places, TeardownPcs
<1>2. CASE DriverTeardown(n, "none") /\ erred' = (erred \/ TeardownFails(n)) /\ UNCHANGED <<hit, faults>>
  <2>1. /\ bridges' \subseteq bridges /\ netrules' \subseteq netrules /\ ports' \subseteq ports
        /\ links' \subseteq links /\ links \ {<<c, n>>} \subseteq links'
    BY <1>2, DriverTeardownRemoves
  <2>2. <<c, n>> \notin links'
    BY <1>2 DEF DriverTeardown
  <2>3. <<c, n>> \notin ports'
    <3>1. CASE n \in Internal
      BY <2>1, <3>1 DEF Types
    <3>2. CASE n \notin Internal
      BY <1>1, <1>2, <3>2 DEF DriverTeardown
    <3> QED BY <3>1, <3>2
  <2>4. ASSUME ~erred', n \in bridges' \/ n \in netrules' PROVE \E k \in Containers : k # c /\ <<k, n>> \in links
    <3>1. <<c, n>> \in links
      BY Zenon, ZenonT(60), <1>2, <2>4 DEF TeardownFails
    <3> SUFFICES ASSUME \A k \in Containers \ {c} : <<k, n>> \notin links PROVE FALSE
      OBVIOUS
    <3>2. n \notin bridges'
      BY <1>2, <3>1 DEF DriverTeardown
    <3>3. n \notin netrules'
      <4>1. CASE n \in Internal
        BY <2>1, <4>1 DEF Types
      <4>2. CASE n \notin Internal
        BY <1>1, <1>2, <3>1, <4>2 DEF DriverTeardown
      <4> QED BY <4>1, <4>2
    <3> QED BY <2>4, <3>2, <3>3
  <2>5. erred' \in BOOLEAN /\ (erred => erred') /\ faults' \in 0 .. MaxFaults
    BY <1>2, Zenon, ZenonT(60) DEF Types
  <2> QED BY <1>1, <1>2, <2>1, <2>2, <2>3, <2>4, <2>5, LoopStep
<1>3. CASE Fault /\ hit' = hit \cup {n} /\ erred' = TRUE /\ \E f \in Steps : DriverTeardown(n, f)
  <2>1. /\ bridges' \subseteq bridges /\ netrules' \subseteq netrules /\ ports' \subseteq ports
        /\ links' \subseteq links /\ links \ {<<c, n>>} \subseteq links'
    BY <1>3, DriverTeardownRemoves
  <2>2. faults' \in 0 .. MaxFaults
    BY <1>3, FaultCounted, Zenon, ZenonT(60) DEF Types
  <2>3. hit' = hit \cup {n} /\ erred' = TRUE /\ n \in hit'
    BY <1>3
  <2> QED BY Zenon, ZenonT(60), <1>1, <2>1, <2>2, <2>3, LoopStep
<1> QED BY Zenon, ZenonT(60), <1>2, <1>3 DEF TeardownNetwork

\* A plugin's network: its exit with 0 is the only one that counts as success.
LEMMA PluginTeardownStep ==
    ASSUME CommandInv, NEW n \in Networks, TeardownPlugin(n)
    PROVE  CommandInv'
<1> USE DEF CommandInv
<1>1. /\ pc = "networks" /\ n \in todo /\ n \in Plugins /\ todo' = todo \ {n} /\ ns = "host"
      /\ UNCHANGED <<entries, status, cmd, pc, ns, did, made, rolled>>
  BY Zenon, ZenonT(60) DEF TeardownPlugin, Places, TeardownPcs
<1>2. PICK r \in PluginRuns :
          /\ PluginTeardown(n, r)
          /\ erred' = (erred \/ ~PluginOk("teardown", r))
          /\ IF PluginOk("teardown", r) \/ <<c, n>> \notin links
             THEN UNCHANGED <<hit, faults>>
             ELSE Fault /\ hit' = hit \cup {n}
  BY DEF TeardownPlugin
<1>3. /\ bridges' \subseteq bridges /\ netrules' \subseteq netrules /\ ports' \subseteq ports
      /\ links' \subseteq links /\ links \ {<<c, n>>} \subseteq links'
  BY <1>2, PluginTeardownRemoves
<1>4. <<c, n>> \notin ports' /\ n \notin bridges' /\ n \notin netrules'
  BY <1>1, <1>3 DEF Types
<1>5. erred' \in BOOLEAN /\ (erred => erred')
  BY <1>2, ZenonT(60), ZenonT(90) DEF Types, PluginOk
<1>6. CASE PluginOk("teardown", r) \/ <<c, n>> \notin links
  <2>1. hit' = hit /\ faults' \in 0 .. MaxFaults
    BY <1>2, <1>6, Zenon, ZenonT(60) DEF Types
  <2>2. <<c, n>> \notin links'
    <3>1. CASE <<c, n>> \notin links
      BY <1>3, <3>1
    <3>2. CASE PluginOk("teardown", r)
      BY <1>1, <1>2, <3>2 DEF PluginOk, PluginTeardown, PluginEffects
    <3> QED BY <1>6, <3>1, <3>2
  <2> QED BY <1>1, <1>3, <1>4, <1>5, <2>1, <2>2, LoopStep
<1>7. CASE ~PluginOk("teardown", r) /\ <<c, n>> \in links
  <2>1. hit' = hit \cup {n} /\ n \in hit' /\ Fault /\ erred'
    BY Zenon, ZenonT(60), <1>2, <1>7
  <2>2. faults' \in 0 .. MaxFaults
    BY <2>1, FaultCounted, Zenon, ZenonT(60) DEF Types
  <2> QED BY <1>1, <1>3, <1>4, <1>5, <2>1, <2>2, LoopStep, Zenon, ZenonT(60)
<1> QED BY <1>6, <1>7

\* The end of the loop: without an error nothing is the container's any more.
LEMMA EndStep == ASSUME CommandInv, EndTeardown PROVE CommandInv'
<1> USE DEF CommandInv
<1>1. /\ c' = c /\ c \in Containers /\ pc = "networks" /\ todo = {} /\ cmd.kind = "teardown"
      /\ UNCHANGED <<hostVars, entries, cmd, ns, loopVars, erred, faults>>
  BY Zenon, ZenonT(60), CtrFacts DEF EndTeardown, c, Places, TeardownPcs
<1>2. /\ status' \in [Containers -> Statuses]
      /\ status'[c] = (IF erred THEN "teardown_failed" ELSE "down") /\ pc' = "idle"
      /\ \A k \in Containers : k # c => status'[k] = status[k]
  BY ReturnStatus, Zenon, ZenonT(60) DEF EndTeardown, Statuses
<1>3. Types'
  BY <1>1, <1>2, ZenonT(60), ZenonT(90) DEF Types, hostVars, loopVars
<1>4. Places'
  BY <1>1, <1>2 DEF Places, SetupPcs, TeardownPcs
<1>5. DidInv'
  BY <1>1, <1>2 DEF DidInv, hostVars, loopVars
<1>6. TeardownContinues'
  BY <1>1, <1>2, Zenon, ZenonT(60) DEF Torn, TeardownContinues, hostVars, loopVars
<1>7. Torn'
  BY <1>2, Zenon, ZenonT(60) DEF Torn
<1>8. Owned'
  <2>1. CASE erred
    <3>1. \A k \in Containers : Busy(k) => Busy(k)'
      BY <1>1, <1>2, <2>1 DEF Busy
    <3> QED BY <1>1, <3>1, Zenon, ZenonT(60) DEF Owned, hostVars
  <2>2. CASE ~erred
    <3>1. \A k \in Containers : k # c /\ Busy(k) => Busy(k)'
      BY <1>1, <1>2 DEF Busy
    <3>2. \A n \in Networks : <<c, n>> \notin links /\ <<c, n>> \notin ports /\ <<c, n>> \notin entries
      BY <1>1, <2>2 DEF Torn, Owned
    <3>3. ASSUME NEW n \in Networks, n \in bridges \/ n \in netrules
          PROVE  \E k \in Containers : n \in Nets[k] /\ k # c /\ Busy(k)
      <4>1. CASE n \in Nets[c]
        <5>1. PICK k \in Containers : k # c /\ <<k, n>> \in links
          BY <1>1, <2>2, <3>3, <4>1 DEF Torn
        <5> QED BY <5>1 DEF Owned
      <4>2. CASE n \notin Nets[c]
        BY <3>3, <4>2 DEF Owned
      <4> QED BY <4>1, <4>2
    <3> QED BY <1>1, <3>1, <3>2, <3>3, Zenon, ZenonT(60) DEF Owned, hostVars
  <2> QED BY <2>1, <2>2
<1>9. MadeInv'
  BY <1>1, <1>2 DEF MadeInv, loopVars
<1> QED BY <1>3, <1>4, <1>5, <1>6, <1>7, <1>8, <1>9

-----------------------------------------------------------------------------
\* Every step of a command, and every step between commands, keeps the invariant.
LEMMA CommandNext == CommandInv /\ [Next]_vars => CommandInv'
<1> SUFFICES ASSUME CommandInv, [Next]_vars PROVE CommandInv'
  OBVIOUS
<1>1. CASE Next
  <2>1. CASE \E kind \in {"setup", "teardown"}, k \in Containers : Begin(kind, k)
    BY <2>1, BeginStep
  <2>2. CASE Setup
    BY <2>2, ValidateStep, CreateStep, PluginSetupStep, NetnsStep, FirewallStep, CommitStep, RollbackStep DEF Setup
  <2>3. CASE Teardown
    BY <2>3, DeleteStep, OpenStep, TeardownStep, PluginTeardownStep, EndStep DEF Teardown
  <2> QED BY <1>1, <2>1, <2>2, <2>3 DEF Next
<1>2. CASE UNCHANGED vars
  <2> USE <1>2 DEF vars, hostVars, loopVars, c
  <2>1. Types' /\ Places'
    BY Zenon, ZenonT(60) DEF CommandInv, Types, Places
  <2>2. DidInv'
    BY DEF CommandInv, DidInv, This
  <2>4. MadeInv'
    BY DEF CommandInv, MadeInv, This
  <2>3. Owned' /\ Torn' /\ TeardownContinues'
    BY Zenon, ZenonT(60) DEF CommandInv, Owned, Busy, Torn, TeardownContinues
  <2> QED BY <2>1, <2>2, <2>3, <2>4 DEF CommandInv
<1> QED BY <1>1, <1>2

\* The invariant holds in every behaviour of the commands.
LEMMA CommandInvHolds == Spec => []CommandInv
<1> QED BY CommandInit, CommandNext, PTL DEF Spec

\* Types: in particular every network that setup.rs has pushed to its drivers is
\* linked until it is rolled back.
THEOREM TypesHold == Spec => []TypeOK
<1>1. CommandInv => TypeOK
  BY Zenon, ZenonT(60) DEF CommandInv, Types, DidInv, MadeInv, Elems, Statuses, TypeOK
<1> QED BY <1>1, CommandInvHolds, PTL

\* The "continue"s of teardown.rs: whatever driver fails, the other networks of
\* the container are undone.
THEOREM TeardownGoesOn == Spec => []TeardownContinues
<1>1. CommandInv => TeardownContinues
  BY DEF CommandInv
<1> QED BY <1>1, CommandInvHolds, PTL

\* The error list of teardown.rs: once the commands of all its containers have
\* reported success, a network has left nothing on the host.
THEOREM NothingIsLeft == Spec => []SuccessLeavesNothing
<1>1. CommandInv => SuccessLeavesNothing
  <2> SUFFICES ASSUME CommandInv, pc = "idle", NEW n \in Networks,
                      \A k \in Containers : n \in Nets[k] => status[k] = "down"
               PROVE  /\ n \notin bridges \cup netrules
                      /\ \A k \in Containers : <<k, n>> \notin links \cup ports \cup entries
    BY Zenon, ZenonT(60) DEF SuccessLeavesNothing
  <2>1. \A k \in Containers : n \in Nets[k] => ~Busy(k)
    BY Zenon, ZenonT(60) DEF Busy
  <2> QED BY Zenon, ZenonT(60), <2>1 DEF CommandInv, Owned
<1> QED BY <1>1, CommandInvHolds, PTL

-----------------------------------------------------------------------------
(* The rollback. *)

\* A rollback has a failure behind it; what it has passed is undone, while no
\* other failure occurs and the thread is in the host's namespace.
Rolls ==
    /\ pc = "rollback" => faults # 0
    /\ pc \in TeardownPcs => rolled = {}
    /\ faults <= 1 /\ ns = "host" => \A n \in rolled : Undone(n)

\* Bridge::teardown without a failure, on the host, of a network that is linked.
LEMMA DriverUndoes ==
    ASSUME Types, NEW n \in Networks \ Plugins, <<c, n>> \in links, ns = "host", DriverTeardown(n, "none"), UNCHANGED cmd
    PROVE  Undone(n)'
<1>1. c' = c /\ c \in Containers
  BY CtrFacts, Zenon, ZenonT(60) DEF c
<1>2. links' = links \ {<<c, n>>}
  BY DEF DriverTeardown
<1>3. <<c, n>> \notin ports'
  <2>1. CASE n \in Internal
    BY <2>1 DEF DriverTeardown, Types
  <2>2. CASE n \notin Internal
    BY <2>2 DEF DriverTeardown
  <2> QED BY <2>1, <2>2
<1>4. ASSUME \A k \in Containers : <<k, n>> \notin links'
      PROVE  n \notin bridges' /\ n \notin netrules'
  <2>1. \A k \in Containers \ {c} : <<k, n>> \notin links
    BY <1>2, <1>4
  <2>2. bridges' = bridges \ {n}
    BY <2>1 DEF DriverTeardown
  <2>3. n \notin netrules'
    <3>1. CASE n \in Internal
      BY <3>1 DEF DriverTeardown, Types
    <3>2. CASE n \notin Internal
      BY <2>1, <3>2 DEF DriverTeardown
    <3> QED BY <3>1, <3>2
  <2> QED BY <2>2, <2>3
<1> QED BY <1>1, <1>2, <1>3, <1>4 DEF Undone

\* What an earlier step of the rollback has undone, the teardown of another
\* driver leaves as it is.
LEMMA UndoneStays ==
    ASSUME NEW n, NEW m, m # n, Undone(n), UNCHANGED cmd,
           \/ \E f \in Steps \cup {"none"} : DriverTeardown(m, f)
           \/ \E r \in PluginRuns : PluginTeardown(m, r)
    PROVE  Undone(n)'
<1>1. c' = c
  BY DEF c
<1>2. \A k : <<k, n>> \in links' <=> <<k, n>> \in links
  BY DEF DriverTeardown, PluginTeardown, PluginEffects
<1>3. /\ <<c, n>> \in ports' => <<c, n>> \in ports
      /\ n \in bridges' => n \in bridges
      /\ n \in netrules' => n \in netrules
  BY DEF DriverTeardown, PluginTeardown
<1> QED BY <1>1, <1>2, <1>3 DEF Undone

\* One driver of the rollback: with the failure that started it behind it, a
\* second one excuses what follows.
LEMMA RollbackRolls == ASSUME CommandInv, Rolls, Rollback, did # <<>> PROVE Rolls'
<1> DEFINE m == Head(did)
<1>1. /\ pc = "rollback" /\ UNCHANGED <<cmd, ns, pc>> /\ rolled' = rolled \cup {m}
      /\ \/ m \in Plugins /\ \E r \in PluginRuns : PluginTeardown(m, r) /\ (IF PluginOk("teardown", r) THEN UNCHANGED faults ELSE Fault)
         \/ m \notin Plugins /\ DriverTeardown(m, "none") /\ UNCHANGED faults
         \/ m \notin Plugins /\ Fault /\ \E f \in Steps : DriverTeardown(m, f)
  BY DEF Rollback
<1>2. Types /\ DidInv /\ faults \in Nat /\ faults # 0
  <2>1. Types /\ DidInv /\ faults # 0
    BY <1>1 DEF CommandInv, Rolls
  <2>2. faults \in 0 .. MaxFaults
    BY <2>1 DEF Types
  <2> QED BY <2>1, <2>2, CommandsAssumption
<1>3. c \in Containers /\ Nets[c] \subseteq Networks
  BY <1>2, CtrFacts
<1>4. m \in Nets[c] /\ m \in Elems(did)
  BY <1>2 DEF DidInv, Elems
<1>5. m \in Networks /\ <<c, m>> \in links /\ m \notin rolled
  BY <1>2, <1>3, <1>4 DEF DidInv
<1> HIDE DEF m
<1>6. UNCHANGED faults \/ faults' = faults + 1
  BY <1>1 DEF Fault
<1>7. pc' = "rollback" /\ faults' # 0
  BY <1>1, <1>2, <1>6
<1>8. ASSUME faults' <= 1, ns' = "host", NEW n \in rolled' PROVE Undone(n)'
  <2>1. UNCHANGED faults /\ faults <= 1 /\ ns = "host" /\ faults' # faults + 1
    BY <1>1, <1>2, <1>6, <1>8
  <2>2. CASE n # m
    <3>1. Undone(n)
      BY <1>1, <1>8, <2>1, <2>2 DEF Rolls
    <3> QED BY <1>1, <2>2, <3>1, UndoneStays
  <2>3. CASE n = m /\ m \notin Plugins
    BY <1>1, <1>2, <1>5, <2>1, <2>3, DriverUndoes DEF Fault
  <2>4. CASE n = m /\ m \in Plugins
    <3>1. PICK r \in PluginRuns : PluginTeardown(m, r) /\ PluginOk("teardown", r)
      BY <1>1, <2>1, <2>4 DEF Fault
    <3>2. links' = links \ {<<c, m>>} /\ UNCHANGED <<bridges, netrules, ports>>
      BY <2>1, <3>1 DEF PluginTeardown, PluginOk, PluginEffects
    <3>3. c' = c
      BY <1>1 DEF c
    <3> QED BY <1>2, <2>4, <3>2, <3>3, Zenon, ZenonT(60) DEF Undone, Types
  <2> QED BY <2>2, <2>3, <2>4
<1> QED BY <1>7, <1>8 DEF Rolls, TeardownPcs

\* No other step rolls a network back, and all begin a rollback with a failure.
LEMMA RollsNext == ASSUME CommandInv, Rolls, [Next]_vars PROVE Rolls'
<1>1. faults \in Nat /\ (Fault => faults' # 0)
  <2>1. faults \in 0 .. MaxFaults
    BY DEF CommandInv, Types
  <2>2. Fault => faults' = faults + 1
    BY DEF Fault
  <2> QED BY <2>1, <2>2, CommandsAssumption
<1>2. ASSUME rolled' = {}, pc' # "rollback" \/ Fault PROVE Rolls'
  BY <1>1, <1>2 DEF Rolls
<1>3. pc \in (SetupPcs \cup TeardownPcs) \ {"rollback"} => rolled = {}
  BY DEF CommandInv, Places, Rolls
<1>4. ASSUME NEW kind \in {"setup", "teardown"}, NEW k \in Containers, Begin(kind, k) PROVE Rolls'
  BY <1>2, <1>4 DEF Begin
<1>5. CASE Validate \/ (\E n \in Networks : CreateInterfaces(n) \/ SetupPlugin(n)) \/ ExecNetns \/ SetupFirewall \/ Commit
  <2>1. ASSUME pc \in SetupPcs \ {"rollback"}, rolled' = rolled, pc' # "rollback" \/ Fault PROVE Rolls'
    BY <1>2, <1>3, <2>1
  <2>2. CASE Validate
    BY <2>1, <2>2 DEF Validate, SetupPcs, Return, loopVars
  <2>3. ASSUME NEW n \in Networks, CreateInterfaces(n) PROVE Rolls'
    BY <2>1, <2>3 DEF CreateInterfaces, SetupPcs
  <2>4. ASSUME NEW n \in Networks, SetupPlugin(n) PROVE Rolls'
    <3>1. pc = "create" /\ rolled' = rolled /\ (pc' \in {"commit", "create"} \/ Fault)
      BY <2>4 DEF SetupPlugin
    <3> QED BY <2>1, <3>1 DEF SetupPcs
  <2>5. CASE ExecNetns
    BY <2>1, <2>5 DEF ExecNetns, Done, SetupPcs
  <2>6. CASE SetupFirewall
    BY <2>1, <2>6 DEF SetupFirewall, Done, SetupPcs
  <2>7. CASE Commit
    BY <2>1, <2>7 DEF Commit, Return, SetupPcs, loopVars
  <2> QED BY <1>5, <2>2, <2>3, <2>4, <2>5, <2>6, <2>7
<1>6. CASE Teardown
  <2>1. ASSUME pc \in TeardownPcs, rolled' = rolled, pc' # "rollback" PROVE Rolls'
    BY <1>2, <1>3, <2>1 DEF TeardownPcs
  <2>2. CASE DeleteDns
    <3>1. pc = "delete_dns" /\ pc' = "open" /\ rolled' = rolled
      BY <2>2, Zenon, ZenonT(60) DEF DeleteDns, loopVars
    <3> QED BY <2>1, <3>1 DEF TeardownPcs
  <2>3. CASE Open
    BY <2>1, <2>3 DEF Open, Return, TeardownPcs, loopVars
  <2>4. ASSUME NEW n \in Networks, TeardownNetwork(n) \/ TeardownPlugin(n) PROVE Rolls'
    <3>1. pc = "networks" /\ pc' = pc /\ rolled' = rolled
      BY <2>4 DEF TeardownNetwork, TeardownPlugin
    <3> QED BY <2>1, <3>1 DEF TeardownPcs
  <2>5. CASE EndTeardown
    BY <2>1, <2>5 DEF EndTeardown, Return, TeardownPcs, loopVars
  <2> QED BY <1>6, <2>2, <2>3, <2>4, <2>5 DEF Teardown
<1>7. CASE Rollback
  <2>1. CASE did = <<>>
    <3>1. pc' = "idle" /\ UNCHANGED <<hostVars, rolled, faults, cmd, ns>>
      BY <1>7, <2>1 DEF Rollback, Return
    <3> QED BY <3>1 DEF Rolls, TeardownPcs, Undone, hostVars, c
  <2>2. CASE did # <<>>
    BY <1>7, <2>2, RollbackRolls
  <2> QED BY <2>1, <2>2
<1>8. CASE UNCHANGED vars
  BY <1>8 DEF vars, hostVars, loopVars, Rolls, Undone, c
<1> QED BY <1>4, <1>5, <1>6, <1>7, <1>8 DEF Next, Setup

\* "If there is an error we have to tear down all previous drivers" (setup.rs):
\* a setup whose failure left the thread in the host's namespace has undone every
\* network it had set up, when it returns and nothing else has failed.
THEOREM RollbackIsComplete == Spec => []RollbackOnHostUndoes
<1>1. Init => Rolls
  BY DEF Init, Rolls, TeardownPcs
<1>2. CommandInv /\ Rolls /\ [Next]_vars => Rolls'
  BY RollsNext
<1>3. CommandInv /\ Rolls => RollbackOnHostUndoes
  BY Zenon, ZenonT(60) DEF CommandInv, MadeInv, Rolls, RollbackOnHostUndoes
<1> QED BY <1>1, <1>2, <1>3, CommandInvHolds, PTL DEF Spec
=============================================================================
