--------------------------- MODULE AardvarkProofs ---------------------------
(***************************************************************************)
(* Theorems about Aardvark, for every set of invocations, networks and     *)
(* containers: types, the lock of commit_entries, and what it is there     *)
(* for: until a network is first rewritten, no entry that was written for  *)
(* it is ever lost.  Then the form of the files, for which teardowns and   *)
(* updates have to run alone.                                              *)
(***************************************************************************)
EXTENDS Aardvark, TLAPS

\* Time enough for the provers on a busy machine, and a second try.
USE SMTT(30), ZenonT(30), Z3T(30)

\* The lines the code writes are lines.
LEMMA LineTypes ==
    /\ \A p \in Procs : Header(Cmd[p].dns) \in Line /\ Entry(Cmd[p].ctr) \in Line
    /\ Gap \in Line
BY DataAssumption, CmdAssumption DEF Header, Entry, Gap, Line

\* Update's change of a line gives a line.
LEMMA RewrittenType ==
    ASSUME NEW p \in Procs, NEW line \in Line
    PROVE  Rewritten(p, line) \in Line
BY CmdAssumption DEF Rewritten, Line

\* A write at any position of a file gives a file.
LEMMA WriteAtType ==
    ASSUME NEW s \in Seq(Line), NEW i \in Nat, NEW line \in Line
    PROVE  WriteAt(s, i, line) \in Seq(Line)
<1> DEFINE n == IF i > Len(s) THEN i ELSE Len(s)
<1>1. n \in Nat
  OBVIOUS
<1>2. \A k \in 1 .. n : (IF k = i THEN line ELSE IF k <= Len(s) THEN s[k] ELSE Gap) \in Line
  BY LineTypes
<1>3. WriteAt(s, i, line) \in [1 .. n -> Line]
  BY <1>1, <1>2 DEF WriteAt
<1> QED
  BY <1>1, <1>3

\* write_all of one line keeps the directory well formed.
LEMMA WriteType ==
    ASSUME TypeOK, NEW p \in Procs, NEW line \in Line, Write(p, line)
    PROVE  file' \in Files
<1> DEFINE f == file[net[p]]
<1>1. f.lines \in Seq(Line) /\ pos[p] \in Nat /\ net[p] \in Networks
  BY DEF TypeOK, Files
<1>2. Append(f.lines, line) \in Seq(Line) /\ WriteAt(f.lines, pos[p], line) \in Seq(Line)
  <2> DEFINE s == f.lines
  <2>1. s \in Seq(Line)
    BY <1>1
  <2> HIDE DEF s
  <2>2. Append(s, line) \in Seq(Line)
    BY <2>1
  <2>3. WriteAt(s, pos[p], line) \in Seq(Line)
    BY Zenon, ZenonT(60), <1>1, <2>1, WriteAtType
  <2> QED
    BY <2>2, <2>3 DEF s
<1>3. CASE fd[p] # f.gen \/ ~f.exists
  BY <1>3 DEF Write, TypeOK
<1>4. CASE ~(fd[p] # f.gen \/ ~f.exists)
  <2> DEFINE l == IF app[p] THEN Append(f.lines, line) ELSE WriteAt(f.lines, pos[p], line)
  <2>1. file' = [file EXCEPT ![net[p]].lines = l]
    BY <1>4 DEF Write
  <2>2. l \in Seq(Line)
    BY <1>2
  <2> HIDE DEF l
  <2> QED
    BY Zenon, ZenonT(60), <2>1, <2>2 DEF TypeOK, Files
<1> QED
  BY <1>3, <1>4

\* What the server loads.
LEMMA ConfigType ==
    ASSUME TypeOK
    PROVE  Config \in [Networks -> Seq(Line \cup {None})]
<1>1. \A n \in Networks : file[n].lines \in Seq(Line)
  BY DEF TypeOK, Files
<1>2. \A n \in Networks : file[n].lines \in Seq(Line \cup {None})
  BY <1>1
<1>3. <<None>> \in Seq(Line \cup {None})
  OBVIOUS
<1> QED
  BY Zenon, ZenonT(60), <1>2, <1>3 DEF Config

-----------------------------------------------------------------------------
\* An empty config directory, a free lock and no running command are well typed.
LEMMA TypeInit == Init => TypeOK
<1> SUFFICES ASSUME Init PROVE TypeOK
  OBVIOUS
<1>1. net \in [Procs -> Networks]
  BY CmdAssumption DEF Init
<1>2. <<>> \in Seq(Line) /\ <<None>> \in Seq(Line \cup {None})
  OBVIOUS
<1>3. faults \in 0 .. MaxFaults
  BY DataAssumption DEF Init
<1>4. file \in Files /\ server \in Servers
  BY <1>2 DEF Init, Files, Servers
<1> QED
  BY Zenon, ZenonT(60), <1>1, <1>2, <1>3, <1>4 DEF Init, TypeOK, Labels, Settled

\* A step to one of the labels keeps pc well typed.
LEMMA GotoType ==
    ASSUME TypeOK, NEW p \in Procs, NEW l \in Labels, Goto(p, l)
    PROVE  pc' \in [Procs -> Labels]
BY DEF TypeOK, Goto

\* The labels that the actions jump to.
LEMMA LabelTypes ==
    {"idle", "done", "failed", "aborted", "create_new", "append", "header", "entry",
     "lock", "get_pid", "kill", "start", "read", "truncate", "write"} \subseteq Labels
BY DEF Labels, Settled, Committing

\* A new file of a path: create_new, and File::create.
LEMMA NewFileType ==
    ASSUME TypeOK, NEW n \in Networks, NEW g \in Nat,
           file' = [file EXCEPT ![n] = [gen |-> g, exists |-> TRUE, lines |-> <<>>]]
    PROVE  file' \in Files
<1>1. <<>> \in Seq(Line)
  OBVIOUS
<1> QED
  BY <1>1 DEF TypeOK, Files

\* The steps of commit_entries, from the lock to its release, keep the types.
LEMMA CommitTypes ==
    ASSUME TypeOK, NEW p \in Procs,
           LockExclusive(p) \/ CreateNew(p) \/ OpenAppend(p) \/ WriteHeader(p) \/ CommitEntry(p) \/ Unlock(p)
    PROVE  TypeOK'
<1>1. CASE LockExclusive(p)
  BY <1>1, GotoType, LabelTypes DEF LockExclusive, TypeOK
<1>2. CASE CreateNew(p)
  <2>1. PICK n \in todo[p] :
          /\ net' = [net EXCEPT ![p] = n]
          /\ todo' = [todo EXCEPT ![p] = @ \ {n}]
          /\ IF file[n].exists
             THEN /\ Goto(p, "append")
                  /\ UNCHANGED <<file, fd, app, pos>>
             ELSE /\ Goto(p, "header")
                  /\ file' = [file EXCEPT ![n] = [gen |-> @.gen + 1, exists |-> TRUE, lines |-> <<>>]]
                  /\ fd' = [fd EXCEPT ![p] = file[n].gen + 1]
                  /\ app' = [app EXCEPT ![p] = FALSE]
                  /\ pos' = [pos EXCEPT ![p] = 1]
    BY Zenon, ZenonT(60), <1>2 DEF CreateNew
  <2>2. n \in Networks
    BY DEF TypeOK
  <2>3. file[n].gen + 1 \in Nat
    BY <2>2 DEF TypeOK, Files
  <2>4. file' \in Files
    <3>1. CASE file[n].exists
      BY <2>1, <3>1 DEF TypeOK
    <3>2. CASE ~file[n].exists
      <4>1. file' = [file EXCEPT ![n] = [gen |-> file[n].gen + 1, exists |-> TRUE, lines |-> <<>>]]
        BY <2>1, <2>2, <3>2 DEF TypeOK, Files
      <4> QED
        BY Zenon, ZenonT(60), <4>1, <2>2, <2>3, NewFileType
    <3> QED
      BY <3>1, <3>2
  <2>5. fd' \in [Procs -> Nat] /\ app' \in [Procs -> BOOLEAN] /\ pos' \in [Procs -> Nat]
    <3>1. CASE file[n].exists
      BY <2>1, <3>1 DEF TypeOK
    <3>2. CASE ~file[n].exists
      <4>1. fd' \in [Procs -> Nat]
        <5>1. fd' = [fd EXCEPT ![p] = file[n].gen + 1] /\ fd \in [Procs -> Nat]
          BY <2>1, <3>2 DEF TypeOK
        <5> QED
          BY <2>3, <5>1
      <4>2. app' \in [Procs -> BOOLEAN]
        BY Zenon, ZenonT(60), <2>1, <3>2 DEF TypeOK
      <4>3. pos' = [pos EXCEPT ![p] = 1]
        BY <2>1, <3>2
      <4>4. pos' \in [Procs -> Nat]
        BY <4>3 DEF TypeOK
      <4> QED
        BY <4>1, <4>2, <4>4
    <3> QED
      BY <3>1, <3>2
  <2>6. net' \in [Procs -> Networks] /\ todo' \in [Procs -> SUBSET Networks]
    BY <2>1, <2>2 DEF TypeOK
  <2>7. pc' \in [Procs -> Labels]
    BY <2>1, GotoType, LabelTypes
  <2> QED
    BY <1>2, <2>4, <2>5, <2>6, <2>7 DEF CreateNew, TypeOK
<1>3. CASE OpenAppend(p)
  <2>1. pc' \in [Procs -> Labels]
    BY <1>3, GotoType, LabelTypes DEF OpenAppend
  <2>2. fd' \in [Procs -> Nat] /\ app' \in [Procs -> BOOLEAN] /\ lock' \in Procs \cup {None}
    BY Zenon, ZenonT(60), <1>3 DEF OpenAppend, TypeOK, Files
  <2> QED
    BY <1>3, <2>1, <2>2 DEF OpenAppend, TypeOK
<1>4. CASE WriteHeader(p)
  BY <1>4, LineTypes, WriteType, GotoType, LabelTypes, Zenon, ZenonT(60) DEF WriteHeader, TypeOK
<1>5. CASE CommitEntry(p)
  BY <1>5, LineTypes, WriteType, GotoType, LabelTypes DEF CommitEntry, TypeOK
<1>6. CASE Unlock(p)
  BY <1>6, GotoType, LabelTypes DEF Unlock, TypeOK
<1> QED
  BY <1>1, <1>2, <1>3, <1>4, <1>5, <1>6

\* The steps of notify keep the types.
LEMMA NotifyTypes ==
    ASSUME TypeOK, NEW p \in Procs, GetPid(p) \/ Kill(p) \/ StartServer(p)
    PROVE  TypeOK'
<1>1. CASE GetPid(p)
  BY <1>1, GotoType, LabelTypes DEF GetPid, TypeOK
<1>2. CASE Kill(p)
  <2>1. server' \in Servers
    BY Zenon, ZenonT(60), <1>2 DEF Kill, TypeOK, Servers
  <2>2. pc' \in [Procs -> Labels]
    BY <1>2, GotoType, LabelTypes DEF Kill
  <2> QED
    BY <1>2, <2>1, <2>2 DEF Kill, TypeOK
<1>3. CASE StartServer(p)
  <2>1. server' \in Servers /\ pidfile' \in Nat
    <3>1. (~NoConfig) \in BOOLEAN
      BY DEF NoConfig
    <3>2. server.id + 1 \in Nat
      BY DEF TypeOK, Servers
    <3>3. CASE Launch
      BY <3>1, <3>2, <3>3, ConfigType DEF Launch, Servers
    <3> QED
      BY <1>3, <3>3 DEF StartServer, TypeOK
  <2>2. pc' \in [Procs -> Labels]
    BY <1>3, GotoType, LabelTypes DEF StartServer
  <2> QED
    BY <1>3, <2>1, <2>2 DEF StartServer, TypeOK
<1> QED
  BY <1>1, <1>2, <1>3

\* The steps of delete_entry and modify_network_dns_servers keep the types.
LEMMA RewriteTypes ==
    ASSUME TypeOK, NEW p \in Procs,
           ReadFile(p) \/ Truncate(p) \/ WriteBack(p) \/ DeleteEntryEnd(p) \/ ModifyEnd(p)
    PROVE  TypeOK'
<1>1. CASE ReadFile(p)
  <2>1. PICK n \in todo[p] :
          /\ net' = [net EXCEPT ![p] = n]
          /\ todo' = [todo EXCEPT ![p] = @ \ {n}]
          /\ IF file[n].exists
             THEN Goto(p, "truncate") /\ buf' = [buf EXCEPT ![p] = file[n].lines]
             ELSE Goto(p, IF Cmd[p].kind = "teardown" THEN "failed" ELSE "done") /\ UNCHANGED buf
    BY Zenon, ZenonT(60), <1>1 DEF ReadFile
  <2>2. n \in Networks
    BY DEF TypeOK
  <2>3. file[n].lines \in Seq(Line)
    BY <2>2 DEF TypeOK, Files
  <2>4. buf' \in [Procs -> Seq(Line)]
    BY Zenon, ZenonT(60), <2>1, <2>3 DEF TypeOK
  <2>5. net' \in [Procs -> Networks] /\ todo' \in [Procs -> SUBSET Networks]
    BY <2>1, <2>2 DEF TypeOK
  <2>6. pc' \in [Procs -> Labels]
    BY <2>1, GotoType, LabelTypes
  <2> QED
    BY <1>1, <2>4, <2>5, <2>6 DEF ReadFile, TypeOK
<1>2. CASE Truncate(p)
  <2> DEFINE g == IF file[net[p]].exists THEN file[net[p]].gen ELSE file[net[p]].gen + 1
  <2>1. net[p] \in Networks
    BY DEF TypeOK
  <2>2. g \in Nat
    <3>1. file[net[p]].gen \in Nat
      BY <2>1 DEF TypeOK, Files
    <3> QED
      BY <3>1
  <2>3. /\ file' = [file EXCEPT ![net[p]] = [gen |-> g, exists |-> TRUE, lines |-> <<>>]]
        /\ fd' = [fd EXCEPT ![p] = g]
    BY <1>2 DEF Truncate
  <2> HIDE DEF g
  <2>4. file' \in Files /\ fd' \in [Procs -> Nat]
    BY Zenon, ZenonT(60), <2>1, <2>2, <2>3, NewFileType DEF TypeOK
  <2>5. pc' \in [Procs -> Labels]
    BY <1>2, GotoType, LabelTypes DEF Truncate
  <2> QED
    BY <1>2, <2>4, <2>5, Zenon, ZenonT(60) DEF Truncate, TypeOK
<1>3. CASE WriteBack(p)
  <2>1. buf[p] \in Seq(Line) /\ buf[p] # <<>>
    BY <1>3, Zenon, ZenonT(60) DEF WriteBack, TypeOK
  <2>2. Head(buf[p]) \in Line /\ Tail(buf[p]) \in Seq(Line)
    BY <2>1
  <2>3. file' \in Files
    <3>1. CASE UNCHANGED file
      BY <3>1 DEF TypeOK
    <3>2. CASE Write(p, Rewritten(p, Head(buf[p])))
      BY <3>2, <2>2, RewrittenType, WriteType
    <3> QED
      BY <1>3, <3>1, <3>2 DEF WriteBack
  <2>4. pos' \in [Procs -> Nat]
    <3>1. CASE UNCHANGED pos
      BY <3>1 DEF TypeOK
    <3>2. CASE pos' = [pos EXCEPT ![p] = @ + 1]
      BY <3>2 DEF TypeOK
    <3> QED
      BY <1>3, <3>1, <3>2 DEF WriteBack
  <2>5. buf' \in [Procs -> Seq(Line)]
    BY <1>3, <2>2, Zenon, ZenonT(60) DEF WriteBack, TypeOK
  <2> QED
    BY <1>3, <2>3, <2>4, <2>5, ZenonT(60), ZenonT(90) DEF WriteBack, TypeOK
<1>4. CASE DeleteEntryEnd(p)
  <2>1. file' \in Files
    <3>1. CASE UNCHANGED file
      BY <3>1 DEF TypeOK
    <3>2. CASE file' = [file EXCEPT ![net[p]].exists = FALSE, ![net[p]].lines = <<>>]
      <4>1. <<>> \in Seq(Line)
        OBVIOUS
      <4>2. [file EXCEPT ![net[p]].exists = FALSE] \in Files
        BY Zenon, ZenonT(60) DEF TypeOK, Files
      <4>3. ASSUME NEW f \in Files PROVE [f EXCEPT ![net[p]].lines = <<>>] \in Files
        BY Zenon, ZenonT(60), <4>1 DEF Files
      <4> QED
        BY Zenon, ZenonT(60), <3>2, <4>2, <4>3
    <3> QED
      BY <1>4, <3>1, <3>2 DEF DeleteEntryEnd
  <2>2. pc' \in [Procs -> Labels]
    BY <1>4, GotoType, LabelTypes DEF DeleteEntryEnd
  <2> QED
    BY <1>4, <2>1, <2>2 DEF DeleteEntryEnd, TypeOK
<1>5. CASE ModifyEnd(p)
  BY <1>5, GotoType, LabelTypes, Zenon, ZenonT(60) DEF ModifyEnd, TypeOK
<1> QED
  BY <1>1, <1>2, <1>3, <1>4, <1>5

\* So do the begin and the abort of a command and the steps of the server.
LEMMA OtherTypes ==
    ASSUME TypeOK,
           (\E p \in Procs : Begin(p) \/ Abort(p)) \/ ServerReload \/ ServerCrash
    PROVE  TypeOK'
<1>1. ASSUME NEW p \in Procs, Begin(p) PROVE TypeOK'
  <2>1. todo' \in [Procs -> SUBSET Networks]
    BY Zenon, ZenonT(60), <1>1, CmdAssumption DEF Begin, TypeOK
  <2>2. pc' \in [Procs -> Labels]
    BY <1>1, GotoType, LabelTypes DEF Begin
  <2> QED
    BY <1>1, <2>1, <2>2 DEF Begin, TypeOK
<1>2. ASSUME NEW p \in Procs, Abort(p) PROVE TypeOK'
  <2>1. faults' \in 0 .. MaxFaults
    BY <1>2, DataAssumption DEF Abort, TypeOK
  <2>2. pc' \in [Procs -> Labels]
    BY <1>2, GotoType, LabelTypes DEF Abort
  <2>3. lock' \in Procs \cup {None}
    BY <1>2 DEF Abort, TypeOK
  <2> QED
    BY <1>2, <2>1, <2>2, <2>3, Zenon, ZenonT(60) DEF Abort, TypeOK
<1>3. CASE ServerReload
  <2>1. (~NoConfig) \in BOOLEAN
    BY DEF NoConfig
  <2>2. server' = [alive |-> ~NoConfig, id |-> server.id, hup |-> FALSE, view |-> Config]
    BY Zenon, ZenonT(60), <1>3 DEF ServerReload, TypeOK, Servers
  <2>3. server' \in Servers
    BY <2>1, <2>2, ConfigType, Zenon, ZenonT(60) DEF TypeOK, Servers
  <2>4. pidfile' \in Nat
    BY <1>3 DEF ServerReload, TypeOK
  <2> QED
    BY <1>3, <2>3, <2>4 DEF ServerReload, TypeOK, procVars
<1>4. CASE ServerCrash
  <2>1. server' \in Servers
    BY Zenon, ZenonT(60), <1>4 DEF ServerCrash, TypeOK, Servers
  <2>2. faults' \in 0 .. MaxFaults
    BY <1>4, DataAssumption DEF ServerCrash, TypeOK
  <2> QED
    BY <1>4, <2>1, <2>2 DEF ServerCrash, TypeOK, procVars
<1> QED
  BY <1>1, <1>2, <1>3, <1>4

\* TypeOK is inductive.
LEMMA TypeNext == TypeOK /\ [Next]_vars => TypeOK'
<1> SUFFICES ASSUME TypeOK, [Next]_vars PROVE TypeOK'
  OBVIOUS
<1>1. ASSUME NEW p \in Procs, Step(p) PROVE TypeOK'
  BY <1>1, CommitTypes, NotifyTypes, RewriteTypes DEF Step
<1>2. CASE UNCHANGED vars
  BY <1>2 DEF TypeOK, vars, procVars
<1> QED
  BY <1>1, <1>2, OtherTypes DEF Next

\* The variables keep their types in every behaviour of any number of
\* setup, teardown and update commands, with I/O errors, kills and crashes.
THEOREM TypeCorrect == Spec => []TypeOK
BY TypeInit, TypeNext, PTL DEF Spec

-----------------------------------------------------------------------------
\* Nobody holds the lock before the first command.
LEMMA LockedInit == Init => CommitLocked
BY DataAssumption DEF Init, CommitLocked, Committing

\* CommitLocked is preserved: one step per action of commit_entries that takes
\* or gives back the lock, the others leave both sides alone.
LEMMA LockedNext == TypeOK /\ CommitLocked /\ [Next]_vars => CommitLocked'
<1> SUFFICES ASSUME TypeOK, CommitLocked, [Next]_vars PROVE CommitLocked'
  OBVIOUS
<1> USE DataAssumption DEF CommitLocked, Committing, Goto
<1>0. pc \in [Procs -> Labels] /\ None \notin Procs
  BY DEF TypeOK
<1>1. ASSUME NEW p \in Procs, Begin(p) PROVE CommitLocked'
  BY <1>0, <1>1 DEF Begin
<1>2. ASSUME NEW p \in Procs, LockExclusive(p) PROVE CommitLocked'
  BY <1>0, <1>2 DEF LockExclusive
<1>3. ASSUME NEW p \in Procs, CreateNew(p) PROVE CommitLocked'
  <2>1. pc[p] = "create_new" /\ lock' = lock /\ (Goto(p, "append") \/ Goto(p, "header"))
    BY <1>3 DEF CreateNew
  <2> QED
    BY <1>0, <2>1
<1>4. ASSUME NEW p \in Procs, OpenAppend(p) PROVE CommitLocked'
  <2>1. CASE file[net[p]].exists
    BY <1>0, <1>4, <2>1 DEF OpenAppend
  <2>2. CASE ~file[net[p]].exists
    BY <1>0, <1>4, <2>2 DEF OpenAppend
  <2> QED
    BY <2>1, <2>2
<1>5. ASSUME NEW p \in Procs, WriteHeader(p) PROVE CommitLocked'
  BY <1>0, <1>5 DEF WriteHeader
<1>6. ASSUME NEW p \in Procs, CommitEntry(p) PROVE CommitLocked'
  BY <1>0, <1>6 DEF CommitEntry
<1>7. ASSUME NEW p \in Procs, Unlock(p) PROVE CommitLocked'
  BY <1>0, <1>7 DEF Unlock
<1>8. ASSUME NEW p \in Procs, GetPid(p) PROVE CommitLocked'
  BY <1>0, <1>8 DEF GetPid
<1>9. ASSUME NEW p \in Procs, Kill(p) PROVE CommitLocked'
  BY <1>0, <1>9 DEF Kill
<1>10. ASSUME NEW p \in Procs, StartServer(p) PROVE CommitLocked'
  BY <1>0, <1>10 DEF StartServer
<1>11. ASSUME NEW p \in Procs, ReadFile(p) PROVE CommitLocked'
  <2>1. /\ pc[p] = "read" /\ lock' = lock
        /\ \E l \in {"truncate", "failed", "done"} : Goto(p, l)
    BY <1>11 DEF ReadFile
  <2> QED
    BY <1>0, <2>1
<1>12. ASSUME NEW p \in Procs, Truncate(p) PROVE CommitLocked'
  BY <1>0, <1>12 DEF Truncate
<1>13. ASSUME NEW p \in Procs, WriteBack(p) PROVE CommitLocked'
  BY <1>0, <1>13 DEF WriteBack
<1>14. ASSUME NEW p \in Procs, DeleteEntryEnd(p) PROVE CommitLocked'
  <2>1. /\ pc[p] = "write" /\ lock' = lock
        /\ \E l \in {"failed", "read", "get_pid"} : Goto(p, l)
    BY Zenon, ZenonT(60), <1>14 DEF DeleteEntryEnd
  <2> QED
    BY <1>0, <2>1
<1>15. ASSUME NEW p \in Procs, ModifyEnd(p) PROVE CommitLocked'
  BY <1>0, <1>15 DEF ModifyEnd
<1>16. ASSUME NEW p \in Procs, Abort(p) PROVE CommitLocked'
  BY <1>0, <1>16 DEF Abort
<1>17. CASE ServerReload
  BY <1>17 DEF ServerReload, procVars
<1>18. CASE ServerCrash
  BY <1>18 DEF ServerCrash, procVars
<1>19. CASE UNCHANGED vars
  BY <1>19 DEF vars, procVars
<1> QED
  BY Zenon, ZenonT(60), <1>1, <1>2, <1>3, <1>4, <1>5, <1>6, <1>7, <1>8, <1>9, <1>10, <1>11, <1>12, <1>13,
     <1>14, <1>15, <1>16, <1>17, <1>18, <1>19 DEF Next, Step

\* commit_entries is mutually exclusive and leaves the lock free on every way
\* out, for any commands, overlapping or not, with failures and kills.
THEOREM LockCorrect == Spec => []CommitLocked
<1>1. Init => TypeOK /\ CommitLocked
  BY TypeInit, LockedInit
<1>2. TypeOK /\ CommitLocked /\ [Next]_vars => (TypeOK /\ CommitLocked)'
  BY TypeNext, LockedNext
<1> QED
  BY <1>1, <1>2, PTL DEF Spec

-----------------------------------------------------------------------------
\* Nobody rewrites the file of n, or is going to.
NoRewrite(n) ==
    \A p \in Procs : pc[p] \in {"read", "truncate", "write"} =>
        n \notin todo[p] /\ (pc[p] # "read" => net[p] # n)

\* The descriptor of commit_entries is the path's file, and its next write goes
\* to the end: the creator finds the file empty, or with its own header only,
\* and everybody else appends.
AtEnd(n) ==
    \A p \in Procs : net[p] = n =>
        LET f == file[n] IN
        /\ pc[p] \in {"append", "header", "entry"} => f.exists
        /\ pc[p] \in {"header", "entry"} => fd[p] = f.gen
        /\ pc[p] = "header" => ~app[p] /\ pos[p] = 1 /\ f.lines = <<>>
        /\ pc[p] = "entry" => app[p] \/ (pos[p] = 2 /\ Len(f.lines) = 1)

SetupInv(n) == NoRewrite(n) /\ AtEnd(n) /\ Kept(n)

\* The inductive invariant: the lock always, the file of a network until
\* something other than a setup is started for it.
CommitInv == TypeOK /\ CommitLocked /\ \A n \in Networks : Untouched(n) => SetupInv(n)

\* A write right after the last line appends.
LEMMA WriteAtEnd ==
    ASSUME NEW s \in Seq(Line), NEW line \in Line, NEW i \in Nat, i = Len(s) + 1
    PROVE  /\ Len(WriteAt(s, i, line)) = Len(s) + 1
           /\ WriteAt(s, i, line)[Len(s) + 1] = line
           /\ \A k \in 1 .. Len(s) : WriteAt(s, i, line)[k] = s[k]
<1> DEFINE n == IF i > Len(s) THEN i ELSE Len(s)
<1>1. n = Len(s) + 1 /\ Len(s) \in Nat
  OBVIOUS
<1>2. WriteAt(s, i, line) = [k \in 1 .. n |-> IF k = i THEN line ELSE IF k <= Len(s) THEN s[k] ELSE Gap]
  BY DEF WriteAt
<1>3. WriteAt(s, i, line) = [k \in 1 .. (Len(s) + 1) |-> IF k = i THEN line ELSE IF k <= Len(s) THEN s[k] ELSE Gap]
  BY <1>1, <1>2
<1>4. WriteAt(s, i, line) \in Seq(Line)
  BY WriteAtType
<1>5. Len(WriteAt(s, i, line)) = Len(s) + 1
  BY <1>1, <1>3, <1>4
<1> QED
  BY <1>1, <1>3, <1>5

\* A write at the end of the path's own file adds a line there and changes
\* nothing else.
LEMMA WriteGrows ==
    ASSUME TypeOK, NEW p \in Procs, file[net[p]].exists, fd[p] = file[net[p]].gen,
           ~app[p] => pos[p] = Len(file[net[p]].lines) + 1,
           NEW line \in Line, Write(p, line)
    PROVE  /\ \A n \in Networks \ {net[p]} : file'[n] = file[n]
           /\ file'[net[p]].exists = file[net[p]].exists
           /\ file'[net[p]].gen = file[net[p]].gen
           /\ Len(file'[net[p]].lines) = Len(file[net[p]].lines) + 1
           /\ file'[net[p]].lines[Len(file[net[p]].lines) + 1] = line
           /\ \A k \in 1 .. Len(file[net[p]].lines) : file'[net[p]].lines[k] = file[net[p]].lines[k]
<1>1. PICK m \in Networks : m = net[p]
  BY DEF TypeOK
<1>2. PICK s \in Seq(Line) : s = file[m].lines
  BY DEF TypeOK, Files
<1>3. PICK l : l = IF app[p] THEN Append(s, line) ELSE WriteAt(s, pos[p], line)
  BY Zenon, ZenonT(60)
<1>4. file' = [file EXCEPT ![m].lines = l]
  BY <1>1, <1>2, <1>3 DEF Write
<1>5. /\ Len(l) = Len(s) + 1
      /\ l[Len(s) + 1] = line
      /\ \A k \in 1 .. Len(s) : l[k] = s[k]
  <2>1. CASE app[p]
    BY <1>3, <2>1
  <2>2. CASE ~app[p]
    <3>1. pos[p] = Len(s) + 1 /\ pos[p] \in Nat /\ l = WriteAt(s, pos[p], line)
      BY <1>1, <1>2, <1>3, <2>2
    <3> QED
      BY <3>1, WriteAtEnd
  <2> QED
    BY <2>1, <2>2
<1>6. /\ \A n \in Networks \ {m} : file'[n] = file[n]
      /\ file'[m].exists = file[m].exists /\ file'[m].gen = file[m].gen
      /\ file'[m].lines = l
  <2>1. file \in [Networks -> [gen : Nat, exists : BOOLEAN, lines : Seq(Line)]]
    BY DEF TypeOK, Files
  <2> QED
    BY <1>4, <2>1
<1> QED
  BY <1>1, <1>2, <1>5, <1>6, Zenon, ZenonT(60)

\* The writes of commit_entries add a line to p's file and change nothing else.
LEMMA WriteAppends ==
    ASSUME TypeOK, NEW p \in Procs, AtEnd(net[p]), pc[p] \in {"header", "entry"},
           NEW line \in Line, Write(p, line)
    PROVE  /\ \A n \in Networks \ {net[p]} : file'[n] = file[n]
           /\ file'[net[p]].exists = file[net[p]].exists
           /\ file'[net[p]].gen = file[net[p]].gen
           /\ Len(file'[net[p]].lines) = Len(file[net[p]].lines) + 1
           /\ file'[net[p]].lines[Len(file[net[p]].lines) + 1] = line
           /\ \A k \in 1 .. Len(file[net[p]].lines) : file'[net[p]].lines[k] = file[net[p]].lines[k]
<1>1. file[net[p]].exists /\ fd[p] = file[net[p]].gen
  BY DEF AtEnd
<1>2. ~app[p] => pos[p] = Len(file[net[p]].lines) + 1
  <2>1. CASE pc[p] = "header"
    BY <2>1 DEF AtEnd
  <2>2. CASE pc[p] = "entry"
    <3>1. app[p] \/ (pos[p] = 2 /\ Len(file[net[p]].lines) = 1)
      BY <2>2 DEF AtEnd
    <3>2. (pos[p] = 2 /\ Len(file[net[p]].lines) = 1) => pos[p] = Len(file[net[p]].lines) + 1
      OBVIOUS
    <3> QED
      BY <3>1, <3>2, Zenon, ZenonT(60)
  <2> QED
    BY <2>1, <2>2
<1> QED
  BY <1>1, <1>2, WriteGrows, Zenon, ZenonT(60)

\* A step of p that leaves the file of n alone and does not enter the file
\* operations of commit_entries on n keeps what was written there.
LEMMA QuietStep ==
    ASSUME NEW n \in Networks, AtEnd(n), Kept(n), NEW p \in Procs, file'[n] = file[n],
           \A q \in Procs \ {p} : /\ pc'[q] = pc[q] /\ todo'[q] = todo[q] /\ net'[q] = net[q]
                                  /\ fd'[q] = fd[q] /\ app'[q] = app[q] /\ pos'[q] = pos[q],
           net'[p] = n => pc'[p] \notin {"append", "header", "entry"},
           n \in Committed(p)' => n \in Committed(p)
    PROVE  AtEnd(n)' /\ Kept(n)'
<1>1. AtEnd(n)'
  BY DEF AtEnd
<1>2. ASSUME NEW q \in Procs, n \in Committed(q)' PROVE n \in Committed(q)
  <2>1. q # p => Committed(q)' = Committed(q)
    BY Zenon, ZenonT(60) DEF Committed, Starts
  <2> QED
    BY <1>2, <2>1
<1>3. \A k \in Containers : EntryIn(k, n)' <=> EntryIn(k, n)
  BY DEF EntryIn, Entry
<1>4. \A q \in Procs : Cmd[q].ctr \in Containers
  BY CmdAssumption
<1> QED
  BY <1>1, <1>2, <1>3, <1>4 DEF Kept

\* A step of p inside commit_entries that loses no entry of n: nobody else is
\* there (CommitLocked), so only p's own part of the invariant remains.
LEMMA GrowingStep ==
    ASSUME NEW n \in Networks, CommitLocked, Kept(n), NEW p \in Procs, pc[p] \in Committing,
           \A q \in Procs \ {p} : /\ pc'[q] = pc[q] /\ todo'[q] = todo[q] /\ net'[q] = net[q],
           \A k \in Containers : EntryIn(k, n) => EntryIn(k, n)',
           n \in Committed(p)' => n \in Committed(p) \/ EntryIn(Cmd[p].ctr, n)'
    PROVE  /\ Kept(n)'
           /\ \A q \in Procs \ {p} : pc'[q] \notin {"append", "header", "entry"}
<1>1. \A q \in Procs \ {p} : pc'[q] \notin {"append", "header", "entry"}
  BY DEF CommitLocked, Committing
<1>2. \A q \in Procs \ {p} : Committed(q)' = Committed(q)
  BY Zenon, ZenonT(60) DEF Committed, Starts
<1>3. \A q \in Procs : Cmd[q].ctr \in Containers
  BY CmdAssumption
<1>4. \A q \in Procs \ {p} : n \in Committed(q)' => EntryIn(Cmd[q].ctr, n)'
  BY <1>2, <1>3 DEF Kept
<1>5. n \in Committed(p)' => EntryIn(Cmd[p].ctr, n)'
  BY <1>3 DEF Kept
<1> QED
  BY <1>1, <1>4, <1>5 DEF Kept

\* A file that grows at its end keeps its entries.
LEMMA GrowthKeepsEntries ==
    ASSUME TypeOK, NEW p \in Procs, AtEnd(net[p]), pc[p] \in {"header", "entry"},
           NEW line \in Line, Write(p, line)
    PROVE  /\ \A k \in Containers, n \in Networks : EntryIn(k, n) => EntryIn(k, n)'
           /\ \E i \in DOMAIN file'[net[p]].lines : file'[net[p]].lines[i] = line
<1>0. /\ \A n \in Networks \ {net[p]} : file'[n] = file[n]
      /\ file'[net[p]].exists = file[net[p]].exists
      /\ Len(file'[net[p]].lines) = Len(file[net[p]].lines) + 1
      /\ file'[net[p]].lines[Len(file[net[p]].lines) + 1] = line
      /\ \A k \in 1 .. Len(file[net[p]].lines) : file'[net[p]].lines[k] = file[net[p]].lines[k]
  BY WriteAppends, Zenon, ZenonT(60)
<1>1. net[p] \in Networks /\ file[net[p]].lines \in Seq(Line)
  BY DEF TypeOK, Files
<1>2. file'[net[p]].lines \in Seq(Line)
  BY <1>1, WriteType DEF Files
<1>3. /\ DOMAIN file'[net[p]].lines = 1 .. (Len(file[net[p]].lines) + 1)
      /\ DOMAIN file[net[p]].lines = 1 .. Len(file[net[p]].lines)
      /\ Len(file[net[p]].lines) \in Nat
  <2>1. Len(file'[net[p]].lines) = Len(file[net[p]].lines) + 1
    BY <1>0
  <2> QED
    BY <1>1, <1>2, <2>1
<1>4. ASSUME NEW k \in Containers, NEW n \in Networks, EntryIn(k, n) PROVE EntryIn(k, n)'
  <2>1. CASE n # net[p]
    BY <1>0, <1>4, <2>1 DEF EntryIn
  <2>2. CASE n = net[p]
    <3>1. PICK i \in 1 .. Len(file[net[p]].lines) : file[net[p]].lines[i] = Entry(k)
      BY <1>3, <1>4, <2>2 DEF EntryIn
    <3>2. i \in DOMAIN file'[net[p]].lines /\ file'[net[p]].lines[i] = Entry(k)
      <4>1. file'[net[p]].lines[i] = file[net[p]].lines[i]
        BY <1>0
      <4> QED
        BY <1>3, <3>1, <4>1
    <3>3. Entry(k)' = Entry(k)
      BY DEF Entry
    <3> QED
      BY <1>0, <1>4, <2>2, <3>2, <3>3, ZenonT(60), ZenonT(90) DEF EntryIn
  <2> QED
    BY <2>1, <2>2
<1>5. Len(file[net[p]].lines) + 1 \in DOMAIN file'[net[p]].lines
  BY <1>3
<1>6. \E i \in DOMAIN file'[net[p]].lines : file'[net[p]].lines[i] = line
  BY <1>0, <1>5, Zenon, ZenonT(60)
<1> QED
  BY <1>4, <1>6, Zenon, ZenonT(60)

\* The four steps of commit_entries on the file of n.
LEMMA CommitSteps ==
    ASSUME TypeOK, CommitLocked, NEW n \in Networks, AtEnd(n), Kept(n), NEW p \in Procs, net'[p] = n,
           CreateNew(p) \/ OpenAppend(p) \/ WriteHeader(p) \/ CommitEntry(p)
    PROVE  AtEnd(n)' /\ Kept(n)'
<1>0. /\ pc \in [Procs -> Labels] /\ net \in [Procs -> Networks] /\ todo \in [Procs -> SUBSET Networks]
      /\ fd \in [Procs -> Nat] /\ app \in [Procs -> BOOLEAN] /\ pos \in [Procs -> Nat]
  BY DEF TypeOK
<1>1. CASE CreateNew(p)
  <2>1. /\ n \in todo[p]
        /\ net' = [net EXCEPT ![p] = n]
        /\ todo' = [todo EXCEPT ![p] = @ \ {n}]
        /\ IF file[n].exists
           THEN /\ Goto(p, "append")
                /\ UNCHANGED <<file, fd, app, pos>>
           ELSE /\ Goto(p, "header")
                /\ file' = [file EXCEPT ![n] = [gen |-> @.gen + 1, exists |-> TRUE, lines |-> <<>>]]
                /\ fd' = [fd EXCEPT ![p] = file[n].gen + 1]
                /\ app' = [app EXCEPT ![p] = FALSE]
                /\ pos' = [pos EXCEPT ![p] = 1]
    <3>1. PICK m \in todo[p] :
            /\ net' = [net EXCEPT ![p] = m]
            /\ todo' = [todo EXCEPT ![p] = @ \ {m}]
            /\ IF file[m].exists
               THEN /\ Goto(p, "append")
                    /\ UNCHANGED <<file, fd, app, pos>>
               ELSE /\ Goto(p, "header")
                    /\ file' = [file EXCEPT ![m] = [gen |-> @.gen + 1, exists |-> TRUE, lines |-> <<>>]]
                    /\ fd' = [fd EXCEPT ![p] = file[m].gen + 1]
                    /\ app' = [app EXCEPT ![p] = FALSE]
                    /\ pos' = [pos EXCEPT ![p] = 1]
      BY Zenon, ZenonT(60), <1>1 DEF CreateNew
    <3>2. m = n
      BY <1>0, <3>1
    <3> QED
      BY <3>1, <3>2
  <2>2. pc[p] = "create_new"
    BY <1>1, Zenon, ZenonT(60) DEF CreateNew
  <2>3. /\ file[n].exists => file'[n] = file[n]
        /\ ~file[n].exists => file'[n] = [gen |-> file[n].gen + 1, exists |-> TRUE, lines |-> <<>>]
    <3>1. CASE file[n].exists
      BY <2>1, <3>1
    <3>2. CASE ~file[n].exists
      <4>1. file' = [file EXCEPT ![n] = [gen |-> @.gen + 1, exists |-> TRUE, lines |-> <<>>]]
        BY <2>1, <3>2
      <4>2. file = [m \in Networks |-> file[m]]
        BY DEF TypeOK, Files
      <4> QED
        BY <2>2, <3>2, <4>1, <4>2
    <3> QED
      BY Zenon, ZenonT(60), <3>1, <3>2
  <2>4. \A k \in Containers : EntryIn(k, n) => EntryIn(k, n)'
    BY <2>3 DEF EntryIn, Entry
  <2>5. /\ pc'[p] = IF file[n].exists THEN "append" ELSE "header"
        /\ todo'[p] = todo[p] \ {n} /\ net'[p] = n
        /\ \A q \in Procs \ {p} : pc'[q] = pc[q] /\ todo'[q] = todo[q] /\ net'[q] = net[q]
    BY <1>0, <2>1 DEF Goto
  <2>6. n \in Committed(p)' => n \in Committed(p)
    BY <2>2, <2>5, Zenon, ZenonT(60) DEF Committed, Starts, Settled, Committing
  <2>7. Kept(n)' /\ \A q \in Procs \ {p} : pc'[q] \notin {"append", "header", "entry"}
    BY <2>2, <2>4, <2>5, <2>6, GrowingStep, Zenon, ZenonT(60) DEF Committing
  <2>8. CASE file[n].exists
    BY <2>3, <2>5, <2>7, <2>8, Zenon, ZenonT(60) DEF AtEnd
  <2>9. CASE ~file[n].exists
    <3>1. fd'[p] = file[n].gen + 1 /\ ~app'[p] /\ pos'[p] = 1
      BY <1>0, <2>1, <2>9
    <3>2. file'[n].exists /\ file'[n].gen = file[n].gen + 1 /\ file'[n].lines = <<>>
      <4>1. file'[n] = [gen |-> file[n].gen + 1, exists |-> TRUE, lines |-> <<>>]
        BY <2>3, <2>9, Zenon, ZenonT(60)
      <4> QED
        BY <4>1
    <3> QED
      BY <2>5, <2>7, <2>9, <3>1, <3>2, Zenon, ZenonT(60) DEF AtEnd
  <2> QED
    BY <2>8, <2>9, Zenon, ZenonT(60)
<1>2. CASE OpenAppend(p)
  <2>1. pc[p] = "append" /\ file[n].exists
    BY Zenon, ZenonT(60), <1>2 DEF OpenAppend, AtEnd
  <2>2. /\ file' = file /\ todo' = todo /\ net' = net /\ net[p] = n
        /\ pc' = [pc EXCEPT ![p] = "entry"]
        /\ fd' = [fd EXCEPT ![p] = file[n].gen]
        /\ app' = [app EXCEPT ![p] = TRUE]
    BY Zenon, ZenonT(60), <1>2, <2>1 DEF OpenAppend, Goto
  <2>3. /\ pc'[p] = "entry" /\ fd'[p] = file[n].gen /\ app'[p]
        /\ \A q \in Procs \ {p} : pc'[q] = pc[q]
    BY <1>0, <2>2, Zenon, ZenonT(60)
  <2>4. n \in Committed(p)' => n \in Committed(p)
    BY Zenon, ZenonT(60), <2>1, <2>2, <2>3 DEF Committed, Starts, Settled, Committing
  <2>5. \A k \in Containers : EntryIn(k, n) => EntryIn(k, n)'
    BY <2>2, Zenon, ZenonT(60) DEF EntryIn, Entry
  <2>6. Kept(n)' /\ \A q \in Procs \ {p} : pc'[q] \notin {"append", "header", "entry"}
    BY Zenon, ZenonT(60), <2>1, <2>2, <2>3, <2>4, <2>5, GrowingStep DEF Committing
  <2> QED
    BY Zenon, ZenonT(60), <2>1, <2>2, <2>3, <2>6 DEF AtEnd
<1>3. CASE WriteHeader(p)
  <2>1. /\ pc[p] = "header" /\ Write(p, Header(Cmd[p].dns))
        /\ todo' = todo /\ net' = net /\ net[p] = n /\ fd' = fd /\ app' = app
        /\ pc' = [pc EXCEPT ![p] = "entry"]
        /\ pos' = [pos EXCEPT ![p] = 2]
    BY Zenon, ZenonT(60), <1>3 DEF WriteHeader, Goto
  <2>2. pc'[p] = "entry" /\ pos'[p] = 2 /\ \A q \in Procs \ {p} : pc'[q] = pc[q]
    BY <1>0, <2>1
  <2>3. Header(Cmd[p].dns) \in Line
    BY LineTypes
  <2>4. \A k \in Containers : EntryIn(k, n) => EntryIn(k, n)'
    BY Zenon, ZenonT(60), <2>1, <2>3, GrowthKeepsEntries
  <2>5. n \in Committed(p)' => n \in Committed(p)
    BY Zenon, ZenonT(60), <2>1, <2>2 DEF Committed, Starts, Settled, Committing
  <2>6. Kept(n)' /\ \A q \in Procs \ {p} : pc'[q] \notin {"append", "header", "entry"}
    <3>1. /\ pc[p] \in Committing
          /\ \A q \in Procs \ {p} : pc'[q] = pc[q] /\ todo'[q] = todo[q] /\ net'[q] = net[q]
      BY <2>1, <2>2, Zenon, ZenonT(60) DEF Committing
    <3> QED
      BY <2>4, <2>5, <3>1, GrowingStep, Zenon, ZenonT(60)
  <2>7. /\ file'[n].exists = file[n].exists /\ file'[n].gen = file[n].gen
        /\ Len(file'[n].lines) = Len(file[n].lines) + 1
    <3>1. AtEnd(net[p]) /\ pc[p] \in {"header", "entry"} /\ Write(p, Header(Cmd[p].dns)) /\ net[p] = n
      BY <2>1
    <3>2. /\ file'[net[p]].exists = file[net[p]].exists /\ file'[net[p]].gen = file[net[p]].gen
          /\ Len(file'[net[p]].lines) = Len(file[net[p]].lines) + 1
      BY Zenon, ZenonT(60), <2>3, <3>1, WriteAppends
    <3> QED
      BY ZenonT(60), ZenonT(90), <3>1, <3>2
  <2>8. file[n].exists /\ fd[p] = file[n].gen /\ file[n].lines = <<>>
    BY ZenonT(60), ZenonT(90), <2>1 DEF AtEnd
  <2>9. Len(file'[n].lines) = 1
    BY <2>7, <2>8
  <2> QED
    BY Zenon, ZenonT(60), <2>1, <2>2, <2>6, <2>7, <2>8, <2>9 DEF AtEnd
<1>4. CASE CommitEntry(p)
  <2>1. /\ pc[p] = "entry" /\ Write(p, Entry(Cmd[p].ctr))
        /\ todo' = todo /\ net' = net /\ net[p] = n
        /\ pc' = [pc EXCEPT ![p] = "create_new"]
    BY Zenon, ZenonT(60), <1>4 DEF CommitEntry, Goto
  <2>2. pc'[p] = "create_new" /\ \A q \in Procs \ {p} : pc'[q] = pc[q]
    BY <1>0, <2>1
  <2>3. Entry(Cmd[p].ctr) \in Line
    BY LineTypes, Zenon, ZenonT(60)
  <2>4. /\ \A k \in Containers : EntryIn(k, n) => EntryIn(k, n)'
        /\ \E i \in DOMAIN file'[n].lines : file'[n].lines[i] = Entry(Cmd[p].ctr)
    BY Zenon, ZenonT(60), <2>1, <2>3, GrowthKeepsEntries
  <2>5. file'[n].exists
    <3>1. file[n].exists
      BY <2>1, Zenon, ZenonT(60) DEF AtEnd
    <3>2. file'[n].exists = file[n].exists
      BY Zenon, ZenonT(60), <2>1, <2>3, WriteAppends
    <3> QED
      BY <3>1, <3>2, Zenon, ZenonT(60)
  <2>6. EntryIn(Cmd[p].ctr, n)'
    BY Zenon, ZenonT(60), <2>1, <2>4, <2>5 DEF EntryIn, Entry
  <2>9. Kept(n)' /\ \A q \in Procs \ {p} : pc'[q] \notin {"append", "header", "entry"}
    BY Zenon, ZenonT(60), <2>1, <2>2, <2>4, <2>6, GrowingStep DEF Committing
  <2> QED
    BY <2>2, <2>9, Zenon, ZenonT(60) DEF AtEnd
<1> QED
  BY <1>1, <1>2, <1>3, <1>4

\* A step of commit_entries on another network leaves the file of n alone.
LEMMA OtherSteps ==
    ASSUME TypeOK, NEW n \in Networks, AtEnd(n), Kept(n), NEW p \in Procs, net'[p] # n,
           CreateNew(p) \/ OpenAppend(p) \/ WriteHeader(p) \/ CommitEntry(p)
    PROVE  AtEnd(n)' /\ Kept(n)'
<1>0. /\ pc \in [Procs -> Labels] /\ net \in [Procs -> Networks] /\ todo \in [Procs -> SUBSET Networks]
      /\ fd \in [Procs -> Nat] /\ app \in [Procs -> BOOLEAN] /\ pos \in [Procs -> Nat]
      /\ file = [m \in Networks |-> file[m]]
  BY Zenon, ZenonT(60) DEF TypeOK, Files
<1>1. /\ file'[n] = file[n]
      /\ \A q \in Procs \ {p} : /\ pc'[q] = pc[q] /\ todo'[q] = todo[q] /\ net'[q] = net[q]
                                /\ fd'[q] = fd[q] /\ app'[q] = app[q] /\ pos'[q] = pos[q]
      /\ n \in Committed(p)' => n \in Committed(p)
  <2>1. CASE CreateNew(p)
    <3>1. PICK m \in todo[p] :
            /\ net' = [net EXCEPT ![p] = m]
            /\ todo' = [todo EXCEPT ![p] = @ \ {m}]
            /\ IF file[m].exists
               THEN /\ Goto(p, "append")
                    /\ UNCHANGED <<file, fd, app, pos>>
               ELSE /\ Goto(p, "header")
                    /\ file' = [file EXCEPT ![m] = [gen |-> @.gen + 1, exists |-> TRUE, lines |-> <<>>]]
                    /\ fd' = [fd EXCEPT ![p] = file[m].gen + 1]
                    /\ app' = [app EXCEPT ![p] = FALSE]
                    /\ pos' = [pos EXCEPT ![p] = 1]
      BY Zenon, ZenonT(60), <2>1 DEF CreateNew
    <3>2. m # n /\ pc[p] = "create_new"
      BY <1>0, <2>1, <3>1, Zenon, ZenonT(60) DEF CreateNew
    <3>3. file'[n] = file[n]
      BY <1>0, <3>1, <3>2
    <3>4. /\ pc'[p] \in {"append", "header"} /\ todo'[p] = todo[p] \ {m} /\ net'[p] = m
          /\ \A q \in Procs \ {p} : /\ pc'[q] = pc[q] /\ todo'[q] = todo[q] /\ net'[q] = net[q]
                                    /\ fd'[q] = fd[q] /\ app'[q] = app[q] /\ pos'[q] = pos[q]
      BY <1>0, <3>1 DEF Goto
    <3>5. n \in Committed(p)' => n \in Committed(p)
      BY Zenon, ZenonT(60), <3>2, <3>4 DEF Committed, Starts, Settled, Committing
    <3> QED
      BY Zenon, ZenonT(60), <3>3, <3>4, <3>5
  <2>2. CASE OpenAppend(p)
    <3>1. /\ pc[p] = "append" /\ file' = file /\ todo' = todo /\ net' = net /\ pos' = pos
          /\ Goto(p, "entry") \/ Goto(p, "failed")
          /\ \A q \in Procs \ {p} : fd'[q] = fd[q] /\ app'[q] = app[q]
      BY <1>0, <2>2 DEF OpenAppend
    <3>2. pc'[p] \in {"entry", "failed"} /\ \A q \in Procs \ {p} : pc'[q] = pc[q]
      BY <1>0, <3>1 DEF Goto
    <3>3. n \in Committed(p)' => n \in Committed(p)
      BY Zenon, ZenonT(60), <3>1, <3>2 DEF Committed, Starts, Settled, Committing
    <3> QED
      BY Zenon, ZenonT(60), <3>1, <3>2, <3>3
  <2>3. CASE WriteHeader(p) \/ CommitEntry(p)
    <3>1. /\ \E line \in Line : Write(p, line)
          /\ pc[p] \in {"header", "entry"} /\ todo' = todo /\ net' = net /\ fd' = fd /\ app' = app
          /\ Goto(p, "entry") \/ Goto(p, "create_new")
          /\ \A q \in Procs \ {p} : pos'[q] = pos[q]
      BY <1>0, <2>3, LineTypes DEF WriteHeader, CommitEntry
    <3>2. file'[n] = file[n]
      BY <1>0, <3>1 DEF Write
    <3>3. pc'[p] \in {"entry", "create_new"} /\ \A q \in Procs \ {p} : pc'[q] = pc[q]
      BY <1>0, <3>1 DEF Goto
    <3>4. n \in Committed(p)' => n \in Committed(p)
      BY Zenon, ZenonT(60), <3>1, <3>3 DEF Committed, Starts, Settled, Committing
    <3> QED
      BY ZenonT(60), ZenonT(90), <3>1, <3>2, <3>3, <3>4
  <2> QED
    BY Zenon, ZenonT(60), <2>1, <2>2, <2>3
<1> QED
  BY Zenon, ZenonT(60), <1>1, QuietStep

\* The steps of delete_entry and modify_network_dns_servers, when n is not
\* among the networks they rewrite.
LEMMA RewriteSteps ==
    ASSUME TypeOK, NEW n \in Networks, SetupInv(n), NEW p \in Procs,
           ReadFile(p) \/ Truncate(p) \/ WriteBack(p) \/ DeleteEntryEnd(p) \/ ModifyEnd(p)
    PROVE  SetupInv(n)'
<1> USE DEF SetupInv
<1>0. /\ pc \in [Procs -> Labels] /\ net \in [Procs -> Networks] /\ todo \in [Procs -> SUBSET Networks]
      /\ fd \in [Procs -> Nat] /\ app \in [Procs -> BOOLEAN] /\ pos \in [Procs -> Nat]
      /\ file = [m \in Networks |-> file[m]]
  BY Zenon, ZenonT(60) DEF TypeOK, Files
<1>1. /\ file'[n] = file[n]
      /\ \A q \in Procs \ {p} : /\ pc'[q] = pc[q] /\ todo'[q] = todo[q] /\ net'[q] = net[q]
                                /\ fd'[q] = fd[q] /\ app'[q] = app[q] /\ pos'[q] = pos[q]
      /\ pc[p] \in {"read", "truncate", "write"}
      /\ pc'[p] \in {"read", "truncate", "write", "failed", "done", "get_pid"}
      /\ n \notin todo[p] /\ n \notin todo'[p] /\ (pc'[p] \in {"truncate", "write"} => net'[p] # n)
  <2>1. CASE ReadFile(p)
    <3>1. pc[p] = "read" /\ UNCHANGED <<file, fd, app, pos>> /\ n \notin todo[p]
      BY Zenon, ZenonT(60), <2>1 DEF ReadFile, NoRewrite
    <3>2. PICK m \in todo[p] :
            /\ net' = [net EXCEPT ![p] = m]
            /\ todo' = [todo EXCEPT ![p] = @ \ {m}]
            /\ \E l \in {"truncate", "failed", "done"} : Goto(p, l)
      BY Zenon, ZenonT(60), <2>1 DEF ReadFile
    <3> QED
      BY <1>0, <3>1, <3>2 DEF Goto
  <2>2. CASE Truncate(p)
    <3>1. pc[p] = "truncate" /\ net[p] # n /\ n \notin todo[p] /\ UNCHANGED <<todo, net>> /\ Goto(p, "write")
      BY <2>2, ZenonT(60), ZenonT(90) DEF Truncate, NoRewrite
    <3>2. file'[n] = file[n]
      BY <1>0, <2>2, <3>1, Zenon, ZenonT(60) DEF Truncate
    <3>3. \A q \in Procs \ {p} : fd'[q] = fd[q] /\ app'[q] = app[q] /\ pos'[q] = pos[q]
      BY <1>0, <2>2, Zenon, ZenonT(60) DEF Truncate
    <3> QED
      BY <1>0, <3>1, <3>2, <3>3 DEF Goto
  <2>3. CASE WriteBack(p)
    <3>1. pc[p] = "write" /\ net[p] # n /\ n \notin todo[p] /\ UNCHANGED <<pc, todo, net, fd, app>>
      BY Zenon, ZenonT(60), <2>3 DEF WriteBack, NoRewrite
    <3>2. file' = file \/ \E line : Write(p, line)
      BY <2>3, Zenon, ZenonT(60) DEF WriteBack
    <3>3. file'[n] = file[n]
      BY <1>0, <3>1, <3>2 DEF Write
    <3>4. \A q \in Procs \ {p} : pos'[q] = pos[q]
      BY <1>0, <2>3 DEF WriteBack
    <3> QED
      BY <3>1, <3>3, <3>4, Zenon, ZenonT(60)
  <2>4. CASE DeleteEntryEnd(p)
    <3>1. /\ pc[p] = "write" /\ net[p] # n /\ n \notin todo[p] /\ UNCHANGED <<todo, net, fd, app, pos>>
          /\ \E l \in {"failed", "read", "get_pid"} : Goto(p, l)
      BY <2>4 DEF DeleteEntryEnd, NoRewrite
    <3>2. file' = file \/ file' = [file EXCEPT ![net[p]].exists = FALSE, ![net[p]].lines = <<>>]
      BY <2>4 DEF DeleteEntryEnd
    <3>3. file'[n] = file[n]
      BY <1>0, <3>1, <3>2
    <3> QED
      BY <1>0, <3>1, <3>3 DEF Goto
  <2>5. CASE ModifyEnd(p)
    <3>1. /\ pc[p] = "write" /\ n \notin todo[p] /\ UNCHANGED <<file, todo, net, fd, app, pos>>
          /\ \E l \in {"get_pid", "done"} : Goto(p, l)
      BY Zenon, ZenonT(60), <2>5 DEF ModifyEnd, NoRewrite
    <3> QED
      BY <1>0, <3>1 DEF Goto
  <2> QED
    BY Zenon, ZenonT(60), <2>1, <2>2, <2>3, <2>4, <2>5
<1>2. NoRewrite(n)'
  BY Zenon, ZenonT(60), <1>1 DEF NoRewrite
<1>3. n \in Committed(p)' => n \in Committed(p)
  BY <1>1, Zenon, ZenonT(60) DEF Committed, Starts, Settled, Committing
<1>4. AtEnd(n)' /\ Kept(n)'
  BY <1>1, <1>3, QuietStep, Zenon, ZenonT(60)
<1> QED
  BY <1>2, <1>4

\* The inductive invariant holds before the first command.
LEMMA CommitInvInit == Init => CommitInv
<1> SUFFICES ASSUME Init PROVE CommitInv
  OBVIOUS
<1>1. \A n \in Networks : NoRewrite(n) /\ AtEnd(n)
  BY DEF Init, NoRewrite, AtEnd
<1>2. \A n \in Networks : Kept(n)
  BY Zenon, ZenonT(60) DEF Init, Kept, Committed, Settled
<1> QED
  BY <1>1, <1>2, TypeInit, LockedInit DEF CommitInv, SetupInv

\* No command becomes idle again.
LEMMA StartedStays ==
    ASSUME TypeOK, [Next]_vars, NEW n \in Networks, Untouched(n)'
    PROVE  Untouched(n)
<1> SUFFICES ASSUME NEW p \in Procs, pc[p] # "idle", n \in Cmd[p].nets PROVE Starts(p)
  BY DEF Untouched
<1>1. pc \in [Procs -> Labels]
  BY Zenon, ZenonT(60) DEF TypeOK
<1>2. pc'[p] # "idle"
  <2>1. ASSUME NEW q \in Procs, NEW l \in Labels \ {"idle"}, Goto(q, l) PROVE pc'[p] # "idle"
    BY Zenon, ZenonT(60), <1>1, <2>1 DEF Goto
  <2>2. ASSUME NEW q \in Procs, Begin(q) \/ LockExclusive(q) \/ CreateNew(q) \/ OpenAppend(q) \/ WriteHeader(q)
        PROVE  pc'[p] # "idle"
    <3>1. \E l \in {"lock", "read", "create_new", "append", "header", "entry", "failed"} : Goto(q, l)
      BY Zenon, ZenonT(60), <2>2 DEF Begin, LockExclusive, CreateNew, OpenAppend, WriteHeader
    <3> QED
      BY Zenon, ZenonT(60), <2>1, <3>1, LabelTypes
  <2>3. ASSUME NEW q \in Procs, CommitEntry(q) \/ Unlock(q) \/ GetPid(q) \/ Kill(q) \/ StartServer(q) \/ Abort(q)
        PROVE  pc'[p] # "idle"
    <3>1. \E l \in {"create_new", "get_pid", "kill", "start", "failed", "done", "aborted"} : Goto(q, l)
      BY <2>3 DEF CommitEntry, Unlock, GetPid, Kill, StartServer, Abort
    <3> QED
      BY <2>1, <3>1, LabelTypes, Zenon, ZenonT(60)
  <2>4. ASSUME NEW q \in Procs, ReadFile(q) \/ Truncate(q) \/ DeleteEntryEnd(q) \/ ModifyEnd(q)
        PROVE  pc'[p] # "idle"
    <3>1. \E l \in {"truncate", "failed", "done", "write", "read", "get_pid"} : Goto(q, l)
      BY <2>4 DEF ReadFile, Truncate, DeleteEntryEnd, ModifyEnd
    <3> QED
      BY <2>1, <3>1, LabelTypes, Zenon, ZenonT(60)
  <2>5. ASSUME NEW q \in Procs, WriteBack(q) PROVE pc'[p] # "idle"
    BY <2>5, Zenon, ZenonT(60) DEF WriteBack
  <2>6. CASE ServerReload \/ ServerCrash \/ UNCHANGED vars
    BY <2>6 DEF ServerReload, ServerCrash, vars, procVars
  <2> QED
    BY Zenon, ZenonT(60), <2>2, <2>3, <2>4, <2>5, <2>6 DEF Next, Step
<1> QED
  BY <1>2 DEF Untouched, Starts

\* Every step preserves the inductive invariant.
LEMMA CommitInvNext == CommitInv /\ [Next]_vars => CommitInv'
<1> SUFFICES ASSUME TypeOK, CommitLocked, [Next]_vars, NEW n \in Networks, Untouched(n)', SetupInv(n)
             PROVE  SetupInv(n)'
  BY TypeNext, LockedNext, StartedStays DEF CommitInv
<1> USE DEF SetupInv
<1>1. pc \in [Procs -> Labels] /\ todo \in [Procs -> SUBSET Networks] /\ net \in [Procs -> Networks]
  BY DEF TypeOK
<1>2. ASSUME NEW p \in Procs, NEW l \in Labels \ {"read", "truncate", "write"}, Goto(p, l),
             \A q \in Procs \ {p} : todo'[q] = todo[q] /\ net'[q] = net[q]
      PROVE  NoRewrite(n)'
  BY <1>1, <1>2, Zenon, ZenonT(60) DEF Goto, NoRewrite
<1>3. ASSUME NEW p \in Procs, CreateNew(p) \/ OpenAppend(p) \/ WriteHeader(p) \/ CommitEntry(p)
      PROVE  SetupInv(n)'
  <2>1. AtEnd(n)' /\ Kept(n)'
    BY <1>3, CommitSteps, OtherSteps
  <2>2. \E l \in {"append", "header", "entry", "failed", "create_new"} : Goto(p, l)
    BY Zenon, ZenonT(60), <1>3 DEF CreateNew, OpenAppend, WriteHeader, CommitEntry
  <2>3. \A q \in Procs \ {p} : todo'[q] = todo[q] /\ net'[q] = net[q]
    BY <1>1, <1>3, Zenon, ZenonT(60) DEF CreateNew, OpenAppend, WriteHeader, CommitEntry
  <2> QED
    BY <1>2, <2>1, <2>2, <2>3, LabelTypes, Zenon, ZenonT(60)
<1>4. ASSUME NEW p \in Procs, Begin(p) PROVE SetupInv(n)'
  <2>1. /\ pc[p] = "idle" /\ UNCHANGED <<file, net, fd, app, pos>>
        /\ pc' = [pc EXCEPT ![p] = IF Starts(p) THEN "lock" ELSE "read"]
        /\ todo' = [todo EXCEPT ![p] = Cmd[p].nets]
    BY Zenon, ZenonT(60), <1>4 DEF Begin, Goto
  <2>2. /\ pc'[p] = (IF Starts(p) THEN "lock" ELSE "read") /\ todo'[p] = Cmd[p].nets
        /\ \A q \in Procs \ {p} : pc'[q] = pc[q] /\ todo'[q] = todo[q]
    BY <1>1, <2>1, Zenon, ZenonT(60)
  <2>3. ~Starts(p) => n \notin Cmd[p].nets
    BY <2>2, Zenon, ZenonT(60) DEF Untouched, Starts
  <2>4. NoRewrite(n)'
    <3> SUFFICES ASSUME NEW q \in Procs, pc'[q] \in {"read", "truncate", "write"}
                 PROVE  n \notin todo'[q] /\ (pc'[q] # "read" => net'[q] # n)
      BY ZenonT(60), ZenonT(90) DEF NoRewrite
    <3>1. CASE q = p
      BY <2>2, <2>3, <3>1, Zenon, ZenonT(60)
    <3>2. CASE q # p
      <4>1. n \notin todo[q] /\ (pc[q] # "read" => net[q] # n)
        BY <2>2, <3>2, Zenon, ZenonT(60) DEF NoRewrite
      <4> QED
        BY <2>1, <2>2, <3>2, <4>1
    <3> QED
      BY <3>1, <3>2, Zenon, ZenonT(60)
  <2>5. n \in Committed(p)' => n \in Committed(p)
    BY <2>2, Zenon, ZenonT(60) DEF Committed, Starts, Settled, Committing
  <2>6. /\ \A q \in Procs \ {p} : /\ pc'[q] = pc[q] /\ todo'[q] = todo[q] /\ net'[q] = net[q]
                                  /\ fd'[q] = fd[q] /\ app'[q] = app[q] /\ pos'[q] = pos[q]
        /\ file'[n] = file[n] /\ pc'[p] \notin {"append", "header", "entry"}
    <3>1. file'[n] = file[n] /\ net' = net /\ fd' = fd /\ app' = app /\ pos' = pos
      BY <2>1, Zenon, ZenonT(60)
    <3>2. pc'[p] \notin {"append", "header", "entry"}
      BY <2>2
    <3> QED
      BY <2>2, <3>1, <3>2, Zenon, ZenonT(60)
  <2>7. AtEnd(n)' /\ Kept(n)'
    BY Zenon, ZenonT(60), <2>5, <2>6, QuietStep
  <2> QED
    BY <2>4, <2>7
<1>5. ASSUME NEW p \in Procs, NEW l \in Labels \ ({"read", "truncate", "write"} \cup {"append", "header", "entry"}),
             Goto(p, l), UNCHANGED <<file, todo, net, fd, app, pos>>,
             pc[p] \in {"create_new", "get_pid", "kill", "start", "lock"} \/ l = "aborted"
      PROVE  SetupInv(n)'
  <2>1. pc'[p] = l /\ \A q \in Procs \ {p} : pc'[q] = pc[q]
    BY <1>1, <1>5 DEF Goto
  <2>2. n \in Committed(p)' => n \in Committed(p)
    BY <1>5, <2>1, Zenon, ZenonT(60) DEF Committed, Starts, Settled, Committing
  <2>3. AtEnd(n)' /\ Kept(n)'
    BY <1>5, <2>1, <2>2, QuietStep, Zenon, ZenonT(60)
  <2> QED
    BY Zenon, ZenonT(60), <1>2, <1>5, <2>3
<1>6. ASSUME NEW p \in Procs,
             LockExclusive(p) \/ Unlock(p) \/ GetPid(p) \/ Kill(p) \/ StartServer(p) \/ Abort(p)
      PROVE  SetupInv(n)'
  <2>1. UNCHANGED <<file, todo, net, fd, app, pos>>
    BY <1>6 DEF LockExclusive, Unlock, GetPid, Kill, StartServer, Abort
  <2>2. \E l \in {"create_new", "get_pid", "kill", "start", "failed", "done", "aborted"} :
          Goto(p, l) /\ (pc[p] \in {"create_new", "get_pid", "kill", "start", "lock"} \/ l = "aborted")
    <3>1. CASE LockExclusive(p)
      BY <3>1 DEF LockExclusive
    <3>2. CASE Unlock(p)
      BY <3>2 DEF Unlock
    <3>3. CASE GetPid(p)
      BY <3>3 DEF GetPid
    <3>4. CASE Kill(p)
      BY <3>4 DEF Kill
    <3>5. CASE StartServer(p)
      BY <3>5 DEF StartServer
    <3>6. CASE Abort(p)
      BY <3>6 DEF Abort
    <3> QED
      BY <1>6, <3>1, <3>2, <3>3, <3>4, <3>5, <3>6
  <2> QED
    BY <1>5, <2>1, <2>2, LabelTypes
<1>7. ASSUME NEW p \in Procs, ReadFile(p) \/ Truncate(p) \/ WriteBack(p) \/ DeleteEntryEnd(p) \/ ModifyEnd(p)
      PROVE  SetupInv(n)'
  BY <1>7, RewriteSteps
<1>8. CASE ServerReload \/ ServerCrash \/ UNCHANGED vars
  <2>1. UNCHANGED <<file, pc, todo, net, fd, app, pos>>
    BY <1>8 DEF ServerReload, ServerCrash, vars, procVars
  <2> QED
    BY Zenon, ZenonT(60), <2>1 DEF NoRewrite, AtEnd, Kept, Committed, EntryIn, Entry, Starts
<1> QED
  BY <1>3, <1>4, <1>6, <1>7, <1>8 DEF Next, Step

\* CommitInv is an invariant of the specification.
LEMMA CommitInvHolds == Spec => []CommitInv
BY CommitInvInit, CommitInvNext, PTL DEF Spec

\* Until a teardown or an update of a network is started, every entry that
\* commit_entries has written for it stays in the file: for any number of setups,
\* any interleaving and failures, also when a command that rewrites other networks
\* is killed half way.
THEOREM NoCommitIsLost == Spec => []NoLostCommit
<1>1. CommitInv => NoLostCommit
  BY DEF CommitInv, SetupInv, NoLostCommit
<1> QED
  BY CommitInvHolds, <1>1, PTL

-----------------------------------------------------------------------------
\* The form of the files, when podman runs teardowns and updates one at a time and
\* nothing fails; setups may overlap, which is what the lock of commit_entries is for.

\* Only setups overlap, no kill and no I/O error: without the first, two rewrites
\* lose each other's lines, and without the second a file stays truncated.
Serial == Overlapping \subseteq {"setup"} /\ MaxFaults = 0

Busy(p) == pc[p] \notin Settled
FilePcs == {"append", "header", "entry", "truncate", "write"}
Rewriting == {"read", "truncate", "write"}

\* A teardown or an update runs alone.
Alone == \A p, q \in Procs : p # q /\ Busy(p) /\ Busy(q) => Starts(p) /\ Starts(q)

Placed(p) ==
    /\ pc[p] \in Committing \cup {"lock", "start"} => Starts(p)
    /\ pc[p] \in Rewriting => ~Starts(p)

\* A header, then entries.
Entries(s) == \A i \in DOMAIN s : \E c \in Containers : s[i] = Entry(c)
Well(s) ==
    /\ s # <<>> /\ s[1].first = Gateways
    /\ \A i \in DOMAIN s : i # 1 => \E c \in Containers : s[i] = Entry(c)

\* A file that is not being written is well formed, and has an entry.
Formed(n) ==
    /\ file[n].exists /\ (\A p \in Procs : pc[p] \in {"header", "write"} => net[p] # n) => Well(file[n].lines)
    /\ file[n].exists /\ (\A p \in Procs : pc[p] \in {"header", "entry", "write"} => net[p] # n) => Len(file[n].lines) > 1

\* What a rewriter has written and what it has still to write.
Halves(p) ==
    LET s == file[net[p]].lines IN
    \/ s = <<>> /\ Well(buf[p]) /\ Len(buf[p]) > 1
    \/ Well(s) /\ Entries(buf[p]) /\ (Cmd[p].kind = "update" => Len(s) + Len(buf[p]) > 1)

\* The descriptor of an invocation that writes, and where its next write goes.
AtWork(p) ==
    LET f == file[net[p]] IN
    /\ pc[p] \in FilePcs => f.exists
    /\ pc[p] \in {"header", "entry", "write"} => fd[p] = f.gen
    /\ pc[p] = "header" => ~app[p] /\ pos[p] = 1 /\ f.lines = <<>>
    /\ pc[p] = "entry" => app[p] \/ (pos[p] = 2 /\ Len(f.lines) = 1)
    /\ pc[p] = "truncate" => Well(buf[p]) /\ Len(buf[p]) > 1
    /\ pc[p] = "write" => ~app[p] /\ pos[p] = Len(f.lines) + 1 /\ Halves(p)

FilesInv ==
    /\ TypeOK /\ CommitLocked /\ Alone
    /\ \A p \in Procs : Placed(p) /\ AtWork(p)
    /\ \A n \in Networks : Formed(n)

-----------------------------------------------------------------------------
\* Lines.

\* An entry is a line that starts with the container, so it is no header.
LEMMA EntryFacts ==
    ASSUME NEW c \in Containers
    PROVE  Entry(c) \in Line /\ Entry(c).first = c /\ Entry(c).first # Gateways
BY DataAssumption DEF Entry, Line

\* A header on an empty file, and an entry on a well-formed one.
LEMMA WellGrows ==
    ASSUME NEW s \in Seq(Line), NEW t \in Seq(Line), NEW line,
           Len(t) = Len(s) + 1, t[Len(s) + 1] = line, \A k \in 1 .. Len(s) : t[k] = s[k],
           (s = <<>> /\ line.first = Gateways) \/ (Well(s) /\ \E c \in Containers : line = Entry(c))
    PROVE  Well(t)
<1>1. /\ Len(s) \in Nat /\ Len(t) \in Nat /\ DOMAIN t = 1 .. Len(t) /\ DOMAIN s = 1 .. Len(s)
      /\ t # <<>>
  OBVIOUS
<1>2. CASE s = <<>> /\ line.first = Gateways
  <2>1. Len(s) = 0 /\ Len(t) = 1 /\ t[1] = line
    BY <1>2
  <2>2. DOMAIN t = 1 .. 1
    BY <1>1, <2>1
  <2> QED
    BY <1>1, <1>2, <2>1, <2>2 DEF Well
<1>3. CASE Well(s) /\ \E c \in Containers : line = Entry(c)
  <2>1. Len(s) > 0 /\ s[1].first = Gateways
    BY <1>1, <1>3 DEF Well
  <2>2. t[1] = s[1]
    BY <1>1, <2>1
  <2>3. ASSUME NEW i \in DOMAIN t, i # 1 PROVE \E c \in Containers : t[i] = Entry(c)
    <3>1. CASE i = Len(s) + 1
      BY <1>3, <3>1
    <3>2. CASE i # Len(s) + 1
      <4>1. i \in 1 .. Len(s) /\ i \in DOMAIN s
        BY <1>1, <2>3, <3>2
      <4> QED
        BY <1>3, <2>3, <4>1 DEF Well
    <3> QED
      BY <3>1, <3>2
  <2> QED
    BY <1>1, <2>1, <2>2, <2>3 DEF Well
<1> QED
  BY <1>2, <1>3

\* What the lines after the first one are.
LEMMA Tails ==
    ASSUME NEW s \in Seq(Line), s # <<>>
    PROVE  /\ Tail(s) \in Seq(Line) /\ Head(s) \in Line /\ Len(Tail(s)) = Len(s) - 1 /\ Len(s) > 0
           /\ Well(s) => Head(s).first = Gateways /\ Entries(Tail(s))
           /\ Entries(s) => (\E c \in Containers : Head(s) = Entry(c)) /\ Entries(Tail(s))
<1> DEFINE t == Tail(s)
<1>1. /\ t \in Seq(Line) /\ Head(s) \in Line /\ Len(t) = Len(s) - 1 /\ Len(s) > 0 /\ Head(s) = s[1]
      /\ \A i \in 1 .. Len(t) : t[i] = s[i + 1] /\ i + 1 \in 1 .. Len(s) /\ i + 1 # 1
  OBVIOUS
<1>2. DOMAIN t = 1 .. Len(t) /\ DOMAIN s = 1 .. Len(s) /\ 1 \in 1 .. Len(s)
  BY <1>1
<1> HIDE DEF t
<1>3. Well(s) => Head(s).first = Gateways /\ Entries(t)
  BY Zenon, ZenonT(60), <1>1, <1>2 DEF Well, Entries
<1>4. Entries(s) => (\E c \in Containers : Head(s) = Entry(c)) /\ Entries(t)
  BY Zenon, ZenonT(60), <1>1, <1>2 DEF Entries
<1> QED
  BY <1>1, <1>3, <1>4 DEF t

-----------------------------------------------------------------------------
\* Whoever commits or rewrites is the only one at a file.
LEMMA Exclusive ==
    ASSUME FilesInv, NEW p \in Procs, pc[p] \in Committing \cup Rewriting
    PROVE  \A q \in Procs \ {p} : pc[q] \notin FilePcs /\ (pc[p] \in Rewriting => ~Busy(q))
<1> TAKE q \in Procs \ {p}
<1>1. Busy(p) /\ Placed(p) /\ Placed(q) /\ Alone
  BY DEF Busy, Committing, Rewriting, Settled, FilesInv
<1>2. CASE pc[p] \in Rewriting
  <2>1. ~Busy(q)
    BY <1>1, <1>2 DEF Alone, Placed
  <2> QED
    BY <2>1 DEF Busy, Settled, FilePcs
<1>3. CASE pc[p] \in Committing
  <2>1. pc[q] \notin Committing
    BY <1>3 DEF FilesInv, CommitLocked
  <2>2. pc[q] \notin Rewriting
    <3>1. ASSUME pc[q] \in Rewriting PROVE FALSE
      <4>1. Busy(q) /\ ~Starts(q)
        BY <1>1, <3>1 DEF Busy, Rewriting, Settled, Placed
      <4> QED
        BY <1>1, <4>1 DEF Alone
    <3> QED
      BY <3>1
  <2>3. pc[p] \notin Rewriting
    BY <1>3 DEF Committing, Rewriting
  <2> QED
    BY <2>1, <2>2, <2>3 DEF FilePcs, Committing, Rewriting
<1> QED
  BY <1>2, <1>3

\* A step of a running invocation starts no other.
LEMMA AloneStays ==
    ASSUME Alone, NEW p \in Procs, Busy(p), \A q \in Procs \ {p} : pc'[q] = pc[q]
    PROVE  Alone'
<1>1. \A q \in Procs : Busy(q)' => Busy(q)
  BY DEF Busy
<1> QED
  BY <1>1 DEF Alone, Starts

\* A step of p on its file: only p's own part, and that file, are in question.
LEMMA FileStep ==
    ASSUME FilesInv, NEW p \in Procs, pc[p] \in Committing \cup Rewriting, TypeOK', CommitLocked',
           \A q \in Procs \ {p} : pc'[q] = pc[q] /\ net'[q] = net[q],
           NEW m \in Networks, net'[p] = m, \A n \in Networks \ {m} : file'[n] = file[n],
           pc[p] \in {"header", "entry", "write"} => net[p] = m,
           Placed(p)', AtWork(p)', Formed(m)'
    PROVE  FilesInv'
<1>1. \A q \in Procs \ {p} : pc[q] \notin FilePcs /\ pc'[q] \notin FilePcs
  BY Exclusive
<1>2. Alone'
  <2>1. Busy(p)
    BY Zenon, ZenonT(60) DEF Busy, Committing, Rewriting, Settled
  <2> QED
    BY <2>1, AloneStays, Zenon, ZenonT(60) DEF FilesInv
<1>3. ASSUME NEW q \in Procs PROVE Placed(q)' /\ AtWork(q)'
  <2>1. CASE q = p
    BY <2>1
  <2>2. CASE q # p
    <3>1. Placed(q) /\ pc'[q] = pc[q]
      BY <2>2, Zenon, ZenonT(60) DEF FilesInv
    <3>2. Placed(q)'
      BY <3>1, Zenon, ZenonT(60) DEF Placed, Starts
    <3>3. AtWork(q)'
      BY <1>1, <2>2, Zenon, ZenonT(60) DEF AtWork, FilePcs
    <3> QED
      BY <3>2, <3>3
  <2> QED
    BY <2>1, <2>2
<1>4. ASSUME NEW n \in Networks PROVE Formed(n)'
  <2>1. CASE n = m
    BY <2>1
  <2>2. CASE n # m
    <3>1. Formed(n) /\ file'[n] = file[n]
      BY <2>2, Zenon, ZenonT(60) DEF FilesInv
    <3>2. \A q \in Procs : pc[q] \in {"header", "entry", "write"} => net[q] # n
      BY <1>1, <2>2 DEF FilePcs
    <3> QED
      BY <3>1, <3>2, Zenon, ZenonT(60) DEF Formed
  <2> QED
    BY <2>1, <2>2, Zenon, ZenonT(60)
<1> QED
  BY <1>2, <1>3, <1>4, ZenonT(60), ZenonT(90) DEF FilesInv

\* A step of p that is not about a file.
LEMMA OffFile ==
    ASSUME FilesInv, NEW p \in Procs, TypeOK', CommitLocked', Alone', Placed(p)',
           \A q \in Procs \ {p} : pc'[q] = pc[q],
           pc[p] \notin {"header", "entry", "write"}, pc'[p] \notin FilePcs,
           UNCHANGED <<file, net, fd, app, pos, buf>>
    PROVE  FilesInv'
<1>1. ASSUME NEW q \in Procs PROVE Placed(q)' /\ AtWork(q)'
  <2>1. CASE q = p
    BY <2>1, Zenon, ZenonT(60) DEF AtWork, FilePcs
  <2>2. CASE q # p
    <3>1. Placed(q) /\ AtWork(q) /\ pc'[q] = pc[q]
      BY <2>2, Zenon, ZenonT(60) DEF FilesInv
    <3>2. Placed(q)'
      BY <3>1, Zenon, ZenonT(60) DEF Placed, Starts
    <3>3. AtWork(q)'
      BY ZenonT(60), ZenonT(90), <3>1 DEF AtWork, Halves, Well, Entries, Entry
    <3> QED
      BY <3>2, <3>3
  <2> QED
    BY <2>1, <2>2
<1>2. ASSUME NEW n \in Networks PROVE Formed(n)'
  <2>1. Formed(n)
    BY Zenon, ZenonT(60) DEF FilesInv
  <2>2. \A q \in Procs : pc[q] \in {"header", "entry", "write"} <=> pc'[q] \in {"header", "entry", "write"}
    BY DEF FilePcs
  <2>3. \A q \in Procs : pc[q] \in {"header", "write"} => pc'[q] \in {"header", "write"}
    OBVIOUS
  <2> QED
    BY <2>1, <2>2, <2>3, Zenon, ZenonT(60) DEF Formed, Well, Entry
<1> QED
  BY <1>1, <1>2, Zenon, ZenonT(60) DEF FilesInv

-----------------------------------------------------------------------------
\* The steps that touch no file.

\* podman starts a command: with no other running, or among setups only.
LEMMA BeginAlone ==
    ASSUME Serial, FilesInv, NEW p \in Procs, Begin(p)
    PROVE  Alone'
<1>1. pc \in [Procs -> Labels]
  BY DEF FilesInv, TypeOK
<1>2. \A q \in Procs \ {p} : pc'[q] = pc[q]
  BY <1>1 DEF Begin, Goto
<1>3. CASE \A q \in Procs : pc[q] \in Settled
  BY <1>2, <1>3 DEF Alone, Busy
<1>4. CASE \A q \in {r \in Procs : pc[r] \notin Settled} \cup {p} : Cmd[q].kind \in Overlapping
  <2>1. \A q \in Procs : Busy(q)' => Starts(q)
    BY Zenon, ZenonT(60), <1>2, <1>4 DEF Busy, Serial, Starts
  <2>2. \A q \in Procs : Starts(q) <=> Starts(q)'
    BY DEF Starts
  <2> QED
    BY <2>1, <2>2 DEF Alone
<1> QED
  BY <1>3, <1>4 DEF Begin

\* A command that begins finds the files as they are; a teardown or an update
\* begins when nothing else is running.
LEMMA BeginFiles ==
    ASSUME Serial, FilesInv, TypeOK', CommitLocked', NEW p \in Procs, Begin(p)
    PROVE  FilesInv'
<1>1. pc \in [Procs -> Labels]
  BY DEF FilesInv, TypeOK
<1>2. /\ \A q \in Procs \ {p} : pc'[q] = pc[q]
      /\ pc[p] = "idle" /\ pc'[p] = IF Starts(p) THEN "lock" ELSE "read"
      /\ UNCHANGED <<file, net, fd, app, pos, buf>>
  BY <1>1 DEF Begin, Goto
<1>3. Placed(p)'
  BY <1>2 DEF Placed, Starts, Committing, Rewriting
<1>4. pc[p] \notin {"header", "entry", "write"} /\ pc'[p] \notin FilePcs
  BY <1>2 DEF FilePcs
<1> QED
  BY <1>2, <1>3, <1>4, BeginAlone, OffFile, ZenonT(60), ZenonT(90)

\* Taking and releasing the lock, and the three steps of notify.
LEMMA OffFileSteps ==
    ASSUME FilesInv, TypeOK', CommitLocked', NEW p \in Procs,
           LockExclusive(p) \/ Unlock(p) \/ GetPid(p) \/ Kill(p) \/ StartServer(p)
    PROVE  FilesInv'
<1>1. pc \in [Procs -> Labels] /\ Placed(p) /\ Alone
  BY DEF FilesInv, TypeOK
<1>2. UNCHANGED <<file, net, fd, app, pos, buf>>
  BY DEF LockExclusive, Unlock, GetPid, Kill, StartServer
<1>3. /\ pc[p] \in {"lock", "create_new", "get_pid", "kill", "start"}
      /\ \E l \in {"create_new", "get_pid", "kill", "start", "failed", "done"} :
            /\ pc' = [pc EXCEPT ![p] = l]
            /\ l \in {"create_new", "start"} => Starts(p)
  <2>1. CASE LockExclusive(p)
    BY <1>1, <2>1 DEF LockExclusive, Goto, Placed
  <2>2. CASE Unlock(p)
    BY <2>2, Zenon, ZenonT(60) DEF Unlock, Goto
  <2>3. CASE GetPid(p)
    BY Zenon, ZenonT(60), <2>3 DEF GetPid, Goto
  <2>4. CASE Kill(p)
    BY <2>4 DEF Kill, Goto
  <2>5. CASE StartServer(p)
    BY <2>5 DEF StartServer, Goto
  <2> QED
    BY <2>1, <2>2, <2>3, <2>4, <2>5
<1>4. PICK l \in {"create_new", "get_pid", "kill", "start", "failed", "done"} :
            /\ pc' = [pc EXCEPT ![p] = l]
            /\ l \in {"create_new", "start"} => Starts(p)
  BY Zenon, ZenonT(60), <1>3
<1>5. (\A q \in Procs \ {p} : pc'[q] = pc[q]) /\ pc'[p] = l
  BY <1>1, <1>4
<1>6. Placed(p)'
  BY <1>4, <1>5, Zenon, ZenonT(60) DEF Placed, Starts, Committing, Rewriting
<1>7. pc[p] \notin {"header", "entry", "write"} /\ pc'[p] \notin FilePcs /\ Busy(p)
  BY <1>3, <1>4, <1>5 DEF FilePcs, Busy, Settled
<1>8. Alone'
  BY <1>1, <1>5, <1>7, AloneStays
<1> QED
  BY <1>2, <1>5, <1>6, <1>7, <1>8, OffFile, ZenonT(60), ZenonT(90)

-----------------------------------------------------------------------------
\* commit_entries on a file.

\* What a step that goes on in one invocation leaves of the others.
LEMMA GoesOn ==
    ASSUME TypeOK, NEW p \in Procs, NEW l, pc' = [pc EXCEPT ![p] = l]
    PROVE  pc'[p] = l /\ \A q \in Procs \ {p} : pc'[q] = pc[q]
BY DEF TypeOK

\* A file that nobody writes is well formed, and so is one whose entry is due.
LEMMA AtRest ==
    ASSUME FilesInv, NEW p \in Procs, pc[p] \in Committing \cup Rewriting, NEW m \in Networks, file[m].exists
    PROVE  /\ pc[p] \notin {"header", "write"} => Well(file[m].lines)
           /\ pc[p] \notin {"header", "entry", "write"} => Len(file[m].lines) > 1
<1>1. \A q \in Procs \ {p} : pc[q] \notin FilePcs
  BY Exclusive
<1>2. Formed(m)
  BY DEF FilesInv
<1> QED
  BY <1>1, <1>2 DEF Formed, FilePcs

\* create_new: only the invocation that makes the file will write its header.
LEMMA CreateNewFiles ==
    ASSUME FilesInv, TypeOK', CommitLocked', NEW p \in Procs, CreateNew(p)
    PROVE  FilesInv'
<1>1. TypeOK /\ Placed(p) /\ pc[p] = "create_new"
  BY Zenon, ZenonT(60) DEF FilesInv, CreateNew
<1>2. PICK m \in todo[p] :
        /\ net' = [net EXCEPT ![p] = m]
        /\ IF file[m].exists
           THEN Goto(p, "append") /\ UNCHANGED <<file, fd, app, pos>>
           ELSE /\ Goto(p, "header")
                /\ file' = [file EXCEPT ![m] = [gen |-> @.gen + 1, exists |-> TRUE, lines |-> <<>>]]
                /\ fd' = [fd EXCEPT ![p] = file[m].gen + 1]
                /\ app' = [app EXCEPT ![p] = FALSE]
                /\ pos' = [pos EXCEPT ![p] = 1]
  BY Zenon, ZenonT(60) DEF CreateNew
<1>3. m \in Networks /\ net'[p] = m /\ \A q \in Procs \ {p} : net'[q] = net[q]
  BY <1>1, <1>2, Zenon, ZenonT(60) DEF TypeOK
<1>4. pc[p] \in Committing \cup Rewriting /\ Starts(p) /\ pc[p] \notin {"header", "entry", "write"}
  BY <1>1 DEF Committing, Placed
<1>5. CASE file[m].exists
  <2>1. pc' = [pc EXCEPT ![p] = "append"] /\ file' = file
    BY <1>2, <1>5, Zenon, ZenonT(60) DEF Goto
  <2>2. pc'[p] = "append" /\ \A q \in Procs \ {p} : pc'[q] = pc[q]
    BY Zenon, ZenonT(60), <1>1, <2>1, GoesOn
  <2>3. Well(file[m].lines) /\ Len(file[m].lines) > 1
    BY <1>3, <1>4, <1>5, AtRest
  <2>4. Formed(m)'
    BY <2>1, <2>3, Zenon, ZenonT(60) DEF Formed, Well, Entry
  <2>5. Placed(p)'
    BY <1>4, <2>2, Zenon, ZenonT(60) DEF Placed, Starts, Rewriting
  <2>6. AtWork(p)'
    BY <1>3, <1>5, <2>1, <2>2, Zenon, ZenonT(60) DEF AtWork
  <2> QED
    BY <1>3, <1>4, <2>1, <2>2, <2>4, <2>5, <2>6, FileStep, Zenon, ZenonT(60)
<1>6. CASE ~file[m].exists
  <2>1. /\ pc' = [pc EXCEPT ![p] = "header"]
        /\ file' = [file EXCEPT ![m] = [gen |-> file[m].gen + 1, exists |-> TRUE, lines |-> <<>>]]
        /\ fd' = [fd EXCEPT ![p] = file[m].gen + 1]
        /\ app' = [app EXCEPT ![p] = FALSE]
        /\ pos' = [pos EXCEPT ![p] = 1]
    BY <1>2, <1>6, Zenon, ZenonT(60) DEF Goto
  <2>2. pc'[p] = "header" /\ \A q \in Procs \ {p} : pc'[q] = pc[q]
    BY Zenon, ZenonT(60), <1>1, <2>1, GoesOn
  <2>3. /\ file'[m] = [gen |-> file[m].gen + 1, exists |-> TRUE, lines |-> <<>>]
        /\ \A n \in Networks \ {m} : file'[n] = file[n]
    BY <1>1, <1>3, <2>1, Zenon, ZenonT(60) DEF TypeOK, Files
  <2>4. fd'[p] = file[m].gen + 1 /\ ~app'[p] /\ pos'[p] = 1
    BY <1>1, <2>1, Zenon, ZenonT(60) DEF TypeOK
  <2>5. Formed(m)'
    BY <1>3, <2>2, Zenon, ZenonT(60) DEF Formed
  <2>6. Placed(p)'
    BY <1>4, <2>2, Zenon, ZenonT(60) DEF Placed, Starts, Rewriting
  <2>7. AtWork(p)'
    <3>1. file'[m].exists /\ file'[m].gen = file[m].gen + 1 /\ file'[m].lines = <<>>
      BY <2>3
    <3> QED
      BY <1>3, <2>2, <2>4, <3>1, ZenonT(60), ZenonT(90) DEF AtWork
  <2> QED
    BY <1>3, <1>4, <2>2, <2>3, <2>5, <2>6, <2>7, FileStep, Zenon, ZenonT(60)
<1> QED
  BY <1>5, <1>6

\* The file another has made is opened to append, header or not.
LEMMA OpenAppendFiles ==
    ASSUME FilesInv, TypeOK', CommitLocked', NEW p \in Procs, OpenAppend(p)
    PROVE  FilesInv'
<1>1. TypeOK /\ Placed(p) /\ AtWork(p) /\ pc[p] = "append" /\ UNCHANGED <<file, net>>
  BY Zenon, ZenonT(60) DEF FilesInv, OpenAppend
<1>2. PICK m \in Networks : m = net[p]
  BY <1>1 DEF TypeOK
<1>3. file[m].exists
  BY <1>1, <1>2, Zenon, ZenonT(60) DEF AtWork, FilePcs
<1>4. /\ pc' = [pc EXCEPT ![p] = "entry"]
      /\ fd' = [fd EXCEPT ![p] = file[m].gen]
      /\ app' = [app EXCEPT ![p] = TRUE]
  BY <1>2, <1>3, Zenon, ZenonT(60) DEF OpenAppend, Goto
<1>5. pc'[p] = "entry" /\ \A q \in Procs \ {p} : pc'[q] = pc[q]
  BY Zenon, ZenonT(60), <1>1, <1>4, GoesOn
<1>6. fd'[p] = file[m].gen /\ app'[p]
  BY <1>1, <1>4, Zenon, ZenonT(60) DEF TypeOK
<1>7. pc[p] \in Committing \cup Rewriting /\ Starts(p) /\ pc[p] \notin {"header", "write"}
  BY <1>1 DEF Committing, Placed
<1>8. Well(file[m].lines)
  BY <1>3, <1>7, AtRest
<1>9. Formed(m)'
  BY <1>1, <1>2, <1>5, <1>8, Zenon, ZenonT(60) DEF Formed, Well, Entry
<1>10. Placed(p)'
  BY <1>5, <1>7, Zenon, ZenonT(60) DEF Placed, Starts, Rewriting
<1>11. AtWork(p)'
  BY <1>1, <1>2, <1>3, <1>5, <1>6, Zenon, ZenonT(60) DEF AtWork
<1> QED
  BY <1>1, <1>2, <1>5, <1>7, <1>9, <1>10, <1>11, FileStep, Zenon, ZenonT(60)

\* The header is the first line of the file that was made for it.
LEMMA WriteHeaderFiles ==
    ASSUME FilesInv, TypeOK', CommitLocked', NEW p \in Procs, WriteHeader(p)
    PROVE  FilesInv'
<1>1. /\ TypeOK /\ Placed(p) /\ AtWork(p) /\ pc[p] = "header" /\ Write(p, Header(Cmd[p].dns))
      /\ pc' = [pc EXCEPT ![p] = "entry"] /\ pos' = [pos EXCEPT ![p] = 2] /\ UNCHANGED <<net, fd, app>>
  BY DEF FilesInv, WriteHeader, Goto
<1>2. PICK m \in Networks : m = net[p]
  BY <1>1, Zenon, ZenonT(60) DEF TypeOK
<1>3. PICK line \in Line : line = Header(Cmd[p].dns)
  BY LineTypes
<1>4. file[m].exists /\ fd[p] = file[m].gen /\ pos[p] = 1 /\ file[m].lines = <<>>
  BY <1>1, <1>2, Zenon, ZenonT(60) DEF AtWork, FilePcs
<1>5. /\ file[net[p]].exists /\ fd[p] = file[net[p]].gen /\ Write(p, line)
      /\ ~app[p] => pos[p] = Len(file[net[p]].lines) + 1
  <2>1. pos[p] = Len(file[m].lines) + 1
    BY <1>4
  <2> QED
    BY <1>1, <1>2, <1>3, <1>4, <2>1, ZenonT(60), ZenonT(90)
<1>6. /\ \A n \in Networks \ {m} : file'[n] = file[n]
      /\ file'[m].exists /\ file'[m].gen = file[m].gen
      /\ Len(file'[m].lines) = Len(file[m].lines) + 1
      /\ file'[m].lines[Len(file[m].lines) + 1] = line
      /\ \A k \in 1 .. Len(file[m].lines) : file'[m].lines[k] = file[m].lines[k]
  BY Zenon, ZenonT(60), <1>1, <1>2, <1>5, WriteGrows
<1>7. pc'[p] = "entry" /\ \A q \in Procs \ {p} : pc'[q] = pc[q]
  BY Zenon, ZenonT(60), <1>1, GoesOn
<1>8. pos'[p] = 2 /\ fd'[p] = fd[p] /\ net' = net
  BY <1>1, Zenon, ZenonT(60) DEF TypeOK
<1>9. pc[p] \in Committing \cup Rewriting /\ Starts(p)
  BY <1>1 DEF Committing, Placed
<1>10. file[m].lines \in Seq(Line) /\ file'[m].lines \in Seq(Line)
  BY Zenon, ZenonT(60), <1>1 DEF TypeOK, Files
<1>11. line.first = Gateways
  BY <1>3 DEF Header
<1>12. Well(file'[m].lines)
  BY ZenonT(60), ZenonT(90), <1>4, <1>6, <1>10, <1>11, WellGrows
<1>13. Formed(m)'
  <2>1. Well(file[m].lines)'
    BY <1>12, Zenon, ZenonT(60) DEF Well, Entry
  <2>2. pc'[p] \in {"header", "entry", "write"} /\ net'[p] = m
    BY <1>2, <1>7, <1>8, ZenonT(60), ZenonT(90)
  <2> QED
    BY <2>1, <2>2 DEF Formed
<1>14. Placed(p)'
  BY <1>7, <1>9 DEF Placed, Starts, Rewriting
<1>15. Len(file'[m].lines) = 1
  <2>1. file[m].lines = <<>> /\ Len(file'[m].lines) = Len(file[m].lines) + 1
    BY <1>4, <1>6, Zenon, ZenonT(60)
  <2> QED
    BY <2>1
<1>16. AtWork(p)'
  BY <1>2, <1>4, <1>6, <1>7, <1>8, <1>15, Zenon, ZenonT(60) DEF AtWork
<1> QED
  BY <1>2, <1>6, <1>7, <1>8, <1>9, <1>13, <1>14, <1>16, FileStep, ZenonT(60), ZenonT(90)

\* An entry is appended under the lock, so after a header.
LEMMA CommitEntryFiles ==
    ASSUME FilesInv, TypeOK', CommitLocked', NEW p \in Procs, CommitEntry(p)
    PROVE  FilesInv'
<1>1. /\ TypeOK /\ Placed(p) /\ AtWork(p) /\ pc[p] = "entry" /\ Write(p, Entry(Cmd[p].ctr))
      /\ pc' = [pc EXCEPT ![p] = "create_new"] /\ UNCHANGED net
  BY DEF FilesInv, CommitEntry, Goto
<1>2. PICK m \in Networks : m = net[p]
  BY Zenon, ZenonT(60), <1>1 DEF TypeOK
<1>3. PICK line \in Line : line = Entry(Cmd[p].ctr)
  BY LineTypes
<1>4. file[m].exists /\ fd[p] = file[m].gen /\ (app[p] \/ (pos[p] = 2 /\ Len(file[m].lines) = 1))
  BY <1>1, <1>2, Zenon, ZenonT(60) DEF AtWork, FilePcs
<1>5. /\ file[net[p]].exists /\ fd[p] = file[net[p]].gen /\ Write(p, line)
      /\ ~app[p] => pos[p] = Len(file[net[p]].lines) + 1
  <2>1. pos[p] = 2 /\ Len(file[m].lines) = 1 => pos[p] = Len(file[m].lines) + 1
    OBVIOUS
  <2>2. ~app[p] => pos[p] = Len(file[m].lines) + 1
    BY <1>4, <2>1, Zenon, ZenonT(60)
  <2> QED
    BY <1>1, <1>2, <1>3, <1>4, <2>2, Zenon, ZenonT(60)
<1>6. /\ \A n \in Networks \ {m} : file'[n] = file[n]
      /\ file'[m].exists
      /\ Len(file'[m].lines) = Len(file[m].lines) + 1
      /\ file'[m].lines[Len(file[m].lines) + 1] = line
      /\ \A k \in 1 .. Len(file[m].lines) : file'[m].lines[k] = file[m].lines[k]
  BY Zenon, ZenonT(60), <1>1, <1>2, <1>5, WriteGrows
<1>7. pc'[p] = "create_new" /\ \A q \in Procs \ {p} : pc'[q] = pc[q]
  BY Zenon, ZenonT(60), <1>1, GoesOn
<1>8. pc[p] \in Committing \cup Rewriting /\ Starts(p) /\ pc[p] \notin {"header", "write"}
  BY <1>1 DEF Committing, Placed
<1>9. file[m].lines \in Seq(Line) /\ file'[m].lines \in Seq(Line)
  BY ZenonT(60), ZenonT(90), <1>1 DEF TypeOK, Files
<1>10. Well(file[m].lines)
  BY <1>4, <1>8, AtRest
<1>11. \E c \in Containers : line = Entry(c)
  BY <1>3, CmdAssumption
<1>12. Well(file'[m].lines)
  BY <1>6, <1>9, <1>10, <1>11, WellGrows, ZenonT(60), ZenonT(90)
<1>13. Len(file'[m].lines) > 1
  <2>1. file[m].lines # <<>>
    BY <1>10, Zenon, ZenonT(60) DEF Well
  <2> QED
    BY <1>6, <1>9, <2>1
<1>14. Formed(m)'
  BY <1>12, <1>13, Zenon, ZenonT(60) DEF Formed, Well, Entry
<1>15. Placed(p)'
  BY <1>7, <1>8, Zenon, ZenonT(60) DEF Placed, Starts, Rewriting
<1>16. AtWork(p)'
  BY <1>7, Zenon, ZenonT(60) DEF AtWork, FilePcs
<1> QED
  BY <1>1, <1>2, <1>6, <1>7, <1>8, <1>14, <1>15, <1>16, FileStep, ZenonT(60), ZenonT(90)

-----------------------------------------------------------------------------
\* delete_entry and modify_network_dns_servers.

\* What a teardown or an update reads is a well-formed file.
LEMMA ReadFileFiles ==
    ASSUME FilesInv, TypeOK', CommitLocked', NEW p \in Procs, ReadFile(p)
    PROVE  FilesInv'
<1>1. TypeOK /\ Placed(p) /\ pc[p] = "read" /\ UNCHANGED file
  BY Zenon, ZenonT(60) DEF FilesInv, ReadFile
<1>2. PICK m \in todo[p] :
        /\ net' = [net EXCEPT ![p] = m]
        /\ IF file[m].exists
           THEN Goto(p, "truncate") /\ buf' = [buf EXCEPT ![p] = file[m].lines]
           ELSE Goto(p, IF Cmd[p].kind = "teardown" THEN "failed" ELSE "done")
  BY Zenon, ZenonT(60) DEF ReadFile
<1>3. m \in Networks /\ net'[p] = m /\ \A q \in Procs \ {p} : net'[q] = net[q]
  BY <1>1, <1>2, Zenon, ZenonT(60) DEF TypeOK
<1>4. pc[p] \in Committing \cup Rewriting /\ ~Starts(p) /\ pc[p] \notin {"header", "entry", "write"}
  BY <1>1, ZenonT(60), ZenonT(90) DEF Rewriting, Placed
<1>5. PICK l : /\ pc' = [pc EXCEPT ![p] = l]
               /\ l = IF file[m].exists THEN "truncate" ELSE IF Cmd[p].kind = "teardown" THEN "failed" ELSE "done"
  BY <1>2, Zenon, ZenonT(60) DEF Goto
<1>6. pc'[p] = l /\ \A q \in Procs \ {p} : pc'[q] = pc[q]
  BY ZenonT(60), ZenonT(90), <1>1, <1>5, GoesOn
<1>7. Placed(p)'
  BY <1>4, <1>5, <1>6 DEF Placed, Starts, Committing
<1>8. Formed(m)' /\ AtWork(p)'
  <2>1. CASE file[m].exists
    <3>1. buf'[p] = file[m].lines /\ l = "truncate"
      BY <1>1, <1>2, <1>5, <2>1, ZenonT(60), ZenonT(90) DEF TypeOK
    <3>2. Well(file[m].lines) /\ Len(file[m].lines) > 1
      BY <1>3, <1>4, <2>1, AtRest, Zenon, ZenonT(60)
    <3>3. Well(buf'[p]) /\ Len(buf'[p]) > 1
      BY <3>1, <3>2, Zenon, ZenonT(60)
    <3>4. Formed(m)'
      BY Zenon, ZenonT(60), <1>1, <3>2 DEF Formed, Well, Entry
    <3>5. AtWork(p)'
      BY <1>1, <1>3, <1>6, <2>1, <3>1, <3>3, ZenonT(60), ZenonT(90) DEF AtWork, Well, Entry
    <3> QED
      BY <3>4, <3>5
  <2>2. CASE ~file[m].exists
    <3>1. pc'[p] \in {"failed", "done"} /\ ~file'[m].exists
      BY <1>1, <1>5, <1>6, <2>2
    <3>2. AtWork(p)'
      BY <3>1, Zenon, ZenonT(60) DEF AtWork, FilePcs
    <3>3. Formed(m)'
      BY <3>1, Zenon, ZenonT(60) DEF Formed
    <3> QED
      BY <3>2, <3>3
  <2> QED
    BY <2>1, <2>2
<1> QED
  BY <1>1, <1>3, <1>4, <1>6, <1>7, <1>8, FileStep, Zenon, ZenonT(60)

\* The file is emptied; everything is in the buffer of the one that rewrites it.
LEMMA TruncateFiles ==
    ASSUME FilesInv, TypeOK', CommitLocked', NEW p \in Procs, Truncate(p)
    PROVE  FilesInv'
<1>1. TypeOK /\ Placed(p) /\ AtWork(p) /\ pc[p] = "truncate" /\ UNCHANGED <<net, buf>>
  BY DEF FilesInv, Truncate
<1>2. PICK m \in Networks : m = net[p]
  BY <1>1 DEF TypeOK
<1>3. file[m].exists /\ Well(buf[p]) /\ Len(buf[p]) > 1
  BY <1>1, <1>2, ZenonT(60), ZenonT(90) DEF AtWork, FilePcs
<1>4. /\ file' = [file EXCEPT ![m] = [gen |-> file[m].gen, exists |-> TRUE, lines |-> <<>>]]
      /\ fd' = [fd EXCEPT ![p] = file[m].gen] /\ app' = [app EXCEPT ![p] = FALSE]
      /\ pos' = [pos EXCEPT ![p] = 1] /\ pc' = [pc EXCEPT ![p] = "write"]
  BY <1>2, <1>3, Zenon, ZenonT(60) DEF Truncate, Goto
<1>5. pc'[p] = "write" /\ \A q \in Procs \ {p} : pc'[q] = pc[q]
  BY Zenon, ZenonT(60), <1>1, <1>4, GoesOn
<1>6. /\ file'[m] = [gen |-> file[m].gen, exists |-> TRUE, lines |-> <<>>]
      /\ \A n \in Networks \ {m} : file'[n] = file[n]
  BY <1>1, <1>4, Zenon, ZenonT(60) DEF TypeOK, Files
<1>7. fd'[p] = file[m].gen /\ ~app'[p] /\ pos'[p] = 1
  BY <1>1, <1>4, ZenonT(60), ZenonT(90) DEF TypeOK
<1>m. net'[p] = m
  BY <1>1, <1>2
<1>8. file'[net'[p]].lines = <<>> /\ Len(file'[net'[p]].lines) = 0
  <2>1. file'[m].lines = <<>>
    BY <1>6
  <2> QED
    BY <1>m, <2>1
<1>9. Halves(p)'
  <2>1. Well(buf[p])' /\ Len(buf'[p]) > 1
    BY <1>1, <1>3, Zenon, ZenonT(60) DEF Well, Entry
  <2> QED
    BY <1>8, <2>1 DEF Halves
<1>10. AtWork(p)'
  <2>1. file'[net'[p]].exists /\ fd'[p] = file'[net'[p]].gen /\ pos'[p] = Len(file'[net'[p]].lines) + 1
    <3>1. file'[m].exists /\ fd'[p] = file'[m].gen
      BY <1>6, <1>7
    <3>2. pos'[p] = Len(file'[net'[p]].lines) + 1
      BY <1>7, <1>8
    <3> QED
      BY <1>m, <3>1, <3>2, ZenonT(60), ZenonT(90)
  <2> QED
    BY <1>5, <1>7, <1>9, <2>1, Zenon, ZenonT(60) DEF AtWork
<1>11. Placed(p)' /\ pc[p] \in Committing \cup Rewriting
  BY <1>1, <1>5, Zenon, ZenonT(60) DEF Placed, Starts, Rewriting, Committing
<1>12. Formed(m)'
  BY <1>1, <1>2, <1>5, Zenon, ZenonT(60) DEF Formed
<1> QED
  BY <1>1, <1>2, <1>5, <1>6, <1>10, <1>11, <1>12, FileStep, ZenonT(60), ZenonT(90)

\* Update's change of a line keeps its first column.
LEMMA RewrittenFirst ==
    ASSUME NEW p \in Procs, NEW line \in Line
    PROVE  /\ Rewritten(p, line).first = line.first
           /\ pos[p] # 1 => Rewritten(p, line) = line
BY DEF Rewritten, Line

\* The next line written back, or skipped: the header comes first and is never skipped.
LEMMA WriteBackHalves ==
    ASSUME FilesInv, NEW p \in Procs, WriteBack(p), NEW m \in Networks, m = net[p], NEW s, s = file[m].lines,
           NEW t \in Seq(Line), t = file'[m].lines, NEW b, b = buf[p]
    PROVE  /\ \A n \in Networks \ {m} : file'[n] = file[n]
           /\ file'[m].exists = file[m].exists /\ file'[m].gen = file[m].gen
           /\ pos'[p] = Len(t) + 1
           /\ Well(t) /\ Entries(Tail(b)) /\ (Cmd[p].kind = "update" => Len(t) + Len(Tail(b)) > 1)
<1>1. TypeOK /\ AtWork(p) /\ pc[p] = "write" /\ b # <<>>
  BY Zenon, ZenonT(60) DEF FilesInv, WriteBack
<1>2. s \in Seq(Line) /\ b \in Seq(Line) /\ pos[p] \in Nat
  BY <1>1, Zenon, ZenonT(60) DEF TypeOK, Files
<1>3. file[m].exists /\ fd[p] = file[m].gen /\ ~app[p] /\ pos[p] = Len(s) + 1 /\ Halves(p)
  BY <1>1, Zenon, ZenonT(60) DEF AtWork, FilePcs
<1>4. \/ s = <<>> /\ Well(b) /\ Len(b) > 1
      \/ Well(s) /\ Entries(b) /\ (Cmd[p].kind = "update" => Len(s) + Len(b) > 1)
  BY Zenon, ZenonT(60), <1>3 DEF Halves
<1>5. /\ Tail(b) \in Seq(Line) /\ Head(b) \in Line /\ Len(Tail(b)) = Len(b) - 1 /\ Len(b) \in Nat
      /\ Well(b) => Head(b).first = Gateways /\ Entries(Tail(b))
      /\ Entries(b) => (\E c \in Containers : Head(b) = Entry(c)) /\ Entries(Tail(b))
  <2>1. Len(b) \in Nat
    BY <1>2
  <2> QED
    BY <1>1, <1>2, <2>1, Tails, ZenonT(60), ZenonT(90)
<1>6. CASE Cmd[p].kind = "teardown" /\ Contains(Head(b), Cmd[p].ctr)
  <2>1. file' = file /\ pos' = pos
    BY <1>6, Zenon, ZenonT(60) DEF WriteBack
  <2>2. Head(b).first # Gateways
    BY <1>6, DataAssumption, Zenon, ZenonT(60) DEF Contains
  <2>3. Well(s) /\ Entries(b)
    BY Zenon, ZenonT(60), <1>4, <1>5, <2>2
  <2> QED
    BY Zenon, ZenonT(60), <1>3, <1>5, <1>6, <2>1, <2>3
<1>7. CASE ~(Cmd[p].kind = "teardown" /\ Contains(Head(b), Cmd[p].ctr))
  <2>1. PICK line \in Line : line = Rewritten(p, Head(b))
    BY <1>5, RewrittenType, Zenon, ZenonT(60)
  <2>2. Write(p, line) /\ pos' = [pos EXCEPT ![p] = @ + 1]
    BY <1>7, <2>1, Zenon, ZenonT(60) DEF WriteBack
  <2>3. pos'[p] = pos[p] + 1
    BY <1>1, <2>2, Zenon, ZenonT(60) DEF TypeOK
  <2>4. /\ file[net[p]].exists /\ fd[p] = file[net[p]].gen
        /\ ~app[p] => pos[p] = Len(file[net[p]].lines) + 1
    BY <1>3, Zenon, ZenonT(60)
  <2>5. /\ \A n \in Networks \ {m} : file'[n] = file[n]
        /\ file'[m].exists = file[m].exists /\ file'[m].gen = file[m].gen
        /\ Len(t) = Len(s) + 1 /\ t[Len(s) + 1] = line /\ \A k \in 1 .. Len(s) : t[k] = s[k]
    BY Zenon, ZenonT(60), <1>1, <2>2, <2>4, WriteGrows
  <2>6. CASE s = <<>> /\ Well(b) /\ Len(b) > 1
    <3>1. line.first = Gateways
      BY Zenon, ZenonT(60), <1>5, <2>1, <2>6, RewrittenFirst
    <3>2. Well(t)
      BY Zenon, ZenonT(60), <1>2, <2>5, <2>6, <3>1, WellGrows
    <3>3. Len(t) = 1
      <4>1. s = <<>> /\ Len(t) = Len(s) + 1
        BY <2>5, <2>6, ZenonT(60), ZenonT(90)
      <4> QED
        BY <4>1
    <3>4. pos'[p] = Len(t) + 1 /\ Len(t) + Len(Tail(b)) > 1
      <4>0. Len(s) = 0
        BY <2>6
      <4>1. pos[p] = 1 /\ Len(b) > 1 /\ Len(Tail(b)) = Len(b) - 1 /\ Len(b) \in Nat
        <5>1. pos[p] = 1
          BY <1>3, <4>0
        <5> QED
          BY <1>5, <2>6, <5>1, ZenonT(60), ZenonT(90)
      <4> QED
        BY <2>3, <3>3, <4>1
    <3> QED
      BY <1>5, <2>5, <2>6, <3>2, <3>4, Zenon, ZenonT(60)
  <2>7. CASE Well(s) /\ Entries(b) /\ (Cmd[p].kind = "update" => Len(s) + Len(b) > 1)
    <3>1. pos[p] # 1
      <4>1. s # <<>>
        BY <2>7, ZenonT(60), ZenonT(90) DEF Well
      <4>2. Len(s) \in Nat /\ Len(s) # 0
        BY <1>2, <4>1
      <4>3. pos[p] = Len(s) + 1
        BY <1>3, Zenon, ZenonT(60)
      <4> QED
        BY <4>2, <4>3
    <3>2. \E c \in Containers : line = Entry(c)
      BY <1>5, <2>1, <2>7, <3>1, RewrittenFirst, Zenon, ZenonT(60)
    <3>3. Well(t)
      BY ZenonT(60), ZenonT(90), <1>2, <2>5, <2>7, <3>2, WellGrows
    <3>4. Len(s) \in Nat
      BY <1>2
    <3>5. pos'[p] = Len(t) + 1 /\ Len(t) + Len(Tail(b)) = Len(s) + Len(b)
      <4>1. pos[p] = Len(s) + 1 /\ Len(t) = Len(s) + 1
        BY <1>3, <2>5, Zenon, ZenonT(60)
      <4>2. Len(Tail(b)) = Len(b) - 1 /\ Len(b) \in Nat
        BY <1>5, Zenon, ZenonT(60)
      <4>3. PICK x \in Nat : x = Len(s)
        BY <3>4, Zenon, ZenonT(60)
      <4>4. PICK y \in Nat : y = Len(b)
        BY <4>2
      <4>5. Len(t) = x + 1 /\ Len(Tail(b)) = y - 1 /\ pos[p] = x + 1
        BY <4>1, <4>2, <4>3, <4>4
      <4>6. (x + 1) + (y - 1) = x + y
        OBVIOUS
      <4> QED
        BY <2>3, <4>3, <4>4, <4>5, <4>6, Zenon, ZenonT(60)
    <3>6. Entries(Tail(b)) /\ (Cmd[p].kind = "update" => Len(t) + Len(Tail(b)) > 1)
      BY Zenon, ZenonT(60), <1>5, <2>7, <3>5
    <3> QED
      BY ZenonT(60), ZenonT(90), <2>5, <3>3, <3>5, <3>6
  <2> QED
    BY Zenon, ZenonT(60), <1>4, <2>6, <2>7
<1> QED
  BY Zenon, ZenonT(60), <1>6, <1>7

\* One line of the buffer goes back to the file, or is dropped.
LEMMA WriteBackFiles ==
    ASSUME FilesInv, TypeOK', CommitLocked', NEW p \in Procs, WriteBack(p)
    PROVE  FilesInv'
<1>1. /\ TypeOK /\ Placed(p) /\ AtWork(p) /\ pc[p] = "write" /\ UNCHANGED <<net, pc, fd, app>>
      /\ buf' = [buf EXCEPT ![p] = Tail(@)]
  BY Zenon, ZenonT(60) DEF FilesInv, WriteBack
<1>2. PICK m \in Networks : m = net[p]
  BY <1>1, Zenon, ZenonT(60) DEF TypeOK
<1>3. PICK t \in Seq(Line) : t = file'[m].lines
  BY Zenon, ZenonT(60) DEF TypeOK, Files
<1>4. PICK b : b = buf[p]
  OBVIOUS
<1>5. /\ \A n \in Networks \ {m} : file'[n] = file[n]
      /\ file'[m].exists = file[m].exists /\ file'[m].gen = file[m].gen
      /\ pos'[p] = Len(t) + 1
      /\ Well(t) /\ Entries(Tail(b)) /\ (Cmd[p].kind = "update" => Len(t) + Len(Tail(b)) > 1)
  <2>1. PICK s : s = file[m].lines
    BY Zenon, ZenonT(60)
  <2> QED
    BY <1>2, <1>3, <1>4, <2>1, WriteBackHalves, ZenonT(60), ZenonT(90)
<1>6. file[m].exists /\ fd[p] = file[m].gen /\ ~app[p]
  BY Zenon, ZenonT(60), <1>1, <1>2 DEF AtWork, FilePcs
<1>7. Halves(p)'
  <2>1. file'[net'[p]].lines = t /\ buf'[p] = Tail(b)
    BY <1>1, <1>2, <1>3, <1>4, Zenon, ZenonT(60) DEF TypeOK
  <2>2. Well(file'[net'[p]].lines) /\ Entries(buf'[p])
    BY Zenon, ZenonT(60), <1>5, <2>1
  <2>3. Cmd[p].kind = "update" => Len(file'[net'[p]].lines) + Len(buf'[p]) > 1
    BY <1>5, <2>1, Zenon, ZenonT(60)
  <2>4. Well(file[net[p]].lines)' /\ Entries(buf[p])'
    BY Zenon, ZenonT(60), <2>2 DEF Well, Entries, Entry
  <2> QED
    BY Zenon, ZenonT(60), <2>3, <2>4 DEF Halves
<1>8. AtWork(p)'
  BY ZenonT(60), ZenonT(90), <1>1, <1>2, <1>3, <1>5, <1>6, <1>7 DEF AtWork
<1>9. Placed(p)' /\ pc[p] \in Committing \cup Rewriting
  BY <1>1, Zenon, ZenonT(60) DEF Placed, Starts, Rewriting
<1>10. Formed(m)'
  BY <1>1, <1>2, Zenon, ZenonT(60) DEF Formed
<1> QED
  BY <1>1, <1>2, <1>5, <1>8, <1>9, <1>10, FileStep, Zenon, ZenonT(60)

\* Everything is written back: a file with nothing but its header is removed
\* by the teardown, and an update leaves as many lines as it read.
LEMMA EndFiles ==
    ASSUME FilesInv, TypeOK', CommitLocked', NEW p \in Procs, DeleteEntryEnd(p) \/ ModifyEnd(p)
    PROVE  FilesInv'
<1>1. /\ TypeOK /\ Placed(p) /\ AtWork(p) /\ pc[p] = "write" /\ buf[p] = <<>>
      /\ UNCHANGED <<net, fd, app, pos, buf>>
  BY DEF FilesInv, DeleteEntryEnd, ModifyEnd
<1>2. PICK m \in Networks : m = net[p]
  BY <1>1, Zenon, ZenonT(60) DEF TypeOK
<1>3. PICK s \in Seq(Line) : s = file[m].lines
  BY Zenon, ZenonT(60), <1>1 DEF TypeOK, Files
<1>4. file[m].exists /\ pos[p] = Len(s) + 1 /\ Halves(p)
  BY <1>1, <1>2, <1>3, Zenon, ZenonT(60) DEF AtWork, FilePcs
<1>5. Well(s) /\ (Cmd[p].kind = "update" => Len(s) > 1)
  <2>1. ~(Len(buf[p]) > 1) /\ Len(s) \in Nat /\ Len(buf[p]) = 0
    <3>1. buf[p] = <<>>
      BY <1>1, Zenon, ZenonT(60)
    <3> QED
      BY <3>1
  <2>2. \/ s = <<>> /\ Well(buf[p]) /\ Len(buf[p]) > 1
        \/ Well(s) /\ Entries(buf[p]) /\ (Cmd[p].kind = "update" => Len(s) + Len(buf[p]) > 1)
    BY <1>2, <1>3, <1>4, Zenon, ZenonT(60) DEF Halves
  <2>3. Len(s) + Len(buf[p]) > 1 => Len(s) > 1
    BY <2>1
  <2> QED
    BY <2>1, <2>2, <2>3, ZenonT(60), ZenonT(90)
<1>6. PICK l \in {"read", "get_pid", "done"} : pc' = [pc EXCEPT ![p] = l]
  <2>1. CASE DeleteEntryEnd(p)
    BY Zenon, ZenonT(60), <1>2, <1>4, <2>1 DEF DeleteEntryEnd, Goto
  <2>2. CASE ModifyEnd(p)
    BY Zenon, ZenonT(60), <2>2 DEF ModifyEnd, Goto
  <2> QED
    BY <2>1, <2>2
<1>7. pc'[p] = l /\ \A q \in Procs \ {p} : pc'[q] = pc[q]
  BY ZenonT(60), ZenonT(90), <1>1, <1>6, GoesOn
<1>8. /\ \A n \in Networks \ {m} : file'[n] = file[n]
      /\ ~file'[m].exists \/ (file'[m].lines = s /\ Len(s) > 1)
  <2>1. CASE DeleteEntryEnd(p)
    <3>1. CASE pos[p] - 1 <= 1
      <4>1. file' = [file EXCEPT ![m].exists = FALSE, ![m].lines = <<>>]
        BY <1>2, <2>1, <3>1 DEF DeleteEntryEnd
      <4>2. file \in [Networks -> [gen : Nat, exists : BOOLEAN, lines : Seq(Line)]]
        BY <1>1, Zenon, ZenonT(60) DEF TypeOK, Files
      <4> QED
        BY <4>1, <4>2
    <3>2. CASE ~(pos[p] - 1 <= 1)
      <4>1. file' = file
        BY <2>1, <3>2 DEF DeleteEntryEnd
      <4>2. Len(s) > 1
        BY <1>4, <3>2
      <4> QED
        BY <1>3, <4>1, <4>2
    <3> QED
      BY <3>1, <3>2, Zenon, ZenonT(60)
  <2>2. CASE ModifyEnd(p)
    BY <1>3, <1>5, <2>2, ZenonT(60), ZenonT(90) DEF ModifyEnd
  <2> QED
    BY <2>1, <2>2, ZenonT(60), ZenonT(90)
<1>9. Formed(m)'
  <2>1. CASE ~file'[m].exists
    BY <2>1, ZenonT(60), ZenonT(90) DEF Formed
  <2>2. CASE file'[m].lines = s /\ Len(s) > 1
    <3>1. Well(file[m].lines)' /\ Len(file'[m].lines) > 1
      BY <1>5, <2>2, Zenon, ZenonT(60) DEF Well, Entry
    <3> QED
      BY <3>1 DEF Formed
  <2> QED
    BY <1>8, <2>1, <2>2, Zenon, ZenonT(60)
<1>10. Placed(p)' /\ pc[p] \in Committing \cup Rewriting
  BY <1>1, <1>7, Zenon, ZenonT(60) DEF Placed, Starts, Rewriting, Committing
<1>11. AtWork(p)'
  BY Zenon, ZenonT(60), <1>7 DEF AtWork, FilePcs
<1> QED
  BY <1>1, <1>2, <1>7, <1>8, <1>9, <1>10, <1>11, FileStep, ZenonT(60), ZenonT(90)

-----------------------------------------------------------------------------
\* There is no file yet.
LEMMA FilesInit == Init => FilesInv
<1> SUFFICES ASSUME Init PROVE FilesInv
  OBVIOUS
<1>1. TypeOK /\ CommitLocked
  BY TypeInit, LockedInit
<1>2. \A p \in Procs : pc[p] = "idle"
  BY Zenon, ZenonT(60) DEF Init
<1>3. \A n \in Networks : ~file[n].exists
  BY Zenon, ZenonT(60) DEF Init
<1>4. Alone
  BY <1>2 DEF Alone, Busy, Settled
<1>5. \A p \in Procs : Placed(p) /\ AtWork(p)
  BY <1>2, ZenonT(60), ZenonT(90) DEF Placed, AtWork, Committing, Rewriting, FilePcs
<1>6. \A n \in Networks : Formed(n)
  BY <1>3 DEF Formed
<1> QED
  BY <1>1, <1>4, <1>5, <1>6 DEF FilesInv

\* Nothing fails: Abort and ServerCrash are not taken.
LEMMA NoFault ==
    ASSUME Serial, FilesInv
    PROVE  ~ServerCrash /\ \A p \in Procs : ~Abort(p)
<1>1. ~(faults < MaxFaults)
  BY DEF Serial, FilesInv, TypeOK
<1> QED
  BY <1>1 DEF ServerCrash, Abort

\* Every step keeps the files well formed, or has somebody at work on them.
LEMMA FilesNext ==
    ASSUME Serial, FilesInv, [Next]_vars
    PROVE  FilesInv'
<1>1. TypeOK' /\ CommitLocked'
  BY TypeNext, LockedNext DEF FilesInv
<1>2. ASSUME NEW p \in Procs, Begin(p) PROVE FilesInv'
  BY <1>1, <1>2, BeginFiles
<1>3. ASSUME NEW p \in Procs, Step(p) PROVE FilesInv'
  <2>1. CASE LockExclusive(p) \/ Unlock(p) \/ GetPid(p) \/ Kill(p) \/ StartServer(p)
    BY <1>1, <2>1, OffFileSteps
  <2>2. CASE CreateNew(p)
    BY <1>1, <2>2, CreateNewFiles
  <2>3. CASE OpenAppend(p)
    BY <1>1, <2>3, OpenAppendFiles
  <2>4. CASE WriteHeader(p)
    BY <1>1, <2>4, WriteHeaderFiles
  <2>5. CASE CommitEntry(p)
    BY <1>1, <2>5, CommitEntryFiles
  <2>6. CASE ReadFile(p)
    BY <1>1, <2>6, ReadFileFiles
  <2>7. CASE Truncate(p)
    BY <1>1, <2>7, TruncateFiles
  <2>8. CASE WriteBack(p)
    BY <1>1, <2>8, WriteBackFiles
  <2>9. CASE DeleteEntryEnd(p) \/ ModifyEnd(p)
    BY <1>1, <2>9, EndFiles
  <2> QED
    BY <1>3, <2>1, <2>2, <2>3, <2>4, <2>5, <2>6, <2>7, <2>8, <2>9 DEF Step
<1>4. CASE ServerReload \/ UNCHANGED vars
  <2>1. UNCHANGED <<file, lock, pc, net, fd, app, pos, buf>>
    BY <1>4 DEF ServerReload, vars, procVars
  <2>2. Alone'
    BY <2>1, Zenon, ZenonT(60) DEF FilesInv, Alone, Busy, Starts
  <2>3. ASSUME NEW p \in Procs PROVE Placed(p)' /\ AtWork(p)'
    <3>1. Placed(p) /\ AtWork(p)
      BY DEF FilesInv
    <3> QED
      BY ZenonT(60), ZenonT(90), <2>1, <3>1 DEF Placed, Starts, AtWork, Halves, Well, Entries, Entry
  <2>4. ASSUME NEW n \in Networks PROVE Formed(n)'
    <3>1. Formed(n)
      BY DEF FilesInv
    <3> QED
      BY Zenon, ZenonT(60), <2>1, <3>1 DEF Formed, Well, Entry
  <2> QED
    BY <1>1, <2>2, <2>3, <2>4 DEF FilesInv
<1> QED
  BY <1>2, <1>3, <1>4, NoFault DEF Next

\* While teardowns and updates run alone and nothing fails, a file starts with
\* its header and has one: commit_entries writes it once, and a rewrite keeps
\* it first.
THEOREM HeaderComesFirst ==
    ASSUME Serial
    PROVE  Spec => []HeaderFirst
<1>1. Init => FilesInv
  BY FilesInit
<1>2. FilesInv /\ [Next]_vars => FilesInv'
  BY FilesNext
<1>3. FilesInv => HeaderFirst
  <2> SUFFICES ASSUME FilesInv, NEW n \in Networks, file[n].exists,
                      \A p \in Procs : pc[p] \in {"header", "write"} => net[p] # n
               PROVE  /\ file[n].lines # <<>>
                      /\ \A i \in DOMAIN file[n].lines : (file[n].lines[i].first = Gateways) <=> i = 1
    BY DEF HeaderFirst
  <2>1. Formed(n)
    BY Zenon, ZenonT(60) DEF FilesInv
  <2>2. Well(file[n].lines)
    BY <2>1 DEF Formed
  <2> QED
    BY <2>2, EntryFacts, ZenonT(60), ZenonT(90) DEF Well
<1> QED
  BY <1>1, <1>2, <1>3, PTL DEF Spec

\* Nor does delete_entry leave a file without an entry behind: once everything
\* is at rest, a file that exists has one.
THEOREM NoFileIsEmpty ==
    ASSUME Serial
    PROVE  Spec => []NoEmptyFile
<1>1. Init => FilesInv
  BY FilesInit
<1>2. FilesInv /\ [Next]_vars => FilesInv'
  BY FilesNext
<1>3. FilesInv => NoEmptyFile
  <2> SUFFICES ASSUME FilesInv, Quiet, NEW n \in Networks, file[n].exists
               PROVE  \E c \in Containers : EntryIn(c, n)
    BY DEF NoEmptyFile
  <2>1. Formed(n) /\ file[n].lines \in Seq(Line)
    BY DEF FilesInv, TypeOK, Files
  <2>2. \A p \in Procs : pc[p] \notin {"header", "entry", "write"}
    BY DEF Quiet, Settled
  <2>3. Well(file[n].lines) /\ Len(file[n].lines) > 1
    BY <2>1, <2>2, Zenon, ZenonT(60) DEF Formed
  <2>4. 2 \in DOMAIN file[n].lines
    <3>1. PICK s \in Seq(Line) : s = file[n].lines /\ Len(s) > 1
      BY <2>1, <2>3, Zenon, ZenonT(60)
    <3>2. 2 \in DOMAIN s
      BY <3>1
    <3> QED
      BY <3>1, <3>2, Zenon, ZenonT(60)
  <2> QED
    BY <2>3, <2>4 DEF Well, EntryIn
<1> QED
  BY <1>1, <1>2, <1>3, PTL DEF Spec
=============================================================================
