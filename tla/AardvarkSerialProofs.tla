------------------------ MODULE AardvarkSerialProofs ------------------------
(***************************************************************************)
(* What the files are worth to others when podman runs teardowns and       *)
(* updates one at a time and nothing fails: the server has loaded what     *)
(* they say, and they implement the registry of DnsRegistry.               *)
(***************************************************************************)
EXTENDS AardvarkProofs, AardvarkRegistry

\* Time enough for the provers on a busy machine, and a second try.
USE SMTT(30), ZenonT(30), Z3T(30)

-----------------------------------------------------------------------------
\* The server.

\* Updates set a list: one that clears it does not notify.
Announced == \A p \in Procs : Cmd[p].kind = "update" => Cmd[p].dns # NoDns

\* An invocation works on the networks of its command line.
Own(p) == todo[p] \subseteq Cmd[p].nets /\ net[p] \in Cmd[p].nets

\* p is going to make the server load the files again: it has still to read the
\* pid, or its signal will be delivered, or it finds no server and starts one.
WillNotify(p) ==
    \/ pc[p] \in Committing \cup {"lock", "truncate", "write", "get_pid"}
    \/ pc[p] = "read" /\ Cmd[p].kind = "teardown"
    \/ pc[p] = "kill" /\ (~server.alive \/ server.id = pid[p])
    \/ pc[p] = "start" /\ ~server.alive

Notifies(p) == WillNotify(p) \/ pc[p] \in {"failed", "aborted"}

\* The server has loaded the file of n, or is about to.
Synced(n) == IF server.alive THEN server.hup \/ server.view[n] = Config[n] ELSE ~file[n].exists

Due(n) == \E p \in Procs : n \in Cmd[p].nets /\ Notifies(p)

\* The pid file names the running server.
PidKnown == server.alive => pidfile = server.id /\ server.id > 0

ServedInv ==
    /\ FilesInv /\ PidKnown
    /\ \A p \in Procs : Own(p)
    /\ \A n \in Networks : Synced(n) \/ Due(n)

\* A step of p that leaves the server alone: whoever else was going to notify
\* still is, so p answers for the files it changes and for what was due to it.
LEMMA StillDue ==
    ASSUME ServedInv, NEW p \in Procs, UNCHANGED <<server, pidfile>>,
           \A q \in Procs \ {p} : pc'[q] = pc[q] /\ pid'[q] = pid[q],
           Notifies(p) => Notifies(p)',
           \A n \in Networks : file'[n] = file[n] \/ (n \in Cmd[p].nets /\ Notifies(p)')
    PROVE  \A n \in Networks : Synced(n)' \/ Due(n)'
<1> TAKE n \in Networks
<1>1. \A q \in Procs : Notifies(q) => Notifies(q)'
  <2> TAKE q \in Procs
  <2>1. CASE q = p
    BY <2>1
  <2>2. CASE q # p
    BY <2>2 DEF Notifies, WillNotify
  <2> QED
    BY <2>1, <2>2
<1>2. CASE Due(n)
  BY <1>1, <1>2 DEF Due
<1>3. CASE n \in Cmd[p].nets /\ Notifies(p)'
  BY <1>3 DEF Due
<1>4. CASE Synced(n) /\ file'[n] = file[n]
  <2>1. Config'[n] = Config[n]
    BY <1>4 DEF Config
  <2> QED
    BY <1>4, <2>1 DEF Synced
<1> QED
  BY <1>2, <1>3, <1>4 DEF ServedInv

\* The steps that keep an invocation to its own networks.
LEMMA OwnStays ==
    ASSUME TypeOK, \A p \in Procs : Own(p), [Next]_vars
    PROVE  \A p \in Procs : Own(p)'
<1> TAKE p \in Procs
<1>1. TypeOK /\ Own(p)
  OBVIOUS
<1> DEFINE Narrows == /\ todo'[p] \subseteq todo[p] \/ todo'[p] = Cmd[p].nets
                      /\ net'[p] = net[p] \/ net'[p] \in todo[p]
<1>2. Narrows
  <2>1. CASE UNCHANGED <<todo, net>>
    BY <2>1
  <2>2. ASSUME NEW q \in Procs, Begin(q) PROVE Narrows
    BY Zenon, ZenonT(60), <1>1, <2>2 DEF Begin, TypeOK
  <2>3. ASSUME NEW q \in Procs, NEW m \in todo[q],
               net' = [net EXCEPT ![q] = m], todo' = [todo EXCEPT ![q] = @ \ {m}]
        PROVE  Narrows
    BY <1>1, <2>3 DEF TypeOK
  <2>4. ASSUME NEW q \in Procs, Step(q) PROVE Narrows
    <3>1. CASE CreateNew(q) \/ ReadFile(q)
      BY <2>3, <3>1 DEF CreateNew, ReadFile
    <3>2. CASE ~(CreateNew(q) \/ ReadFile(q))
      <4>1. UNCHANGED <<todo, net>>
        BY <2>4, <3>2, Zenon, ZenonT(60) DEF Step, LockExclusive, OpenAppend, WriteHeader, CommitEntry, Unlock, GetPid, Kill,
                          StartServer, Truncate, WriteBack, DeleteEntryEnd, ModifyEnd
      <4> QED
        BY <2>1, <4>1
    <3> QED
      BY <3>1, <3>2
  <2>5. CASE ServerReload \/ ServerCrash \/ UNCHANGED vars \/ \E q \in Procs : Abort(q)
    <3>1. UNCHANGED <<todo, net>>
      BY <2>5 DEF ServerReload, ServerCrash, Abort, vars, procVars
    <3> QED
      BY <2>1, <3>1
  <2> QED
    BY <2>2, <2>4, <2>5 DEF Next
<1> QED
  BY <1>1, <1>2 DEF Own

\* The server loads the config: from there on it has every file.
LEMMA LoadSyncs ==
    ASSUME TypeOK, file' = file, server'.view = Config, server'.alive = ~NoConfig
    PROVE  \A n \in Networks : Synced(n)'
<1>1. Config' = Config
  BY DEF Config
<1> QED
  BY Zenon, ZenonT(60), <1>1 DEF Synced, NoConfig

\* The files that the steps of the three functions change are the ones of p's
\* own networks.
LEMMA ChangesOwn ==
    ASSUME NEW p \in Procs, TypeOK, Own(p),
           \/ LockExclusive(p) \/ CreateNew(p) \/ OpenAppend(p) \/ WriteHeader(p) \/ CommitEntry(p) \/ Unlock(p)
           \/ ReadFile(p) \/ Truncate(p) \/ WriteBack(p) \/ DeleteEntryEnd(p) \/ ModifyEnd(p)
    PROVE  \A n \in Networks : file'[n] = file[n] \/ n \in Cmd[p].nets
<1>1. file \in [Networks -> [gen : Nat, exists : BOOLEAN, lines : Seq(Line)]] /\ net[p] \in Networks
  BY Zenon, ZenonT(60) DEF TypeOK, Files
<1>2. net[p] \in Cmd[p].nets /\ todo[p] \subseteq Cmd[p].nets
  BY DEF Own
<1>3. ASSUME NEW line, Write(p, line) PROVE \A n \in Networks \ {net[p]} : file'[n] = file[n]
  BY <1>1, <1>3 DEF Write
<1>4. CASE file' = file
  BY <1>4
<1>5. CASE CreateNew(p)
  BY Zenon, ZenonT(60), <1>1, <1>2, <1>5 DEF CreateNew
<1>6. CASE WriteHeader(p) \/ CommitEntry(p)
  BY Zenon, ZenonT(60), <1>2, <1>3, <1>6 DEF WriteHeader, CommitEntry
<1>7. CASE WriteBack(p)
  BY Zenon, ZenonT(60), <1>2, <1>3, <1>7 DEF WriteBack
<1>8. CASE Truncate(p)
  BY Zenon, ZenonT(60), <1>1, <1>2, <1>8 DEF Truncate
<1>9. CASE DeleteEntryEnd(p)
  BY <1>1, <1>2, <1>9 DEF DeleteEntryEnd
<1>10. CASE LockExclusive(p) \/ OpenAppend(p) \/ Unlock(p) \/ ReadFile(p) \/ ModifyEnd(p)
  BY Zenon, ZenonT(60), <1>4, <1>10 DEF LockExclusive, OpenAppend, Unlock, ReadFile, ModifyEnd
<1> QED
  BY Zenon, ZenonT(60), <1>5, <1>6, <1>7, <1>8, <1>9, <1>10

\* commit_entries, delete_entry and modify_network_dns_servers go on to notify,
\* or to report an error.  An update that finds no file has changed none.
LEMMA GoesOnToNotify ==
    ASSUME Announced, ServedInv, NEW p \in Procs,
           \/ LockExclusive(p) \/ CreateNew(p) \/ OpenAppend(p) \/ WriteHeader(p) \/ CommitEntry(p) \/ Unlock(p)
           \/ ReadFile(p) \/ Truncate(p) \/ WriteBack(p) \/ DeleteEntryEnd(p) \/ ModifyEnd(p)
    PROVE  /\ \A q \in Procs \ {p} : pc'[q] = pc[q]
           /\ Notifies(p)' \/ (~Notifies(p) /\ file' = file)
<1>1. TypeOK /\ FilesInv /\ AtWork(p) /\ Cmd[p].kind \in Kinds
  BY CmdAssumption DEF ServedInv, FilesInv
<1>2. ASSUME NEW l, Goto(p, l)
      PROVE  pc'[p] = l /\ \A q \in Procs \ {p} : pc'[q] = pc[q]
  BY Zenon, ZenonT(60), <1>1, <1>2, GoesOn DEF Goto
<1>3. ASSUME NEW l \in {"create_new", "append", "header", "entry", "truncate", "write", "get_pid", "failed"},
             Goto(p, l)
      PROVE  Notifies(p)' /\ \A q \in Procs \ {p} : pc'[q] = pc[q]
  BY <1>2, <1>3 DEF Notifies, WillNotify, Committing
<1>4. CASE LockExclusive(p) \/ OpenAppend(p) \/ WriteHeader(p) \/ CommitEntry(p) \/ Unlock(p) \/ Truncate(p)
  BY Zenon, ZenonT(60), <1>3, <1>4 DEF LockExclusive, OpenAppend, WriteHeader, CommitEntry, Unlock, Truncate
<1>5. CASE CreateNew(p)
  BY Zenon, ZenonT(60), <1>3, <1>5 DEF CreateNew
<1>6. CASE ReadFile(p)
  <2>1. PICK l \in {"truncate", "failed", "done"} :
          /\ Goto(p, l) /\ (l = "done" => Cmd[p].kind # "teardown") /\ file' = file /\ pc[p] = "read"
    BY Zenon, ZenonT(60), <1>6 DEF ReadFile
  <2>2. CASE l = "done"
    BY <1>2, <2>1, <2>2 DEF Notifies, WillNotify, Committing
  <2>3. CASE l # "done"
    BY Zenon, ZenonT(60), <1>3, <2>1, <2>3
  <2> QED
    BY Zenon, ZenonT(60), <2>2, <2>3
<1>7. CASE WriteBack(p)
  BY Zenon, ZenonT(60), <1>7 DEF WriteBack, Notifies, WillNotify
<1>8. CASE DeleteEntryEnd(p)
  <2>1. PICK l \in {"read", "failed", "get_pid"} : Goto(p, l) /\ Cmd[p].kind = "teardown"
    BY <1>8 DEF DeleteEntryEnd
  <2>2. CASE l = "read"
    BY <1>2, <2>1, <2>2 DEF Notifies, WillNotify
  <2>3. CASE l # "read"
    BY <1>3, <2>1, <2>3
  <2> QED
    BY <2>2, <2>3
<1>9. CASE ModifyEnd(p)
  <2>1. pc[p] = "write" /\ buf[p] = <<>> /\ Cmd[p].kind = "update" /\ Cmd[p].dns # NoDns
    BY Zenon, ZenonT(60), <1>9 DEF ModifyEnd, Announced
  <2>2. PICK s \in Seq(Line) : s = file[net[p]].lines
    BY <1>1 DEF TypeOK, Files
  <2>3. Halves(p) /\ pos[p] = Len(s) + 1
    BY <1>1, <2>1, <2>2 DEF AtWork
  <2>4. s # <<>>
    BY Zenon, ZenonT(60), <2>1, <2>2, <2>3 DEF Halves, Well
  <2>5. pos[p] > 1
    <3>1. Len(s) \in Nat /\ Len(s) # 0
      BY <2>4
    <3>2. pos[p] = Len(s) + 1
      BY <2>3
    <3> QED
      BY <3>1, <3>2
  <2>6. Goto(p, "get_pid")
    BY Zenon, ZenonT(60), <1>9, <2>1, <2>5 DEF ModifyEnd
  <2> QED
    BY Zenon, ZenonT(60), <1>3, <2>6
<1> QED
  BY Zenon, ZenonT(60), <1>4, <1>5, <1>6, <1>7, <1>8, <1>9

\* A step that changes a file is of an invocation that will notify the server.
LEMMA FileStepsDue ==
    ASSUME Announced, ServedInv, NEW p \in Procs,
           \/ LockExclusive(p) \/ CreateNew(p) \/ OpenAppend(p) \/ WriteHeader(p) \/ CommitEntry(p) \/ Unlock(p)
           \/ ReadFile(p) \/ Truncate(p) \/ WriteBack(p) \/ DeleteEntryEnd(p) \/ ModifyEnd(p)
    PROVE  UNCHANGED <<server, pidfile>> /\ \A n \in Networks : Synced(n)' \/ Due(n)'
<1>1. TypeOK /\ Own(p) /\ UNCHANGED <<server, pidfile, pid>>
  BY Zenon, ZenonT(60) DEF ServedInv, FilesInv, LockExclusive, CreateNew, OpenAppend, WriteHeader, CommitEntry, Unlock,
         ReadFile, Truncate, WriteBack, DeleteEntryEnd, ModifyEnd
<1>2. /\ \A q \in Procs \ {p} : pc'[q] = pc[q]
      /\ Notifies(p)' \/ (~Notifies(p) /\ file' = file)
  BY Zenon, ZenonT(60), GoesOnToNotify
<1>3. \A n \in Networks : file'[n] = file[n] \/ n \in Cmd[p].nets
  BY Zenon, ZenonT(60), <1>1, ChangesOwn
<1> QED
  BY Zenon, ZenonT(60), <1>1, <1>2, <1>3, StillDue

\* get_aardvark_pid: what it reads is the pid of the server, if there is one.
LEMMA GetPidDue ==
    ASSUME ServedInv, NEW p \in Procs, GetPid(p)
    PROVE  PidKnown' /\ \A n \in Networks : Synced(n)' \/ Due(n)'
<1>1. /\ TypeOK /\ pc[p] = "get_pid" /\ pid' = [pid EXCEPT ![p] = pidfile] /\ PidKnown
      /\ pc' = [pc EXCEPT ![p] = IF pidfile # 0 THEN "kill" ELSE IF Starts(p) THEN "start" ELSE "failed"]
      /\ UNCHANGED <<file, server, pidfile>>
  BY DEF GetPid, Goto, ServedInv, FilesInv, PidKnown
<1>2. \A q \in Procs \ {p} : pc'[q] = pc[q] /\ pid'[q] = pid[q]
  BY <1>1 DEF TypeOK
<1>3. /\ pid'[p] = pidfile
      /\ pc'[p] = IF pidfile # 0 THEN "kill" ELSE IF Starts(p) THEN "start" ELSE "failed"
  BY <1>1 DEF TypeOK
<1>4. server.alive => pidfile # 0 /\ server.id = pidfile
  <2>1. PidKnown /\ server.id \in Nat
    BY <1>1 DEF TypeOK, Servers
  <2>2. server.id > 0 => server.id # 0
    BY <2>1
  <2> QED
    BY <2>1, <2>2, Zenon, ZenonT(60) DEF PidKnown
<1>5. Notifies(p)'
  BY <1>1, <1>3, <1>4 DEF Notifies, WillNotify
<1>6. PidKnown'
  BY <1>1 DEF PidKnown
<1> QED
  BY <1>1, <1>2, <1>5, <1>6, StillDue

\* kill: the signal is delivered, or p goes on to start a server.
LEMMA KillDue ==
    ASSUME ServedInv, NEW p \in Procs, Kill(p)
    PROVE  PidKnown' /\ \A n \in Networks : Synced(n)' \/ Due(n)'
<1>1. TypeOK /\ pc[p] = "kill" /\ PidKnown /\ UNCHANGED <<file, pidfile, pid>>
  BY DEF Kill, ServedInv, FilesInv, PidKnown
<1>2. CASE server.alive /\ server.id = pid[p]
  <2>1. server' = [server EXCEPT !.hup = TRUE]
    BY <1>2 DEF Kill
  <2>2. server'.hup /\ server'.alive = server.alive /\ server'.id = server.id
    BY <1>1, <2>1 DEF TypeOK, Servers
  <2> QED
    BY Zenon, ZenonT(60), <1>1, <1>2, <2>2 DEF Synced, PidKnown
<1>3. CASE ~(server.alive /\ server.id = pid[p])
  <2>1. server' = server /\ pc' = [pc EXCEPT ![p] = IF Starts(p) THEN "start" ELSE "failed"]
    BY <1>3 DEF Kill, Goto
  <2>2. /\ \A q \in Procs \ {p} : pc'[q] = pc[q] /\ pid'[q] = pid[q]
        /\ pc'[p] = IF Starts(p) THEN "start" ELSE "failed"
    BY <1>1, <2>1 DEF TypeOK
  <2>3. Notifies(p) => ~server.alive
    BY Zenon, ZenonT(60), <1>1, <1>3 DEF Notifies, WillNotify, Committing
  <2>4. Notifies(p) => Notifies(p)'
    BY <2>1, <2>2, <2>3 DEF Notifies, WillNotify
  <2>5. PidKnown'
    BY <1>1, <2>1 DEF PidKnown
  <2> QED
    BY Zenon, ZenonT(60), <1>1, <2>1, <2>2, <2>4, <2>5, StillDue
<1> QED
  BY <1>2, <1>3

\* start_aardvark_server: the new server has loaded the files, or the one that
\* is up stays; p was to notify only if there was none.
LEMMA StartDue ==
    ASSUME ServedInv, NEW p \in Procs, StartServer(p)
    PROVE  PidKnown' /\ \A n \in Networks : Synced(n)' \/ Due(n)'
<1>1. TypeOK /\ pc[p] = "start" /\ PidKnown /\ UNCHANGED <<file, pid>>
  BY DEF StartServer, ServedInv, FilesInv, PidKnown
<1>2. CASE Launch
  <2>1. server'.alive = ~NoConfig /\ server'.view = Config /\ server'.id = server.id + 1 /\ pidfile' = server.id + 1
    BY <1>2 DEF Launch
  <2>2. server.id + 1 > 0
    BY <1>1 DEF TypeOK, Servers
  <2>3. \A n \in Networks : Synced(n)'
    BY <1>1, <2>1, LoadSyncs
  <2> QED
    BY <2>1, <2>2, <2>3 DEF PidKnown
<1>3. CASE server.alive /\ UNCHANGED <<server, pidfile>>
  <2>1. \A q \in Procs \ {p} : pc'[q] = pc[q] /\ pid'[q] = pid[q]
    BY <1>1 DEF StartServer, Goto, TypeOK
  <2>2. ~Notifies(p)
    BY <1>1, <1>3 DEF Notifies, WillNotify, Committing
  <2>3. PidKnown'
    BY <1>1, <1>3 DEF PidKnown
  <2> QED
    BY Zenon, ZenonT(60), <1>1, <1>3, <2>1, <2>2, <2>3, StillDue
<1> QED
  BY <1>2, <1>3 DEF StartServer

\* The signal and the start of a server settle what is due.
LEMMA ReloadDue ==
    ASSUME ServedInv, ServerReload
    PROVE  PidKnown' /\ \A n \in Networks : Synced(n)'
<1>1. TypeOK /\ PidKnown /\ server.alive /\ UNCHANGED file
  BY DEF ServerReload, ServedInv, FilesInv, PidKnown
<1>2. server' = [server EXCEPT !.hup = FALSE, !.view = Config, !.alive = ~NoConfig]
  BY DEF ServerReload
<1>3. server'.view = Config /\ server'.alive = ~NoConfig /\ server'.id = server.id
  BY <1>1, <1>2 DEF TypeOK, Servers
<1>4. ~NoConfig => pidfile' = pidfile
  BY DEF ServerReload
<1>5. PidKnown'
  BY Zenon, ZenonT(60), <1>1, <1>3, <1>4 DEF PidKnown
<1> QED
  BY <1>1, <1>3, <1>5, LoadSyncs

\* A command that begins changes no file.
LEMMA BeginDue ==
    ASSUME ServedInv, NEW p \in Procs, Begin(p)
    PROVE  PidKnown' /\ \A n \in Networks : Synced(n)' \/ Due(n)'
<1>1. TypeOK /\ pc[p] = "idle" /\ PidKnown /\ UNCHANGED <<file, server, pidfile, pid>>
  BY DEF Begin, ServedInv, FilesInv, PidKnown
<1>2. \A q \in Procs \ {p} : pc'[q] = pc[q] /\ pid'[q] = pid[q]
  BY Zenon, ZenonT(60), <1>1 DEF Begin, Goto, TypeOK
<1>3. ~Notifies(p)
  BY <1>1 DEF Notifies, WillNotify, Committing
<1>4. PidKnown'
  BY <1>1 DEF PidKnown
<1> QED
  BY <1>1, <1>2, <1>3, <1>4, StillDue

\* No file, no server, nothing due.
LEMMA ServedInit == Init => ServedInv
<1> SUFFICES ASSUME Init PROVE ServedInv
  OBVIOUS
<1>1. FilesInv
  BY FilesInit
<1>2. ~server.alive /\ \A n \in Networks : ~file[n].exists
  BY DEF Init
<1>3. \A p \in Procs : Own(p)
  <2> TAKE p \in Procs
  <2>1. \E n \in Networks : n \in Cmd[p].nets
    BY CmdAssumption
  <2>2. todo[p] = {} /\ net[p] = CHOOSE n \in Networks : n \in Cmd[p].nets
    BY DEF Init
  <2> QED
    BY Zenon, ZenonT(60), <2>1, <2>2 DEF Own
<1> QED
  BY Zenon, ZenonT(60), <1>1, <1>2, <1>3 DEF ServedInv, Synced, PidKnown

\* Every step keeps the server up to date, or a notification due.
LEMMA ServedNext ==
    ASSUME Serial, Announced, ServedInv, [Next]_vars
    PROVE  ServedInv'
<1>1. FilesInv' /\ \A p \in Procs : Own(p)'
  BY FilesNext, OwnStays DEF ServedInv, FilesInv
<1>2. ASSUME NEW p \in Procs, Begin(p) \/ GetPid(p) \/ Kill(p) \/ StartServer(p)
      PROVE  PidKnown' /\ \A n \in Networks : Synced(n)' \/ Due(n)'
  BY <1>2, BeginDue, GetPidDue, KillDue, StartDue
<1>3. ASSUME NEW p \in Procs,
             \/ LockExclusive(p) \/ CreateNew(p) \/ OpenAppend(p) \/ WriteHeader(p) \/ CommitEntry(p) \/ Unlock(p)
             \/ ReadFile(p) \/ Truncate(p) \/ WriteBack(p) \/ DeleteEntryEnd(p) \/ ModifyEnd(p)
      PROVE  PidKnown' /\ \A n \in Networks : Synced(n)' \/ Due(n)'
  <2>1. UNCHANGED <<server, pidfile>> /\ \A n \in Networks : Synced(n)' \/ Due(n)'
    BY <1>3, FileStepsDue
  <2>2. PidKnown
    BY DEF ServedInv
  <2> QED
    BY <2>1, <2>2 DEF PidKnown
<1>4. CASE ServerReload
  BY <1>1, <1>4, ReloadDue DEF ServedInv
<1>5. CASE UNCHANGED vars
  <2>1. UNCHANGED <<file, server, pidfile, pc, pid>>
    BY <1>5 DEF vars, procVars
  <2>2. PidKnown'
    BY <2>1 DEF ServedInv, PidKnown
  <2>3. \A n \in Networks : Synced(n)' \/ Due(n)'
    BY <2>1 DEF ServedInv, Synced, Config, Due, Notifies, WillNotify
  <2> QED
    BY <1>1, <2>2, <2>3 DEF ServedInv
<1>6. ASSUME NEW p \in Procs, Begin(p) \/ Step(p) PROVE PidKnown' /\ \A n \in Networks : Synced(n)' \/ Due(n)'
  BY <1>2, <1>3, <1>6 DEF Step
<1>7. ~ServerCrash /\ \A p \in Procs : ~Abort(p)
  BY NoFault DEF ServedInv
<1> QED
  BY <1>1, <1>4, <1>5, <1>6, <1>7 DEF Next, ServedInv

\* When no command is in progress and no signal is pending, the server has
\* loaded what the files say and runs if there is a file, but for networks of a
\* command that reported an error: the notification comes after the last write
\* of every command, whichever of its ways it takes.
THEOREM ServerIsUpToDate ==
    ASSUME Serial, Announced
    PROVE  Spec => []ServedWhenQuiet
<1>1. Init => ServedInv
  BY ServedInit
<1>2. ServedInv /\ [Next]_vars => ServedInv'
  BY ServedNext
<1>3. ServedInv => ServedWhenQuiet
  <2> SUFFICES ASSUME ServedInv, Quiet, NEW n \in Networks
               PROVE  \/ \E p \in Procs : pc[p] \in {"failed", "aborted"} /\ n \in Cmd[p].nets
                      \/ IF server.alive THEN server.view[n] = Config[n] ELSE ~file[n].exists
    BY DEF ServedWhenQuiet
  <2>1. \A p \in Procs : ~WillNotify(p)
    BY DEF Quiet, Settled, WillNotify, Committing
  <2>2. CASE Due(n)
    BY <2>1, <2>2 DEF Due, Notifies
  <2>3. CASE Synced(n)
    BY <2>3 DEF Synced, Quiet
  <2> QED
    BY <2>2, <2>3 DEF ServedInv
<1> QED
  BY <1>1, <1>2, <1>3, PTL DEF Spec

-----------------------------------------------------------------------------
\* The registry.

\* What an invocation knows of the file that it has opened or read.
Knows(p) ==
    LET s == file[net[p]].lines IN
    /\ pc[p] = "entry" => IF app[p] THEN Len(s) > 1 ELSE s[1].rest = Cmd[p].dns
    /\ pc[p] = "truncate" => buf[p] = s

RegistryInv == FilesInv /\ \A p \in Procs : Own(p) /\ Knows(p)

\* A step of p is about p's own descriptor, buffer and network.
LEMMA OthersStay ==
    ASSUME TypeOK, NEW p \in Procs, Step(p) \/ Begin(p)
    PROVE  \A q \in Procs \ {p} : /\ pc'[q] = pc[q] /\ net'[q] = net[q] /\ app'[q] = app[q]
                                  /\ buf'[q] = buf[q] /\ pos'[q] = pos[q]
<1>1. /\ \E l : pc' = [pc EXCEPT ![p] = l] \/ pc' = pc
      /\ \E l : net' = [net EXCEPT ![p] = l] \/ net' = net
      /\ \E l : app' = [app EXCEPT ![p] = l] \/ app' = app
      /\ \E l : buf' = [buf EXCEPT ![p] = l] \/ buf' = buf
      /\ \E l : pos' = [pos EXCEPT ![p] = l] \/ pos' = pos
  <2>1. CASE Begin(p) \/ LockExclusive(p) \/ Unlock(p) \/ GetPid(p) \/ StartServer(p)
    BY <2>1, Zenon, ZenonT(60) DEF Begin, LockExclusive, Unlock, GetPid, StartServer, Goto
  <2>2. CASE CreateNew(p)
    BY <2>2, Zenon, ZenonT(60) DEF CreateNew, Goto
  <2>3. CASE OpenAppend(p) \/ Kill(p)
    BY <2>3, Zenon, ZenonT(60) DEF OpenAppend, Kill, Goto
  <2>4. CASE WriteHeader(p) \/ CommitEntry(p)
    BY <2>4, Zenon, ZenonT(60) DEF WriteHeader, CommitEntry, Goto
  <2>5. CASE ReadFile(p)
    BY <2>5, Zenon, ZenonT(60) DEF ReadFile, Goto
  <2>6. CASE Truncate(p)
    BY <2>6, Zenon, ZenonT(60) DEF Truncate, Goto
  <2>7. CASE WriteBack(p)
    BY <2>7, Zenon, ZenonT(60) DEF WriteBack
  <2>8. CASE DeleteEntryEnd(p) \/ ModifyEnd(p)
    BY <2>8, Zenon, ZenonT(60) DEF DeleteEntryEnd, ModifyEnd, Goto
  <2> QED
    BY <2>1, <2>2, <2>3, <2>4, <2>5, <2>6, <2>7, <2>8, ZenonT(60), ZenonT(90) DEF Step
<1> QED
  BY <1>1 DEF TypeOK

\* Only commit_entries, delete_entry and modify_network_dns_servers write files.
LEMMA FileWriters ==
    ASSUME NEW p \in Procs, Step(p) \/ Begin(p)
    PROVE  file' = file \/ pc[p] \in Committing \cup Rewriting
<1>1. CASE Begin(p) \/ LockExclusive(p) \/ Unlock(p) \/ GetPid(p) \/ StartServer(p) \/ Kill(p)
  BY <1>1 DEF Begin, LockExclusive, Unlock, GetPid, StartServer, Kill
<1>2. CASE CreateNew(p) \/ OpenAppend(p) \/ WriteHeader(p) \/ CommitEntry(p)
  BY <1>2, Zenon, ZenonT(60) DEF CreateNew, OpenAppend, WriteHeader, CommitEntry, Committing
<1>3. CASE ReadFile(p) \/ Truncate(p) \/ WriteBack(p) \/ DeleteEntryEnd(p) \/ ModifyEnd(p)
  BY <1>3 DEF ReadFile, Truncate, WriteBack, DeleteEntryEnd, ModifyEnd, Rewriting
<1> QED
  BY <1>1, <1>2, <1>3 DEF Step

\* Nobody else writes while an invocation is at its file.
LEMMA KnowsOthers ==
    ASSUME RegistryInv, NEW p \in Procs,
           \A q \in Procs \ {p} : pc'[q] = pc[q] /\ net'[q] = net[q] /\ app'[q] = app[q] /\ buf'[q] = buf[q],
           file' = file \/ pc[p] \in Committing \cup Rewriting
    PROVE  \A q \in Procs \ {p} : Knows(q)'
<1> TAKE q \in Procs \ {p}
<1>1. Knows(q) /\ FilesInv
  BY DEF RegistryInv
<1>2. CASE file' = file
  BY <1>1, <1>2 DEF Knows
<1>3. CASE pc[p] \in Committing \cup Rewriting
  <2>1. pc[q] \notin FilePcs
    BY <1>1, <1>3, Exclusive
  <2> QED
    BY <2>1 DEF Knows, FilePcs
<1> QED
  BY <1>2, <1>3

\* What the invocation that moves learns: the file it appends to has an entry,
\* the one it has made has its own header, what it has read is the file.
LEMMA KnowsOwn ==
    ASSUME RegistryInv, NEW p \in Procs, Step(p) \/ Begin(p)
    PROVE  Knows(p)'
<1>1. TypeOK /\ FilesInv /\ AtWork(p)
  BY DEF RegistryInv, FilesInv
<1>2. CASE OpenAppend(p)
  <2>1. pc[p] = "append" /\ UNCHANGED <<file, net>>
    BY <1>2 DEF OpenAppend
  <2>2. PICK m \in Networks : m = net[p]
    BY <1>1 DEF TypeOK
  <2>3. file[m].exists
    BY <1>1, <2>1, <2>2 DEF AtWork, FilePcs
  <2>4. pc' = [pc EXCEPT ![p] = "entry"] /\ app' = [app EXCEPT ![p] = TRUE]
    BY <1>2, <2>2, <2>3 DEF OpenAppend, Goto
  <2>5. pc'[p] = "entry" /\ app'[p]
    BY <1>1, <2>4 DEF TypeOK
  <2>6. pc[p] \in Committing \cup Rewriting /\ pc[p] \notin {"header", "entry", "write"}
    BY <2>1 DEF Committing
  <2>7. Len(file[m].lines) > 1
    BY <1>1, <2>3, <2>6, AtRest
  <2> QED
    BY <2>1, <2>2, <2>5, <2>7 DEF Knows
<1>3. CASE WriteHeader(p)
  <2>1. /\ pc[p] = "header" /\ Write(p, Header(Cmd[p].dns))
        /\ pc' = [pc EXCEPT ![p] = "entry"] /\ UNCHANGED <<net, app>>
    BY <1>3 DEF WriteHeader, Goto
  <2>2. PICK m \in Networks : m = net[p]
    BY <1>1 DEF TypeOK
  <2>3. PICK line \in Line : line = Header(Cmd[p].dns)
    BY LineTypes
  <2>4. file[m].exists /\ fd[p] = file[m].gen /\ ~app[p] /\ pos[p] = 1 /\ file[m].lines = <<>>
    BY <1>1, <2>1, <2>2 DEF AtWork, FilePcs
  <2>5. Len(file[m].lines) = 0 /\ pos[p] = Len(file[m].lines) + 1
    BY <2>4
  <2>6. file[net[p]].exists /\ fd[p] = file[net[p]].gen /\ Write(p, line) /\ pos[p] = Len(file[net[p]].lines) + 1
    BY <2>1, <2>2, <2>3, <2>4, <2>5, Zenon, ZenonT(60)
  <2>7. file'[m].lines[Len(file[m].lines) + 1] = line
    BY <1>1, <2>2, <2>6, WriteGrows, ZenonT(60), ZenonT(90)
  <2>8. file'[m].lines[1] = line
    BY <2>5, <2>7
  <2>9. line.rest = Cmd[p].dns
    BY <2>3 DEF Header
  <2>10. pc'[p] = "entry" /\ ~app'[p] /\ net'[p] = m
    BY <1>1, <2>1, <2>2, <2>4, ZenonT(60), ZenonT(90) DEF TypeOK
  <2> QED
    BY <2>8, <2>9, <2>10 DEF Knows
<1>4. CASE ReadFile(p)
  <2>1. PICK n \in Networks : /\ n \in todo[p] /\ net' = [net EXCEPT ![p] = n] /\ UNCHANGED file
                              /\ file[n].exists => buf' = [buf EXCEPT ![p] = file[n].lines]
                              /\ ~file[n].exists => pc' = [pc EXCEPT ![p] = IF Cmd[p].kind = "teardown" THEN "failed" ELSE "done"]
                              /\ file[n].exists => pc' = [pc EXCEPT ![p] = "truncate"]
    BY ZenonT(60), ZenonT(90), <1>1, <1>4 DEF ReadFile, Goto, TypeOK
  <2>2. net'[p] = n
    BY <1>1, <2>1, ZenonT(60), ZenonT(90) DEF TypeOK
  <2>3. CASE file[n].exists
    <3>1. buf'[p] = file[n].lines /\ pc'[p] = "truncate"
      BY <1>1, <2>1, <2>3, ZenonT(60), ZenonT(90) DEF TypeOK
    <3> QED
      BY <2>1, <2>2, <3>1 DEF Knows
  <2>4. CASE ~file[n].exists
    <3>1. pc'[p] \in {"failed", "done"}
      BY <1>1, <2>1, <2>4 DEF TypeOK
    <3> QED
      BY <3>1 DEF Knows
  <2> QED
    BY <2>3, <2>4
<1>5. CASE ~(OpenAppend(p) \/ WriteHeader(p) \/ ReadFile(p))
  <2>1. \E l \in Labels \ {"entry", "truncate"} : pc' = [pc EXCEPT ![p] = l] \/ (pc' = pc /\ pc[p] = l)
    <3>1. CASE Begin(p)
      <4>1. pc' = [pc EXCEPT ![p] = "lock"] \/ pc' = [pc EXCEPT ![p] = "read"]
        BY ZenonT(60), ZenonT(90), <3>1 DEF Begin, Goto
      <4> QED
        BY <4>1 DEF Labels
    <3>2. CASE CreateNew(p)
      BY <3>2, Zenon, ZenonT(60) DEF CreateNew, Goto, Labels, Committing
    <3>3. CASE LockExclusive(p) \/ CommitEntry(p) \/ Unlock(p) \/ StartServer(p) \/ Truncate(p)
      BY Zenon, ZenonT(60), <3>3 DEF LockExclusive, CommitEntry, Unlock, StartServer, Truncate, Goto, Labels, Committing, Settled
    <3>4. CASE GetPid(p) \/ Kill(p)
      BY <3>4 DEF GetPid, Kill, Goto, Labels, Settled
    <3>5. CASE DeleteEntryEnd(p) \/ ModifyEnd(p)
      BY <3>5 DEF DeleteEntryEnd, ModifyEnd, Goto, Labels, Settled
    <3>6. CASE WriteBack(p)
      BY <3>6, Zenon, ZenonT(60) DEF WriteBack, Labels
    <3> QED
      BY <1>5, <3>1, <3>2, <3>3, <3>4, <3>5, <3>6 DEF Step
  <2>2. pc'[p] \notin {"entry", "truncate"}
    BY <1>1, <2>1 DEF TypeOK
  <2> QED
    BY <2>2 DEF Knows
<1> QED
  BY <1>2, <1>3, <1>4, <1>5

\* Every step leaves the invocations with what they know.
LEMMA RegistryInvNext ==
    ASSUME Serial, RegistryInv, [Next]_vars
    PROVE  RegistryInv'
<1>1. TypeOK /\ FilesInv /\ FilesInv' /\ \A p \in Procs : Own(p)'
  BY FilesNext, OwnStays DEF RegistryInv, FilesInv
<1>2. ASSUME NEW p \in Procs, Step(p) \/ Begin(p) PROVE \A q \in Procs : Knows(q)'
  <2>1. \A q \in Procs \ {p} : pc'[q] = pc[q]
    BY <1>1, <1>2, OthersStay
  <2>2. \A q \in Procs \ {p} : net'[q] = net[q] /\ app'[q] = app[q] /\ buf'[q] = buf[q]
    BY <1>1, <1>2, OthersStay
  <2>3. file' = file \/ pc[p] \in Committing \cup Rewriting
    BY <1>2, FileWriters
  <2> QED
    BY <1>2, <2>1, <2>2, <2>3, KnowsOwn, KnowsOthers
<1>3. ASSUME ServerReload \/ UNCHANGED vars PROVE \A q \in Procs : Knows(q)'
  <2>1. UNCHANGED <<file, pc, net, app, buf>>
    BY <1>3 DEF ServerReload, vars, procVars
  <2>2. ASSUME NEW q \in Procs PROVE Knows(q)'
    <3>1. Knows(q) /\ file' = file /\ pc'[q] = pc[q] /\ net'[q] = net[q] /\ app'[q] = app[q] /\ buf'[q] = buf[q]
      BY <2>1 DEF RegistryInv
    <3> QED
      BY <3>1 DEF Knows
  <2> QED
    BY <2>2
<1>4. \A q \in Procs : Knows(q)'
  <2>1. ServerReload \/ UNCHANGED vars \/ \E p \in Procs : Step(p) \/ Begin(p)
    BY <1>1, NoFault DEF Next
  <2> QED
    BY <1>2, <1>3, <2>1
<1> QED
  BY <1>1, <1>4 DEF RegistryInv

-----------------------------------------------------------------------------
\* The mapping.

\* A step that keeps what the registry has of n.
Same(n) ==
    /\ \A c \in Containers : Registered(n, c)' <=> Registered(n, c)
    /\ (\E c \in Containers : Registered(n, c)) => HeaderDns(n)' = HeaderDns(n)

\* A step that keeps the registry of every network.
LEMMA SameAll ==
    ASSUME \A n \in Networks : Same(n)
    PROVE  UNCHANGED <<EffectiveEntries, EffectiveServers>>
<1>1. ASSUME NEW n \in Networks PROVE EffectiveEntries'[n] = EffectiveEntries[n]
  BY DEF Same, EffectiveEntries
<1>2. EffectiveEntries' = EffectiveEntries
  BY <1>1 DEF EffectiveEntries
<1>3. ASSUME NEW n \in Networks PROVE EffectiveServers'[n] = EffectiveServers[n]
  <2>1. CASE EffectiveEntries[n] = {}
    BY <1>2, <2>1 DEF EffectiveServers
  <2>2. CASE EffectiveEntries[n] # {}
    <3>1. HeaderDns(n)' = HeaderDns(n)
      BY <2>2 DEF Same, EffectiveEntries
    <3> QED
      BY <1>2, <2>2, <3>1 DEF EffectiveServers
  <2> QED
    BY <2>1, <2>2
<1>4. EffectiveServers' = EffectiveServers
  BY <1>3 DEF EffectiveServers
<1> QED
  BY <1>2, <1>4

\* A file that is being rewritten by p.
LEMMA RewrittenReads ==
    ASSUME NEW n \in Networks, NEW p \in Procs, Rewriters(n) = {p}
    PROVE  /\ \A c \in Containers : Registered(n, c) <=> \/ file[n].exists /\ Holds(file[n].lines, Entry(c))
                                                         \/ Holds(buf[p], Entry(c)) /\ ~Skips(p, Entry(c))
           /\ file[n].lines = <<>> => HeaderDns(n) = Rewritten(p, Head(buf[p])).rest
<1>1. Rewriter(n) = p
  BY Zenon, ZenonT(60) DEF Rewriter
<1> QED
  BY <1>1, Zenon, ZenonT(60) DEF Registered, HeaderDns

\* Nothing is written, and p is not, and does not become, a rewriter.
LEMMA Quietly ==
    ASSUME NEW p \in Procs, file' = file, pc[p] # "write", pc'[p] # "write",
           \A q \in Procs \ {p} : pc'[q] = pc[q] /\ net'[q] = net[q] /\ buf'[q] = buf[q] /\ pos'[q] = pos[q]
    PROVE  \A n \in Networks : Same(n)
<1> TAKE n \in Networks
<1>1. Rewriters(n)' = Rewriters(n) /\ p \notin Rewriters(n)
  BY DEF Rewriters
<1>2. \A q \in Rewriters(n) : buf'[q] = buf[q] /\ pos'[q] = pos[q]
  BY <1>1 DEF Rewriters
<1>3. ASSUME NEW c \in Containers PROVE Registered(n, c)' <=> Registered(n, c)
  <2>1. Holds(file[n].lines, Entry(c))' <=> Holds(file[n].lines, Entry(c))
    BY DEF Holds, Entry
  <2>2. ASSUME NEW q \in Rewriters(n)
        PROVE  /\ Holds(buf[q], Entry(c))' <=> Holds(buf[q], Entry(c))
               /\ Skips(q, Entry(c))' <=> Skips(q, Entry(c))
    <3>1. buf'[q] = buf[q]
      BY <1>2, Zenon, ZenonT(60)
    <3>2. Holds(buf[q], Entry(c))' <=> Holds(buf[q], Entry(c))
      BY <3>1 DEF Holds, Entry
    <3>3. Skips(q, Entry(c))' <=> Skips(q, Entry(c))
      BY DEF Skips, Contains, Entry
    <3> QED
      BY <3>2, <3>3, Zenon, ZenonT(60)
  <2> QED
    BY <1>1, <2>1, <2>2, ZenonT(60), ZenonT(90) DEF Registered
<1>4. ASSUME \E c \in Containers : Registered(n, c) PROVE HeaderDns(n)' = HeaderDns(n)
  <2>1. CASE file[n].lines # <<>>
    BY <2>1 DEF HeaderDns
  <2>2. CASE file[n].lines = <<>>
    <3>1. Rewriters(n) # {}
      BY <1>4, <2>2 DEF Registered, Holds
    <3>2. PICK q \in Rewriters(n) : q = Rewriter(n)
      BY <3>1, Zenon, ZenonT(60) DEF Rewriter
    <3>3. q = Rewriter(n)'
      BY <1>1, <3>2, Zenon, ZenonT(60) DEF Rewriter
    <3>4. Rewritten(q, Head(buf[q]))' = Rewritten(q, Head(buf[q]))
      BY <1>2 DEF Rewritten
    <3> QED
      <4>1. HeaderDns(n) = Rewritten(q, Head(buf[q])).rest
        BY <2>2, <3>2, ZenonT(60), ZenonT(90) DEF HeaderDns
      <4>2. file'[n].lines = <<>>
        BY <2>2
      <4>3. HeaderDns(n)' = (Rewritten(q, Head(buf[q]))').rest
        BY <3>3, <4>2, ZenonT(60), ZenonT(90) DEF HeaderDns, Rewritten
      <4> QED
        BY <3>4, <4>1, <4>3, Zenon, ZenonT(60)
  <2> QED
    BY <2>1, <2>2
<1> QED
  BY <1>3, <1>4, Zenon, ZenonT(60) DEF Same

\* Who rewrites a file when p is at one: p or nobody.
LEMMA OnlyRewriter ==
    ASSUME FilesInv, NEW p \in Procs, pc[p] \in Committing \cup Rewriting, \A q \in Procs \ {p} : pc'[q] = pc[q]
    PROVE  \A n \in Networks : /\ Rewriters(n) = IF pc[p] = "write" /\ net[p] = n THEN {p} ELSE {}
                               /\ Rewriters(n)' = IF pc'[p] = "write" /\ net'[p] = n THEN {p} ELSE {}
<1>1. \A q \in Procs \ {p} : pc[q] # "write" /\ pc'[q] # "write"
  BY Exclusive DEF FilePcs
<1> QED
  BY <1>1 DEF Rewriters

\* A file that p does not touch.
LEMMA LeftAlone ==
    ASSUME NEW n \in Networks, Rewriters(n) = {}, Rewriters(n)' = {}, file'[n] = file[n]
    PROVE  Same(n)
<1>1. \A c \in Containers : Registered(n, c)' <=> Registered(n, c)
  BY ZenonT(60), ZenonT(90) DEF Registered, Holds, Entry
<1>2. (\E c \in Containers : Registered(n, c)) => file[n].lines # <<>>
  BY DEF Registered, Holds
<1>3. ASSUME file[n].lines # <<>> PROVE HeaderDns(n)' = HeaderDns(n)
  BY <1>3, ZenonT(60), ZenonT(90) DEF HeaderDns
<1> QED
  BY <1>1, <1>2, <1>3 DEF Same

\* What a line added to a file, or taken from a buffer, changes.
LEMMA HoldsGrown ==
    ASSUME NEW s \in Seq(Line), NEW t \in Seq(Line), NEW line,
           Len(t) = Len(s) + 1, t[Len(s) + 1] = line, \A k \in 1 .. Len(s) : t[k] = s[k]
    PROVE  \A l : Holds(t, l) <=> Holds(s, l) \/ l = line
<1>1. Len(s) \in Nat /\ DOMAIN s = 1 .. Len(s) /\ DOMAIN t = 1 .. (Len(s) + 1)
  OBVIOUS
<1>2. Len(s) + 1 \in DOMAIN t /\ \A k \in DOMAIN s : k \in DOMAIN t /\ t[k] = s[k]
  BY <1>1
<1>3. \A k \in DOMAIN t : k \in DOMAIN s \/ k = Len(s) + 1
  BY <1>1
<1> QED
  BY <1>2, <1>3 DEF Holds

\* A sequence holds its head and what its tail holds (write_back copies line by line).
LEMMA HoldsTail ==
    ASSUME NEW b \in Seq(Line), b # <<>>
    PROVE  \A l : Holds(b, l) <=> l = Head(b) \/ Holds(Tail(b), l)
<1> DEFINE t == Tail(b)
<1>1. /\ Len(b) \in Nat /\ Len(b) > 0 /\ DOMAIN b = 1 .. Len(b) /\ Head(b) = b[1]
      /\ DOMAIN t = 1 .. (Len(b) - 1) /\ \A k \in 1 .. (Len(b) - 1) : t[k] = b[k + 1]
  OBVIOUS
<1> HIDE DEF t
<1>2. 1 \in DOMAIN b /\ \A k \in DOMAIN t : k + 1 \in DOMAIN b /\ t[k] = b[k + 1]
  BY <1>1
<1>3. ASSUME NEW k \in DOMAIN b, k # 1 PROVE \E j \in DOMAIN t : t[j] = b[k]
  <2>1. k - 1 \in DOMAIN t /\ (k - 1) + 1 = k
    BY <1>1, <1>3
  <2> QED
    BY <1>2, <2>1
<1>4. \A l : Holds(b, l) <=> l = b[1] \/ Holds(t, l)
  BY <1>2, <1>3 DEF Holds
<1> QED
  BY <1>1, <1>4 DEF t

\* The first line of a well-formed file is no entry, the second is one.
LEMMA WellHolds ==
    ASSUME NEW s \in Seq(Line), Well(s)
    PROVE  /\ Len(s) > 0 /\ Head(s) = s[1]
           /\ Len(s) > 1 => \E c \in Containers : Holds(s, Entry(c))
           /\ Len(s) <= 1 => \A c \in Containers : ~Holds(s, Entry(c))
<1>1. Len(s) \in Nat /\ DOMAIN s = 1 .. Len(s) /\ s # <<>>
  BY DEF Well
<1>2. Len(s) > 0 /\ Head(s) = s[1]
  BY <1>1
<1>3. ASSUME Len(s) > 1 PROVE \E c \in Containers : Holds(s, Entry(c))
  <2>1. 2 \in DOMAIN s
    BY <1>1, <1>3
  <2> QED
    BY <2>1 DEF Well, Holds
<1>4. ASSUME Len(s) <= 1, NEW c \in Containers PROVE ~Holds(s, Entry(c))
  <2>1. \A i \in DOMAIN s : i = 1
    BY <1>1, <1>4
  <2>2. s[1] # Entry(c)
    BY EntryFacts DEF Well
  <2> QED
    BY <2>1, <2>2 DEF Holds
<1> QED
  BY <1>2, <1>3, <1>4

\* A step that changes what the registry has of m only.
LEMMA ChangesOnly ==
    ASSUME NEW m \in Networks, \A n \in Networks \ {m} : Same(n), NEW X, NEW Y,
           {c \in Containers : Registered(m, c)'} = X,
           X = {} => Y = None, X # {} => HeaderDns(m)' = Y
    PROVE  /\ EffectiveEntries' = [EffectiveEntries EXCEPT ![m] = X]
           /\ EffectiveServers' = [EffectiveServers EXCEPT ![m] = Y]
<1>1. ASSUME NEW n \in Networks PROVE EffectiveEntries'[n] = IF n = m THEN X ELSE EffectiveEntries[n]
  BY DEF Same, EffectiveEntries
<1>2. EffectiveEntries' = [EffectiveEntries EXCEPT ![m] = X]
  BY ZenonT(60), ZenonT(90), <1>1 DEF EffectiveEntries
<1>3. ASSUME NEW n \in Networks PROVE EffectiveServers'[n] = IF n = m THEN Y ELSE EffectiveServers[n]
  <2>1. CASE n = m
    BY <1>1, <2>1 DEF EffectiveServers
  <2>2. CASE n # m /\ EffectiveEntries[n] = {}
    BY <1>1, <2>2 DEF EffectiveServers
  <2>3. CASE n # m /\ EffectiveEntries[n] # {}
    <3>1. HeaderDns(n)' = HeaderDns(n)
      BY <2>3 DEF Same, EffectiveEntries
    <3> QED
      BY <1>1, <2>3, <3>1 DEF EffectiveServers
  <2> QED
    BY <2>1, <2>2, <2>3, ZenonT(60), ZenonT(90)
<1>4. EffectiveServers' = [EffectiveServers EXCEPT ![m] = Y]
  BY Zenon, ZenonT(60), <1>3 DEF EffectiveServers
<1> QED
  BY <1>2, <1>4

-----------------------------------------------------------------------------
\* The steps.

\* A new file has nothing in it.
LEMMA CreateSame ==
    ASSUME FilesInv, NEW p \in Procs, CreateNew(p)
    PROVE  \A n \in Networks : Same(n)
<1>1. TypeOK /\ pc[p] = "create_new" /\ pc[p] \in Committing \cup Rewriting
  BY Zenon, ZenonT(60) DEF FilesInv, CreateNew, Committing
<1>2. \A q \in Procs \ {p} : pc'[q] = pc[q] /\ net'[q] = net[q] /\ buf'[q] = buf[q] /\ pos'[q] = pos[q]
  BY <1>1, OthersStay, ZenonT(60), ZenonT(90) DEF Step
<1>3. PICK m \in Networks :
        \/ file' = file /\ pc' = [pc EXCEPT ![p] = "append"]
        \/ /\ ~file[m].exists /\ pc' = [pc EXCEPT ![p] = "header"]
           /\ file' = [file EXCEPT ![m] = [gen |-> @.gen + 1, exists |-> TRUE, lines |-> <<>>]]
  BY ZenonT(60), ZenonT(90), <1>1 DEF CreateNew, Goto, TypeOK
<1>4. pc'[p] # "write"
  BY <1>1, <1>3 DEF TypeOK
<1>5. CASE file' = file
  BY <1>1, <1>2, <1>4, <1>5, Quietly, ZenonT(60), ZenonT(90)
<1>6. CASE file' # file
  <2>1. /\ \A n \in Networks \ {m} : file'[n] = file[n]
        /\ ~file[m].exists /\ file'[m].lines = <<>>
    <3> DEFINE fresh == [gen |-> file[m].gen + 1, exists |-> TRUE, lines |-> <<>>]
    <3>1. ~file[m].exists /\ file' = [file EXCEPT ![m] = fresh] /\ fresh.lines = <<>>
      BY <1>3, <1>6
    <3>2. DOMAIN file = Networks
      BY <1>1 DEF TypeOK, Files
    <3> HIDE DEF fresh
    <3> QED
      BY <3>1, <3>2
  <2>2. \A n \in Networks : Rewriters(n) = {} /\ Rewriters(n)' = {}
    BY <1>1, <1>2, <1>4, OnlyRewriter, Zenon, ZenonT(60)
  <2>3. ASSUME NEW c \in Containers PROVE ~Registered(m, c) /\ ~Registered(m, c)'
    <3>1. ~Holds(file[m].lines, Entry(c))'
      BY <2>1 DEF Holds
    <3> QED
      BY <2>1, <2>2, <3>1, ZenonT(60), ZenonT(90) DEF Registered
  <2>4. Same(m)
    BY <2>3 DEF Same
  <2>5. \A n \in Networks \ {m} : Same(n)
    BY <2>1, <2>2, LeftAlone
  <2> QED
    BY <2>4, <2>5
<1> QED
  BY <1>5, <1>6

\* A header is no entry.
LEMMA HeaderSame ==
    ASSUME FilesInv, FilesInv', NEW p \in Procs, WriteHeader(p)
    PROVE  \A n \in Networks : Same(n)
<1>1. /\ TypeOK /\ TypeOK' /\ AtWork(p) /\ pc[p] = "header" /\ Write(p, Header(Cmd[p].dns))
      /\ pc' = [pc EXCEPT ![p] = "entry"] /\ pc[p] \in Committing \cup Rewriting
  BY DEF FilesInv, WriteHeader, Goto, Committing
<1>2. \A q \in Procs \ {p} : pc'[q] = pc[q]
  BY <1>1, OthersStay, Zenon, ZenonT(60) DEF Step
<1>3. PICK m \in Networks : m = net[p]
  BY <1>1, Zenon, ZenonT(60) DEF TypeOK
<1>4. PICK line \in Line : line = Header(Cmd[p].dns)
  BY LineTypes
<1>5. file[m].exists /\ fd[p] = file[m].gen /\ pos[p] = 1 /\ file[m].lines = <<>>
  BY <1>1, <1>3, ZenonT(60), ZenonT(90) DEF AtWork, FilePcs
<1>6. pos[p] = Len(file[m].lines) + 1
  BY <1>5
<1>7. file[net[p]].exists /\ fd[p] = file[net[p]].gen /\ Write(p, line) /\ pos[p] = Len(file[net[p]].lines) + 1
  BY <1>1, <1>3, <1>4, <1>5, <1>6, ZenonT(60), ZenonT(90)
<1>8. /\ \A n \in Networks \ {m} : file'[n] = file[n]
      /\ Len(file'[m].lines) = Len(file[m].lines) + 1
      /\ file'[m].lines[Len(file[m].lines) + 1] = line
      /\ \A k \in 1 .. Len(file[m].lines) : file'[m].lines[k] = file[m].lines[k]
  BY <1>1, <1>3, <1>7, WriteGrows, ZenonT(60), ZenonT(90)
<1>9. file[m].lines \in Seq(Line) /\ file'[m].lines \in Seq(Line)
  BY ZenonT(60), ZenonT(90), <1>1 DEF TypeOK, Files
<1>10. \A l : Holds(file'[m].lines, l) <=> Holds(file[m].lines, l) \/ l = line
  <2>1. PICK s \in Seq(Line) : s = file[m].lines
    BY <1>9
  <2>2. PICK t \in Seq(Line) : t = file'[m].lines
    BY <1>9
  <2>3. Len(t) = Len(s) + 1 /\ t[Len(s) + 1] = line /\ \A k \in 1 .. Len(s) : t[k] = s[k]
    BY <1>8, <2>1, <2>2, Zenon, ZenonT(60)
  <2>4. \A l : Holds(t, l) <=> Holds(s, l) \/ l = line
    BY <2>3, HoldsGrown
  <2> QED
    BY <2>1, <2>2, <2>4
<1>11. \A n \in Networks : Rewriters(n) = {} /\ Rewriters(n)' = {}
  <2>1. pc'[p] # "write"
    BY <1>1, Zenon, ZenonT(60) DEF TypeOK
  <2> QED
    BY <1>1, <1>2, <2>1, OnlyRewriter, Zenon, ZenonT(60)
<1>12. ASSUME NEW c \in Containers PROVE ~Registered(m, c) /\ ~Registered(m, c)'
  <2>1. Entry(c) # line
    BY <1>4, EntryFacts DEF Header
  <2>2. ~Holds(file[m].lines, Entry(c))
    BY <1>5 DEF Holds
  <2>3. ~Holds(file'[m].lines, Entry(c))
    BY <1>10, <2>1, <2>2
  <2>4. ~Holds(file[m].lines, Entry(c))'
    BY <2>3 DEF Holds, Entry
  <2> QED
    BY <1>11, <2>2, <2>4, ZenonT(60), ZenonT(90) DEF Registered
<1>13. Same(m)
  BY <1>12 DEF Same
<1>14. \A n \in Networks \ {m} : Same(n)
  BY <1>8, <1>11, LeftAlone, ZenonT(60), ZenonT(90)
<1> QED
  BY <1>13, <1>14

\* The entry is there with one write; it is the first one only of the
\* invocation that has made the file, whose servers the header has.
LEMMA CommitRegisters ==
    ASSUME RegistryInv, FilesInv', NEW p \in Procs, CommitEntry(p)
    PROVE  Registry!Register(p, net[p])
<1>1. /\ FilesInv /\ TypeOK /\ TypeOK' /\ AtWork(p) /\ Placed(p) /\ Knows(p)
      /\ pc[p] = "entry" /\ Write(p, Entry(Cmd[p].ctr))
      /\ pc' = [pc EXCEPT ![p] = "create_new"] /\ pc[p] \in Committing \cup Rewriting
  BY DEF RegistryInv, FilesInv, CommitEntry, Goto, Committing
<1>2. \A q \in Procs \ {p} : pc'[q] = pc[q]
  BY <1>1, OthersStay, Zenon, ZenonT(60) DEF Step
<1>3. PICK m \in Networks : m = net[p]
  BY <1>1, Zenon, ZenonT(60) DEF TypeOK
<1>4. PICK c \in Containers : c = Cmd[p].ctr
  BY CmdAssumption
<1>5. PICK line \in Line : line = Entry(c)
  BY EntryFacts
<1>6. PICK s \in Seq(Line) : s = file[m].lines
  BY Zenon, ZenonT(60), <1>1 DEF TypeOK, Files
<1>7. PICK t \in Seq(Line) : t = file'[m].lines
  BY Zenon, ZenonT(60), <1>1 DEF TypeOK, Files
<1>8. file[m].exists /\ fd[p] = file[m].gen /\ (app[p] \/ (pos[p] = 2 /\ Len(s) = 1))
  BY Zenon, ZenonT(60), <1>1, <1>3, <1>6 DEF AtWork, FilePcs
<1>9. ~app[p] => pos[p] = Len(s) + 1
  <2>1. pos[p] = 2 /\ Len(s) = 1 => pos[p] = Len(s) + 1
    OBVIOUS
  <2> QED
    BY <1>8, <2>1, Zenon, ZenonT(60)
<1>10. /\ file[net[p]].exists /\ fd[p] = file[net[p]].gen /\ Write(p, line)
       /\ ~app[p] => pos[p] = Len(file[net[p]].lines) + 1
  BY <1>1, <1>3, <1>4, <1>5, <1>6, <1>8, <1>9, ZenonT(60), ZenonT(90)
<1>11. /\ \A n \in Networks \ {m} : file'[n] = file[n]
       /\ file'[m].exists = file[m].exists
       /\ Len(t) = Len(s) + 1 /\ t[Len(s) + 1] = line /\ \A k \in 1 .. Len(s) : t[k] = s[k]
  BY ZenonT(60), ZenonT(90), <1>1, <1>3, <1>6, <1>7, <1>10, WriteGrows
<1>12. \A l : Holds(t, l) <=> Holds(s, l) \/ l = line
  BY <1>11, HoldsGrown
<1>13. \A n \in Networks : Rewriters(n) = {} /\ Rewriters(n)' = {}
  <2>1. pc'[p] # "write"
    BY Zenon, ZenonT(60), <1>1 DEF TypeOK
  <2> QED
    BY Zenon, ZenonT(60), <1>1, <1>2, <2>1, OnlyRewriter
<1>14. Well(s)
  BY Zenon, ZenonT(60), <1>1, <1>6, <1>8, AtRest
<1>15. ASSUME NEW d \in Containers
       PROVE  /\ Registered(m, d) <=> Holds(s, Entry(d))
              /\ Registered(m, d)' <=> Holds(s, Entry(d)) \/ d = c
  <2>1. Entry(d) = line <=> d = c
    BY <1>5, EntryFacts
  <2>2. Registered(m, d) <=> Holds(s, Entry(d))
    BY <1>6, <1>8, <1>13, Zenon, ZenonT(60) DEF Registered
  <2>3. Registered(m, d)' <=> Holds(t, Entry(d))
    BY <1>7, <1>8, <1>11, <1>13, Zenon, ZenonT(60) DEF Registered, Holds, Entry
  <2> QED
    BY <1>12, <2>1, <2>2, <2>3, ZenonT(60), ZenonT(90)
<1>16. HeaderDns(m) = s[1].rest /\ HeaderDns(m)' = s[1].rest
  <2>1. Len(s) > 0 /\ s # <<>> /\ t # <<>> /\ t[1] = s[1]
    BY <1>11, <1>14, WellHolds
  <2> QED
    BY <1>6, <1>7, <2>1, ZenonT(60), ZenonT(90) DEF HeaderDns
<1> DEFINE X == EffectiveEntries[m] \cup {c}
           Y == IF EffectiveEntries[m] = {} THEN Cmd[p].dns ELSE EffectiveServers[m]
<1>17. {d \in Containers : Registered(m, d)'} = X
  BY <1>15 DEF EffectiveEntries
<1>18. s[1].rest = Y
  <2>1. CASE EffectiveEntries[m] = {}
    <3>1. \A d \in Containers : ~Holds(s, Entry(d))
      BY <1>15, <2>1 DEF EffectiveEntries
    <3>2. ~(Len(s) > 1)
      BY <1>14, <3>1, WellHolds
    <3>3. s[1].rest = Cmd[p].dns
      BY <1>1, <1>3, <1>6, <3>2, ZenonT(60), ZenonT(90) DEF Knows
    <3> QED
      BY <2>1, <3>3
  <2>2. CASE EffectiveEntries[m] # {}
    BY <1>16, <2>2 DEF EffectiveServers
  <2> QED
    BY <2>1, <2>2
<1>19. \A n \in Networks \ {m} : Same(n)
  BY <1>11, <1>13, LeftAlone, Zenon, ZenonT(60)
<1>20. X # {} /\ HeaderDns(m)' = Y
  BY <1>16, <1>18, Zenon, ZenonT(60)
<1> HIDE DEF X, Y
<1>21. /\ EffectiveEntries' = [EffectiveEntries EXCEPT ![m] = X]
       /\ EffectiveServers' = [EffectiveServers EXCEPT ![m] = Y]
  BY ZenonT(60), ZenonT(90), <1>17, <1>19, <1>20, ChangesOnly
<1>22. Starts(p)
  BY <1>1 DEF Placed, Committing
<1> QED
  BY <1>3, <1>4, <1>21, <1>22 DEF Registry!Register, X, Y, Starts

\* With the truncation a teardown drops the lines it will skip, and an update
\* replaces the servers of the header it will write.
LEMMA TruncateDecides ==
    ASSUME RegistryInv, NEW p \in Procs, Truncate(p)
    PROVE  Registry!Deregister(p, net[p]) \/ Registry!SetServers(p, net[p])
<1>1. /\ FilesInv /\ TypeOK /\ AtWork(p) /\ Placed(p) /\ Knows(p)
      /\ pc[p] = "truncate" /\ UNCHANGED <<net, buf>> /\ pc[p] \in Committing \cup Rewriting
  BY Zenon, ZenonT(60) DEF RegistryInv, FilesInv, Truncate, Rewriting
<1>2. \A q \in Procs \ {p} : pc'[q] = pc[q]
  BY ZenonT(60), ZenonT(90), <1>1, OthersStay DEF Step
<1>3. PICK m \in Networks : m = net[p]
  BY <1>1 DEF TypeOK
<1>4. PICK b \in Seq(Line) : b = buf[p]
  BY <1>1 DEF TypeOK
<1>5. file[m].exists /\ file[m].lines = b /\ Well(b) /\ Len(b) > 1
  BY <1>1, <1>3, <1>4, ZenonT(60), ZenonT(90) DEF AtWork, FilePcs, Knows
<1>6. /\ file' = [file EXCEPT ![m] = [gen |-> file[m].gen, exists |-> TRUE, lines |-> <<>>]]
      /\ pos' = [pos EXCEPT ![p] = 1] /\ pc' = [pc EXCEPT ![p] = "write"]
  BY <1>3, <1>5, ZenonT(60), ZenonT(90) DEF Truncate, Goto
<1>7. /\ pc'[p] = "write" /\ pos'[p] = 1 /\ net'[p] = m /\ buf'[p] = b
      /\ file'[m].lines = <<>> /\ \A n \in Networks \ {m} : file'[n] = file[n]
  BY <1>1, <1>3, <1>4, <1>6, ZenonT(60), ZenonT(90) DEF TypeOK, Files
<1>8. /\ \A n \in Networks : Rewriters(n) = {}
      /\ \A n \in Networks \ {m} : Rewriters(n)' = {}
      /\ Rewriters(m)' = {p}
  BY <1>1, <1>2, <1>7, OnlyRewriter, ZenonT(60), ZenonT(90)
<1>9. ASSUME NEW c \in Containers
      PROVE  /\ Registered(m, c) <=> Holds(b, Entry(c))
             /\ Registered(m, c)' <=> /\ Holds(b, Entry(c))
                                      /\ ~(Cmd[p].kind = "teardown" /\ Cmd[p].ctr \in Mentions[c])
  <2>1. Registered(m, c) <=> Holds(b, Entry(c))
    BY <1>5, <1>8, ZenonT(60), ZenonT(90) DEF Registered
  <2>2. ~Holds(file[m].lines, Entry(c))'
    <3>1. file'[m].lines = <<>>
      BY <1>7, ZenonT(60), ZenonT(90)
    <3>2. DOMAIN <<>> = {}
      OBVIOUS
    <3> QED
      BY <3>1, <3>2, ZenonT(60), ZenonT(90) DEF Holds
  <2>3. Holds(buf[p], Entry(c))' <=> Holds(b, Entry(c))
    BY <1>7, ZenonT(60), ZenonT(90) DEF Holds, Entry
  <2>4. Skips(p, Entry(c))' <=> Cmd[p].kind = "teardown" /\ Cmd[p].ctr \in Mentions[c]
    BY DEF Skips, Contains, Entry
  <2>5. Registered(m, c)' <=> Holds(buf[p], Entry(c))' /\ ~Skips(p, Entry(c))'
    BY <1>8, <2>2, ZenonT(60), ZenonT(90) DEF Registered
  <2> QED
    BY ZenonT(60), ZenonT(90), <2>1, <2>3, <2>4, <2>5
<1>10. b # <<>> /\ Head(b) = b[1] /\ b[1] \in Line
  BY <1>5
<1>11. HeaderDns(m) = b[1].rest
  BY <1>5, <1>10, Zenon, ZenonT(60) DEF HeaderDns
<1>12. HeaderDns(m)' = IF Cmd[p].kind = "update" THEN Cmd[p].dns ELSE b[1].rest
  <2>1. Rewriter(m)' = p
    BY <1>8, Zenon, ZenonT(60) DEF Rewriter
  <2>2. HeaderDns(m)' = (Rewritten(p, Head(buf[p]))').rest
    BY <1>7, <2>1, Zenon, ZenonT(60) DEF HeaderDns, Rewritten
  <2>3. Rewritten(p, Head(buf[p]))' = IF Cmd[p].kind = "update" THEN [b[1] EXCEPT !.rest = Cmd[p].dns] ELSE b[1]
    BY <1>7, <1>10 DEF Rewritten
  <2>4. [b[1] EXCEPT !.rest = Cmd[p].dns].rest = Cmd[p].dns
    BY <1>10 DEF Line
  <2> QED
    BY ZenonT(60), ZenonT(90), <2>2, <2>3, <2>4
<1>13. \A n \in Networks \ {m} : Same(n)
  BY <1>7, <1>8, LeftAlone, Zenon, ZenonT(60)
<1>14. EffectiveEntries[m] = {c \in Containers : Holds(b, Entry(c))}
  BY <1>9, ZenonT(60), ZenonT(90) DEF EffectiveEntries
<1>15. EffectiveEntries[m] # {} => EffectiveServers[m] = b[1].rest
  BY <1>11 DEF EffectiveServers
<1>16. CASE Cmd[p].kind = "teardown"
  <2> DEFINE X == {c \in EffectiveEntries[m] : Cmd[p].ctr \notin Mentions[c]}
             Y == IF X = {} THEN None ELSE EffectiveServers[m]
  <2>1. {c \in Containers : Registered(m, c)'} = X
    BY <1>9, <1>14, <1>16, ZenonT(60), ZenonT(90)
  <2>2. X # {} => HeaderDns(m)' = Y
    BY <1>12, <1>15, <1>16
  <2>3. X = {} => Y = None
    OBVIOUS
  <2> HIDE DEF X, Y
  <2>4. /\ EffectiveEntries' = [EffectiveEntries EXCEPT ![m] = X]
        /\ EffectiveServers' = [EffectiveServers EXCEPT ![m] = Y]
    BY ZenonT(60), ZenonT(90), <1>13, <2>1, <2>2, <2>3, ChangesOnly
  <2>5. Registry!Deregister(p, m)
    BY <1>16, <2>4, Zenon, ZenonT(60) DEF Registry!Deregister, X, Y
  <2> QED
    BY <1>3, <2>5
<1>17. CASE Cmd[p].kind = "update"
  <2>1. \E c \in Containers : Holds(b, Entry(c))
    BY <1>5, WellHolds
  <2> DEFINE X == EffectiveEntries[m]
             Y == Cmd[p].dns
  <2>2. {c \in Containers : Registered(m, c)'} = X /\ X # {}
    BY <1>9, <1>14, <1>17, <2>1, ZenonT(60), ZenonT(90)
  <2>3. HeaderDns(m)' = Y
    BY <1>12, <1>17
  <2>0. {c \in Containers : Registered(m, c)'} = X /\ (X = {} => Y = None) /\ (X # {} => HeaderDns(m)' = Y)
    BY <2>2, <2>3, ZenonT(60), ZenonT(90)
  <2> HIDE DEF X, Y
  <2>4. /\ EffectiveEntries' = [EffectiveEntries EXCEPT ![m] = X]
        /\ EffectiveServers' = [EffectiveServers EXCEPT ![m] = Y]
    BY ZenonT(60), ZenonT(90), <1>13, <2>0, ChangesOnly
  <2>5. EffectiveEntries' = EffectiveEntries
    BY ZenonT(60), ZenonT(90), <2>4 DEF X, EffectiveEntries
  <2>6. Registry!SetServers(p, m)
    BY <1>17, <2>2, <2>4, <2>5 DEF Registry!SetServers, X, Y
  <2> QED
    BY <1>3, <2>6
<1>18. Cmd[p].kind \in {"teardown", "update"}
  BY <1>1, CmdAssumption DEF Placed, Rewriting, Starts, Kinds
<1> QED
  BY <1>16, <1>17, <1>18, ZenonT(60), ZenonT(90)

\* A line that is written back, or skipped, was decided on before.
LEMMA WriteBackSame ==
    ASSUME FilesInv, FilesInv', NEW p \in Procs, WriteBack(p)
    PROVE  \A n \in Networks : Same(n)
<1>1. /\ TypeOK /\ TypeOK' /\ AtWork(p) /\ pc[p] = "write" /\ UNCHANGED <<net, pc>>
      /\ buf' = [buf EXCEPT ![p] = Tail(@)] /\ pc[p] \in Committing \cup Rewriting
  BY Zenon, ZenonT(60) DEF FilesInv, WriteBack, Rewriting
<1>2. PICK m \in Networks : m = net[p]
  BY <1>1, Zenon, ZenonT(60) DEF TypeOK
<1>3. PICK b \in Seq(Line) : b = buf[p]
  BY <1>1, Zenon, ZenonT(60) DEF TypeOK
<1>4. PICK s \in Seq(Line) : s = file[m].lines
  BY ZenonT(60), ZenonT(90), <1>1 DEF TypeOK, Files
<1>5. PICK t \in Seq(Line) : t = file'[m].lines
  BY ZenonT(60), ZenonT(90), <1>1 DEF TypeOK, Files
<1>6. b # <<>> /\ buf'[p] = Tail(b)
  BY ZenonT(60), ZenonT(90), <1>1, <1>3 DEF WriteBack, TypeOK
<1>7. file[m].exists /\ fd[p] = file[m].gen /\ ~app[p] /\ pos[p] = Len(s) + 1 /\ Halves(p)
  BY <1>1, <1>2, <1>4, ZenonT(60), ZenonT(90) DEF AtWork, FilePcs
<1>8. (s = <<>> /\ Well(b)) \/ (Well(s) /\ Entries(b))
  BY ZenonT(60), ZenonT(90), <1>2, <1>3, <1>4, <1>7 DEF Halves
<1>9. /\ Head(b) \in Line
      /\ Well(b) => Head(b).first = Gateways
      /\ Entries(b) => \E c \in Containers : Head(b) = Entry(c)
  BY <1>6, Tails, Zenon, ZenonT(60)
<1>10. /\ \A n \in Networks \ {m} : Rewriters(n) = {} /\ Rewriters(n)' = {}
       /\ Rewriters(m) = {p} /\ Rewriters(m)' = {p}
  <2>1. pc'[p] = "write" /\ net'[p] = m /\ \A q \in Procs \ {p} : pc'[q] = pc[q]
    BY <1>1, <1>2, ZenonT(60), ZenonT(90)
  <2> QED
    BY <1>1, <1>2, <2>1, OnlyRewriter, ZenonT(60), ZenonT(90)
<1>11. \A l : Holds(b, l) <=> l = Head(b) \/ Holds(Tail(b), l)
  BY <1>6, HoldsTail
<1> DEFINE Keeps(c) == ~(Cmd[p].kind = "teardown" /\ Contains(Entry(c), Cmd[p].ctr))
<1>12. ASSUME NEW c \in Containers, file'[m].exists
       PROVE  /\ Registered(m, c) <=> Holds(s, Entry(c)) \/ (Holds(b, Entry(c)) /\ Keeps(c))
              /\ Registered(m, c)' <=> Holds(t, Entry(c)) \/ (Holds(Tail(b), Entry(c)) /\ Keeps(c))
  <2>1. Skips(p, Entry(c)) <=> ~Keeps(c)
    BY Zenon, ZenonT(60) DEF Skips
  <2>2. Skips(p, Entry(c))' <=> ~Keeps(c)
    BY Zenon, ZenonT(60) DEF Skips, Contains, Entry
  <2>3. Registered(m, c) <=> Holds(s, Entry(c)) \/ (Holds(b, Entry(c)) /\ ~Skips(p, Entry(c)))
    BY <1>3, <1>4, <1>7, <1>10, ZenonT(60), ZenonT(90) DEF Registered
  <2>4. Holds(file[m].lines, Entry(c))' <=> Holds(t, Entry(c))
    BY <1>5, ZenonT(60), ZenonT(90) DEF Holds, Entry
  <2>5. Holds(buf[p], Entry(c))' <=> Holds(Tail(b), Entry(c))
    BY <1>6 DEF Holds, Entry
  <2>6. Registered(m, c)' <=> Holds(file[m].lines, Entry(c))' \/ (Holds(buf[p], Entry(c))' /\ ~Skips(p, Entry(c))')
    BY <1>10, <1>12, ZenonT(60), ZenonT(90) DEF Registered
  <2> HIDE DEF Keeps
  <2> QED
    BY ZenonT(60), ZenonT(90), <2>1, <2>2, <2>3, <2>4, <2>5, <2>6
<1>13. CASE Cmd[p].kind = "teardown" /\ Contains(Head(b), Cmd[p].ctr)
  <2>1. file' = file /\ t = s
    BY <1>3, <1>4, <1>5, <1>13, ZenonT(60), ZenonT(90) DEF WriteBack
  <2>2. Head(b).first # Gateways
    BY <1>13, DataAssumption DEF Contains
  <2>3. s # <<>>
    BY <1>8, <1>9, <2>2 DEF Well
  <2>4. ASSUME NEW c \in Containers PROVE Registered(m, c)' <=> Registered(m, c)
    <3>1. Head(b) = Entry(c) => ~Keeps(c)
      BY <1>13
    <3>2. file'[m].exists
      BY <1>7, <2>1
    <3> HIDE DEF Keeps
    <3> QED
      BY <1>11, <1>12, <2>1, <3>1, <3>2
  <2>5. HeaderDns(m)' = HeaderDns(m)
    BY <1>4, <2>1, <2>3, ZenonT(60), ZenonT(90) DEF HeaderDns
  <2>6. Same(m)
    BY <2>4, <2>5 DEF Same
  <2>7. \A n \in Networks \ {m} : Same(n)
    BY <1>10, <2>1, LeftAlone
  <2> QED
    BY <2>6, <2>7
<1>14. CASE ~(Cmd[p].kind = "teardown" /\ Contains(Head(b), Cmd[p].ctr))
  <2>1. PICK line \in Line : line = Rewritten(p, Head(b))
    BY <1>9, RewrittenType
  <2>2. Write(p, line)
    BY <1>3, <1>14, <2>1, ZenonT(60), ZenonT(90) DEF WriteBack
  <2>3. file[net[p]].exists /\ fd[p] = file[net[p]].gen /\ (~app[p] => pos[p] = Len(file[net[p]].lines) + 1)
    BY <1>2, <1>4, <1>7, ZenonT(60), ZenonT(90)
  <2>4. /\ \A n \in Networks \ {m} : file'[n] = file[n]
        /\ file'[m].exists = file[m].exists
        /\ Len(t) = Len(s) + 1 /\ t[Len(s) + 1] = line /\ \A k \in 1 .. Len(s) : t[k] = s[k]
    BY ZenonT(60), ZenonT(90), <1>1, <1>2, <1>4, <1>5, <2>2, <2>3, WriteGrows
  <2>5. \A l : Holds(t, l) <=> Holds(s, l) \/ l = line
    BY <2>4, HoldsGrown
  <2>6. file'[m].exists
    BY <1>7, <2>4, ZenonT(60), ZenonT(90)
  <2>7. Len(t) > 0 /\ t # <<>>
    BY <2>4
  <2>8. ASSUME s = <<>>, Well(b) PROVE Same(m)
    <3>1. Head(b).first = Gateways /\ line.first = Gateways
      BY <1>9, <2>1, <2>8, RewrittenFirst, ZenonT(60), ZenonT(90)
    <3>2. ASSUME NEW c \in Containers PROVE Registered(m, c)' <=> Registered(m, c)
      <4>1. Entry(c) # Head(b) /\ Entry(c) # line
        BY <3>1, EntryFacts
      <4> HIDE DEF Keeps
      <4> QED
        BY <1>11, <1>12, <2>5, <2>6, <4>1
    <3>3. HeaderDns(m) = line.rest
      BY ZenonT(60), ZenonT(90), <1>3, <1>4, <1>10, <2>1, <2>8, RewrittenReads
    <3>4. t[1] = line
      BY <2>4, <2>8
    <3>5. HeaderDns(m)' = line.rest
      BY <1>5, <2>7, <3>4, Zenon, ZenonT(60) DEF HeaderDns
    <3> QED
      BY <3>2, <3>3, <3>5 DEF Same
  <2>9. ASSUME Well(s), Entries(b) PROVE Same(m)
    <3>1. Len(s) > 0 /\ s # <<>>
      BY <2>9, WellHolds
    <3>2. pos[p] # 1
      BY <1>7, <3>1
    <3>3. line = Head(b)
      BY <1>9, <2>1, <3>2, RewrittenFirst
    <3>4. ASSUME NEW c \in Containers PROVE Registered(m, c)' <=> Registered(m, c)
      <4>1. Entry(c) = Head(b) => Keeps(c)
        BY <1>14, ZenonT(60), ZenonT(90)
      <4> HIDE DEF Keeps
      <4> QED
        BY <1>11, <1>12, <2>5, <2>6, <3>3, <4>1
    <3>5. t[1] = s[1]
      BY <2>4, <3>1
    <3>6. HeaderDns(m) = s[1].rest /\ HeaderDns(m)' = s[1].rest
      BY <1>4, <1>5, <2>7, <3>1, <3>5, ZenonT(60), ZenonT(90) DEF HeaderDns
    <3> QED
      BY <3>4, <3>6 DEF Same
  <2>10. Same(m)
    BY <1>8, <2>8, <2>9
  <2>11. \A n \in Networks \ {m} : Same(n)
    BY <1>10, <2>4, LeftAlone, Zenon, ZenonT(60)
  <2> QED
    BY <2>10, <2>11
<1> QED
  BY <1>13, <1>14, Zenon, ZenonT(60)

\* What was decided is in the file by the end, or the file is gone and had no entry.
LEMMA EndSame ==
    ASSUME FilesInv, NEW p \in Procs, DeleteEntryEnd(p) \/ ModifyEnd(p)
    PROVE  \A n \in Networks : Same(n)
<1>1. /\ TypeOK /\ AtWork(p) /\ pc[p] = "write" /\ buf[p] = <<>> /\ UNCHANGED <<net, buf>>
      /\ pc[p] \in Committing \cup Rewriting
  BY DEF FilesInv, DeleteEntryEnd, ModifyEnd, Rewriting
<1>2. PICK m \in Networks : m = net[p]
  BY <1>1 DEF TypeOK
<1>3. PICK s \in Seq(Line) : s = file[m].lines
  BY <1>1 DEF TypeOK, Files
<1>4. file[m].exists /\ pos[p] = Len(s) + 1 /\ Halves(p)
  BY <1>1, <1>2, <1>3, Zenon, ZenonT(60) DEF AtWork, FilePcs
<1>5. Well(s)
  <2>1. ~Well(buf[p])
    BY <1>1, Zenon, ZenonT(60) DEF Well
  <2> QED
    BY <1>2, <1>3, <1>4, <2>1, ZenonT(60), ZenonT(90) DEF Halves
<1>6. PICK l \in {"read", "get_pid", "done"} : pc' = [pc EXCEPT ![p] = l]
  <2>1. CASE DeleteEntryEnd(p)
    BY Zenon, ZenonT(60), <1>2, <1>4, <2>1 DEF DeleteEntryEnd, Goto
  <2>2. CASE ModifyEnd(p)
    BY Zenon, ZenonT(60), <2>2 DEF ModifyEnd, Goto
  <2> QED
    BY <2>1, <2>2
<1>7. pc'[p] = l /\ \A q \in Procs \ {p} : pc'[q] = pc[q]
  BY Zenon, ZenonT(60), <1>1, <1>6, GoesOn
<1>8. \/ file' = file
      \/ file' = [file EXCEPT ![m].exists = FALSE, ![m].lines = <<>>] /\ Len(s) <= 1
  <2>1. CASE DeleteEntryEnd(p)
    <3>1. CASE pos[p] - 1 <= 1
      <4>1. Len(s) <= 1
        BY <1>4, <3>1
      <4> QED
        BY <1>2, <2>1, <3>1, <4>1 DEF DeleteEntryEnd
    <3>2. CASE ~(pos[p] - 1 <= 1)
      BY <2>1, <3>2 DEF DeleteEntryEnd
    <3> QED
      BY ZenonT(60), ZenonT(90), <3>1, <3>2
  <2>2. CASE ModifyEnd(p)
    BY <2>2 DEF ModifyEnd
  <2> QED
    BY Zenon, ZenonT(60), <2>1, <2>2
<1>9. \A n \in Networks \ {m} : file'[n] = file[n]
  BY <1>1, <1>8 DEF TypeOK, Files
<1>10. /\ \A n \in Networks \ {m} : Rewriters(n) = {} /\ Rewriters(n)' = {}
       /\ Rewriters(m) = {p} /\ Rewriters(m)' = {}
  BY <1>1, <1>2, <1>7, OnlyRewriter, Zenon, ZenonT(60)
<1>11. ASSUME NEW c \in Containers PROVE Registered(m, c) <=> Holds(s, Entry(c))
  <2>1. ~Holds(buf[p], Entry(c))
    BY <1>1 DEF Holds
  <2> QED
    BY <1>3, <1>4, <1>10, <2>1, ZenonT(60), ZenonT(90) DEF Registered
<1>12. CASE file' = file
  <2>1. ASSUME NEW c \in Containers PROVE Registered(m, c)' <=> Registered(m, c)
    <3>1. Registered(m, c)' <=> Holds(s, Entry(c))
      BY <1>3, <1>4, <1>10, <1>12, ZenonT(60), ZenonT(90) DEF Registered, Holds, Entry
    <3> QED
      BY <1>11, <3>1
  <2>2. s # <<>>
    BY <1>5 DEF Well
  <2>3. HeaderDns(m)' = HeaderDns(m)
    BY ZenonT(60), ZenonT(90), <1>3, <1>12, <2>2 DEF HeaderDns
  <2>4. Same(m)
    BY <2>1, <2>3, ZenonT(60), ZenonT(90) DEF Same
  <2>5. \A n \in Networks \ {m} : Same(n)
    BY <1>9, <1>10, LeftAlone, ZenonT(60), ZenonT(90)
  <2> QED
    BY <2>4, <2>5
<1>13. CASE file' = [file EXCEPT ![m].exists = FALSE, ![m].lines = <<>>] /\ Len(s) <= 1
  <2>1. ~file'[m].exists
    BY <1>1, <1>13 DEF TypeOK, Files
  <2>2. ASSUME NEW c \in Containers PROVE ~Registered(m, c)' /\ ~Registered(m, c)
    <3>1. ~Holds(s, Entry(c))
      BY <1>5, <1>13, WellHolds
    <3>2. ~Registered(m, c)'
      BY <1>10, <2>1, Zenon, ZenonT(60) DEF Registered
    <3> QED
      BY <1>11, <3>1, <3>2
  <2>3. Same(m)
    BY <2>2, ZenonT(60), ZenonT(90) DEF Same
  <2>4. \A n \in Networks \ {m} : Same(n)
    BY <1>9, <1>10, LeftAlone, ZenonT(60), ZenonT(90)
  <2> QED
    BY <2>3, <2>4
<1> QED
  BY Zenon, ZenonT(60), <1>8, <1>12, <1>13

-----------------------------------------------------------------------------
\* The commands in progress: a step of p ends p, or none.
LEMMA Progresses ==
    ASSUME NEW p \in Procs, pc[p] \notin Settled, \A q \in Procs \ {p} : pc'[q] = pc[q]
    PROVE  /\ p \in InProgress
           /\ InProgress' = InProgress \/ InProgress' = InProgress \ {p}
           /\ pc'[p] \notin Settled => InProgress' = InProgress
<1>1. CASE pc'[p] \in Settled
  <2>1. InProgress' = InProgress \ {p}
    BY <1>1 DEF InProgress
  <2> QED
    BY <1>1, <2>1 DEF InProgress
<1>2. CASE pc'[p] \notin Settled
  <2>1. InProgress' = InProgress
    BY <1>2 DEF InProgress
  <2> QED
    BY <2>1 DEF InProgress
<1> QED
  BY <1>1, <1>2

\* Every step is one of the registry, or keeps it.
LEMMA RegistryStep ==
    ASSUME Serial, RegistryInv, [Next]_vars
    PROVE  Registry!RNext \/ UNCHANGED <<EffectiveEntries, EffectiveServers, InProgress>>
<1>1. FilesInv /\ TypeOK /\ FilesInv'
  BY FilesNext DEF RegistryInv, FilesInv
<1>2. ASSUME NEW p \in Procs, Begin(p) PROVE Registry!RNext
  <2>1. \A q \in Procs \ {p} : pc'[q] = pc[q] /\ net'[q] = net[q] /\ buf'[q] = buf[q] /\ pos'[q] = pos[q]
    BY <1>1, <1>2, OthersStay
  <2>2. file' = file /\ pc[p] = "idle" /\ pc'[p] \in {"lock", "read"}
    BY <1>1, <1>2, ZenonT(60), ZenonT(90) DEF Begin, Goto, TypeOK
  <2>3. UNCHANGED <<EffectiveEntries, EffectiveServers>>
    BY ZenonT(60), ZenonT(90), <2>1, <2>2, Quietly, SameAll
  <2>4. InProgress' = InProgress \cup {p}
    BY <2>1, <2>2, Zenon, ZenonT(60) DEF InProgress, Settled
  <2> QED
    BY <2>3, <2>4, ZenonT(60), ZenonT(90) DEF Registry!RNext, Registry!Open
<1>3. ASSUME NEW p \in Procs, Step(p)
      PROVE  Registry!RNext \/ UNCHANGED <<EffectiveEntries, EffectiveServers, InProgress>>
  <2>1. \A q \in Procs \ {p} : pc'[q] = pc[q] /\ net'[q] = net[q] /\ buf'[q] = buf[q] /\ pos'[q] = pos[q]
    BY <1>1, <1>3, OthersStay
  <2>2. pc[p] \notin Settled
    BY <1>3, ZenonT(60), ZenonT(90) DEF Step, LockExclusive, CreateNew, OpenAppend, WriteHeader, CommitEntry, Unlock, GetPid, Kill,
                StartServer, ReadFile, Truncate, WriteBack, DeleteEntryEnd, ModifyEnd, Settled
  <2>3. /\ p \in InProgress
        /\ InProgress' = InProgress \/ InProgress' = InProgress \ {p}
        /\ pc'[p] \notin Settled => InProgress' = InProgress
    BY <2>1, <2>2, Progresses
  <2>4. net[p] \in Cmd[p].nets
    BY DEF RegistryInv, Own
  <2>5. CASE CommitEntry(p)
    <3>1. Registry!Register(p, net[p])
      BY <1>1, <2>5, CommitRegisters
    <3>2. pc'[p] \notin Settled
      BY <1>1, <2>5 DEF CommitEntry, Goto, Settled, TypeOK
    <3> QED
      BY <2>3, <2>4, <3>1, <3>2, ZenonT(60), ZenonT(90) DEF Registry!RNext
  <2>6. CASE Truncate(p)
    <3>1. Registry!Deregister(p, net[p]) \/ Registry!SetServers(p, net[p])
      BY <2>6, TruncateDecides
    <3>2. pc'[p] \notin Settled
      BY <1>1, <2>6, ZenonT(60), ZenonT(90) DEF Truncate, Goto, Settled, TypeOK
    <3> QED
      BY <2>3, <2>4, <3>1, <3>2, ZenonT(60), ZenonT(90) DEF Registry!RNext
  <2>7. CASE ~(CommitEntry(p) \/ Truncate(p))
    <3>1. ASSUME \/ LockExclusive(p) \/ OpenAppend(p) \/ Unlock(p) \/ GetPid(p) \/ Kill(p) \/ StartServer(p)
                 \/ ReadFile(p)
          PROVE  \A n \in Networks : Same(n)
      <4>1. file' = file /\ pc[p] # "write"
        BY <3>1 DEF LockExclusive, OpenAppend, Unlock, GetPid, Kill, StartServer, ReadFile
      <4>2. pc'[p] # "write"
        BY <1>1, <3>1 DEF LockExclusive, OpenAppend, Unlock, GetPid, Kill, StartServer, ReadFile, Goto, TypeOK
      <4> QED
        BY <2>1, <4>1, <4>2, Quietly, ZenonT(60), ZenonT(90)
    <3>2. ASSUME CreateNew(p) \/ WriteHeader(p) \/ WriteBack(p) \/ DeleteEntryEnd(p) \/ ModifyEnd(p)
          PROVE  \A n \in Networks : Same(n)
      BY <1>1, <3>2, CreateSame, HeaderSame, WriteBackSame, EndSame
    <3>3. \A n \in Networks : Same(n)
      BY <1>3, <2>7, <3>1, <3>2 DEF Step
    <3>4. UNCHANGED <<EffectiveEntries, EffectiveServers>>
      BY <3>3, SameAll
    <3> QED
      BY <2>3, <3>4, Zenon, ZenonT(60) DEF Registry!RNext, Registry!Close
  <2> QED
    BY <2>5, <2>6, <2>7
<1>4. ASSUME ServerReload \/ UNCHANGED vars
      PROVE  UNCHANGED <<EffectiveEntries, EffectiveServers, InProgress>>
  <2>1. UNCHANGED <<file, pc, net, buf, pos>>
    BY <1>4 DEF ServerReload, vars, procVars
  <2> QED
    BY <2>1 DEF EffectiveEntries, EffectiveServers, InProgress, Registered, Holds, Entry, Skips, Contains,
                Rewriters, Rewriter, HeaderDns, Rewritten
<1>5. ServerReload \/ UNCHANGED vars \/ \E p \in Procs : Step(p) \/ Begin(p)
  BY <1>1, NoFault DEF Next
<1> QED
  BY <1>2, <1>3, <1>4, <1>5

\* While teardowns and updates run alone and nothing fails, the files are a
\* registry: a commit adds exactly its container, delete_entry removes exactly
\* the lines of its own, an update changes the servers and no entry, each at
\* one moment, although every rewrite takes many system calls.
THEOREM FilesAreARegistry ==
    ASSUME Serial
    PROVE  Spec => ImplementsRegistry
<1>1. ASSUME Init PROVE RegistryInv
  <2>1. FilesInv
    BY <1>1, FilesInit
  <2>2. ASSUME NEW p \in Procs PROVE Own(p) /\ Knows(p)
    <3>1. \E n \in Networks : n \in Cmd[p].nets
      BY CmdAssumption
    <3>2. net[p] \in Cmd[p].nets
      BY <1>1, <3>1, Zenon, ZenonT(60) DEF Init
    <3>3. todo[p] = {} /\ pc[p] = "idle"
      BY <1>1, Zenon, ZenonT(60) DEF Init
    <3> QED
      BY <3>2, <3>3 DEF Own, Knows
  <2> QED
    BY <2>1, <2>2 DEF RegistryInv
<1>2. ASSUME Init PROVE Registry!RInit
  <2>1. \A n \in Networks : ~file[n].exists
    BY <1>2, ZenonT(60), ZenonT(90) DEF Init
  <2>2. \A p \in Procs : pc[p] = "idle"
    BY <1>2, ZenonT(60), ZenonT(90) DEF Init
  <2>3. \A n \in Networks : Rewriters(n) = {}
    BY <2>2 DEF Rewriters
  <2>4. \A n \in Networks : \A c \in Containers : ~Registered(n, c)
    BY <2>1, <2>3, Zenon, ZenonT(60) DEF Registered
  <2>5. EffectiveEntries = [n \in Networks |-> {}]
    BY <2>4 DEF EffectiveEntries
  <2>6. EffectiveServers = [n \in Networks |-> None]
    BY <2>5 DEF EffectiveServers
  <2>7. InProgress = {}
    BY <2>2 DEF InProgress, Settled
  <2> QED
    BY <2>5, <2>6, <2>7 DEF Registry!RInit
<1>3. RegistryInv /\ [Next]_vars => RegistryInv'
  BY RegistryInvNext
<1>4. RegistryInv /\ [Next]_vars => [Registry!RNext]_(Registry!registryVars)
  BY RegistryStep DEF Registry!registryVars
<1> QED
  BY <1>1, <1>2, <1>3, <1>4, PTL DEF Spec, ImplementsRegistry, Registry!RSpec
=============================================================================
