------------------------------ MODULE Aardvark ------------------------------
(***************************************************************************)
(* netavark's side of container DNS (src/dns/aardvark.rs): one config file *)
(* per network, shared by every netavark process on the host and read by   *)
(* the aardvark-dns server.  Each element of Procs is one netavark         *)
(* invocation (setup, teardown or update); each action is one file system  *)
(* or signal operation of the code, so that the steps of two invocations   *)
(* interleave as system calls do.                                          *)
(*                                                                         *)
(* A file is a sequence of lines.  `gen' tells one file of a path from the *)
(* next: a descriptor whose generation is not the path's current one       *)
(* refers to an unlinked file, and what is written there is seen by nobody.*)
(***************************************************************************)
EXTENDS Naturals, Sequences, FiniteSets

CONSTANTS Procs,        \* netavark invocations
          Networks,     \* network names: the config file names
          Containers,   \* container ids
          DnsLists,     \* values of the network dns server list
          NoDns,        \* the empty list, one of DnsLists
          Gateways,     \* first column of a header line
          Addrs,        \* the columns after the id of an entry line
          None,
          Cmd,          \* the command line of each invocation
          Mentions,     \* ids that occur in the text of a container's line
          Overlapping,  \* kinds of command that may run at the same time
          MaxFaults     \* I/O errors, kills and server crashes in one behaviour

Kinds == {"setup", "teardown", "update"}

Line == [first : Containers \cup {Gateways, None}, rest : DnsLists \cup {Addrs}]

ASSUME DataAssumption ==
    /\ NoDns \in DnsLists
    /\ Gateways \notin Containers
    /\ None \notin Containers \cup {Gateways} \cup Procs
    /\ Mentions \in [Containers -> SUBSET Containers]
    /\ \A c \in Containers : c \in Mentions[c]
    /\ MaxFaults \in Nat

ASSUME CmdAssumption ==
    /\ Cmd \in [Procs -> [kind : Kinds, ctr : Containers,
                          nets : (SUBSET Networks) \ {{}}, dns : DnsLists]]
    /\ \A p \in Procs : Cmd[p].kind = "update" => \E n \in Networks : Cmd[p].nets = {n}

VARIABLES file,     \* the config directory: generation, existence and lines of each path
          lock,     \* holder of <config>/../aardvark.lock, or None
          server,   \* the aardvark-dns process: alive, id, pending SIGHUP, loaded config
          pidfile,  \* content of aardvark.pid, 0 when there is none
          pc,       \* next step of each invocation
          todo,     \* networks it has still to visit
          net,      \* network it is working on
          fd,       \* generation of the file it has open
          app,      \* whether that descriptor is in append mode
          pos,      \* next line it writes when it is not
          buf,      \* lines it has read and will write back
          pid,      \* pid it has read
          faults

procVars == <<pc, todo, net, fd, app, pos, buf, pid>>
vars == <<file, lock, server, pidfile, procVars, faults>>

-----------------------------------------------------------------------------
\* Lines and files.

Header(d) == [first |-> Gateways, rest |-> d]
Entry(c) == [first |-> c, rest |-> Addrs]

\* The line a write beyond the end of a truncated file leaves behind it.
Gap == [first |-> None, rest |-> NoDns]

\* line.contains(container_id)
Contains(line, c) == line.first \in Containers /\ c \in Mentions[line.first]

\* What the server loads: the lines of each path, or None.
Config == [n \in Networks |-> IF file[n].exists THEN file[n].lines ELSE <<None>>]

NoConfig == \A n \in Networks : ~file[n].exists

\* A write at line i of s; the hole left by an offset past the end reads as a gap.
WriteAt(s, i, line) ==
    [k \in 1 .. (IF i > Len(s) THEN i ELSE Len(s)) |->
        IF k = i THEN line ELSE IF k <= Len(s) THEN s[k] ELSE Gap]

\* write_all of one line through p's descriptor.
Write(p, line) ==
    LET f == file[net[p]] IN
    file' = IF fd[p] # f.gen \/ ~f.exists
            THEN file
            ELSE [file EXCEPT ![net[p]].lines =
                    IF app[p] THEN Append(f.lines, line) ELSE WriteAt(f.lines, pos[p], line)]

Goto(p, l) == pc' = [pc EXCEPT ![p] = l]

Starts(p) == Cmd[p].kind = "setup"

-----------------------------------------------------------------------------
Settled == {"idle", "done", "failed", "aborted"}
Committing == {"create_new", "append", "header", "entry"}

Init ==
    /\ file = [n \in Networks |-> [gen |-> 0, exists |-> FALSE, lines |-> <<>>]]
    /\ lock = None
    /\ server = [alive |-> FALSE, id |-> 0, hup |-> FALSE, view |-> [n \in Networks |-> <<None>>]]
    /\ pidfile = 0
    /\ pc = [p \in Procs |-> "idle"]
    /\ todo = [p \in Procs |-> {}]
    /\ net = [p \in Procs |-> CHOOSE n \in Networks : n \in Cmd[p].nets]
    /\ fd = [p \in Procs |-> 0]
    /\ app = [p \in Procs |-> FALSE]
    /\ pos = [p \in Procs |-> 1]
    /\ buf = [p \in Procs |-> <<>>]
    /\ pid = [p \in Procs |-> 0]
    /\ faults = 0

\* podman starts the command; whether it waits for others is Overlapping.
Begin(p) ==
    /\ pc[p] = "idle"
    /\ LET running == {q \in Procs : pc[q] \notin Settled}
       IN running = {} \/ \A q \in running \cup {p} : Cmd[q].kind \in Overlapping
    /\ Goto(p, IF Starts(p) THEN "lock" ELSE "read")
    /\ todo' = [todo EXCEPT ![p] = Cmd[p].nets]
    /\ UNCHANGED <<file, lock, server, pidfile, net, fd, app, pos, buf, pid, faults>>

-----------------------------------------------------------------------------
\* commit_entries

\* lockfile.lock_exclusive() blocks until the lock is free.
LockExclusive(p) ==
    /\ pc[p] = "lock"
    /\ lock = None
    /\ lock' = p
    /\ Goto(p, "create_new")
    /\ UNCHANGED <<file, server, pidfile, todo, net, fd, app, pos, buf, pid, faults>>

\* Mutant: an existing file is opened for append by the same call, and gets a header again.
CreateNewOrAppend(p) ==
    /\ pc[p] = "create_new"
    /\ \E n \in todo[p] :
        /\ net' = [net EXCEPT ![p] = n]
        /\ todo' = [todo EXCEPT ![p] = @ \ {n}]
        /\ Goto(p, "header")
        /\ file' = IF file[n].exists THEN file
                   ELSE [file EXCEPT ![n] = [gen |-> @.gen + 1, exists |-> TRUE, lines |-> <<>>]]
        /\ fd' = [fd EXCEPT ![p] = file'[n].gen]
        /\ app' = [app EXCEPT ![p] = TRUE]
        /\ pos' = [pos EXCEPT ![p] = 1]
    /\ UNCHANGED <<lock, server, pidfile, buf, pid, faults>>

\* Mutant: create(true).truncate(true) in place of create_new(true).
CreateTruncated(p) ==
    /\ pc[p] = "create_new"
    /\ \E n \in todo[p] :
        /\ net' = [net EXCEPT ![p] = n]
        /\ todo' = [todo EXCEPT ![p] = @ \ {n}]
        /\ Goto(p, "header")
        /\ file' = [file EXCEPT ![n] = [gen |-> @.gen + 1, exists |-> TRUE, lines |-> <<>>]]
        /\ fd' = [fd EXCEPT ![p] = file[n].gen + 1]
        /\ app' = [app EXCEPT ![p] = FALSE]
        /\ pos' = [pos EXCEPT ![p] = 1]
    /\ UNCHANGED <<lock, server, pidfile, buf, pid, faults>>

\* The next entry: create its network's file, or learn that it already exists.
CreateNew(p) ==
    /\ pc[p] = "create_new"
    /\ \E n \in todo[p] :
        /\ net' = [net EXCEPT ![p] = n]
        /\ todo' = [todo EXCEPT ![p] = @ \ {n}]
        /\ IF file[n].exists
           THEN /\ Goto(p, "append")
                /\ UNCHANGED <<file, fd, app, pos>>
           ELSE /\ Goto(p, "header")
                /\ file' = [file EXCEPT ![n] = [gen |-> @.gen + 1, exists |-> TRUE, lines |-> <<>>]]
                /\ fd' = [fd EXCEPT ![p] = file[n].gen + 1]
                /\ app' = [app EXCEPT ![p] = FALSE]
                /\ pos' = [pos EXCEPT ![p] = 1]
    /\ UNCHANGED <<lock, server, pidfile, buf, pid, faults>>

\* Mutant: the error return of the second open leaves the lock behind.
OpenAppendKeepsLock(p) ==
    /\ pc[p] = "append"
    /\ IF file[net[p]].exists
       THEN /\ Goto(p, "entry")
            /\ fd' = [fd EXCEPT ![p] = file[net[p]].gen]
            /\ app' = [app EXCEPT ![p] = TRUE]
       ELSE Goto(p, "failed") /\ UNCHANGED <<fd, app>>
    /\ UNCHANGED <<file, lock, server, pidfile, todo, net, pos, buf, pid, faults>>

\* OpenOptions::append on the existing file; an error if it is gone by now.
OpenAppend(p) ==
    /\ pc[p] = "append"
    /\ IF file[net[p]].exists
       THEN /\ Goto(p, "entry")
            /\ fd' = [fd EXCEPT ![p] = file[net[p]].gen]
            /\ app' = [app EXCEPT ![p] = TRUE]
            /\ UNCHANGED lock
       ELSE /\ Goto(p, "failed")
            /\ lock' = None
            /\ UNCHANGED <<fd, app>>
    /\ UNCHANGED <<file, server, pidfile, todo, net, pos, buf, pid, faults>>

\* The gateways and the network's dns servers, written by the file's creator.
WriteHeader(p) ==
    /\ pc[p] = "header"
    /\ Write(p, Header(Cmd[p].dns))
    /\ pos' = [pos EXCEPT ![p] = 2]
    /\ Goto(p, "entry")
    /\ UNCHANGED <<lock, server, pidfile, todo, net, fd, app, buf, pid, faults>>

CommitEntry(p) ==
    /\ pc[p] = "entry"
    /\ Write(p, Entry(Cmd[p].ctr))
    /\ Goto(p, "create_new")
    /\ UNCHANGED <<lock, server, pidfile, todo, net, fd, app, pos, buf, pid, faults>>

\* lockfile.unlock() after the last entry; notify(true) follows outside the lock.
Unlock(p) ==
    /\ pc[p] = "create_new"
    /\ todo[p] = {}
    /\ lock' = None
    /\ Goto(p, "get_pid")
    /\ UNCHANGED <<file, server, pidfile, todo, net, fd, app, pos, buf, pid, faults>>

-----------------------------------------------------------------------------
\* notify

\* Mutant: the -1 of get_aardvark_pid is passed on to kill.
GetPidUnchecked(p) ==
    /\ pc[p] = "get_pid"
    /\ pid' = [pid EXCEPT ![p] = IF pidfile = 0 THEN 0 - 1 ELSE pidfile]
    /\ Goto(p, "kill")
    /\ UNCHANGED <<file, lock, server, pidfile, todo, net, fd, app, pos, buf, faults>>

\* get_aardvark_pid; without a pid only notify(true) goes on.
GetPid(p) ==
    /\ pc[p] = "get_pid"
    /\ pid' = [pid EXCEPT ![p] = pidfile]
    /\ Goto(p, IF pidfile # 0 THEN "kill" ELSE IF Starts(p) THEN "start" ELSE "failed")
    /\ UNCHANGED <<file, lock, server, pidfile, todo, net, fd, app, pos, buf, faults>>

\* Mutant: ESRCH is taken for success.
KillIgnoringEsrch(p) ==
    /\ pc[p] = "kill"
    /\ server' = [server EXCEPT !.hup = @ \/ (server.alive /\ server.id = pid[p])]
    /\ Goto(p, "done")
    /\ UNCHANGED <<file, lock, pidfile, todo, net, fd, app, pos, buf, pid, faults>>

\* kill(pid, SIGHUP): delivered, or ESRCH.
Kill(p) ==
    /\ pc[p] = "kill"
    /\ IF server.alive /\ server.id = pid[p]
       THEN /\ server' = [server EXCEPT !.hup = TRUE]
            /\ Goto(p, "done")
       ELSE /\ Goto(p, IF Starts(p) THEN "start" ELSE "failed")
            /\ UNCHANGED server
    /\ UNCHANGED <<file, lock, pidfile, todo, net, fd, app, pos, buf, pid, faults>>

\* The process that `aardvark-dns run' leaves behind: it has loaded the
\* config and written its pid by the time the command returns.
Launch ==
    /\ server' = [alive |-> ~NoConfig, id |-> server.id + 1, hup |-> FALSE, view |-> Config]
    /\ pidfile' = server.id + 1

\* start_aardvark_server.  When a server is already up the new one either
\* exits, its port being taken, or takes the pid file over.
StartServer(p) ==
    /\ pc[p] = "start"
    /\ Launch \/ (server.alive /\ UNCHANGED <<server, pidfile>>)
    /\ Goto(p, "done")
    /\ UNCHANGED <<file, lock, todo, net, fd, app, pos, buf, pid, faults>>

-----------------------------------------------------------------------------
\* delete_entry and modify_network_dns_servers: neither takes the lock.

\* Mutant: the second column of every line is replaced, not that of the header only.
RewrittenEveryLine(p, line) ==
    IF Cmd[p].kind = "update" THEN [line EXCEPT !.rest = Cmd[p].dns] ELSE line

\* What p writes back for a line: update replaces the second column of the first.
Rewritten(p, line) ==
    IF Cmd[p].kind = "update" /\ pos[p] = 1 THEN [line EXCEPT !.rest = Cmd[p].dns] ELSE line

\* read_to_string; a missing file is an error for teardown, success for update.
ReadFile(p) ==
    /\ pc[p] = "read"
    /\ \E n \in todo[p] :
        /\ net' = [net EXCEPT ![p] = n]
        /\ todo' = [todo EXCEPT ![p] = @ \ {n}]
        /\ IF file[n].exists
           THEN /\ Goto(p, "truncate")
                /\ buf' = [buf EXCEPT ![p] = file[n].lines]
           ELSE /\ Goto(p, IF Cmd[p].kind = "teardown" THEN "failed" ELSE "done")
                /\ UNCHANGED buf
    /\ UNCHANGED <<file, lock, server, pidfile, fd, app, pos, pid, faults>>

\* File::create truncates the file, or makes a new one if it is gone.
Truncate(p) ==
    /\ pc[p] = "truncate"
    /\ LET n == net[p]
           g == IF file[n].exists THEN file[n].gen ELSE file[n].gen + 1
       IN /\ file' = [file EXCEPT ![n] = [gen |-> g, exists |-> TRUE, lines |-> <<>>]]
          /\ fd' = [fd EXCEPT ![p] = g]
    /\ app' = [app EXCEPT ![p] = FALSE]
    /\ pos' = [pos EXCEPT ![p] = 1]
    /\ Goto(p, "write")
    /\ UNCHANGED <<lock, server, pidfile, todo, net, buf, pid, faults>>

\* The next line: teardown skips it if it contains the container id.
WriteBack(p) ==
    /\ pc[p] = "write"
    /\ buf[p] # <<>>
    /\ IF Cmd[p].kind = "teardown" /\ Contains(Head(buf[p]), Cmd[p].ctr)
       THEN UNCHANGED <<file, pos>>
       ELSE /\ Write(p, Rewritten(p, Head(buf[p])))
            /\ pos' = [pos EXCEPT ![p] = @ + 1]
    /\ buf' = [buf EXCEPT ![p] = Tail(@)]
    /\ UNCHANGED <<lock, server, pidfile, pc, todo, net, fd, app, pid, faults>>

\* Mutant: idx < 1 in place of idx <= 1.
DeleteEntryEndKeepsHeader(p) ==
    /\ pc[p] = "write"
    /\ buf[p] = <<>>
    /\ Cmd[p].kind = "teardown"
    /\ LET remove == pos[p] - 1 < 1
       IN file' = IF remove THEN [file EXCEPT ![net[p]].exists = FALSE, ![net[p]].lines = <<>>]
                  ELSE file
    /\ Goto(p, IF todo[p] # {} THEN "read" ELSE "get_pid")
    /\ UNCHANGED <<lock, server, pidfile, todo, net, fd, app, pos, buf, pid, faults>>

\* Everything is written back: teardown removes a file with nothing but a
\* header and goes on to its next network, or to notify(false).
DeleteEntryEnd(p) ==
    /\ pc[p] = "write"
    /\ buf[p] = <<>>
    /\ Cmd[p].kind = "teardown"
    /\ LET remove == pos[p] - 1 <= 1
           gone == remove /\ ~file[net[p]].exists
       IN /\ file' = IF remove THEN [file EXCEPT ![net[p]].exists = FALSE, ![net[p]].lines = <<>>]
                     ELSE file
          /\ Goto(p, IF gone THEN "failed" ELSE IF todo[p] # {} THEN "read" ELSE "get_pid")
    /\ UNCHANGED <<lock, server, pidfile, todo, net, fd, app, pos, buf, pid, faults>>

\* Update notifies only when the header got a non-empty list.
ModifyEnd(p) ==
    /\ pc[p] = "write"
    /\ buf[p] = <<>>
    /\ Cmd[p].kind = "update"
    /\ Goto(p, IF Cmd[p].dns # NoDns /\ pos[p] > 1 THEN "get_pid" ELSE "done")
    /\ UNCHANGED <<file, lock, server, pidfile, todo, net, fd, app, pos, buf, pid, faults>>

-----------------------------------------------------------------------------
\* Mutant: a lock file in place of flock, which nobody removes after a kill.
AbortKeepsLock(p) ==
    /\ pc[p] \notin Settled
    /\ faults < MaxFaults
    /\ faults' = faults + 1
    /\ Goto(p, "aborted")
    /\ UNCHANGED <<file, lock, server, pidfile, todo, net, fd, app, pos, buf, pid>>

\* An I/O error returned with `?', or the process killed: either way its
\* descriptors are closed, which releases the lock.
Abort(p) ==
    /\ pc[p] \notin Settled
    /\ faults < MaxFaults
    /\ faults' = faults + 1
    /\ lock' = IF lock = p THEN None ELSE lock
    /\ Goto(p, "aborted")
    /\ UNCHANGED <<file, server, pidfile, todo, net, fd, app, pos, buf, pid>>

\* aardvark-dns, external: on SIGHUP it loads the config again, and exits
\* when no network is left, with or without removing its pid file.
ServerReload ==
    /\ server.alive
    /\ server.hup
    /\ server' = [server EXCEPT !.hup = FALSE, !.view = Config, !.alive = ~NoConfig]
    /\ pidfile' \in IF NoConfig THEN {0, pidfile} ELSE {pidfile}
    /\ UNCHANGED <<file, lock, procVars, faults>>

ServerCrash ==
    /\ server.alive
    /\ faults < MaxFaults
    /\ faults' = faults + 1
    /\ server' = [server EXCEPT !.alive = FALSE, !.hup = FALSE]
    /\ UNCHANGED <<file, lock, pidfile, procVars>>

Step(p) ==
    \/ LockExclusive(p) \/ CreateNew(p) \/ OpenAppend(p) \/ WriteHeader(p)
    \/ CommitEntry(p) \/ Unlock(p)
    \/ GetPid(p) \/ Kill(p) \/ StartServer(p)
    \/ ReadFile(p) \/ Truncate(p) \/ WriteBack(p) \/ DeleteEntryEnd(p) \/ ModifyEnd(p)

Next ==
    \/ \E p \in Procs : Begin(p) \/ Step(p) \/ Abort(p)
    \/ ServerReload
    \/ ServerCrash

Spec == Init /\ [][Next]_vars

\* The kernel runs every started process and grants the lock to a waiter
\* when it stays free; the server handles its signals.
Fairness == WF_vars(ServerReload) /\ \A p \in Procs : WF_vars(Step(p))

FairSpec == Spec /\ Fairness

-----------------------------------------------------------------------------
\* Properties.

Files == [Networks -> [gen : Nat, exists : BOOLEAN, lines : Seq(Line)]]
Servers == [alive : BOOLEAN, id : Nat, hup : BOOLEAN, view : [Networks -> Seq(Line \cup {None})]]
Labels == Settled \cup Committing \cup {"lock", "get_pid", "kill", "start", "read", "truncate", "write"}

\* The values of the variables: what the steps of commit_entries,
\* delete_entry, modify_network_dns_servers and notify may leave in them.
TypeOK ==
    /\ file \in Files
    /\ lock \in Procs \cup {None}
    /\ server \in Servers
    /\ pidfile \in Nat
    /\ pc \in [Procs -> Labels]
    /\ todo \in [Procs -> SUBSET Networks]
    /\ net \in [Procs -> Networks]
    /\ fd \in [Procs -> Nat]
    /\ app \in [Procs -> BOOLEAN]
    /\ pos \in [Procs -> Nat]
    /\ buf \in [Procs -> Seq(Line)]
    /\ pid \in [Procs -> Nat]
    /\ faults \in 0 .. MaxFaults

\* commit_entries runs under the lock on every path, error returns and kills
\* included: two invocations are never both between lock_exclusive and the
\* release, and nobody keeps the lock once it has left commit_entries.
CommitLocked == \A p \in Procs : (pc[p] \in Committing) <=> (lock = p)

\* No teardown or update of n has been started so far.
Untouched(n) == \A p \in Procs : pc[p] # "idle" /\ n \in Cmd[p].nets => Starts(p)

EntryIn(c, n) == file[n].exists /\ \E i \in DOMAIN file[n].lines : file[n].lines[i] = Entry(c)

\* The networks whose entry commit_entries of p has already written.
Committed(p) ==
    IF ~Starts(p) \/ pc[p] \in Settled \ {"done"} THEN {}
    ELSE (Cmd[p].nets \ todo[p]) \ IF pc[p] \in Committing \ {"create_new"} THEN {net[p]} ELSE {}

Kept(n) == \A p \in Procs : n \in Committed(p) => EntryIn(Cmd[p].ctr, n)

\* What commit_entries wrote for a network stays written until the first
\* teardown or update of that network: no other setup's header or entry
\* overwrites it, whatever the interleaving, and a command that rewrites other
\* networks, even one killed between truncating a file and the last line it
\* writes back, loses nothing of this one.
NoLostCommit == \A n \in Networks : Untouched(n) => Kept(n)

\* aardvark-dns reads the first line of a file as its header: while nobody
\* is between truncating and finishing it, a file starts with its header and
\* has no second one.
HeaderFirst ==
    \A n \in Networks :
        file[n].exists /\ (\A p \in Procs : pc[p] \in {"header", "write"} => net[p] # n)
        => /\ file[n].lines # <<>>
           /\ \A i \in DOMAIN file[n].lines : (file[n].lines[i].first = Gateways) <=> i = 1

Quiet == (\A p \in Procs : pc[p] \in Settled) /\ ~server.hup

\* When no command is in progress the server's loaded config is what the
\* files say, and it is running if there is a file: notify is called after the
\* last write, and its start covers a server that is missing or gone.  Networks
\* of a command that failed are excepted, its error return skips notify.
ServedWhenQuiet ==
    Quiet => \A n \in Networks :
        \/ \E p \in Procs : pc[p] \in {"failed", "aborted"} /\ n \in Cmd[p].nets
        \/ IF server.alive THEN server.view[n] = Config[n] ELSE ~file[n].exists

\* delete_entry removes a file whose last entry it deletes, so that no file
\* without an entry stays behind to keep the server listening.
NoEmptyFile ==
    Quiet => \A n \in Networks : file[n].exists => \E c \in Containers : EntryIn(c, n)

\* The comment on modify_network_dns_servers: it changes the servers and
\* notifies aardvark-dns of the change, whatever the new list is.
UpdateReachesServer ==
    Quiet => \A p \in Procs : Cmd[p].kind = "update" /\ pc[p] = "done" /\ server.alive
        => \A n \in Cmd[p].nets : server.view[n] = Config[n]

\* Every command that was started ends: the lock of a failed or killed
\* commit does not block the others for ever.
EveryCommandEnds == \A p \in Procs : (pc[p] # "idle") ~> (pc[p] \in Settled \ {"idle"})
=============================================================================
