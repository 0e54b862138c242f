---------------------------- MODULE DnsRegistry -----------------------------
(***************************************************************************)
(* What the aardvark config files promise their users: a registry of the   *)
(* containers of each network together with the network's dns servers.     *)
(* Every setup adds exactly its own entry, every teardown removes exactly  *)
(* the entries of its container, an update changes the servers and no      *)
(* entry, each at one moment between its begin and its end.  A network     *)
(* without entries has no servers on record.                               *)
(***************************************************************************)
CONSTANTS Procs, Networks, Cmd, Mentions, None

VARIABLES entries,  \* containers registered on each network
          servers,  \* dns servers of each network, None without entries
          open      \* commands in progress

registryVars == <<entries, servers, open>>

RInit ==
    /\ entries = [n \in Networks |-> {}]
    /\ servers = [n \in Networks |-> None]
    /\ open = {}

Open(p) == open' = open \cup {p} /\ UNCHANGED <<entries, servers>>

Close(p) == open' = open \ {p} /\ UNCHANGED <<entries, servers>>

\* The first entry of a network brings the network's dns servers with it.
Register(p, n) ==
    /\ Cmd[p].kind = "setup"
    /\ entries' = [entries EXCEPT ![n] = @ \cup {Cmd[p].ctr}]
    /\ servers' = [servers EXCEPT ![n] = IF entries[n] = {} THEN Cmd[p].dns ELSE @]

Deregister(p, n) ==
    LET left == {e \in entries[n] : Cmd[p].ctr \notin Mentions[e]} IN
    /\ Cmd[p].kind = "teardown"
    /\ entries' = [entries EXCEPT ![n] = left]
    /\ servers' = [servers EXCEPT ![n] = IF left = {} THEN None ELSE @]

SetServers(p, n) ==
    /\ Cmd[p].kind = "update"
    /\ entries[n] # {}
    /\ servers' = [servers EXCEPT ![n] = Cmd[p].dns]
    /\ UNCHANGED entries

RNext ==
    \/ \E p \in Procs : Open(p) \/ Close(p)
    \/ \E p \in open : \E n \in Cmd[p].nets :
        (Register(p, n) \/ Deregister(p, n) \/ SetServers(p, n)) /\ UNCHANGED open

RSpec == RInit /\ [][RNext]_registryVars
=============================================================================
