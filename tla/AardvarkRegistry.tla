-------------------------- MODULE AardvarkRegistry --------------------------
(* The config files of Aardvark seen as the registry of DnsRegistry. *)
EXTENDS Aardvark

\* A rewriter has decided when it truncates the file: from there on the lines
\* it will skip are gone, and those it will write back are there.
Rewriters(n) == {p \in Procs : pc[p] = "write" /\ net[p] = n}
Rewriter(n) == CHOOSE p \in Rewriters(n) : TRUE

Skips(p, line) == Cmd[p].kind = "teardown" /\ Contains(line, Cmd[p].ctr)
Holds(s, line) == \E i \in DOMAIN s : s[i] = line

Registered(n, c) ==
    \/ file[n].exists /\ Holds(file[n].lines, Entry(c))
    \/ \E p \in Rewriters(n) : Holds(buf[p], Entry(c)) /\ ~Skips(p, Entry(c))

\* The second column of the header, which a rewriter may still have to write.
HeaderDns(n) ==
    IF file[n].lines # <<>> THEN file[n].lines[1].rest
    ELSE Rewritten(Rewriter(n), Head(buf[Rewriter(n)])).rest

EffectiveEntries == [n \in Networks |-> {c \in Containers : Registered(n, c)}]

EffectiveServers == [n \in Networks |-> IF EffectiveEntries[n] = {} THEN None ELSE HeaderDns(n)]

InProgress == {p \in Procs : pc[p] \notin Settled}

Registry == INSTANCE DnsRegistry WITH entries <- EffectiveEntries, servers <- EffectiveServers,
                                      open <- InProgress

\* The files behave as the registry: commit_entries registers its container
\* and touches nobody else's entry, delete_entry drops the lines of its own
\* container only, an update keeps every entry.
ImplementsRegistry == Registry!RSpec
=============================================================================
