----------------------------- MODULE DhcpProxy ------------------------------
(***************************************************************************)
(* The DHCP proxy daemon (src/commands/dhcp_proxy.rs, src/dhcp_proxy/) and *)
(* the macvlan driver as its client (src/network/macvlan_dhcp.rs, and the  *)
(* teardown of src/network/vlan.rs).  Each container has one MAC address,  *)
(* one setup request and one teardown request, which may be retried.       *)
(*                                                                         *)
(* A request runs as a task of its own.  Its steps are cut where another   *)
(* thread or the peer can be observed: at the await of the DHCP exchange,  *)
(* around the cache's mutex and at the calls to the kernel.                *)
(***************************************************************************)
EXTENDS Naturals, FiniteSets

CONSTANTS Containers,   \* containers on a macvlan network with the dhcp ipam driver
          Leases,       \* leases a DHCP server may offer
          Gatewayless,  \* those without a router option
          None,
          QueueCap,     \* capacity of the activity channel, 5 in the code
          MaxTries,     \* teardown attempts of one container
          MaxFaults     \* kills, I/O errors and Clean calls in one behaviour

ASSUME ProxyAssumption ==
    /\ Gatewayless \subseteq Leases
    /\ None \notin Leases
    /\ QueueCap \in Nat \ {0} /\ MaxTries \in Nat /\ MaxFaults \in Nat

VARIABLES up,      \* the daemon runs
          timed,   \* its inactivity timeout is not 0, which means never
          mem,     \* LeaseCache.mem: the lease of each container, or None
          file,    \* the lease file: its JSON, and whether NUL bytes precede it
          moved,   \* the daemon's offset in the lease file is not 0
          queue,   \* messages in the activity channel
          task,    \* where the daemon is in each container's setup request
          offer,   \* the lease that request has obtained
          tear,    \* where the daemon is in each container's teardown request
          client,  \* what each container's netavark invocation is doing
          link,    \* the macvlan interface exists in the container's namespace
          tries,   \* teardown attempts made
          wiped,   \* containers whose lease was dropped by a crash or by Clean
          dropped, \* containers whose setup client was killed
          faults

cacheVars == <<mem, file, moved>>
clientVars == <<client, link, tries>>
ghostVars == <<wiped, dropped>>
vars == <<up, timed, cacheVars, queue, task, offer, tear, clientVars, ghostVars, faults>>

NoLeases == [c \in Containers |-> None]

Fault == faults < MaxFaults /\ faults' = faults + 1

Init ==
    /\ up = FALSE
    /\ timed \in BOOLEAN
    /\ mem = NoLeases
    /\ file = [pad |-> FALSE, json |-> NoLeases]
    /\ moved = FALSE
    /\ queue = 0
    /\ task = [c \in Containers |-> "none"]
    /\ offer = NoLeases
    /\ tear = [c \in Containers |-> "none"]
    /\ client = [c \in Containers |-> "idle"]
    /\ link = [c \in Containers |-> FALSE]
    /\ tries = [c \in Containers |-> 0]
    /\ wiped = {}
    /\ dropped = {}
    /\ faults = 0

-----------------------------------------------------------------------------
\* LeaseCache

\* save_memory_to_fs: clear, then write.  set_len(0) does not move the file
\* offset, so a second save leaves a hole before its JSON.  A failure to clear
\* is logged and reported as success; a failure to write is an error.
Save(m, ok) ==
    \/ /\ ok
       /\ file' = [pad |-> moved, json |-> m]
       /\ moved' = TRUE
       /\ UNCHANGED faults
    \/ /\ ok
       /\ Fault
       /\ UNCHANGED <<file, moved>>
    \/ /\ ~ok
       /\ Fault
       /\ file' = [pad |-> moved, json |-> NoLeases]
       /\ UNCHANGED moved

\* add_lease: the map is updated whether or not the save succeeds.
AddLease(c, l, ok) ==
    /\ mem' = [mem EXCEPT ![c] = l]
    /\ Save(mem', ok)

\* Mutant: get in place of remove.
RemoveLeaseKeepsIt(c, ok) ==
    ok /\ UNCHANGED <<cacheVars, faults>>

\* remove_lease: without an entry it returns the blank lease and does not save.
RemoveLease(c, ok) ==
    IF mem[c] = None
    THEN ok /\ UNCHANGED <<cacheVars, faults>>
    ELSE /\ mem' = [mem EXCEPT ![c] = None]
         /\ Save(mem', ok)

-----------------------------------------------------------------------------
\* The setup request.

\* Mutant: send, which waits for a place in the channel.
ResetInactivityTimeoutWaits == queue < QueueCap /\ queue' = queue + 1

\* reset_inactivity_timeout: try_send, a full channel is only logged.
ResetInactivityTimeout ==
    queue' = IF queue < QueueCap THEN queue + 1 ELSE queue

\* get_client connects to the daemon's socket.
GetClient == up

\* The driver has created the interface and calls get_dhcp_lease.
GetDhcpLease(c) ==
    /\ client[c] = "idle"
    /\ link' = [link EXCEPT ![c] = TRUE]
    /\ \/ /\ GetClient
          /\ client' = [client EXCEPT ![c] = "setup"]
          /\ task' = [task EXCEPT ![c] = "received"]
       \/ /\ ~GetClient
          /\ client' = [client EXCEPT ![c] = "setup_failed"]
          /\ UNCHANGED task
    /\ UNCHANGED <<up, timed, cacheVars, queue, offer, tear, tries, ghostVars, faults>>

\* What the client makes of the answer: get_dhcp_lease indexes gateways[0], so
\* a lease without a gateway ends it.
Answered(c, ok) ==
    client' = IF client[c] # "setup" THEN client
              ELSE [client EXCEPT ![c] = IF ok /\ offer[c] \notin Gatewayless THEN "up" ELSE "setup_failed"]

EndSetup(c, ok) ==
    /\ Answered(c, ok)
    /\ task' = [task EXCEPT ![c] = "none"]
    /\ offer' = [offer EXCEPT ![c] = None]
    /\ UNCHANGED <<link, tries>>

\* The handler of setup up to the task it spawns; the runtime drops a request
\* whose connection has closed.
SpawnSetup(c) ==
    /\ task[c] = "received"
    /\ \/ ResetInactivityTimeout /\ task' = [task EXCEPT ![c] = "spawned"] /\ UNCHANGED <<offer, clientVars>>
       \/ c \in dropped /\ EndSetup(c, FALSE) /\ UNCHANGED queue
    /\ UNCHANGED <<up, timed, cacheVars, tear, ghostVars, faults>>

\* The first look at the connection, the checks of process_setup and
\* DhcpService::new.
StartDora(c) ==
    /\ task[c] = "spawned"
    /\ \/ /\ c \notin dropped
          /\ task' = [task EXCEPT ![c] = "dora"]
          /\ UNCHANGED <<offer, clientVars>>
       \/ EndSetup(c, FALSE)
    /\ UNCHANGED <<up, timed, cacheVars, queue, tear, ghostVars, faults>>

\* select!: the exchange ends with a lease or a timeout, or the client is seen
\* to have gone.
Dora(c) ==
    /\ task[c] = "dora"
    /\ \/ \E l \in Leases :
            /\ offer' = [offer EXCEPT ![c] = l]
            /\ task' = [task EXCEPT ![c] = "add"]
            /\ UNCHANGED clientVars
       \/ EndSetup(c, FALSE)
    /\ UNCHANGED <<up, timed, cacheVars, queue, tear, ghostVars, faults>>

\* add_lease under the mutex.
CacheLease(c) ==
    /\ task[c] = "add"
    /\ \/ AddLease(c, offer[c], TRUE) /\ task' = [task EXCEPT ![c] = "ip"] /\ UNCHANGED <<offer, clientVars>>
       \/ AddLease(c, offer[c], FALSE) /\ EndSetup(c, FALSE)
    /\ UNCHANGED <<up, timed, queue, tear, ghostVars>>

\* ip::setup in the container's namespace, the last look at the connection and
\* the answer.
IpSetup(c) ==
    /\ task[c] = "ip"
    /\ \E ok \in BOOLEAN : (ok => link[c]) /\ EndSetup(c, ok)
    /\ UNCHANGED <<up, timed, cacheVars, queue, tear, ghostVars, faults>>

-----------------------------------------------------------------------------
\* The teardown request.

\* Vlan::teardown finds the interface and calls release_dhcp_lease; podman may
\* call it after a failed setup or teardown too.
ReleaseDhcpLease(c) ==
    /\ client[c] \in {"up", "setup_failed", "killed", "teardown_failed"}
    /\ tries[c] < MaxTries
    /\ tries' = [tries EXCEPT ![c] = @ + 1]
    /\ \/ /\ GetClient
          /\ client' = [client EXCEPT ![c] = "teardown"]
          /\ tear' = [tear EXCEPT ![c] = "received"]
       \/ /\ ~GetClient
          /\ client' = [client EXCEPT ![c] = "teardown_failed"]
          /\ UNCHANGED tear
    /\ UNCHANGED <<up, timed, cacheVars, queue, task, offer, link, ghostVars, faults>>

EndTeardown(c, result) ==
    /\ client' = IF client[c] # "teardown" THEN client ELSE [client EXCEPT ![c] = result]
    /\ tear' = [tear EXCEPT ![c] = "none"]

\* The handler of teardown up to the thread it spawns and joins, or its end with
\* the connection.
SpawnTeardown(c) ==
    /\ tear[c] = "received"
    /\ \/ ResetInactivityTimeout /\ tear' = [tear EXCEPT ![c] = "remove"]
       \/ client[c] # "teardown" /\ tear' = [tear EXCEPT ![c] = "none"] /\ UNCHANGED queue
    /\ UNCHANGED <<up, timed, cacheVars, task, offer, clientVars, ghostVars, faults>>

\* The first half of the thread: remove_lease under the mutex.
TakeLease(c) ==
    /\ tear[c] = "remove"
    /\ \/ /\ RemoveLease(c, TRUE)
          /\ tear' = [tear EXCEPT ![c] = IF mem[c] = None THEN "release_blank" ELSE "release"]
          /\ UNCHANGED client
       \/ RemoveLease(c, FALSE) /\ EndTeardown(c, "teardown_failed")
    /\ UNCHANGED <<up, timed, queue, task, offer, link, tries, ghostVars>>

\* The second half: DhcpService::new may fail; release_lease converts the lease
\* for the DHCP client, which a blank one does not survive.
ReleaseLease(c) ==
    /\ tear[c] \in {"release", "release_blank"}
    /\ \/ tear[c] = "release" /\ EndTeardown(c, "del_link")
       \/ EndTeardown(c, "teardown_failed")
    /\ UNCHANGED <<up, timed, cacheVars, queue, task, offer, link, tries, ghostVars, faults>>

\* The end of Vlan::teardown, reached only when the lease was released.
DelLink(c) ==
    /\ client[c] = "del_link"
    /\ link' = [link EXCEPT ![c] = FALSE]
    /\ client' = [client EXCEPT ![c] = "down"]
    /\ UNCHANGED <<up, timed, cacheVars, queue, task, offer, tear, tries, ghostVars, faults>>

\* clean: the whole map is dropped.
Clean ==
    /\ up
    /\ mem' = NoLeases
    /\ \E ok \in BOOLEAN : Save(mem', ok)
    /\ wiped' = wiped \cup {c \in Containers : mem[c] # None}
    /\ UNCHANGED <<up, timed, queue, task, offer, tear, clientVars, dropped>>

-----------------------------------------------------------------------------
\* The life of the daemon.

\* Started by hand, or by systemd for a connection to the socket it holds;
\* without either a client cannot connect.  File::create and LeaseCache::new make
\* a fresh, empty cache.
Serve ==
    /\ ~up
    /\ up' = TRUE
    /\ mem' = NoLeases
    /\ file' = [pad |-> FALSE, json |-> NoLeases]
    /\ moved' = FALSE
    /\ UNCHANGED <<timed, queue, task, offer, tear, clientVars, ghostVars, faults>>

\* The process ends: its tasks and its map with it, its clients get an error.
Stop ==
    /\ up' = FALSE
    /\ mem' = NoLeases
    /\ moved' = FALSE
    /\ queue' = 0
    /\ task' = [c \in Containers |-> "none"]
    /\ offer' = NoLeases
    /\ tear' = [c \in Containers |-> "none"]
    /\ client' = [c \in Containers |-> IF client[c] = "setup" THEN "setup_failed"
                                       ELSE IF client[c] = "teardown" THEN "teardown_failed"
                                       ELSE client[c]]
    /\ UNCHANGED <<timed, file, link, tries>>

\* handle_wakeup receives from the channel, which restarts its timer.
TimerReset ==
    /\ up /\ timed
    /\ queue > 0
    /\ queue' = queue - 1
    /\ UNCHANGED <<up, timed, cacheVars, task, offer, tear, clientVars, ghostVars, faults>>

\* Mutant: the timer ends the daemon whether or not it holds leases.
TimerEndsAlways ==
    /\ up /\ timed
    /\ queue = 0
    /\ Stop
    /\ UNCHANGED <<ghostVars, faults>>

\* The timer expires with nothing in the channel: the daemon ends if the cache
\* is empty and waits again if it is not.
TimerExpires ==
    /\ up /\ timed
    /\ queue = 0
    /\ mem = NoLeases
    /\ Stop
    /\ UNCHANGED <<ghostVars, faults>>

\* SIGTERM or SIGINT, caught by handle_signal or not, or a crash.
Killed ==
    /\ up
    /\ Fault
    /\ Stop
    /\ wiped' = wiped \cup {c \in Containers : mem[c] # None}
    /\ UNCHANGED dropped

\* The netavark process of a pending request dies and its connection closes.
ClientKilled(c) ==
    /\ client[c] \in {"setup", "teardown", "del_link"}
    /\ Fault
    /\ dropped' = IF client[c] = "setup" THEN dropped \cup {c} ELSE dropped
    /\ client' = [client EXCEPT ![c] = "killed"]
    /\ UNCHANGED <<up, timed, cacheVars, queue, task, offer, tear, link, tries, wiped>>

Handler(c) ==
    \/ SpawnSetup(c) \/ StartDora(c) \/ Dora(c) \/ CacheLease(c) \/ IpSetup(c)
    \/ SpawnTeardown(c) \/ TakeLease(c) \/ ReleaseLease(c)

Next ==
    \/ \E c \in Containers :
        \/ Handler(c)
        \/ GetDhcpLease(c) \/ ReleaseDhcpLease(c) \/ DelLink(c) \/ ClientKilled(c)
    \/ Clean \/ Serve \/ TimerReset \/ TimerExpires \/ Killed

Spec == Init /\ [][Next]_vars

\* The runtime polls every task, the DHCP exchange has a timeout, the timer
\* runs, and a client that has its answer goes on.
Fairness ==
    /\ \A c \in Containers : WF_vars(Handler(c)) /\ WF_vars(DelLink(c))
    /\ WF_vars(TimerReset)
    /\ WF_vars(TimerExpires)

FairSpec == Spec /\ Fairness

-----------------------------------------------------------------------------
\* Properties.

\* A container that got its address from the daemon has its lease on record
\* until its own teardown: no other request, no failed save and no inactivity
\* exit takes it away, only a crash of the daemon or a call of Clean.
LeaseWhileUp == \A c \in Containers : client[c] = "up" => mem[c] # None \/ c \in wiped

\* A lease on record belongs to a container that still has to be torn down;
\* the exception is a setup whose client died, which the daemon may finish
\* after the teardown.
NoOrphanLease ==
    \A c \in Containers : mem[c] # None /\ client[c] \in {"idle", "down"} => c \in dropped

\* The lease file is the map it was saved from: save_memory_to_fs removes the
\* contents of the file and then writes the map.
FileHoldsMap == ~file.pad

\* When every container has been torn down, a daemon with a timeout exits: the
\* timer goes on running, and no teardown leaves a lease behind.  A setup whose
\* client died is the exception again.
EventuallyExits == (timed /\ dropped = {} /\ \A c \in Containers : client[c] = "down") ~> ~up

\* Every request is answered, whatever the daemon, the timer and the other
\* requests do meanwhile, also when nobody takes anything from the activity
\* channel because there is no timeout: a client does not wait for ever.
RequestsAnswered == \A c \in Containers : (client[c] \in {"setup", "teardown"}) ~> (client[c] \notin {"setup", "teardown"})
=============================================================================
