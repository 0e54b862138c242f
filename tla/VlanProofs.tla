----------------------------- MODULE VlanProofs -----------------------------
(***************************************************************************)
(* The links of a container under the vlan driver.  A lease never outlives *)
(* its link, no temporary link is left, a failed setup is rolled back, and *)
(* a setup changes no link it did not make.  All of it holds for any       *)
(* networks, any number of commands and any failures, with answers left    *)
(* unread on the sockets.                                                  *)
(***************************************************************************)
EXTENDS Vlan, TLAPS

\* Time enough for the provers on a busy machine, and a second try.
USE SMTT(30), ZenonT(30), Z3T(30)

\* Podman gives the networks of a container interface names of their own.
Named ==
    /\ \A m, n \in Networks : Conf[m].ifname = Conf[n].ifname => m = n
    /\ \A n \in Taken : Conf[n].ifname # "lo"

Data == Nat \cup DOMAIN HostLinks
Codes == {"ok", "ENODEV", "EEXIST", "ENETUNREACH", "refused"}
Msg == [type : {"inner", "error", "done"}, code : Codes, data : Data]
Stamped == [seq : Nat, msg : Msg]
Datagram == Seq(Stamped)
Socket == [seq : Nat, queue : Seq(Datagram)]

\* Where a network is set up, and where the links of a network are torn down.
Making == {"dump_routes", "get_oif", "get_primary", "create", "create_tmp", "get_tmp", "rename"}
Having == {"join", "sysctl", "join_back", "get_dev", "addr", "up", "route", "lease", "configured"}
Forward == {"lo", "validate", "next"} \cup Making \cup Having
Undoing == {"get_mac", "release", "del_link"}

\* The links the driver works on are read off answers, so the queues are part of
\* the invariant: datagrams are not empty and from the past.
Sound(s) == \A k \in DOMAIN s.queue : s.queue[k] # <<>> /\ s.queue[k][1].seq <= s.seq

TypeInv ==
    /\ sock \in [Sockets -> Socket]
    /\ \A s \in Sockets : Sound(sock[s])
    /\ call = [sock |-> call.sock, flags |-> call.flags, want |-> call.want, acc |-> call.acc]
    /\ cmd \in Nat
    /\ todo \subseteq Networks /\ did \in Seq(Networks)
    /\ pc # "idle" => Networks # {}
    /\ Networks # {} => net \in Networks

Record(l) ==
    l = [name |-> l.name, parent |-> l.parent, addrs |-> l.addrs, up |-> l.up, autoconf |-> l.autoconf, by |-> l.by]

\* The namespace: indices are not used again, names are unique, and a link with a
\* lease has the name of a network that gets its addresses by DHCP.
LinksInv ==
    /\ next \in Nat
    /\ links = [d \in DOMAIN links |-> links[d]]
    /\ \A d \in DOMAIN links : d \in Nat /\ d < next /\ Record(links[d]) /\ links[d].by \in 0 .. cmd
    /\ \A d, e \in DOMAIN links : links[d].name = links[e].name => d = e
    /\ \A d \in leases : d \in DOMAIN links /\ \E n \in Networks : Ipam(n).dhcp /\ links[d].name = Conf[n].ifname

\* A link of that name is one the command made.
Made(x) == \A d \in Called(x) : links[d].by = cmd

\* What message m, an answer to the request in progress, tells the driver.
Tells(m) ==
    \/ m.type # "inner" /\ m.code # "ok"
    \/ pc = "create" /\ Made(IfName)
    \/ pc = "rename" /\ Made(IfName) /\ dev \in Called(IfName)
    \/ pc = "create_tmp" /\ name \in TmpNames /\ Made(name)
    \/ pc = "get_tmp" /\ m.type = "inner" /\ m.data \in Called(name)
    \/ pc \in {"get_dev", "get_mac"} /\ m.type = "inner" /\ m.data \in Called(IfName)
    \/ pc \notin {"create", "rename", "create_tmp", "get_tmp", "get_dev", "get_mac"}

\* Answers to earlier requests may precede it in the queue, with their own numbers.
Answered ==
    call # NoCall =>
        /\ pc \in HostPlaces \cup NetnsPlaces /\ call.sock \in Sockets
        /\ pc # "dump_routes" => "DUMP" \notin call.flags /\ call.acc = <<>>
        /\ pc = "get_mac" => call.sock = "netns"
        /\ \A k \in DOMAIN sock[call.sock].queue :
             sock[call.sock].queue[k][1].seq = sock[call.sock].seq => Tells(sock[call.sock].queue[k][1].msg)

\* A queue with the answer to one request: a datagram, before which a dump has
\* another one that does not end it.
Current(s) ==
    /\ \A k \in DOMAIN s.queue : s.queue[k][1].seq = s.seq
    /\ Len(s.queue) <= 2
    /\ Len(s.queue) = 2 => /\ "DUMP" \in call.flags
                           /\ \A j \in DOMAIN s.queue[1] : s.queue[1][j].seq = s.seq /\ s.queue[1][j].msg.type = "inner"

\* Answers are left on a socket only where a receive failed, and no setup goes on
\* after that.
Clean ==
    /\ \A s \in Sockets \ unread : IF call # NoCall /\ call.sock = s THEN Current(sock[s]) ELSE sock[s].queue = <<>>
    /\ pc \in Forward => unread = {}

\* The answer to the request in progress is the one that was hoped for.
Good ==
    call # NoCall => \A k \in DOMAIN sock[call.sock].queue :
        IF sock[call.sock].queue[k][1].msg.type = "inner" THEN call.want = 1
        ELSE sock[call.sock].queue[k][1].msg.code = "ok" /\ call.want = 0

\* What the driver relies on where it stands.
Placed ==
    /\ pc = "get_tmp" => name \in TmpNames /\ Made(name)
    /\ pc \in {"rename", "del_tmp"} => dev \notin leases /\ (dev \in DOMAIN links => links[dev].by = cmd)
    /\ pc \in Having => Made(IfName)
    /\ pc = "sysctl" => ns = "netns"
    /\ pc \in {"addr", "up", "route", "lease", "release"} => dev \in Called(IfName)
    /\ pc = "lease" => Ipam(net).dhcp
    /\ pc = "del_link" => Called(IfName) \cap leases = {}
    /\ pc = "networks" => kind # "setup"
    /\ kind = "setup" /\ pc \in Undoing => Made(IfName)
    /\ kind = "setup" /\ pc # "idle" => \A j \in DOMAIN did : Made(Conf[did[j]].ifname)

\* A temporary link of the command: its name is being worked on, or something
\* went wrong where the exception says.
Temporary ==
    \A d \in DOMAIN links : links[d].name \in TmpNames /\ links[d].by = cmd =>
        \/ hitAt \cap {"create_tmp", "get_tmp", "del_tmp"} # {}
        \/ pc = "create_tmp" /\ call # NoCall /\ links[d].name = name /\ Good
        \/ pc = "get_tmp" /\ links[d].name = name /\ Good
        \/ pc = "rename" /\ d = dev
        \/ pc = "del_tmp" /\ call = NoCall /\ d = dev

\* A network that is set up: valid, and with a lease if it is to have one.
Complete(n) ==
    /\ Ipam(n).ok
    /\ Ipam(n).dhcp => Called(Conf[n].ifname) # {} /\ Called(Conf[n].ifname) \subseteq leases

\* A network that is torn down, or why not.
Undone(n) ==
    \/ hitAt \cap Undoing # {}
    \/ Ipam(n).dhcp /\ "netns" \in unread
    \/ \A d \in Called(Conf[n].ifname) : links[d].by # cmd

\* The networks a setup is done with, at work on, and has rolled back.
Rolling ==
    /\ \A i, j \in DOMAIN did : did[i] = did[j] => i = j
    /\ \A j \in DOMAIN did : did[j] \notin todo \cup rolled
    /\ pc \in Making \cup Having => net \notin todo /\ \A j \in DOMAIN did : did[j] # net
    /\ pc \in Undoing => \A j \in DOMAIN did : did[j] # net
    /\ pc \in {"next"} \cup Making \cup Having => \A n \in todo : Ipam(n).ok
    /\ pc \in Making \cup Having => Ipam(net).ok
    /\ pc = "configured" => Complete(net)
    /\ pc \in Forward => rolled = {}
    /\ pc # "idle" => \A j \in DOMAIN did : Complete(did[j])
    /\ \A n \in rolled :
         \/ Undone(n)
         \/ /\ n = net
            /\ \/ pc = "get_mac" /\ Complete(net) /\ Ipam(net).dhcp /\ Good
               \/ pc = "release" /\ dev \in leases
               \/ pc = "del_link" /\ call = NoCall

VlanInv == TypeInv /\ LinksInv /\ Answered /\ Clean /\ Placed /\ Temporary /\ Rolling

-----------------------------------------------------------------------------
\* The socket.

\* What recv makes of a datagram when one answer is expected: nothing is left to
\* read, and a result that is no error comes from a message with the number of the request.
LEMMA ScanOne ==
    ASSUME NEW s, NEW d \in Datagram, d # <<>>
    PROVE  Scan(s, d, FALSE, <<>>) =
             IF d[1].seq # s.seq THEN Err("out_of_sync")
             ELSE IF d[1].msg.type = "inner" THEN Ok(<<d[1].msg.data>>)
             ELSE IF d[1].msg.code # "ok" THEN Err(d[1].msg.code)
             ELSE Ok(<<>>)
<1>1. DOMAIN d = 1 .. Len(d) /\ Len(d) \in Nat /\ Len(d) > 0 /\ 1 \in DOMAIN d
  BY DEF Datagram
<1>2. Min(DOMAIN d) = 1
  BY <1>1 DEF Min
<1>3. {j \in DOMAIN d : d[j].seq # s.seq \/ d[j].msg.type # "inner" \/ ~FALSE} = DOMAIN d
  BY Zenon, ZenonT(60)
<1>4. <<>> \o [j \in 1 .. 1 |-> d[j].msg.data] = <<d[1].msg.data>>
  OBVIOUS
<1>5. <<>> \o [j \in 1 .. (1 - 1) |-> d[j].msg.data] = <<>>
  OBVIOUS
<1> QED
  BY <1>1, <1>2, <1>3, <1>4, <1>5, Zenon, ZenonT(60) DEF Scan

\* A datagram of a dump that has no end is not the last one.
LEMMA ScanMore ==
    ASSUME NEW s, NEW d, NEW acc, \A j \in DOMAIN d : d[j].seq = s.seq /\ d[j].msg.type = "inner"
    PROVE  ~Scan(s, d, TRUE, acc).end
<1>1. {j \in DOMAIN d : d[j].seq # s.seq \/ d[j].msg.type # "inner" \/ ~TRUE} = {}
  OBVIOUS
<1>2. PICK data : Scan(s, d, TRUE, acc) = More(data)
  BY <1>1, Zenon, ZenonT(60) DEF Scan
<1>3. More(data).end = FALSE
  BY DEF More
<1> QED
  BY <1>2, <1>3, Zenon, ZenonT(60)

\* The answers to a request, as messages.
Reply(m, flags, code, data) ==
    \/ code # "ok" /\ m = Error(code)
    \/ code = "ok" /\ data # <<>> /\ m = Inner(data[1])
    \/ code = "ok" /\ "DUMP" \in flags /\ m = Done
    \/ code = "ok" /\ "ACK" \in flags /\ m = Error("ok")

\* The kernel answers with one datagram, or two for a dump.
LEMMA AnswersAre ==
    ASSUME NEW flags, NEW code \in Codes, NEW data \in Seq(Data),
           data = <<>> \/ flags = GetFlags \/ "DUMP" \in flags
    PROVE  LET a == Answers(flags, code, data)
           IN /\ a \in Seq(Seq(Msg)) /\ Len(a) <= 2
              /\ \A k \in DOMAIN a : a[k] # <<>> /\ Reply(a[k][1], flags, code, data)
              /\ Len(a) = 2 => "DUMP" \in flags /\ \A j \in DOMAIN a[1] : a[1][j].type = "inner"
<1> DEFINE inner == [j \in DOMAIN data |-> Inner(data[j])]
           some == IF data = <<>> THEN <<>> ELSE <<inner>>
<1>1. Error(code) \in Msg /\ Error("ok") \in Msg /\ Done \in Msg /\ \A x \in Data : Inner(x) \in Msg
  <2>1. 0 \in Data
    BY DEF Data
  <2>2. \A c \in Codes : Error(c) \in Msg
    BY <2>1 DEF Error, Msg
  <2>3. "ok" \in Codes
    BY DEF Codes
  <2> QED
    BY <2>1, <2>2, <2>3 DEF Done, Inner, Msg
<1>2. inner \in Seq(Msg) /\ (data # <<>> => inner # <<>> /\ inner[1] = Inner(data[1]))
      /\ \A j \in DOMAIN inner : inner[j].type = "inner"
  <2>1. /\ DOMAIN data = 1 .. Len(data) /\ Len(data) \in Nat /\ \A j \in 1 .. Len(data) : data[j] \in Data
        /\ data # <<>> => Len(data) > 0
    OBVIOUS
  <2>2. inner = [j \in 1 .. Len(data) |-> Inner(data[j])] /\ \A j \in 1 .. Len(data) : Inner(data[j]) \in Msg
    BY <1>1, <2>1
  <2>3. inner \in Seq(Msg)
    BY <2>1, <2>2
  <2>4. \A j \in DOMAIN inner : inner[j].type = "inner"
    BY DEF Inner
  <2> QED
    BY <2>1, <2>2, <2>3, <2>4
<1> HIDE DEF inner
<1>3. CASE code # "ok"
  <2>1. Answers(flags, code, data) = << <<Error(code)>> >>
    BY <1>3, Zenon, ZenonT(60) DEF Answers
  <2>2. Reply(Error(code), flags, code, data)
    BY <1>3, Zenon, ZenonT(60) DEF Reply
  <2> QED
    BY <1>1, <2>1, <2>2
<1>4. CASE code = "ok" /\ "DUMP" \in flags
  <2>1. Answers(flags, code, data) = Append(some, <<Done>>)
    BY <1>4, Zenon, ZenonT(60) DEF Answers, inner
  <2>2. CASE data = <<>>
    <3>1. Answers(flags, code, data) = << <<Done>> >>
      BY <2>1, <2>2
    <3>2. Reply(Done, flags, code, data)
      BY <1>4, Zenon, ZenonT(60) DEF Reply
    <3> QED
      BY <1>1, <3>1, <3>2
  <2>3. CASE data # <<>>
    <3>1. PICK a : a = Append(<<inner>>, <<Done>>)
      BY Zenon, ZenonT(60)
    <3>2. /\ a \in Seq(Seq(Msg)) /\ Len(a) = 2 /\ Len(a) <= 2 /\ DOMAIN a = {1, 2}
          /\ a[1] = inner /\ a[2] = <<Done>> /\ a[2] # <<>> /\ a[2][1] = Done
      BY <1>1, <1>2, <3>1
    <3>3. Reply(a[1][1], flags, code, data) /\ Reply(a[2][1], flags, code, data) /\ a[1] # <<>>
      BY <1>2, <1>4, <2>3, <3>2, Zenon, ZenonT(60) DEF Reply
    <3>4. \A k \in DOMAIN a : a[k] # <<>> /\ Reply(a[k][1], flags, code, data)
      BY <3>2, <3>3
    <3>5. \A j \in DOMAIN a[1] : a[1][j].type = "inner"
      BY <1>2, <3>2, Zenon, ZenonT(60)
    <3>6. Answers(flags, code, data) = a
      BY <2>1, <2>3, <3>1, Zenon, ZenonT(60)
    <3> QED
      BY <1>4, <3>2, <3>4, <3>5, <3>6, Zenon, ZenonT(60)
  <2> QED
    BY <2>2, <2>3
<1>5. CASE code = "ok" /\ "DUMP" \notin flags /\ "ACK" \in flags
  <2>1. data = <<>>
    BY <1>5 DEF GetFlags
  <2>2. Answers(flags, code, data) = << <<Error("ok")>> >>
    <3>1. Answers(flags, code, data) = Append(some, <<Error("ok")>>)
      BY <1>5, Zenon, ZenonT(60) DEF Answers, inner
    <3> QED
      BY <2>1, <3>1
  <2>3. Reply(Error("ok"), flags, code, data)
    BY <1>5, Zenon, ZenonT(60) DEF Reply
  <2> QED
    BY <1>1, <2>2, <2>3
<1>6. CASE code = "ok" /\ "DUMP" \notin flags /\ "ACK" \notin flags
  <2>1. Answers(flags, code, data) = some
    BY <1>6, Zenon, ZenonT(60) DEF Answers, inner
  <2>2. CASE data = <<>>
    BY <2>1, <2>2
  <2>3. CASE data # <<>>
    <3>1. Answers(flags, code, data) = <<inner>>
      BY <2>1, <2>3
    <3>2. Reply(inner[1], flags, code, data)
      BY <1>2, <1>6, <2>3, Zenon, ZenonT(60) DEF Reply
    <3> QED
      BY <1>2, <2>3, <3>1, <3>2
  <2> QED
    BY <2>2, <2>3
<1> QED
  BY <1>3, <1>4, <1>5, <1>6

\* A datagram has a first message.
LEMMA FirstOf ==
    ASSUME NEW d \in Datagram, d # <<>>
    PROVE  1 \in DOMAIN d /\ d[1].seq \in Nat /\ d[1].msg \in Msg
<1>1. 1 \in DOMAIN d /\ d[1] \in Stamped
  BY DEF Datagram
<1> QED
  BY <1>1 DEF Stamped

\* Two sequences one behind the other.
LEMMA Concat ==
    ASSUME NEW S, NEW u \in Seq(S), NEW v \in Seq(S), NEW w, w = u \o v
    PROVE  /\ w \in Seq(S) /\ Len(w) = Len(u) + Len(v) /\ Len(u) \in Nat /\ Len(v) \in Nat
           /\ DOMAIN w = 1 .. (Len(u) + Len(v)) /\ DOMAIN u = 1 .. Len(u)
           /\ \A k \in DOMAIN w : IF k <= Len(u) THEN w[k] = u[k]
                                  ELSE k - Len(u) \in 1 .. Len(v) /\ w[k] = v[k - Len(u)]
<1>1. w \in Seq(S) /\ Len(w) = Len(u) + Len(v) /\ Len(u) \in Nat /\ Len(v) \in Nat
  OBVIOUS
<1>2. DOMAIN w = 1 .. (Len(u) + Len(v)) /\ DOMAIN u = 1 .. Len(u)
  BY <1>1
<1>3. ASSUME NEW k \in DOMAIN w
      PROVE  IF k <= Len(u) THEN w[k] = u[k] ELSE k - Len(u) \in 1 .. Len(v) /\ w[k] = v[k - Len(u)]
  BY <1>1, <1>2
<1> QED
  BY <1>1, <1>2, <1>3

\* Socket t is socket s after answers a: their number is new, and they stand behind
\* what is unread.
Delivered(s, a, t) ==
    /\ t \in Socket /\ Sound(t)
    /\ \A k \in DOMAIN t.queue : t.queue[k][1].seq = t.seq => \E i \in DOMAIN a : t.queue[k][1].msg = a[i][1]
    /\ s.queue = <<>> => /\ Len(t.queue) = Len(a)
                         /\ \A k \in DOMAIN t.queue : t.queue[k][1].seq = t.seq
                         /\ Len(a) = 2 => \A j \in DOMAIN t.queue[1] :
                              t.queue[1][j].seq = t.seq /\ j \in DOMAIN a[1] /\ t.queue[1][j].msg = a[1][j]

\* That is what send does.
LEMMA SentIs ==
    ASSUME NEW s \in Socket, Sound(s),
           NEW a \in Seq(Seq(Msg)), \A k \in DOMAIN a : a[k] # <<>>,
           NEW t, t = Sent(s, a)
    PROVE  Delivered(s, a, t)
<1> DEFINE n == s.seq + 1
           stamp(d) == [j \in DOMAIN d |-> [seq |-> n, msg |-> d[j]]]
<1>1. PICK b : b = [k \in DOMAIN a |-> stamp(a[k])]
  BY Zenon, ZenonT(60)
<1>2. ASSUME NEW d \in Seq(Msg), d # <<>>
      PROVE  /\ stamp(d) \in Datagram /\ stamp(d) # <<>> /\ stamp(d)[1] = [seq |-> n, msg |-> d[1]]
             /\ DOMAIN stamp(d) = DOMAIN d /\ \A j \in DOMAIN d : stamp(d)[j] = [seq |-> n, msg |-> d[j]]
  <2>1. DOMAIN d = 1 .. Len(d) /\ Len(d) \in Nat /\ Len(d) > 0 /\ \A j \in 1 .. Len(d) : d[j] \in Msg
    BY <1>2
  <2>2. n \in Nat
    BY DEF Socket
  <2>3. \A j \in 1 .. Len(d) : [seq |-> n, msg |-> d[j]] \in Stamped
    BY <2>1, <2>2 DEF Stamped
  <2>4. stamp(d) = [j \in 1 .. Len(d) |-> [seq |-> n, msg |-> d[j]]]
    BY <2>1
  <2>5. stamp(d) \in Seq(Stamped)
    BY <2>1, <2>3, <2>4
  <2>6. DOMAIN stamp(d) = 1 .. Len(d) /\ 1 \in DOMAIN d
    BY <2>1, <2>4
  <2>7. stamp(d) # <<>>
    BY <2>1, <2>6
  <2> QED
    BY <2>5, <2>6, <2>7, <2>1 DEF Datagram
<1>3. n \in Nat /\ n = s.seq + 1 /\ s.seq \in Nat /\ s.queue \in Seq(Datagram)
  BY DEF Socket
<1>4. t.seq = n /\ t.queue = s.queue \o b /\ t = [seq |-> n, queue |-> s.queue \o b]
  <2>1. t = [seq |-> n, queue |-> s.queue \o b]
    BY <1>1, Zenon, ZenonT(60) DEF Sent
  <2> QED
    BY <2>1
<1> HIDE DEF n, stamp
<1>5. DOMAIN a = 1 .. Len(a) /\ Len(a) \in Nat /\ \A k \in 1 .. Len(a) : a[k] \in Seq(Msg) /\ a[k] # <<>>
  OBVIOUS
<1>6. b \in Seq(Datagram) /\ Len(b) = Len(a) /\ \A k \in 1 .. Len(a) : b[k] = stamp(a[k])
  <2>1. b = [k \in 1 .. Len(a) |-> stamp(a[k])] /\ \A k \in 1 .. Len(a) : stamp(a[k]) \in Datagram
    BY <1>1, <1>2, <1>5, Zenon, ZenonT(60)
  <2> QED
    BY <1>5, <2>1
<1>7. \A k \in 1 .. Len(a) : /\ b[k] # <<>> /\ b[k][1].seq = n /\ b[k][1].msg = a[k][1]
                             /\ \A j \in DOMAIN b[k] : j \in DOMAIN a[k] /\ b[k][j].seq = n /\ b[k][j].msg = a[k][j]
  <2> TAKE k \in 1 .. Len(a)
  <2>1. /\ stamp(a[k]) # <<>> /\ stamp(a[k])[1] = [seq |-> n, msg |-> a[k][1]]
        /\ DOMAIN stamp(a[k]) = DOMAIN a[k] /\ \A j \in DOMAIN a[k] : stamp(a[k])[j] = [seq |-> n, msg |-> a[k][j]]
    BY <1>2, <1>5
  <2>2. b[k] = stamp(a[k])
    BY <1>6
  <2>3. \A x : [seq |-> n, msg |-> x].seq = n /\ [seq |-> n, msg |-> x].msg = x
    OBVIOUS
  <2>4. b[k] # <<>> /\ b[k][1].seq = n /\ b[k][1].msg = a[k][1]
    BY <2>1, <2>2, <2>3
  <2>5. \A j \in DOMAIN b[k] : j \in DOMAIN a[k] /\ b[k][j].seq = n /\ b[k][j].msg = a[k][j]
    <3> TAKE j \in DOMAIN b[k]
    <3>1. j \in DOMAIN a[k] /\ b[k][j] = [seq |-> n, msg |-> a[k][j]]
      BY <2>1, <2>2, Zenon, ZenonT(60)
    <3> QED
      BY <3>1
  <2> QED
    BY <2>4, <2>5
<1>8. PICK q : q = s.queue \o b
  BY Zenon, ZenonT(60)
<1>9. /\ q \in Seq(Datagram) /\ Len(q) = Len(s.queue) + Len(a) /\ DOMAIN q = 1 .. (Len(s.queue) + Len(a))
      /\ Len(s.queue) \in Nat /\ DOMAIN s.queue = 1 .. Len(s.queue)
      /\ \A k \in DOMAIN q : IF k <= Len(s.queue) THEN q[k] = s.queue[k]
                             ELSE k - Len(s.queue) \in 1 .. Len(a) /\ q[k] = b[k - Len(s.queue)]
  <2>1. /\ q \in Seq(Datagram) /\ Len(q) = Len(s.queue) + Len(b) /\ DOMAIN q = 1 .. (Len(s.queue) + Len(b))
        /\ Len(s.queue) \in Nat /\ DOMAIN s.queue = 1 .. Len(s.queue)
        /\ \A k \in DOMAIN q : IF k <= Len(s.queue) THEN q[k] = s.queue[k]
                               ELSE k - Len(s.queue) \in 1 .. Len(b) /\ q[k] = b[k - Len(s.queue)]
    <3>1. PICK u \in Seq(Datagram) : u = s.queue
      BY <1>3, Zenon, ZenonT(60)
    <3>2. PICK v \in Seq(Datagram) : v = b
      BY <1>6, Zenon, ZenonT(60)
    <3>3. q = u \o v
      BY <1>8, <3>1, <3>2, Zenon, ZenonT(60)
    <3>4. /\ q \in Seq(Datagram) /\ Len(q) = Len(u) + Len(v) /\ Len(u) \in Nat
          /\ DOMAIN q = 1 .. (Len(u) + Len(v)) /\ DOMAIN u = 1 .. Len(u)
          /\ \A k \in DOMAIN q : IF k <= Len(u) THEN q[k] = u[k] ELSE k - Len(u) \in 1 .. Len(v) /\ q[k] = v[k - Len(u)]
      BY <3>3, Concat
    <3> QED
      BY <3>1, <3>2, <3>4, Zenon, ZenonT(60)
  <2>2. Len(b) = Len(a)
    BY <1>6, Zenon, ZenonT(60)
  <2> QED
    BY <2>1, <2>2, Zenon, ZenonT(60)
<1>10. t = [seq |-> n, queue |-> q] /\ t.queue = q /\ t.seq = n
  BY <1>4, <1>8
<1>11. t \in Socket
  BY <1>3, <1>9, <1>10 DEF Socket
<1>12. ASSUME NEW k \in DOMAIN q
       PROVE  q[k] # <<>> /\ q[k][1].seq <= n /\ (q[k][1].seq = n => \E i \in DOMAIN a : q[k][1].msg = a[i][1])
  <2>1. CASE k <= Len(s.queue)
    <3>1. k \in DOMAIN s.queue /\ q[k] = s.queue[k]
      BY <1>9, <2>1
    <3>2. q[k] # <<>> /\ q[k][1].seq <= s.seq /\ q[k] \in Datagram
      BY <1>9, <3>1 DEF Sound
    <3>3. q[k][1].seq \in Nat
      BY <3>2, FirstOf
    <3> QED
      BY <1>3, <3>2, <3>3
  <2>2. CASE ~(k <= Len(s.queue))
    <3>1. k - Len(s.queue) \in 1 .. Len(a) /\ q[k] = b[k - Len(s.queue)]
      BY <1>9, <2>2
    <3>2. PICK i \in 1 .. Len(a) : q[k] = b[i]
      BY <3>1
    <3>3. q[k] # <<>> /\ q[k][1].seq = n /\ q[k][1].msg = a[i][1] /\ i \in DOMAIN a
      BY <1>5, <1>7, <3>2, ZenonT(60), ZenonT(90)
    <3> QED
      BY <1>3, <3>3
  <2> QED
    BY <2>1, <2>2
<1>13. Sound(t)
  BY <1>10, <1>12, Zenon, ZenonT(60) DEF Sound
<1>14. ASSUME s.queue = <<>>
       PROVE  /\ Len(q) = Len(a) /\ \A k \in DOMAIN q : q[k][1].seq = n
              /\ Len(a) = 2 => \A j \in DOMAIN q[1] : q[1][j].seq = n /\ j \in DOMAIN a[1] /\ q[1][j].msg = a[1][j]
  <2>1. Len(q) = Len(a) /\ DOMAIN q = 1 .. Len(a) /\ \A k \in 1 .. Len(a) : q[k] = b[k]
    <3>1. Len(s.queue) = 0
      BY <1>14
    <3>2. Len(q) = Len(a) /\ DOMAIN q = 1 .. Len(a)
      BY <1>5, <1>9, <3>1
    <3>3. ASSUME NEW k \in 1 .. Len(a) PROVE q[k] = b[k]
      <4>1. k \in DOMAIN q /\ ~(k <= Len(s.queue)) /\ k - Len(s.queue) = k
        BY <1>5, <3>1, <3>2
      <4> QED
        BY <1>9, <4>1
    <3> QED
      BY <3>2, <3>3
  <2>2. \A k \in DOMAIN q : q[k][1].seq = n
    BY <1>7, <2>1, Zenon, ZenonT(60)
  <2>3. ASSUME Len(a) = 2, NEW j \in DOMAIN q[1]
        PROVE  q[1][j].seq = n /\ j \in DOMAIN a[1] /\ q[1][j].msg = a[1][j]
    <3>1. 1 \in 1 .. Len(a) /\ q[1] = b[1]
      BY <2>1, <2>3
    <3> QED
      BY <1>7, <2>3, <3>1, ZenonT(60), ZenonT(90)
  <2> QED
    BY <2>1, <2>2, <2>3
<1> QED
  BY <1>10, <1>11, <1>12, <1>13, <1>14, Zenon, ZenonT(60) DEF Delivered

\* A request and its answers on the two sockets.
LEMMA Asks ==
    ASSUME TypeInv, Clean, call = NoCall, NEW s \in Sockets, NEW flags, NEW want, NEW code \in Codes,
           NEW data \in Seq(Data), data = <<>> \/ flags = GetFlags \/ "DUMP" \in flags,
           Request(s, flags, want, code, data)
    PROVE  /\ sock' \in [Sockets -> Socket] /\ \A q \in Sockets : Sound(sock'[q])
           /\ call' = [sock |-> s, flags |-> flags, want |-> want, acc |-> <<>>] /\ call' # NoCall
           /\ \A k \in DOMAIN sock'[s].queue :
                sock'[s].queue[k][1].seq = sock'[s].seq => Reply(sock'[s].queue[k][1].msg, flags, code, data)
           /\ \A q \in Sockets \ unread : IF q = s THEN Current(sock[q])' ELSE sock'[q].queue = <<>>
<1>1. PICK a \in Seq(Seq(Msg)) : a = Answers(flags, code, data)
  BY AnswersAre, Zenon, ZenonT(60)
<1>2. /\ Len(a) <= 2 /\ \A k \in DOMAIN a : a[k] # <<>> /\ Reply(a[k][1], flags, code, data)
      /\ Len(a) = 2 => "DUMP" \in flags /\ \A j \in DOMAIN a[1] : a[1][j].type = "inner"
  BY <1>1, AnswersAre, Zenon, ZenonT(60)
<1>3. PICK u \in Socket : u = sock[s]
  BY Zenon, ZenonT(60) DEF TypeInv
<1>4. PICK t : t = Sent(u, a)
  OBVIOUS
<1>5. sock' = [sock EXCEPT ![s] = t]
  BY <1>1, <1>3, <1>4, Zenon, ZenonT(60) DEF Request
<1>6. sock'[s] = t /\ \A q \in Sockets \ {s} : sock'[q] = sock[q]
  BY <1>5, Zenon, ZenonT(60) DEF TypeInv
<1>7. Sound(u)
  BY <1>3, Zenon, ZenonT(60) DEF TypeInv
<1>8. Delivered(u, a, t)
  <2>1. \A k \in DOMAIN a : a[k] # <<>>
    BY <1>2, Zenon, ZenonT(60)
  <2> QED
    BY <1>4, <1>7, <2>1, SentIs
<1>9. sock' \in [Sockets -> Socket]
  BY <1>5, <1>8, Zenon, ZenonT(60) DEF TypeInv, Delivered
<1>10. \A q \in Sockets : Sound(sock'[q])
  BY <1>6, <1>8, Zenon, ZenonT(60) DEF TypeInv, Delivered
<1>11. call' = [sock |-> s, flags |-> flags, want |-> want, acc |-> <<>>] /\ call' # NoCall /\ call'.flags = flags
  BY DEF Request, NoCall, Sockets
<1>12. \A k \in DOMAIN sock'[s].queue :
          sock'[s].queue[k][1].seq = sock'[s].seq => Reply(sock'[s].queue[k][1].msg, flags, code, data)
  BY <1>2, <1>6, <1>8, Zenon, ZenonT(60) DEF Delivered
<1>13. ASSUME NEW q \in Sockets \ unread PROVE IF q = s THEN Current(sock[q])' ELSE sock'[q].queue = <<>>
  <2>1. sock[q].queue = <<>>
    BY Zenon, ZenonT(60) DEF Clean
  <2>2. CASE q # s
    BY <1>6, <2>1, <2>2, Zenon, ZenonT(60)
  <2>3. CASE q = s
    <3>1. /\ Len(t.queue) = Len(a) /\ \A k \in DOMAIN t.queue : t.queue[k][1].seq = t.seq
          /\ Len(a) = 2 => \A j \in DOMAIN t.queue[1] :
               t.queue[1][j].seq = t.seq /\ j \in DOMAIN a[1] /\ t.queue[1][j].msg = a[1][j]
      BY <1>3, <1>8, <2>1, <2>3, Zenon, ZenonT(60) DEF Delivered
    <3>2. /\ \A k \in DOMAIN t.queue : t.queue[k][1].seq = t.seq
          /\ Len(t.queue) <= 2
          /\ Len(t.queue) = 2 => /\ "DUMP" \in call'.flags
                                 /\ \A j \in DOMAIN t.queue[1] : t.queue[1][j].seq = t.seq /\ t.queue[1][j].msg.type = "inner"
      <4>1. Len(t.queue) <= 2
        BY <1>2, <3>1, Zenon, ZenonT(60)
      <4>2. ASSUME Len(t.queue) = 2
            PROVE  "DUMP" \in call'.flags /\ \A j \in DOMAIN t.queue[1] : t.queue[1][j].seq = t.seq /\ t.queue[1][j].msg.type = "inner"
        <5>1. Len(a) = 2
          BY <3>1, <4>2, Zenon, ZenonT(60)
        <5>2. "DUMP" \in flags /\ \A j \in DOMAIN a[1] : a[1][j].type = "inner"
          BY <1>2, <5>1, Zenon, ZenonT(60)
        <5>3. call'.flags = flags
          BY <1>11, Zenon, ZenonT(60)
        <5> QED
          BY <3>1, <5>1, <5>2, <5>3, ZenonT(60), ZenonT(90)
      <4> QED
        BY <3>1, <4>1, <4>2, Zenon, ZenonT(60)
    <3> QED
      BY <1>6, <2>3, <3>2, Zenon, ZenonT(60) DEF Current
  <2> QED
    BY <2>2, <2>3
<1> QED
  BY <1>9, <1>10, <1>11, <1>12, <1>13, Zenon, ZenonT(60)

-----------------------------------------------------------------------------
\* Requests.

\* What a request leaves alone.
Kept == UNCHANGED <<cmd, kind, todo, did, rolled, pc, net, dev, ns, leases, unread>> /\ hitAt \subseteq hitAt'

\* A request keeps the sockets in order, and its answer is what its place says.
LEMMA AskSockets ==
    ASSUME TypeInv, Clean, call = NoCall, Kept, pc \in HostPlaces \cup NetnsPlaces,
           NEW s \in Sockets, NEW flags, NEW want, NEW code \in Codes,
           NEW data \in Seq(Data), data = <<>> \/ flags = GetFlags \/ "DUMP" \in flags,
           Request(s, flags, want, code, data),
           pc # "dump_routes" => "DUMP" \notin flags, pc = "get_mac" => s = "netns",
           \A m : Reply(m, flags, code, data) => Tells(m)'
    PROVE  TypeInv' /\ Clean' /\ Answered'
<1>1. /\ sock' \in [Sockets -> Socket] /\ \A q \in Sockets : Sound(sock'[q])
      /\ call' = [sock |-> s, flags |-> flags, want |-> want, acc |-> <<>>] /\ call' # NoCall
      /\ \A k \in DOMAIN sock'[s].queue :
           sock'[s].queue[k][1].seq = sock'[s].seq => Reply(sock'[s].queue[k][1].msg, flags, code, data)
      /\ \A q \in Sockets \ unread : IF q = s THEN Current(sock[q])' ELSE sock'[q].queue = <<>>
  BY Asks, Zenon, ZenonT(60)
<1>2. call'.sock = s /\ call'.flags = flags /\ call'.want = want /\ call'.acc = <<>>
  BY <1>1
<1>3. TypeInv'
  <2>1. call' = [sock |-> call'.sock, flags |-> call'.flags, want |-> call'.want, acc |-> call'.acc]
    BY <1>1, <1>2, Zenon, ZenonT(60)
  <2>2. Networks # {} => net' \in Networks
    BY Zenon, ZenonT(60) DEF TypeInv, Kept
  <2> QED
    BY <1>1, <2>1, <2>2, Zenon, ZenonT(60) DEF TypeInv, Kept
<1>4. Clean'
  BY <1>1, <1>2, Zenon, ZenonT(60) DEF Clean, Kept
<1>5. Answered'
  <2>1. ASSUME NEW k \in DOMAIN sock'[s].queue, sock'[s].queue[k][1].seq = sock'[s].seq
        PROVE  Tells(sock[s].queue[k][1].msg)'
    <3>1. PICK m : m = sock'[s].queue[k][1].msg
      OBVIOUS
    <3>2. Tells(m)'
      BY <1>1, <2>1, <3>1, Zenon, ZenonT(60)
    <3> QED
      BY <3>1, <3>2, Zenon, ZenonT(60) DEF Tells, Made, Called, IfName
  <2>2. pc' \in HostPlaces \cup NetnsPlaces
    BY DEF Kept
  <2>3. pc' # "dump_routes" => "DUMP" \notin call'.flags
    BY <1>2, Zenon, ZenonT(60) DEF Kept
  <2>4. pc' = "get_mac" => call'.sock = "netns"
    BY <1>2, Zenon, ZenonT(60) DEF Kept
  <2> QED
    BY <1>2, <2>1, <2>2, <2>3, <2>4, Zenon, ZenonT(60) DEF Answered
<1> QED
  BY <1>3, <1>4, <1>5

\* The answer is good where the request is answered well and nothing else is unread.
LEMMA AskGood ==
    ASSUME TypeInv, Clean, call = NoCall, NEW s \in Sockets, NEW flags, NEW want, NEW code \in Codes,
           NEW data \in Seq(Data), data = <<>> \/ flags = GetFlags \/ "DUMP" \in flags,
           Request(s, flags, want, code, data), s \notin unread,
           \A m : Reply(m, flags, code, data) => IF m.type = "inner" THEN want = 1 ELSE m.code = "ok" /\ want = 0
    PROVE  Good'
<1>1. /\ call' = [sock |-> s, flags |-> flags, want |-> want, acc |-> <<>>] /\ call' # NoCall
      /\ \A k \in DOMAIN sock'[s].queue :
           sock'[s].queue[k][1].seq = sock'[s].seq => Reply(sock'[s].queue[k][1].msg, flags, code, data)
      /\ \A q \in Sockets \ unread : IF q = s THEN Current(sock[q])' ELSE sock'[q].queue = <<>>
  BY Asks, Zenon, ZenonT(60)
<1>2. call'.sock = s /\ call'.want = want
  BY <1>1
<1>3. Current(sock[s])'
  BY <1>1, Zenon, ZenonT(60)
<1>4. \A k \in DOMAIN sock'[s].queue : sock'[s].queue[k][1].seq = sock'[s].seq
  BY <1>3, Zenon, ZenonT(60) DEF Current
<1> QED
  BY <1>1, <1>2, <1>4, Zenon, ZenonT(60) DEF Good

\* The links keep their names and makers.
SameLinks ==
    /\ links' = [d \in DOMAIN links |-> links'[d]]
    /\ \A d \in DOMAIN links : Record(links'[d]) /\ links'[d].name = links[d].name /\ links'[d].by = links[d].by

\* The links are then as they were to the rest of the invariant.
LEMMA LinksKept ==
    ASSUME LinksInv, SameLinks, UNCHANGED <<next, cmd, leases>>
    PROVE  LinksInv' /\ DOMAIN links' = DOMAIN links
<1>1. DOMAIN links' = DOMAIN links
  BY Zenon, ZenonT(60) DEF SameLinks
<1>2. links' = [d \in DOMAIN links' |-> links'[d]]
  BY <1>1, Zenon, ZenonT(60) DEF SameLinks
<1>3. \A d \in DOMAIN links' : d \in Nat /\ d < next' /\ Record(links'[d]) /\ links'[d].by \in 0 .. cmd'
  BY <1>1, Zenon, ZenonT(60) DEF SameLinks, LinksInv
<1>4. \A d, e \in DOMAIN links' : links'[d].name = links'[e].name => d = e
  BY <1>1, ZenonT(60), ZenonT(90) DEF SameLinks, LinksInv
<1>5. \A d \in leases' : d \in DOMAIN links' /\ \E n \in Networks : Ipam(n).dhcp /\ links'[d].name = Conf[n].ifname
  BY <1>1 DEF SameLinks, LinksInv
<1> QED
  BY <1>1, <1>2, <1>3, <1>4, <1>5, Zenon, ZenonT(60) DEF LinksInv, Record

\* What the driver relies on.
LEMMA PlacedKept ==
    ASSUME LinksInv, Placed, SameLinks, Kept, UNCHANGED <<next, name>>
    PROVE  Placed'
<1>1. DOMAIN links' = DOMAIN links /\ \A d \in DOMAIN links : links'[d].name = links[d].name /\ links'[d].by = links[d].by
  BY LinksKept, Zenon, ZenonT(60) DEF SameLinks, Kept
<1> QED
  BY <1>1 DEF Placed, Kept, Made, Called, IfName

\* The temporary links.
LEMMA TemporaryKept ==
    ASSUME LinksInv, Temporary, SameLinks, Kept, UNCHANGED <<next, name>>, call = NoCall,
           pc \in {"create_tmp", "del_tmp"} => pc \in hitAt',
           pc = "get_tmp" => pc \in hitAt' \/ Good' \/ Called(name) = {}
    PROVE  Temporary'
<1> SUFFICES ASSUME NEW d \in DOMAIN links', links'[d].name \in TmpNames, links'[d].by = cmd',
                    hitAt' \cap {"create_tmp", "get_tmp", "del_tmp"} = {}
             PROVE  \/ pc' = "get_tmp" /\ links'[d].name = name' /\ Good'
                    \/ pc' = "rename" /\ d = dev'
  BY Zenon, ZenonT(60) DEF Temporary
<1>1. d \in DOMAIN links /\ links[d].name = links'[d].name /\ links[d].by = cmd
  BY LinksKept, Zenon, ZenonT(60) DEF SameLinks, Kept
<1>2. hitAt \cap {"create_tmp", "get_tmp", "del_tmp"} = {}
  BY Zenon, ZenonT(60) DEF Kept
<1>3. \/ pc = "get_tmp" /\ links[d].name = name
      \/ pc = "rename" /\ d = dev
      \/ pc = "del_tmp"
  BY <1>1, <1>2, Zenon, ZenonT(60) DEF Temporary
<1>4. pc # "del_tmp" /\ pc # "create_tmp"
  BY Zenon, ZenonT(60)
<1>5. pc = "get_tmp" => Good' \/ links[d].name # name
  BY <1>1, Zenon, ZenonT(60) DEF Called
<1> QED
  BY <1>1, <1>3, <1>4, <1>5, Zenon, ZenonT(60) DEF Kept

\* The networks set up and rolled back.
LEMMA RollingKept ==
    ASSUME LinksInv, Rolling, SameLinks, Kept, UNCHANGED <<next, name>>, call = NoCall,
           pc = "del_link" => pc \in hitAt',
           pc = "get_mac" => pc \in hitAt' \/ Good' \/ "netns" \in unread \/ Called(IfName) = {}
    PROVE  Rolling'
<1>1. DOMAIN links' = DOMAIN links /\ \A d \in DOMAIN links : links'[d].name = links[d].name /\ links'[d].by = links[d].by
  BY LinksKept, ZenonT(60), ZenonT(90) DEF SameLinks, Kept
<1>2. Complete(net) => Complete(net)'
  BY <1>1 DEF Complete, Called, Kept
<1>3. \A n : Undone(n) => Undone(n)'
  BY <1>1, Zenon, ZenonT(60) DEF Undone, Called, Kept
<1>4. ASSUME NEW n \in rolled
      PROVE  \/ Undone(n)'
             \/ /\ n = net
                /\ \/ pc = "get_mac" /\ Complete(net)' /\ Ipam(net).dhcp /\ Good'
                   \/ pc = "release" /\ dev \in leases
  <2>1. \/ Undone(n)
        \/ /\ n = net
           /\ \/ pc = "get_mac" /\ Complete(net) /\ Ipam(net).dhcp
              \/ pc = "release" /\ dev \in leases
              \/ pc = "del_link"
    BY Zenon, ZenonT(60) DEF Rolling
  <2>2. pc \in hitAt' /\ pc \in Undoing => Undone(n)'
    BY Zenon, ZenonT(60) DEF Undone
  <2>3. CASE n = net /\ pc = "get_mac" /\ Complete(net) /\ Ipam(net).dhcp
    <3>1. Called(IfName) # {}
      BY <2>3, Zenon, ZenonT(60) DEF Complete, IfName
    <3>2. "netns" \in unread => Undone(n)'
      BY <2>3, Zenon, ZenonT(60) DEF Undone, Kept
    <3>3. Complete(net)'
      BY <1>2, <2>3
    <3> QED
      BY <2>2, <2>3, <3>1, <3>2, <3>3, Zenon, ZenonT(60) DEF Undoing
  <2> QED
    BY <1>3, <2>1, <2>2, <2>3, Zenon, ZenonT(60) DEF Undoing
<1>5. pc' # "idle" => \A j \in DOMAIN did' : Complete(did[j])'
  <2> SUFFICES ASSUME pc' # "idle", NEW j \in DOMAIN did'
               PROVE  Complete(did[j])'
    BY Zenon, ZenonT(60)
  <2>1. UNCHANGED <<did, pc, leases>>
    BY Zenon, ZenonT(60) DEF Kept
  <2>2. PICK n : n = did[j] /\ Complete(n)
    BY <2>1, Zenon, ZenonT(60) DEF Rolling
  <2>3. Called(Conf[n].ifname)' = Called(Conf[n].ifname)
    BY <1>1 DEF Called
  <2>4. Complete(n)'
    BY <2>1, <2>2, <2>3, Zenon, ZenonT(60) DEF Complete
  <2> QED
    BY <2>1, <2>2, <2>4, Zenon, ZenonT(60) DEF Complete
<1>6. pc' = "configured" => Complete(net)'
  BY <1>1, Zenon, ZenonT(60) DEF Rolling, Complete, Called, Kept
<1>7. \A n \in rolled' :
         \/ Undone(n)'
         \/ /\ n = net'
            /\ \/ pc' = "get_mac" /\ Complete(net)' /\ Ipam(net').dhcp /\ Good'
               \/ pc' = "release" /\ dev' \in leases'
               \/ pc' = "del_link" /\ call' = NoCall
  BY <1>4, Zenon, ZenonT(60) DEF Kept
<1> QED
  BY <1>5, <1>6, <1>7, Zenon, ZenonT(60) DEF Rolling, Kept

\* A request that leaves the links as they are, but for what is told by SameLinks.
LEMMA QuietRequest ==
    ASSUME VlanInv, call = NoCall, Kept, UNCHANGED <<next, name>>, SameLinks, pc \in HostPlaces \cup NetnsPlaces,
           NEW s \in Sockets, NEW flags, NEW want, NEW code \in Codes,
           NEW data \in Seq(Data), data = <<>> \/ flags = GetFlags \/ "DUMP" \in flags,
           Request(s, flags, want, code, data),
           pc # "dump_routes" => "DUMP" \notin flags, pc = "get_mac" => s = "netns",
           \A m : Reply(m, flags, code, data) => Tells(m)',
           pc \in {"create_tmp", "del_tmp", "del_link"} => pc \in hitAt',
           pc = "get_tmp" => pc \in hitAt' \/ Good' \/ Called(name) = {},
           pc = "get_mac" => pc \in hitAt' \/ Good' \/ "netns" \in unread \/ Called(IfName) = {}
    PROVE  VlanInv'
<1>1. TypeInv' /\ Clean' /\ Answered'
  BY AskSockets, Zenon, ZenonT(60) DEF VlanInv
<1>2. LinksInv'
  BY LinksKept, Zenon, ZenonT(60) DEF VlanInv, Kept
<1>3. Placed'
  BY PlacedKept, Zenon, ZenonT(60) DEF VlanInv
<1>4. Temporary'
  BY TemporaryKept, Zenon, ZenonT(60) DEF VlanInv
<1>5. Rolling'
  BY RollingKept, Zenon, ZenonT(60) DEF VlanInv
<1> QED
  BY <1>1, <1>2, <1>3, <1>4, <1>5, Zenon, ZenonT(60) DEF VlanInv

\* Links that do not change.
LEMMA Unmoved ==
    ASSUME LinksInv, links' = links
    PROVE  SameLinks
<1>1. DOMAIN links' = DOMAIN links /\ links' = [d \in DOMAIN links |-> links'[d]]
  BY DEF LinksInv
<1> QED
  BY <1>1 DEF LinksInv, SameLinks

\* What the requests other than Refuse leave alone.
LEMMA AskingKept ==
    ASSUME Asking
    PROVE  Kept /\ hitAt' = hitAt
BY Zenon, ZenonT(60) DEF Asking, Kept, loopVars

\* A place where answers tell nothing that the invariant is about.
LEMMA Telling ==
    ASSUME pc' \notin {"create", "rename", "create_tmp", "get_tmp", "get_dev", "get_mac"}
    PROVE  \A m : Tells(m)'
BY Zenon, ZenonT(60) DEF Tells

\* dump_routes.
LEMMA DumpRoutesStep ==
    ASSUME VlanInv, DumpRoutes
    PROVE  VlanInv'
<1>1. pc = "dump_routes" /\ call = NoCall /\ Kept /\ UNCHANGED <<links, next, name>>
  BY AskingKept, Zenon, ZenonT(60) DEF DumpRoutes, AtPlace, kernelVars
<1>2. PICK data \in Seq(Data) : data = [j \in DOMAIN HostRoutes |-> j]
  <2>1. [j \in DOMAIN HostRoutes |-> j] = [j \in 1 .. Len(HostRoutes) |-> j] /\ Len(HostRoutes) \in Nat
    BY VlanAssumption, Zenon, ZenonT(60)
  <2>2. \A j \in 1 .. Len(HostRoutes) : j \in Data
    BY DEF Data
  <2>3. [j \in 1 .. Len(HostRoutes) |-> j] \in Seq(Data)
    BY <2>1, <2>2
  <2> QED
    BY <2>1, <2>3, Zenon, ZenonT(60)
<1>3. Request("host", DumpFlags, 0, "ok", data) /\ "DUMP" \in DumpFlags
  BY <1>2 DEF DumpRoutes, DumpFlags
<1>4. \A m : Tells(m)'
  BY <1>1, Telling DEF Kept
<1>5. SameLinks
  BY <1>1, Unmoved DEF VlanInv
<1>6. "host" \in Sockets /\ "ok" \in Codes /\ pc \in HostPlaces \cup NetnsPlaces
  BY <1>1 DEF Sockets, Codes, HostPlaces
<1>7. pc \notin {"create_tmp", "del_tmp", "del_link", "get_tmp", "get_mac"}
  BY <1>1
<1> QED
  BY <1>1, <1>3, <1>4, <1>5, <1>6, <1>7, QuietRequest, Zenon, ZenonT(60)

\* get_link on the host.
LEMMA GetHostLinkStep ==
    ASSUME VlanInv, GetHostLink
    PROVE  VlanInv'
<1>1. pc \in {"get_oif", "get_primary"} /\ call = NoCall /\ Kept /\ UNCHANGED <<links, next, name>>
  BY AskingKept, Zenon, ZenonT(60) DEF GetHostLink, AtPlace, kernelVars
<1>2. PICK found \in SUBSET DOMAIN HostLinks : GetLink("host", found)
  BY Zenon, ZenonT(60) DEF GetHostLink
<1>3. PICK data \in Seq(Data), code \in Codes : Request("host", GetFlags, 1, code, data)
  <2>1. CASE found = {}
    <3>1. Request("host", GetFlags, 1, "ENODEV", <<>>)
      BY <1>2, <2>1, Zenon, ZenonT(60) DEF GetLink
    <3>2. "ENODEV" \in Codes /\ <<>> \in Seq(Data)
      BY DEF Codes
    <3> QED
      BY <3>1, <3>2, Zenon, ZenonT(60)
  <2>2. CASE found # {}
    <3>1. PICK d \in found : d = CHOOSE e \in found : TRUE
      BY <2>2, Zenon, ZenonT(60)
    <3>2. Request("host", GetFlags, 1, "ok", <<d>>)
      BY <1>2, <2>2, <3>1, Zenon, ZenonT(60) DEF GetLink
    <3>3. <<d>> \in Seq(Data)
      BY <3>1 DEF Data
    <3> QED
      BY <3>2, <3>3, Zenon, ZenonT(60) DEF Codes
  <2> QED
    BY <2>1, <2>2
<1>4. \A m : Tells(m)'
  BY <1>1, Telling DEF Kept
<1>5. SameLinks
  BY <1>1, Unmoved DEF VlanInv
<1>6. "host" \in Sockets /\ pc \in HostPlaces \cup NetnsPlaces /\ "DUMP" \notin GetFlags
  BY <1>1 DEF Sockets, HostPlaces, GetFlags
<1>7. pc \notin {"create_tmp", "del_tmp", "del_link", "get_tmp", "get_mac"}
  BY <1>1
<1> QED
  BY <1>1, <1>3, <1>4, <1>5, <1>6, <1>7, QuietRequest, Zenon, ZenonT(60)

\* What the answers to get_link in the container say.
LEMMA GetLinkAnswers ==
    ASSUME LinksInv, NEW found \in SUBSET DOMAIN links, GetLink("netns", found)
    PROVE  \E code \in Codes, data \in Seq(Data) :
             /\ Request("netns", GetFlags, 1, code, data)
             /\ \A m : Reply(m, GetFlags, code, data) =>
                  IF m.type = "inner" THEN m.data \in found ELSE m.code # "ok" /\ found = {}
<1>1. \A x : Error(x).type = "error" /\ Error(x).code = x /\ Inner(x).type = "inner" /\ Inner(x).data = x
  BY DEF Error, Inner
<1>2. "DUMP" \notin GetFlags /\ "ACK" \notin GetFlags /\ "ok" \in Codes /\ "ENODEV" \in Codes
  BY DEF GetFlags, Codes
<1>3. CASE found = {}
  <2>1. Request("netns", GetFlags, 1, "ENODEV", <<>>) /\ <<>> \in Seq(Data)
    BY <1>3 DEF GetLink
  <2>2. ASSUME NEW m, Reply(m, GetFlags, "ENODEV", <<>>)
        PROVE  IF m.type = "inner" THEN m.data \in found ELSE m.code # "ok" /\ found = {}
    BY <1>1, <1>3, <2>2, Zenon, ZenonT(60) DEF Reply
  <2> QED
    BY <1>2, <2>1, <2>2, Zenon, ZenonT(60)
<1>4. CASE found # {}
  <2>1. PICK d \in found : d = CHOOSE e \in found : TRUE
    BY <1>4, Zenon, ZenonT(60)
  <2>2. Request("netns", GetFlags, 1, "ok", <<d>>)
    BY <1>4, <2>1, Zenon, ZenonT(60) DEF GetLink
  <2>3. <<d>> \in Seq(Data) /\ <<d>>[1] = d
    BY DEF Data, LinksInv
  <2>4. ASSUME NEW m, Reply(m, GetFlags, "ok", <<d>>)
        PROVE  IF m.type = "inner" THEN m.data \in found ELSE m.code # "ok" /\ found = {}
    <3>1. m = Inner(d)
      BY <1>2, <2>3, <2>4, Zenon, ZenonT(60) DEF Reply
    <3> QED
      BY <1>1, <3>1, Zenon, ZenonT(60)
  <2> QED
    BY <1>2, <2>2, <2>3, <2>4, Zenon, ZenonT(60)
<1> QED
  BY <1>3, <1>4

\* get_link in the container.
LEMMA GetContainerLinkStep ==
    ASSUME VlanInv, GetContainerLink
    PROVE  VlanInv'
<1>1. pc \in {"get_tmp", "get_dev", "get_mac"} /\ call = NoCall /\ Kept /\ UNCHANGED <<links, next, name>>
  BY AskingKept, Zenon, ZenonT(60) DEF GetContainerLink, AtPlace, kernelVars
<1>2. PICK found : /\ found = IF pc = "get_tmp" THEN Called(name) ELSE Called(IfName)
                   /\ GetLink("netns", found)
  <2>1. "get_tmp" # "get_dev" /\ "get_tmp" # "get_mac"
    OBVIOUS
  <2> QED
    BY <2>1, Zenon, ZenonT(60) DEF GetContainerLink, AtPlace
<1>3. found \in SUBSET DOMAIN links
  BY <1>2, Zenon, ZenonT(60) DEF Called
<1>4. PICK code \in Codes, data \in Seq(Data) :
             /\ Request("netns", GetFlags, 1, code, data)
             /\ \A m : Reply(m, GetFlags, code, data) =>
                  IF m.type = "inner" THEN m.data \in found ELSE m.code # "ok" /\ found = {}
  BY <1>2, <1>3, GetLinkAnswers, Zenon, ZenonT(60) DEF VlanInv
<1>5. ASSUME NEW m, Reply(m, GetFlags, code, data) PROVE Tells(m)'
  <2>1. IF m.type = "inner" THEN m.data \in found ELSE m.code # "ok"
    BY <1>4, <1>5, Zenon, ZenonT(60)
  <2>2. pc' = pc /\ found = IF pc = "get_tmp" THEN Called(name)' ELSE Called(IfName)'
    BY <1>1, <1>2, Zenon, ZenonT(60) DEF Called, IfName, Kept
  <2> QED
    BY <1>1, <2>1, <2>2, Zenon, ZenonT(60) DEF Tells
<1>6. SameLinks
  BY <1>1, Unmoved DEF VlanInv
<1>7. "netns" \in Sockets /\ pc \in HostPlaces \cup NetnsPlaces /\ "DUMP" \notin GetFlags
  BY <1>1 DEF Sockets, NetnsPlaces, GetFlags
<1>8. pc \notin {"create_tmp", "del_tmp", "del_link"}
  BY <1>1
<1>9. ASSUME "netns" \notin unread, found # {} PROVE Good'
  <2>1. ASSUME NEW m, Reply(m, GetFlags, code, data) PROVE IF m.type = "inner" THEN 1 = 1 ELSE m.code = "ok" /\ 1 = 0
    BY <1>4, <1>9, <2>1, Zenon, ZenonT(60)
  <2> QED
    BY <1>1, <1>4, <1>7, <1>9, <2>1, AskGood, Zenon, ZenonT(60) DEF VlanInv
<1>10. pc = "get_tmp" => Good' \/ Called(name) = {}
  <2>1. pc = "get_tmp" => unread = {}
    BY Zenon, ZenonT(60) DEF VlanInv, Clean, Forward, Making
  <2> QED
    BY <1>2, <1>9, <2>1, Zenon, ZenonT(60)
<1>11. pc = "get_mac" => Good' \/ "netns" \in unread \/ Called(IfName) = {}
  <2>1. pc = "get_mac" => pc # "get_tmp"
    OBVIOUS
  <2> QED
    BY <1>2, <1>9, <2>1, Zenon, ZenonT(60)
<1> QED
  BY <1>1, <1>4, <1>5, <1>6, <1>7, <1>8, <1>10, <1>11, QuietRequest, ZenonT(60), ZenonT(90)

\* Requests on a link that change neither its name nor its maker.
LEMMA OnLinkStep ==
    ASSUME VlanInv, NEW at \in {"lo", "addr", "up"}, NEW flags, "DUMP" \notin flags, NEW d, NEW new,
           OnLink(at, flags, d, "ok", new),
           d \in DOMAIN links => Record(new) /\ new.name = links[d].name /\ new.by = links[d].by
    PROVE  VlanInv'
<1>1. pc = at /\ call = NoCall /\ Kept /\ UNCHANGED <<next, name>>
  BY AskingKept, Zenon, ZenonT(60) DEF OnLink, AtPlace
<1>2. PICK code \in Codes : Request("netns", flags, 0, code, <<>>)
  BY Zenon, ZenonT(60) DEF OnLink, Codes
<1>3. SameLinks
  <2>1. CASE d \notin DOMAIN links
    <3>1. links' = links
      BY <2>1, Zenon, ZenonT(60) DEF OnLink
    <3> QED
      BY <3>1, Unmoved DEF VlanInv
  <2>2. CASE d \in DOMAIN links
    <3>1. links' = [links EXCEPT ![d] = new]
      BY <2>2, Zenon, ZenonT(60) DEF OnLink
    <3>2. DOMAIN links' = DOMAIN links /\ links'[d] = new /\ \A e \in DOMAIN links \ {d} : links'[e] = links[e]
      BY <2>2, <3>1
    <3>3. links' = [e \in DOMAIN links |-> links'[e]]
      BY <3>1, <3>2, Zenon, ZenonT(60)
    <3>4. \A e \in DOMAIN links : Record(links[e])
      BY Zenon, ZenonT(60) DEF VlanInv, LinksInv
    <3> QED
      BY <2>2, <3>2, <3>3, <3>4, Zenon, ZenonT(60) DEF SameLinks
  <2> QED
    BY <2>1, <2>2
<1>4. \A m : Tells(m)'
  BY <1>1, Telling DEF Kept
<1>5. "netns" \in Sockets /\ pc \in HostPlaces \cup NetnsPlaces /\ <<>> \in Seq(Data)
  BY <1>1 DEF Sockets, NetnsPlaces
<1>6. pc \notin {"create_tmp", "del_tmp", "del_link", "get_tmp", "get_mac"}
  BY <1>1
<1> QED
  BY <1>1, <1>2, <1>3, <1>4, <1>5, <1>6, QuietRequest, Zenon, ZenonT(60)

\* An interface is set up, or gets an address.
LEMMA ChangeLinkStep ==
    ASSUME VlanInv, AddAddr \/ SetUp \/ SetUpLo
    PROVE  VlanInv'
<1>1. "DUMP" \notin NewFlags
  BY DEF NewFlags
<1>2. ASSUME NEW d \in DOMAIN links, NEW v
      PROVE  /\ Record([links[d] EXCEPT !.addrs = v]) /\ Record([links[d] EXCEPT !.up = v])
             /\ [links[d] EXCEPT !.addrs = v].name = links[d].name /\ [links[d] EXCEPT !.addrs = v].by = links[d].by
             /\ [links[d] EXCEPT !.up = v].name = links[d].name /\ [links[d] EXCEPT !.up = v].by = links[d].by
  <2>1. Record(links[d])
    BY Zenon, ZenonT(60) DEF VlanInv, LinksInv
  <2> QED
    BY <2>1 DEF Record
<1>3. CASE AddAddr
  <2>1. PICK new : /\ OnLink("addr", NewFlags, dev, "ok", new)
                   /\ new = [links[dev] EXCEPT !.addrs = links[dev].addrs \cup {Head(rest)}]
    BY <1>3, Zenon, ZenonT(60) DEF AddAddr
  <2> QED
    BY <1>1, <1>2, <2>1, OnLinkStep, Zenon, ZenonT(60)
<1>4. CASE SetUp
  <2>1. PICK new : OnLink("up", NewFlags, dev, "ok", new) /\ new = [links[dev] EXCEPT !.up = TRUE]
    BY <1>4, Zenon, ZenonT(60) DEF SetUp
  <2> QED
    BY <1>1, <1>2, <2>1, OnLinkStep, Zenon, ZenonT(60)
<1>5. CASE SetUpLo
  <2>1. PICK new : OnLink("lo", NewFlags, 1, "ok", new) /\ new = [links[1] EXCEPT !.up = TRUE]
    BY <1>5, Zenon, ZenonT(60) DEF SetUpLo
  <2> QED
    BY <1>1, <1>2, <2>1, OnLinkStep, Zenon, ZenonT(60)
<1> QED
  BY <1>3, <1>4, <1>5

\* A default route is added.
LEMMA AddRouteStep ==
    ASSUME VlanInv, AddRoute
    PROVE  VlanInv'
<1>1. pc = "route" /\ call = NoCall /\ Kept /\ UNCHANGED <<links, next, name>>
  BY AskingKept, Zenon, ZenonT(60) DEF AddRoute, AtPlace
<1>2. PICK code \in Codes : Request("netns", RouteFlags, 0, code, <<>>)
  <2>1. \A code : Request("netns", RouteFlags, 0, code, <<>>) /\ code \in {"ok", "EEXIST", "ENETUNREACH"} =>
          \E c \in Codes : Request("netns", RouteFlags, 0, c, <<>>)
    BY Zenon, ZenonT(60) DEF Codes
  <2> QED
    BY <2>1, Zenon, ZenonT(60) DEF AddRoute
<1>3. SameLinks
  BY <1>1, Unmoved DEF VlanInv
<1>4. \A m : Tells(m)'
  BY <1>1, Telling DEF Kept
<1>5. "netns" \in Sockets /\ pc \in HostPlaces \cup NetnsPlaces /\ <<>> \in Seq(Data) /\ "DUMP" \notin RouteFlags
  BY <1>1 DEF Sockets, NetnsPlaces, RouteFlags
<1>6. pc \notin {"create_tmp", "del_tmp", "del_link", "get_tmp", "get_mac"}
  BY <1>1
<1> QED
  BY <1>1, <1>2, <1>3, <1>4, <1>5, <1>6, QuietRequest, Zenon, ZenonT(60)

\* The answers to a request without data, in terms of its code.
LEMMA AckAnswers ==
    ASSUME NEW flags, "ACK" \in flags, "DUMP" \notin flags, NEW code, NEW m, Reply(m, flags, code, <<>>)
    PROVE  m.type # "inner" /\ m.code = code
BY DEF Reply, Error

\* The kernel refuses a request.
LEMMA RefuseStep ==
    ASSUME VlanInv, Refuse
    PROVE  VlanInv'
<1>1. pc \in HostPlaces \cup NetnsPlaces /\ call = NoCall /\ Kept /\ pc \in hitAt' /\ UNCHANGED <<links, next, name>>
  BY Zenon, ZenonT(60) DEF Refuse, Hit, Kept, kernelVars, loopVars, localVars
<1>2. PICK s \in Sockets : Request(s, SetFlags, 0, "refused", <<>>) /\ (pc = "get_mac" => s = "netns")
  <2>1. pc = "get_mac" => pc \notin HostPlaces
    BY DEF HostPlaces
  <2> QED
    BY <2>1, Zenon, ZenonT(60) DEF Refuse, Sockets
<1>3. "ACK" \in SetFlags /\ "DUMP" \notin SetFlags /\ "refused" \in Codes /\ <<>> \in Seq(Data) /\ "refused" # "ok"
  BY DEF SetFlags, Codes
<1>4. ASSUME NEW m, Reply(m, SetFlags, "refused", <<>>) PROVE Tells(m)'
  <2>1. m.type # "inner" /\ m.code = "refused"
    BY <1>3, <1>4, AckAnswers
  <2> QED
    BY <1>3, <2>1, Zenon, ZenonT(60) DEF Tells
<1>5. SameLinks
  BY <1>1, Unmoved DEF VlanInv
<1> QED
  BY <1>1, <1>2, <1>3, <1>4, <1>5, QuietRequest, Zenon, ZenonT(60)

\* Links that have no lease are deleted.
Shrunk(found) ==
    /\ DOMAIN links' = DOMAIN links \ found /\ found \cap leases = {}
    /\ links' = [d \in DOMAIN links' |-> links'[d]]
    /\ \A d \in DOMAIN links' : links'[d] = links[d]
    /\ UNCHANGED <<next, cmd, leases>>

LEMMA ShrunkLinks ==
    ASSUME LinksInv, NEW found, Shrunk(found)
    PROVE  LinksInv' /\ \A x : Called(x)' = Called(x) \ found /\ (Made(x) => Made(x)')
<1>1. \A x : Called(x)' = Called(x) \ found
  BY Zenon, ZenonT(60) DEF Shrunk, Called
<1>2. \A x : Made(x) => Made(x)'
  BY Zenon, ZenonT(60) DEF Shrunk, Called, Made
<1>3. LinksInv'
  <2>1. \A d \in leases' : d \in DOMAIN links' /\ \E n \in Networks : Ipam(n).dhcp /\ links'[d].name = Conf[n].ifname
    BY DEF Shrunk, LinksInv
  <2>2. \A d \in DOMAIN links' : d \in Nat /\ d < next' /\ Record(links'[d]) /\ links'[d].by \in 0 .. cmd'
    BY Zenon, ZenonT(60) DEF Shrunk, LinksInv
  <2>3. \A d, e \in DOMAIN links' : links'[d].name = links'[e].name => d = e
    BY Zenon, ZenonT(60) DEF Shrunk, LinksInv
  <2> QED
    BY <2>1, <2>2, <2>3, Zenon, ZenonT(60) DEF Shrunk, LinksInv, Record
<1> QED
  BY <1>1, <1>2, <1>3

\* Deleting a link is answered with an acknowledgement or an error.
LEMMA DelLinkIs ==
    ASSUME VlanInv, NEW found, found \cap leases = {}, DelLink(found)
    PROVE  /\ Kept /\ hitAt' = hitAt /\ UNCHANGED <<next, name>> /\ Shrunk(found)
           /\ \E code \in Codes : Request("netns", SetFlags, 0, code, <<>>)
<1>1. Kept /\ hitAt' = hitAt /\ UNCHANGED <<next, name>>
  BY AskingKept, Zenon, ZenonT(60) DEF DelLink
<1>2. links' = [d \in DOMAIN links \ found |-> links[d]]
  BY Zenon, ZenonT(60) DEF DelLink
<1>3. DOMAIN links' = DOMAIN links \ found /\ \A d \in DOMAIN links' : links'[d] = links[d]
  BY <1>2
<1>4. links' = [d \in DOMAIN links' |-> links'[d]]
  BY <1>2, <1>3
<1>5. \E code \in Codes : Request("netns", SetFlags, 0, code, <<>>)
  BY Zenon, ZenonT(60) DEF DelLink, Codes
<1> QED
  BY <1>1, <1>3, <1>4, <1>5, Zenon, ZenonT(60) DEF Shrunk, Kept

\* Where links are deleted the answers tell nothing.
LEMMA DelSockets ==
    ASSUME VlanInv, call = NoCall, pc \in {"del_tmp", "del_link"}, Kept,
           NEW code \in Codes, Request("netns", SetFlags, 0, code, <<>>)
    PROVE  TypeInv' /\ Clean' /\ Answered'
<1>1. \A m : Tells(m)'
  BY Telling DEF Kept
<1>2. "netns" \in Sockets /\ pc \in HostPlaces \cup NetnsPlaces /\ <<>> \in Seq(Data) /\ "DUMP" \notin SetFlags
  BY DEF Sockets, NetnsPlaces, SetFlags
<1> QED
  BY <1>1, <1>2, AskSockets, Zenon, ZenonT(60) DEF VlanInv

\* The networks that are set up keep their links to themselves.
LEMMA DidMade ==
    ASSUME Placed, UNCHANGED <<kind, did>>, \A x : Made(x) => Made(x)', kind = "setup", pc # "idle"
    PROVE  \A j \in DOMAIN did' : Made(Conf[did[j]].ifname)'
<1> TAKE j \in DOMAIN did'
<1>1. PICK x : x = Conf[did[j]].ifname
  OBVIOUS
<1>2. Made(x)'
  BY <1>1, Zenon, ZenonT(60) DEF Placed
<1> QED
  BY <1>1, <1>2, Zenon, ZenonT(60) DEF Made, Called

\* The temporary link is deleted.
LEMMA DelTmpStep ==
    ASSUME VlanInv, DelTmp
    PROVE  VlanInv'
<1>1. pc = "del_tmp" /\ call = NoCall
  BY Zenon, ZenonT(60) DEF DelTmp, AtPlace
<1>2. PICK found : found = {dev} \cap DOMAIN links /\ DelLink(found)
  BY Zenon, ZenonT(60) DEF DelTmp
<1>3. found \cap leases = {} /\ dev \notin leases
  BY <1>1, <1>2, Zenon, ZenonT(60) DEF VlanInv, Placed
<1>4. Kept /\ hitAt' = hitAt /\ UNCHANGED <<next, name>> /\ Shrunk(found)
  BY <1>2, <1>3, DelLinkIs, Zenon, ZenonT(60)
<1>5. TypeInv' /\ Clean' /\ Answered'
  <2>1. PICK code \in Codes : Request("netns", SetFlags, 0, code, <<>>)
    BY <1>2, <1>3, DelLinkIs, Zenon, ZenonT(60)
  <2> QED
    BY <1>1, <1>4, <2>1, DelSockets
<1>6. LinksInv' /\ \A x : Called(x)' = Called(x) \ found /\ (Made(x) => Made(x)')
  BY <1>4, ShrunkLinks, Zenon, ZenonT(60) DEF VlanInv
<1>7. dev \notin DOMAIN links'
  BY <1>2, <1>4, ZenonT(60), ZenonT(90) DEF Shrunk
<1>8. Placed'
  <2>1. kind' = "setup" /\ pc' # "idle" => \A j \in DOMAIN did' : Made(Conf[did[j]].ifname)'
    BY <1>4, <1>6, DidMade, Zenon, ZenonT(60) DEF VlanInv, Kept
  <2>2. pc' = "del_tmp" /\ dev' \notin leases' /\ dev' \notin DOMAIN links'
    BY <1>1, <1>3, <1>4, <1>7, Zenon, ZenonT(60) DEF Kept
  <2> QED
    BY <2>1, <2>2, Zenon, ZenonT(60) DEF Placed, Having, Undoing
<1>9. Temporary'
  BY <1>1, <1>4, <1>7 DEF VlanInv, Temporary, Shrunk, Kept
<1>10. Rolling'
  <2>1. \A n : Undone(n) => Undone(n)'
    BY <1>4, <1>6, Zenon, ZenonT(60) DEF Undone, Shrunk, Kept, Called
  <2>2. \A n : Complete(n) => Complete(n)'
    BY <1>3, <1>4, <1>6, Zenon, ZenonT(60) DEF Complete, Kept
  <2>3. \A n \in rolled' : Undone(n)'
    BY <1>1, <1>4, <2>1, ZenonT(60), ZenonT(90) DEF VlanInv, Rolling, Kept
  <2>4. \A j \in DOMAIN did' : Complete(did[j])'
    BY <1>1, <1>4, <2>2, Zenon, ZenonT(60) DEF VlanInv, Rolling, Kept
  <2>5. pc' = "del_tmp"
    BY <1>1, <1>4, Zenon, ZenonT(60) DEF Kept
  <2> QED
    BY <1>4, <2>3, <2>4, <2>5, Zenon, ZenonT(60) DEF VlanInv, Rolling, Kept, Making, Having, Undoing, Forward
<1> QED
  BY <1>5, <1>6, <1>8, <1>9, <1>10, Zenon, ZenonT(60) DEF VlanInv

\* The link of a network is deleted, by its name.
LEMMA DelByNameStep ==
    ASSUME Named, VlanInv, DelByName
    PROVE  VlanInv'
<1>1. pc = "del_link" /\ call = NoCall
  BY Zenon, ZenonT(60) DEF DelByName, AtPlace
<1>2. PICK found : found = Called(IfName) /\ DelLink(found)
  BY Zenon, ZenonT(60) DEF DelByName
<1>3. found \cap leases = {}
  BY <1>1, <1>2, Zenon, ZenonT(60) DEF VlanInv, Placed
<1>4. Kept /\ hitAt' = hitAt /\ UNCHANGED <<next, name>> /\ Shrunk(found)
  BY <1>2, <1>3, DelLinkIs, Zenon, ZenonT(60)
<1>5. TypeInv' /\ Clean' /\ Answered'
  <2>1. PICK code \in Codes : Request("netns", SetFlags, 0, code, <<>>)
    BY <1>2, <1>3, DelLinkIs, Zenon, ZenonT(60)
  <2> QED
    BY <1>1, <1>4, <2>1, DelSockets
<1>6. LinksInv' /\ \A x : Called(x)' = Called(x) \ found /\ (Made(x) => Made(x)')
  BY <1>4, ShrunkLinks, Zenon, ZenonT(60) DEF VlanInv
<1>7. pc' = "del_link"
  BY <1>1, <1>4, Zenon, ZenonT(60) DEF Kept
<1>8. Called(IfName)' = {} /\ Made(IfName)'
  <2>1. PICK x : x = IfName
    OBVIOUS
  <2>2. Called(x)' = {}
    BY <1>2, <1>6, <2>1, Zenon, ZenonT(60)
  <2>3. IfName' = x
    BY <1>4, <2>1, Zenon, ZenonT(60) DEF IfName, Kept
  <2> QED
    BY <2>2, <2>3, Zenon, ZenonT(60) DEF Made, Called
<1>9. Placed'
  <2>1. kind' = "setup" /\ pc' # "idle" => \A j \in DOMAIN did' : Made(Conf[did[j]].ifname)'
    BY <1>4, <1>6, DidMade, Zenon, ZenonT(60) DEF VlanInv, Kept
  <2> QED
    BY <1>7, <1>8, <2>1 DEF Placed, Having
<1>10. Temporary'
  BY <1>1, <1>4 DEF VlanInv, Temporary, Shrunk, Kept
<1>11. Rolling'
  <2>1. \A n : Undone(n) => Undone(n)'
    BY <1>4, <1>6, Zenon, ZenonT(60) DEF Undone, Shrunk, Kept, Called
  <2>2. \A n : n = net => Undone(n)'
    BY <1>4, <1>8, Zenon, ZenonT(60) DEF Undone, IfName, Kept
  <2>3. \A n \in rolled' : Undone(n)'
    BY <1>1, <1>4, <2>1, <2>2, Zenon, ZenonT(60) DEF VlanInv, Rolling, Kept
  <2>4. ASSUME NEW j \in DOMAIN did PROVE Complete(did[j])'
    <3>1. PICK n \in Networks : n = did[j] /\ n # net /\ Complete(n)
      BY <1>1 DEF VlanInv, TypeInv, Rolling, Undoing
    <3>2. Conf[n].ifname # IfName
      BY <1>1, <3>1 DEF Named, VlanInv, TypeInv, IfName
    <3>3. Called(Conf[n].ifname) \cap found = {}
      BY <1>2, <3>2, Zenon, ZenonT(60) DEF Called
    <3>4. Complete(n)'
      BY <1>4, <1>6, <3>1, <3>3, Zenon, ZenonT(60) DEF Complete, Kept
    <3> QED
      BY <1>4, <3>1, <3>4, ZenonT(60), ZenonT(90) DEF Complete, Called, Kept
  <2> QED
    BY <1>1, <1>4, <1>7, <2>3, <2>4, Zenon, ZenonT(60) DEF VlanInv, Rolling, Kept, Making, Having, Undoing, Forward
<1> QED
  BY <1>5, <1>6, <1>9, <1>10, <1>11, Zenon, ZenonT(60) DEF VlanInv

\* A request of the setup on the links leaves only link d different, which then has
\* a name that was free and is of no network set up before.
Grown(d) ==
    /\ d \in DOMAIN links' /\ DOMAIN links' = DOMAIN links \cup {d}
    /\ links' = [e \in DOMAIN links' |-> links'[e]]
    /\ \A e \in DOMAIN links \ {d} : links'[e] = links[e]
    /\ Record(links'[d]) /\ links'[d].by = cmd /\ d \notin leases /\ d \in Nat /\ d < next' /\ next' \in Nat /\ next <= next'
    /\ \A e \in DOMAIN links \ {d} : links[e].name # links'[d].name
    /\ \A j \in DOMAIN did : Conf[did[j]].ifname # links'[d].name

LEMMA GrownLinks ==
    ASSUME VlanInv, Kept, NEW d, Grown(d)
    PROVE  /\ LinksInv'
           /\ \A x : Made(x) \/ x = links'[d].name => Made(x)'
           /\ \A j \in DOMAIN did : Complete(did[j]) => Complete(did[j])'
<1>1. \A x : Called(x)' \subseteq Called(x) \cup {d}
  BY Zenon, ZenonT(60) DEF Grown, Called
<1>2. ASSUME NEW x, Made(x) PROVE Made(x)'
  <2> SUFFICES ASSUME NEW e \in Called(x)' PROVE links'[e].by = cmd'
    BY Zenon, ZenonT(60) DEF Made
  <2>1. e = d => links'[e].by = cmd'
    BY Zenon, ZenonT(60) DEF Grown, Kept
  <2>2. e # d => e \in Called(x) /\ e \in DOMAIN links \ {d}
    BY <1>1, Zenon, ZenonT(60) DEF Called
  <2> QED
    BY <1>2, <2>1, <2>2, Zenon, ZenonT(60) DEF Made, Grown, Kept
<1>3. ASSUME NEW x, x = links'[d].name PROVE Made(x)'
  <2>1. Called(x)' \subseteq {d}
    BY <1>3, Zenon, ZenonT(60) DEF Grown, Called
  <2> QED
    BY <2>1, Zenon, ZenonT(60) DEF Made, Grown, Kept
<1>4. ASSUME NEW j \in DOMAIN did, Complete(did[j]) PROVE Complete(did[j])'
  <2>1. PICK n : n = did[j] /\ Complete(n) /\ Conf[n].ifname # links'[d].name
    BY <1>4, Zenon, ZenonT(60) DEF Grown
  <2>2. Called(Conf[n].ifname)' = Called(Conf[n].ifname) \ {d}
    BY <2>1, ZenonT(60), ZenonT(90) DEF Grown, Called
  <2>3. Ipam(n).dhcp => d \notin Called(Conf[n].ifname)
    BY <2>1, Zenon, ZenonT(60) DEF Complete, Grown
  <2>4. Complete(n)'
    BY <2>1, <2>2, <2>3, Zenon, ZenonT(60) DEF Complete, Kept
  <2> QED
    BY <2>1, <2>4, Zenon, ZenonT(60) DEF Complete, Called, Kept
<1>5. LinksInv'
  <2>1. \A e \in leases' : e \in DOMAIN links' /\ \E n \in Networks : Ipam(n).dhcp /\ links'[e].name = Conf[n].ifname
    <3> TAKE e \in leases'
    <3>1. e # d /\ e \in DOMAIN links /\ \E n \in Networks : Ipam(n).dhcp /\ links[e].name = Conf[n].ifname
      BY DEF VlanInv, LinksInv, Grown, Kept
    <3>2. e \in DOMAIN links' /\ links'[e] = links[e]
      BY <3>1, Zenon, ZenonT(60) DEF Grown
    <3> QED
      BY <3>1, <3>2
  <2>2. cmd \in Nat /\ next \in Nat
    BY Zenon, ZenonT(60) DEF VlanInv, LinksInv, TypeInv
  <2>3. \A e \in DOMAIN links' : e \in Nat /\ e < next' /\ Record(links'[e]) /\ links'[e].by \in 0 .. cmd'
    <3> TAKE e \in DOMAIN links'
    <3>1. CASE e = d
      <4>1. links'[e].by = cmd /\ cmd' = cmd /\ e \in Nat /\ e < next' /\ Record(links'[e])
        BY <3>1, Zenon, ZenonT(60) DEF Grown, Kept
      <4> QED
        BY <2>2, <4>1
    <3>2. CASE e # d
      <4>1. e \in DOMAIN links /\ links'[e] = links[e] /\ cmd' = cmd /\ next <= next' /\ next' \in Nat
        BY <3>2, Zenon, ZenonT(60) DEF Grown, Kept
      <4>2. e \in Nat /\ e < next /\ Record(links[e]) /\ links[e].by \in 0 .. cmd
        BY <4>1, Zenon, ZenonT(60) DEF VlanInv, LinksInv
      <4> QED
        BY <2>2, <4>1, <4>2
    <3> QED
      BY <3>1, <3>2
  <2>4. \A e, f \in DOMAIN links' : links'[e].name = links'[f].name => e = f
    <3> TAKE e, f \in DOMAIN links'
    <3>1. \A g \in DOMAIN links' \ {d} : g \in DOMAIN links \ {d} /\ links'[g] = links[g]
      BY Zenon, ZenonT(60) DEF Grown
    <3>2. \A g, h \in DOMAIN links : links[g].name = links[h].name => g = h
      BY Zenon, ZenonT(60) DEF VlanInv, LinksInv
    <3>3. CASE e # d /\ f # d
      BY <3>1, <3>2, <3>3, Zenon, ZenonT(60)
    <3>4. CASE e = d /\ f # d
      BY <3>1, <3>4, Zenon, ZenonT(60) DEF Grown
    <3>5. CASE e # d /\ f = d
      BY <3>1, <3>5, Zenon, ZenonT(60) DEF Grown
    <3> QED
      BY <3>3, <3>4, <3>5, Zenon, ZenonT(60)
  <2>5. next' \in Nat /\ links' = [e \in DOMAIN links' |-> links'[e]]
    BY Zenon, ZenonT(60) DEF Grown
  <2> QED
    BY <2>1, <2>3, <2>4, <2>5, Zenon, ZenonT(60) DEF LinksInv, Record
<1> QED
  BY <1>2, <1>3, <1>4, <1>5, Zenon, ZenonT(60)

\* The networks of the command while one of them is set up and its link changes.
LEMMA MakingKept ==
    ASSUME VlanInv, Kept, pc \in Making, \A j \in DOMAIN did : Complete(did[j]) => Complete(did[j])'
    PROVE  Rolling'
<1>1. pc' = pc /\ pc # "idle" /\ pc \in Forward /\ pc \notin Undoing /\ pc # "configured"
  BY DEF Making, Undoing, Forward, Kept
<1>2. rolled' = {}
  BY <1>1, Zenon, ZenonT(60) DEF VlanInv, Rolling, Kept
<1>3. \A j \in DOMAIN did' : Complete(did[j])'
  BY <1>1, Zenon, ZenonT(60) DEF VlanInv, Rolling, Kept
<1> QED
  BY <1>1, <1>2, <1>3, ZenonT(60), ZenonT(90) DEF VlanInv, Rolling, Kept

\* The temporary link gets the name of the interface.
LEMMA SetLinkNameStep ==
    ASSUME Named, VlanInv, SetLinkName
    PROVE  VlanInv'
<1>1. pc = "rename" /\ call = NoCall /\ Kept /\ hitAt' = hitAt /\ UNCHANGED <<next, name>>
  BY AskingKept, Zenon, ZenonT(60) DEF SetLinkName, OnLink, AtPlace
<1>2. dev \notin leases /\ (dev \in DOMAIN links => links[dev].by = cmd)
  BY <1>1, Zenon, ZenonT(60) DEF VlanInv, Placed
<1>3. /\ "netns" \in Sockets /\ pc \in HostPlaces \cup NetnsPlaces /\ <<>> \in Seq(Data)
      /\ "ACK" \in SetFlags /\ "DUMP" \notin SetFlags
  BY <1>1 DEF Sockets, NetnsPlaces, SetFlags
<1>4. CASE dev \notin DOMAIN links \/ IfName \in Names
  <2>1. links' = links /\ \E code \in Codes \ {"ok"} : Request("netns", SetFlags, 0, code, <<>>)
    <3>1. "ENODEV" \in Codes \ {"ok"} /\ "EEXIST" \in Codes \ {"ok"} /\ "EEXIST" # "ok"
      BY DEF Codes
    <3> QED
      BY <1>4, <3>1, Zenon, ZenonT(60) DEF SetLinkName, OnLink
  <2>2. PICK code \in Codes \ {"ok"} : Request("netns", SetFlags, 0, code, <<>>)
    BY <2>1, Zenon, ZenonT(60)
  <2>3. ASSUME NEW m, Reply(m, SetFlags, code, <<>>) PROVE Tells(m)'
    <3>1. m.type # "inner" /\ m.code = code
      BY <1>3, <2>3, AckAnswers
    <3> QED
      BY <3>1, Zenon, ZenonT(60) DEF Tells
  <2>4. SameLinks
    BY <2>1, Unmoved DEF VlanInv
  <2>5. pc \notin {"create_tmp", "del_tmp", "del_link", "get_tmp", "get_mac"}
    BY <1>1
  <2> QED
    BY <1>1, <1>3, <2>2, <2>3, <2>4, <2>5, QuietRequest, ZenonT(60), ZenonT(90)
<1>5. CASE dev \in DOMAIN links /\ IfName \notin Names
  <2>1. links' = [links EXCEPT ![dev] = [links[dev] EXCEPT !.name = IfName]] /\ Request("netns", SetFlags, 0, "ok", <<>>)
    BY <1>5, Zenon, ZenonT(60) DEF SetLinkName, OnLink
  <2>2. /\ DOMAIN links' = DOMAIN links /\ links' = [e \in DOMAIN links' |-> links'[e]]
        /\ links'[dev] = [links[dev] EXCEPT !.name = IfName]
        /\ \A e \in DOMAIN links \ {dev} : links'[e] = links[e]
    BY <1>5, <2>1, Zenon, ZenonT(60)
  <2>3. Record(links[dev]) /\ dev \in Nat /\ dev < next /\ next \in Nat
    BY <1>5, Zenon, ZenonT(60) DEF VlanInv, LinksInv
  <2>4. Record(links'[dev]) /\ links'[dev].by = cmd /\ links'[dev].name = IfName
    BY <1>2, <1>5, <2>2, <2>3 DEF Record
  <2>5. \A e \in DOMAIN links : links[e].name # IfName
    BY <1>5, ZenonT(60), ZenonT(90) DEF Names
  <2>6. \A j \in DOMAIN did : Conf[did[j]].ifname # IfName
    BY <1>1 DEF VlanInv, TypeInv, Rolling, Making, Named, IfName
  <2>7. Grown(dev)
    <3>1. DOMAIN links' = DOMAIN links \cup {dev} /\ dev < next' /\ next' \in Nat /\ next <= next'
      BY <1>1, <1>5, <2>2, <2>3
    <3> QED
      BY <1>1, <1>2, <1>5, <2>2, <2>3, <2>4, <2>5, <2>6, <3>1, Zenon, ZenonT(60) DEF Grown
  <2>8. /\ LinksInv' /\ \A x : Made(x) \/ x = links'[dev].name => Made(x)'
        /\ \A j \in DOMAIN did : Complete(did[j]) => Complete(did[j])'
    BY <1>1, <2>7, GrownLinks, Zenon, ZenonT(60)
  <2>9. Made(IfName)'
    <3>1. PICK x : x = IfName
      OBVIOUS
    <3>2. Made(x)' /\ IfName' = x
      BY <1>1, <2>4, <2>8, <3>1, Zenon, ZenonT(60) DEF IfName, Kept
    <3> QED
      BY <3>2, Zenon, ZenonT(60) DEF Made, Called
  <2>10. TypeInv' /\ Clean' /\ Answered'
    <3>1. pc' = "rename" /\ "ok" \in Codes
      BY <1>1 DEF Kept, Codes
    <3>2. dev' \in Called(IfName)'
      <4>1. dev' = dev /\ IfName' = IfName
        BY <1>1, Zenon, ZenonT(60) DEF IfName, Kept
      <4> QED
        BY <1>5, <2>2, <2>4, <4>1, Zenon, ZenonT(60) DEF Called
    <3>3. \A m : Tells(m)'
      BY <2>9, <3>1, <3>2, Zenon, ZenonT(60) DEF Tells
    <3> QED
      BY <1>1, <1>3, <2>1, <3>1, <3>3, AskSockets, ZenonT(60), ZenonT(90) DEF VlanInv
  <2>11. Placed'
    <3>1. kind' = "setup" /\ pc' # "idle" => \A j \in DOMAIN did' : Made(Conf[did[j]].ifname)'
      BY <1>1, <2>8, DidMade, Zenon, ZenonT(60) DEF VlanInv, Kept
    <3>2. pc' = "rename" /\ dev' \notin leases' /\ links'[dev'].by = cmd'
      BY <1>1, <1>2, <2>4, Zenon, ZenonT(60) DEF Kept
    <3> QED
      BY <3>1, <3>2, Zenon, ZenonT(60) DEF Placed, Having, Undoing
  <2>12. Temporary'
    BY <1>1, <2>2 DEF VlanInv, Temporary, Kept
  <2>13. Rolling'
    <3>1. pc \in Making
      BY <1>1 DEF Making
    <3> QED
      BY <1>1, <2>8, <3>1, MakingKept
  <2> QED
    BY <2>8, <2>10, <2>11, <2>12, <2>13, Zenon, ZenonT(60) DEF VlanInv
<1> QED
  BY <1>4, <1>5

\* A link is created under the name of the interface or a temporary one.
LEMMA CreateLinkStep ==
    ASSUME Named, VlanInv, CreateLink
    PROVE  VlanInv'
<1>1. PICK x \in IF pc = "create" THEN {IfName} ELSE TmpNames :
        /\ AtPlace("create") \/ AtPlace("create_tmp")
        /\ Request("host", NewFlags, 0, IF x \notin HostNames \cup Names THEN "ok" ELSE "EEXIST", <<>>)
        /\ name' = x
        /\ links' = IF x \notin HostNames \cup Names
                    THEN [d \in DOMAIN links \cup {next} |-> IF d = next THEN Link(x, dev) ELSE links[d]] ELSE links
        /\ next' = IF x \notin HostNames \cup Names THEN next + 1 ELSE next
        /\ Asking
  BY Zenon, ZenonT(60) DEF CreateLink
<1>2. pc \in {"create", "create_tmp"} /\ call = NoCall /\ Kept /\ hitAt' = hitAt /\ pc \in Making /\ pc' = pc
  <2>1. pc \in {"create", "create_tmp"} /\ call = NoCall
    BY <1>1, Zenon, ZenonT(60) DEF AtPlace
  <2> QED
    BY <1>1, <2>1, AskingKept DEF Making, Kept
<1>3. (pc = "create" => x = IfName) /\ (pc = "create_tmp" => x \in TmpNames)
  BY <1>1
<1>4. /\ "host" \in Sockets /\ pc \in HostPlaces \cup NetnsPlaces /\ <<>> \in Seq(Data)
      /\ "ACK" \in NewFlags /\ "DUMP" \notin NewFlags /\ "ok" \in Codes /\ "EEXIST" \in Codes /\ pc \notin {"dump_routes", "get_mac"}
  BY <1>2 DEF Sockets, HostPlaces, NewFlags, Codes
<1>5. unread = {}
  BY <1>2, Zenon, ZenonT(60) DEF VlanInv, Clean, Forward
<1>6. net \in Networks /\ IfName \notin TmpNames
  BY <1>2, VlanAssumption DEF VlanInv, TypeInv, IfName
<1>7. \A d \in DOMAIN links : links[d].name \in TmpNames /\ links[d].by = cmd =>
        hitAt \cap {"create_tmp", "get_tmp", "del_tmp"} # {}
  BY <1>2 DEF VlanInv, Temporary
<1>8. CASE x \in HostNames \cup Names
  <2>1. links' = links /\ next' = next /\ Request("host", NewFlags, 0, "EEXIST", <<>>)
    BY <1>1, <1>8, Zenon, ZenonT(60)
  <2>2. ASSUME NEW m, Reply(m, NewFlags, "EEXIST", <<>>) PROVE Tells(m)'
    <3>1. m.type # "inner" /\ m.code = "EEXIST" /\ "EEXIST" # "ok"
      BY <1>4, <2>2, AckAnswers
    <3> QED
      BY <3>1, Zenon, ZenonT(60) DEF Tells
  <2>3. TypeInv' /\ Clean' /\ Answered'
    BY <1>2, <1>4, <2>1, <2>2, AskSockets, Zenon, ZenonT(60) DEF VlanInv
  <2>4. SameLinks
    BY <2>1, Unmoved DEF VlanInv
  <2>5. LinksInv'
    BY <1>2, <2>1, <2>4, LinksKept, Zenon, ZenonT(60) DEF VlanInv, Kept
  <2>6. \A y : Made(y) => Made(y)'
    BY <1>2, <2>1, Zenon, ZenonT(60) DEF Made, Called, Kept
  <2>7. \A j \in DOMAIN did : Complete(did[j]) => Complete(did[j])'
    BY <1>2, <2>1, ZenonT(60), ZenonT(90) DEF Complete, Called, Kept
  <2>8. Placed'
    <3>1. kind' = "setup" /\ pc' # "idle" => \A j \in DOMAIN did' : Made(Conf[did[j]].ifname)'
      BY <1>2, <2>6, DidMade, Zenon, ZenonT(60) DEF VlanInv, Kept
    <3> QED
      BY <1>2, <3>1, Zenon, ZenonT(60) DEF Placed, Having, Undoing
  <2>9. Temporary'
    BY <1>2, <1>7, <2>1, ZenonT(60), ZenonT(90) DEF Temporary, Kept
  <2>10. Rolling'
    BY <1>2, <2>7, MakingKept
  <2> QED
    BY <2>3, <2>5, <2>8, <2>9, <2>10, Zenon, ZenonT(60) DEF VlanInv
<1>9. CASE x \notin HostNames \cup Names
  <2>1. /\ links' = [d \in DOMAIN links \cup {next} |-> IF d = next THEN Link(x, dev) ELSE links[d]]
        /\ next' = next + 1 /\ Request("host", NewFlags, 0, "ok", <<>>)
    BY <1>1, <1>9, ZenonT(60), ZenonT(90)
  <2>2. next \in Nat /\ next \notin DOMAIN links /\ next \notin leases /\ next < next' /\ next' \in Nat /\ next <= next'
    BY <2>1 DEF VlanInv, LinksInv
  <2>3. /\ DOMAIN links' = DOMAIN links \cup {next} /\ links' = [d \in DOMAIN links' |-> links'[d]]
        /\ links'[next] = Link(x, dev) /\ \A d \in DOMAIN links \ {next} : links'[d] = links[d]
    BY <2>1, ZenonT(60), ZenonT(90)
  <2>4. Record(links'[next]) /\ links'[next].name = x /\ links'[next].by = cmd
    BY <2>3 DEF Record, Link
  <2>5. \A d \in DOMAIN links \ {next} : links[d].name # x
    BY <1>9, ZenonT(60), ZenonT(90) DEF Names
  <2>6. \A j \in DOMAIN did : Conf[did[j]].ifname # x
    <3> TAKE j \in DOMAIN did
    <3>1. did[j] \in Networks /\ did[j] # net
      BY <1>2 DEF VlanInv, TypeInv, Rolling
    <3> QED
      BY <1>2, <1>3, <1>6, <3>1, VlanAssumption DEF Named, IfName
  <2>7. Grown(next)
    BY <2>2, <2>3, <2>4, <2>5, <2>6, Zenon, ZenonT(60) DEF Grown
  <2>8. /\ LinksInv' /\ \A y : Made(y) \/ y = links'[next].name => Made(y)'
        /\ \A j \in DOMAIN did : Complete(did[j]) => Complete(did[j])'
    BY <1>2, <2>7, GrownLinks, Zenon, ZenonT(60)
  <2>9. Made(x)'
    BY <2>4, <2>8, Zenon, ZenonT(60)
  <2>10. TypeInv' /\ Clean' /\ Answered'
    <3>1. pc = "create" => Made(IfName)'
      BY <1>2, <1>3, <2>9, Zenon, ZenonT(60) DEF Made, Called, IfName, Kept
    <3>2. Made(name)' /\ name' = x
      BY <1>1, <2>9, Zenon, ZenonT(60) DEF Made, Called
    <3>3. \A m : Tells(m)'
      BY <1>2, <1>3, <3>1, <3>2, Zenon, ZenonT(60) DEF Tells
    <3> QED
      BY <1>2, <1>4, <2>1, <3>3, AskSockets, Zenon, ZenonT(60) DEF VlanInv
  <2>11. Good'
    <3>1. ASSUME NEW m, Reply(m, NewFlags, "ok", <<>>) PROVE IF m.type = "inner" THEN 0 = 1 ELSE m.code = "ok" /\ 0 = 0
      BY <1>4, <3>1, AckAnswers
    <3>2. "host" \notin unread
      BY <1>5
    <3> QED
      BY <1>2, <1>4, <2>1, <3>1, <3>2, AskGood, ZenonT(60), ZenonT(90) DEF VlanInv
  <2>12. Placed'
    <3>1. kind' = "setup" /\ pc' # "idle" => \A j \in DOMAIN did' : Made(Conf[did[j]].ifname)'
      BY <1>2, <2>8, DidMade, Zenon, ZenonT(60) DEF VlanInv, Kept
    <3> QED
      BY <1>2, <3>1, Zenon, ZenonT(60) DEF Placed, Having, Undoing
  <2>13. Temporary'
    <3> SUFFICES ASSUME NEW d \in DOMAIN links', links'[d].name \in TmpNames, links'[d].by = cmd',
                        hitAt' \cap {"create_tmp", "get_tmp", "del_tmp"} = {}
                 PROVE  pc' = "create_tmp" /\ call' # NoCall /\ links'[d].name = name' /\ Good'
      BY Zenon, ZenonT(60) DEF Temporary
    <3>1. d = next
      BY <1>2, <1>7, <2>3, Zenon, ZenonT(60) DEF Kept
    <3>2. links'[d].name = x
      BY <2>4, <3>1
    <3>3. pc' = "create_tmp"
      BY <1>2, <1>3, <1>6, <3>2, ZenonT(60), ZenonT(90)
    <3>4. call' # NoCall
      BY <2>1, ZenonT(60), ZenonT(90) DEF Request, NoCall
    <3> QED
      BY <1>1, <2>11, <3>2, <3>3, <3>4, Zenon, ZenonT(60)
  <2>14. Rolling'
    BY <1>2, <2>8, MakingKept, Zenon, ZenonT(60)
  <2> QED
    BY <2>8, <2>10, <2>12, <2>13, <2>14, Zenon, ZenonT(60) DEF VlanInv
<1> QED
  BY <1>8, <1>9

-----------------------------------------------------------------------------
\* Answers.

\* What result o tells the driver at its place.
Learnt(o) ==
    o.code = "ok" =>
        /\ pc = "create" => Made(IfName)
        /\ pc = "rename" => Made(IfName) /\ dev \in Called(IfName)
        /\ pc = "create_tmp" => name \in TmpNames /\ Made(name)
        /\ pc = "get_tmp" => o.data[1] \in Called(name)
        /\ pc \in {"get_dev", "get_mac"} => o.data[1] \in Called(IfName)

\* The first message of the queue of the request in progress.
LEMMA FirstUnread ==
    ASSUME VlanInv, call # NoCall, sock[call.sock].queue # <<>>
    PROVE  \E s \in Socket, d \in Datagram :
             /\ s = sock[call.sock] /\ d = Head(s.queue) /\ d # <<>> /\ d = s.queue[1] /\ 1 \in DOMAIN s.queue
             /\ call.sock \in Sockets
<1>1. call.sock \in Sockets
  BY Zenon, ZenonT(60) DEF VlanInv, Answered
<1>2. PICK s \in Socket : s = sock[call.sock] /\ Sound(s)
  BY <1>1, ZenonT(60), ZenonT(90) DEF VlanInv, TypeInv
<1>3. s.queue \in Seq(Datagram) /\ s.queue # <<>>
  BY <1>2 DEF Socket
<1>4. Head(s.queue) = s.queue[1] /\ s.queue[1] \in Datagram /\ 1 \in DOMAIN s.queue
  BY <1>3
<1>5. s.queue[1] # <<>>
  BY <1>2, <1>4, Zenon, ZenonT(60) DEF Sound
<1> QED
  BY <1>1, <1>2, <1>4, <1>5, Zenon, ZenonT(60)

\* A result is about the request in progress, and it is a good one if the answer is
\* and stands first in the queue.
LEMMA RecvHears ==
    ASSUME VlanInv, call # NoCall, pc # "dump_routes", sock[call.sock].queue # <<>>, NEW o,
           o = Expect(Scan(sock[call.sock], Head(sock[call.sock].queue), "DUMP" \in call.flags, call.acc), call.flags, call.want)
    PROVE  Learnt(o) /\ (Good /\ call.sock \notin unread => o.code = "ok")
<1>1. PICK s \in Socket, d \in Datagram :
         /\ s = sock[call.sock] /\ d = Head(s.queue) /\ d # <<>> /\ d = s.queue[1] /\ 1 \in DOMAIN s.queue
         /\ call.sock \in Sockets
  BY FirstUnread, Zenon, ZenonT(60)
<1>2. "DUMP" \notin call.flags /\ call.acc = <<>>
  BY Zenon, ZenonT(60) DEF VlanInv, Answered
<1>3. PICK r : r = Scan(s, d, FALSE, <<>>)
  BY Zenon, ZenonT(60)
<1>4. o = Expect(r, call.flags, call.want)
  <2>1. ("DUMP" \in call.flags) = FALSE
    BY <1>2
  <2> QED
    BY <1>1, <1>2, <1>3, <2>1, ZenonT(60), ZenonT(90)
<1>5. r = IF d[1].seq # s.seq THEN Err("out_of_sync")
          ELSE IF d[1].msg.type = "inner" THEN Ok(<<d[1].msg.data>>)
          ELSE IF d[1].msg.code # "ok" THEN Err(d[1].msg.code)
          ELSE Ok(<<>>)
  BY <1>1, <1>3, ScanOne, Zenon, ZenonT(60)
<1>6. o = IF r.end /\ r.code = "ok" /\ Len(r.data) # call.want THEN Err("unexpected") ELSE r
  BY <1>2, <1>4, ZenonT(60), ZenonT(90) DEF Expect
<1>7. \A x : /\ Err(x).code = x /\ Ok(x).code = "ok" /\ Ok(x).data = x
             /\ Len(<<x>>) = 1 /\ <<x>>[1] = x /\ Len(<<>>) = 0
  BY Zenon, ZenonT(60) DEF Err, Ok
<1>8. "unexpected" # "ok" /\ "out_of_sync" # "ok"
  OBVIOUS
<1>9. PICK m : m = d[1].msg
  OBVIOUS
<1>10. d[1].seq = s.seq => Tells(m)
  BY <1>1, <1>9, Zenon, ZenonT(60) DEF VlanInv, Answered
<1>11. call.sock \notin unread => d[1].seq = s.seq
  BY <1>1, Zenon, ZenonT(60) DEF VlanInv, Clean, Current
<1>12. Good => IF m.type = "inner" THEN call.want = 1 ELSE m.code = "ok" /\ call.want = 0
  BY <1>1, <1>9, Zenon, ZenonT(60) DEF Good
<1>13. CASE d[1].seq # s.seq
  <2>1. o = Err("out_of_sync")
    BY <1>5, <1>6, <1>7, <1>8, <1>13, Zenon, ZenonT(60)
  <2> QED
    BY <1>7, <1>8, <1>11, <1>13, <2>1, Zenon, ZenonT(60) DEF Learnt
<1>14. CASE d[1].seq = s.seq /\ m.type = "inner"
  <2>1. r = Ok(<<m.data>>)
    BY <1>5, <1>9, <1>14, ZenonT(60), ZenonT(90)
  <2>2. r.code = "ok" /\ r.data = <<m.data>> /\ Len(r.data) = 1 /\ r.data[1] = m.data
    BY <1>7, <2>1
  <2>3. o.code = "ok" => o = r
    BY <1>6, <1>7, <1>8, Zenon, ZenonT(60)
  <2>4. o.code = "ok" => o.data[1] = m.data
    BY <2>2, <2>3, Zenon, ZenonT(60)
  <2>5. call.want = 1 => o.code = "ok"
    BY <1>6, <2>2, Zenon, ZenonT(60)
  <2>6. Learnt(o)
    BY <1>10, <1>14, <2>4, Zenon, ZenonT(60) DEF Learnt, Tells
  <2> QED
    BY <1>12, <1>14, <2>5, <2>6, Zenon, ZenonT(60)
<1>15. CASE d[1].seq = s.seq /\ m.type # "inner" /\ m.code # "ok"
  <2>1. r = Err(m.code)
    BY <1>5, <1>9, <1>15, ZenonT(60), ZenonT(90)
  <2>2. o.code # "ok"
    BY <1>6, <1>7, <1>8, <1>15, <2>1, ZenonT(60), ZenonT(90)
  <2> QED
    BY <1>12, <1>15, <2>2, ZenonT(60), ZenonT(90) DEF Learnt
<1>16. CASE d[1].seq = s.seq /\ m.type # "inner" /\ m.code = "ok"
  <2>1. r = Ok(<<>>)
    BY <1>5, <1>9, <1>16, Zenon, ZenonT(60)
  <2>2. r.code = "ok" /\ Len(r.data) = 0
    BY <1>7, <2>1, Zenon, ZenonT(60)
  <2>3. call.want = 0 => o.code = "ok"
    BY <1>6, <2>2, Zenon, ZenonT(60)
  <2>4. Learnt(o)
    BY <1>10, <1>16, Zenon, ZenonT(60) DEF Learnt, Tells
  <2> QED
    BY <1>12, <1>16, <2>3, <2>4, Zenon, ZenonT(60)
<1> QED
  BY <1>13, <1>14, <1>15, <1>16, Zenon, ZenonT(60)

\* Where a result takes the driver.
Turn(o) ==
    \/ o.code = "ok" /\ pc = "lo" /\ pc' = "validate"
    \/ o.code = "ok" /\ pc \in {"dump_routes", "get_oif", "get_primary"} /\ pc' \in {"get_oif", "get_primary", "create"}
    \/ o.code = "ok" /\ pc \in {"create", "rename"} /\ pc' = "join"
    \/ o.code = "EEXIST" /\ pc \in {"create", "create_tmp"} /\ pc' = "create_tmp"
    \/ o.code = "ok" /\ pc = "create_tmp" /\ pc' = "get_tmp" /\ name' = name
    \/ o.code = "ok" /\ pc = "get_tmp" /\ pc' = "rename" /\ dev' = o.data[1]
    \/ o.code # "ok" /\ pc = "rename" /\ pc' = "del_tmp" /\ dev' = dev
    \/ o.code = "ok" /\ pc = "get_dev" /\ pc' \in {"addr", "up"} /\ dev' = o.data[1]
    \/ o.code = "ok" /\ pc \in {"addr", "up", "route"} /\ pc' \in {"addr", "up", "route", LastPlace} /\ dev' = dev
    \/ o.code = "ok" /\ pc = "get_mac" /\ pc' = "release" /\ dev' = o.data[1]
    \/ (pc' = "rollback" \/ (pc' = "networks" /\ kind # "setup")) /\ (pc \in {"dump_routes", "del_tmp", "del_link"} \/ (o.code # "ok" /\ pc # "rename"))

LEMMA HandleTurns ==
    ASSUME NEW o, Handle(o)
    PROVE  Turn(o) /\ call' = NoCall /\ net' = net /\ pc \in HostPlaces \cup NetnsPlaces
<1>1. call' = NoCall /\ net' = net
  BY ZenonT(60), ZenonT(90) DEF Handle
<1>2. CASE TeardownHandles(o)
  <2>1. pc \in {"get_mac", "del_link"} /\ (o.code # "ok" \/ pc = "del_link" => pc' = "rollback" \/ (pc' = "networks" /\ kind # "setup"))
    BY <1>2 DEF TeardownHandles, TeardownFails, TornDown, Goto
  <2>2. o.code = "ok" /\ pc = "get_mac" => pc' = "release" /\ dev' = o.data[1]
    BY <1>2, Zenon, ZenonT(60) DEF TeardownHandles, Goto
  <2> QED
    BY <1>1, <2>1, <2>2 DEF Turn, NetnsPlaces
<1>3. CASE SetupHandles(o)
  <2>1. CASE pc = "lo" /\ Then(o, "validate")
    BY <1>1, <2>1, ZenonT(60), ZenonT(90) DEF Turn, Then, Goto, SetupFails, NetnsPlaces
  <2>2. CASE pc = "dump_routes" /\ AfterDump(o)
    <3>1. (o.code = "ok" /\ pc' = "get_oif") \/ pc' = "rollback"
      BY <2>2, ZenonT(60), ZenonT(90) DEF AfterDump, Goto, SetupFails
    <3> QED
      BY <1>1, <2>2, <3>1 DEF Turn, HostPlaces
  <2>3. CASE pc = "get_oif" /\ Then(o, "get_primary")
    BY <1>1, <2>3 DEF Turn, Then, Goto, SetupFails, HostPlaces
  <2>4. CASE pc = "get_primary" /\ ThenLink(o, "create")
    BY <1>1, <2>4, ZenonT(60), ZenonT(90) DEF Turn, ThenLink, Then, Goto, SetupFails, HostPlaces
  <2>5. CASE pc \in {"create", "create_tmp"} /\ AfterCreate(o) /\ UNCHANGED <<name, dev, rest>>
    BY <1>1, <2>5, ZenonT(60), ZenonT(90) DEF Turn, AfterCreate, Goto, SetupFails, HostPlaces
  <2>6. CASE pc = "get_tmp" /\ ThenLink(o, "rename")
    BY <1>1, <2>6, ZenonT(60), ZenonT(90) DEF Turn, ThenLink, Then, Goto, SetupFails, NetnsPlaces
  <2>7. CASE pc = "rename" /\ AfterRename(o) /\ UNCHANGED <<try, name, dev, rest>>
    BY <1>1, <2>7, ZenonT(60), ZenonT(90) DEF Turn, AfterRename, Goto, NetnsPlaces
  <2>8. CASE pc = "del_tmp" /\ SetupFails("rename")
    BY <1>1, <2>8 DEF Turn, Goto, SetupFails, NetnsPlaces
  <2>9. CASE /\ pc = "get_dev" /\ ThenLoop(o, Ipam(net).addrs, "addr", "up")
             /\ dev' = IF o.code = "ok" THEN o.data[1] ELSE dev
    <3>1. IF o.code = "ok" THEN pc' \in {"addr", "up"} ELSE pc' = "rollback"
      BY <2>9, Zenon, ZenonT(60) DEF ThenLoop, Then, Goto, SetupFails
    <3> QED
      BY <1>1, <2>9, <3>1, Zenon, ZenonT(60) DEF Turn, NetnsPlaces
  <2>10. ASSUME NEW seq, pc \in {"addr", "up", "route"}, UNCHANGED <<try, name, dev>>,
                ThenLoop(o, seq, "addr", "up") \/ ThenLoop(o, seq, "route", LastPlace)
         PROVE  Turn(o) /\ call' = NoCall /\ net' = net /\ pc \in HostPlaces \cup NetnsPlaces
    <3>1. IF o.code = "ok" THEN pc' \in {"addr", "up", "route", LastPlace} ELSE pc' = "rollback"
      BY <2>10, ZenonT(60), ZenonT(90) DEF ThenLoop, Then, Goto, SetupFails
    <3>2. dev' = dev /\ pc # "rename"
      BY <2>10
    <3> QED
      BY <1>1, <2>10, <3>1, <3>2, Zenon, ZenonT(60) DEF Turn, NetnsPlaces
  <2>11. \/ pc = "lo" /\ Then(o, "validate")
         \/ pc = "dump_routes" /\ AfterDump(o)
         \/ pc = "get_oif" /\ Then(o, "get_primary")
         \/ pc = "get_primary" /\ ThenLink(o, "create")
         \/ pc \in {"create", "create_tmp"} /\ AfterCreate(o) /\ UNCHANGED <<name, dev, rest>>
         \/ pc = "get_tmp" /\ ThenLink(o, "rename")
         \/ pc = "rename" /\ AfterRename(o) /\ UNCHANGED <<try, name, dev, rest>>
         \/ pc = "del_tmp" /\ SetupFails("rename")
         \/ /\ pc = "get_dev" /\ ThenLoop(o, Ipam(net).addrs, "addr", "up")
            /\ dev' = IF o.code = "ok" THEN o.data[1] ELSE dev
         \/ \E seq : /\ pc \in {"addr", "up", "route"} /\ UNCHANGED <<try, name, dev>>
                     /\ ThenLoop(o, seq, "addr", "up") \/ ThenLoop(o, seq, "route", LastPlace)
    BY <1>3, Zenon, ZenonT(60) DEF SetupHandles
  <2>12. CASE \E seq : /\ pc \in {"addr", "up", "route"} /\ UNCHANGED <<try, name, dev>>
                       /\ ThenLoop(o, seq, "addr", "up") \/ ThenLoop(o, seq, "route", LastPlace)
    BY <2>10, <2>12
  <2> QED
    BY <2>1, <2>2, <2>3, <2>4, <2>5, <2>6, <2>7, <2>8, <2>9, <2>11, <2>12, ZenonT(60), ZenonT(90)
<1> QED
  BY <1>2, <1>3, Zenon, ZenonT(60) DEF Handle

\* A result is handled, and with it what the receive did to the sockets.
Handled(o) ==
    /\ Turn(o) /\ call' = NoCall /\ net' = net /\ pc \in HostPlaces \cup NetnsPlaces
    /\ UNCHANGED <<links, next, leases, ns, cmd, kind, todo, did, rolled>>
    /\ hitAt \subseteq hitAt' /\ unread \subseteq unread'
    /\ sock' \in [Sockets -> Socket] /\ \A s \in Sockets : Sound(sock'[s])
    /\ \A s \in Sockets \ unread' : sock'[s].queue = <<>>
    /\ unread' = unread \/ o.code = "io"
    /\ Learnt(o)
    /\ pc \in {"create_tmp", "get_tmp", "get_mac"} => o.code = "ok" \/ pc \in hitAt' \/ ~Good \/ call.sock \in unread

\* The sockets when the request is over.
LEMMA HandledSockets ==
    ASSUME VlanInv, call # NoCall, NEW o, Handled(o)
    PROVE  TypeInv' /\ Answered' /\ Clean' /\ LinksInv'
<1>1. TypeInv'
  <2>1. call' = [sock |-> call'.sock, flags |-> call'.flags, want |-> call'.want, acc |-> call'.acc]
    BY Zenon, ZenonT(60) DEF Handled, NoCall
  <2>2. pc # "idle"
    BY DEF Handled, HostPlaces, NetnsPlaces
  <2> QED
    BY <2>1, <2>2, Zenon, ZenonT(60) DEF VlanInv, TypeInv, Handled
<1>2. Answered'
  BY Zenon, ZenonT(60) DEF Handled, Answered
<1>3. Clean'
  <2>1. ASSUME pc' \in Forward PROVE unread' = {}
    <3>1. pc \in Forward /\ o.code # "io"
      BY <2>1, Zenon, ZenonT(60) DEF Handled, Turn, Forward, Making, Having, LastPlace
    <3> QED
      BY <3>1, Zenon, ZenonT(60) DEF Handled, VlanInv, Clean
  <2> QED
    BY <2>1, Zenon, ZenonT(60) DEF Clean, Handled
<1>4. LinksInv'
  BY Unmoved, LinksKept, Zenon, ZenonT(60) DEF VlanInv, Handled
<1> QED
  BY <1>1, <1>2, <1>3, <1>4

\* The links as they are seen after a step that leaves them alone.
LEMMA SameView ==
    ASSUME UNCHANGED <<links, cmd>>
    PROVE  \A x : Called(x)' = Called(x) /\ (Made(x)' <=> Made(x))
BY Zenon, ZenonT(60) DEF Called, Made

\* A temporary name is the name of no network, so that its link has no lease.
LEMMA NoTmpLease ==
    ASSUME LinksInv, NEW d \in DOMAIN links, links[d].name \in TmpNames
    PROVE  d \notin leases
BY VlanAssumption DEF LinksInv

\* What the driver relies on at its next place.
LEMMA HandledPlaced ==
    ASSUME VlanInv, call # NoCall, NEW o, Handled(o)
    PROVE  Placed'
<1>1. UNCHANGED <<links, leases, cmd, kind, did, net>> /\ Turn(o) /\ Learnt(o) /\ Placed /\ LinksInv
  BY Zenon, ZenonT(60) DEF Handled, VlanInv
<1>2. \A x : Called(x)' = Called(x) /\ (Made(x)' <=> Made(x))
  BY <1>1, SameView, Zenon, ZenonT(60)
<1>3. Called(IfName)' = Called(IfName) /\ (Made(IfName)' <=> Made(IfName))
  BY <1>1, Zenon, ZenonT(60) DEF Called, Made, IfName
<1>4. pc' = "get_tmp" => name' \in TmpNames /\ Made(name)'
  <2>1. pc' = "get_tmp" => o.code = "ok" /\ pc = "create_tmp" /\ name' = name
    BY <1>1, Zenon, ZenonT(60) DEF Turn, LastPlace
  <2>2. pc' = "get_tmp" => name \in TmpNames /\ Made(name)
    BY <1>1, <2>1, Zenon, ZenonT(60) DEF Learnt
  <2> QED
    BY <1>1, <2>1, <2>2, Zenon, ZenonT(60) DEF Made, Called
<1>5. pc' \in {"rename", "del_tmp"} => dev' \notin leases' /\ (dev' \in DOMAIN links' => links'[dev'].by = cmd')
  <2>1. CASE pc' = "del_tmp"
    <3>1. pc = "rename" /\ dev' = dev
      BY <1>1, <2>1, Zenon, ZenonT(60) DEF Turn, LastPlace
    <3> QED
      BY <1>1, <3>1, ZenonT(60), ZenonT(90) DEF Placed
  <2>2. CASE pc' = "rename"
    <3>1. o.code = "ok" /\ pc = "get_tmp" /\ dev' = o.data[1]
      BY <1>1, <2>2, ZenonT(60), ZenonT(90) DEF Turn, LastPlace
    <3>2. dev' \in Called(name) /\ name \in TmpNames /\ Made(name)
      BY <1>1, <3>1, Zenon, ZenonT(60) DEF Learnt, Placed
    <3>3. dev' \in DOMAIN links /\ links[dev'].name \in TmpNames /\ links[dev'].by = cmd
      BY <3>2, Zenon, ZenonT(60) DEF Called, Made
    <3>4. dev' \notin leases
      BY <1>1, <3>3, NoTmpLease
    <3> QED
      BY <1>1, <3>3, <3>4, ZenonT(60), ZenonT(90)
  <2> QED
    BY <2>1, <2>2
<1>6. pc' \in Having => Made(IfName)'
  <2>1. pc' \in Having => pc \in Having \/ (o.code = "ok" /\ pc \in {"create", "rename"})
    BY <1>1, ZenonT(60), ZenonT(90) DEF Turn, LastPlace, Having
  <2> QED
    BY <1>1, <1>3, <2>1, Zenon, ZenonT(60) DEF Learnt, Placed
<1>7. pc' # "sysctl" /\ pc' # "del_link" /\ pc' # "idle" /\ (pc' = "networks" => kind' # "setup")
  BY <1>1, Zenon, ZenonT(60) DEF Turn, LastPlace
<1>8. pc' \in {"addr", "up", "route", "lease", "release"} => dev' \in Called(IfName)'
  <2>1. pc' \in {"addr", "up", "route", "lease", "release"} =>
           \/ pc \in {"addr", "up", "route"} /\ dev' = dev
           \/ o.code = "ok" /\ pc \in {"get_dev", "get_mac"} /\ dev' = o.data[1]
    BY <1>1, Zenon, ZenonT(60) DEF Turn, LastPlace
  <2> QED
    BY <1>1, <1>3, <2>1, Zenon, ZenonT(60) DEF Learnt, Placed
<1>9. pc' = "lease" => Ipam(net').dhcp
  BY <1>1, Zenon, ZenonT(60) DEF Turn, LastPlace
<1>10. kind' = "setup" /\ pc' \in Undoing => Made(IfName)'
  <2>1. pc' \in Undoing => pc = "get_mac"
    BY <1>1, Zenon, ZenonT(60) DEF Turn, LastPlace, Undoing
  <2>2. "get_mac" \in Undoing
    BY DEF Undoing
  <2> QED
    BY <1>1, <1>3, <2>1, <2>2, ZenonT(60), ZenonT(90) DEF Placed
<1>11. ASSUME kind' = "setup", NEW j \in DOMAIN did' PROVE Made(Conf[did[j]].ifname)'
  <2>1. pc # "idle"
    BY Zenon, ZenonT(60) DEF Handled, HostPlaces, NetnsPlaces
  <2>2. Made(Conf[did[j]].ifname)
    BY <1>1, <1>11, <2>1, Zenon, ZenonT(60) DEF Placed
  <2> QED
    BY <1>1, <2>2, Zenon, ZenonT(60) DEF Made, Called
<1> QED
  BY <1>4, <1>5, <1>6, <1>7, <1>8, <1>9, <1>10, <1>11, ZenonT(60), ZenonT(90) DEF Placed

\* The temporary links.
LEMMA HandledTemporary ==
    ASSUME VlanInv, call # NoCall, NEW o, Handled(o)
    PROVE  Temporary'
<1> SUFFICES ASSUME NEW d \in DOMAIN links', links'[d].name \in TmpNames, links'[d].by = cmd',
                    hitAt' \cap {"create_tmp", "get_tmp", "del_tmp"} = {}
             PROVE  \/ pc' = "get_tmp" /\ links'[d].name = name' /\ Good'
                    \/ pc' = "rename" /\ d = dev'
                    \/ pc' = "del_tmp" /\ call' = NoCall /\ d = dev'
  BY Zenon, ZenonT(60) DEF Temporary
<1>1. /\ UNCHANGED <<links, cmd, net>> /\ Turn(o) /\ Learnt(o) /\ call' = NoCall
      /\ pc \in {"create_tmp", "get_tmp"} => o.code = "ok" \/ ~Good \/ call.sock \in unread
  BY Zenon, ZenonT(60) DEF Handled
<1>2. \/ pc = "create_tmp" /\ links[d].name = name /\ Good
      \/ pc = "get_tmp" /\ links[d].name = name /\ Good
      \/ pc = "rename" /\ d = dev
  BY <1>1, ZenonT(60), ZenonT(90) DEF VlanInv, Temporary, Handled
<1>3. pc \in {"create_tmp", "get_tmp"} => unread = {}
  BY DEF VlanInv, Clean, Forward, Making
<1>4. Good'
  BY <1>1, Zenon, ZenonT(60) DEF Good
<1>5. CASE pc = "create_tmp" /\ links[d].name = name
  <2>1. o.code = "ok"
    BY <1>1, <1>2, <1>3, <1>5
  <2>2. pc' = "get_tmp" /\ name' = name
    BY <1>1, <1>5, <2>1, Zenon, ZenonT(60) DEF Turn
  <2> QED
    BY <1>1, <1>4, <1>5, <2>2, ZenonT(60), ZenonT(90)
<1>6. CASE pc = "get_tmp" /\ links[d].name = name
  <2>1. o.code = "ok"
    BY <1>1, <1>2, <1>3, <1>6
  <2>2. pc' = "rename" /\ dev' = o.data[1]
    BY <1>1, <1>6, <2>1, Zenon, ZenonT(60) DEF Turn
  <2>3. dev' \in DOMAIN links /\ links[dev'].name = name
    BY <1>1, <1>6, <2>1, <2>2, Zenon, ZenonT(60) DEF Learnt, Called
  <2> QED
    BY <1>1, <1>6, <2>2, <2>3, ZenonT(60), ZenonT(90) DEF VlanInv, LinksInv
<1>7. CASE pc = "rename" /\ d = dev
  <2>1. o.code = "ok" => dev \in Called(IfName)
    BY <1>1, <1>7, Zenon, ZenonT(60) DEF Learnt
  <2>2. o.code # "ok"
    <3>1. pc # "idle"
      BY <1>7
    <3>2. IfName \notin TmpNames
      BY <3>1, VlanAssumption DEF VlanInv, TypeInv, IfName
    <3> QED
      BY <1>1, <1>7, <2>1, <3>2, ZenonT(60), ZenonT(90) DEF Called
  <2>3. pc' = "del_tmp" /\ dev' = dev
    BY <1>1, <1>7, <2>2, Zenon, ZenonT(60) DEF Turn
  <2> QED
    BY <1>1, <1>7, <2>3, Zenon, ZenonT(60)
<1> QED
  BY <1>2, <1>5, <1>6, <1>7, Zenon, ZenonT(60)

\* The networks set up and rolled back.
LEMMA HandledRolling ==
    ASSUME VlanInv, call # NoCall, NEW o, Handled(o)
    PROVE  Rolling'
<1>1. UNCHANGED <<links, leases, cmd, kind, todo, did, rolled, net>> /\ Turn(o) /\ Learnt(o) /\ call' = NoCall /\ Rolling
  BY Zenon, ZenonT(60) DEF Handled, VlanInv
<1>2. pc \in HostPlaces \cup NetnsPlaces /\ pc \notin {"idle", "release", "configured", "next"}
  BY Zenon, ZenonT(60) DEF Handled, HostPlaces, NetnsPlaces
<1>3. \A n : Undone(n) => Undone(n)'
  BY Zenon, ZenonT(60) DEF Undone, Called, Handled
<1>4. \A n : Complete(n)' <=> Complete(n)
  BY <1>1, Zenon, ZenonT(60) DEF Complete, Called
<1>5. \A j \in DOMAIN did' : Complete(did[j])'
  <2> TAKE j \in DOMAIN did'
  <2>1. Complete(did[j])
    BY <1>1, <1>2, Zenon, ZenonT(60) DEF Rolling
  <2> QED
    BY <1>1, <2>1, Zenon, ZenonT(60) DEF Complete, Called
<1>6. pc' \in Making \cup Having => pc \in Making \cup Having
  BY <1>1, ZenonT(60), ZenonT(90) DEF Turn, LastPlace, Making, Having
<1>7. pc' \in Undoing => pc \in Undoing
  BY <1>1, ZenonT(60), ZenonT(90) DEF Turn, LastPlace, Making, Having, Undoing
<1>8. pc' # "next" /\ (pc' \in Forward => pc \in Forward)
  BY <1>1, Zenon, ZenonT(60) DEF Turn, LastPlace, Making, Having, Forward
<1>9. pc' = "configured" => Complete(net)'
  <2>1. pc' = "configured" => pc \in Making \cup Having /\ ~Ipam(net).dhcp
    BY <1>1, Zenon, ZenonT(60) DEF Turn, LastPlace, Having
  <2> QED
    BY <1>1, <2>1, ZenonT(60), ZenonT(90) DEF Complete, Rolling
<1>10. ASSUME NEW n \in rolled, ~Undone(n)'
       PROVE  n = net /\ pc' = "release" /\ dev' \in leases
  <2>1. n = net /\ pc = "get_mac" /\ Complete(net) /\ Ipam(net).dhcp /\ Good
    BY <1>1, <1>2, <1>3, <1>10, ZenonT(60), ZenonT(90) DEF Rolling
  <2>2. o.code = "ok"
    <3>1. call.sock = "netns"
      BY <2>1, Zenon, ZenonT(60) DEF VlanInv, Answered
    <3>2. pc \notin hitAt' /\ "netns" \notin unread'
      BY <1>10, <2>1 DEF Undone, Undoing
    <3>3. call.sock \notin unread
      BY <3>1, <3>2, Zenon, ZenonT(60) DEF Handled
    <3> QED
      BY <2>1, <3>2, <3>3, Zenon, ZenonT(60) DEF Handled
  <2>3. pc' = "release" /\ dev' = o.data[1]
    BY <1>1, <2>1, <2>2, Zenon, ZenonT(60) DEF Turn
  <2>4. dev' \in Called(IfName)
    BY <1>1, <2>1, <2>2, <2>3, ZenonT(60), ZenonT(90) DEF Learnt
  <2> QED
    BY <2>1, <2>3, <2>4, Zenon, ZenonT(60) DEF Complete, IfName
<1>11. \A n \in rolled' :
         \/ Undone(n)'
         \/ /\ n = net'
            /\ \/ pc' = "get_mac" /\ Complete(net)' /\ Ipam(net').dhcp /\ Good'
               \/ pc' = "release" /\ dev' \in leases'
               \/ pc' = "del_link" /\ call' = NoCall
  BY <1>1, <1>10, Zenon, ZenonT(60)
<1>12. pc' \in {"next"} \cup Making \cup Having => pc \in {"next"} \cup Making \cup Having
  BY <1>6, <1>8, Zenon, ZenonT(60)
<1> QED
  BY <1>1, <1>5, <1>6, <1>7, <1>8, <1>9, <1>11, <1>12, ZenonT(60), ZenonT(90) DEF Rolling

\* The sockets when a datagram is read.
LEMMA ReadOne ==
    ASSUME VlanInv, call # NoCall, sock[call.sock].queue # <<>>,
           sock' = [sock EXCEPT ![call.sock].queue = Tail(@)]
    PROVE  /\ sock' \in [Sockets -> Socket] /\ \A s \in Sockets : Sound(sock'[s])
           /\ \A s \in Sockets \ {call.sock} : sock'[s] = sock[s]
           /\ sock'[call.sock].queue = Tail(sock[call.sock].queue) /\ sock'[call.sock].seq = sock[call.sock].seq
<1>1. PICK c \in Sockets : c = call.sock
  BY Zenon, ZenonT(60) DEF VlanInv, Answered
<1>2. PICK s \in Socket : s = sock[c] /\ Sound(s)
  BY Zenon, ZenonT(60) DEF VlanInv, TypeInv
<1>3. PICK t : t = [s EXCEPT !.queue = Tail(s.queue)]
  BY Zenon, ZenonT(60)
<1>4. sock' = [sock EXCEPT ![c] = t]
  BY <1>1, <1>2, <1>3, ZenonT(60), ZenonT(90)
<1>5. s.seq \in Nat /\ s.queue \in Seq(Datagram) /\ s.queue # <<>> /\ s = [seq |-> s.seq, queue |-> s.queue]
  BY <1>1, <1>2 DEF Socket
<1>6. t.seq = s.seq /\ t.queue = Tail(s.queue) /\ t = [seq |-> s.seq, queue |-> Tail(s.queue)]
  BY <1>3, <1>5, ZenonT(60), ZenonT(90)
<1>7. PICK q \in Seq(Datagram) : q = s.queue /\ q # <<>>
  BY <1>5, Zenon, ZenonT(60)
<1>8. Tail(q) \in Seq(Datagram) /\ \A k \in DOMAIN Tail(q) : k + 1 \in DOMAIN q /\ Tail(q)[k] = q[k + 1]
  BY <1>7
<1>9. t \in Socket
  BY <1>5, <1>6, <1>7, <1>8 DEF Socket
<1>10. Sound(t)
  BY <1>2, <1>6, <1>7, <1>8 DEF Sound
<1>11. sock'[c] = t /\ \A r \in Sockets \ {c} : sock'[r] = sock[r]
  BY <1>4, Zenon, ZenonT(60) DEF VlanInv, TypeInv
<1>12. sock' \in [Sockets -> Socket]
  BY <1>4, <1>9, Zenon, ZenonT(60) DEF VlanInv, TypeInv
<1>13. \A r \in Sockets : Sound(sock'[r])
  BY <1>10, <1>11, Zenon, ZenonT(60) DEF VlanInv, TypeInv
<1> QED
  BY <1>1, <1>2, <1>6, <1>11, <1>12, <1>13, ZenonT(60), ZenonT(90)

\* Where a receive ends the answer, or fails, the request is over.
LEMMA HandledStep ==
    ASSUME VlanInv, call # NoCall, NEW o, Handled(o)
    PROVE  VlanInv'
BY HandledSockets, HandledPlaced, HandledTemporary, HandledRolling, ZenonT(60), ZenonT(90) DEF VlanInv

\* A receive that fails.
LEMMA RecvFailsStep ==
    ASSUME VlanInv, RecvFails
    PROVE  VlanInv'
<1>1. call # NoCall /\ sock[call.sock].queue # <<>> /\ pc \in hitAt' /\ hitAt \subseteq hitAt'
  BY Zenon, ZenonT(60) DEF RecvFails, Hit
<1>2. PICK o : o = Err("io")
  OBVIOUS
<1>3. Handle(o) /\ o.code = "io" /\ "io" # "ok"
  BY <1>2 DEF RecvFails, Err
<1>4. Turn(o) /\ call' = NoCall /\ net' = net /\ pc \in HostPlaces \cup NetnsPlaces
  BY <1>3, HandleTurns
<1>5. UNCHANGED <<links, next, leases, ns, cmd, kind, todo, did, rolled>>
  BY Zenon, ZenonT(60) DEF RecvFails, kernelVars, loopVars
<1>6. call.sock \in Sockets
  BY <1>1, Zenon, ZenonT(60) DEF VlanInv, Answered
<1>7. /\ sock' \in [Sockets -> Socket] /\ \A s \in Sockets : Sound(sock'[s])
      /\ \A s \in Sockets \ {call.sock} : sock'[s] = sock[s]
  <2>1. CASE sock' = sock
    BY <2>1, Zenon, ZenonT(60) DEF VlanInv, TypeInv
  <2>2. CASE sock' = [sock EXCEPT ![call.sock].queue = Tail(@)]
    BY <1>1, <2>2, ReadOne, Zenon, ZenonT(60)
  <2> QED
    BY <2>1, <2>2, Zenon, ZenonT(60) DEF RecvFails
<1>8. unread \subseteq unread' /\ (sock'[call.sock].queue # <<>> => call.sock \in unread')
  BY ZenonT(60), ZenonT(90) DEF RecvFails
<1>9. \A s \in Sockets \ unread' : sock'[s].queue = <<>>
  <2> TAKE s \in Sockets \ unread'
  <2>1. CASE s = call.sock
    BY <1>8, <2>1, Zenon, ZenonT(60)
  <2>2. CASE s # call.sock
    BY <1>1, <1>7, <1>8, <2>2, Zenon, ZenonT(60) DEF VlanInv, Clean
  <2> QED
    BY <2>1, <2>2
<1>10. Learnt(o)
  BY <1>3, Zenon, ZenonT(60) DEF Learnt
<1>11. Handled(o)
  BY <1>1, <1>3, <1>4, <1>5, <1>7, <1>8, <1>9, <1>10, ZenonT(60), ZenonT(90) DEF Handled
<1> QED
  BY <1>1, <1>11, HandledStep

\* An answer that ends leaves nothing on a socket that had no more than it.
LEMMA RecvEnds ==
    ASSUME VlanInv, call # NoCall, sock[call.sock].queue # <<>>, call.sock \notin unread, NEW o, o.end,
           o = Expect(Scan(sock[call.sock], Head(sock[call.sock].queue), "DUMP" \in call.flags, call.acc), call.flags, call.want)
    PROVE  Tail(sock[call.sock].queue) = <<>>
<1>1. PICK s \in Socket, d \in Datagram :
         /\ s = sock[call.sock] /\ d = Head(s.queue) /\ d # <<>> /\ d = s.queue[1] /\ 1 \in DOMAIN s.queue
         /\ call.sock \in Sockets
  BY FirstUnread, Zenon, ZenonT(60)
<1>2. Current(s)
  BY <1>1, Zenon, ZenonT(60) DEF VlanInv, Clean
<1>3. PICK q \in Seq(Datagram) : q = s.queue /\ q # <<>>
  BY <1>1, Zenon, ZenonT(60) DEF Socket
<1>4. Len(q) # 2
  <2> SUFFICES ASSUME Len(q) = 2 PROVE FALSE
    BY Zenon, ZenonT(60)
  <2>1. "DUMP" \in call.flags /\ \A j \in DOMAIN d : d[j].seq = s.seq /\ d[j].msg.type = "inner"
    BY <1>1, <1>2, <1>3, ZenonT(60), ZenonT(90) DEF Current
  <2>2. PICK r : r = Scan(s, d, TRUE, call.acc)
    BY Zenon, ZenonT(60)
  <2>3. ~r.end
    BY <2>1, <2>2, ScanMore, Zenon, ZenonT(60)
  <2>4. o = Expect(r, call.flags, call.want)
    <3>1. ("DUMP" \in call.flags) = TRUE
      BY <2>1, Zenon, ZenonT(60)
    <3> QED
      BY <1>1, <2>2, <3>1, Zenon, ZenonT(60)
  <2>5. o = r
    BY <2>3, <2>4, Zenon, ZenonT(60) DEF Expect
  <2> QED
    BY <2>3, <2>5, ZenonT(60), ZenonT(90)
<1>5. Len(q) <= 2
  BY <1>2, <1>3, Zenon, ZenonT(60) DEF Current
<1>6. Tail(q) = <<>>
  <2>1. q # <<>>
    BY <1>3, ZenonT(60), ZenonT(90)
  <2>2. Len(q) \in Nat /\ Len(q) > 0
    BY <2>1
  <2>3. Len(q) = 1
    <3>1. PICK n \in Nat : n = Len(q) /\ n > 0 /\ n <= 2 /\ n # 2
      BY <1>4, <1>5, <2>2, ZenonT(60), ZenonT(90)
    <3>2. n = 1
      BY <3>1
    <3> QED
      BY <3>1, <3>2, Zenon, ZenonT(60)
  <2>4. Tail(q) \in Seq(Datagram) /\ Len(Tail(q)) = Len(q) - 1
    BY <2>1
  <2>5. Len(Tail(q)) = 0
    BY <2>3, <2>4
  <2>6. PICK w \in Seq(Datagram) : w = Tail(q) /\ Len(w) = 0
    BY <2>4, <2>5, ZenonT(60), ZenonT(90)
  <2>7. w = <<>>
    BY <2>6
  <2> QED
    BY <2>6, <2>7, Zenon, ZenonT(60)
<1> QED
  BY <1>1, <1>3, <1>6, Zenon, ZenonT(60)

\* A dump goes on.
LEMMA RecvMore ==
    ASSUME VlanInv, call # NoCall, sock[call.sock].queue # <<>>, NEW data, call' = [call EXCEPT !.acc = data],
           sock' = [sock EXCEPT ![call.sock].queue = Tail(@)], pc = "dump_routes",
           UNCHANGED <<kernelVars, leases, hostset, ns, loopVars, localVars, pc, hitAt, unread>>
    PROVE  VlanInv'
<1>1. UNCHANGED <<links, next, leases, ns, cmd, kind, todo, did, rolled, net, name, dev, pc, hitAt, unread>>
  BY Zenon, ZenonT(60) DEF kernelVars, loopVars, localVars
<1>2. PICK s \in Socket, d \in Datagram :
         /\ s = sock[call.sock] /\ d = Head(s.queue) /\ d # <<>> /\ d = s.queue[1] /\ 1 \in DOMAIN s.queue
         /\ call.sock \in Sockets
  BY FirstUnread, Zenon, ZenonT(60)
<1>3. /\ sock' \in [Sockets -> Socket] /\ \A r \in Sockets : Sound(sock'[r])
      /\ \A r \in Sockets \ {call.sock} : sock'[r] = sock[r]
      /\ sock'[call.sock].queue = Tail(sock[call.sock].queue) /\ sock'[call.sock].seq = sock[call.sock].seq
  BY ReadOne, Zenon, ZenonT(60)
<1>4. /\ call' = [sock |-> call'.sock, flags |-> call'.flags, want |-> call'.want, acc |-> call'.acc]
      /\ call'.sock = call.sock /\ call'.flags = call.flags /\ call'.want = call.want
  BY DEF VlanInv, TypeInv
<1>5. call' # NoCall
  BY <1>2, <1>4 DEF Sockets, NoCall
<1>6. unread = {}
  BY Zenon, ZenonT(60) DEF VlanInv, Clean, Forward, Making
<1>7. Current(s)
  BY <1>2, <1>6, ZenonT(60), ZenonT(90) DEF VlanInv, Clean
<1>8. PICK q \in Seq(Datagram) : q = s.queue /\ q # <<>>
  BY <1>2 DEF Socket
<1>9. /\ Len(Tail(q)) <= 1 /\ Len(Tail(q)) \in Nat
      /\ \A k \in DOMAIN Tail(q) : k + 1 \in DOMAIN q /\ Tail(q)[k] = q[k + 1]
  BY <1>7, <1>8 DEF Current
<1>10. \A k \in DOMAIN Tail(q) : Tail(q)[k][1].seq = s.seq
  BY <1>7, <1>8, <1>9, ZenonT(60), ZenonT(90) DEF Current
<1>11. Current(sock[call.sock])'
  <2>1. Len(Tail(q)) <= 2 /\ Len(Tail(q)) # 2
    <3>1. PICK n \in Nat : n = Len(Tail(q)) /\ n <= 1
      BY <1>9, Zenon, ZenonT(60)
    <3> QED
      BY <3>1
  <2>2. sock'[call'.sock].queue = Tail(q) /\ sock'[call'.sock].seq = s.seq
    BY <1>2, <1>3, <1>4, <1>8, Zenon, ZenonT(60)
  <2> QED
    BY <1>10, <2>1, <2>2, Zenon, ZenonT(60) DEF Current
<1>12. TypeInv'
  BY <1>1, <1>3, <1>4, ZenonT(60), ZenonT(90) DEF VlanInv, TypeInv
<1>13. LinksInv'
  BY <1>1, Unmoved, LinksKept, Zenon, ZenonT(60) DEF VlanInv
<1>14. Answered'
  <2>1. pc' = "dump_routes"
    BY <1>1
  <2>2. \A m : Tells(m)'
    BY <2>1, Telling
  <2>3. ASSUME NEW k \in DOMAIN sock'[call'.sock].queue PROVE Tells(sock[call.sock].queue[k][1].msg)'
    BY <2>1, Zenon, ZenonT(60) DEF Tells
  <2>4. pc' \in HostPlaces /\ pc' # "get_mac"
    BY <2>1 DEF HostPlaces
  <2> QED
    BY <1>2, <1>4, <2>1, <2>3, <2>4, ZenonT(60), ZenonT(90) DEF Answered
<1>15. Clean'
  BY <1>1, <1>3, <1>4, <1>5, <1>11, ZenonT(60), ZenonT(90) DEF VlanInv, Clean
<1>16. Placed'
  BY <1>1, ZenonT(60), ZenonT(90) DEF VlanInv, Placed, Made, Called, IfName
<1>17. Temporary'
  BY <1>1 DEF VlanInv, Temporary
<1>18. Rolling'
  <2>1. \A n : (Complete(n)' <=> Complete(n)) /\ (Undone(n)' <=> Undone(n))
    BY <1>1, ZenonT(60), ZenonT(90) DEF Complete, Undone, Called
  <2>2. \A j \in DOMAIN did' : Complete(did[j])'
    BY <1>1 DEF VlanInv, Rolling, Complete, Called
  <2>3. rolled' = {} /\ pc' = "dump_routes"
    BY <1>1, ZenonT(60), ZenonT(90) DEF VlanInv, Rolling, Forward, Making
  <2> QED
    BY <1>1, <2>2, <2>3 DEF VlanInv, Rolling, Undoing
<1> QED
  BY <1>12, <1>13, <1>14, <1>15, <1>16, <1>17, <1>18, ZenonT(60), ZenonT(90) DEF VlanInv

\* A datagram is read.
LEMMA RecvStep ==
    ASSUME VlanInv, Recv
    PROVE  VlanInv'
<1>1. PICK o :
        /\ o = Expect(Scan(sock[call.sock], Head(sock[call.sock].queue), "DUMP" \in call.flags, call.acc),
                      call.flags, call.want)
        /\ call # NoCall /\ sock[call.sock].queue # <<>>
        /\ sock' = [sock EXCEPT ![call.sock].queue = Tail(@)]
        /\ IF o.end THEN Handle(o) ELSE call' = [call EXCEPT !.acc = o.data] /\ UNCHANGED <<localVars, pc, erred, failedAt>>
        /\ UNCHANGED <<kernelVars, leases, hostset, ns, loopVars, faults, hitAt, unread>>
  BY Zenon, ZenonT(60) DEF Recv
<1>2. CASE o.end
  <2>1. Turn(o) /\ call' = NoCall /\ net' = net /\ pc \in HostPlaces \cup NetnsPlaces
    BY <1>1, <1>2, HandleTurns
  <2>2. UNCHANGED <<links, next, leases, ns, cmd, kind, todo, did, rolled, hitAt, unread>>
    BY <1>1, Zenon, ZenonT(60) DEF kernelVars, loopVars
  <2>3. /\ sock' \in [Sockets -> Socket] /\ \A r \in Sockets : Sound(sock'[r])
        /\ \A r \in Sockets \ {call.sock} : sock'[r] = sock[r]
        /\ sock'[call.sock].queue = Tail(sock[call.sock].queue)
    BY <1>1, ReadOne, Zenon, ZenonT(60)
  <2>4. call.sock \notin unread => sock'[call.sock].queue = <<>>
    BY <1>1, <1>2, <2>3, RecvEnds, ZenonT(60), ZenonT(90)
  <2>5. \A r \in Sockets \ unread' : sock'[r].queue = <<>>
    BY <1>1, <2>2, <2>3, <2>4, ZenonT(60), ZenonT(90) DEF VlanInv, Clean
  <2>6. CASE pc # "dump_routes"
    <3>1. Learnt(o) /\ (Good /\ call.sock \notin unread => o.code = "ok")
      BY <1>1, <2>6, RecvHears, ZenonT(60), ZenonT(90)
    <3>2. Handled(o)
      BY <2>1, <2>2, <2>3, <2>5, <3>1, ZenonT(60), ZenonT(90) DEF Handled
    <3> QED
      BY <1>1, <3>2, HandledStep, ZenonT(60), ZenonT(90)
  <2>7. CASE pc = "dump_routes"
    <3>1. Learnt(o) /\ pc \notin {"create_tmp", "get_tmp", "get_mac"}
      BY <2>7 DEF Learnt
    <3>2. Handled(o)
      BY <2>1, <2>2, <2>3, <2>5, <3>1, ZenonT(60), ZenonT(90) DEF Handled
    <3> QED
      BY <1>1, <3>2, HandledStep, ZenonT(60), ZenonT(90)
  <2> QED
    BY <2>6, <2>7
<1>3. CASE ~o.end
  <2>1. pc = "dump_routes"
    <3> SUFFICES ASSUME pc # "dump_routes" PROVE FALSE
      OBVIOUS
    <3>1. PICK s \in Socket, d \in Datagram : s = sock[call.sock] /\ d = Head(s.queue) /\ d # <<>>
      BY <1>1, FirstUnread, ZenonT(60), ZenonT(90)
    <3>2. "DUMP" \notin call.flags /\ call.acc = <<>> /\ ("DUMP" \in call.flags) = FALSE
      BY <1>1 DEF VlanInv, Answered
    <3>3. PICK r : r = Scan(s, d, FALSE, <<>>)
      BY Zenon, ZenonT(60)
    <3>4. \A x : Err(x).end /\ Ok(x).end
      BY DEF Err, Ok
    <3>5. r.end
      BY <3>1, <3>3, <3>4, ScanOne, ZenonT(60), ZenonT(90)
    <3>6. o = Expect(r, call.flags, call.want)
      BY <1>1, <3>1, <3>2, <3>3, Zenon, ZenonT(60)
    <3> QED
      BY <1>3, <3>4, <3>5, <3>6, ZenonT(60), ZenonT(90) DEF Expect
  <2>2. UNCHANGED <<kernelVars, leases, hostset, ns, loopVars, localVars, pc, hitAt, unread>>
    BY <1>1, <1>3, Zenon, ZenonT(60)
  <2>3. PICK data : call' = [call EXCEPT !.acc = data]
    BY <1>1, <1>3, ZenonT(60), ZenonT(90)
  <2> QED
    BY <1>1, <2>1, <2>2, <2>3, RecvMore, ZenonT(60), ZenonT(90)
<1> QED
  BY <1>2, <1>3

-----------------------------------------------------------------------------
\* Steps that are no requests.

\* The sockets over such a step.
LEMMA ControlSockets ==
    ASSUME VlanInv, call = NoCall, UNCHANGED <<call, cmd, unread>>,
           sock' = sock \/ sock' = [q \in Sockets |-> NewSocket],
           todo' \subseteq Networks, did' \in Seq(Networks), pc' # "idle" => pc # "idle",
           Networks # {} => net' \in Networks, pc' \in Forward => pc \in Forward
    PROVE  TypeInv' /\ Answered' /\ Clean'
<1>1. NewSocket \in Socket /\ Sound(NewSocket) /\ NewSocket.queue = <<>>
  BY DEF NewSocket, Socket, Sound
<1>2. \A s \in Sockets : sock'[s] = sock[s] \/ sock'[s] = NewSocket
  BY Zenon, ZenonT(60)
<1>3. TypeInv'
  <2>1. sock' \in [Sockets -> Socket]
    BY <1>1, Zenon, ZenonT(60) DEF VlanInv, TypeInv
  <2>2. \A s \in Sockets : Sound(sock'[s])
    <3> TAKE s \in Sockets
    <3>1. Sound(sock[s])
      BY Zenon, ZenonT(60) DEF VlanInv, TypeInv
    <3> QED
      BY <1>1, <1>2, <3>1, ZenonT(60), ZenonT(90)
  <2>3. /\ call' = [sock |-> call'.sock, flags |-> call'.flags, want |-> call'.want, acc |-> call'.acc]
        /\ cmd' \in Nat /\ (pc' # "idle" => Networks # {})
    BY Zenon, ZenonT(60) DEF VlanInv, TypeInv
  <2> QED
    BY <2>1, <2>2, <2>3, Zenon, ZenonT(60) DEF TypeInv
<1>4. Answered'
  BY Zenon, ZenonT(60) DEF Answered
<1>5. Clean'
  <2>1. \A s \in Sockets \ unread : sock[s].queue = <<>>
    BY Zenon, ZenonT(60) DEF VlanInv, Clean
  <2>2. \A s \in Sockets \ unread' : sock'[s].queue = <<>>
    BY <1>1, <1>2, <2>1, ZenonT(60), ZenonT(90)
  <2>3. pc' \in Forward => unread' = {}
    BY Zenon, ZenonT(60) DEF VlanInv, Clean
  <2> QED
    BY <2>2, <2>3, Zenon, ZenonT(60) DEF Clean
<1> QED
  BY <1>3, <1>4, <1>5

\* No request is in progress where none is made.
LEMMA NoRequest ==
    ASSUME VlanInv, pc \notin HostPlaces \cup NetnsPlaces
    PROVE  call = NoCall
BY Zenon, ZenonT(60) DEF VlanInv, Answered

\* Where no temporary link is at work.
LEMMA TemporaryElsewhere ==
    ASSUME VlanInv, UNCHANGED <<links, cmd>>, hitAt \subseteq hitAt', pc \notin {"create_tmp", "get_tmp", "rename", "del_tmp"}
    PROVE  Temporary'
<1> SUFFICES ASSUME NEW d \in DOMAIN links', links'[d].name \in TmpNames, links'[d].by = cmd'
             PROVE  hitAt' \cap {"create_tmp", "get_tmp", "del_tmp"} # {}
  BY Zenon, ZenonT(60) DEF Temporary
<1>1. d \in DOMAIN links /\ links[d].name \in TmpNames /\ links[d].by = cmd
  BY ZenonT(60), ZenonT(90)
<1>2. hitAt \cap {"create_tmp", "get_tmp", "del_tmp"} # {}
  BY <1>1, Zenon, ZenonT(60) DEF VlanInv, Temporary
<1> QED
  BY <1>2, Zenon, ZenonT(60)

\* The networks rolled back stay so.
LEMMA UndoneKept ==
    ASSUME UNCHANGED <<links, cmd>>, hitAt \subseteq hitAt', unread \subseteq unread'
    PROVE  \A n : Undone(n) => Undone(n)'
BY Zenon, ZenonT(60) DEF Undone, Called

\* The process ends, by a return or by a panic.
LEMMA EndStep ==
    ASSUME VlanInv, pc \in {"validate", "next", "rollback", "networks", "lease"}, NEW s, Return(s), LinksInv',
           todo' \subseteq todo, UNCHANGED <<links, call, cmd, kind, unread, hitAt, did, rolled>>
    PROVE  VlanInv'
<1>1. pc \notin HostPlaces \cup NetnsPlaces \cup Undoing \cup {"idle", "create_tmp", "get_tmp", "rename", "del_tmp"}
  BY DEF HostPlaces, NetnsPlaces, Undoing
<1>2. pc' = "idle" /\ sock' = [q \in Sockets |-> NewSocket] /\ net' = AnyNet
  BY Zenon, ZenonT(60) DEF Return, Goto
<1>3. Networks # {} => net' \in Networks
  BY <1>2, ZenonT(60), ZenonT(90) DEF AnyNet
<1>4. pc' \notin Forward /\ pc' \notin Having /\ pc' \notin Undoing /\ pc' \notin Making
  BY <1>2 DEF Forward, Making, Having, Undoing
<1>5. TypeInv' /\ Answered' /\ Clean'
  <2>1. todo' \subseteq Networks /\ did' \in Seq(Networks)
    BY Zenon, ZenonT(60) DEF VlanInv, TypeInv
  <2> QED
    BY <1>1, <1>2, <1>3, <1>4, <2>1, NoRequest, ControlSockets, ZenonT(60), ZenonT(90)
<1>7. Placed'
  BY <1>2, <1>4, Zenon, ZenonT(60) DEF Placed
<1>8. Temporary'
  BY <1>1, TemporaryElsewhere, Zenon, ZenonT(60)
<1>9. Rolling'
  <2>1. \A n \in rolled : Undone(n)
    BY <1>1, ZenonT(60), ZenonT(90) DEF VlanInv, Rolling, Undoing
  <2>2. \A n \in rolled' : Undone(n)'
    BY <2>1, UndoneKept, Zenon, ZenonT(60)
  <2> QED
    BY <1>2, <1>4, <2>2, ZenonT(60), ZenonT(90) DEF VlanInv, Rolling
<1> QED
  BY <1>5, <1>7, <1>8, <1>9, ZenonT(60), ZenonT(90) DEF VlanInv

\* The command returns where it holds no new lease.
LEMMA ReturnStep ==
    ASSUME VlanInv, pc \in {"validate", "next", "rollback", "networks"}, NEW s, Return(s), todo' \subseteq todo,
           UNCHANGED <<links, next, leases, call, cmd, kind, unread, hitAt, did, rolled>>
    PROVE  VlanInv'
<1>1. LinksInv'
  BY Unmoved, LinksKept, ZenonT(60), ZenonT(90) DEF VlanInv
<1>2. pc \in {"validate", "next", "rollback", "networks", "lease"}
  OBVIOUS
<1> QED
  BY <1>1, <1>2, EndStep, ZenonT(60), ZenonT(90)

\* A step of the driver that is no request, leaves the links to their makers and
\* takes no lease away.
Plain ==
    /\ pc \notin HostPlaces \cup NetnsPlaces /\ pc # "idle"
    /\ SameLinks /\ leases \subseteq leases' /\ UNCHANGED <<next, sock, call, cmd, kind, did, unread>>
    /\ hitAt \subseteq hitAt'
    /\ todo' \subseteq Networks /\ net' \in Networks /\ (pc' \in Forward => pc \in Forward)

LEMMA PlainStep ==
    ASSUME VlanInv, Plain
    PROVE  /\ TypeInv' /\ Answered' /\ Clean' /\ Temporary' /\ (leases' = leases => LinksInv')
           /\ \A x : Called(x)' = Called(x) /\ (Made(x) => Made(x)')
           /\ \A n : (Complete(n) => Complete(n)') /\ (Undone(n) => Undone(n)')
           /\ kind' = "setup" => \A j \in DOMAIN did' : Made(Conf[did[j]].ifname)'
           /\ \A j \in DOMAIN did' : Complete(did[j])'
<1>1. call = NoCall
  BY NoRequest, Zenon, ZenonT(60) DEF Plain
<1>2. TypeInv' /\ Answered' /\ Clean'
  <2>1. did' \in Seq(Networks)
    BY Zenon, ZenonT(60) DEF VlanInv, TypeInv, Plain
  <2> QED
    BY <1>1, <2>1, ControlSockets, ZenonT(60), ZenonT(90) DEF Plain
<1>3. DOMAIN links' = DOMAIN links /\ \A d \in DOMAIN links : links'[d].name = links[d].name /\ links'[d].by = links[d].by
  BY Zenon, ZenonT(60) DEF Plain, SameLinks
<1>4. leases' = leases => LinksInv'
  BY LinksKept, Zenon, ZenonT(60) DEF VlanInv, Plain
<1>5. ASSUME NEW x PROVE Called(x)' = Called(x) /\ (Made(x) => Made(x)')
  <2>1. Called(x)' = Called(x)
    BY <1>3, Zenon, ZenonT(60) DEF Called
  <2>2. Made(x) => Made(x)'
    BY <1>3, <2>1, Zenon, ZenonT(60) DEF Made, Called, Plain
  <2> QED
    BY <2>1, <2>2
<1>6. \A n : Complete(n) => Complete(n)'
  BY <1>5, Zenon, ZenonT(60) DEF Complete, Plain
<1>7. ASSUME NEW n, Undone(n) PROVE Undone(n)'
  <2>1. \A d \in Called(Conf[n].ifname)' : links'[d].by = links[d].by
    BY <1>3, <1>5, Zenon, ZenonT(60) DEF Called
  <2> QED
    BY <1>5, <1>7, <2>1, ZenonT(60), ZenonT(90) DEF Undone, Plain
<1>8. Temporary'
  <2> SUFFICES ASSUME NEW d \in DOMAIN links', links'[d].name \in TmpNames, links'[d].by = cmd'
               PROVE  hitAt' \cap {"create_tmp", "get_tmp", "del_tmp"} # {}
    BY Zenon, ZenonT(60) DEF Temporary
  <2>1. d \in DOMAIN links /\ links[d].name \in TmpNames /\ links[d].by = cmd
    BY <1>3, ZenonT(60), ZenonT(90) DEF Plain
  <2>2. pc \notin {"create_tmp", "get_tmp", "rename", "del_tmp"}
    BY DEF Plain, HostPlaces, NetnsPlaces
  <2>3. hitAt \cap {"create_tmp", "get_tmp", "del_tmp"} # {}
    BY <2>1, <2>2, Zenon, ZenonT(60) DEF VlanInv, Temporary
  <2> QED
    BY <2>3, Zenon, ZenonT(60) DEF Plain
<1>9. kind' = "setup" => \A j \in DOMAIN did' : Made(Conf[did[j]].ifname)'
  BY <1>5, DidMade, ZenonT(60), ZenonT(90) DEF VlanInv, Plain
<1>10. ASSUME NEW j \in DOMAIN did' PROVE Complete(did[j])'
  <2>1. PICK n : n = did[j]
    OBVIOUS
  <2>2. Complete(n)'
    BY <1>6, <2>1, ZenonT(60), ZenonT(90) DEF VlanInv, Rolling, Plain
  <2>3. did'[j] = n
    BY <2>1, ZenonT(60), ZenonT(90) DEF Plain
  <2> QED
    BY <2>2, <2>3, ZenonT(60), ZenonT(90) DEF Complete, Called
<1> QED
  BY <1>2, <1>4, <1>5, <1>6, <1>7, <1>8, <1>9, <1>10, ZenonT(60), ZenonT(90)

\* All networks of a setup are valid before the first is set up.
LEMMA ValidateStep ==
    ASSUME VlanInv, Validate
    PROVE  VlanInv'
<1>1. /\ pc = "validate" /\ UNCHANGED <<links, next, leases, call, cmd, kind, unread, hitAt, todo, did, rolled>>
      /\ Networks # {} /\ net \in Networks
  BY Zenon, ZenonT(60) DEF Validate, Still, NoHit, kernelVars, VlanInv, TypeInv
<1>2. CASE \A n \in todo : Ipam(n).ok
  <2>1. pc' = "next" /\ UNCHANGED <<sock, net>>
    BY <1>2, Zenon, ZenonT(60) DEF Validate, Goto
  <2>2. Plain
    <3>1. pc \notin HostPlaces \cup NetnsPlaces /\ pc # "idle" /\ pc \in Forward
      BY <1>1 DEF HostPlaces, NetnsPlaces, Forward
    <3>2. SameLinks /\ todo' \subseteq Networks
      BY <1>1, Unmoved, Zenon, ZenonT(60) DEF VlanInv, TypeInv
    <3> QED
      BY <1>1, <2>1, <3>1, <3>2, ZenonT(60), ZenonT(90) DEF Plain
  <2>3. /\ TypeInv' /\ Answered' /\ Clean' /\ Temporary' /\ LinksInv'
        /\ kind' = "setup" => \A j \in DOMAIN did' : Made(Conf[did[j]].ifname)'
        /\ \A j \in DOMAIN did' : Complete(did[j])'
    BY <1>1, <2>2, PlainStep, ZenonT(60), ZenonT(90)
  <2>4. Placed'
    BY <2>1, <2>3, ZenonT(60), ZenonT(90) DEF Placed, Having, Undoing
  <2>5. rolled' = {}
    BY <1>1, ZenonT(60), ZenonT(90) DEF VlanInv, Rolling, Forward
  <2>6. Rolling'
    BY <1>1, <1>2, <2>1, <2>3, <2>5, ZenonT(60), ZenonT(90) DEF VlanInv, Rolling, Making, Having, Undoing
  <2> QED
    BY <2>3, <2>4, <2>6, ZenonT(60), ZenonT(90) DEF VlanInv
<1>3. CASE ~\A n \in todo : Ipam(n).ok
  <2>1. \E s : Return(s)
    BY <1>3, ZenonT(60), ZenonT(90) DEF Validate
  <2> QED
    BY <1>1, <2>1, ReturnStep, ZenonT(60), ZenonT(90)
<1> QED
  BY <1>2, <1>3

\* The next network of a setup.
LEMMA NextNetworkStep ==
    ASSUME VlanInv, NextNetwork
    PROVE  VlanInv'
<1>1. pc = "next" /\ UNCHANGED <<links, next, leases, call, cmd, kind, unread, hitAt, did, rolled>>
  BY Zenon, ZenonT(60) DEF NextNetwork, Still, NoHit, kernelVars
<1>2. CASE todo = {}
  BY <1>1, <1>2, ReturnStep, ZenonT(60), ZenonT(90) DEF NextNetwork
<1>3. CASE todo # {}
  <2>1. PICK n \in todo : net' = n /\ todo' = todo \ {n} /\ pc' \in {"dump_routes", "get_primary"} /\ UNCHANGED sock
    BY <1>3, Zenon, ZenonT(60) DEF NextNetwork, Goto
  <2>2. Plain
    <3>1. pc \notin HostPlaces \cup NetnsPlaces /\ pc # "idle" /\ pc \in Forward
      BY <1>1 DEF HostPlaces, NetnsPlaces, Forward
    <3>2. SameLinks /\ todo' \subseteq Networks /\ net' \in Networks
      BY <1>1, <2>1, Unmoved, ZenonT(60), ZenonT(90) DEF VlanInv, TypeInv
    <3> QED
      BY <1>1, <2>1, <3>1, <3>2, ZenonT(60), ZenonT(90) DEF Plain
  <2>3. /\ TypeInv' /\ Answered' /\ Clean' /\ Temporary' /\ LinksInv'
        /\ kind' = "setup" => \A j \in DOMAIN did' : Made(Conf[did[j]].ifname)'
        /\ \A j \in DOMAIN did' : Complete(did[j])'
    BY <1>1, <2>2, PlainStep, ZenonT(60), ZenonT(90)
  <2>4. Placed'
    BY <2>1, <2>3, ZenonT(60), ZenonT(90) DEF Placed, Having, Undoing
  <2>5. rolled' = {} /\ Ipam(n).ok
    BY <1>1, <2>1, ZenonT(60), ZenonT(90) DEF VlanInv, Rolling, Forward
  <2>6. \A j \in DOMAIN did' : did'[j] \notin todo' \cup rolled' /\ did'[j] # net'
    BY <1>1, <2>1, ZenonT(60), ZenonT(90) DEF VlanInv, Rolling
  <2>7. \A m \in todo' : Ipam(m).ok /\ m # n
    BY <1>1, <2>1, ZenonT(60), ZenonT(90) DEF VlanInv, Rolling
  <2>8. pc' \notin Undoing /\ pc' # "configured" /\ pc' # "idle"
    BY <2>1 DEF Undoing
  <2>9. \A i, j \in DOMAIN did' : did'[i] = did'[j] => i = j
    BY <1>1, Zenon, ZenonT(60) DEF VlanInv, Rolling
  <2>10. Rolling'
    BY <2>1, <2>3, <2>5, <2>6, <2>7, <2>8, <2>9, ZenonT(60), ZenonT(90) DEF Rolling
  <2> QED
    BY <2>3, <2>4, <2>10, ZenonT(60), ZenonT(90) DEF VlanInv
<1> QED
  BY <1>2, <1>3

\* Steps on a link that is there.
LEMMA HavingStep ==
    ASSUME VlanInv, Plain, LinksInv', UNCHANGED <<todo, net, rolled>>, pc \in Having,
           pc' \in {"sysctl", "join_back", "get_dev", "configured", "rollback"},
           pc' = "sysctl" => ns' = "netns", pc' = "configured" => Complete(net)'
    PROVE  VlanInv'
<1>1. /\ TypeInv' /\ Answered' /\ Clean' /\ Temporary'
      /\ \A x : Made(x) => Made(x)'
      /\ kind' = "setup" => \A j \in DOMAIN did' : Made(Conf[did[j]].ifname)'
      /\ \A j \in DOMAIN did' : Complete(did[j])'
  BY PlainStep, Zenon, ZenonT(60)
<1>2. Made(IfName)'
  <2>1. PICK x : x = IfName
    OBVIOUS
  <2>2. Made(x)' /\ IfName' = x
    BY <1>1, <2>1, ZenonT(60), ZenonT(90) DEF VlanInv, Placed, IfName
  <2> QED
    BY <2>2, Zenon, ZenonT(60) DEF Made, Called
<1>3. Placed'
  BY <1>1, <1>2, Zenon, ZenonT(60) DEF Placed, Undoing
<1>4. rolled' = {}
  BY Zenon, ZenonT(60) DEF VlanInv, Rolling, Forward
<1>5. pc' \notin Undoing /\ pc' # "next" /\ pc' \notin Making
  BY DEF Undoing, Making
<1>6. Rolling'
  BY <1>1, <1>4, <1>5, ZenonT(60), ZenonT(90) DEF VlanInv, Rolling, Plain
<1> QED
  BY <1>1, <1>3, <1>6, Zenon, ZenonT(60) DEF VlanInv

\* What the next steps have in common.
LEMMA HavingPlain ==
    ASSUME VlanInv, pc \in {"join", "sysctl", "join_back", "lease"}, SameLinks, leases \subseteq leases',
           UNCHANGED <<next, sock, call, loopVars, localVars, unread>>, hitAt \subseteq hitAt'
    PROVE  Plain /\ pc \in Having /\ UNCHANGED <<todo, net, rolled>>
<1>1. pc \notin HostPlaces \cup NetnsPlaces /\ pc # "idle" /\ pc \in Forward /\ pc \in Having
  BY DEF HostPlaces, NetnsPlaces, Forward, Having
<1>2. UNCHANGED <<cmd, kind, todo, did, rolled, net>>
  BY Zenon, ZenonT(60) DEF loopVars, localVars
<1>3. todo \subseteq Networks /\ net \in Networks
  BY <1>1, Zenon, ZenonT(60) DEF VlanInv, TypeInv
<1> QED
  BY <1>1, <1>2, <1>3, ZenonT(60), ZenonT(90) DEF Plain

\* The thread joins the namespace of the container, and comes back.
LEMMA JoinStep ==
    ASSUME VlanInv, JoinNetns \/ JoinBack
    PROVE  VlanInv'
<1>1. pc \in {"join", "join_back"} /\ UNCHANGED <<links, next, leases, sock, call, loopVars, localVars, unread>>
  BY ZenonT(60), ZenonT(90) DEF JoinNetns, JoinBack, kernelVars
<1>2. hitAt \subseteq hitAt' /\ pc' \in {"sysctl", "get_dev", "rollback"} /\ (pc' = "sysctl" => ns' = "netns")
  BY DEF JoinNetns, JoinBack, NoHit, Hit, SetupFails, Goto
<1>3. SameLinks
  BY <1>1, Unmoved DEF VlanInv
<1>4. Plain /\ pc \in Having /\ UNCHANGED <<todo, net, rolled>>
  BY <1>1, <1>2, <1>3, HavingPlain
<1>5. LinksInv'
  BY <1>1, <1>4, PlainStep, ZenonT(60), ZenonT(90)
<1>6. pc' \in {"sysctl", "join_back", "get_dev", "configured", "rollback"} /\ pc' # "configured"
  BY <1>2
<1> QED
  BY <1>2, <1>4, <1>5, <1>6, HavingStep, ZenonT(60), ZenonT(90)

\* The sysctl of the interface.
LEMMA DisableIpv6AutoconfStep ==
    ASSUME VlanInv, DisableIpv6Autoconf
    PROVE  VlanInv'
<1>1. pc = "sysctl" /\ pc' = "join_back" /\ UNCHANGED <<next, leases, sock, call, loopVars, localVars, unread>>
  BY Zenon, ZenonT(60) DEF DisableIpv6Autoconf, Goto
<1>2. hitAt \subseteq hitAt'
  BY Zenon, ZenonT(60) DEF DisableIpv6Autoconf, NoHit, Hit
<1>3. SameLinks
  <2>1. CASE links' = links
    BY <2>1, Unmoved DEF VlanInv
  <2>2. CASE links' = [d \in DOMAIN links |->
                         IF d \in Called(IfName) THEN [links[d] EXCEPT !.autoconf = FALSE] ELSE links[d]]
    <3>1. DOMAIN links' = DOMAIN links /\ links' = [d \in DOMAIN links |-> links'[d]]
      BY <2>2
    <3>2. ASSUME NEW d \in DOMAIN links
          PROVE  Record(links'[d]) /\ links'[d].name = links[d].name /\ links'[d].by = links[d].by
      <4>1. Record(links[d])
        BY Zenon, ZenonT(60) DEF VlanInv, LinksInv
      <4>2. links'[d] = links[d] \/ links'[d] = [links[d] EXCEPT !.autoconf = FALSE]
        BY <2>2, ZenonT(60), ZenonT(90)
      <4> QED
        BY <4>1, <4>2 DEF Record
    <3> QED
      BY <3>1, <3>2, Zenon, ZenonT(60) DEF SameLinks
  <2> QED
    BY <2>1, <2>2, ZenonT(60), ZenonT(90) DEF DisableIpv6Autoconf
<1>4. Plain /\ pc \in Having /\ UNCHANGED <<todo, net, rolled>>
  BY <1>1, <1>2, <1>3, HavingPlain
<1>5. LinksInv'
  BY <1>1, <1>4, PlainStep, ZenonT(60), ZenonT(90)
<1>6. pc' \in {"sysctl", "join_back", "get_dev", "configured", "rollback"} /\ pc' # "configured" /\ pc' # "sysctl"
  BY <1>1
<1> QED
  BY <1>4, <1>5, <1>6, HavingStep, ZenonT(60), ZenonT(90)

\* A lease is asked for.
LEMMA GetDhcpLeaseStep ==
    ASSUME VlanInv, GetDhcpLease
    PROVE  VlanInv'
<1>1. pc = "lease" /\ UNCHANGED <<links, next, call, cmd, kind, todo, did, rolled, made, unread>>
  BY ZenonT(60), ZenonT(90) DEF GetDhcpLease, kernelVars
<1>2. hitAt \subseteq hitAt' /\ leases \subseteq leases' /\ leases' \subseteq leases \cup {dev}
  BY DEF GetDhcpLease, NoHit, Hit
<1>3. SameLinks
  BY <1>1, Unmoved DEF VlanInv
<1>4. pc \notin HostPlaces \cup NetnsPlaces /\ pc # "idle" /\ pc \in Forward /\ pc \in Having
  BY <1>1 DEF HostPlaces, NetnsPlaces, Forward, Having
<1>5. dev \in DOMAIN links /\ links[dev].name = Conf[net].ifname /\ Ipam(net).dhcp /\ net \in Networks
  BY <1>1, <1>4, Zenon, ZenonT(60) DEF VlanInv, Placed, TypeInv, Called, IfName
<1>6. LinksInv'
  <2>1. \A d \in leases' : d \in DOMAIN links' /\ \E n \in Networks : Ipam(n).dhcp /\ links'[d].name = Conf[n].ifname
    BY <1>1, <1>2, <1>5, ZenonT(60), ZenonT(90) DEF VlanInv, LinksInv
  <2>2. UNCHANGED <<links, next, cmd>>
    BY <1>1, ZenonT(60), ZenonT(90)
  <2>3. \A d \in DOMAIN links' : d \in Nat /\ d < next' /\ Record(links'[d]) /\ links'[d].by \in 0 .. cmd'
    BY <2>2, ZenonT(60), ZenonT(90) DEF VlanInv, LinksInv
  <2>4. \A d, e \in DOMAIN links' : links'[d].name = links'[e].name => d = e
    BY <2>2, ZenonT(60), ZenonT(90) DEF VlanInv, LinksInv
  <2>5. next' \in Nat /\ links' = [d \in DOMAIN links' |-> links'[d]]
    BY <2>2, ZenonT(60), ZenonT(90) DEF VlanInv, LinksInv
  <2> QED
    BY <2>1, <2>3, <2>4, <2>5, ZenonT(60), ZenonT(90) DEF LinksInv, Record
<1>7. CASE Return("panicked") /\ NoHit
  <2>1. UNCHANGED hitAt /\ Return("panicked")
    BY <1>7, Zenon, ZenonT(60) DEF NoHit
  <2>2. pc \in {"validate", "next", "rollback", "networks", "lease"} /\ todo' \subseteq todo
    BY <1>1
  <2> QED
    BY <1>1, <1>6, <2>1, <2>2, EndStep, ZenonT(60), ZenonT(90)
<1>8. CASE pc' \in {"configured", "rollback"} /\ (pc' = "configured" => leases' = leases \cup {dev}) /\ UNCHANGED <<sock, net>>
  <2>1. Plain
    <3>1. todo' \subseteq Networks /\ net' \in Networks
      BY <1>1, <1>5, <1>8, ZenonT(60), ZenonT(90) DEF VlanInv, TypeInv
    <3> QED
      BY <1>1, <1>2, <1>3, <1>4, <1>8, <3>1, ZenonT(60), ZenonT(90) DEF Plain
  <2>2. pc' = "configured" => Complete(net)'
    <3>1. \A d \in Called(Conf[net].ifname) : d = dev
      BY <1>5 DEF VlanInv, LinksInv, Called
    <3>2. Called(Conf[net].ifname)' = Called(Conf[net].ifname)
      BY <1>1, <1>8, ZenonT(60), ZenonT(90) DEF Called
    <3>3. Ipam(net).ok /\ dev \in Called(Conf[net].ifname)
      BY <1>4, <1>5, ZenonT(60), ZenonT(90) DEF VlanInv, Rolling, Called
    <3> QED
      BY <1>8, <3>1, <3>2, <3>3 DEF Complete
  <2>3. pc' \in {"sysctl", "join_back", "get_dev", "configured", "rollback"} /\ pc' # "sysctl"
    BY <1>8
  <2> QED
    BY <1>1, <1>4, <1>6, <1>8, <2>1, <2>2, <2>3, HavingStep, ZenonT(60), ZenonT(90)
<1> QED
  <2>1. \/ Return("panicked") /\ NoHit
        \/ Goto("configured") /\ leases' = leases \cup {dev} /\ UNCHANGED <<sock, localVars>>
        \/ Goto("rollback") /\ UNCHANGED <<sock, localVars>>
    BY ZenonT(60), ZenonT(90) DEF GetDhcpLease, SetupFails
  <2>2. CASE Goto("configured") /\ leases' = leases \cup {dev} /\ UNCHANGED <<sock, localVars>>
    BY <1>8, <2>2 DEF Goto, localVars
  <2>3. CASE Goto("rollback") /\ UNCHANGED <<sock, localVars>>
    BY <1>8, <2>3 DEF Goto, localVars
  <2> QED
    BY <1>7, <2>1, <2>2, <2>3, Zenon, ZenonT(60)

\* A network is set up.
LEMMA ConfiguredStep ==
    ASSUME VlanInv, Configured
    PROVE  VlanInv'
<1>1. /\ pc = "configured" /\ pc' = "next" /\ did' = Append(did, net)
      /\ UNCHANGED <<links, next, leases, sock, call, cmd, kind, todo, rolled, net, hitAt, unread>>
  BY Zenon, ZenonT(60) DEF Configured, NoHit, Goto, kernelVars, localVars
<1>2. pc \notin HostPlaces \cup NetnsPlaces /\ pc # "idle" /\ pc \in Forward /\ pc \in Having
  BY <1>1 DEF HostPlaces, NetnsPlaces, Forward, Having
<1>3. todo \subseteq Networks /\ net \in Networks /\ did \in Seq(Networks)
  BY <1>2, ZenonT(60), ZenonT(90) DEF VlanInv, TypeInv
<1>4. /\ did' \in Seq(Networks)
      /\ \A j \in DOMAIN did' : (j \in DOMAIN did /\ did'[j] = did[j]) \/ (j = Len(did) + 1 /\ did'[j] = net)
  BY <1>1, <1>3
<1>5. TypeInv' /\ Answered' /\ Clean'
  BY <1>1, <1>2, <1>3, <1>4, NoRequest, ControlSockets, ZenonT(60), ZenonT(90)
<1>6. LinksInv'
  BY <1>1, Unmoved, LinksKept, ZenonT(60), ZenonT(90) DEF VlanInv
<1>7. Temporary'
  <2>1. pc \notin {"create_tmp", "get_tmp", "rename", "del_tmp"}
    BY <1>1
  <2> QED
    BY <1>1, <2>1, TemporaryElsewhere, ZenonT(60), ZenonT(90)
<1>8. Placed'
  <2>1. ASSUME kind' = "setup", NEW j \in DOMAIN did' PROVE Made(Conf[did[j]].ifname)'
    <3>1. PICK n : n = did'[j]
      OBVIOUS
    <3>2. Made(Conf[n].ifname)
      BY <1>1, <1>2, <1>4, <2>1, <3>1, ZenonT(60), ZenonT(90) DEF VlanInv, Placed, IfName
    <3>3. Made(Conf[n].ifname)'
      BY <1>1, <3>2, ZenonT(60), ZenonT(90) DEF Made, Called
    <3> QED
      BY <3>1, <3>3, ZenonT(60), ZenonT(90) DEF Made, Called
  <2> QED
    BY <1>1, <2>1, Zenon, ZenonT(60) DEF Placed, Having, Undoing
<1>9. Rolling'
  <2>1. rolled = {} /\ net \notin todo /\ Complete(net) /\ \A j \in DOMAIN did : did[j] # net
    BY <1>1, <1>2, ZenonT(60), ZenonT(90) DEF VlanInv, Rolling
  <2>2. \A i, j \in DOMAIN did' : did'[i] = did'[j] => i = j
    BY <1>4, <2>1, ZenonT(60), ZenonT(90) DEF VlanInv, Rolling
  <2>3. \A j \in DOMAIN did' : did'[j] \notin todo' \cup rolled'
    BY <1>1, <1>4, <2>1, ZenonT(60), ZenonT(90) DEF VlanInv, Rolling
  <2>4. ASSUME NEW j \in DOMAIN did' PROVE Complete(did[j])'
    <3>1. PICK n : n = did'[j]
      OBVIOUS
    <3>2. Complete(n)
      BY <1>2, <1>4, <2>1, <3>1, ZenonT(60), ZenonT(90) DEF VlanInv, Rolling
    <3>3. Complete(n)'
      BY <1>1, <3>2, ZenonT(60), ZenonT(90) DEF Complete, Called
    <3> QED
      BY <3>1, <3>3, ZenonT(60), ZenonT(90) DEF Complete, Called
  <2>5. \A n \in todo' : Ipam(n).ok
    BY <1>1, <1>2, ZenonT(60), ZenonT(90) DEF VlanInv, Rolling
  <2>6. pc' = "next" /\ pc' \notin Making \cup Having \cup Undoing /\ pc' # "configured" /\ rolled' = {}
    BY <1>1, <2>1 DEF Making, Having, Undoing
  <2> QED
    BY <2>2, <2>3, <2>4, <2>5, <2>6, ZenonT(60), ZenonT(90) DEF Rolling
<1> QED
  BY <1>5, <1>6, <1>7, <1>8, <1>9, ZenonT(60), ZenonT(90) DEF VlanInv

\* A lease is released.
LEMMA ReleaseDhcpLeaseStep ==
    ASSUME Named, VlanInv, ReleaseDhcpLease
    PROVE  VlanInv'
<1>1. pc = "release" /\ UNCHANGED <<links, next, sock, call, cmd, kind, todo, did, rolled, net, dev, unread>>
  BY Zenon, ZenonT(60) DEF ReleaseDhcpLease, kernelVars, loopVars, localVars
<1>2. hitAt \subseteq hitAt' /\ leases' \subseteq leases /\ leases \ {dev} \subseteq leases'
  BY DEF ReleaseDhcpLease, NoHit, Hit
<1>3. /\ pc' \in {"del_link", "rollback", "networks"} /\ (pc' = "networks" => kind # "setup")
      /\ (pc' = "del_link" => leases' = leases \ {dev}) /\ (dev \in leases => pc' = "del_link" \/ pc \in hitAt')
  BY <1>1 DEF ReleaseDhcpLease, TeardownFails, TornDown, Goto, Hit
<1>4. pc \notin HostPlaces \cup NetnsPlaces /\ pc # "idle" /\ pc \in Undoing /\ pc' \notin Forward
  BY <1>1, <1>3 DEF HostPlaces, NetnsPlaces, Forward, Making, Having, Undoing
<1>5. todo \subseteq Networks /\ net \in Networks /\ did \in Seq(Networks)
  BY <1>4, ZenonT(60), ZenonT(90) DEF VlanInv, TypeInv
<1>6. dev \in DOMAIN links /\ links[dev].name = IfName
  BY <1>1, ZenonT(60), ZenonT(90) DEF VlanInv, Placed, Called
<1>7. TypeInv' /\ Answered' /\ Clean'
  BY <1>1, <1>4, <1>5, NoRequest, ControlSockets, ZenonT(60), ZenonT(90)
<1>8. LinksInv'
  <2>1. \A d \in leases' : d \in DOMAIN links' /\ \E n \in Networks : Ipam(n).dhcp /\ links'[d].name = Conf[n].ifname
    BY <1>1, <1>2 DEF VlanInv, LinksInv
  <2>3. \A d \in DOMAIN links' : d \in Nat /\ d < next' /\ Record(links'[d]) /\ links'[d].by \in 0 .. cmd'
    BY <1>1, Zenon, ZenonT(60) DEF VlanInv, LinksInv
  <2>4. \A d, e \in DOMAIN links' : links'[d].name = links'[e].name => d = e
    BY <1>1, ZenonT(60), ZenonT(90) DEF VlanInv, LinksInv
  <2>5. next' \in Nat /\ links' = [d \in DOMAIN links' |-> links'[d]]
    BY <1>1, ZenonT(60), ZenonT(90) DEF VlanInv, LinksInv
  <2> QED
    BY <2>1, <2>3, <2>4, <2>5, ZenonT(60), ZenonT(90) DEF LinksInv, Record
<1>9. Temporary'
  <2>1. pc \notin {"create_tmp", "get_tmp", "rename", "del_tmp"}
    BY <1>1
  <2> QED
    BY <1>1, <1>2, <2>1, TemporaryElsewhere, Zenon, ZenonT(60)
<1>10. Placed'
  <2>1. \A x : Called(x)' = Called(x) /\ (Made(x)' <=> Made(x))
    BY <1>1, SameView, Zenon, ZenonT(60)
  <2>2. kind' = "setup" => \A j \in DOMAIN did' : Made(Conf[did[j]].ifname)'
    BY <1>1, <1>4, <2>1, DidMade, ZenonT(60), ZenonT(90) DEF VlanInv
  <2>3. kind' = "setup" => Made(IfName)'
    BY <1>1, <1>4, ZenonT(60), ZenonT(90) DEF VlanInv, Placed, Made, Called, IfName
  <2>4. pc' = "del_link" => Called(IfName)' \cap leases' = {}
    <3>1. \A d \in Called(IfName) : d = dev
      BY <1>6, Zenon, ZenonT(60) DEF VlanInv, LinksInv, Called
    <3>2. Called(IfName)' = Called(IfName)
      BY <1>1, Zenon, ZenonT(60) DEF Called, IfName
    <3> QED
      BY <1>3, <3>1, <3>2, ZenonT(60), ZenonT(90)
  <2> QED
    BY <1>1, <1>3, <2>2, <2>3, <2>4, ZenonT(60), ZenonT(90) DEF Placed, Having
<1>11. Rolling'
  <2>1. ASSUME NEW j \in DOMAIN did' PROVE Complete(did[j])'
    <3>1. PICK n \in Networks : n = did[j] /\ n # net /\ Complete(n)
      <4>1. did' = did /\ did \in Seq(Networks) /\ j \in DOMAIN did
        BY <1>1, ZenonT(60), ZenonT(90) DEF VlanInv, TypeInv
      <4>2. did[j] \in Networks
        BY <4>1
      <4>3. did[j] # net /\ Complete(did[j])
        BY <1>1, <1>4, <4>1, ZenonT(60), ZenonT(90) DEF VlanInv, Rolling
      <4> QED
        BY <4>2, <4>3, ZenonT(60), ZenonT(90)
    <3>2. Conf[n].ifname # IfName
      BY <1>5, <3>1, Zenon, ZenonT(60) DEF Named, IfName
    <3>3. dev \notin Called(Conf[n].ifname)
      BY <1>6, <3>2, ZenonT(60), ZenonT(90) DEF Called
    <3>4. Called(Conf[n].ifname)' = Called(Conf[n].ifname)
      BY <1>1, Zenon, ZenonT(60) DEF Called
    <3>5. Complete(n)'
      BY <1>2, <3>1, <3>3, <3>4, ZenonT(60), ZenonT(90) DEF Complete
    <3>6. did'[j] = n
      BY <1>1, <3>1, Zenon, ZenonT(60)
    <3> QED
      BY <3>5, <3>6, Zenon, ZenonT(60) DEF Complete, Called
  <2>2. ASSUME NEW n \in rolled' PROVE Undone(n)' \/ (n = net' /\ pc' = "del_link" /\ call' = NoCall)
    <3>1. Undone(n) \/ (n = net /\ dev \in leases)
      BY <1>1, <2>2, ZenonT(60), ZenonT(90) DEF VlanInv, Rolling
    <3>2. Undone(n) => Undone(n)'
      BY <1>1, <1>2, UndoneKept, ZenonT(60), ZenonT(90)
    <3>3. pc \in hitAt' => Undone(n)'
      BY <1>4, Zenon, ZenonT(60) DEF Undone
    <3>4. call' = NoCall
      BY <1>1, <1>4, NoRequest, ZenonT(60), ZenonT(90)
    <3> QED
      BY <1>1, <1>3, <3>1, <3>2, <3>3, <3>4, ZenonT(60), ZenonT(90)
  <2>3. pc' \notin Making \cup Having /\ pc' # "next" /\ pc' # "configured" /\ pc' \notin Forward
    BY <1>3 DEF Making, Having, Forward
  <2> QED
    BY <1>1, <1>4, <2>1, <2>2, <2>3, ZenonT(60), ZenonT(90) DEF VlanInv, Rolling
<1> QED
  BY <1>7, <1>8, <1>9, <1>10, <1>11, ZenonT(60), ZenonT(90) DEF VlanInv

\* Only networks that get their addresses by DHCP have leases.
LEMMA NoLease ==
    ASSUME Named, LinksInv, NEW n \in Networks, ~Ipam(n).dhcp
    PROVE  Called(Conf[n].ifname) \cap leases = {}
<1> SUFFICES ASSUME NEW d \in Called(Conf[n].ifname), d \in leases PROVE FALSE
  BY Zenon, ZenonT(60)
<1>1. PICK m \in Networks : Ipam(m).dhcp /\ links[d].name = Conf[m].ifname
  BY Zenon, ZenonT(60) DEF LinksInv
<1>2. Conf[m].ifname = Conf[n].ifname
  BY <1>1, Zenon, ZenonT(60) DEF Called
<1>3. m = n
  BY <1>2, Zenon, ZenonT(60) DEF Named
<1> QED
  BY <1>1, <1>3, Zenon, ZenonT(60)

\* get_ipam_addresses does not panic over a network that is valid.
LEMMA OkDoesNotPanic ==
    ASSUME NEW n, Ipam(n).ok
    PROVE  ~Ipam(n).panics
BY DEF Ipam

\* teardown goes on to the next network.
LEMMA TeardownNetworksStep ==
    ASSUME Named, VlanInv, TeardownNetworks
    PROVE  VlanInv'
<1>1. pc = "networks" /\ UNCHANGED <<links, next, leases, call, cmd, kind, unread, hitAt, did, rolled>>
  BY Zenon, ZenonT(60) DEF TeardownNetworks, Still, NoHit, kernelVars
<1>2. CASE todo = {}
  BY <1>1, <1>2, ReturnStep, ZenonT(60), ZenonT(90) DEF TeardownNetworks
<1>3. CASE todo # {} /\ \E n \in todo : todo' = todo \ {n} /\ Return("panicked")
  <2>1. Return("panicked") /\ todo' \subseteq todo
    BY <1>3, Zenon, ZenonT(60)
  <2> QED
    BY <1>1, <2>1, ReturnStep, ZenonT(60), ZenonT(90)
<1>4. CASE todo # {} /\ ~\E n \in todo : todo' = todo \ {n} /\ Return("panicked")
  <2>1. PICK n \in todo : /\ net' = n /\ todo' = todo \ {n} /\ UNCHANGED sock
                          /\ \/ Goto(IF Ipam(n).dhcp THEN "get_mac" ELSE "del_link")
                             \/ UNCHANGED pc
    BY <1>4, ZenonT(60), ZenonT(90) DEF TeardownNetworks, EnterTeardown
  <2>2. pc' \in {"get_mac", "del_link", "networks"} /\ (pc' = "del_link" => ~Ipam(n).dhcp)
    BY <1>1, <2>1 DEF Goto
  <2>3. n \in Networks /\ kind # "setup"
    BY <1>1, <2>1, ZenonT(60), ZenonT(90) DEF VlanInv, TypeInv, Placed
  <2>4. Plain
    <3>1. pc \notin HostPlaces \cup NetnsPlaces /\ pc # "idle" /\ pc' \notin Forward
      BY <1>1, <2>2 DEF HostPlaces, NetnsPlaces, Forward, Making, Having
    <3>2. SameLinks /\ todo' \subseteq Networks /\ net' \in Networks
      BY <1>1, <2>1, Unmoved, ZenonT(60), ZenonT(90) DEF VlanInv, TypeInv
    <3> QED
      BY <1>1, <2>1, <3>1, <3>2, ZenonT(60), ZenonT(90) DEF Plain
  <2>5. /\ TypeInv' /\ Answered' /\ Clean' /\ Temporary' /\ LinksInv'
        /\ \A x : Called(x)' = Called(x)
        /\ \A m : Undone(m) => Undone(m)'
        /\ \A j \in DOMAIN did' : Complete(did[j])'
    BY <1>1, <2>4, PlainStep, ZenonT(60), ZenonT(90)
  <2>6. Placed'
    <3>1. pc' = "del_link" => Called(IfName)' \cap leases' = {}
      <4>1. pc' = "del_link" => Called(Conf[n].ifname) \cap leases = {}
        BY <2>2, <2>3, NoLease, Zenon, ZenonT(60) DEF VlanInv
      <4>2. Called(Conf[n].ifname) = Called(IfName)'
        BY <1>1, <2>1, Zenon, ZenonT(60) DEF Called, IfName
      <4> QED
        BY <1>1, <4>1, <4>2, ZenonT(60), ZenonT(90)
    <3> QED
      BY <1>1, <2>2, <2>3, <3>1, ZenonT(60), ZenonT(90) DEF Placed, Having
  <2>7. Rolling'
    <3>1. \A m \in rolled' : Undone(m)'
      BY <1>1, <2>5, ZenonT(60), ZenonT(90) DEF VlanInv, Rolling
    <3>2. \A j \in DOMAIN did' : did'[j] \notin todo' \cup rolled' /\ did'[j] # net'
      BY <1>1, <2>1, ZenonT(60), ZenonT(90) DEF VlanInv, Rolling
    <3>3. \A i, j \in DOMAIN did' : did'[i] = did'[j] => i = j
      BY <1>1, ZenonT(60), ZenonT(90) DEF VlanInv, Rolling
    <3>4. pc' \notin Making \cup Having /\ pc' # "next" /\ pc' # "configured" /\ pc' \notin Forward
      BY <2>2 DEF Making, Having, Forward
    <3> QED
      BY <2>5, <3>1, <3>2, <3>3, <3>4, ZenonT(60), ZenonT(90) DEF Rolling
  <2> QED
    BY <2>5, <2>6, <2>7, ZenonT(60), ZenonT(90) DEF VlanInv
<1> QED
  BY <1>2, <1>3, <1>4, Zenon, ZenonT(60)

\* The rollback goes on to the next network that is set up.
LEMMA RollbackStep ==
    ASSUME Named, VlanInv, Rollback
    PROVE  VlanInv'
<1>1. pc = "rollback" /\ UNCHANGED <<links, next, leases, call, cmd, kind, unread, hitAt, todo>>
  BY Zenon, ZenonT(60) DEF Rollback, Still, NoHit, kernelVars
<1>2. CASE did = <<>>
  BY <1>1, <1>2, ReturnStep, Zenon, ZenonT(60) DEF Rollback
<1>3. CASE did # <<>>
  <2>1. PICK n : n = Head(did) /\ did' = Tail(did) /\ rolled' = rolled \cup {n} /\ EnterTeardown(n)
    BY <1>3, Zenon, ZenonT(60) DEF Rollback
  <2>2. /\ did \in Seq(Networks) /\ todo \subseteq Networks
        /\ \A i, j \in DOMAIN did : did[i] = did[j] => i = j
        /\ \A j \in DOMAIN did : did[j] \notin todo \cup rolled
    BY Zenon, ZenonT(60) DEF VlanInv, TypeInv, Rolling
  <2>3. /\ n \in Networks /\ 1 \in DOMAIN did /\ n = did[1] /\ did' \in Seq(Networks)
        /\ \A j \in DOMAIN did' : j + 1 \in DOMAIN did /\ did'[j] = did[j + 1] /\ j + 1 # 1
        /\ \A i, j \in DOMAIN did' : i + 1 = j + 1 => i = j
    BY <1>3, <2>1, <2>2
  <2>4. Complete(n) /\ Ipam(n).ok
    BY <1>1, <2>3, ZenonT(60), ZenonT(90) DEF VlanInv, Rolling, Complete
  <2>5. /\ pc' \in {"get_mac", "del_link"} /\ (IF Ipam(n).dhcp THEN pc' = "get_mac" ELSE pc' = "del_link")
        /\ net' = n /\ UNCHANGED sock
    BY <2>1, <2>4, OkDoesNotPanic DEF EnterTeardown, Goto
  <2>6. pc \notin HostPlaces \cup NetnsPlaces /\ pc # "idle" /\ pc' \notin Forward /\ pc' # "idle"
    BY <1>1, <2>5 DEF HostPlaces, NetnsPlaces, Forward, Making, Having
  <2>7. call = NoCall /\ call' = NoCall
    BY <1>1, <2>6, NoRequest, Zenon, ZenonT(60)
  <2>8. TypeInv' /\ Answered' /\ Clean'
    <3>1. Networks # {} => net' \in Networks
      BY <2>3, <2>5, Zenon, ZenonT(60)
    <3> QED
      BY <1>1, <2>1, <2>2, <2>3, <2>5, <2>6, <2>7, <3>1, ControlSockets, ZenonT(60), ZenonT(90)
  <2>9. LinksInv'
    BY <1>1, Unmoved, LinksKept, Zenon, ZenonT(60) DEF VlanInv
  <2>10. Temporary'
    <3>1. pc \notin {"create_tmp", "get_tmp", "rename", "del_tmp"}
      BY <1>1
    <3> QED
      BY <1>1, <3>1, TemporaryElsewhere, Zenon, ZenonT(60)
  <2>11. ASSUME NEW j \in DOMAIN did'
         PROVE  \E m : m = did'[j] /\ m # n /\ m \notin todo \cup rolled /\ Complete(m) /\ (kind = "setup" => Made(Conf[m].ifname))
    <3>1. PICK i \in DOMAIN did : did'[j] = did[i] /\ i # 1
      BY <2>3
    <3>2. did[i] # n /\ did[i] \notin todo \cup rolled
      BY <2>2, <2>3, <3>1, Zenon, ZenonT(60)
    <3> QED
      BY <2>6, <3>1, <3>2, ZenonT(60), ZenonT(90) DEF VlanInv, Rolling, Placed
  <2>12. Placed'
    <3>1. pc' = "del_link" => Called(IfName)' \cap leases' = {}
      <4>1. pc' = "del_link" => Called(Conf[n].ifname) \cap leases = {}
        <5>1. pc' = "del_link" => ~Ipam(n).dhcp
          BY <2>5
        <5> QED
          BY <2>3, <5>1, NoLease, Zenon, ZenonT(60) DEF VlanInv
      <4>2. Called(Conf[n].ifname) = Called(IfName)'
        BY <1>1, <2>5, Zenon, ZenonT(60) DEF Called, IfName
      <4> QED
        BY <1>1, <4>1, <4>2, Zenon, ZenonT(60)
    <3>2. kind' = "setup" => Made(IfName)'
      <4>1. kind = "setup" => Made(Conf[n].ifname)
        BY <2>3, <2>6, ZenonT(60), ZenonT(90) DEF VlanInv, Placed
      <4> QED
        BY <1>1, <2>5, <4>1, ZenonT(60), ZenonT(90) DEF Made, Called, IfName
    <3>3. ASSUME kind' = "setup", NEW j \in DOMAIN did' PROVE Made(Conf[did[j]].ifname)'
      <4>1. PICK m : m = did'[j] /\ Made(Conf[m].ifname)
        BY <1>1, <2>11, <3>3, ZenonT(60), ZenonT(90)
      <4>2. Made(Conf[m].ifname)'
        BY <1>1, <4>1, ZenonT(60), ZenonT(90) DEF Made, Called
      <4> QED
        BY <4>1, <4>2, Zenon, ZenonT(60) DEF Made, Called
    <3> QED
      BY <2>5, <3>1, <3>2, <3>3, Zenon, ZenonT(60) DEF Placed, Having
  <2>13. Rolling'
    <3>1. \A i, j \in DOMAIN did' : did'[i] = did'[j] => i = j
      BY <2>2, <2>3, Zenon, ZenonT(60)
    <3>2. \A j \in DOMAIN did' : did'[j] \notin todo' \cup rolled' /\ did'[j] # net'
      BY <1>1, <2>1, <2>5, <2>11, ZenonT(60), ZenonT(90)
    <3>3. ASSUME NEW j \in DOMAIN did' PROVE Complete(did[j])'
      <4>1. PICK m : m = did'[j] /\ Complete(m)
        BY <2>11, Zenon, ZenonT(60)
      <4>2. Complete(m)'
        BY <1>1, <4>1, ZenonT(60), ZenonT(90) DEF Complete, Called
      <4> QED
        BY <4>1, <4>2, Zenon, ZenonT(60) DEF Complete, Called
    <3>4. pc' \notin Making \cup Having /\ pc' # "next" /\ pc' # "configured" /\ pc' \notin Forward
      BY <2>5 DEF Making, Having, Forward
    <3>5. \A m \in rolled : Undone(m)'
      <4>1. \A m \in rolled : Undone(m)
        BY <1>1, ZenonT(60), ZenonT(90) DEF VlanInv, Rolling
      <4> QED
        BY <1>1, <4>1, UndoneKept, ZenonT(60), ZenonT(90)
    <3>6. Complete(net)'
      <4>1. Complete(n)' /\ net' = n
        BY <1>1, <2>4, <2>5, Zenon, ZenonT(60) DEF Complete, Called
      <4> QED
        BY <4>1, Zenon, ZenonT(60) DEF Complete, Called
    <3>7. Good'
      BY <2>7, Zenon, ZenonT(60) DEF Good
    <3>8. \A m \in rolled' :
            \/ Undone(m)'
            \/ /\ m = net'
               /\ \/ pc' = "get_mac" /\ Complete(net)' /\ Ipam(net').dhcp /\ Good'
                  \/ pc' = "release" /\ dev' \in leases'
                  \/ pc' = "del_link" /\ call' = NoCall
      BY <2>1, <2>5, <2>7, <3>5, <3>6, <3>7, ZenonT(60), ZenonT(90)
    <3> QED
      BY <3>1, <3>2, <3>3, <3>4, <3>8, ZenonT(60), ZenonT(90) DEF Rolling
  <2> QED
    BY <2>8, <2>9, <2>10, <2>12, <2>13, ZenonT(60), ZenonT(90) DEF VlanInv
<1> QED
  BY <1>2, <1>3

\* A command begins.
LEMMA BeginStep ==
    ASSUME VlanInv, NEW k, NEW req \in Requests, Begin(k, req)
    PROVE  VlanInv'
<1>1. /\ pc = "idle" /\ cmd' = cmd + 1 /\ kind' = k /\ sock' = [s \in Sockets |-> NewSocket]
      /\ did' = <<>> /\ rolled' = {} /\ unread' = {}
      /\ UNCHANGED <<links, next, leases, call, net>>
  BY ZenonT(60), ZenonT(90) DEF Begin, kernelVars
<1>2. pc' \in {"lo", "networks", "idle"} /\ (pc' = "networks" => kind' # "setup") /\ todo' \in {req, {}}
  BY <1>1 DEF Begin, Goto
<1>3. req \subseteq Networks /\ Networks # {}
  BY VlanAssumption
<1>4. call = NoCall /\ call' = NoCall
  <2>1. pc \notin HostPlaces \cup NetnsPlaces
    BY <1>1 DEF HostPlaces, NetnsPlaces
  <2> QED
    BY <1>1, <2>1, NoRequest, ZenonT(60), ZenonT(90)
<1>5. NewSocket \in Socket /\ Sound(NewSocket) /\ NewSocket.queue = <<>>
  BY DEF NewSocket, Socket, Sound
<1>6. TypeInv'
  <2>1. sock' \in [Sockets -> Socket] /\ \A s \in Sockets : Sound(sock'[s])
    BY <1>1, <1>5, Zenon, ZenonT(60)
  <2>2. call' = [sock |-> call'.sock, flags |-> call'.flags, want |-> call'.want, acc |-> call'.acc]
    BY <1>1, ZenonT(60), ZenonT(90) DEF VlanInv, TypeInv
  <2>3. cmd' \in Nat /\ did' \in Seq(Networks)
    BY <1>1 DEF VlanInv, TypeInv
  <2>4. todo' \subseteq Networks
    BY <1>2, <1>3
  <2> QED
    BY <1>1, <1>3, <2>1, <2>2, <2>3, <2>4, ZenonT(60), ZenonT(90) DEF VlanInv, TypeInv
<1>7. LinksInv'
  <2>1. \A d \in DOMAIN links' : d \in Nat /\ d < next' /\ Record(links'[d]) /\ links'[d].by \in 0 .. cmd'
    <3> TAKE d \in DOMAIN links'
    <3>1. d \in Nat /\ d < next /\ Record(links[d]) /\ links[d].by \in 0 .. cmd /\ cmd \in Nat
      BY <1>1, ZenonT(60), ZenonT(90) DEF VlanInv, LinksInv, TypeInv
    <3>2. links[d].by \in 0 .. (cmd + 1)
      BY <3>1
    <3> QED
      BY <1>1, <3>1, <3>2, ZenonT(60), ZenonT(90)
  <2>2. \A d, e \in DOMAIN links' : links'[d].name = links'[e].name => d = e
    BY <1>1, ZenonT(60), ZenonT(90) DEF VlanInv, LinksInv
  <2>3. \A d \in leases' : d \in DOMAIN links' /\ \E n \in Networks : Ipam(n).dhcp /\ links'[d].name = Conf[n].ifname
    BY <1>1 DEF VlanInv, LinksInv
  <2>4. next' \in Nat /\ links' = [d \in DOMAIN links' |-> links'[d]]
    BY <1>1, ZenonT(60), ZenonT(90) DEF VlanInv, LinksInv
  <2> QED
    BY <2>1, <2>2, <2>3, <2>4, ZenonT(60), ZenonT(90) DEF LinksInv, Record
<1>8. Answered' /\ Clean'
  BY <1>1, <1>4, <1>5, Zenon, ZenonT(60) DEF Answered, Clean
<1>9. DOMAIN did' = {}
  BY <1>1
<1>10. Placed'
  BY <1>2, <1>9, Zenon, ZenonT(60) DEF Placed, Having, Undoing
<1>11. Temporary'
  <2>1. ASSUME NEW d \in DOMAIN links' PROVE links'[d].by # cmd'
    <3>1. links[d].by \in 0 .. cmd /\ cmd \in Nat
      BY <1>1, ZenonT(60), ZenonT(90) DEF VlanInv, LinksInv, TypeInv
    <3>2. links[d].by # cmd + 1
      BY <3>1
    <3> QED
      BY <1>1, <3>2, Zenon, ZenonT(60)
  <2> QED
    BY <2>1, Zenon, ZenonT(60) DEF Temporary
<1>12. Rolling'
  BY <1>1, <1>2, <1>9, Zenon, ZenonT(60) DEF Rolling, Making, Having, Undoing
<1> QED
  BY <1>6, <1>7, <1>8, <1>10, <1>11, <1>12, ZenonT(60), ZenonT(90) DEF VlanInv

\* The first state.
LEMMA VlanInit ==
    ASSUME Named, Init
    PROVE  VlanInv
<1> DEFINE Old(x) == x = "lo" \/ \E n \in Networks : x = Conf[n].ifname
<1>1. NewSocket \in Socket /\ Sound(NewSocket) /\ NewSocket.queue = <<>>
  BY DEF NewSocket, Socket, Sound
<1>2. /\ pc = "idle" /\ cmd = 0 /\ call = NoCall /\ sock = [s \in Sockets |-> NewSocket] /\ next = 3
      /\ todo = {} /\ did = <<>> /\ rolled = {} /\ leases = {} /\ unread = {}
      /\ net = CHOOSE n \in Networks : TRUE
  BY Zenon, ZenonT(60) DEF Init, AnyNet
<1>3. TypeInv
  <2>1. sock \in [Sockets -> Socket] /\ \A s \in Sockets : Sound(sock[s])
    BY <1>1, <1>2, ZenonT(60), ZenonT(90)
  <2>2. call = [sock |-> call.sock, flags |-> call.flags, want |-> call.want, acc |-> call.acc]
    BY <1>2 DEF NoCall
  <2>3. cmd \in Nat /\ did \in Seq(Networks) /\ todo \subseteq Networks
    BY <1>2
  <2>4. Networks # {} => net \in Networks
    BY <1>2, Zenon, ZenonT(60)
  <2> QED
    BY <1>2, <2>1, <2>2, <2>3, <2>4, ZenonT(60), ZenonT(90) DEF TypeInv
<1>4. /\ DOMAIN links \subseteq {1, 2} /\ links = [d \in DOMAIN links |-> links[d]]
      /\ \A d \in DOMAIN links : Record(links[d]) /\ links[d].by = 0 /\ Old(links[d].name)
      /\ \A d, e \in DOMAIN links : links[d].name = links[e].name => d = e
  <2> DEFINE old(x) == [name |-> x, parent |-> 0, addrs |-> {}, up |-> FALSE, autoconf |-> TRUE, by |-> 0]
  <2>1. links = <<old("lo")>> \/ \E n \in Taken : links = <<old("lo"), old(Conf[n].ifname)>>
    BY Zenon, ZenonT(60) DEF Init, Namespaces
  <2>2. \A x : Record(old(x)) /\ old(x).by = 0 /\ old(x).name = x
    BY ZenonT(60), ZenonT(90) DEF Record
  <2> HIDE DEF old
  <2>3. CASE links = <<old("lo")>>
    <3>1. DOMAIN links = {1} /\ links[1] = old("lo") /\ links = [d \in DOMAIN links |-> links[d]]
      BY <2>3
    <3> QED
      BY <2>2, <3>1
  <2>4. ASSUME NEW n \in Taken, links = <<old("lo"), old(Conf[n].ifname)>>
        PROVE  /\ DOMAIN links \subseteq {1, 2} /\ links = [d \in DOMAIN links |-> links[d]]
               /\ \A d \in DOMAIN links : Record(links[d]) /\ links[d].by = 0 /\ Old(links[d].name)
               /\ \A d, e \in DOMAIN links : links[d].name = links[e].name => d = e
    <3>1. /\ DOMAIN links = {1, 2} /\ links[1] = old("lo") /\ links[2] = old(Conf[n].ifname)
          /\ links = [d \in DOMAIN links |-> links[d]]
      BY <2>4
    <3>2. Conf[n].ifname # "lo" /\ n \in Networks
      BY VlanAssumption DEF Named
    <3> QED
      BY <2>2, <3>1, <3>2
  <2> QED
    BY <2>1, <2>3, <2>4, Zenon, ZenonT(60)
<1>5. LinksInv
  <2>1. next = 3 /\ leases = {} /\ cmd = 0
    BY <1>2, Zenon, ZenonT(60)
  <2>2. \A d \in DOMAIN links : d \in Nat /\ d < next /\ Record(links[d]) /\ links[d].by \in 0 .. cmd
    BY <1>4, <2>1
  <2>3. next \in Nat
    BY <2>1
  <2> QED
    BY <1>4, <2>1, <2>2, <2>3, ZenonT(60), ZenonT(90) DEF LinksInv
<1>6. Answered /\ Clean
  <2>1. pc \notin Forward
    BY <1>2 DEF Forward, Making, Having
  <2> QED
    BY <1>1, <1>2, <2>1, ZenonT(60), ZenonT(90) DEF Answered, Clean
<1>7. DOMAIN did = {}
  BY <1>2
<1>8. Placed
  BY <1>2, <1>7, Zenon, ZenonT(60) DEF Placed, Having, Undoing
<1>9. Temporary
  <2>1. \A d \in DOMAIN links : links[d].name \notin TmpNames
    BY <1>4, VlanAssumption
  <2> QED
    BY <2>1, Zenon, ZenonT(60) DEF Temporary
<1>10. Rolling
  BY <1>2, <1>7, Zenon, ZenonT(60) DEF Rolling, Making, Having, Undoing
<1> QED
  BY <1>3, <1>5, <1>6, <1>8, <1>9, <1>10, ZenonT(60), ZenonT(90) DEF VlanInv

-----------------------------------------------------------------------------
\* Every step keeps the invariant.
LEMMA VlanNext ==
    ASSUME Named, VlanInv, [Next]_vars
    PROVE  VlanInv'
<1>1. CASE UNCHANGED vars
  <2>1. UNCHANGED <<links, next, leases, sock, call, ns, cmd, kind, todo, did, rolled, net, name, dev, pc, hitAt, unread>>
    BY <1>1, Zenon, ZenonT(60) DEF vars, kernelVars, loopVars, localVars
  <2>2. TypeInv'
    BY <2>1, Zenon, ZenonT(60) DEF VlanInv, TypeInv, Sound
  <2>3. LinksInv'
    BY <2>1, Unmoved, LinksKept, ZenonT(60), ZenonT(90) DEF VlanInv
  <2>4. ASSUME NEW m, Tells(m) PROVE Tells(m)'
    <3>1. \A x : Called(x)' = Called(x)
      BY <2>1, Zenon, ZenonT(60) DEF Called
    <3>2. IfName' = IfName
      BY <2>1, Zenon, ZenonT(60) DEF IfName
    <3>3. \A x : Made(x) => Made(x)'
      BY <2>1, <3>1, ZenonT(60), ZenonT(90) DEF Made
    <3> QED
      BY <2>1, <2>4, <3>1, <3>2, <3>3, ZenonT(60), ZenonT(90) DEF Tells
  <2>5. Answered'
    <3> SUFFICES ASSUME call # NoCall
                 PROVE  Answered'
      BY <2>1, Zenon, ZenonT(60) DEF Answered
    <3>1. ASSUME NEW k \in DOMAIN sock[call.sock].queue, sock[call.sock].queue[k][1].seq = sock[call.sock].seq
          PROVE  Tells(sock[call.sock].queue[k][1].msg)'
      <4>1. PICK m : m = sock[call.sock].queue[k][1].msg
        OBVIOUS
      <4>2. Tells(m)'
        BY <2>4, <3>1, <4>1, ZenonT(60), ZenonT(90) DEF VlanInv, Answered
      <4> QED
        BY <2>1, <4>1, <4>2, ZenonT(60), ZenonT(90) DEF Tells
    <3> QED
      BY <2>1, <3>1, ZenonT(60), ZenonT(90) DEF VlanInv, Answered
  <2>6. Clean'
    BY <2>1, ZenonT(60), ZenonT(90) DEF VlanInv, Clean, Current
  <2>7. Placed'
    BY <2>1, ZenonT(60), ZenonT(90) DEF VlanInv, Placed, Made, Called, IfName
  <2>8. Good' <=> Good
    BY <2>1, Zenon, ZenonT(60) DEF Good
  <2>9. Temporary'
    BY <2>1, <2>8, ZenonT(60), ZenonT(90) DEF VlanInv, Temporary
  <2>10. Rolling'
    <3>1. \A x : Called(x)' = Called(x)
      BY <2>1, Zenon, ZenonT(60) DEF Called
    <3>2. \A n : (Complete(n) => Complete(n)') /\ (Undone(n) => Undone(n)')
      BY <2>1, <3>1, Zenon, ZenonT(60) DEF Complete, Undone
    <3>3. Complete(net) => Complete(net)'
      BY <2>1, <3>1, Zenon, ZenonT(60) DEF Complete
    <3>4. ASSUME NEW j \in DOMAIN did, Complete(did[j]) PROVE Complete(did[j])'
      BY <2>1, <3>1, <3>4, ZenonT(60), ZenonT(90) DEF Complete
    <3> QED
      BY <2>1, <2>8, <3>2, <3>3, <3>4, ZenonT(60), ZenonT(90) DEF VlanInv, Rolling
  <2> QED
    BY <2>2, <2>3, <2>5, <2>6, <2>7, <2>9, <2>10, ZenonT(60), ZenonT(90) DEF VlanInv
<1>2. CASE \E k \in {"setup", "teardown"}, req \in Requests : Begin(k, req)
  BY <1>2, BeginStep, Zenon, ZenonT(60)
<1>3. CASE Requesting
  BY <1>3, ChangeLinkStep, DumpRoutesStep, GetHostLinkStep, GetContainerLinkStep, CreateLinkStep, SetLinkNameStep,
     AddRouteStep, DelTmpStep, DelByNameStep, RefuseStep, ZenonT(60), ZenonT(90) DEF Requesting
<1>4. CASE Recv \/ RecvFails
  BY <1>4, RecvStep, RecvFailsStep, ZenonT(60), ZenonT(90)
<1>5. CASE Validate \/ NextNetwork \/ Rollback \/ TeardownNetworks
  BY <1>5, ValidateStep, NextNetworkStep, RollbackStep, TeardownNetworksStep, ZenonT(60), ZenonT(90)
<1>6. CASE JoinNetns \/ DisableIpv6Autoconf \/ JoinBack \/ GetDhcpLease \/ Configured \/ ReleaseDhcpLease
  BY <1>6, JoinStep, DisableIpv6AutoconfStep, GetDhcpLeaseStep, ConfiguredStep, ReleaseDhcpLeaseStep, ZenonT(60), ZenonT(90)
<1> QED
  BY <1>1, <1>2, <1>3, <1>4, <1>5, <1>6, ZenonT(60), ZenonT(90) DEF Next, Step

\* The invariant of the driver, its sockets and the namespace it works on.
THEOREM VlanKept ==
    ASSUME Named
    PROVE  Spec => []VlanInv
<1>1. Init => VlanInv
  BY VlanInit
<1>2. VlanInv /\ [Next]_vars => VlanInv'
  BY VlanNext
<1> QED
  BY <1>1, <1>2, PTL DEF Spec

\* release_dhcp_lease: a lease never outlives its link, whatever fails and whatever
\* a failed receive left on the socket that teardown reads the link from.
THEOREM LeasesHaveLinks ==
    ASSUME Named
    PROVE  Spec => []LeaseHasLink
<1>1. VlanInv => LeaseHasLink
  BY DEF VlanInv, LinksInv, LeaseHasLink
<1> QED
  BY <1>1, VlanKept, PTL

\* create_link and its way round a name that is taken on the host: no temporary link
\* is left unless making it, looking it up or deleting it failed.
THEOREM TmpLinksGo ==
    ASSUME Named
    PROVE  Spec => []NoTmpLeft
<1>1. VlanInv => NoTmpLeft
  BY DEF VlanInv, Temporary, NoTmpLeft
<1> QED
  BY <1>1, VlanKept, PTL

\* The networks a setup has made are set up or rolled back; one that returns an
\* error has none left that is only set up.
MadeInv ==
    /\ \A n \in made : n \in rolled \/ \E j \in DOMAIN did : did[j] = n
    /\ pc \in {"lo", "validate"} => did = <<>>
    /\ pc = "idle" /\ status = "failed" => did = <<>>

\* A step within a network, or between places of a network's setup.
LEMMA MadeWithin ==
    ASSUME MadeInv, UNCHANGED <<made, did, rolled, status>>,
           pc' = pc \/ (pc' # "idle" /\ pc' # "lo" /\ (pc' = "validate" => pc = "lo"))
    PROVE  MadeInv'
BY Zenon, ZenonT(60) DEF MadeInv

\* Where the driver goes with the result of a request.
LEMMA HandleGoes ==
    ASSUME NEW o, Handle(o)
    PROVE  pc' # "idle" /\ pc' # "lo" /\ (pc' = "validate" => pc = "lo")
<1>1. CASE SetupHandles(o)
  BY <1>1 DEF SetupHandles, Then, ThenLink, ThenLoop, AfterDump, AfterCreate, AfterRename, LastPlace, SetupFails, Goto
<1>2. CASE TeardownHandles(o)
  BY <1>2 DEF TeardownHandles, TeardownFails, TornDown, Goto
<1> QED
  BY <1>1, <1>2, Zenon, ZenonT(60) DEF Handle

\* The rollback moves one network from those that are set up to those rolled back.
LEMMA MadeRollback ==
    ASSUME VlanInv, MadeInv, Rollback
    PROVE  MadeInv'
<1>1. pc = "rollback" /\ UNCHANGED made
  BY Zenon, ZenonT(60) DEF Rollback
<1>2. CASE did = <<>>
  <2>1. UNCHANGED <<did, rolled>>
    BY <1>2, Zenon, ZenonT(60) DEF Rollback
  <2> QED
    BY <1>1, <1>2, <2>1, Zenon, ZenonT(60) DEF MadeInv
<1>3. CASE did # <<>>
  <2>1. did' = Tail(did) /\ rolled' = rolled \cup {Head(did)} /\ EnterTeardown(Head(did))
    BY <1>3, Zenon, ZenonT(60) DEF Rollback
  <2>2. did \in Seq(Networks)
    BY Zenon, ZenonT(60) DEF VlanInv, TypeInv
  <2>3. \A j \in DOMAIN did : did[j] = Head(did) \/ (j - 1 \in DOMAIN did' /\ did'[j - 1] = did[j])
    BY <1>3, <2>1, <2>2
  <2>4. \A n \in made' : n \in rolled' \/ \E j \in DOMAIN did' : did'[j] = n
    <3> SUFFICES ASSUME NEW n \in made, n \notin rolled, n # Head(did)
                 PROVE  \E j \in DOMAIN did' : did'[j] = n
      BY <1>1, <2>1, Zenon, ZenonT(60)
    <3>1. PICK j \in DOMAIN did : did[j] = n
      BY Zenon, ZenonT(60) DEF MadeInv
    <3>2. j - 1 \in DOMAIN did' /\ did'[j - 1] = n
      BY <2>3, <3>1, Zenon, ZenonT(60)
    <3> QED
      BY <3>2, Zenon, ZenonT(60)
  <2>5. pc' \notin {"lo", "validate"} /\ ~(pc' = "idle" /\ status' = "failed")
    BY <1>1, <2>1 DEF EnterTeardown, Return, Goto
  <2> QED
    BY <2>4, <2>5, Zenon, ZenonT(60) DEF MadeInv
<1> QED
  BY <1>2, <1>3, Zenon, ZenonT(60)

\* Every step keeps the networks a setup has made among those it will roll back.
LEMMA MadeStep ==
    ASSUME VlanInv, MadeInv, [Next]_vars
    PROVE  MadeInv'
<1>1. CASE UNCHANGED vars
  BY <1>1, MadeWithin, Zenon, ZenonT(60) DEF vars, loopVars
<1>2. CASE \E k \in {"setup", "teardown"}, req \in Requests : Begin(k, req)
  <2>1. did' = <<>> /\ made' = {}
    BY <1>2, Zenon, ZenonT(60) DEF Begin
  <2> QED
    BY <2>1, Zenon, ZenonT(60) DEF MadeInv
<1>3. CASE Requesting
  <2>1. UNCHANGED <<loopVars, pc>>
    BY <1>3, ZenonT(60), ZenonT(90) DEF Requesting, SetUpLo, DumpRoutes, GetHostLink, GetContainerLink, CreateLink, SetLinkName,
       AddAddr, SetUp, AddRoute, DelTmp, DelByName, Refuse, OnLink, DelLink, Asking
  <2> QED
    BY <2>1, MadeWithin, Zenon, ZenonT(60) DEF loopVars
<1>4. CASE Recv \/ RecvFails
  <2>1. UNCHANGED loopVars /\ (pc' = pc \/ \E o : Handle(o))
    BY <1>4, ZenonT(60), ZenonT(90) DEF Recv, RecvFails
  <2> QED
    BY <2>1, HandleGoes, MadeWithin, Zenon, ZenonT(60) DEF loopVars
<1>5. CASE JoinNetns \/ DisableIpv6Autoconf \/ JoinBack \/ ReleaseDhcpLease
  <2>1. UNCHANGED loopVars
    BY <1>5, Zenon, ZenonT(60) DEF JoinNetns, DisableIpv6Autoconf, JoinBack, ReleaseDhcpLease
  <2>2. pc' # "idle" /\ pc' # "lo" /\ pc' # "validate"
    BY <1>5 DEF JoinNetns, DisableIpv6Autoconf, JoinBack, ReleaseDhcpLease, TeardownFails, TornDown, SetupFails, Goto
  <2> QED
    BY <2>1, <2>2, MadeWithin, Zenon, ZenonT(60) DEF loopVars
<1>6. ASSUME UNCHANGED <<made, did, rolled>>, pc' \notin {"lo", "validate"},
             pc' = "idle" /\ status' = "failed" => pc = "validate"
      PROVE  MadeInv'
  BY <1>6, Zenon, ZenonT(60) DEF MadeInv
<1>7. CASE Validate \/ NextNetwork \/ TeardownNetworks \/ GetDhcpLease
  <2>1. UNCHANGED <<made, did, rolled>>
    BY <1>7, Zenon, ZenonT(60) DEF Validate, NextNetwork, TeardownNetworks, GetDhcpLease
  <2>2. CASE Validate
    <3>1. pc = "validate" /\ pc' \in {"next", "idle"}
      BY <2>2, Zenon, ZenonT(60) DEF Validate, Return, Goto
    <3>2. pc' \notin {"lo", "validate"}
      BY <3>1
    <3> QED
      BY <1>6, <2>1, <3>1, <3>2, Zenon, ZenonT(60)
  <2>3. CASE NextNetwork
    <3>1. pc' \in {"dump_routes", "get_primary"} \/ (pc' = "idle" /\ status' = "up")
      BY <2>3, Zenon, ZenonT(60) DEF NextNetwork, Return, Goto
    <3>2. pc' \notin {"lo", "validate"} /\ ~(pc' = "idle" /\ status' = "failed")
      BY <3>1
    <3> QED
      BY <1>6, <2>1, <3>2, Zenon, ZenonT(60)
  <2>4. CASE TeardownNetworks
    <3>1. \/ pc' \in {"get_mac", "del_link", "networks"}
          \/ pc' = "idle" /\ status' \in {"teardown_failed", "down", "panicked"}
      BY <2>4, Zenon, ZenonT(60) DEF TeardownNetworks, EnterTeardown, Return, Goto
    <3>2. pc' \notin {"lo", "validate"} /\ ~(pc' = "idle" /\ status' = "failed")
      BY <3>1
    <3> QED
      BY <1>6, <2>1, <3>2, Zenon, ZenonT(60)
  <2>5. CASE GetDhcpLease
    <3>1. pc' \in {"configured", "rollback"} \/ (pc' = "idle" /\ status' = "panicked")
      BY <2>5, Zenon, ZenonT(60) DEF GetDhcpLease, SetupFails, Return, Goto
    <3>2. pc' \notin {"lo", "validate"} /\ ~(pc' = "idle" /\ status' = "failed")
      BY <3>1
    <3> QED
      BY <1>6, <2>1, <3>2, Zenon, ZenonT(60)
  <2> QED
    BY <1>7, <2>2, <2>3, <2>4, <2>5, Zenon, ZenonT(60)
<1>8. CASE Configured
  <2>1. pc' = "next" /\ did' = Append(did, net) /\ made' = made \cup {net} /\ UNCHANGED rolled
    BY <1>8, Zenon, ZenonT(60) DEF Configured, Goto
  <2>2. did \in Seq(Networks)
    BY Zenon, ZenonT(60) DEF VlanInv, TypeInv
  <2>3. /\ \A j \in DOMAIN did : j \in DOMAIN did' /\ did'[j] = did[j]
        /\ Len(did) + 1 \in DOMAIN did' /\ did'[Len(did) + 1] = net
    BY <2>1, <2>2
  <2>4. \A n \in made' : n \in rolled' \/ \E j \in DOMAIN did' : did'[j] = n
    BY <2>1, <2>3, ZenonT(60), ZenonT(90) DEF MadeInv
  <2>5. pc' \notin {"lo", "validate", "idle"}
    BY <2>1
  <2> QED
    BY <2>4, <2>5, Zenon, ZenonT(60) DEF MadeInv
<1> QED
  BY <1>1, <1>2, <1>3, <1>4, <1>5, <1>7, <1>8, MadeRollback, Zenon, ZenonT(60) DEF Next, Step

\* A setup that returns an error has torn down every network it had set up, over
\* the sockets the failure happened on, but for a lease when an answer is unread
\* there: the rollback loop of setup.rs and Vlan::teardown.
THEOREM SetupIsRolledBack ==
    ASSUME Named
    PROVE  Spec => []RolledBack
<1>1. Init => MadeInv
  BY Zenon, ZenonT(60) DEF Init, MadeInv
<1>2. VlanInv /\ MadeInv /\ [Next]_vars => MadeInv'
  BY MadeStep, Zenon, ZenonT(60)
<1>3. VlanInv /\ MadeInv => RolledBack
  <2> SUFFICES ASSUME VlanInv, MadeInv, pc = "idle", status = "failed", NEW n \in made
               PROVE  /\ n \in rolled
                      /\ hitAt \cap {"get_mac", "release", "del_link"} = {} =>
                           \/ Ipam(n).dhcp /\ "netns" \in unread
                           \/ \A d \in Called(Conf[n].ifname) : links[d].by # cmd
    BY Zenon, ZenonT(60) DEF RolledBack
  <2>1. did = <<>>
    BY Zenon, ZenonT(60) DEF MadeInv
  <2>2. DOMAIN did = {}
    BY <2>1
  <2>3. n \in rolled
    BY <2>2, Zenon, ZenonT(60) DEF MadeInv
  <2>4. Undone(n)
    BY <2>3, Zenon, ZenonT(60) DEF VlanInv, Rolling
  <2> QED
    BY <2>3, <2>4, Zenon, ZenonT(60) DEF Undone, Undoing
<1> QED
  BY <1>1, <1>2, <1>3, VlanKept, PTL DEF Spec

\* Every step of a setup leaves the host's interfaces and the links that are not its own.
LEMMA OthersStep ==
    ASSUME VlanInv, [Next]_vars, kind = "setup", pc # "idle"
    PROVE  /\ hostset' = hostset
           /\ \A d \in DOMAIN links \ {1} : links[d].by # cmd => d \in DOMAIN links' /\ links'[d] = links[d]
<1>1. CASE UNCHANGED <<links, hostset>>
  BY <1>1, ZenonT(60), ZenonT(90)
<1>2. CASE CreateLink
  <2>1. hostset' = hostset
    BY <1>2, Zenon, ZenonT(60) DEF CreateLink, Asking
  <2>2. PICK new : links' \in {links, [d \in DOMAIN links \cup {next} |-> IF d = next THEN new ELSE links[d]]}
    BY <1>2, Zenon, ZenonT(60) DEF CreateLink
  <2>3. next \notin DOMAIN links
    <3>1. next \in Nat /\ \A d \in DOMAIN links : d \in Nat /\ d < next
      BY ZenonT(60), ZenonT(90) DEF VlanInv, LinksInv
    <3> QED
      BY <3>1
  <2> QED
    BY <2>1, <2>2, <2>3
<1>3. ASSUME NEW at, NEW flags, NEW d, NEW code, NEW new, OnLink(at, flags, d, code, new),
             d = 1 \/ (d \in DOMAIN links => links[d].by = cmd)
      PROVE  /\ hostset' = hostset
             /\ \A e \in DOMAIN links \ {1} : links[e].by # cmd => e \in DOMAIN links' /\ links'[e] = links[e]
  <2>1. hostset' = hostset /\ links' \in {links, [links EXCEPT ![d] = new]}
    BY <1>3, Zenon, ZenonT(60) DEF OnLink, Asking
  <2> QED
    BY <1>3, <2>1
<1>4. CASE SetUpLo
  BY <1>3, <1>4, Zenon, ZenonT(60) DEF SetUpLo
<1>5. CASE SetLinkName
  <2>1. dev \in DOMAIN links => links[dev].by = cmd
    BY <1>5, ZenonT(60), ZenonT(90) DEF VlanInv, Placed, SetLinkName, OnLink, AtPlace
  <2> QED
    BY <1>3, <1>5, <2>1, ZenonT(60), ZenonT(90) DEF SetLinkName
<1>6. CASE AddAddr \/ SetUp
  <2>1. pc \in {"addr", "up"}
    BY <1>6 DEF AddAddr, SetUp, OnLink, AtPlace
  <2>2. dev \in Called(IfName) /\ Made(IfName)
    BY <2>1, ZenonT(60), ZenonT(90) DEF VlanInv, Placed, Having
  <2>3. links[dev].by = cmd
    BY <2>2, ZenonT(60), ZenonT(90) DEF Made
  <2> QED
    BY <1>3, <1>6, <2>3, ZenonT(60), ZenonT(90) DEF AddAddr, SetUp
<1>7. ASSUME NEW found, DelLink(found), \A d \in found : links[d].by = cmd
      PROVE  /\ hostset' = hostset
             /\ \A d \in DOMAIN links \ {1} : links[d].by # cmd => d \in DOMAIN links' /\ links'[d] = links[d]
  <2>1. hostset' = hostset /\ links' = [d \in DOMAIN links \ found |-> links[d]]
    BY <1>7, Zenon, ZenonT(60) DEF DelLink, Asking
  <2> QED
    BY <1>7, <2>1
<1>8. CASE DelTmp
  <2>1. \A d \in {dev} \cap DOMAIN links : links[d].by = cmd
    BY <1>8, ZenonT(60), ZenonT(90) DEF VlanInv, Placed, DelTmp, AtPlace
  <2> QED
    BY <1>7, <1>8, <2>1, ZenonT(60), ZenonT(90) DEF DelTmp
<1>9. CASE DelByName
  <2>1. pc \in Undoing
    BY <1>9 DEF DelByName, AtPlace, Undoing
  <2>2. \A d \in Called(IfName) : links[d].by = cmd
    BY <2>1, ZenonT(60), ZenonT(90) DEF VlanInv, Placed, Made
  <2> QED
    BY <1>7, <1>9, <2>2, ZenonT(60), ZenonT(90) DEF DelByName
<1>10. CASE DisableIpv6Autoconf
  <2>1. ns = "netns" /\ Made(IfName)
    BY <1>10 DEF VlanInv, Placed, Having, DisableIpv6Autoconf
  <2>2. hostset' = hostset
    BY <1>10, <2>1 DEF DisableIpv6Autoconf
  <2>3. \/ links' = links
        \/ links' = [d \in DOMAIN links |-> IF d \in Called(IfName) THEN [links[d] EXCEPT !.autoconf = FALSE] ELSE links[d]]
    BY <1>10, <2>1 DEF DisableIpv6Autoconf
  <2>4. \A d \in DOMAIN links : links[d].by # cmd => d \notin Called(IfName)
    BY <2>1, Zenon, ZenonT(60) DEF Made
  <2> QED
    BY <2>2, <2>3, <2>4
<1>11. CASE DumpRoutes \/ GetHostLink \/ GetContainerLink \/ AddRoute \/ Refuse
  <2>1. UNCHANGED <<links, hostset>>
    BY <1>11, Zenon, ZenonT(60) DEF DumpRoutes, GetHostLink, GetContainerLink, AddRoute, Refuse, Asking, kernelVars
  <2> QED
    BY <1>1, <2>1, Zenon, ZenonT(60)
<1>12. CASE Recv \/ RecvFails
  <2>1. UNCHANGED <<links, hostset>>
    BY <1>12, Zenon, ZenonT(60) DEF Recv, RecvFails, kernelVars
  <2> QED
    BY <1>1, <2>1, ZenonT(60), ZenonT(90)
<1>13. CASE Validate \/ NextNetwork \/ Rollback \/ TeardownNetworks
  <2>1. UNCHANGED <<links, hostset>>
    BY <1>13, Zenon, ZenonT(60) DEF Validate, NextNetwork, Rollback, TeardownNetworks, Still, kernelVars
  <2> QED
    BY <1>1, <2>1, Zenon, ZenonT(60)
<1>14. CASE JoinNetns \/ JoinBack \/ GetDhcpLease \/ Configured \/ ReleaseDhcpLease
  <2>1. UNCHANGED <<links, hostset>>
    BY <1>14, Zenon, ZenonT(60) DEF JoinNetns, JoinBack, GetDhcpLease, Configured, ReleaseDhcpLease, kernelVars
  <2> QED
    BY <1>1, <2>1, Zenon, ZenonT(60)
<1>15. CASE UNCHANGED vars
  <2>1. UNCHANGED <<links, hostset>>
    BY <1>15, Zenon, ZenonT(60) DEF vars, kernelVars
  <2> QED
    BY <1>1, <2>1, Zenon, ZenonT(60)
<1>16. ~ \E k \in {"setup", "teardown"}, req \in Requests : Begin(k, req)
  BY Zenon, ZenonT(60) DEF Begin
<1> QED
  BY <1>2, <1>4, <1>5, <1>6, <1>8, <1>9, <1>10, <1>11, <1>12, <1>13, <1>14, <1>15, <1>16, ZenonT(60), ZenonT(90) DEF Next, Step, Requesting

\* A setup and its rollback: rename, set_up, the sysctl of disable_ipv6_autoconf and
\* del_link by name only ever meet links the command made, and none of the host's.
THEOREM OthersAreUntouched ==
    ASSUME Named
    PROVE  Spec => OthersUntouched
<1>1. VlanInv /\ [Next]_vars =>
        [kind = "setup" /\ pc # "idle" =>
           /\ hostset' = hostset
           /\ \A d \in DOMAIN links \ {1} : links[d].by # cmd => d \in DOMAIN links' /\ links'[d] = links[d]]_vars
  BY OthersStep, Zenon, ZenonT(60)
<1> QED
  BY <1>1, VlanKept, PTL DEF Spec, OthersUntouched
=============================================================================
