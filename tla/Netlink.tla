------------------------------- MODULE Netlink -------------------------------
(***************************************************************************)
(* The route netlink socket of src/network/netlink.rs.  A request is sent  *)
(* under the next sequence number; the kernel executes it at once and      *)
(* queues datagrams, each a sequence of messages, that recv reads one at a *)
(* time until a message ends the answer.  What recv leaves unread stays in *)
(* the queue for the next request.  A process makes far fewer requests     *)
(* than the 2^32 sequence numbers.                                         *)
(***************************************************************************)
EXTENDS Naturals, Sequences, FiniteSetsExt

\* Socket::new
NewSocket == [seq |-> 0, queue |-> <<>>]

\* Messages: an inner message carries an index, an error with code "ok" is an ack.
Inner(d) == [type |-> "inner", code |-> "ok", data |-> d]
Error(c) == [type |-> "error", code |-> c, data |-> 0]
Done == [type |-> "done", code |-> "ok", data |-> 0]

\* Mutant: get_link asks for an acknowledgement as the others do.
GetFlagsAck == {"ACK"}

\* Flags of get_link, of the requests that change something, and of the dumps.
GetFlags == {}

\* Mutant: an acknowledgement is waited for and not asked for.
NewFlagsNoAck == {"EXCL", "CREATE"}

NewFlags == {"ACK", "EXCL", "CREATE"}
SetFlags == {"ACK"}
RouteFlags == {"ACK", "CREATE"}
DumpFlags == {"ACK", "DUMP"}

\* The datagrams the kernel answers a request with.
Answers(flags, code, data) ==
    LET inner == [j \in DOMAIN data |-> Inner(data[j])]
        some == IF data = <<>> THEN <<>> ELSE <<inner>>
    IN IF code # "ok" THEN << <<Error(code)>> >>
       ELSE IF "DUMP" \in flags THEN Append(some, <<Done>>)
       ELSE IF "ACK" \in flags THEN Append(some, <<Error("ok")>>)
       ELSE some

\* send: the answers carry the number of their request.
Sent(s, answers) ==
    LET n == s.seq + 1
        stamp(d) == [j \in DOMAIN d |-> [seq |-> n, msg |-> d[j]]]
    IN [seq |-> n, queue |-> s.queue \o [j \in DOMAIN answers |-> stamp(answers[j])]]

\* What a request came to: more to read, a result, or an error.
More(data) == [end |-> FALSE, code |-> "ok", data |-> data]
Ok(data) == [end |-> TRUE, code |-> "ok", data |-> data]
Err(code) == [end |-> TRUE, code |-> code, data |-> <<>>]

\* Mutant: the first datagram is taken for the answer, whatever its number.
ScanAnySeq(s, d, multi, acc) ==
    LET ends == {j \in DOMAIN d : d[j].msg.type # "inner" \/ ~multi}
        last == Min(ends)
        upto(k) == acc \o [j \in 1 .. k |-> d[j].msg.data]
    IN IF ends = {} THEN More(upto(Len(d)))
       ELSE IF d[last].msg.type = "inner" THEN Ok(upto(last))
       ELSE IF d[last].msg.code # "ok" THEN Err(d[last].msg.code)
       ELSE Ok(upto(last - 1))

\* The messages of datagram d up to the one that ends the answer, on socket s.
Scan(s, d, multi, acc) ==
    LET ends == {j \in DOMAIN d : d[j].seq # s.seq \/ d[j].msg.type # "inner" \/ ~multi}
        last == Min(ends)
        upto(k) == acc \o [j \in 1 .. k |-> d[j].msg.data]
    IN IF ends = {} THEN More(upto(Len(d)))
       ELSE IF d[last].seq # s.seq THEN Err("out_of_sync")
       ELSE IF d[last].msg.type = "inner" THEN Ok(upto(last))
       ELSE IF d[last].msg.code # "ok" THEN Err(d[last].msg.code)
       ELSE Ok(upto(last - 1))

\* expect_netlink_result: a caller says how many inner messages it wants, but for a dump.
Expect(o, flags, want) ==
    IF o.end /\ o.code = "ok" /\ "DUMP" \notin flags /\ Len(o.data) # want THEN Err("unexpected") ELSE o
=============================================================================
