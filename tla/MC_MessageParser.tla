-------------------------- MODULE MC_MessageParser --------------------------
(* Traffic on one connection for the runs of MessageParser.                 *)
EXTENDS MessageParser

P(side, seq, ack_, len, ts, title) ==
    [conn |-> "c1", side |-> side, seq |-> seq, ack |-> ack_, len |-> len, ts |-> ts,
     dir |-> IF side = "client" THEN "in" ELSE "out", title |-> title,
     hdr |-> 0, body |-> 0, chunked |-> FALSE, tail |-> FALSE, expect |-> FALSE]

W(msg, xch) == [msg |-> msg, xch |-> xch]

\* A request of two packets, the second captured twice (a retransmission), and
\* a chunked response of three; the request's direction must be guessed.
PlainPkt ==
    [q1  |-> [P("client", 1, 5, 3, 0, "req") EXCEPT !.hdr = 2, !.body = 2, !.dir = "unknown"],
     q2  |-> [P("client", 4, 5, 1, 0, "none") EXCEPT !.dir = "unknown"],
     q2b |-> [P("client", 4, 5, 1, 1, "none") EXCEPT !.dir = "unknown"],
     r1  |-> [P("server", 5, 5, 2, 1, "res") EXCEPT !.hdr = 2, !.chunked = TRUE],
     r2  |-> P("server", 7, 5, 2, 1, "none"),
     r3  |-> [P("server", 9, 5, 1, 2, "none") EXCEPT !.tail = TRUE]]
PlainWire ==
    [q1 |-> W("q", 1), q2 |-> W("q", 1), q2b |-> W("q", 1),
     r1 |-> W("r", 1), r2 |-> W("r", 1), r3 |-> W("r", 1)]

\* A request that waits for 100 Continue before its body of two packets, the
\* interim response, and the response proper ContinueLen later.
ExpectPkt ==
    [h  |-> [P("client", 1, 3, 2, 0, "req") EXCEPT !.hdr = 2, !.body = 2, !.expect = TRUE],
     i  |-> [P("server", 3, 3, 1, 0, "res") EXCEPT !.hdr = 1],
     b1 |-> P("client", 3, 4, 1, 1, "none"),
     b2 |-> P("client", 4, 4, 1, 2, "none"),
     r  |-> [P("server", 4, 5, 2, 3, "res") EXCEPT !.hdr = 2]]
ExpectWire ==
    [h |-> W("h", 1), i |-> W("i", 0), b1 |-> W("h", 1), b2 |-> W("h", 1), r |-> W("f", 1)]

\* The same with a body of one packet: captured before the header it is merged, and
\* the message leaves from inside of the merge.
ShortPkt ==
    [sh |-> [P("client", 1, 3, 2, 0, "req") EXCEPT !.hdr = 2, !.body = 1, !.expect = TRUE],
     si |-> [P("server", 3, 3, 1, 0, "res") EXCEPT !.hdr = 1],
     sb |-> P("client", 3, 4, 1, 1, "none"),
     sr |-> [P("server", 4, 4, 2, 2, "res") EXCEPT !.hdr = 2]]
ShortWire == [sh |-> W("sh", 1), si |-> W("si", 0), sb |-> W("sh", 1), sr |-> W("sf", 1)]

\* A binary protocol: nothing but Seq and Ack; one packet of a peer no port
\* matches.
BinaryPkt ==
    [p1 |-> P("client", 1, 5, 1, 0, "none"),
     p2 |-> P("client", 2, 5, 1, 0, "none"),
     p3 |-> P("client", 3, 5, 1, 1, "none"),
     u1 |-> [P("server", 5, 4, 1, 0, "none") EXCEPT !.dir = "unknown"],
     u2 |-> [P("server", 6, 4, 1, 1, "none") EXCEPT !.dir = "unknown"]]
BinaryWire == [p1 |-> W("p", 1), p2 |-> W("p", 1), p3 |-> W("p", 1),
               u1 |-> W("u", 1), u2 |-> W("u", 1)]

HttpPkt == PlainPkt @@ ExpectPkt @@ ShortPkt
HttpWire == PlainWire @@ ExpectWire @@ ShortWire

\* The parser sees one of the three; with allowIncompete the one without Expect.
HttpTraffic ==
    [b \in BOOLEAN |-> IF b THEN {DOMAIN PlainPkt}
                       ELSE {DOMAIN PlainPkt, DOMAIN ExpectPkt, DOMAIN ShortPkt}]
ExpectTraffic == [b \in BOOLEAN |-> IF b THEN {} ELSE {DOMAIN ExpectPkt}]
BinaryTraffic == [b \in BOOLEAN |-> IF b THEN {} ELSE {DOMAIN BinaryPkt}]

\* In order of time; in any order; or, of the longer body, its end and the responses
\* before what they follow.
None == {}
AllButLongBody == DOMAIN PlainPkt \cup DOMAIN ShortPkt \cup {"b2", "i", "r"}

HttpCaptures == DOMAIN HttpPkt
ExpectCaptures == DOMAIN ExpectPkt
BinaryCaptures == DOMAIN BinaryPkt
=============================================================================
