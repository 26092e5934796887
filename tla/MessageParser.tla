---------------------------- MODULE MessageParser ----------------------------
(***************************************************************************)
(* Reassembly of captured TCP packets into request and response messages:  *)
(* goreplay/core/tcp/tcp_message.go, with the HTTP/1 hints of              *)
(* core/capture/capture.go and proto/proto.go.                             *)
(*                                                                         *)
(* One goroutine (MessageParser.wait) owns the map m.  A handler of that   *)
(* goroutine is one action, except that its two loops (the merge loop of   *)
(* Fix100Continue and the sweep of timer) take one step per iteration;     *)
(* while a loop is running no other handler starts.  Messages are heap     *)
(* objects, because Fix100Continue can put one object under several keys.  *)
(***************************************************************************)
EXTENDS Integers, Sequences, FiniteSets, SequencesExt

CONSTANTS
    Captures,         \* packets the capture handle delivers, one name per capture
    Traffic,          \* for each value of allowIncompete, the sets of captures that a
                      \* parser with that option may get to see together
    Pkt,              \* the parsed fields of each capture
    Wire,             \* what really was sent: message and exchange of each capture
    HttpHints,        \* TRUE: Start and End are the HTTP hints, FALSE: both nil
    Ahead,            \* captures that may overtake earlier ones on their way to the parser
    Expire,           \* messageExpire, in clock units
    MaxNow,           \* bound on the clock
    MessagesCap,      \* capacity of the messages channel
    SeqSpace,         \* number of sequence numbers, 2^32 in the code
    ContinueLen       \* length of "HTTP/1.1 100 Continue\r\n\r\n", 25 in the code

NoHeader == "none parsed"

Recordings == Traffic[TRUE] \cup Traffic[FALSE]

PacketRecord == [conn : STRING, side : {"client", "server"},
                 seq : 0 .. SeqSpace - 1, ack : Nat, len : Nat, ts : Nat,
                 dir : {"in", "out", "unknown"}, title : {"req", "res", "none"},
                 hdr : Nat, body : Nat, chunked : BOOLEAN, tail : BOOLEAN,
                 expect : BOOLEAN]

ASSUME ParserAssumption ==
    /\ Pkt \in [Captures -> PacketRecord]
    /\ NoHeader \notin Captures
    /\ Traffic \in [BOOLEAN -> SUBSET SUBSET Captures]
    /\ Wire \in [Captures -> [msg : STRING, xch : Nat]]
    /\ HttpHints \in BOOLEAN /\ Ahead \subseteq Captures
    /\ Expire \in Nat /\ MaxNow \in Nat
    /\ MessagesCap \in Nat \ {0} /\ SeqSpace \in Nat \ {0} /\ ContinueLen \in Nat

-----------------------------------------------------------------------------
(* What the code takes for granted of HTTP traffic: the packets of every    *)
(* message as HTTP lays them out on the wire.                               *)

Flow(c) == <<Pkt[c].conn, Pkt[c].side>>
PeerFlow(c) == <<Pkt[c].conn, IF Pkt[c].side = "client" THEN "server" ELSE "client">>

Seq_(c) == Pkt[c].seq
NextSeq(c) == Seq_(c) + Pkt[c].len

SameMessage(c, d) == Wire[c].msg = Wire[d].msg

Content(c) == <<Pkt[c].len, Pkt[c].title, Pkt[c].hdr, Pkt[c].body, Pkt[c].chunked, Pkt[c].tail>>

\* c is the last packet of the message whose header first has: the length it
\* announces is reached, or the last chunk.
Ends(c, first) ==
    IF Pkt[first].chunked
    THEN Pkt[c].tail /\ NextSeq(c) > Seq_(first) + Pkt[first].hdr
    ELSE NextSeq(c) = Seq_(first) + Pkt[first].hdr + Pkt[first].body

\* The message that first opens: it alone has a title, each packet but the last is
\* followed by the one its length points to.
Opens(first) ==
    \A c \in Captures : SameMessage(first, c) =>
        /\ Seq_(first) <= Seq_(c)
        /\ Pkt[c].title # "none" <=> Seq_(c) = Seq_(first)
        /\ IF Ends(c, first)
           THEN \A d \in Captures : SameMessage(c, d) => Seq_(d) <= Seq_(c)
           ELSE \E d \in Captures : SameMessage(c, d) /\ Seq_(d) = NextSeq(c)

\* Packets of a message do not overlap, a retransmission repeats a packet as it
\* was, and no message wraps around the sequence space.
WellFormed ==
    /\ \A c \in Captures : Pkt[c].len > 0 /\ NextSeq(c) < SeqSpace
    /\ \A c, d \in Captures : SameMessage(c, d) =>
          /\ Seq_(c) < Seq_(d) => NextSeq(c) <= Seq_(d)
          /\ Seq_(c) = Seq_(d) => Content(c) = Content(d)
    /\ \A c \in Captures : \E first \in Captures : SameMessage(first, c) /\ Opens(first)

\* No capture of the recording has an Expect header.
Simple(recording) == \A c \in recording : ~Pkt[c].expect

\* What one side sends with one Ack is one message (no pipelining); requests come
\* from clients, responses from servers.
TakesTurns(recording) ==
    /\ \A c, d \in recording :
          Flow(c) = Flow(d) /\ Pkt[c].ack = Pkt[d].ack => SameMessage(c, d)
    /\ \A c \in recording :
          /\ Pkt[c].dir = "in" \/ Pkt[c].title = "req" => Pkt[c].side = "client"
          /\ Pkt[c].dir = "out" \/ Pkt[c].title = "res" => Pkt[c].side = "server"

ASSUME WireAssumption ==
    HttpHints =>
      /\ WellFormed
      /\ \A recording \in Recordings : TakesTurns(recording)
      /\ \A r, s \in Recordings : r \cap s # {} => (Simple(r) <=> Simple(s))

VARIABLES
    allowIncompete, \* the option: the timer hands over what is incomplete
    now,        \* the wall clock
    received,   \* captures processPacket has been called with
    ack,        \* the Ack field of each Packet; Fix100Continue rewrites it
    heap,       \* the TcpMessage objects allocated so far
    m,          \* parser.m: message id -> index into heap
    merging,    \* stack of running Fix100Continue loops: object and packets left
    sweep,      \* keys the running timer loop has still to visit
    messages,   \* the messages channel
    out,        \* what the reader has taken from it, as it looked then
    crashed     \* a nil Start hint was called
vars == <<allowIncompete, now, received, ack, heap, m, merging, sweep, messages, out, crashed>>

-----------------------------------------------------------------------------
(* Packets and messages *)

\* Packet.MessageID: ports, addresses and the current Ack (cached, and the
\* cache is cleared whenever Ack changes).  The code adds addresses and Ack up in
\* the low bits of one number (tcp_packet.go:218), so that two messages of different
\* hosts may share an id, "a small chance of collision" (tcp_message.go:320): the
\* flows of the traffic are taken to be numbered without one.
MessageID(c, acks) == <<Flow(c), acks[c]>>

\* http1StartHint on one packet.
StartHint(c) == CASE Pkt[c].title = "req" -> "in"
                  [] Pkt[c].title = "res" -> "out"
                  [] OTHER -> "unknown"

Duplicate(pkts, c) == \E i \in 1 .. Len(pkts) : Seq_(pkts[i]) = Seq_(c)

\* Mutant: packets are kept in order of arrival.
InsertPos_Last(pkts, c) == Len(pkts) + 1

\* TcpMessage.add: where a packet that is no duplicate goes, by plain
\* comparison of sequence numbers.
InsertPos(pkts, c) ==
    IF pkts = <<>> \/ Seq_(c) > Seq_(pkts[Len(pkts)])
    THEN Len(pkts) + 1
    ELSE Min({i \in 1 .. Len(pkts) : Seq_(c) < Seq_(pkts[i])})

Add(pkts, c) == InsertAt(pkts, InsertPos(pkts, c), c)

MissingChunk(pkts) ==
    \E i \in 2 .. Len(pkts) :
        Seq_(pkts[i]) # (Seq_(pkts[i - 1]) + Pkt[pkts[i - 1]].len) % SeqSpace

Size(pkts) ==
    LET total[n \in 0 .. Len(pkts)] ==
            IF n = 0 THEN 0 ELSE total[n - 1] + Pkt[pkts[n]].len
    IN total[Len(pkts)]

\* Stats.End: the latest packet timestamp.
End(pkts) == Max({Pkt[pkts[i]].ts : i \in DOMAIN pkts})

\* HasFullPayload, header part: the first call that sees a title and the end
\* of the header caches Body, BodyLen, IsChunked and Continue100 for good.
ParseHeader(state, pkts) ==
    IF \/ state # NoHeader
       \/ MissingChunk(pkts)
       \/ Pkt[pkts[1]].title = "none"
       \/ Size(pkts) < Pkt[pkts[1]].hdr
    THEN state
    ELSE pkts[1]

\* Mutant: one byte more than announced is waited for.
Complete_OneMore(state, pkts) ==
    /\ ~MissingChunk(pkts)
    /\ state # NoHeader
    /\ IF Pkt[state].chunked
       THEN Size(pkts) > Pkt[state].hdr /\ Pkt[pkts[Len(pkts)]].tail
       ELSE Size(pkts) > Pkt[state].hdr + Pkt[state].body

\* http1EndHint, for the header state just cached.
Complete(state, pkts) ==
    /\ ~MissingChunk(pkts)
    /\ Pkt[pkts[1]].title # "none"
    /\ state # NoHeader
    /\ IF Pkt[state].chunked
       THEN Size(pkts) > Pkt[state].hdr /\ Pkt[pkts[Len(pkts)]].tail
       ELSE Size(pkts) = Pkt[state].hdr + Pkt[state].body

NewMessage(dir) == [pkts |-> <<>>, dir |-> dir, state |-> NoHeader,
                    adjusted |-> FALSE, timedOut |-> FALSE]

\* Mutant: a request is named by the Ack it was captured with.
UUID_Captured(msg) ==
    IF msg.dir = "in" THEN <<Flow(msg.pkts[1]), Pkt[msg.pkts[1]].ack>>
                      ELSE <<PeerFlow(msg.pkts[1]), Seq_(msg.pkts[1])>>

\* TcpMessage.UUID: a request is named by its Ack, a response by its Seq.
UUID(msg) ==
    IF msg.dir = "in" THEN <<Flow(msg.pkts[1]), ack[msg.pkts[1]]>>
                      ELSE <<PeerFlow(msg.pkts[1]), Seq_(msg.pkts[1])>>

-----------------------------------------------------------------------------
(* Handlers.  h, mm and fr are the heap, the map and the merge stack as the *)
(* caller has left them.                                                    *)

\* Mutant: the entry is not deleted.
Emit_Keeping(h, mm, fr, o) ==
    /\ Len(messages) < MessagesCap
    /\ messages' = Append(messages, o)
    /\ heap' = h /\ m' = mm /\ merging' = fr
    /\ UNCHANGED ack

\* Emit: forget the message under the id of its first packet and send it.
\* The send blocks while the channel is full.
Emit(h, mm, fr, o) ==
    /\ Len(messages) < MessagesCap
    /\ heap' = h
    /\ m' = Restrict(mm, DOMAIN mm \ {MessageID(h[o].pkts[1], ack)})
    /\ messages' = Append(messages, o)
    /\ merging' = fr
    /\ UNCHANGED ack

\* Mutant: the Expect header is not looked at.
NeedsContinueFix_Always(msg) == msg.state # NoHeader /\ ~msg.adjusted

NeedsContinueFix(msg) ==
    /\ msg.state # NoHeader
    /\ Pkt[msg.state].expect
    /\ ~msg.adjusted

\* Fix100Continue up to its loop: move the packets behind the interim
\* response, and queue the packets already kept under the new id.
Fix100Continue(h, mm, fr, o) ==
    LET pkts == h[o].pkts
        acks == [c \in Captures |->
                   IF c \in Range(pkts) THEN ack[c] + ContinueLen ELSE ack[c]]
        id == MessageID(pkts[1], acks)
        rest == IF id \in DOMAIN mm THEN h[mm[id]].pkts ELSE <<>>
    IN /\ ack' = acks
       /\ merging' = Append(fr, [obj |-> o, rest |-> rest])
       /\ heap' = h
       /\ m' = mm
       /\ UNCHANGED messages

\* addPacket
AddPacket(h, mm, fr, o, c) ==
    LET pkts == Add(h[o].pkts, c)
        state == IF HttpHints THEN ParseHeader(h[o].state, pkts) ELSE h[o].state
        added == [h EXCEPT ![o] = [@ EXCEPT !.pkts = pkts, !.state = state]]
    IN IF Duplicate(h[o].pkts, c)
       THEN /\ heap' = h /\ m' = mm /\ merging' = fr
            /\ UNCHANGED <<ack, messages>>
       ELSE IF HttpHints /\ Complete(state, pkts)
       THEN Emit(added, mm, fr, o)
       ELSE IF HttpHints /\ NeedsContinueFix(added[o])
       THEN Fix100Continue(added, mm, fr, o)
       ELSE /\ heap' = added /\ m' = mm /\ merging' = fr
            /\ UNCHANGED <<ack, messages>>

Idle == merging = <<>> /\ sweep = {} /\ ~crashed

Init ==
    /\ allowIncompete \in BOOLEAN
    /\ now = 0
    /\ received = {}
    /\ ack = [c \in Captures |-> Pkt[c].ack]
    /\ heap = <<>>
    /\ m = <<>>
    /\ merging = <<>>
    /\ sweep = {}
    /\ messages = <<>>
    /\ out = <<>>
    /\ crashed = FALSE

\* The capture handle may lose, delay and reorder packets.
Arrives(c) ==
    /\ Idle
    /\ c \notin received
    /\ \E recording \in Traffic[allowIncompete] : received \cup {c} \subseteq recording
    /\ Pkt[c].ts <= now
    /\ \A d \in received : Pkt[d].ts > Pkt[c].ts => d \in Ahead
    /\ received' = received \cup {c}
    /\ UNCHANGED <<allowIncompete, now, sweep, out>>

\* A packet joins the message in progress, which takes the direction of its Start
\* hint when it has none.
AddToKnown(c, o) ==
    /\ heap[o].dir # "unknown" \/ HttpHints
    /\ LET dir == IF heap[o].dir = "unknown" THEN StartHint(c) ELSE heap[o].dir
       IN AddPacket([heap EXCEPT ![o].dir = dir], m, merging, o, c)
    /\ UNCHANGED crashed

\* A message of unknown direction and no Start hint: the call of the nil function
\* panics.
CallOfNil(o) ==
    /\ heap[o].dir = "unknown" /\ ~HttpHints
    /\ crashed' = TRUE
    /\ UNCHANGED <<ack, heap, m, merging, messages>>

\* processPacket for a packet of a message in progress.
ProcessKnown(c) ==
    LET id == MessageID(c, ack)
    IN /\ Arrives(c)
       /\ id \in DOMAIN m
       /\ AddToKnown(c, m[id]) \/ CallOfNil(m[id])

\* processPacket for the first packet seen of a message.
ProcessNew(c) ==
    LET id == MessageID(c, ack)
        o == Len(heap) + 1
        dir == IF Pkt[c].dir = "unknown" /\ HttpHints THEN StartHint(c) ELSE Pkt[c].dir
        registered == [k \in DOMAIN m \cup {id} |-> IF k = id THEN o ELSE m[k]]
    IN /\ Arrives(c)
       /\ id \notin DOMAIN m
       /\ AddPacket(Append(heap, NewMessage(dir)), registered, merging, o, c)
       /\ UNCHANGED crashed

\* One iteration of the loop of Fix100Continue: addPacket of the next packet.
MergeNext ==
    /\ merging # <<>>
    /\ LET top == merging[Len(merging)]
           below == SubSeq(merging, 1, Len(merging) - 1)
       IN /\ top.rest # <<>>
          /\ AddPacket(heap, m, Append(below, [top EXCEPT !.rest = Tail(@)]),
                       top.obj, Head(top.rest))
    /\ UNCHANGED <<allowIncompete, now, received, sweep, out, crashed>>

\* The end of Fix100Continue: (re-)register the message under its new id.
MergeDone ==
    /\ merging # <<>>
    /\ LET top == merging[Len(merging)]
           id == MessageID(heap[top.obj].pkts[1], ack)
       IN /\ top.rest = <<>>
          /\ m' = [k \in DOMAIN m \cup {id} |-> IF k = id THEN top.obj ELSE m[k]]
          /\ heap' = [heap EXCEPT ![top.obj].adjusted = TRUE]
    /\ merging' = SubSeq(merging, 1, Len(merging) - 1)
    /\ UNCHANGED <<allowIncompete, now, received, ack, sweep, messages, out, crashed>>

\* timer: range over the map.
Timer ==
    /\ Idle
    /\ sweep' = DOMAIN m
    /\ UNCHANGED <<allowIncompete, now, received, ack, heap, m, merging, messages, out, crashed>>

\* Mutant: the difference is taken the wrong way round.
Expired_Reversed(msg) == End(msg.pkts) - now > Expire

Expired(msg) == now - End(msg.pkts) > Expire

\* One iteration of timer.  A key deleted before it is reached is not visited.
SweepKeep(k) ==
    /\ k \in sweep
    /\ k \in DOMAIN m => ~Expired(heap[m[k]])
    /\ sweep' = sweep \ {k}
    /\ UNCHANGED <<allowIncompete, now, received, ack, heap, m, merging, messages, out, crashed>>

\* Mutant: expired messages are never sent.
SweepExpired_Dropping(k) ==
    /\ k \in sweep
    /\ k \in DOMAIN m
    /\ Expired(heap[m[k]])
    /\ sweep' = sweep \ {k}
    /\ m' = Restrict(m, DOMAIN m \ {k})
    /\ UNCHANGED <<allowIncompete, now, received, ack, heap, merging, messages, out, crashed>>

SweepExpired(k) ==
    /\ k \in sweep
    /\ k \in DOMAIN m
    /\ Expired(heap[m[k]])
    /\ sweep' = sweep \ {k}
    /\ LET late == [heap EXCEPT ![m[k]].timedOut = TRUE]
       IN IF ~HttpHints \/ allowIncompete
          THEN Emit(late, m, merging, m[k])
          ELSE /\ heap' = late
               /\ m' = Restrict(m, DOMAIN m \ {MessageID(late[m[k]].pkts[1], ack)})
               /\ UNCHANGED <<ack, merging, messages>>
    /\ UNCHANGED <<allowIncompete, now, received, out, crashed>>

\* The input plugin takes a message and looks at it only then.
Read ==
    /\ messages # <<>>
    /\ ~crashed
    /\ LET msg == heap[Head(messages)]
       IN out' = Append(out, [obj |-> Head(messages), pkts |-> msg.pkts,
                              dir |-> msg.dir, timedOut |-> msg.timedOut,
                              uuid |-> UUID(msg)])
    /\ messages' = Tail(messages)
    /\ UNCHANGED <<allowIncompete, now, received, ack, heap, m, merging, sweep, crashed>>

\* A timer loop has read the clock before it started.
Clock ==
    /\ now < MaxNow
    /\ sweep = {}
    /\ now' = now + 1
    /\ UNCHANGED <<allowIncompete, received, ack, heap, m, merging, sweep, messages, out, crashed>>

Next ==
    \/ \E c \in Captures : ProcessKnown(c) \/ ProcessNew(c)
    \/ MergeNext
    \/ MergeDone
    \/ Timer
    \/ \E k \in sweep : SweepKeep(k) \/ SweepExpired(k)
    \/ Read
    \/ Clock

Spec == Init /\ [][Next]_vars

\* The runtime keeps the goroutine of wait going, its select eventually takes
\* a tick that is ready, the reader reads, and time does not stop.
ParserFairness ==
    /\ WF_vars(MergeNext) /\ WF_vars(MergeDone)
    /\ WF_vars(Timer)
    /\ WF_vars(\E k \in sweep : SweepKeep(k) \/ SweepExpired(k))
    /\ WF_vars(Read)
    /\ SF_vars(Clock)

FairSpec == Spec /\ ParserFairness

-----------------------------------------------------------------------------
(* Properties *)

Message == [pkts : Seq(Captures), dir : {"in", "out", "unknown"},
            state : Captures \cup {NoHeader},
            adjusted : BOOLEAN, timedOut : BOOLEAN]

Objects == 1 .. Len(heap)

Keys == {Flow(c) : c \in Captures} \X Nat

UUIDs == (STRING \X {"client", "server"}) \X Nat

Taken == [obj : Objects, pkts : Seq(Captures), dir : {"in", "out", "unknown"},
          timedOut : BOOLEAN, uuid : UUIDs]

\* Type invariant: the map and both loops refer to allocated messages, and no
\* message in the map is empty (timer and Emit index packets[0] unchecked).
TypeOK ==
    /\ allowIncompete \in BOOLEAN
    /\ now \in Nat
    /\ received \in SUBSET Captures
    /\ ack \in [Captures -> Nat]
    /\ heap \in Seq(Message)
    /\ DOMAIN m \subseteq Keys
    /\ \A k \in DOMAIN m : m[k] \in Objects
    /\ \A o \in Objects : heap[o].pkts # <<>>
    /\ merging \in Seq([obj : Objects, rest : Seq(Captures)])
    /\ sweep \subseteq Keys
    /\ messages \in Seq(Objects)
    /\ Len(messages) <= MessagesCap
    /\ out \in Seq(Taken)
    /\ crashed \in BOOLEAN

\* TcpMessage.add keeps the packets of every message in strictly increasing
\* order of Seq, whatever the order of arrival, retransmissions included.
SortedUnique ==
    \A o \in Objects : \A i, j \in DOMAIN heap[o].pkts :
        i < j => Seq_(heap[o].pkts[i]) < Seq_(heap[o].pkts[j])

NoExpect == \A c \in received : ~Pkt[c].expect

\* As long as no Expect header has come in, every packet of a message in the
\* map has the id the message is registered under: this is what makes
\* delete(parser.m, m.packets[0].MessageID()) in Emit and timer delete m.
KeyedByPackets ==
    NoExpect =>
        \A k \in DOMAIN m : \A i \in DOMAIN heap[m[k]].pkts :
            MessageID(heap[m[k]].pkts[i], ack) = k

WireSeqs(c) == {Seq_(d) : d \in {e \in Captures : Wire[e].msg = Wire[c].msg}}

PacketSeqs(pkts) == {Seq_(pkts[i]) : i \in DOMAIN pkts}

\* Between handlers no message all of whose packets have been captured waits in
\* the map: each one was sent by the very packet that completed it, in
\* whatever order its packets came.  (The end of Fix100Continue registers a message
\* again that its loop has just sent.)
NoneWholeWaits ==
    Idle /\ HttpHints /\ NoExpect =>
        \A k \in DOMAIN m :
            LET pkts == heap[m[k]].pkts
            IN PacketSeqs(pkts) # WireSeqs(pkts[1])

\* What the reader takes (and was not cut short by the timer) is a message
\* that was on the wire, whole and in order: it has a packet for every
\* sequence number of that message, and no packet of another.  No message is
\* put into the channel twice: not by End and by the timer, nor, unless the timer
\* hands over what is incomplete, by the merge of Fix100Continue and what follows.
\* (With allowIncompete every tick sends an expired merged message again, from the
\* entry under its old id.)
ReadWhole ==
    /\ \A i \in DOMAIN out : ~out[i].timedOut =>
          LET pkts == out[i].pkts
          IN /\ \A j \in DOMAIN pkts : Wire[pkts[j]].msg = Wire[pkts[1]].msg
             /\ PacketSeqs(pkts) = WireSeqs(pkts[1])
             /\ \A j \in 2 .. Len(pkts) : Seq_(pkts[j - 1]) < Seq_(pkts[j])
    /\ NoExpect \/ ~allowIncompete =>
          IsInjective([i \in DOMAIN out |-> out[i].obj] \o messages)

\* A whole request and a whole response carry the same UUID, which is how the
\* outputs pair them, exactly if they are of one exchange: a request that waited for
\* 100 Continue is paired with its response, and not with the interim one, whose
\* exchange is 0.  (tcp_message.go:378 adjusts such a message once.)
PairedUUID ==
    \A i, j \in DOMAIN out :
        LET a == out[i]
            b == out[j]
        IN (/\ ~a.timedOut /\ ~b.timedOut
            /\ a.dir = "in" /\ b.dir = "out") =>
               (a.uuid = b.uuid <=> Wire[a.pkts[1]].xch = Wire[b.pkts[1]].xch)

\* The map holds messages in progress only (tcp_message.go:207): none that has
\* been sent already.
InProgressOnly ==
    Idle => \A k \in DOMAIN m :
                /\ m[k] \notin Range(messages)
                /\ \A i \in DOMAIN out : out[i].obj # m[k]

Live(o) == \E k \in DOMAIN m : m[k] = o

\* A message leaves the map only because it was sent, because it expired, or
\* because its packets went into another message.
NoSilentLoss ==
    [][\A o \in {m[k] : k \in DOMAIN m} :
          \/ \E k \in DOMAIN m' : m'[k] = o
          \/ o \in Range(messages')
          \/ Expired(heap[o]) /\ HttpHints /\ ~allowIncompete
          \/ \E q \in Objects \ {o} : Range(heap[o].pkts) \subseteq Range(heap[q].pkts)
      ]_vars

\* A recording without Expect headers, as far as is known.
Plain == \E recording \in Recordings : received \subseteq recording /\ Simple(recording)

\* The pool of the abstract parser is what the messages in the map hold; what
\* it has handed over is what the reader has taken or will find in the channel.
\* It does not see a recording with Expect headers.
PacketSet(o) == Range(heap[o].pkts)
Reassembled == INSTANCE Reassembly WITH
    mayCut <- allowIncompete \/ ~HttpHints,
    seen <- IF Plain THEN received ELSE {},
    pool <- IF Plain THEN UNION {PacketSet(m[k]) : k \in DOMAIN m} ELSE {},
    sent <- IF Plain THEN [i \in DOMAIN out |-> Range(out[i].pkts)]
                            \o [i \in DOMAIN messages |-> PacketSet(messages[i])]
            ELSE <<>>

\* With HTTP hints and no Expect header the parser implements Reassembly: it
\* hands over whole messages only, each packet once, and loses none early.
ImplementsReassembly == Reassembled!Spec

\* No message stays in the map for ever: it is sent, or the timer ends it.
Drains == \A o \in 1 .. Cardinality(Captures) : Live(o) ~> (~Live(o) \/ crashed)
=============================================================================
