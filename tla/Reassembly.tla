----------------------------- MODULE Reassembly -----------------------------
(***************************************************************************)
(* What a MessageParser promises, with no map, ids or hints: it keeps a    *)
(* pool of captured packets, and hands over sets of packets taken out of   *)
(* the pool.  Unless the timer cut it short, such a set is a whole message *)
(* that was on the wire, handed over by the capture that completed it.     *)
(***************************************************************************)
EXTENDS Naturals, Sequences

CONSTANTS
    Captures,     \* packets the capture handle delivers
    Pkt,          \* their fields
    Wire          \* the wire message each one belongs to

VARIABLES
    mayCut,       \* TRUE: the timer hands over what is there, FALSE: it drops it
    seen,         \* captures that arrived
    pool,         \* those waiting for the rest of their message
    sent          \* the sets of packets handed over, in order
vars == <<mayCut, seen, pool, sent>>

Seqs(S) == {Pkt[c].seq : c \in S}

Whole(S) ==
    /\ S # {}
    /\ \A c, d \in S : Wire[c].msg = Wire[d].msg
    /\ \A c \in S : Seqs(S) = Seqs({d \in Captures : Wire[d].msg = Wire[c].msg})
    /\ \A c, d \in S : Pkt[c].seq = Pkt[d].seq => c = d

Init == mayCut \in BOOLEAN /\ seen = {} /\ pool = {} /\ sent = <<>>

Arrive(c) == c \notin seen /\ seen' = seen \cup {c}

\* A packet waits, or repeats one that waits already.
Keep(c) == Arrive(c) /\ pool' = pool \cup {c} /\ UNCHANGED sent
Ignore(c) ==
    /\ Arrive(c)
    /\ \E d \in pool : Wire[d].msg = Wire[c].msg /\ Pkt[d].seq = Pkt[c].seq
    /\ UNCHANGED <<pool, sent>>

\* The packet that completes a message hands it over at once.
Finish(c) ==
    /\ Arrive(c)
    /\ \E S \in SUBSET (pool \cup {c}) :
          /\ c \in S
          /\ Whole(S)
          /\ pool' = (pool \cup {c}) \ S
          /\ sent' = Append(sent, S)

\* The timer ends a message that is not whole.
Lapse ==
    /\ \E S \in SUBSET pool :
          /\ S # {} /\ ~Whole(S)
          /\ pool' = pool \ S
          /\ sent' = IF mayCut THEN Append(sent, S) ELSE sent
    /\ UNCHANGED seen

Next ==
    /\ Lapse \/ \E c \in Captures : Keep(c) \/ Ignore(c) \/ Finish(c)
    /\ UNCHANGED mayCut

Spec == Init /\ [][Next]_vars
=============================================================================
