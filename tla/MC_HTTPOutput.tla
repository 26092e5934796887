---------------------------- MODULE MC_HTTPOutput ----------------------------
(* A small pool for the runs of HTTPOutput. *)
EXTENDS HTTPOutput

CONSTANTS a, b, x, w1, w2

TwoRequests == {a, b}
TwoAndOther == TwoRequests \cup {x}
TwoWriters == {w1, w2}
=============================================================================
