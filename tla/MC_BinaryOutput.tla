--------------------------- MODULE MC_BinaryOutput ---------------------------
(* Small pools for the runs of BinaryOutput. *)
EXTENDS BinaryOutput

CONSTANTS a, b, c, w1, w2

ThreeRequests == {a, b, c}
TwoRequests == {a, b}
TwoWriters == {w1, w2}
OneWriter == {w1}
=============================================================================
