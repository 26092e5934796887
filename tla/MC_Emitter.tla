----------------------------- MODULE MC_Emitter -----------------------------
(* Inputs, outputs and payloads for the run of Emitter. *)
EXTENDS Emitter, TLC

CONSTANTS r1, s1, r2, s2, r3, s3, x, m, one, two

EightMsgs == {r1, s1, r2, s2, x, m, r3, s3}
TwoInputs == <<one, two>>
InputSet == {one, two}
FileThenTcp == <<"file", "tcp">>
FileFirst == <<one, "file", two, "tcp">>
\* The first input: a rejected request and its response, one that passes and its
\* response; the second: a malformed payload, a replayed response, and a request the
\* prettifier empties and its response.
TwoScripts == (one :> <<r1, s1, r2, s2>>) @@ (two :> <<m, x, r3, s3>>)
Kinds == (r1 :> "request") @@ (s1 :> "response") @@ (r2 :> "request") @@ (s2 :> "response")
         @@ (x :> "replayed") @@ (m :> "malformed") @@ (r3 :> "request") @@ (s3 :> "response")
IdOf == (r1 :> 1) @@ (s1 :> 1) @@ (r2 :> 2) @@ (s2 :> 2) @@ (x :> 2) @@ (m :> 2) @@ (r3 :> 3) @@ (s3 :> 3)
FirstRejected == {r1}
ThirdUnpretty == {r3}
\* The hypothesis of ResponsesBehindRequests, which these scripts fulfil.
ASSUME ScriptsExchange == Exchanged

Buckets == [msg \in Msgs |-> IF IdOf[msg] = 2 THEN 0 ELSE 1]
=============================================================================
