---------------------------- MODULE RecordReplay ----------------------------
(***************************************************************************)
(* A recording and its replay: output_file.go writes the files of the      *)
(* disk, and once its process has ended, an input_file.go of another       *)
(* process reads them.                                                     *)
(***************************************************************************)
EXTENDS FileOutput, FileInput

vars == <<outVars, inVars>>

Init == OutInit /\ InInit

\* A compressed file of a process that was killed may lack even its header.
Unreadable == IF config.gz THEN {name \in DOMAIN disk : disk[name] = <<>>} ELSE {}

Record == input = "off" /\ OutNext /\ UNCHANGED inVars

Replay == Over /\ InNext(Unreadable) /\ UNCHANGED outVars

Next == Record \/ Replay

\* The goroutines of the input run, and a copier reads.
Fairness ==
    /\ WF_vars(Over /\ Parses /\ UNCHANGED outVars)
    /\ WF_vars(Over /\ Emits(Unreadable) /\ UNCHANGED outVars)
    /\ WF_vars(Over /\ PluginRead /\ UNCHANGED outVars)

Spec == Init /\ [][Next]_vars /\ Fairness

-----------------------------------------------------------------------------
(* Properties *)

\* What a recording left on the disk is replayed to the end: every record of every
\* file that can be opened, each as often as it was recorded.
AllReplayed == input = "running" ~> Replayed(Unreadable)
=============================================================================
