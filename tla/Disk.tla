-------------------------------- MODULE Disk --------------------------------
(***************************************************************************)
(* The files that goreplay/output/output_file.go writes and                *)
(* goreplay/input/input_file.go reads.  A name is what the path template   *)
(* expands to (its base) and the index of the chunk, NoIndex without one.  *)
(* A file is the sequence of its whole records: what follows the last      *)
(* separator is no record for the reader.                                  *)
(***************************************************************************)
EXTENDS Integers, Sequences, FiniteSets, SequencesExt

CONSTANTS
    Records,     \* payloads, each with the line of its meta data
    Ts           \* the timestamp in the meta data of each record

VARIABLE disk    \* the content of every file

NoIndex == -1

Index(name) == name[2]

\* filepath.Glob for the files of one base.  The pattern has a * for the index, and so
\* finds names that only begin with the base as well; no base here begins another.
Matches(base) == {name \in DOMAIN disk : name[1] = base}

\* The order of the names.
Earlier(m, n) == m[1][1] < n[1][1] \/ (m[1][1] = n[1][1] /\ Index(m) < Index(n))

Ordered(recs) == \A i, j \in DOMAIN recs : i < j => Ts[recs[i]] <= Ts[recs[j]]
=============================================================================
