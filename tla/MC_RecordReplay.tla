-------------------------- MODULE MC_RecordReplay ---------------------------
\* Two inputs record, at most three records each, and the files are replayed.
EXTENDS RecordReplay

MCRecords == 1 .. 5
MCTs == [rec \in MCRecords |-> CASE rec = 5 -> 0 [] rec = 4 -> 2 [] OTHER -> rec]
MCScript == [w1 |-> <<1, 2, 3>>, w2 |-> <<4>>]
MCTag == [rec \in MCRecords |-> IF rec \in {1, 3} THEN "a" ELSE "b"]

Empty == [name \in {} |-> <<>>]
MCBefore == {Empty, (<<<<0, NoTag>>, 0>> :> <<5>>)}

Plain == [append |-> FALSE, perId |-> FALSE, dated |-> FALSE, queueLimit |-> 0, sizeLimit |-> 0,
          gz |-> FALSE, writers |-> {"w1"}]
MCConfigs == {[Plain EXCEPT !.queueLimit = 2, !.gz = TRUE],
              [Plain EXCEPT !.sizeLimit = 2],
              [Plain EXCEPT !.queueLimit = 1, !.dated = TRUE],
              [Plain EXCEPT !.append = TRUE],
              [Plain EXCEPT !.perId = TRUE, !.queueLimit = 1, !.gz = TRUE],
              [Plain EXCEPT !.queueLimit = 1, !.writers = {"w1", "w2"}]}

MCPlays == {[readDepth |-> 1, speed |-> 1, maxWait |-> 0, loop |-> FALSE, dryRun |-> FALSE],
            [readDepth |-> 2, speed |-> 2, maxWait |-> 1, loop |-> FALSE, dryRun |-> FALSE],
            [readDepth |-> 0, speed |-> 1, maxWait |-> 0, loop |-> FALSE, dryRun |-> TRUE],
            [readDepth |-> 1, speed |-> 1, maxWait |-> 0, loop |-> TRUE, dryRun |-> FALSE]}
MCToday == 0 .. 1
=============================================================================
