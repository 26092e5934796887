------------------------------ MODULE MC_Inputs ------------------------------
\* The parser of captured traffic, and the connections that bring traffic of other
\* processes.  They share nothing, and so one run checks both: in a behaviour one of
\* them runs and the other is over.
EXTENDS MC_MessageParser, MC_Ingest

ParserOver ==
    /\ allowIncompete = FALSE
    /\ now = MaxNow /\ received = {}
    /\ ack = [c \in Captures |-> Pkt[c].ack]
    /\ heap = <<>> /\ m = <<>> /\ merging = <<>> /\ sweep = {}
    /\ messages = <<>> /\ out = <<>>
    /\ crashed = TRUE

IngestOver ==
    /\ setup = S("tcp", FALSE, 0, FALSE, {})
    /\ conn = [c \in Conns |-> [pc |-> "gone", at |-> 0]]
    /\ unsent = [c \in Conns |-> <<>>]
    /\ memory = <<>> /\ data = <<>> /\ taken = <<>>
    /\ inputStop = TRUE
    /\ currentRPS = 0 /\ windowOver = FALSE /\ seconds = 0 /\ passed = 0
    /\ reader = [pc |-> "returned"] /\ copier = [pc |-> "none"]
    /\ stdin = <<>> /\ stdout = <<>> /\ mwData = <<>>
    /\ command = "quit" /\ pump = [pc |-> "returned"] /\ mwStop = FALSE /\ waiter = "done"
    /\ emitter = "closed"

InputsInit ==
    \/ Init /\ IngestOver
    \/ IngestInit /\ ParserOver

\* Next and IngestNext, action by action.  Binary traffic asks for no 100 Continue, and
\* so MergeNext and MergeDone have nothing to do here.
InputsNext ==
    \/ \E c \in Captures : ProcessKnown(c) /\ UNCHANGED ingestVars
    \/ \E c \in Captures : ProcessNew(c) /\ UNCHANGED ingestVars
    \/ Timer /\ UNCHANGED ingestVars
    \/ \E k \in sweep : SweepKeep(k) /\ UNCHANGED ingestVars
    \/ \E k \in sweep : SweepExpired(k) /\ UNCHANGED ingestVars
    \/ Read /\ UNCHANGED ingestVars
    \/ Clock /\ UNCHANGED ingestVars
    \/ \E c \in Conns : Begin(c) /\ UNCHANGED vars
    \/ \E c \in Conns : Separator(c) /\ UNCHANGED vars
    \/ \E c \in Conns : Respond(c) /\ UNCHANGED vars
    \/ \E c \in Conns : Hand(c) /\ UNCHANGED vars
    \/ \E c \in Conns : Disconnects(c) /\ UNCHANGED vars
    \/ Second /\ UNCHANGED vars
    \/ ReadMessage /\ UNCHANGED vars
    \/ ReadStopped /\ UNCHANGED vars
    \/ ReadCompare /\ UNCHANGED vars
    \/ ReadCount /\ UNCHANGED vars
    \/ WriteBack /\ UNCHANGED vars
    \/ WriteBackCount /\ UNCHANGED vars
    \/ WriteOutput /\ UNCHANGED vars
    \/ WriteStdin /\ UNCHANGED vars
    \/ CommandRuns /\ UNCHANGED vars
    \/ CommandQuits /\ UNCHANGED vars
    \/ PumpLine /\ UNCHANGED vars
    \/ PumpSend /\ UNCHANGED vars
    \/ PumpEnds /\ UNCHANGED vars
    \/ CopyReads /\ UNCHANGED vars
    \/ CopyBack /\ UNCHANGED vars
    \/ CopyBackCount /\ UNCHANGED vars
    \/ CopyOutput /\ UNCHANGED vars
    \/ CopyEnds /\ UNCHANGED vars
    \/ WaiterChecks /\ UNCHANGED vars
    \/ WaiterCloses /\ UNCHANGED vars
    \/ CloseInput /\ UNCHANGED vars
    \/ CloseChecks /\ UNCHANGED vars
    \/ CloseMiddleware /\ UNCHANGED vars
    \/ CloseReturns /\ UNCHANGED vars

InputsSpec ==
    /\ InputsInit /\ [][InputsNext]_<<vars, ingestVars>>
    /\ ParserFairness /\ IngestFairness
=============================================================================
