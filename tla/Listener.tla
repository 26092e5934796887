------------------------------ MODULE Listener ------------------------------
(***************************************************************************)
(* The life of the capture handles: Listener of                            *)
(* goreplay/core/capture/capture.go inside RAWInput of input/input_raw.go. *)
(*                                                                         *)
(* Goroutines: Listen, one readHandle per handle, the monitor that looks   *)
(* for new interfaces every second, and those that close the input.  What  *)
(* runs under the lock of the Listener is one action.  The packets are     *)
(* the business of MessageParser; the vxlan engine is left out.            *)
(***************************************************************************)
EXTENDS Integers, Sequences, FiniteSets, SequencesExt

CONSTANTS
    Names,         \* network interfaces that match the configured host
    Settings,      \* where a behaviour starts and what may happen in it, see Setting
    MaxChanges     \* bound on changes of the environment

\* One handle, on a pcap file, or one for every interface.
EngineKinds == {"pcap", "pcap_file", "raw_socket", "af_packet"}

\* Engines whose handle is an io.Closer.  Close of *pcap.Handle and of
\* *afpacketHandle returns nothing, so that theirs are not.
Closers == {"raw_socket"}

\* Engines with a read that comes back without a packet: at the end of the timeout
\* (capture.go:365) or of the file.  The others wait for one for ever.
Pollers == {"pcap", "pcap_file"}

\* Interfaces come up and go down, listing them or opening or reading a handle
\* fails.
FaultKinds == {"appear", "vanish", "list", "open", "read"}

FileKey == "pcap_file"

Setting == [engine : EngineKinds, visible : (SUBSET Names) \ {{}},
            faults : SUBSET FaultKinds, changes : 0 .. MaxChanges]

ASSUME ListenerAssumption ==
    /\ FileKey \notin Names
    /\ IsFiniteSet(Names)
    /\ Settings \subseteq Setting
    /\ MaxChanges \in Nat

HandleKeys == Names \cup {FileKey}

VARIABLES
    engine,       \* the engine, chosen at the start
    faults,       \* what may happen, chosen at the start
    visible,      \* the interfaces that are up
    changes,      \* number of changes of the environment still to come
    listed,       \* l.Interfaces
    opened,       \* how many handles have been opened under each key
    handles,      \* l.Handles: key -> which of the handles opened under it
    shut,         \* handles that have been closed
    readers,      \* the readHandle goroutines
    monitor,      \* control state of the monitor
    pending,      \* interfaces its loop has found new and not yet activated
    listen,       \* control state of Listen
    cancelled,    \* the context of the input is done
    quit,         \* l.quit is closed
    closeDone,    \* l.closeDone is closed
    closed,       \* l.closed
    inputClosed,  \* i.closed, and i.quit is closed
    panicked      \* the program has panicked
env == <<engine, faults, visible, changes>>
resources == <<opened, handles, shut>>
watch == <<monitor, pending, listed>>
signals == <<cancelled, quit, closeDone, closed, inputClosed>>
listenerVars == <<env, resources, readers, watch, listen, signals, panicked>>

Reader(key, handle) == [key |-> key, handle |-> handle, pc |-> "reading"]

\* Activate, of any engine: open what is listed and has no handle yet, or the
\* file again, whatever is open.  A handle that cannot be opened is left out.
Activate(names) ==
    LET missing == IF engine = "pcap_file" THEN {FileKey} ELSE names \ DOMAIN handles
    IN \E new \in IF "open" \in faults THEN SUBSET missing ELSE {missing} :
          /\ opened' = [k \in HandleKeys |-> IF k \in new THEN opened[k] + 1 ELSE opened[k]]
          /\ handles' = [k \in DOMAIN handles \cup new |->
                            IF k \in new THEN opened'[k] ELSE handles[k]]

\* NewListener and a first Activate that has not failed.  Only the engines
\* that have one handle per interface list the interfaces here.
ListenerInit ==
    /\ \E setting \in Settings :
          /\ engine = setting.engine /\ faults = setting.faults
          /\ visible = setting.visible /\ changes = setting.changes
    /\ listed = IF engine = "pcap_file" THEN {} ELSE visible
    /\ \E keys \in IF engine = "pcap_file" THEN {{FileKey}}
                   ELSE IF "open" \in faults THEN (SUBSET visible) \ {{}} ELSE {visible} :
          /\ opened = [k \in HandleKeys |-> IF k \in keys THEN 1 ELSE 0]
          /\ handles = [k \in keys |-> 1]
    /\ shut = {}
    /\ readers = <<>>
    /\ monitor = "none"
    /\ pending = {}
    /\ listen = "starting"
    /\ cancelled = FALSE /\ quit = FALSE /\ closeDone = FALSE /\ closed = FALSE
    /\ inputClosed = FALSE
    /\ panicked = FALSE

-----------------------------------------------------------------------------
(* Listen *)

ListenStarts ==
    /\ listen = "starting"
    /\ readers' = SetToSeq({Reader(k, handles[k]) : k \in DOMAIN handles})
    /\ monitor' = "sleep"
    /\ listen' = "select"
    /\ UNCHANGED <<env, resources, listed, pending, signals, panicked>>

\* Mutant: the readers are not told.
ListenCancelled_NoQuit ==
    /\ listen = "select"
    /\ cancelled
    /\ listen' = "waiting"
    /\ UNCHANGED <<env, resources, readers, watch, signals, panicked>>

ListenCancelled ==
    /\ listen = "select"
    /\ cancelled
    /\ quit' = TRUE
    /\ listen' = "waiting"
    /\ UNCHANGED <<env, resources, readers, watch, cancelled, closeDone, closed,
                   inputClosed, panicked>>

ListenReturns ==
    /\ listen \in {"select", "waiting"}
    /\ closeDone
    /\ closed' = TRUE
    /\ listen' = "returned"
    /\ UNCHANGED <<env, resources, readers, watch, cancelled, quit, closeDone,
                   inputClosed, panicked>>

-----------------------------------------------------------------------------
(* The monitor *)

MonitorWakes ==
    /\ monitor = "sleep"
    /\ monitor' = IF closed THEN "ended" ELSE "listing"
    /\ UNCHANGED <<env, resources, readers, pending, listed, listen, signals, panicked>>

\* Mutant: every interface is taken for a new one.
SetInterfaces_AllNew(names) ==
    /\ listed' = names
    /\ pending' = names

\* setInterfaces; the new interfaces are those that were not listed before.
SetInterfaces(names) ==
    /\ listed' = names
    /\ pending' = names \ listed

MonitorLists ==
    /\ monitor = "listing"
    /\ SetInterfaces(visible)
    /\ monitor' = "activating"
    /\ UNCHANGED <<env, resources, readers, listen, signals, panicked>>

\* An error of FindAllDevs leaves l.Interfaces empty and is ignored.
MonitorListsNothing ==
    /\ monitor = "listing"
    /\ "list" \in faults /\ changes > 0
    /\ changes' = changes - 1
    /\ SetInterfaces({})
    /\ monitor' = "activating"
    /\ UNCHANGED <<engine, faults, visible, resources, readers, listen, signals, panicked>>

\* Mutant: the new interface is not activated.
MonitorActivates_Not(n) ==
    /\ monitor = "activating"
    /\ n \in pending
    /\ pending' = pending \ {n}
    /\ readers' = IF n \in DOMAIN handles
                  THEN Append(readers, Reader(n, handles[n])) ELSE readers
    /\ UNCHANGED <<env, resources, monitor, listed, listen, signals, panicked>>

\* One new interface: activate, which opens every handle that is missing, and
\* read the handle of this one.
MonitorActivates(n) ==
    /\ monitor = "activating"
    /\ n \in pending
    /\ pending' = pending \ {n}
    /\ Activate(listed)
    /\ readers' = IF n \in DOMAIN handles'
                  THEN Append(readers, Reader(n, handles'[n])) ELSE readers
    /\ UNCHANGED <<env, shut, monitor, listed, listen, signals, panicked>>

MonitorSleeps ==
    /\ monitor = "activating"
    /\ pending = {}
    /\ monitor' = "sleep"
    /\ UNCHANGED <<env, resources, readers, pending, listed, listen, signals, panicked>>

-----------------------------------------------------------------------------
(* readHandle *)

Stops(r) ==
    /\ readers[r].pc = "reading"
    /\ readers' = [readers EXCEPT ![r].pc = "closing"]
    /\ UNCHANGED <<env, resources, watch, listen, signals, panicked>>

\* Reading fails for good: the file is at its end or the interface is gone, which
\* the poll of a raw socket does not report.
ReadFails(r) ==
    /\ \/ "read" \in faults
       \/ engine = "pcap_file"
       \/ engine # "raw_socket" /\ readers[r].key \notin visible
    /\ Stops(r)

\* Another reader has closed the raw socket; its buffer is gone (sock_linux.go:142).
ReadPanics(r) ==
    /\ readers[r].pc = "reading"
    /\ <<readers[r].key, readers[r].handle>> \in shut
    /\ panicked' = TRUE
    /\ UNCHANGED <<env, resources, readers, watch, listen, signals>>

ReadQuits(r) == quit /\ Stops(r)

\* Mutant: the end is signalled with the first handle.
CloseHandles_First(r) ==
    LET key == readers[r].key
    IN /\ readers[r].pc = "closing"
       /\ readers' = [readers EXCEPT ![r].pc = "ended"]
       /\ IF key \in DOMAIN handles
          THEN /\ shut' = IF engine \in Closers THEN shut \cup {<<key, handles[key]>>} ELSE shut
               /\ handles' = Restrict(handles, DOMAIN handles \ {key})
               /\ closeDone' = TRUE
               /\ panicked' = closeDone
          ELSE UNCHANGED <<shut, handles, closeDone, panicked>>
       /\ UNCHANGED <<env, opened, watch, listen, cancelled, quit, closed, inputClosed>>

\* closeHandles, under the lock: it takes what is registered under the key, which
\* need not be the handle that was read, and closes it if it can be closed.
CloseHandles(r) ==
    LET key == readers[r].key
    IN /\ readers[r].pc = "closing"
       /\ readers' = [readers EXCEPT ![r].pc = "ended"]
       /\ IF key \in DOMAIN handles
          THEN /\ shut' = IF engine \in Closers THEN shut \cup {<<key, handles[key]>>} ELSE shut
               /\ handles' = Restrict(handles, DOMAIN handles \ {key})
               /\ closeDone' = (closeDone \/ DOMAIN handles' = {})
               /\ panicked' = (closeDone /\ DOMAIN handles' = {})
          ELSE UNCHANGED <<shut, handles, closeDone, panicked>>
       /\ UNCHANGED <<env, opened, watch, listen, cancelled, quit, closed, inputClosed>>

-----------------------------------------------------------------------------
(* RAWInput.Close: from the emitter, once the input was constructed, and from *)
(* the goroutine that waits for the end of Listen.                            *)

Close ==
    /\ ~inputClosed
    /\ cancelled' = TRUE
    /\ inputClosed' = TRUE
    /\ UNCHANGED <<env, resources, readers, watch, listen, quit, closeDone, closed, panicked>>

EmitterCloses == listen # "starting" /\ Close

ListenerEnded == listen = "returned" /\ Close

-----------------------------------------------------------------------------
(* The environment *)

Appear(n) ==
    /\ "appear" \in faults /\ changes > 0
    /\ n \in Names \ visible
    /\ visible' = visible \cup {n}
    /\ changes' = changes - 1
    /\ UNCHANGED <<engine, faults, resources, readers, watch, listen, signals, panicked>>

Vanish(n) ==
    /\ "vanish" \in faults /\ changes > 0
    /\ n \in visible
    /\ visible' = visible \ {n}
    /\ changes' = changes - 1
    /\ UNCHANGED <<engine, faults, resources, readers, watch, listen, signals, panicked>>

Monitor ==
    \/ MonitorWakes
    \/ MonitorLists
    \/ \E n \in Names : MonitorActivates(n)
    \/ MonitorSleeps

ListenerNext ==
    /\ ~panicked
    /\ \/ ListenStarts \/ ListenCancelled \/ ListenReturns
       \/ Monitor \/ MonitorListsNothing
       \/ \E r \in DOMAIN readers :
              ReadFails(r) \/ ReadPanics(r) \/ ReadQuits(r) \/ CloseHandles(r)
       \/ EmitterCloses \/ ListenerEnded
       \/ \E n \in Names : Appear(n) \/ Vanish(n)

ListenerSpec == ListenerInit /\ [][ListenerNext]_listenerVars

\* Closing a raw socket waits while another reader is in it.
Waits(r) ==
    /\ engine = "raw_socket" /\ readers[r].key \in DOMAIN handles
    /\ \E q \in DOMAIN readers \ {r} :
          readers[q] = Reader(readers[r].key, handles[readers[r].key])

\* What a reader does sooner or later, whether packets come or not.
ReaderProceeds(r) ==
    \/ engine \in Pollers /\ ReadQuits(r)
    \/ engine = "pcap_file" /\ ReadFails(r)
    \/ ~Waits(r) /\ CloseHandles(r)

\* Goroutines that can run do.  Where a read comes back quit is looked at, and a
\* file has an end.
ListenerFairness ==
    /\ WF_listenerVars(~panicked /\ ListenStarts)
    /\ WF_listenerVars(~panicked /\ (ListenCancelled \/ ListenReturns))
    /\ WF_listenerVars(~panicked /\ Monitor)
    /\ WF_listenerVars(~panicked /\ ListenerEnded)
    /\ \A r \in 1 .. Cardinality(Names) * (MaxChanges + 1) :
          WF_listenerVars(~panicked /\ r \in DOMAIN readers /\ ReaderProceeds(r))

ListenerFairSpec == ListenerSpec /\ ListenerFairness

-----------------------------------------------------------------------------
(* Properties *)

Running == {r \in DOMAIN readers : readers[r].pc # "ended"}

\* Interfaces are listed without error, and none comes up, or back.
Steady == engine # "pcap_file" /\ faults \cap {"appear", "list"} = {}

\* Every handle that is registered is read by a goroutine that has still to close
\* it, so that the number of handles counts down to zero; and no two goroutines
\* read one handle, each feeding a parser of its own, unless an interface that
\* seemed to be gone came back.
ReadByOne ==
    /\ Steady /\ listen # "starting" =>
          \A k \in DOMAIN handles : \E r \in Running :
              readers[r].key = k /\ readers[r].handle = handles[k]
    /\ faults \cap {"list", "vanish"} = {} =>
          \A r, s \in Running :
              readers[r].key = readers[s].key /\ readers[r].handle = readers[s].handle => r = s

\* close(l.closeDone) is called once and no closed socket is read, either of which
\* would end the program; and when Listen returns no handle is read any more, and
\* those that can be closed are, all that were ever opened (capture.go:243).
ClosedOnce ==
    Steady \/ engine = "pcap_file" =>
        /\ ~panicked
        /\ listen = "returned" => Running = {}
        /\ listen = "returned" /\ engine \in Closers =>
              \A k \in HandleKeys : \A g \in 1 .. opened[k] : <<k, g>> \in shut

\* After the input is closed Listen returns (capture.go:187).
ReturnsWhenDone == cancelled ~> (listen = "returned")

\* As long as the interfaces stay as they were it does, with an engine whose reads
\* come back; and with any, when the last reader has ended of its own accord, Listen
\* returns and the input is closed as well, so that its PluginRead ends.
ReturnsIfSteady ==
    /\ Steady \/ engine = "pcap_file"
    /\ \/ cancelled /\ engine \in Pollers
       \/ listen # "starting" /\ Running = {}
    ~> (listen = "returned" /\ inputClosed)

\* An interface that comes up and stays up is read sooner or later, even when
\* listing the interfaces fails at times.
NewIsRead ==
    engine # "pcap_file" /\ faults \subseteq {"appear", "list"} =>
        \A n \in Names :
            (n \in visible) ~> \/ n \notin visible
                               \/ cancelled
                               \/ \E r \in Running : readers[r].key = n
=============================================================================
