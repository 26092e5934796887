-------------------------- MODULE MC_CaptureToPool ---------------------------
\* The handles traffic is captured from, what the modifier makes of it, and the pool
\* that sends it.  They share nothing but the messages, and so one run checks them
\* all: in a behaviour one of them runs and the others are over.
EXTENDS MC_HTTPModifier, MC_HTTPOutput, MC_Listener

ModifierOver == config = None /\ original = <<Other("x")>> /\ payload = <<>> /\ step = "dropped"

PoolOver ==
    /\ queue = <<>> /\ responses = <<>>
    /\ active = 0 /\ workers = 0
    /\ sending = {} /\ answering = {} /\ done = {} /\ offered = {}
    /\ writer = [w \in Writers |-> [Ready EXCEPT !.pc = "ended"]]
    /\ master = "returned"
    /\ stop = TRUE /\ stopWorker = TRUE

ListenerOver ==
    /\ engine = "pcap" /\ faults = {} /\ changes = 0
    /\ visible = {} /\ listed = {} /\ pending = {}
    /\ opened = [k \in HandleKeys |-> 0] /\ handles = <<>> /\ shut = {}
    /\ readers = <<>> /\ monitor = "ended" /\ listen = "returned"
    /\ cancelled = TRUE /\ quit = TRUE /\ closeDone = TRUE /\ closed = TRUE
    /\ inputClosed = TRUE /\ panicked = FALSE

PathInit ==
    \/ ModifierInit /\ PoolOver /\ ListenerOver
    \/ Init /\ ModifierOver /\ ListenerOver
    \/ ListenerInit /\ ModifierOver /\ PoolOver

\* The next-state relations of the three, action by action.
PathNext ==
    \/ Modify /\ UNCHANGED <<vars, listenerVars>>
    \/ Prettify /\ UNCHANGED <<vars, listenerVars>>
    \/ \E w \in Writers, msg \in Msgs : Enqueue(w, msg) /\ UNCHANGED <<modifierVars, listenerVars>>
    \/ \E w \in Writers, msg \in Msgs : Skip(w, msg) /\ UNCHANGED <<modifierVars, listenerVars>>
    \/ \E w \in Writers : Refuse(w) /\ UNCHANGED <<modifierVars, listenerVars>>
    \/ \E w \in Writers : Load(w) /\ UNCHANGED <<modifierVars, listenerVars>>
    \/ \E w \in Writers : Compare(w) /\ UNCHANGED <<modifierVars, listenerVars>>
    \/ \E w \in Writers : Extra(w) /\ UNCHANGED <<modifierVars, listenerVars>>
    \/ \E w \in Writers : Start(w) /\ UNCHANGED <<modifierVars, listenerVars>>
    \/ \E w \in Writers : Count(w) /\ UNCHANGED <<modifierVars, listenerVars>>
    \/ Take /\ UNCHANGED <<modifierVars, listenerVars>>
    \/ \E msg \in Msgs : Finish(msg) /\ UNCHANGED <<modifierVars, listenerVars>>
    \/ \E msg \in Msgs : Answer(msg) /\ UNCHANGED <<modifierVars, listenerVars>>
    \/ \E msg \in Msgs : PutResponse(msg) /\ UNCHANGED <<modifierVars, listenerVars>>
    \/ ReadResponse /\ UNCHANGED <<modifierVars, listenerVars>>
    \/ WorkerReturns /\ UNCHANGED <<modifierVars, listenerVars>>
    \/ MasterTop /\ UNCHANGED <<modifierVars, listenerVars>>
    \/ MasterWakes /\ UNCHANGED <<modifierVars, listenerVars>>
    \/ Rollback /\ UNCHANGED <<modifierVars, listenerVars>>
    \/ StopOne /\ UNCHANGED <<modifierVars, listenerVars>>
    \/ MasterPanics /\ UNCHANGED <<modifierVars, listenerVars>>
    \/ Decrement /\ UNCHANGED <<modifierVars, listenerVars>>
    \/ CloseStop /\ UNCHANGED <<modifierVars, listenerVars>>
    \/ CloseStopWorker /\ UNCHANGED <<modifierVars, listenerVars>>
    \/ ~panicked /\ ListenStarts /\ UNCHANGED <<vars, modifierVars>>
    \/ ~panicked /\ ListenCancelled /\ UNCHANGED <<vars, modifierVars>>
    \/ ~panicked /\ ListenReturns /\ UNCHANGED <<vars, modifierVars>>
    \/ ~panicked /\ MonitorWakes /\ UNCHANGED <<vars, modifierVars>>
    \/ ~panicked /\ MonitorLists /\ UNCHANGED <<vars, modifierVars>>
    \/ \E n \in Names : ~panicked /\ MonitorActivates(n) /\ UNCHANGED <<vars, modifierVars>>
    \/ ~panicked /\ MonitorSleeps /\ UNCHANGED <<vars, modifierVars>>
    \/ ~panicked /\ MonitorListsNothing /\ UNCHANGED <<vars, modifierVars>>
    \/ \E r \in DOMAIN readers : ~panicked /\ ReadFails(r) /\ UNCHANGED <<vars, modifierVars>>
    \/ \E r \in DOMAIN readers : ~panicked /\ ReadPanics(r) /\ UNCHANGED <<vars, modifierVars>>
    \/ \E r \in DOMAIN readers : ~panicked /\ ReadQuits(r) /\ UNCHANGED <<vars, modifierVars>>
    \/ \E r \in DOMAIN readers : ~panicked /\ CloseHandles(r) /\ UNCHANGED <<vars, modifierVars>>
    \/ ~panicked /\ EmitterCloses /\ UNCHANGED <<vars, modifierVars>>
    \/ ~panicked /\ ListenerEnded /\ UNCHANGED <<vars, modifierVars>>
    \/ \E n \in Names : ~panicked /\ Appear(n) /\ UNCHANGED <<vars, modifierVars>>
    \/ \E n \in Names : ~panicked /\ Vanish(n) /\ UNCHANGED <<vars, modifierVars>>

PathSpec == /\ PathInit /\ [][PathNext]_<<modifierVars, vars, listenerVars>>
            /\ PoolFairness /\ ListenerFairness
=============================================================================
