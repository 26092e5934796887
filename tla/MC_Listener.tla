---------------------------- MODULE MC_Listener ----------------------------
(* Network interfaces and what happens to them, for the runs of Listener. *)
EXTENDS Listener

CONSTANTS e1, e2, e3

ThreeNames == {e1, e2, e3}
TwoNames == {e1, e2}

\* With every engine the interfaces stay and handles fail, or interfaces come up and
\* reading them fails.  Listing fails as well with pcap, and once with raw_socket,
\* where the interfaces that seemed gone are read twice.
EverySetting ==
    [engine : EngineKinds, visible : {{e1}, {e1, e2}}, changes : {2},
     faults : {{"open", "read", "vanish"}, {"appear", "read"}}]
    \cup {[engine |-> "pcap", visible |-> {e1}, changes |-> 2, faults |-> {"appear", "list"}],
          [engine |-> "raw_socket", visible |-> {e1, e2}, changes |-> 1, faults |-> {"list"}]}
AppearsRead ==
    [engine : {"pcap"}, visible : {{e1}, {e1, e2}}, changes : {1}, faults : {{"appear", "read"}}]
=============================================================================
