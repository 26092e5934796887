------------------------------ MODULE MC_Ingest ------------------------------
\* One connection or two, of one record or two; with and without a limiter and a
\* middleware.
EXTENDS Ingest

MCConns == {"c1", "c2", "c3"}
MCSent == [c1 |-> <<"a1", "a2">>, c2 |-> <<"b1">>, c3 |-> <<"d1">>]
S(kind, limited, limit, middleware, conns) ==
    [kind |-> kind, limited |-> limited, limit |-> limit, middleware |-> middleware, conns |-> conns]
MCSetups == {S("tcp", FALSE, 0, FALSE, {"c1", "c2"}), S("tcp", TRUE, 2, FALSE, {"c1", "c2"}),
             S("http", TRUE, 0, FALSE, {"c1", "c2"}), S("http", FALSE, 0, TRUE, {"c2", "c3"}),
             S("tcp", FALSE, 0, TRUE, {"c1"}), S("http", TRUE, 2, TRUE, {"c2"})}
LimitedSetup == {S("tcp", TRUE, 2, FALSE, {"c1", "c2"})}
=============================================================================
