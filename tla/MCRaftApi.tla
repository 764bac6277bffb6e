------------------------------ MODULE MCRaftApi ------------------------------
EXTENDS RaftApi, TLC

\* Two calls at a time, of the kinds that meet in one mechanism: a write and
\* what waits for it, calls that a shutdown or a failure overtakes, calls of
\* the worker, two shutdowns. The tick runs beside some of them.
Pair(a, b, n) == [kinds |-> ("a" :> a) @@ ("b" :> b), ticks |-> n]

SomeLoads ==
    {Pair("write", "read", 0), Pair("write", "lease", 0), Pair("write", "wait", 0), Pair("write", "exact", 0),
     Pair("write", "append", 0), Pair("write", "shutdown", 0),
     Pair("state", "sm", 0), Pair("state", "snapshot", 1), Pair("sm", "shutdown", 0),
     Pair("shutdown", "shutdown", 1), Pair("transfer", "trigger", 0),
     Pair("transfer", "shutdown", 0), Pair("read", "shutdown", 0),
     Pair("wait", "state", 0), Pair("trigger", "state", 2)}
=============================================================================
