---------------------------- MODULE MCForkServer ----------------------------
(* Two threads, one with a Runner that keeps its sandbox on a bwrap fork    *)
(* server, one that asks for a new sandbox of either kind at each call.    *)
EXTENDS ForkServer
CONSTANTS t1, t2
SameLimits == [t \in {t1, t2} |-> 1]
Asked == [t \in {t1, t2} |-> IF t = t1 THEN {"persistent"} ELSE {"persistent", "bwrap"}]
Calls == [t \in {t1, t2} |-> IF t = t1 THEN 2 ELSE 1]
=============================================================================
