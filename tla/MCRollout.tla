----------------------------- MODULE MCRollout -----------------------------
(* The registered kinds of environments, with their options, on short contexts. *)
EXTENDS Rollout

Option(kind, strict, attempts, stopThink, thinkTag, tools, complete) ==
  [kind |-> kind, strict |-> strict, attempts |-> attempts, stopThink |-> stopThink,
   thinkTag |-> thinkTag, tools |-> tools, complete |-> complete]

Swe == {Option(k, s, 1, FALSE, FALSE, FALSE, TRUE) : k \in {"swe", "testgen"}, s \in BOOLEAN}
Dialog ==
  {Option(k, FALSE, a, s, FALSE, t, TRUE) :
     k \in {"math", "lcb"}, a \in 1..3, s, t \in BOOLEAN}
Tagged == {Option("math", FALSE, a, FALSE, TRUE, FALSE, TRUE) : a \in 1..3}
Incomplete == {Option("swe", FALSE, 1, FALSE, FALSE, FALSE, FALSE)}

MCConfigs == Swe \cup Dialog \cup Tagged \cup Incomplete
MCObsLens == 1..2
=============================================================================
