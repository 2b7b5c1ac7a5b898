---------------------- MODULE MCReconciliationAgents ----------------------
(* Instances of ReconciliationAgents for TLC: a verdict outlasts the run or *)
(* the missing scan it answers, as half-lives of 48, 24 and 12 hours have it. *)
EXTENDS ReconciliationAgents

CONSTANTS items, forecast,  \* entities with and without a key scan
          j1                \* the nightly job

ShortHorizons == [k \in Kinds |-> IF k = "disposition" THEN 2 ELSE 1]
=============================================================================
