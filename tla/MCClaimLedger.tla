---------------------------- MODULE MCClaimLedger ----------------------------
(* Instances of ClaimLedger for TLC: who opened which claim. *)
EXTENDS ClaimLedger, TLC

CONSTANTS ana, con,  \* people: analyst and controller
          w1, w2     \* workers

\* Every claim was opened by the analyst.
OpenedByAnalyst == [c \in Claims |-> ana]

\* The workers of a concurrent run are interchangeable.
WorkerSymmetry == Permutations(Workers)
=============================================================================
