---------------------------- MODULE ClaimPromise ----------------------------
(***************************************************************************)
(* What the claim lifecycle promises a reviewer (docstring and transition  *)
(* table of control_plane/claims.py), without ledger, engine or requests:  *)
(*                                                                         *)
(*   - a claim is opened once and then moves only along the table;         *)
(*   - what it states never changes after it was opened;                   *)
(*   - a claim is published only while locked, and always as the same      *)
(*     package: its entry together with the trail that led to the lock.    *)
(*                                                                         *)
(* ClaimLedger implements this specification when requests are served one  *)
(* at a time.                                                              *)
(***************************************************************************)
EXTENDS Sequences

CONSTANTS Claims,       \* claim ids
          Contents,     \* what a claim may state
          Events,       \* the transitions of the lifecycle table, with who made them
          NoOne,        \* locked_by of a claim nobody locked
          Blank         \* content of a claim that was never opened

VARIABLES claim,      \* [Claims -> entry]
          trail,      \* [Claims -> the transitions it made, in order]
          published   \* [Claims -> the packages it was exported as]

vars == <<claim, trail, published>>

Unopened == [status |-> "absent", content |-> Blank, lockedBy |-> NoOne]

Init ==
  /\ claim = [c \in Claims |-> Unopened]
  /\ trail = [c \in Claims |-> <<>>]
  /\ published = [c \in Claims |-> {}]

Open(c) ==
  /\ claim[c] = Unopened
  /\ \E v \in Contents :
       claim' = [claim EXCEPT ![c] =
                   [status |-> "draft", content |-> v, lockedBy |-> NoOne]]
  /\ UNCHANGED <<trail, published>>

\* A lock names its confirmer; every other transition leaves lockedBy alone.
Move(c) ==
  \E e \in Events :
    /\ claim[c].status = e.from
    /\ (e.action = "lock") = (e.confirmer # NoOne)
    /\ claim' = [claim EXCEPT ![c].status = e.to,
                              ![c].lockedBy = IF e.action = "lock" THEN e.confirmer ELSE @]
    /\ trail' = [trail EXCEPT ![c] = Append(@, e)]
    /\ UNCHANGED published

Publish(C) ==
  /\ \A c \in C : claim[c].status = "locked"
  /\ published' = [c \in Claims |-> IF c \in C THEN {<<claim[c], trail[c]>>}
                                               ELSE published[c]]
  /\ UNCHANGED <<claim, trail>>

Next == \/ \E c \in Claims : Open(c) \/ Move(c)
        \/ \E C \in SUBSET Claims : Publish(C)

Spec == Init /\ [][Next]_vars
=============================================================================
