-------------------------- MODULE GenbiServicesProofs --------------------------
(***************************************************************************)
(* Proofs about the GenBI services, for any constants: what is persisted   *)
(* agrees with the golden file it was compared with, has been earned or    *)
(* rests on a receipt of its own; an answer of the read-only executor is   *)
(* the whole result of a statement that was let through; a search returns  *)
(* what was allowed after the store answered, audited before the caller    *)
(* sees it; a quiet health report has listed and matched its tools; and    *)
(* the services behind one router keep these and what CoverageQueueProofs  *)
(* shows of the queue.                                                     *)
(***************************************************************************)
EXTENDS GenbiServices, CoverageQueueProofs, TLAPS

(***************************************************************************)
(* The promotion gate: the inductive invariant.                            *)
(***************************************************************************)
\* A lock comes with the redemption, so a call before it has none; a call that
\* waits for its receipt has a confirmer.
LocksComeLate ==
  \A c \in Calls :
    /\ calls[c].pc \in {"idle", "contracts", "execute", "harden", "receipt"} => ~calls[c].locked
    /\ calls[c].pc = "receipt" => calls[c].answer.by # NoOne

\* What hardening found of a call that is past it, as long as the golden file is
\* the one it was compared with.
Past == {"receipt", "persist", "record", "promoted"}
Upheld(c) ==
  LET a == calls[c].answer IN
  calls[c].pc \in Past /\ c \in steady /\ Matched(a.question) =>
    a.number \in golden[a.question] \/ (a.number = NoOne /\ a.by # NoOne)
Earned(c) ==
  LET a == calls[c].answer IN
  calls[c].pc \in Past /\ a.by = NoOne =>
    /\ a.rows >= 1
    /\ calls[c].pc # "promoted" => ~deployment.humanLock
    /\ c \in steady /\ Matched(a.question) => calls[c].parity = "match"
HardeningStands == \A c \in Calls : Upheld(c) /\ Earned(c)

\* The receipt behind a lock; key and policy are in force until the call is over.
Backs(x, c) ==
  /\ redeemed[x] = c /\ x \in signed
  /\ x.actor = calls[c].answer.by /\ x.args = Args(calls[c].answer)
  /\ calls[c].pc \in {"persist", "record"} =>
       x.key = KeyOf(deployment) /\ x.policy = PolicyVersion(deployment)
LocksAreBacked == \A c \in Calls : calls[c].locked => \E x \in DOMAIN redeemed : Backs(x, c)

GateInv == GateTypeOK /\ LocksComeLate /\ HardeningStands /\ LocksAreBacked

(***************************************************************************)
(* The verdict of the hardening.                                           *)
(***************************************************************************)
\* An answer that may proceed does not contradict the golden set; without a
\* confirmer it has rows, and parity when the golden set pins its question.
LEMMA Verdict ==
  ASSUME GateTypeOK, NEW c \in Calls, calls[c].pc = "harden",
         MayProceed(c), Parity(calls[c].answer) # "mismatch"
  PROVE  LET a == calls[c].answer IN
         /\ Matched(a.question) =>
              a.number \in golden[a.question] \/ (a.number = NoOne /\ a.by # NoOne)
         /\ a.by = NoOne => /\ a.rows >= 1 /\ ~deployment.humanLock
                            /\ Matched(a.question) => Parity(a) = "match"
<1> DEFINE a == calls[c].answer
<1>1. a \in Answers /\ a.rows \in Nat
  BY GateAssumption DEF GateTypeOK
<1>2. Parity(a) = "match" => Matched(a.question) /\ a.number \in golden[a.question]
  BY GateAssumption DEF Parity, Matched
<1>3. Matched(a.question) => Parity(a) = "match" \/ (Parity(a) = NoOne /\ a.number = NoOne)
  BY GateAssumption DEF Parity, Matched
<1>4. a.by = NoOne => Score(a) >= Floor(Domain(a)) /\ ~deployment.humanLock
  <2>1. calls[c] \in [pc : GateStages, answer : Answers \cup {NoOne},
                      receipt : signed \cup {NoOne}, certified : BOOLEAN,
                      parity : {NoOne, "match", "mismatch"}, locked : BOOLEAN,
                      reason : GateRefusals \cup {NoOne}]
    BY DEF GateTypeOK
  <2>2. Hardened(c).certified = (Score(a) >= Floor(Domain(a)))
    BY <2>1 DEF Hardened
  <2> QED
    BY <2>2 DEF MayProceed
<1>5. Matched(a.question) /\ a.by = NoOne => a.rows >= 1 /\ Parity(a) = "match"
  BY <1>1, <1>4 DEF Score, Floor, Domain
<1>6. ~Matched(a.question) /\ a.by = NoOne => a.rows >= 1
  BY <1>1, <1>2, <1>4 DEF Score, Floor, Domain
<1> QED
  BY <1>2, <1>3, <1>4, <1>5, <1>6

(***************************************************************************)
(* Initial states.                                                         *)
(***************************************************************************)
LEMMA GateInitHolds == GateInit => GateInv
<1> SUFFICES ASSUME GateInit PROVE GateInv
  OBVIOUS
<1> USE GateAssumption DEF GateInit, NoCall
<1>1. GateTypeOK
  BY DEF GateTypeOK, GateStages, GateRefusals
<1>2. LocksComeLate
  BY DEF LocksComeLate
<1>3. HardeningStands
  BY DEF HardeningStands, Upheld, Earned, Past
<1>4. LocksAreBacked
  BY DEF LocksAreBacked
<1> QED
  BY <1>1, <1>2, <1>3, <1>4 DEF GateInv

(***************************************************************************)
(* Steps that only move one call on.                                       *)
(***************************************************************************)
Aside == <<world, redeemed, steady>>
CallAs(receipts) ==
  [pc : GateStages, answer : Answers \cup {NoOne}, receipt : receipts \cup {NoOne},
   certified : BOOLEAN, parity : {NoOne, "match", "mismatch"}, locked : BOOLEAN,
   reason : GateRefusals \cup {NoOne}]

\* A backing outlasts a step that leaves receipt, answer and settings alone and
\* does not bring the call among those that persist.
LEMMA BackingKept ==
  ASSUME NEW d \in Calls, NEW x, Backs(x, d), redeemed'[x] = redeemed[x], signed \subseteq signed',
         deployment' = deployment, calls'[d].answer = calls[d].answer,
         calls'[d].pc \in {"persist", "record"} => calls[d].pc \in {"persist", "record"}
  PROVE  Backs(x, d)'
  BY DEF Backs, Args, KeyOf, PolicyVersion

\* A refused call claims nothing; its lock, if it has one, keeps its receipt.
LEMMA RejectKeeps ==
  ASSUME GateInv, NEW c \in Calls, NEW r \in GateRefusals, Reject(c, r), UNCHANGED Aside
  PROVE  GateInv'
<1> USE DEF GateInv, Reject, Aside, world
<1>0. /\ calls \in [Calls -> CallAs(signed)]
      /\ calls' = [calls EXCEPT ![c] = [calls[c] EXCEPT !.pc = "refused", !.reason = r]]
  BY DEF GateTypeOK, CallAs
<1>1. calls'[c].pc = "refused" /\ calls'[c].locked = calls[c].locked
        /\ calls'[c].answer = calls[c].answer
  BY <1>0 DEF CallAs
<1>2. \A d \in Calls : d # c => calls'[d] = calls[d]
  BY <1>0
<1>3. GateTypeOK'
  <2>1. [calls[c] EXCEPT !.pc = "refused", !.reason = r] \in CallAs(signed)
    BY <1>0 DEF CallAs, GateStages
  <2>2. calls' \in [Calls -> CallAs(signed)]
    BY <1>0, <2>1
  <2> QED
    BY <1>1, <1>2, <2>2 DEF GateTypeOK, CallAs
<1>4. LocksComeLate'
  BY <1>1, <1>2 DEF LocksComeLate
<1>5. HardeningStands'
  BY <1>1, <1>2 DEF HardeningStands, Upheld, Earned, Past, Matched
<1>6. LocksAreBacked'
  <2> SUFFICES ASSUME NEW d \in Calls, calls'[d].locked
               PROVE  \E x \in DOMAIN redeemed' : Backs(x, d)'
    BY DEF LocksAreBacked
  <2>1. PICK x \in DOMAIN redeemed : Backs(x, d)
    BY <1>1, <1>2 DEF LocksAreBacked
  <2>2. Backs(x, d)'
    BY <1>1, <1>2, <2>1, BackingKept
  <2> QED
    BY <2>1, <2>2
<1> QED
  BY <1>3, <1>4, <1>5, <1>6

\* Nor does a call claim more by going on, except past the hardening or the receipt.
LEMMA PassKeeps ==
  ASSUME GateInv, NEW c \in Calls, NEW pc \in GateStages, Pass(c, pc), UNCHANGED Aside,
         calls[c].answer \in Answers,
         \/ pc \in {"execute", "harden"} /\ calls[c].pc \in {"contracts", "execute"}
         \/ pc = "record" /\ calls[c].pc = "persist"
         \/ pc = "promoted" /\ calls[c].pc = "record"
  PROVE  GateInv'
<1> USE DEF GateInv, Pass, Aside, world
<1>0. /\ calls \in [Calls -> CallAs(signed)]
      /\ calls' = [calls EXCEPT ![c] = [calls[c] EXCEPT !.pc = pc]]
  BY DEF GateTypeOK, CallAs
<1>1. /\ calls'[c].pc = pc /\ calls'[c].locked = calls[c].locked
      /\ calls'[c].answer = calls[c].answer /\ calls'[c].parity = calls[c].parity
  BY <1>0 DEF CallAs
<1>2. \A d \in Calls : d # c => calls'[d] = calls[d]
  BY <1>0
<1>3. GateTypeOK'
  <2>1. [calls[c] EXCEPT !.pc = pc] \in CallAs(signed)
    BY <1>0 DEF CallAs
  <2>2. calls' \in [Calls -> CallAs(signed)]
    BY <1>0, <2>1
  <2> QED
    BY <1>1, <1>2, <2>2 DEF GateTypeOK, CallAs
<1>4. LocksComeLate'
  BY <1>1, <1>2 DEF LocksComeLate
<1>5. HardeningStands'
  <2>1. \A d \in Calls : calls'[d].pc \in Past => calls[d].pc \in Past
    BY <1>1, <1>2 DEF Past
  <2>2. \A d \in Calls : calls'[d].answer = calls[d].answer /\ calls'[d].parity = calls[d].parity
    BY <1>1, <1>2
  <2>3. \A d \in Calls : calls'[d].pc # "promoted" /\ calls'[d].pc \in Past => calls[d].pc # "promoted"
    BY <1>1, <1>2 DEF Past
  <2>4. \A d \in Calls : Upheld(d)'
    BY <2>1, <2>2 DEF HardeningStands, Upheld, Matched
  <2>5. \A d \in Calls : Earned(d)'
    BY <2>1, <2>2, <2>3 DEF HardeningStands, Earned, Matched
  <2> QED
    BY <2>4, <2>5 DEF HardeningStands
<1>6. LocksAreBacked'
  <2> SUFFICES ASSUME NEW d \in Calls, calls'[d].locked
               PROVE  \E x \in DOMAIN redeemed' : Backs(x, d)'
    BY DEF LocksAreBacked
  <2>1. PICK x \in DOMAIN redeemed : Backs(x, d)
    BY <1>1, <1>2 DEF LocksAreBacked
  <2>2. Backs(x, d)'
    BY <1>1, <1>2, <2>1, BackingKept
  <2> QED
    BY <2>1, <2>2
<1> QED
  BY <1>3, <1>4, <1>5, <1>6

(***************************************************************************)
(* Steps that make a call claim something.                                 *)
(***************************************************************************)
LEMMA PromoteKeeps ==
  ASSUME GateInv, NEW c \in Calls, NEW a \in Answers, NEW x \in signed \cup {NoOne},
         Promote(c, a, x)
  PROVE  GateInv'
<1> USE DEF GateInv, Promote, world
<1> DEFINE call == IF NoOne \in {KeyOf(deployment), deployment.database}
                   THEN [NoCall EXCEPT !.pc = "refused", !.reason = "settings"]
                   ELSE [NoCall EXCEPT !.pc = "contracts", !.answer = a, !.receipt = x]
<1>0. calls \in [Calls -> CallAs(signed)] /\ calls' = [calls EXCEPT ![c] = call]
  BY DEF GateTypeOK, CallAs
<1>1. /\ call \in CallAs(signed) /\ call.pc \in {"refused", "contracts"} /\ ~call.locked
      /\ call.pc = "contracts" => call.answer = a
  BY DEF CallAs, NoCall, GateStages, GateRefusals
<1> HIDE DEF call
<1>2. calls'[c] = call /\ \A d \in Calls : d # c => calls'[d] = calls[d]
  BY <1>0
<1>3. calls[c].pc = "idle" /\ UNCHANGED <<world, redeemed>> /\ steady' = steady \cup {c}
  OBVIOUS
<1>4. GateTypeOK'
  <2>1. calls' \in [Calls -> CallAs(signed)]
    BY <1>0, <1>1
  <2> QED
    BY <1>1, <1>2, <1>3, <2>1 DEF GateTypeOK, CallAs
<1>5. LocksComeLate'
  BY <1>1, <1>2 DEF LocksComeLate
<1>6. HardeningStands'
  BY <1>1, <1>2, <1>3 DEF HardeningStands, Upheld, Earned, Past, Matched
<1>7. LocksAreBacked'
  <2> SUFFICES ASSUME NEW d \in Calls, calls'[d].locked
               PROVE  \E y \in DOMAIN redeemed' : Backs(y, d)'
    BY DEF LocksAreBacked
  <2>1. d # c
    BY <1>1, <1>2
  <2>2. PICK y \in DOMAIN redeemed : Backs(y, d)
    BY <1>2, <2>1 DEF LocksAreBacked
  <2>3. Backs(y, d)'
    BY <1>2, <1>3, <2>1, <2>2, BackingKept
  <2> QED
    BY <2>2, <2>3
<1> QED
  BY <1>4, <1>5, <1>6, <1>7

LEMMA HardenKeeps ==
  ASSUME GateInv, NEW c \in Calls, HardenAnswer(c)
  PROVE  GateInv'
<1> USE DEF GateInv, HardenAnswer, world, Books
<1>1. CASE ~(~Raises /\ MayProceed(c) /\ Parity(calls[c].answer) # "mismatch")
  <2>1. PICK r \in GateRefusals : Reject(c, r)
    BY <1>1 DEF GateRefusals
  <2> QED
    BY <2>1, RejectKeeps DEF Aside
<1>2. CASE ~Raises /\ MayProceed(c) /\ Parity(calls[c].answer) # "mismatch"
  <2> DEFINE a == calls[c].answer
  <2>0. /\ calls \in [Calls -> CallAs(signed)]
        /\ calls' = [calls EXCEPT ![c] = Hardened(c)]
    BY <1>2 DEF GateTypeOK, CallAs
  <2>1. /\ Hardened(c) \in CallAs(signed)
        /\ Hardened(c).pc = IF a.by = NoOne THEN "persist" ELSE "receipt"
        /\ Hardened(c).answer = a /\ Hardened(c).parity = Parity(a)
        /\ Hardened(c).locked = calls[c].locked
    <3>1. Parity(a) \in {NoOne, "match", "mismatch"}
      BY DEF Parity
    <3>2. (Score(a) >= Floor(Domain(a))) \in BOOLEAN
      OBVIOUS
    <3> QED
      BY <2>0, <3>1, <3>2 DEF CallAs, Hardened, GateStages
  <2>2. calls'[c] = Hardened(c) /\ \A d \in Calls : d # c => calls'[d] = calls[d]
    BY <2>0
  <2>3. a \in Answers /\ calls[c].pc = "harden" /\ ~calls[c].locked
    BY DEF GateTypeOK, LocksComeLate
  <2>4. GateTypeOK'
    <3>1. calls' \in [Calls -> CallAs(signed)]
      BY <2>0, <2>1
    <3> QED
      BY <2>1, <2>2, <2>3, <3>1 DEF GateTypeOK, CallAs
  <2>5. LocksComeLate'
    BY <2>1, <2>2, <2>3 DEF LocksComeLate
  <2>6. HardeningStands'
    <3> SUFFICES ASSUME NEW d \in Calls PROVE Upheld(d)' /\ Earned(d)'
      BY DEF HardeningStands
    <3>1. CASE d # c
      BY <2>2, <3>1 DEF HardeningStands, Upheld, Earned, Matched
    <3>2. CASE d = c
      <4>1. /\ Matched(a.question) =>
                 a.number \in golden[a.question] \/ (a.number = NoOne /\ a.by # NoOne)
            /\ a.by = NoOne => /\ a.rows >= 1 /\ ~deployment.humanLock
                               /\ Matched(a.question) => Parity(a) = "match"
        BY <1>2, <2>3, Verdict
      <4> QED
        BY <2>1, <2>2, <3>2, <4>1 DEF Upheld, Earned, Matched
    <3> QED
      BY <3>1, <3>2
  <2>7. LocksAreBacked'
    <3> SUFFICES ASSUME NEW d \in Calls, calls'[d].locked
                 PROVE  \E y \in DOMAIN redeemed' : Backs(y, d)'
      BY DEF LocksAreBacked
    <3>1. d # c
      BY <2>1, <2>2, <2>3
    <3>2. PICK y \in DOMAIN redeemed : Backs(y, d)
      BY <2>2, <3>1 DEF LocksAreBacked
    <3>3. Backs(y, d)'
      BY <2>2, <3>1, <3>2, BackingKept
    <3> QED
      BY <3>2, <3>3
  <2> QED
    BY <2>4, <2>5, <2>6, <2>7
<1> QED
  BY <1>1, <1>2

\* The redemption is the lock's own: the receipt was unspent, so no other lock
\* rests on it.
LEMMA RedeemKeeps ==
  ASSUME GateInv, NEW c \in Calls, RedeemReceipt(c)
  PROVE  GateInv'
<1> USE DEF GateInv, world
<1> DEFINE x == calls[c].receipt
           a == calls[c].answer
           Good == /\ x \in signed /\ BindingMatches(x, a) /\ x \notin expired
                   /\ x \notin DOMAIN redeemed
<1>1. CASE ~Good
  <2>1. Reject(c, "receipt") /\ UNCHANGED Aside
    BY <1>1 DEF RedeemReceipt, Aside
  <2> QED
    BY <2>1, RejectKeeps DEF GateRefusals
<1>2. CASE Good
  <2>0. /\ calls \in [Calls -> CallAs(signed)] /\ calls[c].pc = "receipt"
        /\ calls' = [calls EXCEPT ![c] = [calls[c] EXCEPT !.pc = "persist", !.locked = TRUE]]
        /\ redeemed' = [y \in DOMAIN redeemed \cup {x} |-> IF y = x THEN c ELSE redeemed[y]]
        /\ UNCHANGED <<world, steady>>
    BY <1>2 DEF RedeemReceipt, GateTypeOK, CallAs
  <2>1. /\ calls'[c].pc = "persist" /\ calls'[c].answer = a
        /\ calls'[c].parity = calls[c].parity
    BY <2>0 DEF CallAs
  <2>2. \A d \in Calls : d # c => calls'[d] = calls[d]
    BY <2>0
  <2>3. /\ DOMAIN redeemed' = DOMAIN redeemed \cup {x} /\ redeemed'[x] = c
        /\ \A y \in DOMAIN redeemed : redeemed'[y] = redeemed[y]
    BY <1>2, <2>0
  <2>4. a \in Answers /\ a.by # NoOne
    BY <2>0 DEF GateTypeOK, LocksComeLate
  <2>5. GateTypeOK'
    <3>1. [calls[c] EXCEPT !.pc = "persist", !.locked = TRUE] \in CallAs(signed)
      BY <2>0 DEF CallAs, GateStages
    <3>2. calls' \in [Calls -> CallAs(signed)]
      BY <2>0, <3>1
    <3> QED
      BY <1>2, <2>0, <2>1, <2>2, <2>3, <2>4, <3>2 DEF GateTypeOK, CallAs
  <2>6. LocksComeLate'
    BY <2>1, <2>2 DEF LocksComeLate
  <2>7. HardeningStands'
    <3> SUFFICES ASSUME NEW d \in Calls PROVE Upheld(d)' /\ Earned(d)'
      BY DEF HardeningStands
    <3>1. CASE d # c
      BY <2>0, <2>2, <3>1 DEF HardeningStands, Upheld, Earned, Matched
    <3>2. CASE d = c
      BY <2>0, <2>1, <2>4, <3>2 DEF HardeningStands, Upheld, Earned, Past, Matched
    <3> QED
      BY <3>1, <3>2
  <2>8. LocksAreBacked'
    <3> SUFFICES ASSUME NEW d \in Calls, calls'[d].locked
                 PROVE  \E y \in DOMAIN redeemed' : Backs(y, d)'
      BY DEF LocksAreBacked
    <3>1. CASE d = c
      <4>1. PICK z \in DOMAIN redeemed' : z = x
        BY <2>3
      <4>2. Backs(z, c)'
        BY <1>2, <2>0, <2>1, <2>3, <4>1 DEF Backs, BindingMatches, Args, KeyOf, PolicyVersion
      <4> QED
        BY <3>1, <4>1, <4>2
    <3>2. CASE d # c
      <4>1. PICK y \in DOMAIN redeemed : Backs(y, d)
        BY <2>2, <3>2 DEF LocksAreBacked
      <4>2. Backs(y, d)'
        BY <2>0, <2>2, <2>3, <3>2, <4>1, BackingKept
      <4> QED
        BY <2>3, <4>1, <4>2
    <3> QED
      BY <3>1, <3>2
  <2> QED
    BY <2>5, <2>6, <2>7, <2>8
<1> QED
  BY <1>1, <1>2

(***************************************************************************)
(* What changes around the calls.                                          *)
(***************************************************************************)
\* New or expired receipts take nothing from the calls.
LEMMA ReceiptsKeep ==
  ASSUME GateInv, signed \subseteq signed', UNCHANGED <<deployment, golden, calls, redeemed, steady>>
  PROVE  GateInv'
<1> USE DEF GateInv
<1>1. GateTypeOK'
  BY DEF GateTypeOK
<1>2. LocksComeLate'
  BY DEF LocksComeLate
<1>3. HardeningStands'
  BY DEF HardeningStands, Upheld, Earned, Matched
<1>4. LocksAreBacked'
  <2> SUFFICES ASSUME NEW d \in Calls, calls[d].locked
               PROVE  \E y \in DOMAIN redeemed' : Backs(y, d)'
    BY DEF LocksAreBacked
  <2>1. PICK y \in DOMAIN redeemed : Backs(y, d)
    BY DEF LocksAreBacked
  <2>2. Backs(y, d)'
    BY <2>1, BackingKept
  <2> QED
    BY <2>1, <2>2
<1> QED
  BY <1>1, <1>2, <1>3, <1>4

\* A new golden file takes the old one's word from every call.
LEMMA GoldenKeeps ==
  ASSUME GateInv, NEW g \in Goldens \cup {Unusable, Unparsable}, ReplaceGolden(g)
  PROVE  GateInv'
<1> USE DEF GateInv, ReplaceGolden
<1>1. GateTypeOK'
  BY DEF GateTypeOK
<1>2. LocksComeLate'
  BY DEF LocksComeLate
<1>3. HardeningStands'
  BY DEF HardeningStands, Upheld, Earned
<1>4. LocksAreBacked'
  <2> SUFFICES ASSUME NEW d \in Calls, calls[d].locked
               PROVE  \E y \in DOMAIN redeemed' : Backs(y, d)'
    BY DEF LocksAreBacked
  <2>1. PICK y \in DOMAIN redeemed : Backs(y, d)
    BY DEF LocksAreBacked
  <2>2. Backs(y, d)'
    BY <2>1, BackingKept
  <2> QED
    BY <2>1, <2>2
<1> QED
  BY <1>1, <1>2, <1>3, <1>4

\* A redeployment ends every call that depends on settings.
LEMMA RedeployKeeps ==
  ASSUME GateInv, NEW d \in Deployments, Redeploy(d)
  PROVE  GateInv'
<1> USE DEF GateInv, Redeploy
<1>0. calls \in [Calls -> CallAs(signed)]
  BY DEF GateTypeOK, CallAs
<1>1. \A c \in Calls :
        /\ calls'[c].locked = calls[c].locked /\ calls'[c].answer = calls[c].answer
        /\ calls'[c].pc \in {"idle", "refused", "promoted"}
        /\ calls'[c].pc # "refused" => calls'[c] = calls[c]
  BY <1>0 DEF CallAs
<1>2. GateTypeOK'
  <2>1. \A c \in Calls : [calls[c] EXCEPT !.pc = "refused", !.reason = "died"] \in CallAs(signed)
    <3> SUFFICES ASSUME NEW c \in Calls
                 PROVE  [calls[c] EXCEPT !.pc = "refused", !.reason = "died"] \in CallAs(signed)
      OBVIOUS
    <3>1. calls[c] \in CallAs(signed)
      BY <1>0
    <3>2. "refused" \in GateStages /\ "died" \in GateRefusals
      BY DEF GateStages, GateRefusals
    <3> QED
      BY <3>1, <3>2 DEF CallAs
  <2>2. calls' \in [Calls -> CallAs(signed)]
    BY <1>0, <2>1
  <2> QED
    BY <1>1, <2>2 DEF GateTypeOK, CallAs
<1>3. LocksComeLate'
  BY <1>1 DEF LocksComeLate
<1>4. HardeningStands'
  BY <1>1 DEF HardeningStands, Upheld, Earned, Past, Matched
<1>5. LocksAreBacked'
  <2> SUFFICES ASSUME NEW e \in Calls, calls'[e].locked
               PROVE  \E y \in DOMAIN redeemed' : Backs(y, e)'
    BY DEF LocksAreBacked
  <2>1. PICK y \in DOMAIN redeemed : Backs(y, e)
    BY <1>1 DEF LocksAreBacked
  <2>2. Backs(y, e)'
    BY <1>1, <2>1 DEF Backs, Args
  <2> QED
    BY <2>1, <2>2
<1> QED
  BY <1>2, <1>3, <1>4, <1>5

(***************************************************************************)
(* Every step, and the theorems.                                           *)
(***************************************************************************)
LEMMA GateNextKeeps == GateInv /\ [GateNext]_gateVars => GateInv'
<1> SUFFICES ASSUME GateInv, [GateNext]_gateVars PROVE GateInv'
  OBVIOUS
<1>1. ASSUME NEW c \in Calls, calls[c].pc \notin {"idle", "refused"}
      PROVE  calls[c].answer \in Answers
  BY <1>1 DEF GateInv, GateTypeOK
<1>2. ASSUME NEW c \in Calls, NEW a \in Answers, NEW x \in signed \cup {NoOne}, Promote(c, a, x)
      PROVE  GateInv'
  BY <1>2, PromoteKeeps
<1>3. ASSUME NEW c \in Calls, OpenR0(c) PROVE GateInv'
  <2>1. \/ Pass(c, "execute")
        \/ \E r \in GateRefusals : Reject(c, r)
    BY <1>3 DEF OpenR0, GateRefusals
  <2>2. calls[c].answer \in Answers /\ calls[c].pc = "contracts" /\ UNCHANGED Aside
    BY <1>1, <1>3 DEF OpenR0, Books, Aside
  <2> QED
    BY <2>1, <2>2, PassKeeps, RejectKeeps DEF GateStages
<1>4. ASSUME NEW c \in Calls, ExecuteAnswer(c) PROVE GateInv'
  <2>1. calls[c].answer \in Answers /\ calls[c].pc = "execute" /\ UNCHANGED Aside
    BY <1>1, <1>4 DEF ExecuteAnswer, Books, Aside
  <2> QED
    BY <1>4, <2>1, PassKeeps, RejectKeeps DEF ExecuteAnswer, GateStages, GateRefusals
<1>5. ASSUME NEW c \in Calls, HardenAnswer(c) PROVE GateInv'
  BY <1>5, HardenKeeps
<1>6. ASSUME NEW c \in Calls, RedeemReceipt(c) PROVE GateInv'
  BY <1>6, RedeemKeeps
<1>7. ASSUME NEW c \in Calls, Persist(c) PROVE GateInv'
  <2>1. calls[c].answer \in Answers /\ calls[c].pc = "persist" /\ UNCHANGED Aside
    BY <1>1, <1>7 DEF Persist, Books, Aside
  <2> QED
    BY <1>7, <2>1, PassKeeps, RejectKeeps DEF Persist, GateStages, GateRefusals
<1>8. ASSUME NEW c \in Calls, RecordDecision(c) PROVE GateInv'
  <2>1. calls[c].answer \in Answers /\ calls[c].pc = "record" /\ UNCHANGED Aside
    BY <1>1, <1>8 DEF RecordDecision, Aside
  <2> QED
    BY <1>8, <2>1, PassKeeps DEF RecordDecision, GateStages
<1>9. ASSUME NEW a \in Answers, Sign(a, a.by) PROVE GateInv'
  BY <1>9, ReceiptsKeep DEF Sign, Books
<1>10. ASSUME NEW g \in Goldens \cup {Unusable, Unparsable}, ReplaceGolden(g) PROVE GateInv'
  BY <1>10, GoldenKeeps
<1>11. ASSUME NEW d \in Deployments, Redeploy(d) PROVE GateInv'
  BY <1>11, RedeployKeeps
<1>12. ASSUME NEW x \in signed \ expired, ExpireReceipt(x) PROVE GateInv'
  BY <1>12, ReceiptsKeep DEF ExpireReceipt
<1>13. CASE UNCHANGED gateVars
  BY <1>13, ReceiptsKeep DEF gateVars
<1> QED
  BY <1>2, <1>3, <1>4, <1>5, <1>6, <1>7, <1>8, <1>9, <1>10, <1>11, <1>12, <1>13 DEF GateNext

\* Calls, receipts and the golden file always have their shape.
THEOREM GateTypeCorrect == GateSpec => []GateTypeOK
<1>1. GateInv => GateTypeOK
  BY DEF GateInv
<1> QED
  BY <1>1, GateInitHolds, GateNextKeeps, PTL DEF GateSpec

\* Nothing that contradicts a golden file in force is persisted, whoever confirms
\* it, and nothing that cannot be compared with it is persisted unconfirmed.
THEOREM PinnedTruthHolds == GateSpec => []PinnedTruthPrevails
<1>1. GateInv => PinnedTruthPrevails
  BY DEF GateInv, GateTypeOK, HardeningStands, Upheld, Past, PinnedTruthPrevails
<1> QED
  BY <1>1, GateInitHolds, GateNextKeeps, PTL DEF GateSpec

\* An answer that certified itself earned it.
THEOREM SelfCertificationIsEarned == GateSpec => []SelfCertifiedIsEarned
<1>1. GateInv => SelfCertifiedIsEarned
  BY DEF GateInv, HardeningStands, Earned, Past, SelfCertifiedIsEarned
<1> QED
  BY <1>1, GateInitHolds, GateNextKeeps, PTL DEF GateSpec

\* A lock rests on a receipt of its own, for these arguments, key and policy.
THEOREM LocksBacked == GateSpec => []LockIsBacked
<1>1. GateInv => LockIsBacked
  BY DEF GateInv, LocksAreBacked, Backs, LockIsBacked
<1> QED
  BY <1>1, GateInitHolds, GateNextKeeps, PTL DEF GateSpec

(***************************************************************************)
(* Read-only execution: the inductive invariant.                           *)
(***************************************************************************)
\* The rows that the worker fetches of a statement: one more than the cap at most.
Fetched(s) == IF s.rows > RowCap THEN RowCap + 1 ELSE s.rows

\* A call that waits was let through, nobody has cut its worker off, and a worker
\* that ended without an error has put in the box what it fetched.
WaitsForWhole ==
  caller.pc = "join" =>
    /\ caller.statement \in Statements /\ Refusal(caller.statement, caller.uri) = {}
    /\ cutOff = Nothing /\ ~interrupted
    /\ worker = "ended" /\ ~box.error =>
         /\ caller.statement.valid /\ caller.statement.rows \in Nat
         /\ box.rows = Fetched(caller.statement)

\* Before the call there is no worker, and nothing has been cut off; a call
\* that waits has a worker, and a worker a statement.
WorkerOfCall ==
  /\ caller.pc = "idle" => worker = "none" /\ cutOff = Nothing /\ ~interrupted
  /\ caller.pc \in {"join", "late", "grace"} => worker # "none"
  /\ worker # "none" => caller.statement \in Statements

\* An outcome comes with the end of the call.
OutcomeAtEnd == caller.pc # "ended" => caller.outcome = Nothing

ExecutionInv ==
  /\ ExecutionTypeOK /\ WaitsForWhole /\ WorkerOfCall /\ OutcomeAtEnd /\ ResultIsWhole

LEMMA ExecutionInitHolds == ExecutionInit => ExecutionInv
<1> SUFFICES ASSUME ExecutionInit PROVE ExecutionInv
  OBVIOUS
<1> USE DEF ExecutionInit
<1>1. ExecutionTypeOK
  BY DEF ExecutionTypeOK
<1>2. WaitsForWhole /\ WorkerOfCall /\ OutcomeAtEnd
  BY DEF WaitsForWhole, WorkerOfCall, OutcomeAtEnd
<1>3. ResultIsWhole
  <2>1. caller.outcome # "Result"
    BY ExecutionAssumption
  <2> QED
    BY <2>1 DEF ResultIsWhole
<1> QED
  BY <1>1, <1>2, <1>3 DEF ExecutionInv

\* The outcomes of a refused statement are not "Result".
LEMMA RefusalsAreRefusals ==
  ASSUME NEW s \in Statements, NEW u \in Uris
  PROVE  Refusal(s, u) \subseteq {"NotReadOnlyUri", "NotSelectOnly", "MultipleStatements"}
  BY DEF Refusal, UriRefusal, StatementRefusal

(***************************************************************************)
(* The steps.                                                              *)
(***************************************************************************)
\* A worker that ends does not disturb a caller that no longer waits for it, and
\* one that the caller waits for leaves an error or all that it fetched.
LEMMA StopKeeps ==
  ASSUME ExecutionInv, worker \notin {"none", "ended"}, NEW e \in BOOLEAN, NEW n \in Nat, Stop(e, n),
         ~e => caller.statement.valid /\ caller.statement.rows \in Nat /\ n = Fetched(caller.statement)
  PROVE  ExecutionInv'
<1> USE DEF ExecutionInv, Stop
<1>1. ExecutionTypeOK'
  BY DEF ExecutionTypeOK
<1>2. WaitsForWhole'
  BY DEF ExecutionTypeOK, WaitsForWhole, Fetched
<1>3. WorkerOfCall' /\ OutcomeAtEnd' /\ ResultIsWhole'
  BY DEF WorkerOfCall, OutcomeAtEnd, ResultIsWhole
<1> QED
  BY <1>1, <1>2, <1>3

\* A worker that goes on leaves everything to its end.
LEMMA WorkKeeps ==
  ASSUME ExecutionInv, worker \notin {"none", "ended"},
         worker' \in {"connected", "boxed", "executing"},
         box' \in {box, [box EXCEPT !.connection = TRUE]},
         UNCHANGED <<caller, interrupted, cutOff>>
  PROVE  ExecutionInv'
<1> USE DEF ExecutionInv
<1>1. ExecutionTypeOK'
  <2>1. box \in [connection : BOOLEAN, error : BOOLEAN, rows : Nat]
    BY DEF ExecutionTypeOK
  <2>2. box' \in [connection : BOOLEAN, error : BOOLEAN, rows : Nat]
    BY <2>1
  <2> QED
    BY <2>2 DEF ExecutionTypeOK
<1>2. WaitsForWhole'
  BY DEF WaitsForWhole
<1>3. WorkerOfCall'
  BY DEF ExecutionTypeOK, WorkerOfCall
<1>4. OutcomeAtEnd'
  BY DEF ExecutionTypeOK, OutcomeAtEnd
<1>5. ResultIsWhole'
  BY DEF ResultIsWhole
<1> QED
  BY <1>1, <1>2, <1>3, <1>4, <1>5

\* The caller's end with anything but an answer.
LEMMA EndKeeps ==
  ASSUME ExecutionInv, NEW outcome \in {"QueryFailed", "RowCapExceeded", "StatementTimeout"},
         End(outcome, 0), caller.pc \in {"join", "late", "grace"}, cutOff' \in {cutOff, worker},
         UNCHANGED <<worker, box, interrupted>>
  PROVE  ExecutionInv'
<1> USE DEF ExecutionInv, End
<1>0. worker \in {"none", "connecting", "connected", "boxed", "executing", "ended"}
  BY DEF ExecutionTypeOK
<1>1. ExecutionTypeOK'
  BY <1>0 DEF ExecutionTypeOK, WorkerOfCall
<1>2. caller'.pc = "ended" /\ caller'.outcome = outcome /\ caller'.statement = caller.statement
  BY DEF ExecutionTypeOK
<1>3. WaitsForWhole' /\ WorkerOfCall' /\ OutcomeAtEnd' /\ ResultIsWhole'
  BY <1>2 DEF WaitsForWhole, WorkerOfCall, OutcomeAtEnd, ResultIsWhole
<1> QED
  BY <1>1, <1>3

LEMMA ExecutionNextKeeps == ExecutionInv /\ [ExecutionNext]_executionVars => ExecutionInv'
<1> SUFFICES ASSUME ExecutionInv, [ExecutionNext]_executionVars PROVE ExecutionInv'
  OBVIOUS
<1> USE DEF ExecutionInv
<1>1. ASSUME NEW s \in Statements, NEW u \in Uris, RefuseStatement(s, u) PROVE ExecutionInv'
  <2>1. PICK r \in Refusal(s, u) :
          caller' = [caller EXCEPT !.pc = "ended", !.statement = s, !.uri = u, !.outcome = r]
    BY <1>1 DEF RefuseStatement
  <2>2. r \in {"NotReadOnlyUri", "NotSelectOnly", "MultipleStatements"}
    BY RefusalsAreRefusals
  <2> QED
    BY <1>1, <2>1, <2>2
    DEF RefuseStatement, ExecutionTypeOK, WaitsForWhole, WorkerOfCall, OutcomeAtEnd, ResultIsWhole
<1>2. ASSUME NEW s \in Statements, NEW u \in Uris, StartWorker(s, u) PROVE ExecutionInv'
  <2>1. ExecutionTypeOK'
    BY <1>2 DEF StartWorker, ExecutionTypeOK
  <2>2. /\ caller'.pc = "join" /\ caller'.statement = s /\ caller'.uri = u
        /\ caller'.outcome = Nothing /\ worker' = "connecting" /\ Refusal(s, u) = {}
        /\ cutOff' = Nothing /\ ~interrupted'
    BY <1>2 DEF StartWorker, ExecutionTypeOK, WorkerOfCall, OutcomeAtEnd
  <2>3. WaitsForWhole' /\ WorkerOfCall' /\ OutcomeAtEnd' /\ ResultIsWhole'
    BY <2>2, ExecutionAssumption DEF WaitsForWhole, WorkerOfCall, OutcomeAtEnd, ResultIsWhole
  <2> QED
    BY <2>1, <2>3
<1>3. CASE Joined
  <2>1. CASE box.error
    <3>1. End("QueryFailed", 0)
      BY <1>3, <2>1 DEF Joined
    <3> QED
      BY <1>3, <3>1, EndKeeps DEF Joined
  <2>2. CASE ~box.error /\ box.rows > RowCap
    <3>1. End("RowCapExceeded", 0)
      BY <1>3, <2>2 DEF Joined
    <3> QED
      BY <1>3, <3>1, EndKeeps DEF Joined
  <2>3. CASE ~box.error /\ ~(box.rows > RowCap)
    <3>1. End("Result", box.rows)
      BY <1>3, <2>3 DEF Joined
    <3>2. /\ box.rows = caller.statement.rows /\ box.rows <= RowCap
          /\ caller.statement.valid /\ Refusal(caller.statement, caller.uri) = {}
          /\ cutOff = Nothing /\ ~interrupted
      BY <1>3, <2>3, ExecutionAssumption DEF Joined, WaitsForWhole, Fetched
    <3> QED
      BY <1>3, <3>1, <3>2
      DEF Joined, End, ExecutionTypeOK, WaitsForWhole, WorkerOfCall, OutcomeAtEnd, ResultIsWhole
  <2> QED
    BY <2>1, <2>2, <2>3
<1>4. CASE Deadline
  BY <1>4 DEF Deadline, ExecutionTypeOK, WaitsForWhole, WorkerOfCall, OutcomeAtEnd, ResultIsWhole
<1>5. CASE Interrupt
  <2>1. interrupted' \in BOOLEAN
    <3>1. interrupted' = (worker = "executing")
      BY <1>5 DEF Interrupt
    <3> QED
      BY <3>1
  <2>2. ExecutionTypeOK'
    BY <1>5, <2>1 DEF Interrupt, ExecutionTypeOK, WorkerOfCall
  <2>3. /\ caller'.pc = "grace" /\ caller'.outcome = Nothing
        /\ caller'.statement = caller.statement
    BY <1>5 DEF Interrupt, ExecutionTypeOK, OutcomeAtEnd
  <2>4. WaitsForWhole' /\ WorkerOfCall' /\ OutcomeAtEnd' /\ ResultIsWhole'
    BY <1>5, <2>3, ExecutionAssumption
    DEF Interrupt, WaitsForWhole, WorkerOfCall, OutcomeAtEnd, ResultIsWhole
  <2> QED
    BY <2>2, <2>4
<1>6. CASE LeaveWorker
  BY <1>6, EndKeeps DEF LeaveWorker
<1>7. CASE GraceOver
  BY <1>7, EndKeeps DEF GraceOver
<1>8. CASE WorkerStep
  <2>1. CASE ConnectFails
    BY <2>1, StopKeeps DEF ConnectFails
  <2>2. CASE Connect \/ PutInBox \/ ExecuteStatement
    BY <2>2, WorkKeeps DEF Connect, PutInBox, ExecuteStatement
  <2>3. CASE Fetch
    <3>1. caller.statement.rows \in Nat
      <4>1. caller.statement \in Statements
        BY <2>3 DEF Fetch, WorkerOfCall
      <4> QED
        BY <2>3, <4>1, ExecutionAssumption DEF Fetch
    <3>2. Fetched(caller.statement) \in Nat
      BY <3>1, ExecutionAssumption DEF Fetched
    <3>3. Stop(FALSE, Fetched(caller.statement)) /\ caller.statement.valid /\ worker = "executing"
      BY <2>3 DEF Fetch, Fetched
    <3> QED
      BY <3>1, <3>2, <3>3, StopKeeps
  <2>4. CASE EngineFails \/ Interrupted
    BY <2>4, StopKeeps DEF EngineFails, Interrupted
  <2> QED
    BY <1>8, <2>1, <2>2, <2>3, <2>4 DEF WorkerStep
<1>9. CASE UNCHANGED executionVars
  BY <1>9
  DEF executionVars, ExecutionTypeOK, WaitsForWhole, WorkerOfCall, OutcomeAtEnd, ResultIsWhole
<1> QED
  BY <1>1, <1>2, <1>3, <1>4, <1>5, <1>6, <1>7, <1>8, <1>9 DEF ExecutionNext, CallerStep

\* An answer of execute_readonly is the whole result of a statement that passed
\* every check, with at most row_cap rows, whenever the deadline comes.
THEOREM ResultWhole == ExecutionSpec => []ResultIsWhole
<1>1. ExecutionInv => ResultIsWhole
  BY DEF ExecutionInv
<1> QED
  BY <1>1, ExecutionInitHolds, ExecutionNextKeeps, PTL DEF ExecutionSpec

(***************************************************************************)
(* Data room search: the inductive invariant.                              *)
(***************************************************************************)
SearchShapes == [pc : {"idle", "grants", "query", "verify", "audit", "answered", "raised"},
           principal : Principals \cup {NoEntry}, room : Rooms \cup {NoEntry}, limit : Nat,
           granted : SUBSET Documents,
           hits : SUBSET [doc : Documents, room : Rooms \cup {"stripped", NoEntry}],
           kept : SUBSET Documents, removed : SUBSET Documents,
           outcome : {NoEntry, "policy_unavailable", "no_grants", "store_unavailable",
                      "executed", "post_verify_removed"}]
RoomTypeOK ==
  /\ points \in [Documents -> Rooms \cup {"stripped", NoEntry}]
  /\ searches \in [Searches -> SearchShapes]
  /\ allowedSince \in [Searches -> SUBSET Documents]

\* Of a search whose hits are verified, what the policy allows now is among what
\* it allowed since the store answered; and what was kept always is.
KeptWasAllowed ==
  \A q \in Searches :
    /\ searches[q].pc = "verify" => AllowsNow(policy, searches[q]) \subseteq allowedSince[q]
    /\ searches[q].kept \subseteq allowedSince[q]
    /\ searches[q].pc \in {"idle", "grants", "query"} => searches[q].kept = {}

\* The trail knows a search from its audit on, and no sooner.
AuditedOnce ==
  \A q \in Searches :
    /\ searches[q].pc = "answered" => AuditRow(q) \in trail
    /\ searches[q].pc \notin {"answered", "raised"} => ~\E row \in trail : row.search = q

RoomInv == RoomTypeOK /\ KeptWasAllowed /\ AuditedOnce

LEMMA RoomInitHolds == DataRoomInit => RoomInv
<1> SUFFICES ASSUME DataRoomInit PROVE RoomInv
  OBVIOUS
<1> USE DEF DataRoomInit, NoSearch
<1>1. RoomTypeOK
  BY DEF RoomTypeOK, SearchShapes
<1>2. KeptWasAllowed /\ AuditedOnce
  BY DEF KeptWasAllowed, AuditedOnce
<1> QED
  BY <1>1, <1>2 DEF RoomInv

\* A document that passes the verification is allowed by the policy it was
\* verified against: roles that is_allowed can read allowed_documents can read.
LEMMA VerifiedIsAllowed ==
  ASSUME NEW pol, NEW s, NEW d,
         ~VerifyFails(pol, s.principal, s.room, d), IsAllowed(pol, s.principal, s.room, d)
  PROVE  d \in AllowsNow(pol, s)
<1>1. pol.rooms[s.room] # NoEntry /\ GrantsMatch(pol.rooms[s.room][d], s.principal, RolesOf(pol, s.principal))
  BY DEF IsAllowed, AllowedDocuments
<1>2. pol.rooms[s.room][d] # NoEntry
  BY <1>1 DEF GrantsMatch
<1>3. ~AllowedFails(pol, s.principal, s.room)
  BY <1>1, <1>2 DEF VerifyFails, AllowedFails
<1> QED
  BY <1>3 DEF AllowsNow, IsAllowed

LEMMA AllowsDocuments ==
  ASSUME NEW pol, NEW s PROVE AllowsNow(pol, s) \subseteq Documents
  BY DEF AllowsNow, AllowedDocuments

(***************************************************************************)
(* The steps.                                                              *)
(***************************************************************************)
\* One search becomes t, and the trail stays: it is enough that t is sound.
LEMMA OneSearchMoves ==
  ASSUME RoomInv, NEW q \in Searches, NEW t \in SearchShapes,
         searches' = [searches EXCEPT ![q] = t],
         UNCHANGED <<policy, points, trail, allowedSince>>,
         searches[q].pc \notin {"answered", "raised"}, t.pc # "answered",
         t.pc = "verify" => AllowsNow(policy, t) \subseteq allowedSince[q],
         t.kept \subseteq allowedSince[q],
         t.pc \in {"idle", "grants", "query"} => t.kept = {}
  PROVE  RoomInv'
<1> USE DEF RoomInv
<1>1. searches'[q] = t /\ \A r \in Searches : r # q => searches'[r] = searches[r]
  BY DEF RoomTypeOK
<1>2. RoomTypeOK'
  BY DEF RoomTypeOK
<1>3. KeptWasAllowed'
  BY <1>1 DEF KeptWasAllowed, AllowsNow, AllowedFails, AllowedDocuments, RolesFail, RolesOf
<1>4. AuditedOnce'
  <2> SUFFICES ASSUME NEW r \in Searches
               PROVE  /\ searches'[r].pc = "answered" => AuditRow(r)' \in trail'
                      /\ searches'[r].pc \notin {"answered", "raised"} =>
                           ~\E row \in trail' : row.search = r
    BY DEF AuditedOnce
  <2>1. CASE r = q
    BY <1>1, <2>1 DEF AuditedOnce
  <2>2. CASE r # q
    <3>1. AuditRow(r)' = AuditRow(r)
      BY <1>1, <2>2 DEF AuditRow
    <3> QED
      BY <1>1, <2>2, <3>1 DEF AuditedOnce
  <2> QED
    BY <2>1, <2>2
<1> QED
  BY <1>2, <1>3, <1>4

\* A search that goes to its audit row, and one that raises.
LEMMA SearchConcluded ==
  ASSUME RoomInv, NEW q \in Searches, searches[q] \in SearchShapes,
         searches[q].pc \in {"grants", "query", "verify"},
         NEW outcome \in {"policy_unavailable", "no_grants", "store_unavailable",
                          "executed", "post_verify_removed"},
         Conclude(q, searches[q], outcome), UNCHANGED <<policy, points, trail, allowedSince>>
  PROVE  RoomInv'
<1> DEFINE t == [searches[q] EXCEPT !.pc = "audit", !.outcome = outcome]
<1>1. t \in SearchShapes /\ t.pc = "audit" /\ t.kept = searches[q].kept
  BY DEF SearchShapes
<1>2. searches[q].kept \subseteq allowedSince[q]
  BY DEF RoomInv, KeptWasAllowed
<1>3. searches' = [searches EXCEPT ![q] = t]
  BY DEF Conclude
<1> HIDE DEF t
<1> QED
  BY <1>1, <1>2, <1>3, OneSearchMoves

LEMMA SearchRaised ==
  ASSUME RoomInv, NEW q \in Searches, searches[q] \in SearchShapes,
         searches[q].pc \in {"verify", "audit"},
         NEW hits \in SUBSET searches[q].hits,
         searches' = [searches EXCEPT ![q] =
           [searches[q] EXCEPT !.pc = "raised", !.kept = {}, !.hits = hits]],
         UNCHANGED <<policy, points, trail, allowedSince>>
  PROVE  RoomInv'
<1> DEFINE t == [searches[q] EXCEPT !.pc = "raised", !.kept = {}, !.hits = hits]
<1>1. t \in SearchShapes /\ t.pc = "raised" /\ t.kept = {}
  BY DEF SearchShapes
<1>2. searches' = [searches EXCEPT ![q] = t]
  OBVIOUS
<1> HIDE DEF t
<1> QED
  BY <1>1, <1>2, OneSearchMoves

\* The store answers: what the policy allows at this moment is where the history
\* of the search begins.
LEMMA StoreAnswersKeeps ==
  ASSUME RoomInv, NEW q \in Searches, StoreAnswers(q) PROVE RoomInv'
<1> USE DEF RoomInv
<1>1. PICK found \in SUBSET Present :
        searches' = [searches EXCEPT ![q].pc = "verify", ![q].hits = {Hit(d) : d \in found}]
  BY DEF StoreAnswers
<1>2. /\ searches[q].pc = "query" /\ UNCHANGED <<policy, points, trail>>
      /\ allowedSince' = [allowedSince EXCEPT ![q] = AllowsNow(policy, searches[q])]
  BY DEF StoreAnswers
<1>3. searches[q] \in SearchShapes /\ searches[q].kept = {}
  BY <1>2 DEF RoomTypeOK, KeptWasAllowed
<1>4. /\ searches'[q].pc = "verify" /\ searches'[q].kept = {}
      /\ searches'[q].principal = searches[q].principal /\ searches'[q].room = searches[q].room
      /\ allowedSince'[q] = AllowsNow(policy, searches[q])
      /\ \A r \in Searches : r # q => searches'[r] = searches[r] /\ allowedSince'[r] = allowedSince[r]
  BY <1>1, <1>2, <1>3 DEF RoomTypeOK, SearchShapes
<1>5. RoomTypeOK'
  <2>1. {Hit(d) : d \in found} \subseteq [doc : Documents, room : Rooms \cup {"stripped", NoEntry}]
    BY DEF Hit, Present, RoomTypeOK
  <2>2. [searches[q] EXCEPT !.pc = "verify", !.hits = {Hit(d) : d \in found}] \in SearchShapes
    BY <1>3, <2>1 DEF SearchShapes
  <2>3. searches' = [searches EXCEPT ![q] =
          [searches[q] EXCEPT !.pc = "verify", !.hits = {Hit(d) : d \in found}]]
    BY <1>1 DEF RoomTypeOK
  <2> QED
    BY <1>2, <2>2, <2>3, AllowsDocuments DEF RoomTypeOK
<1>6. KeptWasAllowed'
  <2> SUFFICES ASSUME NEW r \in Searches
               PROVE  /\ searches'[r].pc = "verify" => AllowsNow(policy', searches'[r]) \subseteq allowedSince'[r]
                      /\ searches'[r].kept \subseteq allowedSince'[r]
                      /\ searches'[r].pc \in {"idle", "grants", "query"} => searches'[r].kept = {}
    BY DEF KeptWasAllowed, AllowsNow, AllowedFails, AllowedDocuments, RolesFail, RolesOf
  <2>1. AllowsNow(policy, searches'[q]) = AllowsNow(policy, searches[q])
    BY <1>4 DEF AllowsNow
  <2>2. CASE r = q
    BY <1>2, <1>4, <2>1, <2>2
  <2>3. CASE r # q
    BY <1>2, <1>4, <2>3 DEF KeptWasAllowed
  <2> QED
    BY <2>2, <2>3
<1>7. AuditedOnce'
  <2> SUFFICES ASSUME NEW r \in Searches
               PROVE  /\ searches'[r].pc = "answered" => AuditRow(r)' \in trail'
                      /\ searches'[r].pc \notin {"answered", "raised"} =>
                           ~\E row \in trail' : row.search = r
    BY DEF AuditedOnce
  <2>1. r # q => AuditRow(r)' = AuditRow(r)
    BY <1>4 DEF AuditRow
  <2> QED
    BY <1>2, <1>4, <2>1 DEF AuditedOnce
<1> QED
  BY <1>5, <1>6, <1>7

\* The audit row is written and the search is over.
LEMMA AuditKeeps ==
  ASSUME RoomInv, NEW q \in Searches, Audit(q) PROVE RoomInv'
<1> USE DEF RoomInv
<1> DEFINE pc == IF searches[q].outcome \in Refusals THEN "raised" ELSE "answered"
<1>1. /\ searches[q].pc = "audit" /\ trail' = trail \cup {AuditRow(q)}
      /\ searches' = [searches EXCEPT ![q] = [searches[q] EXCEPT !.pc = pc]]
      /\ UNCHANGED <<policy, points, allowedSince>>
  BY DEF Audit, RoomTypeOK
<1>2. searches[q] \in SearchShapes /\ pc \in {"raised", "answered"}
  BY DEF RoomTypeOK
<1> HIDE DEF pc
<1>3. /\ searches'[q].pc = pc /\ searches'[q].kept = searches[q].kept
      /\ AuditRow(q)' = AuditRow(q) /\ AuditRow(q).search = q
      /\ \A r \in Searches : r # q => searches'[r] = searches[r] /\ AuditRow(r)' = AuditRow(r)
  BY <1>1, <1>2 DEF RoomTypeOK, SearchShapes, AuditRow
<1>4. RoomTypeOK'
  <2>1. [searches[q] EXCEPT !.pc = pc] \in SearchShapes
    BY <1>2 DEF SearchShapes
  <2> QED
    BY <1>1, <2>1 DEF RoomTypeOK
<1>5. KeptWasAllowed'
  BY <1>1, <1>2, <1>3
  DEF KeptWasAllowed, AllowsNow, AllowedFails, AllowedDocuments, RolesFail, RolesOf
<1>6. AuditedOnce'
  BY <1>1, <1>2, <1>3 DEF AuditedOnce
<1> QED
  BY <1>4, <1>5, <1>6

\* A new policy adds what it allows to the history of every search whose hits are
\* being verified.
LEMMA EditKeeps ==
  ASSUME RoomInv, NEW pol, EditPolicy(pol) PROVE RoomInv'
<1> USE DEF RoomInv, EditPolicy
<1>1. RoomTypeOK'
  <2>1. \A q \in Searches : allowedSince[q] \cup AllowsNow(pol, searches[q]) \subseteq Documents
    BY AllowsDocuments DEF RoomTypeOK
  <2> QED
    BY <2>1 DEF RoomTypeOK
<1>2. KeptWasAllowed'
  <2> SUFFICES ASSUME NEW q \in Searches
               PROVE  /\ searches'[q].pc = "verify" => AllowsNow(policy', searches'[q]) \subseteq allowedSince'[q]
                      /\ searches'[q].kept \subseteq allowedSince'[q]
                      /\ searches'[q].pc \in {"idle", "grants", "query"} => searches'[q].kept = {}
    BY DEF KeptWasAllowed, AllowsNow, AllowedFails, AllowedDocuments, RolesFail, RolesOf
  <2>1. allowedSince[q] \subseteq allowedSince'[q]
    OBVIOUS
  <2>2. searches[q].pc = "verify" => AllowsNow(pol, searches[q]) \subseteq allowedSince'[q]
    OBVIOUS
  <2> QED
    BY <2>1, <2>2 DEF KeptWasAllowed
<1>3. AuditedOnce'
  BY DEF AuditedOnce, AuditRow
<1> QED
  BY <1>1, <1>2, <1>3

\* Nothing that a search knows of the policy depends on the store's points.
LEMMA RestKeeps ==
  ASSUME RoomInv, points' \in [Documents -> Rooms \cup {"stripped", NoEntry}],
         UNCHANGED <<policy, searches, trail, allowedSince>>
  PROVE  RoomInv'
  BY DEF RoomInv, RoomTypeOK, KeptWasAllowed, AllowsNow, AllowedFails, AllowedDocuments,
         RolesFail, RolesOf, AuditedOnce, AuditRow

LEMMA VerifyKeeps ==
  ASSUME RoomInv, NEW q \in Searches, NEW h \in searches[q].hits, Verify(q, h) PROVE RoomInv'
<1> DEFINE s == searches[q]
           ok == IsAllowed(policy, s.principal, s.room, h.doc)
           t == [s EXCEPT !.hits = @ \ {h}, !.kept = IF ok THEN @ \cup {h.doc} ELSE @,
                          !.removed = IF ok THEN @ ELSE @ \cup {h.doc}]
<1>1. /\ s \in SearchShapes /\ s.pc = "verify" /\ h.doc \in Documents
      /\ s.kept \subseteq allowedSince[q] /\ AllowsNow(policy, s) \subseteq allowedSince[q]
  BY DEF RoomInv, RoomTypeOK, KeptWasAllowed, Verify, SearchShapes
<1>2. searches' = [searches EXCEPT ![q] = t] /\ UNCHANGED <<policy, points, trail, allowedSince>>
  BY DEF Verify, RoomInv, RoomTypeOK
<1>3. ok => h.doc \in allowedSince[q]
  BY <1>1, VerifiedIsAllowed DEF Verify
<1>4. t \in SearchShapes
  BY <1>1 DEF SearchShapes
<1>5. t.pc = "verify" /\ t.principal = s.principal /\ t.room = s.room
      /\ t.kept = IF ok THEN s.kept \cup {h.doc} ELSE s.kept
  BY <1>1 DEF SearchShapes
<1>6. AllowsNow(policy, t) = AllowsNow(policy, s)
  BY <1>5 DEF AllowsNow
<1> HIDE DEF t, ok
<1> QED
  BY <1>1, <1>2, <1>3, <1>4, <1>5, <1>6, OneSearchMoves

LEMMA RoomNextKeeps == RoomInv /\ [DataRoomNext]_dataRoomVars => RoomInv'
<1> SUFFICES ASSUME RoomInv, [DataRoomNext]_dataRoomVars PROVE RoomInv'
  OBVIOUS
<1>0. \A q \in Searches : searches[q] \in SearchShapes /\ searches[q].kept \subseteq allowedSince[q]
  BY DEF RoomInv, RoomTypeOK, KeptWasAllowed
<1>1. ASSUME NEW q \in Searches, NEW p \in Principals, NEW room \in Rooms,
             NEW k \in {0, MaxTopK, MaxTopK + 1}, Search(q, p, room, k)
      PROVE  RoomInv'
  <2>1. Clamp(k) \in Nat
    BY DataRoomAssumption DEF Clamp
  <2>2. [NoSearch EXCEPT !.pc = "grants", !.principal = p, !.room = room, !.limit = Clamp(k)] \in SearchShapes
    BY <2>1 DEF NoSearch, SearchShapes
  <2> QED
    BY <1>1, <2>2, OneSearchMoves DEF Search, NoSearch
<1>2. ASSUME NEW q \in Searches, ReadGrants(q) PROVE RoomInv'
  <2>1. searches[q].pc = "grants" /\ searches[q].kept = {}
    BY <1>2 DEF ReadGrants, RoomInv, KeptWasAllowed
  <2>2. CASE \E outcome \in {"policy_unavailable", "no_grants"} : Conclude(q, searches[q], outcome)
    BY <1>0, <1>2, <2>1, <2>2, SearchConcluded DEF ReadGrants
  <2>3. CASE searches' = [searches EXCEPT ![q].pc = "query", ![q].granted =
                            AllowedDocuments(policy, searches[q].principal, searches[q].room)]
    <3> DEFINE t == [searches[q] EXCEPT !.pc = "query", !.granted =
                       AllowedDocuments(policy, searches[q].principal, searches[q].room)]
    <3>1. AllowedDocuments(policy, searches[q].principal, searches[q].room) \subseteq Documents
      BY DEF AllowedDocuments
    <3>2. t \in SearchShapes /\ t.pc = "query" /\ t.kept = {}
      BY <1>0, <2>1, <3>1 DEF SearchShapes
    <3>3. searches' = [searches EXCEPT ![q] = t]
      BY <2>3 DEF RoomInv, RoomTypeOK
    <3> HIDE DEF t
    <3> QED
      BY <1>2, <2>1, <3>2, <3>3, OneSearchMoves DEF ReadGrants
  <2> QED
    BY <1>2, <2>2, <2>3 DEF ReadGrants
<1>3. ASSUME NEW q \in Searches, StoreOutage(q) PROVE RoomInv'
  BY <1>0, <1>3, SearchConcluded DEF StoreOutage
<1>4. ASSUME NEW q \in Searches, StoreAnswers(q) PROVE RoomInv'
  BY <1>4, StoreAnswersKeeps
<1>5. ASSUME NEW q \in Searches, NEW h \in searches[q].hits, Verify(q, h) PROVE RoomInv'
  BY <1>5, VerifyKeeps
<1>6. ASSUME NEW q \in Searches, NEW h \in searches[q].hits, DropUnidentified(q, h) PROVE RoomInv'
  <2> DEFINE t == [searches[q] EXCEPT !.hits = @ \ {h}, !.removed = @ \cup {h.doc}]
  <2>0. searches[q] \in SearchShapes /\ h.doc \in Documents
    BY <1>0, <1>6 DEF SearchShapes
  <2>1. /\ t \in SearchShapes /\ t.pc = searches[q].pc /\ t.kept = searches[q].kept
        /\ t.principal = searches[q].principal /\ t.room = searches[q].room
    <3>1. /\ searches[q].hits \ {h} \subseteq searches[q].hits
          /\ searches[q].removed \cup {h.doc} \in SUBSET Documents
      BY <2>0 DEF SearchShapes
    <3> DEFINE hits == searches[q].hits \ {h}
               removed == searches[q].removed \cup {h.doc}
    <3>2. t = [searches[q] EXCEPT !.hits = hits, !.removed = removed]
      BY <2>0 DEF SearchShapes
    <3> HIDE DEF t, hits, removed
    <3>3. hits \subseteq searches[q].hits /\ removed \in SUBSET Documents
      BY <3>1 DEF hits, removed
    <3> QED
      BY <2>0, <3>2, <3>3 DEF SearchShapes
  <2>2. /\ searches' = [searches EXCEPT ![q] = t] /\ searches[q].pc = "verify"
        /\ UNCHANGED <<policy, points, trail, allowedSince>>
    BY <1>6 DEF DropUnidentified, RoomInv, RoomTypeOK
  <2>3. AllowsNow(policy, t) = AllowsNow(policy, searches[q])
    BY <2>1 DEF AllowsNow
  <2>4. AllowsNow(policy, searches[q]) \subseteq allowedSince[q]
    BY <2>2 DEF RoomInv, KeptWasAllowed
  <2> HIDE DEF t
  <2> QED
    BY <1>0, <2>1, <2>2, <2>3, <2>4, OneSearchMoves
<1>7. ASSUME NEW q \in Searches, NEW h \in searches[q].hits, VerifyRaises(q, h) PROVE RoomInv'
  <2>1. searches' = [searches EXCEPT ![q] =
          [searches[q] EXCEPT !.pc = "raised", !.kept = {}, !.hits = {}]]
    BY <1>7 DEF VerifyRaises, RoomInv, RoomTypeOK
  <2>2. searches[q].pc = "verify" /\ UNCHANGED <<policy, points, trail, allowedSince>>
    BY <1>7 DEF VerifyRaises
  <2>3. {} \in SUBSET searches[q].hits
    OBVIOUS
  <2> QED
    BY <1>0, <2>1, <2>2, <2>3, SearchRaised
<1>8. ASSUME NEW q \in Searches, Verified(q) PROVE RoomInv'
  BY <1>0, <1>8, SearchConcluded DEF Verified
<1>9. ASSUME NEW q \in Searches, Audit(q) PROVE RoomInv'
  BY <1>9, AuditKeeps
<1>10. ASSUME NEW q \in Searches, AuditFails(q) PROVE RoomInv'
  <2>1. PICK hits \in SUBSET searches[q].hits : hits = searches[q].hits
    OBVIOUS
  <2>2. searches' = [searches EXCEPT ![q] =
          [searches[q] EXCEPT !.pc = "raised", !.kept = {}, !.hits = hits]]
    BY <1>10, <2>1 DEF AuditFails, RoomInv, RoomTypeOK, SearchShapes
  <2>3. searches[q].pc = "audit" /\ UNCHANGED <<policy, points, trail, allowedSince>>
    BY <1>10 DEF AuditFails
  <2> QED
    BY <1>0, <2>1, <2>2, <2>3, SearchRaised
<1>11. ASSUME NEW pol, EditPolicy(pol) PROVE RoomInv'
  BY <1>11, EditKeeps
<1>12. ASSUME NEW room \in Rooms, NEW d \in Documents, IndexDocument(room, d) PROVE RoomInv'
  <2>1. points' \in [Documents -> Rooms \cup {"stripped", NoEntry}]
    BY <1>12 DEF IndexDocument, RoomInv, RoomTypeOK
  <2> QED
    BY <1>12, <2>1, RestKeeps DEF IndexDocument
<1>13. CASE UNCHANGED dataRoomVars
  <2>1. points' \in [Documents -> Rooms \cup {"stripped", NoEntry}]
    BY <1>13 DEF dataRoomVars, RoomInv, RoomTypeOK
  <2> QED
    BY <1>13, <2>1, RestKeeps DEF dataRoomVars
<1> QED
  BY <1>1, <1>2, <1>3, <1>4, <1>5, <1>6, <1>7, <1>8, <1>9, <1>10, <1>11, <1>12, <1>13
  DEF DataRoomNext

\* However grants change and whatever the store returns, a search returns only
\* documents that the policy allowed after the store had answered.
THEOREM ReturnedAllowed == DataRoomSpec => []ReturnedWasAllowed
<1>1. RoomInv => ReturnedWasAllowed
  BY DEF RoomInv, KeptWasAllowed, ReturnedWasAllowed
<1> QED
  BY <1>1, RoomInitHolds, RoomNextKeeps, PTL DEF DataRoomSpec

\* No answer reaches the caller before its audit row is written.
THEOREM AnswerAudited == DataRoomSpec => []AnswerIsAudited
<1>1. RoomInv => AnswerIsAudited
  BY DEF RoomInv, AuditedOnce, AnswerIsAudited
<1> QED
  BY <1>1, RoomInitHolds, RoomNextKeeps, PTL DEF DataRoomSpec

(***************************************************************************)
(* Protocol health.  The invariant: until the drift check the baseline     *)
(* that the file holds is among those seen since the listing; from then on *)
(* the code is an alarm, or the tools were listed and matched one of them. *)
(***************************************************************************)
MatchedOrBlank(held, tools) == tools \in ToolLists /\ held \cap {tools, Unpinned, Garbled} # {}

HealthInv ==
  /\ HealthTypeOK
  /\ probe = [pc |-> probe.pc, code |-> probe.code, tools |-> probe.tools,
              qdrant |-> probe.qdrant, alarms |-> probe.alarms]
  /\ probe.pc = "drift" => probe.tools \in ToolLists /\ baseline \in seen
  /\ probe.pc \in {"qdrant", "report", "reported"} => probe.code \in AlarmCodes \/ MatchedOrBlank(seen, probe.tools)
  /\ probe.pc = "reported" /\ probe.code \in AlarmCodes =>
       <<"wren-mcp", probe.code>> \in probe.alarms

LEMMA HealthInitHolds == HealthInit => HealthInv
<1> SUFFICES ASSUME HealthInit PROVE HealthInv
  OBVIOUS
<1>1. probe = [pc |-> "idle", code |-> "none", tools |-> Unpinned, qdrant |-> "none", alarms |-> {}]
  BY DEF HealthInit, NoProbe
<1>2. HealthTypeOK
  BY <1>1, HealthAssumption DEF HealthInit, HealthTypeOK, Conditions
<1> QED
  BY <1>1, <1>2 DEF HealthInv

\* A step of the probe with the parts it may change.
LEMMA ProbeMoves ==
  ASSUME HealthInv, Others' = Others,
         NEW pc \in {"idle", "initialize", "initialized", "tools", "drift", "qdrant", "report",
                     "reported", "raised"},
         NEW code, NEW tools \in ToolLists \cup {Unpinned}, NEW q, NEW alarms,
         probe' = [pc |-> pc, code |-> code, tools |-> tools, qdrant |-> q, alarms |-> alarms],
         pc = "drift" => tools \in ToolLists /\ baseline \in seen',
         pc \in {"qdrant", "report", "reported"} => code \in AlarmCodes \/ MatchedOrBlank(seen', tools),
         pc = "reported" /\ code \in AlarmCodes => <<"wren-mcp", code>> \in alarms
  PROVE  HealthInv'
<1>1. server' = server /\ qdrant' = qdrant /\ baseline' = baseline /\ pin' = pin
        /\ upgrades' = upgrades /\ pins' = pins
  BY DEF Others
<1>2. probe'.pc = pc /\ probe'.code = code /\ probe'.tools = tools /\ probe'.qdrant = q
        /\ probe'.alarms = alarms
  OBVIOUS
<1>3. probe' = [pc |-> probe'.pc, code |-> probe'.code, tools |-> probe'.tools,
                qdrant |-> probe'.qdrant, alarms |-> probe'.alarms]
  BY <1>2
<1>4. HealthTypeOK'
  BY <1>1, <1>2 DEF HealthInv, HealthTypeOK
<1> QED
  BY <1>1, <1>2, <1>3, <1>4 DEF HealthInv

\* What the handshake makes of an answer: an alarm, or it goes on or raises.
LEMMA HandshakeCodes ==
  ASSUME NEW c \in Conditions
  PROVE  /\ ClassifyInitialize(c) \in AlarmCodes \cup {"next", "raises"}
         /\ ClassifyToolsList(c) \in AlarmCodes \cup {"next"}
BY DEF Conditions, ClassifyInitialize, ClassifyToolsList, AlarmCodes

LEMMA ClassifiedKeeps ==
  ASSUME HealthInv, Others' = Others, seen' = seen, NEW code \in AlarmCodes \cup {"next", "raises"},
         Classified(code, "initialized")
  PROVE  HealthInv'
<1>1. "next" \notin AlarmCodes /\ "raises" \notin AlarmCodes
  BY DEF AlarmCodes
<1>2. /\ probe = [pc |-> probe.pc, code |-> probe.code, tools |-> probe.tools,
                  qdrant |-> probe.qdrant, alarms |-> probe.alarms]
      /\ probe.tools \in ToolLists \cup {Unpinned}
  BY DEF HealthInv, HealthTypeOK
<1>3. CASE code = "next"
  <2>1. probe' = [probe EXCEPT !.pc = "initialized"]
    BY <1>3 DEF Classified
  <2>2. probe' = [pc |-> "initialized", code |-> probe.code, tools |-> probe.tools,
                  qdrant |-> probe.qdrant, alarms |-> probe.alarms]
    BY <1>2, <2>1
  <2> QED
    BY <1>2, <2>2, ProbeMoves
<1>4. CASE code = "raises"
  <2>1. probe' = [probe EXCEPT !.pc = "raised"]
    BY <1>4 DEF Classified
  <2>2. probe' = [pc |-> "raised", code |-> probe.code, tools |-> probe.tools,
                  qdrant |-> probe.qdrant, alarms |-> probe.alarms]
    BY <1>2, <2>1
  <2> QED
    BY <1>2, <2>2, ProbeMoves
<1>5. CASE code \in AlarmCodes
  <2>1. probe' = [probe EXCEPT !.pc = "qdrant", !.code = code]
    BY <1>1, <1>5 DEF Classified
  <2>2. probe' = [pc |-> "qdrant", code |-> code, tools |-> probe.tools,
                  qdrant |-> probe.qdrant, alarms |-> probe.alarms]
    BY <1>2, <2>1
  <2>3. probe.tools \in ToolLists \cup {Unpinned}
    BY <1>2
  <2> QED
    BY <1>5, <2>2, <2>3, ProbeMoves
<1> QED
  BY <1>3, <1>4, <1>5

LEMMA ProbeKeeps ==
  ASSUME HealthInv,
         StartProbe \/ Initialize \/ Initialized \/ ListTools \/ DriftCheck \/ ProbeQdrant \/ Report
  PROVE  HealthInv'
<1>1. /\ probe = [pc |-> probe.pc, code |-> probe.code, tools |-> probe.tools,
                  qdrant |-> probe.qdrant, alarms |-> probe.alarms]
      /\ probe.tools \in ToolLists \cup {Unpinned}
      /\ server.condition \in Conditions /\ server.tools \in ToolLists /\ qdrant \in Conditions
  BY DEF HealthInv, HealthTypeOK
<1>2. CASE StartProbe
  <2>1. Others' = Others
    BY <1>2 DEF StartProbe
  <2>2. probe' = [pc |-> "initialize", code |-> "none", tools |-> Unpinned, qdrant |-> "none",
                  alarms |-> {}]
    BY <1>2 DEF StartProbe, NoProbe
  <2> QED
    BY <2>1, <2>2, ProbeMoves
<1>3. CASE Initialize
  <2>1. Others' = Others /\ seen' = seen
    BY <1>3 DEF Initialize
  <2> QED
    BY <1>1, <1>3, <2>1, HandshakeCodes, ClassifiedKeeps DEF Initialize
<1>4. CASE Initialized
  <2>1. Others' = Others /\ seen' = seen
    BY <1>4 DEF Initialized
  <2>2. probe' = [probe EXCEPT !.pc = "tools"]
    BY <1>4 DEF Initialized
  <2>3. probe' = [pc |-> "tools", code |-> probe.code, tools |-> probe.tools,
                  qdrant |-> probe.qdrant, alarms |-> probe.alarms]
    BY <1>1, <2>2
  <2> QED
    BY <1>1, <2>1, <2>3, ProbeMoves
<1>5. CASE ListTools
  <2> DEFINE code == ClassifyToolsList(server.condition)
  <2>1. Others' = Others
    BY <1>5 DEF ListTools
  <2>2. CASE code = "next"
    <3>1. probe' = [probe EXCEPT !.pc = "drift", !.tools = server.tools] /\ seen' = {baseline}
      BY <1>5, <2>2 DEF ListTools
    <3>2. probe' = [pc |-> "drift", code |-> probe.code, tools |-> server.tools,
                    qdrant |-> probe.qdrant, alarms |-> probe.alarms]
      BY <1>1, <3>1
    <3> QED
      BY <1>1, <2>1, <3>1, <3>2, ProbeMoves
  <2>3. CASE code # "next"
    <3>1. code \in AlarmCodes
      BY <1>1, <2>3, HandshakeCodes
    <3>2. Classified(code, "drift") /\ seen' = seen
      BY <1>5, <2>3 DEF ListTools
    <3>3. Classified(code, "initialized")
      BY <2>3, <3>2 DEF Classified
    <3> QED
      BY <2>1, <3>1, <3>2, <3>3, ClassifiedKeeps
  <2> QED
    BY <2>2, <2>3
<1>6. CASE DriftCheck
  <2> DEFINE code == DriftCode(baseline, probe.tools)
  <2>1. probe.pc = "drift" /\ Others' = Others /\ seen' = seen
          /\ probe' = [probe EXCEPT !.pc = "qdrant", !.code = code]
    BY <1>6 DEF DriftCheck
  <2>2. probe.tools \in ToolLists /\ baseline \in seen
    BY <2>1 DEF HealthInv
  <2>3. code \in AlarmCodes \/ MatchedOrBlank(seen', probe.tools)
    <3>1. code \in AlarmCodes \/ MatchedOrBlank(seen, probe.tools)
      BY <2>2 DEF DriftCode, AlarmCodes, MatchedOrBlank
    <3>2. seen' = seen
      BY <2>1
    <3> QED
      BY <3>1, <3>2
  <2> HIDE DEF code
  <2>4. probe' = [pc |-> "qdrant", code |-> code, tools |-> probe.tools,
                  qdrant |-> probe.qdrant, alarms |-> probe.alarms]
    BY <1>1, <2>1
  <2> QED
    BY <1>1, <2>1, <2>2, <2>3, <2>4, ProbeMoves
<1>7. CASE ProbeQdrant
  <2> DEFINE code == ClassifyQdrant(qdrant)
  <2>1. probe.pc = "qdrant" /\ Others' = Others /\ seen' = seen
          /\ probe' = IF code = "raises" THEN [probe EXCEPT !.pc = "raised"]
                      ELSE [probe EXCEPT !.pc = "report", !.qdrant = code]
    BY <1>7 DEF ProbeQdrant
  <2>5. probe.pc \in {"qdrant", "report"}
    BY <2>1
  <2>2. probe.code \in AlarmCodes \/ MatchedOrBlank(seen', probe.tools)
    <3>1. probe.code \in AlarmCodes \/ MatchedOrBlank(seen, probe.tools)
      BY <2>5 DEF HealthInv
    <3>2. seen' = seen
      BY <2>1
    <3> QED
      BY <3>1, <3>2
  <2> HIDE DEF code
  <2>3. CASE code = "raises"
    <3>1. probe' = [pc |-> "raised", code |-> probe.code, tools |-> probe.tools,
                    qdrant |-> probe.qdrant, alarms |-> probe.alarms]
      BY <1>1, <2>1, <2>3
    <3> QED
      BY <1>1, <2>1, <3>1, ProbeMoves
  <2>4. CASE code # "raises"
    <3>1. probe' = [pc |-> "report", code |-> probe.code, tools |-> probe.tools,
                    qdrant |-> code, alarms |-> probe.alarms]
      BY <1>1, <2>1, <2>4
    <3> QED
      BY <1>1, <2>1, <2>2, <3>1, ProbeMoves
  <2> QED
    BY <2>3, <2>4
<1>8. CASE Report
  <2> DEFINE alarms == ({<<"wren-mcp", probe.code>>} \cup {<<"qdrant", probe.qdrant>>})
                         \cap ({"wren-mcp", "qdrant"} \X AlarmCodes)
  <2>1. probe.pc = "report" /\ Others' = Others /\ seen' = seen
          /\ probe' = [probe EXCEPT !.pc = "reported", !.alarms = alarms]
    BY <1>8 DEF Report
  <2>5. probe.pc \in {"qdrant", "report"}
    BY <2>1
  <2>2. probe.code \in AlarmCodes \/ MatchedOrBlank(seen', probe.tools)
    <3>1. probe.code \in AlarmCodes \/ MatchedOrBlank(seen, probe.tools)
      BY <2>5 DEF HealthInv
    <3>2. seen' = seen
      BY <2>1
    <3> QED
      BY <3>1, <3>2
  <2>3. probe.code \in AlarmCodes => <<"wren-mcp", probe.code>> \in alarms
    OBVIOUS
  <2> HIDE DEF alarms
  <2>4. probe' = [pc |-> "reported", code |-> probe.code, tools |-> probe.tools,
                  qdrant |-> probe.qdrant, alarms |-> alarms]
    BY <1>1, <2>1
  <2> QED
    BY <1>1, <2>1, <2>2, <2>3, <2>4, ProbeMoves
<1> QED
  BY <1>2, <1>3, <1>4, <1>5, <1>6, <1>7, <1>8

\* What goes on around a probe: a file that changes before the drift check is seen.
LEMMA AroundKeeps ==
  ASSUME HealthInv, HealthTypeOK', probe' = probe,
         \/ baseline' = baseline /\ seen' = seen
         \/ FileBecomes(baseline')
  PROVE  HealthInv'
<1>1. probe.pc = "drift" => baseline' \in seen'
  BY DEF HealthInv, FileBecomes
<1>2. seen \subseteq seen'
  BY DEF FileBecomes
<1> QED
  BY <1>1, <1>2 DEF HealthInv, MatchedOrBlank

LEMMA PinKeeps ==
  ASSUME HealthInv,
         ProbeForPin \/ ReadForPin \/ EmptyBaseline \/ WriteBaseline
           \/ \E b \in {Unpinned, Garbled} : LoseBaseline(b)
  PROVE  HealthInv'
<1> USE DEF HealthTypeOK
<1>1. HealthTypeOK
  BY DEF HealthInv
<1>2. CASE ProbeForPin
  <2>1. pins' \in 0 .. MaxPins
    BY <1>1, <1>2, HealthAssumption DEF ProbeForPin
  <2>2. HealthTypeOK'
    BY <1>1, <1>2, <2>1 DEF ProbeForPin
  <2> QED
    BY <1>2, <2>2, AroundKeeps DEF ProbeForPin
<1>3. CASE ReadForPin
  <2>1. pin' \in [pc : {"idle", "read", "empty", "write"}, tools : ToolLists \cup {Unpinned}]
    BY <1>1, <1>3 DEF ReadForPin
  <2>2. HealthTypeOK'
    BY <1>1, <1>3, <2>1 DEF ReadForPin
  <2> QED
    BY <1>3, <2>2, AroundKeeps DEF ReadForPin
<1>4. CASE EmptyBaseline
  <2>1. pin' \in [pc : {"idle", "read", "empty", "write"}, tools : ToolLists \cup {Unpinned}]
    BY <1>1, <1>4 DEF EmptyBaseline
  <2>2. HealthTypeOK'
    BY <1>1, <1>4, <2>1 DEF EmptyBaseline, FileBecomes
  <2> QED
    BY <1>4, <2>2, AroundKeeps DEF EmptyBaseline, FileBecomes
<1>5. CASE WriteBaseline
  <2>1. HealthTypeOK'
    BY <1>1, <1>5 DEF WriteBaseline, FileBecomes
  <2> QED
    BY <1>5, <2>1, AroundKeeps DEF WriteBaseline, FileBecomes
<1>6. ASSUME NEW b \in {Unpinned, Garbled}, LoseBaseline(b) PROVE HealthInv'
  <2>1. pins' \in 0 .. MaxPins
    BY <1>1, <1>6, HealthAssumption DEF LoseBaseline
  <2>2. HealthTypeOK'
    BY <1>1, <1>6, <2>1 DEF LoseBaseline, FileBecomes
  <2> QED
    BY <1>6, <2>2, AroundKeeps DEF LoseBaseline, FileBecomes
<1> QED
  BY <1>2, <1>3, <1>4, <1>5, <1>6

LEMMA ServicesKeep ==
  ASSUME HealthInv, NEW c \in Conditions,
         ChangeQdrant(c) \/ \E tools \in ToolLists : ChangeServer(c, tools)
  PROVE  HealthInv'
<1>1. HealthTypeOK
  BY DEF HealthInv
<1>2. upgrades' \in 0 .. MaxUpgrades
  BY <1>1, HealthAssumption DEF ChangeQdrant, ChangeServer, HealthTypeOK
<1>3. HealthTypeOK'
  BY <1>1, <1>2 DEF ChangeQdrant, ChangeServer, HealthTypeOK
<1> QED
  BY <1>3, AroundKeeps DEF ChangeQdrant, ChangeServer

LEMMA HealthNextKeeps == HealthInv /\ [HealthNext]_healthVars => HealthInv'
<1> SUFFICES ASSUME HealthInv, [HealthNext]_healthVars PROVE HealthInv'
  OBVIOUS
<1>1. CASE UNCHANGED healthVars
  BY <1>1 DEF healthVars, HealthInv, HealthTypeOK, MatchedOrBlank
<1>2. CASE HealthNext
  BY <1>2, ProbeKeeps, PinKeeps, ServicesKeep DEF HealthNext
<1> QED
  BY <1>1, <1>2

LEMMA HealthQuiet == HealthInv => QuietMeansMatched
<1> SUFFICES ASSUME HealthInv, Reported, AlarmOf("wren-mcp") = {}
             PROVE  probe.tools # Unpinned /\ seen \cap {probe.tools, Unpinned, Garbled} # {}
  BY DEF QuietMeansMatched
<1>1. probe.code \notin AlarmCodes
  BY DEF HealthInv, AlarmOf, Reported
<1> QED
  BY <1>1, HealthAssumption DEF HealthInv, MatchedOrBlank, Reported

\* Probes, pins, the two services and the baseline file always have their shape.
THEOREM HealthTypeCorrect == HealthSpec => []HealthTypeOK
<1>1. HealthInv => HealthTypeOK
  BY DEF HealthInv
<1> QED
  BY <1>1, HealthInitHolds, HealthNextKeeps, PTL DEF HealthSpec

\* A report without an alarm listed tools that a baseline of the time pinned, or
\* had no readable baseline to compare them with.
THEOREM QuietMatched == HealthSpec => []QuietMeansMatched
BY HealthInitHolds, HealthNextKeeps, HealthQuiet, PTL DEF HealthSpec

(***************************************************************************)
(* The services together.  A step of one leaves the others' state, so the  *)
(* five invariants are one.                                                *)
(***************************************************************************)
GenbiInv == CoverageInv /\ ExecutionInv /\ RoomInv /\ HealthInv /\ GateInv

LEMMA GenbiInitHolds == GenbiInit => GenbiInv
BY CoverageInitHolds, ExecutionInitHolds, RoomInitHolds, HealthInitHolds, GateInitHolds
   DEF GenbiInit, GenbiInv

LEMMA GenbiNextKeeps == GenbiInv /\ [GenbiNext]_genbiVars => GenbiInv'
<1> SUFFICES ASSUME GenbiInv, [GenbiNext]_genbiVars PROVE GenbiInv'
  OBVIOUS
<1>1. [CoverageNext]_coverageVars
  BY DEF GenbiNext, CoverageStep, ExecutionStep, DataRoomStep, HealthStep, GateStep, genbiVars
<1>2. [ExecutionNext]_executionVars
  BY DEF GenbiNext, CoverageStep, ExecutionStep, DataRoomStep, HealthStep, GateStep, genbiVars
<1>3. [DataRoomNext]_dataRoomVars
  BY DEF GenbiNext, CoverageStep, ExecutionStep, DataRoomStep, HealthStep, GateStep, genbiVars
<1>4. [HealthNext]_healthVars
  BY DEF GenbiNext, CoverageStep, ExecutionStep, DataRoomStep, HealthStep, GateStep, genbiVars
<1>5. [GateNext]_gateVars
  BY DEF GenbiNext, CoverageStep, ExecutionStep, DataRoomStep, HealthStep, GateStep, genbiVars
<1>6. CoverageInv'
  BY <1>1, CoverageNextKeeps, CoverageStutters DEF GenbiInv
<1>7. ExecutionInv'
  BY <1>2, ExecutionNextKeeps DEF GenbiInv
<1>8. RoomInv'
  BY <1>3, RoomNextKeeps DEF GenbiInv
<1>9. HealthInv'
  BY <1>4, HealthNextKeeps DEF GenbiInv
<1>10. GateInv'
  BY <1>5, GateNextKeeps DEF GenbiInv
<1> QED
  BY <1>6, <1>7, <1>8, <1>9, <1>10 DEF GenbiInv

LEMMA GenbiInvariant == GenbiSpec => []GenbiInv
BY GenbiInitHolds, GenbiNextKeeps, PTL DEF GenbiSpec

\* Behind one router every service keeps its shape.
THEOREM GenbiTypeCorrect == GenbiSpec => []GenbiTypeOK
<1>1. GenbiInv => GenbiTypeOK
  BY DEF GenbiInv, GenbiTypeOK, ExecutionInv, HealthInv, GateInv
<1> QED
  BY <1>1, GenbiInvariant, PTL

\* Behind one router every service keeps what it promises: the queue's counts,
\* whole results, allowed and audited searches, quiet reports that matched, and
\* promotions that agree with the pinned truth.
THEOREM ServicesKeepPromises ==
  GenbiSpec => [](/\ NeverOvercounts /\ OneLockCountsAll
                  /\ ResultIsWhole
                  /\ ReturnedWasAllowed /\ AnswerIsAudited
                  /\ QuietMeansMatched
                  /\ PinnedTruthPrevails /\ SelfCertifiedIsEarned /\ LockIsBacked)
<1>1. GenbiInv => NeverOvercounts /\ OneLockCountsAll
  BY CoverageInvBounds, CoverageInvCounts DEF GenbiInv
<1>2. GenbiInv => ResultIsWhole
  BY DEF GenbiInv, ExecutionInv
<1>3. GenbiInv => ReturnedWasAllowed /\ AnswerIsAudited
  BY DEF GenbiInv, RoomInv, KeptWasAllowed, ReturnedWasAllowed, AuditedOnce, AnswerIsAudited
<1>4. GenbiInv => QuietMeansMatched
  BY HealthQuiet DEF GenbiInv
<1>5. GenbiInv => PinnedTruthPrevails
  BY DEF GenbiInv, GateInv, GateTypeOK, HardeningStands, Upheld, Past, PinnedTruthPrevails
<1>6. GenbiInv => SelfCertifiedIsEarned
  BY DEF GenbiInv, GateInv, HardeningStands, Earned, Past, SelfCertifiedIsEarned
<1>7. GenbiInv => LockIsBacked
  BY DEF GenbiInv, GateInv, LocksAreBacked, Backs, LockIsBacked
<1> QED
  BY <1>1, <1>2, <1>3, <1>4, <1>5, <1>6, <1>7, GenbiInvariant, PTL

=============================================================================
