----------------------------- MODULE PromotionGate -----------------------------
(***************************************************************************)
(* What stands between an answer and its persistence: the agent contracts, *)
(* the CHP gate before and after the execution, and the approval receipt.  *)
(*                                                                         *)
(* Promotion takes the verdicts of these as they may come; here they are   *)
(* computed, from the settings a service is built with, from the golden    *)
(* file, which is read anew by each stage, and from the receipt presented. *)
(* What follows the gate is two steps: the answer is persisted or not, and *)
(* the decision is recorded.                                               *)
(***************************************************************************)
EXTENDS Naturals, FiniteSets

CONSTANTS Calls,       \* promotion requests
          Answers,     \* answers that may be promoted
          Goldens,     \* contents of the golden file: [question -> accepted values]
          Unusable,    \* a golden file that load_golden gives up on
          Unparsable,  \* a golden file that is not YAML, or not a mapping
          Deployments, \* settings the service may be deployed with
          NoOne,       \* no confirmer, receipt, value, reason or question
          Pinned,      \* questions that the committed golden set pins
          MaxReceipts, \* bound: receipts signed
          MaxChanges   \* bound: golden files replaced, redeployments and expiries

\* An answer: its question, whether question and SQL are written out, whether it
\* reads like an analytical question, its backing, the rows its SQL returns, the
\* number in a single row (NoOne otherwise) and who confirms it.  A deployment:
\* its key, and the knobs that the policy version is a hash of.
ASSUME GateAssumption ==
  /\ \A a \in Answers : /\ a.rows \in Nat
                        /\ {a.written, a.analytical, a.backed} \subseteq BOOLEAN
  /\ \A d \in Deployments : {d.production, d.humanLock, d.bounded, d.readOnly} \subseteq BOOLEAN
  /\ Goldens \cap {Unusable, Unparsable} = {} /\ NoOne \notin {"match", "mismatch"}
  /\ MaxReceipts \in Nat /\ MaxChanges \in Nat

VARIABLES deployment, \* the settings in force
          golden,     \* the golden file
          calls,      \* [Calls -> call]
          signed,     \* receipts in the ledger as issued
          redeemed,   \* [receipts redeemed -> the call that did]
          expired,    \* receipts past their expiry
          decisions,  \* the decision ledger
          steady,     \* history: calls since whose start the golden file is the same
          changes

gateVars == <<deployment, golden, calls, signed, redeemed, expired, decisions, steady, changes>>
world == <<deployment, golden, signed, expired, changes>>

(***************************************************************************)
(* Settings.                                                               *)
(***************************************************************************)
\* resolve_receipt_key: "dev" is the documented default, "bad" is not 32 bytes.
KeyOf(d) ==
  IF d.key = "unset" /\ ~d.production THEN "dev"
  ELSE IF d.key \in {"unset", "bad"} \/ (d.key = "dev" /\ d.production) THEN NoOne
  ELSE d.key

\* promotion_policy_version: the knobs, of which the model keeps these.
PolicyVersion(d) == [bounded |-> d.bounded, humanLock |-> d.humanLock, database |-> d.database]

(***************************************************************************)
(* Agent contracts: the rules of a stage in the order they are declared.   *)
(***************************************************************************)
Rules == {"read_only_uri", "select_only", "bounded", "lock_bears_receipt"}
Broken(rule, c) ==
  CASE rule = "read_only_uri"      -> ~deployment.readOnly
    [] rule = "select_only"        -> ~calls[c].answer.select
    [] rule = "bounded"            -> ~deployment.bounded
    [] rule = "lock_bears_receipt" -> calls[c].answer.by # NoOne /\ calls[c].receipt = NoOne
Enforced(c) == \A rule \in Rules : ~Broken(rule, c)

(***************************************************************************)
(* The CHP gate.                                                           *)
(***************************************************************************)
\* _match_golden; without a usable file nothing matches, and what is no mapping
\* raises an error that _golden does not expect.
Matched(q) == golden \in Goldens /\ golden[q] # {}
Raises == golden = Unparsable

\* open_r0: solvable, scoped, valid and worth it.
R0Passes(a) ==
  /\ a.written /\ deployment.bounded /\ a.backed
  /\ Matched(a.question) \/ a.analytical

\* _parity_for: NoOne is evidence that cannot be had.
Parity(a) ==
  IF ~Matched(a.question) \/ a.number = NoOne THEN NoOne
  ELSE IF a.number \in golden[a.question] THEN "match" ELSE "mismatch"

\* assess_foundation, and the floors of chp: 100 for finance; for the rest 40 is
\* below and 70 is not.
ScoreOfPinned(a) ==
  40 + (IF a.rows >= 1 THEN 30 ELSE 0) + (IF Matched(a.question) THEN 30 ELSE 0)
Score(a) ==
  40 + (IF a.rows >= 1 THEN 30 ELSE 0) + (IF Parity(a) = "match" THEN 30 ELSE 0)
Domain(a) == IF Matched(a.question) THEN "finance" ELSE "general"
Floor(domain) == IF domain = "finance" THEN 100 ELSE 70

(***************************************************************************)
(* promote()                                                               *)
(***************************************************************************)
NoCall == [pc |-> "idle", answer |-> NoOne, receipt |-> NoOne, certified |-> FALSE,
           parity |-> NoOne, locked |-> FALSE, reason |-> NoOne]

Pass(c, pc) == calls' = [calls EXCEPT ![c].pc = pc]
Reject(c, reason) == calls' = [calls EXCEPT ![c].pc = "refused", ![c].reason = reason]
Books == <<redeemed, decisions, steady>>

\* The service is built for the request, which takes a usable key and a database.
Promote(c, a, x) ==
  /\ calls[c].pc = "idle"
  /\ calls' = [calls EXCEPT ![c] =
       IF NoOne \in {KeyOf(deployment), deployment.database}
       THEN [NoCall EXCEPT !.pc = "refused", !.reason = "settings"]
       ELSE [NoCall EXCEPT !.pc = "contracts", !.answer = a, !.receipt = x]]
  /\ steady' = steady \cup {c}
  /\ UNCHANGED <<world, redeemed, decisions>>

\* Nothing between the contracts and R0 waits on anybody: one step.
OpenR0(c) ==
  /\ calls[c].pc = "contracts"
  /\ CASE ~Enforced(c)                              -> Reject(c, "contract")
       [] Enforced(c) /\ Raises                     -> Reject(c, "error")
       [] Enforced(c) /\ ~Raises                    ->
            IF R0Passes(calls[c].answer) THEN Pass(c, "execute") ELSE Reject(c, "chp")
  /\ UNCHANGED <<world, Books>>

ExecuteAnswer(c) ==
  /\ calls[c].pc = "execute"
  /\ Pass(c, "harden") \/ Reject(c, "guardrail")
  /\ UNCHANGED <<world, Books>>

\* A hardened answer: its evidence, and whether it certifies itself.
Hardened(c) ==
  LET a == calls[c].answer IN
  [calls[c] EXCEPT !.pc = IF a.by = NoOne THEN "persist" ELSE "receipt",
     !.parity = Parity(a), !.certified = (Score(a) >= Floor(Domain(a)))]
MayProceed(c) ==
  \/ calls[c].answer.by # NoOne
  \/ Hardened(c).certified /\ ~deployment.humanLock

\* A contradiction of the golden set is fatal, whoever confirms; without a
\* confirmer an answer must certify itself, and the settings must let it.
HardenWaived(c) ==
  LET a == calls[c].answer IN
  /\ calls[c].pc = "harden"
  /\ IF ~Raises /\ MayProceed(c) /\ (Parity(a) # "mismatch" \/ a.by # NoOne)
     THEN calls' = [calls EXCEPT ![c] = Hardened(c)]
     ELSE Reject(c, IF Raises THEN "error" ELSE "chp")
  /\ UNCHANGED <<world, Books>>
HardenAnswer(c) ==
  /\ calls[c].pc = "harden"
  /\ IF ~Raises /\ MayProceed(c) /\ Parity(calls[c].answer) # "mismatch"
     THEN calls' = [calls EXCEPT ![c] = Hardened(c)]
     ELSE Reject(c, IF Raises THEN "error" ELSE "chp")
  /\ UNCHANGED <<world, Books>>

(***************************************************************************)
(* Approval receipts.                                                      *)
(***************************************************************************)
\* promotion_args: what a receipt binds, which is not who confirms.
Args(a) == [a EXCEPT !.by = NoOne]

\* A receipt is the key of its MAC, the actor, the arguments and the policy.
Sign(a, actor) ==
  /\ Cardinality(signed) < MaxReceipts /\ KeyOf(deployment) # NoOne
  /\ \E nonce \in 1..MaxReceipts :
       /\ ~\E x \in signed : x.nonce = nonce
       /\ signed' = signed \cup
            {[nonce |-> nonce, key |-> KeyOf(deployment), actor |-> actor, args |-> Args(a),
              policy |-> PolicyVersion(deployment)]}
  /\ UNCHANGED <<deployment, golden, calls, expired, changes, Books>>

BindingUnversioned(x, a) == x.key = KeyOf(deployment) /\ x.args = Args(a) /\ x.actor = a.by
BindingMatches(x, a) ==
  /\ x.key = KeyOf(deployment) /\ x.policy = PolicyVersion(deployment)
  /\ x.args = Args(a) /\ x.actor = a.by

\* verify_and_redeem; then the human lock is applied.
RedeemReceipt(c) ==
  LET x == calls[c].receipt IN
  /\ calls[c].pc = "receipt"
  /\ IF x \in signed /\ BindingMatches(x, calls[c].answer) /\ x \notin expired
          /\ x \notin DOMAIN redeemed
     THEN /\ redeemed' = [y \in DOMAIN redeemed \cup {x} |-> IF y = x THEN c ELSE redeemed[y]]
          /\ calls' = [calls EXCEPT ![c].pc = "persist", ![c].locked = TRUE]
     ELSE Reject(c, "receipt") /\ UNCHANGED redeemed
  /\ UNCHANGED <<world, decisions, steady>>

(***************************************************************************)
(* Persistence and record.                                                 *)
(***************************************************************************)
\* The pre-persist contract and every failure of Superset are one refusal.
Persist(c) ==
  /\ calls[c].pc = "persist"
  /\ Pass(c, "record") \/ Reject(c, "superset")
  /\ UNCHANGED <<world, Books>>

RecordDecision(c) ==
  /\ calls[c].pc = "record"
  /\ decisions' = decisions \cup {[call |-> c, answer |-> calls[c].answer,
       status |-> IF calls[c].locked THEN "LOCKED" ELSE "PROVISIONAL_LOCK"]}
  /\ Pass(c, "promoted")
  /\ UNCHANGED <<world, redeemed, steady>>

(***************************************************************************)
(* What changes around a promotion.                                        *)
(***************************************************************************)
ReplaceGolden(g) ==
  /\ changes < MaxChanges /\ g # golden
  /\ golden' = g /\ steady' = {}
  /\ changes' = changes + 1
  /\ UNCHANGED <<deployment, calls, signed, redeemed, expired, decisions>>

\* Settings come from the environment of the process: requests in flight die.
Redeploy(d) ==
  /\ changes < MaxChanges /\ d # deployment
  /\ deployment' = d
  /\ calls' = [c \in Calls |-> IF calls[c].pc \in {"idle", "refused", "promoted"} THEN calls[c]
                               ELSE [calls[c] EXCEPT !.pc = "refused", !.reason = "died"]]
  /\ changes' = changes + 1
  /\ UNCHANGED <<golden, signed, redeemed, expired, decisions, steady>>

ExpireReceipt(x) ==
  /\ changes < MaxChanges
  /\ expired' = expired \cup {x}
  /\ changes' = changes + 1
  /\ UNCHANGED <<deployment, golden, calls, signed, redeemed, decisions, steady>>

GateInit ==
  /\ deployment \in Deployments
  /\ golden \in Goldens \cup {Unusable, Unparsable}
  /\ calls = [c \in Calls |-> NoCall]
  /\ signed = {} /\ expired = {} /\ decisions = {} /\ steady = {}
  /\ redeemed = [x \in {} |-> NoOne]
  /\ changes = 0

GateNext ==
  \/ \E c \in Calls :
       \/ \E a \in Answers, x \in signed \cup {NoOne} : Promote(c, a, x)
       \/ OpenR0(c) \/ ExecuteAnswer(c) \/ HardenAnswer(c)
       \/ RedeemReceipt(c) \/ Persist(c) \/ RecordDecision(c)
  \/ \E a \in Answers : a.by # NoOne /\ Sign(a, a.by)
  \/ \E g \in Goldens \cup {Unusable, Unparsable} : ReplaceGolden(g)
  \/ \E d \in Deployments : Redeploy(d)
  \/ \E x \in signed \ expired : ExpireReceipt(x)

GateSpec == GateInit /\ [][GateNext]_gateVars

(***************************************************************************)
(* Properties.                                                             *)
(***************************************************************************)
GateStages == {"idle", "contracts", "execute", "harden", "receipt", "persist", "record",
               "promoted", "refused"}
GateRefusals == {"settings", "contract", "chp", "error", "guardrail", "receipt", "superset", "died"}

\* Calls, receipts and the golden file always have their shape.
GateTypeOK ==
  /\ deployment \in Deployments /\ golden \in Goldens \cup {Unusable, Unparsable}
  /\ calls \in [Calls -> [pc : GateStages, answer : Answers \cup {NoOne},
                          receipt : signed \cup {NoOne}, certified : BOOLEAN,
                          parity : {NoOne, "match", "mismatch"}, locked : BOOLEAN,
                          reason : GateRefusals \cup {NoOne}]]
  /\ \A c \in Calls : calls[c].pc \notin {"idle", "refused"} => calls[c].answer \in Answers
  /\ DOMAIN redeemed \subseteq signed /\ steady \subseteq Calls

\* A usable golden file that stays the same during a promotion prevails over
\* everybody: an answer that contradicts it is not persisted whoever confirms it,
\* and one that cannot be compared is not persisted unconfirmed ('no confirmer
\* can wave it through', chp.py:23).
PinnedTruthPrevails ==
  \A c \in steady :
    LET a == calls[c].answer IN
    calls[c].pc \in {"record", "promoted"} /\ Matched(a.question) =>
      \/ a.number \in golden[a.question]
      \/ a.number = NoOne /\ a.by # NoOne

\* An unconfirmed answer in the ledger is one that returned rows, under settings
\* that ask for no confirmer, and that agrees with the golden set of its hardening
\* when that pinned the question.
SelfCertifiedIsEarned ==
  \A c \in Calls :
    LET a == calls[c].answer IN
    calls[c].pc \in {"record", "promoted"} /\ a.by = NoOne =>
      /\ a.rows >= 1
      /\ calls[c].pc = "record" => ~deployment.humanLock
      /\ c \in steady /\ Matched(a.question) => calls[c].parity = "match"

\* A locked decision rests on one receipt of its own, signed by its confirmer for
\* exactly these arguments, and, while it is being redeemed and persisted, under
\* the key and the policy in force: an approval given under other knobs is void.
LockIsBacked ==
  \A c \in Calls : calls[c].locked =>
    \E x \in DOMAIN redeemed :
      /\ redeemed[x] = c /\ x \in signed
      /\ x.actor = calls[c].answer.by /\ x.args = Args(calls[c].answer)
      /\ calls[c].pc \in {"persist", "record"} =>
           x.key = KeyOf(deployment) /\ x.policy = PolicyVersion(deployment)

\* 'A financial KPI cannot self-certify without parity evidence' (README.md:235).
\* Violated: with an unusable golden file a question that the golden set pins is
\* an ordinary one, whose floor two thirds of the evidence reach.
FinanceNeedsParity ==
  \A c \in Calls :
    calls[c].pc = "promoted" /\ calls[c].answer.by = NoOne /\ calls[c].answer.question \in Pinned
      => calls[c].parity = "match"

\* An unusable golden set is 'never a promotion blocker on its own' (chp.py:202).
\* Violated: a file that is not YAML raises an error that nothing on the way
\* catches, and no answer is promoted while it is there.
GoldenBlocksNothing == \A c \in Calls : calls[c].reason # "error"

=============================================================================
