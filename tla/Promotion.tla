----------------------------- MODULE Promotion -----------------------------
(***************************************************************************)
(* POST /answers/promote: contracts, CHP gate, guarded execution, approval *)
(* receipt, and persistence of the answer as a dataset, a chart and a row  *)
(* of the shared Superset dashboard.                                       *)
(*                                                                         *)
(* Every handler thread is one request at a time, in one API process.  The *)
(* per-question mutex lives in that process; the audit trail, the receipt  *)
(* and decision ledgers and Superset survive it.  Each request to Superset *)
(* is one step, so that two requests interleave between any two of them;   *)
(* a call that Superset would still apply after its caller gave up on it   *)
(* is left out, and so is a deployment with no database id (refused        *)
(* before anything is recorded).                                           *)
(* A question's hash is the question itself; a slug is question and day.   *)
(***************************************************************************)
EXTENDS Naturals, Sequences

CONSTANTS Handlers,   \* request handler threads
          Questions,
          Sqls,       \* answer SQL
          Days,       \* promotion dates
          Tables,     \* mart tables an answer may be backed by
          People,     \* confirmers
          Receipts,   \* approval receipts that may be signed
          Asks,       \* the requests that are submitted
          Binds,      \* [Receipts -> what each approves]
          RequireHumanLock,  \* chp_require_human_lock
          None,       \* no handler, table, confirmer, receipt or chart
          MaxRequests, \* bound: requests submitted
          MaxCrashes  \* bound: deaths of the API process

Request == [question: Questions, sql: Sqls, day: Days, table: Tables \cup {None},
            actor: People \cup {None}]

\* A chart is known by its slug and its number among the charts of that slug.
ChartIds == (Questions \X Days) \X (Nat \ {0})

ASSUME PromotionAssumption ==
  /\ None \notin Handlers \cup Tables \cup People \cup Receipts \cup ChartIds
  /\ Questions \cap Tables = {}
  /\ Asks \subseteq Request /\ Binds \in [Receipts -> Request]
  /\ RequireHumanLock \in BOOLEAN
  /\ MaxRequests \in Nat /\ MaxCrashes \in Nat

VARIABLES req,       \* [Handlers -> the request being served]
          mutex,     \* [Questions -> the handler that holds it, or None]
          life,      \* [Receipts -> "unsigned", "live" or "expired"]
          spent,     \* receipts with a redemption event in the receipt ledger
          audit,     \* the audit trail: question, sql and outcome
          ledger,    \* the decision ledger
          datasets,  \* [Questions \cup Tables -> datasets of that name, by SQL]
          charts,    \* [Questions \X Days -> charts of that slug, by dataset]
          dashboard, \* is the Ask-to-Save dashboard there?
          rows,      \* its grid: [Questions -> the chart in the question's row]
          crossed,   \* history: two requests have held the layout at once
          requests, crashes

superset == <<datasets, charts, dashboard, rows>>
counters == <<requests, crashes, crossed>>
books == <<audit, ledger>>
receipt == <<life, spent>>
vars == <<req, mutex, receipt, books, superset, counters>>

(***************************************************************************)
(* Requests.                                                               *)
(***************************************************************************)
Blank == [pc |-> "idle", ask |-> None, receipt |-> None, locked |-> FALSE,
          dataset |-> None, fresh |-> FALSE, chart |-> None, created |-> FALSE, rows |-> None]

At(h, pc) == req[h].pc = pc
Ask(h) == req[h].ask
Goto(h, pc) == req' = [req EXCEPT ![h].pc = pc]

Row(h, outcome) == [question |-> Ask(h).question, sql |-> Ask(h).sql, outcome |-> outcome]
Audited(h, outcome) == audit' = audit \cup {Row(h, outcome)}

\* Every refusal before persistence is audited before the caller learns of it.
Refuse(h, outcome) ==
  /\ req' = [req EXCEPT ![h] = Blank]
  /\ Audited(h, outcome)
  /\ UNCHANGED <<mutex, receipt, ledger, superset, counters>>

Submit(h, ask, x) ==
  /\ At(h, "idle")
  /\ requests < MaxRequests
  /\ requests' = requests + 1
  /\ req' = [req EXCEPT ![h] = [Blank EXCEPT !.pc = "gate", !.ask = ask, !.receipt = x]]
  /\ UNCHANGED <<mutex, receipt, books, superset, crashes, crossed>>

\* Contracts (a confirmer needs a receipt; SELECT only) and CHP R0.
GateRefuses(h) ==
  /\ At(h, "gate")
  /\ \/ Refuse(h, "contract_rejected")
     \/ ~(Ask(h).actor # None /\ req[h].receipt = None) /\ Refuse(h, "chp_rejected")

GatePasses(h) ==
  /\ At(h, "gate") /\ ~(Ask(h).actor # None /\ req[h].receipt = None)
  /\ Goto(h, "execute")
  /\ UNCHANGED <<mutex, receipt, books, superset, counters>>

Execute(h) ==
  /\ At(h, "execute")
  /\ \/ Refuse(h, "guardrail_rejected")
     \/ /\ Goto(h, "harden")
        /\ Audited(h, "executed")
        /\ UNCHANGED <<mutex, receipt, ledger, superset, counters>>

\* The foundation pass: an answer that contradicts the golden set is refused,
\* one that cannot certify itself needs a confirmer.
Harden(h) ==
  /\ At(h, "harden")
  /\ \/ Refuse(h, "chp_rejected")
     \/ \E selfCertified \in BOOLEAN :
          /\ Ask(h).actor = None => selfCertified /\ ~RequireHumanLock
          /\ Goto(h, IF Ask(h).actor = None THEN "enter" ELSE "redeem")
          /\ UNCHANGED <<mutex, receipt, books, superset, counters>>

\* Mutation: the binding leaves out the SQL.
VerifiedExceptSql(h, x) ==
  x # None /\ life[x] = "live" /\ [Binds[x] EXCEPT !.sql = Ask(h).sql] = Ask(h)

\* Authentic, alive, and bound to exactly what is about to be executed.
Verified(h, x) == x # None /\ life[x] = "live" /\ Binds[x] = Ask(h)

\* Mutation: a receipt that was redeemed before is redeemed again.
RedeemUnchecked(h) ==
  LET x == req[h].receipt IN
  /\ At(h, "redeem")
  /\ IF Verified(h, x)
     THEN /\ spent' = spent \cup {x}
          /\ req' = [req EXCEPT ![h].pc = "enter", ![h].locked = TRUE]
          /\ UNCHANGED <<mutex, life, books, superset, counters>>
     ELSE Refuse(h, "receipt_rejected")

\* verify_and_redeem: the spend check and the append are one step, under the
\* ledger file's process-wide lock; then the human lock is applied.
Redeem(h) ==
  LET x == req[h].receipt IN
  /\ At(h, "redeem")
  /\ IF Verified(h, x) /\ x \notin spent
     THEN /\ spent' = spent \cup {x}
          /\ req' = [req EXCEPT ![h].pc = "enter", ![h].locked = TRUE]
          /\ UNCHANGED <<mutex, life, books, superset, counters>>
     ELSE Refuse(h, "receipt_rejected")

(***************************************************************************)
(* _persist, under the question's mutex.                                   *)
(***************************************************************************)
\* Mutation: the mutex is taken, never waited for.
EnterAtOnce(h) ==
  /\ At(h, "enter")
  /\ mutex' = [mutex EXCEPT ![Ask(h).question] = h]
  /\ Goto(h, "target")
  /\ UNCHANGED <<receipt, books, superset, counters>>

Enter(h) ==
  /\ At(h, "enter")
  /\ mutex[Ask(h).question] = None
  /\ mutex' = [mutex EXCEPT ![Ask(h).question] = h]
  /\ Goto(h, "target")
  /\ UNCHANGED <<receipt, books, superset, counters>>

Release(h) == mutex' = [mutex EXCEPT ![Ask(h).question] = None]

Persisting == {"target", "dataset", "new_dataset", "chart", "update_chart",
               "new_chart", "uuid", "dashboard", "new_dashboard", "read_rows", "write_rows"}
AuditedFailures == {"chart", "update_chart", "new_chart", "uuid", "write_rows"}

\* Mutation: a failed request starts over with the mutex in hand.
FailRetrying(h) ==
  /\ req[h].pc \in Persisting
  /\ Goto(h, "target")
  /\ UNCHANGED <<mutex, receipt, books, superset, counters>>

\* A target that is not the READ_ONLY connection, or a request that Superset
\* refuses or does not answer: the exception leaves the mutex; a refusal of the
\* chart or the layout is audited, a lost connection is not.  What was written
\* before stays.
Fail(h) ==
  /\ req[h].pc \in Persisting
  /\ req' = [req EXCEPT ![h] = Blank]
  /\ Release(h)
  /\ \/ req[h].pc \in AuditedFailures /\ Audited(h, "superset_error")
     \/ UNCHANGED audit
  /\ UNCHANGED <<receipt, ledger, superset, counters>>

CheckTarget(h) ==
  /\ At(h, "target")
  /\ Goto(h, "dataset")
  /\ UNCHANGED <<mutex, receipt, books, superset, counters>>

\* ensure_dataset: found by name, or created; an existing one keeps its SQL.
Name(h) == IF Ask(h).table # None THEN Ask(h).table ELSE Ask(h).question
DatasetSql(ask) == IF ask.table # None THEN None ELSE ask.sql  \* a mart table has no SQL

FindDataset(h) ==
  /\ At(h, "dataset")
  /\ req' = IF datasets[Name(h)] = <<>>
            THEN [req EXCEPT ![h].pc = "new_dataset"]
            ELSE [req EXCEPT ![h].pc = "chart", ![h].dataset = <<Name(h), 1>>,
                             ![h].fresh = FALSE]
  /\ UNCHANGED <<mutex, receipt, books, superset, counters>>

\* fresh is kept for checking: the request's dataset is one it made.
CreateDataset(h) ==
  /\ At(h, "new_dataset")
  /\ datasets' = [datasets EXCEPT ![Name(h)] = Append(@, DatasetSql(Ask(h)))]
  /\ req' = [req EXCEPT ![h].pc = "chart", ![h].fresh = TRUE,
                        ![h].dataset = <<Name(h), Len(datasets[Name(h)]) + 1>>]
  /\ UNCHANGED <<mutex, receipt, books, charts, dashboard, rows, counters>>

\* ensure_chart: found by slug and updated in place, or created.
Slug(h) == <<Ask(h).question, Ask(h).day>>

FindChart(h) ==
  /\ At(h, "chart")
  /\ req' = IF charts[Slug(h)] = <<>>
            THEN [req EXCEPT ![h].pc = "new_chart"]
            ELSE [req EXCEPT ![h].pc = "update_chart", ![h].chart = <<Slug(h), 1>>]
  /\ UNCHANGED <<mutex, receipt, books, superset, counters>>

UpdateChart(h) ==
  /\ At(h, "update_chart")
  /\ charts' = [charts EXCEPT ![Slug(h)][1] = req[h].dataset]
  /\ Goto(h, "uuid")
  /\ UNCHANGED <<mutex, receipt, books, datasets, dashboard, rows, counters>>

CreateChart(h) ==
  /\ At(h, "new_chart")
  /\ charts' = [charts EXCEPT ![Slug(h)] = Append(@, req[h].dataset)]
  /\ req' = [req EXCEPT ![h].pc = "uuid", ![h].created = TRUE,
                        ![h].chart = <<Slug(h), Len(charts[Slug(h)]) + 1>>]
  /\ UNCHANGED <<mutex, receipt, books, datasets, dashboard, rows, counters>>

\* The layout needs the chart's uuid.
ChartUuid(h) ==
  /\ At(h, "uuid")
  /\ Goto(h, "dashboard")
  /\ UNCHANGED <<mutex, receipt, books, superset, counters>>

\* Mutation: the promotion is audited as soon as the dashboard is known.
FindDashboardThenAudit(h) ==
  /\ At(h, "dashboard")
  /\ Goto(h, IF dashboard THEN "audit" ELSE "new_dashboard")
  /\ UNCHANGED <<mutex, receipt, books, superset, counters>>

FindDashboard(h) ==
  /\ At(h, "dashboard")
  /\ Goto(h, IF dashboard THEN "read_rows" ELSE "new_dashboard")
  /\ UNCHANGED <<mutex, receipt, books, superset, counters>>

\* Superset keeps dashboard slugs unique: the second of two creations fails.
CreateDashboard(h) ==
  /\ At(h, "new_dashboard") /\ ~dashboard
  /\ dashboard' = TRUE
  /\ Goto(h, "read_rows")
  /\ UNCHANGED <<mutex, receipt, books, datasets, charts, rows, counters>>

ReadRows(h) ==
  /\ At(h, "read_rows")
  /\ req' = [req EXCEPT ![h].pc = "write_rows", ![h].rows = rows]
  /\ crossed' = (crossed \/ \E g \in Handlers \ {h} : At(g, "write_rows"))
  /\ UNCHANGED <<mutex, receipt, books, superset, requests, crashes>>

\* Mutation: a question promoted again gets its row anew.
WriteRowsAnew(h) ==
  /\ At(h, "write_rows")
  /\ rows' = [req[h].rows EXCEPT ![Ask(h).question] = req[h].chart]
  /\ req' = [req EXCEPT ![h].pc = "audit", ![h].rows = None]
  /\ UNCHANGED <<mutex, receipt, books, datasets, charts, dashboard, counters>>

\* append_chart_row on the layout read before, then the whole layout is put.  A
\* question that has its row keeps it, with the chart of the first day.
WriteRows(h) ==
  /\ At(h, "write_rows")
  /\ rows' = [req[h].rows EXCEPT ![Ask(h).question] = IF @ = None THEN req[h].chart ELSE @]
  /\ req' = [req EXCEPT ![h].pc = "audit", ![h].rows = None]
  /\ UNCHANGED <<mutex, receipt, books, datasets, charts, dashboard, counters>>

AuditPersist(h) ==
  /\ At(h, "audit")
  /\ Audited(h, IF req[h].created THEN "promoted" ELSE "updated")
  /\ Release(h)
  /\ Goto(h, "record")
  /\ UNCHANGED <<receipt, ledger, superset, counters>>

Decision(h) ==
  [ask |-> Ask(h), receipt |-> req[h].receipt, locked |-> req[h].locked,
   dataset |-> req[h].dataset, fresh |-> req[h].fresh, chart |-> req[h].chart]

\* The sealed decision is recorded outside the mutex, and the request answered.
Record(h) ==
  /\ At(h, "record")
  /\ ledger' = ledger \cup {Decision(h)}
  /\ req' = [req EXCEPT ![h] = Blank]
  /\ UNCHANGED <<mutex, receipt, audit, superset, counters>>

(***************************************************************************)
(* Approvals, and the death of the API process.                            *)
(***************************************************************************)
Sign(x) ==
  /\ life[x] = "unsigned"
  /\ life' = [life EXCEPT ![x] = "live"]
  /\ UNCHANGED <<req, mutex, spent, books, superset, counters>>

Expire(x) ==
  /\ life[x] = "live"
  /\ life' = [life EXCEPT ![x] = "expired"]
  /\ UNCHANGED <<req, mutex, spent, books, superset, counters>>

Crash ==
  /\ crashes < MaxCrashes
  /\ crashes' = crashes + 1
  /\ req' = [h \in Handlers |-> Blank]
  /\ mutex' = [q \in Questions |-> None]
  /\ UNCHANGED <<receipt, books, superset, requests, crossed>>

Init ==
  /\ req = [h \in Handlers |-> Blank]
  /\ mutex = [q \in Questions |-> None]
  /\ life = [x \in Receipts |-> "unsigned"]
  /\ spent = {}
  /\ audit = {} /\ ledger = {}
  /\ datasets = [n \in Questions \cup Tables |-> <<>>]
  /\ charts = [s \in Questions \X Days |-> <<>>]
  /\ dashboard = FALSE
  /\ rows = [q \in Questions |-> None]
  /\ requests = 0 /\ crashes = 0 /\ crossed = FALSE

\* The bound on requests is reached and every one of them was answered.
Rest ==
  /\ requests = MaxRequests
  /\ \A h \in Handlers : At(h, "idle")
  /\ UNCHANGED vars

Serve(h) ==
  \/ GateRefuses(h) \/ GatePasses(h) \/ Execute(h) \/ Harden(h) \/ Redeem(h) \/ Enter(h)
  \/ CheckTarget(h) \/ FindDataset(h) \/ CreateDataset(h) \/ FindChart(h) \/ UpdateChart(h)
  \/ CreateChart(h) \/ ChartUuid(h) \/ FindDashboard(h) \/ CreateDashboard(h) \/ ReadRows(h) \/ WriteRows(h)
  \/ AuditPersist(h) \/ Record(h) \/ Fail(h)

Next ==
  \/ \E h \in Handlers, ask \in Asks, x \in Receipts \cup {None} : Submit(h, ask, x)
  \/ \E h \in Handlers : Serve(h)
  \/ \E x \in Receipts : Sign(x) \/ Expire(x)
  \/ Crash \/ Rest

\* A thread that can go on does: every HTTP call returns or times out.
Spec == Init /\ [][Next]_vars
FairSpec == Spec /\ \A h \in Handlers : WF_vars(Serve(h))

(***************************************************************************)
(* Properties.                                                             *)
(***************************************************************************)
Outcomes == {"contract_rejected", "chp_rejected", "guardrail_rejected", "receipt_rejected",
             "executed", "superset_error", "promoted", "updated"}
Stages == {"idle", "gate", "execute", "harden", "redeem", "enter", "audit", "record"}
            \cup Persisting
DatasetIds == (Questions \cup Tables) \X (Nat \ {0})
Grid == [Questions -> ChartIds \cup {None}]
Handling == [pc: Stages, ask: Request \cup {None}, receipt: Receipts \cup {None},
             locked: BOOLEAN, dataset: DatasetIds \cup {None}, fresh: BOOLEAN,
             chart: ChartIds \cup {None}, created: BOOLEAN, rows: Grid \cup {None}]

\* What a request has learnt by each stage.
WellStaged(r) ==
  /\ r.pc # "idle" => r.ask \in Request
  /\ r.pc \in {"chart", "update_chart", "new_chart"} => r.dataset \in DatasetIds
  /\ r.pc = "write_rows" => r.chart \in ChartIds /\ r.rows \in Grid
  /\ r.pc \in {"update_chart", "uuid", "dashboard", "new_dashboard", "read_rows"} =>
       r.chart \in ChartIds
  /\ r.locked => r.receipt \in Receipts /\ r.pc # "idle"

\* Every variable has its type, and a request has what its stage needs.
TypeOK ==
  /\ req \in [Handlers -> Handling]
  /\ \A h \in Handlers : WellStaged(req[h])
  /\ mutex \in [Questions -> Handlers \cup {None}]
  /\ life \in [Receipts -> {"unsigned", "live", "expired"}]
  /\ spent \subseteq Receipts
  /\ audit \subseteq [question: Questions, sql: Sqls, outcome: Outcomes]
  /\ ledger \subseteq [ask: Request, receipt: Receipts \cup {None}, locked: BOOLEAN,
                       dataset: DatasetIds \cup {None}, fresh: BOOLEAN,
                       chart: ChartIds \cup {None}]
  /\ datasets \in [Questions \cup Tables -> Seq(Sqls \cup {None})]
  /\ charts \in [Questions \X Days -> Seq(DatasetIds)]
  /\ dashboard \in BOOLEAN
  /\ rows \in Grid
  /\ requests \in Nat /\ crashes \in Nat /\ crossed \in BOOLEAN

\* An approval is worth one promotion: no two requests, under way or decided,
\* ever hold the same redeemed receipt, although every handler builds its own
\* receipt service and the process may die after a redemption.
ApprovalUsedOnce ==
  \A h \in Handlers : req[h].locked =>
    /\ \A g \in Handlers : req[g].locked /\ req[g].receipt = req[h].receipt => g = h
    /\ \A d \in ledger : d.locked => d.receipt # req[h].receipt

\* A decision recorded as locked by a confirmer rests on a redeemed receipt that
\* binds exactly the question, SQL, date, table and confirmer that the ledger seals,
\* and a dataset that this promotion made serves exactly the approved SQL or table.
\* A dataset that was there before keeps its own SQL: LedgerSqlIsServed.
LockedWasApproved ==
  \A d \in ledger : d.locked =>
    /\ d.receipt \in spent /\ Binds[d.receipt] = d.ask
    /\ d.fresh => datasets[d.dataset[1]][d.dataset[2]] = DatasetSql(Binds[d.receipt])

\* "create-or-update by slug, never blind insert": concurrent promotions of one
\* question, failures and deaths never leave two charts of one slug or two
\* datasets of one question.
OneChartPerSlug ==
  /\ \A s \in DOMAIN charts : Len(charts[s]) <= 1
  /\ \A q \in Questions : Len(datasets[q]) <= 1

\* A promotion that is audited as done can be seen: the question has its row, with a
\* chart of that question that exists - of the first day it was promoted - until two
\* requests, of whatever questions, have held the layout at once.
Charted(q, c) == c[1][1] = q /\ c[2] <= Len(charts[c[1]])
PromotedIsOnDashboard ==
  ~crossed =>
    \A a \in audit : a.outcome \in {"promoted", "updated"} =>
      rows[a.question] # None /\ Charted(a.question, rows[a.question])

\* "existing curated rows are untouched", promoted rows included, until two requests
\* have held the layout at once.
RowsAreKeptApart ==
  [][~crossed' => \A q \in Questions : rows[q] # None => rows'[q] = rows[q]]_vars

\* No question stays locked out: whoever holds its mutex lets go of it, however
\* the request ends.
MutexReleased ==
  \A q \in Questions, h \in Handlers : mutex[q] = h ~> mutex[q] # h

\* "Virtual mode: a governed dataset over the validated answer SQL": the dataset a
\* decision names serves the SQL the decision seals.
LedgerSqlIsServed ==
  \A d \in ledger : d.ask.table = None => datasets[d.dataset[1]][d.dataset[2]] = d.ask.sql

\* "existing curated rows are untouched": a question's row never goes away, whatever
\* else is promoted.
RowsAreKept ==
  [][\A q \in Questions : rows[q] # None => rows'[q] = rows[q]]_vars

\* A promotion audited as done shows the chart it made: of the decision's own day.
PromotedChartIsShown ==
  \A d \in ledger : ~crossed => rows[d.ask.question] = d.chart
=============================================================================
