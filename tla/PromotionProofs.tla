-------------------------- MODULE PromotionProofs --------------------------
(***************************************************************************)
(* Proofs about Promotion, for any number of handlers, questions, days,    *)
(* receipts, requests and deaths of the process.                           *)
(***************************************************************************)
EXTENDS Promotion, TLAPS

(***************************************************************************)
(* The type invariant.  A step of a handler replaces its own request only. *)
(***************************************************************************)
LEMMA BlankTyped == Blank \in Handling /\ WellStaged(Blank)
BY DEF Blank, Handling, WellStaged, Stages

LEMMA TypeInit == ASSUME PromotionAssumption PROVE Init => TypeOK
<1> USE PromotionAssumption DEF PromotionAssumption
<1>1. SUFFICES ASSUME Init PROVE TypeOK
  OBVIOUS
<1>2. req \in [Handlers -> Handling] /\ \A h \in Handlers : WellStaged(req[h])
  BY <1>1, BlankTyped DEF Init
<1>3. rows \in Grid /\ mutex \in [Questions -> Handlers \cup {None}]
  BY <1>1 DEF Init, Grid
<1>4. datasets \in [Questions \cup Tables -> Seq(Sqls \cup {None})]
  BY <1>1 DEF Init
<1>5. charts \in [Questions \X Days -> Seq(DatasetIds)]
  BY <1>1 DEF Init
<1> QED
  BY <1>1, <1>2, <1>3, <1>4, <1>5 DEF Init, TypeOK

\* What a step must establish when it replaces the request of one handler.
LEMMA ReplaceRequest ==
  ASSUME TypeOK, NEW h \in Handlers, NEW r \in Handling, WellStaged(r),
         req' = [req EXCEPT ![h] = r]
  PROVE  req' \in [Handlers -> Handling] /\ \A g \in Handlers : WellStaged(req'[g])
BY DEF TypeOK

\* A handler that moves on to a stage that asks for nothing new.
LEMMA GotoTyped ==
  ASSUME TypeOK, NEW h \in Handlers, NEW pc \in Stages \ {"idle"}, Goto(h, pc),
         WellStaged([req[h] EXCEPT !.pc = pc])
  PROVE  req' \in [Handlers -> Handling] /\ \A g \in Handlers : WellStaged(req'[g])
<1> DEFINE r == [req[h] EXCEPT !.pc = pc]
<1>1. req[h] \in Handling
  BY DEF TypeOK
<1>2. r \in Handling
  BY <1>1 DEF Handling
<1>3. req' = [req EXCEPT ![h] = r]
  BY <1>1 DEF Goto, Handling
<1> QED
  BY <1>2, <1>3, ReplaceRequest

\* The audit trail takes a row of any outcome of a request under way.
LEMMA AuditTyped ==
  ASSUME TypeOK, NEW h \in Handlers, req[h].pc # "idle", NEW outcome \in Outcomes,
         Audited(h, outcome)
  PROVE  audit' \subseteq [question: Questions, sql: Sqls, outcome: Outcomes]
<1>1. req[h].ask \in Request
  BY DEF TypeOK, WellStaged
<1>2. Row(h, outcome) \in [question: Questions, sql: Sqls, outcome: Outcomes]
  BY <1>1 DEF Row, Ask, Request
<1> QED
  BY <1>2 DEF Audited, TypeOK

LEMMA RefuseTyped ==
  ASSUME TypeOK, NEW h \in Handlers, req[h].pc # "idle", NEW outcome \in Outcomes,
         Refuse(h, outcome)
  PROVE  TypeOK'
<1>1. req' \in [Handlers -> Handling] /\ \A g \in Handlers : WellStaged(req'[g])
  BY BlankTyped, ReplaceRequest DEF Refuse
<1>2. audit' \subseteq [question: Questions, sql: Sqls, outcome: Outcomes]
  BY AuditTyped DEF Refuse
<1> QED
  BY <1>1, <1>2 DEF Refuse, TypeOK, receipt, superset, counters

\* One step, one case per action.
LEMMA TypeStep == ASSUME PromotionAssumption PROVE TypeOK /\ [Next]_vars => TypeOK'
<1> USE PromotionAssumption DEF PromotionAssumption
<1>1. SUFFICES ASSUME TypeOK, [Next]_vars PROVE TypeOK'
  OBVIOUS
<1> DEFINE ReqTyped == req' \in [Handlers -> Handling] /\ \A g \in Handlers : WellStaged(req'[g])
<1> USE <1>1
<1>2. CASE UNCHANGED vars
  BY <1>2 DEF vars, TypeOK, receipt, books, superset, counters
<1>3. ASSUME NEW h \in Handlers, NEW ask \in Asks, NEW x \in Receipts \cup {None},
             Submit(h, ask, x)
      PROVE TypeOK'
  <2> DEFINE r == [Blank EXCEPT !.pc = "gate", !.ask = ask, !.receipt = x]
  <2>0. ask \in Request
    OBVIOUS
  <2>1. r \in Handling /\ WellStaged(r)
    BY <2>0 DEF Blank, Handling, WellStaged, Stages
  <2>2. ReqTyped
    BY <1>3, <2>1, ReplaceRequest DEF Submit
  <2> QED
    BY <1>3, <2>2 DEF Submit, TypeOK, receipt, books, superset
<1>4. ASSUME NEW h \in Handlers, GateRefuses(h) PROVE TypeOK'
  BY <1>4, RefuseTyped DEF GateRefuses, At, Outcomes
<1>5. ASSUME NEW h \in Handlers, GatePasses(h) PROVE TypeOK'
  <2>1. WellStaged([req[h] EXCEPT !.pc = "execute"])
    BY <1>5 DEF GatePasses, At, TypeOK, WellStaged, Handling
  <2>2. ReqTyped
    BY <1>5, <2>1, GotoTyped DEF GatePasses, Stages
  <2> QED
    BY <1>5, <2>2 DEF GatePasses, TypeOK, receipt, books, superset, counters
<1>6. ASSUME NEW h \in Handlers, Execute(h) PROVE TypeOK'
  <2>1. CASE Refuse(h, "guardrail_rejected")
    BY <1>6, <2>1, RefuseTyped DEF Execute, At, Outcomes
  <2>2. CASE Goto(h, "harden") /\ Audited(h, "executed")
               /\ UNCHANGED <<mutex, receipt, ledger, superset, counters>>
    <3>1. WellStaged([req[h] EXCEPT !.pc = "harden"])
      BY <1>6 DEF Execute, At, TypeOK, WellStaged, Handling
    <3>2. ReqTyped
      BY <2>2, <3>1, GotoTyped DEF Stages
    <3>3. audit' \subseteq [question: Questions, sql: Sqls, outcome: Outcomes]
      BY <1>6, <2>2, AuditTyped DEF Execute, At, Outcomes
    <3> QED
      BY <2>2, <3>2, <3>3 DEF TypeOK, receipt, superset, counters
  <2> QED
    BY <1>6, <2>1, <2>2 DEF Execute
<1>7. ASSUME NEW h \in Handlers, Harden(h) PROVE TypeOK'
  <2>1. CASE Refuse(h, "chp_rejected")
    BY <1>7, <2>1, RefuseTyped DEF Harden, At, Outcomes
  <2>2. ASSUME NEW pc \in {"enter", "redeem"}, Goto(h, pc),
               UNCHANGED <<mutex, receipt, books, superset, counters>>
        PROVE TypeOK'
    <3>1. WellStaged([req[h] EXCEPT !.pc = pc])
      BY <1>7 DEF Harden, At, TypeOK, WellStaged, Handling
    <3>2. ReqTyped
      BY <2>2, <3>1, GotoTyped DEF Stages
    <3> QED
      BY <2>2, <3>2 DEF TypeOK, receipt, books, superset, counters
  <2> QED
    BY <1>7, <2>1, <2>2 DEF Harden
<1>8. ASSUME NEW h \in Handlers, Redeem(h) PROVE TypeOK'
  <2> DEFINE x == req[h].receipt
             r == [req[h] EXCEPT !.pc = "enter", !.locked = TRUE]
  <2>1. CASE Verified(h, x) /\ x \notin spent
    <3>1. x \in Receipts
      BY <2>1 DEF Verified, TypeOK, Handling
    <3>2. req[h] \in Handling /\ req[h].ask \in Request
      BY <1>8 DEF Redeem, At, TypeOK, WellStaged
    <3>5. r \in Handling
      BY <3>2 DEF Handling, Stages
    <3>6. WellStaged(r)
      BY <3>1, <3>2 DEF WellStaged, Handling
    <3>3. req' = [req EXCEPT ![h] = r]
      BY <1>8, <2>1 DEF Redeem, TypeOK
    <3>4. ReqTyped
      BY <3>3, <3>5, <3>6, ReplaceRequest
    <3> QED
      BY <1>8, <2>1, <3>1, <3>4 DEF Redeem, TypeOK, books, superset, counters
  <2>2. CASE ~(Verified(h, x) /\ x \notin spent)
    BY <1>8, <2>2, RefuseTyped DEF Redeem, At, Outcomes
  <2> QED
    BY <2>1, <2>2
<1>9. ASSUME NEW h \in Handlers, Enter(h) PROVE TypeOK'
  <2>1. WellStaged([req[h] EXCEPT !.pc = "target"])
    BY <1>9 DEF Enter, At, TypeOK, WellStaged, Handling
  <2>2. ReqTyped
    BY <1>9, <2>1, GotoTyped DEF Enter, Stages, Persisting
  <2> QED
    BY <1>9, <2>2 DEF Enter, TypeOK, receipt, books, superset, counters
<1>10. ASSUME NEW h \in Handlers, CheckTarget(h) PROVE TypeOK'
  <2>1. WellStaged([req[h] EXCEPT !.pc = "dataset"])
    BY <1>10 DEF CheckTarget, At, TypeOK, WellStaged, Handling
  <2>2. ReqTyped
    BY <1>10, <2>1, GotoTyped DEF CheckTarget, Stages, Persisting
  <2> QED
    BY <1>10, <2>2 DEF CheckTarget, TypeOK, receipt, books, superset, counters
<1>11. ASSUME NEW h \in Handlers, FindDataset(h) PROVE TypeOK'
  <2>1. req[h] \in Handling /\ Ask(h) \in Request
    BY <1>11 DEF FindDataset, At, Ask, TypeOK, WellStaged
  <2>2. CASE datasets[Name(h)] = <<>>
    <3> DEFINE r == [req[h] EXCEPT !.pc = "new_dataset"]
    <3>1. r \in Handling /\ WellStaged(r)
      BY <1>11, <2>1 DEF FindDataset, At, TypeOK, WellStaged, Handling, Stages, Persisting, Ask
    <3>2. ReqTyped
      BY <1>11, <2>2, <3>1, ReplaceRequest DEF FindDataset, TypeOK
    <3> QED
      BY <1>11, <3>2 DEF FindDataset, TypeOK, receipt, books, superset, counters
  <2>3. CASE datasets[Name(h)] # <<>>
    <3> DEFINE r == [req[h] EXCEPT !.pc = "chart", !.dataset = <<Name(h), 1>>, !.fresh = FALSE]
    <3>1. <<Name(h), 1>> \in DatasetIds
      BY <2>1 DEF Name, Request, DatasetIds
    <3>2. r \in Handling
      BY <2>1, <3>1 DEF Handling, Stages, Persisting
    <3>3. WellStaged(r)
      BY <1>11, <2>1, <3>1 DEF FindDataset, At, TypeOK, WellStaged, Handling, Ask
    <3>4. ReqTyped
      BY <1>11, <2>3, <3>2, <3>3, ReplaceRequest DEF FindDataset, TypeOK
    <3> QED
      BY <1>11, <3>4 DEF FindDataset, TypeOK, receipt, books, superset, counters
  <2> QED
    BY <2>2, <2>3
<1>12. ASSUME NEW h \in Handlers, CreateDataset(h) PROVE TypeOK'
  <2> DEFINE n == Name(h)
             id == <<n, Len(datasets[n]) + 1>>
             r == [req[h] EXCEPT !.pc = "chart", !.fresh = TRUE, !.dataset = id]
  <2>1. req[h] \in Handling /\ Ask(h) \in Request
    BY <1>12 DEF CreateDataset, At, Ask, TypeOK, WellStaged
  <2>2. n \in Questions \cup Tables /\ DatasetSql(Ask(h)) \in Sqls \cup {None}
    BY <2>1 DEF Name, DatasetSql, Request
  <2>3. datasets[n] \in Seq(Sqls \cup {None})
    BY <2>2 DEF TypeOK
  <2>4. id \in DatasetIds
    BY <2>2, <2>3 DEF DatasetIds
  <2>5. r \in Handling
    BY <2>1, <2>4 DEF Handling, Stages, Persisting
  <2>6. WellStaged(r)
    BY <1>12, <2>1, <2>4 DEF CreateDataset, At, TypeOK, WellStaged, Handling, Ask
  <2>7. req' = [req EXCEPT ![h] = r]
    BY <1>12 DEF CreateDataset, TypeOK
  <2>8. ReqTyped
    BY <2>5, <2>6, <2>7, ReplaceRequest
  <2>9. datasets' \in [Questions \cup Tables -> Seq(Sqls \cup {None})]
    BY <1>12, <2>2, <2>3 DEF CreateDataset, TypeOK
  <2> QED
    BY <1>12, <2>8, <2>9 DEF CreateDataset, TypeOK, receipt, books, counters
<1>13. ASSUME NEW h \in Handlers, FindChart(h) PROVE TypeOK'
  <2>1. req[h] \in Handling /\ Ask(h) \in Request
    BY <1>13 DEF FindChart, At, Ask, TypeOK, WellStaged
  <2>2. CASE charts[Slug(h)] = <<>>
    <3> DEFINE r == [req[h] EXCEPT !.pc = "new_chart"]
    <3>1. r \in Handling /\ WellStaged(r)
      BY <1>13, <2>1 DEF FindChart, At, TypeOK, WellStaged, Handling, Stages, Persisting, Ask
    <3>2. ReqTyped
      BY <1>13, <2>2, <3>1, ReplaceRequest DEF FindChart, TypeOK
    <3> QED
      BY <1>13, <3>2 DEF FindChart, TypeOK, receipt, books, superset, counters
  <2>3. CASE charts[Slug(h)] # <<>>
    <3> DEFINE r == [req[h] EXCEPT !.pc = "update_chart", !.chart = <<Slug(h), 1>>]
    <3>1. <<Slug(h), 1>> \in ChartIds
      BY <2>1 DEF Slug, Ask, Request, ChartIds
    <3>2. r \in Handling
      BY <2>1, <3>1 DEF Handling, Stages, Persisting
    <3>3. WellStaged(r) /\ r.chart \in ChartIds
      BY <1>13, <2>1, <3>1 DEF FindChart, At, TypeOK, WellStaged, Handling, Ask
    <3>4. ReqTyped
      BY <1>13, <2>3, <3>2, <3>3, ReplaceRequest DEF FindChart, TypeOK
    <3> QED
      BY <1>13, <3>4 DEF FindChart, TypeOK, receipt, books, superset, counters
  <2> QED
    BY <2>2, <2>3
<1>14. ASSUME NEW h \in Handlers, UpdateChart(h) PROVE TypeOK'
  <2>1. req[h] \in Handling /\ Ask(h) \in Request /\ req[h].dataset \in DatasetIds
          /\ req[h].chart \in ChartIds
    BY <1>14 DEF UpdateChart, At, Ask, TypeOK, WellStaged
  <2>2. WellStaged([req[h] EXCEPT !.pc = "uuid"])
    BY <1>14, <2>1 DEF UpdateChart, At, TypeOK, WellStaged, Handling, Ask
  <2>3. ReqTyped
    BY <1>14, <2>2, GotoTyped DEF UpdateChart, Stages, Persisting
  <2>4. Slug(h) \in Questions \X Days
    BY <2>1 DEF Slug, Ask, Request
  <2>5. charts' \in [Questions \X Days -> Seq(DatasetIds)]
    <3> DEFINE old == charts[Slug(h)]
               new == [old EXCEPT ![1] = req[h].dataset]
    <3>1. old \in Seq(DatasetIds)
      BY <2>4 DEF TypeOK
    <3>2. /\ old \in [1 .. Len(old) -> DatasetIds]
          /\ Len(old) \in Nat
      BY <3>1
    <3>3. new \in [1 .. Len(old) -> DatasetIds]
      BY <2>1, <3>2
    <3>4. new \in Seq(DatasetIds)
      BY <3>2, <3>3
    <3>5. charts' = [charts EXCEPT ![Slug(h)] = new]
      BY <1>14 DEF UpdateChart
    <3> HIDE DEF new
    <3> QED
      BY <2>4, <3>4, <3>5 DEF TypeOK
  <2> QED
    BY <1>14, <2>3, <2>5 DEF UpdateChart, TypeOK, receipt, books, counters
<1>15. ASSUME NEW h \in Handlers, CreateChart(h) PROVE TypeOK'
  <2> DEFINE s == Slug(h)
             id == <<s, Len(charts[s]) + 1>>
             r == [req[h] EXCEPT !.pc = "uuid", !.created = TRUE, !.chart = id]
  <2>1. req[h] \in Handling /\ Ask(h) \in Request /\ req[h].dataset \in DatasetIds
    BY <1>15 DEF CreateChart, At, Ask, TypeOK, WellStaged
  <2>2. s \in Questions \X Days
    BY <2>1 DEF Slug, Ask, Request
  <2>3. charts[s] \in Seq(DatasetIds)
    BY <2>2 DEF TypeOK
  <2>4. id \in ChartIds
    BY <2>2, <2>3 DEF ChartIds
  <2>5. r \in Handling
    BY <2>1, <2>4 DEF Handling, Stages, Persisting
  <2>6. WellStaged(r)
    BY <1>15, <2>1, <2>4 DEF CreateChart, At, TypeOK, WellStaged, Handling, Ask
  <2>7. req' = [req EXCEPT ![h] = r]
    BY <1>15 DEF CreateChart, TypeOK
  <2>8. ReqTyped
    BY <2>5, <2>6, <2>7, ReplaceRequest
  <2>9. charts' \in [Questions \X Days -> Seq(DatasetIds)]
    BY <1>15, <2>1, <2>2, <2>3 DEF CreateChart, TypeOK
  <2> QED
    BY <1>15, <2>8, <2>9 DEF CreateChart, TypeOK, receipt, books, counters
<1>16. ASSUME NEW h \in Handlers, ChartUuid(h) PROVE TypeOK'
  <2>1. WellStaged([req[h] EXCEPT !.pc = "dashboard"])
    BY <1>16 DEF ChartUuid, At, TypeOK, WellStaged, Handling
  <2>2. ReqTyped
    BY <1>16, <2>1, GotoTyped DEF ChartUuid, Stages, Persisting
  <2> QED
    BY <1>16, <2>2 DEF ChartUuid, TypeOK, receipt, books, superset, counters
<1>17. ASSUME NEW h \in Handlers, FindDashboard(h) PROVE TypeOK'
  <2> DEFINE pc == IF dashboard THEN "read_rows" ELSE "new_dashboard"
  <2>1. WellStaged([req[h] EXCEPT !.pc = pc])
    BY <1>17 DEF FindDashboard, At, TypeOK, WellStaged, Handling
  <2>2. ReqTyped
    BY <1>17, <2>1, GotoTyped DEF FindDashboard, Stages, Persisting
  <2> QED
    BY <1>17, <2>2 DEF FindDashboard, TypeOK, receipt, books, superset, counters
<1>18. ASSUME NEW h \in Handlers, CreateDashboard(h) PROVE TypeOK'
  <2>1. WellStaged([req[h] EXCEPT !.pc = "read_rows"])
    BY <1>18 DEF CreateDashboard, At, TypeOK, WellStaged, Handling
  <2>2. ReqTyped
    BY <1>18, <2>1, GotoTyped DEF CreateDashboard, Stages, Persisting
  <2> QED
    BY <1>18, <2>2 DEF CreateDashboard, TypeOK, receipt, books, counters
<1>19. ASSUME NEW h \in Handlers, ReadRows(h) PROVE TypeOK'
  <2> DEFINE r == [req[h] EXCEPT !.pc = "write_rows", !.rows = rows]
  <2>1. req[h] \in Handling /\ Ask(h) \in Request /\ req[h].chart \in ChartIds
    BY <1>19 DEF ReadRows, At, Ask, TypeOK, WellStaged
  <2>2. r \in Handling
    BY <2>1 DEF TypeOK, Handling, Stages, Persisting
  <2>3. WellStaged(r)
    BY <1>19, <2>1 DEF ReadRows, At, TypeOK, WellStaged, Handling, Ask
  <2>4. ReqTyped
    BY <1>19, <2>2, <2>3, ReplaceRequest DEF ReadRows, TypeOK
  <2> QED
    BY <1>19, <2>4 DEF ReadRows, TypeOK, receipt, books, superset, counters
<1>20. ASSUME NEW h \in Handlers, WriteRows(h) PROVE TypeOK'
  <2> DEFINE r == [req[h] EXCEPT !.pc = "audit", !.rows = None]
  <2>1. req[h] \in Handling /\ Ask(h) \in Request /\ req[h].chart \in ChartIds
          /\ req[h].rows \in Grid
    BY <1>20 DEF WriteRows, At, Ask, TypeOK, WellStaged
  <2>2. r \in Handling
    BY <2>1 DEF Handling, Stages, Persisting
  <2>3. WellStaged(r)
    BY <1>20, <2>1 DEF WriteRows, At, TypeOK, WellStaged, Handling, Ask
  <2>4. ReqTyped
    BY <1>20, <2>2, <2>3, ReplaceRequest DEF WriteRows, TypeOK
  <2>5. rows' \in Grid
    BY <1>20, <2>1 DEF WriteRows, Grid, Request
  <2> QED
    BY <1>20, <2>4, <2>5 DEF WriteRows, TypeOK, receipt, books, counters
<1>21. ASSUME NEW h \in Handlers, AuditPersist(h) PROVE TypeOK'
  <2>1. WellStaged([req[h] EXCEPT !.pc = "record"])
    BY <1>21 DEF AuditPersist, At, TypeOK, WellStaged, Handling
  <2>2. ReqTyped
    BY <1>21, <2>1, GotoTyped DEF AuditPersist, Stages, Persisting
  <2>3. audit' \subseteq [question: Questions, sql: Sqls, outcome: Outcomes]
    BY <1>21, AuditTyped DEF AuditPersist, At, Outcomes
  <2>4. mutex' \in [Questions -> Handlers \cup {None}]
    BY <1>21 DEF AuditPersist, Release, TypeOK
  <2> QED
    BY <1>21, <2>2, <2>3, <2>4 DEF AuditPersist, TypeOK, receipt, superset, counters
<1>22. ASSUME NEW h \in Handlers, Record(h) PROVE TypeOK'
  <2>1. ReqTyped
    BY <1>22, BlankTyped, ReplaceRequest DEF Record
  <2>2. req[h] \in Handling /\ Ask(h) \in Request
    BY <1>22 DEF Record, At, Ask, TypeOK, WellStaged
  <2>3. Decision(h) \in [ask: Request, receipt: Receipts \cup {None}, locked: BOOLEAN,
                         dataset: DatasetIds \cup {None}, fresh: BOOLEAN,
                         chart: ChartIds \cup {None}]
    BY <2>2 DEF Decision, Handling
  <2> QED
    BY <1>22, <2>1, <2>3 DEF Record, TypeOK, receipt, superset, counters
<1>23. ASSUME NEW h \in Handlers, Fail(h) PROVE TypeOK'
  <2>1. ReqTyped
    BY <1>23, BlankTyped, ReplaceRequest DEF Fail
  <2>2. audit' \subseteq [question: Questions, sql: Sqls, outcome: Outcomes]
    BY <1>23, AuditTyped DEF Fail, Persisting, Outcomes, TypeOK
  <2>3. mutex' \in [Questions -> Handlers \cup {None}]
    BY <1>23 DEF Fail, Release, TypeOK
  <2> QED
    BY <1>23, <2>1, <2>2, <2>3 DEF Fail, TypeOK, receipt, superset, counters
<1>24. ASSUME NEW x \in Receipts, Sign(x) \/ Expire(x) PROVE TypeOK'
  BY <1>24 DEF Sign, Expire, TypeOK, books, superset, counters
<1>25. CASE Crash
  <2>1. ReqTyped
    BY <1>25, BlankTyped DEF Crash
  <2> QED
    BY <1>25, <2>1 DEF Crash, TypeOK, receipt, books, superset
<1> QED
  BY <1>1, <1>2, <1>3, <1>4, <1>5, <1>6, <1>7, <1>8, <1>9, <1>10, <1>11, <1>12, <1>13, <1>14,
     <1>15, <1>16, <1>17, <1>18, <1>19, <1>20, <1>21, <1>22, <1>23, <1>24, <1>25
  DEF Next, Serve, Rest

\* Every reachable state of the promotion service, its ledgers and Superset has
\* its declared shape (TypeOK).
THEOREM PromotionTypeCorrect == ASSUME PromotionAssumption PROVE Spec => []TypeOK
BY TypeInit, TypeStep, PTL DEF Spec

(***************************************************************************)
(* Approvals.  The two properties are not inductive: a request that holds  *)
(* a redeemed receipt must still be bound by it when it is recorded.       *)
(***************************************************************************)
HoldsApproval(r) == r.receipt \in spent /\ Binds[r.receipt] = r.ask

DecidedOnApproval == \A d \in ledger : d.locked => HoldsApproval(d)

ApprovalInv ==
  /\ \A h \in Handlers : req[h].locked => HoldsApproval(req[h])
  /\ DecidedOnApproval
  /\ ApprovalUsedOnce

\* Nobody comes to hold an approval by a step that redeems and records nothing.
LEMMA ApprovalsKept ==
  ASSUME ApprovalInv, UNCHANGED <<spent, ledger>>,
         \A g \in Handlers : req'[g].locked =>
           req[g].locked /\ req'[g].receipt = req[g].receipt /\ req'[g].ask = req[g].ask
  PROVE  ApprovalInv'
<1>1. \A h \in Handlers : req'[h].locked => HoldsApproval(req[h])'
  BY DEF ApprovalInv, HoldsApproval
<1>2. DecidedOnApproval'
  BY DEF ApprovalInv, DecidedOnApproval, HoldsApproval
<1>3. ApprovalUsedOnce'
  BY DEF ApprovalInv, ApprovalUsedOnce
<1> QED
  BY <1>1, <1>2, <1>3 DEF ApprovalInv

\* A handler that moves on, takes a new request or is done with one.
LEMMA ApprovalsMove ==
  ASSUME TypeOK, ApprovalInv, UNCHANGED <<spent, ledger>>, NEW h \in Handlers, NEW r,
         req' = [req EXCEPT ![h] = r],
         r.locked => req[h].locked /\ r.receipt = req[h].receipt /\ r.ask = req[h].ask
  PROVE  ApprovalInv'
<1>1. \A g \in Handlers : req'[g] = IF g = h THEN r ELSE req[g]
  BY DEF TypeOK
<1> QED
  BY <1>1, ApprovalsKept

LEMMA ApprovalsGoto ==
  ASSUME TypeOK, ApprovalInv, UNCHANGED <<spent, ledger>>, NEW h \in Handlers, NEW pc,
         Goto(h, pc)
  PROVE  ApprovalInv'
<1> DEFINE r == [req[h] EXCEPT !.pc = pc]
<1>1. req' = [req EXCEPT ![h] = r]
  BY DEF Goto, TypeOK
<1>2. r.locked = req[h].locked /\ r.receipt = req[h].receipt /\ r.ask = req[h].ask
  BY DEF TypeOK, Handling
<1> QED
  BY <1>1, <1>2, ApprovalsMove

LEMMA ApprovalsBlank ==
  ASSUME TypeOK, ApprovalInv, UNCHANGED <<spent, ledger>>, NEW h \in Handlers,
         req' = [req EXCEPT ![h] = Blank]
  PROVE  ApprovalInv'
BY ApprovalsMove DEF Blank

LEMMA ApprovalStep ==
  ASSUME PromotionAssumption PROVE TypeOK /\ ApprovalInv /\ [Next]_vars => ApprovalInv'
<1>1. SUFFICES ASSUME TypeOK, ApprovalInv, [Next]_vars PROVE ApprovalInv'
  OBVIOUS
<1> USE <1>1
<1>2. CASE UNCHANGED vars
  BY <1>2, ApprovalsKept DEF vars, receipt, books
<1>3. ASSUME NEW h \in Handlers, NEW ask \in Asks, NEW x \in Receipts \cup {None},
             Submit(h, ask, x)
      PROVE ApprovalInv'
  BY <1>3, ApprovalsMove DEF Submit, Blank, receipt, books
<1>4. ASSUME NEW h \in Handlers, NEW outcome, Refuse(h, outcome) PROVE ApprovalInv'
  BY <1>4, ApprovalsBlank DEF Refuse, receipt
<1>5. ASSUME NEW h \in Handlers,
             \/ GatePasses(h) \/ Enter(h) \/ CheckTarget(h) \/ UpdateChart(h) \/ ChartUuid(h)
             \/ FindDashboard(h) \/ CreateDashboard(h) \/ AuditPersist(h)
      PROVE ApprovalInv'
  BY <1>5, ApprovalsGoto DEF GatePasses, Enter, CheckTarget, UpdateChart, ChartUuid,
     FindDashboard, CreateDashboard, AuditPersist, receipt, books
<1>6. ASSUME NEW h \in Handlers, GateRefuses(h) \/ Execute(h) \/ Harden(h) PROVE ApprovalInv'
  BY <1>4, <1>6, ApprovalsGoto DEF GateRefuses, Execute, Harden, receipt, books
<1>7. ASSUME NEW h \in Handlers, Redeem(h) PROVE ApprovalInv'
  <2> DEFINE x == req[h].receipt
             r == [req[h] EXCEPT !.pc = "enter", !.locked = TRUE]
  <2>1. CASE Verified(h, x) /\ x \notin spent
    <3>1. spent' = spent \cup {x} /\ ledger' = ledger
      BY <1>7, <2>1 DEF Redeem, books
    <3>2. r.locked /\ r.receipt = x /\ r.ask = req[h].ask
      BY DEF TypeOK, Handling
    <3>3. req' = [req EXCEPT ![h] = r]
      BY <1>7, <2>1 DEF Redeem, TypeOK
    <3>4. \A g \in Handlers : req'[g] = IF g = h THEN r ELSE req[g]
      BY <3>3 DEF TypeOK
    <3>5. Binds[x] = req[h].ask
      BY <2>1 DEF Verified, Ask
    <3> HIDE DEF x, r
    <3>6. \A g \in Handlers : req[g].locked => req[g].receipt # x
      BY <2>1 DEF ApprovalInv, HoldsApproval
    <3>7. \A d \in ledger : d.locked => d.receipt # x
      BY <2>1 DEF ApprovalInv, DecidedOnApproval, HoldsApproval
    <3>8. \A g \in Handlers : req'[g].locked => HoldsApproval(req[g])'
      BY <3>1, <3>2, <3>4, <3>5 DEF ApprovalInv, HoldsApproval
    <3>9. DecidedOnApproval'
      BY <3>1 DEF ApprovalInv, DecidedOnApproval, HoldsApproval
    <3>10. ApprovalUsedOnce'
      BY <3>1, <3>2, <3>4, <3>6, <3>7 DEF ApprovalInv, ApprovalUsedOnce
    <3> QED
      BY <3>8, <3>9, <3>10 DEF ApprovalInv
  <2>2. CASE ~(Verified(h, x) /\ x \notin spent)
    BY <1>4, <1>7, <2>2 DEF Redeem
  <2> QED
    BY <2>1, <2>2
<1>8. ASSUME NEW h \in Handlers, FindDataset(h) PROVE ApprovalInv'
  <2> DEFINE r == IF datasets[Name(h)] = <<>> THEN [req[h] EXCEPT !.pc = "new_dataset"]
                  ELSE [req[h] EXCEPT !.pc = "chart", !.dataset = <<Name(h), 1>>, !.fresh = FALSE]
  <2>1. req' = [req EXCEPT ![h] = r]
    BY <1>8 DEF FindDataset, TypeOK
  <2>2. r.locked = req[h].locked /\ r.receipt = req[h].receipt /\ r.ask = req[h].ask
    BY DEF TypeOK, Handling
  <2> QED
    BY <1>8, <2>1, <2>2, ApprovalsMove DEF FindDataset, receipt, books
<1>9. ASSUME NEW h \in Handlers, FindChart(h) PROVE ApprovalInv'
  <2> DEFINE r == IF charts[Slug(h)] = <<>> THEN [req[h] EXCEPT !.pc = "new_chart"]
                  ELSE [req[h] EXCEPT !.pc = "update_chart", !.chart = <<Slug(h), 1>>]
  <2>1. req' = [req EXCEPT ![h] = r]
    BY <1>9 DEF FindChart, TypeOK
  <2>2. r.locked = req[h].locked /\ r.receipt = req[h].receipt /\ r.ask = req[h].ask
    BY DEF TypeOK, Handling
  <2> QED
    BY <1>9, <2>1, <2>2, ApprovalsMove DEF FindChart, receipt, books
<1>10. ASSUME NEW h \in Handlers, CreateDataset(h) PROVE ApprovalInv'
  <2> DEFINE r == [req[h] EXCEPT !.pc = "chart", !.fresh = TRUE, !.dataset = <<Name(h), Len(datasets[Name(h)]) + 1>>]
  <2>1. req' = [req EXCEPT ![h] = r]
    BY <1>10 DEF CreateDataset, TypeOK
  <2>2. r.locked = req[h].locked /\ r.receipt = req[h].receipt /\ r.ask = req[h].ask
    BY DEF TypeOK, Handling
  <2> QED
    BY <1>10, <2>1, <2>2, ApprovalsMove DEF CreateDataset, receipt, books
<1>11. ASSUME NEW h \in Handlers, CreateChart(h) PROVE ApprovalInv'
  <2> DEFINE r == [req[h] EXCEPT !.pc = "uuid", !.created = TRUE,
                                 !.chart = <<Slug(h), Len(charts[Slug(h)]) + 1>>]
  <2>1. req' = [req EXCEPT ![h] = r]
    BY <1>11 DEF CreateChart, TypeOK
  <2>2. r.locked = req[h].locked /\ r.receipt = req[h].receipt /\ r.ask = req[h].ask
    BY DEF TypeOK, Handling
  <2> QED
    BY <1>11, <2>1, <2>2, ApprovalsMove DEF CreateChart, receipt, books
<1>12. ASSUME NEW h \in Handlers, ReadRows(h) PROVE ApprovalInv'
  <2> DEFINE r == [req[h] EXCEPT !.pc = "write_rows", !.rows = rows]
  <2>1. req' = [req EXCEPT ![h] = r]
    BY <1>12 DEF ReadRows, TypeOK
  <2>2. r.locked = req[h].locked /\ r.receipt = req[h].receipt /\ r.ask = req[h].ask
    BY DEF TypeOK, Handling
  <2> QED
    BY <1>12, <2>1, <2>2, ApprovalsMove DEF ReadRows, receipt, books
<1>13. ASSUME NEW h \in Handlers, WriteRows(h) PROVE ApprovalInv'
  <2> DEFINE r == [req[h] EXCEPT !.pc = "audit", !.rows = None]
  <2>1. req' = [req EXCEPT ![h] = r]
    BY <1>13 DEF WriteRows, TypeOK
  <2>2. r.locked = req[h].locked /\ r.receipt = req[h].receipt /\ r.ask = req[h].ask
    BY DEF TypeOK, Handling
  <2> QED
    BY <1>13, <2>1, <2>2, ApprovalsMove DEF WriteRows, receipt, books
<1>14. ASSUME NEW h \in Handlers, Record(h) PROVE ApprovalInv'
  <2> DEFINE d == Decision(h)
  <2>1. d.locked = req[h].locked /\ d.receipt = req[h].receipt /\ d.ask = req[h].ask
    BY DEF Decision, Ask
  <2>2. ledger' = ledger \cup {d} /\ spent' = spent
    BY <1>14 DEF Record, receipt
  <2>3. \A g \in Handlers : IF g = h THEN ~req'[g].locked ELSE req'[g] = req[g]
    BY <1>14 DEF Record, TypeOK, Blank
  <2> HIDE DEF d
  <2>4. \A g \in Handlers : req'[g].locked => HoldsApproval(req[g])'
    BY <2>2, <2>3 DEF ApprovalInv, HoldsApproval
  <2>5. DecidedOnApproval'
    BY <2>1, <2>2 DEF ApprovalInv, DecidedOnApproval, HoldsApproval
  <2>6. ApprovalUsedOnce'
    BY <2>1, <2>2, <2>3 DEF ApprovalInv, ApprovalUsedOnce
  <2> QED
    BY <2>4, <2>5, <2>6 DEF ApprovalInv
<1>15. ASSUME NEW h \in Handlers, Fail(h) PROVE ApprovalInv'
  BY <1>15, ApprovalsBlank DEF Fail, receipt
<1>16. ASSUME NEW x \in Receipts, Sign(x) \/ Expire(x) PROVE ApprovalInv'
  BY <1>16, ApprovalsKept DEF Sign, Expire, books
<1>17. CASE Crash
  BY <1>17, ApprovalsKept DEF Crash, Blank, receipt, books
<1> QED
  BY <1>1, <1>2, <1>3, <1>4, <1>5, <1>6, <1>7, <1>8, <1>9, <1>10, <1>11, <1>12, <1>13, <1>14,
     <1>15, <1>16, <1>17
  DEF Next, Serve, Rest

LEMMA ApprovalAlways == ASSUME PromotionAssumption PROVE Spec => []ApprovalInv
<1>1. Init => ApprovalInv
  BY DEF Init, Blank, ApprovalInv, DecidedOnApproval, ApprovalUsedOnce
<1> QED
  BY <1>1, ApprovalStep, PromotionTypeCorrect, PTL DEF Spec

\* A receipt backs one promotion at most, among any number of handlers and
\* through any number of deaths (ApprovalUsedOnce).
THEOREM OnePromotionPerApproval == ASSUME PromotionAssumption PROVE Spec => []ApprovalUsedOnce
<1>1. ApprovalInv => ApprovalUsedOnce
  BY DEF ApprovalInv
<1> QED
  BY <1>1, ApprovalAlways, PTL

(***************************************************************************)
(* What Superset holds stays.  A dataset or a chart is appended, a chart   *)
(* updated in place; so what a request has made, a decision has named and  *)
(* a row shows is there ever after.                                        *)
(***************************************************************************)
Grown ==
  /\ \A n \in Questions \cup Tables : \A i \in 1 .. Len(datasets[n]) :
       i \in 1 .. Len(datasets'[n]) /\ datasets'[n][i] = datasets[n][i]
  /\ \A s \in Questions \X Days : Len(charts[s]) <= Len(charts'[s])

LEMMA SupersetGrows ==
  ASSUME PromotionAssumption, TypeOK, [Next]_vars
  PROVE  Grown
<1>1. CASE UNCHANGED <<datasets, charts>>
  BY <1>1 DEF Grown, TypeOK
<1>2. ASSUME NEW h \in Handlers, CreateDataset(h) PROVE Grown
  <2>1. Ask(h) \in Request
    BY <1>2 DEF CreateDataset, At, Ask, TypeOK, WellStaged
  <2>2. Name(h) \in Questions \cup Tables /\ DatasetSql(Ask(h)) \in Sqls \cup {None}
    BY <2>1 DEF Name, DatasetSql, Request
  <2>3. \A n \in Questions \cup Tables :
          datasets'[n] = IF n = Name(h) THEN Append(datasets[n], DatasetSql(Ask(h))) ELSE datasets[n]
    BY <1>2 DEF CreateDataset, TypeOK
  <2>4. \A n \in Questions \cup Tables : datasets[n] \in Seq(Sqls \cup {None})
    BY DEF TypeOK
  <2>5. charts' = charts /\ \A s \in Questions \X Days : charts[s] \in Seq(DatasetIds)
    BY <1>2 DEF CreateDataset, TypeOK
  <2>6. \A n \in Questions \cup Tables : \A i \in 1 .. Len(datasets[n]) :
          i \in 1 .. Len(datasets'[n]) /\ datasets'[n][i] = datasets[n][i]
    <3>1. SUFFICES ASSUME NEW n \in Questions \cup Tables, NEW i \in 1 .. Len(datasets[n])
                   PROVE  i \in 1 .. Len(datasets'[n]) /\ datasets'[n][i] = datasets[n][i]
      OBVIOUS
    <3>2. CASE datasets'[n] = datasets[n]
      BY <3>2
    <3>3. CASE datasets'[n] = Append(datasets[n], DatasetSql(Ask(h)))
      <4>1. datasets[n] \in Seq(Sqls \cup {None})
        BY <2>4
      <4> QED
        BY <2>2, <3>3, <4>1
    <3> QED
      BY <2>3, <3>2, <3>3
  <2>7. \A s \in Questions \X Days : Len(charts[s]) <= Len(charts'[s])
    BY <2>5
  <2> QED
    BY <2>6, <2>7 DEF Grown
<1>3. ASSUME NEW h \in Handlers, UpdateChart(h) \/ CreateChart(h) PROVE Grown
  <2>1. Ask(h) \in Request /\ req[h].dataset \in DatasetIds
    BY <1>3 DEF UpdateChart, CreateChart, At, Ask, TypeOK, WellStaged
  <2>2. \A s \in Questions \X Days : charts[s] \in Seq(DatasetIds)
    BY DEF TypeOK
  <2>3. \A s \in Questions \X Days :
          charts'[s] \in {charts[s], [charts[s] EXCEPT ![1] = req[h].dataset], Append(charts[s], req[h].dataset)}
    BY <1>3 DEF UpdateChart, CreateChart, TypeOK
  <2>4. \A s \in Questions \X Days : Len([charts[s] EXCEPT ![1] = req[h].dataset]) = Len(charts[s])
    BY <2>2
  <2>5. \A s \in Questions \X Days : Len(Append(charts[s], req[h].dataset)) = Len(charts[s]) + 1
    BY <2>1, <2>2
  <2>6. \A s \in Questions \X Days : Len(charts[s]) <= Len(charts'[s])
    BY <2>2, <2>3, <2>4, <2>5
  <2>7. datasets' = datasets
    BY <1>3 DEF UpdateChart, CreateChart
  <2> QED
    BY <2>6, <2>7 DEF Grown
<1> QED
  BY <1>1, <1>2, <1>3
  DEF Next, Serve, Submit, GateRefuses, GatePasses, Execute, Harden, Redeem, Refuse, Enter,
      CheckTarget, FindDataset, FindChart, ChartUuid, FindDashboard, CreateDashboard, ReadRows,
      WriteRows, AuditPersist, Record, Fail, Sign, Expire, Crash, Rest, vars, superset

\* What a request or a decision says of the datasets ds and the charts ch.
Serves(ds, r) ==
  r.fresh => /\ r.dataset[1] \in Questions \cup Tables
             /\ r.dataset[2] \in 1 .. Len(ds[r.dataset[1]])
             /\ ds[r.dataset[1]][r.dataset[2]] = DatasetSql(r.ask)
Has(ch, q, c) == c[1][1] = q /\ c[2] <= Len(ch[c[1]])
HasChart(ch, r) == r.chart # None => Has(ch, r.ask.question, r.chart)
ShowsCharts(ch, g) == \A q \in Questions : g[q] # None => Has(ch, q, g[q])
Sound(ds, ch, r) ==
  Serves(ds, r) /\ HasChart(ch, r) /\ (r.pc = "write_rows" => ShowsCharts(ch, r.rows))

MadeInv ==
  /\ \A h \in Handlers : Sound(datasets, charts, req[h])
  /\ \A d \in ledger : Serves(datasets, d)
  /\ ShowsCharts(charts, rows)

LEMMA HasStays ==
  ASSUME TypeOK, TypeOK', Grown, NEW q, NEW c \in ChartIds, Has(charts, q, c)
  PROVE  Has(charts', q, c)
<1>1. c[1] \in Questions \X Days /\ c[2] \in Nat
  BY DEF ChartIds
<1>2. charts[c[1]] \in Seq(DatasetIds) /\ charts'[c[1]] \in Seq(DatasetIds)
  BY <1>1 DEF TypeOK
<1>3. Len(charts[c[1]]) \in Nat /\ Len(charts'[c[1]]) \in Nat
  BY <1>2
<1>4. Len(charts[c[1]]) <= Len(charts'[c[1]])
  BY <1>1 DEF Grown
<1> QED
  BY <1>1, <1>3, <1>4 DEF Has

LEMMA GridStays ==
  ASSUME TypeOK, TypeOK', Grown, NEW g \in Grid, ShowsCharts(charts, g)
  PROVE  ShowsCharts(charts', g)
<1>1. ASSUME NEW q \in Questions, g[q] # None PROVE g[q] \in ChartIds /\ Has(charts, q, g[q])
  BY <1>1 DEF ShowsCharts, Grid
<1> QED
  BY <1>1, HasStays DEF ShowsCharts

LEMMA ServesStays ==
  ASSUME Grown, NEW r, Serves(datasets, r)
  PROVE  Serves(datasets', r)
BY DEF Grown, Serves

LEMMA SoundStays ==
  ASSUME TypeOK, TypeOK', Grown, NEW r \in Handling, WellStaged(r), Sound(datasets, charts, r)
  PROVE  Sound(datasets', charts', r)
<1>1. r.chart # None => r.chart \in ChartIds
  BY DEF Handling
<1>2. r.pc = "write_rows" => r.rows \in Grid
  BY DEF WellStaged
<1>3. HasChart(charts', r)
  BY <1>1, HasStays DEF Sound, HasChart
<1>4. r.pc = "write_rows" => ShowsCharts(charts', r.rows)
  BY <1>2, GridStays DEF Sound
<1> QED
  BY <1>3, <1>4, ServesStays DEF Sound

LEMMA SoundBlank ==
  ASSUME NEW ds, NEW ch
  PROVE  Sound(ds, ch, Blank)
BY DEF Sound, Serves, HasChart, Blank

\* A request that has got no other dataset, chart or layout.
Alike(r, t) ==
  /\ t.ask = r.ask /\ t.fresh = r.fresh /\ t.dataset = r.dataset /\ t.chart = r.chart
  /\ t.pc # "write_rows"
LEMMA SoundAlike ==
  ASSUME NEW ds, NEW ch, NEW r, NEW t, Sound(ds, ch, r), Alike(r, t)
  PROVE  Sound(ds, ch, t)
BY DEF Sound, Serves, HasChart, Alike

\* One request moves on; the ledger and the layout stay.
LEMMA MadeMove ==
  ASSUME TypeOK, TypeOK', Grown, MadeInv, UNCHANGED <<ledger, rows>>, NEW h \in Handlers, NEW r,
         req' = [req EXCEPT ![h] = r], Sound(datasets', charts', r)
  PROVE  MadeInv'
<1>1. ASSUME NEW g \in Handlers PROVE Sound(datasets', charts', req'[g])
  <2>1. req'[g] = IF g = h THEN r ELSE req[g]
    BY DEF TypeOK
  <2>2. req[g] \in Handling /\ WellStaged(req[g]) /\ Sound(datasets, charts, req[g])
    BY DEF TypeOK, MadeInv
  <2> QED
    BY <2>1, <2>2, SoundStays
<1>2. ShowsCharts(charts', rows')
  BY GridStays DEF MadeInv, TypeOK
<1>3. \A d \in ledger' : Serves(datasets', d)
  BY ServesStays DEF MadeInv
<1> QED
  BY <1>1, <1>2, <1>3 DEF MadeInv

LEMMA MadeAlike ==
  ASSUME TypeOK, TypeOK', Grown, MadeInv, UNCHANGED <<ledger, rows>>, NEW h \in Handlers, NEW r,
         req' = [req EXCEPT ![h] = r], Alike(req[h], r)
  PROVE  MadeInv'
<1>1. req[h] \in Handling /\ WellStaged(req[h]) /\ Sound(datasets, charts, req[h])
  BY DEF TypeOK, MadeInv
<1>2. Sound(datasets', charts', req[h])
  BY <1>1, SoundStays
<1>3. Sound(datasets', charts', r)
  BY <1>2, SoundAlike
<1> QED
  BY <1>3, MadeMove

LEMMA MadeGoto ==
  ASSUME TypeOK, TypeOK', Grown, MadeInv, UNCHANGED <<ledger, rows>>, NEW h \in Handlers, NEW pc,
         pc # "write_rows", Goto(h, pc)
  PROVE  MadeInv'
<1> DEFINE r == [req[h] EXCEPT !.pc = pc]
<1>1. req' = [req EXCEPT ![h] = r]
  BY DEF Goto, TypeOK
<1>2. Alike(req[h], r)
  BY DEF TypeOK, Handling, Alike
<1> QED
  BY <1>1, <1>2, MadeAlike

LEMMA MadeStep ==
  ASSUME PromotionAssumption, TypeOK, TypeOK', MadeInv, [Next]_vars
  PROVE  MadeInv'
<1>0. Grown
  BY SupersetGrows
<1>1. CASE UNCHANGED <<req, ledger, superset>>
  BY <1>1 DEF MadeInv, superset
<1>2. ASSUME NEW h \in Handlers, NEW ask \in Asks, NEW x \in Receipts \cup {None},
             Submit(h, ask, x)
      PROVE  MadeInv'
  <2> DEFINE r == [Blank EXCEPT !.pc = "gate", !.ask = ask, !.receipt = x]
  <2>1. Sound(datasets', charts', r)
    BY DEF Sound, Serves, HasChart, Blank
  <2> QED
    BY <1>0, <1>2, <2>1, MadeMove DEF Submit, books, superset
<1>3. ASSUME NEW h \in Handlers, req' = [req EXCEPT ![h] = Blank], UNCHANGED <<ledger, rows>>
      PROVE  MadeInv'
  BY <1>0, <1>3, SoundBlank, MadeMove
<1>4. ASSUME NEW h \in Handlers, GateRefuses(h) \/ Fail(h) PROVE MadeInv'
  BY <1>3, <1>4 DEF GateRefuses, Refuse, Fail, superset
<1>5. ASSUME NEW h \in Handlers,
             \/ GatePasses(h) \/ Enter(h) \/ CheckTarget(h) \/ UpdateChart(h) \/ ChartUuid(h)
             \/ FindDashboard(h) \/ CreateDashboard(h) \/ AuditPersist(h)
      PROVE  MadeInv'
  BY <1>0, <1>5, MadeGoto DEF GatePasses, Enter, CheckTarget, UpdateChart, ChartUuid,
     FindDashboard, CreateDashboard, AuditPersist, books, superset
<1>6. ASSUME NEW h \in Handlers, Execute(h) \/ Harden(h) PROVE MadeInv'
  BY <1>0, <1>3, <1>6, MadeGoto DEF Execute, Harden, Refuse, books, superset
<1>7. ASSUME NEW h \in Handlers, Redeem(h) PROVE MadeInv'
  <2> DEFINE r == [req[h] EXCEPT !.pc = "enter", !.locked = TRUE]
  <2>1. CASE Refuse(h, "receipt_rejected")
    BY <1>3, <2>1 DEF Refuse, superset
  <2>2. CASE req' = [req EXCEPT ![h].pc = "enter", ![h].locked = TRUE]
               /\ UNCHANGED <<books, superset>>
    <3>1. req' = [req EXCEPT ![h] = r]
      BY <2>2 DEF TypeOK
    <3>2. Alike(req[h], r)
      BY DEF TypeOK, Handling, Alike
    <3> QED
      BY <1>0, <2>2, <3>1, <3>2, MadeAlike DEF books, superset
  <2> QED
    BY <1>7, <2>1, <2>2 DEF Redeem
<1>8. ASSUME NEW h \in Handlers, FindDataset(h) PROVE MadeInv'
  <2>1. req[h] \in Handling /\ WellStaged(req[h]) /\ Sound(datasets, charts, req[h])
    BY DEF TypeOK, MadeInv
  <2>2. UNCHANGED <<ledger, rows, datasets, charts>>
    BY <1>8 DEF FindDataset, books, superset
  <2>3. CASE datasets[Name(h)] = <<>>
    <3> DEFINE r == [req[h] EXCEPT !.pc = "new_dataset"]
    <3>1. req' = [req EXCEPT ![h] = r] /\ Alike(req[h], r)
      BY <1>8, <2>1, <2>3 DEF FindDataset, TypeOK, Handling, Alike
    <3> QED
      BY <1>0, <2>2, <3>1, MadeAlike
  <2>4. CASE datasets[Name(h)] # <<>>
    <3> DEFINE r == [req[h] EXCEPT !.pc = "chart", !.dataset = <<Name(h), 1>>, !.fresh = FALSE]
    <3>1. req' = [req EXCEPT ![h] = r]
      BY <1>8, <2>4 DEF FindDataset, TypeOK
    <3>2. ~r.fresh /\ r.chart = req[h].chart /\ r.ask = req[h].ask /\ r.pc = "chart"
      BY <2>1 DEF Handling
    <3> HIDE DEF r
    <3>3. Sound(datasets', charts', r)
      BY <2>1, <2>2, <3>2 DEF Sound, Serves, HasChart
    <3> QED
      BY <1>0, <2>2, <3>1, <3>3, MadeMove
  <2> QED
    BY <2>3, <2>4
<1>9. ASSUME NEW h \in Handlers, CreateDataset(h) PROVE MadeInv'
  <2> DEFINE n == Name(h)
             r == [req[h] EXCEPT !.pc = "chart", !.fresh = TRUE, !.dataset = <<n, Len(datasets[n]) + 1>>]
  <2>1. req[h] \in Handling /\ WellStaged(req[h]) /\ Sound(datasets, charts, req[h]) /\ Ask(h) \in Request
    BY <1>9 DEF CreateDataset, At, Ask, TypeOK, MadeInv, WellStaged
  <2>2. n \in Questions \cup Tables /\ DatasetSql(Ask(h)) \in Sqls \cup {None}
    BY <2>1 DEF Name, DatasetSql, Request
  <2>3. datasets[n] \in Seq(Sqls \cup {None})
    BY <2>2 DEF TypeOK
  <2>4. datasets'[n] = Append(datasets[n], DatasetSql(Ask(h)))
    BY <1>9, <2>2 DEF CreateDataset, TypeOK
  <2>5. req' = [req EXCEPT ![h] = r]
    BY <1>9 DEF CreateDataset, TypeOK
  <2>6. /\ r.dataset = <<n, Len(datasets[n]) + 1>>
        /\ r.chart = req[h].chart /\ r.ask = req[h].ask /\ r.pc = "chart"
    BY <2>1 DEF Handling
  <2> HIDE DEF n, r
  <2>7. /\ Len(datasets[n]) + 1 \in 1 .. Len(datasets'[n])
        /\ datasets'[n][Len(datasets[n]) + 1] = DatasetSql(Ask(h))
    BY <2>2, <2>3, <2>4
  <2>8. Serves(datasets', r)
    BY <2>2, <2>6, <2>7 DEF Serves, Ask
  <2>9. UNCHANGED <<ledger, rows, charts>>
    BY <1>9 DEF CreateDataset, books
  <2>10. Sound(datasets', charts', r)
    BY <2>1, <2>6, <2>8, <2>9 DEF Sound, HasChart
  <2> QED
    BY <1>0, <2>5, <2>9, <2>10, MadeMove
<1>10. ASSUME NEW h \in Handlers, FindChart(h) PROVE MadeInv'
  <2>1. req[h] \in Handling /\ WellStaged(req[h]) /\ Sound(datasets, charts, req[h]) /\ Ask(h) \in Request
    BY <1>10 DEF FindChart, At, Ask, TypeOK, MadeInv, WellStaged
  <2>2. UNCHANGED <<ledger, rows, datasets, charts>>
    BY <1>10 DEF FindChart, books, superset
  <2>3. CASE charts[Slug(h)] = <<>>
    <3> DEFINE r == [req[h] EXCEPT !.pc = "new_chart"]
    <3>1. req' = [req EXCEPT ![h] = r] /\ Alike(req[h], r)
      BY <1>10, <2>1, <2>3 DEF FindChart, TypeOK, Handling, Alike
    <3> QED
      BY <1>0, <2>2, <3>1, MadeAlike
  <2>4. CASE charts[Slug(h)] # <<>>
    <3> DEFINE r == [req[h] EXCEPT !.pc = "update_chart", !.chart = <<Slug(h), 1>>]
    <3>1. req' = [req EXCEPT ![h] = r]
      BY <1>10, <2>4 DEF FindChart, TypeOK
    <3>2. /\ r.chart = <<Slug(h), 1>> /\ r.ask = req[h].ask /\ r.pc = "update_chart"
          /\ r.fresh = req[h].fresh /\ r.dataset = req[h].dataset
      BY <2>1 DEF Handling
    <3> HIDE DEF r
    <3>3. charts[Slug(h)] \in Seq(DatasetIds)
      BY <2>1 DEF TypeOK, Slug, Request
    <3>4. 1 <= Len(charts[Slug(h)])
      BY <2>4, <3>3
    <3>5. Has(charts, r.ask.question, r.chart)
      BY <3>2, <3>4 DEF Has, Slug, Ask
    <3>6. Sound(datasets', charts', r)
      BY <2>1, <2>2, <3>2, <3>5 DEF Sound, Serves, HasChart
    <3> QED
      BY <1>0, <2>2, <3>1, <3>6, MadeMove
  <2> QED
    BY <2>3, <2>4
<1>11. ASSUME NEW h \in Handlers, CreateChart(h) PROVE MadeInv'
  <2> DEFINE s == Slug(h)
             r == [req[h] EXCEPT !.pc = "uuid", !.created = TRUE, !.chart = <<s, Len(charts[s]) + 1>>]
  <2>1. req[h] \in Handling /\ WellStaged(req[h]) /\ Sound(datasets, charts, req[h]) /\ Ask(h) \in Request
    BY <1>11 DEF CreateChart, At, Ask, TypeOK, MadeInv, WellStaged
  <2>2. s \in Questions \X Days /\ s[1] = req[h].ask.question
    BY <2>1 DEF Slug, Request, Ask
  <2>3. charts[s] \in Seq(DatasetIds)
    BY <2>2 DEF TypeOK
  <2>4. charts'[s] = Append(charts[s], req[h].dataset)
    BY <1>11, <2>2 DEF CreateChart, TypeOK
  <2>5. req' = [req EXCEPT ![h] = r]
    BY <1>11 DEF CreateChart, TypeOK
  <2>6. /\ r.chart = <<s, Len(charts[s]) + 1>> /\ r.ask = req[h].ask /\ r.pc = "uuid"
        /\ r.fresh = req[h].fresh /\ r.dataset = req[h].dataset
    BY <2>1 DEF Handling
  <2>7. req[h].dataset \in DatasetIds
    BY <1>11 DEF CreateChart, At, TypeOK, WellStaged
  <2> HIDE DEF s, r
  <2>8. Len(charts[s]) + 1 <= Len(charts'[s])
    BY <2>3, <2>4, <2>7
  <2>9. HasChart(charts', r)
    BY <2>2, <2>6, <2>8 DEF HasChart, Has
  <2>10. UNCHANGED <<ledger, rows, datasets>>
    BY <1>11 DEF CreateChart, books
  <2>11. Sound(datasets', charts', req[h])
    BY <1>0, <2>1, SoundStays
  <2>12. Sound(datasets', charts', r)
    BY <2>6, <2>9, <2>11 DEF Sound, Serves
  <2> QED
    BY <1>0, <2>5, <2>10, <2>12, MadeMove
<1>12. ASSUME NEW h \in Handlers, ReadRows(h) PROVE MadeInv'
  <2> DEFINE r == [req[h] EXCEPT !.pc = "write_rows", !.rows = rows]
  <2>1. req[h] \in Handling /\ WellStaged(req[h]) /\ Sound(datasets, charts, req[h]) /\ ShowsCharts(charts, rows)
    BY DEF TypeOK, MadeInv
  <2>2. UNCHANGED <<ledger, rows, datasets, charts>>
    BY <1>12 DEF ReadRows, books, superset
  <2>3. req' = [req EXCEPT ![h] = r]
    BY <1>12 DEF ReadRows, TypeOK
  <2>4. /\ r.chart = req[h].chart /\ r.ask = req[h].ask /\ r.rows = rows
        /\ r.fresh = req[h].fresh /\ r.dataset = req[h].dataset
    BY <2>1 DEF Handling
  <2> HIDE DEF r
  <2>5. Sound(datasets', charts', r)
    BY <2>1, <2>2, <2>4 DEF Sound, Serves, HasChart
  <2> QED
    BY <1>0, <2>2, <2>3, <2>5, MadeMove
<1>13. ASSUME NEW h \in Handlers, WriteRows(h) PROVE MadeInv'
  <2> DEFINE r == [req[h] EXCEPT !.pc = "audit", !.rows = None]
  <2>1. /\ req[h] \in Handling /\ WellStaged(req[h]) /\ Sound(datasets, charts, req[h]) /\ Ask(h) \in Request
        /\ req[h].chart \in ChartIds /\ req[h].rows \in Grid
    BY <1>13 DEF WriteRows, At, Ask, TypeOK, MadeInv, WellStaged
  <2>2. UNCHANGED <<ledger, datasets, charts>>
    BY <1>13 DEF WriteRows, books
  <2>3. req' = [req EXCEPT ![h] = r]
    BY <1>13 DEF WriteRows, TypeOK
  <2>4. /\ r.chart = req[h].chart /\ r.ask = req[h].ask /\ r.pc = "audit"
        /\ r.fresh = req[h].fresh /\ r.dataset = req[h].dataset
    BY <2>1 DEF Handling
  <2> HIDE DEF r
  <2>5. Sound(datasets', charts', r)
    BY <2>1, <2>2, <2>4 DEF Sound, Serves, HasChart
  <2>6. \A g \in Handlers : Sound(datasets', charts', req'[g])
    BY <2>2, <2>3, <2>5 DEF TypeOK, MadeInv
  <2>7. req[h].pc = "write_rows" /\ req[h].chart # None
    BY <2>1, <1>13 DEF PromotionAssumption, ChartIds, WriteRows, At
  <2>8. ShowsCharts(charts, req[h].rows) /\ Has(charts, Ask(h).question, req[h].chart)
    BY <2>1, <2>7 DEF Sound, HasChart, Ask
  <2>9. ShowsCharts(charts', rows')
    BY <1>13, <2>1, <2>2, <2>8 DEF WriteRows, ShowsCharts, Grid, Request
  <2> QED
    BY <2>2, <2>6, <2>9 DEF MadeInv
<1>14. ASSUME NEW h \in Handlers, Record(h) PROVE MadeInv'
  <2>1. UNCHANGED <<rows, datasets, charts>> /\ ledger' = ledger \cup {Decision(h)}
    BY <1>14 DEF Record, superset
  <2>2. \A g \in Handlers : req'[g] = req[g] \/ req'[g] = Blank
    BY <1>14 DEF Record, TypeOK
  <2>3. Serves(datasets, Decision(h))
    BY DEF MadeInv, Sound, Serves, Decision, Ask
  <2>4. \A g \in Handlers : Sound(datasets', charts', req'[g])
    BY <2>1, <2>2, SoundBlank DEF MadeInv
  <2>5. \A d \in ledger' : Serves(datasets', d)
    BY <2>1, <2>3 DEF MadeInv
  <2> QED
    BY <2>1, <2>4, <2>5 DEF MadeInv
<1>15. ASSUME NEW x \in Receipts, Sign(x) \/ Expire(x) PROVE MadeInv'
  BY <1>1, <1>15 DEF Sign, Expire, books
<1>16. CASE Crash
  <2>1. UNCHANGED <<ledger, rows, datasets, charts>> /\ \A g \in Handlers : req'[g] = Blank
    BY <1>16 DEF Crash, books, superset
  <2>2. \A g \in Handlers : Sound(datasets', charts', req'[g])
    BY <2>1, SoundBlank
  <2> QED
    BY <2>1, <2>2 DEF MadeInv
<1>17. CASE UNCHANGED vars
  BY <1>1, <1>17 DEF vars, books
<1> QED
  BY <1>2, <1>4, <1>5, <1>6, <1>7, <1>8, <1>9, <1>10, <1>11, <1>12, <1>13, <1>14, <1>15, <1>16, <1>17
  DEF Next, Serve, Rest

LEMMA MadeAlways == ASSUME PromotionAssumption PROVE Spec => []MadeInv
<1>1. Init => MadeInv
  <2>1. \A ds, ch : Sound(ds, ch, Blank)
    BY SoundBlank
  <2> QED
    BY <2>1 DEF Init, MadeInv, ShowsCharts
<1>2. TypeOK /\ TypeOK' /\ MadeInv /\ [Next]_vars => MadeInv'
  BY MadeStep
<1> QED
  BY <1>1, <1>2, PromotionTypeCorrect, PTL DEF Spec

\* A decision locked by a confirmer was approved by a redeemed receipt that binds
\* exactly what the ledger seals, and a dataset that the promotion made serves the
\* SQL or the table the receipt binds, ever after (LockedWasApproved).
THEOREM DecisionsApproved == ASSUME PromotionAssumption PROVE Spec => []LockedWasApproved
<1>1. ApprovalInv /\ MadeInv => LockedWasApproved
  BY DEF ApprovalInv, MadeInv, DecidedOnApproval, HoldsApproval, Serves, LockedWasApproved
<1> QED
  BY <1>1, ApprovalAlways, MadeAlways, PTL

(***************************************************************************)
(* The question mutex.  Nothing is created twice because whoever is about  *)
(* to create it holds the mutex and has seen that it is not there.         *)
(***************************************************************************)
Guarded(h) ==
  /\ req[h].pc \in Persisting \cup {"audit"} => mutex[Ask(h).question] = h
  /\ req[h].pc = "new_dataset" /\ Ask(h).table = None => datasets[Ask(h).question] = <<>>
  /\ req[h].pc = "new_chart" => charts[Slug(h)] = <<>>

MutexInv == (\A h \in Handlers : Guarded(h)) /\ OneChartPerSlug

\* A step of one handler that takes no other handler's mutex and creates nothing.
LEMMA MutexKept ==
  ASSUME MutexInv, UNCHANGED <<datasets, charts>>, NEW h \in Handlers, Guarded(h)',
         \A g \in Handlers \ {h} : req'[g] = req[g],
         \A g \in Handlers \ {h} : req[g].pc \in Persisting \cup {"audit"} =>
           mutex'[Ask(g).question] = mutex[Ask(g).question]
  PROVE  MutexInv'
<1>1. \A g \in Handlers \ {h} : Guarded(g)'
  BY DEF MutexInv, Guarded, Ask, Slug
<1>2. OneChartPerSlug'
  BY DEF MutexInv, OneChartPerSlug
<1> QED
  BY <1>1, <1>2 DEF MutexInv

\* A handler that moves on within what it has locked, or that had nothing locked.
LEMMA MutexMove ==
  ASSUME TypeOK, MutexInv, UNCHANGED <<mutex, datasets, charts>>, NEW h \in Handlers, NEW r,
         req' = [req EXCEPT ![h] = r],
         \/ r.pc \notin Persisting \cup {"audit"}
         \/ /\ r.pc \in (Persisting \cup {"audit"}) \ {"new_dataset", "new_chart"}
            /\ req[h].pc \in Persisting /\ r.ask = req[h].ask
  PROVE  MutexInv'
<1>1. \A g \in Handlers : req'[g] = IF g = h THEN r ELSE req[g]
  BY DEF TypeOK
<1>2. Guarded(h)'
  BY <1>1 DEF MutexInv, Guarded, Ask, Persisting
<1> QED
  BY <1>1, <1>2, MutexKept

LEMMA MutexGoto ==
  ASSUME TypeOK, MutexInv, UNCHANGED <<mutex, datasets, charts>>, NEW h \in Handlers, NEW pc,
         Goto(h, pc),
         \/ pc \notin Persisting \cup {"audit"}
         \/ /\ pc \in (Persisting \cup {"audit"}) \ {"new_dataset", "new_chart"}
            /\ req[h].pc \in Persisting
  PROVE  MutexInv'
<1> DEFINE r == [req[h] EXCEPT !.pc = pc]
<1>1. req' = [req EXCEPT ![h] = r] /\ r.pc = pc /\ r.ask = req[h].ask
  BY DEF Goto, TypeOK, Handling
<1> HIDE DEF r
<1> QED
  BY <1>1, MutexMove

\* A handler that lets go of the mutex it holds.
LEMMA MutexLeft ==
  ASSUME PromotionAssumption, TypeOK, MutexInv, UNCHANGED <<datasets, charts>>,
         NEW h \in Handlers, req[h].pc \in Persisting \cup {"audit"}, Release(h), NEW r,
         req' = [req EXCEPT ![h] = r], r.pc \notin Persisting \cup {"audit"}
  PROVE  MutexInv'
<1>1. \A g \in Handlers : req'[g] = IF g = h THEN r ELSE req[g]
  BY DEF TypeOK
<1>2. Guarded(h)'
  BY <1>1 DEF Guarded, Persisting
<1>3. \A g \in Handlers \ {h} : req[g].pc \in Persisting \cup {"audit"} =>
        mutex'[Ask(g).question] = mutex[Ask(g).question]
  BY DEF MutexInv, Guarded, Release
<1> QED
  BY <1>1, <1>2, <1>3, MutexKept

\* Others at the same question would hold the mutex too.
LEMMA Exclusive ==
  ASSUME PromotionAssumption, MutexInv, NEW h \in Handlers, NEW g \in Handlers \ {h},
         req[h].pc \in Persisting \cup {"audit"}, req[g].pc \in Persisting \cup {"audit"}
  PROVE  Ask(g).question # Ask(h).question
BY DEF MutexInv, Guarded

LEMMA MutexStep ==
  ASSUME PromotionAssumption PROVE TypeOK /\ MutexInv /\ [Next]_vars => MutexInv'
<1>1. SUFFICES ASSUME TypeOK, MutexInv, [Next]_vars PROVE MutexInv'
  OBVIOUS
<1> USE <1>1
<1>2. CASE UNCHANGED vars
  BY <1>2 DEF vars, superset, MutexInv, Guarded, OneChartPerSlug, Ask, Slug
<1>3. ASSUME NEW h \in Handlers, NEW ask \in Asks, NEW x \in Receipts \cup {None},
             Submit(h, ask, x)
      PROVE MutexInv'
  BY <1>3, MutexMove DEF Submit, Blank, Persisting, superset
<1>4. ASSUME NEW h \in Handlers, NEW outcome, Refuse(h, outcome) PROVE MutexInv'
  BY <1>4, MutexMove DEF Refuse, Blank, Persisting, superset
<1>5. ASSUME NEW h \in Handlers, GateRefuses(h) \/ GatePasses(h) \/ Execute(h) \/ Harden(h)
      PROVE MutexInv'
  BY <1>4, <1>5, MutexGoto DEF GateRefuses, GatePasses, Execute, Harden, Persisting, superset
<1>6. ASSUME NEW h \in Handlers, Redeem(h) PROVE MutexInv'
  <2> DEFINE r == [req[h] EXCEPT !.pc = "enter", !.locked = TRUE]
  <2>1. r.pc \notin Persisting \cup {"audit"}
    BY DEF TypeOK, Handling, Persisting
  <2>2. CASE Verified(h, req[h].receipt) /\ req[h].receipt \notin spent
    <3>1. req' = [req EXCEPT ![h] = r]
      BY <1>6, <2>2 DEF Redeem, TypeOK
    <3> QED
      BY <1>6, <2>1, <2>2, <3>1, MutexMove DEF Redeem, superset
  <2> QED
    BY <1>4, <1>6, <2>2 DEF Redeem
<1>7. ASSUME NEW h \in Handlers, Enter(h) PROVE MutexInv'
  <2>1. \A g \in Handlers \ {h} : req'[g] = req[g]
    BY <1>7 DEF Enter, Goto, TypeOK
  <2>2. req'[h].pc = "target" /\ req'[h].ask = req[h].ask /\ req[h].ask \in Request
    BY <1>7 DEF Enter, At, Goto, TypeOK, Handling, WellStaged
  <2>3. Guarded(h)'
    BY <1>7, <2>2 DEF Enter, Guarded, Ask, Request, TypeOK
  <2>4. \A g \in Handlers \ {h} : req[g].pc \in Persisting \cup {"audit"} =>
          mutex'[Ask(g).question] = mutex[Ask(g).question]
    BY <1>7 DEF Enter, MutexInv, Guarded
  <2> QED
    BY <1>7, <2>1, <2>3, <2>4, MutexKept DEF Enter, superset
<1>8. ASSUME NEW h \in Handlers,
             CheckTarget(h) \/ ChartUuid(h) \/ CreateDashboard(h)
      PROVE MutexInv'
  BY <1>8, MutexGoto DEF CheckTarget, ChartUuid, CreateDashboard, At, Persisting, superset
<1>9. ASSUME NEW h \in Handlers, FindDashboard(h) PROVE MutexInv'
  BY <1>9, MutexGoto DEF FindDashboard, At, Persisting, superset
<1>10. ASSUME NEW h \in Handlers, FindDataset(h) PROVE MutexInv'
  <2>1. \A g \in Handlers \ {h} : req'[g] = req[g]
    BY <1>10 DEF FindDataset, TypeOK
  <2>2. mutex[Ask(h).question] = h
    BY <1>10 DEF MutexInv, Guarded, FindDataset, At, Persisting
  <2>3. req'[h].ask = req[h].ask
    BY <1>10 DEF FindDataset, TypeOK, Handling
  <2>4. req'[h].pc = IF datasets[Name(h)] = <<>> THEN "new_dataset" ELSE "chart"
    BY <1>10 DEF FindDataset, TypeOK, Handling
  <2>5. mutex' = mutex /\ datasets' = datasets /\ charts' = charts
    BY <1>10 DEF FindDataset, superset
  <2>6. Guarded(h)'
    BY <2>2, <2>3, <2>4, <2>5 DEF Guarded, Ask, Name
  <2> QED
    BY <2>1, <2>5, <2>6, MutexKept
<1>11. ASSUME NEW h \in Handlers, FindChart(h) PROVE MutexInv'
  <2>1. \A g \in Handlers \ {h} : req'[g] = req[g]
    BY <1>11 DEF FindChart, TypeOK
  <2>2. mutex[Ask(h).question] = h
    BY <1>11 DEF MutexInv, Guarded, FindChart, At, Persisting
  <2>3. req'[h].ask = req[h].ask
    BY <1>11 DEF FindChart, TypeOK, Handling
  <2>4. req'[h].pc = IF charts[Slug(h)] = <<>> THEN "new_chart" ELSE "update_chart"
    BY <1>11 DEF FindChart, TypeOK, Handling
  <2>5. mutex' = mutex /\ datasets' = datasets /\ charts' = charts
    BY <1>11 DEF FindChart, superset
  <2>6. Guarded(h)'
    BY <2>2, <2>3, <2>4, <2>5 DEF Guarded, Ask, Slug
  <2> QED
    BY <2>1, <2>5, <2>6, MutexKept
<1>12. ASSUME NEW h \in Handlers, CreateDataset(h) PROVE MutexInv'
  <2> DEFINE n == Name(h)
  <2>1. req[h] \in Handling /\ Ask(h) \in Request /\ req[h].pc = "new_dataset"
    BY <1>12 DEF CreateDataset, At, Ask, TypeOK, WellStaged
  <2>2. n \in Questions \cup Tables
    BY <2>1 DEF Name, Request
  <2>3. n \in Questions => n = Ask(h).question /\ datasets[n] = <<>>
    BY <2>1 DEF Name, Request, PromotionAssumption, MutexInv, Guarded
  <2>4. /\ \A g \in Handlers \ {h} : req'[g] = req[g]
        /\ req'[h].pc = "chart" /\ req'[h].ask = req[h].ask
    BY <1>12 DEF CreateDataset, TypeOK, Handling
  <2>5. /\ mutex' = mutex /\ charts' = charts
        /\ datasets' = [datasets EXCEPT ![n] = Append(@, DatasetSql(Ask(h)))]
    BY <1>12 DEF CreateDataset
  <2> HIDE DEF n
  <2>6. \A q \in Questions \ {n} : datasets'[q] = datasets[q]
    BY <2>5 DEF TypeOK
  <2>7. ASSUME NEW g \in Handlers \ {h} PROVE Guarded(g)'
    <3>1. req'[g] = req[g] /\ Guarded(g)
      BY <2>4 DEF MutexInv
    <3>2. CASE req[g].pc = "new_dataset"
      <4>1. Ask(g) \in Request
        BY <3>2 DEF TypeOK, WellStaged, Ask
      <4>2. Ask(g).question \in Questions /\ Ask(g).question # Ask(h).question
        BY <2>1, <3>2, <4>1, Exclusive DEF Persisting, Request
      <4>3. Ask(g).question # n
        BY <2>3, <4>2
      <4> QED
        BY <2>5, <2>6, <3>1, <4>2, <4>3 DEF Guarded, Ask, Slug
    <3> QED
      BY <2>5, <3>1, <3>2 DEF Guarded, Ask, Slug
  <2>8. Guarded(h)'
    BY <2>1, <2>4, <2>5 DEF Guarded, MutexInv, Ask, Persisting
  <2>9. \A q \in Questions : Len(datasets'[q]) <= 1
    <3>1. n \in Questions => datasets'[n] = <<DatasetSql(Ask(h))>>
      BY <2>2, <2>3, <2>5 DEF TypeOK
    <3>2. \A q \in Questions : Len(datasets[q]) <= 1
      BY DEF MutexInv, OneChartPerSlug
    <3>3. ASSUME NEW q \in Questions, q = n PROVE Len(datasets'[q]) <= 1
      <4>1. datasets'[q] = <<DatasetSql(Ask(h))>>
        BY <3>1, <3>3
      <4> QED
        BY <4>1
    <3>4. ASSUME NEW q \in Questions, q # n PROVE Len(datasets'[q]) <= 1
      <4>1. datasets'[q] = datasets[q]
        BY <2>6, <3>4
      <4> QED
        BY <3>2, <4>1
    <3> QED
      BY <3>3, <3>4
  <2> QED
    BY <2>5, <2>7, <2>8, <2>9 DEF MutexInv, OneChartPerSlug
<1>13. ASSUME NEW h \in Handlers, UpdateChart(h) \/ CreateChart(h) PROVE MutexInv'
  <2> DEFINE s == Slug(h)
  <2>1. Ask(h) \in Request /\ req[h].pc \in {"update_chart", "new_chart"}
    BY <1>13 DEF UpdateChart, CreateChart, At, Ask, TypeOK, WellStaged
  <2>2. s \in Questions \X Days /\ s[1] = Ask(h).question
    BY <2>1 DEF Slug, Request, Ask
  <2>3. \A g \in Handlers \ {h} : req'[g] = req[g]
    BY <1>13 DEF UpdateChart, CreateChart, Goto, TypeOK
  <2>4. req'[h].pc = "uuid" /\ req'[h].ask = req[h].ask
    BY <1>13 DEF UpdateChart, CreateChart, Goto, TypeOK, Handling
  <2>5. mutex' = mutex /\ datasets' = datasets
    BY <1>13 DEF UpdateChart, CreateChart
  <2>6. \A t \in (Questions \X Days) \ {s} : charts'[t] = charts[t]
    BY <1>13 DEF UpdateChart, CreateChart, TypeOK
  <2>7. Len(charts'[s]) <= 1
    <3>1. CASE UpdateChart(h)
      <4> DEFINE old == charts[s]
                 new == [old EXCEPT ![1] = req[h].dataset]
      <4>1. old \in Seq(DatasetIds) /\ Len(old) <= 1
        BY <2>2 DEF TypeOK, MutexInv, OneChartPerSlug
      <4>2. charts'[s] = new
        BY <2>2, <3>1 DEF UpdateChart, TypeOK
      <4>3. Len(new) = Len(old)
        BY <4>1
      <4> QED
        BY <4>1, <4>2, <4>3
    <3>2. CASE CreateChart(h)
      <4>1. charts[s] = <<>>
        BY <3>2 DEF CreateChart, At, MutexInv, Guarded
      <4>2. charts'[s] = <<req[h].dataset>>
        BY <2>2, <3>2, <4>1 DEF CreateChart, TypeOK
      <4> QED
        BY <4>2
    <3> QED
      BY <1>13, <3>1, <3>2
  <2>8. DOMAIN charts = Questions \X Days /\ DOMAIN charts' = Questions \X Days
    BY <1>13 DEF UpdateChart, CreateChart, TypeOK
  <2>9. OneChartPerSlug'
    BY <2>2, <2>5, <2>6, <2>7, <2>8 DEF MutexInv, OneChartPerSlug
  <2> HIDE DEF s
  <2>10. ASSUME NEW g \in Handlers \ {h} PROVE Guarded(g)'
    <3>1. req'[g] = req[g] /\ Guarded(g)
      BY <2>3 DEF MutexInv
    <3>2. CASE req[g].pc = "new_chart"
      <4>1. Ask(g) \in Request
        BY <3>2 DEF TypeOK, WellStaged, Ask
      <4>2. Ask(g).question # Ask(h).question
        BY <2>1, <3>2, Exclusive DEF Persisting
      <4>3. Slug(g) \in (Questions \X Days) \ {s}
        BY <2>2, <4>1, <4>2 DEF Slug, Request, Ask
      <4>4. charts'[Slug(g)] = <<>>
        BY <2>6, <3>1, <3>2, <4>3 DEF Guarded
      <4> QED
        BY <2>5, <3>1, <4>4 DEF Guarded, Ask, Slug
    <3> QED
      BY <2>5, <3>1, <3>2 DEF Guarded, Ask, Slug
  <2>11. Guarded(h)'
    BY <2>1, <2>4, <2>5 DEF Guarded, MutexInv, Ask, Persisting
  <2> QED
    BY <2>9, <2>10, <2>11 DEF MutexInv
<1>14. ASSUME NEW h \in Handlers, ReadRows(h) PROVE MutexInv'
  <2> DEFINE r == [req[h] EXCEPT !.pc = "write_rows", !.rows = rows]
  <2>1. req' = [req EXCEPT ![h] = r]
    BY <1>14 DEF ReadRows, TypeOK
  <2>2. r.pc = "write_rows" /\ r.ask = req[h].ask
    BY DEF TypeOK, Handling
  <2> HIDE DEF r
  <2> QED
    BY <1>14, <2>1, <2>2, MutexMove DEF ReadRows, At, Persisting, superset
<1>15. ASSUME NEW h \in Handlers, WriteRows(h) PROVE MutexInv'
  <2> DEFINE r == [req[h] EXCEPT !.pc = "audit", !.rows = None]
  <2>1. req' = [req EXCEPT ![h] = r]
    BY <1>15 DEF WriteRows, TypeOK
  <2>2. r.pc = "audit" /\ r.ask = req[h].ask
    BY DEF TypeOK, Handling
  <2> HIDE DEF r
  <2> QED
    BY <1>15, <2>1, <2>2, MutexMove DEF WriteRows, At, Persisting
<1>16. ASSUME NEW h \in Handlers, AuditPersist(h) PROVE MutexInv'
  <2> DEFINE r == [req[h] EXCEPT !.pc = "record"]
  <2>1. req' = [req EXCEPT ![h] = r] /\ r.pc \notin Persisting \cup {"audit"}
    BY <1>16 DEF AuditPersist, Goto, TypeOK, Handling, Persisting
  <2> QED
    BY <1>16, <2>1, MutexLeft DEF AuditPersist, At, superset
<1>17. ASSUME NEW h \in Handlers, Record(h) PROVE MutexInv'
  BY <1>17, MutexMove DEF Record, Blank, Persisting, superset
<1>18. ASSUME NEW h \in Handlers, Fail(h) PROVE MutexInv'
  BY <1>18, MutexLeft DEF Fail, Blank, Persisting, superset
<1>19. ASSUME NEW x \in Receipts, Sign(x) \/ Expire(x) PROVE MutexInv'
  BY <1>19 DEF Sign, Expire, superset, MutexInv, Guarded, OneChartPerSlug, Ask, Slug
<1>20. CASE Crash
  BY <1>20 DEF Crash, superset, Blank, Persisting, MutexInv, Guarded, OneChartPerSlug
<1> QED
  BY <1>1, <1>2, <1>3, <1>4, <1>5, <1>6, <1>7, <1>8, <1>9, <1>10, <1>11, <1>12, <1>13, <1>14,
     <1>15, <1>16, <1>17, <1>18, <1>19, <1>20
  DEF Next, Serve, Rest

\* A question has one dataset and a slug one chart at most, however promotions of
\* it interleave, fail or die (OneChartPerSlug).
THEOREM NothingCreatedTwice == ASSUME PromotionAssumption PROVE Spec => []OneChartPerSlug
<1>1. Init => MutexInv
  BY DEF Init, Blank, MutexInv, Guarded, OneChartPerSlug, Persisting
<1>2. MutexInv => OneChartPerSlug
  BY DEF MutexInv
<1> QED
  BY <1>1, <1>2, MutexStep, PromotionTypeCorrect, PTL DEF Spec
(***************************************************************************)
(* The dashboard's grid.  It is read, changed in memory and written back   *)
(* whole, so a row is only safe while no two requests do this at once.     *)
(* The mutex of a question keeps two of the same question apart;           *)
(* promotion_rows shows that it does not keep two questions apart.  What   *)
(* is proved is about every reachable state up to the first such overlap,  *)
(* whoever else promotes, fails or dies.                                   *)
(***************************************************************************)
Writing(h) == req[h].pc = "write_rows"

GridInv ==
  ~crossed =>
    /\ \A g, h \in Handlers : Writing(g) /\ Writing(h) => g = h
    /\ \A h \in Handlers : Writing(h) => req[h].rows = rows
    /\ \A h \in Handlers : req[h].pc = "audit" => rows[Ask(h).question] # None
    /\ \A a \in audit : a.outcome \in {"promoted", "updated"} => rows[a.question] # None

\* Nothing but a refusal, an execution or a failure is audited.
SaysNothingDone == \A a \in audit' : a \in audit \/ a.outcome \notin {"promoted", "updated"}

LEMMA GridMove ==
  ASSUME TypeOK, GridInv, UNCHANGED <<rows, crossed>>, SaysNothingDone, NEW h \in Handlers, NEW r,
         req' = [req EXCEPT ![h] = r], r.pc \notin {"write_rows", "audit"}
  PROVE  GridInv'
<1>1. \A g \in Handlers : req'[g] = IF g = h THEN r ELSE req[g]
  BY DEF TypeOK
<1> QED
  BY <1>1 DEF GridInv, Writing, SaysNothingDone, Ask

LEMMA GridGoto ==
  ASSUME TypeOK, GridInv, UNCHANGED <<rows, crossed>>, SaysNothingDone, NEW h \in Handlers, NEW pc,
         Goto(h, pc), pc \notin {"write_rows", "audit"}
  PROVE  GridInv'
<1> DEFINE r == [req[h] EXCEPT !.pc = pc]
<1>1. req' = [req EXCEPT ![h] = r] /\ r.pc = pc
  BY DEF Goto, TypeOK, Handling
<1> HIDE DEF r
<1> QED
  BY <1>1, GridMove

\* The row of the request that writes is there afterwards, and no other row changes.
LEMMA WriteRowsStep ==
  ASSUME PromotionAssumption, TypeOK, GridInv, ~crossed, NEW h \in Handlers, WriteRows(h)
  PROVE  /\ Ask(h).question \in Questions /\ rows'[Ask(h).question] # None
         /\ \A q \in Questions : rows[q] # None => rows'[q] = rows[q]
<1>1. Ask(h) \in Request /\ req[h].chart \in ChartIds /\ req[h].rows = rows
  BY DEF WriteRows, At, Ask, TypeOK, WellStaged, GridInv, Writing
<1>2. req[h].chart # None
  BY <1>1 DEF PromotionAssumption, ChartIds
<1>3. rows' = [rows EXCEPT ![Ask(h).question] = IF @ = None THEN req[h].chart ELSE @]
  BY <1>1 DEF WriteRows
<1>4. Ask(h).question \in Questions /\ DOMAIN rows = Questions
  BY <1>1 DEF Request, TypeOK, Grid
<1> QED
  BY <1>2, <1>3, <1>4

LEMMA GridStep ==
  ASSUME PromotionAssumption, TypeOK, GridInv, [Next]_vars
  PROVE  GridInv'
<1>1. CASE UNCHANGED <<req, audit, rows, crossed>>
  BY <1>1 DEF GridInv, Writing, Ask
<1>2. audit' = audit => SaysNothingDone
  BY DEF SaysNothingDone
<1>3. ASSUME NEW h \in Handlers, NEW outcome \in Outcomes \ {"promoted", "updated"},
             Audited(h, outcome)
      PROVE  SaysNothingDone
  BY <1>3 DEF Audited, Row, SaysNothingDone
<1>4. ASSUME NEW h \in Handlers, NEW ask \in Asks, NEW x \in Receipts \cup {None},
             Submit(h, ask, x)
      PROVE  GridInv'
  BY <1>2, <1>4, GridMove DEF Submit, Blank, books, superset
<1>5. ASSUME NEW h \in Handlers, NEW outcome \in Outcomes \ {"promoted", "updated"},
             Refuse(h, outcome)
      PROVE  GridInv'
  BY <1>3, <1>5, GridMove DEF Refuse, Blank, superset, counters
<1>6. ASSUME NEW h \in Handlers, GateRefuses(h) PROVE GridInv'
  BY <1>5, <1>6 DEF GateRefuses, Outcomes
<1>7. ASSUME NEW h \in Handlers,
             GatePasses(h) \/ CheckTarget(h) \/ ChartUuid(h) \/ FindDashboard(h)
               \/ CreateDashboard(h) \/ Enter(h)
      PROVE  GridInv'
  BY <1>2, <1>7, GridGoto
  DEF GatePasses, CheckTarget, ChartUuid, FindDashboard, CreateDashboard, Enter, books, superset, counters
<1>8. ASSUME NEW h \in Handlers, Execute(h) PROVE GridInv'
  <2>1. CASE Refuse(h, "guardrail_rejected")
    BY <1>5, <2>1 DEF Outcomes
  <2>2. CASE Goto(h, "harden") /\ Audited(h, "executed") /\ UNCHANGED <<superset, counters>>
    BY <1>3, <2>2, GridGoto DEF Outcomes, superset, counters
  <2> QED
    BY <1>8, <2>1, <2>2 DEF Execute
<1>9. ASSUME NEW h \in Handlers, Harden(h) PROVE GridInv'
  <2>1. CASE Refuse(h, "chp_rejected")
    BY <1>5, <2>1 DEF Outcomes
  <2>2. ASSUME NEW pc \in {"enter", "redeem"}, Goto(h, pc), UNCHANGED <<books, superset, counters>>
        PROVE  GridInv'
    BY <1>2, <2>2, GridGoto DEF books, superset, counters
  <2> QED
    BY <1>9, <2>1, <2>2 DEF Harden
<1>10. ASSUME NEW h \in Handlers, Redeem(h) PROVE GridInv'
  <2> DEFINE r == [req[h] EXCEPT !.pc = "enter", !.locked = TRUE]
  <2>1. CASE Refuse(h, "receipt_rejected")
    BY <1>5, <2>1 DEF Outcomes
  <2>2. CASE req' = [req EXCEPT ![h].pc = "enter", ![h].locked = TRUE]
               /\ UNCHANGED <<books, superset, counters>>
    <3>1. req' = [req EXCEPT ![h] = r]
      BY <2>2 DEF TypeOK
    <3>2. req[h] \in Handling
      BY DEF TypeOK
    <3>3. r.pc = "enter"
      BY <3>2 DEF Handling
    <3> HIDE DEF r
    <3> QED
      BY <1>2, <2>2, <3>1, <3>3, GridMove DEF books, superset, counters
  <2> QED
    BY <1>10, <2>1, <2>2 DEF Redeem
<1>11. ASSUME NEW h \in Handlers,
              FindDataset(h) \/ CreateDataset(h) \/ FindChart(h) \/ UpdateChart(h) \/ CreateChart(h)
       PROVE  GridInv'
  <2>1. /\ UNCHANGED <<audit, rows, crossed>>
        /\ \A g \in Handlers \ {h} : req'[g] = req[g]
    BY <1>11 DEF FindDataset, CreateDataset, FindChart, UpdateChart, CreateChart, Goto,
       books, superset, counters, TypeOK
  <2>2. req'[h].pc \in {"new_dataset", "chart", "new_chart", "update_chart", "uuid"}
    <3>1. req[h] \in Handling
      BY DEF TypeOK
    <3>2. FindDataset(h) \/ FindChart(h) => req'[h].pc \in {"new_dataset", "chart", "new_chart", "update_chart"}
      BY <3>1 DEF FindDataset, FindChart, TypeOK, Handling
    <3>3. CreateDataset(h) => req'[h].pc = "chart"
      BY <3>1 DEF CreateDataset, TypeOK, Handling
    <3>4. UpdateChart(h) \/ CreateChart(h) => req'[h].pc = "uuid"
      BY <3>1 DEF UpdateChart, CreateChart, Goto, TypeOK, Handling
    <3> QED
      BY <1>11, <3>2, <3>3, <3>4
  <2> QED
    BY <2>1, <2>2 DEF GridInv, Writing, Ask
<1>12. ASSUME NEW h \in Handlers, ReadRows(h) PROVE GridInv'
  <2>1. /\ req'[h].pc = "write_rows" /\ req'[h].rows = rows
        /\ \A g \in Handlers \ {h} : req'[g] = req[g]
    BY <1>12 DEF ReadRows, TypeOK, Handling
  <2>2. UNCHANGED <<audit, rows>>
    BY <1>12 DEF ReadRows, books, superset
  <2>3. ~crossed' => ~crossed /\ \A g \in Handlers \ {h} : ~Writing(g)
    BY <1>12 DEF ReadRows, At, Writing
  <2> QED
    BY <2>1, <2>2, <2>3 DEF GridInv, Writing, Ask
<1>13. ASSUME NEW h \in Handlers, WriteRows(h) PROVE GridInv'
  <2>1. /\ req'[h].pc = "audit" /\ req'[h].ask = req[h].ask
        /\ \A g \in Handlers \ {h} : req'[g] = req[g]
    BY <1>13 DEF WriteRows, TypeOK, Handling
  <2>2. UNCHANGED <<audit, crossed>> /\ Writing(h)
    BY <1>13 DEF WriteRows, At, Writing, books, counters
  <2>3. SUFFICES ASSUME ~crossed PROVE GridInv'
    BY <2>2 DEF GridInv
  <2>4. \A g \in Handlers : ~Writing(g)'
    BY <2>1, <2>2, <2>3 DEF GridInv, Writing
  <2>5. /\ rows'[Ask(h).question] # None
        /\ \A q \in Questions : rows[q] # None => rows'[q] # None
    BY <1>13, <2>3, WriteRowsStep
  <2>6. ASSUME NEW g \in Handlers, req'[g].pc = "audit" PROVE rows'[Ask(g)'.question] # None
    <3>1. CASE g = h
      BY <2>1, <2>5, <3>1 DEF Ask
    <3>2. CASE g # h
      <4>1. Ask(g) \in Request /\ rows[Ask(g).question] # None /\ Ask(g)' = Ask(g)
        BY <2>1, <2>3, <2>6, <3>2 DEF GridInv, Ask, TypeOK, WellStaged
      <4> QED
        BY <2>5, <4>1 DEF Request
    <3> QED
      BY <3>1, <3>2
  <2>7. \A a \in audit : a.question \in Questions
    BY DEF TypeOK
  <2>8. \A a \in audit' : a.outcome \in {"promoted", "updated"} => rows'[a.question] # None
    BY <2>2, <2>3, <2>5, <2>7 DEF GridInv
  <2> QED
    BY <2>4, <2>6, <2>8 DEF GridInv
<1>14. ASSUME NEW h \in Handlers, AuditPersist(h) PROVE GridInv'
  <2>1. UNCHANGED <<rows, crossed>> /\ req[h].pc = "audit"
    BY <1>14 DEF AuditPersist, At, superset, counters
  <2>2. /\ req'[h].pc = "record"
        /\ \A g \in Handlers \ {h} : req'[g] = req[g]
    BY <1>14 DEF AuditPersist, Goto, TypeOK, Handling
  <2>3. \A a \in audit' : a \in audit \/ a.question = Ask(h).question
    BY <1>14 DEF AuditPersist, Audited, Row
  <2> QED
    BY <2>1, <2>2, <2>3 DEF GridInv, Writing, Ask
<1>15. ASSUME NEW h \in Handlers, Record(h) PROVE GridInv'
  BY <1>2, <1>15, GridMove DEF Record, Blank, superset, counters
<1>16. ASSUME NEW h \in Handlers, Fail(h) PROVE GridInv'
  <2>1. SaysNothingDone
    BY <1>2, <1>3, <1>16 DEF Fail, Outcomes
  <2> QED
    BY <1>16, <2>1, GridMove DEF Fail, Blank, superset, counters
<1>17. ASSUME NEW x \in Receipts, Sign(x) \/ Expire(x) PROVE GridInv'
  BY <1>1, <1>17 DEF Sign, Expire, books, superset, counters
<1>18. CASE Crash
  BY <1>18 DEF Crash, Blank, books, superset, GridInv, Writing
<1>19. CASE UNCHANGED vars
  BY <1>1, <1>19 DEF vars, books, superset, counters
<1> QED
  BY <1>4, <1>6, <1>7, <1>8, <1>9, <1>10, <1>11, <1>12, <1>13, <1>14, <1>15, <1>16, <1>17, <1>18, <1>19
  DEF Next, Serve, Rest

LEMMA GridAlways == ASSUME PromotionAssumption PROVE Spec => []GridInv
<1>1. Init => GridInv
  BY DEF Init, Blank, GridInv, Writing
<1>2. TypeOK /\ GridInv /\ [Next]_vars => GridInv'
  BY GridStep
<1> QED
  BY <1>1, <1>2, PromotionTypeCorrect, PTL DEF Spec

\* A promotion audited as done has its question's row on the dashboard, with a chart
\* of the question that is there, through failures and deaths of the process, for any
\* number of questions, days and handlers, until two requests have held the layout at
\* once (PromotedIsOnDashboard, append_chart_row).
THEOREM PromotedVisible == ASSUME PromotionAssumption PROVE Spec => []PromotedIsOnDashboard
<1>1. ASSUME TypeOK, GridInv, MadeInv PROVE PromotedIsOnDashboard
  <2>1. \A a \in audit : a.question \in Questions
    BY <1>1 DEF TypeOK
  <2>2. \A q \in Questions : rows[q] # None => Charted(q, rows[q])
    BY <1>1 DEF MadeInv, ShowsCharts, Has, Charted
  <2> QED
    BY <1>1, <2>1, <2>2 DEF GridInv, PromotedIsOnDashboard
<1> QED
  BY <1>1, GridAlways, MadeAlways, PromotionTypeCorrect, PTL

\* "Existing curated rows are untouched" until two requests have held the layout at
\* once: the overlap that promotion_rows exhibits is the only way to lose a row
\* (RowsAreKeptApart).
THEOREM RowsKeptApart == ASSUME PromotionAssumption PROVE Spec => RowsAreKeptApart
<1>1. ASSUME TypeOK, GridInv, [Next]_vars, ~crossed'
      PROVE  \A q \in Questions : rows[q] # None => rows'[q] = rows[q]
  <2>1. ASSUME NEW h \in Handlers, WriteRows(h)
        PROVE  \A q \in Questions : rows[q] # None => rows'[q] = rows[q]
    <3>1. ~crossed
      BY <1>1, <2>1 DEF WriteRows, counters
    <3> QED
      BY <1>1, <2>1, <3>1, WriteRowsStep
  <2>2. ASSUME NEW h \in Handlers, Serve(h), ~WriteRows(h) PROVE UNCHANGED rows
    BY <2>2 DEF Serve, GateRefuses, GatePasses, Execute, Harden, Redeem, Refuse, Enter,
       CheckTarget, FindDataset, CreateDataset, FindChart, UpdateChart, CreateChart, ChartUuid,
       FindDashboard, CreateDashboard, ReadRows, AuditPersist, Record, Fail, superset
  <2>3. CASE UNCHANGED rows
    BY <2>3
  <2> QED
    BY <1>1, <2>1, <2>2, <2>3 DEF Next, Submit, Sign, Expire, Crash, Rest, vars, superset
<1>2. TypeOK /\ GridInv /\ [Next]_vars
        => [~crossed' => \A q \in Questions : rows[q] # None => rows'[q] = rows[q]]_vars
  BY <1>1
<1> QED
  BY <1>2, GridAlways, PromotionTypeCorrect, PTL DEF Spec, RowsAreKeptApart
=============================================================================
