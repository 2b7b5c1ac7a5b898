-------------------------- MODULE ReadOnlyExecution --------------------------
(***************************************************************************)
(* execute_readonly: the checks of a statement, the worker thread that     *)
(* runs it, and the caller that waits for the worker until a deadline.     *)
(*                                                                         *)
(* Caller and worker share the box and the connection and nothing orders   *)
(* them.  A statement is what the checks and the engine tell apart in it,  *)
(* its comments already stripped; the engine obeys an interrupt of a       *)
(* statement it is running and forgets one that comes before.              *)
(***************************************************************************)
EXTENDS Naturals

CONSTANTS Statements, \* statements a caller may submit
          Uris,       \* database URIs the settings may hold
          RowCap,     \* row_cap
          Endless,    \* rows of a statement that does not end by itself
          Nothing     \* no statement, URI or outcome

\* rows is what the statement returns; valid says whether the engine accepts it.
ASSUME ExecutionAssumption ==
  /\ RowCap \in Nat /\ Endless \notin Nat
  /\ Nothing \notin Statements /\ Nothing # "Result"
  /\ \A s \in Statements :
       /\ s.rows \in Nat \cup {Endless} /\ s.parts \in Nat
       /\ s.select \in BOOLEAN /\ s.reader \in BOOLEAN /\ s.keyword \in BOOLEAN
       /\ s.valid \in BOOLEAN
  /\ \A u \in Uris : u.duckdb \in BOOLEAN /\ u.readOnly \in BOOLEAN

VARIABLES caller,      \* pc, statement and URI of the call, its outcome and rows
          worker,      \* where the worker thread is
          box,         \* what it has put in the box
          interrupted, \* the connection was interrupted
          cutOff       \* history: where the worker was when the caller gave it up

executionVars == <<caller, worker, box, interrupted, cutOff>>

(***************************************************************************)
(* The checks.                                                             *)
(***************************************************************************)
\* ensure_read_only_uri
UriRefusal(u) == IF u.duckdb /\ u.readOnly THEN {} ELSE {"NotReadOnlyUri"}

\* validate_select_only: trailing semicolons end the one statement.
StatementRefusal(s) ==
  IF s.parts > 1 THEN {"MultipleStatements"}
  ELSE IF s.parts = 0 \/ ~s.select \/ s.reader \/ s.keyword THEN {"NotSelectOnly"}
  ELSE {}

Refusal(s, u) == IF UriRefusal(u) # {} THEN UriRefusal(u) ELSE StatementRefusal(s)

(***************************************************************************)
(* The caller.                                                             *)
(***************************************************************************)
End(outcome, rows) ==
  caller' = [caller EXCEPT !.pc = "ended", !.outcome = outcome, !.rows = rows]

RefuseStatement(s, u) ==
  /\ caller.pc = "idle"
  /\ \E r \in Refusal(s, u) :
       caller' = [caller EXCEPT !.pc = "ended", !.statement = s, !.uri = u, !.outcome = r]
  /\ UNCHANGED <<worker, box, interrupted, cutOff>>

StartWorker(s, u) ==
  /\ caller.pc = "idle" /\ Refusal(s, u) = {}
  /\ caller' = [caller EXCEPT !.pc = "join", !.statement = s, !.uri = u]
  /\ worker' = "connecting"
  /\ UNCHANGED <<box, interrupted, cutOff>>

\* The worker ended before the deadline, or before is_alive() was asked.
Joined ==
  /\ caller.pc = "join" /\ worker = "ended"
  /\ IF box.error THEN End("QueryFailed", 0)
     ELSE IF box.rows > RowCap THEN End("RowCapExceeded", 0)
     ELSE End("Result", box.rows)
  /\ UNCHANGED <<worker, box, interrupted, cutOff>>

Deadline ==
  /\ caller.pc = "join" /\ worker # "ended"
  /\ caller' = [caller EXCEPT !.pc = "late"]
  /\ UNCHANGED <<worker, box, interrupted, cutOff>>

\* The connection is in the box: it is interrupted and the worker waited for.
InterruptNothing ==
  /\ caller.pc = "late" /\ box.connection
  /\ caller' = [caller EXCEPT !.pc = "grace"]
  /\ cutOff' = worker
  /\ UNCHANGED <<worker, box, interrupted>>
Interrupt ==
  /\ caller.pc = "late" /\ box.connection
  /\ interrupted' = (worker = "executing")
  /\ caller' = [caller EXCEPT !.pc = "grace"]
  /\ cutOff' = worker
  /\ UNCHANGED <<worker, box>>

\* It is not: the call fails and the worker is left to itself.
LeaveWorker ==
  /\ caller.pc = "late" /\ ~box.connection
  /\ End("StatementTimeout", 0)
  /\ cutOff' = worker
  /\ UNCHANGED <<worker, box, interrupted>>

\* Whatever the worker brings within the grace period is not looked at.
GraceOver ==
  /\ caller.pc = "grace"
  /\ End("StatementTimeout", 0)
  /\ UNCHANGED <<worker, box, interrupted, cutOff>>

(***************************************************************************)
(* The worker and the engine.                                              *)
(***************************************************************************)
Stop(error, rows) ==
  /\ box' = [box EXCEPT !.error = error, !.rows = rows]
  /\ worker' = "ended"
  /\ UNCHANGED <<caller, interrupted, cutOff>>

ConnectFails == worker = "connecting" /\ Stop(TRUE, 0)

Connect ==
  /\ worker = "connecting"
  /\ worker' = "connected"
  /\ UNCHANGED <<caller, box, interrupted, cutOff>>

PutInBox ==
  /\ worker = "connected"
  /\ worker' = "boxed"
  /\ box' = [box EXCEPT !.connection = TRUE]
  /\ UNCHANGED <<caller, interrupted, cutOff>>

ExecuteStatement ==
  /\ worker = "boxed"
  /\ worker' = "executing"
  /\ UNCHANGED <<caller, box, interrupted, cutOff>>

\* fetchmany(row_cap + 1): one row more than allowed tells a result too large.
FetchAtCap ==
  /\ worker = "executing" /\ caller.statement.valid /\ caller.statement.rows # Endless
  /\ Stop(FALSE, IF caller.statement.rows > RowCap THEN RowCap ELSE caller.statement.rows)
Fetch ==
  /\ worker = "executing" /\ caller.statement.valid /\ caller.statement.rows # Endless
  /\ Stop(FALSE, IF caller.statement.rows > RowCap THEN RowCap + 1 ELSE caller.statement.rows)

\* A syntax error, a missing relation, a refused write: any failure of the engine.
EngineFails == worker = "executing" /\ ~caller.statement.valid /\ Stop(TRUE, 0)

Interrupted == worker = "executing" /\ interrupted /\ Stop(TRUE, 0)

ExecutionInit ==
  /\ caller = [pc |-> "idle", statement |-> Nothing, uri |-> Nothing,
               outcome |-> Nothing, rows |-> 0]
  /\ worker = "none"
  /\ box = [connection |-> FALSE, error |-> FALSE, rows |-> 0]
  /\ interrupted = FALSE
  /\ cutOff = Nothing

CallerStep == Joined \/ Deadline \/ Interrupt \/ LeaveWorker \/ GraceOver
WorkerStep ==
  \/ ConnectFails \/ Connect \/ PutInBox \/ ExecuteStatement
  \/ Fetch \/ EngineFails \/ Interrupted

ExecutionNext ==
  \/ \E s \in Statements, u \in Uris : RefuseStatement(s, u) \/ StartWorker(s, u)
  \/ CallerStep \/ WorkerStep

\* The caller's thread runs, its two waits are bounded, and the engine obeys an
\* interrupt; nothing bounds connect() or a statement.
ExecutionFairness ==
  WF_executionVars(CallerStep) /\ WF_executionVars(Interrupted)

ExecutionSpec == ExecutionInit /\ [][ExecutionNext]_executionVars

(***************************************************************************)
(* Properties.                                                             *)
(***************************************************************************)
ExecutionTypeOK ==
  /\ caller \in [pc : {"idle", "join", "late", "grace", "ended"},
                 statement : Statements \cup {Nothing}, uri : Uris \cup {Nothing},
                 outcome : {Nothing, "NotReadOnlyUri", "NotSelectOnly", "MultipleStatements",
                            "QueryFailed", "RowCapExceeded", "Result", "StatementTimeout"},
                 rows : Nat]
  /\ worker \in {"none", "connecting", "connected", "boxed", "executing", "ended"}
  /\ box \in [connection : BOOLEAN, error : BOOLEAN, rows : Nat]
  /\ interrupted \in BOOLEAN
  /\ cutOff \in {Nothing, "connecting", "connected", "boxed", "executing", "ended"}

\* An answer is the whole result of a statement that the checks let through, of
\* at most row_cap rows: 'an error, not a silent truncation' (guardrails.py:13),
\* and never what a worker that was cut off left in the box.
ResultIsWhole ==
  caller.outcome = "Result" =>
    /\ Refusal(caller.statement, caller.uri) = {}
    /\ caller.statement.valid /\ caller.statement.rows = caller.rows
    /\ caller.rows <= RowCap /\ cutOff = Nothing /\ ~interrupted

\* A statement that was running at the deadline ends: it was interrupted.
RunningStatementIsCutOff == (cutOff = "executing") ~> (worker = "ended")

\* 'On deadline the connection is interrupt()-ed' (guardrails.py:11): no statement
\* outlives a call that timed out.  Violated: the worker may not have begun it
\* when the caller looks, and begins it afterwards.
NoStatementOutlivesCall ==
  (caller.outcome = "StatementTimeout") ~> (worker \notin {"connected", "boxed", "executing"})

=============================================================================
