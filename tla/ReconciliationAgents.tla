------------------------ MODULE ReconciliationAgents ------------------------
(***************************************************************************)
(* The two coordinated agents of the nightly job: delete_reconciliation    *)
(* anti-joins the staged keys of every entity with the source's keys and   *)
(* records what is gone; exception_triage reads the signals it left on the *)
(* stigmergy board and posts a verdict per signal.  The board is one JSON  *)
(* file that each agent loads, changes in memory and writes back whole.    *)
(* Extraction assets do not depend on either agent and run when they like. *)
(*                                                                         *)
(* Time passes in ticks while no job runs.  A signal carries its age; it   *)
(* is swept when it is older than its kind's horizon, ten half-lives.  Two *)
(* runs of one age with the same counts are one signal here.  The          *)
(* TOMBSTONE_BATCH signal, which no code reads, is left out.               *)
(***************************************************************************)
EXTENDS Naturals, FiniteSets

CONSTANTS Entities,      \* entities of the enabled anti-join sources
          Scannable,     \* those whose connector has a key-inventory scan
          Keys,          \* natural keys
          Jobs,          \* runs of the nightly job that may overlap
          AlertPercent,  \* alert_ratio, in percent
          Horizon,       \* [Kinds -> ticks a signal of the kind survives]
          None,          \* no entity
          MaxCrashes,    \* bound: jobs that die
          MaxChanges     \* bound: changes of what the ERP holds

Kinds == {"run", "missing", "disposition"}

ASSUME AgentsAssumption ==
  /\ Scannable \subseteq Entities /\ None \notin Entities
  /\ IsFiniteSet(Keys)
  /\ AlertPercent \in 1 .. 100
  /\ Horizon \in [Kinds -> Nat]
  /\ MaxCrashes \in Nat /\ MaxChanges \in Nat

VARIABLES source,   \* [Entities -> keys the ERP holds]
          staged,   \* [Entities -> keys in the staged Parquet file]
          runs,     \* reconciliation_runs and their tombstones
          board,    \* the board's snapshot file: a set of signals
          job,      \* [Jobs -> an agent at work]
          crashes, changes

counters == <<crashes, changes>>
vars == <<source, staged, runs, board, job, counters>>

(***************************************************************************)
(* The board.                                                              *)
(***************************************************************************)
Counts == [tombstoned: 0 .. Cardinality(Keys), warehouse: 0 .. Cardinality(Keys)]
Verdict == [verdict: {"APPLY", "REVIEW"}, counts: Counts] \cup {[verdict |-> "SKIP_LOUD"]}
SkipLoud == [verdict |-> "SKIP_LOUD"]

Signal(kind, e, body) == [kind |-> kind, entity |-> e, body |-> body, age |-> 0]

\* The same content is the same signal, posted again with a new emission time;
\* a run's content holds its time, so every run is a signal of its own.
Post(b, s) ==
  {x \in b : x.kind = "run" \/ [x EXCEPT !.age = 0] # s} \cup {s}

PostAll(b, S) ==
  {x \in b : x.kind = "run" \/ [x EXCEPT !.age = 0] \notin S} \cup S

\* snapshot() sweeps first: "no zombie signals".
Swept(b) == {x \in b : x.age <= Horizon[x.kind]}

(***************************************************************************)
(* Triage.                                                                 *)
(***************************************************************************)
\* Mutation: a share exactly at the alert ratio is an ordinary one.
MassAboveRatio(c) ==
  c.warehouse > 0 /\ 100 * c.tombstoned > AlertPercent * c.warehouse

\* tombstone_ratio >= alert_ratio, an empty warehouse being no glitch.
Mass(c) == c.warehouse > 0 /\ 100 * c.tombstoned >= AlertPercent * c.warehouse

RunVerdict(c) == [verdict |-> IF Mass(c) THEN "REVIEW" ELSE "APPLY", counts |-> c]

\* Mutation: only a mass deletion is an exception.
DispositionsMassOnly(b) ==
  {Signal("disposition", s.entity, SkipLoud) : s \in {x \in b : x.kind = "missing"}}
    \cup {Signal("disposition", s.entity, RunVerdict(s.body)) :
            s \in {x \in b : x.kind = "run" /\ Mass(x.body)}}

\* A clean run is no exception; every other signal read gets a verdict,
\* however stale it is (read() is called without a salience).
Dispositions(b) ==
  {Signal("disposition", s.entity, SkipLoud) : s \in {x \in b : x.kind = "missing"}}
    \cup {Signal("disposition", s.entity, RunVerdict(s.body)) :
            s \in {x \in b : x.kind = "run" /\ (Mass(x.body) \/ x.body.tombstoned > 0)}}

(***************************************************************************)
(* The world outside the agents.                                           *)
(***************************************************************************)
SourceChanges(e, K) ==
  /\ changes < MaxChanges
  /\ changes' = changes + 1
  /\ source[e] # K
  /\ source' = [source EXCEPT ![e] = K]
  /\ UNCHANGED <<staged, runs, board, job, crashes>>

\* A backfill replaces the staged file with what the source holds.
Extract(e) ==
  /\ staged' = [staged EXCEPT ![e] = source[e]]
  /\ UNCHANGED <<source, runs, board, job, counters>>

Idle == [pc |-> "idle", board |-> {}, todo |-> {}, entity |-> None, keys |-> {}]
Quiet == \A j \in Jobs : job[j] = Idle

\* Nothing tells a signal past every horizon from an older one.
Tick ==
  /\ Quiet
  /\ board' = {[s EXCEPT !.age = IF @ > Horizon[s.kind] THEN @ ELSE @ + 1] : s \in board}
  /\ UNCHANGED <<source, staged, runs, job, counters>>

(***************************************************************************)
(* delete_reconciliation.                                                  *)
(***************************************************************************)
StartReconcile(j) ==
  /\ job[j] = Idle
  /\ job' = [job EXCEPT ![j] = [Idle EXCEPT !.pc = "entities", !.board = board, !.todo = Entities]]
  /\ UNCHANGED <<source, staged, runs, board, counters>>

\* ConnectorNotImplemented: skipped, with a signal.
SkipLoudly(j, e) ==
  /\ job[j].pc = "entities" /\ e \in job[j].todo \ Scannable
  /\ job' = [job EXCEPT ![j].todo = @ \ {e},
                        ![j].board = Post(@, Signal("missing", e, "no key scan"))]
  /\ UNCHANGED <<source, staged, runs, board, counters>>

\* source_key_inventory: a scan of the source, before the staged file is read.
ScanSource(j, e) ==
  /\ job[j].pc = "entities" /\ e \in job[j].todo \cap Scannable
  /\ job' = [job EXCEPT ![j].pc = "compare", ![j].entity = e, ![j].keys = source[e]]
  /\ UNCHANGED <<source, staged, runs, board, counters>>

\* Any other error - a refused call, a file or a row the scan cannot read, of the
\* source or of the staged file - leaves the loop: the job ends and the board it
\* holds, with every signal of this run, is not saved.
ScanFails(j, e) ==
  /\ job[j].pc = "entities" /\ e \in job[j].todo \cap Scannable
  /\ job' = [job EXCEPT ![j] = Idle]
  /\ UNCHANGED <<source, staged, runs, board, counters>>

Gone(j) == staged[job[j].entity] \ job[j].keys
Counted(j) == [tombstoned |-> Cardinality(Gone(j)),
               warehouse |-> Cardinality(staged[job[j].entity])]

\* reconcile_deletes: the run and its tombstones are recorded at once, the
\* signal only in the agent's copy of the board.
Compare(j) ==
  LET e == job[j].entity IN
  /\ job[j].pc = "compare"
  /\ runs' = runs \cup {[entity |-> e, counts |-> Counted(j)]}
  /\ job' = [job EXCEPT ![j].pc = "entities", ![j].entity = None, ![j].keys = {},
                        ![j].todo = @ \ {e},
                        ![j].board = Post(@, Signal("run", e, Counted(j)))]
  /\ UNCHANGED <<source, staged, board, counters>>

SaveReconciled(j) ==
  /\ job[j].pc = "entities" /\ job[j].todo = {}
  /\ board' = Swept(job[j].board)
  /\ job' = [job EXCEPT ![j] = [Idle EXCEPT !.pc = "reconciled"]]
  /\ UNCHANGED <<source, staged, runs, counters>>

(***************************************************************************)
(* exception_triage.                                                       *)
(***************************************************************************)
StartTriage(j) ==
  /\ job[j].pc = "reconciled"
  /\ job' = [job EXCEPT ![j].pc = "triage", ![j].board = board]
  /\ UNCHANGED <<source, staged, runs, board, counters>>

\* Mutation: the verdicts are returned and not posted.
TriageUnposted(j) ==
  /\ job[j].pc = "triage"
  /\ board' = Swept(job[j].board)
  /\ job' = [job EXCEPT ![j] = Idle]
  /\ UNCHANGED <<source, staged, runs, counters>>

Triage(j) ==
  /\ job[j].pc = "triage"
  /\ board' = Swept(PostAll(job[j].board, Dispositions(job[j].board)))
  /\ job' = [job EXCEPT ![j] = Idle]
  /\ UNCHANGED <<source, staged, runs, counters>>

\* The job dies; what it had not written back is lost, the store's rows stay.
Crash(j) ==
  /\ job[j] # Idle
  /\ crashes < MaxCrashes
  /\ crashes' = crashes + 1
  /\ job' = [job EXCEPT ![j] = Idle]
  /\ UNCHANGED <<source, staged, runs, board, changes>>

Init ==
  /\ source = [e \in Entities |-> {}]
  /\ staged = [e \in Entities |-> {}]
  /\ runs = {}
  /\ board = {}
  /\ job = [j \in Jobs |-> Idle]
  /\ crashes = 0 /\ changes = 0

Work(j) ==
  \/ \E e \in Entities : SkipLoudly(j, e) \/ ScanSource(j, e) \/ ScanFails(j, e)
  \/ Compare(j) \/ SaveReconciled(j) \/ StartTriage(j) \/ Triage(j)

Next ==
  \/ \E e \in Scannable, K \in SUBSET Keys : SourceChanges(e, K)
  \/ \E e \in Scannable : Extract(e)
  \/ Tick
  \/ \E j \in Jobs : StartReconcile(j) \/ Work(j) \/ Crash(j)

\* The schedule starts the job again and again; a job at work goes on.
Spec == Init /\ [][Next]_vars
FairSpec == Spec /\ \A j \in Jobs : WF_vars(StartReconcile(j)) /\ WF_vars(Work(j))

(***************************************************************************)
(* Properties.                                                             *)
(***************************************************************************)
\* Every variable has its type; an agent names an entity only to compare it.
Signals == [kind: {"run"}, entity: Entities, body: Counts, age: Nat]
             \cup [kind: {"missing"}, entity: Entities, body: {"no key scan"}, age: Nat]
             \cup [kind: {"disposition"}, entity: Entities, body: Verdict, age: Nat]
Agent == [pc: {"idle", "entities", "compare", "reconciled", "triage"}, board: SUBSET Signals,
          todo: SUBSET Entities, entity: Entities \cup {None}, keys: SUBSET Keys]
TypeOK ==
  /\ source \in [Entities -> SUBSET Keys] /\ staged \in [Entities -> SUBSET Keys]
  /\ runs \subseteq [entity: Entities, counts: Counts]
  /\ board \subseteq Signals
  /\ job \in [Jobs -> Agent]
  /\ \A j \in Jobs :
       IF job[j].pc = "compare" THEN job[j].entity \in Scannable ELSE job[j].entity = None
  /\ crashes \in Nat /\ changes \in Nat

\* Nothing on the board is made up: every run it tells of, and every verdict on
\* a run, is about a run the store has recorded, even when jobs overlap or die
\* between the store and the board.
BackedBy(b, recorded) ==
  \A s \in b :
    /\ s.kind = "run" => [entity |-> s.entity, counts |-> s.body] \in recorded
    /\ s.kind = "disposition" /\ s.body # SkipLoud =>
         [entity |-> s.entity, counts |-> s.body.counts] \in recorded
BoardIsBacked == BackedBy(board, runs)

\* Between jobs every tombstoning run still on the board has its verdict there:
\* a verdict outlives the run it is about.
Exceptions(b) == {s \in b : s.kind = "run" /\ s.age <= Horizon["run"] /\ s.body.tombstoned > 0}
VerdictOutlivesRun ==
  Quiet /\ crashes = 0 =>
    \A s \in Exceptions(board) : \E d \in board :
      d.kind = "disposition" /\ d.entity = s.entity
        /\ d.body # SkipLoud /\ d.body.counts = s.body

\* From some moment on no key scan fails.
ScansAnswer == <>[][\A j \in Jobs, e \in Scannable : ~ScanFails(j, e)]_vars

\* A mass deletion that stays in the staged data, a share exactly at the alert
\* ratio included, is in the end held for review, and is again and again,
\* although scans failed, jobs died and signals fade ("a truncated drop looks
\* exactly like a mass hard-delete") - once no scan fails any more: one source
\* that keeps failing keeps every other source's verdicts off the board.
MassIsGone(e) ==
  staged[e] # {} /\ 100 * Cardinality(staged[e] \ source[e]) >= AlertPercent * Cardinality(staged[e])
Held(e) == \E d \in board : d.kind = "disposition" /\ d.entity = e
                              /\ d.body.verdict = "REVIEW"
MassDeletionIsHeld == ScansAnswer => \A e \in Scannable : <>[]MassIsGone(e) => []<>Held(e)

\* Once no scan of another entity fails any more, an entity without a key scan
\* gets its SKIP_LOUD verdict again and again, whatever failed before.
SkipIsPosted(e) == \E d \in board : d.kind = "disposition" /\ d.entity = e /\ d.body = SkipLoud
SkippedLoudly == ScansAnswer => \A e \in Entities \ Scannable : []<>SkipIsPosted(e)

\* "skipped loudly, never silently": the same, whatever other sources do.
NeverSkippedSilently == \A e \in Entities \ Scannable : []<>SkipIsPosted(e)

\* "posts one EXCEPTION_DISPOSITION signal per subject" (triage).
OneVerdict ==
  \A d1, d2 \in board :
    d1.kind = "disposition" /\ d2.kind = "disposition" /\ d1.entity = d2.entity => d1 = d2
=============================================================================
