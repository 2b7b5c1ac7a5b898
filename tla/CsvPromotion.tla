---------------------------- MODULE CsvPromotion ----------------------------
(***************************************************************************)
(* One CSV/SFTP source: the dealer's drop directory, the csv_sftp          *)
(* connector that validates and promotes what it finds there, and the      *)
(* control-plane store and staged Parquet file it leaves behind.           *)
(*                                                                         *)
(* A run of the connector is BaseConnector.extract around                  *)
(* CsvSftpConnector._iter_records: read the watermark, read the manifest,  *)
(* hash the file, ask the audit table, validate the file (reading it       *)
(* again), write Parquet, move the watermark, write the audit row.  The    *)
(* process may die between any two of these steps, and the dealer may      *)
(* change the drop directory between any two of them.                      *)
(*                                                                         *)
(* A file's bytes are a Content; its SHA-256 is the content itself.        *)
(***************************************************************************)
EXTENDS Naturals, Sequences

CONSTANTS Entities,    \* entities of the source, one file each
          Contents,    \* file contents
          SchemaOf,    \* [Contents -> the entity whose header and types they have]
          Rows,        \* [Contents -> number of data rows]
          Batches,     \* batch ids a manifest may carry
          Leftovers,   \* files that may lie there undeclared before the first run
          Modes,       \* extraction modes used: "backfill", "incremental"
          None,        \* no file, no manifest, no entry, no audit row, no watermark
          MaxDrops,    \* bound: whole deliveries
          MaxPieces,   \* bound: changes of the drop directory where copies are piecewise
          MaxCrashes   \* bound: process deaths

\* A row of file_audit; rows is rows_parsed.
Statuses == {"PROMOTED", "QUARANTINED", "SKIPPED_DUPLICATE"}
AuditRow == [status: Statuses, entity: Entities, batch: Batches, rows: Nat]

ASSUME CsvAssumption ==
  /\ None \notin Contents \cup Batches \cup AuditRow \cup Statuses
  /\ SchemaOf \in [Contents -> Entities]
  /\ Rows \in [Contents -> Nat]
  /\ Leftovers \subseteq [Entities -> Contents \cup {None}]
  /\ Modes \subseteq {"backfill", "incremental"}
  /\ MaxDrops \in Nat /\ MaxPieces \in Nat /\ MaxCrashes \in Nat

VARIABLES files,       \* [Entities -> content of the entity's file, or None]
          manifest,    \* the control file: batch id and one entry per file
          whole,       \* whether file and manifest always change together, between runs
          drops,       \* changes of the drop directory so far
          watermark,   \* sync_state: [Entities -> [Modes -> batch or None]]
          audit,       \* file_audit, keyed by hash; "unknown" for a missing file
          quarantine,  \* quarantine records: entity, batch and reason code
          table,       \* [Entities -> the staged Parquet file]
          run,         \* the connector process
          crashes

drop == <<files, manifest, whole, drops>>
store == <<watermark, audit, quarantine>>
vars == <<drop, store, table, run, crashes>>

(***************************************************************************)
(* The drop directory.                                                     *)
(***************************************************************************)
Declared == [sha: Contents, rows: Nat]
Describes(f, n) == [sha |-> f, rows |-> n]
NoFiles == [e \in Entities |-> None]
Manifest == [batch: Batches, entries: [Entities -> Declared \cup {None}]]

\* What a manifest says about e, None when there is no such manifest or entry.
EntryFor(e) == IF manifest = None THEN None ELSE manifest.entries[e]

CanDrop == drops < IF whole THEN MaxDrops ELSE MaxPieces

\* Piecewise delivery: the file and the manifest arrive in either order, a
\* file may be removed, an entry may be missing or declare a wrong row count.
DropFile(e, f) ==
  /\ CanDrop /\ ~whole
  /\ files' = [files EXCEPT ![e] = f]
  /\ drops' = drops + 1
  /\ UNCHANGED <<manifest, whole, store, table, run, crashes>>

DropManifest(b, e, entry) ==
  /\ CanDrop /\ ~whole
  /\ manifest' = [batch |-> b, entries |->
       [x \in Entities |-> IF x = e THEN entry ELSE EntryFor(x)]]
  /\ drops' = drops + 1
  /\ UNCHANGED <<files, whole, store, table, run, crashes>>

\* Whole delivery, while no run is in progress: a file and the manifest that
\* describes it change together.
Deliver(b, e, f) ==
  /\ CanDrop /\ whole /\ run.pc = "idle"
  /\ files' = [files EXCEPT ![e] = f]
  /\ manifest' = [batch |-> b, entries |->
       [x \in Entities |-> IF x = e THEN Describes(f, Rows[f]) ELSE EntryFor(x)]]
  /\ drops' = drops + 1
  /\ UNCHANGED <<whole, store, table, run, crashes>>

(***************************************************************************)
(* The staged file: the deliveries it holds, in order.  A file is written  *)
(* with at least one row, so no parts means that there is no file.  A file *)
(* whose writer died is unreadable.                                        *)
(***************************************************************************)
NoTable == [parts |-> <<>>, readable |-> TRUE]
Torn == [parts |-> <<>>, readable |-> FALSE]
Exists(t) == t.parts # <<>> \/ ~t.readable

(***************************************************************************)
(* The connector process.  pending is the audit row that is written last.  *)
(***************************************************************************)
Idle == [pc |-> "idle", entity |-> None, mode |-> None, before |-> None, batch |-> None,
         entry |-> None, hash |-> None, file |-> None, pending |-> None]

End == run' = Idle

Goto(pc) == run' = [run EXCEPT !.pc = pc]

\* extract(): the watermark is read first.
Start(e, mode) ==
  /\ run.pc = "idle"
  /\ run' = [Idle EXCEPT !.pc = "manifest", !.entity = e, !.mode = mode,
                         !.before = watermark[e][mode]]
  /\ UNCHANGED <<drop, store, table, crashes>>

\* A missing manifest or entry is a ConnectorError: nothing is recorded.
ReadManifest ==
  /\ run.pc = "manifest"
  /\ IF EntryFor(run.entity) = None
     THEN End
     ELSE run' = [run EXCEPT !.pc = "hash", !.batch = manifest.batch,
                             !.entry = EntryFor(run.entity)]
  /\ UNCHANGED <<drop, store, table, crashes>>

\* Mutation: only backfill runs ask the audit table.
ProcessedBackfill(f) == f # None /\ audit[f] # None /\ run.mode = "backfill"

\* has_file_been_processed: any audit row with this hash, whatever its status.
Processed(f) == f # None /\ audit[f] # None

\* The idempotency gate: a skipped file yields no rows, and extract() goes on.
CheckDuplicate ==
  LET f == files[run.entity] IN
  /\ run.pc = "hash"
  /\ IF Processed(f) \/ (run.mode = "incremental" /\ run.before = run.batch)
     THEN run' = [run EXCEPT !.pc = "checkpoint", !.hash = f, !.pending = "SKIPPED_DUPLICATE"]
     ELSE run' = [run EXCEPT !.pc = "validate", !.hash = f]
  /\ UNCHANGED <<drop, store, table, crashes>>

\* The promotion gates in their order; an empty, malformed or foreign file has
\* another entity's schema here.
Verdict(f) ==
  IF f = None THEN "MISSING_FILE"
  ELSE IF f # run.entry.sha THEN "CHECKSUM_MISMATCH"
  ELSE IF SchemaOf[f] # run.entity THEN "HEADER_SCHEMA_DRIFT"
  ELSE IF Rows[f] # run.entry.rows THEN "ROW_COUNT_MISMATCH"
  ELSE "CLEAN"

\* Mutations: the gates pass and the next stage is taken before the rows are
\* written; a quarantined file is audited but not recorded.
ValidateThen(pc) ==
  LET f == files[run.entity] IN
  /\ run.pc = "validate"
  /\ run' = IF Verdict(f) = "CLEAN"
            THEN [run EXCEPT !.pc = pc, !.file = f, !.pending = "PROMOTED"]
            ELSE [run EXCEPT !.pc = "quarantined", !.pending = "QUARANTINED"]
  /\ UNCHANGED <<drop, store, table, crashes>>
ValidateThenAudit == ValidateThen("audit")
ValidateThenCheckpoint == ValidateThen("checkpoint")
ValidateSilently ==
  /\ run.pc = "validate" /\ Verdict(files[run.entity]) # "CLEAN"
  /\ run' = [run EXCEPT !.pc = "quarantined", !.pending = "QUARANTINED"]
  /\ UNCHANGED <<drop, store, table, crashes>>

\* The file is read again; a gate failure is recorded in the quarantine table.
Validate ==
  LET f == files[run.entity]
      reason == Verdict(f) IN
  /\ run.pc = "validate"
  /\ IF reason = "CLEAN"
     THEN /\ run' = [run EXCEPT !.pc = IF Rows[f] > 0 THEN "write" ELSE "checkpoint",
                                !.file = f, !.pending = "PROMOTED"]
          /\ UNCHANGED quarantine
     ELSE /\ quarantine' = quarantine \cup
               {[entity |-> run.entity, batch |-> run.batch, reason |-> reason]}
          /\ run' = [run EXCEPT !.pc = "quarantined", !.pending = "QUARANTINED"]
  /\ UNCHANGED <<drop, watermark, audit, table, crashes>>

Part == [content |-> run.file, batch |-> run.batch]
Merging == run.mode = "incremental" /\ Exists(table[run.entity])

\* Everything but a merge writes the entity's file in place.
BeginWrite ==
  /\ run.pc = "write" /\ ~Merging
  /\ table' = [table EXCEPT ![run.entity] = Torn]
  /\ Goto("writing")
  /\ UNCHANGED <<drop, store, crashes>>

EndWrite ==
  /\ run.pc = "writing"
  /\ table' = [table EXCEPT ![run.entity] = [parts |-> <<Part>>, readable |-> TRUE]]
  /\ Goto("checkpoint")
  /\ UNCHANGED <<drop, store, crashes>>

\* An incremental run on an existing file writes the delta beside it and
\* publishes the concatenation in one rename; an unreadable file raises.
Merge ==
  /\ run.pc = "write" /\ Merging
  /\ IF table[run.entity].readable
     THEN /\ table' = [table EXCEPT ![run.entity].parts = Append(@, Part)]
          /\ Goto("checkpoint")
     ELSE End /\ UNCHANGED table
  /\ UNCHANGED <<drop, store, crashes>>

Checkpoint ==
  /\ run.pc = "checkpoint"
  /\ watermark' = [watermark EXCEPT ![run.entity][run.mode] = run.batch]
  /\ Goto("audit")
  /\ UNCHANGED <<drop, audit, quarantine, table, crashes>>

\* The pending row, which learns the number of rows that extract counted.
AuditOf(r) == [status |-> r.pending, entity |-> r.entity, batch |-> r.batch,
               rows |-> IF r.pending = "PROMOTED" THEN Rows[r.file] ELSE 0]

\* _flush_pending_audit: INSERT OR IGNORE, after the watermark, or after a
\* quarantine that leaves the watermark alone.
FlushAudit ==
  LET key == IF run.hash = None THEN "unknown" ELSE run.hash IN
  /\ run.pc \in {"audit", "quarantined"}
  /\ audit' = [audit EXCEPT ![key] = IF @ # None THEN @ ELSE AuditOf(run)]
  /\ End
  /\ UNCHANGED <<drop, watermark, quarantine, table, crashes>>

\* The process dies and loses what it held in memory.
Crash ==
  /\ run.pc # "idle"
  /\ crashes < MaxCrashes
  /\ crashes' = crashes + 1
  /\ End
  /\ UNCHANGED <<drop, store, table>>

Init ==
  /\ manifest = None
  /\ whole \in BOOLEAN
  /\ files \in {NoFiles} \cup IF whole THEN {} ELSE Leftovers
  /\ drops = 0
  /\ watermark = [e \in Entities |-> [m \in Modes |-> None]]
  /\ audit = [h \in Contents \cup {"unknown"} |-> None]
  /\ quarantine = {}
  /\ table = [e \in Entities |-> NoTable]
  /\ run = Idle
  /\ crashes = 0

Extract ==
  \/ \E e \in Entities, mode \in Modes : Start(e, mode)
  \/ ReadManifest \/ CheckDuplicate \/ Validate
  \/ BeginWrite \/ EndWrite \/ Merge
  \/ Checkpoint \/ FlushAudit

PiecewiseDrop ==
  \/ \E e \in Entities, f \in Contents \cup {None} : DropFile(e, f)
  \/ \E b \in Batches, e \in Entities, f \in Contents, n \in 0 .. 1 :
       DropManifest(b, e, Describes(f, Rows[f] + n))
  \/ \E b \in Batches, e \in Entities : DropManifest(b, e, None)

\* Every delivery is a new batch, with contents the source never had before or
\* the very bytes of the batch before.
Fresh(f) ==
  /\ f \notin {files[e] : e \in Entities} /\ audit[f] = None
  /\ \A e \in Entities : \A i \in 1 .. Len(table[e].parts) : table[e].parts[i].content # f

WholeDrop ==
  \E b \in Batches, f \in Contents :
    /\ manifest # None => b > manifest.batch
    /\ Fresh(f) \/ f = files[SchemaOf[f]]
    /\ Deliver(b, SchemaOf[f], f)

Next == Extract \/ PiecewiseDrop \/ WholeDrop \/ Crash
Spec == Init /\ [][Next]_vars

\* The nightly schedule starts every entity's backfill again and again, and a
\* started run takes its next step unless the process dies.
FairSpec ==
  /\ Spec
  /\ \A e \in Entities : SF_vars(Start(e, "backfill"))
  /\ WF_vars(ReadManifest \/ CheckDuplicate \/ Validate \/ BeginWrite \/ EndWrite
             \/ Merge \/ Checkpoint \/ FlushAudit)

(***************************************************************************)
(* Properties.                                                             *)
(***************************************************************************)
Reasons == {"MISSING_FILE", "CHECKSUM_MISMATCH", "HEADER_SCHEMA_DRIFT", "ROW_COUNT_MISMATCH"}
StagedPart == [content: Contents, batch: Batches]
Table == [parts: Seq(StagedPart), readable: BOOLEAN]
Stages == {"idle", "manifest", "hash", "validate", "write", "writing", "checkpoint",
           "audit", "quarantined"}

Process == [pc: Stages, entity: Entities \cup {None}, mode: Modes \cup {None},
            before: Batches \cup {None}, batch: Batches \cup {None},
            entry: Declared \cup {None}, hash: Contents \cup {None},
            file: Contents \cup {None}, pending: Statuses \cup {None}]
\* What the run has read by the time it reaches each stage.
RunOK ==
  /\ run \in Process
  /\ run.pc # "idle" => run.entity \in Entities /\ run.mode \in Modes
  /\ run.pc \notin {"idle", "manifest"} => run.batch \in Batches /\ run.entry \in Declared
  /\ run.pc \in {"write", "writing"} => run.file \in Contents /\ run.pending = "PROMOTED"
  /\ run.pc \in {"checkpoint", "audit", "quarantined"} => run.pending \in Statuses
  /\ run.pending = "PROMOTED" => run.file \in Contents

\* The state has the shape the tables, the drop directory and the process have.
TypeOK ==
  /\ files \in [Entities -> Contents \cup {None}]
  /\ manifest \in Manifest \cup {None}
  /\ whole \in BOOLEAN /\ drops \in Nat /\ crashes \in Nat
  /\ watermark \in [Entities -> [Modes -> Batches \cup {None}]]
  /\ audit \in [Contents \cup {"unknown"} -> AuditRow \cup {None}]
  /\ quarantine \subseteq [entity: Entities, batch: Batches, reason: Reasons]
  /\ table \in [Entities -> Table]
  /\ RunOK

\* The staged file of e can be read and its newest rows are batch b's.
Holds(e, b) ==
  /\ table[e].readable /\ table[e].parts # <<>>
  /\ table[e].parts[Len(table[e].parts)].batch = b

\* When an audit row of PROMOTED that counts rows appears, the entity's Parquet file
\* is readable and its newest rows are that batch's, whatever the dealer did to the
\* drop directory and wherever earlier runs died (CsvSftpConnector.extract).  A file
\* with a header and no rows is audited as PROMOTED too, and stages nothing.
PromotedBatchStaged ==
  [][\A h \in Contents \cup {"unknown"} :
       audit[h] = None /\ audit'[h] # None /\ audit'[h].status = "PROMOTED"
         /\ audit'[h].rows > 0
         => Holds(audit'[h].entity, audit'[h].batch)]_vars

\* The watermark of an entity never runs ahead of its Parquet file: it moves to
\* a batch only when the file holds that batch's rows, or the run had none to
\* stage: it skipped the file, or the file has no rows (BaseConnector.extract
\* writes the checkpoint last).
NothingToStage ==
  run.pending = "SKIPPED_DUPLICATE" \/ (run.file # None /\ Rows[run.file] = 0)
WatermarkNotAhead ==
  [][\A e \in Entities, m \in Modes :
       watermark'[e][m] # watermark[e][m] => Holds(e, watermark'[e][m]) \/ NothingToStage]_vars

\* A file audited as quarantined has a quarantine record with a reason code, of
\* the same entity and batch, even when the run died in between before.
QuarantineRecorded ==
  \A h \in DOMAIN audit :
    audit[h] # None /\ audit[h].status = "QUARANTINED" =>
      \E q \in quarantine : q.entity = audit[h].entity /\ q.batch = audit[h].batch

\* "re-delivered files are skipped": a staged file never holds the same bytes
\* twice, in whatever order batches are delivered and modes are run.
StagedOnce ==
  \A e \in Entities : \A i, j \in 1 .. Len(table[e].parts) :
    table[e].parts[i].content = table[e].parts[j].content => i = j

\* The same of whole deliveries as long as no run has died: the audit row written last is what keeps
\* an incremental run from appending what a backfill has staged, and the reverse.
StagedOnceUndisturbed == whole /\ crashes = 0 => StagedOnce

\* A file with rows that is delivered whole is in the end readable in the staged
\* file, or the dealer has replaced it: a run that died is made good by a later one.
Delivered(f) == whole /\ files[SchemaOf[f]] = f
Staged(f) ==
  LET t == table[SchemaOf[f]] IN
  t.readable /\ t.parts # <<>> /\ t.parts[Len(t.parts)].content = f

\* "a PROMOTED audit row always implies a readable Parquet file for that batch",
\* a file without rows included (CsvSftpConnector.extract).
PromotedIsReadable ==
  [][\A h \in Contents \cup {"unknown"} :
       audit[h] = None /\ audit'[h] # None /\ audit'[h].status = "PROMOTED"
         => Holds(audit'[h].entity, audit'[h].batch)]_vars

\* "Idempotency gate: same bytes already promoted": a run skips a file as a
\* duplicate only when its bytes were promoted (has_file_been_processed).
SkippedWasPromoted ==
  [][run.pc = "hash" /\ run'.pending = "SKIPPED_DUPLICATE"
       => \/ run.mode = "incremental" /\ run.before = run.batch
          \/ audit[run'.hash].status = "PROMOTED"]_vars
=============================================================================
