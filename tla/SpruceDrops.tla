----------------------------- MODULE SpruceDrops -----------------------------
(***************************************************************************)
(* One full-file entity of an ECI Spruce source: the dealer's deliveries,  *)
(* the connector that orders them by the generation stamp of the manifest, *)
(* and what it leaves in the store and in the staged file.                 *)
(*                                                                         *)
(* A run is EciSpruceConnector.extract around BaseConnector.extract: read  *)
(* the watermark of the mode, the manifest and the file's hash; absorb,    *)
(* refuse or validate; write; move the watermark; write the audit row.  A  *)
(* key scan is reconcile_deletes.  The process may die between two steps.  *)
(* A file's hash is its content; the tearing of the Parquet file itself is *)
(* in CsvPromotion.                                                        *)
(***************************************************************************)
EXTENDS Naturals

CONSTANTS Contents,   \* file contents
          Broken,     \* those with a bad header, a failed cast or a wrong row count
          Ids,        \* natural ids
          IdsIn,      \* [Contents -> ids that its key columns read as, broken or not;
                      \*  none where there is no row or a key does not cast]
          Manifests,  \* manifests the dealer may write
          Modes,      \* extraction modes used
          None,       \* no file, manifest, entry, watermark or verdict
          MaxDrops,   \* bound: whole deliveries
          MaxPieces,  \* bound: changes of the drop directory where copies are piecewise
          MaxCrashes  \* bound: process deaths

\* generated is the instant that the ISO-8601 stamp parses to; sha is None when
\* the manifest does not declare the file.
ASSUME SpruceAssumption ==
  /\ None \notin Contents /\ None \notin Manifests /\ None \notin Modes
  /\ Broken \subseteq Contents /\ IdsIn \in [Contents -> SUBSET Ids]
  /\ \A m \in Manifests : m.generated \in Nat \ {0} /\ m.sha \in Contents \cup {None}
  /\ Modes \subseteq {"backfill", "incremental"}
  /\ MaxDrops \in Nat /\ MaxPieces \in Nat /\ MaxCrashes \in Nat

VARIABLES file,        \* the entity's file in the drop directory
          manifest,    \* manifest.json
          whole,       \* whether file and manifest always change together, between runs
          drops,       \* changes of the drop directory
          watermark,   \* sync_state: [Modes -> manifest processed last]
          hashes,      \* file_audit: hashes with an audit row of any status
          quarantine,  \* manifests with a quarantine record
          staged,      \* the staged file: ids, and the batch written last and its mode
          tombstones,  \* ids recorded as deleted
          run,         \* the connector process
          sound,       \* history: the watermark never fell behind what it stands for
          crashes

drop == <<file, manifest, whole, drops>>
store == <<watermark, hashes, quarantine, tombstones>>
vars == <<drop, store, staged, run, sound, crashes>>

(***************************************************************************)
(* The dealer.                                                             *)
(***************************************************************************)
Idle == [pc |-> "idle", mode |-> None, before |-> None, stamp |-> None,
         hash |-> None, rows |-> None, pending |-> None]

CanDrop == drops < IF whole THEN MaxDrops ELSE MaxPieces

\* A delivery, or a copy that replaces the file or the manifest alone.
Deliver(m) ==
  /\ CanDrop /\ (whole => run = Idle)
  /\ manifest' = m /\ file' = m.sha
  /\ drops' = drops + 1
  /\ UNCHANGED <<whole, store, staged, run, sound, crashes>>

Copy(f, m) ==
  /\ CanDrop /\ ~whole
  /\ file' = f /\ manifest' = m
  /\ (f = file) # (m = manifest)
  /\ drops' = drops + 1
  /\ UNCHANGED <<whole, store, staged, run, sound, crashes>>

(***************************************************************************)
(* The extraction.                                                         *)
(***************************************************************************)
\* extract(): the watermark of this mode is read first.
Start(mode) ==
  /\ run.pc = "idle"
  /\ run' = [Idle EXCEPT !.pc = "manifest", !.mode = mode, !.before = watermark[mode]]
  /\ UNCHANGED <<drop, store, staged, sound, crashes>>

\* No manifest, or one that does not declare the file: an error, nothing recorded.
ReadManifest ==
  /\ run.pc = "manifest"
  /\ run' = IF manifest = None \/ manifest.sha = None THEN Idle
            ELSE [run EXCEPT !.pc = "hash", !.stamp = manifest]
  /\ UNCHANGED <<drop, store, staged, sound, crashes>>

\* _enforce_batch_order, against the watermark read at the start.
Regenerated(prior, m) == prior # None /\ prior.batch = m.batch
Stale(prior, m) ==
  prior # None /\ prior.batch # m.batch /\ m.generated <= prior.generated

\* Mutation: a batch that is older passes.
CheckUnordered ==
  /\ run.pc = "hash"
  /\ run' = [run EXCEPT !.hash = file, !.pending = IF file \in hashes THEN "SKIPPED_DUPLICATE" ELSE None,
               !.pc = IF file \in hashes THEN "checkpoint"
                 ELSE IF Regenerated(run.before, run.stamp) THEN "regenerated"
                 ELSE "validate"]
  /\ UNCHANGED <<drop, store, staged, sound, crashes>>

\* The gates before any row is read: bytes seen before are absorbed and the run
\* goes on without rows; a batch out of order is refused.
Check ==
  /\ run.pc = "hash"
  /\ run' = [run EXCEPT !.hash = file, !.pending = IF file \in hashes THEN "SKIPPED_DUPLICATE" ELSE None,
               !.pc = IF file \in hashes THEN "checkpoint"
                 ELSE IF Regenerated(run.before, run.stamp) THEN "regenerated"
                 ELSE IF Stale(run.before, run.stamp) THEN "stale"
                 ELSE "validate"]
  /\ UNCHANGED <<drop, store, staged, sound, crashes>>

\* Mutation: only a stale batch leaves a quarantine record.
RefuseStale ==
  /\ run.pc \in {"regenerated", "stale"}
  /\ quarantine' = IF run.pc = "stale" THEN quarantine \cup {run.stamp} ELSE quarantine
  /\ run' = Idle
  /\ UNCHANGED <<drop, watermark, hashes, tombstones, staged, sound, crashes>>

\* _refuse_manifest: the audit row is the manifest's own, not the file's.
Refuse ==
  /\ run.pc \in {"regenerated", "stale"}
  /\ quarantine' = quarantine \cup {run.stamp}
  /\ run' = Idle
  /\ UNCHANGED <<drop, watermark, hashes, tombstones, staged, sound, crashes>>

\* _validated_rows: the file is read again, against the manifest read before.
Verdict(f) ==
  IF f = None THEN "MISSING_FILE"
  ELSE IF f # run.stamp.sha THEN "CHECKSUM_MISMATCH"
  ELSE IF f \in Broken THEN "MALFORMED_FILE"
  ELSE "CLEAN"

\* Mutation: the watermark moves when the file is found clean.
ValidateCheckpoints ==
  /\ run.pc = "validate"
  /\ IF Verdict(file) = "CLEAN"
     THEN /\ run' = [run EXCEPT !.pc = "write", !.rows = IdsIn[file], !.pending = "PROMOTED"]
          /\ watermark' = [watermark EXCEPT ![run.mode] = run.stamp]
          /\ UNCHANGED quarantine
     ELSE /\ run' = [run EXCEPT !.pc = "audit", !.pending = "QUARANTINED"]
          /\ quarantine' = quarantine \cup {run.stamp}
          /\ UNCHANGED watermark
  /\ UNCHANGED <<drop, hashes, tombstones, staged, sound, crashes>>

Validate ==
  /\ run.pc = "validate"
  /\ IF Verdict(file) = "CLEAN"
     THEN /\ run' = [run EXCEPT !.pc = "write", !.rows = IdsIn[file], !.pending = "PROMOTED"]
          /\ UNCHANGED quarantine
     ELSE /\ run' = [run EXCEPT !.pc = "audit", !.pending = "QUARANTINED"]
          /\ quarantine' = quarantine \cup {run.stamp}
  /\ UNCHANGED <<drop, watermark, hashes, tombstones, staged, sound, crashes>>

\* A backfill replaces the staged rows, a delta is added; no rows, no file.
Write ==
  /\ run.pc = "write"
  /\ staged' = IF run.rows = {} THEN staged
               ELSE [batch |-> run.stamp, mode |-> run.mode,
                     ids |-> run.rows \cup (IF run.mode = "incremental" THEN staged.ids ELSE {})]
  /\ run' = [run EXCEPT !.pc = "checkpoint"]
  /\ UNCHANGED <<drop, store, sound, crashes>>

\* current_watermark: the manifest that this run read, absorbed or promoted.
Rewinds == watermark[run.mode] # None /\ run.stamp.generated < watermark[run.mode].generated
Checkpoint ==
  /\ run.pc = "checkpoint"
  /\ watermark' = [watermark EXCEPT ![run.mode] = run.stamp]
  /\ sound' = (sound /\ ~Rewinds)
  /\ run' = [run EXCEPT !.pc = "audit"]
  /\ UNCHANGED <<drop, hashes, quarantine, tombstones, staged, crashes>>

\* _flush_pending_audit: a missing file's row has the hash "unknown".
FlushAudit ==
  /\ run.pc = "audit"
  /\ hashes' = hashes \cup ({run.hash} \ {None})
  /\ run' = Idle
  /\ UNCHANGED <<drop, watermark, quarantine, tombstones, staged, sound, crashes>>

(***************************************************************************)
(* reconcile_deletes.                                                      *)
(***************************************************************************)
\* Mutation: the scan does not ask how old the drop is.
ScanUngated ==
  /\ run.pc = "idle" /\ "backfill" \in Modes
  /\ manifest # None /\ manifest.sha # None
  /\ run' = [Idle EXCEPT !.pc = "scan", !.stamp = manifest]
  /\ UNCHANGED <<drop, store, staged, sound, crashes>>

\* source_key_inventory asks the watermark of backfills; a stale drop is refused.
StartScan ==
  /\ run.pc = "idle" /\ "backfill" \in Modes
  /\ manifest # None /\ manifest.sha # None
  /\ run' = [Idle EXCEPT !.pc = IF Stale(watermark["backfill"], manifest) THEN "stale" ELSE "scan",
                         !.stamp = manifest]
  /\ UNCHANGED <<drop, store, staged, sound, crashes>>

\* The file's keys, and no other gate: neither its checksum nor its rows and other
\* columns are asked for.  A missing file, a key that does not cast and a file
\* without rows fail the scan.  Then the anti-join.
ScanKeys ==
  /\ run.pc = "scan"
  /\ tombstones' = IF file = None \/ IdsIn[file] = {} THEN tombstones
                   ELSE tombstones \cup (staged.ids \ IdsIn[file])
  /\ run' = Idle
  /\ UNCHANGED <<drop, watermark, hashes, quarantine, staged, sound, crashes>>

\* The process dies; between the write and the watermark that leaves the
\* watermark behind the file.
Crash ==
  /\ run # Idle /\ crashes < MaxCrashes
  /\ crashes' = crashes + 1
  /\ sound' = (sound /\ ~(run.pc = "checkpoint" /\ run.pending = "PROMOTED"))
  /\ run' = Idle
  /\ UNCHANGED <<drop, store, staged>>

Init ==
  /\ file = None /\ manifest = None /\ whole \in BOOLEAN /\ drops = 0
  /\ watermark = [m \in Modes |-> None]
  /\ hashes = {} /\ quarantine = {} /\ tombstones = {}
  /\ staged = [batch |-> None, mode |-> None, ids |-> {}]
  /\ run = Idle
  /\ sound = TRUE /\ crashes = 0

Step ==
  \/ ReadManifest \/ Check \/ Refuse \/ Validate \/ Write \/ Checkpoint
  \/ FlushAudit \/ ScanKeys

Next ==
  \/ \E m \in Manifests : Deliver(m)
  \/ \E f \in Contents \cup {None}, m \in Manifests \cup {None} : Copy(f, m)
  \/ \E mode \in Modes : Start(mode)
  \/ StartScan
  \/ Step
  \/ Crash

Spec == Init /\ [][Next]_vars
\* The schedule starts backfills; a run goes on.
FairSpec == Spec /\ WF_vars(Step) /\ SF_vars("backfill" \in Modes /\ Start("backfill"))

(***************************************************************************)
(* Properties.                                                             *)
(***************************************************************************)
\* The drop directory, the store and the process have their shape.
Fetched == Manifests \cup {None}
Runs == [pc: {"idle", "manifest", "hash", "regenerated", "stale", "validate", "write",
              "checkpoint", "audit", "scan"},
         mode: Modes \cup {None}, before: Fetched, stamp: Fetched,
         hash: Contents \cup {None}, rows: (SUBSET Ids) \cup {None},
         pending: {None, "SKIPPED_DUPLICATE", "QUARANTINED", "PROMOTED"}]
TypeOK ==
  /\ file \in Contents \cup {None} /\ manifest \in Fetched /\ whole \in BOOLEAN
  /\ drops \in Nat /\ crashes \in Nat /\ sound \in BOOLEAN
  /\ watermark \in [Modes -> Fetched]
  /\ hashes \subseteq Contents
  /\ quarantine \subseteq Manifests /\ tombstones \subseteq Ids
  /\ staged \in [batch: Fetched, mode: Modes \cup {None}, ids: SUBSET Ids]
  /\ run \in Runs

\* Report drift does not go backwards: while the watermark was never moved back
\* by an absorbed delivery nor left behind by a process death, what a mode writes
\* over its own rows is of a newer generation.
NeverOlder ==
  [][sound /\ staged.batch # None /\ staged' # staged /\ staged'.mode = staged.mode =>
       staged'.batch.generated > staged.batch.generated]_vars

\* "a stale drop must never tombstone newer warehouse state": the manifest a key
\* scan goes by is the batch staged by a backfill, a report of the same batch, or
\* a newer one; and where deliveries are whole, no id of the report that it declares
\* is tombstoned.  Of a file copied apart from its manifest this promises nothing.
StaleDropTombstonesNothing ==
  [][sound /\ staged.mode = "backfill" /\ tombstones' # tombstones =>
       /\ \/ run.stamp.generated > staged.batch.generated
          \/ run.stamp.batch = watermark["backfill"].batch
       /\ whole => (tombstones' \ tombstones) \cap IdsIn[run.stamp.sha] = {}]_vars

\* A whole delivery that is new and newer is staged in the end, unless another
\* delivery takes its place: refused files, absorbed files and process deaths do
\* not keep it out.
Fresh(m) ==
  /\ whole /\ manifest = m /\ file = m.sha /\ m.sha \in Contents \ (hashes \cup Broken)
  /\ IdsIn[m.sha] # {} /\ run = Idle
  /\ \A mode \in Modes : ~Regenerated(watermark[mode], m) /\ ~Stale(watermark[mode], m)
DeliveryLands ==
  \A m \in Manifests : Fresh(m) ~> (manifest # m \/ staged.batch = m)

\* "The quarantine record is the reconciliation flag": a new report under an id
\* already processed does not pass unnoticed, unless the other mode took it first.
RegeneratedIsFlagged ==
  \A m \in Manifests :
    (whole /\ run = Idle /\ manifest = m /\ m.sha \notin hashes /\ "backfill" \in Modes
       /\ Regenerated(watermark["backfill"], m))
      ~> (manifest # m \/ m \in quarantine \/ m.sha \in hashes)

\* "a delivery may never overwrite a newer generation": the staged file never
\* goes from one batch to an older one.
NeverOverwritesNewer ==
  [][staged.batch # None /\ staged' # staged =>
       staged'.batch.generated >= staged.batch.generated]_vars

\* The same of any drop: no scan tombstones an id of the report declared by the
\* manifest it went by.  A file that is still the one before, or cut short, does.
DeclaredIdsSurvive ==
  [][tombstones' # tombstones =>
       (tombstones' \ tombstones) \cap IdsIn[run.stamp.sha] = {}]_vars
=============================================================================
