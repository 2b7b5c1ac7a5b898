-------------------------- MODULE SpruceDropsProofs --------------------------
(***************************************************************************)
(* Proofs about SpruceDrops, for any contents, manifests, modes and        *)
(* bounds: its shape, that what is staged grows newer, and that a stale    *)
(* drop tombstones nothing.                                                *)
(***************************************************************************)
EXTENDS SpruceDrops, TLAPS

(***************************************************************************)
(* The inductive invariant.                                                *)
(***************************************************************************)
\* What a run in the middle knows: its mode, its manifest, that nobody else moved
\* the watermark it read, and that past the gates its manifest is newer.
RunKnows ==
  /\ run.pc \in {"manifest", "hash", "validate", "write", "checkpoint"} => run.mode \in Modes
  /\ run.pc \in {"hash", "regenerated", "stale", "validate", "write", "checkpoint", "scan"} =>
       run.stamp \in Manifests
  /\ run.pc = "audit" /\ run.pending = "QUARANTINED" => run.stamp \in Manifests
  /\ run.pc \in {"manifest", "hash", "validate", "write"} => run.before = watermark[run.mode]
  /\ run.pc \in {"validate", "write"} /\ run.before # None =>
       run.before.generated < run.stamp.generated
  /\ run.pc = "write" => run.rows \in SUBSET Ids /\ run.pending = "PROMOTED"
  /\ run.pc = "scan" => "backfill" \in Modes /\ ~Stale(watermark["backfill"], run.stamp)

\* A staged batch has a mode; it is at most as new as that mode's watermark, or
\* the run that wrote it is about to move the watermark to it.
Covered(batch, mode) ==
  \/ watermark[mode] # None /\ batch.generated <= watermark[mode].generated
  \/ /\ run.pc = "checkpoint" /\ run.pending = "PROMOTED"
     /\ run.mode = mode /\ run.stamp = batch
StagedIsCovered ==
  /\ staged.batch = None <=> staged.mode = None
  /\ staged.batch = None => staged.ids = {}
  /\ sound /\ staged.batch # None => Covered(staged.batch, staged.mode)


\* Whole deliveries keep file and manifest together, and a scan finds them so.
DropIsWhole ==
  whole => /\ manifest # None => file = manifest.sha
           /\ run.pc = "scan" => run.stamp = manifest

IInv == TypeOK /\ RunKnows /\ StagedIsCovered /\ DropIsWhole

LEMMA InitInv == Init => IInv
<1> SUFFICES ASSUME Init PROVE IInv
  OBVIOUS
<1> USE SpruceAssumption DEF Init, Idle
<1>1. TypeOK
  BY DEF TypeOK, Runs, Fetched
<1>2. RunKnows
  BY DEF RunKnows
<1>3. StagedIsCovered
  BY DEF StagedIsCovered
<1>4. DropIsWhole
  BY DEF DropIsWhole
<1> QED
  BY <1>1, <1>2, <1>3, <1>4 DEF IInv

\* A file found clean is there.
LEMMA CleanIsContent ==
  ASSUME file \in Contents \cup {None}, Verdict(file) = "CLEAN" PROVE file \in Contents
<1> SUFFICES ASSUME file = None PROVE FALSE
  OBVIOUS
<1>1. Verdict(file) = "MISSING_FILE"
  BY DEF Verdict
<1> QED
  BY <1>1

\* Where the gates send a run.
Gates == {"checkpoint", "regenerated", "stale", "validate"}
LEMMA CheckedRun ==
  ASSUME NEW f \in Contents \cup {None}, NEW pending \in {None, "SKIPPED_DUPLICATE"},
         NEW pc \in Gates, run \in Runs
  PROVE  [run EXCEPT !.hash = f, !.pending = pending, !.pc = pc] \in Runs
BY DEF Runs, Gates

LEMMA CheckEnds ==
  ASSUME Check
  PROVE  \E pc \in Gates :
           /\ run' = [run EXCEPT !.hash = file,
                        !.pending = IF file \in hashes THEN "SKIPPED_DUPLICATE" ELSE None, !.pc = pc]
           /\ pc = "validate" => ~Regenerated(run.before, run.stamp) /\ ~Stale(run.before, run.stamp)
<1> DEFINE pc == IF file \in hashes THEN "checkpoint"
                 ELSE IF Regenerated(run.before, run.stamp) THEN "regenerated"
                 ELSE IF Stale(run.before, run.stamp) THEN "stale"
                 ELSE "validate"
<1>1. pc \in Gates
  BY DEF Gates
<1>2. pc = "validate" => ~Regenerated(run.before, run.stamp) /\ ~Stale(run.before, run.stamp)
  OBVIOUS
<1>3. run' = [run EXCEPT !.hash = file, !.pending = IF file \in hashes THEN "SKIPPED_DUPLICATE" ELSE None,
                !.pc = pc]
  BY Zenon DEF Check
<1> HIDE DEF pc
<1> QED
  BY <1>1, <1>2, <1>3

(***************************************************************************)
(* Every step keeps the shape.                                             *)
(***************************************************************************)
LEMMA TypeStep == IInv /\ [Next]_vars => TypeOK'
<1> SUFFICES ASSUME IInv, [Next]_vars PROVE TypeOK'
  OBVIOUS
<1> USE SpruceAssumption DEF IInv, TypeOK, Runs, Fetched
<1>1. ASSUME NEW m \in Manifests, Deliver(m) PROVE TypeOK'
  BY <1>1 DEF Deliver, store
<1>2. ASSUME NEW f \in Contents \cup {None}, NEW m \in Manifests \cup {None}, Copy(f, m)
      PROVE TypeOK'
  BY <1>2 DEF Copy, store
<1>3. ASSUME NEW mode \in Modes, Start(mode) PROVE TypeOK'
  BY <1>3 DEF Start, Idle, drop, store
<1>4. CASE StartScan
  BY <1>4 DEF StartScan, Idle, drop, store
<1>5. CASE ReadManifest
  BY <1>5 DEF ReadManifest, Idle, drop, store
<1>6. CASE Check
  <2>1. PICK pc \in Gates : run' = [run EXCEPT !.hash = file,
                  !.pending = IF file \in hashes THEN "SKIPPED_DUPLICATE" ELSE None, !.pc = pc]
    BY <1>6, CheckEnds
  <2>2. run' \in Runs
    <3> DEFINE pending == IF file \in hashes THEN "SKIPPED_DUPLICATE" ELSE None
    <3>1. pending \in {None, "SKIPPED_DUPLICATE"} /\ file \in Contents \cup {None}
      OBVIOUS
    <3>2. run \in Runs
      OBVIOUS
    <3>3. run' = [run EXCEPT !.hash = file, !.pending = pending, !.pc = pc]
      BY <2>1
    <3> HIDE DEF pending, Runs
    <3> QED
      BY <3>1, <3>2, <3>3, CheckedRun
  <2> QED
    BY <1>6, <2>2 DEF Check, drop, store
<1>7. CASE Refuse
  BY <1>7 DEF Refuse, RunKnows, Idle, drop
<1>8. CASE Validate
  <2>1. CASE Verdict(file) = "CLEAN"
    <3>1. file \in Contents
      BY <2>1, CleanIsContent
    <3>2. run' = [run EXCEPT !.pc = "write", !.rows = IdsIn[file], !.pending = "PROMOTED"]
      BY <1>8, <2>1 DEF Validate
    <3>3. run' \in Runs
      BY <3>1, <3>2
    <3> QED
      BY <1>8, <2>1, <3>3 DEF Validate, drop
  <2>2. CASE Verdict(file) # "CLEAN"
    <3>1. run' = [run EXCEPT !.pc = "audit", !.pending = "QUARANTINED"] /\ run.stamp \in Manifests
          /\ quarantine' = quarantine \cup {run.stamp}
      BY <1>8, <2>2 DEF Validate, RunKnows
    <3> QED
      BY <1>8, <3>1 DEF Validate, drop
  <2> QED
    BY <2>1, <2>2
<1>9. CASE Write
  BY <1>9 DEF Write, RunKnows, drop, store
<1>10. CASE Checkpoint
  BY <1>10 DEF Checkpoint, RunKnows, Rewinds, drop
<1>11. CASE FlushAudit
  BY <1>11 DEF FlushAudit, Idle, drop
<1>12. CASE ScanKeys
  BY <1>12 DEF ScanKeys, Idle, drop
<1>13. CASE Crash
  BY <1>13 DEF Crash, Idle, drop, store
<1>14. CASE UNCHANGED vars
  BY <1>14 DEF vars, drop, store
<1> QED
  BY <1>1, <1>2, <1>3, <1>4, <1>5, <1>6, <1>7, <1>8, <1>9, <1>10, <1>11, <1>12, <1>13, <1>14
  DEF Next, Step

(***************************************************************************)
(* A run keeps what it knows: only its own checkpoint moves a watermark.   *)
(***************************************************************************)
LEMMA KnowsStep == IInv /\ [Next]_vars => RunKnows'
<1> SUFFICES ASSUME IInv, [Next]_vars PROVE RunKnows'
  OBVIOUS
<1> USE SpruceAssumption DEF IInv, TypeOK, Runs, Fetched, RunKnows
<1>1. ASSUME NEW m \in Manifests, Deliver(m) PROVE RunKnows'
  BY <1>1 DEF Deliver, store, Stale
<1>2. ASSUME NEW f \in Contents \cup {None}, NEW m \in Manifests \cup {None}, Copy(f, m)
      PROVE RunKnows'
  BY <1>2 DEF Copy, store, Stale
<1>3. ASSUME NEW mode \in Modes, Start(mode) PROVE RunKnows'
  BY <1>3 DEF Start, Idle, drop, store
<1>4. CASE StartScan
  BY <1>4 DEF StartScan, Idle, drop, store, Stale
<1>5. CASE ReadManifest
  BY <1>5 DEF ReadManifest, Idle, drop, store
<1>6. CASE Check
  <2>1. run.before # None /\ ~Regenerated(run.before, run.stamp) /\ ~Stale(run.before, run.stamp)
          => run.before.generated < run.stamp.generated
    BY <1>6 DEF Check, Regenerated, Stale
  <2> QED
    BY <1>6, <2>1 DEF Check, drop, store
<1>7. CASE Refuse
  BY <1>7 DEF Refuse, Idle, drop
<1>8. CASE Validate
  <2>1. CASE Verdict(file) = "CLEAN"
    <3>1. file \in Contents
      BY <2>1, CleanIsContent
    <3>2. run' = [run EXCEPT !.pc = "write", !.rows = IdsIn[file], !.pending = "PROMOTED"]
      BY <1>8, <2>1 DEF Validate
    <3> QED
      BY <1>8, <3>1, <3>2 DEF Validate, drop
  <2>2. CASE Verdict(file) # "CLEAN"
    <3>1. run' = [run EXCEPT !.pc = "audit", !.pending = "QUARANTINED"]
      BY <1>8, <2>2 DEF Validate
    <3> QED
      BY <1>8, <3>1 DEF Validate, drop
  <2> QED
    BY <2>1, <2>2
<1>9. CASE Write
  BY <1>9 DEF Write, drop, store
<1>10. CASE Checkpoint
  BY <1>10 DEF Checkpoint, drop
<1>11. CASE FlushAudit
  BY <1>11 DEF FlushAudit, Idle, drop
<1>12. CASE ScanKeys
  BY <1>12 DEF ScanKeys, Idle, drop
<1>13. CASE Crash
  BY <1>13 DEF Crash, Idle, drop, store
<1>14. CASE UNCHANGED vars
  BY <1>14 DEF vars, drop, store, Stale
<1> QED
  BY <1>1, <1>2, <1>3, <1>4, <1>5, <1>6, <1>7, <1>8, <1>9, <1>10, <1>11, <1>12, <1>13, <1>14
  DEF Next, Step

(***************************************************************************)
(* The watermark stays at or ahead of what is staged.                      *)
(***************************************************************************)
LEMMA CoveredStep == IInv /\ [Next]_vars => StagedIsCovered'
<1> SUFFICES ASSUME IInv, [Next]_vars PROVE StagedIsCovered'
  OBVIOUS
<1> USE SpruceAssumption DEF IInv, TypeOK, Runs, Fetched, RunKnows, StagedIsCovered, Covered
<1>1. ASSUME NEW m \in Manifests, Deliver(m) PROVE StagedIsCovered'
  BY <1>1 DEF Deliver, store
<1>2. ASSUME NEW f \in Contents \cup {None}, NEW m \in Manifests \cup {None}, Copy(f, m)
      PROVE StagedIsCovered'
  BY <1>2 DEF Copy, store
<1>3. ASSUME NEW mode \in Modes, Start(mode) PROVE StagedIsCovered'
  BY <1>3 DEF Start, Idle, drop, store
<1>4. CASE StartScan
  BY <1>4 DEF StartScan, Idle, drop, store
<1>5. CASE ReadManifest
  BY <1>5 DEF ReadManifest, Idle, drop, store
<1>6. CASE Check
  BY <1>6 DEF Check, drop, store
<1>7. CASE Refuse
  BY <1>7 DEF Refuse, Idle, drop
<1>8. CASE Validate
  BY <1>8 DEF Validate, drop
<1>9. CASE Write
  BY <1>9 DEF Write, drop, store
<1>10. CASE Checkpoint
  <2>1. run.mode \in Modes /\ run.stamp \in Manifests /\ staged' = staged
        /\ watermark' = [watermark EXCEPT ![run.mode] = run.stamp]
        /\ sound' = (sound /\ ~Rewinds)
    BY <1>10 DEF Checkpoint
  <2>2. ASSUME sound', staged.batch # None PROVE Covered(staged.batch, staged.mode)'
    <3>1. Covered(staged.batch, staged.mode) /\ ~Rewinds /\ staged.mode \in Modes
      BY <2>1, <2>2
    <3>2. CASE staged.mode # run.mode
      BY <2>1, <3>1, <3>2
    <3>3. CASE staged.mode = run.mode
      <4>1. watermark'[staged.mode] = run.stamp
        BY <2>1, <3>3
      <4>2. staged.batch \in Manifests
        BY <2>2
      <4>3. staged.batch.generated <= run.stamp.generated
        <5>1. CASE watermark[run.mode] # None
          <6>1. watermark[run.mode] \in Manifests
            BY <2>1, <5>1
          <6> QED
            BY <2>1, <3>1, <3>3, <4>2, <5>1, <6>1 DEF Rewinds
        <5>2. CASE watermark[run.mode] = None
          BY <3>1, <3>3, <5>2
        <5> QED
          BY <5>1, <5>2
      <4> QED
        BY <2>1, <4>1, <4>3
    <3> QED
      BY <3>2, <3>3
  <2> QED
    BY <2>1, <2>2
<1>11. CASE FlushAudit
  BY <1>11 DEF FlushAudit, Idle, drop
<1>12. CASE ScanKeys
  BY <1>12 DEF ScanKeys, Idle, drop
<1>13. CASE Crash
  BY <1>13 DEF Crash, Idle, drop, store
<1>14. CASE UNCHANGED vars
  BY <1>14 DEF vars, drop, store
<1> QED
  BY <1>1, <1>2, <1>3, <1>4, <1>5, <1>6, <1>7, <1>8, <1>9, <1>10, <1>11, <1>12, <1>13, <1>14
  DEF Next, Step

\* The dealer waits for the run; the connector leaves the drop alone.
LEMMA WholeStep == IInv /\ [Next]_vars => DropIsWhole'
<1> SUFFICES ASSUME IInv, [Next]_vars PROVE DropIsWhole'
  OBVIOUS
<1> USE SpruceAssumption DEF DropIsWhole, Idle
<1>1. DropIsWhole
  BY DEF IInv
<1>2. ASSUME NEW m \in Manifests, Deliver(m) PROVE DropIsWhole'
  BY <1>2 DEF Deliver
<1>3. ASSUME NEW f \in Contents \cup {None}, NEW m \in Manifests \cup {None}, Copy(f, m)
      PROVE DropIsWhole'
  BY <1>3 DEF Copy
<1>4. CASE StartScan
  BY <1>1, <1>4 DEF StartScan, drop
<1>5. CASE Check
  <2>1. PICK pc \in Gates : run'.pc = pc
    <3>1. PICK pc \in Gates : run' = [run EXCEPT !.hash = file,
                    !.pending = IF file \in hashes THEN "SKIPPED_DUPLICATE" ELSE None, !.pc = pc]
      BY <1>5, CheckEnds
    <3>2. run \in Runs
      BY DEF IInv, TypeOK
    <3> QED
      BY <3>1, <3>2 DEF Runs
  <2>2. run'.pc # "scan"
    BY <2>1 DEF Gates
  <2> QED
    BY <1>1, <1>5, <2>2 DEF Check, drop
<1>6. CASE ReadManifest \/ Refuse \/ Validate \/ Write \/ Checkpoint \/ FlushAudit \/ ScanKeys
  <2>1. UNCHANGED drop
    BY <1>6 DEF ReadManifest, Refuse, Validate, Write, Checkpoint, FlushAudit, ScanKeys, drop
  <2>2. run'.pc # "scan"
    <3>1. run \in Runs
      BY DEF IInv, TypeOK
    <3>2. CASE ReadManifest
      BY <3>1, <3>2 DEF ReadManifest, Runs
    <3>3. CASE Validate
      BY <3>1, <3>3 DEF Validate, Runs
    <3>4. CASE Write \/ Checkpoint
      BY <3>1, <3>4 DEF Write, Checkpoint, Runs
    <3>5. CASE Refuse \/ FlushAudit \/ ScanKeys
      BY <3>5 DEF Refuse, FlushAudit, ScanKeys
    <3> QED
      BY <1>6, <3>2, <3>3, <3>4, <3>5
  <2> QED
    BY <1>1, <2>1, <2>2 DEF drop
<1>7. ASSUME NEW mode \in Modes, Start(mode) PROVE DropIsWhole'
  BY <1>1, <1>7 DEF Start, drop
<1>8. CASE Crash
  BY <1>1, <1>8 DEF Crash, drop
<1>9. CASE UNCHANGED vars
  BY <1>1, <1>9 DEF vars, drop
<1> QED
  BY <1>2, <1>3, <1>4, <1>5, <1>6, <1>7, <1>8, <1>9 DEF Next, Step

LEMMA Invariance == Spec => []IInv
<1>1. IInv /\ [Next]_vars => IInv'
  BY TypeStep, KnowsStep, CoveredStep, WholeStep DEF IInv
<1> QED
  BY InitInv, <1>1, PTL DEF Spec

(***************************************************************************)
(* The theorems.                                                           *)
(***************************************************************************)
\* The drop directory, the store and the process always have their shape.
THEOREM SpruceTypeCorrect == Spec => []TypeOK
<1>1. IInv => TypeOK
  BY DEF IInv
<1> QED
  BY Invariance, <1>1, PTL

\* Only Write changes the staged file, and its manifest is newer than the
\* watermark that covers what is there.
LEMMA WriteIsNewer ==
  ASSUME IInv, Next, sound, staged.batch # None, staged' # staged, staged'.mode = staged.mode
  PROVE  staged'.batch.generated > staged.batch.generated
<1> USE SpruceAssumption DEF IInv, TypeOK, Runs, Fetched
<1>1. Write
  BY DEF Next, Step, Deliver, Copy, Start, StartScan, ReadManifest, Check, Refuse, Validate,
         Checkpoint, FlushAudit, ScanKeys, Crash
<1>2. staged'.batch = run.stamp /\ staged'.mode = run.mode /\ run.pc = "write"
  BY <1>1 DEF Write
<1>3. watermark[run.mode] # None /\ staged.batch.generated <= watermark[run.mode].generated
  BY <1>2 DEF StagedIsCovered, Covered
<1>4. run.before = watermark[run.mode] /\ run.before.generated < run.stamp.generated
      /\ run.stamp \in Manifests /\ run.mode \in Modes
  BY <1>2, <1>3 DEF RunKnows
<1>5. staged.batch \in Manifests /\ watermark[run.mode] \in Manifests
  BY <1>3, <1>4
<1> QED
  BY <1>2, <1>3, <1>4, <1>5

\* While the watermark was never moved back or left behind, a mode replaces its
\* rows by rows of a newer generation only.
THEOREM SpruceGrowsNewer == Spec => NeverOlder
<1>1. IInv /\ [Next]_vars =>
        [sound /\ staged.batch # None /\ staged' # staged /\ staged'.mode = staged.mode =>
           staged'.batch.generated > staged.batch.generated]_vars
  BY WriteIsNewer
<1> QED
  BY Invariance, <1>1, PTL DEF Spec, NeverOlder

\* Only ScanKeys records tombstones, and its manifest passed the gate against the
\* watermark that covers what is staged.
LEMMA ScanIsNotStale ==
  ASSUME IInv, Next, sound, staged.mode = "backfill", tombstones' # tombstones
  PROVE  /\ \/ run.stamp.generated > staged.batch.generated
            \/ run.stamp.batch = watermark["backfill"].batch
         /\ whole => (tombstones' \ tombstones) \cap IdsIn[run.stamp.sha] = {}
<1> USE SpruceAssumption DEF IInv, TypeOK, Runs, Fetched
<1>1. ScanKeys
  BY DEF Next, Step, Deliver, Copy, Start, StartScan, ReadManifest, Check, Refuse, Validate,
         Write, Checkpoint, FlushAudit, Crash, store
<1>2. run.pc = "scan" /\ run.stamp \in Manifests /\ "backfill" \in Modes
      /\ ~Stale(watermark["backfill"], run.stamp)
  BY <1>1 DEF ScanKeys, RunKnows
<1>3. staged.batch # None /\ staged.batch \in Manifests
  BY <1>2 DEF StagedIsCovered
<1>4. watermark["backfill"] \in Manifests
      /\ staged.batch.generated <= watermark["backfill"].generated
  BY <1>2, <1>3 DEF StagedIsCovered, Covered
<1>5. run.stamp.generated > staged.batch.generated \/ run.stamp.batch = watermark["backfill"].batch
  BY <1>2, <1>3, <1>4 DEF Stale
<1>6. ASSUME whole PROVE (tombstones' \ tombstones) \cap IdsIn[run.stamp.sha] = {}
  <2>1. file = run.stamp.sha /\ run.stamp # None
    BY <1>2, <1>6 DEF DropIsWhole
  <2>2. tombstones' \ tombstones \subseteq staged.ids \ IdsIn[file]
    BY <1>1 DEF ScanKeys
  <2> QED
    BY <2>1, <2>2
<1> QED
  BY <1>5, <1>6

\* A key scan never goes by a manifest older than what a backfill staged, and while
\* deliveries are whole it tombstones no id of the report it goes by.
THEOREM SpruceStaleDropTombstonesNothing == Spec => StaleDropTombstonesNothing
<1>1. IInv /\ [Next]_vars =>
        [sound /\ staged.mode = "backfill" /\ tombstones' # tombstones =>
           /\ \/ run.stamp.generated > staged.batch.generated
              \/ run.stamp.batch = watermark["backfill"].batch
           /\ whole => (tombstones' \ tombstones) \cap IdsIn[run.stamp.sha] = {}]_vars
  BY ScanIsNotStale
<1> QED
  BY Invariance, <1>1, PTL DEF Spec, StaleDropTombstonesNothing
=============================================================================
