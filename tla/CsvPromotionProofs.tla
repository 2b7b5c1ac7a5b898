------------------------- MODULE CsvPromotionProofs -------------------------
(***************************************************************************)
(* The promotion promises of CsvPromotion for every number of entities,    *)
(* contents, batches, drops and crashes.                                   *)
(***************************************************************************)
EXTENDS CsvPromotion, TLAPS

ConnectorStep ==
  ReadManifest \/ CheckDuplicate \/ Validate \/ BeginWrite \/ EndWrite \/ Merge
    \/ Checkpoint \/ FlushAudit

\* Every disjunct of Next is one of these.
LEMMA NextCases ==
  ASSUME Next
  PROVE  \/ \E e \in Entities, mode \in Modes : Start(e, mode)
         \/ ConnectorStep
         \/ \E e \in Entities, f \in Contents \cup {None} : DropFile(e, f)
         \/ \E b \in Batches, e \in Entities, f \in Contents, n \in 0 .. 1 :
              DropManifest(b, e, Describes(f, Rows[f] + n))
         \/ \E b \in Batches, e \in Entities : DropManifest(b, e, None)
         \/ \E b \in Batches, f \in Contents : Deliver(b, SchemaOf[f], f)
         \/ Crash
BY DEF Next, Extract, PiecewiseDrop, WholeDrop, ConnectorStep

\* What a manifest says about an entity is a declaration or nothing.
LEMMA EntryType ==
  ASSUME TypeOK, NEW e \in Entities
  PROVE  EntryFor(e) \in Declared \cup {None}
BY DEF TypeOK, EntryFor, Manifest

\* A drop changes only the drop directory, and keeps its shape.
LEMMA DropsKeepType ==
  ASSUME TypeOK
  PROVE  /\ \A e \in Entities, f \in Contents \cup {None} : DropFile(e, f) => TypeOK'
         /\ \A b \in Batches, e \in Entities, entry \in Declared \cup {None} :
              DropManifest(b, e, entry) => TypeOK'
         /\ \A b \in Batches, f \in Contents : Deliver(b, SchemaOf[f], f) => TypeOK'
<1>1. ASSUME NEW e \in Entities, NEW f \in Contents \cup {None}, DropFile(e, f) PROVE TypeOK'
  BY <1>1 DEF TypeOK, DropFile, store, RunOK
<1>2. ASSUME NEW b \in Batches, NEW e \in Entities, NEW entry \in Declared \cup {None},
             DropManifest(b, e, entry)
      PROVE  TypeOK'
  <2>1. manifest' \in Manifest
    BY <1>2, EntryType DEF DropManifest, Manifest
  <2> QED BY <1>2, <2>1 DEF TypeOK, DropManifest, store, RunOK
<1>3. ASSUME NEW b \in Batches, NEW f \in Contents, Deliver(b, SchemaOf[f], f) PROVE TypeOK'
  <2>1. SchemaOf[f] \in Entities /\ Describes(f, Rows[f]) \in Declared
    BY CsvAssumption DEF Describes, Declared
  <2>2. manifest' \in Manifest
    BY <1>3, <2>1, EntryType DEF Deliver, Manifest
  <2> QED BY <1>3, <2>1, <2>2 DEF TypeOK, Deliver, store, RunOK
<1> QED BY <1>1, <1>2, <1>3

\* A run that has ended holds nothing.
LEMMA IdleOK == ASSUME run' = Idle PROVE RunOK'
<1>1. Idle \in Process BY DEF Idle, Process, Stages
<1> QED BY <1>1, CsvAssumption DEF RunOK, Idle, Statuses

\* The stages in order: every step leaves the process with what the next needs.
LEMMA StepsKeepType ==
  ASSUME TypeOK, ConnectorStep
  PROVE  TypeOK'
<1> USE CsvAssumption
<1>1. CASE ReadManifest
  <2>1. run.entity \in Entities BY <1>1 DEF TypeOK, RunOK, ReadManifest
  <2>2. EntryFor(run.entity) # None =>
          EntryFor(run.entity) \in Declared /\ manifest.batch \in Batches
    BY <2>1, EntryType DEF EntryFor, TypeOK, Manifest
  <2>3. CASE EntryFor(run.entity) = None
    <3>1. run' = Idle BY <1>1, <2>3 DEF ReadManifest, End
    <3> QED BY <1>1, <3>1, IdleOK DEF TypeOK, ReadManifest, drop, store
  <2>4. CASE EntryFor(run.entity) # None
    <3>1. run' = [run EXCEPT !.pc = "hash", !.batch = manifest.batch,
                             !.entry = EntryFor(run.entity)]
      BY <1>1, <2>4 DEF ReadManifest
    <3>2. RunOK' BY <1>1, <2>2, <2>4, <3>1 DEF TypeOK, RunOK, ReadManifest, Process, Stages
    <3> QED BY <1>1, <3>2 DEF TypeOK, ReadManifest, drop, store
  <2> QED BY <2>3, <2>4
<1>2. CASE CheckDuplicate
  <2> DEFINE f == files[run.entity]
  <2>1. f \in Contents \cup {None} BY <1>2 DEF TypeOK, RunOK, CheckDuplicate
  <2>2. \/ run' = [run EXCEPT !.pc = "checkpoint", !.hash = f, !.pending = "SKIPPED_DUPLICATE"]
        \/ run' = [run EXCEPT !.pc = "validate", !.hash = f]
    BY <1>2 DEF CheckDuplicate
  <2>3. RunOK'
    <3>1. CASE run' = [run EXCEPT !.pc = "checkpoint", !.hash = f,
                                  !.pending = "SKIPPED_DUPLICATE"]
      BY <1>2, <2>1, <3>1 DEF TypeOK, RunOK, CheckDuplicate, Stages, Process, Statuses
    <3>2. CASE run' = [run EXCEPT !.pc = "validate", !.hash = f]
      BY <1>2, <2>1, <3>2 DEF TypeOK, RunOK, CheckDuplicate, Stages, Process
    <3> QED BY <2>2, <3>1, <3>2
  <2> QED BY <1>2, <2>3 DEF TypeOK, CheckDuplicate, drop, store
<1>3. CASE Validate
  <2> DEFINE f == files[run.entity]
  <2>1. run.entity \in Entities /\ run.batch \in Batches /\ f \in Contents \cup {None}
    BY <1>3 DEF TypeOK, RunOK, Validate
  <2>2. CASE Verdict(f) = "CLEAN"
    <3>1. f \in Contents BY <2>1, <2>2 DEF Verdict
    <3>2. /\ UNCHANGED quarantine
          /\ \/ run' = [run EXCEPT !.pc = "write", !.file = f, !.pending = "PROMOTED"]
             \/ run' = [run EXCEPT !.pc = "checkpoint", !.file = f, !.pending = "PROMOTED"]
      BY <1>3, <2>2 DEF Validate
    <3>3. RunOK'
      <4>1. CASE run' = [run EXCEPT !.pc = "write", !.file = f, !.pending = "PROMOTED"]
        BY <1>3, <3>1, <4>1 DEF TypeOK, RunOK, Validate, Stages, Process, Statuses
      <4>2. CASE run' = [run EXCEPT !.pc = "checkpoint", !.file = f, !.pending = "PROMOTED"]
        BY <1>3, <3>1, <4>2 DEF TypeOK, RunOK, Validate, Stages, Process, Statuses
      <4> QED BY <3>2, <4>1, <4>2
    <3> QED BY <1>3, <3>2, <3>3 DEF TypeOK, Validate, drop
  <2>3. CASE Verdict(f) # "CLEAN"
    <3>1. Verdict(f) \in Reasons BY <2>3 DEF Verdict, Reasons
    <3>2. /\ quarantine' = quarantine \cup
               {[entity |-> run.entity, batch |-> run.batch, reason |-> Verdict(f)]}
          /\ run' = [run EXCEPT !.pc = "quarantined", !.pending = "QUARANTINED"]
      BY <1>3, <2>3 DEF Validate
    <3>3. RunOK'
      BY <1>3, <3>2 DEF TypeOK, RunOK, Validate, Stages, Process, Statuses
    <3>4. quarantine' \subseteq [entity: Entities, batch: Batches, reason: Reasons]
      BY <2>1, <3>1, <3>2 DEF TypeOK
    <3> QED BY <1>3, <3>3, <3>4 DEF TypeOK, Validate, drop
  <2> QED BY <2>2, <2>3
<1>4. CASE BeginWrite
  <2>1. RunOK' BY <1>4 DEF TypeOK, RunOK, BeginWrite, Goto, Stages, Process
  <2>2. table' \in [Entities -> Table]
    <3>1. Torn \in Table BY DEF Torn, Table
    <3> QED BY <1>4, <3>1 DEF TypeOK, BeginWrite
  <2> QED BY <1>4, <2>1, <2>2 DEF TypeOK, BeginWrite, drop, store
<1>5. CASE EndWrite
  <2>1. RunOK' BY <1>5 DEF TypeOK, RunOK, EndWrite, Goto, Stages, Process, Statuses
  <2>2. Part \in StagedPart
    BY <1>5 DEF TypeOK, RunOK, EndWrite, Part, StagedPart, Stages
  <2>3. table' \in [Entities -> Table]
    <3>1. [parts |-> <<Part>>, readable |-> TRUE] \in Table BY <2>2 DEF Table
    <3> QED BY <1>5, <3>1 DEF TypeOK, EndWrite
  <2> QED BY <1>5, <2>1, <2>3 DEF TypeOK, EndWrite, drop, store
<1>6. CASE Merge
  <2>1. Part \in StagedPart /\ run.entity \in Entities
    BY <1>6 DEF TypeOK, RunOK, Merge, Part, StagedPart
  <2>2. CASE table[run.entity].readable
    <3>1. /\ table' = [table EXCEPT ![run.entity].parts = Append(@, Part)]
          /\ run' = [run EXCEPT !.pc = "checkpoint"]
      BY <1>6, <2>2 DEF Merge, Goto
    <3>2. table[run.entity] \in Table BY <2>1 DEF TypeOK
    <3>3. Append(table[run.entity].parts, Part) \in Seq(StagedPart)
      BY <2>1, <3>2 DEF Table
    <3>4. [table[run.entity] EXCEPT !.parts = Append(@, Part)] \in Table
      BY <3>2, <3>3 DEF Table
    <3>5. table' \in [Entities -> Table]
      BY <3>1, <3>4 DEF TypeOK
    <3>6. RunOK' BY <1>6, <3>1 DEF TypeOK, RunOK, Merge, Process, Stages, Statuses
    <3> QED BY <1>6, <3>5, <3>6 DEF TypeOK, Merge, drop, store
  <2>3. CASE ~table[run.entity].readable
    <3>1. run' = Idle /\ UNCHANGED table BY <1>6, <2>3 DEF Merge, End
    <3> QED BY <1>6, <3>1, IdleOK DEF TypeOK, Merge, drop, store
  <2> QED BY <2>2, <2>3
<1>7. CASE Checkpoint
  <2>1. RunOK' BY <1>7 DEF TypeOK, RunOK, Checkpoint, Goto, Stages, Process, Statuses
  <2>2. watermark' \in [Entities -> [Modes -> Batches \cup {None}]]
    BY <1>7 DEF TypeOK, RunOK, Checkpoint, Stages
  <2> QED BY <1>7, <2>1, <2>2 DEF TypeOK, Checkpoint, drop
<1>8. CASE FlushAudit
  <2>1. RunOK' BY <1>8, IdleOK DEF FlushAudit, End
  <2>2. /\ run.hash \in Contents \cup {None}
        /\ AuditOf(run) \in AuditRow
    BY <1>8 DEF TypeOK, RunOK, FlushAudit, Process, AuditRow, AuditOf
  <2>3. audit' \in [Contents \cup {"unknown"} -> AuditRow \cup {None}]
    BY <1>8, <2>2 DEF TypeOK, FlushAudit
  <2> QED BY <1>8, <2>1, <2>3 DEF TypeOK, FlushAudit, drop
<1> QED BY <1>1, <1>2, <1>3, <1>4, <1>5, <1>6, <1>7, <1>8 DEF ConnectorStep

\* A run that starts or dies, and a step that changes nothing.
LEMMA ScheduleKeepsType ==
  ASSUME TypeOK
  PROVE  /\ \A e \in Entities, mode \in Modes : Start(e, mode) => TypeOK'
         /\ Crash => TypeOK'
         /\ UNCHANGED vars => TypeOK'
<1> USE CsvAssumption
<1>1. ASSUME NEW e \in Entities, NEW mode \in Modes, Start(e, mode) PROVE TypeOK'
  <2>1. watermark[e][mode] \in Batches \cup {None}
    <3>1. watermark[e] \in [Modes -> Batches \cup {None}] BY <1>1 DEF TypeOK
    <3> QED BY <1>1, <3>1
  <2>2. run' = [pc |-> "manifest", entity |-> e, mode |-> mode, before |-> watermark[e][mode],
                batch |-> None, entry |-> None, hash |-> None, file |-> None, pending |-> None]
    BY <1>1 DEF Start, Idle
  <2>3. RunOK' BY <2>1, <2>2 DEF RunOK, Process, Stages, Statuses
  <2> QED BY <1>1, <2>3 DEF TypeOK, Start, drop, store
<1>2. CASE Crash
  <2>1. RunOK' BY <1>2, IdleOK DEF Crash, End
  <2> QED BY <1>2, <2>1 DEF TypeOK, Crash, drop, store
<1>3. CASE UNCHANGED vars
  BY <1>3 DEF TypeOK, RunOK, vars, drop, store
<1> QED BY <1>1, <1>2, <1>3

LEMMA InitialType == Init => TypeOK
<1> USE CsvAssumption
<1> SUFFICES ASSUME Init PROVE TypeOK OBVIOUS
<1>1. table \in [Entities -> Table] /\ files \in [Entities -> Contents \cup {None}]
  BY DEF Init, NoTable, Table, NoFiles
<1>2. RunOK
  <2>1. Idle \in Process BY DEF Idle, Process, Stages
  <2> QED BY <2>1 DEF Init, RunOK, Idle, Statuses
<1> QED BY <1>1, <1>2 DEF Init, TypeOK

LEMMA NextKeepsType ==
  ASSUME TypeOK, [Next]_vars
  PROVE  TypeOK'
<1>1. \A f \in Contents, n \in 0 .. 1 : Describes(f, Rows[f] + n) \in Declared \cup {None}
  BY CsvAssumption DEF Describes, Declared
<1> QED BY <1>1, StepsKeepType, DropsKeepType, ScheduleKeepsType, NextCases

\* Type correctness: the control-plane tables, the staged files and the process
\* always have their declared shape.
THEOREM CsvTypeCorrect == Spec => []TypeOK
BY InitialType, NextKeepsType, PTL DEF Spec

\* The idempotency gate notes the hash and goes on, to a skip or to validation.
LEMMA GateStep ==
  ASSUME TypeOK, CheckDuplicate
  PROVE  /\ run'.hash = files[run.entity] /\ run'.entity = run.entity
         /\ \/ run'.pc = "checkpoint" /\ run'.pending = "SKIPPED_DUPLICATE"
            \/ run'.pc = "validate" /\ ~Processed(run'.hash)
         /\ UNCHANGED <<files, store, table, crashes>>
<1> DEFINE f == files[run.entity]
<1>1. \/ run' = [run EXCEPT !.pc = "checkpoint", !.hash = f, !.pending = "SKIPPED_DUPLICATE"]
      \/ ~Processed(f) /\ run' = [run EXCEPT !.pc = "validate", !.hash = f]
  BY DEF CheckDuplicate
<1>2. run \in Process BY DEF TypeOK, RunOK
<1>3. UNCHANGED <<files, store, table, crashes>> BY DEF CheckDuplicate, drop
<1>4. CASE run' = [run EXCEPT !.pc = "checkpoint", !.hash = f, !.pending = "SKIPPED_DUPLICATE"]
  BY <1>2, <1>3, <1>4 DEF Process
<1>5. CASE ~Processed(f) /\ run' = [run EXCEPT !.pc = "validate", !.hash = f]
  BY <1>2, <1>3, <1>5 DEF Process
<1> QED BY <1>1, <1>4, <1>5

-----------------------------------------------------------------------------
(***************************************************************************)
(* Promotion.  A run that has the audit row of PROMOTED in hand has the    *)
(* batch in the staged file, unless the batch has no rows: nobody else     *)
(* writes that file, and a dead run forgets the row.                       *)
(***************************************************************************)
PendingStaged ==
  /\ run.pc \in {"checkpoint", "audit"} =>
       run.pending \in {"PROMOTED", "SKIPPED_DUPLICATE"}
  /\ run.pc \in {"checkpoint", "audit"} /\ run.pending = "PROMOTED" /\ Rows[run.file] > 0
       => Holds(run.entity, run.batch)
  /\ run.pc = "quarantined" =>
       /\ run.pending = "QUARANTINED"
       /\ \E q \in quarantine : q.entity = run.entity /\ q.batch = run.batch

LEMMA PendingStagedKept ==
  ASSUME TypeOK, PendingStaged, [Next]_vars
  PROVE  PendingStaged'
<1> USE CsvAssumption
<1>1. CASE ReadManifest
  <2>1. run' = Idle \/ run'.pc = "hash"
    BY <1>1 DEF ReadManifest, End, TypeOK, RunOK, Process
  <2> QED BY <2>1 DEF PendingStaged, Idle
<1>2. CASE CheckDuplicate
  BY <1>2, GateStep DEF PendingStaged
<1>3. CASE Validate
  <2> DEFINE f == files[run.entity]
  <2>1. f \in Contents \cup {None}
    BY <1>3 DEF TypeOK, RunOK, Validate
  <2>2. CASE Verdict(f) = "CLEAN"
    <3>1. run \in Process BY DEF TypeOK, RunOK
    <3>2. run' = [run EXCEPT !.pc = IF Rows[f] > 0 THEN "write" ELSE "checkpoint",
                             !.file = f, !.pending = "PROMOTED"]
      BY <1>3, <2>2 DEF Validate
    <3>3. /\ run'.pc = (IF Rows[f] > 0 THEN "write" ELSE "checkpoint")
          /\ run'.pending = "PROMOTED" /\ run'.file = f
      BY <3>1, <3>2 DEF Process
    <3> QED BY <3>3 DEF PendingStaged
  <2>3. CASE Verdict(f) # "CLEAN"
    <3>1. /\ run'.pc = "quarantined" /\ run'.pending = "QUARANTINED"
          /\ run'.entity = run.entity /\ run'.batch = run.batch
      <4>1. run' = [run EXCEPT !.pc = "quarantined", !.pending = "QUARANTINED"]
        BY <1>3, <2>3 DEF Validate
      <4>2. run \in Process
        BY DEF TypeOK, RunOK
      <4> QED BY <4>1, <4>2 DEF Process
    <3>2. [entity |-> run.entity, batch |-> run.batch, reason |-> Verdict(f)] \in quarantine'
      BY <1>3, <2>3 DEF Validate
    <3> QED BY <3>1, <3>2 DEF PendingStaged
  <2> QED BY <2>2, <2>3
<1>4. CASE BeginWrite
  BY <1>4 DEF PendingStaged, BeginWrite, Goto, TypeOK, RunOK, Process
<1>5. CASE EndWrite
  <2>1. /\ run'.pc = "checkpoint" /\ run'.pending = "PROMOTED"
        /\ run'.entity = run.entity /\ run'.batch = run.batch /\ run.entity \in Entities
    BY <1>5 DEF EndWrite, Goto, TypeOK, RunOK, Process
  <2>2. table'[run.entity] = [parts |-> <<Part>>, readable |-> TRUE]
    BY <1>5, <2>1 DEF EndWrite, TypeOK
  <2>3. Holds(run.entity, run.batch)'
    BY <2>1, <2>2 DEF Holds, Part
  <2> QED BY <2>1, <2>3 DEF PendingStaged
<1>6. CASE Merge
  <2>1. run.entity \in Entities /\ table[run.entity].parts \in Seq(StagedPart)
    BY <1>6 DEF Merge, TypeOK, RunOK, Table
  <2>2. CASE table[run.entity].readable
    <3>1. /\ run'.pc = "checkpoint" /\ run'.pending = "PROMOTED"
          /\ run'.entity = run.entity /\ run'.batch = run.batch
      BY <1>6, <2>2 DEF Merge, Goto, TypeOK, RunOK, Process
    <3>2. /\ table'[run.entity].parts = Append(table[run.entity].parts, Part)
          /\ table'[run.entity].readable
      <4>1. table' = [table EXCEPT ![run.entity].parts = Append(@, Part)]
        BY <1>6, <2>2 DEF Merge
      <4>2. table[run.entity] \in [parts: Seq(StagedPart), readable: BOOLEAN]
        BY <2>1 DEF TypeOK, Table
      <4> QED BY <2>1, <2>2, <4>1, <4>2 DEF TypeOK
    <3>3. /\ table'[run.entity].parts # <<>>
          /\ table'[run.entity].parts[Len(table'[run.entity].parts)] = Part
      <4> DEFINE parts == table[run.entity].parts
      <4>1. parts \in Seq(StagedPart)
        BY <2>1
      <4> HIDE DEF parts
      <4>2. Append(parts, Part) # <<>> /\ Append(parts, Part)[Len(Append(parts, Part))] = Part
        BY <4>1
      <4>3. table'[run.entity].parts = Append(parts, Part)
        BY <3>2 DEF parts
      <4> QED BY <4>2, <4>3
    <3>4. Holds(run.entity, run.batch)'
      BY <3>1, <3>2, <3>3 DEF Holds, Part
    <3> QED BY <3>1, <3>4 DEF PendingStaged
  <2>3. CASE ~table[run.entity].readable
    BY <1>6, <2>3 DEF PendingStaged, Merge, End, Idle
  <2> QED BY <2>2, <2>3
<1>7. CASE Checkpoint
  BY <1>7 DEF PendingStaged, Checkpoint, Goto, TypeOK, RunOK, Process, Holds
<1>8. CASE FlushAudit
  BY <1>8 DEF PendingStaged, FlushAudit, End, Idle
<1>9. ASSUME NEW e \in Entities, NEW mode \in Modes, Start(e, mode) PROVE PendingStaged'
  BY <1>9 DEF PendingStaged, Start, Idle
<1>10. CASE Crash
  BY <1>10 DEF PendingStaged, Crash, End, Idle
<1>11. CASE UNCHANGED <<quarantine, table, run>>
  BY <1>11 DEF PendingStaged, Holds
<1>12. (\E e \in Entities, f \in Contents \cup {None} : DropFile(e, f))
         => UNCHANGED <<quarantine, table, run>>
  BY DEF DropFile, store
<1>14. (\E b \in Batches, f \in Contents : Deliver(b, SchemaOf[f], f))
         => UNCHANGED <<quarantine, table, run>>
  BY DEF Deliver, store
<1>13. \A b \in Batches, e \in Entities : \A entry : DropManifest(b, e, entry)
         => UNCHANGED <<quarantine, table, run>>
  BY DEF DropManifest, store
<1> QED
  BY <1>1, <1>2, <1>3, <1>4, <1>5, <1>6, <1>7, <1>8, <1>9, <1>10, <1>11, <1>12, <1>13, <1>14,
     NextCases DEF ConnectorStep, vars, store

LEMMA PendingStagedInvariant == Spec => [](TypeOK /\ PendingStaged)
<1>1. Init => PendingStaged BY DEF Init, PendingStaged, Idle
<1>2. TypeOK /\ PendingStaged /\ [Next]_vars => PendingStaged'
  BY PendingStagedKept
<1> QED BY <1>1, <1>2, CsvTypeCorrect, PTL DEF Spec

\* Only FlushAudit writes the audit table, and it adds at most one row.
LEMMA AuditWriter ==
  ASSUME TypeOK, [Next]_vars, NEW h \in Contents \cup {"unknown"},
         audit[h] = None, audit'[h] # None
  PROVE  /\ run.pc \in {"audit", "quarantined"}
         /\ audit'[h].status = run.pending /\ audit'[h].entity = run.entity
         /\ audit'[h].batch = run.batch /\ audit'[h].rows = AuditOf(run).rows
         /\ UNCHANGED <<quarantine, table>>
<1>1. CASE FlushAudit
  <2>1. audit'[h] = AuditOf(run) BY <1>1 DEF FlushAudit, TypeOK
  <2> QED BY <1>1, <2>1 DEF FlushAudit, AuditOf
<1>2. CASE UNCHANGED audit BY <1>2
<1>3. ConnectorStep => FlushAudit \/ UNCHANGED audit
  BY DEF ConnectorStep, ReadManifest, CheckDuplicate, Validate, BeginWrite, EndWrite, Merge,
         Checkpoint, store
<1> QED
  BY <1>1, <1>2, <1>3, NextCases DEF Start, Crash, DropFile, DropManifest, Deliver, vars, store

\* An audit row is never replaced: the insert ignores a key that is there.
LEMMA AuditRowsStay ==
  ASSUME TypeOK, [Next]_vars, NEW h \in Contents \cup {"unknown"}, audit[h] # None
  PROVE  audit'[h] = audit[h]
<1>1. CASE FlushAudit
  BY <1>1 DEF FlushAudit, TypeOK
<1>2. CASE UNCHANGED audit BY <1>2
<1>3. ConnectorStep => FlushAudit \/ UNCHANGED audit
  BY DEF ConnectorStep, ReadManifest, CheckDuplicate, Validate, BeginWrite, EndWrite, Merge,
         Checkpoint, store
<1> QED
  BY <1>1, <1>2, <1>3, NextCases DEF Start, Crash, DropFile, DropManifest, Deliver, vars, store

\* An audit row of PROMOTED that counts rows implies a readable Parquet file that
\* ends with that batch (CsvSftpConnector.extract).
THEOREM PromotedStaged == Spec => PromotedBatchStaged
<1> DEFINE Step == \A h \in Contents \cup {"unknown"} :
       audit[h] = None /\ audit'[h] # None /\ audit'[h].status = "PROMOTED"
         /\ audit'[h].rows > 0
         => Holds(audit'[h].entity, audit'[h].batch)
<1>1. TypeOK /\ PendingStaged /\ [Next]_vars => [Step]_vars
  BY AuditWriter DEF PendingStaged, AuditOf
<1> QED BY <1>1, PendingStagedInvariant, PTL DEF Spec, PromotedBatchStaged

\* The watermark never runs ahead of the staged file: it moves without rows only
\* where the run had none to stage (BaseConnector.extract).
THEOREM WatermarkBehind == Spec => WatermarkNotAhead
<1> DEFINE Step == \A e \in Entities, m \in Modes :
       watermark'[e][m] # watermark[e][m] => Holds(e, watermark'[e][m]) \/ NothingToStage
<1>1. ASSUME TypeOK, PendingStaged, [Next]_vars PROVE Step
  <2>1. CASE Checkpoint
    <3>1. /\ run.entity \in Entities /\ run.pending \in {"PROMOTED", "SKIPPED_DUPLICATE"}
          /\ run.pending = "PROMOTED" => run.file \in Contents /\ run.file # None
      BY <1>1, <2>1, CsvAssumption DEF Checkpoint, TypeOK, RunOK, PendingStaged
    <3>2. Holds(run.entity, run.batch) \/ NothingToStage
      BY <1>1, <2>1, <3>1, CsvAssumption DEF Checkpoint, PendingStaged, NothingToStage
    <3>3. \A e \in Entities, m \in Modes : watermark'[e][m] # watermark[e][m]
             => e = run.entity /\ watermark'[e][m] = run.batch
      BY <1>1, <2>1, <3>1 DEF Checkpoint, TypeOK
    <3> QED BY <3>2, <3>3
  <2>2. CASE UNCHANGED watermark BY <2>2
  <2>3. ConnectorStep => Checkpoint \/ UNCHANGED watermark
    BY DEF ConnectorStep, ReadManifest, CheckDuplicate, Validate, BeginWrite, EndWrite, Merge,
           FlushAudit, store
  <2> QED
    BY <1>1, <2>1, <2>2, <2>3, NextCases DEF Start, Crash, DropFile, DropManifest, Deliver, vars, store
<1> QED BY <1>1, PendingStagedInvariant, PTL DEF Spec, WatermarkNotAhead
-----------------------------------------------------------------------------
(***************************************************************************)
(* Quarantine.  A run writes the quarantine record before it has an audit  *)
(* row of QUARANTINED to write, and forgets both or neither when it dies.  *)
(***************************************************************************)
RecordInHand ==
  /\ run.pc = "quarantined" =>
       \E q \in quarantine : q.entity = run.entity /\ q.batch = run.batch
  /\ run.pc \in {"checkpoint", "audit"} => run.pending # "QUARANTINED"

LEMMA QuarantineGrows ==
  ASSUME Next
  PROVE  quarantine \subseteq quarantine'
BY NextCases DEF ConnectorStep, Start, ReadManifest, CheckDuplicate, Validate, BeginWrite,
     EndWrite, Merge, Checkpoint, FlushAudit, DropFile, DropManifest, Deliver, Crash, store

LEMMA RecordKept ==
  ASSUME TypeOK, RecordInHand, [Next]_vars
  PROVE  RecordInHand'
<1>1. CASE ReadManifest
  <2>1. run' = Idle \/ run'.pc = "hash"
    BY <1>1 DEF ReadManifest, End, TypeOK, RunOK, Process
  <2> QED BY <2>1 DEF RecordInHand, Idle
<1>2. CASE CheckDuplicate
  BY <1>2, GateStep DEF RecordInHand
<1>3. CASE Validate
  <2> DEFINE f == files[run.entity]
  <2>1. CASE Verdict(f) = "CLEAN"
    <3>1. run \in Process BY DEF TypeOK, RunOK
    <3>2. run' = [run EXCEPT !.pc = IF Rows[f] > 0 THEN "write" ELSE "checkpoint",
                             !.file = f, !.pending = "PROMOTED"]
      BY <1>3, <2>1 DEF Validate
    <3>3. run'.pc \in {"write", "checkpoint"} /\ run'.pending = "PROMOTED"
      BY <3>1, <3>2 DEF Process
    <3> QED BY <3>3 DEF RecordInHand
  <2>2. CASE Verdict(f) # "CLEAN"
    <3>1. /\ run'.pc = "quarantined"
          /\ run'.entity = run.entity /\ run'.batch = run.batch
      BY <1>3, <2>2 DEF Validate, TypeOK, RunOK, Process
    <3>2. [entity |-> run.entity, batch |-> run.batch, reason |-> Verdict(f)] \in quarantine'
      BY <1>3, <2>2 DEF Validate
    <3> QED BY <3>1, <3>2 DEF RecordInHand
  <2> QED BY <2>1, <2>2
<1>4. CASE BeginWrite
  BY <1>4 DEF RecordInHand, BeginWrite, Goto, TypeOK, RunOK, Process
<1>5. CASE EndWrite
  BY <1>5 DEF RecordInHand, EndWrite, Goto, TypeOK, RunOK, Process
<1>6. CASE Merge
  <2>1. run.pending = "PROMOTED" /\ run \in Process BY <1>6 DEF Merge, TypeOK, RunOK
  <2>2. run' = Idle \/ run' = [run EXCEPT !.pc = "checkpoint"]
    BY <1>6 DEF Merge, Goto, End
  <2> QED BY <2>1, <2>2 DEF RecordInHand, Idle, Process
<1>7. CASE Checkpoint
  BY <1>7 DEF RecordInHand, Checkpoint, Goto, TypeOK, RunOK, Process
<1>8. CASE FlushAudit \/ Crash
  BY <1>8 DEF RecordInHand, FlushAudit, Crash, End, Idle
<1>9. ASSUME NEW e \in Entities, NEW mode \in Modes, Start(e, mode) PROVE RecordInHand'
  BY <1>9 DEF RecordInHand, Start, Idle
<1>10. CASE UNCHANGED <<quarantine, run>>
  BY <1>10 DEF RecordInHand
<1>11. \A e \in Entities : \A f : DropFile(e, f) => UNCHANGED <<quarantine, run>>
  BY DEF DropFile, store
<1>12. \A b \in Batches, e \in Entities : \A entry : DropManifest(b, e, entry)
         => UNCHANGED <<quarantine, run>>
  BY DEF DropManifest, store
<1>13. \A b \in Batches, e \in Entities, f \in Contents : Deliver(b, e, f)
         => UNCHANGED <<quarantine, run>>
  BY DEF Deliver, store
<1>14. \A f \in Contents : SchemaOf[f] \in Entities
  BY CsvAssumption
<1> QED
  BY <1>1, <1>2, <1>3, <1>4, <1>5, <1>6, <1>7, <1>8, <1>9, <1>10, <1>11, <1>12, <1>13, <1>14,
     NextCases
  DEF ConnectorStep, vars, store

\* Every audit row of QUARANTINED has its quarantine record, wherever earlier
\* runs died and whatever the dealer did meanwhile (CsvSftpConnector.extract).
THEOREM QuarantineTraced == Spec => []QuarantineRecorded
<1>1. Init => QuarantineRecorded /\ RecordInHand
  BY DEF Init, QuarantineRecorded, RecordInHand, Idle
<1>2. ASSUME TypeOK, RecordInHand, QuarantineRecorded, [Next]_vars PROVE QuarantineRecorded'
  <2> SUFFICES ASSUME NEW h \in Contents \cup {"unknown"},
                      audit'[h] # None, audit'[h].status = "QUARANTINED"
               PROVE  \E q \in quarantine' :
                        q.entity = audit'[h].entity /\ q.batch = audit'[h].batch
    <3>1. TypeOK' BY <1>2, NextKeepsType
    <3> QED BY <3>1 DEF QuarantineRecorded, TypeOK
  <2>1. quarantine \subseteq quarantine'
    BY <1>2, QuarantineGrows DEF vars, store
  <2>2. CASE audit[h] = None
    BY <1>2, <2>2, AuditWriter DEF RecordInHand
  <2>3. CASE audit[h] # None
    <3>1. audit'[h] = audit[h] BY <1>2, <2>3, AuditRowsStay
    <3>2. h \in DOMAIN audit BY <1>2 DEF TypeOK
    <3> QED BY <1>2, <2>1, <2>3, <3>1, <3>2 DEF QuarantineRecorded
  <2> QED BY <2>2, <2>3
<1>3. TypeOK /\ RecordInHand /\ [Next]_vars => RecordInHand' BY RecordKept
<1> QED BY <1>1, <1>2, <1>3, CsvTypeCorrect, PTL DEF Spec
-----------------------------------------------------------------------------
(***************************************************************************)
(* Whole deliveries.  The audit row is what keeps the same bytes from      *)
(* being staged twice: as long as no run has died, the bytes of a staged   *)
(* part are in the audit table, or in the hands of the run that will write *)
(* their row; and a run that is going to write asked the table for exactly *)
(* the bytes it validated, because nothing is delivered under its feet.    *)
(***************************************************************************)
Awaited(c) ==
  run.pc \in {"checkpoint", "audit"} /\ run.pending = "PROMOTED" /\ run.hash = c

AuditedOnce ==
  /\ run.pc = "validate" =>
       run.hash = files[run.entity] /\ (run.hash # None => audit[run.hash] = None)
  /\ run.pc \in {"write", "writing"} => run.hash = run.file /\ audit[run.file] = None
  /\ \A e \in Entities : \A i \in 1 .. Len(table[e].parts) :
       audit[table[e].parts[i].content] # None \/ Awaited(table[e].parts[i].content)

Undisturbed == whole /\ crashes = 0 => AuditedOnce /\ StagedOnce

\* The staged file a write leaves has this run's part alone, or last.
LEMMA WriteStep ==
  ASSUME TypeOK, EndWrite \/ (Merge /\ table[run.entity].readable)
  PROVE  /\ UNCHANGED <<files, audit, crashes>>
         /\ run'.pc = "checkpoint" /\ run'.pending = "PROMOTED" /\ run'.hash = run.hash
         /\ \A e \in Entities : e # run.entity => table'[e] = table[e]
         /\ \/ table'[run.entity].parts = <<Part>>
            \/ run.pc = "write" /\ table'[run.entity].parts = Append(table[run.entity].parts, Part)
<1>1. run \in Process /\ run.entity \in Entities /\ run.pending = "PROMOTED"
  BY DEF TypeOK, RunOK, EndWrite, Merge
<1>2. UNCHANGED <<files, audit, crashes>> /\ run' = [run EXCEPT !.pc = "checkpoint"]
  BY DEF EndWrite, Merge, Goto, drop, store
<1>3. run'.pc = "checkpoint" /\ run'.pending = "PROMOTED" /\ run'.hash = run.hash
  BY <1>1, <1>2 DEF Process
<1>4. CASE EndWrite
  BY <1>1, <1>2, <1>3, <1>4 DEF EndWrite, TypeOK
<1>5. CASE Merge /\ table[run.entity].readable
  <2>1. table' = [table EXCEPT ![run.entity].parts = Append(@, Part)]
    BY <1>5 DEF Merge
  <2>2. table[run.entity] \in [parts: Seq(StagedPart), readable: BOOLEAN]
    BY <1>1 DEF TypeOK, Table
  <2>3. \A e \in Entities : e # run.entity => table'[e] = table[e]
    BY <1>1, <2>1 DEF TypeOK
  <2>4. table'[run.entity].parts = Append(table[run.entity].parts, Part)
    BY <1>1, <2>1, <2>2 DEF TypeOK
  <2> QED BY <1>2, <1>3, <1>5, <2>3, <2>4 DEF Merge
<1> QED BY <1>4, <1>5

LEMMA WriteStaysOnce ==
  ASSUME TypeOK, AuditedOnce, StagedOnce, EndWrite \/ (Merge /\ table[run.entity].readable)
  PROVE  AuditedOnce' /\ StagedOnce'
<1>1. /\ run.entity \in Entities /\ run.file \in Contents
      /\ run.hash = run.file /\ audit[run.file] = None
  BY DEF TypeOK, RunOK, EndWrite, Merge, AuditedOnce
<1>2. Part.content = run.file BY DEF Part
<1> DEFINE old(e) == table[e].parts
           new(e) == table'[e].parts
<1>3. ASSUME NEW e \in Entities
      PROVE  /\ \A i \in 1 .. Len(new(e)) : audit[new(e)[i].content] # None \/ new(e)[i].content = run.file
             /\ \A i, j \in 1 .. Len(new(e)) : new(e)[i].content = new(e)[j].content => i = j
  <2>1. old(e) \in Seq(StagedPart) BY DEF TypeOK, Table
  <2>2. \A i, j \in 1 .. Len(old(e)) : old(e)[i].content = old(e)[j].content => i = j
    BY DEF StagedOnce
  <2>3. ASSUME e # run.entity PROVE new(e) = old(e) BY <2>3, WriteStep
  <2>4. CASE e # run.entity
    <3>1. \A i \in 1 .. Len(old(e)) : audit[old(e)[i].content] # None \/ Awaited(old(e)[i].content)
      BY DEF AuditedOnce
    <3>2. \A c : Awaited(c) => FALSE BY DEF Awaited, EndWrite, Merge
    <3> QED BY <2>2, <2>3, <2>4, <3>1, <3>2
  <2>5. CASE e = run.entity /\ new(e) = <<Part>>
    BY <1>2, <2>5
  <2>6. CASE e = run.entity /\ run.pc = "write" /\ new(e) = Append(old(e), Part)
    <3>1. \A i \in 1 .. Len(old(e)) : audit[old(e)[i].content] # None
      BY <2>6 DEF AuditedOnce, Awaited
    <3>2. /\ Len(new(e)) = Len(old(e)) + 1
          /\ \A i \in 1 .. Len(old(e)) : new(e)[i] = old(e)[i]
          /\ new(e)[Len(old(e)) + 1] = Part
          /\ Len(old(e)) \in Nat
      BY <2>1, <2>6
    <3>3. \A i \in 1 .. Len(old(e)) : old(e)[i].content # run.file
      BY <1>1, <3>1
    <3>4. \A i \in 1 .. Len(new(e)) : i \in 1 .. Len(old(e)) \/ i = Len(old(e)) + 1
      BY <3>2
    <3>5. \A i \in 1 .. Len(old(e)) : new(e)[i].content = old(e)[i].content
      BY <3>2
    <3>6. new(e)[Len(old(e)) + 1].content = run.file BY <1>2, <3>2
    <3> QED BY <2>2, <3>1, <3>3, <3>4, <3>5, <3>6
  <2> QED BY <2>4, <2>5, <2>6, WriteStep
<1>4. StagedOnce' BY <1>3 DEF StagedOnce
<1>5. run'.pc = "checkpoint" /\ run'.pending = "PROMOTED" /\ run'.hash = run.file /\ audit' = audit
  BY <1>1, WriteStep
<1> QED BY <1>3, <1>4, <1>5 DEF AuditedOnce, Awaited

LEMMA StepsStayOnce ==
  ASSUME TypeOK, AuditedOnce, StagedOnce, ConnectorStep
  PROVE  AuditedOnce' /\ StagedOnce'
<1> USE CsvAssumption
<1>1. run \in Process BY DEF TypeOK, RunOK
\* Enough: the table and the audit stay, no run was awaited, and the next stage has what it needs.
<1>2. ASSUME UNCHANGED <<audit, table>>, ~ (run.pc \in {"checkpoint", "audit"}),
             run'.pc # "validate", run'.pc \in {"write", "writing"} =>
                          run'.hash = run'.file /\ audit[run'.file] = None
      PROVE  AuditedOnce' /\ StagedOnce'
  BY <1>2 DEF AuditedOnce, Awaited, StagedOnce
<1>3. CASE ReadManifest
  <2>1. run' = Idle \/ run'.pc = "hash"
    BY <1>1, <1>3 DEF ReadManifest, End, Process
  <2> QED BY <1>2, <1>3, <2>1 DEF ReadManifest, store, Idle
<1>4. CASE CheckDuplicate
  <2>1. UNCHANGED <<audit, table>> /\ run.pc = "hash" BY <1>4, GateStep DEF CheckDuplicate, store
  <2>2. \A e \in Entities : \A i \in 1 .. Len(table[e].parts) : audit[table[e].parts[i].content] # None
    BY <2>1 DEF AuditedOnce, Awaited
  <2>3. run'.pc \in {"checkpoint", "validate"} BY <1>4, GateStep
  <2>4. run'.pc = "validate" => /\ run'.hash = files'[run'.entity]
                                /\ run'.hash # None => audit[run'.hash] = None
    BY <1>4, GateStep DEF Processed
  <2> QED BY <2>1, <2>2, <2>3, <2>4 DEF AuditedOnce, StagedOnce
<1>5. CASE Validate
  <2> DEFINE f == files[run.entity]
  <2>1. f \in Contents \cup {None} /\ run.hash = f /\ (f # None => audit[f] = None)
    BY <1>5 DEF TypeOK, RunOK, Validate, AuditedOnce
  <2>2. UNCHANGED <<audit, table>> /\ run.pc = "validate" BY <1>5 DEF Validate
  <2>3. CASE Verdict(f) = "CLEAN"
    <3>1. f # None BY <2>3 DEF Verdict
    <3>2. run'.pc \in {"write", "checkpoint"} /\ run'.hash = f /\ run'.file = f
      <4>1. run' = [run EXCEPT !.pc = IF Rows[f] > 0 THEN "write" ELSE "checkpoint",
                               !.file = f, !.pending = "PROMOTED"]
        BY <1>5, <2>3 DEF Validate
      <4> HIDE DEF f
      <4> QED BY <1>1, <2>1, <4>1 DEF Process
    <3> QED BY <1>2, <2>1, <2>2, <3>1, <3>2
  <2>4. CASE Verdict(f) # "CLEAN"
    <3>1. run'.pc = "quarantined" BY <1>1, <1>5, <2>4 DEF Validate, Process
    <3> QED BY <1>2, <2>2, <3>1
  <2> QED BY <2>3, <2>4
<1>6. CASE BeginWrite
  <2>1. run.entity \in Entities BY <1>6 DEF BeginWrite, TypeOK, RunOK
  <2>2. /\ UNCHANGED audit /\ run.pc = "write"
        /\ run'.pc = "writing" /\ run'.hash = run.hash /\ run'.file = run.file
    BY <1>1, <1>6 DEF BeginWrite, Goto, Process, store
  <2>3. \A e \in Entities : table'[e].parts = <<>> \/ table'[e] = table[e]
    BY <1>6, <2>1 DEF BeginWrite, TypeOK, Torn
  <2>4. \A e \in Entities : \A i \in 1 .. Len(table'[e].parts) :
          table'[e] = table[e] /\ i \in 1 .. Len(table[e].parts)
    BY <2>3
  <2>5. StagedOnce' BY <2>4 DEF StagedOnce
  <2> QED BY <2>2, <2>4, <2>5 DEF AuditedOnce, Awaited
<1>7. CASE EndWrite \/ (Merge /\ table[run.entity].readable)
  BY <1>7, WriteStaysOnce
<1>8. CASE Merge /\ ~table[run.entity].readable
  BY <1>2, <1>8 DEF Merge, End, Idle, store
<1>9. CASE Checkpoint
  <2>1. /\ UNCHANGED <<audit, table>> /\ run.pc = "checkpoint"
        /\ run'.pc = "audit" /\ run'.hash = run.hash /\ run'.pending = run.pending
    BY <1>1, <1>9 DEF Checkpoint, Goto, Process
  <2> QED BY <2>1 DEF AuditedOnce, Awaited, StagedOnce
<1>10. CASE FlushAudit
  <2>1. UNCHANGED table /\ run'.pc = "idle" BY <1>10 DEF FlushAudit, End, Idle
  <2>2. \A h \in Contents \cup {"unknown"} : audit[h] # None => audit'[h] # None
    BY <1>10 DEF FlushAudit, TypeOK
  <2>3. ASSUME NEW c \in Contents, Awaited(c) PROVE audit'[c] # None
    <3>1. c = run.hash /\ run.pending = "PROMOTED" BY <2>3 DEF Awaited
    <3>2. audit' = [audit EXCEPT ![c] = IF @ # None THEN @ ELSE
                     AuditOf(run)]
      BY <1>10, <3>1 DEF FlushAudit
    <3>4. AuditOf(run) \in AuditRow
      BY <1>10, <2>3 DEF TypeOK, RunOK, FlushAudit, AuditRow, AuditOf, Awaited
    <3> QED BY <3>2, <3>4 DEF TypeOK
  <2>4. ASSUME NEW e \in Entities, NEW i \in 1 .. Len(table[e].parts)
        PROVE  table[e].parts[i].content \in Contents
    <3>1. table[e] \in [parts: Seq(StagedPart), readable: BOOLEAN] BY DEF TypeOK, Table
    <3>2. table[e].parts \in Seq(StagedPart) BY <3>1
    <3>3. table[e].parts[i] \in StagedPart BY <3>2
    <3> QED BY <3>3 DEF StagedPart
  <2> QED BY <2>1, <2>2, <2>3, <2>4 DEF AuditedOnce, StagedOnce
<1> QED BY <1>3, <1>4, <1>5, <1>6, <1>7, <1>8, <1>9, <1>10 DEF ConnectorStep

LEMMA UndisturbedKept ==
  ASSUME TypeOK, Undisturbed, [Next]_vars
  PROVE  Undisturbed'
<1>1. CASE ConnectorStep
  <2>1. UNCHANGED <<crashes, whole>>
    BY <1>1 DEF ConnectorStep, ReadManifest, CheckDuplicate, Validate, BeginWrite, EndWrite,
       Merge, Checkpoint, FlushAudit, drop
  <2> QED BY <1>1, <2>1, StepsStayOnce DEF Undisturbed
<1>2. ASSUME NEW e \in Entities, NEW mode \in Modes, Start(e, mode) PROVE Undisturbed'
  BY <1>2 DEF Start, Idle, drop, store, Undisturbed, AuditedOnce, StagedOnce, Awaited
<1>3. ASSUME NEW b \in Batches, NEW f \in Contents, Deliver(b, SchemaOf[f], f) PROVE Undisturbed'
  <2>1. run.pc = "idle" /\ UNCHANGED <<whole, audit, table, run, crashes>>
    BY <1>3 DEF Deliver, store
  <2> QED BY <2>1 DEF Undisturbed, AuditedOnce, StagedOnce, Awaited
<1>4. CASE Crash
  <2>1. crashes' # 0 BY <1>4 DEF Crash, TypeOK
  <2> QED BY <2>1 DEF Undisturbed
<1>5. CASE UNCHANGED vars
  BY <1>5 DEF vars, drop, store, Undisturbed, AuditedOnce, StagedOnce, Awaited
<1>6. \A e, f : DropFile(e, f) => ~whole'
  BY DEF DropFile
<1>7. \A b, e, entry : DropManifest(b, e, entry) => ~whole'
  BY DEF DropManifest
<1> QED BY <1>1, <1>2, <1>3, <1>4, <1>5, <1>6, <1>7, NextCases DEF Undisturbed

\* "Re-delivered files are skipped", for every number of batches, deliveries and
\* runs of both modes, where the dealer delivers whole batches between runs and
\* no run has died (CsvSftpConnector._iter_records, has_file_been_processed).
THEOREM RedeliverySkipped == Spec => []StagedOnceUndisturbed
<1>1. Init => Undisturbed
  BY DEF Init, Undisturbed, AuditedOnce, StagedOnce, Awaited, Idle, NoTable
<1>2. TypeOK /\ Undisturbed /\ [Next]_vars => Undisturbed' BY UndisturbedKept
<1>3. Undisturbed => StagedOnceUndisturbed BY DEF Undisturbed, StagedOnceUndisturbed
<1> QED BY <1>1, <1>2, <1>3, CsvTypeCorrect, PTL DEF Spec
=============================================================================
