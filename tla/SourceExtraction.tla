--------------------------- MODULE SourceExtraction ---------------------------
(***************************************************************************)
(* What every ERP connector shares: BaseConnector.extract and              *)
(* reconcile_deletes around a walk over an ERP that changes while it is    *)
(* walked.                                                                 *)
(*                                                                         *)
(* The walk itself, how pages are asked for and what happens to a refused  *)
(* call, is the connector's: one module each (EclipseWalk, AgilityWalk,    *)
(* OffsetWalks, LinkWalks, QueryScans), composed in ErpExtraction.         *)
(*                                                                         *)
(* A record is its natural id and the stamp of its last change, its        *)
(* version.  A connector object lives for one run, as the Dagster assets   *)
(* and the command line build it.  Process death is in CsvPromotion, which *)
(* has the same publication code.                                          *)
(***************************************************************************)
EXTENDS Integers, Sequences, SequencesExt, Functions

CONSTANTS Keys,        \* natural ids
          Place,       \* [Keys -> Nat], where the ERP lists an id
          Scopes,      \* companies, customers or document types of the source
          ScopeOf,     \* [Keys -> Scopes]
          Unscoped,    \* the whole source as one scope
          Connectors,  \* connectors that the instance runs, each with the entity it reads
          Begins,      \* what the ERP may hold when the source is connected
          PageSize,    \* rows a full page carries
          BatchSize,   \* PARQUET_BATCH_SIZE: rows the writer holds back
          MaxRetries,  \* MAX_RETRIES of a throttled call
          MaxPages,    \* MAX_PAGES: the guard against endless paging
          MaxRows,     \* bound: rows after which a walk without such a guard stands still
          MaxClock,    \* bound: the last stamp of the ERP
          MaxChanges,  \* bound: records added, edited and deleted
          MaxFaults    \* bound: refused, throttled and malformed answers

\* Lists, headers with details, lists without a change filter, and lists whose
\* stamp is filtered on but not selected.
Shapes == {"list", "documents", "sweep", "blind"}

ASSUME ExtractionAssumption ==
  /\ Connectors \subseteq [name: STRING, shape: Shapes, dated: BOOLEAN]
  /\ Begins \subseteq [Keys -> 0..MaxClock]
  /\ Keys \subseteq Nat \ {0} /\ IsFiniteSet(Keys)
  /\ Place \in [Keys -> Nat] /\ IsInjective(Place)
  /\ Unscoped \notin Scopes /\ ScopeOf \in [Keys -> Scopes]
  /\ PageSize \in Nat \ {0} /\ BatchSize \in Nat \ {0, 1}
  /\ MaxRetries \in Nat \ {0} /\ MaxPages \in Nat \ {0}
  /\ MaxRows \in Nat /\ MaxChanges \in Nat /\ MaxClock \in Nat /\ MaxFaults \in Nat

VARIABLES erp,         \* [Keys -> stamp of the record's last change, 0 when it is not there]
          clock,       \* the last stamp the ERP gave
          changes,     \* how often it changed
          connector,   \* the source's connector and the entity it reads: its shape, and
                       \* whether its ids carry the day of extraction
          staged,      \* the entity's Parquet file
          mark,        \* sync_state: the incremental watermark, per scope
          tombstones,  \* ids recorded as deleted
          run,         \* the connector process
          touched,     \* history: ids the ERP changed since the run began
          sound,       \* history: nothing was lost by a torn file, a disturbed or strayed
                       \* walk, or a stamp that came late
          faults

source == <<erp, clock, changes>>
books == <<staged, mark, tombstones>>
history == <<touched, sound>>
vars == <<source, connector, books, run, history, faults>>

Stamps == 0..MaxClock
AllScopes == Scopes \cup {Unscoped}
Versions == Keys \X (1..MaxClock)
Version(k) == <<k, erp[k]>>
IdsOf(versions) == {v[1] : v \in versions}
Larger(a, b) == IF a > b THEN a ELSE b

(***************************************************************************)
(* The ERP.                                                                *)
(***************************************************************************)
Live == {k \in Keys : erp[k] > 0}
Newer(stamp) == {k \in Live : erp[k] > stamp}
InScope(s) == IF s = Unscoped THEN Keys ELSE {k \in Keys : ScopeOf[k] = s}

\* Some ids in the order of their places: the i-th has i - 1 of them before it.
InOrder(ids, place) ==
  [i \in 1..Cardinality(ids) |->
     CHOOSE k \in ids : Cardinality({j \in ids : place[j] < place[k]}) = i - 1]
Listing == [ids \in SUBSET Keys |-> InOrder(ids, Place)]
Listed(ids) == Listing[ids]

\* The rows of a listing from an offset on, at most a page of them.
Page(rows, offset, size) ==
  SubSeq(rows, offset + 1, IF offset + size < Len(rows) THEN offset + size ELSE Len(rows))
Window(rows, offset) == Page(rows, offset, PageSize)

\* A user of the ERP adds, edits or deletes a record.  Stamps are given in order,
\* and two records may get the same: one that is not after the watermark is out
\* of the reach of incremental runs.
ChangeErp(k, deletes) == \E stamp \in {clock, clock + 1} \cap Stamps :
  /\ changes < MaxChanges
  /\ IF deletes THEN k \in Live /\ stamp > clock ELSE stamp > erp[k]
  /\ clock' = stamp
  /\ erp' = [erp EXCEPT ![k] = IF deletes THEN 0 ELSE stamp]
  /\ changes' = changes + 1
  /\ touched' = touched \cup {k}
  /\ sound' = (sound /\ (deletes \/ stamp > mark[Unscoped]))
  /\ UNCHANGED <<connector, books, run, faults>>

(***************************************************************************)
(* A run.  pos is the page number, offset, chunk pointer or last id, as    *)
(* the connector counts; left are the scopes still to walk; pend are       *)
(* headers whose detail is still to be read; out are the records yielded;  *)
(* strayed is history: the walk left what it asked for behind, silently.   *)
(***************************************************************************)
Walks == {"backfill", "incremental", "keys"}
NewRun(walk, scopes, deaf) ==
  [stage |-> "walking", walk |-> walk, left |-> scopes, pos |-> 0,
   pend |-> <<>>, last |-> FALSE, out |-> <<>>, top |-> [s \in AllScopes |-> 0],
   size |-> PageSize, renewed |-> FALSE, tries |-> 0, deaf |-> deaf,
   strayed |-> FALSE]

Rest(stage) == [NewRun("keys", <<>>, FALSE) EXCEPT !.stage = stage]
\* A failed run may leave the page it could not read in quarantine.
Failures == {"failed", "quarantined"}
Ends == {"idle"} \cup Failures
Runs == [stage: Ends \cup {"walking", "walked"}, walk: Walks,
         left: Seq(AllScopes), pos: Nat, pend: Seq(Keys), last: BOOLEAN, out: Seq(Versions),
         top: [AllScopes -> Stamps \cup Nat], size: Nat, renewed: BOOLEAN,
         tries: Nat, deaf: BOOLEAN, strayed: BOOLEAN]

Resting == run.stage \in Ends
Walking(who) == connector.name = who /\ run.stage = "walking"
Scope == Head(run.left)
Yielded == Range(run.out)

\* Entities with an incremental field; quantities and plain masters have none.
Filterable == connector.shape # "sweep"

\* Mutation: a key scan filters on the watermark too.
SinceAlways(s) == IF run.walk # "backfill" /\ Filterable THEN mark[s] ELSE 0

\* The watermark the run filters on; a backfill and a key scan ask for everything.
Since(s) == IF run.walk = "incremental" /\ Filterable THEN mark[s] ELSE 0

\* reconcile_deletes and extract both begin here.
StartRun(who, walk, scopes, deaf) ==
  /\ Resting /\ connector.name = who
  /\ deaf => faults < MaxFaults
  /\ run' = NewRun(walk, scopes, deaf)
  /\ touched' = {}
  /\ faults' = faults + (IF deaf THEN 1 ELSE 0)
  /\ UNCHANGED <<source, connector, books, sound>>

\* Where a page begins: a tenant that ignores the paging parameters answers every
\* page like the first.
Offset(rows) == IF run.deaf THEN 0 ELSE rows

\* A call was answered: r is the run afterwards, its retry budget is fresh.
Answered(r) ==
  /\ run' = [r EXCEPT !.tries = 0]
  /\ UNCHANGED <<source, connector, books, history, faults>>

\* Mutation: the next scope is entered at the place the one before ended.
NextScopeAtPlace(r) ==
  IF Len(r.left) > 1 THEN [r EXCEPT !.left = Tail(@), !.renewed = FALSE]
                     ELSE [r EXCEPT !.stage = "walked"]

\* The walk goes on with the next scope or is over.
NextScope(r) ==
  IF Len(r.left) > 1 THEN [r EXCEPT !.left = Tail(@), !.pos = 0, !.renewed = FALSE]
                     ELSE [r EXCEPT !.stage = "walked"]

\* r with the largest stamp of some rows noted for a scope.
Observe(r, s, rows) ==
  IF Filterable THEN [r EXCEPT !.top[s] = Max({@} \cup {erp[k] : k \in Range(rows)})] ELSE r

VersionsOf(rows) == [i \in 1..Len(rows) |-> Version(rows[i])]

\* Mutation: a page asked for again is staged again.
UnseenOrNot(rows) == rows

\* The rows not yielded before in this run: _iter_records' set of seen ids.
Unseen(rows) == Listed(Range(rows) \ IdsOf(Yielded))

(***************************************************************************)
(* Refused calls.                                                          *)
(***************************************************************************)
\* What the writer has on disk when the records stop coming with an error: a
\* backfill, and the first extraction of all, write in place and the rows held
\* back are lost; a delta is a sibling that is left behind.  Nothing is opened
\* before the first record.
Torn == IF run.out # <<>> /\ (run.walk = "backfill" \/ (run.walk = "incremental" /\ ~staged.there))
        THEN [there |-> TRUE,
              rows |-> Range(SubSeq(run.out, 1, (Len(run.out) \div BatchSize) * BatchSize))]
        ELSE staged

\* Mutation: the checkpoint is written whether the walk ended well or not.
FailRunCheckpoints(cost, keeps) ==
  /\ faults + cost <= MaxFaults
  /\ run' = Rest(IF keeps THEN "quarantined" ELSE "failed")
  /\ staged' = Torn
  /\ sound' = (sound /\ Torn = staged)
  /\ mark' = [mark EXCEPT ![Unscoped] = Larger(@, run.top[Unscoped])]
  /\ faults' = faults + cost
  /\ UNCHANGED <<source, connector, tombstones, touched>>

\* The walk raises: the run is over, watermark and tombstones stay.
FailRun(cost, keeps) ==
  /\ faults + cost <= MaxFaults
  /\ run' = Rest(IF keeps THEN "quarantined" ELSE "failed")
  /\ staged' = Torn
  /\ sound' = (sound /\ Torn = staged)
  /\ faults' = faults + cost
  /\ UNCHANGED <<source, connector, mark, tombstones, touched>>

\* 429 or 503: wait and ask again, MaxRetries times in all.
Throttle ==
  /\ faults < MaxFaults
  /\ \/ /\ run.tries + 1 < MaxRetries
        /\ run' = [run EXCEPT !.tries = @ + 1]
        /\ faults' = faults + 1
        /\ UNCHANGED <<source, connector, books, history>>
     \/ run.tries + 1 = MaxRetries /\ FailRun(1, FALSE)

(***************************************************************************)
(* The end of a walk.                                                      *)
(***************************************************************************)
\* Mutation: a backfill is added to the file.
PublishedOnTop ==
  IF run.out = <<>> \/ run.walk = "keys" THEN staged
  ELSE [there |-> TRUE, rows |-> Yielded \cup staged.rows]

\* Rows become the staged file: nothing is written when there are none, a
\* backfill replaces the file, a delta is appended to it.
Published ==
  IF run.out = <<>> \/ run.walk = "keys" THEN staged
  ELSE [there |-> TRUE,
        rows |-> Yielded \cup (IF run.walk = "incremental" THEN staged.rows ELSE {})]

\* The staged ids a scan can find again: where an id carries the day of
\* extraction, a scan of another day finds none.
Found == {IdsOf(Yielded)} \cup (IF connector.dated THEN {{}} ELSE {})

\* The anti-join of the key scan, or of a full snapshot with the one before it.
Deleted(snapshots, found) ==
  IF run.walk = "keys" \/ (snapshots /\ run.walk = "backfill" /\ run.out # <<>>)
  THEN IdsOf(staged.rows) \ found ELSE {}

\* The file and the tombstones are written, then the watermark.
CompleteRun(snapshots, newMark) ==
  /\ run.stage = "walked"
  /\ staged' = Published
  /\ \E found \in Found : tombstones' = tombstones \cup Deleted(snapshots, found)
  /\ mark' = IF run.walk = "incremental" THEN newMark ELSE mark
  /\ sound' = IF run.walk = "keys" THEN sound
              ELSE touched = {} /\ ~run.deaf /\ ~run.strayed
                   /\ (sound \/ (run.walk = "backfill" /\ run.out # <<>>))
  /\ run' = Rest("idle")
  /\ UNCHANGED <<source, connector, touched, faults>>

\* current_watermark of the stamp connectors: the largest stamp observed.
TopMark == [mark EXCEPT ![Unscoped] =
              IF run.top[Unscoped] > 0 THEN run.top[Unscoped] ELSE @]

ExtractionInit ==
  /\ erp \in Begins
  /\ clock = Max({0} \cup Range(erp)) /\ changes = 0
  /\ connector \in Connectors
  /\ staged = [there |-> FALSE, rows |-> {}]
  /\ mark = [s \in AllScopes |-> 0]
  /\ tombstones = {}
  /\ run = Rest("idle")
  /\ touched = {} /\ sound = TRUE
  /\ faults = 0
=============================================================================
