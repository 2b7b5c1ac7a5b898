---------------------------- MODULE ErpExtraction ----------------------------
(***************************************************************************)
(* A source behind one of the ERP connectors: the ERP and its users, the   *)
(* connector's walk, and the books of the control plane, composed.         *)
(***************************************************************************)
EXTENDS EclipseWalk, AgilityWalk, OffsetWalks, LinkWalks, QueryScans

Start ==
  \/ StartEclipse \/ StartAgility \/ StartNetsuite \/ StartP21 \/ StartEssbase
  \/ StartCloudPages \/ StartBusinessCentral \/ StartCloudLinks
  \/ StartBisTrack \/ StartLegacySql

Step == EclipseStep \/ AgilityStep \/ OffsetStep \/ LinkStep \/ QueryStep

Next ==
  \/ \E k \in Keys, deletes \in BOOLEAN : ChangeErp(k, deletes)
  \/ Start
  \/ Step

Spec == ExtractionInit /\ [][Next]_vars

\* A run that is not disturbed takes its next step: no step may wait for a
\* fault.  Backfills are scheduled again and again.
Fairness ==
  /\ WF_vars(Step /\ faults' = faults)
  /\ SF_vars(Start /\ run'.walk = "backfill" /\ ~run'.deaf)
FairSpec == Spec /\ Fairness

(***************************************************************************)
(* Properties.                                                             *)
(***************************************************************************)
\* The state has the shape of the ERP, the control-plane store and a run.
TypeOK ==
  /\ erp \in [Keys -> Stamps] /\ clock \in Stamps /\ changes \in 0..MaxChanges
  /\ connector \in Connectors
  /\ staged \in [there: BOOLEAN, rows: SUBSET Versions]
  /\ mark \in [AllScopes -> Nat] /\ tombstones \subseteq Keys
  /\ run \in Runs
  /\ touched \subseteq Keys /\ sound \in BOOLEAN /\ faults \in 0..MaxFaults

\* The scopes that the source is configured to pull.
Plan == CASE connector.name = Agility         -> AgilityPlan
          [] connector.name = BusinessCentral -> Companies
          [] connector.name = BisTrack        -> ScanPlan
          [] OTHER                            -> <<Unscoped>>
Pulled == Live \cap UNION {InScope(s) : s \in Range(Plan)}

\* What a run has to yield: everything, or what changed after the watermark.
TypeMark(k) == IF DocumentTypes = <<>> THEN mark[Unscoped] ELSE mark[ScopeOf[k]]
Filters == run.walk = "incremental" /\ Filterable /\ connector.name # Essbase
Due(k) ==
  Filters => IF connector.name = BisTrack THEN Number[k] > TypeMark(k)
             ELSE erp[k] > mark[Unscoped]
Wanted == {k \in Pulled : Due(k)}

\* A walk that left its way and does not know: it followed a link without the
\* link's query, stopped at the page limit, passed over a header without a key,
\* or takes the pages of a server that ignores paging for new ones.  Eclipse
\* knows: it raises at its page guard.
Astray == run.strayed \/ (run.deaf /\ connector.name # Eclipse)
Keyset == connector.name \in {BusinessCentral, CloudLinks, BisTrack, LegacySql}
Counting == connector.name \in {Netsuite, P21, Essbase, CloudPages}

\* A walk of an ERP that stood still yields exactly what was asked for, in spite
\* of pages asked again, sessions renewed and walks restarted (the _iter_records
\* of every connector); a tenant that ignores Eclipse's paging never gets this far.
UndisturbedWalkIsComplete ==
  run.stage = "walked" /\ touched = {} /\ ~Astray => Yielded = {Version(k) : k \in Wanted}

\* Where the next page is asked for by the last row and not by a count, rows that
\* nobody changed are never lost, whatever happens to the rest during the walk.
KeysetLosesNothing ==
  run.stage = "walked" /\ Keyset /\ ~Astray =>
    \A k \in Wanted \ touched : Version(k) \in Yielded

\* No run yields an id twice: Eclipse and Agility remember what they yielded,
\* keyset walks cannot meet it again, counting walks may when rows moved.
NothingYieldedTwice ==
  ~(Counting /\ touched # {}) /\ ~Astray => IsInjective([i \in 1..Len(run.out) |-> run.out[i][1]])

\* What the watermark covers is staged, or no incremental run would ever bring
\* it: pages come in the order of ids and companies in the order of the setting,
\* so a run that fails on its way must not move the watermark over the rows it
\* did not get to, nor one company's stamps over another's (extract writes the
\* checkpoint after the file).
MarkIsCovered ==
  sound /\ connector.name # BisTrack =>
    \A k \in Pulled : erp[k] <= mark[Unscoped] => Version(k) \in staged.rows

\* A key scan, or a full snapshot, of an ERP that stands still tombstones what is
\* gone and nothing else (reconcile_deletes, _reconcile_full_snapshot), except
\* where the ids carry the day they were extracted.
LiveKeysNotTombstoned ==
  [][touched = {} /\ ~Astray /\ ~connector.dated => (tombstones' \ tombstones) \cap Pulled = {}]_vars

\* Every run ends, answered or refused: paging behind a guard, a pointer or a
\* query whatever the server does, the rest unless it went astray.
Unguarded == connector.name \in {BusinessCentral, CloudLinks, Netsuite, P21}
EveryRunEnds == ~Resting ~> Resting \/ (Unguarded /\ Astray)

\* When the ERP stands still, calls are answered and walks do not go astray for
\* ever, the file comes to hold what the ERP holds, and keeps it.
CatchesUp ==
  <>[]~Astray => <>[](Pulled = {} \/ staged.rows = {Version(k) : k \in Pulled})

\* "fails the run - never a silent drop, never a partial promote": a run that
\* fails leaves the staged file as it was.  Violated: a backfill writes in
\* place, and closes the file over the rows it had when the walk failed.
FailedRunPromotesNothing ==
  [][run.stage = "walking" /\ run'.stage \in Failures => staged' = staged]_vars

\* "nextLink carries the query with it": the page behind a link goes on where the
\* page before ended.  Violated: the link is asked for with empty parameters,
\* which the HTTP client puts in the place of its query.
LinksContinueTheListing ==
  connector.name = BusinessCentral /\ touched = {} =>
    IsInjective([i \in 1..Len(run.out) |-> run.out[i][1]])

\* "the scheduled anti-join reconciliation tombstones vanished keys": a key scan
\* that no call was refused to, of an ERP that stands still, comes to its end.
\* Violated: an Eclipse key scan looks up a counter that only a walk of records sets,
\* and Prophet 21's of the inventory a date that only such a walk puts there.
KeyScansEnd ==
  [][run.stage = "walking" /\ run'.stage \in Failures /\ run.walk = "keys" =>
       faults' > faults \/ touched # {} \/ run.deaf]_vars

\* "the scheduled anti-join reconciliation tombstones vanished keys", of an ERP
\* that stands still and heeds paging, and no other.  Violated: the ids of a dated
\* snapshot carry the day of the extraction, and a scan of another day finds none
\* of them; a scan that follows a link or stops at the page limit has not seen all.
ScansTombstoneVanishedOnly ==
  [][touched = {} /\ ~run.deaf => (tombstones' \ tombstones) \cap Pulled = {}]_vars
=============================================================================
