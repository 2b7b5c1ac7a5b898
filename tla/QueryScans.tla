------------------------------ MODULE QueryScans ------------------------------
(***************************************************************************)
(* Connectors that read a database: BisTrack, a keyset scan per document   *)
(* type over document numbers, and the legacy SQL sources, one SELECT.     *)
(* A record is one document with one line.                                 *)
(***************************************************************************)
EXTENDS SourceExtraction

CONSTANTS DocumentTypes, \* the configured types, sorted; none: scan unscoped
          Number         \* [Keys -> document number]

ASSUME QueryAssumption ==
  /\ DocumentTypes \in Seq(Scopes) /\ IsInjective(DocumentTypes)
  /\ Number \in [Keys -> Nat \ {0}]
  \* "separate numbering per document type": a scan meets a number once
  /\ \A j, k \in Keys :
       Number[j] = Number[k] /\ (DocumentTypes = <<>> \/ ScopeOf[j] = ScopeOf[k]) => j = k

BisTrack == "bistrack"
LegacySql == "legacy_sql"

(***************************************************************************)
(* BisTrack.  pos is the number that the page before ended with.           *)
(***************************************************************************)
ScanPlan == IF DocumentTypes = <<>> THEN <<Unscoped>> ELSE DocumentTypes
Planned == UNION {InScope(s) : s \in Range(ScanPlan)}

StartBisTrack == \E walk \in Walks : StartRun(BisTrack, walk, ScanPlan, FALSE)

\* Mutation: one watermark for all types.
BisTrackAskedOnce ==
  {k \in Live \cap InScope(Scope) : Number[k] > Since(Last(ScanPlan)) /\ Number[k] > run.pos}

\* WHERE number > the type's watermark AND number > the page before, by number.
BisTrackAsked == {k \in Live \cap InScope(Scope) : Number[k] > Since(Scope) /\ Number[k] > run.pos}
ByNumber(ids) == InOrder(ids, Number)
BisTrackRows == Page(ByNumber(BisTrackAsked), 0, PageSize)

\* Numbers are observed per type and in incremental runs only.
ObserveNumbers(r, rows) ==
  IF r.walk # "incremental" THEN r
  ELSE [r EXCEPT !.top[Scope] = Max({@} \cup {Number[k] : k \in Range(rows)})]

BisTrackPage ==
  /\ Walking(BisTrack) /\ run.walk # "keys"
  /\ \E rows \in {BisTrackRows} :
     LET page == [ObserveNumbers(run, rows) EXCEPT !.out = @ \o VersionsOf(rows)]
     IN Answered(IF Len(rows) < PageSize THEN NextScope(page)
                 ELSE [page EXCEPT !.pos = Number[Last(rows)]])

\* The key inventory is one query over the configured types.
BisTrackKeys ==
  /\ Walking(BisTrack) /\ run.walk = "keys"
  /\ Answered([run EXCEPT !.out = VersionsOf(Listed(Live \cap Planned)), !.stage = "walked"])

\* The connection or a statement fails.
BisTrackRefused == Walking(BisTrack) /\ FailRun(1, FALSE)

\* A row of the wrong width or with a missing key is kept.
BisTrackMalformed == Walking(BisTrack) /\ FailRun(1, TRUE)

\* The stored maxima merged with this run's, per type.
CompleteBisTrack ==
  connector.name = BisTrack /\ CompleteRun(FALSE, [s \in AllScopes |-> Larger(mark[s], run.top[s])])

(***************************************************************************)
(* Legacy SQL: ODBC, JDBC, DataDirect, Sybase.                             *)
(***************************************************************************)
StartLegacySql == \E walk \in Walks : StartRun(LegacySql, walk, <<Unscoped>>, FALSE)

LegacyRows == Listed(Newer(Since(Unscoped)))

\* The rows are fetched before the first is yielded.
LegacySelect ==
  /\ Walking(LegacySql)
  /\ \E rows \in {LegacyRows} :
     LET seen == IF run.walk = "incremental" THEN Observe(run, Unscoped, rows) ELSE run
     IN Answered([seen EXCEPT !.out = VersionsOf(rows), !.stage = "walked"])

LegacyRefused == Walking(LegacySql) /\ FailRun(1, FALSE)
CompleteLegacySql == connector.name = LegacySql /\ CompleteRun(FALSE, TopMark)

QueryStep ==
  \/ BisTrackPage \/ BisTrackKeys \/ BisTrackRefused \/ BisTrackMalformed \/ CompleteBisTrack
  \/ LegacySelect \/ LegacyRefused \/ CompleteLegacySql
=============================================================================
