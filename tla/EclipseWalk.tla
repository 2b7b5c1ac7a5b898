------------------------------ MODULE EclipseWalk ------------------------------
(***************************************************************************)
(* Epicor Eclipse: numbered pages of a search, for document entities a     *)
(* detail call per row; one recovery of the session in a walk; a client-   *)
(* side page counter, so a recovered call is asked again as it was.        *)
(***************************************************************************)
EXTENDS SourceExtraction

Eclipse == "eclipse"

\* The one implemented way to run: configured, one scope, three kinds of walk.
StartEclipse == \E walk \in Walks, deaf \in BOOLEAN :
  StartRun(Eclipse, walk, <<Unscoped>>, deaf)

\* updatedAfter is sent on the surfaces that have it; a backfill sends the epoch.
EclipseAsked == Listed(Newer(Since(Unscoped)))
EclipseRows == Window(EclipseAsked, Offset(run.pos * PageSize))

\* Counting stamps in a key scan fails on an object that has not extracted:
\* _stamps_observed has no entry for the entity.
CountsStamps(rows) == Filterable /\ rows # <<>> => run.walk # "keys"

\* A page of a flat entity: stamps observed, rows staged once, short page ends.
EclipsePage ==
  /\ Walking(Eclipse) /\ connector.shape # "documents" /\ run.pos < MaxPages
  /\ CountsStamps(EclipseRows)
  /\ \E rows \in {EclipseRows} : \E unseen \in {Unseen(rows)} :
     LET page == [Observe(run, Unscoped, rows) EXCEPT !.out = @ \o VersionsOf(unseen), !.pos = @ + 1]
     IN Answered(IF Len(rows) < PageSize THEN NextScope(page) ELSE page)

\* A page of headers: their details are read before the next page.
EclipseHeaders ==
  /\ Walking(Eclipse) /\ connector.shape = "documents" /\ run.pend = <<>> /\ run.pos < MaxPages
  /\ CountsStamps(EclipseRows)
  /\ \E rows \in {EclipseRows} :
     LET page == [Observe(run, Unscoped, rows) EXCEPT
                    !.pend = rows, !.pos = @ + 1, !.last = Len(rows) < PageSize]
     IN Answered(IF rows = <<>> THEN NextScope(page) ELSE page)

\* The detail of the next header, as it is now; a header without one fails the run.
EclipseDetail ==
  /\ Walking(Eclipse) /\ run.pend # <<>>
  /\ LET id == Head(run.pend)
         read == [run EXCEPT !.pend = Tail(@), !.out = @ \o VersionsOf(Unseen(<<id>>))]
     IN IF id \in Live
        THEN Answered(IF read.last /\ read.pend = <<>> THEN NextScope(read) ELSE read)
        ELSE FailRun(0, FALSE)

\* The stamp count of a key scan: KeyError.
EclipseUncounted ==
  /\ Walking(Eclipse) /\ run.pend = <<>> /\ run.pos < MaxPages
  /\ ~CountsStamps(EclipseRows)
  /\ FailRun(0, FALSE)

\* Mutation: there is no guard.
EclipseSpinsOn == FALSE

\* The page guard: refuse to spin.
EclipseSpins ==
  /\ Walking(Eclipse) /\ run.pend = <<>> /\ run.pos = MaxPages
  /\ FailRun(0, FALSE)

\* The session is rejected: refreshed or opened anew and the same call repeated,
\* once in a walk.
EclipseRejected ==
  /\ Walking(Eclipse) /\ faults < MaxFaults
  /\ \/ /\ ~run.renewed
        /\ run' = [run EXCEPT !.renewed = TRUE, !.tries = 0]
        /\ faults' = faults + 1
        /\ UNCHANGED <<source, connector, books, history>>
     \/ run.renewed /\ FailRun(1, FALSE)

\* Neither refresh nor login gives a session.
EclipseLockedOut == Walking(Eclipse) /\ FailRun(1, FALSE)

EclipseThrottled == Walking(Eclipse) /\ Throttle

\* Any other error status fails the run, an unbuilt search index among them.
EclipseRefused == Walking(Eclipse) /\ FailRun(1, FALSE)

\* A body that is no page of rows, a detail without lines or a row without its
\* key is kept in quarantine and fails the run.
EclipseMalformed == Walking(Eclipse) /\ FailRun(1, TRUE)

\* The payload carries no stamp although rows came: the file is written, the
\* checkpoint refused.
EclipseUnstamped ==
  /\ connector.name = Eclipse /\ run.stage = "walked" /\ faults < MaxFaults
  /\ run.walk = "incremental" /\ Filterable /\ run.out # <<>>
  /\ staged' = Published
  /\ sound' = (sound /\ touched = {})
  /\ run' = Rest("failed")
  /\ faults' = faults + 1
  /\ UNCHANGED <<source, connector, mark, tombstones, touched>>

CompleteEclipse == connector.name = Eclipse /\ CompleteRun(FALSE, TopMark)

EclipseStep ==
  \/ EclipsePage \/ EclipseHeaders \/ EclipseDetail \/ EclipseUncounted \/ EclipseSpins
  \/ EclipseRejected \/ EclipseLockedOut \/ EclipseThrottled \/ EclipseRefused
  \/ EclipseMalformed
  \/ EclipseUnstamped \/ CompleteEclipse
=============================================================================
