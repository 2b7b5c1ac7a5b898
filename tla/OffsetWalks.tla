------------------------------ MODULE OffsetWalks ------------------------------
(***************************************************************************)
(* Connectors that ask for a window of rows by its offset: NetSuite        *)
(* (LIMIT/OFFSET), Prophet 21 ($skip), Essbase (offset), and the paged     *)
(* profile of the cloud REST connector.  None of them remembers what it    *)
(* has yielded.                                                            *)
(***************************************************************************)
EXTENDS SourceExtraction

CONSTANTS CloudPageSize,  \* rows of a page, a setting of the tenant
          PageLimit       \* PAGE_LIMIT, the guardrail of the paged profile

ASSUME OffsetAssumption == CloudPageSize \in Nat \ {0} /\ PageLimit \in Nat \ {0}

Netsuite == "netsuite"
P21 == "p21"
Essbase == "essbase"
CloudPages == "cloud_pages"

(***************************************************************************)
(* NetSuite.                                                               *)
(***************************************************************************)
StartNetsuite == \E walk \in Walks, deaf \in BOOLEAN :
  StartRun(Netsuite, walk, <<Unscoped>>, deaf)

\* ORDER BY the key, last_modified > the watermark.
NetsuiteRows == Window(Listed(Newer(Since(Unscoped))), Offset(run.pos))

NetsuitePage ==
  /\ Walking(Netsuite) /\ Len(run.out) < MaxRows
  /\ \E rows \in {NetsuiteRows} :
     LET page == [Observe(run, Unscoped, rows) EXCEPT
                    !.out = @ \o VersionsOf(rows), !.pos = @ + PageSize]
     IN Answered(IF Len(rows) < PageSize THEN NextScope(page) ELSE page)

\* The key scan pages the same query without observing stamps.
NetsuiteThrottled == Walking(Netsuite) /\ Throttle
NetsuiteRefused == Walking(Netsuite) /\ FailRun(1, FALSE)
NetsuiteMalformed == Walking(Netsuite) /\ FailRun(1, TRUE)
CompleteNetsuite == connector.name = Netsuite /\ CompleteRun(FALSE, TopMark)

(***************************************************************************)
(* Prophet 21: lines are fetched per header.  The inventory's rows carry   *)
(* no snapshot date, which only a walk of records puts into their ids.     *)
(***************************************************************************)
StartP21 == \E walk \in Walks, deaf \in BOOLEAN : StartRun(P21, walk, <<Unscoped>>, deaf)

\* $orderby the key, date_last_modified gt the watermark.
P21Rows == Window(Listed(Newer(Since(Unscoped))), Offset(run.pos))

\* The key scan of the inventory looks up the date in a row that has none.
Undated == connector.dated /\ run.walk = "keys" /\ P21Rows # <<>>

P21Page ==
  /\ Walking(P21) /\ run.pend = <<>> /\ ~Undated /\ Len(run.out) < MaxRows
  /\ \E rows \in {P21Rows} :
     LET seen == [Observe(run, Unscoped, rows) EXCEPT
                    !.pos = @ + PageSize, !.last = Len(rows) < PageSize, !.renewed = FALSE]
         page == IF connector.shape = "list" THEN [seen EXCEPT !.out = @ \o VersionsOf(rows)]
                 ELSE [seen EXCEPT !.pend = rows]
     IN Answered(IF page.last /\ page.pend = <<>> THEN NextScope(page) ELSE page)

\* KeyError.
P21Undated == Walking(P21) /\ run.pend = <<>> /\ Undated /\ FailRun(0, FALSE)

\* Mutation: a header that is gone is staged all the same.
P21LinesAnyway ==
  /\ Walking(P21) /\ run.pend # <<>>
  /\ LET read == [run EXCEPT !.pend = Tail(@), !.out = Append(@, Version(Head(run.pend))),
                            !.renewed = FALSE]
     IN Answered(IF read.last /\ read.pend = <<>> THEN NextScope(read) ELSE read)

\* The lines of a header that is gone are none.
P21Lines ==
  /\ Walking(P21) /\ run.pend # <<>>
  /\ LET id == Head(run.pend)
         read == [run EXCEPT !.pend = Tail(@),
                    !.out = IF id \in Live THEN Append(@, Version(id)) ELSE @, !.renewed = FALSE]
     IN Answered(IF read.last /\ read.pend = <<>> THEN NextScope(read) ELSE read)

\* A header without its key is passed over, and its lines are never asked for.
P21Keyless ==
  /\ Walking(P21) /\ run.pend # <<>> /\ faults < MaxFaults
  /\ LET passed == [run EXCEPT !.pend = Tail(@), !.strayed = TRUE]
     IN run' = IF passed.last /\ passed.pend = <<>> THEN NextScope(passed) ELSE passed
  /\ faults' = faults + 1
  /\ UNCHANGED <<source, connector, books, history>>

\* A lapsed token is minted again and the request repeated, once a request.
P21Unauthorized ==
  /\ Walking(P21) /\ faults < MaxFaults
  /\ \/ /\ ~run.renewed
        /\ run' = [run EXCEPT !.renewed = TRUE]
        /\ faults' = faults + 1
        /\ UNCHANGED <<source, connector, books, history>>
     \/ run.renewed /\ FailRun(1, FALSE)

P21Throttled == Walking(P21) /\ Throttle
\* The token service refuses or answers without a token.
P21LockedOut == Walking(P21) /\ FailRun(1, FALSE)
P21Refused == Walking(P21) /\ FailRun(1, FALSE)
P21Malformed == Walking(P21) /\ FailRun(1, TRUE)
CompleteP21 == connector.name = P21 /\ CompleteRun(FALSE, TopMark)

(***************************************************************************)
(* Essbase: applications, and the cubes of each; always everything, as a   *)
(* full snapshot; no key scan and no retries.                              *)
(***************************************************************************)
StartEssbase == \E walk \in Walks \ {"keys"}, deaf \in BOOLEAN :
  StartRun(Essbase, walk, <<Unscoped>>, deaf)

EssbaseRows == Window(Listed(Live), Offset(run.pos))

\* offset moves by what came; a short page ends the list, and so does the total
\* where the answer has one.
EssbasePage == \E total \in BOOLEAN :
  /\ Walking(Essbase) /\ run.pend = <<>> /\ run.pos < MaxPages * PageSize
  /\ \E rows \in {EssbaseRows} :
     LET ends == Len(rows) < PageSize \/ (total /\ run.pos + Len(rows) >= Len(Listed(Live)))
         seen == [run EXCEPT !.pos = @ + Len(rows), !.last = ends]
         page == IF connector.shape = "list" THEN [seen EXCEPT !.out = @ \o VersionsOf(rows)]
                 ELSE [seen EXCEPT !.pend = rows]
     IN Answered(IF page.last /\ page.pend = <<>> THEN NextScope(page) ELSE page)

\* The databases of an application; of one that is gone the call fails.
EssbaseCubes ==
  /\ Walking(Essbase) /\ run.pend # <<>>
  /\ LET id == Head(run.pend)
         read == [run EXCEPT !.pend = Tail(@), !.out = Append(@, Version(id))]
     IN IF id \in Live
        THEN Answered(IF read.last /\ read.pend = <<>> THEN NextScope(read) ELSE read)
        ELSE FailRun(0, FALSE)

EssbaseSpins ==
  /\ Walking(Essbase) /\ run.pend = <<>> /\ run.pos >= MaxPages * PageSize
  /\ FailRun(0, FALSE)

EssbaseRefused == Walking(Essbase) /\ FailRun(1, FALSE)
CompleteEssbase == connector.name = Essbase /\ CompleteRun(TRUE, mark)

(***************************************************************************)
(* Cloud REST, the paged profile.                                          *)
(***************************************************************************)
StartCloudPages == \E walk \in Walks, deaf \in BOOLEAN :
  StartRun(CloudPages, walk, <<Unscoped>>, deaf)

CloudAsked == Listed(Newer(Since(Unscoped)))
CloudRows == Page(CloudAsked, Offset(run.pos * CloudPageSize), CloudPageSize)

\* A short page ends the walk, and so, without a word, does the page limit.
CloudPage ==
  /\ Walking(CloudPages)
  /\ \E rows \in {CloudRows} :
     LET page == [Observe(run, Unscoped, rows) EXCEPT
                    !.out = @ \o VersionsOf(rows), !.pos = @ + 1,
                    !.strayed = @ \/ (run.pos + 1 = PageLimit
                                       /\ PageLimit * CloudPageSize < Len(CloudAsked))]
     IN Answered(IF Len(rows) < CloudPageSize \/ page.pos = PageLimit THEN NextScope(page)
                 ELSE page)

CloudPagesThrottled == Walking(CloudPages) /\ Throttle
\* No token, an error status, or a page that is no array: nothing is kept.
CloudPagesRefused == Walking(CloudPages) /\ FailRun(1, FALSE)
CompleteCloudPages == connector.name = CloudPages /\ CompleteRun(FALSE, TopMark)

OffsetStep ==
  \/ NetsuitePage \/ NetsuiteThrottled \/ NetsuiteRefused \/ NetsuiteMalformed \/ CompleteNetsuite
  \/ P21Page \/ P21Undated \/ P21Lines \/ P21Keyless \/ P21Unauthorized \/ P21Throttled \/ P21LockedOut
  \/ P21Refused \/ P21Malformed \/ CompleteP21
  \/ EssbasePage \/ EssbaseCubes \/ EssbaseSpins \/ EssbaseRefused \/ CompleteEssbase
  \/ CloudPage \/ CloudPagesThrottled \/ CloudPagesRefused \/ CompleteCloudPages
=============================================================================
