------------------------------ MODULE LinkWalks ------------------------------
(***************************************************************************)
(* Connectors that follow the link the server puts in a page: the linked   *)
(* profile of the cloud REST connector, whose links go on after the last   *)
(* row of the page, and Business Central, company by company, which asks   *)
(* for @odata.nextLink without its query.                                  *)
(***************************************************************************)
EXTENDS SourceExtraction

CONSTANTS Companies,    \* the configured companies, in order
          MinPageSize,  \* MIN_PAGE_SIZE
          ServerPages   \* rows a Business Central server puts in a page nobody sized

ASSUME LinkAssumption ==
  /\ Companies \in Seq(Scopes) /\ Companies # <<>> /\ IsInjective(Companies)
  /\ MinPageSize \in 1..PageSize /\ ServerPages \subseteq Nat \ {0}

BusinessCentral == "d365_bc"
CloudLinks == "cloud_links"

\* What a link continues: the rows after the last id of the page before.
After(ids, last) == {k \in ids : last = 0 \/ Place[last] < Place[k]}

(***************************************************************************)
(* Business Central.  pos is 0 for the connector's own request and 1 for a  *)
(* link's.  A link is asked for with empty parameters, in whose place the   *)
(* HTTP client drops the link's own query: the request begins the company's *)
(* listing again, without the filter, the selection, the lines of a         *)
(* document and the connector's page size.                                  *)
(***************************************************************************)
StartBusinessCentral == \E walk \in Walks : StartRun(BusinessCentral, walk, Companies, FALSE)

Continued == run.pos # 0
BcAsked == IF Continued THEN Live ELSE Newer(Since(Unscoped))
BcListing == Listed(BcAsked \cap InScope(Scope))
BcPageSizes == IF Continued THEN ServerPages ELSE {run.size}

\* Only the ledger selects its stamp; a request without a selection brings it.
BcStamped == Continued \/ (connector.shape = "list" /\ run.walk # "keys")
\* Documents yield their lines, which a continued page does not have.
BcYield(rows) == IF Continued /\ connector.shape = "documents" THEN <<>> ELSE VersionsOf(rows)

\* Stamps are observed across all pages and companies.
BusinessCentralPage == \E size \in BcPageSizes :
  /\ Walking(BusinessCentral) /\ Len(run.out) < MaxRows
  /\ \E rows \in {Page(BcListing, 0, size)} :
     LET seen == IF BcStamped THEN Observe(run, Unscoped, rows) ELSE run
         page == [seen EXCEPT !.out = @ \o BcYield(rows)]
     IN Answered(IF Len(BcListing) > size THEN [page EXCEPT !.pos = 1, !.strayed = TRUE]
                 ELSE NextScope(page))

\* 504: smaller pages from now on, when the URL is the connector's own.
BusinessCentralTimesOut ==
  /\ Walking(BusinessCentral) /\ faults < MaxFaults
  /\ \/ /\ run.tries + 1 < MaxRetries
        /\ run' = [run EXCEPT !.tries = @ + 1,
                     !.size = IF Continued THEN @ ELSE Larger(@ \div 2, MinPageSize)]
        /\ faults' = faults + 1
        /\ UNCHANGED <<source, connector, books, history>>
     \/ run.tries + 1 = MaxRetries /\ FailRun(1, FALSE)

BusinessCentralThrottled == Walking(BusinessCentral) /\ Throttle
\* The token service refuses; any other error status.
BusinessCentralLockedOut == Walking(BusinessCentral) /\ FailRun(1, FALSE)
BusinessCentralRefused == Walking(BusinessCentral) /\ FailRun(1, FALSE)
\* A body that is no page is kept.
BusinessCentralMalformed == Walking(BusinessCentral) /\ FailRun(1, TRUE)
CompleteBusinessCentral == connector.name = BusinessCentral /\ CompleteRun(FALSE, TopMark)

(***************************************************************************)
(* Cloud REST, the linked profile: empty parameters are not passed.        *)
(***************************************************************************)
StartCloudLinks == \E walk \in Walks, deaf \in BOOLEAN :
  StartRun(CloudLinks, walk, <<Unscoped>>, deaf)

CloudLinkListing == Listed(After(Newer(Since(Unscoped)), Offset(run.pos)))
CloudLinkRows == Page(CloudLinkListing, 0, PageSize)

CloudLinkPage ==
  /\ Walking(CloudLinks) /\ Len(run.out) < MaxRows
  /\ \E rows \in {CloudLinkRows} :
     LET seen == IF run.walk = "keys" THEN run ELSE Observe(run, Unscoped, rows)
         page == [seen EXCEPT !.out = @ \o VersionsOf(rows)]
     IN Answered(IF Len(CloudLinkListing) > PageSize
                 THEN [page EXCEPT !.pos = Last(rows)] ELSE NextScope(page))

CloudLinksThrottled == Walking(CloudLinks) /\ Throttle
CloudLinksRefused == Walking(CloudLinks) /\ FailRun(1, FALSE)
CompleteCloudLinks == connector.name = CloudLinks /\ CompleteRun(FALSE, TopMark)

LinkStep ==
  \/ BusinessCentralPage \/ BusinessCentralTimesOut \/ BusinessCentralThrottled
  \/ BusinessCentralLockedOut \/ BusinessCentralRefused \/ BusinessCentralMalformed
  \/ CompleteBusinessCentral
  \/ CloudLinkPage \/ CloudLinksThrottled \/ CloudLinksRefused \/ CompleteCloudLinks
=============================================================================
