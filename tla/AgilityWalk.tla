------------------------------ MODULE AgilityWalk ------------------------------
(***************************************************************************)
(* DMSi Agility: chunks behind a pointer that the server hands out; a      *)
(* rejected context is renewed once and the chunk walk begins again at     *)
(* pointer 0; orders are pulled customer by customer.                      *)
(***************************************************************************)
EXTENDS SourceExtraction

CONSTANT AgilityScopes  \* the configured customers, in order

ASSUME AgilityAssumption == AgilityScopes \in Seq(Scopes) /\ AgilityScopes # <<>>

Agility == "agility"

\* Documents take one chunk walk per customer, the rest one in all.
AgilityPlan == IF connector.shape = "documents" THEN AgilityScopes ELSE <<Unscoped>>
StartAgility == \E walk \in Walks : StartRun(Agility, walk, AgilityPlan, FALSE)

\* FetchOnlyChangedSince, where the method documents it.
AgilityAsked ==
  Listed(Newer(Since(Unscoped)) \cap InScope(Scope))
AgilityRows == Window(AgilityAsked, run.pos)

\* One chunk: stamps observed over every customer, rows yielded once in a run.
AgilityChunk ==
  /\ Walking(Agility)
  /\ \E rows \in {AgilityRows} : \E unseen \in {Unseen(rows)} :
     LET chunk == [Observe(run, Unscoped, rows) EXCEPT
                     !.out = @ \o VersionsOf(unseen), !.pos = @ + Len(rows)]
     IN Answered(IF chunk.pos < Len(AgilityAsked) THEN chunk ELSE NextScope(chunk))

\* The context is rejected: log in again and start this chunk walk over, once.
AgilityExpired ==
  /\ Walking(Agility) /\ faults < MaxFaults
  /\ \/ /\ ~run.renewed
        /\ run' = [run EXCEPT !.renewed = TRUE, !.pos = 0, !.tries = 0]
        /\ faults' = faults + 1
        /\ UNCHANGED <<source, connector, books, history>>
     \/ run.renewed /\ FailRun(1, FALSE)

AgilityThrottled == Walking(Agility) /\ Throttle

\* The login is refused or gives no context.
AgilityLockedOut == Walking(Agility) /\ FailRun(1, FALSE)

\* An error status or return code, a pointer that does not advance.
AgilityRefused == Walking(Agility) /\ FailRun(1, FALSE)

\* A body that is no chunk, or a detail whose header is in another, is kept.
AgilityMalformed == Walking(Agility) /\ FailRun(1, TRUE)

\* Only the watermark-capable surfaces move the mark.
CompleteAgility == connector.name = Agility /\ CompleteRun(FALSE, TopMark)

AgilityStep ==
  AgilityChunk \/ AgilityExpired \/ AgilityThrottled \/ AgilityLockedOut
  \/ AgilityRefused \/ AgilityMalformed \/ CompleteAgility
=============================================================================
