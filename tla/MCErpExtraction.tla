--------------------------- MODULE MCErpExtraction ---------------------------
(* Three records, two scopes, pages of two rows.                           *)
EXTENDS ErpExtraction

ScopeOfDef == (1 :> "a") @@ (2 :> "b") @@ (3 :> "a")
NumberDef == (1 :> 2) @@ (2 :> 2) @@ (3 :> 1)
PlaceDef == (1 :> 1) @@ (2 :> 2) @@ (3 :> 3)
PlanDef == <<"a", "b">>
BeginsDef == {<<0, 1, 2>>, <<2, 3, 1>>}

Entity(n, s, d) == [name |-> n, shape |-> s, dated |-> d]
Plain(names, shapes) == {Entity(n, s, FALSE) : n \in names, s \in shapes}
AllConnectors ==
  Plain({Eclipse, P21, Essbase}, {"list", "documents"})
  \cup Plain({Agility}, {"list", "documents", "sweep"})
  \cup Plain({BusinessCentral}, {"list", "documents", "blind"})
  \cup Plain({Netsuite, LegacySql}, {"list", "sweep"})
  \cup Plain({CloudPages, CloudLinks, BisTrack}, {"list"})
  \cup {Entity(Eclipse, "sweep", TRUE), Entity(Agility, "sweep", TRUE), Entity(P21, "list", TRUE)}

Ledger == Plain({BusinessCentral}, {"list"})
=============================================================================
