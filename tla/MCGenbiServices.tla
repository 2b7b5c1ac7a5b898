--------------------------- MODULE MCGenbiServices ---------------------------
(* A queue of two questions; statements around the row cap and of each kind   *)
(* that is refused; a room where a grant comes by role, by name or not at all *)
(* and policies that are malformed; two tool lists; answers to a pinned question *)
(* that agree, contradict or cannot be compared, and to one that is not.      *)
EXTENDS GenbiServices

AskedDef == {<<"q1", "why">>, <<"q1", "how">>, <<"q2", Blank>>}

Statement(parts, select, reader, keyword, rows, valid) ==
  [parts |-> parts, select |-> select, reader |-> reader, keyword |-> keyword,
   rows |-> rows, valid |-> valid]
StatementsDef ==
  {Statement(1, TRUE, FALSE, FALSE, n, TRUE) : n \in {0, 1, 2, 3, Endless}}
    \cup {Statement(0, FALSE, FALSE, FALSE, 0, TRUE), Statement(2, TRUE, FALSE, FALSE, 1, TRUE),
          Statement(1, FALSE, FALSE, FALSE, 1, TRUE), Statement(1, TRUE, TRUE, FALSE, 1, TRUE),
          Statement(1, TRUE, FALSE, TRUE, 1, TRUE), Statement(1, TRUE, FALSE, FALSE, 1, FALSE)}
UrisDef == [duckdb : BOOLEAN, readOnly : BOOLEAN]

Ann == <<"principal", "ann">>
Manager == <<"role", "manager">>
PolicyOf(roles, east, west) ==
  [roles |-> [p \in Principals |-> roles], rooms |-> [r \in Rooms |-> IF r = "east" THEN east ELSE west]]
Grants(g1, g2) == [d \in Documents |-> IF d = "d1" THEN g1 ELSE g2]
PoliciesDef ==
  {PolicyOf({"manager"}, Grants({Manager}, {Ann}), NoEntry),
   PolicyOf({}, Grants({Manager}, {Ann}), Grants({Ann}, NoEntry)),
   PolicyOf({"manager"}, Grants(Malformed, {Manager}), NoEntry),
   PolicyOf(Malformed, Grants({Ann}, {}), NoEntry),
   PolicyOf(NoEntry, NoEntry, Grants({Manager}, {Ann}))}

Answer(q, rows, number, by) ==
  [question |-> q, written |-> TRUE, analytical |-> q = "margin", backed |-> TRUE,
   select |-> TRUE, rows |-> rows, number |-> number, by |-> by]
AnswersDef ==
  {Answer("sales", 1, 7, NoOne), Answer("sales", 2, NoOne, NoOne), Answer("sales", 1, 7, "bob"),
   Answer("sales", 2, NoOne, "bob"), Answer("margin", 0, NoOne, NoOne)}
GoldensDef == {[q \in {"sales", "margin"} |-> IF q = "sales" THEN {n} ELSE {}] : n \in {7, 8}}
Deployment(production, key, humanLock, database) ==
  [production |-> production, key |-> key, humanLock |-> humanLock, bounded |-> TRUE,
   readOnly |-> TRUE, database |-> database]
DeploymentsDef ==
  {Deployment(FALSE, "unset", FALSE, 1), Deployment(TRUE, "own", FALSE, 1),
   Deployment(TRUE, "own", TRUE, 1), Deployment(TRUE, "dev", FALSE, 1)}
=============================================================================
