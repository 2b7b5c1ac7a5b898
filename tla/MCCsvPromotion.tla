--------------------------- MODULE MCCsvPromotion ---------------------------
(* Instances of CsvPromotion for TLC: two contents with rows for the first *)
(* entity, and one with a header only for the second.                      *)
EXTENDS CsvPromotion

CONSTANTS items, vendors,  \* entities
          i1, i2, v0       \* contents

SchemaOfContent == [f \in Contents |-> IF f = v0 THEN vendors ELSE items]
RowsOfContent == [f \in Contents |-> IF f = v0 THEN 0 ELSE 1]
ItemsLeft == {[e \in Entities |-> IF e = items THEN i2 ELSE None]}
=============================================================================
