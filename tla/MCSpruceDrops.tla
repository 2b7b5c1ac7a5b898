---------------------------- MODULE MCSpruceDrops ----------------------------
(* Three batches in the order of their reports, and the second regenerated   *)
(* under its id; a manifest without the file and a content that is broken.   *)
EXTENDS SpruceDrops

CONSTANTS c1, c2, c3, cut  \* contents

Report(b, g, c) == [batch |-> b, generated |-> g, sha |-> c]
ThreeBatches == {Report(1, 1, c1), Report(2, 2, c2), Report(3, 3, c3), Report(2, 3, c3)}
TwoBatches == {Report(1, 1, c1), Report(2, 2, c2), Report(3, 3, c3)}
IdsInDef == [c \in Contents |-> CASE c = c1 -> {1, 2} [] c = c2 -> {1} [] c = c3 -> {2}
                                  [] OTHER -> {1}]
=============================================================================
