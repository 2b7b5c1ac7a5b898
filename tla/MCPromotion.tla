---------------------------- MODULE MCPromotion ----------------------------
(* Instances of Promotion for TLC: what is asked and approved. *)
EXTENDS Promotion

CONSTANTS q1, q2,   \* questions
          s1, s2,   \* answers' SQL
          d1, d2,   \* promotion dates
          con,      \* the confirmer
          m1,       \* a mart table
          r1,       \* a receipt
          h1, h2    \* handler threads

Asked(q, s, d, t, a) == [question |-> q, sql |-> s, day |-> d, table |-> t, actor |-> a]

\* Every receipt binds the first answer to the first question.
BindsFirst == [x \in Receipts |-> Asked(q1, s1, d1, None, con)]

\* The approved answer, another SQL under the same approval, the same question on
\* a later day and on the mart table, and the other question.
AskedAnyhow == {Asked(q1, s1, d1, None, con), Asked(q1, s2, d1, None, con),
                Asked(q1, s2, d2, None, None), Asked(q1, s1, d1, m1, None),
                Asked(q2, s1, d1, None, None)}

\* Two questions, which nobody confirms.
AskedApart == {Asked(q, s1, d1, None, None) : q \in Questions}
=============================================================================
