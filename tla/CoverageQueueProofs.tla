-------------------------- MODULE CoverageQueueProofs --------------------------
(***************************************************************************)
(* Proofs about CoverageQueue, for any requests, questions, reasons and    *)
(* number of deaths: no line counts more requests than were made, and      *)
(* under one lock the file counts them all.                                *)
(***************************************************************************)
EXTENDS CoverageQueue, FiniteSetTheorems, SequenceTheorems, WellFoundedInduction, TLAPS

\* Every set of naturals that is not empty has a least element.
LEMMA LeastElement ==
  ASSUME NEW T, T \subseteq Nat, T # {}
  PROVE  \E x \in T : \A y \in T : x <= y
<1> DEFINE R == {ss \in Nat \X Nat : ss[1] < ss[2]}
<1>1. OpToRel(<, Nat) = R
  BY DEF OpToRel
<1>2. IsWellFoundedOn(R, Nat)
  BY <1>1, NatLessThanWellFounded
<1>3. PICK x \in T : \A y \in T : ~(<<y, x>> \in R)
  <2> HIDE DEF R
  <2> QED
    BY <1>2, WFMin
<1>4. ASSUME NEW y \in T PROVE x <= y
  <2>1. <<y, x>> \in Nat \X Nat
    BY <1>3
  <2> QED
    BY <1>3, <2>1
<1> QED
  BY <1>4

(***************************************************************************)
(* Shapes, and what a line may count.                                      *)
(***************************************************************************)
AskedQuestions == {ask[1] : ask \in Asked}
AskedReasons == {ask[2] : ask \in Asked}
QueueLine == [question : AskedQuestions, count : Nat,
              reasons : SUBSET AskedReasons, last : Nat]

\* A request whose file was read as its own record knows what it will write.
RequestOK(x) ==
  /\ x = [pc |-> x.pc, op |-> x.op, question |-> x.question, reason |-> x.reason,
          records |-> x.records]
  /\ x.op = "record" => x.question \in AskedQuestions /\ x.reason \in AskedReasons
  /\ x.pc \in {"truncate", "write"} => x.op = "record" /\ x.records \in Seq(QueueLine)

CoverageShape ==
  /\ queue \in [lines : Seq(QueueLine), cut : BOOLEAN]
  /\ requests = [r \in Requests |-> requests[r]]
  /\ \A r \in Requests : RequestOK(requests[r])
  /\ stamp \in Nat /\ deaths \in Nat

\* The requests that a line for q may count: those that got as far as changing it.
Counting == {"truncate", "write", "done", "died"}
Made(reqs, q) ==
  {r \in Requests : reqs[r].op = "record" /\ reqs[r].question = q /\ reqs[r].pc \in Counting}

Within(reqs, lines) ==
  \A i \in 1 .. Len(lines) : lines[i].count <= Cardinality(Made(reqs, lines[i].question))

Bounded ==
  /\ Within(requests, queue.lines)
  /\ \A r \in Requests :
       requests[r].pc \in {"truncate", "write"} => Within(requests, requests[r].records)

LEMMA MadeFinite ==
  ASSUME NEW reqs, NEW q
  PROVE  IsFiniteSet(Made(reqs, q)) /\ Cardinality(Made(reqs, q)) \in Nat
<1>1. Made(reqs, q) \subseteq Requests
  BY DEF Made
<1> QED
  BY <1>1, CoverageAssumption, FS_Subset, FS_CardinalityType

\* No request that counts ever stops counting.
Grows(reqs, next) ==
  \A r \in Requests : reqs[r].pc \in Counting =>
    next[r].pc \in Counting /\ next[r].op = reqs[r].op /\ next[r].question = reqs[r].question

LEMMA MadeGrows ==
  ASSUME NEW reqs, NEW next, Grows(reqs, next), NEW q
  PROVE  Made(reqs, q) \subseteq Made(next, q)
           /\ Cardinality(Made(reqs, q)) <= Cardinality(Made(next, q))
<1>1. Made(reqs, q) \subseteq Made(next, q)
  BY DEF Made, Grows
<1> QED
  BY <1>1, MadeFinite, FS_Subset

LEMMA LineTyped ==
  ASSUME NEW lines \in Seq(QueueLine), NEW i \in 1 .. Len(lines)
  PROVE  lines[i] \in QueueLine /\ lines[i].count \in Nat /\ lines[i].question \in AskedQuestions
<1>1. lines[i] \in QueueLine
  OBVIOUS
<1> QED
  BY <1>1 DEF QueueLine

LEMMA WithinGrows ==
  ASSUME NEW reqs, NEW next, Grows(reqs, next), NEW lines \in Seq(QueueLine), Within(reqs, lines)
  PROVE  Within(next, lines)
<1> SUFFICES ASSUME NEW i \in 1 .. Len(lines)
             PROVE  lines[i].count <= Cardinality(Made(next, lines[i].question))
  BY DEF Within
<1> DEFINE q == lines[i].question
<1>1. lines[i].count \in Nat /\ lines[i].count <= Cardinality(Made(reqs, q))
  BY LineTyped DEF Within
<1>2. Cardinality(Made(reqs, q)) <= Cardinality(Made(next, q))
  BY MadeGrows
<1>3. Cardinality(Made(reqs, q)) \in Nat /\ Cardinality(Made(next, q)) \in Nat
  BY MadeFinite
<1>4. q = lines[i].question
  OBVIOUS
<1> HIDE DEF q
<1> QED
  BY <1>1, <1>2, <1>3, <1>4

(***************************************************************************)
(* What record() makes of the lines it has read.                           *)
(***************************************************************************)
At(records, q) == {i \in 1 .. Len(records) : records[i].question = q}

LEMMA FreshTyped ==
  ASSUME NEW q \in AskedQuestions, NEW why \in AskedReasons, stamp \in Nat
  PROVE  Fresh(q, why) \in QueueLine
BY DEF Fresh, Given, QueueLine

LEMMA AgainTyped ==
  ASSUME NEW line \in QueueLine, NEW why \in AskedReasons, stamp \in Nat
  PROVE  Again(line, why) \in QueueLine
<1> DEFINE reasons == line.reasons \cup Given(why)
<1>1. reasons \in SUBSET AskedReasons
  BY DEF QueueLine, Given
<1>2. Again(line, why) = [line EXCEPT !.count = @ + 1, !.reasons = reasons, !.last = stamp]
  BY DEF Again
<1>3. line \in [question : AskedQuestions, count : Nat, reasons : SUBSET AskedReasons, last : Nat]
  BY DEF QueueLine
<1> HIDE DEF reasons
<1>4. line.question \in AskedQuestions /\ line.count + 1 \in Nat
  BY <1>3
<1>5. Again(line, why) = [question |-> line.question, count |-> line.count + 1,
                          reasons |-> reasons, last |-> stamp]
  BY <1>2, <1>3
<1>6. Again(line, why) \in [question : AskedQuestions, count : Nat, reasons : SUBSET AskedReasons, last : Nat]
  BY <1>1, <1>4, <1>5
<1> QED
  BY <1>6 DEF QueueLine

LEMMA ChangedForm ==
  ASSUME NEW records \in Seq(QueueLine), NEW q \in AskedQuestions,
         NEW why \in AskedReasons, stamp \in Nat
  PROVE  /\ Changed(records, q, why) \in Seq(QueueLine)
         /\ \/ At(records, q) = {} /\ Changed(records, q, why) = Append(records, Fresh(q, why))
            \/ \E k \in At(records, q) :
                 /\ Changed(records, q, why) = [records EXCEPT ![k] = Again(@, why)]
                 /\ Len(Changed(records, q, why)) = Len(records)
                 /\ \A i \in 1 .. Len(records) :
                      Changed(records, q, why)[i]
                        = IF i = k THEN Again(records[k], why) ELSE records[i]
<1> DEFINE at == At(records, q)
           new == Changed(records, q, why)
<1>1. at = {i \in 1 .. Len(records) : records[i].question = q}
  BY DEF At
<1>2. Fresh(q, why) \in QueueLine
  BY DEF Fresh, Given, QueueLine
<1>3. CASE at = {}
  <2>1. new = Append(records, Fresh(q, why))
    BY <1>1, <1>3 DEF Changed
  <2> QED
    BY <1>2, <1>3, <2>1
<1>4. CASE at # {}
  <2> DEFINE k == CHOOSE i \in at : \A j \in at : i <= j
  <2>1. \E i \in at : \A j \in at : i <= j
    <3>1. at \subseteq Nat
      BY DEF At
    <3> QED
      BY <1>4, <3>1, LeastElement
  <2>2. k \in at
    BY <2>1
  <2>3. new = [records EXCEPT ![k] = Again(@, why)]
    BY <1>1, <1>4 DEF Changed
  <2> HIDE DEF k, at, new
  <2>4. k \in 1 .. Len(records) /\ records[k] \in QueueLine
    BY <1>1, <2>2, LineTyped
  <2>5. Again(records[k], why) \in QueueLine
    BY <2>4, AgainTyped
  <2>6. new = [i \in 1 .. Len(records) |-> IF i = k THEN Again(records[k], why) ELSE records[i]]
    BY <2>3, <2>4, LenProperties
  <2>7. Len(records) \in Nat /\ \A i \in 1 .. Len(records) : records[i] \in QueueLine
    BY LineTyped
  <2>8. new \in [1 .. Len(records) -> QueueLine]
    BY <2>5, <2>6, <2>7
  <2>9. new \in Seq(QueueLine) /\ Len(new) = Len(records)
    BY <2>7, <2>8
  <2> QED
    BY <2>2, <2>3, <2>6, <2>9 DEF at, new
<1> QED
  BY <1>3, <1>4

LEMMA AgainFields ==
  ASSUME NEW line \in QueueLine, NEW why
  PROVE  /\ Again(line, why).question = line.question
         /\ Again(line, why).count = line.count + 1
         /\ Again(line, why).reasons = line.reasons \cup Given(why)
BY DEF Again, QueueLine

LEMMA FreshFields ==
  ASSUME NEW q, NEW why
  PROVE  Fresh(q, why).question = q /\ Fresh(q, why).count = 1 /\ Fresh(q, why).reasons = Given(why)
BY DEF Fresh

\* The line that is changed counts one request more, and so may the requests.
LEMMA ChangedWithin ==
  ASSUME NEW reqs, NEW next, Grows(reqs, next), NEW records \in Seq(QueueLine), Within(reqs, records),
         NEW q \in AskedQuestions, NEW why \in AskedReasons, stamp \in Nat,
         NEW r \in Requests, r \notin Made(reqs, q), r \in Made(next, q)
  PROVE  Within(next, Changed(records, q, why))
<1> DEFINE new == Changed(records, q, why)
<1>1. Cardinality(Made(next, q)) >= Cardinality(Made(reqs, q)) + 1
  <2>1. Made(reqs, q) \cup {r} \subseteq Made(next, q)
    BY MadeGrows
  <2>2. Cardinality(Made(reqs, q) \cup {r}) = Cardinality(Made(reqs, q)) + 1
    BY MadeFinite, FS_AddElement
  <2>3. Cardinality(Made(reqs, q) \cup {r}) <= Cardinality(Made(next, q))
    BY <2>1, MadeFinite, FS_Subset
  <2> QED
    BY <2>2, <2>3
<1>2. /\ Cardinality(Made(reqs, q)) \in Nat /\ Cardinality(Made(next, q)) \in Nat
  BY MadeFinite
<1>3. Within(next, records)
  BY WithinGrows
<1>4. CASE new = Append(records, Fresh(q, why))
  <2>1. Fresh(q, why) \in QueueLine
    BY DEF Fresh, Given, QueueLine
  <2>2. ASSUME NEW i \in 1 .. Len(new)
        PROVE  new[i].count <= Cardinality(Made(next, new[i].question))
    <3>1. \/ i \in 1 .. Len(records) /\ new[i] = records[i]
          \/ new[i] = Fresh(q, why)
      BY <1>4, <2>1, <2>2
    <3>2. CASE i \in 1 .. Len(records) /\ new[i] = records[i]
      BY <1>3, <3>2 DEF Within
    <3>3. CASE new[i] = Fresh(q, why)
      BY <1>1, <1>2, <3>3, FreshFields
    <3> QED
      BY <3>1, <3>2, <3>3
  <2> QED
    BY <2>2 DEF Within
<1>5. CASE \E k \in At(records, q) :
             /\ Len(new) = Len(records)
             /\ \A i \in 1 .. Len(records) :
                  new[i] = IF i = k THEN Again(records[k], why) ELSE records[i]
  <2>1. PICK k \in At(records, q) :
             /\ Len(new) = Len(records)
             /\ \A i \in 1 .. Len(records) :
                  new[i] = IF i = k THEN Again(records[k], why) ELSE records[i]
    BY <1>5
  <2>2. k \in 1 .. Len(records) /\ records[k].question = q
    BY DEF At
  <2>3. records[k] \in QueueLine /\ records[k].count \in Nat
    BY <2>2, LineTyped
  <2>4. records[k].count <= Cardinality(Made(reqs, q))
    BY <2>2 DEF Within
  <2>5. ASSUME NEW i \in 1 .. Len(new)
        PROVE  new[i].count <= Cardinality(Made(next, new[i].question))
    <3>1. CASE i # k
      BY <1>3, <2>1, <3>1 DEF Within
    <3>2. CASE i = k
      <4>1. new[i].question = q /\ new[i].count = records[k].count + 1
        BY <2>1, <2>2, <2>3, <3>2, AgainFields
      <4> QED
        BY <1>1, <1>2, <2>3, <2>4, <4>1
    <3> QED
      BY <3>1, <3>2
  <2> QED
    BY <2>5 DEF Within
<1> QED
  BY <1>4, <1>5, ChangedForm

(***************************************************************************)
(* Lines that count the requests of R, one line for each question.         *)
(***************************************************************************)
Of(reqs, R, q) == {a \in R : reqs[a].question = q}
Why(reqs, A) == {reqs[a].reason : a \in A} \ {Blank}

Counts(reqs, line, R) ==
  /\ line.count = Cardinality(Of(reqs, R, line.question))
  /\ line.reasons = Why(reqs, Of(reqs, R, line.question))

CountsAll(reqs, lines, R) ==
  /\ \A i \in 1 .. Len(lines) : \E r \in R : lines[i].question = reqs[r].question
  /\ \A r \in R : \E i \in 1 .. Len(lines) : lines[i].question = reqs[r].question
  /\ \A i, j \in 1 .. Len(lines) : lines[i].question = lines[j].question => i = j
  /\ \A i \in 1 .. Len(lines) : Counts(reqs, lines[i], R)

LEMMA CountsAllStable ==
  ASSUME NEW reqs, NEW next, NEW R, NEW lines, CountsAll(reqs, lines, R),
         \A r \in R : next[r].question = reqs[r].question /\ next[r].reason = reqs[r].reason
  PROVE  CountsAll(next, lines, R)
<1>1. \A q : Of(next, R, q) = Of(reqs, R, q)
  BY DEF Of
<1>2. \A q : Why(next, Of(next, R, q)) = Why(reqs, Of(reqs, R, q))
  <2> SUFFICES ASSUME NEW q PROVE Why(next, Of(reqs, R, q)) = Why(reqs, Of(reqs, R, q))
    BY <1>1
  <2>1. \A a \in Of(reqs, R, q) : next[a].reason = reqs[a].reason
    BY DEF Of
  <2>2. {next[a].reason : a \in Of(reqs, R, q)} = {reqs[a].reason : a \in Of(reqs, R, q)}
    BY <2>1
  <2> QED
    BY <2>2 DEF Why
<1>3. \A i \in 1 .. Len(lines) : Counts(next, lines[i], R)
  <2> SUFFICES ASSUME NEW i \in 1 .. Len(lines) PROVE Counts(next, lines[i], R)
    OBVIOUS
  <2>1. Counts(reqs, lines[i], R)
    BY DEF CountsAll
  <2> QED
    BY <1>1, <1>2, <2>1 DEF Counts
<1>4. \A i \in 1 .. Len(lines) : \E r \in R : lines[i].question = next[r].question
  BY DEF CountsAll
<1>5. \A r \in R : \E i \in 1 .. Len(lines) : lines[i].question = next[r].question
  BY DEF CountsAll
<1>6. \A i, j \in 1 .. Len(lines) : lines[i].question = lines[j].question => i = j
  BY DEF CountsAll
<1> QED
  BY <1>3, <1>4, <1>5, <1>6 DEF CountsAll

\* One question to a line and one line to a question.
LEMMA CountsAllLength ==
  ASSUME NEW reqs, NEW R, NEW lines \in Seq(QueueLine), CountsAll(reqs, lines, R)
  PROVE  Len(lines) = Cardinality({reqs[r].question : r \in R})
<1> DEFINE Q == {reqs[r].question : r \in R}
           f == [i \in 1 .. Len(lines) |-> lines[i].question]
<1>1. f \in [1 .. Len(lines) -> Q]
  BY DEF CountsAll
<1>2. \A i, j \in 1 .. Len(lines) : f[i] = f[j] => i = j
  BY DEF CountsAll
<1>3. \A q \in Q : \E i \in 1 .. Len(lines) : f[i] = q
  BY DEF CountsAll
<1>5. Len(lines) \in Nat /\ IsFiniteSet(1 .. Len(lines)) /\ Cardinality(1 .. Len(lines)) = Len(lines)
  <2>1. Len(lines) \in Nat
    OBVIOUS
  <2>2. IsFiniteSet(1 .. Len(lines)) /\ Cardinality(1 .. Len(lines))
          = IF 1 > Len(lines) THEN 0 ELSE Len(lines) - 1 + 1
    BY <2>1, FS_Interval
  <2> QED
    BY <2>1, <2>2
<1> HIDE DEF f, Q
<1>4. f \in Bijection(1 .. Len(lines), Q)
  <2>1. f \in Injection(1 .. Len(lines), Q)
    BY <1>1, <1>2 DEF Injection, IsInjective
  <2>2. f \in Surjection(1 .. Len(lines), Q)
    BY <1>1, <1>3 DEF Surjection
  <2> QED
    BY <2>1, <2>2 DEF Bijection
<1>6. Cardinality(Q) = Cardinality(1 .. Len(lines))
  BY <1>4, <1>5, FS_Bijection DEF ExistsBijection
<1> QED
  BY <1>5, <1>6 DEF Q

LEMMA CountsAllChanged ==
  ASSUME NEW reqs, NEW R \in SUBSET Requests, NEW r \in Requests \ R,
         NEW records \in Seq(QueueLine), CountsAll(reqs, records, R),
         reqs[r].question \in AskedQuestions, reqs[r].reason \in AskedReasons, stamp \in Nat
  PROVE  CountsAll(reqs, Changed(records, reqs[r].question, reqs[r].reason), R \cup {r})
<1> DEFINE q == reqs[r].question
           why == reqs[r].reason
           new == Changed(records, q, why)
           S == R \cup {r}
<1>1. \A p : p # q => Of(reqs, S, p) = Of(reqs, R, p)
  BY DEF Of
<1>2. Of(reqs, S, q) = Of(reqs, R, q) \cup {r} /\ r \notin Of(reqs, R, q)
  BY DEF Of
<1>3. \A p : IsFiniteSet(Of(reqs, R, p)) /\ Cardinality(Of(reqs, R, p)) \in Nat
  <2>1. \A p : Of(reqs, R, p) \subseteq Requests
    BY DEF Of
  <2> QED
    BY <2>1, CoverageAssumption, FS_Subset, FS_CardinalityType
<1>4. Cardinality(Of(reqs, S, q)) = Cardinality(Of(reqs, R, q)) + 1
  BY <1>2, <1>3, FS_AddElement
<1>5. Why(reqs, Of(reqs, S, q)) = Why(reqs, Of(reqs, R, q)) \cup ({why} \ {Blank})
  <2>1. \A A : {reqs[a].reason : a \in A \cup {r}} = {reqs[a].reason : a \in A} \cup {why}
    OBVIOUS
  <2> QED
    BY <1>2, <2>1 DEF Why
<1>6. ASSUME NEW i \in 1 .. Len(records), records[i].question # q
      PROVE  Counts(reqs, records[i], S)
  BY <1>1, <1>6 DEF CountsAll, Counts
<1>7. CASE At(records, q) = {} /\ new = Append(records, Fresh(q, why))
  <2>1. Of(reqs, R, q) = {}
    BY <1>7 DEF Of, At, CountsAll
  <2>2. Cardinality(Of(reqs, S, q)) = 1
    BY <1>4, <2>1, FS_EmptySet
  <2>9. Why(reqs, Of(reqs, S, q)) = {why} \ {Blank}
    BY <1>5, <2>1 DEF Why
  <2>3. /\ Len(records) \in Nat /\ Len(new) = Len(records) + 1
        /\ \A i \in 1 .. Len(records) : new[i] = records[i] /\ records[i].question # q
        /\ new[Len(new)] = Fresh(q, why)
    BY <1>7, FreshTyped, LenProperties, AppendProperties DEF At
  <2> HIDE DEF new
  <2>4. \A i \in 1 .. Len(new) : i = Len(new) \/ i \in 1 .. Len(records)
    BY <2>3
  <2>5. Fresh(q, why).question = q /\ Fresh(q, why).count = 1 /\ Fresh(q, why).reasons = {why} \ {Blank}
    BY FreshFields DEF Given
  <2>6. ASSUME NEW i \in 1 .. Len(new)
        PROVE  /\ \E a \in S : new[i].question = reqs[a].question
               /\ Counts(reqs, new[i], S)
    <3>1. CASE i = Len(new)
      <4>1. new[i] = Fresh(q, why)
        BY <2>3, <3>1
      <4>2. Counts(reqs, new[i], S)
        BY <2>2, <2>9, <2>5, <4>1 DEF Counts
      <4> QED
        BY <2>5, <4>1, <4>2
    <3>2. CASE i \in 1 .. Len(records)
      <4>1. new[i] = records[i] /\ records[i].question # q
        BY <2>3, <3>2
      <4>2. \E a \in R : records[i].question = reqs[a].question
        BY <3>2 DEF CountsAll
      <4>3. Counts(reqs, new[i], S)
        BY <1>6, <3>2, <4>1
      <4> QED
        BY <4>1, <4>2, <4>3
    <3> QED
      BY <2>4, <3>1, <3>2
  <2>7. \A a \in S : \E i \in 1 .. Len(new) : new[i].question = reqs[a].question
    <3>1. ASSUME NEW a \in R PROVE \E i \in 1 .. Len(new) : new[i].question = reqs[a].question
      <4>1. PICK i \in 1 .. Len(records) : records[i].question = reqs[a].question
        BY DEF CountsAll
      <4>2. i \in 1 .. Len(new) /\ new[i] = records[i]
        BY <2>3
      <4> QED
        BY <4>1, <4>2
    <3>2. Len(new) \in 1 .. Len(new) /\ new[Len(new)].question = q
      BY <2>3, <2>5
    <3> QED
      BY <3>1, <3>2
  <2>8. \A i, j \in 1 .. Len(new) : new[i].question = new[j].question => i = j
    <3>1. \A i, j \in 1 .. Len(records) : records[i].question = records[j].question => i = j
      BY DEF CountsAll
    <3> QED
      BY <2>3, <2>4, <2>5, <3>1
  <2>10. CountsAll(reqs, new, S)
    BY <2>6, <2>7, <2>8 DEF CountsAll
  <2> QED
    BY <2>10 DEF new
<1>8. CASE \E k \in At(records, q) :
             /\ Len(new) = Len(records)
             /\ \A i \in 1 .. Len(records) :
                  new[i] = IF i = k THEN Again(records[k], why) ELSE records[i]
  <2>1. PICK k \in At(records, q) :
             /\ Len(new) = Len(records)
             /\ \A i \in 1 .. Len(records) :
                  new[i] = IF i = k THEN Again(records[k], why) ELSE records[i]
    BY <1>8
  <2> HIDE DEF new
  <2>2. k \in 1 .. Len(records) /\ records[k].question = q
    BY DEF At
  <2>3. /\ new[k].question = q /\ new[k].count = records[k].count + 1
        /\ new[k].reasons = records[k].reasons \cup ({why} \ {Blank})
    BY <2>1, <2>2, LineTyped, AgainFields DEF Given
  <2>4. \A i \in 1 .. Len(records) : new[i].question = records[i].question
    BY <2>1, <2>2, <2>3
  <2>5. ASSUME NEW i \in 1 .. Len(new)
        PROVE  Counts(reqs, new[i], S)
    <3>1. CASE i = k
      <4>1. /\ records[k].count = Cardinality(Of(reqs, R, q))
            /\ records[k].reasons = Why(reqs, Of(reqs, R, q))
        BY <2>2 DEF CountsAll, Counts
      <4>2. new[i].count = Cardinality(Of(reqs, S, q))
        BY <1>4, <2>3, <3>1, <4>1
      <4>3. new[i].reasons = Why(reqs, Of(reqs, S, q))
        BY <1>5, <2>3, <3>1, <4>1
      <4> QED
        BY <2>3, <3>1, <4>2, <4>3 DEF Counts
    <3>2. CASE i # k
      <4>1. records[i].question # q /\ new[i] = records[i] /\ i \in 1 .. Len(records)
        BY <2>1, <2>2, <3>2 DEF CountsAll
      <4> QED
        BY <1>6, <4>1
    <3> QED
      BY <3>1, <3>2
  <2>6. \A i \in 1 .. Len(new) : \E a \in S : new[i].question = reqs[a].question
    BY <2>1, <2>4 DEF CountsAll
  <2>7. \A a \in S : \E i \in 1 .. Len(new) : new[i].question = reqs[a].question
    BY <2>1, <2>2, <2>4 DEF CountsAll
  <2>8. \A i, j \in 1 .. Len(new) : new[i].question = new[j].question => i = j
    BY <2>1, <2>4 DEF CountsAll
  <2>9. CountsAll(reqs, new, S)
    BY <2>1, <2>5, <2>6, <2>7, <2>8 DEF CountsAll
  <2> QED
    BY <2>9 DEF new
<1> QED
  BY <1>7, <1>8, ChangedForm

(***************************************************************************)
(* The invariant.  While one lock is shared and nothing has died, the      *)
(* request that holds it is the only one between its read and its write;   *)
(* what it is about to write counts itself too.                            *)
(***************************************************************************)
Inside == {"read", "truncate", "write"}

Locked ==
  /\ ~queue.cut
  /\ \A r \in Requests : requests[r].pc \in Inside <=> holder = r
  /\ (\A r \in Requests : requests[r].pc # "write") => CountsAll(requests, queue.lines, Recorded)
  /\ \A r \in Requests : requests[r].pc \in {"truncate", "write"} =>
       CountsAll(requests, requests[r].records, Recorded \cup {r})
  /\ \A r \in Requests : requests[r].pc = "write" => queue.lines = <<>>

CoverageInv ==
  /\ CoverageShape
  /\ Bounded
  /\ objects = "one" /\ deaths = 0 => Locked

(***************************************************************************)
(* What each step does to the requests: it touches one, and leaves the     *)
(* others as they were.                                                    *)
(***************************************************************************)
Only(r) == \A s \in Requests \ {r} : requests'[s] = requests[s]

LEMMA MoveFields ==
  ASSUME CoverageShape, NEW r \in Requests, NEW pc, Move(r, pc)
  PROVE  /\ requests' = [s \in Requests |-> requests'[s]] /\ Only(r)
         /\ requests'[r] = [requests[r] EXCEPT !.pc = pc]
         /\ requests'[r] = [pc |-> pc, op |-> requests[r].op, question |-> requests[r].question,
                            reason |-> requests[r].reason, records |-> requests[r].records]
<1>1. requests = [s \in Requests |-> requests[s]] /\ RequestOK(requests[r])
  BY DEF CoverageShape
<1>2. requests' = [s \in Requests |-> IF s = r THEN [requests[r] EXCEPT !.pc = pc] ELSE requests[s]]
  BY <1>1 DEF Move
<1>3. requests'[r] = [requests[r] EXCEPT !.pc = pc]
  BY <1>2
<1>4. requests'[r] = [pc |-> pc, op |-> requests[r].op, question |-> requests[r].question,
                      reason |-> requests[r].reason, records |-> requests[r].records]
  BY <1>1, <1>3 DEF RequestOK
<1> QED
  BY <1>2, <1>3, <1>4 DEF Only

LEMMA ArriveFields ==
  ASSUME CoverageShape, NEW r \in Requests, NEW op, NEW q, NEW why, Arrive(r, op, q, why)
  PROVE  /\ requests' = [s \in Requests |-> requests'[s]] /\ Only(r)
         /\ requests'[r] = [pc |-> "enter", op |-> op, question |-> q, reason |-> why,
                            records |-> <<>>]
<1>1. requests = [s \in Requests |-> requests[s]]
  BY DEF CoverageShape
<1> DEFINE x == [Waiting EXCEPT !.pc = "enter", !.op = op, !.question = q, !.reason = why]
<1>2. x = [pc |-> "enter", op |-> op, question |-> q, reason |-> why, records |-> <<>>]
  <2> DEFINE blank == <<>>
  <2>1. Waiting = [pc |-> "idle", op |-> "list", question |-> Blank, reason |-> Blank, records |-> blank]
    BY DEF Waiting
  <2> HIDE DEF blank
  <2> DEFINE y == [Waiting EXCEPT !.pc = "enter"]
             z == [y EXCEPT !.op = op]
  <2>3. y = [pc |-> "enter", op |-> "list", question |-> Blank, reason |-> Blank, records |-> blank]
    BY <2>1
  <2> HIDE DEF y
  <2>4. z = [pc |-> "enter", op |-> op, question |-> Blank, reason |-> Blank, records |-> blank]
    BY <2>3
  <2> HIDE DEF z
  <2> DEFINE v == [z EXCEPT !.question = q]
  <2>5. x = [v EXCEPT !.reason = why]
    BY DEF y, z
  <2>6. v = [pc |-> "enter", op |-> op, question |-> q, reason |-> Blank, records |-> blank]
    BY <2>4
  <2> HIDE DEF v, x
  <2>2. x = [pc |-> "enter", op |-> op, question |-> q, reason |-> why, records |-> blank]
    BY <2>5, <2>6
  <2> QED
    BY <2>2 DEF blank
<1>3. requests' = [requests EXCEPT ![r] = x]
  BY DEF Arrive
<1> HIDE DEF x
<1>4. requests' = [s \in Requests |-> IF s = r THEN x ELSE requests[s]]
  BY <1>1, <1>3
<1> QED
  BY <1>2, <1>4 DEF Only

\* A request that reads moves on with the records it made of the lines.
LEMMA ReadFields ==
  ASSUME CoverageShape, NEW r \in Requests, NEW pc, NEW records,
         requests' = [requests EXCEPT ![r].pc = pc, ![r].records = records]
  PROVE  /\ requests' = [s \in Requests |-> requests'[s]] /\ Only(r)
         /\ requests'[r] = [pc |-> pc, op |-> requests[r].op, question |-> requests[r].question,
                            reason |-> requests[r].reason, records |-> records]
<1>1. requests = [s \in Requests |-> requests[s]] /\ RequestOK(requests[r])
  BY DEF CoverageShape
<1> DEFINE x == [[requests[r] EXCEPT !.pc = pc] EXCEPT !.records = records]
<1>2. requests' = [s \in Requests |-> IF s = r THEN x ELSE requests[s]]
  <2>1. requests' = [[requests EXCEPT ![r].pc = pc] EXCEPT ![r].records = records]
    OBVIOUS
  <2>2. [requests EXCEPT ![r].pc = pc]
          = [s \in Requests |-> IF s = r THEN [requests[r] EXCEPT !.pc = pc] ELSE requests[s]]
    BY <1>1
  <2> QED
    BY <1>1, <2>1, <2>2
<1>3. x = [pc |-> pc, op |-> requests[r].op, question |-> requests[r].question,
           reason |-> requests[r].reason, records |-> records]
  <2> DEFINE y == [requests[r] EXCEPT !.pc = pc]
  <2>1. y = [pc |-> pc, op |-> requests[r].op, question |-> requests[r].question,
             reason |-> requests[r].reason, records |-> requests[r].records]
    BY <1>1 DEF RequestOK
  <2> HIDE DEF y
  <2>2. [y EXCEPT !.records = records]
          = [pc |-> pc, op |-> requests[r].op, question |-> requests[r].question,
             reason |-> requests[r].reason, records |-> records]
    BY <2>1
  <2> QED
    BY <2>2 DEF y
<1> HIDE DEF x
<1> QED
  BY <1>2, <1>3 DEF Only

LEMMA DieFields ==
  ASSUME CoverageShape, Die, NEW r \in Requests
  PROVE  /\ requests' = [s \in Requests |-> requests'[s]]
         /\ \/ requests'[r] = requests[r] /\ requests[r].pc \in {"idle", "done", "failed"}
            \/ requests'[r] = [pc |-> "died", op |-> requests[r].op, question |-> requests[r].question,
                               reason |-> requests[r].reason, records |-> requests[r].records]
<1>1. requests' = [s \in Requests |-> IF requests[s].pc \in {"idle", "done", "failed"} THEN requests[s]
                                      ELSE [requests[s] EXCEPT !.pc = "died"]]
  BY DEF Die
<1>2. RequestOK(requests[r])
  BY DEF CoverageShape
<1>3. [requests[r] EXCEPT !.pc = "died"]
        = [pc |-> "died", op |-> requests[r].op, question |-> requests[r].question,
           reason |-> requests[r].reason, records |-> requests[r].records]
  BY <1>2 DEF RequestOK
<1> QED
  BY <1>1, <1>3

\* What is written over: the new lines, then what is longer of the old.
LEMMA OverwrittenLines ==
  ASSUME NEW a \in Seq(QueueLine), NEW b \in Seq(QueueLine), NEW reqs,
         Within(reqs, a), Within(reqs, b)
  PROVE  LET c == a \o SubSeq(b, Len(a) + 1, Len(b))
         IN c \in Seq(QueueLine) /\ Within(reqs, c)
<1> DEFINE t == SubSeq(b, Len(a) + 1, Len(b))
           c == a \o t
<1>1. Len(a) \in Nat /\ Len(b) \in Nat
  BY LenProperties
<1>2. t \in Seq(QueueLine)
  <2>1. \A i \in Len(a) + 1 .. Len(b) : b[i] \in QueueLine
    BY <1>1, LineTyped
  <2> QED
    BY <1>1, <2>1, SubSeqProperties
<1>3. \A i \in 1 .. Len(t) : \E j \in 1 .. Len(b) : t[i] = b[j]
  BY <1>1, SubSeqProperties
<1> HIDE DEF t
<1>4. c \in Seq(QueueLine) /\ Len(c) = Len(a) + Len(t) /\ Len(t) \in Nat
        /\ \A i \in 1 .. Len(c) : c[i] = IF i <= Len(a) THEN a[i] ELSE t[i - Len(a)]
  BY <1>2, ConcatProperties, LenProperties
<1> HIDE DEF c
<1>5. ASSUME NEW i \in 1 .. Len(c)
      PROVE  c[i].count <= Cardinality(Made(reqs, c[i].question))
  <2>1. CASE i <= Len(a)
    <3>1. c[i] = a[i] /\ i \in 1 .. Len(a)
      BY <1>1, <1>4, <2>1
    <3> QED
      BY <3>1 DEF Within
  <2>2. CASE ~(i <= Len(a))
    <3>1. c[i] = t[i - Len(a)] /\ i - Len(a) \in 1 .. Len(t)
      BY <1>1, <1>4, <2>2
    <3>2. PICK j \in 1 .. Len(b) : c[i] = b[j]
      BY <1>3, <3>1
    <3> QED
      BY <3>2 DEF Within
  <2> QED
    BY <2>1, <2>2
<1> QED
  BY <1>4, <1>5 DEF Within, c, t

LEMMA TornLines ==
  ASSUME NEW a \in Seq(QueueLine), NEW reqs, Within(reqs, a)
  PROVE  SubSeq(a, 1, Len(a) - 1) \in Seq(QueueLine) /\ Within(reqs, SubSeq(a, 1, Len(a) - 1))
<1> DEFINE t == SubSeq(a, 1, Len(a) - 1)
<1>1. Len(a) \in Nat
  BY LenProperties
<1>2. t \in Seq(QueueLine)
  <2>1. \A i \in 1 .. Len(a) - 1 : a[i] \in QueueLine
    BY <1>1, LineTyped
  <2> QED
    BY <1>1, <2>1, SubSeqProperties
<1>3. \A i \in 1 .. Len(t) : i \in 1 .. Len(a) /\ t[i] = a[i]
  BY <1>1, SubSeqProperties
<1> HIDE DEF t
<1>4. Within(reqs, t)
  BY <1>3 DEF Within
<1> QED
  BY <1>2, <1>4 DEF t

\* Anything that touches one request, and lets it count if it counted.
LEMMA OnlyGrows ==
  ASSUME NEW r \in Requests, Only(r),
         requests[r].pc \in Counting => /\ requests'[r].pc \in Counting
                                        /\ requests'[r].op = requests[r].op
                                        /\ requests'[r].question = requests[r].question
  PROVE  Grows(requests, requests')
BY DEF Only, Grows

LEMMA OnlyShape ==
  ASSUME CoverageShape, NEW r \in Requests, Only(r),
         requests' = [s \in Requests |-> requests'[s]], RequestOK(requests'[r]),
         queue' \in [lines : Seq(QueueLine), cut : BOOLEAN], stamp' \in Nat, deaths' \in Nat
  PROVE  CoverageShape'
BY DEF CoverageShape, Only

\* What the lines and the records may count stays within what was made.
LEMMA OnlyBounded ==
  ASSUME CoverageShape, Bounded, NEW r \in Requests, Only(r), Grows(requests, requests'),
         Within(requests', queue'.lines),
         requests'[r].pc \in {"truncate", "write"} => Within(requests', requests'[r].records)
  PROVE  Bounded'
<1> SUFFICES ASSUME NEW s \in Requests \ {r}, requests'[s].pc \in {"truncate", "write"}
             PROVE  Within(requests', requests'[s].records)
  BY DEF Bounded
<1>1. requests'[s] = requests[s]
  BY DEF Only
<1>2. requests[s].records \in Seq(QueueLine) /\ Within(requests, requests[s].records)
  BY <1>1 DEF CoverageShape, RequestOK, Bounded
<1> QED
  BY <1>1, <1>2, WithinGrows

LEMMA LinesStayWithin ==
  ASSUME CoverageShape, Bounded, Grows(requests, requests'), queue' = queue
  PROVE  queue' \in [lines : Seq(QueueLine), cut : BOOLEAN] /\ Within(requests', queue'.lines)
BY WithinGrows DEF CoverageShape, Bounded

LEMMA ArriveKeeps ==
  ASSUME CoverageShape, Bounded, NEW r \in Requests, NEW op, NEW q, NEW why,
         op = "record" => q \in AskedQuestions /\ why \in AskedReasons, Arrive(r, op, q, why)
  PROVE  CoverageShape' /\ Bounded'
<1>1. /\ requests' = [s \in Requests |-> requests'[s]] /\ Only(r)
      /\ requests'[r] = [pc |-> "enter", op |-> op, question |-> q, reason |-> why,
                         records |-> <<>>]
  BY ArriveFields
<1>2. requests[r].pc = "idle" /\ queue' = queue /\ stamp' = stamp /\ deaths' = deaths
  BY DEF Arrive
<1>3. Grows(requests, requests')
  BY <1>1, <1>2, OnlyGrows DEF Counting
<1>4. RequestOK(requests'[r]) /\ requests'[r].pc = "enter"
  BY <1>1 DEF RequestOK
<1>5. queue' \in [lines : Seq(QueueLine), cut : BOOLEAN] /\ Within(requests', queue'.lines)
  BY <1>2, <1>3, LinesStayWithin
<1>6. stamp' \in Nat /\ deaths' \in Nat
  BY <1>2 DEF CoverageShape
<1> QED
  BY <1>1, <1>3, <1>4, <1>5, <1>6, OnlyShape, OnlyBounded

\* A step that moves one request and leaves the file.
LEMMA MoveKeeps ==
  ASSUME CoverageShape, Bounded, NEW r \in Requests, NEW pc \in {"read", "done", "failed"},
         Move(r, pc), requests[r].pc \in Counting => pc \in Counting,
         queue' \in [lines : Seq(QueueLine), cut : BOOLEAN],
         Within(requests', queue'.lines), stamp' \in Nat, deaths' \in Nat
  PROVE  CoverageShape' /\ Bounded'
<1>1. /\ requests' = [s \in Requests |-> requests'[s]] /\ Only(r)
      /\ requests'[r] = [pc |-> pc, op |-> requests[r].op, question |-> requests[r].question,
                         reason |-> requests[r].reason, records |-> requests[r].records]
  BY MoveFields
<1>2. Grows(requests, requests')
  BY <1>1, OnlyGrows
<1>3. RequestOK(requests[r])
  BY DEF CoverageShape
<1>4. RequestOK(requests'[r]) /\ requests'[r].pc = pc
  BY <1>1, <1>3 DEF RequestOK
<1> QED
  BY <1>1, <1>2, <1>4, OnlyShape, OnlyBounded

LEMMA ReadForRecordKeeps ==
  ASSUME CoverageShape, Bounded, NEW r \in Requests, ReadForRecord(r)
  PROVE  CoverageShape' /\ Bounded'
<1> DEFINE q == requests[r].question
           why == requests[r].reason
           new == Changed(queue.lines, q, why)
<1>1. /\ requests' = [s \in Requests |-> requests'[s]] /\ Only(r)
      /\ requests'[r] = [pc |-> "truncate", op |-> requests[r].op, question |-> q,
                         reason |-> why, records |-> new]
  BY ReadFields DEF ReadForRecord
<1>2. requests[r].pc = "read" /\ requests[r].op = "record" /\ queue' = queue
        /\ stamp' = stamp + 1 /\ deaths' = deaths
  BY DEF ReadForRecord
<1>3. q \in AskedQuestions /\ why \in AskedReasons /\ stamp \in Nat /\ queue.lines \in Seq(QueueLine)
  BY <1>2 DEF CoverageShape, RequestOK
<1>4. new \in Seq(QueueLine)
  BY <1>3, ChangedForm
<1>5. Grows(requests, requests')
  BY <1>1, <1>2, OnlyGrows DEF Counting
<1>6. r \notin Made(requests, q) /\ r \in Made(requests', q)
  BY <1>1, <1>2 DEF Made, Counting
<1>7. Within(requests', new)
  <2>1. Within(requests, queue.lines)
    BY DEF Bounded
  <2> QED
    BY <1>3, <1>5, <1>6, <2>1, ChangedWithin
<1> HIDE DEF new
<1>8. RequestOK(requests'[r]) /\ requests'[r].records = new
  BY <1>1, <1>2, <1>3, <1>4 DEF RequestOK
<1>9. queue' \in [lines : Seq(QueueLine), cut : BOOLEAN] /\ Within(requests', queue'.lines)
  BY <1>2, <1>5, LinesStayWithin
<1>10. stamp' \in Nat /\ deaths' \in Nat
  BY <1>2 DEF CoverageShape
<1> QED
  BY <1>1, <1>5, <1>7, <1>8, <1>9, <1>10, OnlyShape, OnlyBounded

LEMMA TruncateKeeps ==
  ASSUME CoverageShape, Bounded, NEW r \in Requests, Truncate(r)
  PROVE  CoverageShape' /\ Bounded'
<1>1. /\ requests' = [s \in Requests |-> requests'[s]] /\ Only(r)
      /\ requests'[r] = [pc |-> "write", op |-> requests[r].op, question |-> requests[r].question,
                         reason |-> requests[r].reason, records |-> requests[r].records]
  BY MoveFields DEF Truncate
<1>2. requests[r].pc = "truncate" /\ queue' = [lines |-> <<>>, cut |-> FALSE]
        /\ stamp' = stamp /\ deaths' = deaths
  BY DEF Truncate
<1>3. Grows(requests, requests')
  BY <1>1, <1>2, OnlyGrows DEF Counting
<1>4. RequestOK(requests[r])
  BY DEF CoverageShape
<1>5. RequestOK(requests'[r]) /\ requests'[r].records = requests[r].records
        /\ requests[r].records \in Seq(QueueLine)
  BY <1>1, <1>2, <1>4 DEF RequestOK
<1>6. Within(requests', requests'[r].records)
  BY <1>2, <1>3, <1>5, WithinGrows DEF Bounded
<1>7. queue' \in [lines : Seq(QueueLine), cut : BOOLEAN]
  BY <1>2, EmptySeq
<1>8. Within(requests', queue'.lines)
  BY <1>2 DEF Within
<1>9. stamp' \in Nat /\ deaths' \in Nat
  BY <1>2 DEF CoverageShape
<1> QED
  BY <1>1, <1>3, <1>5, <1>6, <1>7, <1>8, <1>9, OnlyShape, OnlyBounded

LEMMA WriteRecordsKeeps ==
  ASSUME CoverageShape, Bounded, NEW r \in Requests, WriteRecords(r)
  PROVE  CoverageShape' /\ Bounded'
<1> DEFINE old == requests[r].records
           new == old \o SubSeq(queue.lines, Len(old) + 1, Len(queue.lines))
<1>1. requests[r].pc = "write" /\ Move(r, "done") /\ stamp' = stamp /\ deaths' = deaths
  BY DEF WriteRecords
<1>2. /\ Only(r)
      /\ requests'[r] = [pc |-> "done", op |-> requests[r].op, question |-> requests[r].question,
                         reason |-> requests[r].reason, records |-> requests[r].records]
  BY <1>1, MoveFields
<1>3. Grows(requests, requests')
  BY <1>1, <1>2, OnlyGrows DEF Counting
<1>4. queue.lines \in Seq(QueueLine) /\ old \in Seq(QueueLine)
  BY <1>1 DEF CoverageShape, RequestOK
<1>5. Within(requests', queue.lines) /\ Within(requests', old)
  BY <1>1, <1>3, <1>4, WithinGrows DEF Bounded
<1>6. new \in Seq(QueueLine) /\ Within(requests', new)
  <2> HIDE DEF old
  <2> QED
    BY <1>4, <1>5, OverwrittenLines
<1>7. PICK c \in BOOLEAN : queue' = [lines |-> new, cut |-> c]
  BY DEF WriteRecords, Overwritten
<1> HIDE DEF new
<1>8. queue' \in [lines : Seq(QueueLine), cut : BOOLEAN] /\ Within(requests', queue'.lines)
  BY <1>6, <1>7
<1>9. stamp' \in Nat /\ deaths' \in Nat
  BY <1>1 DEF CoverageShape
<1> QED
  BY <1>1, <1>8, <1>9, MoveKeeps DEF Counting

LEMMA ReadForListKeeps ==
  ASSUME CoverageShape, Bounded, NEW r \in Requests, ReadForList(r)
  PROVE  CoverageShape' /\ Bounded'
<1>1. /\ requests' = [s \in Requests |-> requests'[s]] /\ Only(r)
      /\ requests'[r] = [pc |-> "done", op |-> requests[r].op, question |-> requests[r].question,
                         reason |-> requests[r].reason, records |-> Ranked(queue.lines)]
  BY ReadFields DEF ReadForList
<1>2. requests[r].pc = "read" /\ requests[r].op = "list" /\ queue' = queue
        /\ stamp' = stamp /\ deaths' = deaths
  BY DEF ReadForList
<1>3. Grows(requests, requests')
  BY <1>1, <1>2, OnlyGrows DEF Counting
<1>4. RequestOK(requests'[r]) /\ requests'[r].pc = "done"
  BY <1>1, <1>2 DEF RequestOK
<1>5. queue' \in [lines : Seq(QueueLine), cut : BOOLEAN] /\ Within(requests', queue'.lines)
  BY <1>2, <1>3, LinesStayWithin
<1>6. stamp' \in Nat /\ deaths' \in Nat
  BY <1>2 DEF CoverageShape
<1> QED
  BY <1>1, <1>3, <1>4, <1>5, <1>6, OnlyShape, OnlyBounded

LEMMA DieKeeps ==
  ASSUME CoverageShape, Bounded, Die
  PROVE  CoverageShape' /\ Bounded'
<1>1. requests' = [s \in Requests |-> requests'[s]]
  BY DEF Die
<1>2. Grows(requests, requests')
  <2> SUFFICES ASSUME NEW r \in Requests, requests[r].pc \in Counting
               PROVE  /\ requests'[r].pc \in Counting
                      /\ requests'[r].op = requests[r].op
                      /\ requests'[r].question = requests[r].question
    BY DEF Grows
  <2>1. CASE requests'[r] = requests[r]
    BY <2>1
  <2>2. CASE requests'[r] = [pc |-> "died", op |-> requests[r].op, question |-> requests[r].question,
                             reason |-> requests[r].reason, records |-> requests[r].records]
    BY <2>2 DEF Counting
  <2> QED
    BY <2>1, <2>2, DieFields
<1>3. \A r \in Requests : RequestOK(requests'[r]) /\ requests'[r].pc \notin {"truncate", "write"}
  <2> SUFFICES ASSUME NEW r \in Requests
               PROVE  RequestOK(requests'[r]) /\ requests'[r].pc \notin {"truncate", "write"}
    OBVIOUS
  <2>1. RequestOK(requests[r])
    BY DEF CoverageShape
  <2>2. CASE requests'[r] = requests[r] /\ requests[r].pc \in {"idle", "done", "failed"}
    BY <2>1, <2>2
  <2>3. CASE requests'[r] = [pc |-> "died", op |-> requests[r].op, question |-> requests[r].question,
                             reason |-> requests[r].reason, records |-> requests[r].records]
    BY <2>1, <2>3 DEF RequestOK
  <2> QED
    BY <2>2, <2>3, DieFields
<1>4. queue' \in [lines : Seq(QueueLine), cut : BOOLEAN] /\ Within(requests', queue'.lines)
  <2>1. CASE queue' = queue
    BY <1>2, <2>1, LinesStayWithin
  <2>2. CASE queue' \in Torn
    <3>1. PICK w \in Requests :
            /\ requests[w].pc = "write"
            /\ queue' = [lines |-> SubSeq(requests[w].records, 1, Len(requests[w].records) - 1),
                         cut |-> TRUE]
      BY <2>2 DEF Torn
    <3> DEFINE old == requests[w].records
    <3>2. old \in Seq(QueueLine) /\ Within(requests, old)
      BY <3>1 DEF CoverageShape, RequestOK, Bounded
    <3>3. Within(requests', old)
      BY <1>2, <3>2, WithinGrows
    <3> DEFINE rest == SubSeq(old, 1, Len(old) - 1)
    <3> HIDE DEF old
    <3>4. rest \in Seq(QueueLine) /\ Within(requests', rest)
      BY <3>2, <3>3, TornLines
    <3>5. queue' = [lines |-> rest, cut |-> TRUE]
      BY <3>1 DEF old
    <3> HIDE DEF rest
    <3> QED
      BY <3>4, <3>5
  <2> QED
    BY <2>1, <2>2 DEF Die
<1>5. stamp' \in Nat /\ deaths' \in Nat
  BY DEF Die, CoverageShape
<1> QED
  BY <1>1, <1>3, <1>4, <1>5 DEF CoverageShape, Bounded

LEMMA CoverageInitHolds ==
  ASSUME CoverageInit
  PROVE  CoverageInv
<1>1. \A r \in Requests : requests[r] = Waiting
  BY DEF CoverageInit
<1>2. queue = [lines |-> <<>>, cut |-> FALSE] /\ stamp = 0 /\ deaths = 0 /\ holder = Nobody
  BY DEF CoverageInit
<1>3. CoverageShape
  <2>1. RequestOK(Waiting)
    BY DEF RequestOK, Waiting
  <2>2. queue \in [lines : Seq(QueueLine), cut : BOOLEAN]
    BY <1>2, EmptySeq
  <2>3. requests = [r \in Requests |-> requests[r]]
    BY DEF CoverageInit
  <2> QED
    BY <1>1, <1>2, <2>1, <2>2, <2>3 DEF CoverageShape
<1>4. \A r \in Requests : requests[r].pc = "idle" /\ requests[r].op = "list"
  BY <1>1 DEF Waiting
<1>5. Bounded
  BY <1>2, <1>4 DEF Bounded, Within
<1>6. Locked
  <2>1. Recorded = {}
    BY <1>4 DEF Recorded
  <2>2. CountsAll(requests, queue.lines, Recorded)
    BY <1>2, <2>1 DEF CountsAll
  <2> QED
    BY <1>2, <1>4, <2>2, CoverageAssumption DEF Locked, Inside
<1> QED
  BY <1>3, <1>5, <1>6 DEF CoverageInv

\* While the lock is shared, the counts of the other requests stay as they are.
LEMMA CountsAllOnly ==
  ASSUME NEW r \in Requests, Only(r), NEW R \in SUBSET Requests, NEW lines,
         (requests'[r].question = requests[r].question /\ requests'[r].reason = requests[r].reason)
           \/ r \notin R,
         CountsAll(requests, lines, R)
  PROVE  CountsAll(requests', lines, R)
<1>1. \A s \in R : requests'[s].question = requests[s].question /\ requests'[s].reason = requests[s].reason
  BY DEF Only
<1> HIDE DEF Only
<1> QED
  BY <1>1, CountsAllStable

\* A step outside the lock: nothing that is written or counted moves.
LEMMA OutsideKeepsLocked ==
  ASSUME Locked, NEW r \in Requests, Only(r), queue' = queue, holder' = holder,
         requests[r].pc \notin Inside \cup {"done"}, requests'[r].pc \notin Inside \cup {"done"}
  PROVE  Locked'
<1>1. Recorded' = Recorded /\ r \notin Recorded /\ Recorded \in SUBSET Requests
  BY DEF Only, Recorded
<1>2. \A s \in Requests \ {r} : requests'[s] = requests[s]
  BY DEF Only
<1>3. ~queue'.cut
  BY DEF Locked
<1>4. \A s \in Requests : requests'[s].pc \in Inside <=> holder' = s
  BY <1>2 DEF Locked
<1>5. ASSUME \A s \in Requests : requests'[s].pc # "write"
      PROVE  CountsAll(requests', queue'.lines, Recorded')
  <2>1. CountsAll(requests, queue.lines, Recorded)
    BY <1>2, <1>5 DEF Locked, Inside
  <2> QED
    BY <1>1, <2>1, CountsAllOnly
<1>6. ASSUME NEW s \in Requests, requests'[s].pc \in {"truncate", "write"}
      PROVE  CountsAll(requests', requests'[s].records, Recorded' \cup {s})
  <2>1. s # r /\ requests'[s] = requests[s]
    BY <1>2, <1>6 DEF Inside
  <2>2. CountsAll(requests, requests[s].records, Recorded \cup {s})
    BY <1>6, <2>1 DEF Locked
  <2>3. Recorded \cup {s} \in SUBSET Requests /\ r \notin Recorded \cup {s}
    BY <1>1, <2>1
  <2> QED
    BY <1>1, <2>1, <2>2, <2>3, CountsAllOnly
<1>7. \A s \in Requests : requests'[s].pc = "write" => queue'.lines = <<>>
  BY <1>2 DEF Locked, Inside
<1> QED
  BY <1>3, <1>4, <1>5, <1>6, <1>7 DEF Locked

\* A request that has the lock is the only one inside.
LEMMA Alone ==
  ASSUME Locked, NEW r \in Requests, requests[r].pc \in Inside
  PROVE  holder = r /\ \A s \in Requests \ {r} : requests[s].pc \notin Inside
BY DEF Locked

LEMMA ArriveKeepsLocked ==
  ASSUME CoverageShape, Locked, NEW r \in Requests, NEW op, NEW q, NEW why, Arrive(r, op, q, why)
  PROVE  Locked'
<1>1. /\ Only(r)
      /\ requests'[r] = [pc |-> "enter", op |-> op, question |-> q, reason |-> why,
                         records |-> <<>>]
  BY ArriveFields
<1>3. requests'[r].pc = "enter"
  BY <1>1
<1>2. requests[r].pc = "idle" /\ queue' = queue /\ holder' = holder
  BY DEF Arrive
<1> QED
  BY <1>1, <1>2, <1>3, OutsideKeepsLocked DEF Inside

LEMMA EnterKeepsLocked ==
  ASSUME CoverageShape, Locked, objects = "one", NEW r \in Requests, EnterLock(r)
  PROVE  Locked'
<1>1. /\ Only(r)
      /\ requests'[r] = [pc |-> "read", op |-> requests[r].op, question |-> requests[r].question,
                         reason |-> requests[r].reason, records |-> requests[r].records]
  BY MoveFields DEF EnterLock
<1>2. requests[r].pc = "enter" /\ holder = Nobody /\ holder' = r /\ queue' = queue
  BY DEF EnterLock
<1>3. \A s \in Requests : requests[s].pc \notin Inside
  BY <1>2, CoverageAssumption DEF Locked
<1>4. \A s \in Requests \ {r} : requests'[s] = requests[s]
  BY <1>1 DEF Only
<1>5. Recorded' = Recorded /\ Recorded \in SUBSET Requests
  BY <1>1, <1>2, <1>4 DEF Recorded
<1>6. CountsAll(requests, queue.lines, Recorded)
  BY <1>3 DEF Locked, Inside
<1>7. CountsAll(requests', queue'.lines, Recorded')
  BY <1>1, <1>2, <1>5, <1>6, CountsAllOnly
<1>8. \A s \in Requests : requests'[s].pc \in Inside <=> holder' = s
  BY <1>1, <1>2, <1>3, <1>4 DEF Inside
<1>9. \A s \in Requests : requests'[s].pc \notin {"truncate", "write"}
  BY <1>1, <1>3, <1>4 DEF Inside
<1>10. ~queue'.cut
  BY <1>2 DEF Locked
<1> QED
  BY <1>7, <1>8, <1>9, <1>10 DEF Locked

LEMMA ReadKeepsLocked ==
  ASSUME CoverageShape, Locked, NEW r \in Requests, ReadForRecord(r)
  PROVE  Locked'
<1> DEFINE q == requests[r].question
           why == requests[r].reason
           new == Changed(queue.lines, q, why)
<1>1. /\ Only(r)
      /\ requests'[r] = [pc |-> "truncate", op |-> requests[r].op, question |-> q,
                         reason |-> why, records |-> new]
  BY ReadFields DEF ReadForRecord
<1>2. requests[r].pc = "read" /\ requests[r].op = "record" /\ queue' = queue /\ holder' = holder
  BY DEF ReadForRecord
<1>3. holder = r /\ \A s \in Requests \ {r} : requests[s].pc \notin Inside
  BY <1>2, Alone DEF Inside
<1>4. \A s \in Requests \ {r} : requests'[s] = requests[s]
  BY <1>1 DEF Only
<1>5. Recorded' = Recorded /\ Recorded \in SUBSET Requests /\ r \in Requests \ Recorded
  BY <1>1, <1>2, <1>4 DEF Recorded
<1>6. CountsAll(requests, queue.lines, Recorded)
  BY <1>2, <1>3 DEF Locked, Inside
<1>7. q \in AskedQuestions /\ why \in AskedReasons /\ stamp \in Nat /\ queue.lines \in Seq(QueueLine)
  BY <1>2 DEF CoverageShape, RequestOK
<1>8. CountsAll(requests, new, Recorded \cup {r})
  BY <1>5, <1>6, <1>7, CountsAllChanged
<1>9. requests'[r].records = new /\ requests'[r].question = q /\ requests'[r].reason = why
        /\ requests'[r].pc = "truncate"
  BY <1>1
<1> HIDE DEF new
<1>10. CountsAll(requests', new, Recorded \cup {r})
  <2>1. Recorded \cup {r} \in SUBSET Requests
    BY <1>5
  <2> QED
    BY <1>1, <1>8, <1>9, <2>1, CountsAllOnly
<1>11. CountsAll(requests', queue'.lines, Recorded')
  BY <1>1, <1>2, <1>5, <1>6, CountsAllOnly
<1>12. \A s \in Requests : requests'[s].pc \in Inside <=> holder' = s
  BY <1>2, <1>3, <1>4, <1>9 DEF Inside
<1>13. \A s \in Requests : requests'[s].pc \in {"truncate", "write"} => s = r
  BY <1>3, <1>4 DEF Inside
<1>14. \A s \in Requests : requests'[s].pc # "write"
  BY <1>9, <1>13
<1>15. ~queue'.cut
  BY <1>2 DEF Locked
<1> QED
  BY <1>5, <1>9, <1>10, <1>11, <1>12, <1>13, <1>14, <1>15 DEF Locked

LEMMA TruncateKeepsLocked ==
  ASSUME CoverageShape, Locked, NEW r \in Requests, Truncate(r)
  PROVE  Locked'
<1>1. /\ Only(r)
      /\ requests'[r] = [pc |-> "write", op |-> requests[r].op, question |-> requests[r].question,
                         reason |-> requests[r].reason, records |-> requests[r].records]
  BY MoveFields DEF Truncate
<1>2. requests[r].pc = "truncate" /\ queue' = [lines |-> <<>>, cut |-> FALSE] /\ holder' = holder
  BY DEF Truncate
<1>3. holder = r /\ \A s \in Requests \ {r} : requests[s].pc \notin Inside
  BY <1>2, Alone DEF Inside
<1>4. \A s \in Requests \ {r} : requests'[s] = requests[s]
  BY <1>1 DEF Only
<1>5. Recorded' = Recorded /\ Recorded \cup {r} \in SUBSET Requests
  BY <1>1, <1>2, <1>4 DEF Recorded
<1>6. CountsAll(requests, requests[r].records, Recorded \cup {r})
  BY <1>2 DEF Locked
<1>7. CountsAll(requests', requests'[r].records, Recorded' \cup {r})
  <2>1. requests'[r].question = requests[r].question /\ requests'[r].reason = requests[r].reason
          /\ requests'[r].records = requests[r].records
    BY <1>1
  <2> QED
    BY <1>1, <1>5, <1>6, <2>1, CountsAllOnly
<1>8. \A s \in Requests : requests'[s].pc \in Inside <=> holder' = s
  BY <1>1, <1>2, <1>3, <1>4 DEF Inside
<1>9. \A s \in Requests : requests'[s].pc \in {"truncate", "write"} => s = r
  BY <1>3, <1>4 DEF Inside
<1>10. requests'[r].pc = "write" /\ ~queue'.cut /\ queue'.lines = <<>>
  BY <1>1, <1>2
<1> QED
  BY <1>7, <1>8, <1>9, <1>10 DEF Locked

LEMMA WriteKeepsLocked ==
  ASSUME CoverageShape, Locked, NEW r \in Requests, WriteRecords(r)
  PROVE  Locked'
<1> DEFINE old == requests[r].records
<1>1. requests[r].pc = "write" /\ Move(r, "done") /\ holder' = IF holder = r THEN Nobody ELSE holder
  BY DEF WriteRecords, LetGo
<1>2. /\ Only(r)
      /\ requests'[r] = [pc |-> "done", op |-> requests[r].op, question |-> requests[r].question,
                         reason |-> requests[r].reason, records |-> requests[r].records]
  BY <1>1, MoveFields
<1>3. holder = r /\ \A s \in Requests \ {r} : requests[s].pc \notin Inside
  BY <1>1, Alone DEF Inside
<1>4. \A s \in Requests \ {r} : requests'[s] = requests[s]
  BY <1>2 DEF Only
<1>5. requests[r].op = "record" /\ old \in Seq(QueueLine)
  BY <1>1 DEF CoverageShape, RequestOK
<1>6. Recorded' = Recorded \cup {r} /\ Recorded' \in SUBSET Requests
  BY <1>1, <1>2, <1>4, <1>5 DEF Recorded
<1>7. queue.lines = <<>> /\ ~queue.cut
  BY <1>1 DEF Locked
<1>8. queue' = [lines |-> old, cut |-> FALSE]
  <2>1. queue' = [lines |-> old \o SubSeq(queue.lines, Len(old) + 1, Len(queue.lines)), cut |-> FALSE]
    BY <1>7 DEF WriteRecords, Overwritten
  <2>2. SubSeq(queue.lines, Len(old) + 1, Len(queue.lines)) = <<>>
    <3>1. Len(queue.lines) = 0 /\ Len(old) \in Nat
      BY <1>5, <1>7, LenProperties
    <3> QED
      BY <3>1, SubSeqEmpty
  <2>3. old \o <<>> = old
    BY <1>5, ConcatEmptySeq
  <2> QED
    BY <2>1, <2>2, <2>3
<1>9. CountsAll(requests, old, Recorded \cup {r})
  BY <1>1 DEF Locked
<1>10. CountsAll(requests', queue'.lines, Recorded')
  <2>1. requests'[r].question = requests[r].question /\ requests'[r].reason = requests[r].reason
    BY <1>2
  <2>2. queue'.lines = old
    BY <1>8
  <2> HIDE DEF old
  <2> QED
    BY <1>2, <1>6, <1>9, <2>1, <2>2, CountsAllOnly
<1>11. \A s \in Requests : requests'[s].pc \notin Inside
  BY <1>2, <1>3, <1>4 DEF Inside
<1>12. holder' \notin Requests /\ ~queue'.cut
  BY <1>1, <1>3, <1>8, CoverageAssumption
<1> QED
  BY <1>10, <1>11, <1>12 DEF Locked, Inside

LEMMA ListKeepsLocked ==
  ASSUME CoverageShape, Locked, NEW r \in Requests, ReadForList(r)
  PROVE  Locked'
<1>1. /\ Only(r)
      /\ requests'[r] = [pc |-> "done", op |-> requests[r].op, question |-> requests[r].question,
                         reason |-> requests[r].reason, records |-> Ranked(queue.lines)]
  BY ReadFields DEF ReadForList
<1>2. requests[r].pc = "read" /\ requests[r].op = "list" /\ queue' = queue
        /\ holder' = IF holder = r THEN Nobody ELSE holder
  BY DEF ReadForList, LetGo
<1>3. holder = r /\ \A s \in Requests \ {r} : requests[s].pc \notin Inside
  BY <1>2, Alone DEF Inside
<1>4. \A s \in Requests \ {r} : requests'[s] = requests[s]
  BY <1>1 DEF Only
<1>5. Recorded' = Recorded /\ Recorded \in SUBSET Requests
  BY <1>1, <1>2, <1>4 DEF Recorded
<1>6. CountsAll(requests, queue.lines, Recorded)
  BY <1>2, <1>3 DEF Locked, Inside
<1>7. CountsAll(requests', queue'.lines, Recorded')
  <2>1. requests'[r].question = requests[r].question /\ requests'[r].reason = requests[r].reason
    BY <1>1
  <2> QED
    BY <1>1, <1>2, <1>5, <1>6, <2>1, CountsAllOnly
<1>8. \A s \in Requests : requests'[s].pc \notin Inside
  BY <1>1, <1>3, <1>4 DEF Inside
<1>9. holder' \notin Requests /\ ~queue'.cut
  BY <1>2, <1>3, CoverageAssumption DEF Locked
<1> QED
  BY <1>7, <1>8, <1>9 DEF Locked, Inside

LEMMA CoverageNextKeeps ==
  ASSUME CoverageInv, CoverageNext
  PROVE  CoverageInv'
<1> USE DEF CoverageInv
<1>1. ASSUME NEW r \in Requests, NEW ask \in Asked, Arrive(r, "record", ask[1], ask[2])
      PROVE  CoverageInv'
  <2>1. ask[1] \in AskedQuestions /\ ask[2] \in AskedReasons
    BY DEF AskedQuestions, AskedReasons
  <2>2. CoverageShape' /\ Bounded'
    BY <1>1, <2>1, ArriveKeeps
  <2>3. objects' = objects /\ deaths' = deaths
    BY <1>1 DEF Arrive
  <2> QED
    BY <1>1, <2>2, <2>3, ArriveKeepsLocked
<1>2. ASSUME NEW r \in Requests, Arrive(r, "list", Blank, Blank)
      PROVE  CoverageInv'
  <2>1. CoverageShape' /\ Bounded'
    BY <1>2, ArriveKeeps
  <2>2. objects' = objects /\ deaths' = deaths
    BY <1>2 DEF Arrive
  <2> QED
    BY <1>2, <2>1, <2>2, ArriveKeepsLocked
<1>3. ASSUME NEW r \in Requests, EnterLock(r)
      PROVE  CoverageInv'
  <2>1. /\ requests[r].pc = "enter" /\ Move(r, "read") /\ queue' = queue /\ objects' = objects
        /\ stamp' = stamp /\ deaths' = deaths
    BY <1>3 DEF EnterLock
  <2>2. Grows(requests, requests')
    <3>1. Only(r)
      BY <2>1, MoveFields
    <3> QED
      BY <2>1, <3>1, OnlyGrows DEF Counting
  <2>3. stamp' \in Nat /\ deaths' \in Nat
    BY <2>1 DEF CoverageShape
  <2>4. CoverageShape' /\ Bounded'
    BY <2>1, <2>2, <2>3, LinesStayWithin, MoveKeeps DEF Counting
  <2> QED
    BY <1>3, <2>1, <2>4, EnterKeepsLocked
<1>4. ASSUME NEW r \in Requests, ReadForRecord(r)
      PROVE  CoverageInv'
  <2>1. objects' = objects /\ deaths' = deaths
    BY <1>4 DEF ReadForRecord
  <2> QED
    BY <1>4, <2>1, ReadForRecordKeeps, ReadKeepsLocked
<1>5. ASSUME NEW r \in Requests, ReadFails(r)
      PROVE  CoverageInv'
  <2>1. /\ requests[r].pc = "read" /\ queue.cut /\ Move(r, "failed") /\ queue' = queue
        /\ objects' = objects /\ stamp' = stamp /\ deaths' = deaths
    BY <1>5 DEF ReadFails
  <2>2. Grows(requests, requests')
    <3>1. Only(r)
      BY <2>1, MoveFields
    <3> QED
      BY <2>1, <3>1, OnlyGrows DEF Counting
  <2>3. stamp' \in Nat /\ deaths' \in Nat
    BY <2>1 DEF CoverageShape
  <2>4. CoverageShape' /\ Bounded'
    BY <2>1, <2>2, <2>3, LinesStayWithin, MoveKeeps DEF Counting
  <2>5. ~Locked
    BY <2>1 DEF Locked
  <2> QED
    BY <2>1, <2>4, <2>5
<1>6. ASSUME NEW r \in Requests, Truncate(r)
      PROVE  CoverageInv'
  <2>1. objects' = objects /\ deaths' = deaths
    BY <1>6 DEF Truncate
  <2> QED
    BY <1>6, <2>1, TruncateKeeps, TruncateKeepsLocked
<1>7. ASSUME NEW r \in Requests, WriteRecords(r)
      PROVE  CoverageInv'
  <2>1. objects' = objects /\ deaths' = deaths
    BY <1>7 DEF WriteRecords
  <2> QED
    BY <1>7, <2>1, WriteRecordsKeeps, WriteKeepsLocked
<1>8. ASSUME NEW r \in Requests, ReadForList(r)
      PROVE  CoverageInv'
  <2>1. objects' = objects /\ deaths' = deaths
    BY <1>8 DEF ReadForList
  <2> QED
    BY <1>8, <2>1, ReadForListKeeps, ListKeepsLocked
<1>9. CASE Die
  <2>1. deaths' = deaths + 1 /\ deaths \in Nat
    BY <1>9 DEF Die, CoverageShape
  <2>2. deaths' # 0
    BY <2>1
  <2> QED
    BY <1>9, <2>2, DieKeeps
<1> QED
  BY <1>1, <1>2, <1>3, <1>4, <1>5, <1>6, <1>7, <1>8, <1>9 DEF CoverageNext

LEMMA CoverageStutters ==
  ASSUME CoverageInv, UNCHANGED coverageVars
  PROVE  CoverageInv'
<1>1. queue' = queue /\ objects' = objects /\ holder' = holder /\ requests' = requests
        /\ stamp' = stamp /\ deaths' = deaths
  BY DEF coverageVars
<1>2. Recorded' = Recorded
  BY <1>1 DEF Recorded
<1>3. CoverageShape'
  BY <1>1 DEF CoverageInv, CoverageShape
<1>4. Bounded'
  BY <1>1 DEF CoverageInv, Bounded
<1>5. Locked => Locked'
  BY <1>1, <1>2 DEF Locked
<1> QED
  BY <1>1, <1>3, <1>4, <1>5 DEF CoverageInv

LEMMA CoverageInvBounds ==
  ASSUME CoverageInv
  PROVE  NeverOvercounts
<1> SUFFICES ASSUME NEW i \in 1 .. Len(queue.lines)
             PROVE  queue.lines[i].count
                      <= Cardinality({r \in Asking(queue.lines[i].question) :
                                      requests[r].pc \in {"truncate", "write", "done", "died"}})
  BY DEF NeverOvercounts, Lines
<1> DEFINE q == queue.lines[i].question
<1>1. {r \in Asking(q) : requests[r].pc \in {"truncate", "write", "done", "died"}} = Made(requests, q)
  BY DEF Asking, Made, Counting
<1>2. queue.lines[i].count <= Cardinality(Made(requests, q))
  BY DEF CoverageInv, Bounded, Within
<1> QED
  BY <1>1, <1>2

LEMMA CoverageInvCounts ==
  ASSUME CoverageInv
  PROVE  OneLockCountsAll
<1> SUFFICES ASSUME objects = "one", deaths = 0, \A r \in Requests : requests[r].pc # "write"
             PROVE  /\ ~queue.cut
                    /\ Len(queue.lines) = Cardinality({requests[r].question : r \in Recorded})
                    /\ \A r \in Recorded : \E line \in Lines :
                         LET asked == Asking(requests[r].question) \cap Recorded IN
                         /\ line.question = requests[r].question
                         /\ line.count = Cardinality(asked)
                         /\ line.reasons = {requests[a].reason : a \in asked} \ {Blank}
  BY DEF OneLockCountsAll
<1>1. ~queue.cut /\ CountsAll(requests, queue.lines, Recorded)
  BY DEF CoverageInv, Locked
<1>2. Len(queue.lines) = Cardinality({requests[r].question : r \in Recorded})
  BY <1>1, CountsAllLength DEF CoverageInv, CoverageShape
<1>3. ASSUME NEW r \in Recorded
      PROVE  \E line \in Lines :
               LET asked == Asking(requests[r].question) \cap Recorded IN
               /\ line.question = requests[r].question
               /\ line.count = Cardinality(asked)
               /\ line.reasons = {requests[a].reason : a \in asked} \ {Blank}
  <2> DEFINE q == requests[r].question
             asked == Asking(q) \cap Recorded
  <2>1. PICK i \in 1 .. Len(queue.lines) : queue.lines[i].question = q
    BY <1>1 DEF CountsAll
  <2>2. Counts(requests, queue.lines[i], Recorded) /\ queue.lines[i] \in Lines
    BY <1>1 DEF CountsAll, Lines
  <2>3. Of(requests, Recorded, q) = asked
    BY DEF Of, Asking, Recorded
  <2>4. queue.lines[i].count = Cardinality(asked)
    BY <2>1, <2>2, <2>3 DEF Counts
  <2>5. queue.lines[i].reasons = {requests[a].reason : a \in asked} \ {Blank}
    BY <2>1, <2>2, <2>3 DEF Counts, Why
  <2> HIDE DEF asked
  <2> QED
    BY <2>1, <2>2, <2>4, <2>5 DEF asked
<1> QED
  BY <1>1, <1>2, <1>3

\* Shapes, bounds and counts hold in every state, shared lock or not, whoever dies.
THEOREM CoverageInvariant == CoverageSpec => []CoverageInv
<1>1. CoverageInv /\ [CoverageNext]_coverageVars => CoverageInv'
  BY CoverageNextKeeps, CoverageStutters
<1> QED
  BY <1>1, CoverageInitHolds, PTL DEF CoverageSpec

\* No line claims more requests for its question than were made.
THEOREM QueueBounded == CoverageSpec => []NeverOvercounts
BY CoverageInvariant, CoverageInvBounds, PTL

\* Under one lock the written file has one record for each question, which counts
\* every request for it and keeps every reason.
THEOREM QueueCounts == CoverageSpec => []OneLockCountsAll
BY CoverageInvariant, CoverageInvCounts, PTL

=============================================================================
