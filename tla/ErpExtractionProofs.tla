-------------------------- MODULE ErpExtractionProofs --------------------------
(***************************************************************************)
(* Proofs about ErpExtraction, for any ERP, any size of page and every     *)
(* connector.                                                              *)
(***************************************************************************)
EXTENDS ErpExtraction, FiniteSetTheorems, SequenceTheorems, WellFoundedInduction, TLAPS

(***************************************************************************)
(* Listings.                                                               *)
(***************************************************************************)
\* Ids whose places differ, in the order of their places: each once, none else.
LEMMA InOrderLists ==
  ASSUME NEW ids \in SUBSET Keys, NEW place \in [Keys -> Nat],
         \A j, k \in ids : place[j] = place[k] => j = k
  PROVE  /\ Cardinality(ids) \in Nat
         /\ InOrder(ids, place) \in [1..Cardinality(ids) -> ids]
         /\ Range(InOrder(ids, place)) = ids
         /\ \A i, j \in 1..Cardinality(ids) :
              i < j => place[InOrder(ids, place)[i]] < place[InOrder(ids, place)[j]]
<1> DEFINE n == Cardinality(ids)
           rows == InOrder(ids, place)
           Before(k) == {j \in ids : place[j] < place[k]}
           rank(k) == Cardinality(Before(k))
           f == [k \in ids |-> rank(k) + 1]
<1>1. IsFiniteSet(ids) /\ n \in Nat
  BY ExtractionAssumption, FS_Subset, FS_CardinalityType
<1>2. \A k \in ids : place[k] \in Nat
  OBVIOUS
<1>3. ASSUME NEW k \in ids PROVE rank(k) \in 0..(n - 1)
  <2>1. Before(k) \in SUBSET ids /\ k \notin Before(k)
    BY <1>2
  <2>2. IsFiniteSet(Before(k)) /\ rank(k) <= n /\ (n = rank(k) => ids = Before(k))
    BY <1>1, <2>1, FS_Subset
  <2>3. rank(k) \in Nat
    BY <2>2, FS_CardinalityType
  <2> QED
    BY <1>1, <2>1, <2>2, <2>3
<1>4. ASSUME NEW j \in ids, NEW k \in ids, place[j] < place[k] PROVE rank(j) < rank(k)
  <2>1. Before(j) \in SUBSET Before(k)
    BY <1>2, <1>4
  <2>2. j \in Before(k) /\ j \notin Before(j)
    BY <1>2, <1>4
  <2>3. Before(k) \in SUBSET ids
    OBVIOUS
  <2>4. IsFiniteSet(Before(k))
    BY <1>1, <2>3, FS_Subset
  <2>5. rank(j) <= rank(k) /\ (rank(k) = rank(j) => Before(k) = Before(j))
    BY <2>1, <2>4, FS_Subset
  <2> QED
    BY <1>3, <2>2, <2>5
<1> HIDE DEF rank, n
<1>5. \A j, k \in ids : rank(j) = rank(k) => j = k
  BY <1>2, <1>3, <1>4
<1>6. \A i \in 1..n : \E k \in ids : rank(k) = i - 1
  <2>1. f \in [ids -> 1..n]
    BY <1>1, <1>3
  <2>2. \A j, k \in ids : f[j] = f[k] => j = k
    BY <1>3, <1>5
  <2>3. IsFiniteSet(1..n) /\ Cardinality(1..n) = n
    BY <1>1, FS_Interval
  <2>4. f \in Injection(ids, 1..n)
    BY <2>1, <2>2 DEF Injection, IsInjective
  <2>5. \A k \in ids : f[k] = rank(k) + 1
    OBVIOUS
  <2>6. Cardinality(ids) = Cardinality(1..n)
    BY <2>3 DEF n
  <2> HIDE DEF f
  <2>7. f \in Surjection(ids, 1..n)
    BY <2>3, <2>4, <2>6, FS_Injection
  <2>8. \A i \in 1..n : \E k \in ids : f[k] = i
    BY <2>7 DEF Surjection
  <2>9. ASSUME NEW i \in 1..n PROVE \E k \in ids : rank(k) = i - 1
    <3>1. PICK k \in ids : f[k] = i
      BY <2>8
    <3>2. rank(k) + 1 = i /\ rank(k) \in Int
      BY <1>3, <2>5, <3>1
    <3> QED
      BY <3>2
  <2> QED
    BY <2>9
<1>7. rows = [i \in 1..n |-> CHOOSE k \in ids : rank(k) = i - 1]
  BY DEF InOrder, rank, n
<1> HIDE DEF rows
<1>8. \A i \in 1..n : rows[i] \in ids /\ rank(rows[i]) = i - 1
  BY <1>6, <1>7
<1>9. rows \in [1..n -> ids]
  BY <1>7, <1>8
<1>10. ASSUME NEW k \in ids PROVE \E i \in 1..n : rows[i] = k
  <2>1. rank(k) + 1 \in 1..n
    BY <1>1, <1>3
  <2>2. rank(rows[rank(k) + 1]) = rank(k) /\ rows[rank(k) + 1] \in ids
    BY <1>3, <1>8, <2>1
  <2> QED
    BY <1>5, <2>1, <2>2
<1>11. Range(rows) = ids
  BY <1>9, <1>10 DEF Range
<1>12. ASSUME NEW i \in 1..n, NEW j \in 1..n, i < j PROVE place[rows[i]] < place[rows[j]]
  <2>1. rows[i] \in ids /\ rows[j] \in ids /\ rank(rows[i]) < rank(rows[j])
    BY <1>1, <1>8, <1>12
  <2>2. ~(place[rows[j]] < place[rows[i]])
    BY <1>3, <1>4, <2>1
  <2>3. place[rows[i]] # place[rows[j]]
    BY <1>3, <2>1
  <2> QED
    BY <1>2, <2>1, <2>2, <2>3
<1> QED
  BY <1>1, <1>9, <1>11, <1>12 DEF n, rows

\* What the ERP lists of some ids: each once, in the order of their places.
LEMMA ListedLists ==
  ASSUME NEW ids \in SUBSET Keys
  PROVE  /\ Cardinality(ids) \in Nat
         /\ Listed(ids) \in Seq(ids) /\ Len(Listed(ids)) = Cardinality(ids)
         /\ Range(Listed(ids)) = ids
         /\ \A i, j \in 1..Len(Listed(ids)) :
              i < j => Place[Listed(ids)[i]] < Place[Listed(ids)[j]]
<1>1. Place \in [Keys -> Nat] /\ \A j, k \in ids : Place[j] = Place[k] => j = k
  BY ExtractionAssumption DEF IsInjective
<1>2. Listed(ids) = InOrder(ids, Place)
  BY DEF Listed, Listing
<1>3. /\ Cardinality(ids) \in Nat
      /\ InOrder(ids, Place) \in [1..Cardinality(ids) -> ids]
      /\ Range(InOrder(ids, Place)) = ids
      /\ \A i, j \in 1..Cardinality(ids) :
           i < j => Place[InOrder(ids, Place)[i]] < Place[InOrder(ids, Place)[j]]
  BY <1>1, InOrderLists
<1>4. Listed(ids) \in Seq(ids) /\ Len(Listed(ids)) = Cardinality(ids)
  BY <1>2, <1>3
<1> QED
  BY <1>2, <1>3, <1>4

\* A sequence of ids that rises in place names none twice.
LEMMA RisingIsInjective ==
  ASSUME NEW place \in [Keys -> Nat], NEW rows \in Seq(Keys),
         \A i, j \in 1..Len(rows) : i < j => place[rows[i]] < place[rows[j]]
  PROVE  IsInjective(rows)
<1> SUFFICES ASSUME NEW i \in 1..Len(rows), NEW j \in 1..Len(rows), rows[i] = rows[j]
             PROVE  i = j
  BY DEF IsInjective
<1>1. rows[i] \in Keys /\ rows[j] \in Keys
  OBVIOUS
<1>2. place[rows[i]] \in Nat
  BY <1>1
<1>3. ~(i < j) /\ ~(j < i)
  BY <1>2
<1> QED
  BY <1>3

\* A page of a listing: the rows from the offset on, as many as there are.
LEMMA PageRows ==
  ASSUME NEW S, NEW rows \in Seq(S), NEW offset \in Nat, NEW size \in Nat
  PROVE  /\ Page(rows, offset, size) \in Seq(S)
         /\ Len(Page(rows, offset, size))
              = IF offset + size <= Len(rows) THEN size
                ELSE IF offset <= Len(rows) THEN Len(rows) - offset ELSE 0
         /\ \A i \in 1..Len(Page(rows, offset, size)) :
              offset + i \in 1..Len(rows) /\ Page(rows, offset, size)[i] = rows[offset + i]
<1> DEFINE end == IF offset + size < Len(rows) THEN offset + size ELSE Len(rows)
           page == SubSeq(rows, offset + 1, end)
<1>1. Page(rows, offset, size) = page
  BY DEF Page
<1>2. Len(rows) \in Nat /\ end \in Nat /\ end <= Len(rows)
  OBVIOUS
<1>3. \A i \in (offset + 1)..end : rows[i] \in S
  BY <1>2
<1>4. /\ page \in Seq(S)
      /\ Len(page) = IF offset + 1 <= end THEN end - (offset + 1) + 1 ELSE 0
      /\ \A i \in 1..(end - (offset + 1) + 1) : page[i] = rows[(offset + 1) + i - 1]
  <2> HIDE DEF end
  <2> QED
    BY <1>2, <1>3, SubSeqProperties
<1>5. Len(page) = IF offset + size <= Len(rows) THEN size
                  ELSE IF offset <= Len(rows) THEN Len(rows) - offset ELSE 0
  <2> HIDE DEF page
  <2> QED
    BY <1>2, <1>4
<1>6. ASSUME NEW i \in 1..Len(page) PROVE offset + i \in 1..Len(rows) /\ page[i] = rows[offset + i]
  <2> HIDE DEF page
  <2>1. i \in 1..(end - (offset + 1) + 1) /\ (offset + 1) + i - 1 = offset + i
    BY <1>2, <1>4
  <2>2. offset + i \in 1..Len(rows)
    BY <1>2, <2>1
  <2> QED
    BY <1>4, <2>1, <2>2
<1> QED
  BY <1>1, <1>4, <1>5, <1>6

\* The ids of a page are those at its positions of the listing.
LEMMA PageRange ==
  ASSUME NEW S, NEW rows \in Seq(S), NEW offset \in Nat, NEW size \in Nat
  PROVE  /\ Range(Page(rows, offset, size)) \subseteq Range(rows)
         /\ Range(Page(rows, offset, size))
              = {rows[i] : i \in {j \in 1..Len(rows) : offset < j /\ j <= offset + size}}
         /\ IsInjective(rows) => IsInjective(Page(rows, offset, size))
<1> DEFINE page == Page(rows, offset, size)
<1>1. /\ page \in Seq(S)
      /\ Len(page) = IF offset + size <= Len(rows) THEN size
                     ELSE IF offset <= Len(rows) THEN Len(rows) - offset ELSE 0
      /\ \A i \in 1..Len(page) : offset + i \in 1..Len(rows) /\ page[i] = rows[offset + i]
  BY PageRows
<1> HIDE DEF page
<1>2. DOMAIN page = 1..Len(page) /\ DOMAIN rows = 1..Len(rows)
  BY <1>1
<1>3. Range(page) \subseteq Range(rows)
  BY <1>1, <1>2 DEF Range
<1>4. ASSUME NEW i \in 1..Len(page)
      PROVE  \E j \in 1..Len(rows) : offset < j /\ j <= offset + size /\ page[i] = rows[j]
  <2>1. offset + i \in 1..Len(rows) /\ offset < offset + i /\ offset + i <= offset + size
    BY <1>1
  <2> QED
    BY <1>1, <2>1
<1>5. ASSUME NEW j \in 1..Len(rows), offset < j, j <= offset + size
      PROVE  \E i \in 1..Len(page) : page[i] = rows[j]
  <2>1. j - offset \in 1..Len(page) /\ offset + (j - offset) = j
    BY <1>1, <1>5
  <2> QED
    BY <1>1, <2>1
<1>6. Range(page) = {rows[i] : i \in {j \in 1..Len(rows) : offset < j /\ j <= offset + size}}
  <2> DEFINE asked == {j \in 1..Len(rows) : offset < j /\ j <= offset + size}
  <2>1. ASSUME NEW k \in Range(page) PROVE k \in {rows[i] : i \in asked}
    <3>1. PICK i \in 1..Len(page) : k = page[i]
      BY <1>2, <2>1 DEF Range
    <3> QED
      BY <1>4, <3>1
  <2>2. ASSUME NEW j \in asked PROVE rows[j] \in Range(page)
    <3>1. PICK i \in 1..Len(page) : page[i] = rows[j]
      BY <1>5
    <3> QED
      BY <1>2, <3>1 DEF Range
  <2> QED
    BY <2>1, <2>2
<1>7. ASSUME IsInjective(rows), NEW i \in 1..Len(page), NEW j \in 1..Len(page), page[i] = page[j]
      PROVE  i = j
  <2>1. offset + i = offset + j
    BY <1>1, <1>2, <1>7 DEF IsInjective
  <2> QED
    BY <1>1, <2>1
<1> QED
  BY <1>2, <1>3, <1>6, <1>7 DEF page, IsInjective

\* The first page of a listing is its first rows.
LEMMA FirstRows ==
  ASSUME NEW rows \in Seq(Keys), NEW size \in Nat
  PROVE  /\ Page(rows, 0, size) \in Seq(Keys)
         /\ Len(Page(rows, 0, size)) = IF size <= Len(rows) THEN size ELSE Len(rows)
         /\ \A i \in 1..Len(Page(rows, 0, size)) :
              i \in 1..Len(rows) /\ Page(rows, 0, size)[i] = rows[i]
<1>1. ASSUME NEW start \in Nat
      PROVE  /\ Page(rows, start, size) \in Seq(Keys)
             /\ Len(Page(rows, start, size))
                  = IF start + size <= Len(rows) THEN size
                    ELSE IF start <= Len(rows) THEN Len(rows) - start ELSE 0
             /\ \A i \in 1..Len(Page(rows, start, size)) :
                  start + i \in 1..Len(rows) /\ Page(rows, start, size)[i] = rows[start + i]
  BY PageRows
<1>2. PICK start \in Nat : start = 0
  OBVIOUS
<1>3. Page(rows, start, size) = Page(rows, 0, size)
  BY <1>2
<1>4. /\ Page(rows, start, size) \in Seq(Keys)
      /\ Len(Page(rows, start, size)) = IF size <= Len(rows) THEN size ELSE Len(rows)
      /\ \A i \in 1..Len(Page(rows, start, size)) :
           i \in 1..Len(rows) /\ Page(rows, start, size)[i] = rows[i]
  <2> DEFINE page == Page(rows, start, size)
  <2>1. /\ page \in Seq(Keys)
        /\ Len(page) = IF start + size <= Len(rows) THEN size
                       ELSE IF start <= Len(rows) THEN Len(rows) - start ELSE 0
        /\ \A i \in 1..Len(page) : start + i \in 1..Len(rows) /\ page[i] = rows[start + i]
    BY <1>1
  <2> HIDE DEF page
  <2>2. Len(rows) \in Nat /\ Len(page) \in Nat
    BY <2>1
  <2>3. \A i \in 1..Len(page) : start + i = i
    BY <1>2, <2>2
  <2> QED
    BY <1>2, <2>1, <2>2, <2>3 DEF page
<1> QED
  BY <1>3, <1>4

\* A first page of a listing that rises: what is not on it comes after its last row.
LEMMA FirstPage ==
  ASSUME NEW place \in [Keys -> Nat], NEW rows \in Seq(Keys), NEW size \in Nat \ {0},
         \A i, j \in 1..Len(rows) : i < j => place[rows[i]] < place[rows[j]],
         rows # <<>>
  PROVE  /\ Page(rows, 0, size) # <<>>
         /\ Last(Page(rows, 0, size)) \in Range(Page(rows, 0, size))
         /\ \A k \in Range(rows) :
              k \in Range(Page(rows, 0, size)) \/ place[Last(Page(rows, 0, size))] < place[k]
         /\ \A k \in Range(Page(rows, 0, size)) :
              ~(place[Last(Page(rows, 0, size))] < place[k])
<1> DEFINE page == Page(rows, 0, size)
           n == Len(page)
<1>1. /\ page \in Seq(Keys)
      /\ Len(page) = IF size <= Len(rows) THEN size ELSE Len(rows)
      /\ \A i \in 1..Len(page) : i \in 1..Len(rows) /\ page[i] = rows[i]
  BY FirstRows
<1>2. Len(rows) \in Nat /\ Len(rows) # 0
  OBVIOUS
<1>3. n \in 1..Len(rows) /\ \A i \in 1..n : page[i] = rows[i]
  BY <1>1, <1>2
<1>4. Last(page) = rows[n]
  BY <1>3 DEF Last
<1>5. DOMAIN page = 1..n /\ DOMAIN rows = 1..Len(rows)
  BY <1>1
<1>9. page # <<>>
  BY <1>3
<1> HIDE DEF page, n
<1>6. Last(page) \in Range(page)
  BY <1>3, <1>4, <1>5 DEF Range
<1>7. ASSUME NEW k \in Range(rows) PROVE k \in Range(page) \/ place[Last(page)] < place[k]
  <2>1. PICK i \in 1..Len(rows) : k = rows[i]
    BY <1>5 DEF Range
  <2>2. CASE i <= n
    BY <1>3, <1>5, <2>1, <2>2 DEF Range
  <2>3. CASE n < i
    BY <1>3, <1>4, <2>1, <2>3
  <2> QED
    BY <1>3, <2>2, <2>3
<1>8. ASSUME NEW k \in Range(page) PROVE ~(place[Last(page)] < place[k])
  <2>1. PICK i \in 1..n : k = rows[i]
    BY <1>3, <1>5 DEF Range
  <2>2. i < n => place[k] < place[rows[n]]
    BY <1>3, <2>1
  <2>3. rows[n] \in Keys /\ k \in Keys
    BY <1>3, <2>1
  <2>4. place[k] \in Nat /\ place[rows[n]] \in Nat
    BY <2>3
  <2>5. i < n \/ i = n
    BY <1>3
  <2> QED
    BY <1>4, <2>1, <2>2, <2>4, <2>5
<1> QED
  BY <1>6, <1>7, <1>8, <1>9 DEF page

\* The records read for some rows, each as it is in the ERP.
LEMMA RecordsRead ==
  ASSUME erp \in [Keys -> Stamps], NEW rows \in Seq(Live)
  PROVE  /\ VersionsOf(rows) \in Seq(Versions) /\ Len(VersionsOf(rows)) = Len(rows)
         /\ Range(VersionsOf(rows)) = {Version(k) : k \in Range(rows)}
         /\ \A i \in 1..Len(rows) : VersionsOf(rows)[i][1] = rows[i]
<1>1. \A i \in 1..Len(rows) : rows[i] \in Keys /\ erp[rows[i]] \in 1..MaxClock
  <2> SUFFICES ASSUME NEW i \in 1..Len(rows)
               PROVE  rows[i] \in Keys /\ erp[rows[i]] \in 1..MaxClock
    OBVIOUS
  <2>1. rows[i] \in Keys /\ erp[rows[i]] > 0
    BY DEF Live
  <2>2. erp[rows[i]] \in 0..MaxClock
    BY <2>1 DEF Stamps
  <2> QED
    BY <2>1, <2>2, ExtractionAssumption
<1>2. \A i \in 1..Len(rows) : Version(rows[i]) \in Versions /\ Version(rows[i])[1] = rows[i]
  BY <1>1 DEF Version, Versions
<1>3. VersionsOf(rows) \in Seq(Versions) /\ Len(VersionsOf(rows)) = Len(rows)
  BY <1>2 DEF VersionsOf
<1>4. DOMAIN rows = 1..Len(rows)
  OBVIOUS
<1>5. Range(VersionsOf(rows)) = {Version(k) : k \in Range(rows)}
  BY <1>4 DEF VersionsOf, Range
<1> QED
  BY <1>2, <1>3, <1>5 DEF VersionsOf

\* No id is named twice.
Sole(out) == IsInjective([i \in 1..Len(out) |-> out[i][1]])

\* Some records more, read for rows: what is yielded then.
LEMMA RecordsAdded ==
  ASSUME erp \in [Keys -> Stamps], NEW out \in Seq(Versions), NEW rows \in Seq(Live)
  PROVE  /\ out \o VersionsOf(rows) \in Seq(Versions)
         /\ Range(out \o VersionsOf(rows)) = Range(out) \cup {Version(k) : k \in Range(rows)}
         /\ IdsOf(Range(out \o VersionsOf(rows))) = IdsOf(Range(out)) \cup Range(rows)
<1> DEFINE more == VersionsOf(rows)
<1>1. /\ more \in Seq(Versions) /\ Range(more) = {Version(k) : k \in Range(rows)}
  BY RecordsRead
<1> HIDE DEF more
<1>2. out \o more \in Seq(Versions) /\ Range(out \o more) = Range(out) \cup Range(more)
  BY <1>1, RangeConcatenation
<1>3. \A k : Version(k)[1] = k
  BY DEF Version
<1>4. IdsOf(Range(more)) = Range(rows)
  <2>1. \A k \in Range(rows) : Version(k) \in Range(more)
    BY <1>1
  <2>2. \A v \in Range(more) : \E k \in Range(rows) : v = Version(k)
    BY <1>1
  <2> QED
    BY <1>3, <2>1, <2>2 DEF IdsOf
<1>5. IdsOf(Range(out) \cup Range(more)) = IdsOf(Range(out)) \cup IdsOf(Range(more))
  BY DEF IdsOf
<1> QED
  BY <1>1, <1>2, <1>4, <1>5 DEF more

\* New rows, each once, do not make a yield name an id twice.
LEMMA SoleStays ==
  ASSUME erp \in [Keys -> Stamps], NEW out \in Seq(Versions), NEW rows \in Seq(Live),
         Sole(out), IsInjective(rows), Range(rows) \cap IdsOf(Range(out)) = {}
  PROVE  Sole(out \o VersionsOf(rows))
<1> DEFINE more == VersionsOf(rows)
           all == out \o more
<1>1. /\ more \in Seq(Versions) /\ Len(more) = Len(rows)
      /\ \A i \in 1..Len(rows) : more[i][1] = rows[i]
  BY RecordsRead
<1> HIDE DEF more
<1>2. /\ Len(all) = Len(out) + Len(rows)
      /\ \A i \in 1..Len(all) : all[i] = IF i <= Len(out) THEN out[i] ELSE more[i - Len(out)]
  <2>1. /\ Len(out \o more) = Len(out) + Len(more)
        /\ \A i \in 1..Len(out) + Len(more) :
             (out \o more)[i] = IF i <= Len(out) THEN out[i] ELSE more[i - Len(out)]
    BY <1>1, ConcatProperties
  <2> QED
    BY <1>1, <2>1
<1>3. Len(out) \in Nat /\ Len(rows) \in Nat /\ DOMAIN rows = 1..Len(rows)
  OBVIOUS
<1> HIDE DEF all
<1>4. \A i \in 1..Len(out) : out[i][1] \in IdsOf(Range(out))
  BY DEF IdsOf, Range
<1>5. \A i \in 1..Len(rows) : rows[i] \in Range(rows)
  BY <1>3 DEF Range
<1>6. \A i, j \in 1..Len(out) : out[i][1] = out[j][1] => i = j
  BY DEF Sole, IsInjective
<1>7. ASSUME NEW i \in 1..Len(all), NEW j \in 1..Len(all), all[i][1] = all[j][1]
      PROVE  i = j
  <2>1. CASE i <= Len(out) /\ j <= Len(out)
    BY <1>2, <1>3, <1>6, <1>7, <2>1
  <2>2. CASE ~(i <= Len(out)) /\ ~(j <= Len(out))
    <3>1. i - Len(out) \in 1..Len(rows) /\ j - Len(out) \in 1..Len(rows)
      BY <1>2, <1>3, <2>2
    <3>2. rows[i - Len(out)] = rows[j - Len(out)]
      BY <1>1, <1>2, <1>7, <2>2, <3>1
    <3>3. i - Len(out) = j - Len(out)
      BY <1>3, <3>1, <3>2 DEF IsInjective
    <3> QED
      BY <1>3, <3>3
  <2>3. CASE i <= Len(out) /\ ~(j <= Len(out))
    <3>1. j - Len(out) \in 1..Len(rows) /\ i \in 1..Len(out)
      BY <1>2, <1>3, <2>3
    <3>2. out[i][1] = rows[j - Len(out)]
      BY <1>1, <1>2, <1>7, <2>3, <3>1
    <3> QED
      BY <1>4, <1>5, <3>1, <3>2
  <2>4. CASE ~(i <= Len(out)) /\ j <= Len(out)
    <3>1. i - Len(out) \in 1..Len(rows) /\ j \in 1..Len(out)
      BY <1>2, <1>3, <2>4
    <3>2. out[j][1] = rows[i - Len(out)]
      BY <1>1, <1>2, <1>7, <2>4, <3>1
    <3> QED
      BY <1>4, <1>5, <3>1, <3>2
  <2> QED
    BY <2>1, <2>2, <2>3, <2>4
<1> QED
  BY <1>7 DEF Sole, IsInjective, all, more

\* What Eclipse and Agility yield of a page: its ids that they did not yield, each once.
LEMMA UnseenRows ==
  ASSUME NEW rows \in Seq(Live)
  PROVE  /\ Unseen(rows) \in Seq(Live) /\ IsInjective(Unseen(rows))
         /\ Range(Unseen(rows)) = Range(rows) \ IdsOf(Yielded)
<1> DEFINE fresh == Range(rows) \ IdsOf(Yielded)
<1>1. DOMAIN rows = 1..Len(rows)
  OBVIOUS
<1>2. fresh \in SUBSET Live /\ fresh \in SUBSET Keys
  BY <1>1 DEF Range, Live
<1> HIDE DEF fresh
<1>3. /\ Listed(fresh) \in Seq(fresh) /\ Range(Listed(fresh)) = fresh
      /\ \A i, j \in 1..Len(Listed(fresh)) :
           i < j => Place[Listed(fresh)[i]] < Place[Listed(fresh)[j]]
  BY <1>2, ListedLists
<1>4. Listed(fresh) \in Seq(Live) /\ Listed(fresh) \in Seq(Keys)
  BY <1>2, <1>3
<1>5. Place \in [Keys -> Nat]
  BY ExtractionAssumption
<1>6. IsInjective(Listed(fresh))
  BY <1>3, <1>4, <1>5, RisingIsInjective
<1> QED
  BY <1>3, <1>4, <1>6 DEF Unseen, fresh

\* Every set of naturals that is not empty has a least element.
LEMMA LeastElement ==
  ASSUME NEW T, T \subseteq Nat, T # {}
  PROVE  \E x \in T : \A y \in T : x <= y
<1> DEFINE R == {ss \in Nat \X Nat : ss[1] < ss[2]}
<1>1. OpToRel(<, Nat) = R
  BY DEF OpToRel
<1>2. IsWellFoundedOn(R, Nat)
  BY <1>1, NatLessThanWellFounded
<1>3. PICK x \in T : \A y \in T : ~(<<y, x>> \in R)
  <2> HIDE DEF R
  <2> QED
    BY <1>2, WFMin
<1>4. ASSUME NEW y \in T PROVE x <= y
  <2>1. <<y, x>> \in Nat \X Nat
    BY <1>3
  <2> QED
    BY <1>3, <2>1
<1> QED
  BY <1>4

\* The largest of some naturals that are bounded is one of them.
LEMMA LargestElement ==
  ASSUME NEW T, T \subseteq Nat, T # {}, NEW bound \in Nat, \A x \in T : x <= bound
  PROVE  Max(T) \in T /\ \A x \in T : x <= Max(T)
<1> DEFINE gaps == {bound - x : x \in T}
<1>1. gaps \subseteq Nat /\ gaps # {}
  <2>1. \A x \in T : bound - x \in Nat
    OBVIOUS
  <2> QED
    BY <2>1
<1>2. PICK g \in gaps : \A y \in gaps : g <= y
  BY <1>1, LeastElement
<1>3. PICK m \in T : g = bound - m
  BY <1>2
<1>4. \A x \in T : bound - m <= bound - x
  BY <1>2, <1>3
<1>5. m \in T /\ \A x \in T : m >= x
  BY <1>4
<1>6. Max(T) \in T /\ \A x \in T : Max(T) >= x
  BY <1>5 DEF Max
<1> QED
  BY <1>6

USE DEF Eclipse, Agility, Netsuite, P21, Essbase, CloudPages, BusinessCentral, CloudLinks,
        BisTrack, LegacySql

(***************************************************************************)
(* Shapes of the state, whatever the ERP and its users do.                 *)
(***************************************************************************)
Known == {Eclipse, Agility, Netsuite, P21, Essbase, CloudPages, BusinessCentral, CloudLinks,
          BisTrack, LegacySql}
Detailed == {Eclipse, P21, Essbase}
HasDetails ==
  /\ connector.name \in Detailed
  /\ IF connector.name = Eclipse THEN connector.shape = "documents" ELSE connector.shape # "list"
Deafened == {Eclipse, Netsuite, P21, Essbase, CloudPages, CloudLinks}

\* A walk of a known connector is in a scope of its plan; only connectors with
\* details hold headers back, and the last page is remembered for its headers;
\* Business Central leaves its listing when it follows a link.
WalkOK(r) ==
  /\ connector.name \in Known
  /\ r.left # <<>> /\ Range(r.left) \subseteq Range(Plan)
  /\ Unscoped \in Range(r.left) => Len(r.left) = 1
  /\ Keyset => IsInjective(r.left)
  /\ r.pend # <<>> => HasDetails
  /\ r.last => r.pend # <<>>
  /\ r.deaf => connector.name \in Deafened
  /\ r.size \in 1..PageSize
  /\ connector.name = CloudLinks => r.pos \in Keys \cup {0}
  /\ connector.name = BusinessCentral /\ ~r.strayed => r.pos = 0

Clocked ==
  /\ \A k \in Keys : erp[k] <= clock
  /\ connector.name # BisTrack => mark[Unscoped] <= clock /\ run.top[Unscoped] <= clock

Shaped == TypeOK /\ Clocked /\ (run.stage = "walking" => WalkOK(run))

(***************************************************************************)
(* What a run r that has to yield w still has ahead of it.                 *)
(***************************************************************************)
\* How far down the listing a counting walk has asked.
Reached(r) ==
  IF connector.name = Eclipse /\ r.deaf THEN IF r.pos = 0 THEN 0 ELSE PageSize
  ELSE IF connector.name = Eclipse THEN r.pos * PageSize
  ELSE IF connector.name = CloudPages THEN r.pos * CloudPageSize
  ELSE r.pos

\* What a keyset walk has not passed yet.
Beyond(r, k) ==
  CASE connector.name = CloudLinks -> r.pos = 0 \/ Place[r.pos] < Place[k]
    [] connector.name = BisTrack -> r.pos < Number[k]
    [] OTHER -> TRUE

Here(r) == InScope(Head(r.left))
Below(ids, n) == {Listed(ids)[i] : i \in (n + 1)..Cardinality(ids)}
Room(r, w) ==
  IF Keyset THEN {k \in Here(r) : Beyond(r, k)}
  ELSE IF r.last THEN {}
  ELSE Below(w \cap Here(r), Reached(r))
Later(r) == UNION {InScope(s) : s \in Range(Tail(r.left))}
Ahead(r, w) == Range(r.pend) \cup Room(r, w) \cup Later(r)

\* What a record of the ERP must have stood still for to be promised.
Calm == touched = {}
Settled == IF Keyset THEN Keys \ touched ELSE IF Calm THEN Keys ELSE {}

\* Nothing is lost: a record that is wanted is yielded or ahead.
Kept(r, w) ==
  \A k \in w \cap Settled :
    Version(k) \in Range(r.out) \/ (r.stage = "walking" /\ k \in Ahead(r, w))

\* Nothing else is yielded.
Exact(r, w) == Calm =>
  /\ \A v \in Range(r.out) : \E k \in w : v = Version(k)
  /\ Range(r.pend) \subseteq w

\* Nothing is yielded twice ...
Counted == Counting /\ touched # {}
Once(r) == ~Counted => Sole(r.out)

\* ... because what was yielded is never ahead again.
Remembers == connector.name \in {Eclipse, Agility}
Apart(r, w) ==
  r.stage = "walking" /\ ~Remembers /\ ~Counted =>
    /\ IsInjective(r.pend)
    /\ IdsOf(Range(r.out)) \cap Ahead(r, w) = {}
    /\ Range(r.pend) \cap Room(r, w) = {}

Walked(r, w) == Kept(r, w) /\ Exact(r, w) /\ Once(r) /\ Apart(r, w)

\* Of a walk that went astray nothing is claimed.
ErpInv ==
  /\ Shaped
  /\ Resting => run.out = <<>>
  /\ ~Resting /\ ~Astray => Walked(run, Wanted)
  /\ MarkIsCovered
(***************************************************************************)
(* The shapes are kept.                                                    *)
(***************************************************************************)
\* The scopes of a source: some, none twice where the walk is by keys, and the
\* whole source only on its own.
LEMMA PlanOK ==
  /\ Plan \in Seq(AllScopes) /\ Plan # <<>>
  /\ Unscoped \in Range(Plan) => Len(Plan) = 1
  /\ Keyset => IsInjective(Plan)
<1>1. /\ <<Unscoped>> \in Seq(AllScopes) /\ <<Unscoped>> # <<>> /\ Len(<<Unscoped>>) = 1
      /\ IsInjective(<<Unscoped>>)
  BY DEF AllScopes, IsInjective
<1>2. \A s \in Seq(Scopes) : s \in Seq(AllScopes) /\ Unscoped \notin Range(s)
  BY ExtractionAssumption DEF AllScopes, Range
<1>3. CASE Plan = <<Unscoped>>
  BY <1>1, <1>3
<1>4. CASE Plan = AgilityScopes /\ connector.name = Agility
  BY <1>2, <1>4, AgilityAssumption DEF Keyset
<1>5. CASE Plan = Companies
  BY <1>2, <1>5, LinkAssumption
<1>6. CASE Plan = DocumentTypes /\ DocumentTypes # <<>>
  BY <1>2, <1>6, QueryAssumption
<1>7. \/ Plan = <<Unscoped>>
      \/ Plan = AgilityScopes /\ connector.name = Agility
      \/ Plan = Companies
      \/ Plan = DocumentTypes /\ DocumentTypes # <<>>
  <2>1. CASE connector.name = Agility
    BY <2>1 DEF Plan, AgilityPlan
  <2>2. CASE connector.name = BusinessCentral
    BY <2>2 DEF Plan
  <2>3. CASE connector.name = BisTrack
    BY <2>3 DEF Plan, ScanPlan
  <2>4. CASE connector.name \notin {Agility, BusinessCentral, BisTrack}
    BY <2>4 DEF Plan
  <2> QED
    BY <2>1, <2>2, <2>3, <2>4
<1> QED
  BY <1>3, <1>4, <1>5, <1>6, <1>7

\* What starts a walk: its scopes are the plan's.
LEMMA StartsFresh ==
  ASSUME NEW who, NEW walk \in Walks, NEW deaf \in BOOLEAN, Shaped,
         StartRun(who, walk, Plan, deaf), who \in Known, deaf => who \in Deafened
  PROVE  Shaped'
<1> DEFINE q == NewRun(walk, Plan, deaf)
<1>1. TypeOK /\ Clocked
  BY DEF Shaped
<1>2. /\ run' = q /\ touched' = {} /\ faults' = faults + (IF deaf THEN 1 ELSE 0)
      /\ deaf => faults < MaxFaults
      /\ UNCHANGED <<erp, clock, changes, connector, staged, mark, tombstones, sound>>
      /\ connector.name = who
  BY DEF StartRun, source, books
<1>3. q \in Runs
  <2>1. PageSize \in Nat /\ <<>> \in Seq(Keys) /\ <<>> \in Seq(Versions)
    BY ExtractionAssumption
  <2> QED
    BY <2>1, PlanOK DEF NewRun, Runs, Stamps
<1>4. TypeOK'
  <2>1. faults' \in 0..MaxFaults
    BY <1>1, <1>2, ExtractionAssumption DEF TypeOK
  <2> QED
    BY <1>1, <1>2, <1>3, <2>1 DEF TypeOK
<1>5. Clocked'
  <2>1. run'.top[Unscoped] = 0
    BY <1>2 DEF NewRun, AllScopes
  <2>2. clock \in Nat
    BY <1>1, ExtractionAssumption DEF TypeOK, Stamps
  <2> QED
    BY <1>1, <1>2, <2>1, <2>2 DEF Clocked
<1>6. WalkOK(q)
  <2>1. /\ q.left = Plan /\ q.pend = <<>> /\ q.last = FALSE /\ q.deaf = deaf /\ q.size = PageSize
        /\ q.pos = 0
    BY DEF NewRun
  <2>2. PageSize \in 1..PageSize
    BY ExtractionAssumption
  <2> QED
    BY <1>2, <2>1, <2>2, PlanOK DEF WalkOK
<1>7. WalkOK(run)'
  BY <1>2, <1>6 DEF WalkOK, HasDetails, Plan, Keyset, AgilityPlan, ScanPlan
<1> QED
  BY <1>4, <1>5, <1>7 DEF Shaped

\* A run that is no walk.
LEMMA RestOK ==
  ASSUME NEW stage \in Ends
  PROVE  /\ Rest(stage) \in Runs /\ Rest(stage).stage = stage
         /\ Rest(stage).out = <<>> /\ Rest(stage).top[Unscoped] = 0
<1>1. PageSize \in Nat /\ <<>> \in Seq(Keys) /\ <<>> \in Seq(Versions) /\ <<>> \in Seq(AllScopes)
  BY ExtractionAssumption
<1> QED
  BY <1>1 DEF Rest, NewRun, Runs, Stamps, AllScopes, Walks, Ends, Failures

\* Whole batches are no more than there is.
LEMMA WholeBatches ==
  ASSUME NEW len \in Nat, NEW size \in Nat \ {0}
  PROVE  (len \div size) * size \in Nat /\ (len \div size) * size <= len
<1>1. len \div size \in Nat
  OBVIOUS
<1>2. (len \div size) * size \in Nat
  BY <1>1
<1>3. (len \div size) * size <= len
  OBVIOUS
<1> QED
  BY <1>2, <1>3

\* What is on disk when a walk fails is still a file of records.
LEMMA TornShape ==
  ASSUME TypeOK
  PROVE  Torn \in [there: BOOLEAN, rows: SUBSET Versions]
<1> DEFINE n == (Len(run.out) \div BatchSize) * BatchSize
           part == SubSeq(run.out, 1, n)
<1>1. run.out \in Seq(Versions) /\ staged \in [there: BOOLEAN, rows: SUBSET Versions]
  BY DEF TypeOK, Runs
<1>2. Len(run.out) \in Nat /\ BatchSize \in Nat /\ BatchSize > 0
  BY <1>1, ExtractionAssumption
<1>3. n \in Nat /\ n <= Len(run.out)
  <2>1. Len(run.out) \in Nat /\ BatchSize \in Nat \ {0}
    BY <1>2
  <2> QED
    BY <2>1, WholeBatches, Zenon
<1> HIDE DEF n
<1>4. part \in Seq(Versions)
  <2>1. \A i \in 1..n : run.out[i] \in Versions
    BY <1>1, <1>3
  <2> QED
    BY <1>3, <2>1, SubSeqProperties
<1> HIDE DEF part
<1>5. Range(part) \subseteq Versions
  BY <1>4 DEF Range
<1> QED
  BY <1>1, <1>5 DEF Torn, part, n

LEMMA FailKeepsShape ==
  ASSUME NEW cost \in {0, 1}, NEW keeps \in BOOLEAN, Shaped, FailRun(cost, keeps)
  PROVE  Shaped'
<1>1. TypeOK /\ Clocked
  BY DEF Shaped
<1> DEFINE end == IF keeps THEN "quarantined" ELSE "failed"
<1>2. /\ run' = Rest(end) /\ staged' = Torn /\ faults' = faults + cost
      /\ faults + cost <= MaxFaults /\ sound' \in BOOLEAN
      /\ UNCHANGED <<erp, clock, changes, connector, mark, tombstones, touched>>
  BY DEF FailRun, source
<1>6. end \in Ends /\ end # "walking"
  BY DEF Ends, Failures
<1> HIDE DEF end
<1>3. TypeOK'
  <2>1. faults' \in 0..MaxFaults
    BY <1>1, <1>2, ExtractionAssumption DEF TypeOK
  <2> QED
    BY <1>1, <1>2, <1>6, <2>1, RestOK, TornShape DEF TypeOK
<1>4. Clocked'
  <2>1. clock \in Nat
    BY <1>1, ExtractionAssumption DEF TypeOK, Stamps
  <2> QED
    BY <1>1, <1>2, <1>6, <2>1, RestOK DEF Clocked
<1>5. run'.stage # "walking"
  BY <1>2, <1>6, RestOK
<1> QED
  BY <1>3, <1>4, <1>5 DEF Shaped

\* A walk that goes on, or is over, with its records.
LEMMA GoesOnShape ==
  ASSUME NEW q \in Runs, Shaped, run' = q,
         UNCHANGED <<source, connector, books, history>>, faults' \in 0..MaxFaults,
         q.stage = "walking" => WalkOK(q),
         connector.name # BisTrack => q.top[Unscoped] <= clock
  PROVE  Shaped'
<1>1. TypeOK /\ Clocked
  BY DEF Shaped
<1>2. UNCHANGED <<erp, clock, changes, connector, staged, mark, tombstones, touched, sound>>
  BY DEF source, books, history
<1>3. TypeOK'
  BY <1>1, <1>2 DEF TypeOK
<1>4. Clocked'
  BY <1>1, <1>2 DEF Clocked
<1>5. (run.stage = "walking" => WalkOK(run))'
  BY <1>2 DEF WalkOK, HasDetails, Plan, Keyset, AgilityPlan, ScanPlan
<1> QED
  BY <1>3, <1>4, <1>5 DEF Shaped

\* The end of a walk.
LEMMA CompleteKeepsShape ==
  ASSUME NEW snapshots \in BOOLEAN, NEW newMark \in [AllScopes -> Nat], Shaped,
         CompleteRun(snapshots, newMark),
         connector.name # BisTrack => newMark[Unscoped] <= clock
  PROVE  Shaped'
<1>1. TypeOK /\ Clocked
  BY DEF Shaped
<1>2. /\ run' = Rest("idle") /\ staged' = Published
      /\ \E found \in Found : tombstones' = tombstones \cup Deleted(snapshots, found)
      /\ mark' = IF run.walk = "incremental" THEN newMark ELSE mark
      /\ sound' \in BOOLEAN
      /\ UNCHANGED <<erp, clock, changes, connector, touched, faults>>
  <2>1. sound \in BOOLEAN
    BY <1>1 DEF TypeOK
  <2> QED
    BY <2>1 DEF CompleteRun, source
<1>3. run.out \in Seq(Versions) /\ staged \in [there: BOOLEAN, rows: SUBSET Versions]
  BY <1>1 DEF TypeOK, Runs
<1>4. Yielded \subseteq Versions
  BY <1>3 DEF Yielded, Range
<1>5. Published \in [there: BOOLEAN, rows: SUBSET Versions]
  BY <1>3, <1>4 DEF Published
<1>6. \A found : Deleted(snapshots, found) \subseteq Keys
  BY <1>3 DEF Deleted, IdsOf, Versions
<1>7. TypeOK'
  <2>1. tombstones' \subseteq Keys
    BY <1>1, <1>2, <1>6 DEF TypeOK
  <2>2. "idle" \in Ends
    BY DEF Ends
  <2> QED
    BY <1>1, <1>2, <1>5, <2>1, <2>2, RestOK DEF TypeOK
<1>8. Clocked'
  <2>1. clock \in Nat
    BY <1>1, ExtractionAssumption DEF TypeOK, Stamps
  <2>2. "idle" \in Ends
    BY DEF Ends
  <2> QED
    BY <1>1, <1>2, <2>1, <2>2, RestOK DEF Clocked
<1>9. run'.stage # "walking"
  BY <1>2, RestOK DEF Ends
<1> QED
  BY <1>7, <1>8, <1>9 DEF Shaped

\* A page of what the ERP lists.
LEMMA ListedPage ==
  ASSUME NEW ids \in SUBSET Live, NEW offset \in Nat, NEW size \in Nat
  PROVE  /\ Listed(ids) \in Seq(Live) /\ IsInjective(Listed(ids))
         /\ Page(Listed(ids), offset, size) \in Seq(Live)
         /\ Range(Page(Listed(ids), offset, size)) \subseteq ids
         /\ IsInjective(Page(Listed(ids), offset, size))
<1>1. ids \in SUBSET Keys
  BY DEF Live
<1>2. /\ Listed(ids) \in Seq(ids) /\ Range(Listed(ids)) = ids
      /\ \A i, j \in 1..Len(Listed(ids)) :
           i < j => Place[Listed(ids)[i]] < Place[Listed(ids)[j]]
  BY <1>1, ListedLists
<1>3. Listed(ids) \in Seq(Live) /\ Listed(ids) \in Seq(Keys)
  BY <1>1, <1>2
<1>4. IsInjective(Listed(ids))
  <2>1. Place \in [Keys -> Nat]
    BY ExtractionAssumption
  <2> QED
    BY <1>2, <1>3, <2>1, RisingIsInjective
<1>5. Page(Listed(ids), offset, size) \in Seq(Live)
  BY <1>3, PageRows
<1>6. /\ Range(Page(Listed(ids), offset, size)) \subseteq Range(Listed(ids))
      /\ IsInjective(Listed(ids)) => IsInjective(Page(Listed(ids), offset, size))
  BY <1>3, PageRange
<1> QED
  BY <1>2, <1>3, <1>4, <1>5, <1>6

\* A page of what a BisTrack scan reads, in a scope of its plan.
LEMMA NumberedPage ==
  ASSUME NEW s \in Range(ScanPlan), NEW ids \in SUBSET (Live \cap InScope(s))
  PROVE  /\ ByNumber(ids) \in Seq(Live) /\ Range(ByNumber(ids)) = ids
         /\ \A i, j \in 1..Len(ByNumber(ids)) :
              i < j => Number[ByNumber(ids)[i]] < Number[ByNumber(ids)[j]]
         /\ Page(ByNumber(ids), 0, PageSize) \in Seq(Live)
         /\ Range(Page(ByNumber(ids), 0, PageSize)) \subseteq ids
         /\ IsInjective(Page(ByNumber(ids), 0, PageSize))
<1>1. ids \in SUBSET Keys /\ ids \in SUBSET Live
  BY DEF Live
<1>2. Number \in [Keys -> Nat]
  BY QueryAssumption
<1>3. \A j, k \in ids : Number[j] = Number[k] => j = k
  <2>1. CASE DocumentTypes = <<>>
    BY <1>1, <2>1, QueryAssumption
  <2>2. CASE DocumentTypes # <<>>
    <3>1. s # Unscoped
      BY <2>2, ExtractionAssumption, QueryAssumption DEF ScanPlan, Range
    <3>2. \A k \in ids : ScopeOf[k] = s
      BY <3>1 DEF InScope
    <3> QED
      BY <1>1, <3>2, QueryAssumption
  <2> QED
    BY <2>1, <2>2
<1>4. /\ Cardinality(ids) \in Nat
      /\ InOrder(ids, Number) \in [1..Cardinality(ids) -> ids]
      /\ Range(InOrder(ids, Number)) = ids
      /\ \A i, j \in 1..Cardinality(ids) :
           i < j => Number[InOrder(ids, Number)[i]] < Number[InOrder(ids, Number)[j]]
  BY <1>1, <1>2, <1>3, InOrderLists
<1> DEFINE rows == InOrder(ids, Number)
<1>5. ByNumber(ids) = rows
  BY DEF ByNumber
<1> HIDE DEF rows
<1>6. rows \in Seq(ids) /\ Len(rows) = Cardinality(ids)
  BY <1>4 DEF rows
<1>7. rows \in Seq(Live) /\ rows \in Seq(Keys)
  BY <1>1, <1>6
<1>8. \A i, j \in 1..Len(rows) : i < j => Number[rows[i]] < Number[rows[j]]
  BY <1>4, <1>6 DEF rows
<1>9. IsInjective(rows)
  BY <1>2, <1>7, <1>8, RisingIsInjective
<1>10. 0 \in Nat /\ PageSize \in Nat
  BY ExtractionAssumption
<1>11. Page(rows, 0, PageSize) \in Seq(Live)
  BY <1>7, <1>10, PageRows
<1>12. /\ Range(Page(rows, 0, PageSize)) \subseteq Range(rows)
       /\ IsInjective(rows) => IsInjective(Page(rows, 0, PageSize))
  BY <1>7, <1>10, PageRange
<1> QED
  BY <1>4, <1>5, <1>7, <1>8, <1>9, <1>11, <1>12 DEF rows

\* Stamps noted: the largest is one of the ERP's.
LEMMA StampsNoted ==
  ASSUME TypeOK, Clocked, NEW r \in Runs, NEW rows \in Seq(Live)
  PROVE  \E t \in [AllScopes -> Nat] :
           /\ Observe(r, Unscoped, rows) = [r EXCEPT !.top = t]
           /\ r.top[Unscoped] <= clock => t[Unscoped] <= clock
<1> DEFINE stamps == {r.top[Unscoped]} \cup {erp[k] : k \in Range(rows)}
           t == [r.top EXCEPT ![Unscoped] = Max(stamps)]
           bound == IF r.top[Unscoped] <= clock THEN clock ELSE r.top[Unscoped]
<1>1. r.top \in [AllScopes -> Nat] /\ clock \in Nat
  BY ExtractionAssumption DEF TypeOK, Runs, Stamps
<1>2. Unscoped \in AllScopes
  BY DEF AllScopes
<1>3. \A k \in Range(rows) : erp[k] \in Nat /\ erp[k] <= clock
  <2>1. Range(rows) \subseteq Keys
    BY DEF Range, Live
  <2> QED
    BY <2>1, ExtractionAssumption DEF TypeOK, Clocked, Stamps
<1>4. stamps \subseteq Nat /\ stamps # {} /\ bound \in Nat /\ \A x \in stamps : x <= bound
  BY <1>1, <1>2, <1>3
<1>5. Max(stamps) \in stamps
  <2> HIDE DEF stamps, bound
  <2> QED
    BY <1>4, LargestElement
<1>6. Max(stamps) \in Nat /\ Max(stamps) <= bound
  BY <1>4, <1>5
<1>7. Filterable => Observe(r, Unscoped, rows) = [r EXCEPT !.top = t]
  BY DEF Observe
<1>10. ~Filterable => Observe(r, Unscoped, rows) = [r EXCEPT !.top = r.top]
  BY DEF Observe, Runs
<1> HIDE DEF stamps
<1>8. t \in [AllScopes -> Nat]
  BY <1>1, <1>6
<1>9. r.top[Unscoped] <= clock => t[Unscoped] <= clock
  BY <1>1, <1>2, <1>6
<1> QED
  BY <1>1, <1>7, <1>8, <1>9, <1>10

(***************************************************************************)
(* Turns: a call was answered, q is the run with the records of the answer *)
(* before the walk goes on where it is or, over, with the next scope.      *)
(***************************************************************************)
Turns(q, new, over) ==
  /\ q \in Runs /\ new \in Seq(Live) /\ over \in BOOLEAN
  /\ Answered(IF over THEN NextScope(q) ELSE q)
  /\ q.stage = "walking" /\ q.walk = run.walk /\ q.left = run.left
  /\ q.deaf = run.deaf /\ q.size = run.size /\ (run.strayed => q.strayed)
  /\ q.out = run.out \o VersionsOf(new)
  /\ connector.name # BisTrack => q.top[Unscoped] <= clock

\* Of a number that is not 0.
LEMMA OneOrMore ==
  ASSUME NEW n \in Nat \ {0}
  PROVE  /\ n = 1 \/ n > 1
         /\ n > 1 => n # 1 /\ n - 1 # 0
OBVIOUS

\* The first scope and the rest.
LEMMA HeadAndTail ==
  ASSUME NEW S, NEW list \in Seq(S), list # <<>>
  PROVE  /\ Len(list) \in Nat \ {0} /\ Head(list) = list[1] /\ Head(list) \in Range(list)
         /\ Tail(list) \in Seq(S) /\ Len(Tail(list)) = Len(list) - 1
         /\ \A i \in 1..Len(Tail(list)) : Tail(list)[i] = list[i + 1]
         /\ Range(list) = {Head(list)} \cup Range(Tail(list))
         /\ Len(list) > 1 => Tail(list) # <<>>
         /\ IsInjective(list) => IsInjective(Tail(list)) /\ Head(list) \notin Range(Tail(list))
<1>1. Len(list) \in Nat /\ Len(list) # 0 /\ DOMAIN list = 1..Len(list)
  BY EmptySeq
<1>2. Head(list) = list[1]
  OBVIOUS
<1>3. Tail(list) \in Seq(S) /\ Len(Tail(list)) = Len(list) - 1
  BY HeadTailProperties
<1>4. \A i \in 1..Len(Tail(list)) : Tail(list)[i] = list[i + 1]
  BY HeadTailProperties
<1>5. DOMAIN Tail(list) = 1..Len(Tail(list))
  BY <1>3
<1>6. Range(list) = {Head(list)} \cup Range(Tail(list))
  <2>1. \A i \in 1..Len(list) : i = 1 \/ (i - 1 \in 1..Len(Tail(list)) /\ (i - 1) + 1 = i)
    BY <1>1, <1>3
  <2>2. \A i \in 1..Len(Tail(list)) : i + 1 \in 1..Len(list)
    BY <1>1, <1>3
  <2>3. 1 \in 1..Len(list)
    BY <1>1
  <2>4. ASSUME NEW x \in Range(list)
        PROVE  x \in {Head(list)} \cup Range(Tail(list))
    <3>1. PICK i \in 1..Len(list) : x = list[i]
      BY <1>1 DEF Range
    <3>2. CASE i = 1
      BY <1>2, <3>1, <3>2
    <3>3. CASE i - 1 \in 1..Len(Tail(list))
      <4>1. Tail(list)[i - 1] = list[(i - 1) + 1]
        BY <1>4, <3>3
      <4>2. (i - 1) + 1 = i
        BY <1>1
      <4>3. Tail(list)[i - 1] \in Range(Tail(list))
        BY <1>5, <3>3 DEF Range
      <4> QED
        BY <3>1, <4>1, <4>2, <4>3
    <3> QED
      BY <2>1, <3>2, <3>3
  <2>5. ASSUME NEW x \in Range(Tail(list))
        PROVE  x \in Range(list)
    <3>1. PICK i \in 1..Len(Tail(list)) : x = Tail(list)[i]
      BY <1>5 DEF Range
    <3> QED
      BY <1>1, <1>4, <2>2, <3>1 DEF Range
  <2>6. Head(list) \in Range(list)
    BY <1>1, <1>2, <2>3 DEF Range
  <2> QED
    BY <2>4, <2>5, <2>6
<1>7. Len(list) > 1 => Tail(list) # <<>>
  <2>1. Len(list) > 1 => Len(list) - 1 # 0
    BY <1>1, OneOrMore
  <2> QED
    BY <1>3, <2>1
<1>8. ASSUME IsInjective(list)
      PROVE  IsInjective(Tail(list)) /\ Head(list) \notin Range(Tail(list))
  <2>1. \A i, j \in 1..Len(list) : list[i] = list[j] => i = j
    BY <1>1, <1>8 DEF IsInjective
  <2>2. \A i \in 1..Len(Tail(list)) : i + 1 \in 1..Len(list) /\ i + 1 # 1
    BY <1>1, <1>3
  <2>3. IsInjective(Tail(list))
    <3> SUFFICES ASSUME NEW i \in 1..Len(Tail(list)), NEW j \in 1..Len(Tail(list)),
                        Tail(list)[i] = Tail(list)[j]
                 PROVE  i = j
      BY <1>5 DEF IsInjective
    <3>1. list[i + 1] = list[j + 1]
      BY <1>4
    <3>2. i + 1 = j + 1
      BY <2>1, <2>2, <3>1
    <3> QED
      BY <3>2
  <2>4. 1 \in 1..Len(list)
    BY <1>1
  <2>5. Head(list) \notin Range(Tail(list))
    <3>1. SUFFICES ASSUME NEW i \in 1..Len(Tail(list)), Head(list) = Tail(list)[i]
                   PROVE  FALSE
      BY <1>5 DEF Range
    <3>2. list[1] = list[i + 1]
      BY <1>2, <1>4, <3>1
    <3> QED
      BY <2>1, <2>2, <2>4, <3>2
  <2> QED
    BY <2>3, <2>5
<1> QED
  BY <1>1, <1>2, <1>3, <1>4, <1>6, <1>7, <1>8

LEMMA DetailsInOneScope ==
  ASSUME Shaped, run.stage = "walking", connector.name \in Detailed
  PROVE  Len(run.left) = 1
<1>1. /\ run.left # <<>> /\ Range(run.left) \subseteq Range(Plan)
      /\ Unscoped \in Range(run.left) => Len(run.left) = 1
      /\ run.left \in Seq(AllScopes)
  BY DEF Shaped, WalkOK, TypeOK, Runs
<1>2. Plan = <<Unscoped>>
  BY DEF Detailed, Plan
<1>3. Head(run.left) \in Range(run.left)
  BY <1>1, HeadAndTail
<1>4. Range(Plan) = {Unscoped}
  BY <1>2 DEF Range
<1> QED
  BY <1>1, <1>3, <1>4

\* A turn keeps the shapes when it holds headers back only where there are
\* details, remembers the last page only for them, and leaves links behind ids, or
\* strays.
LEMMA TurnKeepsShape ==
  ASSUME Shaped, run.stage = "walking", NEW q, NEW new, NEW over, Turns(q, new, over),
         q.pend # <<>> => HasDetails, q.last => connector.name \in Detailed,
         q.last => q.pend # <<>> \/ over,
         connector.name = CloudLinks => q.pos \in Keys \cup {0},
         connector.name = BusinessCentral /\ ~q.strayed => q.pos = 0
  PROVE  Shaped'
<1> DEFINE next == IF over THEN NextScope(q) ELSE q
           to == [next EXCEPT !.tries = 0]
<1>1. /\ q \in Runs /\ q.stage = "walking" /\ q.left = run.left /\ q.deaf = run.deaf
      /\ q.size = run.size /\ over \in BOOLEAN
      /\ connector.name # BisTrack => q.top[Unscoped] <= clock
  BY DEF Turns
<1>2. run' = to /\ UNCHANGED <<source, connector, books, history, faults>>
  BY DEF Turns, Answered
<1>3. WalkOK(run) /\ TypeOK
  BY DEF Shaped
<1>4. run.left \in Seq(AllScopes) /\ run.left # <<>>
  BY <1>3 DEF TypeOK, Runs, WalkOK
<1>5. Len(run.left) \in Nat \ {0}
  BY <1>4, HeadAndTail
<1>6. CASE ~over
  <2>1. to = [q EXCEPT !.tries = 0]
    BY <1>6
  <2> HIDE DEF to
  <2>2. /\ to \in Runs /\ to.left = run.left /\ to.deaf = run.deaf /\ to.size = run.size
        /\ to.pend = q.pend /\ to.last = q.last /\ to.pos = q.pos /\ to.top = q.top
        /\ to.strayed = q.strayed
    BY <1>1, <2>1 DEF Runs
  <2>3. WalkOK(to)
    BY <1>3, <1>6, <2>2 DEF WalkOK
  <2> QED
    BY <1>1, <1>2, <1>3, <2>2, <2>3, GoesOnShape DEF TypeOK
<1>7. CASE over /\ Len(run.left) = 1
  <2>1. to = [[q EXCEPT !.stage = "walked"] EXCEPT !.tries = 0]
    BY <1>1, <1>7 DEF NextScope
  <2> HIDE DEF to
  <2>2. to \in Runs /\ to.stage = "walked" /\ to.top = q.top
    BY <1>1, <2>1 DEF Runs
  <2> QED
    BY <1>1, <1>2, <1>3, <2>2, GoesOnShape DEF TypeOK
<1>8. CASE over /\ Len(run.left) > 1
  <2>1. connector.name \notin Detailed
    <3>1. Len(run.left) # 1
      BY <1>5, <1>8, OneOrMore, Zenon
    <3> QED
      BY <3>1, DetailsInOneScope
  <2>2. q.pend = <<>> /\ q.last = FALSE
    BY <1>1, <2>1 DEF Runs, HasDetails
  <2>3. to = [[q EXCEPT !.left = Tail(run.left), !.pos = 0, !.renewed = FALSE] EXCEPT !.tries = 0]
    BY <1>1, <1>8 DEF NextScope
  <2>4. Tail(run.left) \in Seq(AllScopes) /\ Tail(run.left) # <<>>
    BY <1>4, <1>8, HeadAndTail
  <2> HIDE DEF to
  <2>5. /\ to \in Runs /\ to.left = Tail(run.left) /\ to.pend = <<>> /\ to.last = FALSE
        /\ to.deaf = run.deaf /\ to.size = run.size /\ to.pos = 0 /\ to.top = q.top
    BY <1>1, <2>2, <2>3, <2>4 DEF Runs
  <2>6. /\ Range(Tail(run.left)) \subseteq Range(run.left)
        /\ IsInjective(run.left) => IsInjective(Tail(run.left))
    BY <1>4, HeadAndTail
  <2>7. Unscoped \notin Range(run.left)
    <3>1. Len(run.left) # 1
      BY <1>5, <1>8, OneOrMore, Zenon
    <3> QED
      BY <1>3, <3>1 DEF WalkOK
  <2>8. Unscoped \notin Range(to.left) /\ Range(to.left) \subseteq Range(Plan)
    BY <1>3, <2>5, <2>6, <2>7 DEF WalkOK
  <2>9. to.left # <<>> /\ (Keyset => IsInjective(to.left))
    BY <1>3, <2>4, <2>5, <2>6 DEF WalkOK
  <2>10. WalkOK(to)
    BY <1>3, <2>5, <2>8, <2>9 DEF WalkOK
  <2> QED
    BY <1>1, <1>2, <1>3, <2>5, <2>10, GoesOnShape DEF TypeOK
<1>9. Len(run.left) = 1 \/ Len(run.left) > 1
  BY <1>5, OneOrMore, Zenon
<1> QED
  BY <1>6, <1>7, <1>8, <1>9

\* Nothing more, and one record more.
LEMMA FewRecords ==
  ASSUME TypeOK
  PROVE  /\ run.out \o VersionsOf(<<>>) = run.out /\ <<>> \in Seq(Live) /\ VersionsOf(<<>>) = <<>>
         /\ \A id \in Live :
              <<id>> \in Seq(Live) /\ Append(run.out, Version(id)) = run.out \o VersionsOf(<<id>>)
<1>1. run.out \in Seq(Versions) /\ erp \in [Keys -> Stamps]
  BY DEF TypeOK, Runs
<1>2. <<>> \in Seq(Live)
  OBVIOUS
<1>6. VersionsOf(<<>>) \in Seq(Versions) /\ Len(VersionsOf(<<>>)) = 0
  BY <1>1, <1>2, RecordsRead
<1>3. VersionsOf(<<>>) = <<>>
  BY <1>6, EmptySeq
<1>4. run.out \o VersionsOf(<<>>) = run.out
  BY <1>1, <1>3
<1>5. ASSUME NEW id \in Live
      PROVE  Append(run.out, Version(id)) = run.out \o VersionsOf(<<id>>)
  <2>1. VersionsOf(<<id>>) = <<Version(id)>>
    BY DEF VersionsOf
  <2>2. Version(id) \in Versions
    BY <1>1, ExtractionAssumption DEF Version, Versions, Live, Stamps
  <2> QED
    BY <1>1, <2>1, <2>2, AppendIsConcat
<1> QED
  BY <1>2, <1>3, <1>4, <1>5

\* What may be asked for is there, and the windows are of live records.
LEMMA WindowRows ==
  ASSUME NEW ids \in SUBSET Live, NEW offset \in Nat
  PROVE  /\ Window(Listed(ids), offset) \in Seq(Live)
         /\ Len(Window(Listed(ids), offset)) \in Nat
<1>1. PageSize \in Nat
  BY ExtractionAssumption
<1>2. Window(Listed(ids), offset) \in Seq(Live)
  BY <1>1, ListedPage DEF Window
<1> QED
  BY <1>2

LEMMA EclipseRowsOK ==
  ASSUME Shaped
  PROVE  EclipseRows \in Seq(Live) /\ Len(EclipseRows) \in Nat
<1>1. Newer(Since(Unscoped)) \in SUBSET Live
  BY DEF Newer
<1>2. run.pos \in Nat /\ PageSize \in Nat
  BY ExtractionAssumption DEF Shaped, TypeOK, Runs
<1>3. Offset(run.pos * PageSize) \in Nat
  BY <1>2 DEF Offset
<1> QED
  BY <1>1, <1>3, WindowRows DEF EclipseRows, EclipseAsked

\* The run with more records, as a turn leaves it.
Onward(t, new, pos, pend, last, renewed) ==
  [run EXCEPT !.top = t, !.out = run.out \o VersionsOf(new), !.pos = pos, !.pend = pend,
              !.last = last, !.renewed = renewed]

\* The same, of a walk that may stray there.
Straying(t, new, pos, pend, last, renewed, strayed) ==
  [Onward(t, new, pos, pend, last, renewed) EXCEPT !.strayed = strayed]

LEMMA TurnStrays ==
  ASSUME Shaped, run.stage = "walking", NEW t \in [AllScopes -> Nat], NEW new \in Seq(Live),
         NEW pos \in Nat, NEW pend \in Seq(Keys), NEW last \in BOOLEAN, NEW renewed \in BOOLEAN,
         connector.name # BisTrack => t[Unscoped] <= clock,
         NEW strayed \in BOOLEAN, run.strayed => strayed,
         NEW over \in BOOLEAN, NEW q,
         q = Straying(t, new, pos, pend, last, renewed, strayed),
         Answered(IF over THEN NextScope(q) ELSE q)
  PROVE  /\ Turns(q, new, over) /\ q.pos = pos /\ q.pend = pend /\ q.last = last
         /\ q.strayed = strayed
<1>1. run \in Runs /\ erp \in [Keys -> Stamps] /\ run.out \in Seq(Versions)
  BY DEF Shaped, TypeOK, Runs
<1>2. run.out \o VersionsOf(new) \in Seq(Versions)
  BY <1>1, RecordsAdded
<1>3. t \in [AllScopes -> Stamps \cup Nat]
  OBVIOUS
<1>4. /\ q \in Runs /\ q.stage = "walking" /\ q.walk = run.walk /\ q.left = run.left
      /\ q.deaf = run.deaf /\ q.size = run.size /\ q.out = run.out \o VersionsOf(new)
      /\ q.top = t /\ q.pos = pos /\ q.pend = pend /\ q.last = last /\ q.strayed = strayed
  BY <1>1, <1>2, <1>3 DEF Runs, Onward, Straying
<1> QED
  BY <1>4 DEF Turns

LEMMA TurnMade ==
  ASSUME Shaped, run.stage = "walking", NEW t \in [AllScopes -> Nat], NEW new \in Seq(Live),
         NEW pos \in Nat, NEW pend \in Seq(Keys), NEW last \in BOOLEAN, NEW renewed \in BOOLEAN,
         connector.name # BisTrack => t[Unscoped] <= clock,
         NEW over \in BOOLEAN, NEW q, q = Onward(t, new, pos, pend, last, renewed),
         Answered(IF over THEN NextScope(q) ELSE q)
  PROVE  /\ Turns(q, new, over) /\ q.pos = pos /\ q.pend = pend /\ q.last = last
         /\ q.strayed = run.strayed
<1>1. run \in Runs
  BY DEF Shaped, TypeOK
<1>2. run.strayed \in BOOLEAN /\ q = Straying(t, new, pos, pend, last, renewed, run.strayed)
  BY <1>1 DEF Runs, Onward, Straying
<1> QED
  BY <1>2, TurnStrays

\* The stamps of a page are noted, or they are not.
LEMMA StampsNotedOrNot ==
  ASSUME Shaped, NEW rows \in Seq(Live), connector.name # BisTrack,
         NEW noted \in BOOLEAN
  PROVE  \E t \in [AllScopes -> Nat] :
           /\ (IF noted THEN Observe(run, Unscoped, rows) ELSE run) = [run EXCEPT !.top = t]
           /\ t[Unscoped] <= clock
<1>1. TypeOK /\ Clocked /\ run \in Runs /\ run.top[Unscoped] <= clock
  BY DEF Shaped, TypeOK, Clocked
<1>2. CASE noted
  BY <1>1, <1>2, StampsNoted
<1>3. CASE ~noted
  <2>1. run.top \in [AllScopes -> Nat] /\ run = [run EXCEPT !.top = run.top]
    BY <1>1, ExtractionAssumption DEF Runs, Stamps
  <2> QED
    BY <1>1, <1>3, <2>1
<1> QED
  BY <1>2, <1>3

LEMMA EclipsePageTurns ==
  ASSUME Shaped, EclipsePage
  PROVE  \E q : /\ Turns(q, Unseen(EclipseRows), Len(EclipseRows) < PageSize)
                /\ q.pos = run.pos + 1 /\ q.pend = run.pend /\ q.last = run.last
<1> DEFINE rows == EclipseRows
           seen == Observe(run, Unscoped, rows)
           new == Unseen(rows)
<1>1. run \in Runs /\ rows \in Seq(Live) /\ connector.name = Eclipse /\ run.stage = "walking"
  BY EclipseRowsOK DEF Shaped, TypeOK, EclipsePage, Walking
<1>2. new \in Seq(Live)
  BY <1>1, UnseenRows
<1>3. PICK t \in [AllScopes -> Nat] : seen = [run EXCEPT !.top = t] /\ t[Unscoped] <= clock
  BY <1>1, StampsNotedOrNot
<1> DEFINE q == [seen EXCEPT !.out = @ \o VersionsOf(new), !.pos = @ + 1]
           over == Len(rows) < PageSize
<1>4. Answered(IF over THEN NextScope(q) ELSE q)
  BY DEF EclipsePage
<1> HIDE DEF new, rows
<1>5. q = Onward(t, new, run.pos + 1, run.pend, run.last, run.renewed)
  BY <1>1, <1>3 DEF Runs, Onward
<1>6. /\ run.pos + 1 \in Nat /\ run.pend \in Seq(Keys) /\ run.last \in BOOLEAN
      /\ run.renewed \in BOOLEAN /\ over \in BOOLEAN
  BY <1>1 DEF Runs
<1> HIDE DEF q, over
<1>7. Turns(q, new, over) /\ q.pos = run.pos + 1 /\ q.pend = run.pend /\ q.last = run.last
  BY <1>1, <1>2, <1>3, <1>4, <1>5, <1>6, TurnMade
<1> QED
  BY <1>7 DEF new, rows, over

LEMMA EclipseHeadersTurns ==
  ASSUME Shaped, EclipseHeaders
  PROVE  \E q : /\ Turns(q, <<>>, EclipseRows = <<>>)
                /\ q.pos = run.pos + 1 /\ q.pend = EclipseRows
                /\ q.last = (Len(EclipseRows) < PageSize)
<1> DEFINE rows == EclipseRows
           seen == Observe(run, Unscoped, rows)
<1>1. run \in Runs /\ rows \in Seq(Live) /\ connector.name = Eclipse /\ run.stage = "walking"
      /\ TypeOK
  BY EclipseRowsOK DEF Shaped, TypeOK, EclipseHeaders, Walking
<1>2. PICK t \in [AllScopes -> Nat] : seen = [run EXCEPT !.top = t] /\ t[Unscoped] <= clock
  BY <1>1, StampsNotedOrNot
<1> DEFINE q == [seen EXCEPT !.pend = rows, !.pos = @ + 1, !.last = Len(rows) < PageSize]
           over == rows = <<>>
           last == Len(rows) < PageSize
<1>3. Answered(IF over THEN NextScope(q) ELSE q)
  BY DEF EclipseHeaders
<1> HIDE DEF rows
<1>4. q = Onward(t, <<>>, run.pos + 1, rows, last, run.renewed)
  <2>1. run.out \o VersionsOf(<<>>) = run.out
    BY <1>1, FewRecords
  <2>2. q = [run EXCEPT !.top = t, !.pend = rows, !.pos = run.pos + 1, !.last = last]
    BY <1>1, <1>2 DEF Runs
  <2> HIDE DEF q, last
  <2>3. q = [run EXCEPT !.top = t, !.out = run.out, !.pos = run.pos + 1, !.pend = rows,
                        !.last = last, !.renewed = run.renewed]
    BY <1>1, <2>2 DEF Runs
  <2> QED
    BY <2>1, <2>3 DEF Onward
<1>5. /\ run.pos + 1 \in Nat /\ rows \in Seq(Keys) /\ run.renewed \in BOOLEAN
      /\ over \in BOOLEAN /\ last \in BOOLEAN /\ <<>> \in Seq(Live)
  BY <1>1, FewRecords DEF Runs, Live
<1> DEFINE none == <<>>
<1>6. none \in Seq(Live) /\ q = Onward(t, none, run.pos + 1, rows, last, run.renewed)
  BY <1>4
<1> HIDE DEF q, over, last, none
<1>7. Turns(q, none, over) /\ q.pos = run.pos + 1 /\ q.pend = rows /\ q.last = last
  BY <1>1, <1>2, <1>3, <1>5, <1>6, TurnMade
<1> QED
  BY <1>7 DEF rows, over, last, none

\* The headers of a page one by one.
LEMMA PendingHead ==
  ASSUME Shaped, run.pend # <<>>
  PROVE  /\ Head(run.pend) \in Keys /\ Tail(run.pend) \in Seq(Keys) /\ run.pend \in Seq(Keys)
         /\ Head(run.pend) \in Range(run.pend)
<1>1. run.pend \in Seq(Keys)
  BY DEF Shaped, TypeOK, Runs
<1>2. Head(run.pend) \in Range(run.pend) /\ Tail(run.pend) \in Seq(Keys)
  BY <1>1, HeadAndTail
<1>3. Range(run.pend) \subseteq Keys
  BY <1>1 DEF Range
<1> QED
  BY <1>1, <1>2, <1>3

LEMMA EclipseDetailTurns ==
  ASSUME Shaped, EclipseDetail, Head(run.pend) \in Live
  PROVE  \E q : /\ Turns(q, Unseen(<<Head(run.pend)>>), run.last /\ Tail(run.pend) = <<>>)
                /\ q.pos = run.pos /\ q.pend = Tail(run.pend) /\ q.last = run.last
<1> DEFINE id == Head(run.pend)
           new == Unseen(<<id>>)
           q == [run EXCEPT !.pend = Tail(@), !.out = @ \o VersionsOf(new)]
           over == run.last /\ Tail(run.pend) = <<>>
<1>1. run \in Runs /\ run.stage = "walking" /\ connector.name = Eclipse /\ run.pend # <<>>
      /\ TypeOK /\ Clocked
  BY DEF Shaped, TypeOK, EclipseDetail, Walking
<1>2. new \in Seq(Live)
  <2>1. <<id>> \in Seq(Live)
    BY <1>1, FewRecords
  <2> QED
    BY <2>1, UnseenRows
<1>3. Tail(run.pend) \in Seq(Keys)
  BY <1>1, PendingHead
<1>4. Answered(IF q.last /\ q.pend = <<>> THEN NextScope(q) ELSE q)
  BY DEF EclipseDetail
<1> HIDE DEF new
<1>5. q = Onward(run.top, new, run.pos, Tail(run.pend), run.last, run.renewed)
  BY <1>1 DEF Runs, Onward
<1>6. q.last = run.last /\ q.pend = Tail(run.pend)
  BY <1>1 DEF Runs
<1>7. /\ run.pos \in Nat /\ run.last \in BOOLEAN /\ run.renewed \in BOOLEAN /\ over \in BOOLEAN
      /\ run.top \in [AllScopes -> Nat] /\ run.top[Unscoped] <= clock
  BY <1>1, ExtractionAssumption DEF Runs, Stamps, Clocked
<1> HIDE DEF q
<1>8. Answered(IF over THEN NextScope(q) ELSE q)
  BY <1>4, <1>6
<1> DEFINE rest == Tail(run.pend)
           t == run.top
<1>9. /\ rest \in Seq(Keys) /\ q = Onward(t, new, run.pos, rest, run.last, run.renewed)
      /\ t \in [AllScopes -> Nat] /\ t[Unscoped] <= clock
  BY <1>3, <1>5, <1>7
<1> HIDE DEF over, rest, t
<1>10. Turns(q, new, over) /\ q.pos = run.pos /\ q.pend = rest /\ q.last = run.last
  BY <1>1, <1>2, <1>7, <1>8, <1>9, TurnMade
<1> QED
  BY <1>10 DEF new, over, rest

LEMMA AgilityRowsOK ==
  ASSUME Shaped
  PROVE  /\ AgilityRows \in Seq(Live) /\ Len(AgilityRows) \in Nat
         /\ AgilityAsked \in Seq(Live) /\ Len(AgilityAsked) \in Nat
<1> DEFINE ids == Newer(Since(Unscoped)) \cap InScope(Scope)
<1>1. ids \in SUBSET Live
  BY DEF Newer
<1>2. run.pos \in Nat /\ PageSize \in Nat
  BY ExtractionAssumption DEF Shaped, TypeOK, Runs
<1>3. Listed(ids) = AgilityAsked
  BY DEF AgilityAsked
<1> HIDE DEF ids
<1>4. Listed(ids) \in Seq(Live)
  BY <1>1, <1>2, ListedPage
<1>5. Window(Listed(ids), run.pos) \in Seq(Live) /\ Len(Window(Listed(ids), run.pos)) \in Nat
  BY <1>1, <1>2, WindowRows
<1> QED
  BY <1>3, <1>4, <1>5 DEF AgilityRows

LEMMA AgilityChunkTurns ==
  ASSUME Shaped, AgilityChunk
  PROVE  \E q : /\ Turns(q, Unseen(AgilityRows),
                         ~(run.pos + Len(AgilityRows) < Len(AgilityAsked)))
                /\ q.pos = run.pos + Len(AgilityRows) /\ q.pend = run.pend /\ q.last = run.last
<1> DEFINE rows == AgilityRows
           seen == Observe(run, Unscoped, rows)
           new == Unseen(rows)
           pos == run.pos + Len(rows)
<1>1. run \in Runs /\ rows \in Seq(Live) /\ connector.name = Agility /\ run.stage = "walking"
      /\ Len(rows) \in Nat /\ Len(AgilityAsked) \in Nat
  BY AgilityRowsOK DEF Shaped, TypeOK, AgilityChunk, Walking
<1>2. new \in Seq(Live)
  BY <1>1, UnseenRows
<1>3. PICK t \in [AllScopes -> Nat] : seen = [run EXCEPT !.top = t] /\ t[Unscoped] <= clock
  BY <1>1, StampsNotedOrNot
<1> DEFINE q == [seen EXCEPT !.out = @ \o VersionsOf(new), !.pos = @ + Len(rows)]
           over == ~(pos < Len(AgilityAsked))
<1>4. Answered(IF q.pos < Len(AgilityAsked) THEN q ELSE NextScope(q))
  BY DEF AgilityChunk
<1> HIDE DEF new, rows
<1>5. q = Onward(t, new, pos, run.pend, run.last, run.renewed) /\ q.pos = pos
  <2>1. q = [run EXCEPT !.top = t, !.out = run.out \o VersionsOf(new), !.pos = pos]
    BY <1>1, <1>3 DEF Runs
  <2> HIDE DEF q, pos
  <2> QED
    BY <1>1, <2>1 DEF Runs, Onward
<1>6. /\ pos \in Nat /\ run.pend \in Seq(Keys) /\ run.last \in BOOLEAN
      /\ run.renewed \in BOOLEAN /\ over \in BOOLEAN
  BY <1>1 DEF Runs
<1> HIDE DEF q
<1>7. Answered(IF over THEN NextScope(q) ELSE q)
  BY <1>4, <1>5
<1> HIDE DEF over, pos
<1>8. Turns(q, new, over) /\ q.pos = pos /\ q.pend = run.pend /\ q.last = run.last
  BY <1>1, <1>2, <1>3, <1>5, <1>6, <1>7, TurnMade
<1> QED
  BY <1>8 DEF new, rows, over, pos

\* Lists are yielded as they come, headers are held back.
AsRecords(rows) == IF connector.shape = "list" THEN rows ELSE <<>>
AsHeaders(rows) == IF connector.shape = "list" THEN <<>> ELSE rows

LEMMA OffsetRowsOK ==
  ASSUME Shaped
  PROVE  /\ NetsuiteRows \in Seq(Live) /\ Len(NetsuiteRows) \in Nat
         /\ P21Rows \in Seq(Live) /\ Len(P21Rows) \in Nat
         /\ EssbaseRows \in Seq(Live) /\ Len(EssbaseRows) \in Nat
         /\ CloudRows \in Seq(Live) /\ Len(CloudRows) \in Nat
         /\ Len(Listed(Live)) \in Nat /\ Len(CloudAsked) \in Nat
<1>1. Newer(Since(Unscoped)) \in SUBSET Live /\ Live \in SUBSET Live
  BY DEF Newer
<1>2. run.pos \in Nat /\ PageSize \in Nat /\ CloudPageSize \in Nat
  BY ExtractionAssumption, OffsetAssumption DEF Shaped, TypeOK, Runs
<1>3. run.pos * CloudPageSize \in Nat
  BY <1>2
<1>4. Offset(run.pos) \in Nat /\ Offset(run.pos * CloudPageSize) \in Nat
  BY <1>2, <1>3 DEF Offset
<1>5. Listed(Live) \in Seq(Live) /\ CloudAsked \in Seq(Live)
  BY <1>1, <1>2, ListedPage DEF CloudAsked
<1>6. CloudRows \in Seq(Live)
  BY <1>1, <1>2, <1>4, ListedPage DEF CloudRows, CloudAsked
<1>7. /\ NetsuiteRows \in Seq(Live) /\ P21Rows \in Seq(Live) /\ EssbaseRows \in Seq(Live)
  BY <1>1, <1>4, WindowRows DEF NetsuiteRows, P21Rows, EssbaseRows
<1> QED
  BY <1>5, <1>6, <1>7


LEMMA NetsuitePageTurns ==
  ASSUME Shaped, NetsuitePage
  PROVE  \E q : /\ Turns(q, NetsuiteRows, Len(NetsuiteRows) < PageSize)
                /\ q.pos = run.pos + PageSize /\ q.pend = run.pend /\ q.last = run.last
<1> DEFINE rows == NetsuiteRows
           seen == Observe(run, Unscoped, rows)
           pos == run.pos + PageSize
<1>1. run \in Runs /\ rows \in Seq(Live) /\ connector.name = Netsuite /\ run.stage = "walking"
  BY OffsetRowsOK DEF Shaped, TypeOK, NetsuitePage, Walking
<1>2. PICK t \in [AllScopes -> Nat] : seen = [run EXCEPT !.top = t] /\ t[Unscoped] <= clock
  BY <1>1, StampsNotedOrNot
<1> DEFINE q == [seen EXCEPT !.out = @ \o VersionsOf(rows), !.pos = @ + PageSize]
           over == Len(rows) < PageSize
<1>3. Answered(IF over THEN NextScope(q) ELSE q)
  BY DEF NetsuitePage
<1> HIDE DEF rows
<1>4. q = Onward(t, rows, pos, run.pend, run.last, run.renewed)
  BY <1>1, <1>2 DEF Runs, Onward
<1>5. /\ pos \in Nat /\ run.pend \in Seq(Keys) /\ run.last \in BOOLEAN
      /\ run.renewed \in BOOLEAN /\ over \in BOOLEAN
  BY <1>1, ExtractionAssumption DEF Runs
<1> HIDE DEF q, over, pos
<1>6. Turns(q, rows, over) /\ q.pos = pos /\ q.pend = run.pend /\ q.last = run.last
  BY <1>1, <1>2, <1>3, <1>4, <1>5, TurnMade
<1> QED
  BY <1>6 DEF rows, over, pos

LEMMA CloudPageTurns ==
  ASSUME Shaped, CloudPage
  PROVE  \E q : /\ Turns(q, CloudRows, Len(CloudRows) < CloudPageSize \/ run.pos + 1 = PageLimit)
                /\ q.pos = run.pos + 1 /\ q.pend = run.pend /\ q.last = run.last
                /\ run.pos + 1 = PageLimit /\ PageLimit * CloudPageSize < Len(CloudAsked)
                     => q.strayed
<1> DEFINE rows == CloudRows
           seen == Observe(run, Unscoped, rows)
           pos == run.pos + 1
           cut == pos = PageLimit /\ PageLimit * CloudPageSize < Len(CloudAsked)
           strayed == run.strayed \/ cut
<1>1. run \in Runs /\ rows \in Seq(Live) /\ connector.name = CloudPages /\ run.stage = "walking"
  BY OffsetRowsOK DEF Shaped, TypeOK, CloudPage, Walking
<1>2. PICK t \in [AllScopes -> Nat] : seen = [run EXCEPT !.top = t] /\ t[Unscoped] <= clock
  BY <1>1, StampsNotedOrNot
<1> DEFINE q == [seen EXCEPT !.out = @ \o VersionsOf(rows), !.pos = @ + 1, !.strayed = @ \/ cut]
           over == Len(rows) < CloudPageSize \/ pos = PageLimit
<1>3. Answered(IF Len(rows) < CloudPageSize \/ q.pos = PageLimit THEN NextScope(q) ELSE q)
  BY DEF CloudPage
<1> HIDE DEF rows, cut
<1>4. q = Straying(t, rows, pos, run.pend, run.last, run.renewed, strayed) /\ q.pos = pos
  <2>1. q = [seen EXCEPT !.out = run.out \o VersionsOf(rows), !.pos = pos, !.strayed = strayed]
    BY <1>1, <1>2 DEF Runs
  <2> HIDE DEF q, seen, strayed
  <2>2. q = [run EXCEPT !.top = t, !.out = run.out \o VersionsOf(rows), !.pos = pos,
                        !.strayed = strayed]
    BY <1>1, <1>2, <2>1 DEF Runs
  <2> HIDE DEF pos
  <2>3. q = [[run EXCEPT !.top = t, !.out = run.out \o VersionsOf(rows), !.pos = pos,
                         !.pend = run.pend, !.last = run.last, !.renewed = run.renewed]
               EXCEPT !.strayed = strayed]
    BY <1>1, <2>2 DEF Runs
  <2>4. q.pos = pos
    BY <1>1, <2>2 DEF Runs
  <2> QED
    BY <2>3, <2>4 DEF Onward, Straying
<1>5. /\ pos \in Nat /\ run.pend \in Seq(Keys) /\ run.last \in BOOLEAN
      /\ run.renewed \in BOOLEAN /\ over \in BOOLEAN /\ cut \in BOOLEAN
      /\ strayed \in BOOLEAN /\ (run.strayed => strayed)
  BY <1>1 DEF Runs, cut
<1> HIDE DEF q, pos
<1>6. Answered(IF over THEN NextScope(q) ELSE q)
  BY <1>3, <1>4
<1>8. cut => strayed
  OBVIOUS
<1> HIDE DEF over, strayed
<1>7. /\ Turns(q, rows, over) /\ q.pos = pos /\ q.pend = run.pend /\ q.last = run.last
      /\ q.strayed = strayed
  BY <1>1, <1>2, <1>4, <1>5, <1>6, TurnStrays
<1> QED
  BY <1>7, <1>8 DEF rows, over, pos, cut


LEMMA P21PageTurns ==
  ASSUME Shaped, P21Page
  PROVE  \E q : /\ Turns(q, AsRecords(P21Rows),
                         Len(P21Rows) < PageSize /\ AsHeaders(P21Rows) = <<>>)
                /\ q.pos = run.pos + PageSize /\ q.pend = AsHeaders(P21Rows)
                /\ q.last = (Len(P21Rows) < PageSize)
<1> DEFINE rows == P21Rows
           new == AsRecords(rows)
           pend == AsHeaders(rows)
           seen == Observe(run, Unscoped, rows)
           pos == run.pos + PageSize
           last == Len(rows) < PageSize
<1>1. run \in Runs /\ rows \in Seq(Live) /\ connector.name = P21 /\ run.stage = "walking"
      /\ run.pend = <<>> /\ TypeOK
  BY OffsetRowsOK DEF Shaped, TypeOK, P21Page, Walking
<1>2. PICK t \in [AllScopes -> Nat] : seen = [run EXCEPT !.top = t] /\ t[Unscoped] <= clock
  BY <1>1, StampsNotedOrNot
<1> DEFINE ends == [seen EXCEPT !.pos = @ + PageSize, !.last = Len(rows) < PageSize,
                            !.renewed = FALSE]
           q == IF connector.shape = "list" THEN [ends EXCEPT !.out = @ \o VersionsOf(rows)]
                ELSE [ends EXCEPT !.pend = rows]
           over == last /\ pend = <<>>
<1>3. Answered(IF q.last /\ q.pend = <<>> THEN NextScope(q) ELSE q)
  BY DEF P21Page
<1> HIDE DEF rows
<1>4. ends = [run EXCEPT !.top = t, !.pos = pos, !.last = last, !.renewed = FALSE]
  BY <1>1, <1>2 DEF Runs
<1> HIDE DEF ends, pos, last
<1> DEFINE renewed == FALSE
<1>5. q = Onward(t, new, pos, pend, last, renewed)
  <2>1. CASE connector.shape = "list"
    <3>1. new = rows /\ pend = <<>>
      BY <2>1 DEF AsRecords, AsHeaders
    <3>2. q = [ends EXCEPT !.out = @ \o VersionsOf(rows)]
      BY <2>1
    <3> HIDE DEF q, new, pend
    <3>3. q = [run EXCEPT !.top = t, !.pos = pos, !.last = last, !.renewed = renewed,
                          !.out = run.out \o VersionsOf(rows)]
      BY <1>1, <1>4, <3>2 DEF Runs
    <3>4. q = [run EXCEPT !.top = t, !.out = run.out \o VersionsOf(rows), !.pos = pos,
                          !.pend = pend, !.last = last, !.renewed = renewed]
      BY <1>1, <3>1, <3>3 DEF Runs
    <3> QED
      BY <3>1, <3>4 DEF Onward
  <2>2. CASE connector.shape # "list"
    <3>1. new = <<>> /\ pend = rows /\ run.out \o VersionsOf(<<>>) = run.out
      BY <1>1, <2>2, FewRecords DEF AsRecords, AsHeaders
    <3>2. q = [ends EXCEPT !.pend = rows]
      BY <2>2
    <3> HIDE DEF q, new, pend
    <3>3. q = [run EXCEPT !.top = t, !.pos = pos, !.last = last, !.renewed = renewed,
                          !.pend = rows]
      BY <1>1, <1>4, <3>2 DEF Runs
    <3>4. q = [run EXCEPT !.top = t, !.out = run.out, !.pos = pos,
                          !.pend = pend, !.last = last, !.renewed = renewed]
      BY <1>1, <3>1, <3>3 DEF Runs
    <3> QED
      BY <3>1, <3>4 DEF Onward
  <2> QED
    BY <2>1, <2>2
<1>6. /\ pos \in Nat /\ pend \in Seq(Keys) /\ last \in BOOLEAN /\ new \in Seq(Live)
      /\ renewed \in BOOLEAN /\ over \in BOOLEAN
  BY <1>1, ExtractionAssumption, FewRecords DEF Runs, pos, last, AsRecords, AsHeaders, Live
<1> HIDE DEF q, new, pend
<1>7. q.last = last /\ q.pend = pend
  BY <1>1, <1>5 DEF Runs, Onward
<1>8. Answered(IF over THEN NextScope(q) ELSE q)
  BY <1>3, <1>7
<1> HIDE DEF over, renewed
<1>9. Turns(q, new, over) /\ q.pos = pos /\ q.pend = pend /\ q.last = last
  BY <1>1, <1>2, <1>5, <1>6, <1>8, TurnMade
<1> QED
  BY <1>9 DEF rows, new, over, pos, last, pend

LEMMA P21LinesTurns ==
  ASSUME Shaped, P21Lines
  PROVE  \E q : /\ Turns(q, IF Head(run.pend) \in Live THEN <<Head(run.pend)>> ELSE <<>>,
                         run.last /\ Tail(run.pend) = <<>>)
                /\ q.pos = run.pos /\ q.pend = Tail(run.pend) /\ q.last = run.last
<1> DEFINE id == Head(run.pend)
           new == IF id \in Live THEN <<id>> ELSE <<>>
           rest == Tail(run.pend)
           t == run.top
           out == IF id \in Live THEN Append(run.out, Version(id)) ELSE run.out
           q == [run EXCEPT !.pend = rest, !.out = out, !.renewed = FALSE]
           over == run.last /\ rest = <<>>
<1>1. run \in Runs /\ run.stage = "walking" /\ connector.name = P21 /\ run.pend # <<>>
      /\ TypeOK /\ Clocked
  BY DEF Shaped, TypeOK, P21Lines, Walking
<1>2. new \in Seq(Live) /\ out = run.out \o VersionsOf(new)
  BY <1>1, FewRecords
<1>3. rest \in Seq(Keys)
  BY <1>1, PendingHead
<1>4. Answered(IF q.last /\ q.pend = <<>> THEN NextScope(q) ELSE q)
  BY <1>1 DEF P21Lines, Runs
<1> HIDE DEF new, out, rest
<1>5. q = Onward(t, new, run.pos, rest, run.last, FALSE)
  <2> HIDE DEF q
  <2>1. q = [run EXCEPT !.top = t, !.out = out, !.pos = run.pos, !.pend = rest,
                        !.last = run.last, !.renewed = FALSE]
    BY <1>1 DEF Runs, q
  <2> QED
    BY <1>2, <2>1 DEF Onward
<1>6. q.last = run.last /\ q.pend = rest
  BY <1>1 DEF Runs
<1>7. /\ run.pos \in Nat /\ run.last \in BOOLEAN /\ over \in BOOLEAN
      /\ t \in [AllScopes -> Nat] /\ t[Unscoped] <= clock /\ FALSE \in BOOLEAN
  BY <1>1, ExtractionAssumption DEF Runs, Stamps, Clocked
<1> HIDE DEF q, t
<1>8. Answered(IF over THEN NextScope(q) ELSE q)
  BY <1>4, <1>6
<1> DEFINE renewed == FALSE
<1>0. renewed \in BOOLEAN /\ q = Onward(t, new, run.pos, rest, run.last, renewed)
  BY <1>5
<1> HIDE DEF over, renewed
<1>9. Turns(q, new, over) /\ q.pos = run.pos /\ q.pend = rest /\ q.last = run.last
  BY <1>0, <1>1, <1>2, <1>3, <1>7, <1>8, TurnMade
<1> QED
  BY <1>9 DEF new, over, rest

LEMMA EssbaseCubesTurns ==
  ASSUME Shaped, EssbaseCubes, Head(run.pend) \in Live
  PROVE  \E q : /\ Turns(q, <<Head(run.pend)>>, run.last /\ Tail(run.pend) = <<>>)
                /\ q.pos = run.pos /\ q.pend = Tail(run.pend) /\ q.last = run.last
<1> DEFINE id == Head(run.pend)
           new == <<id>>
           rest == Tail(run.pend)
           t == run.top
           out == Append(run.out, Version(id))
           q == [run EXCEPT !.pend = rest, !.out = out]
           over == run.last /\ rest = <<>>
<1>1. run \in Runs /\ run.stage = "walking" /\ connector.name = Essbase /\ run.pend # <<>>
      /\ TypeOK /\ Clocked
  BY DEF Shaped, TypeOK, EssbaseCubes, Walking
<1>2. new \in Seq(Live) /\ out = run.out \o VersionsOf(new)
  BY <1>1, FewRecords
<1>3. rest \in Seq(Keys)
  BY <1>1, PendingHead
<1>4. Answered(IF q.last /\ q.pend = <<>> THEN NextScope(q) ELSE q)
  BY <1>1 DEF EssbaseCubes, Runs
<1> HIDE DEF new, out, rest
<1>5. q = Onward(t, new, run.pos, rest, run.last, run.renewed)
  <2> HIDE DEF q
  <2>1. q = [run EXCEPT !.top = t, !.out = out, !.pos = run.pos, !.pend = rest,
                        !.last = run.last, !.renewed = run.renewed]
    BY <1>1 DEF Runs, q
  <2> QED
    BY <1>2, <2>1 DEF Onward
<1>6. q.last = run.last /\ q.pend = rest
  BY <1>1 DEF Runs
<1>7. /\ run.pos \in Nat /\ run.last \in BOOLEAN /\ over \in BOOLEAN
      /\ t \in [AllScopes -> Nat] /\ t[Unscoped] <= clock /\ run.renewed \in BOOLEAN
  BY <1>1, ExtractionAssumption DEF Runs, Stamps, Clocked
<1> HIDE DEF q, t
<1>8. Answered(IF over THEN NextScope(q) ELSE q)
  BY <1>4, <1>6
<1> DEFINE renewed == run.renewed
<1>0. renewed \in BOOLEAN /\ q = Onward(t, new, run.pos, rest, run.last, renewed)
  BY <1>5, <1>7
<1> HIDE DEF over, renewed
<1>9. Turns(q, new, over) /\ q.pos = run.pos /\ q.pend = rest /\ q.last = run.last
  <2>1. new \in Seq(Live)
    BY <1>2
  <2> QED
    BY <1>0, <1>1, <1>3, <1>7, <1>8, <2>1, TurnMade
<1> QED
  BY <1>9 DEF new, over, rest

LEMMA EssbasePageTurns ==
  ASSUME Shaped, EssbasePage
  PROVE  \E q, ends :
           /\ ends \in BOOLEAN /\ (Len(EssbaseRows) < PageSize => ends)
           /\ ends => \/ Len(EssbaseRows) < PageSize
                      \/ run.pos + Len(EssbaseRows) >= Len(Listed(Live))
           /\ Turns(q, AsRecords(EssbaseRows), ends /\ AsHeaders(EssbaseRows) = <<>>)
           /\ q.pos = run.pos + Len(EssbaseRows) /\ q.pend = AsHeaders(EssbaseRows)
           /\ q.last = ends
<1> DEFINE rows == EssbaseRows
           new == AsRecords(rows)
           pend == AsHeaders(rows)
           t == run.top
           pos == run.pos + Len(rows)
<1>1. run \in Runs /\ rows \in Seq(Live) /\ connector.name = Essbase /\ run.stage = "walking"
      /\ run.pend = <<>> /\ TypeOK /\ Clocked /\ Len(rows) \in Nat /\ Len(Listed(Live)) \in Nat
  BY OffsetRowsOK DEF Shaped, TypeOK, EssbasePage, Walking
<1> DEFINE Ended(total) ==
             Len(rows) < PageSize \/ (total /\ run.pos + Len(rows) >= Len(Listed(Live)))
           Seen(total) == [run EXCEPT !.pos = @ + Len(rows), !.last = Ended(total)]
           Read(total) == IF connector.shape = "list"
                          THEN [Seen(total) EXCEPT !.out = @ \o VersionsOf(rows)]
                          ELSE [Seen(total) EXCEPT !.pend = rows]
<1>2. PICK total \in BOOLEAN :
        Answered(IF Read(total).last /\ Read(total).pend = <<>> THEN NextScope(Read(total))
                 ELSE Read(total))
  <2>1. PICK total \in BOOLEAN : \E found \in {rows} :
          LET ends == Len(found) < PageSize \/ (total /\ run.pos + Len(found) >= Len(Listed(Live)))
              seen == [run EXCEPT !.pos = @ + Len(found), !.last = ends]
              page == IF connector.shape = "list"
                      THEN [seen EXCEPT !.out = @ \o VersionsOf(found)]
                      ELSE [seen EXCEPT !.pend = found]
          IN Answered(IF page.last /\ page.pend = <<>> THEN NextScope(page) ELSE page)
    BY DEF EssbasePage
  <2> HIDE DEF rows
  <2>2. Answered(IF Read(total).last /\ Read(total).pend = <<>> THEN NextScope(Read(total))
                 ELSE Read(total))
    BY <2>1
  <2> QED
    BY <2>2
<1> DEFINE q == Read(total)
           last == Ended(total)
           over == last /\ pend = <<>>
<1>3. /\ last \in BOOLEAN /\ (Len(rows) < PageSize => last)
      /\ last => Len(rows) < PageSize \/ run.pos + Len(rows) >= Len(Listed(Live))
  OBVIOUS
<1>4. Answered(IF q.last /\ q.pend = <<>> THEN NextScope(q) ELSE q)
  BY <1>2
<1>5. Seen(total) = [run EXCEPT !.pos = pos, !.last = last]
  BY <1>1 DEF Runs
<1> DEFINE seen == Seen(total)
<1>6. q = IF connector.shape = "list" THEN [seen EXCEPT !.out = @ \o VersionsOf(rows)]
          ELSE [seen EXCEPT !.pend = rows]
  OBVIOUS
<1>7. seen = [run EXCEPT !.pos = pos, !.last = last]
  BY <1>5
<1> HIDE DEF q, seen, Seen, Read, Ended, last, pos, rows, t
<1>8. q = Onward(t, new, pos, pend, last, run.renewed)
  <2>0. t = run.top
    BY DEF t
  <2>1. CASE connector.shape = "list"
    <3>1. new = rows /\ pend = <<>>
      BY <2>1 DEF AsRecords, AsHeaders
    <3>2. q = [seen EXCEPT !.out = @ \o VersionsOf(rows)]
      BY <1>6, <2>1
    <3> HIDE DEF new, pend
    <3>3. q = [run EXCEPT !.pos = pos, !.last = last, !.out = run.out \o VersionsOf(rows)]
      BY <1>1, <1>7, <3>2 DEF Runs
    <3>4. q = [run EXCEPT !.top = t, !.out = run.out \o VersionsOf(rows), !.pos = pos,
                          !.pend = pend, !.last = last, !.renewed = run.renewed]
      BY <1>1, <2>0, <3>1, <3>3 DEF Runs
    <3> QED
      BY <3>1, <3>4 DEF Onward
  <2>2. CASE connector.shape # "list"
    <3>1. new = <<>> /\ pend = rows /\ run.out \o VersionsOf(<<>>) = run.out
      BY <1>1, <2>2, FewRecords DEF AsRecords, AsHeaders
    <3>2. q = [seen EXCEPT !.pend = rows]
      BY <1>6, <2>2
    <3> HIDE DEF new, pend
    <3>3. q = [run EXCEPT !.pos = pos, !.last = last, !.pend = rows]
      BY <1>1, <1>7, <3>2 DEF Runs
    <3>4. q = [run EXCEPT !.top = t, !.out = run.out, !.pos = pos,
                          !.pend = pend, !.last = last, !.renewed = run.renewed]
      BY <1>1, <2>0, <3>1, <3>3 DEF Runs
    <3> QED
      BY <3>1, <3>4 DEF Onward
  <2> QED
    BY <2>1, <2>2
<1>9. /\ pos \in Nat /\ pend \in Seq(Keys) /\ new \in Seq(Live)
      /\ run.renewed \in BOOLEAN /\ over \in BOOLEAN
      /\ t \in [AllScopes -> Nat] /\ t[Unscoped] <= clock
  BY <1>1, ExtractionAssumption, FewRecords
     DEF Runs, pos, t, AsRecords, AsHeaders, Live, Stamps, Clocked
<1> HIDE DEF new, pend
<1>10. q.last = last /\ q.pend = pend
  BY <1>1, <1>8 DEF Runs, Onward
<1>11. Answered(IF over THEN NextScope(q) ELSE q)
  BY <1>4, <1>10
<1> HIDE DEF over
<1>12. Turns(q, new, over) /\ q.pos = pos /\ q.pend = pend /\ q.last = last
  <2>1. run.stage = "walking" /\ last \in BOOLEAN
    BY <1>1, <1>3
  <2> QED
    BY <1>8, <1>9, <1>11, <2>1, TurnMade
<1> QED
  BY <1>3, <1>12 DEF rows, new, over, pos, pend

LEMMA LinkRowsOK ==
  ASSUME Shaped, run.stage = "walking"
  PROVE  /\ BcListing \in Seq(Live) /\ Len(BcListing) \in Nat
         /\ \A size \in BcPageSizes :
              /\ size \in Nat \ {0}
              /\ Page(BcListing, 0, size) \in Seq(Live)
              /\ ~(Len(BcListing) > size) => Page(BcListing, 0, size) = BcListing
         /\ CloudLinkListing \in Seq(Live) /\ Len(CloudLinkListing) \in Nat
         /\ CloudLinkRows \in Seq(Live) /\ Len(CloudLinkRows) \in Nat
         /\ Len(CloudLinkListing) > PageSize => Last(CloudLinkRows) \in Keys
<1>1. /\ BcAsked \cap InScope(Scope) \in SUBSET Live
      /\ After(Newer(Since(Unscoped)), Offset(run.pos)) \in SUBSET Live
  BY DEF BcAsked, After, Newer
<1>2. run.size \in Nat \ {0} /\ PageSize \in Nat \ {0} /\ \A size \in BcPageSizes : size \in Nat \ {0}
  BY ExtractionAssumption, LinkAssumption DEF Shaped, WalkOK, BcPageSizes
<1>3. \A ids \in SUBSET Live : \A size \in Nat \ {0} :
        /\ Listed(ids) \in Seq(Live) /\ Len(Listed(ids)) \in Nat
        /\ Page(Listed(ids), 0, size) \in Seq(Live) /\ Len(Page(Listed(ids), 0, size)) \in Nat
        /\ Len(Listed(ids)) > size => Last(Page(Listed(ids), 0, size)) \in Keys
        /\ ~(Len(Listed(ids)) > size) => Page(Listed(ids), 0, size) = Listed(ids)
  <2> SUFFICES ASSUME NEW ids \in SUBSET Live, NEW size \in Nat \ {0}
               PROVE  /\ Listed(ids) \in Seq(Live) /\ Len(Listed(ids)) \in Nat
                      /\ Page(Listed(ids), 0, size) \in Seq(Live)
                      /\ Len(Page(Listed(ids), 0, size)) \in Nat
                      /\ Len(Listed(ids)) > size => Last(Page(Listed(ids), 0, size)) \in Keys
                      /\ ~(Len(Listed(ids)) > size) => Page(Listed(ids), 0, size) = Listed(ids)
    OBVIOUS
  <2>1. Listed(ids) \in Seq(Live) /\ Listed(ids) \in Seq(Keys) /\ Len(Listed(ids)) \in Nat
    <3>1. Listed(ids) \in Seq(Live)
      BY ListedPage
    <3> QED
      BY <3>1 DEF Live
  <2>2. Page(Listed(ids), 0, size) \in Seq(Live)
    <3>1. 0 \in Nat /\ size \in Nat
      OBVIOUS
    <3> QED
      BY <3>1, ListedPage
  <2>3. Len(Page(Listed(ids), 0, size)) \in Nat
    BY <2>2
  <2>4. ASSUME Len(Listed(ids)) > size
        PROVE  Last(Page(Listed(ids), 0, size)) \in Keys
    <3>1. /\ Page(Listed(ids), 0, size) \in Seq(Keys)
          /\ Len(Page(Listed(ids), 0, size)) = IF size <= Len(Listed(ids)) THEN size
                                              ELSE Len(Listed(ids))
      BY <2>1, FirstRows
    <3>2. Len(Page(Listed(ids), 0, size)) = size
      BY <2>1, <2>4, <3>1
    <3> QED
      BY <3>1, <3>2 DEF Last
  <2>5. ASSUME ~(Len(Listed(ids)) > size)
        PROVE  Page(Listed(ids), 0, size) = Listed(ids)
    <3> DEFINE list == Listed(ids)
               page == Page(list, 0, size)
    <3>1. /\ page \in Seq(Keys) /\ Len(page) = IF size <= Len(list) THEN size ELSE Len(list)
          /\ \A i \in 1..Len(page) : i \in 1..Len(list) /\ page[i] = list[i]
      BY <2>1, FirstRows
    <3>2. list \in Seq(Keys) /\ ~(Len(list) > size) /\ Len(list) \in Nat
      BY <2>1, <2>5
    <3> HIDE DEF list, page
    <3>3. Len(page) = Len(list)
      BY <3>1, <3>2
    <3>4. page = list
      BY <3>1, <3>2, <3>3, SeqEqual
    <3> QED
      BY <3>4 DEF list, page
  <2> QED
    BY <2>1, <2>2, <2>3, <2>4, <2>5
<1>4. CloudLinkListing \in Seq(Live) /\ Len(CloudLinkListing) \in Nat
  BY <1>1, <1>2, <1>3 DEF CloudLinkListing
<1>5. /\ CloudLinkRows \in Seq(Live) /\ Len(CloudLinkRows) \in Nat
      /\ Len(CloudLinkListing) > PageSize => Last(CloudLinkRows) \in Keys
  BY <1>1, <1>2, <1>3 DEF CloudLinkListing, CloudLinkRows
<1> QED
  BY <1>1, <1>2, <1>3, <1>4, <1>5 DEF BcListing

LEMMA CloudLinkPageTurns ==
  ASSUME Shaped, CloudLinkPage
  PROVE  \E q : /\ Turns(q, CloudLinkRows, ~(Len(CloudLinkListing) > PageSize))
                /\ q.pos = IF Len(CloudLinkListing) > PageSize THEN Last(CloudLinkRows)
                           ELSE run.pos
                /\ q.pend = run.pend /\ q.last = run.last
<1> DEFINE rows == CloudLinkRows
           goes == Len(CloudLinkListing) > PageSize
           noted == run.walk # "keys"
           seen == IF noted THEN Observe(run, Unscoped, rows) ELSE run
           page == [seen EXCEPT !.out = @ \o VersionsOf(rows)]
           pos == IF goes THEN Last(rows) ELSE run.pos
           q == IF goes THEN [page EXCEPT !.pos = Last(rows)] ELSE page
           over == ~goes
<1>1. run \in Runs /\ connector.name = CloudLinks /\ run.stage = "walking"
  BY DEF Shaped, TypeOK, CloudLinkPage, Walking
<1>2. rows \in Seq(Live) /\ pos \in Nat
  BY <1>1, LinkRowsOK, ExtractionAssumption DEF Runs
<1>3. PICK t \in [AllScopes -> Nat] : seen = [run EXCEPT !.top = t] /\ t[Unscoped] <= clock
  BY <1>1, <1>2, StampsNotedOrNot
<1>4. Answered(IF over THEN NextScope(q) ELSE q)
  <2>1. \E found \in {rows} :
          LET sees == IF run.walk = "keys" THEN run ELSE Observe(run, Unscoped, found)
              reads == [sees EXCEPT !.out = @ \o VersionsOf(found)]
          IN Answered(IF goes THEN [reads EXCEPT !.pos = Last(found)] ELSE NextScope(reads))
    BY DEF CloudLinkPage
  <2> HIDE DEF rows, goes
  <2>2. Answered(IF goes THEN [page EXCEPT !.pos = Last(rows)] ELSE NextScope(page))
    BY <2>1
  <2> HIDE DEF page
  <2> QED
    BY <2>2
<1> HIDE DEF rows, goes, seen
<1>5. q = Onward(t, rows, pos, run.pend, run.last, run.renewed)
  <2>1. page = [run EXCEPT !.top = t, !.out = run.out \o VersionsOf(rows)]
    BY <1>1, <1>3 DEF Runs
  <2> HIDE DEF page
  <2>2. q = [run EXCEPT !.top = t, !.out = run.out \o VersionsOf(rows), !.pos = pos]
    BY <1>1, <2>1 DEF Runs
  <2> HIDE DEF q, pos
  <2> QED
    BY <1>1, <2>2 DEF Runs, Onward
<1>6. /\ run.pend \in Seq(Keys) /\ run.last \in BOOLEAN
      /\ run.renewed \in BOOLEAN /\ over \in BOOLEAN
  BY <1>1 DEF Runs
<1> HIDE DEF q, over, pos
<1>7. Turns(q, rows, over) /\ q.pos = pos /\ q.pend = run.pend /\ q.last = run.last
  BY <1>1, <1>2, <1>3, <1>4, <1>5, <1>6, TurnMade
<1> QED
  BY <1>7 DEF rows, over, pos, goes

LEMMA BusinessCentralPageTurns ==
  ASSUME Shaped, BusinessCentralPage
  PROVE  \E q, new, over :
           /\ Turns(q, new, over) /\ q.pend = run.pend /\ q.last = run.last
           /\ ~q.strayed => over /\ q.pos = 0 /\ new = BcListing
<1>0. PICK size \in BcPageSizes :
        \E found \in {Page(BcListing, 0, size)} :
          LET sees == IF BcStamped THEN Observe(run, Unscoped, found) ELSE run
              reads == [sees EXCEPT !.out = @ \o BcYield(found)]
          IN Answered(IF Len(BcListing) > size THEN [reads EXCEPT !.pos = 1, !.strayed = TRUE]
                      ELSE NextScope(reads))
  BY DEF BusinessCentralPage
<1> DEFINE rows == Page(BcListing, 0, size)
           goes == Len(BcListing) > size
           noted == BcStamped
           new == IF Continued /\ connector.shape = "documents" THEN <<>> ELSE rows
           seen == IF noted THEN Observe(run, Unscoped, rows) ELSE run
           page == [seen EXCEPT !.out = @ \o BcYield(rows)]
           pos == IF goes THEN 1 ELSE run.pos
           strayed == IF goes THEN TRUE ELSE run.strayed
           q == IF goes THEN [page EXCEPT !.pos = 1, !.strayed = TRUE] ELSE page
           over == ~goes
<1>1. run \in Runs /\ connector.name = BusinessCentral /\ run.stage = "walking" /\ TypeOK
      /\ (~run.strayed => run.pos = 0)
  BY DEF Shaped, TypeOK, BusinessCentralPage, Walking, WalkOK
<1>2. rows \in Seq(Live) /\ (~goes => rows = BcListing)
  BY <1>1, LinkRowsOK
<1>3. PICK t \in [AllScopes -> Nat] : seen = [run EXCEPT !.top = t] /\ t[Unscoped] <= clock
  <2>1. noted \in BOOLEAN
    BY DEF BcStamped, Continued
  <2> QED
    BY <1>1, <1>2, <2>1, StampsNotedOrNot
<1>4. Answered(IF over THEN NextScope(q) ELSE q)
  <2> HIDE DEF rows, goes
  <2>2. Answered(IF goes THEN [page EXCEPT !.pos = 1, !.strayed = TRUE] ELSE NextScope(page))
    BY <1>0 DEF rows, goes
  <2> HIDE DEF page
  <2> QED
    BY <2>2
<1>8. new \in Seq(Live) /\ BcYield(rows) = VersionsOf(new)
  BY <1>1, <1>2, FewRecords DEF BcYield
<1>9. ~strayed => over /\ pos = 0 /\ new = BcListing
  BY <1>1, <1>2 DEF Continued
<1> HIDE DEF rows, goes, seen, new
<1>5. q = Straying(t, new, pos, run.pend, run.last, run.renewed, strayed)
  <2>1. page = [run EXCEPT !.top = t, !.out = run.out \o VersionsOf(new)]
    BY <1>1, <1>3, <1>8 DEF Runs
  <2> HIDE DEF page
  <2>2. q = [run EXCEPT !.top = t, !.out = run.out \o VersionsOf(new), !.pos = pos,
                        !.strayed = strayed]
    BY <1>1, <2>1 DEF Runs
  <2> HIDE DEF q, pos, strayed
  <2>3. q = [[run EXCEPT !.top = t, !.out = run.out \o VersionsOf(new), !.pos = pos,
                         !.pend = run.pend, !.last = run.last, !.renewed = run.renewed]
               EXCEPT !.strayed = strayed]
    BY <1>1, <2>2 DEF Runs
  <2> QED
    BY <2>3 DEF Onward, Straying
<1>6. /\ run.pend \in Seq(Keys) /\ run.last \in BOOLEAN /\ pos \in Nat
      /\ run.renewed \in BOOLEAN /\ over \in BOOLEAN
      /\ strayed \in BOOLEAN /\ (run.strayed => strayed)
  BY <1>1 DEF Runs
<1> HIDE DEF q, over, pos, strayed
<1>7. /\ Turns(q, new, over) /\ q.pos = pos /\ q.pend = run.pend /\ q.last = run.last
      /\ q.strayed = strayed
  BY <1>1, <1>3, <1>4, <1>5, <1>6, <1>8, TurnStrays
<1> QED
  BY <1>7, <1>9


\* The scope a BisTrack scan is in, and what it lists there.
LEMMA BisTrackRowsOK ==
  ASSUME Shaped, Walking(BisTrack)
  PROVE  /\ Scope \in Range(ScanPlan) /\ Scope \in AllScopes
         /\ BisTrackAsked \in SUBSET (Live \cap InScope(Scope))
         /\ BisTrackRows \in Seq(Live) /\ Len(BisTrackRows) \in Nat
         /\ BisTrackRows # <<>> =>
              /\ Last(BisTrackRows) \in Keys
              /\ \A k \in Range(BisTrackRows) : Number[k] <= Number[Last(BisTrackRows)]
<1>1. /\ run.left \in Seq(AllScopes) /\ run.left # <<>> /\ Range(run.left) \subseteq Range(Plan)
      /\ connector.name = BisTrack
  BY DEF Shaped, TypeOK, Runs, WalkOK, Walking
<1>2. Plan = ScanPlan
  BY <1>1 DEF Plan
<1>3. Head(run.left) \in Range(run.left)
  BY <1>1, HeadAndTail
<1>4. Range(run.left) \subseteq AllScopes
  BY <1>1 DEF Range
<1>5. Scope \in Range(ScanPlan) /\ Scope \in AllScopes
  BY <1>1, <1>2, <1>3, <1>4 DEF Scope
<1>6. BisTrackAsked \in SUBSET (Live \cap InScope(Scope))
  BY DEF BisTrackAsked
<1>7. BisTrackRows \in Seq(Live)
  BY <1>5, <1>6, NumberedPage DEF BisTrackRows
<1>8. BisTrackRows \in Seq(Keys) /\ Len(BisTrackRows) \in Nat
  BY <1>7 DEF Live
<1>9. ASSUME BisTrackRows # <<>>
      PROVE  /\ Last(BisTrackRows) \in Keys
             /\ \A k \in Range(BisTrackRows) : Number[k] <= Number[Last(BisTrackRows)]
  <2> DEFINE rows == ByNumber(BisTrackAsked)
  <2>1. /\ rows \in Seq(Live) /\ Range(rows) = BisTrackAsked
        /\ \A i, j \in 1..Len(rows) : i < j => Number[rows[i]] < Number[rows[j]]
    BY <1>5, <1>6, NumberedPage
  <2>2. BisTrackRows = Page(rows, 0, PageSize)
    BY DEF BisTrackRows
  <2> HIDE DEF rows
  <2>3. rows \in Seq(Keys) /\ Number \in [Keys -> Nat] /\ PageSize \in Nat \ {0}
    BY <2>1, ExtractionAssumption, QueryAssumption DEF Live
  <2>4. rows # <<>>
    <3>1. SUFFICES ASSUME rows = <<>>
                   PROVE  FALSE
      OBVIOUS
    <3>2. Range(BisTrackRows) \subseteq Range(rows)
      <4>1. 0 \in Nat /\ PageSize \in Nat
        BY <2>3
      <4> QED
        BY <2>2, <2>3, <4>1, PageRange
    <3>3. Head(BisTrackRows) \in Range(BisTrackRows)
      BY <1>8, <1>9, HeadAndTail
    <3>4. Range(rows) = {}
      BY <3>1 DEF Range
    <3> QED
      BY <3>2, <3>3, <3>4
  <2>5. /\ Last(Page(rows, 0, PageSize)) \in Range(Page(rows, 0, PageSize))
        /\ \A k \in Range(Page(rows, 0, PageSize)) :
             ~(Number[Last(Page(rows, 0, PageSize))] < Number[k])
    BY <2>1, <2>3, <2>4, FirstPage
  <2>6. Range(BisTrackRows) \subseteq Keys
    BY <1>8 DEF Range
  <2>7. \A k, l \in Keys : ~(Number[l] < Number[k]) => Number[k] <= Number[l]
    BY <2>3
  <2> QED
    BY <2>2, <2>5, <2>6, <2>7
<1> QED
  BY <1>5, <1>6, <1>7, <1>8, <1>9

LEMMA NumbersNoted ==
  ASSUME Shaped, Walking(BisTrack)
  PROVE  \E t \in [AllScopes -> Nat] : ObserveNumbers(run, BisTrackRows) = [run EXCEPT !.top = t]
<1>1. run \in Runs /\ run.top \in [AllScopes -> Nat] /\ Scope \in AllScopes
  BY BisTrackRowsOK, ExtractionAssumption DEF Shaped, TypeOK, Runs, Stamps
<1>2. CASE run.walk # "incremental"
  <2>1. run = [run EXCEPT !.top = run.top]
    BY <1>1 DEF Runs
  <2> QED
    BY <1>1, <1>2, <2>1 DEF ObserveNumbers
<1>3. CASE run.walk = "incremental"
  <2> DEFINE rows == BisTrackRows
             numbers == {run.top[Scope]} \cup {Number[k] : k \in Range(rows)}
             t == [run.top EXCEPT ![Scope] = Max(numbers)]
             bound == run.top[Scope] + (IF rows = <<>> THEN 0 ELSE Number[Last(rows)])
  <2>1. rows \in Seq(Live)
    BY BisTrackRowsOK
  <2>2. Range(rows) \subseteq Keys
    BY <2>1 DEF Range, Live
  <2>3. numbers \subseteq Nat /\ numbers # {} /\ run.top[Scope] \in Nat
    BY <1>1, <2>2, QueryAssumption
  <2>4. bound \in Nat /\ \A x \in numbers : x <= bound
    <3>1. CASE rows = <<>>
      <4>1. Range(rows) = {}
        BY <3>1 DEF Range
      <4> QED
        BY <2>3, <3>1, <4>1
    <3>2. CASE rows # <<>>
      <4>1. /\ Last(rows) \in Keys
            /\ \A k \in Range(rows) : Number[k] <= Number[Last(rows)]
        BY <3>2, BisTrackRowsOK
      <4>2. Number[Last(rows)] \in Nat /\ \A k \in Range(rows) : Number[k] \in Nat
        BY <2>2, <4>1, QueryAssumption
      <4> HIDE DEF rows
      <4> QED
        BY <2>3, <3>2, <4>1, <4>2
    <3> QED
      BY <3>1, <3>2
  <2>5. Max(numbers) \in Nat
    <3> HIDE DEF numbers, bound
    <3>1. Max(numbers) \in numbers
      BY <2>3, <2>4, LargestElement
    <3> QED
      BY <2>3, <3>1
  <2> HIDE DEF numbers
  <2>6. t \in [AllScopes -> Nat]
    BY <1>1, <2>5
  <2>7. ObserveNumbers(run, rows) = [run EXCEPT !.top = t]
    BY <1>3 DEF ObserveNumbers, numbers
  <2> QED
    BY <2>6, <2>7
<1> QED
  BY <1>2, <1>3

LEMMA BisTrackPageTurns ==
  ASSUME Shaped, BisTrackPage
  PROVE  \E q : /\ Turns(q, BisTrackRows, Len(BisTrackRows) < PageSize)
                /\ q.pos = IF Len(BisTrackRows) < PageSize THEN run.pos
                           ELSE Number[Last(BisTrackRows)]
                /\ q.pend = run.pend /\ q.last = run.last
<1> DEFINE rows == BisTrackRows
           over == Len(rows) < PageSize
           seen == ObserveNumbers(run, rows)
           page == [seen EXCEPT !.out = @ \o VersionsOf(rows)]
           pos == IF over THEN run.pos ELSE Number[Last(rows)]
           q == IF over THEN page ELSE [page EXCEPT !.pos = Number[Last(rows)]]
<1>1. run \in Runs /\ connector.name = BisTrack /\ run.stage = "walking" /\ Walking(BisTrack)
  BY DEF Shaped, TypeOK, BisTrackPage, Walking
<1>2. rows \in Seq(Live) /\ Len(rows) \in Nat
  BY <1>1, BisTrackRowsOK
<1>3. pos \in Nat
  <2>1. CASE over
    BY <1>1, <2>1 DEF Runs
  <2>2. CASE ~over
    <3>1. rows # <<>>
      BY <2>2, ExtractionAssumption
    <3>2. Last(rows) \in Keys
      BY <1>1, <3>1, BisTrackRowsOK
    <3> QED
      BY <2>2, <3>2, QueryAssumption
  <2> QED
    BY <2>1, <2>2
<1>4. PICK t \in [AllScopes -> Nat] : seen = [run EXCEPT !.top = t]
  BY <1>1, <1>2, NumbersNoted
<1>5. Answered(IF over THEN NextScope(q) ELSE q)
  <2>1. \E found \in {rows} :
          LET reads == [ObserveNumbers(run, found) EXCEPT !.out = @ \o VersionsOf(found)]
          IN Answered(IF Len(found) < PageSize THEN NextScope(reads)
                      ELSE [reads EXCEPT !.pos = Number[Last(found)]])
    BY DEF BisTrackPage
  <2> HIDE DEF rows
  <2>2. Answered(IF over THEN NextScope(page) ELSE [page EXCEPT !.pos = Number[Last(rows)]])
    BY <2>1
  <2> HIDE DEF page, over
  <2> QED
    BY <2>2
<1> HIDE DEF rows, over, seen
<1>6. q = Onward(t, rows, pos, run.pend, run.last, run.renewed)
  <2>1. page = [run EXCEPT !.top = t, !.out = run.out \o VersionsOf(rows)]
    BY <1>1, <1>4 DEF Runs
  <2> HIDE DEF page
  <2>2. q = [run EXCEPT !.top = t, !.out = run.out \o VersionsOf(rows), !.pos = pos]
    BY <1>1, <2>1 DEF Runs
  <2> HIDE DEF q, pos
  <2> QED
    BY <1>1, <2>2 DEF Runs, Onward
<1>7. /\ run.pend \in Seq(Keys) /\ run.last \in BOOLEAN
      /\ run.renewed \in BOOLEAN /\ over \in BOOLEAN
  BY <1>1 DEF Runs, over
<1> HIDE DEF q, pos
<1>8. Turns(q, rows, over) /\ q.pos = pos /\ q.pend = run.pend /\ q.last = run.last
  BY <1>1, <1>2, <1>3, <1>4, <1>5, <1>6, <1>7, TurnMade
<1> QED
  BY <1>8 DEF rows, over, pos

\* A query that answers with everything at once.
Selects(new) ==
  /\ new \in Seq(Live)
  /\ run' \in Runs /\ run'.stage = "walked" /\ run'.walk = run.walk /\ run'.deaf = run.deaf
  /\ run'.out = VersionsOf(new) /\ run'.pend = run.pend /\ run'.strayed = run.strayed
  /\ connector.name # BisTrack => run'.top[Unscoped] <= clock
  /\ UNCHANGED <<source, connector, books, history, faults>>

LEMMA BisTrackKeysSelects ==
  ASSUME Shaped, BisTrackKeys
  PROVE  Selects(Listed(Live \cap Planned))
<1> DEFINE new == Listed(Live \cap Planned)
<1>1. run \in Runs /\ connector.name = BisTrack /\ erp \in [Keys -> Stamps]
  BY DEF Shaped, TypeOK, BisTrackKeys, Walking
<1>2. new \in Seq(Live)
  <2>1. (Live \cap Planned) \in SUBSET Live
    OBVIOUS
  <2> QED
    BY <2>1, ListedPage, ExtractionAssumption
<1>3. Answered([run EXCEPT !.out = VersionsOf(new), !.stage = "walked"])
  BY DEF BisTrackKeys
<1> HIDE DEF new
<1>4. VersionsOf(new) \in Seq(Versions)
  BY <1>1, <1>2, RecordsRead
<1>5. /\ run' = [[run EXCEPT !.out = VersionsOf(new), !.stage = "walked"] EXCEPT !.tries = 0]
      /\ UNCHANGED <<source, connector, books, history, faults>>
  BY <1>3 DEF Answered
<1>6. /\ run' \in Runs /\ run'.stage = "walked" /\ run'.walk = run.walk /\ run'.deaf = run.deaf
      /\ run'.out = VersionsOf(new) /\ run'.pend = run.pend /\ run'.strayed = run.strayed
  BY <1>1, <1>4, <1>5 DEF Runs
<1>7. Selects(new)
  BY <1>1, <1>2, <1>5, <1>6 DEF Selects
<1> QED
  BY <1>7 DEF new

LEMMA LegacySelects ==
  ASSUME Shaped, LegacySelect
  PROVE  Selects(LegacyRows)
<1> DEFINE new == LegacyRows
           noted == run.walk = "incremental"
           seen == IF noted THEN Observe(run, Unscoped, new) ELSE run
<1>1. run \in Runs /\ connector.name = LegacySql /\ erp \in [Keys -> Stamps]
  BY DEF Shaped, TypeOK, LegacySelect, Walking
<1>2. new \in Seq(Live)
  <2>1. Newer(Since(Unscoped)) \in SUBSET Live
    BY DEF Newer
  <2> QED
    BY <2>1, ListedPage, ExtractionAssumption DEF LegacyRows
<1>3. Answered([seen EXCEPT !.out = VersionsOf(new), !.stage = "walked"])
  BY DEF LegacySelect
<1> HIDE DEF new
<1>4. PICK t \in [AllScopes -> Nat] : seen = [run EXCEPT !.top = t] /\ t[Unscoped] <= clock
  BY <1>1, <1>2, StampsNotedOrNot
<1> HIDE DEF seen
<1>5. VersionsOf(new) \in Seq(Versions)
  BY <1>1, <1>2, RecordsRead
<1>6. /\ run' = [[seen EXCEPT !.out = VersionsOf(new), !.stage = "walked"] EXCEPT !.tries = 0]
      /\ UNCHANGED <<source, connector, books, history, faults>>
  BY <1>3 DEF Answered
<1>7. t \in [AllScopes -> Stamps \cup Nat]
  OBVIOUS
<1>8. /\ run' \in Runs /\ run'.stage = "walked" /\ run'.walk = run.walk /\ run'.deaf = run.deaf
      /\ run'.out = VersionsOf(new) /\ run'.top = t /\ run'.pend = run.pend
      /\ run'.strayed = run.strayed
  BY <1>1, <1>4, <1>5, <1>6, <1>7 DEF Runs
<1>9. Selects(new)
  BY <1>2, <1>4, <1>6, <1>8 DEF Selects
<1> QED
  BY <1>9 DEF new

(***************************************************************************)
(* The steps of the connectors by what they do.                            *)
(***************************************************************************)
\* A page, a chunk or a detail is read; or a query answers with everything.
Pages ==
  \/ EclipsePage \/ EclipseHeaders \/ (EclipseDetail /\ Head(run.pend) \in Live)
  \/ AgilityChunk \/ NetsuitePage \/ P21Page \/ P21Lines
  \/ EssbasePage \/ (EssbaseCubes /\ Head(run.pend) \in Live)
  \/ CloudPage \/ BusinessCentralPage \/ CloudLinkPage \/ BisTrackPage
Queries == BisTrackKeys \/ LegacySelect

\* The run is given up.
GivesUp ==
  run.stage = "walking" /\ \E cost \in {0, 1}, keeps \in BOOLEAN : FailRun(cost, keeps)

\* The same call again, with a new session, later or for less; or Agility's
\* chunk walk from its beginning.
Retried(q) ==
  /\ q \in Runs /\ run.stage = "walking" /\ q.stage = "walking"
  /\ q.walk = run.walk /\ q.left = run.left /\ q.pend = run.pend /\ q.last = run.last
  /\ q.out = run.out /\ q.top = run.top /\ q.deaf = run.deaf /\ q.strayed = run.strayed
  /\ q.size \in 1..PageSize
  /\ q.pos = run.pos \/ (connector.name = Agility /\ q.pos = 0)
  /\ run' = q /\ faults' = faults + 1 /\ faults < MaxFaults
  /\ UNCHANGED <<source, connector, books, history>>
Retries == \E q : Retried(q)

\* The walk is over and its books are written.
Completes ==
  \E snapshots \in BOOLEAN, newMark \in [AllScopes -> Nat] :
    /\ CompleteRun(snapshots, newMark)
    /\ connector.name # BisTrack => newMark[Unscoped] <= clock

LEMMA ThrottleCases ==
  ASSUME Shaped, run.stage = "walking", Throttle
  PROVE  Retries \/ GivesUp
<1>1. CASE run.tries + 1 = MaxRetries /\ FailRun(1, FALSE)
  BY <1>1 DEF GivesUp
<1>2. CASE /\ faults < MaxFaults
           /\ run' = [run EXCEPT !.tries = @ + 1] /\ faults' = faults + 1
           /\ UNCHANGED <<source, connector, books, history>>
  <2>1. run \in Runs /\ run.size \in 1..PageSize
    BY DEF Shaped, TypeOK, WalkOK
  <2> DEFINE tries == run.tries + 1
             q == [run EXCEPT !.tries = tries]
  <2>3. run' = q /\ tries \in Nat
    BY <1>2, <2>1 DEF Runs
  <2> HIDE DEF tries
  <2>2. /\ q \in Runs /\ q.stage = "walking"
        /\ q.walk = run.walk /\ q.left = run.left /\ q.pend = run.pend /\ q.last = run.last
        /\ q.out = run.out /\ q.top = run.top /\ q.deaf = run.deaf
        /\ q.strayed = run.strayed
        /\ q.size = run.size /\ q.pos = run.pos
    BY <2>1, <2>3 DEF Runs
  <2> HIDE DEF q
  <2>4. Retried(q)
    BY <1>2, <2>1, <2>2, <2>3 DEF Retried
  <2> QED
    BY <2>4 DEF Retries
<1> QED
  BY <1>1, <1>2 DEF Throttle

LEMMA RenewCases ==
  ASSUME Shaped, run.stage = "walking", EclipseRejected \/ AgilityExpired \/ P21Unauthorized
  PROVE  Retries \/ GivesUp
<1>1. CASE FailRun(1, FALSE)
  BY <1>1 DEF GivesUp
<1>2. CASE ~FailRun(1, FALSE)
  <2>0. run \in Runs /\ run.size \in 1..PageSize
    BY DEF Shaped, TypeOK, WalkOK
  <2>1. /\ faults < MaxFaults /\ faults' = faults + 1
        /\ UNCHANGED <<source, connector, books, history>>
        /\ \E pos, tries \in Nat :
             /\ run' = [run EXCEPT !.renewed = TRUE, !.pos = pos, !.tries = tries]
             /\ pos = run.pos \/ (connector.name = Agility /\ pos = 0)
    <3>1. CASE EclipseRejected
      <4>1. run' = [run EXCEPT !.renewed = TRUE, !.pos = run.pos, !.tries = 0]
        BY <1>2, <2>0, <3>1 DEF EclipseRejected, Runs
      <4>2. run.pos \in Nat
        BY <2>0 DEF Runs
      <4>3. /\ faults < MaxFaults /\ faults' = faults + 1
            /\ UNCHANGED <<source, connector, books, history>>
        BY <1>2, <3>1 DEF EclipseRejected
      <4> QED
        BY <4>1, <4>2, <4>3
    <3>2. CASE AgilityExpired
      <4>1. run' = [run EXCEPT !.renewed = TRUE, !.pos = 0, !.tries = 0]
            /\ connector.name = Agility
        BY <1>2, <2>0, <3>2 DEF AgilityExpired, Runs, Walking
      <4>2. /\ faults < MaxFaults /\ faults' = faults + 1
            /\ UNCHANGED <<source, connector, books, history>>
        BY <1>2, <3>2 DEF AgilityExpired
      <4> QED
        BY <4>1, <4>2
    <3>3. CASE P21Unauthorized
      <4>1. run' = [run EXCEPT !.renewed = TRUE, !.pos = run.pos, !.tries = run.tries]
        BY <1>2, <2>0, <3>3 DEF P21Unauthorized, Runs
      <4>2. run.pos \in Nat /\ run.tries \in Nat
        BY <2>0 DEF Runs
      <4>3. /\ faults < MaxFaults /\ faults' = faults + 1
            /\ UNCHANGED <<source, connector, books, history>>
        BY <1>2, <3>3 DEF P21Unauthorized
      <4> QED
        BY <4>1, <4>2, <4>3
    <3> QED
      BY <3>1, <3>2, <3>3
  <2>2. PICK pos, tries \in Nat :
           /\ run' = [run EXCEPT !.renewed = TRUE, !.pos = pos, !.tries = tries]
           /\ pos = run.pos \/ (connector.name = Agility /\ pos = 0)
    BY <2>1
  <2> DEFINE q == [run EXCEPT !.renewed = TRUE, !.pos = pos, !.tries = tries]
  <2>3. /\ q \in Runs /\ q.stage = "walking"
        /\ q.walk = run.walk /\ q.left = run.left /\ q.pend = run.pend /\ q.last = run.last
        /\ q.out = run.out /\ q.top = run.top /\ q.deaf = run.deaf
        /\ q.strayed = run.strayed
        /\ q.size = run.size /\ q.pos = pos
    BY <2>0 DEF Runs
  <2>4. run' = q
    BY <2>2
  <2> HIDE DEF q
  <2>5. Retried(q)
    BY <2>0, <2>1, <2>2, <2>3, <2>4 DEF Retried
  <2> QED
    BY <2>5 DEF Retries
<1> QED
  BY <1>1, <1>2

LEMMA TimesOutCases ==
  ASSUME Shaped, BusinessCentralTimesOut
  PROVE  Retries \/ GivesUp
<1>1. run.stage = "walking"
  BY DEF BusinessCentralTimesOut, Walking
<1>2. CASE FailRun(1, FALSE)
  BY <1>1, <1>2 DEF GivesUp
<1>3. CASE ~FailRun(1, FALSE)
  <2> DEFINE size == IF run.pos = 0 THEN Larger(run.size \div 2, MinPageSize) ELSE run.size
             tries == run.tries + 1
             q == [run EXCEPT !.tries = tries, !.size = size]
  <2>1. run \in Runs /\ run.size \in 1..PageSize
    BY <1>1 DEF Shaped, TypeOK, WalkOK
  <2>2. size \in 1..PageSize
    <3>1. PageSize \in Nat /\ MinPageSize \in 1..PageSize
      BY ExtractionAssumption, LinkAssumption
    <3>2. run.size \div 2 \in Nat /\ run.size \div 2 <= run.size
      BY <2>1, <3>1
    <3> QED
      BY <2>1, <3>1, <3>2 DEF Larger
  <2>3. /\ run' = q /\ faults < MaxFaults /\ faults' = faults + 1
        /\ UNCHANGED <<source, connector, books, history>>
    BY <1>3, <2>1 DEF BusinessCentralTimesOut, Continued, Runs
  <2>4. size \in Nat /\ tries \in Nat
    BY <2>1, <2>2 DEF Runs
  <2> HIDE DEF size, tries
  <2>5. /\ q \in Runs /\ q.stage = "walking"
        /\ q.walk = run.walk /\ q.left = run.left /\ q.pend = run.pend /\ q.last = run.last
        /\ q.out = run.out /\ q.top = run.top /\ q.deaf = run.deaf
        /\ q.strayed = run.strayed
        /\ q.size = size /\ q.pos = run.pos
    BY <1>1, <2>1, <2>4 DEF Runs
  <2> HIDE DEF q
  <2>6. Retried(q)
    BY <1>1, <2>2, <2>3, <2>5 DEF Retried
  <2> QED
    BY <2>6 DEF Retries
<1> QED
  BY <1>2, <1>3

\* The new watermark is no later than the ERP.
LEMMA MarksOK ==
  ASSUME Shaped
  PROVE  /\ TopMark \in [AllScopes -> Nat] /\ mark \in [AllScopes -> Nat]
         /\ [s \in AllScopes |-> Larger(mark[s], run.top[s])] \in [AllScopes -> Nat]
         /\ connector.name # BisTrack => TopMark[Unscoped] <= clock /\ mark[Unscoped] <= clock
<1>1. /\ mark \in [AllScopes -> Nat] /\ run.top \in [AllScopes -> Nat]
      /\ Unscoped \in AllScopes
      /\ connector.name # BisTrack => mark[Unscoped] <= clock /\ run.top[Unscoped] <= clock
  BY ExtractionAssumption DEF Shaped, Clocked, TypeOK, Runs, Stamps, AllScopes
<1>2. TopMark \in [AllScopes -> Nat]
      /\ TopMark[Unscoped] = IF run.top[Unscoped] > 0 THEN run.top[Unscoped] ELSE mark[Unscoped]
  BY <1>1 DEF TopMark
<1>3. [s \in AllScopes |-> Larger(mark[s], run.top[s])] \in [AllScopes -> Nat]
  BY <1>1 DEF Larger
<1> QED
  BY <1>1, <1>2, <1>3

LEMMA CompleteCases ==
  ASSUME Shaped,
         \/ CompleteEclipse \/ CompleteAgility \/ CompleteNetsuite \/ CompleteP21
         \/ CompleteEssbase \/ CompleteCloudPages \/ CompleteBusinessCentral
         \/ CompleteCloudLinks \/ CompleteBisTrack \/ CompleteLegacySql
  PROVE  Completes
<1> DEFINE larger == [s \in AllScopes |-> Larger(mark[s], run.top[s])]
<1>1. /\ TopMark \in [AllScopes -> Nat] /\ mark \in [AllScopes -> Nat]
      /\ larger \in [AllScopes -> Nat]
      /\ connector.name # BisTrack => TopMark[Unscoped] <= clock /\ mark[Unscoped] <= clock
  BY MarksOK
<1>2. \/ CompleteRun(FALSE, TopMark) /\ connector.name # BisTrack
      \/ CompleteRun(FALSE, mark) /\ connector.name # BisTrack
      \/ CompleteRun(TRUE, mark) /\ connector.name # BisTrack
      \/ CompleteRun(FALSE, larger) /\ connector.name = BisTrack
  <2>1. CASE CompleteEclipse
    BY <2>1 DEF CompleteEclipse
  <2>2. CASE CompleteAgility
    BY <2>2 DEF CompleteAgility
  <2>3. CASE CompleteNetsuite \/ CompleteP21 \/ CompleteCloudPages
    BY <2>3 DEF CompleteNetsuite, CompleteP21, CompleteCloudPages
  <2>4. CASE CompleteEssbase
    BY <2>4 DEF CompleteEssbase
  <2>5. CASE CompleteBusinessCentral \/ CompleteCloudLinks \/ CompleteLegacySql
    BY <2>5 DEF CompleteBusinessCentral, CompleteCloudLinks, CompleteLegacySql
  <2>6. CASE CompleteBisTrack
    BY <2>6 DEF CompleteBisTrack
  <2> QED
    BY <2>1, <2>2, <2>3, <2>4, <2>5, <2>6
<1> HIDE DEF larger
<1> QED
  BY <1>1, <1>2 DEF Completes

LEMMA StepCases ==
  ASSUME Shaped, Step
  PROVE  Pages \/ Queries \/ GivesUp \/ Retries \/ P21Keyless \/ EclipseUnstamped \/ Completes
<1>1. CASE EclipseStep
  <2>1. CASE EclipsePage \/ EclipseHeaders
    BY <2>1 DEF Pages
  <2>2. CASE EclipseDetail
    <3>1. run.stage = "walking"
      BY <2>2 DEF EclipseDetail, Walking
    <3>2. CASE Head(run.pend) \in Live
      BY <2>2, <3>2 DEF Pages
    <3>3. CASE Head(run.pend) \notin Live
      BY <2>2, <3>1, <3>3 DEF EclipseDetail, GivesUp
    <3> QED
      BY <3>2, <3>3
  <2>3. CASE EclipseUncounted \/ EclipseSpins \/ EclipseLockedOut \/ EclipseRefused
             \/ EclipseMalformed
    BY <2>3 DEF EclipseUncounted, EclipseSpins, EclipseLockedOut, EclipseRefused,
                EclipseMalformed, Walking, GivesUp
  <2>4. CASE EclipseRejected
    <3>1. run.stage = "walking"
      BY <2>4 DEF EclipseRejected, Walking
    <3> QED
      BY <2>4, <3>1, RenewCases
  <2>5. CASE EclipseThrottled
    BY <2>5, ThrottleCases DEF EclipseThrottled, Walking
  <2>6. CASE CompleteEclipse
    BY <2>6, CompleteCases
  <2> QED
    BY <1>1, <2>1, <2>2, <2>3, <2>4, <2>5, <2>6 DEF EclipseStep
<1>2. CASE AgilityStep
  <2>1. CASE AgilityChunk
    BY <2>1 DEF Pages
  <2>2. CASE AgilityExpired
    <3>1. run.stage = "walking"
      BY <2>2 DEF AgilityExpired, Walking
    <3> QED
      BY <2>2, <3>1, RenewCases
  <2>3. CASE AgilityThrottled
    BY <2>3, ThrottleCases DEF AgilityThrottled, Walking
  <2>4. CASE AgilityLockedOut \/ AgilityRefused \/ AgilityMalformed
    BY <2>4 DEF AgilityLockedOut, AgilityRefused, AgilityMalformed, Walking, GivesUp
  <2>5. CASE CompleteAgility
    BY <2>5, CompleteCases
  <2> QED
    BY <1>2, <2>1, <2>2, <2>3, <2>4, <2>5 DEF AgilityStep
<1>3. CASE OffsetStep
  <2>1. CASE NetsuitePage \/ P21Page \/ P21Lines \/ EssbasePage \/ CloudPage
    BY <2>1 DEF Pages
  <2>2. CASE EssbaseCubes
    <3>1. run.stage = "walking"
      BY <2>2 DEF EssbaseCubes, Walking
    <3>2. CASE Head(run.pend) \in Live
      BY <2>2, <3>2 DEF Pages
    <3>3. CASE Head(run.pend) \notin Live
      BY <2>2, <3>1, <3>3 DEF EssbaseCubes, GivesUp
    <3> QED
      BY <3>2, <3>3
  <2>3. CASE P21Unauthorized
    <3>1. run.stage = "walking"
      BY <2>3 DEF P21Unauthorized, Walking
    <3> QED
      BY <2>3, <3>1, RenewCases
  <2>4. CASE NetsuiteThrottled \/ P21Throttled \/ CloudPagesThrottled
    BY <2>4, ThrottleCases DEF NetsuiteThrottled, P21Throttled, CloudPagesThrottled, Walking
  <2>5. CASE NetsuiteRefused \/ NetsuiteMalformed \/ P21LockedOut \/ P21Refused \/ P21Malformed
    BY <2>5 DEF NetsuiteRefused, NetsuiteMalformed, P21LockedOut, P21Refused, P21Malformed,
                Walking, GivesUp
  <2>6. CASE P21Undated \/ EssbaseSpins \/ EssbaseRefused \/ CloudPagesRefused
    BY <2>6 DEF P21Undated, EssbaseSpins, EssbaseRefused, CloudPagesRefused, Walking, GivesUp
  <2>7. CASE CompleteNetsuite \/ CompleteP21 \/ CompleteEssbase \/ CompleteCloudPages
    BY <2>7, CompleteCases
  <2> QED
    BY <1>3, <2>1, <2>2, <2>3, <2>4, <2>5, <2>6, <2>7 DEF OffsetStep
<1>4. CASE LinkStep
  <2>1. CASE BusinessCentralPage \/ CloudLinkPage
    BY <2>1 DEF Pages
  <2>2. CASE BusinessCentralTimesOut
    BY <2>2, TimesOutCases
  <2>3. CASE BusinessCentralThrottled \/ CloudLinksThrottled
    BY <2>3, ThrottleCases DEF BusinessCentralThrottled, CloudLinksThrottled, Walking
  <2>4. CASE BusinessCentralLockedOut \/ BusinessCentralRefused \/ BusinessCentralMalformed
             \/ CloudLinksRefused
    BY <2>4 DEF BusinessCentralLockedOut, BusinessCentralRefused, BusinessCentralMalformed,
                CloudLinksRefused, Walking, GivesUp
  <2>5. CASE CompleteBusinessCentral \/ CompleteCloudLinks
    BY <2>5, CompleteCases
  <2> QED
    BY <1>4, <2>1, <2>2, <2>3, <2>4, <2>5 DEF LinkStep
<1>5. CASE QueryStep
  <2>1. CASE BisTrackPage
    BY <2>1 DEF Pages
  <2>2. CASE BisTrackKeys \/ LegacySelect
    BY <2>2 DEF Queries
  <2>3. CASE BisTrackRefused \/ BisTrackMalformed \/ LegacyRefused
    BY <2>3 DEF BisTrackRefused, BisTrackMalformed, LegacyRefused, Walking, GivesUp
  <2>4. CASE CompleteBisTrack \/ CompleteLegacySql
    BY <2>4, CompleteCases
  <2> QED
    BY <1>5, <2>1, <2>2, <2>3, <2>4 DEF QueryStep
<1> QED
  BY <1>1, <1>2, <1>3, <1>4, <1>5 DEF Step

\* A turn that leaves the headers alone.
LEMMA SteadyTurnKeepsShape ==
  ASSUME Shaped, run.stage = "walking", NEW q, NEW new, NEW over, Turns(q, new, over),
         q.pend = run.pend, q.last = run.last,
         connector.name = CloudLinks => q.pos \in Keys \cup {0},
         connector.name = BusinessCentral /\ ~q.strayed => q.pos = 0
  PROVE  Shaped'
<1>1. WalkOK(run)
  BY DEF Shaped
<1>2. /\ q.pend # <<>> => HasDetails
      /\ q.last => connector.name \in Detailed
      /\ q.last => q.pend # <<>>
  BY <1>1 DEF WalkOK, HasDetails
<1> QED
  BY <1>2, TurnKeepsShape

\* A turn that reads the next header.
LEMMA DetailTurnKeepsShape ==
  ASSUME Shaped, run.stage = "walking", NEW q, NEW new,
         Turns(q, new, run.last /\ Tail(run.pend) = <<>>),
         q.pend = Tail(run.pend), q.last = run.last, run.pend # <<>>
  PROVE  Shaped'
<1>1. WalkOK(run)
  BY DEF Shaped
<1>2. HasDetails /\ connector.name \in Detailed
      /\ connector.name \notin {BusinessCentral, CloudLinks}
  BY <1>1 DEF WalkOK, HasDetails, Detailed
<1> DEFINE over == run.last /\ Tail(run.pend) = <<>>
<1>3. q.last => q.pend # <<>> \/ over
  OBVIOUS
<1> HIDE DEF over
<1>4. Turns(q, new, over)
  BY DEF over
<1> QED
  BY <1>2, <1>3, <1>4, TurnKeepsShape

LEMMA EclipsePagesKeepShape ==
  ASSUME Shaped, EclipsePage \/ EclipseHeaders
  PROVE  Shaped'
<1>1. run.stage = "walking" /\ connector.name = Eclipse
  BY DEF EclipsePage, EclipseHeaders, Walking
<1>2. CASE EclipsePage
  BY <1>1, <1>2, EclipsePageTurns, SteadyTurnKeepsShape
<1>3. CASE EclipseHeaders
  <2>1. PICK q : /\ Turns(q, <<>>, EclipseRows = <<>>)
                 /\ q.pend = EclipseRows /\ q.last = (Len(EclipseRows) < PageSize)
    BY <1>3, EclipseHeadersTurns
  <2> DEFINE over == EclipseRows = <<>>
             none == <<>>
  <2>2. HasDetails /\ connector.name \in Detailed
        /\ connector.name \notin {BusinessCentral, CloudLinks}
    BY <1>1, <1>3 DEF EclipseHeaders, HasDetails, Detailed
  <2>3. q.last => q.pend # <<>> \/ over
    BY <2>1
  <2>4. Turns(q, none, over)
    BY <2>1
  <2> HIDE DEF over, none
  <2> QED
    BY <1>1, <2>2, <2>3, <2>4, TurnKeepsShape
<1> QED
  BY <1>2, <1>3

\* The headers of P21 and Essbase.
LEMMA HeadersTurnKeepsShape ==
  ASSUME Shaped, run.stage = "walking", connector.name \in {P21, Essbase},
         NEW rows, NEW q, NEW ends, Turns(q, AsRecords(rows), ends /\ AsHeaders(rows) = <<>>),
         q.pend = AsHeaders(rows), q.last = ends
  PROVE  Shaped'
<1>3. q.pend # <<>> => HasDetails
  BY DEF AsHeaders, HasDetails, Detailed
<1>4. connector.name \in Detailed /\ connector.name \notin {BusinessCentral, CloudLinks}
  BY DEF Detailed
<1> DEFINE new == AsRecords(rows)
           over == ends /\ AsHeaders(rows) = <<>>
<1>5. q.last => q.pend # <<>> \/ over
  OBVIOUS
<1>6. Turns(q, new, over)
  OBVIOUS
<1> HIDE DEF new, over
<1> QED
  BY <1>3, <1>4, <1>5, <1>6, TurnKeepsShape

LEMMA PagesKeepShape ==
  ASSUME Shaped, Pages
  PROVE  Shaped'
<1>1. run.stage = "walking"
  BY DEF Pages, EclipsePage, EclipseHeaders, EclipseDetail, AgilityChunk, NetsuitePage, P21Page,
         P21Lines, EssbasePage, EssbaseCubes, CloudPage, BusinessCentralPage, CloudLinkPage,
         BisTrackPage, Walking
<1>2. CASE EclipsePage \/ EclipseHeaders
  BY <1>2, EclipsePagesKeepShape
<1>3. CASE EclipseDetail /\ Head(run.pend) \in Live
  <2>1. run.pend # <<>>
    BY <1>3 DEF EclipseDetail
  <2> QED
    BY <1>1, <1>3, <2>1, EclipseDetailTurns, DetailTurnKeepsShape
<1>4. CASE AgilityChunk
  <2>1. connector.name \notin {BusinessCentral, CloudLinks}
    BY <1>4 DEF AgilityChunk, Walking
  <2> QED
    BY <1>1, <1>4, <2>1, AgilityChunkTurns, SteadyTurnKeepsShape
<1>5. CASE NetsuitePage
  <2>1. connector.name \notin {BusinessCentral, CloudLinks}
    BY <1>5 DEF NetsuitePage, Walking
  <2> QED
    BY <1>1, <1>5, <2>1, NetsuitePageTurns, SteadyTurnKeepsShape
<1>6. CASE P21Page
  <2>1. connector.name \in {P21, Essbase}
    BY <1>6 DEF P21Page, Walking
  <2> DEFINE ends == Len(P21Rows) < PageSize
  <2>2. PICK q : /\ Turns(q, AsRecords(P21Rows), ends /\ AsHeaders(P21Rows) = <<>>)
                 /\ q.pend = AsHeaders(P21Rows) /\ q.last = ends
    BY <1>6, P21PageTurns
  <2> HIDE DEF ends
  <2> QED
    BY <1>1, <2>1, <2>2, HeadersTurnKeepsShape
<1>7. CASE P21Lines
  <2>1. run.pend # <<>>
    BY <1>7 DEF P21Lines
  <2> DEFINE new == IF Head(run.pend) \in Live THEN <<Head(run.pend)>> ELSE <<>>
  <2>2. PICK q : /\ Turns(q, new, run.last /\ Tail(run.pend) = <<>>)
                 /\ q.pend = Tail(run.pend) /\ q.last = run.last
    BY <1>7, P21LinesTurns
  <2> HIDE DEF new
  <2> QED
    BY <1>1, <2>1, <2>2, DetailTurnKeepsShape
<1>8. CASE EssbasePage
  <2>1. connector.name \in {P21, Essbase}
    BY <1>8 DEF EssbasePage, Walking
  <2>2. PICK q, ends : /\ Turns(q, AsRecords(EssbaseRows), ends /\ AsHeaders(EssbaseRows) = <<>>)
                       /\ q.pend = AsHeaders(EssbaseRows) /\ q.last = ends
    BY <1>8, EssbasePageTurns
  <2> QED
    BY <1>1, <2>1, <2>2, HeadersTurnKeepsShape
<1>9. CASE EssbaseCubes /\ Head(run.pend) \in Live
  <2>1. run.pend # <<>>
    BY <1>9 DEF EssbaseCubes
  <2> DEFINE new == <<Head(run.pend)>>
  <2>2. PICK q : /\ Turns(q, new, run.last /\ Tail(run.pend) = <<>>)
                 /\ q.pend = Tail(run.pend) /\ q.last = run.last
    BY <1>9, EssbaseCubesTurns
  <2> HIDE DEF new
  <2> QED
    BY <1>1, <2>1, <2>2, DetailTurnKeepsShape
<1>10. CASE CloudPage
  <2>1. connector.name \notin {BusinessCentral, CloudLinks}
    BY <1>10 DEF CloudPage, Walking
  <2> QED
    BY <1>1, <1>10, <2>1, CloudPageTurns, SteadyTurnKeepsShape
<1>11. CASE BusinessCentralPage
  <2>1. PICK q, new, over : /\ Turns(q, new, over)
                            /\ q.pend = run.pend /\ q.last = run.last
                            /\ ~q.strayed => q.pos = 0
    BY <1>11, BusinessCentralPageTurns
  <2>2. connector.name # CloudLinks
    BY <1>11 DEF BusinessCentralPage, Walking
  <2> QED
    BY <1>1, <2>1, <2>2, SteadyTurnKeepsShape
<1>12. CASE CloudLinkPage
  <2>1. PICK q : /\ Turns(q, CloudLinkRows, ~(Len(CloudLinkListing) > PageSize))
                 /\ q.pos = IF Len(CloudLinkListing) > PageSize THEN Last(CloudLinkRows)
                            ELSE run.pos
                 /\ q.pend = run.pend /\ q.last = run.last
    BY <1>12, CloudLinkPageTurns
  <2>2. run.pos \in Keys \cup {0}
    BY <1>1, <1>12 DEF CloudLinkPage, Walking, Shaped, WalkOK
  <2>3. q.pos \in Keys \cup {0} /\ connector.name # BusinessCentral
    BY <1>1, <1>12, <2>1, <2>2, LinkRowsOK DEF CloudLinkPage, Walking
  <2> QED
    BY <1>1, <2>1, <2>3, SteadyTurnKeepsShape
<1>13. CASE BisTrackPage
  <2>1. connector.name \notin {BusinessCentral, CloudLinks}
    BY <1>13 DEF BisTrackPage, Walking
  <2> QED
    BY <1>1, <1>13, <2>1, BisTrackPageTurns, SteadyTurnKeepsShape
<1> QED
  BY <1>2, <1>3, <1>4, <1>5, <1>6, <1>7, <1>8, <1>9, <1>10, <1>11, <1>12, <1>13 DEF Pages

LEMMA QueriesKeepShape ==
  ASSUME Shaped, Queries
  PROVE  Shaped'
<1>1. PICK new : Selects(new)
  BY BisTrackKeysSelects, LegacySelects DEF Queries
<1> DEFINE q == run'
<1>2. /\ q \in Runs /\ q.stage = "walked" /\ (connector.name # BisTrack => q.top[Unscoped] <= clock)
      /\ UNCHANGED <<source, connector, books, history>> /\ faults' = faults
  BY <1>1 DEF Selects
<1>3. faults' \in 0..MaxFaults
  BY <1>2 DEF Shaped, TypeOK
<1>4. run' = q
  OBVIOUS
<1> HIDE DEF q
<1> QED
  BY <1>2, <1>3, <1>4, GoesOnShape

LEMMA RetriesKeepShape ==
  ASSUME Shaped, Retries
  PROVE  Shaped'
<1>1. PICK q : Retried(q)
  BY DEF Retries
<1>2. run.stage = "walking" /\ WalkOK(run) /\ faults \in 0..MaxFaults
      /\ (connector.name # BisTrack => run.top[Unscoped] <= clock)
  BY <1>1 DEF Retried, Shaped, TypeOK, Clocked
<1>3. WalkOK(q)
  <2>1. /\ connector.name = CloudLinks => q.pos \in Keys \cup {0}
        /\ connector.name = BusinessCentral /\ ~q.strayed => q.pos = 0
    BY <1>1, <1>2 DEF Retried, WalkOK
  <2> QED
    BY <1>1, <1>2, <2>1 DEF Retried, WalkOK
<1>4. faults' \in 0..MaxFaults
  BY <1>1, <1>2, ExtractionAssumption DEF Retried
<1>5. /\ q \in Runs /\ run' = q /\ UNCHANGED <<source, connector, books, history>>
      /\ q.top = run.top
  BY <1>1 DEF Retried
<1> QED
  BY <1>2, <1>3, <1>4, <1>5, GoesOnShape

\* A header that is passed over leaves the walk astray.
LEMMA KeylessKeepsShape ==
  ASSUME Shaped, P21Keyless
  PROVE  /\ Shaped' /\ run'.strayed /\ UNCHANGED <<source, connector, books, history>>
         /\ run'.walk = run.walk /\ run'.stage \notin Ends
<1>1. /\ run \in Runs /\ WalkOK(run) /\ TypeOK /\ Clocked /\ run.stage = "walking"
      /\ connector.name = P21 /\ run.pend # <<>>
  BY DEF Shaped, TypeOK, P21Keyless, Walking
<1>2. Len(run.left) = 1
  BY <1>1, DetailsInOneScope DEF Detailed
<1> DEFINE rest == Tail(run.pend)
           passed == [run EXCEPT !.pend = rest, !.strayed = TRUE]
           over == run.last /\ rest = <<>>
           q == run'
<1>3. rest \in Seq(Keys)
  BY <1>1, PendingHead
<1>4. /\ run' = IF passed.last /\ passed.pend = <<>> THEN NextScope(passed) ELSE passed
      /\ faults < MaxFaults /\ faults' = faults + 1
      /\ UNCHANGED <<source, connector, books, history>>
  BY DEF P21Keyless
<1> HIDE DEF rest
<1>5. /\ passed \in Runs /\ passed.left = run.left /\ passed.last = run.last /\ passed.pend = rest
      /\ passed.strayed /\ passed.stage = "walking" /\ passed.deaf = run.deaf
      /\ passed.size = run.size /\ passed.top = run.top /\ passed.walk = run.walk
  BY <1>1, <1>3 DEF Runs
<1> HIDE DEF passed
<1>6. q = IF over THEN [passed EXCEPT !.stage = "walked"] ELSE passed
  <2>4. passed.left = run.left
    BY <1>5
  <2>1. Len(passed.left) = 1
    BY <1>2, <2>4, Zenon
  <2>2. NextScope(passed) = [passed EXCEPT !.stage = "walked"]
    BY <2>1 DEF NextScope
  <2>3. (passed.last /\ passed.pend = <<>>) = over
    BY <1>5
  <2> HIDE DEF over
  <2> QED
    BY <1>4, <2>2, <2>3
<1>7. /\ q \in Runs /\ q.top = run.top /\ q.strayed
      /\ q.walk = run.walk /\ q.stage \in {"walking", "walked"}
  <2> HIDE DEF q, over
  <2>1. CASE over
    BY <1>5, <1>6, <2>1 DEF Runs
  <2>2. CASE ~over
    BY <1>5, <1>6, <2>2
  <2> QED
    BY <2>1, <2>2
<1>8. q.stage = "walking" => WalkOK(q)
  <2>1. CASE over
    BY <1>5, <1>6, <2>1 DEF Runs
  <2>2. CASE ~over
    BY <1>1, <1>5, <1>6, <2>2 DEF WalkOK
  <2> QED
    BY <2>1, <2>2
<1>9. faults' \in 0..MaxFaults
  BY <1>1, <1>4, ExtractionAssumption DEF TypeOK
<1>10. run' = q /\ (connector.name # BisTrack => q.top[Unscoped] <= clock)
  BY <1>1, <1>7 DEF Clocked
<1>11. run'.walk = run.walk /\ run'.stage \notin Ends
  BY <1>7, <1>10 DEF Ends, Failures
<1> HIDE DEF q
<1>12. Shaped'
  BY <1>4, <1>7, <1>8, <1>9, <1>10, GoesOnShape
<1> QED
  BY <1>4, <1>7, <1>10, <1>11, <1>12

LEMMA UnstampedKeepsShape ==
  ASSUME Shaped, EclipseUnstamped
  PROVE  Shaped'
<1>1. TypeOK /\ Clocked
  BY DEF Shaped
<1>2. /\ run' = Rest("failed") /\ staged' = Published /\ faults' = faults + 1
      /\ faults < MaxFaults
      /\ UNCHANGED <<erp, clock, changes, connector, mark, tombstones, touched>>
      /\ sound' = (sound /\ touched = {})
  BY DEF EclipseUnstamped, source
<1>7. "failed" \in Ends
  BY DEF Ends, Failures
<1>3. Published \in [there: BOOLEAN, rows: SUBSET Versions]
  <2>1. run.out \in Seq(Versions) /\ staged \in [there: BOOLEAN, rows: SUBSET Versions]
    BY <1>1 DEF TypeOK, Runs
  <2>2. Yielded \subseteq Versions
    BY <2>1 DEF Yielded, Range
  <2> QED
    BY <2>1, <2>2 DEF Published
<1>4. TypeOK'
  <2>1. faults' \in 0..MaxFaults
    BY <1>1, <1>2, ExtractionAssumption DEF TypeOK
  <2>2. sound' \in BOOLEAN
    BY <1>2
  <2> QED
    BY <1>1, <1>2, <1>3, <1>7, <2>1, <2>2, RestOK DEF TypeOK
<1>5. Clocked'
  <2>1. clock \in Nat
    BY <1>1, ExtractionAssumption DEF TypeOK, Stamps
  <2> QED
    BY <1>1, <1>2, <1>7, <2>1, RestOK DEF Clocked
<1>6. run'.stage # "walking"
  BY <1>2, <1>7, RestOK
<1> QED
  BY <1>4, <1>5, <1>6 DEF Shaped

LEMMA ChangeKeepsShape ==
  ASSUME Shaped, NEW k \in Keys, NEW deletes \in BOOLEAN, ChangeErp(k, deletes)
  PROVE  Shaped'
<1>1. TypeOK /\ Clocked
  BY DEF Shaped
<1>2. PICK stamp \in {clock, clock + 1} \cap Stamps :
        /\ clock' = stamp /\ changes < MaxChanges /\ changes' = changes + 1
        /\ erp' = [erp EXCEPT ![k] = IF deletes THEN 0 ELSE stamp]
        /\ touched' = touched \cup {k}
        /\ sound' = (sound /\ (deletes \/ stamp > mark[Unscoped]))
        /\ UNCHANGED <<connector, staged, mark, tombstones, run, faults>>
  BY DEF ChangeErp, books
<1>3. clock \in Nat /\ clock' \in Stamps /\ 0 \in Stamps /\ clock' \in Nat /\ clock <= clock'
  BY <1>1, <1>2, ExtractionAssumption DEF TypeOK, Stamps
<1>4. erp' \in [Keys -> Stamps]
  BY <1>1, <1>2, <1>3 DEF TypeOK
<1>5. TypeOK'
  <2>1. changes' \in 0..MaxChanges /\ sound' \in BOOLEAN
    BY <1>1, <1>2, ExtractionAssumption DEF TypeOK
  <2> QED
    BY <1>1, <1>2, <1>3, <1>4, <2>1 DEF TypeOK
<1>6. Clocked'
  <2>1. \A j \in Keys : erp[j] \in Nat /\ erp[j] <= clock
    BY <1>1, ExtractionAssumption DEF TypeOK, Clocked, Stamps
  <2>2. \A j \in Keys : erp'[j] <= clock'
    BY <1>1, <1>2, <1>3, <2>1 DEF TypeOK
  <2>3. mark[Unscoped] \in Nat /\ run.top[Unscoped] \in Nat
    BY <1>1, ExtractionAssumption DEF TypeOK, Runs, Stamps, AllScopes
  <2>4. connector.name # BisTrack => mark[Unscoped] <= clock' /\ run.top[Unscoped] <= clock'
    BY <1>1, <1>3, <2>3 DEF Clocked
  <2> QED
    BY <1>2, <2>2, <2>4 DEF Clocked
<1>7. (run.stage = "walking" => WalkOK(run))'
  BY <1>2 DEF Shaped, WalkOK, HasDetails, Plan, Keyset, AgilityPlan, ScanPlan
<1> QED
  BY <1>5, <1>6, <1>7 DEF Shaped


\* Every start is a walk of the plan, deaf where deafness can go unnoticed at first.
LEMMA StartCases ==
  ASSUME Start
  PROVE  \E who \in Known, walk \in Walks, deaf \in BOOLEAN :
           StartRun(who, walk, Plan, deaf) /\ (deaf => who \in Deafened)
<1>1. CASE StartEclipse
  <2>1. PICK walk \in Walks, deaf \in BOOLEAN : StartRun(Eclipse, walk, <<Unscoped>>, deaf)
    BY <1>1 DEF StartEclipse
  <2>2. connector.name = Eclipse
    BY <2>1 DEF StartRun
  <2> QED
    BY <2>1, <2>2 DEF Plan, Known, Deafened
<1>2. CASE StartAgility
  <2>1. PICK walk \in Walks : StartRun(Agility, walk, AgilityPlan, FALSE)
    BY <1>2 DEF StartAgility
  <2>2. connector.name = Agility
    BY <2>1 DEF StartRun
  <2>3. Plan = AgilityPlan /\ Agility \in Known
    BY <2>2 DEF Plan, Known
  <2> QED
    BY <2>1, <2>3
<1>3. CASE StartNetsuite
  <2>1. PICK walk \in Walks, deaf \in BOOLEAN : StartRun(Netsuite, walk, <<Unscoped>>, deaf)
    BY <1>3 DEF StartNetsuite
  <2>2. connector.name = Netsuite
    BY <2>1 DEF StartRun
  <2> QED
    BY <2>1, <2>2 DEF Plan, Known, Deafened
<1>4. CASE StartP21
  <2>1. PICK walk \in Walks, deaf \in BOOLEAN : StartRun(P21, walk, <<Unscoped>>, deaf)
    BY <1>4 DEF StartP21
  <2>2. connector.name = P21
    BY <2>1 DEF StartRun
  <2> QED
    BY <2>1, <2>2 DEF Plan, Known, Deafened
<1>5. CASE StartEssbase
  <2>1. PICK walk \in Walks, deaf \in BOOLEAN : StartRun(Essbase, walk, <<Unscoped>>, deaf)
    BY <1>5 DEF StartEssbase
  <2>2. connector.name = Essbase
    BY <2>1 DEF StartRun
  <2> QED
    BY <2>1, <2>2 DEF Plan, Known, Deafened
<1>6. CASE StartCloudPages
  <2>1. PICK walk \in Walks, deaf \in BOOLEAN : StartRun(CloudPages, walk, <<Unscoped>>, deaf)
    BY <1>6 DEF StartCloudPages
  <2>2. connector.name = CloudPages
    BY <2>1 DEF StartRun
  <2> QED
    BY <2>1, <2>2 DEF Plan, Known, Deafened
<1>7. CASE StartBusinessCentral
  <2>1. PICK walk \in Walks : StartRun(BusinessCentral, walk, Companies, FALSE)
    BY <1>7 DEF StartBusinessCentral
  <2>2. connector.name = BusinessCentral
    BY <2>1 DEF StartRun
  <2> QED
    BY <2>1, <2>2 DEF Plan, Known
<1>8. CASE StartCloudLinks
  <2>1. PICK walk \in Walks, deaf \in BOOLEAN : StartRun(CloudLinks, walk, <<Unscoped>>, deaf)
    BY <1>8 DEF StartCloudLinks
  <2>2. connector.name = CloudLinks
    BY <2>1 DEF StartRun
  <2> QED
    BY <2>1, <2>2 DEF Plan, Known, Deafened
<1>9. CASE StartBisTrack
  <2>1. PICK walk \in Walks : StartRun(BisTrack, walk, ScanPlan, FALSE)
    BY <1>9 DEF StartBisTrack
  <2>2. connector.name = BisTrack
    BY <2>1 DEF StartRun
  <2>3. Plan = ScanPlan /\ BisTrack \in Known
    BY <2>2 DEF Plan, Known
  <2> QED
    BY <2>1, <2>3
<1>10. CASE StartLegacySql
  <2>1. PICK walk \in Walks : StartRun(LegacySql, walk, <<Unscoped>>, FALSE)
    BY <1>10 DEF StartLegacySql
  <2>2. connector.name = LegacySql
    BY <2>1 DEF StartRun
  <2> QED
    BY <2>1, <2>2 DEF Plan, Known
<1> QED
  BY <1>1, <1>2, <1>3, <1>4, <1>5, <1>6, <1>7, <1>8, <1>9, <1>10 DEF Start

LEMMA InitShaped ==
  ASSUME ExtractionInit
  PROVE  Shaped
<1>1. erp \in [Keys -> 0..MaxClock] /\ MaxClock \in Nat
  BY ExtractionAssumption DEF ExtractionInit
<1> DEFINE stamps == {0} \cup Range(erp)
<1>2. stamps \subseteq 0..MaxClock /\ stamps # {}
  BY <1>1 DEF Range
<1>3. \A k \in Keys : erp[k] \in stamps
  BY <1>1 DEF Range
<1>4. clock = Max(stamps)
  BY DEF ExtractionInit
<1> HIDE DEF stamps
<1>5. stamps \subseteq Nat /\ \A x \in stamps : x <= MaxClock
  BY <1>1, <1>2
<1>6. clock \in stamps /\ \A x \in stamps : x <= clock
  BY <1>1, <1>2, <1>4, <1>5, LargestElement
<1>7. run = Rest("idle") /\ run \in Runs /\ run.stage = "idle" /\ run.top[Unscoped] = 0
  BY RestOK DEF ExtractionInit, Ends
<1>8. TypeOK
  <2>1. erp \in [Keys -> Stamps] /\ clock \in Stamps
    BY <1>1, <1>2, <1>6 DEF Stamps
  <2>2. faults \in 0..MaxFaults /\ changes \in 0..MaxChanges
    BY ExtractionAssumption DEF ExtractionInit
  <2>3. mark \in [AllScopes -> Nat] /\ staged \in [there: BOOLEAN, rows: SUBSET Versions]
    BY DEF ExtractionInit
  <2> QED
    BY <1>7, <2>1, <2>2, <2>3 DEF TypeOK, ExtractionInit
<1>9. Clocked
  <2>1. mark[Unscoped] = 0
    BY DEF ExtractionInit, AllScopes
  <2>2. clock \in Nat
    BY <1>5, <1>6
  <2>3. \A k \in Keys : erp[k] <= clock
    BY <1>3, <1>6
  <2> QED
    BY <1>7, <2>1, <2>2, <2>3 DEF Clocked
<1> QED
  BY <1>7, <1>8, <1>9 DEF Shaped

LEMMA GivingUpKeepsShape ==
  ASSUME Shaped, GivesUp
  PROVE  Shaped'
BY FailKeepsShape DEF GivesUp

LEMMA CompletionKeepsShape ==
  ASSUME Shaped, Completes
  PROVE  Shaped'
BY CompleteKeepsShape DEF Completes

LEMMA NextKeepsShape ==
  ASSUME Shaped, [Next]_vars
  PROVE  Shaped'
<1>1. CASE \E k \in Keys, deletes \in BOOLEAN : ChangeErp(k, deletes)
  BY <1>1, ChangeKeepsShape
<1>2. CASE Start
  BY <1>2, StartCases, StartsFresh
<1>3. CASE Step
  BY <1>3, StepCases, PagesKeepShape, QueriesKeepShape, GivingUpKeepsShape, RetriesKeepShape,
     KeylessKeepsShape, UnstampedKeepsShape, CompletionKeepsShape
<1>4. CASE UNCHANGED vars
  <2>1. /\ UNCHANGED <<erp, clock, changes, connector, staged, mark, tombstones>>
        /\ UNCHANGED <<run, touched, sound, faults>>
    BY <1>4 DEF vars, source, books, history
  <2> QED
    BY <2>1 DEF Shaped, TypeOK, Clocked, WalkOK, HasDetails, Plan, Keyset, AgilityPlan, ScanPlan
<1> QED
  BY <1>1, <1>2, <1>3, <1>4 DEF Next

\* In every run of every connector the state has its shape, stamps and watermarks
\* are no later than the ERP's clock, and a walk is in a scope of its plan.
THEOREM ExtractionTypeCorrect == Spec => []TypeOK
<1>1. ExtractionInit => Shaped
  BY InitShaped
<1>2. Shaped /\ [Next]_vars => Shaped'
  BY NextKeepsShape
<1>3. Shaped => TypeOK
  BY DEF Shaped
<1> QED
  BY <1>1, <1>2, <1>3, PTL DEF Spec

(***************************************************************************)
(* Walks: what is wanted is yielded or ahead.                              *)
(***************************************************************************)
\* A page of a listing takes from the front of what is below its offset.
Splits(ids, n, size, rows) ==
  /\ Len(rows) \in Nat /\ Len(Listed(ids)) = Cardinality(ids) /\ Cardinality(ids) \in Nat
  /\ IsInjective(rows) /\ Range(rows) \subseteq ids
  /\ Below(ids, n) = Range(rows) \cup Below(ids, n + size)
  /\ Range(rows) \cap Below(ids, n + size) = {}
  /\ Below(ids, n + Len(rows)) = Below(ids, n + size)
  /\ Len(rows) < size => Below(ids, n + size) = {}
  /\ n + Len(rows) >= Cardinality(ids) => Below(ids, n + size) = {}
  /\ rows = <<>> => Below(ids, n) = {}

LEMMA PageSplits ==
  ASSUME NEW ids \in SUBSET Keys, NEW n \in Nat, NEW size \in Nat \ {0}, NEW rows,
         rows = Page(Listed(ids), n, size)
  PROVE  Splits(ids, n, size, rows)
<1> DEFINE list == Listed(ids)
           c == Cardinality(ids)
<1>1. /\ c \in Nat /\ list \in Seq(ids) /\ Len(list) = c /\ Range(list) = ids
      /\ \A i, j \in 1..Len(list) : i < j => Place[list[i]] < Place[list[j]]
  BY ListedLists
<1>2. Below(ids, n) = {list[i] : i \in (n + 1)..c}
      /\ Below(ids, n + size) = {list[i] : i \in ((n + size) + 1)..c}
      /\ Below(ids, n + Len(rows)) = {list[i] : i \in ((n + Len(rows)) + 1)..c}
  BY DEF Below
<1> HIDE DEF list, c
<1>3. list \in Seq(Keys) /\ size \in Nat /\ Place \in [Keys -> Nat]
  <2>1. ids \subseteq Keys
    OBVIOUS
  <2>2. list \in Seq(Keys)
    BY <1>1, <2>1
  <2> QED
    BY <2>2, ExtractionAssumption
<1>4. IsInjective(list)
  BY <1>1, <1>3, RisingIsInjective
<1>5. rows = Page(list, n, size)
  BY DEF list
<1>6. /\ Len(rows) = IF n + size <= c THEN size ELSE IF n <= c THEN c - n ELSE 0
      /\ rows \in Seq(Keys)
  <2> DEFINE page == Page(list, n, size)
  <2>1. /\ page \in Seq(Keys)
        /\ Len(page) = IF n + size <= Len(list) THEN size
                       ELSE IF n <= Len(list) THEN Len(list) - n ELSE 0
    BY <1>3, PageRows
  <2>2. rows = page
    BY <1>5
  <2> HIDE DEF page
  <2> QED
    BY <1>1, <2>1, <2>2
<1>7. /\ Range(rows) \subseteq ids /\ IsInjective(rows)
      /\ Range(rows) = {list[i] : i \in {j \in 1..c : n < j /\ j <= n + size}}
  <2> DEFINE page == Page(list, n, size)
  <2>1. /\ Range(page) \subseteq Range(list)
        /\ Range(page) = {list[i] : i \in {j \in 1..Len(list) : n < j /\ j <= n + size}}
        /\ IsInjective(list) => IsInjective(page)
    BY <1>3, PageRange
  <2>2. rows = page
    BY <1>5
  <2> HIDE DEF page
  <2> QED
    BY <1>1, <1>4, <2>1, <2>2
<1>8. Len(rows) \in Nat
  BY <1>6
<1>9. Below(ids, n) = Range(rows) \cup Below(ids, n + size)
  <2>1. \A i : i \in (n + 1)..c <=>
          \/ i \in {j \in 1..c : n < j /\ j <= n + size}
          \/ i \in ((n + size) + 1)..c
    BY <1>1, <1>3
  <2> QED
    BY <1>2, <1>7, <2>1
<1>10. Range(rows) \cap Below(ids, n + size) = {}
  <2>1. SUFFICES ASSUME NEW i \in {j \in 1..c : n < j /\ j <= n + size},
                        NEW j \in ((n + size) + 1)..c, list[i] = list[j]
                 PROVE  FALSE
    BY <1>2, <1>7
  <2>2. i \in 1..c /\ j \in 1..c /\ i # j
    BY <1>1, <1>3
  <2>3. DOMAIN list = 1..c
    BY <1>1
  <2> QED
    BY <1>4, <2>1, <2>2, <2>3 DEF IsInjective
<1>11. Below(ids, n + Len(rows)) = Below(ids, n + size)
  <2>1. ((n + Len(rows)) + 1)..c = ((n + size) + 1)..c
    BY <1>1, <1>3, <1>6
  <2> QED
    BY <1>2, <2>1
<1>12. Len(rows) < size \/ n + Len(rows) >= c => Below(ids, n + size) = {}
  <2>1. Len(rows) < size \/ n + Len(rows) >= c => ((n + size) + 1)..c = {}
    BY <1>1, <1>3, <1>6
  <2> QED
    BY <1>2, <2>1
<1>13. rows = <<>> => Below(ids, n) = {}
  <2>1. rows = <<>> => Len(rows) < size /\ Range(rows) = {}
    BY <1>3 DEF Range
  <2> QED
    BY <1>9, <1>12, <2>1
<1> QED
  BY <1>1, <1>7, <1>8, <1>9, <1>10, <1>11, <1>12, <1>13 DEF c, list, Splits

LEMMA WindowSplits ==
  ASSUME NEW ids \in SUBSET Keys, NEW n \in Nat, NEW rows, rows = Window(Listed(ids), n)
  PROVE  /\ Len(rows) \in Nat /\ Len(Listed(ids)) = Cardinality(ids) /\ Cardinality(ids) \in Nat
         /\ IsInjective(rows) /\ Range(rows) \subseteq ids
         /\ Below(ids, n) = Range(rows) \cup Below(ids, n + PageSize)
         /\ Range(rows) \cap Below(ids, n + PageSize) = {}
         /\ Below(ids, n + Len(rows)) = Below(ids, n + PageSize)
         /\ Len(rows) < PageSize => Below(ids, n + PageSize) = {}
         /\ n + Len(rows) >= Cardinality(ids) => Below(ids, n + PageSize) = {}
         /\ rows = <<>> => Below(ids, n) = {}
<1>1. PageSize \in Nat \ {0} /\ rows = Page(Listed(ids), n, PageSize)
  BY ExtractionAssumption DEF Window
<1>2. Splits(ids, n, PageSize, rows)
  BY <1>1, PageSplits
<1> QED
  BY <1>2 DEF Splits

\* At the beginning everything is below, and nothing else ever is.
LEMMA BelowAll ==
  ASSUME NEW ids \in SUBSET Keys, NEW n \in Nat
  PROVE  /\ Below(ids, 0) = ids /\ Below(ids, n) \subseteq ids
         /\ n >= Cardinality(ids) => Below(ids, n) = {}
<1> DEFINE list == Listed(ids)
           c == Cardinality(ids)
<1>1. c \in Nat /\ list \in Seq(ids) /\ Len(list) = c /\ Range(list) = ids
  BY ListedLists
<1>2. \A m \in Nat : Below(ids, m) = {list[i] : i \in (m + 1)..c}
  BY DEF Below
<1> HIDE DEF list, c
<1>3. Range(list) = {list[i] : i \in 1..c}
  BY <1>1 DEF Range
<1>4. (0 + 1)..c = 1..c /\ (n + 1)..c \subseteq 1..c /\ (n >= c => (n + 1)..c = {})
  BY <1>1
<1>5. Below(ids, 0) = {list[i] : i \in (0 + 1)..c}
  BY <1>2
<1>6. Below(ids, n) = {list[i] : i \in (n + 1)..c}
  BY <1>2
<1>7. n >= c => Below(ids, n) = {}
  BY <1>4, <1>6
<1>8. Below(ids, n) \subseteq ids
  BY <1>1, <1>3, <1>4, <1>6
<1>9. Below(ids, 0) = ids
  BY <1>1, <1>3, <1>4, <1>5
<1> QED
  BY <1>7, <1>8, <1>9 DEF c

\* Scopes are walked one after the other; keyset walks read no key in two of them.
LEMMA ScopesApart ==
  ASSUME Shaped, run.stage = "walking"
  PROVE  /\ run.left \in Seq(AllScopes) /\ run.left # <<>> /\ Len(run.left) \in Nat \ {0}
         /\ Head(run.left) \in Range(Plan) /\ Head(run.left) \in AllScopes
         /\ Len(run.left) = 1 => Later(run) = {}
         /\ Keyset => Here(run) \cap Later(run) = {}
<1>1. /\ run.left \in Seq(AllScopes) /\ run.left # <<>> /\ Range(run.left) \subseteq Range(Plan)
      /\ Unscoped \in Range(run.left) => Len(run.left) = 1
      /\ Keyset => IsInjective(run.left)
  BY DEF Shaped, TypeOK, Runs, WalkOK
<1>2. /\ Len(run.left) \in Nat \ {0} /\ Head(run.left) \in Range(run.left)
      /\ Tail(run.left) \in Seq(AllScopes) /\ Len(Tail(run.left)) = Len(run.left) - 1
      /\ Range(run.left) = {Head(run.left)} \cup Range(Tail(run.left))
      /\ IsInjective(run.left) => Head(run.left) \notin Range(Tail(run.left))
  BY <1>1, HeadAndTail
<1>3. Range(run.left) \subseteq AllScopes
  BY <1>1 DEF Range
<1>4. ASSUME Len(run.left) = 1
      PROVE  Later(run) = {}
  <2>1. Len(Tail(run.left)) = 0
    BY <1>2, <1>4
  <2>2. Range(Tail(run.left)) = {}
    BY <1>2, <2>1 DEF Range
  <2> QED
    BY <2>2 DEF Later
<1>5. ASSUME Keyset, NEW k \in Here(run), k \in Later(run)
      PROVE  FALSE
  <2>1. PICK s \in Range(Tail(run.left)) : k \in InScope(s)
    BY <1>5 DEF Later
  <2>2. CASE Unscoped \in Range(run.left)
    <3>1. Later(run) = {}
      BY <1>1, <1>4, <2>2
    <3> QED
      BY <1>5, <3>1
  <2>3. CASE Unscoped \notin Range(run.left)
    <3>1. s # Unscoped /\ Head(run.left) # Unscoped
      BY <1>2, <2>3
    <3>2. ScopeOf[k] = s /\ ScopeOf[k] = Head(run.left)
      BY <2>1, <3>1 DEF InScope, Here
    <3> QED
      BY <1>1, <1>2, <1>5, <3>2
  <2> QED
    BY <2>2, <2>3
<1> QED
  BY <1>1, <1>2, <1>3, <1>4, <1>5

\* Two runs at the same place.
LEMMA SamePlace ==
  ASSUME NEW q, NEW r, NEW w, q.left = r.left, q.pos = r.pos, q.last = r.last, q.deaf = r.deaf
  PROVE  Room(q, w) = Room(r, w) /\ Later(q) = Later(r) /\ Here(q) = Here(r)
<1>1. Later(q) = Later(r) /\ Here(q) = Here(r) /\ Reached(q) = Reached(r)
  BY DEF Later, Here, Reached
<1>2. \A k : Beyond(q, k) = Beyond(r, k)
  BY DEF Beyond
<1>3. CASE Keyset
  <2>1. Room(q, w) = {k \in Here(q) : Beyond(q, k)} /\ Room(r, w) = {k \in Here(r) : Beyond(r, k)}
    BY <1>3 DEF Room
  <2> QED
    BY <1>1, <1>2, <2>1
<1>4. CASE ~Keyset
  BY <1>1, <1>4 DEF Room
<1> QED
  BY <1>1, <1>3, <1>4

LEMMA ReachedOK ==
  ASSUME NEW r, r.pos \in Nat, NEW n \in Nat
  PROVE  /\ Reached(r) \in Nat /\ (n + 1) * PageSize = n * PageSize + PageSize
         /\ n * CloudPageSize \in Nat
         /\ (n + 1) * CloudPageSize = n * CloudPageSize + CloudPageSize
<1>1. PageSize \in Nat /\ CloudPageSize \in Nat
  BY ExtractionAssumption, OffsetAssumption
<1>2. r.pos * PageSize \in Nat /\ r.pos * CloudPageSize \in Nat /\ n * CloudPageSize \in Nat
  BY <1>1
<1>3. (n + 1) * PageSize = n * PageSize + PageSize
  BY <1>1
<1>4. (n + 1) * CloudPageSize = n * CloudPageSize + CloudPageSize
  BY <1>1
<1> QED
  BY <1>1, <1>2, <1>3, <1>4 DEF Reached


\* A scope is entered with all of it ahead.
LEMMA FreshRoom ==
  ASSUME NEW r, NEW w \in SUBSET Keys, r.pos = 0, r.last = FALSE
  PROVE  w \cap Here(r) \subseteq Room(r, w) /\ Room(r, w) \subseteq Here(r)
<1> DEFINE ids == w \cap Here(r)
<1>1. ids \in SUBSET Keys
  OBVIOUS
<1>2. CASE Keyset
  <2>1. \A k \in Keys : Beyond(r, k)
    <3>1. \A k \in Keys : 0 < Number[k]
      BY QueryAssumption
    <3> QED
      BY <3>1 DEF Beyond
  <2> QED
    BY <1>2, <2>1 DEF Room
<1>3. CASE ~Keyset
  <2>1. Reached(r) = 0
    <3>1. 0 * PageSize = 0 /\ 0 * CloudPageSize = 0
      BY ExtractionAssumption, OffsetAssumption
    <3> QED
      BY <3>1 DEF Reached
  <2>2. Room(r, w) = Below(ids, 0)
    BY <1>3, <2>1 DEF Room
  <2>3. 0 \in Nat
    OBVIOUS
  <2>4. Below(ids, 0) = ids
    <3> HIDE DEF ids
    <3> QED
      BY <1>1, <2>3, BelowAll
  <2> QED
    BY <2>2, <2>4
<1> QED
  BY <1>2, <1>3

\* Nothing is ahead outside the scope and the headers but the other scopes.
LEMMA RoomIsHere ==
  ASSUME NEW r, NEW w \in SUBSET Keys, r.pos \in Nat
  PROVE  Room(r, w) \subseteq Here(r)
<1> DEFINE ids == w \cap Here(r)
<1>1. ids \in SUBSET Keys /\ Reached(r) \in Nat
  BY ReachedOK
<1> HIDE DEF ids
<1>2. Below(ids, Reached(r)) \subseteq ids
  BY <1>1, BelowAll
<1> QED
  BY <1>2 DEF Room, ids

\* What a turn has to do for its walk.
Covers(q, new, over, w) ==
  \A k \in w \cap Settled :
    k \in Range(run.pend) \cup Room(run, w) =>
      \/ k \in Range(new) \/ Version(k) \in Yielded
      \/ ~over /\ k \in Range(q.pend) \cup Room(q, w)
Reads(q, new, w) == Calm => Range(new) \subseteq w /\ Range(q.pend) \subseteq w
ReadsOnce(q, new, over, w) ==
  ~Counted =>
    /\ IsInjective(new) /\ Range(new) \cap IdsOf(Yielded) = {}
    /\ ~Remembers => Range(new) \cap Later(run) = {}
    /\ ~Remembers /\ ~over =>
         /\ IsInjective(q.pend)
         /\ Range(q.pend) \cup Room(q, w) \subseteq Range(run.pend) \cup Room(run, w)
         /\ Range(new) \cap (Range(q.pend) \cup Room(q, w)) = {}
         /\ Range(q.pend) \cap Room(q, w) = {}
Holds(q, over) == over /\ Len(run.left) > 1 => q.pend = <<>> /\ q.last = FALSE

\* Where the run is after a turn.
LEMMA AfterTurn ==
  ASSUME Shaped, run.stage = "walking", NEW q, NEW new, NEW over, Turns(q, new, over)
  PROVE  /\ run'.out = q.out /\ run'.pend = q.pend
         /\ run'.deaf = run.deaf /\ run'.walk = run.walk /\ run'.strayed = q.strayed
         /\ ~over => /\ run'.stage = "walking" /\ run'.left = run.left /\ run'.pos = q.pos
                     /\ run'.last = q.last
         /\ over /\ Len(run.left) = 1 => run'.stage = "walked"
         /\ over /\ Len(run.left) > 1 =>
              /\ run'.stage = "walking" /\ run'.left = Tail(run.left) /\ run'.pos = 0
              /\ run'.last = q.last
<1> DEFINE to == [(IF over THEN NextScope(q) ELSE q) EXCEPT !.tries = 0]
<1>1. /\ q \in Runs /\ q.stage = "walking" /\ q.left = run.left /\ q.deaf = run.deaf
      /\ q.walk = run.walk /\ over \in BOOLEAN /\ run' = to
  BY DEF Turns, Answered
<1>2. Len(run.left) \in Nat \ {0}
  BY ScopesApart
<1>3. Len(run.left) = 1 => ~(Len(run.left) > 1)
  BY <1>2, OneOrMore, Zenon
<1>4. CASE ~over
  <2>1. run' = [q EXCEPT !.tries = 0]
    BY <1>1, <1>4
  <2> QED
    BY <1>1, <1>4, <2>1 DEF Runs
<1>5. CASE over /\ Len(run.left) = 1
  <2>1. run' = [[q EXCEPT !.stage = "walked"] EXCEPT !.tries = 0]
    BY <1>1, <1>3, <1>5 DEF NextScope
  <2> QED
    BY <1>1, <1>3, <1>5, <2>1 DEF Runs
<1>6. CASE over /\ Len(run.left) > 1
  <2>1. run' = [[q EXCEPT !.left = Tail(run.left), !.pos = 0, !.renewed = FALSE]
                  EXCEPT !.tries = 0]
    BY <1>1, <1>6 DEF NextScope
  <2> QED
    BY <1>1, <1>3, <1>6, <2>1 DEF Runs
<1>7. Len(run.left) = 1 \/ Len(run.left) > 1
  BY <1>2, OneOrMore, Zenon
<1> QED
  BY <1>1, <1>4, <1>5, <1>6, <1>7

LEMMA TurnKeeps ==
  ASSUME Shaped, run.stage = "walking", NEW w \in SUBSET Keys, Walked(run, w),
         NEW q, NEW new, NEW over, Turns(q, new, over), Holds(q, over),
         Covers(q, new, over, w), Reads(q, new, w), ReadsOnce(q, new, over, w)
  PROVE  Walked(run', w)
<1> DEFINE to == run'
<1>1. /\ q \in Runs /\ q.left = run.left /\ q.deaf = run.deaf /\ new \in Seq(Live)
      /\ q.out = run.out \o VersionsOf(new) /\ over \in BOOLEAN
  BY DEF Turns
<1>2. /\ to.out = q.out /\ to.pend = q.pend /\ to.deaf = run.deaf
      /\ ~over => /\ to.stage = "walking" /\ to.left = run.left /\ to.pos = q.pos
                  /\ to.last = q.last
      /\ over /\ Len(run.left) = 1 => to.stage = "walked"
      /\ over /\ Len(run.left) > 1 =>
           /\ to.stage = "walking" /\ to.left = Tail(run.left) /\ to.pos = 0
           /\ to.pend = <<>> /\ to.last = FALSE
  BY AfterTurn DEF Holds
<1> HIDE DEF to
<1>3. run.out \in Seq(Versions) /\ erp \in [Keys -> Stamps] /\ run.stage # "walked"
  BY DEF Shaped, TypeOK, Runs
<1>4. /\ to.out \in Seq(Versions)
      /\ Range(to.out) = Yielded \cup {Version(k) : k \in Range(new)}
      /\ IdsOf(Range(to.out)) = IdsOf(Yielded) \cup Range(new)
  BY <1>1, <1>2, <1>3, RecordsAdded DEF Yielded
<1>5. /\ run.left \in Seq(AllScopes) /\ run.left # <<>> /\ Len(run.left) \in Nat \ {0}
      /\ Len(run.left) = 1 => Later(run) = {}
  BY ScopesApart
<1>6. Len(run.left) = 1 \/ Len(run.left) > 1
  BY <1>5, OneOrMore, Zenon
<1>7. ~over => Room(to, w) = Room(q, w) /\ Later(to) = Later(run)
  <2>1. ASSUME ~over
        PROVE  Room(to, w) = Room(q, w)
    BY <1>1, <1>2, <2>1, SamePlace
  <2>2. ~over => Later(to) = Later(run)
    BY <1>2 DEF Later
  <2> QED
    BY <2>1, <2>2
<1>8. ASSUME over, Len(run.left) > 1
      PROVE  /\ w \cap Later(run) \subseteq Room(to, w) \cup Later(to)
             /\ Room(to, w) \cup Later(to) \subseteq Later(run)
  <2>1. to.pos = 0 /\ to.last = FALSE /\ to.left = Tail(run.left)
    BY <1>2, <1>8
  <2>2. w \cap Here(to) \subseteq Room(to, w) /\ Room(to, w) \subseteq Here(to)
    BY <2>1, FreshRoom
  <2>3. Tail(run.left) \in Seq(AllScopes) /\ Tail(run.left) # <<>>
    BY <1>5, <1>8, HeadAndTail
  <2>4. Range(Tail(run.left)) = {Head(Tail(run.left))} \cup Range(Tail(Tail(run.left)))
    BY <2>3, HeadAndTail
  <2>5. Later(run) = Here(to) \cup Later(to)
    BY <2>1, <2>4 DEF Later, Here
  <2> QED
    BY <2>2, <2>5
<1>10. Kept(to, w)
  <2> SUFFICES ASSUME NEW k \in w \cap Settled
               PROVE  Version(k) \in Range(to.out) \/ (to.stage = "walking" /\ k \in Ahead(to, w))
    BY DEF Kept
  <2>1. Version(k) \in Yielded \/ k \in Ahead(run, w)
    BY DEF Walked, Kept, Yielded
  <2>2. CASE Version(k) \in Yielded \/ k \in Range(new)
    BY <1>4, <2>2
  <2>3. CASE k \in Later(run)
    <3>1. CASE ~over
      BY <1>2, <1>7, <2>3, <3>1 DEF Ahead
    <3>2. CASE over /\ Len(run.left) > 1
      BY <1>2, <1>8, <2>3, <3>2 DEF Ahead
    <3> QED
      BY <1>1, <1>5, <1>6, <2>3, <3>1, <3>2
  <2>4. CASE k \in Range(run.pend) \cup Room(run, w)
    <3>1. CASE ~over /\ k \in Range(q.pend) \cup Room(q, w)
      BY <1>2, <1>7, <3>1 DEF Ahead
    <3> QED
      BY <2>2, <2>4, <3>1 DEF Covers
  <2> QED
    BY <2>1, <2>2, <2>3, <2>4 DEF Ahead
<1>11. Exact(to, w)
  <2> SUFFICES ASSUME Calm
               PROVE  /\ \A v \in Range(to.out) : \E k \in w : v = Version(k)
                      /\ Range(to.pend) \subseteq w
    BY DEF Exact
  <2>1. Range(new) \subseteq w /\ Range(q.pend) \subseteq w
    BY DEF Reads
  <2>2. \A v \in Yielded : \E k \in w : v = Version(k)
    BY DEF Walked, Exact, Yielded
  <2>3. \A v \in Range(to.out) : \E k \in w : v = Version(k)
    BY <1>4, <2>1, <2>2
  <2> QED
    BY <1>2, <2>1, <2>3
<1>12. Once(to)
  <2> SUFFICES ASSUME ~Counted
               PROVE  Sole(to.out)
    BY DEF Once
  <2>1. Sole(run.out) /\ IsInjective(new) /\ Range(new) \cap IdsOf(Range(run.out)) = {}
    BY DEF Walked, Once, ReadsOnce, Yielded
  <2>2. Sole(run.out \o VersionsOf(new))
    BY <1>1, <1>3, <2>1, SoleStays
  <2> QED
    BY <1>1, <1>2, <2>2
<1>13. Apart(to, w)
  <2> SUFFICES ASSUME to.stage = "walking", ~Remembers, ~Counted
               PROVE  /\ IsInjective(to.pend)
                      /\ IdsOf(Range(to.out)) \cap Ahead(to, w) = {}
                      /\ Range(to.pend) \cap Room(to, w) = {}
    BY DEF Apart
  <2>1. IdsOf(Yielded) \cap (Range(run.pend) \cup Room(run, w) \cup Later(run)) = {}
    BY DEF Walked, Apart, Ahead, Yielded
  <2>2. Range(new) \cap Later(run) = {}
    BY DEF ReadsOnce
  <2>3. CASE ~over
    <3>1. /\ IsInjective(q.pend)
          /\ Range(q.pend) \cup Room(q, w) \subseteq Range(run.pend) \cup Room(run, w)
          /\ Range(new) \cap (Range(q.pend) \cup Room(q, w)) = {}
          /\ Range(q.pend) \cap Room(q, w) = {}
      BY <2>3 DEF ReadsOnce
    <3>2. Ahead(to, w) = (Range(q.pend) \cup Room(q, w)) \cup Later(run)
      BY <1>2, <1>7, <2>3 DEF Ahead
    <3>3. to.pend = q.pend /\ Room(to, w) = Room(q, w)
      BY <1>2, <1>7, <2>3
    <3>4. IdsOf(Range(to.out)) \cap Ahead(to, w) = {}
      BY <1>4, <2>1, <2>2, <3>1, <3>2
    <3> QED
      BY <3>1, <3>3, <3>4
  <2>4. CASE over /\ Len(run.left) > 1
    <3>1. to.pend = <<>> /\ Range(to.pend) = {}
      BY <1>2, <2>4 DEF Range
    <3>2. Ahead(to, w) \subseteq Later(run)
      BY <1>8, <2>4, <3>1 DEF Ahead
    <3>3. IdsOf(Range(to.out)) \cap Ahead(to, w) = {}
      BY <1>4, <2>1, <2>2, <3>2
    <3>4. IsInjective(to.pend)
      BY <3>1 DEF IsInjective
    <3> QED
      BY <3>1, <3>3, <3>4
  <2>5. CASE over /\ Len(run.left) = 1
    BY <1>2, <2>5
  <2> QED
    BY <1>1, <1>6, <2>3, <2>4, <2>5
<1>14. Walked(to, w)
  BY <1>10, <1>11, <1>12, <1>13 DEF Walked
<1> QED
  BY <1>14 DEF to

(***************************************************************************)
(* What is asked for is what is wanted and not passed yet.                 *)
(***************************************************************************)
LEMMA WantedLive ==
  Wanted \in SUBSET Keys /\ Wanted \in SUBSET Live /\ Pulled \in SUBSET Live
BY DEF Wanted, Pulled, Live

\* A source of one scope is all here.
LEMMA OneScope ==
  ASSUME Plan = <<Unscoped>>
  PROVE  /\ Pulled = Live
         /\ Shaped /\ run.stage = "walking" => Here(run) = Keys /\ Scope = Unscoped
<1>1. Range(Plan) = {Unscoped} /\ InScope(Unscoped) = Keys
  BY DEF Range, InScope
<1>2. Pulled = Live
  BY <1>1 DEF Pulled, Live
<1>3. ASSUME Shaped, run.stage = "walking"
      PROVE  Here(run) = Keys /\ Scope = Unscoped
  <2>1. Head(run.left) \in Range(Plan)
    BY <1>3, ScopesApart
  <2> QED
    BY <1>1, <2>1 DEF Here, Scope
<1> QED
  BY <1>2, <1>3

\* What an incremental run asks for by stamp is due.
LEMMA StampsDue ==
  ASSUME Shaped, connector.name \notin {BisTrack, Essbase}, NEW k \in Live
  PROVE  Due(k) <=> erp[k] > Since(Unscoped)
BY DEF Due, Filters, Since, Live

LEMMA StampsAsked ==
  ASSUME Shaped, connector.name \notin {BisTrack, Essbase}
  PROVE  Wanted = Pulled \cap Newer(Since(Unscoped))
<1>1. Pulled \in SUBSET Live
  BY WantedLive
<1>2. \A k \in Pulled : Due(k) <=> k \in Newer(Since(Unscoped))
  BY <1>1, StampsDue DEF Newer
<1> QED
  BY <1>2 DEF Wanted

LEMMA OneScopeAsked ==
  ASSUME Shaped, run.stage = "walking",
         connector.name \in {Eclipse, Netsuite, P21, CloudPages, CloudLinks, LegacySql}
  PROVE  /\ Wanted = Newer(Since(Unscoped)) /\ Here(run) = Keys
         /\ Wanted \cap Here(run) = Newer(Since(Unscoped))
<1>1. Plan = <<Unscoped>>
  BY DEF Plan
<1>2. Pulled = Live /\ Here(run) = Keys
  BY <1>1, OneScope
<1>3. Wanted = Pulled \cap Newer(Since(Unscoped))
  BY StampsAsked
<1>4. Newer(Since(Unscoped)) \in SUBSET Live /\ Live \in SUBSET Keys
  BY DEF Newer, Live
<1> QED
  BY <1>2, <1>3, <1>4

\* Where a source has scopes, a stamp and a scope are asked for.
LEMMA ScopeAsked ==
  ASSUME Shaped, run.stage = "walking", connector.name \in {Agility, BusinessCentral}
  PROVE  Newer(Since(Unscoped)) \cap InScope(Scope) = Wanted \cap Here(run)
<1>1. Wanted = Pulled \cap Newer(Since(Unscoped))
  BY StampsAsked
<1>2. Newer(Since(Unscoped)) \subseteq Live
  BY DEF Newer
<1>3. Head(run.left) \in Range(Plan)
  BY ScopesApart
<1> QED
  BY <1>1, <1>2, <1>3 DEF Pulled, Here, Scope

LEMMA AgilityAsks ==
  ASSUME Shaped, Walking(Agility)
  PROVE  AgilityAsked = Listed(Wanted \cap Here(run))
BY ScopeAsked DEF AgilityAsked, Walking

LEMMA EssbaseAsks ==
  ASSUME Shaped, Walking(Essbase)
  PROVE  Wanted \cap Here(run) = Live
<1>1. connector.name = Essbase /\ run.stage = "walking"
  BY DEF Walking
<1>2. Plan = <<Unscoped>>
  BY <1>1 DEF Plan
<1>3. Pulled = Live /\ Here(run) = Keys
  BY <1>1, <1>2, OneScope
<1>4. Wanted = Pulled
  BY <1>1 DEF Wanted, Due, Filters
<1> QED
  BY <1>3, <1>4 DEF Live

LEMMA LinksAsk ==
  ASSUME Shaped, run.stage = "walking"
  PROVE  /\ connector.name = CloudLinks /\ ~run.deaf =>
              After(Newer(Since(Unscoped)), Offset(run.pos)) = Wanted \cap Room(run, Wanted)
         /\ connector.name = BusinessCentral /\ run.pos = 0 =>
              BcAsked \cap InScope(Scope) = Wanted \cap Room(run, Wanted)
<1>1. ASSUME connector.name = CloudLinks, ~run.deaf
      PROVE  After(Newer(Since(Unscoped)), Offset(run.pos)) = Wanted \cap Room(run, Wanted)
  <2>1. Wanted = Newer(Since(Unscoped)) /\ Here(run) = Keys
    BY <1>1, OneScopeAsked
  <2>2. Wanted \in SUBSET Keys
    BY WantedLive
  <2>3. \A k : Beyond(run, k) <=> run.pos = 0 \/ Place[run.pos] < Place[k]
    BY <1>1 DEF Beyond
  <2>4. Room(run, Wanted) = {k \in Keys : run.pos = 0 \/ Place[run.pos] < Place[k]}
    BY <1>1, <2>1, <2>3 DEF Room, Keyset
  <2> QED
    BY <1>1, <2>1, <2>2, <2>4 DEF After, Offset
<1>2. ASSUME connector.name = BusinessCentral, run.pos = 0
      PROVE  BcAsked \cap InScope(Scope) = Wanted \cap Room(run, Wanted)
  <2>1. BcAsked = Newer(Since(Unscoped))
    BY <1>2 DEF BcAsked, Continued
  <2>2. \A k : Beyond(run, k)
    BY <1>2 DEF Beyond
  <2>3. Room(run, Wanted) = Here(run)
    BY <1>2, <2>2 DEF Room, Keyset
  <2> QED
    BY <1>2, <2>1, <2>3, ScopeAsked
<1> QED
  BY <1>1, <1>2


LEMMA ScansAsk ==
  ASSUME Shaped, Walking(BisTrack)
  PROVE  BisTrackAsked = Wanted \cap Room(run, Wanted)
<1>1. connector.name = BisTrack /\ run.stage = "walking"
  BY DEF Walking
<1>2. Plan = ScanPlan /\ Scope \in Range(ScanPlan) /\ Head(run.left) = Scope
  BY <1>1, BisTrackRowsOK DEF Plan, Scope
<1>3. Room(run, Wanted) = {k \in InScope(Scope) : run.pos < Number[k]}
  <2>1. \A k : Beyond(run, k) <=> run.pos < Number[k]
    BY <1>1 DEF Beyond
  <2> QED
    BY <1>1, <1>2, <2>1 DEF Room, Keyset, Here
<1>4. \A k \in Live \cap InScope(Scope) : Due(k) <=> Number[k] > Since(Scope)
  <2> SUFFICES ASSUME NEW k \in Live, k \in InScope(Scope)
               PROVE  Due(k) <=> Number[k] > Since(Scope)
    OBVIOUS
  <2>1. Number[k] > 0
    BY QueryAssumption DEF Live
  <2>2. TypeMark(k) = mark[Scope]
    <3>1. CASE DocumentTypes = <<>>
      <4>1. Scope = Unscoped
        BY <1>2, <3>1 DEF ScanPlan, Range
      <4> QED
        BY <3>1, <4>1 DEF TypeMark
    <3>2. CASE DocumentTypes # <<>>
      <4>1. Scope \in Range(DocumentTypes)
        BY <1>2, <3>2 DEF ScanPlan
      <4>2. Scope # Unscoped
        BY <4>1, ExtractionAssumption, QueryAssumption DEF Range
      <4>3. ScopeOf[k] = Scope
        BY <4>2 DEF InScope
      <4> QED
        BY <3>2, <4>3 DEF TypeMark
    <3> QED
      BY <3>1, <3>2
  <2>4. CASE run.walk = "incremental" /\ Filterable
    BY <1>1, <2>2, <2>4 DEF Due, Filters, Since
  <2>5. CASE ~(run.walk = "incremental" /\ Filterable)
    BY <2>1, <2>5 DEF Due, Filters, Since
  <2> QED
    BY <2>4, <2>5
<1>5. Wanted \cap InScope(Scope) = {k \in Live \cap InScope(Scope) : Number[k] > Since(Scope)}
  BY <1>2, <1>4 DEF Wanted, Pulled
<1>6. \A k \in Keys : Number[k] > run.pos <=> run.pos < Number[k]
  BY QueryAssumption DEF Shaped, TypeOK, Runs
<1>7. Live \in SUBSET Keys
  BY DEF Live
<1> QED
  BY <1>3, <1>5, <1>6, <1>7 DEF BisTrackAsked

(***************************************************************************)
(* The kinds of turns.                                                     *)
(***************************************************************************)
LEMMA InOneScope ==
  ASSUME Shaped, run.stage = "walking", Plan = <<Unscoped>>
  PROVE  Len(run.left) = 1 /\ ~(Len(run.left) > 1) /\ Later(run) = {}
<1>1. /\ run.left # <<>> /\ Range(run.left) \subseteq Range(Plan)
      /\ Unscoped \in Range(run.left) => Len(run.left) = 1
      /\ run.left \in Seq(AllScopes)
  BY DEF Shaped, WalkOK, TypeOK, Runs
<1>2. Head(run.left) \in Range(run.left) /\ Len(run.left) \in Nat \ {0}
  BY <1>1, HeadAndTail
<1>3. Range(Plan) = {Unscoped}
  BY DEF Range
<1>4. Len(run.left) = 1
  BY <1>1, <1>2, <1>3
<1>5. ~(Len(run.left) > 1)
  BY <1>2, <1>4, OneOrMore, Zenon
<1> QED
  BY <1>4, <1>5, ScopesApart

\* What a walk has yielded of an ERP that stands still it need not yield again.
LEMMA SeenIsYielded ==
  ASSUME NEW w, Walked(run, w), Calm, NEW k \in IdsOf(Yielded)
  PROVE  Version(k) \in Yielded
<1>1. PICK v \in Yielded : v[1] = k
  BY DEF IdsOf
<1>2. PICK j \in w : v = Version(j)
  BY <1>1 DEF Walked, Exact, Yielded
<1>3. v[1] = j
  BY <1>2 DEF Version
<1> QED
  BY <1>1, <1>2, <1>3

\* Walks that remember what they yielded.
Moves(ids, q, over, w) ==
  Calm =>
    /\ ids \subseteq w /\ Range(q.pend) \subseteq w
    /\ \A k \in w : k \in Range(run.pend) \cup Room(run, w) =>
         k \in ids \/ (~over /\ k \in Range(q.pend) \cup Room(q, w))

LEMMA RememberedTurnKeeps ==
  ASSUME Shaped, run.stage = "walking", Remembers, NEW w \in SUBSET Keys, Walked(run, w),
         NEW q, NEW new, NEW over, Turns(q, new, over), Holds(q, over), NEW ids,
         IsInjective(new), Range(new) = ids \ IdsOf(Yielded), Moves(ids, q, over, w)
  PROVE  Walked(run', w)
<1>1. ~Keyset
  BY DEF Remembers, Keyset
<1>2. Settled # {} => Calm
  BY <1>1 DEF Settled
<1>3. Covers(q, new, over, w)
  BY <1>2, SeenIsYielded DEF Covers, Moves
<1>4. Reads(q, new, w)
  BY DEF Reads, Moves
<1>5. ReadsOnce(q, new, over, w)
  BY DEF ReadsOnce, Moves
<1> QED
  BY <1>3, <1>4, <1>5, TurnKeeps

\* The rows that a walk by the count of the rows takes.
Leaves(ids, n, size, rows, q, w) ==
  /\ IsInjective(rows) /\ Range(rows) \subseteq w
  /\ Room(run, w) = Range(rows) \cup Below(ids, n + size)
  /\ Range(rows) \cap Below(ids, n + size) = {}
  /\ ~q.last /\ Reached(q) \in {n + size, n + Len(rows)} => Room(q, w) = Below(ids, n + size)

LEMMA CountedRows ==
  ASSUME NEW w, NEW ids \in SUBSET Keys, ids \subseteq w, NEW n \in Nat,
         NEW size \in Nat \ {0}, NEW rows, rows = Page(Listed(ids), n, size), NEW q,
         Room(run, w) = Below(ids, n), ~q.last => Room(q, w) = Below(ids, Reached(q))
  PROVE  Leaves(ids, n, size, rows, q, w)
<1>0. Splits(ids, n, size, rows)
  BY PageSplits
<1>1. IsInjective(rows) /\ Range(rows) \subseteq ids
  BY <1>0 DEF Splits
<1>2. Range(rows) \cap Below(ids, n + size) = {}
  BY <1>0 DEF Splits
<1>3. \A k \in Below(ids, n) : k \in Range(rows) \/ k \in Below(ids, n + size)
  BY <1>0 DEF Splits
<1>4. \A k \in Below(ids, n + size) : k \in Below(ids, n)
  BY <1>0 DEF Splits
<1>5. \A k \in Range(rows) : k \in Below(ids, n)
  BY <1>0 DEF Splits
<1>6. \A k \in Below(ids, n + size) : k \in Below(ids, n + Len(rows))
  BY <1>0 DEF Splits
<1>7. \A k \in Below(ids, n + Len(rows)) : k \in Below(ids, n + size)
  BY <1>0 DEF Splits
<1>8. Below(ids, n) = Range(rows) \cup Below(ids, n + size)
  BY <1>3, <1>4, <1>5
<1>9. Below(ids, n + Len(rows)) = Below(ids, n + size)
  BY <1>6, <1>7
<1> QED
  BY <1>1, <1>2, <1>8, <1>9 DEF Leaves

\* Walks by the count of the rows: the rows of a page are records or headers ...
Takes(q, new, over, rows, ends) ==
  /\ (new = rows /\ q.pend = <<>>) \/ (new = <<>> /\ q.pend = rows)
  /\ over <=> ends /\ q.pend = <<>>
  /\ q.last = ends \/ (q.last = FALSE /\ q.pend = <<>>)

\* ... and the next page begins where they end.
Counts(rows, ends, q, w, size) ==
  Calm =>
    /\ rows = Page(Listed(w \cap Here(run)), Reached(run), size)
    /\ ends => Below(w \cap Here(run), Reached(run) + size) = {}
    /\ ~ends => Reached(q) \in {Reached(run) + size, Reached(run) + Len(rows)}

LEMMA CountingTurnKeeps ==
  ASSUME Shaped, run.stage = "walking", Counting, NEW w \in SUBSET Keys, Walked(run, w),
         NEW q, NEW new, NEW over, Turns(q, new, over), NEW rows, NEW ends \in BOOLEAN,
         NEW size \in Nat \ {0},
         run.pend = <<>>, run.last = FALSE, Takes(q, new, over, rows, ends),
         Counts(rows, ends, q, w, size)
  PROVE  Walked(run', w)
<1> USE DEF Takes, Counts
<1> DEFINE rest == Below(w \cap Here(run), Reached(run) + size)
<1>1. ~Keyset /\ Plan = <<Unscoped>> /\ ~Remembers
  BY DEF Counting, Keyset, Plan, Remembers
<1>2. Len(run.left) = 1 /\ ~(Len(run.left) > 1) /\ Later(run) = {}
  BY <1>1, InOneScope
<1>3. Settled # {} => Calm
  BY <1>1 DEF Settled
<1>4. ~Counted => Calm
  BY DEF Counted, Calm
<1>5. run.pos \in Nat
  BY DEF Shaped, TypeOK, Runs
<1>6. Range(<<>>) = {} /\ IsInjective(<<>>)
  BY DEF Range, IsInjective
<1> DEFINE ids == w \cap Here(run)
           n == Reached(run)
<1>7. ASSUME Calm
      PROVE  /\ IsInjective(rows) /\ Range(rows) \subseteq w
             /\ Room(run, w) = Range(rows) \cup rest /\ Range(rows) \cap rest = {}
             /\ ends => rest = {}
             /\ ~over => Room(q, w) = rest
  <2>1. /\ ids \in SUBSET Keys /\ ids = w \cap Here(run) /\ n \in Nat /\ n = Reached(run)
        /\ rest = Below(ids, n + size)
    BY <1>5, ReachedOK
  <2>2. /\ rows = Page(Listed(ids), n, size) /\ (ends => rest = {})
        /\ ~ends => Reached(q) \in {n + size, n + Len(rows)}
    BY <1>7
  <2>3. ids \subseteq w /\ Room(run, w) = Below(ids, n) /\ (~q.last => Room(q, w) = Below(ids, Reached(q)))
    <3>1. ~run.last /\ q.left = run.left
      BY DEF Turns
    <3> QED
      BY <1>1, <3>1 DEF Room, Here
  <2> HIDE DEF rest, ids, n
  <2>3a. Leaves(ids, n, size, rows, q, w)
    BY <2>1, <2>2, <2>3, CountedRows
  <2>4. /\ IsInjective(rows) /\ Range(rows) \subseteq w
        /\ Room(run, w) = Range(rows) \cup Below(ids, n + size)
        /\ Range(rows) \cap Below(ids, n + size) = {}
        /\ ~q.last /\ Reached(q) \in {n + size, n + Len(rows)} =>
             Room(q, w) = Below(ids, n + size)
    BY <2>3a DEF Leaves
  <2>5. ASSUME ~ends
        PROVE  Room(q, w) = rest
    BY <2>1, <2>2, <2>4, <2>5
  <2>6. ASSUME ends, ~over
        PROVE  Room(q, w) = rest
    BY <1>1, <2>2, <2>6 DEF Room
  <2> QED
    BY <2>1, <2>2, <2>4, <2>5, <2>6
<1> HIDE DEF rest
<1>8. Range(run.pend) = {}
  BY <1>6
<1>9. Covers(q, new, over, w)
  <2> SUFFICES ASSUME NEW k \in w \cap Settled, k \in Range(run.pend) \cup Room(run, w)
               PROVE  \/ k \in Range(new) \/ Version(k) \in Yielded
                      \/ ~over /\ k \in Range(q.pend) \cup Room(q, w)
    BY DEF Covers
  <2>1. k \in Range(rows) \/ k \in rest
    BY <1>3, <1>7, <1>8
  <2>2. Calm
    BY <1>3
  <2>3. CASE k \in Range(rows)
    <3>1. CASE new = rows
      BY <2>3, <3>1
    <3>2. CASE q.pend = rows
      <4>1. q.pend # <<>>
        BY <1>6, <2>3, <3>2
      <4> QED
        BY <2>3, <3>2, <4>1
    <3> QED
      BY <3>1, <3>2
  <2>4. CASE k \in rest
    <3>1. ~ends /\ ~over
      BY <1>7, <2>2, <2>4
    <3> QED
      BY <1>7, <2>2, <2>4, <3>1
  <2> QED
    BY <2>1, <2>3, <2>4
<1>10. Reads(q, new, w)
  BY <1>6, <1>7 DEF Reads
<1>11. ReadsOnce(q, new, over, w)
  <2> SUFFICES ASSUME ~Counted
               PROVE  /\ IsInjective(new) /\ Range(new) \cap IdsOf(Yielded) = {}
                      /\ Range(new) \cap Later(run) = {}
                      /\ ~over =>
                           /\ IsInjective(q.pend)
                           /\ Range(q.pend) \cup Room(q, w) \subseteq Range(run.pend) \cup Room(run, w)
                           /\ Range(new) \cap (Range(q.pend) \cup Room(q, w)) = {}
                           /\ Range(q.pend) \cap Room(q, w) = {}
    BY DEF ReadsOnce
  <2>1. Calm
    BY <1>4
  <2>2. IsInjective(new) /\ IsInjective(q.pend) /\ Range(new) \cup Range(q.pend) = Range(rows)
    BY <1>6, <1>7, <2>1
  <2>3. IdsOf(Yielded) \cap Room(run, w) = {}
    BY <1>1 DEF Walked, Apart, Ahead, Yielded
  <2>4. Range(new) \cap Range(q.pend) = {}
    BY <1>6
  <2>5. CASE ~over
    BY <1>2, <1>7, <2>1, <2>2, <2>3, <2>4, <2>5
  <2>6. CASE over
    BY <1>2, <1>7, <2>1, <2>2, <2>3, <2>6
  <2> QED
    BY <2>5, <2>6
<1>12. Holds(q, over)
  BY <1>2 DEF Holds
<1> QED
  BY <1>9, <1>10, <1>11, <1>12, TurnKeeps

\* The lines or cubes of the next header.
LEMMA DetailTurnKeeps ==
  ASSUME Shaped, run.stage = "walking", connector.name \in {P21, Essbase}, run.pend # <<>>,
         NEW w \in SUBSET Live, Walked(run, w), NEW q, NEW new,
         Turns(q, new, run.last /\ Tail(run.pend) = <<>>),
         q.pend = Tail(run.pend), q.pos = run.pos, q.last = run.last,
         Range(new) = {Head(run.pend)} \cap Live, IsInjective(new)
  PROVE  Walked(run', w)
<1> DEFINE over == run.last /\ Tail(run.pend) = <<>>
<1>1. Counting /\ Plan = <<Unscoped>> /\ ~Remembers /\ ~Keyset
  BY DEF Counting, Plan, Remembers, Keyset
<1>2. Len(run.left) = 1 /\ ~(Len(run.left) > 1) /\ Later(run) = {}
  BY <1>1, InOneScope
<1>3. run.pend \in Seq(Keys)
  BY PendingHead
<1>4. /\ Range(run.pend) = {Head(run.pend)} \cup Range(Tail(run.pend))
      /\ IsInjective(run.pend) =>
           IsInjective(Tail(run.pend)) /\ Head(run.pend) \notin Range(Tail(run.pend))
  BY <1>3, HeadAndTail
<1>5. q.left = run.left /\ q.deaf = run.deaf
  BY DEF Turns
<1>6. Room(q, w) = Room(run, w)
  BY <1>5, SamePlace
<1>7. run.last => Room(run, w) = {}
  BY <1>1 DEF Room
<1>8. Range(<<>>) = {}
  BY DEF Range
<1>9. w \in SUBSET Keys
  BY DEF Live
<1>10. Covers(q, new, over, w)
  <2> SUFFICES ASSUME NEW k \in w, k \in Range(run.pend) \cup Room(run, w)
               PROVE  k \in Range(new) \/ (~over /\ k \in Range(q.pend) \cup Room(q, w))
    BY DEF Covers
  <2>1. CASE k = Head(run.pend)
    BY <2>1
  <2>2. CASE k \in Range(Tail(run.pend))
    BY <1>8, <2>2
  <2>3. CASE k \in Room(run, w)
    BY <1>6, <1>7, <2>3
  <2> QED
    BY <1>4, <2>1, <2>2, <2>3
<1>11. Reads(q, new, w)
  BY <1>4 DEF Reads, Walked, Exact
<1>12. ReadsOnce(q, new, over, w)
  <2>1. Range(new) \cap Later(run) = {}
    BY <1>2
  <2>2. ASSUME ~Counted
        PROVE  /\ Range(new) \cap IdsOf(Yielded) = {}
               /\ IsInjective(q.pend)
               /\ Range(q.pend) \cup Room(q, w) \subseteq Range(run.pend) \cup Room(run, w)
               /\ Range(new) \cap (Range(q.pend) \cup Room(q, w)) = {}
               /\ Range(q.pend) \cap Room(q, w) = {}
    <3>1. /\ IsInjective(run.pend)
          /\ IdsOf(Yielded) \cap (Range(run.pend) \cup Room(run, w)) = {}
          /\ Range(run.pend) \cap Room(run, w) = {}
      BY <1>1, <2>2 DEF Walked, Apart, Ahead, Yielded
    <3> QED
      BY <1>4, <1>6, <3>1
  <2> HIDE DEF over
  <2> QED
    BY <2>1, <2>2, Zenon DEF ReadsOnce
<1>13. Holds(q, over)
  BY <1>2 DEF Holds
<1>14. Turns(q, new, over)
  OBVIOUS
<1> HIDE DEF over
<1> QED
  BY <1>9, <1>10, <1>11, <1>12, <1>13, <1>14, TurnKeeps

\* Keyset walks, on after the last row.
LEMMA KeysetTurnKeeps ==
  ASSUME Shaped, run.stage = "walking", Keyset, NEW w \in SUBSET Keys, Walked(run, w),
         NEW q, NEW new, NEW over, Turns(q, new, over), q.pend = run.pend, q.last = run.last,
         NEW asked, asked = w \cap Room(run, w),
         Range(new) \subseteq asked, IsInjective(new), over => asked \subseteq Range(new),
         ~over => \A k \in Here(run) :
           /\ Beyond(q, k) => Beyond(run, k) /\ k \notin Range(new)
           /\ k \in asked => k \in Range(new) \/ Beyond(q, k)
  PROVE  Walked(run', w)
<1>1. ~HasDetails /\ ~Counting /\ ~Remembers
  BY DEF HasDetails, Detailed, Counting, Remembers, Keyset
<1>2. run.pend = <<>> /\ ~run.last
  BY <1>1 DEF Shaped, WalkOK
<1>3. q.left = run.left
  BY DEF Turns
<1>4. Room(q, w) = {k \in Here(run) : Beyond(q, k)} /\ Room(run, w) = {k \in Here(run) : Beyond(run, k)}
  BY <1>3 DEF Room, Here
<1>5. Range(q.pend) = {} /\ IsInjective(q.pend) /\ Range(run.pend) = {}
  BY <1>2 DEF Range, IsInjective
<1>6. Here(run) \cap Later(run) = {}
  BY ScopesApart
<1>7. Covers(q, new, over, w)
  BY <1>4, <1>5 DEF Covers
<1>8. Reads(q, new, w)
  BY <1>5 DEF Reads
<1>9. ReadsOnce(q, new, over, w)
  <2>1. ~Counted
    BY <1>1 DEF Counted
  <2>2. IdsOf(Yielded) \cap Room(run, w) = {}
    BY <1>1, <2>1 DEF Walked, Apart, Ahead, Yielded
  <2>3. Range(new) \cap Later(run) = {}
    BY <1>4, <1>6
  <2>4. ~over => Range(new) \cap Room(q, w) = {}
    BY <1>4
  <2>5. Range(new) \cap IdsOf(Yielded) = {}
    BY <2>2
  <2>7. /\ Range(q.pend) \cap Room(q, w) = {}
        /\ ~over => Range(q.pend) \cup Room(q, w) \subseteq Range(run.pend) \cup Room(run, w)
        /\ ~over => Range(new) \cap (Range(q.pend) \cup Room(q, w)) = {}
    BY <1>4, <1>5, <2>4
  <2> QED
    BY <1>1, <1>5, <2>3, <2>4, <2>5, <2>7, Zenon DEF ReadsOnce
<1>10. Holds(q, over)
  <2>1. q.last = FALSE
    BY <1>2 DEF Shaped, TypeOK, Runs
  <2> QED
    BY <1>2, <2>1 DEF Holds
<1> QED
  BY <1>7, <1>8, <1>9, <1>10, TurnKeeps
(***************************************************************************)
(* Walks that remember what they yielded.                                  *)
(***************************************************************************)
\* A walk without headers to read on.
LEMMA NoHeaders ==
  ASSUME Shaped, run.stage = "walking", run.pend = <<>> \/ ~HasDetails
  PROVE  run.pend = <<>> /\ Range(run.pend) = {} /\ ~run.last /\ run.last = FALSE
<1>1. run.pend = <<>> /\ ~run.last /\ run.last \in BOOLEAN
  BY DEF Shaped, TypeOK, Runs, WalkOK
<1> QED
  BY <1>1 DEF Range

\* An Eclipse page is a window of what is wanted, and the next one goes on there.
LEMMA EclipseMoves ==
  ASSUME Shaped, Walking(Eclipse), NEW ids \in SUBSET Keys, EclipseAsked = Listed(ids),
         NEW q, q.pos = run.pos + 1, q.deaf = run.deaf
  PROVE  /\ Range(EclipseRows) \subseteq ids
         /\ Below(ids, Reached(run)) \subseteq Range(EclipseRows) \cup Below(ids, Reached(q))
         /\ Len(EclipseRows) < PageSize => Below(ids, Reached(q)) = {}
         /\ EclipseRows = <<>> => Below(ids, Reached(run)) = {}
<1> DEFINE rows == EclipseRows
           n == IF run.deaf THEN 0 ELSE run.pos * PageSize
<1>1. connector.name = Eclipse /\ run.pos \in Nat /\ PageSize \in Nat \ {0}
  BY ExtractionAssumption DEF Walking, Shaped, TypeOK, Runs
<1>2. run.pos * PageSize \in Nat /\ n \in Nat
  BY <1>1
<1>3. (run.pos + 1) * PageSize = run.pos * PageSize + PageSize
  BY <1>1, ReachedOK
<1>4. rows = Window(Listed(ids), n)
  BY DEF EclipseRows, Offset
<1>5. Reached(q) = n + PageSize
  BY <1>1, <1>2, <1>3 DEF Reached
<1>6. Reached(run) = n \/ Reached(run) = n + PageSize
  BY <1>1, <1>2 DEF Reached
<1> HIDE DEF n, rows
<1>7. Range(rows) \subseteq ids
  BY <1>2, <1>4, WindowSplits
<1>8. \A k \in Below(ids, n) : k \in Range(rows) \/ k \in Below(ids, n + PageSize)
  BY <1>2, <1>4, WindowSplits
<1>9. Len(rows) < PageSize => Below(ids, n + PageSize) = {}
  BY <1>2, <1>4, WindowSplits
<1>10. rows = <<>> => Below(ids, n) = {}
  BY <1>2, <1>4, WindowSplits
<1>11. rows = <<>> => Len(rows) < PageSize
  BY <1>1
<1>12. /\ Below(ids, Reached(run)) \subseteq Range(rows) \cup Below(ids, Reached(q))
       /\ rows = <<>> => Below(ids, Reached(run)) = {}
  <2>1. CASE Reached(run) = n
    BY <1>5, <1>8, <1>10, <2>1
  <2>2. CASE Reached(run) = n + PageSize
    BY <1>5, <1>9, <1>11, <2>2
  <2> QED
    BY <1>6, <2>1, <2>2
<1> QED
  BY <1>5, <1>7, <1>9, <1>12 DEF rows

LEMMA EclipseAsks ==
  ASSUME Shaped, Walking(Eclipse)
  PROVE  /\ EclipseAsked = Listed(Wanted \cap Here(run)) /\ Wanted \cap Here(run) \in SUBSET Keys
         /\ ~Keyset /\ Remembers
<1>1. connector.name = Eclipse /\ run.stage = "walking"
  BY DEF Walking
<1>2. Wanted \cap Here(run) = Newer(Since(Unscoped))
  BY <1>1, OneScopeAsked
<1> QED
  BY <1>1, <1>2, WantedLive DEF EclipseAsked, Keyset, Remembers

LEMMA EclipsePageKeeps ==
  ASSUME Shaped, EclipsePage, Walked(run, Wanted)
  PROVE  Walked(run', Wanted)
<1> DEFINE ids == Wanted \cap Here(run)
<1>1. Walking(Eclipse) /\ run.stage = "walking" /\ ~HasDetails
  BY DEF EclipsePage, Walking, HasDetails
<1>2. PICK q : /\ Turns(q, Unseen(EclipseRows), Len(EclipseRows) < PageSize)
               /\ q.pos = run.pos + 1 /\ q.pend = run.pend /\ q.last = run.last
  BY EclipsePageTurns
<1>3. run.pend = <<>> /\ Range(run.pend) = {} /\ ~run.last /\ run.last = FALSE
  BY <1>1, NoHeaders
<1>4. EclipseAsked = Listed(ids) /\ ids \in SUBSET Keys /\ ~Keyset /\ Remembers
  BY <1>1, EclipseAsks
<1>5. q.deaf = run.deaf /\ q.left = run.left
  BY <1>2 DEF Turns
<1>6. Room(run, Wanted) = Below(ids, Reached(run)) /\ Room(q, Wanted) = Below(ids, Reached(q))
  BY <1>2, <1>3, <1>4, <1>5 DEF Room, Here
<1>7. /\ Range(EclipseRows) \subseteq ids
      /\ Below(ids, Reached(run)) \subseteq Range(EclipseRows) \cup Below(ids, Reached(q))
      /\ Len(EclipseRows) < PageSize => Below(ids, Reached(q)) = {}
  <2> HIDE DEF ids
  <2> QED
    BY <1>1, <1>2, <1>4, <1>5, EclipseMoves
<1>8. EclipseRows \in Seq(Live)
  BY EclipseRowsOK
<1>9. IsInjective(Unseen(EclipseRows)) /\ Range(Unseen(EclipseRows)) = Range(EclipseRows) \ IdsOf(Yielded)
  BY <1>8, UnseenRows
<1>10. Holds(q, Len(EclipseRows) < PageSize)
  BY <1>2, <1>3 DEF Holds
<1> DEFINE over == Len(EclipseRows) < PageSize
           new == Unseen(EclipseRows)
           rows == Range(EclipseRows)
<1>11. /\ rows \subseteq Wanted /\ Range(q.pend) \subseteq Wanted
       /\ \A k \in Wanted : k \in Range(run.pend) \cup Room(run, Wanted) =>
            k \in rows \/ (~over /\ k \in Range(q.pend) \cup Room(q, Wanted))
  BY <1>2, <1>3, <1>6, <1>7
<1>13. Moves(rows, q, over, Wanted)
  BY <1>11 DEF Moves
<1>12. Turns(q, new, over) /\ Holds(q, over) /\ IsInjective(new) /\ Range(new) = rows \ IdsOf(Yielded)
  BY <1>2, <1>9, <1>10
<1> HIDE DEF over, new, rows
<1> QED
  BY <1>1, <1>4, <1>12, <1>13, WantedLive, RememberedTurnKeeps

LEMMA EclipseHeadersKeep ==
  ASSUME Shaped, EclipseHeaders, Walked(run, Wanted)
  PROVE  Walked(run', Wanted)
<1> DEFINE ids == Wanted \cap Here(run)
           new == <<>>
           over == EclipseRows = <<>>
           none == {}
<1>1. Walking(Eclipse) /\ run.stage = "walking" /\ run.pend = <<>>
  BY DEF EclipseHeaders, Walking
<1>2. PICK q : /\ Turns(q, new, over)
               /\ q.pos = run.pos + 1 /\ q.pend = EclipseRows
               /\ q.last = (Len(EclipseRows) < PageSize)
  BY EclipseHeadersTurns
<1>3. Range(run.pend) = {} /\ ~run.last
  BY <1>1, NoHeaders
<1>4. EclipseAsked = Listed(ids) /\ ids \in SUBSET Keys /\ ~Keyset /\ Remembers
  BY <1>1, EclipseAsks
<1>5. q.deaf = run.deaf /\ q.left = run.left
  BY <1>2 DEF Turns
<1>6. /\ Room(run, Wanted) = Below(ids, Reached(run))
      /\ ~q.last => Room(q, Wanted) = Below(ids, Reached(q))
  BY <1>3, <1>4, <1>5 DEF Room, Here
<1>7. /\ Range(EclipseRows) \subseteq ids
      /\ Below(ids, Reached(run)) \subseteq Range(EclipseRows) \cup Below(ids, Reached(q))
      /\ Len(EclipseRows) < PageSize => Below(ids, Reached(q)) = {}
      /\ EclipseRows = <<>> => Below(ids, Reached(run)) = {}
  <2> HIDE DEF ids
  <2> QED
    BY <1>1, <1>2, <1>4, <1>5, EclipseMoves
<1>8. Range(new) = none \ IdsOf(Yielded) /\ IsInjective(new)
  BY DEF Range, IsInjective
<1>9. Len(run.left) = 1 /\ ~(Len(run.left) > 1)
  <2>1. Plan = <<Unscoped>>
    BY <1>1 DEF Plan, Walking
  <2> QED
    BY <1>1, <2>1, InOneScope
<1>10. Holds(q, over)
  BY <1>9 DEF Holds
<1>11. /\ none \subseteq Wanted /\ Range(q.pend) \subseteq Wanted
       /\ \A k \in Wanted : k \in Range(run.pend) \cup Room(run, Wanted) =>
            k \in none \/ (~over /\ k \in Range(q.pend) \cup Room(q, Wanted))
  BY <1>2, <1>3, <1>6, <1>7
<1>12. Moves(none, q, over, Wanted)
  BY <1>11 DEF Moves
<1> HIDE DEF over, new, none
<1> QED
  BY <1>1, <1>2, <1>4, <1>8, <1>10, <1>12, WantedLive, RememberedTurnKeeps

LEMMA EclipseDetailKeeps ==
  ASSUME Shaped, EclipseDetail, Head(run.pend) \in Live, Walked(run, Wanted)
  PROVE  Walked(run', Wanted)
<1> DEFINE new == Unseen(<<Head(run.pend)>>)
           over == run.last /\ Tail(run.pend) = <<>>
           ids == {Head(run.pend)}
<1>1. Walking(Eclipse) /\ run.stage = "walking" /\ run.pend # <<>>
  BY DEF EclipseDetail, Walking
<1>2. PICK q : /\ Turns(q, new, over)
               /\ q.pos = run.pos /\ q.pend = Tail(run.pend) /\ q.last = run.last
  BY EclipseDetailTurns
<1>3. ~Keyset /\ Remembers
  BY <1>1, EclipseAsks
<1>4. Range(run.pend) = {Head(run.pend)} \cup Range(Tail(run.pend))
  BY <1>1, PendingHead, HeadAndTail
<1>5. Room(q, Wanted) = Room(run, Wanted)
  <2>1. q.deaf = run.deaf /\ q.left = run.left
    BY <1>2 DEF Turns
  <2> QED
    BY <1>2, <2>1, SamePlace
<1>6. run.last => Room(run, Wanted) = {}
  BY <1>3 DEF Room
<1>7. IsInjective(new) /\ Range(new) = ids \ IdsOf(Yielded)
  <2>1. <<Head(run.pend)>> \in Seq(Live) /\ Range(<<Head(run.pend)>>) = ids
    BY DEF Range
  <2> QED
    BY <2>1, UnseenRows
<1>8. Holds(q, over)
  <2>1. Plan = <<Unscoped>>
    BY <1>1 DEF Plan, Walking
  <2> QED
    BY <1>1, <2>1, InOneScope DEF Holds
<1>9. Range(<<>>) = {}
  BY DEF Range
<1>10. Calm =>
         /\ ids \subseteq Wanted /\ Range(q.pend) \subseteq Wanted
         /\ \A k \in Wanted : k \in Range(run.pend) \cup Room(run, Wanted) =>
              k \in ids \/ (~over /\ k \in Range(q.pend) \cup Room(q, Wanted))
  <2>1. Calm => Range(run.pend) \subseteq Wanted
    BY DEF Walked, Exact
  <2>2. ASSUME NEW k \in Range(Tail(run.pend))
        PROVE  ~over
    BY <1>9, <2>2
  <2>3. ASSUME NEW k \in Room(run, Wanted)
        PROVE  ~over
    BY <1>6, <2>3
  <2> HIDE DEF over
  <2> QED
    BY <1>2, <1>4, <1>5, <2>1, <2>2, <2>3
<1>11. Moves(ids, q, over, Wanted)
  BY <1>10 DEF Moves
<1> HIDE DEF over, new, ids
<1> QED
  BY <1>1, <1>2, <1>3, <1>7, <1>8, <1>11, WantedLive, RememberedTurnKeeps

LEMMA AgilityChunkKeeps ==
  ASSUME Shaped, AgilityChunk, Walked(run, Wanted)
  PROVE  Walked(run', Wanted)
<1> DEFINE ids == Wanted \cap Here(run)
           rows == AgilityRows
           n == run.pos
           over == ~(run.pos + Len(AgilityRows) < Len(AgilityAsked))
           new == Unseen(AgilityRows)
<1>1. Walking(Agility) /\ run.stage = "walking" /\ connector.name = Agility
  BY DEF AgilityChunk, Walking
<1>2. PICK q : /\ Turns(q, new, over)
               /\ q.pos = run.pos + Len(AgilityRows) /\ q.pend = run.pend /\ q.last = run.last
  BY AgilityChunkTurns
<1>3. run.pend = <<>> /\ Range(run.pend) = {} /\ ~run.last /\ run.last = FALSE
  BY <1>1, NoHeaders DEF HasDetails, Detailed
<1>4. AgilityAsked = Listed(ids) /\ ids \in SUBSET Keys /\ n \in Nat
  BY <1>1, AgilityAsks, WantedLive DEF Shaped, TypeOK, Runs
<1>5. ~Keyset /\ Remembers
  BY <1>1 DEF Keyset, Remembers
<1>6. q.left = run.left
  BY <1>2 DEF Turns
<1>7. Room(run, Wanted) = Below(ids, n) /\ Room(q, Wanted) = Below(ids, n + Len(rows))
  BY <1>1, <1>2, <1>3, <1>5, <1>6 DEF Room, Here, Reached
<1>8. rows = Window(Listed(ids), n)
  BY <1>4 DEF AgilityRows
<1>9. over <=> ~(n + Len(rows) < Len(Listed(ids)))
  BY <1>4
<1>10. Len(rows) \in Nat /\ Len(Listed(ids)) \in Nat
  BY <1>4, AgilityRowsOK
<1> HIDE DEF ids, n, rows, over
<1>11. Range(rows) \subseteq ids
  BY <1>4, <1>8, WindowSplits
<1>12. \A k \in Below(ids, n) : k \in Range(rows) \/ k \in Below(ids, n + PageSize)
  BY <1>4, <1>8, WindowSplits
<1>13. \A k \in Below(ids, n + PageSize) : k \in Below(ids, n + Len(rows))
  BY <1>4, <1>8, WindowSplits
<1>14. over => \A k \in Below(ids, n + PageSize) : FALSE
  <2>1. Len(Listed(ids)) = Cardinality(ids)
    BY <1>4, <1>8, WindowSplits
  <2>2. over => n + Len(rows) >= Cardinality(ids)
    BY <1>4, <1>9, <1>10, <2>1
  <2>3. n + Len(rows) >= Cardinality(ids) => \A k \in Below(ids, n + PageSize) : FALSE
    BY <1>4, <1>8, WindowSplits
  <2> QED
    BY <2>2, <2>3
<1>15. IsInjective(new) /\ Range(new) = Range(rows) \ IdsOf(Yielded)
  BY AgilityRowsOK, UnseenRows DEF rows
<1>16. Holds(q, over)
  BY <1>2, <1>3 DEF Holds
<1> DEFINE got == Range(rows)
<1>17. /\ got \subseteq Wanted /\ Range(q.pend) \subseteq Wanted
       /\ \A k \in Wanted : k \in Range(run.pend) \cup Room(run, Wanted) =>
            k \in got \/ (~over /\ k \in Range(q.pend) \cup Room(q, Wanted))
  BY <1>2, <1>3, <1>7, <1>11, <1>12, <1>13, <1>14 DEF ids
<1>19. Moves(got, q, over, Wanted)
  BY <1>17 DEF Moves
<1> HIDE DEF new, got
<1>18. Range(new) = got \ IdsOf(Yielded)
  BY <1>15 DEF got
<1> QED
  BY <1>1, <1>2, <1>5, <1>15, <1>16, <1>18, <1>19, WantedLive, RememberedTurnKeeps
(***************************************************************************)
(* Walks by the count of the rows.                                         *)
(***************************************************************************)
\* A page of what is wanted from where the walk has come to.
LEMMA CountedPage ==
  ASSUME NEW ids \in SUBSET Keys, NEW n \in Nat, NEW size \in Nat \ {0}, NEW rows,
         rows = Page(Listed(ids), n, size),
         Len(rows) < size \/ n + Len(rows) >= Len(Listed(ids))
  PROVE  Below(ids, n + size) = {}
<1>1. Splits(ids, n, size, rows)
  BY PageSplits
<1> QED
  BY <1>1 DEF Splits


LEMMA NetsuitePageKeeps ==
  ASSUME Shaped, NetsuitePage, ~run.deaf, Walked(run, Wanted)
  PROVE  Walked(run', Wanted)
<1> DEFINE ids == Wanted \cap Here(run)
           n == run.pos
           rows == NetsuiteRows
           ends == Len(NetsuiteRows) < PageSize
<1>1. connector.name = Netsuite /\ run.stage = "walking"
  BY DEF NetsuitePage, Walking
<1>2. PICK q : /\ Turns(q, rows, ends)
               /\ q.pos = run.pos + PageSize /\ q.pend = run.pend /\ q.last = run.last
  BY NetsuitePageTurns
<1>3. run.pend = <<>> /\ run.last = FALSE /\ ~Keyset /\ Counting
  BY <1>1, NoHeaders DEF HasDetails, Detailed, Keyset, Counting
<1>4. ids \in SUBSET Keys /\ n \in Nat /\ ends \in BOOLEAN
  BY WantedLive DEF Shaped, TypeOK, Runs
<1>5. rows = Page(Listed(ids), n, PageSize) /\ PageSize \in Nat \ {0}
  BY <1>1, OneScopeAsked, ExtractionAssumption DEF NetsuiteRows, Window, Offset
<1>6. Reached(run) = n /\ Reached(q) = n + PageSize
  BY <1>1, <1>2 DEF Reached
<1>7. Takes(q, rows, ends, rows, ends)
  BY <1>2, <1>3 DEF Takes
<1>8. ends => Below(ids, n + PageSize) = {}
  <2>1. ends <=> Len(rows) < PageSize
    OBVIOUS
  <2> HIDE DEF ids, n, rows, ends
  <2> QED
    BY <1>4, <1>5, <2>1, CountedPage
<1>9. Counts(rows, ends, q, Wanted, PageSize)
  <2> HIDE DEF n, rows, ends
  <2> QED
    BY <1>5, <1>6, <1>8 DEF Counts
<1> HIDE DEF rows, ends
<1> QED
  BY <1>1, <1>2, <1>3, <1>4, <1>5, <1>7, <1>9, WantedLive, CountingTurnKeeps

LEMMA CloudPageKeeps ==
  ASSUME Shaped, CloudPage, ~run.deaf, ~run'.strayed, Walked(run, Wanted)
  PROVE  Walked(run', Wanted)
<1> DEFINE ids == Wanted \cap Here(run)
           n == run.pos * CloudPageSize
           rows == CloudRows
           ends == Len(CloudRows) < CloudPageSize \/ run.pos + 1 = PageLimit
<1>1. connector.name = CloudPages /\ run.stage = "walking"
  BY DEF CloudPage, Walking
<1>2. PICK q : /\ Turns(q, rows, ends)
               /\ q.pos = run.pos + 1 /\ q.pend = run.pend /\ q.last = run.last
               /\ run.pos + 1 = PageLimit /\ PageLimit * CloudPageSize < Len(CloudAsked)
                    => q.strayed
  BY CloudPageTurns
<1>3. run.pend = <<>> /\ run.last = FALSE /\ ~Keyset /\ Counting
  BY <1>1, NoHeaders DEF HasDetails, Detailed, Keyset, Counting
<1>4. ids \in SUBSET Keys /\ run.pos \in Nat /\ CloudPageSize \in Nat \ {0} /\ ends \in BOOLEAN
  BY WantedLive, OffsetAssumption DEF Shaped, TypeOK, Runs
<1>5. n \in Nat /\ (run.pos + 1) * CloudPageSize = n + CloudPageSize
  BY <1>4, ReachedOK
<1>6. CloudAsked = Listed(ids)
  BY <1>1, OneScopeAsked DEF CloudAsked
<1>7. rows = Page(Listed(ids), n, CloudPageSize)
  BY <1>6 DEF CloudRows, Offset
<1>8. Reached(run) = n /\ Reached(q) = n + CloudPageSize
  BY <1>1, <1>2, <1>5 DEF Reached
<1>9. Takes(q, rows, ends, rows, ends)
  BY <1>2, <1>3 DEF Takes
<1>10. ~q.strayed
  BY <1>1, <1>2, AfterTurn
<1>11. run.pos + 1 = PageLimit => Below(ids, n + CloudPageSize) = {}
  <2> SUFFICES ASSUME run.pos + 1 = PageLimit
               PROVE  Below(ids, n + CloudPageSize) = {}
    OBVIOUS
  <2>1. PageLimit * CloudPageSize = n + CloudPageSize /\ n + CloudPageSize \in Nat
    BY <1>4, <1>5
  <2>2. ~(PageLimit * CloudPageSize < Len(Listed(ids)))
    BY <1>2, <1>6, <1>10
  <2>3. Len(Listed(ids)) = Cardinality(ids) /\ Cardinality(ids) \in Nat
    <3> HIDE DEF ids
    <3> QED
      BY <1>4, ListedLists
  <2> DEFINE m == n + CloudPageSize
  <2>4. m \in Nat /\ m >= Cardinality(ids)
    BY <2>1, <2>2, <2>3
  <2>5. Below(ids, m) = {}
    <3> HIDE DEF ids, m
    <3> QED
      BY <1>4, <2>4, BelowAll
  <2> QED
    BY <2>5
<1>12. Len(rows) < CloudPageSize => Below(ids, n + CloudPageSize) = {}
  <2> HIDE DEF ids, n, rows
  <2> QED
    BY <1>4, <1>5, <1>7, CountedPage
<1>13. Counts(rows, ends, q, Wanted, CloudPageSize)
  <2>1. ends => Below(ids, n + CloudPageSize) = {}
    BY <1>11, <1>12
  <2> HIDE DEF n, rows, ends
  <2> QED
    BY <1>7, <1>8, <2>1 DEF Counts
<1> HIDE DEF rows, ends
<1> QED
  BY <1>1, <1>2, <1>3, <1>4, <1>9, <1>13, WantedLive, CountingTurnKeeps


\* Records or headers, as the entity has them.
LEMMA TakesEither ==
  ASSUME NEW rows, NEW ends \in BOOLEAN, NEW q, q.pend = AsHeaders(rows), q.last = ends
  PROVE  Takes(q, AsRecords(rows), ends /\ AsHeaders(rows) = <<>>, rows, ends)
BY DEF Takes, AsRecords, AsHeaders

LEMMA P21PageKeeps ==
  ASSUME Shaped, P21Page, ~run.deaf, Walked(run, Wanted)
  PROVE  Walked(run', Wanted)
<1> DEFINE ids == Wanted \cap Here(run)
           n == run.pos
           rows == P21Rows
           ends == Len(P21Rows) < PageSize
           new == AsRecords(P21Rows)
           over == ends /\ AsHeaders(P21Rows) = <<>>
<1>1. connector.name = P21 /\ run.stage = "walking" /\ run.pend = <<>>
  BY DEF P21Page, Walking
<1>2. PICK q : /\ Turns(q, new, over)
               /\ q.pos = run.pos + PageSize /\ q.pend = AsHeaders(rows) /\ q.last = ends
  BY P21PageTurns
<1>3. run.last = FALSE /\ Counting
  BY <1>1, NoHeaders DEF Counting
<1>4. ids \in SUBSET Keys /\ n \in Nat /\ ends \in BOOLEAN
  BY WantedLive DEF Shaped, TypeOK, Runs
<1>5. rows = Page(Listed(ids), n, PageSize) /\ PageSize \in Nat \ {0}
  BY <1>1, OneScopeAsked, ExtractionAssumption DEF P21Rows, Window, Offset
<1>6. Reached(run) = n /\ Reached(q) = n + PageSize
  BY <1>1, <1>2 DEF Reached
<1>7. Takes(q, new, over, rows, ends)
  <2>1. Takes(q, AsRecords(rows), ends /\ AsHeaders(rows) = <<>>, rows, ends)
    <3> HIDE DEF rows, ends
    <3> QED
      BY <1>2, <1>4, TakesEither
  <2> QED
    BY <2>1
<1>8. ends => Below(ids, n + PageSize) = {}
  <2>1. ends <=> Len(rows) < PageSize
    OBVIOUS
  <2> HIDE DEF ids, n, rows, ends
  <2> QED
    BY <1>4, <1>5, <2>1, CountedPage
<1>9. Counts(rows, ends, q, Wanted, PageSize)
  <2> HIDE DEF n, rows, ends
  <2> QED
    BY <1>5, <1>6, <1>8 DEF Counts
<1> HIDE DEF rows, ends, new, over
<1> QED
  BY <1>1, <1>2, <1>3, <1>4, <1>5, <1>7, <1>9, WantedLive, CountingTurnKeeps

LEMMA EssbasePageKeeps ==
  ASSUME Shaped, EssbasePage, ~run.deaf, Walked(run, Wanted)
  PROVE  Walked(run', Wanted)
<1> DEFINE ids == Wanted \cap Here(run)
           n == run.pos
           rows == EssbaseRows
           new == AsRecords(EssbaseRows)
<1>1. connector.name = Essbase /\ run.stage = "walking" /\ run.pend = <<>> /\ Walking(Essbase)
  BY DEF EssbasePage, Walking
<1>2. PICK q, ends :
        /\ ends \in BOOLEAN
        /\ ends => Len(rows) < PageSize \/ n + Len(rows) >= Len(Listed(Live))
        /\ Turns(q, new, ends /\ AsHeaders(EssbaseRows) = <<>>)
        /\ q.pos = run.pos + Len(EssbaseRows) /\ q.pend = AsHeaders(rows) /\ q.last = ends
  BY EssbasePageTurns
<1> DEFINE over == ends /\ AsHeaders(EssbaseRows) = <<>>
<1>3. run.last = FALSE /\ Counting
  BY <1>1, NoHeaders DEF Counting
<1>4. ids \in SUBSET Keys /\ n \in Nat /\ ids = Live
  BY <1>1, WantedLive, EssbaseAsks DEF Shaped, TypeOK, Runs
<1>5. rows = Page(Listed(ids), n, PageSize) /\ PageSize \in Nat \ {0}
  BY <1>1, <1>4, ExtractionAssumption DEF EssbaseRows, Window, Offset
<1>6. Reached(run) = n /\ Reached(q) = n + Len(rows)
  BY <1>1, <1>2 DEF Reached
<1>7. Takes(q, new, over, rows, ends)
  <2>1. Takes(q, AsRecords(rows), ends /\ AsHeaders(rows) = <<>>, rows, ends)
    <3> HIDE DEF rows
    <3> QED
      BY <1>2, TakesEither
  <2> QED
    BY <2>1
<1>8. ends => Len(rows) < PageSize \/ n + Len(rows) >= Len(Listed(ids))
  BY <1>2, <1>4
<1>9. ends => Below(ids, n + PageSize) = {}
  <2>1. ids \in SUBSET Keys
    BY <1>4
  <2>2. n \in Nat
    BY <1>4
  <2> HIDE DEF ids, n, rows
  <2> QED
    BY <1>5, <1>8, <2>1, <2>2, CountedPage
<1>10. Counts(rows, ends, q, Wanted, PageSize)
  <2> HIDE DEF n, rows
  <2> QED
    BY <1>5, <1>6, <1>9 DEF Counts
<1>11. Turns(q, new, over)
  BY <1>2
<1> HIDE DEF rows, new, over
<1> QED
  BY <1>1, <1>2, <1>3, <1>5, <1>7, <1>10, <1>11, WantedLive, CountingTurnKeeps

LEMMA DetailsKeep ==
  ASSUME Shaped, P21Lines \/ (EssbaseCubes /\ Head(run.pend) \in Live), Walked(run, Wanted)
  PROVE  Walked(run', Wanted)
<1>1. connector.name \in {P21, Essbase} /\ run.stage = "walking" /\ run.pend # <<>>
  BY DEF P21Lines, EssbaseCubes, Walking
<1> DEFINE id == Head(run.pend)
           new == IF id \in Live THEN <<id>> ELSE <<>>
<1>2. PICK q : /\ Turns(q, new, run.last /\ Tail(run.pend) = <<>>)
               /\ q.pos = run.pos /\ q.pend = Tail(run.pend) /\ q.last = run.last
  <2>1. CASE P21Lines
    BY <2>1, P21LinesTurns
  <2>2. CASE EssbaseCubes /\ id \in Live
    <3>1. new = <<id>>
      BY <2>2
    <3>2. \E q : /\ Turns(q, <<id>>, run.last /\ Tail(run.pend) = <<>>)
                 /\ q.pos = run.pos /\ q.pend = Tail(run.pend) /\ q.last = run.last
      BY <2>2, EssbaseCubesTurns
    <3> HIDE DEF new
    <3> QED
      BY <3>1, <3>2
  <2> QED
    BY <2>1, <2>2
<1>3. Range(new) = {id} \cap Live /\ IsInjective(new)
  BY DEF Range, IsInjective
<1> HIDE DEF new
<1> QED
  BY <1>1, <1>2, <1>3, WantedLive, DetailTurnKeeps
(***************************************************************************)
(* Walks by the last row, and queries.                                     *)
(***************************************************************************)
\* The first rows of a list, and those that the next page is to bring.
Rising(list, place) == \A i, j \in 1..Len(list) : i < j => place[list[i]] < place[list[j]]
NextOf(rows, list, place, size) ==
  /\ IsInjective(rows) /\ Range(rows) \subseteq Range(list)
  /\ Len(rows) < size \/ ~(Len(list) > size) => Range(list) \subseteq Range(rows)
  /\ ~(Len(rows) < size) \/ Len(list) > size =>
       /\ rows # <<>> /\ Last(rows) \in Range(rows)
       /\ \A k \in Range(list) : k \in Range(rows) \/ place[Last(rows)] < place[k]
       /\ \A k \in Range(rows) : ~(place[Last(rows)] < place[k])

LEMMA NextRows ==
  ASSUME NEW place \in [Keys -> Nat], NEW list \in Seq(Keys), NEW size \in Nat \ {0},
         Rising(list, place), NEW rows, rows = Page(list, 0, size)
  PROVE  NextOf(rows, list, place, size)
<1> USE DEF Rising, NextOf
<1>1. /\ rows \in Seq(Keys) /\ Len(rows) = (IF size <= Len(list) THEN size ELSE Len(list))
      /\ \A i \in 1..Len(rows) : i \in 1..Len(list) /\ rows[i] = list[i]
  BY FirstRows
<1>2. IsInjective(list)
  BY RisingIsInjective
<1>3. IsInjective(rows) /\ Range(rows) \subseteq Range(list)
  BY <1>2, PageRange
<1>4. ASSUME Len(rows) < size \/ ~(Len(list) > size)
      PROVE  Range(list) \subseteq Range(rows)
  <2>1. Len(rows) = Len(list)
    BY <1>1, <1>4
  <2>2. DOMAIN list = 1..Len(list) /\ DOMAIN rows = 1..Len(list)
    BY <1>1, <2>1
  <2>3. \A i \in 1..Len(list) : rows[i] = list[i]
    BY <1>1, <2>1
  <2> QED
    BY <2>2, <2>3 DEF Range
<1>5. ASSUME ~(Len(rows) < size) \/ Len(list) > size
      PROVE  /\ rows # <<>> /\ Last(rows) \in Range(rows)
             /\ \A k \in Range(list) : k \in Range(rows) \/ place[Last(rows)] < place[k]
             /\ \A k \in Range(rows) : ~(place[Last(rows)] < place[k])
  <2>1. list # <<>>
    <3>1. Len(list) # 0
      BY <1>1, <1>5
    <3>2. Len(<<>>) = 0
      OBVIOUS
    <3> QED
      BY <3>1, <3>2
  <2> DEFINE page == Page(list, 0, size)
  <2>2. /\ page # <<>> /\ Last(page) \in Range(page)
        /\ \A k \in Range(list) : k \in Range(page) \/ place[Last(page)] < place[k]
        /\ \A k \in Range(page) : ~(place[Last(page)] < place[k])
    BY <2>1, FirstPage
  <2>3. rows = page
    OBVIOUS
  <2> HIDE DEF page
  <2> QED
    BY <2>2, <2>3
<1> QED
  BY <1>3, <1>4, <1>5

\* A page in the order of some place, from a place on.
PlacedFrom(r, place, from) ==
  \A k \in Keys : Beyond(r, k) <=> from < place[k]

LEMMA PlacedTurnKeeps ==
  ASSUME Shaped, run.stage = "walking", Keyset, Walked(run, Wanted),
         NEW place \in [Keys -> Nat], NEW list \in Seq(Keys), NEW size \in Nat \ {0},
         \A i, j \in 1..Len(list) : i < j => place[list[i]] < place[list[j]],
         Range(list) = Wanted \cap Room(run, Wanted),
         NEW rows, rows = Page(list, 0, size), NEW over \in BOOLEAN,
         over => Len(rows) < size \/ ~(Len(list) > size),
         ~over => ~(Len(rows) < size) \/ Len(list) > size,
         NEW q, Turns(q, rows, over), q.pend = run.pend, q.last = run.last,
         ~over => /\ PlacedFrom(q, place, place[Last(rows)])
                  /\ \A j \in Keys : Beyond(run, j) =>
                       \A k \in Keys : place[j] < place[k] => Beyond(run, k)
  PROVE  Walked(run', Wanted)
<1> DEFINE asked == Wanted \cap Room(run, Wanted)
<1>a. NextOf(rows, list, place, size)
  <2>1. Rising(list, place)
    BY DEF Rising
  <2> QED
    BY <2>1, NextRows
<1>1. /\ IsInjective(rows) /\ Range(rows) \subseteq Range(list)
      /\ over => Range(list) \subseteq Range(rows)
      /\ ~over =>
           /\ Last(rows) \in Range(rows)
           /\ \A k \in Range(list) : k \in Range(rows) \/ place[Last(rows)] < place[k]
           /\ \A k \in Range(rows) : ~(place[Last(rows)] < place[k])
  BY <1>a DEF NextOf
<1>2. Range(list) = asked
  OBVIOUS
<1>3. Here(run) \in SUBSET Keys /\ Wanted \in SUBSET Keys
  BY WantedLive DEF Here, InScope
<1>4. asked \subseteq Keys /\ \A k \in asked : Beyond(run, k)
  BY <1>3 DEF Room
<1> HIDE DEF asked
<1>5. ASSUME ~over, NEW k \in Here(run)
      PROVE  /\ Beyond(q, k) => Beyond(run, k) /\ k \notin Range(rows)
             /\ k \in asked => k \in Range(rows) \/ Beyond(q, k)
  <2>1. k \in Keys /\ Last(rows) \in asked
    BY <1>1, <1>2, <1>3, <1>5
  <2>2. Beyond(q, k) <=> place[Last(rows)] < place[k]
    BY <1>5, <2>1 DEF PlacedFrom
  <2>3. place[Last(rows)] < place[k] => Beyond(run, k)
    BY <1>4, <1>5, <2>1
  <2> QED
    BY <1>1, <1>2, <1>5, <2>1, <2>2, <2>3
<1>6. asked = Wanted \cap Room(run, Wanted)
  BY DEF asked
<1> QED
  BY <1>1, <1>2, <1>3, <1>5, <1>6, KeysetTurnKeeps

\* A link continues after a row, and the rows of a listing follow each other.
LEMMA LinksGoOn ==
  ASSUME connector.name = CloudLinks, NEW r, r.pos \in Keys \cup {0}
  PROVE  /\ r.pos \in Keys => PlacedFrom(r, Place, Place[r.pos])
         /\ \A j \in Keys : Beyond(r, j) =>
              \A k \in Keys : Place[j] < Place[k] => Beyond(r, k)
<1>1. \A k : Beyond(r, k) <=> r.pos = 0 \/ Place[r.pos] < Place[k]
  BY DEF Beyond
<1>2. Place \in [Keys -> Nat] /\ 0 \notin Keys
  BY ExtractionAssumption
<1>3. ASSUME NEW j \in Keys, Beyond(r, j), NEW k \in Keys, Place[j] < Place[k]
      PROVE  Beyond(r, k)
  <2>1. CASE r.pos = 0
    BY <1>1, <2>1
  <2>2. CASE r.pos # 0 /\ Place[r.pos] < Place[j]
    <3>1. Place[r.pos] \in Nat /\ Place[j] \in Nat /\ Place[k] \in Nat
      BY <1>2, <1>3, <2>2
    <3>2. Place[r.pos] < Place[k]
      BY <1>3, <2>2, <3>1
    <3> QED
      BY <1>1, <3>2
  <2> QED
    BY <1>1, <1>3, <2>1, <2>2
<1> QED
  BY <1>1, <1>2, <1>3 DEF PlacedFrom

LEMMA CloudLinkPageKeeps ==
  ASSUME Shaped, CloudLinkPage, ~run.deaf, Walked(run, Wanted)
  PROVE  Walked(run', Wanted)
<1>1. connector.name = CloudLinks /\ run.stage = "walking" /\ Keyset
  BY DEF CloudLinkPage, Walking, Keyset
<1>2. run.pos \in Keys \cup {0} /\ PageSize \in Nat \ {0}
  BY <1>1, ExtractionAssumption DEF Shaped, WalkOK
<1> DEFINE asked == Wanted \cap Room(run, Wanted)
           list == Listed(asked)
           rows == Page(list, 0, PageSize)
           over == ~(Len(list) > PageSize)
<1>3. PICK q : /\ Turns(q, rows, over) /\ q.pos = (IF ~over THEN Last(rows) ELSE run.pos)
               /\ q.pend = run.pend /\ q.last = run.last
  <2>1. After(Newer(Since(Unscoped)), Offset(run.pos)) = asked
    BY <1>1, LinksAsk
  <2>2. CloudLinkListing = list
    BY <2>1 DEF CloudLinkListing
  <2>3. CloudLinkRows = rows
    BY <2>2 DEF CloudLinkRows
  <2> HIDE DEF list, rows
  <2> QED
    BY <2>2, <2>3, CloudLinkPageTurns
<1>4. asked \in SUBSET Keys /\ over \in BOOLEAN
  BY WantedLive
<1> HIDE DEF asked
<1>5. /\ list \in Seq(asked) /\ Range(list) = asked
      /\ \A i, j \in 1..Len(list) : i < j => Place[list[i]] < Place[list[j]]
  BY <1>4, ListedLists
<1>6. list \in Seq(Keys) /\ Place \in [Keys -> Nat]
  <2>1. asked \subseteq Keys
    BY <1>4
  <2>2. list \in Seq(Keys)
    BY <1>5, <2>1
  <2> QED
    BY <2>2, ExtractionAssumption
<1> HIDE DEF list
<1>7. ~over => Last(rows) \in Keys
  <2>1. ~over => Len(list) > PageSize
    OBVIOUS
  <2>2. ~over => Last(rows) \in Range(rows) /\ Range(rows) \subseteq Range(list)
    <3>1. Rising(list, Place)
      BY <1>5 DEF Rising
    <3>2. NextOf(rows, list, Place, PageSize)
      BY <1>2, <1>6, <3>1, NextRows
    <3> QED
      BY <2>1, <3>2 DEF NextOf
  <2> QED
    BY <1>4, <1>5, <2>2
<1>8. ~over => PlacedFrom(q, Place, Place[Last(rows)])
  BY <1>1, <1>3, <1>7, LinksGoOn
<1>9. \A j \in Keys : Beyond(run, j) => \A k \in Keys : Place[j] < Place[k] => Beyond(run, k)
  BY <1>1, <1>2, LinksGoOn
<1>10. Range(list) = Wanted \cap Room(run, Wanted)
  BY <1>5 DEF asked
<1>11. /\ over => ~(Len(list) > PageSize)
       /\ ~over => Len(list) > PageSize
  OBVIOUS
<1>12. rows = Page(list, 0, PageSize)
  OBVIOUS
<1> HIDE DEF rows, over
<1> QED
  BY <1>1, <1>2, <1>3, <1>4, <1>5, <1>6, <1>8, <1>9, <1>10, <1>11, <1>12, PlacedTurnKeeps

\* A company whose listing fits a page is read at once.
LEMMA BusinessCentralPageKeeps ==
  ASSUME Shaped, BusinessCentralPage, ~run'.strayed, Walked(run, Wanted)
  PROVE  Walked(run', Wanted)
<1>1. connector.name = BusinessCentral /\ run.stage = "walking" /\ Keyset
  BY DEF BusinessCentralPage, Walking, Keyset
<1>2. PICK q, new, over :
        /\ Turns(q, new, over) /\ q.pend = run.pend /\ q.last = run.last
        /\ ~q.strayed => over /\ q.pos = 0 /\ new = BcListing
  BY BusinessCentralPageTurns
<1>3. ~q.strayed
  BY <1>1, <1>2, AfterTurn
<1>4. over /\ new = BcListing /\ run.pos = 0
  BY <1>1, <1>2, <1>3 DEF Turns, Shaped, WalkOK
<1> DEFINE asked == Wanted \cap Room(run, Wanted)
<1>5. BcListing = Listed(asked)
  BY <1>1, <1>4, LinksAsk DEF BcListing
<1>6. asked \in SUBSET Keys /\ asked \in SUBSET Live
  BY WantedLive
<1> HIDE DEF asked
<1>7. Range(new) = asked
  BY <1>4, <1>5, <1>6, ListedLists
<1>8. IsInjective(new)
  <2>1. 0 \in Nat
    OBVIOUS
  <2> QED
    BY <1>4, <1>5, <1>6, <2>1, ListedPage
<1>9. asked = Wanted \cap Room(run, Wanted)
  BY DEF asked
<1> QED
  BY <1>1, <1>2, <1>4, <1>7, <1>8, <1>9, WantedLive, KeysetTurnKeeps


LEMMA BisTrackPageKeeps ==
  ASSUME Shaped, BisTrackPage, Walked(run, Wanted)
  PROVE  Walked(run', Wanted)
<1> DEFINE asked == BisTrackAsked
           list == ByNumber(asked)
           rows == BisTrackRows
           over == Len(BisTrackRows) < PageSize
<1>1. connector.name = BisTrack /\ run.stage = "walking" /\ Keyset /\ Walking(BisTrack)
  BY DEF BisTrackPage, Walking, Keyset
<1>2. PICK q : /\ Turns(q, rows, over)
               /\ q.pos = (IF over THEN run.pos ELSE Number[Last(rows)])
               /\ q.pend = run.pend /\ q.last = run.last
  BY BisTrackPageTurns
<1>3. asked = Wanted \cap Room(run, Wanted)
  BY <1>1, ScansAsk
<1>4. Scope \in Range(ScanPlan) /\ asked \in SUBSET (Live \cap InScope(Scope))
  BY <1>1, BisTrackRowsOK
<1>5. rows = Page(list, 0, PageSize)
  BY DEF BisTrackRows
<1> HIDE DEF asked, rows
<1>6. /\ list \in Seq(Live) /\ Range(list) = asked
      /\ \A i, j \in 1..Len(list) : i < j => Number[list[i]] < Number[list[j]]
  BY <1>4, NumberedPage
<1>7. list \in Seq(Keys) /\ Number \in [Keys -> Nat] /\ PageSize \in Nat \ {0}
  BY <1>6, ExtractionAssumption, QueryAssumption DEF Live
<1> HIDE DEF list
<1>8. \A r : \A k : Beyond(r, k) <=> r.pos < Number[k]
  BY <1>1 DEF Beyond
<1>9. ~over => PlacedFrom(q, Number, Number[Last(rows)])
  BY <1>2, <1>8 DEF PlacedFrom
<1>10. \A j \in Keys : Beyond(run, j) => \A k \in Keys : Number[j] < Number[k] => Beyond(run, k)
  <2>1. run.pos \in Nat
    BY DEF Shaped, TypeOK, Runs
  <2> SUFFICES ASSUME NEW j \in Keys, run.pos < Number[j], NEW k \in Keys, Number[j] < Number[k]
               PROVE  run.pos < Number[k]
    BY <1>8
  <2>2. Number[j] \in Nat /\ Number[k] \in Nat
    BY <1>7
  <2> QED
    BY <2>1, <2>2
<1>11. /\ over => Len(rows) < PageSize
       /\ ~over => ~(Len(rows) < PageSize)
       /\ over \in BOOLEAN
  BY DEF rows
<1> HIDE DEF over
<1>12. Range(list) = Wanted \cap Room(run, Wanted)
  BY <1>3, <1>6
<1> QED
  BY <1>1, <1>2, <1>5, <1>6, <1>7, <1>9, <1>10, <1>11, <1>12, PlacedTurnKeeps

\* What a query answers with is what is wanted.
LEMMA QueriesKeep ==
  ASSUME Shaped, Queries
  PROVE  Walked(run', Wanted)
<1>1. /\ connector.name \in {BisTrack, LegacySql} /\ run.stage = "walking"
      /\ erp \in [Keys -> Stamps]
  BY DEF Queries, BisTrackKeys, LegacySelect, Walking, Shaped, TypeOK
<1>2. PICK new : Selects(new) /\ IsInjective(new) /\ Range(new) = Wanted
  <2>1. CASE BisTrackKeys
    <3>1. connector.name = BisTrack /\ run.walk = "keys"
      BY <2>1 DEF BisTrackKeys, Walking
    <3>2. Plan = ScanPlan
      BY <3>1 DEF Plan
    <3>3. Wanted = Live \cap Planned
      BY <3>1, <3>2 DEF Wanted, Due, Filters, Pulled, Planned
    <3>4. Live \cap Planned \in SUBSET Keys
      BY DEF Live
    <3>5. Selects(Listed(Live \cap Planned))
      BY <2>1, BisTrackKeysSelects
    <3> HIDE DEF Planned
    <3>6. Range(Listed(Live \cap Planned)) = Wanted
      BY <3>3, <3>4, ListedLists
    <3>7. IsInjective(Listed(Live \cap Planned))
      <4>1. Live \cap Planned \in SUBSET Live /\ 0 \in Nat
        OBVIOUS
      <4> QED
        BY <4>1, ListedPage
    <3> QED
      BY <3>5, <3>6, <3>7
  <2>2. CASE LegacySelect
    <3>1. connector.name = LegacySql
      BY <2>2 DEF LegacySelect, Walking
    <3>2. Wanted = Newer(Since(Unscoped))
      BY <1>1, <3>1, OneScopeAsked
    <3>3. Selects(LegacyRows) /\ LegacyRows = Listed(Wanted)
      BY <2>2, <3>2, LegacySelects DEF LegacyRows
    <3>4. Range(Listed(Wanted)) = Wanted
      BY WantedLive, ListedLists
    <3>5. IsInjective(Listed(Wanted))
      <4>1. Wanted \in SUBSET Live /\ 0 \in Nat
        BY WantedLive
      <4> QED
        BY <4>1, ListedPage
    <3> QED
      BY <3>3, <3>4, <3>5
  <2> QED
    BY <2>1, <2>2 DEF Queries
<1>3. run.pend = <<>> /\ Range(run.pend) = {}
  BY <1>1, NoHeaders DEF HasDetails, Detailed
<1>4. new \in Seq(Live) /\ run'.out = VersionsOf(new) /\ run'.stage = "walked" /\ run'.pend = <<>>
  BY <1>2, <1>3 DEF Selects
<1>5. Range(run'.out) = {Version(k) : k \in Wanted}
  BY <1>1, <1>2, <1>4, RecordsRead
<1>6. Kept(run', Wanted) /\ Exact(run', Wanted) /\ Apart(run', Wanted)
  BY <1>3, <1>4, <1>5 DEF Kept, Exact, Apart
<1>7. Sole(run'.out)
  <2> DEFINE none == <<>>
  <2>1. none \in Seq(Versions) /\ Sole(none) /\ Range(none) = {} /\ IdsOf(Range(none)) = {}
        /\ \A s \in Seq(Versions) : none \o s = s
    <3>1. none \in Seq(Versions) /\ Range(none) = {}
      BY DEF Range
    <3>4. Sole(none)
      BY DEF Sole, IsInjective
    <3>2. IdsOf({}) = {}
      BY DEF IdsOf
    <3>3. \A s \in Seq(Versions) : none \o s = s
      BY ConcatEmptySeq
    <3> QED
      BY <3>1, <3>2, <3>3, <3>4
  <2>2. VersionsOf(new) \in Seq(Versions)
    BY <1>1, <1>4, RecordsRead
  <2> HIDE DEF none
  <2>3. Sole(none \o VersionsOf(new))
    BY <1>1, <1>2, <1>4, <2>1, SoleStays
  <2> QED
    BY <1>4, <2>1, <2>2, <2>3
<1> QED
  BY <1>6, <1>7 DEF Walked, Once

\* Every answered call.
LEMMA PagesKeep ==
  ASSUME Shaped, Pages, ~Astray, ~run'.strayed, Walked(run, Wanted)
  PROVE  Walked(run', Wanted)
<1>1. connector.name # Eclipse => ~run.deaf
  BY DEF Astray
<1>2. CASE EclipsePage
  BY <1>2, EclipsePageKeeps
<1>3. CASE EclipseHeaders
  BY <1>3, EclipseHeadersKeep
<1>4. CASE EclipseDetail /\ Head(run.pend) \in Live
  BY <1>4, EclipseDetailKeeps
<1>5. CASE AgilityChunk
  BY <1>5, AgilityChunkKeeps
<1>6. CASE NetsuitePage
  BY <1>1, <1>6, NetsuitePageKeeps DEF NetsuitePage, Walking
<1>7. CASE P21Page
  BY <1>1, <1>7, P21PageKeeps DEF P21Page, Walking
<1>8. CASE P21Lines \/ (EssbaseCubes /\ Head(run.pend) \in Live)
  BY <1>8, DetailsKeep
<1>9. CASE EssbasePage
  BY <1>1, <1>9, EssbasePageKeeps DEF EssbasePage, Walking
<1>10. CASE CloudPage
  BY <1>1, <1>10, CloudPageKeeps DEF CloudPage, Walking
<1>11. CASE BusinessCentralPage
  BY <1>11, BusinessCentralPageKeeps
<1>12. CASE CloudLinkPage
  BY <1>1, <1>12, CloudLinkPageKeeps DEF CloudLinkPage, Walking
<1>13. CASE BisTrackPage
  BY <1>13, BisTrackPageKeeps
<1> QED
  BY <1>2, <1>3, <1>4, <1>5, <1>6, <1>7, <1>8, <1>9, <1>10, <1>11, <1>12, <1>13 DEF Pages

(***************************************************************************)
(* The walk between its turns.                                             *)
(***************************************************************************)
LEMMA SamePulled ==
  ASSUME UNCHANGED <<erp, connector>>
  PROVE  Pulled' = Pulled /\ \A k : Version(k)' = Version(k)
BY DEF Pulled, Live, Plan, AgilityPlan, ScanPlan, InScope, Version

LEMMA SameWanted ==
  ASSUME UNCHANGED <<erp, connector, mark>>, run'.walk = run.walk
  PROVE  Wanted' = Wanted
<1>1. Pulled' = Pulled
  BY SamePulled
<1>2. \A k : Due(k)' <=> Due(k)
  BY DEF Due, Filters, Filterable, TypeMark
<1> QED
  BY <1>1, <1>2 DEF Wanted

\* Where a run stands does not depend on what else changes.
LEMMA SameStand ==
  ASSUME UNCHANGED connector
  PROVE  /\ Keyset' <=> Keyset
         /\ Counting' <=> Counting
         /\ Remembers' <=> Remembers
         /\ Here(run)' = Here(run') /\ Later(run)' = Later(run')
         /\ Reached(run)' = Reached(run')
         /\ \A k : Beyond(run, k)' <=> Beyond(run', k)
<1>1. (Keyset' <=> Keyset) /\ (Counting' <=> Counting) /\ (Remembers' <=> Remembers)
  BY DEF Keyset, Counting, Remembers
<1>2. Here(run)' = Here(run') /\ Later(run)' = Later(run')
  BY DEF Here, Later
<1>3. Reached(run)' = Reached(run')
  BY DEF Reached
<1>4. \A k : Beyond(run, k)' <=> Beyond(run', k)
  BY DEF Beyond
<1> QED
  BY <1>1, <1>2, <1>3, <1>4

LEMMA SameAhead ==
  ASSUME UNCHANGED connector, Wanted' = Wanted
  PROVE  Room(run, Wanted)' = Room(run', Wanted) /\ Ahead(run, Wanted)' = Ahead(run', Wanted)
<1>1. CASE Keyset
  <2>1. Room(run, Wanted)' = {k \in Here(run)' : Beyond(run, k)'}
    BY <1>1, SameStand DEF Room
  <2>2. Room(run', Wanted) = {k \in Here(run') : Beyond(run', k)}
    BY <1>1 DEF Room
  <2>3. Room(run, Wanted)' = Room(run', Wanted)
    BY <2>1, <2>2, SameStand
  <2> QED
    BY <2>3, SameStand DEF Ahead
<1>2. CASE ~Keyset
  <2>1. Room(run, Wanted)' = Room(run', Wanted)
    BY <1>2, SameStand DEF Room
  <2> QED
    BY <2>1, SameStand DEF Ahead
<1> QED
  BY <1>1, <1>2

LEMMA WalkedStays ==
  ASSUME UNCHANGED <<erp, connector, mark, touched>>, run'.walk = run.walk, Walked(run', Wanted)
  PROVE  Walked(run, Wanted)'
<1>1. Wanted' = Wanted /\ \A k : Version(k)' = Version(k)
  BY SameWanted, SamePulled
<1>2. /\ Keyset' <=> Keyset
      /\ Counting' <=> Counting
      /\ Remembers' <=> Remembers
  BY SameStand
<1>3. Room(run, Wanted)' = Room(run', Wanted) /\ Ahead(run, Wanted)' = Ahead(run', Wanted)
  BY <1>1, SameAhead
<1>4. (Calm' <=> Calm) /\ (Counted' <=> Counted)
  BY <1>2 DEF Calm, Counted
<1>5. Settled' = Settled
  BY <1>2, <1>4 DEF Settled
<1>6. Kept(run, Wanted)'
  <2>1. Kept(run', Wanted)
    BY DEF Walked
  <2> QED
    BY <1>1, <1>3, <1>5, <2>1 DEF Kept
<1>7. Exact(run, Wanted)'
  <2>1. Exact(run', Wanted)
    BY DEF Walked
  <2> QED
    BY <1>1, <1>4, <2>1 DEF Exact
<1>8. Once(run)'
  <2>1. Once(run')
    BY DEF Walked
  <2> QED
    BY <1>4, <2>1 DEF Once, Sole
<1>9. Apart(run, Wanted)'
  <2>1. Apart(run', Wanted)
    BY DEF Walked
  <2> QED
    BY <1>2, <1>3, <1>4, <2>1 DEF Apart
<1> QED
  BY <1>6, <1>7, <1>8, <1>9 DEF Walked

\* A call that is asked again finds what it had ahead, or Agility's whole scope.
LEMMA RetryKeeps ==
  ASSUME Shaped, NEW q, Retried(q), Walked(run, Wanted)
  PROVE  Walked(q, Wanted)
<1>1. /\ q \in Runs /\ run.stage = "walking" /\ q.stage = "walking"
      /\ q.left = run.left /\ q.pend = run.pend /\ q.last = run.last
      /\ q.out = run.out /\ q.deaf = run.deaf
      /\ q.pos = run.pos \/ (connector.name = Agility /\ q.pos = 0)
  BY DEF Retried
<1>2. Later(q) = Later(run) /\ Here(q) = Here(run)
  BY <1>1 DEF Later, Here
<1>3. Wanted \cap Room(run, Wanted) \subseteq Room(q, Wanted)
  <2>1. CASE q.pos = run.pos
    BY <1>1, <2>1, SamePlace
  <2>2. CASE connector.name = Agility /\ q.pos = 0
    <3>1. q.last = FALSE
      BY <1>1, <2>2, NoHeaders DEF HasDetails, Detailed
    <3>2. Wanted \cap Here(q) \subseteq Room(q, Wanted)
      BY <2>2, <3>1, WantedLive, FreshRoom
    <3>3. Room(run, Wanted) \subseteq Here(run)
      BY WantedLive, RoomIsHere DEF Shaped, TypeOK, Runs
    <3> QED
      BY <1>2, <3>2, <3>3
  <2> QED
    BY <1>1, <2>1, <2>2
<1>5. Kept(q, Wanted)
  BY <1>1, <1>2, <1>3 DEF Walked, Kept, Ahead
<1>6. Exact(q, Wanted) /\ Once(q)
  BY <1>1 DEF Walked, Exact, Once
<1>7. Apart(q, Wanted)
  <2>1. CASE Remembers
    BY <2>1 DEF Apart
  <2>2. CASE ~Remembers
    <3>1. q.pos = run.pos
      BY <1>1, <2>2 DEF Remembers
    <3>2. Room(q, Wanted) = Room(run, Wanted)
      BY <1>1, <3>1, SamePlace
    <3> QED
      BY <1>1, <1>2, <3>2 DEF Walked, Apart, Ahead
  <2> QED
    BY <2>1, <2>2
<1> QED
  BY <1>5, <1>6, <1>7 DEF Walked

\* A walk that begins has everything ahead.
Fresh ==
  /\ run.stage = "walking" /\ run.left = Plan /\ run.pos = 0 /\ run.pend = <<>>
  /\ run.last = FALSE /\ run.out = <<>>

LEMMA FreshWalk == Shaped /\ Fresh => Walked(run, Wanted)
<1> SUFFICES ASSUME Shaped, Fresh
             PROVE  Walked(run, Wanted)
  OBVIOUS
<1>1. Range(<<>>) = {} /\ IsInjective(<<>>) /\ IdsOf({}) = {}
  BY DEF Range, IsInjective, IdsOf
<1>2. Range(Plan) = {Head(Plan)} \cup Range(Tail(Plan))
  BY PlanOK, HeadAndTail
<1>3. Pulled \subseteq Here(run) \cup Later(run)
  BY <1>2 DEF Fresh, Pulled, Here, Later
<1>4. Wanted \cap Here(run) \subseteq Room(run, Wanted)
  BY WantedLive, FreshRoom DEF Fresh
<1>5. Wanted \subseteq Ahead(run, Wanted)
  BY <1>3, <1>4 DEF Wanted, Ahead
<1>6. Kept(run, Wanted)
  BY <1>5 DEF Kept, Fresh
<1>7. Exact(run, Wanted) /\ Apart(run, Wanted)
  BY <1>1 DEF Exact, Apart, Fresh
<1>8. Once(run)
  <2>1. Sole(<<>>)
    BY DEF Sole, IsInjective
  <2> QED
    BY <2>1 DEF Once, Fresh
<1> QED
  BY <1>6, <1>7, <1>8 DEF Walked

LEMMA FreshWalks == [](Shaped /\ Fresh => Walked(run, Wanted))
BY FreshWalk, PTL
(***************************************************************************)
(* The books.                                                              *)
(***************************************************************************)
\* A walk that is over has yielded what was wanted and stood still.
LEMMA WalkedIsComplete ==
  ASSUME ErpInv, run.stage = "walked", ~Astray
  PROVE  /\ \A k \in Wanted \cap Settled : Version(k) \in Yielded
         /\ Calm => Wanted \subseteq Settled /\ Yielded = {Version(k) : k \in Wanted}
<1>1. Walked(run, Wanted)
  BY DEF ErpInv, Resting, Ends, Failures
<1>2. \A k \in Wanted \cap Settled : Version(k) \in Yielded
  BY <1>1 DEF Walked, Kept, Yielded
<1>3. Calm => Wanted \subseteq Settled
  BY WantedLive DEF Settled, Calm
<1>4. Calm => \A v \in Yielded : \E k \in Wanted : v = Version(k)
  BY <1>1 DEF Walked, Exact, Yielded
<1> QED
  BY <1>2, <1>3, <1>4

\* A backfill and a key scan want everything.
LEMMA EverythingWanted ==
  ASSUME run.walk # "incremental"
  PROVE  Wanted = Pulled
BY DEF Wanted, Due, Filters

LEMMA PublishedRows ==
  ASSUME run.walk \in Walks
  PROVE  /\ staged.rows \subseteq Published.rows \/ run.walk = "backfill"
         /\ run.walk # "keys" => Yielded \subseteq Published.rows
<1>1. Range(<<>>) = {}
  BY DEF Range
<1>2. CASE run.out = <<>>
  <2>1. Published = staged
    BY <1>2 DEF Published
  <2>2. Yielded = {}
    BY <1>1, <1>2 DEF Yielded
  <2> QED
    BY <2>1, <2>2
<1>3. CASE run.out # <<>> /\ run.walk # "keys"
  BY <1>3 DEF Published, Walks
<1>4. CASE run.walk = "keys"
  BY <1>4 DEF Published
<1> QED
  BY <1>2, <1>3, <1>4

LEMMA CompletionCoversMark ==
  ASSUME ErpInv, Completes
  PROVE  MarkIsCovered'
<1>1. PICK snapshots \in BOOLEAN, newMark \in [AllScopes -> Nat] : CompleteRun(snapshots, newMark)
  BY DEF Completes
<1>6. run.walk \in Walks
  BY DEF ErpInv, Shaped, TypeOK, Runs
<1>2. run.stage = "walked" /\ UNCHANGED <<erp, connector>> /\ staged' = Published
  BY <1>1 DEF CompleteRun, source
<1>3. Pulled' = Pulled /\ \A k : Version(k)' = Version(k)
  BY <1>2, SamePulled
<1> SUFFICES ASSUME sound', connector.name # BisTrack, NEW k \in Pulled, erp[k] <= mark'[Unscoped]
             PROVE  Version(k) \in staged'.rows
  BY <1>2, <1>3 DEF MarkIsCovered
<1>4. CASE run.walk = "keys"
  <2>1. sound /\ mark' = mark
    BY <1>1, <1>4 DEF CompleteRun
  <2>2. Version(k) \in staged.rows
    BY <2>1 DEF ErpInv, MarkIsCovered
  <2> QED
    BY <1>2, <1>4, <1>6, <2>2, PublishedRows
<1>5. CASE run.walk # "keys"
  <2>1. touched = {} /\ ~Astray /\ (sound \/ run.walk = "backfill")
    BY <1>1, <1>5 DEF CompleteRun, Astray
  <2>2. Calm
    BY <2>1 DEF Calm
  <2>3. \A j \in Wanted : Version(j) \in Yielded
    BY <1>2, <2>1, <2>2, WalkedIsComplete
  <2>4. CASE k \in Wanted
    BY <1>2, <1>5, <2>3, <2>4, <1>6, PublishedRows
  <2>5. CASE k \notin Wanted
    <3>1. Filters /\ ~(erp[k] > mark[Unscoped])
      BY <2>5 DEF Wanted, Due
    <3>2. run.walk = "incremental" /\ sound
      BY <2>1, <3>1 DEF Filters
    <3>3. erp[k] <= mark[Unscoped]
      <4>1. k \in Keys
        BY WantedLive DEF Live
      <4>2. erp[k] \in Nat /\ mark[Unscoped] \in Nat
        BY <4>1, ExtractionAssumption DEF ErpInv, Shaped, TypeOK, Stamps, AllScopes
      <4> QED
        BY <3>1, <4>2
    <3>4. Version(k) \in staged.rows
      BY <3>2, <3>3 DEF ErpInv, MarkIsCovered
    <3> QED
      BY <1>2, <3>2, <3>4, <1>6, PublishedRows
  <2> QED
    BY <2>4, <2>5
<1> QED
  BY <1>4, <1>5

\* What a step that moves no mark does not take away stays covered.
LEMMA StaysCovered ==
  ASSUME MarkIsCovered, UNCHANGED <<erp, connector, mark>>, sound' => sound,
         sound' => staged.rows \subseteq staged'.rows
  PROVE  MarkIsCovered'
<1>1. Pulled' = Pulled /\ \A k : Version(k)' = Version(k)
  BY SamePulled
<1> QED
  BY <1>1 DEF MarkIsCovered

\* What changes, changes after every mark, or what is promised is taken back.
LEMMA ChangeStaysCovered ==
  ASSUME ErpInv, NEW k \in Keys, NEW deletes \in BOOLEAN, ChangeErp(k, deletes)
  PROVE  MarkIsCovered'
<1>1. PICK stamp \in {clock, clock + 1} :
        /\ erp' = [erp EXCEPT ![k] = IF deletes THEN 0 ELSE stamp]
        /\ sound' = (sound /\ (deletes \/ stamp > mark[Unscoped]))
        /\ UNCHANGED <<connector, mark, staged>>
  BY DEF ChangeErp, books
<1> SUFFICES ASSUME sound', connector.name # BisTrack, NEW j \in Pulled', erp'[j] <= mark[Unscoped]
             PROVE  Version(j)' \in staged.rows
  BY <1>1 DEF MarkIsCovered
<1>2. /\ erp \in [Keys -> Nat] /\ clock \in Nat /\ mark[Unscoped] \in Nat /\ MarkIsCovered
  BY ExtractionAssumption DEF ErpInv, Shaped, TypeOK, Stamps, AllScopes
<1>3. j \in Keys /\ erp'[j] > 0 /\ j \in UNION {InScope(s) : s \in Range(Plan)}
  BY <1>1 DEF Pulled, Live, Plan, AgilityPlan
<1>4. sound /\ j # k
  <2>1. erp'[k] = IF deletes THEN 0 ELSE stamp
    BY <1>1, <1>2
  <2>2. sound /\ (deletes \/ stamp > mark[Unscoped])
    BY <1>1
  <2> QED
    BY <1>1, <1>2, <1>3, <2>1, <2>2
<1>5. erp'[j] = erp[j]
  BY <1>1, <1>2, <1>3, <1>4
<1>6. j \in Pulled /\ Version(j)' = Version(j)
  BY <1>3, <1>5 DEF Pulled, Live, Version
<1> QED
  BY <1>2, <1>4, <1>5, <1>6 DEF MarkIsCovered

(***************************************************************************)
(* The invariant.                                                          *)
(***************************************************************************)
\* A step of a walk that writes no books.
LEMMA WalkOn ==
  ASSUME ErpInv, UNCHANGED <<source, connector, books, history>>, run'.walk = run.walk,
         run'.stage \notin Ends, ~Astray' => Walked(run', Wanted), Shaped'
  PROVE  ErpInv'
<1>1. UNCHANGED <<erp, connector, mark, touched, staged, sound>>
  BY DEF source, books, history
<1>2. ~Astray' => Walked(run, Wanted)'
  BY <1>1, WalkedStays
<1>3. MarkIsCovered'
  <2>1. MarkIsCovered
    BY DEF ErpInv
  <2> QED
    BY <1>1, <2>1, StaysCovered
<1> QED
  BY <1>2, <1>3 DEF ErpInv, Resting

LEMMA PagesTurn ==
  ASSUME Shaped, Pages
  PROVE  \E q, new, over : Turns(q, new, over)
<1>1. CASE EclipsePage
  BY <1>1, EclipsePageTurns
<1>2. CASE EclipseHeaders
  BY <1>2, EclipseHeadersTurns
<1>3. CASE EclipseDetail /\ Head(run.pend) \in Live
  BY <1>3, EclipseDetailTurns
<1>4. CASE AgilityChunk
  BY <1>4, AgilityChunkTurns
<1>5. CASE NetsuitePage
  BY <1>5, NetsuitePageTurns
<1>6. CASE P21Page
  BY <1>6, P21PageTurns
<1>7. CASE P21Lines
  BY <1>7, P21LinesTurns
<1>8. CASE EssbasePage
  BY <1>8, EssbasePageTurns
<1>9. CASE EssbaseCubes /\ Head(run.pend) \in Live
  BY <1>9, EssbaseCubesTurns
<1>10. CASE CloudPage
  BY <1>10, CloudPageTurns
<1>11. CASE BusinessCentralPage
  BY <1>11, BusinessCentralPageTurns
<1>12. CASE CloudLinkPage
  BY <1>12, CloudLinkPageTurns
<1>13. CASE BisTrackPage
  BY <1>13, BisTrackPageTurns
<1> QED
  BY <1>1, <1>2, <1>3, <1>4, <1>5, <1>6, <1>7, <1>8, <1>9, <1>10, <1>11, <1>12, <1>13 DEF Pages

LEMMA PagesKeepInv ==
  ASSUME ErpInv, Pages
  PROVE  ErpInv'
<1>1. Shaped /\ run.stage = "walking"
  BY DEF ErpInv, Pages, EclipsePage, EclipseHeaders, EclipseDetail, AgilityChunk, NetsuitePage,
         P21Page, P21Lines, EssbasePage, EssbaseCubes, CloudPage, BusinessCentralPage,
         CloudLinkPage, BisTrackPage, Walking
<1>2. PICK q, new, over : Turns(q, new, over)
  BY <1>1, PagesTurn
<1>3. UNCHANGED <<source, connector, books, history>> /\ (run.strayed => q.strayed)
  BY <1>2 DEF Turns, Answered
<1>4. /\ run'.walk = run.walk /\ run'.stage \notin Ends
      /\ run'.deaf = run.deaf /\ run'.strayed = q.strayed
  <2>1. Len(run.left) = 1 \/ Len(run.left) > 1
    BY <1>1, ScopesApart, OneOrMore, Zenon
  <2>2. /\ run'.walk = run.walk /\ run'.deaf = run.deaf /\ run'.strayed = q.strayed
        /\ ~over => run'.stage = "walking"
        /\ over /\ Len(run.left) = 1 => run'.stage = "walked"
        /\ over /\ Len(run.left) > 1 => run'.stage = "walking"
    BY <1>1, <1>2, AfterTurn
  <2>3. over \in BOOLEAN
    BY <1>2 DEF Turns
  <2> QED
    BY <2>1, <2>2, <2>3 DEF Ends, Failures
<1>5. ASSUME ~Astray'
      PROVE  Walked(run', Wanted)
  <2>1. ~Astray /\ ~run'.strayed
    BY <1>3, <1>4, <1>5 DEF Astray
  <2>2. Walked(run, Wanted)
    BY <1>1, <2>1 DEF ErpInv, Resting, Ends, Failures
  <2> QED
    BY <1>1, <2>1, <2>2, PagesKeep
<1>6. Shaped'
  BY <1>1, PagesKeepShape
<1> QED
  BY <1>3, <1>4, <1>5, <1>6, WalkOn


LEMMA QueriesKeepInv ==
  ASSUME ErpInv, Queries
  PROVE  ErpInv'
<1>1. Shaped
  BY DEF ErpInv
<1>2. \E new : Selects(new)
  BY <1>1, BisTrackKeysSelects, LegacySelects DEF Queries
<1>3. /\ run'.walk = run.walk /\ run'.stage = "walked"
      /\ UNCHANGED <<source, connector, books, history>>
  BY <1>2 DEF Selects
<1>4. Walked(run', Wanted) /\ Shaped'
  BY <1>1, QueriesKeep, QueriesKeepShape
<1>5. run'.stage \notin Ends
  BY <1>3 DEF Ends, Failures
<1> QED
  BY <1>3, <1>4, <1>5, WalkOn

LEMMA RetriesKeepInv ==
  ASSUME ErpInv, Retries
  PROVE  ErpInv'
<1>1. PICK q : Retried(q)
  BY DEF Retries
<1>2. /\ run' = q /\ q.walk = run.walk /\ q.stage = "walking" /\ run.stage = "walking"
      /\ q.deaf = run.deaf /\ q.strayed = run.strayed
      /\ UNCHANGED <<source, connector, books, history>>
  BY <1>1 DEF Retried
<1>3. ASSUME ~Astray'
      PROVE  Walked(run', Wanted)
  <2>1. Shaped /\ Walked(run, Wanted)
    BY <1>2, <1>3 DEF ErpInv, Resting, Ends, Failures, Astray
  <2> QED
    BY <1>1, <1>2, <2>1, RetryKeeps
<1>4. Shaped' /\ run'.stage \notin Ends
  BY <1>1, <1>2, RetriesKeepShape DEF ErpInv, Ends, Failures
<1> QED
  BY <1>2, <1>3, <1>4, WalkOn

\* Of a walk that passes over a header nothing is claimed any more.
LEMMA KeylessKeepsInv ==
  ASSUME ErpInv, P21Keyless
  PROVE  ErpInv'
<1>1. /\ Shaped' /\ run'.strayed /\ UNCHANGED <<source, connector, books, history>>
      /\ run'.walk = run.walk /\ run'.stage \notin Ends
  BY KeylessKeepsShape DEF ErpInv
<1>2. Astray'
  BY <1>1 DEF Astray
<1> QED
  BY <1>1, <1>2, WalkOn


\* A run that ends, one way or the other.
LEMMA EndKeepsInv ==
  ASSUME NEW stage \in Ends, run' = Rest(stage), Shaped', MarkIsCovered'
  PROVE  ErpInv'
<1>1. run'.stage = stage /\ run'.out = <<>>
  BY RestOK
<1> QED
  BY <1>1 DEF ErpInv, Resting

LEMMA GivingUpKeepsInv ==
  ASSUME ErpInv, GivesUp
  PROVE  ErpInv'
<1>1. PICK cost \in {0, 1}, keeps \in BOOLEAN : FailRun(cost, keeps)
  BY DEF GivesUp
<1>2. /\ run' = Rest(IF keeps THEN "quarantined" ELSE "failed")
      /\ UNCHANGED <<erp, connector, mark>>
      /\ sound' => sound /\ staged' = staged
  BY <1>1 DEF FailRun, source
<1>3. Shaped' /\ MarkIsCovered
  BY GivingUpKeepsShape DEF ErpInv
<1>4. MarkIsCovered'
  BY <1>2, <1>3, StaysCovered
<1>5. (IF keeps THEN "quarantined" ELSE "failed") \in Ends
  BY DEF Ends, Failures
<1> QED
  BY <1>2, <1>3, <1>4, <1>5, EndKeepsInv

LEMMA UnstampedKeepsInv ==
  ASSUME ErpInv, EclipseUnstamped
  PROVE  ErpInv'
<1>1. /\ run' = Rest("failed") /\ UNCHANGED <<erp, connector, mark>>
      /\ sound' => sound
      /\ staged' = Published /\ run.walk = "incremental"
  BY DEF EclipseUnstamped, source
<1>2. Shaped' /\ MarkIsCovered
  BY UnstampedKeepsShape DEF ErpInv
<1>3. staged.rows \subseteq staged'.rows
  BY <1>1, PublishedRows DEF Walks
<1>4. MarkIsCovered'
  BY <1>1, <1>2, <1>3, StaysCovered
<1>5. "failed" \in Ends
  BY DEF Ends, Failures
<1> QED
  BY <1>1, <1>2, <1>4, <1>5, EndKeepsInv

LEMMA CompletionKeepsInv ==
  ASSUME ErpInv, Completes
  PROVE  ErpInv'
<1>1. run' = Rest("idle")
  BY DEF Completes, CompleteRun
<1>2. Shaped' /\ MarkIsCovered'
  BY CompletionKeepsShape, CompletionCoversMark DEF ErpInv
<1>3. "idle" \in Ends
  BY DEF Ends
<1> QED
  BY <1>1, <1>2, <1>3, EndKeepsInv

LEMMA StartKeepsInv ==
  ASSUME ErpInv, Start
  PROVE  ErpInv'
<1>1. PICK who \in Known, walk \in Walks, deaf \in BOOLEAN :
        StartRun(who, walk, Plan, deaf) /\ (deaf => who \in Deafened)
  BY StartCases
<1>2. /\ run' = NewRun(walk, Plan, deaf)
      /\ UNCHANGED <<erp, connector, mark, staged, sound>>
  BY <1>1 DEF StartRun, source, books
<1>3. Shaped' /\ MarkIsCovered
  BY <1>1, StartsFresh DEF ErpInv
<1>4. Plan' = Plan
  BY <1>2 DEF Plan, AgilityPlan
<1>5. Fresh'
  BY <1>2, <1>4 DEF Fresh, NewRun
<1>6. Shaped' /\ Fresh' => Walked(run, Wanted)'
  BY FreshWalks, PTL
<1>7. MarkIsCovered'
  BY <1>2, <1>3, StaysCovered
<1>8. run'.stage = "walking"
  BY <1>2 DEF NewRun
<1> QED
  BY <1>3, <1>5, <1>6, <1>7, <1>8 DEF ErpInv, Resting, Ends, Failures

\* Every connector remembers, counts or goes by the last row.
LEMMA KnownWalks ==
  ASSUME connector.name \in Known
  PROVE  Remembers \/ Counting \/ Keyset
BY DEF Known, Remembers, Counting, Keyset

\* A change of the ERP takes back what was promised of the record, and of every
\* record where pages are counted; what a walk by the last row has ahead stays.
LEMMA ChangeKeepsWalk ==
  ASSUME ErpInv, ~Resting, ~Astray, NEW k \in Keys, NEW deletes \in BOOLEAN, ChangeErp(k, deletes)
  PROVE  Walked(run, Wanted)'
<1>1. /\ \A j \in Keys \ {k} : erp'[j] = erp[j]
      /\ touched' = touched \cup {k} /\ UNCHANGED <<connector, mark, run>>
      /\ erp \in [Keys -> Stamps]
  BY DEF ChangeErp, books, ErpInv, Shaped, TypeOK
<1>2. Walked(run, Wanted)
  BY DEF ErpInv
<1>3. /\ Keyset' <=> Keyset
      /\ Counting' <=> Counting
      /\ Remembers' <=> Remembers
      /\ Here(run)' = Here(run) /\ Later(run)' = Later(run)
      /\ \A j : Beyond(run, j)' <=> Beyond(run, j)
  BY <1>1, SameStand
<1>4. ~Calm'
  BY <1>1 DEF Calm
<1>5. Counted' <=> Counting
  BY <1>1, <1>3 DEF Counted
<1>6. Keyset => Ahead(run, Wanted)' = Ahead(run, Wanted) /\ Room(run, Wanted)' = Room(run, Wanted)
  <2>1. Keyset => Room(run, Wanted)' = {j \in Here(run) : Beyond(run, j)}
    BY <1>3 DEF Room
  <2>2. Keyset => Room(run, Wanted) = {j \in Here(run) : Beyond(run, j)}
    BY DEF Room
  <2> QED
    BY <1>1, <1>3, <2>1, <2>2 DEF Ahead
<1>7. Kept(run, Wanted)'
  <2> SUFFICES ASSUME NEW j \in Wanted', j \in Settled'
               PROVE  \/ Version(j)' \in Range(run'.out)
                      \/ run'.stage = "walking" /\ j \in Ahead(run, Wanted)'
    BY DEF Kept
  <2>1. Keyset /\ j \in Keys \ touched'
    BY <1>3, <1>4 DEF Settled
  <2>2. j \in Settled /\ erp'[j] = erp[j]
    BY <1>1, <2>1 DEF Settled
  <2>3. j \in Wanted /\ Version(j)' = Version(j)
    <3>1. /\ j \in Live' /\ j \in UNION {InScope(s) : s \in Range(Plan')}
          /\ Plan' = Plan
      BY <1>1 DEF Wanted, Pulled, Plan, AgilityPlan
    <3>2. j \in Pulled
      BY <2>1, <2>2, <3>1 DEF Pulled, Live
    <3>3. Due(j)' <=> Due(j)
      BY <1>1, <2>2 DEF Due, Filters, Filterable, TypeMark
    <3> QED
      BY <2>2, <3>2, <3>3 DEF Wanted, Version
  <2> QED
    BY <1>1, <1>2, <1>6, <2>1, <2>2, <2>3 DEF Walked, Kept
<1>8. Exact(run, Wanted)'
  BY <1>4 DEF Exact
<1>9. Once(run)'
  BY <1>1, <1>2, <1>5 DEF Walked, Once, Counted, Sole
<1>10. Apart(run, Wanted)'
  <2> SUFFICES ASSUME run.stage = "walking", ~Remembers, ~Counting
               PROVE  /\ IsInjective(run.pend)
                      /\ IdsOf(Range(run.out)) \cap Ahead(run, Wanted)' = {}
                      /\ Range(run.pend) \cap Room(run, Wanted)' = {}
    BY <1>1, <1>3, <1>5 DEF Apart
  <2>1. Keyset
    BY KnownWalks DEF ErpInv, Shaped, WalkOK
  <2> QED
    BY <1>2, <1>6, <2>1 DEF Walked, Apart, Counted
<1> QED
  BY <1>7, <1>8, <1>9, <1>10 DEF Walked

LEMMA ChangeKeepsInv ==
  ASSUME ErpInv, NEW k \in Keys, NEW deletes \in BOOLEAN, ChangeErp(k, deletes)
  PROVE  ErpInv'
<1>1. Shaped' /\ MarkIsCovered'
  BY ChangeKeepsShape, ChangeStaysCovered DEF ErpInv
<1>2. UNCHANGED run
  BY DEF ChangeErp
<1>3. (Resting' <=> Resting) /\ (Astray' <=> Astray)
  BY <1>2 DEF Resting, Astray, ChangeErp
<1>4. ~Resting /\ ~Astray => Walked(run, Wanted)'
  BY ChangeKeepsWalk
<1>5. Resting => run'.out = <<>>
  BY <1>2 DEF ErpInv
<1> QED
  BY <1>1, <1>3, <1>4, <1>5 DEF ErpInv

LEMMA StutterKeepsInv ==
  ASSUME ErpInv, UNCHANGED vars
  PROVE  ErpInv'
<1>1. UNCHANGED <<source, connector, books, history, run>>
  BY DEF vars
<1>2. UNCHANGED <<erp, connector, mark, touched, staged, sound>>
  BY <1>1 DEF source, books, history
<1>3. Shaped'
  BY NextKeepsShape DEF ErpInv
<1>4. MarkIsCovered'
  BY <1>2, StaysCovered DEF ErpInv
<1>5. ~Resting /\ ~Astray => Walked(run, Wanted)'
  <2>1. ~Resting /\ ~Astray => Walked(run', Wanted)
    BY <1>1 DEF ErpInv
  <2> QED
    BY <1>1, <1>2, <2>1, WalkedStays
<1> QED
  BY <1>1, <1>3, <1>4, <1>5 DEF ErpInv, Resting, Astray


LEMMA InitErpInv ==
  ASSUME ExtractionInit
  PROVE  ErpInv
<1>1. Shaped
  BY InitShaped
<1>2. run.stage = "idle" /\ run.out = <<>>
  BY RestOK DEF ExtractionInit, Ends
<1>3. MarkIsCovered
  <2> SUFFICES ASSUME NEW k \in Pulled, erp[k] <= mark[Unscoped]
               PROVE  FALSE
    BY DEF MarkIsCovered
  <2>1. mark[Unscoped] = 0
    BY DEF ExtractionInit, AllScopes
  <2>2. erp[k] > 0 /\ erp[k] \in Nat
    BY <1>1, ExtractionAssumption DEF Pulled, Live, Shaped, TypeOK, Stamps
  <2> QED
    BY <2>1, <2>2
<1> QED
  BY <1>1, <1>2, <1>3 DEF ErpInv, Resting, Ends

LEMMA NextKeepsInv ==
  ASSUME ErpInv, [Next]_vars
  PROVE  ErpInv'
<1>1. CASE \E k \in Keys, deletes \in BOOLEAN : ChangeErp(k, deletes)
  BY <1>1, ChangeKeepsInv
<1>2. CASE Start
  BY <1>2, StartKeepsInv
<1>3. CASE Step
  <2>1. Pages \/ Queries \/ GivesUp \/ Retries \/ P21Keyless \/ EclipseUnstamped \/ Completes
    BY <1>3, StepCases DEF ErpInv
  <2> QED
    BY <2>1, PagesKeepInv, QueriesKeepInv, GivingUpKeepsInv, RetriesKeepInv, KeylessKeepsInv,
       UnstampedKeepsInv, CompletionKeepsInv
<1>4. CASE UNCHANGED vars
  BY <1>4, StutterKeepsInv
<1> QED
  BY <1>1, <1>2, <1>3, <1>4 DEF Next
(***************************************************************************)
(* Theorems.                                                               *)
(***************************************************************************)
\* For any ERP, any pages and any faults: what a run was asked for is yielded or
\* still ahead of the walk unless it went astray, and the watermark covers nothing
\* that is not staged.
THEOREM ExtractionInvariant == Spec => []ErpInv
<1>1. ExtractionInit => ErpInv
  BY InitErpInv
<1>2. ErpInv /\ [Next]_vars => ErpInv'
  BY NextKeepsInv
<1> QED
  BY <1>1, <1>2, PTL DEF Spec

\* A walk of an ERP that stood still yields exactly what was asked for, whichever
\* connector walks and whatever calls are refused and made again (_iter_records),
\* unless it went astray.
THEOREM WalkIsComplete == Spec => []UndisturbedWalkIsComplete
<1>1. ErpInv => UndisturbedWalkIsComplete
  BY WalkedIsComplete DEF UndisturbedWalkIsComplete, Calm
<1>2. Spec => []ErpInv
  BY ExtractionInvariant
<1> QED
  BY <1>1, <1>2, PTL

\* A walk that goes by the last row loses no row that nobody changed, however the
\* rest of the ERP changes while it is walked; Business Central's is one only as
\* long as no company takes a second page.
THEOREM KeysetIsLossless == Spec => []KeysetLosesNothing
<1>1. ErpInv => KeysetLosesNothing
  <2> SUFFICES ASSUME ErpInv, run.stage = "walked", Keyset, ~Astray, NEW k \in Wanted \ touched
               PROVE  Version(k) \in Yielded
    BY DEF KeysetLosesNothing
  <2>1. k \in Wanted \cap Settled
    BY WantedLive DEF Settled
  <2> QED
    BY <2>1, WalkedIsComplete
<1>2. Spec => []ErpInv
  BY ExtractionInvariant
<1> QED
  BY <1>1, <1>2, PTL

\* No id is yielded twice in a run: not after a restarted walk, a page asked for
\* again or a next link, unless pages are counted and rows moved, or the walk went
\* astray.
THEOREM YieldedOnce == Spec => []NothingYieldedTwice
<1>1. ErpInv => NothingYieldedTwice
  <2> SUFFICES ASSUME ErpInv, ~Counted, ~Astray
               PROVE  Sole(run.out)
    BY DEF NothingYieldedTwice, Counted, Sole
  <2>1. CASE Resting
    <3>1. run.out = <<>>
      BY <2>1 DEF ErpInv
    <3> QED
      BY <3>1 DEF Sole, IsInjective
  <2>2. CASE ~Resting
    BY <2>2 DEF ErpInv, Walked, Once
  <2> QED
    BY <2>1, <2>2
<1>2. Spec => []ErpInv
  BY ExtractionInvariant
<1> QED
  BY <1>1, <1>2, PTL

\* A live record that the watermark covers is in the staged file as it is now, or
\* no incremental run would ever bring it.
THEOREM WatermarkCoversStaged == Spec => []MarkIsCovered
<1>1. ErpInv => MarkIsCovered
  BY DEF ErpInv
<1>2. Spec => []ErpInv
  BY ExtractionInvariant
<1> QED
  BY <1>1, <1>2, PTL

\* What the end of a walk of an ERP that stood still tombstones is not there, where
\* an id is the same on every day.
LEMMA DeletedIsGone ==
  ASSUME ErpInv, run.stage = "walked", touched = {}, ~Astray, ~connector.dated,
         NEW snapshots \in BOOLEAN, NEW found \in Found
  PROVE  Deleted(snapshots, found) \cap Pulled = {}
<1> SUFFICES ASSUME NEW k \in Deleted(snapshots, found), k \in Pulled
             PROVE  FALSE
  OBVIOUS
<1>1. found = IdsOf(Yielded)
  BY DEF Found
<1>2. run.walk # "incremental" /\ k \notin IdsOf(Yielded)
  BY <1>1 DEF Deleted
<1>3. Version(k) \in Yielded
  BY <1>2, EverythingWanted, WalkedIsComplete DEF Calm
<1>4. Version(k)[1] = k
  BY DEF Version
<1> QED
  BY <1>2, <1>3, <1>4 DEF IdsOf

\* Tombstones are recorded by the end of a walk and by nothing else.
LEMMA TombstonesRecorded ==
  ASSUME ErpInv, [Next]_vars, tombstones' # tombstones
  PROVE  Completes
<1>1. CASE \E k \in Keys, deletes \in BOOLEAN : ChangeErp(k, deletes)
  BY <1>1 DEF ChangeErp, books
<1>2. CASE Start
  BY <1>2, StartCases DEF StartRun, books
<1>3. CASE Step
  <2>1. CASE Pages
    <3>1. \E q, new, over : Turns(q, new, over)
      BY <2>1, PagesTurn DEF ErpInv
    <3> QED
      BY <3>1 DEF Turns, Answered, books
  <2>2. CASE Queries
    BY <2>2, BisTrackKeysSelects, LegacySelects DEF Queries, Selects, books, ErpInv
  <2>3. CASE GivesUp
    BY <2>3 DEF GivesUp, FailRun
  <2>4. CASE Retries \/ P21Keyless
    BY <2>4 DEF Retries, Retried, P21Keyless, books
  <2>5. CASE EclipseUnstamped
    BY <2>5 DEF EclipseUnstamped
  <2> QED
    BY <1>3, <2>1, <2>2, <2>3, <2>4, <2>5, StepCases DEF ErpInv
<1>4. CASE UNCHANGED vars
  BY <1>4 DEF vars, books
<1> QED
  BY <1>1, <1>2, <1>3, <1>4 DEF Next

\* A key scan, or a full snapshot, of an ERP that stands still tombstones nothing
\* that is there, unless it went astray or the ids carry the day of the extraction
\* (reconcile_deletes, _reconcile_full_snapshot).
THEOREM LiveKeysKept == Spec => LiveKeysNotTombstoned
<1>1. ErpInv /\ [Next]_vars =>
        [touched = {} /\ ~Astray /\ ~connector.dated
           => (tombstones' \ tombstones) \cap Pulled = {}]_vars
  <2> SUFFICES ASSUME ErpInv, [Next]_vars, touched = {}, ~Astray, ~connector.dated,
                      tombstones' # tombstones
               PROVE  (tombstones' \ tombstones) \cap Pulled = {}
    OBVIOUS
  <2>1. PICK snapshots \in BOOLEAN, newMark \in [AllScopes -> Nat] : CompleteRun(snapshots, newMark)
    BY TombstonesRecorded DEF Completes
  <2>2. run.stage = "walked"
    BY <2>1 DEF CompleteRun
  <2>3. PICK found \in Found : tombstones' = tombstones \cup Deleted(snapshots, found)
    BY <2>1 DEF CompleteRun
  <2>4. Deleted(snapshots, found) \cap Pulled = {}
    BY <2>2, DeletedIsGone
  <2> QED
    BY <2>3, <2>4
<1>2. Spec => []ErpInv
  BY ExtractionInvariant
<1> QED
  BY <1>1, <1>2, PTL DEF Spec, LiveKeysNotTombstoned
=============================================================================
