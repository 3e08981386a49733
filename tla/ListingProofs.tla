---------------------------- MODULE ListingProofs ----------------------------
(***************************************************************************)
(* Proofs about the paged listing of Client, for every collection and page *)
(* size and any number of objects that come and go between two pages; and  *)
(* that the counters stay within their bounds.                             *)
(*                                                                         *)
(* ListInv says where the objects are that the listing has to name: read   *)
(* already, or behind the position up to which pages were read.  An        *)
(* insertion moves an object further back, never in front of it.           *)
(***************************************************************************)
EXTENDS ClientProofs, SequenceTheorems

ListTypeOK ==
  /\ coll \in Seq(Objects) /\ out \in Seq(Objects) /\ start \in Seq(Objects)
  /\ page \in Nat \ {0}
  /\ honours \in BOOLEAN /\ lost \in BOOLEAN /\ changed \in BOOLEAN

Behind(x) == \E i \in 1..Len(coll) : i > Len(out) /\ coll[i] = x

ListInv ==
  pc = "list" /\ honours =>
    /\ Len(out) = (page - 1) * PageSize
    /\ ~lost => \A x \in Range(start) : x \in Range(out) \/ Behind(x)
    /\ ~changed => coll = start /\ Len(out) <= Len(coll) /\ out = SubSeq(coll, 1, Len(out))

ListingInv == NonceInv /\ ListTypeOK /\ ListInv /\ NothingPassedOver

-----------------------------------------------------------------------------
(* The elements of a concatenation, by the part they come from.            *)
LEMMA Glue ==
  ASSUME NEW S, NEW u \in Seq(S), NEW v \in Seq(S)
  PROVE  /\ u \o v \in Seq(S)
         /\ Len(u \o v) = Len(u) + Len(v)
         /\ \A j \in 1..Len(u) : (u \o v)[j] = u[j]
         /\ \A j \in 1..Len(v) : (u \o v)[Len(u) + j] = v[j]
<1>1. Len(u) \in Nat /\ Len(v) \in Nat
  BY LenProperties
<1>2. /\ u \o v \in Seq(S)
      /\ Len(u \o v) = Len(u) + Len(v)
      /\ \A i \in 1..(Len(u) + Len(v)) :
           (u \o v)[i] = IF i <= Len(u) THEN u[i] ELSE v[i - Len(u)]
  BY ConcatProperties
<1>3. ASSUME NEW j \in 1..Len(u) PROVE (u \o v)[j] = u[j]
  BY <1>1, <1>2
<1>4. ASSUME NEW j \in 1..Len(v) PROVE (u \o v)[Len(u) + j] = v[j]
  <2>1. Len(u) + j \in 1..(Len(u) + Len(v)) /\ ~(Len(u) + j <= Len(u)) /\ Len(u) + j - Len(u) = j
    BY <1>1
  <2>2. QED
    BY <1>2, <2>1
<1>5. QED
  BY <1>2, <1>3, <1>4

(* A part of a sequence, and where its elements were.                      *)
LEMMA Part ==
  ASSUME NEW S, NEW s \in Seq(S), NEW m \in 1..(Len(s) + 1), NEW n \in 0..Len(s)
  PROVE  /\ SubSeq(s, m, n) \in Seq(S)
         /\ Len(SubSeq(s, m, n)) = IF m <= n THEN n - m + 1 ELSE 0
         /\ \A j \in m..n : SubSeq(s, m, n)[j - m + 1] = s[j]
<1>1. Len(s) \in Nat /\ m \in Int /\ n \in Int
  BY LenProperties
<1>2. \A j \in m..n : s[j] \in S
  BY <1>1, ElementOfSeq
<1>3. /\ SubSeq(s, m, n) \in Seq(S)
      /\ Len(SubSeq(s, m, n)) = IF m <= n THEN n - m + 1 ELSE 0
      /\ \A i \in 1..(n - m + 1) : SubSeq(s, m, n)[i] = s[m + i - 1]
  BY <1>1, <1>2, SubSeqProperties
<1>4. ASSUME NEW j \in m..n PROVE SubSeq(s, m, n)[j - m + 1] = s[j]
  <2>1. j - m + 1 \in 1..(n - m + 1) /\ m + (j - m + 1) - 1 = j
    BY <1>1
  <2>2. QED
    BY <1>3, <2>1
<1>5. QED
  BY <1>3, <1>4

(* Where InsertAt leaves the elements of a sequence.                       *)
LEMMA InsertAtMoves ==
  ASSUME NEW S, NEW s \in Seq(S), NEW x \in S, NEW i \in 1..(Len(s) + 1)
  PROVE  /\ InsertAt(s, i, x) \in Seq(S)
         /\ Len(InsertAt(s, i, x)) = Len(s) + 1
         /\ \A j \in 1..Len(s) : InsertAt(s, i, x)[IF j < i THEN j ELSE j + 1] = s[j]
<1> DEFINE left == SubSeq(s, 1, i - 1)
           right == SubSeq(s, i, Len(s))
           start1 == left \o <<x>>
<1>1. Len(s) \in Nat
  BY LenProperties
<1>2. left \in Seq(S) /\ Len(left) = i - 1 /\ \A j \in 1..(i - 1) : left[j] = s[j]
  <2>1. 1 \in 1..(Len(s) + 1) /\ i - 1 \in 0..Len(s)
    BY <1>1
  <2>2. \A j \in 1..(i - 1) : left[j - 1 + 1] = s[j]
    BY <2>1, Part
  <2>3. left \in Seq(S) /\ Len(left) = IF 1 <= i - 1 THEN i - 1 - 1 + 1 ELSE 0
    BY <2>1, Part
  <2>4. QED
    BY <1>1, <2>2, <2>3
<1>3. right \in Seq(S) /\ Len(right) = Len(s) - i + 1 /\ \A j \in i..Len(s) : right[j - i + 1] = s[j]
  <2>1. Len(s) \in 0..Len(s)
    BY <1>1
  <2>2. /\ right \in Seq(S) /\ Len(right) = IF i <= Len(s) THEN Len(s) - i + 1 ELSE 0
        /\ \A j \in i..Len(s) : right[j - i + 1] = s[j]
    BY <2>1, Part
  <2>3. QED
    BY <1>1, <2>2
<1>4. <<x>> \in Seq(S) /\ Len(<<x>>) = 1
  OBVIOUS
<1>5. InsertAt(s, i, x) = start1 \o right
  BY DEF InsertAt
<1> HIDE DEF left, right
<1>6. /\ start1 \in Seq(S) /\ Len(start1) = Len(left) + Len(<<x>>)
      /\ \A j \in 1..Len(left) : start1[j] = left[j]
  BY <1>2, <1>4, Glue
<1>7. Len(start1) = i
  BY <1>1, <1>2, <1>4, <1>6
<1> HIDE DEF start1
<1>a. start1 \in Seq(S) /\ right \in Seq(S)
  BY <1>3, <1>6
<1>8. /\ start1 \o right \in Seq(S) /\ Len(start1 \o right) = Len(start1) + Len(right)
      /\ \A j \in 1..Len(start1) : (start1 \o right)[j] = start1[j]
      /\ \A j \in 1..Len(right) : (start1 \o right)[Len(start1) + j] = right[j]
  BY <1>a, Glue
<1>9. Len(start1 \o right) = Len(s) + 1
  BY <1>1, <1>3, <1>7, <1>8
<1>10. ASSUME NEW j \in 1..Len(s), j < i PROVE (start1 \o right)[j] = s[j]
  <2>1. j \in 1..Len(left) /\ j \in 1..Len(start1) /\ j \in 1..(i - 1)
    BY <1>1, <1>2, <1>7, <1>10
  <2>2. QED
    BY <1>2, <1>6, <1>8, <2>1
<1>11. ASSUME NEW j \in 1..Len(s), ~(j < i) PROVE (start1 \o right)[j + 1] = s[j]
  <2>1. /\ j - i + 1 \in 1..Len(right) /\ j \in i..Len(s)
        /\ Len(start1) + (j - i + 1) = j + 1
    BY <1>1, <1>3, <1>7, <1>11
  <2>2. (start1 \o right)[j + 1] = right[j - i + 1]
    BY <1>8, <2>1
  <2>3. QED
    BY <1>3, <2>1, <2>2
<1>12. QED
  BY <1>5, <1>8, <1>9, <1>10, <1>11

(* RemoveAt leaves a sequence of the same elements.                        *)
LEMMA RemoveAtType ==
  ASSUME NEW S, NEW s \in Seq(S), NEW i \in 1..Len(s)
  PROVE  RemoveAt(s, i) \in Seq(S)
  BY SubSeqProperties, ConcatProperties DEF RemoveAt

-----------------------------------------------------------------------------
\* Up to where the next page reads.
To == IF Len(out) + PageSize < Len(coll) THEN Len(out) + PageSize ELSE Len(coll)

(* What the next page is, when the target honours the page parameter.      *)
LEMMA PageRead ==
  ASSUME ListTypeOK, honours, Len(out) = (page - 1) * PageSize
  PROVE  /\ Page(page) \in Seq(Objects)
         /\ Len(out) > Len(coll) => Len(Page(page)) = 0
         /\ Len(out) <= Len(coll) =>
              /\ Page(page) = SubSeq(coll, Len(out) + 1, To)
              /\ To \in Len(out)..Len(coll) /\ Len(Page(page)) = To - Len(out)
              /\ \A j \in (Len(out) + 1)..To : Page(page)[j - Len(out)] = coll[j]
<1> DEFINE s == Len(out)
<1>1. coll \in Seq(Objects) /\ s \in Nat /\ Len(coll) \in Nat /\ PageSize \in Nat \ {0}
  BY LenProperties, ClientAssumption DEF ListTypeOK
<1>2. Page(page) = SubSeq(coll, s + 1, To)
  <2>1. ((page - 1) * PageSize + 1) + PageSize - 1 = s + PageSize
    BY <1>1
  <2>2. QED
    BY <2>1 DEF Page, To
<1>3. To \in Nat /\ To <= Len(coll)
  BY <1>1 DEF To
<1>4. CASE s > Len(coll)
  <2>1. SubSeq(coll, s + 1, To) = << >>
    BY <1>1, <1>3, <1>4, SubSeqEmpty
  <2>2. Page(page) = << >>
    BY <1>2, <2>1
  <2>3. QED
    BY <1>1, <1>4, <2>2, EmptySeq
<1>5. CASE s <= Len(coll)
  <2>1. s + 1 \in 1..(Len(coll) + 1) /\ To \in 0..Len(coll) /\ To \in s..Len(coll)
    BY <1>1, <1>3, <1>5 DEF To
  <2>2. /\ SubSeq(coll, s + 1, To) \in Seq(Objects)
        /\ Len(SubSeq(coll, s + 1, To)) = IF s + 1 <= To THEN To - (s + 1) + 1 ELSE 0
        /\ \A j \in (s + 1)..To : SubSeq(coll, s + 1, To)[j - (s + 1) + 1] = coll[j]
    BY <1>1, <2>1, Part
  <2>3. ASSUME NEW j \in (s + 1)..To PROVE Page(page)[j - s] = coll[j]
    <3>1. j - (s + 1) + 1 = j - s
      BY <1>1, <2>1
    <3>2. QED
      BY <1>2, <2>2, <3>1
  <2>4. Len(Page(page)) = To - s
    BY <1>1, <1>2, <2>1, <2>2
  <2>5. Page(page) \in Seq(Objects)
    BY <1>2, <2>2
  <2>6. ~(s > Len(coll))
    BY <1>1, <1>5
  <2>7. QED
    BY <1>2, <2>1, <2>3, <2>4, <2>5, <2>6
<1>6. QED
  BY <1>1, <1>4, <1>5

(* What was behind is on the page, or behind a full page.                  *)
LEMMA PageNamesThem ==
  ASSUME ListTypeOK, honours, Len(out) = (page - 1) * PageSize, NEW x, Behind(x)
  PROVE  \/ x \in Range(Page(page))
         \/ /\ Len(Page(page)) = PageSize
            /\ \E i \in 1..Len(coll) : i > Len(out) + PageSize /\ coll[i] = x
<1>1. PICK i \in 1..Len(coll) : i > Len(out) /\ coll[i] = x
  BY DEF Behind
<1>2. Len(out) \in Nat /\ Len(coll) \in Nat /\ PageSize \in Nat \ {0}
  BY LenProperties, ClientAssumption DEF ListTypeOK
<1>3. Len(out) <= Len(coll)
  BY <1>1, <1>2
<1>4. /\ Page(page) \in Seq(Objects)
      /\ To \in Len(out)..Len(coll) /\ Len(Page(page)) = To - Len(out)
      /\ \A j \in (Len(out) + 1)..To : Page(page)[j - Len(out)] = coll[j]
  BY <1>3, PageRead
<1>5. CASE i <= To
  <2>1. i \in (Len(out) + 1)..To /\ i - Len(out) \in 1..Len(Page(page))
    BY <1>1, <1>2, <1>4, <1>5
  <2>2. Page(page)[i - Len(out)] = x
    BY <1>1, <1>4, <2>1
  <2>3. DOMAIN Page(page) = 1..Len(Page(page))
    BY <1>4, LenProperties
  <2>4. QED
    BY <2>1, <2>2, <2>3 DEF Range
<1>6. CASE i > To
  BY <1>1, <1>2, <1>4, <1>6 DEF To
<1>7. QED
  BY <1>2, <1>4, <1>5, <1>6

-----------------------------------------------------------------------------
(* A page leaves everything that was there from the beginning read or      *)
(* behind, and at the end of the listing read.                             *)
LEMMA PageStep == ListingInv /\ ListPage => ListTypeOK' /\ ListInv' /\ NothingPassedOver'
<1> SUFFICES ASSUME ListingInv, ListPage PROVE ListTypeOK' /\ ListInv' /\ NothingPassedOver'
  OBVIOUS
<1>1. CASE pc' = "failed" /\ UNCHANGED <<out, page>>
  BY <1>1 DEF ListingInv, ListTypeOK, ListInv, NothingPassedOver, ListPage, collection
<1>2. ASSUME out' = out \o Page(page), page' = page + 1, pc' = AfterPage(out', Page(page))
      PROVE  ListTypeOK' /\ ListInv' /\ NothingPassedOver'
  <2> DEFINE got == Page(page)
             s == Len(out)
  <2>1. UNCHANGED <<collection, start, lost, changed>> /\ pc = "list"
    BY DEF ListPage
  <2>2. s \in Nat /\ Len(coll) \in Nat /\ PageSize \in Nat \ {0} /\ page \in Nat \ {0}
    BY LenProperties, ClientAssumption DEF ListTypeOK, ListingInv
  <2>3. got \in Seq(Objects)
    <3> DEFINE from == IF honours THEN (page - 1) * PageSize + 1 ELSE 1
               end == from + PageSize - 1
               to == IF end < Len(coll) THEN end ELSE Len(coll)
    <3>1. got = SubSeq(coll, from, to)
      BY DEF Page
    <3>2. (page - 1) * PageSize \in Nat
      <4>1. page - 1 \in Nat
        BY <2>2
      <4>2. QED
        BY <2>2, <4>1
    <3>3. from \in Nat \ {0} /\ to \in Int /\ to <= Len(coll)
      BY <2>2, <3>2
    <3> HIDE DEF from, to, got
    <3>4. \A i \in from..to : coll[i] \in Objects
      BY <2>2, <3>3, ElementOfSeq DEF ListTypeOK, ListingInv
    <3>5. QED
      BY <3>1, <3>3, <3>4, SubSeqProperties
  <2>4. Len(got) \in Nat /\ out' \in Seq(Objects) /\ Len(out') = s + Len(got)
    BY <1>2, <2>3, LenProperties, ConcatProperties DEF ListTypeOK, ListingInv
  <2>5. Range(out') = Range(out) \cup Range(got)
    BY <1>2, <2>3, RangeConcatenation DEF ListTypeOK, ListingInv
  <2>6. ListTypeOK'
    BY <1>2, <2>1, <2>2, <2>4 DEF ListTypeOK, ListingInv, collection
  <2>7. ASSUME honours PROVE ListInv' /\ NothingPassedOver'
    <3>1. s = (page - 1) * PageSize /\ ListTypeOK
      BY <2>1, <2>7 DEF ListingInv, ListInv
    <3>2. /\ Len(out) > Len(coll) => Len(got) = 0
          /\ Len(out) <= Len(coll) =>
               /\ got = SubSeq(coll, Len(out) + 1, To)
               /\ To \in Len(out)..Len(coll) /\ Len(got) = To - Len(out)
      BY <2>7, <3>1, PageRead
    <3>3. Len(got) <= PageSize
      BY <2>2, <3>2 DEF To
    <3>4. ASSUME ~lost, NEW x \in Range(start)
          PROVE  \/ x \in Range(out')
                 \/ Len(got) = PageSize /\ \E i \in 1..Len(coll) : i > s + PageSize /\ coll[i] = x
      <4>1. x \in Range(out) \/ Behind(x)
        BY <2>1, <2>7, <3>4 DEF ListingInv, ListInv
      <4>2. QED
        BY <2>5, <2>7, <3>1, <4>1, PageNamesThem
    <3>5. ASSUME ~changed
          PROVE  /\ coll = start /\ s <= Len(coll) /\ To \in s..Len(coll)
                 /\ out' = SubSeq(coll, 1, To) /\ Len(out') = To
      <4>1. coll = start /\ s <= Len(coll) /\ out = SubSeq(coll, 1, s)
        BY <2>1, <2>7, <3>5 DEF ListingInv, ListInv
      <4>2. To \in s..Len(coll) /\ got = SubSeq(coll, s + 1, To) /\ Len(got) = To - s
        BY <3>2, <4>1
      <4>3. 1 \in 1..(Len(coll) + 1) /\ s \in (1 - 1)..Len(coll)
        BY <2>2, <4>1
      <4>4. SubSeq(coll, 1, s) \o SubSeq(coll, s + 1, To) = SubSeq(coll, 1, To)
        BY <3>1, <4>2, <4>3, ConcatAdjacentSubSeq DEF ListTypeOK
      <4>5. out' = SubSeq(coll, 1, To)
        BY <1>2, <4>1, <4>2, <4>4
      <4>6. Len(out') = To
        BY <2>2, <2>4, <4>2
      <4>7. QED
        BY <4>1, <4>2, <4>5, <4>6
    <3>6. ListInv'
      <4> SUFFICES ASSUME pc' = "list" PROVE ListInv'
        BY DEF ListInv
      <4>1. ~Enough(out', got)
        BY <1>2 DEF AfterPage
      <4>2. Len(got) = PageSize
        BY <2>2, <2>4, <3>3, <4>1 DEF Enough
      <4>3. Len(out') = (page' - 1) * PageSize
        <5>1. page' - 1 = (page - 1) + 1 /\ page - 1 \in Nat
          BY <1>2, <2>2
        <5>2. ((page - 1) + 1) * PageSize = (page - 1) * PageSize + PageSize
          BY <2>2, <5>1
        <5>3. QED
          BY <2>4, <3>1, <4>2, <5>1, <5>2
      <4>4. Len(out') = s + PageSize
        BY <2>4, <4>2
      <4>5. ~lost' => \A x \in Range(start') : x \in Range(out') \/ Behind(x)'
        BY <2>1, <3>4, <4>4 DEF Behind, collection
      <4>6. ~changed' => coll' = start' /\ Len(out') <= Len(coll') /\ out' = SubSeq(coll', 1, Len(out'))
        BY <2>1, <2>2, <3>5 DEF collection
      <4>7. QED
        BY <4>3, <4>5, <4>6 DEF ListInv
    <3>7. NothingPassedOver'
      <4> SUFFICES ASSUME pc' \notin {"list", "failed"} PROVE NothingPassedOver'
        BY DEF NothingPassedOver
      <4>1. Enough(out', got)
        BY <1>2 DEF AfterPage
      <4>2. Len(got) < PageSize \/ s + Len(got) >= Len(coll)
        BY <2>4, <4>1 DEF Enough
      <4>3. ASSUME ~lost, NEW x \in Range(start) PROVE x \in Range(out')
        BY <2>2, <2>4, <3>4, <4>2, <4>3
      <4>4. ASSUME ~changed PROVE out' = start
        <5>1. To = Len(coll)
          BY <2>2, <2>4, <3>2, <3>5, <4>2, <4>4 DEF To
        <5>2. SubSeq(coll, 1, Len(coll)) = coll
          BY <3>1, SubSeqFull DEF ListTypeOK
        <5>3. QED
          BY <3>5, <4>4, <5>1, <5>2
      <4>5. QED
        BY <2>1, <4>3, <4>4 DEF NothingPassedOver
    <3>8. QED
      BY <3>6, <3>7
  <2>8. ASSUME ~honours PROVE ListInv' /\ NothingPassedOver'
    BY <2>1, <2>8 DEF ListInv, NothingPassedOver, collection
  <2>9. QED
    BY <2>6, <2>7, <2>8
<1>3. QED
  BY <1>1, <1>2 DEF ListPage

(* The steps after the listing leave what it read alone.                   *)
LEMMA LaterStep ==
  ListingInv /\ (Pick \/ FetchForAttempt \/ Send \/ Renew) =>
    ListTypeOK' /\ ListInv' /\ NothingPassedOver'
<1> SUFFICES ASSUME ListingInv, Pick \/ FetchForAttempt \/ Send \/ Renew
             PROVE  ListTypeOK' /\ ListInv' /\ NothingPassedOver'
  OBVIOUS
<1>1. UNCHANGED <<listing, honours>> /\ pc \notin {"list", "failed"} /\ pc' # "list"
  BY DEF Pick, FetchForAttempt, Send, Renew, End, Answer, RefuseNonce, Lose, collection
<1>2. coll' \in Seq(Objects)
  <2>1. CASE coll' = coll
    BY <2>1 DEF ListingInv, ListTypeOK
  <2>2. CASE Send /\ CarryOut
    <3>1. writing \in Objects
      BY <2>2, ClientAssumption DEF Send, ListingInv, NonceInv, UnderWay, Writing
    <3>2. QED
      BY <2>2, <3>1, AppendProperties DEF CarryOut, ListingInv, ListTypeOK
  <2>3. QED
    BY <2>1, <2>2 DEF Pick, FetchForAttempt, Send, Renew, Answer, RefuseNonce, Lose, collection
<1>3. QED
  BY <1>1, <1>2 DEF ListingInv, ListTypeOK, ListInv, NothingPassedOver, listing

(* What others do while a listing runs leaves the rest behind.             *)
LEMMA EditStep == ListingInv /\ Others => ListTypeOK' /\ ListInv' /\ NothingPassedOver'
<1> SUFFICES ASSUME ListingInv, Others PROVE ListTypeOK' /\ ListInv' /\ NothingPassedOver'
  OBVIOUS
<1>1. UNCHANGED <<honours, pc, page, out, start>>
  BY DEF Others, Add, Delete, SessionEnds, SwitchCheck, Edit
<1>2. CASE SessionEnds \/ SwitchCheck
  BY <1>1, <1>2 DEF SessionEnds, SwitchCheck, ListingInv, ListTypeOK, ListInv, Behind, NothingPassedOver
<1>3. ASSUME NEW i \in DOMAIN coll, Delete(i) PROVE ListTypeOK' /\ ListInv' /\ NothingPassedOver'
  <2>1. coll' \in Seq(Objects)
    BY <1>3, LenProperties, RemoveAtType DEF Delete, ListingInv, ListTypeOK
  <2>2. QED
    BY <1>1, <1>3, <2>1 DEF Delete, Listing, ListingInv, ListTypeOK, ListInv, NothingPassedOver
<1>4. ASSUME NEW y \in Objects, NEW i \in 1..(Len(coll) + 1), Add(y, i)
      PROVE  ListTypeOK' /\ ListInv' /\ NothingPassedOver'
  <2>1. /\ coll' \in Seq(Objects) /\ Len(coll') = Len(coll) + 1
        /\ \A j \in 1..Len(coll) : coll'[IF j < i THEN j ELSE j + 1] = coll[j]
    BY <1>4, InsertAtMoves DEF Add, ListingInv, ListTypeOK
  <2>2. Len(coll) \in Nat /\ Len(out) \in Nat
    BY LenProperties DEF ListingInv, ListTypeOK
  <2>3. ASSUME NEW x, Behind(x) PROVE Behind(x)'
    <3>1. PICK j \in 1..Len(coll) : j > Len(out) /\ coll[j] = x
      BY <2>3 DEF Behind
    <3>2. \E k \in 1..Len(coll') : k > Len(out) /\ coll'[k] = x
      <4> DEFINE k == IF j < i THEN j ELSE j + 1
      <4>1. k \in 1..Len(coll') /\ k > Len(out)
        BY <2>1, <2>2, <3>1
      <4>2. coll'[k] = x
        BY <2>1, <3>1
      <4>3. QED
        BY <4>1, <4>2
    <3>3. QED
      BY <1>1, <3>2 DEF Behind
  <2>4. changed' = (changed \/ pc = "list") /\ lost' = lost
    BY <1>4 DEF Add, Listing
  <2>5. ListTypeOK'
    BY <1>1, <2>1, <2>4 DEF ListingInv, ListTypeOK
  <2>6. ListInv'
    BY <1>1, <2>3, <2>4 DEF ListingInv, ListInv
  <2>7. NothingPassedOver'
    BY <1>1, <2>4 DEF ListingInv, NothingPassedOver
  <2>8. QED
    BY <2>5, <2>6, <2>7
<1>5. QED
  BY <1>2, <1>3, <1>4 DEF Others

(* Where a listing begins everything is behind.                            *)
LEMMA ListingInit == Init => ListingInv
<1> SUFFICES ASSUME Init PROVE ListingInv
  OBVIOUS
<1>1. coll \in Seq(Objects) /\ out = << >> /\ start = coll /\ page = 1 /\ pc = "list"
  BY ClientAssumption DEF Init
<1>2. Len(out) = 0 /\ Len(coll) \in Nat /\ DOMAIN coll = 1..Len(coll) /\ PageSize \in Nat
  BY <1>1, LenProperties, ClientAssumption
<1>3. ListTypeOK
  <2>1. << >> \in Seq(Objects)
    BY EmptySeq
  <2>2. lost \in BOOLEAN /\ changed \in BOOLEAN /\ honours \in BOOLEAN
    BY DEF Init
  <2>3. QED
    BY <1>1, <2>1, <2>2 DEF ListTypeOK
<1>4. Len(out) = (page - 1) * PageSize
  BY <1>1, <1>2
<1>5. \A x \in Range(start) : Behind(x)
  BY <1>1, <1>2 DEF Range, Behind
<1>6. out = SubSeq(coll, 1, Len(out))
  BY <1>1, <1>2, SubSeqEmpty
<1>7. QED
  BY <1>1, <1>2, <1>3, <1>4, <1>5, <1>6, NonceInit DEF ListingInv, ListInv, NothingPassedOver

(* ListingInv is inductive.                                                *)
LEMMA ListingStep == ListingInv /\ [Next]_vars => ListingInv'
<1> SUFFICES ASSUME ListingInv, [Next]_vars PROVE ListingInv'
  OBVIOUS
<1>1. NonceInv'
  BY NonceStep DEF ListingInv
<1>2. CASE ListPage
  BY <1>1, <1>2, PageStep DEF ListingInv
<1>3. CASE Pick \/ FetchForAttempt \/ Send \/ Renew
  BY <1>1, <1>3, LaterStep DEF ListingInv
<1>4. CASE Others
  BY <1>1, <1>4, EditStep DEF ListingInv
<1>5. CASE UNCHANGED vars
  BY <1>1, <1>5
  DEF ListingInv, ListTypeOK, ListInv, Behind, NothingPassedOver, vars, collection, listing
<1>6. QED
  BY <1>2, <1>3, <1>4, <1>5 DEF Next, Handler

(* A listing that ended well names every object that was there from the    *)
(* beginning, for every page size, collection and edit between two pages.  *)
THEOREM ListingNothingPassedOver == Spec => []NothingPassedOver
<1>1. ListingInv => NothingPassedOver
  BY DEF ListingInv
<1>2. QED
  BY <1>1, ListingInit, ListingStep, PTL DEF Spec

-----------------------------------------------------------------------------
(* The guard of the listing, the attempts of a write, and the bounds.      *)
Counted ==
  /\ page \in 1..(MaxPages + 1)
  /\ pc = "list" => page <= MaxPages
  /\ pc \in {"list", "pick", "attempt", "send", "renew", "failed", "done"}
  /\ totals \in BOOLEAN
  /\ tries \in 0..2
  /\ edits \in 0..MaxEdits /\ faults \in 0..MaxFaults

(* Counted holds when a family's import begins.                            *)
LEMMA CountedInit == Init => Counted
  BY ClientAssumption, ClientBounds DEF Init, Counted

(* A failed request stays within the bound.                                *)
LEMMA FaultCounted ==
  ASSUME Counted, Fault \/ UNCHANGED faults
  PROVE  faults' \in 0..MaxFaults
  BY ClientBounds DEF Counted, Fault

(* The guard ends the listing after MaxPages pages, and a write is         *)
(* attempted twice at most.                                                *)
LEMMA CountedStep == Counted /\ [Next]_vars => Counted'
<1> SUFFICES ASSUME Counted, [Next]_vars PROVE Counted'
  OBVIOUS
<1>1. CASE ListPage
  <2>1. faults' \in 0..MaxFaults
    BY <1>1, FaultCounted DEF ListPage
  <2>2. UNCHANGED <<totals, tries, edits>> /\ pc = "list"
    BY <1>1 DEF ListPage, collection, post
  <2>3. CASE pc' = "failed" /\ UNCHANGED page
    BY <2>1, <2>2, <2>3 DEF Counted
  <2>4. CASE page' = page + 1 /\ pc' \in {"pick", "list", "failed"} /\ (page = MaxPages => pc' # "list")
    BY <2>1, <2>2, <2>4, ClientAssumption DEF Counted
  <2>5. QED
    BY <1>1, <2>3, <2>4 DEF ListPage, AfterPage
<1>2. CASE Pick
  <2>1. UNCHANGED <<totals, page, edits, faults>>
    BY <1>2 DEF Pick, collection, listing
  <2>2. pc' \in {"attempt", "done"} /\ tries' \in {1, tries}
    BY <1>2 DEF Pick
  <2>3. QED
    BY <2>1, <2>2 DEF Counted
<1>3. CASE FetchForAttempt \/ Renew \/ Send
  <2>1. faults' \in 0..MaxFaults
    BY <1>3, FaultCounted DEF FetchForAttempt, Renew, Send, Lose
  <2>2. UNCHANGED <<totals, page, edits>>
    BY <1>3 DEF FetchForAttempt, Renew, Send, collection, listing
  <2>3. pc' \in {"pick", "attempt", "send", "renew"} /\ tries' \in {2, tries}
    BY <1>3 DEF FetchForAttempt, Renew, Send, Answer, RefuseNonce, Lose, End
  <2>4. QED
    BY <2>1, <2>2, <2>3 DEF Counted
<1>4. CASE Others
  <2>1. Edit
    BY <1>4 DEF Others, Add, Delete, SessionEnds, SwitchCheck
  <2>2. edits' \in 0..MaxEdits
    BY <2>1, ClientBounds DEF Edit, Counted
  <2>3. QED
    BY <2>1, <2>2 DEF Edit, Counted
<1>5. CASE UNCHANGED vars
  <2>1. UNCHANGED <<page, pc, totals, tries, edits, faults>>
    BY <1>5 DEF vars, collection, listing, post
  <2>2. QED
    BY <2>1 DEF Counted
<1>6. QED
  BY <1>1, <1>2, <1>3, <1>4, <1>5 DEF Next, Handler

(* Type correctness of the client: what it lists are sequences of objects, *)
(* no listing reads more than MaxPages pages and no write is attempted a   *)
(* third time.                                                             *)
THEOREM ClientTypeOK == Spec => []TypeOK
<1>1. ListingInv /\ Counted => TypeOK
  BY DEF ListingInv, NonceInv, PostTypeOK, ResultTypeOK, ListTypeOK, Counted, TypeOK
<1>2. QED
  BY <1>1, ListingInit, ListingStep, CountedInit, CountedStep, PTL DEF Spec
=============================================================================
