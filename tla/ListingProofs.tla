---------------------------- MODULE ListingProofs ----------------------------
(***************************************************************************)
(* The pages of a list and the walk of a client along them, for lists and  *)
(* page sizes of any length, any number of creations and deletions during  *)
(* the walk and integers of any width.                                     *)
(*                                                                         *)
(* The rank of a row is the number of rows in front of it.  Row k of the   *)
(* list is the row of rank k - 1, so page p of size n holds the rows of    *)
(* the ranks from (p - 1) * n to p * n - 1.  The invariant of a walk says  *)
(* what lies in front of the next page: at least all rows that the client  *)
(* has passed (so it meets none of them again), and of the lasting rows    *)
(* that it has not read at most one for each deletion.                     *)
(***************************************************************************)
EXTENDS Listing, TLAPS, FiniteSetTheorems, SequenceTheorems

-----------------------------------------------------------------------------
(* Numbers. *)

\* Multiplication by a positive number keeps the order.
LEMMA Monotone ==
  ASSUME NEW n \in Nat \ {0}, NEW a \in Int, NEW b \in Int
  PROVE  a <= b => n * a <= n * b
OBVIOUS

\* What the division by a page size means.
LEMMA Division ==
  ASSUME NEW n \in Nat \ {0}, NEW x \in Nat
  PROVE  x \div n \in Int /\ n * (x \div n) <= x /\ x < n * (x \div n) + n
OBVIOUS

\* The number of pages: a page lies before the last one exactly when rows
\* remain behind it.
LEMMA PagesRemain ==
  ASSUME NEW total \in Nat, NEW p \in Nat \ {0}, NEW n \in Nat \ {0}, p * n + total <= MaxInt
  PROVE  p < TotalPages(total, n) <=> p * n < total
<1> USE IntWidth
<1>1. p * n \in Nat /\ n <= p * n
  <2>1. n * 1 <= n * p
    BY Monotone
  <2> QED BY <2>1
<1>2. CASE total = 0
  BY <1>1, <1>2 DEF TotalPages
<1>3. CASE total # 0
  <2> DEFINE x == total + n - 1
             q == x \div n
  <2>1. x \in Nat /\ Wrap(x) = x
    BY <1>1 DEF Wrap
  <2>2. TotalPages(total, n) = q
    BY <1>3, <2>1 DEF TotalPages
  <2>3. q \in Int /\ n * q <= x /\ x < n * q + n
    BY <2>1, Division
  <2> HIDE DEF q
  <2>4. ASSUME p < q PROVE p * n < total
    <3>1. n * (p + 1) <= n * q
      BY <2>3, <2>4, Monotone
    <3>2. n * (p + 1) = p * n + n
      OBVIOUS
    <3>3. n * q \in Int
      BY <2>3
    <3> QED BY <1>1, <2>3, <3>1, <3>2, <3>3
  <2>5. ASSUME ~(p < q) PROVE ~(p * n < total)
    <3>1. n * q <= n * p /\ n * p = p * n
      BY <2>3, <2>5, Monotone
    <3>2. n * q \in Int
      BY <2>3
    <3> QED BY <1>1, <2>3, <3>1, <3>2
  <2> QED BY <2>2, <2>4, <2>5
<1> QED BY <1>2, <1>3

\* The bounds of a page, without any wrapping.
LEMMA PageBounds ==
  ASSUME NEW total \in Nat, NEW p \in Nat \ {0}, NEW n \in Nat \ {0}, p * n + total <= MaxInt
  PROVE  /\ (p - 1) * n \in Nat /\ p * n = (p - 1) * n + n
         /\ Start(p, n) = (p - 1) * n
         /\ End(Start(p, n), n, total) = IF p * n < total THEN p * n ELSE total
         /\ ~Panics(total, p, n)
<1> DEFINE s == (p - 1) * n
<1>1. s \in Nat
  OBVIOUS
<1>2. p * n = s + n
  OBVIOUS
<1> HIDE DEF s
<1>3. Wrap(s) = s /\ Wrap(s + n) = s + n
  BY <1>1, <1>2, IntWidth DEF Wrap
<1>4. Start(p, n) = s
  BY <1>3 DEF Start, s
<1>5. End(s, n, total) = IF p * n < total THEN p * n ELSE total
  BY <1>2, <1>3 DEF End
<1>6. ~Panics(total, p, n)
  BY <1>1, <1>2, <1>4, <1>5 DEF Panics
<1> QED BY <1>1, <1>2, <1>4, <1>5, <1>6 DEF s

-----------------------------------------------------------------------------
(* Pages. *)

\* Paginate cuts out the rows between the bounds of a page.
LEMMA PageOfSequence ==
  ASSUME NEW S, NEW items \in Seq(S), NEW p \in Nat \ {0}, NEW n \in Nat \ {0},
         p * n + Len(items) <= MaxInt
  PROVE  LET page == Paginate(items, p, n)
             on == {k \in 1..Len(items) : (p - 1) * n < k /\ k <= p * n}
         IN  /\ Len(page) = Cardinality(on)
             /\ \A k \in on : page[k - (p - 1) * n] = items[k]
<1> DEFINE s == (p - 1) * n
           total == Len(items)
           e == IF p * n < total THEN p * n ELSE total
           on == {k \in 1..total : s < k /\ k <= p * n}
<1>1. total \in Nat
  OBVIOUS
<1>2. /\ s \in Nat /\ p * n = s + n /\ Start(p, n) = s
      /\ End(Start(p, n), n, total) = e
  BY <1>1, PageBounds
<1>3. Paginate(items, p, n) = IF s >= total THEN <<>> ELSE SubSeq(items, s + 1, e)
  BY <1>2 DEF Paginate
<1>4. on = (s + 1)..e
  <2> HIDE DEF s
  <2> QED BY <1>1, <1>2
<1>5. e \in Int
  BY <1>1, <1>2
<1>6. Cardinality(on) = IF s + 1 > e THEN 0 ELSE e - s
  <2> HIDE DEF s, e, on
  <2> QED BY <1>2, <1>4, <1>5, FS_Interval
<1> HIDE DEF s
<1>7. CASE s >= total
  <2>1. s + 1 > e
    BY <1>1, <1>2, <1>7
  <2>2. Paginate(items, p, n) = <<>>
    BY <1>3, <1>7
  <2>3. on = {}
    BY <1>2, <1>4, <1>5, <2>1
  <2> QED BY <1>6, <2>1, <2>2, <2>3 DEF s
<1>8. CASE s < total
  <2>1. s + 1 <= e /\ e <= total
    BY <1>1, <1>2, <1>8
  <2>2. Paginate(items, p, n) = SubSeq(items, s + 1, e)
    BY <1>1, <1>2, <1>3, <1>8
  <2> HIDE DEF e, on
  <2>3. \A i \in (s + 1)..e : items[i] \in S
    BY <1>1, <1>2, <1>5, <2>1
  <2>4. /\ Len(SubSeq(items, s + 1, e)) = IF s + 1 <= e THEN e - (s + 1) + 1 ELSE 0
        /\ \A i \in 1..(e - (s + 1) + 1) : SubSeq(items, s + 1, e)[i] = items[s + 1 + i - 1]
    BY <1>2, <1>5, <2>3, SubSeqProperties
  <2>5. ASSUME NEW k \in on PROVE Paginate(items, p, n)[k - s] = items[k]
    <3>1. k - s \in 1..(e - (s + 1) + 1) /\ s + 1 + (k - s) - 1 = k
      BY <1>2, <1>4, <1>5, <2>5
    <3> QED BY <2>2, <2>4, <3>1
  <2>6. Len(Paginate(items, p, n)) = Cardinality(on)
    BY <1>2, <1>5, <1>6, <2>1, <2>2, <2>4
  <2> QED BY <2>5, <2>6 DEF s, on
<1> QED BY <1>1, <1>2, <1>7, <1>8

-----------------------------------------------------------------------------
(* The order of the rows. *)

\* The rows that come before i in the list.
Rank(i) == Cardinality({j \in rows : Before(j, i)})

\* What the order of the rows depends on.
RowsInv == born \in [Ids -> Int] /\ rows \subseteq Ids

\* Rows are in order one after the other, none before itself.
LEMMA Ordered ==
  ASSUME RowsInv
  PROVE  /\ \A i, j \in Ids : Before(i, j) => ~Before(j, i)
         /\ \A i, j, k \in Ids : Before(i, j) /\ Before(j, k) => Before(i, k)
         /\ \A i, j \in Ids : i # j => Before(i, j) \/ Before(j, i)
<1>1. \A i \in Ids : i \in Int /\ born[i] \in Int
  BY ListingData DEF RowsInv
<1> QED BY <1>1 DEF Before

\* A set of rows that has the rows before each of its own has more members
\* than any of them has rows before it.
LEMMA RankInPrefix ==
  ASSUME RowsInv, NEW D, D \subseteq rows, NEW i \in D,
         \A j \in rows : Before(j, i) => j \in D
  PROVE  Rank(i) \in Nat /\ Cardinality(D) \in Nat /\ Rank(i) < Cardinality(D)
<1> DEFINE P == {j \in rows : Before(j, i)}
<1>1. IsFiniteSet(D) /\ D \subseteq Ids
  BY ListingData, FS_Subset DEF RowsInv
<1>2. P \subseteq D /\ i \notin P
  BY <1>1, Ordered
<1>3. P \subseteq D \ {i}
  BY <1>2
<1>4. IsFiniteSet(D \ {i}) /\ Cardinality(D \ {i}) = Cardinality(D) - 1
  BY <1>1, FS_RemoveElement
<1>5. IsFiniteSet(P) /\ Cardinality(P) <= Cardinality(D \ {i})
  BY <1>3, <1>4, FS_Subset
<1>6. Cardinality(P) \in Nat /\ Cardinality(D) \in Nat
  BY <1>1, <1>5, FS_CardinalityType
<1> QED BY <1>4, <1>5, <1>6 DEF Rank

\* The rows have the ranks from 0 on, in their order.
LEMMA Ranks ==
  ASSUME RowsInv
  PROVE  /\ IsFiniteSet(rows) /\ Cardinality(rows) \in Nat
         /\ Cardinality(rows) <= Cardinality(Ids) /\ Cardinality(Ids) \in Nat
         /\ \A i \in rows : Rank(i) \in Nat /\ Rank(i) < Cardinality(rows)
         /\ \A i, j \in rows : Before(i, j) => Rank(i) < Rank(j)
         /\ \A i, j \in rows : Rank(i) = Rank(j) => i = j
<1>1. /\ IsFiniteSet(rows) /\ Cardinality(rows) <= Cardinality(Ids)
      /\ Cardinality(rows) \in Nat /\ Cardinality(Ids) \in Nat
  BY ListingData, FS_Subset, FS_CardinalityType DEF RowsInv
<1>2. \A i \in rows : Rank(i) \in Nat /\ Rank(i) < Cardinality(rows)
  BY RankInPrefix
<1>3. ASSUME NEW i \in rows, NEW j \in rows, Before(i, j) PROVE Rank(i) < Rank(j)
  <2> DEFINE D == {k \in rows : Before(k, j)}
  <2>1. i \in D /\ \A k \in rows : Before(k, i) => k \in D
    BY <1>3, Ordered DEF RowsInv
  <2> HIDE DEF D
  <2>2. D \subseteq rows /\ Rank(j) = Cardinality(D)
    BY DEF D, Rank
  <2> QED BY <2>1, <2>2, RankInPrefix
<1>4. ASSUME NEW i \in rows, NEW j \in rows, Rank(i) = Rank(j), i # j PROVE FALSE
  <2>1. Before(i, j) \/ Before(j, i)
    BY <1>4, Ordered DEF RowsInv
  <2> QED BY <1>2, <1>3, <1>4, <2>1
<1> QED BY <1>1, <1>2, <1>3, <1>4

\* The list has each row at its rank.
LEMMA ListByRank ==
  ASSUME RowsInv
  PROVE  /\ List \in Seq(rows) /\ Len(List) = Cardinality(rows)
         /\ \A k \in 1..Cardinality(rows) : List[k] \in rows /\ Rank(List[k]) = k - 1
         /\ \A i \in rows : Rank(i) + 1 \in 1..Cardinality(rows) /\ List[Rank(i) + 1] = i
<1> DEFINE T == Cardinality(rows)
           f == [i \in rows |-> Rank(i) + 1]
<1>1. T \in Nat /\ IsFiniteSet(1..T) /\ Cardinality(1..T) = T
  BY Ranks, FS_Interval
<1>2. f \in Injection(rows, 1..T)
  BY <1>1, Ranks DEF Injection, IsInjective
<1>3. f \in Surjection(rows, 1..T)
  BY <1>1, <1>2, FS_Injection
<1>4. \A k \in 1..T : \E i \in rows : Rank(i) = k - 1
  <2> SUFFICES ASSUME NEW k \in 1..T PROVE \E i \in rows : Rank(i) = k - 1
    OBVIOUS
  <2>1. PICK i \in rows : f[i] = k
    BY <1>3 DEF Surjection
  <2> QED BY <1>1, <2>1, Ranks
<1>5. List = [k \in 1..T |-> CHOOSE i \in rows : Rank(i) = k - 1]
  BY DEF List, Rank
<1>6. \A k \in 1..T : List[k] \in rows /\ Rank(List[k]) = k - 1
  BY <1>4, <1>5
<1>7. List \in [1..T -> rows]
  BY <1>5, <1>6
<1>8. List \in Seq(rows) /\ Len(List) = T
  BY <1>1, <1>7
<1>9. ASSUME NEW i \in rows PROVE Rank(i) + 1 \in 1..T /\ List[Rank(i) + 1] = i
  <2>1. Rank(i) + 1 \in 1..T
    BY <1>1, Ranks
  <2> QED BY <1>6, <2>1, Ranks
<1> QED BY <1>6, <1>8, <1>9

-----------------------------------------------------------------------------
(* The pages of the list. *)

\* A page and its link, as long as the bounds of the page are no larger than
\* integers of the machine; a page that holds every row may be of any size.
Fits(p, n, total) == /\ total <= MaxInt
                     /\ p * n + total <= MaxInt \/ (p = 1 /\ total <= n /\ n <= MaxInt)

\* One page that holds every row is the last one, even if the number of rows
\* and the size together are too large for an integer.
LEMMA OnePage ==
  ASSUME NEW total \in Nat, NEW n \in Nat \ {0}, total <= n, n <= MaxInt
  PROVE  /\ TotalPages(total, n) \in Int /\ TotalPages(total, n) <= 1
         /\ Start(1, n) = 0 /\ End(0, n, total) = total
<1> USE IntWidth
<1>1. Start(1, n) = 0 /\ End(0, n, total) = total
  BY DEF Start, End, Wrap
<1>2. CASE total = 0
  BY <1>1, <1>2 DEF TotalPages
<1>3. CASE total # 0
  <2> DEFINE x == total + n - 1
             w == Wrap(x)
             q == w \div n
  <2>1. w \in Int /\ w < 2 * n
    <3>1. CASE x <= MaxInt
      BY <3>1 DEF Wrap
    <3>2. CASE x > MaxInt
      <4>1. w = ((x + MaxInt + 1) % (2 * MaxInt + 2)) - MaxInt - 1
        BY <3>2 DEF Wrap
      <4>2. (x + MaxInt + 1) % (2 * MaxInt + 2) = x + MaxInt + 1 - (2 * MaxInt + 2)
        BY <3>2
      <4> QED BY <4>1, <4>2
    <3> QED BY <3>1, <3>2
  <2> HIDE DEF w
  <2>2. q \in Int /\ n * q <= w
    BY <2>1
  <2>3. TotalPages(total, n) = q
    BY <1>3 DEF TotalPages, w
  <2> HIDE DEF q
  <2>4. ASSUME q >= 2 PROVE FALSE
    <3>1. n * 2 <= n * q
      BY <2>2, <2>4, Monotone
    <3>2. n * q \in Int
      BY <2>2
    <3> QED BY <2>1, <2>2, <3>1, <3>2
  <2> QED BY <1>1, <2>2, <2>3, <2>4
<1> QED BY <1>2, <1>3

\* The link leads to the next page exactly when rows remain.
LEMMA LinkToRest ==
  ASSUME NEW total \in Nat, NEW p \in Nat \ {0}, NEW n \in Nat \ {0}, Fits(p, n, total)
  PROVE  NextPage(p, TotalPages(total, n)) = IF p * n < total THEN <<p + 1>> ELSE <<>>
<1>1. CASE p * n + total <= MaxInt
  <2>1. TotalPages(total, n) \in Int
    <3>1. total + n - 1 \in Nat /\ Wrap(total + n - 1) = total + n - 1
      <4>1. n * 1 <= n * p /\ p * n = n * p
        BY Monotone
      <4> QED BY <1>1, <4>1, IntWidth DEF Wrap
    <3> QED BY <3>1, Division DEF TotalPages
  <2>2. p < TotalPages(total, n) <=> p * n < total
    BY <1>1, PagesRemain
  <2> QED BY <2>1, <2>2 DEF NextPage
<1>2. CASE p = 1 /\ total <= n /\ n <= MaxInt
  BY <1>2, OnePage DEF NextPage
<1> QED BY <1>1, <1>2 DEF Fits

\* Paginate cuts out the rows between the bounds of a page.
LEMMA PageCut ==
  ASSUME NEW S, NEW items \in Seq(S), NEW p \in Nat \ {0}, NEW n \in Nat \ {0},
         Fits(p, n, Len(items))
  PROVE  LET page == Paginate(items, p, n)
             s == (p - 1) * n
         IN  /\ page \in Seq(S) /\ s \in Nat /\ s + n = p * n
             /\ \A k \in 1..Len(page) : /\ s + k <= Len(items) /\ k <= n
                                        /\ page[k] = items[s + k]
             /\ \A k \in 1..n : s + k <= Len(items) => k \in 1..Len(page)
<1> DEFINE s == (p - 1) * n
           total == Len(items)
           e == IF p * n < total THEN p * n ELSE total
           page == Paginate(items, p, n)
<1>1. total \in Nat /\ s \in Nat /\ s + n = p * n
  OBVIOUS
<1>2. Start(p, n) = s /\ End(Start(p, n), n, total) = e
  <2>1. CASE p * n + total <= MaxInt
    BY <1>1, <2>1, PageBounds
  <2>2. CASE p = 1 /\ total <= n /\ n <= MaxInt
    BY <1>1, <2>2, OnePage
  <2> QED BY <2>1, <2>2 DEF Fits
<1>3. page = IF s >= total THEN <<>> ELSE SubSeq(items, s + 1, e)
  BY <1>2 DEF Paginate
<1> HIDE DEF s, page
<1>4. CASE s >= total
  BY <1>1, <1>3, <1>4 DEF s, page
<1>5. CASE s < total
  <2>1. page = SubSeq(items, s + 1, e)
    BY <1>1, <1>3, <1>5
  <2>2. e \in Int /\ s + 1 <= e /\ e <= total /\ e <= s + n
    BY <1>1, <1>5
  <2>3. \A i \in (s + 1)..e : items[i] \in S
    BY <1>1, <2>2
  <2> HIDE DEF e
  <2>4. /\ page \in Seq(S) /\ Len(page) = e - s
        /\ \A k \in 1..(e - s) : page[k] = items[s + k]
    <3>1. /\ SubSeq(items, s + 1, e) \in Seq(S)
          /\ Len(SubSeq(items, s + 1, e)) = IF s + 1 <= e THEN e - (s + 1) + 1 ELSE 0
          /\ \A k \in 1..(e - (s + 1) + 1) : SubSeq(items, s + 1, e)[k] = items[s + 1 + k - 1]
      BY <1>1, <2>2, <2>3, SubSeqProperties
    <3>2. e - (s + 1) + 1 = e - s /\ \A k \in Int : s + 1 + k - 1 = s + k
      BY <1>1, <2>2
    <3> QED BY <1>1, <2>1, <2>2, <3>1, <3>2
  <2>5. \A k \in 1..n : s + k <= total => k <= e - s
    BY <1>1, <2>2 DEF e
  <2>6. /\ page \in Seq(S)
        /\ \A k \in 1..Len(page) : s + k <= total /\ k <= n /\ page[k] = items[s + k]
        /\ \A k \in 1..n : s + k <= total => k \in 1..Len(page)
    BY <1>1, <2>2, <2>4, <2>5
  <2> QED BY <1>1, <2>6 DEF s, page
<1> QED BY <1>1, <1>4, <1>5

\* A page of the list has the rows of its ranks, in their order.
LEMMA PageByRank ==
  ASSUME RowsInv, NEW p \in Nat \ {0}, NEW n \in Nat \ {0}, Fits(p, n, Cardinality(rows))
  PROVE  LET page == Paginate(List, p, n)
             s == (p - 1) * n
         IN  /\ page \in Seq(rows)
             /\ \A k \in 1..Len(page) : Rank(page[k]) = s + k - 1 /\ k <= n
             /\ \A i \in rows : s <= Rank(i) /\ Rank(i) < s + n =>
                                   \E k \in 1..Len(page) : page[k] = i
<1> DEFINE page == Paginate(List, p, n)
           s == (p - 1) * n
<1>1. /\ page \in Seq(rows) /\ s \in Nat
      /\ \A k \in 1..Len(page) : /\ s + k <= Cardinality(rows) /\ k <= n
                                 /\ page[k] = List[s + k]
      /\ \A k \in 1..n : s + k <= Cardinality(rows) => k \in 1..Len(page)
  <2>1. List \in Seq(rows) /\ Len(List) = Cardinality(rows)
    BY ListByRank
  <2>2. Fits(p, n, Len(List))
    BY <2>1
  <2>3. /\ page \in Seq(rows) /\ s \in Nat /\ s + n = p * n
        /\ \A k \in 1..Len(page) : s + k <= Len(List) /\ k <= n /\ page[k] = List[s + k]
        /\ \A k \in 1..n : s + k <= Len(List) => k \in 1..Len(page)
    <3> HIDE DEF Fits
    <3> QED BY ONLY <2>1, <2>2, PageCut, p \in Nat \ {0}, n \in Nat \ {0}
  <2> QED BY <2>1, <2>3
<1> HIDE DEF page, s
<1>2. Cardinality(rows) \in Nat
  BY Ranks
<1>3. ASSUME NEW k \in 1..Len(page) PROVE Rank(page[k]) = s + k - 1 /\ k <= n
  <2>1. s + k \in 1..Cardinality(rows)
    BY <1>1, <1>2
  <2> QED BY <1>1, <2>1, ListByRank
<1>4. ASSUME NEW i \in rows, s <= Rank(i), Rank(i) < s + n
      PROVE  \E k \in 1..Len(page) : page[k] = i
  <2> DEFINE k == Rank(i) + 1 - s
  <2>1. Rank(i) \in Nat /\ Rank(i) + 1 \in 1..Cardinality(rows) /\ List[Rank(i) + 1] = i
    BY Ranks, ListByRank
  <2>2. k \in 1..n /\ s + k = Rank(i) + 1
    BY <1>1, <1>4, <2>1
  <2> HIDE DEF k
  <2>3. k \in 1..Len(page)
    BY <1>1, <1>2, <2>1, <2>2
  <2> QED BY <1>1, <2>1, <2>2, <2>3
<1> QED BY <1>1, <1>3, <1>4 DEF page, s

-----------------------------------------------------------------------------
(* One step of a walk: a page is read behind the rows of the pages before. *)

\* The rows that a client has passed when it has read the sequence past.
PassedBy(past) == {j \in rows : \E a \in DOMAIN past : ~Before(past[a], j)}

InOrder(past) == \A a, b \in DOMAIN past : a < b => Before(past[a], past[b])

\* Those of a set that it has not read.
Unread(past, set) == {i \in set : \A k \in DOMAIN past : past[k] # i}

\* No more than m rows have a rank below m.
LEMMA FewBelow ==
  ASSUME RowsInv, NEW m \in Nat
  PROVE  Cardinality({i \in rows : Rank(i) < m}) <= m
<1> DEFINE L == {i \in rows : Rank(i) < m}
           f == [i \in L |-> Rank(i)]
<1>1. f \in Injection(L, 0..(m - 1))
  BY Ranks DEF Injection, IsInjective
<1>2. IsFiniteSet(0..(m - 1)) /\ Cardinality(0..(m - 1)) = m
  BY FS_Interval
<1>3. Cardinality(L) <= Cardinality(0..(m - 1))
  BY <1>1, <1>2, FS_Injection
<1> QED BY <1>2, <1>3

\* What a client has passed has a rank below their number.
LEMMA PassedRanks ==
  ASSUME RowsInv, NEW past \in Seq(Ids), NEW s \in Nat, Cardinality(PassedBy(past)) <= s,
         NEW j \in PassedBy(past)
  PROVE  Rank(j) < s
<1>1. PassedBy(past) \subseteq rows
  BY DEF PassedBy
<1>2. ASSUME NEW i \in rows, Before(i, j) PROVE i \in PassedBy(past)
  <2>1. PICK a \in DOMAIN past : ~Before(past[a], j)
    BY DEF PassedBy
  <2>2. past[a] \in Ids /\ i \in Ids /\ j \in Ids
    BY <1>1 DEF RowsInv
  <2>3. ~Before(past[a], i)
    BY <1>2, <2>1, <2>2, Ordered
  <2> QED BY <2>3 DEF PassedBy
<1>3. Rank(j) \in Nat /\ Cardinality(PassedBy(past)) \in Nat /\ Rank(j) < Cardinality(PassedBy(past))
  BY <1>1, <1>2, RankInPrefix
<1> QED BY <1>3

\* If the pages before have passed no more rows than the page leaves out, the
\* page goes on in order, and passes no more rows than the next leaves out.
LEMMA ReadOrder ==
  ASSUME RowsInv, NEW p \in Nat \ {0}, NEW n \in Nat \ {0}, Fits(p, n, Cardinality(rows)),
         NEW past \in Seq(Ids), InOrder(past), Cardinality(PassedBy(past)) <= (p - 1) * n
  PROVE  LET all == past \o Paginate(List, p, n)
         IN  InOrder(all) /\ Cardinality(PassedBy(all)) <= p * n
<1> DEFINE page == Paginate(List, p, n)
           s == (p - 1) * n
           all == past \o page
<1>1. s \in Nat /\ s + n = p * n
  OBVIOUS
<1>2. /\ page \in Seq(rows)
      /\ \A k \in 1..Len(page) : Rank(page[k]) = s + k - 1 /\ k <= n
  BY PageByRank
<1>3. \A j \in PassedBy(past) : Rank(j) < s
  BY <1>1, PassedRanks
<1> HIDE DEF page, s
<1>4. \A k \in 1..Len(page) : page[k] \in rows /\ page[k] \in Ids
  BY <1>2 DEF RowsInv
<1>5. page \in Seq(Ids)
  BY <1>2 DEF RowsInv
<1>6. /\ Len(all) = Len(past) + Len(page) /\ DOMAIN all = 1..(Len(past) + Len(page))
      /\ \A a \in 1..(Len(past) + Len(page)) :
            all[a] = IF a <= Len(past) THEN past[a] ELSE page[a - Len(past)]
  BY <1>5, ConcatProperties
<1>7. /\ Len(past) \in Nat /\ Len(page) \in Nat /\ DOMAIN past = 1..Len(past)
      /\ \A a \in 1..Len(past) : past[a] \in Ids
  BY <1>5
<1>8. \A a \in 1..Len(past), k \in 1..Len(page) : Before(past[a], page[k])
  <2> SUFFICES ASSUME NEW a \in 1..Len(past), NEW k \in 1..Len(page), ~Before(past[a], page[k])
               PROVE  FALSE
    OBVIOUS
  <2>1. page[k] \in PassedBy(past)
    BY <1>4, <1>7 DEF PassedBy
  <2> QED BY <1>1, <1>2, <1>3, <2>1
<1>9. \A k, l \in 1..Len(page) : k < l => Before(page[k], page[l])
  <2> SUFFICES ASSUME NEW k \in 1..Len(page), NEW l \in 1..Len(page), k < l
               PROVE  Before(page[k], page[l])
    OBVIOUS
  <2>1. Rank(page[k]) < Rank(page[l])
    BY <1>1, <1>2
  <2>2. page[k] # page[l] /\ ~Before(page[l], page[k])
    <3>1. page[k] \in rows /\ page[l] \in rows
      BY <1>4
    <3>2. /\ Rank(page[k]) \in Nat /\ Rank(page[l]) \in Nat
          /\ Before(page[l], page[k]) => Rank(page[l]) < Rank(page[k])
      BY <3>1, Ranks
    <3> QED BY <2>1, <3>2
  <2> QED BY <1>4, <2>2, Ordered
<1> HIDE DEF all
<1>10. InOrder(all)
  <2> SUFFICES ASSUME NEW a \in DOMAIN all, NEW b \in DOMAIN all, a < b
               PROVE  Before(all[a], all[b])
    BY DEF InOrder
  <2>1. CASE b <= Len(past)
    BY <1>6, <1>7, <2>1 DEF InOrder
  <2>2. CASE a <= Len(past) /\ b > Len(past)
    <3>1. a \in 1..Len(past) /\ b - Len(past) \in 1..Len(page)
      BY <1>6, <1>7, <2>2
    <3>2. all[a] = past[a] /\ all[b] = page[b - Len(past)]
      BY <1>6, <1>7, <2>2
    <3> QED BY <1>8, <3>1, <3>2
  <2>3. CASE a > Len(past)
    <3>1. /\ a - Len(past) \in 1..Len(page) /\ b - Len(past) \in 1..Len(page)
          /\ a - Len(past) < b - Len(past)
      BY <1>6, <1>7, <2>3
    <3>2. all[a] = page[a - Len(past)] /\ all[b] = page[b - Len(past)]
      BY <1>6, <1>7, <2>3
    <3> QED BY <1>9, <3>1, <3>2
  <2> QED BY <1>6, <1>7, <2>1, <2>2, <2>3
<1>11. PassedBy(all) \subseteq {i \in rows : Rank(i) < s + n}
  <2> SUFFICES ASSUME NEW j \in rows, NEW a \in DOMAIN all, ~Before(all[a], j)
               PROVE  Rank(j) < s + n
    BY DEF PassedBy
  <2>1. Rank(j) \in Nat /\ j \in Ids
    BY Ranks DEF RowsInv
  <2>2. CASE a <= Len(past)
    <3>1. j \in PassedBy(past)
      BY <1>6, <1>7, <2>2 DEF PassedBy
    <3> QED BY <1>1, <1>3, <2>1, <3>1
  <2>3. CASE a > Len(past)
    <3> DEFINE k == a - Len(past)
    <3>1. k \in 1..Len(page) /\ all[a] = page[k]
      BY <1>6, <1>7, <2>3
    <3> HIDE DEF k
    <3>2. page[k] = j \/ Before(j, page[k])
      BY <1>4, <2>1, <3>1, Ordered
    <3>3. Rank(j) <= Rank(page[k])
      BY <1>1, <1>2, <1>4, <2>1, <3>1, <3>2, Ranks
    <3> QED BY <1>1, <1>2, <2>1, <3>1, <3>3
  <2> QED BY <1>6, <1>7, <2>2, <2>3
<1>12. Cardinality(PassedBy(all)) <= s + n
  <2> DEFINE L == {i \in rows : Rank(i) < s + n}
  <2>1. Cardinality(L) <= s + n
    BY <1>1, FewBelow
  <2>2. IsFiniteSet(L)
    BY Ranks, FS_Subset
  <2> HIDE DEF L
  <2>3. IsFiniteSet(PassedBy(all)) /\ Cardinality(PassedBy(all)) <= Cardinality(L)
    BY <1>11, <2>2, FS_Subset DEF L
  <2>4. Cardinality(PassedBy(all)) \in Nat /\ Cardinality(L) \in Nat
    BY <2>2, <2>3, FS_CardinalityType
  <2> QED BY <1>1, <2>1, <2>3, <2>4
<1> QED BY <1>1, <1>10, <1>12 DEF all, page

\* Reading a page leaves out no row in front of its end that was not left out
\* before.
LEMMA ReadMisses ==
  ASSUME RowsInv, NEW p \in Nat \ {0}, NEW n \in Nat \ {0}, Fits(p, n, Cardinality(rows)),
         NEW past \in Seq(Ids), NEW set \in SUBSET rows,
         NEW i \in Unread(past \o Paginate(List, p, n), set), Rank(i) < p * n
  PROVE  i \in Unread(past, set) /\ Rank(i) < (p - 1) * n
<1> DEFINE page == Paginate(List, p, n)
           s == (p - 1) * n
           all == past \o page
<1>1. s \in Nat /\ s + n = p * n
  OBVIOUS
<1>2. /\ page \in Seq(rows)
      /\ \A j \in rows : s <= Rank(j) /\ Rank(j) < s + n => \E k \in 1..Len(page) : page[k] = j
  BY PageByRank
<1> HIDE DEF page, s
<1>3. page \in Seq(Ids)
  BY <1>2 DEF RowsInv
<1>4. /\ DOMAIN all = 1..(Len(past) + Len(page))
      /\ \A a \in 1..(Len(past) + Len(page)) :
            all[a] = IF a <= Len(past) THEN past[a] ELSE page[a - Len(past)]
  BY <1>3, ConcatProperties
<1>5. Len(past) \in Nat /\ Len(page) \in Nat /\ DOMAIN past = 1..Len(past)
  BY <1>3
<1>6. i \in set /\ i \in rows /\ \A a \in DOMAIN all : all[a] # i
  BY DEF Unread, page
<1> HIDE DEF all
<1>7. \A a \in DOMAIN past : past[a] # i
  BY <1>4, <1>5, <1>6
<1>8. ASSUME NEW k \in 1..Len(page), page[k] = i PROVE FALSE
  <2>1. Len(past) + k \in DOMAIN all /\ all[Len(past) + k] = page[k]
    BY <1>4, <1>5
  <2> QED BY <1>6, <1>8, <2>1
<1>9. Rank(i) \in Nat
  BY <1>6, Ranks
<1>10. Rank(i) < s
  BY <1>1, <1>2, <1>6, <1>8, <1>9
<1> QED BY <1>6, <1>7, <1>10 DEF Unread, s

-----------------------------------------------------------------------------
(* The invariant of a walk. *)

WalkSize == PageSize(size, cfg)

\* The number of rows that the next page leaves out.
Ahead == (next[1] - 1) * WalkSize

\* The lasting rows that stand before the next page and have not been read:
\* no later page will have them.
Skipped == {i \in Unread(seen, kept) : Rank(i) < Ahead}

SizesInv == cfg.max <= MaxInt /\ Valid(size)

LinkInv == Walking => next[1] >= 2 /\ Ahead <= Cardinality(Ids)

OrderInv == ~wedged => /\ InOrder(seen)
                       /\ Walking => Cardinality(PassedBy(seen)) <= Ahead

SkipInv == /\ Walking => Cardinality(Skipped) <= losses
           /\ ~Walking => Cardinality(Unread(seen, kept)) <= losses

WalkInv == TypeOK /\ SizesInv /\ LinkInv /\ OrderInv /\ SkipInv

\* The rows that a client may have read.
Born == {i \in Ids : born[i] <= clock}

LEMMA TypedRows == TypeOK => RowsInv /\ rows \subseteq Born /\ Born \subseteq Ids
BY ListingData DEF TypeOK, RowsInv, Born, NotYet

\* The size of a page is positive and fits an integer.
LEMMA SizeFits ==
  ASSUME cfg \in [size : Nat \ {0}, max : Nat \ {0}], cfg.max <= MaxInt,
         NEW param \in SizeParams, Valid(param)
  PROVE  PageSize(param, cfg) \in Nat \ {0} /\ PageSize(param, cfg) <= MaxInt
<1>1. Positive(param, cfg.size) \in Nat \ {0}
  <2>1. param \in Seq(Int) /\ Len(param) <= 1
    BY ListingData DEF Keys
  <2>2. CASE param = <<>>
    BY <2>2 DEF Positive
  <2>3. CASE param # <<>>
    <3>1. 1 \in DOMAIN param /\ param[1] \in Int
      BY <2>1, <2>3
    <3> QED BY <2>3, <3>1 DEF Valid, Positive
  <2> QED BY <2>2, <2>3
<1> QED BY <1>1, IntWidth DEF PageSize

\* The repaired maximum is positive and fits an integer.
LEMMA MaxFits ==
  ASSUME NEW f \in Files
  PROVE  /\ Pagination(f) \in [size : Nat \ {0}, max : Nat \ {0}]
         /\ Pagination(f).max <= MaxInt
<1>1. f \in [size : Keys, max : Keys]
  BY ListingData
<1>2. \A key \in Keys : key # <<>> => 1 \in DOMAIN key /\ key[1] \in Int
  BY DEF Keys
<1>3. Decoded(f.size, StdPageSize) \in Int
  BY <1>1, <1>2, ConfigData DEF Decoded
<1>4. Decoded(f.max, StdMaxSize) \in Int /\ Decoded(f.max, StdMaxSize) <= MaxInt
  BY <1>1, <1>2, ConfigData, ListingFits DEF Decoded
<1> QED BY <1>3, <1>4, ConfigData, ListingFits, IntWidth DEF Pagination, Repaired

\* Both steps of a walk read a page behind what has been read before; if the
\* page continues that, the walk is as it should be afterwards.
LEMMA ReadKeeps ==
  ASSUME TypeOK, cfg.max <= MaxInt, NEW param \in SizeParams, Valid(param), NEW p \in Nat \ {0},
         Fits(p, PageSize(param, cfg), Cardinality(rows)),
         NEW past \in Seq(Born), kept' \subseteq rows, losses' \in Nat, wedged' \in BOOLEAN,
         UNCHANGED <<cfg, clock, born, rows>>, size' = param,
         seen' = past \o Page(p, param).rows, next' = Page(p, param).next,
         ~wedged' => /\ InOrder(past)
                     /\ Cardinality(PassedBy(past)) <= (p - 1) * PageSize(param, cfg),
         Cardinality({i \in Unread(past, kept') : Rank(i) < (p - 1) * PageSize(param, cfg)}) <= losses'
  PROVE  WalkInv'
<1> DEFINE n == PageSize(param, cfg)
           T == Cardinality(rows)
           page == Paginate(List, p, n)
           left == {i \in Unread(past, kept') : Rank(i) < (p - 1) * n}
<1>1. n \in Nat \ {0} /\ n <= MaxInt
  BY SizeFits DEF TypeOK
<1>2. RowsInv /\ rows \subseteq Born /\ Born \subseteq Ids
  BY TypedRows
<1>3. T \in Nat /\ IsFiniteSet(rows) /\ T <= Cardinality(Ids) /\ Cardinality(Ids) \in Nat
  BY <1>2, Ranks
<1>4. Len(List) = T
  BY <1>2, ListByRank
<1>5. seen' = past \o page /\ next' = IF p * n < T THEN <<p + 1>> ELSE <<>>
  BY <1>1, <1>3, <1>4, LinkToRest DEF Page
<1>6. page \in Seq(rows) /\ page \in Seq(Born) /\ past \in Seq(Ids)
  <2>1. page \in Seq(rows)
    BY <1>1, <1>2, PageByRank
  <2> QED BY <1>2, <2>1
<1>7. WalkSize' = n /\ \A i : Rank(i)' = Rank(i)
  BY DEF WalkSize, Rank, Before
<1>8. Walking' <=> p * n < T
  BY <1>5 DEF Walking
<1>9. Walking' => next'[1] = p + 1 /\ Ahead' = p * n
  BY <1>5, <1>7, <1>8 DEF Ahead
<1> HIDE DEF n, page
<1>10. p * n \in Nat
  BY <1>1
<1>11. TypeOK'
  <2>1. next' \in Keys /\ Valid(next)'
    BY <1>5 DEF Keys, Valid
  <2>2. seen' \in Seq(Born)
    BY <1>5, <1>6
  <2> QED BY <2>1, <2>2 DEF TypeOK, Born
<1>12. SizesInv'
  BY DEF SizesInv, Valid
<1>13. LinkInv'
  BY <1>3, <1>8, <1>9, <1>10 DEF LinkInv
<1>14. OrderInv'
  <2> SUFFICES ASSUME ~wedged'
               PROVE  InOrder(seen)' /\ (Walking' => Cardinality(PassedBy(seen))' <= Ahead')
    BY DEF OrderInv
  <2>1. InOrder(seen') /\ Cardinality(PassedBy(seen')) <= p * n
    BY <1>1, <1>2, <1>5, <1>6, ReadOrder DEF n, page
  <2>2. InOrder(seen)'
    <3>1. ASSUME NEW all, all = seen', InOrder(all) PROVE InOrder(seen)'
      <4>1. InOrder(seen)' <=> \A a, b \in DOMAIN all : a < b =>
               \/ born[all[a]] < born[all[b]]
               \/ born[all[a]] = born[all[b]] /\ all[a] < all[b]
        BY ONLY <3>1, UNCHANGED born DEF InOrder, Before
      <4> QED BY <3>1, <4>1 DEF InOrder, Before
    <3> QED BY <2>1, <3>1
  <2>3. PassedBy(seen)' = PassedBy(seen')
    BY DEF PassedBy, Before
  <2> QED BY <1>9, <2>1, <2>2, <2>3
<1>15. SkipInv'
  <2>1. IsFiniteSet(left) /\ Cardinality(left) <= losses' /\ left \subseteq rows
    <3>1. left \subseteq rows
      BY DEF Unread
    <3> QED BY <1>3, <3>1, FS_Subset DEF n
  <2>2. ASSUME NEW i \in Unread(seen', kept'), Rank(i) < p * n PROVE i \in left
    BY <1>1, <1>2, <1>5, <1>6, <2>2, ReadMisses DEF n, page
  <2> HIDE DEF left
  <2>3. \A D : D \subseteq left => Cardinality(D) <= losses'
    <3> SUFFICES ASSUME NEW D, D \subseteq left PROVE Cardinality(D) <= losses'
      OBVIOUS
    <3>1. Cardinality(D) <= Cardinality(left) /\ IsFiniteSet(D)
      BY <2>1, FS_Subset
    <3>2. Cardinality(D) \in Nat /\ Cardinality(left) \in Nat
      BY <2>1, <3>1, FS_CardinalityType
    <3> QED BY <2>1, <3>1, <3>2
  <2>4. Unread(seen, kept)' = Unread(seen', kept')
    BY DEF Unread
  <2>5. ASSUME Walking' PROVE Skipped' \subseteq left
    BY <1>7, <1>9, <2>2, <2>4, <2>5 DEF Skipped
  <2>6. ASSUME ~Walking' PROVE Unread(seen, kept)' \subseteq left
    <3>1. \A i \in Unread(seen', kept') : i \in rows
      BY DEF Unread
    <3>2. \A i \in rows : Rank(i) \in Nat /\ Rank(i) < T
      BY <1>2, Ranks
    <3>3. \A i \in rows : Rank(i) < p * n
      BY <1>3, <1>8, <1>10, <2>6, <3>2
    <3> QED BY <2>2, <2>4, <3>1, <3>3
  <2> QED BY <2>3, <2>5, <2>6 DEF SkipInv
<1> QED BY <1>11, <1>12, <1>13, <1>14, <1>15 DEF WalkInv

-----------------------------------------------------------------------------
(* The steps. *)

LEMMA InitKeeps == Init => WalkInv
<1> SUFFICES ASSUME Init PROVE WalkInv
  OBVIOUS
<1>1. cfg \in [size : Nat \ {0}, max : Nat \ {0}] /\ cfg.max <= MaxInt
  BY MaxFits DEF Init
<1>2. TypeOK
  <2>1. next \in Keys /\ Valid(next)
    BY DEF Init, Keys, Valid
  <2>2. seen \in Seq({i \in Ids : born[i] <= clock})
    BY DEF Init
  <2>3. clock \in 0..MaxClock /\ born \in [Ids -> 0..NotYet]
    BY ListingData DEF Init, NotYet
  <2> QED BY <1>1, <2>1, <2>2, <2>3 DEF Init, TypeOK
<1>3. ~Walking /\ Unread(seen, kept) = {}
  BY DEF Init, Walking, Unread
<1>4. InOrder(seen)
  BY DEF Init, InOrder
<1>5. SkipInv
  BY <1>3, FS_EmptySet DEF Init, SkipInv
<1> QED BY <1>1, <1>2, <1>3, <1>4, <1>5 DEF Init, WalkInv, SizesInv, LinkInv, OrderInv

LEMMA AheadIsNumber ==
  ASSUME TypeOK, SizesInv, Walking
  PROVE  Ahead \in Int
BY SizeFits DEF SizesInv, TypeOK, Ahead, WalkSize, Keys, Walking

\* A tick leaves all behind that has been read.
LEMMA TickKeeps ==
  ASSUME WalkInv, Tick
  PROVE  WalkInv'
<1>1. TypeOK'
  <2>1. clock' \in 0..MaxClock /\ clock < clock'
    BY ListingData DEF Tick, WalkInv, TypeOK
  <2>2. Born \subseteq Born'
    <3>1. born' = born /\ clock \in Int /\ clock' \in Int /\ \A i \in Ids : born[i] \in Int
      BY ListingData DEF Tick, WalkInv, TypeOK, NotYet
    <3> QED BY <2>1, <3>1 DEF Born
  <2>3. seen \in Seq(Born')
    BY <2>2 DEF WalkInv, TypeOK, Born
  <2> QED BY <2>1, <2>2, <2>3 DEF Tick, walkVars, historyVars, WalkInv, TypeOK, Born, Valid
<1>2. SizesInv' /\ LinkInv' /\ SkipInv'
  BY DEF Tick, walkVars, historyVars, WalkInv, SizesInv, LinkInv, SkipInv, Walking, Ahead,
         WalkSize, Skipped, Unread, Rank, Before, Valid
<1>3. OrderInv'
  BY DEF Tick, walkVars, historyVars, WalkInv, OrderInv, InOrder, PassedBy, Walking, Ahead,
         WalkSize, Before
<1> QED BY <1>1, <1>2, <1>3 DEF WalkInv

\* A new row comes behind all rows, or it wedges itself in; then it pushes rows
\* away from the front of the list, out of nobody's sight.
LEMMA CreateKeeps ==
  ASSUME WalkInv, NEW i \in Ids, Create(i)
  PROVE  WalkInv'
<1>1. /\ RowsInv /\ rows \subseteq Born /\ Born \subseteq Ids
      /\ clock \in Int /\ born[i] = NotYet /\ clock < NotYet /\ i \notin Born
  BY TypedRows, ListingData DEF WalkInv, TypeOK, Create, Born, NotYet
<1>2. /\ rows' = rows \cup {i} /\ born' = [born EXCEPT ![i] = clock]
      /\ born'[i] = clock /\ \A j \in Ids \ {i} : born'[j] = born[j]
  BY <1>1 DEF Create, RowsInv
<1>3. RowsInv' /\ Born' = Born \cup {i}
  BY <1>1, <1>2 DEF Create, RowsInv, Born
<1>4. /\ UNCHANGED <<cfg, clock, next, size, seen, kept, losses>>
      /\ wedged' = (wedged \/ \E j \in Ids : born[j] = clock /\ i < j)
  BY DEF Create, walkVars
<1>5. \A j, k \in Born : Before(j, k)' <=> Before(j, k)
  BY <1>1, <1>2 DEF Before
<1>6. seen \in Seq(Born) /\ kept \subseteq rows
  BY DEF WalkInv, TypeOK, Born
<1>7. \A a \in DOMAIN seen : seen[a] \in Born
  BY <1>6
<1>8. TypeOK'
  <2>1. seen \in Seq(Born')
    BY <1>3, <1>6
  <2>2. born' \in [Ids -> 0..NotYet]
    BY <1>1, <1>2, ListingData DEF WalkInv, TypeOK, NotYet
  <2> QED BY <1>1, <1>2, <1>3, <1>4, <2>1, <2>2 DEF WalkInv, TypeOK, Born, Valid
<1>9. SizesInv' /\ LinkInv'
  BY <1>4 DEF WalkInv, SizesInv, LinkInv, Walking, Ahead, WalkSize, Valid
<1>10. OrderInv'
  <2> SUFFICES ASSUME ~wedged'
               PROVE  InOrder(seen)' /\ (Walking' => Cardinality(PassedBy(seen))' <= Ahead')
    BY DEF OrderInv
  <2>1. ~wedged /\ \A j \in Ids : born[j] = clock => ~(i < j)
    BY <1>4
  <2>2. InOrder(seen)'
    BY <1>4, <1>5, <1>7, <2>1 DEF InOrder, WalkInv, OrderInv
  <2>3. \A j \in Born : Before(j, i)'
    <3> SUFFICES ASSUME NEW j \in Born PROVE Before(j, i)'
      OBVIOUS
    <3>1. /\ j \in Ids /\ j # i /\ j \in Int /\ i \in Int
          /\ born'[j] = born[j] /\ born[j] \in Int /\ born[j] <= clock
      BY <1>1, <1>2, ListingData DEF Born, RowsInv
    <3> QED BY <1>1, <1>2, <2>1, <3>1 DEF Before
  <2>4. PassedBy(seen)' \subseteq PassedBy(seen)
    BY <1>1, <1>2, <1>4, <1>5, <1>7, <2>3 DEF PassedBy
  <2>5. IsFiniteSet(PassedBy(seen)) /\ PassedBy(seen) \subseteq rows
    <3>1. PassedBy(seen) \subseteq rows
      BY DEF PassedBy
    <3> QED BY <1>1, <3>1, Ranks, FS_Subset
  <2>6. Cardinality(PassedBy(seen)') <= Cardinality(PassedBy(seen))
    BY <2>4, <2>5, FS_Subset
  <2>7. Cardinality(PassedBy(seen)') \in Nat /\ Cardinality(PassedBy(seen)) \in Nat
    BY <2>4, <2>5, FS_Subset, FS_CardinalityType
  <2>8. Walking' => Walking /\ Ahead' = Ahead /\ Ahead \in Int
    BY <1>4, AheadIsNumber DEF WalkInv, Walking, Ahead, WalkSize
  <2> QED BY <2>1, <2>2, <2>6, <2>7, <2>8 DEF WalkInv, OrderInv
<1>11. SkipInv'
  <2>1. ASSUME NEW j \in rows PROVE Rank(j) \in Nat /\ Rank(j)' \in Nat /\ Rank(j) <= Rank(j)'
    <3> DEFINE P == {k \in rows : Before(k, j)}
               Q == {k \in rows : Before(k, j)}'
    <3>1. P \subseteq Q
      BY <1>1, <1>2, <1>5, <2>1
    <3>2. IsFiniteSet(Q)
      <4>1. Q \subseteq Ids
        BY <1>3 DEF RowsInv
      <4> QED BY <4>1, ListingData, FS_Subset
    <3>3. Rank(j) = Cardinality(P) /\ Rank(j)' = Cardinality(Q)
      BY DEF Rank
    <3> HIDE DEF P, Q
    <3> QED BY <3>1, <3>2, <3>3, FS_Subset, FS_CardinalityType
  <2>2. Unread(seen, kept)' = Unread(seen, kept) /\ Unread(seen, kept) \subseteq rows
    BY <1>4, <1>6 DEF Unread
  <2>3. Walking' => Walking /\ Ahead' = Ahead /\ Ahead \in Int
    BY <1>4, AheadIsNumber DEF WalkInv, Walking, Ahead, WalkSize
  <2>4. ASSUME Walking' PROVE Skipped' \subseteq Skipped
    BY <2>1, <2>2, <2>3, <2>4 DEF Skipped
  <2>5. IsFiniteSet(Skipped)
    <3>1. Skipped \subseteq rows
      BY <2>2 DEF Skipped
    <3> QED BY <1>1, <3>1, Ranks, FS_Subset
  <2>6. ASSUME Walking' PROVE Cardinality(Skipped') <= losses'
    <3>1. Cardinality(Skipped') <= Cardinality(Skipped) /\ IsFiniteSet(Skipped')
      BY <2>4, <2>5, <2>6, FS_Subset
    <3>2. Cardinality(Skipped') \in Nat /\ Cardinality(Skipped) \in Nat
      BY <2>5, <3>1, FS_CardinalityType
    <3>3. Cardinality(Skipped) <= losses /\ losses \in Nat /\ losses' = losses
      BY <1>4, <2>3, <2>6 DEF WalkInv, SkipInv, TypeOK
    <3> QED BY <3>1, <3>2, <3>3
  <2>7. ASSUME ~Walking' PROVE Cardinality(Unread(seen, kept)') <= losses'
    BY <1>4, <2>2, <2>7 DEF WalkInv, SkipInv, Walking
  <2> QED BY <2>6, <2>7 DEF SkipInv
<1> QED BY <1>8, <1>9, <1>10, <1>11 DEF WalkInv

\* A deletion lets at most one row slip from the next page in front of it.
LEMMA DeleteKeeps ==
  ASSUME WalkInv, NEW d \in Ids, Delete(d)
  PROVE  WalkInv'
<1>1. RowsInv /\ rows \subseteq Born /\ Born \subseteq Ids
  BY TypedRows DEF WalkInv
<1>2. /\ rows' = rows \ {d} /\ kept' = kept \ {d} /\ losses' = losses + 1
      /\ UNCHANGED <<cfg, clock, born, next, size, seen, wedged>>
  BY DEF Delete, walkVars
<1>3. \A j, k \in Born : Before(j, k)' <=> Before(j, k)
  BY <1>2 DEF Before
<1>4. seen \in Seq(Born) /\ kept \subseteq rows /\ losses \in Nat
  BY DEF WalkInv, TypeOK, Born
<1>5. \A a \in DOMAIN seen : seen[a] \in Born
  BY <1>4
<1>6. TypeOK'
  BY <1>2 DEF WalkInv, TypeOK, Valid
<1>7. SizesInv' /\ LinkInv'
  BY <1>2 DEF WalkInv, SizesInv, LinkInv, Walking, Ahead, WalkSize, Valid
<1>8. Walking' => Walking /\ Ahead' = Ahead /\ Ahead \in Int
  BY <1>2, AheadIsNumber DEF WalkInv, Walking, Ahead, WalkSize
<1>9. OrderInv'
  <2>1. InOrder(seen) => InOrder(seen)'
    BY <1>2, <1>3, <1>5 DEF InOrder
  <2>2. PassedBy(seen)' \subseteq PassedBy(seen)
    BY <1>1, <1>2, <1>3, <1>5 DEF PassedBy
  <2>3. IsFiniteSet(PassedBy(seen))
    <3>1. PassedBy(seen) \subseteq rows
      BY DEF PassedBy
    <3> QED BY <1>1, <3>1, Ranks, FS_Subset
  <2>4. Cardinality(PassedBy(seen)') <= Cardinality(PassedBy(seen))
    BY <2>2, <2>3, FS_Subset
  <2>5. Cardinality(PassedBy(seen)') \in Nat /\ Cardinality(PassedBy(seen)) \in Nat
    BY <2>2, <2>3, FS_Subset, FS_CardinalityType
  <2> QED BY <1>2, <1>8, <2>1, <2>4, <2>5 DEF WalkInv, OrderInv
<1>10. SkipInv'
  <2>1. ASSUME NEW j \in rows
        PROVE  Rank(j) \in Nat /\ Rank(j)' \in Nat /\ Rank(j) <= Rank(j)' + 1
    <3> DEFINE P == {k \in rows : Before(k, j)}
    <3>1. Rank(j) = Cardinality(P) /\ Rank(j)' = Cardinality(P \ {d})
      <4>1. {k \in rows : Before(k, j)}' = P \ {d}
        BY <1>1, <1>2, <1>3, <2>1
      <4> QED BY <4>1 DEF Rank
    <3>2. IsFiniteSet(P)
      BY <1>1, Ranks, FS_Subset
    <3> HIDE DEF P
    <3>3. /\ IsFiniteSet(P \ {d}) /\ Cardinality(P) \in Nat
          /\ Cardinality(P \ {d}) = IF d \in P THEN Cardinality(P) - 1 ELSE Cardinality(P)
      BY <3>2, FS_RemoveElement, FS_CardinalityType
    <3>4. Cardinality(P \ {d}) \in Nat
      BY <3>3, FS_CardinalityType
    <3> QED BY <3>1, <3>3, <3>4
  <2>2. Unread(seen, kept)' \subseteq Unread(seen, kept) /\ Unread(seen, kept) \subseteq rows
    BY <1>2, <1>4 DEF Unread
  <2>3. IsFiniteSet(Skipped) /\ IsFiniteSet(Unread(seen, kept))
    <3>1. Skipped \subseteq rows
      BY <2>2 DEF Skipped
    <3> QED BY <1>1, <2>2, <3>1, Ranks, FS_Subset
  <2>4. ASSUME Walking' PROVE Cardinality(Skipped') <= losses'
    <3>1. \E x : Skipped' \subseteq Skipped \cup {x}
      <4>1. ASSUME NEW j \in Skipped', j \notin Skipped PROVE j \in rows /\ Rank(j) = Ahead
        <5>1. j \in Unread(seen, kept) /\ j \in rows /\ Rank(j)' < Ahead
          BY <1>8, <2>2, <2>4, <4>1 DEF Skipped
        <5> QED BY <1>8, <2>1, <2>4, <4>1, <5>1 DEF Skipped
      <4>2. \A j, k \in Skipped' : j \notin Skipped /\ k \notin Skipped => j = k
        BY <1>1, <4>1, Ranks
      <4> QED BY <4>2
    <3>2. PICK x : Skipped' \subseteq Skipped \cup {x}
      BY <3>1
    <3>3. /\ IsFiniteSet(Skipped \cup {x})
          /\ Cardinality(Skipped \cup {x}) <= Cardinality(Skipped) + 1
          /\ Cardinality(Skipped) \in Nat
      <4>1. /\ IsFiniteSet(Skipped \cup {x})
            /\ Cardinality(Skipped \cup {x})
                 = IF x \in Skipped THEN Cardinality(Skipped) ELSE Cardinality(Skipped) + 1
        BY <2>3, FS_AddElement
      <4>2. Cardinality(Skipped) \in Nat
        BY <2>3, FS_CardinalityType
      <4> HIDE DEF Skipped
      <4> QED BY <4>1, <4>2
    <3>4. IsFiniteSet(Skipped') /\ Cardinality(Skipped') <= Cardinality(Skipped \cup {x})
      BY <3>2, <3>3, FS_Subset
    <3>5. Cardinality(Skipped') \in Nat /\ Cardinality(Skipped \cup {x}) \in Nat
      BY <3>3, <3>4, FS_CardinalityType
    <3>6. Cardinality(Skipped) <= losses
      BY <1>8, <2>4 DEF WalkInv, SkipInv
    <3> QED BY <1>2, <1>4, <3>3, <3>4, <3>5, <3>6
  <2>5. ASSUME ~Walking' PROVE Cardinality(Unread(seen, kept)') <= losses'
    <3>1. /\ IsFiniteSet(Unread(seen, kept)')
          /\ Cardinality(Unread(seen, kept)') <= Cardinality(Unread(seen, kept))
      BY <2>2, <2>3, FS_Subset
    <3>2. Cardinality(Unread(seen, kept)') \in Nat /\ Cardinality(Unread(seen, kept)) \in Nat
      BY <2>3, <3>1, FS_CardinalityType
    <3>3. Cardinality(Unread(seen, kept)) <= losses
      BY <1>2, <2>5 DEF WalkInv, SkipInv, Walking
    <3> QED BY <1>2, <1>4, <3>1, <3>2, <3>3
  <2> QED BY <2>4, <2>5 DEF SkipInv
<1> QED BY <1>6, <1>7, <1>9, <1>10 DEF WalkInv

\* A walk begins with nothing behind it.
LEMMA BeginKeeps ==
  ASSUME WalkInv, NEW param \in SizeParams, Begin(param)
  PROVE  WalkInv'
<1> DEFINE n == PageSize(param, cfg)
           T == Cardinality(rows)
           p == 1
<1>1. RowsInv /\ Valid(param) /\ TypeOK /\ cfg.max <= MaxInt
  BY TypedRows DEF WalkInv, SizesInv, Begin
<1>2. n \in Nat \ {0} /\ n <= MaxInt
  BY <1>1, SizeFits DEF TypeOK
<1>3. Fits(p, n, T)
  BY <1>1, <1>2, Ranks, ListingFits, IntWidth DEF Fits
<1>4. p \in Nat \ {0} /\ (p - 1) * n = 0
  BY <1>2
<1>5. /\ seen' = Page(p, param).rows /\ next' = Page(p, param).next
      /\ size' = param /\ UNCHANGED <<cfg, clock, born, rows>>
  BY DEF Begin, PageNumber, Positive
<1>6. kept' = rows /\ losses' = 0 /\ wedged' = FALSE
  BY DEF Begin
<1> HIDE DEF p, n, T
<1>7. Page(p, param).rows = Paginate(List, p, n)
  BY DEF Page, n
<1>8. Paginate(List, p, n) \in Seq(rows)
  BY <1>1, <1>2, <1>3, <1>4, PageByRank DEF T
<1>9. seen' = <<>> \o Page(p, param).rows
  BY <1>5, <1>7, <1>8
<1>10. kept' \subseteq rows /\ losses' \in Nat /\ wedged' \in BOOLEAN
  BY <1>6
<1>11. InOrder(<<>>) /\ PassedBy(<<>>) = {} /\ Cardinality({}) = 0
  BY FS_EmptySet DEF InOrder, PassedBy
<1>12. Cardinality(PassedBy(<<>>)) <= (p - 1) * n
  BY <1>4, <1>11
<1>13. {i \in Unread(<<>>, kept') : Rank(i) < (p - 1) * n} = {}
  BY <1>1, <1>4, <1>6, Ranks DEF Unread
<1>14. Cardinality({i \in Unread(<<>>, kept') : Rank(i) < (p - 1) * n}) <= losses'
  <2> DEFINE U == {i \in Unread(<<>>, kept') : Rank(i) < (p - 1) * n}
  <2>1. Cardinality(U) = 0
    BY ONLY <1>11, <1>13
  <2> HIDE DEF U
  <2>2. Cardinality(U) <= losses'
    BY ONLY <1>6, <2>1
  <2> QED BY <2>2 DEF U
<1>15. <<>> \in Seq(Born)
  OBVIOUS
<1> QED BY <1>1, <1>3, <1>4, <1>5, <1>9, <1>10, <1>11, <1>12, <1>14, <1>15, ReadKeeps DEF n, T

\* The next page continues the pages before it.
LEMMA FollowKeeps ==
  ASSUME WalkInv, Follow
  PROVE  WalkInv'
<1> DEFINE p == next[1]
           T == Cardinality(rows)
<1>1. RowsInv /\ Walking /\ Valid(size) /\ size \in SizeParams
  BY TypedRows DEF WalkInv, TypeOK, SizesInv, Follow
<1>2. WalkSize \in Nat \ {0} /\ WalkSize <= MaxInt
  BY <1>1, SizeFits DEF WalkInv, TypeOK, SizesInv, WalkSize
<1>3. p \in Nat \ {0} /\ 2 <= p /\ PageNumber(next) = p
  <2>1. next \in Seq(Int) /\ Len(next) <= 1 /\ next # <<>>
    BY <1>1 DEF WalkInv, TypeOK, Keys, Walking
  <2>2. p \in Int
    BY <2>1
  <2> QED BY <1>1, <2>1, <2>2 DEF WalkInv, LinkInv, PageNumber, Positive
<1>4. Ahead = (p - 1) * WalkSize /\ Ahead <= Cardinality(Ids)
  BY <1>1 DEF WalkInv, LinkInv, Ahead
<1> HIDE DEF p
<1>5. Fits(p, WalkSize, T)
  <2>1. T \in Nat /\ T <= Cardinality(Ids) /\ Cardinality(Ids) \in Nat
    BY <1>1, Ranks
  <2>2. p * WalkSize = (p - 1) * WalkSize + WalkSize /\ (p - 1) * WalkSize \in Nat
    BY <1>2, <1>3
  <2>3. WalkSize <= (p - 1) * WalkSize
    <3>1. WalkSize * 1 <= WalkSize * (p - 1)
      BY <1>2, <1>3, Monotone
    <3>2. WalkSize * (p - 1) = (p - 1) * WalkSize /\ WalkSize * 1 = WalkSize
      BY <1>2, <1>3
    <3> QED BY <3>1, <3>2
  <2> DEFINE m == (p - 1) * WalkSize
             r == p * WalkSize
  <2>4. m <= Cardinality(Ids) /\ m \in Nat /\ r = m + WalkSize /\ WalkSize <= m
    BY <1>4, <2>2, <2>3
  <2> HIDE DEF m, r
  <2>5. T <= MaxInt /\ r + T <= MaxInt
    BY <1>2, <2>1, <2>4, ListingFits, IntWidth
  <2> QED BY <2>5 DEF Fits, r
<1>6. /\ seen' = seen \o Page(p, size).rows /\ next' = Page(p, size).next
      /\ UNCHANGED <<cfg, clock, born, rows, size, kept, losses, wedged>>
  BY <1>3 DEF Follow, historyVars
<1>7. ~wedged => InOrder(seen) /\ Cardinality(PassedBy(seen)) <= (p - 1) * WalkSize
  BY <1>1, <1>4 DEF WalkInv, OrderInv
<1>8. Cardinality({i \in Unread(seen, kept) : Rank(i) < (p - 1) * WalkSize}) <= losses
  BY <1>1, <1>4 DEF WalkInv, SkipInv, Skipped
<1>9. seen \in Seq(Born) /\ kept \subseteq rows /\ losses \in Nat /\ wedged \in BOOLEAN
  BY DEF WalkInv, TypeOK, Born
<1> HIDE DEF T
<1> QED BY <1>1, <1>3, <1>5, <1>6, <1>7, <1>8, <1>9, ReadKeeps DEF WalkInv, SizesInv, WalkSize, T

\* No step of the server or of a client breaks the invariant of a walk.
THEOREM WalkInvariant == Spec => []WalkInv
<1>1. ASSUME WalkInv, [Next]_vars PROVE WalkInv'
  <2>1. CASE UNCHANGED vars
    <3> USE <1>1, <2>1 DEF vars, walkVars, historyVars, WalkInv
    <3>1. TypeOK' /\ SizesInv' /\ LinkInv'
      BY DEF TypeOK, SizesInv, LinkInv, Walking, Ahead, WalkSize, Valid
    <3>2. OrderInv'
      BY DEF OrderInv, InOrder, PassedBy, Before, Walking, Ahead, WalkSize
    <3>3. SkipInv'
      BY DEF SkipInv, Skipped, Unread, Rank, Before, Walking, Ahead, WalkSize
    <3> QED BY <3>1, <3>2, <3>3
  <2>2. CASE Next
    BY <1>1, <2>2, TickKeeps, CreateKeeps, DeleteKeeps, BeginKeeps, FollowKeeps DEF Next
  <2> QED BY <1>1, <2>1, <2>2
<1> QED BY <1>1, InitKeeps, PTL DEF Spec

-----------------------------------------------------------------------------
(* The theorems. *)

\* The variables of the model keep their types: above all, the link that a
\* client follows has a page number it may ask for, and every row that it has
\* read was created before.
THEOREM TypeCorrect == Spec => []TypeOK
<1>1. WalkInv => TypeOK
  BY DEF WalkInv
<1> QED BY <1>1, WalkInvariant, PTL

\* A client that follows next_page reads no row twice and none out of order,
\* whatever is created and deleted meanwhile.
THEOREM WalkIsInOrder == Spec => []SeenInOrder
<1>1. WalkInv => SeenInOrder
  BY DEF WalkInv, OrderInv, InOrder, SeenInOrder
<1> QED BY <1>1, WalkInvariant, PTL

\* At the end of its walk it has missed at most one lasting row for each row
\* that was deleted meanwhile.
THEOREM WalkMissesFew == Spec => []MissedAtMostLosses
<1>1. WalkInv => MissedAtMostLosses
  BY DEF WalkInv, SkipInv, Unread, MissedAtMostLosses
<1> QED BY <1>1, WalkInvariant, PTL

\* The pages that a client can ask for are the rows of the list cut into
\* pieces, without gap, overlap or panic, and the links lead along them.
THEOREM PagesAreExact == Spec => []PagesPartition
<1>1. WalkInv => PagesPartition
  <2> SUFFICES ASSUME WalkInv, NEW n \in 1..cfg.max, NEW p \in 1..MaxInt,
                      p * n + Len(List) <= MaxInt
               PROVE  /\ ~Panics(Len(List), p, n)
                      /\ LET page == Paginate(List, p, n)
                             on == {k \in 1..Len(List) : (p - 1) * n < k /\ k <= p * n}
                         IN  /\ Len(page) = Cardinality(on)
                             /\ \A k \in on : page[k - (p - 1) * n] = List[k]
                      /\ NextPage(p, TotalPages(Len(List), n))
                           = IF p * n < Len(List) THEN <<p + 1>> ELSE <<>>
    BY DEF PagesPartition
  <2>1. n \in Nat \ {0} /\ p \in Nat \ {0}
    BY IntWidth DEF WalkInv, TypeOK
  <2>2. List \in Seq(rows) /\ Len(List) \in Nat
    BY TypedRows, ListByRank DEF WalkInv
  <2>3. ~Panics(Len(List), p, n)
    BY <2>1, <2>2, PageBounds
  <2>4. Fits(p, n, Len(List))
    <3>1. p * n \in Nat
      BY <2>1
    <3>2. Len(List) <= MaxInt
      BY <2>2, <3>1, IntWidth
    <3> QED BY <3>2 DEF Fits
  <2>5. NextPage(p, TotalPages(Len(List), n)) = IF p * n < Len(List) THEN <<p + 1>> ELSE <<>>
    BY <2>1, <2>2, <2>4, LinkToRest
  <2> QED BY <2>1, <2>2, <2>3, <2>5, PageOfSequence
<1> QED BY <1>1, WalkInvariant, PTL
=============================================================================
