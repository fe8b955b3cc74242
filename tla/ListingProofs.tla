--------------------------- MODULE ListingProofs ---------------------------
(***************************************************************************)
(* What cutting rows into pages keeps of them: every row is on one page,   *)
(* and the pages before it say that there are more.                        *)
(***************************************************************************)
EXTENDS Listing, FiniteSetTheorems, WellFoundedInduction, TLAPS

\* Induction, as the absence of a least counterexample.
LEMMA LeastNatural ==
  ASSUME NEW T \in SUBSET Nat, T # {}
  PROVE  \E n \in T : \A m \in T : n <= m
<1>1. IsWellFoundedOn(OpToRel(<, Nat), Nat)
  BY NatLessThanWellFounded
<1>2. PICK n \in T : \A m \in T : ~(<<m, n>> \in OpToRel(<, Nat))
  BY <1>1, WFMin
<1>3. \A m \in T : ~(m < n)
  BY <1>2 DEF OpToRel
<1> QED
  BY <1>3

LEMMA Induction ==
  ASSUME NEW T \in SUBSET Nat, 0 \in T, \A n \in T : n + 1 \in T
  PROVE  T = Nat
<1>1. SUFFICES ASSUME Nat \ T # {} PROVE FALSE
  OBVIOUS
<1>2. PICK n \in Nat \ T : \A m \in Nat \ T : n <= m
  BY <1>1, LeastNatural
<1>3. n - 1 \in Nat \ T
  BY <1>2
<1> QED
  BY <1>2, <1>3

-----------------------------------------------------------------------------
\* The fold that puts rows in order.
Picked(s) == CHOOSE row \in s : TRUE

Grows(g, D) ==
  \A s \in D : g[s] = IF s = {} THEN <<>>
                      ELSE Append(g[s \ {Picked(s)}], Picked(s))

Small(rows, n) == {s \in SUBSET rows : Cardinality(s) <= n}

LEMMA SmallerStep ==
  ASSUME NEW rows, IsFiniteSet(rows), NEW s \in SUBSET rows, s # {}
  PROVE  /\ Picked(s) \in s /\ s \ {Picked(s)} \in SUBSET rows
         /\ IsFiniteSet(s) /\ Cardinality(s) \in Nat \ {0}
         /\ Cardinality(s \ {Picked(s)}) = Cardinality(s) - 1
<1>1. Picked(s) \in s
  BY DEF Picked
<1>2. IsFiniteSet(s)
  BY FS_Subset
<1> QED
  BY <1>1, <1>2, FS_RemoveElement, FS_CardinalityType, FS_EmptySet

LEMMA GrowthExists ==
  ASSUME NEW rows, IsFiniteSet(rows), NEW n \in Nat
  PROVE  \E g \in [Small(rows, n) -> Seq(rows)] : Grows(g, Small(rows, n))
<1> DEFINE T == {k \in Nat : \E g \in [Small(rows, k) -> Seq(rows)] :
                               Grows(g, Small(rows, k))}
<1>1. 0 \in T
  <2>1. ASSUME NEW s \in Small(rows, 0), s # {} PROVE FALSE
    <3>1. s \in SUBSET rows /\ Cardinality(s) <= 0
      BY DEF Small
    <3>2. Cardinality(s) \in Nat \ {0}
      BY <2>1, <3>1, SmallerStep
    <3> QED
      BY <3>1, <3>2
  <2>2. Grows([s \in Small(rows, 0) |-> <<>>], Small(rows, 0))
    BY <2>1 DEF Grows
  <2>3. <<>> \in Seq(rows)
    OBVIOUS
  <2>4. [s \in Small(rows, 0) |-> <<>>] \in [Small(rows, 0) -> Seq(rows)]
    BY <2>3
  <2> QED
    BY <2>2, <2>4
<1>2. ASSUME NEW k \in T PROVE k + 1 \in T
  <2>1. PICK g \in [Small(rows, k) -> Seq(rows)] : Grows(g, Small(rows, k))
    OBVIOUS
  <2> DEFINE h == [s \in Small(rows, k + 1) |->
                     IF s = {} THEN <<>>
                     ELSE Append(g[s \ {Picked(s)}], Picked(s))]
  <2>2. ASSUME NEW s \in Small(rows, k + 1), s # {}
        PROVE  /\ s \ {Picked(s)} \in Small(rows, k)
               /\ s \ {Picked(s)} \in Small(rows, k + 1)
               /\ Picked(s) \in rows
    <3>1. s \in SUBSET rows /\ Cardinality(s) <= k + 1
      BY DEF Small
    <3> QED
      BY <2>2, <3>1, SmallerStep DEF Small
  <2>3. h \in [Small(rows, k + 1) -> Seq(rows)]
    <3>1. ASSUME NEW s \in Small(rows, k + 1)
          PROVE  (IF s = {} THEN <<>>
                  ELSE Append(g[s \ {Picked(s)}], Picked(s))) \in Seq(rows)
      <4>1. CASE s = {}
        BY <4>1
      <4>2. CASE s # {}
        <5>1. g[s \ {Picked(s)}] \in Seq(rows) /\ Picked(s) \in rows
          BY <2>2, <4>2
        <5> QED
          BY <4>2, <5>1
      <4> QED
        BY <4>1, <4>2
    <3> QED
      BY <3>1
  <2>4. ASSUME NEW s \in Small(rows, k) PROVE h[s] = g[s]
    <3>1. s \in Small(rows, k + 1)
      <4>1. s \in SUBSET rows /\ Cardinality(s) <= k /\ IsFiniteSet(s)
        BY FS_Subset DEF Small
      <4> QED
        BY <4>1, FS_CardinalityType DEF Small
    <3> QED
      BY <2>1, <3>1 DEF Grows
  <2>5. Grows(h, Small(rows, k + 1))
    BY <2>2, <2>4 DEF Grows
  <2>6. \E f \in [Small(rows, k + 1) -> Seq(rows)] :
          Grows(f, Small(rows, k + 1))
    <3> HIDE DEF h
    <3> QED
      BY <2>3, <2>5
  <2> QED
    BY <2>6
<1>3. T = Nat
  BY <1>1, <1>2, Induction
<1> QED
  BY <1>3

LEMMA OrderedGrows ==
  ASSUME NEW rows, IsFiniteSet(rows)
  PROVE  \E g : /\ Ordered(rows) = g[rows]
                /\ Grows(g, SUBSET rows)
<1> DEFINE F(g) == [s \in SUBSET rows |->
                      IF s = {} THEN <<>>
                      ELSE Append(g[s \ {Picked(s)}], Picked(s))]
           it == CHOOSE g : g = F(g)
<1>1. Ordered(rows) = it[rows]
  BY DEF Ordered, FoldSet, MapThenFoldSet, Picked
<1>2. Cardinality(rows) \in Nat /\ Small(rows, Cardinality(rows)) = SUBSET rows
  BY FS_CardinalityType, FS_Subset DEF Small
<1> DEFINE N == Cardinality(rows)
<1>3. PICK g \in [SUBSET rows -> Seq(rows)] : Grows(g, SUBSET rows)
  <2>1. N \in Nat
    BY <1>2
  <2> HIDE DEF N
  <2>2. PICK g \in [Small(rows, N) -> Seq(rows)] : Grows(g, Small(rows, N))
    BY <2>1, GrowthExists
  <2>3. Small(rows, N) = SUBSET rows
    BY <1>2 DEF N
  <2> QED
    BY <2>2, <2>3
<1>4. g = F(g)
  BY <1>3 DEF Grows
<1>5. it = F(it)
  BY <1>4
<1>6. Grows(it, SUBSET rows)
  <2> HIDE DEF it
  <2> QED
    BY <1>5 DEF Grows
<1> QED
  BY <1>1, <1>6

\* The sequence q has each element of s once, and no other.
Lists(q, s) ==
  /\ q \in Seq(s)
  /\ \A x \in s : \E i \in 1 .. Len(q) : q[i] = x
  /\ \A i, j \in 1 .. Len(q) : q[i] = q[j] => i = j

LEMMA AppendLists ==
  ASSUME NEW s, NEW x \in s, NEW p, Lists(p, s \ {x})
  PROVE  Lists(Append(p, x), s)
<1> DEFINE q == Append(p, x)
<1>1. p \in Seq(s \ {x})
  BY DEF Lists
<1>2. p \in Seq(s) /\ \A i \in 1 .. Len(p) : p[i] \in s \ {x}
  BY <1>1
<1>3. /\ q \in Seq(s) /\ Len(q) = Len(p) + 1 /\ Len(p) \in Nat
      /\ q[Len(p) + 1] = x
      /\ \A i \in 1 .. Len(p) : q[i] = p[i]
  BY <1>2
<1> HIDE DEF q
<1>4. ASSUME NEW y \in s PROVE \E i \in 1 .. Len(q) : q[i] = y
  <2>1. CASE y = x
    BY <1>3, <2>1
  <2>2. CASE y # x
    <3>1. PICK i \in 1 .. Len(p) : p[i] = y
      BY <2>2 DEF Lists
    <3> QED
      BY <1>3, <3>1
  <2> QED
    BY <2>1, <2>2
<1>5. ASSUME NEW i \in 1 .. Len(q), NEW j \in 1 .. Len(q), q[i] = q[j]
      PROVE  i = j
  <2>1. CASE i \in 1 .. Len(p) /\ j \in 1 .. Len(p)
    BY <1>3, <1>5, <2>1 DEF Lists
  <2>2. CASE i = Len(p) + 1 /\ j \in 1 .. Len(p)
    BY <1>2, <1>3, <1>5, <2>2
  <2>3. CASE j = Len(p) + 1 /\ i \in 1 .. Len(p)
    BY <1>2, <1>3, <1>5, <2>3
  <2> QED
    BY <1>3, <2>1, <2>2, <2>3
<1>6. Lists(q, s)
  BY <1>3, <1>4, <1>5 DEF Lists
<1> QED
  BY <1>6 DEF q

LEMMA GrownLists ==
  ASSUME NEW rows, IsFiniteSet(rows), NEW g, Grows(g, SUBSET rows)
  PROVE  \A s \in SUBSET rows : Lists(g[s], s)
<1> DEFINE T == {n \in Nat : \A s \in SUBSET rows :
                               Cardinality(s) = n => Lists(g[s], s)}
<1>1. 0 \in T
  <2>1. ASSUME NEW s \in SUBSET rows, Cardinality(s) = 0
        PROVE  Lists(g[s], s)
    <3>1. s = {}
      BY <2>1, SmallerStep
    <3>2. g[s] = <<>>
      BY <3>1 DEF Grows
    <3> QED
      BY <3>1, <3>2 DEF Lists
  <2> QED
    BY <2>1
<1>2. ASSUME NEW n \in T PROVE n + 1 \in T
  <2>1. ASSUME NEW s \in SUBSET rows, Cardinality(s) = n + 1
        PROVE  Lists(g[s], s)
    <3> DEFINE x == Picked(s)
               t == s \ {x}
    <3>1. s # {}
      BY <2>1, FS_EmptySet
    <3>2. x \in s /\ t \in SUBSET rows /\ Cardinality(t) = n
      BY <2>1, <3>1, SmallerStep
    <3>3. Lists(g[t], t)
      BY <3>2
    <3>4. g[s] = Append(g[t], x)
      BY <3>1 DEF Grows
    <3> QED
      BY <3>2, <3>3, <3>4, AppendLists
  <2> QED
    BY <2>1
<1>3. T = Nat
  BY <1>1, <1>2, Induction
<1>4. ASSUME NEW s \in SUBSET rows PROVE Cardinality(s) \in Nat
  BY FS_Subset, FS_CardinalityType
<1> QED
  BY <1>3, <1>4

\* Rows in order: each once.
LEMMA OrderedLists ==
  ASSUME NEW rows, IsFiniteSet(rows) PROVE Lists(Ordered(rows), rows)
<1>1. PICK g : Ordered(rows) = g[rows] /\ Grows(g, SUBSET rows)
  BY OrderedGrows
<1>2. Lists(g[rows], rows)
  BY <1>1, GrownLists
<1> QED
  BY <1>1, <1>2

\* A list is no longer than what it lists from.
LEMMA ListLength ==
  ASSUME NEW S, IsFiniteSet(S), NEW q \in Seq(S),
         \A i, j \in 1 .. Len(q) : q[i] = q[j] => i = j
  PROVE  Len(q) \in Nat /\ Cardinality(S) \in Nat /\ Len(q) <= Cardinality(S)
<1>1. Len(q) \in Nat /\ q \in [1 .. Len(q) -> S]
  OBVIOUS
<1>2. IsFiniteSet(1 .. Len(q)) /\ Cardinality(1 .. Len(q)) = Len(q)
  BY <1>1, FS_Interval
<1>3. q \in Injection(1 .. Len(q), S)
  BY <1>1 DEF Injection, IsInjective
<1> QED
  BY <1>1, <1>2, <1>3, FS_Injection, FS_CardinalityType DEF ExistsInjection

-----------------------------------------------------------------------------
\* The rows of a page.
LEMMA PageRows ==
  ASSUME NEW S, NEW q \in Seq(S), NEW page \in Nat \ {0},
         NEW limit \in Nat \ {0}
  PROVE  /\ Skip(page, limit) \in Nat
         /\ Page(q, page, limit) \in Seq(S)
         /\ Len(Page(q, page, limit)) =
              IF Skip(page, limit) + limit < Len(q) THEN limit
              ELSE IF Skip(page, limit) < Len(q) THEN Len(q) - Skip(page, limit)
              ELSE 0
         /\ \A i \in 1 .. Len(Page(q, page, limit)) :
              Page(q, page, limit)[i] = q[Skip(page, limit) + i]
<1> DEFINE k == Skip(page, limit)
           e == IF k + limit < Len(q) THEN k + limit ELSE Len(q)
<1>1. k \in Nat
  BY DEF Skip
<1>2. Page(q, page, limit) = SubSeq(q, k + 1, e)
  BY DEF Page
<1>3. Len(q) \in Nat
  OBVIOUS
<1> HIDE DEF k
<1>4. e \in Nat /\ e <= Len(q)
  BY <1>1, <1>3
<1>5. /\ SubSeq(q, k + 1, e) \in Seq(S)
      /\ Len(SubSeq(q, k + 1, e)) = IF k + 1 <= e THEN e - k ELSE 0
      /\ \A i \in 1 .. Len(SubSeq(q, k + 1, e)) :
           SubSeq(q, k + 1, e)[i] = q[k + i]
  BY <1>1, <1>3, <1>4
<1> QED
  BY <1>1, <1>2, <1>3, <1>5 DEF k

\* What is on a page is a row behind the pages before it, and no other.
LEMMA PagePlaces ==
  ASSUME NEW S, NEW q \in Seq(S), NEW page \in Nat \ {0},
         NEW limit \in Nat \ {0}, NEW i \in Nat \ {0}
  PROVE  i \in 1 .. Len(Page(q, page, limit)) <=>
           i <= limit /\ Skip(page, limit) + i <= Len(q)
<1> DEFINE k == Skip(page, limit)
           n == Len(Page(q, page, limit))
<1>1. /\ k \in Nat
      /\ n = IF k + limit < Len(q) THEN limit
             ELSE IF k < Len(q) THEN Len(q) - k ELSE 0
  BY PageRows
<1>2. Len(q) \in Nat
  OBVIOUS
<1> HIDE DEF k, n
<1>3. i \in 1 .. n <=> i <= limit /\ k + i <= Len(q)
  BY <1>1, <1>2
<1> QED
  BY <1>3 DEF k, n

\* Where row n + 1 is found.
LEMMA PlaceExists ==
  ASSUME NEW limit \in Nat \ {0}, NEW n \in Nat
  PROVE  \E page \in Nat \ {0}, i \in 1 .. limit : Skip(page, limit) + i = n + 1
<1> DEFINE T == {m \in Nat : \E page \in Nat \ {0}, i \in 1 .. limit :
                               Skip(page, limit) + i = m + 1}
<1>1. 0 \in T
  <2>1. Skip(1, limit) + 1 = 0 + 1 /\ 1 \in 1 .. limit
    BY DEF Skip
  <2> QED
    BY <2>1
<1>2. ASSUME NEW m \in T PROVE m + 1 \in T
  <2>1. PICK page \in Nat \ {0}, i \in 1 .. limit :
          Skip(page, limit) + i = m + 1
    OBVIOUS
  <2>2. Skip(page, limit) \in Nat
    BY DEF Skip
  <2>3. CASE i < limit
    <3>1. i + 1 \in 1 .. limit /\ Skip(page, limit) + (i + 1) = (m + 1) + 1
      BY <2>1, <2>2, <2>3
    <3> QED
      BY <3>1
  <2>4. CASE i = limit
    <3>1. Skip(page + 1, limit) = Skip(page, limit) + limit
      BY DEF Skip
    <3>2. /\ page + 1 \in Nat \ {0} /\ 1 \in 1 .. limit
          /\ Skip(page + 1, limit) + 1 = (m + 1) + 1
      BY <2>1, <2>2, <2>4, <3>1
    <3> QED
      BY <3>2
  <2> QED
    BY <2>3, <2>4
<1>3. T = Nat
  BY <1>1, <1>2, Induction
<1>4. n \in T
  <2> HIDE DEF T
  <2> QED
    BY <1>3
<1> QED
  BY <1>4

\* A page ends where the next begins, or before.
LEMMA PagesApart ==
  ASSUME NEW limit \in Nat \ {0}, NEW p \in Nat \ {0}, NEW r \in Nat \ {0},
         r < p
  PROVE  Skip(r, limit) + limit <= Skip(p, limit)
<1>1. (p - 1) - r \in Nat
  OBVIOUS
<1>2. ((p - 1) - r) * limit \in Nat
  BY <1>1
<1>3. Skip(p, limit) - (Skip(r, limit) + limit) = ((p - 1) - r) * limit
  BY DEF Skip
<1> QED
  BY <1>2, <1>3 DEF Skip

LEMMA PlaceUnique ==
  ASSUME NEW limit \in Nat \ {0}, NEW p \in Nat \ {0}, NEW r \in Nat \ {0},
         NEW i \in 1 .. limit, NEW j \in 1 .. limit,
         Skip(p, limit) + i = Skip(r, limit) + j
  PROVE  p = r /\ i = j
<1>1. Skip(p, limit) \in Nat /\ Skip(r, limit) \in Nat
  BY DEF Skip
<1>2. ~(r < p) /\ ~(p < r)
  BY <1>1, PagesApart
<1> QED
  BY <1>1, <1>2

\* Every row is on a page, and the pages before it say that there are more.
LEMMA PagesShowAll ==
  ASSUME NEW S, NEW q \in Seq(S), NEW limit \in Nat \ {0},
         NEW j \in 1 .. Len(q)
  PROVE  \E p \in 1 .. j : \E i \in 1 .. Len(Page(q, p, limit)) :
           /\ Page(q, p, limit)[i] = q[j]
           /\ \A r \in 1 .. p - 1 : HasMore(q, r, limit)
<1>1. PICK p \in Nat \ {0}, i \in 1 .. limit : Skip(p, limit) + i = j
  <2>1. j - 1 \in Nat /\ (j - 1) + 1 = j
    OBVIOUS
  <2> QED
    BY <2>1, PlaceExists
<1>2. Skip(p, limit) \in Nat /\ p <= Skip(p, limit) + 1
  <2>1. (p - 1) * limit = (p - 1) + (p - 1) * (limit - 1)
    OBVIOUS
  <2>2. (p - 1) * (limit - 1) \in Nat
    OBVIOUS
  <2> QED
    BY <2>1, <2>2 DEF Skip
<1>3. p \in 1 .. j
  BY <1>1, <1>2
<1>4. i \in 1 .. Len(Page(q, p, limit)) /\ Page(q, p, limit)[i] = q[j]
  <2>1. i \in Nat \ {0} /\ i <= limit /\ Skip(p, limit) + i <= Len(q)
    BY <1>1
  <2>2. i \in 1 .. Len(Page(q, p, limit))
    BY <2>1, PagePlaces
  <2>3. Page(q, p, limit)[i] = q[Skip(p, limit) + i]
    BY <2>2, PageRows
  <2> QED
    BY <1>1, <2>2, <2>3
<1>5. ASSUME NEW r \in 1 .. p - 1 PROVE HasMore(q, r, limit)
  <2>1. r \in Nat \ {0} /\ r < p
    BY <1>1
  <2>2. Skip(r, limit) + limit <= Skip(p, limit) /\ Skip(r, limit) \in Nat
    BY <2>1, PagesApart DEF Skip
  <2>3. Skip(r, limit) + limit < Len(q)
    BY <1>1, <1>2, <2>2
  <2>4. Len(Page(q, r, limit)) = limit
    BY <2>1, <2>3, PageRows
  <2> QED
    BY <2>3, <2>4 DEF HasMore
<1> QED
  BY <1>3, <1>4, <1>5

\* No row is on two pages, or twice on one.
LEMMA PagesShowOnce ==
  ASSUME NEW S, NEW q \in Seq(S), NEW limit \in Nat \ {0},
         \A i, j \in 1 .. Len(q) : q[i] = q[j] => i = j,
         NEW p \in Nat \ {0}, NEW r \in Nat \ {0},
         NEW i \in 1 .. Len(Page(q, p, limit)),
         NEW j \in 1 .. Len(Page(q, r, limit)),
         Page(q, p, limit)[i] = Page(q, r, limit)[j]
  PROVE  p = r /\ i = j
<1> DEFINE P == Page(q, p, limit)
           R == Page(q, r, limit)
<1>1. /\ Skip(p, limit) \in Nat /\ Skip(r, limit) \in Nat
      /\ P[i] = q[Skip(p, limit) + i] /\ R[j] = q[Skip(r, limit) + j]
  BY PageRows
<1>2. i \in Nat \ {0} /\ j \in Nat \ {0}
  <2>1. P \in Seq(S) /\ R \in Seq(S)
    BY PageRows
  <2> HIDE DEF P, R
  <2> QED
    BY <2>1
<1>3. /\ i <= limit /\ Skip(p, limit) + i <= Len(q)
      /\ j <= limit /\ Skip(r, limit) + j <= Len(q)
  BY <1>2, PagePlaces
<1> HIDE DEF P, R
<1>4. /\ Skip(p, limit) + i \in 1 .. Len(q)
      /\ Skip(r, limit) + j \in 1 .. Len(q)
      /\ i \in 1 .. limit /\ j \in 1 .. limit
  BY <1>1, <1>2, <1>3
<1>5. q[Skip(p, limit) + i] = q[Skip(r, limit) + j]
  BY <1>1 DEF P, R
<1>6. Skip(p, limit) + i = Skip(r, limit) + j
  BY <1>4, <1>5
<1> QED
  BY <1>4, <1>6, PlaceUnique
=============================================================================
