---------------------------- MODULE TradesProofs ----------------------------
(***************************************************************************)
(* Trade matches and downloads are of one moment, for any number of        *)
(* collectors, stickers and revisions.                                     *)
(*                                                                         *)
(* What the queries of matching.ts compute from one state of the tables is *)
(* what the repository's reference computes from it (AnswerIsReference).   *)
(* The place of a match is argued by counting the rows ahead of it, so     *)
(* that no order needs an induction: a row's rank determines it, an order  *)
(* lists the rows by rank, and there is one such order.  The invariant     *)
(* IInv then says that what a request has read is of its snapshot, and     *)
(* EInv that the parts of an account export are of theirs.                 *)
(***************************************************************************)
EXTENDS Exports, FiniteSetTheorems, WellFoundedInduction, TLAPS

\* The smaller and the larger of two numbers (Min and Max of the library).
LEMMA MinIs == ASSUME NEW a \in Int, NEW b \in Int PROVE Min({a, b}) = IF a <= b THEN a ELSE b
  BY DEF Min
LEMMA MaxIs == ASSUME NEW a \in Int, NEW b \in Int PROVE Max({a, b}) = IF a >= b THEN a ELSE b
  BY DEF Max

LimitOf(q) == IF q.limit <= 1 THEN 1 ELSE IF q.limit <= MaximumLimit THEN q.limit ELSE MaximumLimit
\* A query never asks for fewer than one match or more than the largest page.
LEMMA LimitIs ==
  ASSUME NEW q \in Query
  PROVE  Limit(q) = LimitOf(q) /\ Limit(q) \in 1..MaximumLimit
  <1>1. MaximumLimit \in Nat \ {0} /\ q.limit \in Int
    BY TradeAssumption DEF Query
  <1>2. Max({1, q.limit}) = IF 1 >= q.limit THEN 1 ELSE q.limit
    BY <1>1, MaxIs
  <1> DEFINE m == Max({1, q.limit})
  <1>3. m \in Int
    BY <1>1, <1>2
  <1> HIDE DEF m
  <1>4. Limit(q) = IF MaximumLimit <= m THEN MaximumLimit ELSE m
    BY <1>1, <1>3, MinIs DEF Limit, m
  <1> QED
    BY <1>1, <1>2, <1>4 DEF LimitOf, m

\* Every sort order has three numbers as its keys.
LEMMA KeysType ==
  ASSUME NEW sort \in Sort, NEW a, a.offered \in Nat, a.wanted \in Nat
  PROVE  /\ Keys(sort, a)[1] \in Int /\ Keys(sort, a)[2] \in Int /\ Keys(sort, a)[3] \in Int
         /\ Keys(sort, a) = << Keys(sort, a)[1], Keys(sort, a)[2], Keys(sort, a)[3] >>
  <1>1. Min({a.offered, a.wanted}) \in Int
    BY MinIs
  <1>2. TwoWay(a) \in Int
    BY DEF TwoWay
  <1> QED
    BY <1>1, <1>2 DEF Keys, Sort

Before(x, y, a, b) ==
  \/ x[1] > y[1]
  \/ x[1] = y[1] /\ x[2] > y[2]
  \/ x[1] = y[1] /\ x[2] = y[2] /\ x[3] > y[3]
  \/ x[1] = y[1] /\ x[2] = y[2] /\ x[3] = y[3] /\ NameOrder(a, b)

\* Precedes, key by key.
LEMMA PrecedesIs ==
  ASSUME NEW sort \in Sort, NEW a, NEW b, a.offered \in Nat, a.wanted \in Nat, b.offered \in Nat, b.wanted \in Nat
  PROVE  Precedes(sort, a, b) <=> Before(Keys(sort, a), Keys(sort, b), a, b)
  <1> DEFINE x == Keys(sort, a)
             y == Keys(sort, b)
  <1>1. /\ x[1] \in Int /\ x[2] \in Int /\ x[3] \in Int /\ y[1] \in Int /\ y[2] \in Int /\ y[3] \in Int
        /\ x = <<x[1], x[2], x[3]>> /\ y = <<y[1], y[2], y[3]>>
    BY KeysType
  <1> HIDE DEF x, y
  <1>2. x = y <=> x[1] = y[1] /\ x[2] = y[2] /\ x[3] = y[3]
    BY <1>1
  <1>3. (\E k \in 1..3 : x[k] > y[k] /\ \A i \in 1..(k - 1) : x[i] = y[i])
        <=> \/ x[1] > y[1]
            \/ x[1] = y[1] /\ x[2] > y[2]
            \/ x[1] = y[1] /\ x[2] = y[2] /\ x[3] > y[3]
    BY <1>1
  <1> QED
    BY <1>2, <1>3 DEF Precedes, Before, x, y

Counted(a) == a.partner \in Collector /\ a.offered \in Nat /\ a.wanted \in Nat

\* Rows are not before each other, nor before themselves ...
LEMMA PrecedesStrict ==
  ASSUME NEW sort \in Sort, NEW a, NEW b, Counted(a), Counted(b), Precedes(sort, a, b)
  PROVE  ~Precedes(sort, b, a) /\ a # b
  <1> DEFINE x == Keys(sort, a)
             y == Keys(sort, b)
  <1>1. /\ x[1] \in Int /\ x[2] \in Int /\ x[3] \in Int
        /\ y[1] \in Int /\ y[2] \in Int /\ y[3] \in Int
    BY KeysType DEF Counted
  <1>2. Before(x, y, a, b)
    BY PrecedesIs DEF Counted
  <1>3. ~(NameOrder(a, b) /\ NameOrder(b, a))
    BY TradeAssumption DEF NameOrder, Counted
  <1>4. ~NameOrder(a, a)
    BY TradeAssumption DEF NameOrder, Counted
  <1> HIDE DEF x, y
  <1>5. ~Before(y, x, b, a)
    BY <1>1, <1>2, <1>3 DEF Before
  <1>6. a # b
    BY <1>1, <1>2, <1>4 DEF Before, x, y
  <1> QED
    BY <1>5, <1>6, PrecedesIs DEF Counted, x, y

\* ... and the order is transitive ...
LEMMA PrecedesTransitive ==
  ASSUME NEW sort \in Sort, NEW a, NEW b, NEW c, Counted(a), Counted(b), Counted(c),
         Precedes(sort, a, b), Precedes(sort, b, c)
  PROVE  Precedes(sort, a, c)
  <1> DEFINE x == Keys(sort, a)
             y == Keys(sort, b)
             z == Keys(sort, c)
  <1>1. /\ x[1] \in Int /\ x[2] \in Int /\ x[3] \in Int
        /\ y[1] \in Int /\ y[2] \in Int /\ y[3] \in Int
        /\ z[1] \in Int /\ z[2] \in Int /\ z[3] \in Int
    BY KeysType DEF Counted
  <1>2. Before(x, y, a, b) /\ Before(y, z, b, c)
    BY PrecedesIs DEF Counted
  <1>3. NameOrder(a, b) /\ NameOrder(b, c) => NameOrder(a, c)
    BY TradeAssumption DEF NameOrder, Counted
  <1> HIDE DEF x, y, z
  <1>4. Before(x, z, a, c)
    BY <1>1, <1>2, <1>3 DEF Before
  <1> QED
    BY <1>4, PrecedesIs DEF Counted, x, z

\* ... and decides between any two partners, as no two have one identifier.
LEMMA PrecedesTotal ==
  ASSUME NEW sort \in Sort, NEW a, NEW b, Counted(a), Counted(b), a.partner # b.partner
  PROVE  Precedes(sort, a, b) \/ Precedes(sort, b, a)
  <1> DEFINE x == Keys(sort, a)
             y == Keys(sort, b)
  <1>1. /\ x[1] \in Int /\ x[2] \in Int /\ x[3] \in Int
        /\ y[1] \in Int /\ y[2] \in Int /\ y[3] \in Int
    BY KeysType DEF Counted
  <1>2. NameOrder(a, b) \/ NameOrder(b, a)
    <2>1. Id[a.partner] # Id[b.partner]
      BY TradeAssumption DEF Counted, IsInjective
    <2>2. /\ Id[a.partner] \in Nat /\ Id[b.partner] \in Nat
          /\ DisplayName[a.partner] \in Nat /\ DisplayName[b.partner] \in Nat
      BY TradeAssumption DEF Counted
    <2> HIDE DEF x, y
    <2> QED
      BY <2>1, <2>2 DEF NameOrder
  <1> HIDE DEF x, y
  <1>3. Before(x, y, a, b) \/ Before(y, x, b, a)
    BY <1>1, <1>2 DEF Before
  <1> QED
    BY <1>3, PrecedesIs DEF Counted, x, y

\* A set of rows, one per partner.
Rows(rows) ==
  /\ IsFiniteSet(rows) /\ \A a \in rows : Counted(a)
  /\ \A a, b \in rows : a.partner = b.partner => a = b

Ahead(sort, rows, a) == {x \in rows : Precedes(sort, x, a)}

\* An order lists every row.
LEMMA OrderSurjective ==
  ASSUME NEW sort \in Sort, NEW rows, Rows(rows), NEW o \in Orders(sort, rows)
  PROVE  /\ o \in [1..Cardinality(rows) -> rows] /\ Cardinality(rows) \in Nat
         /\ \A r \in rows : \E i \in 1..Cardinality(rows) : o[i] = r
  <1> DEFINE n == Cardinality(rows)
  <1>1. IsFiniteSet(rows) /\ n \in Nat
    BY FS_CardinalityType DEF Rows
  <1>2. o \in [1..n -> rows] /\ IsInjective(o)
    BY DEF Orders
  <1>3. Cardinality(1..n) = n
    BY <1>1, FS_Interval
  <1>4. o \in Injection(1..n, rows)
    BY <1>2 DEF Injection, IsInjective
  <1> HIDE DEF n
  <1>5. o \in Surjection(1..n, rows)
    BY <1>1, <1>3, <1>4, FS_Injection DEF n
  <1> QED
    BY <1>1, <1>2, <1>5 DEF Surjection, n

\* A row is further down an order exactly if the other precedes it.
LEMMA OrderIncreases ==
  ASSUME NEW sort \in Sort, NEW rows, Rows(rows), NEW o \in Orders(sort, rows),
         NEW i \in 1..Cardinality(rows), NEW j \in 1..Cardinality(rows)
  PROVE  i < j <=> Precedes(sort, o[i], o[j])
  <1>1. /\ o \in [1..Cardinality(rows) -> rows] /\ IsInjective(o) /\ Cardinality(rows) \in Nat
        /\ \A k, l \in DOMAIN o : k < l => ~Precedes(sort, o[l], o[k])
    BY OrderSurjective DEF Orders
  <1>2. o[i] \in rows /\ o[j] \in rows /\ Counted(o[i]) /\ Counted(o[j])
    BY <1>1 DEF Rows
  <1>3. i # j => o[i].partner # o[j].partner
    BY <1>1, <1>2 DEF Rows, IsInjective
  <1>4. CASE i < j
    BY <1>1, <1>2, <1>3, <1>4, PrecedesTotal
  <1>5. CASE i = j
    BY <1>2, <1>5, PrecedesStrict
  <1>6. CASE j < i
    BY <1>1, <1>6
  <1> QED
    BY <1>1, <1>4, <1>5, <1>6

\* The i-th row of an order has i - 1 rows ahead of it.
LEMMA OrderRanks ==
  ASSUME NEW sort \in Sort, NEW rows, Rows(rows), NEW o \in Orders(sort, rows),
         NEW i \in 1..Cardinality(rows)
  PROVE  Cardinality(Ahead(sort, rows, o[i])) = i - 1
  <1> DEFINE f == [j \in 1..(i - 1) |-> o[j]]
             T == Ahead(sort, rows, o[i])
  <1> HIDE DEF f, T
  <1>1. /\ o \in [1..Cardinality(rows) -> rows] /\ Cardinality(rows) \in Nat
        /\ \A r \in rows : \E j \in 1..Cardinality(rows) : o[j] = r
    BY OrderSurjective
  <1>0. IsInjective(o)
    BY DEF Orders
  <1>2. \A j \in 1..Cardinality(rows) : j < i <=> o[j] \in T
    BY <1>1, OrderIncreases DEF Ahead, T
  <1>3. T \subseteq rows
    BY DEF Ahead, T
  <1>4. f \in [1..(i - 1) -> T]
    BY <1>1, <1>2 DEF f
  <1>5. \A t \in T : \E j \in 1..(i - 1) : f[j] = t
    BY <1>1, <1>2, <1>3 DEF f
  <1>6. \A j, k \in 1..(i - 1) : f[j] = f[k] => j = k
    BY <1>0, <1>1 DEF IsInjective, f
  <1>7. f \in Bijection(1..(i - 1), T)
    BY <1>4, <1>5, <1>6 DEF Bijection, Injection, Surjection, IsInjective
  <1>8. IsFiniteSet(1..(i - 1)) /\ Cardinality(1..(i - 1)) = i - 1
    <2>1. i - 1 \in Int /\ (~(1 > i - 1) \/ i - 1 = 0)
      BY <1>1
    <2> QED
      BY <2>1, FS_Interval
  <1> QED
    BY <1>7, <1>8, FS_Bijection DEF ExistsBijection, T

\* Fewer rows are ahead of a row than there are.
LEMMA RankType ==
  ASSUME NEW sort \in Sort, NEW rows, Rows(rows), NEW a \in rows
  PROVE  /\ Cardinality(Ahead(sort, rows, a)) \in 0..(Cardinality(rows) - 1)
         /\ IsFiniteSet(Ahead(sort, rows, a)) /\ Cardinality(rows) \in Nat
  <1> DEFINE T == Ahead(sort, rows, a)
             U == rows \ {a}
  <1>1. IsFiniteSet(rows) /\ Cardinality(rows) \in Nat
    BY FS_CardinalityType DEF Rows
  <1>2. IsFiniteSet(U) /\ Cardinality(U) = Cardinality(rows) - 1
    BY <1>1, FS_RemoveElement
  <1>3. T \in SUBSET U
    BY PrecedesStrict DEF Ahead, Rows
  <1> HIDE DEF T, U
  <1>4. IsFiniteSet(T) /\ Cardinality(T) <= Cardinality(U)
    BY <1>2, <1>3, FS_Subset
  <1>5. Cardinality(T) \in Nat
    BY <1>4, FS_CardinalityType
  <1> QED
    BY <1>1, <1>2, <1>4, <1>5 DEF T

\* What precedes a row has fewer rows ahead of it.
LEMMA RanksIncrease ==
  ASSUME NEW sort \in Sort, NEW rows, Rows(rows), NEW a \in rows, NEW b \in rows,
         Precedes(sort, a, b)
  PROVE  Cardinality(Ahead(sort, rows, a)) < Cardinality(Ahead(sort, rows, b))
  <1> DEFINE T == Ahead(sort, rows, a)
             U == Ahead(sort, rows, b)
  <1>1. T \in SUBSET U
    BY PrecedesTransitive DEF Ahead, Rows
  <1>2. a \in U /\ a \notin T
    BY PrecedesStrict DEF Ahead, Rows
  <1>3. IsFiniteSet(U) /\ Cardinality(T) \in Nat /\ Cardinality(U) \in Nat
    BY RankType
  <1> HIDE DEF T, U
  <1>4. Cardinality(T) <= Cardinality(U) /\ (Cardinality(U) = Cardinality(T) => U = T)
    BY <1>1, <1>3, FS_Subset
  <1> QED
    BY <1>2, <1>3, <1>4 DEF T, U

\* A row is known by the number of rows ahead of it.
LEMMA RanksDiffer ==
  ASSUME NEW sort \in Sort, NEW rows, Rows(rows), NEW a \in rows, NEW b \in rows,
         Cardinality(Ahead(sort, rows, a)) = Cardinality(Ahead(sort, rows, b))
  PROVE  a = b
  <1> SUFFICES ASSUME a # b PROVE FALSE
    OBVIOUS
  <1>1. Precedes(sort, a, b) \/ Precedes(sort, b, a)
    BY PrecedesTotal DEF Rows
  <1>2. Cardinality(Ahead(sort, rows, a)) \in Nat
    BY RankType
  <1> QED
    BY <1>1, <1>2, RanksIncrease

\* The order of the rows of a query is fully determined.
LEMMA OneOrder ==
  ASSUME NEW sort \in Sort, NEW rows, Rows(rows)
  PROVE  Cardinality(Orders(sort, rows)) = 1
  <1> DEFINE n == Cardinality(rows)
             R == [a \in rows |-> Cardinality(Ahead(sort, rows, a)) + 1]
             p == [i \in 1..n |-> CHOOSE a \in rows : R[a] = i]
  <1>1. IsFiniteSet(rows) /\ n \in Nat
    BY FS_CardinalityType DEF Rows
  <1>2. R \in [rows -> 1..n] /\ \A a, b \in rows : R[a] = R[b] => a = b
    <2>1. \A a \in rows : Cardinality(Ahead(sort, rows, a)) \in 0..(n - 1)
      BY RankType
    <2>2. R \in [rows -> 1..n]
      BY <1>1, <2>1
    <2>3. ASSUME NEW a \in rows, NEW b \in rows, R[a] = R[b]
          PROVE  a = b
      <3>1. Cardinality(Ahead(sort, rows, a)) = Cardinality(Ahead(sort, rows, b))
        BY <1>1, <2>1, <2>3
      <3> QED
        BY <3>1, RanksDiffer
    <2> QED
      BY <2>2, <2>3
  <1>3. \A a, b \in rows : Precedes(sort, a, b) => R[a] < R[b]
    <2> SUFFICES ASSUME NEW a \in rows, NEW b \in rows, Precedes(sort, a, b)
                 PROVE  R[a] < R[b]
      OBVIOUS
    <2>1. Cardinality(Ahead(sort, rows, a)) < Cardinality(Ahead(sort, rows, b))
      BY RanksIncrease
    <2>2. Cardinality(Ahead(sort, rows, a)) \in Nat /\ Cardinality(Ahead(sort, rows, b)) \in Nat
      BY RankType
    <2> QED
      BY <2>1, <2>2
  <1> HIDE DEF R
  <1>4. R \in Surjection(rows, 1..n)
    <2>1. R \in Injection(rows, 1..n)
      BY <1>2 DEF Injection, IsInjective
    <2>2. IsFiniteSet(1..n) /\ Cardinality(1..n) = n
      BY <1>1, FS_Interval
    <2> QED
      BY <1>1, <2>1, <2>2, FS_Injection
  <1>5. \A i \in 1..n : p[i] \in rows /\ R[p[i]] = i
    BY <1>4 DEF Surjection
  <1> HIDE DEF p
  <1>6. p \in Orders(sort, rows)
    <2>1. p \in [1..n -> rows]
      BY <1>5 DEF p
    <2>2. \A i, j \in 1..n : i < j => ~Precedes(sort, p[j], p[i])
      BY <1>1, <1>3, <1>5
    <2>3. \A i, j \in 1..n : p[i] = p[j] => i = j
      BY <1>5
    <2> QED
      BY <2>1, <2>2, <2>3 DEF Orders, IsInjective
  <1>7. ASSUME NEW o \in Orders(sort, rows)
        PROVE  o = p
    <2>1. o \in [1..n -> rows] /\ p \in [1..n -> rows]
      BY <1>6 DEF Orders
    <2>2. \A i \in 1..n : o[i] = p[i]
      <3> SUFFICES ASSUME NEW i \in 1..n
                   PROVE  o[i] = p[i]
        OBVIOUS
      <3>1. Cardinality(Ahead(sort, rows, o[i])) = i - 1 /\ Cardinality(Ahead(sort, rows, p[i])) = i - 1
        BY <1>6, <1>7, OrderRanks
      <3> QED
        BY <2>1, <3>1, RanksDiffer
    <2> HIDE DEF n
    <2>3. o = [i \in 1..n |-> o[i]] /\ p = [i \in 1..n |-> p[i]]
      BY <2>1
    <2> QED
      BY <2>2, <2>3, Zenon
  <1>8. Orders(sort, rows) = {p}
    BY <1>6, <1>7
  <1> QED
    BY <1>8, FS_Singleton
-----------------------------------------------------------------------------
OfferSet(d, q, c) == {s \in Missing(d, q) \cap StickersOf[d.revision[c]] : d.quantity[c][s] > 1}
NeedSet(d, q, c)  == {s \in Duplicates(d, q) \cap StickersOf[d.revision[c]] : d.quantity[c][s] = 0}

Readable(d, q) == d \in Tables /\ WellFormed(d) /\ q \in Query /\ HasCollection(d, q.viewer)

\* What a well-typed table has for a collector.
LEMMA TablesAre ==
  ASSUME NEW d \in Tables, NEW c \in Collector
  PROVE  /\ d.revision[c] \in Revision \cup {NoCollection}
         /\ d.revision[c] # NoCollection => StickersOf[d.revision[c]] \in SUBSET Sticker
         /\ d.active[c] \in BOOLEAN /\ d.visible[c] \in BOOLEAN
         /\ \A s \in Sticker : d.quantity[c][s] \in Nat
  BY TradeAssumption DEF Tables

\* The stickers of the viewer that a query looks at.
LEMMA CandidatesAre ==
  ASSUME NEW d, NEW q, Readable(d, q)
  PROVE  /\ q.viewer \in Collector
         /\ OwnerCandidates(d, q) \subseteq Sticker
         /\ Missing(d, q) \subseteq Sticker /\ IsFiniteSet(Missing(d, q))
         /\ Duplicates(d, q) \subseteq Sticker /\ IsFiniteSet(Duplicates(d, q))
  <1>1. q.viewer \in Collector
    BY DEF Readable, Query
  <1>2. OwnerCandidates(d, q) \subseteq Sticker
    BY <1>1, TablesAre DEF Readable, HasCollection, OwnerCandidates
  <1>3. Missing(d, q) \in SUBSET Sticker /\ Duplicates(d, q) \in SUBSET Sticker
    BY <1>2 DEF Missing, Duplicates
  <1> QED
    BY <1>1, <1>2, <1>3, FS_Subset, TradeAssumption

\* The first count of the summary, as the reference would make it ...
LEMMA OfferedIs ==
  ASSUME NEW d, NEW q, Readable(d, q), NEW c \in Collector, HasCollection(d, c)
  PROVE  /\ OfferedCount(d, q, c) = Cardinality(OfferSet(d, q, c))
         /\ IsFiniteSet(OfferSet(d, q, c)) /\ OfferSet(d, q, c) \subseteq Sticker
  <1>1. {s \in Missing(d, q) : d.quantity[c][s] > 1} = OfferSet(d, q, c)
    <2>1. \A s \in Missing(d, q) : s \in Sticker /\ d.quantity[c][s] \in Nat
      BY CandidatesAre, TablesAre DEF Readable
    <2>2. \A s \in Missing(d, q) : d.quantity[c][s] > 1 => s \in StickersOf[d.revision[c]]
      BY <2>1 DEF Readable, WellFormed
    <2> QED
      BY <2>2 DEF OfferSet
  <1>2. OfferSet(d, q, c) \in SUBSET Missing(d, q)
    BY DEF OfferSet
  <1>3. IsFiniteSet(OfferSet(d, q, c)) /\ OfferSet(d, q, c) \subseteq Sticker
    BY <1>2, CandidatesAre, FS_Subset
  <1> QED
    BY <1>1, <1>3 DEF OfferedCount

\* ... and the second: the partner's holdings are among the duplicates it
\* subtracts them from, so the subtraction is exact (matching.ts:154-156).
LEMMA WantedIs ==
  ASSUME NEW d, NEW q, Readable(d, q), NEW c \in Collector, HasCollection(d, c)
  PROVE  /\ WantedCount(d, q, c) = Cardinality(NeedSet(d, q, c))
         /\ IsFiniteSet(NeedSet(d, q, c)) /\ NeedSet(d, q, c) \subseteq Sticker
  <1> DEFINE D == Duplicates(d, q) \cap StickersOf[d.revision[c]]
             H == {s \in Duplicates(d, q) : d.quantity[c][s] > 0}
  <1>1. \A s \in Duplicates(d, q) : s \in Sticker /\ d.quantity[c][s] \in Nat
    BY CandidatesAre, TablesAre DEF Readable
  <1>2. H \subseteq D
    BY <1>1 DEF Readable, WellFormed
  <1>3. D \ H = NeedSet(d, q, c)
    BY <1>1 DEF NeedSet
  <1>4. D \in SUBSET Duplicates(d, q) /\ NeedSet(d, q, c) \in SUBSET Duplicates(d, q)
    BY DEF NeedSet
  <1>5. WantedCount(d, q, c) = Cardinality(D) - Cardinality(H)
    BY DEF WantedCount
  <1> HIDE DEF D, H
  <1>6. IsFiniteSet(D) /\ IsFiniteSet(NeedSet(d, q, c)) /\ NeedSet(d, q, c) \subseteq Sticker
    BY <1>4, CandidatesAre, FS_Subset
  <1>7. Cardinality(D \ H) = Cardinality(D) - Cardinality(D \cap H)
    BY <1>6, FS_Difference
  <1>8. D \cap H = H
    BY <1>2
  <1> QED
    BY <1>3, <1>5, <1>6, <1>7, <1>8

SummaryRow(d, q, c) == [partner |-> c, offered |-> OfferedCount(d, q, c), wanted |-> WantedCount(d, q, c)]

\* A row of the summary counts stickers of a visible partner with a collection.
LEMMA SummaryRowType ==
  ASSUME NEW d, NEW q, Readable(d, q), NEW c \in VisiblePartners(d, q)
  PROVE  Counted(SummaryRow(d, q, c)) /\ SummaryRow(d, q, c).partner = c /\ c \in Collector /\ HasCollection(d, c)
  <1>1. c \in Collector /\ HasCollection(d, c)
    BY DEF VisiblePartners
  <1>2. OfferedCount(d, q, c) \in Nat /\ WantedCount(d, q, c) \in Nat
    BY <1>1, OfferedIs, WantedIs, FS_CardinalityType
  <1> QED
    BY <1>1, <1>2 DEF Counted, SummaryRow

\* The summary has one row for each visible partner that fits the query.
LEMMA SummaryRows ==
  ASSUME NEW d, NEW q, Readable(d, q)
  PROVE  /\ Rows(Summary(d, q))
         /\ \A row \in Summary(d, q) :
              row.partner \in VisiblePartners(d, q) /\ row = SummaryRow(d, q, row.partner) /\ Fits(q, row)
         /\ \A c \in VisiblePartners(d, q) :
              Fits(q, SummaryRow(d, q, c)) => SummaryRow(d, q, c) \in Summary(d, q)
  <1> DEFINE S == Summary(d, q)
             V == VisiblePartners(d, q)
  <1>1. S = {row \in {SummaryRow(d, q, c) : c \in V} : Fits(q, row)}
    BY DEF Summary, SummaryRow
  <1>2. \A c \in V : Counted(SummaryRow(d, q, c)) /\ SummaryRow(d, q, c).partner = c
    BY SummaryRowType
  <1> HIDE DEF S
  <1>3. \A row \in S : row.partner \in V /\ row = SummaryRow(d, q, row.partner) /\ Fits(q, row) /\ Counted(row)
    BY <1>1, <1>2
  <1>4. IsFiniteSet(S)
    <2> DEFINE f == [row \in S |-> row.partner]
    <2>1. V \in SUBSET Collector /\ IsFiniteSet(Collector)
      BY TradeAssumption DEF VisiblePartners
    <2>2. IsFiniteSet(V)
      BY <2>1, FS_Subset
    <2>3. f \in Injection(S, V)
      BY <1>3 DEF Injection, IsInjective
    <2> QED
      BY <2>2, <2>3, FS_Injection
  <1> QED
    BY <1>1, <1>2, <1>3, <1>4 DEF Rows, S

\* The details of a partner are the lines of both lists.
LEMMA MatchIs ==
  ASSUME NEW d, NEW q, Readable(d, q), NEW c \in VisiblePartners(d, q)
  PROVE  Match(d, q, SummaryRow(d, q, c)) =
           [partner |-> c, offered |-> OfferedCount(d, q, c), wanted |-> WantedCount(d, q, c),
            offersToYou |-> Offers(d, q, c), needsFromYou |-> Needs(d, q, c)]
  <1>1. Lines(d, q, c) = [offersToYou |-> Offers(d, q, c), needsFromYou |-> Needs(d, q, c)]
    BY DEF Lines, Readable
  <1> QED
    BY <1>1 DEF Match, SummaryRow

\* The rows of the reference are the pairs it joins.
LEMMA RowPairs ==
  ASSUME NEW d, NEW q
  PROVE  /\ \A r \in ReferenceRows(d, q) : r[1] \in Collector /\ r[2] \in Sticker /\ Joins(d, q, r[1], r[2])
         /\ \A c \in Collector, s \in Sticker :
              Joins(d, q, c, s) => \E r \in ReferenceRows(d, q) : r[1] = c /\ r[2] = s
  <1>1. \A c \in Collector, s \in Sticker :
          <<c, s>> \in Collector \X Sticker /\ <<c, s>>[1] = c /\ <<c, s>>[2] = s
    OBVIOUS
  <1>2. \A r \in ReferenceRows(d, q) : r[1] \in Collector /\ r[2] \in Sticker /\ Joins(d, q, r[1], r[2])
    BY DEF ReferenceRows
  <1>3. ASSUME NEW c \in Collector, NEW s \in Sticker, Joins(d, q, c, s)
        PROVE  <<c, s>> \in ReferenceRows(d, q)
    BY <1>1, <1>3 DEF ReferenceRows
  <1> QED
    BY <1>1, <1>2, <1>3

\* The groups of the reference are the lists of the details.
LEMMA ReferenceMatchIs ==
  ASSUME NEW d, NEW q, Readable(d, q), NEW c \in VisiblePartners(d, q)
  PROVE  /\ ReferenceMatch(d, q, c) = Match(d, q, SummaryRow(d, q, c))
         /\ {s \in Sticker : Joins(d, q, c, s)} = OfferSet(d, q, c) \cup NeedSet(d, q, c)
  <1> DEFINE mine == {r[2] : r \in {x \in ReferenceRows(d, q) : x[1] = c}}
             offers == {s \in mine : d.quantity[q.viewer][s] = 0}
             needs == mine \ offers
  <1>1. c \in Collector /\ HasCollection(d, c) /\ d.visible[c] /\ d.active[c] /\ c # q.viewer
    BY DEF VisiblePartners
  <1>2. mine = {s \in Sticker : Joins(d, q, c, s)}
    BY <1>1, RowPairs
  <1>3. q.viewer \in Collector /\ \A s \in Sticker : d.quantity[q.viewer][s] \in Nat /\ d.quantity[c][s] \in Nat
    BY <1>1, CandidatesAre, TablesAre DEF Readable
  <1>4. StickersOf[d.revision[q.viewer]] \subseteq Sticker
    BY <1>3, TablesAre DEF Readable, HasCollection
  <1> HIDE DEF mine
  <1>5. mine = OfferSet(d, q, c) \cup NeedSet(d, q, c)
    BY <1>1, <1>2, <1>3, <1>4 DEF Joins, OfferSet, NeedSet, Missing, Duplicates, OwnerCandidates, Readable
  <1>6. offers = OfferSet(d, q, c) /\ needs = NeedSet(d, q, c)
    BY <1>3, <1>4, <1>5 DEF OfferSet, NeedSet, Missing, Duplicates, OwnerCandidates
  <1>7. ReferenceMatch(d, q, c) =
          [partner |-> c, offered |-> Cardinality(offers), wanted |-> Cardinality(needs),
           offersToYou  |-> {[sticker |-> s, spare |-> d.quantity[c][s] - 1] : s \in offers},
           needsFromYou |-> {[sticker |-> s, spare |-> d.quantity[q.viewer][s] - 1] : s \in needs}]
    BY DEF ReferenceMatch, mine
  <1>8. /\ Offers(d, q, c) = {[sticker |-> s, spare |-> d.quantity[c][s] - 1] : s \in OfferSet(d, q, c)}
        /\ Needs(d, q, c) = {[sticker |-> s, spare |-> d.quantity[q.viewer][s] - 1] : s \in NeedSet(d, q, c)}
    BY DEF Offers, Needs, OfferSet, NeedSet
  <1>9. OfferedCount(d, q, c) = Cardinality(OfferSet(d, q, c)) /\ WantedCount(d, q, c) = Cardinality(NeedSet(d, q, c))
    BY <1>1, OfferedIs, WantedIs
  <1> HIDE DEF offers, needs
  <1> QED
    BY <1>2, <1>5, <1>6, <1>7, <1>8, <1>9, MatchIs

DirectionFits(q, m) == q.direction \in {"all", IF m.offered > 0 /\ m.wanted > 0 THEN "two-way" ELSE "one-way"}

\* The reference makes the same matches of the tables as the queries do.
LEMMA ReferenceIs ==
  ASSUME NEW d, NEW q, Readable(d, q)
  PROVE  Reference(d, q) = {Match(d, q, row) : row \in Summary(d, q)}
  <1> DEFINE V == VisiblePartners(d, q)
             P == {r[1] : r \in ReferenceRows(d, q)}
             M(c) == Match(d, q, SummaryRow(d, q, c))
  <1>1. P = {c \in V : OfferSet(d, q, c) \cup NeedSet(d, q, c) # {}}
    <2>1. P = {c \in Collector : \E s \in Sticker : Joins(d, q, c, s)}
      BY RowPairs
    <2>2. \A c \in Collector, s \in Sticker : Joins(d, q, c, s) => c \in V
      BY DEF Joins, VisiblePartners
    <2>3. V \subseteq Collector
      BY DEF VisiblePartners
    <2>4. \A c \in V : {s \in Sticker : Joins(d, q, c, s)} = OfferSet(d, q, c) \cup NeedSet(d, q, c)
      BY ReferenceMatchIs
    <2> HIDE DEF V, P
    <2> QED
      BY <2>1, <2>2, <2>3, <2>4
  <1>2. \A c \in V : /\ ReferenceMatch(d, q, c) = M(c)
                     /\ M(c).partner = c /\ M(c).offered = OfferedCount(d, q, c) /\ M(c).wanted = WantedCount(d, q, c)
    BY ReferenceMatchIs, MatchIs
  <1>3. \A c \in V : OfferSet(d, q, c) \cup NeedSet(d, q, c) # {} <=> OfferedCount(d, q, c) > 0 \/ WantedCount(d, q, c) > 0
    <2> SUFFICES ASSUME NEW c \in V
                 PROVE  OfferSet(d, q, c) \cup NeedSet(d, q, c) # {} <=> OfferedCount(d, q, c) > 0 \/ WantedCount(d, q, c) > 0
      OBVIOUS
    <2>1. c \in Collector /\ HasCollection(d, c)
      BY DEF VisiblePartners
    <2>2. /\ OfferedCount(d, q, c) = Cardinality(OfferSet(d, q, c)) /\ IsFiniteSet(OfferSet(d, q, c))
          /\ WantedCount(d, q, c) = Cardinality(NeedSet(d, q, c)) /\ IsFiniteSet(NeedSet(d, q, c))
      BY <2>1, OfferedIs, WantedIs
    <2>3. /\ OfferedCount(d, q, c) \in Nat /\ (OfferedCount(d, q, c) = 0 <=> OfferSet(d, q, c) = {})
          /\ WantedCount(d, q, c) \in Nat /\ (WantedCount(d, q, c) = 0 <=> NeedSet(d, q, c) = {})
      BY <2>2, FS_EmptySet, FS_CardinalityType
    <2> QED
      BY <2>3
  <1>4. Reference(d, q) = {m \in {ReferenceMatch(d, q, c) : c \in P} : DirectionFits(q, m)}
    BY DEF Reference, DirectionFits
  <1>5. q.direction \in Direction
    BY DEF Readable, Query
  <1>6. \A c \in V : Fits(q, SummaryRow(d, q, c)) <=> c \in P /\ DirectionFits(q, M(c))
    <2> SUFFICES ASSUME NEW c \in V
                 PROVE  Fits(q, SummaryRow(d, q, c)) <=> c \in P /\ DirectionFits(q, M(c))
      OBVIOUS
    <2>1. c \in P <=> OfferedCount(d, q, c) > 0 \/ WantedCount(d, q, c) > 0
      BY <1>1, <1>3
    <2>2. SummaryRow(d, q, c).offered = OfferedCount(d, q, c) /\ SummaryRow(d, q, c).wanted = WantedCount(d, q, c)
      BY DEF SummaryRow
    <2>3. M(c).offered = OfferedCount(d, q, c) /\ M(c).wanted = WantedCount(d, q, c)
      BY <1>2
    <2> HIDE DEF M, P, V
    <2> QED
      BY <1>5, <2>1, <2>2, <2>3 DEF Fits, DirectionFits, Direction
  <1>7. \A row \in Summary(d, q) : row.partner \in V /\ row = SummaryRow(d, q, row.partner) /\ Fits(q, row)
    BY SummaryRows
  <1>8. \A c \in V : Fits(q, SummaryRow(d, q, c)) => SummaryRow(d, q, c) \in Summary(d, q)
    BY SummaryRows
  <1>9. P \subseteq V
    BY <1>1
  <1> HIDE DEF V, P
  <1>10. \A m \in Reference(d, q) : \E row \in Summary(d, q) : m = Match(d, q, row)
    BY <1>2, <1>4, <1>6, <1>8, <1>9
  <1>11. \A row \in Summary(d, q) : Match(d, q, row) \in Reference(d, q)
    <2> SUFFICES ASSUME NEW row \in Summary(d, q)
                 PROVE  Match(d, q, row) \in Reference(d, q)
      OBVIOUS
    <2>1. PICK c \in V : row = SummaryRow(d, q, c) /\ Fits(q, row)
      BY <1>7
    <2>2. Match(d, q, row) = ReferenceMatch(d, q, c) /\ c \in P /\ DirectionFits(q, Match(d, q, row))
      BY <1>2, <1>6, <2>1
    <2> QED
      BY <1>4, <2>2
  <1> QED
    BY <1>10, <1>11

\* The order looks at a row's partner and counts alone.
LEMMA PrecedesSame ==
  ASSUME NEW sort \in Sort, NEW a, NEW b, NEW x, NEW y, Counted(a), Counted(b),
         x.partner = a.partner, x.offered = a.offered, x.wanted = a.wanted,
         y.partner = b.partner, y.offered = b.offered, y.wanted = b.wanted
  PROVE  Precedes(sort, x, y) <=> Precedes(sort, a, b)
  <1>1. Keys(sort, x) = Keys(sort, a) /\ Keys(sort, y) = Keys(sort, b)
    BY DEF Keys, TwoWay
  <1>2. NameOrder(x, y) <=> NameOrder(a, b)
    BY DEF NameOrder
  <1> QED
    BY <1>1, <1>2 DEF Precedes

\* A match has the counts of its summary row ...
LEMMA MatchKeepsCounts ==
  ASSUME NEW d, NEW q, Readable(d, q), NEW a \in Summary(d, q)
  PROVE  /\ Match(d, q, a).partner = a.partner
         /\ Match(d, q, a).offered = a.offered /\ Match(d, q, a).wanted = a.wanted
  BY DEF Match

\* ... and with them its place ...
LEMMA MatchKeepsOrder ==
  ASSUME NEW d, NEW q, Readable(d, q), NEW a \in Summary(d, q), NEW b \in Summary(d, q)
  PROVE  /\ Precedes(q.sort, Match(d, q, a), Match(d, q, b)) <=> Precedes(q.sort, a, b)
         /\ Match(d, q, a) = Match(d, q, b) => a = b
  <1>1. Counted(a) /\ Counted(b) /\ (a.partner = b.partner => a = b)
    BY SummaryRows DEF Rows
  <1>2. q.sort \in Sort
    BY DEF Readable, Query
  <1>3. /\ Match(d, q, a).partner = a.partner /\ Match(d, q, b).partner = b.partner
        /\ Match(d, q, a).offered = a.offered /\ Match(d, q, a).wanted = a.wanted
        /\ Match(d, q, b).offered = b.offered /\ Match(d, q, b).wanted = b.wanted
    BY MatchKeepsCounts
  <1>4. Match(d, q, a) = Match(d, q, b) => a = b
    BY <1>1, <1>3
  <1> QED
    BY <1>1, <1>2, <1>3, <1>4, PrecedesSame

\* ... and there are as many matches as rows.
LEMMA MatchesAsMany ==
  ASSUME NEW d, NEW q, Readable(d, q), NEW T \in SUBSET Summary(d, q)
  PROVE  Cardinality({Match(d, q, a) : a \in T}) = Cardinality(T)
  <1> DEFINE f == [a \in T |-> Match(d, q, a)]
             U == {Match(d, q, a) : a \in T}
  <1>1. IsFiniteSet(T)
    BY SummaryRows, FS_Subset DEF Rows
  <1>2. f \in [T -> U] /\ \A u \in U : \E a \in T : f[a] = u
    OBVIOUS
  <1>3. \A a, b \in T : f[a] = f[b] => a = b
    BY MatchKeepsOrder
  <1> HIDE DEF f, U
  <1>4. f \in Bijection(T, U)
    BY <1>2, <1>3 DEF Bijection, Injection, Surjection, IsInjective
  <1> QED
    BY <1>1, <1>4, FS_Bijection DEF ExistsBijection, U

\* The reference sorts a match where the summary has its row.
LEMMA RankIs ==
  ASSUME NEW d, NEW q, Readable(d, q), NEW a \in Summary(d, q)
  PROVE  Rank(d, q, Match(d, q, a)) = Cardinality(Ahead(q.sort, Summary(d, q), a))
  <1> DEFINE T == Ahead(q.sort, Summary(d, q), a)
  <1>1. {x \in Reference(d, q) : Precedes(q.sort, x, Match(d, q, a))} = {Match(d, q, b) : b \in T}
    BY ReferenceIs, MatchKeepsOrder DEF Ahead
  <1>2. T \in SUBSET Summary(d, q)
    BY DEF Ahead
  <1> HIDE DEF T
  <1> QED
    BY <1>1, <1>2, MatchesAsMany DEF Rank, T

\* A page is what the order has from the offset on, up to the limit.
LEMMA PageIs ==
  ASSUME NEW q \in Query, NEW n \in Nat, NEW o, DOMAIN o = 1..n
  PROVE  /\ \A k \in Int : k \in DOMAIN PageOf(q, o) <=> k \in 1..Limit(q) /\ q.offset + k <= n
         /\ \A k \in DOMAIN PageOf(q, o) : PageOf(q, o)[k] = o[q.offset + k] /\ q.offset + k \in 1..n
         /\ PageOf(q, o) # << >> <=> q.offset < n
  <1> DEFINE m == Min({Limit(q), Max({0, n - q.offset})})
  <1>1. Cardinality(DOMAIN o) = n
    BY FS_Interval
  <1>2. q.offset \in Nat /\ Limit(q) \in Nat /\ Limit(q) >= 1
    BY LimitIs, TradeAssumption DEF Query
  <1>3. Max({0, n - q.offset}) = IF 0 >= n - q.offset THEN 0 ELSE n - q.offset
    BY <1>2, MaxIs
  <1>4. m = IF 0 >= n - q.offset THEN 0 ELSE IF Limit(q) <= n - q.offset THEN Limit(q) ELSE n - q.offset
    <2> DEFINE k == Max({0, n - q.offset})
               l == Limit(q)
    <2>1. k \in Int /\ l \in Int /\ m = Min({l, k})
      BY <1>2, <1>3
    <2> HIDE DEF k, l, m
    <2>2. m = IF l <= k THEN l ELSE k
      BY <2>1, MinIs
    <2> QED
      BY <1>2, <1>3, <2>2 DEF k, l
  <1>5. PageOf(q, o) = [i \in 1..m |-> o[q.offset + i]]
    BY <1>1 DEF PageOf
  <1> HIDE DEF m
  <1>6. m \in Nat
    BY <1>2, <1>4
  <1>7. DOMAIN PageOf(q, o) = 1..m
    BY <1>5
  <1>8. PageOf(q, o) # << >> <=> m # 0
    BY <1>5, <1>6
  <1>9. \A k \in Int : k \in 1..m <=> k \in 1..Limit(q) /\ q.offset + k <= n
    BY <1>2, <1>4, <1>6
  <1>10. \A k \in 1..m : PageOf(q, o)[k] = o[q.offset + k] /\ q.offset + k \in 1..n
    BY <1>2, <1>4, <1>5, <1>6
  <1>11. m # 0 <=> q.offset < n
    BY <1>2, <1>4
  <1> QED
    BY <1>7, <1>8, <1>9, <1>10, <1>11

\* The answer of a request that read the tables d.
Rowed(d, q, o) == [i \in DOMAIN PageOf(q, o) |-> Match(d, q, PageOf(q, o)[i])]

\* Whatever the tables, an answer assembled from a summary and details of one
\* snapshot is the reference's page of that snapshot, in its order and with its
\* total, and all its partners are visible ones.
LEMMA AnswerIsReference ==
  ASSUME NEW d, NEW q, Readable(d, q), NEW o \in Orders(q.sort, Summary(d, q))
  PROVE  /\ Range(Rowed(d, q, o)) = ReferencePage(d, q)
         /\ Cardinality(Summary(d, q)) = Cardinality(Reference(d, q))
         /\ \A i, j \in DOMAIN Rowed(d, q, o) :
              i < j => Precedes(q.sort, Rowed(d, q, o)[i], Rowed(d, q, o)[j])
         /\ \A i \in DOMAIN Rowed(d, q, o) : Rowed(d, q, o)[i].partner \in VisiblePartners(d, q)
  <1> DEFINE S == Summary(d, q)
             n == Cardinality(S)
             P == PageOf(q, o)
             R == Rowed(d, q, o)
  <1>1. q \in Query /\ q.sort \in Sort /\ Rows(S)
    BY SummaryRows DEF Readable, Query
  <1>2. /\ o \in [1..n -> S] /\ n \in Nat
        /\ \A r \in S : \E i \in 1..n : o[i] = r
    BY <1>1, OrderSurjective
  <1>3. /\ \A k \in Int : k \in DOMAIN P <=> k \in 1..Limit(q) /\ q.offset + k <= n
        /\ \A k \in DOMAIN P : P[k] = o[q.offset + k] /\ q.offset + k \in 1..n
    BY <1>1, <1>2, PageIs
  <1>4. DOMAIN P \subseteq Nat
    BY DEF PageOf
  <1>5. q.offset \in Nat /\ Limit(q) \in Nat /\ Limit(q) >= 1
    BY <1>1, LimitIs, TradeAssumption DEF Query
  <1>6. DOMAIN R = DOMAIN P /\ \A k \in DOMAIN P : R[k] = Match(d, q, P[k]) /\ P[k] \in S
    BY <1>2, <1>3 DEF Rowed
  <1> HIDE DEF S, n, P, R
  <1>7. \A i \in 1..n : Rank(d, q, Match(d, q, o[i])) = i - 1
    BY <1>1, <1>2, RankIs, OrderRanks DEF n, S
  <1>8. \A m \in Reference(d, q) : \E i \in 1..n : m = Match(d, q, o[i])
    BY <1>2, ReferenceIs DEF S
  <1>9. \A i \in 1..n : Match(d, q, o[i]) \in Reference(d, q)
    BY <1>2, ReferenceIs DEF S
  <1>10. Range(R) = ReferencePage(d, q)
    <2>1. \A k \in DOMAIN P : R[k] \in ReferencePage(d, q)
      <3> SUFFICES ASSUME NEW k \in DOMAIN P
                   PROVE  R[k] \in ReferencePage(d, q)
        OBVIOUS
      <3>1. R[k] = Match(d, q, o[q.offset + k]) /\ q.offset + k \in 1..n /\ k \in 1..Limit(q)
        BY <1>3, <1>4, <1>6
      <3>2. Rank(d, q, R[k]) = (q.offset + k) - 1 /\ R[k] \in Reference(d, q)
        BY <1>7, <1>9, <3>1
      <3> QED
        BY <1>5, <3>1, <3>2 DEF ReferencePage
    <2>2. \A m \in ReferencePage(d, q) : \E k \in DOMAIN P : m = R[k]
      <3> SUFFICES ASSUME NEW m \in ReferencePage(d, q)
                   PROVE  \E k \in DOMAIN P : m = R[k]
        OBVIOUS
      <3>1. m \in Reference(d, q) /\ Rank(d, q, m) \in q.offset..(q.offset + Limit(q) - 1)
        BY DEF ReferencePage
      <3>2. PICK i \in 1..n : m = Match(d, q, o[i])
        BY <1>8, <3>1
      <3>3. i - 1 \in q.offset..(q.offset + Limit(q) - 1)
        BY <1>7, <3>1, <3>2
      <3>4. (i - q.offset) \in DOMAIN P /\ q.offset + (i - q.offset) = i
        <4> DEFINE k == i - q.offset
        <4>1. k \in 1..Limit(q) /\ k \in Int /\ q.offset + k = i /\ i <= n
          BY <1>2, <1>5, <3>3
        <4> HIDE DEF k
        <4>2. k \in DOMAIN P
          BY <1>3, <4>1
        <4> QED
          BY <4>1, <4>2 DEF k
      <3> QED
        BY <1>3, <1>6, <3>2, <3>4
    <2> QED
      BY <1>6, <2>1, <2>2 DEF Range
  <1>11. n = Cardinality(Reference(d, q))
    BY ReferenceIs, MatchesAsMany DEF n, S
  <1>12. ASSUME NEW i \in DOMAIN P, NEW j \in DOMAIN P, i < j
         PROVE  Precedes(q.sort, R[i], R[j])
    <2>1. q.offset + i < q.offset + j /\ q.offset + i \in 1..n /\ q.offset + j \in 1..n
      BY <1>3, <1>4, <1>5, <1>12
    <2>2. Precedes(q.sort, o[q.offset + i], o[q.offset + j])
      BY <1>1, <2>1, OrderIncreases DEF n, S
    <2> QED
      BY <1>3, <1>6, <2>2, MatchKeepsOrder DEF S
  <1>13. ASSUME NEW i \in DOMAIN P
         PROVE  R[i].partner \in VisiblePartners(d, q)
    BY <1>6, SummaryRows, MatchKeepsCounts DEF S
  <1> QED
    BY <1>6, <1>10, <1>11, <1>12, <1>13 DEF R, n, S
-----------------------------------------------------------------------------
\* A page has at least one match.
LEMMA PageSizeType == PageSize \in Nat /\ PageSize >= 1
  BY TradesAssumption, TradeAssumption

\* Integer division.
LEMMA Division ==
  ASSUME NEW n \in Nat, NEW p \in Nat, p >= 1
  PROVE  /\ n \div p \in Nat /\ p * (n \div p) <= n /\ n < p * (n \div p) + p
         /\ n % p = n - p * (n \div p)
  OBVIOUS

\* The last page has a match, if there is any.
LEMMA TotalPagesIs ==
  ASSUME NEW n \in Nat
  PROVE  /\ TotalPages(n) \in Nat /\ TotalPages(n) >= 1
         /\ n > 0 => PageSize * TotalPages(n) < n + PageSize
  <1> DEFINE k == (n + PageSize - 1) \div PageSize
  <1>1. n + PageSize - 1 \in Nat
    BY PageSizeType
  <1>2. k \in Nat /\ PageSize * k <= n + PageSize - 1 /\ (n + PageSize - 1) < PageSize * k + PageSize
    BY <1>1, PageSizeType, Division
  <1> HIDE DEF k
  <1>3. TotalPages(n) = IF 1 >= k THEN 1 ELSE k
    BY <1>2, MaxIs DEF TotalPages, k
  <1>4. n > 0 => k >= 1
    <2> SUFFICES ASSUME n > 0, k = 0
                 PROVE  FALSE
      BY <1>2
    <2>1. PageSize * k = 0
      BY PageSizeType
    <2> QED
      BY <1>2, <2>1, PageSizeType
  <1>5. PageSize * k \in Int
    BY <1>2, PageSizeType
  <1> QED
    BY <1>2, <1>3, <1>4, <1>5, PageSizeType

\* A page up to the last one begins before the matches end.
LEMMA PageReached ==
  ASSUME NEW q \in Query, IsPage(q), NEW n \in Nat, n > 0, ~(Page(q) > LastPage(n))
  PROVE  q.offset < n
  <1> DEFINE k == q.offset \div PageSize
             t == TotalPages(n)
  <1>1. q.offset \in Nat
    BY DEF Query
  <1>2. k \in Nat /\ q.offset % PageSize = q.offset - PageSize * k
    BY <1>1, PageSizeType, Division
  <1>3. t \in Nat /\ PageSize * t < n + PageSize
    BY TotalPagesIs
  <1>4. k + 1 <= t
    BY <1>2, <1>3 DEF Page, LastPage
  <1>5. q.offset % PageSize = 0
    BY DEF IsPage
  <1> HIDE DEF k, t
  <1>6. PageSize * (k + 1) <= PageSize * t
    BY <1>2, <1>3, <1>4, PageSizeType
  <1>7. PageSize * (k + 1) = PageSize * k + PageSize /\ PageSize * k \in Int /\ PageSize * t \in Int
    BY <1>2, <1>3, PageSizeType
  <1> QED
    BY <1>1, <1>2, <1>3, <1>5, <1>6, <1>7, PageSizeType

\* Other pages are queries too ...
LEMMA ToPageType ==
  ASSUME NEW q \in Query, NEW p \in Nat, p >= 1
  PROVE  ToPage(q, p) \in Query
  <1>1. (p - 1) * PageSize \in Nat
    BY PageSizeType
  <1> QED
    BY <1>1 DEF ToPage, Query

\* ... and pages are numbered from 1.
LEMMA PageType ==
  ASSUME NEW q \in Query
  PROVE  Page(q) \in Nat /\ Page(q) >= 1
  <1>1. q.offset \in Nat
    BY DEF Query
  <1>2. q.offset \div PageSize \in Nat
    BY <1>1, PageSizeType, Division
  <1> QED
    BY <1>2 DEF Page
-----------------------------------------------------------------------------
\* The query of ExchangeIsMutual.
LEMMA AskIs ==
  ASSUME NEW v \in Collector
  PROVE  Ask(v) \in Query /\ Ask(v).viewer = v /\ Ask(v).section = AnySection
  BY TradeAssumption DEF Ask, Query, Direction, Sort


\* What one collector offers is what the other wants, in any tables.
LEMMA Mutual ==
  ASSUME NEW d \in Tables, WellFormed(d), NEW a \in Collector, NEW b \in Collector, a # b,
         HasCollection(d, a), HasCollection(d, b)
  PROVE  /\ OfferedCount(d, Ask(a), b) = WantedCount(d, Ask(b), a)
         /\ {l.sticker : l \in Offers(d, Ask(a), b)} = {l.sticker : l \in Needs(d, Ask(b), a)}
  <1>1. Readable(d, Ask(a)) /\ Readable(d, Ask(b))
    BY AskIs DEF Readable
  <1>2. OfferSet(d, Ask(a), b) = NeedSet(d, Ask(b), a)
    <2>1. \A s \in Sticker : d.quantity[a][s] \in Nat /\ d.quantity[b][s] \in Nat
      BY TablesAre
    <2>2. StickersOf[d.revision[a]] \subseteq Sticker /\ StickersOf[d.revision[b]] \subseteq Sticker
      BY TablesAre DEF HasCollection
    <2> QED
      BY <2>1, <2>2, AskIs DEF OfferSet, NeedSet, Missing, Duplicates, OwnerCandidates, InSection
  <1>3. /\ OfferedCount(d, Ask(a), b) = Cardinality(OfferSet(d, Ask(a), b))
        /\ WantedCount(d, Ask(b), a) = Cardinality(NeedSet(d, Ask(b), a))
    BY <1>1, OfferedIs, WantedIs
  <1>4. /\ {l.sticker : l \in Offers(d, Ask(a), b)} = OfferSet(d, Ask(a), b)
        /\ {l.sticker : l \in Needs(d, Ask(b), a)} = NeedSet(d, Ask(b), a)
    <2> DEFINE S == OfferSet(d, Ask(a), b)
               N == NeedSet(d, Ask(b), a)
               f == d.quantity[b]
               g == d.quantity[Ask(b).viewer]
    <2>1. /\ Offers(d, Ask(a), b) = {[sticker |-> s, spare |-> f[s] - 1] : s \in S}
          /\ Needs(d, Ask(b), a) = {[sticker |-> s, spare |-> g[s] - 1] : s \in N}
      BY DEF Offers, Needs, OfferSet, NeedSet
    <2> HIDE DEF S, N, f, g
    <2>2. /\ {l.sticker : l \in Offers(d, Ask(a), b)} = S
          /\ {l.sticker : l \in Needs(d, Ask(b), a)} = N
      <3> DEFINE OF == Offers(d, Ask(a), b)
                 NE == Needs(d, Ask(b), a)
      <3> HIDE DEF OF, NE
      <3>0. /\ OF = {[sticker |-> s, spare |-> f[s] - 1] : s \in S}
            /\ NE = {[sticker |-> s, spare |-> g[s] - 1] : s \in N}
        BY <2>1 DEF OF, NE
      <3>1. /\ \A s \in S : [sticker |-> s, spare |-> f[s] - 1] \in OF
            /\ \A l \in OF : l.sticker \in S
        BY <3>0
      <3>2. /\ \A s \in N : [sticker |-> s, spare |-> g[s] - 1] \in NE
            /\ \A l \in NE : l.sticker \in N
        BY <3>0
      <3>3. /\ \A s \in S : \E l \in OF : l.sticker = s
            /\ \A s \in N : \E l \in NE : l.sticker = s
        BY <3>1, <3>2
      <3>4. {l.sticker : l \in OF} = S
        BY <3>1, <3>3
      <3>5. {l.sticker : l \in NE} = N
        BY <3>2, <3>3
      <3> QED
        BY <3>4, <3>5 DEF OF, NE
    <2> QED
      BY <2>1, <2>2 DEF S, N
  <1> QED
    BY <1>2, <1>3, <1>4
-----------------------------------------------------------------------------
Unanswered == {"opened", "resolved", "visible", "summarised"}
Snapped == {"visible", "summarised", "answered", "shown"}

TypeInv ==
  /\ TypeOK
  /\ WellFormed(snapshot)
  /\ promised \subseteq told

Updates == [Collector -> [BOOLEAN -> 0..MaxLate]]

HiddenInv ==
  /\ \A c \in told : form[c].phase \in {"loading", "idle"}
  /\ \A c \in told \ relisted : ~tables.visible[c]
  /\ \A c \in Collector \ relisted : form[c].phase = "saved" /\ form[c].shown => ~tables.visible[c]
  /\ phase \in Snapped => \A c \in promised \ relisted : ~snapshot.visible[c]

Found(o) ==
  [enabled |-> TRUE, rows |-> PageOf(query, o), total |-> Cardinality(Summary(snapshot, query))]
Full(o) ==
  [enabled |-> TRUE, rows |-> Rowed(snapshot, query, o), total |-> Cardinality(Summary(snapshot, query))]
Here == snapshot.visible[query.viewer] /\ HasCollection(snapshot, query.viewer)
Ordered == Orders(query.sort, Summary(snapshot, query))

RequestInv ==
  /\ phase \in {"opened", "resolved"} => tables \in moments
  /\ phase \in Snapped => snapshot \in moments
  /\ phase \in Unanswered => answer = Empty
  /\ phase \in {"visible", "summarised"} => Here
  /\ phase = "summarised" => \E o \in Ordered : summary = Found(o)
  /\ phase \in {"answered", "shown"} =>
       \/ ~snapshot.visible[query.viewer] /\ answer = Empty
       \/ Here /\ \E o \in Ordered : answer = Full(o)
  /\ phase = "shown" => IsPage(query) /\ ~(answer.total > 0 /\ Page(query) > LastPage(answer.total))

IInv == TypeInv /\ HiddenInv /\ RequestInv

\* A request that has not begun.
LEMMA Start0 == NoSnapshot \in Tables /\ WellFormed(NoSnapshot) /\ NoQuery \in Query
  BY TradesAssumption DEF NoSnapshot, NoQuery

\* The invariant holds before anything happens.
LEMMA InitIInv == Init => IInv
  <1> SUFFICES ASSUME Init PROVE IInv
    OBVIOUS
  <1>1. tables \in Tables /\ WellFormed(tables)
    BY TradesAssumption DEF Init
  <1>2. form \in [Collector -> Form]
    BY <1>1 DEF Init, Form, Tables
  <1>3. TypeInv
    BY <1>1, <1>2, Start0, TradesAssumption DEF Init, TypeInv, TypeOK, Empty
  <1>4. HiddenInv
    BY DEF Init, HiddenInv, Snapped
  <1> QED
    BY <1>3, <1>4 DEF IInv, RequestInv, Init, Snapped, Unanswered

\* A table changes, and nothing else of the request and the forms.
LEMMA TablesChange ==
  ASSUME IInv, tables' \in Tables, WellFormed(tables'), changes' \in 0..MaxChanges,
         moments' = (IF phase = "idle" THEN moments ELSE moments \cup {tables'}),
         form' \in [Collector -> Form], late' \in Updates, relisted' \subseteq Collector,
         promised \cap relisted \subseteq relisted',
         \A c \in told : form'[c].phase = form[c].phase,
         \A c \in told \ relisted' : ~tables'.visible[c],
         \A c \in Collector \ relisted' :
           form'[c].phase = "saved" /\ form'[c].shown => ~tables'.visible[c],
         UNCHANGED <<told, phase, query, snapshot, summary, answer, promised>>
  PROVE  IInv'
  <1>1. TypeInv'
    BY DEF IInv, TypeInv, TypeOK, Updates
  <1>2. HiddenInv'
    BY DEF IInv, HiddenInv, Snapped
  <1>3. moments \subseteq moments' /\ (phase # "idle" => tables' \in moments')
    OBVIOUS
  <1>4. RequestInv'
    BY <1>3 DEF IInv, RequestInv, Snapped, Unanswered, Here, Ordered, Found, Full, IsPage, Page, LastPage
  <1> QED
    BY <1>1, <1>2, <1>4 DEF IInv

\* Tables that make nobody visible keep the invariant.
LEMMA WriterKeeps ==
  ASSUME IInv, NEW d \in Tables, WellFormed(d), \A c \in Collector : d.visible[c] => tables.visible[c],
         Write(d), UNCHANGED <<form, told, late, relisted, phase, query, snapshot, summary, answer, promised>>
  PROVE  IInv'
  <1>1. tables' = d /\ changes' = changes + 1 /\ changes < MaxChanges
    BY DEF Write
  <1>2. moments' = (IF phase = "idle" THEN moments ELSE moments \cup {tables'})
    BY DEF Write
  <1>3. /\ changes' \in 0..MaxChanges /\ told \subseteq Collector /\ form' \in [Collector -> Form]
        /\ late' \in Updates /\ relisted' \subseteq Collector
    BY <1>1, TradesAssumption DEF IInv, TypeInv, TypeOK, Updates
  <1>4. \A c \in told \ relisted' : ~tables'.visible[c]
    BY <1>1, <1>3 DEF IInv, HiddenInv
  <1>5. \A c \in Collector \ relisted' : form'[c].phase = "saved" /\ form'[c].shown => ~tables'.visible[c]
    BY <1>1 DEF IInv, HiddenInv
  <1> QED
    BY <1>1, <1>2, <1>3, <1>4, <1>5, TablesChange

\* A holding of the collection's own revision changes.
LEMMA SetQuantityKeeps ==
  ASSUME IInv, NEW c \in Collector, SetQuantity(c)
  PROVE  IInv'
  <1>1. PICK s \in StickersOf[tables.revision[c]], n \in 0..MaximumQuantity :
          Write([tables EXCEPT !.quantity[c][s] = n])
    BY DEF SetQuantity
  <1> DEFINE d == [tables EXCEPT !.quantity[c][s] = n]
  <1>2. tables \in Tables /\ WellFormed(tables) /\ HasCollection(tables, c)
    BY DEF IInv, TypeInv, TypeOK, SetQuantity
  <1>3. s \in Sticker
    BY <1>2, TablesAre DEF HasCollection
  <1>4. d \in Tables /\ d.revision = tables.revision /\ d.visible = tables.visible
    BY <1>2, <1>3 DEF Tables
  <1>5. WellFormed(d)
    <2>1. \A x \in Collector, t \in Sticker :
            d.quantity[x][t] = IF x = c /\ t = s THEN n ELSE tables.quantity[x][t]
      BY <1>2, <1>3 DEF Tables
    <2> QED
      BY <1>2, <1>4, <2>1 DEF WellFormed, HasCollection
  <1> HIDE DEF d
  <1>6. Write(d) /\ UNCHANGED <<form, told, late, relisted, phase, query, snapshot, summary, answer, promised>>
    BY <1>1 DEF SetQuantity, Quiet, forms, d
  <1> QED
    BY <1>4, <1>5, <1>6, WriterKeeps

\* The collection goes, and its holdings.
LEMMA EmptiedTables ==
  ASSUME NEW d, d \in Tables, WellFormed(d), NEW c \in Collector,
         NEW e, e \in Tables,
         \A x \in Collector \ {c} : e.revision[x] = d.revision[x] /\ e.quantity[x] = d.quantity[x],
         e.quantity[c] = [s \in Sticker |-> 0]
  PROVE  WellFormed(e)
  BY DEF WellFormed, HasCollection, Tables

\* A collection is removed with its holdings.
LEMMA RemoveCollectionKeeps ==
  ASSUME IInv, NEW c \in Collector, RemoveCollection(c)
  PROVE  IInv'
  <1> DEFINE d == [tables EXCEPT !.revision[c] = NoCollection, !.quantity[c] = [s \in Sticker |-> 0]]
  <1>1. tables \in Tables /\ WellFormed(tables)
    BY DEF IInv, TypeInv, TypeOK
  <1>2. d \in Tables /\ d.visible = tables.visible /\ WellFormed(d)
    <2> DEFINE none == [s \in Sticker |-> 0]
    <2>1. none \in [Sticker -> 0..MaximumQuantity]
      BY TradeAssumption
    <2> HIDE DEF none
    <2>2. d = [tables EXCEPT !.revision[c] = NoCollection, !.quantity[c] = none]
      BY DEF none
    <2> HIDE DEF d
    <2>3. d \in Tables /\ d.visible = tables.visible
      BY <1>1, <2>1, <2>2 DEF Tables
    <2>4. /\ \A x \in Collector \ {c} : d.revision[x] = tables.revision[x] /\ d.quantity[x] = tables.quantity[x]
          /\ d.quantity[c] = none
      BY <1>1, <2>2 DEF Tables
    <2> QED
      BY <1>1, <2>3, <2>4, EmptiedTables DEF none
  <1>3. Write(d) /\ UNCHANGED <<form, told, late, relisted, phase, query, snapshot, summary, answer, promised>>
    BY DEF RemoveCollection, Quiet, forms
  <1> HIDE DEF d
  <1> QED
    BY <1>2, <1>3, WriterKeeps

\* A collection without holdings is created.
LEMMA CreateCollectionKeeps ==
  ASSUME IInv, NEW c \in Collector, CreateCollection(c)
  PROVE  IInv'
  <1>1. PICK r \in Revision : Write([tables EXCEPT !.revision[c] = r])
    BY DEF CreateCollection
  <1> DEFINE d == [tables EXCEPT !.revision[c] = r]
  <1>2. tables \in Tables /\ WellFormed(tables) /\ ~HasCollection(tables, c)
    BY DEF IInv, TypeInv, TypeOK, CreateCollection
  <1>3. /\ d \in Tables /\ d.visible = tables.visible /\ d.quantity = tables.quantity
        /\ \A x \in Collector \ {c} : d.revision[x] = tables.revision[x]
    BY <1>2 DEF Tables
  <1>4. Write(d) /\ UNCHANGED <<form, told, late, relisted, phase, query, snapshot, summary, answer, promised>>
    BY <1>1 DEF CreateCollection, Quiet, forms
  <1> HIDE DEF d
  <1>5. WellFormed(d)
    BY <1>2, <1>3 DEF WellFormed, HasCollection
  <1> QED
    BY <1>3, <1>4, <1>5, WriterKeeps

\* An account is suspended or reactivated.
LEMMA SetStatusKeeps ==
  ASSUME IInv, NEW c \in Collector, SetStatus(c)
  PROVE  IInv'
  <1> DEFINE d == [tables EXCEPT !.active[c] = ~tables.active[c]]
  <1>1. tables \in Tables /\ WellFormed(tables)
    BY DEF IInv, TypeInv, TypeOK
  <1>2. /\ d \in Tables /\ d.visible = tables.visible
        /\ d.quantity = tables.quantity /\ d.revision = tables.revision
    BY <1>1 DEF Tables
  <1>3. Write(d) /\ UNCHANGED <<form, told, late, relisted, phase, query, snapshot, summary, answer, promised>>
    BY DEF SetStatus, Quiet, forms
  <1> HIDE DEF d
  <1>4. WellFormed(d)
    BY <1>1, <1>2 DEF WellFormed, HasCollection
  <1> QED
    BY <1>2, <1>3, <1>4, WriterKeeps
-----------------------------------------------------------------------------
\* Only the forms change, and what the bound counts.
LEMMA OnlyForms ==
  ASSUME IInv, form' \in [Collector -> Form],
         changes' \in 0..MaxChanges, told' \subseteq Collector, promised' \subseteq told',
         promised' \subseteq promised,
         late' \in Updates, relisted' \subseteq Collector, promised' \cap relisted \subseteq relisted',
         \A c \in told' : form'[c].phase \in {"loading", "idle"},
         \A c \in told' \ relisted' : ~tables.visible[c],
         \A c \in Collector \ relisted' :
           form'[c].phase = "saved" /\ form'[c].shown => ~tables.visible[c],
         UNCHANGED <<tables, phase, query, snapshot, summary, answer, moments>>
  PROVE  IInv'
  <1>1. TypeInv'
    BY DEF IInv, TypeInv, TypeOK, Updates
  <1>2. HiddenInv'
    BY DEF IInv, HiddenInv, Snapped
  <1>3. RequestInv'
    BY DEF IInv, RequestInv, Snapped, Unanswered, Here, Ordered, Found, Full, IsPage, Page, LastPage
  <1> QED
    BY <1>1, <1>2, <1>3 DEF IInv

\* The forms change, and nothing the request has read.
LEMMA FormsChange ==
  ASSUME IInv, form' \in [Collector -> Form],
         told' \subseteq Collector, promised' \subseteq told',
         promised' \subseteq promised,
         late' \in Updates, relisted' \subseteq Collector, promised' \cap relisted \subseteq relisted',
         \A c \in told' : form'[c].phase \in {"loading", "idle"},
         \A c \in told' \ relisted' : ~tables.visible[c],
         \A c \in Collector \ relisted' :
           form'[c].phase = "saved" /\ form'[c].shown => ~tables.visible[c],
         UNCHANGED <<tables, changes, phase, query, snapshot, summary, answer, moments>>
  PROVE  IInv'
  <1>1. changes' \in 0..MaxChanges
    BY DEF IInv, TypeInv, TypeOK
  <1> QED
    BY <1>1, OnlyForms

\* What a step of a form begins with.
LEMMA FormsAre ==
  ASSUME IInv
  PROVE  /\ form \in [Collector -> Form] /\ told \subseteq Collector /\ promised \subseteq told
         /\ late \in Updates /\ relisted \subseteq Collector /\ tables \in Tables /\ WellFormed(tables)
  BY DEF IInv, TypeInv, TypeOK, Updates

\* A form goes to another phase, without an answer, or is loaded again.
LEMMA PhaseKeeps ==
  ASSUME IInv, NEW c \in Collector, NEW f \in Form, form' = [form EXCEPT ![c] = f],
         f.phase = "sending" => c \notin told', f.phase # "saved",
         told' \subseteq told, promised' \subseteq told', promised' \subseteq promised,
         late' \in Updates,
         UNCHANGED <<relisted, tables, changes, phase, query, snapshot, summary, answer, moments>>
  PROVE  IInv'
  <1>1. /\ form' \in [Collector -> Form] /\ form'[c] = f
        /\ \A x \in Collector \ {c} : form'[x] = form[x]
    BY FormsAre
  <1>2. told' \subseteq Collector /\ relisted' \subseteq Collector
    BY FormsAre
  <1>3. \A x \in told' : form'[x].phase \in {"loading", "idle"}
    BY <1>1, <1>2 DEF Form, IInv, HiddenInv
  <1>4. \A x \in told' \ relisted' : ~tables.visible[x]
    BY DEF IInv, HiddenInv
  <1>5. \A x \in Collector \ relisted' : form'[x].phase = "saved" /\ form'[x].shown => ~tables.visible[x]
    BY <1>1 DEF IInv, HiddenInv
  <1> QED
    BY <1>1, <1>2, <1>3, <1>4, <1>5, FormsChange

\* Whoever sends a form was not told anything since.
LEMMA UpdateKeeps ==
  ASSUME IInv, NEW c \in Collector, Update(c)
  PROVE  IInv'
  <1> DEFINE f == [form[c] EXCEPT !.phase = "sending"]
  <1>1. f \in Form /\ f.phase = "sending"
    BY FormsAre DEF Form
  <1>2. /\ form' = [form EXCEPT ![c] = f] /\ told' = told \ {c} /\ promised' = promised \ {c}
        /\ UNCHANGED <<late, relisted, tables, changes, phase, query, snapshot, summary, answer, moments>>
    BY DEF Update
  <1> HIDE DEF f
  <1> QED
    BY <1>1, <1>2, FormsAre, PhaseKeeps

\* The form is shown with what the account page read; or it tells nothing; or it
\* gives up on an update.
LEMMA FormKeeps ==
  ASSUME IInv, NEW c \in Collector, LoadForm(c) \/ ShowForm(c) \/ NotSaved(c) \/ Abandon(c)
  PROVE  IInv'
  <1>1. PICK f \in Form : f.phase \in {"loading", "idle"} /\ form' = [form EXCEPT ![c] = f]
    <2>1. CASE LoadForm(c)
      <3>1. [shown |-> tables.visible[c], phase |-> "loading"] \in Form
        BY FormsAre DEF Form, Tables
      <3> QED
        BY <2>1, <3>1 DEF LoadForm
    <2>2. CASE ShowForm(c) \/ NotSaved(c) \/ Abandon(c)
      <3> DEFINE f == [form[c] EXCEPT !.phase = "idle"]
      <3>1. f \in Form /\ f.phase = "idle"
        BY FormsAre DEF Form
      <3>2. form' = [form EXCEPT ![c] = f]
        BY <2>2 DEF ShowForm, NotSaved, Abandon
      <3> HIDE DEF f
      <3> QED
        BY <3>1, <3>2
    <2> QED
      BY <2>1, <2>2
  <1>2. UNCHANGED <<tables, changes, told, relisted, request>>
    BY DEF LoadForm, ShowForm, NotSaved, Abandon
  <1>3. late' \in Updates
    <2>1. CASE Abandon(c)
      <3> DEFINE v == ~form[c].shown
      <3>1. v \in BOOLEAN /\ late[c][v] < MaxLate /\ late' = [late EXCEPT ![c][v] = @ + 1]
        BY <2>1 DEF Abandon
      <3> HIDE DEF v
      <3>2. late[c][v] \in 0..MaxLate /\ late[c][v] + 1 \in 0..MaxLate
        BY <3>1, FormsAre, TradesAssumption DEF Updates
      <3> QED
        BY <3>1, <3>2, FormsAre DEF Updates
    <2>2. CASE late' = late
      BY <2>2, FormsAre
    <2> QED
      BY <2>1, <2>2 DEF LoadForm, ShowForm, NotSaved
  <1> QED
    BY <1>1, <1>2, <1>3, FormsAre, PhaseKeeps DEF request

\* The preference of a collector is written; whoever it makes visible was told
\* nothing since, or is relisted.
LEMMA VisibilityKeeps ==
  ASSUME IInv, NEW c \in Collector, NEW v \in BOOLEAN, SetVisibility(c, v),
         form' \in [Collector -> Form], late' \in Updates, relisted' \subseteq Collector,
         UNCHANGED told, \A x \in told : form'[x].phase = form[x].phase,
         promised \cap relisted \subseteq relisted',
         \A x \in told \ relisted' : ~tables.visible[x] /\ (x = c => ~v),
         \A x \in Collector \ relisted' :
           form'[x].phase = "saved" /\ form'[x].shown => IF x = c THEN ~v ELSE ~tables.visible[x]
  PROVE  IInv'
  <1> DEFINE d == [tables EXCEPT !.visible[c] = v]
  <1>1. IF d = tables THEN UNCHANGED <<tables, changes, moments>> ELSE Write(d)
    BY DEF SetVisibility, Visibility
  <1>2. UNCHANGED <<phase, query, snapshot, summary, answer, promised>>
    BY DEF SetVisibility, Quiet
  <1>3. /\ d \in Tables /\ d.quantity = tables.quantity /\ d.revision = tables.revision
        /\ d.visible[c] = v /\ \A x \in Collector \ {c} : d.visible[x] = tables.visible[x]
    BY FormsAre DEF Tables
  <1> HIDE DEF d
  <1>4. WellFormed(d)
    BY <1>3, FormsAre DEF WellFormed, HasCollection
  <1>5. /\ \A x \in told \ relisted' : ~d.visible[x]
        /\ \A x \in Collector \ relisted' :
             form'[x].phase = "saved" /\ form'[x].shown => ~d.visible[x]
    BY <1>3, FormsAre
  <1>6. \A x \in told : form'[x].phase \in {"loading", "idle"}
    BY DEF IInv, HiddenInv
  <1>7. CASE d = tables
    <2>1. UNCHANGED <<tables, changes, moments>>
      BY <1>1, <1>7
    <2> QED
      BY <1>2, <1>5, <1>6, <1>7, <2>1, FormsAre, FormsChange
  <1>8. CASE d # tables
    <2>1. /\ tables' = d /\ changes' \in 0..MaxChanges
          /\ moments' = (IF phase = "idle" THEN moments ELSE moments \cup {tables'})
      <3>1. changes \in 0..MaxChanges /\ MaxChanges \in Nat
        BY TradesAssumption DEF IInv, TypeInv, TypeOK
      <3> QED
        BY <1>1, <1>8, <3>1 DEF Write
    <2> QED
      BY <1>2, <1>3, <1>4, <1>5, <2>1, TablesChange
  <1> QED
    BY <1>7, <1>8

\* The preference is saved: whoever the form shows visible is hidden now.
LEMMA SavePreferenceKeeps ==
  ASSUME IInv, NEW c \in Collector, SavePreference(c)
  PROVE  IInv'
  <1> DEFINE v == ~form[c].shown
  <1>1. /\ form[c].phase = "sending" /\ form' = [form EXCEPT ![c].phase = "saved"]
        /\ SetVisibility(c, v) /\ relisted' = relisted \ {c} /\ UNCHANGED <<told, late>>
    BY DEF SavePreference
  <1>2. v \in BOOLEAN
    OBVIOUS
  <1>3. /\ form' \in [Collector -> Form] /\ (form'[c].shown => ~v)
        /\ \A x \in Collector \ {c} : form'[x] = form[x]
    BY <1>1, FormsAre DEF Form
  <1> HIDE DEF v
  <1>4. c \notin told
    BY <1>1 DEF IInv, HiddenInv
  <1>5. /\ \A x \in told : form'[x].phase = form[x].phase
        /\ \A x \in told \ relisted' : ~tables.visible[x] /\ (x = c => ~v)
    BY <1>1, <1>3, <1>4, FormsAre DEF IInv, HiddenInv
  <1>6. \A x \in Collector \ relisted' :
          form'[x].phase = "saved" /\ form'[x].shown => IF x = c THEN ~v ELSE ~tables.visible[x]
    BY <1>1, <1>3 DEF IInv, HiddenInv
  <1>7. promised \cap relisted \subseteq relisted' /\ relisted' \subseteq Collector
    BY <1>1, <1>4, FormsAre
  <1> QED
    BY <1>1, <1>2, <1>3, <1>5, <1>6, <1>7, FormsAre, VisibilityKeeps

\* A late update is executed, and relists whom it makes visible; or it is refused.
LEMMA SaveLateKeeps ==
  ASSUME IInv, NEW c \in Collector, SaveLate(c)
  PROVE  IInv'
  <1>1. PICK v \in BOOLEAN :
          /\ late[c][v] > 0
          /\ late' = [late EXCEPT ![c][v] = @ - 1]
          /\ \/ SetVisibility(c, v) /\ relisted' = IF v THEN relisted \cup {c} ELSE relisted
             \/ UNCHANGED <<tables, changes, moments, relisted>> /\ Quiet
          /\ UNCHANGED <<form, told>>
    BY DEF SaveLate
  <1>2. late' \in Updates
    <2>1. late[c][v] \in 0..MaxLate /\ late[c][v] - 1 \in 0..MaxLate
      BY <1>1, FormsAre, TradesAssumption DEF Updates
    <2> QED
      BY <1>1, <2>1, FormsAre DEF Updates
  <1>3. CASE SetVisibility(c, v) /\ relisted' = IF v THEN relisted \cup {c} ELSE relisted
    <2>1. /\ relisted' \subseteq Collector /\ relisted \subseteq relisted'
          /\ v => c \in relisted'
      BY <1>3, FormsAre
    <2>2. /\ \A x \in told \ relisted' : ~tables.visible[x] /\ (x = c => ~v)
          /\ \A x \in Collector \ relisted' :
               form'[x].phase = "saved" /\ form'[x].shown => IF x = c THEN ~v ELSE ~tables.visible[x]
      BY <1>1, <2>1 DEF IInv, HiddenInv
    <2> QED
      BY <1>1, <1>2, <1>3, <2>1, <2>2, FormsAre, VisibilityKeeps
  <1>4. CASE UNCHANGED <<tables, changes, moments, relisted>> /\ Quiet
    <2>1. UNCHANGED <<form, told, phase, query, snapshot, summary, answer, promised>>
      BY <1>1, <1>4 DEF Quiet
    <2> QED
      BY <1>2, <1>4, <2>1, FormsAre, FormsChange DEF IInv, HiddenInv
  <1> QED
    BY <1>1, <1>3, <1>4

\* The form tells its collector, who is hidden until the next update.
LEMMA SavedKeeps ==
  ASSUME IInv, NEW c \in Collector, Saved(c)
  PROVE  IInv'
  <1>1. form \in [Collector -> Form] /\ told \subseteq Collector /\ promised \subseteq told
    BY FormsAre
  <1>2. /\ form[c].phase = "saved"
        /\ form' = [form EXCEPT ![c] = [shown |-> ~form[c].shown, phase |-> "idle"]]
        /\ told' = IF form[c].shown THEN told \cup {c} ELSE told
        /\ UNCHANGED <<tables, changes, late, relisted, request>>
    BY DEF Saved
  <1>3. /\ form' \in [Collector -> Form] /\ form'[c].phase = "idle"
        /\ \A x \in Collector \ {c} : form'[x] = form[x]
    BY <1>1, <1>2 DEF Form
  <1>4. UNCHANGED <<late, relisted, tables, changes, phase, query, snapshot, summary, answer, moments, promised>>
    BY <1>2 DEF request
  <1>5. form[c].shown /\ c \notin relisted => ~tables.visible[c]
    BY <1>2 DEF IInv, HiddenInv
  <1>6. /\ \A x \in told' : form'[x].phase \in {"loading", "idle"}
        /\ \A x \in told' \ relisted' : ~tables.visible[x]
    BY <1>1, <1>2, <1>3, <1>5 DEF IInv, HiddenInv
  <1>7. \A x \in Collector \ relisted' : form'[x].phase = "saved" /\ form'[x].shown => ~tables.visible[x]
    BY <1>3, <1>4 DEF IInv, HiddenInv
  <1>8. told' \subseteq Collector /\ promised' \subseteq told' /\ promised' \subseteq promised
    BY <1>1, <1>2, <1>4
  <1> QED
    BY <1>3, <1>4, <1>6, <1>7, <1>8, FormsAre, FormsChange
-----------------------------------------------------------------------------
\* A request begins: who has been told to be hidden is hidden now.
LEMMA BeginKeeps ==
  ASSUME IInv, NEW q \in Query, Begin(q), UNCHANGED <<tables, changes, forms>>
  PROVE  IInv'
  <1>1. /\ phase' = "opened" /\ query' = q /\ moments' = {tables} /\ promised' = told
        /\ snapshot' = NoSnapshot /\ summary' = Empty /\ answer' = Empty
    BY DEF Begin
  <1>2. TypeInv'
    BY <1>1, Start0 DEF IInv, TypeInv, TypeOK, forms
  <1>3. HiddenInv'
    BY <1>1 DEF IInv, HiddenInv, Snapped, forms
  <1>4. RequestInv'
    BY <1>1 DEF RequestInv, Snapped, Unanswered
  <1> QED
    BY <1>2, <1>3, <1>4 DEF IInv

\* A page is opened.
LEMMA OpenKeeps == ASSUME IInv, Open PROVE IInv'
  <1>1. PICK q \in Queries : Begin(q)
    BY DEF Open
  <1>2. q \in Query
    BY TradesAssumption
  <1> QED
    BY <1>1, <1>2, BeginKeeps DEF Open

\* The viewer is resolved: nothing was read yet.
LEMMA ResolveViewerKeeps == ASSUME IInv, ResolveViewer PROVE IInv'
  <1>1. /\ phase = "opened" /\ phase' \in {"resolved", "login"}
        /\ UNCHANGED <<tables, changes, forms, query, snapshot, summary, answer, moments, promised>>
    BY DEF ResolveViewer
  <1>2. TypeInv'
    BY <1>1 DEF IInv, TypeInv, TypeOK, forms
  <1>3. HiddenInv'
    BY <1>1 DEF IInv, HiddenInv, Snapped, forms
  <1>4. RequestInv'
    BY <1>1 DEF IInv, RequestInv, Snapped, Unanswered
  <1> QED
    BY <1>2, <1>3, <1>4 DEF IInv

\* The snapshot is taken: it is one of the moments, and hides who was promised.
LEMMA ReadOwnerKeeps == ASSUME IInv, ReadOwner PROVE IInv'
  <1> DEFINE v == query.viewer
  <1>1. /\ phase = "resolved" /\ snapshot' = tables
        /\ phase' = IF ~HasCollection(tables, v) THEN "notFound"
                    ELSE IF tables.visible[v] THEN "visible" ELSE "answered"
        /\ UNCHANGED <<tables, changes, forms, query, summary, answer, moments, promised>>
    BY DEF ReadOwner
  <1>2. TypeInv'
    BY <1>1 DEF IInv, TypeInv, TypeOK, forms
  <1>3. HiddenInv'
    BY <1>1 DEF IInv, HiddenInv, TypeInv, forms
  <1>4. tables \in moments /\ answer = Empty
    BY <1>1 DEF IInv, RequestInv, Unanswered
  <1>5. phase' = "visible" => Here'
    BY <1>1 DEF Here
  <1>6. phase' = "answered" => ~snapshot'.visible[query'.viewer] /\ answer' = Empty
    BY <1>1, <1>4
  <1>7. phase' \in {"notFound", "visible", "answered"}
    BY <1>1
  <1>8. snapshot' \in moments' /\ answer' = Empty
    BY <1>1, <1>4
  <1>9. RequestInv'
    BY <1>5, <1>6, <1>7, <1>8 DEF RequestInv, Snapped, Unanswered
  <1> QED
    BY <1>2, <1>3, <1>9 DEF IInv

\* The summary is the snapshot's, whatever the tables are by now ...
LEMMA ReadSummaryKeeps == ASSUME IInv, ReadSummary PROVE IInv'
  <1>1. phase = "visible" /\ UNCHANGED <<tables, changes, forms, query, snapshot, moments, promised>>
    BY DEF ReadSummary
  <1>2. Here /\ answer = Empty /\ snapshot \in moments
    BY <1>1 DEF IInv, RequestInv, Unanswered, Snapped
  <1>3. Matches(View) = Summary(snapshot, query)
    BY <1>2 DEF Matches, View, Here
  <1>4. PICK o \in Ordered :
           /\ summary' = Found(o)
           /\ IF Found(o).rows = << >>
              THEN phase' = "answered" /\ answer' = Found(o)
              ELSE phase' = "summarised" /\ answer' = answer
    BY <1>3 DEF ReadSummary, Found, Ordered
  <1>5. Found(o).rows = << >> => Found(o) = Full(o)
    <2>1. SUFFICES ASSUME PageOf(query, o) = << >> PROVE Rowed(snapshot, query, o) = << >>
      BY DEF Found, Full
    <2>2. DOMAIN PageOf(query, o) = {}
      BY <2>1
    <2> QED
      BY <2>2 DEF Rowed
  <1>6. /\ Here' /\ Ordered' = Ordered /\ Found(o)' = Found(o) /\ Full(o)' = Full(o)
    BY <1>1, <1>2 DEF Here, Ordered, Found, Full
  <1>7. DOMAIN Found(o) = DOMAIN Empty
    BY DEF Found, Empty
  <1>8. TypeInv'
    BY <1>1, <1>2, <1>4, <1>7 DEF IInv, TypeInv, TypeOK, forms
  <1>9. HiddenInv'
    BY <1>1 DEF IInv, HiddenInv, Snapped, forms
  <1>10. RequestInv'
    <2>1. phase' \in {"answered", "summarised"} /\ snapshot' \in moments'
      BY <1>1, <1>2, <1>4
    <2>2. phase' = "summarised" => answer' = Empty /\ \E x \in Ordered' : summary' = Found(x)'
      BY <1>2, <1>4, <1>6
    <2>3. phase' = "answered" => \E x \in Ordered' : answer' = Full(x)'
      BY <1>4, <1>5, <1>6
    <2> QED
      BY <1>6, <2>1, <2>2, <2>3 DEF RequestInv, Snapped, Unanswered
  <1> QED
    BY <1>8, <1>9, <1>10 DEF IInv

\* ... and so are the details.
LEMMA ReadDetailsKeeps == ASSUME IInv, ReadDetails PROVE IInv'
  <1>1. /\ phase = "summarised" /\ phase' = "answered"
        /\ UNCHANGED <<tables, changes, forms, query, snapshot, summary, moments, promised>>
    BY DEF ReadDetails, Answered
  <1>2. Here /\ snapshot \in moments
    BY <1>1 DEF IInv, RequestInv, Snapped
  <1>3. PICK o \in Ordered : summary = Found(o)
    BY <1>1 DEF IInv, RequestInv
  <1>4. answer' = Full(o)
    BY <1>3 DEF ReadDetails, Answered, Found, Full, View, Rowed
  <1>5. /\ Here' /\ Ordered' = Ordered /\ Full(o)' = Full(o)
    BY <1>1, <1>2 DEF Here, Ordered, Full
  <1>6. DOMAIN Full(o) = DOMAIN Empty
    BY DEF Full, Empty
  <1>7. TypeInv'
    BY <1>1, <1>4, <1>6 DEF IInv, TypeInv, TypeOK, forms
  <1>8. HiddenInv'
    BY <1>1 DEF IInv, HiddenInv, Snapped, forms
  <1>9. RequestInv'
    <2>1. snapshot' \in moments' /\ \E x \in Ordered' : answer' = Full(x)'
      BY <1>1, <1>2, <1>4, <1>5
    <2> QED
      BY <1>1, <1>5, <2>1 DEF RequestInv, Snapped, Unanswered
  <1> QED
    BY <1>7, <1>8, <1>9 DEF IInv

\* What is counted is a number.
LEMMA AnswerTotal == IInv /\ phase \in {"answered", "shown"} => answer.total \in Nat
  <1> SUFFICES ASSUME IInv, phase \in {"answered", "shown"}
               PROVE  answer.total \in Nat
    OBVIOUS
  <1>1. CASE answer = Empty
    BY <1>1 DEF Empty
  <1>2. CASE Here /\ \E o \in Ordered : answer = Full(o)
    <2>1. Readable(snapshot, query)
      BY <1>2 DEF IInv, TypeInv, TypeOK, Here, Readable
    <2>2. Cardinality(Summary(snapshot, query)) \in Nat
      BY <2>1, SummaryRows, FS_CardinalityType DEF Rows
    <2> QED
      BY <1>2, <2>2 DEF Full
  <1> QED
    BY <1>1, <1>2 DEF IInv, RequestInv

\* A page is shown, or the last page is asked for.
LEMMA RenderKeeps == ASSUME IInv, Render PROVE IInv'
  <1>1. /\ phase = "answered" /\ IsPage(query) /\ UNCHANGED <<tables, changes, forms>>
        /\ query \in Query
    BY DEF Render, IInv, TypeInv, TypeOK
  <1>2. answer.total \in Nat
    BY <1>1, AnswerTotal
  <1>3. CASE answer.total > 0 /\ Page(query) > LastPage(answer.total)
    <2>1. Clamped(query, answer.total) \in Query
      BY <1>1, <1>2, TotalPagesIs, ToPageType DEF Clamped, LastPage
    <2> QED
      BY <1>1, <1>3, <2>1, BeginKeeps DEF Render
  <1>4. CASE ~(answer.total > 0 /\ Page(query) > LastPage(answer.total))
    <2>1. phase' = "shown" /\ UNCHANGED <<query, snapshot, summary, answer, moments, promised>>
      BY <1>4 DEF Render
    <2>2. TypeInv'
      BY <1>1, <2>1 DEF IInv, TypeInv, TypeOK, forms
    <2>3. HiddenInv'
      BY <1>1, <2>1 DEF IInv, HiddenInv, Snapped, forms
    <2>4. RequestInv'
      BY <1>1, <1>4, <2>1 DEF IInv, RequestInv, Snapped, Unanswered, Here, Ordered, Full, IsPage, Page, LastPage
    <2> QED
      BY <2>2, <2>3, <2>4 DEF IInv
  <1> QED
    BY <1>3, <1>4

\* Another filter begins another request.
LEMMA ChangeFilterKeeps == ASSUME IInv, ChangeFilter PROVE IInv'
  <1>1. PICK q \in Queries : Begin(ToPage(q, 1))
    BY DEF ChangeFilter
  <1>2. ToPage(q, 1) \in Query
    BY TradesAssumption, ToPageType
  <1> QED
    BY <1>1, <1>2, BeginKeeps DEF ChangeFilter

\* So does another page.
LEMMA TurnPageKeeps == ASSUME IInv, TurnPage PROVE IInv'
  <1>1. query \in Query
    BY DEF IInv, TypeInv, TypeOK, forms
  <1>2. Page(query) \in Nat /\ Page(query) >= 1
    BY <1>1, PageType
  <1>3. PICK p \in Nat : p >= 1 /\ Begin(ToPage(query, p))
    BY <1>2 DEF TurnPage
  <1>4. ToPage(query, p) \in Query
    BY <1>1, <1>3, ToPageType
  <1> QED
    BY <1>3, <1>4, BeginKeeps DEF TurnPage

\* The page is left.
LEMMA LeaveKeeps == ASSUME IInv, Leave PROVE IInv'
  <1>1. /\ phase' = "idle" /\ query' = NoQuery /\ promised' = {} /\ moments' = {}
        /\ snapshot' = NoSnapshot /\ summary' = Empty /\ answer' = Empty
        /\ UNCHANGED <<tables, changes, forms>>
    BY DEF Leave
  <1>2. TypeInv'
    BY <1>1, Start0 DEF IInv, TypeInv, TypeOK, forms
  <1>3. HiddenInv'
    BY <1>1 DEF IInv, HiddenInv, Snapped, forms
  <1>4. RequestInv'
    BY <1>1 DEF RequestInv, Snapped, Unanswered
  <1> QED
    BY <1>2, <1>3, <1>4 DEF IInv

\* Nothing happens.
LEMMA StutterKeeps == ASSUME IInv, UNCHANGED vars PROVE IInv'
  <1>1. UNCHANGED <<tables, changes, forms, phase, query, snapshot, summary, answer, moments, promised>>
    BY DEF vars, request
  <1> QED
    BY <1>1, FormsAre, FormsChange DEF IInv, HiddenInv, forms

\* Every step of Trades keeps its invariant.
LEMMA TradesStep == ASSUME IInv, [Next]_vars PROVE IInv'
  <1>1. ASSUME NEW c \in Collector,
               SetQuantity(c) \/ RemoveCollection(c) \/ CreateCollection(c) \/ SetStatus(c)
        PROVE  IInv'
    BY <1>1, SetQuantityKeeps, RemoveCollectionKeeps, CreateCollectionKeeps, SetStatusKeeps
  <1>2. ASSUME NEW c \in FormOwner, \/ LoadForm(c) \/ ShowForm(c) \/ Update(c) \/ SavePreference(c)
                                   \/ Saved(c) \/ NotSaved(c) \/ Abandon(c) \/ SaveLate(c)
        PROVE  IInv'
    <2>1. c \in Collector
      BY TradesAssumption
    <2> QED
      BY <1>2, <2>1, FormKeeps, UpdateKeeps, SavePreferenceKeeps, SavedKeeps, SaveLateKeeps
  <1>3. ASSUME Serve PROVE IInv'
    BY <1>3, ResolveViewerKeeps, ReadOwnerKeeps, ReadSummaryKeeps, ReadDetailsKeeps, RenderKeeps DEF Serve
  <1> QED
    BY <1>1, <1>2, <1>3, OpenKeeps, ChangeFilterKeeps, TurnPageKeeps, LeaveKeeps, StutterKeeps DEF Next
-----------------------------------------------------------------------------
AccessInv ==
  /\ accounts \subseteq Collector
  /\ access \in [Collector -> [link : Granted, grant : Granted]]

\* The parts an account export has read when it is in a phase.
FirstParts == {"account", "profile"}
AllParts   == FirstParts \cup {"collections", "links", "preferences", "grants"}
PartsRead(f) ==
  CASE f.phase = "profile"     -> {"account"}
    [] f.phase = "collections" -> FirstParts
    [] f.phase = "links"       -> FirstParts \cup {"collections"}
    [] f.phase = "preferences" -> FirstParts \cup {"collections", "links"}
    [] f.phase = "grants"      -> FirstParts \cup {"collections", "links", "preferences"}
    [] f.phase = "read"        -> IF f.profile = Null THEN FirstParts ELSE AllParts
    [] OTHER                   -> {}

\* What each part is in the database e.
PartOf(e, c, part) ==
  CASE part = "account"     -> AccountRecord(e, c)
    [] part = "profile"     -> Profile(e, c)
    [] part = "collections" -> Collections(e, c)
    [] part = "links"       -> ShareLinks(e, c)
    [] part = "preferences" -> Preferences(e, c)
    [] part = "grants"      -> Grants(e, c)

AccountPhases == {"profile", "collections", "links", "preferences", "grants", "read"}
FilePhases    == {"asked", "account", "meta", "rows"} \cup AccountPhases \cup Ended

FileInv ==
  file # NoFile =>
    /\ DB \in since
    /\ file.owner \in Exporter /\ file.phase \in FilePhases
    /\ file.phase = "asked" => file.kind \in {"account"} \cup Kinds
    /\ file.phase \in {"meta", "rows"} => file.kind \in Kinds
    /\ file.phase \in {"asked", "meta"} => {"owner", "kind", "phase"} \subseteq DOMAIN file
    /\ file.phase \in AccountPhases =>
         /\ {"owner", "phase", "snapshot"} \cup PartsRead(file) \subseteq DOMAIN file
         /\ file.snapshot \in since
         /\ \A part \in PartsRead(file) : file[part] = PartOf(file.snapshot, file.owner, part)
    /\ file.phase \in AccountPhases \ {"profile", "read"} => file.profile # Null
    /\ FileOfOneMoment

EInv == IInv /\ AccessInv /\ FileInv
-----------------------------------------------------------------------------
\* A link or a grant changes.
LEMMA ChangeAccessKeeps ==
  ASSUME IInv, AccessInv, NEW c \in Collector, NEW kind \in {"link", "grant"}, ChangeAccess(c, kind)
  PROVE  IInv' /\ AccessInv'
  <1>1. /\ changes < MaxChanges /\ changes' = changes + 1
        /\ UNCHANGED <<tables, form, told, late, relisted, request, accounts, file>>
    BY DEF ChangeAccess, forms
  <1>2. UNCHANGED <<tables, phase, query, snapshot, summary, answer, moments, promised>>
    BY <1>1 DEF request
  <1>3. changes' \in 0..MaxChanges
    BY <1>1, TradesAssumption DEF IInv, TypeInv, TypeOK
  <1>4. /\ \A x \in told' : form'[x].phase \in {"loading", "idle"}
        /\ \A x \in told' \ relisted' : ~tables.visible[x]
        /\ \A x \in Collector \ relisted' : form'[x].phase = "saved" /\ form'[x].shown => ~tables.visible[x]
    BY <1>1 DEF IInv, HiddenInv
  <1>5. IInv'
    BY <1>1, <1>2, <1>3, <1>4, FormsAre, OnlyForms
  <1>6. access' \in [Collector -> [link : Granted, grant : Granted]]
    <2> DEFINE v == CASE access[c][kind] = "none"    -> "active"
                      [] access[c][kind] = "active"  -> "revoked"
                      [] access[c][kind] = "revoked" -> "active"
    <2>1. access[c] \in [link : Granted, grant : Granted]
      BY DEF AccessInv
    <2>2. access[c][kind] \in Granted
      BY <2>1
    <2>3. v \in Granted
      BY <2>2 DEF Granted
    <2>4. access' = [access EXCEPT ![c][kind] = v]
      BY DEF ChangeAccess
    <2> HIDE DEF v
    <2> QED
      BY <2>1, <2>3, <2>4 DEF AccessInv
  <1> QED
    BY <1>1, <1>5, <1>6 DEF AccessInv

\* An account is deleted with all it has.
LEMMA DeleteAccountKeeps ==
  ASSUME IInv, AccessInv, NEW c \in Collector, DeleteAccount(c)
  PROVE  IInv' /\ AccessInv'
  <1> DEFINE none == [s \in Sticker |-> 0]
             d == [tables EXCEPT !.active[c] = FALSE, !.visible[c] = FALSE,
                                 !.revision[c] = NoCollection, !.quantity[c] = none]
  <1>1. tables \in Tables /\ WellFormed(tables)
    BY DEF IInv, TypeInv, TypeOK
  <1>2. none \in [Sticker -> 0..MaximumQuantity]
    BY TradeAssumption
  <1>3. Write(d) /\ UNCHANGED <<form, told, late, relisted, phase, query, snapshot, summary, answer, promised>>
    BY DEF DeleteAccount, Quiet, forms
  <1>4. accounts' = accounts \ {c} /\ access' = [access EXCEPT ![c] = NoAccess]
    BY DEF DeleteAccount
  <1>5. /\ d \in Tables /\ d.quantity[c] = none
        /\ \A x \in Collector : d.visible[x] => tables.visible[x]
        /\ \A x \in Collector \ {c} : d.revision[x] = tables.revision[x] /\ d.quantity[x] = tables.quantity[x]
    <2> HIDE DEF none
    <2> QED
      BY <1>1, <1>2 DEF Tables
  <1> HIDE DEF d
  <1>6. WellFormed(d)
    BY <1>1, <1>5, EmptiedTables DEF none
  <1>7. IInv'
    BY <1>3, <1>5, <1>6, WriterKeeps
  <1>8. AccessInv'
    BY <1>4 DEF AccessInv, NoAccess, Granted
  <1> QED
    BY <1>7, <1>8

\* Links and grants go with their collection.
LEMMA FollowKeeps == ASSUME AccessInv, Follow PROVE AccessInv'
  BY DEF AccessInv, Follow, NoAccess, Granted

\* The download stays as it is while something else happens.
LEMMA FileKept ==
  ASSUME FileInv, file' = file, since' = IF file = NoFile THEN since ELSE since \cup {DB'}
  PROVE  FileInv'
  <1> SUFFICES ASSUME file' # NoFile PROVE FileInv'
    BY DEF FileInv
  <1>1. DB' \in since' /\ since \subseteq since'
    OBVIOUS
  <1>2. FileOfOneMoment'
    BY <1>1 DEF FileInv, FileOfOneMoment
  <1> QED
    BY <1>1, <1>2 DEF FileInv, PartsRead

\* Nothing of the download changes.
LEMMA FileStutters == ASSUME FileInv, UNCHANGED <<file, since, DB>> PROVE FileInv'
  BY DEF FileInv, FileOfOneMoment, PartsRead

\* The download reads and leaves the database as it is.
LEMMA StillIs == Still => UNCHANGED <<vars, accounts, access, since, DB>>
  BY DEF Still, DB, vars

\* A download that fails says nothing.
LEMMA FailKeeps ==
  ASSUME FileInv, file # NoFile, NEW reason \in Ended \ {"saved"}, Fail(reason), Still
  PROVE  FileInv'
  <1>1. file'.phase = reason /\ file'.owner = file.owner
    BY DEF Fail
  <1>2. DB' = DB /\ since' = since
    BY StillIs
  <1> QED
    BY <1>1, <1>2 DEF FileInv, FileOfOneMoment, Ended, FilePhases, AccountPhases

\* A download begins.
LEMMA DownloadKeeps ==
  ASSUME NEW c \in Exporter, NEW kind \in {"account"} \cup Kinds, Download(c, kind)
  PROVE  FileInv'
  <1>1. file' = [owner |-> c, kind |-> kind, phase |-> "asked"] /\ since' = {DB}
    BY DEF Download
  <1>2. DB' = DB
    BY DEF Download, DB, vars
  <1> QED
    BY <1>1, <1>2 DEF FileInv, FileOfOneMoment, FilePhases, AccountPhases

\* Its owner is identified or refused.
LEMMA IdentifyKeeps == ASSUME FileInv, Identify PROVE FileInv'
  <1>1. file # NoFile /\ file.phase = "asked" /\ Still
    BY DEF Identify
  <1>2. CASE tables.active[file.owner]
    <2> DEFINE p == IF file.kind = "account" THEN "account" ELSE "meta"
    <2>1. file' = [file EXCEPT !.phase = p]
      BY <1>2 DEF Identify
    <2>2. p \in {"account", "meta"} /\ (p = "meta" => file.kind \in Kinds)
      BY <1>1 DEF FileInv
    <2>3. "owner" \in DOMAIN file /\ "kind" \in DOMAIN file /\ "phase" \in DOMAIN file
      BY <1>1 DEF FileInv
    <2> HIDE DEF p
    <2>4. file'.owner = file.owner /\ file'.kind = file.kind /\ file'.phase = p /\ DOMAIN file' = DOMAIN file
      BY <2>1, <2>3
    <2>5. DB' = DB /\ since' = since
      BY <1>1, StillIs
    <2> QED
      BY <1>1, <2>2, <2>3, <2>4, <2>5 DEF FileInv, FileOfOneMoment, FilePhases, AccountPhases, Ended
  <1>3. CASE ~tables.active[file.owner]
    BY <1>1, <1>3, FailKeeps DEF Identify, Ended
  <1> QED
    BY <1>2, <1>3

\* The first statement of an account export takes the snapshot.
LEMMA ReadAccountKeeps == ASSUME FileInv, ReadAccount PROVE FileInv'
  <1>1. file # NoFile /\ file.phase = "account" /\ Still
    BY DEF ReadAccount
  <1> DEFINE record == AccountRecord(DB, file.owner)
  <1>2. CASE record = Null
    BY <1>1, <1>2, FailKeeps DEF ReadAccount, Ended
  <1>3. CASE record # Null
    <2>1. file' = [owner |-> file.owner, kind |-> "account", phase |-> "profile",
                   snapshot |-> DB, account |-> record]
      BY <1>3 DEF ReadAccount
    <2>2. DB' = DB /\ since' = since
      BY <1>1, StillIs
    <2> HIDE DEF record
    <2>3. /\ file'.owner = file.owner /\ file'.phase = "profile" /\ file'.snapshot = DB
          /\ file'["account"] = record /\ DOMAIN file' = {"owner", "kind", "phase", "snapshot", "account"}
      BY <2>1
    <2>4. PartsRead(file)' = {"account"}
      BY <2>3 DEF PartsRead
    <2>5. file'["account"] = PartOf(file'.snapshot, file'.owner, "account")
      BY <2>3 DEF PartOf, record
    <2> QED
      BY <1>1, <2>2, <2>3, <2>4, <2>5 DEF FileInv, FileOfOneMoment, FilePhases, AccountPhases, Ended
  <1> QED
    BY <1>2, <1>3

\* One more part has been read from the snapshot.
LEMMA StatementIs ==
  ASSUME FileInv, NEW from \in AccountPhases, NEW to, NEW part \in AllParts,
         NEW value, Statement(from, to, part, value)
  PROVE  /\ file # NoFile /\ file.phase = from /\ Still
         /\ DOMAIN file' = DOMAIN file \cup {part}
         /\ file'.owner = file.owner /\ file'.snapshot = file.snapshot /\ file'.phase = to
         /\ file'[part] = value
         /\ \A k \in AllParts \ {part} : k \in DOMAIN file => file'[k] = file[k]
  <1>1. /\ file # NoFile /\ file.phase = from /\ Still
        /\ file' = [k \in DOMAIN file \cup {part} |->
                      IF k = part THEN value ELSE IF k = "phase" THEN to ELSE file[k]]
    BY DEF Statement
  <1>2. {"owner", "phase", "snapshot"} \subseteq DOMAIN file
    BY <1>1 DEF FileInv
  <1>3. /\ part \notin {"owner", "phase", "snapshot"}
        /\ \A k \in AllParts : k # "phase"
    BY DEF AllParts, FirstParts
  <1> QED
    BY <1>1, <1>2, <1>3

\* The later statements run for an account with a profile.
LEMMA ProfileStays ==
  ASSUME FileInv, NEW from \in AccountPhases \ {"profile", "read"}, NEW to,
         NEW part \in AllParts \ FirstParts, NEW value, Statement(from, to, part, value)
  PROVE  file'.profile # Null
  <1>1. /\ file # NoFile /\ file.phase = from
        /\ \A k \in AllParts \ {part} : k \in DOMAIN file => file'[k] = file[k]
    BY StatementIs
  <1>2. "profile" \in PartsRead(file)
    BY <1>1 DEF PartsRead, FirstParts, AccountPhases
  <1>3. "profile" \in DOMAIN file /\ file.profile # Null
    BY <1>1, <1>2 DEF FileInv
  <1>4. "profile" \in AllParts \ {part}
    BY DEF AllParts, FirstParts
  <1> QED
    BY <1>1, <1>3, <1>4

\* What a statement adds is that part of the account in the snapshot.
LEMMA StatementKeeps ==
  ASSUME FileInv, NEW from \in AccountPhases, NEW to \in AccountPhases, NEW part \in AllParts,
         Statement(from, to, part, PartOf(file.snapshot, file.owner, part)),
         PartsRead(file)' \subseteq PartsRead(file) \cup {part},
         to \notin {"profile", "read"} => file'.profile # Null
  PROVE  FileInv'
  <1> DEFINE value == PartOf(file.snapshot, file.owner, part)
  <1>1. /\ file # NoFile /\ file.phase = from /\ Still
        /\ DOMAIN file' = DOMAIN file \cup {part}
        /\ file'.owner = file.owner /\ file'.snapshot = file.snapshot /\ file'.phase = to
        /\ file'[part] = value
        /\ \A k \in AllParts \ {part} : k \in DOMAIN file => file'[k] = file[k]
    BY StatementIs
  <1>2. DB' = DB /\ since' = since
    BY <1>1, StillIs
  <1>3. /\ {"owner", "phase", "snapshot"} \cup PartsRead(file) \subseteq DOMAIN file
        /\ file.snapshot \in since /\ DB \in since /\ file.owner \in Exporter
        /\ \A k \in PartsRead(file) : file[k] = PartOf(file.snapshot, file.owner, k)
    BY <1>1 DEF FileInv
  <1>4. PartsRead(file) \subseteq AllParts
    BY DEF PartsRead, AllParts, FirstParts
  <1> HIDE DEF value
  <1>5. \A k \in PartsRead(file)' : file'[k] = PartOf(file'.snapshot, file'.owner, k)
    BY <1>1, <1>3, <1>4 DEF value
  <1>6. {"owner", "phase", "snapshot"} \cup PartsRead(file)' \subseteq DOMAIN file'
    BY <1>1, <1>3
  <1>7. to \in FilePhases /\ to \notin {"asked", "meta", "rows", "saved"}
    BY DEF FilePhases, AccountPhases
  <1> QED
    BY <1>1, <1>2, <1>3, <1>5, <1>6, <1>7 DEF FileInv, FileOfOneMoment

\* The six statements of the export, by which parts have been read before.
LEMMA ReadProfileKeeps == ASSUME FileInv, ReadProfile PROVE FileInv'
  <1> DEFINE profile == Profile(Sight, file.owner)
             to == IF profile = Null THEN "read" ELSE "collections"
  <1>1. Statement("profile", to, "profile", profile)
    BY DEF ReadProfile
  <1>2. profile = PartOf(file.snapshot, file.owner, "profile")
    BY DEF PartOf, Sight
  <1>3. "profile" \in AccountPhases /\ "profile" \in AllParts /\ to \in AccountPhases
    BY DEF AccountPhases, AllParts, FirstParts
  <1>4. to \in {"read", "collections"} /\ (to # "read" => profile # Null) /\ (to = "read" => profile = Null)
    OBVIOUS
  <1> HIDE DEF to, profile
  <1>5. file.phase = "profile" /\ file'.phase = to /\ file'.profile = profile
    BY <1>1, <1>3, StatementIs
  <1>6. PartsRead(file) = {"account"} /\ PartsRead(file)' = FirstParts
    BY <1>4, <1>5 DEF PartsRead
  <1> QED
    BY <1>1, <1>2, <1>3, <1>4, <1>5, <1>6, StatementKeeps DEF FirstParts

\* The collections come second ...
LEMMA ReadCollectionsKeeps == ASSUME FileInv, ReadCollections PROVE FileInv'
  <1> DEFINE value == Collections(Sight, file.owner)
  <1>1. Statement("collections", "links", "collections", value)
    BY DEF ReadCollections
  <1>2. value = PartOf(file.snapshot, file.owner, "collections")
    BY DEF PartOf, Sight
  <1>3. "collections" \in AccountPhases /\ "links" \in AccountPhases /\ "collections" \in AllParts
    BY DEF AccountPhases, AllParts
  <1> HIDE DEF value
  <1>4. file # NoFile /\ file.phase = "collections" /\ file'.phase = "links"
    BY <1>1, <1>3, StatementIs
  <1>5. PartsRead(file) = FirstParts /\ PartsRead(file)' = FirstParts \cup {"collections"}
    BY <1>4 DEF PartsRead
  <1>6. file'.profile # Null
    BY <1>1, <1>3, ProfileStays DEF FirstParts
  <1> QED
    BY <1>1, <1>2, <1>3, <1>5, <1>6, StatementKeeps

\* ... the links third ...
LEMMA ReadShareLinksKeeps == ASSUME FileInv, ReadShareLinks PROVE FileInv'
  <1> DEFINE value == ShareLinks(Sight, file.owner)
  <1>1. Statement("links", "preferences", "links", value)
    BY DEF ReadShareLinks
  <1>2. value = PartOf(file.snapshot, file.owner, "links")
    BY DEF PartOf, Sight
  <1>3. "links" \in AccountPhases /\ "preferences" \in AccountPhases /\ "links" \in AllParts
    BY DEF AccountPhases, AllParts
  <1> HIDE DEF value
  <1>4. file # NoFile /\ file.phase = "links" /\ file'.phase = "preferences"
    BY <1>1, <1>3, StatementIs
  <1>5. /\ PartsRead(file) = FirstParts \cup {"collections"}
        /\ PartsRead(file)' = FirstParts \cup {"collections", "links"}
    BY <1>4 DEF PartsRead
  <1>6. file'.profile # Null
    BY <1>1, <1>3, ProfileStays DEF FirstParts
  <1> QED
    BY <1>1, <1>2, <1>3, <1>5, <1>6, StatementKeeps

\* ... the preference next ...
LEMMA ReadPreferencesKeeps == ASSUME FileInv, ReadPreferences PROVE FileInv'
  <1> DEFINE value == Preferences(Sight, file.owner)
  <1>1. Statement("preferences", "grants", "preferences", value)
    BY DEF ReadPreferences
  <1>2. value = PartOf(file.snapshot, file.owner, "preferences")
    BY DEF PartOf, Sight
  <1>3. "preferences" \in AccountPhases /\ "grants" \in AccountPhases /\ "preferences" \in AllParts
    BY DEF AccountPhases, AllParts
  <1> HIDE DEF value
  <1>4. file # NoFile /\ file.phase = "preferences" /\ file'.phase = "grants"
    BY <1>1, <1>3, StatementIs
  <1>5. /\ PartsRead(file) = FirstParts \cup {"collections", "links"}
        /\ PartsRead(file)' = FirstParts \cup {"collections", "links", "preferences"}
    BY <1>4 DEF PartsRead
  <1>6. file'.profile # Null
    BY <1>1, <1>3, ProfileStays DEF FirstParts
  <1> QED
    BY <1>1, <1>2, <1>3, <1>5, <1>6, StatementKeeps

\* ... and the grants last: then every part has been read.
LEMMA ReadGrantsKeeps == ASSUME FileInv, ReadGrants PROVE FileInv'
  <1> DEFINE value == Grants(Sight, file.owner)
  <1>1. Statement("grants", "read", "grants", value)
    BY DEF ReadGrants
  <1>2. value = PartOf(file.snapshot, file.owner, "grants")
    BY DEF PartOf, Sight
  <1>3. "grants" \in AccountPhases /\ "read" \in AccountPhases /\ "grants" \in AllParts
    BY DEF AccountPhases, AllParts
  <1> HIDE DEF value
  <1>4. file # NoFile /\ file.phase = "grants" /\ file'.phase = "read"
    BY <1>1, <1>3, StatementIs
  <1>5. /\ PartsRead(file) = FirstParts \cup {"collections", "links", "preferences"}
        /\ PartsRead(file)' \subseteq AllParts
    BY <1>4 DEF PartsRead, AllParts
  <1>6. PartsRead(file)' \subseteq PartsRead(file) \cup {"grants"}
    BY <1>5 DEF AllParts
  <1> QED
    BY <1>1, <1>2, <1>3, <1>6, StatementKeeps

\* What is composed of the parts of an account that was read is its portrait.
LEMMA ComposedIs ==
  ASSUME NEW f, NEW e, NEW c,
         \A part \in (IF f.profile = Null THEN FirstParts ELSE AllParts) : f[part] = PartOf(e, c, part)
  PROVE  Compose(f) = Portrait(e, c)
  <1>1. f.account = AccountRecord(e, c) /\ f.profile = Profile(e, c)
    BY DEF FirstParts, AllParts, PartOf
  <1>2. CASE f.profile = Null
    BY <1>1, <1>2 DEF Compose, Portrait
  <1>3. CASE f.profile # Null
    <2>1. /\ f.collections = Collections(e, c) /\ f.links = ShareLinks(e, c)
          /\ f.preferences = Preferences(e, c) /\ f.grants = Grants(e, c)
      BY <1>3 DEF AllParts, PartOf
    <2> QED
      BY <1>1, <2>1 DEF Compose, Portrait
  <1> QED
    BY <1>2, <1>3

\* The copy is the portrait of the snapshot.
LEMMA SaveAccountKeeps == ASSUME FileInv, SaveAccount PROVE FileInv'
  <1>1. /\ file # NoFile /\ file.phase = "read" /\ Still
        /\ file' = [owner |-> file.owner, kind |-> "account", phase |-> "saved", content |-> Compose(file)]
    BY DEF SaveAccount
  <1>2. DB' = DB /\ since' = since
    BY <1>1, StillIs
  <1>3. Compose(file) = Portrait(file.snapshot, file.owner)
    <2>1. PartsRead(file) = IF file.profile = Null THEN FirstParts ELSE AllParts
      BY <1>1 DEF PartsRead
    <2>2. \A part \in PartsRead(file) : file[part] = PartOf(file.snapshot, file.owner, part)
      BY <1>1 DEF FileInv, AccountPhases
    <2> QED
      BY <2>1, <2>2, ComposedIs
  <1>4. file.snapshot \in since /\ DB \in since /\ file.owner \in Exporter
    BY <1>1 DEF FileInv, AccountPhases
  <1>5. /\ file'.content = Portrait(file.snapshot, file'.owner) /\ file'.kind = "account"
        /\ file'.phase = "saved" /\ file'.owner = file.owner
    BY <1>1, <1>3
  <1>6. FileOfOneMoment'
    BY <1>2, <1>4, <1>5 DEF FileOfOneMoment
  <1> QED
    BY <1>2, <1>4, <1>5, <1>6 DEF FileInv, FilePhases, AccountPhases, Ended

\* The collection of a list is there, or the answer is an error.
LEMMA ReadMetaKeeps == ASSUME FileInv, ReadMeta PROVE FileInv'
  <1>1. file # NoFile /\ file.phase = "meta" /\ Still
    BY DEF ReadMeta
  <1>2. CASE HasCollection(tables, file.owner)
    <2>1. file' = [file EXCEPT !.phase = "rows"]
      BY <1>2 DEF ReadMeta
    <2>2. "owner" \in DOMAIN file /\ "kind" \in DOMAIN file /\ "phase" \in DOMAIN file
      BY <1>1 DEF FileInv
    <2>3. file'.owner = file.owner /\ file'.kind = file.kind /\ file'.phase = "rows"
      BY <2>1, <2>2
    <2>4. DB' = DB /\ since' = since
      BY <1>1, StillIs
    <2> QED
      BY <1>1, <2>3, <2>4 DEF FileInv, FileOfOneMoment, FilePhases, AccountPhases, Ended
  <1>3. CASE ~HasCollection(tables, file.owner)
    BY <1>1, <1>3, FailKeeps DEF ReadMeta, Ended
  <1> QED
    BY <1>2, <1>3

\* The list is that of the moment of its statement.
LEMMA ReadRowsKeeps == ASSUME FileInv, ReadRows PROVE FileInv'
  <1>1. /\ file # NoFile /\ file.phase = "rows" /\ Still
        /\ file' = [owner |-> file.owner, kind |-> file.kind, phase |-> "saved",
                    content |-> Csv(tables, file.owner, file.kind)]
    BY DEF ReadRows
  <1>2. DB' = DB /\ since' = since
    BY <1>1, StillIs
  <1>3. DB \in since /\ file.owner \in Exporter /\ file.kind \in Kinds
    BY <1>1 DEF FileInv
  <1>4. DB.tables = tables
    BY DEF DB
  <1>5. /\ file'.content = Csv(DB.tables, file'.owner, file'.kind) /\ file'.kind # "account"
        /\ file'.phase = "saved" /\ file'.owner = file.owner
    BY <1>1, <1>3, <1>4 DEF Kinds
  <1>6. FileOfOneMoment'
    BY <1>2, <1>3, <1>5 DEF FileOfOneMoment
  <1> QED
    BY <1>2, <1>3, <1>5, <1>6 DEF FileInv, FilePhases, AccountPhases, Ended

\* A download that broke says nothing.
LEMMA BreakKeeps == ASSUME FileInv, Break PROVE FileInv'
  BY FailKeeps DEF Break, Ended

\* A download is over.
LEMMA CloseKeeps == ASSUME Close PROVE FileInv'
  BY DEF Close, FileInv

-----------------------------------------------------------------------------
\* The invariant of the downloads holds before anything happens ...
LEMMA InitEInv == ExportInit => EInv
  <1> SUFFICES ASSUME ExportInit PROVE EInv
    OBVIOUS
  <1>1. IInv
    BY InitIInv DEF ExportInit
  <1>2. AccessInv
    BY DEF ExportInit, AccessInv, NoAccess, Granted
  <1>3. FileInv
    BY DEF ExportInit, FileInv
  <1> QED
    BY <1>1, <1>2, <1>3 DEF EInv

\* A step of Trades, which the rest follows.
LEMMA FollowedKeeps == ASSUME EInv, Next, Follow PROVE EInv'
  <1>1. IInv'
    BY TradesStep DEF EInv
  <1>2. AccessInv'
    BY FollowKeeps DEF EInv
  <1>3. FileInv'
    BY FileKept DEF EInv, Follow
  <1> QED
    BY <1>1, <1>2, <1>3 DEF EInv

\* A step of the download.
LEMMA DownloadedKeeps ==
  ASSUME EInv, UNCHANGED <<vars, accounts, access>>, FileInv'
  PROVE  EInv'
  BY StutterKeeps DEF EInv, AccessInv

FileStep ==
  \/ Identify
  \/ ReadAccount \/ ReadProfile \/ ReadCollections \/ ReadShareLinks
  \/ ReadPreferences \/ ReadGrants \/ SaveAccount
  \/ ReadMeta \/ ReadRows
  \/ Break \/ Close

\* Every step of the download keeps the invariant ...
LEMMA FileStepKeeps == ASSUME EInv, FileStep PROVE EInv'
  <1>1. FileInv'
    BY IdentifyKeeps, ReadAccountKeeps, ReadProfileKeeps, ReadCollectionsKeeps, ReadShareLinksKeeps,
       ReadPreferencesKeeps, ReadGrantsKeeps, SaveAccountKeeps, ReadMetaKeeps, ReadRowsKeeps,
       BreakKeeps, CloseKeeps DEF EInv, FileStep
  <1>2. UNCHANGED <<vars, accounts, access>>
    BY DEF FileStep, Identify, ReadAccount, ReadProfile, ReadCollections, ReadShareLinks, ReadPreferences,
           ReadGrants, SaveAccount, ReadMeta, ReadRows, Break, Close, Statement, Still
  <1> QED
    BY <1>1, <1>2, DownloadedKeeps

\* ... and with it every step of the system.
LEMMA EInvStep ==
  ASSUME EInv, [ExportNext]_all
  PROVE  EInv'
  <1>1. ASSUME NEW c \in Collector, Writer(c)
        PROVE  EInv'
    BY <1>1, FollowedKeeps DEF Writer, Next
  <1>2. ASSUME NEW c \in FormOwner, PreferenceForm(c)
        PROVE  EInv'
    BY <1>2, FollowedKeeps DEF PreferenceForm, Next
  <1>3. ASSUME Served PROVE EInv'
    BY <1>3, FollowedKeeps DEF Served, Serve, Next
  <1>4. ASSUME (Open /\ Follow) \/ (ChangeFilter /\ Follow) \/ (TurnPage /\ Follow) \/ (Leave /\ Follow)
        PROVE  EInv'
    BY <1>4, FollowedKeeps DEF Next
  <1>5. ASSUME NEW c \in Exporter, NEW kind \in {"link", "grant"}, ChangeAccess(c, kind)
        PROVE  EInv'
    <2>1. c \in Collector
      BY ExportsAssumption
    <2>2. IInv' /\ AccessInv'
      BY <1>5, <2>1, ChangeAccessKeeps DEF EInv
    <2>3. FileInv'
      BY <1>5, FileKept DEF EInv, ChangeAccess
    <2> QED
      BY <2>2, <2>3 DEF EInv
  <1>6. ASSUME NEW c \in Exporter, DeleteAccount(c)
        PROVE  EInv'
    <2>1. IInv' /\ AccessInv'
      BY <1>6, DeleteAccountKeeps, ExportsAssumption DEF EInv
    <2>2. FileInv'
      BY <1>6, FileKept DEF EInv, DeleteAccount
    <2> QED
      BY <2>1, <2>2 DEF EInv
  <1>7. ASSUME NEW c \in Exporter, NEW kind \in {"account"} \cup Kinds, Download(c, kind)
        PROVE  EInv'
    BY <1>7, DownloadKeeps, DownloadedKeeps DEF Download
  <1>8. ASSUME FileStep PROVE EInv'
    BY <1>8, FileStepKeeps
  <1>9. ASSUME UNCHANGED all PROVE EInv'
    <2>1. UNCHANGED <<vars, accounts, access, file, since>>
      BY <1>9 DEF all, exports
    <2>2. FileInv'
      BY <2>1, FileStutters DEF EInv, DB, vars
    <2> QED
      BY <2>1, <2>2, DownloadedKeeps
  <1> QED
    BY <1>1, <1>2, <1>3, <1>4, <1>5, <1>6, <1>7, <1>8, <1>9 DEF ExportNext, FileStep
-----------------------------------------------------------------------------
\* The inductive invariant: types, who was told to be hidden (HiddenInv), what
\* a request has read of one snapshot (RequestInv), and a download (FileInv).
THEOREM DownloadsInvariant == ExportSpec => []EInv
  <1>1. EInv /\ [ExportNext]_all => EInv'
    BY EInvStep
  <1> QED
    BY InitEInv, <1>1, PTL DEF ExportSpec

\* The tables, the forms, the request and the download have their types.
THEOREM TypeCorrect == ExportSpec => []ExportTypeOK
  <1>1. EInv => ExportTypeOK
    BY DEF EInv, IInv, TypeInv, AccessInv, FileInv, ExportTypeOK
  <1> QED
    BY DownloadsInvariant, <1>1, PTL

\* However the database changes while an account is exported by six statements
\* of four modules, the copy is the account of one moment since it was asked
\* for, and so is a list of stickers (account-export.ts:138).
THEOREM FilesOfOneMoment == ExportSpec => []FileOfOneMoment
  <1>1. EInv => FileOfOneMoment
    BY DEF EInv, FileInv, FileOfOneMoment
  <1> QED
    BY DownloadsInvariant, <1>1, PTL

\* For any number of collectors, stickers and revisions, what one is offered is
\* what the other could give away: both SQL counts, and the lists of stickers.
THEOREM ExchangesAreMutual == ExportSpec => []ExchangeIsMutual
  <1>1. EInv => ExchangeIsMutual
    BY Mutual DEF EInv, IInv, TypeInv, TypeOK, ExchangeIsMutual
  <1> QED
    BY DownloadsInvariant, <1>1, PTL

\* The matches of a request are rows, whether there is a collection or not.
LEMMA MatchesAreRows ==
  ASSUME NEW d \in Tables, WellFormed(d), query \in Query
  PROVE  Rows(Matches(d))
  <1>1. CASE HasCollection(d, query.viewer)
    BY <1>1, SummaryRows DEF Readable, Matches
  <1>2. CASE ~HasCollection(d, query.viewer)
    BY <1>2, FS_EmptySet DEF Rows, Matches
  <1> QED
    BY <1>1, <1>2

\* The sort order of the matches leaves nothing open, in any of the four orders
\* and with any number of equal display names: pages partition the matches.
THEOREM PagesPartition == ExportSpec => []PagesPartitionMatches
  <1>1. EInv => PagesPartitionMatches
    <2> SUFFICES ASSUME EInv PROVE Cardinality(Orders(query.sort, Matches(View))) = 1
      BY DEF PagesPartitionMatches
    <2>1. View \in Tables /\ WellFormed(View) /\ query \in Query
      BY DEF EInv, IInv, TypeInv, TypeOK, View
    <2>2. query.sort \in Sort
      BY <2>1 DEF Query
    <2> QED
      BY <2>1, <2>2, MatchesAreRows, OneOrder
  <1> QED
    BY DownloadsInvariant, <1>1, PTL

\* What the request that ended has read and answered.
LEMMA AnswerIs ==
  ASSUME IInv, phase \in {"answered", "shown"}, answer # Empty
  PROVE  /\ Readable(snapshot, query) /\ snapshot \in moments /\ snapshot.visible[query.viewer]
         /\ \E o \in Orders(query.sort, Summary(snapshot, query)) :
              answer = [enabled |-> TRUE, rows |-> Rowed(snapshot, query, o),
                        total |-> Cardinality(Summary(snapshot, query))]
  BY DEF IInv, TypeInv, TypeOK, RequestInv, Snapped, Here, Readable, Ordered, Full

\* An answer is the reference's for the snapshot, or the viewer has not opted in.
LEMMA OneMomentHolds == ASSUME IInv PROVE AnswerOfOneMoment
  <1> SUFFICES ASSUME phase \in {"answered", "shown"}
               PROVE  \E d \in moments : \/ IsReferenceAnswer(d)
                                         \/ ~d.visible[query.viewer] /\ answer = Empty
    BY DEF AnswerOfOneMoment
  <1>1. snapshot \in moments
    BY DEF IInv, RequestInv, Snapped
  <1>2. CASE ~snapshot.visible[query.viewer] /\ answer = Empty
    BY <1>1, <1>2
  <1>3. CASE answer # Empty
    <2>1. PICK o \in Orders(query.sort, Summary(snapshot, query)) :
            answer = [enabled |-> TRUE, rows |-> Rowed(snapshot, query, o),
                      total |-> Cardinality(Summary(snapshot, query))]
      BY <1>3, AnswerIs
    <2>2. Readable(snapshot, query) /\ snapshot.visible[query.viewer]
      BY <1>3, AnswerIs
    <2>3. answer.enabled /\ answer.rows = Rowed(snapshot, query, o) /\ answer.total = Cardinality(Summary(snapshot, query))
      BY <2>1
    <2>4. IsReferenceAnswer(snapshot)
      BY <2>2, <2>3, AnswerIsReference DEF IsReferenceAnswer
    <2> QED
      BY <1>1, <2>4
  <1>4. \A o : Full(o) # Empty
    BY DEF Full, Empty
  <1> QED
    BY <1>2, <1>3, <1>4 DEF IInv, RequestInv

\* Whatever collectors change meanwhile, an answer is the page, the total and
\* the order that the repository's reference computes from the tables of one
\* moment since the request began (matching.ts:333).
THEOREM AnswersOfOneMoment == ExportSpec => []AnswerOfOneMoment
  <1>1. EInv => AnswerOfOneMoment
    BY OneMomentHolds DEF EInv
  <1> QED
    BY DownloadsInvariant, <1>1, PTL

\* Who is in an answer was visible in the snapshot, and so was promised nothing,
\* or is relisted.
LEMMA HiddenHolds == ASSUME IInv PROVE HiddenMeansHidden
  <1> SUFFICES ASSUME phase \in {"answered", "shown"}, NEW i \in DOMAIN answer.rows
               PROVE  answer.rows[i].partner \notin promised \ relisted
    BY DEF HiddenMeansHidden
  <1>1. answer # Empty
    BY DEF Empty
  <1>2. PICK o \in Orders(query.sort, Summary(snapshot, query)) :
          answer = [enabled |-> TRUE, rows |-> Rowed(snapshot, query, o),
                    total |-> Cardinality(Summary(snapshot, query))]
    BY <1>1, AnswerIs
  <1>3. Readable(snapshot, query)
    BY <1>1, AnswerIs
  <1>4. answer.rows = Rowed(snapshot, query, o)
    BY <1>2
  <1>5. answer.rows[i].partner \in VisiblePartners(snapshot, query)
    BY <1>3, <1>4, AnswerIsReference
  <1>6. \A c \in promised \ relisted : ~snapshot.visible[c]
    BY DEF IInv, HiddenInv, Snapped
  <1> QED
    BY <1>5, <1>6 DEF VisiblePartners

\* Who was told to be hidden from all trade matches is in no answer to a request
\* that began after that, until opting in again; but for whom an opt-in that the
\* form had given up on has listed since.
THEOREM HiddenStaysHidden == ExportSpec => []HiddenMeansHidden
  <1>1. EInv => HiddenMeansHidden
    BY HiddenHolds DEF EInv
  <1> QED
    BY DownloadsInvariant, <1>1, PTL

\* A page up to the last one has a match.
LEMMA PageHolds == ASSUME IInv PROVE NoPageBeyondTheLast
  <1> SUFFICES ASSUME phase = "shown", answer.total > 0
               PROVE  answer.rows # << >>
    BY DEF NoPageBeyondTheLast
  <1> DEFINE n == Cardinality(Summary(snapshot, query))
  <1>1. answer # Empty
    BY DEF Empty
  <1>2. PICK o \in Orders(query.sort, Summary(snapshot, query)) :
          answer = [enabled |-> TRUE, rows |-> Rowed(snapshot, query, o), total |-> n]
    BY <1>1, AnswerIs
  <1>3. Readable(snapshot, query) /\ query \in Query /\ query.sort \in Sort
    BY <1>1, AnswerIs DEF Readable, Query
  <1>4. answer.rows = Rowed(snapshot, query, o) /\ answer.total = n /\ n > 0
    BY <1>2
  <1>5. IsPage(query) /\ ~(Page(query) > LastPage(n))
    BY <1>4 DEF IInv, RequestInv
  <1>6. Rows(Summary(snapshot, query))
    BY <1>3, SummaryRows
  <1>7. n \in Nat /\ DOMAIN o = 1..n
    BY <1>3, <1>6, OrderSurjective
  <1> HIDE DEF n
  <1>8. query.offset < n
    BY <1>3, <1>4, <1>5, <1>7, PageReached
  <1>9. 1 \in DOMAIN PageOf(query, o)
    <2>1. Limit(query) \in Nat /\ Limit(query) >= 1 /\ query.offset \in Nat
      BY <1>3, LimitIs, TradeAssumption DEF Query
    <2> QED
      BY <1>3, <1>7, <1>8, <2>1, PageIs
  <1>10. DOMAIN answer.rows = DOMAIN PageOf(query, o)
    BY <1>4 DEF Rowed
  <1> QED
    BY <1>9, <1>10

\* A page that is shown without a match means there is none: requests for pages
\* that the matches no longer reach are redirected.
THEOREM NoPageBeyond == ExportSpec => []NoPageBeyondTheLast
  <1>1. EInv => NoPageBeyondTheLast
    BY PageHolds DEF EInv
  <1> QED
    BY DownloadsInvariant, <1>1, PTL
-----------------------------------------------------------------------------
(* What the lists of a collection add up to.  The library sums over a set  *)
(* by recursion.  There is one such function (OneSum: of two, look at the  *)
(* smallest set they differ on), and where the terms are the sizes of      *)
(* disjoint sets, the size of their union is one.                          *)

\* A set of natural numbers that is not empty has a smallest.
LEMMA Least ==
  ASSUME NEW T, T \subseteq Nat, T # {}
  PROVE  \E x \in T : \A y \in T : ~(y < x)
  <1>1. \E x \in T : \A y \in T : ~ (<<y, x>> \in OpToRel(<, Nat))
    BY NatLessThanWellFounded, WFMin
  <1> QED
    BY <1>1 DEF OpToRel

\* The sums of f over the sets of S, one element after another.
Summing(g, f, S) ==
  g = [T \in SUBSET S |->
         IF T = {} THEN 0 ELSE LET x == CHOOSE x \in T : TRUE IN f[x] + g[T \ {x}]]

\* There is one such function: of two, look at the smallest set they differ on.
LEMMA OneSum ==
  ASSUME NEW S, IsFiniteSet(S), NEW f, NEW h, h = [T \in SUBSET S |-> h[T]], h[{}] = 0,
         \A T \in SUBSET S : \A x \in T : h[T] = f[x] + h[T \ {x}]
  PROVE  \A g : Summing(g, f, S) <=> g = h
  <1>1. Summing(h, f, S)
    <2>1. \A T \in SUBSET S :
            h[T] = IF T = {} THEN 0 ELSE LET x == CHOOSE x \in T : TRUE IN f[x] + h[T \ {x}]
      <3> SUFFICES ASSUME NEW T \in SUBSET S, T # {}
                   PROVE  h[T] = LET x == CHOOSE x \in T : TRUE IN f[x] + h[T \ {x}]
        OBVIOUS
      <3>1. (CHOOSE x \in T : TRUE) \in T
        OBVIOUS
      <3> QED
        BY <3>1
    <2> QED
      BY <2>1, Zenon DEF Summing
  <1>2. ASSUME NEW g, Summing(g, f, S) PROVE g = h
    <2>1. /\ g = [T \in SUBSET S |-> g[T]] /\ g[{}] = 0
          /\ \A T \in SUBSET S : T # {} => \E x \in T : g[T] = f[x] + g[T \ {x}]
      <3>1. \A T \in SUBSET S :
              g[T] = IF T = {} THEN 0 ELSE LET x == CHOOSE x \in T : TRUE IN f[x] + g[T \ {x}]
        BY <1>2, Zenon DEF Summing
      <3>2. \A T \in SUBSET S : T # {} => (CHOOSE x \in T : TRUE) \in T
        OBVIOUS
      <3>3. g = [T \in SUBSET S |-> g[T]]
        BY <1>2 DEF Summing
      <3> QED
        BY <3>1, <3>2, <3>3
    <2> DEFINE Differ == {T \in SUBSET S : g[T] # h[T]}
               Cards == {Cardinality(T) : T \in Differ}
    <2>2. \A T \in Differ : Cardinality(T) \in Nat
      BY FS_Subset, FS_CardinalityType
    <2>3. Differ = {}
      <3> SUFFICES ASSUME Differ # {} PROVE FALSE
        OBVIOUS
      <3>1. Cards \subseteq Nat /\ Cards # {}
        BY <2>2
      <3> HIDE DEF Cards
      <3>2. \E n \in Cards : \A m \in Cards : ~(m < n)
        BY <3>1, Least
      <3>3. PICK T \in Differ : \A U \in Differ : ~(Cardinality(U) < Cardinality(T))
        BY <3>2 DEF Cards
      <3>4. T # {}
        BY <2>1
      <3>5. PICK x \in T : g[T] = f[x] + g[T \ {x}]
        BY <2>1, <3>4
      <3>6. IsFiniteSet(T) /\ Cardinality(T \ {x}) = Cardinality(T) - 1 /\ Cardinality(T) \in Nat
        BY FS_Subset, FS_RemoveElement, FS_CardinalityType
      <3>7. g[T \ {x}] = h[T \ {x}]
        <4>1. Cardinality(T \ {x}) < Cardinality(T)
          BY <3>6
        <4>2. T \ {x} \notin Differ
          BY <3>3, <4>1
        <4> QED
          BY <4>2
      <3> QED
        BY <3>5, <3>7
    <2> QED
      BY <2>1, <2>3
  <1> QED
    BY <1>1, <1>2

Disjoint(P, S) == \A x, y \in S : x # y => P[x] \cap P[y] = {}
Joined(P, T) == UNION {P[x] : x \in T}
Sizes(P, S) == [T \in SUBSET S |-> Cardinality(Joined(P, T))]

\* The sum of the sizes of disjoint sets is the size of their union.
LEMMA SumOfSizes ==
  ASSUME NEW S, IsFiniteSet(S), NEW P, NEW f, Disjoint(P, S),
         \A x \in S : IsFiniteSet(P[x]) /\ f[x] = Cardinality(P[x])
  PROVE  \A g : Summing(g, f, S) <=> g = Sizes(P, S)
  <1> DEFINE h == [T \in SUBSET S |-> Cardinality(Joined(P, T))]
  <1>1. \A T \in SUBSET S : IsFiniteSet(Joined(P, T))
    <2> SUFFICES ASSUME NEW T \in SUBSET S PROVE IsFiniteSet(Joined(P, T))
      OBVIOUS
    <2> DEFINE F == [x \in T |-> P[x]]
               R == {P[x] : x \in T}
    <2>1. F \in Surjection(T, R)
      BY DEF Surjection
    <2>2. IsFiniteSet(T)
      BY FS_Subset
    <2> HIDE DEF F, R
    <2>3. IsFiniteSet(R)
      BY <2>1, <2>2, FS_Surjection
    <2>4. \A A \in R : IsFiniteSet(A)
      BY DEF R
    <2>5. IsFiniteSet(UNION R)
      BY <2>3, <2>4, FS_UNION
    <2> QED
      BY <2>5 DEF R, Joined
  <1>2. Joined(P, {}) = {}
    BY DEF Joined
  <1>3. h[{}] = 0
    BY <1>2, FS_EmptySet
  <1>4. \A T \in SUBSET S : \A x \in T : h[T] = f[x] + h[T \ {x}]
    <2> SUFFICES ASSUME NEW T \in SUBSET S, NEW x \in T PROVE h[T] = f[x] + h[T \ {x}]
      OBVIOUS
    <2>1. Joined(P, T) = P[x] \cup Joined(P, T \ {x})
      BY DEF Joined
    <2>2. P[x] \cap Joined(P, T \ {x}) = {}
      BY DEF Joined, Disjoint
    <2>3. IsFiniteSet(Joined(P, T \ {x})) /\ IsFiniteSet(P[x])
      BY <1>1
    <2>4. Cardinality(P[x]) \in Nat /\ Cardinality(Joined(P, T \ {x})) \in Nat
      BY <2>3, FS_CardinalityType
    <2>5. Cardinality(Joined(P, T)) = Cardinality(P[x]) + Cardinality(Joined(P, T \ {x}))
      <3> DEFINE A == P[x]
                 B == Joined(P, T \ {x})
      <3>1. A \cap B = {} /\ IsFiniteSet(A) /\ IsFiniteSet(B)
        BY <2>2, <2>3
      <3>2. Cardinality(A) \in Nat /\ Cardinality(B) \in Nat
        BY <2>4
      <3> HIDE DEF A, B
      <3>3. Cardinality(A \cup B) = Cardinality(A) + Cardinality(B) - Cardinality(A \cap B)
        BY <3>1, FS_Union
      <3>4. Cardinality(A \cup B) = Cardinality(A) + Cardinality(B)
        <4>1. Cardinality(A \cap B) = 0
          BY <3>1, FS_EmptySet, Zenon
        <4> QED
          BY <3>2, <3>3, <4>1
      <3> QED
        BY <2>1, <3>4 DEF A, B
    <2> QED
      BY <2>5
  <1> HIDE DEF h
  <1>5. h = [T \in SUBSET S |-> h[T]]
    BY DEF h
  <1>6. \A g : Summing(g, f, S) <=> g = h
    BY <1>3, <1>4, <1>5, OneSum
  <1> QED
    BY <1>6 DEF h, Sizes

\* As many pairs as a number says.
LEMMA PairsCount ==
  ASSUME NEW x, NEW n \in Nat
  PROVE  IsFiniteSet({x} \X (1..n)) /\ Cardinality({x} \X (1..n)) = n
  <1>1. IsFiniteSet(1..n) /\ Cardinality(1..n) = n
    BY FS_Interval
  <1>2. IsFiniteSet({x}) /\ Cardinality({x}) = 1
    BY FS_Singleton
  <1> QED
    BY <1>1, <1>2, FS_Product

\* The surplus of the stickers S, as the view and the overview add it up.
Surplus(S, q) == UNION {{s} \X (1..(q[s] - 1)) : s \in S}
LEMMA SurplusIs ==
  ASSUME NEW S, IsFiniteSet(S), NEW q, \A s \in S : q[s] \in Nat
  PROVE  /\ MapThenSumSet(LAMBDA s : Max({q[s] - 1, 0}), S) = Cardinality(Surplus(S, q))
         /\ MapThenSumSet(LAMBDA s : Max({0, q[s] - 1}), S) = Cardinality(Surplus(S, q))
  <1> DEFINE P == [s \in S |-> {s} \X (1..(q[s] - 1))]
             f == [s \in S |-> IF q[s] = 0 THEN 0 ELSE q[s] - 1]
             h == Sizes(P, S)
  <1>1. ASSUME NEW s \in S
        PROVE  /\ IsFiniteSet(P[s]) /\ f[s] = Cardinality(P[s])
               /\ Max({q[s] - 1, 0}) = f[s] /\ Max({0, q[s] - 1}) = f[s]
    <2>1. 1..(q[s] - 1) = 1..f[s] /\ f[s] \in Nat
      OBVIOUS
    <2>2. Max({q[s] - 1, 0}) = f[s] /\ Max({0, q[s] - 1}) = f[s]
      BY MaxIs
    <2>3. P[s] = {s} \X (1..f[s])
      BY <2>1
    <2> DEFINE n == f[s]
    <2> HIDE DEF f, P, n
    <2>4. n \in Nat
      BY <2>1 DEF n
    <2>5. IsFiniteSet({s} \X (1..n)) /\ Cardinality({s} \X (1..n)) = n
      BY <2>4, PairsCount
    <2> QED
      BY <2>2, <2>3, <2>5 DEF n
  <1>2. Disjoint(P, S)
    BY DEF Disjoint
  <1>3. h[S] = Cardinality(Surplus(S, q))
    BY DEF Joined, Surplus, Sizes
  <1> HIDE DEF f, P
  <1>4. \A g : Summing(g, f, S) <=> g = h
    <2>1. \A x \in S : IsFiniteSet(P[x]) /\ f[x] = Cardinality(P[x])
      BY <1>1
    <2> QED
      BY <1>2, <2>1, SumOfSizes
  <1> HIDE DEF h
  <1>5. \A T \in SUBSET S : T # {} => (CHOOSE x \in T : TRUE) \in S
    OBVIOUS
  <1>6. \A g : g = [T \in SUBSET S |-> IF T = {} THEN 0
                      ELSE LET x == CHOOSE x \in T : TRUE IN Max({q[x] - 1, 0}) + g[T \ {x}]]
               <=> g = h
    <2> SUFFICES ASSUME NEW g
                 PROVE  g = [T \in SUBSET S |-> IF T = {} THEN 0
                               ELSE LET x == CHOOSE x \in T : TRUE IN Max({q[x] - 1, 0}) + g[T \ {x}]]
                        <=> Summing(g, f, S)
      BY <1>4
    <2> DEFINE Theirs(T) == IF T = {} THEN 0
                            ELSE LET x == CHOOSE x \in T : TRUE IN Max({q[x] - 1, 0}) + g[T \ {x}]
               Ours(T) == IF T = {} THEN 0 ELSE LET x == CHOOSE x \in T : TRUE IN f[x] + g[T \ {x}]
    <2>1. ASSUME NEW T \in SUBSET S PROVE Theirs(T) = Ours(T)
      <3>1. CASE T = {}
        BY <3>1
      <3>2. CASE T # {}
        <4>1. PICK x : x = CHOOSE y \in T : TRUE
          OBVIOUS
        <4>2. x \in S
          BY <1>5, <3>2, <4>1
        <4> QED
          BY <1>1, <3>2, <4>1, <4>2
      <3> QED
        BY <3>1, <3>2
    <2> HIDE DEF Theirs, Ours
    <2>2. [T \in SUBSET S |-> Theirs(T)] = [T \in SUBSET S |-> Ours(T)]
      BY <2>1
    <2> QED
      BY <2>2, Zenon DEF Theirs, Ours, Summing
  <1>7. \A g : g = [T \in SUBSET S |-> IF T = {} THEN 0
                      ELSE LET x == CHOOSE x \in T : TRUE IN Max({0, q[x] - 1}) + g[T \ {x}]]
               <=> g = h
    <2> SUFFICES ASSUME NEW g
                 PROVE  g = [T \in SUBSET S |-> IF T = {} THEN 0
                               ELSE LET x == CHOOSE x \in T : TRUE IN Max({0, q[x] - 1}) + g[T \ {x}]]
                        <=> Summing(g, f, S)
      BY <1>4
    <2> DEFINE Theirs(T) == IF T = {} THEN 0
                            ELSE LET x == CHOOSE x \in T : TRUE IN Max({0, q[x] - 1}) + g[T \ {x}]
               Ours(T) == IF T = {} THEN 0 ELSE LET x == CHOOSE x \in T : TRUE IN f[x] + g[T \ {x}]
    <2>1. ASSUME NEW T \in SUBSET S PROVE Theirs(T) = Ours(T)
      <3>1. CASE T = {}
        BY <3>1
      <3>2. CASE T # {}
        <4>1. PICK x : x = CHOOSE y \in T : TRUE
          OBVIOUS
        <4>2. x \in S
          BY <1>5, <3>2, <4>1
        <4> QED
          BY <1>1, <3>2, <4>1, <4>2
      <3> QED
        BY <3>1, <3>2
    <2> HIDE DEF Theirs, Ours
    <2>2. [T \in SUBSET S |-> Theirs(T)] = [T \in SUBSET S |-> Ours(T)]
      BY <2>1
    <2> QED
      BY <2>2, Zenon DEF Theirs, Ours, Summing
  <1>8. MapThenSumSet(LAMBDA s : Max({q[s] - 1, 0}), S) = h[S]
    BY <1>6, Zenon DEF MapThenSumSet, MapThenFoldSet
  <1>9. MapThenSumSet(LAMBDA s : Max({0, q[s] - 1}), S) = h[S]
    BY <1>7, Zenon DEF MapThenSumSet, MapThenFoldSet
  <1> QED
    BY <1>3, <1>8, <1>9

\* The overview and the view count the same surplus.
LEMMA OverviewIs ==
  ASSUME NEW d \in Tables, NEW c \in Collector, HasCollection(d, c)
  PROVE  /\ Overview(d, c).duplicates = Cardinality(Surplus(Stickers(d, c), d.quantity[c]))
         /\ Progress(d, c).duplicates = Cardinality(Surplus(Stickers(d, c), d.quantity[c]))
  <1> DEFINE S == Stickers(d, c)
             q == d.quantity[c]
  <1>1. IsFiniteSet(S) /\ \A s \in S : q[s] \in Nat
    BY TablesAre, TradeAssumption, FS_Subset DEF Stickers, HasCollection
  <1>2. /\ MapThenSumSet(LAMBDA s : Max({q[s] - 1, 0}), S) = Cardinality(Surplus(S, q))
        /\ MapThenSumSet(LAMBDA s : Max({0, q[s] - 1}), S) = Cardinality(Surplus(S, q))
    BY <1>1, SurplusIs
  <1>3. Overview(d, c).duplicates = MapThenSumSet(LAMBDA s : Max({q[s] - 1, 0}), S)
    BY DEF Overview
  <1>4. Progress(d, c).duplicates = MapThenSumSet(LAMBDA s : Max({0, q[s] - 1}), S)
    BY DEF Progress
  <1> QED
    BY <1>2, <1>3, <1>4
-----------------------------------------------------------------------------
\* The rows of a list of different stickers have the spare copies of these.
LEMMA SparesAre ==
  ASSUME NEW R, IsFiniteSet(R), \A r \in R : r.spare \in Nat,
         \A r, t \in R : r.sticker = t.sticker => r = t
  PROVE  Spares(R) = Cardinality(UNION {{r.sticker} \X (1..r.spare) : r \in R})
  <1> DEFINE P == [r \in R |-> {r.sticker} \X (1..r.spare)]
             f == [r \in R |-> r.spare]
             h == Sizes(P, R)
  <1>1. ASSUME NEW r \in R PROVE IsFiniteSet(P[r]) /\ f[r] = Cardinality(P[r])
    <2> DEFINE n == r.spare
               x == r.sticker
    <2>1. n \in Nat /\ P[r] = {x} \X (1..n) /\ f[r] = n
      OBVIOUS
    <2> HIDE DEF f, P, n, x
    <2>2. IsFiniteSet({x} \X (1..n)) /\ Cardinality({x} \X (1..n)) = n
      BY <2>1, PairsCount
    <2> QED
      BY <2>1, <2>2
  <1>2. Disjoint(P, R)
    BY DEF Disjoint
  <1>3. h[R] = Cardinality(UNION {{r.sticker} \X (1..r.spare) : r \in R})
    BY DEF Joined, Sizes
  <1>4. \A r \in R : f[r] = r.spare
    OBVIOUS
  <1> HIDE DEF f, P
  <1>5. \A g : Summing(g, f, R) <=> g = h
    <2>1. \A x \in R : IsFiniteSet(P[x]) /\ f[x] = Cardinality(P[x])
      BY <1>1
    <2> QED
      BY <1>2, <2>1, SumOfSizes
  <1> HIDE DEF h
  <1>6. \A g : g = [T \in SUBSET R |-> IF T = {} THEN 0
                      ELSE LET x == CHOOSE x \in T : TRUE IN x.spare + g[T \ {x}]]
               <=> g = h
    <2> SUFFICES ASSUME NEW g
                 PROVE  g = [T \in SUBSET R |-> IF T = {} THEN 0
                               ELSE LET x == CHOOSE x \in T : TRUE IN x.spare + g[T \ {x}]]
                        <=> Summing(g, f, R)
      BY <1>5
    <2> DEFINE Theirs(T) == IF T = {} THEN 0
                            ELSE LET x == CHOOSE x \in T : TRUE IN x.spare + g[T \ {x}]
               Ours(T) == IF T = {} THEN 0 ELSE LET x == CHOOSE x \in T : TRUE IN f[x] + g[T \ {x}]
    <2>1. ASSUME NEW T \in SUBSET R PROVE Theirs(T) = Ours(T)
      <3>1. CASE T = {}
        BY <3>1
      <3>2. CASE T # {}
        <4>1. PICK x : x = CHOOSE y \in T : TRUE
          OBVIOUS
        <4>2. x \in R
          BY <3>2, <4>1
        <4> QED
          BY <1>4, <3>2, <4>1, <4>2
      <3> QED
        BY <3>1, <3>2
    <2> HIDE DEF Theirs, Ours
    <2>2. [T \in SUBSET R |-> Theirs(T)] = [T \in SUBSET R |-> Ours(T)]
      BY <2>1
    <2> QED
      BY <2>2, Zenon DEF Theirs, Ours, Summing
  <1>7. MapThenSumSet(LAMBDA row : row.spare, R) = h[R]
    BY <1>6, Zenon DEF MapThenSumSet, MapThenFoldSet
  <1> QED
    BY <1>3, <1>7 DEF Spares

\* Sections of different names, each with how many of the stickers S it has of
\* those in Q: together these are all.
LEMMA SectionsAddUp ==
  ASSUME NEW S, IsFiniteSet(S), NEW Q, Q \subseteq S, NEW sec, NEW R, IsFiniteSet(R),
         \A x, y \in R : x.id = y.id => x = y,
         \A x \in R : x.owned = Cardinality({s \in Q : sec[s] = x.id}),
         \A s \in S : \E x \in R : x.id = sec[s]
  PROVE  MapThenSumSet(LAMBDA x : x.owned, R) = Cardinality(Q)
  <1> DEFINE P == [x \in R |-> {s \in Q : sec[s] = x.id}]
             f == [x \in R |-> x.owned]
             h == Sizes(P, R)
  <1>1. ASSUME NEW x \in R PROVE IsFiniteSet(P[x]) /\ f[x] = Cardinality(P[x])
    <2>1. P[x] \in SUBSET S
      OBVIOUS
    <2>2. f[x] = Cardinality(P[x])
      OBVIOUS
    <2> QED
      BY <2>1, <2>2, FS_Subset
  <1>2. Disjoint(P, R)
    BY DEF Disjoint
  <1>3. h[R] = Cardinality(Q)
    <2>1. Joined(P, R) = Q
      BY DEF Joined
    <2> QED
      BY <2>1 DEF Sizes
  <1>4. \A x \in R : f[x] = x.owned
    OBVIOUS
  <1> HIDE DEF f, P
  <1>5. \A g : Summing(g, f, R) <=> g = h
    <2>1. \A x \in R : IsFiniteSet(P[x]) /\ f[x] = Cardinality(P[x])
      BY <1>1
    <2> QED
      BY <1>2, <2>1, SumOfSizes
  <1> HIDE DEF h
  <1>6. \A g : g = [T \in SUBSET R |-> IF T = {} THEN 0
                      ELSE LET x == CHOOSE x \in T : TRUE IN x.owned + g[T \ {x}]]
               <=> g = h
    <2> SUFFICES ASSUME NEW g
                 PROVE  g = [T \in SUBSET R |-> IF T = {} THEN 0
                               ELSE LET x == CHOOSE x \in T : TRUE IN x.owned + g[T \ {x}]]
                        <=> Summing(g, f, R)
      BY <1>5
    <2> DEFINE Theirs(T) == IF T = {} THEN 0
                            ELSE LET x == CHOOSE x \in T : TRUE IN x.owned + g[T \ {x}]
               Ours(T) == IF T = {} THEN 0 ELSE LET x == CHOOSE x \in T : TRUE IN f[x] + g[T \ {x}]
    <2>1. ASSUME NEW T \in SUBSET R PROVE Theirs(T) = Ours(T)
      <3>1. CASE T = {}
        BY <3>1
      <3>2. CASE T # {}
        <4>1. PICK x : x = CHOOSE y \in T : TRUE
          OBVIOUS
        <4>2. x \in R
          BY <3>2, <4>1
        <4> QED
          BY <1>4, <3>2, <4>1, <4>2
      <3> QED
        BY <3>1, <3>2
    <2> HIDE DEF Theirs, Ours
    <2>2. [T \in SUBSET R |-> Theirs(T)] = [T \in SUBSET R |-> Ours(T)]
      BY <2>1
    <2> QED
      BY <2>2, Zenon DEF Theirs, Ours, Summing
  <1>7. MapThenSumSet(LAMBDA x : x.owned, R) = h[R]
    BY <1>6, Zenon DEF MapThenSumSet, MapThenFoldSet
  <1> QED
    BY <1>3, <1>7
-----------------------------------------------------------------------------
\* The rows a function makes of a finite set are finite and, if it makes
\* different ones, as many.
LEMMA RowsOf ==
  ASSUME NEW T, IsFiniteSet(T), NEW f
  PROVE  /\ IsFiniteSet({f[x] : x \in T})
         /\ (\A x, y \in T : f[x] = f[y] => x = y) => Cardinality({f[x] : x \in T}) = Cardinality(T)
  <1> DEFINE R == {f[x] : x \in T}
             F == [x \in T |-> f[x]]
  <1>1. F \in Surjection(T, R)
    BY DEF Surjection
  <1>2. (\A x, y \in T : f[x] = f[y] => x = y) => F \in Injection(T, R)
    BY DEF Injection, IsInjective
  <1> HIDE DEF F, R
  <1>3. IsFiniteSet(R) /\ (Cardinality(R) = Cardinality(T) <=> F \in Injection(T, R))
    BY <1>1, FS_Surjection
  <1> QED
    BY <1>2, <1>3 DEF R

\* The stickers by what the collection has of them.
MissingOf(d, c)    == {s \in Stickers(d, c) : d.quantity[c][s] = 0}
DuplicatesOf(d, c) == {s \in Stickers(d, c) : d.quantity[c][s] > 1}
OwnedOf(d, c)      == {s \in Stickers(d, c) : d.quantity[c][s] > 0}

\* A collection has finitely many stickers, each in a quantity.
LEMMA CollectionIs ==
  ASSUME NEW d \in Tables, NEW c \in Collector, HasCollection(d, c)
  PROVE  /\ Stickers(d, c) \subseteq Sticker /\ IsFiniteSet(Stickers(d, c))
         /\ \A s \in Sticker : d.quantity[c][s] \in Nat
  BY TablesAre, TradeAssumption, FS_Subset DEF Stickers, HasCollection

\* The rows of the CSV lists.
MissingRow(d, c, s) == [sticker |-> s, section |-> SectionOf[d.revision[c]][s]]
DuplicateRow(d, c, s) ==
  [sticker |-> s, section |-> SectionOf[d.revision[c]][s],
   quantity |-> d.quantity[c][s], spare |-> d.quantity[c][s] - 1]
LEMMA CsvIs ==
  ASSUME NEW d \in Tables, NEW c \in Collector, HasCollection(d, c)
  PROVE  /\ Csv(d, c, "missing") = {MissingRow(d, c, s) : s \in MissingOf(d, c)}
         /\ Csv(d, c, "duplicates") = {DuplicateRow(d, c, s) : s \in DuplicatesOf(d, c)}
  <1> DEFINE Row(s) == [sticker |-> s, section |-> SectionOf[d.revision[c]][s],
                        quantity |-> d.quantity[c][s], spare |-> Max({0, d.quantity[c][s] - 1})]
  <1>1. \A kind : List(d, c, kind) =
          {Row(s) : s \in {t \in Stickers(d, c) : Listed(kind, d.quantity[c][t])}}
    BY DEF List
  <1>2. \A s \in Stickers(d, c) : Line("missing", Row(s)) = MissingRow(d, c, s)
    BY DEF Line, MissingRow
  <1>3. \A s \in DuplicatesOf(d, c) : Line("duplicates", Row(s)) = DuplicateRow(d, c, s)
    <2> SUFFICES ASSUME NEW s \in DuplicatesOf(d, c)
                 PROVE  Line("duplicates", Row(s)) = DuplicateRow(d, c, s)
      OBVIOUS
    <2>1. d.quantity[c][s] \in Nat /\ d.quantity[c][s] > 1
      BY CollectionIs DEF DuplicatesOf
    <2>2. Max({0, d.quantity[c][s] - 1}) = d.quantity[c][s] - 1
      BY <2>1, MaxIs
    <2> QED
      BY <2>2 DEF Line, DuplicateRow
  <1>4. {t \in Stickers(d, c) : Listed("missing", d.quantity[c][t])} = MissingOf(d, c)
    BY DEF Listed, MissingOf
  <1>5. {t \in Stickers(d, c) : Listed("duplicates", d.quantity[c][t])} = DuplicatesOf(d, c)
    BY DEF Listed, DuplicatesOf
  <1> HIDE DEF Row
  <1>6. /\ Csv(d, c, "missing") = {Line("missing", row) : row \in {Row(s) : s \in MissingOf(d, c)}}
        /\ Csv(d, c, "duplicates") = {Line("duplicates", row) : row \in {Row(s) : s \in DuplicatesOf(d, c)}}
    BY <1>1, <1>4, <1>5 DEF Csv
  <1>7. /\ Csv(d, c, "missing") = {Line("missing", Row(s)) : s \in MissingOf(d, c)}
        /\ Csv(d, c, "duplicates") = {Line("duplicates", Row(s)) : s \in DuplicatesOf(d, c)}
    BY <1>6
  <1>8. MissingOf(d, c) \subseteq Stickers(d, c)
    BY DEF MissingOf
  <1> QED
    BY <1>2, <1>3, <1>7, <1>8

\* What the lists name and how much they have.
LEMMA MissingIs ==
  ASSUME NEW d \in Tables, NEW c \in Collector, HasCollection(d, c)
  PROVE  /\ OwnSticker(Csv(d, c, "missing")) = MissingOf(d, c)
         /\ Cardinality(Csv(d, c, "missing")) = Cardinality(MissingOf(d, c))
  <1> DEFINE T == MissingOf(d, c)
             f == [s \in T |-> MissingRow(d, c, s)]
  <1>1. IsFiniteSet(T)
    BY CollectionIs, FS_Subset DEF MissingOf
  <1>2. \A s \in T : f[s].sticker = s
    BY DEF MissingRow
  <1>3. Csv(d, c, "missing") = {f[s] : s \in T}
    BY CsvIs
  <1> HIDE DEF T, f
  <1>4. \A x, y \in T : f[x] = f[y] => x = y
    BY <1>2
  <1>5. Cardinality({f[s] : s \in T}) = Cardinality(T)
    BY <1>1, <1>4, RowsOf
  <1>6. {r.sticker : r \in {f[s] : s \in T}} = T
    <2>1. {r.sticker : r \in {f[s] : s \in T}} = {f[s].sticker : s \in T}
      OBVIOUS
    <2>2. {f[s].sticker : s \in T} = T
      BY <1>2
    <2> QED
      BY <2>1, <2>2
  <1> QED
    BY <1>3, <1>5, <1>6 DEF OwnSticker, T

\* The list of duplicates has the surplus of the collection.
LEMMA DuplicatesAre ==
  ASSUME NEW d \in Tables, NEW c \in Collector, HasCollection(d, c)
  PROVE  /\ OwnSticker(Csv(d, c, "duplicates")) = DuplicatesOf(d, c)
         /\ Spares(Csv(d, c, "duplicates")) = Cardinality(Surplus(Stickers(d, c), d.quantity[c]))
         /\ \A s \in DuplicatesOf(d, c) : \E row \in Csv(d, c, "duplicates") :
              row.sticker = s /\ row.spare = d.quantity[c][s] - 1
  <1> DEFINE T == DuplicatesOf(d, c)
             q == d.quantity[c]
             f == [s \in T |-> DuplicateRow(d, c, s)]
             R == {f[s] : s \in T}
  <1>1. IsFiniteSet(T) /\ T = {s \in Stickers(d, c) : q[s] > 1} /\ \A s \in Stickers(d, c) : q[s] \in Nat
    BY CollectionIs, FS_Subset DEF DuplicatesOf
  <1>2. \A s \in T : f[s].sticker = s /\ f[s].spare = q[s] - 1
    BY DEF DuplicateRow
  <1>3. Csv(d, c, "duplicates") = R
    BY CsvIs
  <1> HIDE DEF T, f, q
  <1>4. IsFiniteSet(R)
    BY <1>1, RowsOf
  <1>5. /\ \A r \in R : r.sticker \in T /\ r.spare = q[r.sticker] - 1 /\ r = f[r.sticker]
        /\ \A s \in T : \E r \in R : r.sticker = s
    BY <1>2
  <1> HIDE DEF R
  <1>6. {r.sticker : r \in R} = T
    BY <1>5
  <1>7. \A r \in R : r.spare \in Nat
    BY <1>1, <1>5
  <1>8. \A r, t \in R : r.sticker = t.sticker => r = t
    BY <1>5
  <1>9. Spares(R) = Cardinality(UNION {{r.sticker} \X (1..r.spare) : r \in R})
    BY <1>4, <1>7, <1>8, SparesAre
  <1>10. UNION {{r.sticker} \X (1..r.spare) : r \in R} = Surplus(Stickers(d, c), q)
    <2>1. ASSUME NEW p \in UNION {{r.sticker} \X (1..r.spare) : r \in R}
          PROVE  p \in Surplus(Stickers(d, c), q)
      <3>1. PICK r \in R : p \in {r.sticker} \X (1..r.spare)
        BY <2>1
      <3>2. r.sticker \in Stickers(d, c) /\ p \in {r.sticker} \X (1..(q[r.sticker] - 1))
        BY <1>1, <1>5, <3>1
      <3> QED
        BY <3>2 DEF Surplus
    <2>2. ASSUME NEW p \in Surplus(Stickers(d, c), q)
          PROVE  p \in UNION {{r.sticker} \X (1..r.spare) : r \in R}
      <3>1. PICK s \in Stickers(d, c) : p \in {s} \X (1..(q[s] - 1))
        BY <2>2 DEF Surplus
      <3>2. q[s] > 1
        <4>1. q[s] \in Nat /\ \E k \in 1..(q[s] - 1) : TRUE
          BY <1>1, <3>1
        <4> QED
          BY <4>1
      <3>3. PICK r \in R : r.sticker = s
        BY <1>1, <1>5, <3>2
      <3>4. p \in {r.sticker} \X (1..r.spare)
        BY <1>5, <3>1, <3>3
      <3> QED
        BY <3>4
    <2> QED
      BY <2>1, <2>2
  <1>11. \A s \in T : \E row \in R : row.sticker = s /\ row.spare = q[s] - 1
    BY <1>5
  <1>12. OwnSticker(R) = T
    BY <1>6 DEF OwnSticker
  <1> QED
    BY <1>3, <1>9, <1>10, <1>11, <1>12 DEF T, q

\* What the view shows of a collection adds up.
LEMMA ProgressIs ==
  ASSUME NEW d \in Tables, NEW c \in Collector, HasCollection(d, c)
  PROVE  /\ Progress(d, c).owned = Cardinality(OwnedOf(d, c))
         /\ Progress(d, c).missing = Cardinality(MissingOf(d, c))
         /\ Progress(d, c).total = Cardinality(Stickers(d, c))
         /\ Progress(d, c).duplicates = Cardinality(Surplus(Stickers(d, c), d.quantity[c]))
         /\ Overview(d, c) = [owned |-> Progress(d, c).owned, duplicates |-> Progress(d, c).duplicates,
                              total |-> Progress(d, c).total]
         /\ MapThenSumSet(LAMBDA x : x.owned, Progress(d, c).sections) = Cardinality(OwnedOf(d, c))
  <1> DEFINE S == Stickers(d, c)
             Q == OwnedOf(d, c)
             sec == SectionOf[d.revision[c]]
             Row(x) == [id |-> x, total |-> Cardinality({s \in S : sec[s] = x}),
                        owned |-> Cardinality({s \in {t \in S : sec[t] = x} : d.quantity[c][s] > 0})]
  <1>1. IsFiniteSet(S) /\ \A s \in S : d.quantity[c][s] \in Nat
    BY CollectionIs
  <1>2. Progress(d, c).owned = Cardinality(Q) /\ Progress(d, c).total = Cardinality(S)
    BY DEF Progress, OwnedOf
  <1>3. Progress(d, c).missing = Cardinality(MissingOf(d, c))
    <2>1. Progress(d, c).missing = Cardinality(S) - Cardinality(Q)
      BY DEF Progress, OwnedOf
    <2>2. MissingOf(d, c) = S \ Q /\ S \cap Q = Q
      BY <1>1 DEF MissingOf, OwnedOf
    <2>3. IsFiniteSet(Q) /\ IsFiniteSet(S \ Q)
      BY <1>1, FS_Subset DEF OwnedOf
    <2>4. Cardinality(S) \in Nat /\ Cardinality(Q) \in Nat
      BY <1>1, <2>3, FS_CardinalityType
    <2> HIDE DEF S, Q
    <2>5. Cardinality(S \ Q) = Cardinality(S) - Cardinality(S \cap Q)
      BY <1>1, FS_Difference
    <2> QED
      BY <2>1, <2>2, <2>4, <2>5
  <1>4. Overview(d, c) = [owned |-> Progress(d, c).owned, duplicates |-> Progress(d, c).duplicates,
                          total |-> Progress(d, c).total]
    <2>1. Overview(d, c) = [owned |-> Cardinality(Q), duplicates |-> Overview(d, c).duplicates,
                            total |-> Cardinality(S)]
      BY DEF Overview, OwnedOf
    <2>2. Overview(d, c).duplicates = Progress(d, c).duplicates
      BY OverviewIs
    <2> QED
      BY <1>2, <2>1, <2>2
  <1>5. Progress(d, c).sections = {Row(x) : x \in SectionsOf(d, c)}
    BY DEF Progress
  <1>6. \A x : Row(x).id = x /\ Row(x).owned = Cardinality({s \in Q : sec[s] = x})
    <2> SUFFICES ASSUME NEW x PROVE Row(x).id = x /\ Row(x).owned = Cardinality({s \in Q : sec[s] = x})
      OBVIOUS
    <2>1. {s \in {t \in S : sec[t] = x} : d.quantity[c][s] > 0} = {s \in Q : sec[s] = x}
      BY DEF OwnedOf
    <2> QED
      BY <2>1
  <1>7. SectionsOf(d, c) = {sec[s] : s \in S}
    BY DEF SectionsOf
  <1>8. Q \subseteq S
    BY DEF OwnedOf
  <1> DEFINE R == {Row(x) : x \in {sec[s] : s \in S}}
  <1> HIDE DEF S, Q, sec, Row
  <1>9. IsFiniteSet(R)
    <2> DEFINE f == [s \in S |-> Row(sec[s])]
    <2>1. R = {f[s] : s \in S}
      OBVIOUS
    <2> HIDE DEF f
    <2>2. IsFiniteSet({f[s] : s \in S})
      BY <1>1, RowsOf
    <2> QED
      BY <2>1, <2>2
  <1>10. /\ \A x, y \in R : x.id = y.id => x = y
         /\ \A x \in R : x.owned = Cardinality({s \in Q : sec[s] = x.id})
         /\ \A s \in S : \E x \in R : x.id = sec[s]
    BY <1>6
  <1>11. Progress(d, c).sections = R
    BY <1>5, <1>7
  <1> HIDE DEF R
  <1>12. MapThenSumSet(LAMBDA x : x.owned, R) = Cardinality(Q)
    BY <1>1, <1>8, <1>9, <1>10, SectionsAddUp
  <1>13. MapThenSumSet(LAMBDA x : x.owned, Progress(d, c).sections) = Cardinality(Q)
    BY <1>11, <1>12
  <1> QED
    BY <1>2, <1>3, <1>4, <1>13, OverviewIs DEF S, Q
-----------------------------------------------------------------------------
\* A direct comparison lists what either misses and the other has to spare.
OfferedOf(d, c, p) ==
  {s \in Stickers(d, c) \cap Stickers(d, p) : d.quantity[c][s] = 0 /\ d.quantity[p][s] > 1}
LEMMA ComparisonIs ==
  ASSUME NEW d \in Tables, WellFormed(d), NEW c \in Collector, HasCollection(d, c),
         NEW p \in Collector, HasCollection(d, p)
  PROVE  /\ Comparison(d, c, p).offersToYou =
              {[sticker |-> s, spare |-> d.quantity[p][s] - 1] : s \in OfferedOf(d, c, p)}
         /\ Comparison(d, c, p).needsFromYou =
              {[sticker |-> s, spare |-> d.quantity[c][s] - 1] : s \in OfferedOf(d, p, c)}
         /\ (Comparison(d, c, p).kind = "none") = (Compared(d, c, p) = {})
  <1> DEFINE rows   == Compared(d, c, p)
             offers == {s \in rows : d.quantity[c][s] = 0 /\ d.quantity[p][s] > 1}
             needs  == {s \in rows \ offers : d.quantity[c][s] > 1 /\ d.quantity[p][s] = 0}
  <1>1. offers = OfferedOf(d, c, p)
    BY DEF Compared, OfferedOf
  <1>2. needs = OfferedOf(d, p, c)
    BY CollectionIs DEF Compared, OfferedOf
  <1>3. rows = offers \cup needs
    BY <1>1, <1>2 DEF Compared, OfferedOf
  <1>4. /\ Comparison(d, c, p).offersToYou = {[sticker |-> s, spare |-> d.quantity[p][s] - 1] : s \in offers}
        /\ Comparison(d, c, p).needsFromYou = {[sticker |-> s, spare |-> d.quantity[c][s] - 1] : s \in needs}
        /\ Comparison(d, c, p).kind = CASE offers # {} /\ needs # {} -> "two-way"
                                         [] offers = {} /\ needs = {} -> "none"
                                         [] OTHER                     -> "one-way"
    BY DEF Comparison
  <1> HIDE DEF rows, offers, needs
  <1>5. (Comparison(d, c, p).kind = "none") = (rows = {})
    <2>1. CASE offers # {} /\ needs # {}
      BY <1>3, <1>4, <2>1
    <2>2. CASE offers = {} /\ needs = {}
      BY <1>3, <1>4, <2>2
    <2>3. CASE (offers = {}) # (needs = {})
      BY <1>3, <1>4, <2>3
    <2> QED
      BY <2>1, <2>2, <2>3
  <1> QED
    BY <1>1, <1>2, <1>4, <1>5 DEF rows

\* The two lists of a match are these.
LEMMA MatchLists ==
  ASSUME NEW d \in Tables, WellFormed(d), NEW c \in Collector, HasCollection(d, c),
         NEW p \in Collector, HasCollection(d, p)
  PROVE  /\ Offers(d, Ask(c), p) =
              {[sticker |-> s, spare |-> d.quantity[p][s] - 1] : s \in OfferedOf(d, c, p)}
         /\ Needs(d, Ask(c), p) =
              {[sticker |-> s, spare |-> d.quantity[c][s] - 1] : s \in OfferedOf(d, p, c)}
  <1>1. Ask(c).viewer = c /\ Ask(c).section = AnySection
    BY AskIs
  <1>2. /\ Stickers(d, c) \subseteq Sticker /\ Stickers(d, p) \subseteq Sticker
        /\ \A s \in Sticker : d.quantity[c][s] \in Nat /\ d.quantity[p][s] \in Nat
    BY CollectionIs
  <1>3. {t \in Missing(d, Ask(c)) \cap StickersOf[d.revision[p]] : d.quantity[p][t] > 1} = OfferedOf(d, c, p)
    BY <1>1, <1>2 DEF Missing, OwnerCandidates, InSection, OfferedOf, Stickers
  <1>4. {t \in Duplicates(d, Ask(c)) \cap StickersOf[d.revision[p]] : d.quantity[p][t] = 0} = OfferedOf(d, p, c)
    BY <1>1, <1>2 DEF Duplicates, OwnerCandidates, InSection, OfferedOf, Stickers
  <1> QED
    BY <1>1, <1>3, <1>4 DEF Offers, Needs

\* A comparison, a match and the lists of the two collections agree.
LEMMA ComparisonsAgree ==
  ASSUME NEW d \in Tables, WellFormed(d), NEW c \in Collector, HasCollection(d, c),
         NEW p \in Collector, HasCollection(d, p)
  PROVE  /\ Comparison(d, c, p).offersToYou = Offers(d, Ask(c), p)
         /\ Comparison(d, c, p).needsFromYou = Needs(d, Ask(c), p)
         /\ (Comparison(d, c, p).kind = "none") = (Compared(d, c, p) = {})
         /\ \A line \in Comparison(d, c, p).offersToYou :
              /\ line.sticker \in OwnSticker(Csv(d, c, "missing"))
              /\ \E row \in Csv(d, p, "duplicates") :
                   row.sticker = line.sticker /\ row.spare = line.spare
  <1>1. /\ Comparison(d, c, p).offersToYou = Offers(d, Ask(c), p)
        /\ Comparison(d, c, p).needsFromYou = Needs(d, Ask(c), p)
        /\ (Comparison(d, c, p).kind = "none") = (Compared(d, c, p) = {})
    <2> DEFINE given == {[sticker |-> s, spare |-> d.quantity[p][s] - 1] : s \in OfferedOf(d, c, p)}
               taken == {[sticker |-> s, spare |-> d.quantity[c][s] - 1] : s \in OfferedOf(d, p, c)}
    <2>1. /\ Comparison(d, c, p).offersToYou = given /\ Comparison(d, c, p).needsFromYou = taken
          /\ (Comparison(d, c, p).kind = "none") = (Compared(d, c, p) = {})
      BY ComparisonIs
    <2>2. Offers(d, Ask(c), p) = given /\ Needs(d, Ask(c), p) = taken
      BY MatchLists
    <2> HIDE DEF given, taken
    <2> QED
      BY <2>1, <2>2
  <1>2. ASSUME NEW line \in Comparison(d, c, p).offersToYou
        PROVE  /\ line.sticker \in OwnSticker(Csv(d, c, "missing"))
               /\ \E row \in Csv(d, p, "duplicates") :
                    row.sticker = line.sticker /\ row.spare = line.spare
    <2>1. PICK s \in OfferedOf(d, c, p) : line = [sticker |-> s, spare |-> d.quantity[p][s] - 1]
      BY <1>2, ComparisonIs
    <2>2. s \in MissingOf(d, c) /\ s \in DuplicatesOf(d, p)
      BY DEF OfferedOf, MissingOf, DuplicatesOf
    <2>3. line.sticker = s /\ line.spare = d.quantity[p][s] - 1
      BY <2>1
    <2>4. OwnSticker(Csv(d, c, "missing")) = MissingOf(d, c)
      BY MissingIs
    <2>5. \E row \in Csv(d, p, "duplicates") : row.sticker = s /\ row.spare = d.quantity[p][s] - 1
      BY <2>2, DuplicatesAre
    <2> QED
      BY <2>2, <2>3, <2>4, <2>5
  <1> QED
    BY <1>1, <1>2

\* The queries and the view agree about every collection.
LEMMA ListsAgreeHolds == ASSUME tables \in Tables, WellFormed(tables) PROVE ListsAgree
  <1>1. ASSUME NEW c \in Collector, HasCollection(tables, c)
        PROVE  /\ OwnSticker(Csv(tables, c, "missing")) = Shown(tables, c, AnySection, "missing")
               /\ OwnSticker(Csv(tables, c, "duplicates")) = Shown(tables, c, AnySection, "duplicates")
               /\ Spares(Csv(tables, c, "duplicates")) = Progress(tables, c).duplicates
               /\ Cardinality(Csv(tables, c, "missing")) = Progress(tables, c).missing
               /\ Overview(tables, c) =
                    [owned |-> Progress(tables, c).owned, duplicates |-> Progress(tables, c).duplicates,
                     total |-> Progress(tables, c).total]
               /\ MapThenSumSet(LAMBDA x : x.owned, Progress(tables, c).sections) =
                    Progress(tables, c).owned
    <2>1. /\ Shown(tables, c, AnySection, "missing") = MissingOf(tables, c)
          /\ Shown(tables, c, AnySection, "duplicates") = DuplicatesOf(tables, c)
      BY DEF Shown, MissingOf, DuplicatesOf
    <2>2. MapThenSumSet(LAMBDA x : x.owned, Progress(tables, c).sections) = Progress(tables, c).owned
      BY <1>1, ProgressIs
    <2> QED
      BY <1>1, <2>1, <2>2, MissingIs, DuplicatesAre, ProgressIs
  <1>2. ASSUME NEW c \in Collector, HasCollection(tables, c),
               NEW p \in Collector \ {c}, HasCollection(tables, p)
        PROVE  /\ Comparison(tables, c, p).offersToYou = Offers(tables, Ask(c), p)
               /\ Comparison(tables, c, p).needsFromYou = Needs(tables, Ask(c), p)
               /\ (Comparison(tables, c, p).kind = "none") = (Compared(tables, c, p) = {})
               /\ \A line \in Comparison(tables, c, p).offersToYou :
                    /\ line.sticker \in OwnSticker(Csv(tables, c, "missing"))
                    /\ \E row \in Csv(tables, p, "duplicates") :
                         row.sticker = line.sticker /\ row.spare = line.spare
    BY <1>2, ComparisonsAgree
  <1> QED
    BY <1>1, <1>2 DEF ListsAgree

\* Whatever collectors change, the queries and the view say the same of a
\* collection, and its lists add up.
THEOREM ListsAlwaysAgree == ExportSpec => []ListsAgree
  <1>1. EInv => ListsAgree
    BY ListsAgreeHolds DEF EInv, IInv, TypeInv, TypeOK
  <1> QED
    BY <1>1, DownloadsInvariant, PTL
-----------------------------------------------------------------------------
(* Why requests for matches end.                                           *)

\* The steps that a request may still take, redirects included: five for each
\* page number that it could be sent back to.
Place ==
  CASE phase = "opened"     -> 5
    [] phase = "resolved"   -> 4
    [] phase = "visible"    -> 3
    [] phase = "summarised" -> 2
    [] phase = "answered"   -> 1
    [] OTHER                -> 0
StepsLeft == IF Place = 0 \/ (phase = "answered" /\ ~IsPage(query)) THEN 0 ELSE 5 * Page(query) + Place

\* The page a query was made for.
LEMMA PageOfToPage ==
  ASSUME NEW q \in Query, NEW p \in Nat, p >= 1
  PROVE  Page(ToPage(q, p)) = p
  <1> DEFINE n == (p - 1) * PageSize
             k == n \div PageSize
             m == p - 1
  <1>1. m \in Nat /\ n \in Nat /\ n = PageSize * m
    BY PageSizeType
  <1>2. k \in Nat /\ PageSize * k <= n /\ n < PageSize * k + PageSize
    BY <1>1, PageSizeType, Division
  <1>3. ToPage(q, p).offset = n
    BY DEF ToPage, Query
  <1> HIDE DEF n, k, m
  <1>4. k = m
    <2>1. PageSize * k + PageSize = PageSize * (k + 1) /\ PageSize * k \in Int /\ PageSize * m \in Int
      BY <1>1, <1>2, PageSizeType
    <2>2. ~(k < m)
      <3> SUFFICES ASSUME k < m PROVE FALSE
        OBVIOUS
      <3>1. PageSize * (k + 1) <= PageSize * m
        BY <1>1, <1>2, PageSizeType
      <3> QED
        BY <1>1, <1>2, <2>1, <3>1, PageSizeType
    <2>3. ~(m < k)
      <3> SUFFICES ASSUME m < k PROVE FALSE
        OBVIOUS
      <3>1. PageSize * (m + 1) <= PageSize * k /\ PageSize * (m + 1) = PageSize * m + PageSize
        BY <1>1, <1>2, PageSizeType
      <3> QED
        BY <1>1, <1>2, <2>1, <3>1, PageSizeType
    <2> QED
      BY <1>1, <1>2, <2>2, <2>3
  <1> QED
    BY <1>3, <1>4 DEF Page, n, k, m

\* A step of the server leaves fewer steps: it goes on, or back to a lower page.
LEMMA ServeLeavesFewer ==
  ASSUME IInv, Serve
  PROVE  StepsLeft \in Nat /\ StepsLeft' \in Nat /\ StepsLeft' < StepsLeft
  <1>1. query \in Query /\ Page(query) \in Nat /\ Page(query) >= 1
    BY PageType DEF IInv, TypeInv, TypeOK
  <1>2. ASSUME UNCHANGED query, Place \in Nat, Place' \in Nat, Place' < Place,
               phase = "answered" => IsPage(query)
        PROVE  StepsLeft \in Nat /\ StepsLeft' \in Nat /\ StepsLeft' < StepsLeft
    <2>1. UNCHANGED <<Page(query), IsPage(query)>>
      BY <1>2 DEF Page, IsPage
    <2>2. StepsLeft = 5 * Page(query) + Place
      BY <1>2 DEF StepsLeft
    <2>3. StepsLeft' = 0 \/ StepsLeft' = 5 * Page(query) + Place'
      BY <2>1 DEF StepsLeft
    <2> QED
      BY <1>1, <1>2, <2>2, <2>3
  <1>3. ASSUME ResolveViewer \/ ReadOwner \/ ReadSummary \/ ReadDetails
        PROVE  StepsLeft \in Nat /\ StepsLeft' \in Nat /\ StepsLeft' < StepsLeft
    <2>1. UNCHANGED query /\ phase # "answered"
      BY <1>3 DEF ResolveViewer, ReadOwner, ReadSummary, ReadDetails, Answered
    <2>2. Place \in Nat /\ Place' \in Nat /\ Place' < Place
      <3>1. CASE ResolveViewer
        BY <3>1 DEF ResolveViewer, Place
      <3>2. CASE ReadOwner
        BY <3>2 DEF ReadOwner, Place
      <3>3. CASE ReadSummary
        BY <3>3 DEF ReadSummary, Place
      <3>4. CASE ReadDetails
        BY <3>4 DEF ReadDetails, Answered, Place
      <3> QED
        BY <1>3, <3>1, <3>2, <3>3, <3>4
    <2> QED
      BY <1>2, <2>1, <2>2
  <1>4. CASE Render /\ ~(answer.total > 0 /\ Page(query) > LastPage(answer.total))
    <2>1. UNCHANGED query /\ phase = "answered" /\ phase' = "shown" /\ IsPage(query)
      BY <1>4 DEF Render
    <2> QED
      BY <1>2, <2>1 DEF Place
  <1>5. CASE Render /\ answer.total > 0 /\ Page(query) > LastPage(answer.total)
    <2> DEFINE p == LastPage(answer.total)
    <2>1. phase = "answered" /\ IsPage(query) /\ phase' = "opened" /\ query' = ToPage(query, p)
      BY <1>5 DEF Render, Begin, Clamped
    <2>2. p \in Nat /\ p >= 1 /\ p < Page(query)
      BY <1>1, <1>5, <2>1, AnswerTotal, TotalPagesIs DEF LastPage
    <2> HIDE DEF p
    <2>3. Page(query') = p
      BY <1>1, <2>1, <2>2, PageOfToPage
    <2>4. StepsLeft = 5 * Page(query) + 1 /\ StepsLeft' = 5 * p + 5
      BY <2>1, <2>3 DEF StepsLeft, Place
    <2> QED
      BY <1>1, <2>2, <2>4
  <1> QED
    BY <1>3, <1>4, <1>5 DEF Serve

\* Nobody else gives a request under way another step.
LEMMA NobodyAdds ==
  ASSUME EInv, [ExportNext]_all, ~Served
  PROVE  StepsLeft' = StepsLeft \/ StepsLeft = 0
  <1>1. ASSUME UNCHANGED <<phase, query>> PROVE StepsLeft' = StepsLeft
    BY <1>1 DEF StepsLeft, Place, IsPage, Page
  <1>2. ASSUME Open \/ ChangeFilter \/ TurnPage \/ Leave PROVE StepsLeft = 0
    BY <1>2 DEF Open, ChangeFilter, TurnPage, Leave, Matching, StepsLeft, Place
  <1>3. ASSUME NEW c \in Collector, Writer(c) PROVE UNCHANGED <<phase, query>>
    BY <1>3 DEF Writer, SetQuantity, RemoveCollection, CreateCollection, SetStatus, Quiet
  <1>4. ASSUME NEW c \in FormOwner, PreferenceForm(c) PROVE UNCHANGED <<phase, query>>
    BY <1>4 DEF PreferenceForm, LoadForm, ShowForm, Update, SavePreference, Saved, NotSaved, Abandon,
                SaveLate, SetVisibility, Quiet, request
  <1>5. ASSUME NEW c \in Exporter, DeleteAccount(c) \/ ChangeAccess(c, "link") \/ ChangeAccess(c, "grant")
        PROVE  UNCHANGED <<phase, query>>
    BY <1>5 DEF DeleteAccount, ChangeAccess, Quiet, request
  <1>6. ASSUME (\E c \in Exporter, kind \in {"account"} \cup Kinds : Download(c, kind)) \/ FileStep
        PROVE  UNCHANGED <<phase, query>>
    <2>1. UNCHANGED vars
      BY <1>6 DEF Download, FileStep, Still, Identify, ReadAccount, ReadProfile, ReadCollections, ReadShareLinks,
                  ReadPreferences, ReadGrants, SaveAccount, ReadMeta, ReadRows, Break, Close, Statement
    <2> QED
      BY <2>1 DEF vars, request
  <1>7. ASSUME UNCHANGED all PROVE UNCHANGED <<phase, query>>
    BY <1>7 DEF all, vars, request
  <1> QED
    BY <1>1, <1>2, <1>3, <1>4, <1>5, <1>6, <1>7 DEF ExportNext, FileStep

\* What a page still has to do before it is shown, or answered with the login
\* page or not found, becomes less with each step of the server and is never
\* added to: redirects lead to lower pages only, however often the tables change
\* between them (src/app/albums/[collectionId]/trades/page.tsx).  PageSettles
\* needs nothing else but that the server goes on.
RequestsEnd ==
  [][/\ Served => StepsLeft \in Nat /\ StepsLeft' \in Nat /\ StepsLeft' < StepsLeft
     /\ StepsLeft > 0 /\ ~Served => StepsLeft' = StepsLeft]_all
THEOREM RedirectsEnd == ExportSpec => RequestsEnd
  <1>1. EInv /\ [ExportNext]_all =>
          [/\ Served => StepsLeft \in Nat /\ StepsLeft' \in Nat /\ StepsLeft' < StepsLeft
           /\ StepsLeft > 0 /\ ~Served => StepsLeft' = StepsLeft]_all
    <2> SUFFICES ASSUME EInv, [ExportNext]_all
                 PROVE  /\ Served => StepsLeft \in Nat /\ StepsLeft' \in Nat /\ StepsLeft' < StepsLeft
                        /\ StepsLeft > 0 /\ ~Served => StepsLeft' = StepsLeft
      OBVIOUS
    <2>1. Served => Serve
      BY DEF Served, Serve
    <2> QED
      BY <2>1, ServeLeavesFewer, NobodyAdds DEF EInv
  <1> QED
    BY <1>1, DownloadsInvariant, PTL DEF ExportSpec, RequestsEnd
=============================================================================
