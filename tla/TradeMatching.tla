--------------------------- MODULE TradeMatching ---------------------------
(***************************************************************************)
(* What the tables say about possible trades of one album: the partner     *)
(* counts, their order and the sticker lines of                            *)
(* src/modules/trading/matching.ts, next to the repository's own reference *)
(* for them (load-test/scripts/reference-trade-matching.ts), which joins   *)
(* everything first and counts afterwards.                                 *)
(*                                                                         *)
(* The operators are functions of the tables d.  A quantity of 0 stands    *)
(* for a missing holdings row.  Display names and collector identifiers    *)
(* are numbers in their collation order; two names may be equal.           *)
(***************************************************************************)
EXTENDS Integers, FiniteSets, FiniteSetsExt, Functions, TLC

CONSTANTS
  Collector, Sticker, Section, Revision,
  NoCollection,   \* the revision of a collector without an active collection
  AnySection,     \* no section filter
  StickersOf,     \* album_revision_stickers: the stickers of each revision
  SectionOf,      \* their sections, by revision and sticker
  DisplayName,    \* the rank of each collector's display name, not unique
  Id,             \* the rank of each collector's identifier, unique
  MaximumQuantity,
  MaximumLimit    \* the largest page the server computes

ASSUME TradeAssumption ==
  /\ IsFiniteSet(Collector) /\ IsFiniteSet(Sticker)
  /\ NoCollection \notin Revision /\ AnySection \notin Section
  /\ StickersOf \in [Revision -> SUBSET Sticker]
  /\ SectionOf \in [Revision -> [Sticker -> Section]]
  /\ DisplayName \in [Collector -> Nat]
  /\ IsInjective(Id) /\ Id \in [Collector -> Nat]
  /\ MaximumQuantity \in Nat /\ MaximumLimit \in Nat \ {0}

Direction == {"all", "one-way", "two-way"}
Sort      == {"compatibility", "offered", "wanted", "name"}

Tables ==
  [active   : [Collector -> BOOLEAN],     \* "user".status = 'active'
   visible  : [Collector -> BOOLEAN],     \* trading_preferences.visible
   revision : [Collector -> Revision \cup {NoCollection}],
   quantity : [Collector -> [Sticker -> 0..MaximumQuantity]]]

Query == [viewer : Collector, direction : Direction, sort : Sort,
          section : Section \cup {AnySection}, limit : Int, offset : Nat]

HasCollection(d, c) == d.revision[c] # NoCollection

\* Holdings reference stickers of the collection's own revision only.
WellFormed(d) ==
  \A c \in Collector, s \in Sticker :
    d.quantity[c][s] > 0 => HasCollection(d, c) /\ s \in StickersOf[d.revision[c]]

Limit(q) == Min({MaximumLimit, Max({1, q.limit})})

InSection(d, q, s) ==
  q.section = AnySection \/ SectionOf[d.revision[q.viewer]][s] = q.section

OwnerCandidates(d, q) ==
  {s \in StickersOf[d.revision[q.viewer]] :
     InSection(d, q, s) /\ d.quantity[q.viewer][s] # 1}

VisiblePartners(d, q) ==
  {c \in Collector \ {q.viewer} : HasCollection(d, c) /\ d.visible[c] /\ d.active[c]}

Missing(d, q)    == {s \in OwnerCandidates(d, q) : d.quantity[q.viewer][s] = 0}
Duplicates(d, q) == {s \in OwnerCandidates(d, q) : d.quantity[q.viewer][s] > 1}

OfferedCount(d, q, c) == Cardinality({s \in Missing(d, q) : d.quantity[c][s] > 1})

\* The duplicates that exist in the partner's revision, less those the partner
\* holds; a slip would forget the second part.
WantedIgnoringHoldings(d, q, c) ==
  Cardinality(Duplicates(d, q) \cap StickersOf[d.revision[c]])
WantedCount(d, q, c) ==
    Cardinality(Duplicates(d, q) \cap StickersOf[d.revision[c]])
  - Cardinality({s \in Duplicates(d, q) : d.quantity[c][s] > 0})

Fits(q, row) ==
  /\ row.offered > 0 \/ row.wanted > 0
  /\ q.direction = "all" \/ (q.direction = "two-way") = (row.offered > 0 /\ row.wanted > 0)

Summary(d, q) ==
  {row \in {[partner |-> c, offered |-> OfferedCount(d, q, c), wanted |-> WantedCount(d, q, c)]
              : c \in VisiblePartners(d, q)} : Fits(q, row)}

TwoWay(row) == IF row.offered > 0 /\ row.wanted > 0 THEN 1 ELSE 0

\* The sort keys, largest first, but for the name.
Keys(sort, row) ==
  CASE sort = "compatibility" ->
         <<TwoWay(row), Min({row.offered, row.wanted}), row.offered + row.wanted>>
    [] sort = "offered" -> <<row.offered, 0, 0>>
    [] sort = "wanted"  -> <<row.wanted, 0, 0>>
    [] sort = "name"    -> <<0, 0, 0>>

NameOnly(a, b) == DisplayName[a.partner] < DisplayName[b.partner]
NameOrder(a, b) ==
  \/ DisplayName[a.partner] < DisplayName[b.partner]
  \/ DisplayName[a.partner] = DisplayName[b.partner] /\ Id[a.partner] < Id[b.partner]

Precedes(sort, a, b) ==
  LET x == Keys(sort, a)
      y == Keys(sort, b)
  IN  \/ \E k \in 1..3 : x[k] > y[k] /\ \A i \in 1..(k - 1) : x[i] = y[i]
      \/ x = y /\ NameOrder(a, b)

\* ORDER BY: any order of the rows in which none comes before one that precedes it.
Orders(sort, rows) ==
  {o \in [1..Cardinality(rows) -> rows] :
     /\ IsInjective(o)
     /\ \A i, j \in DOMAIN o : i < j => ~Precedes(sort, o[j], o[i])}

\* LIMIT and OFFSET
PageOf(q, o) ==
  [i \in 1..Min({Limit(q), Max({0, Cardinality(DOMAIN o) - q.offset})}) |-> o[q.offset + i]]

\* detailSql for one partner: the two lists of stickers with their spare copies.
Offers(d, q, c) ==
  {[sticker |-> s, spare |-> d.quantity[c][s] - 1] :
     s \in {t \in Missing(d, q) \cap StickersOf[d.revision[c]] : d.quantity[c][t] > 1}}
Needs(d, q, c) ==
  {[sticker |-> s, spare |-> d.quantity[q.viewer][s] - 1] :
     s \in {t \in Duplicates(d, q) \cap StickersOf[d.revision[c]] : d.quantity[c][t] = 0}}

\* Nothing when the partner is no longer visible to the statement.
Lines(d, q, c) ==
  IF HasCollection(d, q.viewer) /\ c \in VisiblePartners(d, q)
  THEN [offersToYou |-> Offers(d, q, c), needsFromYou |-> Needs(d, q, c)]
  ELSE [offersToYou |-> {}, needsFromYou |-> {}]

Match(d, q, row) ==
  LET lines == Lines(d, q, row.partner)
  IN  [partner |-> row.partner, offered |-> row.offered, wanted |-> row.wanted,
       offersToYou |-> lines.offersToYou, needsFromYou |-> lines.needsFromYou]

-----------------------------------------------------------------------------
(* The reference: one join of owner, partner and sticker, grouped after.   *)

Joins(d, q, c, s) ==
  /\ HasCollection(d, q.viewer) /\ s \in StickersOf[d.revision[q.viewer]]
  /\ c # q.viewer /\ HasCollection(d, c) /\ d.visible[c] /\ d.active[c]
  /\ s \in StickersOf[d.revision[c]]
  /\ InSection(d, q, s)
  /\ \/ d.quantity[q.viewer][s] = 0 /\ d.quantity[c][s] > 1
     \/ d.quantity[q.viewer][s] > 1 /\ d.quantity[c][s] = 0
ReferenceRows(d, q) == {r \in Collector \X Sticker : Joins(d, q, r[1], r[2])}

ReferenceMatch(d, q, c) ==
  LET mine   == {r[2] : r \in {x \in ReferenceRows(d, q) : x[1] = c}}
      offers == {s \in mine : d.quantity[q.viewer][s] = 0}
      needs  == mine \ offers
  IN  [partner |-> c, offered |-> Cardinality(offers), wanted |-> Cardinality(needs),
       offersToYou  |-> {[sticker |-> s, spare |-> d.quantity[c][s] - 1] : s \in offers},
       needsFromYou |-> {[sticker |-> s, spare |-> d.quantity[q.viewer][s] - 1] : s \in needs}]

Reference(d, q) ==
  {m \in {ReferenceMatch(d, q, r[1]) : r \in ReferenceRows(d, q)} :
     q.direction \in {"all", IF m.offered > 0 /\ m.wanted > 0 THEN "two-way" ELSE "one-way"}}

\* Where the reference sorts a match: the number of matches before it.
Rank(d, q, m) == Cardinality({x \in Reference(d, q) : Precedes(q.sort, x, m)})
ReferencePage(d, q) ==
  {m \in Reference(d, q) : Rank(d, q, m) \in q.offset..(q.offset + Limit(q) - 1)}
=============================================================================
