------------------------------ MODULE MCCatalog ------------------------------
EXTENDS Catalog, TLC

CONSTANTS a, b, a1, a2, a3, b1, c1, r1, r2

MCAlbum     == {a, b}
MCRevision  == {a1, a2, a3, b1}
MCAlbumOf   == [x \in MCRevision |-> IF x = b1 THEN b ELSE a]
MCCollector == {c1}
MCRequest   == {r1, r2}

\* Everything may happen to album a; the revision of album b is only seeded.
MCAsked ==
  [op : {"import", "seed", "publish", "archive"}, revision : MCRevision \ {b1}] \cup
  [op : {"seed"}, revision : {b1}] \cup
  [op : {"create"}, collector : MCCollector, albums : {{a}}] \cup
  [op : {"onboard"}, collector : MCCollector, albums : {{}, {a}, {a, b}}]

\* The revisions of album a are alike.
Symmetry == Permutations({a1, a2, a3}) \cup Permutations(MCRequest)
=============================================================================
