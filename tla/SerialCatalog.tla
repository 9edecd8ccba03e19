---------------------------- MODULE SerialCatalog ----------------------------
(***************************************************************************)
(* What the album catalog promises, on its tables alone: a publication     *)
(* replaces the current revision of its album in one step, revisions only  *)
(* move forward, and a collection pins revisions that have been published. *)
(* Catalog.tla is the concurrent program; it is checked against            *)
(* SerialCatalogSpec.                                                      *)
(***************************************************************************)
CONSTANTS
  Album, Revision,
  AlbumOf,     \* the album_id column of each revision
  Collector,
  NoRevision   \* an album a collector has no collection of

VARIABLES
  status,      \* of each revision; "absent" has no row
  collection,  \* of each collector: album to the pinned revision
  onboarded    \* the collectors whose onboarding_completed_at is set

catalog == <<status, collection, onboarded>>

ASSUME CatalogAssumption ==
  /\ AlbumOf \in [Revision -> Album]
  /\ NoRevision \notin Revision

Revisions(a) == {x \in Revision : AlbumOf[x] = a}
Current(a)   == {x \in Revisions(a) : status[x] = "published"}
Pins         == {p \in [Album -> Revision \cup {NoRevision}] :
                   \A a \in Album : p[a] \in Revisions(a) \cup {NoRevision}}

CatalogInit ==
  /\ status = [x \in Revision |-> "absent"]
  /\ collection = [c \in Collector |-> [a \in Album |-> NoRevision]]
  /\ onboarded = {}

\* An import ends as a draft; a seed may publish, but replaces nothing.
Enter(x) ==
  /\ status[x] = "absent"
  /\ \/ status' = [status EXCEPT ![x] = "draft"]
     \/ Current(AlbumOf[x]) = {} /\ status' = [status EXCEPT ![x] = "published"]
  /\ UNCHANGED <<collection, onboarded>>

Publish(x) ==
  /\ status[x] = "draft"
  /\ status' = [y \in Revision |->
       IF y = x THEN "published"
       ELSE IF y \in Current(AlbumOf[x]) THEN "archived" ELSE status[y]]
  /\ UNCHANGED <<collection, onboarded>>

Archive(x) ==
  /\ status[x] = "published"
  /\ status' = [status EXCEPT ![x] = "archived"]
  /\ UNCHANGED <<collection, onboarded>>

Pin(c, pins) ==
  /\ \A a \in Album : pins[a] # NoRevision =>
       /\ collection[c][a] = NoRevision
       /\ status[pins[a]] \in {"published", "archived"}
  /\ collection' = [collection EXCEPT ![c] =
       [a \in Album |-> IF pins[a] # NoRevision THEN pins[a] ELSE @[a]]]
  /\ onboarded' \in {onboarded, onboarded \cup {c}}
  /\ UNCHANGED status

Unpin(c, a) ==
  /\ collection[c][a] # NoRevision
  /\ collection' = [collection EXCEPT ![c][a] = NoRevision]
  /\ UNCHANGED <<status, onboarded>>

CatalogNext ==
  \/ \E x \in Revision : Enter(x) \/ Publish(x) \/ Archive(x)
  \/ \E c \in Collector :
       \/ \E pins \in Pins : Pin(c, pins)
       \/ \E a \in Album : Unpin(c, a)

SerialCatalogSpec == CatalogInit /\ [][CatalogNext]_catalog
=============================================================================
