------------------------------- MODULE Catalog -------------------------------
(***************************************************************************)
(* Imports, publications and archivings of album revisions                 *)
(* (src/modules/catalog/repository.ts), and the collections pinned to them *)
(* by createCollection and completeOnboarding (src/modules/collections),   *)
(* statement by statement on PostgreSQL at READ COMMITTED.                 *)
(*                                                                         *)
(* A statement sees what was committed when it began, and its own writes;  *)
(* it waits for the rows and the unique index entries that other requests  *)
(* have written or locked, and then looks at the newest version.  The FOR  *)
(* KEY SHARE locks of foreign keys are left out: changing a status does    *)
(* not wait for them.  So are an import's waits for another import that    *)
(* inserts the same album or sticker.  The lifecycle triggers of migration *)
(* 000002 repeat the WHERE conditions; a template has sections and         *)
(* stickers, so their check for an empty revision passes.                  *)
(***************************************************************************)
EXTENDS SerialCatalog

CONSTANTS
  Request,    \* requests served at a time, each on its own database client
  NoRequest,  \* the holder of a free row lock
  NoJob,      \* what an idle request works on
  Asked       \* the jobs that clients ask for

RevisionJob == [op : {"import", "seed", "publish", "archive"}, revision : Revision]
CollectJob  == [op : {"create", "onboard"}, collector : Collector, albums : SUBSET Album]

ASSUME RequestAssumption ==
  /\ NoRequest \notin Request
  /\ NoJob \notin RevisionJob \cup CollectJob
  /\ Asked \subseteq RevisionJob \cup CollectJob

VARIABLES
  lock,     \* who has locked, or inserted without committing, each revision
  profile,  \* who has locked each collector's profile row
  pc,       \* where each request is
  job,      \* what it does
  found,    \* the revisions its last statement's snapshot selected
  retired,  \* the revisions it archives when it commits
  added     \* the collections it inserts when it commits

locks    == <<lock, profile>>
progress == <<pc, job, found, retired, added>>
vars     == <<catalog, locks, progress>>

Nothing == [a \in Album |-> NoRevision]

TypeOK ==
  /\ status \in [Revision -> {"absent", "draft", "published", "archived"}]
  /\ collection \in [Collector -> Pins]
  /\ onboarded \in SUBSET Collector
  /\ lock \in [Revision -> Request \cup {NoRequest}]
  /\ profile \in [Collector -> Request \cup {NoRequest}]
  /\ pc \in [Request -> {"idle", "started", "locked", "scanned", "ready", "written",
                         "collecting", "found", "inserting"}]
  /\ job \in [Request -> RevisionJob \cup CollectJob \cup {NoJob}]
  /\ found \in [Request -> SUBSET Revision]
  /\ retired \in [Request -> SUBSET Revision]
  /\ added \in [Request -> Pins]

Init ==
  /\ CatalogInit
  /\ lock = [x \in Revision |-> NoRequest]
  /\ profile = [c \in Collector |-> NoRequest]
  /\ pc = [r \in Request |-> "idle"]
  /\ job = [r \in Request |-> NoJob]
  /\ found = [r \in Request |-> {}]
  /\ retired = [r \in Request |-> {}]
  /\ added = [r \in Request |-> Nothing]

-----------------------------------------------------------------------------
Target(r) == job[r].revision
Owner(r)  == job[r].collector
Goto(r, place) == pc' = [pc EXCEPT ![r] = place]

\* COMMIT or ROLLBACK: the request ends and its locks are released.
Finish(r) ==
  /\ pc'      = [pc EXCEPT ![r] = "idle"]
  /\ job'     = [job EXCEPT ![r] = NoJob]
  /\ found'   = [found EXCEPT ![r] = {}]
  /\ retired' = [retired EXCEPT ![r] = {}]
  /\ added'   = [added EXCEPT ![r] = Nothing]
  /\ lock'    = [x \in Revision |-> IF lock[x] = r THEN NoRequest ELSE lock[x]]
  /\ profile' = [c \in Collector |-> IF profile[c] = r THEN NoRequest ELSE profile[c]]

Holder(x) == {lock[x]} \ {NoRequest}

\* Requests that have written, but not committed, a published row of album a.
Publishing(a) ==
  {q \in Request : pc[q] = "written" /\ job[q].op # "import" /\ AlbumOf[Target(q)] = a}

\* Committed entries of the unique index album_revisions_one_published that the
\* target of r runs into, and the requests that may yet remove or add one.
Rivals(r)     == Current(AlbumOf[Target(r)]) \ retired[r]
IndexWaits(r) ==
  {q \in Request \ {r} : q \in Publishing(AlbumOf[Target(r)]) \/ retired[q] \cap Rivals(r) # {}}
Duplicate(r)  == \E x \in Rivals(r) : \A q \in Request : x \notin retired[q]

\* The same for collections_one_active_album.
SlotWaits(r) ==
  {q \in Request \ {r} :
     /\ job[q] \in CollectJob /\ Owner(q) = Owner(r)
     /\ \E x \in found[r] : added[q][AlbumOf[x]] # NoRevision}

\* Whose end the running statement of r waits for.
WaitsFor(r) ==
  CASE pc[r] = "started" /\ job[r].op = "publish" ->
         IF status[Target(r)] # "absent" THEN Holder(Target(r)) ELSE {}
    [] pc[r] = "started" /\ job[r].op = "archive" ->
         IF status[Target(r)] = "published" THEN Holder(Target(r)) ELSE {}
    [] pc[r] = "started" /\ job[r].op \in {"import", "seed"} ->
         IF status[Target(r)] = "absent" THEN Holder(Target(r)) ELSE {}
    [] pc[r] = "started" /\ job[r].op = "onboard" -> {profile[Owner(r)]} \ {NoRequest}
    [] pc[r] = "scanned"   -> UNION {Holder(x) : x \in found[r]}
    [] pc[r] = "ready"     -> IF Duplicate(r) THEN {} ELSE IndexWaits(r)
    [] pc[r] = "inserting" -> SlotWaits(r)
    [] OTHER -> {}

At(r, place, ops) == pc[r] = place /\ job[r].op \in ops /\ WaitsFor(r) = {}

Begin(r, j) ==
  /\ pc[r] = "idle"
  /\ j.op = "create" => \E a \in Album : j.albums = {a}
  /\ job' = [job EXCEPT ![r] = j]
  /\ Goto(r, IF j.op = "create" THEN "collecting" ELSE "started")
  /\ UNCHANGED <<catalog, locks, found, retired, added>>

-----------------------------------------------------------------------------
(* Revisions.                                                              *)

\* insertTemplate: the revision and its content, seen by nobody else yet.
InsertTemplate(r) ==
  /\ At(r, "started", {"import", "seed"})
  /\ status[Target(r)] = "absent"
  /\ lock' = [lock EXCEPT ![Target(r)] = r]
  /\ Goto(r, IF job[r].op = "seed" THEN "ready" ELSE "written")
  /\ UNCHANGED <<catalog, profile, job, found, retired, added>>

\* publishRevisionAndArchiveCurrent, first statement: SELECT ... FOR UPDATE.
LockDraft(r) ==
  /\ At(r, "started", {"publish"})
  /\ status[Target(r)] = "draft"
  /\ lock' = [lock EXCEPT ![Target(r)] = r]
  /\ Goto(r, "locked")
  /\ UNCHANGED <<catalog, profile, job, found, retired, added>>

\* Second statement: its snapshot, then the row in it once it is free.  A row
\* that is not published any more stays locked but is not archived.
ScanCurrent(r) ==
  /\ At(r, "locked", {"publish"})
  /\ found' = [found EXCEPT ![r] = Current(AlbumOf[Target(r)])]
  /\ Goto(r, "scanned")
  /\ UNCHANGED <<catalog, locks, job, retired, added>>

\* A mutant: the UPDATE runs on the pool and commits at once.
ArchiveOnPool(r) ==
  /\ At(r, "scanned", {"publish"})
  /\ status' = [x \in Revision |->
       IF x \in found[r] /\ status[x] = "published" THEN "archived" ELSE status[x]]
  /\ Goto(r, "ready")
  /\ UNCHANGED <<collection, onboarded, locks, job, found, retired, added>>

ArchiveCurrent(r) ==
  /\ At(r, "scanned", {"publish"})
  /\ lock'    = [x \in Revision |-> IF x \in found[r] THEN r ELSE lock[x]]
  /\ retired' = [retired EXCEPT ![r] = {x \in found[r] : status[x] = "published"}]
  /\ Goto(r, "ready")
  /\ UNCHANGED <<catalog, profile, job, found, added>>

\* A mutant: no unique index.
PublishUnchecked(r) ==
  /\ At(r, "ready", {"publish", "seed"})
  /\ Goto(r, "written")
  /\ UNCHANGED <<catalog, locks, job, found, retired, added>>

\* publishRevision: the target is still the draft that was locked or inserted.
PublishTarget(r) ==
  /\ At(r, "ready", {"publish", "seed"})
  /\ Rivals(r) = {}
  /\ Goto(r, "written")
  /\ UNCHANGED <<catalog, locks, job, found, retired, added>>

CommitRevision(r) ==
  /\ At(r, "written", {"import", "seed", "publish"})
  /\ status' = [x \in Revision |->
       IF x = Target(r) THEN (IF job[r].op = "import" THEN "draft" ELSE "published")
       ELSE IF x \in retired[r] THEN "archived" ELSE status[x]]
  /\ Finish(r)
  /\ UNCHANGED <<collection, onboarded>>

ArchiveRevision(r) ==
  /\ At(r, "started", {"archive"})
  /\ Archive(Target(r))
  /\ Finish(r)

\* 404 or 409, a seed that finds its revision, or the unique index.
RefuseRevision(r) ==
  /\ \/ At(r, "started", {"import", "seed"}) /\ status[Target(r)] # "absent"
     \/ At(r, "started", {"publish"})        /\ status[Target(r)] # "draft"
     \/ At(r, "started", {"archive"})        /\ status[Target(r)] # "published"
     \/ At(r, "ready", {"publish", "seed"})  /\ Duplicate(r)
  /\ Finish(r)
  /\ UNCHANGED catalog

-----------------------------------------------------------------------------
(* Collections.                                                            *)

Todo(r) == {a \in job[r].albums : added[r][a] = NoRevision}

\* A mutant: onboarding no longer begins with an UPDATE of the profile.
StartUnlocked(r) ==
  /\ At(r, "started", {"onboard"})
  /\ Goto(r, "collecting")
  /\ UNCHANGED <<catalog, locks, job, found, retired, added>>

\* updateCollectorDisplayName locks the profile row.
StartOnboarding(r) ==
  /\ At(r, "started", {"onboard"})
  /\ profile' = [profile EXCEPT ![Owner(r)] = r]
  /\ Goto(r, "collecting")
  /\ UNCHANGED <<catalog, lock, job, found, retired, added>>

\* createCollection: INSERT ... SELECT, for the albums in any order.
FindCurrent(r, a) ==
  /\ At(r, "collecting", {"create", "onboard"})
  /\ a \in Todo(r)
  /\ Current(a) # {}
  /\ found' = [found EXCEPT ![r] = Current(a)]
  /\ Goto(r, "found")
  /\ UNCHANGED <<catalog, locks, job, retired, added>>

\* The trigger collections_revision_guard looks at the newest status.
PassTrigger(r) ==
  /\ At(r, "found", {"create", "onboard"})
  /\ \A x \in found[r] : status[x] = "published"
  /\ Goto(r, "inserting")
  /\ UNCHANGED <<catalog, locks, job, found, retired, added>>

\* A mutant: no unique index.
AlwaysInsertable(r) == TRUE

\* The unique index has no entry of the collector and the album.
Insertable(r) == \A x \in found[r] : collection[Owner(r)][AlbumOf[x]] = NoRevision

\* A mutant: createCollection is not given the transaction's client.
InsertOnPool(r) ==
  /\ At(r, "inserting", {"create", "onboard"})
  /\ Insertable(r)
  /\ \E x \in found[r] :
       /\ added'      = [added EXCEPT ![r][AlbumOf[x]] = x]
       /\ collection' = [collection EXCEPT ![Owner(r)][AlbumOf[x]] = x]
  /\ Goto(r, "collecting")
  /\ UNCHANGED <<status, onboarded, locks, job, found, retired>>

\* A mutant: the album is taken from the client's list, not from the revision.
InsertListed(r) ==
  /\ At(r, "inserting", {"create", "onboard"})
  /\ Insertable(r)
  /\ \E x \in found[r], a \in Todo(r) : added' = [added EXCEPT ![r][a] = x]
  /\ Goto(r, "collecting")
  /\ UNCHANGED <<catalog, locks, job, found, retired>>

InsertCollection(r) ==
  /\ At(r, "inserting", {"create", "onboard"})
  /\ Insertable(r)
  /\ \E x \in found[r] : added' = [added EXCEPT ![r][AlbumOf[x]] = x]
  /\ Goto(r, "collecting")
  /\ UNCHANGED <<catalog, locks, job, found, retired>>

\* The end of onboarding also sets the completion mark.
CommitCollections(r) ==
  /\ At(r, "collecting", {"create", "onboard"})
  /\ Todo(r) = {}
  /\ collection' = [collection EXCEPT ![Owner(r)] =
       [a \in Album |-> IF added[r][a] # NoRevision THEN added[r][a] ELSE @[a]]]
  /\ onboarded' = IF job[r].op = "onboard" THEN onboarded \cup {Owner(r)} ELSE onboarded
  /\ Finish(r)
  /\ UNCHANGED status

RefuseCollections(r) ==
  /\ \/ /\ At(r, "collecting", {"create", "onboard"})
        /\ \E a \in Todo(r) : Current(a) = {}
     \/ /\ At(r, "found", {"create", "onboard"})
        /\ \E x \in found[r] : status[x] # "published"
     \/ At(r, "inserting", {"create", "onboard"}) /\ ~Insertable(r)
  /\ Finish(r)
  /\ UNCHANGED catalog

\* removeCollection is one statement.
RemoveCollection(c, a) ==
  /\ Unpin(c, a)
  /\ UNCHANGED <<locks, progress>>

-----------------------------------------------------------------------------
\* A database error or a lost connection: ROLLBACK.
Abort(r) ==
  /\ pc[r] # "idle"
  /\ Finish(r)
  /\ UNCHANGED catalog

Next ==
  \/ \E r \in Request :
       \/ \E j \in Asked : Begin(r, j)
       \/ InsertTemplate(r) \/ LockDraft(r) \/ ScanCurrent(r) \/ ArchiveCurrent(r)
       \/ PublishTarget(r) \/ CommitRevision(r) \/ ArchiveRevision(r) \/ RefuseRevision(r)
       \/ StartOnboarding(r) \/ PassTrigger(r) \/ InsertCollection(r)
       \/ CommitCollections(r) \/ RefuseCollections(r) \/ Abort(r)
       \/ \E a \in Album : FindCurrent(r, a)
  \/ \E c \in Collector, a \in Album : RemoveCollection(c, a)

Spec == Init /\ [][Next]_vars

-----------------------------------------------------------------------------
(* Properties.                                                             *)

\* Two drafts of one album published at once never leave two current revisions,
\* although the second publication cannot see the row that it should archive.
OneCurrentRevision ==
  \A a \in Album : \A x, y \in Current(a) : x = y

\* docs/RELEASE_CHECKLIST.md, "published with revision 1 archived atomically":
\* no reader sees an album between the two UPDATEs of a publication, and a
\* publication that fails leaves the current revision.  An album is without one
\* again only when an administrator archives it.
PublicationLeavesNoGap ==
  [][\A a \in Album :
       Current(a) # {} /\ Current(a)' = {} =>
         \E r \in Request : ArchiveRevision(r) /\ AlbumOf[Target(r)] = a]_vars

\* Every committed change of catalog and collections is a step of the serial
\* specification: a collector has one collection of an album, pinned for good
\* to a revision that has been published.
CatalogSerialized == SerialCatalogSpec

\* The comment of completeOnboarding: several albums are created atomically and
\* a partial failure creates none.  What a collector gains in a step is exactly
\* what one request asked for, and onboarding is complete with it.
OnboardingAllOrNothing ==
  [][\A c \in Collector :
       LET gained == {a \in Album : collection'[c][a] \notin {NoRevision, collection[c][a]}}
       IN  gained # {} =>
             \E r \in Request :
               /\ job[r] \in CollectJob /\ Owner(r) = c /\ job[r].albums = gained
               /\ job[r].op = "onboard" => c \in onboarded']_vars

\* Requests never wait for each other in a circle for revisions, profiles and
\* collections, whatever the order in which a client lists its albums: the
\* profile row is locked before any of them.
NoCircularWait ==
  \A S \in (SUBSET Request) \ {{}} : \E r \in S : WaitsFor(r) \cap S = {}
=============================================================================
