---------------------------- MODULE CatalogProofs ----------------------------
(***************************************************************************)
(* What Catalog.tla guarantees for any albums, revisions, collectors and   *)
(* requests.  A request that changes revisions holds their rows, so what   *)
(* its earlier statements saw of them is still so when it commits          *)
(* (TargetInv, RetiredInv); the two unique indexes keep the uncommitted    *)
(* writes of different requests apart (WrittenInv, AddedInv).  Who holds   *)
(* what while it waits is WaitInv: every wait is for a request that is     *)
(* nearer to its end (Rank), so no circle of them closes.                  *)
(***************************************************************************)
EXTENDS Catalog, Integers, TLAPS

Pinnable == {"published", "archived"}

JobInv ==
  \A r \in Request :
    /\ pc[r] # "idle" => job[r] \in RevisionJob \cup CollectJob
    /\ pc[r] \in {"locked", "scanned", "ready", "written"} => job[r] \in RevisionJob
    /\ pc[r] \in {"locked", "scanned"} => job[r].op = "publish"
    /\ pc[r] = "ready" => job[r].op \in {"publish", "seed"}
    /\ pc[r] = "written" => job[r].op \in {"publish", "seed", "import"}
    /\ pc[r] \in {"collecting", "found", "inserting"} => job[r] \in CollectJob

TargetInv ==
  \A r \in Request :
    pc[r] \in {"locked", "scanned", "ready", "written"} =>
      /\ lock[Target(r)] = r
      /\ job[r].op = "publish" => status[Target(r)] = "draft"
      /\ job[r].op # "publish" => status[Target(r)] = "absent"

RetiredInv ==
  \A r \in Request : \A x \in retired[r] :
    /\ pc[r] \in {"ready", "written"}
    /\ job[r].op = "publish"
    /\ lock[x] = r
    /\ AlbumOf[x] = AlbumOf[Target(r)]
    /\ status[x] = "published"

FoundInv ==
  \A r \in Request : \A x \in found[r] :
    /\ status[x] \in Pinnable
    /\ pc[r] = "scanned" => AlbumOf[x] = AlbumOf[Target(r)]

WrittenInv ==
  \A r \in Request :
    pc[r] = "written" /\ job[r].op # "import" =>
      /\ Rivals(r) = {}
      /\ \A q \in Publishing(AlbumOf[Target(r)]) : q = r

AddedInv ==
  \A r \in Request, a \in Album :
    added[r][a] # NoRevision =>
      /\ pc[r] \in {"collecting", "found", "inserting"}
      /\ status[added[r][a]] \in Pinnable
      /\ collection[Owner(r)][a] = NoRevision
      /\ \A q \in Request \ {r} :
           job[q] \in CollectJob /\ Owner(q) = Owner(r) => added[q][a] = NoRevision

IInv ==
  /\ TypeOK
  /\ JobInv
  /\ TargetInv
  /\ RetiredInv
  /\ FoundInv
  /\ WrittenInv
  /\ AddedInv
  /\ OneCurrentRevision
-----------------------------------------------------------------------------
\* The values that stand for "none" are none of the others.
LEMMA Placeholders ==
  NoRequest \notin Request /\ NoJob \notin RevisionJob \cup CollectJob /\ NoRevision \notin Revision
  BY RequestAssumption, CatalogAssumption

\* The fields of the two kinds of job.
LEMMA JobForms ==
  /\ \A j \in RevisionJob : j.revision \in Revision /\ j.op \in {"import", "seed", "publish", "archive"}
  /\ \A j \in CollectJob  : /\ j.collector \in Collector /\ j.albums \in SUBSET Album
                            /\ j.op \in {"create", "onboard"}
  BY DEF RevisionJob, CollectJob

\* The empty database, with every request idle.
LEMMA InitIInv == Init => IInv
  <1> SUFFICES ASSUME Init PROVE IInv
    OBVIOUS
  <1> USE Placeholders DEF Init, CatalogInit
  <1>1. Nothing \in Pins /\ \A a \in Album : Nothing[a] = NoRevision
    BY DEF Nothing, Pins
  <1>2. TypeOK
    BY <1>1 DEF TypeOK, Nothing
  <1>3. JobInv /\ TargetInv /\ RetiredInv /\ FoundInv /\ WrittenInv
    BY DEF JobInv, TargetInv, RetiredInv, FoundInv, WrittenInv
  <1>4. AddedInv
    BY <1>1 DEF AddedInv
  <1>5. OneCurrentRevision
    BY DEF OneCurrentRevision, Current, Revisions
  <1> QED
    BY <1>2, <1>3, <1>4, <1>5 DEF IInv

\* What a request that ends may do to the tables without disturbing another:
\* change the status of rows that no other request has locked, publish in an
\* album where no other request has published, and fill a free slot.
LEMMA EndIInv ==
  ASSUME IInv, NEW r \in Request, Finish(r),
         status' \in [Revision -> {"absent", "draft", "published", "archived"}],
         collection' \in [Collector -> Pins],
         onboarded' \in SUBSET Collector,
         \A x \in Revision : status'[x] # status[x] => lock[x] \in {r, NoRequest},
         \A x \in Revision : status[x] \in Pinnable => status'[x] \in Pinnable,
         \A x \in Revision : status'[x] = "published" /\ status[x] # "published" =>
           \A q \in Publishing(AlbumOf[x]) : q = r,
         \A c \in Collector, a \in Album :
           collection'[c][a] # NoRevision /\ collection[c][a] = NoRevision =>
             \A q \in Request \ {r} :
               job[q] \in CollectJob /\ Owner(q) = c => added[q][a] = NoRevision,
         OneCurrentRevision'
  PROVE  IInv'
  <1> USE Placeholders
  <1>1. Nothing \in Pins /\ \A a \in Album : Nothing[a] = NoRevision
    BY DEF Nothing, Pins
  <1>2. /\ pc'[r] = "idle" /\ job'[r] = NoJob /\ found'[r] = {} /\ retired'[r] = {}
        /\ \A a \in Album : added'[r][a] = NoRevision
        /\ \A q \in Request \ {r} :
             /\ pc'[q] = pc[q] /\ job'[q] = job[q] /\ found'[q] = found[q]
             /\ retired'[q] = retired[q] /\ added'[q] = added[q]
             /\ \A x \in Revision : lock[x] = q => lock'[x] = q
    BY <1>1 DEF IInv, TypeOK, Finish
  <1>3. TypeOK'
    BY <1>1 DEF IInv, TypeOK, Finish
  <1>4. JobInv'
    BY <1>2 DEF IInv, JobInv
  <1>5. TargetInv'
    BY <1>2, JobForms DEF IInv, JobInv, TargetInv, Target
  <1>6. RetiredInv'
    BY <1>2 DEF IInv, TypeOK, RetiredInv, Target
  <1>7. FoundInv'
    BY <1>2 DEF IInv, TypeOK, FoundInv, Target
  <1>8. WrittenInv'
    <2> SUFFICES ASSUME NEW q \in Request, pc'[q] = "written", job'[q].op # "import"
                 PROVE  Rivals(q)' = {} /\ \A s \in Publishing(AlbumOf[Target(q)])' : s = q
      BY DEF WrittenInv
    <2>1. q # r /\ pc[q] = "written" /\ job[q].op # "import" /\ Target(q)' = Target(q)
      BY <1>2 DEF Target
    <2>2. q \in Publishing(AlbumOf[Target(q)])
      BY <2>1 DEF Publishing
    <2>3. Rivals(q) = {} /\ \A s \in Publishing(AlbumOf[Target(q)]) : s = q
      BY <2>1 DEF IInv, WrittenInv
    <2>4. Rivals(q)' = {}
      <3> SUFFICES ASSUME NEW x \in Revision, AlbumOf[x] = AlbumOf[Target(q)],
                          status'[x] = "published", x \notin retired[q]
                   PROVE  FALSE
        BY <1>2, <2>1 DEF Rivals, Current, Revisions
      <3>1. status[x] # "published"
        BY <2>3 DEF Rivals, Current, Revisions
      <3> QED
        BY <2>1, <2>2, <3>1
    <2>5. \A s \in Publishing(AlbumOf[Target(q)])' : s \in Publishing(AlbumOf[Target(q)])
      BY <1>2, <2>1 DEF Publishing, Target
    <2> QED
      BY <2>3, <2>4, <2>5
  <1>9. AddedInv'
    <2> SUFFICES ASSUME NEW q \in Request, NEW a \in Album, added'[q][a] # NoRevision
                 PROVE  /\ pc'[q] \in {"collecting", "found", "inserting"}
                        /\ status'[added'[q][a]] \in Pinnable
                        /\ collection'[Owner(q)'][a] = NoRevision
                        /\ \A s \in Request \ {q} :
                             job'[s] \in CollectJob /\ Owner(s)' = Owner(q)' => added'[s][a] = NoRevision
      BY DEF AddedInv
    <2>1. q # r /\ added'[q] = added[q] /\ pc'[q] = pc[q] /\ job'[q] = job[q]
      BY <1>2
    <2>2. /\ pc[q] \in {"collecting", "found", "inserting"}
          /\ status[added[q][a]] \in Pinnable
          /\ collection[Owner(q)][a] = NoRevision
          /\ \A s \in Request \ {q} :
               job[s] \in CollectJob /\ Owner(s) = Owner(q) => added[s][a] = NoRevision
      BY <2>1 DEF IInv, AddedInv
    <2>3. job[q] \in CollectJob /\ Owner(q) \in Collector
      BY <2>2, JobForms DEF IInv, JobInv, Owner
    <2>4. added[q][a] \in Revision
      BY <2>1 DEF IInv, TypeOK, Pins, Revisions
    <2>5. collection'[Owner(q)][a] = NoRevision
      BY <2>1, <2>2, <2>3
    <2>6. Owner(q)' = Owner(q)
      BY <2>1 DEF Owner
    <2>7. \A s \in Request \ {q} :
            job'[s] \in CollectJob /\ Owner(s)' = Owner(q)' => added'[s][a] = NoRevision
      BY <1>2, <2>2, <2>6 DEF Owner
    <2> QED
      BY <2>1, <2>2, <2>4, <2>5, <2>6, <2>7
  <1> QED
    BY <1>3, <1>4, <1>5, <1>6, <1>7, <1>8, <1>9 DEF IInv

\* An end that leaves the tables alone.
LEMMA RollbackIInv ==
  ASSUME IInv, NEW r \in Request, Finish(r), UNCHANGED catalog
  PROVE  IInv'
  <1>1. OneCurrentRevision'
    BY DEF IInv, OneCurrentRevision, Current, Revisions, catalog
  <1> QED
    BY <1>1, EndIInv DEF IInv, TypeOK, catalog
-----------------------------------------------------------------------------
(* Ends that change the tables.                                            *)

\* A commit changes the status of rows it holds, and publishes only where it was
\* the one request in the unique index.
LEMMA CommitRevisionIInv ==
  ASSUME IInv, NEW r \in Request, CommitRevision(r)
  PROVE  IInv'
  <1> DEFINE t == Target(r)
  <1>1. /\ pc[r] = "written" /\ job[r] \in RevisionJob /\ t \in Revision
        /\ job[r].op \in {"import", "seed", "publish"}
        /\ lock[t] = r /\ status[t] \in {"draft", "absent"}
    BY JobForms DEF CommitRevision, At, IInv, JobInv, TargetInv, Target
  <1>2. \A x \in Revision :
          status'[x] = IF x = t THEN (IF job[r].op = "import" THEN "draft" ELSE "published")
                       ELSE IF x \in retired[r] THEN "archived" ELSE status[x]
    BY DEF CommitRevision
  <1>3. status' \in [Revision -> {"absent", "draft", "published", "archived"}]
    BY DEF CommitRevision, IInv, TypeOK
  <1>4. \A x \in retired[r] : lock[x] = r /\ status[x] = "published" /\ job[r].op = "publish"
    BY DEF IInv, RetiredInv
  <1>5. \A x \in Revision : status'[x] # status[x] => lock[x] \in {r, NoRequest}
    BY <1>1, <1>2, <1>4
  <1>6. \A x \in Revision : status[x] \in Pinnable => status'[x] \in Pinnable
    BY <1>1, <1>2 DEF Pinnable
  <1>7. ASSUME job[r].op # "import"
        PROVE  Rivals(r) = {} /\ \A q \in Publishing(AlbumOf[t]) : q = r
    BY <1>1, <1>7 DEF IInv, WrittenInv
  <1>8. \A x \in Revision : status'[x] = "published" /\ status[x] # "published" =>
          \A q \in Publishing(AlbumOf[x]) : q = r
    BY <1>2, <1>7
  <1>9. OneCurrentRevision'
    <2> SUFFICES ASSUME NEW x \in Revision, NEW y \in Revision, AlbumOf[x] = AlbumOf[y],
                        status'[x] = "published", status'[y] = "published"
                 PROVE  x = y
      BY DEF OneCurrentRevision, Current, Revisions
    <2>1. CASE job[r].op = "import"
      <3>1. status[x] = "published" /\ status[y] = "published"
        BY <1>2, <2>1
      <3>2. AlbumOf[x] \in Album
        BY CatalogAssumption
      <3> QED
        BY <3>1, <3>2 DEF IInv, OneCurrentRevision, Current, Revisions
    <2>2. CASE job[r].op # "import"
      <3>1. AlbumOf[x] # AlbumOf[t] \/ x = t
        BY <1>2, <1>7, <2>2 DEF Rivals, Current, Revisions
      <3>2. AlbumOf[y] # AlbumOf[t] \/ y = t
        BY <1>2, <1>7, <2>2 DEF Rivals, Current, Revisions
      <3>3. CASE x # t /\ y # t
        <4>1. status[x] = "published" /\ status[y] = "published"
          BY <1>2, <3>3
        <4>2. AlbumOf[x] \in Album
          BY CatalogAssumption
        <4> QED
          BY <4>1, <4>2 DEF IInv, OneCurrentRevision, Current, Revisions
      <3> QED
        BY <3>1, <3>2, <3>3
    <2> QED
      BY <2>1, <2>2
  <1> QED
    BY <1>3, <1>5, <1>6, <1>8, <1>9, EndIInv DEF CommitRevision, IInv, TypeOK

\* A published revision that nobody has locked.
LEMMA ArchiveRevisionIInv ==
  ASSUME IInv, NEW r \in Request, ArchiveRevision(r)
  PROVE  IInv'
  <1> DEFINE t == Target(r)
  <1>1. /\ pc[r] = "started" /\ job[r] \in RevisionJob /\ t \in Revision
        /\ job[r].op = "archive" /\ status[t] = "published"
    BY JobForms DEF ArchiveRevision, Archive, At, IInv, JobInv, Target
  <1>2. lock[t] = NoRequest
    <2>1. WaitsFor(r) = Holder(t)
      BY <1>1 DEF WaitsFor
    <2> QED
      BY <2>1 DEF ArchiveRevision, At, Holder
  <1>3. /\ status' = [status EXCEPT ![t] = "archived"]
        /\ UNCHANGED <<collection, onboarded>> /\ Finish(r)
    BY DEF ArchiveRevision, Archive
  <1>4. OneCurrentRevision'
    BY <1>3 DEF IInv, TypeOK, OneCurrentRevision, Current, Revisions
  <1>5. /\ status' \in [Revision -> {"absent", "draft", "published", "archived"}]
        /\ \A x \in Revision : status'[x] # status[x] => lock[x] \in {r, NoRequest}
        /\ \A x \in Revision : status[x] \in Pinnable => status'[x] \in Pinnable
        /\ \A x \in Revision : status'[x] = "published" => status[x] = "published"
    BY <1>1, <1>2, <1>3 DEF IInv, TypeOK, Pinnable
  <1> QED
    BY <1>3, <1>4, <1>5, EndIInv DEF IInv, TypeOK

\* A commit fills slots that no other request of the collector is filling.
LEMMA CommitCollectionsIInv ==
  ASSUME IInv, NEW r \in Request, CommitCollections(r)
  PROVE  IInv'
  <1>1. /\ pc[r] = "collecting" /\ job[r] \in CollectJob /\ Owner(r) \in Collector
    BY JobForms DEF CommitCollections, At, IInv, JobInv, Owner
  <1> DEFINE pinned == [a \in Album |-> IF added[r][a] # NoRevision THEN added[r][a]
                                        ELSE collection[Owner(r)][a]]
  <1>2. collection' = [collection EXCEPT ![Owner(r)] = pinned]
    BY DEF CommitCollections
  <1>3. pinned \in Pins
    <2>1. added[r] \in Pins /\ collection[Owner(r)] \in Pins
      BY <1>1 DEF IInv, TypeOK
    <2> QED
      BY <2>1 DEF Pins
  <1>4. collection' \in [Collector -> Pins]
    BY <1>2, <1>3 DEF IInv, TypeOK
  <1>5. onboarded' \in SUBSET Collector
    BY <1>1 DEF CommitCollections, IInv, TypeOK
  <1>6. \A c \in Collector, a \in Album :
          collection'[c][a] # NoRevision /\ collection[c][a] = NoRevision =>
            c = Owner(r) /\ added[r][a] # NoRevision
    BY <1>1, <1>2, <1>3 DEF IInv, TypeOK
  <1>7. \A c \in Collector, a \in Album :
          collection'[c][a] # NoRevision /\ collection[c][a] = NoRevision =>
            \A q \in Request \ {r} :
              job[q] \in CollectJob /\ Owner(q) = c => added[q][a] = NoRevision
    BY <1>6 DEF IInv, AddedInv
  <1>8. status' = status /\ Finish(r)
    BY DEF CommitCollections
  <1>9. OneCurrentRevision'
    BY <1>8 DEF IInv, OneCurrentRevision, Current, Revisions
  <1> QED
    BY <1>4, <1>5, <1>7, <1>8, <1>9, EndIInv DEF IInv, TypeOK

\* A removal only empties a slot.
LEMMA RemoveIInv ==
  ASSUME IInv, NEW c \in Collector, NEW a \in Album, RemoveCollection(c, a)
  PROVE  IInv'
  <1> USE DEF RemoveCollection, Unpin, locks, progress
  <1>1. [collection[c] EXCEPT ![a] = NoRevision] \in Pins
    BY DEF IInv, TypeOK, Pins
  <1>2. TypeOK'
    BY <1>1 DEF IInv, TypeOK
  <1>3. JobInv' /\ TargetInv' /\ RetiredInv' /\ FoundInv' /\ OneCurrentRevision'
    BY DEF IInv, JobInv, TargetInv, Target, RetiredInv, FoundInv, OneCurrentRevision, Current, Revisions
  <1>4. WrittenInv'
    BY DEF IInv, WrittenInv, Rivals, Publishing, Target, Current, Revisions
  <1>5. \A d \in Collector, x \in Album :
          collection[d][x] = NoRevision => collection'[d][x] = NoRevision
    BY DEF IInv, TypeOK, Pins
  <1>6. AddedInv'
    <2>1. \A r \in Request, x \in Album : added[r][x] # NoRevision => Owner(r) \in Collector
      BY JobForms DEF IInv, AddedInv, JobInv, Owner
    <2> QED
      BY <1>5, <2>1 DEF IInv, AddedInv, Owner
  <1> QED
    BY <1>2, <1>3, <1>4, <1>6 DEF IInv
-----------------------------------------------------------------------------
(* Steps that leave the tables alone.                                      *)

\* A new request has done nothing.
LEMMA BeginIInv ==
  ASSUME IInv, NEW r \in Request, NEW j \in Asked, Begin(r, j)
  PROVE  IInv'
  <1> USE DEF Begin, Goto, catalog, locks
  <1>1. j \in RevisionJob \cup CollectJob /\ (j.op = "create" => j \in CollectJob)
    BY RequestAssumption, JobForms
  <1>2. /\ pc[r] = "idle" /\ pc'[r] \in {"collecting", "started"} /\ job'[r] = j
        /\ pc'[r] = "collecting" => j \in CollectJob
        /\ \A q \in Request \ {r} : pc'[q] = pc[q] /\ job'[q] = job[q]
    BY <1>1 DEF IInv, TypeOK
  <1>3. TypeOK'
    BY <1>1 DEF IInv, TypeOK
  <1>4. JobInv'
    BY <1>1, <1>2 DEF IInv, JobInv
  <1>5. TargetInv' /\ RetiredInv' /\ FoundInv' /\ OneCurrentRevision'
    BY <1>2 DEF IInv, TargetInv, RetiredInv, FoundInv, Target, OneCurrentRevision, Current, Revisions
  <1>6. WrittenInv'
    BY <1>2 DEF IInv, WrittenInv, Rivals, Publishing, Target, Current, Revisions
  <1>7. \A a \in Album : added[r][a] = NoRevision
    BY <1>2 DEF IInv, AddedInv
  <1>8. AddedInv'
    BY <1>2, <1>7 DEF IInv, AddedInv, Owner
  <1> QED
    BY <1>3, <1>4, <1>5, <1>6, <1>8 DEF IInv

\* The request takes its target's row or index entry, which nobody has.
LEMMA TakeTargetIInv ==
  ASSUME IInv, NEW r \in Request, InsertTemplate(r) \/ LockDraft(r)
  PROVE  IInv'
  <1> DEFINE t == Target(r)
  <1> USE Placeholders
  <1>1. /\ pc[r] = "started" /\ job[r] \in RevisionJob /\ t \in Revision
        /\ \/ job[r].op = "import" /\ status[t] = "absent" /\ pc' = [pc EXCEPT ![r] = "written"]
           \/ job[r].op = "seed" /\ status[t] = "absent" /\ pc' = [pc EXCEPT ![r] = "ready"]
           \/ job[r].op = "publish" /\ status[t] = "draft" /\ pc' = [pc EXCEPT ![r] = "locked"]
    BY JobForms DEF InsertTemplate, LockDraft, At, Goto, IInv, JobInv, Target
  <1>2. lock[t] = NoRequest
    <2>1. WaitsFor(r) = Holder(t)
      BY <1>1 DEF WaitsFor
    <2> QED
      BY <2>1 DEF InsertTemplate, LockDraft, At, Holder
  <1>3. /\ lock' = [lock EXCEPT ![t] = r]
        /\ UNCHANGED <<status, collection, onboarded, profile, job, found, retired, added>>
    BY DEF InsertTemplate, LockDraft, catalog
  <1>4. TypeOK'
    BY <1>1, <1>3 DEF IInv, TypeOK
  <1>5. JobInv'
    BY <1>1, <1>3 DEF IInv, TypeOK, JobInv
  <1>6. TargetInv'
    BY <1>1, <1>2, <1>3 DEF IInv, TypeOK, TargetInv, Target
  <1>7. RetiredInv'
    BY <1>1, <1>2, <1>3 DEF IInv, TypeOK, RetiredInv, Target
  <1>8. FoundInv' /\ OneCurrentRevision'
    BY <1>1, <1>3 DEF IInv, TypeOK, FoundInv, Target, OneCurrentRevision, Current, Revisions
  <1>9. WrittenInv'
    BY <1>1, <1>3 DEF IInv, TypeOK, WrittenInv, Rivals, Publishing, Target, Current, Revisions
  <1>10. AddedInv'
    BY <1>1, <1>3 DEF IInv, TypeOK, AddedInv, Owner
  <1> QED
    BY <1>4, <1>5, <1>6, <1>7, <1>8, <1>9, <1>10 DEF IInv

\* The snapshot holds published rows of the target's album.
LEMMA ScanCurrentIInv ==
  ASSUME IInv, NEW r \in Request, ScanCurrent(r)
  PROVE  IInv'
  <1> USE DEF ScanCurrent, Goto, catalog, locks
  <1>1. /\ pc[r] = "locked" /\ job[r] \in RevisionJob /\ Target(r) \in Revision
        /\ job[r].op = "publish" /\ retired[r] = {}
    BY JobForms DEF At, IInv, JobInv, RetiredInv, Target
  <1>2. TypeOK'
    BY DEF IInv, TypeOK, Current, Revisions
  <1>3. JobInv' /\ TargetInv' /\ RetiredInv' /\ OneCurrentRevision'
    BY <1>1 DEF IInv, TypeOK, JobInv, TargetInv, RetiredInv, Target, OneCurrentRevision, Current, Revisions
  <1>4. FoundInv'
    BY <1>1 DEF IInv, TypeOK, FoundInv, Target, Current, Revisions, Pinnable
  <1>5. WrittenInv'
    BY <1>1 DEF IInv, TypeOK, WrittenInv, Rivals, Publishing, Target, Current, Revisions
  <1>6. AddedInv'
    BY <1>1 DEF IInv, TypeOK, AddedInv, Owner
  <1> QED
    BY <1>2, <1>3, <1>4, <1>5, <1>6 DEF IInv

\* The rows in the snapshot are free, are locked, and those still published retire.
LEMMA ArchiveCurrentIInv ==
  ASSUME IInv, NEW r \in Request, ArchiveCurrent(r)
  PROVE  IInv'
  <1> USE Placeholders DEF ArchiveCurrent, Goto, catalog
  <1>1. /\ pc[r] = "scanned" /\ job[r] \in RevisionJob /\ Target(r) \in Revision
        /\ job[r].op = "publish" /\ retired[r] = {}
    BY JobForms DEF At, IInv, JobInv, RetiredInv, Target
  <1>2. \A x \in found[r] : lock[x] = NoRequest
    <2>1. WaitsFor(r) = UNION {Holder(x) : x \in found[r]}
      BY <1>1 DEF WaitsFor
    <2>2. \A x \in found[r] : Holder(x) = {}
      BY <2>1 DEF At
    <2> QED
      BY <2>2 DEF Holder
  <1>3. /\ pc' = [pc EXCEPT ![r] = "ready"]
        /\ \A x \in Revision : lock[x] # NoRequest => lock'[x] = lock[x]
        /\ \A x \in found[r] : lock'[x] = r
        /\ \A q \in Request \ {r} : retired'[q] = retired[q]
        /\ retired'[r] = {x \in found[r] : status[x] = "published"}
    BY <1>2 DEF IInv, TypeOK
  <1>4. TypeOK'
    BY <1>1 DEF IInv, TypeOK
  <1>5. JobInv'
    BY <1>1 DEF IInv, TypeOK, JobInv
  <1>6. TargetInv'
    BY <1>1, <1>3, JobForms DEF IInv, TypeOK, JobInv, TargetInv, Target
  <1>7. RetiredInv'
    BY <1>1, <1>3 DEF IInv, TypeOK, RetiredInv, FoundInv, Target
  <1>8. FoundInv' /\ OneCurrentRevision'
    BY <1>1 DEF IInv, TypeOK, FoundInv, Target, OneCurrentRevision, Current, Revisions
  <1>9. WrittenInv'
    BY <1>1, <1>3 DEF IInv, TypeOK, WrittenInv, Rivals, Publishing, Target, Current, Revisions
  <1>10. AddedInv'
    BY <1>1 DEF IInv, TypeOK, AddedInv, Owner
  <1> QED
    BY <1>4, <1>5, <1>6, <1>7, <1>8, <1>9, <1>10 DEF IInv

\* The unique index: no other request has published in the album, and what is
\* current there is retired.
LEMMA PublishTargetIInv ==
  ASSUME IInv, NEW r \in Request, PublishTarget(r)
  PROVE  IInv'
  <1> USE DEF PublishTarget, Goto, catalog, locks
  <1>1. /\ pc[r] = "ready" /\ job[r] \in RevisionJob /\ Target(r) \in Revision
        /\ job[r].op \in {"publish", "seed"}
    BY JobForms DEF At, IInv, JobInv, Target
  <1>2. \A q \in Publishing(AlbumOf[Target(r)]) : q = r
    <2>1. IndexWaits(r) = {}
      BY <1>1 DEF WaitsFor, At, Duplicate
    <2> QED
      BY <2>1 DEF IndexWaits, Publishing
  <1>3. TypeOK'
    BY DEF IInv, TypeOK
  <1>4. JobInv' /\ TargetInv' /\ RetiredInv' /\ FoundInv' /\ OneCurrentRevision'
    BY <1>1 DEF IInv, TypeOK, JobInv, TargetInv, RetiredInv, FoundInv, Target,
                OneCurrentRevision, Current, Revisions
  <1>5. WrittenInv'
    <2>1. \A q \in Request : pc'[q] = "written" /\ q # r => pc[q] = "written"
      BY DEF IInv, TypeOK
    <2>2. ASSUME NEW q \in Request, pc'[q] = "written", job[q].op # "import"
          PROVE  Rivals(q) = {}
      BY <2>1, <2>2 DEF IInv, WrittenInv
    <2>3. ASSUME NEW q \in Request, pc'[q] = "written", job[q].op # "import",
                 NEW s \in Request, pc'[s] = "written", job[s].op # "import",
                 AlbumOf[Target(s)] = AlbumOf[Target(q)]
          PROVE  s = q
      <3>1. CASE q # r /\ s # r
        BY <2>1, <2>3, <3>1 DEF IInv, WrittenInv, Publishing
      <3>2. CASE q = r \/ s = r
        BY <1>2, <2>1, <2>3, <3>2 DEF Publishing
      <3> QED
        BY <3>1, <3>2
    <2> QED
      BY <2>2, <2>3 DEF WrittenInv, Rivals, Publishing, Target, Current, Revisions
  <1>6. AddedInv'
    BY <1>1 DEF IInv, TypeOK, AddedInv, Owner
  <1> QED
    BY <1>3, <1>4, <1>5, <1>6 DEF IInv

\* Steps of a collector's request before its rows are inserted.
LEMMA CollectingIInv ==
  ASSUME IInv, NEW r \in Request,
         \/ StartOnboarding(r)
         \/ \E a \in Album : FindCurrent(r, a)
         \/ PassTrigger(r)
  PROVE  IInv'
  <1> USE DEF Goto, catalog, locks
  <1>1. /\ pc[r] \in {"started", "collecting", "found"} /\ job[r] \in CollectJob
        /\ Owner(r) \in Collector
    BY JobForms DEF StartOnboarding, FindCurrent, PassTrigger, At, IInv, JobInv, Owner
  <1>2. /\ \E p \in {"collecting", "found", "inserting"} : pc' = [pc EXCEPT ![r] = p]
        /\ UNCHANGED <<status, collection, onboarded, lock, job, retired, added>>
    BY DEF StartOnboarding, FindCurrent, PassTrigger
  <1>3. /\ found' \in [Request -> SUBSET Revision]
        /\ \A q \in Request \ {r} : found'[q] = found[q]
        /\ \A x \in found'[r] : x \in found[r] \/ status[x] = "published"
    BY DEF StartOnboarding, FindCurrent, PassTrigger, Current, Revisions, IInv, TypeOK
  <1>4. profile' \in [Collector -> Request \cup {NoRequest}]
    BY <1>1 DEF StartOnboarding, FindCurrent, PassTrigger, IInv, TypeOK
  <1>5. TypeOK'
    BY <1>2, <1>3, <1>4 DEF IInv, TypeOK
  <1>6. JobInv' /\ TargetInv' /\ RetiredInv' /\ OneCurrentRevision'
    BY <1>1, <1>2 DEF IInv, TypeOK, JobInv, TargetInv, RetiredInv, Target,
                      OneCurrentRevision, Current, Revisions
  <1>7. FoundInv'
    BY <1>1, <1>2, <1>3 DEF IInv, TypeOK, FoundInv, Target, Pinnable
  <1>8. WrittenInv'
    BY <1>1, <1>2 DEF IInv, TypeOK, WrittenInv, Rivals, Publishing, Target, Current, Revisions
  <1>9. AddedInv'
    BY <1>1, <1>2 DEF IInv, TypeOK, AddedInv, Owner
  <1> QED
    BY <1>5, <1>6, <1>7, <1>8, <1>9 DEF IInv

\* The unique index: no other request has inserted for the collector and album.
LEMMA InsertCollectionIInv ==
  ASSUME IInv, NEW r \in Request, InsertCollection(r)
  PROVE  IInv'
  <1> USE Placeholders DEF Goto, catalog, locks
  <1>1. PICK x \in found[r] : added' = [added EXCEPT ![r][AlbumOf[x]] = x]
    BY DEF InsertCollection
  <1>2. /\ pc[r] = "inserting" /\ job[r] \in CollectJob /\ Owner(r) \in Collector
        /\ pc' = [pc EXCEPT ![r] = "collecting"]
        /\ UNCHANGED <<status, collection, onboarded, lock, profile, job, found, retired>>
    BY JobForms DEF InsertCollection, At, IInv, JobInv, Owner
  <1>3. x \in Revision /\ AlbumOf[x] \in Album /\ status[x] \in Pinnable
    BY CatalogAssumption DEF IInv, TypeOK, FoundInv
  <1>4. collection[Owner(r)][AlbumOf[x]] = NoRevision
    BY DEF InsertCollection, Insertable
  <1>5. \A q \in Request \ {r} :
          job[q] \in CollectJob /\ Owner(q) = Owner(r) => added[q][AlbumOf[x]] = NoRevision
    <2>1. SlotWaits(r) = {}
      BY <1>2 DEF WaitsFor, InsertCollection, At
    <2> QED
      BY <2>1 DEF SlotWaits
  <1>6. /\ added'[r] = [added[r] EXCEPT ![AlbumOf[x]] = x]
        /\ \A q \in Request \ {r} : added'[q] = added[q]
        /\ added[r] \in Pins
    BY <1>1 DEF IInv, TypeOK
  <1>7. added'[r] \in Pins
    BY <1>3, <1>6 DEF Pins, Revisions
  <1>8. TypeOK'
    BY <1>1, <1>2, <1>6, <1>7 DEF IInv, TypeOK
  <1>9. JobInv' /\ TargetInv' /\ RetiredInv' /\ FoundInv' /\ OneCurrentRevision'
    BY <1>2 DEF IInv, TypeOK, JobInv, TargetInv, RetiredInv, FoundInv, Target,
                OneCurrentRevision, Current, Revisions
  <1>10. WrittenInv'
    BY <1>2 DEF IInv, TypeOK, WrittenInv, Rivals, Publishing, Target, Current, Revisions
  <1>11. AddedInv'
    <2> SUFFICES ASSUME NEW q \in Request, NEW a \in Album, added'[q][a] # NoRevision
                 PROVE  /\ pc'[q] \in {"collecting", "found", "inserting"}
                        /\ status[added'[q][a]] \in Pinnable
                        /\ collection[Owner(q)][a] = NoRevision
                        /\ \A s \in Request \ {q} :
                             job[s] \in CollectJob /\ Owner(s) = Owner(q) => added'[s][a] = NoRevision
      BY <1>2 DEF AddedInv, Owner
    <2>1. CASE q = r /\ a = AlbumOf[x]
      <3>1. added'[q][a] = x
        BY <1>3, <1>6, <2>1 DEF Pins
      <3> QED
        BY <1>2, <1>3, <1>4, <1>5, <1>6, <2>1, <3>1 DEF IInv, TypeOK
    <2>2. CASE ~(q = r /\ a = AlbumOf[x])
      <3>1. added'[q][a] = added[q][a]
        BY <1>6, <2>2 DEF Pins
      <3>2. /\ pc[q] \in {"collecting", "found", "inserting"}
            /\ status[added[q][a]] \in Pinnable
            /\ collection[Owner(q)][a] = NoRevision
            /\ \A s \in Request \ {q} :
                 job[s] \in CollectJob /\ Owner(s) = Owner(q) => added[s][a] = NoRevision
        BY <3>1 DEF IInv, AddedInv
      <3>3. pc'[q] \in {"collecting", "found", "inserting"}
        BY <1>2, <3>2 DEF IInv, TypeOK
      <3>4. ASSUME NEW s \in Request \ {q}, job[s] \in CollectJob, Owner(s) = Owner(q)
            PROVE  added'[s][a] = NoRevision
        <4>1. added[s][a] = NoRevision
          BY <3>2, <3>4
        <4>2. CASE s = r /\ a = AlbumOf[x]
          <5>1. job[q] \in CollectJob
            BY <3>2 DEF IInv, JobInv
          <5> QED
            BY <1>5, <3>1, <3>4, <4>2, <5>1
        <4>3. CASE ~(s = r /\ a = AlbumOf[x])
          BY <1>6, <4>1, <4>3 DEF Pins
        <4> QED
          BY <4>2, <4>3
      <3> QED
        BY <3>1, <3>2, <3>3, <3>4
    <2> QED
      BY <2>1, <2>2
  <1> QED
    BY <1>8, <1>9, <1>10, <1>11 DEF IInv

-----------------------------------------------------------------------------
\* Every step keeps the invariant.
LEMMA NextIInv == IInv /\ [Next]_vars => IInv'
  <1> SUFFICES ASSUME IInv, [Next]_vars PROVE IInv'
    OBVIOUS
  <1>1. CASE UNCHANGED vars
    <2> USE <1>1 DEF vars, catalog, locks, progress
    <2>1. TypeOK' /\ JobInv' /\ TargetInv' /\ RetiredInv' /\ FoundInv'
      BY DEF IInv, TypeOK, JobInv, TargetInv, RetiredInv, FoundInv, Target
    <2>2. WrittenInv' /\ OneCurrentRevision'
      BY DEF IInv, WrittenInv, Rivals, Publishing, Target, OneCurrentRevision, Current, Revisions
    <2>3. AddedInv'
      BY DEF IInv, AddedInv, Owner
    <2> QED
      BY <2>1, <2>2, <2>3 DEF IInv
  <1>2. CASE \E c \in Collector, a \in Album : RemoveCollection(c, a)
    BY <1>2, RemoveIInv
  <1>3. ASSUME NEW r \in Request, NEW j \in Asked, Begin(r, j)
        PROVE  IInv'
    BY <1>3, BeginIInv
  <1>4. ASSUME NEW r \in Request,
               \/ InsertTemplate(r) \/ LockDraft(r) \/ ScanCurrent(r) \/ ArchiveCurrent(r)
               \/ PublishTarget(r) \/ CommitRevision(r) \/ ArchiveRevision(r)
        PROVE  IInv'
    BY <1>4, TakeTargetIInv, ScanCurrentIInv, ArchiveCurrentIInv, PublishTargetIInv,
       CommitRevisionIInv, ArchiveRevisionIInv
  <1>5. ASSUME NEW r \in Request,
               \/ StartOnboarding(r) \/ (\E a \in Album : FindCurrent(r, a)) \/ PassTrigger(r)
               \/ InsertCollection(r) \/ CommitCollections(r)
        PROVE  IInv'
    BY <1>5, CollectingIInv, InsertCollectionIInv, CommitCollectionsIInv
  <1>6. ASSUME NEW r \in Request, RefuseRevision(r) \/ RefuseCollections(r) \/ Abort(r)
        PROVE  IInv'
    <2>1. Finish(r) /\ UNCHANGED catalog
      BY <1>6 DEF RefuseRevision, RefuseCollections, Abort
    <2> QED
      BY <2>1, RollbackIInv
  <1> QED
    BY <1>1, <1>2, <1>3, <1>4, <1>5, <1>6 DEF Next

\* The program preserves all of it, for any albums, revisions and requests.
THEOREM Invariance == Spec => []IInv
  BY InitIInv, NextIInv, PTL DEF Spec

\* The variables keep their types; in particular a collector's collection of an
\* album is pinned to a revision of that album (migration 000002's composite
\* foreign key), whatever other requests do meanwhile.
THEOREM TypeCorrect == Spec => []TypeOK
  BY Invariance, PTL DEF IInv

\* No album ever has two published revisions, however many drafts of it are
\* published, seeded and archived at once (publishRevisionAndArchiveCurrent).
THEOREM OneIsCurrent == Spec => []OneCurrentRevision
  BY Invariance, PTL DEF IInv

-----------------------------------------------------------------------------
(* Every step is a step of the serial specification or leaves the tables   *)
(* alone.                                                                  *)

\* What commits: an import or a seed finds its revision absent still; a
\* publication has locked exactly the current revision.
LEMMA CommitRevisionSerial ==
  ASSUME IInv, NEW r \in Request, CommitRevision(r)
  PROVE  Enter(Target(r)) \/ Publish(Target(r))
  <1> DEFINE t == Target(r)
  <1>1. /\ pc[r] = "written" /\ t \in Revision
        /\ job[r].op \in {"import", "seed", "publish"}
        /\ job[r].op = "publish" => status[t] = "draft"
        /\ job[r].op # "publish" => status[t] = "absent"
    BY JobForms DEF CommitRevision, At, IInv, JobInv, TargetInv, Target
  <1>2. status' = [x \in Revision |->
          IF x = t THEN (IF job[r].op = "import" THEN "draft" ELSE "published")
          ELSE IF x \in retired[r] THEN "archived" ELSE status[x]]
    BY DEF CommitRevision
  <1>3. UNCHANGED <<collection, onboarded>>
    BY DEF CommitRevision
  <1>4. retired[r] \subseteq Current(AlbumOf[t])
    BY DEF IInv, TypeOK, RetiredInv, Current, Revisions
  <1>5. job[r].op # "publish" => retired[r] = {}
    BY DEF IInv, RetiredInv
  <1>6. job[r].op # "import" => Current(AlbumOf[t]) \subseteq retired[r]
    BY <1>1 DEF IInv, WrittenInv, Rivals
  <1>7. status = [x \in Revision |-> status[x]]
    BY DEF IInv, TypeOK
  <1>8. CASE job[r].op = "import"
    <2>1. status' = [status EXCEPT ![t] = "draft"]
      BY <1>2, <1>5, <1>7, <1>8
    <2> QED
      BY <1>1, <1>3, <1>8, <2>1 DEF Enter
  <1>9. CASE job[r].op = "seed"
    <2>1. status' = [status EXCEPT ![t] = "published"]
      BY <1>2, <1>5, <1>7, <1>9
    <2>2. Current(AlbumOf[t]) = {}
      BY <1>5, <1>6, <1>9
    <2> QED
      BY <1>1, <1>3, <1>9, <2>1, <2>2 DEF Enter
  <1>10. CASE job[r].op = "publish"
    <2>1. retired[r] = Current(AlbumOf[t])
      BY <1>4, <1>6, <1>10
    <2> QED
      BY <1>1, <1>2, <1>3, <1>10, <2>1 DEF Publish
  <1> QED
    BY <1>1, <1>8, <1>9, <1>10

\* Collections are pinned to free slots and to revisions that were published.
LEMMA CommitCollectionsSerial ==
  ASSUME IInv, NEW r \in Request, CommitCollections(r)
  PROVE  Pin(Owner(r), added[r])
  <1>1. \A a \in Album : added[r][a] # NoRevision =>
          collection[Owner(r)][a] = NoRevision /\ status[added[r][a]] \in {"published", "archived"}
    BY DEF IInv, AddedInv, Pinnable
  <1> QED
    BY <1>1 DEF CommitCollections, Pin

\* A request that takes no commit or statement above changes no table.
LEMMA OtherStepsSerial ==
  ASSUME IInv, NEW r \in Request,
         \/ \E j \in Asked : Begin(r, j)
         \/ InsertTemplate(r) \/ LockDraft(r) \/ ScanCurrent(r) \/ ArchiveCurrent(r)
         \/ PublishTarget(r) \/ RefuseRevision(r) \/ StartOnboarding(r) \/ PassTrigger(r)
         \/ InsertCollection(r) \/ RefuseCollections(r) \/ Abort(r)
         \/ \E a \in Album : FindCurrent(r, a)
  PROVE  UNCHANGED catalog
  BY DEF Begin, InsertTemplate, LockDraft, ScanCurrent, ArchiveCurrent, PublishTarget,
         RefuseRevision, StartOnboarding, PassTrigger, InsertCollection, RefuseCollections,
         Abort, FindCurrent

\* Imports, publications, archivings, new and removed collections take effect
\* one at a time and as a whole: the statements of the program implement the
\* serial catalog.
THEOREM SerializesCatalog == Spec => CatalogSerialized
  <1>1. Init => CatalogInit
    BY DEF Init
  <1>2. IInv /\ [Next]_vars => [CatalogNext]_catalog
    <2> SUFFICES ASSUME IInv, [Next]_vars PROVE CatalogNext \/ UNCHANGED catalog
      OBVIOUS
    <2>1. ASSUME NEW r \in Request, CommitRevision(r) PROVE CatalogNext
      <3>1. Target(r) \in Revision
        BY <2>1, JobForms DEF CommitRevision, At, IInv, JobInv, Target
      <3> QED
        BY <2>1, <3>1, CommitRevisionSerial DEF CatalogNext
    <2>2. ASSUME NEW r \in Request, ArchiveRevision(r) PROVE CatalogNext
      <3>1. Target(r) \in Revision
        BY <2>2, JobForms DEF ArchiveRevision, At, IInv, JobInv, Target, CollectJob
      <3> QED
        BY <2>2, <3>1 DEF ArchiveRevision, CatalogNext
    <2>3. ASSUME NEW r \in Request, CommitCollections(r) PROVE CatalogNext
      <3>1. Owner(r) \in Collector /\ added[r] \in Pins
        BY <2>3, JobForms DEF CommitCollections, At, IInv, TypeOK, JobInv, Owner
      <3> QED
        BY <2>3, <3>1, CommitCollectionsSerial DEF CatalogNext
    <2>4. ASSUME NEW c \in Collector, NEW a \in Album, RemoveCollection(c, a)
          PROVE  CatalogNext
      BY <2>4 DEF RemoveCollection, CatalogNext
    <2> QED
      BY <2>1, <2>2, <2>3, <2>4, OtherStepsSerial DEF Next, vars, catalog
  <1> QED
    BY <1>1, <1>2, Invariance, PTL DEF Spec, CatalogSerialized, SerialCatalogSpec

\* An album loses its current revision only when an administrator archives it:
\* a publication, even one that fails or meets another one, leaves none without.
THEOREM NoGap == Spec => PublicationLeavesNoGap
  <1>1. ASSUME IInv, [Next]_vars, NEW a \in Album, Current(a) # {}, Current(a)' = {}
        PROVE  \E r \in Request : ArchiveRevision(r) /\ AlbumOf[Target(r)] = a
    <2>1. PICK x \in Revision : AlbumOf[x] = a /\ status[x] = "published" /\ status'[x] # "published"
      BY <1>1 DEF Current, Revisions
    <2>2. \A r \in Request : ~CommitRevision(r)
      <3> SUFFICES ASSUME NEW r \in Request, CommitRevision(r) PROVE FALSE
        OBVIOUS
      <3>1. Target(r) \in Revision /\ status[Target(r)] # "published"
        BY <1>1, JobForms DEF CommitRevision, At, IInv, JobInv, TargetInv, Target
      <3>2. x \in retired[r]
        BY <2>1, <3>1 DEF CommitRevision
      <3>3. job[r].op = "publish" /\ AlbumOf[Target(r)] = a
        BY <1>1, <2>1, <3>2 DEF IInv, RetiredInv
      <3>4. status'[Target(r)] = "published"
        BY <3>1, <3>3 DEF CommitRevision
      <3> QED
        BY <1>1, <3>1, <3>3, <3>4 DEF Current, Revisions
    <2>3. PICK r \in Request : ArchiveRevision(r)
      <3>1. status' # status
        BY <2>1
      <3>2. /\ \A r \in Request : ~CommitCollections(r)
            /\ \A c \in Collector, b \in Album : ~RemoveCollection(c, b)
        BY <3>1 DEF CommitCollections, RemoveCollection, Unpin
      <3> QED
        BY <1>1, <2>2, <3>1, <3>2, OtherStepsSerial DEF Next, vars, catalog
    <2>4. Target(r) = x
      BY <1>1, <2>1, <2>3 DEF ArchiveRevision, Archive, IInv, TypeOK
    <2> QED
      BY <2>1, <2>3, <2>4
  <1>2. IInv /\ [Next]_vars =>
          [\A a \in Album :
             Current(a) # {} /\ Current(a)' = {} =>
               \E r \in Request : ArchiveRevision(r) /\ AlbumOf[Target(r)] = a]_vars
    BY <1>1
  <1> QED
    BY <1>2, Invariance, PTL DEF Spec, PublicationLeavesNoGap
-----------------------------------------------------------------------------
(* Who holds a lock, and what a collector's request has done so far.       *)

\* A request holds rows of the catalog from its first statement to its end, and
\* only its target's until it has locked what it retires.
HoldInv ==
  \A x \in Revision : lock[x] # NoRequest =>
    /\ pc[lock[x]] \in {"locked", "scanned", "ready", "written"}
    /\ pc[lock[x]] \in {"locked", "scanned"} => x = Target(lock[x])

\* An onboarding holds its collector's profile, and nobody else does.
ProfileInv ==
  /\ \A c \in Collector : profile[c] # NoRequest =>
       pc[profile[c]] \in {"collecting", "found", "inserting"}
  /\ \A r \in Request :
       pc[r] \in {"collecting", "found", "inserting"} /\ job[r].op = "onboard" =>
         profile[Owner(r)] = r

\* A request inserts collections of the albums it was asked for, each once.
AlbumsInv ==
  \A r \in Request : pc[r] \in {"collecting", "found", "inserting"} =>
    /\ job[r].op = "create" => \E a \in Album : job[r].albums = {a}
    /\ \A a \in Album : added[r][a] # NoRevision => a \in job[r].albums
    /\ pc[r] \in {"found", "inserting"} =>
         \E a \in Todo(r) : \A x \in found[r] : AlbumOf[x] = a

WaitInv == HoldInv /\ ProfileInv /\ AlbumsInv

\* At the start nobody holds anything.
LEMMA InitWaitInv == Init => WaitInv
  BY DEF Init, WaitInv, HoldInv, ProfileInv, AlbumsInv

\* A request that ends gives everything back.
LEMMA EndWaits ==
  ASSUME IInv, WaitInv, NEW r \in Request, Finish(r)
  PROVE  WaitInv'
  <1> USE Placeholders
  <1>1. /\ pc'[r] = "idle"
        /\ \A q \in Request \ {r} :
             /\ pc'[q] = pc[q] /\ job'[q] = job[q] /\ found'[q] = found[q]
             /\ added'[q] = added[q]
        /\ \A x \in Revision : lock'[x] # NoRequest => lock'[x] = lock[x] /\ lock[x] \in Request \ {r}
        /\ \A c \in Collector : profile'[c] # NoRequest =>
             profile'[c] = profile[c] /\ profile[c] \in Request \ {r}
        /\ \A c \in Collector : profile[c] # r => profile'[c] = profile[c]
    BY DEF IInv, TypeOK, Finish
  <1>2. HoldInv'
    BY <1>1 DEF WaitInv, HoldInv, Target
  <1>3. ProfileInv'
    <2>1. \A q \in Request : pc[q] \in {"collecting", "found", "inserting"} => Owner(q) \in Collector
      BY JobForms DEF IInv, JobInv, Owner
    <2> QED
      BY <1>1, <2>1 DEF WaitInv, ProfileInv, Owner
  <1>4. AlbumsInv'
    BY <1>1 DEF WaitInv, AlbumsInv, Todo
  <1> QED
    BY <1>2, <1>3, <1>4 DEF WaitInv

\* A new request holds nothing yet; createCollection is given one album.
LEMMA BeginWaits ==
  ASSUME IInv, WaitInv, NEW r \in Request, NEW j \in Asked, Begin(r, j)
  PROVE  WaitInv'
  <1> USE Placeholders DEF Begin, Goto, locks
  <1>1. j \in RevisionJob \cup CollectJob
    BY RequestAssumption
  <1>2. /\ pc[r] = "idle" /\ pc'[r] = (IF j.op = "create" THEN "collecting" ELSE "started")
        /\ job'[r] = j
        /\ \A q \in Request \ {r} : pc'[q] = pc[q] /\ job'[q] = job[q]
    BY <1>1 DEF IInv, TypeOK
  <1>3. HoldInv'
    BY <1>2 DEF WaitInv, HoldInv, Target, IInv, TypeOK
  <1>4. ProfileInv'
    BY <1>2 DEF WaitInv, ProfileInv, Owner, IInv, TypeOK
  <1>5. \A a \in Album : added[r][a] = NoRevision
    BY <1>2 DEF IInv, AddedInv
  <1>6. AlbumsInv'
    <2> SUFFICES ASSUME NEW q \in Request, pc'[q] \in {"collecting", "found", "inserting"}
                 PROVE  /\ job'[q].op = "create" => \E a \in Album : job'[q].albums = {a}
                        /\ \A a \in Album : added[q][a] # NoRevision => a \in job'[q].albums
                        /\ pc'[q] \in {"found", "inserting"} =>
                             \E a \in Todo(q)' : \A x \in found[q] : AlbumOf[x] = a
      BY DEF AlbumsInv
    <2>1. CASE q = r
      BY <1>2, <1>5, <2>1
    <2>2. CASE q # r
      BY <1>2, <2>2 DEF WaitInv, AlbumsInv, Todo
    <2> QED
      BY <2>1, <2>2
  <1> QED
    BY <1>3, <1>4, <1>6 DEF WaitInv

\* Statements on revisions: the rows that are locked were free.
LEMMA RevisionWaits ==
  ASSUME IInv, WaitInv, NEW r \in Request,
         \/ InsertTemplate(r) \/ LockDraft(r) \/ ScanCurrent(r) \/ ArchiveCurrent(r)
         \/ PublishTarget(r)
  PROVE  WaitInv'
  <1> USE Placeholders DEF InsertTemplate, LockDraft, ScanCurrent, ArchiveCurrent, PublishTarget,
                           Goto, locks
  <1>1. /\ pc[r] \in {"started", "locked", "scanned", "ready"} /\ job[r] \in RevisionJob
        /\ pc'[r] \in {"locked", "scanned", "ready", "written"}
        /\ \A q \in Request \ {r} : pc'[q] = pc[q] /\ found'[q] = found[q]
        /\ UNCHANGED <<profile, job, added>>
    BY JobForms DEF At, IInv, TypeOK, JobInv
  <1>2. HoldInv'
    <2>1. CASE InsertTemplate(r) \/ LockDraft(r)
      <3>1. Target(r) \in Revision /\ lock' = [lock EXCEPT ![Target(r)] = r] /\ pc[r] = "started"
        BY <1>1, <2>1, JobForms DEF At, Target
      <3> QED
        BY <1>1, <3>1 DEF WaitInv, HoldInv, Target, IInv, TypeOK
    <2>2. CASE ScanCurrent(r)
      BY <1>1, <2>2 DEF At, WaitInv, HoldInv, Target, IInv, TypeOK
    <2>3. CASE ArchiveCurrent(r)
      <3>1. /\ pc'[r] = "ready"
            /\ \A x \in Revision : lock'[x] = r \/ lock'[x] = lock[x]
        BY <2>3 DEF IInv, TypeOK
      <3> QED
        BY <1>1, <3>1 DEF WaitInv, HoldInv, Target, IInv, TypeOK
    <2>4. CASE PublishTarget(r)
      <3>1. pc'[r] = "written" /\ lock' = lock
        BY <2>4 DEF IInv, TypeOK
      <3> QED
        BY <1>1, <3>1 DEF WaitInv, HoldInv, Target, IInv, TypeOK
    <2> QED
      BY <2>1, <2>2, <2>3, <2>4
  <1>3. ProfileInv'
    BY <1>1 DEF WaitInv, ProfileInv, Owner, IInv, TypeOK
  <1>4. AlbumsInv'
    BY <1>1 DEF WaitInv, AlbumsInv, Todo
  <1> QED
    BY <1>2, <1>3, <1>4 DEF WaitInv

\* The profile row was free.
LEMMA OnboardingWaits ==
  ASSUME IInv, WaitInv, NEW r \in Request, StartOnboarding(r)
  PROVE  WaitInv'
  <1> USE Placeholders DEF StartOnboarding, Goto, catalog
  <1>1. /\ pc[r] = "started" /\ job[r] \in CollectJob /\ job[r].op = "onboard"
        /\ Owner(r) \in Collector
    BY JobForms DEF At, IInv, JobInv, Owner
  <1>2. profile[Owner(r)] = NoRequest
    <2>1. WaitsFor(r) = {profile[Owner(r)]} \ {NoRequest}
      BY <1>1 DEF WaitsFor
    <2> QED
      BY <2>1 DEF At
  <1>3. /\ pc'[r] = "collecting" /\ \A q \in Request \ {r} : pc'[q] = pc[q]
        /\ profile'[Owner(r)] = r
        /\ \A c \in Collector : c # Owner(r) => profile'[c] = profile[c]
        /\ UNCHANGED <<lock, job, found, added>>
    BY <1>1 DEF IInv, TypeOK
  <1>4. HoldInv'
    BY <1>1, <1>3 DEF WaitInv, HoldInv, Target, IInv, TypeOK
  <1>5. ProfileInv'
    <2>1. \A c \in Collector : profile'[c] # NoRequest =>
            pc'[profile'[c]] \in {"collecting", "found", "inserting"}
      BY <1>1, <1>3 DEF WaitInv, ProfileInv, IInv, TypeOK
    <2>2. ASSUME NEW q \in Request, q # r, pc[q] \in {"collecting", "found", "inserting"},
                 job[q].op = "onboard"
          PROVE  profile'[Owner(q)] = q
      <3>1. profile[Owner(q)] = q /\ Owner(q) \in Collector
        BY <2>2, JobForms DEF WaitInv, ProfileInv, IInv, JobInv, Owner
      <3> QED
        BY <1>2, <1>3, <3>1
    <2> QED
      BY <1>3, <2>1, <2>2 DEF ProfileInv, Owner
  <1>6. AlbumsInv'
    <2>1. \A a \in Album : added[r][a] = NoRevision
      BY <1>1 DEF IInv, AddedInv
    <2> QED
      BY <1>1, <1>3, <2>1 DEF WaitInv, AlbumsInv, Todo
  <1> QED
    BY <1>4, <1>5, <1>6 DEF WaitInv

\* The statements of createCollection for an album of the request.
LEMMA CollectingWaits ==
  ASSUME IInv, WaitInv, NEW r \in Request,
         (\E a \in Album : FindCurrent(r, a)) \/ PassTrigger(r) \/ InsertCollection(r)
  PROVE  WaitInv'
  <1> USE Placeholders DEF FindCurrent, PassTrigger, InsertCollection, Goto, locks
  <1>1. /\ pc[r] \in {"collecting", "found", "inserting"}
        /\ pc'[r] \in {"collecting", "found", "inserting"}
        /\ \A q \in Request \ {r} : pc'[q] = pc[q] /\ found'[q] = found[q] /\ added'[q] = added[q]
        /\ UNCHANGED <<lock, profile, job>>
    BY DEF At, IInv, TypeOK
  <1>2. HoldInv'
    BY <1>1 DEF WaitInv, HoldInv, Target, IInv, TypeOK
  <1>3. ProfileInv'
    BY <1>1 DEF WaitInv, ProfileInv, Owner, IInv, TypeOK
  <1>4. AlbumsInv'
    <2>1. ASSUME NEW q \in Request, q # r, pc'[q] \in {"collecting", "found", "inserting"}
          PROVE  /\ job'[q].op = "create" => \E a \in Album : job'[q].albums = {a}
                 /\ \A a \in Album : added'[q][a] # NoRevision => a \in job'[q].albums
                 /\ pc'[q] \in {"found", "inserting"} =>
                      \E a \in Todo(q)' : \A x \in found'[q] : AlbumOf[x] = a
      BY <1>1, <2>1 DEF WaitInv, AlbumsInv, Todo
    <2>2. /\ job[r].op = "create" => \E a \in Album : job[r].albums = {a}
          /\ \A a \in Album : added[r][a] # NoRevision => a \in job[r].albums
      BY <1>1 DEF WaitInv, AlbumsInv
    <2>3. \A a \in Album : added'[r][a] # NoRevision => a \in job[r].albums
      <3>1. CASE UNCHANGED added
        BY <2>2, <3>1
      <3>2. CASE InsertCollection(r)
        <4>1. PICK x \in found[r] : added' = [added EXCEPT ![r][AlbumOf[x]] = x]
          BY <3>2
        <4>2. AlbumOf[x] \in job[r].albums
          BY <3>2 DEF At, WaitInv, AlbumsInv, Todo
        <4>3. added'[r] = [added[r] EXCEPT ![AlbumOf[x]] = x] /\ added[r] \in Pins
          BY <4>1 DEF IInv, TypeOK
        <4> QED
          BY <2>2, <4>2, <4>3 DEF Pins
      <3> QED
        BY <3>1, <3>2
    <2>4. pc'[r] \in {"found", "inserting"} =>
            \E a \in Todo(r)' : \A x \in found'[r] : AlbumOf[x] = a
      <3>1. ASSUME NEW a \in Album, FindCurrent(r, a)
            PROVE  \E b \in Todo(r)' : \A x \in found'[r] : AlbumOf[x] = b
        BY <3>1 DEF Todo, Current, Revisions, IInv, TypeOK
      <3>2. CASE PassTrigger(r)
        BY <3>2 DEF At, WaitInv, AlbumsInv, Todo
      <3>3. CASE InsertCollection(r)
        BY <3>3 DEF IInv, TypeOK
      <3> QED
        BY <3>1, <3>2, <3>3
    <2> QED
      BY <1>1, <2>1, <2>2, <2>3, <2>4 DEF AlbumsInv
  <1> QED
    BY <1>2, <1>3, <1>4 DEF WaitInv

\* Every step keeps WaitInv.
LEMMA NextWaits == IInv /\ WaitInv /\ [Next]_vars => WaitInv'
  <1> SUFFICES ASSUME IInv, WaitInv, [Next]_vars PROVE WaitInv'
    OBVIOUS
  <1>1. CASE UNCHANGED <<locks, progress>>
    BY <1>1 DEF locks, progress, WaitInv, HoldInv, ProfileInv, AlbumsInv, Todo, Target, Owner
  <1>2. ASSUME NEW r \in Request, NEW j \in Asked, Begin(r, j)
        PROVE  WaitInv'
    BY <1>2, BeginWaits
  <1>3. ASSUME NEW r \in Request,
               \/ InsertTemplate(r) \/ LockDraft(r) \/ ScanCurrent(r) \/ ArchiveCurrent(r)
               \/ PublishTarget(r) \/ StartOnboarding(r) \/ PassTrigger(r) \/ InsertCollection(r)
               \/ \E a \in Album : FindCurrent(r, a)
        PROVE  WaitInv'
    BY <1>3, RevisionWaits, OnboardingWaits, CollectingWaits
  <1>4. ASSUME NEW r \in Request,
               \/ CommitRevision(r) \/ ArchiveRevision(r) \/ RefuseRevision(r)
               \/ CommitCollections(r) \/ RefuseCollections(r) \/ Abort(r)
        PROVE  WaitInv'
    <2>1. Finish(r)
      BY <1>4 DEF CommitRevision, ArchiveRevision, RefuseRevision, CommitCollections,
                  RefuseCollections, Abort
    <2> QED
      BY <2>1, EndWaits
  <1> QED
    BY <1>1, <1>2, <1>3, <1>4 DEF Next, vars, RemoveCollection

\* In every reachable state rows are held only by requests that have locked
\* them, an onboarding has its collector's profile, and a request has inserted
\* collections of its own albums only.
THEOREM WaitInvariance == Spec => [](IInv /\ WaitInv)
  <1>1. Init => IInv /\ WaitInv
    BY InitIInv, InitWaitInv
  <1>2. IInv /\ WaitInv /\ [Next]_vars => (IInv /\ WaitInv)'
    BY NextIInv, NextWaits
  <1> QED
    BY <1>1, <1>2, PTL DEF Spec

-----------------------------------------------------------------------------
(* How far a request is from waiting for nobody.                           *)
Rank(r) ==
  CASE pc[r] = "started" -> 4
    [] pc[r] = "scanned" -> 3
    [] pc[r] = "ready" -> IF Rivals(r) = {} THEN 1 ELSE 2
    [] pc[r] = "inserting" -> IF job[r].op = "onboard" THEN 1 ELSE 2
    [] OTHER -> 0

\* A row of the catalog is waited for by a request that has none, or, on
\* its way to retire it, by one that holds only its own draft.
LEMMA HolderRank ==
  ASSUME IInv, WaitInv, NEW r \in Request, NEW x \in Revision, NEW q \in Holder(x),
         pc[r] = "started" \/ (pc[r] = "scanned" /\ x \in found[r])
  PROVE  Rank(q) < Rank(r)
  <1> USE Placeholders
  <1>1. q = lock[x] /\ lock[x] # NoRequest /\ q \in Request
    BY DEF Holder, IInv, TypeOK
  <1>2. pc[q] \in {"locked", "scanned", "ready", "written"}
    BY <1>1 DEF WaitInv, HoldInv
  <1>3. Rank(q) \in {0, 1, 2, 3}
    BY <1>2 DEF Rank
  <1>4. CASE pc[r] = "started"
    BY <1>3, <1>4 DEF Rank
  <1>5. CASE pc[r] = "scanned" /\ x \in found[r]
    <2>1. pc[q] \notin {"locked", "scanned"}
      <3> SUFFICES ASSUME pc[q] \in {"locked", "scanned"} PROVE FALSE
        OBVIOUS
      <3>1. x = Target(q) /\ job[q].op = "publish"
        BY <1>1 DEF WaitInv, HoldInv, IInv, JobInv
      <3>2. status[x] = "draft"
        BY <1>1, <3>1 DEF IInv, TargetInv
      <3>3. status[x] \in Pinnable
        BY <1>5 DEF IInv, FoundInv
      <3> QED
        BY <3>2, <3>3 DEF Pinnable
    <2>2. Rank(q) \in {0, 1, 2}
      BY <1>2, <2>1 DEF Rank
    <2> QED
      BY <1>5, <2>2 DEF Rank
  <1> QED
    BY <1>4, <1>5

\* The entry of the index is that of the one current revision: who has retired
\* it has no other rival, and waits at most for a request that has published.
LEMMA IndexRank ==
  ASSUME IInv, NEW r \in Request, pc[r] = "ready", NEW q \in IndexWaits(r)
  PROVE  Rank(q) < Rank(r)
  <1>1. q \in Request
    BY DEF IndexWaits
  <1>2. CASE pc[q] = "written"
    BY <1>2 DEF Rank
  <1>3. CASE pc[q] # "written"
    <2>1. PICK y \in retired[q] : y \in Rivals(r)
      BY <1>3 DEF IndexWaits, Publishing
    <2>2. pc[q] = "ready" /\ AlbumOf[y] = AlbumOf[Target(q)] /\ job[q] \in RevisionJob
      BY <1>1, <1>3, <2>1 DEF IInv, RetiredInv, JobInv
    <2>3. Target(q) \in Revision /\ AlbumOf[Target(q)] \in Album
      BY <2>2, JobForms, CatalogAssumption DEF Target
    <2>4. y \in Current(AlbumOf[Target(q)])
      BY <2>1, <2>2 DEF Rivals, Current, Revisions
    <2>5. Rivals(q) = {}
      BY <2>1, <2>3, <2>4 DEF IInv, OneCurrentRevision, Rivals
    <2>6. Rank(q) = 1 /\ Rank(r) = 2
      BY <2>1, <2>2, <2>5 DEF Rank
    <2> QED
      BY <2>6
  <1> QED
    BY <1>2, <1>3

\* A request for one album has inserted nothing while it waits, and a collector
\* has one onboarding at a time: what is waited for is done, or is that one.
LEMMA SlotRank ==
  ASSUME IInv, WaitInv, NEW r \in Request, pc[r] = "inserting", NEW q \in SlotWaits(r)
  PROVE  Rank(q) < Rank(r)
  <1>1. PICK x \in found[r] : added[q][AlbumOf[x]] # NoRevision
    BY DEF SlotWaits
  <1> DEFINE a == AlbumOf[x]
  <1>2. q \in Request /\ q # r /\ job[q] \in CollectJob /\ Owner(q) = Owner(r) /\ a \in Album
    BY <1>1, CatalogAssumption DEF SlotWaits, IInv, TypeOK
  <1>3. pc[q] \in {"collecting", "found", "inserting"}
    BY <1>1, <1>2 DEF IInv, AddedInv
  <1>4. CASE pc[q] # "inserting"
    <2>1. Rank(q) = 0 /\ Rank(r) \in {1, 2}
      BY <1>3, <1>4 DEF Rank
    <2> QED
      BY <2>1
  <1>5. CASE pc[q] = "inserting"
    <2>1. a \in job[q].albums /\ \E b \in Todo(q) : TRUE
      BY <1>1, <1>2, <1>5 DEF WaitInv, AlbumsInv
    <2>2. job[q].op # "create"
      BY <1>1, <1>2, <1>5, <2>1 DEF WaitInv, AlbumsInv, Todo
    <2>3. job[q].op = "onboard" /\ profile[Owner(q)] = q
      BY <1>2, <1>5, <2>2, JobForms DEF WaitInv, ProfileInv
    <2>4. job[r].op # "onboard"
      BY <1>2, <2>3 DEF WaitInv, ProfileInv
    <2>5. Rank(q) = 1 /\ Rank(r) = 2
      BY <1>5, <2>3, <2>4 DEF Rank
    <2> QED
      BY <2>5
  <1> QED
    BY <1>4, <1>5

\* Whoever is waited for has a lower rank.
LEMMA WaitsDescend ==
  ASSUME IInv, WaitInv, NEW r \in Request, NEW q \in WaitsFor(r)
  PROVE  q \in Request /\ Rank(q) < Rank(r)
  <1> USE Placeholders
  <1>1. CASE pc[r] = "started" /\ job[r].op \in {"publish", "archive", "import", "seed"}
    <2>1. q \in Holder(Target(r))
      BY <1>1 DEF WaitsFor
    <2>2. Target(r) \in Revision
      BY <1>1, JobForms DEF IInv, JobInv, Target
    <2> QED
      BY <1>1, <2>1, <2>2, HolderRank DEF Holder, IInv, TypeOK
  <1>2. CASE pc[r] = "started" /\ job[r].op = "onboard"
    <2>1. q = profile[Owner(r)] /\ q # NoRequest
      BY <1>2 DEF WaitsFor
    <2>2. Owner(r) \in Collector
      BY <1>2, JobForms DEF IInv, JobInv, Owner
    <2>3. q \in Request /\ pc[q] \in {"collecting", "found", "inserting"}
      BY <2>1, <2>2 DEF WaitInv, ProfileInv, IInv, TypeOK
    <2>4. Rank(q) \in {0, 1, 2} /\ Rank(r) = 4
      BY <1>2, <2>3 DEF Rank
    <2> QED
      BY <2>3, <2>4
  <1>3. CASE pc[r] = "scanned"
    <2>1. PICK x \in found[r] : q \in Holder(x)
      BY <1>3 DEF WaitsFor
    <2> QED
      BY <1>3, <2>1, HolderRank DEF Holder, IInv, TypeOK
  <1>4. CASE pc[r] = "ready"
    <2>1. q \in IndexWaits(r)
      BY <1>4 DEF WaitsFor
    <2> QED
      BY <1>4, <2>1, IndexRank DEF IndexWaits
  <1>5. CASE pc[r] = "inserting"
    <2>1. q \in SlotWaits(r)
      BY <1>5 DEF WaitsFor
    <2> QED
      BY <1>5, <2>1, SlotRank DEF SlotWaits
  <1>6. CASE /\ ~(pc[r] = "started" /\ job[r].op \in {"publish", "archive", "import", "seed", "onboard"})
             /\ pc[r] \notin {"scanned", "ready", "inserting"}
    BY <1>6 DEF WaitsFor
  <1> QED
    BY <1>1, <1>2, <1>3, <1>4, <1>5, <1>6

\* Requests never wait for each other in a circle for revisions, index entries,
\* profiles and collections, however many there are and in whatever order a
\* client lists its albums: one of the fewest steps from its end waits for none.
THEOREM WaitsEnd == Spec => []NoCircularWait
  <1>1. IInv /\ WaitInv => NoCircularWait
    <2> SUFFICES ASSUME IInv, WaitInv, NEW S \in SUBSET Request, S # {},
                        \A r \in S : WaitsFor(r) \cap S # {}
                 PROVE  FALSE
      BY DEF NoCircularWait
    <2>1. \A r \in S : Rank(r) \in {0, 1, 2, 3, 4}
      BY DEF Rank
    <2>2. \A r \in S : \E q \in S : Rank(q) < Rank(r)
      <3> SUFFICES ASSUME NEW r \in S PROVE \E q \in S : Rank(q) < Rank(r)
        OBVIOUS
      <3>1. PICK q \in WaitsFor(r) : q \in S
        OBVIOUS
      <3> QED
        BY <3>1, WaitsDescend
    <2>3. \A r \in S : Rank(r) \notin {0, 1}
      BY <2>1, <2>2
    <2>4. \A r \in S : Rank(r) \notin {2, 3}
      BY <2>1, <2>2, <2>3
    <2> QED
      BY <2>1, <2>2, <2>3, <2>4
  <1> QED
    BY <1>1, WaitInvariance, PTL

-----------------------------------------------------------------------------
(* What a collector gains.                                                 *)

\* What the commit adds to a collector's collections is what was asked for.
LEMMA CommitGains ==
  ASSUME IInv, WaitInv, NEW r \in Request, CommitCollections(r), NEW c \in Collector,
         {a \in Album : collection'[c][a] \notin {NoRevision, collection[c][a]}} # {}
  PROVE  /\ job[r] \in CollectJob /\ Owner(r) = c
         /\ job[r].albums = {a \in Album : collection'[c][a] \notin {NoRevision, collection[c][a]}}
         /\ job[r].op = "onboard" => c \in onboarded'
  <1> DEFINE pinned == [a \in Album |-> IF added[r][a] # NoRevision THEN added[r][a]
                                        ELSE collection[Owner(r)][a]]
             gained == {a \in Album : collection'[c][a] \notin {NoRevision, collection[c][a]}}
  <1>1. /\ pc[r] = "collecting" /\ job[r] \in CollectJob /\ Owner(r) \in Collector
        /\ job[r].albums \in SUBSET Album
    BY JobForms DEF CommitCollections, At, IInv, JobInv, Owner
  <1>2. /\ collection' = [collection EXCEPT ![Owner(r)] = pinned]
        /\ Todo(r) = {}
        /\ job[r].op = "onboard" => onboarded' = onboarded \cup {Owner(r)}
    BY DEF CommitCollections
  <1>3. /\ collection'[Owner(r)] = pinned
        /\ \A d \in Collector : d # Owner(r) => collection'[d] = collection[d]
    BY <1>1, <1>2 DEF IInv, TypeOK
  <1>4. Owner(r) = c
    <2>1. PICK a \in Album : collection'[c][a] # collection[c][a]
      OBVIOUS
    <2> QED
      BY <1>3, <2>1
  <1>5. \A a \in Album : added[r][a] # NoRevision <=> a \in job[r].albums
    BY <1>1, <1>2 DEF WaitInv, AlbumsInv, Todo
  <1>6. \A a \in Album : a \in gained <=> added[r][a] # NoRevision
    <2> SUFFICES ASSUME NEW a \in Album
                 PROVE  collection'[c][a] \notin {NoRevision, collection[c][a]} <=> added[r][a] # NoRevision
      OBVIOUS
    <2>1. collection'[c][a] = IF added[r][a] # NoRevision THEN added[r][a] ELSE collection[c][a]
      BY <1>3, <1>4
    <2>2. added[r][a] # NoRevision => collection[c][a] = NoRevision
      BY <1>4 DEF IInv, AddedInv
    <2> QED
      BY <2>1, <2>2
  <1>7. job[r].albums = gained
    BY <1>1, <1>5, <1>6
  <1> QED
    BY <1>1, <1>2, <1>4, <1>7

\* No other step gives a collector anything.
LEMMA OnlyCommitsGain ==
  ASSUME IInv, [Next]_vars, NEW c \in Collector, NEW a \in Album,
         collection'[c][a] \notin {NoRevision, collection[c][a]}
  PROVE  \E r \in Request : CommitCollections(r)
  <1>1. collection' # collection
    OBVIOUS
  <1>2. ASSUME NEW d \in Collector, NEW b \in Album, RemoveCollection(d, b)
        PROVE  FALSE
    <2>1. \/ collection'[c][a] = NoRevision
          \/ collection'[c][a] = collection[c][a]
      BY <1>2 DEF RemoveCollection, Unpin, IInv, TypeOK, Pins
    <2> QED
      BY <2>1
  <1>3. \A r \in Request : ~CommitRevision(r) /\ ~ArchiveRevision(r)
    BY <1>1 DEF CommitRevision, ArchiveRevision, Archive
  <1> QED
    BY <1>1, <1>2, <1>3, OtherStepsSerial DEF Next, vars, catalog

\* completeOnboarding creates the collections of all the albums it was asked
\* for and sets the completion mark, or does neither: what a collector gains in
\* a step is the list of one request, as a whole.
THEOREM AllOrNothing == Spec => OnboardingAllOrNothing
  <1>1. ASSUME IInv, WaitInv, [Next]_vars, NEW c \in Collector,
               {a \in Album : collection'[c][a] \notin {NoRevision, collection[c][a]}} # {}
        PROVE  \E r \in Request :
                 /\ job[r] \in CollectJob /\ Owner(r) = c
                 /\ job[r].albums = {a \in Album : collection'[c][a] \notin {NoRevision, collection[c][a]}}
                 /\ job[r].op = "onboard" => c \in onboarded'
    <2>1. PICK a \in Album : collection'[c][a] \notin {NoRevision, collection[c][a]}
      BY <1>1
    <2>2. PICK r \in Request : CommitCollections(r)
      BY <1>1, <2>1, OnlyCommitsGain
    <2> QED
      BY <1>1, <2>2, CommitGains
  <1>2. IInv /\ WaitInv /\ [Next]_vars =>
          [\A c \in Collector :
             LET gained == {a \in Album : collection'[c][a] \notin {NoRevision, collection[c][a]}}
             IN  gained # {} =>
                   \E r \in Request :
                     /\ job[r] \in CollectJob /\ Owner(r) = c /\ job[r].albums = gained
                     /\ job[r].op = "onboard" => c \in onboarded']_vars
    BY <1>1
  <1> QED
    BY <1>2, WaitInvariance, PTL DEF Spec, OnboardingAllOrNothing
=============================================================================
