------------------------------ MODULE Exports ------------------------------
(***************************************************************************)
(* The lists of a collection as the application shows and exports them,    *)
(* and the downloads: the portable copy of an account                      *)
(* (src/modules/accounts/account-export.ts with the contributions of the   *)
(* identity, collectors, collections and trading modules) and the missing  *)
(* and duplicates lists as CSV (loadCollectionExport in                    *)
(* src/modules/collections/repository.ts).                                 *)
(*                                                                         *)
(* One download at a time, between the requests of Trades, whose writers   *)
(* change the tables under it.  A statement is one step.  A collector has  *)
(* one album, so that its collection is known by its owner; the texts and  *)
(* timestamps of rows are left out.                                        *)
(***************************************************************************)
EXTENDS Trades

CONSTANTS
  Exporter,  \* the collectors who download
  Null, NoFile

ASSUME ExportsAssumption == Exporter \subseteq Collector

VARIABLES
  accounts,  \* the collectors whose account exists, with its profile
  access,    \* collection_share_links and collection_comparison_grants
  file,      \* the download
  since      \* history: the database since it was asked for

exports == <<accounts, access, file, since>>
all     == <<vars, exports>>

Granted == {"none", "active", "revoked"}
NoAccess == [link |-> "none", grant |-> "none"]
DB == [tables |-> tables, accounts |-> accounts, access |-> access]

-----------------------------------------------------------------------------
(* The lists, each by the query or the code that makes it.                 *)

Stickers(d, c) == StickersOf[d.revision[c]]
Kinds == {"missing", "duplicates"}

\* h.sticker_id IS NULL, or h.quantity > 1; a slip would list the only copies.
AnyHeld(kind, n) == IF kind = "missing" THEN n = 0 ELSE n > 0
Listed(kind, n) == IF kind = "missing" THEN n = 0 ELSE n > 1

\* loadCollectionExport: an empty list is a file with its header line.
List(d, c, kind) ==
  IF ~HasCollection(d, c) THEN {}
  ELSE {[sticker  |-> s,
         section  |-> SectionOf[d.revision[c]][s],
         quantity |-> d.quantity[c][s],
         spare    |-> Max({0, d.quantity[c][s] - 1})]
          : s \in {t \in Stickers(d, c) : Listed(kind, d.quantity[c][t])}}

\* The columns each list is written with.
Line(kind, row) ==
  IF kind = "missing" THEN [sticker |-> row.sticker, section |-> row.section] ELSE row
Csv(d, c, kind) == {Line(kind, row) : row \in List(d, c, kind)}

\* listCollections, for the albums overview.
Overview(d, c) ==
  [owned      |-> Cardinality({s \in Stickers(d, c) : d.quantity[c][s] > 0}),
   duplicates |-> MapThenSumSet(LAMBDA s : Max({d.quantity[c][s] - 1, 0}), Stickers(d, c)),
   total      |-> Cardinality(Stickers(d, c))]

\* What the collection view makes of the stickers it has loaded.
Filters == {"all", "missing", "owned", "duplicates"}
Shown(d, c, section, filter) ==
  {s \in Stickers(d, c) :
     /\ section = AnySection \/ SectionOf[d.revision[c]][s] = section
     /\ \/ filter = "all"
        \/ filter = "missing"    /\ d.quantity[c][s] = 0
        \/ filter = "owned"      /\ d.quantity[c][s] > 0
        \/ filter = "duplicates" /\ d.quantity[c][s] > 1}

SectionsOf(d, c) == {SectionOf[d.revision[c]][s] : s \in Stickers(d, c)}
Progress(d, c) ==
  LET owned == Cardinality({s \in Stickers(d, c) : d.quantity[c][s] > 0})
      in(x) == {s \in Stickers(d, c) : SectionOf[d.revision[c]][s] = x}
  IN  [owned      |-> owned,
       missing    |-> Cardinality(Stickers(d, c)) - owned,
       duplicates |-> MapThenSumSet(LAMBDA s : Max({0, d.quantity[c][s] - 1}), Stickers(d, c)),
       total      |-> Cardinality(Stickers(d, c)),
       sections   |-> {[id |-> x, total |-> Cardinality(in(x)),
                        owned |-> Cardinality({s \in in(x) : d.quantity[c][s] > 0})]
                         : x \in SectionsOf(d, c)}]

\* calculateDirectComparison of two collections of the album: one join of both
\* revisions, and then the two lists.
Compared(d, viewer, partner) ==
  {s \in Stickers(d, viewer) \cap Stickers(d, partner) :
     \/ d.quantity[viewer][s] = 0 /\ d.quantity[partner][s] > 1
     \/ d.quantity[viewer][s] > 1 /\ d.quantity[partner][s] = 0}
Comparison(d, viewer, partner) ==
  LET rows   == Compared(d, viewer, partner)
      offers == {s \in rows : d.quantity[viewer][s] = 0 /\ d.quantity[partner][s] > 1}
      needs  == {s \in rows \ offers : d.quantity[viewer][s] > 1 /\ d.quantity[partner][s] = 0}
  IN  [offersToYou  |-> {[sticker |-> s, spare |-> d.quantity[partner][s] - 1] : s \in offers},
       needsFromYou |-> {[sticker |-> s, spare |-> d.quantity[viewer][s] - 1] : s \in needs},
       kind |-> CASE offers # {} /\ needs # {} -> "two-way"
                  [] offers = {} /\ needs = {} -> "none"
                  [] OTHER                     -> "one-way"]
-----------------------------------------------------------------------------
(* The statements of an account export, each in the module that owns the   *)
(* tables, as functions of the database they read.                         *)

\* exportAccountRecord
AccountRecord(e, c) ==
  IF c \in e.accounts THEN [id |-> c, active |-> e.tables.active[c]] ELSE Null

\* exportCollectorProfile
Profile(e, c) == IF c \in e.accounts THEN [displayName |-> DisplayName[c]] ELSE Null

\* exportCollectionsForCollector: every sticker of the revision, then the links.
Holdings(e, c) ==
  IF ~HasCollection(e.tables, c) THEN {}
  ELSE {[sticker  |-> s,
         section  |-> SectionOf[e.tables.revision[c]][s],
         quantity |-> e.tables.quantity[c][s]] : s \in Stickers(e.tables, c)}
Collections(e, c) ==
  IF Holdings(e, c) = {} THEN {}
  ELSE {[revision |-> e.tables.revision[c], holdings |-> Holdings(e, c)]}
ShareLinks(e, c) == e.access[c].link

\* exportTradingDataForCollector: the preference, hidden without a row, and grants.
Preferences(e, c) == IF c \in e.accounts THEN e.tables.visible[c] ELSE FALSE
Grants(e, c) == e.access[c].grant

\* loadAccountDataExport: the parts as one document.
Compose(p) ==
  [account |-> p.account,
   collector |->
     IF p.profile = Null THEN Null
     ELSE [displayName |-> p.profile.displayName,
           visible     |-> p.preferences,
           collections |->
             {[revision   |-> x.revision,
               holdings   |-> x.holdings,
               shareLinks |-> p.links,
               comparisonGrants |-> p.grants] : x \in p.collections}]]

\* The account as it is in the database e.
Portrait(e, c) ==
  Compose([account |-> AccountRecord(e, c), profile |-> Profile(e, c),
           collections |-> Collections(e, c), links |-> ShareLinks(e, c),
           preferences |-> Preferences(e, c), grants |-> Grants(e, c)])
-----------------------------------------------------------------------------
ExportInit ==
  /\ Init
  /\ accounts = Collector
  /\ access = [c \in Collector |->
       IF HasCollection(tables, c) THEN [link |-> "none", grant |-> "active"] ELSE NoAccess]
  /\ file = NoFile /\ since = {}

\* What a step of Trades leaves to the foreign keys: an account that is gone
\* stays gone, and links and grants go with their collection.
Follow ==
  /\ \A c \in Collector \ accounts : ~tables'.active[c] /\ ~HasCollection(tables', c)
  /\ access' = [c \in Collector |-> IF HasCollection(tables', c) THEN access[c] ELSE NoAccess]
  /\ UNCHANGED <<accounts, file>>
  /\ since' = IF file = NoFile THEN since ELSE since \cup {DB'}

\* The owner creates a share link or a comparison grant, or revokes it.
ChangeAccess(c, kind) ==
  /\ HasCollection(tables, c) /\ changes < MaxChanges
  /\ changes' = changes + 1
  /\ access' = [access EXCEPT ![c][kind] = CASE @ = "none"   -> "active"
                                            [] @ = "active"  -> "revoked"
                                            [] @ = "revoked" -> "active"]
  /\ UNCHANGED <<tables, forms, request, accounts, file>>
  /\ since' = IF file = NoFile THEN since ELSE since \cup {DB'}

\* deleteOwnAccount: everything of the account goes in one transaction.
DeleteAccount(c) ==
  /\ c \in accounts
  /\ Write([tables EXCEPT !.active[c] = FALSE, !.visible[c] = FALSE,
                          !.revision[c] = NoCollection,
                          !.quantity[c] = [s \in Sticker |-> 0]])
  /\ accounts' = accounts \ {c}
  /\ access' = [access EXCEPT ![c] = NoAccess]
  /\ since' = IF file = NoFile THEN since ELSE since \cup {DB'}
  /\ Quiet /\ UNCHANGED <<forms, file>>
-----------------------------------------------------------------------------
(* The download.                                                           *)

Still == UNCHANGED <<vars, accounts, access, since>>
Fail(reason) == file' = [owner |-> file.owner, phase |-> reason]

\* GET /api/account/export, or .../collections/[collectionId]/export?type=kind.
Download(c, kind) ==
  /\ file = NoFile /\ phase = "idle" /\ c \in accounts
  /\ file' = [owner |-> c, kind |-> kind, phase |-> "asked"]
  /\ since' = {DB}
  /\ UNCHANGED <<vars, accounts, access>>

Identify ==
  /\ file # NoFile /\ file.phase = "asked"
  /\ IF tables.active[file.owner]
     THEN file' = [file EXCEPT !.phase = IF file.kind = "account" THEN "account" ELSE "meta"]
     ELSE Fail("unauthenticated")
  /\ Still

\* After BEGIN and SET TRANSACTION, the first query takes the snapshot.
ReadAccount ==
  /\ file # NoFile /\ file.phase = "account"
  /\ LET record == AccountRecord(DB, file.owner)
     IN  IF record = Null THEN Fail("unauthenticated")
         ELSE file' = [owner |-> file.owner, kind |-> "account", phase |-> "profile",
                       snapshot |-> DB, account |-> record]
  /\ Still

ReadsCommitted == DB
Sight == file.snapshot

Statement(from, to, part, value) ==
  /\ file # NoFile /\ file.phase = from
  /\ file' = [k \in DOMAIN file \cup {part} |->
       IF k = part THEN value ELSE IF k = "phase" THEN to ELSE file[k]]
  /\ Still

\* Without a profile the copy is complete here.
ReadProfile ==
  LET profile == Profile(Sight, file.owner)
  IN  Statement("profile", IF profile = Null THEN "read" ELSE "collections", "profile", profile)
ReadCollections == Statement("collections", "links", "collections", Collections(Sight, file.owner))
ReadShareLinks  == Statement("links", "preferences", "links", ShareLinks(Sight, file.owner))
ReadPreferences == Statement("preferences", "grants", "preferences", Preferences(Sight, file.owner))
ReadGrants      == Statement("grants", "read", "grants", Grants(Sight, file.owner))

SaveAccount ==
  /\ file # NoFile /\ file.phase = "read"
  /\ file' = [owner |-> file.owner, kind |-> "account", phase |-> "saved", content |-> Compose(file)]
  /\ Still

\* A list takes two statements of their own: the collection, then its stickers.
ReadMeta ==
  /\ file # NoFile /\ file.phase = "meta"
  /\ IF HasCollection(tables, file.owner)
     THEN file' = [file EXCEPT !.phase = "rows"]
     ELSE Fail("notFound")
  /\ Still

ReadRows ==
  /\ file # NoFile /\ file.phase = "rows"
  /\ file' = [owner |-> file.owner, kind |-> file.kind, phase |-> "saved",
              content |-> Csv(tables, file.owner, file.kind)]
  /\ Still

Ended == {"saved", "unauthenticated", "notFound", "failed"}

\* A statement fails: the transaction is rolled back, and the answer is an error.
Break ==
  /\ file # NoFile /\ file.phase \notin Ended
  /\ Fail("failed")
  /\ Still

Close ==
  /\ file # NoFile /\ file.phase \in Ended
  /\ file' = NoFile /\ since' = {}
  /\ UNCHANGED <<vars, accounts, access>>

Writer(c) ==
  \/ SetQuantity(c) /\ Follow
  \/ RemoveCollection(c) /\ Follow
  \/ CreateCollection(c) /\ Follow
  \/ SetStatus(c) /\ Follow

PreferenceForm(c) ==
  \/ LoadForm(c) /\ Follow
  \/ ShowForm(c) /\ Follow
  \/ Update(c) /\ Follow
  \/ SavePreference(c) /\ Follow
  \/ Saved(c) /\ Follow
  \/ NotSaved(c) /\ Follow
  \/ Abandon(c) /\ Follow
  \/ SaveLate(c) /\ Follow

Served ==
  \/ ResolveViewer /\ Follow
  \/ ReadOwner /\ Follow
  \/ ReadSummary /\ Follow
  \/ ReadDetails /\ Follow
  \/ Render /\ Follow

ExportNext ==
  \/ \E c \in Collector : Writer(c)
  \/ \E c \in FormOwner : PreferenceForm(c)
  \/ file = NoFile /\ Open /\ Follow
  \/ ChangeFilter /\ Follow
  \/ TurnPage /\ Follow
  \/ Leave /\ Follow
  \/ Served
  \/ \E c \in Exporter : \/ ChangeAccess(c, "link") \/ ChangeAccess(c, "grant")
                         \/ DeleteAccount(c)
                         \/ \E kind \in {"account"} \cup Kinds : Download(c, kind)
  \/ Identify
  \/ ReadAccount \/ ReadProfile \/ ReadCollections \/ ReadShareLinks
  \/ ReadPreferences \/ ReadGrants \/ SaveAccount
  \/ ReadMeta \/ ReadRows
  \/ Break \/ Close

ExportSpec == ExportInit /\ [][ExportNext]_all /\ WF_all(Served)
-----------------------------------------------------------------------------
ExportTypeOK ==
  /\ TypeOK
  /\ accounts \subseteq Collector
  /\ access \in [Collector -> [link : Granted, grant : Granted]]
  /\ file # NoFile => file.owner \in Exporter

\* Whatever changes while it is put together from six statements of four
\* modules, the copy of an account is the account as it was at one moment since
\* the download was asked for (account-export.ts:138).  A list of stickers is
\* that of one moment too; one of a collection that was removed may be empty.
FileOfOneMoment ==
  file # NoFile /\ file.phase = "saved" =>
    \E e \in since :
      file.content = IF file.kind = "account" THEN Portrait(e, file.owner)
                     ELSE Csv(e.tables, file.owner, file.kind)

\* Seven queries and the code of the view say what a collection has, misses and
\* can give away; they say the same.  The filters of the view select what the
\* CSV lists name, the view's sections, its totals and the overview's add up; a
\* direct comparison lists the stickers of a match, and what they offer is
\* missing here and is a spare copy of the partner's list.
Spares(rows) == MapThenSumSet(LAMBDA row : row.spare, rows)
OwnSticker(rows) == {row.sticker : row \in rows}
ListsAgree ==
  \A c \in {x \in Collector : HasCollection(tables, x)} :
    LET missing    == Csv(tables, c, "missing")
        duplicates == Csv(tables, c, "duplicates")
        progress   == Progress(tables, c)
        overview   == Overview(tables, c)
    IN  /\ OwnSticker(missing) = Shown(tables, c, AnySection, "missing")
        /\ OwnSticker(duplicates) = Shown(tables, c, AnySection, "duplicates")
        /\ Spares(duplicates) = progress.duplicates
        /\ Cardinality(missing) = progress.missing
        /\ overview = [owned |-> progress.owned, duplicates |-> progress.duplicates,
                       total |-> progress.total]
        /\ MapThenSumSet(LAMBDA x : x.owned, progress.sections) = progress.owned
        /\ \A partner \in {x \in Collector \ {c} : HasCollection(tables, x)} :
             LET both == Comparison(tables, c, partner)
             IN  /\ both.offersToYou = Offers(tables, Ask(c), partner)
                 /\ both.needsFromYou = Needs(tables, Ask(c), partner)
                 /\ (both.kind = "none") = (Compared(tables, c, partner) = {})
                 /\ \A line \in both.offersToYou :
                      /\ line.sticker \in OwnSticker(missing)
                      /\ \E row \in Csv(tables, partner, "duplicates") :
                           row.sticker = line.sticker /\ row.spare = line.spare
=============================================================================
