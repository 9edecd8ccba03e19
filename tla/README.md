# TLA+ models of Stickerfolio

Stickerfolio is a Next.js application over PostgreSQL in which collectors keep
the stickers they own per album, compare collections and find trades. The
program keeps almost no state in memory: its components are sets of
transactions over shared tables, executed by concurrent requests that each
hold one database client, plus a handful of browser views that show their own
copy of that state. What is hard in it is therefore what transactions do to
each other at READ COMMITTED, and what a view or a request still believes
after the tables have moved on.

Every module is written from the code under `src/` and `migrations/`; `PROJECT.json` maps each definition to the lines it stands for.

## 1. Inventory

| Component | State | Operations | Hard behaviour | What makes it correct |
| --- | --- | --- | --- | --- |
| **Administrator lifecycle** (`modules/identity/administrator-lock.ts`, `account-lifecycle.ts`, `account-store.ts`, `modules/admin/users.ts`) | `user.role`, `user.status`, `session` rows, row locks | suspend, reactivate, promote, demote, delete, own deactivation and deletion, create, password reset, email change | checks on rows that change while the statement waits; rows locked in no order; stale principals | an active administrator always remains; a panel mutation is made by a current administrator; mutations are serializable; nobody waits for ever |
| **Sessions and sign-in** (`auth/better-auth.ts`, `auth/principal.ts`, `modules/identity/change-password.ts`, `change-email.ts`, the auth gateway) | `session`, `account.password`, `mustChangePassword` | sign in, resolve a principal, change password or email, sign out, reset by an administrator | a sign-in that overlaps a password change or a suspension; a password verified before the transaction; two rows locked in two orders | old credentials open nothing after a change; every effect was authorized at a moment of its request; a reset stands |
| **Registration and invitations** (`modules/identity/registration.ts`, `invitations.ts`, `bootstrap.ts`, their pages, forms and routes) | `invitations`, `user`, the mode of the server | create, revoke, open and accept an invitation; open registration; managed users; bootstrap | acceptance twice, or against revocation and expiry; one address wanted by several transactions; two bootstraps; restarts | one account per invitation; a revoked or expired one creates none; one bootstrap administrator |
| **Catalog and pinning** (`modules/catalog/repository.ts`, migration 000002) | albums, revisions and their status, templates, stickers | draft, publish, archive, publish-and-archive, correct metadata | concurrent publications; pinning a revision that is being archived | at most one published revision; published content is immutable; a collection keeps its revision |
| **Collections and holdings** (`modules/collections/repository.ts`, `access.ts`, the holdings route) | `collections`, `holdings` | create, onboard, remove, list, read stickers, add to or set a quantity | lost updates of a row that may not exist, clamping, stale expected values, lost acknowledgements | each quantity is an atomic register in 0..99 |
| **Album view** (`components/collection-view.tsx`) | the quantities shown, the pending mark and fallback of each sticker | load, tap, type, receive an answer | shows a quantity before it is saved, on several devices at once | shows the stored quantity whenever it was not overtaken; controls become usable again |
| **Comparison grants** (`modules/trading/comparison.ts`, migrations 000008 to 000010) | `collection_comparison_grants` | create, list, revoke, set up, compare | the redemption is a sequence of single-statement transactions; cascades | one collector per grant; revocation is final; no refusal without a reason |
| **Share links** (`modules/collections/sharing.ts`, `components/collection-sharing.tsx`, `app/share/[token]/page.tsx`) | `collection_share_links`, the links the view shows | create, update, revoke, list, open | extension against expiry and revocation; a visit of two statements; answers that are lost or come after other clients' changes; requests executed after the view gave up on them | an expired or revoked link shows nothing, and stays so; what the view reports is so |
| **Trade matching** (`modules/trading/matching.ts`, the trades page, `components/trading-preference-form.tsx`) | `trading_preferences`, one snapshot per request | match all collectors of an album, count, order, page, detail; opt in and out | three queries of one answer; counting by subtraction; pages of an order that is not unique; redirects; an update executed after its form gave up on it | the answer is that of the reference at one moment; the exchange is mutual; pages partition the matches; hidden means hidden |
| **Rate limiting** (`infrastructure/http/request-security.ts`) | a bounded map of windows, per process | consume, make room, client key | the map is full; windows end; addresses that cannot be trusted | nobody is refused who had not used the limit |
| **Database access** (`infrastructure/database/*`) | the pool | query, withTransaction, migrate | a failing COMMIT, ROLLBACK or release | a client returns without a transaction, or is destroyed |
| **Exports and lists** (`modules/accounts/account-export.ts` with its contributors, `modules/collections/export.ts`, `repository.ts`, the views' filters) | one snapshot per file | portable copy, CSV lists, overview, filters and totals | six statements of four modules; seven places that say what is missing | a file is of one moment; all lists agree |
| **Seeds, configuration, headers, health, audit** | none, or an operator's one-shot script | read and format | none of their own | outside these models |

Components interact in three ways. They share tables: deleting an account
cascades through collector profile, collections, holdings, grants, links and
sessions. They hand each other a value that ages: the `Principal` resolved at
the start of a request is trusted by every service call of that request, and
the clock is read once per request. And they answer a browser, which keeps its
own copy of what it was told. `PROJECT.json` lists the hazards that follow,
each at its line, with the properties that cover it.

## 2. Modules

| Module | What it is |
| --- | --- |
| `SerialAdministrators` | abstract: account lifecycle on the tables alone, each mutation one step |
| `Administrators` | the locking protocol statement by statement, with PostgreSQL's row locks; implements the above when nobody is promoted |
| `AdministratorsProofs`, `MCAdministrators` | its proofs; its instances |
| `HoldingChanges` | the data of a change: deltas, expected values, clamping, answers |
| `HoldingRegister` | abstract: an atomic register per sticker with calls and answers |
| `Holdings` | the transaction under the collection's row lock, and the views of several devices; implements the above |
| `HoldingsProofs`, `MCHoldings` | its proofs; its instances |
| `ComparisonGrants` | the grant table, the redemption statement by statement, and the account and collection changes that reach it |
| `ComparisonGrantsProofs`, `MCComparisonGrants` | its proofs; its instances |
| `SerialCatalog` | abstract: the catalog and the collections pinned to it on the tables alone, each operation one step |
| `Catalog` | imports, publications, archivings, new collections and onboarding statement by statement, with row locks and unique index waits; implements the above |
| `CatalogProofs`, `MCCatalog` | its proofs; its instances |
| `Sessions`, `SessionsProofs`, `MCSessions` | one account's credentials, sessions, sign-ins under way and the requests that change it, by owner and administrator |
| `RateLimiter` | the fixed-window limiter as operators on the sequence of its entries |
| `Registration`, `RegistrationProofs`, `MCRegistration` | the ways accounts come into being, with `RateLimiter` in front of two of them |
| `ShareLinks`, `ShareLinksProofs`, `MCShareLinks` | the links of a collection: owner's requests, the sharing view, visitors |
| `TradeMatching` | the queries of trade matching as operators, next to the reference of the repository's load test |
| `Trades` | one request for matches, its page and the preference forms, among writers, over `TradeMatching` |
| `Exports`, `MCTrades` | the lists of a collection as operators, and the downloads, composed with `Trades` |

The operators listed as mutants in `PROJECT.json` are not part of any
specification. They are the plausible mistakes the properties were tried
against: each replaces the definition that follows it, and then the property
named in `PROJECT.json` fails.

### Administrators

`role`, `status` and `sessions` are the committed tables; `absent` and
`deleted` are users without a row, ids being UUIDs that are never reused. A
request is `idle`, then `authorized` (its principal is a copy, `Begin`), then
`locking`, then `ready`. `StartScan` takes the snapshot of
`SELECT … WHERE role = 'admin' FOR UPDATE`; `LockRow` gets one row of it at a
time in any order and re-evaluates the condition on the newest version, as
PostgreSQL does at READ COMMITTED; a row that begins to match later is never
looked at. `Reject` is the guard's refusal (`ActorHolds`, `FallbackHolds`),
`LockTarget` the wait for the target's row, `Commit` the effect. `Abort` covers
wrong confirmations, errors and lost connections, `DeadlockVictim` the
deadlock detector, whose wait-for sets are computed from `Wanted` and `lock`.
Creating users and inserting sessions take no lock, as in the code. A
statement that takes no lock and its request's end are one step; so are the
check of the guard and the request for the target's row, because what the
guard read is locked. `mustChangePassword` is left out: it is one more reason
for `requireAdmin` to refuse.

### Holdings

One collection. `holdings` has a row per owned sticker and never a 0;
`Stored` is the COALESCE the readers use. A request is `queued`, `locked`,
`read`, `answered`; `call` holds the change and then the answer, which is what
the abstract register sees. The second FOR UPDATE of the code, on the holding
row, never waits because every writer has the collection's row. `Commit` may
lose its acknowledgement: the change is stored and the client is told it
failed. A view loads (`LoadView` takes the snapshot, `ShowView` shows it, so
changes may come between), taps send a delta, typing sends a quantity with the
quantity it was chosen against, `Receive` applies 200, 409 or an error exactly
as `updateQuantity` does, `LoseAnswer` is the rejected fetch. `unseen` is a
history variable that no action reads: the stickers of a view that changed,
or whose answer was lost, since the view last heard of them.

### ComparisonGrants

One album. `redeemGrant` runs on the pool, so each statement is an action:
`Load`, `FindCompatible`, the conditional UPDATE `Bind`, `Reload` after a lost
race, and one `Refuse` whose disjuncts are the reasons. The comparison then
loads the grant again in its own snapshot (`Compare`), with the clock the
request read first (`job.now`). Around it: the clock, creation, revocation,
suspension and reactivation, collections added and removed, account deletion
with its cascades. Token and code are two names of one grant. `served` is a
history variable: who was ever shown the comparison of a grant.

### Catalog

`status`, `collection` and `onboarded` are the committed tables: the status of
each revision, the revision each collector's collection of an album is pinned
to, the completion marks. What a request has written and not committed is
known from `pc` (its target), `retired` (the rows it archives) and `added` (the
collections it inserts); `lock` and `profile` are the row locks. A publication
is `LockDraft`, then `ScanCurrent` and `ArchiveCurrent`, the UPDATE that takes
its snapshot and may then wait for a row in it, then `PublishTarget`, which
the partial unique index lets pass, refuses or makes wait (`Rivals`,
`IndexWaits`, `Duplicate`), then `CommitRevision`. A seed inserts and publishes
in one transaction, an import only inserts. `createCollection` is `FindCurrent`
(the SELECT), `PassTrigger` (the trigger's own, newer snapshot) and
`InsertCollection` (the unique index); onboarding runs it for several albums,
in any order, after locking the profile row. `WaitsFor` says whose end a
statement waits for, and guards every action through `At`. An archiving, which
is one statement, waits and commits in one step. The contents of a template are
written with its revision; they are never changed, because a trigger refuses
changes to a revision that is not a draft and no code changes a draft's.

### Sessions

One account; that another administrator remains is `Administrators`' subject.
`password` and `email` are the committed credentials, `session` the rows of
`session`, each with the credentials it was opened with or has been carried
over to. A sign-in is `Verify`, then the hook `Check`, then `Create`, with
anything between. A request of the owner is begun with a session, resolved to a
principal (`Resolve`, where `Allowed` is what `getAccountContext` and the
forced password change make of it), then proves its password on the pool
(`Prove`), as the code does before its transaction, or under the locks
(`ChangePassword`). A transaction that locks a row of `account` and one of
`user` takes `First`, then ends when it has `Second`; the order differs between
changes and deletions, because a deletion cascades. `late` marks sign-ins that
a change or a suspension overtook, and the sessions they open;
`wasActive`, `wasFree`, `proved` note what held at some moment of a request.
No action reads these but to copy them. `changeOwnAdminEmail` is exported by
its module and modelled, though no route calls it.

### RateLimiter and Registration

`entries` is the JavaScript `Map` in insertion order. `Consume` is the whole of
`consume`: an absent or finished window is reopened at the end of the map after
`MakeRoom`, a full one refuses, another counts. Deletions are `Kept`, which
says by rank what is left of the order, and not a recursion over the entries, so
that it can be reasoned about; `MakeRoom` keeps the newest of the open windows. `Registration` keeps one map
per route, because each route module has its own limiter.

`holder` is the table `user` by address and what created the account;
`Inserting` are uncommitted rows, which make an insert of the same address wait.
A job is a page in a browser and the request it has under way: opened, filled
in, refused by the limiter, begun, locked, inserted, committed, and back to the
form after an error. Acceptance is `Lock` (`SELECT ... FOR UPDATE` and the check
of what it returned), `Insert`, `CommitInvitation`; registration and managed
users have nothing to lock. The migration script counts under its advisory
lock, inserts, commits, and may die between (`BootCrash`). `Restart` is the
server's: it forgets its limiters and its requests and may come back in another
registration mode.

### ShareLinks

The secret of a link is the link: hashing and the search for a free hash leave
the refusal after the third attempt. A request reads the clock when it is sent
(`start`) and is one statement later (`Execute`), whose WHERE is `MayUpdate` or
`MayRevoke`. The view acts only on links it shows as active, applies the row an
update returns and marks a revoked one itself; an error leaves what it shows.
`Store` may answer with an error all the same, when the database connection
breaks after the statement has committed; `Fail` is an error without effect.
`Lost` is the fetch that rejects after the server has executed the request,
`Abandon` the one that rejects, or the page that is left, before it has: the
request moves to a free place of `Elsewhere`, next to those of other tabs and
devices, and is executed whenever the server gets to it, also after the view was
opened again. The view catches neither: its controls stay disabled until then. A visit reads the link, which takes the
snapshot, and then the stickers. `permitted` collects what the link gave access
to at each moment of the visit, `unseen` the links that changed since the view
last heard of them.

### TradeMatching, Trades and Exports

`TradeMatching` has the queries of `matching.ts` as operators on the tables:
candidates, partners, the counts (`WantedCount` by subtraction, as in the
code), order, page, lines. `ReferenceRows` and what follows are the repository's
own second implementation (`load-test/scripts/reference-trade-matching.ts`).
`Trades` runs one request for matches statement by statement under its
snapshot, next to writers of quantities, collections and status and the
preference forms; an update whose fetch rejects before it was executed lives on
in `late` (`Abandon`) and is executed, or refused, at any later moment
(`SaveLate`), whatever the form has sent and reported meanwhile; `Render` is the page's redirect to the last page. Requests
only read, so one at a time meets every writer that several would. `Exports`
adds the downloads: the portable copy reads its six parts one statement after
the other and puts them together (`Compose`), the CSV lists take two statements
without a snapshot. Its operators are the lists of a collection, each written
from its own query or component, so that `ListsAgree` compares translations of
different code.

## 3. Runs

| Run | Instance | Shows |
| --- | --- | --- |
| `administrators_full` | 3 users, 2 requests, every locking operation; about 2.2 million states | `TypeOK`; only a phantom's commit loses the last administrator; the actor of a committed panel mutation is still an administrator |
| `administrators_serial` | 2 users, 2 requests, no promotions of existing accounts, fair | an active administrator always remains; the protocol refines `SerialSpec`; requests keep finishing through deadlocks |
| `administrators_phantom` | 2 users, 2 requests, promotions | the claim "cannot jointly leave the installation without an active administrator" is violated |
| `holdings_full` | 2 views, 2 requests, 1 sticker, quantities 0..2, a script's unchecked set, fair; about 490 thousand states | types, `ViewIsAccurate`, refinement of `HoldingRegister` (`Linearizable`); every update a view waits for settles |
| `grants_races` | 3 collectors, 1 grant, 2 redemptions, a clock of 3 instants | one collector per grant; revocation is final; refusals have reasons |
| `grants_deletion` | the same | "no other user is affected" by an account deletion is violated |
| `catalog_races` | 2 albums, 3 revisions of the first and 1 of the second, 1 collector, 2 requests; about 91 thousand states up to symmetry | at most one current revision; no gap in a publication; refinement of `SerialCatalogSpec`; onboarding is all or nothing; no circular wait |
| `trades_pages` | 3 collectors, 2 stickers, 2 revisions, 48 initial tables, 4 queries, pages of one partner, one change per behaviour | an answer is the reference's for one moment; exchanges are mutual; pages partition the matches and none is beyond the last; a file is of one moment; all lists agree; a page settles |
| `trades_forms` | 2 collectors, 1 sticker, one form, one late update of each kind, 3 changes, no downloads; about 460 thousand states | hidden means hidden, late opt-ins excepted |
| `share_links_visits` | 1 link, 1 visitor, the view and one request elsewhere, a clock of 2 instants; about 2.7 million states | a visitor sees one moment; a reported revocation holds; the view agrees; dead links stay dead |
| `registration_accounts` | 1 invitation, 2 addresses, 2 jobs, 2 scripts, 3 modes, a map of one entry; about 1.1 million states up to symmetry | one account per invitation; one initial administrator; what is called invalid is so for good; no refusal below the limit |
| `sessions_account` | 1 account, 2 sessions, 1 sign-in, 2 requests, 2 passwords, 2 addresses | sessions match the account; effects are authorized; resets stand; only deletions deadlock |

**Bounds.** Two requests are what the races are about: each property is broken
by a mutant with two. Three users are an actor, a target and a fallback. Two
views and two requests leave one request for a change the other view does not
know; the stickers of a collection only share its lock, and the per-sticker
state is independent. Quantities 0..2 have both clamping boundaries, the
boundary to "no row" and a value between them. Three collectors are an owner
and two rivals; a lifetime of one and a clock to two let a grant expire before,
during and after a redemption. Three revisions of an album are a current one and two drafts that
compete to replace it, and one of each album is enough for an onboarding of
two; the revision of the second album is only seeded (`Asked`), because
albums share nothing but the profile row. Trade matches begin with every choice
of none, the only or a spare copy of one sticker and none or a spare one of the
other for two of the collectors, some with a collector who has no collection
yet, so that one change meets each boundary of a
count; two pinned revisions differ by a sticker, two collectors share a display
name, and a page holds one partner so that a change moves the last page
(`MaxChanges` bounds the changes of one behaviour: the second one the properties
could need is the initial choice). The forms have a run of their own: a late
opt-in that undoes a reported opt-out takes three changes, and one late update of
each kind (`MaxLate`), but neither a third collector nor another sticker; in
`trades_pages` nothing is given up on (`MaxLate = 0`). One link and one visitor
are enough, because links share no row, and a visit reads one; the sharing view
and one request elsewhere (another client's, or one the view has given up on)
give every order of two requests; `Scope` has a scope that shows duplicates and
one that does not. The invitation, whose instant of expiry is the clock's last
one, competes with a registration or the script for one of two addresses; a limit
of one attempt per tick and a map of one entry make every second client an
eviction. One sign-in and two requests of one account race for two
sessions, passwords and addresses. Symmetry is used in safety runs only. Deadlock
checking is off where the system may really stop: all accounts deleted and no
identity left to enroll, the clock at its bound, or the one account of `Sessions` gone.

**Fairness.** `Administrators`: weak fairness of what a begun request does
next (a request the server has begun is executed) and of the deadlock
detector (PostgreSQL's `deadlock_timeout`); clients need not ask, and `Abort`
is never forced. The liveness property does not say that one request in
particular wins a row lock. `Holdings`: weak fairness of the server's steps
and of the arrival of an answer; strong fairness of `LockCollection`, because
the lock is taken and released by others meanwhile and PostgreSQL grants a row
lock to its queue of waiters. `ComparisonGrants` states no liveness: no step of
a redemption waits. Nor does `Catalog`: `NoCircularWait` says instead that some
request of any set is never waiting for another of it. `Trades`: weak fairness
of what the server does next for a request it has begun (`Served`), rendering
and redirecting included; browsers need not ask, turn pages or leave.
`PageSettles` needs it because a redirect starts another request. The other
modules state none: each of their steps waits at most for a transaction that
`Fail` or `Rollback` may end, so what could be said is that it ends.

**Exceptions the properties name.** A change that read the clock before a link
expired may extend it after (`Late` in `DeadLinksStayDead`). A sign-in that
verified the credentials before they changed, or was past the hook when the
account was suspended, may leave a session (`late` in
`SessionsMatchTheAccount`); the account's status is read for each request, so a
session of a suspended account does nothing (`EffectsAreAuthorized`). A sharing
view is not told of what other clients change, nor of a change by a request it
had given up on or whose answer was lost or was an error (`unseen` in
`ViewAgrees`). A collector who was told to be hidden may be listed by an opt-in
that the form had given up on and the server executes after all (`relisted` in
`HiddenMeansHidden`), until the next update that the form saves: the fetch of an
opt-in rejects, a second one is saved, then an opt-out is, and only now is the
first opt-in executed. The "immediately" of `docs/USER_GUIDE.md:105` is to be
read with this exception; `HiddenStaysHidden` says that there is no other.

**Findings.** Two documented sentences do not hold.

1. *The administrator lock misses a row that is promoted while it waits.* A
   plain user's own deletion takes its snapshot; the user is promoted, the
   other administrator is suspended, which is allowed now; the deletion then
   sees neither itself among the locked rows nor a reason to look for a
   fallback. `administrators_full` shows that this is the only way, and
   `Serializes` that without promotions there is none.
2. *Deleting an account deletes rows of others.* Since migration 000010 the
   recipient of a grant cascades, so the grant disappears from its owner's list.

## 4. Theorems

All hold for every value of the constants under the named assumptions
(`ConstantsAssumption`, `HoldingAssumption`, `ClientAssumption`,
`GrantAssumption`, `CatalogAssumption`, `RequestAssumption`, `TradeAssumption`,
`TradesAssumption`, `ExportsAssumption`, `LimiterAssumption`,
`RegistrationAssumption`, `RowAssumption`, `ShareAssumption`,
`ValueAssumption`): the placeholders are none of the values they stand beside;
`MaxQuantity`, `Lifetime`, the limiter's window, maximum and size and a page are
positive; each revision belongs to an album; instants are natural numbers;
collectors have different identifiers. The collectors and stickers of trade
matching are finitely many, because they are counted, and `RequestsAreShort`
counts users; no other set is assumed finite. Every invariant and action
property of a passing run has its theorem.

* **`AdministratorsProofs`**. The inductive invariant `IInv` joins types;
  `LockInv`: a request's rows are locked by it and are administrators, the
  status read included; `JobInv`: what each phase knows of its job; `ReadyInv`:
  a request about to commit still satisfies its guard, holds its target and its
  rows. From it `ActorRevalidated` (a panel mutation's actor is an active
  administrator) and `LastAdministratorSafety` (only a phantom loses the last
  one) follow for every step. `KeepsAnAdministrator` and `Serializes` assume
  `NoPromotions` and add `PhantomFree`: an administrator who removes the own
  account is in the snapshot of that request, because the role was given before
  the account could sign in. `Serializes` maps `Commit` to one
  serial mutation, enrolment and sign-in to theirs, and all else to a stutter.
  Of `SomeRequestFinishes` the proof reaches what fairness is applied to:
  `NobodyHangs` (one request under way satisfies the guard of a step, written out
  in `CanGoOn` because ENABLED cannot be reasoned about, or all wait for one
  another and `DeadlockVictim` may strike: locks belong to requests under way
  and no request wants a row it has, `PendingInv`) and `RequestsAreShort` (every
  step of a request lowers `StepsOf`, here with finitely many users).
* **`HoldingsProofs`**. `ServerInv` says what each phase guarantees: only one
  request is past the lock, and the quantity it read is still the stored one.
  With `StoreEffect` (what the row operations do to `Stored`) every step is a
  step of the register: `Commit` is its `Apply`, `Conflict` and the failures
  its `Refuse`, removal its `Remove`. That is `Linearizes`. What a view shows
  while an answer is on its way says little, so `ViewInv` is about what it *will*
  show once that has arrived (`WillShow`: the answer, or the fallback when there
  is none): for a sticker the view has not lost sight of, this is what is stored.
  An answer concerns one sticker of one view (`WaitInv`), so that nobody else's
  change can be taken for it. `ViewsAreAccurate` is the case without a change
  under way. `AnswersComeNearer` is what safety can say of how updates settle:
  the request a view waits for is in progress, whoever holds the lock it waits
  for is in a transaction, and its own steps only take it further (`Order`).
* **`ComparisonGrantsProofs`**. `ServedInv`: whoever was served is the
  recipient as long as the row exists, and nobody was served by an id that has
  no row yet; `Bind` only writes a recipient over NULL. `OneWins` and
  `RevocationIsFinal` follow. A refusal after losing a race reads nothing again,
  so `LostInv` carries its reason from the failed update to the answer: who lost
  would lose again, since no step frees a grant that was not free (`NotFreed`).
  That is `RefusalsHaveReasons`.
* **`CatalogProofs`**. A request holds the rows it changes, so what its earlier
  statements saw of them still holds when it commits: its target is the draft,
  or the absent row, it was (`TargetInv`), what it retires is published
  (`RetiredInv`). The unique indexes keep uncommitted writes of different
  requests apart: nobody else has published in the album and what is current
  there is retired (`WrittenInv`); a slot filled by one request is filled by no
  other, neither committed nor not (`AddedInv`). `EndIInv` states once what a
  request that ends may change without disturbing the others; every commit is
  an instance of it. From this follow `OneIsCurrent`, `NoGap` and
  `SerializesCatalog`, where a publication retires exactly the current revision.
  `WaitsEnd` gives each phase a rank and shows that who waits ranks above the
  one waited for: for a row of the catalog (`HolderRank`, from `WaitInv`: which
  uncommitted rows a phase may hold) as for a profile. Of any requests the
  lowest ranked waits for none of them. `AllOrNothing` needs no more than what a
  commit adds to a collector (`CommitGains`).
* **`TradesProofs`**. The order of matches is argued by counting: the rank of a
  row is the number of rows that precede it, ranks differ because the order is
  strict and total (`PrecedesTransitive`, `PrecedesTotal`: two names may be
  equal, two identifiers not), and an order that lists rows by rank is the only
  one (`OneOrder`, `PagesPartition`). Counting by subtraction counts what the
  reference joins (`WantedIs`), so `AnswerIsReference` holds of any tables. The
  invariant `EInv` carries it through the interleavings: `RequestInv` says what
  each phase has read of its snapshot, `HiddenInv` that whoever was told to be
  hidden, and is not `relisted`, is hidden in the tables and in the snapshots of
  later requests (a late update may be executed in any phase of a form, and
  `VisibilityKeeps` is about both ways to write a preference),
  `FileInv` that each part of a download is that of its snapshot. From it
  `AnswersOfOneMoment`, `HiddenStaysHidden`, `NoPageBeyond` (a page up to the last
  one begins before the matches end, `PageReached`) and `FilesOfOneMoment` follow;
  `ExchangesAreMutual` is set algebra on well-formed tables.
  `ListsAlwaysAgree` needs the sums of the lists, which the library defines by
  recursion over sets. Two facts replace the induction: there is only one
  function that adds an element at a time (`OneSum`: of two, look at the smallest
  set they differ on), and if the terms are the sizes of disjoint sets, the size
  of their union is one (`SumOfSizes`). A sum of spare copies is then a number
  of pairs, the sum over sections the number of stickers owned, and the
  agreement is one of sets. `RedirectsEnd` is the part of `PageSettles` that a
  proof can reach: `StepsLeft`, a natural number, becomes less with every step
  of the server and changes with no other while it is positive, because a
  redirect leads to a lower page; this holds for any page size and however
  often the tables change, where the run has one change.

* **`SessionsProofs`**. A sign-in is late or what it verified is still right,
  and past the hook the account is active (`AttemptInv`); with the sessions
  themselves this is inductive and gives `SessionsMatch`. Of a request of the
  owner, `Tracks` says that its notes cover the present moment, `Earned` that a
  request where it is has passed what leads there; `Authorized` reads it off at
  its end. `ResetsStand` needs no invariant: a transaction ends the duty to
  change only under the row lock and after comparing the password again.
  `DeadlocksNeedADeletion`: a row is locked by one transaction at most
  (`HeldOnce`), and there are two rows, so transactions that wait in a circle,
  however many the account has, are two; they took the rows in different orders,
  and only deletions differ from the others in theirs.
* **`RegistrationProofs`**. A job past its `FOR UPDATE` holds its invitation
  alone, and the row it holds is neither accepted nor revoked (`HoldInv`); so
  the commit counts the first account (`OneAccount`), and a job is told
  "invalid" only of a row that nobody is about to roll back (`InvalidStays`).
  For the scripts `BootInv`: one that has counted is the only one under way and
  none has inserted before; `FreshInv` keeps an account of a script in the
  table, because an insert never meets an address that is taken.
  `FirstAdministrator` follows, for scripts that die and start over. The limiters
  have `LimiterInv`: a client has one window at most, and an open one counts no
  more than was let through since it began (`CountsOK`); a full window therefore
  was earned (`RefusalsAreEarned`). `KeptMap` and `RoomIs` show that sweeping and
  evicting keep this and leave room for one more, so that no map ever outgrows
  its size (`TypeCorrect`).
* **`ShareLinksProofs`**. A creation under way is alone in asking for its link
  (`CreateInv`), and revocations reported by the view or by an answer on its way
  are true and stay so (`ShownInv`, `AnswerInv`). Of a visit, `permitted` holds
  what it will show (`VisitInv`): `OneMoment`, `ToldAndDone`. `ViewIsRight` needs
  to look ahead: not what the view shows, but what it will show once its answer
  has arrived, is what the table has (`AgreeInv`). A request given up on is the
  same request in another place, which the view expects nothing of
  (`AgreeAbandon`). `DeadForGood` is a step
  property, whose only case of doubt is the update excluded by `Late`.

Only model-checked: everything temporal beyond safety (`SomeRequestFinishes`,
`EveryUpdateSettles`, `PageSettles`), because fairness and ENABLED are out of
the prover's reach. `NobodyHangs` and `RequestsAreShort`, `AnswersComeNearer`,
and `RedirectsEnd` prove the safety part of each argument: that somebody can go
on, and that steps run out. `Reference`, `Orders` and the other operators of
`TradeMatching` are proved to agree for every table, not only for those a run
reaches. The two violations are counterexamples of TLC.

## 5. What is not modelled, and the plan

Every part of the system that keeps state which several actors share is in a
module, and its safety properties are proved. What is left are corrections of an
album's title and description with their history, and the waits of two imports
for the stickers they share: `Catalog` has neither titles nor contents, and with
both its instance would leave TLC's reach; a module of its own would have to
repeat the locks of the album's row and of revisions.

Not modelled: the limits on sign-ins and the refresh of a session's expiration,
which are the authentication library's; a change of the display name, one
statement of one row; the panels, which load again
after each operation; the comparison screens, whose list of grants follows the
answers as the sharing view's does; formatting (CSV quoting, timestamps,
audit lines), configuration, HTTP headers and probes, which keep no shared
state; catalogue seeds and example holdings, one-shot scripts of an operator;
pool exhaustion, which ends in a failed request and is covered by the failure
actions.

## 6. Running

```
tlc -workers 2 -config MCAdministrators_full.cfg MCAdministrators
tlapm AdministratorsProofs.tla
```

Each `MC<Component>_<run>.cfg` belongs to `MC<Component>.tla`. The longest run
takes about three minutes on two cores, the longest proof (`TradesProofs`) about
three.
