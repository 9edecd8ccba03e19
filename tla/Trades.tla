------------------------------- MODULE Trades -------------------------------
(***************************************************************************)
(* One request for trade matches (getOwnTradeMatches in                    *)
(* src/modules/trading/matching.ts) while collectors change the tables it  *)
(* reads, the page that shows its answer and redirects out of range page   *)
(* numbers (src/app/albums/[collectionId]/trades/page.tsx), and the forms  *)
(* with which collectors opt in and out                                    *)
(* (src/components/trading-preference-form.tsx).  An update that a form has *)
(* given up on, its fetch being rejected, may still be executed.           *)
(*                                                                         *)
(* Requests only read, so one at a time meets every writer that several    *)
(* would.  A statement is one step; each reads the tables as View says.    *)
(***************************************************************************)
EXTENDS TradeMatching

CONSTANTS
  Start,      \* the tables the runs begin with
  Queries,    \* what requests ask for first
  FormOwner,  \* the collectors who have the preference form open
  PageSize,   \* partners on a page of the trades page
  MaxChanges, \* bound: how often the tables change
  MaxLate     \* bound: how many equal updates of a collector are given up on

ASSUME TradesAssumption ==
  /\ \A d \in Start : d \in Tables /\ WellFormed(d)
  /\ Queries \subseteq Query /\ Queries # {} /\ Start # {}
  /\ FormOwner \subseteq Collector
  /\ PageSize \in 1..MaximumLimit
  /\ MaxChanges \in Nat /\ MaxLate \in Nat

VARIABLES
  tables,   \* users, collections, holdings and preferences
  changes,  \* how often they changed
  form,     \* the preference forms: what each shows and waits for
  told,     \* the collectors last told "You are hidden from all trade matches."
  late,     \* how many updates to each visibility a form has given up on
  relisted, \* history: whom such an opt-in listed since their form last saved
  phase,    \* where the request is
  query,    \* what it asks for
  snapshot, \* the tables of its transaction
  summary,  \* the ordered page of partner counts, and their total
  answer,   \* whether its viewer has opted in, the matches, and their total
  moments,  \* history: the tables while the request ran
  promised  \* history: who had been told to be hidden when it began

forms   == <<form, told, late, relisted>>
request == <<phase, query, snapshot, summary, answer, moments, promised>>
vars    == <<tables, changes, forms, request>>

Form == [shown : BOOLEAN, phase : {"loading", "idle", "sending", "saved"}]

Empty      == [enabled |-> FALSE, rows |-> << >>, total |-> 0]
NoSnapshot == CHOOSE d \in Start : TRUE
NoQuery    == CHOOSE q \in Queries : TRUE

\* The page number a query asks for, and its query for another page.
Page(q)       == (q.offset \div PageSize) + 1
ToPage(q, p)  == [q EXCEPT !.offset = (p - 1) * PageSize]
IsPage(q)     == q.limit = PageSize /\ q.offset % PageSize = 0
TotalPages(n) == Max({1, (n + PageSize - 1) \div PageSize})

Init ==
  /\ tables \in Start
  /\ changes = 0
  /\ form = [c \in Collector |-> [shown |-> tables.visible[c], phase |-> "idle"]]
  /\ told = {} /\ late = [c \in Collector |-> [v \in BOOLEAN |-> 0]] /\ relisted = {}
  /\ phase = "idle" /\ query = NoQuery
  /\ snapshot = NoSnapshot /\ summary = Empty /\ answer = Empty
  /\ moments = {} /\ promised = {}
-----------------------------------------------------------------------------
(* The writers.                                                            *)

Write(d) ==
  /\ changes < MaxChanges /\ d # tables
  /\ tables' = d
  /\ changes' = changes + 1
  /\ moments' = IF phase = "idle" THEN moments ELSE moments \cup {d}

Quiet == UNCHANGED <<phase, query, snapshot, summary, answer, promised>>

\* The album view saves a quantity of a sticker of the pinned revision.
SetQuantity(c) ==
  /\ HasCollection(tables, c)
  /\ \E s \in StickersOf[tables.revision[c]], n \in 0..MaximumQuantity :
       Write([tables EXCEPT !.quantity[c][s] = n])
  /\ Quiet /\ UNCHANGED forms

\* The collector removes the collection: its holdings go with it.
RemoveCollection(c) ==
  /\ Write([tables EXCEPT !.revision[c] = NoCollection,
                          !.quantity[c] = [s \in Sticker |-> 0]])
  /\ Quiet /\ UNCHANGED forms

\* Or creates one, pinned to the revision then published.
CreateCollection(c) ==
  /\ ~HasCollection(tables, c)
  /\ \E r \in Revision : Write([tables EXCEPT !.revision[c] = r])
  /\ Quiet /\ UNCHANGED forms

\* An administrator suspends or reactivates the account, or its owner deactivates it.
SetStatus(c) ==
  /\ Write([tables EXCEPT !.active[c] = ~tables.active[c]])
  /\ Quiet /\ UNCHANGED forms
-----------------------------------------------------------------------------
(* The preference form.                                                    *)

\* The account page is rendered with the preference and shown later.
LoadForm(c) ==
  /\ form[c].phase = "idle" /\ tables.active[c]
  /\ form' = [form EXCEPT ![c] = [shown |-> tables.visible[c], phase |-> "loading"]]
  /\ UNCHANGED <<tables, changes, told, late, relisted, request>>

ShowForm(c) ==
  /\ form[c].phase = "loading"
  /\ form' = [form EXCEPT ![c].phase = "idle"]
  /\ UNCHANGED <<tables, changes, told, late, relisted, request>>

Update(c) ==
  /\ form[c].phase = "idle"
  /\ form' = [form EXCEPT ![c].phase = "sending"]
  /\ told' = told \ {c} /\ promised' = promised \ {c}
  /\ UNCHANGED <<tables, changes, late, relisted, phase, query, snapshot, summary, answer, moments>>

\* Only the trigger's default row is ever there before the first update.
InsertedVisibility(c, visible) == tables.visible[c]
Visibility(c, visible) == visible

\* setTradingVisibility, for an account that is still active.
SetVisibility(c, visible) ==
  /\ tables.active[c]
  /\ LET d == [tables EXCEPT !.visible[c] = Visibility(c, visible)]
     IN  IF d = tables THEN UNCHANGED <<tables, changes, moments>> ELSE Write(d)
  /\ Quiet

SavePreference(c) ==
  /\ form[c].phase = "sending"
  /\ SetVisibility(c, ~form[c].shown)
  /\ form' = [form EXCEPT ![c].phase = "saved"]
  /\ relisted' = relisted \ {c}
  /\ UNCHANGED <<told, late>>

Saved(c) ==
  /\ form[c].phase = "saved"
  /\ form' = [form EXCEPT ![c] = [shown |-> ~form[c].shown, phase |-> "idle"]]
  /\ told' = IF form[c].shown THEN told \cup {c} ELSE told
  /\ UNCHANGED <<tables, changes, late, relisted, request>>

\* The update was refused, or its answer lost: the form keeps what it showed.
NotSaved(c) ==
  /\ form[c].phase \in {"sending", "saved"}
  /\ form' = [form EXCEPT ![c].phase = "idle"]
  /\ UNCHANGED <<tables, changes, told, late, relisted, request>>

\* The fetch is rejected, or the page left, before the server executes the
\* update: it lives on, whatever the form sends next.
Abandon(c) ==
  /\ form[c].phase = "sending"
  /\ late[c][~form[c].shown] < MaxLate
  /\ form' = [form EXCEPT ![c].phase = "idle"]
  /\ late' = [late EXCEPT ![c][~form[c].shown] = @ + 1]
  /\ UNCHANGED <<tables, changes, told, relisted, request>>

\* The server executes it after all, or refuses it; nobody hears of either.
SaveLate(c) ==
  \E visible \in BOOLEAN :
    /\ late[c][visible] > 0
    /\ late' = [late EXCEPT ![c][visible] = @ - 1]
    /\ \/ SetVisibility(c, visible) /\ relisted' = IF visible THEN relisted \cup {c} ELSE relisted
       \/ UNCHANGED <<tables, changes, moments, relisted>> /\ Quiet
    /\ UNCHANGED <<form, told>>
-----------------------------------------------------------------------------
(* The request.                                                            *)

Answered(a) ==
  /\ phase' = "answered" /\ answer' = a
  /\ UNCHANGED <<query, snapshot, summary, moments, promised>>

Begin(q) ==
  /\ phase' = "opened" /\ query' = q
  /\ moments' = {tables} /\ promised' = told
  /\ snapshot' = NoSnapshot /\ summary' = Empty /\ answer' = Empty

Open ==
  /\ phase = "idle"
  /\ \E q \in Queries : Begin(q)
  /\ UNCHANGED <<tables, changes, forms>>

\* resolveViewer: only an active account produces a principal.
ResolveViewer ==
  /\ phase = "opened"
  /\ phase' = IF tables.active[query.viewer] THEN "resolved" ELSE "login"
  /\ UNCHANGED <<tables, changes, forms, query, snapshot, summary, answer, moments, promised>>

\* The first query of the transaction takes its snapshot.
ReadOwner ==
  /\ phase = "resolved"
  /\ snapshot' = tables
  /\ LET d == tables
         v == query.viewer
     IN  phase' = IF ~HasCollection(d, v) THEN "notFound"
                  ELSE IF d.visible[v] THEN "visible" ELSE "answered"
  /\ UNCHANGED <<tables, changes, forms, query, summary, answer, moments, promised>>

ReadCommitted == tables
View == snapshot

Matches(d) == IF HasCollection(d, query.viewer) THEN Summary(d, query) ELSE {}

\* The summary with its window count; past the end, the count comes from a
\* second query.
ReadSummary ==
  /\ phase = "visible"
  /\ LET rows == Matches(View)
     IN  \E o \in Orders(query.sort, rows) :
           LET found == [enabled |-> TRUE, rows |-> PageOf(query, o), total |-> Cardinality(rows)]
           IN  /\ summary' = found
               /\ IF found.rows = << >>
                  THEN phase' = "answered" /\ answer' = found
                  ELSE phase' = "summarised" /\ answer' = answer
  /\ UNCHANGED <<tables, changes, forms, query, snapshot, moments, promised>>

ReadDetails ==
  /\ phase = "summarised"
  /\ Answered([summary EXCEPT !.rows =
       [i \in DOMAIN @ |-> Match(View, query, @[i])]])
  /\ UNCHANGED <<tables, changes, forms>>

LastPageByDivision(n) == (n \div PageSize) + 1
LastPage(n) == TotalPages(n)

SamePage(q, n) == q
Clamped(q, n) == ToPage(q, LastPage(n))

\* The trades page shows the answer, or redirects to the last page there is.
Render ==
  /\ phase = "answered" /\ IsPage(query)
  /\ IF answer.total > 0 /\ Page(query) > LastPage(answer.total)
     THEN Begin(Clamped(query, answer.total))
     ELSE /\ phase' = "shown"
          /\ UNCHANGED <<query, snapshot, summary, answer, moments, promised>>
  /\ UNCHANGED <<tables, changes, forms>>

\* From a page that shows matches: another filter or sort order, then page 1; or
\* the neighbouring page, as far as the page knows there is one.
Matching == phase = "shown" /\ answer.enabled

ChangeFilter ==
  /\ Matching
  /\ \E q \in {x \in Queries : x.viewer = query.viewer /\ IsPage(x)} : Begin(ToPage(q, 1))
  /\ UNCHANGED <<tables, changes, forms>>

TurnPage ==
  /\ Matching
  /\ \/ Page(query) < TotalPages(answer.total) /\ Begin(ToPage(query, Page(query) + 1))
     \/ Page(query) > 1 /\ Begin(ToPage(query, Page(query) - 1))
  /\ UNCHANGED <<tables, changes, forms>>

\* The API answers as it is; a page is left.
Leave ==
  /\ \/ phase \in {"shown", "login", "notFound"}
     \/ phase = "answered" /\ ~IsPage(query)
  /\ phase' = "idle" /\ query' = NoQuery
  /\ snapshot' = NoSnapshot /\ summary' = Empty /\ answer' = Empty
  /\ moments' = {} /\ promised' = {}
  /\ UNCHANGED <<tables, changes, forms>>

Serve == ResolveViewer \/ ReadOwner \/ ReadSummary \/ ReadDetails \/ Render

Next ==
  \/ \E c \in Collector : \/ SetQuantity(c) \/ RemoveCollection(c)
                          \/ CreateCollection(c) \/ SetStatus(c)
  \/ \E c \in FormOwner : \/ LoadForm(c) \/ ShowForm(c) \/ Update(c) \/ SavePreference(c)
                          \/ Saved(c) \/ NotSaved(c) \/ Abandon(c) \/ SaveLate(c)
  \/ Open \/ ChangeFilter \/ TurnPage \/ Leave
  \/ Serve

Spec == Init /\ [][Next]_vars
-----------------------------------------------------------------------------
TypeOK ==
  /\ tables \in Tables /\ WellFormed(tables)
  /\ changes \in 0..MaxChanges
  /\ form \in [Collector -> Form]
  /\ told \subseteq Collector /\ promised \subseteq Collector
  /\ late \in [Collector -> [BOOLEAN -> 0..MaxLate]] /\ relisted \subseteq Collector
  /\ phase \in {"idle", "opened", "resolved", "visible", "summarised", "answered",
                "shown", "login", "notFound"}
  /\ query \in Query
  /\ snapshot \in Tables
  /\ moments \subseteq Tables
  /\ DOMAIN summary = DOMAIN Empty /\ DOMAIN answer = DOMAIN Empty

\* Whatever collectors change while a request runs, it answers with what the
\* repository's reference computes from the tables as they were at one moment
\* since it began: the same partners in the same order, with the same counts,
\* and lines that agree with the counts.  matching.ts:333 promises the snapshot.
IsReferenceAnswer(d) ==
  /\ d.visible[query.viewer] /\ answer.enabled
  /\ Range(answer.rows) = ReferencePage(d, query)
  /\ answer.total = Cardinality(Reference(d, query))
  /\ \A i, j \in DOMAIN answer.rows :
       i < j => Precedes(query.sort, answer.rows[i], answer.rows[j])

AnswerOfOneMoment ==
  phase \in {"answered", "shown"} =>
    \E d \in moments : \/ IsReferenceAnswer(d)
                       \/ ~d.visible[query.viewer] /\ answer = Empty

\* What one collector is offered by another is what the other reads it could
\* give away, whatever revisions their collections are pinned to: the counts
\* and the stickers (matching.ts:154-156 argues the subtraction is exact).
Ask(v) == [viewer |-> v, direction |-> "all", sort |-> "name",
           section |-> AnySection, limit |-> MaximumLimit, offset |-> 0]
ExchangeIsMutual ==
  \A a, b \in Collector :
    a # b /\ HasCollection(tables, a) /\ HasCollection(tables, b) =>
      /\ OfferedCount(tables, Ask(a), b) = WantedCount(tables, Ask(b), a)
      /\ {l.sticker : l \in Offers(tables, Ask(a), b)} = {l.sticker : l \in Needs(tables, Ask(b), a)}

\* The order of the matches is fully determined, equal display names included,
\* so that the pages a collector walks through partition the matches: while the
\* tables stay as they are, no partner is on two pages or on none.
PagesPartitionMatches ==
  phase = "visible" =>
    Cardinality(Orders(query.sort, Matches(View))) = 1

\* A page of trade matches that is shown is empty only when there is no match
\* at all: a page number the matches no longer reach is never shown.
NoPageBeyondTheLast ==
  phase = "shown" /\ answer.total > 0 => answer.rows # << >>

\* A collector who was told to be hidden from all trade matches is in no answer
\* to a request that began after that, until the collector opts in again; but for
\* one whom an opt-in of before, which the form had given up on, has listed since
\* the opt-out was saved.
HiddenMeansHidden ==
  phase \in {"answered", "shown"} =>
    \A i \in DOMAIN answer.rows :
      answer.rows[i].partner \in promised => answer.rows[i].partner \in relisted

\* A page that is opened is shown, or answered with the login page or not found:
\* the redirects of out-of-range pages end, whatever changes meanwhile.
PageSettles ==
  phase = "opened" /\ IsPage(query) ~> phase \in {"shown", "login", "notFound"}
=============================================================================
