----------------------------- MODULE ShareLinks -----------------------------
(***************************************************************************)
(* The share links of one collection: the requests of its owner            *)
(* (src/modules/collections/sharing.ts), one open view of them             *)
(* (src/components/collection-sharing.tsx) next to requests it does not    *)
(* wait for, from other tabs and devices or given up on by itself, and     *)
(* visitors who open a link (src/app/share/[token]/page.tsx).              *)
(*                                                                         *)
(* The secret of a link is the link itself: nobody opens a link without    *)
(* it.  The collection is one sticker: none of it is missing, two are a    *)
(* duplicate.  A request reads the clock once, when it begins.             *)
(***************************************************************************)
EXTENDS Naturals, FiniteSets

CONSTANTS
  Link, Visitor,
  NoLink, Gone,   \* a link not created yet; one removed with its collection
  NoRequest,
  Elsewhere,      \* places for the owner's requests that the view does not wait for
  Never,          \* no expiration
  Keep,           \* a setting an update leaves alone
  Expirations,    \* the expirations the owner asks for
  Quantity,       \* those the owner sets
  Scope,          \* those of "missing", "duplicates", "both" the owner asks for
  MaxTime         \* bound: the last tick of the clock

ASSUME ShareAssumption ==
  /\ MaxTime \in Nat /\ Quantity \subseteq Nat /\ 0 \in Quantity
  /\ Never \notin Nat /\ Expirations \subseteq 0..MaxTime \cup {Never}
  /\ Scope \subseteq {"missing", "duplicates", "both"}
  /\ "view" \notin Elsewhere

Client == {"view"} \cup Elsewhere

VARIABLES
  now,
  active,     \* the owner's account is active
  stock,      \* the quantity of the sticker
  present,    \* the collection exists
  links,      \* collection_share_links
  request,    \* the owner's requests: the view's and those elsewhere
  page,       \* where the view is
  shown,      \* the links it shows
  unseen,     \* history: links changed since the view last heard of them
  visit,      \* where each visitor is
  permitted   \* history: what the visitor's link gave access to between the
              \* request and the first statement of its transaction

database == <<active, stock, present, links>>
owner    == <<request, page, shown, unseen>>
visitors == <<visit, permitted>>
vars     == <<now, database, owner, visitors>>

Time   == 0..MaxTime
Row    == [scope : Scope, expires : Time \cup {Never}, revoked : BOOLEAN]

Lapsed(row, t) == row.expires # Never /\ row.expires <= t
Status(row, t) == IF row.revoked THEN "revoked" ELSE IF Lapsed(row, t) THEN "expired" ELSE "active"
Summaries == [scope : Scope, expires : Time \cup {Never}, status : {"active", "expired", "revoked"}]
Summary(row, t) == [scope |-> row.scope, expires |-> row.expires, status |-> Status(row, t)]

Exists(l) == links[l] \notin {NoLink, Gone}

List(scope, quantity) ==
  CASE quantity = 0 /\ scope \in {"missing", "both"}    -> {"missing"}
    [] quantity > 1 /\ scope \in {"duplicates", "both"} -> {"duplicate"}
    [] OTHER -> {}

\* What the tables d give a visitor of l who asked at time t.
NoPage == << >>
Pages(scope) == {<<scope, list>> : list \in SUBSET {"missing", "duplicate"}}
Unrevocable(d, l, t) == d.active /\ d.links[l] \notin {NoLink, Gone} /\ ~Lapsed(d.links[l], t)
Opens(d, l, t) ==
  d.active /\ d.links[l] \notin {NoLink, Gone} /\ ~d.links[l].revoked /\ ~Lapsed(d.links[l], t)
Access(d, l, t) ==
  IF Opens(d, l, t) THEN <<d.links[l].scope, List(d.links[l].scope, d.stock)>> ELSE NoPage

Tables == [active |-> active, stock |-> stock, links |-> links]

Idle == [phase |-> "idle"]
Watch ==
  permitted' = [v \in Visitor |->
    IF visit[v].phase = "asked"
    THEN permitted[v] \cup {Access(Tables', visit[v].link, visit[v].start)}
    ELSE permitted[v]]

Init ==
  /\ now = 0 /\ active = TRUE /\ stock = 0 /\ present = TRUE
  /\ links = [l \in Link |-> NoLink]
  /\ request = [c \in Client |-> NoRequest]
  /\ page = "closed" /\ shown = [l \in Link |-> NoLink] /\ unseen = {}
  /\ visit = [v \in Visitor |-> Idle]
  /\ permitted = [v \in Visitor |-> {}]

Tick ==
  /\ now < MaxTime
  /\ now' = now + 1
  /\ UNCHANGED <<database, owner, visitors>>
-----------------------------------------------------------------------------
(* The rest of the owner's account.                                        *)

ChangeStock ==
  /\ present
  /\ stock' \in Quantity \ {stock}
  /\ UNCHANGED <<now, active, present, links, owner, visit>>
  /\ Watch

ChangeStatus ==
  /\ active' = ~active
  /\ UNCHANGED <<now, stock, present, links, owner, visit>>
  /\ Watch

\* Removing the collection, elsewhere, removes its links.
RemoveCollection ==
  /\ present
  /\ present' = FALSE
  /\ links' = [l \in Link |-> IF Exists(l) THEN Gone ELSE links[l]]
  /\ unseen' = Link
  /\ UNCHANGED <<now, active, stock, request, page, shown, visit>>
  /\ Watch
-----------------------------------------------------------------------------
(* The owner's requests.  Sending one, resolving the principal and reading *)
(* the clock are one step: nothing tells a delay in between from sending   *)
(* later.                                                                  *)

Ask(kind, l, scope, expires) ==
  [kind |-> kind, link |-> l, scope |-> scope, expires |-> expires, phase |-> "begun", start |-> now]

\* The view acts on links it shows as active, and expires one now.
MayAct(c, l) ==
  IF c = "view" THEN shown[l] # NoLink /\ shown[l].status = "active" ELSE Exists(l)

Replies ==
  [link : Link, phase : {"failed", "revoked"}] \cup [link : Link, phase : {"done"}, result : Summaries]
ASSUME ValueAssumption ==
  /\ NoLink # Gone /\ NoLink \notin Row \cup Summaries /\ Gone \notin Row
  /\ NoRequest \notin Replies

Refused(l) == [link |-> l, phase |-> "failed"]
Settle(c, answer) == request' = [request EXCEPT ![c] = IF c = "view" THEN answer ELSE NoRequest]

\* Only an active account has a principal, and a new link's expiration must lie
\* ahead; a changed one need not.
Begin(c, q) ==
  IF ~active \/ (q.kind = "create" /\ Lapsed(q, now))
  THEN Settle(c, Refused(q.link)) ELSE request' = [request EXCEPT ![c] = q]

Send(c) ==
  /\ request[c] = NoRequest
  /\ c = "view" => page = "ready"
  /\ \E l \in Link :
       \/ /\ links[l] = NoLink
          /\ \A b \in Client : request[b] # NoRequest => request[b].link # l
          /\ \E s \in Scope, x \in Expirations : Begin(c, Ask("create", l, s, x))
       \/ /\ MayAct(c, l)
          /\ \/ \E s \in Scope : Begin(c, Ask("update", l, s, Keep))
             \/ \E x \in (IF c = "view" THEN {now} ELSE Expirations) :
                  Begin(c, Ask("update", l, Keep, x))
             \/ Begin(c, Ask("revoke", l, Keep, Keep))
  /\ UNCHANGED <<now, database, page, shown, unseen, visitors>>

\* A change the view does not wait for is unseen; the row an own update returns
\* is not.
Hear(c, q) ==
  unseen' = CASE c \in Elsewhere                   -> unseen \cup {q.link}
              [] c = "view" /\ q.kind # "revoke" -> unseen \ {q.link}
              [] OTHER                            -> unseen

\* The statement commits by itself; its answer says so, or is an error because
\* the connection to the database broke after that.
Done(q, row) ==
  IF q.kind = "revoke" THEN [link |-> q.link, phase |-> "revoked"]
  ELSE [link |-> q.link, phase |-> "done", result |-> Summary(row, q.start)]
Store(c, q, row) ==
  /\ links' = [links EXCEPT ![q.link] = row]
  /\ \/ Settle(c, Done(q, row)) /\ Hear(c, q)
     \/ Settle(c, Refused(q.link)) /\ unseen' = unseen \cup {q.link}
  /\ UNCHANGED <<active, stock, present>>
  /\ Watch

\* No row is found, the third token hash of a creation is taken too, or the
\* database fails.
Fail(c, q) ==
  Settle(c, Refused(q.link)) /\ UNCHANGED <<database, unseen, permitted>>

Written(q, row) ==
  [row EXCEPT !.scope   = IF q.scope = Keep THEN row.scope ELSE q.scope,
              !.expires = IF q.expires = Keep THEN row.expires ELSE q.expires]

UnlessRevoked(q) == Exists(q.link) /\ ~links[q.link].revoked
MayUpdate(q) == Exists(q.link) /\ ~links[q.link].revoked /\ ~Lapsed(links[q.link], q.start)
MayRevoke(q) == Exists(q.link) /\ ~links[q.link].revoked

\* One statement each.
Execute(c) ==
  /\ request[c] # NoRequest /\ request[c].phase = "begun"
  /\ LET q == request[c]
     IN  \/ Fail(c, q)
         \/ /\ q.kind = "create" /\ present
            /\ Store(c, q, [scope |-> q.scope, expires |-> q.expires, revoked |-> FALSE])
         \/ q.kind = "update" /\ MayUpdate(q) /\ Store(c, q, Written(q, links[q.link]))
         \/ q.kind = "revoke" /\ MayRevoke(q) /\ Store(c, q, [links[q.link] EXCEPT !.revoked = TRUE])
  /\ UNCHANGED <<now, page, shown, visit>>
-----------------------------------------------------------------------------
(* The view.                                                               *)

\* listCollectionShares when the view is opened, also again.
Read ==
  /\ page \in {"closed", "ready", "stuck"} /\ request["view"] = NoRequest
  /\ active /\ present
  /\ page' = "loading"
  /\ shown' = [l \in Link |-> IF Exists(l) THEN Summary(links[l], now) ELSE NoLink]
  /\ unseen' = {}
  /\ UNCHANGED <<now, database, request, visitors>>

\* Its answer arrives, or the view shows an error and nothing else.
Loaded ==
  /\ page = "loading"
  /\ \/ page' = "ready" /\ UNCHANGED shown
     \/ page' = "closed" /\ shown' = [l \in Link |-> NoLink]
  /\ UNCHANGED <<now, database, request, unseen, visitors>>

\* What the view makes of an answer: an error leaves the links as shown.
WithoutCheck(q) ==
  IF q.phase # "done"
  THEN IF shown[q.link] = NoLink THEN NoLink ELSE [shown[q.link] EXCEPT !.status = "revoked"]
  ELSE q.result
Show(q) ==
  IF q.phase = "failed" THEN shown[q.link]
  ELSE IF q.phase = "revoked" THEN [shown[q.link] EXCEPT !.status = "revoked"]
  ELSE q.result

Waiting == request["view"] # NoRequest /\ request["view"].phase # "begun"

Answered ==
  /\ Waiting
  /\ shown' = [shown EXCEPT ![request["view"].link] = Show(request["view"])]
  /\ request' = [request EXCEPT !["view"] = NoRequest]
  /\ UNCHANGED <<now, database, page, unseen, visitors>>

\* The connection breaks before the answer, and the rejected fetch is not caught:
\* the view's controls stay disabled until it is opened again.  Or it is opened
\* again at once.
Lost ==
  /\ Waiting
  /\ page' = "stuck"
  /\ unseen' = unseen \cup {request["view"].link}
  /\ request' = [request EXCEPT !["view"] = NoRequest]
  /\ UNCHANGED <<now, database, shown, visitors>>

\* The same before the server executes the request, which lives on.
Abandon ==
  /\ request["view"] # NoRequest /\ request["view"].phase = "begun"
  /\ \E e \in Elsewhere :
       /\ request[e] = NoRequest
       /\ request' = [request EXCEPT ![e] = request["view"], !["view"] = NoRequest]
  /\ page' = "stuck"
  /\ UNCHANGED <<now, database, shown, unseen, visitors>>
-----------------------------------------------------------------------------
(* The visitors.                                                           *)

Reported(l) == page = "ready" /\ shown[l] # NoLink /\ shown[l].status = "revoked"

\* loadSharedCollection reads the clock.
Arrive(v) ==
  /\ visit[v] = Idle
  /\ \E l \in {x \in Link : links[x] # NoLink} :
       /\ visit' = [visit EXCEPT ![v] =
            [phase |-> "asked", link |-> l, start |-> now, revoked |-> Reported(l)]]
       /\ permitted' = [permitted EXCEPT ![v] = {Access(Tables, l, now)}]
  /\ UNCHANGED <<now, database, owner>>

\* The first statement of the transaction takes its snapshot, here of the
\* quantities, which the second one reads.
ReadLink(v) ==
  /\ visit[v].phase = "asked"
  /\ LET l == visit[v].link
     IN  visit' = [visit EXCEPT ![v] =
           IF Opens(Tables, l, visit[v].start)
           THEN [phase |-> "reading", revoked |-> @.revoked,
                 scope |-> links[l].scope, snapshot |-> stock]
           ELSE [phase |-> "notFound", result |-> NoPage]]
  /\ permitted' = [permitted EXCEPT ![v] =
       @ \cap IF visit'[v].phase = "reading" THEN Pages(visit'[v].scope) ELSE {NoPage}]
  /\ UNCHANGED <<now, database, owner>>

ReadCommitted(v) == stock
View(v) == visit[v].snapshot

ReadStickers(v) ==
  /\ visit[v].phase = "reading"
  /\ visit' = [visit EXCEPT ![v] = [phase |-> "opened", revoked |-> @.revoked,
                                    result |-> <<@.scope, List(@.scope, View(v))>>]]
  /\ permitted' = [permitted EXCEPT ![v] = @ \cap {<<visit[v].scope, List(visit[v].scope, View(v))>>}]
  /\ UNCHANGED <<now, database, owner>>

Depart(v) ==
  /\ visit[v].phase \in {"opened", "notFound"}
  /\ visit' = [visit EXCEPT ![v] = Idle]
  /\ permitted' = [permitted EXCEPT ![v] = {}]
  /\ UNCHANGED <<now, database, owner>>

Next ==
  \/ Tick \/ ChangeStock \/ ChangeStatus \/ RemoveCollection
  \/ \E c \in Client : Send(c) \/ Execute(c)
  \/ Read \/ Loaded \/ Answered \/ Lost \/ Abandon
  \/ \E v \in Visitor : Arrive(v) \/ ReadLink(v) \/ ReadStickers(v) \/ Depart(v)

Spec == Init /\ [][Next]_vars
-----------------------------------------------------------------------------
TypeOK ==
  /\ now \in Time /\ active \in BOOLEAN /\ stock \in Quantity /\ present \in BOOLEAN
  /\ links \in [Link -> Row \cup {NoLink, Gone}]
  /\ \A c \in Client : request[c] # NoRequest =>
       request[c].link \in Link /\ request[c].phase \in {"begun", "done", "revoked", "failed"}
  /\ page \in {"closed", "loading", "ready", "stuck"}
  /\ shown \in [Link -> Summaries \cup {NoLink}]
  /\ unseen \subseteq Link
  /\ \A v \in Visitor :
       visit[v].phase \in {"idle", "asked", "reading", "opened", "notFound"}

\* A visitor sees what the link gave access to at one moment between the request
\* and the first statement of its transaction: the list of its scope then, with
\* the quantities of then, and nothing of a link that was revoked, had expired
\* or whose owner was suspended all that time; nor is a link not found that was
\* good all that time.
VisitorSeesOneMoment ==
  \A v \in Visitor :
    visit[v].phase \in {"opened", "notFound"} => visit[v].result \in permitted[v]

\* A link that was revoked, has expired or is gone is never good again
\* (docs/USER_GUIDE.md:57), with one exception the code has: a change that read
\* the clock before the link expired may still extend it after.
Dead(l) == links[l] = Gone \/ (Exists(l) /\ (links[l].revoked \/ Lapsed(links[l], now)))
Late(l) ==
  \E c \in Client :
    /\ request[c] # NoRequest /\ request[c].phase = "begun" /\ request[c].kind = "update"
    /\ request[c].link = l /\ Exists(l) /\ ~links[l].revoked
    /\ ~Lapsed(links[l], request[c].start)
DeadLinksStayDead ==
  [][\A l \in Link : Dead(l) /\ ~Late(l) => Dead(l)']_vars

\* Once the owner's view reports a link as revoked, no visit that begins opens
\* it, whatever other requests of the owner were under way.
ToldRevokedNeverOpens ==
  \A v \in Visitor : visit[v].phase = "opened" => ~visit[v].revoked

\* The view shows the scope, the expiration and the revocation the table has,
\* but for links changed, since it last heard of them, by another client or by a
\* request of its own that it had given up on, whose answer was lost or was an
\* error; an answer on its way excepts its own link.
Agrees(l) ==
  IF shown[l] = NoLink THEN links[l] = NoLink
  ELSE /\ Exists(l)
       /\ shown[l].scope = links[l].scope /\ shown[l].expires = links[l].expires
       /\ (shown[l].status = "revoked" <=> links[l].revoked)
       /\ shown[l].status = "expired" => Lapsed(links[l], now)
ViewAgrees ==
  page # "closed" =>
    \A l \in Link \ unseen :
      Agrees(l) \/ (request["view"] # NoRequest /\ request["view"].link = l)
=============================================================================
