-------------------------- MODULE ShareLinksProofs --------------------------
(***************************************************************************)
(* Visitors see one moment, dead links stay dead, and what the owner was   *)
(* told is revoked opens for nobody, for any number of links and visitors. *)
(* A link is created once: a creation under way is the only request for a  *)
(* link that does not exist yet (CreateInv).  What the view shows, or an   *)
(* answer on its way says, of a revocation is true and stays so (ShownInv, *)
(* AnswerInv).  What the view will show of a link once its answer arrives, *)
(* and not what it shows now, is what the table has (AgreeInv).            *)
(***************************************************************************)
EXTENDS ShareLinks, TLAPS

Rescinded(l) == links[l] = Gone \/ (Exists(l) /\ links[l].revoked)

Query(q) ==
  /\ q.start \in Time
  /\ q.kind = "create" => q.scope \in Scope /\ q.expires \in Time \cup {Never}
  /\ q.scope \in Scope \cup {Keep} /\ q.expires \in Time \cup {Never, Keep}

Formed(q) ==
  /\ q.link \in Link /\ q.phase \in {"begun", "done", "revoked", "failed"}
  /\ q.phase = "begun" => Query(q)
  /\ q.phase = "done" => q.result \in Summaries /\ q.result.status # "revoked"

TypeInv ==
  /\ TypeOK
  /\ visit = [v \in Visitor |-> visit[v]] /\ permitted = [v \in Visitor |-> permitted[v]]

FormInv ==
  /\ request = [c \in Client |-> request[c]]
  /\ \A c \in Client : request[c] # NoRequest => Formed(request[c])

CreateInv ==
  \A c \in Client :
    request[c] # NoRequest /\ request[c].phase = "begun" /\ request[c].kind = "create" =>
      /\ links[request[c].link] = NoLink
      /\ \A b \in Client : request[b] # NoRequest /\ request[b].link = request[c].link => b = c

ShownInv ==
  \A l \in Link :
    shown[l] # NoLink => links[l] # NoLink /\ (shown[l].status = "revoked" => Rescinded(l))

Answer(q) ==
  /\ q.phase \in {"done", "revoked"} => links[q.link] # NoLink
  /\ q.phase = "revoked" => Rescinded(q.link)
AnswerInv == \A c \in Client : request[c] # NoRequest => Answer(request[c])

RequestInv == FormInv /\ CreateInv /\ AnswerInv

\* The view revokes links it shows, and loads them when it asks for nothing.
Revoking(q) == q.phase = "revoked" \/ (q.phase = "begun" /\ q.kind = "revoke")
PageInv ==
  request["view"] # NoRequest =>
    page \notin {"closed", "loading"} /\ (Revoking(request["view"]) => shown[request["view"].link] # NoLink)

VisitInv ==
  \A v \in Visitor :
    /\ visit[v].phase = "asked" =>
         /\ visit[v].link \in Link
         /\ visit[v].revoked => Rescinded(visit[v].link)
         /\ Access(Tables, visit[v].link, visit[v].start) \in permitted[v]
    /\ visit[v].phase = "reading" =>
         /\ ~visit[v].revoked
         /\ <<visit[v].scope, List(visit[v].scope, visit[v].snapshot)>> \in permitted[v]
    /\ visit[v].phase = "opened" => ~visit[v].revoked
    /\ visit[v].phase \in {"opened", "notFound"} => visit[v].result \in permitted[v]

IInv == TypeInv /\ RequestInv /\ ShownInv /\ PageInv /\ VisitInv
-----------------------------------------------------------------------------
(* What a step may do to the links.                                        *)

\* No link comes back from revocation, and none is forgotten.
Advance ==
  \A l \in Link : (links[l] # NoLink => links'[l] # NoLink) /\ (Rescinded(l) => Rescinded(l)')

LEMMA VisitsWatched ==
  ASSUME IInv, Advance, visit' = visit, Watch
  PROVE  VisitInv'
  <1>1. \A v \in Visitor : permitted'[v] =
          IF visit[v].phase = "asked"
          THEN permitted[v] \cup {Access(Tables', visit[v].link, visit[v].start)} ELSE permitted[v]
    BY DEF Watch
  <1> SUFFICES ASSUME NEW v \in Visitor
               PROVE  /\ visit[v].phase = "asked" =>
                           /\ visit[v].link \in Link
                           /\ visit[v].revoked => Rescinded(visit[v].link)'
                           /\ Access(Tables', visit[v].link, visit[v].start) \in permitted'[v]
                      /\ visit[v].phase = "reading" =>
                           /\ ~visit[v].revoked
                           /\ <<visit[v].scope, List(visit[v].scope, visit[v].snapshot)>> \in permitted'[v]
                      /\ visit[v].phase = "opened" => ~visit[v].revoked
                      /\ visit[v].phase \in {"opened", "notFound"} => visit[v].result \in permitted'[v]
    BY DEF VisitInv, Access, Opens
  <1>2. visit[v].phase = "asked" /\ visit[v].revoked => Rescinded(visit[v].link)'
    BY DEF IInv, VisitInv, Advance
  <1> QED
    BY <1>1, <1>2 DEF IInv, VisitInv

LEMMA LinksAside ==
  ASSUME IInv, links' = links, visit' = visit, Watch
  PROVE  VisitInv'
  <1>1. Advance
    BY DEF Advance, Rescinded, Exists
  <1> QED
    BY <1>1, VisitsWatched

LEMMA VisitsAside ==
  ASSUME VisitInv, UNCHANGED <<database, visitors>>
  PROVE  VisitInv'
  BY DEF VisitInv, Rescinded, Exists, Access, Opens, Tables, database, visitors

LEMMA ShownAside ==
  ASSUME ShownInv, Advance, shown' = shown
  PROVE  ShownInv'
  BY DEF ShownInv, Advance

\* What client c may have for a request after a step: q, well formed and true,
\* and, as every other creation under way, alone in asking for its link.
Fits(c, q) ==
  /\ q # NoRequest => Formed(q) /\ Answer(q)'
  /\ q # NoRequest /\ q.phase = "begun" /\ q.kind = "create" =>
       /\ links'[q.link] = NoLink
       /\ \A b \in Client \ {c} : request[b] # NoRequest => request[b].link # q.link
  /\ \A b \in Client \ {c} :
       request[b] # NoRequest /\ request[b].phase = "begun" /\ request[b].kind = "create" =>
         /\ links'[request[b].link] = NoLink
         /\ q # NoRequest => q.link # request[b].link

\* A request begins, is answered or is done with.
LEMMA RequestStep ==
  ASSUME RequestInv, Advance, NEW c \in Client, NEW q, request' = [request EXCEPT ![c] = q],
         Fits(c, q)
  PROVE  RequestInv'
  <1>1. /\ request' = [b \in Client |-> request'[b]]
        /\ \A b \in Client : request'[b] = IF b = c THEN q ELSE request[b]
    BY DEF RequestInv, FormInv
  <1>2. FormInv'
    BY <1>1 DEF RequestInv, FormInv, Formed, Query, Fits
  <1>3. CreateInv'
    BY <1>1 DEF RequestInv, CreateInv, Fits
  <1>4. AnswerInv'
    <2>1. ASSUME NEW b \in Client, b # c, request[b] # NoRequest PROVE Answer(request[b])'
      <3>1. Answer(request[b]) /\ request[b].link \in Link
        BY <2>1 DEF RequestInv, AnswerInv, FormInv, Formed
      <3>2. request'[b] = request[b]
        BY <1>1, <2>1
      <3> QED
        BY <3>1, <3>2 DEF Answer, Advance
    <2>2. q # NoRequest => Answer(request[c])'
      BY <1>1 DEF Answer, Fits
    <2> QED
      BY <1>1, <2>1, <2>2 DEF AnswerInv
  <1> QED
    BY <1>2, <1>3, <1>4 DEF RequestInv

LEMMA PageStep ==
  ASSUME FormInv, PageInv, NEW c \in Client, NEW q, request' = [request EXCEPT ![c] = q],
         UNCHANGED <<page, shown>>,
         c = "view" /\ q # NoRequest =>
           page \notin {"closed", "loading"} /\ (Revoking(q) => shown[q.link] # NoLink)
  PROVE  PageInv'
  <1>1. \A b \in Client : request'[b] = IF b = c THEN q ELSE request[b]
    BY DEF FormInv
  <1> QED
    BY <1>1 DEF PageInv, Revoking, Client

LEMMA PageAside ==
  ASSUME PageInv, UNCHANGED <<request, page, shown>>
  PROVE  PageInv'
  BY DEF PageInv, Revoking

LEMMA RequestsAside ==
  ASSUME RequestInv, UNCHANGED <<links, request>>
  PROVE  RequestInv'
  BY DEF RequestInv, FormInv, Formed, Query, CreateInv, AnswerInv, Answer, Rescinded, Exists

LEMMA LinksKept ==
  ASSUME links' = links
  PROVE  Advance
  BY DEF Advance, Rescinded, Exists

LEMMA LinkStep ==
  ASSUME TypeInv, NEW l \in Link, NEW row \in Row, links' = [links EXCEPT ![l] = row],
         links[l] # Gone, links[l] = NoLink \/ ~links[l].revoked
  PROVE  Advance
  <1>1. \A k \in Link : links'[k] = IF k = l THEN row ELSE links[k]
    BY DEF TypeInv, TypeOK
  <1>2. row # NoLink
    BY ValueAssumption
  <1> QED
    BY <1>1, <1>2 DEF Advance, Rescinded, Exists
-----------------------------------------------------------------------------
LEMMA InitIInv == Init => IInv
  <1> SUFFICES ASSUME Init PROVE IInv
    OBVIOUS
  <1>1. TypeInv
    BY ShareAssumption DEF Init, TypeInv, TypeOK, Time, Idle
  <1>2. RequestInv
    BY DEF Init, RequestInv, FormInv, CreateInv, AnswerInv
  <1>3. ShownInv
    BY DEF Init, ShownInv
  <1>4. VisitInv /\ PageInv
    BY DEF Init, VisitInv, PageInv, Idle, Client
  <1> QED
    BY <1>1, <1>2, <1>3, <1>4 DEF IInv

LEMMA TickKeepsIInv ==
  ASSUME IInv, Tick
  PROVE  IInv'
  <1>1. now' \in Time /\ UNCHANGED <<database, owner, visitors>>
    BY ShareAssumption DEF IInv, TypeInv, TypeOK, Tick, Time
  <1>2. UNCHANGED <<active, stock, present, links, request, page, shown, unseen, visit, permitted>>
    BY <1>1 DEF database, owner, visitors
  <1>3. TypeInv'
    BY <1>1, <1>2 DEF IInv, TypeInv, TypeOK
  <1> QED
    BY <1>1, <1>2, <1>3, LinksKept, ShownAside, RequestsAside, PageAside, VisitsAside DEF IInv

LEMMA AccountKeepsIInv ==
  ASSUME IInv, ChangeStock \/ ChangeStatus
  PROVE  IInv'
  <1>1. /\ UNCHANGED <<now, present, links, request, page, shown, unseen, visit>> /\ Watch
        /\ active' \in BOOLEAN /\ stock' \in Quantity
    BY DEF ChangeStock, ChangeStatus, owner, IInv, TypeInv, TypeOK
  <1>2. TypeInv'
    BY <1>1 DEF IInv, TypeInv, TypeOK, Watch
  <1> QED
    BY <1>1, <1>2, LinksKept, ShownAside, RequestsAside, PageAside, LinksAside DEF IInv

LEMMA RemovalKeepsIInv ==
  ASSUME IInv, RemoveCollection
  PROVE  IInv'
  <1>1. /\ UNCHANGED <<now, active, stock, request, page, shown, visit>> /\ Watch
        /\ present' = FALSE /\ unseen' = Link
        /\ links' = [l \in Link |-> IF Exists(l) THEN Gone ELSE links[l]]
    BY DEF RemoveCollection
  <1>2. \A l \in Link : links[l] \in {NoLink, Gone} => links'[l] = links[l]
    BY <1>1 DEF Exists
  <1>3. \A l \in Link : links[l] \notin {NoLink, Gone} => links'[l] = Gone
    BY <1>1 DEF Exists
  <1>4. Advance
    BY <1>2, <1>3, ValueAssumption DEF Advance, Rescinded, Exists
  <1>5. TypeInv'
    BY <1>1 DEF IInv, TypeInv, TypeOK, Watch
  <1>6. RequestInv'
    <2>1. FormInv' /\ CreateInv'
      BY <1>1, <1>2 DEF IInv, RequestInv, FormInv, Formed, Query, CreateInv
    <2>2. AnswerInv'
      BY <1>1, <1>4 DEF IInv, RequestInv, FormInv, Formed, AnswerInv, Answer, Advance
    <2> QED
      BY <2>1, <2>2 DEF RequestInv, IInv, AnswerInv
  <1> QED
    BY <1>1, <1>4, <1>5, <1>6, ShownAside, PageAside, VisitsWatched DEF IInv
-----------------------------------------------------------------------------
(* The owner's requests.                                                   *)

LEMMA Refusals ==
  ASSUME NEW l \in Link
  PROVE  Formed(Refused(l)) /\ Answer(Refused(l)) /\ Refused(l).phase = "failed" /\ Refused(l).link = l
  BY DEF Formed, Answer, Refused

LEMMA BeginKeepsIInv ==
  ASSUME IInv, NEW c \in Client, NEW q, Begin(c, q),
         q.link \in Link, q.phase = "begun", Query(q),
         \/ /\ q.kind = "create" /\ links[q.link] = NoLink
            /\ \A b \in Client : request[b] # NoRequest => request[b].link # q.link
         \/ q.kind # "create" /\ links[q.link] # NoLink,
         c = "view" => page = "ready" /\ (q.kind = "revoke" => shown[q.link] # NoLink),
         UNCHANGED <<now, database, page, shown, unseen, visitors>>
  PROVE  IInv'
  <1>1. UNCHANGED <<now, active, stock, present, links, page, shown, unseen, visit, permitted>>
    BY DEF database, visitors
  <1>2. PICK x \in {q, Refused(q.link), NoRequest} : request' = [request EXCEPT ![c] = x]
    BY DEF Begin, Settle
  <1>3. x # NoRequest => Formed(x) /\ Answer(x) /\ x.link = q.link /\ (x.phase = "begun" => x = q)
    BY <1>2, Refusals DEF Formed, Answer
  <1>4. x # NoRequest => Answer(x)'
    BY <1>1, <1>3 DEF Answer, Rescinded, Exists
  <1>5. ASSUME NEW b \in Client \ {c}, request[b] # NoRequest, request[b].phase = "begun",
               request[b].kind = "create"
        PROVE  links'[request[b].link] = NoLink /\ request[b].link # q.link
    BY <1>1, <1>5 DEF IInv, RequestInv, CreateInv
  <1>6. RequestInv'
    <2>1. Advance
      BY <1>1, LinksKept
    <2>2. Fits(c, x)
      BY <1>1, <1>3, <1>4, <1>5 DEF Fits
    <2> QED
      BY <1>2, <2>1, <2>2, RequestStep DEF IInv
  <1>7. TypeInv'
    BY <1>1, <1>6 DEF IInv, TypeInv, TypeOK, RequestInv, FormInv, Formed
  <1>8. PageInv'
    <2>1. c = "view" /\ x # NoRequest =>
            page \notin {"closed", "loading"} /\ (Revoking(x) => shown[x.link] # NoLink)
      BY <1>2, <1>3, Refusals DEF Revoking
    <2> QED
      BY <1>1, <1>2, <2>1, PageStep DEF IInv, RequestInv
  <1> QED
    BY <1>1, <1>6, <1>7, <1>8, LinksKept, ShownAside, VisitsAside DEF IInv, database, visitors

LEMMA SendKeepsIInv ==
  ASSUME IInv, NEW c \in Client, Send(c)
  PROVE  IInv'
  <1>1. /\ request[c] = NoRequest /\ now \in Time /\ (c = "view" => page = "ready")
        /\ UNCHANGED <<now, database, page, shown, unseen, visitors>>
    BY DEF Send, IInv, TypeInv, TypeOK
  <1>2. \A kind, s, x : \A l \in Link :
          /\ Ask(kind, l, s, x).link = l /\ Ask(kind, l, s, x).phase = "begun"
          /\ Ask(kind, l, s, x).kind = kind
    BY DEF Ask
  <1>3. ASSUME NEW l \in Link, NEW s \in Scope, NEW x \in Expirations,
               links[l] = NoLink, \A b \in Client : request[b] # NoRequest => request[b].link # l,
               Begin(c, Ask("create", l, s, x))
        PROVE  IInv'
    <2> DEFINE q == Ask("create", l, s, x)
    <2>1. q.link = l /\ q.phase = "begun" /\ q.kind = "create"
      BY <1>2
    <2>2. Query(q)
      BY <1>1, ShareAssumption DEF Query, Ask, Time
    <2> HIDE DEF q
    <2>3. Begin(c, q)
      BY <1>3 DEF q
    <2> QED
      BY <1>1, <1>3, <2>1, <2>2, <2>3, BeginKeepsIInv
  <1>4. ASSUME NEW l \in Link, MayAct(c, l), NEW kind \in {"update", "revoke"},
               NEW s \in Scope \cup {Keep}, NEW x \in Time \cup {Never, Keep},
               Begin(c, Ask(kind, l, s, x))
        PROVE  IInv'
    <2> DEFINE q == Ask(kind, l, s, x)
    <2>1. q.link = l /\ q.phase = "begun" /\ q.kind # "create"
      BY <1>2
    <2>2. Query(q)
      BY <1>1, <2>1 DEF Query, Ask
    <2>3. links[l] # NoLink /\ (c = "view" => shown[l] # NoLink)
      BY <1>4 DEF MayAct, Exists, IInv, ShownInv
    <2> HIDE DEF q
    <2>4. Begin(c, q)
      BY <1>4 DEF q
    <2> QED
      BY <1>1, <2>1, <2>2, <2>3, <2>4, BeginKeepsIInv
  <1>5. Expirations \subseteq Time \cup {Never, Keep} /\ now \in Time \cup {Never, Keep}
    BY <1>1, ShareAssumption DEF Time
  <1> QED
    BY <1>3, <1>4, <1>5 DEF Send

LEMMA StoreKeepsIInv ==
  ASSUME IInv, NEW c \in Client, request[c] # NoRequest, request[c].phase = "begun",
         NEW row \in Row, Store(c, request[c], row), ~row.revoked \/ request[c].kind = "revoke",
         request[c].kind = "revoke" => row.revoked,
         \/ links[request[c].link] = NoLink
         \/ Exists(request[c].link) /\ ~links[request[c].link].revoked,
         UNCHANGED <<now, page, shown, visit>>
  PROVE  IInv'
  <1> DEFINE q == request[c]
             l == q.link
             done == Done(q, row)
             failed == Refused(l)
  <1>1. /\ links' = [links EXCEPT ![l] = row] /\ Watch /\ UNCHANGED <<active, stock, present>>
        /\ \/ Settle(c, done) /\ Hear(c, q)
           \/ Settle(c, failed) /\ unseen' = unseen \cup {l}
    BY DEF Store
  <1>2. l \in Link /\ links[l] # Gone
    BY ValueAssumption DEF IInv, RequestInv, FormInv, Formed, Exists
  <1>3. Advance /\ \A k \in Link : links'[k] = IF k = l THEN row ELSE links[k]
    <2>1. \A k \in Link : links'[k] = IF k = l THEN row ELSE links[k]
      BY <1>1 DEF IInv, TypeInv, TypeOK
    <2> QED
      BY <1>1, <1>2, <2>1, LinkStep DEF IInv
  <1>4. PICK x \in {done, failed, NoRequest} : request' = [request EXCEPT ![c] = x]
    <2> HIDE DEF done, failed
    <2> QED
      BY <1>1 DEF Settle
  <1>5. x # NoRequest =>
          /\ Formed(x) /\ Answer(x)' /\ x.link = l /\ x.phase # "begun"
          /\ x.phase = "revoked" => q.kind = "revoke"
    <2>1. CASE x = done /\ q.kind # "revoke"
      <3>1. /\ ~row.revoked /\ row.scope \in Scope /\ links'[l] = row /\ row # NoLink
        BY <1>2, <1>3, <2>1, ValueAssumption DEF Row
      <3>2. done = [link |-> l, phase |-> "done", result |-> Summary(row, q.start)]
        BY <2>1 DEF Done
      <3> HIDE DEF done
      <3>3. Formed(done)
        BY <1>2, <3>1, <3>2 DEF Formed, Summary, Status, Summaries, Row
      <3> QED
        BY <2>1, <3>1, <3>2, <3>3 DEF Answer
    <2>2. CASE x = done /\ q.kind = "revoke"
      <3>1. row.revoked /\ links'[l] = row /\ row \notin {NoLink, Gone}
        BY <1>2, <1>3, <2>2, ValueAssumption
      <3>2. done = [link |-> l, phase |-> "revoked"]
        BY <2>2 DEF Done
      <3> HIDE DEF done
      <3> QED
        BY <1>2, <2>2, <3>1, <3>2 DEF Answer, Rescinded, Exists, Formed
    <2>3. CASE x = failed
      <3>1. Formed(failed) /\ failed.phase = "failed" /\ failed.link = l
        BY <1>2, Refusals
      <3> HIDE DEF failed
      <3> QED
        BY <2>3, <3>1 DEF Answer
    <2> HIDE DEF done, failed
    <2> QED
      BY <1>4, <2>1, <2>2, <2>3
  <1> HIDE DEF done, failed
  <1>6. ASSUME NEW b \in Client \ {c}, request[b] # NoRequest, request[b].phase = "begun",
               request[b].kind = "create"
        PROVE  links'[request[b].link] = NoLink /\ request[b].link # l
    <2>1. links[request[b].link] = NoLink /\ request[b].link # l /\ request[b].link \in Link
      BY <1>6 DEF IInv, RequestInv, CreateInv, FormInv, Formed
    <2> QED
      BY <1>3, <2>1
  <1>7. RequestInv'
    <2>1. Fits(c, x)
      BY <1>5, <1>6 DEF Fits
    <2> QED
      BY <1>3, <1>4, <2>1, RequestStep DEF IInv
  <1>8. TypeInv'
    <2>1. unseen' \subseteq Link
      BY <1>1, <1>2 DEF Hear, IInv, TypeInv, TypeOK
    <2>2. links' \in [Link -> Row \cup {NoLink, Gone}]
      BY <1>1 DEF IInv, TypeInv, TypeOK
    <2> QED
      BY <1>1, <1>7, <2>1, <2>2 DEF IInv, TypeInv, TypeOK, RequestInv, FormInv, Formed, Watch
  <1>9. PageInv'
    <2>1. x # NoRequest /\ Revoking(x) => Revoking(q) /\ x.link = l
      BY <1>5 DEF Revoking
    <2>2. c = "view" => page \notin {"closed", "loading"} /\ (Revoking(q) => shown[l] # NoLink)
      BY DEF IInv, PageInv
    <2> QED
      BY <1>4, <2>1, <2>2, PageStep DEF IInv, RequestInv
  <1> QED
    BY <1>1, <1>3, <1>7, <1>8, <1>9, ShownAside, VisitsWatched DEF IInv

LEMMA ExecuteKeepsIInv ==
  ASSUME IInv, NEW c \in Client, Execute(c)
  PROVE  IInv'
  <1> DEFINE q == request[c]
             l == q.link
  <1>1. /\ q # NoRequest /\ q.phase = "begun" /\ l \in Link /\ Query(q)
        /\ UNCHANGED <<now, page, shown, visit>>
        /\ links \in [Link -> Row \cup {NoLink, Gone}]
    BY DEF Execute, IInv, RequestInv, FormInv, Formed, TypeInv, TypeOK
  <1>2. CASE q.kind = "create" /\ Store(c, q, [scope |-> q.scope, expires |-> q.expires, revoked |-> FALSE])
    <2> DEFINE row == [scope |-> q.scope, expires |-> q.expires, revoked |-> FALSE]
    <2>1. row \in Row /\ ~row.revoked /\ links[l] = NoLink
      BY <1>1, <1>2 DEF Query, Row, IInv, RequestInv, CreateInv
    <2> HIDE DEF row
    <2>2. Store(c, q, row)
      BY <1>2 DEF row
    <2> QED
      BY <1>1, <1>2, <2>1, <2>2, StoreKeepsIInv
  <1>3. CASE q.kind = "update" /\ MayUpdate(q) /\ Store(c, q, Written(q, links[l]))
    <2> DEFINE row == Written(q, links[l])
    <2>1. Exists(l) /\ ~links[l].revoked /\ links[l] \in Row
      BY <1>1, <1>3 DEF MayUpdate, Exists
    <2>2. row \in Row /\ ~row.revoked
      BY <1>1, <2>1 DEF Row, Written, Query
    <2> HIDE DEF row
    <2>3. Store(c, q, row)
      BY <1>3 DEF row
    <2> QED
      BY <1>1, <1>3, <2>1, <2>2, <2>3, StoreKeepsIInv
  <1>4. CASE q.kind = "revoke" /\ MayRevoke(q) /\ Store(c, q, [links[l] EXCEPT !.revoked = TRUE])
    <2> DEFINE row == [links[l] EXCEPT !.revoked = TRUE]
    <2>1. Exists(l) /\ ~links[l].revoked /\ links[l] \in Row
      BY <1>1, <1>4 DEF MayRevoke, Exists
    <2>2. row \in Row /\ row.revoked
      BY <2>1 DEF Row
    <2> HIDE DEF row
    <2>3. Store(c, q, row)
      BY <1>4 DEF row
    <2> QED
      BY <1>1, <1>4, <2>1, <2>2, <2>3, StoreKeepsIInv
  <1>5. CASE Fail(c, q)
    <2>1. UNCHANGED <<now, active, stock, present, links, page, shown, unseen, visit, permitted>>
      BY <1>1, <1>5 DEF Fail, database
    <2>2. PICK x \in {Refused(l), NoRequest} : request' = [request EXCEPT ![c] = x]
      BY <1>5 DEF Fail, Settle
    <2>3. x # NoRequest => Formed(x) /\ Answer(x) /\ x.link = l /\ x.phase = "failed"
      BY <1>1, <2>2, Refusals
    <2>4. x # NoRequest => Answer(x)'
      BY <2>1, <2>3 DEF Answer, Rescinded, Exists
    <2>5. Fits(c, x)
      BY <1>1, <2>1, <2>3, <2>4 DEF Fits, IInv, RequestInv, CreateInv
    <2>6. RequestInv'
      BY <2>1, <2>2, <2>5, LinksKept, RequestStep DEF IInv
    <2>7. TypeInv'
      BY <2>1, <2>6 DEF IInv, TypeInv, TypeOK, RequestInv, FormInv, Formed
    <2>8. PageInv'
      <3>1. c = "view" /\ x # NoRequest =>
              page \notin {"closed", "loading"} /\ (Revoking(x) => shown[x.link] # NoLink)
        BY <1>1, <2>3 DEF Revoking, IInv, PageInv
      <3> QED
        BY <2>1, <2>2, <3>1, PageStep DEF IInv, RequestInv
    <2> QED
      BY <2>1, <2>6, <2>7, <2>8, LinksKept, ShownAside, VisitsAside DEF IInv, database, visitors
  <1> QED
    BY <1>2, <1>3, <1>4, <1>5 DEF Execute
-----------------------------------------------------------------------------
(* The view.                                                               *)

\* The view shows what it may.
Showable(l, summary) ==
  summary # NoLink =>
    /\ summary \in Summaries
    /\ links[l] # NoLink /\ (summary.status = "revoked" => Rescinded(l))

LEMMA ViewStep ==
  ASSUME IInv, UNCHANGED <<now, database, visitors>>, page' \in {"closed", "loading", "ready", "stuck"},
         unseen' \subseteq Link, shown' = [l \in Link |-> shown'[l]],
         \A l \in Link : Showable(l, shown'[l]),
         \/ request' = request /\ request["view"] = NoRequest
         \/ request' = [request EXCEPT !["view"] = NoRequest]
  PROVE  IInv'
  <1>1. UNCHANGED <<now, active, stock, present, links, visit, permitted>>
    BY DEF database, visitors
  <1>2. ShownInv'
    BY <1>1 DEF Showable, ShownInv, Rescinded, Exists
  <1>3. RequestInv'
    <2>1. CASE request' = request
      BY <1>1, <2>1, RequestsAside DEF IInv
    <2>2. CASE request' = [request EXCEPT !["view"] = NoRequest]
      <3>1. Fits("view", NoRequest)
        BY <1>1 DEF Fits, IInv, RequestInv, CreateInv
      <3> QED
        BY <1>1, <2>2, <3>1, LinksKept, RequestStep DEF IInv, Client
    <2> QED
      BY <2>1, <2>2
  <1>4. shown' \in [Link -> Summaries \cup {NoLink}]
    BY DEF Showable
  <1>5. TypeInv'
    BY <1>1, <1>3, <1>4 DEF IInv, TypeInv, TypeOK, RequestInv, FormInv, Formed, Summaries
  <1>6. PageInv'
    BY DEF PageInv, IInv, RequestInv, FormInv, Client
  <1> QED
    BY <1>1, <1>2, <1>3, <1>5, <1>6, VisitsAside DEF IInv, database, visitors

LEMMA ShownShowable ==
  ASSUME IInv
  PROVE  \A l \in Link : Showable(l, shown[l])
  BY DEF IInv, TypeInv, TypeOK, ShownInv, Showable

LEMMA ViewKeepsIInv ==
  ASSUME IInv, Read \/ Loaded \/ Answered \/ Lost
  PROVE  IInv'
  <1>0. /\ page \in {"closed", "loading", "ready", "stuck"} /\ unseen \subseteq Link
        /\ shown \in [Link -> Summaries \cup {NoLink}] /\ links \in [Link -> Row \cup {NoLink, Gone}]
        /\ now \in Time
    BY DEF IInv, TypeInv, TypeOK
  <1>1. CASE Read
    <2>1. /\ page' = "loading" /\ unseen' = {} /\ UNCHANGED <<now, database, request, visitors>>
          /\ request["view"] = NoRequest
          /\ shown' = [l \in Link |-> IF Exists(l) THEN Summary(links[l], now) ELSE NoLink]
      BY <1>1 DEF Read
    <2>2. ASSUME NEW l \in Link, Exists(l) PROVE Showable(l, Summary(links[l], now))
      <3>1. links[l] \in Row /\ links[l] # NoLink
        BY <1>0, <2>2 DEF Exists
      <3> QED
        BY <2>2, <3>1 DEF Row, Summary, Status, Summaries, Showable, Rescinded
    <2>3. \A l \in Link : Showable(l, shown'[l])
      BY <2>1, <2>2 DEF Showable
    <2> QED
      BY <2>1, <2>3, ViewStep
  <1>2. CASE Loaded
    <2>1. /\ page' \in {"ready", "closed"} /\ UNCHANGED <<now, database, request, unseen, visitors>>
          /\ shown' = shown \/ shown' = [l \in Link |-> NoLink]
          /\ request["view"] = NoRequest
      BY <1>2 DEF Loaded, IInv, PageInv
    <2>2. \A l \in Link : Showable(l, shown'[l])
      BY <2>1, ShownShowable DEF Showable
    <2> QED
      BY <1>0, <2>1, <2>2, ViewStep
  <1>3. CASE Answered
    <2> DEFINE q == request["view"]
    <2>1. /\ shown' = [shown EXCEPT ![q.link] = Show(q)] /\ q # NoRequest /\ q.phase # "begun"
          /\ UNCHANGED <<now, database, page, unseen, visitors>>
          /\ request' = [request EXCEPT !["view"] = NoRequest]
      BY <1>3 DEF Answered, Waiting
    <2>2. Formed(q) /\ Answer(q) /\ q.link \in Link
      BY <2>1 DEF IInv, RequestInv, FormInv, AnswerInv, Client, Formed
    <2> HIDE DEF q
    <2>3. Showable(q.link, Show(q))
      <3>1. CASE q.phase = "failed"
        BY <2>2, <3>1, ShownShowable DEF Show
      <3>2. CASE q.phase = "revoked"
        <4>1. shown[q.link] \in Summaries
          BY <1>0, <2>1, <2>2, <3>2 DEF q, IInv, PageInv, Revoking
        <4>2. /\ Show(q) = [shown[q.link] EXCEPT !.status = "revoked"]
              /\ links[q.link] # NoLink /\ Rescinded(q.link)
          BY <2>2, <3>2 DEF Show, Answer
        <4>3. Show(q) \in Summaries
          BY <4>1, <4>2 DEF Summaries
        <4> QED
          BY <4>2, <4>3 DEF Showable
      <3>3. CASE q.phase = "done"
        BY <2>2, <3>3 DEF Show, Answer, Formed, Showable
      <3> QED
        BY <2>1, <2>2, <3>1, <3>2, <3>3 DEF Formed
    <2>4. \A l \in Link : Showable(l, shown'[l])
      BY <1>0, <2>1, <2>2, <2>3, ShownShowable
    <2> QED
      BY <1>0, <2>1, <2>4, ViewStep
  <1>4. CASE Lost
    <2>1. /\ page' = "stuck" /\ UNCHANGED <<now, database, shown, visitors>>
          /\ unseen' = unseen \cup {request["view"].link}
          /\ request' = [request EXCEPT !["view"] = NoRequest]
      BY <1>4 DEF Lost
    <2>2. request["view"].link \in Link
      BY <1>4 DEF Lost, Waiting, IInv, RequestInv, FormInv, Client, Formed
    <2> QED
      BY <1>0, <2>1, <2>2, ShownShowable, ViewStep
  <1> QED
    BY <1>1, <1>2, <1>3, <1>4

\* The request that the view gives up on is the same request elsewhere.
LEMMA AbandonKeepsIInv ==
  ASSUME IInv, Abandon
  PROVE  IInv'
  <1> DEFINE q == request["view"]
  <1>1. PICK e \in Elsewhere :
          /\ request[e] = NoRequest
          /\ request' = [request EXCEPT ![e] = q, !["view"] = NoRequest]
    BY DEF Abandon
  <1>2. /\ q # NoRequest /\ q.phase = "begun" /\ page' = "stuck"
        /\ UNCHANGED <<now, active, stock, present, links, shown, unseen, visit, permitted>>
    BY DEF Abandon, database, visitors
  <1>3. e \in Client /\ "view" \in Client /\ e # "view"
    BY ShareAssumption DEF Client
  <1>4. /\ request' = [b \in Client |-> request'[b]]
        /\ \A b \in Client :
             request'[b] = IF b = e THEN q ELSE IF b = "view" THEN NoRequest ELSE request[b]
    BY <1>1, <1>3 DEF IInv, RequestInv, FormInv
  <1>5. FormInv'
    BY <1>3, <1>4 DEF IInv, RequestInv, FormInv, Formed, Query
  <1>6. CreateInv'
    <2> SUFFICES ASSUME NEW b \in Client, request'[b] # NoRequest, request'[b].phase = "begun",
                        request'[b].kind = "create"
                 PROVE  /\ links[request'[b].link] = NoLink
                        /\ \A a \in Client :
                             request'[a] # NoRequest /\ request'[a].link = request'[b].link => a = b
      BY <1>2 DEF CreateInv
    <2>1. PICK o \in Client : request'[b] = request[o] /\ (b = e <=> o = "view") /\ (b # e => o = b)
      BY <1>1, <1>3, <1>4
    <2>2. /\ links[request[o].link] = NoLink
          /\ \A a \in Client : request[a] # NoRequest /\ request[a].link = request[o].link => a = o
      BY <2>1 DEF IInv, RequestInv, CreateInv
    <2>3. ASSUME NEW a \in Client, request'[a] # NoRequest, request'[a].link = request'[b].link
          PROVE  a = b
      BY <1>3, <1>4, <2>1, <2>2, <2>3
    <2> QED
      BY <2>1, <2>2, <2>3
  <1>7. AnswerInv'
    BY <1>2, <1>3, <1>4 DEF IInv, RequestInv, AnswerInv, Answer, Rescinded, Exists
  <1>8. TypeInv'
    BY <1>2, <1>5 DEF IInv, TypeInv, TypeOK, FormInv, Formed
  <1>9. PageInv'
    BY <1>3, <1>4 DEF PageInv
  <1> QED
    BY <1>2, <1>5, <1>6, <1>7, <1>8, <1>9, LinksKept, ShownAside, VisitsAside
       DEF IInv, RequestInv, database, visitors
-----------------------------------------------------------------------------
(* The visitors.                                                           *)

Visited(visiting, seen) ==
  /\ visiting.phase \in {"idle", "asked", "reading", "opened", "notFound"}
  /\ visiting.phase = "asked" =>
       /\ visiting.link \in Link
       /\ visiting.revoked => Rescinded(visiting.link)
       /\ Access(Tables, visiting.link, visiting.start) \in seen
  /\ visiting.phase = "reading" =>
       /\ ~visiting.revoked
       /\ <<visiting.scope, List(visiting.scope, visiting.snapshot)>> \in seen
  /\ visiting.phase = "opened" => ~visiting.revoked
  /\ visiting.phase \in {"opened", "notFound"} => visiting.result \in seen

LEMMA VisitStep ==
  ASSUME IInv, NEW v \in Visitor, NEW x, NEW seen, Visited(x, seen),
         visit' = [visit EXCEPT ![v] = x], permitted' = [permitted EXCEPT ![v] = seen],
         UNCHANGED <<now, database, owner>>
  PROVE  IInv'
  <1>1. UNCHANGED <<now, active, stock, present, links, request, page, shown, unseen>>
    BY DEF database, owner
  <1>2. \A w \in Visitor : /\ visit'[w] = IF w = v THEN x ELSE visit[w]
                           /\ permitted'[w] = IF w = v THEN seen ELSE permitted[w]
    BY DEF IInv, TypeInv
  <1>3. \A w \in Visitor : Visited(visit'[w], permitted'[w])
    <2>1. \A w \in Visitor : Visited(visit[w], permitted[w])
      BY DEF Visited, IInv, VisitInv, TypeInv, TypeOK
    <2> QED
      BY <1>2, <2>1
  <1>4. VisitInv'
    BY <1>1, <1>3 DEF Visited, VisitInv, Rescinded, Exists, Access, Opens, Tables
  <1>5. TypeInv'
    BY <1>1, <1>2, <1>3 DEF IInv, TypeInv, TypeOK, Visited
  <1> QED
    BY <1>1, <1>4, <1>5, LinksKept, ShownAside, RequestsAside, PageAside DEF IInv

LEMMA VisitorsKeepIInv ==
  ASSUME IInv, NEW v \in Visitor, Arrive(v) \/ ReadLink(v) \/ ReadStickers(v) \/ Depart(v)
  PROVE  IInv'
  <1>1. CASE Arrive(v)
    <2>1. PICK l \in Link :
            /\ visit' = [visit EXCEPT ![v] =
                 [phase |-> "asked", link |-> l, start |-> now, revoked |-> Reported(l)]]
            /\ permitted' = [permitted EXCEPT ![v] = {Access(Tables, l, now)}]
      BY <1>1 DEF Arrive
    <2> DEFINE x == [phase |-> "asked", link |-> l, start |-> now, revoked |-> Reported(l)]
               seen == {Access(Tables, l, now)}
    <2>2. Visited(x, seen)
      BY DEF Visited, Reported, IInv, ShownInv
    <2> HIDE DEF x, seen
    <2>3. visit' = [visit EXCEPT ![v] = x] /\ permitted' = [permitted EXCEPT ![v] = seen]
      BY <2>1 DEF x, seen
    <2> QED
      BY <1>1, <2>2, <2>3, VisitStep DEF Arrive
  <1>2. CASE ReadLink(v)
    <2> DEFINE l == visit[v].link
               found == [phase |-> "reading", revoked |-> visit[v].revoked,
                         scope |-> links[l].scope, snapshot |-> stock]
               seen == permitted[v] \cap Pages(links[l].scope)
               missing == [phase |-> "notFound", result |-> NoPage]
    <2>1. /\ visit[v].phase = "asked" /\ l \in Link /\ (visit[v].revoked => Rescinded(l))
          /\ Access(Tables, l, visit[v].start) \in permitted[v]
      BY <1>2 DEF ReadLink, IInv, VisitInv
    <2>2. /\ visit' = [visit EXCEPT ![v] = IF Opens(Tables, l, visit[v].start) THEN found ELSE missing]
          /\ permitted' = [permitted EXCEPT ![v] =
               permitted[v] \cap IF visit'[v].phase = "reading" THEN Pages(visit'[v].scope) ELSE {NoPage}]
          /\ UNCHANGED <<now, database, owner>>
      BY <1>2 DEF ReadLink
    <2>3. CASE Opens(Tables, l, visit[v].start)
      <3>1. Visited(found, seen)
        <4>1. <<links[l].scope, List(links[l].scope, stock)>> \in seen
          BY <2>1, <2>3 DEF Access, Opens, Tables, Pages, List
        <4> HIDE DEF seen
        <4> QED
          BY <2>1, <2>3, <4>1 DEF Visited, Opens, Tables, Rescinded, Exists
      <3>2. /\ found.phase = "reading" /\ found.scope = links[l].scope
            /\ visit' = [visit EXCEPT ![v] = found]
        BY <2>2, <2>3
      <3> HIDE DEF found
      <3>3. permitted' = [permitted EXCEPT ![v] = seen]
        BY <2>2, <3>2 DEF IInv, TypeInv
      <3> HIDE DEF seen
      <3> QED
        BY <2>2, <3>1, <3>2, <3>3, VisitStep
    <2>4. CASE ~Opens(Tables, l, visit[v].start)
      <3>1. Visited(missing, permitted[v] \cap {NoPage})
        BY <2>1, <2>4 DEF Visited, Access
      <3>2. missing.phase = "notFound" /\ visit' = [visit EXCEPT ![v] = missing]
        BY <2>2, <2>4
      <3> HIDE DEF missing
      <3>3. permitted' = [permitted EXCEPT ![v] = permitted[v] \cap {NoPage}]
        BY <2>2, <3>2 DEF IInv, TypeInv
      <3> QED
        BY <2>2, <3>1, <3>2, <3>3, VisitStep
    <2> QED
      BY <2>3, <2>4
  <1>3. CASE ReadStickers(v)
    <2> DEFINE list == <<visit[v].scope, List(visit[v].scope, View(v))>>
               x == [phase |-> "opened", revoked |-> visit[v].revoked, result |-> list]
               seen == permitted[v] \cap {list}
    <2>1. /\ visit[v].phase = "reading" /\ visit' = [visit EXCEPT ![v] = x]
          /\ permitted' = [permitted EXCEPT ![v] = seen] /\ UNCHANGED <<now, database, owner>>
      BY <1>3 DEF ReadStickers
    <2>2. ~visit[v].revoked /\ list \in permitted[v]
      BY <2>1 DEF View, IInv, VisitInv
    <2>3. Visited(x, seen)
      BY <2>2 DEF Visited
    <2> HIDE DEF x, seen
    <2> QED
      BY <2>1, <2>3, VisitStep
  <1>4. CASE Depart(v)
    <2>1. Visited(Idle, {})
      BY DEF Visited, Idle
    <2> QED
      BY <1>4, <2>1, VisitStep DEF Depart
  <1> QED
    BY <1>1, <1>2, <1>3, <1>4
-----------------------------------------------------------------------------
LEMMA NextIInv == IInv /\ [Next]_vars => IInv'
  <1> SUFFICES ASSUME IInv, [Next]_vars PROVE IInv'
    OBVIOUS
  <1>1. CASE UNCHANGED vars
    <2>1. UNCHANGED <<now, active, stock, present, links, request, page, shown, unseen, visit, permitted>>
      BY <1>1 DEF vars, database, owner, visitors
    <2>2. TypeInv'
      BY <2>1 DEF IInv, TypeInv, TypeOK
    <2> QED
      BY <2>1, <2>2, LinksKept, ShownAside, RequestsAside, PageAside, VisitsAside
         DEF IInv, database, visitors
  <1>2. CASE Next
    BY <1>2, TickKeepsIInv, AccountKeepsIInv, RemovalKeepsIInv, SendKeepsIInv, ExecuteKeepsIInv,
       ViewKeepsIInv, AbandonKeepsIInv, VisitorsKeepIInv DEF Next
  <1> QED
    BY <1>1, <1>2

\* The invariant that the theorems below rest on.
THEOREM AlwaysIInv == Spec => []IInv
  BY InitIInv, NextIInv, PTL DEF Spec
-----------------------------------------------------------------------------
(* What the view shows and what the table has.                             *)

AgreesWith(summary, l) ==
  IF summary = NoLink THEN links[l] = NoLink
  ELSE /\ Exists(l)
       /\ summary.scope = links[l].scope /\ summary.expires = links[l].expires
       /\ summary.status = "revoked" <=> links[l].revoked
       /\ summary.status = "expired" => Lapsed(links[l], now)

\* What the view shows of l once the answer on its way has arrived.
Expected(l) ==
  LET q == request["view"]
  IN  IF q # NoRequest /\ q.phase # "begun" /\ q.link = l THEN Show(q) ELSE shown[l]

AgreeInv ==
  /\ \A c \in Client :
       request[c] # NoRequest /\ request[c].phase = "begun" => request[c].start <= now
  /\ present => \A l \in Link : links[l] # Gone
  /\ page # "closed" => \A l \in Link \ unseen : AgreesWith(Expected(l), l)

LEMMA AgreeTick ==
  ASSUME IInv, AgreeInv, Tick
  PROVE  AgreeInv'
  <1>1. /\ now' = now + 1 /\ now \in Nat
        /\ UNCHANGED <<active, stock, present, links, request, page, shown, unseen>>
    BY ShareAssumption DEF Tick, database, owner, IInv, TypeInv, TypeOK, Time
  <1>2. ASSUME NEW l \in Link, Exists(l), Lapsed(links[l], now) PROVE Lapsed(links[l], now')
    <2>1. links[l].expires = Never \/ links[l].expires \in Nat
      BY <1>2, ShareAssumption DEF IInv, TypeInv, TypeOK, Exists, Row, Time
    <2> QED
      BY <1>1, <1>2, <2>1 DEF Lapsed
  <1>3. ASSUME NEW l \in Link, AgreesWith(Expected(l), l) PROVE AgreesWith(Expected(l), l)'
    <2>1. Expected(l)' = Expected(l)
      BY <1>1 DEF Expected, Show
    <2> QED
      BY <1>1, <1>2, <1>3, <2>1 DEF AgreesWith, Exists
  <1>4. \A c \in Client : request[c] # NoRequest /\ request[c].phase = "begun" =>
          request[c].start <= now /\ request[c].start \in Nat
    BY ShareAssumption DEF AgreeInv, IInv, RequestInv, FormInv, Formed, Query, Time
  <1>5. (\A c \in Client :
           request[c] # NoRequest /\ request[c].phase = "begun" => request[c].start <= now)'
    BY <1>1, <1>4
  <1>6. page' # "closed" => \A l \in Link \ unseen' : AgreesWith(Expected(l), l)'
    BY <1>1, <1>3 DEF AgreeInv
  <1> QED
    BY <1>1, <1>5, <1>6 DEF AgreeInv

\* What the view expects to show stays what it was, and so does the table.
LEMMA AgreeAside ==
  ASSUME AgreeInv, UNCHANGED <<now, present, links>>,
         \A c \in Client : request'[c] = request[c] \/ request'[c] = NoRequest
                           \/ (request'[c].phase = "begun" => request'[c].start <= now),
         page' # "closed" => page # "closed",
         \A l \in Link \ unseen' : page' # "closed" => l \notin unseen /\ Expected(l)' = Expected(l)
  PROVE  AgreeInv'
  BY DEF AgreeInv, AgreesWith, Exists, Lapsed

LEMMA AgreeSend ==
  ASSUME IInv, AgreeInv, NEW c \in Client, Send(c)
  PROVE  AgreeInv'
  <1>1. UNCHANGED <<now, present, links, page, shown, unseen>> /\ request[c] = NoRequest
    BY DEF Send, database
  <1>2. \E l \in Link : \E kind, s, x : Begin(c, Ask(kind, l, s, x))
    BY DEF Send
  <1>3. \E q : /\ q # NoRequest /\ q.phase = "begun" => q.start <= now
               /\ q = NoRequest \/ q.phase = "begun" \/ \E l \in Link : q = Refused(l)
               /\ request' = [request EXCEPT ![c] = q]
    <2>1. PICK l \in Link : \E kind, s, x : Begin(c, Ask(kind, l, s, x))
      BY <1>2
    <2>2. PICK kind, s, x : Begin(c, Ask(kind, l, s, x))
      BY <2>1
    <2> DEFINE q == Ask(kind, l, s, x)
    <2>3. q.phase = "begun" /\ q.link = l /\ q.start <= now
      BY ShareAssumption DEF Ask, IInv, TypeInv, TypeOK, Time
    <2> HIDE DEF q
    <2>4. Begin(c, q)
      BY <2>2 DEF q
    <2>5. CASE request' = [request EXCEPT ![c] = q]
      BY <2>3, <2>5
    <2>6. CASE c = "view" /\ request' = [request EXCEPT ![c] = Refused(l)]
      BY <2>6, Refusals
    <2>7. CASE c # "view" /\ request' = [request EXCEPT ![c] = NoRequest]
      BY <2>7
    <2> QED
      BY <2>3, <2>4, <2>5, <2>6, <2>7 DEF Begin, Settle
  <1>4. PICK q : /\ q # NoRequest /\ q.phase = "begun" => q.start <= now
                 /\ q = NoRequest \/ q.phase = "begun" \/ \E l \in Link : q = Refused(l)
                 /\ request' = [request EXCEPT ![c] = q]
    BY <1>3
  <1>5. \A b \in Client : request'[b] = IF b = c THEN q ELSE request[b]
    BY <1>4 DEF IInv, RequestInv, FormInv
  <1>6. \A l \in Link : Expected(l)' = Expected(l)
    <2>1. \A l, m \in Link : Refused(l).link = l /\ Show(Refused(l))' = shown'[l]
      BY Refusals DEF Show
    <2>2. CASE c = "view"
      BY <1>1, <1>4, <1>5, <2>1, <2>2, Refusals DEF Expected, Client, Show
    <2>3. CASE c # "view"
      BY <1>1, <1>5, <2>3 DEF Expected, Client, Show
    <2> QED
      BY <2>2, <2>3
  <1> QED
    BY <1>1, <1>4, <1>5, <1>6, AgreeAside

LEMMA Agreeing ==
  ASSUME NEW l \in Link, NEW s \in Summaries, NEW row \in Row, links'[l] = row, Expected(l)' = s,
         s.scope = row.scope, s.expires = row.expires,
         s.status = "revoked" => row.revoked, row.revoked => s.status = "revoked",
         s.status = "expired" => Lapsed(row, now), now' = now
  PROVE  AgreesWith(Expected(l), l)'
  <1>1. AgreesWith(s, l)'
    BY ValueAssumption DEF AgreesWith, Exists
  <1> QED
    BY <1>1 DEF AgreesWith

LEMMA AgreeStore ==
  ASSUME IInv, AgreeInv, NEW c \in Client, NEW row, Store(c, request[c], row),
         request[c] # NoRequest, request[c].phase = "begun", row \in Row,
         ~row.revoked \/ request[c].kind = "revoke",
         request[c].kind = "revoke" => row = [links[request[c].link] EXCEPT !.revoked = TRUE],
         UNCHANGED <<now, page, shown, visit>>
  PROVE  AgreeInv'
  <1> DEFINE q == request[c]
  <1>0. PICK l \in Link : l = q.link
    BY DEF IInv, RequestInv, FormInv, Formed
  <1>1. /\ l = q.link /\ q.start \in Nat /\ now \in Nat /\ q.start <= now
        /\ links' = [links EXCEPT ![l] = row] /\ present' = present
    BY <1>0, ShareAssumption
       DEF Store, IInv, RequestInv, FormInv, Formed, Query, TypeInv, TypeOK, AgreeInv, Time
  <1>2. /\ links'[l] = row /\ row \notin {NoLink, Gone}
        /\ \A k \in Link : k # l => links'[k] = links[k]
    BY <1>1, ValueAssumption DEF IInv, TypeInv, TypeOK
  <1>3. \A b \in Client : b # c => request'[b] = request[b]
    <2>1. PICK y : request' = [request EXCEPT ![c] = y]
      BY DEF Store, Settle
    <2> QED
      BY <2>1 DEF IInv, RequestInv, FormInv
  <1>4. request'["view"] = request["view"] \/ c = "view"
    BY <1>3 DEF Client
  <1> DEFINE x == request'[c]
  <1>5. x # NoRequest => x.phase # "begun" /\ x.link = l
    BY <1>1, Refusals DEF Store, Settle, Done, IInv, RequestInv, FormInv
  <1>6. \A k \in Link : k # l \/ c # "view" => Expected(k)' = Expected(k)
    BY <1>1, <1>4, <1>5 DEF Expected, Client, Show
  <1>7. ASSUME c = "view", l \notin unseen', page # "closed" PROVE AgreesWith(Expected(l), l)'
    <2>0. Settle(c, Done(q, row)) /\ Hear(c, q)
      BY <1>1, <1>7 DEF Store
    <2>1. CASE q.kind = "revoke"
      <3> DEFINE revoked == [link |-> l, phase |-> "revoked"]
      <3>1. shown[l] \in Summaries
        BY <1>1, <1>7, <2>1 DEF IInv, PageInv, Revoking, TypeInv, TypeOK
      <3>2. AgreesWith(shown[l], l)
        <4>1. l \notin unseen
          BY <1>1, <1>7, <2>0, <2>1, ShareAssumption DEF Hear
        <4>2. Expected(l) = shown[l]
          BY <1>1, <1>7 DEF Expected
        <4> QED
          BY <1>1, <1>7, <4>1, <4>2 DEF AgreeInv
      <3>3. revoked \in Replies /\ request' = [request EXCEPT !["view"] = revoked]
        BY <1>1, <1>7, <2>0, <2>1 DEF Done, Settle, Replies
      <3>4. revoked.phase = "revoked" /\ revoked.link = l
        OBVIOUS
      <3> HIDE DEF revoked
      <3>5. request'["view"] = revoked
        BY <3>3 DEF IInv, RequestInv, FormInv, Client
      <3>6. Expected(l)' = [shown[l] EXCEPT !.status = "revoked"]
        BY <3>3, <3>4, <3>5, ValueAssumption DEF Expected, Show
      <3>7. links[l] \in Row /\ row = [links[l] EXCEPT !.revoked = TRUE]
        BY <1>1, <2>1, <3>1, <3>2, ValueAssumption DEF AgreesWith, Exists, IInv, TypeInv, TypeOK
      <3> DEFINE y == [shown[l] EXCEPT !.status = "revoked"]
      <3>8. /\ y \in Summaries /\ y.status = "revoked"
            /\ y.scope = shown[l].scope /\ y.expires = shown[l].expires
        BY <3>1 DEF Summaries
      <3>9. row.revoked /\ row.scope = links[l].scope /\ row.expires = links[l].expires
        BY <3>7 DEF Row
      <3>10. shown[l].scope = links[l].scope /\ shown[l].expires = links[l].expires
        BY <3>1, <3>2, ValueAssumption DEF AgreesWith
      <3> HIDE DEF y
      <3>11. Expected(l)' = y
        BY <3>6 DEF y
      <3> QED
        BY <1>1, <1>2, <3>8, <3>9, <3>10, <3>11, Agreeing, ValueAssumption
    <2>2. CASE q.kind # "revoke"
      <3> DEFINE y == Summary(row, q.start)
                 done == [link |-> l, phase |-> "done", result |-> y]
      <3>1. /\ y \in Summaries /\ y.scope = row.scope /\ y.expires = row.expires /\ ~row.revoked
            /\ y.status # "revoked" /\ (y.status = "expired" => Lapsed(row, q.start))
        BY <2>2 DEF Summary, Status, Summaries, Row
      <3>2. Lapsed(row, q.start) => Lapsed(row, now)
        <4>1. row.expires = Never \/ row.expires \in Nat
          BY ShareAssumption DEF Row, Time
        <4> QED
          BY <1>1, <4>1 DEF Lapsed
      <3> HIDE DEF y
      <3>3. done \in Replies /\ request' = [request EXCEPT !["view"] = done]
        BY <1>1, <1>7, <2>0, <2>2, <3>1 DEF Done, Settle, Replies, y
      <3>4. done.phase = "done" /\ done.link = l /\ done.result = y
        OBVIOUS
      <3> HIDE DEF done
      <3>5. request'["view"] = done
        BY <3>3 DEF IInv, RequestInv, FormInv, Client
      <3>6. Expected(l)' = y
        BY <3>3, <3>4, <3>5, ValueAssumption DEF Expected, Show
      <3> QED
        BY <1>1, <1>2, <3>1, <3>2, <3>6, Agreeing, ValueAssumption
    <2> QED
      BY <2>1, <2>2
  <1>8. ASSUME NEW k \in Link \ unseen', page # "closed" PROVE AgreesWith(Expected(k), k)'
    <2>1. CASE k = l
      <3>1. c = "view"
        BY <1>1, <1>8, <2>1 DEF Store, Hear, Client
      <3> QED
        BY <1>7, <1>8, <2>1, <3>1
    <2>2. CASE k # l
      <3>1. k \notin unseen /\ links'[k] = links[k] /\ Expected(k)' = Expected(k)
        BY <1>1, <1>2, <1>6, <1>8, <2>2 DEF Store, Hear
      <3>2. AgreesWith(Expected(k), k)
        BY <1>8, <3>1 DEF AgreeInv
      <3> QED
        BY <3>1, <3>2 DEF AgreesWith, Exists, Lapsed
    <2> QED
      BY <2>1, <2>2
  <1>9. ASSUME NEW b \in Client, request'[b] # NoRequest, request'[b].phase = "begun"
        PROVE  request'[b].start <= now
    BY <1>3, <1>5, <1>9 DEF AgreeInv
  <1>10. present' => \A k \in Link : links'[k] # Gone
    BY <1>1, <1>2 DEF AgreeInv
  <1> QED
    BY <1>8, <1>9, <1>10 DEF AgreeInv

LEMMA AgreeExecute ==
  ASSUME IInv, AgreeInv, NEW c \in Client, Execute(c)
  PROVE  AgreeInv'
  <1> DEFINE q == request[c]
             l == q.link
  <1>1. /\ q # NoRequest /\ q.phase = "begun" /\ l \in Link /\ Query(q)
        /\ UNCHANGED <<now, page, shown, visit>>
        /\ links \in [Link -> Row \cup {NoLink, Gone}]
    BY DEF Execute, IInv, RequestInv, FormInv, Formed, TypeInv, TypeOK
  <1>2. CASE q.kind = "create" /\ Store(c, q, [scope |-> q.scope, expires |-> q.expires, revoked |-> FALSE])
    <2> DEFINE row == [scope |-> q.scope, expires |-> q.expires, revoked |-> FALSE]
    <2>1. row \in Row /\ ~row.revoked
      BY <1>1, <1>2 DEF Query, Row
    <2> HIDE DEF row
    <2>2. Store(c, q, row)
      BY <1>2 DEF row
    <2> QED
      BY <1>1, <1>2, <2>1, <2>2, AgreeStore
  <1>3. CASE q.kind = "update" /\ MayUpdate(q) /\ Store(c, q, Written(q, links[l]))
    <2> DEFINE row == Written(q, links[l])
    <2>1. links[l] \in Row /\ ~links[l].revoked
      BY <1>1, <1>3 DEF MayUpdate, Exists
    <2>2. row \in Row /\ ~row.revoked
      BY <1>1, <2>1 DEF Row, Written, Query
    <2> HIDE DEF row
    <2>3. Store(c, q, row)
      BY <1>3 DEF row
    <2> QED
      BY <1>1, <1>3, <2>2, <2>3, AgreeStore
  <1>4. CASE q.kind = "revoke" /\ MayRevoke(q) /\ Store(c, q, [links[l] EXCEPT !.revoked = TRUE])
    <2> DEFINE row == [links[l] EXCEPT !.revoked = TRUE]
    <2>1. links[l] \in Row
      BY <1>1, <1>4 DEF MayRevoke, Exists
    <2>2. row \in Row /\ row = [links[l] EXCEPT !.revoked = TRUE]
      BY <2>1 DEF Row
    <2> HIDE DEF row
    <2>3. Store(c, q, row)
      BY <1>4 DEF row
    <2> QED
      BY <1>1, <1>4, <2>2, <2>3, AgreeStore
  <1>5. CASE Fail(c, q)
    <2>1. UNCHANGED <<now, present, links, page, shown, unseen>>
      BY <1>1, <1>5 DEF Fail, database
    <2>2. /\ request' = [request EXCEPT ![c] = request'[c]]
          /\ request'[c] = IF c = "view" THEN Refused(l) ELSE NoRequest
      BY <1>5 DEF Fail, Settle, IInv, RequestInv, FormInv
    <2>3. \A b \in Client : b # c => request'[b] = request[b]
      BY <2>2 DEF IInv, RequestInv, FormInv
    <2>4. ASSUME NEW k \in Link PROVE Expected(k)' = Expected(k)
      BY <1>1, <2>1, <2>2, <2>3, Refusals DEF Expected, Show, Client
    <2> QED
      BY <1>1, <2>1, <2>2, <2>3, <2>4, Refusals, AgreeAside
  <1> QED
    BY <1>2, <1>3, <1>4, <1>5 DEF Execute

LEMMA AgreeView ==
  ASSUME IInv, AgreeInv, Read \/ Loaded \/ Answered \/ Lost
  PROVE  AgreeInv'
  <1>0. /\ shown \in [Link -> Summaries \cup {NoLink}] /\ links \in [Link -> Row \cup {NoLink, Gone}]
        /\ now \in Time /\ "view" \in Client
        /\ \A c \in Client : request[c] # NoRequest => request[c].link \in Link
    BY DEF IInv, TypeInv, TypeOK, Client, RequestInv, FormInv, Formed
  <1>1. CASE Read
    <2>1. /\ UNCHANGED <<now, present, links, request>> /\ present /\ request["view"] = NoRequest
          /\ shown' = [l \in Link |-> IF Exists(l) THEN Summary(links[l], now) ELSE NoLink]
      BY <1>1 DEF Read, database
    <2>2. ASSUME NEW l \in Link PROVE AgreesWith(Expected(l), l)'
      <3>1. Expected(l)' = IF Exists(l) THEN Summary(links[l], now) ELSE NoLink
        BY <2>1 DEF Expected
      <3>2. CASE Exists(l)
        <4>1. links[l] \in Row
          BY <1>0, <3>2 DEF Exists
        <4> DEFINE y == Summary(links[l], now)
        <4>2. /\ y \in Summaries /\ y.scope = links[l].scope /\ y.expires = links[l].expires
              /\ y.status = "revoked" => links[l].revoked /\ (links[l].revoked => y.status = "revoked")
              /\ y.status = "expired" => Lapsed(links[l], now)
          BY <4>1 DEF Summary, Status, Summaries, Row
        <4>3. links[l].revoked => y.status = "revoked"
          BY DEF Summary, Status
        <4> HIDE DEF y
        <4>4. Expected(l)' = y
          BY <3>1, <3>2 DEF y
        <4> QED
          BY <2>1, <4>1, <4>2, <4>3, <4>4, Agreeing
      <3>3. CASE ~Exists(l)
        BY <2>1, <3>1, <3>3 DEF AgreeInv, AgreesWith, Exists
      <3> QED
        BY <3>2, <3>3
    <2> QED
      BY <2>1, <2>2 DEF AgreeInv
  <1>2. CASE Loaded
    <2>1. /\ UNCHANGED <<now, present, links, request, unseen>> /\ page = "loading"
          /\ page' # "closed" => shown' = shown
      BY <1>2 DEF Loaded, database
    <2>2. page' # "closed" => \A l \in Link : Expected(l)' = Expected(l)
      BY <2>1 DEF Expected, Show
    <2> QED
      BY <2>1, <2>2, AgreeAside
  <1>3. CASE Answered
    <2> DEFINE q == request["view"]
    <2>1. /\ UNCHANGED <<now, present, links, page, unseen>> /\ q # NoRequest /\ q.phase # "begun"
          /\ shown' = [shown EXCEPT ![q.link] = Show(q)]
          /\ request' = [request EXCEPT !["view"] = NoRequest]
      BY <1>3 DEF Answered, Waiting, database
    <2>2. \A c \in Client : request'[c] = IF c = "view" THEN NoRequest ELSE request[c]
      BY <2>1 DEF IInv, RequestInv, FormInv
    <2>3. ASSUME NEW l \in Link PROVE Expected(l)' = Expected(l)
      BY <1>0, <2>1, <2>2 DEF Expected
    <2> QED
      BY <2>1, <2>2, <2>3, AgreeAside
  <1>4. CASE Lost
    <2> DEFINE q == request["view"]
    <2>1. /\ UNCHANGED <<now, present, links, shown>> /\ q # NoRequest
          /\ page' = "stuck" /\ unseen' = unseen \cup {q.link}
          /\ request' = [request EXCEPT !["view"] = NoRequest]
      BY <1>4 DEF Lost, Waiting, database
    <2>2. \A c \in Client : request'[c] = IF c = "view" THEN NoRequest ELSE request[c]
      BY <2>1 DEF IInv, RequestInv, FormInv
    <2>3. ASSUME NEW l \in Link \ unseen' PROVE Expected(l)' = Expected(l)
      BY <1>0, <2>1, <2>2 DEF Expected
    <2>4. page # "closed"
      BY <2>1 DEF IInv, PageInv
    <2> QED
      BY <2>1, <2>2, <2>3, <2>4, AgreeAside
  <1> QED
    BY <1>1, <1>2, <1>3, <1>4

LEMMA AgreeAbandon ==
  ASSUME IInv, AgreeInv, Abandon
  PROVE  AgreeInv'
  <1> DEFINE q == request["view"]
  <1>1. PICK e \in Elsewhere : request' = [request EXCEPT ![e] = q, !["view"] = NoRequest]
    BY DEF Abandon
  <1>2. /\ q # NoRequest /\ q.phase = "begun" /\ page # "closed" /\ "view" \in Client
        /\ UNCHANGED <<now, present, links, shown, unseen>>
    BY DEF Abandon, database, IInv, PageInv, Client
  <1>3. \A c \in Client :
          request'[c] = IF c = "view" THEN NoRequest ELSE IF c = e THEN q ELSE request[c]
    BY <1>1 DEF IInv, RequestInv, FormInv
  <1>4. \A l \in Link : Expected(l)' = Expected(l)
    BY <1>2, <1>3 DEF Expected
  <1>5. \A c \in Client : request'[c] = request[c] \/ request'[c] = NoRequest
                          \/ (request'[c].phase = "begun" => request'[c].start <= now)
    BY <1>2, <1>3 DEF AgreeInv
  <1> QED
    BY <1>2, <1>4, <1>5, AgreeAside

LEMMA NextAgree == IInv /\ AgreeInv /\ [Next]_vars => AgreeInv'
  <1> SUFFICES ASSUME IInv, AgreeInv, [Next]_vars PROVE AgreeInv'
    OBVIOUS
  <1>1. ASSUME UNCHANGED <<now, present, links, request, page, shown, unseen>> PROVE AgreeInv'
    <2>1. \A l \in Link : Expected(l)' = Expected(l)
      BY <1>1 DEF Expected, Show
    <2> QED
      BY <1>1, <2>1, AgreeAside
  <1>2. CASE RemoveCollection
    BY <1>2 DEF RemoveCollection, AgreeInv
  <1>3. CASE \/ ChangeStock \/ ChangeStatus
             \/ \E v \in Visitor : Arrive(v) \/ ReadLink(v) \/ ReadStickers(v) \/ Depart(v)
    BY <1>1, <1>3 DEF ChangeStock, ChangeStatus, Arrive, ReadLink, ReadStickers, Depart, database, owner
  <1>4. CASE UNCHANGED vars
    BY <1>1, <1>4 DEF vars, database, owner
  <1>5. CASE Next
    BY <1>2, <1>3, <1>5, AgreeTick, AgreeSend, AgreeExecute, AgreeView, AgreeAbandon DEF Next
  <1> QED
    BY <1>4, <1>5

LEMMA InitAgree == Init => AgreeInv
  BY ValueAssumption DEF Init, AgreeInv
-----------------------------------------------------------------------------
(* What it gives.                                                          *)

\* The variables of the share links keep their types.
THEOREM TypeCorrect == Spec => []TypeOK
  <1>1. IInv => TypeOK
    BY DEF IInv, TypeInv
  <1> QED
    BY <1>1, AlwaysIInv, PTL

\* A visitor sees what the link gave access to at one moment of the visit
\* (src/modules/collections/sharing.ts:337).
THEOREM OneMoment == Spec => []VisitorSeesOneMoment
  <1>1. IInv => VisitorSeesOneMoment
    BY DEF IInv, VisitInv, VisitorSeesOneMoment
  <1> QED
    BY <1>1, AlwaysIInv, PTL

\* No visit that begins after the owner's view said so opens a revoked link
\* (src/components/collection-sharing.tsx:139).
THEOREM ToldAndDone == Spec => []ToldRevokedNeverOpens
  <1>1. IInv => ToldRevokedNeverOpens
    BY DEF IInv, VisitInv, ToldRevokedNeverOpens
  <1> QED
    BY <1>1, AlwaysIInv, PTL

\* Apart from what it cannot have heard of, the view shows what the table has
\* (src/components/collection-sharing.tsx:139).
THEOREM ViewIsRight == Spec => []ViewAgrees
  <1>1. Spec => []AgreeInv
    BY InitAgree, NextAgree, AlwaysIInv, PTL DEF Spec
  <1>2. AgreeInv => ViewAgrees
    BY DEF AgreeInv, AgreesWith, Expected, ViewAgrees, Agrees
  <1> QED
    BY <1>1, <1>2, PTL

\* Only a change that read the clock before the link expired brings a dead link
\* back (src/modules/collections/sharing.ts:204).
THEOREM DeadForGood == Spec => DeadLinksStayDead
  <1> DEFINE Stays == \A l \in Link : Dead(l) /\ ~Late(l) => Dead(l)'
  <1>1. ASSUME IInv, [Next]_vars PROVE Stays
    <2> SUFFICES ASSUME NEW l \in Link, Dead(l), ~Late(l) PROVE Dead(l)'
      OBVIOUS
    <2>1. links \in [Link -> Row \cup {NoLink, Gone}] /\ now \in Time
      BY <1>1 DEF IInv, TypeInv, TypeOK
    <2>2. CASE links' = links /\ now' = now
      BY <2>2 DEF Dead, Exists, Lapsed
    <2>3. CASE Tick
      <3>1. links' = links /\ now' = now + 1 /\ now \in Nat
        BY <2>1, <2>3, ShareAssumption DEF Tick, database, Time
      <3>2. Exists(l) => links[l].expires = Never \/ links[l].expires \in Nat
        BY <2>1, ShareAssumption DEF Exists, Row, Time
      <3>3. Exists(l) /\ Lapsed(links[l], now) => Lapsed(links[l], now + 1)
        BY <3>1, <3>2 DEF Lapsed
      <3> QED
        BY <3>1, <3>3 DEF Dead, Exists
    <2>4. CASE RemoveCollection
      BY <2>1, <2>4 DEF RemoveCollection, Dead, Exists
    <2>5. ASSUME NEW c \in Client, Execute(c) PROVE Dead(l)'
      <3> DEFINE q == request[c]
      <3>1. q # NoRequest /\ q.phase = "begun" /\ now' = now /\ q.link \in Link
        BY <1>1, <2>5 DEF Execute, IInv, RequestInv, FormInv, Formed
      <3>2. CASE links' = links
        BY <3>1, <3>2 DEF Dead, Exists, Lapsed
      <3>3. ASSUME NEW row, Store(c, q, row), q.link # l PROVE Dead(l)'
        <4>1. links'[l] = links[l]
          BY <2>1, <3>3 DEF Store
        <4> QED
          BY <3>1, <4>1 DEF Dead, Exists, Lapsed
      <3>4. ASSUME NEW row, Store(c, q, row), q.link = l, q.kind = "create" PROVE Dead(l)'
        BY <1>1, <3>1, <3>4, ValueAssumption DEF IInv, RequestInv, CreateInv, Dead, Exists
      <3>5. ASSUME MayUpdate(q), q.link = l, q.kind = "update" PROVE Dead(l)'
        BY <3>1, <3>5 DEF MayUpdate, Late
      <3>6. ASSUME Store(c, q, [links[l] EXCEPT !.revoked = TRUE]), q.link = l, MayRevoke(q) PROVE Dead(l)'
        <4> DEFINE row == [links[l] EXCEPT !.revoked = TRUE]
        <4>1. links[l] \in Row
          BY <2>1, <3>6 DEF MayRevoke, Exists
        <4>2. row \in Row /\ row.revoked
          BY <4>1 DEF Row
        <4>3. links' = [links EXCEPT ![l] = row]
          BY <3>6 DEF Store
        <4> HIDE DEF row
        <4>4. links'[l] = row
          BY <2>1, <4>3
        <4> QED
          BY <4>2, <4>4, ValueAssumption DEF Dead, Exists
      <3>7. Fail(c, q) => links' = links
        BY DEF Fail, database
      <3> QED
        BY <2>5, <3>2, <3>3, <3>4, <3>5, <3>6, <3>7 DEF Execute
    <2>6. (\/ ChangeStock \/ ChangeStatus \/ Read \/ Loaded \/ Answered \/ Lost \/ Abandon
           \/ \E c \in Client : Send(c)
           \/ \E v \in Visitor : Arrive(v) \/ ReadLink(v) \/ ReadStickers(v) \/ Depart(v)) =>
            links' = links /\ now' = now
      BY DEF ChangeStock, ChangeStatus, Read, Loaded, Answered, Lost, Abandon, Send, Arrive, ReadLink,
             ReadStickers, Depart, database
    <2>7. UNCHANGED vars => links' = links /\ now' = now
      BY DEF vars, database
    <2> QED
      BY <1>1, <2>2, <2>3, <2>4, <2>5, <2>6, <2>7 DEF Next
  <1>2. IInv /\ [Next]_vars => [Stays]_vars
    BY <1>1
  <1> QED
    BY <1>2, AlwaysIInv, PTL DEF Spec, DeadLinksStayDead
=============================================================================
