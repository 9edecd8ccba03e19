------------------------------ MODULE Holdings ------------------------------
(***************************************************************************)
(* One collection's holdings, the requests that change them                *)
(* (applyHoldingChange in src/modules/collections/repository.ts, run by    *)
(* withTransaction) and the album views that show them on several devices  *)
(* (src/components/collection-view.tsx).                                   *)
(*                                                                         *)
(* The collection row's FOR UPDATE lock serializes writers; the later FOR  *)
(* UPDATE on the holding row never waits, because every writer of holdings *)
(* has the collection row by then.  A sticker outside the pinned revision  *)
(* is refused with 400: published revisions are immutable, so Sticker is a *)
(* constant and that refusal is one more way to fail.                      *)
(***************************************************************************)
EXTENDS HoldingChanges

CONSTANTS
  Device,       \* album views of the collector, in any browser
  Request,      \* requests the server executes at a time
  NoRequest,    \* who holds a free row lock
  NotPending,   \* a sticker of a view that waits for no answer
  DirectChange  \* changes asked for by clients other than the album view

Wait == [request : Request, previous : Quantity]

ASSUME ClientAssumption ==
  /\ NoRequest \notin Request
  /\ NotPending \notin Wait
  /\ DirectChange \subseteq Change

VARIABLES
  present,   \* the collection row exists
  holdings,  \* its rows in the holdings table: sticker to quantity, never 0
  lock,      \* the request that holds the collection's row lock
  phase,     \* where each request is
  call,      \* its change, then its answer
  previous,  \* the quantity its transaction read
  page,      \* where each album view is
  shown,     \* the quantities it shows, or will when it has loaded
  pending,   \* the answers it waits for, with the quantity to fall back to
  unseen     \* history: stickers changed since the view last heard of them

server == <<present, holdings, lock, phase, call, previous>>
view   == <<page, shown, pending>>
vars   == <<server, view, unseen>>

Stored == [s \in Sticker |-> IF s \in DOMAIN holdings THEN holdings[s] ELSE 0]

TypeOK ==
  /\ present \in BOOLEAN
  /\ holdings \in UNION {[S -> Quantity \ {0}] : S \in SUBSET Sticker}
  /\ lock \in Request \cup {NoRequest}
  /\ phase \in [Request -> {"free", "queued", "locked", "read", "answered"}]
  /\ call \in [Request -> Change \cup Answer \cup {NoCall}]
  /\ previous \in [Request -> Quantity]
  /\ page \in [Device -> {"closed", "loading", "open"}]
  /\ shown \in [Device -> [Sticker -> Quantity]]
  /\ pending \in [Device -> [Sticker -> Wait \cup {NotPending}]]
  /\ unseen \in [Device -> SUBSET Sticker]

NothingPending == [s \in Sticker |-> NotPending]

Init ==
  /\ present = TRUE
  /\ holdings = [s \in {} |-> 0]
  /\ lock = NoRequest
  /\ phase = [r \in Request |-> "free"]
  /\ call = [r \in Request |-> NoCall]
  /\ previous = [r \in Request |-> 0]
  /\ page = [d \in Device |-> "closed"]
  /\ shown = [d \in Device |-> [s \in Sticker |-> 0]]
  /\ pending = [d \in Device |-> NothingPending]
  /\ unseen = [d \in Device |-> {}]

-----------------------------------------------------------------------------
(* Clients ask.                                                            *)

Send(r, change) ==
  /\ phase[r] = "free"
  /\ phase' = [phase EXCEPT ![r] = "queued"]
  /\ call'  = [call EXCEPT ![r] = change]
  /\ UNCHANGED <<present, holdings, lock, previous>>

SendDirectly(r) ==
  /\ \E change \in DirectChange : Send(r, change)
  /\ UNCHANGED <<view, unseen>>

\* The view is loaded, or loaded again: the snapshot of the sticker list is
\* taken now and shown later, or a 404 shown instead; answers to the old view
\* go nowhere.
LoadView(d) ==
  /\ page'    = [page EXCEPT ![d] = IF present THEN "loading" ELSE "closed"]
  /\ shown'   = [shown EXCEPT ![d] = Stored]
  /\ pending' = [pending EXCEPT ![d] = NothingPending]
  /\ unseen'  = [unseen EXCEPT ![d] = {}]
  /\ UNCHANGED server

ShowView(d) ==
  /\ page[d] = "loading"
  /\ page' = [page EXCEPT ![d] = "open"]
  /\ UNCHANGED <<server, shown, pending, unseen>>

\* updateQuantity: the requested quantity is shown before it is saved.
Update(d, s, r, quantity, change) ==
  /\ page[d] = "open"
  /\ pending[d][s] = NotPending
  /\ quantity # shown[d][s]
  /\ Send(r, change)
  /\ shown'   = [shown EXCEPT ![d][s] = quantity]
  /\ pending' = [pending EXCEPT ![d][s] = [request |-> r, previous |-> shown[d][s]]]
  /\ UNCHANGED <<page, unseen>>

Tap(d, s, r) ==
  \E quantity \in {shown[d][s] - 1, shown[d][s] + 1} \cap Quantity :
    Update(d, s, r, quantity,
           [type |-> "add", sticker |-> s, delta |-> quantity - shown[d][s]])

TypeIn(d, s, r) ==
  \E quantity \in Quantity :
    Update(d, s, r, quantity,
           [type |-> "set", sticker |-> s, quantity |-> quantity, expected |-> shown[d][s]])

-----------------------------------------------------------------------------
(* The server executes.                                                    *)

\* withTransaction ends: the answer is on its way and the row lock released.
Answered(r, answer) ==
  /\ phase'    = [phase EXCEPT ![r] = "answered"]
  /\ call'     = [call EXCEPT ![r] = answer]
  /\ previous' = [previous EXCEPT ![r] = 0]
  /\ lock'     = IF lock = r THEN NoRequest ELSE lock
  /\ UNCHANGED view

\* Which views know about a change of s that is committed for request r.
Waiting(d, s, r) == pending[d][s] # NotPending /\ pending[d][s].request = r

\* Views that r answers with s's quantity know it; a change surprises others.
Heard(r, s, told, changed) ==
  unseen' = [d \in Device |->
    IF told /\ Waiting(d, s, r) THEN unseen[d] \ {s}
    ELSE IF changed THEN unseen[d] \cup {s} ELSE unseen[d]]

\* A mutant: the collection is read without FOR UPDATE.
ReadCollection(r) ==
  /\ phase[r] = "queued"
  /\ present
  /\ phase' = [phase EXCEPT ![r] = "locked"]
  /\ UNCHANGED <<present, holdings, lock, call, previous, view, unseen>>

LockCollection(r) ==
  /\ phase[r] = "queued"
  /\ present
  /\ lock = NoRequest
  /\ lock'  = r
  /\ phase' = [phase EXCEPT ![r] = "locked"]
  /\ UNCHANGED <<present, holdings, call, previous, view, unseen>>

CollectionGone(r) ==
  /\ phase[r] = "queued"
  /\ ~present
  /\ Answered(r, Failed)
  /\ UNCHANGED <<present, holdings, unseen>>

ReadHolding(r) ==
  /\ phase[r] = "locked"
  /\ previous' = [previous EXCEPT ![r] = Stored[call[r].sticker]]
  /\ phase'    = [phase EXCEPT ![r] = "read"]
  /\ UNCHANGED <<present, holdings, lock, call, view, unseen>>

\* A mutant: the 409 leaves the transaction open.
ConflictKeepingLock(r) ==
  /\ phase[r] = "read"
  /\ ~Accepts(call[r], previous[r])
  /\ phase'    = [phase EXCEPT ![r] = "answered"]
  /\ call'     = [call EXCEPT ![r] = [status |-> "conflict", quantity |-> previous[r]]]
  /\ previous' = [previous EXCEPT ![r] = 0]
  /\ Heard(r, call[r].sticker, TRUE, FALSE)
  /\ UNCHANGED <<view, lock, present, holdings>>

Conflict(r) ==
  /\ phase[r] = "read"
  /\ ~Accepts(call[r], previous[r])
  /\ Answered(r, [status |-> "conflict", quantity |-> previous[r]])
  /\ Heard(r, call[r].sticker, TRUE, FALSE)
  /\ UNCHANGED <<present, holdings>>

\* A row is deleted at 0 and upserted otherwise.
Store(s, n) ==
  LET kept == IF n = 0 THEN DOMAIN holdings \ {s} ELSE DOMAIN holdings \cup {s}
  IN  holdings' = [x \in kept |-> IF x = s THEN n ELSE holdings[x]]

\* COMMIT; when its acknowledgement is lost the client is told it failed.
Commit(r) ==
  /\ phase[r] = "read"
  /\ Accepts(call[r], previous[r])
  /\ LET s == call[r].sticker
         n == Result(call[r], previous[r])
     IN  /\ Store(s, n)
         /\ \/ /\ Answered(r, [status |-> "saved", quantity |-> n])
               /\ Heard(r, s, TRUE, n # previous[r])
            \/ /\ Answered(r, Failed)
               /\ Heard(r, s, FALSE, n # previous[r])
  /\ UNCHANGED present

\* A database error, a lost connection or a refused sticker before COMMIT.
Rollback(r) ==
  /\ phase[r] \in {"queued", "locked", "read"}
  /\ Answered(r, Failed)
  /\ UNCHANGED <<present, holdings, unseen>>

\* DELETE waits for the row lock; the holdings cascade.
RemoveCollection ==
  /\ present
  /\ lock = NoRequest
  /\ present'  = FALSE
  /\ holdings' = [s \in {} |-> 0]
  /\ UNCHANGED <<lock, phase, call, previous, view, unseen>>

-----------------------------------------------------------------------------
(* Answers arrive, or not.                                                 *)

Release(r) ==
  /\ phase' = [phase EXCEPT ![r] = "free"]
  /\ call'  = [call EXCEPT ![r] = NoCall]
  /\ UNCHANGED <<present, holdings, lock, previous>>

Settle(d, s, quantity) ==
  /\ shown'   = [shown EXCEPT ![d][s] = quantity]
  /\ pending' = [pending EXCEPT ![d][s] = NotPending]
  /\ UNCHANGED page

\* A mutant: the view trusts what it showed before the conflict.
ShowPreviousOnConflict(d, s) ==
  LET r == pending[d][s].request
  IN  /\ pending[d][s] # NotPending
      /\ phase[r] = "answered"
      /\ Settle(d, s, IF call[r].status = "saved" THEN call[r].quantity
                      ELSE pending[d][s].previous)
      /\ Release(r)
      /\ UNCHANGED unseen

\* 200 and 409 carry the stored quantity; anything else restores the old one.
Receive(d, s) ==
  LET r == pending[d][s].request
  IN  /\ pending[d][s] # NotPending
      /\ phase[r] = "answered"
      /\ Settle(d, s, IF call[r] = Failed THEN pending[d][s].previous ELSE call[r].quantity)
      /\ Release(r)
      /\ UNCHANGED unseen

\* The fetch rejects or its body is unreadable; the request lives on.
LoseAnswer(d, s) ==
  LET r == pending[d][s].request
  IN  /\ pending[d][s] # NotPending
      /\ Settle(d, s, pending[d][s].previous)
      /\ unseen' = IF call[r] \in Answer \ {Failed}
                   THEN [unseen EXCEPT ![d] = @ \cup {s}] ELSE unseen
      /\ UNCHANGED server

Discard(r) ==
  /\ phase[r] = "answered"
  /\ \A d \in Device, s \in Sticker : ~Waiting(d, s, r)
  /\ Release(r)
  /\ UNCHANGED <<view, unseen>>

-----------------------------------------------------------------------------
Execute(r) == CollectionGone(r) \/ ReadHolding(r) \/ Conflict(r) \/ Commit(r)

Next ==
  \/ \E r \in Request :
       \/ SendDirectly(r) \/ LockCollection(r) \/ Execute(r)
       \/ Rollback(r) \/ Discard(r)
       \/ \E d \in Device, s \in Sticker : Tap(d, s, r) \/ TypeIn(d, s, r)
  \/ \E d \in Device :
       \/ LoadView(d) \/ ShowView(d)
       \/ \E s \in Sticker : Receive(d, s) \/ LoseAnswer(d, s)
  \/ RemoveCollection

Spec == Init /\ [][Next]_vars

\* The server goes on with what it has begun, answers reach views that still
\* wait, and PostgreSQL's queue of waiters for a row lock lets each one pass.
FairSpec ==
  /\ Spec
  /\ \A r \in Request : WF_vars(Execute(r)) /\ SF_vars(LockCollection(r))
  /\ \A d \in Device, s \in Sticker : WF_vars(Receive(d, s))

-----------------------------------------------------------------------------
(* Properties.                                                             *)

Register == INSTANCE HoldingRegister WITH quantity <- Stored

\* docs/ARCHITECTURE.md, "Holding writes are serialized per collection": taps
\* on two devices both count and a typed quantity never replaces one that its
\* sender had not seen, through lost answers, failures and removal.
Linearizable == Register!RegisterSpec

\* A sticker that waits for no answer shows the stored quantity, unless it was
\* changed elsewhere or an answer about it was lost since: the optimistic
\* update, its undo, the 409 and the server's clamping all converge.
ViewIsAccurate ==
  present =>
    \A d \in Device, s \in Sticker :
      /\ page[d] = "open"
      /\ pending[d][s] = NotPending
      /\ s \notin unseen[d]
      => shown[d][s] = Stored[s]

\* A sticker is never left saving for ever: its button, disabled while the
\* answer is awaited, becomes usable again.
EveryUpdateSettles ==
  \A d \in Device, s \in Sticker :
    pending[d][s] # NotPending ~> pending[d][s] = NotPending
=============================================================================
