-------------------------- MODULE ComparisonGrants --------------------------
(***************************************************************************)
(* Direct-comparison grants: creation, redemption by the first compatible  *)
(* collector, revocation, expiry, and the account and collection changes   *)
(* that reach them (src/modules/trading/comparison.ts).  redeemGrant runs  *)
(* on the pool, so each of its statements commits alone and sees its own   *)
(* snapshot; the comparison itself reads one REPEATABLE READ snapshot.     *)
(* One album is modelled: a collector has at most one active collection of *)
(* it, and a grant belongs to the collection of its owner.                 *)
(***************************************************************************)
EXTENDS Integers

CONSTANTS
  Collector,  \* collector profiles, each of one user
  Grant,      \* ids of collection_comparison_grants rows, never reused
  Request,    \* requests that redeem a code or a QR token
  Nobody,     \* the NULL recipient_collector_id
  NoRow,      \* a grant id without a row yet
  Gone,       \* a grant id whose row was deleted
  NoJob,      \* what an idle request works on
  Lifetime,   \* comparisonLifetimeMs
  MaxTime     \* how long the clock runs

Time == 0..MaxTime
Row == [owner : Collector, recipient : Collector \cup {Nobody},
        expires : 0..(MaxTime + Lifetime), revoked : BOOLEAN]
Job == [viewer : Collector, grant : Grant, now : Time, kind : {"setup", "compare"}]

ASSUME GrantAssumption ==
  /\ Nobody \notin Collector
  /\ NoRow \notin Row /\ Gone \notin Row /\ NoRow # Gone
  /\ NoJob \notin Job
  /\ Lifetime \in Nat \ {0}
  /\ MaxTime \in Nat

VARIABLES
  time,     \* the server's clock
  account,  \* the status of each collector's user
  album,    \* the collectors with an active collection of the album
  grant,    \* the table
  pc,       \* where each request is
  job,      \* who redeems what, and the time the request read the clock
  served    \* history: the collectors who were shown a grant's comparison

world == <<time, account, album>>
vars  == <<world, grant, pc, job, served>>

Rows   == {g \in Grant : grant[g] \in Row}
Active == {c \in Collector : account[c] = "active"}

TypeOK ==
  /\ time \in Time
  /\ account \in [Collector -> {"active", "suspended", "deleted"}]
  /\ album \in SUBSET Collector
  /\ grant \in [Grant -> Row \cup {NoRow, Gone}]
  /\ pc \in [Request -> {"idle", "opened", "loaded", "compatible", "lost", "redeemed"}]
  /\ job \in [Request -> Job \cup {NoJob}]
  /\ served \in [Grant -> SUBSET Collector]

Init ==
  /\ time = 0
  /\ account = [c \in Collector |-> "active"]
  /\ album \in SUBSET Collector
  /\ grant = [g \in Grant |-> NoRow]
  /\ pc = [r \in Request |-> "idle"]
  /\ job = [r \in Request |-> NoJob]
  /\ served = [g \in Grant |-> {}]

-----------------------------------------------------------------------------
(* What happens around a redemption.  A request of one statement is taken  *)
(* as one step with the check of its session.                              *)

Tick ==
  /\ time < MaxTime
  /\ time' = time + 1
  /\ UNCHANGED <<account, album, grant, pc, job, served>>

DeleteRows(G) == grant' = [g \in Grant |-> IF g \in G THEN Gone ELSE grant[g]]

AddCollection(c) ==
  /\ c \in Active \ album
  /\ album' = album \cup {c}
  /\ UNCHANGED <<time, account, grant, pc, job, served>>

RemoveCollection(c) ==
  /\ c \in Active \cap album
  /\ album' = album \ {c}
  /\ DeleteRows({g \in Rows : grant[g].owner = c})
  /\ UNCHANGED <<time, account, pc, job, served>>

SetStatus(c, status) ==
  /\ account[c] \notin {status, "deleted"}
  /\ account' = [account EXCEPT ![c] = status]
  /\ UNCHANGED <<time, album, grant, pc, job, served>>

\* Profile and collection cascade, and with them the grants of the collection
\* and, since migration 000010, the grants that name the profile as recipient.
DeleteAccount(c) ==
  /\ account[c] # "deleted"
  /\ account' = [account EXCEPT ![c] = "deleted"]
  /\ album'   = album \ {c}
  /\ DeleteRows({g \in Rows : c \in {grant[g].owner, grant[g].recipient}})
  /\ UNCHANGED <<time, pc, job, served>>

\* A mutant: the lifetime is added to a date that already has it.
CreateTooLong(c, g) ==
  /\ c \in Active \cap album
  /\ grant[g] = NoRow
  /\ grant' = [grant EXCEPT ![g] =
       [owner |-> c, recipient |-> Nobody, expires |-> time + 2 * Lifetime, revoked |-> FALSE]]
  /\ UNCHANGED <<world, pc, job, served>>

Create(c, g) ==
  /\ c \in Active \cap album
  /\ grant[g] = NoRow
  /\ grant' = [grant EXCEPT ![g] =
       [owner |-> c, recipient |-> Nobody, expires |-> time + Lifetime, revoked |-> FALSE]]
  /\ UNCHANGED <<world, pc, job, served>>

Revoke(c, g) ==
  /\ g \in Rows
  /\ c \in Active /\ grant[g].owner = c
  /\ ~grant[g].revoked
  /\ grant' = [grant EXCEPT ![g].revoked = TRUE]
  /\ UNCHANGED <<world, pc, job, served>>

-----------------------------------------------------------------------------
(* redeemGrant, statement by statement, and what its callers do next.      *)

Viewer(r) == job[r].viewer
Target(r) == grant[job[r].grant]

Goto(r, place) == pc' = [pc EXCEPT ![r] = place] /\ UNCHANGED job

End(r) ==
  /\ pc'  = [pc EXCEPT ![r] = "idle"]
  /\ job' = [job EXCEPT ![r] = NoJob]

\* loadActiveGrant finds the row.
Usable(r) ==
  /\ job[r].grant \in Rows
  /\ ~Target(r).revoked
  /\ Target(r).expires > job[r].now
  /\ Target(r).owner \in Active

Open(r, v, g, kind) ==
  /\ pc[r] = "idle"
  /\ v \in Active
  /\ grant[g] # NoRow
  /\ pc'  = [pc EXCEPT ![r] = "opened"]
  /\ job' = [job EXCEPT ![r] = [viewer |-> v, grant |-> g, now |-> time, kind |-> kind]]
  /\ UNCHANGED <<world, grant, served>>

Load(r) ==
  /\ pc[r] = "opened"
  /\ Usable(r)
  /\ Target(r).owner # Viewer(r)
  /\ \/ Target(r).recipient = Nobody    /\ Goto(r, "loaded")
     \/ Target(r).recipient = Viewer(r) /\ Goto(r, "redeemed")
  /\ UNCHANGED <<world, grant, served>>

FindCompatible(r) ==
  /\ pc[r] = "loaded"
  /\ Viewer(r) \in album
  /\ Goto(r, "compatible")
  /\ UNCHANGED <<world, grant, served>>

\* Mutants: an UPDATE by id alone, and one without the revoked_at condition.
BindAnyway(r) ==
  /\ pc[r] = "compatible"
  /\ account[Viewer(r)] # "deleted"
  /\ job[r].grant \in Rows
  /\ grant' = [grant EXCEPT ![job[r].grant].recipient = Viewer(r)]
  /\ Goto(r, "redeemed")
  /\ UNCHANGED <<world, served>>

BindRevoked(r) ==
  /\ pc[r] = "compatible"
  /\ account[Viewer(r)] # "deleted"
  /\ IF job[r].grant \in Rows /\ Target(r).recipient = Nobody /\ Target(r).expires > job[r].now
     THEN /\ grant' = [grant EXCEPT ![job[r].grant].recipient = Viewer(r)]
          /\ Goto(r, "redeemed")
     ELSE UNCHANGED grant /\ Goto(r, "lost")
  /\ UNCHANGED <<world, served>>

\* The conditional UPDATE: one row, or none and the race is lost.
Bind(r) ==
  /\ pc[r] = "compatible"
  /\ account[Viewer(r)] # "deleted"
  /\ IF /\ job[r].grant \in Rows
        /\ Target(r).recipient = Nobody
        /\ ~Target(r).revoked
        /\ Target(r).expires > job[r].now
     THEN /\ grant' = [grant EXCEPT ![job[r].grant].recipient = Viewer(r)]
          /\ Goto(r, "redeemed")
     ELSE UNCHANGED grant /\ Goto(r, "lost")
  /\ UNCHANGED <<world, served>>

\* A lost race still counts when the viewer's own other request won it.
Reload(r) ==
  /\ pc[r] = "lost"
  /\ Usable(r) /\ Target(r).recipient = Viewer(r)
  /\ Goto(r, "redeemed")
  /\ UNCHANGED <<world, grant, served>>

\* A mutant: losing the race is the end.
RefuseEveryLoser(r) ==
  /\ \/ pc[r] = "opened" /\ ~(/\ Usable(r)
                              /\ Target(r).owner # Viewer(r)
                              /\ Target(r).recipient \in {Nobody, Viewer(r)})
     \/ pc[r] = "loaded" /\ Viewer(r) \notin album
     \/ pc[r] = "lost"
  /\ End(r)
  /\ UNCHANGED <<world, grant, served>>

\* Every reason to refuse looks the same to the viewer: not available.
Refuse(r) ==
  /\ \/ pc[r] = "opened" /\ ~(/\ Usable(r)
                              /\ Target(r).owner # Viewer(r)
                              /\ Target(r).recipient \in {Nobody, Viewer(r)})
     \/ pc[r] = "loaded" /\ Viewer(r) \notin album
     \/ pc[r] = "lost" /\ ~(Usable(r) /\ Target(r).recipient = Viewer(r))
  /\ End(r)
  /\ UNCHANGED <<world, grant, served>>

\* prepareDirectComparison lists the viewer's own collections, or refuses.
Setup(r) ==
  /\ pc[r] = "redeemed"
  /\ job[r].kind = "setup"
  /\ End(r)
  /\ UNCHANGED <<world, grant, served>>

\* The snapshot of calculateDirectComparison: the grant is loaded once more
\* with the clock the request read first, and both collections must be there.
MayCompare(r) ==
  Usable(r) /\ Target(r).recipient = Viewer(r) /\ Viewer(r) \in album

Compare(r) ==
  /\ pc[r] = "redeemed"
  /\ job[r].kind = "compare"
  /\ served' = IF MayCompare(r)
               THEN [served EXCEPT ![job[r].grant] = @ \cup {Viewer(r)}] ELSE served
  /\ End(r)
  /\ UNCHANGED <<world, grant>>

\* A database error, the foreign key of a deleted viewer among them.
Fail(r) ==
  /\ pc[r] # "idle"
  /\ End(r)
  /\ UNCHANGED <<world, grant, served>>

-----------------------------------------------------------------------------
Redeem(r) ==
  \/ Load(r) \/ FindCompatible(r) \/ Bind(r) \/ Reload(r) \/ Refuse(r)
  \/ Setup(r) \/ Compare(r) \/ Fail(r)

Next ==
  \/ Tick
  \/ \E c \in Collector :
       \/ AddCollection(c) \/ RemoveCollection(c) \/ DeleteAccount(c)
       \/ SetStatus(c, "active") \/ SetStatus(c, "suspended")
       \/ \E g \in Grant : Create(c, g) \/ Revoke(c, g)
  \/ \E r \in Request :
       \/ \E v \in Collector, g \in Grant, kind \in {"setup", "compare"} : Open(r, v, g, kind)
       \/ Redeem(r)

Spec == Init /\ [][Next]_vars

-----------------------------------------------------------------------------
(* Properties.                                                             *)

\* docs/ARCHITECTURE.md: concurrent first redemptions cannot both win.  Over the
\* whole life of a grant one collector at most is shown its comparison.
OneCollectorPerGrant ==
  \A g \in Grant : \A c, d \in served[g] : c = d

\* Revoking is final also for a redemption that had already loaded the grant:
\* a revoked grant is never bound, and never becomes usable again.
RevokedForGood ==
  [][\A g \in Rows : grant[g].revoked => grant'[g] \in {grant[g], Gone}]_vars

\* Why a viewer may be turned away, seen at the moment of the refusal.
Refusable(r) ==
  \/ ~Usable(r)
  \/ Target(r).recipient \notin {Nobody, Viewer(r)}
  \/ Target(r).owner = Viewer(r)
  \/ Viewer(r) \notin album

\* A race is lost to another collector or to a revocation, never to nobody: the
\* second of two requests of one viewer is not turned away by the first.
RefusedForAReason == [][\A r \in Request : Refuse(r) => Refusable(r)]_vars

\* docs/ACCOUNT_LIFECYCLE.md, "No other user is affected", and the comment of
\* deleteOwnAccount, "no other user's rows are touched": an account deletion
\* leaves the grants of other collectors' collections as they are.
OthersUntouched ==
  [][\A c \in Collector, g \in Grant :
       DeleteAccount(c) /\ g \in Rows /\ grant[g].owner # c => grant'[g] = grant[g]]_vars
=============================================================================
