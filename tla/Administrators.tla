--------------------------- MODULE Administrators ---------------------------
(***************************************************************************)
(* The last-active-administrator locking protocol and the requests that    *)
(* run it (src/modules/identity/administrator-lock.ts and its callers), on *)
(* PostgreSQL at READ COMMITTED.  The statement                            *)
(*   SELECT id, status FROM "user" WHERE role = 'admin' FOR UPDATE         *)
(* takes its snapshot first, then locks the rows of that snapshot one at a *)
(* time, in no promised order.  When it gets a row that changed since, it  *)
(* evaluates WHERE again on the row's newest version and drops the row if  *)
(* it no longer matches; a row that began to match after the snapshot is   *)
(* never looked at.  Writes become visible when the transaction commits.   *)
(***************************************************************************)
EXTENDS SerialAdministrators

CONSTANTS
  Request,    \* requests served at a time, each on its own database client
  NoRequest,  \* the holder of a row lock that nobody holds
  NoJob,      \* what an idle request works on
  Operation   \* the operations clients ask for

LockOps   == PanelOps \cup OwnOps
InsertOps == {"createUser", "createAdmin"}
Job == [op : LockOps \cup InsertOps \cup {"signIn"}, actor : User, target : User]

ASSUME ConstantsAssumption ==
  /\ NoRequest \notin Request
  /\ NoJob \notin Job
  /\ Operation \subseteq LockOps \cup InsertOps \cup {"signIn"}

VARIABLES
  pc,       \* where each request is
  job,      \* the operation it executes, for whom and on whom
  pending,  \* the rows of its administrator snapshot not yet locked
  rows,     \* the rows its SELECT ... FOR UPDATE returns
  lock      \* who holds the lock of each "user" row

local == <<pc, job, pending, rows, lock>>
vars  == <<table, local>>

TypeOK ==
  /\ role \in [User -> Roles]
  /\ status \in [User -> Statuses]
  /\ sessions \in SUBSET User
  /\ pc \in [Request -> {"idle", "authorized", "locking", "ready"}]
  /\ job \in [Request -> Job \cup {NoJob}]
  /\ pending \in [Request -> SUBSET User]
  /\ rows \in [Request -> SUBSET User]
  /\ lock \in [User -> Request \cup {NoRequest}]

Init ==
  /\ SerialInit
  /\ pc = [r \in Request |-> "idle"]
  /\ job = [r \in Request |-> NoJob]
  /\ pending = [r \in Request |-> {}]
  /\ rows = [r \in Request |-> {}]
  /\ lock = [u \in User |-> NoRequest]

-----------------------------------------------------------------------------
(* The start of a request: the session resolves to an active account, and  *)
(* the panel wants an administrator.  The principal is a copy from here on.*)

Principal(a) == a \in sessions /\ Exists(a) /\ status[a] = "active"

MayBegin(op, a, t) ==
  \/ op = "signIn" /\ a = t /\ Exists(a) /\ status[a] = "active"
  \/ op \in OwnOps /\ a = t /\ Principal(a)
  \/ /\ op \in PanelOps /\ Principal(a) /\ role[a] = "admin"
     /\ Exists(t)
     /\ op \in RemovingOps => a # t
  \/ op \in InsertOps /\ Principal(a) /\ role[a] = "admin" /\ role[t] = "absent"

Begin(r, op, a, t) ==
  /\ pc[r] = "idle"
  /\ MayBegin(op, a, t)
  /\ pc'  = [pc EXCEPT ![r] = "authorized"]
  /\ job' = [job EXCEPT ![r] = [op |-> op, actor |-> a, target |-> t]]
  /\ UNCHANGED <<table, pending, rows, lock>>

\* A mutant: the client goes back to the pool inside its transaction.
FinishHoldingLocks(r) ==
  /\ pc'      = [pc EXCEPT ![r] = "idle"]
  /\ job'     = [job EXCEPT ![r] = NoJob]
  /\ pending' = [pending EXCEPT ![r] = {}]
  /\ rows'    = [rows EXCEPT ![r] = {}]
  /\ UNCHANGED lock

\* COMMIT or ROLLBACK: the request ends and its row locks are released.
Finish(r) ==
  /\ pc'      = [pc EXCEPT ![r] = "idle"]
  /\ job'     = [job EXCEPT ![r] = NoJob]
  /\ pending' = [pending EXCEPT ![r] = {}]
  /\ rows'    = [rows EXCEPT ![r] = {}]
  /\ lock'    = [u \in User |-> IF lock[u] = r THEN NoRequest ELSE lock[u]]

-----------------------------------------------------------------------------
(* Requests without the administrator lock.                                *)

Register(u) == Enroll(u, "user") /\ UNCHANGED local

\* The panel's INSERT; the principal is not looked at again.
InsertUser(r) ==
  /\ pc[r] = "authorized"
  /\ \/ job[r].op = "createUser" /\ Enroll(job[r].target, "user")
     \/ job[r].op = "createAdmin" /\ Enroll(job[r].target, "admin")
  /\ Finish(r)

\* The session row is inserted after the hook saw an active account.
InsertSession(r) ==
  /\ pc[r] = "authorized"
  /\ job[r].op = "signIn"
  /\ OpenSession(job[r].target)
  /\ Finish(r)

\* The unique email or the session's foreign key refuses the row.
InsertRefused(r) ==
  /\ pc[r] = "authorized"
  /\ \/ job[r].op \in InsertOps /\ role[job[r].target] # "absent"
     \/ job[r].op = "signIn" /\ ~Exists(job[r].target)
  /\ Finish(r)
  /\ UNCHANGED table

-----------------------------------------------------------------------------
(* lockAdministratorsForMutation, then the callers' mutation.              *)

StartScan(r) ==
  /\ pc[r] = "authorized"
  /\ job[r].op \in LockOps
  /\ pc'      = [pc EXCEPT ![r] = "locking"]
  /\ pending' = [pending EXCEPT ![r] = {u \in User : role[u] = "admin"}]
  /\ UNCHANGED <<table, job, rows, lock>>

\* Mutants: a SELECT without FOR UPDATE, and rows returned as the snapshot saw
\* them although they changed while the statement waited.
ReadRow(r, u) ==
  /\ pc[r] = "locking"
  /\ u \in pending[r]
  /\ pending' = [pending EXCEPT ![r] = @ \ {u}]
  /\ rows'    = IF role[u] = "admin" THEN [rows EXCEPT ![r] = @ \cup {u}] ELSE rows
  /\ UNCHANGED <<table, pc, job, lock>>

LockStaleRow(r, u) ==
  /\ pc[r] = "locking"
  /\ u \in pending[r]
  /\ lock[u] = NoRequest
  /\ pending' = [pending EXCEPT ![r] = @ \ {u}]
  /\ lock'    = [lock EXCEPT ![u] = r]
  /\ rows'    = [rows EXCEPT ![r] = @ \cup {u}]
  /\ UNCHANGED <<table, pc, job>>

\* A row that no longer matches stays locked but is not returned.
LockRow(r, u) ==
  /\ pc[r] = "locking"
  /\ u \in pending[r]
  /\ lock[u] = NoRequest
  /\ pending' = [pending EXCEPT ![r] = @ \ {u}]
  /\ lock'    = IF Exists(u) THEN [lock EXCEPT ![u] = r] ELSE lock
  /\ rows'    = IF role[u] = "admin" THEN [rows EXCEPT ![r] = @ \cup {u}] ELSE rows
  /\ UNCHANGED <<table, pc, job>>

\* Mutants: the actor is not revalidated; a suspended fallback counts.
ActorAsAuthorized(r) == TRUE

AnyFallbackHolds(r) ==
  job[r].op \in RemovingOps /\ job[r].target \in rows[r] =>
    rows[r] \ {job[r].target} # {}

ActorHolds(r) ==
  job[r].op \in PanelOps =>
    job[r].actor \in rows[r] /\ status[job[r].actor] = "active"

FallbackHolds(r) ==
  job[r].op \in RemovingOps /\ job[r].target \in rows[r] =>
    \E u \in rows[r] \ {job[r].target} : status[u] = "active"

GuardHolds(r) == ActorHolds(r) /\ FallbackHolds(r)

Reject(r) ==
  /\ pc[r] = "locking" /\ pending[r] = {}
  /\ ~GuardHolds(r)
  /\ Finish(r)
  /\ UNCHANGED table

\* The guard's checks pass, and the UPDATE or DELETE by id waits for the row
\* lock of the target.  What the checks read cannot change while it waits.
LockTarget(r) ==
  /\ pc[r] = "locking" /\ pending[r] = {}
  /\ GuardHolds(r)
  /\ Exists(job[r].target)
  /\ lock[job[r].target] \in {NoRequest, r}
  /\ lock' = [lock EXCEPT ![job[r].target] = r]
  /\ pc'   = [pc EXCEPT ![r] = "ready"]
  /\ UNCHANGED <<table, job, pending, rows>>

\* 404 and a rollback, or an own deactivation that updates no row.
TargetGone(r) ==
  /\ pc[r] = "locking" /\ pending[r] = {}
  /\ GuardHolds(r)
  /\ ~Exists(job[r].target)
  /\ Finish(r)
  /\ UNCHANGED table

Commit(r) ==
  /\ pc[r] = "ready"
  /\ Effect(job[r].op, job[r].target)
  /\ Finish(r)

-----------------------------------------------------------------------------
(* Failures.                                                               *)

\* A wrong confirmation, a database error or a lost connection: ROLLBACK.
Abort(r) ==
  /\ pc[r] # "idle"
  /\ Finish(r)
  /\ UNCHANGED table

Wanted(r) ==
  CASE pc[r] = "locking" /\ pending[r] # {}                 -> pending[r]
    [] pc[r] = "locking" /\ pending[r] = {} /\ GuardHolds(r) -> {job[r].target}
    [] OTHER                                                -> {}

\* Every row r still wants is locked by another request.
Blocked(r) ==
  Wanted(r) # {} /\ \A u \in Wanted(r) : lock[u] \notin {NoRequest, r}

\* PostgreSQL's deadlock detector rolls one of the waiting transactions back.
DeadlockVictim(r) ==
  /\ \E S \in SUBSET Request :
       /\ r \in S
       /\ \A x \in S : Blocked(x) /\ {lock[u] : u \in Wanted(x)} \subseteq S
  /\ Finish(r)
  /\ UNCHANGED table

-----------------------------------------------------------------------------
Proceed(r) ==
  \/ InsertUser(r) \/ InsertSession(r) \/ InsertRefused(r)
  \/ StartScan(r) \/ (\E u \in User : LockRow(r, u))
  \/ Reject(r) \/ LockTarget(r) \/ TargetGone(r) \/ Commit(r)

Next ==
  \/ \E u \in User : Register(u)
  \/ \E r \in Request :
       \/ \E op \in Operation, a, t \in User : Begin(r, op, a, t)
       \/ Proceed(r) \/ Abort(r) \/ DeadlockVictim(r)

Spec == Init /\ [][Next]_vars

\* The server keeps executing a request it has begun, and the database keeps
\* resolving deadlocks.  Nothing forces clients to ask or requests to fail.
FairSpec ==
  Spec /\ \A r \in Request : WF_vars(Proceed(r)) /\ WF_vars(DeadlockVictim(r))

-----------------------------------------------------------------------------
(* Properties.                                                             *)

\* The administrator-lock.ts comment and docs/ACCOUNT_LIFECYCLE.md: whatever
\* runs concurrently, the installation keeps an active administrator.
SomeActiveAdministrator == ActiveAdministrators # {}

\* A self-service removal whose target is an administrator that its own locked
\* administrator rows do not show: promoted after the snapshot was taken.
Phantom(r) ==
  /\ pc[r] = "ready"
  /\ job[r].op \in OwnOps
  /\ role[job[r].target] = "admin"
  /\ job[r].target \notin rows[r]

\* With every operation running, the last active administrator can only be
\* lost by the commit of such a phantom: no other interleaving of the lock,
\* the revalidation of the actor and the fallback check loses it.
OnlyAPhantomLosesTheLast ==
  [][ActiveAdministrators # {} /\ ActiveAdministrators' = {}
       => \E r \in Request : Phantom(r) /\ Commit(r)]_vars

\* An administrator-panel mutation that commits was made by an account that is
\* an active administrator at that moment, however stale the principal is.
PanelActorIsStillAdministrator ==
  [][\A r \in Request :
       Commit(r) /\ job[r].op \in PanelOps => job[r].actor \in ActiveAdministrators]_vars

\* Concurrent lifecycle mutations of rows nobody promotes have the effect of
\* some serial order: every step is one of the serial specification's.
Serialized == SerialSpec

\* The requests never wait on each other for ever: the arbitrary order in which
\* administrator rows are locked is survived by the deadlock detector.
SomeRequestFinishes == []<>(\E r \in Request : pc[r] = "idle")
=============================================================================
