------------------------ MODULE AdministratorsProofs ------------------------
(***************************************************************************)
(* What Administrators.tla guarantees for any number of users, requests    *)
(* and operations.  The argument rests on the row locks: LockInv says that *)
(* the rows a request has been given are locked by it and still belong to  *)
(* administrators, so the checks it made on them (ReadyInv) stay true until*)
(* it commits.                                                             *)
(***************************************************************************)
EXTENDS Administrators, Integers, FiniteSetTheorems, TLAPS

LockInv ==
  \A r \in Request :
    /\ \A u \in rows[r] : lock[u] = r /\ role[u] = "admin"
    /\ pc[r] \in {"idle", "authorized"} => pending[r] = {} /\ \A u \in User : lock[u] # r

JobInv ==
  \A r \in Request :
    /\ pc[r] # "idle" => job[r] \in Job
    /\ pc[r] \in {"locking", "ready"} => job[r].op \in LockOps
    /\ pc[r] # "idle" /\ job[r].op \in LockOps => role[job[r].target] # "absent"
    /\ pc[r] # "idle" /\ job[r].op \in OwnOps => job[r].actor = job[r].target
    /\ pc[r] # "idle" /\ job[r].op \in PanelOps \cap RemovingOps =>
         job[r].actor # job[r].target

ReadyToCommit(r) ==
  /\ pending[r] = {}
  /\ GuardHolds(r)
  /\ lock[job[r].target] = r
  /\ Exists(job[r].target)

ReadyInv == \A r \in Request : pc[r] = "ready" => ReadyToCommit(r)

IInv == TypeOK /\ LockInv /\ JobInv /\ ReadyInv

\* The promotions that the locking protocol does not see.
NoPromotions == "promote" \notin Operation

\* Where nobody is promoted: an administrator who removes the own account is in
\* the snapshot of the removing request.
PhantomFree ==
  \A r \in Request :
    /\ pc[r] # "idle" => job[r].op \in Operation
    /\ /\ pc[r] \in {"locking", "ready"}
       /\ job[r].op \in OwnOps
       /\ role[job[r].target] = "admin"
       => job[r].target \in pending[r] \cup rows[r]

-----------------------------------------------------------------------------
LEMMA NoRequestIsNoRequest == NoRequest \notin Request
  BY ConstantsAssumption

LEMMA InitIInv == Init => IInv
  <1> SUFFICES ASSUME Init PROVE IInv
    OBVIOUS
  <1> USE NoRequestIsNoRequest DEF Init, SerialInit
  <1>1. TypeOK
    BY DEF TypeOK, Roles, Statuses
  <1>2. LockInv /\ JobInv /\ ReadyInv
    BY DEF LockInv, JobInv, ReadyInv
  <1> QED
    BY <1>1, <1>2 DEF IInv

\* Ending a request keeps the invariant whatever else stays the same.
LEMMA FinishIInv ==
  ASSUME IInv, NEW r \in Request, Finish(r), UNCHANGED table
  PROVE  IInv'
  <1> USE NoRequestIsNoRequest DEF Finish, table
  <1>1. TypeOK'
    BY DEF IInv, TypeOK
  <1>2. LockInv'
    BY DEF IInv, TypeOK, LockInv
  <1>3. JobInv'
    BY DEF IInv, TypeOK, JobInv
  <1>4. ReadyInv'
    BY DEF IInv, TypeOK, LockInv, JobInv, ReadyInv, ReadyToCommit, GuardHolds, ActorHolds,
           FallbackHolds, Exists, Job
  <1> QED
    BY <1>1, <1>2, <1>3, <1>4 DEF IInv

\* Of the steps that write the table, a commit touches a row its request has
\* locked, and an insertion one that nobody can have locked.
LEMMA CommitIInv ==
  ASSUME IInv, NEW r \in Request, Commit(r)
  PROVE  IInv'
  <1> DEFINE t == job[r].target
  <1> USE NoRequestIsNoRequest DEF Commit, Finish
  <1>1. /\ job[r] \in Job /\ job[r].op \in LockOps /\ t \in User
        /\ lock[t] = r /\ Exists(t)
    BY DEF IInv, JobInv, ReadyInv, ReadyToCommit, Job
  <1>2. /\ \A u \in User \ {t} : role'[u] = role[u] /\ status'[u] = status[u]
        /\ role' \in [User -> Roles] /\ status' \in [User -> Statuses]
        /\ sessions' \in SUBSET User
        /\ role'[t] # "absent"
    BY <1>1 DEF IInv, TypeOK, Effect, SetStatus, SetRole, Delete, Exists, Roles, Statuses
  <1>3. TypeOK'
    BY <1>2 DEF IInv, TypeOK
  <1>4. LockInv'
    BY <1>1, <1>2 DEF IInv, TypeOK, LockInv
  <1>5. JobInv'
    BY <1>1, <1>2 DEF IInv, TypeOK, JobInv, Job
  <1>6. ReadyInv'
    <2> SUFFICES ASSUME NEW s \in Request, pc'[s] = "ready"
                 PROVE  ReadyToCommit(s)'
      BY DEF ReadyInv
    <2>1. s # r /\ pc[s] = "ready" /\ job'[s] = job[s] /\ rows'[s] = rows[s]
      BY DEF IInv, TypeOK
    <2>2. /\ pending[s] = {} /\ GuardHolds(s) /\ lock[job[s].target] = s
          /\ Exists(job[s].target) /\ job[s] \in Job
      BY <2>1 DEF IInv, ReadyInv, ReadyToCommit, JobInv
    <2>3. \A u \in rows[s] : u \in User \ {t}
      BY <1>1, <2>1 DEF IInv, TypeOK, LockInv
    <2>4. GuardHolds(s)'
      BY <1>2, <2>1, <2>2, <2>3 DEF GuardHolds, ActorHolds, FallbackHolds
    <2>5. job[s].target \in User \ {t}
      BY <1>1, <2>1, <2>2 DEF Job
    <2> QED
      BY <1>2, <2>1, <2>2, <2>4, <2>5 DEF IInv, TypeOK, ReadyToCommit, Exists
  <1> QED
    BY <1>3, <1>4, <1>5, <1>6 DEF IInv

\* An insertion, with or without a request that ends with it.
LEMMA EnrollIInv ==
  ASSUME IInv, NEW u \in User, NEW x \in {"user", "admin"}, Enroll(u, x),
         \/ UNCHANGED local
         \/ \E r \in Request : Finish(r)
  PROVE  IInv'
  <1> USE NoRequestIsNoRequest DEF Enroll
  <1>1. /\ role[u] = "absent" /\ role'[u] # "absent"
        /\ \A v \in User \ {u} : role'[v] = role[v] /\ status'[v] = status[v]
        /\ role' \in [User -> Roles] /\ status' \in [User -> Statuses]
    BY DEF IInv, TypeOK, Roles, Statuses
  <1>2. \A s \in Request :
          /\ pc'[s] # "idle" => pc'[s] = pc[s] /\ job'[s] = job[s]
                               /\ rows'[s] = rows[s] /\ pending'[s] = pending[s]
                               /\ \A v \in User : lock'[v] = s <=> lock[v] = s
          /\ pc'[s] = "idle" => rows'[s] = {} /\ pending'[s] = {}
                               /\ \A v \in User : lock'[v] # s
    <2>1. CASE UNCHANGED local
      BY <2>1 DEF IInv, TypeOK, LockInv, local
    <2>2. CASE \E r \in Request : Finish(r)
      BY <2>2 DEF IInv, TypeOK, LockInv, Finish
    <2> QED
      BY <2>1, <2>2
  <1>3. TypeOK'
    BY <1>1 DEF IInv, TypeOK, local, Finish
  <1>4. LockInv'
    BY <1>1, <1>2 DEF IInv, TypeOK, LockInv
  <1>5. JobInv'
    BY <1>1, <1>2, <1>3 DEF IInv, TypeOK, JobInv, Job
  <1>6. ReadyInv'
    <2> SUFFICES ASSUME NEW s \in Request, pc'[s] = "ready"
                 PROVE  ReadyToCommit(s)'
      BY DEF ReadyInv
    <2>1. pc[s] = "ready" /\ job'[s] = job[s] /\ rows'[s] = rows[s] /\ pending'[s] = pending[s]
      BY <1>2
    <2>2. /\ pending[s] = {} /\ GuardHolds(s) /\ lock[job[s].target] = s
          /\ Exists(job[s].target) /\ job[s] \in Job
      BY <2>1 DEF IInv, ReadyInv, ReadyToCommit, JobInv
    <2>3. \A v \in rows[s] : v \in User \ {u}
      BY <1>1 DEF IInv, TypeOK, LockInv
    <2>4. GuardHolds(s)'
      BY <1>1, <2>1, <2>2, <2>3 DEF GuardHolds, ActorHolds, FallbackHolds
    <2>5. job[s].target \in User \ {u}
      BY <1>1, <2>2 DEF Job, Exists
    <2> QED
      BY <1>1, <1>2, <2>1, <2>2, <2>4, <2>5 DEF IInv, TypeOK, ReadyToCommit, Exists
  <1> QED
    BY <1>3, <1>4, <1>5, <1>6 DEF IInv

LEMMA BeginIInv ==
  ASSUME IInv, NEW r \in Request, NEW op \in Operation, NEW a \in User, NEW t \in User,
         Begin(r, op, a, t)
  PROVE  IInv'
  <1> USE NoRequestIsNoRequest DEF Begin, table
  <1>1. [op |-> op, actor |-> a, target |-> t] \in Job
    BY ConstantsAssumption DEF Job
  <1>2. TypeOK'
    BY <1>1 DEF IInv, TypeOK
  <1>3. LockInv'
    BY DEF IInv, TypeOK, LockInv
  <1>4. JobInv'
    BY <1>1 DEF IInv, TypeOK, JobInv, MayBegin, Principal, Exists, LockOps, OwnOps,
                PanelOps, InsertOps, RemovingOps
  <1>5. ReadyInv'
    BY DEF IInv, TypeOK, ReadyInv, ReadyToCommit, GuardHolds, ActorHolds, FallbackHolds, Exists
  <1> QED
    BY <1>2, <1>3, <1>4, <1>5 DEF IInv

LEMMA StartScanIInv ==
  ASSUME IInv, NEW r \in Request, StartScan(r)
  PROVE  IInv'
  <1> USE NoRequestIsNoRequest DEF StartScan, table
  <1>1. TypeOK' /\ LockInv' /\ JobInv'
    BY DEF IInv, TypeOK, LockInv, JobInv
  <1>2. ReadyInv'
    BY DEF IInv, TypeOK, ReadyInv, ReadyToCommit, GuardHolds, ActorHolds, FallbackHolds, Exists
  <1> QED
    BY <1>1, <1>2 DEF IInv

LEMMA LockRowIInv ==
  ASSUME IInv, NEW r \in Request, NEW u \in User, LockRow(r, u)
  PROVE  IInv'
  <1> USE NoRequestIsNoRequest DEF LockRow, table
  <1>1. TypeOK'
    BY DEF IInv, TypeOK
  <1>2. LockInv'
    BY DEF IInv, TypeOK, LockInv, Exists
  <1>3. JobInv'
    BY DEF IInv, TypeOK, JobInv
  <1>4. ReadyInv'
    BY DEF IInv, TypeOK, LockInv, JobInv, Job, ReadyInv, ReadyToCommit, GuardHolds, ActorHolds, FallbackHolds, Exists
  <1> QED
    BY <1>1, <1>2, <1>3, <1>4 DEF IInv

LEMMA LockTargetIInv ==
  ASSUME IInv, NEW r \in Request, LockTarget(r)
  PROVE  IInv'
  <1> USE NoRequestIsNoRequest DEF LockTarget, table
  <1>1. job[r] \in Job
    BY DEF IInv, JobInv
  <1>2. TypeOK'
    BY <1>1 DEF IInv, TypeOK
  <1>3. LockInv'
    BY <1>1 DEF IInv, TypeOK, LockInv, Job
  <1>4. JobInv'
    BY DEF IInv, TypeOK, JobInv
  <1>5. ReadyInv'
    BY <1>1 DEF IInv, TypeOK, LockInv, JobInv, Job, ReadyInv, ReadyToCommit, GuardHolds, ActorHolds, FallbackHolds, Exists
  <1> QED
    BY <1>2, <1>3, <1>4, <1>5 DEF IInv

-----------------------------------------------------------------------------
\* Every step is an insertion, a commit, or one of the steps that leave the
\* table alone.
LEMMA NextIInv == IInv /\ [Next]_vars => IInv'
  <1> SUFFICES ASSUME IInv, [Next]_vars PROVE IInv'
    OBVIOUS
  <1>1. ASSUME NEW u \in User, Register(u) PROVE IInv'
    BY <1>1, EnrollIInv DEF Register
  <1>2. ASSUME NEW r \in Request, NEW op \in Operation, NEW a \in User, NEW t \in User,
               Begin(r, op, a, t)
        PROVE  IInv'
    BY <1>2, BeginIInv
  <1>3. ASSUME NEW r \in Request, InsertUser(r) PROVE IInv'
    <2>1. job[r] \in Job
      BY <1>3 DEF InsertUser, IInv, JobInv
    <2>2. job[r].target \in User
      BY <2>1 DEF Job
    <2> QED
      BY <1>3, <2>2, EnrollIInv DEF InsertUser
  <1>4. ASSUME NEW r \in Request, InsertSession(r) PROVE IInv'
    <2> USE NoRequestIsNoRequest, <1>4 DEF InsertSession, OpenSession, Finish
    <2>1. job[r] \in Job /\ job[r].target \in User
      BY DEF IInv, JobInv, Job
    <2>2. TypeOK' /\ LockInv' /\ JobInv'
      BY <2>1 DEF IInv, TypeOK, LockInv, JobInv
    <2>3. ReadyInv'
      BY DEF IInv, TypeOK, LockInv, JobInv, Job, ReadyInv, ReadyToCommit, GuardHolds,
             ActorHolds, FallbackHolds, Exists
    <2> QED
      BY <2>2, <2>3 DEF IInv
  <1>5. ASSUME NEW r \in Request,
               InsertRefused(r) \/ Reject(r) \/ TargetGone(r) \/ Abort(r) \/ DeadlockVictim(r)
        PROVE  IInv'
    BY <1>5, FinishIInv DEF InsertRefused, Reject, TargetGone, Abort, DeadlockVictim
  <1>6. ASSUME NEW r \in Request, StartScan(r) PROVE IInv'
    BY <1>6, StartScanIInv
  <1>7. ASSUME NEW r \in Request, NEW u \in User, LockRow(r, u) PROVE IInv'
    BY <1>7, LockRowIInv
  <1>8. ASSUME NEW r \in Request, LockTarget(r) PROVE IInv'
    BY <1>8, LockTargetIInv
  <1>9. ASSUME NEW r \in Request, Commit(r) PROVE IInv'
    BY <1>9, CommitIInv
  <1>10. CASE UNCHANGED vars
    BY <1>10 DEF vars, table, local, IInv, TypeOK, LockInv, JobInv, ReadyInv, ReadyToCommit,
                 GuardHolds, ActorHolds, FallbackHolds, Exists
  <1> QED
    BY <1>1, <1>2, <1>3, <1>4, <1>5, <1>6, <1>7, <1>8, <1>9, <1>10 DEF Next, Proceed

THEOREM Invariance == Spec => []IInv
  <1> QED
    BY InitIInv, NextIInv, PTL DEF Spec

\* Every variable keeps its type, whatever requests run together.
THEOREM TypeCorrect == Spec => []TypeOK
  <1>1. IInv => TypeOK
    BY DEF IInv
  <1> QED
    BY <1>1, Invariance, PTL

-----------------------------------------------------------------------------
LEMMA CommittingActor ==
  ASSUME IInv, NEW r \in Request, Commit(r), job[r].op \in PanelOps
  PROVE  job[r].actor \in ActiveAdministrators
  BY DEF IInv, TypeOK, LockInv, JobInv, Job, ReadyInv, ReadyToCommit, GuardHolds, ActorHolds,
         ActiveAdministrators, Commit

\* The serial specification's precondition for a removal, from the rows the
\* request has locked.
LEMMA CommittingFallback ==
  ASSUME IInv, NEW r \in Request, Commit(r), ~Phantom(r),
         job[r].op \in RemovingOps, role[job[r].target] = "admin"
  PROVE  ActiveAdministrators \ {job[r].target} # {}
  <1> USE DEF IInv, Commit
  <1>1. job[r] \in Job /\ ReadyToCommit(r) /\ rows[r] \subseteq User
    BY DEF JobInv, ReadyInv, TypeOK
  <1>2. CASE job[r].op \in PanelOps
    BY <1>1, <1>2, CommittingActor DEF JobInv, Job
  <1>3. CASE job[r].op \in OwnOps
    <2>1. job[r].target \in rows[r]
      BY <1>3 DEF Phantom
    <2>2. PICK u \in rows[r] \ {job[r].target} : status[u] = "active"
      BY <1>1, <2>1 DEF ReadyToCommit, GuardHolds, FallbackHolds
    <2> QED
      BY <1>1, <2>2 DEF LockInv, ActiveAdministrators
  <1> QED
    BY <1>2, <1>3 DEF RemovingOps, PanelOps, OwnOps

\* The tables other than the target's row, and the target's row if it gains.
LEMMA EffectOnAdministrators ==
  ASSUME TypeOK, NEW op, NEW t \in User, Effect(op, t)
  PROVE  /\ ActiveAdministrators \ {t} \subseteq ActiveAdministrators'
         /\ op \notin RemovingOps => ActiveAdministrators \subseteq ActiveAdministrators'
  BY DEF TypeOK, Effect, SetStatus, SetRole, Delete, ActiveAdministrators, RemovingOps, OwnOps

LEMMA CommitKeepsAdministrators ==
  ASSUME IInv, NEW r \in Request, Commit(r), ~Phantom(r), ActiveAdministrators # {}
  PROVE  ActiveAdministrators' # {}
  <1>1. job[r] \in Job /\ job[r].target \in User /\ TypeOK /\ Effect(job[r].op, job[r].target)
    BY DEF IInv, JobInv, Job, Commit
  <1>2. CASE job[r].op \notin RemovingOps
    BY <1>1, <1>2, EffectOnAdministrators
  <1>3. CASE job[r].op \in RemovingOps /\ role[job[r].target] = "admin"
    BY <1>1, <1>3, EffectOnAdministrators, CommittingFallback
  <1>4. CASE role[job[r].target] # "admin"
    <2>1. job[r].target \notin ActiveAdministrators
      BY <1>4 DEF ActiveAdministrators
    <2> QED
      BY <1>1, <2>1, EffectOnAdministrators
  <1> QED
    BY <1>2, <1>3, <1>4

\* Steps other than commits never shrink the set.
LEMMA OthersKeepAdministrators ==
  ASSUME IInv, [Next]_vars, \A r \in Request : ~Commit(r)
  PROVE  ActiveAdministrators \subseteq ActiveAdministrators'
  <1>1. CASE UNCHANGED table
    BY <1>1 DEF table, ActiveAdministrators
  <1>2. ASSUME NEW u \in User, NEW x \in {"user", "admin"}, Enroll(u, x)
        PROVE  ActiveAdministrators \subseteq ActiveAdministrators'
    BY <1>2 DEF Enroll, ActiveAdministrators, IInv, TypeOK
  <1>3. ASSUME NEW u, OpenSession(u)
        PROVE  ActiveAdministrators \subseteq ActiveAdministrators'
    BY <1>3 DEF OpenSession, ActiveAdministrators
  <1>4. ASSUME NEW r \in Request, InsertUser(r)
        PROVE  ActiveAdministrators \subseteq ActiveAdministrators'
    <2>1. job[r].target \in User
      BY <1>4 DEF InsertUser, IInv, JobInv, Job
    <2> QED
      BY <1>2, <1>4, <2>1 DEF InsertUser
  <1> QED
    BY <1>1, <1>2, <1>3, <1>4 DEF Next, Proceed, Register, Begin, InsertSession, InsertRefused,
       StartScan, LockRow, Reject, LockTarget, TargetGone, Abort, DeadlockVictim, vars

-----------------------------------------------------------------------------
\* A panel mutation commits only for an account that is an active administrator
\* at that moment: the revalidated actor's row is locked until the commit.
THEOREM ActorRevalidated == Spec => PanelActorIsStillAdministrator
  <1>1. IInv /\ [Next]_vars =>
          [\A r \in Request :
             Commit(r) /\ job[r].op \in PanelOps => job[r].actor \in ActiveAdministrators]_vars
    BY CommittingActor
  <1> QED
    BY <1>1, Invariance, PTL DEF Spec, PanelActorIsStillAdministrator

\* Whatever interleaves, only the commit of an own removal whose target was
\* promoted behind its snapshot can lose the last active administrator.
THEOREM LastAdministratorSafety == Spec => OnlyAPhantomLosesTheLast
  <1>1. IInv /\ [Next]_vars =>
          [ActiveAdministrators # {} /\ ActiveAdministrators' = {}
             => \E r \in Request : Phantom(r) /\ Commit(r)]_vars
    <2> SUFFICES ASSUME IInv, [Next]_vars, ActiveAdministrators # {}, ActiveAdministrators' = {}
                 PROVE  \E r \in Request : Phantom(r) /\ Commit(r)
      OBVIOUS
    <2>1. PICK r \in Request : Commit(r)
      BY OthersKeepAdministrators
    <2> QED
      BY <2>1, CommitKeepsAdministrators
  <1> QED
    BY <1>1, Invariance, PTL DEF Spec, OnlyAPhantomLosesTheLast

-----------------------------------------------------------------------------
(* Where no existing account is promoted there are no phantoms, and the    *)
(* code's comments and docs/ACCOUNT_LIFECYCLE.md hold as they are written. *)

LEMMA InitPhantomFree == Init => PhantomFree
  BY DEF Init, PhantomFree

LEMMA NextPhantomFree ==
  ASSUME NoPromotions
  PROVE  IInv /\ PhantomFree /\ [Next]_vars => PhantomFree'
  <1> SUFFICES ASSUME IInv, PhantomFree, [Next]_vars PROVE PhantomFree'
    OBVIOUS
  <1> USE NoRequestIsNoRequest
  <1>1. ASSUME NEW r \in Request, Finish(r),
               \A u \in User : role'[u] = "admin" => role[u] \in {"admin", "absent"}
        PROVE  PhantomFree'
    BY <1>1 DEF PhantomFree, Finish, IInv, TypeOK, JobInv, Job, LockOps
  <1>2. ASSUME NEW r \in Request, NEW op \in Operation, NEW a \in User, NEW t \in User,
               Begin(r, op, a, t)
        PROVE  PhantomFree'
    BY <1>2 DEF Begin, table, PhantomFree, IInv, TypeOK
  <1>3. ASSUME NEW u \in User, Register(u) PROVE PhantomFree'
    BY <1>3 DEF Register, Enroll, local, PhantomFree, IInv, TypeOK
  <1>4. ASSUME NEW r \in Request, StartScan(r) PROVE PhantomFree'
    BY <1>4 DEF StartScan, table, PhantomFree, IInv, TypeOK, JobInv, Job
  <1>5. ASSUME NEW r \in Request, NEW u \in User, LockRow(r, u) PROVE PhantomFree'
    BY <1>5 DEF LockRow, table, PhantomFree, IInv, TypeOK
  <1>6. ASSUME NEW r \in Request, LockTarget(r) PROVE PhantomFree'
    BY <1>6 DEF LockTarget, table, PhantomFree, IInv, TypeOK
  <1>7. ASSUME NEW r \in Request, Commit(r) PROVE PhantomFree'
    <2>1. job[r].op # "promote" /\ job[r].target \in User
      BY <1>7 DEF PhantomFree, NoPromotions, Commit, IInv, JobInv, Job
    <2>2. \A u \in User : role'[u] = "admin" => role[u] = "admin"
      BY <1>7, <2>1 DEF Commit, Effect, SetStatus, SetRole, Delete, IInv, TypeOK
    <2> QED
      BY <1>1, <1>7, <2>2 DEF Commit
  <1>8. ASSUME NEW r \in Request, InsertUser(r) PROVE PhantomFree'
    BY <1>1, <1>8 DEF InsertUser, Enroll, IInv, TypeOK
  <1>9. ASSUME NEW r \in Request,
               \/ InsertSession(r) \/ InsertRefused(r) \/ Reject(r) \/ TargetGone(r)
               \/ Abort(r) \/ DeadlockVictim(r)
        PROVE  PhantomFree'
    BY <1>1, <1>9 DEF InsertSession, OpenSession, InsertRefused, Reject, TargetGone, Abort,
                      DeadlockVictim, table
  <1>10. CASE UNCHANGED vars
    BY <1>10 DEF vars, table, local, PhantomFree
  <1> QED
    BY <1>2, <1>3, <1>4, <1>5, <1>6, <1>7, <1>8, <1>9, <1>10 DEF Next, Proceed

LEMMA NoPhantom ==
  ASSUME IInv, PhantomFree, NEW r \in Request
  PROVE  ~Phantom(r)
  BY DEF PhantomFree, Phantom, IInv, ReadyInv, ReadyToCommit

\* The installation always keeps an active administrator.
THEOREM KeepsAnAdministrator ==
  ASSUME NoPromotions
  PROVE  Spec => []SomeActiveAdministrator
  <1>1. Init => SomeActiveAdministrator
    BY DEF Init, SerialInit, SomeActiveAdministrator, ActiveAdministrators
  <1>2. IInv /\ PhantomFree /\ SomeActiveAdministrator /\ [Next]_vars
          => SomeActiveAdministrator'
    BY NoPhantom, CommitKeepsAdministrators, OthersKeepAdministrators
       DEF SomeActiveAdministrator
  <1>3. IInv /\ PhantomFree /\ [Next]_vars => PhantomFree'
    BY NextPhantomFree
  <1> QED
    BY <1>1, <1>2, <1>3, InitPhantomFree, Invariance, PTL DEF Spec

\* The concurrent protocol implements the serial specification: each commit is
\* one whole administration step, and every other lock step is invisible.
THEOREM Serializes ==
  ASSUME NoPromotions
  PROVE  Spec => Serialized
  <1>1. Init => SerialInit
    BY DEF Init
  <1>2. ASSUME NEW r \in Request, IInv, PhantomFree, Commit(r) PROVE SerialNext
    <2>1. /\ job[r] \in Job /\ job[r].op \in PanelOps \cup OwnOps
          /\ job[r].actor \in User /\ job[r].target \in User
      BY <1>2 DEF IInv, JobInv, Job, LockOps, Commit
    <2>2. Administer(job[r].op, job[r].actor, job[r].target)
      <3>1. Exists(job[r].target) /\ Effect(job[r].op, job[r].target)
        BY <1>2 DEF IInv, ReadyInv, ReadyToCommit, Commit
      <3>2. job[r].op \in PanelOps => job[r].actor \in ActiveAdministrators
        BY <1>2, CommittingActor
      <3>3. job[r].op \in OwnOps => job[r].actor = job[r].target
        BY <1>2 DEF IInv, JobInv, Commit
      <3>4. job[r].op \in RemovingOps /\ role[job[r].target] = "admin"
              => ActiveAdministrators \ {job[r].target} # {}
        BY <1>2, NoPhantom, CommittingFallback
      <3> QED
        BY <3>1, <3>2, <3>3, <3>4 DEF Administer
    <2> QED
      BY <2>1, <2>2 DEF SerialNext
  <1>3. IInv /\ PhantomFree /\ [Next]_vars => [SerialNext]_table
    <2> SUFFICES ASSUME IInv, PhantomFree, [Next]_vars PROVE SerialNext \/ UNCHANGED table
      OBVIOUS
    <2>1. ASSUME NEW r \in Request, InsertUser(r) \/ InsertSession(r) PROVE SerialNext
      <3>1. job[r].target \in User
        BY <2>1 DEF InsertUser, InsertSession, IInv, JobInv, Job
      <3> QED
        BY <2>1, <3>1 DEF InsertUser, InsertSession, SerialNext
    <2>2. ASSUME NEW u \in User, Register(u) PROVE SerialNext
      BY <2>2 DEF Register, SerialNext
    <2> QED
      BY <1>2, <2>1, <2>2 DEF Next, Proceed, Begin, InsertRefused, StartScan, LockRow, Reject,
         LockTarget, TargetGone, Abort, DeadlockVictim, vars
  <1>4. IInv /\ PhantomFree /\ [Next]_vars => PhantomFree'
    BY NextPhantomFree
  <1> QED
    BY <1>1, <1>3, <1>4, InitPhantomFree, Invariance, PTL DEF Spec, Serialized, SerialSpec
-----------------------------------------------------------------------------
(* Why requests keep finishing.                                            *)

\* The rows a request still wants are none it has.
PendingInv == \A r \in Request : \A u \in pending[r] : lock[u] # r

\* A scan begins without locks, and takes each row off its list as it locks it.
LEMMA NextPendingInv == IInv /\ PendingInv /\ [Next]_vars => PendingInv'
  <1> SUFFICES ASSUME IInv, PendingInv, [Next]_vars PROVE PendingInv'
    OBVIOUS
  <1> USE NoRequestIsNoRequest
  <1>1. ASSUME NEW r \in Request, Finish(r) PROVE PendingInv'
    BY <1>1 DEF IInv, TypeOK, Finish, PendingInv
  <1>2. ASSUME NEW r \in Request, StartScan(r) PROVE PendingInv'
    BY <1>2 DEF IInv, TypeOK, LockInv, StartScan, PendingInv
  <1>3. ASSUME NEW r \in Request, NEW u \in User, LockRow(r, u) PROVE PendingInv'
    BY <1>3 DEF IInv, TypeOK, LockRow, PendingInv
  <1>4. ASSUME NEW r \in Request, LockTarget(r) PROVE PendingInv'
    BY <1>4 DEF IInv, TypeOK, LockTarget, PendingInv
  <1>5. ASSUME UNCHANGED <<pending, lock>> PROVE PendingInv'
    BY <1>5 DEF PendingInv
  <1> QED
    BY <1>1, <1>2, <1>3, <1>4, <1>5
    DEF Next, Proceed, Register, Begin, InsertUser, InsertSession, InsertRefused, Reject, TargetGone,
        Commit, Abort, DeadlockVictim, vars, local

\* The guards of the steps with which a request goes on.
CanGoOn(r) ==
  LET t == job[r].target
  IN  \/ pc[r] = "authorized" /\ job[r] \in Job                                   \* a scan or an insertion
      \/ pc[r] = "locking" /\ \E u \in pending[r] : lock[u] = NoRequest           \* LockRow
      \/ pc[r] = "locking" /\ pending[r] = {} /\ ~(GuardHolds(r) /\ Exists(t))    \* Reject, TargetGone
      \/ pc[r] = "locking" /\ pending[r] = {} /\ lock[t] \in {NoRequest, r}       \* LockTarget
      \/ pc[r] = "ready"                                                          \* Commit
Busy == {r \in Request : pc[r] # "idle"}

\* The requests of S wait for one another, which the deadlock detector sees.
Deadlocked(S) == \A x \in S : Blocked(x) /\ {lock[u] : u \in Wanted(x)} \subseteq S

SomebodyGoesOn == (\E r \in Busy : CanGoOn(r)) \/ Deadlocked(Busy)

\* While requests are under way, one of them can go on, or all wait in a way
\* that the deadlock detector resolves: nobody waits for a row that a finished
\* request has kept, or that the request has itself, and each step but a wait
\* is possible (src/modules/identity/administrator-lock.ts:71 locks the
\* administrators in no order).
THEOREM NobodyHangs == Spec => []SomebodyGoesOn
  <1>1. Init => PendingInv
    BY DEF Init, PendingInv
  <1>2. IInv /\ PendingInv => SomebodyGoesOn
    <2> SUFFICES ASSUME IInv, PendingInv, NEW r \in Busy, ~CanGoOn(r)
                 PROVE  Blocked(r) /\ {lock[u] : u \in Wanted(r)} \subseteq Busy
      BY DEF SomebodyGoesOn, Deadlocked
    <2> USE NoRequestIsNoRequest
    <2>1. pc[r] = "locking" /\ job[r] \in Job
      BY DEF CanGoOn, Busy, IInv, TypeOK, JobInv
    <2>2. \A u \in User : lock[u] \in Request => lock[u] \in Busy
      BY DEF Busy, IInv, TypeOK, LockInv
    <2>3. Wanted(r) # {} /\ Wanted(r) \subseteq User /\ \A u \in Wanted(r) : lock[u] \notin {NoRequest, r}
      <3>1. CASE pending[r] # {}
        <4>1. Wanted(r) = pending[r] /\ pending[r] \in SUBSET User
          BY <2>1, <3>1 DEF Wanted, IInv, TypeOK, Busy
        <4>2. \A u \in pending[r] : lock[u] # NoRequest /\ lock[u] # r
          BY <2>1 DEF CanGoOn, PendingInv, Busy
        <4> QED
          BY <3>1, <4>1, <4>2
      <3>2. CASE pending[r] = {}
        <4>1. GuardHolds(r) /\ lock[job[r].target] \notin {NoRequest, r}
          BY <2>1, <3>2 DEF CanGoOn
        <4>2. Wanted(r) = {job[r].target}
          BY <2>1, <3>2, <4>1 DEF Wanted
        <4> QED
          BY <2>1, <4>1, <4>2 DEF Job
      <3> QED
        BY <3>1, <3>2
    <2>4. \A u \in Wanted(r) : lock[u] \in Request
      BY <2>3 DEF IInv, TypeOK
    <2> QED
      BY <2>2, <2>3, <2>4 DEF Blocked
  <1> QED
    BY <1>1, <1>2, NextPendingInv, Invariance, PTL DEF Spec

\* The steps a request has before it: a lock for each row of its snapshot, the
\* end of the scan, the target's lock, the commit.
StepsOf(r) ==
  CASE pc[r] = "authorized" -> Cardinality(User) + 3
    [] pc[r] = "locking"    -> Cardinality(pending[r]) + 2
    [] pc[r] = "ready"      -> 1
    [] OTHER                -> 0

\* A request that goes on has fewer steps before it, and nobody but the client,
\* who begins another, gives one more.
RequestsAdvance ==
  [][\A r \in Request :
       /\ Proceed(r) => StepsOf(r) \in Nat /\ StepsOf(r)' \in Nat /\ StepsOf(r)' < StepsOf(r)
       /\ pc[r] # "idle" => StepsOf(r)' <= StepsOf(r)]_vars

\* Its own step shortens a request ...
LEMMA ProceedShortens ==
  ASSUME IsFiniteSet(User), IInv, IInv', NEW r \in Request, Proceed(r)
  PROVE  StepsOf(r) \in Nat /\ StepsOf(r)' \in Nat /\ StepsOf(r)' < StepsOf(r)
  <1>1. /\ Cardinality(User) \in Nat
        /\ \A S \in SUBSET User : IsFiniteSet(S) /\ Cardinality(S) \in Nat /\ Cardinality(S) <= Cardinality(User)
    BY FS_Subset, FS_CardinalityType
  <1>2. pending[r] \in SUBSET User /\ pending'[r] \in SUBSET User /\ pc[r] \in {"idle", "authorized", "locking", "ready"}
    BY DEF IInv, TypeOK
  <1>3. Cardinality(pending[r]) \in Nat /\ Cardinality(pending'[r]) \in Nat
    BY <1>1, <1>2
  <1>4. CASE Finish(r)
    <2>1. pc'[r] = "idle" /\ pc[r] # "idle"
      BY <1>4 DEF IInv, TypeOK, Finish, Proceed, InsertUser, InsertSession, InsertRefused, StartScan,
                  LockRow, Reject, LockTarget, TargetGone, Commit
    <2> QED
      BY <1>1, <1>2, <1>3, <2>1 DEF StepsOf
  <1>5. CASE StartScan(r)
    <2>1. pc[r] = "authorized" /\ pc'[r] = "locking"
      BY <1>5 DEF IInv, TypeOK, StartScan
    <2>2. Cardinality(pending'[r]) <= Cardinality(User)
      BY <1>1, <1>2
    <2> QED
      BY <1>1, <1>3, <2>1, <2>2 DEF StepsOf
  <1>6. ASSUME NEW u \in User, LockRow(r, u)
        PROVE  StepsOf(r) \in Nat /\ StepsOf(r)' \in Nat /\ StepsOf(r)' < StepsOf(r)
    <2>1. pc[r] = "locking" /\ pc'[r] = "locking" /\ u \in pending[r] /\ pending'[r] = pending[r] \ {u}
      BY <1>6 DEF IInv, TypeOK, LockRow
    <2>2. IsFiniteSet(pending[r])
      BY <1>1, <1>2
    <2>3. Cardinality(pending'[r]) = Cardinality(pending[r]) - 1
      BY <2>1, <2>2, FS_RemoveElement
    <2> QED
      BY <1>3, <2>1, <2>3 DEF StepsOf
  <1>7. CASE LockTarget(r)
    <2>1. pc[r] = "locking" /\ pc'[r] = "ready"
      BY <1>7 DEF IInv, TypeOK, LockTarget
    <2> QED
      BY <1>3, <2>1 DEF StepsOf
  <1> QED
    BY <1>4, <1>5, <1>6, <1>7
    DEF Proceed, InsertUser, InsertSession, InsertRefused, Reject, TargetGone, Commit

\* ... and no step of others makes it longer.
LEMMA OthersWait ==
  ASSUME IsFiniteSet(User), IInv, IInv', [Next]_vars, NEW r \in Request, pc[r] # "idle"
  PROVE  StepsOf(r)' <= StepsOf(r)
  <1>1. StepsOf(r) \in Nat
    <2>1. IsFiniteSet(pending[r]) /\ Cardinality(pending[r]) \in Nat /\ Cardinality(User) \in Nat
      BY FS_Subset, FS_CardinalityType DEF IInv, TypeOK
    <2> QED
      BY <2>1 DEF StepsOf
  <1>2. ASSUME pc'[r] = pc[r], pending'[r] = pending[r] PROVE StepsOf(r)' <= StepsOf(r)
    BY <1>1, <1>2 DEF StepsOf
  <1>3. ASSUME Abort(r) \/ DeadlockVictim(r) PROVE StepsOf(r)' <= StepsOf(r)
    <2>1. pc'[r] = "idle"
      BY <1>3 DEF IInv, TypeOK, Abort, DeadlockVictim, Finish
    <2> QED
      BY <1>1, <2>1 DEF StepsOf
  <1>4. ASSUME NEW q \in Request, q # r, Proceed(q) \/ Abort(q) \/ DeadlockVictim(q)
        PROVE  pc'[r] = pc[r] /\ pending'[r] = pending[r]
    BY <1>4 DEF IInv, TypeOK, Proceed, InsertUser, InsertSession, InsertRefused, StartScan, LockRow, Reject,
                LockTarget, TargetGone, Commit, Abort, DeadlockVictim, Finish
  <1>5. ASSUME NEW q \in Request, NEW op \in Operation, NEW a \in User, NEW t \in User, Begin(q, op, a, t)
        PROVE  pc'[r] = pc[r] /\ pending'[r] = pending[r]
    BY <1>5 DEF IInv, TypeOK, Begin
  <1>6. ASSUME (\E u \in User : Register(u)) \/ UNCHANGED vars
        PROVE  pc'[r] = pc[r] /\ pending'[r] = pending[r]
    BY <1>6 DEF Register, vars, local
  <1>7. ASSUME Proceed(r) PROVE StepsOf(r)' <= StepsOf(r)
    <2>1. StepsOf(r)' < StepsOf(r) /\ StepsOf(r)' \in Nat
      BY <1>7, ProceedShortens
    <2> QED
      BY <1>1, <2>1
  <1> QED
    BY <1>2, <1>3, <1>4, <1>5, <1>6, <1>7 DEF Next

\* A request takes finitely many steps, failures and deadlocks aside: at most
\* three more than there are users (src/modules/identity/administrator-lock.ts).
THEOREM RequestsAreShort ==
  ASSUME IsFiniteSet(User)
  PROVE  Spec => RequestsAdvance
  <1>1. IInv /\ IInv' /\ [Next]_vars =>
          [\A r \in Request :
             /\ Proceed(r) => StepsOf(r) \in Nat /\ StepsOf(r)' \in Nat /\ StepsOf(r)' < StepsOf(r)
             /\ pc[r] # "idle" => StepsOf(r)' <= StepsOf(r)]_vars
    BY ProceedShortens, OthersWait
  <1> QED
    BY <1>1, Invariance, PTL DEF Spec, RequestsAdvance
=============================================================================
