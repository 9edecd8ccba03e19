----------------------- MODULE ComparisonGrantsProofs -----------------------
(***************************************************************************)
(* A comparison grant serves one collector and stays revoked, for any      *)
(* number of collectors, grants and concurrent redemptions.  Whoever was   *)
(* shown a comparison is the recipient while the row exists (ServedInv),   *)
(* and the conditional UPDATE only binds a grant without a recipient; the  *)
(* one that a request has lost is not free again (LostInv).                *)
(***************************************************************************)
EXTENDS ComparisonGrants, TLAPS

ServedInv ==
  \A g \in Grant :
    /\ grant[g] = NoRow => served[g] = {}
    /\ g \in Rows => \A c \in served[g] : grant[g].recipient = c

JobInv == \A r \in Request : pc[r] # "idle" => job[r] \in Job /\ grant[job[r].grant] # NoRow

IInv == TypeOK /\ JobInv /\ ServedInv /\ OneCollectorPerGrant

-----------------------------------------------------------------------------
\* A grant has a row unless it was never made or was deleted.
LEMMA RowFacts ==
  ASSUME TypeOK, NEW g \in Grant
  PROVE  /\ g \in Rows <=> grant[g] \notin {NoRow, Gone}
         /\ g \in Rows => grant[g] \in Row
  BY GrantAssumption DEF TypeOK, Rows

\* No grant, no request.
LEMMA InitIInv == Init => IInv
  BY GrantAssumption
  DEF Init, IInv, TypeOK, Time, JobInv, ServedInv, OneCollectorPerGrant, Rows

\* Steps that delete rows, or none, and serve nobody.
LEMMA DeletionIInv ==
  ASSUME IInv, NEW G \in SUBSET Rows, DeleteRows(G), UNCHANGED served,
         time' \in Time, album' \in SUBSET Collector,
         account' \in [Collector -> {"active", "suspended", "deleted"}],
         UNCHANGED <<pc, job>>
  PROVE  IInv'
  <1> USE GrantAssumption DEF IInv, DeleteRows
  <1>1. TypeOK'
    BY DEF TypeOK
  <1>2. JobInv' /\ OneCollectorPerGrant'
    BY DEF JobInv, Job, OneCollectorPerGrant, Rows
  <1>3. ServedInv'
    BY DEF TypeOK, ServedInv, Rows
  <1> QED
    BY <1>1, <1>2, <1>3

\* Steps of the world that leave the table alone.
LEMMA WorldIInv ==
  ASSUME IInv, UNCHANGED <<grant, served, pc, job>>,
         time' \in Time, album' \in SUBSET Collector,
         account' \in [Collector -> {"active", "suspended", "deleted"}]
  PROVE  IInv'
  BY DEF IInv, TypeOK, JobInv, ServedInv, OneCollectorPerGrant, Rows

\* A request moves on, and the table with it or not.
LEMMA MoveIInv ==
  ASSUME IInv, NEW r \in Request, UNCHANGED <<world, grant, served>>,
         \/ End(r)
         \/ \E place \in {"loaded", "compatible", "lost", "redeemed"} :
              pc[r] # "idle" /\ Goto(r, place)
  PROVE  IInv'
  <1> USE DEF IInv, world
  <1>1. TypeOK'
    BY DEF TypeOK, End, Goto
  <1>2. JobInv'
    BY DEF TypeOK, JobInv, End, Goto
  <1>3. ServedInv' /\ OneCollectorPerGrant'
    BY DEF ServedInv, OneCollectorPerGrant, Rows
  <1> QED
    BY <1>1, <1>2, <1>3

\* A new grant has been served to nobody.
LEMMA CreateIInv ==
  ASSUME IInv, NEW c \in Collector, NEW g \in Grant, Create(c, g)
  PROVE  IInv'
  <1> USE GrantAssumption DEF IInv, Create, world
  <1> DEFINE row == [owner |-> c, recipient |-> Nobody, expires |-> time + Lifetime,
                     revoked |-> FALSE]
  <1>1. row \in Row
    BY DEF TypeOK, Time, Row
  <1>2. TypeOK'
    BY <1>1 DEF TypeOK
  <1>3. JobInv'
    BY <1>1 DEF TypeOK, JobInv, Job
  <1>4. ServedInv' /\ OneCollectorPerGrant'
    BY <1>1 DEF TypeOK, ServedInv, OneCollectorPerGrant, Rows
  <1> QED
    BY <1>2, <1>3, <1>4

\* A revocation leaves recipient and served as they are.
LEMMA RevokeIInv ==
  ASSUME IInv, NEW c \in Collector, NEW g \in Grant, Revoke(c, g)
  PROVE  IInv'
  <1>1. PICK row \in Row : /\ row.recipient = grant[g].recipient
                           /\ grant' = [grant EXCEPT ![g] = row]
    <2> DEFINE revoked == [grant[g] EXCEPT !.revoked = TRUE]
    <2>1. revoked \in Row /\ revoked.recipient = grant[g].recipient
      BY DEF Revoke, Rows, Row
    <2>2. grant' = [grant EXCEPT ![g] = revoked]
      BY DEF Revoke
    <2> QED
      BY <2>1, <2>2
  <1>2. g \in Rows /\ UNCHANGED <<world, pc, job, served>>
    BY DEF Revoke
  <1>3. TypeOK'
    BY <1>1, <1>2 DEF IInv, TypeOK, world
  <1>4. JobInv'
    BY <1>1, <1>2, GrantAssumption DEF IInv, TypeOK, JobInv, Job
  <1>5. ServedInv' /\ OneCollectorPerGrant'
    BY <1>1, <1>2, GrantAssumption DEF IInv, TypeOK, ServedInv, OneCollectorPerGrant, Rows
  <1> QED
    BY <1>3, <1>4, <1>5 DEF IInv

\* What the conditional UPDATE writes.
LEMMA BindEffect ==
  ASSUME IInv, NEW r \in Request, Bind(r), grant' # grant
  PROVE  LET g == job[r].grant
         IN  /\ g \in Rows /\ grant[g] \in Row
             /\ grant[g].recipient = Nobody /\ ~grant[g].revoked
             /\ grant' = [grant EXCEPT ![g].recipient = Viewer(r)]
             /\ Goto(r, "redeemed")
  BY DEF Bind, Rows, Target, IInv, JobInv, Job

\* The conditional UPDATE binds a grant that had no recipient, or finds it bound to
\* the same collector.
LEMMA BindIInv ==
  ASSUME IInv, NEW r \in Request, Bind(r)
  PROVE  IInv'
  <1> DEFINE g == job[r].grant
             v == Viewer(r)
  <1>1. pc[r] # "idle" /\ job[r] \in Job /\ v \in Collector /\ g \in Grant
    BY DEF IInv, JobInv, Job, Bind, Viewer
  <1>2. UNCHANGED <<world, served>>
    BY DEF Bind
  <1>3. CASE grant' = grant
    <2>1. Goto(r, "lost") \/ Goto(r, "redeemed")
      BY DEF Bind
    <2> QED
      BY <1>1, <1>2, <1>3, <2>1, MoveIInv
  <1>4. CASE grant' # grant
    <2> DEFINE bound == [grant[g] EXCEPT !.recipient = v]
    <2>1. /\ g \in Rows /\ grant[g] \in Row /\ grant[g].recipient = Nobody
          /\ grant' = [grant EXCEPT ![g] = bound] /\ Goto(r, "redeemed")
      BY <1>4, BindEffect
    <2>2. bound \in Row /\ bound.recipient = v
      BY <1>1, <2>1 DEF Row
    <2>3. served[g] = {}
      <3> SUFFICES ASSUME NEW c \in served[g] PROVE FALSE
        OBVIOUS
      <3>1. c \in Collector /\ grant[g].recipient = c
        BY <1>1, <2>1 DEF IInv, TypeOK, ServedInv
      <3> QED
        BY <2>1, <3>1, GrantAssumption
    <2>4. TypeOK'
      BY <1>1, <1>2, <2>1, <2>2 DEF IInv, TypeOK, Goto, world
    <2>5. JobInv'
      BY <1>1, <2>1, <2>2, GrantAssumption DEF IInv, TypeOK, JobInv, Job, Goto
    <2>6. ServedInv' /\ OneCollectorPerGrant'
      BY <1>1, <1>2, <2>1, <2>2, <2>3, GrantAssumption
      DEF IInv, TypeOK, ServedInv, OneCollectorPerGrant, Rows
    <2> QED
      BY <2>4, <2>5, <2>6 DEF IInv
  <1> QED
    BY <1>3, <1>4

\* The comparison is shown to the recipient, the only one ever served.
LEMMA CompareIInv ==
  ASSUME IInv, NEW r \in Request, Compare(r)
  PROVE  IInv'
  <1> DEFINE g == job[r].grant
             v == Viewer(r)
  <1>1. v \in Collector /\ g \in Grant
    BY DEF IInv, JobInv, Job, Compare, Viewer
  <1>2. CASE UNCHANGED served
    BY <1>2, MoveIInv DEF Compare
  <1>3. CASE ~UNCHANGED served
    <2>1. /\ g \in Rows /\ grant[g].recipient = v
          /\ served' = [served EXCEPT ![g] = @ \cup {v}]
      BY <1>3 DEF Compare, MayCompare, Usable, Target
    <2>2. TypeOK'
      BY <1>1, <2>1 DEF IInv, TypeOK, Compare, End, world
    <2>3. JobInv'
      BY DEF IInv, TypeOK, JobInv, Compare, End
    <2>4. \A c \in served'[g] : c = v
      BY <1>1, <2>1 DEF IInv, TypeOK, ServedInv
    <2>5. UNCHANGED grant /\ \A h \in Grant \ {g} : served'[h] = served[h]
      BY <1>1, <2>1 DEF IInv, TypeOK, Compare
    <2>6. ServedInv'
      BY <1>1, <2>1, <2>4, <2>5, GrantAssumption DEF IInv, ServedInv, Rows
    <2>7. OneCollectorPerGrant'
      BY <2>4, <2>5 DEF IInv, OneCollectorPerGrant
    <2> QED
      BY <2>2, <2>3, <2>6, <2>7 DEF IInv
  <1> QED
    BY <1>2, <1>3

\* Every step keeps the invariant.
LEMMA NextIInv == IInv /\ [Next]_vars => IInv'
  <1> SUFFICES ASSUME IInv, [Next]_vars PROVE IInv'
    OBVIOUS
  <1> USE GrantAssumption
  <1>1. CASE Tick
    BY <1>1, WorldIInv DEF Tick, IInv, TypeOK, Time
  <1>2. ASSUME NEW c \in Collector,
               AddCollection(c) \/ SetStatus(c, "active") \/ SetStatus(c, "suspended")
        PROVE  IInv'
    BY <1>2, WorldIInv DEF AddCollection, SetStatus, IInv, TypeOK
  <1>3. ASSUME NEW c \in Collector, RemoveCollection(c) PROVE IInv'
    BY <1>3, DeletionIInv DEF RemoveCollection, IInv, TypeOK
  <1>4. ASSUME NEW c \in Collector, DeleteAccount(c) PROVE IInv'
    BY <1>4, DeletionIInv DEF DeleteAccount, IInv, TypeOK
  <1>5. ASSUME NEW c \in Collector, NEW g \in Grant, Create(c, g) \/ Revoke(c, g)
        PROVE  IInv'
    BY <1>5, CreateIInv, RevokeIInv
  <1>6. ASSUME NEW r \in Request, NEW v \in Collector, NEW g \in Grant,
               NEW kind \in {"setup", "compare"}, Open(r, v, g, kind)
        PROVE  IInv'
    <2>1. [viewer |-> v, grant |-> g, now |-> time, kind |-> kind] \in Job
      BY DEF Job, IInv, TypeOK
    <2> QED
      BY <1>6, <2>1 DEF Open, world, IInv, TypeOK, JobInv, ServedInv, OneCollectorPerGrant, Rows
  <1>7. ASSUME NEW r \in Request,
               \/ Load(r) \/ FindCompatible(r) \/ Reload(r)
               \/ Refuse(r) \/ Setup(r) \/ Fail(r)
        PROVE  IInv'
    BY <1>7, MoveIInv DEF Load, FindCompatible, Reload, Refuse, Setup, Fail
  <1>8. ASSUME NEW r \in Request, Bind(r) \/ Compare(r) PROVE IInv'
    BY <1>8, BindIInv, CompareIInv
  <1>9. CASE UNCHANGED vars
    BY <1>9, WorldIInv DEF vars, world, IInv, TypeOK
  <1> QED
    BY <1>1, <1>2, <1>3, <1>4, <1>5, <1>6, <1>7, <1>8, <1>9 DEF Next, Redeem

\* The inductive invariant holds in every reachable state.
THEOREM Invariance == Spec => []IInv
  BY InitIInv, NextIInv, PTL DEF Spec

\* The rows, requests and clock keep their shape, and a recipient is always a
\* collector profile.
THEOREM TypeCorrect == Spec => []TypeOK
  <1>1. IInv => TypeOK
    BY DEF IInv
  <1> QED
    BY <1>1, Invariance, PTL

\* However many collectors race for a grant, one at most ever sees its result.
THEOREM OneWins == Spec => []OneCollectorPerGrant
  <1>1. IInv => OneCollectorPerGrant
    BY DEF IInv
  <1> QED
    BY <1>1, Invariance, PTL

\* A revoked grant stays revoked or is deleted.
LEMMA RevokedStep ==
  IInv /\ [Next]_vars =>
    [\A g \in Rows : grant[g].revoked => grant'[g] \in {grant[g], Gone}]_vars
  <1> SUFFICES ASSUME IInv, Next, NEW g \in Rows, grant[g].revoked
               PROVE  grant'[g] \in {grant[g], Gone}
    OBVIOUS
  <1>1. g \in Grant
    BY DEF Rows
  <1>2. CASE grant' = grant
    BY <1>2
  <1>3. ASSUME NEW c \in Collector, RemoveCollection(c) \/ DeleteAccount(c)
        PROVE  grant'[g] \in {grant[g], Gone}
    BY <1>1, <1>3 DEF RemoveCollection, DeleteAccount, DeleteRows
  <1>4. ASSUME NEW c \in Collector, NEW h \in Grant, Create(c, h) \/ Revoke(c, h)
        PROVE  grant'[g] \in {grant[g], Gone}
    BY <1>1, <1>4, GrantAssumption DEF Create, Revoke, Rows, IInv, TypeOK
  <1>5. ASSUME NEW r \in Request, Bind(r), grant' # grant
        PROVE  grant'[g] \in {grant[g], Gone}
    <2>1. /\ ~grant[job[r].grant].revoked
          /\ grant' = [grant EXCEPT ![job[r].grant].recipient = Viewer(r)]
      BY <1>5, BindEffect
    <2> QED
      BY <1>1, <2>1 DEF IInv, TypeOK
  <1> QED
    BY <1>2, <1>3, <1>4, <1>5
    DEF Next, Redeem, Tick, AddCollection, SetStatus, Open, Load, FindCompatible, Reload,
        Refuse, Setup, Compare, Fail

\* A revocation is final even for redemptions that loaded the grant before it.
THEOREM RevocationIsFinal == Spec => RevokedForGood
  BY Invariance, RevokedStep, PTL DEF Spec, RevokedForGood
-----------------------------------------------------------------------------
\* A grant that the conditional UPDATE of a request begun at t would bind.
Free(g, t) ==
  g \in Rows /\ grant[g].recipient = Nobody /\ ~grant[g].revoked /\ grant[g].expires > t

\* Who has lost a race would lose it again: the grant is bound, revoked or gone.
LostInv == \A r \in Request : pc[r] = "lost" => ~Free(job[r].grant, job[r].now)

\* No step makes a grant free that was not: bound and revoked rows stay so, and
\* an identifier is given to one row only.
LEMMA NotFreed ==
  ASSUME IInv, [Next]_vars, NEW g \in Grant, grant[g] # NoRow, NEW t \in Time, Free(g, t)'
  PROVE  Free(g, t)
  <1>1. grant' \in [Grant -> Row \cup {NoRow, Gone}] /\ grant'[g] \in Row
    BY NextIInv DEF IInv, TypeOK, Free, Rows
  <1>2. CASE grant' = grant
    BY <1>2 DEF Free, Rows
  <1>3. ASSUME NEW c \in Collector, RemoveCollection(c) \/ DeleteAccount(c)
        PROVE  Free(g, t)
    <2>1. grant'[g] = grant[g]
      BY <1>1, <1>3, GrantAssumption DEF RemoveCollection, DeleteAccount, DeleteRows
    <2> QED
      BY <1>1, <2>1 DEF Free, Rows
  <1>4. ASSUME NEW c \in Collector, NEW h \in Grant, Create(c, h)
        PROVE  Free(g, t)
    <2>1. grant'[g] = grant[g]
      BY <1>4 DEF Create, IInv, TypeOK
    <2> QED
      BY <1>1, <2>1 DEF Free, Rows
  <1>5. ASSUME NEW c \in Collector, NEW h \in Grant, Revoke(c, h)
        PROVE  Free(g, t)
    <2>1. h # g
      BY <1>5 DEF Revoke, Free, IInv, TypeOK, Rows, Row
    <2>2. grant'[g] = grant[g]
      BY <1>5, <2>1 DEF Revoke, IInv, TypeOK
    <2> QED
      BY <1>1, <2>2 DEF Free, Rows
  <1>6. ASSUME NEW r \in Request, Bind(r), grant' # grant
        PROVE  Free(g, t)
    <2> DEFINE h == job[r].grant
    <2>1. /\ h \in Rows /\ grant[h] \in Row
          /\ grant' = [grant EXCEPT ![h].recipient = Viewer(r)]
      BY <1>6, BindEffect
    <2>2. Viewer(r) \in Collector /\ h \in Grant
      BY <1>6 DEF IInv, JobInv, Job, Bind, Viewer
    <2>3. h # g
      BY <2>1, <2>2, GrantAssumption DEF Free, IInv, TypeOK, Row
    <2>4. grant'[g] = grant[g]
      BY <2>1, <2>3 DEF IInv, TypeOK
    <2> QED
      BY <1>1, <2>4 DEF Free, Rows
  <1> QED
    BY <1>2, <1>3, <1>4, <1>5, <1>6
    DEF Next, vars, Redeem, Tick, AddCollection, SetStatus, Open, Load, FindCompatible, Reload,
        Refuse, Setup, Compare, Fail

\* While a refusal is under way its grant does not become free again: a recipient,
\* a revocation, a deletion and the clock are all final.
LEMMA LostStep == IInv /\ LostInv /\ [Next]_vars => LostInv'
  <1> SUFFICES ASSUME IInv, LostInv, [Next]_vars, NEW r \in Request, pc'[r] = "lost",
                      Free(job[r].grant, job[r].now)'
               PROVE  FALSE
    BY DEF LostInv
  <1>1. job[r]' \in Job /\ pc \in [Request -> {"idle", "opened", "loaded", "compatible", "lost", "redeemed"}]
    BY NextIInv DEF IInv, TypeOK, JobInv
  <1>2. CASE pc[r] = "lost" /\ job'[r] = job[r]
    <2>1. job[r] \in Job /\ grant[job[r].grant] # NoRow
      BY <1>2 DEF IInv, JobInv
    <2>2. Free(job[r].grant, job[r].now)
      BY <1>2, <2>1, NotFreed DEF Job, Free
    <2> QED
      BY <1>2, <2>2 DEF LostInv
  <1>3. CASE ~(pc[r] = "lost" /\ job'[r] = job[r])
    <2>1. Bind(r)
      BY <1>1, <1>3 DEF Next, vars, world, Redeem, Tick, AddCollection, RemoveCollection, DeleteAccount,
         SetStatus, Create, Revoke, Open, Load, FindCompatible, Bind, Reload, Refuse, Setup, Compare, Fail,
         Goto, End, IInv, TypeOK
    <2>2. UNCHANGED <<grant, job>> /\ ~Free(job[r].grant, job[r].now)
      BY <1>1, <2>1 DEF Bind, Goto, Free, Target, IInv, TypeOK
    <2> QED
      BY <2>2 DEF Free, Rows
  <1> QED
    BY <1>2, <1>3

\* A request is refused only while there is a reason.
LEMMA RefusalStep ==
  IInv /\ LostInv /\ [Next]_vars => [\A r \in Request : Refuse(r) => Refusable(r)]_vars
  <1> SUFFICES ASSUME IInv, LostInv, NEW r \in Request, Refuse(r)
               PROVE  Refusable(r)
    OBVIOUS
  <1>1. CASE pc[r] = "lost"
    BY <1>1 DEF Refuse, Refusable, LostInv, Free, Usable, Target
  <1> QED
    BY <1>1 DEF Refuse, Refusable

\* Whoever is turned away could not have used the grant at that moment: it was
\* bound to another, the viewer's own, revoked, expired or gone, or the viewer
\* had no collection to compare.  The viewer's own other request is no reason.
THEOREM RefusalsHaveReasons == Spec => RefusedForAReason
  <1>1. Init => LostInv
    BY DEF Init, LostInv
  <1> QED
    BY <1>1, Invariance, LostStep, RefusalStep, PTL DEF Spec, RefusedForAReason
=============================================================================
