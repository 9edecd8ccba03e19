------------------------- MODULE RegistrationProofs -------------------------
(***************************************************************************)
(* An invitation opens one account at most, whatever is called invalid is  *)
(* so for good, and one run of the migration script creates the first      *)
(* administrator, for any number of invitations, pages and scripts.  A job *)
(* that holds an invitation is the only one, and the invitation is neither *)
(* accepted nor revoked (HoldInv); a script that may still insert is the   *)
(* only one, and none has inserted before (BootInv).                       *)
(* A limiter refuses nobody below its limit: no open window of its map has *)
(* counted more than was let through since it was opened (LimiterInv).     *)
(***************************************************************************)
EXTENDS Registration, FiniteSetTheorems, TLAPS

Held   == {"locked", "inserted"}
Bound  == [phase : Held, origin : Origin, email : Email]
Formed(q) ==
  /\ q.phase \in Phases
  /\ q.phase # "idle" => q.origin \in Origin
  /\ q.phase \in {"begun", "invalid", "gone"} => q.origin \in Invitation
  /\ q.phase \in Held => q \in Bound

RowsOK ==
  /\ now \in Nat
  /\ invitations \in [Invitation -> Row \cup {NoInvitation}]
  /\ opened \in [Invitation \cup Boot -> 0..2]
  /\ \A i \in Invitation : invitations[i] = NoInvitation => opened[i] = 0

JobsOK == job = [j \in Job |-> job[j]] /\ \A j \in Job : Formed(job[j])

ExistInv ==
  \A j \in Job :
    job[j].phase # "idle" /\ job[j].origin \in Invitation => invitations[job[j].origin] # NoInvitation

HoldInv ==
  \A j \in Job :
    job[j].phase \in Held /\ job[j].origin \in Invitation =>
      /\ ~invitations[job[j].origin].accepted /\ ~invitations[job[j].origin].revoked
      /\ \A k \in Job : job[k].phase \in Held /\ job[k].origin = job[j].origin => k = j

InvitationInv ==
  RowsOK /\ JobsOK /\ ExistInv /\ HoldInv /\ OneAccountPerInvitation /\ InvalidForGood

BootInv ==
  /\ holder \in [Email -> Origin \cup {Nobody}]
  /\ boot = [b \in Boot |-> boot[b]]
  /\ \A b \in Boot : opened[b] > 0 => \E e \in Email : holder[e] = b
  /\ \A b, c \in Boot : opened[b] > 0 /\ opened[c] > 0 => b = c
  /\ \A b \in Boot :
       boot[b].phase \in {"counted", "inserted"} =>
         \A c \in Boot : opened[c] = 0 /\ (boot[c].phase \in {"counted", "inserted"} => c = b)

\* An address that is being inserted is nobody's, and inserted once.
FreshInv ==
  /\ \A j \in Job :
       job[j].phase = "inserted" =>
         /\ holder[job[j].email] = Nobody
         /\ \A k \in Job : job[k].phase = "inserted" /\ job[k].email = job[j].email => k = j
         /\ job[j].email = AdminEmail => \A b \in Boot : boot[b].phase # "inserted"
  /\ \A b \in Boot : boot[b].phase = "inserted" => holder[AdminEmail] = Nobody

AccountInv == BootInv /\ FreshInv

IInv == InvitationInv /\ AccountInv
-----------------------------------------------------------------------------
(* Invitations and the jobs that use them.                                 *)

LEMMA IdleFormed == Formed(Idle) /\ Idle.phase = "idle"
  BY DEF Formed, Idle, Phases, Held

\* A job goes on: it takes an invitation nobody holds, or no other than it held.
LEMMA JobStep ==
  ASSUME InvitationInv, NEW j \in Job, NEW q, Formed(q),
         q.phase # "idle" /\ q.origin \in Invitation => invitations[q.origin] # NoInvitation,
         q.phase \in Held /\ q.origin \in Invitation =>
           \/ job[j].phase \in Held /\ job[j].origin = q.origin
           \/ ~Locked(q.origin) /\ Pending(q.origin),
         q.phase \in {"invalid", "gone"} => ~Pending(q.origin),
         job' = [job EXCEPT ![j] = q], UNCHANGED <<now, invitations, opened>>
  PROVE  InvitationInv'
  <1>1. /\ job' = [k \in Job |-> job'[k]]
        /\ \A k \in Job : job'[k] = IF k = j THEN q ELSE job[k]
    BY DEF InvitationInv, JobsOK
  <1>2. RowsOK' /\ OneAccountPerInvitation'
    BY DEF InvitationInv, RowsOK, OneAccountPerInvitation
  <1>3. JobsOK'
    BY <1>1 DEF InvitationInv, JobsOK, Formed
  <1>4. ExistInv'
    BY <1>1 DEF InvitationInv, ExistInv
  <1>5. HoldInv'
    BY <1>1 DEF InvitationInv, HoldInv, Locked, Pending, Held
  <1>6. InvalidForGood'
    BY <1>1 DEF InvitationInv, InvalidForGood, Pending
  <1> QED
    BY <1>2, <1>3, <1>4, <1>5, <1>6 DEF InvitationInv

\* A row changes while nobody holds it, and never becomes good again.
LEMMA RowStep ==
  ASSUME InvitationInv, NEW i \in Invitation, NEW row \in Row, ~Locked(i), UNCHANGED <<now, opened, job>>,
         invitations' = [invitations EXCEPT ![i] = row],
         \/ invitations[i] = NoInvitation /\ ~row.accepted /\ ~row.revoked
         \/ /\ invitations[i] # NoInvitation /\ ~invitations[i].accepted
            /\ ~row.accepted /\ row.revoked
  PROVE  InvitationInv'
  <1>1. \A k \in Invitation : invitations'[k] = IF k = i THEN row ELSE invitations[k]
    BY DEF InvitationInv, RowsOK
  <1>2. RowsOK' /\ JobsOK' /\ ExistInv'
    BY <1>1, RowAssumption DEF InvitationInv, RowsOK, JobsOK, Formed, ExistInv
  <1>3. HoldInv'
    BY <1>1 DEF InvitationInv, HoldInv, Locked, Held
  <1>4. OneAccountPerInvitation'
    <2>1. ~row.accepted /\ opened[i] = 0
      <3>1. ~row.accepted
        OBVIOUS
      <3>2. CASE invitations[i] = NoInvitation
        BY <3>1, <3>2 DEF InvitationInv, RowsOK
      <3>3. CASE invitations[i] # NoInvitation
        BY <3>1, <3>3 DEF InvitationInv, RowsOK, OneAccountPerInvitation, Row
      <3> QED
        BY <3>1, <3>2, <3>3
    <2>2. ASSUME NEW k \in Invitation
          PROVE  /\ opened'[k] <= 1
                 /\ invitations'[k] # NoInvitation =>
                      /\ (invitations'[k].accepted <=> opened'[k] = 1)
                      /\ ~(invitations'[k].accepted /\ invitations'[k].revoked)
      <3>1. CASE k = i
        BY <1>1, <2>1, <3>1
      <3>2. CASE k # i
        BY <1>1, <3>2 DEF InvitationInv, OneAccountPerInvitation
      <3> QED
        BY <3>1, <3>2
    <2> QED
      BY <2>2 DEF OneAccountPerInvitation
  <1>5. InvalidForGood'
    <2> SUFFICES ASSUME NEW j \in Job, job[j].phase \in {"invalid", "gone"}, Pending(job[j].origin)'
                 PROVE  FALSE
      BY DEF InvalidForGood
    <2>1. job[j].origin \in Invitation
      BY DEF InvitationInv, JobsOK, Formed
    <2> QED
      BY <1>1, <2>1 DEF InvitationInv, InvalidForGood, ExistInv, Pending
  <1> QED
    BY <1>2, <1>3, <1>4, <1>5 DEF InvitationInv

LEMMA Counting ==
  ASSUME NEW n \in 0..2
  PROVE  Min({2, n + 1}) \in 1..2 /\ (n = 0 => Min({2, n + 1}) = 1)
  <1>1. \E x \in {2, n + 1} : \A y \in {2, n + 1} : x <= y
    OBVIOUS
  <1>2. \A x \in {2, n + 1} : (\A y \in {2, n + 1} : x <= y) => x = IF n = 2 THEN 2 ELSE n + 1
    OBVIOUS
  <1>3. Min({2, n + 1}) = IF n = 2 THEN 2 ELSE n + 1
    BY <1>1, <1>2 DEF Min
  <1> QED
    BY <1>3

\* The account of an invitation is there at the moment it is accepted.
LEMMA AcceptStep ==
  ASSUME InvitationInv, NEW j \in Job, CommitInvitation(j)
  PROVE  InvitationInv'
  <1> DEFINE i == job[j].origin
             row == [invitations[i] EXCEPT !.accepted = TRUE]
  <1>1. /\ i \in Invitation /\ job[j].phase = "inserted"
        /\ job' = [job EXCEPT ![j] = Idle] /\ invitations' = [invitations EXCEPT ![i] = row]
        /\ opened' = Count(i) /\ now' = now
    BY DEF CommitInvitation, Commits
  <1>2. /\ invitations[i] \in Row /\ ~invitations[i].accepted /\ ~invitations[i].revoked
        /\ \A k \in Job : job[k].phase \in Held /\ job[k].origin = i => k = j
    BY <1>1, RowAssumption DEF InvitationInv, RowsOK, ExistInv, HoldInv, Held
  <1>3. row \in Row /\ row.accepted /\ ~row.revoked
    BY <1>2 DEF Row
  <1>4. opened[i] = 0
    BY <1>1, <1>2, RowAssumption DEF InvitationInv, RowsOK, OneAccountPerInvitation
  <1>5. /\ opened' \in [Invitation \cup Boot -> 0..2] /\ opened'[i] = 1
        /\ \A p \in Invitation \cup Boot : p # i => opened'[p] = opened[p]
    BY <1>1, <1>4, Counting DEF InvitationInv, RowsOK, Count
  <1> HIDE DEF row
  <1>6. \A k \in Invitation : invitations'[k] = IF k = i THEN row ELSE invitations[k]
    BY <1>1 DEF InvitationInv, RowsOK
  <1>7. \A k \in Job : job'[k] = IF k = j THEN Idle ELSE job[k]
    BY <1>1 DEF InvitationInv, JobsOK
  <1>8. RowsOK'
    BY <1>1, <1>3, <1>5, <1>6, RowAssumption DEF InvitationInv, RowsOK
  <1>9. JobsOK' /\ ExistInv'
    BY <1>1, <1>3, <1>6, <1>7, IdleFormed, RowAssumption DEF InvitationInv, JobsOK, Formed, ExistInv
  <1>10. HoldInv'
    BY <1>2, <1>6, <1>7, IdleFormed DEF InvitationInv, HoldInv, Held
  <1>11. OneAccountPerInvitation'
    BY <1>3, <1>5, <1>6 DEF InvitationInv, OneAccountPerInvitation
  <1>12. InvalidForGood'
    BY <1>1, <1>2, <1>3, <1>6, <1>7, IdleFormed DEF InvitationInv, InvalidForGood, Pending, JobsOK, Formed
  <1> QED
    BY <1>8, <1>9, <1>10, <1>11, <1>12 DEF InvitationInv

LEMMA TimeStep ==
  ASSUME InvitationInv, now' \in Nat, now' >= now, UNCHANGED <<invitations, opened, job>>
  PROVE  InvitationInv'
  <1>1. RowsOK' /\ JobsOK' /\ ExistInv' /\ HoldInv' /\ OneAccountPerInvitation'
    BY DEF InvitationInv, RowsOK, JobsOK, Formed, ExistInv, HoldInv, OneAccountPerInvitation
  <1>2. InvalidForGood'
    <2> SUFFICES ASSUME NEW j \in Job, job[j].phase \in {"invalid", "gone"}, Pending(job[j].origin)'
                 PROVE  Pending(job[j].origin)
      BY DEF InvitationInv, InvalidForGood
    <2>1. invitations[job[j].origin] \in Row
      BY RowAssumption DEF Pending, InvitationInv, JobsOK, Formed, RowsOK
    <2> QED
      BY <2>1 DEF Pending, InvitationInv, RowsOK, Row
  <1> QED
    BY <1>1, <1>2 DEF InvitationInv

LEMMA RestartStep ==
  ASSUME InvitationInv, Restart
  PROVE  InvitationInv'
  <1>1. /\ job' = [j \in Job |-> job'[j]] /\ UNCHANGED <<now, invitations, opened>>
        /\ \A j \in Job : job'[j] = IF Working(j) THEN Idle ELSE job[j]
    BY DEF Restart
  <1>2. RowsOK' /\ OneAccountPerInvitation'
    BY <1>1 DEF InvitationInv, RowsOK, OneAccountPerInvitation
  <1>3. JobsOK' /\ ExistInv' /\ HoldInv'
    BY <1>1, IdleFormed DEF InvitationInv, JobsOK, Formed, ExistInv, HoldInv, Held
  <1>4. InvalidForGood'
    BY <1>1, IdleFormed DEF InvitationInv, InvalidForGood, Pending
  <1> QED
    BY <1>2, <1>3, <1>4 DEF InvitationInv

\* The first administrator's account is no invitation's.
LEMMA BootStep ==
  ASSUME InvitationInv, NEW b \in Boot, opened' = Count(b), UNCHANGED <<now, invitations, job>>
  PROVE  InvitationInv'
  <1>1. /\ opened' \in [Invitation \cup Boot -> 0..2]
        /\ \A i \in Invitation : opened'[i] = opened[i]
    BY Counting, RegistrationAssumption DEF InvitationInv, RowsOK, Count
  <1> QED
    BY <1>1 DEF InvitationInv, RowsOK, JobsOK, Formed, ExistInv, HoldInv,
                OneAccountPerInvitation, InvalidForGood, Pending
-----------------------------------------------------------------------------
(* Addresses and the first administrator.                                  *)

\* Jobs end, or go on to anything but an insert.
LEMMA JobsAside ==
  ASSUME AccountInv, UNCHANGED <<holder, boot>>, \A b \in Boot : opened'[b] = opened[b],
         \A k \in Job : job'[k].phase = "inserted" =>
           job[k].phase = "inserted" /\ job'[k].email = job[k].email
  PROVE  AccountInv'
  <1>1. BootInv'
    BY DEF AccountInv, BootInv
  <1>2. FreshInv'
    BY DEF AccountInv, FreshInv
  <1> QED
    BY <1>1, <1>2 DEF AccountInv

LEMMA InsertStep ==
  ASSUME JobsOK, AccountInv, NEW j \in Job, Insert(j)
  PROVE  AccountInv'
  <1>1. CASE job[j].email \in Users
    <2>1. job' = [job EXCEPT ![j] = Back(j)] /\ Back(j).phase # "inserted"
      BY <1>1 DEF Insert, Back, Form, Idle
    <2> QED
      BY <2>1, JobsAside DEF Insert, JobsOK
  <1>2. CASE job[j].email \notin Users
    <2> DEFINE n == [job[j] EXCEPT !.phase = "inserted"]
    <2>1. job[j] \in Bound /\ ~Inserting(job[j].email)
      BY DEF Insert, JobsOK, Formed, Held
    <2>2. n.phase = "inserted" /\ n.email = job[j].email /\ n.email \in Email
      BY <2>1 DEF Bound
    <2>3. job' = [job EXCEPT ![j] = n] /\ UNCHANGED <<holder, opened, boot>>
      BY <1>2 DEF Insert
    <2> HIDE DEF n
    <2>4. \A k \in Job : job'[k] = IF k = j THEN n ELSE job[k]
      BY <2>3 DEF JobsOK
    <2>5. BootInv'
      BY <2>3 DEF AccountInv, BootInv
    <2>6. FreshInv'
      BY <1>2, <2>1, <2>2, <2>3, <2>4 DEF AccountInv, FreshInv, Inserting, Users
    <2> QED
      BY <2>5, <2>6 DEF AccountInv
  <1> QED
    BY <1>1, <1>2

LEMMA CommitStep ==
  ASSUME JobsOK, AccountInv, NEW j \in Job, Commits(j), job[j].origin \notin Boot,
         \A b \in Boot : opened'[b] = opened[b], UNCHANGED boot
  PROVE  AccountInv'
  <1> DEFINE e == job[j].email
  <1>1. /\ job[j].phase = "inserted" /\ job[j] \in Bound /\ e \in Email /\ job[j].origin \in Origin
        /\ holder' = [holder EXCEPT ![e] = job[j].origin] /\ job' = [job EXCEPT ![j] = Idle]
    BY DEF Commits, JobsOK, Formed, Held, Bound
  <1>2. /\ \A f \in Email : holder'[f] = IF f = e THEN job[j].origin ELSE holder[f]
        /\ \A k \in Job : job'[k] = IF k = j THEN Idle ELSE job[k]
    BY <1>1 DEF AccountInv, BootInv, JobsOK
  <1>3. holder[e] = Nobody /\ \A b \in Boot : boot[b].phase = "inserted" => e # AdminEmail
    BY <1>1 DEF AccountInv, FreshInv
  <1>4. BootInv'
    <2>1. ASSUME NEW b \in Boot, opened[b] > 0 PROVE \E f \in Email : holder'[f] = b
      BY <1>1, <1>2, <1>3, <2>1, RegistrationAssumption DEF AccountInv, BootInv
    <2>2. holder' \in [Email -> Origin \cup {Nobody}]
      BY <1>1 DEF AccountInv, BootInv
    <2> QED
      BY <2>1, <2>2 DEF AccountInv, BootInv
  <1>5. FreshInv'
    <2>1. \A k \in Job : job[k].phase = "inserted" => job[k].email \in Email
      BY DEF JobsOK, Formed, Held, Bound
    <2>2. AdminEmail \in Email
      BY RegistrationAssumption
    <2> QED
      BY <1>1, <1>2, <1>3, <2>1, <2>2, IdleFormed DEF AccountInv, FreshInv
  <1> QED
    BY <1>4, <1>5 DEF AccountInv

LEMMA EmailStep ==
  ASSUME JobsOK, AccountInv, NEW e \in Email, ChangeEmail(e)
  PROVE  AccountInv'
  <1>1. PICK f \in Email \ Users :
          ~Inserting(f) /\ holder' = [holder EXCEPT ![e] = Nobody, ![f] = holder[e]]
    BY DEF ChangeEmail
  <1>2. holder[f] = Nobody /\ f # e /\ UNCHANGED <<opened, job, boot>>
    BY <1>1 DEF ChangeEmail, Users
  <1>3. /\ holder' \in [Email -> Origin \cup {Nobody}]
        /\ \A x \in Email : holder'[x] = IF x = f THEN holder[e] ELSE IF x = e THEN Nobody ELSE holder[x]
    BY <1>1, <1>2 DEF AccountInv, BootInv
  <1>4. BootInv'
    <2>1. ASSUME NEW b \in Boot, opened[b] > 0 PROVE \E x \in Email : holder'[x] = b
      <3>1. PICK x \in Email : holder[x] = b
        BY <2>1 DEF AccountInv, BootInv
      <3> QED
        BY <1>1, <1>2, <1>3, <3>1, RegistrationAssumption
    <2> QED
      BY <1>2, <1>3, <2>1 DEF AccountInv, BootInv
  <1>5. FreshInv'
    <2>1. \A k \in Job : job[k].phase = "inserted" => job[k].email \in Email
      BY DEF JobsOK, Formed, Held, Bound
    <2> QED
      BY <1>1, <1>2, <1>3, <2>1, RegistrationAssumption DEF AccountInv, FreshInv, Inserting
  <1> QED
    BY <1>4, <1>5 DEF AccountInv

LEMMA DeletionStep ==
  ASSUME JobsOK, AccountInv, NEW e \in Email, DeleteUser(e)
  PROVE  AccountInv'
  <1>1. /\ holder[e] \notin Boot /\ UNCHANGED <<opened, job, boot>>
        /\ holder' \in [Email -> Origin \cup {Nobody}]
        /\ \A x \in Email : holder'[x] = IF x = e THEN Nobody ELSE holder[x]
    BY DEF DeleteUser, AccountInv, BootInv
  <1>2. BootInv'
    BY <1>1 DEF AccountInv, BootInv
  <1>3. FreshInv'
    <2>1. \A k \in Job : job[k].phase = "inserted" => job[k].email \in Email
      BY DEF JobsOK, Formed, Held, Bound
    <2> QED
      BY <1>1, <2>1, RegistrationAssumption DEF AccountInv, FreshInv
  <1> QED
    BY <1>2, <1>3 DEF AccountInv

\* A script that begins, goes on, fails or dies.
LEMMA BootAside ==
  ASSUME RowsOK, AccountInv, NEW b \in Boot, BootCount(b) \/ BootInsert(b) \/ BootCrash(b)
  PROVE  AccountInv'
  <1>1. PICK p \in {"idle", "counted", "inserted", "failed", "done"} :
          /\ boot' = [boot EXCEPT ![b] = [phase |-> p]]
          /\ p = "counted" => Exclusive(b) /\ Users = {}
          /\ p = "inserted" => boot[b].phase = "counted" /\ ~Inserting(AdminEmail) /\ AdminEmail \notin Users
    BY DEF BootCount, BootInsert, BootCrash, Idle
  <1> DEFINE n == [phase |-> p]
  <1>2. n.phase = p /\ boot' = [boot EXCEPT ![b] = n] /\ UNCHANGED <<holder, opened, job>>
    BY <1>1 DEF BootCount, BootInsert, BootCrash
  <1> HIDE DEF n
  <1>3. /\ boot' = [c \in Boot |-> boot'[c]]
        /\ \A c \in Boot : boot'[c] = IF c = b THEN n ELSE boot[c]
    BY <1>2 DEF AccountInv, BootInv
  <1>4. BootInv'
    <2>1. ASSUME p = "counted", NEW c \in Boot PROVE opened[c] = 0
      <3>1. \A e \in Email : holder[e] = Nobody
        BY <1>1, <2>1 DEF Users
      <3>2. ~(opened[c] > 0) /\ opened[c] \in 0..2
        BY <3>1, RegistrationAssumption DEF AccountInv, BootInv, RowsOK
      <3> QED
        BY <3>2
    <2>2. ASSUME NEW d \in Boot, boot'[d].phase \in {"counted", "inserted"}, NEW c \in Boot
          PROVE  opened[c] = 0 /\ (boot'[c].phase \in {"counted", "inserted"} => c = d)
      <3>1. CASE p = "counted"
        BY <1>1, <1>2, <1>3, <2>1, <2>2, <3>1 DEF Exclusive
      <3>2. CASE p = "inserted"
        BY <1>1, <1>2, <1>3, <2>2, <3>2 DEF AccountInv, BootInv
      <3>3. CASE p \notin {"counted", "inserted"}
        BY <1>2, <1>3, <2>2, <3>3 DEF AccountInv, BootInv
      <3> QED
        BY <3>1, <3>2, <3>3
    <2> QED
      BY <1>2, <1>3, <2>2 DEF AccountInv, BootInv
  <1>5. FreshInv'
    <2>1. p = "inserted" => /\ holder[AdminEmail] = Nobody
                            /\ \A j \in Job : job[j].phase = "inserted" => job[j].email # AdminEmail
      BY <1>1, RegistrationAssumption DEF Inserting, Users
    <2> QED
      BY <1>2, <1>3, <2>1 DEF AccountInv, FreshInv
  <1> QED
    BY <1>4, <1>5 DEF AccountInv

LEMMA BootCommitStep ==
  ASSUME RowsOK, JobsOK, AccountInv, NEW b \in Boot, BootCommit(b)
  PROVE  AccountInv'
  <1> DEFINE n == [boot[b] EXCEPT !.phase = "done"]
  <1>1. /\ boot[b].phase = "inserted" /\ boot' = [boot EXCEPT ![b] = n]
        /\ holder' = [holder EXCEPT ![AdminEmail] = b] /\ opened' = Count(b) /\ job' = job
    BY DEF BootCommit
  <1>2. n.phase # "counted" /\ n.phase # "inserted"
    OBVIOUS
  <1> HIDE DEF n
  <1>3. /\ boot' = [c \in Boot |-> boot'[c]]
        /\ \A c \in Boot : boot'[c] = IF c = b THEN n ELSE boot[c]
        /\ \A e \in Email : holder'[e] = IF e = AdminEmail THEN b ELSE holder[e]
    BY <1>1 DEF AccountInv, BootInv
  <1>4. \A c \in Boot : opened[c] = 0 /\ (boot[c].phase \in {"counted", "inserted"} => c = b)
    BY <1>1 DEF AccountInv, BootInv
  <1>5. \A c \in Boot : c # b => opened'[c] = 0
    BY <1>1, <1>4 DEF RowsOK, Count
  <1>6. BootInv'
    <2>1. holder' \in [Email -> Origin \cup {Nobody}] /\ AdminEmail \in Email
      BY <1>1, RegistrationAssumption DEF AccountInv, BootInv, Origin
    <2> QED
      BY <1>2, <1>3, <1>4, <1>5, <2>1 DEF AccountInv, BootInv
  <1>7. FreshInv'
    <2>1. \A k \in Job : job[k].phase = "inserted" => job[k].email \in Email /\ job[k].email # AdminEmail
      BY <1>1 DEF JobsOK, Formed, Held, Bound, AccountInv, FreshInv
    <2> QED
      BY <1>1, <1>2, <1>3, <1>4, <2>1 DEF AccountInv, FreshInv
  <1> QED
    BY <1>6, <1>7 DEF AccountInv
-----------------------------------------------------------------------------
LEMMA InitIInv == Init => IInv
  <1> SUFFICES ASSUME Init PROVE IInv
    OBVIOUS
  <1>1. \A j \in Job : job[j] = Idle
    BY DEF Init
  <1>2. RowsOK
    BY DEF Init, RowsOK
  <1>3. JobsOK
    BY <1>1, IdleFormed DEF Init, JobsOK
  <1>4. ExistInv /\ HoldInv /\ InvalidForGood
    BY <1>1, IdleFormed DEF ExistInv, HoldInv, InvalidForGood, Held
  <1>5. OneAccountPerInvitation
    BY DEF Init, OneAccountPerInvitation
  <1>6. BootInv /\ FreshInv
    BY <1>1, IdleFormed DEF Init, BootInv, FreshInv, Idle
  <1> QED
    BY <1>2, <1>3, <1>4, <1>5, <1>6 DEF IInv, InvitationInv, AccountInv

\* A request of a page goes on, short of its insert.
LEMMA RequestStep ==
  ASSUME IInv, NEW j \in Job, NEW q, Formed(q), q.phase # "inserted",
         q.phase # "idle" /\ q.origin \in Invitation => invitations[q.origin] # NoInvitation,
         q.phase = "locked" /\ q.origin \in Invitation => ~Locked(q.origin) /\ Pending(q.origin),
         q.phase \in {"invalid", "gone"} => ~Pending(q.origin),
         job' = [job EXCEPT ![j] = q], UNCHANGED <<now, invitations, opened, holder, boot>>
  PROVE  IInv'
  <1>1. InvitationInv'
    BY JobStep DEF IInv, Held
  <1>2. \A k \in Job : job'[k] = IF k = j THEN q ELSE job[k]
    BY DEF IInv, InvitationInv, JobsOK
  <1>3. AccountInv'
    BY <1>2, JobsAside DEF IInv
  <1> QED
    BY <1>1, <1>3 DEF IInv

\* What a page shows again is formed like what it showed.
LEMMA Formats ==
  /\ \A o \in Origin : Formed(Form(o)) /\ Form(o).phase = "form" /\ Form(o).origin = o
  /\ \A i \in Invitation, p \in {"begun", "invalid", "gone"} : Formed([phase |-> p, origin |-> i])
  /\ \A o \in Origin, e \in Email : Formed([phase |-> "locked", origin |-> o, email |-> e])
  /\ \A o \in Origin : \A n : Formed([phase |-> "refused", origin |-> o, recent |-> n])
  /\ Self \in Origin /\ Managed \in Origin /\ Invitation \subseteq Origin
  /\ Self \notin Invitation /\ Managed \notin Invitation
  BY RegistrationAssumption DEF Formed, Form, Phases, Held, Bound, Origin

LEMMA RequestsKeepIInv ==
  ASSUME IInv, NEW j \in Job,
         \/ OpenInvitation(j) \/ OpenPage(j) \/ SubmitInvitation(j) \/ SubmitRegistration(j)
         \/ Leave(j) \/ CreateManagedUser(j) \/ Lock(j) \/ Rollback(j)
  PROVE  IInv'
  <1>0. /\ Formed(job[j])
        /\ job[j].phase # "idle" => job[j].origin \in Origin
        /\ job[j].phase # "idle" /\ job[j].origin \in Invitation => invitations[job[j].origin] # NoInvitation
    BY DEF IInv, InvitationInv, JobsOK, Formed, ExistInv
  <1>1. CASE OpenInvitation(j)
    <2>1. PICK i \in Invitation :
            /\ invitations[i] # NoInvitation /\ Invitations
            /\ job' = [job EXCEPT ![j] =
                 IF ValidInvitation(i) THEN Form(i) ELSE [phase |-> "gone", origin |-> i]]
      BY <1>1 DEF OpenInvitation
    <2>2. CASE ValidInvitation(i)
      BY <1>1, <2>1, <2>2, Formats, RequestStep DEF OpenInvitation
    <2>3. CASE ~ValidInvitation(i)
      <3> DEFINE q == [phase |-> "gone", origin |-> i]
      <3>1. Formed(q) /\ q.phase = "gone" /\ q.origin = i /\ ~Pending(i) /\ job' = [job EXCEPT ![j] = q]
        BY <2>1, <2>3, Formats DEF ValidInvitation
      <3> HIDE DEF q
      <3> QED
        BY <1>1, <2>1, <3>1, RequestStep DEF OpenInvitation
    <2> QED
      BY <2>2, <2>3
  <1>2. CASE OpenPage(j)
    BY <1>2, Formats, RequestStep DEF OpenPage
  <1>3. ASSUME NEW r, NEW k, NEW q, Filled(j), Admit(j, r, k, q), Formed(q),
               q.phase \in {"form", "begun", "locked"},
               q.origin = job[j].origin, q.phase = "locked" => q.origin = Self,
               UNCHANGED <<now, holder, invitations, opened, boot>>
        PROVE  IInv'
    <2> DEFINE x == [phase |-> "refused", origin |-> job[j].origin, recent |-> Recent(r, k)]
    <2>1. job' = [job EXCEPT ![j] = q] \/ job' = [job EXCEPT ![j] = x]
      BY <1>3 DEF Admit
    <2>2. job[j].phase # "idle"
      BY <1>3 DEF Filled
    <2>3. Formed(x) /\ x.phase = "refused" /\ x.origin = job[j].origin
      BY <1>0, <2>2, Formats
    <2> HIDE DEF x
    <2>4. CASE job' = [job EXCEPT ![j] = q]
      BY <1>0, <1>3, <2>2, <2>4, Formats, RequestStep
    <2>5. CASE job' = [job EXCEPT ![j] = x]
      BY <1>0, <1>3, <2>2, <2>3, <2>5, RequestStep
    <2> QED
      BY <2>1, <2>4, <2>5
  <1>4. CASE SubmitInvitation(j)
    <2> DEFINE i == job[j].origin
    <2>1. PICK a \in Address : Admit(j, "invitation", ClientKey(a), Accepting(i))
      BY <1>4 DEF SubmitInvitation
    <2>2. i \in Invitation /\ Filled(j) /\ UNCHANGED <<now, holder, invitations, opened, boot>>
      BY <1>4 DEF SubmitInvitation
    <2>3. /\ Formed(Accepting(i)) /\ Accepting(i).origin = i
          /\ Accepting(i).phase \in {"form", "begun"}
      BY <2>2, Formats DEF Accepting
    <2> QED
      BY <1>3, <2>1, <2>2, <2>3
  <1>5. CASE SubmitRegistration(j)
    <2>1. PICK a \in Address, e \in Email : Admit(j, "open", ClientKey(a), Registering(e))
      BY <1>5 DEF SubmitRegistration
    <2>2. job[j].origin = Self /\ Filled(j) /\ UNCHANGED <<now, holder, invitations, opened, boot>>
      BY <1>5 DEF SubmitRegistration
    <2>3. /\ Formed(Registering(e)) /\ Registering(e).origin = Self
          /\ Registering(e).phase \in {"form", "locked"}
      BY <2>1, Formats DEF Registering
    <2> QED
      BY <1>3, <2>1, <2>2, <2>3
  <1>6. CASE Leave(j)
    BY <1>6, IdleFormed, RequestStep DEF Leave
  <1>7. CASE CreateManagedUser(j)
    <2>1. PICK e \in Email :
            job' = [job EXCEPT ![j] = [phase |-> "locked", origin |-> Managed, email |-> e]]
      BY <1>7 DEF CreateManagedUser
    <2> DEFINE q == [phase |-> "locked", origin |-> Managed, email |-> e]
    <2>2. Formed(q) /\ q.phase = "locked" /\ q.origin = Managed /\ job' = [job EXCEPT ![j] = q]
      BY <2>1, Formats
    <2> HIDE DEF q
    <2> QED
      BY <1>7, <2>2, Formats, RequestStep DEF CreateManagedUser
  <1>8. CASE Lock(j)
    <2> DEFINE i == job[j].origin
               q == [phase |-> "locked", origin |-> i, email |-> invitations[i].email]
               x == [phase |-> "invalid", origin |-> i]
    <2>1. /\ ~Locked(i) /\ UNCHANGED <<now, invitations, opened, holder, boot>>
          /\ job' = [job EXCEPT ![j] = IF Pending(i) THEN q ELSE x]
      BY <1>8 DEF Lock, Readable
    <2>2. i \in Invitation /\ invitations[i] # NoInvitation
      BY <1>0, <1>8 DEF Lock, Formed
    <2>3. invitations[i].email \in Email
      BY <2>2 DEF IInv, InvitationInv, RowsOK, Row
    <2>4. /\ Formed(q) /\ q.phase = "locked" /\ q.origin = i
          /\ Formed(x) /\ x.phase = "invalid" /\ x.origin = i
      BY <2>2, <2>3, Formats
    <2> HIDE DEF q, x
    <2>5. CASE Pending(i)
      BY <2>1, <2>2, <2>4, <2>5, RequestStep
    <2>6. CASE ~Pending(i)
      BY <2>1, <2>2, <2>4, <2>6, RequestStep
    <2> QED
      BY <2>5, <2>6
  <1>9. CASE Rollback(j)
    <2>1. Working(j) /\ job[j].phase # "idle" /\ job' = [job EXCEPT ![j] = Back(j)]
      BY <1>9 DEF Rollback, Working
    <2>2. /\ Formed(Back(j)) /\ Back(j).phase \in {"idle", "form"}
          /\ Back(j).phase # "idle" => Back(j).origin = job[j].origin
      BY <1>0, <2>1, IdleFormed, Formats DEF Back
    <2> QED
      BY <1>0, <1>9, <2>1, <2>2, RequestStep DEF Rollback
  <1> QED
    BY <1>1, <1>2, <1>4, <1>5, <1>6, <1>7, <1>8, <1>9

LEMMA InsertKeepsIInv ==
  ASSUME IInv, NEW j \in Job, Insert(j)
  PROVE  IInv'
  <1>1. /\ Formed(job[j]) /\ job[j] \in Bound /\ job[j].origin \in Origin
        /\ job[j].origin \in Invitation => invitations[job[j].origin] # NoInvitation
    BY DEF Insert, IInv, InvitationInv, JobsOK, Formed, Held, Bound, ExistInv
  <1>2. CASE job[j].email \in Users
    <2>1. /\ Formed(Back(j)) /\ Back(j).phase \in {"idle", "form"}
          /\ Back(j).phase # "idle" => Back(j).origin = job[j].origin
      BY <1>1, IdleFormed, Formats DEF Back
    <2> QED
      BY <1>1, <1>2, <2>1, RequestStep DEF Insert
  <1>3. CASE job[j].email \notin Users
    <2> DEFINE n == [job[j] EXCEPT !.phase = "inserted"]
    <2>1. n.phase = "inserted" /\ n.origin = job[j].origin /\ Formed(n)
      BY <1>1 DEF Bound, Formed, Phases, Held
    <2>2. /\ job[j].phase \in Held /\ job' = [job EXCEPT ![j] = n]
          /\ UNCHANGED <<now, invitations, opened>>
      BY <1>3 DEF Insert, Held
    <2> HIDE DEF n
    <2>3. InvitationInv'
      BY <1>1, <2>1, <2>2, JobStep DEF IInv
    <2> QED
      BY <2>3, InsertStep DEF IInv, InvitationInv
  <1> QED
    BY <1>2, <1>3

LEMMA CommitsKeepIInv ==
  ASSUME IInv, NEW j \in Job, CommitInvitation(j) \/ CommitRegistration(j) \/ CommitManaged(j)
  PROVE  IInv'
  <1>1. JobsOK /\ RowsOK /\ AccountInv /\ Commits(j)
    BY DEF IInv, InvitationInv, CommitInvitation, CommitRegistration, CommitManaged
  <1>2. CASE CommitInvitation(j)
    <2>1. job[j].origin \in Invitation /\ opened' = Count(job[j].origin) /\ boot' = boot
      BY <1>2 DEF CommitInvitation
    <2>2. job[j].origin \notin Boot /\ \A b \in Boot : opened'[b] = opened[b]
      BY <1>1, <2>1, RegistrationAssumption DEF RowsOK, Count
    <2>3. AccountInv'
      BY <1>1, <2>1, <2>2, CommitStep
    <2> QED
      BY <1>2, <2>3, AcceptStep DEF IInv
  <1>3. CASE CommitRegistration(j) \/ CommitManaged(j)
    <2>1. /\ job[j].origin \in {Self, Managed} /\ job' = [job EXCEPT ![j] = Idle]
          /\ UNCHANGED <<now, invitations, opened, boot>>
      BY <1>3 DEF CommitRegistration, CommitManaged, Commits
    <2>2. InvitationInv'
      BY <2>1, IdleFormed, JobStep DEF IInv, Held
    <2>3. AccountInv'
      BY <1>1, <2>1, CommitStep, RegistrationAssumption
    <2> QED
      BY <2>2, <2>3 DEF IInv
  <1> QED
    BY <1>2, <1>3

LEMMA RowsKeepIInv ==
  ASSUME IInv, NEW i \in Invitation, CreateInvitation(i) \/ RevokeInvitation(i)
  PROVE  IInv'
  <1>1. UNCHANGED <<now, opened, holder, job, boot>>
    BY DEF CreateInvitation, RevokeInvitation
  <1>2. AccountInv'
    BY <1>1, JobsAside DEF IInv
  <1>3. CASE CreateInvitation(i)
    <2>1. PICK e \in Email, x \in Expirations :
            invitations' = [invitations EXCEPT ![i] =
              [email |-> e, expires |-> x, accepted |-> FALSE, revoked |-> FALSE]]
      BY <1>3 DEF CreateInvitation
    <2> DEFINE row == [email |-> e, expires |-> x, accepted |-> FALSE, revoked |-> FALSE]
    <2>2. row \in Row /\ ~row.accepted /\ ~row.revoked /\ invitations' = [invitations EXCEPT ![i] = row]
      BY <2>1, RegistrationAssumption DEF Row
    <2>3. invitations[i] = NoInvitation
      BY <1>3 DEF CreateInvitation
    <2>4. ~Locked(i)
      BY <2>3 DEF Locked, IInv, InvitationInv, ExistInv
    <2> HIDE DEF row
    <2> QED
      BY <1>1, <1>2, <2>2, <2>3, <2>4, RowStep DEF IInv
  <1>4. CASE RevokeInvitation(i)
    <2> DEFINE row == [invitations[i] EXCEPT !.revoked = TRUE]
    <2>1. /\ invitations[i] # NoInvitation /\ ~Locked(i) /\ ~invitations[i].accepted
          /\ invitations' = [invitations EXCEPT ![i] = row]
      BY <1>4 DEF RevokeInvitation
    <2>2. row \in Row /\ ~row.accepted /\ row.revoked
      BY <2>1 DEF IInv, InvitationInv, RowsOK, Row
    <2> HIDE DEF row
    <2> QED
      BY <1>1, <1>2, <2>1, <2>2, RowStep DEF IInv
  <1> QED
    BY <1>3, <1>4

LEMMA NextIInv == IInv /\ [Next]_vars => IInv'
  <1> SUFFICES ASSUME IInv, [Next]_vars PROVE IInv'
    OBVIOUS
  <1>0. InvitationInv /\ AccountInv /\ JobsOK /\ RowsOK /\ now \in Nat
    BY DEF IInv, InvitationInv, RowsOK
  <1>1. CASE Tick
    <2>1. now' = now + 1 /\ UNCHANGED <<invitations, opened, job, holder, boot>>
      BY <1>1 DEF Tick
    <2>2. InvitationInv'
      BY <1>0, <2>1, TimeStep
    <2> QED
      BY <1>0, <2>1, <2>2, JobsAside DEF IInv
  <1>2. CASE Restart
    <2>1. /\ UNCHANGED <<opened, holder, boot>>
          /\ \A k \in Job : job'[k] = IF Working(k) THEN Idle ELSE job[k]
      BY <1>2 DEF Restart
    <2>2. AccountInv'
      BY <1>0, <2>1, IdleFormed, JobsAside
    <2> QED
      BY <1>0, <1>2, <2>2, RestartStep DEF IInv
  <1>3. ASSUME NEW b \in Boot, BootCount(b) \/ BootInsert(b) \/ BootCrash(b)
        PROVE  IInv'
    <2>1. InvitationInv'
      BY <1>0, <1>3, TimeStep DEF BootCount, BootInsert, BootCrash
    <2> QED
      BY <1>0, <1>3, <2>1, BootAside DEF IInv
  <1>4. ASSUME NEW b \in Boot, BootCommit(b) PROVE IInv'
    <2>1. InvitationInv'
      BY <1>0, <1>4, BootStep DEF BootCommit
    <2> QED
      BY <1>0, <1>4, <2>1, BootCommitStep DEF IInv
  <1>5. ASSUME NEW e \in Email, ChangeEmail(e) \/ DeleteUser(e) PROVE IInv'
    <2>1. InvitationInv'
      BY <1>0, <1>5, TimeStep DEF ChangeEmail, DeleteUser
    <2> QED
      BY <1>0, <1>5, <2>1, EmailStep, DeletionStep DEF IInv
  <1>6. CASE UNCHANGED vars
    <2>1. InvitationInv'
      BY <1>0, <1>6, TimeStep DEF vars
    <2> QED
      BY <1>0, <1>6, <2>1, JobsAside DEF IInv, vars
  <1>7. CASE Next
    BY <1>1, <1>2, <1>3, <1>4, <1>5, <1>7, RowsKeepIInv, RequestsKeepIInv, InsertKeepsIInv,
       CommitsKeepIInv DEF Next
  <1> QED
    BY <1>6, <1>7

\* The invariant that the theorems below rest on.
THEOREM AlwaysIInv == Spec => []IInv
  BY InitIInv, NextIInv, PTL DEF Spec
-----------------------------------------------------------------------------
(* What it gives.                                                          *)

\* An invitation opens one account at most, is accepted exactly when it has, and
\* a revoked one never does (src/modules/identity/invitations.ts:196-205).
THEOREM OneAccount == Spec => []OneAccountPerInvitation
  <1>1. IInv => OneAccountPerInvitation
    BY DEF IInv, InvitationInv
  <1> QED
    BY <1>1, AlwaysIInv, PTL

\* What the page or the form of an invitation calls invalid never will be valid
\* again: no attempt that may yet fail has it marked (src/modules/identity/invitations.ts:180).
THEOREM InvalidStays == Spec => []InvalidForGood
  <1>1. IInv => InvalidForGood
    BY DEF IInv, InvitationInv
  <1> QED
    BY <1>1, AlwaysIInv, PTL

\* However the runs of the migration script overlap, die and start over, one
\* creates the account with the published password (src/modules/identity/bootstrap.ts:13-15).
THEOREM FirstAdministrator == Spec => []OneInitialAdministrator
  <1>1. ASSUME IInv PROVE OneInitialAdministrator
    <2> DEFINE S == {b \in Boot : opened[b] > 0}
    <2>1. \A b, c \in S : b = c
      BY <1>1 DEF IInv, AccountInv, BootInv
    <2>2. S = {} \/ \E b : S = {b}
      <3>1. CASE S # {}
        <4>1. PICK b : b \in S
          BY <3>1
        <4>2. S = {b}
          BY <2>1, <4>1
        <4> QED
          BY <4>2
      <3> QED
        BY <3>1
    <2>3. Cardinality(S) <= 1
      <3>1. CASE S = {}
        BY <3>1, FS_EmptySet
      <3>2. ASSUME NEW b, S = {b} PROVE Cardinality(S) <= 1
        BY <3>2, FS_Singleton
      <3> QED
        BY <2>2, <3>1, <3>2
    <2> QED
      BY <2>3 DEF OneInitialAdministrator, Quantify
  <1>2. IInv => OneInitialAdministrator
    BY <1>1
  <1> QED
    BY <1>2, AlwaysIInv, PTL
-----------------------------------------------------------------------------
(* The limiter.                                                            *)

\* The requests of a client, told by tick and number, that were let through
\* since tick t, of what the history says of it.
Since(a, t) == {p \in Time \X (1..Maximum) : p[1] >= t /\ p[2] <= a[p[1]]}

\* A map of a limiter and the history of the same: the keys of its windows
\* differ, and each open window has counted no more than was let through since.
Keyed(s) == \A m, n \in DOMAIN s : s[m].key = s[n].key => m = n
CountsOK(s, a, t) ==
  \A n \in DOMAIN s :
    ~Over(s[n], t) =>
      /\ s[n].resetsAt - Window \in 0..t
      /\ s[n].count <= Cardinality(Since(a[s[n].key], s[n].resetsAt - Window))
Map(s, a, t) == s \in Seq(Entry) /\ Len(s) <= MaxEntries /\ Keyed(s) /\ CountsOK(s, a, t)

LimiterInv ==
  /\ now \in Time
  /\ allowedAt \in [Route -> [Key -> [Time -> 0..Maximum]]]
  /\ entries \in [Route -> Seq(Entry)]
  /\ \A r \in Route : Map(entries[r], allowedAt[r], now)
  /\ NotBlockedBelowLimit
-----------------------------------------------------------------------------
\* The smaller of two numbers, as the community modules define it.
LEMMA LeastOf ==
  ASSUME NEW a \in Nat, NEW b \in Nat
  PROVE  Min({a, b}) = IF a <= b THEN a ELSE b
  BY DEF Min

\* The cardinality of an interval.
LEMMA UpTo == \A n \in Nat : IsFiniteSet(1..n) /\ Cardinality(1..n) = n
  BY FS_Interval

\* What is counted can be counted.
LEMMA SinceFinite ==
  ASSUME NEW a, NEW t
  PROVE  IsFiniteSet(Since(a, t)) /\ Cardinality(Since(a, t)) \in Nat
  <1>1. IsFiniteSet(Time) /\ IsFiniteSet(1..Maximum)
    BY FS_Interval, RegistrationAssumption, LimiterAssumption DEF Time
  <1>2. IsFiniteSet(Time \X (1..Maximum))
    BY <1>1, FS_Product
  <1>3. Since(a, t) \in SUBSET (Time \X (1..Maximum))
    BY DEF Since
  <1> QED
    BY <1>2, <1>3, FS_Subset, FS_CardinalityType

\* Counting more history counts no less.
LEMMA SinceGrows ==
  ASSUME NEW a, NEW b, NEW t, NEW u, Since(a, t) \subseteq Since(b, u)
  PROVE  Cardinality(Since(a, t)) <= Cardinality(Since(b, u))
  BY SinceFinite, FS_Subset

\* The history of one tick at its maximum.
LEMMA SinceFull ==
  ASSUME NEW a, NEW t, NEW u \in Time, u >= t, a[u] = Maximum
  PROVE  Maximum <= Cardinality(Since(a, t))
  <1> DEFINE f == [n \in 1..Maximum |-> <<u, n>>]
  <1>0. Maximum \in Nat
    BY LimiterAssumption
  <1>1. f \in Injection(1..Maximum, Since(a, t))
    <2>1. \A n \in 1..Maximum : <<u, n>> \in Since(a, t)
      BY <1>0 DEF Since
    <2> QED
      BY <2>1 DEF Injection, IsInjective
  <1>2. Cardinality(1..Maximum) = Maximum /\ IsFiniteSet(1..Maximum)
    BY <1>0, FS_Interval
  <1> QED
    BY <1>1, <1>2, SinceFinite, FS_Injection

\* One more request of the present tick adds one to what was let through since.
LEMMA SinceAdds ==
  ASSUME NEW a \in [Time -> 0..Maximum], NEW t \in Nat, NEW u \in Time, u >= t, a[u] < Maximum,
         NEW b, b = [a EXCEPT ![u] = a[u] + 1]
  PROVE  Cardinality(Since(b, t)) = Cardinality(Since(a, t)) + 1
  <1> DEFINE x == <<u, a[u] + 1>>
  <1>0. Maximum \in Nat /\ Time \subseteq Nat /\ a[u] \in 0..Maximum
    BY LimiterAssumption, RegistrationAssumption DEF Time
  <1>1. x \notin Since(a, t)
    BY <1>0 DEF Since
  <1>2. Since(b, t) = Since(a, t) \cup {x}
    <2>1. ASSUME NEW v \in Time, NEW n \in 1..Maximum
          PROVE  <<v, n>> \in Since(b, t) <=> <<v, n>> \in Since(a, t) \/ <<v, n>> = x
      <3>1. v = u => b[v] = a[u] + 1
        OBVIOUS
      <3>2. v # u => b[v] = a[v]
        OBVIOUS
      <3> QED
        BY <1>0, <3>1, <3>2 DEF Since
    <2>2. x \in Time \X (1..Maximum)
      BY <1>0
    <2>3. \A y \in Time \X (1..Maximum) : y[1] \in Time /\ y[2] \in 1..Maximum /\ y = <<y[1], y[2]>>
      OBVIOUS
    <2>4. Since(a, t) \subseteq Time \X (1..Maximum) /\ Since(b, t) \subseteq Time \X (1..Maximum)
      BY DEF Since
    <2> HIDE DEF x
    <2>5. ASSUME NEW y PROVE y \in Since(b, t) <=> y \in Since(a, t) \cup {x}
      <3>1. CASE y \in Time \X (1..Maximum)
        <4>1. y[1] \in Time /\ y[2] \in 1..Maximum /\ y = <<y[1], y[2]>>
          BY <2>3, <3>1
        <4> QED
          BY <2>1, <4>1
      <3>2. CASE y \notin Time \X (1..Maximum)
        BY <2>2, <2>4, <3>2
      <3> QED
        BY <3>1, <3>2
    <2> QED
      BY <2>5
  <1> HIDE DEF x
  <1> QED
    BY <1>1, <1>2, SinceFinite, FS_AddElement
-----------------------------------------------------------------------------
(* What is left of a map.                                                  *)

\* As many entries are before one of S as its place says, and no two of S have
\* the same place.
LEMMA Places ==
  ASSUME NEW S \in SUBSET Nat, IsFiniteSet(S), NEW n \in 1..Cardinality(S)
  PROVE  \E i \in S : Cardinality({j \in S : j < i}) = n - 1
  <1> DEFINE Before(i) == {j \in S : j < i}
             R == [i \in S |-> Cardinality(Before(i)) + 1]
  <1>1. Cardinality(S) \in Nat
    BY FS_CardinalityType
  <1>2. \A i \in S : IsFiniteSet(Before(i)) /\ Cardinality(Before(i)) \in 0..(Cardinality(S) - 1)
    <2> TAKE i \in S
    <2>1. Before(i) \in SUBSET (S \ {i})
      OBVIOUS
    <2>2. IsFiniteSet(S \ {i}) /\ Cardinality(S \ {i}) = Cardinality(S) - 1
      BY FS_RemoveElement
    <2> QED
      BY <1>1, <2>1, <2>2, FS_Subset, FS_CardinalityType
  <1>3. \A i, k \in S : i < k => Cardinality(Before(i)) < Cardinality(Before(k))
    <2> SUFFICES ASSUME NEW i \in S, NEW k \in S, i < k
                 PROVE  Cardinality(Before(i)) < Cardinality(Before(k))
      OBVIOUS
    <2>0. S \subseteq Nat /\ i \in Nat /\ k \in Nat
      OBVIOUS
    <2>1. Before(i) \in SUBSET (Before(k) \ {i}) /\ i \in Before(k)
      <3>1. i \in Before(k)
        OBVIOUS
      <3>2. \A j \in Before(i) : j \in Nat /\ j \in S /\ j < k /\ j # i
        BY <2>0
      <3> QED
        BY <3>1, <3>2
    <2>2. /\ IsFiniteSet(Before(k) \ {i})
          /\ Cardinality(Before(k) \ {i}) = Cardinality(Before(k)) - 1
      BY <1>2, <2>1, FS_RemoveElement
    <2>3. Cardinality(Before(i)) <= Cardinality(Before(k) \ {i})
      BY <2>1, <2>2, FS_Subset
    <2>4. Cardinality(Before(i)) \in Nat /\ Cardinality(Before(k)) \in Nat
      BY <1>2
    <2> QED
      BY <2>2, <2>3, <2>4
  <1>4. R \in Injection(S, 1..Cardinality(S))
    <2>1. R \in [S -> 1..Cardinality(S)]
      BY <1>1, <1>2
    <2>2. ASSUME NEW i \in S, NEW k \in S, R[i] = R[k] PROVE i = k
      <3>1. Cardinality(Before(i)) = Cardinality(Before(k)) /\ Cardinality(Before(i)) \in Nat
        BY <1>2, <2>2
      <3>2. ~(i < k) /\ ~(k < i)
        BY <1>3, <3>1
      <3> QED
        BY <3>2
    <2> QED
      BY <2>1, <2>2 DEF Injection, IsInjective
  <1>5. IsFiniteSet(1..Cardinality(S)) /\ Cardinality(1..Cardinality(S)) = Cardinality(S)
    BY <1>1, FS_Interval
  <1>6. R \in Surjection(S, 1..Cardinality(S))
    BY <1>4, <1>5, FS_Injection
  <1>7. PICK i \in S : R[i] = n
    BY <1>6 DEF Surjection
  <1>8. Cardinality(Before(i)) + 1 = n /\ Cardinality(Before(i)) \in Nat
    BY <1>2, <1>7
  <1> QED
    BY <1>8

\* What is left has the entries at S, each once.
LEMMA KeptIs ==
  ASSUME NEW s \in Seq(Entry), NEW S \in SUBSET (DOMAIN s)
  PROVE  /\ Kept(s, S) \in Seq(Entry) /\ Len(Kept(s, S)) = Cardinality(S) /\ Cardinality(S) <= Len(s)
         /\ \E at \in [1..Cardinality(S) -> S] :
              /\ \A n \in 1..Cardinality(S) : Kept(s, S)[n] = s[at[n]]
              /\ \A m, n \in 1..Cardinality(S) : at[m] = at[n] => m = n
  <1> DEFINE N == Cardinality(S)
             at == [n \in 1..N |-> CHOOSE i \in S : Cardinality({j \in S : j < i}) = n - 1]
  <1>1. DOMAIN s = 1..Len(s) /\ Len(s) \in Nat
    OBVIOUS
  <1>2. IsFiniteSet(DOMAIN s) /\ Cardinality(DOMAIN s) = Len(s)
    <2>1. IsFiniteSet(1..Len(s)) /\ Cardinality(1..Len(s)) = Len(s)
      BY <1>1, UpTo
    <2> QED
      BY <1>1, <2>1
  <1>3. IsFiniteSet(S) /\ N \in Nat /\ N <= Len(s)
    BY <1>2, FS_Subset, FS_CardinalityType
  <1>4. S \in SUBSET Nat
    BY <1>1
  <1>5. \A n \in 1..N : at[n] \in S /\ Cardinality({j \in S : j < at[n]}) = n - 1
    BY <1>3, <1>4, Places
  <1>6. \A m, n \in 1..N : at[m] = at[n] => m = n
    <2> HIDE DEF at, N
    <2> SUFFICES ASSUME NEW m \in 1..N, NEW n \in 1..N, at[m] = at[n] PROVE m = n
      OBVIOUS
    <2>1. m - 1 = n - 1
      BY <1>5
    <2> QED
      BY <2>1, <1>3
  <1>7. at \in [1..N -> S]
    BY <1>5
  <1>8. Kept(s, S) = [n \in 1..N |-> s[at[n]]]
    BY DEF Kept
  <1> HIDE DEF at, N
  <1>9. \A n \in 1..N : s[at[n]] \in Entry
    <2>1. \A i \in DOMAIN s : s[i] \in Entry
      OBVIOUS
    <2> QED
      BY <1>5, <2>1
  <1>10. Kept(s, S) \in [1..N -> Entry]
    BY <1>8, <1>9
  <1>11. Kept(s, S) \in Seq(Entry) /\ Len(Kept(s, S)) = N
    BY <1>3, <1>10
  <1> QED
    BY <1>3, <1>6, <1>7, <1>8, <1>11 DEF N

\* Deleting windows leaves a map that agrees with the history.
LEMMA KeptMap ==
  ASSUME NEW s, NEW a, NEW t, Map(s, a, t), NEW S \in SUBSET (DOMAIN s)
  PROVE  /\ Map(Kept(s, S), a, t) /\ Len(Kept(s, S)) = Cardinality(S)
         /\ \A n \in DOMAIN Kept(s, S) : \E i \in S : Kept(s, S)[n] = s[i]
  <1>1. s \in Seq(Entry) /\ Len(s) <= MaxEntries /\ Len(s) \in Nat
    BY DEF Map
  <1> DEFINE N == Cardinality(S)
             K == Kept(s, S)
  <1>2. /\ K \in Seq(Entry) /\ Len(K) = N /\ N <= Len(s)
        /\ \E at \in [1..N -> S] :
             /\ \A n \in 1..N : K[n] = s[at[n]]
             /\ \A m, n \in 1..N : at[m] = at[n] => m = n
    BY <1>1, KeptIs
  <1>3. PICK at \in [1..N -> S] :
          /\ \A n \in 1..N : K[n] = s[at[n]]
          /\ \A m, n \in 1..N : at[m] = at[n] => m = n
    BY <1>2
  <1> HIDE DEF K
  <1>4. DOMAIN K = 1..N /\ N \in Nat
    BY <1>2
  <1>5. \A n \in 1..N : at[n] \in S /\ at[n] \in DOMAIN s /\ K[n] = s[at[n]]
    BY <1>3
  <1>6. Keyed(K)
    BY <1>3, <1>4, <1>5 DEF Map, Keyed
  <1>7. CountsOK(K, a, t)
    BY <1>4, <1>5 DEF Map, CountsOK
  <1>8. Len(K) <= MaxEntries
    BY <1>1, <1>2, <1>4, LimiterAssumption
  <1> QED
    BY <1>2, <1>4, <1>5, <1>6, <1>7, <1>8 DEF Map, K

\* After the sweep there is room for one more window.
Room(s, a, t) ==
  /\ Map(MakeRoom(s, t), a, t) /\ Len(MakeRoom(s, t)) < MaxEntries
  /\ \A n \in DOMAIN MakeRoom(s, t) : \E i \in DOMAIN s : MakeRoom(s, t)[n] = s[i]
LEMMA RoomIs ==
  ASSUME NEW s, NEW a, NEW t, Map(s, a, t)
  PROVE  Room(s, a, t)
  <1>1. CASE Len(s) < MaxEntries
    BY <1>1 DEF MakeRoom, Room
  <1>2. CASE ~(Len(s) < MaxEntries)
    <2> DEFINE open == {i \in DOMAIN s : ~Over(s[i], t)}
               After(i) == {j \in open : j >= i}
               S == {i \in open : Cardinality(After(i)) < MaxEntries}
    <2>1. s \in Seq(Entry) /\ Len(s) \in Nat /\ DOMAIN s = 1..Len(s)
      BY DEF Map
    <2>2. S \in SUBSET (DOMAIN s) /\ S \subseteq Nat /\ open \subseteq Nat
      BY <2>1
    <2>3. IsFiniteSet(open) /\ IsFiniteSet(S) /\ Cardinality(S) \in Nat
      <3>1. IsFiniteSet(DOMAIN s)
        BY <2>1, UpTo
      <3>2. open \in SUBSET (DOMAIN s)
        OBVIOUS
      <3> QED
        BY <2>2, <3>1, <3>2, FS_Subset, FS_CardinalityType
    <2>4. \A i \in open : IsFiniteSet(After(i)) /\ Cardinality(After(i)) \in Nat \ {0}
      <3> TAKE i \in open
      <3>1. After(i) \in SUBSET open /\ i \in After(i)
        BY <2>2
      <3> QED
        BY <2>3, <3>1, FS_Subset, FS_CardinalityType, FS_EmptySet
    <2>5. \A i, k \in open : i < k => Cardinality(After(k)) < Cardinality(After(i))
      <3> SUFFICES ASSUME NEW i \in open, NEW k \in open, i < k
                   PROVE  Cardinality(After(k)) < Cardinality(After(i))
        OBVIOUS
      <3>1. After(k) \in SUBSET (After(i) \ {i})
        <4>1. \A j \in After(k) : j \in Nat /\ j \in open /\ j >= i /\ j # i
          BY <2>2
        <4> QED
          BY <4>1
      <3>2. i \in After(i)
        BY <2>2
      <3>3. /\ IsFiniteSet(After(i) \ {i})
            /\ Cardinality(After(i) \ {i}) = Cardinality(After(i)) - 1
        BY <2>4, <3>2, FS_RemoveElement
      <3>4. Cardinality(After(k)) <= Cardinality(After(i) \ {i})
        BY <3>1, <3>3, FS_Subset
      <3> QED
        BY <2>4, <3>3, <3>4
    <2> DEFINE R == [i \in S |-> Cardinality(After(i))]
    <2>6. R \in Injection(S, 1..(MaxEntries - 1))
      <3>1. R \in [S -> 1..(MaxEntries - 1)]
        BY <2>4, LimiterAssumption
      <3>2. ASSUME NEW i \in S, NEW k \in S, R[i] = R[k] PROVE i = k
        <4>1. i \in open /\ k \in open /\ i \in Nat /\ k \in Nat
          BY <2>2
        <4>2. Cardinality(After(i)) = Cardinality(After(k)) /\ Cardinality(After(i)) \in Nat
          BY <2>4, <3>2
        <4>3. ~(i < k) /\ ~(k < i)
          BY <2>5, <4>1, <4>2
        <4> QED
          BY <4>1, <4>3
      <3> QED
        BY <3>1, <3>2 DEF Injection, IsInjective
    <2>7. Cardinality(S) <= MaxEntries - 1
      <3>1. MaxEntries - 1 \in Nat
        BY LimiterAssumption
      <3>2. IsFiniteSet(1..(MaxEntries - 1)) /\ Cardinality(1..(MaxEntries - 1)) = MaxEntries - 1
        BY <3>1, UpTo
      <3> QED
        BY <2>3, <2>6, <3>2, FS_Injection
    <2>8. MakeRoom(s, t) = Kept(s, S)
      BY <1>2 DEF MakeRoom
    <2> HIDE DEF S, R
    <2>9. /\ Map(Kept(s, S), a, t) /\ Len(Kept(s, S)) = Cardinality(S)
          /\ \A n \in DOMAIN Kept(s, S) : \E i \in S : Kept(s, S)[n] = s[i]
      BY <2>2, KeptMap
    <2> QED
      BY <2>2, <2>3, <2>7, <2>8, <2>9, LimiterAssumption DEF Room
  <1> QED
    BY <1>1, <1>2

\* One more request in a window that has room for it.
LEMMA OneMore ==
  ASSUME NEW e \in Entry, ~(e.count >= Maximum), NEW x, x = [e EXCEPT !.count = e.count + 1]
  PROVE  x \in Entry /\ x.key = e.key /\ x.count = e.count + 1 /\ x.resetsAt = e.resetsAt
  BY LimiterAssumption DEF Entry

\* A request that is let through is in the history, one that is refused had its
\* client's maximum there.
Consumed(s, a, k, t, d, b) ==
  /\ d.allowed \in BOOLEAN
  /\ d.allowed => Map(d.entries, b, t) /\ b \in [Key -> [Time -> 0..Maximum]]
  /\ ~d.allowed => d.entries = s /\ Maximum <= Cardinality(Since(a[k], 0))
LEMMA ConsumeIs ==
  ASSUME NEW t \in Time, NEW a \in [Key -> [Time -> 0..Maximum]], NEW k \in Key,
         NEW s, Map(s, a, t), NEW d, d = Consume(s, k, t),
         NEW b, b = [a EXCEPT ![k][t] = Min({Maximum, a[k][t] + 1})]
  PROVE  Consumed(s, a, k, t, d, b)
  <1>1. /\ Maximum \in Nat \ {0} /\ Window \in Nat \ {0} /\ t \in Nat /\ Time \subseteq Nat
        /\ a[k][t] \in 0..Maximum
    BY LimiterAssumption, RegistrationAssumption DEF Time
  <1>2. Min({Maximum, a[k][t] + 1}) = IF a[k][t] = Maximum THEN Maximum ELSE a[k][t] + 1
    BY <1>1, LeastOf
  <1> DEFINE m == Min({Maximum, a[k][t] + 1})
             g == [a[k] EXCEPT ![t] = m]
  <1>3. m \in 0..Maximum
    BY <1>1, <1>2
  <1>4. b = [a EXCEPT ![k] = g] /\ g \in [Time -> 0..Maximum]
    BY <1>3
  <1>5. b \in [Key -> [Time -> 0..Maximum]] /\ b[k] = g /\ \A c \in Key : c # k => b[c] = a[c]
    BY <1>4
  \* What the request adds to the history.
  <1>6. ASSUME NEW u \in 0..t
        PROVE  \/ Maximum <= Cardinality(Since(g, u))
               \/ Cardinality(Since(g, u)) = Cardinality(Since(a[k], u)) + 1
    <2>1. CASE a[k][t] = Maximum
      <3>1. g[t] = Maximum
        BY <1>2, <2>1
      <3> HIDE DEF g
      <3> QED
        BY <1>1, <3>1, SinceFull
    <2>2. CASE a[k][t] # Maximum
      <3>1. g = [a[k] EXCEPT ![t] = a[k][t] + 1]
        BY <1>2, <2>2
      <3>2. a[k] \in [Time -> 0..Maximum] /\ a[k][t] < Maximum /\ u \in Nat /\ t >= u
        BY <1>1, <2>2
      <3> HIDE DEF g
      <3> QED
        BY <3>1, <3>2, SinceAdds
    <2> QED
      BY <2>1, <2>2
  <1>7. ASSUME NEW c \in Key, NEW u \in 0..t
        PROVE  Cardinality(Since(a[c], u)) <= Cardinality(Since(b[c], u))
    <2>1. CASE c = k
      <3>1. \A v \in Time : a[k][v] <= g[v]
        BY <1>1, <1>2
      <3>2. \A v \in Time : a[k][v] \in Nat /\ g[v] \in Nat
        BY <1>1, <1>4
      <3>3. Since(a[k], u) \subseteq Since(g, u)
        <4> HIDE DEF g
        <4> SUFFICES ASSUME NEW p \in Since(a[k], u) PROVE p \in Since(g, u)
          OBVIOUS
        <4>1. p \in Time \X (1..Maximum) /\ p[1] >= u /\ p[2] <= a[k][p[1]] /\ p[1] \in Time /\ p[2] \in 1..Maximum
          BY DEF Since
        <4>2. p[2] <= g[p[1]]
          <5>1. ASSUME NEW v \in Time, NEW n \in 1..Maximum, n <= a[k][v] PROVE n <= g[v]
            <6>1. a[k][v] <= g[v] /\ a[k][v] \in Nat /\ g[v] \in Nat /\ n \in Nat
              BY <1>1, <3>1, <3>2
            <6> QED
              BY <5>1, <6>1
          <5> QED
            BY <4>1, <5>1
        <4> QED
          BY <4>1, <4>2 DEF Since
      <3> HIDE DEF g
      <3> QED
        BY <1>5, <2>1, <3>3, SinceGrows
    <2>2. CASE c # k
      BY <1>5, <2>2, SinceGrows
    <2> QED
      BY <2>1, <2>2
  <1> HIDE DEF m, g
  \* The windows of the others.
  <1>8. ASSUME NEW q, Map(q, a, t) PROVE Map(q, b, t)
    <2>1. ASSUME NEW n \in DOMAIN q, ~Over(q[n], t)
          PROVE  /\ q[n].resetsAt - Window \in 0..t
                 /\ q[n].count <= Cardinality(Since(b[q[n].key], q[n].resetsAt - Window))
      <3> DEFINE u == q[n].resetsAt - Window
      <3>1. /\ q[n] \in Entry /\ u \in 0..t /\ q[n].count <= Cardinality(Since(a[q[n].key], u))
        BY <1>8, <2>1 DEF Map, CountsOK
      <3> HIDE DEF u
      <3>2. q[n].key \in Key /\ q[n].count \in Nat
        BY <3>1 DEF Entry
      <3>3. /\ Cardinality(Since(a[q[n].key], u)) <= Cardinality(Since(b[q[n].key], u))
            /\ Cardinality(Since(a[q[n].key], u)) \in Nat /\ Cardinality(Since(b[q[n].key], u)) \in Nat
        BY <1>7, <3>1, <3>2, SinceFinite
      <3>4. q[n].count <= Cardinality(Since(b[q[n].key], u))
        BY <3>1, <3>2, <3>3
      <3> QED
        BY <3>1, <3>4 DEF u
    <2> QED
      BY <1>8, <2>1 DEF Map, CountsOK
  <1>9. CASE \A i \in Entries(s, k) : Over(s[i], t)
    <2> DEFINE o == Others(s, k)
               q == MakeRoom(o, t)
               e == [key |-> k, count |-> 1, resetsAt |-> t + Window]
    <2>1. d.allowed = TRUE /\ d.entries = Append(q, e)
      BY <1>9 DEF Consume, NewWindow
    <2>2. Map(o, a, t) /\ \A n \in DOMAIN o : o[n].key # k
      <3> DEFINE S == DOMAIN s \ Entries(s, k)
      <3>1. (\A i \in S : s[i].key # k) /\ S \in SUBSET (DOMAIN s)
        BY DEF Entries
      <3>2. o = Kept(s, S)
        BY DEF Others
      <3> HIDE DEF o, S
      <3>3. /\ Map(Kept(s, S), a, t)
            /\ \A n \in DOMAIN Kept(s, S) : \E i \in S : Kept(s, S)[n] = s[i]
        BY <3>1, KeptMap
      <3> QED
        BY <3>1, <3>2, <3>3
    <2> HIDE DEF o
    <2>3. Map(q, a, t) /\ Len(q) < MaxEntries /\ \A n \in DOMAIN q : q[n].key # k
      <3>1. /\ Map(q, a, t) /\ Len(q) < MaxEntries
            /\ \A n \in DOMAIN q : \E i \in DOMAIN o : q[n] = o[i]
        <4>1. Map(o, a, t) => Room(o, a, t)
          BY RoomIs
        <4> QED
          BY <2>2, <4>1 DEF Room
      <3> HIDE DEF q
      <3> QED
        BY <2>2, <3>1
    <2> HIDE DEF q
    <2>4. Map(q, b, t) /\ q \in Seq(Entry) /\ Len(q) \in Nat
      <3>1. Map(q, b, t)
        BY <1>8, <2>3
      <3>2. q \in Seq(Entry)
        BY <3>1 DEF Map
      <3> QED
        BY <3>1, <3>2
    <2>5. e \in Entry /\ e.key = k /\ e.count = 1 /\ e.resetsAt = t + Window
      BY <1>1 DEF Entry
    <2>6. 1 <= Cardinality(Since(g, t))
      <3>1. Cardinality(Since(g, t)) \in Nat /\ Cardinality(Since(a[k], t)) \in Nat
        BY SinceFinite
      <3> QED
        BY <1>1, <1>6, <3>1
    <2> HIDE DEF e
    <2> DEFINE w == Append(q, e)
    <2>7. /\ w \in Seq(Entry) /\ Len(w) = Len(q) + 1 /\ w[Len(q) + 1] = e
          /\ \A n \in 1..Len(q) : w[n] = q[n] /\ n \in DOMAIN q
          /\ DOMAIN w = 1..(Len(q) + 1) /\ DOMAIN q = 1..Len(q)
      BY <2>4, <2>5
    <2> HIDE DEF w
    <2>8. Keyed(w)
      <3>1. \A n \in DOMAIN w : n = Len(q) + 1 \/ n \in 1..Len(q)
        BY <2>4, <2>7
      <3>2. Keyed(q)
        BY <2>4 DEF Map
      <3> QED
        BY <2>3, <2>5, <2>7, <3>1, <3>2 DEF Keyed
    <2>9. CountsOK(w, b, t)
      <3> SUFFICES ASSUME NEW n \in DOMAIN w, ~Over(w[n], t)
                   PROVE  /\ w[n].resetsAt - Window \in 0..t
                          /\ w[n].count <= Cardinality(Since(b[w[n].key], w[n].resetsAt - Window))
        BY DEF CountsOK
      <3>1. CASE n = Len(q) + 1
        <4>1. w[n] = e /\ e.resetsAt - Window = t
          BY <1>1, <2>5, <2>7, <3>1
        <4>2. t \in 0..t
          BY <1>1
        <4>3. b[e.key] = g
          BY <1>5, <2>5
        <4> QED
          BY <2>5, <2>6, <4>1, <4>2, <4>3
      <3>2. CASE n # Len(q) + 1
        <4>1. w[n] = q[n] /\ n \in DOMAIN q
          BY <2>4, <2>7, <3>2
        <4> QED
          BY <2>4, <4>1 DEF Map, CountsOK
      <3> QED
        BY <3>1, <3>2
    <2>10. Len(w) <= MaxEntries
      BY <2>3, <2>4, <2>7, LimiterAssumption
    <2> QED
      BY <1>5, <2>1, <2>7, <2>8, <2>9, <2>10 DEF Map, w, Consumed
  <1>10. CASE ~(\A i \in Entries(s, k) : Over(s[i], t))
    <2> DEFINE i == CHOOSE i \in Entries(s, k) : TRUE
    <2>1. i \in Entries(s, k) /\ i \in DOMAIN s /\ s[i].key = k
      BY <1>10 DEF Entries
    <2>2. ~Over(s[i], t)
      BY <1>10, <2>1 DEF Map, Keyed, Entries
    <2>3. d = IF s[i].count >= Maximum
              THEN [allowed |-> FALSE, entries |-> s]
              ELSE [allowed |-> TRUE, entries |-> [s EXCEPT ![i].count = @ + 1]]
      BY <1>10 DEF Consume
    <2> HIDE DEF i
    <2> DEFINE u == s[i].resetsAt - Window
    <2>4. s \in Seq(Entry) /\ s[i] \in Entry /\ s[i].count \in 1..Maximum /\ DOMAIN s = 1..Len(s) /\ Len(s) \in Nat
      <3>1. s \in Seq(Entry)
        BY DEF Map
      <3>2. s[i] \in Entry
        BY <2>1, <3>1
      <3> QED
        BY <3>1, <3>2 DEF Entry
    <2>5. u \in 0..t /\ s[i].count <= Cardinality(Since(a[k], u))
      BY <2>1, <2>2 DEF Map, CountsOK
    <2> HIDE DEF u
    <2>6. CASE s[i].count >= Maximum
      <3>1. Since(a[k], u) \subseteq Since(a[k], 0)
        <4> SUFFICES ASSUME NEW p \in Since(a[k], u) PROVE p \in Since(a[k], 0)
          OBVIOUS
        <4>1. p \in Time \X (1..Maximum) /\ p[1] \in Nat /\ p[2] <= a[k][p[1]]
          BY <1>1 DEF Since
        <4> QED
          BY <4>1 DEF Since
      <3>2. Cardinality(Since(a[k], u)) <= Cardinality(Since(a[k], 0))
        BY <3>1, SinceGrows
      <3>3. Cardinality(Since(a[k], u)) \in Nat /\ Cardinality(Since(a[k], 0)) \in Nat
        BY SinceFinite
      <3>4. Maximum <= Cardinality(Since(a[k], 0))
        BY <1>1, <2>4, <2>5, <2>6, <3>2, <3>3
      <3> QED
        BY <2>3, <2>6, <3>4 DEF Consumed
    <2>7. CASE ~(s[i].count >= Maximum)
      <3> DEFINE x == [s[i] EXCEPT !.count = s[i].count + 1]
                 w == [s EXCEPT ![i] = x]
      <3>1. d.allowed = TRUE /\ d.entries = w
        BY <2>3, <2>7
      <3>2. x \in Entry /\ x.key = k /\ x.count = s[i].count + 1 /\ x.resetsAt = s[i].resetsAt
        BY <1>1, <2>1, <2>4, <2>7, OneMore
      <3> HIDE DEF x
      <3>3. /\ w \in Seq(Entry) /\ Len(w) = Len(s) /\ DOMAIN w = DOMAIN s /\ w[i] = x
            /\ \A n \in DOMAIN s : n # i => w[n] = s[n]
        BY <2>1, <2>4, <3>2
      <3> HIDE DEF w
      <3>4. Keyed(w)
        BY <2>1, <3>2, <3>3 DEF Map, Keyed
      <3>5. x.count <= Cardinality(Since(g, u))
        <4>1. Cardinality(Since(g, u)) \in Nat /\ Cardinality(Since(a[k], u)) \in Nat
          BY SinceFinite
        <4> QED
          BY <1>1, <1>6, <2>4, <2>5, <2>7, <3>2, <4>1
      <3>6. Map(s, b, t)
        BY <1>8
      <3>7. CountsOK(w, b, t)
        <4> SUFFICES ASSUME NEW n \in DOMAIN w, ~Over(w[n], t)
                     PROVE  /\ w[n].resetsAt - Window \in 0..t
                            /\ w[n].count <= Cardinality(Since(b[w[n].key], w[n].resetsAt - Window))
          BY DEF CountsOK
        <4>1. CASE n = i
          BY <1>5, <2>5, <3>2, <3>3, <3>5, <4>1 DEF u
        <4>2. CASE n # i
          BY <3>3, <3>6, <4>2 DEF Map, CountsOK
        <4> QED
          BY <4>1, <4>2
      <3>8. Len(w) <= MaxEntries
        BY <3>3 DEF Map
      <3> QED
        BY <1>5, <3>1, <3>3, <3>4, <3>7, <3>8 DEF Map, Consumed
    <2> QED
      BY <2>6, <2>7
  <1> QED
    BY <1>9, <1>10 DEF Consumed

\* The whole history of a client.
LEMMA RecentIs ==
  ASSUME NEW r, NEW k
  PROVE  Recent(r, k) = Cardinality(Since(allowedAt[r][k], 0))
  <1>1. \A p \in Time \X (1..Maximum) : p[1] >= 0
    BY RegistrationAssumption DEF Time
  <1> QED
    BY <1>1 DEF Recent, Since

\* The steps of the system.
LEMMA InitLimiterInv == Init => LimiterInv
  <1> SUFFICES ASSUME Init PROVE LimiterInv
    OBVIOUS
  <1>1. now \in Time /\ Maximum \in Nat /\ MaxEntries \in Nat
    BY RegistrationAssumption, LimiterAssumption DEF Init, Time
  <1>2. allowedAt \in [Route -> [Key -> [Time -> 0..Maximum]]]
    BY <1>1 DEF Init
  <1>3. entries \in [Route -> Seq(Entry)] /\ \A r \in Route : entries[r] = << >>
    BY DEF Init
  <1>4. \A a, t : Map(<< >>, a, t)
    BY <1>1 DEF Map, Keyed, CountsOK
  <1>5. NotBlockedBelowLimit
    BY IdleFormed DEF Init, NotBlockedBelowLimit
  <1> QED
    BY <1>1, <1>2, <1>3, <1>4, <1>5 DEF LimiterInv

\* The pages go on without the limiter.
LEMMA LimiterAside ==
  ASSUME LimiterInv, UNCHANGED <<now, entries, allowedAt>>,
         \A j \in Job : job'[j].phase = "refused" => job'[j] = job[j]
  PROVE  LimiterInv'
  BY DEF LimiterInv, NotBlockedBelowLimit, Map, CountsOK

\* The history that a tick drops is older than any window still open.
LEMMA TickLimiter ==
  ASSUME LimiterInv, Tick
  PROVE  LimiterInv'
  <1>1. /\ now \in Nat /\ now' = now + 1 /\ now' \in Time /\ Time \subseteq Nat /\ Maximum \in Nat
        /\ Window \in Nat \ {0} /\ UNCHANGED <<entries, job>>
    BY RegistrationAssumption, LimiterAssumption DEF LimiterInv, Tick, Time
  <1>2. \A r \in Route, k \in Key, t \in Time :
          allowedAt'[r][k][t] = IF now + 1 - Window < t THEN allowedAt[r][k][t] ELSE 0
    BY <1>1 DEF Tick
  <1>3. allowedAt' \in [Route -> [Key -> [Time -> 0..Maximum]]]
    <2>1. \A r \in Route, k \in Key, t \in Time :
            (IF now' - Window < t THEN allowedAt[r][k][t] ELSE 0) \in 0..Maximum
      BY <1>1 DEF LimiterInv
    <2> QED
      BY <2>1 DEF Tick
  <1>4. ASSUME NEW r \in Route PROVE Map(entries[r], allowedAt'[r], now + 1)
    <2> DEFINE s == entries[r]
    <2>1. Map(s, allowedAt[r], now) /\ s \in Seq(Entry)
      BY DEF LimiterInv, Map
    <2> HIDE DEF s
    <2>2. ASSUME NEW n \in DOMAIN s, ~Over(s[n], now + 1)
          PROVE  /\ s[n].resetsAt - Window \in 0..(now + 1)
                 /\ s[n].count <= Cardinality(Since(allowedAt'[r][s[n].key], s[n].resetsAt - Window))
      <3> DEFINE u == s[n].resetsAt - Window
                 a == allowedAt[r][s[n].key]
                 b == allowedAt'[r][s[n].key]
      <3>1. s[n] \in Entry /\ s[n].key \in Key /\ s[n].resetsAt \in Nat /\ s[n].count \in Nat
        <4>1. s[n] \in Entry
          BY <2>1
        <4> QED
          BY <1>1, <4>1 DEF Entry
      <3>2. u \in 0..now /\ s[n].count <= Cardinality(Since(a, u)) /\ now + 1 - Window < u
        <4>1. ~Over(s[n], now)
          BY <1>1, <2>2, <3>1 DEF Over
        <4>2. u \in 0..now /\ s[n].count <= Cardinality(Since(a, u))
          BY <2>1, <4>1 DEF Map, CountsOK
        <4>3. now + 1 - Window < u
          BY <1>1, <2>2, <3>1 DEF Over
        <4> QED
          BY <4>2, <4>3
      <3>3. \A t \in Time : t >= u => b[t] = a[t]
        BY <1>1, <1>2, <3>1, <3>2
      <3> HIDE DEF a, b, u
      <3>4. Since(a, u) \subseteq Since(b, u)
        <4> SUFFICES ASSUME NEW p \in Since(a, u) PROVE p \in Since(b, u)
          OBVIOUS
        <4>1. p \in Time \X (1..Maximum) /\ p[1] \in Time /\ p[1] >= u /\ p[2] <= a[p[1]]
          BY DEF Since
        <4> QED
          BY <3>3, <4>1 DEF Since
      <3>5. /\ Cardinality(Since(a, u)) <= Cardinality(Since(b, u))
            /\ Cardinality(Since(a, u)) \in Nat /\ Cardinality(Since(b, u)) \in Nat
        BY <3>4, SinceGrows, SinceFinite
      <3>6. u \in 0..(now + 1) /\ s[n].count <= Cardinality(Since(b, u))
        BY <1>1, <3>1, <3>2, <3>5
      <3> QED
        BY <3>6 DEF u, b
    <2> QED
      BY <2>1, <2>2 DEF Map, CountsOK, s
  <1>5. NotBlockedBelowLimit'
    BY <1>1 DEF LimiterInv, NotBlockedBelowLimit
  <1> QED
    BY <1>1, <1>3, <1>4, <1>5 DEF LimiterInv

\* A restart forgets windows and history alike.
LEMMA RestartLimiter ==
  ASSUME LimiterInv, Restart
  PROVE  LimiterInv'
  <1>1. now' = now /\ Maximum \in Nat /\ MaxEntries \in Nat
    BY LimiterAssumption DEF Restart
  <1>2. allowedAt' \in [Route -> [Key -> [Time -> 0..Maximum]]]
    BY <1>1 DEF Restart
  <1>3. entries' \in [Route -> Seq(Entry)] /\ \A r \in Route : entries'[r] = << >>
    BY DEF Restart
  <1>4. \A a, t : Map(<< >>, a, t)
    BY <1>1 DEF Map, Keyed, CountsOK
  <1>5. NotBlockedBelowLimit'
    BY IdleFormed DEF LimiterInv, Restart, NotBlockedBelowLimit
  <1> QED
    BY <1>1, <1>2, <1>3, <1>4, <1>5 DEF LimiterInv

\* A form is sent.
LEMMA AdmitLimiter ==
  ASSUME LimiterInv, JobsOK, NEW j \in Job, NEW r \in Route, NEW k \in Key, NEW q,
         q.phase # "refused", Admit(j, r, k, q), now' = now
  PROVE  LimiterInv'
  <1> DEFINE d == Consume(entries[r], k, now)
             m == Min({Maximum, allowedAt[r][k][now] + 1})
             b == [allowedAt[r] EXCEPT ![k][now] = m]
  <1>1. now \in Time /\ allowedAt[r] \in [Key -> [Time -> 0..Maximum]] /\ Map(entries[r], allowedAt[r], now)
    BY DEF LimiterInv
  <1>2. /\ d.allowed \in BOOLEAN
        /\ d.allowed => Map(d.entries, b, now) /\ b \in [Key -> [Time -> 0..Maximum]]
        /\ ~d.allowed => d.entries = entries[r] /\ Maximum <= Cardinality(Since(allowedAt[r][k], 0))
    <2>1. d = Consume(entries[r], k, now)
      OBVIOUS
    <2>2. b = [allowedAt[r] EXCEPT ![k][now] = Min({Maximum, allowedAt[r][k][now] + 1})]
      OBVIOUS
    <2> HIDE DEF d, b, m
    <2> DEFINE a == allowedAt[r]
               s == entries[r]
    <2>3. a \in [Key -> [Time -> 0..Maximum]] /\ Map(s, a, now) /\ now \in Time
      BY <1>1
    <2>4. d = Consume(s, k, now) /\ b = [a EXCEPT ![k][now] = Min({Maximum, a[k][now] + 1})]
      BY <2>1, <2>2
    <2> HIDE DEF a, s
    <2>5. Consumed(s, a, k, now, d, b)
      BY <2>3, <2>4, ConsumeIs
    <2> QED
      BY <2>5 DEF Consumed, a, s
  <1>3. entries' = [entries EXCEPT ![r] = d.entries]
    BY DEF Admit
  <1>4. CASE d.allowed
    <2>1. allowedAt' = [allowedAt EXCEPT ![r] = b] /\ job' = [job EXCEPT ![j] = q]
      BY <1>4 DEF Admit
    <2> HIDE DEF d, b, m
    <2>2. \A i \in Job : job'[i] = IF i = j THEN q ELSE job[i]
      BY <2>1 DEF JobsOK
    <2>3. d.entries \in Seq(Entry)
      BY <1>2, <1>4 DEF Map
    <2>4. /\ entries' \in [Route -> Seq(Entry)]
          /\ \A x \in Route : entries'[x] = IF x = r THEN d.entries ELSE entries[x]
      BY <1>3, <2>3 DEF LimiterInv
    <2>5. /\ allowedAt' \in [Route -> [Key -> [Time -> 0..Maximum]]]
          /\ \A x \in Route : allowedAt'[x] = IF x = r THEN b ELSE allowedAt[x]
      BY <1>2, <1>4, <2>1 DEF LimiterInv
    <2>6. \A x \in Route : Map(entries'[x], allowedAt'[x], now)
      BY <1>2, <1>4, <2>4, <2>5 DEF LimiterInv
    <2>7. NotBlockedBelowLimit'
      BY <2>2 DEF LimiterInv, NotBlockedBelowLimit
    <2> QED
      BY <1>1, <2>4, <2>5, <2>6, <2>7 DEF LimiterInv
  <1>5. CASE ~d.allowed
    <2> DEFINE x == [phase |-> "refused", origin |-> job[j].origin, recent |-> Recent(r, k)]
    <2>1. job' = [job EXCEPT ![j] = x] /\ allowedAt' = allowedAt
      BY <1>5 DEF Admit
    <2>2. Maximum <= Recent(r, k) /\ x.recent = Recent(r, k)
      BY <1>2, <1>5, RecentIs
    <2>3. Recent(r, k) \in Nat /\ Maximum \in Nat
      BY RecentIs, SinceFinite, LimiterAssumption
    <2> HIDE DEF x, d
    <2>4. \A i \in Job : job'[i] = IF i = j THEN x ELSE job[i]
      BY <2>1 DEF JobsOK
    <2>5. entries' = entries
      BY <1>2, <1>3, <1>5 DEF LimiterInv
    <2>6. NotBlockedBelowLimit'
      BY <2>2, <2>3, <2>4 DEF LimiterInv, NotBlockedBelowLimit
    <2> QED
      BY <2>1, <2>5, <2>6 DEF LimiterInv
  <1> QED
    BY <1>2, <1>4, <1>5

\* The mode and what a script is at.
KindInv ==
  /\ mode \in Modes
  /\ boot \in [Boot -> [phase : {"idle", "counted", "inserted", "failed", "done"}]]

\* The scripts and the mode.
LEMMA NextKindInv == IInv /\ KindInv /\ [Next]_vars => KindInv'
  <1> SUFFICES ASSUME IInv, KindInv, [Next]_vars PROVE KindInv'
    OBVIOUS
  <1>2. mode' \in Modes
    BY DEF KindInv, Next, vars, Tick, Restart, BootCount, BootInsert, BootCommit, BootCrash,
           CreateInvitation, RevokeInvitation, OpenInvitation, OpenPage, SubmitInvitation,
           SubmitRegistration, Leave, CreateManagedUser, Lock, Insert, Rollback, CommitInvitation,
           CommitRegistration, CommitManaged, ChangeEmail, DeleteUser
  <1>3. ASSUME NEW b \in Boot, BootCount(b) \/ BootInsert(b) \/ BootCommit(b) \/ BootCrash(b)
        PROVE  boot' \in [Boot -> [phase : {"idle", "counted", "inserted", "failed", "done"}]]
    <2>1. CASE BootCount(b)
      BY <2>1 DEF BootCount, KindInv
    <2>2. CASE BootInsert(b)
      BY <2>2 DEF BootInsert, KindInv
    <2>3. CASE BootCommit(b)
      BY <2>3 DEF BootCommit, KindInv
    <2>4. CASE BootCrash(b)
      BY <2>4 DEF BootCrash, Idle, KindInv
    <2> QED
      BY <1>3, <2>1, <2>2, <2>3, <2>4
  <1>4. ASSUME ~\E b \in Boot : BootCount(b) \/ BootInsert(b) \/ BootCommit(b) \/ BootCrash(b)
        PROVE  boot' = boot
    BY <1>4 DEF Next, vars, Tick, Restart,
           CreateInvitation, RevokeInvitation, OpenInvitation, OpenPage, SubmitInvitation,
           SubmitRegistration, Leave, CreateManagedUser, Lock, Insert, Rollback, CommitInvitation,
           CommitRegistration, CommitManaged, ChangeEmail, DeleteUser
  <1> QED
    BY <1>2, <1>3, <1>4 DEF KindInv

\* Every step.
LEMMA NextLimiterInv == IInv /\ LimiterInv /\ [Next]_vars => LimiterInv'
  <1> SUFFICES ASSUME IInv, LimiterInv, [Next]_vars PROVE LimiterInv'
    OBVIOUS
  <1>0. JobsOK
    BY DEF IInv, InvitationInv
  <1>1. \A i \in Job : \A q : q.phase # "refused" /\ job' = [job EXCEPT ![i] = q] =>
          \A j \in Job : job'[j].phase = "refused" => job'[j] = job[j]
    BY <1>0 DEF JobsOK
  <1>2. ASSUME NEW j \in Job, SubmitInvitation(j) PROVE LimiterInv'
    <2>1. PICK a \in Address : Admit(j, "invitation", ClientKey(a), Accepting(job[j].origin))
      BY <1>2 DEF SubmitInvitation
    <2>2. ClientKey(a) \in Key /\ "invitation" \in Route /\ now' = now
      BY <1>2, LimiterAssumption DEF ClientKey, Route, SubmitInvitation
    <2>3. Accepting(job[j].origin).phase # "refused"
      BY DEF Accepting, Form
    <2> QED
      BY <1>0, <2>1, <2>2, <2>3, AdmitLimiter
  <1>3. ASSUME NEW j \in Job, SubmitRegistration(j) PROVE LimiterInv'
    <2>1. PICK a \in Address, e \in Email : Admit(j, "open", ClientKey(a), Registering(e))
      BY <1>3 DEF SubmitRegistration
    <2>2. ClientKey(a) \in Key /\ "open" \in Route /\ now' = now
      BY <1>3, LimiterAssumption DEF ClientKey, Route, SubmitRegistration
    <2>3. Registering(e).phase # "refused"
      BY DEF Registering, Form
    <2> QED
      BY <1>0, <2>1, <2>2, <2>3, AdmitLimiter
  <1>4. ASSUME NEW j \in Job,
               OpenInvitation(j) \/ OpenPage(j) \/ Leave(j) \/ CreateManagedUser(j) \/ Lock(j) \/ Rollback(j)
        PROVE  LimiterInv'
    <2>1. \E q : q.phase # "refused" /\ job' = [job EXCEPT ![j] = q]
      <3>1. CASE OpenInvitation(j)
        BY <3>1 DEF OpenInvitation, Form
      <3>2. CASE OpenPage(j)
        BY <3>2 DEF OpenPage, Form
      <3>3. CASE Leave(j)
        BY <3>3 DEF Leave, Idle
      <3>4. CASE CreateManagedUser(j)
        BY <3>4 DEF CreateManagedUser
      <3>5. CASE Lock(j)
        BY <3>5 DEF Lock
      <3>6. CASE Rollback(j)
        <4>1. job' = [job EXCEPT ![j] = Back(j)] /\ Back(j).phase # "refused"
          BY <3>6 DEF Rollback, Back, Form, Idle
        <4> QED
          BY <4>1
      <3> QED
        BY <1>4, <3>1, <3>2, <3>3, <3>4, <3>5, <3>6
    <2>2. UNCHANGED <<now, entries, allowedAt>>
      BY <1>4 DEF OpenInvitation, OpenPage, Leave, CreateManagedUser, Lock, Rollback
    <2> QED
      BY <1>1, <2>1, <2>2, LimiterAside
  <1>5. ASSUME NEW j \in Job,
               Insert(j) \/ CommitInvitation(j) \/ CommitRegistration(j) \/ CommitManaged(j)
        PROVE  LimiterInv'
    <2>1. \E q : q.phase # "refused" /\ job' = [job EXCEPT ![j] = q]
      <3>1. CASE Insert(j) /\ job[j].email \in Users
        BY <3>1 DEF Insert, Back, Form, Idle
      <3>2. CASE Insert(j) /\ job[j].email \notin Users
        <4> DEFINE n == [job[j] EXCEPT !.phase = "inserted"]
        <4>1. job[j] \in Bound
          BY <1>0, <3>2 DEF Insert, JobsOK, Formed, Held
        <4>2. n.phase = "inserted"
          BY <4>1 DEF Bound
        <4>3. job' = [job EXCEPT ![j] = n]
          BY <3>2 DEF Insert
        <4> HIDE DEF n
        <4> QED
          BY <4>2, <4>3
      <3>3. CASE ~Insert(j)
        BY <1>5, <3>3 DEF CommitInvitation, CommitRegistration, CommitManaged, Commits, Idle
      <3> QED
        BY <3>1, <3>2, <3>3
    <2>2. UNCHANGED <<now, entries, allowedAt>>
      BY <1>5 DEF Insert, CommitInvitation, CommitRegistration, CommitManaged
    <2> QED
      BY <1>1, <2>1, <2>2, LimiterAside
  <1>6. CASE \/ UNCHANGED vars
             \/ \E b \in Boot : BootCount(b) \/ BootInsert(b) \/ BootCommit(b) \/ BootCrash(b)
             \/ \E i \in Invitation : CreateInvitation(i) \/ RevokeInvitation(i)
             \/ \E e \in Email : ChangeEmail(e) \/ DeleteUser(e)
    <2>1. UNCHANGED <<now, entries, allowedAt, job>>
      BY <1>6 DEF vars, BootCount, BootInsert, BootCommit, BootCrash, CreateInvitation,
                  RevokeInvitation, ChangeEmail, DeleteUser
    <2> QED
      BY <2>1, LimiterAside
  <1> QED
    BY <1>2, <1>3, <1>4, <1>5, <1>6, TickLimiter, RestartLimiter DEF Next

\* A limiter refuses a client only when its maximum was let through within one
\* window, whatever was evicted meanwhile
\* (src/infrastructure/http/request-security.ts:33-35).
THEOREM RefusalsAreEarned == Spec => []NotBlockedBelowLimit
  <1>1. LimiterInv => NotBlockedBelowLimit
    BY DEF LimiterInv
  <1> QED
    BY <1>1, InitLimiterInv, NextLimiterInv, AlwaysIInv, PTL DEF Spec

\* The types, and with them the bound on what a limiter keeps in memory
\* (src/infrastructure/http/request-security.ts:31-32).
THEOREM TypeCorrect == Spec => []TypeOK
  <1>1. ASSUME IInv, LimiterInv, KindInv PROVE TypeOK
    <2>1. \A r \in Route : Len(entries[r]) <= MaxEntries /\ \A n \in DOMAIN entries[r] : entries[r][n] \in Entry
      <3> TAKE r \in Route
      <3>1. Len(entries[r]) <= MaxEntries /\ entries[r] \in Seq(Entry)
        BY <1>1 DEF LimiterInv, Map
      <3> QED
        BY <3>1
    <2>2. now \in Time /\ allowedAt \in [Route -> [Key -> [Time -> 0..Maximum]]]
      BY <1>1 DEF LimiterInv
    <2> QED
      BY <1>1, <2>1, <2>2 DEF TypeOK, IInv, InvitationInv, RowsOK, JobsOK, Formed, AccountInv, BootInv, KindInv
  <1>2. Init => KindInv
    BY DEF Init, KindInv, Idle
  <1>3. IInv /\ LimiterInv /\ KindInv => TypeOK
    BY <1>1
  <1> QED
    BY <1>2, <1>3, NextKindInv, InitLimiterInv, NextLimiterInv, AlwaysIInv, PTL DEF Spec
=============================================================================
