------------------------------ MODULE Sessions ------------------------------
(***************************************************************************)
(* The sessions of one account: signing in (Better Auth, with the hook of  *)
(* src/auth/better-auth.ts), resolving a session to a principal            *)
(* (src/auth/principal.ts), the owner's own changes of the account         *)
(* (src/modules/identity/change-password.ts, change-email.ts,              *)
(* account-lifecycle.ts) and those an administrator makes                  *)
(* (src/modules/admin/users.ts).  The guard of the last administrator is   *)
(* the subject of Administrators: here another administrator remains.      *)
(*                                                                         *)
(* A password's hash is the password.  A transaction that locks one row of *)
(* the account is one step; one that locks the row of "account" and that   *)
(* of "user" takes the first, and ends when it has the second.  What a     *)
(* request reads before, on the pool, is a step of its own.                *)
(***************************************************************************)
EXTENDS FiniteSets

CONSTANTS Password, Email, Session, Attempt, Request

VARIABLES
  exists, active, mustChange, password, email,  \* "user" and "account"
  session,   \* the rows of "session"
  attempt,   \* sign-ins under way
  request    \* requests under way

account == <<exists, active, mustChange, password, email>>
vars    == <<account, session, attempt, request>>

Idle  == [phase |-> "idle"]
NoRow == [phase |-> "none"]
Open  == {s \in Session : session[s] # NoRow}

\* The owner's operations: some lock both rows, some verify the password before
\* their transaction, and some refuse an account that must change its password;
\* "collect" is any of the many others that do.  An administrator's account has
\* one more way to change its address.
OwnOps   == {"changePassword", "changeEmail", "changeAdminEmail", "deactivate", "delete", "collect"}
AdminOps == {"reset", "remove"}
TwoRows  == {"changePassword", "delete", "reset", "remove"}
Proving  == {"changeEmail", "changeAdminEmail", "deactivate", "delete"}
Usable   == {"collect", "changeAdminEmail"}

Init ==
  /\ exists = TRUE /\ active = TRUE /\ mustChange = TRUE
  /\ password \in Password /\ email \in Email
  /\ session = [s \in Session |-> NoRow]
  /\ attempt = [a \in Attempt |-> Idle]
  /\ request = [r \in Request |-> Idle]
-----------------------------------------------------------------------------
(* Row locks and history.                                                  *)

\* setAccountPassword and the SELECT of changeOwnPassword take the row of
\* "account" first; a deletion takes the row of "user" and cascades.
UserFirst(op) == IF op \in {"delete", "remove", "reset"} THEN "user" ELSE "account"
First(op) == IF op \in {"delete", "remove"} THEN "user" ELSE "account"
Second(op) == IF First(op) = "user" THEN "account" ELSE "user"

Holders(row) == {r \in Request : request[r].phase = "locked" /\ First(request[r].op) = row}
Waiting(r)   == request[r].phase = "locked" /\ Holders(Second(request[r].op)) # {}

\* A sign-in that verified the credentials before they changed, or before the
\* account was suspended, is late.
Overtaken ==
  attempt' = [a \in Attempt |->
    IF attempt[a] = Idle THEN Idle ELSE [attempt[a] EXCEPT !.late = TRUE]]

\* An own request notes whether, since it began, the account was once active,
\* once free of a forced change, and once had the password the request presents.
Note(q) ==
  IF q.phase = "idle" \/ q.op \in AdminOps THEN q
  ELSE [q EXCEPT !.wasActive = @ \/ active', !.wasFree = @ \/ ~mustChange',
                 !.proved = @ \/ q.presents = password']
Noted(requests) == request' = [r \in Request |-> Note(requests[r])]

\* DELETE FROM session: all of the account, or all but one.
RevokeAll == session' = [s \in Session |-> NoRow]
OnlyOwn(s, own) == s = own
Revoked(s, own) == s # own
-----------------------------------------------------------------------------
(* Signing in.                                                             *)

\* The account is found by its address and the password verified.
Verify(a) ==
  /\ attempt[a] = Idle /\ exists
  /\ attempt' = [attempt EXCEPT ![a] =
       [phase |-> "verified", password |-> password, email |-> email, late |-> FALSE]]
  /\ UNCHANGED <<account, session, request>>

\* The hook before the session is created.
Check(a) ==
  /\ attempt[a].phase = "verified"
  /\ attempt' = [attempt EXCEPT ![a] =
       IF exists /\ active THEN [attempt[a] EXCEPT !.phase = "checked"] ELSE Idle]
  /\ UNCHANGED <<account, session, request>>

\* The row, which the foreign key refuses once the account is gone.
Create(a) ==
  /\ attempt[a].phase = "checked"
  /\ IF exists
     THEN \E s \in Session \ Open : session' = [session EXCEPT ![s] = [attempt[a] EXCEPT !.phase = "open"]]
     ELSE UNCHANGED session
  /\ attempt' = [attempt EXCEPT ![a] = Idle]
  /\ UNCHANGED <<account, request>>

\* Signing out, or a session's seven days are over.
End(s) ==
  /\ s \in Open
  /\ session' = [session EXCEPT ![s] = NoRow]
  /\ UNCHANGED <<account, attempt, request>>
-----------------------------------------------------------------------------
(* The owner's requests.                                                   *)

\* A form is sent and getSession finds the session; whoever sends it presents a
\* password, right or wrong, where it is asked for.
Begin(r, op, p, new) ==
  /\ request[r] = Idle
  /\ \E s \in Open :
       request' = [request EXCEPT ![r] =
         [phase |-> "begun", op |-> op, session |-> s, presents |-> p, new |-> new,
          wasActive |-> active, wasFree |-> ~mustChange, proved |-> p = password]]
  /\ UNCHANGED <<account, session, attempt>>

SendPassword(r)   == \E p, new \in Password : Begin(r, "changePassword", p, new)
SendEmail(r)      == \E p \in Password : Begin(r, "changeEmail", p, p)
SendAdminEmail(r) == \E p \in Password : Begin(r, "changeAdminEmail", p, p)
SendDeactivate(r) == \E p \in Password : Begin(r, "deactivate", p, p)
SendDelete(r)     == \E p \in Password : Begin(r, "delete", p, p)
SendOther(r)      == \E p \in Password : Begin(r, "collect", p, p)

Go(r, phase) == request' = [request EXCEPT ![r].phase = phase]
Stop(r) == request' = [request EXCEPT ![r] = Idle]

\* getAccountContext reads the account: an active one gives a principal, and
\* one that must change its password can do nothing but account operations.
Existing(op) == exists
Allowed(op) == exists /\ active /\ (op \in Usable => ~mustChange)
Resolve(r) ==
  /\ request[r].phase = "begun"
  /\ IF Allowed(request[r].op)
     THEN Go(r, IF request[r].op = "collect" THEN "done" ELSE "principal") ELSE Stop(r)
  /\ UNCHANGED <<account, session, attempt>>

\* The password is verified on the pool, before the transaction.
Prove(r) ==
  /\ request[r].phase = "principal" /\ request[r].op \in Proving
  /\ IF exists /\ request[r].presents = password THEN Go(r, "proved") ELSE Stop(r)
  /\ UNCHANGED <<account, session, attempt>>

ChangeEmail(r) ==
  /\ request[r].phase = "proved" /\ request[r].op = "changeEmail" /\ Holders("user") = {}
  /\ IF exists
     THEN email' \in Email /\ RevokeAll /\ Overtaken
     ELSE UNCHANGED <<email, session, attempt>>
  /\ UNCHANGED <<exists, active, mustChange, password>>
  /\ Noted([request EXCEPT ![r].phase = "done"])

\* changeOwnAdminEmail, exported though no route calls it yet, revokes nothing: the
\* open sessions stay, as of the new address.
ChangeAdminEmail(r) ==
  /\ request[r].phase = "proved" /\ request[r].op = "changeAdminEmail" /\ Holders("user") = {}
  /\ exists
  /\ email' \in Email
  /\ session' = [s \in Session |->
       IF session[s] = NoRow THEN NoRow ELSE [session[s] EXCEPT !.email = email']]
  /\ Overtaken
  /\ UNCHANGED <<exists, active, mustChange, password>>
  /\ Noted([request EXCEPT ![r].phase = "done"])

Deactivate(r) ==
  /\ request[r].phase = "proved" /\ request[r].op = "deactivate" /\ Holders("user") = {}
  /\ exists
  /\ active' = FALSE /\ RevokeAll /\ Overtaken
  /\ UNCHANGED <<exists, mustChange, password, email>>
  /\ Noted([request EXCEPT ![r].phase = "done"])
-----------------------------------------------------------------------------
(* Transactions over both rows.                                            *)

Ready(r) ==
  request[r].phase = CASE request[r].op = "delete" -> "proved" [] OTHER -> "principal"

Lock(r) ==
  /\ request[r] # Idle /\ request[r].op \in TwoRows /\ Ready(r)
  /\ Holders(First(request[r].op)) = {}
  /\ IF exists THEN Go(r, "locked") ELSE Stop(r)
  /\ UNCHANGED <<account, session, attempt>>

\* changeOwnPassword verifies under the locks.
AcceptedBefore(q) == active /\ q.proved
Acceptable(q) == active /\ q.presents = password
ChangePassword(r) ==
  /\ request[r].phase = "locked" /\ request[r].op = "changePassword" /\ ~Waiting(r)
  /\ IF Acceptable(request[r])
     THEN /\ password' = request[r].new /\ mustChange' = FALSE
          /\ session' = [s \in Session |->
               IF s \notin Open \/ Revoked(s, request[r].session) THEN NoRow
               ELSE IF s = request[r].session THEN [session[s] EXCEPT !.password = request[r].new]
               ELSE session[s]]
          /\ Overtaken
          /\ UNCHANGED <<exists, active, email>>
          /\ Noted([request EXCEPT ![r].phase = "done"])
     ELSE Stop(r) /\ UNCHANGED <<account, session, attempt>>

\* resetManagedUserPassword.
Reset(r) ==
  /\ request[r].phase = "locked" /\ request[r].op = "reset" /\ ~Waiting(r)
  /\ password' = request[r].new /\ mustChange' = TRUE
  /\ RevokeAll /\ Overtaken
  /\ UNCHANGED <<exists, active, email>>
  /\ Noted([request EXCEPT ![r] = Idle])

\* The deletion by the owner, who types the address, or by an administrator.
Delete(r) ==
  /\ request[r].phase = "locked" /\ request[r].op \in {"delete", "remove"} /\ ~Waiting(r)
  /\ exists' = FALSE
  /\ RevokeAll
  /\ UNCHANGED <<active, mustChange, password, email, attempt>>
  /\ Noted([request EXCEPT ![r] = IF @.op = "delete" THEN [@ EXCEPT !.phase = "done"] ELSE Idle])

\* The request fails before its transaction ends, which rolls back, by a
\* deadlock too; or it is over.
Fail(r) ==
  /\ request[r] # Idle
  /\ Stop(r)
  /\ UNCHANGED <<account, session, attempt>>
-----------------------------------------------------------------------------
(* An administrator's requests.                                            *)

SendReset(r) ==
  /\ request[r] = Idle /\ exists
  /\ \E new \in Password :
       request' = [request EXCEPT ![r] = [phase |-> "principal", op |-> "reset", new |-> new]]
  /\ UNCHANGED <<account, session, attempt>>

SendRemove(r) ==
  /\ request[r] = Idle /\ exists
  /\ request' = [request EXCEPT ![r] = [phase |-> "principal", op |-> "remove"]]
  /\ UNCHANGED <<account, session, attempt>>

SetEmail ==
  /\ exists /\ Holders("user") = {}
  /\ email' \in Email
  /\ RevokeAll /\ Overtaken
  /\ UNCHANGED <<exists, active, mustChange, password, request>>

SetStatus ==
  /\ exists /\ Holders("user") = {}
  /\ active' = ~active
  /\ IF active THEN RevokeAll /\ Overtaken ELSE UNCHANGED <<session, attempt>>
  /\ UNCHANGED <<exists, mustChange, password, email>>
  /\ Noted(request)

Next ==
  \/ \E a \in Attempt : Verify(a) \/ Check(a) \/ Create(a)
  \/ \E s \in Session : End(s)
  \/ \E r \in Request :
       \/ SendPassword(r) \/ SendEmail(r) \/ SendAdminEmail(r) \/ SendDeactivate(r)
       \/ SendDelete(r) \/ SendOther(r) \/ SendReset(r) \/ SendRemove(r)
       \/ Resolve(r) \/ Prove(r) \/ ChangeEmail(r) \/ ChangeAdminEmail(r) \/ Deactivate(r)
       \/ Lock(r) \/ ChangePassword(r) \/ Reset(r) \/ Delete(r) \/ Fail(r)
  \/ SetEmail \/ SetStatus

Spec == Init /\ [][Next]_vars
-----------------------------------------------------------------------------
Phases == {"idle", "begun", "principal", "proved", "locked", "done"}

TypeOK ==
  /\ exists \in BOOLEAN /\ active \in BOOLEAN /\ mustChange \in BOOLEAN
  /\ password \in Password /\ email \in Email
  /\ session \in [Session -> {NoRow} \cup
       [phase : {"open"}, password : Password, email : Email, late : BOOLEAN]]
  /\ attempt \in [Attempt -> {Idle} \cup
       [phase : {"verified", "checked"}, password : Password, email : Email, late : BOOLEAN]]
  /\ \A r \in Request : request[r].phase \in Phases

\* Whoever holds a session knew the present credentials: it was opened with the
\* present password, or is the one that set it, and with the present address,
\* and the account has not been suspended since; the sign-ins that were under
\* way at such a change are the exception
\* (src/modules/identity/change-password.ts:17-20, docs/ACCOUNT_LIFECYCLE.md:26-28).
SessionsMatchTheAccount ==
  \A s \in Open :
    \/ session[s].late
    \/ exists /\ active /\ session[s].password = password /\ session[s].email = email

\* A request of the account does something only if, at some moment since it
\* began, the account was active, free of a forced password change (for all but
\* what an account may do before it), and had the password the request presented (for
\* those that ask for it).
EffectsAreAuthorized ==
  \A r \in Request :
    request[r].phase = "done" =>
      /\ request[r].wasActive
      /\ request[r].op \in Usable => request[r].wasFree
      /\ request[r].op # "collect" => request[r].proved

\* A password that an administrator set stands until a request that presents it
\* replaces it, or an administrator does: no change that was under way with the
\* former password undoes the reset.
ResetStands ==
  [][mustChange /\ ~mustChange' =>
       \E r \in Request : request[r].phase = "locked" /\ request[r].presents = password]_vars

\* Transactions over both rows wait for each other in a circle only if one of
\* them deletes the account.
OnlyDeletionsDeadlock ==
  \A q, r \in Request :
    Waiting(q) /\ Waiting(r) /\ q \in Holders(Second(request[r].op)) /\ r \in Holders(Second(request[q].op))
      => {request[q].op, request[r].op} \cap {"delete", "remove"} # {}
=============================================================================
