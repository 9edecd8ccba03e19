------------------------ MODULE SerialAdministrators ------------------------
(***************************************************************************)
(* What administrator lifecycle management promises, on the "user" and     *)
(* "session" tables alone: every mutation takes effect in one step, as if  *)
(* requests were served one after the other.  Administrators.tla is the    *)
(* concurrent protocol of the code; it is checked against SerialSpec.      *)
(***************************************************************************)
CONSTANTS User   \* the ids of all "user" rows that may ever exist

VARIABLES
  role,      \* "absent" and "deleted" stand for no row; ids are never reused
  status,    \* the status column (meaningless without a row)
  sessions   \* the users with at least one row in the session table

table == <<role, status, sessions>>

Roles    == {"absent", "user", "admin", "deleted"}
Statuses == {"active", "suspended"}

PanelOps    == {"suspend", "reactivate", "promote", "demote", "delete"}
OwnOps      == {"deactivateOwn", "deleteOwn"}
RemovingOps == {"suspend", "demote", "delete"} \cup OwnOps

Exists(u)            == role[u] \in {"user", "admin"}
ActiveAdministrators == {u \in User : role[u] = "admin" /\ status[u] = "active"}

SetStatus(t, s) ==
  /\ status'   = [status EXCEPT ![t] = s]
  /\ sessions' = IF s = "suspended" THEN sessions \ {t} ELSE sessions
  /\ UNCHANGED role

SetRole(t, x) ==
  /\ role' = [role EXCEPT ![t] = x]
  /\ UNCHANGED <<status, sessions>>

\* The session table's foreign key cascades; the status left is a dummy.
Delete(t) ==
  /\ role'     = [role EXCEPT ![t] = "deleted"]
  /\ status'   = [status EXCEPT ![t] = "active"]
  /\ sessions' = sessions \ {t}

Effect(op, t) ==
  \/ op \in {"suspend", "deactivateOwn"} /\ SetStatus(t, "suspended")
  \/ op = "reactivate"                   /\ SetStatus(t, "active")
  \/ op = "promote"                      /\ SetRole(t, "admin")
  \/ op = "demote"                       /\ SetRole(t, "user")
  \/ op \in {"delete", "deleteOwn"}      /\ Delete(t)

\* A mutant: the role written is not one the CHECK constraint allows.
EnrollUnchecked(u, x) ==
  /\ role[u] = "absent"
  /\ role'   = [role EXCEPT ![u] = "moderator"]
  /\ status' = [status EXCEPT ![u] = "active"]
  /\ UNCHANGED sessions

Enroll(u, x) ==
  /\ role[u] = "absent"
  /\ role'   = [role EXCEPT ![u] = x]
  /\ status' = [status EXCEPT ![u] = "active"]
  /\ UNCHANGED sessions

OpenSession(u) ==
  /\ Exists(u)
  /\ sessions' = sessions \cup {u}
  /\ UNCHANGED <<role, status>>

-----------------------------------------------------------------------------
\* scripts/migrate.ts has just run the bootstrap on an empty database.
SerialInit ==
  \E b \in User :
    /\ role     = [u \in User |-> IF u = b THEN "admin" ELSE "absent"]
    /\ status   = [u \in User |-> "active"]
    /\ sessions = {}

\* One lifecycle mutation of target t by actor a, with nothing in between.
Administer(op, a, t) ==
  /\ Exists(t)
  /\ op \in PanelOps => a \in ActiveAdministrators
  /\ op \in OwnOps => a = t
  /\ op \in RemovingOps /\ role[t] = "admin" => ActiveAdministrators \ {t} # {}
  /\ Effect(op, t)

SerialNext ==
  \/ \E u \in User : Enroll(u, "user") \/ Enroll(u, "admin") \/ OpenSession(u)
  \/ \E op \in PanelOps \cup OwnOps, a, t \in User : Administer(op, a, t)

SerialSpec == SerialInit /\ [][SerialNext]_table
=============================================================================
