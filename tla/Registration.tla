---------------------------- MODULE Registration ----------------------------
(***************************************************************************)
(* How accounts come into being: the first administrator, created after    *)
(* the migrations (src/modules/identity/bootstrap.ts, scripts/migrate.ts), *)
(* open registration (registration.ts) and invitations (invitations.ts,    *)
(* src/modules/admin/invitations.ts), each with its page, its form and its *)
(* rate limiter, and an administrator (src/modules/admin/users.ts).        *)
(*                                                                         *)
(* The token of an invitation is the invitation itself.  A user is known   *)
(* by what created the account.  What a transaction writes is seen by      *)
(* others at its commit; the unique index on "user".email makes an insert  *)
(* wait for an uncommitted one of the same address.  A job is a browser's  *)
(* page and the request it has under way.                                  *)
(***************************************************************************)
EXTENDS RateLimiter

CONSTANTS
  Invitation,
  Email, AdminEmail,  \* email addresses; that of the first administrator
  Address,            \* what requests show for the address of their client
  Job,                \* pages open, each with one request under way at most
  Boot,               \* runs of the migration script
  Expirations,        \* the instants at which an administrator lets one expire
  NoInvitation, Nobody,
  Self, Managed,      \* what created an account that registered, or was made by an administrator
  MaxTime             \* bound: the last tick of the clock

ASSUME RegistrationAssumption ==
  /\ AdminEmail \in Email /\ MaxTime \in Nat /\ Expirations \subseteq Nat
  /\ Nobody \notin Invitation \cup Boot \cup {Self, Managed}
  /\ {Self, Managed} \cap (Invitation \cup Boot) = {} /\ Self # Managed
  /\ Invitation \cap Boot = {}

VARIABLES
  now,
  mode,         \* REGISTRATION_MODE of the running server
  entries,      \* the rate limiter of each route, in its memory
  allowedAt,    \* history: how often it allowed each client at each tick of the last window
  holder,       \* "user": which account has each address
  invitations,
  opened,       \* history: how many accounts each invitation or script has opened
  job,
  boot

vars == <<now, mode, entries, allowedAt, holder, invitations, opened, job, boot>>

Time   == 0..MaxTime
Modes  == {"closed", "invitation", "open"}
Route  == {"invitation", "open"}
Origin == Invitation \cup Boot \cup {Self, Managed}
Row    == [email : Email, expires : Nat, accepted : BOOLEAN, revoked : BOOLEAN]
Idle   == [phase |-> "idle"]

ASSUME RowAssumption == NoInvitation \notin Row

\* evaluateRegistration.
Invitations      == mode = "invitation"
OpenRegistration == mode = "open"

Users == {e \in Email : holder[e] # Nobody}

\* deriveStatus
Pending(i) ==
  /\ invitations[i] # NoInvitation
  /\ ~invitations[i].revoked /\ ~invitations[i].accepted /\ now < invitations[i].expires

Init ==
  /\ now = 0 /\ mode \in Modes
  /\ entries = [r \in Route |-> << >>]
  /\ allowedAt = [r \in Route |-> [k \in Key |-> [t \in Time |-> 0]]]
  /\ holder = [e \in Email |-> Nobody]
  /\ invitations = [i \in Invitation |-> NoInvitation]
  /\ opened = [o \in Invitation \cup Boot |-> 0]
  /\ job = [j \in Job |-> Idle] /\ boot = [b \in Boot |-> Idle]

Tick ==
  /\ now < MaxTime
  /\ now' = now + 1
  /\ allowedAt' = [r \in Route |-> [k \in Key |-> [t \in Time |->
       IF now' - Window < t THEN allowedAt[r][k][t] ELSE 0]]]
  /\ UNCHANGED <<mode, entries, holder, invitations, opened, job, boot>>

Working(j) == job[j].phase \in {"begun", "locked", "inserted"}

\* The server stops, whatever it was doing, and starts with another mode; a form
\* that was waiting for its answer waits until the page is loaded again, another
\* one stays as it is.
Restart ==
  /\ mode' \in Modes
  /\ entries' = [r \in Route |-> << >>]
  /\ allowedAt' = [r \in Route |-> [k \in Key |-> [t \in Time |-> 0]]]
  /\ job' = [j \in Job |-> IF Working(j) THEN Idle ELSE job[j]]
  /\ UNCHANGED <<now, holder, invitations, opened, boot>>
-----------------------------------------------------------------------------
(* What the transactions under way hold.                                   *)

\* The row lock of invitation i, taken FOR UPDATE until the transaction ends.
Unlocked(i) == FALSE
Locked(i) ==
  \E j \in Job : job[j].phase \in {"locked", "inserted"} /\ job[j].origin = i

\* An uncommitted "user" row with address e.
Inserting(e) ==
  \/ \E j \in Job : job[j].phase = "inserted" /\ job[j].email = e
  \/ e = AdminEmail /\ \E b \in Boot : boot[b].phase = "inserted"

Count(o) == [p \in DOMAIN opened |-> IF p = o THEN Min({2, opened[p] + 1}) ELSE opened[p]]
-----------------------------------------------------------------------------
(* bootstrapInitialAdmin.                                                  *)

\* pg_advisory_xact_lock, until the transaction ends.
Shared(b) == TRUE
Exclusive(b) == \A c \in Boot : boot[c].phase \notin {"counted", "inserted"}

BootCount(b) ==
  /\ boot[b] = Idle /\ Exclusive(b)
  /\ boot' = [boot EXCEPT ![b] = [phase |-> IF Users = {} THEN "counted" ELSE "done"]]
  /\ UNCHANGED <<now, mode, entries, allowedAt, holder, invitations, opened, job>>

BootInsert(b) ==
  /\ boot[b].phase = "counted" /\ ~Inserting(AdminEmail)
  /\ boot' = [boot EXCEPT ![b] =
       [phase |-> IF AdminEmail \in Users THEN "failed" ELSE "inserted"]]
  /\ UNCHANGED <<now, mode, entries, allowedAt, holder, invitations, opened, job>>

BootCommit(b) ==
  /\ boot[b].phase = "inserted"
  /\ holder' = [holder EXCEPT ![AdminEmail] = b]
  /\ opened' = Count(b)
  /\ boot' = [boot EXCEPT ![b].phase = "done"]
  /\ UNCHANGED <<now, mode, entries, allowedAt, invitations, job>>

\* The script dies; the next run of it starts over.
BootCrash(b) ==
  /\ boot[b].phase \in {"counted", "inserted"}
  /\ boot' = [boot EXCEPT ![b] = Idle]
  /\ UNCHANGED <<now, mode, entries, allowedAt, holder, invitations, opened, job>>
-----------------------------------------------------------------------------
(* The administrator's requests.                                           *)

Administered == \E e \in Users : holder[e] \in Boot

MayInvite    == Administered /\ Invitations  \* createAdminInvitation
MayRevoke    == Administered                 \* revokeAdminInvitation

CreateInvitation(i) ==
  /\ MayInvite /\ invitations[i] = NoInvitation
  /\ \E e \in Email, x \in {x \in Expirations : x > now} :
       invitations' = [invitations EXCEPT ![i] =
         [email |-> e, expires |-> x, accepted |-> FALSE, revoked |-> FALSE]]
  /\ UNCHANGED <<now, mode, entries, allowedAt, holder, opened, job, boot>>

\* One statement; it waits for the row lock and then sees what the
\* transaction that held it left.
RevokeInvitation(i) ==
  /\ MayRevoke /\ invitations[i] # NoInvitation /\ ~Locked(i)
  /\ ~invitations[i].accepted /\ ~invitations[i].revoked
  /\ invitations' = [invitations EXCEPT ![i].revoked = TRUE]
  /\ UNCHANGED <<now, mode, entries, allowedAt, holder, opened, job, boot>>

\* The transaction has nothing to lock and starts at its insert.
CreateManagedUser(j) ==
  /\ Administered /\ job[j] = Idle
  /\ \E e \in Email :
       job' = [job EXCEPT ![j] = [phase |-> "locked", origin |-> Managed, email |-> e]]
  /\ UNCHANGED <<now, mode, entries, allowedAt, holder, invitations, opened, boot>>
-----------------------------------------------------------------------------
(* The pages and their forms.                                              *)

Form(origin) == [phase |-> "form", origin |-> origin]
Filled(j)    == job[j].phase \in {"form", "refused", "invalid"}  \* an error is shown above it

\* findValidInvitationByToken takes no lock.
ValidInvitation(i) == Invitations /\ Pending(i)

\* Without invitations the page says only that none is being accepted.
OpenInvitation(j) ==
  /\ job[j] = Idle /\ Invitations
  /\ \E i \in Invitation :
       /\ invitations[i] # NoInvitation
       /\ job' = [job EXCEPT ![j] =
            IF ValidInvitation(i) THEN Form(i) ELSE [phase |-> "gone", origin |-> i]]
  /\ UNCHANGED <<now, mode, entries, allowedAt, holder, invitations, opened, boot>>

OpenPage(j) ==
  /\ job[j] = Idle /\ OpenRegistration
  /\ job' = [job EXCEPT ![j] = Form(Self)]
  /\ UNCHANGED <<now, mode, entries, allowedAt, holder, invitations, opened, boot>>

Recent(r, k) == Cardinality({p \in Time \X (1..Maximum) : p[2] <= allowedAt[r][k][p[1]]})

\* The route consults its limiter, then the use case the mode; hashing the
\* password comes before the transaction.
Admit(j, r, k, request) ==
  LET decision == Consume(entries[r], k, now)
  IN  /\ entries' = [entries EXCEPT ![r] = decision.entries]
      /\ IF decision.allowed
         THEN /\ allowedAt' = [allowedAt EXCEPT ![r][k][now] = Min({Maximum, @ + 1})]
              /\ job' = [job EXCEPT ![j] = request]
         ELSE /\ job' = [job EXCEPT ![j] =
                   [phase |-> "refused", origin |-> @.origin, recent |-> Recent(r, k)]]
              /\ UNCHANGED allowedAt

\* acceptInvitation and registerOpenAccount answer 404 in another mode.  Open
\* registration has no invitation to lock: its transaction starts at the insert.
Accepting(i) == IF Invitations THEN [phase |-> "begun", origin |-> i] ELSE Form(i)
Registering(e) ==
  IF OpenRegistration THEN [phase |-> "locked", origin |-> Self, email |-> e] ELSE Form(Self)

SubmitInvitation(j) ==
  /\ Filled(j) /\ job[j].origin \in Invitation
  /\ \E a \in Address : Admit(j, "invitation", ClientKey(a), Accepting(job[j].origin))
  /\ UNCHANGED <<now, mode, holder, invitations, opened, boot>>

SubmitRegistration(j) ==
  /\ Filled(j) /\ job[j].origin = Self
  /\ \E a \in Address, e \in Email : Admit(j, "open", ClientKey(a), Registering(e))
  /\ UNCHANGED <<now, mode, holder, invitations, opened, boot>>

Leave(j) ==
  /\ Filled(j) \/ job[j].phase = "gone"
  /\ job' = [job EXCEPT ![j] = Idle]
  /\ UNCHANGED <<now, mode, entries, allowedAt, holder, invitations, opened, boot>>
-----------------------------------------------------------------------------
(* The transactions that create an account.                                *)

\* SELECT ... FOR UPDATE, and what the code makes of the row it returns: 410 when
\* the invitation is not pending.
SkipLocked(i) == ~Locked(i)
Readable(i) == TRUE
Lock(j) ==
  /\ job[j].phase = "begun"
  /\ LET i == job[j].origin
     IN  /\ Readable(i) => ~Locked(i)
         /\ job' = [job EXCEPT ![j] =
              IF Readable(i) /\ Pending(i)
              THEN [phase |-> "locked", origin |-> i, email |-> invitations[i].email]
              ELSE [phase |-> "invalid", origin |-> i]]
  /\ UNCHANGED <<now, mode, entries, allowedAt, holder, invitations, opened, boot>>

\* An error is shown with the form, from which the same may be tried again.
Back(j) == IF job[j].origin = Managed THEN Idle ELSE Form(job[j].origin)

\* A taken address rolls the transaction back: 409.
Insert(j) ==
  /\ job[j].phase = "locked" /\ ~Inserting(job[j].email)
  /\ job' = [job EXCEPT ![j] =
       IF job[j].email \in Users THEN Back(j) ELSE [job[j] EXCEPT !.phase = "inserted"]]
  /\ UNCHANGED <<now, mode, entries, allowedAt, holder, invitations, opened, boot>>

\* The user, the credential account and the collector profile, all at once.
Commits(j) ==
  /\ job[j].phase = "inserted"
  /\ holder' = [holder EXCEPT ![job[j].email] = job[j].origin]
  /\ job' = [job EXCEPT ![j] = Idle]

CommitInvitation(j) ==
  /\ Commits(j) /\ job[j].origin \in Invitation
  /\ opened' = Count(job[j].origin)
  /\ invitations' = [invitations EXCEPT ![job[j].origin].accepted = TRUE]
  /\ UNCHANGED <<now, mode, entries, allowedAt, boot>>

CommitRegistration(j) ==
  /\ Commits(j) /\ job[j].origin = Self
  /\ UNCHANGED <<now, mode, entries, allowedAt, invitations, opened, boot>>

CommitManaged(j) ==
  /\ Commits(j) /\ job[j].origin = Managed
  /\ UNCHANGED <<now, mode, entries, allowedAt, invitations, opened, boot>>

\* Any error of the database rolls back: 503.
Rollback(j) ==
  /\ Working(j)
  /\ job' = [job EXCEPT ![j] = Back(j)]
  /\ UNCHANGED <<now, mode, entries, allowedAt, holder, invitations, opened, boot>>
-----------------------------------------------------------------------------
(* What accounts do later, as far as addresses go.                         *)

ChangeEmail(e) ==
  /\ e \in Users
  /\ \E f \in Email \ Users :
       /\ ~Inserting(f)
       /\ holder' = [holder EXCEPT ![e] = Nobody, ![f] = holder[e]]
  /\ UNCHANGED <<now, mode, entries, allowedAt, invitations, opened, job, boot>>

\* The only administrator stays; an invitation stays accepted.
DeleteUser(e) ==
  /\ e \in Users /\ holder[e] \notin Boot
  /\ holder' = [holder EXCEPT ![e] = Nobody]
  /\ UNCHANGED <<now, mode, entries, allowedAt, invitations, opened, job, boot>>

Next ==
  \/ Tick \/ Restart
  \/ \E b \in Boot : BootCount(b) \/ BootInsert(b) \/ BootCommit(b) \/ BootCrash(b)
  \/ \E i \in Invitation : CreateInvitation(i) \/ RevokeInvitation(i)
  \/ \E j \in Job :
       \/ OpenInvitation(j) \/ OpenPage(j) \/ SubmitInvitation(j) \/ SubmitRegistration(j) \/ Leave(j)
       \/ CreateManagedUser(j) \/ Lock(j) \/ Insert(j) \/ Rollback(j)
       \/ CommitInvitation(j) \/ CommitRegistration(j) \/ CommitManaged(j)
  \/ \E e \in Email : ChangeEmail(e) \/ DeleteUser(e)

Spec == Init /\ [][Next]_vars
-----------------------------------------------------------------------------
Phases == {"idle", "form", "begun", "locked", "inserted", "refused", "invalid", "gone"}

TypeOK ==
  /\ now \in Time /\ mode \in Modes
  /\ \A r \in Route :
       /\ Len(entries[r]) <= MaxEntries
       /\ \A n \in DOMAIN entries[r] : entries[r][n] \in Entry
  /\ allowedAt \in [Route -> [Key -> [Time -> 0..Maximum]]]
  /\ holder \in [Email -> Origin \cup {Nobody}]
  /\ invitations \in [Invitation -> Row \cup {NoInvitation}]
  /\ opened \in [Invitation \cup Boot -> 0..2]
  /\ \A j \in Job : job[j].phase \in Phases
  /\ \A b \in Boot : boot[b].phase \in {"idle", "counted", "inserted", "failed", "done"}

\* An invitation opens one account at most, in all its life: it is marked
\* accepted exactly when it has, whatever became of the account, and a revoked
\* one never does (src/modules/identity/invitations.ts:196-205).
OneAccountPerInvitation ==
  \A i \in Invitation :
    /\ opened[i] <= 1
    /\ invitations[i] # NoInvitation =>
         /\ invitations[i].accepted <=> opened[i] = 1
         /\ ~(invitations[i].accepted /\ invitations[i].revoked)

\* The account with the published password is created once, however many runs
\* of the migration script overlap or start over (docs/RELEASE_CHECKLIST.md:26).
OneInitialAdministrator == Quantify(Boot, LAMBDA b : opened[b] > 0) <= 1

\* An invitation said to be not valid or expired, by its page or its form, never
\* will be valid again: neither is said while another attempt, which may yet fail,
\* is accepting it.
InvalidForGood ==
  \A j \in Job : job[j].phase \in {"invalid", "gone"} => ~Pending(job[j].origin)

\* A limiter refuses an attempt only when its client had its full number of
\* attempts within the last window: evictions never cost a client one
\* (src/infrastructure/http/request-security.ts:33-35).
NotBlockedBelowLimit ==
  \A j \in Job : job[j].phase = "refused" => job[j].recent >= Maximum
=============================================================================
