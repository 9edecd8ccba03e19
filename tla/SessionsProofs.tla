--------------------------- MODULE SessionsProofs ---------------------------
(***************************************************************************)
(* Whoever holds a session knew the account's present credentials, and     *)
(* every effect of a request was authorized, for any number of sessions,   *)
(* sign-ins and requests.  What is inductive says, of a sign-in, that it   *)
(* is late or still right (AttemptInv); and of a request, that its notes   *)
(* cover the present moment (Tracks) and what it must have passed to be    *)
(* where it is (Earned).  A row is locked by one transaction at most       *)
(* (HeldOnce), so whatever waits in a circle is a pair.                    *)
(***************************************************************************)
EXTENDS Sessions, TLAPS

OpenRow == [phase : {"open"}, password : Password, email : Email, late : BOOLEAN]
SignIn  == [phase : {"verified", "checked"}, password : Password, email : Email, late : BOOLEAN]

OwnRequest ==
  [phase : Phases \ {"idle"}, op : OwnOps, session : Session, presents : Password,
   new : Password, wasActive : BOOLEAN, wasFree : BOOLEAN, proved : BOOLEAN]
ResetRequest  == [phase : {"principal", "locked"}, op : {"reset"}, new : Password]
RemoveRequest == [phase : {"principal", "locked"}, op : {"remove"}]

AccountOK ==
  /\ exists \in BOOLEAN /\ active \in BOOLEAN /\ mustChange \in BOOLEAN
  /\ password \in Password /\ email \in Email

AttemptInv ==
  \A a \in Attempt :
    \/ attempt[a] = Idle
    \/ attempt[a].late
    \/ /\ attempt[a].password = password /\ attempt[a].email = email
       /\ attempt[a].phase = "checked" => active

SignedInInv ==
  /\ AccountOK
  /\ session \in [Session -> {NoRow} \cup OpenRow]
  /\ attempt \in [Attempt -> {Idle} \cup SignIn]
  /\ AttemptInv
  /\ SessionsMatchTheAccount

Tracks(q) ==
  /\ active => q.wasActive
  /\ ~mustChange => q.wasFree
  /\ q.presents = password => q.proved

Earned(q) ==
  /\ q.phase # "begun" => q.wasActive /\ (q.op \in Usable => q.wasFree)
  /\ (\/ q.phase = "proved"
      \/ q.phase = "locked" /\ q.op = "delete"
      \/ q.phase = "done" /\ q.op # "collect") => q.proved

Formed(q) ==
  q = Idle \/ q \in ResetRequest \/ q \in RemoveRequest \/ (q \in OwnRequest /\ Earned(q))

RequestInv ==
  /\ request = [r \in Request |-> request[r]]
  /\ \A r \in Request : Formed(request[r]) /\ (request[r] \in OwnRequest => Tracks(request[r]))

IInv == SignedInInv /\ RequestInv
-----------------------------------------------------------------------------
(* The kinds of records are told apart by what they have.                  *)

LEMMA Kinds ==
  ASSUME NEW q
  PROVE  /\ q = Idle => q.phase = "idle" /\ q \notin OwnRequest
         /\ q \in ResetRequest => q.op = "reset" /\ q.phase # "idle" /\ q \notin OwnRequest
         /\ q \in RemoveRequest => q.op = "remove" /\ q.phase # "idle" /\ q \notin OwnRequest
         /\ q \in OwnRequest => q.op \notin AdminOps /\ q.phase # "idle"
  BY DEF Idle, ResetRequest, RemoveRequest, OwnRequest, OwnOps, AdminOps, Phases

LEMMA NoteFacts ==
  ASSUME NEW q \in OwnRequest, active' \in BOOLEAN, mustChange' \in BOOLEAN
  PROVE  /\ Note(q) \in OwnRequest
         /\ Note(q).phase = q.phase /\ Note(q).op = q.op /\ Note(q).presents = q.presents
         /\ Note(q).wasActive = (q.wasActive \/ active')
         /\ Note(q).wasFree = (q.wasFree \/ ~mustChange')
         /\ Note(q).proved = (q.proved \/ q.presents = password')
  <1>1. ~(q.phase = "idle" \/ q.op \in AdminOps)
    BY Kinds
  <1>2. Note(q) = [q EXCEPT !.wasActive = q.wasActive \/ active',
                            !.wasFree = q.wasFree \/ ~mustChange',
                            !.proved = q.proved \/ q.presents = password']
    BY <1>1 DEF Note
  <1> QED
    BY <1>2 DEF OwnRequest

LEMMA NotOwn ==
  ASSUME NEW q, Formed(q), q \notin OwnRequest
  PROVE  Note(q) = q
  BY Kinds DEF Formed, Note, AdminOps

\* A request goes on, or ends, and leaves the account alone.
LEMMA MoveStep ==
  ASSUME RequestInv, UNCHANGED account, NEW r \in Request, NEW q,
         Formed(q), q \in OwnRequest => Tracks(q),
         request' = [request EXCEPT ![r] = q]
  PROVE  RequestInv'
  <1>1. /\ request' = [p \in Request |-> request'[p]]
        /\ \A p \in Request : request'[p] = IF p = r THEN q ELSE request[p]
    BY DEF RequestInv
  <1>2. ASSUME NEW p \in Request
        PROVE  Formed(request'[p]) /\ (request'[p] \in OwnRequest => Tracks(request'[p]))
    BY <1>1 DEF RequestInv
  <1>3. \A p \in Request : Formed(request[p])' /\ ((request[p] \in OwnRequest) => Tracks(request[p]))'
    BY <1>2 DEF Formed, Tracks, Earned, account
  <1> QED
    BY <1>1, <1>3 DEF RequestInv

\* The account changes, and every request under way notes it.
LEMMA NotedStep ==
  ASSUME NEW requests, requests = [p \in Request |-> requests[p]],
         \A p \in Request : Formed(requests[p]),
         active' \in BOOLEAN, mustChange' \in BOOLEAN, Noted(requests)
  PROVE  RequestInv'
  <1>1. /\ request' = [p \in Request |-> request'[p]]
        /\ \A p \in Request : request'[p] = Note(requests[p])
    BY DEF Noted
  <1>2. ASSUME NEW p \in Request
        PROVE  Formed(request[p])' /\ ((request[p] \in OwnRequest) => Tracks(request[p]))'
    <2> DEFINE q == requests[p]
    <2>1. CASE q \in OwnRequest
      <3>1. Earned(q)
        BY <2>1, Kinds DEF Formed
      <3>2. Note(q) \in OwnRequest /\ Earned(Note(q))
        BY <2>1, <3>1, NoteFacts DEF Earned, OwnRequest
      <3>3. /\ active' => Note(q).wasActive
            /\ ~mustChange' => Note(q).wasFree
            /\ Note(q).presents = password' => Note(q).proved
        BY <2>1, NoteFacts
      <3> QED
        BY <1>1, <3>2, <3>3 DEF Formed, Tracks, Earned
    <2>2. CASE q \notin OwnRequest
      BY <1>1, <2>2, NotOwn DEF Formed
    <2> QED
      BY <2>1, <2>2
  <1> QED
    BY <1>1, <1>2 DEF RequestInv

\* A transaction that changed the account is done, or its request is over.
LEMMA EndStep ==
  ASSUME RequestInv, active' \in BOOLEAN, mustChange' \in BOOLEAN, NEW r \in Request, NEW q,
         Formed(q), Noted([request EXCEPT ![r] = q])
  PROVE  RequestInv'
  <1> DEFINE requests == [request EXCEPT ![r] = q]
  <1>1. /\ requests = [p \in Request |-> requests[p]]
        /\ \A p \in Request : Formed(requests[p])
    BY DEF RequestInv
  <1> HIDE DEF requests
  <1> QED
    BY <1>1, NotedStep DEF requests

\* What an own request becomes when its phase is set.
LEMMA PhaseFacts ==
  ASSUME NEW q \in OwnRequest, NEW p \in Phases \ {"idle"}
  PROVE  LET n == [q EXCEPT !.phase = p]
         IN  /\ n \in OwnRequest /\ n.phase = p /\ n.op = q.op /\ n.presents = q.presents
             /\ n.wasActive = q.wasActive /\ n.wasFree = q.wasFree /\ n.proved = q.proved
  BY DEF OwnRequest
-----------------------------------------------------------------------------
(* One lemma per kind of request step.                                     *)

LEMMA BeginRequest ==
  ASSUME RequestInv, AccountOK, NEW r \in Request, NEW op \in OwnOps,
         NEW p \in Password, NEW new \in Password, Begin(r, op, p, new)
  PROVE  RequestInv'
  <1>1. PICK s \in Session :
          request' = [request EXCEPT ![r] =
            [phase |-> "begun", op |-> op, session |-> s, presents |-> p, new |-> new,
             wasActive |-> active, wasFree |-> ~mustChange, proved |-> p = password]]
    BY DEF Begin, Open
  <1> DEFINE q == [phase |-> "begun", op |-> op, session |-> s, presents |-> p, new |-> new,
                   wasActive |-> active, wasFree |-> ~mustChange, proved |-> p = password]
  <1>2. q \in OwnRequest
    BY DEF AccountOK, OwnRequest, Phases
  <1>3. Earned(q) /\ Tracks(q)
    BY DEF Earned, Tracks
  <1> HIDE DEF q
  <1>4. Formed(q)
    BY <1>2, <1>3 DEF Formed
  <1>5. UNCHANGED account
    BY DEF Begin
  <1>6. request' = [request EXCEPT ![r] = q]
    BY <1>1 DEF q
  <1> QED
    BY <1>3, <1>4, <1>5, <1>6, MoveStep

LEMMA StopRequest ==
  ASSUME RequestInv, NEW r \in Request, Stop(r), UNCHANGED account
  PROVE  RequestInv'
  <1>1. Formed(Idle) /\ Idle \notin OwnRequest
    BY Kinds DEF Formed
  <1> QED
    BY <1>1, MoveStep DEF Stop

\* The phase of an own request advances to p, which it has earned.
LEMMA GoRequest ==
  ASSUME RequestInv, NEW r \in Request, request[r] \in OwnRequest, UNCHANGED account,
         NEW p \in Phases \ {"idle"}, Go(r, p), Earned([request[r] EXCEPT !.phase = p])
  PROVE  RequestInv'
  <1> DEFINE n == [request[r] EXCEPT !.phase = p]
  <1>1. n \in OwnRequest /\ Tracks(n)
    BY PhaseFacts DEF RequestInv, Tracks
  <1>2. request' = [request EXCEPT ![r] = n]
    BY DEF Go
  <1>3. Formed(n)
    BY <1>1 DEF Formed
  <1> HIDE DEF n
  <1> QED
    BY <1>1, <1>2, <1>3, MoveStep

\* Where a request is tells what it is.
LEMMA WhereIs ==
  ASSUME RequestInv, NEW r \in Request
  PROVE  /\ request[r].phase \in {"begun", "proved", "done"} => request[r] \in OwnRequest
         /\ request[r] # Idle /\ request[r].op \in OwnOps => request[r] \in OwnRequest
         /\ request[r] \in OwnRequest => Earned(request[r]) /\ Tracks(request[r])
  BY Kinds DEF RequestInv, Formed, ResetRequest, RemoveRequest, OwnOps, Idle

LEMMA ResolveRequest ==
  ASSUME RequestInv, AccountOK, NEW r \in Request, Resolve(r)
  PROVE  RequestInv'
  <1> DEFINE q == request[r]
  <1>1. q \in OwnRequest /\ Tracks(q) /\ UNCHANGED account
    BY WhereIs DEF Resolve
  <1>2. CASE Allowed(q.op)
    <2>1. PICK p \in {"done", "principal"} : Go(r, p) /\ (p = "done" <=> q.op = "collect")
      BY <1>2 DEF Resolve
    <2>2. Earned([q EXCEPT !.phase = p])
      BY <1>1, <1>2, <2>1, PhaseFacts DEF Allowed, Tracks, Earned, Phases
    <2> QED
      BY <1>1, <2>1, <2>2, GoRequest DEF Phases
  <1>3. CASE ~Allowed(q.op)
    BY <1>1, <1>3, StopRequest DEF Resolve
  <1> QED
    BY <1>2, <1>3

LEMMA ProveRequest ==
  ASSUME RequestInv, NEW r \in Request, Prove(r)
  PROVE  RequestInv'
  <1> DEFINE q == request[r]
  <1>1. q \in OwnRequest /\ Tracks(q) /\ Earned(q) /\ UNCHANGED account
    BY WhereIs DEF Prove, Proving, OwnOps, Idle
  <1>2. CASE exists /\ q.presents = password
    <2>1. Earned([q EXCEPT !.phase = "proved"])
      BY <1>1, <1>2, PhaseFacts DEF Prove, Tracks, Earned, Phases
    <2> QED
      BY <1>1, <1>2, <2>1, GoRequest DEF Prove, Phases
  <1>3. CASE ~(exists /\ q.presents = password)
    BY <1>1, <1>3, StopRequest DEF Prove
  <1> QED
    BY <1>2, <1>3

LEMMA LockRequest ==
  ASSUME RequestInv, NEW r \in Request, Lock(r)
  PROVE  RequestInv'
  <1> DEFINE q == request[r]
  <1>1. UNCHANGED account
    BY DEF Lock
  <1>2. CASE ~exists
    BY <1>1, <1>2, StopRequest DEF Lock
  <1>3. CASE exists /\ q \in OwnRequest
    <2>1. Earned([q EXCEPT !.phase = "locked"])
      BY <1>3, WhereIs, PhaseFacts DEF Lock, Ready, Earned, Phases
    <2> QED
      BY <1>1, <1>3, <2>1, GoRequest DEF Lock, Phases
  <1>4. CASE exists /\ q \notin OwnRequest
    <2> DEFINE n == [q EXCEPT !.phase = "locked"]
    <2>1. q \in ResetRequest \/ q \in RemoveRequest
      BY <1>4 DEF RequestInv, Formed, Lock
    <2>2. n \in ResetRequest \/ n \in RemoveRequest
      BY <2>1 DEF ResetRequest, RemoveRequest
    <2>3. Formed(n) /\ n \notin OwnRequest /\ request' = [request EXCEPT ![r] = n]
      BY <1>4, <2>2, Kinds DEF Formed, Lock, Go
    <2> HIDE DEF n
    <2> QED
      BY <1>1, <2>3, MoveStep
  <1> QED
    BY <1>2, <1>3, <1>4

\* A transaction of an own request commits.
LEMMA DoneRequest ==
  ASSUME RequestInv, active' \in BOOLEAN, mustChange' \in BOOLEAN, NEW r \in Request,
         request[r] \in OwnRequest, request[r].phase # "begun", request[r].proved,
         Noted([request EXCEPT ![r].phase = "done"])
  PROVE  RequestInv'
  <1> DEFINE n == [request[r] EXCEPT !.phase = "done"]
  <1>1. n \in OwnRequest /\ Earned(n)
    BY PhaseFacts, WhereIs DEF Earned, Phases
  <1>2. Formed(n) /\ Noted([request EXCEPT ![r] = n])
    BY <1>1 DEF Formed
  <1> HIDE DEF n
  <1> QED
    BY <1>2, EndStep

LEMMA OwnChange ==
  ASSUME RequestInv, AccountOK, NEW r \in Request,
         \/ ChangeEmail(r) \/ ChangeAdminEmail(r) \/ Deactivate(r)
         \/ request[r].op = "changePassword" /\ ChangePassword(r)
         \/ request[r].op = "delete" /\ Delete(r)
  PROVE  RequestInv'
  <1>1. /\ request[r].phase # "idle" /\ request[r] # Idle /\ request[r].phase # "begun"
        /\ request[r].op \in OwnOps
    BY DEF ChangeEmail, ChangeAdminEmail, Deactivate, ChangePassword, Delete, Idle, OwnOps
  <1>2. request[r] \in OwnRequest /\ Earned(request[r]) /\ Tracks(request[r])
    BY <1>1, WhereIs
  <1>3. CASE ChangeEmail(r) \/ ChangeAdminEmail(r) \/ Deactivate(r)
    <2>1. request[r].proved
      BY <1>2, <1>3 DEF ChangeEmail, ChangeAdminEmail, Deactivate, Earned
    <2>2. /\ active' \in BOOLEAN /\ mustChange' \in BOOLEAN
          /\ Noted([request EXCEPT ![r].phase = "done"])
      BY <1>3 DEF ChangeEmail, ChangeAdminEmail, Deactivate, AccountOK
    <2> QED
      BY <1>1, <1>2, <2>1, <2>2, DoneRequest
  <1>4. CASE ChangePassword(r) /\ Acceptable(request[r])
    <2>1. request[r].proved
      BY <1>2, <1>4 DEF Acceptable, Tracks
    <2>2. /\ active' \in BOOLEAN /\ mustChange' \in BOOLEAN
          /\ Noted([request EXCEPT ![r].phase = "done"])
      BY <1>4 DEF ChangePassword, AccountOK
    <2> QED
      BY <1>1, <1>2, <2>1, <2>2, DoneRequest
  <1>5. CASE ChangePassword(r) /\ ~Acceptable(request[r])
    BY <1>5, StopRequest DEF ChangePassword
  <1>6. CASE request[r].op = "delete" /\ Delete(r)
    <2>1. request[r].proved
      BY <1>2, <1>6 DEF Delete, Earned
    <2>2. /\ active' \in BOOLEAN /\ mustChange' \in BOOLEAN
          /\ Noted([request EXCEPT ![r].phase = "done"])
      BY <1>2, <1>6 DEF Delete, AccountOK, RequestInv
    <2> QED
      BY <1>1, <1>2, <2>1, <2>2, DoneRequest
  <1> QED
    BY <1>3, <1>4, <1>5, <1>6

LEMMA AdminChange ==
  ASSUME RequestInv, AccountOK, NEW r \in Request,
         \/ Reset(r) \/ (request[r].op # "delete" /\ Delete(r))
  PROVE  RequestInv'
  <1>1. active' \in BOOLEAN /\ mustChange' \in BOOLEAN
    BY DEF Reset, Delete, AccountOK
  <1>2. Noted([request EXCEPT ![r] = Idle])
    BY DEF Reset, Delete, RequestInv
  <1> QED
    BY <1>1, <1>2, EndStep DEF Formed

LEMMA AdminRequest ==
  ASSUME RequestInv, NEW r \in Request, SendReset(r) \/ SendRemove(r)
  PROVE  RequestInv'
  <1>1. CASE SendReset(r)
    <2>1. PICK new \in Password :
            request' = [request EXCEPT ![r] = [phase |-> "principal", op |-> "reset", new |-> new]]
      BY <1>1 DEF SendReset
    <2> DEFINE q == [phase |-> "principal", op |-> "reset", new |-> new]
    <2>2. q \in ResetRequest
      BY DEF ResetRequest
    <2> HIDE DEF q
    <2>3. Formed(q) /\ q \notin OwnRequest
      BY <2>2, Kinds DEF Formed
    <2> QED
      BY <1>1, <2>1, <2>3, MoveStep DEF SendReset, q
  <1>2. CASE SendRemove(r)
    <2> DEFINE q == [phase |-> "principal", op |-> "remove"]
    <2>1. q \in RemoveRequest
      BY DEF RemoveRequest
    <2>2. request' = [request EXCEPT ![r] = q]
      BY <1>2 DEF SendRemove
    <2> HIDE DEF q
    <2>3. Formed(q) /\ q \notin OwnRequest
      BY <2>1, Kinds DEF Formed
    <2> QED
      BY <1>2, <2>2, <2>3, MoveStep DEF SendRemove
  <1> QED
    BY <1>1, <1>2

LEMMA StatusStep ==
  ASSUME RequestInv, AccountOK, SetStatus
  PROVE  RequestInv'
  <1>1. active' \in BOOLEAN /\ mustChange' \in BOOLEAN /\ Noted(request)
    BY DEF SetStatus, AccountOK
  <1> QED
    BY <1>1, NotedStep DEF RequestInv

LEMMA SameRequests ==
  ASSUME RequestInv, UNCHANGED <<active, mustChange, password, request>>
  PROVE  RequestInv'
  BY DEF RequestInv, Formed, Tracks, Earned
-----------------------------------------------------------------------------
(* The sessions.                                                           *)

LEMMA SameSessions ==
  ASSUME SignedInInv, UNCHANGED <<account, session, attempt>>
  PROVE  SignedInInv'
  BY DEF SignedInInv, AccountOK, AttemptInv, SessionsMatchTheAccount, Open, account

LEMMA LateSignIn ==
  ASSUME NEW q \in SignIn
  PROVE  [q EXCEPT !.late = TRUE] \in SignIn /\ [q EXCEPT !.late = TRUE].late
  BY DEF SignIn

LEMMA OvertakenSignIns ==
  ASSUME SignedInInv, Overtaken
  PROVE  attempt' \in [Attempt -> {Idle} \cup SignIn] /\ AttemptInv'
  <1>1. ASSUME NEW a \in Attempt
        PROVE  IF attempt[a] = Idle THEN attempt'[a] = Idle
               ELSE attempt'[a] \in SignIn /\ attempt'[a].late
    <2>1. CASE attempt[a] = Idle
      BY <2>1 DEF Overtaken
    <2>2. CASE attempt[a] # Idle
      BY <2>2, LateSignIn DEF Overtaken, SignedInInv
    <2> QED
      BY <2>1, <2>2
  <1> QED
    BY <1>1 DEF Overtaken, AttemptInv

\* Whatever changes of the account, with all sessions closed and all sign-ins late.
LEMMA RevokeStep ==
  ASSUME SignedInInv, AccountOK', RevokeAll, Overtaken
  PROVE  SignedInInv'
  <1>1. session' \in [Session -> {NoRow} \cup OpenRow] /\ Open' = {}
    BY DEF RevokeAll, Open
  <1> QED
    BY <1>1, OvertakenSignIns DEF SignedInInv, SessionsMatchTheAccount

LEMMA SignInStep ==
  ASSUME SignedInInv, NEW a \in Attempt, Verify(a) \/ Check(a)
  PROVE  SignedInInv'
  <1>1. PICK n \in {Idle} \cup SignIn :
          /\ attempt' = [attempt EXCEPT ![a] = n]
          /\ \/ n = Idle \/ n.late
             \/ /\ n.password = password /\ n.email = email
                /\ n.phase = "checked" => active
    <2>1. CASE Verify(a)
      <3> DEFINE n == [phase |-> "verified", password |-> password, email |-> email, late |-> FALSE]
      <3>1. n \in SignIn /\ n.password = password /\ n.email = email /\ n.phase # "checked"
        BY DEF SignIn, SignedInInv, AccountOK
      <3>2. attempt' = [attempt EXCEPT ![a] = n]
        BY <2>1 DEF Verify
      <3> QED
        BY <3>1, <3>2
    <2>2. CASE Check(a) /\ exists /\ active
      <3> DEFINE n == [attempt[a] EXCEPT !.phase = "checked"]
      <3>1. attempt[a] \in SignIn /\ attempt[a] # Idle
        BY <2>2 DEF Check, SignedInInv, Idle
      <3>2. /\ n \in SignIn /\ n.late = attempt[a].late
            /\ n.password = attempt[a].password /\ n.email = attempt[a].email
        BY <3>1 DEF SignIn
      <3>3. attempt' = [attempt EXCEPT ![a] = n]
        BY <2>2 DEF Check
      <3>4. n.late \/ (n.password = password /\ n.email = email)
        BY <3>1, <3>2 DEF SignedInInv, AttemptInv
      <3> HIDE DEF n
      <3> QED
        BY <2>2, <3>2, <3>3, <3>4
    <2>3. CASE Check(a) /\ ~(exists /\ active)
      BY <2>3 DEF Check
    <2> QED
      BY <2>1, <2>2, <2>3
  <1>2. UNCHANGED <<account, session>>
    BY DEF Verify, Check
  <1>3. attempt' \in [Attempt -> {Idle} \cup SignIn] /\ AttemptInv'
    BY <1>1, <1>2 DEF SignedInInv, AttemptInv, account
  <1> QED
    BY <1>2, <1>3 DEF SignedInInv, AccountOK, SessionsMatchTheAccount, Open, account

LEMMA CreateStep ==
  ASSUME SignedInInv, NEW a \in Attempt, Create(a)
  PROVE  SignedInInv'
  <1>1. attempt[a] \in SignIn /\ attempt[a] # Idle
    BY DEF Create, SignedInInv, Idle
  <1>2. /\ attempt' \in [Attempt -> {Idle} \cup SignIn]
        /\ AttemptInv' /\ UNCHANGED account
    BY DEF Create, SignedInInv, AttemptInv, account
  <1>3. CASE exists
    <2>1. PICK s \in Session : session' = [session EXCEPT ![s] = [attempt[a] EXCEPT !.phase = "open"]]
      BY <1>3 DEF Create
    <2> DEFINE n == [attempt[a] EXCEPT !.phase = "open"]
    <2>2. /\ n \in OpenRow /\ n.late = attempt[a].late
          /\ n.password = attempt[a].password /\ n.email = attempt[a].email
      BY <1>1 DEF SignIn, OpenRow
    <2>3. n.late \/ (exists /\ active /\ n.password = password /\ n.email = email)
      BY <1>1, <1>3, <2>2 DEF Create, SignedInInv, AttemptInv
    <2>4. session' = [session EXCEPT ![s] = n]
      BY <2>1
    <2> HIDE DEF n
    <2>5. session' \in [Session -> {NoRow} \cup OpenRow]
      BY <2>2, <2>4 DEF SignedInInv
    <2>6. SessionsMatchTheAccount'
      BY <1>2, <2>3, <2>4 DEF SignedInInv, SessionsMatchTheAccount, Open, account
    <2> QED
      BY <1>2, <2>5, <2>6 DEF SignedInInv, AccountOK, account
  <1>4. CASE ~exists
    BY <1>2, <1>4 DEF Create, SignedInInv, AccountOK, SessionsMatchTheAccount, Open, account
  <1> QED
    BY <1>3, <1>4

LEMMA EndSession ==
  ASSUME SignedInInv, NEW s \in Session, End(s)
  PROVE  SignedInInv'
  BY DEF End, SignedInInv, AccountOK, AttemptInv, SessionsMatchTheAccount, Open, account

\* An own change of the password keeps the session it came from, which knows the
\* new one.
LEMMA PasswordStep ==
  ASSUME SignedInInv, NEW r \in Request, request[r] \in OwnRequest, ChangePassword(r)
  PROVE  SignedInInv'
  <1> DEFINE own == request[r].session
             new == request[r].new
             n   == [session[own] EXCEPT !.password = new]
  <1>1. own \in Session /\ new \in Password
    BY DEF OwnRequest
  <1>2. CASE ~Acceptable(request[r])
    BY <1>2, SameSessions DEF ChangePassword
  <1>3. CASE Acceptable(request[r])
    <2>1. /\ UNCHANGED <<exists, active, email>> /\ password' = new /\ mustChange' = FALSE
          /\ Overtaken
          /\ \A s \in Session : session'[s] = IF s \notin Open \/ s # own THEN NoRow ELSE n
          /\ session' = [s \in Session |-> session'[s]]
      BY <1>3 DEF ChangePassword, Revoked
    <2>2. AccountOK'
      BY <1>1, <2>1 DEF SignedInInv, AccountOK
    <2>3. ASSUME own \in Open
          PROVE  /\ n \in OpenRow /\ n.late = session[own].late
                 /\ n.password = new /\ n.email = session[own].email
                 /\ n.late \/ (exists /\ active /\ n.email = email)
      <3>1. session[own] \in OpenRow
        BY <2>3 DEF SignedInInv, Open
      <3>2. session[own].late \/ (exists /\ active /\ session[own].email = email)
        BY <2>3 DEF SignedInInv, SessionsMatchTheAccount
      <3> QED
        BY <1>1, <3>1, <3>2 DEF OpenRow
    <2> HIDE DEF n
    <2>4. session' \in [Session -> {NoRow} \cup OpenRow]
      BY <2>1, <2>3
    <2>5. SessionsMatchTheAccount'
      BY <2>1, <2>3 DEF SessionsMatchTheAccount, Open
    <2>6. attempt' \in [Attempt -> {Idle} \cup SignIn] /\ AttemptInv'
      BY <2>1, OvertakenSignIns
    <2> QED
      BY <2>2, <2>4, <2>5, <2>6 DEF SignedInInv
  <1> QED
    BY <1>2, <1>3

\* The sessions an administrator's own change of the address keeps carry it on.
LEMMA AddressStep ==
  ASSUME SignedInInv, NEW r \in Request, ChangeAdminEmail(r)
  PROVE  SignedInInv'
  <1>1. /\ UNCHANGED <<exists, active, mustChange, password>> /\ email' \in Email /\ Overtaken
        /\ session' = [s \in Session |->
             IF session[s] = NoRow THEN NoRow ELSE [session[s] EXCEPT !.email = email']]
    BY DEF ChangeAdminEmail
  <1>2. ASSUME NEW s \in Session, session[s] # NoRow
        PROVE  /\ session'[s] \in OpenRow /\ session'[s].email = email'
               /\ session'[s].late = session[s].late /\ session'[s].password = session[s].password
    <2>1. session[s] \in OpenRow
      BY <1>2 DEF SignedInInv
    <2>2. session'[s] = [session[s] EXCEPT !.email = email']
      BY <1>1, <1>2
    <2> QED
      BY <1>1, <2>1, <2>2 DEF OpenRow
  <1>3. session' \in [Session -> {NoRow} \cup OpenRow]
    BY <1>1, <1>2
  <1>4. SessionsMatchTheAccount'
    BY <1>1, <1>2 DEF SignedInInv, SessionsMatchTheAccount, Open
  <1>5. attempt' \in [Attempt -> {Idle} \cup SignIn] /\ AttemptInv'
    BY <1>1, OvertakenSignIns
  <1> QED
    BY <1>1, <1>3, <1>4, <1>5 DEF SignedInInv, AccountOK

LEMMA DeleteStep ==
  ASSUME SignedInInv, NEW r \in Request, Delete(r)
  PROVE  SignedInInv'
  <1>1. /\ exists' = FALSE /\ RevokeAll
        /\ UNCHANGED <<active, mustChange, password, email, attempt>>
    BY DEF Delete
  <1>2. session' \in [Session -> {NoRow} \cup OpenRow] /\ Open' = {}
    BY <1>1 DEF RevokeAll, Open
  <1> QED
    BY <1>1, <1>2 DEF SignedInInv, AccountOK, AttemptInv, SessionsMatchTheAccount
-----------------------------------------------------------------------------
LEMMA InitIInv == Init => IInv
  <1> SUFFICES ASSUME Init PROVE IInv
    OBVIOUS
  <1>1. SignedInInv
    BY DEF Init, SignedInInv, AccountOK, AttemptInv, SessionsMatchTheAccount, Open
  <1>2. RequestInv
    BY Kinds DEF Init, RequestInv, Formed
  <1> QED
    BY <1>1, <1>2 DEF IInv

LEMMA NextIInv == IInv /\ [Next]_vars => IInv'
  <1> SUFFICES ASSUME IInv, [Next]_vars PROVE IInv'
    OBVIOUS
  <1>1. SignedInInv /\ RequestInv /\ AccountOK
    BY DEF IInv, SignedInInv
  <1> USE <1>1
  <1>2. ASSUME NEW a \in Attempt, Verify(a) \/ Check(a) \/ Create(a) PROVE IInv'
    <2>1. SignedInInv'
      BY <1>2, SignInStep, CreateStep
    <2>2. RequestInv'
      BY <1>2, SameRequests DEF Verify, Check, Create, account
    <2> QED
      BY <2>1, <2>2 DEF IInv
  <1>3. ASSUME NEW s \in Session, End(s) PROVE IInv'
    <2>1. SignedInInv'
      BY <1>3, EndSession
    <2>2. RequestInv'
      BY <1>3, SameRequests DEF End, account
    <2> QED
      BY <2>1, <2>2 DEF IInv
  <1>4. ASSUME NEW r \in Request,
               \/ SendPassword(r) \/ SendEmail(r) \/ SendAdminEmail(r) \/ SendDeactivate(r)
               \/ SendDelete(r) \/ SendOther(r)
        PROVE  IInv'
    <2>1. PICK op \in OwnOps, p \in Password, new \in Password : Begin(r, op, p, new)
      BY <1>4 DEF SendPassword, SendEmail, SendAdminEmail, SendDeactivate, SendDelete, SendOther, OwnOps
    <2>2. SignedInInv'
      BY <2>1, SameSessions DEF Begin
    <2>3. RequestInv'
      BY <2>1, BeginRequest
    <2> QED
      BY <2>2, <2>3 DEF IInv
  <1>5. ASSUME NEW r \in Request,
               \/ SendReset(r) \/ SendRemove(r) \/ Resolve(r) \/ Prove(r) \/ Lock(r) \/ Fail(r)
        PROVE  IInv'
    <2>1. UNCHANGED <<account, session, attempt>>
      BY <1>5 DEF SendReset, SendRemove, Resolve, Prove, Lock, Fail
    <2>2. SignedInInv'
      BY <2>1, SameSessions
    <2>3. RequestInv'
      BY <1>5, <2>1, AdminRequest, ResolveRequest, ProveRequest, LockRequest, StopRequest DEF Fail
    <2> QED
      BY <2>2, <2>3 DEF IInv
  <1>6. ASSUME NEW r \in Request, ChangeEmail(r) PROVE IInv'
    <2>1. RequestInv'
      BY <1>6, OwnChange
    <2>2. CASE exists
      BY <1>6, <2>1, <2>2, RevokeStep DEF ChangeEmail, AccountOK, IInv
    <2>3. CASE ~exists
      BY <1>6, <2>1, <2>3, SameSessions DEF ChangeEmail, account, IInv
    <2> QED
      BY <2>2, <2>3
  <1>7. ASSUME NEW r \in Request, ChangeAdminEmail(r) PROVE IInv'
    BY <1>7, AddressStep, OwnChange DEF IInv
  <1>8. ASSUME NEW r \in Request, Deactivate(r) PROVE IInv'
    BY <1>8, RevokeStep, OwnChange DEF Deactivate, AccountOK, IInv
  <1>9. ASSUME NEW r \in Request, ChangePassword(r) PROVE IInv'
    <2>1. request[r] \in OwnRequest /\ request[r].op = "changePassword"
      BY <1>9, WhereIs DEF ChangePassword, OwnOps, Idle
    <2> QED
      BY <1>9, <2>1, PasswordStep, OwnChange DEF IInv
  <1>10. ASSUME NEW r \in Request, Reset(r) PROVE IInv'
    <2>1. request[r] \in ResetRequest
      BY <1>10, Kinds DEF Reset, RequestInv, Formed, RemoveRequest, OwnRequest, OwnOps
    <2>2. AccountOK'
      BY <1>10, <2>1 DEF Reset, ResetRequest, AccountOK
    <2>3. RevokeAll /\ Overtaken
      BY <1>10 DEF Reset
    <2>4. SignedInInv'
      BY <2>2, <2>3, RevokeStep
    <2>5. RequestInv'
      BY <1>10, AdminChange
    <2> QED
      BY <2>4, <2>5 DEF IInv
  <1>11. ASSUME NEW r \in Request, Delete(r) PROVE IInv'
    BY <1>11, DeleteStep, OwnChange, AdminChange DEF IInv
  <1>12. CASE SetEmail
    <2>1. RequestInv'
      BY <1>12, SameRequests DEF SetEmail
    <2> QED
      BY <1>12, <2>1, RevokeStep DEF SetEmail, AccountOK, IInv
  <1>13. CASE SetStatus
    <2>1. RequestInv' /\ AccountOK'
      BY <1>13, StatusStep DEF SetStatus, AccountOK
    <2>2. CASE active
      BY <1>13, <2>1, <2>2, RevokeStep DEF SetStatus, IInv
    <2>3. CASE ~active
      <3>1. SignedInInv'
        BY <1>13, <2>1, <2>3
        DEF SetStatus, SignedInInv, AttemptInv, SessionsMatchTheAccount, Open
      <3> QED
        BY <2>1, <3>1 DEF IInv
    <2> QED
      BY <2>2, <2>3
  <1>14. CASE UNCHANGED vars
    BY <1>14, SameSessions, SameRequests DEF vars, account, IInv
  <1> QED
    BY <1>2, <1>3, <1>4, <1>5, <1>6, <1>7, <1>8, <1>9, <1>10, <1>11, <1>12, <1>13, <1>14 DEF Next

\* The invariant that the theorems below rest on.
THEOREM AlwaysIInv == Spec => []IInv
  BY InitIInv, NextIInv, PTL DEF Spec

\* The types of the account, its sessions, sign-ins and requests.
THEOREM TypeCorrect == Spec => []TypeOK
  <1>1. IInv => TypeOK
    <2> SUFFICES ASSUME IInv PROVE TypeOK
      OBVIOUS
    <2>1. \A r \in Request : request[r].phase \in Phases
      BY DEF IInv, RequestInv, Formed, Idle, ResetRequest, RemoveRequest, OwnRequest, Phases
    <2> QED
      BY <2>1 DEF IInv, SignedInInv, AccountOK, OpenRow, SignIn, TypeOK
  <1> QED
    BY <1>1, AlwaysIInv, PTL

\* Whoever holds a session knew the account's present credentials, but for
\* sign-ins that were under way when they changed.
THEOREM SessionsMatch == Spec => []SessionsMatchTheAccount
  <1>1. IInv => SessionsMatchTheAccount
    BY DEF IInv, SignedInInv
  <1> QED
    BY <1>1, AlwaysIInv, PTL

\* Every effect of a request was authorized at a moment since it began.
THEOREM Authorized == Spec => []EffectsAreAuthorized
  <1>1. IInv => EffectsAreAuthorized
    <2> SUFFICES ASSUME IInv, NEW r \in Request, request[r].phase = "done"
                 PROVE  /\ request[r].wasActive
                        /\ request[r].op \in Usable => request[r].wasFree
                        /\ request[r].op # "collect" => request[r].proved
      BY DEF EffectsAreAuthorized
    <2>1. request[r] \in OwnRequest /\ Earned(request[r])
      BY WhereIs DEF IInv
    <2> QED
      BY <2>1 DEF Earned
  <1> QED
    BY <1>1, AlwaysIInv, PTL

\* A password an administrator set stands until a request presents it, or an
\* administrator sets another.
THEOREM ResetsStand == Spec => ResetStands
  <1>1. Next /\ mustChange /\ ~mustChange' =>
          \E r \in Request : request[r].phase = "locked" /\ request[r].presents = password
    BY DEF Next, account, Verify, Check, Create, End, SendPassword, SendEmail, SendAdminEmail,
           SendDeactivate, SendDelete, SendOther, Begin, SendReset, SendRemove, Resolve, Prove,
           ChangeEmail, ChangeAdminEmail, Deactivate, Lock, ChangePassword, Acceptable, Reset,
           Delete, Fail, SetEmail, SetStatus
  <1> QED
    BY <1>1, PTL DEF Spec, ResetStands, vars, account
-----------------------------------------------------------------------------
(* The two rows.                                                           *)

\* A row is locked by one transaction at most.
HeldOnce ==
  \A q, r \in Request :
    request[q].phase = "locked" /\ request[r].phase = "locked"
      /\ First(request[q].op) = First(request[r].op) => q = r

\* Nobody comes to hold a row.
Releases ==
  \A p \in Request :
    request'[p].phase = "locked" => request[p].phase = "locked" /\ request'[p].op = request[p].op

\* Then none is held twice.
LEMMA ReleaseStep == HeldOnce /\ Releases => HeldOnce'
  BY DEF HeldOnce, Releases

\* A request goes on without a lock.
LEMMA MoveReleases ==
  ASSUME RequestInv, NEW r \in Request, NEW q, q.phase # "locked", request' = [request EXCEPT ![r] = q]
  PROVE  Releases
  <1>1. \A p \in Request : request'[p] = IF p = r THEN q ELSE request[p]
    BY DEF RequestInv
  <1> QED
    BY <1>1 DEF Releases

\* A transaction ends, or an administrator's statement.
LEMMA NotedReleases ==
  ASSUME RequestInv, active' \in BOOLEAN, mustChange' \in BOOLEAN,
         NEW requests, Noted(requests),
         \A p \in Request :
           \/ requests[p] = request[p]
           \/ requests[p] = Idle
           \/ requests[p] \in OwnRequest /\ requests[p].phase = "done"
  PROVE  Releases
  <1>1. \A p \in Request : request'[p] = Note(requests[p])
    BY DEF Noted
  <1> SUFFICES ASSUME NEW p \in Request, request'[p].phase = "locked"
               PROVE  request[p].phase = "locked" /\ request'[p].op = request[p].op
    BY DEF Releases
  <1>2. CASE requests[p] \in OwnRequest /\ requests[p].phase = "done"
    BY <1>1, <1>2, NoteFacts
  <1>3. CASE requests[p] = Idle
    BY <1>1, <1>3, Kinds DEF Note
  <1>4. CASE requests[p] = request[p] /\ request[p] \in OwnRequest
    BY <1>1, <1>4, NoteFacts
  <1>5. CASE requests[p] = request[p] /\ request[p] \notin OwnRequest
    BY <1>1, <1>5, NotOwn DEF RequestInv
  <1> QED
    BY <1>2, <1>3, <1>4, <1>5

\* A row is taken when nobody holds it.
LEMMA LockHolds ==
  ASSUME RequestInv, HeldOnce, NEW r \in Request, Lock(r)
  PROVE  HeldOnce'
  <1>1. CASE exists
    <2> DEFINE n == [request[r] EXCEPT !.phase = "locked"]
    <2>1. n.op = request[r].op
      <3>1. \/ request[r] \in ResetRequest \/ request[r] \in RemoveRequest \/ request[r] \in OwnRequest
        BY DEF RequestInv, Formed, Lock
      <3> QED
        BY <3>1, PhaseFacts DEF ResetRequest, RemoveRequest, Phases
    <2>2. request' = [request EXCEPT ![r] = n]
      BY <1>1 DEF Lock, Go
    <2>3. \A p \in Request : ~(request[p].phase = "locked" /\ First(request[p].op) = First(request[r].op))
      BY DEF Lock, Holders
    <2> HIDE DEF n
    <2>4. \A p \in Request : request'[p] = IF p = r THEN n ELSE request[p]
      BY <2>2 DEF RequestInv
    <2> QED
      BY <2>1, <2>3, <2>4 DEF HeldOnce
  <1>2. CASE ~exists
    <2>1. request' = [request EXCEPT ![r] = Idle] /\ Idle.phase # "locked"
      BY <1>2 DEF Lock, Stop, Idle
    <2> QED
      BY <2>1, MoveReleases, ReleaseStep
  <1> QED
    BY <1>1, <1>2

\* Every step.
LEMMA NextHeldOnce == IInv /\ HeldOnce /\ [Next]_vars => HeldOnce'
  <1> SUFFICES ASSUME IInv, HeldOnce, [Next]_vars PROVE HeldOnce'
    OBVIOUS
  <1>0. RequestInv /\ AccountOK /\ AccountOK' /\ Idle.phase # "locked"
    BY NextIInv DEF IInv, SignedInInv, Idle
  <1>1. CASE request' = request
    BY <1>1, ReleaseStep DEF Releases
  <1>2. ASSUME NEW r \in Request,
               \/ SendPassword(r) \/ SendEmail(r) \/ SendAdminEmail(r) \/ SendDeactivate(r)
               \/ SendDelete(r) \/ SendOther(r)
        PROVE  HeldOnce'
    <2>1. PICK op, p, new : Begin(r, op, p, new)
      BY <1>2 DEF SendPassword, SendEmail, SendAdminEmail, SendDeactivate, SendDelete, SendOther
    <2>2. PICK s \in Open :
            request' = [request EXCEPT ![r] =
              [phase |-> "begun", op |-> op, session |-> s, presents |-> p, new |-> new,
               wasActive |-> active, wasFree |-> ~mustChange, proved |-> p = password]]
      BY <2>1 DEF Begin
    <2> DEFINE q == [phase |-> "begun", op |-> op, session |-> s, presents |-> p, new |-> new,
                     wasActive |-> active, wasFree |-> ~mustChange, proved |-> p = password]
    <2>3. q.phase # "locked" /\ request' = [request EXCEPT ![r] = q]
      BY <2>2
    <2> HIDE DEF q
    <2> QED
      BY <1>0, <2>3, MoveReleases, ReleaseStep
  <1>3. ASSUME NEW r \in Request, SendReset(r) \/ SendRemove(r) PROVE HeldOnce'
    <2>1. \E q : q.phase # "locked" /\ request' = [request EXCEPT ![r] = q]
      <3>1. CASE SendReset(r)
        BY <3>1 DEF SendReset
      <3>2. CASE SendRemove(r)
        BY <3>2 DEF SendRemove
      <3> QED
        BY <1>3, <3>1, <3>2
    <2> QED
      BY <1>0, <2>1, MoveReleases, ReleaseStep
  <1>4. ASSUME NEW r \in Request, NEW p \in Phases \ {"idle", "locked"}, Go(r, p), request[r] \in OwnRequest
        PROVE  HeldOnce'
    <2> DEFINE n == [request[r] EXCEPT !.phase = p]
    <2>1. n.phase = p /\ request' = [request EXCEPT ![r] = n]
      BY <1>4, PhaseFacts DEF Go
    <2> HIDE DEF n
    <2> QED
      BY <1>0, <2>1, MoveReleases, ReleaseStep
  <1>5. ASSUME NEW r \in Request, Stop(r) PROVE HeldOnce'
    BY <1>0, <1>5, MoveReleases, ReleaseStep DEF Stop
  <1>6. ASSUME NEW r \in Request, Resolve(r) \/ Prove(r) PROVE HeldOnce'
    <2>1. request[r] \in OwnRequest
      BY <1>0, <1>6, WhereIs DEF Resolve, Prove, Proving, OwnOps, Idle
    <2>2. Stop(r) \/ \E p \in {"done", "principal", "proved"} : Go(r, p)
      BY <1>6 DEF Resolve, Prove
    <2> QED
      BY <1>4, <1>5, <2>1, <2>2 DEF Phases
  <1>7. ASSUME NEW r \in Request, Noted([request EXCEPT ![r].phase = "done"]), request[r] \in OwnRequest
        PROVE  HeldOnce'
    <2> DEFINE n == [request[r] EXCEPT !.phase = "done"]
               requests == [request EXCEPT ![r] = n]
    <2>1. n \in OwnRequest /\ n.phase = "done"
      BY <1>7, PhaseFacts DEF Phases
    <2>2. Noted(requests)
      BY <1>7
    <2>3. \A p \in Request : requests[p] = IF p = r THEN n ELSE request[p]
      BY <1>0 DEF RequestInv
    <2> HIDE DEF n, requests
    <2> QED
      BY <1>0, <2>1, <2>2, <2>3, NotedReleases, ReleaseStep DEF AccountOK
  <1>8. ASSUME NEW r \in Request, Noted([request EXCEPT ![r] = Idle]) PROVE HeldOnce'
    <2> DEFINE requests == [request EXCEPT ![r] = Idle]
    <2>1. \A p \in Request : requests[p] = IF p = r THEN Idle ELSE request[p]
      BY <1>0 DEF RequestInv
    <2>2. Noted(requests)
      BY <1>8
    <2> HIDE DEF requests
    <2> QED
      BY <1>0, <2>1, <2>2, NotedReleases, ReleaseStep DEF AccountOK
  <1>9. ASSUME NEW r \in Request, ChangeEmail(r) \/ ChangeAdminEmail(r) \/ Deactivate(r) PROVE HeldOnce'
    <2>1. request[r] \in OwnRequest
      BY <1>0, <1>9, WhereIs DEF ChangeEmail, ChangeAdminEmail, Deactivate
    <2> QED
      BY <1>7, <1>9, <2>1 DEF ChangeEmail, ChangeAdminEmail, Deactivate
  <1>10. ASSUME NEW r \in Request, ChangePassword(r) PROVE HeldOnce'
    <2>1. request[r] \in OwnRequest
      BY <1>0, <1>10, WhereIs DEF ChangePassword, OwnOps, Idle
    <2> QED
      BY <1>5, <1>7, <1>10, <2>1 DEF ChangePassword
  <1>11. ASSUME NEW r \in Request, Reset(r) PROVE HeldOnce'
    BY <1>8, <1>11 DEF Reset
  <1>12. ASSUME NEW r \in Request, Delete(r) PROVE HeldOnce'
    <2>1. CASE request[r].op = "delete"
      <3>1. request[r] \in OwnRequest
        BY <1>0, <1>12, <2>1, WhereIs DEF Delete, OwnOps, Idle
      <3>2. Noted([request EXCEPT ![r].phase = "done"])
        BY <1>0, <1>12, <2>1 DEF Delete, RequestInv
      <3> QED
        BY <1>7, <3>1, <3>2
    <2>2. CASE request[r].op # "delete"
      <3>1. Noted([request EXCEPT ![r] = Idle])
        BY <1>0, <1>12, <2>2 DEF Delete, RequestInv
      <3> QED
        BY <1>8, <3>1
    <2> QED
      BY <2>1, <2>2
  <1>13. CASE SetStatus
    BY <1>0, <1>13, NotedReleases, ReleaseStep DEF SetStatus, AccountOK
  <1>14. CASE SetEmail \/ UNCHANGED vars \/ \E a \in Attempt : Verify(a) \/ Check(a) \/ Create(a)
    BY <1>1, <1>14 DEF SetEmail, vars, Verify, Check, Create
  <1>15. CASE \E s \in Session : End(s)
    BY <1>1, <1>15 DEF End
  <1>16. ASSUME NEW r \in Request, Fail(r) PROVE HeldOnce'
    BY <1>5, <1>16 DEF Fail
  <1> QED
    BY <1>0, <1>2, <1>3, <1>6, <1>9, <1>10, <1>11, <1>12, <1>13, <1>14, <1>15, <1>16, LockHolds DEF Next

\* Transactions that all wait for one another.
Stuck(W) == W # {} /\ \A r \in W : Waiting(r) /\ Holders(Second(request[r].op)) \cap W # {}
Deletion(r) == request[r].op \in {"delete", "remove"}

\* However many transactions wait in a circle, it is a deletion and one that is
\* not, which hold one row each.
CirclesAreTwo ==
  \A W \in SUBSET Request : Stuck(W) => \E q, r \in W : W = {q, r} /\ Deletion(q) /\ ~Deletion(r)

\* Deadlocks over the account's two rows need a deletion, and are of two
\* transactions (src/modules/identity/change-password.ts, src/modules/admin/users.ts).
THEOREM DeadlocksNeedADeletion == Spec => [](OnlyDeletionsDeadlock /\ CirclesAreTwo)
  <1>1. ASSUME IInv, HeldOnce PROVE CirclesAreTwo
    <2> SUFFICES ASSUME NEW W \in SUBSET Request, Stuck(W)
                 PROVE  \E q, r \in W : W = {q, r} /\ Deletion(q) /\ ~Deletion(r)
      BY DEF CirclesAreTwo
    <2>1. PICK p \in W : TRUE
      BY DEF Stuck
    <2>2. ASSUME NEW x \in W
          PROVE  \E y \in W : request[y].phase = "locked" /\ First(request[y].op) = Second(request[x].op)
      BY DEF Stuck, Holders
    <2>3. PICK o \in W : request[o].phase = "locked" /\ First(request[o].op) = Second(request[p].op)
      BY <2>1, <2>2
    <2>4. Deletion(p) <=> ~Deletion(o)
      BY <2>3 DEF Deletion, First, Second
    <2>5. ASSUME NEW x \in W PROVE x = p \/ x = o
      <3>1. request[x].phase = "locked" /\ request[p].phase = "locked"
        BY <2>1 DEF Stuck, Waiting
      <3>2. First(request[x].op) = First(request[p].op) \/ First(request[x].op) = First(request[o].op)
        BY <2>3 DEF First, Second
      <3> QED
        BY <1>1, <2>3, <3>1, <3>2 DEF HeldOnce
    <2>6. W = {p, o}
      BY <2>1, <2>5
    <2> QED
      BY <2>1, <2>4, <2>6
  <1>2. ASSUME CirclesAreTwo PROVE OnlyDeletionsDeadlock
    <2> SUFFICES ASSUME NEW q \in Request, NEW r \in Request, Waiting(q), Waiting(r),
                        q \in Holders(Second(request[r].op)), r \in Holders(Second(request[q].op))
                 PROVE  {request[q].op, request[r].op} \cap {"delete", "remove"} # {}
      BY DEF OnlyDeletionsDeadlock
    <2>1. Stuck({q, r}) /\ {q, r} \in SUBSET Request
      BY DEF Stuck
    <2>2. \E x \in {q, r} : Deletion(x)
      BY <1>2, <2>1 DEF CirclesAreTwo
    <2> QED
      BY <2>2 DEF Deletion
  <1>3. Init => HeldOnce
    BY DEF Init, HeldOnce, Idle
  <1>4. IInv /\ HeldOnce => OnlyDeletionsDeadlock /\ CirclesAreTwo
    BY <1>1, <1>2
  <1> QED
    BY <1>3, <1>4, NextHeldOnce, AlwaysIInv, PTL DEF Spec
=============================================================================
