--------------------------- MODULE HoldingsProofs ---------------------------
(***************************************************************************)
(* Holdings.tla implements the atomic registers of HoldingRegister.tla for *)
(* any number of devices, requests and stickers.  The argument is the row  *)
(* lock: a request that has read a quantity holds the lock until it ends,  *)
(* so what it read (RequestOK) is still stored when it commits.  What a    *)
(* device shows is accounted for by what it will show once the answers it  *)
(* waits for have come (ViewInv).                                          *)
(***************************************************************************)
EXTENDS Holdings, TLAPS

RequestOK(r) ==
  /\ phase[r] = "free" => call[r] = NoCall
  /\ phase[r] \in {"queued", "locked", "read"} => call[r] \in Change
  /\ phase[r] = "answered" => call[r] \in Answer
  /\ phase[r] \in {"locked", "read"} <=> lock = r
  /\ lock = r => present
  /\ phase[r] = "read" => previous[r] = Stored[call[r].sticker]

ServerInv == \A r \in Request : RequestOK(r)

IInv == TypeOK /\ ServerInv

HoldingsType == UNION {[S -> Quantity \ {0}] : S \in SUBSET Sticker}

-----------------------------------------------------------------------------
(* The data.                                                               *)

\* Applying a change to a quantity gives a quantity: the clamp's two ends.
LEMMA ResultIsQuantity ==
  ASSUME NEW change \in Change, NEW current \in Quantity
  PROVE  Result(change, current) \in Quantity
  BY HoldingAssumption DEF Change, Quantity, Delta, Result, Clamp

\* A row has a quantity, and no row is the quantity 0.
LEMMA StoredIsQuantity ==
  ASSUME holdings \in HoldingsType
  PROVE  Stored \in [Sticker -> Quantity]
  <1>1. PICK S \in SUBSET Sticker : holdings \in [S -> Quantity \ {0}]
    BY DEF HoldingsType
  <1>2. 0 \in Quantity
    BY HoldingAssumption DEF Quantity
  <1> QED
    BY <1>1, <1>2 DEF Stored

\* Deleting the row at 0 and upserting it otherwise stores exactly n.
LEMMA StoreEffect ==
  ASSUME holdings \in HoldingsType, NEW s \in Sticker, NEW n \in Quantity, Store(s, n)
  PROVE  /\ holdings' \in HoldingsType
         /\ Stored' = [Stored EXCEPT ![s] = n]
  <1>1. PICK S \in SUBSET Sticker : holdings \in [S -> Quantity \ {0}]
    BY DEF HoldingsType
  <1> DEFINE kept == IF n = 0 THEN S \ {s} ELSE S \cup {s}
  <1>2. /\ kept \in SUBSET Sticker
        /\ holdings' = [x \in kept |-> IF x = s THEN n ELSE holdings[x]]
    BY <1>1 DEF Store
  <1>3. holdings' \in [kept -> Quantity \ {0}]
    BY <1>1, <1>2
  <1>4. \A x \in Sticker : Stored'[x] = IF x = s THEN n ELSE Stored[x]
    BY <1>1, <1>2, <1>3 DEF Stored
  <1> QED
    BY <1>2, <1>3, <1>4 DEF HoldingsType, Stored

\* A request that is free neither asks nor answers.
LEMMA AnswersAreNoChanges == NoCall \notin Change /\ NoCall \notin Answer
  BY HoldingAssumption

-----------------------------------------------------------------------------
(* The invariant.                                                          *)

\* The empty collection, with every request free.
LEMMA InitIInv == Init => IInv
  <1> SUFFICES ASSUME Init PROVE IInv
    OBVIOUS
  <1>1. 0 \in Quantity
    BY HoldingAssumption DEF Quantity
  <1>2. TypeOK
    <2>1. holdings \in [{} -> Quantity \ {0}]
      BY DEF Init
    <2> QED
      BY <1>1, <2>1 DEF Init, TypeOK, NothingPending
  <1>3. ServerInv
    BY ClientAssumption DEF Init, ServerInv, RequestOK
  <1> QED
    BY <1>2, <1>3 DEF IInv

\* A client's step puts one change into a free slot.
LEMMA SendIInv ==
  ASSUME IInv, NEW r \in Request, NEW change \in Change, Send(r, change),
         page' \in [Device -> {"closed", "loading", "open"}],
         shown' \in [Device -> [Sticker -> Quantity]],
         pending' \in [Device -> [Sticker -> Wait \cup {NotPending}]],
         unseen' \in [Device -> SUBSET Sticker]
  PROVE  IInv'
  <1>1. TypeOK'
    BY DEF IInv, TypeOK, Send
  <1>2. ASSUME NEW q \in Request PROVE RequestOK(q)'
    BY ClientAssumption DEF IInv, TypeOK, ServerInv, RequestOK, Send, Stored
  <1> QED
    BY <1>1, <1>2 DEF IInv, ServerInv

\* A device that sends changes itself and the request it sends.
LEMMA UpdateIInv ==
  ASSUME IInv, NEW d \in Device, NEW s \in Sticker, NEW r \in Request,
         NEW quantity \in Quantity, NEW change \in Change, Update(d, s, r, quantity, change)
  PROVE  IInv'
  <1>1. [request |-> r, previous |-> shown[d][s]] \in Wait
    BY DEF IInv, TypeOK, Wait
  <1>2. /\ page' \in [Device -> {"closed", "loading", "open"}]
        /\ shown' \in [Device -> [Sticker -> Quantity]]
        /\ pending' \in [Device -> [Sticker -> Wait \cup {NotPending}]]
        /\ unseen' \in [Device -> SUBSET Sticker]
    BY <1>1 DEF IInv, TypeOK, Update
  <1> QED
    BY <1>2, SendIInv DEF Update

\* The two changes a view sends are ones the route accepts.
LEMMA ViewChanges ==
  ASSUME NEW s \in Sticker, NEW q \in Quantity, NEW p \in Quantity, q # p
  PROVE  /\ [type |-> "add", sticker |-> s, delta |-> q - p] \in Change
         /\ [type |-> "set", sticker |-> s, quantity |-> q, expected |-> p] \in Change
  BY HoldingAssumption DEF Change, Delta, Quantity

\* A request ends: its lock is free and whatever it read is forgotten.
LEMMA AnsweredIInv ==
  ASSUME IInv, NEW r \in Request, NEW answer \in Answer, Answered(r, answer),
         present' = present, holdings' \in HoldingsType,
         lock = r \/ holdings' = holdings,
         unseen' \in [Device -> SUBSET Sticker]
  PROVE  IInv'
  <1>1. 0 \in Quantity
    BY HoldingAssumption DEF Quantity
  <1>2. TypeOK'
    BY <1>1 DEF IInv, TypeOK, Answered, view, HoldingsType
  <1>3. ASSUME NEW q \in Request PROVE RequestOK(q)'
    BY ClientAssumption DEF IInv, TypeOK, ServerInv, RequestOK, Answered, Stored
  <1> QED
    BY <1>2, <1>3 DEF IInv, ServerInv

\* What a device shows after an answer is a quantity of each sticker.
LEMMA HeardType ==
  ASSUME TypeOK, NEW r, NEW s \in Sticker, NEW told, NEW changed, Heard(r, s, told, changed)
  PROVE  unseen' \in [Device -> SUBSET Sticker]
  BY DEF TypeOK, Heard

\* What Commit stores and answers, in terms of what is stored when it does.
LEMMA CommitEffect ==
  ASSUME IInv, NEW r \in Request, Commit(r)
  PROVE  /\ call[r] \in Change /\ lock = r /\ present /\ present' = present
         /\ holdings' \in HoldingsType
         /\ Accepts(call[r], Stored[call[r].sticker])
         /\ LET s == call[r].sticker
                n == Result(call[r], Stored[s])
            IN  /\ s \in Sticker /\ n \in Quantity
                /\ Stored' = [Stored EXCEPT ![s] = n]
                /\ \/ Answered(r, [status |-> "saved", quantity |-> n])
                   \/ Answered(r, Failed)
                /\ \E told, changed : Heard(r, s, told, changed)
  <1> DEFINE s == call[r].sticker
             n == Result(call[r], previous[r])
  <1>1. /\ call[r] \in Change /\ lock = r /\ present
        /\ previous[r] = Stored[s] /\ previous[r] \in Quantity
    BY DEF IInv, TypeOK, ServerInv, RequestOK, Commit
  <1>2. s \in Sticker
    BY <1>1 DEF Change
  <1>3. n \in Quantity
    BY <1>1, ResultIsQuantity
  <1>4. Store(s, n) /\ present' = present /\ Accepts(call[r], previous[r])
    BY DEF Commit
  <1>5. holdings \in HoldingsType
    BY DEF IInv, TypeOK, HoldingsType
  <1>6. holdings' \in HoldingsType /\ Stored' = [Stored EXCEPT ![s] = n]
    BY <1>2, <1>3, <1>4, <1>5, StoreEffect
  <1>7. /\ \/ Answered(r, [status |-> "saved", quantity |-> n])
           \/ Answered(r, Failed)
        /\ \E told, changed : Heard(r, s, told, changed)
    BY DEF Commit
  <1> QED
    BY <1>1, <1>2, <1>3, <1>4, <1>6, <1>7

\* The fields of an answer.
LEMMA AnswerForms ==
  /\ Failed \in Answer
  /\ \A q \in Quantity : /\ [status |-> "saved", quantity |-> q] \in Answer
                         /\ [status |-> "conflict", quantity |-> q] \in Answer
  BY DEF Answer

\* An answer that was heard frees its request; it holds no lock any more.
LEMMA ReleaseIInv ==
  ASSUME IInv, NEW r \in Request, phase[r] = "answered", Release(r),
         page' \in [Device -> {"closed", "loading", "open"}],
         shown' \in [Device -> [Sticker -> Quantity]],
         pending' \in [Device -> [Sticker -> Wait \cup {NotPending}]],
         unseen' \in [Device -> SUBSET Sticker]
  PROVE  IInv'
  <1>1. TypeOK'
    BY DEF IInv, TypeOK, Release
  <1>2. ASSUME NEW q \in Request PROVE RequestOK(q)'
    BY ClientAssumption DEF IInv, TypeOK, ServerInv, RequestOK, Release, Stored
  <1> QED
    BY <1>1, <1>2 DEF IInv, ServerInv

\* A device shows the answer, or what it showed before if there is none.
LEMMA ReceiveIInv ==
  ASSUME IInv, NEW d \in Device, NEW s \in Sticker, Receive(d, s)
  PROVE  IInv'
  <1> DEFINE r == pending[d][s].request
             q == IF call[r] = Failed THEN pending[d][s].previous ELSE call[r].quantity
  <1>1. pending[d][s] \in Wait /\ r \in Request /\ phase[r] = "answered"
    BY DEF IInv, TypeOK, Receive, Wait
  <1>2. call[r] \in Answer
    BY <1>1 DEF IInv, ServerInv, RequestOK
  <1>3. q \in Quantity
    BY <1>1, <1>2 DEF Answer, Failed, Wait
  <1>4. Settle(d, s, q) /\ Release(r) /\ UNCHANGED unseen
    BY DEF Receive
  <1>5. /\ page' \in [Device -> {"closed", "loading", "open"}]
        /\ shown' \in [Device -> [Sticker -> Quantity]]
        /\ pending' \in [Device -> [Sticker -> Wait \cup {NotPending}]]
        /\ unseen' \in [Device -> SUBSET Sticker]
    BY <1>3, <1>4 DEF IInv, TypeOK, Settle
  <1> QED
    BY <1>1, <1>4, <1>5, ReleaseIInv

\* Steps of the views that leave the server alone.
LEMMA ViewIInv ==
  ASSUME IInv, UNCHANGED server,
         page' \in [Device -> {"closed", "loading", "open"}],
         shown' \in [Device -> [Sticker -> Quantity]],
         pending' \in [Device -> [Sticker -> Wait \cup {NotPending}]],
         unseen' \in [Device -> SUBSET Sticker]
  PROVE  IInv'
  BY DEF IInv, TypeOK, ServerInv, RequestOK, server, Stored

\* Every step keeps the invariant.
LEMMA NextIInv == IInv /\ [Next]_vars => IInv'
  <1> SUFFICES ASSUME IInv, [Next]_vars PROVE IInv'
    OBVIOUS
  <1> USE DEF IInv
  <1>1. Stored \in [Sticker -> Quantity]
    BY StoredIsQuantity DEF TypeOK, HoldingsType
  <1>2. ASSUME NEW r \in Request, SendDirectly(r) PROVE IInv'
    BY <1>2, SendIInv, ClientAssumption DEF SendDirectly, TypeOK, view
  <1>3. ASSUME NEW r \in Request, LockCollection(r) PROVE IInv'
    BY <1>3, ClientAssumption DEF LockCollection, TypeOK, ServerInv, RequestOK, view, Stored
  <1>4. ASSUME NEW r \in Request, CollectionGone(r) PROVE IInv'
    BY <1>4, AnsweredIInv, AnswerForms DEF CollectionGone, TypeOK, HoldingsType
  <1>5. ASSUME NEW r \in Request, ReadHolding(r) PROVE IInv'
    <2>1. call[r] \in Change
      BY <1>5 DEF ReadHolding, ServerInv, RequestOK
    <2>2. Stored[call[r].sticker] \in Quantity
      BY <1>1, <2>1 DEF Change
    <2>3. TypeOK'
      BY <1>5, <2>2 DEF ReadHolding, TypeOK, view
    <2>4. ASSUME NEW q \in Request PROVE RequestOK(q)'
      BY <1>5, <2>1 DEF ReadHolding, TypeOK, ServerInv, RequestOK, Stored
    <2> QED
      BY <2>3, <2>4 DEF ServerInv
  <1>6. ASSUME NEW r \in Request, Conflict(r) PROVE IInv'
    <2>1. call[r].sticker \in Sticker /\ previous[r] \in Quantity
      BY <1>6 DEF Conflict, TypeOK, ServerInv, RequestOK, Change
    <2>2. unseen' \in [Device -> SUBSET Sticker]
      BY <1>6, <2>1, HeardType DEF Conflict
    <2> QED
      BY <1>6, <2>1, <2>2, AnsweredIInv, AnswerForms DEF Conflict, TypeOK, HoldingsType
  <1>7. ASSUME NEW r \in Request, Commit(r) PROVE IInv'
    <2>1. unseen' \in [Device -> SUBSET Sticker]
      BY <1>7, CommitEffect, HeardType
    <2> QED
      BY <1>7, <2>1, CommitEffect, AnsweredIInv, AnswerForms
  <1>8. ASSUME NEW r \in Request, Rollback(r) PROVE IInv'
    BY <1>8, AnsweredIInv, AnswerForms DEF Rollback, TypeOK, HoldingsType
  <1>9. ASSUME NEW r \in Request, Discard(r) PROVE IInv'
    BY <1>9, ReleaseIInv DEF Discard, TypeOK, view
  <1>10. ASSUME NEW r \in Request, NEW d \in Device, NEW s \in Sticker, Tap(d, s, r)
         PROVE  IInv'
    <2>1. PICK q \in Quantity :
            Update(d, s, r, q, [type |-> "add", sticker |-> s, delta |-> q - shown[d][s]])
      BY <1>10 DEF Tap
    <2>2. shown[d][s] \in Quantity /\ q # shown[d][s]
      BY <2>1 DEF TypeOK, Update
    <2> QED
      BY <2>1, <2>2, ViewChanges, UpdateIInv
  <1>11. ASSUME NEW r \in Request, NEW d \in Device, NEW s \in Sticker, TypeIn(d, s, r)
         PROVE  IInv'
    <2>1. PICK q \in Quantity :
            Update(d, s, r, q, [type |-> "set", sticker |-> s, quantity |-> q,
                                expected |-> shown[d][s]])
      BY <1>11 DEF TypeIn
    <2>2. shown[d][s] \in Quantity /\ q # shown[d][s]
      BY <2>1 DEF TypeOK, Update
    <2> QED
      BY <2>1, <2>2, ViewChanges, UpdateIInv
  <1>12. ASSUME NEW d \in Device, LoadView(d) \/ ShowView(d) PROVE IInv'
    <2>1. NothingPending \in [Sticker -> Wait \cup {NotPending}]
      BY DEF NothingPending
    <2>2. /\ page' \in [Device -> {"closed", "loading", "open"}]
          /\ shown' \in [Device -> [Sticker -> Quantity]]
          /\ pending' \in [Device -> [Sticker -> Wait \cup {NotPending}]]
          /\ unseen' \in [Device -> SUBSET Sticker]
      <3>1. CASE LoadView(d)
        <4>1. page' \in [Device -> {"closed", "loading", "open"}]
          BY <3>1 DEF LoadView, TypeOK
        <4>2. shown' \in [Device -> [Sticker -> Quantity]]
          BY <1>1, <3>1 DEF LoadView, TypeOK
        <4>3. pending' \in [Device -> [Sticker -> Wait \cup {NotPending}]]
          BY <2>1, <3>1 DEF LoadView, TypeOK
        <4>4. unseen' \in [Device -> SUBSET Sticker]
          BY <3>1 DEF LoadView, TypeOK
        <4> QED
          BY <4>1, <4>2, <4>3, <4>4
      <3>2. CASE ShowView(d)
        BY <3>2 DEF ShowView, TypeOK
      <3> QED
        BY <1>12, <3>1, <3>2
    <2> QED
      BY <1>12, <2>2, ViewIInv DEF LoadView, ShowView, server
  <1>13. ASSUME NEW d \in Device, NEW s \in Sticker, Receive(d, s) PROVE IInv'
    BY <1>13, ReceiveIInv
  <1>14. ASSUME NEW d \in Device, NEW s \in Sticker, LoseAnswer(d, s) PROVE IInv'
    <2>1. pending[d][s].previous \in Quantity
      BY <1>14 DEF LoseAnswer, TypeOK, Wait
    <2>2. unseen' \in [Device -> SUBSET Sticker]
      BY <1>14 DEF LoseAnswer, TypeOK
    <2>3. /\ page' \in [Device -> {"closed", "loading", "open"}]
          /\ shown' \in [Device -> [Sticker -> Quantity]]
          /\ pending' \in [Device -> [Sticker -> Wait \cup {NotPending}]]
      BY <1>14, <2>1 DEF LoseAnswer, Settle, TypeOK
    <2> QED
      BY <1>14, <2>2, <2>3, ViewIInv DEF LoseAnswer
  <1>15. ASSUME RemoveCollection PROVE IInv'
    <2>1. holdings' \in [{} -> Quantity \ {0}]
      BY <1>15 DEF RemoveCollection
    <2>2. TypeOK'
      BY <1>15, <2>1 DEF RemoveCollection, TypeOK, view
    <2>3. ASSUME NEW q \in Request PROVE RequestOK(q)'
      BY <1>15, ClientAssumption DEF RemoveCollection, ServerInv, RequestOK
    <2> QED
      BY <2>2, <2>3 DEF ServerInv
  <1>16. CASE UNCHANGED vars
    BY <1>16, ViewIInv DEF vars, view, TypeOK
  <1> QED
    BY <1>2, <1>3, <1>4, <1>5, <1>6, <1>7, <1>8, <1>9, <1>10, <1>11, <1>12, <1>13, <1>14,
       <1>15, <1>16 DEF Next, Execute

\* The inductive invariant holds in every reachable state.
THEOREM Invariance == Spec => []IInv
  BY InitIInv, NextIInv, PTL DEF Spec

\* Quantities stay between 0 and the maximum in the table and on every screen,
\* whatever is added to them, and every row stored is of 1 or more.
THEOREM TypeCorrect == Spec => []TypeOK
  <1>1. IInv => TypeOK
    BY DEF IInv
  <1> QED
    BY <1>1, Invariance, PTL

-----------------------------------------------------------------------------
(* The refinement.                                                         *)

\* The instance shares the data of a change with the module it refines.
LEMMA SameData ==
  /\ Register!Change = Change /\ Register!Answer = Answer /\ Register!Failed = Failed
  /\ \A c, q : /\ Register!Accepts(c, q) = Accepts(c, q)
              /\ Register!Result(c, q) = Result(c, q)
  BY DEF Register!Change, Change, Register!Answer, Answer, Register!Failed, Failed,
         Register!Accepts, Accepts, Register!Result, Result, Register!Clamp, Clamp,
         Register!Quantity, Quantity, Register!Delta, Delta

\* The registers begin at 0.
LEMMA RegisterInitially == Init => Register!RegisterInit
  BY DEF Init, Register!RegisterInit, Stored

\* Every step is a step of the registers or leaves them alone.
LEMMA RegisterStep == IInv /\ [Next]_vars => [Register!RegisterNext]_(Register!register)
  <1> SUFFICES ASSUME IInv, [Next]_vars
               PROVE  Register!RegisterNext \/ UNCHANGED Register!register
    OBVIOUS
  <1> USE DEF Register!Reply
  <1>1. UNCHANGED holdings => UNCHANGED Stored
    BY DEF Stored
  <1>2. ASSUME NEW r \in Request, NEW change \in Change, Send(r, change)
        PROVE  Register!Ask(r)
    BY SameData, <1>1, <1>2 DEF IInv, ServerInv, RequestOK, Send, Register!Ask
  <1>3. ASSUME NEW r \in Request, NEW d \in Device, NEW s \in Sticker,
               Tap(d, s, r) \/ TypeIn(d, s, r)
        PROVE  Register!Ask(r)
    <2>1. PICK q \in Quantity, change \in Change : Update(d, s, r, q, change)
      <3>1. ASSUME NEW q \in Quantity, q # shown[d][s]
            PROVE  /\ [type |-> "add", sticker |-> s, delta |-> q - shown[d][s]] \in Change
                   /\ [type |-> "set", sticker |-> s, quantity |-> q,
                       expected |-> shown[d][s]] \in Change
        BY <3>1, ViewChanges DEF IInv, TypeOK
      <3> QED
        BY <1>3, <3>1 DEF Tap, TypeIn, Update
    <2> QED
      BY <1>2, <2>1 DEF Update
  <1>4. ASSUME NEW r \in Request, SendDirectly(r) PROVE Register!Ask(r)
    BY <1>2, <1>4, ClientAssumption DEF SendDirectly
  <1>5. ASSUME NEW r \in Request, CollectionGone(r) \/ Rollback(r) PROVE Register!Refuse(r)
    BY SameData, <1>1, <1>5 DEF IInv, ServerInv, RequestOK, CollectionGone, Rollback, Answered,
                      Register!Refuse
  <1>6. ASSUME NEW r \in Request, Conflict(r) PROVE Register!Refuse(r)
    BY SameData, <1>1, <1>6 DEF IInv, ServerInv, RequestOK, Conflict, Answered, Register!Refuse
  <1>7. ASSUME NEW r \in Request, Commit(r) PROVE Register!Apply(r)
    BY SameData, <1>7, CommitEffect DEF Answered, Register!Apply
  <1>8. ASSUME NEW r \in Request, phase[r] = "answered", Release(r) PROVE Register!Collect(r)
    BY SameData, <1>1, <1>8 DEF IInv, ServerInv, RequestOK, Release, Register!Collect
  <1>9. ASSUME NEW d \in Device, NEW s \in Sticker, Receive(d, s)
        PROVE  \E r \in Request : Register!Collect(r)
    BY <1>8, <1>9 DEF Receive, IInv, TypeOK, Wait
  <1>10. ASSUME RemoveCollection PROVE Register!Remove
    BY <1>10 DEF RemoveCollection, Register!Remove, Stored
  <1>11. ASSUME \/ \E r \in Request : LockCollection(r) \/ ReadHolding(r)
                \/ \E d \in Device : LoadView(d) \/ ShowView(d)
                \/ \E d \in Device, s \in Sticker : LoseAnswer(d, s)
                \/ UNCHANGED vars
         PROVE  UNCHANGED Register!register
    BY <1>1, <1>11 DEF LockCollection, ReadHolding, LoadView, ShowView, LoseAnswer, server,
                       vars, Register!register
  <1>12. ASSUME NEW r \in Request, Discard(r) PROVE Register!Collect(r)
    BY <1>8, <1>12 DEF Discard
  <1> QED
    BY <1>3, <1>4, <1>5, <1>6, <1>7, <1>9, <1>10, <1>11, <1>12
    DEF Next, Execute, Register!RegisterNext

\* Each sticker's quantity is a linearizable register: no update of two devices
\* is lost, and a typed value replaces only the quantity its sender had seen.
THEOREM Linearizes == Spec => Linearizable
  BY RegisterInitially, RegisterStep, Invariance, PTL
  DEF Spec, Linearizable, Register!RegisterSpec

-----------------------------------------------------------------------------
(* What a view shows.                                                      *)

\* One sticker of one view waits for a request, which is about that sticker.
WaitInv ==
  \A d \in Device, s \in Sticker, r \in Request :
    Waiting(d, s, r) =>
      /\ phase[r] # "free"
      /\ phase[r] # "answered" => call[r].sticker = s
      /\ \A e \in Device, t \in Sticker : Waiting(e, t, r) => e = d /\ t = s

\* What a view shows of a sticker, or will when the answer it waits for arrives.
WillShow(d, s) ==
  LET wait == pending[d][s]
  IN  IF wait = NotPending THEN shown[d][s]
      ELSE IF phase[wait.request] = "answered" /\ call[wait.request] # Failed
      THEN call[wait.request].quantity
      ELSE wait.previous

ShownInv ==
  present => \A d \in Device, s \in Sticker : s \notin unseen[d] => WillShow(d, s) = Stored[s]

ViewInv == WaitInv /\ ShownInv

\* The views begin with the stored zeros and wait for nothing.
LEMMA InitViewInv == Init => ViewInv
  <1> SUFFICES ASSUME Init PROVE ViewInv
    OBVIOUS
  <1>1. \A d \in Device, s \in Sticker : pending[d][s] = NotPending /\ shown[d][s] = 0 /\ Stored[s] = 0
    BY DEF Init, NothingPending, Stored
  <1> QED
    BY <1>1 DEF ViewInv, WaitInv, ShownInv, Waiting, WillShow

\* Requests that no view waits for, and those that go on without an answer, leave
\* every view as it is.
LEMMA ElsewhereKeeps ==
  ASSUME IInv, ViewInv, UNCHANGED <<view, unseen, present, holdings>>,
         \A r \in Request :
           \/ phase'[r] = phase[r] /\ call'[r] = call[r]
           \/ \A d \in Device, s \in Sticker : ~Waiting(d, s, r)
           \/ /\ phase'[r] \in {"locked", "read"} /\ phase[r] \in {"queued", "locked"}
              /\ call'[r] = call[r]
           \/ phase'[r] = "answered" /\ call'[r] = Failed /\ phase[r] # "answered"
  PROVE  ViewInv'
  <1>1. Stored' = Stored
    BY DEF Stored
  <1>2. UNCHANGED <<pending, shown, unseen, present>>
    BY DEF view
  <1>3. \A d \in Device, s \in Sticker, r \in Request : Waiting(d, s, r)' = Waiting(d, s, r)
    BY <1>2 DEF Waiting
  <1>4. WaitInv'
    BY <1>2, <1>3 DEF ViewInv, WaitInv
  <1>5. ASSUME NEW d \in Device, NEW s \in Sticker
        PROVE  WillShow(d, s)' = WillShow(d, s)
    <2>1. CASE pending[d][s] = NotPending
      BY <1>2, <2>1 DEF WillShow
    <2>2. CASE pending[d][s] # NotPending
      <3> DEFINE r == pending[d][s].request
      <3>1. r \in Request /\ Waiting(d, s, r)
        BY <2>2 DEF IInv, TypeOK, Wait, Waiting
      <3> QED
        BY <1>2, <2>2, <3>1 DEF WillShow
    <2> QED
      BY <2>1, <2>2
  <1>6. ShownInv'
    BY <1>1, <1>2, <1>5 DEF ViewInv, ShownInv
  <1> QED
    BY <1>4, <1>6 DEF ViewInv

\* A view that asks for a change had shown what is stored.
LEMMA UpdateViews ==
  ASSUME IInv, ViewInv, NEW d \in Device, NEW s \in Sticker, NEW r \in Request,
         NEW quantity \in Quantity, NEW change \in Change, change.sticker = s,
         Update(d, s, r, quantity, change)
  PROVE  ViewInv'
  <1> DEFINE w == [request |-> r, previous |-> shown[d][s]]
  <1>1. /\ phase[r] = "free" /\ phase' = [phase EXCEPT ![r] = "queued"]
        /\ call' = [call EXCEPT ![r] = change]
        /\ pending[d][s] = NotPending
        /\ shown' = [shown EXCEPT ![d][s] = quantity] /\ pending' = [pending EXCEPT ![d][s] = w]
        /\ UNCHANGED <<present, holdings, unseen>>
    BY DEF Update, Send
  <1>2. w # NotPending /\ w.request = r /\ w.previous = shown[d][s]
    BY ClientAssumption DEF IInv, TypeOK, Wait
  <1> HIDE DEF w
  <1>3. /\ pending'[d][s] = w
        /\ \A e \in Device, t \in Sticker :
             ~(e = d /\ t = s) => pending'[e][t] = pending[e][t] /\ shown'[e][t] = shown[e][t]
        /\ phase'[r] = "queued" /\ call'[r] = change
        /\ \A q \in Request \ {r} : phase'[q] = phase[q] /\ call'[q] = call[q]
    BY <1>1 DEF IInv, TypeOK
  <1>4. \A e \in Device, t \in Sticker : ~Waiting(e, t, r)
    BY <1>1 DEF ViewInv, WaitInv
  <1>5. /\ Waiting(d, s, r)' /\ \A q \in Request \ {r} : ~Waiting(d, s, q)'
        /\ \A e \in Device, t \in Sticker, q \in Request :
             ~(e = d /\ t = s) => Waiting(e, t, q)' = Waiting(e, t, q)
    BY <1>2, <1>3 DEF Waiting
  <1>6. WaitInv'
    <2> SUFFICES ASSUME NEW e \in Device, NEW t \in Sticker, NEW q \in Request, Waiting(e, t, q)'
                 PROVE  /\ phase'[q] # "free"
                        /\ phase'[q] # "answered" => call'[q].sticker = t
                        /\ \A f \in Device, u \in Sticker : Waiting(f, u, q)' => f = e /\ u = t
      BY DEF WaitInv
    <2>1. CASE q = r
      BY <1>3, <1>4, <1>5, <2>1
    <2>2. CASE q # r
      BY <1>3, <1>5, <2>2 DEF ViewInv, WaitInv
    <2> QED
      BY <2>1, <2>2
  <1>7. ASSUME NEW e \in Device, NEW t \in Sticker
        PROVE  WillShow(e, t)' = WillShow(e, t)
    <2>1. CASE e = d /\ t = s
      BY <1>1, <1>2, <1>3, <2>1 DEF WillShow
    <2>2. CASE ~(e = d /\ t = s) /\ pending[e][t] = NotPending
      BY <1>3, <2>2 DEF WillShow
    <2>3. CASE ~(e = d /\ t = s) /\ pending[e][t] # NotPending
      <3> DEFINE q == pending[e][t].request
      <3>1. q \in Request \ {r}
        BY <1>4, <2>3 DEF IInv, TypeOK, Wait, Waiting
      <3> QED
        BY <1>3, <2>3, <3>1 DEF WillShow
    <2> QED
      BY <2>1, <2>2, <2>3
  <1>8. ShownInv'
    BY <1>1, <1>7 DEF ViewInv, ShownInv, Stored
  <1> QED
    BY <1>6, <1>8 DEF ViewInv

\* A view that is loaded shows what is stored and waits for nothing any more.
LEMMA LoadViews ==
  ASSUME IInv, ViewInv, NEW d \in Device, LoadView(d)
  PROVE  ViewInv'
  <1>1. /\ shown' = [shown EXCEPT ![d] = Stored] /\ pending' = [pending EXCEPT ![d] = NothingPending]
        /\ unseen' = [unseen EXCEPT ![d] = {}] /\ UNCHANGED <<present, holdings, phase, call>>
    BY DEF LoadView, server
  <1>2. /\ \A s \in Sticker : pending'[d][s] = NotPending /\ shown'[d][s] = Stored[s]
        /\ \A e \in Device \ {d} : pending'[e] = pending[e] /\ shown'[e] = shown[e] /\ unseen'[e] = unseen[e]
    <2>1. \A s \in Sticker : NothingPending[s] = NotPending
      BY DEF NothingPending
    <2> QED
      BY <1>1, <2>1 DEF IInv, TypeOK
  <1>3. \A s \in Sticker, r \in Request : ~Waiting(d, s, r)'
    BY <1>2 DEF Waiting
  <1>4. \A e \in Device \ {d}, s \in Sticker :
          WillShow(e, s)' = WillShow(e, s) /\ \A r \in Request : Waiting(e, s, r)' = Waiting(e, s, r)
    BY <1>1, <1>2 DEF Waiting, WillShow
  <1>5. \A s \in Sticker : WillShow(d, s)' = Stored[s]
    BY <1>2 DEF WillShow
  <1>6. WaitInv'
    BY <1>1, <1>3, <1>4 DEF ViewInv, WaitInv
  <1>7. ShownInv'
    BY <1>1, <1>2, <1>4, <1>5 DEF ViewInv, ShownInv, Stored
  <1> QED
    BY <1>6, <1>7 DEF ViewInv

\* A sticker of a view settles, on what it was to show or unseen.
LEMMA SettleViews ==
  ASSUME IInv, ViewInv, NEW d \in Device, NEW s \in Sticker, NEW quantity \in Quantity,
         Settle(d, s, quantity), UNCHANGED <<present, holdings>>,
         quantity = WillShow(d, s) \/ s \in unseen'[d],
         \A e \in Device : unseen[e] \subseteq unseen'[e],
         \A r \in Request : \/ phase'[r] = phase[r] /\ call'[r] = call[r]
                            \/ pending[d][s] # NotPending /\ r = pending[d][s].request
  PROVE  ViewInv'
  <1>1. shown' = [shown EXCEPT ![d][s] = quantity] /\ pending' = [pending EXCEPT ![d][s] = NotPending]
    BY DEF Settle
  <1>2. /\ shown'[d][s] = quantity /\ pending'[d][s] = NotPending
        /\ \A e \in Device, t \in Sticker :
             ~(e = d /\ t = s) => pending'[e][t] = pending[e][t] /\ shown'[e][t] = shown[e][t]
    BY <1>1 DEF IInv, TypeOK
  <1>3. \A e \in Device, t \in Sticker, r \in Request :
          Waiting(e, t, r)' => /\ ~(e = d /\ t = s) /\ Waiting(e, t, r)
                               /\ phase'[r] = phase[r] /\ call'[r] = call[r]
    <2> SUFFICES ASSUME NEW e \in Device, NEW t \in Sticker, NEW r \in Request, Waiting(e, t, r)'
                 PROVE  /\ ~(e = d /\ t = s) /\ Waiting(e, t, r)
                        /\ phase'[r] = phase[r] /\ call'[r] = call[r]
      OBVIOUS
    <2>1. ~(e = d /\ t = s) /\ Waiting(e, t, r)
      BY <1>2 DEF Waiting
    <2>2. ~Waiting(d, s, r)
      BY <2>1 DEF ViewInv, WaitInv
    <2> QED
      BY <2>1, <2>2 DEF Waiting
  <1>4. WaitInv'
    <2> SUFFICES ASSUME NEW e \in Device, NEW t \in Sticker, NEW q \in Request, Waiting(e, t, q)'
                 PROVE  /\ phase'[q] # "free"
                        /\ phase'[q] # "answered" => call'[q].sticker = t
                        /\ \A f \in Device, u \in Sticker : Waiting(f, u, q)' => f = e /\ u = t
      BY DEF WaitInv
    <2> QED
      BY <1>3 DEF ViewInv, WaitInv
  <1>5. ASSUME NEW e \in Device, NEW t \in Sticker, ~(e = d /\ t = s)
        PROVE  WillShow(e, t)' = WillShow(e, t)
    <2>1. CASE pending[e][t] = NotPending
      BY <1>2, <1>5, <2>1 DEF WillShow
    <2>2. CASE pending[e][t] # NotPending
      <3>1. PICK q \in Request : q = pending[e][t].request
        BY <2>2 DEF IInv, TypeOK, Wait
      <3>3. Waiting(e, t, q)'
        BY <1>2, <1>5, <2>2, <3>1 DEF Waiting
      <3>2. phase'[q] = phase[q] /\ call'[q] = call[q]
        BY <1>3, <3>3
      <3> QED
        BY <1>2, <1>5, <2>2, <3>1, <3>2 DEF WillShow
    <2> QED
      BY <2>1, <2>2
  <1>6. WillShow(d, s)' = quantity
    BY <1>2 DEF WillShow
  <1>7. ShownInv'
    <2> SUFFICES ASSUME present, NEW e \in Device, NEW t \in Sticker, t \notin unseen'[e]
                 PROVE  WillShow(e, t)' = Stored[t]
      BY DEF ShownInv, Stored
    <2> QED
      BY <1>5, <1>6 DEF ViewInv, ShownInv
  <1> QED
    BY <1>4, <1>7 DEF ViewInv

\* A view that hears its answer shows what it was going to show.
LEMMA ReceiveViews ==
  ASSUME IInv, ViewInv, NEW d \in Device, NEW s \in Sticker, Receive(d, s)
  PROVE  ViewInv'
  <1> DEFINE r == pending[d][s].request
             q == IF call[r] = Failed THEN pending[d][s].previous ELSE call[r].quantity
  <1>1. pending[d][s] # NotPending /\ pending[d][s] \in Wait /\ r \in Request /\ phase[r] = "answered"
    BY DEF IInv, TypeOK, Receive, Wait
  <1>2. call[r] \in Answer
    BY <1>1 DEF IInv, ServerInv, RequestOK
  <1>3. q \in Quantity
    BY <1>1, <1>2 DEF Answer, Failed, Wait
  <1>4. q = WillShow(d, s)
    BY <1>1 DEF WillShow
  <1>5. Settle(d, s, q) /\ Release(r) /\ UNCHANGED unseen
    BY DEF Receive
  <1>6. /\ UNCHANGED <<present, holdings>>
        /\ \A x \in Request : x = r \/ (phase'[x] = phase[x] /\ call'[x] = call[x])
    BY <1>5 DEF Release, IInv, TypeOK
  <1> HIDE DEF q
  <1> QED
    BY <1>1, <1>3, <1>4, <1>5, <1>6, SettleViews

\* A lost answer that changed nothing leaves the view with what is stored.
LEMMA LoseViews ==
  ASSUME IInv, ViewInv, NEW d \in Device, NEW s \in Sticker, LoseAnswer(d, s)
  PROVE  ViewInv'
  <1> DEFINE r == pending[d][s].request
             q == pending[d][s].previous
  <1>1. pending[d][s] # NotPending /\ pending[d][s] \in Wait /\ r \in Request /\ q \in Quantity
    BY DEF IInv, TypeOK, LoseAnswer, Wait
  <1>2. /\ Settle(d, s, q)
        /\ unseen' = IF call[r] \in Answer \ {Failed} THEN [unseen EXCEPT ![d] = @ \cup {s}] ELSE unseen
        /\ UNCHANGED <<present, holdings, phase, call>>
    BY DEF LoseAnswer, server
  <1>3. \A e \in Device : unseen[e] \subseteq unseen'[e]
    BY <1>2 DEF IInv, TypeOK
  <1>4. q = WillShow(d, s) \/ s \in unseen'[d]
    <2>1. CASE call[r] \in Answer \ {Failed}
      BY <1>2, <2>1 DEF IInv, TypeOK
    <2>2. CASE call[r] \notin Answer \ {Failed}
      BY <1>1, <2>2 DEF WillShow, IInv, ServerInv, RequestOK
    <2> QED
      BY <2>1, <2>2
  <1> HIDE DEF q
  <1> QED
    BY <1>1, <1>2, <1>3, <1>4, SettleViews

\* A request is answered about its sticker, which holds n from now on: the view
\* that waits for it learns of n, or else the others have not seen a change.
LEMMA AnsweredViews ==
  ASSUME IInv, ViewInv, NEW r \in Request, NEW s \in Sticker, NEW n \in Quantity,
         NEW answer \in Answer, NEW told \in BOOLEAN, NEW changed \in BOOLEAN,
         phase[r] = "read", call[r].sticker = s, Answered(r, answer), Heard(r, s, told, changed),
         Stored' = [Stored EXCEPT ![s] = n], ~changed => Stored[s] = n,
         present' = present,
         told => answer # Failed /\ answer.quantity = n,
         ~told => answer = Failed
  PROVE  ViewInv'
  <1>1. /\ phase' = [phase EXCEPT ![r] = "answered"] /\ call' = [call EXCEPT ![r] = answer]
        /\ UNCHANGED <<page, shown, pending>>
    BY DEF Answered, view
  <1>2. unseen' = [d \in Device |->
          IF told /\ Waiting(d, s, r) THEN unseen[d] \ {s}
          ELSE IF changed THEN unseen[d] \cup {s} ELSE unseen[d]]
    BY DEF Heard
  <1>3. /\ phase'[r] = "answered" /\ call'[r] = answer
        /\ \A q \in Request \ {r} : phase'[q] = phase[q] /\ call'[q] = call[q]
    BY <1>1 DEF IInv, TypeOK
  <1>4. \A d \in Device, t \in Sticker, q \in Request : Waiting(d, t, q)' = Waiting(d, t, q)
    BY <1>1 DEF Waiting
  <1>5. WaitInv'
    <2> SUFFICES ASSUME NEW e \in Device, NEW t \in Sticker, NEW q \in Request, Waiting(e, t, q)'
                 PROVE  /\ phase'[q] # "free"
                        /\ phase'[q] # "answered" => call'[q].sticker = t
                        /\ \A f \in Device, u \in Sticker : Waiting(f, u, q)' => f = e /\ u = t
      BY DEF WaitInv
    <2> QED
      BY <1>3, <1>4 DEF ViewInv, WaitInv
  <1>6. \A d \in Device, t \in Sticker : Waiting(d, t, r) => t = s
    BY DEF ViewInv, WaitInv
  <1>7. ASSUME NEW d \in Device, NEW t \in Sticker, ~(told /\ Waiting(d, t, r))
        PROVE  WillShow(d, t)' = WillShow(d, t)
    <2>1. CASE pending[d][t] = NotPending
      BY <1>1, <2>1 DEF WillShow
    <2>2. CASE pending[d][t] # NotPending
      <3> DEFINE q == pending[d][t].request
      <3>1. q \in Request /\ (q = r => Waiting(d, t, r))
        BY <2>2 DEF IInv, TypeOK, Wait, Waiting
      <3> QED
        BY <1>1, <1>3, <1>7, <2>2, <3>1 DEF WillShow
    <2> QED
      BY <2>1, <2>2
  <1>8. ASSUME NEW d \in Device, NEW t \in Sticker, told, Waiting(d, t, r)
        PROVE  WillShow(d, t)' = n
    BY <1>1, <1>3, <1>8 DEF WillShow, Waiting
  <1>9. Stored \in [Sticker -> Quantity]
    BY StoredIsQuantity DEF IInv, TypeOK, HoldingsType
  <1>10. ShownInv'
    <2> SUFFICES ASSUME present, NEW d \in Device, NEW t \in Sticker, t \notin unseen'[d]
                 PROVE  WillShow(d, t)' = Stored'[t]
      BY DEF ShownInv
    <2>1. CASE told /\ Waiting(d, t, r)
      BY <1>6, <1>8, <1>9, <2>1
    <2>2. CASE ~(told /\ Waiting(d, t, r))
      <3>1. t \notin unseen[d] /\ (t = s => ~changed)
        BY <1>2, <2>2
      <3> QED
        BY <1>7, <1>9, <2>2, <3>1 DEF ViewInv, ShownInv
    <2> QED
      BY <2>1, <2>2
  <1> QED
    BY <1>5, <1>10 DEF ViewInv

\* The answer to a conflict carries the stored quantity.
LEMMA ConflictViews ==
  ASSUME IInv, ViewInv, NEW r \in Request, Conflict(r)
  PROVE  ViewInv'
  <1> DEFINE s == call[r].sticker
             n == previous[r]
             answer == [status |-> "conflict", quantity |-> n]
  <1>1. phase[r] = "read" /\ s \in Sticker /\ n \in Quantity /\ n = Stored[s]
    BY DEF Conflict, IInv, TypeOK, ServerInv, RequestOK, Change
  <1>2. answer \in Answer /\ answer # Failed /\ answer.quantity = n
    BY <1>1, AnswerForms DEF Failed
  <1>3. Answered(r, answer) /\ Heard(r, s, TRUE, FALSE) /\ UNCHANGED <<present, holdings>>
    BY DEF Conflict
  <1>4. Stored' = [Stored EXCEPT ![s] = n]
    BY <1>1, <1>3 DEF Stored
  <1> HIDE DEF s, n, answer
  <1> QED
    BY <1>1, <1>2, <1>3, <1>4, AnsweredViews DEF s

\* A commit changes what is stored and what its own view will show; every other
\* view of the sticker now has a change it has not seen.
LEMMA CommitViews ==
  ASSUME IInv, ViewInv, NEW r \in Request, Commit(r)
  PROVE  ViewInv'
  <1> DEFINE s == call[r].sticker
             n == Result(call[r], Stored[s])
             saved == [status |-> "saved", quantity |-> n]
  <1>1. /\ phase[r] = "read" /\ s \in Sticker /\ n \in Quantity /\ previous[r] = Stored[s]
        /\ Stored' = [Stored EXCEPT ![s] = n] /\ present' = present
    BY CommitEffect DEF Commit, IInv, ServerInv, RequestOK
  <1>2. saved \in Answer /\ saved # Failed /\ saved.quantity = n /\ Failed \in Answer
    BY <1>1, AnswerForms DEF Failed
  <1>3. \/ Answered(r, saved) /\ Heard(r, s, TRUE, n # previous[r])
        \/ Answered(r, Failed) /\ Heard(r, s, FALSE, n # previous[r])
    BY <1>1 DEF Commit
  <1>4. (n # previous[r]) \in BOOLEAN /\ (~(n # previous[r]) => Stored[s] = n)
    BY <1>1
  <1> HIDE DEF s, n, saved
  <1>5. CASE Answered(r, saved) /\ Heard(r, s, TRUE, n # previous[r])
    BY <1>1, <1>2, <1>4, <1>5, AnsweredViews DEF s
  <1>6. CASE Answered(r, Failed) /\ Heard(r, s, FALSE, n # previous[r])
    BY <1>1, <1>2, <1>4, <1>6, AnsweredViews DEF s
  <1> QED
    BY <1>3, <1>5, <1>6

\* The collection is removed: whatever views show, there is nothing to be right about.
LEMMA RemovedViews == ASSUME IInv, ViewInv, RemoveCollection PROVE ViewInv'
  BY DEF RemoveCollection, ViewInv, WaitInv, ShownInv, Waiting, view

\* Every step keeps ViewInv.
LEMMA ViewInvStep == IInv /\ ViewInv /\ [Next]_vars => ViewInv'
  <1> SUFFICES ASSUME IInv, ViewInv, [Next]_vars PROVE ViewInv'
    OBVIOUS
  <1>0. /\ phase \in [Request -> {"free", "queued", "locked", "read", "answered"}]
        /\ call \in [Request -> Change \cup Answer \cup {NoCall}]
        /\ shown \in [Device -> [Sticker -> Quantity]]
    BY DEF IInv, TypeOK
  <1>1. ASSUME NEW r \in Request, SendDirectly(r) PROVE ViewInv'
    <2>1. /\ phase[r] = "free" /\ UNCHANGED <<view, unseen, present, holdings>>
          /\ \A q \in Request \ {r} : phase'[q] = phase[q] /\ call'[q] = call[q]
      BY <1>0, <1>1 DEF SendDirectly, Send
    <2>2. \A d \in Device, s \in Sticker : ~Waiting(d, s, r)
      BY <2>1 DEF ViewInv, WaitInv
    <2> QED
      BY <2>1, <2>2, ElsewhereKeeps
  <1>2. ASSUME NEW r \in Request, LockCollection(r) \/ ReadHolding(r) PROVE ViewInv'
    <2>1. /\ phase[r] \in {"queued", "locked"} /\ phase'[r] \in {"locked", "read"} /\ call' = call
          /\ UNCHANGED <<view, unseen, present, holdings>>
          /\ \A q \in Request \ {r} : phase'[q] = phase[q]
      BY <1>0, <1>2 DEF LockCollection, ReadHolding
    <2> QED
      BY <2>1, ElsewhereKeeps
  <1>3. ASSUME NEW r \in Request, CollectionGone(r) \/ Rollback(r) PROVE ViewInv'
    <2>1. /\ phase[r] # "answered" /\ phase'[r] = "answered" /\ call'[r] = Failed
          /\ UNCHANGED <<view, unseen, present, holdings>>
          /\ \A q \in Request \ {r} : phase'[q] = phase[q] /\ call'[q] = call[q]
      BY <1>0, <1>3 DEF CollectionGone, Rollback, Answered
    <2> QED
      BY <2>1, ElsewhereKeeps
  <1>4. ASSUME NEW r \in Request, Discard(r) PROVE ViewInv'
    <2>1. /\ \A d \in Device, s \in Sticker : ~Waiting(d, s, r)
          /\ UNCHANGED <<view, unseen, present, holdings>>
          /\ \A q \in Request \ {r} : phase'[q] = phase[q] /\ call'[q] = call[q]
      BY <1>0, <1>4 DEF Discard, Release
    <2> QED
      BY <2>1, ElsewhereKeeps
  <1>5. ASSUME NEW r \in Request, NEW d \in Device, NEW s \in Sticker, Tap(d, s, r)
        PROVE  ViewInv'
    <2>1. PICK q \in Quantity :
            Update(d, s, r, q, [type |-> "add", sticker |-> s, delta |-> q - shown[d][s]])
      BY <1>5 DEF Tap
    <2>2. shown[d][s] \in Quantity /\ q # shown[d][s]
      BY <1>0, <2>1 DEF Update
    <2> QED
      BY <2>1, <2>2, ViewChanges, UpdateViews
  <1>6. ASSUME NEW r \in Request, NEW d \in Device, NEW s \in Sticker, TypeIn(d, s, r)
        PROVE  ViewInv'
    <2>1. PICK q \in Quantity :
            Update(d, s, r, q, [type |-> "set", sticker |-> s, quantity |-> q,
                                expected |-> shown[d][s]])
      BY <1>6 DEF TypeIn
    <2>2. shown[d][s] \in Quantity /\ q # shown[d][s]
      BY <1>0, <2>1 DEF Update
    <2> QED
      BY <2>1, <2>2, ViewChanges, UpdateViews
  <1>7. ASSUME NEW d \in Device, ShowView(d) PROVE ViewInv'
    BY <1>7 DEF ShowView, server, ViewInv, WaitInv, ShownInv, Waiting, WillShow, Stored
  <1>8. CASE UNCHANGED vars
    BY <1>8 DEF vars, server, view, ViewInv, WaitInv, ShownInv, Waiting, WillShow, Stored
  <1> QED
    BY <1>1, <1>2, <1>3, <1>4, <1>5, <1>6, <1>7, <1>8, LoadViews, ReceiveViews, LoseViews,
       ConflictViews, CommitViews, RemovedViews DEF Next, Execute

\* On any number of devices, and whatever taps, typed quantities, conflicts, lost
\* answers and reloads cross: an open view shows of a sticker it waits for no
\* answer about what is stored, unless a change elsewhere or a lost answer has
\* kept that from it.
THEOREM ViewsAreAccurate == Spec => []ViewIsAccurate
  <1>1. ViewInv => ViewIsAccurate
    BY DEF ViewInv, ShownInv, WillShow, ViewIsAccurate
  <1> QED
    BY <1>1, InitViewInv, ViewInvStep, Invariance, PTL DEF Spec

-----------------------------------------------------------------------------
(* Why updates settle.                                                     *)

\* How far a request has come.
Order(p) ==
  CASE p = "queued" -> 1 [] p = "locked" -> 2 [] p = "read" -> 3 [] p = "answered" -> 4 [] OTHER -> 0

\* A request that a view waits for is under way, and if the lock is what it
\* waits for, the holder is in its transaction.
NoWaitInVain ==
  \A d \in Device, s \in Sticker, r \in Request :
    Waiting(d, s, r) =>
      /\ Order(phase[r]) > 0
      /\ phase[r] = "queued" /\ lock # NoRequest => phase[lock] \in {"locked", "read"}

\* Until the view has settled, its request goes on and is never set back.
UpdatesAdvance ==
  [][\A d \in Device, s \in Sticker, r \in Request :
       Waiting(d, s, r) /\ Waiting(d, s, r)' =>
         /\ Order(phase'[r]) >= Order(phase[r])
         /\ LockCollection(r) \/ Execute(r) => Order(phase'[r]) > Order(phase[r])]_vars

\* A step of the server, or of anybody else, leaves a request that is waited for
\* where it is or takes it further.
LEMMA WaitedFor ==
  ASSUME IInv, ViewInv, [Next]_vars, NEW d \in Device, NEW s \in Sticker, NEW r \in Request,
         Waiting(d, s, r), Waiting(d, s, r)'
  PROVE  /\ Order(phase'[r]) >= Order(phase[r])
         /\ LockCollection(r) \/ Execute(r) => Order(phase'[r]) > Order(phase[r])
  <1>1. /\ phase \in [Request -> {"free", "queued", "locked", "read", "answered"}] /\ phase[r] # "free"
        /\ \A e \in Device, t \in Sticker : Waiting(e, t, r) => e = d /\ t = s
        /\ pending \in [Device -> [Sticker -> Wait \cup {NotPending}]]
    BY DEF IInv, TypeOK, ViewInv, WaitInv
  <1>2. ASSUME LockCollection(r) \/ Execute(r) PROVE Order(phase'[r]) > Order(phase[r])
    <2>1. CASE LockCollection(r)
      <3>1. phase[r] = "queued" /\ phase'[r] = "locked"
        BY <1>1, <2>1 DEF LockCollection
      <3> QED
        BY <3>1 DEF Order
    <2>2. CASE ReadHolding(r)
      <3>1. phase[r] = "locked" /\ phase'[r] = "read"
        BY <1>1, <2>2 DEF ReadHolding
      <3> QED
        BY <3>1 DEF Order
    <2>3. CASE CollectionGone(r) \/ Conflict(r) \/ Commit(r)
      <3>1. phase[r] \in {"queued", "read"} /\ phase'[r] = "answered"
        BY <1>1, <2>3 DEF CollectionGone, Conflict, Commit, Answered
      <3> QED
        BY <3>1 DEF Order
    <2> QED
      BY <1>2, <2>1, <2>2, <2>3 DEF Execute
  <1>3. ASSUME Rollback(r) PROVE Order(phase'[r]) >= Order(phase[r])
    BY <1>1, <1>3 DEF Rollback, Answered, Order
  <1>4. ASSUME phase'[r] = phase[r] PROVE Order(phase'[r]) >= Order(phase[r])
    BY <1>1, <1>4 DEF Order
  <1>5. ASSUME NEW q \in Request, q # r,
               SendDirectly(q) \/ LockCollection(q) \/ Execute(q) \/ Rollback(q) \/ Discard(q)
               \/ \E e \in Device, t \in Sticker : Tap(e, t, q) \/ TypeIn(e, t, q)
        PROVE  phase'[r] = phase[r]
    BY <1>1, <1>5 DEF SendDirectly, Send, LockCollection, Execute, CollectionGone, ReadHolding, Conflict, Commit,
                      Answered, Rollback, Discard, Release, Tap, TypeIn, Update
  <1>6. ~SendDirectly(r) /\ ~Discard(r) /\ \A e \in Device, t \in Sticker : ~Tap(e, t, r) /\ ~TypeIn(e, t, r)
    BY <1>1 DEF SendDirectly, Send, Discard, Tap, TypeIn, Update
  <1>7. ASSUME NEW e \in Device, NEW t \in Sticker, Receive(e, t) PROVE phase'[r] = phase[r]
    <2>1. CASE pending[e][t].request = r
      <3>1. e = d /\ t = s
        BY <1>1, <1>7, <2>1 DEF Receive, Waiting
      <3>2. pending'[d][s] = NotPending
        BY <1>1, <1>7, <3>1 DEF Receive, Settle
      <3> QED
        BY <3>2 DEF Waiting
    <2>2. CASE pending[e][t].request # r
      BY <1>1, <1>7, <2>2 DEF Receive, Release
    <2> QED
      BY <2>1, <2>2
  <1>8. ASSUME \/ RemoveCollection
               \/ \E e \in Device : LoadView(e) \/ ShowView(e) \/ \E t \in Sticker : LoseAnswer(e, t)
               \/ UNCHANGED vars
        PROVE  phase'[r] = phase[r]
    BY <1>8 DEF RemoveCollection, LoadView, ShowView, LoseAnswer, server, vars
  <1>9. CASE LockCollection(r) \/ Execute(r)
    <2>1. Order(phase[r]) \in Nat /\ Order(phase'[r]) \in Nat
      BY DEF Order
    <2> QED
      BY <1>2, <1>9, <2>1
  <1>10. CASE ~(LockCollection(r) \/ Execute(r))
    <2>1. \/ \E q \in Request :
               SendDirectly(q) \/ LockCollection(q) \/ Execute(q) \/ Rollback(q) \/ Discard(q)
               \/ \E e \in Device, t \in Sticker : Tap(e, t, q) \/ TypeIn(e, t, q)
          \/ \E e \in Device, t \in Sticker : Receive(e, t)
          \/ RemoveCollection
          \/ \E e \in Device : LoadView(e) \/ ShowView(e) \/ \E t \in Sticker : LoseAnswer(e, t)
          \/ UNCHANGED vars
      BY Zenon DEF Next
    <2>2. ASSUME NEW q \in Request,
                 SendDirectly(q) \/ LockCollection(q) \/ Execute(q) \/ Rollback(q) \/ Discard(q)
                 \/ \E e \in Device, t \in Sticker : Tap(e, t, q) \/ TypeIn(e, t, q)
          PROVE  Order(phase'[r]) >= Order(phase[r])
      <3>1. CASE q = r
        BY <1>3, <1>6, <1>10, <2>2, <3>1, Zenon
      <3>2. CASE q # r
        BY <1>4, <1>5, <2>2, <3>2, Zenon
      <3> QED
        BY <3>1, <3>2
    <2> QED
      BY <1>4, <1>7, <1>8, <1>10, <2>1, <2>2, Zenon
  <1> QED
    BY <1>9, <1>10

\* No update waits for nothing, and none is set back: each step of the server
\* for it brings its answer nearer (src/components/collection-view.tsx, whose
\* controls are disabled until then).
THEOREM AnswersComeNearer == Spec => []NoWaitInVain /\ UpdatesAdvance
  <1>1. IInv /\ ViewInv => NoWaitInVain
    <2> SUFFICES ASSUME IInv, ViewInv, NEW d \in Device, NEW s \in Sticker, NEW r \in Request, Waiting(d, s, r)
                 PROVE  /\ Order(phase[r]) > 0
                        /\ phase[r] = "queued" /\ lock # NoRequest => phase[lock] \in {"locked", "read"}
      BY DEF NoWaitInVain
    <2>1. phase[r] # "free" /\ phase[r] \in {"free", "queued", "locked", "read", "answered"}
      BY DEF IInv, TypeOK, ViewInv, WaitInv
    <2>2. lock # NoRequest => phase[lock] \in {"locked", "read"}
      BY DEF IInv, TypeOK, ServerInv, RequestOK
    <2> QED
      BY <2>1, <2>2 DEF Order
  <1>2. IInv /\ ViewInv /\ [Next]_vars =>
          [\A d \in Device, s \in Sticker, r \in Request :
             Waiting(d, s, r) /\ Waiting(d, s, r)' =>
               /\ Order(phase'[r]) >= Order(phase[r])
               /\ LockCollection(r) \/ Execute(r) => Order(phase'[r]) > Order(phase[r])]_vars
    BY WaitedFor
  <1> QED
    BY <1>1, <1>2, Invariance, InitViewInv, ViewInvStep, PTL DEF Spec, UpdatesAdvance
=============================================================================
