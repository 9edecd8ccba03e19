-------------------------- MODULE HoldingRegister --------------------------
(***************************************************************************)
(* What the holdings of one collection promise: each sticker's quantity is *)
(* an atomic register.  A call takes effect at one instant between being   *)
(* asked and being answered, on the quantity of that instant, or not at    *)
(* all; only a failed call leaves its client in doubt about which.         *)
(***************************************************************************)
EXTENDS HoldingChanges

CONSTANTS Request

VARIABLES
  quantity,  \* of each sticker
  present,   \* whether the collection still exists
  call       \* the change each request asks for, then its answer

register == <<quantity, present, call>>

RegisterInit ==
  /\ quantity = [s \in Sticker |-> 0]
  /\ present = TRUE
  /\ call = [r \in Request |-> NoCall]

Reply(r, answer) == call' = [call EXCEPT ![r] = answer]

Ask(r) ==
  /\ call[r] = NoCall
  /\ \E change \in Change : Reply(r, change)
  /\ UNCHANGED <<quantity, present>>

Apply(r) ==
  /\ call[r] \in Change
  /\ present
  /\ LET s == call[r].sticker
         n == Result(call[r], quantity[s])
     IN  /\ Accepts(call[r], quantity[s])
         /\ quantity' = [quantity EXCEPT ![s] = n]
         /\ Reply(r, [status |-> "saved", quantity |-> n]) \/ Reply(r, Failed)
  /\ UNCHANGED present

Refuse(r) ==
  /\ call[r] \in Change
  /\ \/ /\ present
        /\ ~Accepts(call[r], quantity[call[r].sticker])
        /\ Reply(r, [status |-> "conflict", quantity |-> quantity[call[r].sticker]])
     \/ Reply(r, Failed)
  /\ UNCHANGED <<quantity, present>>

Collect(r) ==
  /\ call[r] \in Answer
  /\ Reply(r, NoCall)
  /\ UNCHANGED <<quantity, present>>

Remove ==
  /\ present
  /\ present' = FALSE
  /\ quantity' = [s \in Sticker |-> 0]
  /\ UNCHANGED call

RegisterNext ==
  \/ \E r \in Request : Ask(r) \/ Apply(r) \/ Refuse(r) \/ Collect(r)
  \/ Remove

RegisterSpec == RegisterInit /\ [][RegisterNext]_register
=============================================================================
