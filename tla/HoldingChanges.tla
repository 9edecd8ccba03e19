--------------------------- MODULE HoldingChanges ---------------------------
(***************************************************************************)
(* The data of a holding change: what a client may ask of one sticker of a *)
(* collection, what it is answered, and the pure part of                   *)
(* applyHoldingChange (src/modules/collections/repository.ts).             *)
(***************************************************************************)
EXTENDS Integers

CONSTANTS
  Sticker,      \* the stickers of the collection's pinned album revision
  MaxQuantity,  \* 99 in the code
  Unchecked,    \* the expectedQuantity of a "set" sent without one
  NoCall        \* what a request slot holds while it serves nobody

Quantity == 0..MaxQuantity
Delta    == (-MaxQuantity..MaxQuantity) \ {0}

Change ==
  [type : {"add"}, sticker : Sticker, delta : Delta] \cup
  [type : {"set"}, sticker : Sticker, quantity : Quantity,
   expected : Quantity \cup {Unchecked}]

Failed == [status |-> "failed"]
Answer == [status : {"saved", "conflict"}, quantity : Quantity] \cup {Failed}

ASSUME HoldingAssumption ==
  /\ MaxQuantity \in Nat \ {0}
  /\ NoCall \notin Change \cup Answer

Accepts(change, current) ==
  change.type = "set" => change.expected \in {Unchecked, current}

Clamp(n) == IF n < 0 THEN 0 ELSE IF n > MaxQuantity THEN MaxQuantity ELSE n

\* A mutant: the sum is stored as it is.
SumUnclamped(change, current) ==
  IF change.type = "set" THEN change.quantity ELSE current + change.delta

Result(change, current) ==
  IF change.type = "set" THEN change.quantity ELSE Clamp(current + change.delta)
=============================================================================
