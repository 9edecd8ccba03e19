------------------------------ MODULE MCTrades ------------------------------
(***************************************************************************)
(* Three collectors of an album of two stickers.  Revision 1 has both      *)
(* stickers, revision 2 only the first: Ann and Bob's collections are      *)
(* pinned to the first, Cem's to the second.  Bob and Cem share a display  *)
(* name.  The run begins with every choice of none, the only copy or a     *)
(* spare one of the first sticker and none or a spare one of the second    *)
(* for Ann and Bob, and a spare copy for Cem; or Ann or Cem has no         *)
(* collection yet.  Pages hold one partner.  Ann downloads; her collection *)
(* has a comparison grant and no share link.                               *)
(*                                                                         *)
(* The run of the forms has one sticker, spare for Bob and missing for     *)
(* Ann, and may begin with a hidden Bob.                                   *)
(***************************************************************************)
EXTENDS Exports

CONSTANTS Ann, Bob, Cem, S1, S2, North, South

MCStickersOf == [r \in Revision |-> IF r = 1 THEN Sticker ELSE {S1}]
MCSectionOf  == [r \in Revision |-> [s \in Sticker |-> IF s = S1 THEN North ELSE South]]
MCName == [c \in Collector |-> IF c = Ann THEN 2 ELSE 1]
MCId   == [c \in Collector |-> CASE c = Ann -> 1 [] c = Bob -> 2 [] c = Cem -> 3]

Nothing == [s \in Sticker |-> 0]
Has(a, b, c) ==
  [active   |-> [x \in Collector |-> TRUE],
   visible  |-> [x \in Collector |-> TRUE],
   revision |-> (Ann :> 1) @@ (Bob :> 1) @@ (Cem :> 2),
   quantity |-> (Ann :> a) @@ (Bob :> b) @@ (Cem :> c)]

MCStart ==
  LET start == {Has(a, b, S1 :> 2 @@ S2 :> 0) : a, b \in {q \in [Sticker -> 0..2] : q[S2] # 1}}
  IN  start \cup
      {[d EXCEPT !.revision[c] = NoCollection, !.quantity[c] = Nothing] :
         c \in {Ann, Cem}, d \in {x \in start : x.quantity[Ann] = x.quantity[Bob]}}

Asked(d, o, s, limit, offset) ==
  [viewer |-> Ann, direction |-> d, sort |-> o, section |-> s, limit |-> limit, offset |-> offset]

MCQueries ==
  {Asked("all", "compatibility", AnySection, 1, 0),
   Asked("all", "wanted", AnySection, 1, 1),
   Asked("one-way", "name", North, 1, 2),
   Asked("two-way", "offered", AnySection, 70, 0)}

FormStart ==
  {[active   |-> [x \in Collector |-> TRUE],
    visible  |-> (Ann :> TRUE) @@ (Bob :> visible),
    revision |-> [x \in Collector |-> 1],
    quantity |-> [x \in Collector |-> [s \in Sticker |-> IF x = Ann THEN 0 ELSE 2]]]
     : visible \in BOOLEAN}
FormQueries == {Asked("all", "name", AnySection, 1, 0)}
=============================================================================
