----------------------------- MODULE MCHoldings -----------------------------
EXTENDS Holdings

CONSTANTS d1, d2, r1, r2, s1

MCDevice  == {d1, d2}
MCSticker == {s1}
MCRequest == {r1, r2}

\* A script's unconditional quantity.
MCDirectChange ==
  {[type |-> "set", sticker |-> s1, quantity |-> 1, expected |-> Unchecked]}
=============================================================================
