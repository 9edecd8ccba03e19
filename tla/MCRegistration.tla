--------------------------- MODULE MCRegistration ---------------------------
(***************************************************************************)
(* An invitation to one of two addresses, two pages and two runs of the    *)
(* migration script at once: the attempts compete for the invitation, and  *)
(* for its address with a registration, a managed user or the script.  The *)
(* invitation expires at tick 1.  One attempt per tick and key, memory for *)
(* the window of one; a client has its address or a forged one.            *)
(***************************************************************************)
EXTENDS Registration, TLC

CONSTANTS i1, j1, j2, b1, b2, Home, Forged, Unknown, admin, ann

Symmetry == Permutations({j1, j2}) \cup Permutations({b1, b2})
=============================================================================
