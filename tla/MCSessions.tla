----------------------------- MODULE MCSessions -----------------------------
(***************************************************************************)
(* Two passwords and two addresses the account may have, two sessions, one *)
(* sign-in and two requests at once.                                       *)
(***************************************************************************)
EXTENDS Sessions, TLC

CONSTANTS p1, p2, e1, e2, s1, s2, a1, r1, r2

Symmetry == Permutations({p1, p2}) \cup Permutations({e1, e2})
              \cup Permutations({s1, s2}) \cup Permutations({r1, r2})
=============================================================================
