---------------------------- MODULE MCShareLinks ----------------------------
(***************************************************************************)
(* One link, asked for as "both" or "missing", that expires at tick 1 or   *)
(* never, over a sticker that is missing or a duplicate, and one visitor.  *)
(* One request may be under way that the view does not wait for.           *)
(***************************************************************************)
EXTENDS ShareLinks

CONSTANTS L1, V1, E1
=============================================================================
