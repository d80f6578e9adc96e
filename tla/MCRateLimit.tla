----------------------------- MODULE MCRateLimit -----------------------------
(***************************************************************************)
(* A small instance of RateLimit: four requests over three windows of two  *)
(* ticks, two of them admitted in each.                                    *)
(***************************************************************************)
EXTENDS RateLimit, TLC

CONSTANTS r1, r2, r3, r4

MCRequests == {r1, r2, r3, r4}
EveryKind == {"refused", "unanswered", "resent", "crash"}
Symmetry == Permutations(MCRequests)
=============================================================================
