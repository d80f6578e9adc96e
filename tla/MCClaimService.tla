---------------------------- MODULE MCClaimService ----------------------------
(***************************************************************************)
(* A small instance of ClaimService: two processes and two requests, one   *)
(* served by each.                                                         *)
(***************************************************************************)
EXTENDS ClaimService, TLC

CONSTANTS w1, w2, r1, r2, k1, k2

MCWorkers == {w1, w2}
MCClaims == {r1, r2}
MCKeys == {k1, k2}
\* The second request repeats the first one.
MCKeyOf == [r \in MCClaims |-> k1]
MCHost == [r \in MCClaims |-> IF r = r1 THEN w1 ELSE w2]
MCDecision == [r \in MCClaims |-> IF r = r1 THEN "APPROVED" ELSE "REJECTED"]
=============================================================================
