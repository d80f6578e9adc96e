--------------------------- MODULE MCClaimCreation ---------------------------
(***************************************************************************)
(* Small instances of ClaimCreation: three requests, two of them with the  *)
(* same idempotency key.                                                   *)
(***************************************************************************)
EXTENDS ClaimCreation, TLC

CONSTANTS r1, r2, r3, sharedKey, ownKey

MCClaims == {r1, r2, r3}
MCKeys == {sharedKey, ownKey}
MCKeyOf == [r \in MCClaims |-> IF r = r3 THEN ownKey ELSE sharedKey]
\* All three with the same key.
OneKeyOf == [r \in MCClaims |-> sharedKey]

EveryKind == AllKinds \ {"shutdown"}
CommandRefusals == {"refused"}
NoKinds == {}

\* r1 and r2 can be exchanged.
Symmetry == Permutations({r1, r2})
AllSymmetry == Permutations(MCClaims)
=============================================================================
