------------------------------ MODULE MCGateway ------------------------------
(***************************************************************************)
(* A small instance of Gateway: one claim, a socket of its owner and one   *)
(* of somebody else on one process, the claim at home on either process.   *)
(***************************************************************************)
EXTENDS Gateway

CONSTANTS claim, alice, bob, aliceToken, bobToken, aliceSocket, bobSocket, p1, p2

MCClaims == {claim}
MCIdentities == {alice, bob}
MCOwnerOf == [c \in MCClaims |-> alice]
MCTokens == {aliceToken, bobToken}
MCBearer == [t \in MCTokens |-> IF t = aliceToken THEN alice ELSE bob]
MCSockets == {aliceSocket, bobSocket}
MCTokenOf == [s \in MCSockets |-> IF s = aliceSocket THEN aliceToken ELSE bobToken]
MCProcesses == {p1, p2}
MCProcessOf == [s \in MCSockets |-> p1]
ReadRefusals == {"refused", "dbRefused"}
=============================================================================
