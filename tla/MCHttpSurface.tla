---------------------------- MODULE MCHttpSurface ----------------------------
(***************************************************************************)
(* Every request there is, with a token of the owner of a claim, of        *)
(* somebody else, of nobody, or with a header that is null.                *)
(***************************************************************************)
EXTENDS HttpSurface

CONSTANTS claim, alice, bob, aliceToken, bobToken, forged, shapeless

MCClaims == {claim}
MCUsers == {alice, bob}
MCOwnerOf == [c \in MCClaims |-> alice]
MCTokens == {aliceToken, bobToken, forged, shapeless}
MCBearer == [t \in MCTokens |-> CASE t = aliceToken -> alice
                                  [] t = bobToken   -> bob
                                  [] OTHER          -> NoIdentity]
MCShapeless == {shapeless}
ReadRefusals == {"refused", "dbRefused"}
=============================================================================
