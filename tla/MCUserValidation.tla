--------------------------- MODULE MCUserValidation ---------------------------
(***************************************************************************)
(* A small instance of UserValidation: overlapping look-ups of a user.     *)
(***************************************************************************)
EXTENDS UserValidation

CONSTANTS u1, c1, c2, c3

MCUsers == {u1}
MCCallers == {c1, c2, c3}
=============================================================================
