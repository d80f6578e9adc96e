---------------------------- MODULE MCClaimRequest ----------------------------
(***************************************************************************)
(* A small instance of ClaimRequest: headers and descriptions over a few   *)
(* characters: a letter, two others that a key may have, one that it may   *)
(* not, and a space.  A digest is one of a few digits, each of which is    *)
(* also sent as a header.                                                  *)
(***************************************************************************)
EXTENDS ClaimRequest

CONSTANTS alice, bob

Texts(chars, maxLength) == UNION {[1..n -> chars] : n \in 0..maxLength}

MCIdentities == {alice, bob}
Digits == <<"0", "1", "2", "3", "4", "5", "6", "7">>
MCSafeChars == {"x", "_", "-"} \cup Range(Digits)

Plain == [policyId |-> "absent", description |-> <<"x", "x">>, amount |-> "absent"]
\* Every header with two bodies, and every body without one, where either the
\* description or the other fields are the plain ones.
MCHeaders ==
  Texts({"x", "_", "-", "/", " "}, 3) \cup
  UNION {{<<d>>, <<" ", d>>, <<d, "/">>, <<d, "x", "x">>} : d \in Range(Digits)}
MCBodies ==
  {[Plain EXCEPT !.description = d] : d \in Texts({"x", " "}, 4)} \cup
  {[Plain EXCEPT !.policyId = p, !.amount = a] :
     p \in {"absent", "null", "bad", "policy"}, a \in {"absent", "null", "bad", "1"}}
MCInputs ==
  [header : MCHeaders, body : {Plain, [Plain EXCEPT !.amount = "1"]}] \cup
  [header : {<<>>}, body : MCBodies]

\* The contents in some order; the digest of one is the digit of its place.
Listed == FoldSet(LAMBDA c, list : Append(list, c), <<>>, Contents)
MCDigest == [c \in Contents |-> <<Digits[CHOOSE n \in DOMAIN Listed : Listed[n] = c]>>]
=============================================================================
