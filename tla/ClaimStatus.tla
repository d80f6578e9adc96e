----------------------------- MODULE ClaimStatus -----------------------------
(***************************************************************************)
(* The life of a claim, as the table of ClaimStatusTransitionValidator     *)
(* defines it.  Constant-level: every other module extends this one.       *)
(***************************************************************************)

\* The enum ClaimStatus.
Status == {"PENDING", "PROCESSING", "FRAUD_CHECKING", "APPROVED", "REJECTED"}

\* A row that is not in the claims table.
ABSENT == "ABSENT"

\* The statuses at which the worker skips a claim.
Decided == {"APPROVED", "REJECTED"}

\* The allowed <<current, next>> pairs.
transitions ==
  { <<"PENDING", "PROCESSING">>,
    <<"PROCESSING", "FRAUD_CHECKING">>,
    <<"PROCESSING", "REJECTED">>,
    <<"FRAUD_CHECKING", "APPROVED">>,
    <<"FRAUD_CHECKING", "REJECTED">> }

\* Seeded fault: a status may be written again.
ValidateOrRepeat(current, next) ==
  current = next \/ <<current, next>> \in transitions

\* validate returns without throwing.
Validate(current, next) == <<current, next>> \in transitions
=============================================================================
