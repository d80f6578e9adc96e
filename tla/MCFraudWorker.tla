---------------------------- MODULE MCFraudWorker ----------------------------
(***************************************************************************)
(* Small instances of FraudWorker: two workers over two claims, of which   *)
(* the fraud rule approves one and rejects the other.                      *)
(***************************************************************************)
EXTENDS FraudWorker, TLC

CONSTANTS w1, w2, approvable, rejectable

MCWorkers == {w1, w2}
MCClaims == {approvable, rejectable}
MCDecision == [c \in MCClaims |-> IF c = approvable THEN "APPROVED" ELSE "REJECTED"]

EveryKind == {"refused", "unanswered", "resent", "dbRefused", "dbUnanswered",
              "crash", "shutdown", "expired"}

Symmetry == Permutations(MCWorkers)
=============================================================================
