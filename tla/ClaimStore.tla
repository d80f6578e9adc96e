------------------------------ MODULE ClaimStore ------------------------------
(***************************************************************************)
(* The two stores every process of the service shares: the claims table    *)
(* (PostgreSQL behind Prisma) and the Redis keys of RedisQueueService.     *)
(* A command of either store is atomic; whatever happens between two       *)
(* commands is in the modules that issue them.                             *)
(***************************************************************************)
EXTENDS Naturals, Sequences, FiniteSets, Functions, ClaimStatus

CONSTANT Claims   \* claim ids; randomUUID never repeats one

ASSUME ClaimsAssumption == IsFiniteSet(Claims)

VARIABLES
  row,       \* the claims table: status and version of each claim
  queue,     \* claims:queue, oldest first (LPUSH appends, RPOP takes the head)
  dlq,       \* claims:dlq, in the same order
  retry,     \* claims:retry, a hash of counters
  payload,   \* ids that have a claims:payload:<id> key
  pending    \* ids that have a claims:pending:<id> key

queueVars == <<queue, dlq, retry, payload, pending>>
storeVars == <<row, queueVars>>

Row      == [status : Status \cup {ABSENT}, version : Nat]
NoRow    == [status |-> ABSENT, version |-> 0]
FreshRow == [status |-> "PENDING", version |-> 0]

StoreTypeOK ==
  /\ row \in [Claims -> Row]
  /\ queue \in Seq(Claims)
  /\ dlq \in Seq(Claims)
  /\ retry \in [Claims -> Nat]
  /\ payload \in SUBSET Claims
  /\ pending \in SUBSET Claims

Exists(c) == row[c].status # ABSENT

\* canRetry: a claim is given up at its third failure.
MaxRetries  == 3
\* Seeded fault: one retry too many.
CanRetryTooOften(c) == retry[c] <= MaxRetries
CanRetry(c) == retry[c] < MaxRetries

\* Seeded fault: the element is read and left in the list.
LeaveTail(q) == q
\* RPOP.
DropTail(q) == IF q = <<>> THEN q ELSE Tail(q)
=============================================================================
