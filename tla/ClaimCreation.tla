---------------------------- MODULE ClaimCreation ----------------------------
(***************************************************************************)
(* POST /api/claims: ClaimService.createClaim, the idempotency records of  *)
(* ClaimIdempotencyService and RedisQueueService.add.                      *)
(*                                                                         *)
(* A request is named by the id that its randomUUID call would give, so    *)
(* the requests are the Claims of ClaimStore.  An action is the code from  *)
(* one await to the next, as in FraudWorker.                               *)
(***************************************************************************)
EXTENDS ClaimStore, Disruptions

CONSTANTS
  Keys,        \* idempotency keys
  KeyOf,       \* buildKey of each request
  NoClaim,
  QueueLimit   \* queueBackpressureLimit

ASSUME CreationAssumption ==
  /\ KeyOf \in [Claims -> Keys]
  /\ NoClaim \notin Claims
  /\ QueueLimit \in Nat

VARIABLES
  idem,    \* the record at each idempotency key
  pc,      \* the command the request awaits, or its answer
  claimId  \* id the request found in the record, or made itself

creationVars == <<idem, pc, claimId>>
vars == <<storeVars, creationVars, disruptions>>

\* Code under the lock: from the SETNX that took it to the end.
Critical == {"expire", "size", "insert", "pend", "payload", "push", "undo",
             "finalize", "release"}
Answered == {"ok", "failed"}
PC == {"limit", "lookup", "lock", "wait", "fetch"} \cup Critical \cup Answered

NoRecord == [state |-> "none", claim |-> NoClaim, ttl |-> "never"]
Record   == [state : {"none", "pending", "complete"},
             claim : Claims \cup {NoClaim},
             ttl   : {"never", "60s", "24h"}]

CreationTypeOK ==
  /\ idem \in [Keys -> Record]
  /\ pc \in [Claims -> PC]
  /\ claimId \in [Claims -> Claims \cup {NoClaim}]
  /\ \A k \in Keys : idem[k].state = "complete" <=> idem[k].claim # NoClaim
  /\ \A r \in Claims : /\ pc[r] \in Critical \ {"expire"} => claimId[r] = r
                       /\ pc[r] \in {"fetch", "ok"} => claimId[r] # NoClaim

CreationInit ==
  /\ idem = [k \in Keys |-> NoRecord]
  /\ pc = [r \in Claims |-> "limit"]
  /\ claimId = [r \in Claims |-> NoClaim]

Goto(r, p) == pc' = [pc EXCEPT ![r] = p] /\ UNCHANGED claimId

\* The request has the claim id c and goes on to p with it.
Identify(r, p, c) ==
  /\ pc' = [pc EXCEPT ![r] = p]
  /\ claimId' = [claimId EXCEPT ![r] = c]

\* Nothing happens but that the request goes on to the handler at p.
Reject(r, p) == Goto(r, p) /\ UNCHANGED <<storeVars, idem, disruptions>>

\* Seeded fault: a pending record is taken for a complete one.
Taken(k) == idem[k].state # "none"
Complete(k) == idem[k].state = "complete"
-----------------------------------------------------------------------------
\* assertCreateAllowed admits the request, answers 429, or fails.
Limit(r) ==
  /\ pc[r] = "limit"
  /\ \E p \in {"lookup", "failed"} : Goto(r, p)
  /\ UNCHANGED <<storeVars, idem, disruptions>>

\* claimExistingClaimId.
Lookup(r) ==
  /\ pc[r] = "lookup"
  /\ \E o \in RedisRead :
       /\ Suffer(o)
       /\ LET k == KeyOf[r]
          IN  \/ Throws(o) /\ Goto(r, "failed")
              \/ ~Throws(o) /\ Complete(k) /\ Identify(r, "fetch", idem[k].claim)
              \/ ~Throws(o) /\ ~Complete(k) /\ Goto(r, "lock")
  /\ UNCHANGED <<storeVars, idem>>

\* Seeded fault: the reply of SETNX is not looked at.
AcquiredAlways(k) == TRUE
\* SETNX replies 1.
Acquired(k) == idem[k].state = "none"

\* acquirePendingLock: SETNX ...
Lock(r) ==
  /\ pc[r] = "lock"
  /\ \E o \in RedisWrite :
       /\ Suffer(o)
       /\ LET k == KeyOf[r]
          IN  /\ idem' = IF Executed(o) /\ idem[k].state = "none"
                         THEN [idem EXCEPT ![k] = [NoRecord EXCEPT !.state = "pending"]]
                         ELSE idem
              /\ Goto(r, Resume(o, "lock", IF Acquired(k) THEN "expire" ELSE "wait",
                                "failed"))
  /\ UNCHANGED storeVars

\* ... and PEXPIRE, which sets the life of whatever the key holds by then.
\* createClaim has not entered its try block yet: an exception leaves the key.
\* The request that has the lock makes up its claim id.
Expire(r) ==
  /\ pc[r] = "expire"
  /\ \E o \in RedisWrite :
       /\ Suffer(o)
       /\ LET k == KeyOf[r]
          IN  idem' = IF Executed(o) /\ idem[k].state # "none"
                      THEN [idem EXCEPT ![k].ttl = "60s"]
                      ELSE idem
       /\ \/ o = "ok" /\ Identify(r, "size", r)
          \/ o # "ok" /\ Goto(r, Resume(o, "expire", "size", "failed"))
  /\ UNCHANGED storeVars

\* waitForCompletion: a poll that finds the record complete, or fails ...
Poll(r) ==
  /\ pc[r] = "wait"
  /\ \E o \in RedisRead :
       /\ Suffer(o)
       /\ \/ Throws(o) /\ Goto(r, "failed")
          \/ ~Throws(o) /\ Complete(KeyOf[r]) /\ Identify(r, "fetch", idem[KeyOf[r]].claim)
  /\ UNCHANGED <<storeVars, idem>>

\* Seeded fault: the wait goes on while there is nobody to wait for.
GiveUpOnPending(r) ==
  /\ pc[r] = "wait" /\ idem[KeyOf[r]].state = "pending"
  /\ Goto(r, "failed")
  /\ UNCHANGED <<storeVars, idem, disruptions>>
\* ... or the two seconds are over: "Claim is already being processed".
GiveUp(r) ==
  /\ pc[r] = "wait"
  /\ Goto(r, "failed")
  /\ UNCHANGED <<storeVars, idem, disruptions>>

\* getClaim of the claim the record names.
Fetch(r) ==
  /\ pc[r] = "fetch"
  /\ \E o \in DbRead :
       /\ Suffer(o)
       /\ Goto(r, IF ~Throws(o) /\ Exists(claimId[r]) THEN "ok" ELSE "failed")
  /\ UNCHANGED <<storeVars, idem>>
-----------------------------------------------------------------------------
\* The try block.

\* Seeded fault: the lock is left to expire.
LeftToExpire == "failed"
\* Where an exception of the try block leads: to the outer catch.
FailedCreate == "release"

\* queueSize and the back-pressure test.
Size(r) ==
  /\ pc[r] = "size"
  /\ \E o \in RedisRead :
       /\ Suffer(o)
       /\ Goto(r, IF ~Throws(o) /\ Len(queue) < QueueLimit THEN "insert" ELSE FailedCreate)
  /\ UNCHANGED <<storeVars, idem>>

\* prisma.claim.create.
Insert(r) ==
  /\ pc[r] = "insert"
  /\ \E o \in DbWrite :
       /\ Suffer(o)
       /\ row' = IF Executed(o) THEN [row EXCEPT ![r] = FreshRow] ELSE row
       /\ Goto(r, IF Throws(o) THEN FailedCreate ELSE "pend")
  /\ UNCHANGED <<queueVars, idem>>

\* Seeded faults: the exception of add is swallowed; the row is left behind.
SwallowedAdd == "finalize"
ForgottenAdd == "release"
\* Where an exception of add leads: to the inner catch.
FailedAdd == "undo"

\* add: SETNX of the pending key.  If the key is there, add is done.
Pend(r) ==
  /\ pc[r] = "pend"
  /\ \E o \in RedisWrite :
       /\ Suffer(o)
       /\ pending' = IF Executed(o) THEN pending \cup {r} ELSE pending
       /\ Goto(r, Resume(o, "pend", IF r \in pending THEN "finalize" ELSE "payload", FailedAdd))
  /\ UNCHANGED <<row, queue, dlq, retry, payload, idem>>

\* add: PEXPIRE of the pending key and SETEX of the payload.
Payload(r) ==
  /\ pc[r] = "payload"
  /\ \E o \in RedisWrite :
       /\ Suffer(o)
       /\ payload' = IF Executed(o) THEN payload \cup {r} ELSE payload
       /\ Goto(r, Resume(o, "payload", "push", FailedAdd))
  /\ UNCHANGED <<row, queue, dlq, retry, pending, idem>>

\* add: LPUSH.
Push(r) ==
  /\ pc[r] = "push"
  /\ \E o \in RedisWrite :
       /\ Suffer(o)
       /\ queue' = IF Executed(o) THEN Append(queue, r) ELSE queue
       /\ Goto(r, Resume(o, "push", "finalize", FailedAdd))
  /\ UNCHANGED <<row, dlq, retry, payload, pending, idem>>

\* The inner catch: prisma.claim.delete, and the exception goes on.
Undo(r) ==
  /\ pc[r] = "undo"
  /\ \E o \in DbWrite :
       /\ Suffer(o)
       /\ row' = IF Executed(o) THEN [row EXCEPT ![r] = NoRow] ELSE row
  /\ Goto(r, FailedCreate)
  /\ UNCHANGED <<queueVars, idem>>

\* Seeded fault: an exception of finalize undoes the row.
UndoneFinalize == "undo"
\* Where an exception of finalize leads.
FailedFinalize == FailedCreate

\* finalize: SETEX, whoever holds the key by now.
Finalize(r) ==
  /\ pc[r] = "finalize"
  /\ \E o \in RedisWrite :
       /\ Suffer(o)
       /\ idem' = IF Executed(o)
                  THEN [idem EXCEPT ![KeyOf[r]] =
                          [state |-> "complete", claim |-> r, ttl |-> "24h"]]
                  ELSE idem
       /\ Goto(r, Resume(o, "finalize", "ok", FailedFinalize))
  /\ UNCHANGED storeVars

\* The outer catch: release deletes the key, whoever holds it by now.
Release(r) ==
  /\ pc[r] = "release"
  /\ \E o \in RedisWrite :
       /\ Suffer(o)
       /\ idem' = IF Executed(o) THEN [idem EXCEPT ![KeyOf[r]] = NoRecord] ELSE idem
       /\ Goto(r, Resume(o, "release", "failed", "failed"))
  /\ UNCHANGED storeVars
-----------------------------------------------------------------------------
\* RedisQueueService.onModuleDestroy closes the client that all services of a
\* process share: the Redis command of a request it still serves is rejected.
Rejected(r) ==
  \/ pc[r] \in {"lookup", "lock", "expire", "wait", "release"} /\ Reject(r, "failed")
  \/ pc[r] = "size" /\ Reject(r, FailedCreate)
  \/ pc[r] \in {"pend", "payload", "push"} /\ Reject(r, FailedAdd)
  \/ pc[r] = "finalize" /\ Reject(r, FailedFinalize)

\* The process that serves the request dies.
Crash(r) ==
  /\ pc[r] \notin Answered
  /\ Suffer("crash")
  /\ Goto(r, "failed")
  /\ UNCHANGED <<storeVars, idem>>

InProgress(k) == {r \in Claims : KeyOf[r] = k /\ pc[r] \in Critical}

\* Redis drops a key whose life is over.  Within 60 s no request that holds
\* it is still running, unless it was stalled.
ExpireRecord(k) ==
  /\ idem[k].ttl # "never"
  /\ \/ InProgress(k) # {} /\ Suffer("stall")
     \/ InProgress(k) = {} /\ idem[k].ttl = "60s" /\ UNCHANGED disruptions
     \/ InProgress(k) = {} /\ idem[k].ttl = "24h" /\ Suffer("expired")
  /\ idem' = [idem EXCEPT ![k] = NoRecord]
  /\ UNCHANGED <<storeVars, pc, claimId>>

Step(r) ==
  \/ Limit(r) \/ Lookup(r) \/ Lock(r) \/ Expire(r) \/ Poll(r) \/ GiveUp(r)
  \/ Fetch(r) \/ Size(r) \/ Insert(r) \/ Pend(r) \/ Payload(r) \/ Push(r)
  \/ Undo(r) \/ Finalize(r) \/ Release(r)

CreationNext ==
  \/ \E r \in Claims : Step(r) \/ Crash(r)
  \/ \E k \in Keys : ExpireRecord(k)
-----------------------------------------------------------------------------
\* On its own: nothing has been created yet, and nothing is consumed.
Init ==
  /\ row = [c \in Claims |-> NoRow]
  /\ queue = <<>> /\ dlq = <<>>
  /\ retry = [c \in Claims |-> 0]
  /\ payload = {} /\ pending = {}
  /\ CreationInit
  /\ disruptions = NoDisruptions

Spec == Init /\ [][CreationNext]_vars
-----------------------------------------------------------------------------
\* Every variable stays in its type.
TypeOK == StoreTypeOK /\ CreationTypeOK /\ DisruptionsTypeOK

\* While no request outlives its lock and no DEL is sent twice, at most one
\* request per key is inside the try block, and its record is not taken away.
LockProtects ==
  Never("stall") /\ Never("resent") =>
    \A k \in Keys :
      /\ Cardinality(InProgress(k)) <= 1
      /\ InProgress(k) # {} => idem[k].state # "none"

\* A replay finds its claim, whatever is disrupted: a complete record, and an
\* id read from one, name a row that is there.
CompleteNeverDangles ==
  /\ \A k \in Keys : Complete(k) => Exists(idem[k].claim)
  /\ \A r \in Claims : pc[r] = "fetch" => Exists(claimId[r])

\* No record is lost before its time: none is outlived by its request, dropped
\* by Redis, or deleted because the reply of the SETEX did not arrive.
RecordsKept == Never("stall") /\ Never("expired") /\ Never("unanswered") /\ Never("resent")

\* The idempotency promise, from one step to the next: as long as records are
\* kept, a key is bound once and for good, and whoever succeeds gets its claim.
Idempotent == INSTANCE IdempotentCreation WITH
  kept   <- RecordsKept,
  bound  <- [k \in Keys |-> idem[k].claim],
  answer <- [r \in Claims |-> IF pc[r] = "ok" THEN claimId[r]
                             ELSE IF pc[r] = "failed" THEN "failed" ELSE "open"]
IdempotentSpec == Idempotent!Spec

\* A claim that is answered is in the queue, except for one claim at most for
\* each command that is sent twice: a SETNX of the pending key then replies 0,
\* and add returns and pushes nothing.
AcknowledgedIsQueued ==
  Cardinality({c \in Claims : /\ \E r \in Claims : pc[r] = "ok" /\ claimId[r] = c
                              /\ c \notin Range(queue)})
    <= Suffered({"resent"})

\* A request leaves nothing behind for good but by a disruption, and then one
\* thing at most: a row that nobody will process, by a crash, a failure of the
\* database itself or a repeated command; a lock that does not expire, by a
\* crash or a failure of Redis between its SETNX and its PEXPIRE.
Orphans == {c \in Claims : Exists(c) /\ pc[c] \in Answered /\ c \notin Range(queue)}
OrphanLocks ==
  {k \in Keys : /\ idem[k].state = "pending" /\ idem[k].ttl = "never"
                /\ \A r \in Claims : KeyOf[r] = k => pc[r] # "expire"}
OrphansBounded ==
  /\ Cardinality(Orphans) <= Suffered({"crash", "resent", "dbRefused", "dbUnanswered"})
  /\ Cardinality(OrphanLocks) <= Suffered({"crash", "resent", "refused", "unanswered"})

\* README, CLAIM_QUEUE_BACKPRESSURE_LIMIT: "fail closed when queue is
\* overloaded".  The queue is never longer than the limit.
BackpressureHolds == Len(queue) <= QueueLimit

\* README, POST /api/claims: "supports optional Idempotency-Key".  However
\* often a request is repeated, its key has one claim at most in the queue.
OneQueuedClaimPerKey ==
  \A c, d \in Range(queue) : KeyOf[c] = KeyOf[d] => c = d
=============================================================================
