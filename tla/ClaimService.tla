---------------------------- MODULE ClaimService ----------------------------
(***************************************************************************)
(* The running service: every process answers POST /api/claims and runs a  *)
(* FraudWorker, and all of them share one database and one Redis.  The     *)
(* components are ClaimCreation and FraudWorker; what is added here is     *)
(* that a process takes down its worker and its requests together.         *)
(***************************************************************************)
EXTENDS ClaimStore, Disruptions

CONSTANTS Workers, NoClaim, Decision, Keys, KeyOf, QueueLimit,
          Host   \* the process (named by its worker) that serves each request

ASSUME ServiceAssumption ==
  /\ NoClaim \notin Claims
  /\ Decision \in [Claims -> Decided]
  /\ KeyOf \in [Claims -> Keys]
  /\ QueueLimit \in Nat
  /\ Host \in [Claims -> Workers]

VARIABLES isRunning, pc, job, events,   \* as in FraudWorker
          idem, stage, claimId          \* as in ClaimCreation; stage is its pc

workerVars == <<isRunning, pc, job, events>>
creationVars == <<idem, stage, claimId>>
vars == <<storeVars, workerVars, creationVars, disruptions>>

Worker == INSTANCE FraudWorker
Creation == INSTANCE ClaimCreation WITH pc <- stage

Init ==
  /\ Creation!Init
  /\ Worker!WorkerInit

\* The requests that process w is serving end without an answer.
Abandon(w) ==
  /\ stage' = [r \in Claims |->
                 IF Host[r] = w /\ stage[r] \notin Creation!Answered \cup {"limit"}
                 THEN "failed" ELSE stage[r]]
  /\ UNCHANGED <<idem, claimId>>

\* A step of the worker.  If it ends with an exception out of start(), the
\* unhandled rejection ends the process.
WorkerStep(w) ==
  /\ Worker!Step(w)
  /\ IF pc'[w] = "down" /\ isRunning[w] THEN Abandon(w) ELSE UNCHANGED creationVars

\* The process of w ends: it dies, or it has run its shutdown hooks.
ProcessEnds(w) == (Worker!Crash(w) \/ Worker!Exit(w)) /\ Abandon(w)

\* A new process takes the place of w.  A worker whose loop has returned may
\* leave requests to a process that is only now gone.
ProcessStarts(w) == Worker!Restart(w) /\ Abandon(w)

ShutdownBegins(w) == Worker!Shutdown(w) /\ UNCHANGED creationVars

\* The code after an await of request r.  A process that is down serves none.
RequestStep(r) ==
  /\ pc[Host[r]] # "down" \/ ~isRunning[Host[r]]
  /\ Creation!Step(r)
  /\ UNCHANGED workerVars

\* The shutdown hooks of the process of r have closed its Redis client.  (What
\* that does to the worker is what Exit does: it ends, and stores nothing.)
RequestRejected(r) ==
  /\ ~isRunning[Host[r]]
  /\ Creation!Rejected(r)
  /\ UNCHANGED workerVars

\* Keys whose time is over.
KeyExpires ==
  \/ \E c \in Claims : Worker!ExpirePayload(c) /\ UNCHANGED creationVars
  \/ \E k \in Keys : Creation!ExpireRecord(k) /\ UNCHANGED workerVars

Next ==
  \/ \E w \in Workers : \/ WorkerStep(w) \/ ProcessEnds(w) \/ ProcessStarts(w)
                        \/ ShutdownBegins(w)
  \/ \E r \in Claims : RequestStep(r) \/ RequestRejected(r)
  \/ KeyExpires

Spec == Init /\ [][Next]_vars

\* The event loop runs the worker and the requests of a process; a process
\* that is shutting down ends, and a supervisor replaces one that ended.
ProcessRuns(w) ==
  WorkerStep(w) \/ (Worker!Exit(w) /\ Abandon(w)) \/ ProcessStarts(w)
Fairness ==
  /\ \A w \in Workers : WF_vars(ProcessRuns(w))
  /\ \A r \in Claims : WF_vars(RequestStep(r))
FairSpec == Spec /\ Fairness
-----------------------------------------------------------------------------
\* A claim some client was told is created.
Acknowledged(c) == \E r \in Claims : stage[r] = "ok" /\ claimId[r] = c

\* A claim that was acknowledged, and is not decided, is in the queue, with a
\* worker or among the dead letters, but for one claim per disruption of Redis
\* or of a process.
AcknowledgedLossBounded ==
  Cardinality({c \in Worker!Lost : Acknowledged(c)})
    <= Suffered(AllKinds \ {"dbRefused", "dbUnanswered", "stall"})

\* From its creation on, whatever is disrupted, a claim goes through the
\* lifecycle.  Its row may be withdrawn when a worker already processes it;
\* one announcement may follow then.
Lifecycle == INSTANCE ClaimLifecycle
               WITH status <- [c \in Claims |-> row[c].status], announced <- events
LifecycleSpec == Lifecycle!Spec

\* Workers may process a claim before it is acknowledged, and finish it; a
\* replay finds it all the same.
ReplayFindsClaim == Creation!CompleteNeverDangles

\* What a key promises, it promises of all processes together: they share the
\* records, and one that ends fails the requests it serves all at once.
IdempotentSpec == Creation!IdempotentSpec

OnlyDatabaseFails == Suffered(AllKinds \ {"dbRefused", "dbUnanswered"}) = 0

\* Where only the database fails, an acknowledged claim is decided or
\* dead-lettered in the end.
Settled(c) == ~Worker!Decidable(c) \/ c \in Range(dlq)
AcknowledgedSettles ==
  \A c \in Claims : []<>(Acknowledged(c) /\ OnlyDatabaseFails => Settled(c))

\* A claim whose processing failed half way is not resumed: its retries ask
\* for PROCESSING again, which the validator refuses each time, until it is
\* dead-lettered.
HalfProcessed(c) == row[c].status \in {"PROCESSING", "FRAUD_CHECKING"}
HalfProcessedIsDeadLettered ==
  \A c \in Claims :
    c \in Range(queue) /\ HalfProcessed(c)
      ~> (c \in Range(dlq) /\ HalfProcessed(c)) \/ ~OnlyDatabaseFails

\* Where only the database fails, the lock of a key is given back by the
\* request that took it: a repetition need not wait until it expires.
LockIsReleased ==
  \A k \in Keys : []<>(OnlyDatabaseFails => idem[k].state # "pending")

\* Every request is answered, or its process ends: no wait for another request
\* is without end, whatever happens to that one.
EveryRequestAnswered == \A r \in Claims : []<>(stage[r] \in Creation!Answered)
=============================================================================
