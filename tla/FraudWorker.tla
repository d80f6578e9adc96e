----------------------------- MODULE FraudWorker -----------------------------
(***************************************************************************)
(* FraudWorker: the loop every process of the service runs over the Redis  *)
(* queue, with the ClaimService and RedisQueueService calls it makes.      *)
(*                                                                         *)
(* One action is the code from one await to the next: it begins with the   *)
(* effect of the command awaited at pc[w] and ends where the next command  *)
(* is issued.  The two delay(1000) calls only separate actions.            *)
(***************************************************************************)
EXTENDS ClaimStore, Disruptions

CONSTANTS
  Workers,    \* one per process of the service
  NoClaim,
  Decision    \* determineFraudDecision, a function of the claim id

ASSUME WorkerAssumption ==
  /\ NoClaim \notin Claims
  /\ Decision \in [Claims -> Decided]

VARIABLES
  isRunning,  \* cleared by onModuleDestroy
  pc,         \* the command the worker awaits
  job,        \* locals of processClaim and updateClaimStatus
  events      \* claim.status_changed events emitted for each claim

workerVars == <<isRunning, pc, job, events>>
vars == <<storeVars, workerVars, disruptions>>

PC == {"rpop", "get", "load", "read", "write", "reload", "incr", "check",
       "requeue", "deadletter", "hdel", "clear", "unwind", "down"}

NoJob == [claim |-> NoClaim, next |-> "PENDING", seen |-> 0]
Job   == [claim : Claims \cup {NoClaim},   \* payload.claimId
          next  : Status,                  \* nextStatus
          seen  : Nat]                     \* current.version

WorkerTypeOK ==
  /\ isRunning \in [Workers -> BOOLEAN]
  /\ pc \in [Workers -> PC]
  /\ job \in [Workers -> Job]
  /\ events \in [Claims -> Seq(Status)]
  /\ \A w \in Workers : job[w].claim = NoClaim <=> pc[w] \in {"rpop", "down"}

WorkerInit ==
  /\ isRunning = [w \in Workers |-> TRUE]
  /\ pc = [w \in Workers |-> "rpop"]
  /\ job = [w \in Workers |-> NoJob]
  /\ events = [c \in Claims |-> <<>>]

-----------------------------------------------------------------------------
\* Control flow shared by the actions.

Goto(w, p) == pc' = [pc EXCEPT ![w] = p] /\ UNCHANGED job

\* The worker's process ends: the job it held is gone.
Die(w) ==
  /\ pc' = [pc EXCEPT ![w] = "down"]
  /\ job' = [job EXCEPT ![w] = NoJob]

\* Seeded fault: the locals of the last turn survive.
KeepJob(w) == Goto(w, "rpop")
\* while (this.isRunning): the next turn, or start() returns.
LoopTop(w) ==
  /\ pc' = [pc EXCEPT ![w] = IF isRunning[w] THEN "rpop" ELSE "down"]
  /\ job' = [job EXCEPT ![w] = NoJob]

\* getNext has an id.
Take(w, c) ==
  /\ pc' = [pc EXCEPT ![w] = "get"]
  /\ job' = [job EXCEPT ![w].claim = c]

\* updateClaimStatus(claimId, s) is called.
StartUpdate(w, s) ==
  /\ pc' = [pc EXCEPT ![w] = "read"]
  /\ job' = [job EXCEPT ![w].next = s, ![w].seen = 0]

\* The catch clause of processClaim.
\* Seeded fault: the failure is swallowed.
CatchSilently(w) == Goto(w, "clear")
Catch(w) == Goto(w, "incr")
-----------------------------------------------------------------------------
\* getNext: RPOP.  An exception here ends start(), whose promise nobody
\* awaits: the unhandled rejection ends the process.
RPop(w) ==
  /\ pc[w] = "rpop"
  /\ \E o \in RedisWrite :
       /\ Suffer(o)
       /\ queue' = IF Executed(o) THEN DropTail(queue) ELSE queue
       /\ \/ Throws(o) /\ Die(w)
          \/ o = "resent" /\ UNCHANGED <<pc, job>>
          \/ o = "ok" /\ queue = <<>> /\ LoopTop(w)
          \/ o = "ok" /\ queue # <<>> /\ Take(w, Head(queue))
  /\ UNCHANGED <<row, dlq, retry, payload, pending, isRunning, events>>

\* getNext: GET of the payload, then the loop's checks of isRunning and null.
\* A worker that is stopping, or finds no payload, drops the id.
Get(w) ==
  /\ pc[w] = "get"
  /\ \E o \in RedisRead :
       /\ Suffer(o)
       /\ LET usable == job[w].claim \in payload /\ isRunning[w]
          IN  \/ Throws(o) /\ Die(w)
              \/ ~Throws(o) /\ ~usable /\ LoopTop(w)
              \/ ~Throws(o) /\ usable /\ Goto(w, "load")
  /\ UNCHANGED <<storeVars, isRunning, events>>

\* getClaimInternal; a decided claim is skipped.
Load(w) ==
  /\ pc[w] = "load"
  /\ \E o \in DbRead :
       /\ Suffer(o)
       /\ LET c == job[w].claim
              found == ~Throws(o) /\ Exists(c)
          IN  \/ ~found /\ Catch(w)
              \/ found /\ row[c].status \in Decided /\ Goto(w, "clear")
              \/ found /\ row[c].status \notin Decided /\ StartUpdate(w, "PROCESSING")
  /\ UNCHANGED <<storeVars, isRunning, events>>

\* updateClaimStatus: findUnique, then the validator.
Read(w) ==
  /\ pc[w] = "read"
  /\ \E o \in DbRead :
       /\ Suffer(o)
       /\ LET current == row[job[w].claim]
              valid == ~Throws(o) /\ Validate(current.status, job[w].next)
          IN  \/ ~valid /\ Catch(w)
              \/ /\ valid
                 /\ pc' = [pc EXCEPT ![w] = "write"]
                 /\ job' = [job EXCEPT ![w].seen = current.version]
  /\ UNCHANGED <<storeVars, isRunning, events>>

\* The where clause of updateMany: the row is there, at the version read.
\* Seeded fault: the version is not compared.
MatchesId(c, version) == Exists(c)
Matches(c, version) == Exists(c) /\ row[c].version = version

\* updateClaimStatus: the optimistic update.
Write(w) ==
  /\ pc[w] = "write"
  /\ \E o \in DbWrite :
       /\ Suffer(o)
       /\ LET c == job[w].claim
              updated == Executed(o) /\ Matches(c, job[w].seen)
          IN  /\ row' = IF updated
                        THEN [row EXCEPT ![c] = [status  |-> job[w].next,
                                                 version |-> @.version + 1]]
                        ELSE row
              /\ \/ (Throws(o) \/ ~updated) /\ Catch(w)
                 \/ ~Throws(o) /\ updated /\ Goto(w, "reload")
  /\ UNCHANGED <<queueVars, isRunning, events>>

\* The update that processClaim makes after the one to status s.
Following(c, s) == IF s = "PROCESSING" THEN "FRAUD_CHECKING" ELSE Decision[c]

\* Seeded fault: only decisions are announced.
AnnounceDecisions(c, s) ==
  events' = IF s \in Decided THEN [events EXCEPT ![c] = Append(@, s)] ELSE events
\* The transition counter and claim.status_changed, which move together.
Announce(c, s) == events' = [events EXCEPT ![c] = Append(@, s)]

\* updateClaimStatus: findUnique again (its result is not checked), counter
\* and event; then processClaim goes on.
Reload(w) ==
  /\ pc[w] = "reload"
  /\ \E o \in DbRead :
       /\ Suffer(o)
       /\ LET c == job[w].claim
              s == job[w].next
          IN  \/ Throws(o) /\ Catch(w) /\ UNCHANGED events
              \/ /\ ~Throws(o)
                 /\ Announce(c, s)
                 /\ \/ s \in Decided /\ Goto(w, "clear")
                    \/ s \notin Decided /\ StartUpdate(w, Following(c, s))
  /\ UNCHANGED <<storeVars, isRunning>>
-----------------------------------------------------------------------------
\* The catch clause.  An exception inside it still runs the finally clause
\* ("unwind") and then ends start().

\* incrementRetry: HINCRBY.
Incr(w) ==
  /\ pc[w] = "incr"
  /\ \E o \in RedisWrite :
       /\ Suffer(o)
       /\ retry' = IF Executed(o) THEN [retry EXCEPT ![job[w].claim] = @ + 1] ELSE retry
       /\ Goto(w, Resume(o, "incr", "check", "unwind"))
  /\ UNCHANGED <<row, queue, dlq, payload, pending, isRunning, events>>

\* canRetry: HGET.
Check(w) ==
  /\ pc[w] = "check"
  /\ \E o \in RedisRead :
       /\ Suffer(o)
       /\ \/ Throws(o) /\ Goto(w, "unwind")
          \/ ~Throws(o) /\ CanRetry(job[w].claim) /\ Goto(w, "requeue")
          \/ ~Throws(o) /\ ~CanRetry(job[w].claim) /\ Goto(w, "deadletter")
  /\ UNCHANGED <<storeVars, isRunning, events>>

\* requeue: LPUSH.
Requeue(w) ==
  /\ pc[w] = "requeue"
  /\ \E o \in RedisWrite :
       /\ Suffer(o)
       /\ queue' = IF Executed(o) THEN Append(queue, job[w].claim) ELSE queue
       /\ Goto(w, Resume(o, "requeue", "clear", "unwind"))
  /\ UNCHANGED <<row, dlq, retry, payload, pending, isRunning, events>>

\* moveToDLQ: LPUSH ...
DeadLetter(w) ==
  /\ pc[w] = "deadletter"
  /\ \E o \in RedisWrite :
       /\ Suffer(o)
       /\ dlq' = IF Executed(o) THEN Append(dlq, job[w].claim) ELSE dlq
       /\ Goto(w, Resume(o, "deadletter", "hdel", "unwind"))
  /\ UNCHANGED <<row, queue, retry, payload, pending, isRunning, events>>

\* ... and HDEL.
HDel(w) ==
  /\ pc[w] = "hdel"
  /\ \E o \in RedisWrite :
       /\ Suffer(o)
       /\ retry' = IF Executed(o) THEN [retry EXCEPT ![job[w].claim] = 0] ELSE retry
       /\ Goto(w, Resume(o, "hdel", "clear", "unwind"))
  /\ UNCHANGED <<row, queue, dlq, payload, pending, isRunning, events>>

\* The finally clause: clearPending, then the loop or the pending exception.
Clear(w) ==
  /\ pc[w] \in {"clear", "unwind"}
  /\ \E o \in RedisWrite :
       /\ Suffer(o)
       /\ pending' = IF Executed(o) THEN pending \ {job[w].claim} ELSE pending
       /\ \/ o = "resent" /\ UNCHANGED <<pc, job>>
          \/ o = "ok" /\ pc[w] = "clear" /\ LoopTop(w)
          \/ o = "ok" /\ pc[w] = "unwind" /\ Die(w)
          \/ Throws(o) /\ Die(w)
  /\ UNCHANGED <<row, queue, dlq, retry, payload, isRunning, events>>
-----------------------------------------------------------------------------
\* onModuleDestroy: the loop stops at its next look at isRunning.
Shutdown(w) ==
  /\ pc[w] # "down" /\ isRunning[w]
  /\ Suffer("shutdown")
  /\ isRunning' = [isRunning EXCEPT ![w] = FALSE]
  /\ UNCHANGED <<storeVars, pc, job, events>>

\* The process ends once the shutdown hooks have run, wherever the worker is.
Exit(w) ==
  /\ pc[w] # "down" /\ ~isRunning[w]
  /\ Die(w)
  /\ UNCHANGED <<storeVars, isRunning, events, disruptions>>

Crash(w) ==
  /\ pc[w] # "down"
  /\ Suffer("crash")
  /\ Die(w)
  /\ UNCHANGED <<storeVars, isRunning, events>>

\* onModuleInit of the process that replaces one that ended.
Restart(w) ==
  /\ pc[w] = "down"
  /\ pc' = [pc EXCEPT ![w] = "rpop"]
  /\ isRunning' = [isRunning EXCEPT ![w] = TRUE]
  /\ UNCHANGED <<storeVars, job, events, disruptions>>

\* The 24 h expiry of a payload key.
ExpirePayload(c) ==
  /\ c \in payload
  /\ Suffer("expired")
  /\ payload' = payload \ {c}
  /\ UNCHANGED <<row, queue, dlq, retry, pending, workerVars>>

\* The code of worker w, without the environment.
Step(w) ==
  \/ RPop(w) \/ Get(w) \/ Load(w) \/ Read(w) \/ Write(w) \/ Reload(w)
  \/ Incr(w) \/ Check(w) \/ Requeue(w) \/ DeadLetter(w) \/ HDel(w) \/ Clear(w)

WorkerNext ==
  \/ \E w \in Workers : Step(w) \/ Shutdown(w) \/ Exit(w) \/ Crash(w) \/ Restart(w)
  \/ \E c \in Claims : ExpirePayload(c)
-----------------------------------------------------------------------------
\* On its own the worker meets a queue createClaim has filled, each id once;
\* of a claim whose creation was taken back the id may still be queued.
Init ==
  /\ row \in [Claims -> {FreshRow, NoRow}]
  /\ queue \in Bijection(1..Cardinality(Claims), Claims)
  /\ dlq = <<>>
  /\ retry = [c \in Claims |-> 0]
  /\ payload = Claims
  /\ pending = Claims
  /\ WorkerInit
  /\ disruptions = NoDisruptions

Spec == Init /\ [][WorkerNext]_vars
-----------------------------------------------------------------------------
\* Where a claim is.

Holding(w) == pc[w] \notin {"rpop", "hdel", "clear", "unwind", "down"}
Holders(c) == {w \in Workers : Holding(w) /\ job[w].claim = c}
Decidable(c) == row[c].status \notin Decided \cup {ABSENT}

\* Undecided claims that no list and no worker knows of any more.
Lost == {c \in Claims : /\ Decidable(c)
                        /\ c \notin Range(queue) \cup Range(dlq)
                        /\ Holders(c) = {}}

\* Every variable stays in its type.
TypeOK == StoreTypeOK /\ WorkerTypeOK /\ DisruptionsTypeOK

\* Unless the client repeats a command after a reconnection, a claim is in
\* one place: once in the queue, or with one worker, or once in the dead
\* letters.  Processing is exclusive by this alone: claims:pending guards
\* nothing that the worker reads.
AtMostOneCopy ==
  Never("resent") =>
    /\ IsInjective(queue)
    /\ IsInjective(dlq)
    /\ \A c \in Claims :
         /\ Cardinality(Holders(c)) <= 1
         /\ Holders(c) # {} => c \notin Range(queue) \cup Range(dlq)
         /\ ~(c \in Range(queue) /\ c \in Range(dlq))

\* Unless a command is repeated, a claim goes back to the queue after fewer
\* than MaxRetries failures and is dead-lettered at exactly that many.
RetryBudget ==
  Never("resent") =>
    /\ \A c \in Range(queue) : retry[c] < MaxRetries
    /\ \A w \in Workers : pc[w] = "deadletter" => retry[job[w].claim] = MaxRetries

\* A database failure never loses a claim (nor does a stalled request, which
\* no worker sees), and every other disruption loses one at most.  (RPOP has no acknowledgement: a disruption between it and
\* the push that returns the id is the end of the claim.)
LossBounded ==
  Cardinality(Lost) <= Suffered(AllKinds \ {"dbRefused", "dbUnanswered", "stall"})

\* A worker that made the first update of a claim owns it up to the last event.
Owns(w) ==
  \/ pc[w] = "reload"
  \/ pc[w] \in {"read", "write"} /\ job[w].next # "PROCESSING"

OneOwner ==
  \A v, w \in Workers : Owns(v) /\ Owns(w) /\ job[v].claim = job[w].claim => v = w

\* What an owner believes of the row is true.
OwnerIsCurrent ==
  \A w \in Workers :
    Owns(w) =>
      LET c == job[w].claim
          s == row[c].status
      IN  IF pc[w] = "reload"
          THEN s = job[w].next /\ s # "PENDING" /\ s \notin Range(events[c])
          ELSE s \in {"PROCESSING", "FRAUD_CHECKING"} /\ job[w].next = Following(c, s)

\* If nobody wrote the row since it was read, the validator's answer stands.
ReadIsCurrent ==
  \A w \in Workers :
    pc[w] = "write" =>
      LET r == row[job[w].claim]
      IN  /\ job[w].seen <= r.version
          /\ job[w].seen = r.version => Validate(r.status, job[w].next)

\* Only statuses the claim has reached are announced.
Reached(s) ==
  {t \in Status : /\ s \notin {"PENDING", ABSENT}
                  /\ \/ t = s
                     \/ s # "PROCESSING" /\ t \in {"PROCESSING", "FRAUD_CHECKING"}}
AnnouncedIsReached == \A c \in Claims : Range(events[c]) \subseteq Reached(row[c].status)

\* Whatever is disrupted, and with however many copies of an id in the queue,
\* at most one worker is past the first update of a claim, nobody writes the
\* row meanwhile, and the updates it makes and announces are the next ones.
ExclusiveUpdate == OneOwner /\ OwnerIsCurrent /\ ReadIsCurrent /\ AnnouncedIsReached

\* Whatever is disrupted, and with however many copies of an id in the queue,
\* statuses follow the transition table and every status is announced at most
\* once, while it is current: the version check in updateMany sees to it.
Lifecycle == INSTANCE ClaimLifecycle
               WITH status <- [c \in Claims |-> row[c].status], announced <- events
LifecycleSpec == Lifecycle!Spec

\* claim_status_transitions_total ("Total successful claim status transitions")
\* and the events can miss an update that was committed, but only one for each
\* failure of the database or of the process, and they never count one twice.
Unannounced == UNION {{c} \X (Len(events[c]) + 1 .. row[c].version) : c \in Claims}
Announcing == {w \in Workers : pc[w] = "reload"}
UncountedBounded ==
  /\ \A c \in Claims : Len(events[c]) <= row[c].version
  /\ Cardinality(Unannounced)
       <= Cardinality(Announcing) + Suffered({"dbRefused", "dbUnanswered", "crash", "shutdown"})
=============================================================================
