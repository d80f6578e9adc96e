------------------------- MODULE ClaimServiceProofs -------------------------
(***************************************************************************)
(* Theorems about ClaimService, for any number of processes, requests and  *)
(* keys, and any number of disruptions of any kind.  The steps of a worker *)
(* and of a request are those of the components, and so are the lemmas     *)
(* about them: W and C are the proofs of FraudWorker and ClaimCreation at  *)
(* the variables of the service.                                           *)
(***************************************************************************)
EXTENDS ClaimService, CommonProofs, TLAPS

W == INSTANCE FraudWorkerProofs
C == INSTANCE ClaimCreationProofs WITH pc <- stage

-----------------------------------------------------------------------------
\* What the components assume of the constants.
LEMMA WorkerClaims == W!ClaimsAssumption
BY ClaimsAssumption DEF IsFiniteSet, W!IsFiniteSet
LEMMA WorkerDisruptions == W!DisruptionsAssumption
BY DisruptionsAssumption DEF W!AllKinds, AllKinds
LEMMA WorkerConstants == W!WorkerAssumption
BY ServiceAssumption DEF W!Decided, Decided
LEMMA CreationClaims == C!ClaimsAssumption
BY ClaimsAssumption DEF IsFiniteSet, C!IsFiniteSet
LEMMA CreationDisruptions == C!DisruptionsAssumption
BY DisruptionsAssumption DEF C!AllKinds, AllKinds
LEMMA CreationConstants == C!CreationAssumption
BY ServiceAssumption

LEMMA WorkerSteps ==
  ASSUME NEW w \in Workers, Worker!Step(w)
  PROVE  W!Step(w)
<1> USE DEF Worker!RedisWrite, W!RedisWrite, Worker!RedisRead, W!RedisRead, Worker!DbWrite,
            W!DbWrite, Worker!DbRead, W!DbRead, Worker!Executed, W!Executed, Worker!Throws,
            W!Throws, Worker!Resume, W!Resume, Worker!Suffer, W!Suffer, Worker!Suffered,
            W!Suffered, Worker!AllKinds, W!AllKinds, Worker!storeVars, W!storeVars,
            Worker!queueVars, W!queueVars, Worker!Exists, W!Exists, Worker!ABSENT, W!ABSENT,
            Worker!NoJob, W!NoJob, Worker!Goto, W!Goto, Worker!Die, W!Die, Worker!LoopTop,
            W!LoopTop, Worker!Take, W!Take, Worker!StartUpdate, W!StartUpdate, Worker!Catch,
            W!Catch, Worker!CanRetry, W!CanRetry, Worker!MaxRetries, W!MaxRetries,
            Worker!DropTail, W!DropTail, Worker!Validate, W!Validate, Worker!transitions,
            W!transitions, Worker!Matches, W!Matches, Worker!Following, W!Following,
            Worker!Announce, W!Announce, Worker!Decided, W!Decided, Worker!workerVars,
            W!workerVars
<1>1. Worker!RPop(w) => W!RPop(w)
  BY DEF Worker!RPop, W!RPop
<1>2. Worker!Get(w) => W!Get(w)
  BY DEF Worker!Get, W!Get
<1>3. Worker!Load(w) => W!Load(w)
  BY DEF Worker!Load, W!Load
<1>4. Worker!Read(w) => W!Read(w)
  BY DEF Worker!Read, W!Read
<1>5. Worker!Write(w) => W!Write(w)
  BY DEF Worker!Write, W!Write
<1>6. Worker!Reload(w) => W!Reload(w)
  BY DEF Worker!Reload, W!Reload
<1>7. Worker!Incr(w) => W!Incr(w)
  BY DEF Worker!Incr, W!Incr
<1>8. Worker!Check(w) => W!Check(w)
  BY DEF Worker!Check, W!Check
<1>9. Worker!Requeue(w) => W!Requeue(w)
  BY DEF Worker!Requeue, W!Requeue
<1>10. Worker!DeadLetter(w) => W!DeadLetter(w)
  BY DEF Worker!DeadLetter, W!DeadLetter
<1>11. Worker!HDel(w) => W!HDel(w)
  BY DEF Worker!HDel, W!HDel
<1>12. Worker!Clear(w) => W!Clear(w)
  BY DEF Worker!Clear, W!Clear
<1> QED BY <1>1, <1>2, <1>3, <1>4, <1>5, <1>6, <1>7, <1>8, <1>9, <1>10, <1>11, <1>12 DEF
           Worker!Step, W!Step

LEMMA WorkerEnvironment ==
  ASSUME NEW w \in Workers
  PROVE  /\ Worker!Shutdown(w) => W!Shutdown(w)
         /\ Worker!Exit(w) => W!Exit(w)
         /\ Worker!Crash(w) => W!Crash(w)
         /\ Worker!Restart(w) => W!Restart(w)
         /\ \A c \in Claims : Worker!ExpirePayload(c) => W!ExpirePayload(c)
BY DEF Worker!Shutdown, W!Shutdown, Worker!Exit, W!Exit, Worker!Crash, W!Crash,
       Worker!Restart, W!Restart, Worker!ExpirePayload, W!ExpirePayload, Worker!Suffer,
       W!Suffer, Worker!Suffered, W!Suffered, Worker!AllKinds, W!AllKinds, Worker!storeVars,
       W!storeVars, Worker!queueVars, W!queueVars, Worker!Die, W!Die, Worker!workerVars,
       W!workerVars, Worker!NoJob, W!NoJob

LEMMA CreationSteps ==
  ASSUME NEW r \in Claims, Creation!Step(r)
  PROVE  C!Step(r)
<1> USE DEF Creation!RedisWrite, C!RedisWrite, Creation!RedisRead, C!RedisRead,
            Creation!DbWrite, C!DbWrite, Creation!DbRead, C!DbRead, Creation!Executed,
            C!Executed, Creation!Throws, C!Throws, Creation!Resume, C!Resume,
            Creation!Suffer, C!Suffer, Creation!Suffered, C!Suffered, Creation!AllKinds,
            C!AllKinds, Creation!storeVars, C!storeVars, Creation!queueVars, C!queueVars,
            Creation!Exists, C!Exists, Creation!ABSENT, C!ABSENT, Creation!Goto, C!Goto,
            Creation!Identify, C!Identify, Creation!Reject, C!Reject, Creation!Complete,
            C!Complete, Creation!Acquired, C!Acquired, Creation!NoRecord, C!NoRecord,
            Creation!NoRow, C!NoRow, Creation!FreshRow, C!FreshRow, Creation!FailedCreate,
            C!FailedCreate, Creation!FailedAdd, C!FailedAdd, Creation!FailedFinalize,
            C!FailedFinalize
<1>1. Creation!Limit(r) => C!Limit(r)
  BY DEF Creation!Limit, C!Limit
<1>2. Creation!Lookup(r) => C!Lookup(r)
  BY DEF Creation!Lookup, C!Lookup
<1>3. Creation!Lock(r) => C!Lock(r)
  BY DEF Creation!Lock, C!Lock
<1>4. Creation!Expire(r) => C!Expire(r)
  BY DEF Creation!Expire, C!Expire
<1>5. Creation!Poll(r) => C!Poll(r)
  BY DEF Creation!Poll, C!Poll
<1>6. Creation!GiveUp(r) => C!GiveUp(r)
  BY DEF Creation!GiveUp, C!GiveUp
<1>7. Creation!Fetch(r) => C!Fetch(r)
  BY DEF Creation!Fetch, C!Fetch
<1>8. Creation!Size(r) => C!Size(r)
  BY DEF Creation!Size, C!Size
<1>9. Creation!Insert(r) => C!Insert(r)
  BY DEF Creation!Insert, C!Insert
<1>10. Creation!Pend(r) => C!Pend(r)
  BY DEF Creation!Pend, C!Pend
<1>11. Creation!Payload(r) => C!Payload(r)
  BY DEF Creation!Payload, C!Payload
<1>12. Creation!Push(r) => C!Push(r)
  BY DEF Creation!Push, C!Push
<1>13. Creation!Undo(r) => C!Undo(r)
  BY DEF Creation!Undo, C!Undo
<1>14. Creation!Finalize(r) => C!Finalize(r)
  BY DEF Creation!Finalize, C!Finalize
<1>15. Creation!Release(r) => C!Release(r)
  BY DEF Creation!Release, C!Release
<1> QED BY <1>1, <1>2, <1>3, <1>4, <1>5, <1>6, <1>7, <1>8, <1>9, <1>10, <1>11, <1>12, <1>13,
           <1>14, <1>15 DEF Creation!Step, C!Step

LEMMA CreationEnvironment ==
  /\ \A r \in Claims : Creation!Rejected(r) => C!Rejected(r)
  /\ \A k \in Keys : Creation!ExpireRecord(k) => C!ExpireRecord(k)
BY DEF Creation!Rejected, C!Rejected, Creation!ExpireRecord, C!ExpireRecord,
       Creation!InProgress, C!InProgress, Creation!Critical, C!Critical, Creation!NoRecord,
       C!NoRecord, Creation!Reject, C!Reject, Creation!Goto, C!Goto, Creation!Suffer,
       C!Suffer, Creation!Suffered, C!Suffered, Creation!AllKinds, C!AllKinds,
       Creation!storeVars, C!storeVars, Creation!queueVars, C!queueVars,
       Creation!FailedCreate, C!FailedCreate, Creation!FailedAdd, C!FailedAdd,
       Creation!FailedFinalize, C!FailedFinalize

\* So what is proved of the components holds at the variables of the service.
USE WorkerClaims, WorkerDisruptions, WorkerConstants,
    CreationClaims, CreationDisruptions, CreationConstants

\* The stores and the disruptions have one type under every name.
LEMMA SharedTypes ==
  /\ (W!StoreTypeOK <=> C!StoreTypeOK) /\ (W!StoreTypeOK' <=> C!StoreTypeOK')
  /\ (W!DisruptionsTypeOK <=> C!DisruptionsTypeOK)
  /\ (W!DisruptionsTypeOK' <=> C!DisruptionsTypeOK')
  /\ (DisruptionsTypeOK <=> C!DisruptionsTypeOK)
  /\ (DisruptionsTypeOK' <=> C!DisruptionsTypeOK')
BY DEF W!StoreTypeOK, C!StoreTypeOK, W!Row, C!Row, W!Status, C!Status, W!ABSENT, C!ABSENT,
       W!DisruptionsTypeOK, C!DisruptionsTypeOK, DisruptionsTypeOK, W!AllKinds, C!AllKinds, AllKinds

\* A step of the service is one of the workers, or of a request, or the end of
\* a key.
WorkerSide == W!WorkerNext /\ (UNCHANGED creationVars \/ \E w \in Workers : Abandon(w))
RequestSide(r) == (C!Step(r) \/ C!Rejected(r)) /\ UNCHANGED workerVars
RecordSide == (\E k \in Keys : C!ExpireRecord(k)) /\ UNCHANGED workerVars

LEMMA Interleaving ==
  ASSUME Next
  PROVE  \/ WorkerSide
         \/ \E r \in Claims : RequestSide(r)
         \/ RecordSide
<1>1. ASSUME NEW w \in Workers,
             WorkerStep(w) \/ ProcessEnds(w) \/ ProcessStarts(w) \/ ShutdownBegins(w)
      PROVE  WorkerSide
  BY <1>1, WorkerSteps, WorkerEnvironment
     DEF WorkerStep, ProcessEnds, ProcessStarts, ShutdownBegins, WorkerSide, W!WorkerNext
<1>2. ASSUME NEW r \in Claims, RequestStep(r) \/ RequestRejected(r)
      PROVE  RequestSide(r)
  BY <1>2, CreationSteps, CreationEnvironment DEF RequestStep, RequestRejected, RequestSide
<1>3. CASE KeyExpires
  <2>1. ASSUME NEW c \in Claims, W!ExpirePayload(c) PROVE W!WorkerNext
    BY <2>1 DEF W!WorkerNext
  <2>2. CASE \E c \in Claims : Worker!ExpirePayload(c) /\ UNCHANGED creationVars
    <3>1. ASSUME NEW c \in Claims, Worker!ExpirePayload(c) PROVE W!ExpirePayload(c)
      BY <3>1 DEF Worker!ExpirePayload, W!ExpirePayload, Worker!Suffer, W!Suffer,
                  Worker!Suffered, W!Suffered, Worker!AllKinds, W!AllKinds,
                  Worker!workerVars, W!workerVars
    <3> QED BY <2>1, <2>2, <3>1 DEF WorkerSide
  <2> QED BY <1>3, <2>2, CreationEnvironment DEF KeyExpires, RecordSide
<1> QED BY <1>1, <1>2, <1>3 DEF Next
-----------------------------------------------------------------------------
\* Types.
ServiceTypeOK == W!TypeOK /\ C!TypeOK

\* What is left of the requests when their process ends.
LEMMA AbandonFrame ==
  ASSUME C!RequestsOK, NEW w \in Workers, Abandon(w)
  PROVE  /\ C!RequestsOK' /\ UNCHANGED <<idem, claimId>>
         /\ \A r \in Claims : \/ stage'[r] = stage[r]
                              \/ stage'[r] = "failed" /\ stage[r] \notin C!Answered
<1>1. \A r \in Claims : \/ stage'[r] = stage[r]
                        \/ stage'[r] = "failed" /\ stage[r] \notin C!Answered
  BY DEF Abandon, Creation!Answered, C!Answered
<1>2. stage' \in [Claims -> C!PC]
  <2>1. \A r \in Claims : stage'[r] \in C!PC
    BY <1>1 DEF C!RequestsOK, C!PC, C!Answered
  <2>2. stage' = [r \in Claims |-> stage'[r]]
    BY DEF Abandon
  <2> QED BY <2>1, <2>2
<1>3. UNCHANGED <<idem, claimId>>
  BY DEF Abandon
<1> QED BY <1>1, <1>2, <1>3 DEF C!RequestsOK, C!Critical, C!Answered

LEMMA RejectedFrame ==
  ASSUME C!RequestsOK, NEW r \in Claims, C!Rejected(r)
  PROVE  /\ UNCHANGED <<row, queue, dlq, retry, payload, pending, idem, disruptions, claimId>>
         /\ stage[r] \notin {"limit", "fetch", "insert", "undo"} \cup C!Answered
         /\ stage[r] \in {"finalize", "release"} => stage'[r] \in {"release", "failed"}
         /\ \E p \in {"failed", "release", "undo"} :
              /\ stage' = [stage EXCEPT ![r] = p]
              /\ p # "failed" => stage[r] \in C!Critical \ {"expire"}
<1>1. PICK p \in {"failed", "release", "undo"} :
        /\ C!Reject(r, p)
        /\ stage[r] \notin {"limit", "fetch", "insert", "undo"} \cup C!Answered
        /\ stage[r] \in {"finalize", "release"} => p \in {"release", "failed"}
        /\ p # "failed" => stage[r] \in C!Critical \ {"expire"}
  BY DEF C!Rejected, C!FailedCreate, C!FailedAdd, C!FailedFinalize, C!Answered, C!Critical
<1> QED BY <1>1 DEF C!Reject, C!Goto, C!RequestsOK, C!storeVars, C!queueVars

LEMMA ServiceType == ServiceTypeOK /\ [Next]_vars => ServiceTypeOK'
<1> SUFFICES ASSUME ServiceTypeOK, [Next]_vars PROVE ServiceTypeOK'
  OBVIOUS
<1> USE SharedTypes, W!TypeParts, C!TypeParts
<1>1. CASE WorkerSide
  <2>1. W!TypeOK'
    BY <1>1, W!NextType
       DEF WorkerSide, ServiceTypeOK
  <2>2. C!RecordsOK' /\ C!RequestsOK'
    <3>1. CASE UNCHANGED creationVars
      BY <3>1 DEF creationVars, C!RecordsOK, C!RequestsOK, ServiceTypeOK
    <3>2. ASSUME NEW w \in Workers, Abandon(w) PROVE C!RecordsOK' /\ C!RequestsOK'
      BY <3>2, AbandonFrame DEF C!RecordsOK, ServiceTypeOK
    <3> QED BY <1>1, <3>1, <3>2 DEF WorkerSide
  <2> QED BY <2>1, <2>2 DEF ServiceTypeOK
<1>a. ASSUME C!TypeOK', UNCHANGED workerVars PROVE ServiceTypeOK'
  BY <1>a DEF workerVars, W!ControlOK, ServiceTypeOK
<1>2. ASSUME NEW r \in Claims, RequestSide(r) PROVE ServiceTypeOK'
  <2>1. C!TypeOK'
    <3>1. CASE C!Step(r)
      BY <3>1, C!StepType
         DEF ServiceTypeOK
    <3>2. CASE C!Rejected(r)
      <4>1. PICK p \in {"failed", "release", "undo"} :
              /\ stage' = [stage EXCEPT ![r] = p]
              /\ p # "failed" => stage[r] \in C!Critical \ {"expire"}
        BY <3>2, RejectedFrame DEF ServiceTypeOK
      <4>2. UNCHANGED <<row, queue, dlq, retry, payload, pending, idem, disruptions, claimId>>
        BY <3>2, RejectedFrame DEF ServiceTypeOK
      <4>3. C!RequestsOK'
        BY <4>1, <4>2 DEF C!RequestsOK, C!PC, C!Critical, C!Answered, ServiceTypeOK
      <4> QED BY <4>2, <4>3 DEF C!RecordsOK, C!StoreTypeOK, C!DisruptionsTypeOK, ServiceTypeOK
    <3> QED BY <1>2, <3>1, <3>2 DEF RequestSide
  <2> QED BY <1>2, <1>a, <2>1 DEF RequestSide
<1>3. CASE RecordSide
  <2>1. C!TypeOK'
    BY <1>3, C!NextType
         DEF ServiceTypeOK, RecordSide, C!CreationNext
  <2> QED BY <1>3, <1>a, <2>1 DEF RecordSide
<1>4. CASE UNCHANGED vars
  BY <1>4, <1>a, C!NextType
     DEF ServiceTypeOK, vars, creationVars, storeVars, queueVars, C!vars, C!creationVars,
         C!storeVars, C!queueVars
<1> QED BY <1>1, <1>2, <1>3, <1>4, Interleaving

LEMMA ServiceInit == Init => C!Init /\ W!WorkerInit /\ ServiceTypeOK
<1> SUFFICES ASSUME Init PROVE C!Init /\ W!WorkerInit /\ ServiceTypeOK
  OBVIOUS
<1>1. C!Init /\ W!WorkerInit
  BY DEF Init, Creation!Init, C!Init, Creation!CreationInit, C!CreationInit, Creation!NoRow,
         C!NoRow, Creation!ABSENT, C!ABSENT, Creation!NoRecord, C!NoRecord,
         Creation!NoDisruptions, C!NoDisruptions, Creation!AllKinds, C!AllKinds,
         Worker!WorkerInit, W!WorkerInit, Worker!NoJob, W!NoJob
<1>2. C!TypeOK
  BY <1>1, C!InitType
<1>3. W!TypeOK
  BY <1>1, <1>2, SharedTypes, C!TypeParts
     DEF W!TypeOK, W!WorkerInit, W!WorkerTypeOK, W!PC, W!NoJob, W!Job, W!Status
<1> QED BY <1>1, <1>2, <1>3 DEF ServiceTypeOK

\* Every variable of the components stays in its type.
LEMMA ServiceTypes == Spec => []ServiceTypeOK
<1>1. Init => ServiceTypeOK
  BY ServiceInit
<1> QED BY <1>1, ServiceType, PTL DEF Spec
-----------------------------------------------------------------------------
(***************************************************************************)
(* The lifecycle.  A request inserts and withdraws its own row only, and   *)
(* it inserts it before anybody can know of the claim.                     *)
(***************************************************************************)
Unseen == \A r \in Claims : stage[r] \in C!Early => ~W!Known(r)
LifecycleInv == W!UpdateInv /\ C!FreshInv /\ Unseen

\* Workers neither insert nor withdraw a row, and set no pending key.
LEMMA WorkerRows ==
  ASSUME ServiceTypeOK, W!WorkerNext
  PROVE  /\ \A c \in Claims : C!Exists(c)' <=> C!Exists(c)
         /\ pending' \subseteq pending
<1>1. ASSUME NEW w \in Workers, W!Step(w)
      PROVE  /\ \A c \in Claims : W!Exists(c)' <=> W!Exists(c)
             /\ pending' \subseteq pending
  <2>1. pending' \subseteq pending
    BY <1>1 DEF W!Step, W!RPop, W!Get, W!Load, W!Read, W!Write, W!Reload, W!Incr, W!Check,
                W!Requeue, W!DeadLetter, W!HDel, W!Clear, W!storeVars, W!queueVars
  <2> QED BY <1>1, <2>1, W!RowsRemain DEF ServiceTypeOK
<1>2. CASE ~\E w \in Workers : W!Step(w)
  BY <1>2 DEF W!WorkerNext, W!Shutdown, W!Exit, W!Crash, W!Restart, W!ExpirePayload,
              W!storeVars, W!queueVars, C!Exists
<1> QED BY <1>1, <1>2 DEF W!Exists, C!Exists, W!ABSENT, C!ABSENT

\* A request is unseen until it pushes its id.
LEMMA UnseenStep ==
  ASSUME ServiceTypeOK, C!FreshInv, Unseen, [Next]_vars
  PROVE  C!FreshInv' /\ Unseen'
<1>1. CASE WorkerSide
  <2>1. \A r \in Claims : stage'[r] \in C!Early => stage[r] \in C!Early
    BY <1>1, AbandonFrame, C!TypeParts DEF WorkerSide, ServiceTypeOK, C!Early, creationVars
  <2>2. \A c \in Claims : W!Known(c)' => W!Known(c)
    BY <1>1, W!KnownBefore DEF WorkerSide, ServiceTypeOK
  <2>3. Unseen'
    BY <2>1, <2>2 DEF Unseen
  <2>4. C!FreshInv'
    BY <1>1, <2>1, WorkerRows DEF WorkerSide, C!FreshInv
  <2> QED BY <2>3, <2>4
<1>2. CASE UNCHANGED <<stage, row, pending, queue, events, job>>
  BY <1>2 DEF Unseen, C!FreshInv, C!Exists, W!Known
<1>3. ASSUME NEW r \in Claims, RequestSide(r) PROVE C!FreshInv' /\ Unseen'
  <2>1. CASE C!Rejected(r)
    <3>1. UNCHANGED <<row, pending, queue, events, job>>
      BY <1>3, <2>1, RejectedFrame, C!TypeParts DEF RequestSide, workerVars, ServiceTypeOK
    <3>2. \A d \in Claims : stage'[d] \in C!Early => stage[d] \in C!Early
      BY <2>1, RejectedFrame, C!TypeParts DEF C!Early, C!RequestsOK, ServiceTypeOK
    <3> QED BY <3>1, <3>2 DEF Unseen, C!FreshInv, C!Exists, W!Known
  <2>2. CASE C!Step(r)
    <3>1. C!FreshInv'
      BY <2>2, C!FreshStep DEF ServiceTypeOK
    <3>2. ASSUME NEW d \in Claims, stage'[d] \in C!Early PROVE ~W!Known(d)'
      <4>1. stage[d] \in C!Early
        BY <2>2, <3>2, C!RequestFrame, C!RequestWrites DEF ServiceTypeOK
      <4>2. d \in W!Range(queue') => d \in W!Range(queue)
        <5>1. queue \in Seq(Claims)
          BY DEF ServiceTypeOK, C!TypeOK, C!StoreTypeOK
        <5>2. UNCHANGED queue \/ (d # r /\ queue' = Append(queue, r))
          BY <2>2, <3>2, C!RequestWrites DEF ServiceTypeOK, C!Early
        <5>3. W!Range(Append(queue, r)) = W!Range(queue) \cup {r}
          BY <5>1, W!AppendRange
        <5>4. CASE UNCHANGED queue
          BY <5>4
        <5>5. CASE d # r /\ queue' = Append(queue, r)
          <6>1. W!Range(queue') = W!Range(Append(queue, r))
            BY <5>5
          <6> QED BY <5>3, <5>5, <6>1
        <5> QED BY <5>2, <5>4, <5>5
      <4> QED BY <1>3, <4>1, <4>2 DEF Unseen, W!Known, RequestSide, workerVars
    <3> QED BY <3>1, <3>2 DEF Unseen
  <2> QED BY <1>3, <2>1, <2>2 DEF RequestSide
<1>4. CASE RecordSide
  BY <1>2, <1>4 DEF RecordSide, C!ExpireRecord, C!storeVars, C!queueVars, workerVars
<1>5. CASE UNCHANGED vars
  BY <1>2, <1>5 DEF vars, storeVars, queueVars, workerVars, creationVars
<1> QED BY <1>1, <1>3, <1>4, <1>5, Interleaving

\* A row that is withdrawn, or inserted unseen, disturbs no update.
LEMMA RowDisturbsNoUpdate ==
  ASSUME ServiceTypeOK, W!UpdateInv, UNCHANGED workerVars, NEW r \in Claims, NEW new,
         row' = [row EXCEPT ![r] = new],
         new.status = C!ABSENT \/ ~W!Known(r)
  PROVE  W!UpdateInv'
<1>1. UNCHANGED <<pc, job, events>>
  BY DEF workerVars
<1>2. \A c \in Claims : row'[c] = IF c = r THEN new ELSE row[c]
  BY DEF ServiceTypeOK, C!TypeOK, C!StoreTypeOK
<1>3. \A w \in Workers : pc[w] \in {"read", "write", "reload"} => job[w].claim \in Claims
  BY W!TypeParts, W!MidwayClaim DEF W!Midway, W!PC, ServiceTypeOK
<1>4. W!OneOwner'
  BY <1>1 DEF W!UpdateInv, W!OneOwner, W!Owns
<1>5. W!OwnersAgree'
  BY <1>1, <1>2, <1>3 DEF W!UpdateInv, W!OwnersAgree, W!Owns, W!Exists, W!Known, C!ABSENT, W!ABSENT
<1>6. W!ReadsAgree'
  BY <1>1, <1>2, <1>3 DEF W!UpdateInv, W!ReadsAgree, W!Exists, W!Known, C!ABSENT, W!ABSENT
<1>7. W!EventsAgree'
  <2>1. events[r] = <<>> => W!Range(events[r]) = {}
    BY DEF W!Range
  <2> QED BY <1>1, <1>2, <2>1
          DEF W!UpdateInv, W!EventsAgree, W!Exists, W!Known, C!ABSENT, W!ABSENT
<1> QED BY <1>4, <1>5, <1>6, <1>7 DEF W!UpdateInv

LEMMA UpdateStep ==
  ASSUME ServiceTypeOK, LifecycleInv, [Next]_vars
  PROVE  W!UpdateInv'
<1>1. CASE WorkerSide
  BY <1>1, W!NextUpdate DEF WorkerSide, ServiceTypeOK, LifecycleInv
<1>2. CASE UNCHANGED <<pc, job, row, events>>
  BY <1>2 DEF LifecycleInv, W!UpdateInv, W!OneOwner, W!OwnersAgree, W!ReadsAgree, W!EventsAgree,
              W!Owns, W!Exists
<1>3. ASSUME NEW r \in Claims, RequestSide(r) PROVE W!UpdateInv'
  <2>1. CASE C!Rejected(r)
    BY <1>2, <1>3, <2>1, RejectedFrame, C!TypeParts DEF RequestSide, workerVars, ServiceTypeOK
  <2>2. CASE C!Step(r)
    <3>1. \/ UNCHANGED row
          \/ row' = [row EXCEPT ![r] = C!NoRow]
          \/ row' = [row EXCEPT ![r] = C!FreshRow] /\ stage[r] = "insert"
      BY <2>2, C!RequestWrites DEF ServiceTypeOK
    <3>2. UNCHANGED workerVars
      BY <1>3 DEF RequestSide
    <3>3. stage[r] = "insert" => ~W!Known(r)
      BY DEF LifecycleInv, Unseen, C!Early
    <3>4. C!NoRow.status = C!ABSENT
      BY DEF C!NoRow
    <3> QED BY <1>2, <3>1, <3>2, <3>3, <3>4, RowDisturbsNoUpdate DEF workerVars, LifecycleInv
  <2> QED BY <1>3, <2>1, <2>2 DEF RequestSide
<1>4. CASE RecordSide
  BY <1>2, <1>4 DEF RecordSide, C!ExpireRecord, C!storeVars, workerVars
<1>5. CASE UNCHANGED vars
  BY <1>2, <1>5 DEF vars, storeVars, workerVars
<1> QED BY <1>1, <1>3, <1>4, <1>5, Interleaving

\* The status of a claim changes with its row.
LEMMA ServiceStutter ==
  ASSUME UNCHANGED <<row, events>>
  PROVE  UNCHANGED Lifecycle!vars
BY DEF Lifecycle!vars

\* What a request does to its row is the creation of the claim or its end.
LEMMA RequestLifecycle ==
  ASSUME ServiceTypeOK, LifecycleInv, NEW r \in Claims, RequestSide(r)
  PROVE  [Lifecycle!Next]_Lifecycle!vars
<1>1. UNCHANGED events
  BY DEF RequestSide, workerVars
<1>2. CASE UNCHANGED row
  BY <1>1, <1>2, ServiceStutter
<1> DEFINE st == [c \in Claims |-> row[c].status]
<1>3. row \in [Claims -> C!Row]
  BY DEF ServiceTypeOK, C!TypeOK, C!StoreTypeOK
<1>4. ASSUME NEW new, row' = [row EXCEPT ![r] = new]
      PROVE  st' = [st EXCEPT ![r] = new.status]
  BY <1>3, <1>4
<1>a. st[r] = row[r].status /\ (st' = st => UNCHANGED Lifecycle!vars)
  BY <1>1 DEF Lifecycle!vars
<1>b. C!FreshRow.status = "PENDING" /\ C!NoRow.status = Lifecycle!ABSENT
  BY DEF C!FreshRow, C!NoRow, C!ABSENT, Lifecycle!ABSENT
<1> HIDE DEF st
<1>5. CASE stage[r] = "insert" /\ row' = [row EXCEPT ![r] = C!FreshRow]
  <2>1. st[r] = Lifecycle!ABSENT
    BY <1>5, <1>a
       DEF LifecycleInv, C!FreshInv, C!Early, C!Exists, C!ABSENT, Lifecycle!ABSENT
  <2>2. events[r] = <<>>
    BY <1>5 DEF LifecycleInv, Unseen, C!Early, W!Known
  <2>3. st' = [st EXCEPT ![r] = "PENDING"]
    BY <1>4, <1>5, <1>b
  <2>4. Lifecycle!Create(r)
    BY <1>1, <2>1, <2>2, <2>3 DEF Lifecycle!Create, st
  <2> QED BY <2>4 DEF Lifecycle!Next
<1>6. CASE row' = [row EXCEPT ![r] = C!NoRow]
  <2>1. st' = [st EXCEPT ![r] = Lifecycle!ABSENT]
    BY <1>4, <1>6, <1>b
  <2>2. CASE st[r] = Lifecycle!ABSENT
    <3>1. st' = st
      BY <2>1, <2>2 DEF st
    <3> QED BY <1>a, <3>1
  <2>3. CASE st[r] # Lifecycle!ABSENT
    BY <1>1, <2>1, <2>3 DEF Lifecycle!Withdraw, Lifecycle!Next, st
  <2> QED BY <2>2, <2>3
<1>7. CASE C!Rejected(r)
  BY <1>2, <1>7, RejectedFrame, C!TypeParts DEF ServiceTypeOK
<1> QED BY <1>2, <1>5, <1>6, <1>7, C!RequestWrites DEF RequestSide, ServiceTypeOK

\* A worker's step on the lifecycle is one of the same lifecycle.
LEMMA WorkerLifecycle ==
  ASSUME [W!Lifecycle!Next]_W!Lifecycle!vars
  PROVE  [Lifecycle!Next]_Lifecycle!vars
BY DEF W!Lifecycle!vars, Lifecycle!vars, W!Lifecycle!Next, Lifecycle!Next,
       W!Lifecycle!Create, Lifecycle!Create, W!Lifecycle!Advance, Lifecycle!Advance,
       W!Lifecycle!Withdraw, Lifecycle!Withdraw, W!Lifecycle!Announce, Lifecycle!Announce,
       W!Lifecycle!Status, Lifecycle!Status, W!Lifecycle!ABSENT, Lifecycle!ABSENT,
       W!Lifecycle!Validate, Lifecycle!Validate, W!Lifecycle!transitions, Lifecycle!transitions

LEMMA LifecycleInitially ==
  ASSUME Init
  PROVE  LifecycleInv /\ Lifecycle!Init
<1>1. C!Init /\ W!WorkerInit /\ ServiceTypeOK
  BY ServiceInit
<1>2. C!FreshInv
  BY <1>1, C!QueuedInit
<1>3. /\ \A c \in Claims : row[c].status = C!ABSENT /\ events[c] = <<>>
      /\ events = [c \in Claims |-> <<>>]
      /\ queue = <<>>
      /\ \A w \in Workers : pc[w] = "rpop"
  BY <1>1 DEF C!Init, C!NoRow, W!WorkerInit
<1>4. Unseen
  BY <1>1, <1>3 DEF Unseen, W!Known, W!WorkerInit, W!NoJob, W!Range
<1>5. W!UpdateInv
  BY <1>3 DEF W!UpdateInv, W!OneOwner, W!OwnersAgree, W!ReadsAgree, W!EventsAgree, W!Owns,
              W!Range
<1>6. Lifecycle!Init
  BY <1>3 DEF Lifecycle!Init, Lifecycle!ABSENT, C!ABSENT
<1> QED BY <1>2, <1>4, <1>5, <1>6 DEF LifecycleInv

LEMMA LifecycleStep ==
  ServiceTypeOK /\ LifecycleInv /\ [Next]_vars => [Lifecycle!Next]_Lifecycle!vars
<1> SUFFICES ASSUME ServiceTypeOK, LifecycleInv, [Next]_vars
             PROVE  [Lifecycle!Next]_Lifecycle!vars
  OBVIOUS
<1>1. CASE WorkerSide
  <2>1. [W!Lifecycle!Next]_W!Lifecycle!vars
    BY <1>1, W!LifecycleStep DEF WorkerSide, ServiceTypeOK, LifecycleInv
  <2> QED BY <2>1, WorkerLifecycle
<1>2. ASSUME NEW r \in Claims, RequestSide(r) PROVE [Lifecycle!Next]_Lifecycle!vars
  BY <1>2, RequestLifecycle
<1>3. CASE RecordSide
  BY <1>3, ServiceStutter DEF RecordSide, C!ExpireRecord, C!storeVars, workerVars
<1>4. CASE UNCHANGED vars
  BY <1>4, ServiceStutter DEF vars, storeVars, workerVars
<1> QED BY <1>1, <1>2, <1>3, <1>4, Interleaving

\* Whatever is disrupted, wherever a claim is created, taken back or processed:
\* its status follows the transition table, each status is announced once at
\* most, and while it is current.  All processes together implement
\* ClaimLifecycle.
THEOREM ServiceImplementsLifecycle == Spec => LifecycleSpec
<1>1. Init => LifecycleInv /\ Lifecycle!Init
  BY LifecycleInitially
<1>2. ServiceTypeOK /\ LifecycleInv /\ [Next]_vars => LifecycleInv'
  BY UnseenStep, UpdateStep DEF LifecycleInv
<1>3. ServiceTypeOK /\ LifecycleInv /\ [Next]_vars => [Lifecycle!Next]_Lifecycle!vars
  BY LifecycleStep
<1> QED BY <1>1, <1>2, <1>3, ServiceTypes, PTL DEF Spec, LifecycleSpec, Lifecycle!Spec
-----------------------------------------------------------------------------
(***************************************************************************)
(* Replays.  Workers insert and withdraw no row, and the requests they     *)
(* take down with them are settled where they end.                         *)
(***************************************************************************)
LEMMA SettledStep ==
  ASSUME ServiceTypeOK, C!SettledInv, [Next]_vars
  PROVE  C!SettledInv'
<1>1. CASE WorkerSide
  <2>1. \A c \in Claims : C!Exists(c)' <=> C!Exists(c)
    BY <1>1, WorkerRows DEF WorkerSide
  <2>2. /\ UNCHANGED <<idem, claimId>>
        /\ \A r \in Claims : \/ stage'[r] = stage[r]
                             \/ stage'[r] = "failed" /\ stage[r] \notin C!Answered
    BY <1>1, AbandonFrame, C!TypeParts DEF WorkerSide, creationVars, ServiceTypeOK
  <2>3. C!RecordsOK /\ C!RequestsOK
    BY C!TypeParts DEF ServiceTypeOK
  <2>4. ASSUME NEW c, C!Settled(c) PROVE C!Settled(c)'
    BY <2>1, <2>2, <2>4 DEF C!Settled, C!Past
  <2>5. C!RecordsSettled'
    BY <2>2, <2>4 DEF C!SettledInv, C!RecordsSettled, C!Complete
  <2>6. C!ReadersSettled'
    BY <2>2, <2>4 DEF C!SettledInv, C!ReadersSettled
  <2>7. C!RowInPlace'
    BY <2>1, <2>2 DEF C!SettledInv, C!RowInPlace
  <2> QED BY <2>5, <2>6, <2>7 DEF C!SettledInv
<1>2. ASSUME NEW r \in Claims, RequestSide(r) PROVE C!SettledInv'
  <2>1. CASE C!Step(r)
    BY <2>1, C!SettledStep DEF ServiceTypeOK
  <2>2. CASE C!Rejected(r)
    <3>1. C!RequestsOK
      BY C!TypeParts DEF ServiceTypeOK
    <3>2. PICK p \in {"failed", "release", "undo"} : stage' = [stage EXCEPT ![r] = p]
      BY <2>2, <3>1, RejectedFrame
    <3>3. /\ UNCHANGED <<row, idem, claimId>>
          /\ stage[r] \notin C!Answered
          /\ stage[r] \in {"finalize", "release"} => stage'[r] \in {"release", "failed"}
      BY <2>2, <3>1, RejectedFrame
    <3>4. stage'[r] = p
      BY <3>1, <3>2 DEF C!RequestsOK
    <3>5. stage[r] \in C!Past => p \in C!Past
      BY <3>3, <3>4 DEF C!Past, C!Answered
    <3>6. p \in C!PC \ {"fetch"}
      BY DEF C!PC, C!Critical, C!Answered
    <3>7. \A k \in Keys : C!Complete(k)' => C!Complete(k) /\ idem'[k].claim = idem[k].claim
      BY <3>3 DEF C!Complete
    <3> QED BY <3>2, <3>3, <3>5, <3>6, <3>7, C!QuietStep DEF ServiceTypeOK
  <2> QED BY <1>2, <2>1, <2>2 DEF RequestSide
<1>3. CASE RecordSide
  BY <1>3, C!SettledNext DEF RecordSide, C!CreationNext, ServiceTypeOK
<1>4. CASE UNCHANGED vars
  BY <1>4, C!SettledNext
     DEF vars, creationVars, storeVars, queueVars, C!vars, C!creationVars, C!storeVars,
         C!queueVars, ServiceTypeOK
<1> QED BY <1>1, <1>2, <1>3, <1>4, Interleaving

\* Workers may process a claim, and finish it, before its request is answered,
\* and take any of the requests down with them: the claim that a complete
\* record names, or that a replay has read there, has its row all the same.
THEOREM ReplaysFindTheirClaim == Spec => []ReplayFindsClaim
<1>1. Init => C!SettledInv
  BY ServiceInit, C!SettledInit
<1>2. ServiceTypeOK /\ C!SettledInv /\ [Next]_vars => C!SettledInv'
  BY SettledStep
<1>3. C!SettledInv => ReplayFindsClaim
  BY DEF C!SettledInv, C!RecordsSettled, C!ReadersSettled, C!Settled, C!Exists, C!ABSENT,
         C!Complete, ReplayFindsClaim, Creation!CompleteNeverDangles, Creation!Complete,
         Creation!Exists, Creation!ABSENT
<1> QED BY <1>1, <1>2, <1>3, ServiceTypes, PTL DEF Spec
-----------------------------------------------------------------------------
(***************************************************************************)
(* Losses.  A claim is promised once its request goes on to finalize.      *)
(***************************************************************************)
LossKinds == AllKinds \ {"dbRefused", "dbUnanswered", "stall"}

\* Claims that a promise is broken for, or may be without a further disruption:
\* a promised claim that is lost, or that the worker that takes it will drop for
\* want of a payload; one that will be promised although its payload is gone,
\* or although its pending key keeps add from pushing it.
Gone ==
  {c \in Claims : \/ C!Promised(c) /\ c \in W!Forgotten
                  \/ stage[c] = "push" /\ c \notin payload
                  \/ stage[c] = "pend" /\ c \in pending}

\* As in FraudWorkerProofs, a worker that is shutting down has been counted.
PromiseInv ==
  /\ \A c \in Claims : C!Promised(c) => stage[c] \in C!Past
  /\ IsFiniteSet(W!Stopping)
  /\ Cardinality(Gone) + Cardinality(W!Stopping) <= Suffered(LossKinds)

\* Disruptions are the same for the components.
LEMMA SharedDisruptions ==
  ASSUME NEW o
  PROVE  /\ (W!Suffer(o) <=> Suffer(o)) /\ (C!Suffer(o) <=> Suffer(o))
         /\ W!LossKinds = LossKinds
BY DEF W!Suffer, C!Suffer, Suffer, W!Suffered, C!Suffered, Suffered, W!AllKinds, C!AllKinds,
       AllKinds, W!LossKinds, LossKinds

\* What a step may do to Gone and to the workers that are stopping.
LEMMA GoneCounted ==
  ASSUME ServiceTypeOK, PromiseInv, NEW w, NEW c, NEW o, Suffer(o),
         \/ Gone' \subseteq Gone /\ W!Stopping' \subseteq W!Stopping
         \/ /\ o \in LossKinds
            /\ Gone' \subseteq Gone \cup {c} /\ W!Stopping' \subseteq W!Stopping
         \/ /\ o \in LossKinds
            /\ Gone' \subseteq Gone /\ W!Stopping' \subseteq W!Stopping \cup {w}
         \/ /\ w \in W!Stopping /\ W!Stopping' \subseteq W!Stopping \ {w}
            /\ Gone' \subseteq Gone \cup {c},
         \A d \in Claims : C!Promised(d)' => stage'[d] \in C!Past
  PROVE  PromiseInv'
<1> DEFINE F == Gone
           S == W!Stopping
           G == Gone'
           T == W!Stopping'
           k == Suffered(LossKinds)
<1>1. PICK n \in Nat : n = (IF o \in LossKinds THEN 1 ELSE 0)
  OBVIOUS
<1>2. DisruptionsTypeOK /\ LossKinds \in SUBSET AllKinds
  BY SharedTypes, C!TypeParts DEF ServiceTypeOK, LossKinds
<1>3. k \in Nat /\ Suffered(LossKinds)' = k + n
  BY <1>1, <1>2, SufferedIsNat, SufferCounts
<1>4. IsFiniteSet(F) /\ IsFiniteSet(S) /\ Cardinality(F) + Cardinality(S) <= k
  BY ClaimsAssumption, FS_Subset DEF Gone, PromiseInv
<1>5. \/ G \subseteq F /\ T \subseteq S
      \/ n = 1 /\ G \subseteq F \cup {c} /\ T \subseteq S
      \/ n = 1 /\ G \subseteq F /\ T \subseteq S \cup {w}
      \/ w \in S /\ T \subseteq S \ {w} /\ G \subseteq F \cup {c}
  BY <1>1
<1> HIDE DEF F, S, G, T, k
<1>6. IsFiniteSet(T) /\ Cardinality(G) + Cardinality(T) <= k + n
  BY <1>3, <1>4, <1>5, AccountKept
<1> QED BY <1>3, <1>6 DEF PromiseInv, F, S, G, T, k

\* A step that promises nothing new, and brings nobody to the push or to the
\* pending key, breaks no promise but by what is forgotten.
LEMMA GoneStep ==
  ASSUME ServiceTypeOK, PromiseInv, NEW C0,
         \A c \in Claims : C!Promised(c)' => C!Promised(c),
         \A c \in Claims : C!Promised(c) /\ c \in W!Forgotten' => c \in W!Forgotten \cup C0,
         \A c \in Claims : stage'[c] = "push" => stage[c] = "push",
         \A c \in Claims : stage'[c] = "pend" => stage[c] = "pend",
         \A c \in Claims : stage[c] \in C!Past => stage'[c] \in C!Past,
         payload \subseteq payload' \cup C0, pending' \subseteq pending
  PROVE  /\ Gone' \subseteq Gone \cup C0
         /\ \A c \in Claims : C!Promised(c)' => stage'[c] \in C!Past
BY DEF Gone, PromiseInv

\* What the requests lose when a worker takes a step.
LEMMA WorkerPromises ==
  ASSUME ServiceTypeOK, WorkerSide
  PROVE  /\ \A c \in Claims : C!Promised(c)' => C!Promised(c)
         /\ \A c \in Claims : stage'[c] = "push" => stage[c] = "push"
         /\ \A c \in Claims : stage'[c] = "pend" => stage[c] = "pend"
         /\ \A c \in Claims : stage[c] \in C!Past => stage'[c] \in C!Past
         /\ pending' \subseteq pending
<1>1. /\ UNCHANGED <<idem, claimId>>
      /\ \A r \in Claims : \/ stage'[r] = stage[r]
                           \/ stage'[r] = "failed" /\ stage[r] \notin C!Answered
  BY AbandonFrame, C!TypeParts DEF WorkerSide, creationVars, ServiceTypeOK
<1>2. pending' \subseteq pending
  BY WorkerRows DEF WorkerSide
<1> QED BY <1>1, <1>2 DEF C!Promised, C!Complete, C!Past

LEMMA WorkerSideLoss ==
  ASSUME ServiceTypeOK, W!UpdateInv, PromiseInv, WorkerSide
  PROVE  PromiseInv'
<1>1. ASSUME NEW w \in Workers,
             W!Step(w) \/ W!Shutdown(w) \/ W!Exit(w) \/ W!Crash(w) \/ W!Restart(w)
      PROVE  PromiseInv'
  <2>1. W!Accountable(w) /\ UNCHANGED payload
    BY <1>1, W!ProcessLoss DEF ServiceTypeOK
  <2>2. PICK c, o : W!Accounted(w, c, o)
    BY <2>1 DEF W!Accountable
  <2>3. Suffer(o)
    BY <2>2, SharedDisruptions DEF W!Accounted
  <2>4. ASSUME NEW C0, W!Forgotten' \subseteq W!Forgotten \cup C0
        PROVE  /\ Gone' \subseteq Gone \cup C0
               /\ \A d \in Claims : C!Promised(d)' => stage'[d] \in C!Past
    BY <2>1, <2>4, WorkerPromises, GoneStep
  <2>5. W!Forgotten' \subseteq W!Forgotten => Gone' \subseteq Gone
    BY <2>4
  <2>6. W!Forgotten' \subseteq W!Forgotten \cup {c} => Gone' \subseteq Gone \cup {c}
    BY <2>4
  <2>7. \A d \in Claims : C!Promised(d)' => stage'[d] \in C!Past
    BY WorkerPromises DEF PromiseInv
  <2>8. W!LossKinds = LossKinds
    BY SharedDisruptions
  <2> QED BY <2>2, <2>3, <2>5, <2>6, <2>7, <2>8, GoneCounted DEF W!Accounted
<1>2. ASSUME NEW c \in Claims, W!ExpirePayload(c) PROVE PromiseInv'
  <2>1. /\ W!Forgotten' \subseteq W!Forgotten \cup {c} /\ payload \subseteq payload' \cup {c}
        /\ W!Stopping' \subseteq W!Stopping
    BY <1>2 DEF W!ExpirePayload, W!Forgotten, W!Lost, W!Holders, W!Holding, W!Decidable,
                W!Stopping, W!workerVars
  <2>2. Suffer("expired") /\ "expired" \in LossKinds
    BY <1>2, SharedDisruptions DEF W!ExpirePayload, LossKinds, AllKinds
  <2>3. Gone' \subseteq Gone \cup {c}
        /\ \A d \in Claims : C!Promised(d)' => stage'[d] \in C!Past
    BY <2>1, WorkerPromises, GoneStep
  <2> QED BY <2>1, <2>2, <2>3, GoneCounted
<1> QED BY <1>1, <1>2 DEF WorkerSide, W!WorkerNext

\* A request only adds to the lists, and makes no row undecided but the one it
\* inserts.
LEMMA RequestForgets ==
  ASSUME ServiceTypeOK, NEW r \in Claims, C!Step(r), UNCHANGED workerVars,
         payload \subseteq payload'
  PROVE  \A c \in Claims : c \in W!Forgotten' =>
           c \in W!Forgotten \/ (c = r /\ stage[r] = "insert")
<1>1. queue \in Seq(Claims) /\ row \in [Claims -> C!Row]
  BY DEF ServiceTypeOK, C!TypeOK, C!StoreTypeOK
<1>2. \A c : c \in W!Range(queue) => c \in W!Range(queue')
  <2>1. W!Range(Append(queue, r)) = W!Range(queue) \cup {r}
    BY <1>1, W!AppendRange
  <2>2. queue' = queue \/ queue' = Append(queue, r)
    BY C!RequestWrites DEF ServiceTypeOK
  <2>3. CASE queue' = queue
    BY <2>3
  <2>4. CASE queue' = Append(queue, r)
    <3>1. W!Range(queue') = W!Range(Append(queue, r))
      BY <2>4
    <3> QED BY <2>1, <3>1
  <2> QED BY <2>2, <2>3, <2>4
<1>3. UNCHANGED dlq
  BY C!RequestWrites DEF ServiceTypeOK
<1>4. \A c \in Claims : W!Decidable(c)' => W!Decidable(c) \/ (c = r /\ stage[r] = "insert")
  <2>1. \/ UNCHANGED row
        \/ stage[r] = "insert" /\ row' = [row EXCEPT ![r] = C!FreshRow]
        \/ row' = [row EXCEPT ![r] = C!NoRow]
    BY C!RequestWrites DEF ServiceTypeOK
  <2>2. C!NoRow.status = W!ABSENT
    BY DEF C!NoRow, C!ABSENT, W!ABSENT
  <2>3. ASSUME NEW new, row' = [row EXCEPT ![r] = new]
        PROVE  \A c \in Claims : row'[c] = IF c = r THEN new ELSE row[c]
    BY <1>1, <2>3
  <2>4. CASE UNCHANGED row
    BY <2>4 DEF W!Decidable
  <2>5. CASE stage[r] = "insert" /\ row' = [row EXCEPT ![r] = C!FreshRow]
    BY <2>3, <2>5 DEF W!Decidable
  <2>6. CASE row' = [row EXCEPT ![r] = C!NoRow]
    BY <2>2, <2>3, <2>6 DEF W!Decidable
  <2> QED BY <2>1, <2>4, <2>5, <2>6
<1>5. \A c : W!Holders(c)' = W!Holders(c)
  BY DEF workerVars, W!Holders, W!Holding
<1> QED BY <1>2, <1>3, <1>4, <1>5 DEF W!Forgotten, W!Lost

LEMMA RequestSideLoss ==
  ASSUME ServiceTypeOK, C!FreshInv, PromiseInv, NEW r \in Claims, RequestSide(r)
  PROVE  PromiseInv'
<1>1. W!Stopping' = W!Stopping
  BY DEF RequestSide, workerVars, W!Stopping
<1>2. CASE C!Rejected(r)
  <2>1. C!RequestsOK
    BY C!TypeParts DEF ServiceTypeOK
  <2>2. UNCHANGED <<row, queue, dlq, retry, payload, pending, idem, disruptions, claimId>>
    BY <1>2, <2>1, RejectedFrame
  <2>3. PICK p \in {"failed", "release", "undo"} : stage' = [stage EXCEPT ![r] = p]
    BY <1>2, <2>1, RejectedFrame
  <2>4. /\ stage[r] \notin C!Answered
        /\ stage[r] \in {"finalize", "release"} => stage'[r] \in {"release", "failed"}
    BY <1>2, <2>1, RejectedFrame
  <2>5. \A c \in Claims : stage'[c] = IF c = r THEN p ELSE stage[c]
    BY <2>1, <2>3 DEF C!RequestsOK
  <2>6. \A c \in Claims : C!Promised(c)' => C!Promised(c)
    BY <2>2, <2>5 DEF C!Promised, C!Complete
  <2>7. W!Forgotten' = W!Forgotten
    BY <2>2 DEF RequestSide, workerVars, W!Forgotten, W!Lost, W!Holders, W!Holding, W!Decidable
  <2>8. \A c \in Claims : stage[c] \in C!Past => stage'[c] \in C!Past
    BY <2>4, <2>5 DEF C!Past, C!Answered
  <2>9. /\ \A c \in Claims : stage'[c] = "push" => stage[c] = "push"
        /\ \A c \in Claims : stage'[c] = "pend" => stage[c] = "pend"
    BY <2>5
  <2>10. Gone' \subseteq Gone \cup {}
         /\ \A c \in Claims : C!Promised(c)' => stage'[c] \in C!Past
    BY <2>2, <2>6, <2>7, <2>8, <2>9, GoneStep
  <2>11. Suffer("ok")
    BY <2>2 DEF Suffer
  <2> QED BY <1>1, <2>10, <2>11, GoneCounted
<1>3. CASE C!Step(r)
  <2>1. /\ \A d \in Claims : d # r => stage'[d] = stage[d] /\ (d \in pending' <=> d \in pending)
        /\ stage \in [Claims -> C!PC]
    BY <1>3, C!RequestFrame, C!TypeParts DEF ServiceTypeOK, C!RequestsOK
  <2>2. /\ \A c \in Claims : C!Promised(c)' => C!Promised(c) \/ (c = r /\ stage'[r] = "finalize")
        /\ stage'[r] = "finalize" => \/ stage[r] = "finalize"
                                     \/ stage[r] = "pend" /\ r \in pending
                                     \/ stage[r] = "push" /\ r \in W!Range(queue')
        /\ stage'[r] = "push" => r \in payload' \/ stage[r] = "push"
        /\ stage[r] \in C!Past => stage'[r] \in C!Past
        /\ payload \subseteq payload'
    BY <1>3, C!PromiseStep DEF ServiceTypeOK, C!Range, W!Range
  <2>3. /\ stage'[r] = "pend" /\ r \in pending' =>
              (stage[r] = "pend" /\ r \in pending) \/ Suffer("resent")
        /\ \E o : Suffer(o)
    BY <1>3, C!PromiseStep, SharedDisruptions DEF ServiceTypeOK
  <2>4. \A c \in Claims : c \in W!Forgotten' =>
           c \in W!Forgotten \/ (c = r /\ stage[r] = "insert")
    BY <1>3, <2>2, RequestForgets DEF RequestSide
  <2>5. \A c \in Claims : C!Promised(c)' => stage'[c] \in C!Past
    BY <2>1, <2>2 DEF PromiseInv, C!Past
  <2>6. \A c \in Claims : c # r /\ c \in Gone' => c \in Gone
    BY <2>1, <2>2, <2>4 DEF Gone
  <2>7. r \in Gone' => r \in Gone \/ Suffer("resent")
    <3>1. CASE C!Promised(r)' /\ r \in W!Forgotten'
      <4>1. CASE C!Promised(r)
        <5>1. stage[r] # "insert"
          BY <4>1 DEF PromiseInv, C!Past
        <5> QED BY <2>4, <3>1, <4>1, <5>1 DEF Gone
      <4>2. CASE stage'[r] = "finalize" /\ stage[r] = "finalize"
        <5>1. C!Promised(r)
          BY <4>2 DEF C!Promised
        <5> QED BY <4>1, <5>1
      <4>3. CASE stage[r] = "pend" /\ r \in pending
        BY <4>3 DEF Gone
      <4>4. CASE stage[r] = "push" /\ r \in W!Range(queue')
        <5>1. r \notin W!Lost'
          BY <4>4 DEF W!Lost
        <5> QED BY <2>2, <3>1, <4>4, <5>1 DEF Gone, W!Forgotten
      <4> QED BY <2>2, <3>1, <4>1, <4>2, <4>3, <4>4
    <3>2. CASE stage'[r] = "push" /\ r \notin payload'
      BY <2>2, <3>2 DEF Gone
    <3>3. CASE stage'[r] = "pend" /\ r \in pending'
      BY <2>3, <3>3 DEF Gone
    <3> QED BY <3>1, <3>2, <3>3 DEF Gone
  <2>8. CASE Gone' \subseteq Gone
    BY <1>1, <2>3, <2>5, <2>8, GoneCounted
  <2>9. CASE Suffer("resent") /\ Gone' \subseteq Gone \cup {r}
    <3>1. "resent" \in LossKinds
      BY DEF LossKinds, AllKinds
    <3> QED BY <1>1, <2>5, <2>9, <3>1, GoneCounted
  <2>10. Gone' \subseteq Claims
    BY DEF Gone
  <2> QED BY <2>6, <2>7, <2>8, <2>9, <2>10
<1> QED BY <1>2, <1>3 DEF RequestSide

LEMMA PromiseNext ==
  ASSUME ServiceTypeOK, LifecycleInv, PromiseInv, [Next]_vars
  PROVE  PromiseInv'
<1>1. CASE WorkerSide
  BY <1>1, WorkerSideLoss DEF LifecycleInv
<1>2. ASSUME NEW r \in Claims, RequestSide(r) PROVE PromiseInv'
  BY <1>2, RequestSideLoss DEF LifecycleInv
<1>3. ASSUME UNCHANGED <<row, queue, dlq, payload, pending, stage, claimId, workerVars>>,
             \A k \in Keys : C!Complete(k)' => C!Complete(k) /\ idem'[k].claim = idem[k].claim,
             NEW o, Suffer(o)
      PROVE  PromiseInv'
  <2>1. \A c \in Claims : C!Promised(c)' => C!Promised(c)
    BY <1>3 DEF C!Promised
  <2>2. W!Forgotten' = W!Forgotten /\ W!Stopping' = W!Stopping
    BY <1>3 DEF workerVars, W!Forgotten, W!Lost, W!Holders, W!Holding, W!Decidable, W!Stopping
  <2>3. Gone' \subseteq Gone \cup {}
        /\ \A c \in Claims : C!Promised(c)' => stage'[c] \in C!Past
    BY <1>3, <2>1, <2>2, GoneStep
  <2> QED BY <1>3, <2>2, <2>3, GoneCounted
<1>4. CASE RecordSide
  <2>1. PICK k \in Keys : C!ExpireRecord(k)
    BY <1>4 DEF RecordSide
  <2>2. \A l \in Keys : C!Complete(l)' => C!Complete(l) /\ idem'[l].claim = idem[l].claim
    BY <2>1, C!TypeParts DEF C!ExpireRecord, C!Complete, C!NoRecord, C!RecordsOK, ServiceTypeOK
  <2>3. \E o : Suffer(o)
    BY <2>1, SharedDisruptions DEF C!ExpireRecord, C!Suffer
  <2>4. UNCHANGED <<row, queue, dlq, payload, pending, stage, claimId, workerVars>>
    BY <1>4, <2>1 DEF RecordSide, C!ExpireRecord, C!storeVars, C!queueVars
  <2> QED BY <1>3, <2>2, <2>3, <2>4
<1>5. CASE UNCHANGED vars
  <2>1. Suffer("ok")
    BY <1>5 DEF vars, Suffer
  <2>2. \A k \in Keys : C!Complete(k)' => C!Complete(k) /\ idem'[k].claim = idem[k].claim
    BY <1>5 DEF vars, creationVars, C!Complete
  <2> QED BY <1>3, <1>5, <2>1, <2>2 DEF vars, storeVars, queueVars, creationVars
<1> QED BY <1>1, <1>2, <1>4, <1>5, Interleaving

LEMMA PromiseInit == Init => PromiseInv
<1> SUFFICES ASSUME Init PROVE PromiseInv
  OBVIOUS
<1>1. C!Init /\ W!WorkerInit
  BY ServiceInit
<1>2. \A c \in Claims : ~C!Promised(c)
  BY <1>1 DEF C!Init, C!CreationInit, C!NoRecord, C!Promised, C!Complete
<1>3. Gone = {}
  BY <1>1, <1>2 DEF C!Init, C!CreationInit, Gone
<1>4. W!Stopping = {}
  BY <1>1 DEF W!WorkerInit, W!Stopping
<1>5. Suffered(LossKinds) = 0
  <2>1. disruptions = NoDisruptions
    BY <1>1 DEF C!Init, C!NoDisruptions, NoDisruptions, C!AllKinds, AllKinds
  <2> QED BY <2>1, NothingSuffered DEF LossKinds
<1>6. IsFiniteSet({}) /\ Cardinality({}) = 0
  BY FS_EmptySet
<1> QED BY <1>2, <1>3, <1>4, <1>5, <1>6 DEF PromiseInv

\* Of the claims that clients were told of, one at most for each disruption of
\* Redis or of a process is neither decided nor in the queue, with a worker or
\* among the dead letters: none for a failure of the database.
THEOREM AcknowledgedLossIsBounded == Spec => []AcknowledgedLossBounded
<1>1. Init => PromiseInv /\ LifecycleInv
  BY PromiseInit, LifecycleInitially
<1>2. ServiceTypeOK /\ LifecycleInv /\ PromiseInv /\ [Next]_vars => LifecycleInv' /\ PromiseInv'
  BY PromiseNext, UnseenStep, UpdateStep DEF LifecycleInv
<1>3. ServiceTypeOK /\ PromiseInv => AcknowledgedLossBounded
  <2> SUFFICES ASSUME ServiceTypeOK, PromiseInv PROVE AcknowledgedLossBounded
    OBVIOUS
  <2> DEFINE L == {c \in Worker!Lost : Acknowledged(c)}
  <2>1. Worker!Lost = W!Lost
    BY DEF Worker!Lost, W!Lost, Worker!Decidable, W!Decidable, Worker!Decided, W!Decided,
           Worker!ABSENT, W!ABSENT, Worker!Range, W!Range, Worker!Holders, W!Holders,
           Worker!Holding, W!Holding
  <2>2. L \subseteq Gone
    BY <2>1 DEF Acknowledged, Gone, C!Promised, W!Forgotten, W!Lost
  <2>3. IsFiniteSet(Gone) /\ IsFiniteSet(W!Stopping)
    BY ClaimsAssumption, FS_Subset DEF Gone, PromiseInv
  <2>4. IsFiniteSet(L) /\ Cardinality(L) <= Cardinality(Gone)
    BY <2>2, <2>3, FS_Subset
  <2>5. Cardinality(L) \in Nat /\ Cardinality(Gone) \in Nat /\ Cardinality(W!Stopping) \in Nat
    BY <2>3, <2>4, FS_CardinalityType
  <2>6. Suffered(LossKinds) \in Nat
    BY SharedTypes, C!TypeParts, SufferedIsNat DEF ServiceTypeOK, LossKinds
  <2> QED BY <2>4, <2>5, <2>6 DEF PromiseInv, AcknowledgedLossBounded, LossKinds
<1> QED BY <1>1, <1>2, <1>3, ServiceTypes, PTL DEF Spec
-----------------------------------------------------------------------------
(***************************************************************************)
(* Idempotency.  To the records, the workers and the ends of processes are *)
(* interruptions of requests.                                              *)
(***************************************************************************)
KeyInv == C!LockInv /\ C!KeptInv

\* A worker's step is a disruption at most.
LEMMA WorkerSuffers ==
  ASSUME W!WorkerNext
  PROVE  UNCHANGED disruptions \/ \E o : C!Suffer(o)
<1>1. UNCHANGED disruptions \/ \E o : W!Suffer(o)
  BY DEF W!WorkerNext, W!Step, W!RPop, W!Get, W!Load, W!Read, W!Write, W!Reload, W!Incr,
         W!Check, W!Requeue, W!DeadLetter, W!HDel, W!Clear, W!Shutdown, W!Exit, W!Crash,
         W!Restart, W!ExpirePayload
<1> QED BY <1>1, SharedDisruptions

LEMMA KeyStep ==
  ASSUME ServiceTypeOK, KeyInv, [Next]_vars
  PROVE  KeyInv' /\ [C!Idempotent!Next]_(C!Idempotent!vars)
<1>1. ASSUME C!Interrupted
      PROVE  KeyInv' /\ [C!Idempotent!Next]_(C!Idempotent!vars)
  BY <1>1, C!InterruptionKeeps DEF KeyInv, ServiceTypeOK
<1>2. ASSUME [C!CreationNext]_(C!vars)
      PROVE  KeyInv' /\ [C!Idempotent!Next]_(C!Idempotent!vars)
  <2>1. C!TypeOK /\ C!LockInv /\ C!KeptInv
    BY DEF KeyInv, ServiceTypeOK
  <2>2. C!LockInv' /\ C!KeptInv'
    BY <1>2, <2>1, C!LockNext, C!KeptNext
  <2>3. [C!Idempotent!Next]_(C!Idempotent!vars)
    BY <1>2, <2>1, C!KeptRefines, C!LossRefines
  <2> QED BY <2>2, <2>3 DEF KeyInv
<1>3. C!RequestsOK /\ stage \in [Claims -> C!PC]
  BY C!TypeParts DEF ServiceTypeOK, C!RequestsOK
<1>4. CASE WorkerSide
  <2>1. /\ UNCHANGED <<idem, claimId>>
        /\ \A r \in Claims : \/ stage'[r] = stage[r]
                             \/ stage'[r] = "failed" /\ stage[r] \notin C!Answered
        /\ stage' \in [Claims -> C!PC]
    BY <1>3, <1>4, AbandonFrame DEF WorkerSide, creationVars, C!RequestsOK
  <2>2. C!Interrupted
    BY <1>4, <2>1, WorkerSuffers DEF WorkerSide, C!Interrupted
  <2> QED BY <1>1, <2>2
<1>5. ASSUME NEW r \in Claims, RequestSide(r)
      PROVE  KeyInv' /\ [C!Idempotent!Next]_(C!Idempotent!vars)
  <2>1. CASE C!Step(r)
    BY <1>2, <2>1 DEF C!CreationNext
  <2>2. CASE C!Rejected(r)
    <3>1. PICK p \in {"failed", "release", "undo"} :
            /\ stage' = [stage EXCEPT ![r] = p]
            /\ p # "failed" => stage[r] \in C!Critical \ {"expire"}
      BY <1>3, <2>2, RejectedFrame
    <3>2. UNCHANGED <<idem, claimId, disruptions>> /\ stage[r] \notin C!Answered
      BY <1>3, <2>2, RejectedFrame
    <3>3. stage' \in [Claims -> C!PC]
      BY <1>3, <3>1 DEF C!PC, C!Critical, C!Answered
    <3>4. C!Interrupted
      BY <1>3, <3>1, <3>2, <3>3 DEF C!Interrupted
    <3> QED BY <1>1, <3>4
  <2> QED BY <1>5, <2>1, <2>2 DEF RequestSide
<1>6. CASE RecordSide
  BY <1>2, <1>6 DEF RecordSide, C!CreationNext
<1>7. CASE UNCHANGED vars
  <2>1. UNCHANGED C!vars
    BY <1>7 DEF vars, creationVars, storeVars, queueVars, C!vars, C!creationVars,
                C!storeVars, C!queueVars
  <2> QED BY <1>2, <2>1
<1> QED BY <1>4, <1>5, <1>6, <1>7, Interleaving

LEMMA KeyInitially == Init => KeyInv /\ C!Idempotent!Init
BY ServiceInit, C!RecordsInit, C!IdempotentInit DEF KeyInv

\* The promise is the same under every name.
LEMMA SamePromise ==
  /\ C!Idempotent!Init => Creation!Idempotent!Init
  /\ [C!Idempotent!Next]_(C!Idempotent!vars)
       => [Creation!Idempotent!Next]_(Creation!Idempotent!vars)
BY DEF C!Idempotent!Init, Creation!Idempotent!Init, C!Idempotent!vars,
       Creation!Idempotent!vars, C!Idempotent!Next, Creation!Idempotent!Next,
       C!Idempotent!Bind, Creation!Idempotent!Bind, C!Idempotent!Replay,
       Creation!Idempotent!Replay, C!Idempotent!Fail, Creation!Idempotent!Fail,
       C!Idempotent!Lose, Creation!Idempotent!Lose, C!Idempotent!Reply,
       Creation!Idempotent!Reply, C!RecordsKept, Creation!RecordsKept, C!Never, Creation!Never

\* However many processes serve the requests of a key, are shut down, die and
\* come back, and whatever the workers make of its claim: as long as no record
\* is lost, the key is bound to one claim, made by one of its requests, for
\* good, and every answer is that claim or a failure.
THEOREM ServiceIsIdempotent == Spec => IdempotentSpec
<1>1. Init => KeyInv /\ Creation!Idempotent!Init
  BY KeyInitially, SamePromise
<1>2. ServiceTypeOK /\ KeyInv /\ [Next]_vars => KeyInv'
  BY KeyStep
<1>3. ServiceTypeOK /\ KeyInv /\ [Next]_vars
        => [Creation!Idempotent!Next]_(Creation!Idempotent!vars)
  BY KeyStep, SamePromise
<1> QED BY <1>1, <1>2, <1>3, ServiceTypes, PTL DEF Spec, IdempotentSpec,
           Creation!IdempotentSpec, Creation!Idempotent!Spec

\* While no holder has outlived its lock and no command was sent again, of all
\* processes together one request at most is inside the try block of a key,
\* under its record; a process that ends leaves the record and nobody under it.
THEOREM LockExcludes == Spec => []Creation!LockProtects
<1>1. C!LockProtects => Creation!LockProtects
  <2>1. \A k \in Keys : C!InProgress(k) = Creation!InProgress(k)
    BY DEF C!InProgress, Creation!InProgress, C!Critical, Creation!Critical
  <2> QED BY <2>1 DEF C!LockProtects, Creation!LockProtects, C!Never, Creation!Never,
                      C!Cardinality, Creation!Cardinality
<1>2. Init => KeyInv
  BY KeyInitially
<1>3. ServiceTypeOK /\ KeyInv /\ [Next]_vars => KeyInv'
  BY KeyStep
<1>4. KeyInv => Creation!LockProtects
  BY <1>1, C!LockHeld DEF KeyInv
<1> QED BY <1>2, <1>3, <1>4, ServiceTypes, PTL DEF Spec
=============================================================================
