-------------------------- MODULE FraudWorkerProofs --------------------------
(***************************************************************************)
(* Theorems about FraudWorker, for any number of workers and claims, any   *)
(* fraud decision, and any number of disruptions of any kind.              *)
(***************************************************************************)
EXTENDS FraudWorker, CommonProofs, FiniteSetTheorems, TLAPS

-----------------------------------------------------------------------------
\* The control state, without isRunning and events.
Midway == PC \ {"rpop", "down"}
ControlOK ==
  /\ pc \in [Workers -> PC]
  /\ job \in [Workers -> Job]
  /\ \A w \in Workers : job[w].claim = NoClaim <=> pc[w] \in {"rpop", "down"}

\* The steps of control within a turn of the loop, and out of it.
LEMMA GotoType ==
  ASSUME ControlOK, NEW w \in Workers, pc[w] \in Midway,
         NEW p \in Midway, Goto(w, p)
  PROVE  ControlOK'
BY DEF ControlOK, Midway, Goto

LEMMA LeaveType ==
  ASSUME ControlOK, NEW w \in Workers, Die(w) \/ LoopTop(w)
  PROVE  ControlOK'
<1>1. NoJob \in Job /\ NoJob.claim = NoClaim
  BY DEF NoJob, Job, Status
<1>2. PICK p \in {"rpop", "down"} :
        pc' = [pc EXCEPT ![w] = p] /\ job' = [job EXCEPT ![w] = NoJob]
  BY DEF Die, LoopTop
<1>3. p \in PC
  BY <1>2 DEF PC
<1> QED BY <1>1, <1>2, <1>3 DEF ControlOK

LEMMA TakeType ==
  ASSUME ControlOK, NEW w \in Workers, NEW c \in Claims, Take(w, c)
  PROVE  ControlOK'
BY WorkerAssumption DEF ControlOK, Take, PC, Job

LEMMA StartUpdateType ==
  ASSUME ControlOK, NEW w \in Workers, pc[w] \in Midway,
         NEW s \in Status, StartUpdate(w, s)
  PROVE  ControlOK'
BY DEF ControlOK, Midway, StartUpdate, PC, Job

\* A worker in the middle of a turn has a claim.
LEMMA MidwayClaim ==
  ASSUME ControlOK, NEW w \in Workers, pc[w] \in Midway
  PROVE  job[w].claim \in Claims /\ job[w].next \in Status /\ job[w].seen \in Nat
BY DEF ControlOK, Midway, Job
-----------------------------------------------------------------------------
\* A step that leaves both stores alone keeps their types.
LEMMA StoreUnchanged ==
  ASSUME StoreTypeOK, UNCHANGED storeVars
  PROVE  StoreTypeOK'
BY DEF StoreTypeOK, storeVars, queueVars

\* RPOP leaves a list of claims.
LEMMA DropTailType ==
  ASSUME NEW q \in Seq(Claims)
  PROVE  DropTail(q) \in Seq(Claims)
BY DEF DropTail

\* At first the queue holds every claim once.
LEMMA InitType == Init => TypeOK
<1> SUFFICES ASSUME Init PROVE TypeOK
  OBVIOUS
<1>1. queue \in Seq(Claims)
  <2>1. Cardinality(Claims) \in Nat
    BY ClaimsAssumption, FS_CardinalityType
  <2>2. queue \in [1..Cardinality(Claims) -> Claims]
    BY DEF Init, Bijection, Injection
  <2> QED BY <2>1, <2>2
<1>2. row \in [Claims -> Row]
  BY DEF Init, FreshRow, NoRow, Row, Status
<1>3. StoreTypeOK
  BY <1>1, <1>2 DEF Init, StoreTypeOK
<1>4. WorkerTypeOK
  BY DEF Init, WorkerInit, WorkerTypeOK, PC, NoJob, Job, Status
<1>5. DisruptionsTypeOK
  BY DEF Init, NoDisruptions, DisruptionsTypeOK
<1> QED BY <1>3, <1>4, <1>5 DEF TypeOK

\* The parts of TypeOK, the control apart from the rest of WorkerTypeOK.
LEMMA TypeParts ==
  /\ TypeOK <=> /\ StoreTypeOK /\ ControlOK /\ DisruptionsTypeOK
                /\ isRunning \in [Workers -> BOOLEAN]
                /\ events \in [Claims -> Seq(Status)]
  /\ TypeOK' <=> /\ StoreTypeOK' /\ ControlOK' /\ DisruptionsTypeOK'
                 /\ isRunning' \in [Workers -> BOOLEAN]
                 /\ events' \in [Claims -> Seq(Status)]
BY DEF TypeOK, WorkerTypeOK, ControlOK

\* Each step of a worker preserves the types.
LEMMA StepType ==
  ASSUME TypeOK, NEW w \in Workers, Step(w)
  PROVE  TypeOK'
<1> USE TypeParts
<1>1. CASE RPop(w)
  <2>1. PICK o \in RedisWrite :
          /\ Suffer(o)
          /\ queue' = IF Executed(o) THEN DropTail(queue) ELSE queue
          /\ \/ Throws(o) /\ Die(w)
             \/ o = "resent" /\ UNCHANGED <<pc, job>>
             \/ o = "ok" /\ queue = <<>> /\ LoopTop(w)
             \/ o = "ok" /\ queue # <<>> /\ Take(w, Head(queue))
    BY <1>1 DEF RPop
  <2>2. StoreTypeOK'
    BY <1>1, <2>1, DropTailType DEF RPop, StoreTypeOK
  <2>3. ControlOK'
    <3>1. CASE Die(w) \/ LoopTop(w)
      BY <3>1, LeaveType
    <3>2. CASE UNCHANGED <<pc, job>>
      BY <3>2 DEF ControlOK
    <3>3. CASE queue # <<>> /\ Take(w, Head(queue))
      BY <3>3, TakeType DEF StoreTypeOK
    <3> QED BY <2>1, <3>1, <3>2, <3>3
  <2> QED BY <1>1, <2>1, <2>2, <2>3, SufferType DEF RPop
<1>2. CASE Get(w)
  <2>1. pc[w] \in Midway
    BY <1>2 DEF Get, Midway, PC
  <2>2. ControlOK'
    BY <1>2, <2>1, LeaveType, GotoType DEF Get, Midway, PC
  <2> QED BY <1>2, <2>2, SufferType, StoreUnchanged DEF Get
<1>3. CASE Load(w)
  <2>1. pc[w] \in Midway
    BY <1>3 DEF Load, Midway, PC
  <2>2. Catch(w) \/ Goto(w, "clear") \/ StartUpdate(w, "PROCESSING")
    BY <1>3 DEF Load
  <2>3. ControlOK'
    BY <2>1, <2>2, GotoType, StartUpdateType DEF Catch, Midway, PC, Status
  <2> QED BY <1>3, <2>3, SufferType, StoreUnchanged DEF Load
<1>4. CASE Read(w)
  <2>1. pc[w] \in Midway
    BY <1>4 DEF Read, Midway, PC
  <2>2. \/ Catch(w)
        \/ /\ pc' = [pc EXCEPT ![w] = "write"]
           /\ job' = [job EXCEPT ![w].seen = row[job[w].claim].version]
    BY <1>4 DEF Read
  <2>3. row[job[w].claim].version \in Nat
    BY <2>1, MidwayClaim DEF StoreTypeOK, Row
  <2>4. ControlOK'
    <3>1. CASE Catch(w)
      BY <2>1, <3>1, GotoType DEF Catch, Midway, PC
    <3>2. CASE /\ pc' = [pc EXCEPT ![w] = "write"]
               /\ job' = [job EXCEPT ![w].seen = row[job[w].claim].version]
      BY <2>1, <2>3, <3>2 DEF ControlOK, Midway, PC, Job
    <3> QED BY <2>2, <3>1, <3>2
  <2> QED BY <1>4, <2>4, SufferType, StoreUnchanged DEF Read
<1>5. CASE Write(w)
  <2>1. pc[w] \in Midway
    BY <1>5 DEF Write, Midway, PC
  <2>2. Catch(w) \/ Goto(w, "reload")
    BY <1>5 DEF Write
  <2>3. ControlOK'
    BY <2>1, <2>2, GotoType DEF Catch, Midway, PC
  <2>4. row' \in [Claims -> Row]
    <3> DEFINE c == job[w].claim
               new == [status |-> job[w].next, version |-> row[c].version + 1]
    <3>1. row' = row \/ row' = [row EXCEPT ![c] = new]
      BY <1>5, <2>1, MidwayClaim DEF Write, StoreTypeOK
    <3>2. new \in Row
      BY <2>1, MidwayClaim DEF StoreTypeOK, Row
    <3> QED BY <3>1, <3>2 DEF StoreTypeOK
  <2> QED BY <1>5, <2>3, <2>4, SufferType DEF Write, StoreTypeOK, queueVars
<1>6. CASE Reload(w)
  <2>1. pc[w] \in Midway
    BY <1>6 DEF Reload, Midway, PC
  <2> DEFINE c == job[w].claim
             s == job[w].next
  <2>2. \/ Catch(w) \/ Goto(w, "clear") \/ StartUpdate(w, Following(c, s))
    BY <1>6 DEF Reload
  <2>3. c \in Claims /\ s \in Status /\ Following(c, s) \in Status
    BY <2>1, MidwayClaim, WorkerAssumption DEF Following, Status, Decided
  <2>4. ControlOK'
    BY <2>1, <2>2, <2>3, GotoType, StartUpdateType DEF Catch, Midway, PC
  <2>5. events' = events \/ events' = [events EXCEPT ![c] = Append(@, s)]
    BY <1>6 DEF Reload, Announce
  <2>6. events' \in [Claims -> Seq(Status)]
    <3>1. events \in [Claims -> Seq(Status)] /\ c \in Claims /\ s \in Status
      BY <2>3
    <3> HIDE DEF c, s
    <3>2. Append(events[c], s) \in Seq(Status)
      BY <3>1
    <3> QED BY <2>5, <3>1, <3>2
  <2> QED BY <1>6, <2>4, <2>6, SufferType, StoreUnchanged DEF Reload
<1>7. CASE Incr(w)
  <2>1. pc[w] \in Midway
    BY <1>7 DEF Incr, Midway, PC
  <2>2. PICK p \in {"incr", "check", "unwind"} : Goto(w, p)
    BY <1>7, ResumeCases DEF Incr
  <2>3. ControlOK'
    BY <2>1, <2>2, GotoType DEF Midway, PC
  <2>4. retry' \in [Claims -> Nat]
    <3> DEFINE c == job[w].claim
    <3>1. retry \in [Claims -> Nat] /\ c \in Claims
      BY <2>1, MidwayClaim DEF StoreTypeOK
    <3>2. PICK o : retry' = IF Executed(o) THEN [retry EXCEPT ![c] = @ + 1] ELSE retry
      BY <1>7 DEF Incr
    <3> HIDE DEF c
    <3> QED BY <3>1, <3>2
  <2> QED BY <1>7, <2>3, <2>4, SufferType DEF Incr, StoreTypeOK
<1>8. CASE Check(w)
  <2>1. pc[w] \in Midway
    BY <1>8 DEF Check, Midway, PC
  <2>2. PICK p \in {"unwind", "requeue", "deadletter"} : Goto(w, p)
    BY <1>8 DEF Check
  <2>3. ControlOK'
    BY <2>1, <2>2, GotoType DEF Midway, PC
  <2> QED BY <1>8, <2>3, SufferType, StoreUnchanged DEF Check
<1>9. CASE Requeue(w)
  <2>1. pc[w] \in Midway
    BY <1>9 DEF Requeue, Midway, PC
  <2>2. PICK p \in {"requeue", "clear", "unwind"} : Goto(w, p)
    BY <1>9, ResumeCases DEF Requeue
  <2>3. ControlOK'
    BY <2>1, <2>2, GotoType DEF Midway, PC
  <2>4. queue' \in Seq(Claims)
    BY <1>9, <2>1, MidwayClaim DEF Requeue, StoreTypeOK
  <2> QED BY <1>9, <2>3, <2>4, SufferType DEF Requeue, StoreTypeOK
<1>10. CASE DeadLetter(w)
  <2>1. pc[w] \in Midway
    BY <1>10 DEF DeadLetter, Midway, PC
  <2>2. PICK p \in {"deadletter", "hdel", "unwind"} : Goto(w, p)
    BY <1>10, ResumeCases DEF DeadLetter
  <2>3. ControlOK'
    BY <2>1, <2>2, GotoType DEF Midway, PC
  <2>4. dlq' \in Seq(Claims)
    BY <1>10, <2>1, MidwayClaim DEF DeadLetter, StoreTypeOK
  <2> QED BY <1>10, <2>3, <2>4, SufferType DEF DeadLetter, StoreTypeOK
<1>11. CASE HDel(w)
  <2>1. pc[w] \in Midway
    BY <1>11 DEF HDel, Midway, PC
  <2>2. PICK p \in {"hdel", "clear", "unwind"} : Goto(w, p)
    BY <1>11, ResumeCases DEF HDel
  <2>3. ControlOK'
    BY <2>1, <2>2, GotoType DEF Midway, PC
  <2>4. retry' \in [Claims -> Nat]
    <3>1. retry' = retry \/ retry' = [retry EXCEPT ![job[w].claim] = 0]
      BY <1>11 DEF HDel
    <3> QED BY <3>1 DEF StoreTypeOK
  <2> QED BY <1>11, <2>3, <2>4, SufferType DEF HDel, StoreTypeOK
<1>12. CASE Clear(w)
  <2>1. UNCHANGED <<pc, job>> \/ LoopTop(w) \/ Die(w)
    BY <1>12 DEF Clear
  <2>2. ControlOK'
    <3>1. CASE UNCHANGED <<pc, job>>
      BY <3>1 DEF ControlOK
    <3>2. CASE LoopTop(w) \/ Die(w)
      BY <3>2, LeaveType
    <3> QED BY <2>1, <3>1, <3>2
  <2>3. StoreTypeOK'
    BY <1>12 DEF Clear, StoreTypeOK
  <2> QED BY <1>12, <2>2, <2>3, SufferType DEF Clear
<1> QED BY <1>1, <1>2, <1>3, <1>4, <1>5, <1>6, <1>7, <1>8, <1>9, <1>10,
           <1>11, <1>12 DEF Step

\* So does every other step of the component.
LEMMA NextType == TypeOK /\ [WorkerNext]_vars => TypeOK'
<1> SUFFICES ASSUME TypeOK, [WorkerNext]_vars PROVE TypeOK'
  OBVIOUS
<1> USE TypeParts
<1>1. ASSUME NEW w \in Workers, Step(w) PROVE TypeOK'
  BY <1>1, StepType
<1>2. ASSUME NEW w \in Workers, Shutdown(w) PROVE TypeOK'
  <2>1. ControlOK' /\ isRunning' \in [Workers -> BOOLEAN]
    BY <1>2 DEF Shutdown, ControlOK
  <2> QED BY <1>2, <2>1, SufferType, StoreUnchanged DEF Shutdown
<1>3. ASSUME NEW w \in Workers, Exit(w) \/ Crash(w) PROVE TypeOK'
  <2>1. ControlOK'
    BY <1>3, LeaveType DEF Exit, Crash
  <2>2. DisruptionsTypeOK'
    BY <1>3, SufferType DEF Exit, Crash, DisruptionsTypeOK
  <2> QED BY <1>3, <2>1, <2>2, StoreUnchanged DEF Exit, Crash
<1>4. ASSUME NEW w \in Workers, Restart(w) PROVE TypeOK'
  <2>1. ControlOK' /\ isRunning' \in [Workers -> BOOLEAN]
    BY <1>4 DEF Restart, ControlOK, PC
  <2> QED BY <1>4, <2>1, StoreUnchanged DEF Restart, DisruptionsTypeOK
<1>5. ASSUME NEW c \in Claims, ExpirePayload(c) PROVE TypeOK'
  <2>1. StoreTypeOK' /\ ControlOK'
    BY <1>5 DEF ExpirePayload, StoreTypeOK, ControlOK, workerVars
  <2> QED BY <1>5, <2>1, SufferType DEF ExpirePayload, workerVars
<1>6. CASE UNCHANGED vars
  <2>1. StoreTypeOK' /\ ControlOK' /\ DisruptionsTypeOK'
    BY <1>6, StoreUnchanged DEF vars, workerVars, ControlOK, DisruptionsTypeOK
  <2> QED BY <1>6, <2>1 DEF vars, workerVars
<1> QED BY <1>1, <1>2, <1>3, <1>4, <1>5, <1>6 DEF WorkerNext

\* Every variable of the worker and of the stores stays in its type, and a
\* worker has a claim exactly when it is in the middle of a turn.
THEOREM TypeCorrect == Spec => []TypeOK
<1>1. Init => TypeOK
  BY InitType
<1>2. TypeOK /\ [WorkerNext]_vars => TypeOK'
  BY NextType
<1> QED BY <1>1, <1>2, PTL DEF Spec
-----------------------------------------------------------------------------
(***************************************************************************)
(* Exclusive updates.  What follows holds also where rows are withdrawn    *)
(* while workers process them, as createClaim does when it cannot queue a  *)
(* claim: a row that is gone answers every further update of its claim.    *)
(***************************************************************************)
OwnersAgree ==
  \A w \in Workers :
    Owns(w) =>
      LET c == job[w].claim
          s == row[c].status
      IN  IF pc[w] = "reload"
          THEN /\ s \in {job[w].next, ABSENT}
               /\ job[w].next # "PENDING" /\ job[w].next \notin Range(events[c])
          ELSE Exists(c) => s \in {"PROCESSING", "FRAUD_CHECKING"} /\ job[w].next = Following(c, s)
ReadsAgree ==
  \A w \in Workers :
    pc[w] = "write" /\ Exists(job[w].claim) =>
      LET r == row[job[w].claim]
      IN  /\ job[w].seen <= r.version
          /\ job[w].seen = r.version => Validate(r.status, job[w].next)
EventsAgree ==
  \A c \in Claims : Exists(c) => Range(events[c]) \subseteq Reached(row[c].status)
UpdateInv == OneOwner /\ OwnersAgree /\ ReadsAgree /\ EventsAgree

OthersUnchanged(w) ==
  \A v \in Workers \ {w} : pc'[v] = pc[v] /\ job'[v] = job[v]

\* A worker whose step is no part of an update disturbs nobody's.
LEMMA QuietStep ==
  ASSUME TypeOK, UpdateInv, NEW w \in Workers, OthersUnchanged(w),
         ~(Owns(w)'), pc'[w] # "write", UNCHANGED <<row, events>>
  PROVE  UpdateInv'
<1>1. ASSUME NEW v \in Workers, Owns(v)'
      PROVE  v # w /\ Owns(v) /\ pc'[v] = pc[v] /\ job'[v] = job[v]
  BY <1>1 DEF OthersUnchanged, Owns
<1>2. OneOwner'
  BY <1>1 DEF UpdateInv, OneOwner
<1>3. OwnersAgree'
  BY <1>1 DEF UpdateInv, OwnersAgree, Exists
<1>4. ReadsAgree'
  BY DEF UpdateInv, ReadsAgree, OthersUnchanged, Exists
<1>5. EventsAgree'
  BY DEF UpdateInv, EventsAgree, Exists
<1> QED BY <1>2, <1>3, <1>4, <1>5 DEF UpdateInv

\* The operators of control touch one worker.
LEMMA ControlFrame ==
  ASSUME TypeOK, NEW w \in Workers
  PROVE  /\ \A p : Goto(w, p) => OthersUnchanged(w) /\ pc'[w] = p /\ job'[w] = job[w]
         /\ Die(w) \/ LoopTop(w) => OthersUnchanged(w) /\ pc'[w] \in {"rpop", "down"}
         /\ \A c : Take(w, c) => OthersUnchanged(w) /\ pc'[w] = "get"
         /\ \A s : StartUpdate(w, s) =>
              /\ OthersUnchanged(w)
              /\ pc'[w] = "read"
              /\ job'[w].next = s /\ job'[w].claim = job[w].claim
BY DEF TypeOK, WorkerTypeOK, OthersUnchanged, Goto, Die, LoopTop, Take, StartUpdate, Job

LEMMA StepOthers ==
  ASSUME TypeOK, NEW w \in Workers, Step(w)
  PROVE  OthersUnchanged(w)
<1>1. \/ UNCHANGED <<pc, job>> \/ Die(w) \/ LoopTop(w)
      \/ \E p : Goto(w, p)
      \/ \E s : StartUpdate(w, s)
      \/ \E d : Take(w, d)
      \/ \E n : /\ pc' = [pc EXCEPT ![w] = "write"]
                /\ job' = [job EXCEPT ![w].seen = n]
  BY DEF Step, RPop, Get, Load, Read, Write, Reload, Incr, Check, Requeue, DeadLetter, HDel,
         Clear, Catch
<1>2. CASE \/ UNCHANGED <<pc, job>>
           \/ \E n : /\ pc' = [pc EXCEPT ![w] = "write"]
                     /\ job' = [job EXCEPT ![w].seen = n]
  BY <1>2 DEF OthersUnchanged, TypeOK, WorkerTypeOK
<1> QED BY <1>1, <1>2, ControlFrame

\* Steps that only move w outside an update.
LEMMA QuietControl ==
  ASSUME TypeOK, UpdateInv, NEW w \in Workers, UNCHANGED <<row, events>>,
         \/ UNCHANGED <<pc, job>> /\ pc[w] \notin {"read", "write", "reload"}
         \/ Die(w) \/ LoopTop(w)
         \/ \E c : Take(w, c)
         \/ \E p \in PC \ {"read", "write", "reload"} : Goto(w, p)
  PROVE  UpdateInv'
<1>1. OthersUnchanged(w) /\ pc'[w] \notin {"read", "write", "reload"}
  BY ControlFrame DEF OthersUnchanged
<1> QED BY <1>1, QuietStep DEF Owns

\* The validated read.
LEMMA ReadUpdate ==
  ASSUME TypeOK, UpdateInv, NEW w \in Workers, Read(w)
  PROVE  UpdateInv'
<1>1. CASE Catch(w)
  BY <1>1, QuietControl DEF Read, storeVars, Catch, PC
<1>2. CASE /\ Validate(row[job[w].claim].status, job[w].next)
           /\ pc' = [pc EXCEPT ![w] = "write"]
           /\ job' = [job EXCEPT ![w].seen = row[job[w].claim].version]
  <2>1. /\ OthersUnchanged(w)
        /\ pc[w] = "read" /\ pc'[w] = "write"
        /\ job'[w].claim = job[w].claim /\ job'[w].next = job[w].next
        /\ job'[w].seen = row[job[w].claim].version
        /\ UNCHANGED <<row, events>>
    BY <1>2 DEF Read, OthersUnchanged, TypeOK, WorkerTypeOK, Job, storeVars
  <2>2. ASSUME NEW v \in Workers
        PROVE  /\ Owns(v)' <=> Owns(v)
               /\ job'[v].claim = job[v].claim /\ job'[v].next = job[v].next
               /\ pc'[v] = "reload" <=> pc[v] = "reload"
    BY <2>1 DEF OthersUnchanged, Owns
  <2>3. OneOwner'
    BY <2>2 DEF UpdateInv, OneOwner
  <2>4. OwnersAgree'
    BY <2>1, <2>2 DEF UpdateInv, OwnersAgree, Exists
  <2>5. ReadsAgree'
    <3>1. row[job[w].claim].version \in Nat
      BY <2>1, TypeParts, MidwayClaim DEF Midway, PC, StoreTypeOK, Row
    <3> QED BY <1>2, <2>1, <3>1 DEF UpdateInv, ReadsAgree, OthersUnchanged, Exists
  <2>6. EventsAgree'
    BY <2>1 DEF UpdateInv, EventsAgree, Exists
  <2> QED BY <2>3, <2>4, <2>5, <2>6 DEF UpdateInv
<1> QED BY <1>1, <1>2 DEF Read

\* An allowed transition leads to a status that was not reached before.
LEMMA ValidateReached ==
  ASSUME NEW s, NEW n, Validate(s, n)
  PROVE  /\ s \in Status /\ n \in Status /\ n # "PENDING"
         /\ n = "PROCESSING" => s = "PENDING"
         /\ n \notin Reached(s) /\ n \in Reached(n)
         /\ Reached(s) \subseteq Reached(n)
BY DEF Validate, transitions, Reached, Status, ABSENT

\* The optimistic update.
LEMMA WriteUpdate ==
  ASSUME TypeOK, UpdateInv, NEW w \in Workers, Write(w)
  PROVE  UpdateInv'
<1> DEFINE c == job[w].claim
           s == row[c].status
           n == job[w].next
           k == row[c].version
<1>1. pc[w] = "write" /\ UNCHANGED events
  BY DEF Write
<1>2. c \in Claims /\ k \in Nat /\ row \in [Claims -> Row]
  BY <1>1, TypeParts, MidwayClaim DEF Midway, PC, StoreTypeOK, Row
<1>3. CASE row' = row /\ Catch(w)
  BY <1>1, <1>3, QuietControl DEF Catch, PC
<1>4. CASE /\ Exists(c) /\ k = job[w].seen
           /\ row' = [row EXCEPT ![c] = [status |-> n, version |-> k + 1]]
           /\ Catch(w) \/ Goto(w, "reload")
  <2>1. Validate(s, n)
    BY <1>1, <1>4 DEF UpdateInv, ReadsAgree
  <2>2. /\ row'[c].status = n /\ row'[c].version = k + 1
        /\ \A d \in Claims \ {c} : row'[d] = row[d]
    BY <1>2, <1>4
  <2>3. /\ OthersUnchanged(w) /\ pc'[w] \in {"incr", "reload"} /\ job'[w] = job[w]
    BY <1>4, ControlFrame DEF Catch
  <2>4. ASSUME NEW v \in Workers, v # w, Owns(v) PROVE job[v].claim # c
    <3> SUFFICES ASSUME job[v].claim = c PROVE FALSE
      OBVIOUS
    <3>1. s # "PENDING"
      BY <1>4, <2>4 DEF UpdateInv, OwnersAgree, Exists
    <3>2. n # "PROCESSING"
      BY <2>1, <3>1, ValidateReached
    <3>3. Owns(w)
      BY <1>1, <3>2 DEF Owns
    <3> QED BY <2>4, <3>3 DEF UpdateInv, OneOwner
  <2>5. ASSUME NEW v \in Workers, v # w, Owns(v)'
        PROVE  /\ Owns(v) /\ pc'[v] = pc[v] /\ job'[v] = job[v]
               /\ job[v].claim \in Claims \ {c}
    <3>1. Owns(v) /\ pc'[v] = pc[v] /\ job'[v] = job[v]
      BY <2>3, <2>5 DEF OthersUnchanged, Owns
    <3>2. pc[v] \in Midway
      BY <3>1 DEF Owns, Midway, PC
    <3> QED BY <2>4, <2>5, <3>1, <3>2, TypeParts, MidwayClaim
  <2>6. OneOwner'
    BY <2>3, <2>5 DEF UpdateInv, OneOwner
  <2>7. OwnersAgree'
    <3>1. Range(events[c]) \subseteq Reached(s)
      BY <1>2, <1>4 DEF UpdateInv, EventsAgree
    <3>2. n \notin Range(events[c]) /\ n # "PENDING"
      BY <2>1, <3>1, ValidateReached
    <3>3. Owns(w)' => pc'[w] = "reload"
      BY <2>3 DEF Owns
    <3>4. ASSUME NEW v \in Workers, Owns(v)', v # w
          PROVE  row'[job'[v].claim] = row[job[v].claim]
      BY <2>2, <2>5, <3>4
    <3> QED BY <1>1, <2>2, <2>3, <2>5, <3>2, <3>3, <3>4 DEF UpdateInv, OwnersAgree, Exists
  <2>8. ReadsAgree'
    <3>1. SUFFICES ASSUME NEW v \in Workers, pc'[v] = "write",
                          row'[job'[v].claim].status # ABSENT
                   PROVE  /\ job'[v].seen <= row'[job'[v].claim].version
                          /\ job'[v].seen = row'[job'[v].claim].version
                               => Validate(row'[job'[v].claim].status, job'[v].next)
      BY DEF ReadsAgree, Exists
    <3>2. v # w /\ pc[v] = "write" /\ job'[v] = job[v]
      BY <2>3, <3>1 DEF OthersUnchanged
    <3>3. job[v].claim \in Claims /\ job[v].seen \in Nat
      BY <3>2, TypeParts, MidwayClaim DEF Midway, PC
    <3>4. CASE job[v].claim = c
      <4>1. job[v].seen <= k
        BY <1>4, <3>2, <3>4 DEF UpdateInv, ReadsAgree
      <4> QED BY <1>2, <2>2, <3>2, <3>3, <3>4, <4>1
    <3>5. CASE job[v].claim # c
      BY <2>2, <3>1, <3>2, <3>3, <3>5 DEF UpdateInv, ReadsAgree, Exists
    <3> QED BY <3>4, <3>5
  <2>9. EventsAgree'
    <3>1. SUFFICES ASSUME NEW d \in Claims, Exists(d)'
                   PROVE  Range(events[d]) \subseteq Reached(row'[d].status)
      BY <1>1 DEF EventsAgree
    <3>2. Range(events[d]) \subseteq Reached(row[d].status)
      BY <1>4, <2>2, <3>1 DEF UpdateInv, EventsAgree, Exists
    <3> QED BY <2>1, <2>2, <3>2, ValidateReached
  <2> QED BY <2>6, <2>7, <2>8, <2>9 DEF UpdateInv
<1> QED BY <1>3, <1>4 DEF Write, Matches

\* The reload, the event, and the next update.
LEMMA ReloadUpdate ==
  ASSUME TypeOK, UpdateInv, NEW w \in Workers, Reload(w)
  PROVE  UpdateInv'
<1> DEFINE c == job[w].claim
           s == job[w].next
<1>1. pc[w] = "reload" /\ UNCHANGED row /\ Owns(w)
  BY DEF Reload, storeVars, Owns
<1>2. c \in Claims /\ s \in Status /\ events \in [Claims -> Seq(Status)]
  BY <1>1, TypeParts, MidwayClaim DEF Midway, PC
<1>3. CASE Catch(w) /\ UNCHANGED events
  BY <1>1, <1>3, QuietControl DEF Catch, PC
<1>4. CASE /\ events' = [events EXCEPT ![c] = Append(@, s)]
           /\ \/ s \in Decided /\ Goto(w, "clear")
              \/ s \notin Decided /\ StartUpdate(w, Following(c, s))
  <2>1. (Exists(c) => row[c].status = s) /\ s # "PENDING"
    BY <1>1 DEF UpdateInv, OwnersAgree, Exists
  <2>2. /\ Range(events'[c]) = Range(events[c]) \cup {s}
        /\ \A d \in Claims \ {c} : events'[d] = events[d]
    <3>1. events[c] \in Seq(Status) /\ events'[c] = Append(events[c], s)
      BY <1>2, <1>4
    <3>2. Range(Append(events[c], s)) = Range(events[c]) \cup {s}
      BY <1>2, <3>1, AppendRange
    <3> QED BY <1>2, <1>4, <3>1, <3>2
  <2>3. /\ OthersUnchanged(w)
        /\ \/ pc'[w] = "clear"
           \/ /\ s \notin Decided /\ pc'[w] = "read" /\ job'[w].claim = c
              /\ job'[w].next = Following(c, s)
    BY <1>4, ControlFrame
  <2>4. ASSUME NEW v \in Workers, v # w, Owns(v)'
        PROVE  /\ Owns(v) /\ pc'[v] = pc[v] /\ job'[v] = job[v]
               /\ job[v].claim \in Claims \ {c}
    <3>1. Owns(v) /\ pc'[v] = pc[v] /\ job'[v] = job[v]
      BY <2>3, <2>4 DEF OthersUnchanged, Owns
    <3>2. pc[v] \in Midway
      BY <3>1 DEF Owns, Midway, PC
    <3>3. job[v].claim # c
      BY <1>1, <2>4, <3>1 DEF UpdateInv, OneOwner
    <3> QED BY <3>1, <3>2, <3>3, TypeParts, MidwayClaim
  <2>5. Owns(w)' => /\ pc'[w] = "read" /\ s \notin Decided /\ job'[w].claim = c
                    /\ job'[w].next = Following(c, s)
    BY <2>3 DEF Owns
  <2>6. OneOwner'
    BY <2>4, <2>5 DEF UpdateInv, OneOwner
  <2>7. OwnersAgree'
    <3>1. s \notin Decided => s \in {"PROCESSING", "FRAUD_CHECKING"}
      BY <1>2, <2>1 DEF Status, Decided
    <3>2. ASSUME NEW v \in Workers, Owns(v)', v # w
          PROVE  events'[job'[v].claim] = events[job[v].claim]
      BY <2>2, <2>4, <3>2
    <3> QED BY <1>1, <2>1, <2>4, <2>5, <3>1, <3>2 DEF UpdateInv, OwnersAgree, Exists
  <2>8. ReadsAgree'
    BY <1>1, <2>3 DEF UpdateInv, ReadsAgree, OthersUnchanged, Exists
  <2>9. EventsAgree'
    <3>1. s \in Reached(s)
      BY <1>2, <2>1 DEF Reached, Status, ABSENT
    <3>2. SUFFICES ASSUME NEW d \in Claims, Exists(d)
                   PROVE  Range(events'[d]) \subseteq Reached(row[d].status)
      BY <1>1 DEF EventsAgree, Exists
    <3>3. Range(events[d]) \subseteq Reached(row[d].status)
      BY <3>2 DEF UpdateInv, EventsAgree
    <3> QED BY <2>1, <2>2, <3>1, <3>2, <3>3
  <2> QED BY <2>6, <2>7, <2>8, <2>9 DEF UpdateInv
<1> QED BY <1>3, <1>4 DEF Reload, Announce

LEMMA StepUpdate ==
  ASSUME TypeOK, UpdateInv, NEW w \in Workers, Step(w)
  PROVE  UpdateInv'
<1>1. CASE RPop(w)
  <2>1. UNCHANGED <<row, events>> /\ pc[w] = "rpop"
    BY <1>1 DEF RPop
  <2>2. \/ UNCHANGED <<pc, job>> \/ Die(w) \/ LoopTop(w) \/ \E c : Take(w, c)
    BY <1>1 DEF RPop
  <2> QED BY <2>1, <2>2, QuietControl
<1>2. CASE Get(w)
  <2>1. UNCHANGED <<row, events>>
    BY <1>2 DEF Get, storeVars
  <2>2. Die(w) \/ LoopTop(w)
          \/ Goto(w, "load")
    BY <1>2 DEF Get
  <2> QED BY <2>1, <2>2, QuietControl DEF PC
<1>3. CASE Load(w)
  <2>1. UNCHANGED <<row, events>>
    BY <1>3 DEF Load, storeVars
  <2>2. CASE Catch(w) \/ Goto(w, "clear")
    BY <2>1, <2>2, QuietControl DEF Catch, PC
  <2>3. CASE StartUpdate(w, "PROCESSING")
    <3>1. /\ OthersUnchanged(w) /\ pc'[w] = "read" /\ job'[w].next = "PROCESSING"
      BY <2>3, ControlFrame
    <3> QED BY <2>1, <3>1, QuietStep DEF Owns
  <2> QED BY <1>3, <2>2, <2>3 DEF Load
<1>4. CASE Read(w)
  BY <1>4, ReadUpdate
<1>5. CASE Write(w)
  BY <1>5, WriteUpdate
<1>6. CASE Reload(w)
  BY <1>6, ReloadUpdate
<1>7. CASE Incr(w)
  <2>1. PICK p \in {"incr", "check", "unwind"} : Goto(w, p)
    BY <1>7, ResumeCases DEF Incr
  <2> QED BY <1>7, <2>1, QuietControl DEF Incr, PC
<1>8. CASE Check(w)
  <2>1. PICK p \in {"unwind", "requeue", "deadletter"} : Goto(w, p)
    BY <1>8 DEF Check
  <2> QED BY <1>8, <2>1, QuietControl DEF Check, storeVars, PC
<1>9. CASE Requeue(w)
  <2>1. PICK p \in {"requeue", "clear", "unwind"} : Goto(w, p)
    BY <1>9, ResumeCases DEF Requeue
  <2> QED BY <1>9, <2>1, QuietControl DEF Requeue, PC
<1>10. CASE DeadLetter(w)
  <2>1. PICK p \in {"deadletter", "hdel", "unwind"} : Goto(w, p)
    BY <1>10, ResumeCases DEF DeadLetter
  <2> QED BY <1>10, <2>1, QuietControl DEF DeadLetter, PC
<1>11. CASE HDel(w)
  <2>1. PICK p \in {"hdel", "clear", "unwind"} : Goto(w, p)
    BY <1>11, ResumeCases DEF HDel
  <2> QED BY <1>11, <2>1, QuietControl DEF HDel, PC
<1>12. CASE Clear(w)
  <2>1. UNCHANGED <<row, events>> /\ pc[w] \in {"clear", "unwind"}
    BY <1>12 DEF Clear
  <2>2. UNCHANGED <<pc, job>> \/ LoopTop(w) \/ Die(w)
    BY <1>12 DEF Clear
  <2> QED BY <2>1, <2>2, QuietControl
<1> QED BY <1>1, <1>2, <1>3, <1>4, <1>5, <1>6, <1>7, <1>8, <1>9, <1>10,
           <1>11, <1>12 DEF Step

LEMMA NextUpdate ==
  TypeOK /\ UpdateInv /\ [WorkerNext]_vars => UpdateInv'
<1> SUFFICES ASSUME TypeOK, UpdateInv, [WorkerNext]_vars PROVE UpdateInv'
  OBVIOUS
<1>1. ASSUME NEW w \in Workers, Step(w) PROVE UpdateInv'
  BY <1>1, StepUpdate
<1>2. ASSUME NEW w \in Workers, Exit(w) \/ Crash(w) PROVE UpdateInv'
  BY <1>2, QuietControl DEF Exit, Crash, storeVars
<1>3. ASSUME NEW w \in Workers, Restart(w) PROVE UpdateInv'
  <2>1. OthersUnchanged(w) /\ pc'[w] = "rpop" /\ UNCHANGED <<row, events>>
    BY <1>3 DEF Restart, OthersUnchanged, storeVars, TypeOK, WorkerTypeOK
  <2> QED BY <2>1, QuietStep DEF Owns
<1>4. CASE UNCHANGED <<row, pc, job, events>>
  BY <1>4 DEF UpdateInv, OneOwner, OwnersAgree, ReadsAgree, EventsAgree, Owns, Exists
<1> QED BY <1>1, <1>2, <1>3, <1>4
        DEF WorkerNext, Shutdown, ExpirePayload, vars, workerVars, storeVars

LEMMA InitUpdate == Init => UpdateInv
BY DEF Init, WorkerInit, NoJob, UpdateInv, OneOwner, OwnersAgree,
       ReadsAgree, EventsAgree, Owns, Range

LEMMA UpdatesAgree == Spec => []UpdateInv
<1>1. Init => UpdateInv
  BY InitUpdate
<1>2. TypeOK /\ UpdateInv /\ [WorkerNext]_vars => UpdateInv'
  BY NextUpdate
<1> QED BY <1>1, <1>2, TypeCorrect, PTL DEF Spec

\* Workers withdraw no row: a claim that is updated, or was, is there.
RowsStand ==
  /\ \A w \in Workers : Owns(w) \/ pc[w] = "write" => Exists(job[w].claim)
  /\ \A c \in Claims : ~Exists(c) => Range(events[c]) = {}

LEMMA RowsRemain ==
  ASSUME TypeOK, NEW w \in Workers, Step(w)
  PROVE  \A c \in Claims : Exists(c)' <=> Exists(c)
<1>1. CASE ~Write(w)
  BY <1>1 DEF Step, RPop, Get, Load, Read, Reload, Incr, Check, Requeue, DeadLetter, HDel,
              Clear, storeVars, Exists
<1>2. CASE Write(w)
  <2>1. job[w].claim \in Claims /\ job[w].next \in Status /\ row \in [Claims -> Row]
    BY <1>2, TypeParts, MidwayClaim DEF Write, Midway, PC, StoreTypeOK
  <2>2. \/ UNCHANGED row
        \/ /\ Exists(job[w].claim)
           /\ row' = [row EXCEPT ![job[w].claim] = [status  |-> job[w].next,
                                                    version |-> @.version + 1]]
    BY <1>2 DEF Write, Matches
  <2> QED BY <2>1, <2>2 DEF Exists, Status, ABSENT
<1> QED BY <1>1, <1>2

\* Workers learn of a claim from the queue only.
Known(c) == c \in Range(queue) \/ events[c] # <<>> \/ \E w \in Workers : job[w].claim = c

LEMMA KnownBefore ==
  ASSUME TypeOK, WorkerNext
  PROVE  \A c \in Claims : Known(c)' => Known(c)
<1> SUFFICES ASSUME NEW c \in Claims, Known(c)' PROVE Known(c)
  OBVIOUS
<1>1. ASSUME NEW w \in Workers, OthersUnchanged(w),
             job'[w].claim \in {job[w].claim, NoClaim} \cup Range(queue),
             Range(queue') \subseteq Range(queue) \cup {job[w].claim},
             events'[c] = events[c] \/ job[w].claim = c
      PROVE  Known(c)
  BY <1>1, WorkerAssumption DEF Known, OthersUnchanged
<1>2. queue \in Seq(Claims) /\ dlq \in Seq(Claims)
  BY DEF TypeOK, StoreTypeOK
<1>3. ASSUME NEW w \in Workers
      PROVE  /\ NoJob.claim = NoClaim
             /\ \A p : Goto(w, p) => job'[w].claim = job[w].claim
             /\ Die(w) \/ LoopTop(w) => job'[w].claim = NoClaim
             /\ \A d : Take(w, d) => job'[w].claim = d
             /\ \A s : StartUpdate(w, s) => job'[w].claim = job[w].claim
             /\ \A v : job' = [job EXCEPT ![w].seen = v] => job'[w].claim = job[w].claim
  BY DEF NoJob, Goto, Die, LoopTop, Take, StartUpdate, TypeOK, WorkerTypeOK, Job
<1>4. ASSUME NEW w \in Workers, Step(w) PROVE Known(c)
  <2>1. OthersUnchanged(w)
    BY <1>4, StepOthers
  <2>2. CASE RPop(w)
    <3>1. Range(queue') \subseteq Range(queue)
      BY <1>2, <2>2, HeadRange DEF RPop, DropTail
    <3>2. job'[w].claim \in {job[w].claim, NoClaim} \cup Range(queue)
      <4>1. queue # <<>> => Head(queue) \in Range(queue)
        BY <1>2, HeadRange
      <4> QED BY <1>3, <2>2, <4>1 DEF RPop
    <3> QED BY <1>1, <2>1, <2>2, <3>1, <3>2 DEF RPop
  <2>3. CASE Requeue(w)
    <3>1. job[w].claim \in Claims
      BY <2>3, TypeParts, MidwayClaim DEF Requeue, Midway, PC
    <3>2. Range(queue') \subseteq Range(queue) \cup {job[w].claim}
      BY <1>2, <2>3, <3>1, AppendRange DEF Requeue
    <3> QED BY <1>1, <1>3, <2>1, <2>3, <3>2 DEF Requeue
  <2>4. CASE ~RPop(w) /\ ~Requeue(w)
    <3>1. UNCHANGED queue
      BY <1>4, <2>4 DEF Step, Get, Load, Read, Write, Reload, Incr, Check, DeadLetter, HDel, Clear,
                        storeVars, queueVars
    <3>2. job'[w].claim \in {job[w].claim, NoClaim}
      BY <1>3, <1>4, <2>4 DEF Step, Get, Load, Read, Write, Reload, Incr, Check, DeadLetter, HDel,
                              Clear, Catch
    <3>3. events'[c] = events[c] \/ job[w].claim = c
      BY <1>4, <2>4 DEF Step, Get, Load, Read, Write, Reload, Incr, Check, DeadLetter, HDel, Clear,
                        Announce, TypeOK, WorkerTypeOK
    <3> QED BY <1>1, <2>1, <3>1, <3>2, <3>3
  <2> QED BY <1>4, <2>2, <2>3, <2>4
<1>5. ASSUME NEW w \in Workers, Exit(w) \/ Crash(w) PROVE Known(c)
  <2>1. OthersUnchanged(w) /\ UNCHANGED <<queue, events>>
    BY <1>5, ControlFrame DEF Exit, Crash, storeVars, queueVars
  <2> QED BY <1>1, <1>3, <1>5, <2>1 DEF Exit, Crash
<1>6. CASE UNCHANGED <<queue, events, job>>
  BY <1>6 DEF Known
<1> QED BY <1>4, <1>5, <1>6
        DEF WorkerNext, Shutdown, Restart, ExpirePayload, storeVars, queueVars, workerVars

\* The claim of a worker that has just begun to update, or to announce, exists.
LEMMA StepStands ==
  ASSUME TypeOK, UpdateInv, RowsStand, NEW w \in Workers, Step(w)
  PROVE  RowsStand'
<1>1. \A c \in Claims : Exists(c)' <=> Exists(c)
  BY RowsRemain
<1>2. OthersUnchanged(w)
  BY StepOthers
<1>3. SUFFICES /\ \A v \in Workers : Owns(v)' \/ pc'[v] = "write"
                                       => row'[job'[v].claim].status # ABSENT
               /\ \A c \in Claims : row'[c].status = ABSENT => Range(events'[c]) = {}
  BY DEF RowsStand, Exists
<1>4. SUFFICES /\ Owns(w)' \/ pc'[w] = "write"
                    => job'[w].claim \in Claims /\ row[job'[w].claim].status # ABSENT
               /\ \A c \in Claims : row[c].status = ABSENT => Range(events'[c]) = {}
  <2>1. \A v \in Workers : pc[v] \in {"read", "write", "reload"} => job[v].claim \in Claims
    BY TypeParts, MidwayClaim DEF Midway, PC
  <2> QED BY <1>1, <1>2, <1>3, <2>1 DEF RowsStand, OthersUnchanged, Owns, Exists
<1>5. pc[w] \in {"read", "write", "reload"} => job[w].claim \in Claims /\ job[w].next \in Status
  BY TypeParts, MidwayClaim DEF Midway, PC
<1>6. CASE Write(w) \/ Read(w)
  <2>1. UNCHANGED events /\ job'[w].claim = job[w].claim
    BY <1>6 DEF Write, Read, storeVars, Catch, Goto, TypeOK, WorkerTypeOK, Job
  <2>2. Owns(w)' \/ pc'[w] = "write" => row[job[w].claim].status # ABSENT
    <3>1. CASE Write(w)
      BY <3>1 DEF Write, RowsStand, Exists, Owns
    <3>2. CASE Read(w)
      BY <3>2 DEF Read, Catch, Goto, Owns, Validate, transitions, ABSENT, TypeOK, WorkerTypeOK
    <3> QED BY <1>6, <3>1, <3>2
  <2>3. pc[w] \in {"read", "write"}
    BY <1>6 DEF Write, Read
  <2> QED BY <1>5, <2>1, <2>2, <2>3 DEF RowsStand, Exists
<1>7. CASE Reload(w)
  <2>1. pc[w] = "reload" /\ row[job[w].claim].status # ABSENT
    BY <1>7 DEF Reload, RowsStand, Owns, Exists
  <2>2. job'[w].claim = job[w].claim
    BY <1>7, ControlFrame DEF Reload, Catch
  <2>3. \A c \in Claims \ {job[w].claim} : events'[c] = events[c]
    BY <1>7 DEF Reload, Announce, TypeOK, WorkerTypeOK
  <2> QED BY <1>5, <2>1, <2>2, <2>3 DEF RowsStand, Exists
<1>8. CASE Load(w)
  BY <1>8, ControlFrame DEF Load, Catch, storeVars, RowsStand, Exists, Owns
<1>9. CASE RPop(w) \/ Get(w) \/ Incr(w) \/ Check(w) \/ Requeue(w) \/ DeadLetter(w) \/ HDel(w)
             \/ Clear(w)
  <2>1. UNCHANGED events
    BY <1>9 DEF RPop, Get, Incr, Check, Requeue, DeadLetter, HDel, Clear
  <2>2. pc[w] \notin {"read", "write", "reload"}
    BY <1>9 DEF RPop, Get, Incr, Check, Requeue, DeadLetter, HDel, Clear
  <2>3. \/ UNCHANGED <<pc, job>> \/ Die(w) \/ LoopTop(w) \/ \E c : Take(w, c)
        \/ \E p : Goto(w, p) /\ p \notin {"read", "write", "reload"}
    BY <1>9 DEF RPop, Get, Incr, Check, Requeue, DeadLetter, HDel, Clear, Resume
  <2>4. pc'[w] \notin {"read", "write", "reload"}
    BY <2>2, <2>3, ControlFrame
  <2> QED BY <2>1, <2>4 DEF RowsStand, Exists, Owns
<1> QED BY <1>6, <1>7, <1>8, <1>9 DEF Step

LEMMA NextStands ==
  TypeOK /\ UpdateInv /\ RowsStand /\ [WorkerNext]_vars => RowsStand'
<1> SUFFICES ASSUME TypeOK, UpdateInv, RowsStand, [WorkerNext]_vars PROVE RowsStand'
  OBVIOUS
<1>1. ASSUME NEW w \in Workers, Step(w) PROVE RowsStand'
  BY <1>1, StepStands
<1>2. ASSUME NEW w \in Workers, Exit(w) \/ Crash(w) PROVE RowsStand'
  <2>1. UNCHANGED <<row, events>> /\ OthersUnchanged(w) /\ pc'[w] \in {"rpop", "down"}
    BY <1>2, ControlFrame DEF Exit, Crash, storeVars
  <2> QED BY <2>1 DEF RowsStand, OthersUnchanged, Owns, Exists
<1>3. ASSUME NEW w \in Workers, Restart(w) PROVE RowsStand'
  <2>1. UNCHANGED <<row, events>> /\ OthersUnchanged(w) /\ pc'[w] = "rpop"
    BY <1>3 DEF Restart, OthersUnchanged, storeVars, TypeOK, WorkerTypeOK
  <2> QED BY <2>1 DEF RowsStand, OthersUnchanged, Owns, Exists
<1>4. CASE UNCHANGED <<row, pc, job, events>>
  BY <1>4 DEF RowsStand, Owns, Exists
<1> QED BY <1>1, <1>2, <1>3, <1>4
        DEF WorkerNext, Shutdown, ExpirePayload, vars, workerVars, storeVars

\* At most one worker is past the first update of a claim, and what it writes
\* and announces is current: for every number of workers, whatever is
\* disrupted, and with an id in the queue any number of times.
THEOREM UpdatesAreExclusive == Spec => []ExclusiveUpdate
<1>1. Init => RowsStand
  BY DEF Init, WorkerInit, RowsStand, Owns, Range
<1>2. TypeOK /\ UpdateInv /\ RowsStand /\ [WorkerNext]_vars => RowsStand'
  BY NextStands
<1>3. UpdateInv /\ RowsStand => ExclusiveUpdate
  BY DEF UpdateInv, OwnersAgree, ReadsAgree, EventsAgree, RowsStand, ExclusiveUpdate,
         OwnerIsCurrent, ReadIsCurrent, AnnouncedIsReached, Exists
<1> QED BY <1>1, <1>2, <1>3, TypeCorrect, UpdatesAgree, PTL DEF Spec
-----------------------------------------------------------------------------
\* The worker implements the lifecycle.

\* The instance reads the same transition table.
LEMMA SameTable ==
  /\ Lifecycle!Status = Status /\ Lifecycle!ABSENT = ABSENT
  /\ \A s, n : Lifecycle!Validate(s, n) <=> Validate(s, n)
BY DEF Lifecycle!Status, Status, Lifecycle!ABSENT, ABSENT, Lifecycle!Validate,
       Validate, Lifecycle!transitions, transitions

LEMMA LifecycleInit == Init => Lifecycle!Init
<1> SUFFICES ASSUME Init PROVE Lifecycle!Init
  OBVIOUS
<1>1. \A c \in Claims : row[c].status \in {"PENDING", ABSENT}
  BY DEF Init, FreshRow, NoRow
<1>2. events = [c \in Claims |-> <<>>]
  BY DEF Init, WorkerInit
<1> QED BY <1>1, <1>2, SameTable DEF Lifecycle!Init

\* A step that changes neither a row nor the events is a stutter.
LEMMA LifecycleStutter ==
  ASSUME UNCHANGED <<row, events>>
  PROVE  UNCHANGED Lifecycle!vars
BY DEF Lifecycle!vars

\* An update advances the claim, or changes nothing.
LEMMA WriteAdvances ==
  ASSUME TypeOK, UpdateInv, NEW w \in Workers, Write(w)
  PROVE  [Lifecycle!Next]_Lifecycle!vars
<1> DEFINE c == job[w].claim
           n == job[w].next
<1>1. pc[w] = "write" /\ UNCHANGED events
  BY DEF Write
<1>2. c \in Claims /\ n \in Status /\ row \in [Claims -> Row]
  BY <1>1, TypeParts, MidwayClaim DEF Midway, PC, StoreTypeOK
<1>3. CASE row' = row
  BY <1>1, <1>3, LifecycleStutter
<1>4. CASE /\ row[c].version = job[w].seen
           /\ row' = [row EXCEPT ![c] = [status  |-> n,
                                         version |-> row[c].version + 1]]
           /\ Exists(c)
  <2>1. Validate(row[c].status, n)
    BY <1>1, <1>4 DEF UpdateInv, ReadsAgree
  <2>2. [d \in Claims |-> row'[d].status]
          = [[d \in Claims |-> row[d].status] EXCEPT ![c] = n]
    BY <1>2, <1>4
  <2>3. [d \in Claims |-> row[d].status][c] = row[c].status
    BY <1>2
  <2>4. \E d \in Claims : Lifecycle!Advance(d)
    BY <1>1, <1>2, <2>1, <2>2, <2>3, SameTable DEF Lifecycle!Advance
  <2> QED BY <2>4 DEF Lifecycle!Next
<1> QED BY <1>3, <1>4 DEF Write, Matches

\* An event announces the current status for the first time.
LEMMA ReloadAnnounces ==
  ASSUME TypeOK, UpdateInv, NEW w \in Workers, Reload(w)
  PROVE  [Lifecycle!Next]_Lifecycle!vars
<1> DEFINE c == job[w].claim
           s == job[w].next
<1>1. pc[w] = "reload" /\ UNCHANGED row /\ Owns(w)
  BY DEF Reload, storeVars, Owns
<1>2. c \in Claims /\ s \in Status
  BY <1>1, TypeParts, MidwayClaim DEF Midway, PC
<1>3. CASE UNCHANGED events
  BY <1>1, <1>3, LifecycleStutter
<1>4. CASE events' = [events EXCEPT ![c] = Append(@, s)]
  <2>1. row[c].status \in {s, ABSENT} /\ s # "PENDING" /\ s \notin Range(events[c])
    BY <1>1 DEF UpdateInv, OwnersAgree
  <2>2. Lifecycle!Announce(c)
    BY <1>1, <1>2, <1>4, <2>1, SameTable DEF Lifecycle!Announce, Range
  <2>3. \E d \in Claims : Lifecycle!Announce(d)
    BY <1>2, <2>2
  <2> QED BY <2>3 DEF Lifecycle!Next
<1> QED BY <1>3, <1>4 DEF Reload, Announce

LEMMA LifecycleStep ==
  TypeOK /\ UpdateInv /\ [WorkerNext]_vars => [Lifecycle!Next]_Lifecycle!vars
<1> SUFFICES ASSUME TypeOK, UpdateInv, [WorkerNext]_vars
             PROVE  [Lifecycle!Next]_Lifecycle!vars
  OBVIOUS
<1>1. ASSUME NEW w \in Workers, Write(w) PROVE [Lifecycle!Next]_Lifecycle!vars
  BY <1>1, WriteAdvances
<1>2. ASSUME NEW w \in Workers, Reload(w) PROVE [Lifecycle!Next]_Lifecycle!vars
  BY <1>2, ReloadAnnounces
<1>3. CASE UNCHANGED <<row, events>>
  BY <1>3, LifecycleStutter
<1>4. ASSUME NEW w \in Workers, Step(w), ~Write(w), ~Reload(w)
      PROVE  UNCHANGED <<row, events>>
  BY <1>4 DEF Step, RPop, Get, Load, Read, Incr, Check, Requeue, DeadLetter, HDel,
              Clear, storeVars
<1>5. ASSUME NEW w \in Workers, Shutdown(w) \/ Exit(w) \/ Crash(w) \/ Restart(w)
      PROVE  UNCHANGED <<row, events>>
  BY <1>5 DEF Shutdown, Exit, Crash, Restart, storeVars
<1> QED BY <1>1, <1>2, <1>3, <1>4, <1>5
        DEF WorkerNext, ExpirePayload, vars, workerVars, storeVars

\* Statuses follow the transition table, and each is announced at most once
\* and while it is current: the worker implements ClaimLifecycle.
THEOREM WorkerImplementsLifecycle == Spec => LifecycleSpec
<1>1. Init => Lifecycle!Init
  BY LifecycleInit
<1>2. TypeOK /\ UpdateInv /\ [WorkerNext]_vars => [Lifecycle!Next]_Lifecycle!vars
  BY LifecycleStep
<1> QED BY <1>1, <1>2, TypeCorrect, UpdatesAgree, PTL
        DEF Spec, LifecycleSpec, Lifecycle!Spec
-----------------------------------------------------------------------------
\* One place for each claim.

\* Where a claim is, and how many failures it has had there.
OnePlace ==
  /\ IsInjective(queue) /\ IsInjective(dlq)
  /\ Range(queue) \cap Range(dlq) = {}
  /\ \A v, w \in Workers :
       Holding(v) /\ Holding(w) /\ job[v].claim = job[w].claim => v = w
  /\ \A w \in Workers : Holding(w) => job[w].claim \notin Range(queue) \cup Range(dlq)
  /\ \A w \in Workers : pc[w] = "hdel" => job[w].claim \in Range(dlq)

\* The failures counted for the claim of w agree with where w is.
BudgetAt(w) ==
  LET n == retry[job[w].claim]
  IN  /\ pc[w] \in {"get", "load", "read", "write", "reload", "incr", "requeue"}
           => n < MaxRetries
      /\ pc[w] = "check" => n <= MaxRetries
      /\ pc[w] = "deadletter" => n = MaxRetries

WithinBudget ==
  /\ \A c \in Range(queue) : retry[c] < MaxRetries
  /\ \A w \in Workers : BudgetAt(w)

PlaceInv == Never("resent") => OnePlace /\ WithinBudget

LEMMA InitPlace == Init => PlaceInv
<1> SUFFICES ASSUME Init PROVE OnePlace /\ WithinBudget
  BY DEF PlaceInv
<1>1. TypeOK
  BY InitType
<1>2. /\ IsInjective(queue) /\ dlq = <<>> /\ retry = [c \in Claims |-> 0]
      /\ \A w \in Workers : pc[w] = "rpop"
  BY DEF Init, WorkerInit, Bijection, Injection
<1>3. IsInjective(dlq) /\ Range(dlq) = {}
  BY <1>2 DEF IsInjective, Range
<1>4. OnePlace
  BY <1>2, <1>3 DEF OnePlace, Holding
<1>5. WithinBudget
  <2>1. Range(queue) \subseteq Claims
    BY <1>1 DEF TypeOK, StoreTypeOK, Range
  <2> QED BY <1>2, <2>1 DEF WithinBudget, BudgetAt, MaxRetries
<1> QED BY <1>4, <1>5

\* A step that moves w, and no id to or from a list: what w still holds it
\* held before.
LEMMA PlaceKept ==
  ASSUME OnePlace, WithinBudget, NEW w \in Workers, OthersUnchanged(w),
         UNCHANGED <<queue, dlq, retry>>,
         Holding(w)' => Holding(w) /\ job'[w].claim = job[w].claim,
         pc'[w] = "hdel" => pc[w] = "hdel" /\ job'[w] = job[w],
         BudgetAt(w)'
  PROVE  OnePlace' /\ WithinBudget'
<1>1. ASSUME NEW v \in Workers, v # w
      PROVE  /\ (Holding(v)' <=> Holding(v)) /\ job'[v] = job[v] /\ pc'[v] = pc[v]
             /\ BudgetAt(v)'
  BY <1>1 DEF OthersUnchanged, Holding, WithinBudget, BudgetAt
<1>2. OnePlace'
  BY <1>1 DEF OnePlace
<1>3. WithinBudget'
  BY <1>1 DEF WithinBudget
<1> QED BY <1>2, <1>3

\* The steps that only move w.
LEMMA PlaceQuiet ==
  ASSUME TypeOK, OnePlace, WithinBudget, NEW w \in Workers,
         UNCHANGED <<queue, dlq, retry>>,
         \/ UNCHANGED <<pc, job>>
         \/ Die(w) \/ LoopTop(w)
         \/ \E p \in {"clear", "unwind"} : Goto(w, p)
         \/ /\ pc[w] \in {"get", "load", "read", "write", "reload"}
            /\ \/ \E p \in {"load", "reload", "incr"} : Goto(w, p)
               \/ \E s : StartUpdate(w, s)
               \/ \E n : /\ pc' = [pc EXCEPT ![w] = "write"]
                         /\ job' = [job EXCEPT ![w].seen = n]
  PROVE  OnePlace' /\ WithinBudget'
<1>1. pc \in [Workers -> PC] /\ job \in [Workers -> Job]
  BY DEF TypeOK, WorkerTypeOK
<1>2. CASE UNCHANGED <<pc, job>>
  BY <1>2 DEF OnePlace, WithinBudget, Holding, BudgetAt
<1>3. CASE Die(w) \/ LoopTop(w) \/ \E p \in {"clear", "unwind"} : Goto(w, p)
  <2>1. OthersUnchanged(w) /\ pc'[w] \in {"rpop", "down", "clear", "unwind"}
    BY <1>3, ControlFrame
  <2> QED BY <2>1, PlaceKept DEF Holding, BudgetAt
<1>4. CASE /\ pc[w] \in {"get", "load", "read", "write", "reload"}
           /\ \/ \E p \in {"load", "reload", "incr"} : Goto(w, p)
              \/ \E s : StartUpdate(w, s)
              \/ \E n : /\ pc' = [pc EXCEPT ![w] = "write"]
                        /\ job' = [job EXCEPT ![w].seen = n]
  <2>1. /\ OthersUnchanged(w) /\ job'[w].claim = job[w].claim
        /\ pc'[w] \in {"load", "read", "write", "reload", "incr"}
    <3>1. CASE \E n : /\ pc' = [pc EXCEPT ![w] = "write"]
                      /\ job' = [job EXCEPT ![w].seen = n]
      BY <1>1, <3>1 DEF OthersUnchanged, Job
    <3>2. CASE \/ \E p \in {"load", "reload", "incr"} : Goto(w, p)
               \/ \E s : StartUpdate(w, s)
      BY <3>2, ControlFrame
    <3> QED BY <1>4, <3>1, <3>2
  <2>2. BudgetAt(w)
    BY DEF WithinBudget
  <2>3. BudgetAt(w)'
    BY <1>4, <2>1, <2>2 DEF BudgetAt
  <2> QED BY <1>4, <2>1, <2>3, PlaceKept DEF Holding
<1> QED BY <1>2, <1>3, <1>4

\* RPOP takes an id out of the queue, and gives it to w or to nobody.
LEMMA PlaceTaken ==
  ASSUME TypeOK, OnePlace, WithinBudget, NEW w \in Workers, pc[w] = "rpop",
         queue # <<>>, queue' = Tail(queue), UNCHANGED <<dlq, retry>>,
         Die(w) \/ Take(w, Head(queue))
  PROVE  OnePlace' /\ WithinBudget'
<1> DEFINE c == Head(queue)
<1>1. /\ c \in Claims /\ c \notin Range(queue') /\ IsInjective(queue')
      /\ Range(queue) = Range(queue') \cup {c}
  BY HeadRange DEF TypeOK, StoreTypeOK, OnePlace
<1>2. OthersUnchanged(w) /\ ((pc'[w] = "get" /\ job'[w].claim = c) \/ pc'[w] \in {"rpop", "down"})
  <2>1. Take(w, c) => job'[w].claim = c
    BY DEF Take, TypeOK, WorkerTypeOK, Job
  <2> QED BY <2>1, ControlFrame
<1> HIDE DEF c
<1>3. ASSUME NEW v \in Workers, v # w
      PROVE  /\ (Holding(v)' <=> Holding(v)) /\ job'[v] = job[v] /\ pc'[v] = pc[v]
             /\ Holding(v) => job[v].claim # c
  BY <1>1, <1>2, <1>3 DEF OthersUnchanged, Holding, OnePlace
<1>4. Holding(w)' => pc'[w] = "get" /\ job'[w].claim = c
  BY <1>2 DEF Holding
<1>5. c \notin Range(dlq) /\ retry[c] < MaxRetries
  BY <1>1 DEF OnePlace, WithinBudget
<1>6. OnePlace'
  BY <1>1, <1>2, <1>3, <1>4, <1>5 DEF OnePlace
<1>7. WithinBudget'
  <2>1. ASSUME NEW v \in Workers, v # w PROVE BudgetAt(v)'
    BY <1>3, <2>1 DEF WithinBudget, BudgetAt
  <2>2. BudgetAt(w)'
    BY <1>2, <1>5 DEF BudgetAt
  <2> QED BY <1>1, <2>1, <2>2 DEF WithinBudget
<1> QED BY <1>6, <1>7

\* HINCRBY counts a failure of a claim that only w has.
LEMMA PlaceCounted ==
  ASSUME TypeOK, OnePlace, WithinBudget, NEW w \in Workers, pc[w] = "incr",
         retry' = [retry EXCEPT ![job[w].claim] = @ + 1], UNCHANGED <<queue, dlq>>,
         NEW p \in {"check", "unwind"}, Goto(w, p)
  PROVE  OnePlace' /\ WithinBudget'
<1> DEFINE c == job[w].claim
<1>1. c \in Claims /\ retry \in [Claims -> Nat]
  BY TypeParts, MidwayClaim DEF Midway, PC, StoreTypeOK
<1>2. OthersUnchanged(w) /\ pc'[w] = p /\ job'[w] = job[w]
  BY ControlFrame
<1>3. Holding(w) /\ c \notin Range(queue) \cup Range(dlq) /\ retry[c] < MaxRetries
  BY DEF Holding, OnePlace, WithinBudget, BudgetAt
<1>4. retry'[c] = retry[c] + 1 /\ \A d : d # c => retry'[d] = retry[d]
  BY <1>1
<1> HIDE DEF c
<1>5. ASSUME NEW v \in Workers, v # w
      PROVE  /\ (Holding(v)' <=> Holding(v)) /\ job'[v] = job[v] /\ pc'[v] = pc[v]
             /\ Holding(v) => job[v].claim # c
  BY <1>2, <1>3, <1>5 DEF OthersUnchanged, Holding, OnePlace, c
<1>6. OnePlace'
  BY <1>2, <1>3, <1>5 DEF OnePlace, Holding
<1>7. WithinBudget'
  <2>1. ASSUME NEW v \in Workers, v # w PROVE BudgetAt(v)'
    BY <1>4, <1>5, <2>1 DEF WithinBudget, BudgetAt, Holding
  <2>2. BudgetAt(w)'
    BY <1>1, <1>2, <1>3, <1>4 DEF BudgetAt, c, MaxRetries
  <2>3. \A d \in Range(queue) : retry'[d] < MaxRetries
    BY <1>3, <1>4 DEF WithinBudget
  <2> QED BY <2>1, <2>2, <2>3 DEF WithinBudget
<1> QED BY <1>6, <1>7

\* LPUSH gives the claim of w to one of the lists.
LEMMA PlaceGiven ==
  ASSUME TypeOK, OnePlace, WithinBudget, NEW w \in Workers, UNCHANGED retry,
         \/ /\ pc[w] = "requeue"
            /\ queue' = Append(queue, job[w].claim) /\ UNCHANGED dlq
            /\ \E p \in {"clear", "unwind"} : Goto(w, p)
         \/ /\ pc[w] = "deadletter"
            /\ dlq' = Append(dlq, job[w].claim) /\ UNCHANGED queue
            /\ \E p \in {"hdel", "unwind"} : Goto(w, p)
  PROVE  OnePlace' /\ WithinBudget'
<1> DEFINE c == job[w].claim
<1>1. c \in Claims /\ queue \in Seq(Claims) /\ dlq \in Seq(Claims)
  BY TypeParts, MidwayClaim DEF Midway, PC, StoreTypeOK
<1>2. /\ OthersUnchanged(w) /\ job'[w] = job[w] /\ pc'[w] \in {"clear", "unwind", "hdel"}
      /\ pc'[w] = "hdel" => pc[w] = "deadletter"
  BY ControlFrame
<1>3. Holding(w) /\ c \notin Range(queue) /\ c \notin Range(dlq)
  BY DEF Holding, OnePlace
<1>4. pc[w] = "requeue" => retry[c] < MaxRetries
  BY DEF WithinBudget, BudgetAt
<1>5. /\ IsInjective(queue') /\ IsInjective(dlq')
      /\ \/ Range(queue') = Range(queue) \cup {c} /\ dlq' = dlq /\ pc[w] = "requeue"
         \/ Range(dlq') = Range(dlq) \cup {c} /\ queue' = queue /\ pc[w] = "deadletter"
  <2>1. IsInjective(queue) /\ IsInjective(dlq)
    BY DEF OnePlace
  <2> HIDE DEF c
  <2>2. /\ IsInjective(Append(queue, c)) /\ Range(Append(queue, c)) = Range(queue) \cup {c}
        /\ IsInjective(Append(dlq, c)) /\ Range(Append(dlq, c)) = Range(dlq) \cup {c}
    BY <1>1, <1>3, <2>1, AppendRange, AppendKeepsInjective
  <2> QED BY <2>1, <2>2 DEF c
<1>6. ASSUME NEW v \in Workers, v # w
      PROVE  /\ (Holding(v)' <=> Holding(v)) /\ job'[v] = job[v] /\ pc'[v] = pc[v]
             /\ Holding(v) => job[v].claim # c
  BY <1>2, <1>3, <1>6 DEF OthersUnchanged, Holding, OnePlace
<1>7. ~Holding(w)'
  BY <1>2 DEF Holding
<1> HIDE DEF c
<1>8. OnePlace'
  BY <1>2, <1>3, <1>5, <1>6, <1>7 DEF OnePlace, c
<1>9. WithinBudget'
  <2>1. ASSUME NEW v \in Workers, v # w PROVE BudgetAt(v)'
    BY <1>6, <2>1 DEF WithinBudget, BudgetAt
  <2>2. BudgetAt(w)'
    BY <1>2 DEF BudgetAt
  <2>3. \A d \in Range(queue') : retry[d] < MaxRetries
    BY <1>4, <1>5 DEF WithinBudget
  <2> QED BY <2>1, <2>2, <2>3 DEF WithinBudget
<1> QED BY <1>8, <1>9

\* HDEL forgets the failures of a dead letter.
LEMMA PlaceCleared ==
  ASSUME TypeOK, OnePlace, WithinBudget, NEW w \in Workers, pc[w] = "hdel",
         retry' = [retry EXCEPT ![job[w].claim] = 0], UNCHANGED <<queue, dlq>>,
         NEW p \in {"clear", "unwind"}, Goto(w, p)
  PROVE  OnePlace' /\ WithinBudget'
<1> DEFINE c == job[w].claim
<1>1. c \in Range(dlq) /\ c \notin Range(queue)
  BY DEF OnePlace
<1>2. OthersUnchanged(w) /\ pc'[w] = p
  BY ControlFrame
<1>3. \A d : d # c => retry'[d] = retry[d]
  BY DEF TypeOK, StoreTypeOK
<1>4. ASSUME NEW v \in Workers, v # w
      PROVE  /\ (Holding(v)' <=> Holding(v)) /\ job'[v] = job[v] /\ pc'[v] = pc[v]
             /\ Holding(v) => job[v].claim # c
  BY <1>1, <1>2, <1>4 DEF OthersUnchanged, Holding, OnePlace
<1> HIDE DEF c
<1>5. OnePlace'
  BY <1>2, <1>4 DEF OnePlace, Holding
<1>6. WithinBudget'
  <2>1. ASSUME NEW v \in Workers, v # w PROVE BudgetAt(v)'
    BY <1>3, <1>4, <2>1 DEF WithinBudget, BudgetAt, Holding
  <2>2. BudgetAt(w)'
    BY <1>2 DEF BudgetAt
  <2> QED BY <1>1, <1>3, <2>1, <2>2 DEF WithinBudget
<1> QED BY <1>5, <1>6

LEMMA StepPlace ==
  ASSUME TypeOK, OnePlace, WithinBudget, NEW w \in Workers, Step(w), Never("resent")'
  PROVE  OnePlace' /\ WithinBudget'
<1>1. DisruptionsTypeOK /\ "resent" \in AllKinds
  BY DEF TypeOK, AllKinds
<1>2. CASE RPop(w)
  <2>1. PICK o \in RedisWrite :
          /\ Suffer(o)
          /\ queue' = IF Executed(o) THEN DropTail(queue) ELSE queue
          /\ \/ Throws(o) /\ Die(w)
             \/ o = "resent" /\ UNCHANGED <<pc, job>>
             \/ o = "ok" /\ queue = <<>> /\ LoopTop(w)
             \/ o = "ok" /\ queue # <<>> /\ Take(w, Head(queue))
    BY <1>2 DEF RPop
  <2>2. o # "resent" /\ UNCHANGED <<dlq, retry>> /\ pc[w] = "rpop"
    BY <1>1, <1>2, <2>1, NeverBefore DEF RPop
  <2>3. CASE queue # <<>> /\ Executed(o)
    <3>1. queue' = Tail(queue) /\ (Die(w) \/ Take(w, Head(queue)))
      BY <2>1, <2>2, <2>3 DEF DropTail
    <3> QED BY <2>2, <2>3, <3>1, PlaceTaken
  <2>4. CASE queue = <<>> \/ ~Executed(o)
    <3>1. UNCHANGED queue /\ (Die(w) \/ LoopTop(w))
      BY <2>1, <2>2, <2>4 DEF DropTail, Executed
    <3> QED BY <2>2, <3>1, PlaceQuiet
  <2> QED BY <2>3, <2>4
<1>3. CASE Get(w)
  <2>1. /\ pc[w] = "get" /\ UNCHANGED <<queue, dlq, retry>>
        /\ Die(w) \/ LoopTop(w) \/ Goto(w, "load")
    BY <1>3 DEF Get, storeVars, queueVars
  <2> QED BY <2>1, PlaceQuiet
<1>4. CASE Load(w)
  <2>1. /\ pc[w] = "load" /\ UNCHANGED <<queue, dlq, retry>>
        /\ Goto(w, "incr") \/ Goto(w, "clear") \/ StartUpdate(w, "PROCESSING")
    BY <1>4 DEF Load, storeVars, queueVars, Catch
  <2> QED BY <2>1, PlaceQuiet
<1>5. CASE Read(w)
  <2>1. /\ pc[w] = "read" /\ UNCHANGED <<queue, dlq, retry>>
        /\ \/ Goto(w, "incr")
           \/ \E n : /\ pc' = [pc EXCEPT ![w] = "write"]
                     /\ job' = [job EXCEPT ![w].seen = n]
    BY <1>5 DEF Read, storeVars, queueVars, Catch
  <2> QED BY <2>1, PlaceQuiet
<1>6. CASE Write(w)
  <2>1. /\ pc[w] = "write" /\ UNCHANGED <<queue, dlq, retry>>
        /\ Goto(w, "incr") \/ Goto(w, "reload")
    BY <1>6 DEF Write, queueVars, Catch
  <2> QED BY <2>1, PlaceQuiet
<1>7. CASE Reload(w)
  <2>1. /\ pc[w] = "reload" /\ UNCHANGED <<queue, dlq, retry>>
        /\ Goto(w, "incr") \/ Goto(w, "clear") \/ \E s : StartUpdate(w, s)
    BY <1>7 DEF Reload, storeVars, queueVars, Catch
  <2> QED BY <2>1, PlaceQuiet
<1>8. CASE Incr(w)
  <2>1. PICK o \in RedisWrite :
          /\ Suffer(o)
          /\ retry' = IF Executed(o) THEN [retry EXCEPT ![job[w].claim] = @ + 1] ELSE retry
          /\ Goto(w, Resume(o, "incr", "check", "unwind"))
    BY <1>8 DEF Incr
  <2>2. o # "resent" /\ UNCHANGED <<queue, dlq>> /\ pc[w] = "incr"
    BY <1>1, <1>8, <2>1, NeverBefore DEF Incr
  <2>3. CASE Executed(o)
    <3>1. PICK p \in {"check", "unwind"} : Goto(w, p)
      BY <2>1, <2>2 DEF Resume
    <3> QED BY <2>1, <2>2, <2>3, <3>1, PlaceCounted
  <2>4. CASE ~Executed(o)
    <3>1. Goto(w, "unwind") /\ UNCHANGED retry
      BY <2>1, <2>2, <2>4 DEF Resume, Executed
    <3> QED BY <2>2, <3>1, PlaceQuiet
  <2> QED BY <2>3, <2>4
<1>9. CASE Check(w)
  <2>1. UNCHANGED <<queue, dlq, retry>> /\ pc[w] = "check"
    BY <1>9 DEF Check, storeVars, queueVars
  <2>2. CASE Goto(w, "unwind")
    BY <2>1, <2>2, PlaceQuiet
  <2>3. CASE \/ CanRetry(job[w].claim) /\ Goto(w, "requeue")
             \/ ~CanRetry(job[w].claim) /\ Goto(w, "deadletter")
    <3>1. /\ OthersUnchanged(w) /\ job'[w] = job[w]
          /\ \/ CanRetry(job[w].claim) /\ pc'[w] = "requeue"
             \/ ~CanRetry(job[w].claim) /\ pc'[w] = "deadletter"
      BY <2>3, ControlFrame
    <3>2. retry[job[w].claim] \in Nat /\ retry[job[w].claim] <= MaxRetries
      BY <2>1, TypeParts, MidwayClaim DEF Midway, PC, StoreTypeOK, WithinBudget, BudgetAt
    <3>3. BudgetAt(w)'
      BY <2>1, <3>1, <3>2 DEF BudgetAt, CanRetry, MaxRetries
    <3> QED BY <2>1, <3>1, <3>3, PlaceKept DEF Holding
  <2> QED BY <1>9, <2>2, <2>3 DEF Check
<1>10. CASE Requeue(w)
  <2>1. PICK o \in RedisWrite :
          /\ Suffer(o)
          /\ queue' = IF Executed(o) THEN Append(queue, job[w].claim) ELSE queue
          /\ Goto(w, Resume(o, "requeue", "clear", "unwind"))
    BY <1>10 DEF Requeue
  <2>2. o # "resent" /\ UNCHANGED <<dlq, retry>> /\ pc[w] = "requeue"
    BY <1>1, <1>10, <2>1, NeverBefore DEF Requeue
  <2>3. PICK p \in {"clear", "unwind"} : Goto(w, p)
    BY <2>1, <2>2 DEF Resume
  <2>4. CASE Executed(o)
    BY <2>1, <2>2, <2>3, <2>4, PlaceGiven
  <2>5. CASE ~Executed(o)
    BY <2>1, <2>2, <2>3, <2>5, PlaceQuiet
  <2> QED BY <2>4, <2>5
<1>11. CASE DeadLetter(w)
  <2>1. PICK o \in RedisWrite :
          /\ Suffer(o)
          /\ dlq' = IF Executed(o) THEN Append(dlq, job[w].claim) ELSE dlq
          /\ Goto(w, Resume(o, "deadletter", "hdel", "unwind"))
    BY <1>11 DEF DeadLetter
  <2>2. o # "resent" /\ UNCHANGED <<queue, retry>> /\ pc[w] = "deadletter"
    BY <1>1, <1>11, <2>1, NeverBefore DEF DeadLetter
  <2>3. CASE Executed(o)
    <3>1. \E p \in {"hdel", "unwind"} : Goto(w, p)
      BY <2>1, <2>2 DEF Resume
    <3> QED BY <2>1, <2>2, <2>3, <3>1, PlaceGiven
  <2>4. CASE ~Executed(o)
    <3>1. Goto(w, "unwind") /\ UNCHANGED dlq
      BY <2>1, <2>2, <2>4 DEF Resume, Executed
    <3> QED BY <2>2, <3>1, PlaceQuiet
  <2> QED BY <2>3, <2>4
<1>12. CASE HDel(w)
  <2>1. PICK o \in RedisWrite :
          /\ Suffer(o)
          /\ retry' = IF Executed(o) THEN [retry EXCEPT ![job[w].claim] = 0] ELSE retry
          /\ Goto(w, Resume(o, "hdel", "clear", "unwind"))
    BY <1>12 DEF HDel
  <2>2. o # "resent" /\ UNCHANGED <<queue, dlq>> /\ pc[w] = "hdel"
    BY <1>1, <1>12, <2>1, NeverBefore DEF HDel
  <2>3. PICK p \in {"clear", "unwind"} : Goto(w, p)
    BY <2>1, <2>2 DEF Resume
  <2>4. CASE Executed(o)
    BY <2>1, <2>2, <2>3, <2>4, PlaceCleared
  <2>5. CASE ~Executed(o)
    BY <2>1, <2>2, <2>3, <2>5, PlaceQuiet
  <2> QED BY <2>4, <2>5
<1>13. CASE Clear(w)
  <2>1. UNCHANGED <<queue, dlq, retry>> /\ (UNCHANGED <<pc, job>> \/ LoopTop(w) \/ Die(w))
    BY <1>13 DEF Clear
  <2> QED BY <2>1, PlaceQuiet
<1> QED BY <1>2, <1>3, <1>4, <1>5, <1>6, <1>7, <1>8, <1>9, <1>10, <1>11, <1>12, <1>13
        DEF Step

\* Every step counts one disruption at most.
LEMMA NextSuffers ==
  [WorkerNext]_vars => UNCHANGED disruptions \/ \E o : Suffer(o)
BY DEF WorkerNext, vars, Step, RPop, Get, Load, Read, Write, Reload, Incr, Check, Requeue,
       DeadLetter, HDel, Clear, Shutdown, Exit, Crash, Restart, ExpirePayload

LEMMA NextPlace == TypeOK /\ PlaceInv /\ [WorkerNext]_vars => PlaceInv'
<1> SUFFICES ASSUME TypeOK, PlaceInv, [WorkerNext]_vars, Never("resent")'
             PROVE  OnePlace' /\ WithinBudget'
  BY DEF PlaceInv
<1>1. OnePlace /\ WithinBudget
  <2>1. DisruptionsTypeOK /\ "resent" \in AllKinds
    BY DEF TypeOK, AllKinds
  <2>2. Never("resent")
    BY <2>1, NextSuffers, NeverBefore DEF Never
  <2> QED BY <2>2 DEF PlaceInv
<1>2. ASSUME NEW w \in Workers, Step(w) PROVE OnePlace' /\ WithinBudget'
  BY <1>1, <1>2, StepPlace
<1>3. ASSUME NEW w \in Workers, Exit(w) \/ Crash(w) PROVE OnePlace' /\ WithinBudget'
  <2>1. Die(w) /\ UNCHANGED <<queue, dlq, retry>>
    BY <1>3 DEF Exit, Crash, storeVars, queueVars
  <2> QED BY <1>1, <2>1, PlaceQuiet
<1>4. ASSUME NEW w \in Workers, Restart(w) PROVE OnePlace' /\ WithinBudget'
  <2>1. OthersUnchanged(w) /\ pc'[w] = "rpop" /\ UNCHANGED <<queue, dlq, retry>>
    BY <1>4 DEF Restart, OthersUnchanged, storeVars, queueVars, TypeOK, WorkerTypeOK
  <2> QED BY <1>1, <2>1, PlaceKept DEF Holding, BudgetAt
<1>5. CASE UNCHANGED <<queue, dlq, retry, pc, job>>
  <2>1. \A w \in Workers : BudgetAt(w)'
    BY <1>1, <1>5 DEF WithinBudget, BudgetAt
  <2> QED BY <1>1, <1>5, <2>1 DEF OnePlace, WithinBudget, Holding
<1> QED BY <1>2, <1>3, <1>4, <1>5
        DEF WorkerNext, Shutdown, ExpirePayload, vars, workerVars, storeVars, queueVars

LEMMA PlaceCorrect == Spec => []PlaceInv
<1>1. Init => PlaceInv
  BY InitPlace
<1>2. TypeOK /\ PlaceInv /\ [WorkerNext]_vars => PlaceInv'
  BY NextPlace
<1> QED BY <1>1, <1>2, TypeCorrect, PTL DEF Spec

\* Unless a command is repeated, a claim is in one place: once in the queue,
\* with one worker, or once among the dead letters.
THEOREM ClaimsAreInOnePlace == Spec => []AtMostOneCopy
<1>1. PlaceInv => AtMostOneCopy
  <2> SUFFICES ASSUME OnePlace, NEW c \in Claims
               PROVE  /\ Cardinality(Holders(c)) <= 1
                      /\ Holders(c) # {} => c \notin Range(queue) \cup Range(dlq)
                      /\ ~(c \in Range(queue) /\ c \in Range(dlq))
    BY DEF PlaceInv, AtMostOneCopy, OnePlace
  <2>1. Holders(c) = {} \/ \E w : Holders(c) = {w}
    BY DEF OnePlace, Holders
  <2>2. Cardinality(Holders(c)) \in {0, 1}
    <3>1. Cardinality({}) = 0 /\ \A w : Cardinality({w}) = 1
      BY FS_EmptySet, FS_Singleton
    <3> HIDE DEF Holders
    <3> QED BY <2>1, <3>1
  <2>3. Cardinality(Holders(c)) <= 1
    BY <2>2
  <2> QED BY <2>3 DEF OnePlace, Holders
<1> QED BY <1>1, PlaceCorrect, PTL

\* Unless a command is repeated, a claim is queued with fewer than MaxRetries
\* failures, and dead-lettered at exactly that many.
THEOREM RetriesAreWithinBudget == Spec => []RetryBudget
<1>1. PlaceInv => RetryBudget
  BY DEF PlaceInv, RetryBudget, WithinBudget, BudgetAt
<1> QED BY <1>1, PlaceCorrect, PTL

\* Every claim that is lost, or that has no payload any more and will be
\* dropped by the worker that takes it.
Forgotten == Lost \cup (Claims \ payload)

\* Workers that are shutting down: each may still drop one claim, and miss one
\* announcement, and has been counted for it.
Stopping == {w \in Workers : ~isRunning[w] /\ pc[w] # "down"}

LossInv ==
  /\ IsFiniteSet(Stopping)
  /\ Cardinality(Forgotten) + Cardinality(Stopping)
       <= Suffered(AllKinds \ {"dbRefused", "dbUnanswered", "stall"})

CountInv ==
  /\ IsFiniteSet(Unannounced) /\ IsFiniteSet(Announcing) /\ IsFiniteSet(Stopping)
  /\ \A c \in Claims : Len(events[c]) <= row[c].version
  /\ \A w \in Announcing : Len(events[job[w].claim]) < row[job[w].claim].version
  /\ Cardinality(Unannounced) + Cardinality(Stopping)
       <= Cardinality(Announcing) + Suffered({"dbRefused", "dbUnanswered", "crash", "shutdown"})
-----------------------------------------------------------------------------
\* What a disruption can lose.

LossKinds == AllKinds \ {"dbRefused", "dbUnanswered", "stall"}

\* A claim that w gives away, or that nobody has, or that nobody decides.
Kept(c) ==
  \/ c \in Range(queue) \cup Range(dlq)
  \/ \E w \in Workers : Holding(w) /\ job[w].claim = c
  \/ ~Decidable(c)

LEMMA LostIsNotKept == Lost = {c \in Claims : ~Kept(c)}
BY DEF Lost, Kept, Holders

\* A step of w that writes no row makes nobody else lose a claim.
LEMMA OthersKeep ==
  ASSUME NEW w \in Workers, OthersUnchanged(w), NEW c \in Claims, Kept(c),
         Decidable(c)' => Decidable(c),
         c \in Range(queue) => c \in Range(queue'), c \in Range(dlq) => c \in Range(dlq'),
         Holding(w) => job[w].claim # c
  PROVE  Kept(c)'
<1>1. ASSUME NEW v \in Workers, Holding(v), job[v].claim = c
      PROVE  Holding(v)' /\ job'[v].claim = c
  BY <1>1 DEF OthersUnchanged, Holding
<1> QED BY <1>1 DEF Kept

\* The four ways in which a step of w accounts for what it may lose: by losing
\* nothing, by a disruption, or because w has been counted when it was stopped.
Accounted(w, c, o) ==
  /\ Suffer(o)
  /\ \/ Forgotten' \subseteq Forgotten /\ Stopping' \subseteq Stopping
     \/ /\ o \in LossKinds
        /\ Forgotten' \subseteq Forgotten \cup {c} /\ Stopping' \subseteq Stopping
     \/ /\ o \in LossKinds
        /\ Forgotten' \subseteq Forgotten /\ Stopping' \subseteq Stopping \cup {w}
     \/ /\ w \in Stopping /\ Stopping' \subseteq Stopping \ {w}
        /\ Forgotten' \subseteq Forgotten \cup {c}
Accountable(w) == \E c, o : Accounted(w, c, o)

LEMMA LossCounted ==
  ASSUME TypeOK, LossInv, NEW w, Accountable(w)
  PROVE  LossInv'
<1> DEFINE F == Forgotten
           S == Stopping
           G == Forgotten'
           T == Stopping'
           k == Suffered(LossKinds)
<1>1. PICK c, o : Accounted(w, c, o)
  BY DEF Accountable
<1>2. PICK n \in Nat : n = (IF o \in LossKinds THEN 1 ELSE 0)
  OBVIOUS
<1>3. k \in Nat /\ Suffered(LossKinds)' = k + n
  BY <1>1, <1>2, SufferedIsNat, SufferCounts DEF TypeOK, LossKinds, Accounted
<1>4. IsFiniteSet(F) /\ IsFiniteSet(S) /\ Cardinality(F) + Cardinality(S) <= k
  BY ClaimsAssumption, FS_Subset DEF Forgotten, Lost, LossInv, LossKinds
<1>5. \/ G \subseteq F /\ T \subseteq S
      \/ n = 1 /\ G \subseteq F \cup {c} /\ T \subseteq S
      \/ n = 1 /\ G \subseteq F /\ T \subseteq S \cup {w}
      \/ w \in S /\ T \subseteq S \ {w} /\ G \subseteq F \cup {c}
  BY <1>1, <1>2 DEF Accounted
<1> HIDE DEF F, S, G, T, k
<1>6. IsFiniteSet(T) /\ Cardinality(G) + Cardinality(T) <= k + n
  BY <1>3, <1>4, <1>5, AccountKept
<1> QED BY <1>3, <1>6 DEF LossInv, LossKinds, F, S, G, T, k

\* Where a disruption is among those that lose, one claim may be.
LEMMA LossAllowed ==
  ASSUME NEW w, NEW o, Suffer(o), NEW c, Stopping' \subseteq Stopping,
         \/ Forgotten' \subseteq Forgotten
         \/ o \in LossKinds /\ Forgotten' \subseteq Forgotten \cup {c}
  PROVE  Accountable(w)
BY DEF Accountable, Accounted

\* A step of w can make forgotten what w holds, or takes from the queue, only.
LEMMA ForgottenStep ==
  ASSUME NEW w \in Workers, OthersUnchanged(w), NEW c, UNCHANGED payload,
         \A d \in Claims : Decidable(d)' => Decidable(d),
         \A d \in Range(queue) \ {c} : d \in Range(queue'),
         \A d \in Range(dlq) \ {c} : d \in Range(dlq'),
         Holding(w) => job[w].claim = c
  PROVE  /\ Forgotten' \subseteq Forgotten \cup {c}
         /\ c \notin Claims \/ Kept(c)' \/ c \notin payload => Forgotten' \subseteq Forgotten
<1>1. ASSUME NEW d \in Claims, d # c, Kept(d) PROVE Kept(d)'
  BY <1>1, OthersKeep
<1>2. Lost = {d \in Claims : ~Kept(d)} /\ Lost' = {d \in Claims : ~Kept(d)'}
  BY LostIsNotKept DEF Lost, Kept, Holders
<1> QED BY <1>1, <1>2 DEF Forgotten

\* What a step of w leaves alone.
LEMMA StepFrame ==
  ASSUME TypeOK, NEW w \in Workers, Step(w)
  PROVE  /\ OthersUnchanged(w) /\ UNCHANGED <<isRunning, payload>>
         /\ pc[w] # "down"
         /\ Stopping' \subseteq Stopping
         /\ pc'[w] = "down" => Stopping' \subseteq Stopping \ {w}
<1>1. UNCHANGED <<isRunning, payload>> /\ pc[w] # "down"
  BY DEF Step, RPop, Get, Load, Read, Write, Reload, Incr, Check, Requeue, DeadLetter, HDel,
         Clear, storeVars, queueVars
<1>2. OthersUnchanged(w)
  BY StepOthers
<1> QED BY <1>1, <1>2 DEF OthersUnchanged, Stopping

\* Once decided, a claim stays decided.
LEMMA StepDecidable ==
  ASSUME TypeOK, UpdateInv, NEW w \in Workers, Step(w)
  PROVE  \A d \in Claims : Decidable(d)' => Decidable(d)
<1>1. CASE Write(w)
  <2> DEFINE c == job[w].claim
             n == job[w].next
  <2>1. pc[w] = "write"
    BY <1>1 DEF Write
  <2>2. c \in Claims /\ row \in [Claims -> Row]
    BY <2>1, TypeParts, MidwayClaim DEF Midway, PC, StoreTypeOK
  <2>3. \/ row' = row
        \/ /\ row[c].version = job[w].seen /\ Exists(c)
           /\ row' = [row EXCEPT ![c] = [status |-> n, version |-> row[c].version + 1]]
    BY <1>1 DEF Write, Matches
  <2>4. row' # row => Validate(row[c].status, n)
    BY <2>1, <2>3 DEF UpdateInv, ReadsAgree
  <2>5. row' # row => row[c].status \notin Decided \cup {ABSENT}
    BY <2>4 DEF Validate, transitions, Decided, ABSENT
  <2> QED BY <2>2, <2>3, <2>5 DEF Decidable
<1>2. CASE UNCHANGED row
  BY <1>2 DEF Decidable
<1> QED BY <1>1, <1>2
        DEF Step, RPop, Get, Load, Read, Reload, Incr, Check, Requeue, DeadLetter, HDel,
            Clear, storeVars

\* A worker that goes on with its claim, or has given it to a list, or has
\* nothing to decide about it, forgets nothing; one that holds nothing neither.
LEMMA NothingForgotten ==
  ASSUME TypeOK, UpdateInv, NEW w \in Workers, Step(w), NEW o, Suffer(o),
         Range(queue) \subseteq Range(queue'), Range(dlq) \subseteq Range(dlq'),
         NEW c, c = job[w].claim,
         \/ ~Holding(w)
         \/ Holding(w)' /\ job'[w].claim = c
         \/ c \in Range(queue') \cup Range(dlq')
         \/ ~Decidable(c)'
         \/ c \notin payload
  PROVE  Accountable(w)
<1>1. CASE ~Holding(w)
  <2>1. Forgotten' \subseteq Forgotten
    BY <1>1, StepFrame, StepDecidable, ForgottenStep, WorkerAssumption
  <2> QED BY <2>1, StepFrame, LossAllowed
<1>2. CASE Kept(c)' \/ c \notin payload
  <2>1. Forgotten' \subseteq Forgotten
    BY <1>2, StepFrame, StepDecidable, ForgottenStep
  <2> QED BY <2>1, StepFrame, LossAllowed
<1> QED BY <1>1, <1>2 DEF Kept

\* A worker that fails between RPOP and the push that returns the id.
LEMMA OneForgotten ==
  ASSUME TypeOK, UpdateInv, NEW w \in Workers, Step(w), NEW o, Suffer(o),
         o \in LossKinds, UNCHANGED <<queue, dlq>>
  PROVE  Accountable(w)
<1>1. Forgotten' \subseteq Forgotten \cup {job[w].claim}
  BY StepFrame, StepDecidable, ForgottenStep
<1> QED BY <1>1, StepFrame, LossAllowed

\* Whatever a worker does, it accounts for it.
LEMMA StepLoss ==
  ASSUME TypeOK, UpdateInv, NEW w \in Workers, Step(w)
  PROVE  Accountable(w)
<1> DEFINE c == job[w].claim
<1>1. CASE RPop(w)
  <2>1. PICK o \in RedisWrite :
          /\ Suffer(o)
          /\ queue' = IF Executed(o) THEN DropTail(queue) ELSE queue
          /\ \/ Throws(o) /\ Die(w)
             \/ o = "resent" /\ UNCHANGED <<pc, job>>
             \/ o = "ok" /\ queue = <<>> /\ LoopTop(w)
             \/ o = "ok" /\ queue # <<>> /\ Take(w, Head(queue))
    BY <1>1 DEF RPop
  <2>2. pc[w] = "rpop" /\ UNCHANGED <<row, dlq>> /\ ~Holding(w)
    BY <1>1 DEF RPop, Holding
  <2>3. CASE UNCHANGED queue
    BY <2>1, <2>2, <2>3, NothingForgotten
  <2>4. CASE queue # <<>> /\ queue' = Tail(queue)
    <3>1. PICK h \in Claims : h = Head(queue) /\ Range(queue) = Range(queue') \cup {h}
      BY <2>4, HeadRange DEF TypeOK, StoreTypeOK
    <3>2. /\ Forgotten' \subseteq Forgotten \cup {h}
          /\ Kept(h)' => Forgotten' \subseteq Forgotten
      BY <2>2, <3>1, StepFrame, StepDecidable, ForgottenStep
    <3>3. CASE o = "ok"
      <4>1. pc'[w] = "get" /\ job'[w].claim = h
        BY <2>1, <2>4, <3>1, <3>3 DEF Take, Throws, TypeOK, WorkerTypeOK, Job
      <4>2. Holding(w)'
        BY <4>1 DEF Holding
      <4>3. Kept(h)'
        BY <4>1, <4>2 DEF Kept
      <4> QED BY <2>1, <3>2, <4>3, StepFrame, LossAllowed
    <3>4. CASE o # "ok"
      <4>1. o \in LossKinds
        BY <3>4 DEF RedisWrite, LossKinds, AllKinds
      <4> QED BY <2>1, <3>2, <4>1, StepFrame, LossAllowed
    <3> QED BY <3>3, <3>4
  <2> QED BY <2>1, <2>3, <2>4 DEF DropTail
<1>2. CASE Get(w)
  <2>1. PICK o \in RedisRead :
          /\ Suffer(o)
          /\ \/ Throws(o) /\ Die(w)
             \/ ~Throws(o) /\ ~(c \in payload /\ isRunning[w]) /\ LoopTop(w)
             \/ ~Throws(o) /\ (c \in payload /\ isRunning[w]) /\ Goto(w, "load")
    BY <1>2 DEF Get
  <2>2. pc[w] = "get" /\ UNCHANGED <<queue, dlq>>
    BY <1>2 DEF Get, storeVars, queueVars
  <2>3. CASE Throws(o)
    <3>1. o \in LossKinds
      BY <2>3 DEF RedisRead, Throws, LossKinds, AllKinds
    <3> QED BY <2>1, <2>2, <3>1, OneForgotten
  <2>4. CASE c \notin payload
    BY <2>1, <2>2, <2>4, NothingForgotten
  <2>5. CASE ~isRunning[w] /\ LoopTop(w) /\ ~Throws(o)
    <3>1. w \in Stopping /\ pc'[w] = "down"
      BY <2>2, <2>5 DEF Stopping, LoopTop, TypeOK, WorkerTypeOK
    <3>2. Forgotten' \subseteq Forgotten \cup {c}
      BY <2>2, StepFrame, StepDecidable, ForgottenStep
    <3> QED BY <2>1, <3>1, <3>2, StepFrame DEF Accountable, Accounted
  <2>6. CASE Goto(w, "load")
    <3>1. Holding(w)' /\ job'[w] = job[w]
      BY <2>6, ControlFrame DEF Holding
    <3> QED BY <2>1, <2>2, <3>1, NothingForgotten
  <2> QED BY <2>1, <2>3, <2>4, <2>5, <2>6
<1>3. CASE Load(w)
  <2>1. PICK o \in DbRead : Suffer(o)
    BY <1>3 DEF Load
  <2>2. UNCHANGED <<row, queue, dlq>>
    BY <1>3 DEF Load, storeVars, queueVars
  <2>3. CASE Catch(w) \/ StartUpdate(w, "PROCESSING")
    <3>1. Holding(w)' /\ job'[w].claim = c
      BY <2>3, ControlFrame DEF Holding, Catch
    <3> QED BY <2>1, <2>2, <3>1, NothingForgotten
  <2>4. CASE row[c].status \in Decided
    <3>1. \A d : d = c => ~Decidable(d)'
      BY <2>2, <2>4 DEF Decidable
    <3> QED BY <2>1, <2>2, <3>1, NothingForgotten
  <2> QED BY <1>3, <2>3, <2>4 DEF Load
<1>4. CASE Read(w)
  <2>1. PICK o \in DbRead : Suffer(o)
    BY <1>4 DEF Read
  <2>2. /\ UNCHANGED <<queue, dlq>>
        /\ \/ Catch(w)
           \/ /\ pc' = [pc EXCEPT ![w] = "write"]
              /\ job' = [job EXCEPT ![w].seen = row[c].version]
    BY <1>4 DEF Read, storeVars, queueVars
  <2>3. Holding(w)' /\ job'[w].claim = c
    <3>1. CASE Catch(w)
      BY <3>1, ControlFrame DEF Holding, Catch
    <3>2. CASE /\ pc' = [pc EXCEPT ![w] = "write"]
               /\ job' = [job EXCEPT ![w].seen = row[c].version]
      BY <3>2 DEF Holding, TypeOK, WorkerTypeOK, Job
    <3> QED BY <2>2, <3>1, <3>2
  <2> QED BY <2>1, <2>2, <2>3, NothingForgotten
<1>5. CASE Write(w)
  <2>1. PICK o \in DbWrite : Suffer(o)
    BY <1>5 DEF Write
  <2>2. UNCHANGED <<queue, dlq>> /\ (Catch(w) \/ Goto(w, "reload"))
    BY <1>5 DEF Write, queueVars
  <2>3. Holding(w)' /\ job'[w].claim = c
    BY <2>2, ControlFrame DEF Holding, Catch
  <2> QED BY <2>1, <2>2, <2>3, NothingForgotten
<1>6. CASE Reload(w)
  <2>1. PICK o \in DbRead : Suffer(o)
    BY <1>6 DEF Reload
  <2>2. /\ pc[w] = "reload" /\ UNCHANGED <<row, queue, dlq>>
        /\ \/ Catch(w) \/ \E s : StartUpdate(w, s)
           \/ job[w].next \in Decided
    BY <1>6 DEF Reload, storeVars, queueVars
  <2>3. CASE Catch(w) \/ \E s : StartUpdate(w, s)
    <3>1. Holding(w)' /\ job'[w].claim = c
      BY <2>3, ControlFrame DEF Holding, Catch
    <3> QED BY <2>1, <2>2, <3>1, NothingForgotten
  <2>4. CASE job[w].next \in Decided
    <3>1. row[c].status \in Decided \cup {ABSENT}
      BY <2>2, <2>4 DEF UpdateInv, OwnersAgree, Owns
    <3>2. \A d : d = c => ~Decidable(d)'
      BY <2>2, <3>1 DEF Decidable
    <3> QED BY <2>1, <2>2, <3>2, NothingForgotten
  <2> QED BY <2>2, <2>3, <2>4
<1>7. CASE Incr(w)
  <2>1. PICK o \in RedisWrite : Suffer(o) /\ Goto(w, Resume(o, "incr", "check", "unwind"))
    BY <1>7 DEF Incr
  <2>2. UNCHANGED <<queue, dlq>>
    BY <1>7 DEF Incr
  <2>3. CASE o \in LossKinds
    BY <2>1, <2>2, <2>3, OneForgotten
  <2>4. CASE o = "ok"
    <3>1. Holding(w)' /\ job'[w].claim = c
      BY <2>1, <2>4, ControlFrame DEF Holding, Resume
    <3> QED BY <2>1, <2>2, <3>1, NothingForgotten
  <2> QED BY <2>1, <2>3, <2>4 DEF RedisWrite, LossKinds, AllKinds
<1>8. CASE Check(w)
  <2>1. PICK o \in RedisRead :
          /\ Suffer(o)
          /\ \/ Throws(o)
             \/ Goto(w, "requeue") \/ Goto(w, "deadletter")
    BY <1>8 DEF Check
  <2>2. UNCHANGED <<queue, dlq>>
    BY <1>8 DEF Check, storeVars, queueVars
  <2>3. CASE Throws(o)
    <3>1. o \in LossKinds
      BY <2>3 DEF RedisRead, Throws, LossKinds, AllKinds
    <3> QED BY <2>1, <2>2, <3>1, OneForgotten
  <2>4. CASE Goto(w, "requeue") \/ Goto(w, "deadletter")
    <3>1. Holding(w)' /\ job'[w].claim = c
      BY <2>4, ControlFrame DEF Holding
    <3> QED BY <2>1, <2>2, <3>1, NothingForgotten
  <2> QED BY <2>1, <2>3, <2>4
<1>9. CASE Requeue(w)
  <2>1. PICK o \in RedisWrite :
          /\ Suffer(o)
          /\ queue' = IF Executed(o) THEN Append(queue, c) ELSE queue
    BY <1>9 DEF Requeue
  <2>2. UNCHANGED dlq /\ c \in Claims /\ queue \in Seq(Claims)
    BY <1>9, TypeParts, MidwayClaim DEF Requeue, Midway, PC, StoreTypeOK
  <2>3. CASE Executed(o)
    <3>1. Range(queue') = Range(queue) \cup {c}
      <4> HIDE DEF c
      <4> QED BY <2>1, <2>2, <2>3, AppendRange
    <3> QED BY <2>1, <2>2, <3>1, NothingForgotten
  <2>4. CASE ~Executed(o)
    <3>1. o \in LossKinds
      BY <2>4 DEF RedisWrite, Executed, LossKinds, AllKinds
    <3> QED BY <2>1, <2>2, <2>4, <3>1, OneForgotten
  <2> QED BY <2>3, <2>4
<1>10. CASE DeadLetter(w)
  <2>1. PICK o \in RedisWrite :
          /\ Suffer(o)
          /\ dlq' = IF Executed(o) THEN Append(dlq, c) ELSE dlq
    BY <1>10 DEF DeadLetter
  <2>2. UNCHANGED queue /\ c \in Claims /\ dlq \in Seq(Claims)
    BY <1>10, TypeParts, MidwayClaim DEF DeadLetter, Midway, PC, StoreTypeOK
  <2>3. CASE Executed(o)
    <3>1. Range(dlq') = Range(dlq) \cup {c}
      <4> HIDE DEF c
      <4> QED BY <2>1, <2>2, <2>3, AppendRange
    <3> QED BY <2>1, <2>2, <3>1, NothingForgotten
  <2>4. CASE ~Executed(o)
    <3>1. o \in LossKinds
      BY <2>4 DEF RedisWrite, Executed, LossKinds, AllKinds
    <3> QED BY <2>1, <2>2, <2>4, <3>1, OneForgotten
  <2> QED BY <2>3, <2>4
<1>11. CASE HDel(w) \/ Clear(w)
  <2>1. PICK o \in RedisWrite : Suffer(o)
    BY <1>11 DEF HDel, Clear
  <2>2. UNCHANGED <<queue, dlq>> /\ ~Holding(w)
    BY <1>11 DEF HDel, Clear, Holding
  <2> QED BY <2>1, <2>2, NothingForgotten
<1> QED BY <1>1, <1>2, <1>3, <1>4, <1>5, <1>6, <1>7, <1>8, <1>9, <1>10, <1>11 DEF Step

LEMMA InitLoss == Init => LossInv
<1> SUFFICES ASSUME Init PROVE LossInv
  OBVIOUS
<1>1. \A c \in Claims : c \in Range(queue)
  <2>1. queue \in Surjection(1..Cardinality(Claims), Claims)
    BY DEF Init, Bijection
  <2> QED BY <2>1 DEF Surjection, Range
<1>2. Forgotten = {}
  BY <1>1 DEF Init, Forgotten, Lost
<1>3. Stopping = {}
  BY DEF Init, WorkerInit, Stopping
<1>4. Suffered(LossKinds) = 0
  BY NothingSuffered DEF Init, LossKinds
<1>5. IsFiniteSet({}) /\ Cardinality({}) = 0
  BY FS_EmptySet
<1> QED BY <1>2, <1>3, <1>4, <1>5 DEF LossInv, LossKinds

\* So do the beginning and the end of its process.
LEMMA ProcessLoss ==
  ASSUME TypeOK, UpdateInv, NEW w \in Workers,
         Step(w) \/ Shutdown(w) \/ Exit(w) \/ Crash(w) \/ Restart(w)
  PROVE  Accountable(w) /\ UNCHANGED payload
<1>1. CASE Step(w)
  BY <1>1, StepLoss, StepFrame
<1>2. CASE Shutdown(w)
  <2>1. Suffer("shutdown") /\ "shutdown" \in LossKinds
    BY <1>2 DEF Shutdown, LossKinds, AllKinds
  <2>2. UNCHANGED <<storeVars, pc, job>> /\ isRunning' = [isRunning EXCEPT ![w] = FALSE]
    BY <1>2 DEF Shutdown
  <2>3. Forgotten' = Forgotten
    BY <2>2 DEF Forgotten, Lost, Holders, Holding, Decidable, storeVars, queueVars
  <2>4. Stopping' \subseteq Stopping \cup {w}
    BY <2>2 DEF Stopping, TypeOK, WorkerTypeOK
  <2> QED BY <2>1, <2>2, <2>3, <2>4 DEF Accountable, Accounted, storeVars, queueVars
<1>3. CASE Exit(w) \/ Crash(w)
  <2>1. /\ Die(w) /\ UNCHANGED <<storeVars, isRunning>> /\ pc[w] # "down"
        /\ OthersUnchanged(w) /\ pc'[w] = "down"
    BY <1>3, ControlFrame DEF Exit, Crash, Die, TypeOK, WorkerTypeOK
  <2>2. Stopping' \subseteq Stopping \ {w}
    BY <2>1 DEF OthersUnchanged, Stopping
  <2>3. Forgotten' \subseteq Forgotten \cup {job[w].claim}
    BY <2>1, ForgottenStep DEF Decidable, storeVars, queueVars
  <2>4. CASE Exit(w)
    <3>1. w \in Stopping /\ Suffer("ok")
      BY <2>1, <2>4 DEF Exit, Stopping, Suffer
    <3> QED BY <2>1, <2>2, <2>3, <3>1 DEF Accountable, Accounted, storeVars, queueVars
  <2>5. CASE Crash(w)
    <3>1. Suffer("crash") /\ "crash" \in LossKinds
      BY <2>5 DEF Crash, LossKinds, AllKinds
    <3> QED BY <2>1, <2>2, <2>3, <3>1, LossAllowed DEF storeVars, queueVars
  <2> QED BY <1>3, <2>4, <2>5
<1>4. CASE Restart(w)
  <2>1. /\ OthersUnchanged(w) /\ UNCHANGED storeVars /\ ~Holding(w) /\ Suffer("ok")
        /\ \A v \in Workers : isRunning'[v] = IF v = w THEN TRUE ELSE isRunning[v]
    BY <1>4 DEF Restart, OthersUnchanged, Holding, Suffer, TypeOK, WorkerTypeOK
  <2>2. Forgotten' \subseteq Forgotten
    BY <2>1, WorkerAssumption, ForgottenStep DEF Decidable, storeVars, queueVars
  <2>3. Stopping' \subseteq Stopping
    BY <2>1 DEF OthersUnchanged, Stopping
  <2> QED BY <2>1, <2>2, <2>3, LossAllowed DEF storeVars, queueVars
<1> QED BY <1>1, <1>2, <1>3, <1>4

LEMMA NextLoss == TypeOK /\ UpdateInv /\ LossInv /\ [WorkerNext]_vars => LossInv'
<1> SUFFICES ASSUME TypeOK, UpdateInv, LossInv, [WorkerNext]_vars PROVE LossInv'
  OBVIOUS
<1>1. ASSUME NEW w \in Workers,
             Step(w) \/ Shutdown(w) \/ Exit(w) \/ Crash(w) \/ Restart(w)
      PROVE  LossInv'
  BY <1>1, ProcessLoss, LossCounted
<1>2. ASSUME NEW c \in Claims, ExpirePayload(c) PROVE LossInv'
  <2>1. Forgotten' \subseteq Forgotten \cup {c}
    BY <1>2 DEF ExpirePayload, Forgotten, Lost, Holders, Holding, Decidable, workerVars
  <2>2. Stopping' \subseteq Stopping /\ Suffer("expired") /\ "expired" \in LossKinds
    BY <1>2 DEF ExpirePayload, Stopping, workerVars, LossKinds, AllKinds
  <2> QED BY <2>1, <2>2, LossAllowed, LossCounted
<1>3. CASE UNCHANGED vars
  <2>1. Forgotten' = Forgotten /\ Stopping' = Stopping
    BY <1>3 DEF vars, storeVars, queueVars, workerVars, Forgotten, Lost, Holders, Holding,
                Decidable, Stopping
  <2>2. Suffer("ok")
    BY <1>3 DEF vars, Suffer
  <2> QED BY <2>1, <2>2, LossAllowed, LossCounted
<1> QED BY <1>1, <1>2, <1>3 DEF WorkerNext

\* A failure of the database never loses a claim, and every other disruption
\* loses one at most: for any number of workers, claims and disruptions.
THEOREM LossIsBounded == Spec => []LossBounded
<1>1. Init => LossInv
  BY InitLoss
<1>2. TypeOK /\ UpdateInv /\ LossInv /\ [WorkerNext]_vars => LossInv'
  BY NextLoss
<1>3. TypeOK /\ LossInv => LossBounded
  <2> SUFFICES ASSUME TypeOK, LossInv PROVE LossBounded
    OBVIOUS
  <2>1. IsFiniteSet(Forgotten) /\ IsFiniteSet(Stopping)
    BY ClaimsAssumption, FS_Subset DEF Forgotten, Lost, LossInv
  <2>2. IsFiniteSet(Lost) /\ Cardinality(Lost) <= Cardinality(Forgotten)
    BY <2>1, FS_Subset DEF Forgotten
  <2>3. Cardinality(Forgotten) \in Nat /\ Cardinality(Stopping) \in Nat
        /\ Cardinality(Lost) \in Nat
    BY <2>1, <2>2, FS_CardinalityType
  <2>4. Suffered(LossKinds) \in Nat
    BY SufferedIsNat DEF TypeOK, LossKinds
  <2> QED BY <2>2, <2>3, <2>4 DEF LossInv, LossBounded, LossKinds
<1> QED BY <1>1, <1>2, <1>3, TypeCorrect, UpdatesAgree, PTL DEF Spec

-----------------------------------------------------------------------------
\* What a disruption can leave uncounted.

CountKinds == {"dbRefused", "dbUnanswered", "crash", "shutdown"}

\* The ways in which a step accounts for an update that is not announced yet.
LEMMA UpdatesCounted ==
  ASSUME TypeOK, CountInv, NEW n \in Nat, NEW w, NEW x,
         Suffered(CountKinds)' = Suffered(CountKinds) + n,
         \/ /\ Unannounced' \subseteq Unannounced /\ Stopping' \subseteq Stopping
            /\ Announcing' = Announcing
         \/ /\ Unannounced' \subseteq Unannounced \cup {x} /\ Stopping' \subseteq Stopping
            /\ w \notin Announcing /\ Announcing' = Announcing \cup {w}
         \/ /\ Unannounced' \subseteq Unannounced \cup {x} /\ Stopping' \subseteq Stopping
            /\ Announcing' = Announcing /\ n = 1
         \/ /\ x \in Unannounced /\ Unannounced' \subseteq Unannounced \ {x}
            /\ Stopping' \subseteq Stopping /\ Announcing' = Announcing \ {w}
         \/ /\ Unannounced' \subseteq Unannounced /\ Stopping' \subseteq Stopping
            /\ Announcing' = Announcing \ {w} /\ n = 1
         \/ /\ Unannounced' \subseteq Unannounced /\ Stopping' \subseteq Stopping \cup {w}
            /\ Announcing' = Announcing /\ n = 1
         \/ /\ Unannounced' \subseteq Unannounced
            /\ w \in Stopping /\ Stopping' \subseteq Stopping \ {w}
            /\ Announcing' = Announcing \ {w}
  PROVE  /\ IsFiniteSet(Unannounced') /\ IsFiniteSet(Announcing') /\ IsFiniteSet(Stopping')
         /\ Cardinality(Unannounced') + Cardinality(Stopping')
              <= Cardinality(Announcing') + Suffered(CountKinds)'
<1> DEFINE U == Unannounced
           V == Unannounced'
           S == Stopping
           T == Stopping'
           A == Announcing
           B == Announcing'
           k == Suffered(CountKinds)
<1>1. IsFiniteSet(U) /\ IsFiniteSet(S) /\ IsFiniteSet(A)
  BY DEF CountInv
<1>2. k \in Nat /\ Suffered(CountKinds)' = k + n
  BY SufferedIsNat DEF TypeOK, CountKinds, AllKinds
<1>3. Cardinality(U) + Cardinality(S) <= Cardinality(A) + k
  BY DEF CountInv, CountKinds
<1> HIDE DEF U, V, S, T, A, B, k
<1>4. /\ V \subseteq U \cup {x} /\ T \subseteq S \cup {w} /\ B \subseteq A \cup {w}
      /\ A \subseteq B \cup {w}
  BY DEF U, V, S, T, A, B
<1>5. /\ IsFiniteSet(V) /\ IsFiniteSet(T) /\ IsFiniteSet(B)
      /\ Cardinality(U) \in Nat /\ Cardinality(S) \in Nat /\ Cardinality(A) \in Nat
      /\ Cardinality(V) \in Nat /\ Cardinality(T) \in Nat /\ Cardinality(B) \in Nat
      /\ Cardinality(V) <= Cardinality(U) + 1
      /\ Cardinality(T) <= Cardinality(S) + 1
  BY <1>1, <1>4, CardinalityChange
<1>6. Cardinality(B) >= Cardinality(A) - 1
  <2>1. Cardinality(A) <= Cardinality(B) + 1
    BY <1>4, <1>5, CardinalityChange
  <2> QED BY <1>5, <2>1
<1>7. /\ V \subseteq U => Cardinality(V) <= Cardinality(U)
      /\ T \subseteq S => Cardinality(T) <= Cardinality(S)
      /\ V \subseteq U \ {x} /\ x \in U => Cardinality(V) <= Cardinality(U) - 1
      /\ T \subseteq S \ {w} /\ w \in S => Cardinality(T) <= Cardinality(S) - 1
  BY <1>1, CardinalityChange
<1>8. w \notin A /\ B = A \cup {w} => Cardinality(B) = Cardinality(A) + 1
  BY <1>1, FS_AddElement
<1>9. Cardinality(V) + Cardinality(T) <= Cardinality(B) + k + n
  <2>1. CASE V \subseteq U /\ T \subseteq S /\ B = A
    BY <1>2, <1>3, <1>5, <1>7, <2>1
  <2>2. CASE T \subseteq S /\ w \notin A /\ B = A \cup {w}
    BY <1>2, <1>3, <1>5, <1>7, <1>8, <2>2
  <2>3. CASE T \subseteq S /\ B = A /\ n = 1
    BY <1>2, <1>3, <1>5, <1>7, <2>3
  <2>4. CASE x \in U /\ V \subseteq U \ {x} /\ T \subseteq S
    BY <1>2, <1>3, <1>5, <1>6, <1>7, <2>4
  <2>5. CASE V \subseteq U /\ T \subseteq S /\ n = 1
    BY <1>2, <1>3, <1>5, <1>6, <1>7, <2>5
  <2>6. CASE V \subseteq U /\ B = A /\ n = 1
    BY <1>2, <1>3, <1>5, <1>7, <2>6
  <2>7. CASE V \subseteq U /\ w \in S /\ T \subseteq S \ {w}
    BY <1>2, <1>3, <1>5, <1>6, <1>7, <2>7
  <2> QED BY <2>1, <2>2, <2>3, <2>4, <2>5, <2>6, <2>7 DEF U, V, S, T, A, B
<1>10. Cardinality(V) + Cardinality(T) <= Cardinality(B) + (k + n)
  BY <1>2, <1>5, <1>9
<1> QED BY <1>2, <1>5, <1>10 DEF U, V, S, T, A, B, k

LEMMA UnannouncedElements ==
  /\ \A c, v : <<c, v>> \in Unannounced
                 <=> c \in Claims /\ v \in Len(events[c]) + 1 .. row[c].version
  /\ \A c, v : <<c, v>> \in Unannounced'
                 <=> c \in Claims /\ v \in Len(events'[c]) + 1 .. row'[c].version
  /\ \A x \in Unannounced' : \E c, v : x = <<c, v>>
BY DEF Unannounced

\* A step that writes and announces nothing.
LEMMA CountQuiet ==
  ASSUME TypeOK, CountInv, NEW w, NEW o, Suffer(o), UNCHANGED <<row, events>>,
         Stopping' \subseteq Stopping,
         \/ Announcing' = Announcing
         \/ Announcing' = Announcing \ {w} /\ o \in CountKinds,
         \A v \in Announcing' : job'[v] = job[v]
  PROVE  CountInv'
<1>1. Unannounced' = Unannounced
  BY DEF Unannounced
<1>2. PICK n \in Nat : n = IF o \in CountKinds THEN 1 ELSE 0
  OBVIOUS
<1>3. Suffered(CountKinds)' = Suffered(CountKinds) + n
  BY <1>2, SufferCounts DEF TypeOK, CountKinds, AllKinds
<1>4. /\ IsFiniteSet(Unannounced') /\ IsFiniteSet(Announcing') /\ IsFiniteSet(Stopping')
      /\ Cardinality(Unannounced') + Cardinality(Stopping')
           <= Cardinality(Announcing') + Suffered(CountKinds)'
  BY <1>1, <1>2, <1>3, UpdatesCounted
<1>5. Announcing' \subseteq Announcing
  OBVIOUS
<1> QED BY <1>4, <1>5 DEF CountInv, CountKinds

\* An update that is committed is to be announced, or failed.
LEMMA WriteCount ==
  ASSUME TypeOK, CountInv, NEW w \in Workers, Write(w)
  PROVE  CountInv'
<1>1. PICK o \in DbWrite :
        /\ Suffer(o)
        /\ LET c == job[w].claim
               updated == Executed(o) /\ Matches(c, job[w].seen)
           IN  /\ row' = IF updated
                         THEN [row EXCEPT ![c] = [status  |-> job[w].next,
                                                  version |-> @.version + 1]]
                         ELSE row
               /\ \/ (Throws(o) \/ ~updated) /\ Catch(w)
                  \/ ~Throws(o) /\ updated /\ Goto(w, "reload")
  BY DEF Write
<1>2. /\ pc[w] = "write" /\ UNCHANGED events /\ Stopping' \subseteq Stopping
      /\ OthersUnchanged(w)
  BY StepFrame DEF Write, Step
<1>3. PICK c \in Claims : c = job[w].claim
  BY <1>2, TypeParts, MidwayClaim DEF Midway, PC
<1>4. PICK k \in Nat : k = row[c].version
  BY DEF TypeOK, StoreTypeOK, Row
<1>5. PICK m \in Nat : m = Len(events[c])
  BY DEF TypeOK, WorkerTypeOK
<1>6. w \notin Announcing
  BY <1>2 DEF Announcing
<1>7. CASE row' = row /\ Catch(w)
  <2>1. pc'[w] = "incr"
    BY <1>7, ControlFrame DEF Catch
  <2>2. Announcing' = Announcing /\ \A v \in Announcing' : job'[v] = job[v]
    BY <1>2, <1>6, <2>1 DEF Announcing, OthersUnchanged
  <2> QED BY <1>1, <1>2, <1>7, <2>2, CountQuiet
<1>8. CASE /\ row' = [row EXCEPT ![c] = [status  |-> job[w].next, version |-> k + 1]]
           /\ (Catch(w) /\ o \in CountKinds) \/ Goto(w, "reload")
  <2>1. /\ job'[w] = job[w]
        /\ pc'[w] = "reload" \/ (pc'[w] = "incr" /\ o \in CountKinds)
    BY <1>8, ControlFrame DEF Catch
  <2>2. row'[c].version = k + 1 /\ \A d \in Claims \ {c} : row'[d] = row[d]
    BY <1>8 DEF TypeOK, StoreTypeOK
  <2>3. Unannounced' \subseteq Unannounced \cup {<<c, k + 1>>}
    <3>1. ASSUME NEW d, NEW v, <<d, v>> \in Unannounced', <<d, v>> # <<c, k + 1>>
          PROVE  <<d, v>> \in Unannounced
      <4>1. d \in Claims /\ v \in Len(events[d]) + 1 .. row'[d].version
        BY <1>2, <3>1, UnannouncedElements
      <4>2. CASE d = c
        <5>1. v \in m + 1 .. k + 1 /\ v # k + 1
          BY <1>5, <2>2, <3>1, <4>1, <4>2
        <5>2. v \in m + 1 .. k
          BY <5>1
        <5> QED BY <1>4, <1>5, <4>1, <4>2, <5>2, UnannouncedElements
      <4>3. CASE d # c
        BY <2>2, <4>1, <4>3, UnannouncedElements
      <4> QED BY <4>2, <4>3
    <3> QED BY <3>1, UnannouncedElements
  <2>4. \A v \in Announcing' : v = w \/ (v \in Announcing /\ job'[v] = job[v])
    BY <1>2 DEF Announcing, OthersUnchanged
  <2>5. PICK n \in Nat : n = IF o \in CountKinds THEN 1 ELSE 0
    OBVIOUS
  <2>6. Suffered(CountKinds)' = Suffered(CountKinds) + n
    BY <1>1, <2>5, SufferCounts DEF TypeOK, CountKinds, AllKinds
  <2>7. \/ Announcing' = Announcing \cup {w}
        \/ Announcing' = Announcing /\ n = 1
    BY <1>2, <1>6, <2>1, <2>5 DEF Announcing, OthersUnchanged
  <2>8. /\ IsFiniteSet(Unannounced') /\ IsFiniteSet(Announcing') /\ IsFiniteSet(Stopping')
        /\ Cardinality(Unannounced') + Cardinality(Stopping')
             <= Cardinality(Announcing') + Suffered(CountKinds)'
    BY <1>2, <1>6, <2>3, <2>5, <2>6, <2>7, UpdatesCounted
  <2>9. m <= k
    BY <1>4, <1>5 DEF CountInv
  <2>10. \A d \in Claims : Len(events'[d]) <= row'[d].version
    BY <1>2, <1>4, <1>5, <2>2, <2>9 DEF CountInv
  <2>11. \A v \in Announcing' : Len(events'[job'[v].claim]) < row'[job'[v].claim].version
    <3> SUFFICES ASSUME NEW v \in Announcing'
                 PROVE  Len(events[job'[v].claim]) < row'[job'[v].claim].version
      BY <1>2
    <3>1. CASE job'[v].claim = c /\ v = w
      BY <1>4, <1>5, <2>2, <2>9, <3>1
    <3>2. CASE v # w
      <4>1. v \in Announcing /\ job'[v] = job[v] /\ job[v].claim \in Claims
            /\ Len(events[job[v].claim]) < row[job[v].claim].version
        BY <2>4, <3>2, TypeParts, MidwayClaim DEF CountInv, Announcing, Midway, PC
      <4>2. CASE job[v].claim = c
        BY <1>4, <1>5, <2>2, <4>1, <4>2
      <4>3. CASE job[v].claim # c
        BY <2>2, <4>1, <4>3
      <4> QED BY <4>2, <4>3
    <3> QED BY <1>3, <2>1, <3>1, <3>2
  <2> QED BY <2>8, <2>10, <2>11 DEF CountInv, CountKinds
<1>9. \/ row' = row /\ Catch(w)
      \/ /\ row' = [row EXCEPT ![c] = [status  |-> job[w].next, version |-> k + 1]]
         /\ (Catch(w) /\ o \in CountKinds) \/ Goto(w, "reload")
  <2>1. Executed(o) /\ Throws(o) => o \in CountKinds
    BY DEF DbWrite, Executed, Throws, CountKinds
  <2> QED BY <1>1, <1>3, <1>4, <2>1
<1> QED BY <1>7, <1>8, <1>9

\* An announcement is counted for one of the updates made.
LEMMA ReloadCount ==
  ASSUME TypeOK, ExclusiveUpdate, CountInv, NEW w \in Workers, Reload(w)
  PROVE  CountInv'
<1>1. PICK o \in DbRead :
        /\ Suffer(o)
        /\ LET c == job[w].claim
               s == job[w].next
           IN  \/ Throws(o) /\ Catch(w) /\ UNCHANGED events
               \/ /\ ~Throws(o)
                  /\ Announce(c, s)
                  /\ \/ s \in Decided /\ Goto(w, "clear")
                     \/ s \notin Decided /\ StartUpdate(w, Following(c, s))
  BY DEF Reload
<1>2. /\ pc[w] = "reload" /\ UNCHANGED row /\ Stopping' \subseteq Stopping
      /\ OthersUnchanged(w) /\ w \in Announcing
  BY StepFrame DEF Reload, Step, storeVars, Announcing
<1>3. PICK c \in Claims : c = job[w].claim
  BY <1>2, TypeParts, MidwayClaim DEF Midway, PC
<1>4. pc'[w] # "reload"
  BY <1>1, ControlFrame DEF Catch
<1>5. /\ Announcing' = Announcing \ {w}
      /\ \A v \in Announcing' : job'[v] = job[v]
  BY <1>2, <1>4 DEF Announcing, OthersUnchanged
<1>6. CASE Throws(o) /\ UNCHANGED events
  <2>1. o \in CountKinds
    BY <1>6 DEF DbRead, Throws, CountKinds
  <2> QED BY <1>1, <1>2, <1>5, <1>6, <2>1, CountQuiet
<1>7. CASE events' = [events EXCEPT ![c] = Append(@, job[w].next)]
  <2>1. PICK m \in Nat : m = Len(events[c])
    BY DEF TypeOK, WorkerTypeOK
  <2>2. PICK k \in Nat : k = row[c].version
    BY DEF TypeOK, StoreTypeOK, Row
  <2>3. m < k
    BY <1>2, <1>3, <2>1, <2>2 DEF CountInv
  <2>4. Len(events'[c]) = m + 1 /\ \A d \in Claims \ {c} : events'[d] = events[d]
    <3>1. /\ events \in [Claims -> Seq(Status)] /\ job[w].next \in Status
          /\ events[c] \in Seq(Status)
      BY <1>2, TypeParts, MidwayClaim DEF Midway, PC
    <3>2. events'[c] = Append(events[c], job[w].next)
      BY <1>7, <3>1
    <3> QED BY <1>7, <2>1, <3>1, <3>2
  <2>5. <<c, m + 1>> \in Unannounced /\ Unannounced' \subseteq Unannounced \ {<<c, m + 1>>}
    <3>1. m + 1 \in m + 1 .. k
      BY <2>3
    <3>2. <<c, m + 1>> \in Unannounced
      BY <2>1, <2>2, <3>1, UnannouncedElements
    <3>3. ASSUME NEW d, NEW v, <<d, v>> \in Unannounced'
          PROVE  <<d, v>> \in Unannounced /\ <<d, v>> # <<c, m + 1>>
      <4>1. d \in Claims /\ v \in Len(events'[d]) + 1 .. row[d].version
        BY <1>2, <3>3, UnannouncedElements
      <4>2. CASE d = c
        <5>1. v \in m + 1 + 1 .. k
          BY <2>2, <2>4, <4>1, <4>2
        <5>2. v \in m + 1 .. k /\ v # m + 1
          BY <5>1
        <5> QED BY <2>1, <2>2, <4>1, <4>2, <5>2, UnannouncedElements
      <4>3. CASE d # c
        BY <2>4, <4>1, <4>3, UnannouncedElements
      <4> QED BY <4>2, <4>3
    <3> QED BY <3>2, <3>3, UnannouncedElements
  <2>6. PICK n \in Nat : Suffered(CountKinds)' = Suffered(CountKinds) + n
    <3>1. Suffered(CountKinds)' = Suffered(CountKinds) + (IF o \in CountKinds THEN 1 ELSE 0)
      BY <1>1, SufferCounts DEF TypeOK, CountKinds, AllKinds
    <3> QED BY <3>1
  <2>7. /\ IsFiniteSet(Unannounced') /\ IsFiniteSet(Announcing') /\ IsFiniteSet(Stopping')
        /\ Cardinality(Unannounced') + Cardinality(Stopping')
             <= Cardinality(Announcing') + Suffered(CountKinds)'
    BY <1>2, <1>5, <2>5, <2>6, UpdatesCounted
  <2>8. \A d \in Claims : Len(events'[d]) <= row'[d].version
    BY <1>2, <2>1, <2>2, <2>3, <2>4 DEF CountInv
  <2>9. \A v \in Announcing' : Len(events'[job'[v].claim]) < row'[job'[v].claim].version
    <3> SUFFICES ASSUME NEW v \in Announcing'
                 PROVE  Len(events'[job[v].claim]) < row[job[v].claim].version
      BY <1>2, <1>5
    <3>1. v \in Announcing /\ v # w /\ job[v].claim \in Claims
      BY <1>5, TypeParts, MidwayClaim DEF Announcing, Midway, PC
    <3>2. job[v].claim # c
      BY <1>2, <1>3, <3>1 DEF ExclusiveUpdate, OneOwner, Owns, Announcing
    <3> QED BY <2>4, <3>1, <3>2 DEF CountInv
  <2> QED BY <2>7, <2>8, <2>9 DEF CountInv, CountKinds
<1> QED BY <1>1, <1>3, <1>6, <1>7 DEF Announce


\* A step of a worker that neither commits nor announces.
LEMMA QuietStepCount ==
  ASSUME TypeOK, CountInv, NEW w \in Workers, Step(w), ~Write(w), ~Reload(w)
  PROVE  CountInv'
<1>1. \E o : Suffer(o)
  BY DEF Step, RPop, Get, Load, Read, Incr, Check, Requeue, DeadLetter, HDel, Clear
<1>2. UNCHANGED <<row, events>> /\ pc[w] \notin {"write", "reload"}
  BY DEF Step, RPop, Get, Load, Read, Incr, Check, Requeue, DeadLetter, HDel, Clear, storeVars
<1>3. \/ UNCHANGED <<pc, job>> \/ Die(w) \/ LoopTop(w)
      \/ \E p : p # "reload" /\ Goto(w, p)
      \/ \E s : StartUpdate(w, s)
      \/ \E d : Take(w, d)
      \/ pc' = [pc EXCEPT ![w] = "write"]
  <2>1. CASE RPop(w) \/ Get(w) \/ Load(w) \/ Read(w) \/ Check(w) \/ Clear(w)
    BY <2>1 DEF RPop, Get, Load, Read, Check, Clear, Catch
  <2>2. CASE Incr(w) \/ Requeue(w) \/ DeadLetter(w) \/ HDel(w)
    BY <2>2 DEF Incr, Requeue, DeadLetter, HDel, Resume
  <2> QED BY <2>1, <2>2 DEF Step
<1>4. pc'[w] # "reload"
  <2>1. CASE UNCHANGED <<pc, job>> \/ pc' = [pc EXCEPT ![w] = "write"]
    BY <1>2, <2>1 DEF TypeOK, WorkerTypeOK
  <2> QED BY <1>3, <2>1, ControlFrame
<1>5. OthersUnchanged(w) /\ Stopping' \subseteq Stopping
  BY StepFrame
<1>6. Announcing' = Announcing /\ \A v \in Announcing' : job'[v] = job[v]
  BY <1>2, <1>4, <1>5 DEF OthersUnchanged, Announcing
<1> QED BY <1>1, <1>2, <1>5, <1>6, CountQuiet

\* The worker that stops may miss one announcement, and is counted for it.
LEMMA ShutdownCount ==
  ASSUME TypeOK, CountInv, NEW w \in Workers, Shutdown(w)
  PROVE  CountInv'
<1>1. /\ UNCHANGED <<row, events, pc, job>>
      /\ isRunning' = [isRunning EXCEPT ![w] = FALSE] /\ Suffer("shutdown")
  BY DEF Shutdown, storeVars
<1>2. Unannounced' = Unannounced /\ Announcing' = Announcing
      /\ Stopping' \subseteq Stopping \cup {w}
  BY <1>1 DEF Unannounced, Announcing, Stopping, TypeOK, WorkerTypeOK
<1>3. Suffered(CountKinds)' = Suffered(CountKinds) + 1
  BY <1>1, SufferCounts DEF TypeOK, CountKinds, AllKinds
<1>4. /\ IsFiniteSet(Unannounced') /\ IsFiniteSet(Announcing') /\ IsFiniteSet(Stopping')
      /\ Cardinality(Unannounced') + Cardinality(Stopping')
           <= Cardinality(Announcing') + Suffered(CountKinds)'
  BY <1>2, <1>3, UpdatesCounted
<1> QED BY <1>1, <1>2, <1>4 DEF CountInv, CountKinds

\* The process that exits was counted when it was told to stop.
LEMMA ExitCount ==
  ASSUME TypeOK, CountInv, NEW w \in Workers, Exit(w)
  PROVE  CountInv'
<1>1. /\ UNCHANGED <<row, events, isRunning, disruptions>> /\ Die(w)
      /\ pc[w] # "down" /\ ~isRunning[w]
  BY DEF Exit, storeVars
<1>2. OthersUnchanged(w) /\ pc'[w] = "down"
  BY <1>1, ControlFrame DEF Die, TypeOK, WorkerTypeOK
<1>3. /\ Unannounced' = Unannounced /\ Announcing' = Announcing \ {w}
      /\ w \in Stopping /\ Stopping' \subseteq Stopping \ {w}
      /\ \A v \in Announcing' : job'[v] = job[v]
  BY <1>1, <1>2 DEF Unannounced, Announcing, Stopping, OthersUnchanged
<1>4. Suffered(CountKinds)' = Suffered(CountKinds) + 0
  <2>1. Suffered(CountKinds) \in Nat
    BY SufferedIsNat DEF TypeOK, CountKinds, AllKinds
  <2> QED BY <1>1, <2>1, SufferedUnchanged
<1>5. /\ IsFiniteSet(Unannounced') /\ IsFiniteSet(Announcing') /\ IsFiniteSet(Stopping')
      /\ Cardinality(Unannounced') + Cardinality(Stopping')
           <= Cardinality(Announcing') + Suffered(CountKinds)'
  BY <1>3, <1>4, UpdatesCounted
<1> QED BY <1>1, <1>3, <1>5 DEF CountInv, CountKinds

LEMMA NextCount ==
  TypeOK /\ ExclusiveUpdate /\ CountInv /\ [WorkerNext]_vars => CountInv'
<1> SUFFICES ASSUME TypeOK, ExclusiveUpdate, CountInv, [WorkerNext]_vars PROVE CountInv'
  OBVIOUS
<1>1. ASSUME NEW w \in Workers, Step(w) PROVE CountInv'
  BY <1>1, QuietStepCount, WriteCount, ReloadCount
<1>2. ASSUME NEW w \in Workers, Shutdown(w) \/ Exit(w) PROVE CountInv'
  BY <1>2, ShutdownCount, ExitCount
<1>3. ASSUME NEW w \in Workers, Crash(w) PROVE CountInv'
  <2>1. /\ UNCHANGED <<row, events, isRunning>> /\ Die(w) /\ Suffer("crash")
    BY <1>3 DEF Crash, storeVars
  <2>2. OthersUnchanged(w) /\ pc'[w] = "down"
    BY <2>1, ControlFrame DEF Die, TypeOK, WorkerTypeOK
  <2>3. /\ Announcing' = Announcing \ {w} /\ Stopping' \subseteq Stopping
        /\ \A v \in Announcing' : job'[v] = job[v]
    BY <2>1, <2>2 DEF Announcing, Stopping, OthersUnchanged
  <2>4. "crash" \in CountKinds
    BY DEF CountKinds
  <2> QED BY <2>1, <2>3, <2>4, CountQuiet
<1>4. ASSUME NEW w \in Workers, Restart(w) PROVE CountInv'
  <2>1. /\ OthersUnchanged(w) /\ UNCHANGED <<row, events, job>> /\ Suffer("ok")
        /\ pc[w] = "down" /\ pc'[w] = "rpop"
        /\ \A v \in Workers : isRunning'[v] = IF v = w THEN TRUE ELSE isRunning[v]
    BY <1>4 DEF Restart, OthersUnchanged, storeVars, TypeOK, WorkerTypeOK, Suffer
  <2>2. Announcing' = Announcing /\ Stopping' \subseteq Stopping
    BY <2>1 DEF Announcing, Stopping, OthersUnchanged
  <2> QED BY <2>1, <2>2, CountQuiet
<1>5. CASE UNCHANGED <<row, pc, job, isRunning, events>> /\ \E o : Suffer(o)
  <2>1. Announcing' = Announcing /\ Stopping' = Stopping
    BY <1>5 DEF Announcing, Stopping
  <2> QED BY <1>5, <2>1, CountQuiet
<1>6. ASSUME NEW c \in Claims, ExpirePayload(c) PROVE CountInv'
  BY <1>5, <1>6 DEF ExpirePayload, workerVars
<1>7. CASE UNCHANGED vars
  BY <1>5, <1>7 DEF vars, storeVars, workerVars, Suffer
<1> QED BY <1>1, <1>2, <1>3, <1>4, <1>6, <1>7 DEF WorkerNext

LEMMA InitCount == Init => CountInv
<1> SUFFICES ASSUME Init PROVE CountInv
  OBVIOUS
<1>1. \A c \in Claims : Len(events[c]) = 0 /\ row[c].version = 0
  BY DEF Init, WorkerInit, FreshRow, NoRow
<1>2. Unannounced = {}
  BY <1>1 DEF Unannounced
<1>3. Announcing = {} /\ Stopping = {}
  BY DEF Init, WorkerInit, Announcing, Stopping
<1>4. Suffered(CountKinds) = 0
  BY NothingSuffered DEF Init, CountKinds, AllKinds
<1>5. IsFiniteSet({}) /\ Cardinality({}) = 0
  BY FS_EmptySet
<1> QED BY <1>1, <1>2, <1>3, <1>4, <1>5 DEF CountInv, CountKinds

\* The transition counter and the events miss one committed update at most for
\* each failure of the database or of a process, and count none twice.
THEOREM UncountedIsBounded == Spec => []UncountedBounded
<1>1. Init => CountInv
  BY InitCount
<1>2. TypeOK /\ ExclusiveUpdate /\ CountInv /\ [WorkerNext]_vars => CountInv'
  BY NextCount
<1>3. TypeOK /\ CountInv => UncountedBounded
  <2> SUFFICES ASSUME TypeOK, CountInv PROVE UncountedBounded
    OBVIOUS
  <2>1. /\ Cardinality(Unannounced) \in Nat /\ Cardinality(Stopping) \in Nat
        /\ Cardinality(Announcing) \in Nat
    BY FS_CardinalityType DEF CountInv
  <2>2. Suffered(CountKinds) \in Nat
    BY SufferedIsNat DEF TypeOK, CountKinds, AllKinds
  <2> QED BY <2>1, <2>2 DEF CountInv, UncountedBounded, CountKinds
<1> QED BY <1>1, <1>2, <1>3, TypeCorrect, UpdatesAreExclusive, PTL DEF Spec
=============================================================================
