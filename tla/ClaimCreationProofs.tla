------------------------- MODULE ClaimCreationProofs -------------------------
(***************************************************************************)
(* Theorems about ClaimCreation, for any number of requests and keys, any  *)
(* limit of the queue, and any number of disruptions of any kind.          *)
(***************************************************************************)
EXTENDS ClaimCreation, CommonProofs, FiniteSetTheorems, TLAPS

-----------------------------------------------------------------------------
\* CreationTypeOK, the records apart from the requests.
RecordsOK ==
  /\ idem \in [Keys -> Record]
  /\ \A k \in Keys : idem[k].state = "complete" <=> idem[k].claim # NoClaim

RequestsOK ==
  /\ pc \in [Claims -> PC]
  /\ claimId \in [Claims -> Claims \cup {NoClaim}]
  /\ \A r \in Claims : /\ pc[r] \in Critical \ {"expire"} => claimId[r] = r
                       /\ pc[r] \in {"fetch", "ok"} => claimId[r] # NoClaim

\* The type invariant is its four parts, in this state and in the next.
LEMMA TypeParts ==
  /\ TypeOK <=> StoreTypeOK /\ RecordsOK /\ RequestsOK /\ DisruptionsTypeOK
  /\ TypeOK' <=> StoreTypeOK' /\ RecordsOK' /\ RequestsOK' /\ DisruptionsTypeOK'
BY DEF TypeOK, CreationTypeOK, RecordsOK, RequestsOK

\* A step that leaves both stores alone keeps their types.
LEMMA StoreUnchanged ==
  ASSUME StoreTypeOK, UNCHANGED storeVars
  PROVE  StoreTypeOK'
BY DEF StoreTypeOK, storeVars, queueVars

\* A request outside the try block goes to a place outside it ...
Outside == {"limit", "lookup", "lock", "wait", "expire", "failed"}
LEMMA OutsideType ==
  ASSUME RequestsOK, NEW r \in Claims, NEW p \in Outside, Goto(r, p)
  PROVE  RequestsOK'
BY DEF RequestsOK, Goto, Outside, PC, Critical, Answered

\* ... and a request inside it, whose claim id is its own, anywhere.
LEMMA InsideType ==
  ASSUME RequestsOK, NEW r \in Claims, pc[r] \in Critical \ {"expire"},
         NEW p \in PC, Goto(r, p)
  PROVE  RequestsOK'
BY CreationAssumption DEF RequestsOK, Goto

\* A request that learns a claim id may enter the try block with its own only.
LEMMA IdentifyType ==
  ASSUME RequestsOK, NEW r \in Claims, NEW p \in PC, NEW c \in Claims,
         p \in Critical => c = r, Identify(r, p, c)
  PROVE  RequestsOK'
BY CreationAssumption DEF RequestsOK, Identify

\* A record may be replaced by one that names a claim exactly when it is complete.
LEMMA NewRecordType ==
  ASSUME RecordsOK, NEW k \in Keys, NEW new \in Record,
         new.state = "complete" <=> new.claim # NoClaim,
         idem' = [idem EXCEPT ![k] = new] \/ UNCHANGED idem
  PROVE  RecordsOK'
BY DEF RecordsOK

\* At first there is no row, no record and no request.
LEMMA InitType == Init => TypeOK
BY CreationAssumption
   DEF Init, CreationInit, TypeOK, StoreTypeOK, CreationTypeOK, DisruptionsTypeOK,
       NoDisruptions, NoRow, Row, Status, NoRecord, Record, PC, Critical, Answered

\* Each step of a request preserves the types.
LEMMA StepType ==
  ASSUME TypeOK, NEW r \in Claims, Step(r)
  PROVE  TypeOK'
<1> USE TypeParts
<1> DEFINE k == KeyOf[r]
<1>k. k \in Keys
  BY CreationAssumption
<1>1. CASE Limit(r)
  <2>1. RequestsOK'
    BY <1>1, OutsideType DEF Limit, Outside, Goto, RequestsOK, PC, Critical, Answered
  <2> QED BY <1>1, <2>1, StoreUnchanged DEF Limit, RecordsOK, DisruptionsTypeOK
<1>2. CASE Lookup(r)
  <2>1. \/ Goto(r, "failed") \/ Goto(r, "lock")
        \/ Complete(k) /\ Identify(r, "fetch", idem[k].claim)
    BY <1>2 DEF Lookup
  <2>2. Complete(k) => idem[k].claim \in Claims
    BY <1>k DEF Complete, RecordsOK, Record
  <2>3. RequestsOK'
    BY <2>1, <2>2, OutsideType, IdentifyType DEF Outside, PC, Critical
  <2> QED BY <1>2, <2>3, SufferType, StoreUnchanged DEF Lookup, RecordsOK
<1>3. CASE Lock(r)
  <2>1. PICK p \in {"lock", "expire", "wait", "failed"} : Goto(r, p)
    BY <1>3, ResumeCases DEF Lock
  <2>2. RequestsOK'
    BY <2>1, OutsideType DEF Outside
  <2>3. RecordsOK'
    <3> DEFINE new == [NoRecord EXCEPT !.state = "pending"]
    <3>1. idem' = [idem EXCEPT ![k] = new] \/ UNCHANGED idem
      BY <1>3 DEF Lock
    <3>2. new \in Record /\ new.state # "complete" /\ new.claim = NoClaim
      BY DEF NoRecord, Record
    <3> QED BY <1>k, <3>1, <3>2, NewRecordType
  <2> QED BY <1>3, <2>2, <2>3, SufferType, StoreUnchanged DEF Lock
<1>4. CASE Expire(r)
  <2>1. Identify(r, "size", r) \/ \E p \in {"expire", "failed"} : Goto(r, p)
    BY <1>4 DEF Expire, Resume
  <2>2. RequestsOK'
    BY <2>1, OutsideType, IdentifyType DEF Outside, PC, Critical
  <2>3. RecordsOK'
    <3> DEFINE new == [idem[k] EXCEPT !.ttl = "60s"]
    <3>1. idem' = [idem EXCEPT ![k] = new] \/ UNCHANGED idem
      BY <1>4 DEF Expire
    <3>2. new \in Record /\ (new.state = "complete" <=> new.claim # NoClaim)
      BY <1>k DEF RecordsOK, Record
    <3> QED BY <1>k, <3>1, <3>2, NewRecordType
  <2> QED BY <1>4, <2>2, <2>3, SufferType, StoreUnchanged DEF Expire
<1>5. CASE Poll(r)
  <2>1. Goto(r, "failed") \/ (Complete(k) /\ Identify(r, "fetch", idem[k].claim))
    BY <1>5 DEF Poll
  <2>2. Complete(k) => idem[k].claim \in Claims
    BY <1>k DEF Complete, RecordsOK, Record
  <2>3. RequestsOK'
    BY <2>1, <2>2, OutsideType, IdentifyType DEF Outside, PC, Critical
  <2> QED BY <1>5, <2>3, SufferType, StoreUnchanged DEF Poll, RecordsOK
<1>6. CASE GiveUp(r)
  <2>1. RequestsOK'
    BY <1>6, OutsideType DEF GiveUp, Outside
  <2> QED BY <1>6, <2>1, StoreUnchanged DEF GiveUp, RecordsOK, DisruptionsTypeOK
<1>7. CASE Fetch(r)
  <2>1. pc[r] = "fetch" /\ (Goto(r, "ok") \/ Goto(r, "failed"))
    BY <1>7 DEF Fetch
  <2>2. RequestsOK'
    BY <2>1 DEF RequestsOK, Goto, PC, Critical, Answered
  <2> QED BY <1>7, <2>2, SufferType, StoreUnchanged DEF Fetch, RecordsOK
<1>8. CASE Size(r)
  <2>1. pc[r] = "size" /\ (Goto(r, "insert") \/ Goto(r, "release"))
    BY <1>8 DEF Size, FailedCreate
  <2>2. RequestsOK'
    BY <2>1, InsideType DEF PC, Critical
  <2> QED BY <1>8, <2>2, SufferType, StoreUnchanged DEF Size, RecordsOK
<1>9. CASE Insert(r)
  <2>1. pc[r] = "insert" /\ (Goto(r, "pend") \/ Goto(r, "release"))
    BY <1>9 DEF Insert, FailedCreate
  <2>2. RequestsOK'
    BY <2>1, InsideType DEF PC, Critical
  <2>3. StoreTypeOK'
    BY <1>9 DEF Insert, StoreTypeOK, queueVars, FreshRow, Row, Status
  <2> QED BY <1>9, <2>2, <2>3, SufferType DEF Insert, RecordsOK
<1>10. CASE Pend(r)
  <2>1. pc[r] = "pend" /\ \E p \in {"pend", "finalize", "payload", "undo"} : Goto(r, p)
    BY <1>10, ResumeCases DEF Pend, FailedAdd
  <2>2. RequestsOK'
    BY <2>1, InsideType DEF PC, Critical
  <2>3. StoreTypeOK'
    BY <1>10 DEF Pend, StoreTypeOK
  <2> QED BY <1>10, <2>2, <2>3, SufferType DEF Pend, RecordsOK
<1>11. CASE Payload(r)
  <2>1. pc[r] = "payload" /\ \E p \in {"payload", "push", "undo"} : Goto(r, p)
    BY <1>11, ResumeCases DEF Payload, FailedAdd
  <2>2. RequestsOK'
    BY <2>1, InsideType DEF PC, Critical
  <2>3. StoreTypeOK'
    BY <1>11 DEF Payload, StoreTypeOK
  <2> QED BY <1>11, <2>2, <2>3, SufferType DEF Payload, RecordsOK
<1>12. CASE Push(r)
  <2>1. pc[r] = "push" /\ \E p \in {"push", "finalize", "undo"} : Goto(r, p)
    BY <1>12, ResumeCases DEF Push, FailedAdd
  <2>2. RequestsOK'
    BY <2>1, InsideType DEF PC, Critical
  <2>3. StoreTypeOK'
    BY <1>12 DEF Push, StoreTypeOK
  <2> QED BY <1>12, <2>2, <2>3, SufferType DEF Push, RecordsOK
<1>13. CASE Undo(r)
  <2>1. pc[r] = "undo" /\ Goto(r, "release")
    BY <1>13 DEF Undo, FailedCreate
  <2>2. RequestsOK'
    BY <2>1, InsideType DEF PC, Critical
  <2>3. StoreTypeOK'
    BY <1>13 DEF Undo, StoreTypeOK, queueVars, NoRow, Row
  <2> QED BY <1>13, <2>2, <2>3, SufferType DEF Undo, RecordsOK
<1>14. CASE Finalize(r)
  <2>1. pc[r] = "finalize" /\ \E p \in {"finalize", "ok", "release"} : Goto(r, p)
    BY <1>14, ResumeCases DEF Finalize, FailedFinalize, FailedCreate
  <2>2. RequestsOK'
    BY <2>1, InsideType DEF PC, Critical, Answered
  <2>3. RecordsOK'
    <3> DEFINE new == [state |-> "complete", claim |-> r, ttl |-> "24h"]
    <3>1. idem' = [idem EXCEPT ![k] = new] \/ UNCHANGED idem
      BY <1>14 DEF Finalize
    <3>2. new \in Record /\ new.state = "complete" /\ new.claim # NoClaim
      BY CreationAssumption DEF Record
    <3> QED BY <1>k, <3>1, <3>2, NewRecordType
  <2> QED BY <1>14, <2>2, <2>3, SufferType, StoreUnchanged DEF Finalize
<1>15. CASE Release(r)
  <2>1. pc[r] = "release" /\ \E p \in {"release", "failed"} : Goto(r, p)
    BY <1>15, ResumeCases DEF Release
  <2>2. RequestsOK'
    BY <2>1, InsideType DEF PC, Critical, Answered
  <2>3. RecordsOK'
    <3>1. idem' = [idem EXCEPT ![k] = NoRecord] \/ UNCHANGED idem
      BY <1>15 DEF Release
    <3>2. NoRecord \in Record /\ NoRecord.state # "complete" /\ NoRecord.claim = NoClaim
      BY DEF NoRecord, Record
    <3> QED BY <1>k, <3>1, <3>2, NewRecordType
  <2> QED BY <1>15, <2>2, <2>3, SufferType, StoreUnchanged DEF Release
<1> QED BY <1>1, <1>2, <1>3, <1>4, <1>5, <1>6, <1>7, <1>8, <1>9, <1>10, <1>11, <1>12,
           <1>13, <1>14, <1>15 DEF Step

\* So does everything else that can happen.
LEMMA NextType == TypeOK /\ [CreationNext]_vars => TypeOK'
<1> SUFFICES ASSUME TypeOK, [CreationNext]_vars PROVE TypeOK'
  OBVIOUS
<1> USE TypeParts
<1>1. CASE \E r \in Claims : Step(r)
  BY <1>1, StepType
<1>2. ASSUME NEW r \in Claims, Crash(r) PROVE TypeOK'
  <2>1. RequestsOK'
    BY <1>2, OutsideType DEF Crash, Outside
  <2> QED BY <1>2, <2>1, SufferType, StoreUnchanged DEF Crash, RecordsOK
<1>3. ASSUME NEW k \in Keys, ExpireRecord(k) PROVE TypeOK'
  <2>1. NoRecord \in Record /\ NoRecord.state # "complete" /\ NoRecord.claim = NoClaim
    BY DEF NoRecord, Record
  <2>2. RecordsOK'
    BY <1>3, <2>1, NewRecordType DEF ExpireRecord
  <2>3. DisruptionsTypeOK'
    BY <1>3, SufferType DEF ExpireRecord, DisruptionsTypeOK
  <2> QED BY <1>3, <2>2, <2>3, StoreUnchanged DEF ExpireRecord, RequestsOK
<1>4. CASE UNCHANGED vars
  BY <1>4, StoreUnchanged
     DEF vars, creationVars, RecordsOK, RequestsOK, DisruptionsTypeOK
<1> QED BY <1>1, <1>2, <1>3, <1>4 DEF CreationNext

\* Every variable stays in its type; in particular a request inside the try
\* block has its own claim id, and a record names a claim when it is complete.
THEOREM TypeCorrect == Spec => []TypeOK
<1>1. Init => TypeOK
  BY InitType
<1>2. TypeOK /\ [CreationNext]_vars => TypeOK'
  BY NextType
<1> QED BY <1>1, <1>2, PTL DEF Spec
-----------------------------------------------------------------------------
(***************************************************************************)
(* A record is completed by the request that made the claim, when it is    *)
(* past the point where the row could be taken back: the claim of a        *)
(* complete record is settled, and stays so.                               *)
(***************************************************************************)
Settled(c) ==
  /\ c \in Claims
  /\ Exists(c)
  /\ pc[c] \in {"finalize", "release", "ok", "failed"}

\* What CompleteNeverDangles needs to be inductive: a settled claim in every
\* complete record and with every request that is about to look it up, and the
\* row in place while the claim is queued.
RecordsSettled == \A k \in Keys : Complete(k) => Settled(idem[k].claim)
ReadersSettled == \A r \in Claims : pc[r] = "fetch" => Settled(claimId[r])
RowInPlace ==
  \A r \in Claims : pc[r] \in {"pend", "payload", "push", "finalize"} => Exists(r)
SettledInv == RecordsSettled /\ ReadersSettled /\ RowInPlace

\* Where a request stays once its claim is settled.
Past == {"finalize", "release", "ok", "failed"}

\* A settled claim stays settled under a step of request r that goes to p and
\* leaves the rows alone, or is one that inserts or deletes the row of r.
LEMMA SettledStays ==
  ASSUME TypeOK, NEW r \in Claims, NEW p, pc' = [pc EXCEPT ![r] = p],
         pc[r] \in Past => p \in Past /\ UNCHANGED row,
         \A d \in Claims : d # r => row'[d] = row[d],
         NEW c, Settled(c)
  PROVE  Settled(c)'
BY DEF Settled, Past, Exists, TypeOK, CreationTypeOK

\* A step of r that completes no record and does not start to look one up.
LEMMA QuietStep ==
  ASSUME TypeOK, SettledInv, NEW r \in Claims,
         NEW p \in PC \ {"fetch"}, pc' = [pc EXCEPT ![r] = p],
         pc[r] \in Past => p \in Past /\ UNCHANGED row,
         \A d \in Claims : d # r => row'[d] = row[d] /\ claimId'[d] = claimId[d],
         p \in {"pend", "payload", "push", "finalize"} => Exists(r)',
         \A k \in Keys : Complete(k)' => Complete(k) /\ idem'[k].claim = idem[k].claim
  PROVE  SettledInv'
<1>1. ASSUME NEW c, Settled(c) PROVE Settled(c)'
  BY <1>1, SettledStays
<1>2. RecordsSettled'
  BY <1>1 DEF SettledInv, RecordsSettled
<1>3. ReadersSettled'
  BY <1>1 DEF SettledInv, ReadersSettled, TypeOK, CreationTypeOK
<1>4. RowInPlace'
  BY DEF SettledInv, RowInPlace, Exists, TypeOK, CreationTypeOK
<1> QED BY <1>2, <1>3, <1>4 DEF SettledInv

\* A look-up finds what is in the record.
LEMMA FoundStep ==
  ASSUME TypeOK, SettledInv, NEW r \in Claims, pc[r] \notin Past, UNCHANGED <<row, idem>>,
         Complete(KeyOf[r]), Identify(r, "fetch", idem[KeyOf[r]].claim)
  PROVE  SettledInv'
<1>1. KeyOf[r] \in Keys
  BY CreationAssumption
<1>2. pc' = [pc EXCEPT ![r] = "fetch"] /\ claimId' = [claimId EXCEPT ![r] = idem[KeyOf[r]].claim]
  BY DEF Identify
<1>3. ASSUME NEW c, Settled(c) PROVE Settled(c)'
  BY <1>2, <1>3, SettledStays
<1>4. RecordsSettled'
  BY <1>3 DEF SettledInv, RecordsSettled, Complete
<1>5. ReadersSettled'
  BY <1>1, <1>2, <1>3
     DEF SettledInv, ReadersSettled, RecordsSettled, TypeOK, CreationTypeOK
<1>6. RowInPlace'
  BY <1>2 DEF SettledInv, RowInPlace, Exists, TypeOK, CreationTypeOK
<1> QED BY <1>4, <1>5, <1>6 DEF SettledInv

\* The records after a step that writes at most one, and no complete one.
LEMMA NothingCompleted ==
  ASSUME RecordsOK, NEW k \in Keys, NEW new, idem' = [idem EXCEPT ![k] = new] \/ UNCHANGED idem,
         new.state = "complete" => idem[k].state = "complete" /\ new.claim = idem[k].claim
  PROVE  \A l \in Keys : Complete(l)' => Complete(l) /\ idem'[l].claim = idem[l].claim
BY DEF RecordsOK, Complete

\* At first no record is complete and no request has read one.
LEMMA SettledInit == Init => SettledInv
BY DEF Init, CreationInit, NoRecord, SettledInv, RecordsSettled, ReadersSettled,
       RowInPlace, Complete

\* Each step of a request preserves the invariant.
LEMMA SettledStep ==
  ASSUME TypeOK, SettledInv, NEW r \in Claims, Step(r)
  PROVE  SettledInv'
<1> DEFINE k == KeyOf[r]
<1>a. k \in Keys /\ RecordsOK
  BY CreationAssumption, TypeParts
<1>b. UNCHANGED idem
        => \A l \in Keys : Complete(l)' => Complete(l) /\ idem'[l].claim = idem[l].claim
  BY DEF Complete
<1>c. ASSUME NEW p, Goto(r, p)
      PROVE  /\ pc' = [pc EXCEPT ![r] = p]
             /\ \A d \in Claims : d # r => claimId'[d] = claimId[d]
  BY <1>c DEF Goto
<1>d. pc[r] \in {"payload", "pend", "push", "finalize"} => Exists(r)
  BY DEF SettledInv, RowInPlace
<1>1. CASE Limit(r)
  BY <1>1, <1>b, <1>c, QuietStep DEF Limit, Past, PC, Critical, Answered, storeVars
<1>2. CASE Lookup(r)
  <2>1. pc[r] \notin Past /\ UNCHANGED <<row, idem>>
    BY <1>2 DEF Lookup, Past, storeVars
  <2>2. \/ Goto(r, "failed") \/ Goto(r, "lock")
        \/ Complete(k) /\ Identify(r, "fetch", idem[k].claim)
    BY <1>2 DEF Lookup
  <2> QED BY <1>b, <1>c, <2>1, <2>2, QuietStep, FoundStep DEF PC, Critical, Answered
<1>3. CASE Lock(r)
  <2>1. pc[r] \notin Past /\ UNCHANGED row
    BY <1>3 DEF Lock, Past, storeVars
  <2>2. PICK p \in {"lock", "expire", "wait", "failed"} : Goto(r, p)
    BY <1>3, ResumeCases DEF Lock
  <2>3. \A l \in Keys : Complete(l)' => Complete(l) /\ idem'[l].claim = idem[l].claim
    <3> DEFINE new == [NoRecord EXCEPT !.state = "pending"]
    <3>1. idem' = [idem EXCEPT ![k] = new] \/ UNCHANGED idem
      BY <1>3 DEF Lock
    <3>2. new.state # "complete"
      BY DEF NoRecord
    <3> QED BY <1>a, <3>1, <3>2, NothingCompleted
  <2> QED BY <1>c, <2>1, <2>2, <2>3, QuietStep DEF PC, Critical, Answered
<1>4. CASE Expire(r)
  <2>1. pc[r] \notin Past /\ UNCHANGED row
    BY <1>4 DEF Expire, Past, storeVars
  <2>2. PICK p \in {"size", "expire", "failed"} :
          /\ pc' = [pc EXCEPT ![r] = p]
          /\ \A d \in Claims : d # r => claimId'[d] = claimId[d]
    <3>1. Identify(r, "size", r) \/ \E p \in {"expire", "failed"} : Goto(r, p)
      BY <1>4 DEF Expire, Resume
    <3> QED BY <1>c, <3>1 DEF Identify, TypeOK, CreationTypeOK
  <2>3. \A l \in Keys : Complete(l)' => Complete(l) /\ idem'[l].claim = idem[l].claim
    <3> DEFINE new == [idem[k] EXCEPT !.ttl = "60s"]
    <3>1. idem' = [idem EXCEPT ![k] = new] \/ UNCHANGED idem
      BY <1>4 DEF Expire
    <3>2. new.state = idem[k].state /\ new.claim = idem[k].claim
      BY <1>a DEF RecordsOK, Record
    <3> QED BY <1>a, <3>1, <3>2, NothingCompleted
  <2> QED BY <2>1, <2>2, <2>3, QuietStep DEF PC, Critical, Answered
<1>5. CASE Poll(r)
  <2>1. pc[r] \notin Past /\ UNCHANGED <<row, idem>>
    BY <1>5 DEF Poll, Past, storeVars
  <2>2. Goto(r, "failed") \/ (Complete(k) /\ Identify(r, "fetch", idem[k].claim))
    BY <1>5 DEF Poll
  <2> QED BY <1>b, <1>c, <2>1, <2>2, QuietStep, FoundStep DEF PC, Critical, Answered
<1>6. CASE GiveUp(r)
  BY <1>6, <1>b, <1>c, QuietStep DEF GiveUp, Past, PC, Critical, Answered, storeVars
<1>7. CASE Fetch(r)
  <2>1. pc[r] \notin Past /\ UNCHANGED <<row, idem>> /\ (Goto(r, "ok") \/ Goto(r, "failed"))
    BY <1>7 DEF Fetch, Past, storeVars
  <2> QED BY <1>b, <1>c, <2>1, QuietStep DEF PC, Critical, Answered
<1>8. CASE Size(r)
  <2>1. pc[r] \notin Past /\ UNCHANGED <<row, idem>> /\ (Goto(r, "insert") \/ Goto(r, "release"))
    BY <1>8 DEF Size, FailedCreate, Past, storeVars
  <2> QED BY <1>b, <1>c, <2>1, QuietStep DEF PC, Critical, Answered
<1>9. CASE Insert(r)
  <2>1. pc[r] \notin Past /\ UNCHANGED idem /\ (Goto(r, "pend") \/ Goto(r, "release"))
    BY <1>9 DEF Insert, FailedCreate, Past
  <2>2. Goto(r, "pend") => row' = [row EXCEPT ![r] = FreshRow]
    BY <1>9 DEF Insert, FailedCreate, Goto, Throws, Executed, DbWrite, TypeOK, CreationTypeOK
  <2>3. row' = row \/ row' = [row EXCEPT ![r] = FreshRow]
    BY <1>9 DEF Insert
  <2>4. Goto(r, "pend") => Exists(r)'
    BY <2>2 DEF Exists, FreshRow, ABSENT, TypeOK, StoreTypeOK
  <2>5. \A d \in Claims : d # r => row'[d] = row[d]
    BY <2>3 DEF TypeOK, StoreTypeOK
  <2> QED BY <1>b, <1>c, <2>1, <2>4, <2>5, QuietStep DEF PC, Critical, Answered
<1>10. CASE Pend(r)
  <2>1. /\ pc[r] \notin Past /\ UNCHANGED <<row, idem>> /\ Exists(r)'
        /\ \E p \in {"pend", "finalize", "payload", "undo"} : Goto(r, p)
    BY <1>10, <1>d, ResumeCases DEF Pend, FailedAdd, Past, Exists
  <2> QED BY <1>b, <1>c, <2>1, QuietStep DEF PC, Critical, Answered
<1>11. CASE Payload(r)
  <2>1. /\ pc[r] \notin Past /\ UNCHANGED <<row, idem>> /\ Exists(r)'
        /\ \E p \in {"payload", "push", "undo"} : Goto(r, p)
    BY <1>11, <1>d, ResumeCases DEF Payload, FailedAdd, Past, Exists
  <2> QED BY <1>b, <1>c, <2>1, QuietStep DEF PC, Critical, Answered
<1>12. CASE Push(r)
  <2>1. /\ pc[r] \notin Past /\ UNCHANGED <<row, idem>> /\ Exists(r)'
        /\ \E p \in {"push", "finalize", "undo"} : Goto(r, p)
    BY <1>12, <1>d, ResumeCases DEF Push, FailedAdd, Past, Exists
  <2> QED BY <1>b, <1>c, <2>1, QuietStep DEF PC, Critical, Answered
<1>13. CASE Undo(r)
  <2>1. pc[r] \notin Past /\ UNCHANGED idem /\ Goto(r, "release")
    BY <1>13 DEF Undo, FailedCreate, Past
  <2>2. \A d \in Claims : d # r => row'[d] = row[d]
    BY <1>13 DEF Undo, TypeOK, StoreTypeOK
  <2> QED BY <1>b, <1>c, <2>1, <2>2, QuietStep DEF PC, Critical, Answered
<1>14. CASE Finalize(r)
  <2>1. pc[r] = "finalize" /\ UNCHANGED row /\ Exists(r)
    BY <1>14, <1>d DEF Finalize, storeVars
  <2>2. PICK p \in {"finalize", "ok", "release"} : Goto(r, p)
    BY <1>14, ResumeCases DEF Finalize, FailedFinalize, FailedCreate
  <2>3. ASSUME NEW c, Settled(c) PROVE Settled(c)'
    BY <1>c, <2>1, <2>2, <2>3, SettledStays DEF Past
  <2>4. Settled(r)'
    BY <2>1, <2>3 DEF Settled
  <2>5. RecordsSettled'
    <3> DEFINE new == [state |-> "complete", claim |-> r, ttl |-> "24h"]
    <3>1. idem' = [idem EXCEPT ![k] = new] \/ UNCHANGED idem
      BY <1>14 DEF Finalize
    <3>2. ASSUME NEW l \in Keys, Complete(l)' PROVE Settled(idem[l].claim)'
      <4>1. CASE idem'[l] = idem[l]
        <5>1. Settled(idem[l].claim)
          BY <3>2, <4>1 DEF SettledInv, RecordsSettled, Complete
        <5> QED BY <2>3, <4>1, <5>1 DEF Settled, Exists
      <4>2. CASE idem'[l] = new
        BY <2>4, <4>2 DEF Settled, Exists
      <4> QED BY <1>a, <3>1, <4>1, <4>2 DEF RecordsOK
    <3> QED BY <3>2 DEF RecordsSettled
  <2>6. ReadersSettled'
    BY <2>2, <2>3 DEF SettledInv, ReadersSettled, Goto, TypeOK, CreationTypeOK
  <2>7. RowInPlace'
    BY <2>1, <2>2 DEF SettledInv, RowInPlace, Goto, Exists, TypeOK, CreationTypeOK
  <2> QED BY <2>5, <2>6, <2>7 DEF SettledInv
<1>15. CASE Release(r)
  <2>1. pc[r] = "release" /\ UNCHANGED row /\ \E p \in {"release", "failed"} : Goto(r, p)
    BY <1>15, ResumeCases DEF Release, storeVars
  <2>2. \A l \in Keys : Complete(l)' => Complete(l) /\ idem'[l].claim = idem[l].claim
    <3>1. idem' = [idem EXCEPT ![k] = NoRecord] \/ UNCHANGED idem
      BY <1>15 DEF Release
    <3>2. NoRecord.state # "complete"
      BY DEF NoRecord
    <3> QED BY <1>a, <3>1, <3>2, NothingCompleted
  <2> QED BY <1>c, <2>1, <2>2, QuietStep DEF Past, PC, Critical, Answered
<1> QED BY <1>1, <1>2, <1>3, <1>4, <1>5, <1>6, <1>7, <1>8, <1>9, <1>10, <1>11, <1>12,
           <1>13, <1>14, <1>15 DEF Step

\* So does everything else that can happen.
LEMMA SettledNext == TypeOK /\ SettledInv /\ [CreationNext]_vars => SettledInv'
<1> SUFFICES ASSUME TypeOK, SettledInv, [CreationNext]_vars PROVE SettledInv'
  OBVIOUS
<1>1. CASE \E r \in Claims : Step(r)
  BY <1>1, SettledStep
<1>2. ASSUME NEW r \in Claims, Crash(r) PROVE SettledInv'
  <2>1. /\ pc' = [pc EXCEPT ![r] = "failed"] /\ UNCHANGED <<row, idem, claimId>>
        /\ \A l \in Keys : Complete(l)' => Complete(l) /\ idem'[l].claim = idem[l].claim
    BY <1>2 DEF Crash, Goto, storeVars, Complete
  <2> QED BY <2>1, QuietStep DEF Past, PC, Critical, Answered
<1>3. ASSUME NEW k \in Keys, ExpireRecord(k) PROVE SettledInv'
  BY <1>3, TypeParts
     DEF ExpireRecord, storeVars, SettledInv, RecordsSettled, ReadersSettled, RowInPlace,
         Settled, Exists, Complete, NoRecord, RecordsOK
<1>4. CASE UNCHANGED vars
  BY <1>4 DEF vars, storeVars, creationVars, SettledInv, RecordsSettled, ReadersSettled,
              RowInPlace, Settled, Exists, Complete
<1> QED BY <1>1, <1>2, <1>3, <1>4 DEF CreationNext

\* A replay finds its claim, whatever is disrupted: the rows named by complete
\* records, and by requests that have read one, are there.
THEOREM ReplaysFindTheirClaim == Spec => []CompleteNeverDangles
<1>1. Init => SettledInv
  BY SettledInit
<1>2. TypeOK /\ SettledInv /\ [CreationNext]_vars => SettledInv'
  BY SettledNext
<1>3. SettledInv => CompleteNeverDangles
  BY DEF SettledInv, RecordsSettled, ReadersSettled, Settled, CompleteNeverDangles
<1> QED BY <1>1, <1>2, <1>3, TypeCorrect, PTL DEF Spec
-----------------------------------------------------------------------------
(***************************************************************************)
(* The lock: a request is in progress only under a record, and a request   *)
(* enters only where there is none.                                        *)
(***************************************************************************)
Undisturbed == Never("stall") /\ Never("resent")

\* LockProtects without the cardinality; inductive together with TypeOK.
Alone(k) == \A r, s \in InProgress(k) : r = s
Recorded(k) == InProgress(k) # {} => idem[k].state # "none"
LockInv == Undisturbed => \A k \in Keys : Alone(k) /\ Recorded(k)

\* The counters only grow.
LEMMA UndisturbedBefore ==
  ASSUME DisruptionsTypeOK, NEW o, Suffer(o), Undisturbed'
  PROVE  Undisturbed /\ o # "stall" /\ o # "resent"
<1>1. {"stall", "resent"} \subseteq AllKinds
  BY DEF AllKinds
<1> QED BY <1>1, NeverBefore DEF Undisturbed

\* A step of r that does not enter the try block and removes no record.
LEMMA HeldStep ==
  ASSUME TypeOK, LockInv, NEW r \in Claims, NEW p, pc' = [pc EXCEPT ![r] = p],
         p \in Critical => pc[r] \in Critical,
         \A k \in Keys : idem'[k].state = "none" => idem[k].state = "none",
         Undisturbed' => Undisturbed
  PROVE  LockInv'
<1> SUFFICES ASSUME Undisturbed', NEW k \in Keys PROVE (Alone(k) /\ Recorded(k))'
  BY DEF LockInv
<1>1. Alone(k) /\ Recorded(k)
  BY DEF LockInv
<1>2. InProgress(k)' \subseteq InProgress(k)
  BY DEF InProgress, TypeOK, CreationTypeOK
<1> QED BY <1>1, <1>2 DEF Alone, Recorded

\* The step that takes the lock.
LEMMA LockStep ==
  ASSUME TypeOK, LockInv, NEW r \in Claims, Lock(r)
  PROVE  LockInv'
<1> SUFFICES ASSUME Undisturbed', NEW k \in Keys PROVE (Alone(k) /\ Recorded(k))'
  BY DEF LockInv
<1>1. PICK o \in RedisWrite :
        /\ Suffer(o)
        /\ idem' = IF Executed(o) /\ idem[KeyOf[r]].state = "none"
                   THEN [idem EXCEPT ![KeyOf[r]] = [NoRecord EXCEPT !.state = "pending"]]
                   ELSE idem
        /\ Goto(r, Resume(o, "lock", IF Acquired(KeyOf[r]) THEN "expire" ELSE "wait",
                          "failed"))
  BY DEF Lock
<1>2. Undisturbed /\ o # "resent"
  BY <1>1, UndisturbedBefore DEF TypeOK
<1>3. Alone(k) /\ Recorded(k)
  BY <1>2 DEF LockInv
<1>4. KeyOf[r] \in Keys /\ idem \in [Keys -> Record] /\ pc \in [Claims -> PC]
  BY CreationAssumption DEF TypeOK, CreationTypeOK
<1>5. CASE o = "ok" /\ idem[KeyOf[r]].state = "none" /\ k = KeyOf[r]
  <2>1. InProgress(k) = {}
    BY <1>3, <1>5 DEF Recorded
  <2>2. InProgress(k)' \subseteq {r}
    BY <1>1, <1>4, <2>1 DEF Goto, InProgress
  <2>3. idem'[k].state = "pending"
    BY <1>1, <1>4, <1>5 DEF Executed, NoRecord
  <2> QED BY <2>2, <2>3 DEF Alone, Recorded
<1>6. CASE ~(o = "ok" /\ idem[KeyOf[r]].state = "none" /\ k = KeyOf[r])
  <2>1. InProgress(k)' \subseteq InProgress(k)
    <3>1. k = KeyOf[r] => pc'[r] \notin Critical
      BY <1>1, <1>2, <1>4, <1>6 DEF Resume, Acquired, Goto, Critical
    <3> QED BY <1>1, <1>4, <3>1 DEF InProgress, Goto
  <2>2. idem'[k].state = "none" => idem[k].state = "none"
    BY <1>1, <1>4
  <2> QED BY <1>3, <2>1, <2>2 DEF Alone, Recorded
<1> QED BY <1>5, <1>6

\* The step that gives it back: r was alone, and is no longer in progress.
LEMMA ReleaseStep ==
  ASSUME TypeOK, LockInv, NEW r \in Claims, Release(r)
  PROVE  LockInv'
<1> SUFFICES ASSUME Undisturbed', NEW k \in Keys PROVE (Alone(k) /\ Recorded(k))'
  BY DEF LockInv
<1>1. PICK o \in RedisWrite :
        /\ Suffer(o)
        /\ idem' = IF Executed(o) THEN [idem EXCEPT ![KeyOf[r]] = NoRecord] ELSE idem
        /\ Goto(r, Resume(o, "release", "failed", "failed"))
  BY DEF Release
<1>2. Undisturbed /\ o # "resent"
  BY <1>1, UndisturbedBefore DEF TypeOK
<1>3. Alone(k) /\ Recorded(k)
  BY <1>2 DEF LockInv
<1>4. KeyOf[r] \in Keys /\ idem \in [Keys -> Record] /\ pc \in [Claims -> PC]
  BY CreationAssumption DEF TypeOK, CreationTypeOK
<1>5. pc' = [pc EXCEPT ![r] = "failed"] /\ pc[r] = "release"
  BY <1>1, <1>2 DEF Goto, Resume, Release
<1>6. InProgress(k)' \subseteq InProgress(k) \ {r}
  BY <1>4, <1>5 DEF InProgress, Critical
<1>7. CASE k = KeyOf[r]
  <2>1. r \in InProgress(k)
    BY <1>5, <1>7 DEF InProgress, Critical
  <2>2. InProgress(k)' = {}
    BY <1>3, <1>6, <2>1 DEF Alone
  <2> QED BY <2>2 DEF Alone, Recorded
<1>8. CASE k # KeyOf[r]
  <2>1. idem'[k] = idem[k]
    BY <1>1, <1>4, <1>8
  <2> QED BY <1>3, <1>6, <2>1 DEF Alone, Recorded
<1> QED BY <1>7, <1>8

\* Every step preserves the invariant of the lock.
LEMMA LockNext == TypeOK /\ LockInv /\ [CreationNext]_vars => LockInv'
<1> SUFFICES ASSUME TypeOK, LockInv, [CreationNext]_vars PROVE LockInv'
  OBVIOUS
<1>a. DisruptionsTypeOK /\ RecordsOK /\ RequestsOK
  BY TypeParts
<1>b. ASSUME NEW o, Suffer(o) PROVE Undisturbed' => Undisturbed
  BY <1>a, <1>b, UndisturbedBefore
<1>1. ASSUME NEW r \in Claims, Lock(r) PROVE LockInv'
  BY <1>1, LockStep
<1>2. ASSUME NEW r \in Claims, Release(r) PROVE LockInv'
  BY <1>2, ReleaseStep
<1>3. ASSUME NEW r \in Claims,
             Limit(r) \/ Lookup(r) \/ Poll(r) \/ GiveUp(r) \/ Fetch(r) \/ Crash(r)
      PROVE  LockInv'
  <2>1. PICK p \in {"lookup", "failed", "fetch", "lock", "ok"} : pc' = [pc EXCEPT ![r] = p]
    BY <1>3 DEF Limit, Lookup, Poll, GiveUp, Fetch, Crash, Goto, Identify
  <2>2. UNCHANGED idem /\ (Undisturbed' => Undisturbed)
    BY <1>3, <1>b
       DEF Limit, Lookup, Poll, GiveUp, Fetch, Crash, Undisturbed, Never
  <2> QED BY <2>1, <2>2, HeldStep DEF Critical
<1>4. ASSUME NEW r \in Claims, Size(r) \/ Insert(r) \/ Pend(r) \/ Payload(r) \/ Push(r) \/ Undo(r)
      PROVE  LockInv'
  <2>1. pc[r] \in Critical /\ \E p : pc' = [pc EXCEPT ![r] = p]
    BY <1>4 DEF Size, Insert, Pend, Payload, Push, Undo, Goto, Critical
  <2>2. UNCHANGED idem /\ (Undisturbed' => Undisturbed)
    BY <1>4, <1>b DEF Size, Insert, Pend, Payload, Push, Undo
  <2> QED BY <2>1, <2>2, HeldStep
<1>5. ASSUME NEW r \in Claims, Expire(r) \/ Finalize(r) PROVE LockInv'
  <2>1. pc[r] \in Critical /\ \E p : pc' = [pc EXCEPT ![r] = p]
    BY <1>5 DEF Expire, Finalize, Goto, Identify, Critical
  <2>2. Undisturbed' => Undisturbed
    BY <1>5, <1>b DEF Expire, Finalize
  <2>3. \A k \in Keys : idem'[k].state = "none" => idem[k].state = "none"
    <3> DEFINE timed == [idem[KeyOf[r]] EXCEPT !.ttl = "60s"]
               done == [state |-> "complete", claim |-> r, ttl |-> "24h"]
    <3>1. \/ UNCHANGED idem
          \/ idem' = [idem EXCEPT ![KeyOf[r]] = timed] /\ idem[KeyOf[r]].state # "none"
          \/ idem' = [idem EXCEPT ![KeyOf[r]] = done]
      BY <1>5 DEF Expire, Finalize
    <3>2. timed.state = idem[KeyOf[r]].state /\ done.state = "complete"
      BY <1>a, CreationAssumption DEF RecordsOK, Record
    <3> QED BY <1>a, <3>1, <3>2 DEF RecordsOK
  <2> QED BY <2>1, <2>2, <2>3, HeldStep
<1>6. ASSUME NEW k \in Keys, ExpireRecord(k) PROVE LockInv'
  <2>1. Undisturbed' => Undisturbed /\ InProgress(k) = {}
    BY <1>6, <1>a, UndisturbedBefore DEF ExpireRecord, Undisturbed, Never
  <2>2. \A l \in Keys : InProgress(l)' = InProgress(l) /\ (l # k => idem'[l] = idem[l])
    BY <1>6, <1>a DEF ExpireRecord, InProgress, RecordsOK
  <2> QED BY <2>1, <2>2 DEF LockInv, Alone, Recorded
<1>7. CASE UNCHANGED vars
  BY <1>7 DEF vars, creationVars, LockInv, Undisturbed, Never, Alone, Recorded, InProgress
<1> QED BY <1>1, <1>2, <1>3, <1>4, <1>5, <1>6, <1>7 DEF CreationNext, Step

LEMMA LockHeld == LockInv => LockProtects
<1> SUFFICES ASSUME LockInv, Undisturbed, NEW k \in Keys
             PROVE  /\ Cardinality(InProgress(k)) <= 1
                    /\ InProgress(k) # {} => idem[k].state # "none"
  BY DEF LockProtects, Undisturbed
<1>1. Alone(k) /\ Recorded(k)
  BY DEF LockInv
<1>2. InProgress(k) = {} \/ \E r : InProgress(k) = {r}
  BY <1>1 DEF Alone
<1>3. Cardinality(InProgress(k)) = 0 \/ Cardinality(InProgress(k)) = 1
  BY <1>2, FS_EmptySet, FS_Singleton, Zenon
<1> QED BY <1>1, <1>3 DEF Recorded

\* As long as no request outlives its lock and no DEL is repeated, at most one
\* request per key is inside the try block, under a record of its key.
THEOREM LockExcludes == Spec => []LockProtects
<1>1. Init => LockInv
  BY DEF Init, CreationInit, LockInv, Alone, Recorded, InProgress, Critical
<1>2. TypeOK /\ LockInv /\ [CreationNext]_vars => LockInv'
  BY LockNext
<1> QED BY <1>1, <1>2, LockHeld, TypeCorrect, PTL DEF Spec
-----------------------------------------------------------------------------
(***************************************************************************)
(* What a request leaves behind.  The queue only grows here: nobody takes  *)
(* an id from it.                                                          *)
(***************************************************************************)
Queued(c) == c \in Range(queue)

\* A request has no row and no pending key of its own before it inserts one.
Early == {"limit", "lookup", "lock", "wait", "fetch", "expire", "size", "insert"}
FreshInv == \A r \in Claims : pc[r] \in Early => ~Exists(r) /\ r \notin pending

\* A row that is not queued, and that its request will neither queue nor take
\* back any more.
OrphanKinds == {"crash", "resent", "dbRefused", "dbUnanswered"}
Doomed ==
  {c \in Claims : /\ Exists(c) /\ ~Queued(c)
                  /\ \/ pc[c] \in {"finalize", "release"} \cup Answered
                     \/ pc[c] = "pend" /\ c \in pending}
OrphanInv == Cardinality(Doomed) <= Suffered(OrphanKinds)

\* A step of r is about r: its row, its place, its id, its pending key.
LEMMA RequestFrame ==
  ASSUME TypeOK, NEW r \in Claims, Step(r) \/ Crash(r)
  PROVE  /\ \A d \in Claims : d # r => /\ pc'[d] = pc[d] /\ claimId'[d] = claimId[d]
                                       /\ row'[d] = row[d]
                                       /\ d \in pending' <=> d \in pending
         /\ \A c : Queued(c) => Queued(c)'
<1>1. pc \in [Claims -> PC] /\ row \in [Claims -> Row] /\ queue \in Seq(Claims)
  BY DEF TypeOK, StoreTypeOK, CreationTypeOK
<1>2. \E p : Goto(r, p) \/ \E c : Identify(r, p, c)
  BY DEF Step, Limit, Lookup, Lock, Expire, Poll, GiveUp, Fetch, Size, Insert, Pend, Payload,
         Push, Undo, Finalize, Release, Crash
<1>3. \A d \in Claims : d # r => pc'[d] = pc[d] /\ claimId'[d] = claimId[d]
  BY <1>1, <1>2 DEF Goto, Identify, TypeOK, CreationTypeOK
<1>4. \A d \in Claims : d # r => row'[d] = row[d]
  <2>1. row' = row \/ \E new : row' = [row EXCEPT ![r] = new]
    BY DEF Step, Limit, Lookup, Lock, Expire, Poll, GiveUp, Fetch, Size, Insert, Pend, Payload,
           Push, Undo, Finalize, Release, Crash, storeVars
  <2> QED BY <1>1, <2>1
<1>5. pending' = pending \/ pending' = pending \cup {r}
  BY DEF Step, Limit, Lookup, Lock, Expire, Poll, GiveUp, Fetch, Size, Insert, Pend, Payload,
         Push, Undo, Finalize, Release, Crash, storeVars, queueVars
<1>6. queue' = queue \/ queue' = Append(queue, r)
  BY DEF Step, Limit, Lookup, Lock, Expire, Poll, GiveUp, Fetch, Size, Insert, Pend, Payload,
         Push, Undo, Finalize, Release, Crash, storeVars, queueVars
<1>7. Range(queue) \subseteq Range(queue')
  <2>1. Range(Append(queue, r)) = Range(queue) \cup {r}
    BY <1>1, AppendRange
  <2> QED BY <1>6, <2>1
<1> QED BY <1>3, <1>4, <1>5, <1>7 DEF Queued

\* Where a request goes, with the row and the pending key it has then.
LEMMA FreshStep ==
  ASSUME TypeOK, FreshInv, NEW r \in Claims, Step(r) \/ Crash(r)
  PROVE  FreshInv'
<1>1. ASSUME NEW d \in Claims, d # r PROVE pc'[d] \in Early => ~Exists(d)' /\ d \notin pending'
  BY <1>1, RequestFrame DEF FreshInv, Exists
<1>2. CASE pc[r] \in Early \ {"insert"}
  <2>1. UNCHANGED <<row, pending>>
    BY <1>2 DEF Step, Limit, Lookup, Lock, Expire, Poll, GiveUp, Fetch, Size, Insert, Pend,
                Payload, Push, Undo, Finalize, Release, Crash, Early, storeVars, queueVars
  <2> QED BY <1>1, <1>2, <2>1 DEF FreshInv, Exists
<1>3. CASE pc[r] \notin Early \ {"insert"}
  <2>1. pc'[r] \notin Early
    BY <1>3, ResumeCases
       DEF Step, Limit, Lookup, Lock, Expire, Poll, GiveUp, Fetch, Size, Insert, Pend, Payload,
           Push, Undo, Finalize, Release, Crash, Early, Goto, FailedCreate, FailedAdd,
           FailedFinalize, TypeOK, CreationTypeOK
  <2> QED BY <1>1, <2>1 DEF FreshInv
<1> QED BY <1>2, <1>3

\* What a request does to its row and to the queue, and that it does so late.
LEMMA RequestWrites ==
  ASSUME TypeOK, NEW r \in Claims, Step(r)
  PROVE  /\ \/ UNCHANGED row
            \/ pc[r] = "insert" /\ row' = [row EXCEPT ![r] = FreshRow]
            \/ pc[r] = "undo" /\ row' = [row EXCEPT ![r] = NoRow]
         /\ UNCHANGED queue \/ (pc[r] = "push" /\ queue' = Append(queue, r))
         /\ pc[r] \notin Early \ {"insert"} => pc'[r] \notin Early
         /\ UNCHANGED dlq /\ pending \subseteq pending'
<1>1. CASE pc[r] \in Early \ {"insert"}
  BY <1>1 DEF Step, Limit, Lookup, Lock, Expire, Poll, GiveUp, Fetch, Size, Insert, Pend,
              Payload, Push, Undo, Finalize, Release, Early, storeVars, queueVars
<1>2. CASE pc[r] \notin Early \ {"insert"}
  <2>1. pc'[r] \notin Early
    BY <1>2, ResumeCases
       DEF Step, Limit, Lookup, Lock, Expire, Poll, GiveUp, Fetch, Size, Insert, Pend, Payload,
           Push, Undo, Finalize, Release, Early, Goto, FailedCreate, FailedAdd, FailedFinalize,
           TypeOK, CreationTypeOK
  <2> QED BY <1>2, <2>1 DEF Step, Limit, Lookup, Lock, Expire, Poll, GiveUp, Fetch, Size, Insert,
              Pend, Payload, Push, Undo, Finalize, Release, Early, storeVars, queueVars
<1> QED BY <1>1, <1>2

\* Claims that a client has been given, or may still be.
Promised(c) ==
  \/ pc[c] = "finalize"
  \/ \E k \in Keys : Complete(k) /\ idem[k].claim = c
  \/ \E r \in Claims : pc[r] \in {"fetch", "ok"} /\ claimId[r] = c

\* AcknowledgedIsQueued, from the pending key to the answer: a claim that is not
\* queued is promised only where a request has found its own pending key, which
\* a SETNX that was sent twice has set before.
Unqueued ==
  {c \in Claims : ~Queued(c) /\ (Promised(c) \/ (pc[c] = "pend" /\ c \in pending))}
QueuedInv == Cardinality(Unqueued) <= Suffered({"resent"})

\* No step promises another claim but that of the request on its way to answer.
LEMMA PromisesKept ==
  ASSUME NEW r \in Claims,
         \A d \in Claims : d # r => pc'[d] = pc[d] /\ claimId'[d] = claimId[d],
         \A k \in Keys : Complete(k)' => \/ Complete(k) /\ idem'[k].claim = idem[k].claim
                                         \/ Promised(idem'[k].claim),
         pc'[r] \in {"fetch", "ok"} => Promised(claimId'[r])
  PROVE  \A c \in Claims : Promised(c)' => Promised(c) \/ (c = r /\ pc'[r] = "finalize")
<1> SUFFICES ASSUME NEW c \in Claims, Promised(c)', ~(c = r /\ pc'[r] = "finalize")
             PROVE  Promised(c)
  OBVIOUS
<1>1. CASE pc'[c] = "finalize"
  BY <1>1 DEF Promised
<1>2. ASSUME NEW k \in Keys, Complete(k)', idem'[k].claim = c PROVE Promised(c)
  BY <1>2 DEF Promised
<1>3. ASSUME NEW d \in Claims, pc'[d] \in {"fetch", "ok"}, claimId'[d] = c PROVE Promised(c)
  BY <1>3 DEF Promised
<1> QED BY <1>1, <1>2, <1>3 DEF Promised

\* How a request comes to promise its claim, and what it has done for it by then.
LEMMA PromiseStep ==
  ASSUME TypeOK, FreshInv, NEW r \in Claims, Step(r)
  PROVE  /\ \A c \in Claims : Promised(c)' => Promised(c) \/ (c = r /\ pc'[r] = "finalize")
         /\ pc'[r] = "finalize" => \/ pc[r] = "finalize"
                                   \/ pc[r] = "pend" /\ r \in pending
                                   \/ pc[r] = "push" /\ r \in Range(queue')
         /\ pc'[r] = "push" => r \in payload' \/ pc[r] = "push"
         /\ pc'[r] = "pend" /\ r \in pending' =>
              (pc[r] = "pend" /\ r \in pending) \/ Suffer("resent")
         /\ pc[r] \in Past => pc'[r] \in Past
         /\ payload \subseteq payload'
         /\ \E o : Suffer(o)
<1> DEFINE k == KeyOf[r]
           Same == \A l \in Keys : Complete(l)' => \/ Complete(l) /\ idem'[l].claim = idem[l].claim
                                                   \/ Promised(idem'[l].claim)
           Kept == \A c \in Claims : Promised(c)' => Promised(c) \/ (c = r /\ pc'[r] = "finalize")
<1>a. /\ k \in Keys /\ RecordsOK
      /\ pc \in [Claims -> PC] /\ claimId \in [Claims -> Claims \cup {NoClaim}]
      /\ \A d \in Claims : d # r => pc'[d] = pc[d] /\ claimId'[d] = claimId[d]
  BY CreationAssumption, TypeParts, RequestFrame DEF RequestsOK
<1>b. ASSUME Same, pc'[r] \in {"fetch", "ok"} => Promised(claimId'[r]) PROVE Kept
  BY <1>a, <1>b, PromisesKept
<1>c. UNCHANGED idem => Same
  BY DEF Complete
<1>d. ASSUME NEW p, Goto(r, p) PROVE pc'[r] = p
  BY <1>a, <1>d DEF Goto
<1>e. Complete(k) => Promised(idem[k].claim)
  BY <1>a DEF Promised
<1> HIDE DEF k, Same, Kept
<1>1. CASE Limit(r) \/ Lookup(r) \/ Poll(r) \/ GiveUp(r) \/ Fetch(r)
  <2>1. UNCHANGED <<storeVars, idem>> /\ pc[r] \notin Past
    BY <1>1 DEF Limit, Lookup, Poll, GiveUp, Fetch, storeVars, Past
  <2>2. \/ \E p \in {"lookup", "failed", "lock"} : pc'[r] = p
        \/ Complete(k) /\ pc'[r] = "fetch" /\ claimId'[r] = idem[k].claim
        \/ pc[r] = "fetch" /\ pc'[r] \in {"ok", "failed"} /\ claimId' = claimId
    BY <1>1, <1>a DEF Limit, Lookup, Poll, GiveUp, Fetch, Goto, Identify, k
  <2>3. pc'[r] \in {"fetch", "ok"} => Promised(claimId'[r])
    BY <2>2, <1>e DEF Promised
  <2>4. \E o : Suffer(o)
    BY <1>1 DEF Limit, Lookup, Poll, GiveUp, Fetch, Suffer
  <2> QED BY <1>b, <1>c, <2>1, <2>2, <2>3, <2>4 DEF Kept, storeVars, queueVars
<1>2. CASE Lock(r) \/ Expire(r) \/ Release(r)
  <2>1. /\ UNCHANGED storeVars /\ pc[r] \in {"lock", "expire", "release"}
        /\ pc'[r] \in {"lock", "expire", "wait", "size", "release", "failed"}
        /\ pc[r] = "release" => pc'[r] \in {"release", "failed"}
    BY <1>2, <1>a, <1>d, ResumeCases
       DEF Lock, Expire, Release, Identify
  <2>2. Same
    <3>1. \/ idem' = idem
          \/ idem' = [idem EXCEPT ![k] = [NoRecord EXCEPT !.state = "pending"]]
          \/ idem' = [idem EXCEPT ![k].ttl = "60s"]
          \/ idem' = [idem EXCEPT ![k] = NoRecord]
      BY <1>2 DEF Lock, Expire, Release, k
    <3>2. CASE idem' = [idem EXCEPT ![k].ttl = "60s"]
      <4> DEFINE timed == [idem[k] EXCEPT !.ttl = "60s"]
      <4>1. timed.state = idem[k].state /\ timed.claim = idem[k].claim
        BY <1>a DEF RecordsOK, Record
      <4>2. idem' = [idem EXCEPT ![k] = timed]
        BY <3>2
      <4> HIDE DEF timed
      <4> QED BY <1>a, <4>1, <4>2 DEF Same, Complete, RecordsOK
    <3>3. CASE \E new : idem' = [idem EXCEPT ![k] = new] /\ new.state # "complete"
      BY <1>a, <3>3 DEF Same, Complete, RecordsOK
    <3>4. NoRecord.state # "complete" /\ [NoRecord EXCEPT !.state = "pending"].state # "complete"
      BY DEF NoRecord
    <3> QED BY <1>c, <3>1, <3>2, <3>3, <3>4
  <2>3. \E o : Suffer(o)
    BY <1>2 DEF Lock, Expire, Release
  <2> QED BY <1>b, <2>1, <2>2, <2>3 DEF Kept, storeVars, queueVars, Past
<1>3. CASE Size(r) \/ Insert(r) \/ Undo(r)
  <2>1. /\ UNCHANGED <<queueVars, idem>> /\ pc[r] \in {"size", "insert", "undo"}
        /\ pc'[r] \in {"insert", "release"} \/ (pc[r] = "insert" /\ pc'[r] = "pend")
    BY <1>3, <1>d DEF Size, Insert, Undo, FailedCreate, storeVars
  <2>2. pc[r] = "insert" => r \notin pending
    BY DEF FreshInv, Early
  <2>3. \E o : Suffer(o)
    BY <1>3 DEF Size, Insert, Undo
  <2> QED BY <1>b, <1>c, <2>1, <2>2, <2>3 DEF Kept, queueVars, Past
<1>4. CASE Pend(r)
  <2>1. PICK o \in RedisWrite :
          /\ Suffer(o)
          /\ pending' = IF Executed(o) THEN pending \cup {r} ELSE pending
          /\ Goto(r, Resume(o, "pend", IF r \in pending THEN "finalize" ELSE "payload", FailedAdd))
    BY <1>4 DEF Pend
  <2>2. pc[r] = "pend" /\ UNCHANGED <<idem, payload>>
    BY <1>4 DEF Pend
  <2>3. pc'[r] = Resume(o, "pend", IF r \in pending THEN "finalize" ELSE "payload", FailedAdd)
    BY <2>1, <1>d
  <2>4. /\ pc'[r] \in {"pend", "finalize", "payload", "undo"}
        /\ pc'[r] = "finalize" => r \in pending
        /\ pc'[r] = "pend" => o = "resent"
    BY <2>3 DEF Resume, FailedAdd
  <2> QED BY <1>b, <1>c, <2>1, <2>2, <2>4 DEF Kept, Past
<1>5. CASE Payload(r)
  <2>1. PICK o \in RedisWrite :
          /\ Suffer(o)
          /\ payload' = IF Executed(o) THEN payload \cup {r} ELSE payload
          /\ Goto(r, Resume(o, "payload", "push", FailedAdd))
    BY <1>5 DEF Payload
  <2>2. pc[r] = "payload" /\ UNCHANGED idem
    BY <1>5 DEF Payload
  <2>3. /\ pc'[r] \in {"payload", "push", "undo"}
        /\ pc'[r] = "push" => Executed(o)
    BY <2>1, <1>d DEF Resume, FailedAdd, Executed, RedisWrite
  <2> QED BY <1>b, <1>c, <2>1, <2>2, <2>3 DEF Kept, Past
<1>6. CASE Push(r)
  <2>1. PICK o \in RedisWrite :
          /\ Suffer(o)
          /\ queue' = IF Executed(o) THEN Append(queue, r) ELSE queue
          /\ Goto(r, Resume(o, "push", "finalize", FailedAdd))
    BY <1>6 DEF Push
  <2>2. pc[r] = "push" /\ UNCHANGED <<idem, payload>>
    BY <1>6 DEF Push
  <2>3. /\ pc'[r] \in {"finalize", "push", "undo"}
        /\ pc'[r] = "finalize" => o = "ok"
    BY <2>1, <1>d DEF Resume, FailedAdd
  <2>4. o = "ok" => r \in Range(queue')
    <3>1. queue \in Seq(Claims)
      BY DEF TypeOK, StoreTypeOK
    <3>2. Range(Append(queue, r)) = Range(queue) \cup {r}
      BY <3>1, AppendRange
    <3> QED BY <2>1, <3>2 DEF Executed
  <2> QED BY <1>b, <1>c, <2>1, <2>2, <2>3, <2>4 DEF Kept, Past
<1>7. CASE Finalize(r)
  <2>1. PICK o \in RedisWrite : Suffer(o) /\ Goto(r, Resume(o, "finalize", "ok", FailedFinalize))
    BY <1>7 DEF Finalize
  <2>2. pc[r] = "finalize" /\ UNCHANGED storeVars /\ claimId[r] = r
    BY <1>7, TypeParts DEF Finalize, RequestsOK, Critical
  <2>3. pc'[r] \in {"finalize", "ok", "release"} /\ claimId' = claimId
    BY <2>1, <1>d DEF Resume, FailedFinalize, FailedCreate, Goto
  <2>4. Promised(r)
    BY <2>2 DEF Promised
  <2>5. Same
    <3>1. \/ idem' = idem
          \/ idem' = [idem EXCEPT ![k] = [state |-> "complete", claim |-> r, ttl |-> "24h"]]
      BY <1>7 DEF Finalize, k
    <3> QED BY <1>a, <2>4, <3>1 DEF Same, Complete, RecordsOK
  <2> QED BY <1>b, <2>1, <2>2, <2>3, <2>4, <2>5 DEF Kept, storeVars, queueVars, Past
<1> QED BY <1>1, <1>2, <1>3, <1>4, <1>5, <1>6, <1>7 DEF Step

\* Each step of a request preserves the invariant.
LEMMA QueuedStep ==
  ASSUME TypeOK, FreshInv, QueuedInv, NEW r \in Claims, Step(r) \/ Crash(r)
  PROVE  QueuedInv'
<1>1. \A d \in Claims : /\ d # r => /\ pc'[d] = pc[d] /\ claimId'[d] = claimId[d]
                                    /\ d \in pending' <=> d \in pending
                        /\ Queued(d) => Queued(d)'
  BY RequestFrame
<1>2. /\ Unqueued' \subseteq Unqueued \cup {r}
      /\ \E o : Suffer(o) /\ (o \in {"resent"} \/ Unqueued' \subseteq Unqueued)
  <2>1. CASE Step(r)
    <3>1. \A c \in Claims : Promised(c)' => Promised(c) \/ (c = r /\ pc'[r] = "finalize")
      BY <2>1, PromiseStep
    <3>2. \A c \in Unqueued' : c # r => c \in Unqueued
      BY <1>1, <3>1 DEF Unqueued
    <3>3. r \in Unqueued' => r \in Unqueued \/ Suffer("resent")
      <4> SUFFICES ASSUME r \in Unqueued', ~Suffer("resent") PROVE r \in Unqueued
        OBVIOUS
      <4>1. ~Queued(r) /\ r \notin Range(queue')
        BY <1>1 DEF Unqueued, Queued
      <4>2. CASE Promised(r)' /\ pc'[r] # "finalize"
        BY <3>1, <4>1, <4>2 DEF Unqueued
      <4>3. CASE pc'[r] = "finalize"
        <5>1. pc[r] = "finalize" \/ (pc[r] = "pend" /\ r \in pending)
          BY <2>1, <4>1, <4>3, PromiseStep
        <5> QED BY <4>1, <5>1 DEF Unqueued, Promised
      <4>4. CASE pc'[r] = "pend" /\ r \in pending'
        BY <2>1, <4>1, <4>4, PromiseStep DEF Unqueued
      <4> QED BY <4>2, <4>3, <4>4 DEF Unqueued
    <3>4. Unqueued' \subseteq Unqueued \cup {r}
      BY <3>2
    <3>5. \E o : Suffer(o)
      BY <2>1, PromiseStep
    <3> HIDE DEF Unqueued
    <3> QED BY <3>2, <3>3, <3>4, <3>5
  <2>2. CASE Crash(r)
    <3>1. pc'[r] = "failed" /\ UNCHANGED <<queue, pending, idem>> /\ Suffer("crash")
      BY <2>2 DEF Crash, Goto, storeVars, queueVars, TypeOK, CreationTypeOK
    <3>2. \A c \in Claims : Promised(c)' => Promised(c)
      BY <1>1, <3>1, PromisesKept DEF Complete
    <3>3. Unqueued' \subseteq Unqueued
      BY <1>1, <3>1, <3>2 DEF Unqueued, Queued
    <3> QED BY <3>1, <3>3
  <2> QED BY <2>1, <2>2
<1>3. IsFiniteSet(Unqueued) /\ Cardinality(Unqueued) <= Suffered({"resent"})
  BY ClaimsAssumption, FS_Subset DEF Unqueued, QueuedInv
<1>4. DisruptionsTypeOK /\ {"resent"} \in SUBSET AllKinds
  BY DEF TypeOK, AllKinds
<1> HIDE DEF Unqueued
<1> QED BY <1>2, <1>3, <1>4, CountKept DEF QueuedInv

\* So does everything else that can happen.
LEMMA QueuedNext ==
  TypeOK /\ FreshInv /\ QueuedInv /\ [CreationNext]_vars => FreshInv' /\ QueuedInv'
<1> SUFFICES ASSUME TypeOK, FreshInv, QueuedInv, [CreationNext]_vars
             PROVE  FreshInv' /\ QueuedInv'
  OBVIOUS
<1>1. ASSUME NEW r \in Claims, Step(r) \/ Crash(r) PROVE FreshInv' /\ QueuedInv'
  BY <1>1, FreshStep, QueuedStep
<1>2. ASSUME UNCHANGED <<row, queue, pending, pc, claimId>>,
             \A k \in Keys : Complete(k)' => Complete(k) /\ idem'[k].claim = idem[k].claim,
             \E o : Suffer(o)
      PROVE  FreshInv' /\ QueuedInv'
  <2>1. Unqueued' \subseteq Unqueued
    BY <1>2 DEF Unqueued, Queued, Promised
  <2>2. IsFiniteSet(Unqueued) /\ Cardinality(Unqueued) <= Suffered({"resent"})
    BY ClaimsAssumption, FS_Subset DEF Unqueued, QueuedInv
  <2>3. DisruptionsTypeOK /\ {"resent"} \in SUBSET AllKinds
    BY DEF TypeOK, AllKinds
  <2>4. FreshInv'
    BY <1>2 DEF FreshInv, Exists
  <2> HIDE DEF Unqueued
  <2>5. Cardinality(Unqueued') <= Suffered({"resent"})'
    BY <1>2, <2>1, <2>2, <2>3, CountKept
  <2> QED BY <2>4, <2>5 DEF QueuedInv
<1>3. ASSUME NEW k \in Keys, ExpireRecord(k) PROVE FreshInv' /\ QueuedInv'
  <2>1. UNCHANGED <<row, queue, pending, pc, claimId>> /\ \E o : Suffer(o)
    BY <1>3 DEF ExpireRecord, storeVars, queueVars, Suffer
  <2>2. \A l \in Keys : Complete(l)' => Complete(l) /\ idem'[l].claim = idem[l].claim
    <3>1. RecordsOK /\ NoRecord.state # "complete" /\ idem' = [idem EXCEPT ![k] = NoRecord]
      BY <1>3, TypeParts DEF NoRecord, ExpireRecord
    <3> QED BY <3>1, NothingCompleted
  <2> QED BY <1>2, <2>1, <2>2
<1>4. CASE UNCHANGED vars
  BY <1>2, <1>4 DEF vars, storeVars, queueVars, creationVars, Complete, Suffer
<1> QED BY <1>1, <1>3, <1>4 DEF CreationNext

\* At first there is no row and nothing is queued or promised.
LEMMA QueuedInit == Init => FreshInv /\ QueuedInv
<1> SUFFICES ASSUME Init PROVE FreshInv /\ QueuedInv
  OBVIOUS
<1>1. FreshInv /\ Unqueued = {}
  BY DEF Init, CreationInit, NoRow, NoRecord, FreshInv, Unqueued, Promised, Exists, Complete
<1>2. Suffered({"resent"}) = 0
  BY NothingSuffered DEF Init, AllKinds
<1> QED BY <1>1, <1>2, FS_EmptySet DEF QueuedInv

\* A client that is given a claim finds it in the queue, whatever happens, but
\* for one claim at most for each command that was sent twice.
THEOREM AcknowledgedClaimsAreQueued == Spec => []AcknowledgedIsQueued
<1>1. Init => FreshInv /\ QueuedInv
  BY QueuedInit
<1>2. TypeOK /\ FreshInv /\ QueuedInv /\ [CreationNext]_vars => FreshInv' /\ QueuedInv'
  BY QueuedNext
<1>3. TypeOK /\ QueuedInv => AcknowledgedIsQueued
  <2> SUFFICES ASSUME TypeOK, QueuedInv PROVE AcknowledgedIsQueued
    OBVIOUS
  <2> DEFINE missing == {c \in Claims : /\ \E r \in Claims : pc[r] = "ok" /\ claimId[r] = c
                                        /\ c \notin Range(queue)}
  <2>1. IsFiniteSet(Unqueued) /\ missing \subseteq Unqueued
    BY ClaimsAssumption, FS_Subset DEF Unqueued, Promised, Queued
  <2>2. /\ Cardinality(missing) <= Cardinality(Unqueued)
        /\ Cardinality(missing) \in Nat /\ Cardinality(Unqueued) \in Nat
    BY <2>1, FS_Subset, FS_CardinalityType
  <2>3. Suffered({"resent"}) \in Nat
    BY SufferedIsNat DEF TypeOK, AllKinds
  <2> QED BY <2>2, <2>3 DEF QueuedInv, AcknowledgedIsQueued
<1> QED BY <1>1, <1>2, <1>3, TypeCorrect, PTL DEF Spec

\* A row that is doomed by a step of r is that of r, and counted.
LEMMA OrphanCounted ==
  ASSUME TypeOK, OrphanInv, NEW r \in Claims, NEW o, Suffer(o), Doomed' \subseteq Doomed \cup {r},
         o \in OrphanKinds \/ Doomed' \subseteq Doomed
  PROVE  OrphanInv'
<1>1. IsFiniteSet(Doomed) /\ Cardinality(Doomed) <= Suffered(OrphanKinds)
  BY ClaimsAssumption, FS_Subset DEF Doomed, OrphanInv
<1>2. DisruptionsTypeOK /\ OrphanKinds \in SUBSET AllKinds
  BY DEF TypeOK, OrphanKinds, AllKinds
<1> HIDE DEF Doomed
<1>3. Cardinality(Doomed') <= Suffered(OrphanKinds)'
  BY <1>1, <1>2, CountKept
<1> QED BY <1>3 DEF OrphanInv

\* Each step of a request preserves the invariant.
LEMMA OrphanStep ==
  ASSUME TypeOK, FreshInv, OrphanInv, NEW r \in Claims, Step(r) \/ Crash(r)
  PROVE  OrphanInv'
<1> DEFINE Dooms == /\ Exists(r)' /\ ~Queued(r)'
                    /\ \/ pc'[r] \in {"finalize", "release"} \cup Answered
                       \/ pc'[r] = "pend" /\ r \in pending'
<1>a. RequestsOK /\ DisruptionsTypeOK /\ row \in [Claims -> Row]
  BY TypeParts DEF StoreTypeOK
<1>b. ASSUME NEW p, Goto(r, p) PROVE pc'[r] = p
  BY <1>a, <1>b DEF Goto, RequestsOK
<1>c. ASSUME NEW d \in Claims, d # r, d \in Doomed' PROVE d \in Doomed
  BY <1>c, RequestFrame DEF Doomed, Exists
<1>d. Queued(r) => Queued(r)'
  BY RequestFrame
<1>e. /\ Doomed' \subseteq Doomed \cup {r}
      /\ r \in Doomed \/ ~Dooms => Doomed' \subseteq Doomed
  <2>1. r \in Doomed' => Dooms
    BY DEF Doomed
  <2>2. Doomed' \subseteq Claims
    BY DEF Doomed
  <2> HIDE DEF Dooms
  <2> QED BY <1>c, <2>1, <2>2
<1> HIDE DEF Dooms
<1>f. \A o : Suffer(o) /\ (o \in OrphanKinds \/ r \in Doomed \/ ~Dooms) => OrphanInv'
  BY <1>e, OrphanCounted
<1>o. Suffer("ok") <=> UNCHANGED disruptions
  BY DisruptionsAssumption DEF Suffer, AllKinds
<1>1. CASE pc[r] \in Early \ {"insert"}
  <2>1. UNCHANGED row /\ \E o : Suffer(o)
    BY <1>1, <1>o DEF Step, Limit, Lookup, Lock, Expire, Poll, GiveUp, Fetch, Size, Insert,
         Pend, Payload, Push, Undo, Finalize, Release, Crash, Early, storeVars
  <2>2. ~Dooms
    BY <1>1, <2>1 DEF FreshInv, Exists, Dooms
  <2> QED BY <1>f, <2>1, <2>2
<1>2. CASE Crash(r)
  BY <1>2, <1>f DEF Crash, OrphanKinds
<1>3. CASE Insert(r)
  <2>1. PICK o \in DbWrite :
          /\ Suffer(o)
          /\ row' = IF Executed(o) THEN [row EXCEPT ![r] = FreshRow] ELSE row
          /\ Goto(r, IF Throws(o) THEN FailedCreate ELSE "pend")
    BY <1>3 DEF Insert
  <2>2. r \notin pending /\ UNCHANGED pending
    BY <1>3 DEF Insert, FreshInv, Early, queueVars
  <2>3. CASE o = "ok"
    <3>1. pc'[r] = "pend"
      BY <1>b, <2>1, <2>3 DEF Throws
    <3> QED BY <1>f, <2>1, <2>2, <3>1 DEF Dooms, Answered
  <2> QED BY <1>f, <2>1, <2>3 DEF DbWrite, OrphanKinds
<1>4. CASE Pend(r)
  <2>1. PICK o \in RedisWrite :
          /\ Suffer(o)
          /\ pending' = IF Executed(o) THEN pending \cup {r} ELSE pending
          /\ Goto(r, Resume(o, "pend", IF r \in pending THEN "finalize" ELSE "payload",
                            FailedAdd))
    BY <1>4 DEF Pend
  <2>2. pc[r] = "pend" /\ UNCHANGED <<row, queue>>
    BY <1>4 DEF Pend
  <2>3. CASE r \in pending
    <3>1. r \in Doomed \/ ~Dooms
      BY <2>2, <2>3 DEF Doomed, Dooms, Queued, Exists
    <3> QED BY <1>f, <2>1, <3>1
  <2>4. CASE r \notin pending /\ o # "resent"
    <3>1. pc'[r] \in {"payload", "undo"}
      BY <1>b, <2>1, <2>4 DEF Resume, FailedAdd
    <3> QED BY <1>f, <2>1, <3>1 DEF Dooms, Answered
  <2> QED BY <1>f, <2>1, <2>3, <2>4 DEF OrphanKinds
<1>5. CASE Payload(r)
  <2>1. (\E o : Suffer(o)) /\ \E p \in {"payload", "push", "undo"} : Goto(r, p)
    BY <1>5, ResumeCases DEF Payload, FailedAdd
  <2> QED BY <1>b, <1>f, <2>1 DEF Dooms, Answered
<1>6. CASE Push(r)
  <2>1. PICK o \in RedisWrite :
          /\ Suffer(o)
          /\ queue' = IF Executed(o) THEN Append(queue, r) ELSE queue
          /\ Goto(r, Resume(o, "push", "finalize", FailedAdd))
    BY <1>6 DEF Push
  <2>2. CASE o = "ok"
    <3>1. r \in Range(queue')
      BY <2>1, <2>2, AppendRange DEF Executed, TypeOK, StoreTypeOK
    <3> QED BY <1>f, <2>1, <3>1 DEF Dooms, Queued
  <2>3. CASE o # "ok"
    <3>1. pc'[r] \in {"push", "undo"}
      BY <1>b, <2>1, <2>3 DEF Resume, FailedAdd
    <3> QED BY <1>f, <2>1, <3>1 DEF Dooms, Answered
  <2> QED BY <2>2, <2>3
<1>7. CASE Undo(r)
  <2>1. PICK o \in DbWrite :
          Suffer(o) /\ row' = IF Executed(o) THEN [row EXCEPT ![r] = NoRow] ELSE row
    BY <1>7 DEF Undo
  <2>2. CASE Executed(o)
    <3>1. ~Exists(r)'
      BY <1>a, <2>1, <2>2 DEF Exists, NoRow
    <3> QED BY <1>f, <2>1, <3>1 DEF Dooms
  <2> QED BY <1>f, <2>1, <2>2 DEF Executed, DbWrite, OrphanKinds
<1>8. CASE Finalize(r) \/ Release(r)
  <2>1. /\ (\E o : Suffer(o)) /\ pc[r] \in {"finalize", "release"}
        /\ UNCHANGED <<row, queue>>
    BY <1>8 DEF Finalize, Release, storeVars, queueVars
  <2>2. r \in Doomed \/ ~Dooms
    BY <2>1 DEF Doomed, Dooms, Queued, Exists
  <2> QED BY <1>f, <2>1, <2>2
<1>9. CASE Limit(r) \/ Lookup(r) \/ Lock(r) \/ Expire(r) \/ Poll(r) \/ GiveUp(r) \/ Fetch(r)
           \/ Size(r)
  <2>1. pc[r] \in Early \ {"insert"}
    BY <1>9 DEF Limit, Lookup, Lock, Expire, Poll, GiveUp, Fetch, Size, Early
  <2> QED BY <1>1, <2>1
<1> QED BY <1>2, <1>3, <1>4, <1>5, <1>6, <1>7, <1>8, <1>9 DEF Step

\* So does everything else that can happen.
LEMMA OrphanNext == TypeOK /\ FreshInv /\ OrphanInv /\ [CreationNext]_vars => OrphanInv'
<1> SUFFICES ASSUME TypeOK, FreshInv, OrphanInv, [CreationNext]_vars PROVE OrphanInv'
  OBVIOUS
<1>1. ASSUME NEW r \in Claims, Step(r) \/ Crash(r) PROVE OrphanInv'
  BY <1>1, OrphanStep
<1>2. CASE UNCHANGED <<row, queue, pending, pc>> /\ \E o : Suffer(o)
  <2>1. Doomed' = Doomed
    BY <1>2 DEF Doomed, Queued, Exists
  <2>2. PICK n \in Nat : Suffered(OrphanKinds)' = Suffered(OrphanKinds) + n
    <3>1. PICK o : Suffer(o)
      BY <1>2
    <3>2. Suffered(OrphanKinds)' = Suffered(OrphanKinds) + (IF o \in OrphanKinds THEN 1 ELSE 0)
      BY <3>1, SufferCounts DEF TypeOK, OrphanKinds, AllKinds
    <3> QED BY <3>2
  <2>3. Suffered(OrphanKinds) \in Nat /\ Cardinality(Doomed) \in Nat
    <3>1. IsFiniteSet(Doomed)
      BY ClaimsAssumption, FS_Subset DEF Doomed
    <3> QED BY <3>1, FS_CardinalityType, SufferedIsNat DEF TypeOK, OrphanKinds, AllKinds
  <2>4. Cardinality(Doomed) <= Suffered(OrphanKinds) + n
    BY <2>2, <2>3 DEF OrphanInv
  <2> QED BY <2>1, <2>2, <2>4 DEF OrphanInv
<1>3. ASSUME NEW k \in Keys, ExpireRecord(k) PROVE OrphanInv'
  BY <1>2, <1>3 DEF ExpireRecord, storeVars, queueVars, Suffer
<1>4. CASE UNCHANGED vars
  BY <1>2, <1>4 DEF vars, storeVars, queueVars, creationVars, Suffer
<1> QED BY <1>1, <1>3, <1>4 DEF CreationNext

\* A lock is left without an expiry only by a step between its SETNX and its
\* PEXPIRE that goes wrong.
LockKinds == {"crash", "resent", "refused", "unanswered"}
LocksInv == IsFiniteSet(OrphanLocks) /\ Cardinality(OrphanLocks) <= Suffered(LockKinds)

\* A step of r leaves no other lock behind than that of its key, and that only
\* by a failure.
LEMMA LocksStep ==
  ASSUME TypeOK, NEW r \in Claims, Step(r) \/ Crash(r)
  PROVE  /\ OrphanLocks' \subseteq OrphanLocks \cup {KeyOf[r]}
         /\ \E o : Suffer(o) /\ (o \in LockKinds \/ OrphanLocks' \subseteq OrphanLocks)
<1> DEFINE k == KeyOf[r]
<1>1. k \in Keys /\ idem \in [Keys -> Record] /\ pc \in [Claims -> PC]
  BY CreationAssumption DEF TypeOK, CreationTypeOK
<1>2. \A d \in Claims : d # r => pc'[d] = pc[d]
  BY RequestFrame
<1>3. \A l \in Keys : l # k => idem'[l] = idem[l]
  BY <1>1 DEF Step, Limit, Lookup, Lock, Expire, Poll, GiveUp, Fetch, Size, Insert, Pend,
              Payload, Push, Undo, Finalize, Release, Crash
<1>4. OrphanLocks' \subseteq OrphanLocks \cup {k}
  BY <1>2, <1>3 DEF OrphanLocks
<1>5. ASSUME NEW o, Suffer(o), o \in LockKinds \/ (k \in OrphanLocks' => k \in OrphanLocks)
      PROVE  /\ OrphanLocks' \subseteq OrphanLocks \cup {k}
             /\ \E q : Suffer(q) /\ (q \in LockKinds \/ OrphanLocks' \subseteq OrphanLocks)
  BY <1>4, <1>5
<1>6. CASE Lock(r)
  <2>1. PICK o \in RedisWrite :
          /\ Suffer(o)
          /\ idem' = IF Executed(o) /\ idem[k].state = "none"
                     THEN [idem EXCEPT ![k] = [NoRecord EXCEPT !.state = "pending"]]
                     ELSE idem
          /\ Goto(r, Resume(o, "lock", IF Acquired(k) THEN "expire" ELSE "wait", "failed"))
    BY <1>6 DEF Lock
  <2>2. CASE o = "ok" /\ idem[k].state = "none"
    <3>1. pc'[r] = "expire"
      BY <1>1, <2>1, <2>2 DEF Goto, Resume, Acquired
    <3>2. k \notin OrphanLocks'
      BY <3>1 DEF OrphanLocks
    <3> QED BY <1>5, <2>1, <3>2
  <2>3. CASE o = "ok" /\ idem[k].state # "none"
    <3>1. UNCHANGED idem /\ pc[r] = "lock"
      BY <1>6, <2>1, <2>3 DEF Lock
    <3>2. k \in OrphanLocks' => k \in OrphanLocks
      BY <1>2, <3>1 DEF OrphanLocks
    <3> QED BY <1>5, <2>1, <3>2
  <2>4. CASE o # "ok"
    <3>1. o \in LockKinds
      BY <2>1, <2>4 DEF RedisWrite, LockKinds
    <3> QED BY <1>5, <2>1, <3>1
  <2> QED BY <2>2, <2>3, <2>4
<1>7. CASE Expire(r)
  <2>1. PICK o \in RedisWrite :
          /\ Suffer(o)
          /\ idem' = IF Executed(o) /\ idem[k].state # "none"
                     THEN [idem EXCEPT ![k].ttl = "60s"] ELSE idem
    BY <1>7 DEF Expire
  <2>2. CASE o = "ok"
    <3>1. idem'[k].state = "none" \/ idem'[k].ttl = "60s"
      BY <1>1, <2>1, <2>2 DEF Executed, Record
    <3>2. k \notin OrphanLocks'
      BY <3>1 DEF OrphanLocks
    <3> QED BY <1>5, <2>1, <3>2
  <2>3. CASE o # "ok"
    <3>1. o \in LockKinds
      BY <2>1, <2>3 DEF RedisWrite, LockKinds
    <3> QED BY <1>5, <2>1, <3>1
  <2> QED BY <2>2, <2>3
<1>8. CASE Crash(r)
  <2>1. Suffer("crash") /\ "crash" \in LockKinds
    BY <1>8 DEF Crash, LockKinds
  <2> QED BY <1>5, <2>1
<1>9. CASE Finalize(r) \/ Release(r)
  <2>1. PICK o : /\ Suffer(o)
                 /\ \/ idem' = [idem EXCEPT ![k] = [state |-> "complete", claim |-> r, ttl |-> "24h"]]
                    \/ idem' = [idem EXCEPT ![k] = NoRecord]
                    \/ UNCHANGED idem
    BY <1>9 DEF Finalize, Release
  <2>2. pc[r] # "expire"
    BY <1>9 DEF Finalize, Release
  <2>3. k \in OrphanLocks' => UNCHANGED idem
    BY <1>1, <2>1 DEF OrphanLocks, NoRecord
  <2>4. k \in OrphanLocks' => k \in OrphanLocks
    BY <1>2, <2>2, <2>3 DEF OrphanLocks
  <2> QED BY <1>5, <2>1, <2>4
<1>10. CASE ~(Lock(r) \/ Expire(r) \/ Crash(r) \/ Finalize(r) \/ Release(r))
  <2>1. UNCHANGED idem /\ pc[r] # "expire" /\ \E o : Suffer(o)
    BY <1>10 DEF Step, Limit, Lookup, Poll, GiveUp, Fetch, Size, Insert, Pend, Payload, Push,
                 Undo, Suffer
  <2>2. k \in OrphanLocks' => k \in OrphanLocks
    BY <1>2, <2>1 DEF OrphanLocks
  <2> QED BY <1>5, <2>1, <2>2
<1> QED BY <1>6, <1>7, <1>8, <1>9, <1>10

\* Nor does anything else.
LEMMA LocksNext == TypeOK /\ LocksInv /\ [CreationNext]_vars => LocksInv'
<1> SUFFICES ASSUME TypeOK, LocksInv, [CreationNext]_vars PROVE LocksInv'
  OBVIOUS
<1>1. DisruptionsTypeOK /\ LockKinds \in SUBSET AllKinds
  BY DEF TypeOK, LockKinds, AllKinds
<1>2. PICK x : /\ OrphanLocks' \subseteq OrphanLocks \cup {x}
               /\ \E o : Suffer(o) /\ (o \in LockKinds \/ OrphanLocks' \subseteq OrphanLocks)
  <2>1. ASSUME NEW r \in Claims, Step(r) \/ Crash(r)
        PROVE  \E x : /\ OrphanLocks' \subseteq OrphanLocks \cup {x}
                      /\ \E o : Suffer(o) /\ (o \in LockKinds \/ OrphanLocks' \subseteq OrphanLocks)
    BY <2>1, LocksStep
  <2>2. ASSUME OrphanLocks' \subseteq OrphanLocks, NEW o, Suffer(o)
        PROVE  \E x : /\ OrphanLocks' \subseteq OrphanLocks \cup {x}
                      /\ \E q : Suffer(q) /\ (q \in LockKinds \/ OrphanLocks' \subseteq OrphanLocks)
    <3> HIDE DEF OrphanLocks
    <3> QED BY <2>2
  <2>3. ASSUME NEW k \in Keys, ExpireRecord(k)
        PROVE  OrphanLocks' \subseteq OrphanLocks /\ \E o : Suffer(o)
    <3>1. /\ \E o : Suffer(o)
          /\ idem' = [idem EXCEPT ![k] = NoRecord] /\ UNCHANGED pc
      BY <2>3 DEF ExpireRecord, Suffer
    <3> QED BY <3>1 DEF OrphanLocks, NoRecord, TypeOK, CreationTypeOK
  <2>4. CASE UNCHANGED vars
    <3>1. OrphanLocks' = OrphanLocks /\ Suffer("ok")
      BY <2>4 DEF vars, creationVars, OrphanLocks, Suffer
    <3> QED BY <2>2, <3>1
  <2> QED BY <2>1, <2>2, <2>3, <2>4 DEF CreationNext
<1>3. IsFiniteSet(OrphanLocks')
  BY <1>2, CardinalityChange DEF LocksInv
<1>4. Cardinality(OrphanLocks') <= Suffered(LockKinds)'
  <2> HIDE DEF OrphanLocks
  <2> QED BY <1>1, <1>2, CountKept DEF LocksInv
<1> QED BY <1>3, <1>4 DEF LocksInv

\* A request leaves nothing behind for good, a row that nobody will process or
\* a lock that does not expire, but by a disruption: one thing for each at most,
\* however many requests are interleaved.
THEOREM OrphansAreBounded == Spec => []OrphansBounded
<1>1. Init => OrphanInv
  <2> SUFFICES ASSUME Init PROVE OrphanInv
    OBVIOUS
  <2>1. Doomed = {}
    BY DEF Init, Doomed, NoRow, Exists
  <2>2. Suffered(OrphanKinds) = 0
    BY NothingSuffered DEF Init, OrphanKinds, AllKinds
  <2> QED BY <2>1, <2>2, FS_EmptySet DEF OrphanInv
<1>2. TypeOK /\ FreshInv /\ OrphanInv /\ [CreationNext]_vars => OrphanInv'
  BY OrphanNext
<1>3. TypeOK /\ OrphanInv /\ LocksInv => OrphansBounded
  <2> SUFFICES ASSUME TypeOK, OrphanInv, LocksInv PROVE OrphansBounded
    OBVIOUS
  <2>1. IsFiniteSet(Doomed) /\ Orphans \subseteq Doomed
    BY ClaimsAssumption, FS_Subset DEF Doomed, Orphans, Queued
  <2>2. /\ Cardinality(Orphans) <= Cardinality(Doomed)
        /\ Cardinality(Orphans) \in Nat /\ Cardinality(Doomed) \in Nat
    BY <2>1, FS_Subset, FS_CardinalityType
  <2>3. Suffered(OrphanKinds) \in Nat
    BY SufferedIsNat DEF TypeOK, OrphanKinds, AllKinds
  <2>4. Cardinality(Orphans) <= Suffered(OrphanKinds)
    <3> HIDE DEF OrphanKinds
    <3> QED BY <2>2, <2>3 DEF OrphanInv
  <2> QED BY <2>4 DEF OrphansBounded, OrphanKinds, LocksInv, LockKinds
<1>4. Spec => []FreshInv
  <2>1. Init => FreshInv /\ QueuedInv
    BY QueuedInit
  <2>2. TypeOK /\ FreshInv /\ QueuedInv /\ [CreationNext]_vars => FreshInv' /\ QueuedInv'
    BY QueuedNext
  <2> QED BY <2>1, <2>2, TypeCorrect, PTL DEF Spec
<1>5. Spec => []LocksInv
  <2>1. Init => LocksInv
    <3> SUFFICES ASSUME Init PROVE LocksInv
      OBVIOUS
    <3>1. OrphanLocks = {}
      BY DEF Init, CreationInit, NoRecord, OrphanLocks
    <3>2. Suffered(LockKinds) = 0
      BY NothingSuffered DEF Init, LockKinds, AllKinds
    <3> QED BY <3>1, <3>2, FS_EmptySet DEF LocksInv
  <2> QED BY <2>1, LocksNext, TypeCorrect, PTL DEF Spec
<1> QED BY <1>1, <1>2, <1>3, <1>4, <1>5, TypeCorrect, PTL DEF Spec
-----------------------------------------------------------------------------
(***************************************************************************)
(* ClaimCreation implements IdempotentCreation: as long as nothing that    *)
(* happens takes a record away, an idempotency key is bound to one claim   *)
(* and for good.                                                           *)
(***************************************************************************)
Losing == {"stall", "expired", "unanswered", "resent"}

\* A key that is worked on has a pending record, which no reader has read; a
\* complete record stays; and what was read from it, it still says.
HeldIsPending == \A k \in Keys : InProgress(k) # {} => idem[k].state = "pending"
CompleteLasts == \A k \in Keys : Complete(k) => idem[k].ttl = "24h"
AnswersAreBound ==
  \A r \in Claims : pc[r] \in {"fetch", "ok"} => idem[KeyOf[r]].claim = claimId[r]
KeptInv == RecordsKept => HeldIsPending /\ CompleteLasts /\ AnswersAreBound

\* The counters only grow.
LEMMA KeptBefore ==
  ASSUME DisruptionsTypeOK, NEW o, Suffer(o), RecordsKept'
  PROVE  RecordsKept /\ o \notin Losing
<1>1. Losing \subseteq AllKinds
  BY DEF Losing, AllKinds
<1> QED BY <1>1, NeverBefore DEF RecordsKept, Losing

\* Nobody has read the record of a key that is worked on.
LEMMA NobodyHasRead ==
  ASSUME TypeOK, HeldIsPending, AnswersAreBound,
         NEW r \in Claims, pc[r] \in Critical, NEW s \in Claims, KeyOf[s] = KeyOf[r]
  PROVE  pc[s] \notin {"fetch", "ok"}
<1>1. idem[KeyOf[r]].state = "pending"
  BY CreationAssumption DEF HeldIsPending, InProgress
<1>2. idem[KeyOf[r]].claim = NoClaim
  BY <1>1, CreationAssumption DEF TypeOK, CreationTypeOK
<1> QED BY <1>2 DEF AnswersAreBound, TypeOK, CreationTypeOK

\* A step of r that leaves the records alone.
LEMMA QuietKept ==
  ASSUME TypeOK, HeldIsPending, CompleteLasts, AnswersAreBound,
         NEW r \in Claims, NEW p, pc' = [pc EXCEPT ![r] = p], UNCHANGED idem,
         \A s \in Claims : s # r => claimId'[s] = claimId[s],
         p \in Critical => pc[r] \in Critical,
         p \in {"fetch", "ok"} => claimId'[r] = idem[KeyOf[r]].claim
  PROVE  (HeldIsPending /\ CompleteLasts /\ AnswersAreBound)'
<1>1. pc \in [Claims -> PC]
  BY DEF TypeOK, CreationTypeOK
<1>2. ASSUME NEW k \in Keys PROVE InProgress(k)' \subseteq InProgress(k)
  BY <1>1 DEF InProgress
<1>3. HeldIsPending'
  BY <1>2 DEF HeldIsPending
<1>4. CompleteLasts'
  BY DEF CompleteLasts, Complete
<1>5. AnswersAreBound'
  BY <1>1 DEF AnswersAreBound
<1> QED BY <1>3, <1>4, <1>5

\* A step of r that changes the record of its key while it works on it, or
\* takes it up, and after which nobody has read that record but r.
LEMMA RecordKept ==
  ASSUME TypeOK, HeldIsPending, CompleteLasts, AnswersAreBound,
         NEW r \in Claims,
         \A s \in Claims : s # r => pc'[s] = pc[s] /\ claimId'[s] = claimId[s],
         \A k \in Keys : k # KeyOf[r] => idem'[k] = idem[k],
         \A s \in Claims : KeyOf[s] = KeyOf[r] => pc[s] \notin {"fetch", "ok"},
         \/ idem'[KeyOf[r]].state = "pending"
         \/ pc'[r] \notin Critical /\ \A s \in InProgress(KeyOf[r]) : s = r,
         idem'[KeyOf[r]].state = "complete" => idem'[KeyOf[r]].ttl = "24h",
         pc'[r] \in {"fetch", "ok"} => claimId'[r] = idem'[KeyOf[r]].claim
  PROVE  (HeldIsPending /\ CompleteLasts /\ AnswersAreBound)'
<1>1. KeyOf \in [Claims -> Keys]
  BY CreationAssumption
<1>2. ASSUME NEW k \in Keys, k # KeyOf[r]
      PROVE  InProgress(k)' = InProgress(k) /\ idem'[k] = idem[k]
  BY <1>2 DEF InProgress
<1>3. HeldIsPending'
  <2>1. InProgress(KeyOf[r])' = {} \/ idem'[KeyOf[r]].state = "pending"
    BY DEF InProgress
  <2> QED BY <1>2, <2>1 DEF HeldIsPending
<1>4. CompleteLasts'
  BY <1>2 DEF CompleteLasts, Complete
<1>5. AnswersAreBound'
  <2> SUFFICES ASSUME NEW s \in Claims, pc'[s] \in {"fetch", "ok"}
               PROVE  idem'[KeyOf[s]].claim = claimId'[s]
    BY DEF AnswersAreBound
  <2>1. CASE s = r
    BY <2>1
  <2>2. CASE s # r
    <3>1. pc[s] \in {"fetch", "ok"} /\ KeyOf[s] # KeyOf[r] /\ KeyOf[s] \in Keys
      BY <1>1, <2>2
    <3> QED BY <1>2, <2>2, <3>1 DEF AnswersAreBound
  <2> QED BY <2>1, <2>2
<1> QED BY <1>3, <1>4, <1>5

\* The step that takes the lock.
LEMMA LockKept ==
  ASSUME TypeOK, LockInv, KeptInv, RecordsKept', NEW r \in Claims, Lock(r)
  PROVE  (HeldIsPending /\ CompleteLasts /\ AnswersAreBound)'
<1> DEFINE k == KeyOf[r]
           rec == [NoRecord EXCEPT !.state = "pending"]
<1>1. PICK o \in RedisWrite :
        /\ Suffer(o)
        /\ idem' = IF Executed(o) /\ idem[k].state = "none"
                   THEN [idem EXCEPT ![k] = rec] ELSE idem
        /\ Goto(r, Resume(o, "lock", IF Acquired(k) THEN "expire" ELSE "wait", "failed"))
  BY DEF Lock
<1>2. RecordsKept /\ o \notin Losing
  BY <1>1, KeptBefore DEF TypeOK
<1>3. HeldIsPending /\ CompleteLasts /\ AnswersAreBound
  BY <1>2 DEF KeptInv
<1>4. k \in Keys /\ idem \in [Keys -> Record] /\ pc \in [Claims -> PC]
  BY CreationAssumption DEF TypeOK, CreationTypeOK
<1>5. \A s \in Claims : s # r => claimId'[s] = claimId[s]
  BY <1>1 DEF Goto
<1>6. CASE o = "ok" /\ idem[k].state = "none"
  <2>1. pc' = [pc EXCEPT ![r] = "expire"] /\ idem' = [idem EXCEPT ![k] = rec]
    BY <1>1, <1>6 DEF Goto, Resume, Acquired, Executed
  <2>2. ASSUME NEW s \in Claims, KeyOf[s] = k PROVE pc[s] \notin {"fetch", "ok"}
    <3>1. idem[k].claim = NoClaim
      BY <1>4, <1>6 DEF TypeOK, CreationTypeOK
    <3> QED BY <1>3, <2>2, <3>1 DEF AnswersAreBound, TypeOK, CreationTypeOK
  <2>3. rec.state = "pending"
    BY DEF NoRecord
  <2>4. idem'[k].state = "pending" /\ pc'[r] = "expire"
    BY <1>4, <2>1, <2>3
  <2>5. /\ \A s \in Claims : s # r => pc'[s] = pc[s]
        /\ \A l \in Keys : l # k => idem'[l] = idem[l]
    BY <1>4, <2>1
  <2> QED BY <1>3, <1>5, <2>2, <2>4, <2>5, RecordKept
<1>7. CASE ~(o = "ok" /\ idem[k].state = "none")
  <2>1. PICK p \in {"wait", "failed"} : pc' = [pc EXCEPT ![r] = p] /\ UNCHANGED idem
    BY <1>1, <1>2, <1>7 DEF Goto, Resume, Acquired, Executed, RedisWrite, Losing
  <2> QED BY <1>3, <1>5, <2>1, QuietKept DEF Critical
<1> QED BY <1>6, <1>7

\* The steps that change the record they hold: a life is set, the claim is
\* entered, or the record is given up.
LEMMA HolderKept ==
  ASSUME TypeOK, LockInv, KeptInv, RecordsKept', NEW r \in Claims,
         Expire(r) \/ Finalize(r) \/ Release(r)
  PROVE  (HeldIsPending /\ CompleteLasts /\ AnswersAreBound)'
<1> DEFINE k == KeyOf[r]
           timed == [idem[k] EXCEPT !.ttl = "60s"]
           done == [state |-> "complete", claim |-> r, ttl |-> "24h"]
<1>1. PICK o \in RedisWrite :
        /\ Suffer(o)
        /\ pc[r] \in Critical
        /\ \/ /\ pc[r] = "expire"
              /\ idem' = IF Executed(o) /\ idem[k].state # "none"
                         THEN [idem EXCEPT ![k] = timed] ELSE idem
              /\ \/ o = "ok" /\ Identify(r, "size", r)
                 \/ o # "ok" /\ Goto(r, Resume(o, "expire", "size", "failed"))
           \/ /\ pc[r] = "finalize"
              /\ idem' = IF Executed(o) THEN [idem EXCEPT ![k] = done] ELSE idem
              /\ Goto(r, Resume(o, "finalize", "ok", FailedFinalize))
           \/ /\ pc[r] = "release"
              /\ idem' = IF Executed(o) THEN [idem EXCEPT ![k] = NoRecord] ELSE idem
              /\ Goto(r, Resume(o, "release", "failed", "failed"))
  BY DEF Expire, Finalize, Release, Critical
<1>2. RecordsKept /\ o \notin Losing
  BY <1>1, KeptBefore DEF TypeOK
<1>3. HeldIsPending /\ CompleteLasts /\ AnswersAreBound
  BY <1>2 DEF KeptInv
<1>4. k \in Keys /\ idem \in [Keys -> Record] /\ pc \in [Claims -> PC]
  BY CreationAssumption DEF TypeOK, CreationTypeOK
<1>5. \A s \in Claims : s # r => claimId'[s] = claimId[s]
  BY <1>1 DEF Goto, Identify, TypeOK, CreationTypeOK
<1>6. \A s \in Claims : KeyOf[s] = k => pc[s] \notin {"fetch", "ok"}
  BY <1>1, <1>3, NobodyHasRead
<1>7. idem[k].state = "pending"
  BY <1>1, <1>3, <1>4 DEF HeldIsPending, InProgress
<1>8. \A s \in InProgress(k) : s = r
  <2>1. Alone(k) /\ r \in InProgress(k)
    BY <1>1, <1>2, <1>4 DEF LockInv, RecordsKept, Undisturbed, InProgress
  <2> QED BY <2>1 DEF Alone
<1>9. CASE o = "ok" /\ pc[r] = "expire"
  <2>1. pc' = [pc EXCEPT ![r] = "size"] /\ idem' = [idem EXCEPT ![k] = timed]
    BY <1>1, <1>7, <1>9 DEF Identify, Executed
  <2>2. timed.state = "pending"
    BY <1>4, <1>7 DEF Record
  <2>3. pc'[r] = "size" /\ idem'[k].state = "pending"
    BY <1>4, <2>1, <2>2
  <2>4. /\ \A s \in Claims : s # r => pc'[s] = pc[s]
        /\ \A l \in Keys : l # k => idem'[l] = idem[l]
    BY <1>4, <2>1
  <2> QED BY <1>3, <1>5, <1>6, <2>1, <2>3, <2>4, RecordKept
<1>10. CASE o = "ok" /\ pc[r] = "finalize"
  <2>1. pc' = [pc EXCEPT ![r] = "ok"] /\ idem' = [idem EXCEPT ![k] = done]
    BY <1>1, <1>10 DEF Goto, Resume, Executed
  <2>2. claimId'[r] = r
    BY <1>1, <1>10 DEF Goto, TypeOK, CreationTypeOK, Critical
  <2>3. pc'[r] = "ok" /\ idem'[k].ttl = "24h" /\ idem'[k].claim = r
    BY <1>4, <2>1
  <2>4. /\ \A s \in Claims : s # r => pc'[s] = pc[s]
        /\ \A l \in Keys : l # k => idem'[l] = idem[l]
    BY <1>4, <2>1
  <2> QED BY <1>3, <1>5, <1>6, <1>8, <2>1, <2>2, <2>3, <2>4, RecordKept DEF Critical
<1>11. CASE o = "ok" /\ pc[r] = "release"
  <2>1. pc' = [pc EXCEPT ![r] = "failed"] /\ idem' = [idem EXCEPT ![k] = NoRecord]
    BY <1>1, <1>11 DEF Goto, Resume, Executed
  <2>2. pc'[r] = "failed" /\ idem'[k].state = "none"
    BY <1>4, <2>1 DEF NoRecord
  <2>3. /\ \A s \in Claims : s # r => pc'[s] = pc[s]
        /\ \A l \in Keys : l # k => idem'[l] = idem[l]
    BY <1>4, <2>1
  <2> QED BY <1>3, <1>5, <1>6, <1>8, <2>1, <2>2, <2>3, RecordKept DEF Critical
<1>12. CASE o # "ok"
  <2>1. PICK p \in {"failed", "release"} : pc' = [pc EXCEPT ![r] = p] /\ UNCHANGED idem
    BY <1>1, <1>2, <1>12
       DEF Goto, Resume, Executed, RedisWrite, Losing, FailedFinalize, FailedCreate
  <2> QED BY <1>1, <1>3, <1>5, <2>1, QuietKept DEF Critical
<1> QED BY <1>1, <1>9, <1>10, <1>11, <1>12

\* Everything else that can happen, and the invariant through it all.
LEMMA KeptNext ==
  TypeOK /\ LockInv /\ KeptInv /\ [CreationNext]_vars => KeptInv'
<1> SUFFICES ASSUME TypeOK, LockInv, KeptInv, [CreationNext]_vars, RecordsKept'
             PROVE  (HeldIsPending /\ CompleteLasts /\ AnswersAreBound)'
  BY DEF KeptInv
<1>1. ASSUME NEW r \in Claims, Lock(r)
      PROVE  (HeldIsPending /\ CompleteLasts /\ AnswersAreBound)'
  BY <1>1, LockKept
<1>2. ASSUME NEW r \in Claims, Expire(r) \/ Finalize(r) \/ Release(r)
      PROVE  (HeldIsPending /\ CompleteLasts /\ AnswersAreBound)'
  BY <1>2, HolderKept
<1>3. ASSUME NEW o, Suffer(o) PROVE RecordsKept /\ o \notin Losing
  BY <1>3, KeptBefore DEF TypeOK
<1>4. UNCHANGED disruptions => RecordsKept
  BY DEF RecordsKept, Never
<1>5. ASSUME NEW r \in Claims,
             Limit(r) \/ Lookup(r) \/ Poll(r) \/ GiveUp(r) \/ Fetch(r) \/ Crash(r)
      PROVE  (HeldIsPending /\ CompleteLasts /\ AnswersAreBound)'
  <2>1. RecordsKept /\ UNCHANGED idem
    BY <1>3, <1>4, <1>5 DEF Limit, Lookup, Poll, GiveUp, Fetch, Crash
  <2>2. HeldIsPending /\ CompleteLasts /\ AnswersAreBound
    BY <2>1 DEF KeptInv
  <2>3. PICK p \in {"lookup", "failed", "lock", "fetch", "ok"} :
          /\ pc' = [pc EXCEPT ![r] = p]
          /\ \A s \in Claims : s # r => claimId'[s] = claimId[s]
          /\ p \in {"fetch", "ok"} => claimId'[r] = idem[KeyOf[r]].claim
    BY <1>5, <2>2 DEF Limit, Lookup, Poll, GiveUp, Fetch, Crash, Goto, Identify,
                      AnswersAreBound, TypeOK, CreationTypeOK
  <2> QED BY <2>1, <2>2, <2>3, QuietKept DEF Critical
<1>6. ASSUME NEW r \in Claims, Size(r) \/ Insert(r) \/ Pend(r) \/ Payload(r) \/ Push(r) \/ Undo(r)
      PROVE  (HeldIsPending /\ CompleteLasts /\ AnswersAreBound)'
  <2>1. RecordsKept /\ UNCHANGED <<idem, claimId>> /\ pc[r] \in Critical
    BY <1>3, <1>6 DEF Size, Insert, Pend, Payload, Push, Undo, Goto, Critical
  <2>2. HeldIsPending /\ CompleteLasts /\ AnswersAreBound
    BY <2>1 DEF KeptInv
  <2>3. PICK p \in Critical : pc' = [pc EXCEPT ![r] = p]
    BY <1>6 DEF Size, Insert, Pend, Payload, Push, Undo, Goto, Resume, FailedAdd,
                FailedCreate, Critical
  <2> QED BY <2>1, <2>2, <2>3, QuietKept DEF Critical
<1>7. ASSUME NEW k \in Keys, ExpireRecord(k)
      PROVE  (HeldIsPending /\ CompleteLasts /\ AnswersAreBound)'
  <2>1. RecordsKept /\ InProgress(k) = {} /\ idem[k].ttl = "60s"
    BY <1>3, <1>4, <1>7 DEF ExpireRecord, Losing
  <2>2. HeldIsPending /\ CompleteLasts /\ AnswersAreBound
    BY <2>1 DEF KeptInv
  <2>3. idem[k].claim = NoClaim
    BY <2>1, <2>2 DEF CompleteLasts, Complete, TypeOK, CreationTypeOK
  <2>4. /\ \A l \in Keys : l # k => idem'[l] = idem[l]
        /\ idem'[k] = NoRecord /\ UNCHANGED <<pc, claimId>>
    BY <1>7 DEF ExpireRecord, TypeOK, CreationTypeOK
  <2>5. HeldIsPending'
    BY <2>1, <2>2, <2>4 DEF HeldIsPending, InProgress
  <2>6. CompleteLasts'
    BY <2>2, <2>4 DEF CompleteLasts, Complete, NoRecord
  <2>7. AnswersAreBound'
    BY <2>2, <2>3, <2>4, CreationAssumption DEF AnswersAreBound, NoRecord
  <2> QED BY <2>5, <2>6, <2>7
<1>8. CASE UNCHANGED vars
  <2>1. KeptInv /\ RecordsKept
    BY <1>4, <1>8 DEF vars
  <2> QED BY <1>8, <2>1 DEF vars, creationVars, KeptInv, HeldIsPending, InProgress,
                            CompleteLasts, Complete, AnswersAreBound
<1> QED BY <1>1, <1>2, <1>5, <1>6, <1>7, <1>8 DEF CreationNext, Step

\* The three invariants together, of the specification.
LEMMA RecordsInit == Init => LockInv /\ KeptInv
BY DEF Init, CreationInit, LockInv, Alone, Recorded, InProgress, Critical, KeptInv,
       HeldIsPending, CompleteLasts, Complete, AnswersAreBound, NoRecord

LEMMA RecordsInv == Spec => [](TypeOK /\ LockInv /\ KeptInv)
BY RecordsInit, TypeCorrect, LockNext, KeptNext, PTL DEF Spec
-----------------------------------------------------------------------------
(***************************************************************************)
(* The refinement.  While records are kept, a step that completes one is   *)
(* Bind, one that answers from it is Replay, one that fails is Fail, and   *)
(* every other one leaves the mapped variables as they are.  A step that   *)
(* loses a record is Lose, and so are those that come after it.            *)
(***************************************************************************)

\* RecordsKept is a truth value.
LEMMA KeptIsBoolean ==
  /\ RecordsKept = TRUE \/ RecordsKept = FALSE
  /\ RecordsKept' = TRUE \/ RecordsKept' = FALSE
BY DEF RecordsKept

\* An answer is final.
LEMMA AnswersLast ==
  ASSUME TypeOK, [CreationNext]_vars, NEW r \in Claims, pc[r] \in Answered
  PROVE  pc'[r] = pc[r] /\ claimId'[r] = claimId[r]
<1>1. ASSUME NEW s \in Claims, Step(s) \/ Crash(s)
      PROVE  /\ s # r
             /\ \E p : pc' = [pc EXCEPT ![s] = p]
             /\ UNCHANGED claimId \/ \E c : claimId' = [claimId EXCEPT ![s] = c]
  BY <1>1 DEF Step, Limit, Lookup, Lock, Expire, Poll, GiveUp, Fetch, Size, Insert, Pend,
              Payload, Push, Undo, Finalize, Release, Crash, Goto, Identify, Answered
<1>2. ASSUME NEW k \in Keys, ExpireRecord(k) PROVE UNCHANGED <<pc, claimId>>
  BY <1>2 DEF ExpireRecord
<1>3. CASE UNCHANGED vars
  BY <1>3 DEF vars, creationVars
<1> QED BY <1>1, <1>2, <1>3 DEF CreationNext, TypeOK, CreationTypeOK

\* Nothing more is promised once a record is lost.
LEMMA LossRefines ==
  ASSUME TypeOK, [CreationNext]_vars, ~RecordsKept'
  PROVE  [Idempotent!Next]_(Idempotent!vars)
<1>1. RecordsKept' = FALSE
  BY KeptIsBoolean
<1>2. Idempotent!Lose
  BY <1>1, AnswersLast DEF Idempotent!Lose, Answered
<1> QED BY <1>2 DEF Idempotent!Next

\* A step of a request that is not answered yet, nor succeeds by it.
LEMMA PassedOver ==
  ASSUME TypeOK, RecordsKept, RecordsKept', NEW r \in Claims,
         NEW p, pc' = [pc EXCEPT ![r] = p], pc[r] \notin Answered, p # "ok",
         \A s \in Claims : s # r => claimId'[s] = claimId[s],
         \A k \in Keys : idem'[k].claim = idem[k].claim
  PROVE  [Idempotent!Next]_(Idempotent!vars)
<1> DEFINE answer(s) == IF pc[s] = "ok" THEN claimId[s]
                        ELSE IF pc[s] = "failed" THEN "failed" ELSE "open"
<1>1. \A s \in Claims : s # r => answer(s)' = answer(s)
  BY DEF TypeOK, CreationTypeOK
<1>2. answer(r) = "open" /\ answer(r)' = IF p = "failed" THEN "failed" ELSE "open"
  BY DEF Answered, TypeOK, CreationTypeOK
<1>3. CASE p = "failed"
  <2>1. Idempotent!Fail({r})
    BY <1>1, <1>2, <1>3 DEF Idempotent!Fail
  <2> QED BY <2>1 DEF Idempotent!Next
<1>4. CASE p # "failed"
  BY <1>1, <1>2, <1>4, KeptIsBoolean DEF Idempotent!vars
<1> QED BY <1>3, <1>4

\* Steps outside the records.
LEMMA QuietRefines ==
  ASSUME TypeOK, RecordsKept, RecordsKept', AnswersAreBound, NEW r \in Claims,
         \/ Limit(r) \/ Lookup(r) \/ Poll(r) \/ GiveUp(r) \/ Fetch(r) \/ Crash(r) \/ Size(r)
         \/ Insert(r) \/ Pend(r) \/ Payload(r) \/ Push(r) \/ Undo(r)
  PROVE  [Idempotent!Next]_(Idempotent!vars)
<1>1. CASE ~(Fetch(r) /\ pc'[r] = "ok")
  <2>1. PICK p \in PC : pc' = [pc EXCEPT ![r] = p]
    BY <1>1 DEF Limit, Lookup, Poll, GiveUp, Fetch, Crash, Size, Insert, Pend, Payload,
                Push, Undo, Goto, Identify, Resume, FailedAdd, FailedCreate, PC, Critical,
                Answered
  <2>2. p # "ok"
    BY <1>1, <2>1 DEF Limit, Lookup, Poll, GiveUp, Fetch, Crash, Size, Insert, Pend,
                Payload, Push, Undo, Goto, Identify, Resume, FailedAdd, FailedCreate,
                TypeOK, CreationTypeOK
  <2>3. /\ pc[r] \notin Answered /\ UNCHANGED idem
        /\ \A s \in Claims : s # r => claimId'[s] = claimId[s]
    BY DEF Limit, Lookup, Poll, GiveUp, Fetch, Crash, Size, Insert, Pend, Payload, Push,
           Undo, Goto, Identify, Answered, TypeOK, CreationTypeOK
  <2> QED BY <2>1, <2>2, <2>3, PassedOver
<1>2. CASE Fetch(r) /\ pc'[r] = "ok"
  <2>1. pc[r] = "fetch" /\ pc' = [pc EXCEPT ![r] = "ok"] /\ UNCHANGED <<idem, claimId>>
    BY <1>2 DEF Fetch, Goto, TypeOK, CreationTypeOK
  <2>2. /\ KeyOf[r] \in Keys /\ idem[KeyOf[r]].claim = claimId[r]
        /\ claimId[r] # NoClaim
    BY <2>1, CreationAssumption DEF AnswersAreBound, TypeOK, CreationTypeOK
  <2>3. Idempotent!Replay(r)
    BY <2>1, <2>2 DEF Idempotent!Replay, Idempotent!Reply, TypeOK, CreationTypeOK
  <2> QED BY <2>3 DEF Idempotent!Next
<1> QED BY <1>1, <1>2

\* The step that takes the lock binds nothing.
LEMMA LockRefines ==
  ASSUME TypeOK, RecordsKept, RecordsKept', NEW r \in Claims, Lock(r)
  PROVE  [Idempotent!Next]_(Idempotent!vars)
<1> DEFINE new == [NoRecord EXCEPT !.state = "pending"]
<1>1. PICK p \in {"lock", "expire", "wait", "failed"} : Goto(r, p)
  BY ResumeCases DEF Lock
<1>2. \/ idem' = [idem EXCEPT ![KeyOf[r]] = new] /\ idem[KeyOf[r]].state = "none"
      \/ UNCHANGED idem
  BY DEF Lock
<1>3. new.claim = NoClaim
  BY DEF NoRecord
<1>4. ASSUME NEW k \in Keys PROVE idem'[k].claim = idem[k].claim
  <2>1. idem[k].state = "none" => idem[k].claim = NoClaim
    BY DEF TypeOK, CreationTypeOK
  <2> QED BY <1>2, <1>3, <2>1 DEF TypeOK, CreationTypeOK
<1>5. pc[r] \notin Answered
  BY DEF Lock, Answered
<1> QED BY <1>1, <1>4, <1>5, PassedOver DEF Goto

\* The steps that change the record they hold: only finalize binds the key.
LEMMA HolderRefines ==
  ASSUME TypeOK, RecordsKept, KeptInv, RecordsKept', NEW r \in Claims,
         Expire(r) \/ Finalize(r) \/ Release(r)
  PROVE  [Idempotent!Next]_(Idempotent!vars)
<1> DEFINE k == KeyOf[r]
           timed == [idem[k] EXCEPT !.ttl = "60s"]
           done == [state |-> "complete", claim |-> r, ttl |-> "24h"]
<1>1. /\ k \in Keys /\ idem \in [Keys -> Record] /\ pc \in [Claims -> PC]
      /\ claimId \in [Claims -> Claims \cup {NoClaim}]
  BY CreationAssumption DEF TypeOK, CreationTypeOK
<1>2. pc[r] \in {"expire", "finalize", "release"} /\ pc[r] \notin Answered
  BY DEF Expire, Finalize, Release, Answered
<1>3. idem[k].state = "pending" /\ idem[k].claim = NoClaim
  BY <1>1, <1>2 DEF KeptInv, HeldIsPending, InProgress, Critical, TypeOK, CreationTypeOK
<1>4. CASE Finalize(r) /\ pc'[r] = "ok"
  <2>1. PICK q \in RedisWrite :
          /\ Suffer(q)
          /\ idem' = IF Executed(q) THEN [idem EXCEPT ![k] = done] ELSE idem
          /\ Goto(r, Resume(q, "finalize", "ok", FailedFinalize))
    BY <1>4 DEF Finalize
  <2>2. q = "ok"
    BY <1>1, <1>4, <2>1 DEF Goto, Resume, FailedFinalize, FailedCreate
  <2>3. /\ idem' = [idem EXCEPT ![k] = done] /\ pc' = [pc EXCEPT ![r] = "ok"]
        /\ UNCHANGED claimId /\ claimId[r] = r
    BY <1>4, <2>1, <2>2
       DEF Goto, Resume, Executed, Finalize, TypeOK, CreationTypeOK, Critical
  <2>4. \A l \in Keys : idem'[l].claim = IF l = k THEN r ELSE idem[l].claim
    BY <1>1, <2>3
  <2>5. [l \in Keys |-> idem[l].claim]' = [[l \in Keys |-> idem[l].claim] EXCEPT ![k] = r]
    BY <1>1, <2>4
  <2>6. Idempotent!Reply(r, r)
    BY <1>1, <1>2, <2>3 DEF Idempotent!Reply, Answered
  <2>7. Idempotent!Bind(r)
    BY <1>1, <1>3, <2>5, <2>6 DEF Idempotent!Bind
  <2> QED BY <2>7 DEF Idempotent!Next
<1>5. CASE ~(Finalize(r) /\ pc'[r] = "ok")
  <2>1. PICK q \in RedisWrite :
          /\ Suffer(q)
          /\ \/ /\ Expire(r)
                /\ idem' = [idem EXCEPT ![k] = timed] \/ UNCHANGED idem
                /\ \E p \in {"size", "failed"} : pc' = [pc EXCEPT ![r] = p]
             \/ /\ Finalize(r)
                /\ idem' = IF Executed(q) THEN [idem EXCEPT ![k] = done] ELSE idem
                /\ pc' = [pc EXCEPT ![r] = Resume(q, "finalize", "ok", "release")]
             \/ /\ Release(r)
                /\ idem' = [idem EXCEPT ![k] = NoRecord] \/ UNCHANGED idem
                /\ pc' = [pc EXCEPT ![r] = "failed"]
    <3>1. \A q : Suffer(q) => q \notin Losing
      BY KeptBefore DEF TypeOK
    <3> QED BY <3>1 DEF Expire, Finalize, Release, Goto, Identify, Resume, RedisWrite, Losing,
                        FailedFinalize, FailedCreate
  <2>2. q \notin Losing
    BY <2>1, KeptBefore DEF TypeOK
  <2>3. PICK p \in {"size", "failed", "release"} : pc' = [pc EXCEPT ![r] = p]
    BY <1>1, <1>5, <2>1, <2>2 DEF Resume, RedisWrite, Losing
  <2>4. \/ idem' = [idem EXCEPT ![k] = timed] \/ idem' = [idem EXCEPT ![k] = NoRecord]
        \/ UNCHANGED idem
    BY <1>1, <1>5, <2>1, <2>2 DEF Resume, RedisWrite, Losing, Executed
  <2>5. timed.claim = NoClaim /\ NoRecord.claim = NoClaim
    BY <1>1, <1>3 DEF Record, NoRecord
  <2>6. \A l \in Keys : idem'[l].claim = idem[l].claim
    BY <1>1, <1>3, <2>4, <2>5
  <2>7. \A s \in Claims : s # r => claimId'[s] = claimId[s]
    BY <1>1 DEF Expire, Finalize, Release, Goto, Identify
  <2> QED BY <1>2, <2>3, <2>6, <2>7, PassedOver
<1> QED BY <1>4, <1>5

\* While records are kept, every step is one that IdempotentCreation promises,
\* or changes nothing that it sees.
LEMMA KeptRefines ==
  ASSUME TypeOK, KeptInv, [CreationNext]_vars, RecordsKept'
  PROVE  [Idempotent!Next]_(Idempotent!vars)
<1>1. RecordsKept
  <2>1. UNCHANGED disruptions \/ \E o : Suffer(o)
    BY DEF CreationNext, Step, vars, Limit, Lookup, Lock, Expire, Poll, GiveUp, Fetch,
           Size, Insert, Pend, Payload, Push, Undo, Finalize, Release, Crash, ExpireRecord
  <2>2. UNCHANGED disruptions => RecordsKept
    BY DEF RecordsKept, Never
  <2> QED BY <2>1, <2>2, KeptBefore DEF TypeOK
<1>2. AnswersAreBound /\ CompleteLasts
  BY <1>1 DEF KeptInv
<1>3. ASSUME NEW r \in Claims, Step(r) \/ Crash(r)
      PROVE  [Idempotent!Next]_(Idempotent!vars)
  BY <1>1, <1>2, <1>3, QuietRefines, LockRefines, HolderRefines DEF Step
<1>4. ASSUME NEW k \in Keys, ExpireRecord(k)
      PROVE  [Idempotent!Next]_(Idempotent!vars)
  <2>1. idem[k].ttl = "60s"
    <3>1. \A o : Suffer(o) => o \notin Losing
      BY KeptBefore DEF TypeOK
    <3> QED BY <1>4, <3>1 DEF ExpireRecord, Losing
  <2>2. idem[k].claim = NoClaim
    BY <1>2, <2>1 DEF CompleteLasts, Complete, TypeOK, CreationTypeOK
  <2>3. \A l \in Keys : idem'[l].claim = idem[l].claim
    BY <1>4, <2>2 DEF ExpireRecord, NoRecord, TypeOK, CreationTypeOK
  <2>4. UNCHANGED <<pc, claimId>>
    BY <1>4 DEF ExpireRecord
  <2> QED BY <1>1, <2>3, <2>4, KeptIsBoolean DEF Idempotent!vars
<1>5. CASE UNCHANGED vars
  BY <1>1, <1>5, KeptIsBoolean DEF vars, creationVars, Idempotent!vars
<1> QED BY <1>3, <1>4, <1>5 DEF CreationNext

\* Requests are interrupted: they fail, or go on to clean up after themselves.
\* No record changes.
Interrupted ==
  /\ UNCHANGED <<idem, claimId>>
  /\ pc' \in [Claims -> PC]
  /\ \A r \in Claims : \/ pc'[r] = pc[r]
                       \/ pc[r] \notin Answered /\ pc'[r] = "failed"
                       \/ pc[r] \in Critical /\ pc'[r] \in {"undo", "release"}
  /\ UNCHANGED disruptions \/ \E o : Suffer(o)

\* That disturbs neither the records nor what is promised of them.
LEMMA InterruptionKeeps ==
  ASSUME TypeOK, LockInv, KeptInv, Interrupted
  PROVE  LockInv' /\ KeptInv' /\ [Idempotent!Next]_(Idempotent!vars)
<1>1. \A k \in Keys : InProgress(k)' \subseteq InProgress(k)
  BY DEF Interrupted, InProgress, Critical
<1>2. ASSUME RecordsKept' PROVE RecordsKept
  BY <1>2, KeptBefore DEF Interrupted, TypeOK, RecordsKept, Never
<1>3. ASSUME Undisturbed' PROVE Undisturbed
  BY <1>3, UndisturbedBefore DEF Interrupted, TypeOK, Undisturbed, Never
<1>4. LockInv'
  BY <1>1, <1>3 DEF LockInv, Alone, Recorded, Interrupted
<1>5. KeptInv'
  <2> SUFFICES ASSUME RecordsKept' PROVE (HeldIsPending /\ CompleteLasts /\ AnswersAreBound)'
    BY DEF KeptInv
  <2>1. HeldIsPending /\ CompleteLasts /\ AnswersAreBound
    BY <1>2 DEF KeptInv
  <2>2. HeldIsPending'
    BY <1>1, <2>1 DEF HeldIsPending, Interrupted
  <2>3. CompleteLasts'
    BY <2>1 DEF CompleteLasts, Complete, Interrupted
  <2>4. AnswersAreBound'
    BY <2>1 DEF AnswersAreBound, Interrupted
  <2> QED BY <2>2, <2>3, <2>4
<1>6. ASSUME NEW r \in Claims, pc[r] \in Answered PROVE pc'[r] = pc[r] /\ claimId'[r] = claimId[r]
  BY <1>6 DEF Interrupted, Critical, Answered
<1>7. CASE ~RecordsKept'
  <2>1. RecordsKept' = FALSE
    BY <1>7, KeptIsBoolean
  <2>2. Idempotent!Lose
    BY <1>6, <2>1 DEF Idempotent!Lose, Answered
  <2> QED BY <1>4, <1>5, <2>2 DEF Idempotent!Next
<1>8. CASE RecordsKept'
  <2> DEFINE answer(r) == IF pc[r] = "ok" THEN claimId[r]
                          ELSE IF pc[r] = "failed" THEN "failed" ELSE "open"
  <2>1. PICK failing \in SUBSET Claims : \A r \in Claims : r \in failing <=> pc'[r] = "failed"
    <3>1. {r \in Claims : pc'[r] = "failed"} \in SUBSET Claims
      OBVIOUS
    <3> QED BY <3>1
  <2>2. ASSUME NEW r \in Claims
        PROVE  answer(r)' = IF r \in failing /\ answer(r) = "open" THEN "failed" ELSE answer(r)
    BY <1>6, <2>1 DEF Interrupted, Critical, Answered, TypeOK, CreationTypeOK
  <2>3. Idempotent!Fail(failing)
    BY <2>2 DEF Idempotent!Fail, Interrupted
  <2>4. Idempotent!Next
    BY <1>2, <1>8, <2>3 DEF Idempotent!Next
  <2> QED BY <1>4, <1>5, <2>4
<1> QED BY <1>7, <1>8

LEMMA IdempotentInit == Init => Idempotent!Init
<1>1. Init => RecordsKept
  BY DEF Init, NoDisruptions, RecordsKept, Never, AllKinds
<1> QED BY <1>1, KeptIsBoolean DEF Init, CreationInit, NoRecord, Idempotent!Init

\* ClaimCreation implements IdempotentCreation: as long as no record is lost, a
\* key is bound to one claim, made by one of its requests, for good, and every
\* answer is that claim or a failure.
THEOREM CreationIsIdempotent == Spec => IdempotentSpec
<1>1. TypeOK /\ KeptInv /\ [CreationNext]_vars => [Idempotent!Next]_(Idempotent!vars)
  BY KeptRefines, LossRefines
<1> QED BY <1>1, IdempotentInit, RecordsInv, PTL DEF Spec, IdempotentSpec, Idempotent!Spec
=============================================================================
