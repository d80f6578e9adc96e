------------------------- MODULE UserValidationProofs -------------------------
(***************************************************************************)
(* Theorems about UserValidation, for any users, any number of overlapping *)
(* look-ups, any life of an entry and any timeout.                         *)
(***************************************************************************)
EXTENDS UserValidation, TLAPS

-----------------------------------------------------------------------------
\* Every variable stays in its type, in each step ...
LEMMA TypeNext == TypeOK /\ [Next]_vars => TypeOK'
<1> SUFFICES ASSUME TypeOK, [Next]_vars PROVE TypeOK'
  OBVIOUS
<1> USE TimeAssumption DEF TypeOK, Answer, Ages, Horizon
<1>1. NoEntry \in Entry /\ \A a \in Answer : [valid |-> a, left |-> Life] \in Entry
  BY DEF NoEntry, Entry, Life
<1>2. ASSUME NEW c \in Callers, NEW u \in Users, CallCached(c, u) PROVE TypeOK'
  BY <1>2 DEF CallCached, Hit, Entry
<1>3. ASSUME NEW c \in Callers, NEW u \in Users, CallService(c, u) PROVE TypeOK'
  BY <1>1, <1>3 DEF CallService
<1>4. ASSUME NEW c \in Callers, Serve(c) PROVE TypeOK'
  BY <1>4 DEF Serve
<1>5. ASSUME NEW c \in Callers, Arrive(c) PROVE TypeOK'
  <2>1. reply[c] \in Answer
    BY <1>5 DEF Arrive
  <2> QED BY <1>1, <1>5, <2>1 DEF Arrive, Conclude, Set
<1>6. ASSUME NEW c \in Callers, Fail(c) \/ Expire(c) PROVE TypeOK'
  BY <1>1, <1>6 DEF Fail, Expire, CatchClause, FailClosed, Conclude, Set
<1>7. ASSUME NEW c \in Callers, Return(c) PROVE TypeOK'
  BY <1>7 DEF Return
<1>8. ASSUME NEW u \in Users, Invalidate(u) \/ UserChanges(u) PROVE TypeOK'
  BY <1>1, <1>8 DEF Invalidate, UserChanges, callVars
<1>9. CASE Restart
  BY <1>1, <1>9 DEF Restart
<1>10. CASE Tick
  <2>1. \A entry \in Entry : Aged(entry) \in Entry
    BY DEF Entry, Aged
  <2>2. \A age \in Ages : Older(age) \in Ages
    BY DEF Older
  <2>3. waited' \in [Callers -> 0..Timeout]
    BY <1>10 DEF Tick
  <2> QED BY <1>10, <2>1, <2>2, <2>3 DEF Tick
<1>11. CASE UNCHANGED vars
  BY <1>11 DEF vars, callVars
<1> QED BY <1>2, <1>3, <1>4, <1>5, <1>6, <1>7, <1>8, <1>9, <1>10, <1>11 DEF Next

\* ... and so in every state.
THEOREM TypeCorrect == Spec => []TypeOK
<1>1. Init => TypeOK
  BY TimeAssumption DEF Init, TypeOK, NoEntry, Entry, Answer, Ages, Horizon
<1> QED BY <1>1, TypeNext, PTL DEF Spec
-----------------------------------------------------------------------------
(***************************************************************************)
(* An answer is as old as its entry and one call together at most: an      *)
(* entry that may be returned, and a reply that is under way, say how long *)
(* ago user-service said so.                                               *)
(***************************************************************************)
Since(answer, u) == IF answer = "yes" THEN sinceYes[u] ELSE sinceDoubt[u]

EntriesAreRecent ==
  \A u \in Users : Hit(u) => Since(cache[u].valid, u) <= TTL - cache[u].left + Timeout
RepliesAreRecent ==
  \A c \in Callers :
    reply[c] # "none" => Asking(c) /\ Since(reply[c], user[c]) <= waited[c]
RecentInv == EntriesAreRecent /\ RepliesAreRecent

LEMMA SinceType ==
  TypeOK => \A a \in Answer, u \in Users : Since(a, u) \in Int
BY TimeAssumption DEF TypeOK, Since, Ages, Horizon

\* The call ends with an answer as recent as it has waited.
LEMMA ConcludedRecent ==
  ASSUME TypeOK, TypeOK', RecentInv, NEW c \in Callers, NEW a \in Answer, Conclude(c, a),
         Since(a, user[c])' <= waited[c],
         \A u \in Users, b \in Answer : Since(b, u)' <= Since(b, u)
  PROVE  RecentInv'
<1> USE TimeAssumption
<1>0. user[c] \in Users /\ user' = user
  BY DEF TypeOK, Conclude
<1>1. ASSUME NEW u \in Users, Hit(u)'
      PROVE  Since(cache[u].valid, u)' <= TTL - cache'[u].left + Timeout
  <2>1. CASE u = user[c]
    <3>1. cache'[u].valid = a /\ cache'[u].left = TTL
      BY <2>1 DEF Conclude, Set, Life, TypeOK
    <3>2. waited[c] \in 0..Timeout /\ Since(a, u)' <= waited[c] /\ Since(a, u)' \in Int
      BY <1>0, <2>1, SinceType DEF TypeOK, Since, Ages, Horizon
    <3>3. Since(cache[u].valid, u)' = Since(a, u)'
      BY <3>1 DEF Since
    <3> QED BY <3>1, <3>2, <3>3
  <2>2. CASE u # user[c]
    <3>1. cache'[u] = cache[u]
      BY <2>2 DEF Conclude, Set, TypeOK
    <3>2. Hit(u) /\ cache[u].valid \in Answer /\ cache[u].left \in Int
      BY <1>1, <3>1 DEF Hit, TypeOK, Entry
    <3>3. Since(cache[u].valid, u) <= TTL - cache[u].left + Timeout
      BY <3>2 DEF RecentInv, EntriesAreRecent
    <3>4. Since(cache[u].valid, u)' <= Since(cache[u].valid, u)
      BY <3>1, <3>2 DEF Since
    <3>5. /\ Since(cache[u].valid, u) \in Int /\ Since(cache[u].valid, u)' \in Int
      BY <3>1, <3>2 DEF Since, TypeOK, Ages, Horizon
    <3> QED BY <3>1, <3>2, <3>3, <3>4, <3>5
  <2> QED BY <2>1, <2>2
<1>2. RepliesAreRecent'
  <2> SUFFICES ASSUME NEW d \in Callers, reply'[d] # "none"
               PROVE  Asking(d)' /\ Since(reply[d], user[d])' <= waited'[d]
    BY DEF RepliesAreRecent
  <2>1. d # c /\ reply'[d] = reply[d] /\ pc'[d] = pc[d] /\ waited'[d] = waited[d]
    BY DEF Conclude, TypeOK
  <2>2. Asking(d) /\ Since(reply[d], user[d]) <= waited[d] /\ reply[d] \in Answer
    BY <2>1 DEF RecentInv, RepliesAreRecent, TypeOK
  <2>3. Since(reply[d], user[d])' <= Since(reply[d], user[d])
    BY <1>0, <2>1, <2>2 DEF Since, TypeOK
  <2>4. /\ Since(reply[d], user[d]) \in Int /\ Since(reply[d], user[d])' \in Int
        /\ waited[d] \in Int
    BY <1>0, <2>1, <2>2 DEF Since, TypeOK, Ages, Horizon
  <2> QED BY <2>1, <2>2, <2>3, <2>4 DEF Asking
<1> QED BY <1>1, <1>2 DEF RecentInv, EntriesAreRecent

\* A step that makes nothing older, and adds neither an entry nor a reply.
LEMMA QuietRecent ==
  ASSUME TypeOK, RecentInv,
         \A u \in Users : Hit(u)' => cache'[u] = cache[u],
         UNCHANGED <<sinceYes, sinceDoubt>>,
         \A c \in Callers : reply'[c] # "none" =>
           /\ reply'[c] = reply[c] /\ user'[c] = user[c] /\ waited'[c] = waited[c]
           /\ pc'[c] = pc[c]
  PROVE  RecentInv'
<1>1. EntriesAreRecent'
  BY DEF RecentInv, EntriesAreRecent, Hit, Since
<1>2. RepliesAreRecent'
  BY DEF RecentInv, RepliesAreRecent, Asking, Since
<1> QED BY <1>1, <1>2 DEF RecentInv

\* Every step keeps entries and replies recent.
LEMMA RecentNext == TypeOK /\ TypeOK' /\ RecentInv /\ [Next]_vars => RecentInv'
<1> SUFFICES ASSUME TypeOK, TypeOK', RecentInv, [Next]_vars PROVE RecentInv'
  OBVIOUS
<1> USE TimeAssumption
<1>a. ASSUME NEW c \in Callers, reply[c] # "none" PROVE Asking(c)
  BY <1>a DEF RecentInv, RepliesAreRecent
<1>b. ~(NoEntry.left >= 0)
  BY DEF NoEntry
<1>1. ASSUME NEW c \in Callers, NEW u \in Users, CallCached(c, u) \/ CallService(c, u)
      PROVE  RecentInv'
  <2>1. \A v \in Users : Hit(v)' => cache'[v] = cache[v]
    BY <1>1, <1>b DEF CallCached, CallService, Hit, TypeOK
  <2>2. \A d \in Callers : reply'[d] # "none" => d # c
    BY <1>1, <1>a DEF CallCached, CallService, Asking
  <2> QED BY <1>1, <2>1, <2>2, QuietRecent DEF CallCached, CallService, TypeOK
<1>2. ASSUME NEW c \in Callers, Serve(c) PROVE RecentInv'
  <2>1. user[c] \in Users /\ waited[c] \in 0..Timeout /\ Asking(c)
    BY <1>2 DEF TypeOK, Serve
  <2>2. ASSUME NEW a \in Answer, NEW u \in Users
        PROVE  Since(a, u)' <= Since(a, u) /\ Since(a, u) \in Int /\ Since(a, u)' \in Int
    BY <1>2, <2>1 DEF Since, Serve, TypeOK, Ages, Horizon
  <2>3. EntriesAreRecent'
    <3> SUFFICES ASSUME NEW u \in Users, Hit(u)'
                 PROVE  Since(cache[u].valid, u)' <= TTL - cache'[u].left + Timeout
      BY DEF EntriesAreRecent
    <3>1. cache'[u] = cache[u] /\ cache[u].valid \in Answer /\ cache[u].left \in Int /\ Hit(u)
      BY <1>2 DEF Serve, Hit, TypeOK, Entry
    <3>2. Since(cache[u].valid, u) <= TTL - cache[u].left + Timeout
      BY <3>1 DEF RecentInv, EntriesAreRecent
    <3>3. Since(cache[u].valid, u)' = Since(cache[u].valid, u)
            \/ Since(cache[u].valid, u)' <= Since(cache[u].valid, u)
      BY <2>2, <3>1 DEF Since
    <3>4. Since(cache[u].valid, u)' \in Int /\ Since(cache[u].valid, u) \in Int
      BY <2>2, <3>1 DEF Since
    <3> QED BY <3>1, <3>2, <3>3, <3>4
  <2>4. RepliesAreRecent'
    <3> SUFFICES ASSUME NEW d \in Callers, reply'[d] # "none"
                 PROVE  Asking(d)' /\ Since(reply[d], user[d])' <= waited'[d]
      BY DEF RepliesAreRecent
    <3>1. CASE d = c
      BY <1>2, <2>1, <3>1 DEF Serve, Since, Asking, TypeOK
    <3>2. CASE d # c
      <4>1. /\ reply'[d] = reply[d] /\ pc'[d] = pc[d] /\ waited'[d] = waited[d]
            /\ user'[d] = user[d] /\ user[d] \in Users /\ reply[d] \in Answer
        BY <1>2, <3>2 DEF Serve, TypeOK
      <4>2. Asking(d) /\ Since(reply[d], user[d]) <= waited[d] /\ waited[d] \in Int
        BY <4>1 DEF RecentInv, RepliesAreRecent, TypeOK
      <4>3. /\ Since(reply[d], user[d])' <= Since(reply[d], user[d])
            /\ Since(reply[d], user[d])' \in Int /\ Since(reply[d], user[d]) \in Int
        BY <2>2, <4>1 DEF Since
      <4> QED BY <4>1, <4>2, <4>3 DEF Asking
    <3> QED BY <3>1, <3>2
  <2> QED BY <2>3, <2>4 DEF RecentInv
<1>3. ASSUME NEW c \in Callers, Arrive(c) PROVE RecentInv'
  <2>1. reply[c] \in Answer /\ Conclude(c, reply[c]) /\ UNCHANGED <<sinceYes, sinceDoubt>>
    BY <1>3 DEF Arrive, Conclude, TypeOK
  <2>2. Since(reply[c], user[c]) <= waited[c]
    BY <1>3 DEF Arrive, RecentInv, RepliesAreRecent
  <2>3. \A u \in Users, b \in Answer : Since(b, u)' = Since(b, u) /\ Since(b, u) \in Int
    BY <2>1 DEF Since, TypeOK, Ages, Horizon
  <2>4. PICK a \in Answer : a = reply[c]
    BY <2>1
  <2>5. Conclude(c, a) /\ Since(a, user[c])' <= waited[c]
    BY <2>1, <2>2, <2>4 DEF Since, Conclude
  <2> QED BY <2>3, <2>5, ConcludedRecent
<1>4. ASSUME NEW c \in Callers, Fail(c) \/ Expire(c) PROVE RecentInv'
  <2> CatchClause(c)
    BY <1>4 DEF Fail, Expire
  <2>1. Conclude(c, "no") /\ user' = user /\ waited[c] \in 0..Timeout
    BY DEF CatchClause, FailClosed, Conclude, TypeOK
  <2>2. Since("no", user[c])' <= waited[c]
    BY <2>1 DEF CatchClause, Since, TypeOK
  <2>3. \A u \in Users, b \in Answer : Since(b, u)' <= Since(b, u)
    BY <2>1 DEF CatchClause, Conclude, Since, TypeOK, Ages, Horizon
  <2> QED BY <2>1, <2>2, <2>3, ConcludedRecent DEF Answer
<1>5. ASSUME NEW c \in Callers, Return(c) PROVE RecentInv'
  <2>1. \A d \in Callers : reply'[d] # "none" => d # c
    BY <1>5, <1>a DEF Return, Asking, Answer
  <2> QED BY <1>5, <2>1, QuietRecent DEF Return, TypeOK
<1>6. ASSUME NEW u \in Users, Invalidate(u) \/ UserChanges(u)
      PROVE  RecentInv'
  BY <1>6, <1>b, QuietRecent DEF Invalidate, UserChanges, callVars, Hit, TypeOK
<1>7. CASE Restart
  BY <1>7, <1>b, QuietRecent DEF Restart, Hit
<1>8. CASE Tick
  <2>1. ASSUME NEW a \in Answer, NEW u \in Users
        PROVE  /\ Since(a, u)' \in Int /\ Since(a, u) \in Int
               /\ Since(a, u)' <= Since(a, u) + 1
    BY <1>8 DEF Tick, Since, Older, TypeOK, Ages, Horizon
  <2>2. EntriesAreRecent'
    <3> SUFFICES ASSUME NEW u \in Users, Hit(u)'
                 PROVE  Since(cache[u].valid, u)' <= TTL - cache'[u].left + Timeout
      BY DEF EntriesAreRecent
    <3>1. /\ cache[u] \in Entry /\ cache'[u] = Aged(cache[u])
          /\ cache[u].left \in Int /\ cache[u].left >= 0
      BY <1>8 DEF Tick, Hit, Aged, TypeOK, Entry
    <3>2. /\ cache'[u].valid = cache[u].valid /\ cache'[u].left = cache[u].left - 1
          /\ cache[u].valid \in Answer /\ Hit(u)
      BY <3>1 DEF Aged, Entry, Hit
    <3>3. Since(cache[u].valid, u) <= TTL - cache[u].left + Timeout
      BY <3>2 DEF RecentInv, EntriesAreRecent
    <3>4. /\ Since(cache[u].valid, u)' <= Since(cache[u].valid, u) + 1
          /\ Since(cache[u].valid, u)' \in Int /\ Since(cache[u].valid, u) \in Int
      BY <2>1, <3>2 DEF Since
    <3> QED BY <3>1, <3>2, <3>3, <3>4
  <2>3. RepliesAreRecent'
    <3> SUFFICES ASSUME NEW d \in Callers, reply'[d] # "none"
                 PROVE  Asking(d)' /\ Since(reply[d], user[d])' <= waited'[d]
      BY DEF RepliesAreRecent
    <3>1. reply'[d] = reply[d] /\ user'[d] = user[d] /\ pc'[d] = pc[d] /\ Asking(d)
      BY <1>8, <1>a DEF Tick
    <3>2. waited'[d] = waited[d] + 1 /\ waited[d] \in Int
      BY <1>8, <3>1 DEF Tick, TimedOut, TypeOK
    <3>3. Since(reply[d], user[d]) <= waited[d] /\ reply[d] \in Answer /\ user[d] \in Users
      BY <3>1 DEF RecentInv, RepliesAreRecent, TypeOK
    <3>4. /\ Since(reply[d], user[d])' <= Since(reply[d], user[d]) + 1
          /\ Since(reply[d], user[d])' \in Int /\ Since(reply[d], user[d]) \in Int
      BY <2>1, <3>1, <3>3 DEF Since
    <3> QED BY <3>1, <3>2, <3>3, <3>4 DEF Asking
  <2> QED BY <2>2, <2>3 DEF RecentInv
<1>9. CASE UNCHANGED vars
  BY <1>9, QuietRecent DEF vars, callVars
<1> QED BY <1>1, <1>2, <1>3, <1>4, <1>5, <1>6, <1>7, <1>8, <1>9 DEF Next

LEMMA AlwaysRecent == Spec => [](TypeOK /\ RecentInv)
<1>1. Init => RecentInv
  BY DEF Init, NoEntry, RecentInv, EntriesAreRecent, RepliesAreRecent, Hit
<1> QED BY <1>1, TypeCorrect, RecentNext, PTL DEF Spec

\* An answer comes from the cache, from a reply, or from the catch clause.
LEMMA AnswerSources ==
  ASSUME TypeOK, [Next]_vars, NEW c \in Callers, NEW a \in Answer, Answers(c, a)
  PROVE  \/ \E u \in Users : CallCached(c, u) /\ cache[u].valid = a /\ user'[c] = u
         \/ Arrive(c) /\ reply[c] = a /\ user'[c] = user[c]
         \/ CatchClause(c) /\ a = "no" /\ user'[c] = user[c]
<1> USE DEF Answers, TypeOK
<1>1. ASSUME NEW d \in Callers, NEW u \in Users, CallCached(d, u)
      PROVE  CallCached(c, u) /\ cache[u].valid = a /\ user'[c] = u
  <2>1. d = c
    BY <1>1 DEF CallCached
  <2> QED BY <1>1, <2>1 DEF CallCached
<1>2. ASSUME NEW d \in Callers, NEW u \in Users, CallService(d, u) PROVE FALSE
  BY <1>2 DEF CallService, Answer
<1>3. ASSUME NEW d \in Callers, Serve(d) \/ Return(d) PROVE FALSE
  BY <1>3 DEF Serve, Return, Answer
<1>4. ASSUME NEW d \in Callers, Arrive(d)
      PROVE  Arrive(c) /\ reply[c] = a /\ user'[c] = user[c]
  <2>1. d = c
    BY <1>4 DEF Arrive, Conclude
  <2> QED BY <1>4, <2>1 DEF Arrive, Conclude
<1>5. ASSUME NEW d \in Callers, Fail(d) \/ Expire(d)
      PROVE  CatchClause(c) /\ a = "no" /\ user'[c] = user[c]
  <2> USE DEF CatchClause, Conclude
  <2>1. CatchClause(d) /\ pc[d] = "asking"
    BY <1>5 DEF Fail, Expire, TimedOut, Asking
  <2>2. d = c
    BY <2>1
  <2> QED BY <2>1, <2>2 DEF FailClosed
<1>6. ASSUME NEW u \in Users, Invalidate(u) \/ UserChanges(u) PROVE FALSE
  BY <1>6 DEF Invalidate, UserChanges, callVars
<1>7. CASE Restart \/ Tick \/ UNCHANGED vars
  BY <1>7 DEF Restart, Tick, vars, callVars, Answer
<1> QED BY <1>1, <1>2, <1>3, <1>4, <1>5, <1>6, <1>7 DEF Next

\* An answer that is given rests on what user-service said, or on a failure,
\* not longer ago than an entry lives and a call waits.
LEMMA AnswersAreRecent ==
  ASSUME TypeOK, TypeOK', RecentInv, [Next]_vars, NEW c \in Callers, NEW a \in Answer,
         Answers(c, a)
  PROVE  /\ a = "yes" => sinceYes[user'[c]] <= Horizon
         /\ a = "no" => sinceDoubt'[user'[c]] <= Horizon
<1> USE TimeAssumption
<1>1. ASSUME NEW u \in Users, CallCached(c, u), cache[u].valid = a, user'[c] = u
      PROVE  Since(a, u) <= Horizon
  <2>1. Hit(u) /\ cache[u].left \in Int /\ cache[u].left >= 0
    BY <1>1 DEF CallCached, Hit, TypeOK, Entry
  <2>2. Since(a, u) <= TTL - cache[u].left + Timeout /\ Since(a, u) \in Int
    BY <1>1, <2>1, SinceType DEF RecentInv, EntriesAreRecent
  <2> QED BY <2>1, <2>2 DEF Horizon
<1>2. ASSUME Arrive(c), reply[c] = a
      PROVE  Since(a, user[c]) <= Horizon
  <2>1. Since(a, user[c]) <= waited[c]
    BY <1>2 DEF RecentInv, RepliesAreRecent, Answer
  <2>2. Since(a, user[c]) \in Int /\ waited[c] \in 0..Timeout
    BY SinceType DEF TypeOK
  <2> QED BY <2>1, <2>2 DEF Horizon
<1>3. ASSUME CatchClause(c) PROVE sinceDoubt'[user[c]] <= Horizon
  BY <1>3 DEF CatchClause, TypeOK, Horizon
<1>4. CASE \E u \in Users : CallCached(c, u) /\ cache[u].valid = a /\ user'[c] = u
  BY <1>1, <1>4 DEF CallCached, Since
<1>5. CASE Arrive(c) /\ reply[c] = a /\ user'[c] = user[c]
  BY <1>2, <1>5 DEF Arrive, Since
<1>6. CASE CatchClause(c) /\ a = "no" /\ user'[c] = user[c]
  BY <1>3, <1>6
<1> QED BY <1>4, <1>5, <1>6, AnswerSources

\* Fail-closed, for any number of overlapping look-ups: a user is said to exist
\* only if user-service said so within the life of an entry and one timeout.
THEOREM YesRestsOnRecentAnswer == Spec => YesIsRecent
<1>1. TypeOK /\ TypeOK' /\ RecentInv /\ [Next]_vars
        => [\A c \in Callers : Answers(c, "yes") => sinceYes[user'[c]] <= Horizon]_vars
  BY AnswersAreRecent DEF Answer
<1> QED BY <1>1, AlwaysRecent, PTL DEF Spec, YesIsRecent

\* A doubt, such as a look-up that failed, is not held against a user for longer.
THEOREM NoRestsOnRecentDoubt == Spec => NoIsRecent
<1>1. TypeOK /\ TypeOK' /\ RecentInv /\ [Next]_vars
        => [\A c \in Callers : Answers(c, "no") => sinceDoubt'[user'[c]] <= Horizon]_vars
  BY AnswersAreRecent DEF Answer
<1> QED BY <1>1, AlwaysRecent, PTL DEF Spec, NoIsRecent
=============================================================================
