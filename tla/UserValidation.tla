---------------------------- MODULE UserValidation ----------------------------
(***************************************************************************)
(* validateUserExists: the look-up of a user in user-service, and the      *)
(* UserCacheService in front of it.                                        *)
(*                                                                         *)
(* Look-ups of one process overlap: the cache is read before the HTTP call *)
(* and written after it.  Time is kept as what is left of an entry's life, *)
(* how long a call has waited, and how long ago user-service said what, so *)
(* that it has no end; expiresAt is "now" plus left.                       *)
(***************************************************************************)
EXTENDS Integers

CONSTANTS
  Users,
  Callers,   \* slots for calls that overlap
  TTL,       \* TTL_MS
  Timeout    \* of the HTTP call

ASSUME TimeAssumption == TTL \in Nat /\ Timeout \in Nat

VARIABLES
  registered,   \* the users that user-service knows
  cache,        \* the Map: an answer and what is left of its life
  pc,           \* "idle", "asking", or the answer that is returned
  user,         \* userId of the call
  waited,       \* since the HTTP call was made
  reply,        \* what user-service has answered to it
  sinceYes,     \* how long ago user-service last said 200 of a user ...
  sinceDoubt    \* ... or something else, or a look-up failed

callVars == <<pc, user, waited, reply>>
vars == <<registered, cache, callVars, sinceYes, sinceDoubt>>

\* The longest that an answer can rest on what user-service said.
Horizon == TTL + Timeout
Ages == 0..(Horizon + 1)
Older(age) == IF age > Horizon THEN age ELSE age + 1

Answer  == {"yes", "no"}
Entry   == [valid : Answer \cup {"none"}, left : -1..TTL]
NoEntry == [valid |-> "none", left |-> -1]

TypeOK ==
  /\ registered \in SUBSET Users
  /\ cache \in [Users -> Entry]
  /\ pc \in [Callers -> Answer \cup {"idle", "asking"}]
  /\ user \in [Callers -> Users]
  /\ waited \in [Callers -> 0..Timeout]
  /\ reply \in [Callers -> Answer \cup {"none"}]
  /\ sinceYes \in [Users -> Ages]
  /\ sinceDoubt \in [Users -> Ages]

Init ==
  /\ registered \in SUBSET Users
  /\ cache = [u \in Users |-> NoEntry]
  /\ pc = [c \in Callers |-> "idle"]
  /\ user \in [Callers -> Users]
  /\ waited = [c \in Callers |-> 0]
  /\ reply = [c \in Callers |-> "none"]
  /\ sinceYes = [u \in Users |-> Horizon + 1]
  /\ sinceDoubt = [u \in Users |-> Horizon + 1]

Asking(c) == pc[c] = "asking"

\* UserCacheService.set.
Life == TTL
Set(u, answer) == cache' = [cache EXCEPT ![u] = [valid |-> answer, left |-> Life]]

\* The call caches its answer, whatever the cache holds by then, and returns it.
Conclude(c, answer) ==
  /\ Set(user[c], answer)
  /\ pc' = [pc EXCEPT ![c] = answer]
  /\ waited' = [waited EXCEPT ![c] = 0]
  /\ reply' = [reply EXCEPT ![c] = "none"]
  /\ UNCHANGED <<registered, user, sinceYes>>
-----------------------------------------------------------------------------
\* Seeded fault: an entry is good for as long as it is there.
HitForever(u) == cache[u].valid # "none"
\* UserCacheService.get returns an answer: Date.now() is not past expiresAt.
Hit(u) == cache[u].valid # "none" /\ cache[u].left >= 0

\* The call returns what the cache holds ...
CallCached(c, u) ==
  /\ pc[c] = "idle" /\ Hit(u)
  /\ pc' = [pc EXCEPT ![c] = cache[u].valid]
  /\ user' = [user EXCEPT ![c] = u]
  /\ UNCHANGED <<registered, cache, waited, reply, sinceYes, sinceDoubt>>

\* ... or drops an entry that is too old, and asks user-service.
CallService(c, u) ==
  /\ pc[c] = "idle" /\ ~Hit(u)
  /\ cache' = [cache EXCEPT ![u] = NoEntry]
  /\ pc' = [pc EXCEPT ![c] = "asking"]
  /\ user' = [user EXCEPT ![c] = u]
  /\ UNCHANGED <<registered, waited, reply, sinceYes, sinceDoubt>>

\* user-service handles the call: 200, or a 404 (any status below 500 is
\* accepted by validateStatus, and only 200 means that the user exists).
Serve(c) ==
  /\ Asking(c) /\ reply[c] = "none"
  /\ LET u == user[c]
     IN  IF u \in registered
         THEN /\ reply' = [reply EXCEPT ![c] = "yes"]
              /\ sinceYes' = [sinceYes EXCEPT ![u] = 0]
              /\ UNCHANGED sinceDoubt
         ELSE /\ reply' = [reply EXCEPT ![c] = "no"]
              /\ sinceDoubt' = [sinceDoubt EXCEPT ![u] = 0]
              /\ UNCHANGED sinceYes
  /\ UNCHANGED <<registered, cache, pc, user, waited>>

\* Its answer arrives.
Arrive(c) ==
  /\ Asking(c) /\ reply[c] # "none"
  /\ Conclude(c, reply[c])
  /\ UNCHANGED sinceDoubt

\* What the catch clause caches and returns.
FailClosed == "no"

\* The catch clause.
CatchClause(c) ==
  /\ Conclude(c, FailClosed)
  /\ sinceDoubt' = [sinceDoubt EXCEPT ![user[c]] = 0]

\* A 5xx, no connection, a lost answer: at any time, or never.
Fail(c) == Asking(c) /\ CatchClause(c)

\* Seeded fault: the timer is cleared when user-service has begun to answer.
TimedOutUnlessServed(c) == Asking(c) /\ reply[c] = "none" /\ waited[c] = Timeout
\* The timer of the HTTP call is due.
TimedOut(c) == Asking(c) /\ waited[c] = Timeout

\* The timer fires.
Expire(c) == TimedOut(c) /\ CatchClause(c)

\* The caller goes on.
Return(c) ==
  /\ pc[c] \in Answer
  /\ pc' = [pc EXCEPT ![c] = "idle"]
  /\ UNCHANGED <<registered, cache, user, waited, reply, sinceYes, sinceDoubt>>

\* UserCacheService.invalidate, which is there for anybody to call.
Invalidate(u) ==
  /\ cache' = [cache EXCEPT ![u] = NoEntry]
  /\ UNCHANGED <<registered, callVars, sinceYes, sinceDoubt>>

\* The process starts anew, with an empty Map.
Restart ==
  /\ cache' = [u \in Users |-> NoEntry]
  /\ pc' = [c \in Callers |-> "idle"]
  /\ waited' = [c \in Callers |-> 0]
  /\ reply' = [c \in Callers |-> "none"]
  /\ UNCHANGED <<registered, user, sinceYes, sinceDoubt>>

\* Seeded fault: an entry whose answer is no does not age.
AgedUnlessNo(entry) ==
  IF entry.left < 0 \/ entry.valid = "no" THEN entry ELSE [entry EXCEPT !.left = @ - 1]
Aged(entry) == IF entry.left < 0 THEN entry ELSE [entry EXCEPT !.left = @ - 1]

\* Time passes, once every timer that is due has fired.
Tick ==
  /\ \A c \in Callers : ~TimedOut(c)
  /\ cache' = [u \in Users |-> Aged(cache[u])]
  /\ waited' = [c \in Callers |->
       IF Asking(c) /\ waited[c] < Timeout THEN waited[c] + 1 ELSE waited[c]]
  /\ sinceYes' = [u \in Users |-> Older(sinceYes[u])]
  /\ sinceDoubt' = [u \in Users |-> Older(sinceDoubt[u])]
  /\ UNCHANGED <<registered, pc, user, reply>>

\* Users are registered and deleted meanwhile.
UserChanges(u) ==
  /\ registered' = IF u \in registered THEN registered \ {u} ELSE registered \cup {u}
  /\ UNCHANGED <<cache, callVars, sinceYes, sinceDoubt>>

Next ==
  \/ \E c \in Callers, u \in Users : CallCached(c, u) \/ CallService(c, u)
  \/ \E c \in Callers : Serve(c) \/ Arrive(c) \/ Fail(c) \/ Expire(c) \/ Return(c)
  \/ \E u \in Users : Invalidate(u) \/ UserChanges(u)
  \/ Restart \/ Tick

Spec == Init /\ [][Next]_vars

\* Time goes on, and a timer that is due fires.  Nothing is assumed of
\* user-service or of the network: neither an answer nor a failure.
FairSpec == Spec /\ WF_vars(Tick) /\ \A c \in Callers : WF_vars(Expire(c))
-----------------------------------------------------------------------------
Answers(c, answer) == pc[c] # answer /\ pc'[c] = answer

\* Fail-closed, with overlapping look-ups and a cache: a user is said to exist
\* only if user-service said so within the life of an entry and one timeout.
YesIsRecent ==
  [][\A c \in Callers : Answers(c, "yes") => sinceYes[user'[c]] <= Horizon]_vars

\* A look-up that failed is held against a user for the life of an entry at
\* most: who is refused was in doubt that recently.
NoIsRecent ==
  [][\A c \in Callers : Answers(c, "no") => sinceDoubt'[user'[c]] <= Horizon]_vars

\* Every call returns, however silent user-service and the network are: of the
\* ways a call may end, its timer alone is sure to come.
EveryCallReturns == \A c \in Callers : Asking(c) ~> ~Asking(c)
=============================================================================
