------------------------------ MODULE RateLimit ------------------------------
(***************************************************************************)
(* ClaimRateLimitService.assertCreateAllowed: a fixed-window counter in    *)
(* Redis.  The requests are those of one identity (every identity has keys *)
(* of its own), over the clock of one process.                             *)
(***************************************************************************)
EXTENDS Naturals, FiniteSets, Disruptions

CONSTANTS
  Requests,
  Limit,     \* createClaimRateLimit
  Window,    \* createClaimRateWindowMs, in ticks of the clock
  MaxTime    \* the clock stops here

ASSUME RateAssumption ==
  /\ IsFiniteSet(Requests)
  /\ Limit \in Nat \ {0} /\ Window \in Nat \ {0} /\ MaxTime \in Nat

VARIABLES
  now,
  count,      \* the counter of each window key, 0 if there is no key
  deadline,   \* when the key expires, 0 if it has no expiry
  pc,         \* the command a request awaits, or its verdict
  windowKey,  \* of each request
  countedAt   \* when its INCR ran last

vars == <<now, count, deadline, pc, windowKey, countedAt, disruptions>>

WindowOf(t) == t \div Window
Windows == 0 .. WindowOf(MaxTime)
Verdicts == {"admitted", "rejected", "error"}

\* Every variable stays in its type; only a key that exists has a deadline,
\* and it has not passed.
TypeOK ==
  /\ now \in 0 .. MaxTime
  /\ count \in [Windows -> Nat]
  /\ deadline \in [Windows -> Nat]
  /\ pc \in [Requests -> {"idle", "incr", "pexpire"} \cup Verdicts]
  /\ windowKey \in [Requests -> Windows]
  /\ countedAt \in [Requests -> 0 .. MaxTime]
  /\ DisruptionsTypeOK
  /\ \A k \in Windows : deadline[k] # 0 => count[k] > 0 /\ deadline[k] > now

Init ==
  /\ now = 0
  /\ count = [k \in Windows |-> 0]
  /\ deadline = [k \in Windows |-> 0]
  /\ pc = [r \in Requests |-> "idle"]
  /\ windowKey = [r \in Requests |-> 0]
  /\ countedAt = [r \in Requests |-> 0]
  /\ disruptions = NoDisruptions

Goto(r, p) == pc' = [pc EXCEPT ![r] = p]

Verdict(n) == IF n > Limit THEN "rejected" ELSE "admitted"

\* The key is built from the clock; INCR is issued.
Start(r) ==
  /\ pc[r] = "idle"
  /\ Goto(r, "incr")
  /\ windowKey' = [windowKey EXCEPT ![r] = WindowOf(now)]
  /\ UNCHANGED <<now, count, deadline, countedAt, disruptions>>

\* Seeded fault: the expiry is set by the request that fills the window.
WhenFull(n) == n = Limit
\* The request that creates the key sets its expiry.
SetsExpiry(n) == n = 1

\* INCR, and for the first request PEXPIRE is issued.
Incr(r) ==
  /\ pc[r] = "incr"
  /\ \E o \in RedisWrite :
       /\ Suffer(o)
       /\ LET k == windowKey[r]
              n == count[k] + 1
          IN  /\ count' = IF Executed(o) THEN [count EXCEPT ![k] = n] ELSE count
              /\ countedAt' = IF Executed(o) THEN [countedAt EXCEPT ![r] = now]
                                             ELSE countedAt
              /\ Goto(r, Resume(o, "incr", IF SetsExpiry(n) THEN "pexpire" ELSE Verdict(n),
                                "error"))
  /\ UNCHANGED <<now, deadline, windowKey>>

\* Seeded fault: the key may expire inside its window.
ShortLife == Window - 1
\* How long a key lives after its PEXPIRE.
Life == Window

\* PEXPIRE.
PExpire(r) ==
  /\ pc[r] = "pexpire"
  /\ \E o \in RedisWrite :
       /\ Suffer(o)
       /\ deadline' = IF Executed(o) /\ count[windowKey[r]] > 0
                      THEN [deadline EXCEPT ![windowKey[r]] = now + Life]
                      ELSE deadline
       /\ Goto(r, Resume(o, "pexpire", Verdict(1), "error"))
  /\ UNCHANGED <<now, count, windowKey, countedAt>>

\* The process that serves the request dies.
Crash(r) ==
  /\ pc[r] \in {"incr", "pexpire"}
  /\ Suffer("crash")
  /\ Goto(r, "error")
  /\ UNCHANGED <<now, count, deadline, windowKey, countedAt>>

\* Time passes, and Redis drops the keys whose deadline has come.
Tick ==
  /\ now < MaxTime
  /\ now' = now + 1
  /\ LET Dropped == {k \in Windows : deadline[k] = now + 1}
     IN  /\ count' = [k \in Windows |-> IF k \in Dropped THEN 0 ELSE count[k]]
         /\ deadline' = [k \in Windows |-> IF k \in Dropped THEN 0 ELSE deadline[k]]
  /\ UNCHANGED <<pc, windowKey, countedAt, disruptions>>

Next ==
  \/ \E r \in Requests : Start(r) \/ Incr(r) \/ PExpire(r) \/ Crash(r)
  \/ Tick

Spec == Init /\ [][Next]_vars
-----------------------------------------------------------------------------
\* At most Limit of the requests that are counted inside their window are
\* admitted in it: no key is dropped before its window is over.  (A request
\* whose INCR arrives after that may find the counter gone, and is admitted.)
ThrottleHolds ==
  \A k \in Windows :
    Cardinality({r \in Requests : /\ pc[r] = "admitted"
                                  /\ windowKey[r] = k
                                  /\ WindowOf(countedAt[r]) = k}) <= Limit

\* A counter that stays in Redis for good, with no deadline and no request that
\* is about to set one, is left by a command that fails or a process that dies;
\* one counter for each at most.
Lasting == {k \in Windows : /\ count[k] > 0 /\ deadline[k] = 0
                            /\ \A r \in Requests : windowKey[r] = k => pc[r] # "pexpire"}
CountersHaveDeadlines ==
  Cardinality(Lasting) <= Suffered({"refused", "unanswered", "resent", "crash"})
=============================================================================
