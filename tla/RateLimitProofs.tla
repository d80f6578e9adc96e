--------------------------- MODULE RateLimitProofs ---------------------------
(***************************************************************************)
(* The create rate limit: its types, the throttle, and that its counters   *)
(* expire.                                                                 *)
(***************************************************************************)
EXTENDS RateLimit, CommonProofs, FiniteSetTheorems, TLAPS

\* An instant lies in its window, whose bounds are multiples of its length.
LEMMA WindowBounds ==
  ASSUME NEW t \in Nat
  PROVE  /\ WindowOf(t) \in Nat
         /\ Window * WindowOf(t) <= t
         /\ t < Window * WindowOf(t) + Window
BY RateAssumption, SMTT(30) DEF WindowOf

\* Later instants lie in no earlier window.
LEMMA WindowMonotone ==
  ASSUME NEW t \in Nat, NEW u \in Nat, t <= u
  PROVE  WindowOf(t) <= WindowOf(u)
<1> DEFINE p == WindowOf(t)
           q == WindowOf(u)
<1>1. /\ p \in Nat /\ q \in Nat /\ Window \in Nat \ {0}
      /\ Window * p <= t /\ u < Window * q + Window
  BY WindowBounds, RateAssumption
<1> HIDE DEF p, q
<1>2. SUFFICES ASSUME q + 1 <= p PROVE FALSE
  BY <1>1 DEF p, q
<1>3. Window * (q + 1) <= Window * p
  BY <1>1, <1>2, SMTT(30)
<1>4. Window * (q + 1) = Window * q + Window
  BY <1>1, SMTT(30)
<1> QED BY <1>1, <1>3, <1>4

\* The windows are numbered from 0.
LEMMA WindowsAreNat == Windows \subseteq Nat
BY WindowBounds, RateAssumption DEF Windows

\* One window's length later it is the next window.
LEMMA WindowLater ==
  ASSUME NEW t \in Nat
  PROVE  WindowOf(t + Window) = WindowOf(t) + 1
BY WindowBounds, RateAssumption, SMTT(30) DEF WindowOf
-----------------------------------------------------------------------------
\* Every step preserves the types.
LEMMA NextType == TypeOK /\ [Next]_vars => TypeOK'
<1> SUFFICES ASSUME TypeOK, [Next]_vars PROVE TypeOK'
  OBVIOUS
<1>a. /\ now \in 0 .. MaxTime /\ MaxTime \in Nat /\ Window \in Nat \ {0} /\ Limit \in Nat \ {0}
      /\ Windows \subseteq Nat
  <2>1. WindowOf(MaxTime) \in Nat
    BY WindowBounds, RateAssumption
  <2> QED BY <2>1, RateAssumption DEF TypeOK, Windows
<1>1. ASSUME NEW r \in Requests, Start(r) PROVE TypeOK'
  <2>1. WindowOf(now) \in Windows
    <3>1. /\ WindowOf(now) \in Nat /\ WindowOf(MaxTime) \in Nat
          /\ WindowOf(now) <= WindowOf(MaxTime)
      BY <1>a, WindowBounds, WindowMonotone
    <3> QED BY <3>1 DEF Windows
  <2> QED BY <1>1, <2>1 DEF Start, Goto, TypeOK, DisruptionsTypeOK
<1>2. ASSUME NEW r \in Requests, Incr(r) PROVE TypeOK'
  <2>1. PICK o \in RedisWrite :
          /\ Suffer(o)
          /\ LET k == windowKey[r]
                 n == count[k] + 1
             IN  /\ count' = IF Executed(o) THEN [count EXCEPT ![k] = n] ELSE count
                 /\ countedAt' = IF Executed(o) THEN [countedAt EXCEPT ![r] = now]
                                                ELSE countedAt
                 /\ Goto(r, Resume(o, "incr", IF SetsExpiry(n) THEN "pexpire" ELSE Verdict(n),
                                   "error"))
    BY <1>2 DEF Incr
  <2>2. /\ windowKey[r] \in Windows /\ count \in [Windows -> Nat]
        /\ UNCHANGED <<now, deadline, windowKey>>
    BY <1>2 DEF Incr, TypeOK
  <2>3. DisruptionsTypeOK'
    BY <2>1, SufferType DEF TypeOK
  <2>4. /\ count' \in [Windows -> Nat]
        /\ \A k \in Windows : count[k] > 0 => count'[k] > 0
    <3> DEFINE w == windowKey[r]
               n == count[windowKey[r]] + 1
    <3>1. (count' = [count EXCEPT ![w] = n] \/ count' = count) /\ n \in Nat \ {0}
      BY <2>1, <2>2
    <3> HIDE DEF w, n
    <3> QED BY <2>2, <3>1
  <2>5. \E p \in {"incr", "pexpire", "error", "admitted", "rejected"} : Goto(r, p)
    BY <2>1 DEF Resume, Verdict
  <2>6. pc' \in [Requests -> {"idle", "incr", "pexpire"} \cup Verdicts]
    BY <2>5 DEF Goto, TypeOK, Verdicts
  <2>7. countedAt' \in [Requests -> 0 .. MaxTime]
    BY <2>1 DEF TypeOK
  <2> QED BY <2>2, <2>3, <2>4, <2>6, <2>7 DEF TypeOK
<1>3. ASSUME NEW r \in Requests, PExpire(r) PROVE TypeOK'
  <2>1. PICK o \in RedisWrite :
          /\ Suffer(o)
          /\ deadline' = IF Executed(o) /\ count[windowKey[r]] > 0
                         THEN [deadline EXCEPT ![windowKey[r]] = now + Life]
                         ELSE deadline
          /\ Goto(r, Resume(o, "pexpire", Verdict(1), "error"))
    BY <1>3 DEF PExpire
  <2>2. UNCHANGED <<now, count, windowKey, countedAt>> /\ windowKey[r] \in Windows
    BY <1>3 DEF PExpire, TypeOK
  <2>3. DisruptionsTypeOK'
    BY <2>1, SufferType DEF TypeOK
  <2>4. now + Life \in Nat /\ now + Life > now
    BY <1>a DEF Life
  <2>5. /\ deadline' \in [Windows -> Nat]
        /\ \A k \in Windows : deadline'[k] # 0 => count[k] > 0 /\ deadline'[k] > now
    BY <2>1, <2>2, <2>4 DEF TypeOK
  <2>6. \E p \in {"pexpire", "error", "admitted", "rejected"} : Goto(r, p)
    BY <2>1 DEF Resume, Verdict
  <2>7. pc' \in [Requests -> {"idle", "incr", "pexpire"} \cup Verdicts]
    BY <2>6 DEF Goto, TypeOK, Verdicts
  <2> QED BY <2>2, <2>3, <2>5, <2>7 DEF TypeOK
<1>4. ASSUME NEW r \in Requests, Crash(r) PROVE TypeOK'
  BY <1>4, SufferType DEF Crash, Goto, TypeOK, Verdicts
<1>5. CASE Tick
  <2>1. /\ now < MaxTime /\ now' = now + 1
        /\ count' = [k \in Windows |-> IF deadline[k] = now + 1 THEN 0 ELSE count[k]]
        /\ deadline' = [k \in Windows |-> IF deadline[k] = now + 1 THEN 0 ELSE deadline[k]]
        /\ UNCHANGED <<pc, windowKey, countedAt, disruptions>>
    BY <1>5 DEF Tick
  <2>2. now' \in 0 .. MaxTime
    BY <1>a, <2>1
  <2>3. count' \in [Windows -> Nat] /\ deadline' \in [Windows -> Nat]
    BY <2>1 DEF TypeOK
  <2>4. ASSUME NEW k \in Windows, deadline'[k] # 0 PROVE count'[k] > 0 /\ deadline'[k] > now'
    <3>1. deadline'[k] = deadline[k] /\ count'[k] = count[k] /\ deadline[k] # now + 1
      BY <2>1, <2>4
    <3>2. deadline[k] \in Nat /\ count[k] > 0 /\ deadline[k] > now
      BY <2>4, <3>1 DEF TypeOK
    <3> QED BY <1>a, <2>1, <3>1, <3>2
  <2> QED BY <2>1, <2>2, <2>3, <2>4 DEF TypeOK, DisruptionsTypeOK
<1>6. CASE UNCHANGED vars
  BY <1>6 DEF vars, TypeOK, DisruptionsTypeOK
<1> QED BY <1>1, <1>2, <1>3, <1>4, <1>5, <1>6 DEF Next

\* Every variable stays in its type, and only a key that is there has a
\* deadline, which has not passed.
THEOREM TypeCorrect == Spec => []TypeOK
<1>1. Init => TypeOK
  <2>1. WindowOf(MaxTime) \in Nat /\ MaxTime \in Nat
    BY WindowBounds, RateAssumption
  <2> QED BY <2>1 DEF Init, TypeOK, Windows, NoDisruptions, DisruptionsTypeOK
<1>2. TypeOK /\ [Next]_vars => TypeOK'
  BY NextType
<1> QED BY <1>1, <1>2, PTL DEF Spec
-----------------------------------------------------------------------------
(***************************************************************************)
(* The throttle.  A request that is to set the expiry is as good as        *)
(* admitted.  Until a window is over its key is there, and counts at least *)
(* those; from then on no request is counted inside it any more.           *)
(***************************************************************************)
CountedIn(k) ==
  {r \in Requests : /\ pc[r] \in {"admitted", "pexpire"}
                    /\ windowKey[r] = k /\ WindowOf(countedAt[r]) = k}

KeysHaveBegun == \A r \in Requests : windowKey[r] <= WindowOf(now)
KeysOutliveWindows == \A k \in Windows : deadline[k] # 0 => k < WindowOf(deadline[k])
CountsSuffice(k) ==
  /\ Cardinality(CountedIn(k)) <= Limit
  /\ WindowOf(now) <= k => Cardinality(CountedIn(k)) <= count[k]
ThrottleInv == KeysHaveBegun /\ KeysOutliveWindows /\ \A k \in Windows : CountsSuffice(k)

\* What is counted in a window, as a finite set.
LEMMA CountedInFinite ==
  ASSUME NEW k
  PROVE  IsFiniteSet(CountedIn(k)) /\ Cardinality(CountedIn(k)) \in Nat
<1>1. IsFiniteSet(CountedIn(k))
  BY RateAssumption, FS_Subset DEF CountedIn
<1> QED BY <1>1, FS_CardinalityType

\* A step that counts no further request, and drops no key before its time.
LEMMA NothingCounted ==
  ASSUME TypeOK, NEW k \in Windows, CountsSuffice(k), CountedIn(k)' \subseteq CountedIn(k),
         count'[k] \in Nat, WindowOf(now') <= k => WindowOf(now) <= k /\ count[k] <= count'[k]
  PROVE  CountsSuffice(k)'
<1> DEFINE C == CountedIn(k)
           D == CountedIn(k)'
<1>1. /\ Cardinality(C) \in Nat /\ Cardinality(D) \in Nat
      /\ Cardinality(D) <= Cardinality(C)
  BY CountedInFinite, CardinalityChange
<1>2. Cardinality(C) <= Limit /\ (WindowOf(now) <= k => Cardinality(C) <= count[k])
  BY DEF CountsSuffice
<1>3. count[k] \in Nat /\ Limit \in Nat
  BY RateAssumption DEF TypeOK
<1> HIDE DEF C, D
<1>4. /\ Cardinality(D) <= Limit
      /\ WindowOf(now') <= k => Cardinality(D) <= count'[k]
  BY <1>1, <1>2, <1>3
<1> QED BY <1>4 DEF CountsSuffice, D

\* INCR: the request is counted, in this window if that is still the one of
\* its key, and admitted only while the counter is within the limit.
LEMMA IncrThrottle ==
  ASSUME TypeOK, ThrottleInv, NEW r \in Requests, Incr(r), NEW k \in Windows
  PROVE  CountsSuffice(k)'
<1>1. PICK o \in RedisWrite :
        LET w == windowKey[r]
            n == count[w] + 1
        IN  /\ count' = IF Executed(o) THEN [count EXCEPT ![w] = n] ELSE count
            /\ countedAt' = IF Executed(o) THEN [countedAt EXCEPT ![r] = now]
                                           ELSE countedAt
            /\ Goto(r, Resume(o, "incr", IF SetsExpiry(n) THEN "pexpire" ELSE Verdict(n),
                              "error"))
  BY DEF Incr
<1>2. /\ pc[r] = "incr" /\ UNCHANGED <<now, windowKey>>
      /\ windowKey[r] \in Windows /\ count \in [Windows -> Nat]
      /\ pc \in [Requests -> {"idle", "incr", "pexpire"} \cup Verdicts]
      /\ countedAt \in [Requests -> 0 .. MaxTime]
      /\ Limit \in Nat \ {0}
  BY RateAssumption DEF Incr, TypeOK
<1>3. PICK n \in Nat : n = count[windowKey[r]] + 1
  BY <1>2
<1>4. ASSUME NEW s \in Requests, s # r
      PROVE  pc'[s] = pc[s] /\ countedAt'[s] = countedAt[s]
  BY <1>1, <1>2, <1>4 DEF Goto
<1>5. CountsSuffice(k) /\ count[k] \in Nat
  BY <1>2 DEF ThrottleInv
<1>6. count[k] <= count'[k] /\ count'[k] \in Nat
  BY <1>1, <1>2
<1>7. CASE r \notin CountedIn(k)'
  <2>1. CountedIn(k)' \subseteq CountedIn(k)
    BY <1>2, <1>4, <1>7 DEF CountedIn
  <2> QED BY <1>2, <1>5, <1>6, <2>1, NothingCounted
<1>8. CASE r \in CountedIn(k)'
  <2>1. o = "ok" /\ pc'[r] \in {"admitted", "pexpire"} /\ windowKey[r] = k
    BY <1>1, <1>2, <1>8 DEF CountedIn, Goto, Resume, RedisWrite
  <2>2. countedAt'[r] = now /\ count'[k] = n /\ WindowOf(now) = k
    BY <1>1, <1>2, <1>3, <1>8, <2>1 DEF Executed, CountedIn
  <2>3. n <= Limit
    BY <1>1, <1>2, <1>3, <2>1 DEF Goto, Resume, Verdict, SetsExpiry
  <2>4. PICK c \in Nat : c = Cardinality(CountedIn(k))
    BY CountedInFinite
  <2>5. c <= count[k] /\ count[k] + 1 = n
    <3>1. k \in Nat
      BY <1>2, <2>1, WindowsAreNat
    <3> QED BY <1>3, <1>5, <2>1, <2>2, <2>4, <3>1 DEF CountsSuffice
  <2>6. Cardinality(CountedIn(k)') \in Nat /\ Cardinality(CountedIn(k)') <= c + 1
    <3>1. CountedIn(k)' \subseteq CountedIn(k) \cup {r}
      BY <1>2, <1>4 DEF CountedIn
    <3> QED BY <2>4, <3>1, CountedInFinite, CardinalityChange
  <2>7. Cardinality(CountedIn(k)') <= n
    BY <1>5, <2>4, <2>5, <2>6
  <2> QED BY <1>2, <2>2, <2>3, <2>6, <2>7 DEF CountsSuffice
<1> QED BY <1>7, <1>8

\* Time passes: a key whose deadline has come is that of a window that is over.
LEMMA TickThrottle ==
  ASSUME TypeOK, ThrottleInv, Tick
  PROVE  ThrottleInv'
<1>1. /\ now \in Nat /\ now' = now + 1
      /\ count' = [k \in Windows |-> IF deadline[k] = now + 1 THEN 0 ELSE count[k]]
      /\ deadline' = [k \in Windows |-> IF deadline[k] = now + 1 THEN 0 ELSE deadline[k]]
      /\ UNCHANGED <<pc, windowKey, countedAt>>
  BY DEF Tick, TypeOK
<1>2. /\ WindowOf(now) \in Nat /\ WindowOf(now') \in Nat /\ WindowOf(now) <= WindowOf(now')
      /\ Windows \subseteq Nat
  <2>1. \A t \in Nat : WindowOf(t) \in Nat /\ WindowOf(t) <= WindowOf(t + 1)
    BY WindowBounds, WindowMonotone
  <2> QED BY <1>1, <2>1, WindowsAreNat
<1>3. KeysHaveBegun'
  <2> SUFFICES ASSUME NEW r \in Requests PROVE windowKey[r] <= WindowOf(now')
    BY <1>1, Zenon DEF KeysHaveBegun
  <2>1. windowKey[r] \in Nat /\ windowKey[r] <= WindowOf(now)
    BY <1>2 DEF ThrottleInv, KeysHaveBegun, TypeOK
  <2> QED BY <1>2, <2>1
<1>4. KeysOutliveWindows'
  BY <1>1 DEF ThrottleInv, KeysOutliveWindows
<1>5. ASSUME NEW k \in Windows PROVE CountsSuffice(k)'
  <2>1. CountedIn(k)' = CountedIn(k)
    BY <1>1 DEF CountedIn
  <2>2. count'[k] \in Nat /\ (WindowOf(now') <= k => count'[k] = count[k])
    <3>1. deadline[k] = now + 1 => k < WindowOf(now')
      BY <1>1 DEF ThrottleInv, KeysOutliveWindows
    <3> QED BY <1>1, <1>2, <3>1 DEF TypeOK
  <2> QED BY <1>2, <2>1, <2>2, NothingCounted DEF ThrottleInv, TypeOK
<1> QED BY <1>3, <1>4, <1>5 DEF ThrottleInv

\* Every step preserves the invariant of the throttle.
LEMMA NextThrottle == TypeOK /\ ThrottleInv /\ [Next]_vars => ThrottleInv'
<1> SUFFICES ASSUME TypeOK, ThrottleInv, [Next]_vars PROVE ThrottleInv'
  OBVIOUS
<1>a. now \in Nat /\ WindowOf(now) \in Nat /\ Windows \subseteq Nat
  <2>1. now \in Nat
    BY RateAssumption DEF TypeOK
  <2> QED BY <2>1, WindowBounds DEF Windows
<1>1. ASSUME NEW r \in Requests, Start(r) PROVE ThrottleInv'
  <2>1. /\ pc[r] = "idle" /\ pc' = [pc EXCEPT ![r] = "incr"]
        /\ windowKey' = [windowKey EXCEPT ![r] = WindowOf(now)]
        /\ UNCHANGED <<now, count, deadline, countedAt>>
    BY <1>1 DEF Start, Goto
  <2>2. KeysHaveBegun' /\ KeysOutliveWindows'
    BY <1>a, <2>1 DEF ThrottleInv, KeysHaveBegun, KeysOutliveWindows, TypeOK
  <2>3. ASSUME NEW k \in Windows PROVE CountsSuffice(k)'
    <3>1. CountedIn(k)' \subseteq CountedIn(k)
      BY <2>1 DEF CountedIn, TypeOK
    <3> QED BY <2>1, <3>1, NothingCounted DEF ThrottleInv, TypeOK
  <2> QED BY <2>2, <2>3 DEF ThrottleInv
<1>2. ASSUME NEW r \in Requests, Incr(r) PROVE ThrottleInv'
  <2>1. UNCHANGED <<now, deadline, windowKey>>
    BY <1>2 DEF Incr
  <2>2. KeysHaveBegun' /\ KeysOutliveWindows'
    BY <2>1 DEF ThrottleInv, KeysHaveBegun, KeysOutliveWindows
  <2> QED BY <1>2, <2>2, IncrThrottle DEF ThrottleInv
<1>3. ASSUME NEW r \in Requests, PExpire(r) PROVE ThrottleInv'
  <2>1. /\ pc[r] = "pexpire" /\ UNCHANGED <<now, count, windowKey, countedAt>>
        /\ \/ deadline' = [deadline EXCEPT ![windowKey[r]] = now + Life]
           \/ deadline' = deadline
        /\ \E p : pc' = [pc EXCEPT ![r] = p]
    BY <1>3 DEF PExpire, Goto
  <2>2. WindowOf(now + Life) = WindowOf(now) + 1
    BY <1>a, WindowLater DEF Life
  <2>3. KeysOutliveWindows'
    <3>1. windowKey[r] \in Nat /\ windowKey[r] <= WindowOf(now)
      BY <1>a DEF ThrottleInv, KeysHaveBegun, TypeOK
    <3>2. windowKey[r] < WindowOf(now + Life)
      BY <1>a, <2>2, <3>1
    <3>3. ASSUME NEW k \in Windows, deadline'[k] # 0 PROVE k < WindowOf(deadline'[k])
      <4>1. deadline'[k] = deadline[k] \/ (k = windowKey[r] /\ deadline'[k] = now + Life)
        BY <2>1 DEF TypeOK
      <4> QED BY <3>2, <3>3, <4>1 DEF ThrottleInv, KeysOutliveWindows
    <3> QED BY <3>3 DEF KeysOutliveWindows
  <2>4. ASSUME NEW k \in Windows PROVE CountsSuffice(k)'
    <3>1. CountedIn(k)' \subseteq CountedIn(k)
      BY <2>1 DEF CountedIn, TypeOK
    <3> QED BY <2>1, <3>1, NothingCounted DEF ThrottleInv, TypeOK
  <2> QED BY <2>1, <2>3, <2>4 DEF ThrottleInv, KeysHaveBegun
<1>4. ASSUME NEW r \in Requests, Crash(r) PROVE ThrottleInv'
  <2>1. /\ pc' = [pc EXCEPT ![r] = "error"]
        /\ UNCHANGED <<now, count, deadline, windowKey, countedAt>>
    BY <1>4 DEF Crash, Goto
  <2>2. ASSUME NEW k \in Windows PROVE CountsSuffice(k)'
    <3>1. CountedIn(k)' \subseteq CountedIn(k)
      BY <2>1 DEF CountedIn, TypeOK
    <3> QED BY <2>1, <3>1, NothingCounted DEF ThrottleInv, TypeOK
  <2> QED BY <2>1, <2>2 DEF ThrottleInv, KeysHaveBegun, KeysOutliveWindows
<1>5. CASE Tick
  BY <1>5, TickThrottle
<1>6. CASE UNCHANGED vars
  BY <1>6 DEF vars, ThrottleInv, KeysHaveBegun, KeysOutliveWindows, CountsSuffice, CountedIn
<1> QED BY <1>1, <1>2, <1>3, <1>4, <1>5, <1>6 DEF Next

\* No request is counted at first.
LEMMA InitThrottle == Init => ThrottleInv
<1> SUFFICES ASSUME Init PROVE ThrottleInv
  OBVIOUS
<1>1. \A k : CountedIn(k) = {}
  BY DEF Init, CountedIn
<1>2. Cardinality({}) = 0
  BY FS_EmptySet
<1>3. WindowOf(now) \in Nat
  BY WindowBounds DEF Init
<1> QED BY <1>1, <1>2, <1>3, RateAssumption
        DEF Init, ThrottleInv, KeysHaveBegun, KeysOutliveWindows, CountsSuffice

\* At most Limit of the requests counted inside their window are admitted in
\* it, whatever fails and however the requests are interleaved.
THEOREM TheThrottleHolds == Spec => []ThrottleHolds
<1>1. Init => ThrottleInv
  BY InitThrottle
<1>2. TypeOK /\ ThrottleInv /\ [Next]_vars => ThrottleInv'
  BY NextThrottle
<1>3. ThrottleInv => ThrottleHolds
  <2> SUFFICES ASSUME ThrottleInv, NEW k \in Windows
               PROVE  Cardinality({r \in Requests : /\ pc[r] = "admitted"
                                                    /\ windowKey[r] = k
                                                    /\ WindowOf(countedAt[r]) = k}) <= Limit
    BY DEF ThrottleHolds
  <2> DEFINE A == {r \in Requests : /\ pc[r] = "admitted"
                                    /\ windowKey[r] = k
                                    /\ WindowOf(countedAt[r]) = k}
  <2>1. A \subseteq CountedIn(k)
    BY DEF CountedIn
  <2>2. /\ Cardinality(A) \in Nat /\ Cardinality(CountedIn(k)) \in Nat
        /\ Cardinality(A) <= Cardinality(CountedIn(k))
    <3> HIDE DEF A
    <3> QED BY <2>1, CountedInFinite, CardinalityChange
  <2>3. Cardinality(CountedIn(k)) <= Limit /\ Limit \in Nat
    BY RateAssumption DEF ThrottleInv, CountsSuffice
  <2> HIDE DEF A
  <2>4. Cardinality(A) <= Limit
    BY <2>2, <2>3
  <2> QED BY <2>4 DEF A
<1> QED BY <1>1, <1>2, <1>3, TypeCorrect, PTL DEF Spec
-----------------------------------------------------------------------------
\* Windows are finitely many.
LEMMA LastingFinite == IsFiniteSet(Lasting)
<1>1. WindowOf(MaxTime) \in Nat
  BY WindowBounds, RateAssumption
<1>2. IsFiniteSet(Windows)
  BY <1>1, FS_Interval DEF Windows
<1> QED BY <1>2, FS_Subset DEF Lasting

\* What a step of one request may leave behind: the counter of its window, and
\* that only by a failure.
LEMMA LastingStep ==
  ASSUME TypeOK, NEW r \in Requests, Start(r) \/ Incr(r) \/ PExpire(r) \/ Crash(r)
  PROVE  \/ UNCHANGED disruptions /\ Lasting' \subseteq Lasting
         \/ \E o : /\ Suffer(o)
                   /\ Lasting' \subseteq Lasting \cup {windowKey[r]}
                   /\ o \in {"refused", "unanswered", "resent", "crash"}
                      \/ Lasting' \subseteq Lasting
<1> DEFINE w == windowKey[r]
<1>a. /\ count \in [Windows -> Nat] /\ deadline \in [Windows -> Nat] /\ w \in Windows
      /\ pc \in [Requests -> {"idle", "incr", "pexpire"} \cup Verdicts]
      /\ windowKey \in [Requests -> Windows]
      /\ now \in Nat
  BY DEF TypeOK
<1>1. CASE Start(r)
  <2>1. /\ pc[r] = "idle"
        /\ \A s \in Requests \ {r} : pc'[s] = pc[s] /\ windowKey'[s] = windowKey[s]
        /\ UNCHANGED <<count, deadline, disruptions>>
    BY <1>1 DEF Start, Goto, TypeOK
  <2>2. Lasting' \subseteq Lasting
    BY <2>1 DEF Lasting
  <2> QED BY <2>1, <2>2
<1>2. CASE Incr(r)
  <2>1. PICK o \in RedisWrite :
          /\ Suffer(o)
          /\ count' = IF Executed(o) THEN [count EXCEPT ![w] = count[w] + 1] ELSE count
          /\ Goto(r, Resume(o, "incr", IF SetsExpiry(count[w] + 1) THEN "pexpire"
                                       ELSE Verdict(count[w] + 1), "error"))
    BY <1>2 DEF Incr
  <2>2. /\ pc[r] = "incr" /\ UNCHANGED <<deadline, windowKey>>
        /\ \A s \in Requests \ {r} : pc'[s] = pc[s]
        /\ \A k \in Windows : k # w => count'[k] = count[k]
    BY <1>a, <1>2, <2>1 DEF Incr, Goto
  <2>3. Lasting' \subseteq Lasting \cup {w}
    BY <2>2 DEF Lasting
  <2>4. CASE o = "ok"
    <3>1. count[w] = 0 => pc'[r] = "pexpire"
      BY <1>a, <2>1, <2>4 DEF Goto, Resume, SetsExpiry
    <3>2. w \in Lasting' => w \in Lasting
      BY <1>a, <2>2, <3>1 DEF Lasting
    <3>3. Lasting' \subseteq Lasting
      BY <2>3, <3>2
    <3> QED BY <2>1, <2>3, <3>3
  <2> QED BY <2>1, <2>3, <2>4 DEF RedisWrite
<1>3. CASE PExpire(r)
  <2>1. PICK o \in RedisWrite :
          /\ Suffer(o)
          /\ deadline' = IF Executed(o) /\ count[w] > 0 THEN [deadline EXCEPT ![w] = now + Life]
                         ELSE deadline
          /\ Goto(r, Resume(o, "pexpire", Verdict(1), "error"))
    BY <1>3 DEF PExpire
  <2>2. /\ UNCHANGED <<count, windowKey>>
        /\ \A s \in Requests \ {r} : pc'[s] = pc[s]
        /\ \A k \in Windows : k # w => deadline'[k] = deadline[k]
    BY <1>a, <1>3, <2>1 DEF PExpire, Goto
  <2>3. Lasting' \subseteq Lasting \cup {w}
    BY <2>2 DEF Lasting
  <2>4. CASE o = "ok"
    <3>1. count[w] > 0 => deadline'[w] # 0
      BY <1>a, <2>1, <2>4, RateAssumption DEF Executed, Life
    <3>2. w \notin Lasting'
      BY <2>2, <3>1 DEF Lasting
    <3> QED BY <2>1, <2>3, <3>2
  <2> QED BY <2>1, <2>3, <2>4 DEF RedisWrite
<1>4. CASE Crash(r)
  <2>1. /\ Suffer("crash") /\ UNCHANGED <<count, deadline, windowKey>>
        /\ \A s \in Requests \ {r} : pc'[s] = pc[s]
    BY <1>a, <1>4 DEF Crash, Goto
  <2>2. Lasting' \subseteq Lasting \cup {w}
    BY <2>1 DEF Lasting
  <2> QED BY <2>1, <2>2
<1> QED BY <1>1, <1>2, <1>3, <1>4

\* A counter that stays in Redis for good is left by a command that fails or a
\* process that dies: one for each at most, however requests are interleaved.
THEOREM CountersExpire == Spec => []CountersHaveDeadlines
<1> DEFINE K == {"refused", "unanswered", "resent", "crash"}
<1>1. Init => CountersHaveDeadlines
  <2> SUFFICES ASSUME Init PROVE CountersHaveDeadlines
    OBVIOUS
  <2>1. Lasting = {}
    BY DEF Init, Lasting
  <2>2. Suffered(K) = 0
    BY NothingSuffered DEF Init, AllKinds
  <2> QED BY <2>1, <2>2, FS_EmptySet DEF CountersHaveDeadlines
<1>2. TypeOK /\ CountersHaveDeadlines /\ [Next]_vars => CountersHaveDeadlines'
  <2> SUFFICES ASSUME TypeOK, CountersHaveDeadlines, [Next]_vars
               PROVE  Cardinality(Lasting') <= Suffered(K)'
    BY DEF CountersHaveDeadlines
  <2>1. /\ DisruptionsTypeOK /\ K \in SUBSET AllKinds
        /\ IsFiniteSet(Lasting) /\ Cardinality(Lasting) <= Suffered(K)
    BY LastingFinite DEF TypeOK, AllKinds, CountersHaveDeadlines
  <2>2. ASSUME UNCHANGED disruptions, Lasting' \subseteq Lasting
        PROVE  Cardinality(Lasting') <= Suffered(K)'
    <3>1. Suffered(K)' = Suffered(K) /\ Suffered(K) \in Nat
      BY <2>1, <2>2, SufferedUnchanged, SufferedIsNat
    <3>2. /\ Cardinality(Lasting') <= Cardinality(Lasting)
          /\ Cardinality(Lasting') \in Nat /\ Cardinality(Lasting) \in Nat
      BY <2>1, <2>2, FS_Subset, FS_CardinalityType
    <3> HIDE DEF K
    <3> QED BY <2>1, <3>1, <3>2
  <2>3. ASSUME NEW r \in Requests, Start(r) \/ Incr(r) \/ PExpire(r) \/ Crash(r)
        PROVE  Cardinality(Lasting') <= Suffered(K)'
    BY <2>1, <2>2, <2>3, LastingStep, CountKept
  <2>4. CASE Tick
    <3>1. Lasting' \subseteq Lasting /\ UNCHANGED disruptions
      BY <2>4 DEF Tick, TypeOK, Lasting
    <3> QED BY <2>2, <3>1
  <2>5. CASE UNCHANGED vars
    BY <2>2, <2>5 DEF vars, Lasting
  <2> QED BY <2>3, <2>4, <2>5 DEF Next
<1> QED BY <1>1, <1>2, TypeCorrect, PTL DEF Spec
=============================================================================
