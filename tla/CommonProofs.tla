----------------------------- MODULE CommonProofs -----------------------------
(***************************************************************************)
(* What the proofs of several components have in common: sequences, finite *)
(* sets, and the count of the disruptions.                                 *)
(***************************************************************************)
EXTENDS Disruptions, Sequences, FiniteSets, Functions, FiniteSetTheorems,
        WellFoundedInduction, TLAPS

-----------------------------------------------------------------------------
\* The head of a sequence, apart from the rest.
LEMMA HeadRange ==
  ASSUME NEW S, NEW q \in Seq(S), q # <<>>
  PROVE  /\ Head(q) \in S /\ Tail(q) \in Seq(S)
         /\ Range(q) = Range(Tail(q)) \cup {Head(q)}
         /\ IsInjective(q) => IsInjective(Tail(q)) /\ Head(q) \notin Range(Tail(q))
<1> DEFINE t == Tail(q)
           n == Len(q)
<1>1. n \in Nat \ {0} /\ DOMAIN q = 1..n /\ Head(q) = q[1]
  OBVIOUS
<1>2. t \in Seq(S) /\ DOMAIN t = 1..(n - 1) /\ \A i \in 1..(n - 1) : t[i] = q[i + 1]
  OBVIOUS
<1>3. Head(q) \in S
  OBVIOUS
<1> HIDE DEF t, n
<1>4. \A y : y \in Range(q) <=> \E i \in 1..n : y = q[i]
  BY <1>1 DEF Range
<1>5. \A y : y \in Range(t) <=> \E i \in 1..(n - 1) : y = q[i + 1]
  BY <1>2 DEF Range
<1>6. \A i \in 1..n : i = 1 \/ (i - 1 \in 1..(n - 1) /\ i = (i - 1) + 1)
  BY <1>1
<1>7. 1 \in 1..n /\ \A i \in 1..(n - 1) : i + 1 \in 1..n /\ i + 1 # 1
  BY <1>1
<1>8. \A y : y \in Range(q) <=> y \in Range(t) \/ y = q[1]
  <2>1. ASSUME NEW y, y \in Range(q) PROVE y \in Range(t) \/ y = q[1]
    BY <2>1, <1>4, <1>5, <1>6
  <2>2. ASSUME NEW y, y \in Range(t) \/ y = q[1] PROVE y \in Range(q)
    BY <2>2, <1>4, <1>5, <1>7
  <2> QED BY <2>1, <2>2
<1>9. ASSUME IsInjective(q)
      PROVE  IsInjective(t) /\ q[1] \notin Range(t)
  <2>1. \A i, j \in 1..n : q[i] = q[j] => i = j
    BY <1>1, <1>9 DEF IsInjective
  <2>2. \A i, j \in 1..(n - 1) : t[i] = t[j] => i = j
    <3>1. SUFFICES ASSUME NEW i \in 1..(n - 1), NEW j \in 1..(n - 1), t[i] = t[j]
                   PROVE  i = j
      OBVIOUS
    <3>2. i + 1 = j + 1
      BY <1>2, <1>7, <2>1, <3>1
    <3> QED BY <1>1, <3>1, <3>2
  <2>3. q[1] \notin Range(t)
    BY <1>5, <1>7, <2>1
  <2> QED BY <1>2, <2>2, <2>3 DEF IsInjective
<1> QED BY <1>1, <1>2, <1>3, <1>8, <1>9 DEF t

\* Appending adds one element.
LEMMA AppendRange ==
  ASSUME NEW S, NEW e \in Seq(S), NEW x \in S
  PROVE  Range(Append(e, x)) = Range(e) \cup {x}
<1> DEFINE a == Append(e, x)
<1>1. /\ DOMAIN a = 1 .. Len(e) + 1 /\ DOMAIN e = 1 .. Len(e) /\ Len(e) \in Nat
      /\ \A i \in 1 .. Len(e) : a[i] = e[i]
      /\ a[Len(e) + 1] = x
  OBVIOUS
<1> HIDE DEF a
<1>2. \A y : y \in Range(a) <=> \E i \in 1 .. Len(e) + 1 : y = a[i]
  BY <1>1 DEF Range
<1>3. \A y : y \in Range(e) <=> \E i \in 1 .. Len(e) : y = e[i]
  BY <1>1 DEF Range
<1>4. \A i \in 1 .. Len(e) + 1 : i \in 1 .. Len(e) \/ i = Len(e) + 1
  BY <1>1
<1>5. \A i \in 1 .. Len(e) : i \in 1 .. Len(e) + 1
  BY <1>1
<1>6. Len(e) + 1 \in 1 .. Len(e) + 1
  BY <1>1
<1>7. \A y : y \in Range(a) <=> y \in Range(e) \/ y = x
  BY <1>1, <1>2, <1>3, <1>4, <1>5, <1>6
<1> QED BY <1>7 DEF a

\* A new element keeps a sequence without repetition.
LEMMA AppendKeepsInjective ==
  ASSUME NEW S, NEW e \in Seq(S), NEW x \in S, IsInjective(e), x \notin Range(e)
  PROVE  IsInjective(Append(e, x))
<1> DEFINE a == Append(e, x)
           n == Len(e)
<1>1. /\ n \in Nat /\ DOMAIN a = 1..(n + 1) /\ DOMAIN e = 1..n
      /\ \A i \in 1..n : a[i] = e[i]
      /\ a[n + 1] = x
  OBVIOUS
<1> HIDE DEF a, n
<1>2. \A i \in 1..n : a[i] # x
  BY <1>1 DEF Range
<1>3. \A i, j \in 1..n : a[i] = a[j] => i = j
  BY <1>1 DEF IsInjective
<1>4. \A i \in 1..(n + 1) : i \in 1..n \/ i = n + 1
  BY <1>1
<1>5. \A i, j \in 1..(n + 1) : a[i] = a[j] => i = j
  BY <1>1, <1>2, <1>3, <1>4
<1> QED BY <1>1, <1>5 DEF IsInjective, a

\* One element more or less.
LEMMA CardinalityChange ==
  ASSUME NEW S, IsFiniteSet(S), NEW T, NEW x
  PROVE  /\ Cardinality(S) \in Nat
         /\ T \subseteq S \cup {x} => /\ IsFiniteSet(T) /\ Cardinality(T) \in Nat
                                      /\ Cardinality(T) <= Cardinality(S) + 1
         /\ T \subseteq S => Cardinality(T) <= Cardinality(S)
         /\ T \subseteq S \ {x} /\ x \in S => Cardinality(T) <= Cardinality(S) - 1
<1>1. /\ IsFiniteSet(S \cup {x}) /\ IsFiniteSet(S \ {x})
      /\ Cardinality(S) \in Nat /\ Cardinality(S \cup {x}) \in Nat
      /\ Cardinality(S \cup {x}) <= Cardinality(S) + 1
  <2>1. IsFiniteSet(S \cup {x}) /\ IsFiniteSet(S \ {x})
    BY FS_AddElement, FS_RemoveElement
  <2>2. Cardinality(S) \in Nat /\ Cardinality(S \cup {x}) \in Nat
    BY <2>1, FS_CardinalityType
  <2>3. Cardinality(S \cup {x}) = IF x \in S THEN Cardinality(S) ELSE Cardinality(S) + 1
    BY FS_AddElement
  <2> QED BY <2>1, <2>2, <2>3
<1>2. ASSUME T \subseteq S \cup {x}
      PROVE  IsFiniteSet(T) /\ Cardinality(T) \in Nat /\ Cardinality(T) <= Cardinality(S) + 1
  <2>1. IsFiniteSet(T) /\ Cardinality(T) <= Cardinality(S \cup {x})
    BY <1>1, <1>2, FS_Subset
  <2>2. Cardinality(T) \in Nat
    BY <2>1, FS_CardinalityType
  <2> QED BY <1>1, <2>1, <2>2
<1>3. T \subseteq S => Cardinality(T) <= Cardinality(S)
  BY FS_Subset
<1>4. ASSUME T \subseteq S \ {x}, x \in S PROVE Cardinality(T) <= Cardinality(S) - 1
  <2>1. Cardinality(T) <= Cardinality(S \ {x})
    BY <1>1, <1>4, FS_Subset
  <2>2. Cardinality(S \ {x}) = Cardinality(S) - 1
    BY <1>4, FS_RemoveElement
  <2> QED BY <2>1, <2>2
<1> QED BY <1>1, <1>2, <1>3, <1>4
\* A set of numbers has a least element; a bounded one has a greatest.
LEMMA LeastElement ==
  ASSUME NEW S \in SUBSET Nat, S # {}
  PROVE  \E x \in S : \A y \in S : x <= y
<1> DEFINE R == {ss \in Nat \X Nat : ss[1] < ss[2]}
<1>1. IsWellFoundedOn(R, Nat)
  BY NatLessThanWellFounded, Zenon DEF OpToRel
<1>2. PICK x \in S : \A y \in S : ~(<<y, x>> \in R)
  <2> HIDE DEF R
  <2> QED BY <1>1, WFMin
<1>3. ASSUME NEW y \in S PROVE x <= y
  <2>1. ~(<<y, x>> \in R) /\ x \in Nat /\ y \in Nat
    BY <1>2
  <2>2. <<y, x>> \in R <=> y < x
    BY <2>1
  <2> HIDE DEF R
  <2> QED BY <2>1, <2>2
<1> QED BY <1>3

LEMMA GreatestElement ==
  ASSUME NEW n \in Nat, NEW S \in SUBSET (0..n), S # {}
  PROVE  \E x \in S : \A y \in S : x >= y
<1> DEFINE T == {n - x : x \in S}
<1>1. T \subseteq Nat /\ T # {}
  <2>1. \A x \in S : n - x \in Nat
    OBVIOUS
  <2> QED BY <2>1
<1>2. PICK t \in T : \A u \in T : t <= u
  <2> HIDE DEF T
  <2> QED BY <1>1, LeastElement
<1>3. PICK x \in S : t = n - x
  OBVIOUS
<1>4. ASSUME NEW y \in S PROVE x >= y
  <2>1. n - y \in T
    OBVIOUS
  <2>2. n - x <= n - y
    BY <1>2, <1>3, <2>1
  <2>3. x \in 0..n /\ y \in 0..n
    OBVIOUS
  <2> QED BY <2>2, <2>3
<1> QED BY <1>4
-----------------------------------------------------------------------------
\* Resume goes to one of its three places.
LEMMA ResumeCases ==
  ASSUME NEW o, NEW again, NEW next, NEW handler
  PROVE  Resume(o, again, next, handler) \in {again, next, handler}
BY DEF Resume

\* A disruption is only counted.
LEMMA SufferType ==
  ASSUME DisruptionsTypeOK, NEW o, Suffer(o)
  PROVE  DisruptionsTypeOK'
BY DisruptionsAssumption DEF DisruptionsTypeOK, Suffer

\* The count is a number.
LEMMA SufferedIsNat ==
  ASSUME DisruptionsTypeOK, NEW K \in SUBSET AllKinds
  PROVE  Suffered(K) \in Nat
<1> DEFINE n(k) == IF k \in K THEN disruptions[k] ELSE 0
<1>1. \A k \in AllKinds : n(k) \in Nat
  BY DEF DisruptionsTypeOK
<1>2. Suffered(K) = n("refused") + n("unanswered") + n("resent") + n("dbRefused")
                    + n("dbUnanswered") + n("crash") + n("shutdown") + n("stall") + n("expired")
  BY DEF Suffered
<1> HIDE DEF n
<1> QED BY <1>1, <1>2 DEF AllKinds

\* It is counted once, and under its own kind.
LEMMA SufferCounts ==
  ASSUME DisruptionsTypeOK, NEW o, Suffer(o), NEW K \in SUBSET AllKinds
  PROVE  Suffered(K)' = Suffered(K) + (IF o \in K THEN 1 ELSE 0)
<1> DEFINE n(k) == IF k \in K THEN disruptions[k] ELSE 0
           m(k) == IF k \in K THEN disruptions'[k] ELSE 0
<1>1. \A k \in AllKinds : n(k) \in Nat
  BY DEF DisruptionsTypeOK
<1>2. \A k \in AllKinds : m(k) = n(k) + (IF k = o /\ k \in K THEN 1 ELSE 0)
  <2>1. "ok" \notin AllKinds
    BY DEF AllKinds
  <2> QED BY <2>1, DisruptionsAssumption DEF Suffer, DisruptionsTypeOK
<1> HIDE DEF n, m
<1>3. Suffered(K) = n("refused") + n("unanswered") + n("resent") + n("dbRefused")
                    + n("dbUnanswered") + n("crash") + n("shutdown") + n("stall") + n("expired")
  BY DEF Suffered, n
<1>4. Suffered(K)' = m("refused") + m("unanswered") + m("resent") + m("dbRefused")
                    + m("dbUnanswered") + m("crash") + m("shutdown") + m("stall") + m("expired")
  BY DEF Suffered, m
<1>5. Suffered(K) \in Nat
  BY SufferedIsNat
<1>6. CASE o \notin K
  BY <1>1, <1>2, <1>3, <1>4, <1>5, <1>6 DEF AllKinds
<1>7. CASE o \in K
  <2>1. o \in AllKinds
    BY <1>7
  <2> QED BY <1>1, <1>2, <1>3, <1>4, <1>5, <1>7, <2>1 DEF AllKinds
<1> QED BY <1>6, <1>7

\* Where nothing is suffered nothing is counted.
LEMMA SufferedUnchanged ==
  ASSUME UNCHANGED disruptions, NEW K
  PROVE  Suffered(K)' = Suffered(K)
BY DEF Suffered

\* A run begins undisturbed.
LEMMA NothingSuffered ==
  ASSUME disruptions = NoDisruptions, NEW K \in SUBSET AllKinds
  PROVE  Suffered(K) = 0
BY DEF NoDisruptions, Suffered, AllKinds

\* Counters only grow: what has not happened yet had not happened before.
LEMMA NeverBefore ==
  ASSUME DisruptionsTypeOK, NEW o, Suffer(o), NEW k \in AllKinds, Never(k)'
  PROVE  Never(k) /\ o # k
<1>1. disruptions[k] \in Nat
  BY DEF DisruptionsTypeOK
<1>2. "ok" \notin AllKinds
  BY DEF AllKinds
<1> QED BY <1>1, <1>2, DisruptionsAssumption DEF Never, Suffer, DisruptionsTypeOK

\* A set that grows by one element at most, and only where that is counted,
\* stays within its count.
LEMMA CountKept ==
  ASSUME DisruptionsTypeOK, NEW o, Suffer(o), NEW K \in SUBSET AllKinds,
         NEW D, IsFiniteSet(D), Cardinality(D) <= Suffered(K),
         NEW E, NEW x, E \subseteq D \cup {x}, o \in K \/ E \subseteq D
  PROVE  Cardinality(E) <= Suffered(K)'
<1>1. /\ Suffered(K) \in Nat
      /\ Suffered(K)' = Suffered(K) + (IF o \in K THEN 1 ELSE 0)
  BY SufferedIsNat, SufferCounts
<1>2. /\ Cardinality(D) \in Nat /\ Cardinality(E) \in Nat
      /\ Cardinality(E) <= Cardinality(D) + 1
      /\ E \subseteq D => Cardinality(E) <= Cardinality(D)
  BY CardinalityChange
<1> QED BY <1>1, <1>2

\* Two sets that grow together by no more than a counter does: an element moves
\* from one to the other, or one element is paid for.
LEMMA AccountKept ==
  ASSUME NEW F, NEW S, NEW G, NEW T, NEW c, NEW w, NEW k \in Nat, NEW n \in Nat,
         IsFiniteSet(F), IsFiniteSet(S), Cardinality(F) + Cardinality(S) <= k,
         \/ G \subseteq F /\ T \subseteq S
         \/ n = 1 /\ G \subseteq F \cup {c} /\ T \subseteq S
         \/ n = 1 /\ G \subseteq F /\ T \subseteq S \cup {w}
         \/ w \in S /\ T \subseteq S \ {w} /\ G \subseteq F \cup {c}
  PROVE  IsFiniteSet(G) /\ IsFiniteSet(T) /\ Cardinality(G) + Cardinality(T) <= k + n
<1>1. Cardinality(F) \in Nat /\ Cardinality(S) \in Nat
  BY FS_CardinalityType
<1>2. IsFiniteSet(F \cup {c}) /\ IsFiniteSet(S \cup {w}) /\ IsFiniteSet(S \ {w})
  BY FS_AddElement, FS_RemoveElement
<1>3. /\ Cardinality(F \cup {c}) <= Cardinality(F) + 1
      /\ Cardinality(S \cup {w}) <= Cardinality(S) + 1
      /\ w \in S => Cardinality(S \ {w}) = Cardinality(S) - 1
  <2>1. Cardinality(F \cup {c}) = IF c \in F THEN Cardinality(F) ELSE Cardinality(F) + 1
    BY FS_AddElement
  <2>2. Cardinality(S \cup {w}) = IF w \in S THEN Cardinality(S) ELSE Cardinality(S) + 1
    BY FS_AddElement
  <2>3. w \in S => Cardinality(S \ {w}) = Cardinality(S) - 1
    BY FS_RemoveElement
  <2> QED BY <1>1, <2>1, <2>2, <2>3
<1>4. IsFiniteSet(G) /\ IsFiniteSet(T)
      /\ Cardinality(G) \in Nat /\ Cardinality(T) \in Nat
  <2>1. G \subseteq F \cup {c} /\ T \subseteq S \cup {w}
    OBVIOUS
  <2> QED BY <1>2, <2>1, FS_Subset, FS_CardinalityType
<1>5. Cardinality(G) + Cardinality(T) <= k + n
  <2>1. CASE G \subseteq F /\ T \subseteq S
    <3>1. Cardinality(G) <= Cardinality(F) /\ Cardinality(T) <= Cardinality(S)
      BY <2>1, FS_Subset
    <3> QED BY <1>1, <1>4, <3>1
  <2>2. CASE n = 1 /\ G \subseteq F \cup {c} /\ T \subseteq S
    <3>1. Cardinality(G) <= Cardinality(F \cup {c}) /\ Cardinality(T) <= Cardinality(S)
          /\ Cardinality(F \cup {c}) \in Nat
      BY <1>2, <2>2, FS_Subset, FS_CardinalityType
    <3> QED BY <1>1, <1>3, <1>4, <2>2, <3>1
  <2>3. CASE n = 1 /\ G \subseteq F /\ T \subseteq S \cup {w}
    <3>1. Cardinality(G) <= Cardinality(F) /\ Cardinality(T) <= Cardinality(S \cup {w})
          /\ Cardinality(S \cup {w}) \in Nat
      BY <1>2, <2>3, FS_Subset, FS_CardinalityType
    <3> QED BY <1>1, <1>3, <1>4, <2>3, <3>1
  <2>4. CASE w \in S /\ T \subseteq S \ {w} /\ G \subseteq F \cup {c}
    <3>1. Cardinality(G) <= Cardinality(F \cup {c}) /\ Cardinality(T) <= Cardinality(S \ {w})
          /\ Cardinality(F \cup {c}) \in Nat
      BY <1>2, <2>4, FS_Subset, FS_CardinalityType
    <3> QED BY <1>1, <1>3, <1>4, <2>4, <3>1
  <2> QED BY <2>1, <2>2, <2>3, <2>4
<1> QED BY <1>4, <1>5
=============================================================================
