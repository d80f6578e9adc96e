----------------------------- MODULE RequestProofs -----------------------------
(***************************************************************************)
(* What one request meets: the configuration of its process, the way to    *)
(* its handler, the key and the claim that its content comes to, and the   *)
(* lines it logs.  The four components know nothing of one another and     *)
(* share no name.                                                          *)
(***************************************************************************)
EXTENDS ClaimRequest, HttpSurface, ServiceConfig, Logging, CommonProofs

-----------------------------------------------------------------------------
(***************************************************************************)
(* Keys.                                                                   *)
(***************************************************************************)

\* Trimming a text leaves a text.
LEMMA TrimmedText ==
  ASSUME NEW S, NEW text \in Seq(S)
  PROVE  Trim(text) \in Seq(S)
<1> DEFINE black == {i \in DOMAIN text : text[i] # Space}
<1>1. CASE black = {}
  BY <1>1 DEF Trim
<1>2. CASE black # {}
  <2>1. Len(text) \in Nat /\ DOMAIN text = 1..Len(text) /\ black \subseteq 1..Len(text)
    OBVIOUS
  <2>2. /\ \E x \in black : \A y \in black : x <= y
        /\ \E x \in black : \A y \in black : x >= y
    <3>1. black \in SUBSET Nat /\ black \in SUBSET (0..Len(text))
      BY <2>1
    <3> HIDE DEF black
    <3> QED BY <1>2, <2>1, <3>1, LeastElement, GreatestElement
  <2> DEFINE low == Min(black)
             high == Max(black)
  <2>3. low \in black /\ high \in black
    BY <2>2 DEF Min, Max
  <2>4. Trim(text) = SubSeq(text, low, high)
    BY <1>2 DEF Trim
  <2> HIDE DEF black, low, high
  <2> QED BY <2>1, <2>3, <2>4
<1> QED BY <1>1, <1>2

\* buildKey leaves a text of safe characters and admissible length as it is.
LEMMA SafeKeyKeeps ==
  ASSUME NEW S, NEW key \in Seq(S), Len(key) \in 1..MaxKey,
         \A n \in DOMAIN key : key[n] \in SafeChars
  PROVE  SafeKey(key) = key
<1>1. ASSUME NEW m \in Nat, NEW n \in Nat, m <= n PROVE Min({m, n}) = m
  <2>1. m \in {m, n} /\ \A y \in {m, n} : m <= y
    BY <1>1
  <2>2. \A x \in {m, n} : (\A y \in {m, n} : x <= y) => x = m
    BY <1>1
  <2> QED BY <2>1, <2>2 DEF Min
<1>2. Len(key) \in Nat /\ MaxKey \in Nat /\ Len(key) <= MaxKey
  BY RequestAssumption
<1>3. [i \in DOMAIN key |-> Safe(key[i])] = [i \in DOMAIN key |-> key[i]]
  BY DEF Safe
<1>4. SafeKey(key) = SubSeq(key, 1, Len(key))
  <2>1. [i \in DOMAIN key |-> key[i]] = key
    OBVIOUS
  <2> QED BY <1>1, <1>2, <1>3, <2>1 DEF SafeKey
<1> QED BY <1>4

\* A text of which buildKey makes one that is shorter than the cut and has no
\* underscore was that one already.
LEMMA SafeKeyReturns ==
  ASSUME NEW S, NEW raw \in Seq(S), NEW key \in Seq(SafeChars \ {Filler}),
         Len(key) < MaxKey, SafeKey(raw) = key
  PROVE  raw = key
<1> DEFINE safe == [i \in DOMAIN raw |-> Safe(raw[i])]
           cut  == Min({Len(raw), MaxKey})
           T    == {Safe(c) : c \in S}
<1>1. Len(raw) \in Nat /\ MaxKey \in Nat /\ Len(key) \in Nat
  BY RequestAssumption
<1>2. cut = (IF Len(raw) <= MaxKey THEN Len(raw) ELSE MaxKey)
  <2>1. ASSUME NEW m \in Nat, NEW n \in Nat
        PROVE  Min({m, n}) = (IF m <= n THEN m ELSE n)
    <3> DEFINE low == IF m <= n THEN m ELSE n
    <3>1. low \in {m, n} /\ \A y \in {m, n} : low <= y
      BY <2>1
    <3>2. \A x \in {m, n} : (\A y \in {m, n} : x <= y) => x = low
      BY <2>1
    <3> HIDE DEF low
    <3>3. Min({m, n}) = low
      BY <3>1, <3>2 DEF Min
    <3> QED BY <3>3 DEF low
  <2> QED BY <1>1, <2>1
<1>3. safe \in Seq(T) /\ Len(safe) = Len(raw)
  BY DEF T
<1>4. /\ Len(key) = cut
      /\ \A n \in 1..cut : key[n] = Safe(raw[n])
  <2>1. cut \in 0..Len(raw) /\ key = SubSeq(safe, 1, cut)
    <3>1. key = SubSeq(safe, 1, cut)
      BY DEF SafeKey
    <3> HIDE DEF cut, safe
    <3> QED BY <1>1, <1>2, <3>1
  <2>2. \A n \in 1..Len(raw) : safe[n] = Safe(raw[n])
    OBVIOUS
  <2> HIDE DEF safe, cut, T
  <2>3. Len(key) = cut /\ \A n \in 1..cut : key[n] = safe[n]
    BY <1>1, <1>3, <2>1
  <2> QED BY <1>1, <2>1, <2>2, <2>3
<1>5. Len(raw) = Len(key)
  BY <1>1, <1>2, <1>4
<1>6. ASSUME NEW n \in 1..Len(raw) PROVE raw[n] = key[n]
  <2>1. key[n] = Safe(raw[n])
    <3> HIDE DEF cut
    <3> QED BY <1>4, <1>5, <1>6
  <2>2. key[n] \in SafeChars \ {Filler}
    BY <1>1, <1>5, <1>6
  <2> QED BY <2>1, <2>2 DEF Safe
<1> QED BY <1>5, <1>6
-----------------------------------------------------------------------------
(***************************************************************************)
(* Records, claims and answers.                                            *)
(***************************************************************************)
Headers == {input.header : input \in Inputs}
Bodies  == {input.body : input \in Inputs}
Entries == [identity : Identities, header : Headers, body : Bodies, answer : Nat]
Rows    == {RowOf(identity, body) : identity \in Identities, body \in Bodies}

KeyOf(entry) == BuildKey(entry.identity, entry.header, entry.body)
\* A request with its key created the claim of that row.
CameOf(key, row) ==
  \E i \in Accepted : KeyOf(log[i]) = key /\ row = RowOf(log[i].identity, log[i].body)

LogIsLong == /\ log \in Seq(Entries) /\ claims \in Seq(Rows)
             /\ Len(claims) <= Len(log) /\ Len(log) <= MaxRequests
\* Every key has a claim of its own, which says what was sent with that key.
RecordsName == \A key \in DOMAIN record : record[key] \in 1..Len(claims)
RecordsDiffer ==
  \A key, other \in DOMAIN record : record[key] = record[other] => key = other
RecordsTell == \A key \in DOMAIN record : CameOf(key, claims[record[key]])
\* Every request that was not refused was answered with the claim of its key.
AnswersAreRecorded ==
  \A i \in Accepted :
    /\ Valid(log[i].body)
    /\ KeyOf(log[i]) \in DOMAIN record /\ log[i].answer = record[KeyOf(log[i])]
RecordInv ==
  LogIsLong /\ RecordsName /\ RecordsDiffer /\ RecordsTell /\ AnswersAreRecorded

\* A key begins with the user, and so does a row that came of it.
LEMMA KeyBegins ==
  ASSUME NEW key, NEW row, CameOf(key, row)
  PROVE  row.identityId = key[1]
<1>1. PICK i \in Accepted : KeyOf(log[i]) = key /\ row = RowOf(log[i].identity, log[i].body)
  BY DEF CameOf
<1>2. KeyOf(log[i])[1] = log[i].identity
  BY DEF KeyOf, BuildKey
<1> QED BY <1>1, <1>2 DEF RowOf

\* The log grows by one entry, whose answer is the record of its key.
LEMMA LogGrows ==
  ASSUME RecordInv, Len(log) < MaxRequests,
         NEW entry \in Entries, log' = Append(log, entry),
         \A key \in DOMAIN record : key \in DOMAIN record' /\ record'[key] = record[key],
         \/ entry.answer = Refused
         \/ /\ Valid(entry.body)
            /\ KeyOf(entry) \in DOMAIN record' /\ entry.answer = record'[KeyOf(entry)]
  PROVE  /\ log' \in Seq(Entries) /\ Len(log') = Len(log) + 1
         /\ Len(log) \in Nat /\ Len(log') <= MaxRequests
         /\ AnswersAreRecorded'
         /\ \A key, row : CameOf(key, row) => CameOf(key, row)'
         /\ log'[Len(log')] = entry /\ Len(log') \in DOMAIN log'
<1>1. log \in Seq(Entries) /\ MaxRequests \in Nat
  BY RequestAssumption DEF RecordInv, LogIsLong
<1>2. /\ log' \in Seq(Entries) /\ Len(log') = Len(log) + 1
      /\ Len(log) \in Nat /\ Len(log') <= MaxRequests
  BY <1>1
<1>3. \A i \in DOMAIN log' : \/ i \in DOMAIN log /\ log'[i] = log[i]
                            \/ log'[i] = entry
  BY <1>1
<1>4. ASSUME NEW i \in DOMAIN log', log'[i].answer # Refused
      PROVE  /\ Valid(log'[i].body)
             /\ KeyOf(log'[i]) \in DOMAIN record' /\ log'[i].answer = record'[KeyOf(log'[i])]
  <2>1. CASE log'[i] = entry
    BY <1>4, <2>1
  <2>2. CASE i \in DOMAIN log /\ log'[i] = log[i]
    BY <1>4, <2>2 DEF RecordInv, AnswersAreRecorded, Accepted
  <2> QED BY <1>3, <2>1, <2>2
<1>5. AnswersAreRecorded'
  BY <1>4 DEF AnswersAreRecorded, Accepted
<1>6. \A i \in Accepted : i \in Accepted' /\ log'[i] = log[i]
  BY <1>1 DEF Accepted
<1>7. ASSUME NEW key, NEW row, CameOf(key, row) PROVE CameOf(key, row)'
  BY <1>6, <1>7 DEF CameOf, KeyOf, BuildKey, RowOf
<1>8. log'[Len(log')] = entry /\ Len(log') \in DOMAIN log'
  BY <1>1
<1> QED BY <1>2, <1>5, <1>7, <1>8

\* What Log appends.
LEMMA AnswerAppends ==
  ASSUME NEW identity \in Identities, NEW input \in Inputs, NEW answer \in Nat,
         Log(identity, input.header, input.body, answer)
  PROVE  \E entry \in Entries :
           /\ log' = Append(log, entry) /\ entry.answer = answer
           /\ entry.identity = identity /\ entry.body = input.body
           /\ KeyOf(entry) = BuildKey(identity, input.header, input.body)
<1> DEFINE entry == [identity |-> identity, header |-> input.header,
                     body |-> input.body, answer |-> answer]
<1>1. entry \in Entries /\ KeyOf(entry) = BuildKey(identity, input.header, input.body)
  BY DEF Entries, Headers, Bodies, KeyOf
<1> QED BY <1>1 DEF Log

LEMMA RefuseKeeps ==
  ASSUME RecordInv, Len(log) < MaxRequests,
         NEW identity \in Identities, NEW input \in Inputs,
         Refuse(identity, input.header, input.body)
  PROVE  RecordInv'
<1>1. /\ Log(identity, input.header, input.body, Refused) /\ Refused \in Nat
      /\ UNCHANGED <<record, claims>>
  BY DEF Refuse, Refused
<1>2. PICK entry \in Entries : log' = Append(log, entry) /\ entry.answer = Refused
  BY <1>1, AnswerAppends
<1>3. LogIsLong' /\ AnswersAreRecorded' /\ RecordsTell'
  BY <1>1, <1>2, LogGrows DEF RecordInv, LogIsLong, RecordsTell
<1>4. (RecordsName /\ RecordsDiffer)'
  BY <1>1 DEF RecordInv, RecordsName, RecordsDiffer
<1> QED BY <1>3, <1>4 DEF RecordInv

LEMMA ReplayKeeps ==
  ASSUME RecordInv, Len(log) < MaxRequests,
         NEW identity \in Identities, NEW input \in Inputs,
         Replay(identity, input.header, input.body)
  PROVE  RecordInv'
<1> DEFINE key == BuildKey(identity, input.header, input.body)
           id  == record[key]
<1>1. key \in DOMAIN record /\ id \in 1..Len(claims) /\ UNCHANGED <<record, claims>>
  BY DEF Replay, RecordInv, RecordsName
<1>2. claims[id].identityId = identity
  <2>1. claims[id].identityId = key[1]
    BY <1>1, KeyBegins DEF RecordInv, RecordsTell
  <2> QED BY <2>1 DEF BuildKey
<1>3. Log(identity, input.header, input.body, id) /\ id \in Nat
  <2>1. Len(claims) \in Nat
    BY DEF RecordInv, LogIsLong
  <2> QED BY <1>1, <1>2, <2>1 DEF Replay
<1>4. PICK entry \in Entries :
        /\ log' = Append(log, entry) /\ entry.answer = id
        /\ entry.body = input.body /\ KeyOf(entry) = key
  BY <1>3, AnswerAppends
<1>5. LogIsLong' /\ AnswersAreRecorded' /\ RecordsTell'
  <2>1. Valid(entry.body)
    BY <1>4 DEF Replay
  <2> HIDE DEF key
  <2> QED BY <1>1, <1>4, <2>1, LogGrows DEF RecordInv, LogIsLong, RecordsTell
<1>6. (RecordsName /\ RecordsDiffer)'
  BY <1>1 DEF RecordInv, RecordsName, RecordsDiffer
<1> QED BY <1>5, <1>6 DEF RecordInv

LEMMA CreateKeeps ==
  ASSUME RecordInv, Len(log) < MaxRequests,
         NEW identity \in Identities, NEW input \in Inputs,
         CreateClaim(identity, input.header, input.body)
  PROVE  RecordInv'
<1> DEFINE key == BuildKey(identity, input.header, input.body)
           id  == Len(claims) + 1
           row == RowOf(identity, input.body)
<1>1. /\ key \notin DOMAIN record /\ Valid(input.body)
      /\ record' = [k \in DOMAIN record \cup {key} |-> IF k = key THEN id ELSE record[k]]
      /\ claims' = Append(claims, row)
      /\ Log(identity, input.header, input.body, id)
  BY DEF CreateClaim
<1>2. /\ DOMAIN record' = DOMAIN record \cup {key} /\ record'[key] = id
      /\ \A k \in DOMAIN record : record'[k] = record[k]
  <2> HIDE DEF key, id
  <2> QED BY <1>1
<1>3. row \in Rows /\ claims \in Seq(Rows)
  BY DEF Rows, Bodies, RecordInv, LogIsLong
<1>4. /\ claims' \in Seq(Rows) /\ Len(claims) \in Nat /\ Len(claims') = id
      /\ id \in Nat /\ claims'[id] = row
      /\ \A i \in 1..Len(claims) : claims'[i] = claims[i] /\ i # id
  <2> HIDE DEF row
  <2> QED BY <1>1, <1>3
<1>a. PICK entry \in Entries :
        /\ log' = Append(log, entry) /\ entry.answer = id /\ KeyOf(entry) = key
        /\ entry.identity = identity /\ entry.body = input.body
  BY <1>1, <1>4, AnswerAppends
<1>5. /\ LogIsLong' /\ AnswersAreRecorded'
      /\ \A k, r : CameOf(k, r) => CameOf(k, r)'
      /\ log'[Len(log')] = entry /\ Len(log') \in DOMAIN log'
  <2>2. Len(claims) <= Len(log) /\ Len(log) < MaxRequests
    BY DEF RecordInv, LogIsLong
  <2> HIDE DEF row, key
  <2>3. /\ log' \in Seq(Entries) /\ Len(log') = Len(log) + 1
        /\ Len(log) \in Nat /\ Len(log') <= MaxRequests
        /\ AnswersAreRecorded'
        /\ \A k, r : CameOf(k, r) => CameOf(k, r)'
        /\ log'[Len(log')] = entry /\ Len(log') \in DOMAIN log'
    BY <1>1, <1>2, <1>a, LogGrows
  <2> QED BY <1>4, <2>2, <2>3 DEF LogIsLong
<1>6. RecordsName'
  BY <1>2, <1>4 DEF RecordInv, RecordsName
<1>7. RecordsDiffer'
  BY <1>2, <1>4 DEF RecordInv, RecordsName, RecordsDiffer
<1>8. RecordsTell'
  <2>1. CameOf(key, row)'
    <3>1. log'[Len(log')].answer # Refused
      BY <1>4, <1>5, <1>a DEF Refused
    <3>2. Len(log') \in Accepted'
      BY <1>5, <3>1 DEF Accepted
    <3>3. /\ KeyOf(log'[Len(log')]) = key
          /\ row = RowOf(log'[Len(log')].identity, log'[Len(log')].body)
      BY <1>5, <1>a
    <3> QED BY <3>2, <3>3 DEF CameOf
  <2> HIDE DEF row, key
  <2>2. ASSUME NEW k \in DOMAIN record
        PROVE  claims'[record'[k]] = claims[record[k]]
    BY <1>2, <1>4 DEF RecordInv, RecordsName
  <2> QED BY <1>2, <1>4, <1>5, <2>1, <2>2 DEF RecordInv, RecordsTell
<1> QED BY <1>5, <1>6, <1>7, <1>8 DEF RecordInv

LEMMA RecordNext == RecordInv /\ [Next]_vars => RecordInv'
<1> SUFFICES ASSUME RecordInv, [Next]_vars PROVE RecordInv'
  OBVIOUS
<1>1. CASE Next
  BY <1>1, RefuseKeeps, ReplayKeeps, CreateKeeps DEF Next
<1>2. CASE UNCHANGED vars
  BY <1>2 DEF vars, RecordInv, LogIsLong, RecordsName, RecordsDiffer, RecordsTell,
              AnswersAreRecorded, Accepted, CameOf
<1> QED BY <1>1, <1>2

LEMMA RecordInit == Init => RecordInv
BY RequestAssumption DEF Init, RecordInv, LogIsLong, RecordsName, RecordsDiffer,
                         RecordsTell, AnswersAreRecorded, Accepted

\* What the invariant says of two requests: they have the same claim exactly if
\* they have the same key.
LEMMA AnswersFollowKeys ==
  ASSUME RecordInv, NEW i \in Accepted, NEW j \in Accepted
  PROVE  /\ log[i].answer = log[j].answer <=> KeyOf(log[i]) = KeyOf(log[j])
         /\ log[i].answer \in 1..Len(claims)
         /\ Trim(log[i].header) \in Seq(Range(log[i].header))
<1>1. \A n \in {i, j} : /\ KeyOf(log[n]) \in DOMAIN record
                        /\ log[n].answer = record[KeyOf(log[n])]
  BY DEF RecordInv, AnswersAreRecorded
<1>2. log[i] \in Entries
  BY DEF RecordInv, LogIsLong, Accepted
<1>3. log[i].header \in Seq(Range(log[i].header))
  BY <1>2, RequestAssumption DEF Entries, Headers
<1> QED BY <1>1, <1>3, TrimmedText DEF RecordInv, RecordsName, RecordsDiffer

\* A repetition of the header is a repetition of the key.
LEMMA SharedInv == RecordInv => RetriesShare
<1> SUFFICES ASSUME RecordInv, NEW i \in Accepted, NEW j \in Accepted
             PROVE  /\ log[i].answer # NotFound
                    /\ SameUser(i, j) /\ Named(i) /\ Trim(log[i].header) = Trim(log[j].header)
                         => log[i].answer = log[j].answer
  BY DEF RetriesShare
<1>1. log[i].answer # NotFound
  <2>1. /\ Len(claims) \in Nat /\ Len(log) \in Nat /\ MaxRequests \in Nat
        /\ Len(claims) <= Len(log) /\ Len(log) <= MaxRequests
    BY RequestAssumption DEF RecordInv, LogIsLong
  <2>2. log[i].answer \in 1..Len(claims)
    BY AnswersFollowKeys
  <2> QED BY <2>1, <2>2 DEF NotFound
<1>2. ASSUME SameUser(i, j), Named(i), Trim(log[i].header) = Trim(log[j].header)
      PROVE  KeyOf(log[i]) = KeyOf(log[j])
  BY <1>2 DEF SameUser, Named, KeyOf, BuildKey
<1> QED BY <1>1, <1>2, AnswersFollowKeys

\* The digest of an accepted request: the pipe has let its body through.
LEMMA DigestOfRequest ==
  ASSUME RecordInv, NEW i \in Accepted
  PROVE  LET print == Fingerprint(log[i].body)
         IN  /\ print \in Contents
             /\ Digest[print] \in Seq(SafeChars \ {Filler})
             /\ Len(Digest[print]) \in 1..(MaxKey - 1)
             /\ SafeKey(Digest[print]) = Digest[print]
<1> DEFINE print == Fingerprint(log[i].body)
<1>1. print \in Contents
  <2>1. log[i] \in Entries /\ Valid(log[i].body)
    BY DEF RecordInv, LogIsLong, AnswersAreRecorded, Accepted
  <2>2. PICK input \in Inputs : input.body = log[i].body
    BY <2>1 DEF Entries, Bodies
  <2> QED BY <2>1, <2>2 DEF Contents
<1> HIDE DEF print
<1>2. Digest[print] \in Seq(SafeChars \ {Filler}) /\ Len(Digest[print]) \in 1..(MaxKey - 1)
  BY <1>1, DigestAssumption
<1>3. SafeKey(Digest[print]) = Digest[print]
  BY <1>2, SafeKeyKeeps, RequestAssumption
<1> QED BY <1>1, <1>2, <1>3 DEF print

\* The key of a request with a well-formed header, or with none, is its text.
LEMMA TextIsKey ==
  ASSUME RecordInv, NEW i \in Accepted, WellNamed(i) \/ ~Named(i)
  PROVE  KeyOf(log[i]) = <<log[i].identity, KeyText(i)>>
<1> DEFINE text == Trim(log[i].header)
<1>1. CASE WellNamed(i)
  <2>1. text \in Seq(Range(log[i].header))
    BY AnswersFollowKeys
  <2>2. Len(text) \in 1..MaxKey /\ \A n \in DOMAIN text : text[n] \in SafeChars
    BY <1>1 DEF WellNamed
  <2>3. text # <<>> /\ SafeKey(text) = text
    <3> HIDE DEF text
    <3> QED BY <2>1, <2>2, SafeKeyKeeps
  <2> QED BY <2>3 DEF KeyOf, BuildKey, KeyText, Named
<1>2. CASE ~Named(i)
  BY <1>2, DigestOfRequest DEF KeyOf, BuildKey, KeyText, Named
<1> QED BY <1>1, <1>2

LEMMA ApartInv == RecordInv => KeysApart
<1> SUFFICES ASSUME RecordInv, NEW i \in Accepted, NEW j \in Accepted,
                    SameUser(i, j), WellNamed(i), WellNamed(j) \/ ~Named(j)
             PROVE  log[i].answer = log[j].answer <=> KeyText(i) = KeyText(j)
  BY DEF KeysApart
<1>1. /\ KeyOf(log[i]) = <<log[i].identity, KeyText(i)>>
      /\ KeyOf(log[j]) = <<log[j].identity, KeyText(j)>>
  BY TextIsKey
<1> QED BY <1>1, AnswersFollowKeys DEF SameUser

\* The claim of a request without a header says what it sent: the request that
\* created it had the same text, and so, unless that was a header, the same content.
LEMMA UnnamedIsTold ==
  ASSUME RecordInv, NEW i \in Unnamed
  PROVE  claims[log[i].answer] = RowOf(log[i].identity, log[i].body)
<1> DEFINE print == Fingerprint(log[i].body)
<1>1. i \in Accepted /\ ~Named(i) /\ KeyText(i) = Digest[print]
  BY DEF Unnamed, KeyText
<1>2. PICK k \in Accepted :
        /\ KeyOf(log[k]) = KeyOf(log[i])
        /\ claims[log[i].answer] = RowOf(log[k].identity, log[k].body)
  BY <1>1 DEF RecordInv, AnswersAreRecorded, RecordsTell, CameOf
<1>3. KeyOf(log[i]) = <<log[i].identity, Digest[print]>>
  BY <1>1, TextIsKey
<1>4. KeyOf(log[k]) = <<log[k].identity, SafeKey(KeyText(k))>>
  BY DEF KeyOf, BuildKey, KeyText, Named
<1>5. log[k].identity = log[i].identity /\ SafeKey(KeyText(k)) = Digest[print]
  BY <1>2, <1>3, <1>4
<1>6. ~Named(k)
  <2> SUFFICES ASSUME Named(k) PROVE FALSE
    OBVIOUS
  <2>1. KeyText(k) \in Seq(Range(log[k].header))
    BY AnswersFollowKeys DEF KeyText
  <2>2. /\ Digest[print] \in Seq(SafeChars \ {Filler}) /\ MaxKey \in Nat
        /\ Len(Digest[print]) < MaxKey
    BY <1>1, DigestOfRequest, RequestAssumption
  <2>3. KeyText(k) = Digest[print]
    BY <1>5, <2>1, <2>2, SafeKeyReturns
  <2> QED BY <1>1, <1>5, <2>3 DEF Unnamed, SameUser
<1>7. Fingerprint(log[k].body) = print
  <2>1. /\ SafeKey(KeyText(k)) = Digest[Fingerprint(log[k].body)]
        /\ Fingerprint(log[k].body) \in Contents
    BY <1>6, DigestOfRequest DEF KeyText
  <2>2. print \in Contents
    BY <1>1, DigestOfRequest
  <2> QED BY <1>5, <2>1, <2>2, DigestAssumption
<1> QED BY <1>2, <1>5, <1>7 DEF RowOf, Fingerprint

LEMMA ContentInv == RecordInv => ContentDecides
<1> SUFFICES ASSUME RecordInv, NEW i \in Unnamed
             PROVE  /\ claims[log[i].answer] = RowOf(log[i].identity, log[i].body)
                    /\ \A j \in Unnamed :
                         claims[log[i].answer] = claims[log[j].answer]
                           => log[i].answer = log[j].answer
  BY DEF ContentDecides
<1>1. ASSUME NEW j \in Unnamed, claims[log[i].answer] = claims[log[j].answer]
      PROVE  log[i].answer = log[j].answer
  <2>1. RowOf(log[i].identity, log[i].body) = RowOf(log[j].identity, log[j].body)
    BY <1>1, UnnamedIsTold
  <2>2. /\ log[i].identity = log[j].identity
        /\ Fingerprint(log[i].body) = Fingerprint(log[j].body)
    BY <2>1 DEF RowOf, Fingerprint
  <2>3. ~Named(i) /\ ~Named(j) /\ i \in Accepted /\ j \in Accepted
    BY DEF Unnamed
  <2>4. KeyOf(log[i]) = KeyOf(log[j])
    BY <2>2, <2>3 DEF KeyOf, BuildKey, Named
  <2> QED BY <2>3, <2>4, AnswersFollowKeys
<1> QED BY <1>1, UnnamedIsTold

\* Whatever the headers and bodies, and however many requests: a request that
\* repeats its header gets the claim it got before, and nobody is told that a
\* claim he is creating was not found.
THEOREM RetriesGetTheirClaim == Spec => []RetriesShare
BY RecordInit, RecordNext, SharedInv, PTL DEF Spec

\* Two keys that buildKey leaves as they are stand for one claim exactly if they
\* are equal, and such a key meets a request without a header exactly if it is
\* that request's digest.
THEOREM WellFormedKeysAreApart == Spec => []KeysApart
BY RecordInit, RecordNext, ApartInv, PTL DEF Spec

\* Without a header, a claim says what each of its requests sent, and requests
\* that sent the same share it, for every user who has not sent their digest as
\* a header.
THEOREM ContentMakesTheClaim == Spec => []ContentDecides
BY RecordInit, RecordNext, ContentInv, PTL DEF Spec
-----------------------------------------------------------------------------
(***************************************************************************)
(* The way to the handler.                                                 *)
(***************************************************************************)
\* What a handler may rely on when a read has an outcome.
LEMMA ReadSuffers ==
  ASSUME DisruptionsTypeOK, NEW o, Suffer(o)
  PROVE  /\ DisruptionsTypeOK'
         /\ o = "ok" => UNCHANGED disruptions
         /\ o # "ok" => Suffered(AllKinds)' > 0
         /\ Suffered(AllKinds) > 0 => Suffered(AllKinds)' > 0
<1>1. /\ Suffered(AllKinds) \in Nat
      /\ Suffered(AllKinds)' = Suffered(AllKinds) + (IF o \in AllKinds THEN 1 ELSE 0)
  BY SufferedIsNat, SufferCounts
<1>2. \/ o = "ok" /\ UNCHANGED disruptions
      \/ o # "ok" /\ o \in AllKinds
  BY DisruptionsAssumption DEF Suffer, AllKinds
<1>3. DisruptionsTypeOK'
  BY SufferType
<1> QED BY <1>1, <1>2, <1>3

\* A request that the guard has let in is for a claim route that serves it; it
\* is late only if its token had been revoked, which EXISTS will say; and the
\* handler has what the pipes accept.
GuardPassed ==
  /\ request.path.route \in Guarded
  /\ request.method \in Serves(request.path.route)
  /\ request.body \in {"valid", "invalid"}
  /\ Bearer[request.token] # NoIdentity
  /\ late => request.token \in revoked
Underway ==
  /\ status = 0 /\ ~entered
  /\ pc \in {"exists", "handler"} => GuardPassed
  /\ pc = "handler" => ~late /\ PipesAccept
Judged == OnlyForBearers /\ RefusedDoesNothing /\ StatusIsTrue
SurfaceInv ==
  /\ DisruptionsTypeOK /\ request \in Request
  /\ pc \in {"arriving", "exists", "handler", "answered"}
  /\ pc # "answered" => Underway
  /\ Judged

\* While nothing is answered there is nothing to judge.
LEMMA UnderwayIsJudged ==
  ASSUME status' = 0, ~entered'
  PROVE  Judged'
BY DEF Judged, OnlyForBearers, RefusedDoesNothing, StatusIsTrue,
       InternalErrorHasCause, NotAllowedIsTrue, NotFoundIsTrue

\* What the filter makes of the router's 404.
LEMMA UnservedIsTold ==
  ASSUME request \in Request,
         request.method \notin Serves(request.path.route),
         Throw(404), UNCHANGED request, ~entered'
  PROVE  Judged'
<1> DEFINE path == request.path
<1>1. /\ request.method \in Methods
      /\ path.route \in PlainRoutes \cup {"unknown", "claim"}
      /\ path.route # "claim" => path.id = "none"
  BY DEF Request, Path
<1>2. status' = ResolveStatus(404) /\ status' \in {404, 405}
  BY DEF Throw, Respond, ResolveStatus
<1>3. ASSUME status' = 405
      PROVE  path.route # "unknown" /\ Serves(path.route) # {}
  <2>1. request.method \notin Allowed(path)
    BY <1>2, <1>3 DEF ResolveStatus, IsKnownPathWithUnsupportedMethod
  <2>2. path.route # "unknown"
    BY <1>1, <2>1 DEF Allowed
  <2> QED BY <1>1, <2>2 DEF Serves, PlainRoutes
<1>4. ASSUME status' = 404, path.exact, path.id # "actuator"
      PROVE  path.route = "unknown"
  <2>1. request.method \in Allowed(path)
    BY <1>2, <1>4 DEF ResolveStatus, IsKnownPathWithUnsupportedMethod
  <2> SUFFICES ASSUME path.route # "unknown" PROVE FALSE
    OBVIOUS
  <2>2. Allowed(path) \subseteq Serves(path.route)
    BY <1>1, <1>4 DEF Allowed, Serves, PlainRoutes
  <2> QED BY <2>1, <2>2
<1> QED BY <1>2, <1>3, <1>4
        DEF Judged, OnlyForBearers, RefusedDoesNothing, StatusIsTrue,
            InternalErrorHasCause, NotAllowedIsTrue, NotFoundIsTrue

\* The answers that do not depend on the path.
LEMMA OthersAreTold ==
  ASSUME NEW code \in Nat, code \notin {404, 405}, Throw(code),
         code \in {200, 201} /\ request'.path.route \in Guarded
           => /\ Bearer[request'.token] # NoIdentity /\ ~late'
              /\ request'.path.route # "claim",
         entered' => /\ request'.body = "valid" /\ ~late'
                     /\ code \notin {400, 401},
         code = 500 => InternalErrorHasCause'
  PROVE  Judged'
<1>1. status' = code
  BY DEF Throw, Respond, ResolveStatus
<1> QED BY <1>1 DEF Judged, OnlyForBearers, RefusedDoesNothing, StatusIsTrue,
                    InternalErrorHasCause, NotAllowedIsTrue, NotFoundIsTrue

LEMMA ArriveKeeps ==
  ASSUME SurfaceInv, Arrive
  PROVE  SurfaceInv'
<1>1. /\ pc = "arriving" /\ status = 0 /\ ~entered /\ request \in Request
      /\ UNCHANGED <<rows, expired, revoked, request, entered, disruptions>>
      /\ late' = (request.token \in expired \cup revoked)
  BY DEF Arrive, worldVars, SurfaceInv, Underway
<1>2. (DisruptionsTypeOK /\ request \in Request)'
  BY <1>1 DEF SurfaceInv, DisruptionsTypeOK
<1>3. ASSUME NEW code \in {400, 401, 500}, Throw(code),
             code = 500 => InternalErrorHasCause'
      PROVE  Judged'
  BY <1>1, <1>3, OthersAreTold
<1>4. CASE request.body \in {"malformed", "tooLarge"}
  <2>1. ParserRefuses
    BY <1>4 DEF Arrive
  <2>2. Judged'
    BY <1>1, <1>3, <2>1 DEF ParserRefuses, InternalErrorHasCause
  <2>3. pc' = "answered"
    BY <2>1 DEF ParserRefuses, Throw, Respond
  <2> QED BY <1>2, <2>2, <2>3 DEF SurfaceInv
<1>5. CASE request.body \notin {"malformed", "tooLarge"}
  <2> DEFINE route == request.path.route
  <2>1. Routed
    BY <1>5 DEF Arrive
  <2>2. CASE request.method \notin Serves(route) /\ Throw(404)
    <3>1. Judged' /\ pc' = "answered"
      BY <1>1, <2>2, UnservedIsTold DEF Throw, Respond
    <3> QED BY <1>2, <3>1 DEF SurfaceInv
  <2>3. CASE route \notin Guarded /\ Respond(200)
    <3>1. pc' = "answered" /\ status' = 200
      BY <2>3 DEF Respond
    <3>2. Judged'
      BY <1>1, <2>3, <3>1
         DEF Judged, OnlyForBearers, RefusedDoesNothing, StatusIsTrue,
             InternalErrorHasCause, NotAllowedIsTrue, NotFoundIsTrue
    <3> QED BY <1>2, <3>1, <3>2 DEF SurfaceInv
  <2>4. CASE Throw(RefusedToken)
    <3>1. Judged'
      BY <1>1, <1>3, <2>4 DEF RefusedToken, InternalErrorHasCause
    <3>2. pc' = "answered"
      BY <2>4 DEF Throw, Respond
    <3> QED BY <1>2, <3>1, <3>2 DEF SurfaceInv
  <2>5. CASE /\ request.method \in Serves(route) /\ route \in Guarded
             /\ Genuine /\ pc' = "exists" /\ UNCHANGED status
    <3>1. Judged'
      BY <1>1, <2>5, UnderwayIsJudged
    <3>2. request.body \in {"valid", "invalid"}
      BY <1>1, <1>5 DEF Request
    <3>3. Underway'
      BY <1>1, <2>5, <3>2 DEF Underway, GuardPassed, Genuine
    <3> QED BY <1>2, <2>5, <3>1, <3>3 DEF SurfaceInv
  <2> QED BY <2>1, <2>2, <2>3, <2>4, <2>5 DEF Routed
<1> QED BY <1>4, <1>5

LEMMA ExistsKeeps ==
  ASSUME SurfaceInv, Exists
  PROVE  SurfaceInv'
<1>1. /\ status = 0 /\ ~entered /\ GuardPassed /\ request \in Request
      /\ UNCHANGED <<rows, expired, revoked, request, late, entered>>
  BY DEF Exists, worldVars, SurfaceInv, Underway
<1>2. PICK o \in RedisRead :
        /\ Suffer(o)
        /\ IF Passes(o)
           THEN \/ ~PipesAccept /\ Throw(400)
                \/ PipesAccept /\ pc' = "handler" /\ UNCHANGED status
           ELSE Throw(IF Throws(o) THEN 500 ELSE 401)
  BY DEF Exists
<1>3. /\ (DisruptionsTypeOK /\ request \in Request)'
      /\ o # "ok" => Suffered(AllKinds)' > 0
  BY <1>1, <1>2, ReadSuffers DEF SurfaceInv
<1>4. ASSUME NEW code \in {400, 401, 500}, Throw(code), code = 500 => o # "ok"
      PROVE  SurfaceInv'
  <2>1. Judged'
    BY <1>1, <1>3, <1>4, OthersAreTold DEF InternalErrorHasCause
  <2>2. pc' = "answered"
    BY <1>4 DEF Throw, Respond
  <2> QED BY <1>3, <2>1, <2>2 DEF SurfaceInv
<1>5. CASE Passes(o) /\ PipesAccept /\ pc' = "handler" /\ UNCHANGED status
  <2>1. Judged'
    BY <1>1, <1>5, UnderwayIsJudged
  <2>2. ~late'
    BY <1>1, <1>5 DEF Passes, GuardPassed
  <2>3. PipesAccept'
    BY <1>1, <1>5 DEF PipesAccept
  <2>4. Underway'
    BY <1>1, <1>5, <2>2, <2>3 DEF Underway, GuardPassed
  <2> QED BY <1>3, <1>5, <2>1, <2>4 DEF SurfaceInv
<1>6. CASE ~(Passes(o) /\ PipesAccept /\ pc' = "handler" /\ UNCHANGED status)
  <2>1. Throw(400) \/ Throw(401) \/ (Throw(500) /\ o # "ok")
    BY <1>2, <1>6 DEF Throws
  <2> QED BY <1>4, <2>1
<1> QED BY <1>5, <1>6

\* What getClaim makes of a claim that is not there, or not the user's.
LEMMA MissingIsTold ==
  ASSUME request \in Request, GuardPassed, request.path.route = "claim",
         PipesAccept, Throw(404), UNCHANGED request, ~entered'
  PROVE  Judged'
<1> DEFINE path == request.path
<1>1. request.method \in Serves("claim") /\ Serves("claim") = {"GET", "HEAD"}
  BY DEF GuardPassed, Serves
<1>2. status' = ResolveStatus(404) /\ status' \in {404, 405}
  BY DEF Throw, Respond, ResolveStatus
<1>3. status' = 405 => request.method = "HEAD"
  <2>1. Allowed(path) = {"GET"}
    BY DEF Allowed, PipesAccept
  <2> QED BY <1>1, <1>2, <2>1 DEF ResolveStatus, IsKnownPathWithUnsupportedMethod
<1> QED BY <1>1, <1>2, <1>3
        DEF Judged, OnlyForBearers, RefusedDoesNothing, StatusIsTrue,
            InternalErrorHasCause, NotAllowedIsTrue, NotFoundIsTrue

LEMMA ReadKeeps ==
  ASSUME SurfaceInv, Read
  PROVE  SurfaceInv'
<1>1. /\ status = 0 /\ ~entered /\ ~late /\ GuardPassed /\ PipesAccept
      /\ request \in Request
      /\ UNCHANGED <<rows, expired, revoked, request, late, entered>>
  BY DEF Read, worldVars, SurfaceInv, Underway
<1>2. PICK o \in DbRead :
        /\ Suffer(o)
        /\ \/ Throws(o) /\ Throw(500)
           \/ /\ ~Throws(o)
              /\ IF request.path.route = "claims" \/ OwnClaim(request.path.id)
                 THEN Respond(200) ELSE Throw(404)
  BY DEF Read
<1>3. /\ (DisruptionsTypeOK /\ request \in Request)'
      /\ o # "ok" => Suffered(AllKinds)' > 0
  BY <1>1, <1>2, ReadSuffers DEF SurfaceInv
<1>4. pc' = "answered"
  BY <1>2 DEF Throw, Respond
<1>5. Judged'
  <2>1. CASE Throws(o) /\ Throw(500)
    <3>1. o # "ok"
      BY <2>1 DEF Throws
    <3> QED BY <1>1, <1>3, <2>1, <3>1, OthersAreTold DEF InternalErrorHasCause
  <2>2. CASE /\ request.path.route = "claims" \/ OwnClaim(request.path.id)
             /\ Respond(200)
    BY <1>1, <2>2
       DEF Respond, OwnClaim, GuardPassed, Judged, OnlyForBearers,
           RefusedDoesNothing, StatusIsTrue, InternalErrorHasCause,
           NotAllowedIsTrue, NotFoundIsTrue
  <2>3. CASE request.path.route # "claims" /\ Throw(404)
    <3>1. request.path.route = "claim"
      BY <1>1, <2>3 DEF GuardPassed, Guarded
    <3> QED BY <1>1, <2>3, <3>1, MissingIsTold
  <2> QED BY <1>2, <2>1, <2>2, <2>3
<1> QED BY <1>3, <1>4, <1>5 DEF SurfaceInv

LEMMA CreateClaimKeeps ==
  ASSUME SurfaceInv, Create
  PROVE  SurfaceInv'
<1>1. /\ ~late /\ GuardPassed /\ PipesAccept /\ request \in Request
      /\ request.method = "POST"
      /\ UNCHANGED <<rows, expired, revoked, request, late>>
  BY DEF Create, worldVars, SurfaceInv, Underway
<1>2. request.body = "valid" /\ request.path.route # "claim"
  BY <1>1 DEF GuardPassed, PipesAccept, Serves
<1>3. PICK code \in {201, 429, 500, 502, 503} :
        /\ Throw(code)
        /\ code = 500 => \E o \in Kinds : Suffer(o)
        /\ UNCHANGED disruptions \/ \E o \in Kinds : Suffer(o)
  BY DEF Create
<1>4. "ok" \notin Kinds
  BY DisruptionsAssumption DEF AllKinds
<1>5. /\ (DisruptionsTypeOK /\ request \in Request)'
      /\ code = 500 => InternalErrorHasCause'
  BY <1>1, <1>3, <1>4, ReadSuffers
     DEF SurfaceInv, DisruptionsTypeOK, InternalErrorHasCause
<1>6. Judged'
  BY <1>1, <1>2, <1>3, <1>5, OthersAreTold DEF GuardPassed
<1>7. pc' = "answered"
  BY <1>3 DEF Throw, Respond
<1> QED BY <1>5, <1>6, <1>7 DEF SurfaceInv

LEMMA WorldKeeps ==
  ASSUME SurfaceInv, WorldMoves
  PROVE  SurfaceInv'
<1>1. /\ pc # "answered" /\ Underway /\ revoked \subseteq revoked'
      /\ UNCHANGED <<request, pc, status, late, entered, disruptions>>
  BY DEF WorldMoves, SurfaceInv
<1>2. Underway'
  BY <1>1 DEF Underway, GuardPassed, PipesAccept
<1>3. Judged'
  BY <1>1, UnderwayIsJudged DEF Underway
<1> QED BY <1>1, <1>2, <1>3 DEF SurfaceInv, DisruptionsTypeOK

LEMMA SurfaceNext == SurfaceInv /\ [HttpNext]_httpVars => SurfaceInv'
<1> SUFFICES ASSUME SurfaceInv, [HttpNext]_httpVars PROVE SurfaceInv'
  OBVIOUS
<1>1. CASE HttpNext
  BY <1>1, ArriveKeeps, ExistsKeeps, ReadKeeps, CreateClaimKeeps, WorldKeeps DEF HttpNext
<1>2. CASE UNCHANGED httpVars
  BY <1>2 DEF httpVars, worldVars, SurfaceInv, DisruptionsTypeOK, Underway,
              GuardPassed, PipesAccept, Judged, OnlyForBearers,
              RefusedDoesNothing, StatusIsTrue, InternalErrorHasCause,
              NotAllowedIsTrue, NotFoundIsTrue, Suffered
<1> QED BY <1>1, <1>2

LEMMA SurfaceInit == HttpInit => SurfaceInv
BY DEF HttpInit, NoDisruptions, SurfaceInv, DisruptionsTypeOK, Underway, Judged,
       OnlyForBearers, RefusedDoesNothing, StatusIsTrue,
       InternalErrorHasCause, NotAllowedIsTrue, NotFoundIsTrue

\* Whatever fails, and whenever the token ends: a claim route gives nothing but
\* to a genuine token that had not ended when the request came, and a claim to
\* its owner only.
THEOREM ClaimsAreForBearers == HttpSpec => []OnlyForBearers
BY SurfaceInit, SurfaceNext, PTL DEF HttpSpec, SurfaceInv, Judged

\* A request that is refused as malformed, unauthorized or misplaced has not
\* reached createClaim.
THEOREM RefusalsDoNothing == HttpSpec => []RefusedDoesNothing
BY SurfaceInit, SurfaceNext, PTL DEF HttpSpec, SurfaceInv, Judged

\* The statuses of the filter are true: 404 and 405 agree with the decorated
\* routes, and a 500 has a cause.
THEOREM TheFilterIsTrue == HttpSpec => []StatusIsTrue
BY SurfaceInit, SurfaceNext, PTL DEF HttpSpec, SurfaceInv, Judged
-----------------------------------------------------------------------------
(***************************************************************************)
(* The configuration.                                                      *)
(***************************************************************************)
\* There is a configuration exactly if there is one of each part.
LEMMA LoadedParts ==
  /\ env \in Env => (Loaded # {} <=> /\ \A n \in Ints : ParseInt(n) # {}
                                     /\ \A n \in RequiredStrings : ParseString(n) # {}
                                     /\ ParseOrigin # {})
  /\ Loaded # {} => {c.origin : c \in Loaded} = ParseOrigin
<1> DEFINE Values == UNION {ParseInt(n) : n \in Ints}
           Good == {f \in [Ints -> Values] :
                      \A n \in Ints : f[n] \in ParseInt(n)}
           Texts == {f \in [RequiredStrings -> 0..MaxText] :
                       \A n \in RequiredStrings : f[n] \in ParseString(n)}
<1>1. Loaded = {[int |-> int, text |-> text, origin |-> origin] :
                  int \in Good, text \in Texts, origin \in ParseOrigin}
  BY DEF Loaded
<1>2. Good # {} <=> \A n \in Ints : ParseInt(n) # {}
  <2>1. ASSUME \A n \in Ints : ParseInt(n) # {}
        PROVE  Good # {}
    <3> DEFINE f == [n \in Ints |-> CHOOSE v \in ParseInt(n) : TRUE]
    <3>1. ASSUME NEW n \in Ints PROVE f[n] \in ParseInt(n)
      BY <2>1
    <3>2. f \in Good
      BY <3>1
    <3> QED BY <3>2
  <2>2. ASSUME Good # {}, NEW n \in Ints PROVE ParseInt(n) # {}
    BY <2>2
  <2> QED BY <2>1, <2>2
<1>3. ASSUME env \in Env
      PROVE  Texts # {} <=> \A n \in RequiredStrings : ParseString(n) # {}
  <2>1. ASSUME \A n \in RequiredStrings : ParseString(n) # {}
        PROVE  Texts # {}
    <3> DEFINE f == [n \in RequiredStrings |-> env.text[n].length]
    <3>1. ASSUME NEW n \in RequiredStrings
          PROVE  f[n] \in ParseString(n) /\ f[n] \in 0..MaxText
      <4>1. env.text \in [RequiredStrings -> Setting]
        BY <1>3 DEF Env
      <4>2. env.text[n] \in Setting
        BY <4>1
      <4>3. env.text[n].length \in 0..MaxText
        BY <4>2 DEF Setting
      <4>4. ParseString(n) = {env.text[n].length}
        BY <2>1 DEF ParseString
      <4> QED BY <4>3, <4>4
    <3>2. f \in Texts
      BY <3>1
    <3> QED BY <3>2
  <2>2. ASSUME Texts # {}, NEW n \in RequiredStrings PROVE ParseString(n) # {}
    BY <2>2
  <2> QED BY <2>1, <2>2
<1> HIDE DEF Good, Texts
<1>4. ASSUME NEW int \in Good, NEW text \in Texts, NEW origin \in ParseOrigin
      PROVE  \E c \in Loaded : c.origin = origin
  <2>1. [int |-> int, text |-> text, origin |-> origin] \in Loaded
    BY <1>1
  <2> QED BY <2>1
<1>5. ASSUME NEW c \in Loaded
      PROVE  Good # {} /\ Texts # {} /\ c.origin \in ParseOrigin
  BY <1>1
<1>6. Loaded # {} <=> Good # {} /\ Texts # {} /\ ParseOrigin # {}
  BY <1>4, <1>5
<1>7. Loaded # {} => {c.origin : c \in Loaded} = ParseOrigin
  BY <1>4, <1>5
<1> QED BY <1>2, <1>3, <1>6, <1>7

\* What an operator would call an environment that is in order.
InOrder ==
  /\ \A n \in Ints :
       \/ env.int[n] \in Unset /\ n \in OptionalInts
       \/ env.int[n] \in {raw \in DOMAIN IntegerOf : IntegerOf[raw] > 0}
  /\ \A n \in RequiredStrings : env.text[n].length >= Minimum[n]
  /\ env.origin.kind \notin {Wildcard, "garbage"}
  /\ env.origin.kind = "url" => /\ env.origin.url.origin.scheme # "ftp"
                                /\ ~env.origin.url.more
\* The page for which it is configured.
Configured == IF env.origin.kind = "url" THEN env.origin.url.origin ELSE DefaultOrigin

\* What parseOrigin makes of an environment.
LEMMA OriginIsParsed ==
  ASSUME env \in Env
  PROVE  /\ ParseOrigin # {} <=>
              /\ env.origin.kind \notin {Wildcard, "garbage"}
              /\ env.origin.kind = "url" => /\ env.origin.url.origin.scheme # "ftp"
                                            /\ ~env.origin.url.more
         /\ \A o \in ParseOrigin :
              o = [scheme |-> Configured.scheme, site |-> Configured.site, plain |-> TRUE]
<1> DEFINE url == env.origin.url
<1>1. Wildcard \notin {"absent", "blank", "url"}
  BY DEF Wildcard
<1>2. /\ env.origin.kind \in {"absent", "blank", Wildcard, "garbage", "url"}
      /\ env.origin.kind = "url" => url \in URL
  <2>1. env.origin \in OriginText
    BY DEF Env
  <2> QED BY <1>1, <2>1 DEF OriginText
<1>3. CASE env.origin.kind \in {"absent", "blank"}
  <2>1. ParseOrigin = {DefaultOrigin}
    BY <1>3 DEF ParseOrigin
  <2>2. DefaultOrigin = [scheme |-> DefaultOrigin.scheme, site |-> DefaultOrigin.site,
                         plain |-> TRUE]
    BY ConfigAssumption DEF PageOrigin
  <2> QED BY <1>1, <1>3, <2>1, <2>2 DEF Configured
<1>4. CASE env.origin.kind = "url"
  <2>1. ParseOrigin = {OriginOf(u) : u \in {v \in {url} :
                         v.origin.scheme \in {"http", "https"} /\ ~v.more}}
    BY <1>4 DEF ParseOrigin
  <2>2. url.origin \in Origin /\ url.more \in BOOLEAN
    BY <1>2, <1>4 DEF URL
  <2>3. url.origin.scheme \in {"http", "https"} <=> url.origin.scheme # "ftp"
    BY <2>2 DEF Origin
  <2>4. OriginOf(url) = [scheme |-> url.origin.scheme, site |-> url.origin.site,
                         plain |-> TRUE]
    BY DEF OriginOf
  <2> HIDE DEF url
  <2>5. /\ ParseOrigin # {} <=> url.origin.scheme # "ftp" /\ ~url.more
        /\ \A o \in ParseOrigin : o = OriginOf(url)
    BY <2>1, <2>3
  <2> QED BY <1>1, <1>4, <2>4, <2>5 DEF Configured, url
<1>5. CASE env.origin.kind \in {Wildcard, "garbage"}
  <2>1. env.origin.kind \notin {"absent", "blank"} /\ env.origin.kind # "url"
    BY <1>1, <1>5
  <2>2. ParseOrigin = {}
    BY <2>1, Zenon DEF ParseOrigin
  <2> QED BY <1>5, <2>2
<1> QED BY <1>2, <1>3, <1>4, <1>5

\* The configuration is loaded exactly from an environment that is in order.
LEMMA LoadedInOrder ==
  ASSUME env \in Env
  PROVE  Loaded # {} <=> InOrder
<1>1. ASSUME NEW n \in Ints
      PROVE  ParseInt(n) # {} <=>
               \/ env.int[n] \in Unset /\ n \in OptionalInts
               \/ env.int[n] \in {raw \in DOMAIN IntegerOf : IntegerOf[raw] > 0}
  <2> DEFINE raw == env.int[n]
  <2>1. raw \in DOMAIN IntegerOf => IntegerOf[raw] \in Int
    BY ConfigAssumption
  <2>2. raw \in Unset /\ raw \in DOMAIN IntegerOf => IntegerOf[raw] = 0
    BY ConfigAssumption
  <2>3. Positive(raw) # {} <=> raw \in DOMAIN IntegerOf /\ IntegerOf[raw] > 0
    BY <2>1 DEF Positive
  <2>4. /\ raw \notin Unset => ParseInt(n) = Positive(raw)
        /\ raw \in Unset /\ n \in OptionalInts => ParseInt(n) = {Fallback[n]}
        /\ raw \in Unset /\ n \notin OptionalInts => ParseInt(n) = {}
    BY DEF ParseInt
  <2> HIDE DEF raw
  <2>5. ParseInt(n) # {} <=>
          \/ raw \in Unset /\ n \in OptionalInts
          \/ raw \in DOMAIN IntegerOf /\ IntegerOf[raw] > 0
    BY <2>2, <2>3, <2>4
  <2> QED BY <2>5 DEF raw
<1>2. ASSUME NEW n \in RequiredStrings
      PROVE  ParseString(n) # {} <=> env.text[n].length >= Minimum[n]
  <2>1. env.text[n].length \in Nat /\ Minimum[n] \in Nat \ {0}
    <3>1. env.text \in [RequiredStrings -> Setting]
      BY DEF Env
    <3>2. env.text[n] \in Setting
      BY <3>1
    <3>3. env.text[n].length \in 0..MaxText
      BY <3>2 DEF Setting
    <3> QED BY <3>3, ConfigAssumption DEF RequiredStrings
  <2> QED BY <2>1 DEF ParseString, LongEnough
<1>3. ParseOrigin # {} <=> /\ env.origin.kind \notin {Wildcard, "garbage"}
                           /\ env.origin.kind = "url" =>
                                /\ env.origin.url.origin.scheme # "ftp"
                                /\ ~env.origin.url.more
  BY OriginIsParsed
<1>4. Loaded # {} <=> /\ \A n \in Ints : ParseInt(n) # {}
                      /\ \A n \in RequiredStrings : ParseString(n) # {}
                      /\ ParseOrigin # {}
  BY LoadedParts
<1> QED BY <1>1, <1>2, <1>3, <1>4 DEF InOrder

\* A process has one configuration, or none and has failed; the second reading
\* finds what the first has found.
ConfigInv ==
  /\ env \in Env
  /\ phase \in {"importing", "starting", "serving", "failed"}
  /\ phase = "importing" => config = {}
  /\ phase = "failed" => Loaded = {} /\ config = {}
  /\ phase \in {"starting", "serving"} => /\ Loaded # {}
                                          /\ config \in {{}, Loaded}
                                          /\ corsOrigin = ParseOrigin
  /\ verdict # "none" =>
       /\ phase = "serving" /\ lastOrigin \in PageOrigin \cup {NoOrigin}
       /\ verdict = IF \E c \in Loaded : lastOrigin = c.origin
                    THEN "admitted" ELSE "refused"

\* A configured origin is that of a page.
LEMMA ConfiguredIsAPage ==
  ASSUME env \in Env
  PROVE  \A o \in ParseOrigin : o # NoOrigin
BY OriginIsParsed DEF NoOrigin

\* The environment does not change, and what it comes to neither.
LEMMA SameEnvironment ==
  ASSUME UNCHANGED env
  PROVE  UNCHANGED <<Loaded, ParseOrigin>>
BY DEF Loaded, ParseInt, ParseString, ParseOrigin

LEMMA ConfigStep ==
  ASSUME ConfigInv, [ConfigNext]_configVars
  PROVE  ConfigInv'
<1>1. /\ env \in Env
      /\ Got = Loaded
      /\ Loaded # {} => {c.origin : c \in Loaded} = ParseOrigin
  BY LoadedParts DEF ConfigInv, Got
<1>2. UNCHANGED env
  BY DEF ConfigNext, Import, Bootstrap, Reset, Handshake, configVars
<1>3. UNCHANGED <<Loaded, ParseOrigin>>
  BY <1>2, SameEnvironment
<1>4. CASE Import
  <2>1. verdict = "none" /\ UNCHANGED verdict
    BY <1>4 DEF Import, ConfigInv
  <2> QED BY <1>1, <1>2, <1>3, <1>4, <2>1 DEF Import, ConfigInv
<1>5. CASE Bootstrap
  <2>1. verdict = "none" /\ UNCHANGED verdict
    BY <1>5 DEF Bootstrap, ConfigInv
  <2>2. Loaded # {}
    BY <1>5 DEF Bootstrap, ConfigInv
  <2> QED BY <1>1, <1>2, <1>3, <1>5, <2>1, <2>2 DEF Bootstrap, ConfigInv
<1>6. CASE Reset
  BY <1>2, <1>3, <1>6 DEF Reset, ConfigInv
<1>7. ASSUME NEW origin \in PageOrigin \cup {NoOrigin}, Handshake(origin)
      PROVE  ConfigInv'
  <2>1. \A c \in Loaded : c.origin # NoOrigin
    BY <1>1, ConfiguredIsAPage
  <2>2. verdict' = IF \E c \in Loaded : origin = c.origin
                   THEN "admitted" ELSE "refused"
    BY <1>1, <1>7, <2>1 DEF Handshake
  <2>3. /\ phase = "serving" /\ UNCHANGED <<phase, corsOrigin>>
        /\ lastOrigin' = origin /\ config' = Loaded
    BY <1>1, <1>7 DEF Handshake
  <2> QED BY <1>2, <1>3, <1>7, <2>2, <2>3 DEF ConfigInv
<1>8. CASE UNCHANGED configVars
  BY <1>3, <1>8 DEF configVars, ConfigInv
<1> QED BY <1>4, <1>5, <1>6, <1>7, <1>8 DEF ConfigNext

LEMMA ConfigBegins == ConfigInit => ConfigInv
BY DEF ConfigInit, ConfigInv

LEMMA ConfiguredScheme ==
  ASSUME env \in Env
  PROVE  Configured.scheme \in {"http", "https", "ftp"}
<1>1. CASE env.origin.kind = "url"
  <2>1. env.origin \in OriginText
    BY DEF Env
  <2>2. env.origin.url \in URL
    BY <1>1, <2>1 DEF OriginText, Wildcard
  <2> QED BY <1>1, <2>2 DEF Configured, URL, Origin
<1>2. CASE env.origin.kind # "url"
  BY <1>2, ConfigAssumption DEF Configured, PageOrigin
<1> QED BY <1>1, <1>2

\* The judgement on the last handshake.
LEMMA PagesInv ==
  ASSUME ConfigInv
  PROVE  ConfiguredPagesOnly
<1> SUFFICES ASSUME verdict # "none"
             PROVE  /\ verdict = "admitted" <=> /\ lastOrigin.scheme = Configured.scheme
                                                /\ lastOrigin.site = Configured.site
                    /\ verdict = "admitted" <=> lastOrigin \in corsOrigin
  BY DEF ConfiguredPagesOnly, Configured
<1>1. /\ Loaded # {} /\ corsOrigin = ParseOrigin /\ env \in Env
      /\ lastOrigin \in PageOrigin \cup {NoOrigin}
      /\ verdict = "admitted" <=> \E c \in Loaded : lastOrigin = c.origin
  BY DEF ConfigInv
<1>2. verdict = "admitted" <=> lastOrigin \in corsOrigin
  BY <1>1, LoadedParts
<1>3. /\ ParseOrigin # {}
      /\ \A o \in ParseOrigin :
           o = [scheme |-> Configured.scheme, site |-> Configured.site, plain |-> TRUE]
  BY <1>1, LoadedParts, OriginIsParsed
<1>4. CASE lastOrigin \in PageOrigin
  <2>1. lastOrigin = [scheme |-> lastOrigin.scheme, site |-> lastOrigin.site, plain |-> TRUE]
    BY <1>4 DEF PageOrigin
  <2>2. PICK o \in corsOrigin : \A p \in corsOrigin : p = o
    BY <1>1, <1>3
  <2>3. o = [scheme |-> Configured.scheme, site |-> Configured.site, plain |-> TRUE]
    BY <1>1, <1>3
  <2>4. lastOrigin \in corsOrigin <=> lastOrigin = o
    BY <2>2
  <2>5. lastOrigin = o <=> /\ lastOrigin.scheme = Configured.scheme
                          /\ lastOrigin.site = Configured.site
    BY <2>1, <2>3
  <2> QED BY <1>2, <2>4, <2>5
<1>5. CASE lastOrigin = NoOrigin
  <2>1. lastOrigin \notin corsOrigin
    BY <1>1, <1>5, ConfiguredIsAPage
  <2>2. lastOrigin.scheme = "none"
    BY <1>5 DEF NoOrigin
  <2>3. Configured.scheme # "none"
    BY <1>1, ConfiguredScheme
  <2> QED BY <1>2, <2>1, <2>2, <2>3
<1> QED BY <1>1, <1>2, <1>4, <1>5

LEMMA OrderInv ==
  ASSUME ConfigInv
  PROVE  ServesIfInOrder
BY LoadedInOrder DEF ConfigInv, ServesIfInOrder, InOrder

\* However its URL is written, the configured page is let in and no other, and
\* by the CORS headers too.
THEOREM OnlyTheConfiguredPage == ConfigSpec => []ConfiguredPagesOnly
<1>1. ConfigInv /\ [ConfigNext]_configVars => ConfigInv'
  BY ConfigStep
<1>2. ConfigInv => ConfiguredPagesOnly
  BY PagesInv
<1> QED BY <1>1, <1>2, ConfigBegins, PTL DEF ConfigSpec

\* A process serves exactly if its environment is in order, and otherwise fails
\* at the first reading.
THEOREM OrderDecides == ConfigSpec => []ServesIfInOrder
<1>1. ConfigInv /\ [ConfigNext]_configVars => ConfigInv'
  BY ConfigStep
<1>2. ConfigInv => ServesIfInOrder
  BY OrderInv
<1> QED BY <1>1, <1>2, ConfigBegins, PTL DEF ConfigSpec

-----------------------------------------------------------------------------
(***************************************************************************)
(* Lines: what sanitizing makes of a tree.                                 *)
(***************************************************************************)
\* A step asks for the parts of a tree only.
LEMMA SanitizeLocal ==
  ASSUME NEW f, NEW g, NEW t, \A p \in Parts(t) : f[p] = g[p]
  PROVE  SanitizeOf(f, t) = SanitizeOf(g, t)
<1>1. CASE t.kind = "array"
  <2>1. \A i \in DOMAIN t.items : f[t.items[i]] = g[t.items[i]]
    BY <1>1 DEF Parts, Range
  <2> QED BY <1>1, <2>1 DEF SanitizeOf
<1>2. CASE t.kind = "object"
  <2>1. \A k \in DOMAIN t.fields : f[t.fields[k]] = g[t.fields[k]]
    BY <1>2 DEF Parts, Range
  <2> QED BY <1>2, <2>1 DEF SanitizeOf
<1>3. CASE t.kind \notin {"array", "object"}
  BY <1>3 DEF SanitizeOf
<1> QED BY <1>1, <1>2, <1>3

LEMMA LeavesLocal ==
  ASSUME NEW f, NEW g, NEW t, \A p \in Parts(t) : f[p] = g[p]
  PROVE  LeavesOf(f, t) = LeavesOf(g, t)
<1>1. CASE t.kind = "array"
  <2>1. \A i \in DOMAIN t.items : f[t.items[i]] = g[t.items[i]]
    BY <1>1 DEF Parts, Range
  <2>2. \A i \in DOMAIN t.items : Under(ToString(i), f[t.items[i]]) = Under(ToString(i), g[t.items[i]])
    BY <2>1
  <2> QED BY <1>1, <2>2 DEF LeavesOf
<1>2. CASE t.kind = "object"
  <2>1. \A k \in DOMAIN t.fields : f[t.fields[k]] = g[t.fields[k]]
    BY <1>2 DEF Parts, Range
  <2>2. \A k \in DOMAIN t.fields : Under(k, f[t.fields[k]]) = Under(k, g[t.fields[k]])
    BY <2>1
  <2> QED BY <1>2, <2>2 DEF LeavesOf
<1>3. CASE t.kind \notin {"array", "object"}
  BY <1>3 DEF LeavesOf
<1> QED BY <1>1, <1>2, <1>3

\* Sanitize is the function that its recursion describes: what is less deep
\* than n is defined without what is not, and the definitions agree.
LEMMA SanitizeUnfolds ==
  \A t \in Trees : Sanitize[t] = SanitizeOf(Sanitize, t)
<1> DEFINE Below(n) == {t \in Trees : Depth[t] < n}
           Defines(f, n) == f = [t \in Below(n) |-> SanitizeOf(f, t)]
<1>1. /\ \A t \in Trees : Depth[t] \in Nat
      /\ \A t \in Trees : \A p \in Parts(t) : p \in Trees /\ Depth[p] < Depth[t]
  BY LoggingAssumption
<1>2. ASSUME NEW n \in Nat, NEW f, Defines(f, n)
      PROVE  \A t \in Below(n) : f[t] = SanitizeOf(f, t)
  <2>1. [t \in Below(n) |-> SanitizeOf(f, t)] = f
    BY <1>2
  <2> QED BY <2>1
<1>3. ASSUME NEW n \in Nat, NEW m \in Nat, NEW f, NEW g, Defines(f, n), Defines(g, m)
      PROVE  \A t \in Trees : Depth[t] < n /\ Depth[t] < m => f[t] = g[t]
  <2> DEFINE Differ == {t \in Trees : Depth[t] < n /\ Depth[t] < m /\ f[t] # g[t]}
             Depths == {Depth[t] : t \in Differ}
  <2> SUFFICES ASSUME Differ # {} PROVE FALSE
    OBVIOUS
  <2>1. Depths \in SUBSET Nat /\ Depths # {}
    BY <1>1
  <2>2. PICK t \in Differ : \A s \in Differ : Depth[t] <= Depth[s]
    <3> HIDE DEF Differ
    <3>1. PICK d \in Depths : \A e \in Depths : d <= e
      BY <2>1, LeastElement
    <3> QED BY <3>1
  <2>3. \A p \in Parts(t) : f[p] = g[p]
    <3> SUFFICES ASSUME NEW p \in Parts(t) PROVE f[p] = g[p]
      OBVIOUS
    <3>1. p \in Trees /\ Depth[p] < Depth[t] /\ Depth[p] \in Nat /\ Depth[t] \in Nat
      BY <1>1
    <3>2. p \notin Differ
      BY <2>2, <3>1
    <3> QED BY <3>1, <3>2
  <2>4. SanitizeOf(f, t) = SanitizeOf(g, t)
    BY <2>3, SanitizeLocal
  <2>5. f[t] = SanitizeOf(f, t) /\ g[t] = SanitizeOf(g, t)
    BY <1>2, <1>3
  <2> QED BY <2>4, <2>5
<1>4. \A n \in Nat : \E f : Defines(f, n)
  <2> DEFINE Missing == {n \in Nat : ~\E f : Defines(f, n)}
  <2> SUFFICES ASSUME Missing # {} PROVE FALSE
    OBVIOUS
  <2>1. PICK n \in Missing : \A m \in Missing : n <= m
    BY LeastElement
  <2>2. n # 0
    <3> DEFINE f == [t \in Below(0) |-> {}]
    <3>1. Below(0) = {}
      BY <1>1
    <3>2. Defines(f, 0)
      BY <3>1
    <3> QED BY <3>2
  <2>3. n - 1 \in Nat /\ n - 1 \notin Missing
    <3>1. n \in Nat
      BY <2>1
    <3> HIDE DEF Missing
    <3> QED BY <2>1, <2>2, <3>1
  <2>4. PICK f : Defines(f, n - 1)
    BY <2>3
  <2> DEFINE g == [t \in Below(n) |-> SanitizeOf(f, t)]
  <2>5. ASSUME NEW t \in Below(n) PROVE g[t] = SanitizeOf(g, t)
    <3>1. \A p \in Parts(t) : p \in Below(n - 1) /\ p \in Below(n)
      BY <1>1
    <3>2. \A p \in Parts(t) : f[p] = g[p]
      BY <1>2, <2>3, <2>4, <3>1
    <3>3. SanitizeOf(f, t) = SanitizeOf(g, t)
      <4> HIDE DEF g
      <4> QED BY <3>2, SanitizeLocal
    <3> QED BY <3>3
  <2>6. Defines(g, n)
    <3>1. g = [t \in Below(n) |-> g[t]]
      OBVIOUS
    <3> HIDE DEF g
    <3> QED BY <2>5, <3>1
  <2> QED BY <2>6
<1> DEFINE F(n) == CHOOSE f : Defines(f, n)
           H == [t \in Trees |-> F(Depth[t] + 1)[t]]
<1>5. \A n \in Nat : Defines(F(n), n)
  BY <1>4
<1> HIDE DEF F, Defines
<1>6. ASSUME NEW t \in Trees PROVE H[t] = SanitizeOf(H, t)
  <2> DEFINE n == Depth[t] + 1
  <2>1. n \in Nat /\ Defines(F(n), n) /\ t \in Below(n)
    BY <1>1, <1>5
  <2>2. ASSUME NEW p \in Parts(t) PROVE F(n)[p] = H[p]
    <3>1. p \in Trees /\ Depth[p] \in Nat /\ Depth[p] < Depth[p] + 1 /\ Depth[p] < n
      BY <1>1
    <3>2. Defines(F(Depth[p] + 1), Depth[p] + 1)
      BY <1>5, <3>1
    <3> QED BY <1>3, <2>1, <3>1, <3>2
  <2>3. SanitizeOf(F(n), t) = SanitizeOf(H, t)
    <3> HIDE DEF H, n
    <3> QED BY <2>2, SanitizeLocal
  <2>4. F(n)[t] = SanitizeOf(F(n), t)
    BY <1>2, <2>1
  <2> QED BY <2>3, <2>4
<1>7. H = [t \in Trees |-> SanitizeOf(H, t)]
  <2>1. H = [t \in Trees |-> H[t]]
    OBVIOUS
  <2> HIDE DEF H
  <2> QED BY <1>6, <2>1
<1>8. Sanitize = CHOOSE f : f = [t \in Trees |-> SanitizeOf(f, t)]
  BY Zenon DEF Sanitize
<1>9. Sanitize = [t \in Trees |-> SanitizeOf(Sanitize, t)]
  <2> HIDE DEF H
  <2> QED BY <1>7, <1>8
<1>10. ASSUME NEW t \in Trees PROVE [s \in Trees |-> SanitizeOf(Sanitize, s)][t] = SanitizeOf(Sanitize, t)
  OBVIOUS
<1> QED BY <1>9, <1>10
\* So is Leaves.
LEMMA LeavesUnfolds ==
  \A t \in Trees : Leaves[t] = LeavesOf(Leaves, t)
<1> DEFINE Below(n) == {t \in Trees : Depth[t] < n}
           Defines(f, n) == f = [t \in Below(n) |-> LeavesOf(f, t)]
<1>1. /\ \A t \in Trees : Depth[t] \in Nat
      /\ \A t \in Trees : \A p \in Parts(t) : p \in Trees /\ Depth[p] < Depth[t]
  BY LoggingAssumption
<1>2. ASSUME NEW n \in Nat, NEW f, Defines(f, n)
      PROVE  \A t \in Below(n) : f[t] = LeavesOf(f, t)
  <2>1. [t \in Below(n) |-> LeavesOf(f, t)] = f
    BY <1>2
  <2> QED BY <2>1
<1>3. ASSUME NEW n \in Nat, NEW m \in Nat, NEW f, NEW g, Defines(f, n), Defines(g, m)
      PROVE  \A t \in Trees : Depth[t] < n /\ Depth[t] < m => f[t] = g[t]
  <2> DEFINE Differ == {t \in Trees : Depth[t] < n /\ Depth[t] < m /\ f[t] # g[t]}
             Depths == {Depth[t] : t \in Differ}
  <2> SUFFICES ASSUME Differ # {} PROVE FALSE
    OBVIOUS
  <2>1. Depths \in SUBSET Nat /\ Depths # {}
    BY <1>1
  <2>2. PICK t \in Differ : \A s \in Differ : Depth[t] <= Depth[s]
    <3> HIDE DEF Differ
    <3>1. PICK d \in Depths : \A e \in Depths : d <= e
      BY <2>1, LeastElement
    <3> QED BY <3>1
  <2>3. \A p \in Parts(t) : f[p] = g[p]
    <3> SUFFICES ASSUME NEW p \in Parts(t) PROVE f[p] = g[p]
      OBVIOUS
    <3>1. p \in Trees /\ Depth[p] < Depth[t] /\ Depth[p] \in Nat /\ Depth[t] \in Nat
      BY <1>1
    <3>2. p \notin Differ
      BY <2>2, <3>1
    <3> QED BY <3>1, <3>2
  <2>4. LeavesOf(f, t) = LeavesOf(g, t)
    BY <2>3, LeavesLocal
  <2>5. f[t] = LeavesOf(f, t) /\ g[t] = LeavesOf(g, t)
    BY <1>2, <1>3
  <2> QED BY <2>4, <2>5
<1>4. \A n \in Nat : \E f : Defines(f, n)
  <2> DEFINE Missing == {n \in Nat : ~\E f : Defines(f, n)}
  <2> SUFFICES ASSUME Missing # {} PROVE FALSE
    OBVIOUS
  <2>1. PICK n \in Missing : \A m \in Missing : n <= m
    BY LeastElement
  <2>2. n # 0
    <3> DEFINE f == [t \in Below(0) |-> {}]
    <3>1. Below(0) = {}
      BY <1>1
    <3>2. Defines(f, 0)
      BY <3>1
    <3> QED BY <3>2
  <2>3. n - 1 \in Nat /\ n - 1 \notin Missing
    <3>1. n \in Nat
      BY <2>1
    <3> HIDE DEF Missing
    <3> QED BY <2>1, <2>2, <3>1
  <2>4. PICK f : Defines(f, n - 1)
    BY <2>3
  <2> DEFINE g == [t \in Below(n) |-> LeavesOf(f, t)]
  <2>5. ASSUME NEW t \in Below(n) PROVE g[t] = LeavesOf(g, t)
    <3>1. \A p \in Parts(t) : p \in Below(n - 1) /\ p \in Below(n)
      BY <1>1
    <3>2. \A p \in Parts(t) : f[p] = g[p]
      BY <1>2, <2>3, <2>4, <3>1
    <3>3. LeavesOf(f, t) = LeavesOf(g, t)
      <4> HIDE DEF g
      <4> QED BY <3>2, LeavesLocal
    <3> QED BY <3>3
  <2>6. Defines(g, n)
    <3>1. g = [t \in Below(n) |-> g[t]]
      OBVIOUS
    <3> HIDE DEF g
    <3> QED BY <2>5, <3>1
  <2> QED BY <2>6
<1> DEFINE F(n) == CHOOSE f : Defines(f, n)
           H == [t \in Trees |-> F(Depth[t] + 1)[t]]
<1>5. \A n \in Nat : Defines(F(n), n)
  BY <1>4
<1> HIDE DEF F, Defines
<1>6. ASSUME NEW t \in Trees PROVE H[t] = LeavesOf(H, t)
  <2> DEFINE n == Depth[t] + 1
  <2>1. n \in Nat /\ Defines(F(n), n) /\ t \in Below(n)
    BY <1>1, <1>5
  <2>2. ASSUME NEW p \in Parts(t) PROVE F(n)[p] = H[p]
    <3>1. p \in Trees /\ Depth[p] \in Nat /\ Depth[p] < Depth[p] + 1 /\ Depth[p] < n
      BY <1>1
    <3>2. Defines(F(Depth[p] + 1), Depth[p] + 1)
      BY <1>5, <3>1
    <3> QED BY <1>3, <2>1, <3>1, <3>2
  <2>3. LeavesOf(F(n), t) = LeavesOf(H, t)
    <3> HIDE DEF H, n
    <3> QED BY <2>2, LeavesLocal
  <2>4. F(n)[t] = LeavesOf(F(n), t)
    BY <1>2, <2>1
  <2> QED BY <2>3, <2>4
<1>7. H = [t \in Trees |-> LeavesOf(H, t)]
  <2>1. H = [t \in Trees |-> H[t]]
    OBVIOUS
  <2> HIDE DEF H
  <2> QED BY <1>6, <2>1
<1>8. Leaves = CHOOSE f : f = [t \in Trees |-> LeavesOf(f, t)]
  BY Zenon DEF Leaves
<1>9. Leaves = [t \in Trees |-> LeavesOf(Leaves, t)]
  <2> HIDE DEF H
  <2> QED BY <1>7, <1>8
<1>10. ASSUME NEW t \in Trees PROVE [s \in Trees |-> LeavesOf(Leaves, s)][t] = LeavesOf(Leaves, t)
  OBVIOUS
<1> QED BY <1>9, <1>10

-----------------------------------------------------------------------------
(***************************************************************************)
(* Leaves, by the keys that lead to them.                                  *)
(***************************************************************************)
FieldNames == STRING
\* Leaves have a path of keys, and a text.
IsLeaves(leaves) == \A leaf \in leaves : leaf = <<leaf[1], leaf[2]>> /\ leaf[1] \in Seq(FieldNames)
\* What is not public has been redacted.
Hidden(leaves) == \A leaf \in leaves \ Public(leaves) : leaf[2] = RedactedText

\* What a key adds to the leaves below it.
LEMMA UnderKey ==
  ASSUME NEW key \in FieldNames, NEW leaves, IsLeaves(leaves)
  PROVE  /\ IsLeaves(Under(key, leaves))
         /\ key \notin Sensitive => Public(Under(key, leaves)) = Under(key, Public(leaves))
         /\ key \in Sensitive => Public(Under(key, leaves)) = {}
<1>1. ASSUME NEW leaf \in leaves
      PROVE  /\ leaf[1] \in Seq(FieldNames) /\ Append(leaf[1], key) \in Seq(FieldNames)
             /\ Range(Append(leaf[1], key)) = Range(leaf[1]) \cup {key}
  <2> DEFINE path == leaf[1]
  <2>1. path \in Seq(FieldNames)
    BY DEF IsLeaves
  <2> HIDE DEF path
  <2>2. Append(path, key) \in Seq(FieldNames)
    BY <2>1
  <2>3. Range(Append(path, key)) = Range(path) \cup {key}
    BY <2>1, AppendRange
  <2> QED BY <2>1, <2>2, <2>3 DEF path
<1>2. ASSUME NEW x PROVE x \in Under(key, leaves) <=> \E leaf \in leaves : x = <<Append(leaf[1], key), leaf[2]>>
  BY DEF Under
<1>3. IsLeaves(Under(key, leaves))
  <2> SUFFICES ASSUME NEW x \in Under(key, leaves)
               PROVE  x = <<x[1], x[2]>> /\ x[1] \in Seq(FieldNames)
    BY DEF IsLeaves
  <2>1. PICK leaf \in leaves : x = <<Append(leaf[1], key), leaf[2]>>
    BY <1>2
  <2> QED BY <1>1, <2>1
<1>4. ASSUME NEW x, key \notin Sensitive
      PROVE  x \in Public(Under(key, leaves)) <=> x \in Under(key, Public(leaves))
  <2>1. x \in Under(key, Public(leaves)) <=> \E leaf \in Public(leaves) : x = <<Append(leaf[1], key), leaf[2]>>
    BY DEF Under
  <2>2. ASSUME NEW leaf \in leaves, x = <<Append(leaf[1], key), leaf[2]>>
        PROVE  Range(x[1]) \cap Sensitive = {} <=> leaf \in Public(leaves)
    <3>1. x[1] = Append(leaf[1], key)
      BY <2>2
    <3>2. Range(x[1]) \cap Sensitive = Range(leaf[1]) \cap Sensitive
      BY <1>1, <1>4, <3>1
    <3> QED BY <3>2 DEF Public
  <2> QED BY <1>2, <2>1, <2>2 DEF Public
<1>5. ASSUME NEW x \in Public(Under(key, leaves)), key \in Sensitive PROVE FALSE
  <2>1. PICK leaf \in leaves : x = <<Append(leaf[1], key), leaf[2]>>
    BY <1>2 DEF Public
  <2>2. key \in Range(x[1])
    BY <1>1, <2>1
  <2> QED BY <1>5, <2>2 DEF Public
<1> QED BY <1>3, <1>4, <1>5

\* A key in front of redacted leaves leaves them redacted.
LEMMA HiddenUnder ==
  ASSUME NEW key \in FieldNames \ Sensitive, NEW leaves, IsLeaves(leaves), Hidden(leaves)
  PROVE  Hidden(Under(key, leaves))
<1>1. Public(Under(key, leaves)) = Under(key, Public(leaves))
  BY UnderKey
<1> SUFFICES ASSUME NEW x \in Under(key, leaves), x \notin Under(key, Public(leaves))
             PROVE  x[2] = RedactedText
  BY <1>1 DEF Hidden
<1>2. PICK leaf \in leaves : x = <<Append(leaf[1], key), leaf[2]>>
  BY DEF Under
<1>3. leaf \notin Public(leaves)
  BY <1>2 DEF Under
<1> QED BY <1>2, <1>3 DEF Hidden

\* Leaves of several parts.
LEMMA UnionOfLeaves ==
  ASSUME NEW I, NEW f, NEW g, NEW F, NEW G,
         F = UNION {f[i] : i \in I}, G = UNION {g[i] : i \in I},
         \A i \in I : IsLeaves(f[i]) /\ IsLeaves(g[i]) /\ Public(f[i]) = Public(g[i]) /\ Hidden(f[i])
  PROVE  IsLeaves(F) /\ IsLeaves(G) /\ Public(F) = Public(G) /\ Hidden(F)
<1>1. IsLeaves(F) /\ IsLeaves(G)
  BY DEF IsLeaves
<1>2. ASSUME NEW x PROVE (x \in Public(F) <=> x \in Public(G))
  <2>1. x \in Public(F) <=> \E i \in I : x \in Public(f[i])
    BY DEF Public
  <2>2. x \in Public(G) <=> \E i \in I : x \in Public(g[i])
    BY DEF Public
  <2> QED BY <2>1, <2>2
<1>3. Hidden(F)
  BY DEF Hidden, Public
<1> QED BY <1>1, <1>2, <1>3

\* What sanitizing does to the leaves of a tree.
Faithful(t) ==
  /\ IsLeaves(Leaves[t]) /\ IsLeaves(Leaves[Sanitize[t]])
  /\ Public(Leaves[Sanitize[t]]) = Public(Leaves[t])
  /\ Hidden(Leaves[Sanitize[t]])

\* A text has one leaf, without a path.
LEMMA LeafOfText ==
  ASSUME NEW text, Text(text) \in Trees
  PROVE  Leaves[Text(text)] = {<<<<>>, text>>}
BY LeavesUnfolds DEF LeavesOf, Text

LEMMA EmptyPath ==
  ASSUME NEW text
  PROVE  IsLeaves({<<<<>>, text>>}) /\ Public({<<<<>>, text>>}) = {<<<<>>, text>>}
<1>1. Range(<<>>) = {} /\ <<>> \in Seq(FieldNames)
  BY DEF Range
<1> QED BY <1>1 DEF IsLeaves, Public


\* A text under a key is the leaf of that name.
LEMMA UnderOfText ==
  ASSUME NEW key, NEW text
  PROVE  Under(key, {<<<<>>, text>>}) = {<<<<key>>, text>>}
<1> DEFINE leaf == <<<<>>, text>>
<1>1. leaf[1] = <<>> /\ leaf[2] = text
  OBVIOUS
<1>2. Append(<<>>, key) = <<key>>
  OBVIOUS
<1>3. <<Append(leaf[1], key), leaf[2]>> = <<<<key>>, text>>
  BY <1>1, <1>2
<1>4. Under(key, {leaf}) = {<<Append(leaf[1], key), leaf[2]>>}
  <2> HIDE DEF leaf
  <2> QED BY DEF Under
<1> HIDE DEF leaf
<1>5. Under(key, {leaf}) = {<<<<key>>, text>>}
  BY <1>3, <1>4
<1> QED BY <1>5 DEF leaf

\* One lemma for each kind of tree: an Error keeps its name and message.
LEMMA FaithfulError ==
  ASSUME NEW t \in Trees, t.kind = "error"
  PROVE  Faithful(t)
<1> DEFINE a == "name"
           b == "message"
           s == OfError(t)
<1>1. Sanitize[t] = s /\ s \in Trees
  BY SanitizeUnfolds, WrittenAssumption DEF SanitizeOf
<1>2. /\ s.kind = "object" /\ DOMAIN s.fields = {a, b} /\ a # b
      /\ s.fields[a] = Text(t.name) /\ s.fields[b] = Text(t.message)
  BY DEF OfError, Object
<1>3. a \in FieldNames \ Sensitive /\ b \in FieldNames \ Sensitive
  <2>1. a \in FieldNames /\ b \in FieldNames
    <3> HIDE DEF a, b, s
    <3>1. IsTree(s)
      BY <1>1, LoggingAssumption
    <3> QED BY <1>2, <3>1 DEF IsTree, FieldNames
  <2>2. {a, b} \cap Sensitive = {}
    BY Zenon, LoggingAssumption
  <2> HIDE DEF a, b
  <2> QED BY <2>1, <2>2
<1>4. Leaves[t] = {<<<<a>>, t.name>>, <<<<b>>, t.message>>}
  <2>1. LeavesOf(Leaves, t) = {<<<<a>>, t.name>>, <<<<b>>, t.message>>}
    BY DEF LeavesOf
  <2> QED BY <2>1, LeavesUnfolds
<1> HIDE DEF a, b, s
<1>5. Text(t.name) \in Trees /\ Text(t.message) \in Trees
  <2>1. Text(t.name) \in Parts(s) /\ Text(t.message) \in Parts(s)
    BY <1>2 DEF Parts, Range
  <2> QED BY <1>1, <2>1, LoggingAssumption
<1>6. Leaves[s] = UNION {Under(k, Leaves[s.fields[k]]) : k \in DOMAIN s.fields}
  BY <1>1, <1>2, LeavesUnfolds DEF LeavesOf
<1> DEFINE one == {<<<<>>, t.name>>}
           two == {<<<<>>, t.message>>}
<1>7. Leaves[s.fields[a]] = one /\ Leaves[s.fields[b]] = two
  BY <1>2, <1>5, LeafOfText
<1>8. /\ IsLeaves(one) /\ IsLeaves(two) /\ Public(one) = one /\ Public(two) = two
  BY EmptyPath
<1>9. Under(a, one) = {<<<<a>>, t.name>>} /\ Under(b, two) = {<<<<b>>, t.message>>}
  BY UnderOfText
<1> HIDE DEF one, two
<1>10. Leaves[s] = Under(a, one) \cup Under(b, two)
  BY <1>2, <1>6, <1>7
<1>11. Leaves[t] = Under(a, one) \cup Under(b, two)
  BY <1>4, <1>9
<1>12. /\ IsLeaves(Under(a, one)) /\ Public(Under(a, one)) = Under(a, one)
       /\ IsLeaves(Under(b, two)) /\ Public(Under(b, two)) = Under(b, two)
  BY <1>3, <1>8, UnderKey
<1>13. LET all == Under(a, one) \cup Under(b, two)
       IN  IsLeaves(all) /\ Public(all) = all
  BY <1>12 DEF IsLeaves, Public
<1> QED BY <1>1, <1>10, <1>11, <1>13 DEF Faithful, Hidden

LEMMA FaithfulText ==
  ASSUME NEW t \in Trees, t.kind = "text"
  PROVE  Faithful(t)
<1>1. Sanitize[t] = t
  BY SanitizeUnfolds DEF SanitizeOf
<1>2. Leaves[t] = {<<<<>>, t.text>>}
  BY LeavesUnfolds DEF LeavesOf
<1> QED BY <1>1, <1>2, EmptyPath DEF Faithful, Hidden

\* Indices are never sensitive.
LEMMA FaithfulArray ==
  ASSUME NEW t \in Trees, t.kind = "array", \A part \in Parts(t) : Faithful(part)
  PROVE  Faithful(t)
<1> DEFINE s == Array([i \in DOMAIN t.items |-> Sanitize[t.items[i]]])
           I == DOMAIN t.items
           f == [i \in I |-> Under(ToString(i), Leaves[Sanitize[t.items[i]]])]
           g == [i \in I |-> Under(ToString(i), Leaves[t.items[i]])]
<1>1. Sanitize[t] = s /\ s \in Trees
  BY SanitizeUnfolds, WrittenAssumption DEF SanitizeOf
<1>2. s.kind = "array" /\ DOMAIN s.items = I /\ \A i \in I : s.items[i] = Sanitize[t.items[i]]
  BY DEF Array
<1>3. ASSUME NEW i \in I PROVE Faithful(t.items[i]) /\ ToString(i) \in FieldNames \ Sensitive
  <2>1. t.items[i] \in Parts(t)
    BY DEF Parts, Range
  <2>2. IsTree(t)
    BY LoggingAssumption
  <2>3. \A j \in I : ToString(j) \in STRING \ Sensitive
    BY <2>2 DEF IsTree
  <2> QED BY <2>1, <2>3 DEF FieldNames
<1> HIDE DEF s
<1> DEFINE F == Leaves[s]
           G == Leaves[t]
<1>4. F = UNION {f[i] : i \in I}
  <2>1. Leaves[s] = UNION {Under(ToString(i), Leaves[s.items[i]]) : i \in DOMAIN s.items}
    BY <1>1, <1>2, LeavesUnfolds DEF LeavesOf
  <2>2. \A i \in I : f[i] = Under(ToString(i), Leaves[s.items[i]])
    BY <1>2
  <2> HIDE DEF f, I
  <2> QED BY <1>2, <2>1, <2>2
<1>5. G = UNION {g[i] : i \in I}
  BY LeavesUnfolds DEF LeavesOf
<1>6. ASSUME NEW i \in I
      PROVE  IsLeaves(f[i]) /\ IsLeaves(g[i]) /\ Public(f[i]) = Public(g[i]) /\ Hidden(f[i])
  <2> DEFINE key == ToString(i)
             before == Leaves[t.items[i]]
             after == Leaves[Sanitize[t.items[i]]]
  <2>1. f[i] = Under(key, after) /\ g[i] = Under(key, before)
    OBVIOUS
  <2>2. /\ IsLeaves(before) /\ IsLeaves(after) /\ Public(after) = Public(before) /\ Hidden(after)
        /\ key \in FieldNames \ Sensitive
    BY <1>3 DEF Faithful
  <2> HIDE DEF key, before, after, f, g
  <2>3. /\ IsLeaves(Under(key, after)) /\ Public(Under(key, after)) = Under(key, Public(after))
        /\ IsLeaves(Under(key, before)) /\ Public(Under(key, before)) = Under(key, Public(before))
    BY <2>2, UnderKey
  <2>4. Hidden(Under(key, after))
    BY <2>2, <2>3, HiddenUnder
  <2> QED BY <2>1, <2>2, <2>3, <2>4
<1> HIDE DEF f, g, I, F, G
<1>7. IsLeaves(F) /\ IsLeaves(G) /\ Public(F) = Public(G) /\ Hidden(F)
  BY <1>4, <1>5, <1>6, UnionOfLeaves
<1> QED BY <1>1, <1>7 DEF Faithful, F, G

\* What a sensitive key leads to becomes one redacted text.
LEMMA FaithfulObject ==
  ASSUME NEW t \in Trees, t.kind = "object", \A part \in Parts(t) : Faithful(part)
  PROVE  Faithful(t)
<1> DEFINE I == DOMAIN t.fields
           of == [k \in I |-> IF k \in Sensitive THEN Redacted ELSE Sanitize[t.fields[k]]]
           s == Object(of)
           f == [k \in I |-> Under(k, Leaves[of[k]])]
           g == [k \in I |-> Under(k, Leaves[t.fields[k]])]
<1>1. Sanitize[t] = s /\ s \in Trees
  BY SanitizeUnfolds, WrittenAssumption DEF SanitizeOf
<1>2. s.kind = "object" /\ DOMAIN s.fields = I /\ \A k \in I : s.fields[k] = of[k]
  BY DEF Object
<1>3. ASSUME NEW k \in I PROVE Faithful(t.fields[k]) /\ k \in FieldNames
  <2>1. t.fields[k] \in Parts(t)
    BY DEF Parts, Range
  <2>2. IsTree(t)
    BY LoggingAssumption
  <2> QED BY <2>1, <2>2 DEF IsTree, FieldNames
<1> HIDE DEF s, of
<1> DEFINE F == Leaves[s]
           G == Leaves[t]
<1>4. F = UNION {f[k] : k \in I}
  <2>1. Leaves[s] = UNION {Under(k, Leaves[s.fields[k]]) : k \in DOMAIN s.fields}
    BY <1>1, <1>2, LeavesUnfolds DEF LeavesOf
  <2>2. \A k \in I : f[k] = Under(k, Leaves[s.fields[k]])
    BY <1>2
  <2> HIDE DEF f, I
  <2> QED BY <1>2, <2>1, <2>2
<1>5. G = UNION {g[k] : k \in I}
  BY LeavesUnfolds DEF LeavesOf
<1>6. ASSUME NEW k \in I
      PROVE  IsLeaves(f[k]) /\ IsLeaves(g[k]) /\ Public(f[k]) = Public(g[k]) /\ Hidden(f[k])
  <2> DEFINE before == Leaves[t.fields[k]]
             after == Leaves[of[k]]
  <2>1. f[k] = Under(k, after) /\ g[k] = Under(k, before)
    OBVIOUS
  <2>2. IsLeaves(before) /\ k \in FieldNames
    BY <1>3 DEF Faithful
  <2>3. CASE k \notin Sensitive
    <3>1. IsLeaves(after) /\ Public(after) = Public(before) /\ Hidden(after)
      BY <1>3, <2>3 DEF Faithful, of
    <3> HIDE DEF before, after, f, g
    <3>2. /\ IsLeaves(Under(k, after)) /\ Public(Under(k, after)) = Under(k, Public(after))
          /\ IsLeaves(Under(k, before)) /\ Public(Under(k, before)) = Under(k, Public(before))
      BY <2>2, <2>3, <3>1, UnderKey
    <3>3. Hidden(Under(k, after))
      BY <2>2, <2>3, <3>1, HiddenUnder
    <3> QED BY <2>1, <3>1, <3>2, <3>3
  <2>4. CASE k \in Sensitive
    <3>1. of[k] = Redacted /\ Redacted \in Trees
      <4>1. of[k] \in Parts(s)
        BY <1>2 DEF Parts, Range
      <4> QED BY <1>1, <2>4, <4>1, LoggingAssumption DEF of
    <3>2. after = {<<<<>>, RedactedText>>} /\ IsLeaves(after)
      BY <3>1, LeafOfText, EmptyPath DEF Redacted
    <3> HIDE DEF before, after, f, g
    <3>3. /\ IsLeaves(Under(k, after)) /\ Public(Under(k, after)) = {}
          /\ IsLeaves(Under(k, before)) /\ Public(Under(k, before)) = {}
      BY <2>2, <2>4, <3>2, UnderKey
    <3>4. \A leaf \in Under(k, after) : leaf[2] = RedactedText
      BY <3>2 DEF Under
    <3> QED BY <2>1, <3>3, <3>4 DEF Hidden
  <2> QED BY <2>3, <2>4
<1> HIDE DEF f, g, I, F, G
<1>7. IsLeaves(F) /\ IsLeaves(G) /\ Public(F) = Public(G) /\ Hidden(F)
  BY <1>4, <1>5, <1>6, UnionOfLeaves
<1> QED BY <1>1, <1>7 DEF Faithful, F, G

\* Every tree, since no unfaithful one is the least deep.
LEMMA SanitizeFaithful ==
  \A t \in Trees : Faithful(t)
<1> DEFINE Bad == {t \in Trees : ~Faithful(t)}
           Depths == {Depth[t] : t \in Bad}
<1> SUFFICES ASSUME Bad # {} PROVE FALSE
  OBVIOUS
<1>1. /\ \A t \in Trees : Depth[t] \in Nat
      /\ \A t \in Trees : \A p \in Parts(t) : p \in Trees /\ Depth[p] < Depth[t]
  BY LoggingAssumption
<1>2. PICK t \in Bad : \A s \in Bad : Depth[t] <= Depth[s]
  <2>1. Depths \in SUBSET Nat /\ Depths # {}
    BY <1>1
  <2> HIDE DEF Bad
  <2>2. PICK d \in Depths : \A e \in Depths : d <= e
    BY <2>1, LeastElement
  <2> QED BY <2>2
<1>3. \A part \in Parts(t) : Faithful(part)
  <2> SUFFICES ASSUME NEW p \in Parts(t), ~Faithful(p) PROVE FALSE
    OBVIOUS
  <2>1. p \in Bad /\ Depth[p] < Depth[t] /\ Depth[p] \in Nat /\ Depth[t] \in Nat
    BY <1>1
  <2>2. Depth[t] <= Depth[p]
    BY <1>2, <2>1
  <2> QED BY <2>1, <2>2
<1>4. t.kind \in {"text", "error", "array", "object"}
  BY LoggingAssumption DEF IsTree
<1>5. t \in Trees /\ ~Faithful(t)
  OBVIOUS
<1> QED BY <1>3, <1>4, <1>5, FaithfulText, FaithfulError, FaithfulArray, FaithfulObject


-----------------------------------------------------------------------------
(***************************************************************************)
(* Tasks and the lines they write.                                         *)
(***************************************************************************)
IdKey == "correlationId"

\* What a task has for an id is what its client is told.
Told ==
  /\ context \in [Tasks -> {NoId} \cup Supplied \cup {Fresh(r) : r \in Requests}]
  /\ DOMAIN idHeader = Requests
  /\ context[Worker] = NoId
  /\ \A r \in Requests : IF idHeader[r] \in {NoId, Untold}
                         THEN context[r] = NoId
                         ELSE context[r] = idHeader[r]
\* The last line has the id of its request, or none because there is none.
Signed ==
  /\ line.by \in Tasks
  /\ line.fields # <<>> /\ line.by \in Requests => idHeader[line.by] # NoId
  /\ IF IdKey \in DOMAIN line.fields
     THEN /\ line.by \in Requests /\ idHeader[line.by] \notin {NoId, Untold}
          /\ line.fields[IdKey] = Text(idHeader[line.by])
     ELSE line.fields # <<>> /\ line.by \in Requests => idHeader[line.by] = Untold
\* What a line has under the keys of an object is that object sanitized.
Copied ==
  line.meta.kind = "object" =>
    /\ line.meta \in Trees
    /\ Object([k \in DOMAIN line.meta.fields |-> line.fields[k]]) = Sanitize[line.meta]
LogInv == Told /\ Signed /\ Copied

\* Sanitizing keeps the keys of an object.
LEMMA SanitizedObject ==
  ASSUME NEW meta \in Trees, meta.kind = "object"
  PROVE  /\ DOMAIN Sanitize[meta].fields = DOMAIN meta.fields
         /\ Sanitize[meta] = Object([k \in DOMAIN meta.fields |-> Sanitize[meta].fields[k]])
<1> DEFINE f == [key \in DOMAIN meta.fields |->
                   IF key \in Sensitive THEN Redacted ELSE Sanitize[meta.fields[key]]]
<1>1. Sanitize[meta] = Object(f)
  BY SanitizeUnfolds DEF SanitizeOf
<1>2. DOMAIN f = DOMAIN meta.fields /\ f = [k \in DOMAIN meta.fields |-> f[k]]
  OBVIOUS
<1>3. Object(f).fields = f
  BY DEF Object
<1> HIDE DEF f
<1> QED BY <1>1, <1>2, <1>3

\* The payload, spread last, does not overwrite the id.
LEMMA PayloadHasNoId ==
  ASSUME NEW level, NEW meta \in Metadata
  PROVE  IdKey \notin DOMAIN Payload(level, meta)
<1>1. CASE meta.kind = "object"
  <2>1. meta \in Trees /\ IdKey \notin DOMAIN meta.fields
    BY <1>1, LoggingAssumption DEF IdKey
  <2>2. DOMAIN Payload(level, meta) = DOMAIN meta.fields
    BY <1>1, <2>1, SanitizedObject DEF Payload
  <2> QED BY <2>1, <2>2
<1>2. CASE meta.kind = "error"
  <2>1. Sanitize[meta] = OfError(meta)
    BY <1>2, SanitizeUnfolds, LoggingAssumption DEF SanitizeOf
  <2> QED BY <1>2, <2>1 DEF Payload, OfError, Object, IdKey
<1>3. CASE meta.kind \notin {"object", "error"}
  BY <1>3 DEF Payload, IdKey
<1> QED BY <1>1, <1>2, <1>3

\* One lemma for each action.
LEMMA LogInvInit == LogInit => LogInv
<1> SUFFICES ASSUME LogInit PROVE LogInv
  OBVIOUS
<1>1. Told
  BY LoggingAssumption DEF LogInit, Told, Tasks
<1>2. line.by = Worker /\ line.fields = <<>> /\ line.meta.kind = "text"
  BY DEF LogInit, Text
<1>3. Signed
  <2>1. IdKey \notin DOMAIN line.fields
    BY <1>2
  <2> QED BY <1>2, <2>1, LoggingAssumption DEF Signed, Tasks
<1>4. Copied
  BY <1>2 DEF Copied
<1> QED BY <1>1, <1>3, <1>4 DEF LogInv

LEMMA LogInvUse ==
  ASSUME LogInv, NEW r \in Requests, Use(r)
  PROVE  LogInv'
<1>1. PICK id \in Supplied \cup {Fresh(r)} :
        /\ idHeader' = [idHeader EXCEPT ![r] = id]
        /\ context' = [context EXCEPT ![r] = id]
  BY DEF Use, RunContext
<1>2. idHeader[r] = NoId /\ line' = line
  BY DEF Use
<1>3. id \notin {NoId, Untold} /\ r \in Tasks /\ r # Worker
  BY LoggingAssumption DEF Tasks
<1>4. Told'
  BY <1>1, <1>3 DEF LogInv, Told
<1>5. Signed'
  <2>1. line.by \in Requests /\ line.fields # <<>> => line.by # r
    BY <1>2 DEF LogInv, Signed
  <2>2. IdKey \in DOMAIN line.fields => line.fields # <<>>
    OBVIOUS
  <2>3. line.by \in Requests /\ line.fields # <<>> => idHeader'[line.by] = idHeader[line.by]
    BY <1>1, <2>1 DEF LogInv, Told
  <2> QED BY <1>2, <2>2, <2>3 DEF LogInv, Signed
<1>6. Copied'
  BY <1>2 DEF LogInv, Copied
<1> QED BY <1>4, <1>5, <1>6 DEF LogInv

LEMMA LogInvStayUntold ==
  ASSUME LogInv, NEW r \in Requests, StayUntold(r)
  PROVE  LogInv'
<1>1. /\ idHeader[r] = NoId /\ idHeader' = [idHeader EXCEPT ![r] = Untold]
      /\ context' = context /\ line' = line
  BY DEF StayUntold
<1>2. Told'
  BY <1>1 DEF LogInv, Told
<1>3. Signed'
  <2>1. line.by \in Requests /\ line.fields # <<>> => line.by # r
    BY <1>1 DEF LogInv, Signed
  <2>2. IdKey \in DOMAIN line.fields => line.fields # <<>>
    OBVIOUS
  <2>3. line.by \in Requests /\ line.fields # <<>> => idHeader'[line.by] = idHeader[line.by]
    BY <1>1, <2>1 DEF LogInv, Told
  <2> QED BY <1>1, <2>2, <2>3 DEF LogInv, Signed
<1>4. Copied'
  BY <1>1 DEF LogInv, Copied
<1> QED BY <1>2, <1>3, <1>4 DEF LogInv

LEMMA LogInvWrite ==
  ASSUME LogInv, NEW task \in Tasks, NEW level, NEW meta \in Metadata, Write(task, level, meta)
  PROVE  LogInv'
<1> DEFINE id == [key \in {k \in {IdKey} : context[task] # NoId} |-> Text(context[task])]
           one == [level |-> Text(level)]
           base == Spread(one, id)
           payload == Payload(level, meta)
           fields == Spread(base, payload)
<1>1. /\ line' = [by |-> task, meta |-> meta, fields |-> fields]
      /\ context' = context /\ idHeader' = idHeader
      /\ task \in Requests => idHeader[task] # NoId
  BY DEF Write, IdKey
<1>2. DOMAIN one = {"level"} /\ IdKey \notin DOMAIN one
  BY DEF IdKey
<1>3. IdKey \notin DOMAIN payload
  BY PayloadHasNoId
<1>4. /\ DOMAIN id = IF context[task] # NoId THEN {IdKey} ELSE {}
      /\ context[task] # NoId => id[IdKey] = Text(context[task])
  OBVIOUS
<1> HIDE DEF one, id, payload
<1>5. /\ IdKey \in DOMAIN base <=> context[task] # NoId
      /\ context[task] # NoId => base[IdKey] = Text(context[task])
  BY <1>2, <1>4 DEF Spread
<1> HIDE DEF base
<1>6. /\ IdKey \in DOMAIN fields <=> context[task] # NoId
      /\ context[task] # NoId => fields[IdKey] = Text(context[task])
  BY <1>3, <1>5 DEF Spread
<1>7. \A k \in DOMAIN payload : k \in DOMAIN fields /\ fields[k] = payload[k]
  BY DEF Spread
<1> HIDE DEF fields
<1>8. Told'
  BY <1>1 DEF LogInv, Told
<1>9. Signed'
  <2>1. line'.by = task /\ line'.fields = fields
    BY <1>1
  <2>2. CASE context[task] # NoId
    <3>1. task \in Requests /\ idHeader[task] \notin {NoId, Untold} /\ context[task] = idHeader[task]
      BY <2>2 DEF LogInv, Told, Tasks
    <3> QED BY <1>1, <1>6, <2>1, <2>2, <3>1 DEF Signed
  <2>3. CASE context[task] = NoId
    <3>1. task \in Requests => idHeader[task] = Untold
      BY <1>1, <2>3 DEF LogInv, Told
    <3> QED BY <1>1, <1>6, <2>1, <2>3, <3>1, LoggingAssumption DEF Signed
  <2> QED BY <2>2, <2>3
<1>10. Copied'
  <2> SUFFICES ASSUME meta.kind = "object"
               PROVE  /\ meta \in Trees
                      /\ Object([k \in DOMAIN meta.fields |-> fields[k]]) = Sanitize[meta]
    BY <1>1 DEF Copied
  <2>1. meta \in Trees
    BY LoggingAssumption
  <2>2. payload = Sanitize[meta].fields
    BY DEF payload, Payload
  <2>3. DOMAIN payload = DOMAIN meta.fields
    BY <2>1, <2>2, SanitizedObject
  <2>4. [k \in DOMAIN meta.fields |-> fields[k]] = [k \in DOMAIN meta.fields |-> Sanitize[meta].fields[k]]
    BY <1>7, <2>2, <2>3
  <2> QED BY <2>1, <2>4, SanitizedObject
<1> QED BY <1>8, <1>9, <1>10 DEF LogInv

LEMMA LogInvInvariant == LogSpec => []LogInv
<1>1. LogInv /\ [LogNext]_logVars => LogInv'
  <2> SUFFICES ASSUME LogInv, [LogNext]_logVars PROVE LogInv'
    OBVIOUS
  <2>1. ASSUME NEW r \in Requests, Use(r) PROVE LogInv'
    BY <2>1, LogInvUse
  <2>2. ASSUME NEW r \in Requests, StayUntold(r) PROVE LogInv'
    BY <2>2, LogInvStayUntold
  <2>3. ASSUME NEW task \in Tasks, NEW level, NEW meta \in Metadata, Write(task, level, meta) PROVE LogInv'
    BY <2>3, LogInvWrite
  <2>4. CASE UNCHANGED logVars
    BY <2>4 DEF logVars, LogInv, Told, Signed, Copied
  <2> QED BY <2>1, <2>2, <2>3, <2>4 DEF LogNext
<1> QED BY <1>1, LogInvInit, PTL DEF LogSpec

\* However requests and the worker interleave, AsyncLocalStorage gives every
\* line the id that the client of its request is told, and no other line one.
THEOREM LinesAreSigned == LogSpec => []LinesNameTheirRequest
<1>1. LogInv => LinesNameTheirRequest
  <2> SUFFICES ASSUME LogInv PROVE LinesNameTheirRequest
    OBVIOUS
  <2>1. IdKey \in DOMAIN line.fields =>
          line.by # Worker /\ line.fields[IdKey] = Text(idHeader[line.by])
    BY LoggingAssumption DEF LogInv, Signed
  <2>2. IdKey \notin DOMAIN line.fields /\ line.fields # <<>> =>
          line.by = Worker \/ idHeader[line.by] = Untold
    BY DEF LogInv, Signed, Tasks
  <2> QED BY <2>1, <2>2 DEF LinesNameTheirRequest, IdKey
<1> QED BY <1>1, LogInvInvariant, PTL

\* sanitize hides what is under a sensitive key at any depth of any tree, and
\* writes all else where it was.
THEOREM SecretsStayHidden == LogSpec => []OnlySecretsAreHidden
<1>1. LogInv => OnlySecretsAreHidden
  <2> SUFFICES ASSUME LogInv, line.meta.kind = "object"
               PROVE  LET written == Leaves[Object([k \in DOMAIN line.meta.fields |-> line.fields[k]])]
                      IN  /\ Public(written) = Public(Leaves[line.meta])
                          /\ \A leaf \in written \ Public(written) : leaf[2] = RedactedText
    BY DEF OnlySecretsAreHidden
  <2> DEFINE o == Object([k \in DOMAIN line.meta.fields |-> line.fields[k]])
  <2>1. line.meta \in Trees /\ o = Sanitize[line.meta]
    BY DEF LogInv, Copied
  <2>2. Faithful(line.meta)
    BY <2>1, SanitizeFaithful
  <2> HIDE DEF o
  <2>3. Public(Leaves[o]) = Public(Leaves[line.meta]) /\ Hidden(Leaves[o])
    BY <2>1, <2>2 DEF Faithful
  <2> QED BY <2>3 DEF Hidden, o
<1> QED BY <1>1, LogInvInvariant, PTL
================================================================================
