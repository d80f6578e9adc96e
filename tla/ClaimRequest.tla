----------------------------- MODULE ClaimRequest -----------------------------
(***************************************************************************)
(* What the body and the Idempotency-Key header of POST /api/claims come   *)
(* to: CreateClaimDto and the ValidationPipe, buildKey, and the row that   *)
(* createClaim inserts.  Requests follow one another here, nothing fails   *)
(* and no record expires; how they overlap is in ClaimCreation, where      *)
(* buildKey is the constant KeyOf.                                         *)
(*                                                                         *)
(* Texts are sequences of characters.  A body is taken after the           *)
(* conversions of class-transformer.  An absent header or description is   *)
(* empty, which the code treats alike.                                     *)
(***************************************************************************)
EXTENDS Naturals, Sequences, FiniteSetsExt

CONSTANTS
  Identities,    \* ids of users; none has a ":"
  Inputs,        \* headers with bodies: a policyId, a description, an amount
  SafeChars,     \* characters that buildKey keeps
  MaxKey,        \* the length to which it cuts a key
  Digest,        \* SHA-256 of what fingerprint makes of a body, in hexadecimal
  MinLength, MaxLength,   \* of a description
  MaxRequests    \* bound on the requests of a behaviour

Space  == " "
Filler == "_"   \* what buildKey puts in the place of another character

ASSUME RequestAssumption ==
  /\ Filler \in SafeChars /\ Space \notin SafeChars
  /\ MaxKey \in Nat \ {0} /\ MinLength \in Nat /\ MaxLength \in Nat
  /\ MaxRequests \in Nat
  /\ \A input \in Inputs : input.header \in Seq(Range(input.header))

VARIABLES
  record,   \* complete idempotency records: the claim of each key
  claims,   \* rows in the order in which they were inserted; an id is a place
  log       \* requests with their answers

vars == <<record, claims, log>>

Refused  == 0                \* 400
NotFound == MaxRequests + 1  \* 404
-----------------------------------------------------------------------------
\* String.prototype.trim.
Trim(text) ==
  LET black == {i \in DOMAIN text : text[i] # Space}
  IN  IF black = {} THEN <<>> ELSE SubSeq(text, Min(black), Max(black))

\* The annotations of CreateClaimDto.  A "bad" policyId is one that is empty or
\* too long; a "bad" amount is no number, below 0.01 or finer than a cent.
Valid(body) ==
  /\ Len(body.description) \in MinLength..MaxLength
  /\ "bad" \notin {body.policyId, body.amount}

\* value ?? null
OrNull(value) == IF value = "absent" THEN "null" ELSE value

\* Seeded fault: the amount is left out of the fingerprint.
FingerprintOfText(body) ==
  [policyId |-> OrNull(body.policyId), description |-> Trim(body.description)]
\* What fingerprint hashes: the normalized fields.
Fingerprint(body) ==
  [policyId |-> OrNull(body.policyId), description |-> Trim(body.description),
   amount |-> OrNull(body.amount)]

\* What bodies come to that the pipe lets through.
Contents == {Fingerprint(input.body) : input \in {i \in Inputs : Valid(i.body)}}

\* A digest is of characters that buildKey keeps, is shorter than the cut, and
\* no two contents have the same.
ASSUME DigestAssumption ==
  /\ Digest \in [Contents -> Seq(SafeChars \ {Filler})]
  /\ \A c \in Contents : Len(Digest[c]) \in 1..(MaxKey - 1)
  /\ \A c, d \in Contents : Digest[c] = Digest[d] => c = d

\* Seeded fault: the underscore is left out of the pattern.
SafeLetter(char) == IF char \in SafeChars \ {Filler} THEN char ELSE "-"
\* The pattern that replaces a character.
Safe(char) == IF char \in SafeChars THEN char ELSE Filler

\* replace and slice.
SafeKey(raw) ==
  SubSeq([i \in DOMAIN raw |-> Safe(raw[i])], 1, Min({Len(raw), MaxKey}))

\* Seeded fault: the header is not trimmed.
UntrimmedKey(identity, header, body) ==
  <<identity,
    SafeKey(IF Trim(header) # <<>> THEN header ELSE Digest[Fingerprint(body)])>>
\* buildKey: a header and the digest of a content are keys of one kind.
BuildKey(identity, header, body) ==
  <<identity,
    SafeKey(IF Trim(header) # <<>> THEN Trim(header) ELSE Digest[Fingerprint(body)])>>

\* The columns that createClaim fills in from the request.
RowOf(identity, body) ==
  [identityId |-> identity, policyId |-> OrNull(body.policyId),
   description |-> Trim(body.description), amount |-> OrNull(body.amount)]
-----------------------------------------------------------------------------
Init ==
  /\ record = <<>>
  /\ claims = <<>>
  /\ log = <<>>

Log(identity, header, body, answer) ==
  log' = Append(log, [identity |-> identity, header |-> header, body |-> body,
                      answer |-> answer])

\* The pipe refuses the body.
Refuse(identity, header, body) ==
  /\ ~Valid(body)
  /\ Log(identity, header, body, Refused)
  /\ UNCHANGED <<record, claims>>

\* Nobody has used the key.
CreateClaim(identity, header, body) ==
  LET key == BuildKey(identity, header, body)
      id  == Len(claims) + 1
  IN  /\ Valid(body) /\ key \notin DOMAIN record
      /\ record' = [k \in DOMAIN record \cup {key} |-> IF k = key THEN id ELSE record[k]]
      /\ claims' = Append(claims, RowOf(identity, body))
      /\ Log(identity, header, body, id)

\* The record names a claim: getClaim finds it, if it is the user's.
Replay(identity, header, body) ==
  LET key == BuildKey(identity, header, body)
      id  == record[key]
  IN  /\ Valid(body) /\ key \in DOMAIN record
      /\ Log(identity, header, body,
                IF claims[id].identityId = identity THEN id ELSE NotFound)
      /\ UNCHANGED <<record, claims>>

Next ==
  /\ Len(log) < MaxRequests
  /\ \E identity \in Identities, input \in Inputs :
       \/ Refuse(identity, input.header, input.body)
       \/ CreateClaim(identity, input.header, input.body)
       \/ Replay(identity, input.header, input.body)

Spec == Init /\ [][Next]_vars
-----------------------------------------------------------------------------
\* Requests that were answered with a claim, or should have been.
Accepted == {i \in DOMAIN log : log[i].answer # Refused}
SameUser(i, j) == log[i].identity = log[j].identity
Named(i) == Trim(log[i].header) # <<>>
\* Its header is a key that buildKey leaves as it is, such as a UUID.
WellNamed(i) ==
  LET key == Trim(log[i].header)
  IN  Len(key) \in 1..MaxKey /\ \A n \in DOMAIN key : key[n] \in SafeChars

\* A request that repeats its header gets the claim it got before, whatever
\* space the client or a proxy put around the key and whatever the body; and
\* nobody is told "Claim not found" for a claim that he is creating.
RetriesShare ==
  \A i, j \in Accepted :
    /\ log[i].answer # NotFound
    /\ SameUser(i, j) /\ Named(i) /\ Trim(log[i].header) = Trim(log[j].header)
         => log[i].answer = log[j].answer

\* The text that stands for a request, before buildKey cleans it.
KeyText(i) ==
  IF Named(i) THEN Trim(log[i].header) ELSE Digest[Fingerprint(log[i].body)]

\* Keys of the safe alphabet and length are never confused with one another, and
\* such a key shares the claim of a request without a header exactly if it is
\* the digest of what that sent: buildKey does not tell the two apart.
KeysApart ==
  \A i, j \in Accepted :
    SameUser(i, j) /\ WellNamed(i) /\ (WellNamed(j) \/ ~Named(j))
      => (log[i].answer = log[j].answer <=> KeyText(i) = KeyText(j))

\* Requests without a header whose digest their user has not sent as a header.
Unnamed ==
  {i \in Accepted :
     ~Named(i) /\ \A j \in Accepted :
       SameUser(i, j) /\ Named(j) => KeyText(j) # KeyText(i)}

\* Without a header the content decides: a request gets a claim that says what
\* it sent, and the claim of an earlier one exactly if that sent the same --
\* unless its user has sent the very digest as a header (any other header,
\* well-formed or not, leaves it alone).
ContentDecides ==
  \A i \in Unnamed :
    /\ claims[log[i].answer] = RowOf(log[i].identity, log[i].body)
    /\ \A j \in Unnamed :
         claims[log[i].answer] = claims[log[j].answer] => log[i].answer = log[j].answer
=============================================================================
