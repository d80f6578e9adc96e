---------------------------- MODULE GatewayProofs ----------------------------
(***************************************************************************)
(* The WebSocket gateway: its types, whom it admits, to whom it speaks,    *)
(* and that a room misses nothing; for any number of sockets, processes,   *)
(* tokens and claims.                                                      *)
(***************************************************************************)
EXTENDS Gateway, CommonProofs, FiniteSetTheorems, SequenceTheorems, TLAPS

-----------------------------------------------------------------------------
\* A packet that arrives moves from the outbox to what was heard.
LEMMA HeadMoves ==
  ASSUME NEW S, NEW h \in Seq(S), NEW o \in Seq(S), o # <<>>
  PROVE  Append(h, Head(o)) \o Tail(o) = h \o o
<1> DEFINE a == Append(h, Head(o))
           t == Tail(o)
<1>1. /\ a \in Seq(S) /\ t \in Seq(S) /\ Len(a) = Len(h) + 1 /\ Len(t) = Len(o) - 1
      /\ Len(h) \in Nat /\ Len(o) \in Nat \ {0}
      /\ \A i \in 1 .. Len(h) : a[i] = h[i]
      /\ a[Len(h) + 1] = o[1]
      /\ \A i \in 1 .. Len(o) - 1 : t[i] = o[i + 1]
  OBVIOUS
<1> HIDE DEF a, t
<1>2. /\ a \o t \in Seq(S) /\ h \o o \in Seq(S) /\ Len(a \o t) = Len(h \o o)
      /\ Len(h \o o) = Len(h) + Len(o)
  <2>1. /\ a \o t \in Seq(S) /\ Len(a \o t) = Len(a) + Len(t)
        /\ h \o o \in Seq(S) /\ Len(h \o o) = Len(h) + Len(o)
    BY <1>1, ConcatProperties
  <2> QED BY <1>1, <2>1
<1>3. \A i \in 1 .. Len(h \o o) : (a \o t)[i] = (h \o o)[i]
  BY <1>1, <1>2
<1>4. a \o t = h \o o
  BY <1>2, <1>3, SeqEqual
<1> QED BY <1>4 DEF a, t

\* One that is sent joins the end.
LEMMA AppendMoves ==
  ASSUME NEW S, NEW h \in Seq(S), NEW o \in Seq(S), NEW x \in S
  PROVE  h \o Append(o, x) = Append(h \o o, x)
OBVIOUS

\* Two sequences of packets make one.
LEMMA ConcatType ==
  ASSUME NEW S, NEW h \in Seq(S), NEW o \in Seq(S)
  PROVE  h \o o \in Seq(S) /\ h \o <<>> = h
OBVIOUS
-----------------------------------------------------------------------------
\* The statuses of ClaimLifecycle are those of ClaimStatus.
LEMMA SameTable == Lifecycle!Status = Status /\ Lifecycle!ABSENT = ABSENT
BY DEF Lifecycle!Status, Status, Lifecycle!ABSENT, ABSENT

\* A claim moves, and nothing is announced.
LEMMA ClaimMovesType ==
  ASSUME TypeOK, NEW c \in Claims, ClaimMoves(c)
  PROVE  /\ status' \in [Claims -> Status \cup {ABSENT}]
         /\ UNCHANGED <<announced, home, tokenVars, socketVars, disruptions>>
<1>1. /\ UNCHANGED <<home, tokenVars, socketVars, disruptions>>
      /\ status \in [Claims -> Status \cup {ABSENT}]
  BY DEF ClaimMoves, TypeOK
<1>2. \E n \in Status \cup {ABSENT} : status' = [status EXCEPT ![c] = n] /\ UNCHANGED announced
  <2>1. CASE Lifecycle!Create(c)
    BY <2>1, SameTable DEF Lifecycle!Create, Status
  <2>2. CASE Lifecycle!Advance(c)
    BY <2>2, SameTable DEF Lifecycle!Advance
  <2>3. CASE Lifecycle!Withdraw(c)
    BY <2>3, SameTable DEF Lifecycle!Withdraw
  <2> QED BY <2>1, <2>2, <2>3 DEF ClaimMoves
<1> QED BY <1>1, <1>2

\* A change is announced: its members are sent it, the others nothing.
LEMMA AnnouncedChange ==
  ASSUME TypeOK, NEW c \in Claims, StatusChanged(c)
  PROVE  \E st \in Status :
           /\ announced' = [announced EXCEPT ![c] = Append(announced[c], st)]
           /\ outbox' = [s \in Sockets |->
                           IF s \in Members(c)
                           THEN Append(outbox[s], [claim |-> c, status |-> st])
                           ELSE outbox[s]]
           /\ UNCHANGED <<status, home, tokenVars, disruptions, pc, identity, asked, granted,
                          rooms, heard, late, since>>
<1>1. PICK st \in Status :
        announced' = [announced EXCEPT ![c] = Append(announced[c], st)]
  BY SameTable DEF StatusChanged, Lifecycle!Announce
<1>2. announced[c] \in Seq(Status)
  BY DEF TypeOK
<1>3. Last(announced'[c]) = st
  BY <1>1, <1>2 DEF TypeOK, Last
<1>4. /\ UNCHANGED <<status, home, tokenVars, disruptions, pc, identity, asked, granted,
                     rooms, heard, late, since>>
      /\ outbox' = [s \in Sockets |->
                      IF s \in Members(c)
                      THEN Append(outbox[s], [claim |-> c, status |-> Last(announced'[c])])
                      ELSE outbox[s]]
  BY Zenon DEF StatusChanged, Lifecycle!Announce
<1>5. outbox' = [s \in Sockets |->
                  IF s \in Members(c)
                  THEN Append(outbox[s], [claim |-> c, status |-> st])
                  ELSE outbox[s]]
  BY <1>3, <1>4
<1> QED BY <1>1, <1>4, <1>5
-----------------------------------------------------------------------------
(***************************************************************************)
(* The handshake.  A socket that got past the first check has a genuine    *)
(* token, and its identity, once it has one, is the token's; where the     *)
(* token was revoked before the handshake, the second check will find it.  *)
(***************************************************************************)
Presented ==
  \A s \in Sockets :
    /\ pc[s] \in {"exists", "open", "closed"} => Bearer[TokenOf[s]] # NoIdentity
    /\ identity[s] \in {NoIdentity, Bearer[TokenOf[s]]}

LateIsRevoked == \A s \in Sockets : late[s] /\ pc[s] = "exists" => TokenOf[s] \in revoked

HandshakeInv == Presented /\ LateIsRevoked /\ EndedTokenStaysOut

\* Every step preserves the types.
LEMMA NextType == TypeOK /\ Presented /\ [Next]_vars => TypeOK'
<1> SUFFICES ASSUME TypeOK, Presented, [Next]_vars PROVE TypeOK'
  OBVIOUS
<1> USE DEF claimVars, tokenVars, socketVars
<1>a. /\ Bearer \in [Tokens -> Identities \cup {NoIdentity}] /\ TokenOf \in [Sockets -> Tokens]
  BY GatewayAssumption
<1>1. ASSUME NEW s \in Sockets, Connect(s) PROVE TypeOK'
  <2>1. /\ pc[s] = "new" /\ identity[s] = NoIdentity
        /\ \/ pc' = [pc EXCEPT ![s] = "exists"]
           \/ pc' = [pc EXCEPT ![s] = "refused"]
        /\ late' = [late EXCEPT ![s] = TokenOf[s] \in revoked \cup expired]
        /\ UNCHANGED <<claimVars, tokenVars, disruptions, identity, asked, granted, rooms,
                       outbox, heard, since>>
    BY <1>1 DEF Connect, Goto, TypeOK
  <2>2. (TokenOf[s] \in revoked \cup expired) \in BOOLEAN
    OBVIOUS
  <2>3. late' \in [Sockets -> BOOLEAN]
    <3> DEFINE b == TokenOf[s] \in revoked \cup expired
    <3> HIDE DEF b
    <3>1. late' = [late EXCEPT ![s] = b] /\ late \in [Sockets -> BOOLEAN] /\ b \in BOOLEAN
      BY <2>1, <2>2 DEF b, TypeOK
    <3> QED BY <3>1
  <2> QED BY <2>1, <2>3 DEF TypeOK, DisruptionsTypeOK
<1>2. ASSUME NEW s \in Sockets, Exists(s) PROVE TypeOK'
  <2>1. PICK o \in RedisRead :
          LET accepted == Passes(o, TokenOf[s])
          IN  /\ Suffer(o)
              /\ Goto(s, IF accepted THEN "open" ELSE "refused")
              /\ identity' = [identity EXCEPT ![s] = ClientData(s, accepted)]
    BY <1>2 DEF Exists
  <2>2. /\ pc[s] = "exists" /\ Bearer[TokenOf[s]] # NoIdentity
        /\ UNCHANGED <<claimVars, tokenVars, asked, granted, rooms, outbox, heard, late, since>>
    BY <1>2 DEF Exists, Presented
  <2>3. DisruptionsTypeOK'
    BY <2>1, SufferType DEF TypeOK
  <2>4. \/ /\ pc' = [pc EXCEPT ![s] = "open"]
           /\ identity' = [identity EXCEPT ![s] = Bearer[TokenOf[s]]]
        \/ /\ pc' = [pc EXCEPT ![s] = "refused"]
           /\ identity' = [identity EXCEPT ![s] = NoIdentity]
    BY <2>1 DEF Goto, ClientData
  <2> QED BY <1>a, <2>2, <2>3, <2>4 DEF TypeOK
<1>3. ASSUME NEW s \in Sockets, Disconnect(s) PROVE TypeOK'
  BY <1>3 DEF Disconnect, Goto, TypeOK, DisruptionsTypeOK
<1>4. ASSUME NEW s \in Sockets, Deliver(s) PROVE TypeOK'
  <2>1. /\ outbox[s] # <<>> /\ outbox[s] \in Seq(Change) /\ heard[s] \in Seq(Change)
        /\ heard' = [heard EXCEPT ![s] = Append(heard[s], Head(outbox[s]))]
        /\ outbox' = [outbox EXCEPT ![s] = Tail(outbox[s])]
        /\ UNCHANGED <<claimVars, tokenVars, disruptions, pc, identity, asked, granted, rooms,
                       late, since>>
    BY <1>4 DEF Deliver, TypeOK
  <2>2. Append(heard[s], Head(outbox[s])) \in Seq(Change) /\ Tail(outbox[s]) \in Seq(Change)
    BY <2>1
  <2>3. heard' \in [Sockets -> Seq(Change)] /\ outbox' \in [Sockets -> Seq(Change)]
    BY <2>1, <2>2 DEF TypeOK
  <2>4. pc[s] = "open"
    BY <2>1 DEF TypeOK
  <2> QED BY <2>1, <2>3, <2>4 DEF TypeOK, DisruptionsTypeOK
<1>5. ASSUME NEW s \in Sockets, NEW c \in Claims, AskToJoin(s, c) PROVE TypeOK'
  BY <1>5 DEF AskToJoin, TypeOK, DisruptionsTypeOK
<1>6. ASSUME NEW s \in Sockets, NEW c \in Claims, Authorize(s, c) PROVE TypeOK'
  <2>1. PICK o \in DbRead :
          /\ Suffer(o)
          /\ granted' = IF ~Throws(o) /\ OwnClaim(s, c)
                        THEN [granted EXCEPT ![s] = granted[s] \cup {c}] ELSE granted
    BY <1>6 DEF Authorize
  <2>2. DisruptionsTypeOK'
    BY <2>1, SufferType DEF TypeOK
  <2>3. granted' \in [Sockets -> SUBSET Claims]
    BY <2>1 DEF TypeOK
  <2> QED BY <1>6, <2>2, <2>3 DEF Authorize, TypeOK
<1>7. ASSUME NEW s \in Sockets, NEW c \in Claims, Join(s, c) PROVE TypeOK'
  <2>1. /\ granted' = [granted EXCEPT ![s] = granted[s] \ {c}]
        /\ \/ /\ pc[s] = "open"
              /\ rooms' = [rooms EXCEPT ![s] = rooms[s] \cup {c}]
              /\ \/ since' = since
                 \/ since' = [since EXCEPT ![s][c] = Len(announced[c])]
           \/ UNCHANGED <<rooms, since>>
        /\ UNCHANGED <<claimVars, tokenVars, disruptions, pc, identity, asked, outbox, heard, late>>
    BY <1>7 DEF Join
  <2>2. Len(announced[c]) \in Nat
    BY DEF TypeOK
  <2>a. /\ granted \in [Sockets -> SUBSET Claims] /\ rooms \in [Sockets -> SUBSET Claims]
        /\ since \in [Sockets -> [Claims -> Nat]]
    BY DEF TypeOK
  <2>3. since' \in [Sockets -> [Claims -> Nat]]
    <3>1. CASE since' = [since EXCEPT ![s][c] = Len(announced[c])]
      BY <2>a, <2>2, <3>1
    <3> QED BY <2>a, <2>1, <3>1
  <2>4. granted' \in [Sockets -> SUBSET Claims] /\ rooms' \in [Sockets -> SUBSET Claims]
    <3>1. granted[s] \subseteq Claims /\ rooms[s] \subseteq Claims
      BY <2>a
    <3>2. granted[s] \ {c} \in SUBSET Claims /\ rooms[s] \cup {c} \in SUBSET Claims
      BY <3>1
    <3> QED BY <2>a, <2>1, <3>2
  <2>5. \A u \in Sockets : pc[u] # "open" => rooms'[u] = {}
    BY <2>1 DEF TypeOK
  <2> QED BY <2>1, <2>3, <2>4, <2>5 DEF TypeOK, DisruptionsTypeOK
<1>8. ASSUME NEW c \in Claims, StatusChanged(c) PROVE TypeOK'
  <2>1. PICK st \in Status :
          /\ announced' = [announced EXCEPT ![c] = Append(announced[c], st)]
          /\ outbox' = [s \in Sockets |->
                          IF s \in Members(c)
                          THEN Append(outbox[s], [claim |-> c, status |-> st])
                          ELSE outbox[s]]
          /\ UNCHANGED <<status, home, tokenVars, disruptions, pc, identity, asked, granted,
                         rooms, heard, late, since>>
    BY <1>8, AnnouncedChange
  <2>2. announced' \in [Claims -> Seq(Status)]
    <3>1. Append(announced[c], st) \in Seq(Status)
      BY DEF TypeOK
    <3> QED BY <2>1, <3>1 DEF TypeOK
  <2>3. outbox' \in [Sockets -> Seq(Change)]
    <3>1. [claim |-> c, status |-> st] \in Change
      BY DEF Change
    <3>2. \A s \in Sockets : /\ outbox[s] \in Seq(Change)
                             /\ Append(outbox[s], [claim |-> c, status |-> st]) \in Seq(Change)
      BY <3>1 DEF TypeOK
    <3> QED BY <2>1, <3>2
  <2>4. \A s \in Sockets : pc[s] # "open" => outbox'[s] = <<>>
    BY <2>1 DEF TypeOK, Members
  <2> QED BY <2>1, <2>2, <2>3, <2>4 DEF TypeOK, DisruptionsTypeOK
<1>9. ASSUME NEW c \in Claims, ClaimMoves(c) PROVE TypeOK'
  BY <1>9, ClaimMovesType DEF TypeOK, DisruptionsTypeOK
<1>10. ASSUME NEW t \in Tokens, TokenEnds(t) PROVE TypeOK'
  BY <1>10 DEF TokenEnds, TypeOK, DisruptionsTypeOK
<1>11. CASE UNCHANGED vars
  BY <1>11 DEF vars, TypeOK, DisruptionsTypeOK
<1> QED BY <1>1, <1>2, <1>3, <1>4, <1>5, <1>6, <1>7, <1>8, <1>9, <1>10, <1>11 DEF Next

\* Every step preserves what the handshake has established.
LEMMA NextHandshake == TypeOK /\ HandshakeInv /\ [Next]_vars => HandshakeInv'
<1> SUFFICES ASSUME TypeOK, HandshakeInv, [Next]_vars PROVE HandshakeInv'
  OBVIOUS
<1> USE DEF claimVars, tokenVars, socketVars
<1>a. /\ pc \in [Sockets -> {"new", "exists", "open", "refused", "closed"}]
      /\ identity \in [Sockets -> Identities \cup {NoIdentity}]
      /\ late \in [Sockets -> BOOLEAN]
      /\ Presented /\ LateIsRevoked /\ EndedTokenStaysOut
  BY DEF TypeOK, HandshakeInv
<1>b. ASSUME UNCHANGED <<pc, identity, late>>, revoked \subseteq revoked' PROVE HandshakeInv'
  BY <1>a, <1>b DEF HandshakeInv, Presented, LateIsRevoked, EndedTokenStaysOut
<1>1. ASSUME NEW s \in Sockets, Connect(s) PROVE HandshakeInv'
  <2>1. /\ pc[s] = "new" /\ UNCHANGED <<expired, revoked, identity>>
        /\ \/ /\ Genuine(TokenOf[s]) /\ pc' = [pc EXCEPT ![s] = "exists"]
           \/ pc' = [pc EXCEPT ![s] = "refused"]
        /\ \A u \in Sockets : u # s => late'[u] = late[u]
        /\ late'[s] => TokenOf[s] \in revoked \cup expired
    BY <1>1, <1>a DEF Connect, Goto
  <2>2. Presented'
    BY <1>a, <2>1 DEF Presented, Genuine
  <2>3. LateIsRevoked'
    BY <1>a, <2>1 DEF LateIsRevoked, Genuine
  <2>4. EndedTokenStaysOut'
    BY <1>a, <2>1 DEF EndedTokenStaysOut
  <2> QED BY <2>2, <2>3, <2>4 DEF HandshakeInv
<1>2. ASSUME NEW s \in Sockets, Exists(s) PROVE HandshakeInv'
  <2>1. PICK o \in RedisRead :
          LET accepted == Passes(o, TokenOf[s])
          IN  /\ Suffer(o)
              /\ Goto(s, IF accepted THEN "open" ELSE "refused")
              /\ identity' = [identity EXCEPT ![s] = ClientData(s, accepted)]
    BY <1>2 DEF Exists
  <2>2. pc[s] = "exists" /\ UNCHANGED <<revoked, late>>
    BY <1>2 DEF Exists
  <2>3. \/ /\ Passes(o, TokenOf[s]) /\ pc' = [pc EXCEPT ![s] = "open"]
           /\ identity' = [identity EXCEPT ![s] = Bearer[TokenOf[s]]]
        \/ /\ pc' = [pc EXCEPT ![s] = "refused"]
           /\ identity' = [identity EXCEPT ![s] = NoIdentity]
    BY <2>1 DEF Goto, ClientData
  <2>4. Presented'
    BY <1>a, <2>2, <2>3 DEF Presented
  <2>5. LateIsRevoked' /\ EndedTokenStaysOut'
    BY <1>a, <2>2, <2>3 DEF LateIsRevoked, EndedTokenStaysOut, Passes
  <2> QED BY <2>4, <2>5 DEF HandshakeInv
<1>3. ASSUME NEW s \in Sockets, Disconnect(s) PROVE HandshakeInv'
  <2>1. pc[s] = "open" /\ pc' = [pc EXCEPT ![s] = "closed"] /\ UNCHANGED <<revoked, late, identity>>
    BY <1>3 DEF Disconnect, Goto
  <2> QED BY <1>a, <2>1 DEF HandshakeInv, Presented, LateIsRevoked, EndedTokenStaysOut
<1>4. ASSUME NEW s \in Sockets, Deliver(s) PROVE HandshakeInv'
  BY <1>4, <1>b DEF Deliver
<1>5. ASSUME NEW s \in Sockets, NEW c \in Claims, AskToJoin(s, c) PROVE HandshakeInv'
  BY <1>5, <1>b DEF AskToJoin
<1>6. ASSUME NEW s \in Sockets, NEW c \in Claims, Authorize(s, c) PROVE HandshakeInv'
  BY <1>6, <1>b DEF Authorize
<1>7. ASSUME NEW s \in Sockets, NEW c \in Claims, Join(s, c) PROVE HandshakeInv'
  BY <1>7, <1>b DEF Join
<1>8. ASSUME NEW c \in Claims, StatusChanged(c) PROVE HandshakeInv'
  BY <1>8, <1>b DEF StatusChanged
<1>9. ASSUME NEW c \in Claims, ClaimMoves(c) PROVE HandshakeInv'
  BY <1>9, <1>b DEF ClaimMoves
<1>10. ASSUME NEW t \in Tokens, TokenEnds(t) PROVE HandshakeInv'
  BY <1>10, <1>b DEF TokenEnds
<1>11. CASE UNCHANGED vars
  BY <1>11, <1>b DEF vars
<1> QED BY <1>1, <1>2, <1>3, <1>4, <1>5, <1>6, <1>7, <1>8, <1>9, <1>10, <1>11 DEF Next

\* No socket has begun.
LEMMA InitHandshake == Init => TypeOK /\ HandshakeInv
<1> SUFFICES ASSUME Init PROVE TypeOK /\ HandshakeInv
  OBVIOUS
<1>1. status \in [Claims -> Status \cup {ABSENT}] /\ announced \in [Claims -> Seq(Status)]
  BY SameTable DEF Init, Lifecycle!Init, Status
<1>2. DisruptionsTypeOK
  BY DEF Init, NoDisruptions, DisruptionsTypeOK
<1>3. TypeOK
  BY <1>1, <1>2 DEF Init, TypeOK
<1>4. HandshakeInv
  BY DEF Init, HandshakeInv, Presented, LateIsRevoked, EndedTokenStaysOut
<1> QED BY <1>3, <1>4

\* The invariants of the handshake, for the theorems below.
LEMMA Handshake == Spec => [](TypeOK /\ HandshakeInv)
<1>1. Init => TypeOK /\ HandshakeInv
  BY InitHandshake
<1>2. TypeOK /\ HandshakeInv /\ [Next]_vars => TypeOK' /\ HandshakeInv'
  BY NextType, NextHandshake DEF HandshakeInv
<1> QED BY <1>1, <1>2, PTL DEF Spec

\* Every variable stays in its type; a socket has an identity from its
\* admission on, and is in rooms and is sent changes only while it is open.
THEOREM TypeCorrect == Spec => []TypeOK
BY Handshake, PTL

\* A token that was revoked or had expired before the handshake began admits
\* no socket, whatever Redis answers and however the handshakes interleave.
THEOREM EndedTokensStayOut == Spec => []EndedTokenStaysOut
<1>1. HandshakeInv => EndedTokenStaysOut
  BY DEF HandshakeInv
<1> QED BY <1>1, Handshake, PTL
-----------------------------------------------------------------------------
(***************************************************************************)
(* What the sockets are sent, packet by packet.                            *)
(***************************************************************************)
ChangesOf(q, c) == {i \in DOMAIN q : q[i].claim = c}

\* A sequence of packets reports what was announced of a claim after the
\* first k changes, each once and in order.
Reports(q, c, changes, k) ==
  LET n == Len(changes) - k
  IN  \E at \in Surjection(1..n, ChangesOf(q, c)) :
        /\ \A i, j \in 1..n : i < j => at[i] < at[j]
        /\ \A i \in 1..n : q[at[i]].status = changes[k + i]

\* One more packet is about its own claim only.
LEMMA OneMoreChange ==
  ASSUME NEW q \in Seq(Change), NEW x \in Change, NEW c
  PROVE  ChangesOf(Append(q, x), c) =
           IF x.claim = c THEN ChangesOf(q, c) \cup {Len(q) + 1} ELSE ChangesOf(q, c)
<1>1. /\ Len(q) \in Nat /\ DOMAIN q = 1 .. Len(q)
      /\ DOMAIN Append(q, x) = 1 .. Len(q) + 1
      /\ \A i \in 1 .. Len(q) : Append(q, x)[i] = q[i]
      /\ Append(q, x)[Len(q) + 1] = x
  OBVIOUS
<1> QED BY <1>1 DEF ChangesOf

\* A packet of another claim leaves the report as it is.
LEMMA ReportsOther ==
  ASSUME NEW q \in Seq(Change), NEW x \in Change, NEW c, x.claim # c,
         NEW changes, NEW k, Reports(q, c, changes, k)
  PROVE  Reports(Append(q, x), c, changes, k)
<1> DEFINE n == Len(changes) - k
<1>1. PICK at \in Surjection(1..n, ChangesOf(q, c)) :
        /\ \A i, j \in 1..n : i < j => at[i] < at[j]
        /\ \A i \in 1..n : q[at[i]].status = changes[k + i]
  BY DEF Reports
<1>2. ChangesOf(Append(q, x), c) = ChangesOf(q, c)
  BY OneMoreChange
<1>3. \A i \in 1..n : Append(q, x)[at[i]] = q[at[i]]
  <2>1. \A i \in 1..n : at[i] \in DOMAIN q
    BY <1>1 DEF Surjection, ChangesOf
  <2>2. \A i \in DOMAIN q : Append(q, x)[i] = q[i]
    OBVIOUS
  <2> QED BY <2>1, <2>2
<1> QED BY <1>1, <1>2, <1>3 DEF Reports

\* The packet of a new change completes the report.
LEMMA ReportsMore ==
  ASSUME NEW c \in Claims, NEW st \in Status, NEW q \in Seq(Change),
         NEW changes \in Seq(Status), NEW k \in 0 .. Len(changes), Reports(q, c, changes, k)
  PROVE  Reports(Append(q, [claim |-> c, status |-> st]), c, Append(changes, st), k)
<1> DEFINE n == Len(changes) - k
           x == [claim |-> c, status |-> st]
           more == Append(changes, st)
           p == Append(q, x)
           Old == ChangesOf(q, c)
           New == ChangesOf(p, c)
           last == Len(q) + 1
<1>1. PICK at \in Surjection(1..n, Old) :
        /\ \A i, j \in 1..n : i < j => at[i] < at[j]
        /\ \A i \in 1..n : q[at[i]].status = changes[k + i]
  BY DEF Reports
<1>2. /\ Len(changes) \in Nat /\ k \in Nat /\ k <= Len(changes) /\ n \in Nat
      /\ Len(more) = Len(changes) + 1
      /\ more[Len(changes) + 1] = st
      /\ \A i \in 1 .. Len(changes) : more[i] = changes[i]
  OBVIOUS
<1>3. /\ last \in Nat /\ p[last] = x /\ \A i \in DOMAIN q : p[i] = q[i] /\ i < last /\ i \in Nat
      /\ x \in Change /\ x.claim = c
  BY DEF Change
<1>4. Old \subseteq DOMAIN q /\ New = Old \cup {last}
  BY <1>3, OneMoreChange DEF ChangesOf
<1>5. /\ at \in [1..n -> Old] /\ \A y \in Old : \E i \in 1..n : at[i] = y
  BY <1>1 DEF Surjection
<1> HIDE DEF n, more, p, Old, New, last, x
<1> DEFINE to == [i \in 1 .. n + 1 |-> IF i = n + 1 THEN last ELSE at[i]]
<1>6. /\ \A i \in 1..n : i \in 1 .. n + 1 /\ i # n + 1 /\ to[i] = at[i] /\ at[i] \in DOMAIN q
      /\ n + 1 \in 1 .. n + 1 /\ to[n + 1] = last
      /\ \A i \in 1 .. n + 1 : i \in 1..n \/ i = n + 1
  BY <1>2, <1>4, <1>5
<1>7. to \in Surjection(1 .. n + 1, New)
  <2>1. to \in [1 .. n + 1 -> New]
    <3>1. \A i \in 1 .. n + 1 : to[i] \in New
      <4>1. \A i \in 1..n : to[i] \in New
        BY <1>4, <1>5, <1>6
      <4> HIDE DEF to
      <4> QED BY <1>4, <1>6, <4>1
    <3>2. to = [i \in 1 .. n + 1 |-> to[i]]
      OBVIOUS
    <3> HIDE DEF to
    <3> QED BY <3>1, <3>2
  <2>2. \A y \in New : \E i \in 1 .. n + 1 : to[i] = y
    BY <1>4, <1>5, <1>6
  <2> HIDE DEF to
  <2> QED BY <2>1, <2>2 DEF Surjection
<1> HIDE DEF to
<1>8. \A i, j \in 1 .. n + 1 : i < j => to[i] < to[j]
  <2> SUFFICES ASSUME NEW i \in 1 .. n + 1, NEW j \in 1 .. n + 1, i < j PROVE to[i] < to[j]
    OBVIOUS
  <2>1. i \in 1..n
    BY <1>2
  <2>2. CASE j = n + 1
    BY <1>3, <1>6, <2>1, <2>2
  <2>3. CASE j \in 1..n
    BY <1>1, <1>6, <2>1, <2>3
  <2> QED BY <1>6, <2>2, <2>3
<1>9. \A i \in 1 .. n + 1 : p[to[i]].status = more[k + i]
  <2>1. \A i \in 1..n : k + i \in 1 .. Len(changes)
    BY <1>2 DEF n
  <2>2. \A i \in 1..n : p[to[i]].status = more[k + i]
    BY <1>1, <1>2, <1>3, <1>6, <2>1
  <2>3. k + (n + 1) = Len(changes) + 1
    BY <1>2 DEF n
  <2>4. p[to[n + 1]].status = st
    BY <1>3, <1>6 DEF x
  <2> QED BY <1>2, <1>6, <2>2, <2>3, <2>4
<1>10. n + 1 = Len(more) - k
  BY <1>2 DEF n
<1>11. Reports(p, c, more, k)
  BY <1>7, <1>8, <1>9, <1>10 DEF Reports, New
<1> QED BY <1>11 DEF p, x, more

\* At first there is nothing to report.
LEMMA ReportsNothing ==
  ASSUME NEW q, NEW c, ChangesOf(q, c) = {}, NEW changes \in Seq(Status)
  PROVE  Reports(q, c, changes, Len(changes))
<1> DEFINE at == [i \in {} |-> 0]
<1>1. 1 .. Len(changes) - Len(changes) = {}
  OBVIOUS
<1>2. at \in Surjection({}, {})
  BY DEF Surjection
<1> QED BY <1>1, <1>2 DEF Reports
-----------------------------------------------------------------------------
\* They are changes, and those of a claim are found among them.
LEMMA PacketsAre ==
  ASSUME TypeOK, NEW s \in Sockets
  PROVE  /\ Packets(s) \in Seq(Change)
         /\ \A c : SentAt(s, c) = ChangesOf(Packets(s), c)
<1>1. heard[s] \in Seq(Change) /\ outbox[s] \in Seq(Change)
  BY DEF TypeOK
<1> QED BY <1>1, ConcatType DEF Packets, SentAt, ChangesOf

\* Where nothing is sent and nothing arrives they stay as they are.
LEMMA PacketsStay ==
  ASSUME UNCHANGED <<heard, outbox>>, NEW s
  PROVE  Packets(s)' = Packets(s) /\ \A c : SentAt(s, c)' = SentAt(s, c)
BY DEF Packets, SentAt

\* A packet that arrives was sent before.
LEMMA DeliverSendsNothing ==
  ASSUME TypeOK, NEW s \in Sockets, Deliver(s), NEW u \in Sockets
  PROVE  Packets(u)' = Packets(u) /\ \A c : SentAt(u, c)' = SentAt(u, c)
<1>1. /\ outbox[s] # <<>>
      /\ heard' = [heard EXCEPT ![s] = Append(heard[s], Head(outbox[s]))]
      /\ outbox' = [outbox EXCEPT ![s] = Tail(outbox[s])]
      /\ heard \in [Sockets -> Seq(Change)] /\ outbox \in [Sockets -> Seq(Change)]
  BY DEF Deliver, TypeOK
<1>2. Packets(u)' = Packets(u)
  <2>1. CASE u = s
    <3>1. heard'[u] = Append(heard[u], Head(outbox[u])) /\ outbox'[u] = Tail(outbox[u])
      BY <1>1, <2>1
    <3>2. heard'[u] \o outbox'[u] = heard[u] \o outbox[u]
      BY <1>1, <2>1, <3>1, HeadMoves
    <3> QED BY <3>2 DEF Packets
  <2>2. CASE u # s
    <3>1. heard'[u] = heard[u] /\ outbox'[u] = outbox[u]
      BY <1>1, <2>2
    <3> QED BY <3>1 DEF Packets
  <2> QED BY <2>1, <2>2
<1> QED BY <1>2 DEF SentAt

\* What is under way to a socket that is closed is lost.
LEMMA DisconnectLoses ==
  ASSUME TypeOK, NEW s \in Sockets, Disconnect(s), NEW u \in Sockets
  PROVE  /\ u # s => Packets(u)' = Packets(u)
         /\ \A c : SentAt(u, c)' \subseteq SentAt(u, c)
<1>1. /\ heard' = heard /\ outbox' = [outbox EXCEPT ![s] = <<>>]
      /\ heard \in [Sockets -> Seq(Change)] /\ outbox \in [Sockets -> Seq(Change)]
  BY DEF Disconnect, TypeOK
<1>2. u # s => Packets(u)' = Packets(u)
  BY <1>1 DEF Packets
<1>3. ASSUME u = s, NEW c PROVE SentAt(u, c)' \subseteq SentAt(u, c)
  <2>1. outbox'[u] = <<>> /\ heard'[u] = heard[u]
    BY <1>1, <1>3
  <2>2. Packets(u)' = heard[u]
    BY <1>1, <2>1, ConcatType DEF Packets
  <2>3. Packets(u) = heard[u] \o outbox[u]
    BY DEF Packets
  <2>4. \A i \in DOMAIN heard[u] : i \in DOMAIN Packets(u) /\ Packets(u)[i] = heard[u][i]
    BY <1>1, <2>3
  <2> QED BY <2>2, <2>4 DEF SentAt
<1> QED BY <1>2, <1>3 DEF SentAt

\* An announced change is one more packet for the members of the room.
LEMMA AnnouncementSent ==
  ASSUME TypeOK, NEW c \in Claims, StatusChanged(c)
  PROVE  \E st \in Status :
           /\ announced' = [announced EXCEPT ![c] = Append(announced[c], st)]
           /\ \A s \in Sockets :
                Packets(s)' = IF s \in Members(c)
                              THEN Append(Packets(s), [claim |-> c, status |-> st])
                              ELSE Packets(s)
<1>1. PICK st \in Status :
        /\ announced' = [announced EXCEPT ![c] = Append(announced[c], st)]
        /\ outbox' = [s \in Sockets |->
                        IF s \in Members(c)
                        THEN Append(outbox[s], [claim |-> c, status |-> st])
                        ELSE outbox[s]]
        /\ heard' = heard
  BY AnnouncedChange
<1>2. [claim |-> c, status |-> st] \in Change
  BY DEF Change
<1>3. ASSUME NEW s \in Sockets
      PROVE  Packets(s)' = IF s \in Members(c)
                           THEN Append(Packets(s), [claim |-> c, status |-> st])
                           ELSE Packets(s)
  <2>1. heard[s] \in Seq(Change) /\ outbox[s] \in Seq(Change)
    BY DEF TypeOK
  <2>2. heard[s] \o Append(outbox[s], [claim |-> c, status |-> st])
          = Append(heard[s] \o outbox[s], [claim |-> c, status |-> st])
    <3>1. \A x \in Change : heard[s] \o Append(outbox[s], x) = Append(heard[s] \o outbox[s], x)
      <4> DEFINE h == heard[s]
                 o == outbox[s]
      <4>1. h \in Seq(Change) /\ o \in Seq(Change)
        BY <2>1
      <4> HIDE DEF h, o
      <4>2. \A x \in Change : h \o Append(o, x) = Append(h \o o, x)
        BY <4>1, AppendMoves
      <4> QED BY <4>2 DEF h, o
    <3> QED BY <1>2, <3>1, Zenon
  <2> QED BY <1>1, <2>2 DEF Packets
<1> QED BY <1>1, <1>3
-----------------------------------------------------------------------------
(***************************************************************************)
(* A socket is in, and was sent the changes of, no room that it was not    *)
(* granted; what it was granted its token's owner has.                     *)
(***************************************************************************)
Entitled(s, c) == OwnerOf[c] = Bearer[TokenOf[s]]
OwnersInv ==
  \A s \in Sockets, c \in Claims :
    c \in granted[s] \cup rooms[s] \/ SentAt(s, c) # {} => Entitled(s, c)

\* Every step preserves it.
LEMMA NextOwners == TypeOK /\ Presented /\ OwnersInv /\ [Next]_vars => OwnersInv'
<1> SUFFICES ASSUME TypeOK, Presented, OwnersInv, [Next]_vars,
                    NEW s \in Sockets, NEW c \in Claims,
                    c \in granted'[s] \cup rooms'[s] \/ SentAt(s, c)' # {}
             PROVE  Entitled(s, c)
  BY DEF OwnersInv, Entitled
<1> USE DEF claimVars, tokenVars, socketVars
<1>a. /\ granted \in [Sockets -> SUBSET Claims] /\ rooms \in [Sockets -> SUBSET Claims]
      /\ identity[s] # NoIdentity => identity[s] = Bearer[TokenOf[s]]
      /\ OwnerOf[c] # NoIdentity
  BY GatewayAssumption DEF TypeOK, Presented
<1>b. ASSUME c \in granted[s] \cup rooms[s] \/ SentAt(s, c) # {} PROVE Entitled(s, c)
  BY <1>b DEF OwnersInv
<1>c. ASSUME UNCHANGED <<granted, rooms, heard, outbox>> PROVE Entitled(s, c)
  BY <1>b, <1>c, PacketsStay
<1>1. ASSUME NEW u \in Sockets, Connect(u) \/ Exists(u) PROVE Entitled(s, c)
  BY <1>c, <1>1 DEF Connect, Exists
<1>2. ASSUME NEW u \in Sockets, Disconnect(u) PROVE Entitled(s, c)
  <2>1. SentAt(s, c)' \subseteq SentAt(s, c)
    BY <1>2, DisconnectLoses
  <2>2. granted'[s] = granted[s] /\ rooms'[s] \subseteq rooms[s]
    BY <1>a, <1>2 DEF Disconnect
  <2> QED BY <1>b, <2>1, <2>2
<1>3. ASSUME NEW u \in Sockets, Deliver(u) PROVE Entitled(s, c)
  <2>1. SentAt(s, c)' = SentAt(s, c) /\ UNCHANGED <<granted, rooms>>
    BY <1>3, DeliverSendsNothing DEF Deliver
  <2> QED BY <1>b, <2>1
<1>4. ASSUME NEW u \in Sockets, NEW d \in Claims, AskToJoin(u, d) PROVE Entitled(s, c)
  BY <1>c, <1>4 DEF AskToJoin
<1>5. ASSUME NEW u \in Sockets, NEW d \in Claims, Authorize(u, d) PROVE Entitled(s, c)
  <2>1. /\ UNCHANGED <<rooms, heard, outbox>>
        /\ \/ granted' = granted
           \/ granted' = [granted EXCEPT ![u] = granted[u] \cup {d}] /\ OwnClaim(u, d)
    BY <1>5 DEF Authorize
  <2>2. CASE s = u /\ c = d /\ OwnClaim(u, d)
    BY <1>a, <2>2 DEF OwnClaim, Entitled
  <2>3. CASE ~(s = u /\ c = d /\ OwnClaim(u, d))
    <3>1. c \in granted'[s] => c \in granted[s]
      BY <1>a, <2>1, <2>3
    <3> QED BY <1>b, <2>1, <3>1, PacketsStay
  <2> QED BY <2>2, <2>3
<1>6. ASSUME NEW u \in Sockets, NEW d \in Claims, Join(u, d) PROVE Entitled(s, c)
  <2>1. /\ d \in granted[u] /\ UNCHANGED <<heard, outbox>>
        /\ granted' = [granted EXCEPT ![u] = granted[u] \ {d}]
        /\ rooms' = [rooms EXCEPT ![u] = rooms[u] \cup {d}] \/ rooms' = rooms
    BY <1>6 DEF Join
  <2>2. granted'[s] \cup rooms'[s] \subseteq granted[s] \cup rooms[s]
    BY <1>a, <2>1
  <2> QED BY <1>b, <2>1, <2>2, PacketsStay
<1>7. ASSUME NEW d \in Claims, StatusChanged(d) PROVE Entitled(s, c)
  <2>1. PICK st \in Status :
          Packets(s)' = IF s \in Members(d)
                        THEN Append(Packets(s), [claim |-> d, status |-> st])
                        ELSE Packets(s)
    BY <1>7, AnnouncementSent
  <2>2. UNCHANGED <<granted, rooms>>
    BY <1>7 DEF StatusChanged
  <2>3. CASE s \in Members(d) /\ c = d
    BY <1>b, <2>3 DEF Members
  <2>4. CASE ~(s \in Members(d) /\ c = d)
    <3>1. SentAt(s, c)' = SentAt(s, c)
      <4>1. CASE s \in Members(d)
        <5>1. /\ ChangesOf(Packets(s), c) = SentAt(s, c) /\ Packets(s) \in Seq(Change)
              /\ SentAt(s, c)' = ChangesOf(Packets(s)', c)
          BY PacketsAre DEF SentAt, ChangesOf
        <5>2. \A x \in Change : x.claim # c =>
                ChangesOf(Append(Packets(s), x), c) = ChangesOf(Packets(s), c)
          BY <5>1, OneMoreChange
        <5>3. [claim |-> d, status |-> st] \in Change /\ [claim |-> d, status |-> st].claim = d
          BY DEF Change
        <5> QED BY <2>1, <2>4, <4>1, <5>1, <5>2, <5>3
      <4> QED BY <2>1, <4>1 DEF SentAt
    <3> QED BY <1>b, <2>2, <3>1
  <2> QED BY <2>3, <2>4
<1>8. ASSUME NEW d \in Claims, ClaimMoves(d) PROVE Entitled(s, c)
  BY <1>c, <1>8 DEF ClaimMoves
<1>9. ASSUME NEW t \in Tokens, TokenEnds(t) PROVE Entitled(s, c)
  BY <1>c, <1>9 DEF TokenEnds
<1>10. CASE UNCHANGED vars
  BY <1>c, <1>10 DEF vars
<1> QED BY <1>1, <1>2, <1>3, <1>4, <1>5, <1>6, <1>7, <1>8, <1>9, <1>10 DEF Next

\* A socket is sent changes only of claims its token's owner has, whenever it
\* asked for them and whatever became of the claim or of the token since.
THEOREM OnlyOwnersAreTold == Spec => []OnlyOwnersHear
<1>1. Init => OwnersInv
  BY ConcatType DEF Init, OwnersInv, SentAt, Packets
<1>2. TypeOK /\ HandshakeInv /\ OwnersInv /\ [Next]_vars => OwnersInv'
  BY NextOwners DEF HandshakeInv
<1>3. OwnersInv => OnlyOwnersHear
  BY DEF OwnersInv, OnlyOwnersHear, Entitled
<1> QED BY <1>1, <1>2, <1>3, Handshake, PTL DEF Spec
-----------------------------------------------------------------------------
(***************************************************************************)
(* The rooms.  A socket that is not in a room was sent nothing about it,   *)
(* unless it is closed, and then it never joins again: one that joins will *)
(* have been sent exactly what is announced from then on.                  *)
(***************************************************************************)
JoinedAt(s, c) == since[s][c] <= Len(announced[c])
NothingOutside(s, c) == c \notin rooms[s] /\ pc[s] # "closed" => SentAt(s, c) = {}
Reported(s, c) == c \in rooms[s] /\ ProcessOf[s] = home[c] =>
                    Reports(Packets(s), c, announced[c], since[s][c])
RoomInv ==
  \A s \in Sockets, c \in Claims : JoinedAt(s, c) /\ NothingOutside(s, c) /\ Reported(s, c)

\* A room is joined: there is nothing to report yet.
LEMMA JoinRoom ==
  ASSUME TypeOK, RoomInv, NEW u \in Sockets, NEW d \in Claims, Join(u, d),
         NEW s \in Sockets, NEW c \in Claims
  PROVE  JoinedAt(s, c)' /\ NothingOutside(s, c)' /\ Reported(s, c)'
<1>1. /\ UNCHANGED <<status, announced, home, pc, heard, outbox>>
      /\ announced[c] \in Seq(Status) /\ Len(announced[c]) \in Nat
      /\ rooms \in [Sockets -> SUBSET Claims] /\ since \in [Sockets -> [Claims -> Nat]]
      /\ JoinedAt(s, c) /\ NothingOutside(s, c) /\ Reported(s, c)
  BY DEF Join, TypeOK, RoomInv, claimVars
<1>2. Packets(s)' = Packets(s) /\ SentAt(s, c)' = SentAt(s, c)
  BY <1>1, PacketsStay
<1>3. CASE s = u /\ c = d /\ pc[u] = "open" /\ d \notin rooms[u]
  <2>1. c \in rooms'[s] /\ since'[s][c] = Len(announced[c])
    BY <1>1, <1>3 DEF Join
  <2>2. ChangesOf(Packets(s), c) = {}
    BY <1>1, <1>3, PacketsAre DEF NothingOutside
  <2>3. Reports(Packets(s), c, announced[c], Len(announced[c]))
    BY <1>1, <2>2, ReportsNothing
  <2> QED BY <1>1, <1>2, <2>1, <2>3 DEF JoinedAt, NothingOutside, Reported
<1>4. CASE ~(s = u /\ c = d /\ pc[u] = "open" /\ d \notin rooms[u])
  <2>1. /\ since'[s][c] = since[s][c]
        /\ c \in rooms'[s] <=> c \in rooms[s]
    <3>1. CASE pc[u] = "open"
      BY <1>1, <1>4, <3>1 DEF Join
    <3>2. CASE pc[u] # "open"
      BY <3>2 DEF Join
    <3> QED BY <3>1, <3>2
  <2> QED BY <1>1, <1>2, <2>1 DEF JoinedAt, NothingOutside, Reported
<1> QED BY <1>3, <1>4

\* A change is announced, and reported to the members of its room.
LEMMA AnnounceToRoom ==
  ASSUME TypeOK, RoomInv, NEW d \in Claims, StatusChanged(d),
         NEW s \in Sockets, NEW c \in Claims
  PROVE  JoinedAt(s, c)' /\ NothingOutside(s, c)' /\ Reported(s, c)'
<1>1. /\ UNCHANGED <<home, pc, rooms, since>>
      /\ announced \in [Claims -> Seq(Status)] /\ since[s][c] \in Nat
      /\ JoinedAt(s, c) /\ NothingOutside(s, c) /\ Reported(s, c)
  BY DEF StatusChanged, TypeOK, RoomInv
<1>2. PICK st \in Status :
        /\ announced' = [announced EXCEPT ![d] = Append(announced[d], st)]
        /\ Packets(s)' = IF s \in Members(d)
                         THEN Append(Packets(s), [claim |-> d, status |-> st])
                         ELSE Packets(s)
  BY AnnouncementSent
<1>3. PICK x \in Change : x = [claim |-> d, status |-> st]
  BY DEF Change
<1>4. /\ x.claim = d /\ Packets(s) \in Seq(Change)
      /\ SentAt(s, c) = ChangesOf(Packets(s), c)
      /\ SentAt(s, c)' = ChangesOf(Packets(s)', c)
  BY <1>3, PacketsAre DEF SentAt, ChangesOf
<1>5. JoinedAt(s, c)'
  <2>1. /\ Len(announced[c]) \in Nat /\ Len(announced'[c]) \in Nat
        /\ Len(announced[c]) <= Len(announced'[c])
    <3>1. CASE c = d
      <4>1. announced'[c] = Append(announced[c], st) /\ announced[c] \in Seq(Status)
        BY <1>1, <1>2, <3>1
      <4> QED BY <4>1
    <3>2. CASE c # d
      <4>1. announced'[c] = announced[c] /\ announced[c] \in Seq(Status)
        BY <1>1, <1>2, <3>2
      <4> QED BY <4>1
    <3> QED BY <3>1, <3>2
  <2> QED BY <1>1, <2>1 DEF JoinedAt
<1>6. NothingOutside(s, c)'
  <2>1. CASE c \notin rooms[s]
    <3>1. SentAt(s, c)' = SentAt(s, c)
      <4>1. CASE s \in Members(d)
        <5>1. c # d
          BY <2>1, <4>1 DEF Members
        <5>2. ChangesOf(Append(Packets(s), x), c) = ChangesOf(Packets(s), c)
          BY <1>4, <5>1, OneMoreChange
        <5> QED BY <1>2, <1>3, <1>4, <4>1, <5>2
      <4> QED BY <1>2, <1>4, <4>1
    <3> QED BY <1>1, <3>1 DEF NothingOutside
  <2> QED BY <1>1, <2>1 DEF NothingOutside
<1>7. Reported(s, c)'
  <2> SUFFICES ASSUME c \in rooms[s], ProcessOf[s] = home[c]
               PROVE  Reports(Packets(s)', c, announced'[c], since[s][c])
    BY <1>1 DEF Reported
  <2>1. Reports(Packets(s), c, announced[c], since[s][c])
    BY <1>1 DEF Reported
  <2>2. CASE c = d
    <3>1. /\ s \in Members(d) /\ announced'[c] = Append(announced[c], st)
          /\ announced[c] \in Seq(Status)
      BY <1>1, <1>2, <2>2 DEF Members
    <3>2. since[s][c] \in 0 .. Len(announced[c])
      BY <1>1, <3>1 DEF JoinedAt
    <3>3. Reports(Append(Packets(s), [claim |-> c, status |-> st]), c,
                  Append(announced[c], st), since[s][c])
      BY <1>4, <2>1, <3>1, <3>2, ReportsMore
    <3> QED BY <1>2, <2>2, <3>1, <3>3
  <2>3. CASE c # d
    <3>1. announced'[c] = announced[c]
      BY <1>1, <1>2, <2>3
    <3>2. Reports(Append(Packets(s), x), c, announced[c], since[s][c])
      BY <1>4, <2>1, <2>3, ReportsOther
    <3> QED BY <1>2, <1>3, <2>1, <3>1, <3>2
  <2> QED BY <2>2, <2>3
<1> QED BY <1>5, <1>6, <1>7

\* Every step preserves it.
LEMMA NextRoom == TypeOK /\ RoomInv /\ [Next]_vars => RoomInv'
<1> SUFFICES ASSUME TypeOK, RoomInv, [Next]_vars, NEW s \in Sockets, NEW c \in Claims
             PROVE  JoinedAt(s, c)' /\ NothingOutside(s, c)' /\ Reported(s, c)'
  BY DEF RoomInv
<1> USE DEF claimVars, tokenVars, socketVars
<1>a. /\ JoinedAt(s, c) /\ NothingOutside(s, c) /\ Reported(s, c)
      /\ pc \in [Sockets -> {"new", "exists", "open", "refused", "closed"}]
      /\ rooms \in [Sockets -> SUBSET Claims]
  BY DEF RoomInv, TypeOK
<1>b. ASSUME UNCHANGED <<since, announced, home>>, rooms'[s] = rooms[s], Packets(s)' = Packets(s),
             SentAt(s, c)' = SentAt(s, c), pc'[s] # "closed" => pc[s] # "closed"
      PROVE  JoinedAt(s, c)' /\ NothingOutside(s, c)' /\ Reported(s, c)'
  BY <1>a, <1>b DEF JoinedAt, NothingOutside, Reported
<1>c. ASSUME UNCHANGED <<since, announced, home, rooms, heard, outbox>>,
             pc'[s] # "closed" => pc[s] # "closed"
      PROVE  JoinedAt(s, c)' /\ NothingOutside(s, c)' /\ Reported(s, c)'
  BY <1>b, <1>c, PacketsStay
<1>1. ASSUME NEW u \in Sockets, Connect(u) \/ Exists(u)
      PROVE  JoinedAt(s, c)' /\ NothingOutside(s, c)' /\ Reported(s, c)'
  <2>1. pc'[s] # "closed" => pc[s] # "closed"
    BY <1>a, <1>1 DEF Connect, Exists, Goto
  <2> QED BY <1>c, <1>1, <2>1 DEF Connect, Exists
<1>2. ASSUME NEW u \in Sockets, Disconnect(u)
      PROVE  JoinedAt(s, c)' /\ NothingOutside(s, c)' /\ Reported(s, c)'
  <2>1. UNCHANGED <<since, announced, home>>
    BY <1>2 DEF Disconnect
  <2>2. CASE s = u
    <3>1. pc'[s] = "closed" /\ rooms'[s] = {}
      BY <1>a, <1>2, <2>2 DEF Disconnect, Goto
    <3> QED BY <1>a, <2>1, <3>1 DEF JoinedAt, NothingOutside, Reported
  <2>3. CASE s # u
    <3>1. Packets(s)' = Packets(s)
      BY <1>2, <2>3, DisconnectLoses
    <3>2. SentAt(s, c)' = SentAt(s, c)
      BY <3>1 DEF SentAt
    <3>3. rooms'[s] = rooms[s] /\ pc'[s] = pc[s]
      BY <1>a, <1>2, <2>3 DEF Disconnect, Goto
    <3> QED BY <1>b, <2>1, <3>1, <3>2, <3>3
  <2> QED BY <2>2, <2>3
<1>3. ASSUME NEW u \in Sockets, Deliver(u)
      PROVE  JoinedAt(s, c)' /\ NothingOutside(s, c)' /\ Reported(s, c)'
  BY <1>b, <1>3, DeliverSendsNothing DEF Deliver
<1>4. ASSUME NEW u \in Sockets, NEW d \in Claims, AskToJoin(u, d) \/ Authorize(u, d)
      PROVE  JoinedAt(s, c)' /\ NothingOutside(s, c)' /\ Reported(s, c)'
  BY <1>c, <1>4 DEF AskToJoin, Authorize
<1>5. ASSUME NEW u \in Sockets, NEW d \in Claims, Join(u, d)
      PROVE  JoinedAt(s, c)' /\ NothingOutside(s, c)' /\ Reported(s, c)'
  BY <1>5, JoinRoom
<1>6. ASSUME NEW d \in Claims, StatusChanged(d)
      PROVE  JoinedAt(s, c)' /\ NothingOutside(s, c)' /\ Reported(s, c)'
  BY <1>6, AnnounceToRoom
<1>7. ASSUME NEW d \in Claims, ClaimMoves(d)
      PROVE  JoinedAt(s, c)' /\ NothingOutside(s, c)' /\ Reported(s, c)'
  BY <1>c, <1>7, ClaimMovesType
<1>8. ASSUME NEW t \in Tokens, TokenEnds(t)
      PROVE  JoinedAt(s, c)' /\ NothingOutside(s, c)' /\ Reported(s, c)'
  BY <1>c, <1>8 DEF TokenEnds
<1>9. CASE UNCHANGED vars
  BY <1>c, <1>9 DEF vars
<1> QED BY <1>1, <1>2, <1>3, <1>4, <1>5, <1>6, <1>7, <1>8, <1>9 DEF Next

\* While it is in the room, a socket on the process that works on the claim is
\* sent everything that is announced after it joined, once and in order.
THEOREM RoomsMissNothing == Spec => []RoomMissesNothing
<1>1. Init => RoomInv
  <2> SUFFICES ASSUME Init, NEW s \in Sockets, NEW c \in Claims
               PROVE  JoinedAt(s, c) /\ NothingOutside(s, c) /\ Reported(s, c)
    BY DEF RoomInv
  <2>1. /\ announced[c] = <<>> /\ since[s][c] = 0 /\ rooms[s] = {}
        /\ heard[s] = <<>> /\ outbox[s] = <<>>
    BY DEF Init, Lifecycle!Init
  <2>2. SentAt(s, c) = {}
    BY <2>1 DEF SentAt, Packets
  <2> QED BY <2>1, <2>2 DEF JoinedAt, NothingOutside, Reported
<1>2. TypeOK /\ RoomInv /\ [Next]_vars => RoomInv'
  BY NextRoom
<1>3. TypeOK /\ RoomInv => RoomMissesNothing
  <2> SUFFICES ASSUME TypeOK, RoomInv, NEW s \in Sockets, NEW c \in Claims,
                      c \in rooms[s], ProcessOf[s] = home[c]
               PROVE  LET n == Len(announced[c]) - since[s][c]
                      IN  \E at \in Surjection(1..n, SentAt(s, c)) :
                            /\ \A i, j \in 1..n : i < j => at[i] < at[j]
                            /\ \A i \in 1..n :
                                 Packets(s)[at[i]].status = announced[c][since[s][c] + i]
    BY DEF RoomMissesNothing
  <2>1. Reports(Packets(s), c, announced[c], since[s][c])
    BY DEF RoomInv, Reported
  <2>2. SentAt(s, c) = ChangesOf(Packets(s), c)
    BY PacketsAre
  <2> QED BY <2>1, <2>2 DEF Reports
<1> QED BY <1>1, <1>2, <1>3, TypeCorrect, PTL DEF Spec
=============================================================================
