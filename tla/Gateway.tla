------------------------------- MODULE Gateway -------------------------------
(***************************************************************************)
(* ClaimGateway: the Socket.IO server of every process.  A socket is       *)
(* admitted by its access token, joins the rooms of claims its identity    *)
(* owns, and is sent the status changes that the worker of its own process *)
(* announces.  What happens to the claims themselves is ClaimLifecycle,    *)
(* which FraudWorker implements.                                           *)
(*                                                                         *)
(* An action is the code from one await to the next; the answer of         *)
(* getClaim arrives, and the room is joined, later than the query ran.     *)
(***************************************************************************)
EXTENDS Sequences, SequencesExt, Disruptions, ClaimStatus

CONSTANTS
  Claims, Identities, NoIdentity,
  OwnerOf,     \* identityId of each claim
  Tokens,
  Bearer,      \* the sub of a token; NoIdentity if the token is not genuine
  Sockets,
  TokenOf,     \* token each socket connects with
  Processes,
  ProcessOf    \* process each socket is connected to

ASSUME GatewayAssumption ==
  /\ NoIdentity \notin Identities
  /\ OwnerOf \in [Claims -> Identities]
  /\ Bearer \in [Tokens -> Identities \cup {NoIdentity}]
  /\ TokenOf \in [Sockets -> Tokens]
  /\ ProcessOf \in [Sockets -> Processes]

VARIABLES
  status, announced,   \* as in ClaimLifecycle
  home,        \* the process whose worker owns a claim, and announces it
  expired,     \* tokens whose exp has come
  revoked,     \* tokens that have an auth:revoked-access-token:<jti> key
  pc,          \* of each socket
  identity,    \* client.data.identityId
  asked,       \* rooms whose getClaim runs
  granted,     \* rooms whose getClaim has found the claim
  rooms,       \* rooms the socket is in
  outbox,      \* what the server has sent to the socket, and not arrived yet
  heard,       \* what the client has received
  late,        \* history: the token was of no use when the handshake began
  since        \* history: how many changes were announced before the join

claimVars == <<status, announced, home>>
tokenVars == <<expired, revoked>>
socketVars == <<pc, identity, asked, granted, rooms, outbox, heard, late, since>>
vars == <<claimVars, tokenVars, socketVars, disruptions>>

Change == [claim : Claims, status : Status]

\* Every variable stays in its type; a socket has an identity from its
\* admission on, and is in rooms and is sent changes only while it is open.
TypeOK ==
  /\ status \in [Claims -> Status \cup {ABSENT}]
  /\ announced \in [Claims -> Seq(Status)]
  /\ home \in [Claims -> Processes]
  /\ expired \subseteq Tokens /\ revoked \subseteq Tokens
  /\ pc \in [Sockets -> {"new", "exists", "open", "refused", "closed"}]
  /\ identity \in [Sockets -> Identities \cup {NoIdentity}]
  /\ \A held \in {asked, granted, rooms} : held \in [Sockets -> SUBSET Claims]
  /\ outbox \in [Sockets -> Seq(Change)] /\ heard \in [Sockets -> Seq(Change)]
  /\ late \in [Sockets -> BOOLEAN]
  /\ since \in [Sockets -> [Claims -> Nat]]
  /\ DisruptionsTypeOK
  /\ \A s \in Sockets : /\ identity[s] # NoIdentity <=> pc[s] \in {"open", "closed"}
                        /\ pc[s] # "open" => rooms[s] = {} /\ outbox[s] = <<>>

Lifecycle == INSTANCE ClaimLifecycle

Init ==
  /\ Lifecycle!Init
  /\ home \in [Claims -> Processes]
  /\ expired = {} /\ revoked = {}
  /\ pc = [s \in Sockets |-> "new"]
  /\ identity = [s \in Sockets |-> NoIdentity]
  /\ asked = [s \in Sockets |-> {}]
  /\ granted = [s \in Sockets |-> {}]
  /\ rooms = [s \in Sockets |-> {}]
  /\ outbox = [s \in Sockets |-> <<>>]
  /\ heard = [s \in Sockets |-> <<>>]
  /\ late = [s \in Sockets |-> FALSE]
  /\ since = [s \in Sockets |-> [c \in Claims |-> 0]]
  /\ disruptions = NoDisruptions

Goto(s, p) == pc' = [pc EXCEPT ![s] = p]
-----------------------------------------------------------------------------
\* The handshake.

\* extractToken and verifyToken up to the await: signature, claims, expiry.
Genuine(t) == Bearer[t] # NoIdentity /\ t \notin expired

Connect(s) ==
  /\ pc[s] = "new"
  /\ Goto(s, IF Genuine(TokenOf[s]) THEN "exists" ELSE "refused")
  /\ late' = [late EXCEPT ![s] = TokenOf[s] \in revoked \cup expired]
  /\ UNCHANGED <<claimVars, tokenVars, disruptions, identity, asked, granted, rooms,
                 outbox, heard, since>>

\* Seeded fault: a failed look-up counts as "not revoked".
PassesUnlessFound(o, t) == Throws(o) \/ t \notin revoked
\* isRevoked answers, and answers no.
Passes(o, t) == ~Throws(o) /\ t \notin revoked

\* Seeded fault: client.data is filled in before the token is verified.
EagerData(s, accepted) == Bearer[TokenOf[s]]
\* client.data.identityId after the middleware.
ClientData(s, accepted) == IF accepted THEN Bearer[TokenOf[s]] ELSE NoIdentity

\* isRevoked: EXISTS; then next() and handleConnection, or next(error).
Exists(s) ==
  /\ pc[s] = "exists"
  /\ \E o \in RedisRead :
       /\ Suffer(o)
       /\ LET accepted == Passes(o, TokenOf[s])
          IN  /\ Goto(s, IF accepted THEN "open" ELSE "refused")
              /\ identity' = [identity EXCEPT ![s] = ClientData(s, accepted)]
  /\ UNCHANGED <<claimVars, tokenVars, asked, granted, rooms, outbox, heard, late, since>>

\* The socket is closed, by either side: it leaves its rooms, and what is
\* under way to it is lost.
Disconnect(s) ==
  /\ pc[s] = "open"
  /\ Goto(s, "closed")
  /\ rooms' = [rooms EXCEPT ![s] = {}]
  /\ outbox' = [outbox EXCEPT ![s] = <<>>]
  /\ UNCHANGED <<claimVars, tokenVars, disruptions, identity, asked, granted, heard,
                 late, since>>
-----------------------------------------------------------------------------
\* join-claim-room.

\* The message arrives, and getClaim is called.  A room may be asked for again
\* when it has been joined; of two requests that overlap one is enough.
AskToJoin(s, c) ==
  /\ pc[s] = "open"
  /\ c \notin asked[s] \cup granted[s]
  /\ asked' = [asked EXCEPT ![s] = @ \cup {c}]
  /\ UNCHANGED <<claimVars, tokenVars, disruptions, pc, identity, granted, rooms, outbox,
                 heard, late, since>>

\* Seeded fault: getClaimInternal is called for getClaim.
AnyClaim(s, c) == status[c] # ABSENT
\* The where clause of getClaim.
OwnClaim(s, c) == status[c] # ABSENT /\ OwnerOf[c] = identity[s]

\* getClaim: findFirst.  Without a row, or with an exception, "Unauthorized".
Authorize(s, c) ==
  /\ c \in asked[s]
  /\ asked' = [asked EXCEPT ![s] = @ \ {c}]
  /\ \E o \in DbRead :
       /\ Suffer(o)
       /\ granted' = IF ~Throws(o) /\ OwnClaim(s, c)
                     THEN [granted EXCEPT ![s] = @ \cup {c}] ELSE granted
  /\ UNCHANGED <<claimVars, tokenVars, pc, identity, rooms, outbox, heard, late, since>>

\* client.join, which does nothing on a socket that was closed meanwhile, nor
\* to the room of one that is in it.
Join(s, c) ==
  /\ c \in granted[s]
  /\ granted' = [granted EXCEPT ![s] = @ \ {c}]
  /\ IF pc[s] = "open"
     THEN /\ rooms' = [rooms EXCEPT ![s] = @ \cup {c}]
          /\ since' = IF c \in rooms[s] THEN since
                      ELSE [since EXCEPT ![s][c] = Len(announced[c])]
     ELSE UNCHANGED <<rooms, since>>
  /\ UNCHANGED <<claimVars, tokenVars, disruptions, pc, identity, asked, outbox, heard, late>>
-----------------------------------------------------------------------------
\* Seeded fault: the emission is volatile.
IdleMembers(c) ==
  {s \in Sockets : c \in rooms[s] /\ ProcessOf[s] = home[c] /\ outbox[s] = <<>>}
\* Sockets that this.server.to(claimId) means: the event bus is local.
Members(c) == {s \in Sockets : c \in rooms[s] /\ ProcessOf[s] = home[c]}

\* events.emit runs handleClaimStatusChanged before it returns.
StatusChanged(c) ==
  /\ Lifecycle!Announce(c)
  /\ outbox' = [s \in Sockets |->
                  IF s \in Members(c)
                  THEN Append(outbox[s], [claim |-> c, status |-> Last(announced'[c])])
                  ELSE outbox[s]]
  /\ UNCHANGED <<home, tokenVars, disruptions, pc, identity, asked, granted, rooms, heard,
                 late, since>>

\* A packet arrives; the transport keeps their order.
Deliver(s) ==
  /\ outbox[s] # <<>>
  /\ heard' = [heard EXCEPT ![s] = Append(@, Head(outbox[s]))]
  /\ outbox' = [outbox EXCEPT ![s] = Tail(@)]
  /\ UNCHANGED <<claimVars, tokenVars, disruptions, pc, identity, asked, granted, rooms,
                 late, since>>

\* Claims are created, processed and withdrawn meanwhile ...
ClaimMoves(c) ==
  /\ Lifecycle!Create(c) \/ Lifecycle!Advance(c) \/ Lifecycle!Withdraw(c)
  /\ UNCHANGED <<home, tokenVars, socketVars, disruptions>>

\* ... and tokens expire, or identity-service revokes them.
TokenEnds(t) ==
  /\ \/ t \notin expired /\ expired' = expired \cup {t} /\ UNCHANGED revoked
     \/ t \notin revoked /\ revoked' = revoked \cup {t} /\ UNCHANGED expired
  /\ UNCHANGED <<claimVars, socketVars, disruptions>>

Next ==
  \/ \E s \in Sockets : Connect(s) \/ Exists(s) \/ Disconnect(s) \/ Deliver(s)
  \/ \E s \in Sockets, c \in Claims : AskToJoin(s, c) \/ Authorize(s, c) \/ Join(s, c)
  \/ \E c \in Claims : StatusChanged(c) \/ ClaimMoves(c)
  \/ \E t \in Tokens : TokenEnds(t)

Spec == Init /\ [][Next]_vars
-----------------------------------------------------------------------------
\* What a socket was sent, and where in it the changes of a claim are.
Packets(s) == heard[s] \o outbox[s]
SentAt(s, c) == {i \in DOMAIN Packets(s) : Packets(s)[i].claim = c}

\* A socket is sent changes only of claims its token's owner has, whenever it
\* asked for them and whatever became of the claim or of the token since.
OnlyOwnersHear ==
  \A s \in Sockets, c \in Claims : SentAt(s, c) # {} => OwnerOf[c] = Bearer[TokenOf[s]]

\* A token that was revoked or had expired before the handshake began admits
\* no socket, even where Redis cannot be asked.
EndedTokenStaysOut == \A s \in Sockets : late[s] => pc[s] \in {"exists", "refused"}

\* While it is in the room, a socket on the process that works on the claim is
\* sent everything that is announced after it joined, once and in order.
RoomMissesNothing ==
  \A s \in Sockets, c \in Claims :
    c \in rooms[s] /\ ProcessOf[s] = home[c] =>
      LET n == Len(announced[c]) - since[s][c]
      IN  \E at \in Surjection(1..n, SentAt(s, c)) :
            /\ \A i, j \in 1..n : i < j => at[i] < at[j]
            /\ \A i \in 1..n : Packets(s)[at[i]].status = announced[c][since[s][c] + i]
=============================================================================
