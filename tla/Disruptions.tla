----------------------------- MODULE Disruptions -----------------------------
(***************************************************************************)
(* What can go wrong between the service and its two stores.  The Redis    *)
(* client is built with commandTimeout, enableOfflineQueue: false,         *)
(* maxRetriesPerRequest: 2 and a retryStrategy, so a command               *)
(*   "refused"     is rejected before it reaches the server,               *)
(*   "unanswered"  runs, but its promise is rejected (timeout, lost reply),*)
(*   "resent"      runs, loses its reply, and is sent again by the client  *)
(*                 after the reconnection: the caller still awaits it.     *)
(* A Prisma query is never repeated by the client: "dbRefused" and         *)
(* "dbUnanswered" only.  "crash" is the death of a process, "shutdown" its *)
(* orderly stop, "stall" a request that outlives its 60 s idempotency      *)
(* lock, "expired" a 24 h key that Redis drops.                            *)
(*                                                                         *)
(* Kinds says which of these an instance admits, MaxDisruptions how many   *)
(* of them a behaviour may contain.                                        *)
(***************************************************************************)
EXTENDS Naturals

CONSTANTS Kinds, MaxDisruptions

AllKinds == {"refused", "unanswered", "resent", "dbRefused", "dbUnanswered",
             "crash", "shutdown", "stall", "expired"}

ASSUME DisruptionsAssumption ==
  /\ Kinds \subseteq AllKinds
  /\ MaxDisruptions \in Nat

VARIABLE disruptions   \* how many times each kind has happened

NoDisruptions == [k \in AllKinds |-> 0]
DisruptionsTypeOK == disruptions \in [AllKinds -> Nat]

\* The disruptions of some kinds so far: a sum over all kinds, written out.
Suffered(kinds) ==
  LET n(k) == IF k \in kinds THEN disruptions[k] ELSE 0
  IN  n("refused") + n("unanswered") + n("resent") + n("dbRefused") + n("dbUnanswered")
      + n("crash") + n("shutdown") + n("stall") + n("expired")
Never(kind) == disruptions[kind] = 0

\* The outcomes of a command, by what it does.
RedisWrite == {"ok", "refused", "unanswered", "resent"}
RedisRead  == {"ok", "refused"}
DbWrite    == {"ok", "dbRefused", "dbUnanswered"}
DbRead     == {"ok", "dbRefused"}

\* The command took effect on the server.
Executed(o) == o \notin {"refused", "dbRefused"}

\* The awaiting caller sees an exception.
Throws(o) == o \notin {"ok", "resent"}

\* Where the caller goes on: the same command once more, the code after the
\* await, or the handler of the exception.
Resume(o, again, next, handler) ==
  CASE o = "ok"     -> next
    [] o = "resent" -> again
    [] OTHER        -> handler

\* Outcome o happens: it is the ordinary one, or the instance admits it.
Suffer(o) ==
  \/ o = "ok" /\ disruptions' = disruptions
  \/ /\ o \in Kinds
     /\ Suffered(AllKinds) < MaxDisruptions
     /\ disruptions' = [disruptions EXCEPT ![o] = @ + 1]
=============================================================================
