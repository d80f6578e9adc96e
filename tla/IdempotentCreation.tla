-------------------------- MODULE IdempotentCreation --------------------------
(***************************************************************************)
(* What POST /api/claims promises of idempotency keys, whatever locks,     *)
(* waits and deletes it takes: a key is bound to one claim at most, made   *)
(* by one of its requests, and for good; a request is answered with the    *)
(* claim of its key, or fails.  This is promised as long as no record is   *)
(* lost; after that, only that an answer stays as it was given.            *)
(***************************************************************************)
CONSTANTS Claims, Keys, KeyOf, NoClaim

VARIABLES
  kept,     \* no record has been lost
  bound,    \* the claim of each key
  answer    \* of each request: "open", "failed", or a claim

vars == <<kept, bound, answer>>

Init ==
  /\ kept = TRUE
  /\ bound = [k \in Keys |-> NoClaim]
  /\ answer = [r \in Claims |-> "open"]

Reply(r, what) == answer[r] = "open" /\ answer' = [answer EXCEPT ![r] = what]

\* The request has made the claim of its key.
Bind(r) ==
  /\ bound[KeyOf[r]] = NoClaim
  /\ bound' = [bound EXCEPT ![KeyOf[r]] = r]
  /\ Reply(r, r)

\* It is given the claim that another one has made.
Replay(r) ==
  /\ bound[KeyOf[r]] # NoClaim
  /\ Reply(r, bound[KeyOf[r]])
  /\ UNCHANGED bound

\* Requests fail: one, or all that a process has been serving.
Fail(failing) ==
  /\ answer' = [r \in Claims |->
                  IF r \in failing /\ answer[r] = "open" THEN "failed" ELSE answer[r]]
  /\ UNCHANGED bound

\* A key may be bound anew from here on.
Lose ==
  /\ kept' = FALSE
  /\ \A r \in Claims : answer[r] # "open" => answer'[r] = answer[r]

Next ==
  \/ kept /\ kept' /\ \E r \in Claims : Bind(r) \/ Replay(r)
  \/ kept /\ kept' /\ \E failing \in SUBSET Claims : Fail(failing)
  \/ Lose

Spec == Init /\ [][Next]_vars
=============================================================================
