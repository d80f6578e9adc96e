---------------------------- MODULE ClaimLifecycle ----------------------------
(***************************************************************************)
(* What the service promises about a claim, whoever processes it and       *)
(* whatever fails: its status only moves along the transition table, and   *)
(* the status changes announced on the event bus are current when they are *)
(* announced, in order, and never repeated.  Announcements may be missing. *)
(***************************************************************************)
EXTENDS Sequences, ClaimStatus

CONSTANT Claims

VARIABLES
  status,      \* status of each claim, ABSENT if it has no row
  announced    \* statuses announced so far for each claim

vars == <<status, announced>>

Init ==
  /\ status \in [Claims -> {"PENDING", ABSENT}]
  /\ announced = [c \in Claims |-> <<>>]

\* The claim is accepted; an id that was ever announced is not used again.
Create(c) ==
  /\ status[c] = ABSENT /\ announced[c] = <<>>
  /\ status' = [status EXCEPT ![c] = "PENDING"]
  /\ UNCHANGED announced

\* A worker moves the claim on.
Advance(c) ==
  /\ \E next \in Status :
       /\ Validate(status[c], next)
       /\ status' = [status EXCEPT ![c] = next]
  /\ UNCHANGED announced

\* The acceptance is taken back because the claim could not be queued.
Withdraw(c) ==
  /\ status[c] # ABSENT
  /\ status' = [status EXCEPT ![c] = ABSENT]
  /\ UNCHANGED announced

\* Observers learn the status an update has reached; of a withdrawn claim,
\* its last one.
Announce(c) ==
  /\ \E s \in Status \ {"PENDING"} :
       /\ status[c] \in {s, ABSENT}
       /\ s \notin {announced[c][i] : i \in DOMAIN announced[c]}
       /\ announced' = [announced EXCEPT ![c] = Append(@, s)]
  /\ UNCHANGED status

Next == \E c \in Claims : Create(c) \/ Advance(c) \/ Withdraw(c) \/ Announce(c)

Spec == Init /\ [][Next]_vars
=============================================================================
