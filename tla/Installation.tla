---------------------------- MODULE Installation ----------------------------
(***************************************************************************)
(* What the setup transaction promises to the runtime, without staging,     *)
(* backups, crashes or rollback.  An environment is offered to inference by *)
(* runtime_config.json.  Setup may withdraw the offer, rework the           *)
(* environment while nothing is offered, and offer a whole environment.     *)
(* These are separate steps: an environment never changes while offered.    *)
(***************************************************************************)
CONSTANTS
  Environments,  \* whole environments that can be offered
  Remains,       \* everything else the venv name can hold
  Absent         \* no offer

VARIABLES
  offered,  \* the environment runtime_config.json describes, or Absent
  env       \* what the venv name holds

TypeOK ==
  /\ offered \in Environments \cup {Absent}
  /\ env \in Environments \cup Remains

Init ==
  /\ TypeOK
  /\ offered # Absent => offered = env

(* The configuration is unlinked or renamed away.                          *)
Withdraw ==
  /\ offered # Absent
  /\ offered' = Absent
  /\ UNCHANGED env

(* The venv name is cleared, torn, renamed or replaced.                     *)
Rework ==
  /\ offered = Absent
  /\ env' \in Environments \cup Remains
  /\ UNCHANGED offered

(* A configuration is published, or the previous one is put back.           *)
Offer ==
  /\ env \in Environments
  /\ offered' = env
  /\ UNCHANGED env

Next == Withdraw \/ Rework \/ Offer

Spec == Init /\ [][Next]_<<offered, env>>
=============================================================================
