------------------------------ MODULE Evidence ------------------------------
(***************************************************************************)
(* What the collector promises of an artifact, whatever fails: each value  *)
(* in the run's scope is settled once, as a value, as a recorded gap, or   *)
(* as null over an empty population, is not changed after that, and none   *)
(* is pending when the run ends.                                           *)
(***************************************************************************)
CONSTANT Fields

VARIABLES status, over

evidenceVars == <<status, over>>

Settled == {"value", "gap", "empty"}

EvidenceInit ==
  /\ status \in [Fields -> {"pending", "out_of_scope"}]
  /\ over = FALSE

(* One handler settles some of the pending fields, perhaps none.           *)
Settle ==
  /\ status' \in [Fields -> Settled \cup {"pending", "out_of_scope"}]
  /\ \A f \in Fields : status'[f] # status[f] =>
                         status[f] = "pending" /\ status'[f] \in Settled

(* The run ends with the handler that settles the last fields.             *)
SettleAndEnd ==
  /\ ~over
  /\ Settle
  /\ over' = TRUE
  /\ \A f \in Fields : status'[f] # "pending"

EvidenceNext == (~over /\ over' = over /\ Settle) \/ SettleAndEnd

EvidenceSafety == EvidenceInit /\ [][EvidenceNext]_evidenceVars

(* The run does end.                                                       *)
EvidenceSpec == EvidenceSafety /\ <>over
=============================================================================
