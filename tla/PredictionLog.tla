---------------------------- MODULE PredictionLog ----------------------------
(***************************************************************************)
(* What the table of predictions promises to whoever learns from it (the   *)
(* calibrator, the prediction memory, the daily metrics): a prediction is  *)
(* recorded once and waits; it is settled once, with an outcome or, when   *)
(* the feed could not price it, without one; a settled prediction stays as *)
(* it is.  An outcome and its mark are never seen apart.                   *)
(***************************************************************************)
CONSTANT Ids

VARIABLE log

LogInit == log = [id \in Ids |-> "absent"]

(* The predictions of a cycle become visible at once.                      *)
Record(new) ==
  /\ \A id \in new : log[id] = "absent"
  /\ log' = [id \in Ids |-> IF id \in new THEN "waiting" ELSE log[id]]

Settle(id) ==
  /\ log[id] = "waiting"
  /\ \E verdict \in {"scored", "unscored"} : log' = [log EXCEPT ![id] = verdict]

LogNext ==
  \/ \E new \in SUBSET Ids : Record(new)
  \/ \E id \in Ids : Settle(id)

LogSpec == LogInit /\ [][LogNext]_log
=============================================================================
