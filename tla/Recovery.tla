------------------------------ MODULE Recovery ------------------------------
(***************************************************************************)
(* Evidence with a history variable: the last state of each objective that *)
(* was a verdict about its latency.  last_state itself forgets it when an  *)
(* evaluation without usable evidence comes in between.                    *)
(***************************************************************************)
EXTENDS Evidence

VARIABLE last_verdict

RInit == Init /\ last_verdict = [o \in ObjectiveIds |-> "HEALTHY"]

RNext ==
  /\ Next
  /\ last_verdict' = [o \in ObjectiveIds |->
       IF last_state'[o] \in Degraded \cup {"HEALTHY"} THEN last_state'[o]
       ELSE last_verdict[o]]

RSpec == RInit /\ [][RNext]_<<vars, last_verdict>>

(* Recovery requires a sustained run below the recovery threshold before   *)
(* returning to HEALTHY: when the last verdict about an objective was bad, *)
(* the next verdict is not HEALTHY, with or without evaluations that had   *)
(* too little evidence in between (evaluate, hysteresis).                  *)
RecoveryIsSustained ==
  [][\A o \in ObjectiveIds :
       last_verdict[o] \in {"VIOLATING", "SEVERE", "AT_RISK"}
         => last_verdict'[o] # "HEALTHY"]_<<vars, last_verdict>>
=============================================================================
