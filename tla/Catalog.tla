------------------------------ MODULE Catalog ------------------------------
(***************************************************************************)
(* The vocabulary of the governor that several modules share: the          *)
(* intervention classes, the intervention lifecycle's statuses, the        *)
(* outcomes of post-action verification, and the feasibility rule that     *)
(* authorize, dispatch and select_intervention all apply to the current    *)
(* ResourceFacts.                                                          *)
(***************************************************************************)
EXTENDS Integers

(* InterventionType without NO_ACTION, which authorize refuses. *)
InterventionTypes ==
  {"QUEUE_REPRIORITIZE", "QUEUE_SHAPE", "LIMIT_QUEUE_DEPTH",
   "BOUND_QUEUE_WAIT", "REDUCE_BATCH_SIZE", "SPLIT_BATCH",
   "DISABLE_BATCH_FOR_CLASS", "WARM_RESIDENCY", "PIN_RESIDENCY",
   "PROMOTE_WARM_ENGINE", "RESERVE_CAPACITY", "RESERVE_BANDWIDTH",
   "PREEMPT_LOWER_PRIORITY", "DEFER_LOW_PRIORITY", "SHED_LOAD",
   "RECLAIM_MEMORY", "CHANGE_PLACEMENT", "ACCELERATE_RECOVERY",
   "REPLAN_RECOVERY", "FAILOVER", "ESCALATE",
   "MANUAL_INTERVENTION_REQUIRED"}

(* InterventionStatus.  No code path sets EXPIRED; it is kept because      *)
(* is_terminal lists it.                                                   *)
Statuses ==
  {"PROPOSED", "AUTHORIZED", "DISPATCHED", "ACKNOWLEDGED", "EFFECTIVE",
   "INEFFECTIVE", "FAILED", "CANCELLED", "SUPERSEDED", "EXPIRED",
   "OUTCOME_UNKNOWN"}

(* Intervention::is_terminal. *)
TerminalStatuses ==
  Statuses \ {"PROPOSED", "AUTHORIZED", "DISPATCHED", "ACKNOWLEDGED"}

(* PostOutcome. *)
Outcomes ==
  {"EFFECTIVE", "PARTIALLY_EFFECTIVE", "INEFFECTIVE", "WORSENED_TAIL",
   "CREATED_SECONDARY_VIOLATION", "INSUFFICIENT_POST_ACTION_EVIDENCE",
   "OUTCOME_UNKNOWN"}

(* The status record_outcome gives an intervention for each outcome. *)
StatusOfOutcome(outcome) ==
  CASE outcome = "EFFECTIVE" -> "EFFECTIVE"
    [] outcome \in {"PARTIALLY_EFFECTIVE", "INEFFECTIVE", "WORSENED_TAIL"}
         -> "INEFFECTIVE"
    [] outcome = "CREATED_SECONDARY_VIOLATION" -> "FAILED"
    [] OTHER -> "OUTCOME_UNKNOWN"

-----------------------------------------------------------------------------
(* ResourceFacts with the defaults of its declaration.  A budget is the    *)
(* fraction that remains: only its sign is read, so 0 and 1 stand for it.  *)
DefaultFacts ==
  [engine_available |-> TRUE, warm_engine_ready |-> FALSE,
   capacity_available |-> TRUE, preemptible_work |-> TRUE,
   failover_candidate |-> TRUE, target_compatible |-> TRUE,
   batch_above_min |-> TRUE, protected_traffic_present |-> TRUE,
   budget_preemptions |-> 1, budget_failovers |-> 1,
   budget_batch_changes |-> 1, budget_residency_changes |-> 1,
   budget_load_shedding |-> 1]

(* A class is feasible when what it acts on is there and its budget, if it *)
(* draws on one, is not spent.                                             *)
Gate(available, why, budget) ==
  IF ~available THEN why
  ELSE IF budget <= 0 THEN "EXCEEDS_HARD_ECONOMY"
  ELSE "NONE"

(* infeasibility_of: the first constraint that forbids class t under f. *)
InfeasibilityOf(t, f) ==
  CASE t = "PREEMPT_LOWER_PRIORITY" ->
         Gate(f.preemptible_work, "NON_PREEMPTIBLE", f.budget_preemptions)
    [] t \in {"WARM_RESIDENCY", "PROMOTE_WARM_ENGINE"} ->
         Gate(f.warm_engine_ready, "ENGINE_UNAVAILABLE",
              f.budget_residency_changes)
    [] t = "PIN_RESIDENCY" ->
         Gate(f.engine_available, "ENGINE_UNAVAILABLE",
              f.budget_residency_changes)
    [] t = "RESERVE_CAPACITY" ->
         Gate(f.capacity_available, "CAPACITY_UNAVAILABLE", 1)
    [] t = "FAILOVER" ->
         Gate(f.failover_candidate, "NO_FAILOVER_CANDIDATE",
              f.budget_failovers)
    [] t = "CHANGE_PLACEMENT" ->
         Gate(f.target_compatible, "INCOMPATIBLE_TARGET", 1)
    [] t \in {"REDUCE_BATCH_SIZE", "SPLIT_BATCH", "DISABLE_BATCH_FOR_CLASS"} ->
         Gate(f.batch_above_min, "BELOW_MIN_BATCH", f.budget_batch_changes)
    [] t \in {"SHED_LOAD", "DEFER_LOW_PRIORITY"} ->
         Gate(~f.protected_traffic_present, "PROTECTED_TRAFFIC",
              f.budget_load_shedding)
    [] OTHER -> "NONE"

Feasible(t, f) == InfeasibilityOf(t, f) = "NONE"
=============================================================================
