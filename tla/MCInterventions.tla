-------------------------- MODULE MCInterventions --------------------------
(***************************************************************************)
(* A small instance of Interventions.  One objective under two policies    *)
(* that differ in generation, so that a policy change alone can make an    *)
(* authority stale, and under a third that disables it; one runtime        *)
(* generation with two values; one class that needs a resource and can     *)
(* become infeasible.                                                      *)
(***************************************************************************)
EXTENDS Interventions

Obj(generation, enabled) ==
  [generation |-> generation, enabled |-> enabled, cool_down |-> 2]

MCPolicies ==
  {[id |-> 1, generation |-> 1, objectives |-> [o \in {1} |-> Obj(1, TRUE)]],
   [id |-> 1, generation |-> 2, objectives |-> [o \in {1} |-> Obj(1, FALSE)]]}

MCFacts ==
  {DefaultFacts, [DefaultFacts EXCEPT !.capacity_available = FALSE]}

(* GovernorConfig::max_pending_interventions, 4096 by default. *)
MaxPendingInterventions == 1

(* Resource discipline, hard bounds: there are never more interventions    *)
(* that have not ended than the configuration allows (authorize).          *)
PendingBounded ==
  Cardinality({i \in DOMAIN interventions : ~Terminal(i)})
    <= MaxPendingInterventions
=============================================================================
