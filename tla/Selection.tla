----------------------------- MODULE Selection -----------------------------
(***************************************************************************)
(* What the governor does about a bad tail: the decomposition of the slow  *)
(* samples into phases and causes, the selection of an intervention class  *)
(* for the dominant cause, and the ranking of the objectives in decide.    *)
(*                                                                         *)
(* The state machine is decide, one evaluation at a time, over a policy    *)
(* whose objectives come in any order, each with any of the windows in     *)
(* Windows.  Evidence says how windows come about and how the states       *)
(* remember earlier ones; here a state below the recovery threshold is     *)
(* HEALTHY, because RECOVERING and HEALTHY are alike for decisions.        *)
(*                                                                         *)
(* A sample is a record [ord, latency, captured, phases]; phases is a      *)
(* sequence of records [phase, duration].                                  *)
(***************************************************************************)
EXTENDS Catalog, Window, SequencesExt

CONSTANTS
  Objectives,    \* the enabled objectives, by identity: records
                 \*   [target, recovery, required, permille, priority, scoped]
  Windows,       \* the sets of samples an objective may have
  FactSets,      \* the resource facts a caller may have reported
  MaxSlowest     \* how many samples stand for a tail without cutoff: 64

ASSUME ObjectivesAssumption ==
  /\ IsFiniteSet(DOMAIN Objectives) /\ DOMAIN Objectives \subseteq Nat
  /\ \A o \in DOMAIN Objectives :
       /\ Objectives[o].target \in Int /\ Objectives[o].recovery \in Int
       /\ Objectives[o].required \in Nat \ {0}
       /\ Objectives[o].permille \in 1..1000
       /\ Objectives[o].priority \in Int

ASSUME WindowsAssumption ==
  \A w \in Windows : IsFiniteSet(w) /\ \A s \in w : s.latency \in Nat

(* Phase and InterventionType, in the order of their declarations. *)
PhaseOrder ==
  <<"ADMISSION_WAIT", "QUEUE_WAIT", "BATCH_WAIT", "PREFILL", "DECODE",
    "EXECUTION", "TRANSFER", "STATE_FETCH", "MODEL_LOAD", "ENGINE_WARMUP",
    "MEMORY_RECLAIM", "PREEMPTION_WAIT", "RECOVERY_WAIT", "RETRY_DELAY",
    "BACKEND_WAIT", "PUBLICATION", "OTHER">>

TypeOrder ==
  <<"QUEUE_REPRIORITIZE", "QUEUE_SHAPE", "LIMIT_QUEUE_DEPTH",
    "BOUND_QUEUE_WAIT", "REDUCE_BATCH_SIZE", "SPLIT_BATCH",
    "DISABLE_BATCH_FOR_CLASS", "WARM_RESIDENCY", "PIN_RESIDENCY",
    "PROMOTE_WARM_ENGINE", "RESERVE_CAPACITY", "RESERVE_BANDWIDTH",
    "PREEMPT_LOWER_PRIORITY", "DEFER_LOW_PRIORITY", "SHED_LOAD",
    "RECLAIM_MEMORY", "CHANGE_PLACEMENT", "ACCELERATE_RECOVERY",
    "REPLAN_RECOVERY", "FAILOVER", "ESCALATE",
    "MANUAL_INTERVENTION_REQUIRED">>

Before(order, x, y) ==
  \E i, j \in DOMAIN order : i < j /\ order[i] = x /\ order[j] = y

(* phase_to_cause. *)
CauseOf(p) ==
  CASE p \in {"ADMISSION_WAIT", "QUEUE_WAIT"} -> "QUEUEING"
    [] p = "BATCH_WAIT" -> "BATCHING"
    [] p \in {"MODEL_LOAD", "ENGINE_WARMUP"} -> "COLD_RESIDENCY"
    [] p = "STATE_FETCH" -> "MODEL_OR_STATE_LOAD"
    [] p = "TRANSFER" -> "TRANSFER"
    [] p = "MEMORY_RECLAIM" -> "MEMORY_PRESSURE"
    [] p \in {"EXECUTION", "PREFILL", "DECODE", "BACKEND_WAIT"} -> "EXECUTION_VARIANCE"
    [] p = "PREEMPTION_WAIT" -> "PREEMPTION"
    [] p = "RECOVERY_WAIT" -> "RECOVERY"
    [] p = "RETRY_DELAY" -> "RETRY"
    [] p = "PUBLICATION" -> "PUBLICATION_DELAY"
    [] OTHER -> "UNKNOWN"

-----------------------------------------------------------------------------
(* Mutated form: the samples above the cutoff. *)
SlowTail_Strict(samples, cutoff) ==
  LET above == {s \in samples : cutoff > 0 /\ s.latency > cutoff}
  IN IF above # {} THEN above ELSE samples

(* The samples at or above the cutoff; without any, or without a cutoff,   *)
(* the slowest ones, among equals those inserted first.                    *)
SlowTail(samples, cutoff) ==
  LET above == {s \in samples : cutoff > 0 /\ s.latency >= cutoff}
      slower(s) == {t \in samples : \/ t.latency > s.latency
                                    \/ t.latency = s.latency /\ t.ord < s.ord}
  IN IF above # {} THEN above
     ELSE {s \in samples : Cardinality(slower(s)) < MaxSlowest}

(* Mutated form: the slowest request stands for all. *)
TotalLatency_Slowest(tail) == Max({s.latency : s \in tail} \cup {0})

TotalLatency(tail) == MapThenSumSet(LAMBDA s : s.latency, tail)

PhasesOf(tail) == UNION {{e.phase : e \in ToSet(s.phases)} : s \in tail}

Spent(s, p) ==
  MapThenSumSet(LAMBDA i : IF s.phases[i].phase = p THEN s.phases[i].duration ELSE 0,
                DOMAIN s.phases)

(* The time that the samples of a tail spent in each phase they mention. *)
Totals(tail) ==
  [p \in PhasesOf(tail) |-> MapThenSumSet(LAMBDA s : Spent(s, p), tail)]

(* The phase with the largest total, of equals the first. *)
Dominant(totals) ==
  CHOOSE p \in DOMAIN totals : \A q \in DOMAIN totals \ {p} :
    \/ totals[q] < totals[p]
    \/ totals[q] = totals[p] /\ Before(PhaseOrder, p, q)

(* decompose_tail: the primary cause, and the causes of the other phases   *)
(* that make up a fifth of the tail or more.                               *)
PrimaryCause(totals) ==
  IF DOMAIN totals = {} THEN "UNKNOWN" ELSE CauseOf(Dominant(totals))

AssociatedCauses(totals, latency) ==
  {CauseOf(p) : p \in {q \in DOMAIN totals : /\ q # Dominant(totals)
                                             /\ latency > 0
                                             /\ 5 * totals[q] >= latency}}

-----------------------------------------------------------------------------
(* candidates_for_cause, in the code's order. *)
Candidates(cause) ==
  CASE cause = "QUEUEING" ->
         <<"BOUND_QUEUE_WAIT", "QUEUE_SHAPE", "LIMIT_QUEUE_DEPTH", "QUEUE_REPRIORITIZE">>
    [] cause = "BATCHING" ->
         <<"SPLIT_BATCH", "REDUCE_BATCH_SIZE", "DISABLE_BATCH_FOR_CLASS">>
    [] cause = "COLD_RESIDENCY" ->
         <<"WARM_RESIDENCY", "PIN_RESIDENCY", "PROMOTE_WARM_ENGINE">>
    [] cause = "MODEL_OR_STATE_LOAD" ->
         <<"WARM_RESIDENCY", "PROMOTE_WARM_ENGINE", "CHANGE_PLACEMENT">>
    [] cause = "TRANSFER" ->
         <<"RESERVE_BANDWIDTH", "CHANGE_PLACEMENT", "DEFER_LOW_PRIORITY">>
    [] cause = "MEMORY_PRESSURE" ->
         <<"RECLAIM_MEMORY", "DEFER_LOW_PRIORITY", "RESERVE_CAPACITY">>
    [] cause = "EXECUTION_VARIANCE" ->
         <<"CHANGE_PLACEMENT", "RESERVE_CAPACITY", "WARM_RESIDENCY">>
    [] cause = "PREEMPTION" -> <<"PREEMPT_LOWER_PRIORITY">>
    [] cause = "RECOVERY" -> <<"ACCELERATE_RECOVERY", "REPLAN_RECOVERY", "FAILOVER">>
    [] cause = "RETRY" -> <<"DEFER_LOW_PRIORITY", "RESERVE_CAPACITY", "ESCALATE">>
    [] cause = "PUBLICATION_DELAY" -> <<"ESCALATE", "MANUAL_INTERVENTION_REQUIRED">>
    [] OTHER -> <<>>

(* effect_factor, in tenths of the excess. *)
EffectFactor(t) ==
  CASE t \in {"BOUND_QUEUE_WAIT", "SPLIT_BATCH", "WARM_RESIDENCY", "FAILOVER"} -> 8
    [] t \in {"QUEUE_SHAPE", "PROMOTE_WARM_ENGINE", "RESERVE_CAPACITY",
              "PREEMPT_LOWER_PRIORITY", "ACCELERATE_RECOVERY"} -> 7
    [] t \in {"LIMIT_QUEUE_DEPTH", "REDUCE_BATCH_SIZE", "RESERVE_BANDWIDTH",
              "CHANGE_PLACEMENT", "REPLAN_RECOVERY"} -> 6
    [] t \in {"QUEUE_REPRIORITIZE", "DISABLE_BATCH_FOR_CLASS", "PIN_RESIDENCY",
              "SHED_LOAD"} -> 5
    [] t \in {"DEFER_LOW_PRIORITY", "RECLAIM_MEMORY"} -> 4
    [] t = "ESCALATE" -> 3
    [] t = "MANUAL_INTERVENTION_REQUIRED" -> 2

(* Mutated form: infeasible candidates take part. *)
Allowed_All(cause, f) == ToSet(Candidates(cause))

Allowed(cause, f) == {t \in ToSet(Candidates(cause)) : Feasible(t, f)}

(* select_intervention: the feasible candidate with the largest effect, of *)
(* equals the first by type.  Without excess all effects are 0.            *)
Selected(cause, excess, f) ==
  IF Allowed(cause, f) = {} THEN "NO_ACTION"
  ELSE CHOOSE t \in Allowed(cause, f) : \A u \in Allowed(cause, f) \ {t} :
         \/ EffectFactor(t) * excess > EffectFactor(u) * excess
         \/ /\ EffectFactor(t) * excess = EffectFactor(u) * excess
            /\ Before(TypeOrder, t, u)

(* Two reasons to refuse a candidate are not called hard constraints. *)
HardReasons ==
  {"EXCEEDS_HARD_ECONOMY", "PROTECTED_TRAFFIC", "NON_PREEMPTIBLE",
   "ENGINE_UNAVAILABLE", "CAPACITY_UNAVAILABLE", "NO_FAILOVER_CANDIDATE"}

Constrained(cause, f) ==
  \E t \in ToSet(Candidates(cause)) : InfeasibilityOf(t, f) \in HardReasons

(* build_what_would_change, for an evaluation ev of obj. *)
TriggerOfCause(cause) ==
  CASE cause = "QUEUEING" -> {"QUEUE_DEPTH_DROPS"}
    [] cause = "BATCHING" -> {"BATCH_WAIT_DISAPPEARS"}
    [] cause = "COLD_RESIDENCY" -> {"WARM_ENGINE_READY"}
    [] cause = "TRANSFER" -> {"TRANSFER_PATH_CLEARS"}
    [] cause = "MEMORY_PRESSURE" -> {"MEMORY_PRESSURE_FALLS"}
    [] OTHER -> {}

WhatWouldChange(ev, obj, f) ==
  LET holds ==
        [P99_BELOW_RECOVERY |-> ev.excess > 0,
         MORE_CAPACITY |-> ~f.capacity_available,
         TAIL_SUFFICIENCY_IMPROVES |-> ev.state = "INSUFFICIENT_EVIDENCE",
         P999_EVIDENCE_FRESH |-> ev.count < 1000,
         PREEMPTION_SAFE |-> ~f.preemptible_work,
         HARD_SLO_BLOCKS |-> Constrained(ev.cause, f),
         HIGHER_PRIORITY_CLASS_ARRIVES |-> ev.state = "HEALTHY" /\ ~obj.scoped]
  IN {c \in DOMAIN holds : holds[c]}
       \cup UNION {TriggerOfCause(c) : c \in {ev.cause} \cup ev.associated}

-----------------------------------------------------------------------------
(* What Evidence remembers about an objective: its evidence is stale or to *)
(* be revalidated, or, when its tail is fine, whether it was before.       *)
Memories == {"REVALIDATION_REQUIRED", "STALE", "RECOVERING", "HEALTHY"}

StateOf(obj, n, v, memory) ==
  CASE memory \in {"REVALIDATION_REQUIRED", "STALE"} -> memory
    [] memory \notin {"REVALIDATION_REQUIRED", "STALE"} /\ n < obj.required ->
         "INSUFFICIENT_EVIDENCE"
    [] OTHER -> IF v >= 2 * obj.target THEN "SEVERE"
                ELSE IF v >= obj.target THEN "VIOLATING"
                ELSE IF v > obj.recovery THEN "AT_RISK"
                ELSE memory

Acting == {"VIOLATING", "SEVERE", "AT_RISK"}

(* evaluate: what it says of objective o with these samples. *)
Evaluation(o, samples, memory, f) ==
  LET obj == Objectives[o]
      n == Cardinality(samples)
      v == IF n >= obj.required THEN Quantile(samples, obj.permille) ELSE 0
      state == StateOf(obj, n, v, memory)
      tail == SlowTail(samples, v)
      totals == Totals(tail)
      cause == PrimaryCause(totals)
      excess == v - obj.recovery
      ev == [objective |-> o, priority |-> obj.priority, state |-> state,
             count |-> n, observed |-> v, excess |-> excess,
             tail |-> tail, totals |-> totals, cause |-> cause,
             associated |-> AssociatedCauses(totals, TotalLatency(tail)),
             selected |-> IF state \notin Acting THEN "NO_ACTION"
                          ELSE Selected(cause, IF excess < 0 THEN 0 ELSE excess, f),
             changes |-> {}]
  IN [ev EXCEPT !.changes = WhatWouldChange(ev, obj, f)]

-----------------------------------------------------------------------------
VARIABLES
  facts,   \* the reported facts
  todo,    \* the objectives still to evaluate, in the policy's order
  evs,     \* the evaluations so far
  bind     \* the binding one, or NoEvaluation

vars == <<facts, todo, evs, bind>>

NoEvaluation == [objective |-> 0]

Init ==
  /\ facts \in FactSets
  /\ todo \in SetToSeqs(DOMAIN Objectives)
  /\ evs = <<>>
  /\ bind = NoEvaluation

Degrading(ev) == ev.state \in {"VIOLATING", "SEVERE"}

(* Mutated form: the priority is not looked at. *)
Outranks_NoPriority(ev, b) ==
  \/ ev.excess > b.excess
  \/ ev.excess = b.excess /\ ev.objective < b.objective

(* The order of decide: excess over the recovery threshold, priority, id. *)
Outranks(ev, b) ==
  \/ ev.excess > b.excess
  \/ /\ ev.excess = b.excess
     /\ \/ ev.priority > b.priority
        \/ ev.priority = b.priority /\ ev.objective < b.objective

(* Evaluate the next objective and rank it among the violating ones. *)
Consider(samples, memory) ==
  /\ todo # <<>>
  /\ LET ev == Evaluation(Head(todo), samples, memory, facts)
     IN /\ evs' = Append(evs, ev)
        /\ bind' = IF Degrading(ev) /\ (bind = NoEvaluation \/ Outranks(ev, bind))
                   THEN ev ELSE bind
  /\ todo' = Tail(todo)
  /\ UNCHANGED facts

(* With none violating, the first objective at risk binds. *)
Settle ==
  /\ todo = <<>>
  /\ bind = NoEvaluation
  /\ \E i \in DOMAIN evs :
       /\ evs[i].state = "AT_RISK"
       /\ \A j \in 1..i-1 : evs[j].state # "AT_RISK"
       /\ bind' = evs[i]
  /\ UNCHANGED <<facts, todo, evs>>

Next ==
  \/ \E samples \in Windows, memory \in Memories : Consider(samples, memory)
  \/ Settle

Spec == Init /\ [][Next]_vars

-----------------------------------------------------------------------------
(* The binding objective does not depend on the order of the policy: it is *)
(* the violating one that comes before every other by excess, then         *)
(* priority, then identity; objectives at risk bind only when none is      *)
(* violating (decide's ranking loop).                                      *)
Key(ev) == <<ev.excess, ev.priority, -ev.objective>>

Above(k, l) ==
  \E i \in 1..3 : k[i] > l[i] /\ \A j \in 1..i-1 : k[j] = l[j]

BindingIsWorst ==
  LET bad == {ev \in ToSet(evs) : Degrading(ev)}
  IN /\ bad # {} => /\ bind \in bad
                    /\ \A ev \in bad \ {bind} : Above(Key(bind), Key(ev))
     /\ bad = {} /\ bind # NoEvaluation
          => bind.state = "AT_RISK" /\ todo = <<>>

(* A bad verdict is explained by the samples that made it bad: what is     *)
(* decomposed is the part of the window at or above the observed           *)
(* percentile, which is never empty and is no more of the window than the  *)
(* percentile leaves above it, but for samples of equal latency (evaluate  *)
(* passes the observed value to decompose_tail as its cutoff).             *)
TailExplainsVerdict ==
  \A ev \in ToSet(evs) : ev.state \in Acting /\ ev.observed > 0 =>
    /\ \E s \in ev.tail : s.latency = ev.observed
    /\ \A s \in ev.tail : s.latency >= ev.observed
    /\ Cardinality({s \in ev.tail : s.latency > ev.observed})
         <= ev.count - Rank(Objectives[ev.objective].permille, ev.count)

(* Phase sums reconcile against the authoritative total: what is           *)
(* attributed to phases is never more than the latency of the tail, and    *)
(* at most four phases are associated beside the dominant one              *)
(* (decompose_tail, over samples that ingest has reconciled one by one).   *)
SharesAddUp ==
  \A ev \in ToSet(evs) :
    /\ MapThenSumSet(LAMBDA p : ev.totals[p], DOMAIN ev.totals) <= TotalLatency(ev.tail)
    /\ Cardinality(ev.associated) <= 4

(* Selection is legal and reasoned: a bad tail with a known cause gets a   *)
(* feasible class for it unless every candidate is infeasible; then a hard *)
(* constraint or the cause itself is named among what would change the     *)
(* decision; and no feasible candidate promises more than the selected one *)
(* (select_intervention, infeasibility_of, build_what_would_change).       *)
SelectionIsReasoned ==
  \A ev \in ToSet(evs) : ev.state \in Acting =>
    LET candidates == ToSet(Candidates(ev.cause))
        feasible == {t \in candidates : Feasible(t, facts)}
    IN IF ev.selected = "NO_ACTION"
       THEN /\ feasible = {}
            /\ candidates # {}
                 => ev.changes \cap ({"HARD_SLO_BLOCKS"} \cup TriggerOfCause(ev.cause)) # {}
       ELSE /\ ev.selected \in feasible
            /\ ev.excess > 0 =>
                 \A t \in feasible : EffectFactor(t) <= EffectFactor(ev.selected)
=============================================================================
