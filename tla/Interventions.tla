--------------------------- MODULE Interventions ---------------------------
(***************************************************************************)
(* The intervention half of TailGovernor: the authority it is fenced by    *)
(* (coordinator epoch, installed policy, runtime generations), the current *)
(* resource facts, and the interventions it authorizes, dispatches,        *)
(* follows and ends.                                                       *)
(*                                                                         *)
(* One action is one public operation.  Every operation below runs under   *)
(* the governor's recursive mutex, so it is one step; the setters that     *)
(* skip the mutex are one step each all the same (a single assignment).    *)
(* An operation that returns an error and changes nothing is no step.      *)
(*                                                                         *)
(* What a caller may do is part of the model.  A caller reads an authority *)
(* context from an evaluation and builds a proposal from it, at once or    *)
(* after other calls have changed the governor; held is the context the    *)
(* last evaluation of each objective gave it.  The evidence half of        *)
(* evaluate and decide (windows, states, selection) is not in this module: *)
(* any feasible class may be selected for any active objective.            *)
(***************************************************************************)
EXTENDS Catalog, FiniteSets

CONSTANTS
  ObjectiveIds,    \* identities of tail objectives
  Policies,        \* the policies callers may install
  GenKinds,        \* runtime generations: queue, batch, resource, ...
  FactSets,        \* the resource facts callers may report
  Types,           \* the intervention classes proposed
  CallerIds,       \* non-zero identities a caller may put in a proposal
  Lifetimes,       \* how long a caller's proposal is good for, in clock units
  DecideLifetime,  \* how long decide's own proposal is good for (5 s)
  MaxEpoch, MaxGen, MaxNow, MaxIds    \* bounds of the explored instance

(* The part of TailObjective that authorize and dispatch read; an          *)
(* objective may have more.                                                *)
IsObjective(obj) ==
  /\ obj.generation \in Nat
  /\ obj.enabled \in BOOLEAN
  /\ obj.cool_down \in Nat

(* TailPolicy: an objective vector is a function of the identity, because  *)
(* find_objective reads the first entry with that identity and no other.   *)
IsPolicy(p) ==
  /\ p.id \in Nat
  /\ p.generation \in Nat
  /\ DOMAIN p.objectives \subseteq ObjectiveIds
  /\ \A o \in DOMAIN p.objectives : IsObjective(p.objectives[o])

NoPolicy == [id |-> 0, generation |-> 0, objectives |-> [o \in {} |-> 0]]

ASSUME ObjectiveIdsAssumption == ObjectiveIds \subseteq Nat
ASSUME PoliciesAssumption == \A p \in Policies : IsPolicy(p)
ASSUME TypesAssumption == Types \subseteq InterventionTypes
ASSUME CallerIdsAssumption == CallerIds \subseteq Nat \ {0}
ASSUME LifetimesAssumption == Lifetimes \subseteq Nat /\ DecideLifetime \in Nat
ASSUME BoundsAssumption ==
  /\ MaxEpoch \in Nat /\ MaxGen \in Nat /\ MaxNow \in Nat /\ MaxIds \in Nat

VARIABLES
  epoch,                 \* cfg.epoch
  pol,                   \* the installed policy
  gens,                  \* queue_gen, batch_gen, resource_gen, ...
  facts,                 \* the last ResourceFacts
  now,                   \* the injected clock
  shutting_down,
  interventions,         \* issued interventions, by identity
  outcomes,              \* recorded PostOutcomes, by identity
  last_intervention_ns,  \* when each objective last had one authorized
  next_int_id,
  held                   \* the authority a caller holds for each objective

fences == <<epoch, pol, gens>>
inputs == <<facts, now, shutting_down>>
records == <<interventions, outcomes, last_intervention_ns, next_int_id>>
vars == <<fences, inputs, records, held>>

(* AuthorityContext.  The service and workload fields are fixed when the   *)
(* governor is built; worker_boot is never filled in.                      *)
Authority ==
  [epoch : Nat \ {0}, policy : Nat, policy_generation : Nat,
   objective : ObjectiveIds, objective_generation : Nat,
   generations : [GenKinds -> Nat]]

(* The context of a proposal that no evaluation filled in. *)
NoAuthority ==
  [epoch |-> 0, policy |-> 0, policy_generation |-> 0, objective |-> 0,
   objective_generation |-> 0, generations |-> [k \in GenKinds |-> 0]]

(* What can be on record: authorize stores AUTHORIZED interventions only,  *)
(* and nothing ever sets EXPIRED.                                          *)
RecordedStatuses == Statuses \ {"PROPOSED", "EXPIRED"}

(* The authority of an intervention that load has read is empty. *)
Intervention ==
  [type : Types, status : RecordedStatuses, objective : ObjectiveIds,
   generation : Nat, authority : Authority \cup {NoAuthority},
   proposed_at_ns : Nat, expiry_at_ns : Nat]

TypeOK ==
  /\ epoch \in Nat \ {0}
  /\ pol \in Policies \cup {NoPolicy}
  /\ gens \in [GenKinds -> Nat]
  /\ facts \in FactSets \cup {DefaultFacts}
  /\ now \in Nat
  /\ shutting_down \in BOOLEAN
  /\ DOMAIN interventions \subseteq Nat \ {0}
  /\ interventions \in [DOMAIN interventions -> Intervention]
  /\ DOMAIN outcomes \subseteq DOMAIN interventions
  /\ outcomes \in [DOMAIN outcomes -> Outcomes]
  /\ DOMAIN last_intervention_ns \subseteq ObjectiveIds
  /\ last_intervention_ns \in [DOMAIN last_intervention_ns -> Nat]
  /\ next_int_id \in Nat \ {0}
  /\ held \in [ObjectiveIds -> Authority \cup {NoAuthority}]

Init ==
  /\ epoch = 1
  /\ pol = NoPolicy
  /\ gens = [k \in GenKinds |-> 0]
  /\ facts = DefaultFacts
  /\ now = 0
  /\ shutting_down = FALSE
  /\ interventions = [i \in {} |-> 0]
  /\ outcomes = [i \in {} |-> 0]
  /\ last_intervention_ns = [o \in {} |-> 0]
  /\ next_int_id = 1
  /\ held = [o \in ObjectiveIds |-> NoAuthority]

-----------------------------------------------------------------------------
(* f with k mapped to v: std::map's operator[] followed by an assignment. *)
Put(f, k, v) ==
  [x \in DOMAIN f \cup {k} |-> IF x = k THEN v ELSE f[x]]

Active(o) == o \in DOMAIN pol.objectives /\ pol.objectives[o].enabled

(* Mutated form: the context forgets the runtime generations. *)
CurrentAuthority_NoGenerations(o) ==
  [epoch |-> epoch, policy |-> pol.id, policy_generation |-> pol.generation,
   objective |-> o,
   objective_generation |-> pol.objectives[o].generation,
   generations |-> [k \in GenKinds |-> 0]]

(* current_authority: the context that a decision about o is fenced by. *)
CurrentAuthority(o) ==
  [epoch |-> epoch, policy |-> pol.id, policy_generation |-> pol.generation,
   objective |-> o,
   objective_generation |-> pol.objectives[o].generation,
   generations |-> gens]

(* Mutated form: the pause is measured with an off-by-one. *)
CoolingDown_ShortByOne(o) ==
  /\ o \in DOMAIN last_intervention_ns
  /\ pol.objectives[o].cool_down > 0
  /\ now - last_intervention_ns[o] < pol.objectives[o].cool_down - 1

(* The cooldown test of authorize.  A clock that went back leaves a        *)
(* negative elapsed time, which is still inside the pause.                 *)
CoolingDown(o) ==
  /\ o \in DOMAIN last_intervention_ns
  /\ pol.objectives[o].cool_down > 0
  /\ now - last_intervention_ns[o] < pol.objectives[o].cool_down

-----------------------------------------------------------------------------
(* The setters.  set_policy replaces the policy and nothing else. *)
SetPolicy(p) ==
  /\ pol' = p
  /\ UNCHANGED <<epoch, gens, inputs, records, held>>

(* advance_epoch, as far as interventions go: they are kept. *)
AdvanceEpoch ==
  /\ epoch < MaxEpoch
  /\ epoch' = epoch + 1
  /\ UNCHANGED <<pol, gens, inputs, records, held>>

(* set_queue_generation and the five setters like it. *)
SetGeneration(k, g) ==
  /\ gens' = [gens EXCEPT ![k] = g]
  /\ UNCHANGED <<epoch, pol, inputs, records, held>>

SetResourceFacts(f) ==
  /\ facts' = f
  /\ UNCHANGED <<fences, now, shutting_down, records, held>>

(* The clock is injected: a TestClock can be set to any value. *)
SetClock(t) ==
  /\ now' = t
  /\ UNCHANGED <<fences, facts, shutting_down, records, held>>

BeginShutdown ==
  /\ shutting_down' = TRUE
  /\ UNCHANGED <<fences, facts, now, records, held>>

-----------------------------------------------------------------------------
(* evaluate hands the caller the context its result was computed under. *)
Evaluate(o) ==
  /\ ~shutting_down
  /\ Active(o)
  /\ held' = [held EXCEPT ![o] = CurrentAuthority(o)]
  /\ UNCHANGED <<fences, inputs, records>>

(* Mutated forms of authorize. *)
Authorize_AnyAuthority(o, t, id, authority, expiry) ==
  LET i == IF id = 0 THEN next_int_id ELSE id
      next == IF id = 0 THEN next_int_id + 1 ELSE next_int_id
  IN /\ ~shutting_down
     /\ Active(o)
     /\ Feasible(t, facts)
     /\ ~CoolingDown(o)
     /\ next_int_id <= MaxIds
     /\ interventions' = Put(interventions, i,
          [type |-> t, status |-> "AUTHORIZED", objective |-> o,
           generation |-> next, authority |-> authority,
           proposed_at_ns |-> now, expiry_at_ns |-> expiry])
     /\ next_int_id' = next
     /\ last_intervention_ns' = Put(last_intervention_ns, o, now)
     /\ UNCHANGED <<fences, inputs, outcomes>>

Authorize_StaysProposed(o, t, id, authority, expiry) ==
  LET i == IF id = 0 THEN next_int_id ELSE id
  IN /\ ~shutting_down
     /\ Active(o)
     /\ authority = CurrentAuthority(o)
     /\ Feasible(t, facts)
     /\ ~CoolingDown(o)
     /\ next_int_id <= MaxIds
     /\ interventions' = Put(interventions, i,
          [type |-> t, status |-> "PROPOSED", objective |-> o,
           generation |-> i, authority |-> authority,
           proposed_at_ns |-> now, expiry_at_ns |-> expiry])
     /\ next_int_id' = IF id = 0 THEN next_int_id + 1 ELSE next_int_id
     /\ last_intervention_ns' = Put(last_intervention_ns, o, now)
     /\ UNCHANGED <<fences, inputs, outcomes>>

Authorize_NoIncrement(o, t, id, authority, expiry) ==
  /\ ~shutting_down
  /\ Active(o)
  /\ authority = CurrentAuthority(o)
  /\ Feasible(t, facts)
  /\ ~CoolingDown(o)
  /\ next_int_id <= MaxIds
  /\ interventions' = Put(interventions, next_int_id,
       [type |-> t, status |-> "AUTHORIZED", objective |-> o,
        generation |-> next_int_id, authority |-> authority,
        proposed_at_ns |-> now, expiry_at_ns |-> expiry])
  /\ last_intervention_ns' = Put(last_intervention_ns, o, now)
  /\ UNCHANGED <<fences, inputs, outcomes, next_int_id>>

(* authorize: the checks in the code's order, then the record is stored    *)
(* under its identity, whether or not one is already there.                *)
Authorize(o, t, id, authority, expiry) ==
  LET i == IF id = 0 THEN next_int_id ELSE id
      next == IF id = 0 THEN next_int_id + 1 ELSE next_int_id
  IN /\ ~shutting_down
     /\ Active(o)
     /\ authority = CurrentAuthority(o)
     /\ Feasible(t, facts)
     /\ ~CoolingDown(o)
     /\ next_int_id <= MaxIds
     /\ interventions' = Put(interventions, i,
          [type |-> t, status |-> "AUTHORIZED", objective |-> o,
           generation |-> next, authority |-> authority,
           proposed_at_ns |-> now, expiry_at_ns |-> expiry])
     /\ next_int_id' = next
     /\ last_intervention_ns' = Put(last_intervention_ns, o, now)
     /\ UNCHANGED <<fences, inputs, outcomes>>

(* A caller proposes class t for o under the context it holds, with no     *)
(* expiry or one of its choice, with an identity of its own or none.       *)
Propose(o, t) ==
  /\ \E id \in CallerIds \cup {0}, x \in {0} \cup {now + d : d \in Lifetimes} :
       Authorize(o, t, id, held[o], x)
  /\ UNCHANGED held

(* decide evaluates, selects class t for the binding objective o, and      *)
(* authorizes its own proposal before it releases the mutex.  When         *)
(* authorize refuses, what is left of decide is Evaluate(o).               *)
Decide(o, t) ==
  /\ Authorize(o, t, 0, CurrentAuthority(o), now + DecideLifetime)
  /\ held' = [held EXCEPT ![o] = CurrentAuthority(o)]

-----------------------------------------------------------------------------
SetStatus(i, s) ==
  interventions' = [interventions EXCEPT ![i].status = s]

(* Mutated forms of dispatch. *)
Dispatch_NoRevalidation(i) ==
  /\ ~shutting_down
  /\ interventions[i].status = "AUTHORIZED"
  /\ SetStatus(i, IF ~Active(interventions[i].objective) THEN "FAILED"
                  ELSE IF ~Feasible(interventions[i].type, facts) THEN "FAILED"
                  ELSE "DISPATCHED")
  /\ UNCHANGED <<fences, inputs, outcomes, last_intervention_ns,
                 next_int_id, held>>

Dispatch_DuringShutdown(i) ==
  /\ interventions[i].status = "AUTHORIZED"
  /\ SetStatus(i, "DISPATCHED")
  /\ UNCHANGED <<fences, inputs, outcomes, last_intervention_ns,
                 next_int_id, held>>

(* What pre-dispatch revalidation finds, in the code's order: the          *)
(* objective is still active, its authority has not moved, the facts still *)
(* allow the class.                                                        *)
Revalidated(inv) ==
  IF ~Active(inv.objective) THEN "FAILED"
  ELSE IF inv.authority # CurrentAuthority(inv.objective) THEN "SUPERSEDED"
  ELSE IF ~Feasible(inv.type, facts) THEN "FAILED"
  ELSE "DISPATCHED"

(* dispatch: an AUTHORIZED intervention is dispatched or, when it does not *)
(* pass revalidation, ended.                                               *)
Dispatch(i) ==
  /\ ~shutting_down
  /\ interventions[i].status = "AUTHORIZED"
  /\ SetStatus(i, Revalidated(interventions[i]))
  /\ UNCHANGED <<fences, inputs, outcomes, last_intervention_ns,
                 next_int_id, held>>

Acknowledge(i) ==
  /\ interventions[i].status = "DISPATCHED"
  /\ SetStatus(i, "ACKNOWLEDGED")
  /\ UNCHANGED <<fences, inputs, outcomes, last_intervention_ns,
                 next_int_id, held>>

Terminal(i) == interventions[i].status \in TerminalStatuses

(* Mutated form: a late outcome overwrites an earlier end. *)
RecordOutcome_Late(i, outcome) ==
  /\ SetStatus(i, StatusOfOutcome(outcome))
  /\ outcomes' = Put(outcomes, i, outcome)
  /\ UNCHANGED <<fences, inputs, last_intervention_ns, next_int_id, held>>

(* Mutated form: the outcome is stored whether or not it was accepted. *)
RecordOutcome_StoreFirst(i, outcome) ==
  /\ SetStatus(i, IF Terminal(i) THEN interventions[i].status
                  ELSE StatusOfOutcome(outcome))
  /\ outcomes' = Put(outcomes, i, outcome)
  /\ UNCHANGED <<fences, inputs, last_intervention_ns, next_int_id, held>>

(* record_outcome: from any status that is not terminal, so also for an    *)
(* intervention that was never dispatched or never acknowledged.           *)
RecordOutcome(i, outcome) ==
  /\ ~Terminal(i)
  /\ SetStatus(i, StatusOfOutcome(outcome))
  /\ outcomes' = Put(outcomes, i, outcome)
  /\ UNCHANGED <<fences, inputs, last_intervention_ns, next_int_id, held>>

(* cancel: ACKNOWLEDGED is past the irreversible cancellation boundary. *)
Cancel(i) ==
  /\ interventions[i].status \in {"PROPOSED", "AUTHORIZED", "DISPATCHED"}
  /\ SetStatus(i, "CANCELLED")
  /\ UNCHANGED <<fences, inputs, outcomes, last_intervention_ns,
                 next_int_id, held>>

Supersede(i) ==
  /\ ~Terminal(i)
  /\ SetStatus(i, "SUPERSEDED")
  /\ UNCHANGED <<fences, inputs, outcomes, last_intervention_ns,
                 next_int_id, held>>

-----------------------------------------------------------------------------
(* The operations of one intervention, and of the governor around it. *)
Follow(i) ==
  \/ Dispatch(i)
  \/ Acknowledge(i)
  \/ \E outcome \in Outcomes : RecordOutcome(i, outcome)
  \/ Cancel(i)
  \/ Supersede(i)

Next ==
  \/ \E p \in Policies : SetPolicy(p)
  \/ AdvanceEpoch
  \/ \E k \in GenKinds, g \in 0..MaxGen : SetGeneration(k, g)
  \/ \E f \in FactSets : SetResourceFacts(f)
  \/ \E t \in 0..MaxNow : SetClock(t)
  \/ BeginShutdown
  \/ \E o \in ObjectiveIds : Evaluate(o)
  \/ \E o \in ObjectiveIds, t \in Types : Propose(o, t)
  \/ \E o \in ObjectiveIds, t \in Types : Decide(o, t)
  \/ \E i \in DOMAIN interventions : Follow(i)

Spec == Init /\ [][Next]_vars

-----------------------------------------------------------------------------
(* An outcome is on record for an intervention exactly when the record     *)
(* explains its status: the recorded outcome maps to the status, and the   *)
(* statuses that only an outcome can give have one.  An outcome that       *)
(* arrives after a cancellation, a supersession or another outcome must    *)
(* not break this (record_outcome's terminal test precedes its store).     *)
OutcomeExplainsStatus ==
  /\ \A i \in DOMAIN outcomes :
       interventions[i].status = StatusOfOutcome(outcomes[i])
  /\ \A i \in DOMAIN interventions :
       interventions[i].status \in {"EFFECTIVE", "INEFFECTIVE", "OUTCOME_UNKNOWN"}
         => i \in DOMAIN outcomes

(* The shortest cooldown o has in any policy a caller may install. *)
AtLeastCoolDown(o, d) ==
  \A p \in Policies :
    o \in DOMAIN p.objectives => p.objectives[o].cool_down >= d

(* Cooldown bounds repeated authorities: however policies, clock and       *)
(* evaluations interleave, and whether decide or a caller proposes, two    *)
(* interventions of one objective are authorized at least its cooldown     *)
(* apart, even when the first has long ended (authorize, cooldown test).   *)
CooldownSpacing ==
  \A i, j \in DOMAIN interventions :
    /\ i < j
    /\ interventions[i].objective = interventions[j].objective
    => \A d \in 1..MaxNow :
         AtLeastCoolDown(interventions[i].objective, d)
           => interventions[j].proposed_at_ns
                >= interventions[i].proposed_at_ns + d

(* The governor's own books.  Every identity on record is below the next   *)
(* one to issue, so that none is issued twice; and the time noted for an   *)
(* objective's last intervention is the latest of all that were authorized *)
(* for it, wherever the clock has been set meanwhile, when the objective   *)
(* has a cooldown (authorize: next_int_id and last_intervention_ns).       *)
Bookkeeping ==
  \A i \in DOMAIN interventions :
    /\ i < next_int_id
    /\ interventions[i].objective \in DOMAIN last_intervention_ns
    /\ AtLeastCoolDown(interventions[i].objective, 1)
         => interventions[i].proposed_at_ns
              <= last_intervention_ns[interventions[i].objective]

(* An intervention that has ended never changes again: no operation on it, *)
(* and no operation on another intervention, touches its record. (The      *)
(* is_terminal tests of record_outcome, cancel and supersede, and the      *)
(* freshness of the identities authorize issues.)                          *)
TerminalIsFinal ==
  [][\A i \in DOMAIN interventions :
       Terminal(i) => /\ i \in DOMAIN interventions'
                      /\ interventions'[i] = interventions[i]]_vars

(* The promises of Lifecycle: one issue per identity, in order, at most    *)
(* one dispatch, nothing issued or dispatched once shutdown has begun.     *)
StageOf(s) ==
  CASE s = "AUTHORIZED" -> "authorized"
    [] s = "DISPATCHED" -> "dispatched"
    [] s = "ACKNOWLEDGED" -> "acknowledged"
    [] OTHER -> "ended"

L == INSTANCE Lifecycle
       WITH stage <- [i \in DOMAIN interventions |->
                        StageOf(interventions[i].status)],
            closed <- shutting_down

Implements == L!LSpec

(* No intervention is dispatched once the moment its expiry names is past  *)
(* (expiry_at_ns, where 0 means never).                                    *)
ExpiryHonoured ==
  [][\A i \in DOMAIN interventions :
       /\ interventions[i].status = "AUTHORIZED"
       /\ interventions'[i].status = "DISPATCHED"
       => \/ interventions[i].expiry_at_ns = 0
          \/ now <= interventions[i].expiry_at_ns]_vars
=============================================================================
