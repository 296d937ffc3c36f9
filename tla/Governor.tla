------------------------------ MODULE Governor ------------------------------
(***************************************************************************)
(* TailGovernor whole: Interventions and Evidence over one policy, one     *)
(* epoch, one clock and one shutdown flag.  What only one half touches is  *)
(* its action alone; what both touch is the conjunction of their actions.  *)
(* decide joins them: it issues an intervention for what it has just found *)
(* in the evidence, all under one lock.                                    *)
(***************************************************************************)
EXTENDS Naturals, FiniteSets

CONSTANTS
  ObjectiveIds, Policies, GenKinds, FactSets, Types, CallerIds, Lifetimes,
  DecideLifetime, Workers, Boots, Events,
  MaxEpoch, MaxGen, MaxNow, MaxIds

VARIABLES
  epoch, pol, gens, facts, now, shutting_down,
  interventions, outcomes, last_intervention_ns, next_int_id, held,
  worker_boots, windows, seen, revalidate_needed, last_state, recover_streak

(* The objectives of a policy carry the fields that either half reads. *)
I == INSTANCE Interventions
E == INSTANCE Evidence
       WITH pol <- pol.objectives,
            Policies <- {p.objectives : p \in Policies}

ASSUME PoliciesAssumption ==
  \A p \in Policies : I!IsPolicy(p) /\ E!IsPolicy(p.objectives)
ASSUME CallersAssumption ==
  /\ ObjectiveIds \subseteq Nat
  /\ Types \subseteq I!InterventionTypes
  /\ CallerIds \subseteq Nat \ {0}
  /\ Lifetimes \subseteq Nat /\ DecideLifetime \in Nat
  /\ Events \subseteq E!Event
ASSUME BoundsAssumption ==
  /\ MaxEpoch \in Nat /\ MaxGen \in Nat /\ MaxNow \in Nat /\ MaxIds \in Nat

fences == <<epoch, pol, gens, facts, now, shutting_down>>
records == <<interventions, outcomes, last_intervention_ns, next_int_id>>
evidenceVars ==
  <<worker_boots, windows, seen, revalidate_needed, last_state, recover_streak>>
vars == <<fences, records, held, evidenceVars>>

Init == I!Init /\ E!Init

TypeOK == I!TypeOK /\ E!TypeOK

-----------------------------------------------------------------------------
SetPolicy(p) == I!SetPolicy(p) /\ UNCHANGED evidenceVars

SetClock(t) == I!SetClock(t) /\ UNCHANGED evidenceVars

BeginShutdown == I!BeginShutdown /\ UNCHANGED evidenceVars

AdvanceEpoch == I!AdvanceEpoch /\ E!AdvanceEpoch

(* The contexts that an evaluation of every enabled objective returns. *)
HeldAfterAll ==
  [o \in ObjectiveIds |-> IF I!Active(o) THEN I!CurrentAuthority(o) ELSE held[o]]

Evaluate(o) == I!Evaluate(o) /\ E!Evaluate(o)

EvaluateAll ==
  /\ held' = HeldAfterAll
  /\ UNCHANGED <<fences, records>>
  /\ E!EvaluateAll

Violating(o) == I!Active(o) /\ last_state'[o] \in {"VIOLATING", "SEVERE"}

(* The binding objective is a violating one if there is any (Selection     *)
(* says which), otherwise one at risk.                                     *)
Binding(o) ==
  \/ Violating(o)
  \/ /\ I!Active(o) /\ last_state'[o] = "AT_RISK"
     /\ ~ \E p \in ObjectiveIds : Violating(p)

(* Mutated form: decide acts on any objective it has evaluated. *)
Decide_AnyState(o, t) ==
  /\ I!Authorize(o, t, 0, I!CurrentAuthority(o), now + DecideLifetime)
  /\ held' = HeldAfterAll
  /\ E!EvaluateAll

(* decide: evaluate everything, then authorize a feasible class for the    *)
(* binding objective.  With nothing binding or authorize refusing, what is *)
(* left of it is EvaluateAll.                                              *)
Decide(o, t) ==
  /\ I!Authorize(o, t, 0, I!CurrentAuthority(o), now + DecideLifetime)
  /\ held' = HeldAfterAll
  /\ E!EvaluateAll
  /\ Binding(o)

-----------------------------------------------------------------------------
(* What only the interventions, or only the evidence, takes part in. *)
InterventionStep ==
  /\ \/ \E k \in GenKinds, g \in 0..MaxGen : I!SetGeneration(k, g)
     \/ \E f \in FactSets : I!SetResourceFacts(f)
     \/ \E o \in ObjectiveIds, t \in Types : I!Propose(o, t)
     \/ \E i \in DOMAIN interventions : I!Follow(i)
  /\ UNCHANGED evidenceVars

EvidenceStep ==
  /\ UNCHANGED <<fences, records, held>>
  /\ \/ \E w \in Workers, b \in Boots : E!RegisterWorker(w, b)
     \/ \E w \in Workers : E!UnregisterWorker(w)
     \/ \E ev \in Events : E!Ingest(ev)

Next ==
  \/ \E p \in Policies : SetPolicy(p)
  \/ \E t \in 0..MaxNow : SetClock(t)
  \/ BeginShutdown
  \/ AdvanceEpoch
  \/ \E o \in ObjectiveIds : Evaluate(o)
  \/ EvaluateAll
  \/ \E o \in ObjectiveIds, t \in Types : Decide(o, t)
  \/ InterventionStep
  \/ EvidenceStep

Spec == Init /\ [][Next]_vars

-----------------------------------------------------------------------------
(* Decisions rest on current evidence: whatever decide authorizes is for   *)
(* an objective with enough requests of this epoch in its window, one of   *)
(* them fresh, however many policies, epochs and worker incarnations lie   *)
(* between the evidence and the decision (decide, evaluate, ingest).       *)
DecidesOnCurrentEvidence ==
  [][\A o \in ObjectiveIds, t \in Types :
       next_int_id' # next_int_id /\ Decide(o, t) =>
         LET samples == windows'[E!KeyOf(o)].samples
         IN /\ Cardinality({s.request : s \in samples}) >= pol.objectives[o].required
            /\ \E s \in samples : s.epoch = epoch /\ ~E!TooOld(o, {s})]_vars
=============================================================================
