--------------------------- MODULE GovernorProofs ---------------------------
(***************************************************************************)
(* Theorems about Governor: what is proved of either half holds of the     *)
(* whole, and what decide does rests on both.                              *)
(***************************************************************************)
EXTENDS Governor, TLAPS

(* The halves with their theorems. *)
IP == INSTANCE InterventionsProofs
EP == INSTANCE EvidenceProofs
        WITH pol <- pol.objectives,
             Policies <- {p.objectives : p \in Policies}

-----------------------------------------------------------------------------
(* The assumptions of the halves follow from those of the whole. *)
LEMMA InterventionAssumptions ==
  /\ ObjectiveIds \subseteq Nat
  /\ \A p \in Policies : IP!IsPolicy(p)
  /\ Types \subseteq IP!InterventionTypes
  /\ CallerIds \subseteq Nat \ {0}
  /\ Lifetimes \subseteq Nat /\ DecideLifetime \in Nat
  /\ MaxEpoch \in Nat /\ MaxGen \in Nat /\ MaxNow \in Nat /\ MaxIds \in Nat
BY PoliciesAssumption, CallersAssumption, BoundsAssumption
DEF IP!IsPolicy, I!IsPolicy, IP!IsObjective, I!IsObjective,
    IP!InterventionTypes, I!InterventionTypes

LEMMA EvidenceAssumptions ==
  /\ \A q \in {p.objectives : p \in Policies} : EP!IsPolicy(q)
  /\ Events \subseteq EP!Event
  /\ MaxEpoch \in Nat /\ MaxNow \in Nat
BY PoliciesAssumption, CallersAssumption, BoundsAssumption
DEF EP!IsPolicy, E!IsPolicy, EP!IsObjective, E!IsObjective, EP!Event, E!Event,
    EP!WindowConfig, E!WindowConfig, EP!Modes, E!Modes

-----------------------------------------------------------------------------
(* Governor and the theorems speak of two instances of each half, with the *)
(* same definitions. *)
LEMMA SameWindows ==
  /\ \A w, n : E!KeepLast(w, n) = EP!KeepLast(w, n)
  /\ \A w, c : E!NotBefore(w, c) = EP!NotBefore(w, c)
  /\ \A cfg, w, s : E!Insert(cfg, w, s) = EP!Insert(cfg, w, s)
  /\ \A cfg, w, t : E!Prune(cfg, w, t) = EP!Prune(cfg, w, t)
  /\ \A w : E!LatestCaptured(w) = EP!LatestCaptured(w)
  /\ \A w, permille : E!Quantile(w, permille) = EP!Quantile(w, permille)
<1>1. /\ \A S : E!Cardinality(S) = EP!Cardinality(S)
      /\ \A S : E!Max(S) = EP!Max(S)
      /\ \A S : E!Min(S) = EP!Min(S)
  BY DEF E!Cardinality, EP!Cardinality, E!Max, EP!Max, E!Min, EP!Min
<1>2. /\ \A w, n : E!KeepLast(w, n) = EP!KeepLast(w, n)
      /\ \A w, c : E!NotBefore(w, c) = EP!NotBefore(w, c)
  BY DEF E!KeepLast, EP!KeepLast, E!NotBefore, EP!NotBefore,
         E!Cardinality, EP!Cardinality
<1>3. \A cfg, w, s : E!Insert(cfg, w, s) = EP!Insert(cfg, w, s)
  BY <1>2 DEF E!Insert, EP!Insert
<1>4. \A cfg, w, t : E!Prune(cfg, w, t) = EP!Prune(cfg, w, t)
  BY <1>2 DEF E!Prune, EP!Prune, E!Quotient, EP!Quotient
<1>5. \A w : E!LatestCaptured(w) = EP!LatestCaptured(w)
  BY <1>1 DEF E!LatestCaptured, EP!LatestCaptured
<1>6. \A w, permille : E!Quantile(w, permille) = EP!Quantile(w, permille)
  <2>1. \A permille, n : E!RoundsUp(permille, n) <=> EP!RoundsUp(permille, n)
    BY DEF E!RoundsUp, EP!RoundsUp, E!Max, EP!Max
  <2>2. \A permille, n : E!Rank(permille, n) = EP!Rank(permille, n)
    BY <2>1 DEF E!Rank, EP!Rank
  <2>3. SUFFICES ASSUME NEW w, NEW permille
                 PROVE  E!Quantile(w, permille) = EP!Quantile(w, permille)
    OBVIOUS
  <2>4. {t \in w : E!Cardinality({u \in w : u.latency <= t.latency})
                     >= E!Rank(permille, E!Cardinality(w))}
          = {t \in w : EP!Cardinality({u \in w : u.latency <= t.latency})
                         >= EP!Rank(permille, EP!Cardinality(w))}
    BY <1>1, <2>2
  <2> QED
    BY <1>1, <2>4 DEF E!Quantile, EP!Quantile
<1> QED
  BY <1>2, <1>3, <1>4, <1>5, <1>6

LEMMA SameEvaluations ==
  /\ \A os : E!EvaluateEach(os) <=> EP!EvaluateEach(os)
  /\ E!EvaluateAll <=> EP!EvaluateAll
  /\ \A o : E!Evaluate(o) <=> EP!Evaluate(o)
<1>1. /\ \A o : E!KeyOf(o) = EP!KeyOf(o)
      /\ \A o : E!Active(o) <=> EP!Active(o)
      /\ E!Degraded = EP!Degraded
  BY DEF E!KeyOf, EP!KeyOf, E!Active, EP!Active, E!Degraded, EP!Degraded
<1>2. \A o : E!Pruned(o) = EP!Pruned(o)
  BY SameWindows, <1>1 DEF E!Pruned, EP!Pruned, E!WindowAt, EP!WindowAt
<1>3. \A o, v : E!Judge(o, v) = EP!Judge(o, v)
  BY <1>1 DEF E!Judge, EP!Judge
<1>4. \A o, samples : E!Verdict(o, samples) = EP!Verdict(o, samples)
  <2>1. \A o, samples : E!TooOld(o, samples) <=> EP!TooOld(o, samples)
    BY SameWindows DEF E!TooOld, EP!TooOld
  <2>2. \A S : E!Cardinality(S) = EP!Cardinality(S)
    BY DEF E!Cardinality, EP!Cardinality
  <2> QED
    BY <1>3, <2>1, <2>2, SameWindows DEF E!Verdict, EP!Verdict
<1>5. \A os : E!EvaluateEach(os) <=> EP!EvaluateEach(os)
  <2> SUFFICES ASSUME NEW os
               PROVE  E!EvaluateEach(os) <=> EP!EvaluateEach(os)
    OBVIOUS
  <2>1. {E!KeyOf(o) : o \in os} = {EP!KeyOf(o) : o \in os}
    BY <1>1
  <2>2. [o \in os |-> E!Verdict(o, E!Pruned(o).samples)]
          = [o \in os |-> EP!Verdict(o, EP!Pruned(o).samples)]
    BY <1>2, <1>4
  <2>3. \A key :
          [k \in DOMAIN windows \cup key |->
             IF k \in key THEN E!Pruned(k[1]) ELSE windows[k]]
            = [k \in DOMAIN windows \cup key |->
                 IF k \in key THEN EP!Pruned(k[1]) ELSE windows[k]]
    BY <1>2
  <2> QED
    BY <2>1, <2>2, <2>3, Zenon
    DEF E!EvaluateEach, EP!EvaluateEach, E!context, EP!context
<1> QED
  BY <1>1, <1>5 DEF E!EvaluateAll, EP!EvaluateAll, E!Evaluate, EP!Evaluate

LEMMA SameEvidence ==
  /\ E!Init <=> EP!Init
  /\ E!Next <=> EP!Next
  /\ E!vars = EP!vars
  /\ E!TypeOK <=> EP!TypeOK
<1>1. /\ E!context = EP!context
      /\ E!evidence = EP!evidence
      /\ E!verdicts = EP!verdicts
      /\ E!vars = EP!vars
  BY DEF E!context, EP!context, E!evidence, EP!evidence, E!verdicts,
         EP!verdicts, E!vars, EP!vars
<1>2. E!Init <=> EP!Init
  BY DEF E!Init, EP!Init
<1>3. E!TypeOK <=> EP!TypeOK
  BY DEF E!TypeOK, EP!TypeOK, E!ObservationWindow, EP!ObservationWindow,
         E!WindowConfig, EP!WindowConfig, E!Modes, EP!Modes,
         E!Sample, EP!Sample, E!TailStates, EP!TailStates
<1>4. \A ev \in Events : E!Ingest(ev) <=> EP!Ingest(ev)
  <2>1. \A ev : E!Inserted(ev) = EP!Inserted(ev)
    <3>1. \A k : E!WindowAt(k) = EP!WindowAt(k)
      BY DEF E!WindowAt, EP!WindowAt
    <3>2. \A ev : E!SampleOf(ev) = EP!SampleOf(ev)
      BY DEF E!SampleOf, EP!SampleOf, E!Cardinality, EP!Cardinality
    <3>3. \A ev : E!KeysOf(ev) = EP!KeysOf(ev)
      BY DEF E!KeysOf, EP!KeysOf
    <3> QED
      BY <3>1, <3>2, <3>3, SameWindows DEF E!Inserted, EP!Inserted
  <2> QED
    BY <2>1 DEF E!Ingest, EP!Ingest, E!Admissible, EP!Admissible,
      E!Active, EP!Active, E!context, EP!context, E!verdicts, EP!verdicts
<1>5. /\ \A w, b : E!RegisterWorker(w, b) <=> EP!RegisterWorker(w, b)
      /\ \A w : E!UnregisterWorker(w) <=> EP!UnregisterWorker(w)
      /\ \A p : E!SetPolicy(p) <=> EP!SetPolicy(p)
      /\ \A t : E!SetClock(t) <=> EP!SetClock(t)
      /\ E!BeginShutdown <=> EP!BeginShutdown
  BY DEF E!RegisterWorker, EP!RegisterWorker, E!UnregisterWorker,
    EP!UnregisterWorker, E!SetPolicy, EP!SetPolicy, E!SetClock, EP!SetClock,
    E!BeginShutdown, EP!BeginShutdown, E!evidence, EP!evidence,
    E!verdicts, EP!verdicts
<1>6. E!AdvanceEpoch <=> EP!AdvanceEpoch
  BY DEF E!AdvanceEpoch, EP!AdvanceEpoch, E!RevalidatePolicy,
    EP!RevalidatePolicy, E!verdicts, EP!verdicts
<1>7. E!Next <=> EP!Next
  BY <1>4, <1>5, <1>6, SameEvaluations, Zenon DEF E!Next, EP!Next
<1> QED
  BY <1>1, <1>2, <1>3, <1>7

-----------------------------------------------------------------------------
(* Whatever the governor does is a step of the evidence half, or none. *)
LEMMA EvidenceSteps ==
  ASSUME [Next]_vars
  PROVE  [E!Next]_(E!vars)
<1> USE DEF E!vars, E!context, E!evidence, E!verdicts, evidenceVars, fences,
            records
<1>1. CASE \E p \in Policies : SetPolicy(p)
  <2>1. PICK p \in Policies : SetPolicy(p)
    BY <1>1
  <2>2. E!SetPolicy(p.objectives)
    BY <2>1 DEF SetPolicy, I!SetPolicy, E!SetPolicy, I!inputs
  <2> QED
    BY <2>2 DEF E!Next
<1>2. CASE \E t \in 0..MaxNow : SetClock(t)
  <2>1. PICK t \in 0..MaxNow : SetClock(t)
    BY <1>2
  <2>2. E!SetClock(t)
    BY <2>1 DEF SetClock, I!SetClock, E!SetClock, I!fences
  <2> QED
    BY <2>2 DEF E!Next
<1>3. CASE BeginShutdown
  <2>1. E!BeginShutdown
    BY <1>3 DEF BeginShutdown, I!BeginShutdown, E!BeginShutdown, I!fences
  <2> QED
    BY <2>1 DEF E!Next
<1>4. CASE AdvanceEpoch \/ EvaluateAll \/ \E o \in ObjectiveIds : Evaluate(o)
  BY <1>4 DEF AdvanceEpoch, EvaluateAll, Evaluate, E!Next
<1>5. CASE \E o \in ObjectiveIds, t \in Types : Decide(o, t)
  BY <1>5 DEF Decide, E!Next
<1>6. CASE InterventionStep
  <2>1. UNCHANGED <<epoch, pol, now, shutting_down>>
    BY <1>6 DEF InterventionStep, I!SetGeneration, I!SetResourceFacts, I!Propose,
      I!Authorize, I!Follow, I!Dispatch, I!Acknowledge, I!RecordOutcome,
      I!Cancel, I!Supersede, I!fences, I!inputs
  <2> QED
    BY <1>6, <2>1 DEF InterventionStep
<1>7. CASE EvidenceStep
  BY <1>7 DEF EvidenceStep, E!Next
<1>8. CASE UNCHANGED vars
  BY <1>8 DEF vars
<1> QED
  BY <1>1, <1>2, <1>3, <1>4, <1>5, <1>6, <1>7, <1>8 DEF Next

-----------------------------------------------------------------------------
LEMMA SameInterventions ==
  /\ I!Init <=> IP!Init
  /\ I!TypeOK <=> IP!TypeOK
  /\ \A o : I!Active(o) <=> IP!Active(o)
  /\ \A o : I!CurrentAuthority(o) = IP!CurrentAuthority(o)
  /\ \A o, t, id, a, x : I!Authorize(o, t, id, a, x) <=> IP!Authorize(o, t, id, a, x)
  /\ I!NoAuthority = IP!NoAuthority
<1>1. /\ \A o : I!Active(o) <=> IP!Active(o)
      /\ \A o : I!CurrentAuthority(o) = IP!CurrentAuthority(o)
      /\ I!NoAuthority = IP!NoAuthority
  BY DEF I!Active, IP!Active, I!CurrentAuthority, IP!CurrentAuthority,
         I!NoAuthority, IP!NoAuthority
<1>2. I!Init <=> IP!Init
  BY <1>1 DEF I!Init, IP!Init, I!NoPolicy, IP!NoPolicy, I!DefaultFacts,
              IP!DefaultFacts
<1>3. I!Intervention = IP!Intervention /\ I!Authority = IP!Authority
  BY <1>1 DEF I!Intervention, IP!Intervention, I!Authority, IP!Authority,
              I!RecordedStatuses, IP!RecordedStatuses, I!Statuses, IP!Statuses
<1>4. I!TypeOK <=> IP!TypeOK
  BY <1>1, <1>3 DEF I!TypeOK, IP!TypeOK, I!NoPolicy, IP!NoPolicy,
    I!DefaultFacts, IP!DefaultFacts, I!Outcomes, IP!Outcomes
<1>5. \A o, t, id, a, x :
        I!Authorize(o, t, id, a, x) <=> IP!Authorize(o, t, id, a, x)
  <2>1. \A t, f : I!Feasible(t, f) <=> IP!Feasible(t, f)
    BY DEF I!Feasible, IP!Feasible, I!InfeasibilityOf, IP!InfeasibilityOf,
           I!Gate, IP!Gate
  <2>2. \A f, k, v : I!Put(f, k, v) = IP!Put(f, k, v)
    BY DEF I!Put, IP!Put
  <2>3. \A o : I!CoolingDown(o) <=> IP!CoolingDown(o)
    BY DEF I!CoolingDown, IP!CoolingDown
  <2> QED
    BY <1>1, <2>1, <2>2, <2>3 DEF I!Authorize, IP!Authorize,
       I!fences, IP!fences, I!inputs, IP!inputs
<1> QED
  BY <1>1, <1>2, <1>4, <1>5

(* The operations of one intervention are the same in both instances. *)
LEMMA SameFollow == \A i : I!Follow(i) <=> IP!Follow(i)
<1> USE DEF I!SetStatus, IP!SetStatus, I!fences, IP!fences, I!inputs, IP!inputs
<1>1. \A i : I!Terminal(i) <=> IP!Terminal(i)
  BY DEF I!Terminal, IP!Terminal, I!TerminalStatuses, IP!TerminalStatuses,
    I!Statuses, IP!Statuses
<1>2. \A inv : I!Revalidated(inv) = IP!Revalidated(inv)
  <2>1. \A t, f : I!Feasible(t, f) <=> IP!Feasible(t, f)
    BY DEF I!Feasible, IP!Feasible, I!InfeasibilityOf, IP!InfeasibilityOf,
           I!Gate, IP!Gate
  <2> QED
    BY <2>1, SameInterventions DEF I!Revalidated, IP!Revalidated
<1>3. /\ \A i : I!Dispatch(i) <=> IP!Dispatch(i)
      /\ \A i : I!Acknowledge(i) <=> IP!Acknowledge(i)
      /\ \A i : I!Cancel(i) <=> IP!Cancel(i)
      /\ \A i : I!Supersede(i) <=> IP!Supersede(i)
  BY <1>1, <1>2 DEF I!Dispatch, IP!Dispatch, I!Acknowledge, IP!Acknowledge,
    I!Cancel, IP!Cancel, I!Supersede, IP!Supersede
<1>4. /\ I!Outcomes = IP!Outcomes
      /\ \A i, x : I!RecordOutcome(i, x) <=> IP!RecordOutcome(i, x)
  <2>1. \A x : I!StatusOfOutcome(x) = IP!StatusOfOutcome(x)
    BY DEF I!StatusOfOutcome, IP!StatusOfOutcome
  <2>2. \A f, k, v : I!Put(f, k, v) = IP!Put(f, k, v)
    BY DEF I!Put, IP!Put
  <2> QED
    BY <1>1, <2>1, <2>2 DEF I!Outcomes, IP!Outcomes, I!RecordOutcome,
       IP!RecordOutcome
<1> QED
  BY <1>3, <1>4 DEF I!Follow, IP!Follow

(* Whatever the governor does is a step of the intervention half, except   *)
(* that the evaluations of all objectives together, in evaluate_all and in *)
(* decide, hand out several contexts at once.                              *)
LEMMA InterventionSteps ==
  ASSUME [Next]_vars
  PROVE  \/ [IP!Next]_(IP!vars)
         \/ /\ held' = HeldAfterAll
            /\ UNCHANGED <<fences, records>>
         \/ /\ held' = HeldAfterAll
            /\ \E o \in ObjectiveIds, t \in Types :
                 IP!Authorize(o, t, 0, IP!CurrentAuthority(o), now + DecideLifetime)
<1> USE DEF IP!vars, IP!fences, IP!inputs, IP!records, I!fences, I!inputs,
            I!records
<1>1. CASE \E p \in Policies : SetPolicy(p)
  BY <1>1 DEF SetPolicy, I!SetPolicy, IP!SetPolicy, IP!Next
<1>2. CASE \E t \in 0..MaxNow : SetClock(t)
  BY <1>2 DEF SetClock, I!SetClock, IP!SetClock, IP!Next
<1>3. CASE BeginShutdown
  BY <1>3 DEF BeginShutdown, I!BeginShutdown, IP!BeginShutdown, IP!Next
<1>4. CASE AdvanceEpoch
  BY <1>4 DEF AdvanceEpoch, I!AdvanceEpoch, IP!AdvanceEpoch, IP!Next
<1>5. CASE \E o \in ObjectiveIds : Evaluate(o)
  BY <1>5, SameInterventions DEF Evaluate, I!Evaluate, IP!Evaluate, IP!Next
<1>6. CASE EvaluateAll
  BY <1>6 DEF EvaluateAll
<1>7. CASE \E o \in ObjectiveIds, t \in Types : Decide(o, t)
  BY <1>7, SameInterventions DEF Decide
<1>8. CASE InterventionStep
  <2>1. CASE \E k \in GenKinds, g \in 0..MaxGen : I!SetGeneration(k, g)
    BY <2>1 DEF I!SetGeneration, IP!SetGeneration, IP!Next
  <2>2. CASE \E f \in FactSets : I!SetResourceFacts(f)
    BY <2>2 DEF I!SetResourceFacts, IP!SetResourceFacts, IP!Next
  <2>3. CASE \E o \in ObjectiveIds, t \in Types : I!Propose(o, t)
    BY <2>3, SameInterventions DEF I!Propose, IP!Propose, IP!Next
  <2>4. CASE \E i \in DOMAIN interventions : I!Follow(i)
    BY <2>4, SameFollow DEF IP!Next
  <2> QED
    BY <1>8, <2>1, <2>2, <2>3, <2>4 DEF InterventionStep
<1>9. CASE EvidenceStep
  BY <1>9 DEF EvidenceStep, fences, records
<1>10. CASE UNCHANGED vars
  BY <1>10 DEF vars, fences, records
<1> QED
  BY <1>1, <1>2, <1>3, <1>4, <1>5, <1>6, <1>7, <1>8, <1>9, <1>10 DEF Next

-----------------------------------------------------------------------------
(* The invariants of the halves, under every step of the whole. *)
LEMMA HeldAfterAllType ==
  ASSUME IP!TypeOK
  PROVE  HeldAfterAll \in [ObjectiveIds -> IP!Authority \cup {IP!NoAuthority}]
<1>1. ASSUME NEW o \in ObjectiveIds, I!Active(o)
      PROVE  I!CurrentAuthority(o) \in IP!Authority
  BY <1>1, IP!CurrentAuthorityType, InterventionAssumptions, SameInterventions
<1>2. held \in [ObjectiveIds -> IP!Authority \cup {IP!NoAuthority}]
  BY DEF IP!TypeOK
<1> QED
  BY <1>1, <1>2 DEF HeldAfterAll

LEMMA InterventionsTyped ==
  ASSUME IP!TypeOK, [Next]_vars
  PROVE  IP!TypeOK'
<1>1. CASE [IP!Next]_(IP!vars)
  BY <1>1, IP!NextType, InterventionAssumptions
<1>2. CASE held' = HeldAfterAll /\ UNCHANGED <<fences, records>>
  BY <1>2, HeldAfterAllType DEF IP!TypeOK, fences, records
<1>3. CASE /\ held' = HeldAfterAll
           /\ \E o \in ObjectiveIds, t \in Types :
                IP!Authorize(o, t, 0, IP!CurrentAuthority(o), now + DecideLifetime)
  <2>1. PICK o \in ObjectiveIds, t \in Types :
          IP!Authorize(o, t, 0, IP!CurrentAuthority(o), now + DecideLifetime)
    BY <1>3
  <2>2. now + DecideLifetime \in Nat /\ 0 \in Nat
    BY CallersAssumption DEF IP!TypeOK
  <2>3. held' \in [ObjectiveIds -> IP!Authority \cup {IP!NoAuthority}]
    BY <1>3, HeldAfterAllType
  <2> QED
    BY <2>1, <2>2, <2>3, IP!AuthorizeType, InterventionAssumptions
<1> QED
  BY <1>1, <1>2, <1>3, InterventionSteps

LEMMA InterventionInv ==
  ASSUME CallerIds = {}, IP!Inv, [Next]_vars
  PROVE  IP!Inv'
<1>1. IP!TypeOK'
  BY InterventionsTyped DEF IP!Inv
<1>2. CASE [IP!Next]_(IP!vars)
  BY <1>2, IP!NextInv, InterventionAssumptions
<1>3. CASE UNCHANGED records
  BY <1>1, <1>3, IP!UnchangedInv, InterventionAssumptions DEF IP!records, records
<1>4. CASE \E o \in ObjectiveIds, t \in Types :
             IP!Authorize(o, t, 0, IP!CurrentAuthority(o), now + DecideLifetime)
  <2>1. now + DecideLifetime \in Nat
    BY CallersAssumption DEF IP!Inv, IP!TypeOK
  <2> QED
    BY <1>1, <1>4, <2>1, IP!AuthorizeInv, InterventionAssumptions
<1> QED
  BY <1>2, <1>3, <1>4, InterventionSteps

LEMMA EvidenceStaysSound ==
  ASSUME EP!EvidenceSound, [Next]_vars
  PROVE  /\ EP!EvidenceSound'
         /\ EP!RevalidationMeansNoEvidence => EP!RevalidationMeansNoEvidence'
<1>1. [EP!Next]_(EP!vars)
  BY EvidenceSteps, SameEvidence DEF E!vars, EP!vars, E!context, EP!context,
    E!evidence, EP!evidence, E!verdicts, EP!verdicts
<1> QED
  BY <1>1, EP!SoundNext, EvidenceAssumptions

-----------------------------------------------------------------------------
LEMMA InitHalves ==
  ASSUME Init
  PROVE  /\ IP!TypeOK /\ IP!Inv
         /\ EP!EvidenceInv
<1>1. IP!Init /\ EP!Init
  BY SameInterventions, SameEvidence DEF Init
<1> QED
  BY <1>1, IP!InitType, IP!InitInv, EP!InitInv, InterventionAssumptions,
     EvidenceAssumptions

(* Every variable of either half stays in its type. *)
THEOREM TypeCorrect == Spec => []TypeOK
<1> DEFINE GInv == IP!TypeOK /\ EP!EvidenceSound
<1>1. Init => GInv
  BY InitHalves DEF EP!EvidenceInv
<1>2. GInv /\ [Next]_vars => GInv'
  BY InterventionsTyped, EvidenceStaysSound
<1>3. GInv => TypeOK
  BY SameInterventions, SameEvidence DEF TypeOK, EP!EvidenceSound
<1> HIDE DEF GInv
<1> QED
  BY <1>1, <1>2, <1>3, PTL DEF Spec

(* The evidence half keeps its promises when decide and the callers of the *)
(* intervention half take part: every step of the governor is a step of    *)
(* Evidence or leaves its variables alone.                                 *)
THEOREM ImplementsEvidence == Spec => E!Spec
<1>1. Init => E!Init
  BY DEF Init
<1>2. [Next]_vars => [E!Next]_(E!vars)
  BY EvidenceSteps
<1> QED
  BY <1>1, <1>2, PTL DEF Spec, E!Spec

(* What is in the windows, what the marks and what the streaks mean, in    *)
(* the whole governor.                                                     *)
THEOREM EvidenceHolds ==
  Spec => [](/\ E!CurrentEvidenceOnly
             /\ E!OneSamplePerRequest
             /\ E!RevalidationMeansNoEvidence
             /\ E!StreakMatchesState)
<1>1. Init => EP!EvidenceInv
  BY InitHalves
<1>2. EP!EvidenceInv /\ [Next]_vars => EP!EvidenceInv'
  BY EvidenceStaysSound DEF EP!EvidenceInv
<1>3. EP!EvidenceInv => /\ E!CurrentEvidenceOnly
                        /\ E!OneSamplePerRequest
                        /\ E!RevalidationMeansNoEvidence
                        /\ E!StreakMatchesState
  BY DEF EP!EvidenceInv, EP!EvidenceSound, EP!WindowsSound, EP!Sound,
    E!CurrentEvidenceOnly, E!OneSamplePerRequest,
    E!RevalidationMeansNoEvidence, EP!RevalidationMeansNoEvidence,
    E!StreakMatchesState, EP!StreakMatchesState
<1> QED
  BY <1>1, <1>2, <1>3, PTL DEF Spec

(* The records of the interventions, in the whole governor: outcomes       *)
(* explain statuses, cooldowns are kept, no identity is issued twice.      *)
THEOREM InterventionsHold ==
  ASSUME CallerIds = {}
  PROVE  Spec => [](/\ I!OutcomeExplainsStatus
                    /\ I!CooldownSpacing
                    /\ I!Bookkeeping)
<1>1. Init => IP!Inv
  BY InitHalves
<1>2. IP!Inv /\ [Next]_vars => IP!Inv'
  BY InterventionInv
<1>3. IP!Inv => /\ I!OutcomeExplainsStatus
                /\ I!CooldownSpacing
                /\ I!Bookkeeping
  BY DEF IP!Inv, I!OutcomeExplainsStatus, IP!OutcomeExplainsStatus,
    I!StatusOfOutcome, IP!StatusOfOutcome,
    I!CooldownSpacing, IP!CooldownSpacing, I!AtLeastCoolDown,
    IP!AtLeastCoolDown, I!Bookkeeping, IP!Bookkeeping
<1> QED
  BY <1>1, <1>2, <1>3, PTL DEF Spec

-----------------------------------------------------------------------------
(* A sample that is fresh by itself is what TooOld denies of it alone. *)
LEMMA FreshAlone ==
  ASSUME now \in Nat, NEW o, pol.objectives[o].freshness \in Nat,
         NEW s, s.captured \in Nat, EP!Fresh(o, s)
  PROVE  ~E!TooOld(o, {s})
<1>1. E!Max({t.captured : t \in {s}}) = s.captured
  BY DEF E!Max
<1>2. E!LatestCaptured({s}) = s.captured
  BY <1>1 DEF E!LatestCaptured
<1> QED
  BY <1>2 DEF E!TooOld, EP!Fresh

(* The objective that decide binds has just been evaluated, on the samples *)
(* that are in its window after the step.                                  *)
LEMMA DecideFounded ==
  ASSUME EP!EvidenceSound, NEW o \in ObjectiveIds, NEW t \in Types, Decide(o, t)
  PROVE  LET samples == windows'[E!KeyOf(o)].samples
         IN /\ Cardinality({s.request : s \in samples})
                 >= pol.objectives[o].required
            /\ \E s \in samples : s.epoch = epoch /\ ~E!TooOld(o, {s})
<1> DEFINE samples == windows'[E!KeyOf(o)].samples
<1>1. EP!EvaluateAll
  BY SameEvaluations DEF Decide
<1>2. /\ o \in DOMAIN pol.objectives /\ pol.objectives[o].enabled
      /\ last_state'[o] \in {"VIOLATING", "SEVERE", "AT_RISK"}
  BY DEF Decide, Binding, Violating, I!Active
<1>3. EP!Founded(o, windows'[EP!KeyOf(o)].samples)
  BY <1>1, <1>2, EP!EvaluateAllFounded, EvidenceAssumptions DEF EP!Degraded
<1>4. EP!KeyOf(o) = E!KeyOf(o)
  BY DEF EP!KeyOf, E!KeyOf
<1>5. \A s \in samples : s.captured \in Nat
  <2>1. windows'[EP!KeyOf(o)] = EP!Pruned(o)
    <3>1. /\ EP!EvaluateEach({x \in DOMAIN pol.objectives :
                                pol.objectives[x].enabled})
          /\ {x \in DOMAIN pol.objectives : pol.objectives[x].enabled}
               \subseteq DOMAIN pol.objectives
          /\ o \in {x \in DOMAIN pol.objectives : pol.objectives[x].enabled}
      BY <1>1, <1>2 DEF EP!EvaluateAll
    <3> QED
      BY <3>1, EP!EvaluateEachEffect, EvidenceAssumptions
  <2>2. EP!Sound(EP!Pruned(o), epoch, seen)
    BY <1>2, EP!PrunedSound, EvidenceAssumptions
  <2> QED
    BY <1>4, <2>1, <2>2 DEF EP!Sound, EP!ObservationWindow, EP!Sample
<1>6. \A S : EP!Cardinality(S) = Cardinality(S)
  BY DEF EP!Cardinality, Cardinality
<1> HIDE DEF samples
<1>7. /\ Cardinality({s.request : s \in samples}) >= pol.objectives[o].required
      /\ \E s \in samples : s.epoch = epoch /\ EP!Fresh(o, s)
  BY <1>3, <1>4, <1>6 DEF EP!Founded, samples
<1>8. now \in Nat /\ pol.objectives[o].freshness \in Nat
  BY <1>2, EP!PolicyType, EvidenceAssumptions
  DEF EP!EvidenceSound, EP!TypeOK, EP!IsObjective
<1> QED
  BY <1>5, <1>7, <1>8, FreshAlone DEF samples

(* Decisions rest on current evidence: what decide authorizes is for an    *)
(* objective with enough requests of this epoch in its window, one of them *)
(* fresh or undated (decide, evaluate, ingest).                            *)
THEOREM DecisionsAreFounded == Spec => DecidesOnCurrentEvidence
<1>1. Init => EP!EvidenceSound
  BY InitHalves DEF EP!EvidenceInv
<1>2. EP!EvidenceSound /\ [Next]_vars => EP!EvidenceSound'
  BY EvidenceStaysSound
<1>3. EP!EvidenceSound =>
        [\A o \in ObjectiveIds, t \in Types :
           next_int_id' # next_int_id /\ Decide(o, t) =>
             LET samples == windows'[E!KeyOf(o)].samples
             IN /\ Cardinality({s.request : s \in samples})
                     >= pol.objectives[o].required
                /\ \E s \in samples : s.epoch = epoch /\ ~E!TooOld(o, {s})]_vars
  BY DecideFounded
<1> QED
  BY <1>1, <1>2, <1>3, PTL DEF Spec, DecidesOnCurrentEvidence

-----------------------------------------------------------------------------
(* Both instances of Interventions are mapped to the same Lifecycle. *)
LEMMA SameLifecycle ==
  /\ I!L!LInit <=> IP!L!LInit
  /\ [I!L!LNext]_(I!L!lvars) <=> [IP!L!LNext]_(IP!L!lvars)
<1>1. \A s : I!StageOf(s) = IP!StageOf(s)
  BY DEF I!StageOf, IP!StageOf
<1>2. I!L!LInit <=> IP!L!LInit
  BY DEF I!L!LInit, IP!L!LInit
<1>3. /\ I!L!lvars = IP!L!lvars
      /\ I!L!lvars' = IP!L!lvars'
  BY <1>1 DEF I!L!lvars, IP!L!lvars, I!StageOf, IP!StageOf
<1>4. I!L!LNext <=> IP!L!LNext
  BY DEF I!L!LNext, IP!L!LNext, I!L!Issue, IP!L!Issue, I!L!Start, IP!L!Start,
    I!L!Accept, IP!L!Accept, I!L!End, IP!L!End, I!L!Close, IP!L!Close,
    I!L!Advance, IP!L!Advance, I!L!Stages, IP!L!Stages, I!StageOf, IP!StageOf
<1> QED
  BY <1>2, <1>3, <1>4

(* The whole governor keeps the promises of Lifecycle, whether decide or a *)
(* caller proposes.                                                        *)
THEOREM ImplementsLifecycle ==
  ASSUME CallerIds = {}
  PROVE  Spec => I!Implements
<1>1. Init => IP!Inv /\ I!L!LInit
  BY InitHalves, IP!InitRefines, SameInterventions, SameLifecycle,
     InterventionAssumptions DEF Init
<1>2. IP!Inv /\ [Next]_vars => IP!Inv'
  BY InterventionInv
<1>3. IP!Inv /\ [Next]_vars => [I!L!LNext]_(I!L!lvars)
  <2> SUFFICES ASSUME IP!Inv, [Next]_vars
               PROVE  [IP!L!LNext]_(IP!L!lvars)
    BY SameLifecycle
  <2>1. CASE [IP!Next]_(IP!vars)
    BY <2>1, IP!StepRefines, InterventionAssumptions
  <2>2. CASE UNCHANGED <<fences, records>>
    BY <2>2 DEF IP!L!lvars, fences, records
  <2>3. CASE \E o \in ObjectiveIds, t \in Types :
               IP!Authorize(o, t, 0, IP!CurrentAuthority(o), now + DecideLifetime)
    <3>1. IP!TypeOK /\ IP!Bookkeeping /\ now + DecideLifetime \in Nat
      BY CallersAssumption DEF IP!Inv, IP!TypeOK
    <3>2. \E i \in DOMAIN IP!Stage' \ DOMAIN IP!Stage : IP!L!Issue(i)
      BY <2>3, <3>1, IP!AuthorizeRefines, InterventionAssumptions
    <3> QED
      BY <3>2 DEF IP!L!LNext, IP!Stage
  <2> QED
    BY <2>1, <2>2, <2>3, InterventionSteps
<1> QED
  BY <1>1, <1>2, <1>3, PTL DEF Spec, I!Implements, I!L!LSpec

-----------------------------------------------------------------------------
(* The three kinds of step, as far as the records go. *)
LEMMA GovernKinds ==
  ASSUME CallerIds = {}, IP!TypeOK, [Next]_vars
  PROVE  \/ UNCHANGED records
         \/ \E o \in ObjectiveIds, t \in Types, x \in Nat :
              IP!Authorize(o, t, 0, IP!CurrentAuthority(o), x)
         \/ \E i \in DOMAIN interventions : IP!Follow(i)
<1>1. CASE [IP!Next]_(IP!vars)
  <2>1. CASE IP!Next
    BY <2>1, IP!StepKinds, InterventionAssumptions DEF IP!records, records
  <2>2. CASE UNCHANGED IP!vars
    BY <2>2 DEF IP!vars, IP!records, records
  <2> QED
    BY <1>1, <2>1, <2>2
<1>2. CASE UNCHANGED <<fences, records>>
  BY <1>2
<1>3. CASE \E o \in ObjectiveIds, t \in Types :
             IP!Authorize(o, t, 0, IP!CurrentAuthority(o), now + DecideLifetime)
  <2>1. now + DecideLifetime \in Nat
    BY CallersAssumption DEF IP!TypeOK
  <2> QED
    BY <1>3, <2>1
<1> QED
  BY <1>1, <1>2, <1>3, InterventionSteps
=============================================================================
