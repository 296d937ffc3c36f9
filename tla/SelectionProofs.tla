-------------------------- MODULE SelectionProofs --------------------------
(***************************************************************************)
(* Theorems about Selection: the ranking of decide, what a verdict is      *)
(* explained by and what select_intervention selects, for any objectives   *)
(* in any order, any windows and any resource facts.                       *)
(***************************************************************************)
EXTENDS MCSelection, WindowProofs

-----------------------------------------------------------------------------
(* Evaluations. *)
LEMMA EvaluationFields ==
  ASSUME NEW o \in DOMAIN Objectives, NEW samples, NEW memory, NEW f
  PROVE  LET ev == Evaluation(o, samples, memory, f)
         IN /\ ev.objective = o
            /\ ev.priority = Objectives[o].priority
            /\ ev.count = Cardinality(samples)
            /\ ev.tail = SlowTail(samples, ev.observed)
            /\ ev.observed = IF ev.count >= Objectives[o].required
                             THEN Quantile(samples, Objectives[o].permille) ELSE 0
            /\ ev.excess = ev.observed - Objectives[o].recovery
            /\ ev.cause = PrimaryCause(ev.totals)
            /\ ev.selected =
                 IF ev.state \notin Acting THEN "NO_ACTION"
                 ELSE Selected(ev.cause, IF ev.excess < 0 THEN 0 ELSE ev.excess, f)
            /\ ev # NoEvaluation
BY DEF Evaluation, NoEvaluation

(* What evaluations of the current facts can say. *)
Evaluations ==
  {Evaluation(o, w, m, facts) : o \in DOMAIN Objectives, w \in Windows, m \in Memories}

LEMMA ObservedNumber ==
  ASSUME NEW o \in DOMAIN Objectives, NEW w \in Windows,
         Cardinality(w) >= Objectives[o].required
  PROVE  /\ w # {}
         /\ Quantile(w, Objectives[o].permille) \in Nat
<1>1. /\ IsFiniteSet(w) /\ \A s \in w : s.latency \in Nat
      /\ Objectives[o].permille \in Permilles
      /\ Objectives[o].required \in Nat \ {0}
  BY ObjectivesAssumption, WindowsAssumption DEF Permilles
<1>2. w # {}
  BY <1>1, FS_EmptySet
<1> QED
  BY <1>1, <1>2, QuantileIsSample

LEMMA EvaluationType ==
  ASSUME NEW ev \in Evaluations
  PROVE  /\ ev.objective \in DOMAIN Objectives
         /\ ev.objective \in Nat
         /\ ev.priority \in Int
         /\ ev.excess \in Int
         /\ ev # NoEvaluation
<1>1. PICK o \in DOMAIN Objectives, w \in Windows, m \in Memories :
        ev = Evaluation(o, w, m, facts)
  BY DEF Evaluations
<1>2. /\ ev.objective = o /\ ev.priority = Objectives[o].priority
      /\ ev.excess = ev.observed - Objectives[o].recovery
      /\ ev.observed = IF Cardinality(w) >= Objectives[o].required
                       THEN Quantile(w, Objectives[o].permille) ELSE 0
      /\ ev # NoEvaluation
  BY <1>1, EvaluationFields
<1>3. ev.observed \in Nat
  BY <1>2, ObservedNumber
<1> QED
  BY <1>2, <1>3, ObjectivesAssumption

-----------------------------------------------------------------------------
(* The order of decide. *)
IsKey(k) == k[1] \in Int /\ k[2] \in Int /\ k[3] \in Int

LEMMA AboveIs ==
  ASSUME NEW k, NEW l
  PROVE  Above(k, l) <=>
           \/ k[1] > l[1]
           \/ k[1] = l[1] /\ k[2] > l[2]
           \/ k[1] = l[1] /\ k[2] = l[2] /\ k[3] > l[3]
<1>1. ASSUME NEW i \in 1..3
      PROVE  i = 1 \/ i = 2 \/ i = 3
  OBVIOUS
<1>2. /\ 1..(1-1) = {} /\ 1..(2-1) = {1} /\ 1..(3-1) = {1, 2}
  OBVIOUS
<1> QED
  BY <1>1, <1>2 DEF Above

LEMMA AboveIsTotalOrder ==
  /\ \A k, l : IsKey(k) /\ IsKey(l) /\ k[3] # l[3] => Above(k, l) \/ Above(l, k)
  /\ \A k, l, m : /\ IsKey(k) /\ IsKey(l) /\ IsKey(m)
                  /\ Above(k, l) /\ Above(l, m)
                  => Above(k, m)
BY AboveIs DEF IsKey

LEMMA OutranksIsAbove ==
  ASSUME NEW ev \in Evaluations, NEW b \in Evaluations
  PROVE  /\ IsKey(Key(ev)) /\ IsKey(Key(b))
         /\ Outranks(ev, b) <=> Above(Key(ev), Key(b))
         /\ Key(ev)[3] = Key(b)[3] => ev.objective = b.objective
<1>1. /\ Key(ev)[1] = ev.excess /\ Key(ev)[2] = ev.priority
      /\ Key(ev)[3] = -ev.objective
      /\ Key(b)[1] = b.excess /\ Key(b)[2] = b.priority
      /\ Key(b)[3] = -b.objective
  BY DEF Key
<1>2. /\ ev.objective \in Nat /\ ev.priority \in Int /\ ev.excess \in Int
      /\ b.objective \in Nat /\ b.priority \in Int /\ b.excess \in Int
  BY EvaluationType
<1> QED
  BY <1>1, <1>2, AboveIs DEF IsKey, Outranks

-----------------------------------------------------------------------------
(* The inductive invariant: every objective is evaluated at most once, and *)
(* the ranking loop is done for those that are.                            *)
Evaluated ==
  /\ todo \in Seq(DOMAIN Objectives)
  /\ evs \in Seq(Evaluations)

NoRepeat ==
  /\ \A i, j \in DOMAIN todo : i # j => todo[i] # todo[j]
  /\ \A i, j \in DOMAIN evs : i # j => evs[i].objective # evs[j].objective
  /\ \A i \in DOMAIN todo, j \in DOMAIN evs : todo[i] # evs[j].objective

RankingInv == Evaluated /\ NoRepeat /\ BindingIsWorst

LEMMA InitRanking == Init => RankingInv
<1> SUFFICES ASSUME Init PROVE RankingInv
  OBVIOUS
<1>1. Cardinality(DOMAIN Objectives) \in Nat
  BY ObjectivesAssumption, FS_CardinalityType
<1>2. /\ todo \in [1..Cardinality(DOMAIN Objectives) -> DOMAIN Objectives]
      /\ \A i, j \in 1..Cardinality(DOMAIN Objectives) :
           i # j => todo[i] # todo[j]
  BY DEF Init, SetToSeqs
<1>3. todo \in Seq(DOMAIN Objectives)
  BY <1>1, <1>2
<1>4. evs = <<>> /\ DOMAIN evs = {} /\ ToSet(evs) = {} /\ evs \in Seq(Evaluations)
  BY DEF Init, ToSet
<1>5. NoRepeat
  BY <1>2, <1>4 DEF NoRepeat
<1>6. BindingIsWorst
  BY <1>4 DEF BindingIsWorst, Init
<1> QED
  BY <1>3, <1>4, <1>5, <1>6 DEF RankingInv, Evaluated

-----------------------------------------------------------------------------
Bad(s) == {ev \in ToSet(s) : Degrading(ev)}

LEMMA ConsiderEffect ==
  ASSUME Evaluated, NoRepeat, NEW w \in Windows, NEW m \in Memories,
         Consider(w, m)
  PROVE  /\ Evaluated' /\ NoRepeat'
         /\ \E ev \in Evaluations :
              /\ evs' = Append(evs, ev)
              /\ ToSet(evs') = ToSet(evs) \cup {ev}
              /\ \A b \in ToSet(evs) : b.objective # ev.objective
              /\ bind' = IF Degrading(ev)
                              /\ (bind = NoEvaluation \/ Outranks(ev, bind))
                         THEN ev ELSE bind
         /\ todo # <<>>
<1> DEFINE o == Head(todo)
           ev == Evaluation(o, w, m, facts)
<1>1. /\ todo # <<>> /\ todo \in Seq(DOMAIN Objectives)
      /\ evs \in Seq(Evaluations)
      /\ evs' = Append(evs, ev)
      /\ todo' = Tail(todo)
      /\ UNCHANGED facts
      /\ bind' = IF Degrading(ev) /\ (bind = NoEvaluation \/ Outranks(ev, bind))
                 THEN ev ELSE bind
  BY DEF Consider, Evaluated
<1>2. /\ o \in DOMAIN Objectives /\ o = todo[1]
      /\ 1 \in DOMAIN todo
      /\ Tail(todo) \in Seq(DOMAIN Objectives)
      /\ DOMAIN Tail(todo) = 1..Len(todo)-1
      /\ \A i \in DOMAIN Tail(todo) : /\ i+1 \in DOMAIN todo
                                      /\ i+1 # 1
                                      /\ Tail(todo)[i] = todo[i+1]
  BY <1>1
<1>3. ev \in Evaluations /\ ev.objective = o
  BY <1>2, EvaluationFields DEF Evaluations
<1>4. Evaluations' = Evaluations
  BY <1>1 DEF Evaluations
<1> HIDE DEF ev, o
<1>5. /\ Append(evs, ev) \in Seq(Evaluations)
      /\ DOMAIN evs = 1..Len(evs)
      /\ DOMAIN evs' = 1..Len(evs)+1
      /\ \A i \in DOMAIN evs : evs'[i] = evs[i]
      /\ evs'[Len(evs)+1] = ev
      /\ Len(evs) \in Nat
  BY <1>1, <1>3
<1>6. DOMAIN evs' = DOMAIN evs \cup {Len(evs)+1} /\ Len(evs)+1 \notin DOMAIN evs
  BY <1>5
<1>7. Evaluated'
  BY <1>1, <1>2, <1>4, <1>5 DEF Evaluated
<1>8. ToSet(evs') = ToSet(evs) \cup {ev}
  BY <1>5, <1>6 DEF ToSet
<1>9. \A i \in DOMAIN evs : evs[i].objective # o
  BY <1>2 DEF NoRepeat
<1>10. NoRepeat'
  <2>1. \A i, j \in DOMAIN todo' : i # j => todo'[i] # todo'[j]
    BY <1>1, <1>2 DEF NoRepeat
  <2>2. \A i, j \in DOMAIN evs' : i # j => evs'[i].objective # evs'[j].objective
    BY <1>3, <1>5, <1>6, <1>9 DEF NoRepeat
  <2>3. \A i \in DOMAIN todo', j \in DOMAIN evs' : todo'[i] # evs'[j].objective
    BY <1>1, <1>2, <1>3, <1>5, <1>6 DEF NoRepeat
  <2> QED
    BY <2>1, <2>2, <2>3 DEF NoRepeat
<1> QED
  BY <1>1, <1>3, <1>7, <1>8, <1>9, <1>10 DEF ToSet

LEMMA ConsiderRanking ==
  ASSUME RankingInv, NEW w \in Windows, NEW m \in Memories, Consider(w, m)
  PROVE  RankingInv'
<1>1. /\ Evaluated' /\ NoRepeat' /\ todo # <<>> /\ Evaluated
      /\ \A b \in ToSet(evs) : b \in Evaluations
  BY ConsiderEffect DEF RankingInv, Evaluated, ToSet
<1>2. PICK ev \in Evaluations :
        /\ ToSet(evs') = ToSet(evs) \cup {ev}
        /\ \A b \in ToSet(evs) : b.objective # ev.objective
        /\ bind' = IF Degrading(ev)
                        /\ (bind = NoEvaluation \/ Outranks(ev, bind))
                   THEN ev ELSE bind
  BY ConsiderEffect DEF RankingInv
<1>3. /\ Bad(evs) # {} => /\ bind \in Bad(evs)
                          /\ \A b \in Bad(evs) \ {bind} : Above(Key(bind), Key(b))
      /\ Bad(evs) = {} => bind = NoEvaluation
  BY <1>1 DEF RankingInv, BindingIsWorst, Bad
<1>4. CASE ~Degrading(ev)
  <2>1. Bad(evs') = Bad(evs) /\ bind' = bind
    BY <1>2, <1>4 DEF Bad
  <2>2. /\ Bad(evs') # {} => /\ bind' \in Bad(evs')
                             /\ \A b \in Bad(evs') \ {bind'} :
                                  Above(Key(bind'), Key(b))
        /\ Bad(evs') = {} => bind' = NoEvaluation
    BY <1>3, <2>1
  <2> QED
    BY <1>1, <2>2 DEF RankingInv, BindingIsWorst, Bad
<1>5. CASE Degrading(ev)
  <2>1. Bad(evs') = Bad(evs) \cup {ev}
    BY <1>2, <1>5 DEF Bad
  <2>2. bind' \in Bad(evs') /\ \A b \in Bad(evs') \ {bind'} : Above(Key(bind'), Key(b))
    <3>1. CASE Bad(evs) = {}
      BY <1>2, <1>3, <1>5, <2>1, <3>1
    <3>2. CASE Bad(evs) # {}
      <4>1. /\ bind \in Bad(evs) /\ bind \in Evaluations
            /\ \A b \in Bad(evs) : b \in Evaluations
            /\ \A b \in Bad(evs) \ {bind} : Above(Key(bind), Key(b))
        BY <1>1, <1>3, <3>2 DEF Bad
      <4>2. /\ bind # NoEvaluation
            /\ bind.objective # ev.objective
        BY <1>2, <4>1, EvaluationType DEF Bad
      <4>3. CASE Outranks(ev, bind)
        <5>1. bind' = ev
          BY <1>2, <1>5, <4>3
        <5>2. Above(Key(ev), Key(bind))
          BY <4>1, <4>3, OutranksIsAbove
        <5>3. ASSUME NEW b \in Bad(evs) PROVE Above(Key(ev), Key(b))
          <6>1. IsKey(Key(ev)) /\ IsKey(Key(bind)) /\ IsKey(Key(b))
            BY <4>1, OutranksIsAbove
          <6>2. b = bind \/ Above(Key(bind), Key(b))
            BY <4>1
          <6> QED
            BY <5>2, <6>1, <6>2, AboveIsTotalOrder
        <5> QED
          BY <2>1, <5>1, <5>3
      <4>4. CASE ~Outranks(ev, bind)
        <5>1. bind' = bind
          BY <1>2, <4>2, <4>4
        <5>2. Above(Key(bind), Key(ev))
          <6>1. /\ IsKey(Key(ev)) /\ IsKey(Key(bind))
                /\ ~Above(Key(ev), Key(bind))
                /\ Key(ev)[3] # Key(bind)[3]
            BY <4>1, <4>2, <4>4, OutranksIsAbove
          <6> QED
            BY <6>1, AboveIsTotalOrder
        <5> QED
          BY <2>1, <4>1, <5>1, <5>2
      <4> QED
        BY <4>3, <4>4
    <3> QED
      BY <3>1, <3>2
  <2> QED
    BY <1>1, <2>1, <2>2 DEF RankingInv, BindingIsWorst, Bad
<1> QED
  BY <1>4, <1>5

LEMMA SettleRanking ==
  ASSUME RankingInv, Settle
  PROVE  RankingInv'
<1>1. PICK i \in DOMAIN evs : evs[i].state = "AT_RISK" /\ bind' = evs[i]
  BY DEF Settle
<1>2. todo = <<>> /\ bind = NoEvaluation /\ UNCHANGED <<facts, todo, evs>>
  BY DEF Settle
<1>3. \A b \in ToSet(evs) : b \in Evaluations
  BY DEF RankingInv, Evaluated, ToSet
<1>4. Bad(evs) = {}
  BY <1>2, <1>3, EvaluationType DEF RankingInv, BindingIsWorst, Bad
<1>5. BindingIsWorst'
  BY <1>1, <1>2, <1>4 DEF BindingIsWorst, Bad
<1>6. Evaluated' /\ NoRepeat'
  BY <1>2 DEF RankingInv, Evaluated, NoRepeat, Evaluations
<1> QED
  BY <1>5, <1>6 DEF RankingInv

LEMMA NextRanking == RankingInv /\ [Next]_vars => RankingInv'
<1>1. CASE UNCHANGED vars
  BY <1>1 DEF vars, RankingInv, Evaluated, NoRepeat, Evaluations, BindingIsWorst
<1> QED
  BY <1>1, ConsiderRanking, SettleRanking DEF Next

(* The loop of decide evaluates every objective at most once and keeps the *)
(* worst of those so far as the binding one (decide).                      *)
THEOREM RankingHolds == Spec => []RankingInv
BY InitRanking, NextRanking, PTL DEF Spec

(* The binding objective is the worst of the violating ones, whatever      *)
(* order the policy has them in; one at risk binds only when none of all   *)
(* objectives is violating (decide).                                       *)
THEOREM BindingHolds == Spec => []BindingIsWorst
<1>1. RankingInv => BindingIsWorst
  BY DEF RankingInv
<1> QED
  BY <1>1, RankingHolds, PTL

-----------------------------------------------------------------------------
(* What an evaluation with an observed percentile is explained by. *)
LEMMA TailOfVerdict ==
  ASSUME NEW ev \in Evaluations, ev.observed > 0
  PROVE  /\ \E s \in ev.tail : s.latency = ev.observed
         /\ \A s \in ev.tail : s.latency >= ev.observed
         /\ Cardinality({s \in ev.tail : s.latency > ev.observed})
              <= ev.count - Rank(Objectives[ev.objective].permille, ev.count)
<1>1. PICK o \in DOMAIN Objectives, w \in Windows, m \in Memories :
        ev = Evaluation(o, w, m, facts)
  BY DEF Evaluations
<1> DEFINE v == ev.observed
           p == Objectives[o].permille
<1>2. /\ ev.objective = o
      /\ ev.count = Cardinality(w)
      /\ ev.tail = SlowTail(w, v)
      /\ v = IF ev.count >= Objectives[o].required THEN Quantile(w, p) ELSE 0
  BY <1>1, EvaluationFields
<1>3. Cardinality(w) >= Objectives[o].required /\ v = Quantile(w, p)
  BY <1>2
<1>4. w # {} /\ v \in Nat
  BY <1>3, ObservedNumber
<1>5. /\ IsFiniteSet(w) /\ \A s \in w : s.latency \in Nat
      /\ p \in Permilles
  BY ObjectivesAssumption, WindowsAssumption DEF Permilles
<1>6. /\ \E s \in w : s.latency = v
      /\ Cardinality({s \in w : s.latency > v})
           <= Cardinality(w) - Rank(p, Cardinality(w))
  BY <1>3, <1>4, <1>5, QuantileIsSample
<1> HIDE DEF v, p
<1>7. v > 0
  BY DEF v
<1>8. ev.tail = {s \in w : s.latency >= v}
  <2> DEFINE above == {s \in w : v > 0 /\ s.latency >= v}
  <2>1. above # {} /\ above = {s \in w : s.latency >= v}
    BY <1>4, <1>6, <1>7
  <2>2. SlowTail(w, v) = above
    BY <2>1 DEF SlowTail
  <2> QED
    BY <1>2, <2>1, <2>2 DEF v
<1>9. {s \in ev.tail : s.latency > v} = {s \in w : s.latency > v}
  BY <1>4, <1>5, <1>8
<1>10. \E s \in ev.tail : s.latency = v
  BY <1>4, <1>6, <1>8
<1> QED
  BY <1>2, <1>6, <1>8, <1>9, <1>10 DEF v, p

(* Whatever makes a verdict bad is in the tail that is decomposed for it,  *)
(* and only that, for windows of any size and any percentile (evaluate,    *)
(* decompose_tail).                                                        *)
THEOREM TailHolds == Spec => []TailExplainsVerdict
<1>1. RankingInv => TailExplainsVerdict
  BY TailOfVerdict
  DEF RankingInv, Evaluated, ToSet, TailExplainsVerdict
<1> QED
  BY <1>1, RankingHolds, PTL

-----------------------------------------------------------------------------
(* The causes that decompose_tail tells apart. *)
Causes ==
  {"QUEUEING", "BATCHING", "COLD_RESIDENCY", "MODEL_OR_STATE_LOAD", "TRANSFER",
   "MEMORY_PRESSURE", "EXECUTION_VARIANCE", "PREEMPTION", "RECOVERY", "RETRY",
   "PUBLICATION_DELAY", "UNKNOWN"}

LEMMA CauseType == \A totals : PrimaryCause(totals) \in Causes
<1>1. \A p : CauseOf(p) \in Causes
  BY DEF CauseOf, Causes
<1> QED
  BY <1>1 DEF PrimaryCause, Causes

(* The candidates for each of them, as sets. *)
LEMMA CandidateSets ==
  /\ ToSet(Candidates("QUEUEING"))
       = {"BOUND_QUEUE_WAIT", "QUEUE_SHAPE", "LIMIT_QUEUE_DEPTH", "QUEUE_REPRIORITIZE"}
  /\ ToSet(Candidates("BATCHING"))
       = {"SPLIT_BATCH", "REDUCE_BATCH_SIZE", "DISABLE_BATCH_FOR_CLASS"}
  /\ ToSet(Candidates("COLD_RESIDENCY"))
       = {"WARM_RESIDENCY", "PIN_RESIDENCY", "PROMOTE_WARM_ENGINE"}
  /\ ToSet(Candidates("MODEL_OR_STATE_LOAD"))
       = {"WARM_RESIDENCY", "PROMOTE_WARM_ENGINE", "CHANGE_PLACEMENT"}
  /\ ToSet(Candidates("TRANSFER"))
       = {"RESERVE_BANDWIDTH", "CHANGE_PLACEMENT", "DEFER_LOW_PRIORITY"}
  /\ ToSet(Candidates("MEMORY_PRESSURE"))
       = {"RECLAIM_MEMORY", "DEFER_LOW_PRIORITY", "RESERVE_CAPACITY"}
  /\ ToSet(Candidates("EXECUTION_VARIANCE"))
       = {"CHANGE_PLACEMENT", "RESERVE_CAPACITY", "WARM_RESIDENCY"}
  /\ ToSet(Candidates("PREEMPTION")) = {"PREEMPT_LOWER_PRIORITY"}
  /\ ToSet(Candidates("RECOVERY"))
       = {"ACCELERATE_RECOVERY", "REPLAN_RECOVERY", "FAILOVER"}
  /\ ToSet(Candidates("RETRY"))
       = {"DEFER_LOW_PRIORITY", "RESERVE_CAPACITY", "ESCALATE"}
  /\ ToSet(Candidates("PUBLICATION_DELAY"))
       = {"ESCALATE", "MANUAL_INTERVENTION_REQUIRED"}
  /\ ToSet(Candidates("UNKNOWN")) = {}
<1>1. /\ \A a : ToSet(<<a>>) = {a}
      /\ \A a, b : ToSet(<<a, b>>) = {a, b}
      /\ \A a, b, c : ToSet(<<a, b, c>>) = {a, b, c}
      /\ \A a, b, c, d : ToSet(<<a, b, c, d>>) = {a, b, c, d}
      /\ ToSet(<<>>) = {}
  BY DEF ToSet
<1>2. Candidates("QUEUEING")
        = <<"BOUND_QUEUE_WAIT", "QUEUE_SHAPE", "LIMIT_QUEUE_DEPTH", "QUEUE_REPRIORITIZE">>
  BY DEF Candidates
<1>3. /\ Candidates("BATCHING")
           = <<"SPLIT_BATCH", "REDUCE_BATCH_SIZE", "DISABLE_BATCH_FOR_CLASS">>
      /\ Candidates("COLD_RESIDENCY")
           = <<"WARM_RESIDENCY", "PIN_RESIDENCY", "PROMOTE_WARM_ENGINE">>
      /\ Candidates("MODEL_OR_STATE_LOAD")
           = <<"WARM_RESIDENCY", "PROMOTE_WARM_ENGINE", "CHANGE_PLACEMENT">>
  BY DEF Candidates
<1>4. /\ Candidates("TRANSFER")
           = <<"RESERVE_BANDWIDTH", "CHANGE_PLACEMENT", "DEFER_LOW_PRIORITY">>
      /\ Candidates("MEMORY_PRESSURE")
           = <<"RECLAIM_MEMORY", "DEFER_LOW_PRIORITY", "RESERVE_CAPACITY">>
      /\ Candidates("EXECUTION_VARIANCE")
           = <<"CHANGE_PLACEMENT", "RESERVE_CAPACITY", "WARM_RESIDENCY">>
  BY DEF Candidates
<1>5. /\ Candidates("PREEMPTION") = <<"PREEMPT_LOWER_PRIORITY">>
      /\ Candidates("RECOVERY")
           = <<"ACCELERATE_RECOVERY", "REPLAN_RECOVERY", "FAILOVER">>
      /\ Candidates("RETRY")
           = <<"DEFER_LOW_PRIORITY", "RESERVE_CAPACITY", "ESCALATE">>
  BY DEF Candidates
<1>6. /\ Candidates("PUBLICATION_DELAY")
           = <<"ESCALATE", "MANUAL_INTERVENTION_REQUIRED">>
      /\ Candidates("UNKNOWN") = <<>>
  BY DEF Candidates
<1> QED
  BY <1>1, <1>2, <1>3, <1>4, <1>5, <1>6

LEMMA CandidatesAreTypes ==
  ASSUME NEW cause \in Causes
  PROVE  ToSet(Candidates(cause)) \subseteq InterventionTypes
<1>1. CASE cause \in {"QUEUEING", "BATCHING", "COLD_RESIDENCY", "MODEL_OR_STATE_LOAD"}
  BY <1>1, CandidateSets DEF InterventionTypes
<1>2. CASE cause \in {"TRANSFER", "MEMORY_PRESSURE", "EXECUTION_VARIANCE", "PREEMPTION"}
  BY <1>2, CandidateSets DEF InterventionTypes
<1>3. CASE cause \in {"RECOVERY", "RETRY", "PUBLICATION_DELAY", "UNKNOWN"}
  BY <1>3, CandidateSets DEF InterventionTypes
<1> QED
  BY <1>1, <1>2, <1>3 DEF Causes

-----------------------------------------------------------------------------
(* The order of declaration is an order of all the classes. *)
Place == [t \in InterventionTypes |-> CHOOSE i \in 1..22 : TypeOrder[i] = t]

LEMMA EveryTypeHasAPlace ==
  \A t \in InterventionTypes :
    /\ Place[t] \in 1..22
    /\ TypeOrder[Place[t]] = t
<1>1. \A t \in InterventionTypes : \E i \in 1..22 : TypeOrder[i] = t
  BY DEF InterventionTypes, TypeOrder
<1> QED
  BY <1>1 DEF Place

LEMMA TypesAreFinite == IsFiniteSet(InterventionTypes)
<1>1. Place \in Injection(InterventionTypes, 1..22)
  <2>1. Place \in [InterventionTypes -> 1..22]
    BY EveryTypeHasAPlace DEF Place
  <2>2. \A t, u \in InterventionTypes : Place[t] = Place[u] => t = u
    BY EveryTypeHasAPlace
  <2> QED
    BY <2>1, <2>2 DEF Injection, IsInjective
<1>2. IsFiniteSet(1..22)
  <2>1. 1 \in Int /\ 22 \in Int
    OBVIOUS
  <2> QED
    BY <2>1, FS_Interval
<1> QED
  BY <1>1, <1>2, FS_Injection

LEMMA BeforeIs ==
  ASSUME NEW t \in InterventionTypes, NEW u \in InterventionTypes,
         Place[t] < Place[u]
  PROVE  Before(TypeOrder, t, u)
<1>1. DOMAIN TypeOrder = 1..22
  BY DEF TypeOrder
<1> QED
  BY <1>1, EveryTypeHasAPlace DEF Before

-----------------------------------------------------------------------------
(* The selection: of the feasible candidates one of the largest effect,    *)
(* found first by type.                                                    *)
LEMMA EffectType == \A t \in InterventionTypes : EffectFactor(t) \in Nat
BY DEF InterventionTypes, EffectFactor

Better(t, u, x) ==
  \/ EffectFactor(t) * x > EffectFactor(u) * x
  \/ EffectFactor(t) * x = EffectFactor(u) * x /\ Before(TypeOrder, t, u)

LEMMA SomeTypeIsBest ==
  ASSUME NEW S, S \subseteq InterventionTypes, S # {}, NEW x \in Nat
  PROVE  \E t \in S : \A u \in S \ {t} : Better(t, u, x)
<1> DEFINE effect == [t \in S |-> EffectFactor(t) * x]
<1>1. /\ effect \in [S -> Nat]
      /\ \A t \in S : effect[t] = EffectFactor(t) * x
  BY EffectType
<1>2. IsFiniteSet(S)
  BY TypesAreFinite, FS_Subset
<1> HIDE DEF effect
<1>3. PICK m \in S : \A u \in S : effect[u] <= effect[m]
  BY <1>1, <1>2, FiniteSetHasTop DEF Topped
<1> DEFINE ties == {t \in S : effect[t] = effect[m]}
           places == {Place[t] : t \in ties}
<1>4. places \subseteq Nat /\ places # {}
  BY EveryTypeHasAPlace
<1>5. PICK n \in places : \A k \in places : n <= k
  BY <1>4, LeastNumber
<1>6. PICK t \in ties : n = Place[t]
  OBVIOUS
<1>7. ASSUME NEW u \in S \ {t}
      PROVE  Better(t, u, x)
  <2>1. effect[t] \in Nat /\ effect[u] \in Nat /\ effect[u] <= effect[t]
    BY <1>1, <1>3
  <2>2. CASE effect[u] < effect[t]
    BY <1>1, <2>1, <2>2 DEF Better
  <2>3. CASE effect[u] = effect[t]
    <3>1. Place[t] <= Place[u]
      BY <1>5, <1>6, <2>3
    <3>2. Place[t] # Place[u] /\ Place[t] \in 1..22 /\ Place[u] \in 1..22
      BY EveryTypeHasAPlace
    <3>3. Before(TypeOrder, t, u)
      BY <3>1, <3>2, BeforeIs
    <3> QED
      BY <1>1, <2>3, <3>3 DEF Better
  <2> QED
    BY <2>1, <2>2, <2>3
<1> QED
  BY <1>6, <1>7

LEMMA SelectedIsBest ==
  ASSUME NEW cause \in Causes, NEW x \in Nat, NEW f, Allowed(cause, f) # {}
  PROVE  /\ Selected(cause, x, f) \in Allowed(cause, f)
         /\ x > 0 => \A u \in Allowed(cause, f) :
                       EffectFactor(u) <= EffectFactor(Selected(cause, x, f))
<1> DEFINE S == Allowed(cause, f)
           sel == Selected(cause, x, f)
<1>1. S \subseteq InterventionTypes
  BY CandidatesAreTypes DEF Allowed
<1>2. sel = CHOOSE t \in S : \A u \in S \ {t} : Better(t, u, x)
  BY DEF Selected, Better
<1>3. sel \in S /\ \A u \in S \ {sel} : Better(sel, u, x)
  <2>1. \E t \in S : \A u \in S \ {t} : Better(t, u, x)
    BY <1>1, SomeTypeIsBest
  <2> HIDE DEF S, sel
  <2> QED
    BY <1>2, <2>1
<1>4. ASSUME x > 0, NEW u \in S
      PROVE  EffectFactor(u) <= EffectFactor(sel)
  <2>1. EffectFactor(u) \in Nat /\ EffectFactor(sel) \in Nat
    BY <1>1, <1>3, EffectType
  <2>2. CASE u = sel
    BY <2>1, <2>2
  <2>3. CASE u # sel
    <3>1. EffectFactor(sel) * x >= EffectFactor(u) * x
      BY <1>3, <2>1, <2>3 DEF Better
    <3>2. \A a, b \in Nat : a * x >= b * x => b <= a
      BY <1>4
    <3> HIDE DEF sel
    <3> QED
      BY <2>1, <3>1, <3>2
  <2> QED
    BY <2>2, <2>3
<1> QED
  BY <1>3, <1>4

-----------------------------------------------------------------------------
(* The reasons for refusing every candidate. *)
LEMMA RefusalHasReason ==
  ASSUME NEW cause \in Causes, NEW f,
         Allowed(cause, f) = {}, ToSet(Candidates(cause)) # {}
  PROVE  Constrained(cause, f) \/ TriggerOfCause(cause) # {}
<1>1. \A t \in ToSet(Candidates(cause)) : ~Feasible(t, f)
  BY DEF Allowed
<1>2. CASE cause \in {"QUEUEING", "BATCHING", "COLD_RESIDENCY", "TRANSFER",
                      "MEMORY_PRESSURE"}
  BY <1>2 DEF TriggerOfCause
<1>3. CASE cause = "MODEL_OR_STATE_LOAD"
  <2>1. "WARM_RESIDENCY" \in ToSet(Candidates(cause))
    BY <1>3, CandidateSets
  <2>2. InfeasibilityOf("WARM_RESIDENCY", f)
          \in {"ENGINE_UNAVAILABLE", "EXCEEDS_HARD_ECONOMY"}
    BY <1>1, <2>1 DEF Feasible, InfeasibilityOf, Gate
  <2> QED
    BY <2>1, <2>2 DEF Constrained, HardReasons
<1>4. CASE cause = "EXECUTION_VARIANCE"
  <2>1. "RESERVE_CAPACITY" \in ToSet(Candidates(cause))
    BY <1>4, CandidateSets
  <2>2. InfeasibilityOf("RESERVE_CAPACITY", f)
          \in {"CAPACITY_UNAVAILABLE", "EXCEEDS_HARD_ECONOMY"}
    BY <1>1, <2>1 DEF Feasible, InfeasibilityOf, Gate
  <2> QED
    BY <2>1, <2>2 DEF Constrained, HardReasons
<1>5. CASE cause = "PREEMPTION"
  <2>1. "PREEMPT_LOWER_PRIORITY" \in ToSet(Candidates(cause))
    BY <1>5, CandidateSets
  <2>2. InfeasibilityOf("PREEMPT_LOWER_PRIORITY", f)
          \in {"NON_PREEMPTIBLE", "EXCEEDS_HARD_ECONOMY"}
    BY <1>1, <2>1 DEF Feasible, InfeasibilityOf, Gate
  <2> QED
    BY <2>1, <2>2 DEF Constrained, HardReasons
<1>6. CASE cause \in {"RETRY", "PUBLICATION_DELAY"}
  <2>1. "ESCALATE" \in ToSet(Candidates(cause))
    BY <1>6, CandidateSets
  <2>2. Feasible("ESCALATE", f)
    BY DEF Feasible, InfeasibilityOf
  <2> QED
    BY <1>1, <2>1, <2>2
<1>7. CASE cause = "RECOVERY"
  <2>1. "ACCELERATE_RECOVERY" \in ToSet(Candidates(cause))
    BY <1>7, CandidateSets
  <2>2. Feasible("ACCELERATE_RECOVERY", f)
    BY DEF Feasible, InfeasibilityOf
  <2> QED
    BY <1>1, <2>1, <2>2
<1>8. CASE cause = "UNKNOWN"
  BY <1>8, CandidateSets
<1> QED
  BY <1>2, <1>3, <1>4, <1>5, <1>6, <1>7, <1>8 DEF Causes

LEMMA ChangesName ==
  ASSUME NEW ev, NEW obj, NEW f
  PROVE  /\ Constrained(ev.cause, f)
              => "HARD_SLO_BLOCKS" \in WhatWouldChange(ev, obj, f)
         /\ TriggerOfCause(ev.cause) \subseteq WhatWouldChange(ev, obj, f)
BY DEF WhatWouldChange

(* What the fields of an evaluation that say what is to be done are made   *)
(* of.                                                                     *)
LEMMA DecisionFields ==
  ASSUME NEW o, NEW w, NEW m, NEW f
  PROVE  LET ev == Evaluation(o, w, m, f)
         IN /\ ev.cause \in Causes
            /\ ev.selected = IF ev.state \notin Acting THEN "NO_ACTION"
                             ELSE Selected(ev.cause,
                                           IF ev.excess < 0 THEN 0 ELSE ev.excess, f)
            /\ Constrained(ev.cause, f) => "HARD_SLO_BLOCKS" \in ev.changes
            /\ TriggerOfCause(ev.cause) \subseteq ev.changes
BY CauseType, ChangesName DEF Evaluation

LEMMA SelectionOf ==
  ASSUME NEW ev \in Evaluations, ev.state \in Acting
  PROVE  LET candidates == ToSet(Candidates(ev.cause))
             feasible == {t \in candidates : Feasible(t, facts)}
         IN IF ev.selected = "NO_ACTION"
            THEN /\ feasible = {}
                 /\ candidates # {}
                      => ev.changes \cap ({"HARD_SLO_BLOCKS"}
                                            \cup TriggerOfCause(ev.cause)) # {}
            ELSE /\ ev.selected \in feasible
                 /\ ev.excess > 0 =>
                      \A t \in feasible : EffectFactor(t) <= EffectFactor(ev.selected)
<1>1. PICK o \in DOMAIN Objectives, w \in Windows, m \in Memories :
        ev = Evaluation(o, w, m, facts)
  BY DEF Evaluations
<1> DEFINE x == IF ev.excess < 0 THEN 0 ELSE ev.excess
           S == Allowed(ev.cause, facts)
<1>2. /\ ev.cause \in Causes
      /\ ev.selected = Selected(ev.cause, x, facts)
      /\ Constrained(ev.cause, facts) => "HARD_SLO_BLOCKS" \in ev.changes
      /\ TriggerOfCause(ev.cause) \subseteq ev.changes
  BY <1>1, DecisionFields
<1>3. S = {t \in ToSet(Candidates(ev.cause)) : Feasible(t, facts)}
  BY DEF Allowed
<1>4. x \in Nat /\ (ev.excess > 0 => x > 0)
  BY EvaluationType
<1> HIDE DEF x
<1>5. CASE S = {}
  <2>1. ev.selected = "NO_ACTION"
    BY <1>2, <1>5 DEF Selected
  <2>2. ASSUME ToSet(Candidates(ev.cause)) # {}
        PROVE  ev.changes \cap ({"HARD_SLO_BLOCKS"}
                                  \cup TriggerOfCause(ev.cause)) # {}
    BY <1>2, <1>5, <2>2, RefusalHasReason
  <2> QED
    BY <1>3, <1>5, <2>1, <2>2
<1>6. CASE S # {}
  <2>1. /\ ev.selected \in S
        /\ x > 0 => \A u \in S : EffectFactor(u) <= EffectFactor(ev.selected)
    BY <1>2, <1>4, <1>6, SelectedIsBest
  <2>2. "NO_ACTION" \notin S
    BY <1>2, <1>3, CandidatesAreTypes DEF InterventionTypes
  <2> QED
    BY <1>3, <1>4, <2>1, <2>2
<1> QED
  BY <1>5, <1>6

(* A bad tail with a known cause gets a feasible class of the largest      *)
(* effect, or a reason is named why it gets none, whatever has been        *)
(* reported as facts (select_intervention, build_what_would_change).       *)
THEOREM SelectionHolds == Spec => []SelectionIsReasoned
<1>1. RankingInv => SelectionIsReasoned
  <2>1. RankingInv => \A ev \in ToSet(evs) : ev \in Evaluations
    BY DEF RankingInv, Evaluated, ToSet
  <2> QED
    BY <2>1, SelectionOf DEF SelectionIsReasoned
<1> QED
  BY <1>1, RankingHolds, PTL

-----------------------------------------------------------------------------
(* The percentiles of one window never contradict each other, for any      *)
(* number of samples (exact_quantile): MCSelection keeps this number in    *)
(* count.                                                                  *)
THEOREM RanksHold == MCSpec => []RanksInOrder
<1> DEFINE Counted == count = 0 \/ count \in Nat \ {0}
<1>1. MCInit => Counted
  BY CountAssumption DEF MCInit
<1>2. Counted /\ [Next /\ UNCHANGED count]_<<vars, count>> => Counted'
  OBVIOUS
<1>3. Counted => RanksInOrder
  <2> SUFFICES ASSUME count \in Nat \ {0}
               PROVE  RanksInOrder
    BY DEF RanksInOrder
  <2> DEFINE percentiles == <<500, 950, 990, 999>>
  <2>1. \A i \in 1..4 : percentiles[i] \in Percentiles
    BY DEF Percentiles
  <2>2. \A i, j \in 1..4 : i <= j => percentiles[i] <= percentiles[j]
    OBVIOUS
  <2> HIDE DEF percentiles
  <2>3. \A i, j \in 1..4 :
          i <= j => Rank(percentiles[i], count) <= Rank(percentiles[j], count)
    BY <2>1, <2>2, RanksAscend
  <2>4. \A i \in 1..4 :
          /\ Rank(percentiles[i], count) \in 1..count
          /\ 1000 * Rank(percentiles[i], count) >= percentiles[i] * count
          /\ 1000 * (Rank(percentiles[i], count) - 2) < percentiles[i] * count
    BY <2>1, RankIsNear
  <2> QED
    BY <2>3, <2>4 DEF RanksInOrder, percentiles
<1> QED
  BY <1>1, <1>2, <1>3, PTL DEF MCSpec
=============================================================================
