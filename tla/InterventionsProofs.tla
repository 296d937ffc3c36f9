------------------------ MODULE InterventionsProofs ------------------------
(***************************************************************************)
(* Theorems about Interventions, for every set of objectives, policies,    *)
(* generations, facts and classes, and for any clock.                      *)
(***************************************************************************)
EXTENDS Interventions, TLAPS

-----------------------------------------------------------------------------
(* What std::map's operator[] does to the type of a map. *)
LEMMA PutType ==
  ASSUME NEW f, NEW k, NEW v, NEW S, f \in [DOMAIN f -> S], v \in S
  PROVE  /\ DOMAIN Put(f, k, v) = DOMAIN f \cup {k}
         /\ Put(f, k, v) \in [DOMAIN Put(f, k, v) -> S]
         /\ Put(f, k, v)[k] = v
         /\ \A x \in DOMAIN f \ {k} : Put(f, k, v)[x] = f[x]
BY DEF Put

(* A recorded outcome always ends its intervention. *)
LEMMA OutcomeIsTerminal ==
  ASSUME NEW x \in Outcomes
  PROVE  StatusOfOutcome(x) \in TerminalStatuses \cap RecordedStatuses
BY DEF Outcomes, StatusOfOutcome, TerminalStatuses, Statuses, RecordedStatuses

LEMMA PolicyType ==
  ASSUME TypeOK
  PROVE  IsPolicy(pol)
<1>1. IsPolicy(NoPolicy)
  BY DEF IsPolicy, NoPolicy
<1> QED
  BY <1>1, PoliciesAssumption DEF TypeOK

(* The context built for an active objective is well formed. *)
LEMMA CurrentAuthorityType ==
  ASSUME TypeOK, NEW o \in ObjectiveIds, Active(o)
  PROVE  CurrentAuthority(o) \in Authority
<1>1. IsObjective(pol.objectives[o])
  BY PolicyType DEF IsPolicy, Active
<1> QED
  BY <1>1, PolicyType DEF TypeOK, IsPolicy, CurrentAuthority, Authority, IsObjective

(* Changing a status keeps the map well typed and changes nothing else. *)
LEMMA SetStatusType ==
  ASSUME TypeOK, NEW i \in DOMAIN interventions, NEW s \in RecordedStatuses,
         SetStatus(i, s)
  PROVE  /\ DOMAIN interventions' = DOMAIN interventions
         /\ interventions' \in [DOMAIN interventions' -> Intervention]
         /\ interventions'[i] = [interventions[i] EXCEPT !.status = s]
         /\ interventions'[i].status = s
         /\ \A j \in DOMAIN interventions :
              j # i => interventions'[j] = interventions[j]
<1>1. interventions[i] \in Intervention
  BY DEF TypeOK
<1>2. [interventions[i] EXCEPT !.status = s] \in Intervention
  BY <1>1 DEF Intervention
<1>3. interventions' =
        [interventions EXCEPT ![i] = [interventions[i] EXCEPT !.status = s]]
  BY DEF SetStatus
<1>4. [interventions[i] EXCEPT !.status = s].status = s
  BY <1>1 DEF Intervention
<1> QED
  BY <1>2, <1>3, <1>4 DEF TypeOK

-----------------------------------------------------------------------------
LEMMA InitType == Init => TypeOK
<1> SUFFICES ASSUME Init PROVE TypeOK
  OBVIOUS
<1>1. pol \in Policies \cup {NoPolicy}
  BY DEF Init
<1>2. /\ DOMAIN interventions \subseteq Nat \ {0}
      /\ interventions \in [DOMAIN interventions -> Intervention]
  BY DEF Init
<1>3. /\ DOMAIN outcomes \subseteq DOMAIN interventions
      /\ outcomes \in [DOMAIN outcomes -> Outcomes]
  BY DEF Init
<1>4. /\ DOMAIN last_intervention_ns \subseteq ObjectiveIds
      /\ last_intervention_ns \in [DOMAIN last_intervention_ns -> Nat]
  BY DEF Init
<1>5. held \in [ObjectiveIds -> Authority \cup {NoAuthority}]
  BY DEF Init
<1>6. /\ epoch \in Nat \ {0}
      /\ gens \in [GenKinds -> Nat]
      /\ facts \in FactSets \cup {DefaultFacts}
      /\ now \in Nat
      /\ next_int_id \in Nat \ {0}
  BY DEF Init
<1>7. shutting_down \in BOOLEAN
  BY DEF Init
<1> QED
  BY <1>1, <1>2, <1>3, <1>4, <1>5, <1>6, <1>7 DEF TypeOK

(* authorize stores a well-typed record, whoever the caller is. *)
LEMMA AuthorizeType ==
  ASSUME TypeOK, NEW o \in ObjectiveIds, NEW t \in Types,
         NEW id \in Nat, NEW authority, NEW expiry \in Nat,
         Authorize(o, t, id, authority, expiry),
         held' \in [ObjectiveIds -> Authority \cup {NoAuthority}]
  PROVE  TypeOK'
<1> DEFINE i == IF id = 0 THEN next_int_id ELSE id
           next == IF id = 0 THEN next_int_id + 1 ELSE next_int_id
           rec == [type |-> t, status |-> "AUTHORIZED", objective |-> o,
                   generation |-> next, authority |-> authority,
                   proposed_at_ns |-> now, expiry_at_ns |-> expiry]
<1>1. i \in Nat \ {0} /\ next \in Nat \ {0}
  BY DEF TypeOK
<1>2. authority \in Authority
  BY CurrentAuthorityType DEF Authorize
<1>3. rec \in Intervention
  BY <1>1, <1>2 DEF Intervention, Statuses, RecordedStatuses, TypeOK
<1>4. /\ interventions' = Put(interventions, i, rec)
      /\ next_int_id' = next
      /\ last_intervention_ns' = Put(last_intervention_ns, o, now)
      /\ UNCHANGED <<fences, inputs, outcomes>>
  BY DEF Authorize
<1> HIDE DEF i, next, rec
<1>5. /\ DOMAIN interventions' \subseteq Nat \ {0}
      /\ DOMAIN interventions \subseteq DOMAIN interventions'
      /\ interventions' \in [DOMAIN interventions' -> Intervention]
  BY <1>1, <1>3, <1>4 DEF TypeOK, Put
<1>6. /\ DOMAIN last_intervention_ns' \subseteq ObjectiveIds
      /\ last_intervention_ns' \in [DOMAIN last_intervention_ns' -> Nat]
  BY <1>4 DEF TypeOK, Put
<1> QED
  BY <1>1, <1>4, <1>5, <1>6 DEF TypeOK, fences, inputs

(* What following an intervention does: an intervention that has not ended *)
(* gets a new status; outcomes records one exactly when it explains that   *)
(* status; everything else stays.                                          *)
OutcomeStatuses == {"EFFECTIVE", "INEFFECTIVE", "OUTCOME_UNKNOWN"}

LEMMA FollowEffect ==
  ASSUME TypeOK, NEW i \in DOMAIN interventions, Follow(i)
  PROVE  /\ ~Terminal(i)
         /\ UNCHANGED <<fences, inputs, last_intervention_ns,
                        next_int_id, held>>
         /\ \E s \in RecordedStatuses :
              /\ SetStatus(i, s)
              /\ \/ outcomes' = outcomes /\ s \notin OutcomeStatuses
                 \/ \E x \in Outcomes : /\ s = StatusOfOutcome(x)
                                        /\ outcomes' = Put(outcomes, i, x)
<1> USE DEF Terminal, TerminalStatuses, Statuses, RecordedStatuses, OutcomeStatuses
<1>1. CASE Dispatch(i)
  <2>1. Revalidated(interventions[i])
          \in {"FAILED", "SUPERSEDED", "DISPATCHED"}
    BY DEF Revalidated
  <2> QED
    BY <1>1, <2>1 DEF Dispatch
<1>2. CASE Acknowledge(i)
  BY <1>2 DEF Acknowledge
<1>3. CASE \E x \in Outcomes : RecordOutcome(i, x)
  <2>1. PICK x \in Outcomes : RecordOutcome(i, x)
    BY <1>3
  <2>2. StatusOfOutcome(x) \in RecordedStatuses
    BY OutcomeIsTerminal
  <2> QED
    BY <2>1, <2>2 DEF RecordOutcome
<1>4. CASE Cancel(i)
  BY <1>4 DEF Cancel
<1>5. CASE Supersede(i)
  BY <1>5 DEF Supersede
<1> QED
  BY <1>1, <1>2, <1>3, <1>4, <1>5 DEF Follow

LEMMA FollowType ==
  ASSUME TypeOK, NEW i \in DOMAIN interventions, Follow(i)
  PROVE  TypeOK'
<1>1. UNCHANGED <<fences, inputs, last_intervention_ns, next_int_id, held>>
  BY FollowEffect
<1>2. PICK s \in RecordedStatuses :
        /\ SetStatus(i, s)
        /\ \/ outcomes' = outcomes
           \/ \E x \in Outcomes : outcomes' = Put(outcomes, i, x)
  BY FollowEffect
<1>3. /\ DOMAIN interventions' = DOMAIN interventions
      /\ interventions' \in [DOMAIN interventions' -> Intervention]
  BY <1>2, SetStatusType
<1>4. /\ DOMAIN outcomes' \subseteq DOMAIN interventions
      /\ outcomes' \in [DOMAIN outcomes' -> Outcomes]
  BY <1>2 DEF TypeOK, Put
<1> QED
  BY <1>1, <1>3, <1>4 DEF TypeOK, fences, inputs

(* A proposal that authorize accepts, from a caller or from decide. *)
LEMMA ProposeIsAuthorize ==
  ASSUME TypeOK, NEW o \in ObjectiveIds, NEW t \in Types,
         Propose(o, t) \/ Decide(o, t)
  PROVE  \E id \in CallerIds \cup {0}, x \in Nat :
           Authorize(o, t, id, CurrentAuthority(o), x)
<1>1. CASE Propose(o, t)
  <2>1. PICK id \in CallerIds \cup {0}, x \in {0} \cup {now + d : d \in Lifetimes} :
          Authorize(o, t, id, held[o], x)
    BY <1>1 DEF Propose
  <2>2. x \in Nat
    BY LifetimesAssumption DEF TypeOK
  <2>3. held[o] = CurrentAuthority(o)
    BY <2>1 DEF Authorize
  <2> QED
    BY <2>1, <2>2, <2>3
<1>2. CASE Decide(o, t)
  <2>1. now + DecideLifetime \in Nat
    BY LifetimesAssumption DEF TypeOK
  <2> QED
    BY <1>2, <2>1 DEF Decide
<1> QED
  BY <1>1, <1>2

LEMMA HeldType ==
  ASSUME TypeOK, NEW o \in ObjectiveIds, Active(o),
         \/ held' = held
         \/ held' = [held EXCEPT ![o] = CurrentAuthority(o)]
  PROVE  held' \in [ObjectiveIds -> Authority \cup {NoAuthority}]
BY CurrentAuthorityType DEF TypeOK

LEMMA NextType == TypeOK /\ [Next]_vars => TypeOK'
<1> SUFFICES ASSUME TypeOK, [Next]_vars PROVE TypeOK'
  OBVIOUS
<1> USE DEF fences, inputs, records
<1>1. CASE \E p \in Policies : SetPolicy(p)
  BY <1>1 DEF SetPolicy, TypeOK
<1>2. CASE AdvanceEpoch
  BY <1>2 DEF AdvanceEpoch, TypeOK
<1>3. CASE \E k \in GenKinds, g \in 0..MaxGen : SetGeneration(k, g)
  BY <1>3, BoundsAssumption DEF SetGeneration, TypeOK
<1>4. CASE \E f \in FactSets : SetResourceFacts(f)
  BY <1>4 DEF SetResourceFacts, TypeOK
<1>5. CASE \E t \in 0..MaxNow : SetClock(t)
  BY <1>5, BoundsAssumption DEF SetClock, TypeOK
<1>6. CASE BeginShutdown
  BY <1>6 DEF BeginShutdown, TypeOK
<1>7. CASE \E o \in ObjectiveIds : Evaluate(o)
  BY <1>7, HeldType DEF Evaluate, TypeOK
<1>8. CASE \E o \in ObjectiveIds, t \in Types : Propose(o, t) \/ Decide(o, t)
  <2>1. PICK o \in ObjectiveIds, t \in Types : Propose(o, t) \/ Decide(o, t)
    BY <1>8
  <2>2. PICK id \in CallerIds \cup {0}, x \in Nat :
          Authorize(o, t, id, CurrentAuthority(o), x)
    BY <2>1, ProposeIsAuthorize
  <2>3. held' \in [ObjectiveIds -> Authority \cup {NoAuthority}]
    BY <2>1, <2>2, HeldType DEF Propose, Decide, Authorize
  <2> QED
    BY <2>2, <2>3, AuthorizeType, CallerIdsAssumption
<1>9. CASE \E i \in DOMAIN interventions : Follow(i)
  BY <1>9, FollowType
<1>10. CASE UNCHANGED vars
  BY <1>10 DEF vars, TypeOK
<1> QED
  BY <1>1, <1>2, <1>3, <1>4, <1>5, <1>6, <1>7, <1>8, <1>9, <1>10 DEF Next

(* Type correctness: whatever the callers do, every variable of the        *)
(* governor keeps its shape, and outcomes are recorded only for            *)
(* interventions on record.                                                *)
THEOREM TypeCorrect == Spec => []TypeOK
<1>1. Init => TypeOK
  BY InitType
<1>2. TypeOK /\ [Next]_vars => TypeOK'
  BY NextType
<1> QED
  BY <1>1, <1>2, PTL DEF Spec

-----------------------------------------------------------------------------
(* When callers leave the identity to the governor, the safety invariants  *)
(* hold together: each needs the books of next_int_id and of the last      *)
(* intervention's time.                                                    *)
Inv ==
  /\ TypeOK
  /\ Bookkeeping
  /\ OutcomeExplainsStatus
  /\ CooldownSpacing

(* A new intervention gets the next identity, which no other has; the      *)
(* others keep their records.                                              *)
LEMMA AuthorizeRecords ==
  ASSUME TypeOK, \A i \in DOMAIN interventions : i < next_int_id,
         NEW o \in ObjectiveIds, NEW t \in Types,
         NEW x \in Nat, Authorize(o, t, 0, CurrentAuthority(o), x)
  PROVE  /\ next_int_id \notin DOMAIN interventions
         /\ DOMAIN interventions' = DOMAIN interventions \cup {next_int_id}
         /\ \A j \in DOMAIN interventions : interventions'[j] = interventions[j]
         /\ interventions'[next_int_id].status = "AUTHORIZED"
         /\ interventions'[next_int_id].objective = o
         /\ interventions'[next_int_id].proposed_at_ns = now
         /\ interventions'[next_int_id].authority = CurrentAuthority(o)
         /\ next_int_id' = next_int_id + 1
         /\ outcomes' = outcomes
         /\ last_intervention_ns' = Put(last_intervention_ns, o, now)
         /\ ~shutting_down /\ shutting_down' = shutting_down
         /\ Active(o) /\ ~CoolingDown(o)
<1>1. next_int_id \notin DOMAIN interventions
  BY DEF TypeOK
<1>2. UNCHANGED outcomes /\ UNCHANGED shutting_down
  BY DEF Authorize, inputs
<1> QED
  BY <1>1, <1>2 DEF Authorize, Put

LEMMA AuthorizeEffect ==
  ASSUME TypeOK, Bookkeeping, NEW o \in ObjectiveIds, NEW t \in Types,
         NEW x \in Nat, Authorize(o, t, 0, CurrentAuthority(o), x)
  PROVE  /\ next_int_id \notin DOMAIN interventions
         /\ DOMAIN interventions' = DOMAIN interventions \cup {next_int_id}
         /\ \A j \in DOMAIN interventions : interventions'[j] = interventions[j]
         /\ interventions'[next_int_id].status = "AUTHORIZED"
         /\ interventions'[next_int_id].objective = o
         /\ interventions'[next_int_id].proposed_at_ns = now
         /\ interventions'[next_int_id].authority = CurrentAuthority(o)
         /\ next_int_id' = next_int_id + 1
         /\ outcomes' = outcomes
         /\ last_intervention_ns' = Put(last_intervention_ns, o, now)
         /\ ~shutting_down /\ shutting_down' = shutting_down
         /\ Active(o) /\ ~CoolingDown(o)
BY AuthorizeRecords DEF Bookkeeping

(* Following one intervention moves nothing but its status, and keeps the  *)
(* outcomes explained.                                                     *)
LEMMA FollowRecords ==
  ASSUME TypeOK, OutcomeExplainsStatus, NEW i \in DOMAIN interventions,
         Follow(i)
  PROVE  /\ OutcomeExplainsStatus'
         /\ DOMAIN interventions' = DOMAIN interventions
         /\ \A j \in DOMAIN interventions :
              /\ interventions'[j].objective = interventions[j].objective
              /\ interventions'[j].proposed_at_ns = interventions[j].proposed_at_ns
              /\ interventions'[j].authority = interventions[j].authority
         /\ UNCHANGED <<last_intervention_ns, next_int_id>>
<1>1. ~Terminal(i) /\ UNCHANGED <<last_intervention_ns, next_int_id>>
  BY FollowEffect
<1>2. PICK s \in RecordedStatuses :
        /\ SetStatus(i, s)
        /\ \/ outcomes' = outcomes /\ s \notin OutcomeStatuses
           \/ \E x \in Outcomes : /\ s = StatusOfOutcome(x)
                                  /\ outcomes' = Put(outcomes, i, x)
  BY FollowEffect
<1>3. /\ DOMAIN interventions' = DOMAIN interventions
      /\ interventions'[i] = [interventions[i] EXCEPT !.status = s]
      /\ interventions'[i].status = s
      /\ \A j \in DOMAIN interventions :
           j # i => interventions'[j] = interventions[j]
  BY <1>2, SetStatusType
<1>4. \A j \in DOMAIN interventions :
        /\ interventions'[j].objective = interventions[j].objective
        /\ interventions'[j].proposed_at_ns = interventions[j].proposed_at_ns
        /\ interventions'[j].authority = interventions[j].authority
  <2>1. interventions[i] \in Intervention
    BY DEF TypeOK
  <2>2. /\ interventions'[i].objective = interventions[i].objective
        /\ interventions'[i].proposed_at_ns = interventions[i].proposed_at_ns
        /\ interventions'[i].authority = interventions[i].authority
    BY <1>3, <2>1 DEF Intervention
  <2> QED
    BY <1>3, <2>2
<1>5. i \notin DOMAIN outcomes
  BY <1>1, OutcomeIsTerminal DEF OutcomeExplainsStatus, Terminal, TypeOK
<1>6. OutcomeExplainsStatus'
  <2>1. CASE outcomes' = outcomes /\ s \notin OutcomeStatuses
    BY <2>1, <1>3, <1>5 DEF OutcomeExplainsStatus, OutcomeStatuses, TypeOK
  <2>2. CASE \E x \in Outcomes : /\ s = StatusOfOutcome(x)
                                 /\ outcomes' = Put(outcomes, i, x)
    BY <2>2, <1>3, <1>5 DEF OutcomeExplainsStatus, Put, TypeOK
  <2> QED
    BY <1>2, <2>1, <2>2
<1> QED
  BY <1>1, <1>3, <1>4, <1>6

(* The cooldown test, read as a fact about the time of the last            *)
(* intervention of an objective that has a cooldown under every policy.    *)
LEMMA PauseRespected ==
  ASSUME TypeOK, NEW o \in ObjectiveIds, Active(o), ~CoolingDown(o),
         o \in DOMAIN last_intervention_ns,
         NEW d \in Nat \ {0}, AtLeastCoolDown(o, d)
  PROVE  now >= last_intervention_ns[o] + d
<1>1. pol \in Policies
  <2>1. o \in DOMAIN pol.objectives
    BY DEF Active
  <2>2. DOMAIN NoPolicy.objectives = {}
    BY DEF NoPolicy
  <2> QED
    BY <2>1, <2>2 DEF TypeOK
<1>2. pol.objectives[o].cool_down >= d
  BY <1>1 DEF AtLeastCoolDown, Active
<1>3. pol.objectives[o].cool_down \in Nat
  BY PolicyType DEF IsPolicy, Active, IsObjective
<1>4. last_intervention_ns[o] \in Nat /\ now \in Nat
  BY DEF TypeOK
<1>5. pol.objectives[o].cool_down > 0
  BY <1>2, <1>3
<1>6. ~(now - last_intervention_ns[o] < pol.objectives[o].cool_down)
  BY <1>5 DEF CoolingDown
<1> QED
  BY <1>2, <1>3, <1>4, <1>6

LEMMA InitInv == Init => Inv
<1> SUFFICES ASSUME Init PROVE Inv
  OBVIOUS
<1>1. DOMAIN interventions = {} /\ DOMAIN outcomes = {}
  BY DEF Init
<1> QED
  BY <1>1, InitType DEF Inv, Bookkeeping, OutcomeExplainsStatus, CooldownSpacing

(* A step that leaves the records alone leaves the invariant alone. *)
LEMMA UnchangedInv ==
  ASSUME Inv, TypeOK', UNCHANGED records
  PROVE  Inv'
BY DEF Inv, records, Bookkeeping, OutcomeExplainsStatus, CooldownSpacing,
       AtLeastCoolDown

LEMMA AuthorizeInv ==
  ASSUME Inv, TypeOK', NEW o \in ObjectiveIds, NEW t \in Types, NEW x \in Nat,
         Authorize(o, t, 0, CurrentAuthority(o), x)
  PROVE  Inv'
<1> DEFINE n == next_int_id
<1> USE DEF Inv
<1>1. /\ n \notin DOMAIN interventions
      /\ DOMAIN interventions' = DOMAIN interventions \cup {n}
      /\ \A j \in DOMAIN interventions : interventions'[j] = interventions[j]
      /\ interventions'[n].status = "AUTHORIZED"
      /\ interventions'[n].objective = o
      /\ interventions'[n].proposed_at_ns = now
      /\ next_int_id' = n + 1
      /\ outcomes' = outcomes
      /\ last_intervention_ns' = Put(last_intervention_ns, o, now)
      /\ Active(o) /\ ~CoolingDown(o)
  BY AuthorizeEffect
<1>2. /\ DOMAIN last_intervention_ns' = DOMAIN last_intervention_ns \cup {o}
      /\ last_intervention_ns'[o] = now
      /\ \A q \in DOMAIN last_intervention_ns \ {o} :
           last_intervention_ns'[q] = last_intervention_ns[q]
  BY <1>1 DEF Put
<1>3. \A i \in DOMAIN interventions : 
        interventions[i].proposed_at_ns \in Nat /\ i \in Nat
  BY DEF TypeOK, Intervention
<1>4. \A i \in DOMAIN interventions, d \in Nat \ {0} :
        /\ interventions[i].objective = o
        /\ AtLeastCoolDown(o, d)
        => now >= interventions[i].proposed_at_ns + d
  <2> SUFFICES ASSUME NEW i \in DOMAIN interventions, NEW d \in Nat \ {0},
                      interventions[i].objective = o, AtLeastCoolDown(o, d)
               PROVE  now >= interventions[i].proposed_at_ns + d
    OBVIOUS
  <2>1. o \in DOMAIN last_intervention_ns
    BY DEF Bookkeeping
  <2>2. now >= last_intervention_ns[o] + d
    BY <1>1, <2>1, PauseRespected
  <2>3. AtLeastCoolDown(o, 1)
    <3> SUFFICES ASSUME NEW p \in Policies, o \in DOMAIN p.objectives
                 PROVE  p.objectives[o].cool_down >= 1
      BY DEF AtLeastCoolDown
    <3>1. p.objectives[o].cool_down \in Nat
      BY PoliciesAssumption DEF IsPolicy, IsObjective
    <3>2. p.objectives[o].cool_down >= d
      BY DEF AtLeastCoolDown
    <3> QED
      BY <3>1, <3>2
  <2>4. interventions[i].proposed_at_ns <= last_intervention_ns[o]
    BY <2>3 DEF Bookkeeping
  <2>5. last_intervention_ns[o] \in Nat /\ now \in Nat
    BY <2>1 DEF TypeOK
  <2> QED
    BY <1>3, <2>2, <2>4, <2>5
<1>5. \A q, d : AtLeastCoolDown(q, d)' <=> AtLeastCoolDown(q, d)
  BY DEF AtLeastCoolDown
<1>6. n \in Nat /\ now \in Nat
  BY DEF TypeOK
<1>7. Bookkeeping'
  <2> SUFFICES ASSUME NEW i \in DOMAIN interventions'
               PROVE  /\ i < n + 1
                      /\ interventions'[i].objective \in DOMAIN last_intervention_ns'
                      /\ AtLeastCoolDown(interventions'[i].objective, 1)
                           => interventions'[i].proposed_at_ns
                                <= last_intervention_ns'[interventions'[i].objective]
    BY <1>1, <1>5 DEF Bookkeeping, AtLeastCoolDown
  <2>1. CASE i = n
    BY <2>1, <1>1, <1>2, <1>6
  <2>2. CASE i # n /\ interventions[i].objective = o
    <3>1. i \in DOMAIN interventions /\ interventions'[i] = interventions[i]
      BY <2>2, <1>1
    <3>2. i < n
      BY <3>1 DEF Bookkeeping
    <3>3. AtLeastCoolDown(o, 1) => now >= interventions[i].proposed_at_ns + 1
      BY <1>4, <2>2, <3>1
    <3> QED
      BY <3>1, <3>2, <3>3, <2>2, <1>2, <1>3, <1>6
  <2>3. CASE i # n /\ interventions[i].objective # o
    <3>1. i \in DOMAIN interventions /\ interventions'[i] = interventions[i]
      BY <2>3, <1>1
    <3>2. i < n /\ interventions[i].objective \in DOMAIN last_intervention_ns
      BY <3>1 DEF Bookkeeping
    <3>3. last_intervention_ns'[interventions[i].objective]
            = last_intervention_ns[interventions[i].objective]
      BY <3>2, <2>3, <1>2
    <3> QED
      BY <3>1, <3>2, <3>3, <1>2, <1>3, <1>6 DEF Bookkeeping
  <2> QED
    BY <2>1, <2>2, <2>3
<1>8. OutcomeExplainsStatus'
  BY <1>1 DEF OutcomeExplainsStatus, TypeOK
<1>9. CooldownSpacing'
  <2> SUFFICES ASSUME NEW i \in DOMAIN interventions',
                      NEW j \in DOMAIN interventions',
                      i < j,
                      interventions'[i].objective = interventions'[j].objective,
                      NEW d \in 1..MaxNow,
                      AtLeastCoolDown(interventions'[i].objective, d)
               PROVE  interventions'[j].proposed_at_ns
                        >= interventions'[i].proposed_at_ns + d
    BY <1>5 DEF CooldownSpacing, AtLeastCoolDown
  <2>1. i # n
    BY <1>1, <1>3, <1>6 DEF Bookkeeping
  <2>2. i \in DOMAIN interventions /\ interventions'[i] = interventions[i]
    BY <2>1, <1>1
  <2>3. d \in Nat \ {0}
    BY BoundsAssumption
  <2>4. CASE j = n
    BY <2>2, <2>3, <2>4, <1>1, <1>4
  <2>5. CASE j # n
    <3>1. j \in DOMAIN interventions /\ interventions'[j] = interventions[j]
      BY <2>5, <1>1
    <3> QED
      BY <2>2, <3>1 DEF CooldownSpacing
  <2> QED
    BY <2>4, <2>5
<1> QED
  BY <1>7, <1>8, <1>9

LEMMA FollowInv ==
  ASSUME Inv, TypeOK', NEW i \in DOMAIN interventions, Follow(i)
  PROVE  Inv'
<1>1. /\ OutcomeExplainsStatus'
      /\ DOMAIN interventions' = DOMAIN interventions
      /\ \A j \in DOMAIN interventions :
           /\ interventions'[j].objective = interventions[j].objective
           /\ interventions'[j].proposed_at_ns = interventions[j].proposed_at_ns
      /\ UNCHANGED <<last_intervention_ns, next_int_id>>
  BY FollowRecords DEF Inv
<1>2. Bookkeeping'
  BY <1>1 DEF Inv, Bookkeeping, AtLeastCoolDown
<1>3. CooldownSpacing'
  BY <1>1 DEF Inv, CooldownSpacing, AtLeastCoolDown
<1> QED
  BY <1>1, <1>2, <1>3 DEF Inv

(* The three kinds of step, as far as the records go. *)
LEMMA StepKinds ==
  ASSUME TypeOK, CallerIds = {}, Next
  PROVE  \/ /\ UNCHANGED records
            /\ shutting_down' \in {shutting_down, TRUE}
         \/ \E o \in ObjectiveIds, t \in Types, x \in Nat :
              Authorize(o, t, 0, CurrentAuthority(o), x)
         \/ \E i \in DOMAIN interventions : Follow(i)
<1>1. CASE \E o \in ObjectiveIds, t \in Types : Propose(o, t) \/ Decide(o, t)
  BY <1>1, ProposeIsAuthorize
<1>2. CASE \E i \in DOMAIN interventions : Follow(i)
  BY <1>2
<1>3. CASE \/ \E p \in Policies : SetPolicy(p)
           \/ AdvanceEpoch
           \/ \E k \in GenKinds, g \in 0..MaxGen : SetGeneration(k, g)
           \/ \E f \in FactSets : SetResourceFacts(f)
           \/ \E t \in 0..MaxNow : SetClock(t)
           \/ BeginShutdown
           \/ \E o \in ObjectiveIds : Evaluate(o)
  BY <1>3 DEF SetPolicy, AdvanceEpoch, SetGeneration, SetResourceFacts,
              SetClock, BeginShutdown, Evaluate, records, inputs
<1> QED
  BY <1>1, <1>2, <1>3 DEF Next

LEMMA NextInv ==
  ASSUME CallerIds = {}
  PROVE  Inv /\ [Next]_vars => Inv'
<1> SUFFICES ASSUME Inv, [Next]_vars PROVE Inv'
  OBVIOUS
<1>1. TypeOK /\ TypeOK'
  BY NextType DEF Inv
<1>2. CASE UNCHANGED vars
  BY <1>1, <1>2, UnchangedInv DEF vars
<1>3. CASE Next
  BY <1>1, <1>3, StepKinds, UnchangedInv, AuthorizeInv, FollowInv
<1> QED
  BY <1>2, <1>3

(* Identities left to the governor: the inductive invariant. *)
THEOREM InvHolds ==
  ASSUME CallerIds = {}
  PROVE  Spec => []Inv
<1>1. Init => Inv
  BY InitInv
<1>2. Inv /\ [Next]_vars => Inv'
  BY NextInv
<1> QED
  BY <1>1, <1>2, PTL DEF Spec

(* A recorded outcome and the status it gave always agree: no outcome that *)
(* comes after an end is stored, whatever the order of calls.              *)
THEOREM OutcomesAgree ==
  ASSUME CallerIds = {}
  PROVE  Spec => []OutcomeExplainsStatus
<1>1. Inv => OutcomeExplainsStatus
  BY DEF Inv
<1> QED
  BY <1>1, InvHolds, PTL

(* Two interventions of an objective are at least its cooldown apart,      *)
(* under any policy changes, any clock and any mix of callers and decide.  *)
THEOREM CooldownHolds ==
  ASSUME CallerIds = {}
  PROVE  Spec => []CooldownSpacing
<1>1. Inv => CooldownSpacing
  BY DEF Inv
<1> QED
  BY <1>1, InvHolds, PTL

(* The governor's own books: no identity on record will be issued again,   *)
(* and the time noted for an objective with a cooldown is that of its      *)
(* latest intervention, however the clock jumps (authorize).               *)
THEOREM BooksAgree ==
  ASSUME CallerIds = {}
  PROVE  Spec => []Bookkeeping
<1>1. Inv => Bookkeeping
  BY DEF Inv
<1> QED
  BY <1>1, InvHolds, PTL

(* No operation of the governor changes an intervention that has ended. *)
THEOREM TerminalStaysTerminal ==
  ASSUME CallerIds = {}
  PROVE  Spec => TerminalIsFinal
<1> DEFINE Final ==
      \A i \in DOMAIN interventions :
        Terminal(i) => /\ i \in DOMAIN interventions'
                       /\ interventions'[i] = interventions[i]
<1>1. Inv /\ Next => Final
  <2> SUFFICES ASSUME Inv, Next PROVE Final
    OBVIOUS
  <2>1. TypeOK /\ Bookkeeping
    BY DEF Inv
  <2>2. CASE UNCHANGED records
    BY <2>2 DEF records
  <2>3. CASE \E o \in ObjectiveIds, t \in Types, x \in Nat :
               Authorize(o, t, 0, CurrentAuthority(o), x)
    BY <2>1, <2>3, AuthorizeEffect
  <2>4. CASE \E i \in DOMAIN interventions : Follow(i)
    <3>1. PICK i \in DOMAIN interventions : Follow(i)
      BY <2>4
    <3>2. ~Terminal(i) /\ \E s \in RecordedStatuses : SetStatus(i, s)
      BY <2>1, <3>1, FollowEffect
    <3> QED
      BY <2>1, <3>2, SetStatusType
  <2> QED
    BY <2>1, <2>2, <2>3, <2>4, StepKinds
<1>2. Inv /\ [Next]_vars => [Final]_vars
  BY <1>1
<1> QED
  BY <1>2, InvHolds, PTL DEF Spec, TerminalIsFinal

-----------------------------------------------------------------------------
(* Interventions implements Lifecycle.  The stage of the interventions, as *)
(* the refinement mapping gives it. *)
Stage == [i \in DOMAIN interventions |-> StageOf(interventions[i].status)]

(* One intervention's move, abstractly: the map changes at i alone. *)
LEMMA StageOfMove ==
  ASSUME TypeOK, NEW i \in DOMAIN interventions, NEW s \in RecordedStatuses,
         SetStatus(i, s)
  PROVE  /\ DOMAIN Stage' = DOMAIN Stage
         /\ Stage' = [Stage EXCEPT ![i] = StageOf(s)]
<1>1. /\ DOMAIN interventions' = DOMAIN interventions
      /\ interventions'[i].status = s
      /\ \A j \in DOMAIN interventions :
           j # i => interventions'[j] = interventions[j]
  BY SetStatusType
<1> QED
  BY <1>1 DEF Stage

LEMMA StageOfStatus ==
  /\ StageOf("AUTHORIZED") = "authorized"
  /\ StageOf("DISPATCHED") = "dispatched"
  /\ StageOf("ACKNOWLEDGED") = "acknowledged"
  /\ \A s \in TerminalStatuses : StageOf(s) = "ended"
  /\ \A s : s \notin {"AUTHORIZED", "DISPATCHED", "ACKNOWLEDGED"}
              => StageOf(s) = "ended"
BY DEF StageOf, TerminalStatuses, Statuses, RecordedStatuses

(* Every operation on an intervention is one abstract move of it, or none. *)
LEMMA FollowRefines ==
  ASSUME TypeOK, NEW i \in DOMAIN interventions, Follow(i)
  PROVE  L!Start(i) \/ L!Accept(i) \/ L!End(i)
<1> DEFINE st == interventions[i].status
<1> USE DEF Stage
<1>1. Stage[i] = StageOf(st)
  OBVIOUS
<1>2. st \in RecordedStatuses /\ ~Terminal(i) /\ shutting_down' = shutting_down
  BY FollowEffect DEF TypeOK, Intervention, inputs
<1>3. Stage[i] \in L!Stages \ {"ended"}
  BY <1>1, <1>2, StageOfStatus
     DEF L!Stages, Terminal, TerminalStatuses, Statuses, RecordedStatuses
<1>4. ASSUME NEW s \in RecordedStatuses, SetStatus(i, s), StageOf(s) = "ended"
      PROVE  L!End(i)
  BY <1>2, <1>3, <1>4, StageOfMove DEF L!End, L!Advance
<1>5. CASE Dispatch(i)
  <2>1. /\ ~shutting_down /\ st = "AUTHORIZED"
        /\ SetStatus(i, Revalidated(interventions[i]))
    BY <1>5 DEF Dispatch
  <2>2. CASE Revalidated(interventions[i]) = "DISPATCHED"
    <3>1. SetStatus(i, "DISPATCHED") /\ "DISPATCHED" \in RecordedStatuses
      BY <2>1, <2>2 DEF Statuses, RecordedStatuses
    <3>2. Stage' = [Stage EXCEPT ![i] = "dispatched"]
      BY <3>1, StageOfMove, StageOfStatus
    <3>3. Stage[i] = "authorized"
      BY <1>1, <2>1, StageOfStatus
    <3> QED
      BY <2>1, <3>2, <3>3, <1>2 DEF L!Start, L!Advance
  <2>3. CASE Revalidated(interventions[i]) \in {"FAILED", "SUPERSEDED"}
    BY <1>4, <2>1, <2>3, StageOfStatus DEF TerminalStatuses, Statuses, RecordedStatuses
  <2> QED
    BY <2>2, <2>3 DEF Revalidated
<1>6. CASE Acknowledge(i)
  <2>1. SetStatus(i, "ACKNOWLEDGED") /\ "ACKNOWLEDGED" \in RecordedStatuses
    BY <1>6 DEF Acknowledge, Statuses, RecordedStatuses
  <2>2. Stage' = [Stage EXCEPT ![i] = "acknowledged"]
    BY <2>1, StageOfMove, StageOfStatus
  <2>3. Stage[i] = "dispatched"
    BY <1>1, <1>6, StageOfStatus DEF Acknowledge
  <2> QED
    BY <2>2, <2>3, <1>2 DEF L!Accept, L!Advance
<1>7. CASE \E x \in Outcomes : RecordOutcome(i, x)
  <2>1. PICK x \in Outcomes : RecordOutcome(i, x)
    BY <1>7
  <2>2. StatusOfOutcome(x) \in TerminalStatuses \cap RecordedStatuses
    BY OutcomeIsTerminal
  <2> QED
    BY <1>4, <2>1, <2>2, StageOfStatus DEF RecordOutcome, TerminalStatuses
<1>8. CASE Cancel(i) \/ Supersede(i)
  BY <1>4, <1>8, StageOfStatus DEF Cancel, Supersede, TerminalStatuses, Statuses, RecordedStatuses
<1> QED
  BY <1>5, <1>6, <1>7, <1>8 DEF Follow

(* A new intervention is a new identity above all others. *)
LEMMA AuthorizeRefines ==
  ASSUME TypeOK, Bookkeeping, NEW o \in ObjectiveIds, NEW t \in Types,
         NEW x \in Nat, Authorize(o, t, 0, CurrentAuthority(o), x)
  PROVE  \E i \in DOMAIN Stage' \ DOMAIN Stage : L!Issue(i)
<1> DEFINE n == next_int_id
<1>1. /\ n \notin DOMAIN interventions
      /\ DOMAIN interventions' = DOMAIN interventions \cup {n}
      /\ \A j \in DOMAIN interventions : interventions'[j] = interventions[j]
      /\ interventions'[n].status = "AUTHORIZED"
      /\ ~shutting_down /\ shutting_down' = shutting_down
  BY AuthorizeEffect
<1>2. Stage' = [j \in DOMAIN Stage \cup {n} |->
                  IF j = n THEN "authorized" ELSE Stage[j]]
  BY <1>1, StageOfStatus DEF Stage
<1>3. \A j \in DOMAIN Stage : j < n
  BY DEF Stage, Bookkeeping
<1>4. n \in DOMAIN Stage' \ DOMAIN Stage
  BY <1>1 DEF Stage
<1> HIDE DEF n
<1> QED
  BY <1>1, <1>2, <1>3, <1>4 DEF L!Issue, Stage

LEMMA InitRefines == Init => L!LInit
BY DEF Init, L!LInit

LEMMA StepRefines ==
  ASSUME CallerIds = {}
  PROVE  Inv /\ [Next]_vars => [L!LNext]_(L!lvars)
<1> SUFFICES ASSUME Inv, [Next]_vars PROVE [L!LNext]_(L!lvars)
  OBVIOUS
<1> USE DEF Stage
<1>1. TypeOK /\ Bookkeeping
  BY DEF Inv
<1>2. CASE UNCHANGED records /\ shutting_down' = shutting_down
  BY <1>2 DEF L!lvars, records
<1>3. CASE UNCHANGED records /\ shutting_down' = TRUE
  BY <1>3 DEF L!LNext, L!Close, records
<1>4. CASE \E o \in ObjectiveIds, t \in Types, x \in Nat :
             Authorize(o, t, 0, CurrentAuthority(o), x)
  BY <1>1, <1>4, AuthorizeRefines DEF L!LNext
<1>5. CASE \E i \in DOMAIN interventions : Follow(i)
  BY <1>1, <1>5, FollowRefines DEF L!LNext
<1>6. CASE UNCHANGED vars
  BY <1>6 DEF vars, inputs, records, L!lvars
<1>7. CASE Next
  BY <1>1, <1>2, <1>3, <1>4, <1>5, <1>7, StepKinds
<1> QED
  BY <1>6, <1>7

(* The governor keeps the promises of Lifecycle: it issues every identity  *)
(* once and in order, dispatches each intervention at most once and only   *)
(* before shutdown, and moves none that has ended.                         *)
THEOREM Refinement ==
  ASSUME CallerIds = {}
  PROVE  Spec => Implements
<1>1. Init => L!LInit
  BY InitRefines
<1>2. Inv /\ [Next]_vars => [L!LNext]_(L!lvars)
  BY StepRefines
<1> QED
  BY <1>1, <1>2, InvHolds, PTL DEF Spec, Implements, L!LSpec
=============================================================================
