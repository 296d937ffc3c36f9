--------------------------- MODULE FencingProofs ---------------------------
(***************************************************************************)
(* Why fencing by AuthorityContext works, for every policy, generation and *)
(* number of interventions: no fence ever goes back, so a context that was *)
(* once overtaken never equals the current one again.                      *)
(***************************************************************************)
EXTENDS Fencing, InterventionsProofs

(* What the proofs read of an authority context. *)
Context == Authority \cup {NoAuthority}

(* No fence of a is ahead of the governor's. *)
Behind(a) ==
  /\ a.epoch <= epoch
  /\ a.policy_generation <= pol.generation
  /\ \A k \in GenKinds : a.generations[k] <= gens[k]

(* And one has been overtaken. *)
Overtaken(a) ==
  /\ Behind(a)
  /\ \/ a.epoch < epoch
     \/ a.policy_generation < pol.generation
     \/ \E k \in GenKinds : a.generations[k] < gens[k]

LEMMA ContextFields ==
  ASSUME NEW a \in Context
  PROVE  /\ a.epoch \in Nat
         /\ a.policy_generation \in Nat
         /\ a.generations \in [GenKinds -> Nat]
<1>1. CASE a \in Authority
  BY <1>1 DEF Authority
<1>2. CASE a = NoAuthority
  BY <1>2 DEF NoAuthority
<1> QED
  BY <1>1, <1>2 DEF Context

LEMMA FenceFields ==
  ASSUME TypeOK
  PROVE  /\ epoch \in Nat
         /\ pol.generation \in Nat
         /\ gens \in [GenKinds -> Nat]
BY PolicyType DEF TypeOK, IsPolicy

LEMMA NextPolicy ==
  ASSUME TypeOK'
  PROVE  pol'.generation \in Nat
<1>1. pol' \in Policies \cup {NoPolicy}
  BY DEF TypeOK
<1>2. IsPolicy(NoPolicy)
  BY DEF IsPolicy, NoPolicy
<1> QED
  BY <1>1, <1>2, PoliciesAssumption DEF IsPolicy

(* The epoch only grows; the caller's discipline makes the other fences    *)
(* grow too.                                                               *)
LEMMA FencesGrow ==
  ASSUME TypeOK, TypeOK', Next, Monotonic
  PROVE  /\ epoch' >= epoch
         /\ pol'.generation >= pol.generation
         /\ \A k \in GenKinds : gens'[k] >= gens[k]
<1>1. epoch' >= epoch
  <2>1. epoch' = epoch \/ AdvanceEpoch
    <3>1. CASE \E o \in ObjectiveIds, t \in Types : Propose(o, t) \/ Decide(o, t)
      BY <3>1, ProposeIsAuthorize DEF Authorize, fences
    <3>2. CASE \E i \in DOMAIN interventions : Follow(i)
      BY <3>2, FollowEffect DEF fences
    <3>3. CASE \/ \E p \in Policies : SetPolicy(p)
               \/ AdvanceEpoch
               \/ \E k \in GenKinds, g \in 0..MaxGen : SetGeneration(k, g)
               \/ \E f \in FactSets : SetResourceFacts(f)
               \/ \E t \in 0..MaxNow : SetClock(t)
               \/ BeginShutdown
               \/ \E o \in ObjectiveIds : Evaluate(o)
      BY <3>3 DEF SetPolicy, SetGeneration, SetResourceFacts, SetClock,
                  BeginShutdown, Evaluate, fences
    <3> QED
      BY <3>1, <3>2, <3>3 DEF Next
  <2> QED
    BY <2>1 DEF AdvanceEpoch, TypeOK
<1>2. pol'.generation >= pol.generation
  <2>1. CASE pol' = pol
    BY <2>1, FenceFields
  <2>2. CASE pol' # pol
    <3>1. pol'.generation > pol.generation
      BY <2>2 DEF Monotonic
    <3> QED
      BY <3>1, FenceFields, NextPolicy
  <2> QED
    BY <2>1, <2>2
<1> QED
  BY <1>1, <1>2 DEF Monotonic

LEMMA BehindForEver ==
  ASSUME TypeOK, TypeOK', Next, Monotonic, NEW a \in Context
  PROVE  /\ Behind(a) => Behind(a)'
         /\ Overtaken(a) => Overtaken(a)'
<1>1. /\ a.epoch \in Nat /\ a.policy_generation \in Nat
      /\ \A k \in GenKinds : a.generations[k] \in Nat
  BY ContextFields
<1>2. /\ epoch \in Nat /\ epoch' \in Nat
      /\ pol.generation \in Nat /\ pol'.generation \in Nat
      /\ \A k \in GenKinds : gens[k] \in Nat /\ gens'[k] \in Nat
  <2>1. epoch' \in Nat /\ pol'.generation \in Nat
        /\ gens' \in [GenKinds -> Nat]
    BY NextPolicy DEF TypeOK
  <2> QED
    BY <2>1, FenceFields
<1>3. /\ epoch' >= epoch
      /\ pol'.generation >= pol.generation
      /\ \A k \in GenKinds : gens'[k] >= gens[k]
  BY FencesGrow
<1>4. Behind(a) => Behind(a)'
  BY <1>1, <1>2, <1>3 DEF Behind
<1>5. ASSUME Overtaken(a) PROVE Overtaken(a)'
  <2>1. \/ a.epoch < epoch'
        \/ a.policy_generation < pol'.generation
        \/ \E k \in GenKinds : a.generations[k] < gens'[k]
    BY <1>1, <1>2, <1>3, <1>5 DEF Overtaken
  <2> QED
    BY <2>1, <1>4, <1>5 DEF Overtaken
<1> QED
  BY <1>4, <1>5

(* A fence that moves overtakes every context that was not ahead of it. *)
LEMMA MovedOvertakes ==
  ASSUME TypeOK, TypeOK', Next, Monotonic,
         NEW a \in Context, Behind(a), NEW o \in ObjectiveIds, Moved(o)
  PROVE  Overtaken(a)'
<1>1. Behind(a)'
  BY BehindForEver
<1>2. /\ a.epoch \in Nat /\ a.policy_generation \in Nat
      /\ \A k \in GenKinds : a.generations[k] \in Nat
  BY ContextFields
<1>3. /\ epoch \in Nat /\ epoch' \in Nat
      /\ pol.generation \in Nat
      /\ gens \in [GenKinds -> Nat] /\ gens' \in [GenKinds -> Nat]
  BY FenceFields DEF TypeOK
<1>4. epoch' # epoch \/ pol' # pol \/ gens' # gens
  BY DEF Moved, Fence
<1>5. CASE epoch' # epoch
  BY <1>1, <1>2, <1>3, <1>5, FencesGrow DEF Behind, Overtaken
<1>6. CASE pol' # pol
  <2>1. pol'.generation > pol.generation
    BY <1>6 DEF Monotonic
  <2>2. pol'.generation \in Nat
    BY NextPolicy
  <2>3. a.policy_generation < pol'.generation
    BY <2>1, <2>2, <1>2, <1>3 DEF Behind
  <2> QED
    BY <1>1, <2>3 DEF Overtaken
<1>7. CASE gens' # gens
  <2>1. PICK k \in GenKinds : gens'[k] # gens[k]
    BY <1>3, <1>7
  <2>2. gens'[k] > gens[k]
    BY <1>3, <2>1 DEF Monotonic
  <2>3. a.generations[k] < gens'[k]
    BY <1>2, <1>3, <2>2 DEF Behind
  <2> QED
    BY <1>1, <2>3 DEF Overtaken
<1> QED
  BY <1>4, <1>5, <1>6, <1>7

LEMMA OvertakenDiffers ==
  ASSUME TypeOK, NEW a, Overtaken(a), NEW o
  PROVE  a # CurrentAuthority(o)
<1> SUFFICES ASSUME a = CurrentAuthority(o) PROVE FALSE
  OBVIOUS
<1>1. a.epoch = epoch /\ a.policy_generation = pol.generation
      /\ a.generations = gens
  BY DEF CurrentAuthority
<1> QED
  BY <1>1, FenceFields DEF Overtaken

LEMMA CurrentIsBehind ==
  ASSUME TypeOK, NEW o
  PROVE  Behind(CurrentAuthority(o))
BY FenceFields DEF Behind, CurrentAuthority

-----------------------------------------------------------------------------
(* The inductive invariant: no context is ahead of the fences, and every   *)
(* context the history variables name has been overtaken.                  *)
FInv ==
  /\ Inv
  /\ disturbed \subseteq DOMAIN interventions
  /\ stale_held \subseteq ObjectiveIds
  /\ \A i \in DOMAIN interventions : Behind(interventions[i].authority)
  /\ \A o \in ObjectiveIds : Behind(held[o])
  /\ \A i \in disturbed : Overtaken(interventions[i].authority)
  /\ \A o \in stale_held : Overtaken(held[o])

LEMMA FInitInv == FInit => FInv
<1> SUFFICES ASSUME FInit PROVE FInv
  OBVIOUS
<1>1. Inv
  BY InitInv DEF FInit
<1>2. DOMAIN interventions = {} /\ disturbed = {} /\ stale_held = {}
  BY DEF FInit, Init
<1>3. \A o \in ObjectiveIds : Behind(held[o])
  <2> SUFFICES ASSUME NEW o \in ObjectiveIds PROVE Behind(held[o])
    OBVIOUS
  <2>1. held[o] = NoAuthority /\ epoch = 1 /\ gens = [k \in GenKinds |-> 0]
    BY DEF FInit, Init
  <2>2. pol.generation \in Nat
    BY <1>1, FenceFields DEF Inv
  <2> QED
    BY <2>1, <2>2 DEF Behind, NoAuthority
<1> QED
  BY <1>1, <1>2, <1>3 DEF FInv

(* A step leaves the authority of every intervention on record alone, and  *)
(* a new intervention has the current one.                                 *)
LEMMA AuthoritiesKept ==
  ASSUME CallerIds = {}, Inv, Inv', Next
  PROVE  /\ \A i \in DOMAIN interventions :
              /\ i \in DOMAIN interventions'
              /\ interventions'[i].authority = interventions[i].authority
              /\ interventions'[i].objective = interventions[i].objective
         /\ \A i \in DOMAIN interventions' \ DOMAIN interventions :
              LET o == interventions'[i].objective
              IN /\ UNCHANGED fences
                 /\ Active(o)
                 /\ interventions'[i].authority = CurrentAuthority(o)
<1>1. TypeOK /\ Bookkeeping
  BY DEF Inv
<1>2. CASE UNCHANGED records
  BY <1>2 DEF records
<1>3. CASE \E o \in ObjectiveIds, t \in Types, x \in Nat :
             Authorize(o, t, 0, CurrentAuthority(o), x)
  <2>1. PICK o \in ObjectiveIds, t \in Types, x \in Nat :
               Authorize(o, t, 0, CurrentAuthority(o), x)
    BY <1>3
  <2>2. UNCHANGED fences
    BY <2>1 DEF Authorize
  <2> QED
    BY <1>1, <2>1, <2>2, AuthorizeEffect
<1>4. CASE \E i \in DOMAIN interventions : Follow(i)
  <2>1. PICK i \in DOMAIN interventions : Follow(i)
    BY <1>4
  <2>2. PICK s \in RecordedStatuses : SetStatus(i, s)
    BY <1>1, <2>1, FollowEffect
  <2>3. /\ DOMAIN interventions' = DOMAIN interventions
        /\ interventions'[i] = [interventions[i] EXCEPT !.status = s]
        /\ \A j \in DOMAIN interventions :
             j # i => interventions'[j] = interventions[j]
    BY <1>1, <2>2, SetStatusType
  <2>4. interventions[i] \in Intervention
    BY <1>1 DEF TypeOK
  <2> QED
    BY <2>3, <2>4 DEF Intervention
<1> QED
  BY <1>1, <1>2, <1>3, <1>4, StepKinds

(* A held context changes only when an evaluation replaces it by the       *)
(* current one, and then no fence moves.                                   *)
LEMMA HeldKept ==
  ASSUME TypeOK, Next, NEW o \in ObjectiveIds
  PROVE  \/ held'[o] = held[o]
         \/ /\ UNCHANGED fences
            /\ Active(o)
            /\ held'[o] = CurrentAuthority(o)
<1>1. CASE \E p \in ObjectiveIds, t \in Types : Propose(p, t)
  BY <1>1 DEF Propose
<1>2. CASE \E p \in ObjectiveIds, t \in Types : Decide(p, t)
  <2>1. PICK p \in ObjectiveIds, t \in Types : Decide(p, t)
    BY <1>2
  <2>2. /\ UNCHANGED fences /\ Active(p)
        /\ held' = [held EXCEPT ![p] = CurrentAuthority(p)]
    BY <2>1 DEF Decide, Authorize
  <2> QED
    BY <2>2 DEF TypeOK
<1>3. CASE \E p \in ObjectiveIds : Evaluate(p)
  <2>1. PICK p \in ObjectiveIds : Evaluate(p)
    BY <1>3
  <2>2. /\ UNCHANGED fences /\ Active(p)
        /\ held' = [held EXCEPT ![p] = CurrentAuthority(p)]
    BY <2>1 DEF Evaluate
  <2> QED
    BY <2>2 DEF TypeOK
<1>4. CASE \E i \in DOMAIN interventions : Follow(i)
  BY <1>4, FollowEffect
<1>5. CASE \/ \E p \in Policies : SetPolicy(p)
           \/ AdvanceEpoch
           \/ \E k \in GenKinds, g \in 0..MaxGen : SetGeneration(k, g)
           \/ \E f \in FactSets : SetResourceFacts(f)
           \/ \E t \in 0..MaxNow : SetClock(t)
           \/ BeginShutdown
  BY <1>5 DEF SetPolicy, AdvanceEpoch, SetGeneration, SetResourceFacts,
              SetClock, BeginShutdown
<1> QED
  BY <1>1, <1>2, <1>3, <1>4, <1>5 DEF Next

LEMMA FStepInv ==
  ASSUME CallerIds = {}, FInv, FNext
  PROVE  FInv'
<1>1. Inv /\ TypeOK /\ Next /\ Monotonic
  BY DEF FInv, Inv, FNext
<1>2. Inv' /\ TypeOK'
  <2>1. Inv'
    BY <1>1, NextInv
  <2> QED
    BY <2>1 DEF Inv
<1>3. disturbed' \subseteq DOMAIN interventions'
  BY <1>1, <1>2, AuthoritiesKept DEF FNext
<1>4. stale_held' \subseteq ObjectiveIds
  BY DEF FNext
<1>5. ASSUME NEW i \in DOMAIN interventions
      PROVE  /\ Behind(interventions[i].authority)'
             /\ i \in disturbed' => Overtaken(interventions[i].authority)'
  <2>1. PICK a : a = interventions[i].authority
    OBVIOUS
  <2>2. PICK o : o = interventions[i].objective
    OBVIOUS
  <2>3. a \in Context /\ o \in ObjectiveIds
    BY <1>1, <2>1, <2>2 DEF TypeOK, Intervention, Context
  <2>4. interventions'[i].authority = a /\ interventions'[i].objective = o
    BY <1>1, <1>2, <2>1, <2>2, AuthoritiesKept
  <2>5. Behind(a)
    BY <2>1 DEF FInv
  <2>6. Behind(a)'
    BY <1>1, <1>2, <2>3, <2>5, BehindForEver
  <2>7. ASSUME i \in disturbed' PROVE Overtaken(a)'
    <3>1. i \in disturbed \/ Moved(o)
      BY <2>2, <2>7 DEF FNext
    <3>2. CASE i \in disturbed
      BY <1>1, <1>2, <2>1, <2>3, <3>2, BehindForEver DEF FInv
    <3>3. CASE Moved(o)
      BY <1>1, <1>2, <2>3, <2>5, <3>3, MovedOvertakes
    <3> QED
      BY <3>1, <3>2, <3>3
  <2> QED
    BY <2>4, <2>6, <2>7
<1>6. ASSUME NEW i \in DOMAIN interventions' \ DOMAIN interventions
      PROVE  Behind(interventions[i].authority)' /\ i \notin disturbed'
  <2>1. PICK o : o = interventions'[i].objective
    OBVIOUS
  <2>2. UNCHANGED fences /\ interventions'[i].authority = CurrentAuthority(o)
    BY <1>1, <1>2, <2>1, AuthoritiesKept
  <2>3. CurrentAuthority(o)' = CurrentAuthority(o)
    BY <2>2 DEF fences, CurrentAuthority
  <2>4. Behind(CurrentAuthority(o))
    BY <1>1, CurrentIsBehind
  <2>5. Behind(interventions[i].authority)'
    BY <2>2, <2>3, <2>4 DEF Behind, fences
  <2> QED
    BY <2>5 DEF FNext
<1>7. ASSUME NEW o \in ObjectiveIds
      PROVE  /\ Behind(held[o])'
             /\ o \in stale_held' => Overtaken(held[o])'
  <2>1. CASE held'[o] = held[o]
    <3>1. PICK a : a = held[o]
      OBVIOUS
    <3>2. a \in Context /\ Behind(a)
      BY <1>1, <3>1 DEF FInv, TypeOK, Context
    <3>3. Behind(a)'
      BY <1>1, <1>2, <3>2, BehindForEver
    <3>4. ASSUME o \in stale_held' PROVE Overtaken(a)'
      <4>1. o \in stale_held \/ Moved(o)
        BY <3>4 DEF FNext
      <4>2. CASE o \in stale_held
        BY <1>1, <1>2, <3>1, <3>2, <4>2, BehindForEver DEF FInv
      <4>3. CASE Moved(o)
        BY <1>1, <1>2, <3>2, <4>3, MovedOvertakes
      <4> QED
        BY <4>1, <4>2, <4>3
    <3> QED
      BY <2>1, <3>1, <3>3, <3>4
  <2>2. CASE held'[o] # held[o]
    <3>1. UNCHANGED fences /\ held'[o] = CurrentAuthority(o)
      BY <1>1, <2>2, HeldKept
    <3>2. Behind(CurrentAuthority(o))
      BY <1>1, CurrentIsBehind
    <3>3. Behind(held[o])'
      BY <3>1, <3>2 DEF Behind, fences
    <3>4. ~Moved(o)
      BY <3>1 DEF Moved, Fence, fences
    <3>5. o \notin stale_held'
      BY <2>2, <3>4 DEF FNext
    <3> QED
      BY <3>3, <3>5
  <2> QED
    BY <2>1, <2>2
<1> QED
  BY <1>2, <1>3, <1>4, <1>5, <1>6, <1>7 DEF FInv

LEMMA FNextInv ==
  ASSUME CallerIds = {}
  PROVE  FInv /\ [FNext]_fvars => FInv'
<1> SUFFICES ASSUME FInv, [FNext]_fvars PROVE FInv'
  OBVIOUS
<1>1. CASE FNext
  BY <1>1, FStepInv
<1>2. CASE UNCHANGED fvars
  <2>1. Inv'
    BY <1>2, NextInv DEF FInv, fvars
  <2> QED
    BY <1>2, <2>1 DEF FInv, fvars, history, vars, fences, records,
                      Behind, Overtaken
<1> QED
  BY <1>1, <1>2

(* Contexts never run ahead of the fences, and one that a fence has left   *)
(* behind stays behind (current_authority, the setters).                   *)
THEOREM FInvHolds ==
  ASSUME CallerIds = {}
  PROVE  FSpec => []FInv
<1>1. FInit => FInv
  BY FInitInv
<1>2. FInv /\ [FNext]_fvars => FInv'
  BY FNextInv
<1> QED
  BY <1>1, <1>2, PTL DEF FSpec

(* A fence that moved shows in the context for ever.                       *)
THEOREM ContextRemembersHolds ==
  ASSUME CallerIds = {}
  PROVE  FSpec => []ContextRemembers
<1>1. FInv => ContextRemembers
  BY OvertakenDiffers DEF FInv, Inv, ContextRemembers
<1> QED
  BY <1>1, FInvHolds, PTL

(* Pre-dispatch revalidation is sound: nothing is dispatched after its     *)
(* epoch, policy, objective or runtime generations have moved.             *)
THEOREM DispatchIsFenced ==
  ASSUME CallerIds = {}
  PROVE  FSpec => NoDispatchAcrossFences
<1> DEFINE Fenced ==
      \A i \in DOMAIN interventions :
        Becomes(i, "DISPATCHED") => i \notin disturbed
<1>1. FInv /\ FNext => Fenced
  <2> SUFFICES ASSUME FInv, FNext, NEW i \in DOMAIN interventions,
                      Becomes(i, "DISPATCHED"), i \in disturbed
               PROVE  FALSE
    OBVIOUS
  <2>1. Inv /\ TypeOK /\ Bookkeeping /\ Next
    BY DEF FInv, Inv, FNext
  <2>2. \E j \in DOMAIN interventions : Follow(j)
    <3>1. CASE UNCHANGED records
      BY <3>1 DEF records, Becomes
    <3>2. CASE \E o \in ObjectiveIds, t \in Types, x \in Nat :
                 Authorize(o, t, 0, CurrentAuthority(o), x)
      BY <2>1, <3>2, AuthorizeEffect DEF Becomes
    <3> QED
      BY <2>1, <3>1, <3>2, StepKinds
  <2>3. PICK j \in DOMAIN interventions : Follow(j)
    BY <2>2
  <2>4. j = i
    BY <2>1, <2>3, FollowEffect, SetStatusType DEF Becomes
  <2>5. Dispatch(i)
    <3>1. PICK s \in RecordedStatuses : SetStatus(i, s)
      BY <2>1, <2>3, <2>4, FollowEffect
    <3>2. s = "DISPATCHED"
      BY <2>1, <3>1, SetStatusType DEF Becomes
    <3>3. interventions'[i].status = "DISPATCHED"
      BY DEF Becomes
    <3>4. ~Acknowledge(i)
      BY <2>1, <3>3, SetStatusType
         DEF Acknowledge, Statuses, RecordedStatuses
    <3>5. ASSUME NEW x \in Outcomes, RecordOutcome(i, x) PROVE FALSE
      <4>1. StatusOfOutcome(x) \in TerminalStatuses \cap RecordedStatuses
        BY OutcomeIsTerminal
      <4>2. interventions'[i].status = StatusOfOutcome(x)
        BY <2>1, <3>5, <4>1, SetStatusType DEF RecordOutcome
      <4> QED
        BY <3>3, <4>1, <4>2 DEF TerminalStatuses, Statuses
    <3>6. ~Cancel(i) /\ ~Supersede(i)
      <4>1. "CANCELLED" \in RecordedStatuses /\ "SUPERSEDED" \in RecordedStatuses
        BY DEF Statuses, RecordedStatuses
      <4>2. ~SetStatus(i, "CANCELLED") /\ ~SetStatus(i, "SUPERSEDED")
        BY <2>1, <3>3, <4>1, SetStatusType
      <4> QED
        BY <4>2 DEF Cancel, Supersede
    <3> QED
      BY <2>3, <2>4, <3>4, <3>5, <3>6 DEF Follow
  <2>6. Revalidated(interventions[i]) = "DISPATCHED"
    <3>1. SetStatus(i, Revalidated(interventions[i]))
      BY <2>5 DEF Dispatch
    <3>2. Revalidated(interventions[i]) \in RecordedStatuses
      BY DEF Revalidated, RecordedStatuses, Statuses
    <3> QED
      BY <2>1, <3>1, <3>2, SetStatusType DEF Becomes
  <2>7. interventions[i].authority
          = CurrentAuthority(interventions[i].objective)
    BY <2>6 DEF Revalidated
  <2>8. Overtaken(interventions[i].authority)
    BY DEF FInv
  <2> QED
    BY <2>1, <2>7, <2>8, OvertakenDiffers
<1>2. FInv /\ [FNext]_fvars => [Fenced]_fvars
  BY <1>1
<1> QED
  BY <1>2, FInvHolds, PTL DEF FSpec, NoDispatchAcrossFences

(* A stale evaluation authorizes nothing. *)
THEOREM AuthorizationIsFenced ==
  ASSUME CallerIds = {}
  PROVE  FSpec => NoAuthorizationFromStaleEvaluation
<1> DEFINE Fresh ==
      \A i \in DOMAIN interventions' :
        Issued(i) => interventions'[i].objective \notin stale_held'
<1>1. FInv /\ FInv' /\ FNext => Fresh
  <2> SUFFICES ASSUME FInv, FInv', FNext, NEW i \in DOMAIN interventions',
                      Issued(i), interventions'[i].objective \in stale_held'
               PROVE  FALSE
    OBVIOUS
  <2>1. Inv /\ Inv' /\ TypeOK /\ TypeOK' /\ Next
    BY DEF FInv, Inv, FNext
  <2>2. PICK o \in ObjectiveIds : o = interventions'[i].objective
    BY <2>1 DEF TypeOK, Intervention
  <2>3. UNCHANGED fences
    BY <2>1, AuthoritiesKept DEF Issued
  <2>4. held'[o] = CurrentAuthority(o)
    <3>1. PICK p \in ObjectiveIds, t \in Types : Propose(p, t) \/ Decide(p, t)
      <4>1. interventions' # interventions
        BY DEF Issued
      <4>2. ASSUME NEW j \in DOMAIN interventions, Follow(j) PROVE FALSE
        BY <2>1, <4>2, FollowEffect, SetStatusType DEF Issued
      <4> QED
        BY <2>1, <4>1, <4>2
           DEF Next, SetPolicy, AdvanceEpoch, SetGeneration, SetResourceFacts,
               SetClock, BeginShutdown, Evaluate, records
    <3>2. PICK x \in Nat : Authorize(p, t, 0, CurrentAuthority(p), x)
      BY <2>1, <3>1, ProposeIsAuthorize
    <3>3. p = o
      BY <2>1, <2>2, <3>2, AuthorizeEffect DEF Issued, Inv
    <3>4. CASE Propose(p, t)
      BY <3>3, <3>4 DEF Propose, Authorize
    <3>5. CASE Decide(p, t)
      BY <2>1, <3>3, <3>5 DEF Decide, TypeOK
    <3> QED
      BY <3>1, <3>4, <3>5
  <2>5. held'[o] = CurrentAuthority(o)'
    BY <2>3, <2>4 DEF fences, CurrentAuthority
  <2>6. Overtaken(held[o])'
    BY <2>2 DEF FInv
  <2> QED
    <3>1. \A a : Overtaken(a) => a # CurrentAuthority(o)
      BY <2>1, OvertakenDiffers
    <3>2. PICK a : a = held'[o]
      OBVIOUS
    <3>3. Overtaken(a)
      BY <2>3, <2>6, <3>2 DEF Overtaken, Behind, fences
    <3> QED
      BY <2>4, <3>1, <3>2, <3>3
<1>2. FInv /\ FInv' /\ [FNext]_fvars => [Fresh]_fvars
  BY <1>1
<1> QED
  BY <1>2, FInvHolds, PTL DEF FSpec, NoAuthorizationFromStaleEvaluation
=============================================================================
