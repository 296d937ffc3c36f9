------------------------- MODULE PersistenceProofs -------------------------
(***************************************************************************)
(* Theorems about Persistence: what a state file, however old and however  *)
(* far it is read, and a process that ends at any moment do to the records *)
(* and to the evidence.                                                    *)
(***************************************************************************)
EXTENDS Persistence, GovernorProofs, FiniteSetTheorems

(* What every file that save has completed says. *)
FileTyped(f) ==
  /\ f.pol \in Policies \cup {I!NoPolicy}
  /\ DOMAIN f.interventions \subseteq Nat \ {0}
  /\ f.interventions \in [DOMAIN f.interventions -> IP!Intervention]
  /\ DOMAIN f.outcomes \subseteq DOMAIN f.interventions
  /\ f.outcomes \in [DOMAIN f.outcomes -> IP!Outcomes]
  /\ f.next_int_id \in Nat \ {0}
  /\ f.marks \subseteq ObjectiveIds
  /\ \A i \in DOMAIN f.interventions :
       f.interventions[i].authority = I!NoAuthority

(* Its records agree as those in memory do. *)
FileAgrees(f) ==
  /\ \A i \in DOMAIN f.outcomes :
       f.interventions[i].status = I!StatusOfOutcome(f.outcomes[i])
  /\ \A i \in DOMAIN f.interventions :
       /\ f.interventions[i].status
            \in {"EFFECTIVE", "INEFFECTIVE", "OUTCOME_UNKNOWN"}
            => i \in DOMAIN f.outcomes
       /\ i < f.next_int_id

(* An objective without evidence since it was loaded is marked. *)
UnprovenMarked == \A o \in unproven : o \in ObjectiveIds /\ revalidate_needed[o]

(* The inductive invariant has three parts.  The first needs nothing. *)
TypedInv ==
  /\ IP!TypeOK
  /\ EP!EvidenceSound
  /\ UnprovenMarked
  /\ file # NoFile => FileTyped(file)

(* The second needs callers that leave identities to the governor. *)
RecoveredInv ==
  \A i \in DOMAIN interventions \ own :
    interventions[i].authority = I!NoAuthority

(* The third needs, besides, that load does not give up between the        *)
(* interventions and the next identity.                                    *)
BooksInv ==
  /\ I!OutcomeExplainsStatus
  /\ \A i \in DOMAIN interventions : i < next_int_id
  /\ file # NoFile => FileAgrees(file)

(* There are as many marks as objectives, at most. *)
FewMarks ==
  IsFiniteSet(ObjectiveIds) /\ Cardinality(ObjectiveIds) <= MaxLoadMarks

LEMMA ReadsAllRecords ==
  ASSUME FewMarks, NEW f, FileTyped(f)
  PROVE  ReadsAll(f) <=> ReadsRecords(f)
<1>1. f.marks \in SUBSET ObjectiveIds
  BY DEF FileTyped
<1>2. /\ Cardinality(f.marks) \in Nat
      /\ Cardinality(ObjectiveIds) \in Nat
      /\ Cardinality(f.marks) <= Cardinality(ObjectiveIds)
  BY <1>1, FS_Subset, FS_CardinalityType DEF FewMarks
<1>3. Cardinality(f.marks) <= MaxLoadMarks
  BY <1>2, LoadAssumption DEF FewMarks
<1> QED
  BY <1>3 DEF ReadsAll

-----------------------------------------------------------------------------
LEMMA InitPersistence == PInit => TypedInv /\ RecoveredInv /\ BooksInv
<1> SUFFICES ASSUME PInit PROVE TypedInv /\ RecoveredInv /\ BooksInv
  OBVIOUS
<1>1. IP!TypeOK /\ EP!EvidenceSound
  BY InitHalves DEF PInit, EP!EvidenceInv
<1>2. DOMAIN interventions = {} /\ DOMAIN outcomes = {}
  BY DEF PInit, Init, I!Init
<1>3. RecoveredInv /\ BooksInv
  BY <1>2 DEF RecoveredInv, BooksInv, I!OutcomeExplainsStatus, PInit
<1> QED
  BY <1>1, <1>3 DEF TypedInv, PInit, UnprovenMarked

-----------------------------------------------------------------------------
(* What save writes. *)
LEMMA SavedEffect ==
  ASSUME IP!TypeOK, NEW keys
  PROVE  /\ Saved(keys).pol = pol
         /\ Saved(keys).outcomes = outcomes
         /\ Saved(keys).marks = keys
         /\ Saved(keys).next_int_id = next_int_id
         /\ DOMAIN Saved(keys).interventions = DOMAIN interventions
         /\ Saved(keys).interventions \in [DOMAIN interventions -> IP!Intervention]
         /\ \A i \in DOMAIN interventions :
              /\ Saved(keys).interventions[i].status = interventions[i].status
              /\ Saved(keys).interventions[i].authority = I!NoAuthority
<1> DEFINE f == Saved(keys)
<1>1. /\ f.pol = pol /\ f.outcomes = outcomes /\ f.marks = keys
      /\ f.next_int_id = next_int_id
      /\ f.interventions
           = [i \in DOMAIN interventions |-> Stripped(interventions[i])]
  BY DEF Saved
<1>2. ASSUME NEW i \in DOMAIN interventions
      PROVE  /\ Stripped(interventions[i]) \in IP!Intervention
             /\ Stripped(interventions[i]).status = interventions[i].status
             /\ Stripped(interventions[i]).authority = I!NoAuthority
  <2>1. interventions[i] \in IP!Intervention
    BY DEF IP!TypeOK
  <2>2. I!NoAuthority = IP!NoAuthority
    BY SameInterventions
  <2> QED
    BY <2>1, <2>2 DEF Stripped, IP!Intervention
<1> QED
  BY <1>1, <1>2

LEMMA SavedTyped ==
  ASSUME IP!TypeOK, NEW keys \in SUBSET ObjectiveIds
  PROVE  FileTyped(Saved(keys))
<1>1. I!NoPolicy = IP!NoPolicy
  BY DEF I!NoPolicy, IP!NoPolicy
<1> QED
  BY <1>1, SavedEffect DEF FileTyped, IP!TypeOK

LEMMA SavedAgrees ==
  ASSUME IP!TypeOK, BooksInv, NEW keys
  PROVE  FileAgrees(Saved(keys))
<1>1. \A i \in DOMAIN outcomes :
        /\ i \in DOMAIN interventions
        /\ interventions[i].status = I!StatusOfOutcome(outcomes[i])
  BY DEF BooksInv, IP!TypeOK, I!OutcomeExplainsStatus
<1>2. \A i \in DOMAIN interventions :
        /\ interventions[i].status
             \in {"EFFECTIVE", "INEFFECTIVE", "OUTCOME_UNKNOWN"}
             => i \in DOMAIN outcomes
        /\ i < next_int_id
  BY DEF BooksInv, I!OutcomeExplainsStatus
<1> QED
  BY <1>1, <1>2, SavedEffect DEF FileAgrees

(* Wherever a save ends, what is under the path is as sound as memory. *)
LEMMA SavingTyped ==
  ASSUME TypedInv, Saving
  PROVE  file' # NoFile => FileTyped(file')
<1>1. PICK content \in Contents : file' \in {file, NoFile, content}
  BY DEF Saving
<1>2. FileTyped(content)
  BY SavedTyped DEF Contents, TypedInv
<1> QED
  BY <1>1, <1>2 DEF TypedInv

LEMMA SavingAgrees ==
  ASSUME TypedInv, BooksInv, Saving
  PROVE  file' # NoFile => FileAgrees(file')
<1>1. PICK content \in Contents : file' \in {file, NoFile, content}
  BY DEF Saving
<1>2. FileAgrees(content)
  BY SavedAgrees DEF Contents, TypedInv
<1> QED
  BY <1>1, <1>2 DEF BooksInv

-----------------------------------------------------------------------------
(* Only accepted evidence ends a revalidation, and it takes the objectives *)
(* it is evidence for out of unproven.                                     *)
LEMMA MarksKept ==
  ASSUME UnprovenMarked, Govern
  PROVE  UnprovenMarked'
<1>1. [E!Next]_(E!vars)
  BY EvidenceSteps DEF Govern
<1>2. unproven' \subseteq unproven
  BY DEF Govern
<1>3. CASE \E ev \in Events : E!Ingest(ev)
  <2>1. PICK ev \in Events : E!Ingest(ev)
    BY <1>3
  <2>2. unproven' = {o \in unproven : ~I!Active(o)}
    BY <2>1 DEF E!Ingest, Govern
  <2>3. \A o \in unproven' :
          /\ o \in ObjectiveIds /\ revalidate_needed[o]
          /\ ~E!Active(o)
    BY <2>2 DEF UnprovenMarked, I!Active, E!Active
  <2> QED
    BY <2>1, <2>3 DEF UnprovenMarked, E!Ingest
<1>4. CASE E!AdvanceEpoch
  BY <1>2, <1>4 DEF E!AdvanceEpoch, E!RevalidatePolicy, UnprovenMarked
<1>5. CASE UNCHANGED revalidate_needed
  BY <1>2, <1>5 DEF UnprovenMarked
<1>6. \/ UNCHANGED revalidate_needed
      \/ E!AdvanceEpoch
      \/ \E ev \in Events : E!Ingest(ev)
  <2> USE DEF E!evidence, E!vars
  <2>1. CASE \/ \E w \in Workers, b \in Boots : E!RegisterWorker(w, b)
             \/ \E w \in Workers : E!UnregisterWorker(w)
             \/ \E p \in {q.objectives : q \in Policies} : E!SetPolicy(p)
             \/ \E t \in 0..MaxNow : E!SetClock(t)
             \/ E!BeginShutdown
    BY <2>1 DEF E!RegisterWorker, E!UnregisterWorker, E!SetPolicy, E!SetClock,
      E!BeginShutdown
  <2>2. CASE E!EvaluateAll \/ \E o \in ObjectiveIds : E!Evaluate(o)
    BY <2>2 DEF E!EvaluateAll, E!Evaluate, E!EvaluateEach
  <2> QED
    BY <1>1, <2>1, <2>2 DEF E!Next
<1> QED
  BY <1>3, <1>4, <1>5, <1>6

-----------------------------------------------------------------------------
(* The first part: types, evidence and marks. *)
LEMMA LoadTyped ==
  ASSUME TypedInv, Load
  PROVE  TypedInv'
<1>1. /\ FileTyped(file)
      /\ pol' = file.pol
      /\ UNCHANGED <<epoch, gens, facts, now, shutting_down, held,
                     last_intervention_ns, worker_boots, windows, seen,
                     last_state, recover_streak, file>>
  BY DEF Load, ReadsPolicy, TypedInv
<1>2. revalidate_needed' =
        [o \in ObjectiveIds |-> o \in Marked(file) \/ revalidate_needed[o]]
  BY DEF Load
<1>3. pol' \in Policies \cup {I!NoPolicy}
  BY <1>1 DEF FileTyped
<1>4. DOMAIN file.pol.objectives \subseteq ObjectiveIds
  <2>1. CASE file.pol \in Policies
    BY <2>1, PoliciesAssumption DEF I!IsPolicy
  <2>2. CASE file.pol = I!NoPolicy
    BY <2>2 DEF I!NoPolicy
  <2> QED
    BY <1>1, <1>3, <2>1, <2>2
<1>5. /\ DOMAIN interventions' \subseteq Nat \ {0}
      /\ interventions' \in [DOMAIN interventions' -> IP!Intervention]
      /\ DOMAIN outcomes' \subseteq DOMAIN interventions'
      /\ outcomes' \in [DOMAIN outcomes' -> IP!Outcomes]
      /\ next_int_id' \in Nat \ {0}
  <2>1. \/ /\ interventions' = file.interventions
           /\ outcomes' = file.outcomes
        \/ UNCHANGED <<interventions, outcomes>>
    BY DEF Load
  <2>2. next_int_id' \in {file.next_int_id, next_int_id}
    BY DEF Load
  <2> QED
    BY <1>1, <2>1, <2>2 DEF FileTyped, TypedInv, IP!TypeOK
<1>6. IP!TypeOK'
  <2>1. IP!NoPolicy = I!NoPolicy
    BY DEF I!NoPolicy, IP!NoPolicy
  <2> QED
    BY <1>1, <1>3, <1>5, <2>1 DEF TypedInv, IP!TypeOK
<1>7. EP!EvidenceSound'
  <2>1. pol'.objectives \in {p.objectives : p \in Policies} \cup {[o \in {} |-> 0]}
    BY <1>3 DEF I!NoPolicy
  <2>2. revalidate_needed' \in [ObjectiveIds -> BOOLEAN]
    <3>1. \A o \in ObjectiveIds :
            (o \in Marked(file) \/ revalidate_needed[o]) \in BOOLEAN
      OBVIOUS
    <3> QED
      BY <1>2, <3>1
  <2>3. EP!TypeOK'
    BY <1>1, <2>1, <2>2 DEF TypedInv, EP!EvidenceSound, EP!TypeOK
  <2>4. EP!WindowsSound' /\ EP!StreakMatchesState' /\ EP!IsFiniteSet(seen')
    BY <1>1 DEF TypedInv, EP!EvidenceSound, EP!WindowsSound,
                EP!StreakMatchesState
  <2> QED
    BY <2>3, <2>4 DEF EP!EvidenceSound
<1>8. UnprovenMarked'
  <2>1. unproven' = unproven \cup DOMAIN file.pol.objectives
    BY DEF Load
  <2>2. \A o \in unproven' :
          o \in ObjectiveIds /\ (o \in Marked(file) \/ revalidate_needed[o])
    BY <1>4, <2>1 DEF TypedInv, UnprovenMarked, Marked
  <2> QED
    BY <1>2, <2>2 DEF UnprovenMarked
<1> QED
  BY <1>1, <1>6, <1>7, <1>8 DEF TypedInv, FileTyped

(* A restarted process has no evidence, no verdicts and no authority: both *)
(* halves are typed again as soon as the policy, the marks and the records *)
(* are.                                                                    *)
LEMMA RestartedHalves ==
  ASSUME TypedInv, Restart, epoch' \in Nat \ {0},
         pol' \in Policies \cup {I!NoPolicy},
         revalidate_needed' \in [ObjectiveIds -> BOOLEAN],
         DOMAIN interventions' \subseteq Nat \ {0},
         interventions' \in [DOMAIN interventions' -> IP!Intervention],
         DOMAIN outcomes' \subseteq DOMAIN interventions',
         outcomes' \in [DOMAIN outcomes' -> IP!Outcomes],
         next_int_id' \in Nat \ {0}
  PROVE  IP!TypeOK' /\ EP!EvidenceSound'
<1>1. /\ gens' = [k \in GenKinds |-> 0]
      /\ facts' = I!DefaultFacts
      /\ now' = now
      /\ shutting_down' = FALSE
      /\ held' = [o \in ObjectiveIds |-> I!NoAuthority]
      /\ last_intervention_ns' = [o \in {} |-> 0]
      /\ worker_boots' = [w \in {} |-> 0]
      /\ windows' = [k \in {} |-> 0]
      /\ seen' = {}
      /\ last_state' = [o \in ObjectiveIds |-> "HEALTHY"]
      /\ recover_streak' = [o \in ObjectiveIds |-> 0]
  BY DEF Restart
<1>2. now \in Nat
  BY DEF TypedInv, IP!TypeOK
<1>3. IP!TypeOK'
  <2>1. /\ IP!NoPolicy = I!NoPolicy
        /\ IP!NoAuthority = I!NoAuthority
        /\ IP!DefaultFacts = I!DefaultFacts
    BY SameInterventions DEF I!NoPolicy, IP!NoPolicy, I!DefaultFacts,
       IP!DefaultFacts
  <2>2. /\ gens' \in [GenKinds -> Nat]
        /\ facts' \in FactSets \cup {IP!DefaultFacts}
        /\ held' \in [ObjectiveIds -> IP!Authority \cup {IP!NoAuthority}]
    BY <1>1, <2>1
  <2>3. /\ DOMAIN last_intervention_ns' \subseteq ObjectiveIds
        /\ last_intervention_ns' \in [DOMAIN last_intervention_ns' -> Nat]
    BY <1>1
  <2>4. shutting_down' \in BOOLEAN /\ now' \in Nat
    BY <1>1, <1>2
  <2> QED
    BY <2>1, <2>2, <2>3, <2>4 DEF IP!TypeOK
<1>4. EP!TypeOK'
  <2>1. pol'.objectives \in {p.objectives : p \in Policies} \cup {[o \in {} |-> 0]}
    BY DEF I!NoPolicy
  <2>2. /\ DOMAIN worker_boots' \subseteq Workers
        /\ worker_boots' \in [DOMAIN worker_boots' -> Boots]
    BY <1>1
  <2>3. /\ DOMAIN windows' \subseteq ObjectiveIds \X Nat
        /\ windows' \in [DOMAIN windows' -> EP!ObservationWindow]
    BY <1>1
  <2>4. /\ last_state' \in [ObjectiveIds -> EP!TailStates]
        /\ recover_streak' \in [ObjectiveIds -> 0..2]
    BY <1>1 DEF EP!TailStates
  <2>5. shutting_down' \in BOOLEAN /\ now' \in Nat /\ seen' \subseteq Nat
    BY <1>1, <1>2
  <2> QED
    BY <2>1, <2>2, <2>3, <2>4, <2>5 DEF EP!TypeOK
<1>5. EP!IsFiniteSet(seen') /\ EP!WindowsSound' /\ EP!StreakMatchesState'
  <2>1. DOMAIN windows' = {}
    BY <1>1
  <2>2. EP!IsFiniteSet({})
    <3>1. IsFiniteSet({})
      BY FS_EmptySet
    <3> QED
      BY <3>1 DEF IsFiniteSet, EP!IsFiniteSet
  <2> QED
    BY <1>1, <2>1, <2>2 DEF EP!WindowsSound, EP!StreakMatchesState
<1> QED
  BY <1>3, <1>4, <1>5 DEF EP!EvidenceSound

LEMMA StartTyped ==
  ASSUME TypedInv, Start
  PROVE  TypedInv'
<1>1. /\ Restart
      /\ epoch' \in Nat \ {0}
      /\ pol' \in Policies \cup {I!NoPolicy}
      /\ next_int_id' \in Nat \ {0}
      /\ unproven' = {}
  BY DEF Start
<1>2. /\ DOMAIN interventions' = {}
      /\ interventions' \in [DOMAIN interventions' -> IP!Intervention]
      /\ DOMAIN outcomes' = {}
      /\ outcomes' \in [DOMAIN outcomes' -> IP!Outcomes]
  BY DEF Start
<1>3. revalidate_needed' \in [ObjectiveIds -> BOOLEAN]
  BY DEF Start
<1>4. IP!TypeOK' /\ EP!EvidenceSound'
  <2>1. /\ DOMAIN interventions' \subseteq Nat \ {0}
        /\ DOMAIN outcomes' \subseteq DOMAIN interventions'
    BY <1>2
  <2> QED
    BY <1>1, <1>2, <1>3, <2>1, RestartedHalves
<1>5. file' # NoFile => FileTyped(file')
  BY <1>1, SavingTyped DEF Restart
<1> QED
  BY <1>1, <1>4, <1>5 DEF TypedInv, UnprovenMarked, FileTyped

LEMMA ResumeTyped ==
  ASSUME TypedInv, Resume
  PROVE  TypedInv'
<1>1. /\ Restart /\ Saving
      /\ file' # NoFile
      /\ epoch' \in Nat \ {0}
      /\ pol' = file'.pol
      /\ revalidate_needed' = [o \in ObjectiveIds |-> o \in Marked(file')]
      /\ interventions' = file'.interventions
      /\ outcomes' = file'.outcomes
      /\ next_int_id' = file'.next_int_id
      /\ unproven' = DOMAIN file'.pol.objectives
  BY DEF Resume, Restart, ReadsPolicy
<1>2. FileTyped(file')
  BY <1>1, SavingTyped
<1>3. pol' \in Policies \cup {I!NoPolicy}
  BY <1>1, <1>2 DEF FileTyped
<1>4. /\ DOMAIN interventions' \subseteq Nat \ {0}
      /\ interventions' \in [DOMAIN interventions' -> IP!Intervention]
      /\ DOMAIN outcomes' \subseteq DOMAIN interventions'
      /\ outcomes' \in [DOMAIN outcomes' -> IP!Outcomes]
      /\ next_int_id' \in Nat \ {0}
  BY <1>1, <1>2 DEF FileTyped
<1>5. IP!TypeOK' /\ EP!EvidenceSound'
  <2>1. revalidate_needed' \in [ObjectiveIds -> BOOLEAN]
    BY <1>1
  <2> QED
    BY <1>1, <1>3, <1>4, <2>1, RestartedHalves
<1>6. UnprovenMarked'
  <2>1. DOMAIN pol'.objectives \subseteq ObjectiveIds
    <3>1. CASE pol' \in Policies
      BY <3>1, PoliciesAssumption DEF I!IsPolicy
    <3>2. CASE pol' = I!NoPolicy
      BY <3>2 DEF I!NoPolicy
    <3> QED
      BY <1>3, <3>1, <3>2
  <2> QED
    BY <1>1, <2>1 DEF UnprovenMarked, Marked
<1> QED
  BY <1>2, <1>5, <1>6 DEF TypedInv, FileTyped

LEMMA TypedNext ==
  ASSUME TypedInv, [PNext]_pvars
  PROVE  TypedInv'
<1>1. CASE Govern
  <2>1. IP!TypeOK' /\ EP!EvidenceSound'
    BY <1>1, InterventionsTyped, EvidenceStaysSound DEF TypedInv, Govern
  <2>2. UnprovenMarked'
    BY <1>1, MarksKept DEF TypedInv
  <2> QED
    BY <1>1, <2>1, <2>2 DEF TypedInv, FileTyped, Govern
<1>2. CASE Save \/ UNCHANGED pvars
  <2>1. UNCHANGED <<vars, own, unproven>>
    BY <1>2 DEF Save, pvars
  <2>2. IP!TypeOK' /\ EP!EvidenceSound'
    BY <2>1, InterventionsTyped, EvidenceStaysSound DEF TypedInv
  <2>3. UnprovenMarked'
    BY <2>1 DEF TypedInv, UnprovenMarked, vars, evidenceVars
  <2>4. file' # NoFile => FileTyped(file')
    BY <1>2, SavingTyped DEF Save, pvars, TypedInv
  <2> QED
    BY <2>2, <2>3, <2>4 DEF TypedInv, FileTyped
<1> QED
  BY <1>1, <1>2, LoadTyped, StartTyped, ResumeTyped DEF PNext

(* The evidence stays sound and what is not proven stays marked, over any  *)
(* file, any partial load and any restart (save, load, run_coordinator).   *)
THEOREM TypedHolds == PSpec => []TypedInv
<1>1. PInit => TypedInv
  BY InitPersistence
<1>2. TypedInv /\ [PNext]_pvars => TypedInv'
  BY TypedNext
<1> QED
  BY <1>1, <1>2, PTL DEF PSpec

(* Whatever file is loaded or resumed from, however far load gets and      *)
(* wherever the process ends, every variable keeps its shape.              *)
THEOREM PersistenceTypes == PSpec => []TypeOK
<1>1. TypedInv => TypeOK
  BY SameInterventions, SameEvidence DEF TypedInv, TypeOK, EP!EvidenceSound
<1> QED
  BY <1>1, TypedHolds, PTL

(* What decide authorizes rests on current evidence, across saves, loads   *)
(* and restarts too (decide, evaluate, load).                              *)
THEOREM RestartsAreFounded == PSpec => DecidesOnCurrentEvidence
<1>1. TypedInv =>
        [\A o \in ObjectiveIds, t \in Types :
           next_int_id' # next_int_id /\ Decide(o, t) =>
             LET samples == windows'[E!KeyOf(o)].samples
             IN /\ Cardinality({s.request : s \in samples})
                     >= pol.objectives[o].required
                /\ \E s \in samples : s.epoch = epoch /\ ~E!TooOld(o, {s})]_vars
  BY DecideFounded DEF TypedInv
<1> QED
  BY <1>1, TypedHolds, PTL DEF DecidesOnCurrentEvidence

(* An evaluation of a marked objective says that it is to be revalidated. *)
LEMMA MarkedVerdict ==
  ASSUME TypedInv, Govern, NEW o \in unproven, last_state'[o] # last_state[o]
  PROVE  last_state'[o] = "REVALIDATION_REQUIRED"
<1>1. o \in ObjectiveIds /\ revalidate_needed[o]
  BY DEF TypedInv, UnprovenMarked
<1>2. [EP!Next]_(EP!vars)
  BY EvidenceSteps, SameEvidence DEF Govern, E!vars, EP!vars, E!context,
     EP!context, E!evidence, EP!evidence, E!verdicts, EP!verdicts
<1>3. last_state'[o] = EP!Verdict(o, EP!Pruned(o).samples).state
  BY <1>1, <1>2, EP!NewState, EvidenceAssumptions DEF TypedInv
<1> QED
  BY <1>1, <1>3 DEF EP!Verdict

(* Recovered measurements never silently become current: an objective that *)
(* was loaded gets no other verdict before evidence for it is accepted,    *)
(* whatever was in memory and however far load got (load, evaluate).       *)
THEOREM NoEarlyVerdict == PSpec => NoVerdictBeforeEvidence
<1>1. TypedInv =>
        [\A o \in unproven :
           /\ last_state'[o] # last_state[o]
           /\ last_state'[o] # "REVALIDATION_REQUIRED"
           => ~Govern]_pvars
  BY MarkedVerdict
<1> QED
  BY <1>1, TypedHolds, PTL DEF NoVerdictBeforeEvidence

-----------------------------------------------------------------------------
(* The second part: what was recovered has no authority. *)
LEMMA RecoveredGovern ==
  ASSUME CallerIds = {}, TypedInv, RecoveredInv, Govern
  PROVE  /\ RecoveredInv'
         /\ \A i \in DOMAIN interventions \ own :
              /\ interventions[i].status = "AUTHORIZED"
              /\ i \in DOMAIN interventions'
              => interventions'[i].status # "DISPATCHED"
<1>1. own' = IF next_int_id' = next_int_id THEN own ELSE own \cup {next_int_id}
  BY DEF Govern
<1>2. next_int_id \in Nat /\ IP!TypeOK
  BY DEF TypedInv, IP!TypeOK
<1>3. I!NoAuthority' = I!NoAuthority
  BY DEF I!NoAuthority
<1>4. CASE UNCHANGED records
  BY <1>1, <1>3, <1>4 DEF records, RecoveredInv
<1>5. CASE \E o \in ObjectiveIds, t \in Types, x \in Nat :
             IP!Authorize(o, t, 0, IP!CurrentAuthority(o), x)
  <2>1. PICK o \in ObjectiveIds, t \in Types, x \in Nat :
          IP!Authorize(o, t, 0, IP!CurrentAuthority(o), x)
    BY <1>5
  <2>2. /\ next_int_id' = next_int_id + 1
        /\ DOMAIN interventions' = DOMAIN interventions \cup {next_int_id}
        /\ \A j \in DOMAIN interventions \ {next_int_id} :
             interventions'[j] = interventions[j]
        /\ interventions'[next_int_id].status = "AUTHORIZED"
    BY <2>1 DEF IP!Authorize, IP!Put
  <2>3. own' = own \cup {next_int_id}
    BY <1>1, <1>2, <2>2
  <2> QED
    BY <1>3, <2>2, <2>3 DEF RecoveredInv
<1>6. CASE \E i \in DOMAIN interventions : IP!Follow(i)
  <2>1. PICK j \in DOMAIN interventions : IP!Follow(j)
    BY <1>6
  <2>2. PICK s \in IP!RecordedStatuses : IP!SetStatus(j, s)
    BY <1>2, <2>1, IP!FollowEffect, InterventionAssumptions
  <2>3. /\ DOMAIN interventions' = DOMAIN interventions
        /\ interventions'[j] = [interventions[j] EXCEPT !.status = s]
        /\ \A i \in DOMAIN interventions :
             i # j => interventions'[i] = interventions[i]
    BY <1>2, <2>2, IP!SetStatusType, InterventionAssumptions
  <2>4. UNCHANGED next_int_id
    BY <1>2, <2>1, IP!FollowEffect, InterventionAssumptions
  <2>5. interventions'[j].authority = interventions[j].authority
    BY <1>2, <2>3 DEF IP!TypeOK, IP!Intervention
  <2>6. RecoveredInv'
    BY <1>1, <1>3, <2>3, <2>4, <2>5 DEF RecoveredInv
  <2>7. ASSUME j \notin own, interventions[j].status = "AUTHORIZED",
               interventions'[j].status = "DISPATCHED"
        PROVE  FALSE
    <3>1. IP!Dispatch(j)
      <4>1. ~IP!Acknowledge(j)
        BY <2>7 DEF IP!Acknowledge
      <4>2. \A x \in IP!Outcomes : ~IP!RecordOutcome(j, x)
        <5>1. \A x \in IP!Outcomes :
                IP!StatusOfOutcome(x) # "DISPATCHED"
          BY DEF IP!StatusOfOutcome
        <5>2. \A x : IP!SetStatus(j, x) => interventions'[j].status = x
          BY <1>2 DEF IP!SetStatus, IP!TypeOK, IP!Intervention
        <5> QED
          BY <2>7, <5>1, <5>2 DEF IP!RecordOutcome
      <4>3. ~IP!Cancel(j) /\ ~IP!Supersede(j)
        <5>1. \A x : IP!SetStatus(j, x) => interventions'[j].status = x
          BY <1>2 DEF IP!SetStatus, IP!TypeOK, IP!Intervention
        <5> QED
          BY <2>7, <5>1 DEF IP!Cancel, IP!Supersede
      <4> QED
        BY <2>1, <4>1, <4>2, <4>3 DEF IP!Follow
    <3>2. IP!Revalidated(interventions[j]) = "DISPATCHED"
      BY <1>2, <2>7, <3>1 DEF IP!Dispatch, IP!SetStatus, IP!TypeOK,
        IP!Intervention
    <3>3. interventions[j].authority
            = IP!CurrentAuthority(interventions[j].objective)
      BY <3>2 DEF IP!Revalidated
    <3>4. interventions[j].authority.epoch = 0
      BY <2>7 DEF RecoveredInv, I!NoAuthority
    <3>5. epoch # 0
      BY <1>2 DEF IP!TypeOK
    <3> QED
      BY <3>3, <3>4, <3>5 DEF IP!CurrentAuthority
  <2> QED
    BY <2>3, <2>6, <2>7
<1> QED
  BY <1>2, <1>4, <1>5, <1>6, GovernKinds DEF Govern

LEMMA RecoveredNext ==
  ASSUME CallerIds = {}, TypedInv, RecoveredInv, [PNext]_pvars
  PROVE  RecoveredInv'
<1>1. I!NoAuthority' = I!NoAuthority
  BY DEF I!NoAuthority
<1>2. CASE Save \/ UNCHANGED pvars
  BY <1>1, <1>2 DEF Save, pvars, vars, records, RecoveredInv
<1>3. CASE Load
  <2>1. \/ interventions' = file.interventions
        \/ UNCHANGED <<interventions, own>>
    BY <1>3 DEF Load
  <2>2. FileTyped(file)
    BY <1>3 DEF Load, ReadsPolicy, TypedInv
  <2> QED
    BY <1>1, <2>1, <2>2 DEF RecoveredInv, FileTyped
<1>4. CASE Start
  BY <1>4 DEF Start, RecoveredInv
<1>5. CASE Resume
  <2>1. FileTyped(file') /\ interventions' = file'.interventions
    BY <1>5, SavingTyped DEF Resume, Restart, ReadsPolicy
  <2> QED
    BY <1>1, <2>1 DEF RecoveredInv, FileTyped
<1> QED
  BY <1>2, <1>3, <1>4, <1>5, RecoveredGovern DEF PNext

(* No intervention that load or a restart put back is ever dispatched, by  *)
(* this process or after any further ones (save, load, dispatch).          *)
THEOREM RecoveredStays ==
  ASSUME CallerIds = {}
  PROVE  PSpec => RecoveredNeverDispatched
<1>1. PInit => RecoveredInv
  BY InitPersistence
<1>2. TypedInv /\ RecoveredInv /\ [PNext]_pvars => RecoveredInv'
  BY RecoveredNext
<1>3. TypedInv /\ RecoveredInv =>
        [\A i \in DOMAIN interventions \ own :
           /\ interventions[i].status = "AUTHORIZED"
           /\ i \in DOMAIN interventions'
           /\ interventions'[i].status = "DISPATCHED"
           => ~Govern]_pvars
  BY RecoveredGovern
<1> QED
  BY <1>1, <1>2, <1>3, TypedHolds, PTL DEF PSpec, RecoveredNeverDispatched

-----------------------------------------------------------------------------
(* The third part: the books. *)
LEMMA BooksGovern ==
  ASSUME CallerIds = {}, TypedInv, BooksInv, Govern
  PROVE  /\ I!OutcomeExplainsStatus'
         /\ \A i \in DOMAIN interventions' : i < next_int_id'
<1>1. /\ IP!OutcomeExplainsStatus
      /\ \A i \in DOMAIN interventions : i < next_int_id
      /\ next_int_id \in Nat
      /\ DOMAIN interventions \subseteq Nat
      /\ DOMAIN outcomes \subseteq DOMAIN interventions
      /\ IP!TypeOK
  BY DEF BooksInv, I!OutcomeExplainsStatus, IP!OutcomeExplainsStatus,
    I!StatusOfOutcome, IP!StatusOfOutcome, IP!TypeOK, TypedInv
<1>2. IP!OutcomeExplainsStatus' => I!OutcomeExplainsStatus'
  BY DEF I!OutcomeExplainsStatus, IP!OutcomeExplainsStatus,
    I!StatusOfOutcome, IP!StatusOfOutcome
<1>3. CASE UNCHANGED records
  BY <1>3 DEF records, BooksInv, I!OutcomeExplainsStatus
<1>4. CASE \E o \in ObjectiveIds, t \in Types, x \in Nat :
             IP!Authorize(o, t, 0, IP!CurrentAuthority(o), x)
  <2>1. PICK o \in ObjectiveIds, t \in Types, x \in Nat :
          IP!Authorize(o, t, 0, IP!CurrentAuthority(o), x)
    BY <1>4
  <2>2. /\ next_int_id \notin DOMAIN interventions
        /\ DOMAIN interventions' = DOMAIN interventions \cup {next_int_id}
        /\ \A j \in DOMAIN interventions : interventions'[j] = interventions[j]
        /\ interventions'[next_int_id].status = "AUTHORIZED"
        /\ next_int_id' = next_int_id + 1
        /\ outcomes' = outcomes
    BY <1>1, <2>1, IP!AuthorizeRecords, InterventionAssumptions
  <2>3. IP!OutcomeExplainsStatus'
    BY <1>1, <2>2 DEF IP!OutcomeExplainsStatus
  <2> QED
    BY <1>1, <1>2, <2>2, <2>3
<1>5. CASE \E i \in DOMAIN interventions : IP!Follow(i)
  <2>1. PICK j \in DOMAIN interventions : IP!Follow(j)
    BY <1>5
  <2>2. /\ IP!OutcomeExplainsStatus'
        /\ DOMAIN interventions' = DOMAIN interventions
        /\ UNCHANGED next_int_id
    BY <1>1, <2>1, IP!FollowRecords, InterventionAssumptions
  <2> QED
    BY <1>1, <1>2, <2>2
<1> QED
  BY <1>1, <1>3, <1>4, <1>5, GovernKinds DEF Govern

(* What load or a restart takes from a file agrees as the file does. *)
LEMMA TakenAgrees ==
  ASSUME NEW f, FileAgrees(f), interventions' = f.interventions,
         outcomes' = f.outcomes, next_int_id' = f.next_int_id
  PROVE  /\ I!OutcomeExplainsStatus'
         /\ \A i \in DOMAIN interventions' : i < next_int_id'
<1>1. \A x : I!StatusOfOutcome(x)' = I!StatusOfOutcome(x)
  BY DEF I!StatusOfOutcome
<1> QED
  BY <1>1 DEF FileAgrees, I!OutcomeExplainsStatus

LEMMA BooksNext ==
  ASSUME CallerIds = {}, FewMarks, TypedInv, BooksInv, [PNext]_pvars
  PROVE  BooksInv'
<1>1. CASE Govern
  BY <1>1, BooksGovern DEF BooksInv, FileAgrees, Govern
<1>2. CASE Save \/ UNCHANGED pvars
  <2>1. UNCHANGED <<interventions, outcomes, next_int_id>>
    BY <1>2 DEF Save, pvars, vars, records
  <2>2. file' # NoFile => FileAgrees(file')
    BY <1>2, SavingAgrees DEF Save, pvars, BooksInv
  <2> QED
    BY <2>1, <2>2 DEF BooksInv, I!OutcomeExplainsStatus, FileAgrees
<1>3. CASE Load
  <2>1. FileTyped(file) /\ FileAgrees(file) /\ UNCHANGED file
    BY <1>3 DEF Load, ReadsPolicy, TypedInv, BooksInv
  <2>2. ReadsAll(file) <=> ReadsRecords(file)
    BY <2>1, ReadsAllRecords
  <2>3. /\ I!OutcomeExplainsStatus'
        /\ \A i \in DOMAIN interventions' : i < next_int_id'
    <3>1. CASE ReadsRecords(file)
      BY <1>3, <2>1, <2>2, <3>1, TakenAgrees DEF Load
    <3>2. CASE ~ReadsRecords(file)
      <4>1. UNCHANGED <<interventions, outcomes, next_int_id>>
        BY <1>3, <2>2, <3>2 DEF Load
      <4> QED
        BY <4>1 DEF BooksInv, I!OutcomeExplainsStatus
    <3> QED
      BY <3>1, <3>2
  <2> QED
    BY <2>1, <2>3 DEF BooksInv, FileAgrees
<1>4. CASE Start
  <2>1. DOMAIN interventions' = {} /\ DOMAIN outcomes' = {}
    BY <1>4 DEF Start
  <2>2. file' # NoFile => FileAgrees(file')
    BY <1>4, SavingAgrees DEF Start, Restart
  <2> QED
    BY <2>1, <2>2 DEF BooksInv, I!OutcomeExplainsStatus, FileAgrees
<1>5. CASE Resume
  <2>1. /\ FileAgrees(file')
        /\ interventions' = file'.interventions
        /\ outcomes' = file'.outcomes
        /\ next_int_id' = file'.next_int_id
    BY <1>5, SavingAgrees DEF Resume, Restart, ReadsPolicy
  <2> QED
    BY <2>1, TakenAgrees DEF BooksInv, FileAgrees
<1> QED
  BY <1>1, <1>2, <1>3, <1>4, <1>5 DEF PNext

(* Whatever has been loaded, in full or up to its policy, over any number  *)
(* of saves, endings and restarts: no identity on record is issued again,  *)
(* outcomes explain statuses and only this process's interventions carry   *)
(* an authority (save, load, authorize).                                   *)
THEOREM RecordsSurvive ==
  ASSUME CallerIds = {}, FewMarks
  PROVE  PSpec => []RecordsAgree
<1>1. PInit => RecoveredInv /\ BooksInv
  BY InitPersistence
<1>2. TypedInv /\ RecoveredInv /\ BooksInv /\ [PNext]_pvars
        => RecoveredInv' /\ BooksInv'
  BY RecoveredNext, BooksNext
<1>3. RecoveredInv /\ BooksInv => RecordsAgree
  BY DEF RecoveredInv, BooksInv, RecordsAgree
<1> QED
  BY <1>1, <1>2, <1>3, TypedHolds, PTL DEF PSpec
=============================================================================
