--------------------------- MODULE EvidenceProofs ---------------------------
(***************************************************************************)
(* Theorems about Evidence: what is in the windows, what the revalidation  *)
(* marks mean and what a verdict rests on, for every set of objectives,    *)
(* policies, workers and events, and for any clock.                        *)
(***************************************************************************)
EXTENDS Evidence, WindowProofs

(* What every window satisfies when e is the epoch and reqs are the        *)
(* requests it has accepted.  Finiteness is part of it: the latest sample, *)
(* the quantile and the sample count mean nothing of an infinite set.      *)
Sound(w, e, reqs) ==
  /\ w \in ObservationWindow
  /\ IsFiniteSet(w.samples)
  /\ \A s \in w.samples : s.epoch = e /\ s.request \in reqs
  /\ \A s, t \in w.samples : s.request = t.request => s = t

WindowsSound == \A k \in DOMAIN windows : Sound(windows[k], epoch, seen)

(* The inductive invariant.  The first part holds whatever the marks are,  *)
(* which load sets for objectives that have evidence in memory.            *)
EvidenceSound ==
  /\ TypeOK
  /\ IsFiniteSet(seen)
  /\ WindowsSound
  /\ StreakMatchesState

EvidenceInv == EvidenceSound /\ RevalidationMeansNoEvidence

LEMMA PolicyType ==
  ASSUME TypeOK, NEW o \in DOMAIN pol
  PROVE  o \in ObjectiveIds /\ IsObjective(pol[o])
<1>1. CASE pol \in Policies
  BY <1>1, PoliciesAssumption DEF IsPolicy
<1>2. CASE pol = [x \in {} |-> 0]
  BY <1>2
<1> QED
  BY <1>1, <1>2 DEF TypeOK

LEMMA InitInv == Init => EvidenceInv
<1> SUFFICES ASSUME Init PROVE EvidenceInv
  OBVIOUS
<1> USE DEF Init
<1>1. /\ epoch \in Nat \ {0}
      /\ pol \in Policies \cup {[o \in {} |-> 0]}
      /\ now \in Nat
      /\ seen = {}
  OBVIOUS
<1>4. /\ DOMAIN worker_boots = {}
      /\ worker_boots \in [DOMAIN worker_boots -> Boots]
  OBVIOUS
<1>5. /\ DOMAIN windows = {}
      /\ windows \in [DOMAIN windows -> ObservationWindow]
  OBVIOUS
<1>6. shutting_down \in BOOLEAN
  OBVIOUS
<1>2. /\ revalidate_needed \in [ObjectiveIds -> BOOLEAN]
      /\ last_state \in [ObjectiveIds -> TailStates]
      /\ recover_streak \in [ObjectiveIds -> 0..2]
  BY DEF TailStates
<1>3. IsFiniteSet(seen)
  BY FS_EmptySet
<1> QED
  BY <1>1, <1>2, <1>3, <1>4, <1>5, <1>6
  DEF EvidenceInv, TypeOK, WindowsSound, RevalidationMeansNoEvidence,
      StreakMatchesState, EvidenceSound

-----------------------------------------------------------------------------
(* ensure_window returns a sound window, be it old or new. *)
LEMMA WindowAtSound ==
  ASSUME EvidenceSound, NEW o \in DOMAIN pol, NEW c \in Nat
  PROVE  Sound(WindowAt(<<o, c>>), epoch, seen)
<1> DEFINE key == <<o, c>>
<1>1. CASE key \in DOMAIN windows
  BY <1>1 DEF WindowAt, EvidenceSound, WindowsSound
<1>2. CASE key \notin DOMAIN windows
  <2>1. pol[o].window \in WindowConfig
    BY PolicyType DEF EvidenceSound, IsObjective
  <2>2. WindowAt(key) = [cfg |-> pol[o].window, samples |-> {}]
    BY <1>2 DEF WindowAt
  <2> QED
    BY <2>1, <2>2, FS_EmptySet DEF Sound, ObservationWindow
<1> QED
  BY <1>1, <1>2

(* Dropping samples keeps a window sound. *)
LEMMA FewerSamplesSound ==
  ASSUME NEW w, NEW e, NEW reqs, Sound(w, e, reqs),
         NEW T, T \subseteq w.samples
  PROVE  Sound([w EXCEPT !.samples = T], e, reqs)
<1>1. IsFiniteSet(T)
  BY FS_Subset DEF Sound
<1>2. /\ [w EXCEPT !.samples = T] \in ObservationWindow
      /\ [w EXCEPT !.samples = T].samples = T
  BY DEF Sound, ObservationWindow
<1> QED
  BY <1>1, <1>2 DEF Sound

LEMMA PrunedSound ==
  ASSUME EvidenceSound, NEW o \in DOMAIN pol
  PROVE  /\ KeyOf(o) \in ObjectiveIds \X Nat
         /\ Sound(Pruned(o), epoch, seen)
         /\ Pruned(o).samples \subseteq WindowAt(KeyOf(o)).samples
<1>1. /\ o \in ObjectiveIds
      /\ pol[o].scope \in Nat
  BY PolicyType DEF EvidenceSound, IsObjective
<1> DEFINE w == WindowAt(KeyOf(o))
<1>2. Sound(w, epoch, seen)
  BY <1>1, WindowAtSound DEF KeyOf
<1>3. Prune(w.cfg, w.samples, now) \subseteq w.samples
  BY <1>2, PruneDrops DEF Sound, ObservationWindow
<1>4. Pruned(o) = [w EXCEPT !.samples = Prune(w.cfg, w.samples, now)]
  BY DEF Pruned
<1>5. Pruned(o).samples = Prune(w.cfg, w.samples, now)
  BY <1>2, <1>4 DEF Sound, ObservationWindow
<1> HIDE DEF w
<1>6. Sound(Pruned(o), epoch, seen)
  BY <1>2, <1>3, <1>4, FewerSamplesSound
<1> QED
  BY <1>1, <1>3, <1>5, <1>6 DEF w, KeyOf

-----------------------------------------------------------------------------
(* What is new in a window after an accepted event is the event's sample,  *)
(* and no sample of its request was in any window before.                  *)
LEMMA InsertedSound ==
  ASSUME EvidenceSound, NEW w, Sound(w, epoch, seen), NEW ev \in Events,
         Admissible(ev), ev.request \notin seen
  PROVE  Sound([w EXCEPT !.samples = Insert(w.cfg, @, SampleOf(ev))],
               epoch, seen \cup {ev.request})
<1> DEFINE new == SampleOf(ev)
           T == Insert(w.cfg, w.samples, new)
           v == [w EXCEPT !.samples = T]
<1>1. T \subseteq w.samples \cup {new}
  BY InsertAdds
<1>2. /\ new \in Sample
      /\ new.request = ev.request
      /\ new.epoch = epoch
  <2>1. ev \in Event
    BY EventsAssumption
  <2>2. Cardinality(seen) \in Nat
    BY FS_CardinalityType DEF EvidenceSound
  <2> QED
    BY <2>1, <2>2 DEF SampleOf, Sample, Event, Admissible
<1> HIDE DEF new, T
<1>3. IsFiniteSet(T)
  <2>1. IsFiniteSet(w.samples \cup {new})
    BY FS_AddElement DEF Sound
  <2> QED
    BY <1>1, <2>1, FS_Subset
<1>4. v \in ObservationWindow /\ v.samples = T
  BY <1>1, <1>2 DEF Sound, ObservationWindow
<1>5. \A s \in T : s.epoch = epoch /\ s.request \in seen \cup {ev.request}
  BY <1>1, <1>2 DEF Sound
<1>6. \A s, t \in T : s.request = t.request => s = t
  BY <1>1, <1>2 DEF Sound
<1>7. Sound(v, epoch, seen \cup {ev.request})
  BY <1>3, <1>4, <1>5, <1>6 DEF Sound
<1> QED
  BY <1>7 DEF T, new

LEMMA RememberedSound ==
  ASSUME NEW w, NEW e, NEW reqs, Sound(w, e, reqs),
         NEW more, reqs \subseteq more
  PROVE  Sound(w, e, more)
BY DEF Sound

(* The windows an accepted event goes to, and all others. *)
LEMMA InsertedWindows ==
  ASSUME EvidenceSound, NEW ev \in Events,
         Admissible(ev), ev.request \notin seen, epoch' = epoch,
         seen' = seen \cup {ev.request}, windows' = Inserted(ev)
  PROVE  /\ DOMAIN windows' \subseteq ObjectiveIds \X Nat
         /\ WindowsSound'
         /\ \A k \in DOMAIN windows' :
              \/ k[1] \in DOMAIN pol /\ pol[k[1]].enabled
              \/ k \in DOMAIN windows /\ windows'[k] = windows[k]
<1>1. \A k \in KeysOf(ev) :
        /\ k = <<k[1], k[2]>>
        /\ k[1] \in DOMAIN pol /\ pol[k[1]].enabled
        /\ k[2] \in Nat
  BY EventsAssumption DEF KeysOf, Event
<1>2. KeysOf(ev) \subseteq ObjectiveIds \X Nat
  BY <1>1, PolicyType DEF EvidenceSound
<1>3. DOMAIN windows' = DOMAIN windows \cup KeysOf(ev)
  BY DEF Inserted
<1>4. ASSUME NEW k \in KeysOf(ev)
      PROVE  Sound(windows'[k], epoch', seen')
  <2> DEFINE w == WindowAt(k)
  <2>1. Sound(w, epoch, seen)
    BY <1>1, WindowAtSound
  <2>2. windows'[k] = [w EXCEPT !.samples = Insert(w.cfg, @, SampleOf(ev))]
    BY <1>3 DEF Inserted
  <2> HIDE DEF w
  <2>3. Sound([w EXCEPT !.samples = Insert(w.cfg, @, SampleOf(ev))],
              epoch, seen \cup {ev.request})
    BY <2>1, InsertedSound
  <2> QED
    BY <2>2, <2>3
<1>5. ASSUME NEW k \in DOMAIN windows \ KeysOf(ev)
      PROVE  windows'[k] = windows[k] /\ Sound(windows'[k], epoch', seen')
  <2>1. windows'[k] = windows[k]
    BY <1>3 DEF Inserted
  <2>2. Sound(windows[k], epoch', seen')
    BY RememberedSound DEF EvidenceSound, WindowsSound
  <2> QED
    BY <2>1, <2>2
<1>6. DOMAIN windows' \subseteq ObjectiveIds \X Nat
  BY <1>2, <1>3 DEF EvidenceSound, TypeOK
<1>7. WindowsSound'
  BY <1>3, <1>4, <1>5 DEF WindowsSound
<1> QED
  BY <1>1, <1>3, <1>5, <1>6, <1>7

LEMMA IngestInv ==
  ASSUME EvidenceSound, NEW ev \in Events, Ingest(ev)
  PROVE  /\ EvidenceSound'
         /\ RevalidationMeansNoEvidence => RevalidationMeansNoEvidence'
<1>1. /\ Admissible(ev) /\ ev.request \notin seen
      /\ seen' = seen \cup {ev.request}
      /\ windows' = Inserted(ev)
      /\ revalidate_needed' =
           [o \in ObjectiveIds |-> revalidate_needed[o] /\ ~Active(o)]
      /\ UNCHANGED <<epoch, pol, worker_boots, now, shutting_down,
                     last_state, recover_streak>>
  BY DEF Ingest, context, verdicts
<1>2. /\ DOMAIN windows' \subseteq ObjectiveIds \X Nat
      /\ WindowsSound'
      /\ \A k \in DOMAIN windows' :
           \/ k[1] \in DOMAIN pol /\ pol[k[1]].enabled
           \/ k \in DOMAIN windows /\ windows'[k] = windows[k]
  BY <1>1, InsertedWindows
<1>3. windows' \in [DOMAIN windows' -> ObservationWindow]
  <2>1. windows' = [k \in DOMAIN windows' |-> windows'[k]]
    BY <1>1 DEF Inserted
  <2> QED
    BY <1>2, <2>1 DEF WindowsSound, Sound
<1>4. /\ seen' \subseteq Nat
      /\ IsFiniteSet(seen')
  <2>1. ev.request \in Nat
    BY EventsAssumption DEF Event
  <2> QED
    BY <1>1, <2>1, FS_AddElement DEF EvidenceSound, TypeOK
<1>5. revalidate_needed' \in [ObjectiveIds -> BOOLEAN]
  BY <1>1
<1>6. TypeOK'
  BY <1>1, <1>2, <1>3, <1>4, <1>5 DEF EvidenceSound, TypeOK
<1>7. ASSUME RevalidationMeansNoEvidence
      PROVE  RevalidationMeansNoEvidence'
  <2> SUFFICES ASSUME NEW k \in DOMAIN windows', revalidate_needed'[k[1]]
               PROVE  windows'[k].samples = {}
    BY DEF RevalidationMeansNoEvidence
  <2>1. k[1] \in ObjectiveIds
    BY <1>2
  <2>2. revalidate_needed[k[1]] /\ ~Active(k[1])
    BY <1>1, <2>1
  <2>3. k \in DOMAIN windows /\ windows'[k] = windows[k]
    BY <1>2, <2>2 DEF Active
  <2> QED
    BY <1>7, <2>2, <2>3 DEF RevalidationMeansNoEvidence
<1>8. StreakMatchesState'
  BY <1>1 DEF EvidenceSound, StreakMatchesState
<1> QED
  BY <1>2, <1>4, <1>6, <1>7, <1>8 DEF EvidenceSound

-----------------------------------------------------------------------------
(* The state machine of evaluate.  From a bad state the first good         *)
(* evaluation can only be RECOVERING, because the streak is 0 there.       *)
Bad == {"VIOLATING", "SEVERE", "AT_RISK"}

LEMMA JudgeEffect ==
  ASSUME TypeOK, StreakMatchesState, NEW o \in DOMAIN pol, NEW v \in Nat
  PROVE  /\ Judge(o, v).state \in Bad \cup {"RECOVERING", "HEALTHY"}
         /\ Judge(o, v).streak \in 0..2
         /\ Judge(o, v).state \in Bad => Judge(o, v).streak = 0
         /\ Judge(o, v).state = "RECOVERING" => Judge(o, v).streak = 1
         /\ last_state[o] \in Bad => Judge(o, v).state # "HEALTHY"
<1>1. /\ o \in ObjectiveIds
      /\ pol[o].target \in Nat /\ pol[o].recovery \in Nat
  BY PolicyType DEF IsObjective
<1>2. /\ last_state[o] \in TailStates
      /\ recover_streak[o] \in 0..2
      /\ last_state[o] \in Bad => recover_streak[o] = 0
      /\ last_state[o] = "RECOVERING" => recover_streak[o] = 1
  BY <1>1 DEF TypeOK, StreakMatchesState, Bad
<1> DEFINE target == pol[o].target
           good == v < target /\ v <= pol[o].recovery
           recovering == good /\ last_state[o] \in Degraded
           streak == IF recovering THEN recover_streak[o] + 1 ELSE 0
<1>3. streak \in 0..2 /\ (last_state[o] \in Bad /\ recovering => streak = 1)
  BY <1>2 DEF Degraded, Bad
<1>4. Judge(o, v).streak = streak
  BY DEF Judge
<1>5. CASE ~good
  <2>1. ~recovering /\ streak = 0
    BY <1>5
  <2>2. \/ v >= 2 * target
        \/ v >= target /\ v < 2 * target
        \/ v > pol[o].recovery /\ v < target
    BY <1>1, <1>5
  <2>3. Judge(o, v).state \in Bad
    BY <1>1, <2>2 DEF Judge, Bad
  <2> QED
    BY <2>1, <2>3, <1>4 DEF Bad
<1>6. CASE good
  <2>1. Judge(o, v).state =
          IF recovering /\ streak < 2 THEN "RECOVERING" ELSE "HEALTHY"
    BY <1>1, <1>3, <1>6 DEF Judge
  <2>2. recovering /\ streak < 2 => streak = 1
    BY <1>2, <1>3
  <2>3. last_state[o] \in Bad => recovering /\ streak < 2
    BY <1>3, <1>6 DEF Bad, Degraded
  <2> QED
    BY <2>1, <2>2, <2>3, <1>3, <1>4 DEF Bad
<1> QED
  BY <1>5, <1>6

(* What an evaluation concludes from a sound window: a state about latency *)
(* only from enough samples of which one is fresh.                         *)
Fresh(o, s) ==
  pol[o].freshness = 0 \/ s.captured = 0 \/ now - s.captured <= pol[o].freshness

LEMMA VerdictEffect ==
  ASSUME EvidenceSound, NEW o \in DOMAIN pol,
         NEW w, Sound(w, epoch, seen)
  PROVE  LET v == Verdict(o, w.samples)
         IN /\ v.state \in TailStates
            /\ v.streak \in 0..2
            /\ v.state \in Bad => v.streak = 0
            /\ v.state = "RECOVERING" => v.streak = 1
            /\ last_state[o] \in Bad => v.state # "HEALTHY"
            /\ v.state \in Bad \cup {"RECOVERING", "HEALTHY"} =>
                 /\ ~revalidate_needed[o]
                 /\ Cardinality(w.samples) >= pol[o].required
                 /\ \E s \in w.samples : Fresh(o, s)
<1> DEFINE v == Verdict(o, w.samples)
<1>1. /\ o \in ObjectiveIds
      /\ pol[o].required \in Nat \ {0}
      /\ pol[o].permille \in Permilles
      /\ pol[o].freshness \in Nat
  BY PolicyType DEF EvidenceSound, IsObjective, Permilles
<1>4. recover_streak[o] \in 0..2 /\ now \in Nat
  BY <1>1 DEF EvidenceSound, TypeOK
<1>2. CASE \/ revalidate_needed[o]
           \/ TooOld(o, w.samples)
           \/ Cardinality(w.samples) < pol[o].required
  <2>1. /\ v.state \in {"REVALIDATION_REQUIRED", "STALE", "INSUFFICIENT_EVIDENCE"}
        /\ v.streak = recover_streak[o]
    BY <1>2 DEF Verdict
  <2> QED
    BY <1>4, <2>1 DEF TailStates, Bad
<1>3. CASE /\ ~revalidate_needed[o]
           /\ ~TooOld(o, w.samples)
           /\ ~(Cardinality(w.samples) < pol[o].required)
  <2> DEFINE q == Quantile(w.samples, pol[o].permille)
  <2>1. /\ IsFiniteSet(w.samples)
        /\ \A s \in w.samples : s.latency \in Nat /\ s.captured \in Nat
    BY DEF Sound, ObservationWindow, Sample
  <2>2. Cardinality(w.samples) \in Nat
    BY <2>1, FS_CardinalityType
  <2>3. Cardinality(w.samples) >= pol[o].required /\ w.samples # {}
    BY <1>1, <1>3, <2>2, FS_EmptySet
  <2>4. q \in Nat
    BY <1>1, <2>1, <2>3, QuantileIsSample
  <2>5. v = Judge(o, q)
    BY <1>3 DEF Verdict
  <2>6. PICK s \in w.samples : s.captured = LatestCaptured(w.samples)
    BY <2>1, <2>3, LatestIsCaptured
  <2>7. Fresh(o, s)
    BY <1>1, <1>3, <1>4, <2>1, <2>6 DEF TooOld, Fresh
  <2> HIDE DEF q
  <2>8. /\ v.state \in Bad \cup {"RECOVERING", "HEALTHY"}
        /\ v.streak \in 0..2
        /\ v.state \in Bad => v.streak = 0
        /\ v.state = "RECOVERING" => v.streak = 1
        /\ last_state[o] \in Bad => v.state # "HEALTHY"
    BY <2>4, <2>5, JudgeEffect DEF EvidenceSound
  <2>9. Bad \cup {"RECOVERING", "HEALTHY"} \subseteq TailStates
    BY DEF Bad, TailStates
  <2> HIDE DEF v
  <2>10. v.state \in TailStates
    BY <2>8, <2>9
  <2>11. \E t \in w.samples : Fresh(o, t)
    BY <2>7
  <2> QED
    BY <1>3, <2>3, <2>8, <2>10, <2>11 DEF v
<1> QED
  BY <1>2, <1>3

-----------------------------------------------------------------------------
(* Evaluating some of the enabled objectives.  The verdict of each rests   *)
(* on its own window, pruned, which is sound.                              *)
LEMMA EvaluateEachEffect ==
  ASSUME EvidenceSound, NEW os, os \subseteq DOMAIN pol, EvaluateEach(os)
  PROVE  /\ \A o \in os :
              /\ KeyOf(o) \in DOMAIN windows'
              /\ windows'[KeyOf(o)] = Pruned(o)
              /\ last_state'[o] = Verdict(o, Pruned(o).samples).state
              /\ recover_streak'[o] = Verdict(o, Pruned(o).samples).streak
         /\ \A o \in ObjectiveIds \ os :
              /\ last_state'[o] = last_state[o]
              /\ recover_streak'[o] = recover_streak[o]
         /\ UNCHANGED <<context, seen, revalidate_needed>>
<1>1. os \subseteq ObjectiveIds
  BY PolicyType DEF EvidenceSound
<1>2. \A o \in os : KeyOf(o)[1] = o
  BY DEF KeyOf
<1>3. windows' = [k \in DOMAIN windows \cup {KeyOf(o) : o \in os} |->
                    IF k \in {KeyOf(o) : o \in os} THEN Pruned(k[1])
                    ELSE windows[k]]
  BY DEF EvaluateEach
<1>4. \A o \in os : /\ KeyOf(o) \in DOMAIN windows'
                    /\ windows'[KeyOf(o)] = Pruned(o)
  BY <1>2, <1>3
<1>5. \A o \in os :
        /\ last_state'[o] = Verdict(o, Pruned(o).samples).state
        /\ recover_streak'[o] = Verdict(o, Pruned(o).samples).streak
  BY <1>1 DEF EvaluateEach
<1>6. \A o \in ObjectiveIds \ os :
        /\ last_state'[o] = last_state[o]
        /\ recover_streak'[o] = recover_streak[o]
  BY DEF EvaluateEach
<1>7. UNCHANGED <<context, seen, revalidate_needed>>
  BY DEF EvaluateEach
<1> QED
  BY <1>4, <1>5, <1>6, <1>7

LEMMA EvaluateEachInv ==
  ASSUME EvidenceSound, NEW os, os \subseteq DOMAIN pol, EvaluateEach(os)
  PROVE  /\ EvidenceSound'
         /\ RevalidationMeansNoEvidence => RevalidationMeansNoEvidence'
<1> DEFINE key == {KeyOf(o) : o \in os}
<1>1. /\ UNCHANGED <<epoch, pol, worker_boots, now, shutting_down, seen,
                     revalidate_needed>>
      /\ windows' = [k \in DOMAIN windows \cup key |->
                       IF k \in key THEN Pruned(k[1]) ELSE windows[k]]
  BY DEF EvaluateEach, context
<1>2. \A k \in key : k[1] \in os /\ k = KeyOf(k[1])
  BY DEF KeyOf
<1>3. \A k \in key :
        /\ k \in ObjectiveIds \X Nat
        /\ Sound(windows'[k], epoch, seen)
        /\ windows'[k].samples \subseteq WindowAt(k).samples
  BY <1>1, <1>2, PrunedSound
<1>4. \A k \in DOMAIN windows \ key : windows'[k] = windows[k]
  BY <1>1
<1>5. WindowsSound'
  BY <1>1, <1>3, <1>4 DEF EvidenceSound, WindowsSound
<1>6. /\ DOMAIN windows' \subseteq ObjectiveIds \X Nat
      /\ windows' \in [DOMAIN windows' -> ObservationWindow]
  <2>1. DOMAIN windows' = DOMAIN windows \cup key
    BY <1>1
  <2>2. windows' = [k \in DOMAIN windows' |-> windows'[k]]
    BY <1>1
  <2> QED
    BY <1>3, <1>5, <2>1, <2>2 DEF EvidenceSound, TypeOK, WindowsSound, Sound
<1>7. \A o \in ObjectiveIds :
        /\ last_state'[o] \in TailStates
        /\ recover_streak'[o] \in 0..2
        /\ last_state'[o] \in Bad => recover_streak'[o] = 0
        /\ last_state'[o] = "RECOVERING" => recover_streak'[o] = 1
  <2> SUFFICES ASSUME NEW o \in ObjectiveIds
               PROVE  /\ last_state'[o] \in TailStates
                      /\ recover_streak'[o] \in 0..2
                      /\ last_state'[o] \in Bad => recover_streak'[o] = 0
                      /\ last_state'[o] = "RECOVERING" => recover_streak'[o] = 1
    OBVIOUS
  <2>1. CASE o \in os
    <3>1. Sound(Pruned(o), epoch, seen)
      BY <2>1, PrunedSound
    <3> QED
      BY <2>1, <3>1, VerdictEffect, EvaluateEachEffect
  <2>2. CASE o \notin os
    BY <2>2, EvaluateEachEffect DEF EvidenceSound, TypeOK, StreakMatchesState, Bad
  <2> QED
    BY <2>1, <2>2
<1>8. /\ last_state' \in [ObjectiveIds -> TailStates]
      /\ recover_streak' \in [ObjectiveIds -> 0..2]
  <2>1. /\ last_state' = [o \in ObjectiveIds |-> last_state'[o]]
        /\ recover_streak' = [o \in ObjectiveIds |-> recover_streak'[o]]
    BY DEF EvaluateEach
  <2> QED
    BY <1>7, <2>1
<1>9. TypeOK'
  BY <1>1, <1>6, <1>8 DEF EvidenceSound, TypeOK
<1>10. ASSUME RevalidationMeansNoEvidence
       PROVE  RevalidationMeansNoEvidence'
  <2> SUFFICES ASSUME NEW k \in DOMAIN windows', revalidate_needed[k[1]]
               PROVE  windows'[k].samples = {}
    BY <1>1 DEF RevalidationMeansNoEvidence
  <2>1. CASE k \in key
    <3>1. WindowAt(k).samples = {}
      BY <1>10 DEF WindowAt, RevalidationMeansNoEvidence
    <3> QED
      BY <1>3, <2>1, <3>1
  <2>2. CASE k \notin key
    BY <1>1, <1>4, <1>10, <2>2 DEF RevalidationMeansNoEvidence
  <2> QED
    BY <2>1, <2>2
<1>11. StreakMatchesState'
  BY <1>7 DEF StreakMatchesState, Bad
<1> QED
  BY <1>1, <1>5, <1>9, <1>10, <1>11 DEF EvidenceSound

(* Both forms of evaluation evaluate some objectives of the policy. *)
LEMMA EvaluateIsEach ==
  ASSUME EvaluateAll \/ \E o \in ObjectiveIds : Evaluate(o)
  PROVE  \E os \in SUBSET DOMAIN pol : EvaluateEach(os)
BY DEF EvaluateAll, Evaluate, Active

-----------------------------------------------------------------------------
(* The steps that touch neither windows nor verdicts. *)
LEMMA ContextInv ==
  ASSUME EvidenceSound,
         \/ \E w \in Workers, b \in Boots : RegisterWorker(w, b)
         \/ \E w \in Workers : UnregisterWorker(w)
         \/ \E p \in Policies : SetPolicy(p)
         \/ \E t \in 0..MaxNow : SetClock(t)
         \/ BeginShutdown
         \/ UNCHANGED vars
  PROVE  /\ EvidenceSound'
         /\ RevalidationMeansNoEvidence => RevalidationMeansNoEvidence'
         /\ UNCHANGED <<evidence, verdicts>>
<1>1. UNCHANGED <<epoch, evidence, verdicts>>
  BY DEF RegisterWorker, UnregisterWorker, SetPolicy, SetClock, BeginShutdown,
         vars, context, evidence
<1>2. /\ DOMAIN worker_boots' \subseteq Workers
      /\ worker_boots' \in [DOMAIN worker_boots' -> Boots]
  <2>1. CASE UNCHANGED worker_boots
    BY <2>1 DEF EvidenceSound, TypeOK
  <2>2. ASSUME NEW w \in Workers, NEW b \in Boots, RegisterWorker(w, b)
        PROVE  <1>2!1 /\ <1>2!2
    BY <2>2 DEF RegisterWorker, EvidenceSound, TypeOK
  <2>3. ASSUME NEW w \in Workers, UnregisterWorker(w)
        PROVE  <1>2!1 /\ <1>2!2
    BY <2>3 DEF UnregisterWorker, EvidenceSound, TypeOK
  <2> QED
    BY <2>1, <2>2, <2>3 DEF SetPolicy, SetClock, BeginShutdown, vars, context
<1>3. /\ pol' \in Policies \cup {[o \in {} |-> 0]}
      /\ now' \in Nat
      /\ shutting_down' \in BOOLEAN
  <2>1. \/ pol' \in Policies
        \/ UNCHANGED pol
    BY DEF RegisterWorker, UnregisterWorker, SetPolicy, SetClock,
           BeginShutdown, vars, context
  <2>2. \/ now' \in 0..MaxNow
        \/ UNCHANGED now
    BY DEF RegisterWorker, UnregisterWorker, SetPolicy, SetClock,
           BeginShutdown, vars, context
  <2>3. shutting_down' \in {shutting_down, TRUE}
    BY DEF RegisterWorker, UnregisterWorker, SetPolicy, SetClock,
           BeginShutdown, vars, context
  <2>4. now' \in Nat
    BY <2>2, BoundsAssumption DEF EvidenceSound, TypeOK
  <2>5. shutting_down' \in BOOLEAN
    BY <2>3 DEF EvidenceSound, TypeOK
  <2> QED
    BY <2>1, <2>4, <2>5 DEF EvidenceSound, TypeOK
<1>4. TypeOK'
  BY <1>1, <1>2, <1>3 DEF EvidenceSound, TypeOK, evidence, verdicts
<1>5. /\ IsFiniteSet(seen')
      /\ WindowsSound'
      /\ RevalidationMeansNoEvidence => RevalidationMeansNoEvidence'
      /\ StreakMatchesState'
  BY <1>1 DEF EvidenceSound, WindowsSound, RevalidationMeansNoEvidence,
              StreakMatchesState, evidence, verdicts
<1> QED
  BY <1>1, <1>4, <1>5 DEF EvidenceSound

LEMMA AdvanceEpochInv ==
  ASSUME EvidenceSound, AdvanceEpoch
  PROVE  EvidenceSound' /\ RevalidationMeansNoEvidence'
<1>1. /\ epoch' = epoch + 1
      /\ revalidate_needed' = RevalidatePolicy
      /\ windows' = [k \in {} |-> 0]
      /\ seen' = {}
      /\ UNCHANGED <<pol, worker_boots, now, shutting_down,
                     last_state, recover_streak>>
  BY DEF AdvanceEpoch, verdicts
<1>2. /\ DOMAIN windows' = {}
      /\ windows' \in [DOMAIN windows' -> ObservationWindow]
  BY <1>1
<1>3. revalidate_needed' \in [ObjectiveIds -> BOOLEAN]
  <2>1. \A o \in ObjectiveIds :
          (o \in DOMAIN pol \/ revalidate_needed[o]) \in BOOLEAN
    OBVIOUS
  <2> QED
    BY <1>1, <2>1 DEF RevalidatePolicy
<1>4. TypeOK'
  BY <1>1, <1>2, <1>3 DEF EvidenceSound, TypeOK
<1>5. IsFiniteSet(seen')
  BY <1>1, FS_EmptySet
<1>6. WindowsSound' /\ RevalidationMeansNoEvidence'
  BY <1>2 DEF WindowsSound, RevalidationMeansNoEvidence
<1>7. StreakMatchesState'
  BY <1>1 DEF EvidenceSound, StreakMatchesState
<1> QED
  BY <1>4, <1>5, <1>6, <1>7 DEF EvidenceSound

(* Every step keeps the evidence sound; none takes the meaning away from   *)
(* the marks.                                                              *)
LEMMA SoundNext ==
  ASSUME EvidenceSound, [Next]_vars
  PROVE  /\ EvidenceSound'
         /\ RevalidationMeansNoEvidence => RevalidationMeansNoEvidence'
<1>1. CASE \E ev \in Events : Ingest(ev)
  BY <1>1, IngestInv
<1>2. CASE EvaluateAll \/ \E o \in ObjectiveIds : Evaluate(o)
  BY <1>2, EvaluateIsEach, EvaluateEachInv
<1>3. CASE AdvanceEpoch
  BY <1>3, AdvanceEpochInv
<1> QED
  BY <1>1, <1>2, <1>3, ContextInv DEF Next

(* Windows, marks and streaks stay sound, whatever is called in whatever   *)
(* order (ingest, evaluate, advance_epoch and the setters).                *)
THEOREM InvHolds == Spec => []EvidenceInv
<1>1. Init => EvidenceInv
  BY InitInv
<1>2. EvidenceInv /\ [Next]_vars => EvidenceInv'
  BY SoundNext DEF EvidenceInv
<1> QED
  BY <1>1, <1>2, PTL DEF Spec

-----------------------------------------------------------------------------
(* Every variable stays in its type, under any policy changes, events and  *)
(* clock readings.                                                         *)
THEOREM TypeCorrect == Spec => []TypeOK
<1>1. EvidenceInv => TypeOK
  BY DEF EvidenceInv, EvidenceSound
<1> QED
  BY <1>1, InvHolds, PTL

(* No window ever holds a measurement of an earlier epoch, or of a request *)
(* the epoch has not accepted (advance_epoch, ingest, ensure_window).      *)
THEOREM CurrentEvidence == Spec => []CurrentEvidenceOnly
<1>1. EvidenceInv => CurrentEvidenceOnly
  BY DEF EvidenceInv, EvidenceSound, WindowsSound, Sound, CurrentEvidenceOnly
<1> QED
  BY <1>1, InvHolds, PTL

(* No request ever counts twice in a window, however often its completion  *)
(* is offered (ingest, seen).                                              *)
THEOREM OneSample == Spec => []OneSamplePerRequest
<1>1. EvidenceInv => OneSamplePerRequest
  BY DEF EvidenceInv, EvidenceSound, WindowsSound, Sound, OneSamplePerRequest
<1> QED
  BY <1>1, InvHolds, PTL

(* A revalidation mark never hides evidence: whenever an objective is      *)
(* marked all of its windows are empty (advance_epoch, ingest, set_policy).*)
THEOREM MarksHideNothing == Spec => []RevalidationMeansNoEvidence
<1>1. EvidenceInv => RevalidationMeansNoEvidence
  BY DEF EvidenceInv, EvidenceSound
<1> QED
  BY <1>1, InvHolds, PTL

(* The last state and the recovery streak of an objective agree, although  *)
(* some evaluations replace only one of them (evaluate).                   *)
THEOREM StreaksMatch == Spec => []StreakMatchesState
<1>1. EvidenceInv => StreakMatchesState
  BY DEF EvidenceInv, EvidenceSound
<1> QED
  BY <1>1, InvHolds, PTL

-----------------------------------------------------------------------------
(* Steps other than evaluations leave the verdicts alone. *)
LEMMA VerdictsChange ==
  ASSUME EvidenceSound, [Next]_vars
  PROVE  \/ UNCHANGED verdicts
         \/ EvaluateAll \/ \E o \in ObjectiveIds : Evaluate(o)
<1>1. CASE AdvanceEpoch \/ \E ev \in Events : Ingest(ev)
  BY <1>1 DEF AdvanceEpoch, Ingest
<1> QED
  BY <1>1, ContextInv DEF Next

(* The last state of an objective after a step is the one it had, or the   *)
(* verdict on its sound window.                                            *)
LEMMA NewState ==
  ASSUME EvidenceSound, [Next]_vars, NEW o \in ObjectiveIds
  PROVE  \/ last_state'[o] = last_state[o]
         \/ /\ o \in DOMAIN pol
            /\ UNCHANGED context
            /\ windows'[KeyOf(o)] = Pruned(o)
            /\ Sound(Pruned(o), epoch, seen)
            /\ last_state'[o] = Verdict(o, Pruned(o).samples).state
<1>1. CASE UNCHANGED verdicts
  BY <1>1 DEF verdicts
<1>2. CASE EvaluateAll \/ \E x \in ObjectiveIds : Evaluate(x)
  <2>1. PICK os \in SUBSET DOMAIN pol : EvaluateEach(os)
    BY <1>2, EvaluateIsEach
  <2>2. CASE o \in os
    BY <2>1, <2>2, EvaluateEachEffect, PrunedSound
  <2>3. CASE o \notin os
    BY <2>1, <2>3, EvaluateEachEffect
  <2> QED
    BY <2>2, <2>3
<1> QED
  BY <1>1, <1>2, VerdictsChange

(* One evaluation never takes an objective from a bad state to HEALTHY,    *)
(* whatever policies were installed in between (evaluate).                 *)
THEOREM TwoGoodEvaluations == Spec => NoDirectRecovery
<1>1. ASSUME EvidenceSound, [Next]_vars, NEW o \in ObjectiveIds,
             last_state[o] \in {"VIOLATING", "SEVERE", "AT_RISK"}
      PROVE  last_state'[o] # "HEALTHY"
  <2>1. last_state[o] \in Bad /\ last_state[o] # "HEALTHY"
    BY <1>1 DEF Bad
  <2> QED
    BY <1>1, <2>1, NewState, VerdictEffect
<1>2. EvidenceInv /\ [Next]_vars =>
        [\A o \in ObjectiveIds :
           last_state[o] \in {"VIOLATING", "SEVERE", "AT_RISK"}
             => last_state'[o] # "HEALTHY"]_vars
  BY <1>1 DEF EvidenceInv
<1> QED
  BY <1>2, InvHolds, PTL DEF Spec, NoDirectRecovery

-----------------------------------------------------------------------------
(* In a window with one sample per request the sample count, which is what *)
(* evaluate compares, is the number of requests.                           *)
LEMMA RequestCount ==
  ASSUME NEW S, IsFiniteSet(S),
         \A s, t \in S : s.request = t.request => s = t
  PROVE  Cardinality({s.request : s \in S}) = Cardinality(S)
<1> DEFINE R == {s.request : s \in S}
           f == [s \in S |-> s.request]
<1>1. f \in [S -> R] /\ \A s \in S : f[s] = s.request
  OBVIOUS
<1>2. \A r \in R : \E s \in S : f[s] = r
  OBVIOUS
<1>3. \A s, t \in S : f[s] = f[t] => s = t
  BY <1>1
<1> HIDE DEF f, R
<1>4. f \in Bijection(S, R)
  BY <1>1, <1>2, <1>3 DEF Bijection, Injection, Surjection, IsInjective
<1>5. IsFiniteSet(R) /\ Cardinality(R) = Cardinality(S)
  BY <1>4, FS_Bijection DEF ExistsBijection
<1> QED
  BY <1>5 DEF R

(* What a verdict about latency rests on: enough requests, and a sample of *)
(* the current epoch that is fresh or undated.                             *)
Founded(o, samples) ==
  /\ Cardinality({s.request : s \in samples}) >= pol[o].required
  /\ \E s \in samples : s.epoch = epoch /\ Fresh(o, s)

LEMMA VerdictFounded ==
  ASSUME EvidenceSound, NEW o \in DOMAIN pol,
         Sound(Pruned(o), epoch, seen),
         Verdict(o, Pruned(o).samples).state \in Degraded \cup {"HEALTHY"}
  PROVE  Founded(o, Pruned(o).samples)
<1> DEFINE S == Pruned(o).samples
<1>1. Verdict(o, S).state \in Bad \cup {"RECOVERING", "HEALTHY"}
  BY DEF Bad, Degraded
<1>2. /\ Cardinality(S) >= pol[o].required
      /\ \E s \in S : Fresh(o, s)
  BY <1>1, VerdictEffect
<1>3. /\ Cardinality({s.request : s \in S}) = Cardinality(S)
      /\ \A s \in S : s.epoch = epoch
  BY RequestCount DEF Sound
<1> QED
  BY <1>2, <1>3 DEF Founded

(* Whatever evaluate_all says about the latency of an objective is founded *)
(* on the window it leaves, also where it repeats what was said before.    *)
LEMMA EvaluateAllFounded ==
  ASSUME EvidenceSound, EvaluateAll, NEW o \in DOMAIN pol, pol[o].enabled,
         last_state'[o] \in Degraded \cup {"HEALTHY"}
  PROVE  Founded(o, windows'[KeyOf(o)].samples)
<1> DEFINE os == {x \in DOMAIN pol : pol[x].enabled}
<1>1. EvaluateEach(os) /\ os \subseteq DOMAIN pol /\ o \in os
  BY DEF EvaluateAll
<1> HIDE DEF os
<1>2. /\ windows'[KeyOf(o)] = Pruned(o)
      /\ last_state'[o] = Verdict(o, Pruned(o).samples).state
  BY <1>1, EvaluateEachEffect
<1>3. Sound(Pruned(o), epoch, seen)
  BY PrunedSound
<1> QED
  BY <1>2, <1>3, VerdictFounded

(* A new verdict about latency rests on enough requests and on a sample of *)
(* the current epoch that is fresh or undated: no step, whatever came      *)
(* before it, lets a verdict change without them (evaluate).               *)
THEOREM VerdictsAreFounded == Spec => VerdictFromFreshEvidence
<1>1. ASSUME EvidenceSound, [Next]_vars, NEW o \in ObjectiveIds,
             last_state'[o] # last_state[o],
             last_state'[o] \in Degraded \cup {"HEALTHY"}
      PROVE  Founded(o, windows'[KeyOf(o)].samples)
  BY <1>1, NewState, VerdictFounded
<1>2. EvidenceInv /\ [Next]_vars =>
        [\A o \in ObjectiveIds :
           /\ last_state'[o] # last_state[o]
           /\ last_state'[o] \in Degraded \cup {"HEALTHY"}
           => LET samples == windows'[KeyOf(o)].samples
              IN /\ Cardinality({s.request : s \in samples}) >= pol[o].required
                 /\ \E s \in samples :
                      /\ s.epoch = epoch
                      /\ \/ pol[o].freshness = 0 \/ s.captured = 0
                         \/ now - s.captured <= pol[o].freshness]_vars
  BY <1>1 DEF EvidenceInv, Founded, Fresh
<1> QED
  BY <1>2, InvHolds, PTL DEF Spec, VerdictFromFreshEvidence
=============================================================================
