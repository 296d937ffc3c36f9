------------------------------ MODULE Evidence ------------------------------
(***************************************************************************)
(* The evidence half of TailGovernor: registered worker incarnations, the  *)
(* admission of completed requests as evidence, the observation windows    *)
(* per objective and request class, the revalidation that an epoch change  *)
(* forces, and the tail state each evaluation leaves behind.               *)
(*                                                                         *)
(* Evidence arrives from workers that may be of an earlier incarnation, of *)
(* an earlier epoch, late, early or repeated: ingest is offered any event  *)
(* of Events, as often as callers like.                                    *)
(***************************************************************************)
EXTENDS Window

CONSTANTS
  ObjectiveIds,    \* identities of tail objectives
  Policies,        \* the policies callers may install
  Workers, Boots,  \* workers and their incarnations
  Events,          \* the completions that may be offered as evidence
  MaxEpoch, MaxNow \* bounds of the explored instance

(* The part of TailObjective that ingest and evaluate read; an objective   *)
(* may have more.  recovery is the value of recovery_threshold(), required *)
(* that of effective_min_samples(); scope is the request class, 0 when the *)
(* objective has none.                                                     *)
IsObjective(obj) ==
  /\ obj.enabled \in BOOLEAN
  /\ obj.target \in Nat /\ obj.recovery \in Nat
  /\ obj.required \in Nat \ {0}
  /\ obj.permille \in 1..1000
  /\ obj.freshness \in Nat
  /\ obj.scope \in Nat
  /\ obj.window \in WindowConfig

(* A policy is a function from the identities of its objectives. *)
IsPolicy(p) ==
  /\ DOMAIN p \subseteq ObjectiveIds
  /\ \A o \in DOMAIN p : IsObjective(p[o])

(* RequestLatency, as far as ingest reads it.  authoritative is the value  *)
(* of is_authoritative_completion(), phase_sum the sum of the phases.      *)
Event ==
  [request : Nat, class : Nat, worker : Workers, boot : Boots, epoch : Nat,
   authoritative : BOOLEAN, latency : Nat, phase_sum : Nat, captured : Nat]

ASSUME PoliciesAssumption == \A p \in Policies : IsPolicy(p)
ASSUME EventsAssumption == Events \subseteq Event
ASSUME BoundsAssumption == MaxEpoch \in Nat /\ MaxNow \in Nat

TailStates ==
  {"HEALTHY", "AT_RISK", "VIOLATING", "SEVERE", "RECOVERING",
   "INSUFFICIENT_EVIDENCE", "REVALIDATION_REQUIRED", "STALE"}

VARIABLES
  epoch,              \* cfg.epoch
  pol,                \* the objectives of the installed policy
  worker_boots,       \* the registered incarnation of each registered worker
  now,                \* the injected clock
  shutting_down,
  windows,            \* the windows that exist, by <<objective, class>>
  seen,               \* requests whose evidence was accepted in this epoch
  revalidate_needed,  \* this and the next two by objective: the code's maps
  last_state,         \*   are only read with operator[], so that a missing
  recover_streak      \*   entry is the same as one with its default

context == <<epoch, pol, worker_boots, now, shutting_down>>
evidence == <<windows, seen, revalidate_needed>>
verdicts == <<last_state, recover_streak>>
vars == <<context, evidence, verdicts>>

(* A retained TailSample; ord counts the insertions of the epoch. *)
Sample ==
  [ord : Nat, request : Nat, latency : Nat, captured : Nat, epoch : Nat]

ObservationWindow == [cfg : WindowConfig, samples : SUBSET Sample]

TypeOK ==
  /\ epoch \in Nat \ {0}
  /\ pol \in Policies \cup {[o \in {} |-> 0]}
  /\ DOMAIN worker_boots \subseteq Workers
  /\ worker_boots \in [DOMAIN worker_boots -> Boots]
  /\ now \in Nat
  /\ shutting_down \in BOOLEAN
  /\ DOMAIN windows \subseteq ObjectiveIds \X Nat
  /\ windows \in [DOMAIN windows -> ObservationWindow]
  /\ seen \subseteq Nat
  /\ revalidate_needed \in [ObjectiveIds -> BOOLEAN]
  /\ last_state \in [ObjectiveIds -> TailStates]
  /\ recover_streak \in [ObjectiveIds -> 0..2]

Init ==
  /\ epoch = 1
  /\ pol = [o \in {} |-> 0]
  /\ worker_boots = [w \in {} |-> 0]
  /\ now = 0
  /\ shutting_down = FALSE
  /\ windows = [k \in {} |-> 0]
  /\ seen = {}
  /\ revalidate_needed = [o \in ObjectiveIds |-> FALSE]
  /\ last_state = [o \in ObjectiveIds |-> "HEALTHY"]
  /\ recover_streak = [o \in ObjectiveIds |-> 0]

-----------------------------------------------------------------------------
(* ensure_window: the window of a key, created with the configuration its  *)
(* objective has at that moment.  A later policy does not change it.       *)
WindowAt(key) ==
  IF key \in DOMAIN windows THEN windows[key]
  ELSE [cfg |-> pol[key[1]].window, samples |-> {}]

Active(o) == o \in DOMAIN pol /\ pol[o].enabled

-----------------------------------------------------------------------------
RegisterWorker(w, b) ==
  /\ ~shutting_down
  /\ worker_boots' = [x \in DOMAIN worker_boots \cup {w} |->
                        IF x = w THEN b ELSE worker_boots[x]]
  /\ UNCHANGED <<epoch, pol, now, shutting_down, evidence, verdicts>>

UnregisterWorker(w) ==
  /\ worker_boots' = [x \in DOMAIN worker_boots \ {w} |-> worker_boots[x]]
  /\ UNCHANGED <<epoch, pol, now, shutting_down, evidence, verdicts>>

SetPolicy(p) ==
  /\ pol' = p
  /\ UNCHANGED <<epoch, worker_boots, now, shutting_down, evidence, verdicts>>

SetClock(t) ==
  /\ now' = t
  /\ UNCHANGED <<epoch, pol, worker_boots, shutting_down, evidence, verdicts>>

BeginShutdown ==
  /\ shutting_down' = TRUE
  /\ UNCHANGED <<epoch, pol, worker_boots, now, evidence, verdicts>>

(* Every objective of the policy is to be revalidated; what another policy *)
(* governed keeps its mark.                                                *)
RevalidatePolicy ==
  [o \in ObjectiveIds |-> o \in DOMAIN pol \/ revalidate_needed[o]]

(* Mutated form: the windows survive the epoch. *)
AdvanceEpoch_KeepWindows ==
  /\ epoch < MaxEpoch
  /\ epoch' = epoch + 1
  /\ revalidate_needed' = RevalidatePolicy
  /\ seen' = {}
  /\ UNCHANGED <<pol, worker_boots, now, shutting_down, windows, verdicts>>

(* advance_epoch: old evidence is dropped with the memory of its requests. *)
(* The last states and the streaks are kept.                               *)
AdvanceEpoch ==
  /\ epoch < MaxEpoch
  /\ epoch' = epoch + 1
  /\ revalidate_needed' = RevalidatePolicy
  /\ windows' = [k \in {} |-> 0]
  /\ seen' = {}
  /\ UNCHANGED <<pol, worker_boots, now, shutting_down, verdicts>>

-----------------------------------------------------------------------------
(* What makes an event current evidence, whatever it says of its request:  *)
(* the epoch it was measured in and the incarnation it comes from.         *)
Admissible(ev) ==
  /\ ev.epoch = epoch
  /\ ev.worker \in DOMAIN worker_boots
  /\ worker_boots[ev.worker] = ev.boot

SampleOf(ev) ==
  [ord |-> Cardinality(seen), request |-> ev.request, latency |-> ev.latency,
   captured |-> ev.captured, epoch |-> ev.epoch]

(* The windows an accepted event goes to: of every enabled objective the   *)
(* one for all classes and the one for its class, created when missing,    *)
(* whatever class the objective is about.                                  *)
KeysOf(ev) == {o \in DOMAIN pol : pol[o].enabled} \X {0, ev.class}

Inserted(ev) ==
  [k \in DOMAIN windows \cup KeysOf(ev) |->
     IF k \notin KeysOf(ev) THEN windows[k]
     ELSE LET w == WindowAt(k)
          IN [w EXCEPT !.samples = Insert(w.cfg, @, SampleOf(ev))]]

(* Mutated forms of ingest. *)
Ingest_NoDuplicateTest(ev) ==
  /\ ~shutting_down
  /\ Admissible(ev)
  /\ ev.authoritative
  /\ ev.phase_sum <= ev.latency
  /\ windows' = Inserted(ev)
  /\ revalidate_needed' =
       [o \in ObjectiveIds |-> revalidate_needed[o] /\ ~Active(o)]
  /\ seen' = seen \cup {ev.request}
  /\ UNCHANGED <<context, verdicts>>

Ingest_ScopeOnlyRevalidates(ev) ==
  /\ ~shutting_down
  /\ Admissible(ev)
  /\ ev.authoritative
  /\ ev.request \notin seen
  /\ ev.phase_sum <= ev.latency
  /\ windows' = Inserted(ev)
  /\ revalidate_needed' =
       [o \in ObjectiveIds |->
          revalidate_needed[o] /\ ~(Active(o) /\ pol[o].scope = ev.class)]
  /\ seen' = seen \cup {ev.request}
  /\ UNCHANGED <<context, verdicts>>

(* ingest: an admissible authoritative completion, not a duplicate, whose  *)
(* phases do not exceed its total, becomes evidence for every enabled      *)
(* objective and ends the revalidation of each of them.                    *)
Ingest(ev) ==
  /\ ~shutting_down
  /\ Admissible(ev)
  /\ ev.authoritative
  /\ ev.request \notin seen
  /\ ev.phase_sum <= ev.latency
  /\ windows' = Inserted(ev)
  /\ revalidate_needed' =
       [o \in ObjectiveIds |-> revalidate_needed[o] /\ ~Active(o)]
  /\ seen' = seen \cup {ev.request}
  /\ UNCHANGED <<context, verdicts>>

-----------------------------------------------------------------------------
(* The window an evaluation of o looks at, pruned. *)
KeyOf(o) == <<o, pol[o].scope>>

Pruned(o) ==
  LET w == WindowAt(KeyOf(o))
  IN [w EXCEPT !.samples = Prune(w.cfg, @, now)]

(* Evidence is stale when even the latest of it is older than the          *)
(* objective's freshness.  Evidence captured at 0 counts as undated.       *)
TooOld(o, samples) ==
  /\ pol[o].freshness > 0
  /\ LatestCaptured(samples) > 0
  /\ now - LatestCaptured(samples) > pol[o].freshness

Degraded == {"VIOLATING", "SEVERE", "AT_RISK", "RECOVERING"}

(* Mutated forms of the state machine. *)
Judge_NoReset(o, v) ==
  LET recovering == v < pol[o].target /\ v <= pol[o].recovery
                      /\ last_state[o] \in Degraded
      streak == IF recovering THEN recover_streak[o] + 1 ELSE recover_streak[o]
      state ==
        CASE v >= 2 * pol[o].target -> "SEVERE"
          [] v >= pol[o].target /\ v < 2 * pol[o].target -> "VIOLATING"
          [] v > pol[o].recovery /\ v < pol[o].target -> "AT_RISK"
          [] recovering /\ streak < 2 -> "RECOVERING"
          [] OTHER -> "HEALTHY"
  IN [state |-> state, streak |-> streak]

Judge_OneIsEnough(o, v) ==
  LET recovering == v < pol[o].target /\ v <= pol[o].recovery
                      /\ last_state[o] \in Degraded
      streak == IF recovering THEN recover_streak[o] + 1 ELSE 0
      state ==
        CASE v >= 2 * pol[o].target -> "SEVERE"
          [] v >= pol[o].target /\ v < 2 * pol[o].target -> "VIOLATING"
          [] v > pol[o].recovery /\ v < pol[o].target -> "AT_RISK"
          [] recovering /\ streak < 1 -> "RECOVERING"
          [] OTHER -> "HEALTHY"
  IN [state |-> state, streak |-> streak]

(* The state machine of evaluate on sufficient evidence whose percentile   *)
(* is v: from a degraded state, HEALTHY takes two evaluations in a row at  *)
(* or below the recovery threshold.                                        *)
Judge(o, v) ==
  LET recovering == v < pol[o].target /\ v <= pol[o].recovery
                      /\ last_state[o] \in Degraded
      streak == IF recovering THEN recover_streak[o] + 1 ELSE 0
      state ==
        CASE v >= 2 * pol[o].target -> "SEVERE"
          [] v >= pol[o].target /\ v < 2 * pol[o].target -> "VIOLATING"
          [] v > pol[o].recovery /\ v < pol[o].target -> "AT_RISK"
          [] recovering /\ streak < 2 -> "RECOVERING"
          [] OTHER -> "HEALTHY"
  IN [state |-> state, streak |-> streak]

(* Mutated form: the age of the evidence is not looked at. *)
Verdict_NoFreshness(o, samples) ==
  IF revalidate_needed[o]
  THEN [state |-> "REVALIDATION_REQUIRED", streak |-> recover_streak[o]]
  ELSE IF Cardinality(samples) < pol[o].required
  THEN [state |-> "INSUFFICIENT_EVIDENCE", streak |-> recover_streak[o]]
  ELSE Judge(o, Quantile(samples, pol[o].permille))

(* What evaluate concludes from the samples of o.  Without sufficient      *)
(* evidence the streak is left as it is, but the state is replaced.        *)
Verdict(o, samples) ==
  IF revalidate_needed[o]
  THEN [state |-> "REVALIDATION_REQUIRED", streak |-> recover_streak[o]]
  ELSE IF TooOld(o, samples)
  THEN [state |-> "STALE", streak |-> recover_streak[o]]
  ELSE IF Cardinality(samples) < pol[o].required
  THEN [state |-> "INSUFFICIENT_EVIDENCE", streak |-> recover_streak[o]]
  ELSE Judge(o, Quantile(samples, pol[o].permille))

(* Evaluating the objectives of os, in any order: each has a window, a     *)
(* state and a streak of its own.                                          *)
EvaluateEach(os) ==
  LET key == {KeyOf(o) : o \in os}
      verdict == [o \in os |-> Verdict(o, Pruned(o).samples)]
  IN /\ ~shutting_down
     /\ windows' = [k \in DOMAIN windows \cup key |->
                      IF k \in key THEN Pruned(k[1]) ELSE windows[k]]
     /\ last_state' = [o \in ObjectiveIds |->
          IF o \in os THEN verdict[o].state ELSE last_state[o]]
     /\ recover_streak' = [o \in ObjectiveIds |->
          IF o \in os THEN verdict[o].streak ELSE recover_streak[o]]
     /\ UNCHANGED <<context, seen, revalidate_needed>>

Evaluate(o) == Active(o) /\ EvaluateEach({o})

(* evaluate_all, and the evaluations decide begins with. *)
EvaluateAll == EvaluateEach({o \in DOMAIN pol : pol[o].enabled})

-----------------------------------------------------------------------------
Next ==
  \/ \E w \in Workers, b \in Boots : RegisterWorker(w, b)
  \/ \E w \in Workers : UnregisterWorker(w)
  \/ \E p \in Policies : SetPolicy(p)
  \/ \E t \in 0..MaxNow : SetClock(t)
  \/ BeginShutdown
  \/ AdvanceEpoch
  \/ \E ev \in Events : Ingest(ev)
  \/ \E o \in ObjectiveIds : Evaluate(o)
  \/ EvaluateAll

Spec == Init /\ [][Next]_vars

-----------------------------------------------------------------------------
(* Recovered measurements never silently become current: whatever is in a  *)
(* window was measured in the current epoch, from a request that this      *)
(* epoch accepted (advance_epoch drops windows and seen together, ingest   *)
(* tests the epoch).                                                       *)
CurrentEvidenceOnly ==
  \A k \in DOMAIN windows : \A s \in windows[k].samples :
    s.epoch = epoch /\ s.request \in seen

(* Duplicate completions never count: a request has at most one sample in  *)
(* any window, although an event goes to several windows and windows come  *)
(* and go while the request is remembered (ingest, seen).                  *)
OneSamplePerRequest ==
  \A k \in DOMAIN windows : \A s, t \in windows[k].samples :
    s.request = t.request => s = t

(* An objective waits for revalidation only as long as there is no         *)
(* evidence for it: its mark never hides samples that an evaluation could  *)
(* use, in its own window or in any other (advance_epoch and ingest, over  *)
(* policy changes that take an objective out and bring it back).           *)
RevalidationMeansNoEvidence ==
  \A k \in DOMAIN windows :
    revalidate_needed[k[1]] => windows[k].samples = {}

(* The hysteresis state is kept in two variables that agree: an objective  *)
(* found bad has no recovery behind it, one that is RECOVERING exactly one *)
(* good evaluation (evaluate: last_state and recover_streak, where some    *)
(* evaluations replace the one and leave the other).                       *)
StreakMatchesState ==
  \A o \in ObjectiveIds :
    /\ last_state[o] \in {"VIOLATING", "SEVERE", "AT_RISK"}
         => recover_streak[o] = 0
    /\ last_state[o] = "RECOVERING" => recover_streak[o] = 1

(* One evaluation never takes an objective from a bad state to HEALTHY,    *)
(* whatever the policy has become in between (evaluate, hysteresis).       *)
NoDirectRecovery ==
  [][\A o \in ObjectiveIds :
       last_state[o] \in {"VIOLATING", "SEVERE", "AT_RISK"}
         => last_state'[o] # "HEALTHY"]_vars

(* A verdict about latency is new only when it rests on a sample of the    *)
(* current epoch that is not older than the objective's freshness, or is   *)
(* undated, and on as many requests as the objective requires (evaluate:   *)
(* prune, the revalidation mark, the freshness test, the sample count).    *)
VerdictFromFreshEvidence ==
  [][\A o \in ObjectiveIds :
       /\ last_state'[o] # last_state[o]
       /\ last_state'[o] \in Degraded \cup {"HEALTHY"}
       => LET samples == windows'[KeyOf(o)].samples
          IN /\ Cardinality({s.request : s \in samples}) >= pol[o].required
             /\ \E s \in samples :
                  /\ s.epoch = epoch
                  /\ \/ pol[o].freshness = 0 \/ s.captured = 0
                     \/ now - s.captured <= pol[o].freshness]_vars
=============================================================================
