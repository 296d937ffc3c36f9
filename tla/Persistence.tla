---------------------------- MODULE Persistence ----------------------------
(***************************************************************************)
(* The governor with its state file: save, load, and the process that ends *)
(* at any moment, in the middle of a save too, and is started again.       *)
(*                                                                         *)
(* save writes <path>.tmp, removes <path> and renames the one to the other,*)
(* all under the mutex; nobody reads <path>.tmp, so only what each ending  *)
(* of a save leaves under <path> matters.                                  *)
(***************************************************************************)
EXTENDS Governor

CONSTANTS
  MaxLoadObjectives,     \* the counts above which load gives up: 8192,
  MaxLoadInterventions,  \*   100000
  MaxLoadMarks           \*   and 8192

ASSUME LoadAssumption ==
  /\ MaxLoadObjectives \in Nat
  /\ MaxLoadInterventions \in Nat
  /\ MaxLoadMarks \in Nat

VARIABLES
  file,      \* the state saved under the path, or NoFile
  own,       \* history: interventions authorized since the last load or start
  unproven   \* history: objectives loaded, without evidence accepted since

pvars == <<vars, file, own, unproven>>

NoFile == [epoch |-> 0]

(* Mutated form: the authority is saved with it. *)
Stripped_Nothing(inv) == inv

(* An intervention on disk has no authority context. *)
Stripped(inv) == [inv EXCEPT !.authority = I!NoAuthority]

(* What save writes.  keys are the entries of the map revalidate_needed,   *)
(* marked or not: at least the marked ones.                                *)
Saved(keys) ==
  [epoch |-> epoch, pol |-> pol,
   interventions |-> [i \in DOMAIN interventions |-> Stripped(interventions[i])],
   outcomes |-> outcomes, marks |-> keys, next_int_id |-> next_int_id]

Contents ==
  {Saved(keys) : keys \in
     {K \in SUBSET ObjectiveIds : \A o \in ObjectiveIds :
        revalidate_needed[o] => o \in K}}

(* What the file operations of a save leave under the path, one after the  *)
(* other: the old file while the copy is written, no file after remove,    *)
(* the new file after rename.                                              *)
Saving == \E content \in Contents : file' \in {file, NoFile, content}

PInit ==
  /\ Init
  /\ file = NoFile
  /\ own = {}
  /\ unproven = {}

-----------------------------------------------------------------------------
(* A step of the governor itself. *)
Govern ==
  /\ Next
  /\ own' = IF next_int_id' = next_int_id THEN own ELSE own \cup {next_int_id}
  /\ unproven' = IF seen' \subseteq seen THEN unproven
                 ELSE {o \in unproven : ~I!Active(o)}
  /\ UNCHANGED file

(* save that returns.  The results of remove and rename are not looked at: *)
(* it also succeeds when one of them, or both, did nothing.                *)
Save == Saving /\ UNCHANGED <<vars, own, unproven>>

-----------------------------------------------------------------------------
(* How far load gets with the counts of a file. *)
ReadsPolicy(f) ==
  /\ f # NoFile
  /\ Cardinality(DOMAIN f.pol.objectives) <= MaxLoadObjectives

ReadsRecords(f) == Cardinality(DOMAIN f.interventions) <= MaxLoadInterventions

(* Mutated form: load gives up at the full count of marks already. *)
ReadsAll_OffByOne(f) ==
  ReadsRecords(f) /\ Cardinality(f.marks) < MaxLoadMarks

ReadsAll(f) == ReadsRecords(f) /\ Cardinality(f.marks) <= MaxLoadMarks

(* Mutated form: only what was marked when it was saved is to be revalidated. *)
Marked_OnlySaved(f) == IF ReadsAll(f) THEN f.marks ELSE {}

(* Every objective that was loaded, and every one with an entry in the map. *)
Marked(f) == DOMAIN f.pol.objectives \cup IF ReadsAll(f) THEN f.marks ELSE {}

(* load into a governor in any state.  When it gives up at a count it      *)
(* reports an error and keeps what it has replaced so far.  It leaves the  *)
(* windows, the states and the times of the last interventions alone, and  *)
(* does not use the saved epoch.                                           *)
Load ==
  /\ ReadsPolicy(file)
  /\ pol' = file.pol
  /\ revalidate_needed' =
       [o \in ObjectiveIds |-> o \in Marked(file) \/ revalidate_needed[o]]
  /\ interventions' = IF ReadsRecords(file) THEN file.interventions ELSE interventions
  /\ outcomes' = IF ReadsRecords(file) THEN file.outcomes ELSE outcomes
  /\ next_int_id' = IF ReadsAll(file) THEN file.next_int_id ELSE next_int_id
  /\ own' = IF ReadsRecords(file) THEN {} ELSE own
  /\ unproven' = unproven \cup DOMAIN file.pol.objectives
  /\ UNCHANGED <<epoch, gens, facts, now, shutting_down, held,
                 last_intervention_ns, worker_boots, windows, seen,
                 last_state, recover_streak, file>>

-----------------------------------------------------------------------------
(* A process ends, perhaps in the middle of a save, and another starts     *)
(* with a governor of its own.  Time has gone on.                          *)
Restart ==
  /\ Saving
  /\ gens' = [k \in GenKinds |-> 0]
  /\ facts' = I!DefaultFacts
  /\ now' = now
  /\ shutting_down' = FALSE
  /\ held' = [o \in ObjectiveIds |-> I!NoAuthority]
  /\ last_intervention_ns' = [o \in {} |-> 0]
  /\ worker_boots' = [w \in {} |-> 0]
  /\ windows' = [k \in {} |-> 0]
  /\ seen' = {}
  /\ last_state' = [o \in ObjectiveIds |-> "HEALTHY"]
  /\ recover_streak' = [o \in ObjectiveIds |-> 0]
  /\ own' = {}

(* The first coordinator: it does not load. *)
Start ==
  /\ Restart
  /\ epoch' = 1
  /\ pol' = I!NoPolicy
  /\ revalidate_needed' = [o \in ObjectiveIds |-> FALSE]
  /\ interventions' = [i \in {} |-> 0]
  /\ outcomes' = [i \in {} |-> 0]
  /\ next_int_id' = 1
  /\ unproven' = {}

(* The resumed coordinator: it configures epoch 1, loads, gives up unless  *)
(* that succeeds, and advances the epoch.                                  *)
Resume ==
  /\ Restart
  /\ ReadsPolicy(file') /\ ReadsAll(file')
  /\ epoch' = 2
  /\ pol' = file'.pol
  /\ revalidate_needed' = [o \in ObjectiveIds |-> o \in Marked(file')]
  /\ interventions' = file'.interventions
  /\ outcomes' = file'.outcomes
  /\ next_int_id' = file'.next_int_id
  /\ unproven' = DOMAIN file'.pol.objectives

PNext ==
  \/ Govern
  \/ Save
  \/ Load
  \/ Start
  \/ Resume

PSpec == PInit /\ [][PNext]_pvars

-----------------------------------------------------------------------------
(* Whatever has been loaded, in full or up to its policy, the books agree: *)
(* no identity on record will be issued again, an outcome explains the     *)
(* status of its intervention, and only interventions that this process    *)
(* authorized carry an authority (save, load, authorize).  A load that     *)
(* gives up at the marks has replaced the records and not next_int_id, and *)
(* breaks the first claim: it takes more marks than MaxLoadMarks.          *)
RecordsAgree ==
  /\ I!OutcomeExplainsStatus
  /\ \A i \in DOMAIN interventions :
       /\ i < next_int_id
       /\ i \notin own => interventions[i].authority = I!NoAuthority

(* A recovered intervention is never dispatched: one that was authorized   *)
(* before the save, or by a process that is gone, may already have been    *)
(* carried out (load leaves the authority empty; dispatch compares it).    *)
RecoveredNeverDispatched ==
  [][\A i \in DOMAIN interventions \ own :
       /\ interventions[i].status = "AUTHORIZED"
       /\ i \in DOMAIN interventions'
       /\ interventions'[i].status = "DISPATCHED"
       => ~Govern]_pvars

(* Recovered measurements never silently become current: until evidence    *)
(* for a loaded objective is accepted, evaluating it says that it has to   *)
(* be revalidated, whatever load found in memory and however far it got    *)
(* (load, evaluate).                                                       *)
NoVerdictBeforeEvidence ==
  [][\A o \in unproven :
       /\ last_state'[o] # last_state[o]
       /\ last_state'[o] # "REVALIDATION_REQUIRED"
       => ~Govern]_pvars

(* Atomic save: a path that holds a saved state goes on holding one, the   *)
(* old or the new (save).                                                  *)
AtomicSave == [][file # NoFile => file' # NoFile]_pvars

(* A coordinator restart advances the epoch (run_coordinator_resume).      *)
RestartAdvancesEpoch == [][Resume => epoch' > epoch]_pvars
=============================================================================
