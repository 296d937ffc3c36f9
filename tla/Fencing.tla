------------------------------ MODULE Fencing ------------------------------
(***************************************************************************)
(* Interventions with two history variables, to say what the authority     *)
(* context is for.  The history variables look at the fences themselves    *)
(* (epoch, policy generation, objective generation, runtime generations)   *)
(* and never at an AuthorityContext, so they also tell when                *)
(* current_authority leaves a fence out or authorize and dispatch compare  *)
(* the wrong thing.                                                        *)
(*                                                                         *)
(* Callers are assumed to use generations as generations: a new policy or  *)
(* a new runtime generation has a higher number than the one it replaces.  *)
(* The setters accept any value, and an authority that a caller makes      *)
(* current again by setting an old number back is valid again.             *)
(***************************************************************************)
EXTENDS Interventions

VARIABLES
  disturbed,    \* interventions whose fences moved since they were authorized
  stale_held    \* objectives whose fences moved since their last evaluation

history == <<disturbed, stale_held>>
fvars == <<vars, history>>

FTypeOK == disturbed \subseteq DOMAIN interventions
           /\ stale_held \subseteq ObjectiveIds

(* What is fenced for objective o: everything a decision about it was      *)
(* made under.                                                             *)
Fence(o) ==
  <<epoch, pol.id, pol.generation,
    IF o \in DOMAIN pol.objectives THEN pol.objectives[o].generation ELSE 0,
    gens>>

Moved(o) == Fence(o)' # Fence(o)

(* A higher number for whatever is replaced. *)
Monotonic ==
  /\ pol' # pol => pol'.generation > pol.generation
  /\ \A k \in GenKinds : gens'[k] >= gens[k]

Issued(i) ==
  /\ i \in DOMAIN interventions'
  /\ i \notin DOMAIN interventions

Becomes(i, status) ==
  /\ interventions[i].status # status
  /\ interventions'[i].status = status

FInit == Init /\ disturbed = {} /\ stale_held = {}

FNext ==
  /\ Next
  /\ Monotonic
  /\ disturbed' = {i \in DOMAIN interventions :
                     i \in disturbed \/ Moved(interventions[i].objective)}
  /\ stale_held' = {o \in ObjectiveIds :
                      \/ Moved(o)
                      \/ o \in stale_held /\ held'[o] = held[o]}

FSpec == FInit /\ [][FNext]_fvars

-----------------------------------------------------------------------------
(* Pre-dispatch revalidation: no intervention is dispatched once the       *)
(* epoch, the policy, its objective or a runtime generation has moved      *)
(* since it was authorized (dispatch, current_authority, same).            *)
NoDispatchAcrossFences ==
  [][\A i \in DOMAIN interventions :
       Becomes(i, "DISPATCHED") => i \notin disturbed]_fvars

(* A stale intervention is rejected: none is authorized from an evaluation *)
(* that a fence has outlived (authorize).  An authorization by decide      *)
(* makes a new evaluation of its own.                                      *)
NoAuthorizationFromStaleEvaluation ==
  [][\A i \in DOMAIN interventions' :
       Issued(i) => interventions'[i].objective \notin stale_held']_fvars

(* Why both hold: a fence that moved shows in the context, for ever.  An   *)
(* authorized intervention that was disturbed, and a held context that is  *)
(* stale, differ from the current context of an active objective.          *)
ContextRemembers ==
  /\ \A i \in disturbed :
       LET o == interventions[i].objective
       IN Active(o) => interventions[i].authority # CurrentAuthority(o)
  /\ \A o \in stale_held : Active(o) => held[o] # CurrentAuthority(o)
=============================================================================
