--------------------------- MODULE MCPersistence ---------------------------
(***************************************************************************)
(* A small instance of Persistence.  One objective that is severe or       *)
(* healthy on one sample, one worker with two incarnations, two            *)
(* interventions; load accepts one, so that a file can be loaded in full   *)
(* or up to its interventions.                                             *)
(***************************************************************************)
EXTENDS Persistence

Latest == [mode |-> "ROLLING_COUNT", duration |-> 0, fixed_count |-> 1,
           max_samples |-> 1]

Obj == [generation |-> 1, enabled |-> TRUE, cool_down |-> 0, target |-> 20,
        recovery |-> 18, required |-> 1, permille |-> 950, freshness |-> 0,
        scope |-> 0, window |-> Latest]

MCPolicies ==
  {[id |-> 1, generation |-> 1, objectives |-> [o \in {1} |-> Obj]]}

C == INSTANCE Catalog

MCFacts == {C!DefaultFacts}

MCEvents ==
  {[request |-> 1, class |-> 0, worker |-> 1, boot |-> b, epoch |-> e,
    authoritative |-> TRUE, latency |-> 45, phase_sum |-> 45,
    captured |-> 0] : b \in {1}, e \in 1..2}

(* Bounds of the exploration: only the first intervention is followed, and *)
(* its outcome is EFFECTIVE (the other ends are the business of            *)
(* MCInterventions).                                                       *)
Bounded ==
  /\ \A i \in DOMAIN interventions' \ {1} : interventions'[i].status = "AUTHORIZED"
  /\ \A i \in DOMAIN outcomes' : outcomes'[i] = "EFFECTIVE"

MCSpec == PInit /\ [][PNext /\ Bounded]_pvars
=============================================================================
