----------------------------- MODULE MCFencing -----------------------------
(***************************************************************************)
(* A small instance of Fencing: two objectives, one of which leaves the    *)
(* policy and comes back under a later policy generation with the same     *)
(* objective generation; an epoch change; two runtime generations.  The    *)
(* clock and the cooldown play no part in fencing and are switched off.    *)
(***************************************************************************)
EXTENDS Fencing

Obj(generation) ==
  [generation |-> generation, enabled |-> TRUE, cool_down |-> 0]

MCPolicies ==
  {[id |-> 1, generation |-> 1,
    objectives |-> [o \in {1, 2} |-> Obj(1)]],
   [id |-> 1, generation |-> 2, objectives |-> [o \in {1} |-> Obj(2)]],
   [id |-> 1, generation |-> 3, objectives |-> [o \in {1, 2} |-> Obj(1)]]}
=============================================================================
