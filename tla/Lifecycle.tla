----------------------------- MODULE Lifecycle -----------------------------
(***************************************************************************)
(* What the governor promises about the interventions it issues, whatever  *)
(* its policy, its generations and its clock do.  Every identity is issued *)
(* once, in increasing order.  An intervention is dispatched at most once  *)
(* and acknowledged at most once, in that order; it may end at any moment, *)
(* and when it has ended nothing moves it again.  Once the governor is     *)
(* closed it issues and dispatches nothing: what is left can only be       *)
(* acknowledged or end.                                                    *)
(*                                                                         *)
(* Interventions implements this specification (Interventions!Implements). *)
(***************************************************************************)
EXTENDS Naturals

VARIABLES
  stage,    \* the stage of every intervention issued, by identity
  closed    \* the governor is shutting down

lvars == <<stage, closed>>

Stages == {"authorized", "dispatched", "acknowledged", "ended"}

LTypeOK ==
  /\ DOMAIN stage \subseteq Nat
  /\ stage \in [DOMAIN stage -> Stages]
  /\ closed \in BOOLEAN

LInit ==
  /\ DOMAIN stage = {}
  /\ closed = FALSE

Issue(i) ==
  /\ ~closed
  /\ \A j \in DOMAIN stage : j < i
  /\ stage' = [j \in DOMAIN stage \cup {i} |->
                 IF j = i THEN "authorized" ELSE stage[j]]
  /\ UNCHANGED closed

Advance(i, from, to) ==
  /\ stage[i] = from
  /\ stage' = [stage EXCEPT ![i] = to]
  /\ UNCHANGED closed

Start(i) == ~closed /\ Advance(i, "authorized", "dispatched")

Accept(i) == Advance(i, "dispatched", "acknowledged")

End(i) == \E from \in Stages \ {"ended"} : Advance(i, from, "ended")

Close == closed' = TRUE /\ UNCHANGED stage

LNext ==
  \/ \E i \in DOMAIN stage' \ DOMAIN stage : Issue(i)
  \/ \E i \in DOMAIN stage : Start(i) \/ Accept(i) \/ End(i)
  \/ Close

LSpec == LInit /\ [][LNext]_lvars
=============================================================================
