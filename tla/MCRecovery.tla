----------------------------- MODULE MCRecovery -----------------------------
(***************************************************************************)
(* Recovery with one policy, one epoch and one worker, so that nothing but *)
(* the age of the evidence comes between two verdicts.  The window keeps   *)
(* the latest sample only.                                                 *)
(***************************************************************************)
EXTENDS Recovery, MCEvidence

Latest == [Rolling EXCEPT !.max_samples = 1]

MCPolicy == {[o \in {1} |-> Obj(0, 1, Latest)]}
=============================================================================
