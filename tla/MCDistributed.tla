--------------------------- MODULE MCDistributed ---------------------------
(***************************************************************************)
(* The program itself, with reports of two completions instead of 200 and  *)
(* a window scaled with them; latencies are in milliseconds.               *)
(***************************************************************************)
EXTENDS Distributed

MCPolicy ==
  [o \in {1} |->
     [enabled |-> TRUE, target |-> 10, recovery |-> 9, required |-> 1,
      permille |-> 990, freshness |-> 30000, scope |-> 0,
      window |-> [mode |-> "ROLLING_COUNT", duration |-> 0,
                  fixed_count |-> 2, max_samples |-> 4]]]

MCPolicies == {MCPolicy}
=============================================================================
