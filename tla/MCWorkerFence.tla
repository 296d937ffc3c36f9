--------------------------- MODULE MCWorkerFence ---------------------------
(***************************************************************************)
(* A small instance of WorkerFence: one objective that one sample of one   *)
(* worker makes severe, and the incarnation that follows it.               *)
(***************************************************************************)
EXTENDS WorkerFence

Latest == [mode |-> "ROLLING_COUNT", duration |-> 0, fixed_count |-> 1,
           max_samples |-> 1]

Obj == [generation |-> 1, enabled |-> TRUE, cool_down |-> 0, target |-> 20,
        recovery |-> 18, required |-> 1, permille |-> 950, freshness |-> 0,
        scope |-> 0, window |-> Latest]

MCPolicies ==
  {[id |-> 1, generation |-> 1, objectives |-> [o \in {1} |-> Obj]]}

C == INSTANCE Catalog

MCFacts == {C!DefaultFacts}

MCEvents ==
  {[request |-> 1, class |-> 0, worker |-> 1, boot |-> 1, epoch |-> 1,
    authoritative |-> TRUE, latency |-> 45, phase_sum |-> 45, captured |-> 0]}
=============================================================================
