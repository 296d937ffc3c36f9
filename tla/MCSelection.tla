---------------------------- MODULE MCSelection ----------------------------
(***************************************************************************)
(* A small instance of Selection: three objectives of which two have the   *)
(* same target and differ in priority, and one is a p50; windows without   *)
(* phases, with ties between phases, with a slow minority.                 *)
(* Apart from decisions, the ranks of every sample count up to MaxCount    *)
(* are looked at: count is 0 while a decision is.                          *)
(***************************************************************************)
EXTENDS Selection

CONSTANT MaxCount

ASSUME CountAssumption == MaxCount \in Nat

VARIABLE count

MCObjectives ==
  [o \in 1..3 |-> [target |-> 20, recovery |-> 18, required |-> 2,
                   permille |-> IF o = 3 THEN 500 ELSE 950,
                   priority |-> IF o = 1 THEN 0 ELSE 1, scoped |-> o = 2]]

Request(i, total, phases) ==
  [ord |-> i, latency |-> total, captured |-> 1, phases |-> phases]

In(p, d) == [phase |-> p, duration |-> d]

MCWindows ==
  {{},
   {Request(1, 10, <<>>), Request(2, 19, <<>>)},
   {Request(1, 10, <<In("QUEUE_WAIT", 9)>>),
    Request(2, 30, <<In("BATCH_WAIT", 15), In("EXECUTION", 15)>>)},
   {Request(1, 30, <<In("PREEMPTION_WAIT", 30)>>),
    Request(2, 30, <<In("TRANSFER", 10), In("EXECUTION", 20)>>),
    Request(3, 10, <<In("TRANSFER", 10)>>)},
   {Request(1, 19, <<In("PREEMPTION_WAIT", 12), In("STATE_FETCH", 4)>>),
    Request(2, 19, <<In("PREEMPTION_WAIT", 8), In("STATE_FETCH", 11)>>)},
   {Request(1, 50, <<In("TRANSFER", 10), In("QUEUE_WAIT", 10), In("EXECUTION", 10),
                     In("MODEL_LOAD", 10), In("PREEMPTION_WAIT", 10)>>),
    Request(2, 10, <<In("MODEL_LOAD", 10)>>)},
   {Request(1, 45, <<In("EXECUTION", 25), In("MODEL_LOAD", 20)>>),
    Request(2, 5, <<In("MODEL_LOAD", 5)>>)}}

MCFacts ==
  {DefaultFacts,
   [DefaultFacts EXCEPT !.target_compatible = FALSE, !.capacity_available = FALSE,
                        !.batch_above_min = FALSE],
   [DefaultFacts EXCEPT !.preemptible_work = FALSE, !.budget_batch_changes = 0]}

MCInit ==
  \/ Init /\ count = 0
  \/ /\ facts = DefaultFacts /\ todo = <<>> /\ evs = <<>> /\ bind = NoEvaluation
     /\ count \in 1..MaxCount

MCSpec == MCInit /\ [][Next /\ UNCHANGED count]_<<vars, count>>

(* The percentiles of one window never contradict each other: p50, p95,    *)
(* p99 and p99.9 have ranks that grow in this order, each at least the     *)
(* nearest rank and at most one above it, for every number of samples and  *)
(* although the ranks are computed in doubles (exact_quantile).            *)
RanksInOrder ==
  LET percentiles == <<500, 950, 990, 999>>
      rank(i) == Rank(percentiles[i], count)
  IN count > 0 =>
       /\ \A i, j \in 1..4 : i <= j => rank(i) <= rank(j)
       /\ \A i \in 1..4 :
            /\ rank(i) \in 1..count
            /\ 1000 * rank(i) >= percentiles[i] * count
            /\ 1000 * (rank(i) - 2) < percentiles[i] * count
=============================================================================
