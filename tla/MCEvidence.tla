----------------------------- MODULE MCEvidence -----------------------------
(***************************************************************************)
(* A small instance of Evidence: one worker with two incarnations, three   *)
(* requests of two classes, of which some report again with another        *)
(* latency or capture time and one comes from the first incarnation.  The  *)
(* policies differ in the scope, in the number of samples required and in  *)
(* the kind of window; one disables the objective, one has none.  A        *)
(* latency of 10 is healthy, 19 at risk, 45 severe.                        *)
(***************************************************************************)
EXTENDS Evidence

Rolling == [mode |-> "ROLLING_TIME", duration |-> 3, fixed_count |-> 0,
            max_samples |-> 2]
Recent == [mode |-> "FIXED_RECENT", duration |-> 3, fixed_count |-> 2,
           max_samples |-> 0]

Obj(scope, required, window) ==
  [enabled |-> TRUE, target |-> 20, recovery |-> 18, required |-> required,
   permille |-> 950, freshness |-> 1, scope |-> scope, window |-> window]

MCPolicies ==
  {[o \in {1} |-> Obj(0, 1, Rolling)],
   [o \in {1} |-> Obj(7, 2, Recent)],
   [o \in {1} |-> [Obj(0, 1, Rolling) EXCEPT !.enabled = FALSE]],
   [o \in {} |-> 0]}

Completion(request, class, latency, captured, e) ==
  [request |-> request, class |-> class, worker |-> 1, boot |-> 2,
   epoch |-> e, authoritative |-> TRUE, latency |-> latency,
   phase_sum |-> latency, captured |-> captured]

MCEvents ==
  {Completion(1, 0, latency, captured, e) :
     latency \in {10, 45}, captured \in {1, 3}, e \in 1..2}
  \cup {Completion(2, 7, latency, 1, e) : latency \in {10, 19}, e \in 1..2}
  \cup {[Completion(3, 7, 45, 1, 1) EXCEPT !.boot = 1],
        [Completion(3, 7, 10, 0, 2) EXCEPT !.boot = 1]}
=============================================================================
