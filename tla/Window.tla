------------------------------- MODULE Window -------------------------------
(***************************************************************************)
(* ObservationWindow and the exact quantile, as operators.                 *)
(*                                                                         *)
(* The vector of retained samples is the set of the samples, each with its *)
(* place in the order of insertion: a sample is a record with fields ord,  *)
(* latency and captured (and whatever else its user needs), and no two     *)
(* samples of a window have the same ord.  Erasing from the front of the   *)
(* vector is keeping the samples with the highest ord.                     *)
(*                                                                         *)
(* A window configuration is a record [mode, duration, fixed_count,        *)
(* max_samples].                                                           *)
(***************************************************************************)
EXTENDS Integers, FiniteSets, FiniteSetsExt

Modes == {"ROLLING_TIME", "ROLLING_COUNT", "TUMBLING", "FIXED_RECENT"}

WindowConfig ==
  [mode : Modes, duration : Nat, fixed_count : Nat, max_samples : Nat]

(* The n samples inserted last. *)
KeepLast(w, n) ==
  {s \in w : Cardinality({t \in w : t.ord > s.ord}) < n}

(* insert: append, then evict the oldest above a bound that is not 0. *)
Insert(cfg, w, s) ==
  IF cfg.max_samples > 0 THEN KeepLast(w \cup {s}, cfg.max_samples)
  ELSE w \cup {s}

NotBefore(w, cutoff) == {s \in w : s.captured >= cutoff}

(* C++ division truncates toward zero. *)
Quotient(a, b) == IF a >= 0 THEN a \div b ELSE -((-a) \div b)

(* prune: drop what the mode says is expired at time now. *)
Prune(cfg, w, now) ==
  CASE cfg.mode = "ROLLING_TIME" -> NotBefore(w, now - cfg.duration)
    [] cfg.mode = "FIXED_RECENT" ->
         KeepLast(NotBefore(w, now - cfg.duration), cfg.fixed_count)
    [] cfg.mode = "ROLLING_COUNT" -> KeepLast(w, cfg.fixed_count)
    [] cfg.mode = "TUMBLING" ->
         IF cfg.duration <= 0 THEN w
         ELSE NotBefore(w, Quotient(now, cfg.duration) * cfg.duration)

(* latest_captured_ns: 0 stands for an empty window. *)
LatestCaptured(w) == IF w = {} THEN 0 ELSE Max({s.captured : s \in w})

(* Mutated form: the fraction is cut off. *)
Rank_Floor(permille, n) ==
  LET r == (permille * n) \div 1000
  IN IF r < 1 THEN 1 ELSE IF r > n THEN n ELSE r

(* For p99.9 the double nearest to the fraction is 992/1000 units of 2^-53 *)
(* above 999/1000.  For n = 1000k the product of the two exceeds 999k by   *)
(* 992k units; it is rounded above 999k, not to it, when that is more than *)
(* half the distance of doubles there, which is 2^m units for              *)
(* 2^m <= 999k < 2^(m+1).  For p50, p95 and p99 the fraction is not above. *)
RoundsUp(permille, n) ==
  LET k == n \div 1000
  IN /\ permille = 999 /\ n % 1000 = 0
     /\ 992 * k > Max({2^m : m \in {j \in 0..30 : 2^j <= 999 * k}})

(* exact_quantile: the rank ceil(p/100 * N), clamped to [1, N], of one of  *)
(* these four percentiles in tenths of a percent, as doubles compute it.   *)
Rank(permille, n) ==
  LET r == (permille * n + 999) \div 1000 + IF RoundsUp(permille, n) THEN 1 ELSE 0
  IN IF r < 1 THEN 1 ELSE IF r > n THEN n ELSE r

(* The sample at a rank: the least latency that at least rank samples do   *)
(* not exceed.                                                             *)
Quantile(w, permille) ==
  Min({s.latency : s \in {t \in w :
         Cardinality({u \in w : u.latency <= t.latency})
           >= Rank(permille, Cardinality(w))}})
=============================================================================
