---------------------------- MODULE MCLiveTrading ---------------------------
(* Model values, symmetry and budgets for the run of LiveTrading. *)
EXTENDS LiveTrading, TLC

CONSTANTS o1, o2, k1, k2, e1, e2, majors

MCOrders == {o1, o2}
MCKeys   == {k1, k2}
MCEvents == {e1, e2}
MCSectors == {majors}

\* What may happen in a run is one of several small scenarios.
Budget(c, f, v, x, p, s, o, r, g, t) ==
  [crashes |-> c, failures |-> f, verdicts |-> v, closes |-> x, polls |-> p,
   stale |-> s, orders |-> o, resting |-> r,
   clustered |-> g, rotations |-> t]
Resting   == Budget(0, 1, 0, 0, 0, 0, 2, 2, 2, 0)   \* two orders on the book and a failure
Orphaning == Budget(1, 0, 0, 0, 0, 0, 2, 2, 2, 0)   \* ... or a crash
Mixed     == Budget(0, 0, 0, 1, 2, 0, 2, 1, 0, 0)   \* a resting and a market order, closed and polled
Reporting == Budget(1, 1, 0, 1, 2, 1, 1, 1, 0, 1)   \* one order of any kind to its outcome
Market2   == Budget(1, 1, 0, 2, 2, 0, 2, 0, 0, 0)   \* two market orders, recorded and crashed over
Pausing   == Budget(1, 0, 6, 1, 1, 0, 1, 0, 0, 0)   \* the kill switch through a whole recovery
Stranding == Budget(0, 0, 1, 1, 1, 0, 2, 1, 0, 0)   \* a second order, too long after the first
MCBudgets == {Resting, Orphaning, Mixed, Reporting, Market2, Pausing, Stranding}

MCSymmetry == Permutations(MCOrders) \cup Permutations(MCKeys) \cup Permutations(MCEvents)
=============================================================================
