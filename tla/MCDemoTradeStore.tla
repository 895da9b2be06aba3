-------------------------- MODULE MCDemoTradeStore --------------------------
(* Model values and symmetry for the runs of DemoTradeStore. *)
EXTENDS DemoTradeStore, TLC

CONSTANTS o1, o2, k1, k2

MCOrders == {o1, o2}
MCKeys   == {k1, k2}
MCOneKey == {k1}

\* Neither orders nor keys are ever ordered or counted.  Used only by the runs
\* without liveness properties.
MCSymmetry == Permutations(MCOrders) \cup Permutations(MCKeys)
=============================================================================
