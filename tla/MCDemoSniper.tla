----------------------------- MODULE MCDemoSniper ----------------------------
(* Model values and symmetry for the runs of DemoSniper. *)
EXTENDS DemoSniper, TLC

CONSTANTS k1, k2

MCKeys   == {k1, k2}
MCOneKey == {k1}

\* Keys are never ordered.  Used only by the runs without liveness properties.
MCSymmetry == Permutations(MCKeys)
=============================================================================
