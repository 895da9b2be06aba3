--------------------------- MODULE MCJobSupervisor ---------------------------
(* Model values for the runs of JobSupervisor. *)
EXTENDS JobSupervisor

CONSTANTS c1, c2, c3, j1, j2, k1

MCCalls == {c1, c2, c3}
MCJobs  == {j1, j2}
MCLow   == {j2}
MCKeys  == {k1}
=============================================================================
