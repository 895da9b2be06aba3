---------------------------- MODULE MCVstOrders -----------------------------
(* Budgets for the run of VstOrders. *)
EXTENDS VstOrders

\* Three calls and one fault; two calls, a lost answer, say, and a crash.
MCBudgets == {<<2, 2>>, <<3, 0>>}
=============================================================================
