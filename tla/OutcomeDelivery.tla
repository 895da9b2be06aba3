--------------------------- MODULE OutcomeDelivery --------------------------
(***************************************************************************)
(* What the API server promises about the outcomes of its trades: one that *)
(* is owed to the brain stays owed until it is delivered, over restarts,   *)
(* failed writes and lost answers, and stays delivered.  Only an archive,  *)
(* taken of outcomes that were owed, may end what it takes.                *)
(***************************************************************************)
CONSTANT Outcomes

VARIABLES owed, delivered, archived

Init == owed = {} /\ delivered = {} /\ archived = {}

\* Some outcomes become owed, some that are owed by then are delivered.
Moves(new, handed) ==
  /\ owed' = owed \cup new
  /\ handed \subseteq owed'
  /\ delivered' = delivered \cup handed
  /\ UNCHANGED archived

\* Those of S are archived, and of them those in `ended' are owed no longer.
Archives(S, ended) ==
  /\ S \subseteq owed /\ archived' = archived \cup S
  /\ ended \subseteq S \ delivered /\ owed' = owed \ ended
  /\ UNCHANGED delivered

Next == \E S, T \in SUBSET Outcomes : Moves(S, T) \/ Archives(S, T)

Spec == Init /\ [][Next]_<<owed, delivered, archived>>
=============================================================================
