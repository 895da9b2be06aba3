----------------------------- MODULE TradeLedger ----------------------------
(***************************************************************************)
(* What the demo trade store promises its callers about what a restart     *)
(* will find: a trade whose persist returned is open on disk, stays so     *)
(* until somebody asks to close it, and is never open on disk again once   *)
(* its close has returned.  The promise has one hole: a rewrite that was   *)
(* cut short may be taken for a complete one, and what it had not written  *)
(* yet is then gone.                                                       *)
(***************************************************************************)
VARIABLES
  open,    \* trades a restart loads as open
  saved,   \* trades whose persist has returned
  asked,   \* trades that somebody asked to close
  done,    \* trades whose close has returned
  half     \* what a rewrite that was cut short has not written

Init == open = {} /\ saved = {} /\ asked = {} /\ done = {} /\ half = {}

Asks == asked \subseteq asked' /\ UNCHANGED <<open, saved, done, half>>

\* The open trades are rewritten; the persist of some of them may return.
Rewrites ==
  /\ open' \cap done = {} /\ open \ asked \subseteq open'
  /\ saved \subseteq saved' /\ saved' \ saved \subseteq open'
  /\ half' = {}
  /\ UNCHANGED <<asked, done>>

\* A rewrite is cut short: nothing that a restart loads has changed yet.
Breaks == UNCHANGED <<open, saved, asked, done>>

\* A restart takes what was written of it for the whole.
Salvages ==
  /\ half # {} /\ half' = {}
  /\ open' \cap done = {} /\ open \ asked \subseteq open' \cup half
  /\ UNCHANGED <<saved, asked, done>>

\* A close returns.
Answers ==
  /\ done \subseteq done' /\ done' \ done \subseteq asked \ open
  /\ UNCHANGED <<open, saved, asked, half>>

Next == Asks \/ Rewrites \/ Breaks \/ Salvages \/ Answers

Spec == Init /\ [][Next]_<<open, saved, asked, done, half>>
=============================================================================
