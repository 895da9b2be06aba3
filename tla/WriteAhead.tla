----------------------------- MODULE WriteAhead -----------------------------
(***************************************************************************)
(* What the journal of demo orders promises: an order is written before it *)
(* is sent, a name once written stays, the number the exchange gave it     *)
(* stays too, and only an order that was executed gets one.                *)
(*                                                                         *)
(* Exempt is what was overlooked, or is in memory only because a write has *)
(* failed; nothing that was written becomes exempt by a failed write.      *)
(***************************************************************************)
VARIABLES
  written,     \* orders the journal's file lists
  named,       \* those under the number of the exchange
  out,         \* orders sent, of which the exchange may execute one
  done,        \* orders it executed
  overlooked,  \* orders taken, or in the file, when the journal did not know its file
  unsaved      \* orders a failed write left out

Init ==
  /\ written = {} /\ named = {} /\ out = {} /\ done = {}
  /\ overlooked = {} /\ unsaved = {}

\* At most one order more is out, and that one may be.
Sends == \/ out' = out
         \/ \E i \in written' \cup overlooked \cup unsaved : out' = out \cup {i}

Send == out' # out /\ Sends /\ UNCHANGED <<written, named, done, overlooked, unsaved>>

\* The file is replaced; an order that waited for it may be sent.
Replace ==
  /\ written \subseteq written' \cup overlooked
  /\ named \subseteq named' \cup overlooked
  /\ named' \subseteq written' \cap done
  /\ unsaved' = unsaved \ written'
  /\ Sends
  /\ UNCHANGED <<done, overlooked>>

\* An order that is out comes to an end; or the exchange executes it, which
\* may leave another one of its name out.
End     == \E i \in out : out' = out \ {i} /\ UNCHANGED done
Execute == \E i \in out : done' = done \cup {i} /\ out' \in {out, out \ {i}}

Overlook  == overlooked \subseteq overlooked' /\ UNCHANGED unsaved
FailWrite == unsaved \subseteq unsaved' /\ unsaved' \cap written \subseteq unsaved
             /\ UNCHANGED overlooked

Next ==
  \/ Send \/ Replace
  \/ (End \/ Execute) /\ UNCHANGED <<written, named, overlooked, unsaved>>
  \/ (Overlook \/ FailWrite) /\ UNCHANGED <<written, named, out, done>>

Spec == Init /\ [][Next]_<<written, named, out, done, overlooked, unsaved>>
=============================================================================
