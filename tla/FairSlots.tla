------------------------------ MODULE FairSlots ------------------------------
(***************************************************************************)
(* What the job supervisor promises the work it admits: at most so many at *)
(* a time, first come first served.  A slot that is given back goes to the *)
(* one who has waited longest, nobody overtakes the line, and no slot      *)
(* stays idle while somebody waits.                                        *)
(***************************************************************************)
EXTENDS Integers, FiniteSets

CONSTANTS Procs, Slots

VARIABLES
  line,    \* those who wait
  ahead,   \* <<p, q>> when p came to the line before q
  handed,  \* those who were handed a slot and have not heard of it yet
  working  \* those who use a slot

Init == line = {} /\ ahead = {} /\ handed = {} /\ working = {}

WithinSlots == Cardinality(handed \cup working) <= Slots
NoSlotIdle  == line # {} => handed # {} \/ Cardinality(working) = Slots

\* Of those left in line the first few, nobody else, are handed slots.
HandsOut(left, kept) ==
  \E first \in SUBSET left :
    /\ \A p \in first, q \in left \ first : <<p, q>> \in ahead
    /\ line' = left \ first
    /\ ahead' = ahead \cap (line' \X line')
    /\ handed' = kept \cup first

Walks(p) ==
  /\ line = {} /\ handed = {} /\ p \notin working
  /\ working' = working \cup {p}
  /\ UNCHANGED <<line, ahead, handed>>

Joins(p) ==
  /\ p \notin line \cup handed \cup working
  /\ line' = line \cup {p} /\ ahead' = ahead \cup (line \X {p})
  /\ UNCHANGED <<handed, working>>

Starts(p) ==
  /\ p \in handed
  /\ working' = working \cup {p}
  /\ HandsOut(line, handed \ {p})

GivesUp(p) ==
  /\ p \in line \cup handed
  /\ working' = working
  /\ HandsOut(line \ {p}, handed \ {p})

Ends(p) ==
  /\ p \in working
  /\ working' = working \ {p}
  /\ HandsOut(line, handed)

Next ==
  /\ \E p \in Procs : Walks(p) \/ Joins(p) \/ Starts(p) \/ GivesUp(p) \/ Ends(p)
  /\ WithinSlots' /\ NoSlotIdle'

Spec == Init /\ [][Next]_<<line, ahead, handed, working>>
=============================================================================
