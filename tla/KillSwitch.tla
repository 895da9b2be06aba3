----------------------------- MODULE KillSwitch -----------------------------
(***************************************************************************)
(* The kill switch of the live routes                                      *)
(* (artifacts/api-server/src/lib/killSwitch.ts): a state machine that runs *)
(* when somebody evaluates it, with the two timers that it reads.  Its     *)
(* triggers count as the worst of them: "hard", "soft", "caution", or      *)
(* "clear".  Everything is in memory.                                      *)
(***************************************************************************)

KillStates == {"RUNNING", "CAUTION", "SOFT_PAUSE", "HARD_PAUSE", "RECOVERY", "RESUME"}
Severities == {"hard", "soft", "caution", "clear"}
Pauses     == {"SOFT_PAUSE", "HARD_PAUSE"}   \* buildDecision: entryAllowed is false

VARIABLES
  kill,       \* currentState
  cooled,     \* now - stateSince has reached the cooldown of the pause
  ripe,       \* now - recoveryStartedAt has reached RECOVERY_MIN_MS
  probation   \* history: the whole recovery that a pause makes "due", then
              \* "served"; "forgotten" if a restart came first

killVars == <<kill, cooled, ripe, probation>>

KillTypes == /\ kill \in KillStates
             /\ cooled \in BOOLEAN /\ ripe \in BOOLEAN
             /\ probation \in {"due", "served", "forgotten"}

KillInit == kill = "RUNNING" /\ cooled = FALSE /\ ripe = FALSE /\ probation = "served"

\* Mutant: what has cooled down runs at full size at once.
VerdictSkipsRecovery(s) ==
  IF s = "hard" THEN "HARD_PAUSE"
  ELSE IF s = "soft" THEN "SOFT_PAUSE"
  ELSE IF kill \in Pauses /\ cooled THEN "RUNNING" ELSE kill

\* The state after an evaluation whose worst trigger is s.
Verdict(s) ==
  CASE s = "hard" -> "HARD_PAUSE"
    [] s = "soft" -> IF kill = "HARD_PAUSE" /\ ~cooled THEN kill ELSE "SOFT_PAUSE"
    [] OTHER ->
       CASE kill \in Pauses   -> IF cooled THEN "RECOVERY" ELSE kill
         [] kill = "RECOVERY" -> IF s = "clear" /\ ripe THEN "RESUME" ELSE kill
         [] kill = "RESUME"   -> "RUNNING"
         [] kill = "RUNNING"  -> IF s = "caution" THEN "CAUTION" ELSE kill
         [] kill = "CAUTION"  -> IF s = "clear" THEN "RUNNING" ELSE kill

pushTransition(to) ==
  IF to = kill THEN UNCHANGED killVars
  ELSE /\ kill' = to /\ cooled' = FALSE
       /\ ripe' = IF to \in {"RECOVERY", "RUNNING", "RESUME"} THEN FALSE ELSE ripe
       /\ probation' = IF to \in Pauses THEN "due" ELSE probation

Cools  == /\ kill \in Pauses /\ ~cooled /\ cooled' = TRUE
          /\ UNCHANGED <<kill, ripe, probation>>
Ripens == /\ kill = "RECOVERY" /\ ~ripe /\ ripe' = TRUE /\ probation' = "served"
          /\ UNCHANGED <<kill, cooled>>

\* A new process: a pause or recovery under way is gone.
SwitchForgets ==
  /\ kill' = "RUNNING" /\ cooled' = FALSE /\ ripe' = FALSE
  /\ probation' = IF probation = "due" THEN "forgotten" ELSE probation
=============================================================================
