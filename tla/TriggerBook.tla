----------------------------- MODULE TriggerBook ----------------------------
(***************************************************************************)
(* The book of armed LIMIT orders                                          *)
(* (artifacts/api-server/src/lib/exhaustionTriggerManager.ts), with the    *)
(* fill detectors and the collective cancel of routes/bot.ts and           *)
(* lib/gridTriggerManager.ts.  An order has one trigger, named by it.  A   *)
(* cancel request is sent without anybody waiting for its end, and what    *)
(* becomes of it is ignored.  All of the book is in memory.                *)
(***************************************************************************)
EXTENDS LiveExchange

Statuses == {"none", "PENDING", "CANCELLED", "PRESUMED_FILLED", "EXPIRED"}

VARIABLES
  trigger,      \* order -> status
  checking,     \* timers that wait for checkPartialFillFn
  cancelling,   \* cancel requests under way
  sweep,        \* orders a grid's collective timer will cancel
  polled,       \* triggers a fill detector marks
  uncancelled   \* history: orders with a cancel request that failed

bookVars == <<trigger, checking, cancelling, sweep, polled, uncancelled>>

BookTypes ==
  /\ trigger \in [Orders -> Statuses]
  /\ {checking, cancelling, sweep, polled, uncancelled} \subseteq SUBSET taken

BookInit ==
  /\ trigger = [o \in Orders |-> "none"]
  /\ checking = {} /\ cancelling = {} /\ sweep = {} /\ polled = {} /\ uncancelled = {}

Armed == {o \in Orders : trigger[o] = "PENDING"}

\* Each order of S, pending before, gets status s.
Marked(S, s) == [o \in Orders |-> IF o \in S THEN s ELSE trigger[o]]

\* cancelSectorCascade: the pending triggers that order o, if it has a cluster,
\* cancels.
\* Mutant: those of other keys, wherever they belong, but none of the cluster.
RivalsElsewhere(o) == {p \in Armed : Key(p) # Key(o) /\ Sector(p) # Sector(o)}
Rivals(o) ==
  {p \in Armed : Key(p) # Key(o) /\ Sector(p) = Sector(o) /\ Sector(o) # NoSector}

\* A single LIMIT order has been acknowledged: cascade, arm, detect its fill.
LimitArms(o) ==
  /\ trigger' = [Marked(Rivals(o), "CANCELLED") EXCEPT ![o] = "PENDING"]
  /\ cancelling' = cancelling \cup Rivals(o)
  /\ polled' = polled \cup {o}
  /\ UNCHANGED <<checking, sweep, uncancelled>>

\* A grid cascades before its levels are sent and arms those acknowledged once
\* all are answered; its detector marks the first of them.  Order o is one of
\* its levels, whose key and cluster are the grid's.
GridCascades(o) ==
  /\ trigger' = Marked(Rivals(o), "CANCELLED")
  /\ cancelling' = cancelling \cup Rivals(o)
  /\ UNCHANGED <<checking, sweep, polled, uncancelled>>

GridArms(S) ==
  /\ trigger' = Marked(S, "PENDING")
  /\ sweep' = sweep \cup S
  /\ IF S = {} THEN UNCHANGED polled ELSE \E o \in S : polled' = polled \cup {o}
  /\ UNCHANGED <<checking, cancelling, uncancelled>>

\* The timer of armLimitOrderExpiry, which asks how much has been executed ...
TimerFires(o) ==
  /\ o \in Armed \ checking /\ checking' = checking \cup {o}
  /\ UNCHANGED <<trigger, cancelling, sweep, polled, uncancelled>>

\* Mutant: somebody else ended the trigger meanwhile, or it filled in part.
ExpiresSilently(o) ==
  /\ o \in checking /\ checking' = checking \ {o}
  /\ trigger' = Marked({o}, "EXPIRED")
  /\ cancelling' = IF trigger[o] = "PENDING" /\ o \notin holds THEN cancelling \cup {o}
                                                               ELSE cancelling
  /\ UNCHANGED <<sweep, polled, uncancelled>>

\* ... and whatever the answer, and whatever the status by now, expires the
\* trigger and cancels what is left.
Expires(o) ==
  /\ o \in checking /\ checking' = checking \ {o}
  /\ trigger' = Marked({o}, "EXPIRED")
  /\ cancelling' = cancelling \cup {o}
  /\ UNCHANGED <<sweep, polled, uncancelled>>

Sweeps(o) ==
  /\ o \in sweep /\ sweep' = sweep \ {o}
  /\ cancelling' = cancelling \cup {o}
  /\ UNCHANGED <<trigger, checking, polled, uncancelled>>

\* markTriggerFilled and activateMuxLock: a detector finds a position of the
\* key, its own order's or another's, and every other trigger is cancelled.
MarksFilled(o) ==
  /\ o \in polled \cap Armed /\ Held(Key(o))
  /\ trigger' = [Marked(Armed, "CANCELLED") EXCEPT ![o] = "PRESUMED_FILLED"]
  /\ cancelling' = cancelling \cup (Armed \ {o})
  /\ UNCHANGED <<checking, sweep, polled, uncancelled>>

CancelEnds(o, landed) ==
  /\ o \in cancelling /\ cancelling' = cancelling \ {o}
  /\ uncancelled' = IF landed THEN uncancelled ELSE uncancelled \cup {o}
  /\ UNCHANGED <<trigger, checking, sweep, polled>>

BookForgets ==
  /\ trigger' = [o \in Orders |-> "none"]
  /\ checking' = {} /\ cancelling' = {} /\ sweep' = {} /\ polled' = {}
  /\ UNCHANGED uncancelled
=============================================================================
