----------------------------- MODULE LiveTrading ----------------------------
(***************************************************************************)
(* Live trading: executeSingleOrder and the grid path of                   *)
(* artifacts/api-server/src/routes/bot.ts with the execution claims of     *)
(* lib/marketDataQuality.ts, composed with the kill switch that admits     *)
(* entries, the book of triggers that cancels them, the watcher that       *)
(* records them and the outbox that reports them.  One process of node:    *)
(* an action is what happens between two awaits, each component changes    *)
(* its own variables and this module says which actions share a step.      *)
(*                                                                         *)
(* Scores, sizes, readiness, capital and the brain's verdict only decide   *)
(* whether an entry is given up, which may always happen.                  *)
(***************************************************************************)
EXTENDS KillSwitch, TriggerBook, LiveWatcher, OutcomeOutbox

\* What may still happen in a run: crashes, failed requests or writes, changes
\* of the kill switch's state, closed positions, polls and, among them, polls
\* that give up an entry; orders admitted, among them orders that rest, and of
\* those orders with a cluster; rotations of the telemetry file.
CONSTANT Budgets
Bounded == {"crashes", "failures", "verdicts", "closes", "polls", "stale", "orders", "resting",
            "clustered", "rotations"}

ASSUME LiveConstants ==
  /\ Outcomes = Orders /\ IsFiniteSet(Orders)
  /\ Budgets \subseteq [Bounded -> Nat]

VARIABLES
  at,          \* order -> where executeSingleOrder is with it
  grids,       \* calls of processGridTrigger under way, each a set of orders
  claims,      \* executionClaims
  claimFile,   \* its file
  lastClose,   \* lastClosedAt: "never", "recent", or "late", too long ago
  budget,
  \* history
  slipped,     \* claims the file was not written with
  mislaid,     \* accepted orders that no answer named, or whose registration or
               \* dead letter was not written
  adrift,      \* orders unanswered when the process crashed
  orphaned,    \* resting orders at a crash
  behind       \* outcomes at a crash that neither file had

orderVars   == <<at, grids>>
claimVars   == <<claims, claimFile, slipped>>
crashVars   == <<adrift, orphaned, behind>>
vars == <<exchangeVars, killVars, bookVars, watchVars, outboxVars, orderVars,
          claimVars, lastClose, budget, mislaid, crashVars>>

\* accepted, refused, unreached: sent, the answer under way.
Places == {"idle", "gated", "accepted", "refused", "unreached", "done"}
Claim(o) == <<Key(o), item[o].event>>

TypeOK ==
  /\ ExchangeTypes /\ KillTypes /\ BookTypes /\ WatchTypes /\ OutboxTypes
  /\ at \in [Orders -> Places] /\ grids \subseteq SUBSET Orders
  /\ {claims, claimFile, slipped} \subseteq SUBSET (Keys \X Events)
  /\ lastClose \in {"never", "recent", "late"}
  /\ budget \in [Bounded -> Nat]
  /\ {mislaid, adrift, orphaned, behind} \subseteq SUBSET Orders

Init ==
  /\ ExchangeInit /\ KillInit /\ BookInit /\ WatchInit /\ OutboxInit
  /\ at = [o \in Orders |-> "idle"] /\ grids = {}
  /\ claims = {} /\ claimFile = {} /\ slipped = {}
  /\ lastClose = "never" /\ budget \in Budgets
  /\ Cardinality({o \in Orders : Kind(o) # "market"}) <= budget.resting
  /\ Cardinality({o \in Orders : Sector(o) # NoSector}) <= budget.clustered
  /\ mislaid = {} /\ adrift = {} /\ orphaned = {} /\ behind = {}

Spends(what) == budget[what] > 0 /\ budget' = [budget EXCEPT ![what] = @ - 1]
\* Something that works, or fails within the budget.
Works(ok) == IF ok THEN UNCHANGED budget ELSE Spends("failures")

Moved(S, place) == [o \in Orders |-> IF o \in S THEN place ELSE at[o]]

-----------------------------------------------------------------------------
(* Entries. *)

\* evaluateLiveKillSwitch, for an order or for the status route.  A last close
\* too long ago (exit_monitor_delay) is a hard trigger whatever is open.
\* Mutant: the delay is not evaluated.
EvaluatesBlind(s) ==
  /\ pushTransition(Verdict(s))
  /\ IF Verdict(s) = kill THEN UNCHANGED budget ELSE Spends("verdicts")
Evaluates(s) ==
  /\ lastClose = "late" => s = "hard"
  /\ pushTransition(Verdict(s))
  /\ IF Verdict(s) = kill THEN UNCHANGED budget ELSE Spends("verdicts")

Evaluated ==
  /\ \E s \in Severities : Evaluates(s)
  /\ UNCHANGED <<exchangeVars, bookVars, watchVars, outboxVars, orderVars,
                 claimVars, lastClose, mislaid, crashVars>>

\* The kill switch admits the orders S.  POST /bot/sniper/mass-entry/arm, which
\* only sends grids, does not ask it.
Admits(S, s) ==
  \/ Evaluates(s) /\ kill' \notin Pauses
  \/ (\A o \in S : Kind(o) = "grid") /\ UNCHANGED <<killVars, budget>>

\* An order, or all levels of a grid, is admitted.
Gate(S, s) ==
  /\ \A o \in S : at[o] = "idle"
  /\ \/ Cardinality(S) = 1
     \/ S # {} /\ \E k \in Keys, c \in Sectors \cup {NoSector} :
                    \A o \in S : Kind(o) = "grid" /\ Key(o) = k /\ Sector(o) = c
  /\ Cardinality(S \cup {o \in Orders : at[o] # "idle"}) <= budget.orders
  /\ Admits(S, s)
  /\ at' = Moved(S, "gated")
  /\ grids' = IF \E o \in S : Kind(o) = "grid" THEN grids \cup {S} ELSE grids
  /\ UNCHANGED <<exchangeVars, bookVars, watchVars, outboxVars, claimVars,
                 lastClose, mislaid, crashVars>>

\* A later gate, a missing quantity or a claim already taken ends the attempt.
GivesUp(o) ==
  /\ at[o] = "gated" /\ Kind(o) # "grid"
  /\ at' = Moved({o}, "idle")
  /\ UNCHANGED <<exchangeVars, killVars, bookVars, watchVars, outboxVars, grids,
                 claimVars, lastClose, budget, mislaid, crashVars>>

\* claimMarketEventExecution and releaseMarketEventExecution, whose file writes
\* may fail.
Claims(c, ok) ==
  /\ c \notin claims /\ claims' = claims \cup {c}
  /\ IF ok THEN claimFile' = claims' /\ UNCHANGED slipped
           ELSE slipped' = slipped \cup {c} /\ UNCHANGED claimFile
Releases(c, ok) ==
  /\ claims' = claims \ {c}
  /\ claimFile' = IF ok THEN claims' ELSE claimFile
  /\ UNCHANGED slipped

\* The spread and tick-density rejections come after the claim and keep it.
Barred(o, ok) ==
  /\ at[o] = "gated" /\ Kind(o) # "grid"
  /\ Claims(Claim(o), ok) /\ Works(ok)
  /\ at' = Moved({o}, "done")
  /\ UNCHANGED <<exchangeVars, killVars, bookVars, watchVars, outboxVars, grids,
                 lastClose, mislaid, crashVars>>

\* The order is claimed and sent; the exchange accepts it, refuses it, or is
\* never reached.
Sends(o, fate, ok) ==
  /\ at[o] = "gated" /\ Kind(o) # "grid"
  /\ Claims(Claim(o), ok)
  /\ Works(ok /\ fate # "unreached")
  /\ at' = Moved({o}, fate)
  /\ IF fate = "accepted" THEN Accepts({o}) ELSE UNCHANGED exchangeVars
  /\ UNCHANGED <<killVars, bookVars, watchVars, outboxVars, grids, lastClose,
                 mislaid, crashVars>>

\* The acknowledgement: registered with the watcher, and armed if it rests.
\* Mutant: an answer that refuses the order is taken for one.
AcknowledgedAnyway(o, ok) ==
  /\ at[o] \in {"accepted", "refused"} /\ Kind(o) # "grid"
  /\ at' = Moved({o}, "done")
  /\ Registers({o}, ok) /\ Works(ok)
  /\ mislaid' = IF ok THEN mislaid ELSE mislaid \cup {o}
  /\ IF Kind(o) = "limit" THEN LimitArms(o) ELSE UNCHANGED bookVars
  /\ UNCHANGED <<exchangeVars, killVars, outboxVars, grids, claimVars, lastClose,
                 crashVars>>
Acknowledged(o, ok) ==
  /\ at[o] = "accepted" /\ Kind(o) # "grid"
  /\ at' = Moved({o}, "done")
  /\ Registers({o}, ok) /\ Works(ok)
  /\ mislaid' = IF ok THEN mislaid ELSE mislaid \cup {o}
  /\ IF Kind(o) = "limit" THEN LimitArms(o) ELSE UNCHANGED bookVars
  /\ UNCHANGED <<exchangeVars, killVars, outboxVars, grids, claimVars, lastClose,
                 crashVars>>

\* An answer without an orderId, or an exception: the claim stays.
\* Mutant: the claim is released, so that the order may be sent again.
AmbiguousReleases(o) ==
  /\ at[o] = "accepted" /\ Kind(o) # "grid"
  /\ at' = Moved({o}, "done") /\ mislaid' = mislaid \cup {o}
  /\ Spends("failures") /\ Releases(Claim(o), TRUE)
  /\ UNCHANGED <<exchangeVars, killVars, bookVars, watchVars, outboxVars, grids,
                 lastClose, crashVars>>
Ambiguous(o) ==
  /\ at[o] = "accepted" /\ Kind(o) # "grid"
  /\ at' = Moved({o}, "done") /\ mislaid' = mislaid \cup {o}
  /\ Spends("failures")
  /\ UNCHANGED <<exchangeVars, killVars, bookVars, watchVars, outboxVars, grids,
                 claimVars, lastClose, crashVars>>

\* A refusal releases the claim, an exception before the exchange does not.
Declined(o, ok) ==
  /\ at[o] \in {"refused", "unreached"} /\ Kind(o) # "grid"
  /\ at' = Moved({o}, "done")
  /\ IF at[o] = "refused" THEN Releases(Claim(o), ok) /\ Works(ok)
                          ELSE ok /\ UNCHANGED <<claimVars, budget>>
  /\ UNCHANGED <<exchangeVars, killVars, bookVars, watchVars, outboxVars, grids,
                 lastClose, mislaid, crashVars>>

\* processGridTrigger: the cluster is cancelled, all levels are sent at once,
\* without a claim.  bingxPost sends a level again if it got no answer: its
\* first order, one of `again', may have been accepted too ...
GridSends(G, A, again, ok) ==
  /\ G \in grids /\ \A o \in G : at[o] = "gated"
  /\ A \subseteq G /\ Works(ok)
  /\ ok => again = {}
  /\ Cardinality(again) <= Cardinality(A)
  /\ \A o \in again : /\ at[o] = "idle" /\ Kind(o) = "grid"
                       /\ \E p \in G : Key(p) = Key(o)
  /\ at' = [o \in Orders |-> IF o \in A THEN "accepted"
                             ELSE IF o \in G THEN IF ok THEN "refused" ELSE "unreached"
                             ELSE IF o \in again THEN "done" ELSE at[o]]
  /\ \E o \in G : GridCascades(o)
  /\ RemembersCreds /\ Accepts(A \cup again) /\ mislaid' = mislaid \cup again
  /\ UNCHANGED <<killVars, outboxVars, grids, claimVars, lastClose, crashVars>>

\* ... and when all have been answered, those acknowledged are armed and
\* registered.  (executeSingleOrder then fails on an uninitialised variable.)
GridAnswered(G, lost, ok) ==
  /\ G \in grids /\ \A o \in G : at[o] # "gated"
  /\ grids' = grids \ {G} /\ at' = Moved(G, "done")
  /\ lost \subseteq {o \in G : at[o] = "accepted"}
  /\ Works(ok) /\ (ok => lost = {})
  /\ LET acked == {o \in G \ lost : at[o] = "accepted"}
     IN  /\ GridArms(acked)
         /\ Registers(acked, ok \/ lost # {})
         /\ mislaid' = mislaid \cup lost
                         \cup IF ok \/ lost # {} THEN {} ELSE acked
  /\ UNCHANGED <<exchangeVars, killVars, outboxVars, claimVars, lastClose, crashVars>>

-----------------------------------------------------------------------------
(* Triggers. *)

BookOnly == UNCHANGED <<exchangeVars, killVars, watchVars, outboxVars, orderVars,
                        claimVars, lastClose, mislaid, crashVars>>

TriggerTimer(o)  == (TimerFires(o) \/ Sweeps(o)) /\ BookOnly /\ UNCHANGED budget
TriggerExpires(o) == Expires(o) /\ BookOnly /\ UNCHANGED budget
FillDetected(o)  == MarksFilled(o) /\ BookOnly /\ UNCHANGED budget

Cancelled(o, ok) ==
  /\ CancelEnds(o, ok) /\ Works(ok)
  /\ IF ok THEN Unbooks(o) ELSE UNCHANGED exchangeVars
  /\ UNCHANGED <<killVars, watchVars, outboxVars, orderVars, claimVars, lastClose,
                 mislaid, crashVars>>

-----------------------------------------------------------------------------
(* The watcher and the outbox. *)

WatchOnly == UNCHANGED <<exchangeVars, killVars, bookVars, outboxVars, orderVars,
                         claimVars, crashVars>>

Polls(stale, written, ok) ==
  /\ PollStarts(stale, written, ok) /\ (stale = {} => ok)
  /\ budget.polls > 0 /\ (stale # {} => budget.stale > 0) /\ (ok \/ budget.failures > 0)
  /\ budget' = [budget EXCEPT !.polls = @ - 1, !.stale = IF stale = {} THEN @ ELSE @ - 1,
                              !.failures = IF ok THEN @ ELSE @ - 1]
  /\ mislaid' = IF written THEN mislaid ELSE mislaid \cup stale
  /\ WatchOnly /\ UNCHANGED lastClose

PositionsCome(error) ==
  /\ PositionsAnswered(error) /\ Works(~error)
  /\ WatchOnly /\ UNCHANGED <<lastClose, mislaid>>

PositionsLost == PositionsFail /\ WatchOnly /\ UNCHANGED <<lastClose, budget, mislaid>>

\* Each recorded entry goes to the telemetry and to the brain, under its id.
HistoryComes(k, R, id, ok) ==
  /\ Records(k, R, id, ok) /\ Works(ok) /\ (R = {} => ok)
  /\ IF R = {} THEN UNCHANGED <<outboxVars, lastClose>>
               ELSE Enqueues({id[o] : o \in R}) /\ lastClose' = "recent"
  /\ UNCHANGED <<exchangeVars, killVars, bookVars, orderVars, claimVars, mislaid,
                 crashVars>>

OutboxOnly == UNCHANGED <<exchangeVars, killVars, bookVars, watchVars, orderVars,
                          claimVars, lastClose, mislaid, crashVars>>

Reports ==
  /\ \E ok \in BOOLEAN :
       /\ \/ BufferFlushes(ok)
          \/ \E o \in waiting : SyncBegins(o, ok)
          \/ \E acked \in SUBSET posted : PostAnswered(acked, ok)
       /\ Works(ok)
  /\ OutboxOnly
Flushes == FlushBegins /\ OutboxOnly /\ UNCHANGED budget
Rotation == Rotates /\ OutboxOnly /\ Spends("rotations")
ReportFails == (\E arrived \in SUBSET posted : PostFails(arrived)) /\ Spends("failures") /\ OutboxOnly

-----------------------------------------------------------------------------
(* Exchange, time and crashes. *)

Market ==
  /\ \E o \in Orders : \/ Closes(o) /\ Spends("closes")
                       \/ \E whole \in BOOLEAN : Fills(o, whole) /\ UNCHANGED budget
  /\ UNCHANGED <<killVars, bookVars, watchVars, outboxVars, orderVars, claimVars,
                 lastClose, mislaid, crashVars>>

Time ==
  /\ \/ (Cools \/ Ripens) /\ UNCHANGED lastClose
     \/ budget.verdicts > 0 /\ lastClose = "recent" /\ lastClose' = "late" /\ UNCHANGED killVars
  /\ UNCHANGED <<exchangeVars, bookVars, watchVars, outboxVars, orderVars, claimVars,
                 budget, mislaid, crashVars>>

\* The process dies and starts again.
Crash ==
  /\ Spends("crashes")
  /\ adrift' = adrift \cup {o \in Orders : at[o] = "accepted"}
  /\ orphaned' = orphaned \cup rests
  /\ behind' = behind \cup ((waiting \cup pending) \ (outbox \cup stored))
  /\ at' = [o \in Orders |-> IF at[o] = "idle" THEN "idle" ELSE "done"] /\ grids' = {}
  /\ claims' = claimFile /\ UNCHANGED <<claimFile, slipped>>
  /\ SwitchForgets /\ BookForgets /\ WatcherReloads /\ OutboxReloads
  /\ lastClose' = "never"
  /\ UNCHANGED <<exchangeVars, mislaid>>

Next ==
  \/ Evaluated
  \/ \E S \in SUBSET Orders, s \in Severities : Gate(S, s)
  \/ \E o \in Orders : GivesUp(o) \/ Ambiguous(o)
  \/ \E o \in Orders, ok \in BOOLEAN :
       Barred(o, ok) \/ Acknowledged(o, ok) \/ Declined(o, ok) \/ Cancelled(o, ok)
  \/ \E o \in Orders, ok \in BOOLEAN, fate \in {"accepted", "refused", "unreached"} :
       Sends(o, fate, ok)
  \/ \E G \in grids, ok \in BOOLEAN : \E S \in SUBSET G :
       GridAnswered(G, S, ok) \/ \E again \in SUBSET Orders : GridSends(G, S, again, ok)
  \/ \E o \in Orders : TriggerTimer(o) \/ TriggerExpires(o) \/ FillDetected(o)
  \/ \E stale \in SUBSET tracked, written, ok \in BOOLEAN : Polls(stale, written, ok)
  \/ \E error \in BOOLEAN : PositionsCome(error)
  \/ PositionsLost
  \/ \E k \in flat, R \in SUBSET Orders, ok \in BOOLEAN :
       \E id \in [R -> Orders] : HistoryComes(k, R, id, ok)
  \/ Reports \/ Flushes \/ ReportFails \/ Rotation
  \/ Market \/ Time \/ Crash

Spec == Init /\ [][Next]_vars

-----------------------------------------------------------------------------
(* Properties. *)

\* What a pause demands before entries are larger than a quarter: no entry that
\* asks the kill switch, mass-entry grids do not, is admitted in a state that
\* allows more before a recovery has lasted RECOVERY_MIN_MS without a new pause,
\* or a restart has cleared the pause; however evaluations, new triggers, the
\* two timers and crashes interleave.  (A request that sets its own margin is
\* admitted in the same states, but the multiplier never reaches it.)
Asks(o) == Kind(o) # "grid" /\ at[o] = "idle" /\ at'[o] = "gated"
ProbationServed ==
  [][\A o \in Orders : Asks(o) => kill' = "RECOVERY" \/ (kill' \notin Pauses /\ probation' # "due")]_vars

\* Every order the exchange has accepted is awaited, tracked, recorded or dead-
\* lettered: only an unclear answer, a level sent twice, a registration or dead
\* letter that could not be written, or a crash before the answer loses one, and
\* each its own.
EntriesAccounted ==
  taken \subseteq tracked \cup recorded \cup dead \cup mislaid \cup adrift
                    \cup {o \in Orders : at[o] = "accepted"}

\* A market entry is recorded as closed only when its quantity is, however its
\* poll interleaves with new entries of the key, unless that poll took an error
\* answer for an empty account.  (A limit entry that has not filled may be
\* recorded with another order's exit: the watcher does not know it rests.)
SeenClosed ==
  \A o \in recorded \cap holds : Kind(o) = "market" => o \in misled

\* An order on the book always has something that will cancel it, unless the
\* process crashed, its cancel failed, its answer was unclear, or a position of
\* its key, be it another order's, made a detector believe it filled.
RestingOrdersGuarded ==
  \A o \in rests :
    \/ o \in Armed \cup checking \cup cancelling \cup sweep
    \/ at[o] = "accepted"
    \/ o \in orphaned \cup uncancelled \cup mislaid
    \/ trigger[o] = "PRESUMED_FILLED"

\* Two symbols of one cluster never wait for their fills at once, unless one of
\* them is a grid, which arms an answer later than it cascades.
ClusterExclusive ==
  \A o, p \in Armed :
    Key(o) # Key(p) /\ Sector(o) = Sector(p) /\ Sector(o) # NoSector
      => Kind(o) = "grid" \/ Kind(p) = "grid"

\* A candle is traded once per key outside of grids, over crashes, unclear
\* answers and refusals, unless the file was not written with its claim.
OneExecutionPerEvent ==
  \A o, p \in taken :
    o # p /\ Claim(o) = Claim(p) /\ "grid" \notin {Kind(o), Kind(p)}
      => Claim(o) \in slipped

\* Two entries' outcomes have got the same id, so that one has taken the other's
\* place or been dropped.
Confused(o) == \E p \in Orders \ {o} : named[o] \cap named[p] # {}

\* The outcome of a recorded trade is on its way to the brain or there: it is
\* lost only by a crash before either file has it, or after the telemetry file,
\* the only one to have it, was rotated; or by an id that is another entry's too.
\* The watcher never records it again.
OutcomesSurvive ==
  \A o \in recorded :
    \/ named[o] # {} /\ named[o] \subseteq waiting \cup pending \cup delivered \cup behind
    \/ Confused(o)

\* What either file holds is owed to the brain, until a rotation of the telemetry
\* file takes away what the outbox file does not hold.
Delivery == INSTANCE OutcomeDelivery
              WITH owed <- stored \cup outbox \cup delivered
Delivers == Delivery!Spec

\* Nothing left to watch two minutes after the last close: until the process
\* restarts no order is sent any more, whatever the operator or the market do,
\* but by the route that never asks the kill switch.
Stranded ==
  /\ lastClose = "late" /\ tracked = {} /\ entries = {}
  /\ \A o \in Orders : at[o] \in {"idle", "done"}
Unasked == \E o \in Orders : Kind(o) = "grid" /\ at[o] = "idle" /\ at'[o] = "gated"
LateExitStops ==
  [][Stranded => Stranded' \/ Unasked \/ budget'.crashes < budget.crashes]_vars
=============================================================================
