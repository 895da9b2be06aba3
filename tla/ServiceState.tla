---------------------------- MODULE ServiceState ----------------------------
(***************************************************************************)
(* The health state machine of the demo trader                             *)
(* (artifacts/api-server/src/lib/serviceState.ts).  Its functions are      *)
(* synchronous, so each is one step; the trading cycle, the monitor, the   *)
(* manual order route and the health routes call them in any order.        *)
(* Losses are whole units; percentages are compared without rounding.      *)
(* The history of the last 50 states is for display and left out.          *)
(***************************************************************************)
EXTENDS Integers, FiniteSets

CONSTANTS
  QbDegraded, QbShadow,     \* QB_FAILURE_*_THRESHOLD
  ApiDegraded, ApiShadow,   \* API_ERROR_*_THRESHOLD
  LossDegraded, LossPause,  \* CONSECUTIVE_LOSS_*_THRESHOLD
  PctDegraded, PctPause,    \* ROLLING_LOSS_PCT_*
  UsdPause,                 \* ROLLING_LOSS_PAUSE_USD
  StaleAfter,               \* STALE_DATA_SHADOW_MS
  FailureWindow,            \* FAILURE_WINDOW_MS
  LossWindow,               \* ROLLING_LOSS_WINDOW_MS
  Pnls,                     \* results of lost campaigns
  Equities,                 \* account balances
  \* bounds of the model
  MaxTime, MaxRecorded, MaxLosses

ASSUME ServiceConstants ==
  /\ {QbDegraded, QbShadow, ApiDegraded, ApiShadow, LossDegraded, LossPause}
       \subseteq Nat \ {0}
  /\ {PctDegraded, PctPause, UsdPause} \subseteq {n \in Int : n < 0}
  /\ {StaleAfter, FailureWindow, LossWindow} \subseteq Nat
  /\ Pnls \subseteq {n \in Int : n <= 0}      \* the caller counts 0 as a loss
  /\ Equities \subseteq Nat \ {0}
  /\ {MaxTime, MaxRecorded, MaxLosses} \subseteq Nat

States == {"HEALTHY", "DEGRADED", "SHADOW_ONLY", "PAUSED"}
severity == [HEALTHY |-> 0, DEGRADED |-> 1, SHADOW_ONLY |-> 2, PAUSED |-> 3]

LossReasons == {"CONSECUTIVE_LOSSES", "ROLLING_NEGATIVE_EV"}
Reasons == LossReasons \cup {"QB_TIMEOUT", "QB_UNAVAILABLE", "API_ERROR",
                             "STALE_DATA", "EQUITY_LOSS_LIMIT", "MANUAL_PAUSE"}
NoReason == "null"
Modes == [state : States, reason : Reasons \cup {NoReason}]

\* A failure is its time and its number among those of the same millisecond.
Failures == Nat \X Nat

Never == -1     \* _lastBtcPriceAt before the first price
Unknown == 0    \* _vstEquity before the first balance; also falsy in the code

VARIABLES
  mode,         \* _state and _reason
  qbTimes,      \* _qbFailureTimes, whose length is _qbFailures
  apiTimes,     \* _apiErrorTimes, whose length is _apiErrors
  losses,       \* _consecutiveLosses
  lossPnl,      \* _rollingLossPnl
  windowStart,  \* _rollingWindowStart
  equity,       \* _vstEquity
  lossPct,      \* _rollingLossPct, as a fraction: its loss and what it is a part of
  lastPrice,    \* _lastBtcPriceAt
  now,
  operator      \* history: the last step was one of the health routes

failureVars == <<qbTimes, apiTimes>>
lossVars    == <<losses, lossPnl, windowStart, equity, lossPct>>
vars        == <<mode, failureVars, lossVars, lastPrice, now, operator>>

NoLoss == [pnl |-> 0, of |-> 1]

TypeOK ==
  /\ mode \in Modes
  /\ qbTimes \subseteq Failures /\ IsFiniteSet(qbTimes)
  /\ apiTimes \subseteq Failures /\ IsFiniteSet(apiTimes)
  /\ losses \in Nat /\ lossPnl \in Int /\ lossPnl <= 0
  /\ windowStart \in Nat
  /\ equity \in Equities \cup {Unknown}
  /\ lossPct \in [pnl : Int, of : Nat \ {0}]
  /\ lastPrice \in Nat \cup {Never}
  /\ now \in Nat
  /\ operator \in BOOLEAN

Init ==
  /\ mode = [state |-> "HEALTHY", reason |-> NoReason]
  /\ qbTimes = {} /\ apiTimes = {}
  /\ losses = 0 /\ lossPnl = 0 /\ windowStart = 0
  /\ equity = Unknown /\ lossPct = NoLoss
  /\ lastPrice = Never /\ now = 0 /\ operator = FALSE

-----------------------------------------------------------------------------
pruneWindow(times) == {f \in times : f[1] >= now - FailureWindow}

\* pruneWindow, then push(Date.now()).
Recorded(times) ==
  LET kept == pruneWindow(times)
  IN  kept \cup {<<now, Cardinality({f \in kept : f[1] = now})>>}

\* transition: what becomes of mode m.  It only escalates.
transition(m, next, reason) ==
  IF severity[next] > severity[m.state] THEN [state |-> next, reason |-> reason]
                                        ELSE m

\* The transition of the first threshold that `count' reaches.
Escalated(count, shadow, degraded, reason) ==
  IF count >= shadow THEN transition(mode, "SHADOW_ONLY", reason)
  ELSE IF count >= degraded THEN transition(mode, "DEGRADED", reason)
  ELSE mode

recordQbFailure(reason) ==
  LET times == Recorded(qbTimes)
  IN  /\ Cardinality(times) <= MaxRecorded
      /\ qbTimes' = times
      /\ mode' = Escalated(Cardinality(times), QbShadow, QbDegraded, reason)
      /\ UNCHANGED <<apiTimes, lossVars, lastPrice, now>>

recordQbSuccess ==
  /\ qbTimes' = {}
  /\ UNCHANGED <<mode, apiTimes, lossVars, lastPrice, now>>

recordApiError ==
  LET times == Recorded(apiTimes)
  IN  /\ Cardinality(times) <= MaxRecorded
      /\ apiTimes' = times
      /\ mode' = Escalated(Cardinality(times), ApiShadow, ApiDegraded, "API_ERROR")
      /\ UNCHANGED <<qbTimes, lossVars, lastPrice, now>>

recordApiSuccess ==
  /\ apiTimes' = pruneWindow(apiTimes)
  /\ UNCHANGED <<mode, qbTimes, lossVars, lastPrice, now>>

-----------------------------------------------------------------------------
\* A loss of `pnl' is at least `pct' percent of `eq'.
Reaches(pnl, eq, pct) == pnl * 100 <= pct * eq

\* The equity-relative breakers.
AfterEquity(m, pnl, eq) ==
  IF Reaches(pnl, eq, PctPause) THEN transition(m, "PAUSED", "EQUITY_LOSS_LIMIT")
  ELSE IF Reaches(pnl, eq, PctDegraded)
    THEN transition(m, "DEGRADED", "ROLLING_NEGATIVE_EV")
  ELSE m

updateVstEquity(eq) ==
  /\ equity' = eq
  /\ IF lossPnl < 0
       THEN /\ lossPct' = [pnl |-> lossPnl, of |-> eq]
            /\ mode' = AfterEquity(mode, lossPnl, eq)
       ELSE lossPct' = NoLoss /\ UNCHANGED mode
  /\ UNCHANGED <<failureVars, losses, lossPnl, windowStart, lastPrice, now>>

\* The breakers that do not depend on the equity.
AfterLosses(m, pnl, streak) ==
  IF pnl <= UsdPause THEN transition(m, "PAUSED", "ROLLING_NEGATIVE_EV")
  ELSE IF streak >= LossPause THEN transition(m, "PAUSED", "CONSECUTIVE_LOSSES")
  ELSE IF streak >= LossDegraded THEN transition(m, "DEGRADED", "CONSECUTIVE_LOSSES")
  ELSE m

recordTradeLoss(pnl) ==
  LET expired == now - windowStart > LossWindow
      total   == (IF expired THEN 0 ELSE lossPnl) + pnl
      known   == equity # Unknown
  IN  /\ losses < MaxLosses
      /\ windowStart' = IF expired THEN now ELSE windowStart
      /\ losses' = losses + 1
      /\ lossPnl' = total
      /\ lossPct' = IF known THEN [pnl |-> total, of |-> equity]
                    ELSE IF expired THEN NoLoss ELSE lossPct
      /\ mode' = IF known /\ Reaches(total, equity, PctPause)
                   THEN transition(mode, "PAUSED", "EQUITY_LOSS_LIMIT")
                   ELSE AfterLosses(IF known THEN AfterEquity(mode, total, equity)
                                    ELSE mode, total, losses + 1)
      /\ UNCHANGED <<failureVars, equity, lastPrice, now>>

\* Mutants of Reset: the failures recorded so far are kept; the reason passed
\* in is stored.
ResetKeepsFailures ==
  /\ mode' = [state |-> "HEALTHY", reason |-> NoReason]
  /\ losses' = 0 /\ lossPnl' = 0 /\ lossPct' = NoLoss /\ windowStart' = now
  /\ equity' = Unknown
  /\ UNCHANGED failureVars
ResetStoresReason ==
  /\ mode' = [state |-> "HEALTHY", reason |-> "MANUAL_RESET"]
  /\ losses' = 0 /\ lossPnl' = 0 /\ lossPct' = NoLoss /\ windowStart' = now
  /\ equity' = Unknown
  /\ qbTimes' = {} /\ apiTimes' = {}

\* resetServiceState
Reset ==
  /\ mode' = [state |-> "HEALTHY", reason |-> NoReason]
  /\ losses' = 0 /\ lossPnl' = 0 /\ lossPct' = NoLoss /\ windowStart' = now
  /\ equity' = Unknown
  /\ qbTimes' = {} /\ apiTimes' = {}

\* Mutants of recordTradeWin: the percentage is forgotten; any DEGRADED is reset.
recordTradeWinKeepsPct ==
  /\ IF mode.state = "DEGRADED" /\ mode.reason \in LossReasons
       THEN Reset
       ELSE /\ losses' = 0 /\ lossPnl' = 0 /\ windowStart' = now
            /\ UNCHANGED <<mode, failureVars, equity, lossPct>>
  /\ UNCHANGED <<lastPrice, now>>
recordTradeWinAnyReason ==
  /\ IF mode.state = "DEGRADED"
       THEN Reset
       ELSE /\ losses' = 0 /\ lossPnl' = 0 /\ lossPct' = NoLoss
            /\ windowStart' = now
            /\ UNCHANGED <<mode, failureVars, equity>>
  /\ UNCHANGED <<lastPrice, now>>

recordTradeWin ==
  /\ IF mode.state = "DEGRADED" /\ mode.reason \in LossReasons
       THEN Reset
       ELSE /\ losses' = 0 /\ lossPnl' = 0 /\ lossPct' = NoLoss
            /\ windowStart' = now
            /\ UNCHANGED <<mode, failureVars, equity>>
  /\ UNCHANGED <<lastPrice, now>>

recordBtcPriceUpdate ==
  /\ lastPrice' = now
  /\ IF mode = [state |-> "SHADOW_ONLY", reason |-> "STALE_DATA"]
       THEN Reset
       ELSE UNCHANGED <<mode, failureVars, lossVars>>
  /\ UNCHANGED now

Fresh == lastPrice # Never /\ now - lastPrice <= StaleAfter

checkDataFreshness ==
  /\ mode' = IF lastPrice # Never /\ ~Fresh
               THEN transition(mode, "SHADOW_ONLY", "STALE_DATA") ELSE mode
  /\ UNCHANGED <<failureVars, lossVars, lastPrice, now>>

\* The health routes.
pauseExecution ==
  /\ mode' = [state |-> "PAUSED", reason |-> "MANUAL_PAUSE"]
  /\ UNCHANGED <<failureVars, lossVars, lastPrice, now>>

resetServiceState == Reset /\ UNCHANGED <<lastPrice, now>>

Tick == now < MaxTime /\ now' = now + 1
        /\ UNCHANGED <<mode, failureVars, lossVars, lastPrice>>

Signals ==
  \/ \E r \in {"QB_TIMEOUT", "QB_UNAVAILABLE"} : recordQbFailure(r)
  \/ recordQbSuccess
  \/ recordApiError \/ recordApiSuccess
  \/ \E eq \in Equities : updateVstEquity(eq)
  \/ \E pnl \in Pnls : recordTradeLoss(pnl)
  \/ recordTradeWin
  \/ recordBtcPriceUpdate \/ checkDataFreshness
  \/ Tick

Operator == pauseExecution \/ resetServiceState

Next == \/ Signals /\ operator' = FALSE
        \/ Operator /\ operator' = TRUE

Spec == Init /\ [][Next]_vars

-----------------------------------------------------------------------------
(* Properties. *)

\* A breaker whose threshold its counter has reached is in force: the state is
\* at least as severe as that threshold asks, whichever of the other functions
\* ran since, the resets a win or a fresh price performs included.
AtLeast(s) == severity[mode.state] >= severity[s]
LossLimit(pct) == equity # Unknown /\ lossPnl < 0 /\ Reaches(lossPnl, equity, pct)
BreakersHold ==
  /\ Cardinality(qbTimes) >= QbDegraded \/ Cardinality(apiTimes) >= ApiDegraded => AtLeast("DEGRADED")
  /\ Cardinality(qbTimes) >= QbShadow \/ Cardinality(apiTimes) >= ApiShadow => AtLeast("SHADOW_ONLY")
  /\ losses >= LossDegraded => AtLeast("DEGRADED")
  /\ losses >= LossPause => AtLeast("PAUSED")
  /\ LossLimit(PctDegraded) => AtLeast("DEGRADED")
  /\ LossLimit(PctPause) => AtLeast("PAUSED")

\* The rolling-loss percentage other components read is that of the current
\* loss and the current equity.
LossPctCurrent ==
  equity # Unknown => lossPct.pnl * equity = lossPnl * lossPct.of

\* The state is relaxed only by the operator, by a win after losses, or by a
\* price after stale data: PAUSED, and what a failing brain or exchange
\* caused, waits for the operator.
Relaxes == severity[mode'.state] < severity[mode.state]
RelaxesOnlyOnItsSignal ==
  [][Relaxes => \/ operator'
                \/ /\ mode.state = "DEGRADED" /\ mode.reason \in LossReasons
                   /\ losses' = 0
                \/ /\ mode = [state |-> "SHADOW_ONLY", reason |-> "STALE_DATA"]
                   /\ Fresh']_vars

\* serviceState.ts:280: a win "does NOT auto-recover from infrastructure
\* DEGRADED (QB_TIMEOUT, API_ERROR, STALE_DATA - those need their own
\* signals)": it never makes the service healthy while as many failures as
\* degrade it are in the window.
InfrastructureOutlivesWin ==
  [][recordTradeWin /\ (Cardinality(qbTimes) >= QbDegraded \/ Cardinality(apiTimes) >= ApiDegraded)
       => mode'.state # "HEALTHY"]_vars
=============================================================================
