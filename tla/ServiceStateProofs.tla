------------------------- MODULE ServiceStateProofs -------------------------
(***************************************************************************)
(* Theorems about the health state machine, for every threshold, window    *)
(* and account.                                                            *)
(***************************************************************************)
EXTENDS ServiceState, FiniteSetTheorems, TLAPS

-----------------------------------------------------------------------------
(* The operators the functions are built from. *)

LEMMA Severities ==
  /\ severity["HEALTHY"] = 0 /\ severity["DEGRADED"] = 1
  /\ severity["SHADOW_ONLY"] = 2 /\ severity["PAUSED"] = 3
  /\ \A s \in States : severity[s] \in 0 .. 3
BY DEF severity, States

\* transition never relaxes the state and reaches at least the one asked for.
LEMMA TransitionEscalates ==
  ASSUME NEW m \in Modes, NEW next \in States, NEW reason \in Reasons
  PROVE  LET t == transition(m, next, reason)
         IN  /\ t \in Modes
             /\ severity[t.state] >= severity[m.state]
             /\ severity[t.state] >= severity[next]
<1>1. m.state \in States
  BY DEF Modes
<1>2. [state |-> next, reason |-> reason] \in Modes
  BY DEF Modes
<1> QED
  BY <1>1, <1>2, Severities DEF transition

LEMMA EscalatedThresholds ==
  ASSUME mode \in Modes, NEW n \in Nat, NEW shadow \in Nat, NEW degraded \in Nat,
         NEW reason \in Reasons
  PROVE  LET e == Escalated(n, shadow, degraded, reason)
         IN  /\ e \in Modes
             /\ severity[e.state] >= severity[mode.state]
             /\ n >= shadow => severity[e.state] >= 2
             /\ n >= degraded => severity[e.state] >= 1
<1>1. "SHADOW_ONLY" \in States /\ "DEGRADED" \in States
  BY DEF States
<1>2. \A next \in {"SHADOW_ONLY", "DEGRADED"} :
        LET t == transition(mode, next, reason)
        IN  /\ t \in Modes /\ severity[t.state] \in 0 .. 3
            /\ severity[t.state] >= severity[mode.state]
            /\ severity[t.state] >= severity[next]
  BY <1>1, TransitionEscalates, Severities DEF Modes
<1>3. mode.state \in States
  BY DEF Modes
<1> QED
  BY <1>2, <1>3, Severities DEF Escalated

\* The equity breakers.
LEMMA EquityBreakers ==
  ASSUME NEW m \in Modes, NEW pnl \in Int, NEW eq \in Nat
  PROVE  LET e == AfterEquity(m, pnl, eq)
         IN  /\ e \in Modes
             /\ severity[e.state] >= severity[m.state]
             /\ Reaches(pnl, eq, PctPause) => severity[e.state] >= 3
             /\ Reaches(pnl, eq, PctDegraded) => severity[e.state] >= 1
<1>1. {"PAUSED", "DEGRADED"} \subseteq States
      /\ {"EQUITY_LOSS_LIMIT", "ROLLING_NEGATIVE_EV"} \subseteq Reasons
  BY DEF States, Reasons, LossReasons
<1>2. \A next \in {"PAUSED", "DEGRADED"}, r \in {"EQUITY_LOSS_LIMIT", "ROLLING_NEGATIVE_EV"} :
        LET t == transition(m, next, r)
        IN  /\ t \in Modes /\ severity[t.state] \in 0 .. 3
            /\ severity[t.state] >= severity[m.state]
            /\ severity[t.state] >= severity[next]
  BY <1>1, TransitionEscalates, Severities DEF Modes
<1>3. m.state \in States
  BY DEF Modes
<1> QED
  BY <1>2, <1>3, Severities DEF AfterEquity

\* The breakers of a streak.
LEMMA LossBreakers ==
  ASSUME NEW m \in Modes, NEW pnl \in Int, NEW streak \in Nat
  PROVE  LET e == AfterLosses(m, pnl, streak)
         IN  /\ e \in Modes
             /\ severity[e.state] >= severity[m.state]
             /\ streak >= LossPause => severity[e.state] >= 3
             /\ streak >= LossDegraded => severity[e.state] >= 1
<1>1. {"PAUSED", "DEGRADED"} \subseteq States
      /\ {"CONSECUTIVE_LOSSES", "ROLLING_NEGATIVE_EV"} \subseteq Reasons
  BY DEF States, Reasons, LossReasons
<1>2. \A next \in {"PAUSED", "DEGRADED"}, r \in {"CONSECUTIVE_LOSSES", "ROLLING_NEGATIVE_EV"} :
        LET t == transition(m, next, r)
        IN  /\ t \in Modes /\ severity[t.state] \in 0 .. 3
            /\ severity[t.state] >= severity[m.state]
            /\ severity[t.state] >= severity[next]
  BY <1>1, TransitionEscalates, Severities DEF Modes
<1>3. m.state \in States
  BY DEF Modes
<1> QED
  BY <1>2, <1>3, Severities DEF AfterLosses

\* Pruning keeps a window finite and no larger than it was.
LEMMA Windows ==
  ASSUME NEW W, W \subseteq Failures, IsFiniteSet(W), now \in Nat
  PROVE  /\ pruneWindow(W) \subseteq Failures /\ IsFiniteSet(pruneWindow(W))
         /\ Cardinality(W) \in Nat
         /\ Cardinality(pruneWindow(W)) \in Nat
         /\ Cardinality(pruneWindow(W)) <= Cardinality(W)
         /\ Recorded(W) \subseteq Failures /\ IsFiniteSet(Recorded(W))
         /\ Cardinality(Recorded(W)) \in Nat
<1>1. pruneWindow(W) \subseteq W
  BY DEF pruneWindow
<1>2. IsFiniteSet(pruneWindow(W)) /\ Cardinality(W) \in Nat
      /\ Cardinality(pruneWindow(W)) \in Nat
      /\ Cardinality(pruneWindow(W)) <= Cardinality(W)
  BY <1>1, FS_Subset, FS_CardinalityType
<1> DEFINE same == {f \in pruneWindow(W) : f[1] = now}
<1>3. Cardinality(same) \in Nat
  BY <1>2, FS_Subset, FS_CardinalityType
<1>4. Recorded(W) = pruneWindow(W) \cup {<<now, Cardinality(same)>>}
  BY DEF Recorded
<1>5. <<now, Cardinality(same)>> \in Failures
  BY <1>3 DEF Failures
<1>6. IsFiniteSet(Recorded(W)) /\ Recorded(W) \subseteq Failures
  <2> HIDE DEF same
  <2> QED
    BY <1>1, <1>2, <1>4, <1>5, FS_AddElement
<1>7. Cardinality(Recorded(W)) \in Nat
  BY <1>6, FS_CardinalityType
<1> QED
  BY <1>1, <1>2, <1>6, <1>7

-----------------------------------------------------------------------------
(* The invariant: types, the breakers, and a percentage that was computed    *)
(* from the loss and the equity of the moment.                               *)

PctInv ==
  equity # Unknown => \/ lossPct = [pnl |-> lossPnl, of |-> equity]
                      \/ lossPnl = 0 /\ lossPct = NoLoss

ServiceInv == TypeOK /\ BreakersHold /\ PctInv

LEMMA ServiceInvInit == Init => ServiceInv
<1> SUFFICES ASSUME Init PROVE ServiceInv
  OBVIOUS
<1>1. mode \in Modes
  BY DEF Init, Modes, States
<1>2. IsFiniteSet({}) /\ Cardinality({}) = 0
  BY FS_EmptySet
<1>o. operator \in BOOLEAN
  BY DEF Init
<1>3. TypeOK
  BY <1>1, <1>2, <1>o DEF Init, TypeOK, NoLoss
<1>4. BreakersHold
  BY <1>2, ServiceConstants DEF Init, BreakersHold, LossLimit, Unknown
<1> QED
  BY <1>3, <1>4 DEF Init, ServiceInv, PctInv, Unknown

\* A step that lets no counter grow and does not relax the state.
LEMMA BreakersFrame ==
  ASSUME BreakersHold, mode \in Modes, mode' \in Modes,
         severity[mode'.state] >= severity[mode.state],
         Cardinality(qbTimes) \in Nat, Cardinality(qbTimes') \in Nat,
         Cardinality(apiTimes) \in Nat, Cardinality(apiTimes') \in Nat,
         Cardinality(qbTimes') <= Cardinality(qbTimes),
         Cardinality(apiTimes') <= Cardinality(apiTimes),
         losses \in Nat, losses' \in Nat, losses' <= losses,
         (lossPnl' = lossPnl /\ equity' = equity) \/ lossPnl' = 0
  PROVE  BreakersHold'
<1>1. severity[mode.state] \in 0 .. 3 /\ severity[mode'.state] \in 0 .. 3
  BY Severities DEF Modes
<1>2. ASSUME NEW s \in {"DEGRADED", "SHADOW_ONLY", "PAUSED"}, AtLeast(s) PROVE AtLeast(s)'
  BY <1>1, <1>2, Severities DEF AtLeast
<1>3. ASSUME NEW n \in Int, LossLimit(n)' PROVE LossLimit(n)
  BY <1>3 DEF LossLimit
<1>4. LossLimit(PctDegraded)' => LossLimit(PctDegraded)
  BY <1>3, ServiceConstants
<1>5. LossLimit(PctPause)' => LossLimit(PctPause)
  BY <1>3, ServiceConstants
<1> QED
  BY <1>2, <1>4, <1>5, ServiceConstants DEF BreakersHold

\* A reset leaves nothing for a breaker to hold.
LEMMA ResetIsClean == Reset => BreakersHold' /\ mode' \in Modes /\ equity' = Unknown
<1> SUFFICES ASSUME Reset PROVE BreakersHold' /\ mode' \in Modes
  BY DEF Reset
<1>1. Cardinality(qbTimes') = 0 /\ Cardinality(apiTimes') = 0
  BY FS_EmptySet DEF Reset
<1>2. mode' \in Modes
  BY DEF Reset, Modes, States
<1> QED
  BY <1>1, <1>2, ServiceConstants DEF Reset, BreakersHold, LossLimit, Unknown

LEMMA ServiceInvStep == ServiceInv /\ [Next]_vars => ServiceInv'
<1> SUFFICES ASSUME TypeOK, BreakersHold, PctInv, [Next]_vars PROVE ServiceInv'
  BY DEF ServiceInv
<1> USE DEF failureVars, lossVars
<1>o. operator' \in BOOLEAN
  BY DEF Next, TypeOK, vars
<1> USE <1>o
<1>m. mode \in Modes /\ severity[mode.state] \in 0 .. 3
  BY Severities DEF TypeOK, Modes
<1>w. \A W \in {qbTimes, apiTimes} :
        /\ W \subseteq Failures /\ IsFiniteSet(W)
        /\ pruneWindow(W) \subseteq Failures /\ IsFiniteSet(pruneWindow(W))
        /\ Cardinality(W) \in Nat
        /\ Cardinality(pruneWindow(W)) \in Nat
        /\ Cardinality(pruneWindow(W)) <= Cardinality(W)
        /\ Recorded(W) \subseteq Failures /\ IsFiniteSet(Recorded(W))
        /\ Cardinality(Recorded(W)) \in Nat
  BY Windows DEF TypeOK
<1>r. Reset => /\ qbTimes' \subseteq Failures /\ IsFiniteSet(qbTimes')
               /\ apiTimes' \subseteq Failures /\ IsFiniteSet(apiTimes')
  BY FS_EmptySet DEF Reset
<1>1. CASE UNCHANGED vars
  BY <1>1 DEF vars, ServiceInv, TypeOK, PctInv, BreakersHold, AtLeast, LossLimit
\* The steps that change neither counters nor losses and do not relax the state.
<1>f. ASSUME mode' \in Modes, severity[mode'.state] >= severity[mode.state],
             UNCHANGED <<failureVars, lossVars>>,
             lastPrice' \in Nat \cup {Never}, now' \in Nat
      PROVE  ServiceInv'
  <2>1. BreakersHold'
    BY <1>f, <1>m, <1>w, BreakersFrame DEF TypeOK
  <2> QED
    BY <1>f, <2>1 DEF ServiceInv, TypeOK, PctInv
<1>2. ASSUME NEW r \in Reasons, recordQbFailure(r) PROVE ServiceInv'
  <2> DEFINE e == Escalated(Cardinality(Recorded(qbTimes)), QbShadow, QbDegraded, r)
  <2>1. /\ qbTimes' = Recorded(qbTimes) /\ mode' = e
        /\ UNCHANGED <<apiTimes, lossVars, lastPrice, now>>
    BY <1>2 DEF recordQbFailure
  <2>2. /\ e \in Modes /\ severity[e.state] >= severity[mode.state]
        /\ Cardinality(Recorded(qbTimes)) >= QbShadow => severity[e.state] >= 2
        /\ Cardinality(Recorded(qbTimes)) >= QbDegraded => severity[e.state] >= 1
    BY <1>m, <1>w, EscalatedThresholds, ServiceConstants
  <2>3. severity[e.state] \in 0 .. 3
    BY <2>2, Severities DEF Modes
  <2> HIDE DEF e
  <2>4. TypeOK'
    BY <1>w, <2>1, <2>2 DEF TypeOK
  <2>5. BreakersHold'
    BY <1>m, <2>1, <2>2, <2>3, Severities DEF BreakersHold, AtLeast, LossLimit
  <2> QED
    BY <2>1, <2>4, <2>5 DEF ServiceInv, PctInv
<1>3. CASE recordQbSuccess
  <2>1. IsFiniteSet({}) /\ Cardinality({}) = 0
    BY FS_EmptySet
  <2>2. BreakersHold'
    BY <1>3, <1>m, <1>w, <2>1, BreakersFrame DEF recordQbSuccess, TypeOK
  <2> QED
    BY <1>3, <2>1, <2>2 DEF recordQbSuccess, ServiceInv, TypeOK, PctInv
<1>4. CASE recordApiError
  <2> DEFINE e == Escalated(Cardinality(Recorded(apiTimes)), ApiShadow, ApiDegraded, "API_ERROR")
  <2>1. /\ apiTimes' = Recorded(apiTimes) /\ mode' = e
        /\ UNCHANGED <<qbTimes, lossVars, lastPrice, now>>
    BY <1>4 DEF recordApiError
  <2>2. /\ e \in Modes /\ severity[e.state] >= severity[mode.state]
        /\ Cardinality(Recorded(apiTimes)) >= ApiShadow => severity[e.state] >= 2
        /\ Cardinality(Recorded(apiTimes)) >= ApiDegraded => severity[e.state] >= 1
    <3>1. "API_ERROR" \in Reasons
      BY DEF Reasons
    <3> QED
      BY <1>m, <1>w, <3>1, EscalatedThresholds, ServiceConstants
  <2>3. severity[e.state] \in 0 .. 3
    BY <2>2, Severities DEF Modes
  <2> HIDE DEF e
  <2>4. TypeOK'
    BY <1>w, <2>1, <2>2 DEF TypeOK
  <2>5. BreakersHold'
    BY <1>m, <2>1, <2>2, <2>3, Severities DEF BreakersHold, AtLeast, LossLimit
  <2> QED
    BY <2>1, <2>4, <2>5 DEF ServiceInv, PctInv
<1>5. CASE recordApiSuccess
  <2>1. BreakersHold'
    BY <1>5, <1>m, <1>w, BreakersFrame DEF recordApiSuccess, TypeOK
  <2> QED
    BY <1>5, <1>w, <2>1 DEF recordApiSuccess, ServiceInv, TypeOK, PctInv
<1>6. ASSUME NEW eq \in Equities, updateVstEquity(eq) PROVE ServiceInv'
  <2> DEFINE e == AfterEquity(mode, lossPnl, eq)
  <2>1. eq \in Nat \ {0} /\ lossPnl \in Int /\ lossPnl <= 0
    BY ServiceConstants DEF TypeOK
  <2>2. /\ e \in Modes /\ severity[e.state] >= severity[mode.state]
        /\ Reaches(lossPnl, eq, PctPause) => severity[e.state] >= 3
        /\ Reaches(lossPnl, eq, PctDegraded) => severity[e.state] >= 1
    BY <1>m, <2>1, EquityBreakers
  <2>3. severity[e.state] \in 0 .. 3
    BY <2>2, Severities DEF Modes
  <2>4. /\ equity' = eq /\ UNCHANGED <<failureVars, losses, lossPnl, windowStart, lastPrice, now>>
        /\ lossPnl < 0 => lossPct' = [pnl |-> lossPnl, of |-> eq] /\ mode' = e
        /\ ~(lossPnl < 0) => lossPct' = NoLoss /\ mode' = mode
    BY <1>6 DEF updateVstEquity
  <2> HIDE DEF e
  <2>5. TypeOK'
    BY <1>m, <2>1, <2>2, <2>4 DEF TypeOK, NoLoss
  <2>6. BreakersHold'
    BY <1>m, <2>2, <2>3, <2>4, Severities DEF BreakersHold, AtLeast, LossLimit
  <2>7. PctInv'
    BY <2>1, <2>4 DEF PctInv
  <2> QED
    BY <2>5, <2>6, <2>7 DEF ServiceInv
<1>7. ASSUME NEW pnl \in Pnls, recordTradeLoss(pnl) PROVE ServiceInv'
  <2> DEFINE expired == now - windowStart > LossWindow
             total == (IF expired THEN 0 ELSE lossPnl) + pnl
             known == equity # Unknown
             b == IF known THEN AfterEquity(mode, total, equity) ELSE mode
             l == AfterLosses(b, total, losses + 1)
             q == transition(mode, "PAUSED", "EQUITY_LOSS_LIMIT")
             stop == known /\ Reaches(total, equity, PctPause)
  <2>1. total \in Int /\ total <= 0 /\ losses + 1 \in Nat
    BY ServiceConstants DEF TypeOK
  <2>2. equity \in Nat
    BY ServiceConstants DEF TypeOK, Unknown
  <2>3. /\ losses' = losses + 1 /\ lossPnl' = total
        /\ lossPct' = IF known THEN [pnl |-> total, of |-> equity]
                      ELSE IF expired THEN NoLoss ELSE lossPct
        /\ windowStart' = IF expired THEN now ELSE windowStart
        /\ mode' = IF stop THEN q ELSE l
        /\ UNCHANGED <<failureVars, equity, lastPrice, now>>
    BY <1>7 DEF recordTradeLoss
  <2>4. q \in Modes /\ severity[q.state] >= severity[mode.state] /\ severity[q.state] >= 3
    <3>1. "PAUSED" \in States /\ "EQUITY_LOSS_LIMIT" \in Reasons
      BY DEF States, Reasons
    <3> QED
      BY <1>m, <3>1, TransitionEscalates, Severities
  <2>5. /\ b \in Modes /\ severity[b.state] >= severity[mode.state]
        /\ known /\ Reaches(total, equity, PctDegraded) => severity[b.state] >= 1
    <3> HIDE DEF total
    <3> QED
      BY <1>m, <2>1, <2>2, EquityBreakers
  <2>6. /\ l \in Modes /\ severity[l.state] >= severity[b.state]
        /\ losses + 1 >= LossPause => severity[l.state] >= 3
        /\ losses + 1 >= LossDegraded => severity[l.state] >= 1
    <3> HIDE DEF total, b
    <3> QED
      BY <2>1, <2>5, LossBreakers
  <2>7. severity[q.state] \in 0 .. 3 /\ severity[b.state] \in 0 .. 3 /\ severity[l.state] \in 0 .. 3
    BY <2>4, <2>5, <2>6, Severities DEF Modes
  <2> HIDE DEF total, q, b, l
  <2>8. TypeOK'
    <3>1. mode' \in Modes
      BY <2>3, <2>4, <2>6
    <3>2. equity # Unknown => equity \in Nat \ {0}
      BY <2>2 DEF Unknown
    <3>3. lossPct' \in [pnl : Int, of : Nat \ {0}]
      BY <2>1, <2>3, <3>2 DEF TypeOK, NoLoss
    <3> QED
      BY <2>1, <2>3, <3>1, <3>3 DEF TypeOK
  <2>9. BreakersHold'
    <3>1. severity[mode'.state] \in 0 .. 3 /\ severity[mode'.state] >= severity[mode.state]
      BY <1>m, <2>3, <2>4, <2>5, <2>6, <2>7
    <3>2. losses' >= LossPause => severity[mode'.state] >= 3
      BY <2>3, <2>4, <2>6, <2>7
    <3>3. losses' >= LossDegraded => severity[mode'.state] >= 1
      BY <2>3, <2>4, <2>6, <2>7
    <3>4. known /\ Reaches(total, equity, PctPause) => severity[mode'.state] >= 3
      BY <2>3, <2>4
    <3>5. known /\ Reaches(total, equity, PctDegraded) => severity[mode'.state] >= 1
      BY <2>3, <2>4, <2>5, <2>6, <2>7
    <3> QED
      BY <1>m, <2>3, <3>1, <3>2, <3>3, <3>4, <3>5, Severities
      DEF BreakersHold, AtLeast, LossLimit
  <2>10. PctInv'
    BY <2>3 DEF PctInv
  <2> QED
    BY <2>8, <2>9, <2>10 DEF ServiceInv
<1>8. CASE recordTradeWin
  <2>1. CASE mode.state = "DEGRADED" /\ mode.reason \in LossReasons
    <3>1. Reset /\ UNCHANGED <<lastPrice, now>>
      BY <1>8, <2>1 DEF recordTradeWin
    <3> QED
      BY <1>r, <3>1, ResetIsClean DEF Reset, ServiceInv, TypeOK, PctInv, NoLoss
  <2>2. CASE ~(mode.state = "DEGRADED" /\ mode.reason \in LossReasons)
    <3>1. /\ losses' = 0 /\ lossPnl' = 0 /\ lossPct' = NoLoss /\ windowStart' = now
          /\ UNCHANGED <<mode, failureVars, equity, lastPrice, now>>
      BY <1>8, <2>2 DEF recordTradeWin
    <3>2. BreakersHold'
      BY <1>m, <1>w, <3>1, BreakersFrame DEF TypeOK
    <3> QED
      BY <3>1, <3>2 DEF ServiceInv, TypeOK, PctInv, NoLoss
  <2> QED
    BY <2>1, <2>2
<1>9. CASE recordBtcPriceUpdate
  <2> DEFINE stale == [state |-> "SHADOW_ONLY", reason |-> "STALE_DATA"]
  <2>1. CASE mode = stale
    <3>1. Reset /\ lastPrice' = now /\ UNCHANGED now
      BY <1>9, <2>1 DEF recordBtcPriceUpdate
    <3> QED
      BY <1>r, <3>1, ResetIsClean DEF Reset, ServiceInv, TypeOK, PctInv, NoLoss
  <2>2. CASE mode # stale
    <3>1. lastPrice' = now /\ UNCHANGED <<mode, failureVars, lossVars, now>>
      BY <1>9, <2>2 DEF recordBtcPriceUpdate
    <3> QED
      BY <1>f, <1>m, <3>1 DEF TypeOK
  <2> QED
    BY <2>1, <2>2
<1>10. CASE checkDataFreshness
  <2>1. "SHADOW_ONLY" \in States /\ "STALE_DATA" \in Reasons
    BY DEF States, Reasons
  <2>2. mode' \in Modes /\ severity[mode'.state] >= severity[mode.state]
    BY <1>10, <1>m, <2>1, TransitionEscalates DEF checkDataFreshness
  <2> QED
    BY <1>10, <1>f, <2>2 DEF checkDataFreshness, TypeOK
<1>11. CASE pauseExecution
  <2>1. mode' \in Modes /\ mode'.state = "PAUSED"
    BY <1>11 DEF pauseExecution, Modes, States, Reasons
  <2> QED
    BY <1>11, <1>f, <1>m, <2>1, Severities DEF pauseExecution, TypeOK
<1>12. CASE resetServiceState
  <2>1. Reset /\ UNCHANGED <<lastPrice, now>>
    BY <1>12 DEF resetServiceState
  <2> QED
    BY <1>r, <2>1, ResetIsClean DEF Reset, ServiceInv, TypeOK, PctInv, NoLoss
<1>13. CASE Tick
  BY <1>13, <1>f, <1>m DEF Tick, TypeOK
<1>14. {"QB_TIMEOUT", "QB_UNAVAILABLE"} \subseteq Reasons
  BY DEF Reasons
<1> QED
  BY <1>1, <1>2, <1>3, <1>4, <1>5, <1>6, <1>7, <1>8, <1>9, <1>10, <1>11, <1>12,
     <1>13, <1>14 DEF Next, Signals, Operator

LEMMA ServiceInvariant == Spec => []ServiceInv
  BY ServiceInvInit, ServiceInvStep, PTL DEF Spec

\* The counters, windows and the state keep their types, the rolling loss never
\* becomes positive, and no failure window grows without being finite.
THEOREM ServiceTypeCorrect == Spec => []TypeOK
<1>1. ServiceInv => TypeOK
  BY DEF ServiceInv
<1> QED
  BY <1>1, ServiceInvariant, PTL

\* Every breaker whose threshold its counter has reached is in force, for all
\* thresholds, in whichever order they are configured.
THEOREM BreakersAlwaysHold == Spec => []BreakersHold
<1>1. ServiceInv => BreakersHold
  BY DEF ServiceInv
<1> QED
  BY <1>1, ServiceInvariant, PTL

\* The rolling-loss percentage never lags behind the loss or the equity.
THEOREM LossPctAlwaysCurrent == Spec => []LossPctCurrent
<1>1. ASSUME ServiceInv PROVE LossPctCurrent
  <2>1. equity \in Nat /\ lossPnl \in Int
    BY <1>1, ServiceConstants DEF ServiceInv, TypeOK, Unknown
  <2>2. CASE equity # Unknown /\ lossPct = [pnl |-> lossPnl, of |-> equity]
    BY <2>2 DEF LossPctCurrent
  <2>3. CASE lossPnl = 0 /\ lossPct = NoLoss
    BY <2>1, <2>3 DEF LossPctCurrent, NoLoss
  <2> QED
    BY <1>1, <2>2, <2>3 DEF ServiceInv, PctInv, LossPctCurrent
<1> QED
  BY <1>1, ServiceInvariant, PTL

\* The state is relaxed only by an operator, by a win after losses and by a
\* price after stale data.
THEOREM RelaxesOnlyOnSignal == Spec => RelaxesOnlyOnItsSignal
<1> DEFINE Step == Relaxes => \/ operator'
                             \/ /\ mode.state = "DEGRADED" /\ mode.reason \in LossReasons
                                /\ losses' = 0
                             \/ /\ mode = [state |-> "SHADOW_ONLY", reason |-> "STALE_DATA"]
                                /\ Fresh'
<1>1. ASSUME ServiceInv, ServiceInv', [Next]_vars PROVE [Step]_vars
  <2>1. /\ mode \in Modes /\ mode' \in Modes
        /\ severity[mode.state] \in 0 .. 3 /\ severity[mode'.state] \in 0 .. 3
    BY <1>1, Severities DEF ServiceInv, TypeOK, Modes
  <2>2. now \in Nat /\ StaleAfter \in Nat
    BY <1>1, ServiceConstants DEF ServiceInv, TypeOK
  <2>3. \A W \in {qbTimes, apiTimes} : Cardinality(Recorded(W)) \in Nat
    BY <1>1, Windows DEF ServiceInv, TypeOK
  <2>4. ASSUME NEW r \in Reasons, recordQbFailure(r) PROVE ~Relaxes
    <3> DEFINE e == Escalated(Cardinality(Recorded(qbTimes)), QbShadow, QbDegraded, r)
    <3>1. severity[e.state] >= severity[mode.state] /\ e \in Modes
      BY <2>1, <2>3, EscalatedThresholds, ServiceConstants
    <3>2. mode' = e
      BY <2>4 DEF recordQbFailure
    <3> HIDE DEF e
    <3> QED
      BY <2>1, <3>1, <3>2 DEF Relaxes
  <2>5. CASE recordApiError
    <3>1. "API_ERROR" \in Reasons
      BY DEF Reasons
    <3> DEFINE e == Escalated(Cardinality(Recorded(apiTimes)), ApiShadow, ApiDegraded,
                              "API_ERROR")
    <3>2. severity[e.state] >= severity[mode.state] /\ e \in Modes
      BY <2>1, <2>3, <3>1, EscalatedThresholds, ServiceConstants
    <3>3. mode' = e
      BY <2>5 DEF recordApiError
    <3> HIDE DEF e
    <3> QED
      BY <2>1, <3>2, <3>3 DEF Relaxes
  <2>6. ASSUME NEW eq \in Equities, updateVstEquity(eq) PROVE ~Relaxes
    <3>1. eq \in Nat /\ lossPnl \in Int
      BY <1>1, ServiceConstants DEF ServiceInv, TypeOK
    <3>2. severity[AfterEquity(mode, lossPnl, eq).state] >= severity[mode.state]
      BY <2>1, <3>1, EquityBreakers
    <3> QED
      BY <2>1, <2>6, <3>2 DEF updateVstEquity, Relaxes
  <2>7. ASSUME NEW pnl \in Pnls, recordTradeLoss(pnl) PROVE ~Relaxes
    <3> DEFINE total == (IF now - windowStart > LossWindow THEN 0 ELSE lossPnl) + pnl
               b == IF equity # Unknown THEN AfterEquity(mode, total, equity) ELSE mode
               l == AfterLosses(b, total, losses + 1)
               q == transition(mode, "PAUSED", "EQUITY_LOSS_LIMIT")
    <3>1. mode' = q \/ mode' = l
      BY <2>7 DEF recordTradeLoss
    <3>2. total \in Int /\ losses + 1 \in Nat /\ equity \in Nat
      BY <1>1, ServiceConstants DEF ServiceInv, TypeOK, Unknown
    <3>3. severity[q.state] >= severity[mode.state]
      <4>1. "PAUSED" \in States /\ "EQUITY_LOSS_LIMIT" \in Reasons
        BY DEF States, Reasons
      <4> QED
        BY <2>1, <4>1, TransitionEscalates
    <3>4. b \in Modes /\ severity[b.state] >= severity[mode.state]
      <4> HIDE DEF total
      <4>1. /\ AfterEquity(mode, total, equity) \in Modes
            /\ severity[AfterEquity(mode, total, equity).state] >= severity[mode.state]
        BY <2>1, <3>2, EquityBreakers
      <4> QED
        BY <2>1, <4>1
    <3>5. l \in Modes /\ severity[l.state] >= severity[b.state]
      <4> HIDE DEF total, b
      <4> QED
        BY <3>2, <3>4, LossBreakers
    <3>6. severity[b.state] \in 0 .. 3 /\ severity[l.state] \in 0 .. 3
      BY <3>4, <3>5, Severities DEF Modes
    <3> HIDE DEF q, b, l
    <3> QED
      BY <2>1, <3>1, <3>3, <3>4, <3>5, <3>6 DEF Relaxes
  <2>8. CASE recordTradeWin
    BY <2>1, <2>8 DEF recordTradeWin, Reset, Relaxes
  <2>9. CASE recordBtcPriceUpdate
    BY <2>1, <2>2, <2>9 DEF recordBtcPriceUpdate, Reset, Relaxes, Fresh, Never
  <2>10. CASE checkDataFreshness
    <3>1. "SHADOW_ONLY" \in States /\ "STALE_DATA" \in Reasons
      BY DEF States, Reasons
    <3> QED
      BY <2>1, <2>10, <3>1, TransitionEscalates DEF checkDataFreshness, Relaxes
  <2>11. CASE pauseExecution
    BY <2>1, <2>11, Severities DEF pauseExecution, Relaxes
  <2>12. CASE recordQbSuccess \/ recordApiSuccess \/ Tick
    BY <2>1, <2>12 DEF recordQbSuccess, recordApiSuccess, Tick, Relaxes
  <2>13. {"QB_TIMEOUT", "QB_UNAVAILABLE"} \subseteq Reasons
    BY DEF Reasons
  <2> QED
    BY <1>1, <2>4, <2>5, <2>6, <2>7, <2>8, <2>9, <2>10, <2>11, <2>12, <2>13
    DEF Next, Signals, Operator
<1> QED
  BY <1>1, ServiceInvariant, PTL DEF Spec, RelaxesOnlyOnItsSignal

-----------------------------------------------------------------------------
(* The finding.  service_win shows a win that makes the service healthy while  *)
(* its failures ask for DEGRADED.                                              *)

\* How it may: only out of a DEGRADED that is blamed on losses, and only while
\* the failures are below what SHADOW_ONLY takes.  A win never hides more.
WinMasks ==
  /\ recordTradeWin /\ mode'.state = "HEALTHY"
  /\ Cardinality(qbTimes) >= QbDegraded \/ Cardinality(apiTimes) >= ApiDegraded
OnlyDegradation ==
  /\ mode.state = "DEGRADED" /\ mode.reason \in LossReasons
  /\ Cardinality(qbTimes) < QbShadow /\ Cardinality(apiTimes) < ApiShadow

\* The reset of recordTradeWin forgets failures that were recorded after the
\* first reason for DEGRADED, at most as many as DEGRADED stands for.
THEOREM WinMasksOnlyDegradation == Spec => [][WinMasks => OnlyDegradation]_vars
<1>1. ASSUME ServiceInv, WinMasks PROVE OnlyDegradation
  <2>1. TypeOK /\ BreakersHold
    BY <1>1 DEF ServiceInv
  <2>2. /\ Cardinality(qbTimes) \in Nat /\ Cardinality(apiTimes) \in Nat
        /\ {QbShadow, ApiShadow} \subseteq Nat
    BY <2>1, ServiceConstants, FS_CardinalityType DEF TypeOK
  <2>3. /\ severity["HEALTHY"] = 0 /\ severity["DEGRADED"] = 1 /\ severity["SHADOW_ONLY"] = 2
    BY DEF severity
  <2>4. mode.state # "HEALTHY"
    BY <1>1, <2>1, <2>3 DEF WinMasks, BreakersHold, AtLeast
  <2>5. mode.state = "DEGRADED" /\ mode.reason \in LossReasons
    BY <1>1, <2>4 DEF WinMasks, recordTradeWin
  <2>6. ~(Cardinality(qbTimes) >= QbShadow \/ Cardinality(apiTimes) >= ApiShadow)
    BY <2>1, <2>3, <2>5 DEF BreakersHold, AtLeast
  <2> QED
    BY <2>2, <2>5, <2>6 DEF OnlyDegradation
<1> QED
  BY <1>1, ServiceInvariant, PTL DEF Spec
=============================================================================
