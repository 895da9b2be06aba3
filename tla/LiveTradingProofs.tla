------------------------- MODULE LiveTradingProofs --------------------------
(* Machine-checked theorems about LiveTrading. *)
EXTENDS LiveTrading, FiniteSetTheorems, TLAPS

-----------------------------------------------------------------------------
(* Types.  The order of an answer under way is on the exchange, one not sent *)
(* yet is not; what is armed is on the exchange; market orders do not rest.  *)

OrderInv ==
  /\ \A o \in Orders : at[o] = "accepted" => o \in taken
  /\ \A o \in Orders : at[o] \in {"idle", "gated"} => o \notin taken
  /\ \A G \in grids : \A o \in G : Kind(o) = "grid"
  /\ Armed \subseteq taken
  /\ \A o \in rests : Kind(o) # "market"

TypeInv == TypeOK /\ OrderInv

LEMMA TypeInvInit == Init => TypeInv
<1> SUFFICES ASSUME Init PROVE TypeInv
  OBVIOUS
<1>1. ExchangeTypes
  BY DEF Init, ExchangeInit, ExchangeTypes
<1>2. KillTypes
  BY DEF Init, KillInit, KillTypes, KillStates
<1>3. BookTypes
  BY DEF Init, BookInit, BookTypes, Statuses
<1>4. WatchTypes
  BY DEF Init, WatchInit, WatchTypes
<1>5. OutboxTypes
  BY DEF Init, OutboxInit, OutboxTypes
<1>6. at \in [Orders -> Places] /\ budget \in [Bounded -> Nat]
  BY LiveConstants DEF Init, Places
<1>7. OrderInv
  BY DEF Init, OrderInv, ExchangeInit, BookInit, Armed
<1> QED
  BY <1>1, <1>2, <1>3, <1>4, <1>5, <1>6, <1>7 DEF Init, TypeInv, TypeOK

-----------------------------------------------------------------------------
(* What a step does to each component, in the component's own operations. *)

KillStep ==
  \/ UNCHANGED killVars
  \/ \E s \in Severities : pushTransition(Verdict(s))
  \/ Cools \/ Ripens
  \/ SwitchForgets

ExchangeStep ==
  \/ UNCHANGED exchangeVars
  \/ \E S \in SUBSET Orders :
       /\ Accepts(S) /\ \A o \in S : at[o] \in {"idle", "gated"}
  \/ \E o \in Orders : Closes(o) \/ Unbooks(o) \/ \E whole \in BOOLEAN : Fills(o, whole)

BookStep ==
  \/ UNCHANGED bookVars
  \/ \E o \in Orders : at[o] = "accepted" /\ Kind(o) = "limit" /\ LimitArms(o)
  \/ \E o \in Orders : GridCascades(o)
  \/ \E G \in grids : \E S \in SUBSET G : (\A o \in S : at[o] = "accepted") /\ GridArms(S)
  \/ \E o \in Orders : \/ TimerFires(o) \/ Sweeps(o) \/ Expires(o) \/ MarksFilled(o)
                       \/ \E landed \in BOOLEAN : CancelEnds(o, landed)
  \/ BookForgets

WatchStep ==
  \/ UNCHANGED watchVars
  \/ \E S \in SUBSET Orders, ok \in BOOLEAN :
       (\A o \in S : at[o] = "accepted") /\ Registers(S, ok)
  \/ RemembersCreds
  \/ \E stale \in SUBSET tracked, written, ok \in BOOLEAN : PollStarts(stale, written, ok)
  \/ PositionsFail
  \/ \E error \in BOOLEAN : PositionsAnswered(error)
  \/ \E k \in flat, R \in SUBSET Orders, ok \in BOOLEAN : \E id \in [R -> Orders] : Records(k, R, id, ok)
  \/ WatcherReloads

OutboxStep ==
  \/ UNCHANGED outboxVars
  \/ \E S \in SUBSET Orders : Enqueues(S)
  \/ \E ok \in BOOLEAN :
       \/ BufferFlushes(ok)
       \/ \E o \in waiting : SyncBegins(o, ok)
       \/ \E acked \in SUBSET posted : PostAnswered(acked, ok)
  \/ FlushBegins
  \/ \E arrived \in SUBSET posted : PostFails(arrived)
  \/ Rotates \/ OutboxReloads

Components == KillStep /\ ExchangeStep /\ BookStep /\ WatchStep /\ OutboxStep

LEMMA ComponentSteps == TypeInv /\ [Next]_vars => Components
<1> SUFFICES ASSUME TypeInv, [Next]_vars PROVE Components
  OBVIOUS
<1> USE DEF Components, KillStep, ExchangeStep, BookStep, WatchStep, OutboxStep
<1>1. CASE UNCHANGED vars
  BY <1>1 DEF vars
<1>2. CASE Evaluated
  BY <1>2 DEF Evaluated, Evaluates
<1>3. ASSUME NEW S \in SUBSET Orders, NEW s \in Severities, Gate(S, s)
      PROVE  Components
  BY <1>3 DEF Gate, Admits, Evaluates
<1>4. ASSUME NEW o \in Orders, GivesUp(o) \/ Ambiguous(o) PROVE Components
  BY <1>4 DEF GivesUp, Ambiguous
<1>5. ASSUME NEW o \in Orders, NEW ok \in BOOLEAN, Barred(o, ok) \/ Declined(o, ok)
      PROVE  Components
  BY <1>5 DEF Barred, Declined
<1>6. ASSUME NEW o \in Orders, NEW ok \in BOOLEAN, Acknowledged(o, ok)
      PROVE  Components
  BY <1>6 DEF Acknowledged
<1>7. ASSUME NEW o \in Orders, NEW ok \in BOOLEAN, Cancelled(o, ok) PROVE Components
  BY <1>7 DEF Cancelled
<1>8. ASSUME NEW o \in Orders, NEW ok \in BOOLEAN,
             NEW fate \in {"accepted", "refused", "unreached"}, Sends(o, fate, ok)
      PROVE  Components
  <2>1. KillStep /\ BookStep /\ WatchStep /\ OutboxStep
    BY <1>8 DEF Sends
  <2>2. at[o] = "gated"
    BY <1>8 DEF Sends
  <2>3. CASE fate = "accepted"
    <3>1. {o} \in SUBSET Orders /\ Accepts({o}) /\ \A p \in {o} : at[p] \in {"idle", "gated"}
      BY <1>8, <2>2, <2>3 DEF Sends
    <3> QED
      BY <2>1, <3>1
  <2>4. CASE fate # "accepted"
    BY <1>8, <2>1, <2>4 DEF Sends
  <2> QED
    BY <2>3, <2>4
<1>9. ASSUME NEW G \in grids, NEW ok \in BOOLEAN, NEW S \in SUBSET G, NEW again \in SUBSET Orders,
             GridSends(G, S, again, ok)
      PROVE  Components
  BY <1>9 DEF GridSends, TypeInv, TypeOK
<1>10. ASSUME NEW G \in grids, NEW ok \in BOOLEAN, NEW S \in SUBSET G, GridAnswered(G, S, ok)
      PROVE  Components
  <2> DEFINE acked == {o \in G \ S : at[o] = "accepted"}
  <2>1. acked \in SUBSET G /\ acked \in SUBSET Orders
    BY DEF TypeInv, TypeOK
  <2> QED
    BY <1>10, <2>1 DEF GridAnswered
<1>11. ASSUME NEW o \in Orders, TriggerTimer(o) \/ TriggerExpires(o) \/ FillDetected(o)
      PROVE  Components
  BY <1>11 DEF TriggerTimer, TriggerExpires, FillDetected, BookOnly
<1>12. ASSUME NEW stale \in SUBSET tracked, NEW written \in BOOLEAN, NEW ok \in BOOLEAN,
             Polls(stale, written, ok)
      PROVE  Components
  BY <1>12 DEF Polls, WatchOnly
<1>13. ASSUME NEW error \in BOOLEAN, PositionsCome(error) PROVE Components
  BY <1>13 DEF PositionsCome, WatchOnly
<1>14. CASE PositionsLost
  BY <1>14 DEF PositionsLost, WatchOnly
<1>15. ASSUME NEW k \in flat, NEW R \in SUBSET Orders, NEW ok \in BOOLEAN, NEW id \in [R -> Orders],
             HistoryComes(k, R, id, ok)
      PROVE  Components
  BY <1>15 DEF HistoryComes
<1>16. CASE Reports \/ Flushes \/ ReportFails \/ Rotation
  BY <1>16 DEF Reports, Flushes, ReportFails, Rotation, OutboxOnly
<1>17. CASE Market
  BY <1>17 DEF Market
<1>18. CASE Time
  BY <1>18 DEF Time
<1>19. CASE Crash
  BY <1>19 DEF Crash
<1> QED
  BY <1>1, <1>2, <1>3, <1>4, <1>5, <1>6, <1>7, <1>8, <1>9, <1>10, <1>11, <1>12,
     <1>13, <1>14,
     <1>15, <1>16, <1>17, <1>18, <1>19 DEF Next
-----------------------------------------------------------------------------
(* Type correctness. *)

LEMMA ExchangeTypesStep ==
  ASSUME TypeInv, ExchangeStep
  PROVE  ExchangeTypes' /\ item' = item /\ taken \subseteq taken'
<1> USE DEF TypeInv, TypeOK, ExchangeTypes, exchangeVars
<1>1. CASE UNCHANGED exchangeVars
  BY <1>1
<1>2. ASSUME NEW S \in SUBSET Orders, Accepts(S)
      PROVE  ExchangeTypes' /\ item' = item /\ taken \subseteq taken'
  BY <1>2 DEF Accepts
<1>3. ASSUME NEW o \in Orders, Closes(o) \/ Unbooks(o) \/ \E whole \in BOOLEAN : Fills(o, whole)
      PROVE  ExchangeTypes' /\ item' = item /\ taken \subseteq taken'
  BY <1>3 DEF Closes, Unbooks, Fills
<1> QED
  BY <1>1, <1>2, <1>3 DEF ExchangeStep

LEMMA KillTypesStep == KillTypes /\ KillStep => KillTypes'
<1> SUFFICES ASSUME KillTypes, KillStep PROVE KillTypes'
  OBVIOUS
<1>1. \A s : Verdict(s) \in KillStates
  BY DEF Verdict, KillTypes, KillStates, Pauses
<1> QED
  BY <1>1 DEF KillStep, KillTypes, killVars, pushTransition, Cools, Ripens, SwitchForgets,
              KillStates

LEMMA BookTypesStep ==
  ASSUME TypeInv, BookStep, taken \subseteq taken', taken' \subseteq Orders
  PROVE  BookTypes' /\ Armed' \subseteq taken'
<1> DEFINE Goal == BookTypes' /\ Armed' \subseteq taken'
<1> USE DEF TypeInv, TypeOK, OrderInv, BookTypes, Armed, bookVars, Statuses
<1>1. CASE UNCHANGED bookVars
  BY <1>1
<1>2. ASSUME NEW o \in Orders, at[o] = "accepted", LimitArms(o) PROVE Goal
  BY <1>2 DEF LimitArms, Marked, Rivals
<1>3. ASSUME NEW o \in Orders, GridCascades(o) PROVE Goal
  BY <1>3 DEF GridCascades, Marked, Rivals
<1>4. ASSUME NEW S \in SUBSET Orders, \A o \in S : at[o] = "accepted", GridArms(S) PROVE Goal
  BY <1>4 DEF GridArms, Marked
<1>5. ASSUME NEW o \in Orders,
             \/ TimerFires(o) \/ Sweeps(o) \/ Expires(o) \/ MarksFilled(o)
             \/ \E landed \in BOOLEAN : CancelEnds(o, landed)
      PROVE  Goal
  <2>1. CASE TimerFires(o) \/ Sweeps(o) \/ \E landed \in BOOLEAN : CancelEnds(o, landed)
    BY <2>1 DEF TimerFires, Sweeps, CancelEnds
  <2>2. CASE Expires(o)
    BY <2>2 DEF Expires, Marked
  <2>3. CASE MarksFilled(o)
    BY <2>3 DEF MarksFilled, Marked
  <2> QED
    BY <1>5, <2>1, <2>2, <2>3
<1>6. CASE BookForgets
  BY <1>6 DEF BookForgets
<1> QED
  BY <1>1, <1>2, <1>3, <1>4, <1>5, <1>6 DEF BookStep

LEMMA WatchTypesStep ==
  ASSUME TypeInv, WatchStep, taken \subseteq taken', taken' \subseteq Orders
  PROVE  WatchTypes'
<1> USE DEF TypeInv, TypeOK, OrderInv, WatchTypes, watchVars, pollVars
<1>1. CASE UNCHANGED watchVars
  BY <1>1
<1>2. ASSUME NEW S \in SUBSET Orders, NEW ok \in BOOLEAN,
             \A o \in S : at[o] = "accepted", Registers(S, ok)
      PROVE  WatchTypes'
  BY <1>2 DEF Registers, Journals
<1>3. CASE RemembersCreds
  BY <1>3 DEF RemembersCreds
<1>4. ASSUME NEW stale \in SUBSET tracked, NEW written \in BOOLEAN, NEW ok \in BOOLEAN,
             PollStarts(stale, written, ok)
      PROVE  WatchTypes'
  BY <1>4 DEF PollStarts, Journals
<1>5. CASE PositionsFail
  BY <1>5 DEF PositionsFail, PollEnds
<1>6. ASSUME NEW error \in BOOLEAN, PositionsAnswered(error) PROVE WatchTypes'
  <2>1. {k \in {Key(o) : o \in entries} : error \/ ~Held(k)} \subseteq Keys
    BY DEF Key, ExchangeTypes, Items
  <2> QED
    BY <1>6, <2>1 DEF PositionsAnswered, PollEnds
<1>7. ASSUME NEW k \in flat, NEW R \in SUBSET Orders, NEW ok \in BOOLEAN, NEW id \in [R -> Orders],
             Records(k, R, id, ok)
      PROVE  WatchTypes'
  BY <1>7 DEF Records, Journals, PollEnds
<1>8. CASE WatcherReloads
  <2>1. journal.tracked \subseteq taken /\ journal.recorded \subseteq taken
    OBVIOUS
  <2>2. tracked' \subseteq taken /\ recorded' \subseteq taken /\ entries' = {}
    BY <1>8, <2>1 DEF WatcherReloads, PollEnds
  <2>3. /\ dead' = dead /\ misled' = misled /\ journal' = journal
        /\ creds' = FALSE /\ flat' = {} /\ pollpc' = "idle" /\ named' = named
    BY <1>8 DEF WatcherReloads, PollEnds
  <2>4. journal' \in [tracked : SUBSET taken', recorded : SUBSET taken']
    BY <2>1, <2>3
  <2>5. {tracked', recorded', dead', entries', misled'} \subseteq SUBSET taken'
    BY <2>2, <2>3
  <2>6. /\ creds' \in BOOLEAN /\ flat' \subseteq Keys /\ pollpc' \in {"idle", "positions", "orders"}
        /\ named' \in [Orders -> SUBSET Orders]
    BY <2>3
  <2> QED
    BY <2>4, <2>5, <2>6
<1> HIDE DEF TypeInv, TypeOK, OrderInv, WatchTypes, watchVars, pollVars
<1> QED
  BY <1>1, <1>2, <1>3, <1>4, <1>5, <1>6, <1>7, <1>8 DEF WatchStep

LEMMA OutboxTypesStep == OutboxTypes /\ OutboxStep => OutboxTypes'
<1> SUFFICES ASSUME OutboxTypes, OutboxStep PROVE OutboxTypes'
  OBVIOUS
<1> USE DEF OutboxTypes, outboxVars
<1>1. CASE UNCHANGED outboxVars
  BY <1>1
<1>2. ASSUME NEW S \in SUBSET Orders, Enqueues(S) PROVE OutboxTypes'
  BY <1>2, LiveConstants DEF Enqueues
<1>3. ASSUME NEW ok \in BOOLEAN,
             \/ BufferFlushes(ok)
             \/ \E o \in waiting : SyncBegins(o, ok)
             \/ \E acked \in SUBSET posted : PostAnswered(acked, ok)
      PROVE  OutboxTypes'
  BY <1>3 DEF BufferFlushes, SyncBegins, PostAnswered, Persists
<1>4. CASE FlushBegins \/ (\E arrived \in SUBSET posted : PostFails(arrived)) \/ Rotates
  BY <1>4 DEF FlushBegins, PostFails, Rotates
<1>5. CASE OutboxReloads
  BY <1>5 DEF OutboxReloads, Persists
<1> QED
  BY <1>1, <1>2, <1>3, <1>4, <1>5 DEF OutboxStep

\* The variables of LiveTrading itself.
OwnTypes ==
  /\ at \in [Orders -> Places] /\ grids \subseteq SUBSET Orders
  /\ {claims, claimFile, slipped} \subseteq SUBSET (Keys \X Events)
  /\ lastClose \in {"never", "recent", "late"}
  /\ {mislaid, adrift, orphaned, behind} \subseteq SUBSET Orders

LEMMA OwnTypesStep == TypeInv /\ [Next]_vars => OwnTypes'
<1> SUFFICES ASSUME TypeInv, [Next]_vars PROVE OwnTypes'
  OBVIOUS
<1>1. CASE UNCHANGED vars
  BY <1>1 DEF vars, OwnTypes, TypeInv, TypeOK, orderVars, claimVars, crashVars
<1>2. CASE Evaluated
  BY <1>2 DEF Evaluated, OwnTypes, TypeInv, TypeOK, orderVars, claimVars, crashVars
<1>3. ASSUME NEW S \in SUBSET Orders, NEW s \in Severities, Gate(S, s)
      PROVE  OwnTypes'
  BY <1>3 DEF Gate, Moved, Places, OwnTypes, TypeInv, TypeOK, orderVars, claimVars,
     crashVars
<1>4. ASSUME NEW o \in Orders, GivesUp(o) \/ Ambiguous(o) PROVE OwnTypes'
  BY <1>4 DEF GivesUp, Ambiguous, Moved, Places, OwnTypes, TypeInv, TypeOK,
     orderVars, claimVars, crashVars
<1>5. ASSUME NEW o \in Orders, NEW ok \in BOOLEAN, Barred(o, ok) \/ Declined(o, ok)
      PROVE  OwnTypes'
  <2>1. Claim(o) \in Keys \X Events
    BY DEF Claim, Key, ExchangeTypes, Items, TypeInv, TypeOK
  <2> QED
    BY <1>5, <2>1 DEF Barred, Declined, Claims, Releases, Moved, Places, OwnTypes,
       TypeInv, TypeOK, orderVars, claimVars, crashVars
<1>6. ASSUME NEW o \in Orders, NEW ok \in BOOLEAN, Acknowledged(o, ok)
      PROVE  OwnTypes'
  BY <1>6 DEF Acknowledged, Moved, Places, OwnTypes, TypeInv, TypeOK, orderVars,
     claimVars, crashVars
<1>7. ASSUME NEW o \in Orders, NEW ok \in BOOLEAN, Cancelled(o, ok) PROVE OwnTypes'
  BY <1>7 DEF Cancelled, OwnTypes, TypeInv, TypeOK, orderVars, claimVars, crashVars
<1>8. ASSUME NEW o \in Orders, NEW ok \in BOOLEAN,
             NEW fate \in {"accepted", "refused", "unreached"}, Sends(o, fate, ok)
      PROVE  OwnTypes'
  <2>1. Claim(o) \in Keys \X Events
    BY DEF Claim, Key, ExchangeTypes, Items, TypeInv, TypeOK
  <2> QED
    BY <1>8, <2>1 DEF Sends, Claims, Moved, Places, OwnTypes, TypeInv, TypeOK,
       orderVars, claimVars, crashVars
<1>9. ASSUME NEW G \in grids, NEW ok \in BOOLEAN, NEW S \in SUBSET G, NEW again \in SUBSET Orders,
             GridSends(G, S, again, ok)
      PROVE  OwnTypes'
  BY <1>9 DEF GridSends, Places, OwnTypes, TypeInv, TypeOK, orderVars, claimVars,
     crashVars
<1>10. ASSUME NEW G \in grids, NEW ok \in BOOLEAN, NEW S \in SUBSET G, GridAnswered(G, S, ok)
      PROVE  OwnTypes'
  BY <1>10 DEF GridAnswered, Moved, Places, OwnTypes, TypeInv, TypeOK, orderVars,
     claimVars, crashVars
<1>11. ASSUME NEW o \in Orders, TriggerTimer(o) \/ TriggerExpires(o) \/ FillDetected(o)
      PROVE  OwnTypes'
  BY <1>11 DEF TriggerTimer, TriggerExpires, FillDetected, BookOnly, OwnTypes,
     TypeInv, TypeOK, orderVars, claimVars, crashVars
<1>12. ASSUME NEW stale \in SUBSET tracked, NEW written \in BOOLEAN, NEW ok \in BOOLEAN,
             Polls(stale, written, ok)
      PROVE  OwnTypes'
  BY <1>12 DEF Polls, WatchOnly, Places, WatchTypes, ExchangeTypes, OwnTypes,
     TypeInv, TypeOK, orderVars, claimVars, crashVars
<1>13. ASSUME NEW error \in BOOLEAN, PositionsCome(error) PROVE OwnTypes'
  BY <1>13 DEF PositionsCome, WatchOnly, OwnTypes, TypeInv, TypeOK, orderVars,
     claimVars, crashVars
<1>14. CASE PositionsLost
  BY <1>14 DEF PositionsLost, WatchOnly, OwnTypes, TypeInv, TypeOK, orderVars,
     claimVars, crashVars
<1>15. ASSUME NEW k \in flat, NEW R \in SUBSET Orders, NEW ok \in BOOLEAN, NEW id \in [R -> Orders],
             HistoryComes(k, R, id, ok)
      PROVE  OwnTypes'
  BY <1>15 DEF HistoryComes, OwnTypes, TypeInv, TypeOK, orderVars, claimVars, crashVars
<1>16. CASE Reports \/ Flushes \/ ReportFails \/ Rotation
  BY <1>16 DEF Reports, Flushes, ReportFails, Rotation, OutboxOnly, OwnTypes, TypeInv, TypeOK,
     orderVars, claimVars, crashVars
<1>17. CASE Market
  BY <1>17 DEF Market, OwnTypes, TypeInv, TypeOK, orderVars, claimVars, crashVars
<1>18. CASE Time
  BY <1>18 DEF Time, OwnTypes, TypeInv, TypeOK, orderVars, claimVars, crashVars
<1>19. CASE Crash
  BY <1>19, LiveConstants DEF Crash, Places, WatchTypes, ExchangeTypes, OutboxTypes,
     OwnTypes, TypeInv, TypeOK, orderVars, claimVars, crashVars
<1> QED
  BY <1>1, <1>2, <1>3, <1>4, <1>5, <1>6, <1>7, <1>8, <1>9, <1>10, <1>11, <1>12,
     <1>13, <1>14,
     <1>15, <1>16, <1>17, <1>18, <1>19 DEF Next

LEMMA BudgetTypeStep == TypeInv /\ [Next]_vars => budget' \in [Bounded -> Nat]
<1> SUFFICES ASSUME TypeInv, [Next]_vars PROVE budget' \in [Bounded -> Nat]
  OBVIOUS
<1>s. \A what \in Bounded : Spends(what) => budget' \in [Bounded -> Nat]
  BY DEF TypeInv, TypeOK, Spends
<1>1. CASE UNCHANGED vars
  BY <1>1, <1>s DEF vars, TypeInv, TypeOK, Works, Bounded
<1>2. CASE Evaluated
  BY <1>2, <1>s DEF Evaluated, Evaluates, TypeInv, TypeOK, Works, Bounded
<1>3. ASSUME NEW S \in SUBSET Orders, NEW s \in Severities, Gate(S, s)
      PROVE  budget' \in [Bounded -> Nat]
  BY <1>3, <1>s DEF Gate, Admits, Evaluates, TypeInv, TypeOK, Works, Bounded
<1>4. ASSUME NEW o \in Orders, GivesUp(o) \/ Ambiguous(o)
      PROVE  budget' \in [Bounded -> Nat]
  BY <1>4, <1>s DEF GivesUp, Ambiguous, TypeInv, TypeOK, Works, Bounded
<1>5. ASSUME NEW o \in Orders, NEW ok \in BOOLEAN, Barred(o, ok) \/ Declined(o, ok)
      PROVE  budget' \in [Bounded -> Nat]
  BY <1>5, <1>s DEF Barred, Declined, TypeInv, TypeOK, Works, Bounded
<1>6. ASSUME NEW o \in Orders, NEW ok \in BOOLEAN, Acknowledged(o, ok)
      PROVE  budget' \in [Bounded -> Nat]
  BY <1>6, <1>s DEF Acknowledged, TypeInv, TypeOK, Works, Bounded
<1>7. ASSUME NEW o \in Orders, NEW ok \in BOOLEAN, Cancelled(o, ok)
      PROVE  budget' \in [Bounded -> Nat]
  BY <1>7, <1>s DEF Cancelled, TypeInv, TypeOK, Works, Bounded
<1>8. ASSUME NEW o \in Orders, NEW ok \in BOOLEAN,
             NEW fate \in {"accepted", "refused", "unreached"}, Sends(o, fate, ok)
      PROVE  budget' \in [Bounded -> Nat]
  BY <1>8, <1>s DEF Sends, TypeInv, TypeOK, Works, Bounded
<1>9. ASSUME NEW G \in grids, NEW ok \in BOOLEAN, NEW S \in SUBSET G, NEW again \in SUBSET Orders,
             GridSends(G, S, again, ok)
      PROVE  budget' \in [Bounded -> Nat]
  BY <1>9, <1>s DEF GridSends, TypeInv, TypeOK, Works, Bounded
<1>10. ASSUME NEW G \in grids, NEW ok \in BOOLEAN, NEW S \in SUBSET G, GridAnswered(G, S, ok)
      PROVE  budget' \in [Bounded -> Nat]
  BY <1>10, <1>s DEF GridAnswered, TypeInv, TypeOK, Works, Bounded
<1>11. ASSUME NEW o \in Orders, TriggerTimer(o) \/ TriggerExpires(o) \/ FillDetected(o)
      PROVE  budget' \in [Bounded -> Nat]
  BY <1>11, <1>s DEF TriggerTimer, TriggerExpires, FillDetected, BookOnly, TypeInv,
     TypeOK, Works, Bounded
<1>12. ASSUME NEW stale \in SUBSET tracked, NEW written \in BOOLEAN, NEW ok \in BOOLEAN,
             Polls(stale, written, ok)
      PROVE  budget' \in [Bounded -> Nat]
  <2>1. /\ budget.polls \in Nat /\ budget.polls - 1 \in Nat
        /\ stale # {} => budget.stale - 1 \in Nat
        /\ ~ok => budget.failures - 1 \in Nat
        /\ budget.stale \in Nat /\ budget.failures \in Nat /\ budget \in [Bounded -> Nat]
    BY <1>12 DEF Polls, TypeInv, TypeOK, Bounded
  <2> QED
    BY <1>12, <2>1 DEF Polls
<1>13. ASSUME NEW error \in BOOLEAN, PositionsCome(error)
      PROVE  budget' \in [Bounded -> Nat]
  BY <1>13, <1>s DEF PositionsCome, WatchOnly, TypeInv, TypeOK, Works, Bounded
<1>14. CASE PositionsLost
  BY <1>14, <1>s DEF PositionsLost, WatchOnly, TypeInv, TypeOK, Works, Bounded
<1>15. ASSUME NEW k \in flat, NEW R \in SUBSET Orders, NEW ok \in BOOLEAN, NEW id \in [R -> Orders],
             HistoryComes(k, R, id, ok)
      PROVE  budget' \in [Bounded -> Nat]
  BY <1>15, <1>s DEF HistoryComes, TypeInv, TypeOK, Works, Bounded
<1>16. CASE Reports \/ Flushes \/ ReportFails \/ Rotation
  BY <1>16, <1>s DEF Reports, Flushes, ReportFails, Rotation, OutboxOnly, TypeInv, TypeOK,
     Works, Bounded
<1>17. CASE Market
  BY <1>17, <1>s DEF Market, TypeInv, TypeOK, Works, Bounded
<1>18. CASE Time
  BY <1>18, <1>s DEF Time, TypeInv, TypeOK, Works, Bounded
<1>19. CASE Crash
  BY <1>19, <1>s DEF Crash, TypeInv, TypeOK, Works, Bounded
<1> QED
  BY <1>1, <1>2, <1>3, <1>4, <1>5, <1>6, <1>7, <1>8, <1>9, <1>10, <1>11, <1>12,
     <1>13, <1>14,
     <1>15, <1>16, <1>17, <1>18, <1>19 DEF Next

PlacedInv ==
  /\ \A o \in Orders : at[o] = "accepted" => o \in taken
  /\ \A o \in Orders : at[o] \in {"idle", "gated"} => o \notin taken
  /\ \A G \in grids : \A o \in G : Kind(o) = "grid"

LEMMA PlacedInvStep == TypeInv /\ [Next]_vars => PlacedInv'
<1> SUFFICES ASSUME TypeInv, [Next]_vars PROVE PlacedInv'
  OBVIOUS
<1>1. CASE UNCHANGED vars
  BY <1>1 DEF vars, PlacedInv, TypeInv, TypeOK, OrderInv, exchangeVars, orderVars, Kind
<1>2. CASE Evaluated
  BY <1>2 DEF Evaluated, PlacedInv, TypeInv, TypeOK, OrderInv, exchangeVars,
     orderVars, Kind
<1>3. ASSUME NEW S \in SUBSET Orders, NEW s \in Severities, Gate(S, s)
      PROVE  PlacedInv'
  <2>1. IsFiniteSet(S)
    BY LiveConstants, FS_Subset
  <2>2. (\E x : S = {x}) \/ \A o \in S : Kind(o) = "grid"
    BY <1>3, <2>1, FS_Singleton DEF Gate
  <2>3. (\E o \in S : Kind(o) = "grid") => \A o \in S : Kind(o) = "grid"
    BY <2>2
  <2>4. grids' \subseteq grids \cup {S} /\ (grids' # grids => \E o \in S : Kind(o) = "grid")
    BY <1>3 DEF Gate
  <2>5. /\ at' = Moved(S, "gated") /\ taken' = taken /\ item' = item
        /\ \A o \in S : at[o] = "idle"
    BY <1>3 DEF Gate, exchangeVars
  <2>6. \A G \in grids' : \A o \in G : Kind(o)' = "grid"
    BY <2>3, <2>4, <2>5 DEF Kind, TypeInv, OrderInv
  <2>7. /\ \A o \in Orders : at'[o] = "accepted" => o \in taken'
        /\ \A o \in Orders : at'[o] \in {"idle", "gated"} => o \notin taken'
    BY <2>5 DEF Moved, TypeInv, OrderInv
  <2> QED
    BY <2>6, <2>7 DEF PlacedInv
<1>4. ASSUME NEW o \in Orders, GivesUp(o) \/ Ambiguous(o) PROVE PlacedInv'
  BY <1>4 DEF GivesUp, Ambiguous, Moved, PlacedInv, TypeInv, TypeOK, OrderInv,
     exchangeVars, orderVars, Kind
<1>5. ASSUME NEW o \in Orders, NEW ok \in BOOLEAN, Barred(o, ok) \/ Declined(o, ok)
      PROVE  PlacedInv'
  BY <1>5 DEF Barred, Declined, Moved, PlacedInv, TypeInv, TypeOK, OrderInv,
     exchangeVars, orderVars, Kind
<1>6. ASSUME NEW o \in Orders, NEW ok \in BOOLEAN, Acknowledged(o, ok)
      PROVE  PlacedInv'
  BY <1>6 DEF Acknowledged, Moved, PlacedInv, TypeInv, TypeOK, OrderInv,
     exchangeVars, orderVars, Kind
<1>7. ASSUME NEW o \in Orders, NEW ok \in BOOLEAN, Cancelled(o, ok) PROVE PlacedInv'
  BY <1>7 DEF Cancelled, Unbooks, PlacedInv, TypeInv, TypeOK, OrderInv, exchangeVars,
     orderVars, Kind
<1>8. ASSUME NEW o \in Orders, NEW ok \in BOOLEAN,
             NEW fate \in {"accepted", "refused", "unreached"}, Sends(o, fate, ok)
      PROVE  PlacedInv'
  BY <1>8 DEF Sends, Moved, Accepts, PlacedInv, TypeInv, TypeOK, OrderInv,
     exchangeVars, orderVars, Kind
<1>9. ASSUME NEW G \in grids, NEW ok \in BOOLEAN, NEW S \in SUBSET G, NEW again \in SUBSET Orders,
             GridSends(G, S, again, ok)
      PROVE  PlacedInv'
  BY <1>9 DEF GridSends, Accepts, PlacedInv, TypeInv, TypeOK, OrderInv, exchangeVars,
     orderVars, Kind
<1>10. ASSUME NEW G \in grids, NEW ok \in BOOLEAN, NEW S \in SUBSET G, GridAnswered(G, S, ok)
      PROVE  PlacedInv'
  BY <1>10 DEF GridAnswered, Moved, PlacedInv, TypeInv, TypeOK, OrderInv,
     exchangeVars, orderVars, Kind
<1>11. ASSUME NEW o \in Orders, TriggerTimer(o) \/ TriggerExpires(o) \/ FillDetected(o)
      PROVE  PlacedInv'
  BY <1>11 DEF TriggerTimer, TriggerExpires, FillDetected, BookOnly, PlacedInv,
     TypeInv, TypeOK, OrderInv, exchangeVars, orderVars, Kind
<1>12. ASSUME NEW stale \in SUBSET tracked, NEW written \in BOOLEAN, NEW ok \in BOOLEAN,
             Polls(stale, written, ok)
      PROVE  PlacedInv'
  BY <1>12 DEF Polls, WatchOnly, PlacedInv, TypeInv, TypeOK, OrderInv, exchangeVars,
     orderVars, Kind
<1>13. ASSUME NEW error \in BOOLEAN, PositionsCome(error) PROVE PlacedInv'
  BY <1>13 DEF PositionsCome, WatchOnly, PlacedInv, TypeInv, TypeOK, OrderInv,
     exchangeVars, orderVars, Kind
<1>14. CASE PositionsLost
  BY <1>14 DEF PositionsLost, WatchOnly, PlacedInv, TypeInv, TypeOK, OrderInv,
     exchangeVars, orderVars, Kind
<1>15. ASSUME NEW k \in flat, NEW R \in SUBSET Orders, NEW ok \in BOOLEAN, NEW id \in [R -> Orders],
             HistoryComes(k, R, id, ok)
      PROVE  PlacedInv'
  BY <1>15 DEF HistoryComes, PlacedInv, TypeInv, TypeOK, OrderInv, exchangeVars,
     orderVars, Kind
<1>16. CASE Reports \/ Flushes \/ ReportFails \/ Rotation
  BY <1>16 DEF Reports, Flushes, ReportFails, Rotation, OutboxOnly, PlacedInv, TypeInv, TypeOK,
     OrderInv, exchangeVars, orderVars, Kind
<1>17. CASE Market
  BY <1>17 DEF Market, Closes, Fills, PlacedInv, TypeInv, TypeOK, OrderInv,
     exchangeVars, orderVars, Kind
<1>18. CASE Time
  BY <1>18 DEF Time, PlacedInv, TypeInv, TypeOK, OrderInv, exchangeVars, orderVars, Kind
<1>19. CASE Crash
  BY <1>19 DEF Crash, PlacedInv, TypeInv, TypeOK, OrderInv, exchangeVars, orderVars,
     Kind
<1> QED
  BY <1>1, <1>2, <1>3, <1>4, <1>5, <1>6, <1>7, <1>8, <1>9, <1>10, <1>11, <1>12,
     <1>13, <1>14,
     <1>15, <1>16, <1>17, <1>18, <1>19 DEF Next

LEMMA RestsStep ==
  ASSUME TypeInv, ExchangeStep
  PROVE  (\A o \in rests : Kind(o) # "market")'
<1>1. \A o \in rests : Kind(o) # "market"
  BY DEF TypeInv, OrderInv
<1> QED
  BY <1>1 DEF ExchangeStep, exchangeVars, Accepts, Closes, Unbooks, Fills, Kind

LEMMA TypeInvStep == TypeInv /\ [Next]_vars => TypeInv'
<1> SUFFICES ASSUME TypeInv, [Next]_vars PROVE TypeInv'
  OBVIOUS
<1>1. KillStep /\ ExchangeStep /\ BookStep /\ WatchStep /\ OutboxStep
  BY ComponentSteps DEF Components
<1>2. ExchangeTypes' /\ taken \subseteq taken' /\ taken' \subseteq Orders
  BY <1>1, ExchangeTypesStep DEF ExchangeTypes
<1>3. KillTypes' /\ BookTypes' /\ Armed' \subseteq taken' /\ WatchTypes' /\ OutboxTypes'
  BY <1>1, <1>2, KillTypesStep, BookTypesStep, WatchTypesStep, OutboxTypesStep
  DEF TypeInv, TypeOK
<1>4. OwnTypes' /\ budget' \in [Bounded -> Nat]
  BY OwnTypesStep, BudgetTypeStep
<1>5. PlacedInv' /\ (\A o \in rests : Kind(o) # "market")'
  BY <1>1, PlacedInvStep, RestsStep
<1> QED
  BY <1>2, <1>3, <1>4, <1>5 DEF TypeInv, TypeOK, OwnTypes, OrderInv, PlacedInv

LEMMA TypeInvariant == Spec => []TypeInv
  BY TypeInvInit, TypeInvStep, PTL DEF Spec

\* Every variable keeps to its type, and triggers, the watcher and its files
\* know only orders that the exchange has accepted.
THEOREM TypeCorrect == Spec => []TypeOK
<1>1. TypeInv => TypeOK
  BY DEF TypeInv
<1> QED
  BY <1>1, TypeInvariant, PTL

-----------------------------------------------------------------------------
(* The kill switch. *)

\* In a state that allows more than a quarter no recovery is due, nor is one
\* once it has lasted long enough.
KillInv ==
  /\ KillTypes
  /\ kill \in {"RUNNING", "RESUME", "CAUTION"} => probation # "due"
  /\ kill = "RECOVERY" /\ ripe => probation # "due"

LEMMA KillInvStep == KillInv /\ KillStep => KillInv'
<1> SUFFICES ASSUME KillInv, KillStep PROVE KillInv'
  OBVIOUS
<1> USE DEF KillInv, KillTypes, killVars
<1>1. CASE UNCHANGED killVars
  BY <1>1
<1>2. ASSUME NEW s \in Severities, pushTransition(Verdict(s)) PROVE KillInv'
  <2>1. Verdict(s) \in KillStates
    BY DEF Verdict, KillStates, Pauses
  <2>2. \/ Verdict(s) = kill \/ Verdict(s) \in Pauses \/ Verdict(s) = "RECOVERY"
        \/ kill = "RECOVERY" /\ ripe
        \/ kill \in {"RUNNING", "RESUME", "CAUTION"}
    BY DEF Verdict, KillStates, Pauses
  <2> QED
    BY <1>2, <2>1, <2>2 DEF pushTransition, Pauses
<1>3. CASE Cools \/ Ripens
  BY <1>3 DEF Cools, Ripens, Pauses
<1>4. CASE SwitchForgets
  BY <1>4 DEF SwitchForgets, KillStates
<1> QED
  BY <1>1, <1>2, <1>3, <1>4 DEF KillStep

\* What asks the kill switch passes it only where it admits entries.
LEMMA AsksStep ==
  TypeInv /\ [Next]_vars => \A o \in Orders : Asks(o) => kill' \notin Pauses
<1> SUFFICES ASSUME TypeInv, [Next]_vars, NEW a \in Orders, Asks(a) PROVE kill' \notin Pauses
  OBVIOUS
<1> USE DEF TypeInv, TypeOK, Asks, orderVars
<1>1. CASE UNCHANGED vars
  BY <1>1 DEF vars
<1>2. CASE Evaluated
  BY <1>2 DEF Evaluated
<1>3. ASSUME NEW S \in SUBSET Orders, NEW s \in Severities, Gate(S, s) PROVE kill' \notin Pauses
  <2>1. a \in S
    BY <1>3 DEF Gate, Moved
  <2> QED
    BY <1>3, <2>1 DEF Gate, Admits
<1>4. ASSUME NEW o \in Orders, GivesUp(o) \/ Ambiguous(o) PROVE FALSE
  BY <1>4 DEF GivesUp, Ambiguous, Moved
<1>5. ASSUME NEW o \in Orders, NEW ok \in BOOLEAN,
             Barred(o, ok) \/ Declined(o, ok) \/ Acknowledged(o, ok) \/ Cancelled(o, ok)
      PROVE  FALSE
  BY <1>5 DEF Barred, Declined, Acknowledged, Cancelled, Moved
<1>6. ASSUME NEW o \in Orders, NEW ok \in BOOLEAN,
             NEW fate \in {"accepted", "refused", "unreached"}, Sends(o, fate, ok)
      PROVE  FALSE
  BY <1>6 DEF Sends, Moved
<1>7. ASSUME NEW G \in grids, NEW ok \in BOOLEAN, NEW S \in SUBSET G, NEW again \in SUBSET Orders,
             GridSends(G, S, again, ok)
      PROVE  FALSE
  BY <1>7 DEF GridSends
<1>8. ASSUME NEW G \in grids, NEW ok \in BOOLEAN, NEW S \in SUBSET G, GridAnswered(G, S, ok)
      PROVE  FALSE
  BY <1>8 DEF GridAnswered, Moved
<1>9. ASSUME NEW o \in Orders, TriggerTimer(o) \/ TriggerExpires(o) \/ FillDetected(o)
      PROVE  FALSE
  BY <1>9 DEF TriggerTimer, TriggerExpires, FillDetected, BookOnly
<1>10. ASSUME NEW stale \in SUBSET tracked, NEW written \in BOOLEAN, NEW ok \in BOOLEAN,
             Polls(stale, written, ok)
      PROVE  FALSE
  BY <1>10 DEF Polls, WatchOnly
<1>11. ASSUME NEW error \in BOOLEAN, PositionsCome(error) \/ PositionsLost PROVE FALSE
  BY <1>11 DEF PositionsCome, PositionsLost, WatchOnly
<1>12. ASSUME NEW k \in flat, NEW R \in SUBSET Orders, NEW ok \in BOOLEAN, NEW id \in [R -> Orders],
             HistoryComes(k, R, id, ok)
      PROVE  FALSE
  BY <1>12 DEF HistoryComes
<1>13. CASE Reports \/ Flushes \/ ReportFails \/ Rotation
  BY <1>13 DEF Reports, Flushes, ReportFails, Rotation, OutboxOnly
<1>14. CASE Market \/ Time
  BY <1>14 DEF Market, Time
<1>15. CASE Crash
  BY <1>15 DEF Crash
<1> QED
  BY <1>1, <1>2, <1>3, <1>4, <1>5, <1>6, <1>7, <1>8, <1>9, <1>10, <1>11, <1>12,
     <1>13, <1>14, <1>15 DEF Next

Allowing ==
  \A o \in Orders : Asks(o) => kill' = "RECOVERY" \/ (kill' \notin Pauses /\ probation' # "due")

\* After a pause no entry that asks the kill switch is admitted at more than a
\* quarter of its size before a recovery has lasted long enough, unless a restart
\* has cleared the pause.
THEOREM ProbationServedHolds == Spec => ProbationServed
<1>1. Init => KillInv
  BY DEF Init, KillInit, KillInv, KillTypes, KillStates
<1>2. KillInv /\ KillStep => KillInv'
  BY KillInvStep
<1>3. TypeInv /\ KillInv' /\ [Next]_vars => Allowing
  BY AsksStep DEF KillInv, KillTypes, KillStates, Pauses, Allowing
<1>4. ProbationServed <=> [][Allowing]_vars
  BY DEF ProbationServed, Allowing
<1> QED
  BY <1>1, <1>2, <1>3, <1>4, ComponentSteps, TypeInvariant, PTL DEF Spec, Components

-----------------------------------------------------------------------------
(* The watcher.  Its journal lags behind its memory by the failed writes     *)
(* only, so that a restart finds what was tracked or recorded.               *)

JournalInv ==
  /\ tracked \cup recorded \subseteq journal.tracked \cup journal.recorded \cup mislaid
  /\ journal.recorded \subseteq recorded
  /\ entries \subseteq tracked \cup recorded
  /\ pollpc = "idle" => entries = {}

AccountInv == JournalInv /\ EntriesAccounted

LEMMA AccountInvStep == TypeInv /\ AccountInv /\ [Next]_vars => AccountInv'
<1> SUFFICES ASSUME TypeInv, AccountInv, [Next]_vars PROVE AccountInv'
  OBVIOUS
<1>1. CASE UNCHANGED vars
  BY <1>1 DEF vars, AccountInv, JournalInv, EntriesAccounted, exchangeVars,
     orderVars, crashVars, watchVars, pollVars
<1>2. CASE Evaluated
  BY <1>2 DEF Evaluated, AccountInv, JournalInv, EntriesAccounted, exchangeVars,
     orderVars, crashVars, watchVars, pollVars
<1>3. ASSUME NEW S \in SUBSET Orders, NEW s \in Severities, Gate(S, s)
      PROVE  AccountInv'
  BY <1>3 DEF Gate, Moved, AccountInv, JournalInv, EntriesAccounted, exchangeVars,
     orderVars, crashVars, watchVars, pollVars
<1>4. ASSUME NEW o \in Orders, GivesUp(o) \/ Ambiguous(o) PROVE AccountInv'
  BY <1>4 DEF GivesUp, Ambiguous, Moved, AccountInv, JournalInv, EntriesAccounted,
     exchangeVars, orderVars, crashVars, watchVars, pollVars
<1>5. ASSUME NEW o \in Orders, NEW ok \in BOOLEAN, Barred(o, ok) \/ Declined(o, ok)
      PROVE  AccountInv'
  BY <1>5 DEF Barred, Declined, Moved, AccountInv, JournalInv, EntriesAccounted,
     exchangeVars, orderVars, crashVars, watchVars, pollVars
<1>6. ASSUME NEW o \in Orders, NEW ok \in BOOLEAN, Acknowledged(o, ok)
      PROVE  AccountInv'
  BY <1>6 DEF Acknowledged, Moved, Registers, Journals, AccountInv, JournalInv,
     EntriesAccounted, exchangeVars, orderVars, crashVars, watchVars, pollVars
<1>7. ASSUME NEW o \in Orders, NEW ok \in BOOLEAN, Cancelled(o, ok)
      PROVE  AccountInv'
  BY <1>7 DEF Cancelled, Unbooks, AccountInv, JournalInv, EntriesAccounted,
     exchangeVars, orderVars, crashVars, watchVars, pollVars
<1>8. ASSUME NEW o \in Orders, NEW ok \in BOOLEAN,
             NEW fate \in {"accepted", "refused", "unreached"}, Sends(o, fate, ok)
      PROVE  AccountInv'
  BY <1>8 DEF Sends, Moved, Accepts, AccountInv, JournalInv, EntriesAccounted,
     exchangeVars, orderVars, crashVars, watchVars, pollVars
<1>9. ASSUME NEW G \in grids, NEW ok \in BOOLEAN, NEW S \in SUBSET G, NEW again \in SUBSET Orders,
             GridSends(G, S, again, ok)
      PROVE  AccountInv'
  BY <1>9 DEF GridSends, Accepts, RemembersCreds, TypeInv, TypeOK, AccountInv,
     JournalInv, EntriesAccounted, exchangeVars, orderVars, crashVars, watchVars,
     pollVars
<1>10. ASSUME NEW G \in grids, NEW ok \in BOOLEAN, NEW S \in SUBSET G, GridAnswered(G, S, ok)
      PROVE  AccountInv'
  <2> DEFINE acked == {o \in G \ S : at[o] = "accepted"}
                written == ok \/ S # {}
  <2>1. /\ tracked' = tracked \cup (acked \ recorded)
        /\ UNCHANGED <<recorded, dead, pollVars, taken, adrift>>
        /\ at' = Moved(G, "done")
        /\ mislaid' = mislaid \cup S \cup IF written THEN {} ELSE acked
        /\ S \subseteq {o \in G : at[o] = "accepted"}
    BY <1>10 DEF GridAnswered, Registers, exchangeVars, crashVars
  <2>2. \/ journal' = [tracked |-> tracked', recorded |-> recorded'] /\ written
        \/ journal' = journal /\ (acked \subseteq recorded \/ ~written)
    BY <1>10 DEF GridAnswered, Registers, Journals
  <2>3. JournalInv'
    <3>1. CASE journal' = [tracked |-> tracked', recorded |-> recorded']
      BY <2>1, <3>1 DEF AccountInv, JournalInv, pollVars
    <3>2. CASE journal' = journal /\ (acked \subseteq recorded \/ ~written)
      BY <2>1, <3>2 DEF AccountInv, JournalInv, pollVars
    <3> QED
      BY <2>2, <3>1, <3>2
  <2>4. EntriesAccounted'
    BY <2>1 DEF AccountInv, EntriesAccounted, Moved, TypeInv, TypeOK, ExchangeTypes
  <2> QED
    BY <2>3, <2>4 DEF AccountInv
<1>11. ASSUME NEW o \in Orders, TriggerTimer(o) \/ TriggerExpires(o) \/ FillDetected(o)
      PROVE  AccountInv'
  BY <1>11 DEF TriggerTimer, TriggerExpires, FillDetected, BookOnly, AccountInv,
     JournalInv, EntriesAccounted, exchangeVars, orderVars, crashVars, watchVars,
     pollVars
<1>12. ASSUME NEW stale \in SUBSET tracked, NEW written \in BOOLEAN, NEW ok \in BOOLEAN,
             Polls(stale, written, ok)
      PROVE  AccountInv'
  <2>1. /\ entries \subseteq tracked' \cup recorded' /\ tracked' = tracked \ stale
        /\ UNCHANGED <<recorded, taken, adrift, at>>
        /\ mislaid' = IF written THEN mislaid ELSE mislaid \cup stale
        /\ dead' = IF written THEN dead \cup stale ELSE dead
    BY <1>12 DEF Polls, PollStarts, WatchOnly, exchangeVars, orderVars, crashVars,
       AccountInv, JournalInv
  <2>2. /\ entries' \subseteq tracked' \cup recorded'
        /\ pollpc' = "idle" => entries' = {}
    BY <1>12, <2>1 DEF Polls, PollStarts, pollVars, AccountInv, JournalInv
  <2>3. \/ journal' = [tracked |-> tracked', recorded |-> recorded']
        \/ journal' = journal
    BY <1>12 DEF Polls, PollStarts, Journals
  <2>4. JournalInv'
    BY <2>1, <2>2, <2>3 DEF AccountInv, JournalInv
  <2>5. EntriesAccounted'
    BY <2>1 DEF AccountInv, EntriesAccounted
  <2> QED
    BY <2>4, <2>5 DEF AccountInv
<1>13. ASSUME NEW error \in BOOLEAN, PositionsCome(error) PROVE AccountInv'
  BY <1>13 DEF PositionsCome, WatchOnly, PositionsAnswered, PollEnds, AccountInv,
     JournalInv, EntriesAccounted, exchangeVars, orderVars, crashVars, watchVars,
     pollVars
<1>14. CASE PositionsLost
  BY <1>14 DEF PositionsLost, WatchOnly, PositionsFail, PollEnds, AccountInv,
     JournalInv, EntriesAccounted, exchangeVars, orderVars, crashVars, watchVars,
     pollVars
<1>15. ASSUME NEW k \in flat, NEW R \in SUBSET Orders, NEW ok \in BOOLEAN, NEW id \in [R -> Orders],
             HistoryComes(k, R, id, ok)
      PROVE  AccountInv'
  <2>1. /\ R \subseteq entries \ recorded /\ R \subseteq tracked
        /\ recorded' = recorded \cup R /\ tracked' = tracked \ R
        /\ UNCHANGED <<dead, taken, adrift, at, mislaid>>
    BY <1>15 DEF HistoryComes, Records, exchangeVars, orderVars, crashVars,
       AccountInv, JournalInv
  <2>2. /\ entries' \subseteq entries
        /\ pollpc' = "idle" => entries' = {}
    BY <1>15 DEF HistoryComes, Records, PollEnds
  <2>3. \/ journal' = [tracked |-> tracked', recorded |-> recorded']
        \/ journal' = journal
    BY <1>15 DEF HistoryComes, Records, Journals
  <2>4. JournalInv'
    BY <2>1, <2>2, <2>3 DEF AccountInv, JournalInv
  <2>5. EntriesAccounted'
    BY <2>1 DEF AccountInv, EntriesAccounted
  <2> QED
    BY <2>4, <2>5 DEF AccountInv
<1>16. CASE Reports \/ Flushes \/ ReportFails \/ Rotation
  BY <1>16 DEF Reports, Flushes, ReportFails, Rotation, OutboxOnly, AccountInv, JournalInv,
     EntriesAccounted, exchangeVars, orderVars, crashVars, watchVars, pollVars
<1>17. CASE Market
  BY <1>17 DEF Market, Closes, Fills, AccountInv, JournalInv, EntriesAccounted,
     exchangeVars, orderVars, crashVars, watchVars, pollVars
<1>18. CASE Time
  BY <1>18 DEF Time, AccountInv, JournalInv, EntriesAccounted, exchangeVars,
     orderVars, crashVars, watchVars, pollVars
<1>19. CASE Crash
  BY <1>19 DEF Crash, WatcherReloads, PollEnds, AccountInv, JournalInv,
     EntriesAccounted, exchangeVars, orderVars, crashVars, watchVars, pollVars
<1> QED
  BY <1>1, <1>2, <1>3, <1>4, <1>5, <1>6, <1>7, <1>8, <1>9, <1>10, <1>11, <1>12,
     <1>13, <1>14,
     <1>15, <1>16, <1>17, <1>18, <1>19 DEF Next

\* Every accepted order is awaited, tracked, recorded or dead-lettered, but for
\* the unclear answers, the failed writes and the crashes that are to blame.
THEOREM EntriesAccountedHolds == Spec => []EntriesAccounted
<1>1. Init => AccountInv
  BY DEF Init, ExchangeInit, WatchInit, AccountInv, JournalInv, EntriesAccounted
<1>2. TypeInv /\ AccountInv /\ [Next]_vars => AccountInv'
  BY AccountInvStep
<1>3. AccountInv => EntriesAccounted
  BY DEF AccountInv
<1> QED
  BY <1>1, <1>2, <1>3, TypeInvariant, PTL DEF Spec

\* An entry that the poll under way may still record has no quantity any more,
\* unless the poll was misled: a market order never fills twice.
SeenInv ==
  /\ SeenClosed
  /\ \A o \in entries : Kind(o) = "market" /\ Key(o) \in flat => o \in misled \/ o \notin holds
  /\ pollpc # "orders" => flat = {}

LEMMA SeenInvStep == TypeInv /\ AccountInv /\ SeenInv /\ [Next]_vars => SeenInv'
<1> SUFFICES ASSUME TypeInv, AccountInv, SeenInv, [Next]_vars PROVE SeenInv'
  OBVIOUS
<1>1. CASE UNCHANGED vars
  BY <1>1 DEF vars, SeenInv, SeenClosed, exchangeVars, watchVars, pollVars, Kind, Key
<1>2. CASE Evaluated
  BY <1>2 DEF Evaluated, SeenInv, SeenClosed, exchangeVars, watchVars, pollVars,
     Kind, Key
<1>3. ASSUME NEW S \in SUBSET Orders, NEW s \in Severities, Gate(S, s)
      PROVE  SeenInv'
  BY <1>3 DEF Gate, SeenInv, SeenClosed, exchangeVars, watchVars, pollVars, Kind, Key
<1>4. ASSUME NEW o \in Orders, GivesUp(o) \/ Ambiguous(o) PROVE SeenInv'
  BY <1>4 DEF GivesUp, Ambiguous, SeenInv, SeenClosed, exchangeVars, watchVars,
     pollVars, Kind, Key
<1>5. ASSUME NEW o \in Orders, NEW ok \in BOOLEAN, Barred(o, ok) \/ Declined(o, ok)
      PROVE  SeenInv'
  BY <1>5 DEF Barred, Declined, SeenInv, SeenClosed, exchangeVars, watchVars,
     pollVars, Kind, Key
<1>6. ASSUME NEW o \in Orders, NEW ok \in BOOLEAN, Acknowledged(o, ok)
      PROVE  SeenInv'
  BY <1>6 DEF Acknowledged, Registers, SeenInv, SeenClosed, exchangeVars, watchVars,
     pollVars, Kind, Key
<1>7. ASSUME NEW o \in Orders, NEW ok \in BOOLEAN, Cancelled(o, ok) PROVE SeenInv'
  BY <1>7 DEF Cancelled, Unbooks, SeenInv, SeenClosed, exchangeVars, watchVars,
     pollVars, Kind, Key
<1>8. ASSUME NEW o \in Orders, NEW ok \in BOOLEAN,
             NEW fate \in {"accepted", "refused", "unreached"}, Sends(o, fate, ok)
      PROVE  SeenInv'
  BY <1>8 DEF Sends, Accepts, TypeInv, TypeOK, WatchTypes, OrderInv, SeenInv,
     SeenClosed, exchangeVars, watchVars, pollVars, Kind, Key
<1>9. ASSUME NEW G \in grids, NEW ok \in BOOLEAN, NEW S \in SUBSET G, NEW again \in SUBSET Orders,
             GridSends(G, S, again, ok)
      PROVE  SeenInv'
  BY <1>9 DEF GridSends, Accepts, RemembersCreds, TypeInv, TypeOK, WatchTypes,
     OrderInv, SeenInv, SeenClosed, exchangeVars, watchVars, pollVars, Kind, Key
<1>10. ASSUME NEW G \in grids, NEW ok \in BOOLEAN, NEW S \in SUBSET G, GridAnswered(G, S, ok)
      PROVE  SeenInv'
  BY <1>10 DEF GridAnswered, Registers, SeenInv, SeenClosed, exchangeVars, watchVars,
     pollVars, Kind, Key
<1>11. ASSUME NEW o \in Orders, TriggerTimer(o) \/ TriggerExpires(o) \/ FillDetected(o)
      PROVE  SeenInv'
  BY <1>11 DEF TriggerTimer, TriggerExpires, FillDetected, BookOnly, SeenInv,
     SeenClosed, exchangeVars, watchVars, pollVars, Kind, Key
<1>12. ASSUME NEW stale \in SUBSET tracked, NEW written \in BOOLEAN, NEW ok \in BOOLEAN,
             Polls(stale, written, ok)
      PROVE  SeenInv'
  BY <1>12 DEF Polls, WatchOnly, PollStarts, SeenInv, SeenClosed, exchangeVars,
     watchVars, pollVars, Kind, Key
<1>13. ASSUME NEW error \in BOOLEAN, PositionsCome(error) PROVE SeenInv'
  <2> DEFINE gone == {k \in {Key(o) : o \in entries} : error \/ ~Held(k)}
  <2>1. /\ UNCHANGED <<item, holds, recorded>> /\ misled \subseteq misled'
        /\ error => entries \subseteq misled'
        /\ \/ entries' = {} /\ flat' = {} /\ pollpc' = "idle"
           \/ entries' = entries /\ flat' = gone /\ pollpc' = "orders"
    BY <1>13 DEF PositionsCome, PositionsAnswered, PollEnds, WatchOnly, exchangeVars
  <2>2. \A o \in entries : Key(o) \in gone => error \/ o \notin holds
    BY DEF Held
  <2> QED
    BY <2>1, <2>2 DEF SeenInv, SeenClosed, Kind, Key
<1>14. CASE PositionsLost
  BY <1>14 DEF PositionsLost, WatchOnly, PositionsFail, PollEnds, SeenInv,
     SeenClosed, exchangeVars, watchVars, pollVars, Kind, Key
<1>15. ASSUME NEW k \in flat, NEW R \in SUBSET Orders, NEW ok \in BOOLEAN, NEW id \in [R -> Orders],
             HistoryComes(k, R, id, ok)
      PROVE  SeenInv'
  <2>1. /\ R \subseteq {o \in entries : Key(o) \in flat}
        /\ recorded' = recorded \cup R
        /\ UNCHANGED <<misled, holds, item>>
        /\ entries' \subseteq entries /\ flat' \subseteq flat
        /\ pollpc' # "orders" => flat' = {}
    BY <1>15 DEF HistoryComes, Records, PollEnds, exchangeVars, SeenInv
  <2> QED
    BY <2>1 DEF SeenInv, SeenClosed, Kind, Key
<1>16. CASE Reports \/ Flushes \/ ReportFails \/ Rotation
  BY <1>16 DEF Reports, Flushes, ReportFails, Rotation, OutboxOnly, SeenInv, SeenClosed,
     exchangeVars, watchVars, pollVars, Kind, Key
<1>17. CASE Market
  BY <1>17 DEF Market, Closes, Fills, TypeInv, TypeOK, WatchTypes, OrderInv, SeenInv,
     SeenClosed, exchangeVars, watchVars, pollVars, Kind, Key
<1>18. CASE Time
  BY <1>18 DEF Time, SeenInv, SeenClosed, exchangeVars, watchVars, pollVars, Kind, Key
<1>19. CASE Crash
  <2>1. /\ recorded' \subseteq recorded /\ entries' = {} /\ flat' = {}
        /\ UNCHANGED <<misled, holds, item>>
    BY <1>19 DEF Crash, WatcherReloads, PollEnds, exchangeVars, AccountInv, JournalInv
  <2> QED
    BY <2>1 DEF SeenInv, SeenClosed, Kind, Key
<1> QED
  BY <1>1, <1>2, <1>3, <1>4, <1>5, <1>6, <1>7, <1>8, <1>9, <1>10, <1>11, <1>12,
     <1>13, <1>14,
     <1>15, <1>16, <1>17, <1>18, <1>19 DEF Next

\* A market entry is recorded only when its quantity is closed, unless its poll
\* took an error answer for an empty account.
THEOREM SeenClosedHolds == Spec => []SeenClosed
<1>1. Init => AccountInv /\ SeenInv
  BY DEF Init, ExchangeInit, WatchInit, AccountInv, JournalInv, EntriesAccounted,
         SeenInv, SeenClosed
<1>2. TypeInv /\ AccountInv /\ [Next]_vars => AccountInv'
  BY AccountInvStep
<1>3. TypeInv /\ AccountInv /\ SeenInv /\ [Next]_vars => SeenInv'
  BY SeenInvStep
<1>4. SeenInv => SeenClosed
  BY DEF SeenInv
<1> QED
  BY <1>1, <1>2, <1>3, <1>4, TypeInvariant, PTL DEF Spec

-----------------------------------------------------------------------------
(* Outcomes.  An id is on its way or lost at a crash, and what the outbox     *)
(* file still lists is pending or delivered.                                 *)

OutcomeInv ==
  /\ \A o \in Orders : named[o] \subseteq waiting \cup pending \cup delivered \cup behind
  /\ \A o \in recorded : named[o] # {}
  /\ outbox \subseteq pending \cup delivered

outcomeVars == <<recorded, named, waiting, pending, outbox, delivered, behind>>

LEMMA OutcomeInvStep == TypeInv /\ AccountInv /\ OutcomeInv /\ [Next]_vars => OutcomeInv'
<1> SUFFICES ASSUME TypeInv, AccountInv, OutcomeInv, [Next]_vars PROVE OutcomeInv'
  OBVIOUS
<1>u. UNCHANGED outcomeVars => OutcomeInv'
  BY DEF outcomeVars, OutcomeInv
<1> USE DEF outcomeVars, outboxVars, crashVars, watchVars
<1>1. CASE UNCHANGED vars
  BY <1>1, <1>u DEF vars
<1>2. CASE Evaluated
  BY <1>2, <1>u DEF Evaluated
<1>3. ASSUME NEW S \in SUBSET Orders, NEW s \in Severities, Gate(S, s)
      PROVE  OutcomeInv'
  BY <1>3, <1>u DEF Gate
<1>4. ASSUME NEW o \in Orders, GivesUp(o) \/ Ambiguous(o) PROVE OutcomeInv'
  BY <1>4, <1>u DEF GivesUp, Ambiguous
<1>5. ASSUME NEW o \in Orders, NEW ok \in BOOLEAN, Barred(o, ok) \/ Declined(o, ok)
      PROVE  OutcomeInv'
  BY <1>5, <1>u DEF Barred, Declined
<1>6. ASSUME NEW o \in Orders, NEW ok \in BOOLEAN, Acknowledged(o, ok)
      PROVE  OutcomeInv'
  BY <1>6, <1>u DEF Acknowledged, Registers
<1>7. ASSUME NEW o \in Orders, NEW ok \in BOOLEAN, Cancelled(o, ok)
      PROVE  OutcomeInv'
  BY <1>7, <1>u DEF Cancelled
<1>8. ASSUME NEW o \in Orders, NEW ok \in BOOLEAN,
             NEW fate \in {"accepted", "refused", "unreached"}, Sends(o, fate, ok)
      PROVE  OutcomeInv'
  BY <1>8, <1>u DEF Sends
<1>9. ASSUME NEW G \in grids, NEW ok \in BOOLEAN, NEW S \in SUBSET G, NEW again \in SUBSET Orders,
             GridSends(G, S, again, ok)
      PROVE  OutcomeInv'
  BY <1>9, <1>u DEF GridSends, RemembersCreds
<1>10. ASSUME NEW G \in grids, NEW ok \in BOOLEAN, NEW S \in SUBSET G, GridAnswered(G, S, ok)
      PROVE  OutcomeInv'
  BY <1>10, <1>u DEF GridAnswered, Registers
<1>11. ASSUME NEW o \in Orders, TriggerTimer(o) \/ TriggerExpires(o) \/ FillDetected(o)
      PROVE  OutcomeInv'
  BY <1>11, <1>u DEF TriggerTimer, TriggerExpires, FillDetected, BookOnly
<1>12. ASSUME NEW stale \in SUBSET tracked, NEW written \in BOOLEAN, NEW ok \in BOOLEAN,
             Polls(stale, written, ok)
      PROVE  OutcomeInv'
  BY <1>12, <1>u DEF Polls, WatchOnly, PollStarts
<1>13. ASSUME NEW error \in BOOLEAN, PositionsCome(error) PROVE OutcomeInv'
  BY <1>13, <1>u DEF PositionsCome, WatchOnly, PositionsAnswered
<1>14. CASE PositionsLost
  BY <1>14, <1>u DEF PositionsLost, WatchOnly, PositionsFail
<1>15. ASSUME NEW k \in flat, NEW R \in SUBSET Orders, NEW ok \in BOOLEAN, NEW id \in [R -> Orders],
             HistoryComes(k, R, id, ok)
      PROVE  OutcomeInv'
  <2> DEFINE ids == {id[o] : o \in R}
  <2>1. /\ recorded' = recorded \cup R
        /\ named' = [o \in Orders |-> IF o \in R THEN named[o] \cup {id[o]} ELSE named[o]]
        /\ UNCHANGED behind
    BY <1>15 DEF HistoryComes, Records
  <2>2. UNCHANGED <<pending, outbox, delivered>> /\ waiting' = waiting \cup ids
    BY <1>15 DEF HistoryComes, Enqueues
  <2>3. \A o \in Orders : named'[o] \subseteq named[o] \cup ids
    BY <2>1
  <2>4. \A o \in recorded' : named'[o] # {}
    BY <2>1 DEF OutcomeInv, TypeInv, TypeOK, WatchTypes, ExchangeTypes
  <2> HIDE DEF ids
  <2> QED
    BY <2>1, <2>2, <2>3, <2>4 DEF OutcomeInv
<1>16. CASE Reports \/ Flushes \/ ReportFails \/ Rotation
  <2>1. UNCHANGED <<recorded, named, behind>>
    BY <1>16 DEF Reports, Flushes, ReportFails, Rotation, OutboxOnly
  <2>2. ASSUME Rotates \/ FlushBegins \/ \E ok \in BOOLEAN : BufferFlushes(ok)
        PROVE  OutcomeInv'
    BY <2>1, <2>2, <1>u DEF BufferFlushes, FlushBegins, Rotates
  <2>3. ASSUME NEW ok \in BOOLEAN, NEW o \in waiting, SyncBegins(o, ok) PROVE OutcomeInv'
    BY <2>1, <2>3 DEF SyncBegins, Persists, OutcomeInv
  <2>4. ASSUME NEW ok \in BOOLEAN, NEW acked \in SUBSET posted, PostAnswered(acked, ok)
        PROVE  OutcomeInv'
    BY <2>1, <2>4 DEF PostAnswered, Persists, OutcomeInv
  <2>5. ASSUME NEW arrived \in SUBSET posted, PostFails(arrived) PROVE OutcomeInv'
    BY <2>1, <2>5 DEF PostFails, OutcomeInv
  <2> QED
    BY <1>16, <2>2, <2>3, <2>4, <2>5 DEF Reports, Flushes, ReportFails, Rotation
<1>17. CASE Market
  BY <1>17, <1>u DEF Market
<1>18. CASE Time
  BY <1>18, <1>u DEF Time
<1>19. CASE Crash
  <2>1. /\ recorded' \subseteq recorded /\ named' = named /\ delivered' = delivered
        /\ behind' = behind \cup ((waiting \cup pending) \ (outbox \cup stored))
        /\ waiting' = {} /\ pending' = outbox \cup stored /\ outbox' = pending'
    BY <1>19 DEF Crash, WatcherReloads, OutboxReloads, Persists, AccountInv, JournalInv
  <2> QED
    BY <2>1 DEF OutcomeInv
<1> QED
  BY <1>1, <1>2, <1>3, <1>4, <1>5, <1>6, <1>7, <1>8, <1>9, <1>10, <1>11, <1>12,
     <1>13, <1>14,
     <1>15, <1>16, <1>17, <1>18, <1>19 DEF Next

\* The outcome of a recorded trade is on its way to the brain or there, unless a
\* crash came while neither file had it, because neither had it yet or because
\* the only one that did had been rotated, or unless another entry has its id.
THEOREM OutcomesSurviveHolds == Spec => []OutcomesSurvive
<1>1. Init => AccountInv /\ OutcomeInv
  BY DEF Init, ExchangeInit, WatchInit, OutboxInit, AccountInv, JournalInv,
         EntriesAccounted, OutcomeInv, OutcomesSurvive
<1>2. TypeInv /\ AccountInv /\ [Next]_vars => AccountInv'
  BY AccountInvStep
<1>3. TypeInv /\ AccountInv /\ OutcomeInv /\ [Next]_vars => OutcomeInv'
  BY OutcomeInvStep
<1>4. TypeInv /\ OutcomeInv => OutcomesSurvive
  BY DEF OutcomeInv, OutcomesSurvive, TypeInv, TypeOK, WatchTypes, ExchangeTypes
<1> QED
  BY <1>1, <1>2, <1>3, <1>4, TypeInvariant, PTL DEF Spec

-----------------------------------------------------------------------------
(* The book. *)

LEMMA RestingStep == TypeInv /\ RestingOrdersGuarded /\ [Next]_vars => RestingOrdersGuarded'
<1> SUFFICES ASSUME TypeInv, RestingOrdersGuarded, [Next]_vars PROVE RestingOrdersGuarded'
  OBVIOUS
<1>1. CASE UNCHANGED vars
  BY <1>1 DEF vars, RestingOrdersGuarded, Armed, exchangeVars, bookVars, orderVars,
     crashVars
<1>2. CASE Evaluated
  BY <1>2 DEF Evaluated, RestingOrdersGuarded, Armed, exchangeVars, bookVars,
     orderVars, crashVars
<1>3. ASSUME NEW S \in SUBSET Orders, NEW s \in Severities, Gate(S, s)
      PROVE  RestingOrdersGuarded'
  BY <1>3 DEF Gate, Moved, TypeInv, TypeOK, OrderInv, BookTypes, ExchangeTypes,
     RestingOrdersGuarded, Armed, exchangeVars, bookVars, orderVars, crashVars
<1>4. ASSUME NEW o \in Orders, GivesUp(o) \/ Ambiguous(o)
      PROVE  RestingOrdersGuarded'
  BY <1>4 DEF GivesUp, Ambiguous, Moved, TypeInv, TypeOK, OrderInv, BookTypes,
     ExchangeTypes, RestingOrdersGuarded, Armed, exchangeVars, bookVars, orderVars,
     crashVars
<1>5. ASSUME NEW o \in Orders, NEW ok \in BOOLEAN, Barred(o, ok) \/ Declined(o, ok)
      PROVE  RestingOrdersGuarded'
  BY <1>5 DEF Barred, Declined, Moved, TypeInv, TypeOK, OrderInv, BookTypes,
     ExchangeTypes, RestingOrdersGuarded, Armed, exchangeVars, bookVars, orderVars,
     crashVars
<1>6. ASSUME NEW o \in Orders, NEW ok \in BOOLEAN, Acknowledged(o, ok)
      PROVE  RestingOrdersGuarded'
  <2>1. /\ at' = Moved({o}, "done") /\ mislaid \subseteq mislaid'
        /\ UNCHANGED <<exchangeVars, orphaned>>
    BY <1>6 DEF Acknowledged, crashVars
  <2>2. \A p \in rests : p \in Orders /\ Kind(p) # "market" /\ (p # o => at'[p] = at[p])
    BY <2>1 DEF Moved, TypeInv, TypeOK, OrderInv, ExchangeTypes
  <2>3. CASE Kind(o) = "limit"
    <3>1. /\ trigger' = [Marked(Rivals(o), "CANCELLED") EXCEPT ![o] = "PENDING"]
          /\ cancelling' = cancelling \cup Rivals(o)
          /\ UNCHANGED <<checking, sweep, uncancelled>>
      BY <1>6, <2>3 DEF Acknowledged, LimitArms
    <3>2. trigger'[o] = "PENDING"
      BY <3>1 DEF Marked
    <3>3. \A p \in rests : p # o => p \in cancelling' \/ trigger'[p] = trigger[p]
      BY <2>2, <3>1 DEF Marked
    <3> QED
      BY <2>1, <2>2, <3>1, <3>2, <3>3 DEF RestingOrdersGuarded, Armed, exchangeVars
  <2>4. CASE Kind(o) = "market"
    BY <1>6, <2>1, <2>2, <2>4 DEF Acknowledged, RestingOrdersGuarded, Armed,
       exchangeVars, bookVars
  <2> QED
    BY <1>6, <2>3, <2>4 DEF Acknowledged, Kind, Kinds, Items, TypeInv, TypeOK, ExchangeTypes
<1>7. ASSUME NEW o \in Orders, NEW ok \in BOOLEAN, Cancelled(o, ok)
      PROVE  RestingOrdersGuarded'
  BY <1>7 DEF Cancelled, Unbooks, CancelEnds, RestingOrdersGuarded, Armed,
     exchangeVars, bookVars, orderVars, crashVars
<1>8. ASSUME NEW o \in Orders, NEW ok \in BOOLEAN,
             NEW fate \in {"accepted", "refused", "unreached"}, Sends(o, fate, ok)
      PROVE  RestingOrdersGuarded'
  BY <1>8 DEF Sends, Moved, Accepts, Kind, TypeInv, TypeOK, OrderInv, BookTypes,
     ExchangeTypes, RestingOrdersGuarded, Armed, exchangeVars, bookVars, orderVars,
     crashVars
<1>9. ASSUME NEW G \in grids, NEW ok \in BOOLEAN, NEW S \in SUBSET G, NEW again \in SUBSET Orders,
             GridSends(G, S, again, ok)
      PROVE  RestingOrdersGuarded'
  BY <1>9 DEF GridSends, Accepts, GridCascades, Marked, Rivals, TypeInv, TypeOK,
     OrderInv, BookTypes, ExchangeTypes, RestingOrdersGuarded, Armed, exchangeVars,
     bookVars, orderVars, crashVars
<1>10. ASSUME NEW G \in grids, NEW ok \in BOOLEAN, NEW S \in SUBSET G, GridAnswered(G, S, ok)
      PROVE  RestingOrdersGuarded'
  <2> DEFINE acked == {o \in G \ S : at[o] = "accepted"}
  <2>1. /\ GridArms(acked) /\ at' = Moved(G, "done") /\ mislaid \cup S \subseteq mislaid'
        /\ UNCHANGED <<exchangeVars, orphaned>>
        /\ \A o \in G : at[o] = "accepted" => o \in S \/ o \in acked
    BY <1>10 DEF GridAnswered, crashVars
  <2>2. /\ trigger' = Marked(acked, "PENDING") /\ sweep' = sweep \cup acked
        /\ UNCHANGED <<checking, cancelling, uncancelled>>
    BY <2>1 DEF GridArms
  <2>3. ASSUME NEW o \in rests, o \in acked PROVE o \in sweep'
    BY <2>2, <2>3
  <2>4. ASSUME NEW o \in rests, o \notin acked, o \in Armed PROVE trigger'[o] = "PENDING"
    BY <2>2, <2>4 DEF Marked, Armed
  <2>5. ASSUME NEW o \in rests, o \notin acked PROVE trigger'[o] = trigger[o]
    BY <2>2, <2>5 DEF Marked, TypeInv, TypeOK, ExchangeTypes
  <2> QED
    BY <2>1, <2>2, <2>3, <2>4, <2>5
    DEF RestingOrdersGuarded, Armed, Moved, exchangeVars, TypeInv, TypeOK, ExchangeTypes
<1>11. ASSUME NEW o \in Orders, TriggerTimer(o) \/ TriggerExpires(o) \/ FillDetected(o)
      PROVE  RestingOrdersGuarded'
  BY <1>11 DEF TriggerTimer, TriggerExpires, FillDetected, BookOnly, TimerFires,
     Sweeps, Expires, MarksFilled, Marked, Held, TypeInv, TypeOK, OrderInv,
     BookTypes, ExchangeTypes, RestingOrdersGuarded, Armed, exchangeVars, bookVars,
     orderVars, crashVars
<1>12. ASSUME NEW stale \in SUBSET tracked, NEW written \in BOOLEAN, NEW ok \in BOOLEAN,
             Polls(stale, written, ok)
      PROVE  RestingOrdersGuarded'
  BY <1>12 DEF Polls, WatchOnly, RestingOrdersGuarded, Armed, exchangeVars, bookVars,
     orderVars, crashVars
<1>13. ASSUME NEW error \in BOOLEAN, PositionsCome(error) PROVE RestingOrdersGuarded'
  BY <1>13 DEF PositionsCome, WatchOnly, RestingOrdersGuarded, Armed, exchangeVars,
     bookVars, orderVars, crashVars
<1>14. CASE PositionsLost
  BY <1>14 DEF PositionsLost, WatchOnly, RestingOrdersGuarded, Armed, exchangeVars,
     bookVars, orderVars, crashVars
<1>15. ASSUME NEW k \in flat, NEW R \in SUBSET Orders, NEW ok \in BOOLEAN, NEW id \in [R -> Orders],
             HistoryComes(k, R, id, ok)
      PROVE  RestingOrdersGuarded'
  BY <1>15 DEF HistoryComes, RestingOrdersGuarded, Armed, exchangeVars, bookVars,
     orderVars, crashVars
<1>16. CASE Reports \/ Flushes \/ ReportFails \/ Rotation
  BY <1>16 DEF Reports, Flushes, ReportFails, Rotation, OutboxOnly, RestingOrdersGuarded,
     Armed, exchangeVars, bookVars, orderVars, crashVars
<1>17. CASE Market
  BY <1>17 DEF Market, Closes, Fills, RestingOrdersGuarded, Armed, exchangeVars,
     bookVars, orderVars, crashVars
<1>18. CASE Time
  BY <1>18 DEF Time, RestingOrdersGuarded, Armed, exchangeVars, bookVars, orderVars,
     crashVars
<1>19. CASE Crash
  BY <1>19 DEF Crash, RestingOrdersGuarded, Armed, exchangeVars, bookVars, orderVars,
     crashVars
<1> QED
  BY <1>1, <1>2, <1>3, <1>4, <1>5, <1>6, <1>7, <1>8, <1>9, <1>10, <1>11, <1>12,
     <1>13, <1>14,
     <1>15, <1>16, <1>17, <1>18, <1>19 DEF Next

\* A resting order always has a timer or a cancel request ahead, but for the
\* crashes, lost answers, failed cancels and presumed fills that are to blame.
THEOREM RestingOrdersGuardedHolds == Spec => []RestingOrdersGuarded
<1>1. Init => RestingOrdersGuarded
  BY DEF Init, ExchangeInit, RestingOrdersGuarded
<1>2. TypeInv /\ RestingOrdersGuarded /\ [Next]_vars => RestingOrdersGuarded'
  BY RestingStep
<1> QED
  BY <1>1, <1>2, TypeInvariant, PTL DEF Spec

LEMMA ClusterStep ==
  ASSUME TypeInv, ClusterExclusive, BookStep, item' = item
  PROVE  ClusterExclusive'
<1> USE DEF ClusterExclusive, Armed, bookVars, Key, Kind, Sector
<1>k. ASSUME Armed' \subseteq Armed PROVE ClusterExclusive'
  BY <1>k
<1>1. CASE UNCHANGED bookVars
  BY <1>1
<1>2. ASSUME NEW o \in Orders, Kind(o) = "limit", LimitArms(o) PROVE ClusterExclusive'
  <2>1. \A p \in Orders : p \in Armed' => p = o \/ p \in Armed \ Rivals(o)
    BY <1>2 DEF LimitArms, Marked, TypeInv, TypeOK, BookTypes
  <2>2. \A p \in Armed \ Rivals(o) :
          Key(p) = Key(o) \/ Sector(p) # Sector(o) \/ Sector(o) = NoSector
    BY DEF Rivals
  <2> QED
    BY <2>1, <2>2
<1>3. ASSUME NEW o \in Orders, GridCascades(o) PROVE ClusterExclusive'
  BY <1>3, <1>k DEF GridCascades, Marked
<1>4. ASSUME NEW G \in grids, NEW S \in SUBSET G, GridArms(S) PROVE ClusterExclusive'
  <2>1. \A o \in S : Kind(o) = "grid"
    BY DEF TypeInv, OrderInv
  <2>2. \A p \in Orders : p \in Armed' => p \in S \/ p \in Armed
    BY <1>4 DEF GridArms, Marked
  <2> QED
    BY <2>1, <2>2
<1>5. ASSUME NEW o \in Orders,
             \/ TimerFires(o) \/ Sweeps(o) \/ Expires(o) \/ MarksFilled(o)
             \/ \E landed \in BOOLEAN : CancelEnds(o, landed)
      PROVE  ClusterExclusive'
  <2>1. CASE TimerFires(o) \/ Sweeps(o) \/ \E landed \in BOOLEAN : CancelEnds(o, landed)
    BY <2>1 DEF TimerFires, Sweeps, CancelEnds
  <2>2. CASE Expires(o)
    BY <2>2, <1>k DEF Expires, Marked
  <2>3. CASE MarksFilled(o)
    BY <2>3, <1>k DEF MarksFilled, Marked
  <2> QED
    BY <1>5, <2>1, <2>2, <2>3
<1>6. CASE BookForgets
  BY <1>6 DEF BookForgets
<1> QED
  BY <1>1, <1>2, <1>3, <1>4, <1>5, <1>6 DEF BookStep

\* Orders of two symbols of a cluster wait for their fills at once only if one
\* of them is a grid's.
THEOREM ClusterExclusiveHolds == Spec => []ClusterExclusive
<1>1. Init => ClusterExclusive
  BY DEF Init, BookInit, ClusterExclusive, Armed
<1>2. TypeInv /\ ClusterExclusive /\ [Next]_vars => ClusterExclusive'
  BY ComponentSteps, ExchangeTypesStep, ClusterStep DEF Components
<1> QED
  BY <1>1, <1>2, TypeInvariant, PTL DEF Spec

-----------------------------------------------------------------------------
(* Outcomes are delivered. *)

Owed == stored \cup outbox \cup delivered

LEMMA DeliveryStep ==
  ASSUME TypeInv, OutcomeInv, OutboxStep
  PROVE  [Delivery!Next]_<<Owed, delivered, archived>>
<1> USE DEF TypeInv, TypeOK, OutboxTypes, OutcomeInv, Owed
<1>m. ASSUME NEW new \in SUBSET Outcomes, NEW handed \in SUBSET Outcomes,
             Owed' = Owed \cup new, handed \subseteq Owed', delivered' = delivered \cup handed,
             archived' = archived
      PROVE  Delivery!Next
  BY <1>m DEF Delivery!Next, Delivery!Moves
\* But for a rotation, nothing is taken off either file before it is delivered.
<1>n. ASSUME Owed \subseteq Owed', Owed' \in SUBSET Outcomes,
             delivered \subseteq delivered', archived' = archived
      PROVE  Delivery!Next
  <2>1. /\ Owed' = Owed \cup (Owed' \ Owed) /\ delivered' \ delivered \subseteq Owed'
        /\ delivered' = delivered \cup (delivered' \ delivered)
        /\ (Owed' \ Owed) \in SUBSET Outcomes /\ (delivered' \ delivered) \in SUBSET Outcomes
    BY <1>n
  <2> HIDE DEF Owed
  <2> QED
    BY <2>1, <1>n, <1>m
<1>t. OutboxTypes'
  BY OutboxTypesStep
<1>1. CASE UNCHANGED outboxVars
  BY <1>1 DEF outboxVars
<1>2. ASSUME NEW S \in SUBSET Orders, Enqueues(S) PROVE UNCHANGED <<Owed, delivered, archived>>
  BY <1>2 DEF Enqueues
<1>3. ASSUME NEW ok \in BOOLEAN,
             \/ BufferFlushes(ok)
             \/ \E o \in waiting : SyncBegins(o, ok)
             \/ \E acked \in SUBSET posted : PostAnswered(acked, ok)
      PROVE  Delivery!Next
  BY <1>3, <1>n, <1>t DEF BufferFlushes, SyncBegins, PostAnswered, Persists
<1>4. CASE FlushBegins \/ OutboxReloads \/ \E arrived \in SUBSET posted : PostFails(arrived)
  BY <1>4, <1>n, <1>t DEF FlushBegins, PostFails, OutboxReloads, Persists
<1>5. ASSUME Rotates PROVE Delivery!Next
  <2> DEFINE ended == stored \ (outbox \cup delivered)
  <2>1. /\ stored \in SUBSET Outcomes /\ ended \in SUBSET Outcomes
        /\ stored \subseteq Owed /\ ended \subseteq stored \ delivered
        /\ Owed' = Owed \ ended
        /\ archived' = archived \cup stored /\ delivered' = delivered
    BY <1>5 DEF Rotates
  <2> HIDE DEF ended, Owed
  <2>2. Delivery!Archives(stored, ended)
    BY <2>1 DEF Delivery!Archives, Owed
  <2> QED
    BY <2>1, <2>2 DEF Delivery!Next
<1> QED
  BY <1>1, <1>2, <1>3, <1>4, <1>5 DEF OutboxStep

\* The outbox and the telemetry file implement OutcomeDelivery: but for what a
\* rotation of the telemetry file takes and the outbox file does not hold, no
\* outcome that either file has had is taken off both before the brain has it.
THEOREM DeliversHolds == Spec => Delivers
<1>1. Init => AccountInv /\ OutcomeInv /\ Delivery!Init
  BY DEF Init, ExchangeInit, WatchInit, OutboxInit, AccountInv, JournalInv,
         EntriesAccounted, OutcomeInv, OutcomesSurvive, Delivery!Init
<1>2. TypeInv /\ AccountInv /\ [Next]_vars => AccountInv'
  BY AccountInvStep
<1>3. TypeInv /\ AccountInv /\ OutcomeInv /\ [Next]_vars => OutcomeInv'
  BY OutcomeInvStep
<1>4. TypeInv /\ OutcomeInv /\ [Next]_vars => [Delivery!Next]_<<Owed, delivered, archived>>
  BY ComponentSteps, DeliveryStep DEF Components
<1>5. Delivers <=> Delivery!Init /\ [][Delivery!Next]_<<Owed, delivered, archived>>
  BY DEF Delivers, Delivery!Spec, Owed
<1> QED
  BY <1>1, <1>2, <1>3, <1>4, <1>5, TypeInvariant, PTL DEF Spec

-----------------------------------------------------------------------------
(* Claims.  The claim of an accepted order is in the set and in the file,    *)
(* one that a refusal will release is that of no accepted order.             *)

Traded  == {o \in taken : Kind(o) # "grid"}
Refused == {o \in Orders : at[o] = "refused" /\ Kind(o) # "grid"}

ClaimInv ==
  /\ \A o \in Traded : Claim(o) \in claims \cup slipped /\ Claim(o) \in claimFile \cup slipped
  /\ \A o \in Refused :
       /\ Claim(o) \in claims
       /\ \A p \in Traded : Claim(p) = Claim(o) => Claim(o) \in slipped
       /\ \A p \in Refused : Claim(p) = Claim(o) => p = o
  /\ OneExecutionPerEvent

LEMMA ClaimInvStep == TypeInv /\ ClaimInv /\ [Next]_vars => ClaimInv'
<1> SUFFICES ASSUME TypeInv, ClaimInv, [Next]_vars PROVE ClaimInv'
  OBVIOUS
<1>1. CASE UNCHANGED vars
  BY <1>1 DEF vars, ClaimInv, OneExecutionPerEvent, Traded, Refused, Claim, Key,
     Kind, exchangeVars, orderVars, claimVars
<1>2. CASE Evaluated
  BY <1>2 DEF Evaluated, ClaimInv, OneExecutionPerEvent, Traded, Refused, Claim, Key,
     Kind, exchangeVars, orderVars, claimVars
<1>3. ASSUME NEW S \in SUBSET Orders, NEW s \in Severities, Gate(S, s)
      PROVE  ClaimInv'
  BY <1>3 DEF Gate, Moved, ClaimInv, OneExecutionPerEvent, Traded, Refused, Claim,
     Key, Kind, exchangeVars, orderVars, claimVars
<1>4. ASSUME NEW o \in Orders, GivesUp(o) \/ Ambiguous(o) PROVE ClaimInv'
  BY <1>4 DEF GivesUp, Ambiguous, Moved, ClaimInv, OneExecutionPerEvent, Traded,
     Refused, Claim, Key, Kind, exchangeVars, orderVars, claimVars
<1>5. ASSUME NEW o \in Orders, NEW ok \in BOOLEAN, Barred(o, ok) \/ Declined(o, ok)
      PROVE  ClaimInv'
  <2>0. /\ UNCHANGED <<item, taken>> /\ at' = Moved({o}, "done")
    BY <1>5 DEF Barred, Declined, exchangeVars
  <2>1. /\ \A p : Claim(p)' = Claim(p) /\ Kind(p)' = Kind(p)
        /\ Traded' = Traded /\ Refused' = Refused \ {o}
    BY <2>0 DEF Claim, Key, Kind, Traded, Refused, Moved
  <2>2. ASSUME slipped \subseteq slipped',
               \A p \in Traded : Claim(p) \in claims' \cup slipped',
               \A p \in Traded : Claim(p) \in claimFile' \cup slipped',
               \A p \in Refused \ {o} : Claim(p) \in claims'
        PROVE  ClaimInv'
    <3>1. OneExecutionPerEvent'
      BY <2>0, <2>1, <2>2 DEF ClaimInv, OneExecutionPerEvent
    <3> QED
      BY <2>1, <2>2, <3>1 DEF ClaimInv
  <2>3. CASE Barred(o, ok)
    <3>1. /\ claims \subseteq claims' /\ slipped \subseteq slipped'
          /\ claimFile' = claims' \/ claimFile' = claimFile
      BY <2>3 DEF Barred, Claims
    <3> QED
      BY <3>1, <2>2 DEF ClaimInv
  <2>4. CASE Declined(o, ok) /\ at[o] = "refused"
    <3>1. /\ claims' = claims \ {Claim(o)} /\ slipped' = slipped
          /\ claimFile' = claims' \/ claimFile' = claimFile
          /\ o \in Refused
      BY <2>4 DEF Declined, Releases, Refused
    <3>2. \A p \in Traded : Claim(p) = Claim(o) => Claim(p) \in slipped
      BY <3>1 DEF ClaimInv
    <3>3. \A p \in Refused \ {o} : Claim(p) # Claim(o)
      BY <3>1 DEF ClaimInv
    <3> QED
      BY <3>1, <3>2, <3>3, <2>2 DEF ClaimInv
  <2>5. CASE Declined(o, ok) /\ at[o] # "refused"
    BY <2>5, <2>2 DEF Declined, claimVars, ClaimInv
  <2> QED
    BY <1>5, <2>3, <2>4, <2>5
<1>6. ASSUME NEW o \in Orders, NEW ok \in BOOLEAN, Acknowledged(o, ok)
      PROVE  ClaimInv'
  BY <1>6 DEF Acknowledged, Moved, ClaimInv, OneExecutionPerEvent, Traded, Refused,
     Claim, Key, Kind, exchangeVars, orderVars, claimVars
<1>7. ASSUME NEW o \in Orders, NEW ok \in BOOLEAN, Cancelled(o, ok) PROVE ClaimInv'
  BY <1>7 DEF Cancelled, Unbooks, ClaimInv, OneExecutionPerEvent, Traded, Refused,
     Claim, Key, Kind, exchangeVars, orderVars, claimVars
<1>8. ASSUME NEW o \in Orders, NEW ok \in BOOLEAN,
             NEW fate \in {"accepted", "refused", "unreached"}, Sends(o, fate, ok)
      PROVE  ClaimInv'
  <2> DEFINE c == Claim(o)
  <2>1. /\ c \notin claims /\ claims' = claims \cup {c} /\ slipped \subseteq slipped'
        /\ claimFile' = claims' \/ (claimFile' = claimFile /\ c \in slipped')
        /\ at' = Moved({o}, fate) /\ at[o] = "gated" /\ Kind(o) # "grid"
    BY <1>8 DEF Sends, Claims
  <2>2. /\ item' = item
        /\ IF fate = "accepted" THEN taken' = taken \cup {o} ELSE taken' = taken
    BY <1>8 DEF Sends, Accepts, exchangeVars
  <2>3. \A p : Claim(p)' = Claim(p) /\ Kind(p)' = Kind(p)
    BY <2>2 DEF Claim, Key, Kind
  <2>4. /\ Traded' = IF fate = "accepted" THEN Traded \cup {o} ELSE Traded
        /\ Refused' = IF fate = "refused" THEN Refused \cup {o} ELSE Refused
    BY <2>1, <2>2, <2>3 DEF Traded, Refused, Moved
  <2>5. /\ \A p \in Traded : Claim(p) = c => c \in slipped
        /\ \A p \in Refused : Claim(p) # c
    BY <2>1 DEF ClaimInv
  <2>6. \A p \in Traded' : Claim(p) \in claims' \cup slipped' /\ Claim(p) \in claimFile' \cup slipped'
    BY <2>1, <2>4 DEF ClaimInv
  <2>7. \A p \in Refused' :
          /\ Claim(p) \in claims'
          /\ \A q \in Traded' : Claim(q) = Claim(p) => Claim(p) \in slipped'
          /\ \A q \in Refused' : Claim(q) = Claim(p) => q = p
    BY <2>1, <2>4, <2>5 DEF ClaimInv
  <2>8. \A p, q \in Traded' : p # q /\ Claim(p) = Claim(q) => Claim(p) \in slipped'
    <3>1. \A p, q \in Traded : p # q /\ Claim(p) = Claim(q) => Claim(p) \in slipped
      BY DEF ClaimInv, OneExecutionPerEvent, Traded
    <3> QED
      BY <2>1, <2>4, <2>5, <3>1
  <2>9. OneExecutionPerEvent'
    BY <2>3, <2>8 DEF OneExecutionPerEvent, Traded
  <2> QED
    BY <2>3, <2>6, <2>7, <2>9 DEF ClaimInv
<1>9. ASSUME NEW G \in grids, NEW ok \in BOOLEAN, NEW S \in SUBSET G, NEW again \in SUBSET Orders,
             GridSends(G, S, again, ok)
      PROVE  ClaimInv'
  <2>1. /\ \A o \in G \cup again : Kind(o) = "grid"
        /\ \A o \in Orders \ (G \cup again) : at'[o] = at[o]
        /\ taken' = taken \cup S \cup again /\ S \subseteq G /\ item' = item
        /\ UNCHANGED <<claims, claimFile, slipped>>
    BY <1>9 DEF GridSends, Accepts, claimVars, TypeInv, TypeOK, OrderInv
  <2>2. \A p : Claim(p)' = Claim(p) /\ Kind(p)' = Kind(p)
    BY <2>1 DEF Claim, Key, Kind
  <2>3. Traded' = Traded /\ Refused' = Refused
    BY <2>1, <2>2 DEF Traded, Refused
  <2>4. OneExecutionPerEvent'
    BY <2>1, <2>2, <2>3 DEF ClaimInv, OneExecutionPerEvent, Traded
  <2> QED
    BY <2>1, <2>2, <2>3, <2>4 DEF ClaimInv
<1>10. ASSUME NEW G \in grids, NEW ok \in BOOLEAN, NEW S \in SUBSET G, GridAnswered(G, S, ok)
      PROVE  ClaimInv'
  BY <1>10 DEF GridAnswered, Moved, ClaimInv, OneExecutionPerEvent, Traded, Refused,
     Claim, Key, Kind, exchangeVars, orderVars, claimVars
<1>11. ASSUME NEW o \in Orders, TriggerTimer(o) \/ TriggerExpires(o) \/ FillDetected(o)
      PROVE  ClaimInv'
  BY <1>11 DEF TriggerTimer, TriggerExpires, FillDetected, BookOnly, ClaimInv,
     OneExecutionPerEvent, Traded, Refused, Claim, Key, Kind, exchangeVars,
     orderVars, claimVars
<1>12. ASSUME NEW stale \in SUBSET tracked, NEW written \in BOOLEAN, NEW ok \in BOOLEAN,
             Polls(stale, written, ok)
      PROVE  ClaimInv'
  BY <1>12 DEF Polls, WatchOnly, ClaimInv, OneExecutionPerEvent, Traded, Refused,
     Claim, Key, Kind, exchangeVars, orderVars, claimVars
<1>13. ASSUME NEW error \in BOOLEAN, PositionsCome(error) PROVE ClaimInv'
  BY <1>13 DEF PositionsCome, WatchOnly, ClaimInv, OneExecutionPerEvent, Traded,
     Refused, Claim, Key, Kind, exchangeVars, orderVars, claimVars
<1>14. CASE PositionsLost
  BY <1>14 DEF PositionsLost, WatchOnly, ClaimInv, OneExecutionPerEvent, Traded,
     Refused, Claim, Key, Kind, exchangeVars, orderVars, claimVars
<1>15. ASSUME NEW k \in flat, NEW R \in SUBSET Orders, NEW ok \in BOOLEAN, NEW id \in [R -> Orders],
             HistoryComes(k, R, id, ok)
      PROVE  ClaimInv'
  BY <1>15 DEF HistoryComes, ClaimInv, OneExecutionPerEvent, Traded, Refused, Claim,
     Key, Kind, exchangeVars, orderVars, claimVars
<1>16. CASE Reports \/ Flushes \/ ReportFails \/ Rotation
  BY <1>16 DEF Reports, Flushes, ReportFails, Rotation, OutboxOnly, ClaimInv,
     OneExecutionPerEvent, Traded, Refused, Claim, Key, Kind, exchangeVars,
     orderVars, claimVars
<1>17. CASE Market
  BY <1>17 DEF Market, Closes, Fills, ClaimInv, OneExecutionPerEvent, Traded,
     Refused, Claim, Key, Kind, exchangeVars, orderVars, claimVars
<1>18. CASE Time
  BY <1>18 DEF Time, ClaimInv, OneExecutionPerEvent, Traded, Refused, Claim, Key,
     Kind, exchangeVars, orderVars, claimVars
<1>19. CASE Crash
  <2>1. /\ Refused' = {} /\ Traded' = Traded /\ UNCHANGED <<item, taken>>
        /\ claims' = claimFile /\ UNCHANGED <<claimFile, slipped>>
    BY <1>19 DEF Crash, Refused, Traded, Kind, exchangeVars
  <2>2. \A p : Claim(p)' = Claim(p) /\ Kind(p)' = Kind(p)
    BY <2>1 DEF Claim, Key, Kind
  <2>3. OneExecutionPerEvent'
    BY <2>1, <2>2 DEF ClaimInv, OneExecutionPerEvent
  <2> QED
    BY <2>1, <2>2, <2>3 DEF ClaimInv
<1> QED
  BY <1>1, <1>2, <1>3, <1>4, <1>5, <1>6, <1>7, <1>8, <1>9, <1>10, <1>11, <1>12,
     <1>13, <1>14,
     <1>15, <1>16, <1>17, <1>18, <1>19 DEF Next

\* A candle is traded once per key outside of grids, unless the file was not
\* written with its claim.
THEOREM OneExecutionHolds == Spec => []OneExecutionPerEvent
<1>1. Init => ClaimInv
  BY DEF Init, ExchangeInit, ClaimInv, OneExecutionPerEvent, Traded, Refused
<1>2. TypeInv /\ ClaimInv /\ [Next]_vars => ClaimInv'
  BY ClaimInvStep
<1>3. ClaimInv => OneExecutionPerEvent
  BY DEF ClaimInv
<1> QED
  BY <1>1, <1>2, <1>3, TypeInvariant, PTL DEF Spec

-----------------------------------------------------------------------------
(* Stranded. *)

StaysStranded == Stranded' \/ Unasked \/ budget'.crashes < budget.crashes

LEMMA StrandedStep == TypeInv /\ Stranded /\ [Next]_vars => StaysStranded
<1> SUFFICES ASSUME TypeInv, Stranded, [Next]_vars PROVE StaysStranded
  OBVIOUS
<1>1. CASE UNCHANGED vars
  BY <1>1 DEF vars, StaysStranded, Stranded, watchVars, pollVars, orderVars
<1>2. CASE Evaluated
  BY <1>2 DEF Evaluated, StaysStranded, Stranded, watchVars, pollVars, orderVars
<1>3. ASSUME NEW S \in SUBSET Orders, NEW s \in Severities, Gate(S, s)
      PROVE  StaysStranded
  <2>1. CASE Evaluates(s) /\ kill' \notin Pauses
    <3>1. Verdict("hard") = "HARD_PAUSE"
      BY DEF Verdict
    <3>2. s = "hard" /\ pushTransition(Verdict(s))
      BY <2>1 DEF Evaluates, Stranded
    <3>3. kill' = "HARD_PAUSE"
      BY <3>1, <3>2 DEF pushTransition, killVars
    <3> QED
      BY <2>1, <3>3 DEF Pauses
  <2>2. CASE \A o \in S : Kind(o) = "grid"
    <3>1. S # {}
      BY <1>3, FS_EmptySet DEF Gate
    <3>2. PICK o \in S : TRUE
      BY <3>1
    <3>3. at[o] = "idle" /\ at'[o] = "gated"
      BY <1>3, <3>2 DEF Gate, Moved
    <3> QED
      BY <2>2, <3>2, <3>3 DEF StaysStranded, Unasked
  <2> QED
    BY <1>3, <2>1, <2>2 DEF Gate, Admits
<1>4. ASSUME NEW o \in Orders, GivesUp(o) \/ Ambiguous(o) PROVE StaysStranded
  BY <1>4 DEF GivesUp, Ambiguous, StaysStranded, Stranded, watchVars, pollVars,
     orderVars
<1>5. ASSUME NEW o \in Orders, NEW ok \in BOOLEAN, Barred(o, ok) \/ Declined(o, ok)
      PROVE  StaysStranded
  BY <1>5 DEF Barred, Declined, StaysStranded, Stranded, watchVars, pollVars, orderVars
<1>6. ASSUME NEW o \in Orders, NEW ok \in BOOLEAN, Acknowledged(o, ok)
      PROVE  StaysStranded
  BY <1>6 DEF Acknowledged, StaysStranded, Stranded, watchVars, pollVars, orderVars
<1>7. ASSUME NEW o \in Orders, NEW ok \in BOOLEAN, Cancelled(o, ok)
      PROVE  StaysStranded
  BY <1>7 DEF Cancelled, StaysStranded, Stranded, watchVars, pollVars, orderVars
<1>8. ASSUME NEW o \in Orders, NEW ok \in BOOLEAN,
             NEW fate \in {"accepted", "refused", "unreached"}, Sends(o, fate, ok)
      PROVE  StaysStranded
  BY <1>8 DEF Sends, StaysStranded, Stranded, watchVars, pollVars, orderVars
<1>9. ASSUME NEW G \in grids, NEW ok \in BOOLEAN, NEW S \in SUBSET G, NEW again \in SUBSET Orders,
             GridSends(G, S, again, ok)
      PROVE  StaysStranded
  BY <1>9 DEF GridSends, GridCascades, TypeInv, TypeOK, StaysStranded, Stranded,
     watchVars, pollVars, orderVars
<1>10. ASSUME NEW G \in grids, NEW ok \in BOOLEAN, NEW S \in SUBSET G, GridAnswered(G, S, ok)
      PROVE  StaysStranded
  <2>1. {o \in G \ S : at[o] = "accepted"} = {}
    BY DEF Stranded, TypeInv, TypeOK
  <2>2. /\ tracked' = tracked /\ entries' = entries /\ lastClose' = lastClose
        /\ at' = Moved(G, "done")
    BY <1>10, <2>1 DEF GridAnswered, Registers, pollVars
  <2> QED
    BY <2>2 DEF StaysStranded, Stranded, Moved
<1>11. ASSUME NEW o \in Orders, TriggerTimer(o) \/ TriggerExpires(o) \/ FillDetected(o)
      PROVE  StaysStranded
  BY <1>11 DEF TriggerTimer, TriggerExpires, FillDetected, BookOnly, StaysStranded,
     Stranded, watchVars, pollVars, orderVars
<1>12. ASSUME NEW stale \in SUBSET tracked, NEW written \in BOOLEAN, NEW ok \in BOOLEAN,
             Polls(stale, written, ok)
      PROVE  StaysStranded
  BY <1>12 DEF Polls, WatchOnly, PollStarts, StaysStranded, Stranded, watchVars,
     pollVars, orderVars
<1>13. ASSUME NEW error \in BOOLEAN, PositionsCome(error) PROVE StaysStranded
  BY <1>13 DEF PositionsCome, WatchOnly, PositionsAnswered, PollEnds, StaysStranded,
     Stranded, watchVars, pollVars, orderVars
<1>14. CASE PositionsLost
  BY <1>14 DEF PositionsLost, WatchOnly, PositionsFail, PollEnds, StaysStranded,
     Stranded, watchVars, pollVars, orderVars
<1>15. ASSUME NEW k \in flat, NEW R \in SUBSET Orders, NEW ok \in BOOLEAN, NEW id \in [R -> Orders],
             HistoryComes(k, R, id, ok)
      PROVE  StaysStranded
  BY <1>15 DEF HistoryComes, Records, PollEnds, StaysStranded, Stranded, watchVars,
     pollVars, orderVars
<1>16. CASE Reports \/ Flushes \/ ReportFails \/ Rotation
  BY <1>16 DEF Reports, Flushes, ReportFails, Rotation, OutboxOnly, StaysStranded, Stranded,
     watchVars, pollVars, orderVars
<1>17. CASE Market
  BY <1>17 DEF Market, StaysStranded, Stranded, watchVars, pollVars, orderVars
<1>18. CASE Time
  BY <1>18 DEF Time, StaysStranded, Stranded, watchVars, pollVars, orderVars
<1>19. CASE Crash
  <2>1. /\ budget.crashes \in Nat /\ budget.crashes > 0
        /\ budget' = [budget EXCEPT !.crashes = @ - 1]
    BY <1>19 DEF Crash, Spends, TypeInv, TypeOK, Bounded
  <2>2. budget'.crashes = budget.crashes - 1
    BY <2>1 DEF TypeInv, TypeOK, Bounded
  <2> QED
    BY <2>1, <2>2 DEF StaysStranded
<1> QED
  BY <1>1, <1>2, <1>3, <1>4, <1>5, <1>6, <1>7, <1>8, <1>9, <1>10, <1>11, <1>12,
     <1>13, <1>14,
     <1>15, <1>16, <1>17, <1>18, <1>19 DEF Next

\* Once nothing is left to watch two minutes after the last close, only a restart
\* or the route that never asks the kill switch lets an order be sent again.
THEOREM LateExitStopsHolds == Spec => LateExitStops
<1>1. TypeInv /\ [Next]_vars => [Stranded => StaysStranded]_vars
  BY StrandedStep
<1>2. LateExitStops <=> [][Stranded => StaysStranded]_vars
  BY DEF LateExitStops, StaysStranded
<1> QED
  BY <1>1, <1>2, TypeInvariant, PTL DEF Spec

-----------------------------------------------------------------------------
(* Faults.  A budget says which faults a behaviour may still have; without a *)
(* kind of fault none of the exemptions it stands for is ever made.          *)

Unfailing  == budget.failures = 0
Uncrashed  == budget.crashes = 0
NoneStale  == budget.stale = 0

FailureExempt == <<misled, slipped, uncancelled>>

\* What a step without a fault leaves alone.
Blameless ==
  /\ Unfailing => Unfailing' /\ UNCHANGED FailureExempt
  /\ Uncrashed => Uncrashed' /\ UNCHANGED crashVars
  /\ NoneStale => NoneStale'
  /\ Unfailing /\ NoneStale => UNCHANGED mislaid

LEMMA BlamelessStep == TypeInv /\ [Next]_vars => Blameless
<1> SUFFICES ASSUME TypeInv, [Next]_vars PROVE Blameless
  OBVIOUS
<1> USE DEF Unfailing, Uncrashed, NoneStale
<1>b. budget \in [Bounded -> Nat] /\ {"failures", "crashes", "stale", "verdicts", "closes", "rotations"} \subseteq Bounded
  BY DEF TypeInv, TypeOK, Bounded
<1>s. \A what \in Bounded : Spends(what) =>
        budget[what] > 0 /\ \A other \in Bounded \ {what} : budget'[other] = budget[other]
  BY <1>b DEF Spends
<1>f. Spends("failures") => ~Unfailing /\ (Uncrashed => Uncrashed') /\ (NoneStale => NoneStale')
  BY <1>b, <1>s
<1>o. \A what \in {"verdicts", "closes", "rotations"} : Spends(what) =>
        (Unfailing => Unfailing') /\ (Uncrashed => Uncrashed') /\ (NoneStale => NoneStale')
  BY <1>b, <1>s
<1>w. \A ok \in BOOLEAN : Works(ok) =>
        /\ Unfailing => ok /\ Unfailing'
        /\ Uncrashed => Uncrashed'
        /\ NoneStale => NoneStale'
  BY <1>f DEF Works
<1>1. CASE UNCHANGED vars
  BY <1>1 DEF vars, Blameless, FailureExempt, bookVars, watchVars, claimVars
<1>2. CASE Evaluated
  BY <1>2, <1>o DEF Evaluated, Evaluates, Blameless, FailureExempt, bookVars, watchVars, claimVars
<1>3. ASSUME NEW S \in SUBSET Orders, NEW s \in Severities, Gate(S, s)
      PROVE  Blameless
  BY <1>3, <1>o DEF Gate, Admits, Evaluates, Blameless, FailureExempt, bookVars, watchVars,
     claimVars
<1>4. ASSUME NEW o \in Orders, GivesUp(o) \/ Ambiguous(o)
      PROVE  Blameless
  BY <1>4, <1>f DEF GivesUp, Ambiguous, Blameless, FailureExempt, bookVars, watchVars, claimVars
<1>5. ASSUME NEW o \in Orders, NEW ok \in BOOLEAN, Barred(o, ok)
      PROVE  Blameless
  BY <1>5, <1>w DEF Barred, Claims, Blameless, FailureExempt, bookVars, watchVars
<1>5a. ASSUME NEW o \in Orders, NEW ok \in BOOLEAN, Declined(o, ok)
      PROVE  Blameless
  BY <1>5a, <1>w DEF Declined, Releases, Blameless, FailureExempt, bookVars, watchVars, claimVars
<1>6. ASSUME NEW o \in Orders, NEW ok \in BOOLEAN, Acknowledged(o, ok)
      PROVE  Blameless
  BY <1>6, <1>w DEF Acknowledged, Registers, LimitArms, Blameless, FailureExempt, bookVars,
     claimVars
<1>7. ASSUME NEW o \in Orders, NEW ok \in BOOLEAN, Cancelled(o, ok)
      PROVE  Blameless
  BY <1>7, <1>w DEF Cancelled, CancelEnds, Blameless, FailureExempt, watchVars, claimVars
<1>8. ASSUME NEW o \in Orders, NEW ok \in BOOLEAN,
             NEW fate \in {"accepted", "refused", "unreached"}, Sends(o, fate, ok)
      PROVE  Blameless
  BY <1>8, <1>w DEF Sends, Claims, Blameless, FailureExempt, bookVars, watchVars
<1>9. ASSUME NEW G \in grids, NEW ok \in BOOLEAN, NEW S \in SUBSET G, NEW again \in SUBSET Orders,
             GridSends(G, S, again, ok)
      PROVE  Blameless
  BY <1>9, <1>w DEF GridSends, GridCascades, RemembersCreds, Blameless, FailureExempt, claimVars
<1>10. ASSUME NEW G \in grids, NEW ok \in BOOLEAN, NEW S \in SUBSET G, GridAnswered(G, S, ok)
      PROVE  Blameless
  BY <1>10, <1>w DEF GridAnswered, GridArms, Registers, Blameless, FailureExempt, claimVars
<1>11. ASSUME NEW o \in Orders, TriggerTimer(o) \/ TriggerExpires(o) \/ FillDetected(o)
      PROVE  Blameless
  BY <1>11 DEF TriggerTimer, TimerFires, Sweeps, TriggerExpires, Expires, FillDetected,
     MarksFilled, BookOnly, Blameless, FailureExempt, watchVars, claimVars
<1>12. ASSUME NEW stale \in SUBSET tracked, NEW written \in BOOLEAN, NEW ok \in BOOLEAN,
             Polls(stale, written, ok)
      PROVE  Blameless
  <2>1. (Unfailing => Unfailing') /\ budget'.crashes = budget.crashes
    BY <1>12, <1>b DEF Polls
  <2>2. NoneStale => stale = {} /\ NoneStale'
    BY <1>12, <1>b DEF Polls
  <2> QED
    BY <1>12, <2>1, <2>2 DEF Polls, PollStarts, WatchOnly, Blameless, FailureExempt, bookVars,
       claimVars
<1>13. ASSUME NEW error \in BOOLEAN, PositionsCome(error)
      PROVE  Blameless
  BY <1>13, <1>w DEF PositionsCome, PositionsAnswered, WatchOnly, Blameless, FailureExempt,
     bookVars, claimVars
<1>14. CASE PositionsLost
  BY <1>14 DEF PositionsLost, PositionsFail, WatchOnly, Blameless, FailureExempt, bookVars,
     claimVars
<1>15. ASSUME NEW k \in flat, NEW R \in SUBSET Orders, NEW ok \in BOOLEAN, NEW id \in [R -> Orders],
             HistoryComes(k, R, id, ok)
      PROVE  Blameless
  BY <1>15, <1>w DEF HistoryComes, Records, Blameless, FailureExempt, bookVars, claimVars
<1>16. CASE Reports \/ Flushes \/ ReportFails \/ Rotation
  BY <1>16, <1>w, <1>f, <1>o DEF Reports, Flushes, ReportFails, Rotation, OutboxOnly, Blameless, FailureExempt,
     bookVars, watchVars, claimVars
<1>17. CASE Market
  BY <1>17, <1>o DEF Market, Blameless, FailureExempt, bookVars, watchVars, claimVars
<1>18. CASE Time
  BY <1>18 DEF Time, Blameless, FailureExempt, bookVars, watchVars, claimVars
<1>19. CASE Crash
  <2>1. ~Uncrashed /\ (Unfailing => Unfailing') /\ (NoneStale => NoneStale')
    BY <1>19, <1>b, <1>s DEF Crash
  <2> QED
    BY <1>19, <2>1 DEF Crash, BookForgets, WatcherReloads, Blameless, FailureExempt
<1> QED
  BY <1>1, <1>2, <1>3, <1>4, <1>5, <1>5a, <1>6, <1>7, <1>8, <1>9, <1>10, <1>11, <1>12,
     <1>13, <1>14, <1>15, <1>16, <1>17, <1>18, <1>19 DEF Next

FailureFree == Unfailing /\ misled = {} /\ slipped = {} /\ uncancelled = {}
CrashFree   == Uncrashed /\ adrift = {} /\ orphaned = {} /\ behind = {}
LossFree    == FailureFree /\ NoneStale /\ mislaid = {}

LEMMA FailureFreeAlways == Spec /\ Unfailing => []FailureFree
<1>1. Init /\ Unfailing => FailureFree
  BY DEF Init, FailureFree, WatchInit, BookInit
<1>2. TypeInv /\ FailureFree /\ [Next]_vars => FailureFree'
  BY BlamelessStep DEF Blameless, FailureFree, FailureExempt
<1> QED
  BY <1>1, <1>2, TypeInvariant, PTL DEF Spec

LEMMA CrashFreeAlways == Spec /\ Uncrashed => []CrashFree
<1>1. Init /\ Uncrashed => CrashFree
  BY DEF Init, CrashFree
<1>2. TypeInv /\ CrashFree /\ [Next]_vars => CrashFree'
  BY BlamelessStep DEF Blameless, CrashFree, crashVars
<1> QED
  BY <1>1, <1>2, TypeInvariant, PTL DEF Spec

LEMMA LossFreeAlways == Spec /\ Unfailing /\ NoneStale => []LossFree
<1>1. Init /\ Unfailing /\ NoneStale => LossFree
  BY DEF Init, FailureFree, LossFree, WatchInit, BookInit
<1>2. TypeInv /\ LossFree /\ [Next]_vars => LossFree'
  BY BlamelessStep DEF Blameless, LossFree, FailureFree, FailureExempt
<1> QED
  BY <1>1, <1>2, TypeInvariant, PTL DEF Spec

TradesOnce ==
  \A o, p \in taken :
    o # p /\ Claim(o) = Claim(p) => "grid" \in {Kind(o), Kind(p)}
RecordsOnlyClosed == \A o \in recorded \cap holds : Kind(o) # "market"

\* As long as no request or write fails, a candle is traded once per key outside
\* of grids and no open market entry is recorded as closed, over any number of
\* crashes: executionClaims is reloaded from its file and the watcher from its
\* journal.
THEOREM CrashesTradeNothingTwice ==
  Spec /\ Unfailing => [](TradesOnce /\ RecordsOnlyClosed)
<1>1. FailureFree /\ OneExecutionPerEvent => TradesOnce
  BY DEF FailureFree, OneExecutionPerEvent, TradesOnce
<1>2. FailureFree /\ SeenClosed => RecordsOnlyClosed
  BY DEF FailureFree, SeenClosed, RecordsOnlyClosed
<1> QED
  BY <1>1, <1>2, FailureFreeAlways, OneExecutionHolds, SeenClosedHolds, PTL

OutcomesKept ==
  \A o \in recorded :
    \/ named[o] # {} /\ named[o] \subseteq waiting \cup pending \cup delivered
    \/ Confused(o)

\* As long as the process does not crash, an outcome of a recorded trade is lost
\* to another entry's with the same id only, whatever requests and writes fail
\* and whatever is rotated: the maps of the outbox outlive the files.
THEOREM FailuresLoseNoOutcome == Spec /\ Uncrashed => []OutcomesKept
<1>1. CrashFree /\ OutcomesSurvive => OutcomesKept
  BY DEF CrashFree, OutcomesSurvive, OutcomesKept
<1> QED
  BY <1>1, CrashFreeAlways, OutcomesSurviveHolds, PTL

AllAccounted ==
  taken \subseteq tracked \cup recorded \cup dead \cup {o \in Orders : at[o] = "accepted"}
AllGuarded ==
  \A o \in rests :
    \/ o \in Armed \cup checking \cup cancelling \cup sweep
    \/ at[o] = "accepted"
    \/ trigger[o] = "PRESUMED_FILLED"

\* Without failures, crashes and entries too old to be watched, every accepted
\* order is known and every order on the book will be cancelled or is taken for
\* filled: no interleaving of the handlers alone loses one.
THEOREM InterleavingsLoseNothing ==
  Spec /\ Unfailing /\ Uncrashed /\ NoneStale => [](AllAccounted /\ AllGuarded)
<1>1. LossFree /\ CrashFree /\ EntriesAccounted => AllAccounted
  BY DEF LossFree, CrashFree, EntriesAccounted, AllAccounted
<1>2. LossFree /\ CrashFree /\ RestingOrdersGuarded => AllGuarded
  BY DEF LossFree, FailureFree, CrashFree, RestingOrdersGuarded, AllGuarded
<1> QED
  BY <1>1, <1>2, LossFreeAlways, CrashFreeAlways, EntriesAccountedHolds,
     RestingOrdersGuardedHolds, PTL
=============================================================================
