-------------------------- MODULE DemoSniperProofs --------------------------
(***************************************************************************)
(* Theorems about the autonomous demo trader, for every value of its       *)
(* constants.                                                              *)
(***************************************************************************)
EXTENDS DemoSniper, FiniteSetTheorems, SequenceTheorems, TLAPS

USE SniperConstants

-----------------------------------------------------------------------------
(* The parts of the inductive invariant: TypeOK by component, each with what *)
(* the program counters say of the entry in hand.                            *)

Entered      == {"gated", "decide", "filled", "over", "noted", "saving"}
Executed     == {"filled", "over", "noted", "saving"}
PlacerStates == [pc : {"idle", "ask", "scan"} \cup Entered,
                 order : Orders \cup {NoOrder}, campaign : Nat]
MonitorStates == [pc : {"idle", "ask", "answered", "pricing", "closing"},
                  order : Orders \cup {NoOrder}, trade : Nat]
Trades       == [order : Orders, campaign : Nat, late : BOOLEAN]

ServiceOK ==
  /\ running \in BOOLEAN /\ armed \in BOOLEAN /\ mode \in Modes
  /\ event \in Nat /\ serial \in Nat /\ excused \subseteq Orders
ExchangeOK == position \in [Keys -> SUBSET Orders] /\ filled \subseteq Orders
\* The journal's map and its file; xs is what the exchange has executed.
MapOK(m, xs) ==
  /\ m \in [entered : SUBSET Orders, journaled : SUBSET xs, unresolved : SUBSET Orders]
  /\ m.journaled \cup m.unresolved \subseteq m.entered
JournalOK == MapOK(JournalMap, filled) /\ MapOK(file, filled) /\ oversized \subseteq filled
PlacersOK == placer \in [Placers -> PlacerStates]
\* What a placer holds is an order of its own, executed once it was sent, and with an
\* entry in the journal's map.
HandOK ==
  \A p \in Placers :
    /\ placer[p].pc \in Entered => placer[p].order \in Orders /\ placer[p].order.by = p
    /\ placer[p].pc \in Executed => placer[p].order \in filled \cap entered
CycleOK ==
  room \in 0 .. GlobalMax /\ held \subseteq Keys /\ candle \in Nat /\ todo \subseteq Keys
\* The sniper places only with headroom.
RoomOK ==
  /\ placer["sniper"].pc \in Entered => room > 0
  /\ placer["sniper"].pc \in {"idle", "ask"} => room = 0
MemoryOK == tracked \subseteq filled /\ recorded \subseteq filled
StoreOK ==
  /\ trades \in Seq(Trades)
  /\ \A t \in Ids : trades[t].order \in filled
  /\ open \subseteq Ids
  /\ active \in [Keys -> Nat]
CountedOK == counted \in Seq(Nat) /\ Len(counted) = Len(trades)
MonitorOK ==
  /\ monitor \in MonitorStates
  /\ flat \subseteq Keys /\ visited \subseteq filled /\ finished \subseteq Nat
  /\ watched \subseteq filled
  /\ monitor.pc \in {"pricing", "closing"} => monitor.order \in filled
  /\ monitor.pc = "closing" => monitor.trade \in Ids
LimitsOK == crashes \in Nat /\ failures \in Nat /\ changes \in Nat

IInv == /\ ServiceOK /\ ExchangeOK /\ JournalOK /\ PlacersOK /\ HandOK /\ CycleOK /\ RoomOK
        /\ MemoryOK /\ StoreOK /\ CountedOK /\ MonitorOK /\ LimitsOK

LEMMA IInvTypeOK == IInv => TypeOK
<1> SUFFICES ASSUME IInv PROVE TypeOK
  OBVIOUS
<1> QED
  BY DEF IInv, TypeOK, ServiceOK, ExchangeOK, JournalOK, MapOK, JournalMap, PlacersOK,
         PlacerStates, Entered, CycleOK, MemoryOK, StoreOK, CountedOK, MonitorOK,
         MonitorStates, LimitsOK, Trades

LEMMA BoundsNat ==
  MaxRefused \in Nat /\ MaxSerial \in Nat /\ MaxTrades \in Nat /\ MaxCrashes \in Nat
  /\ MaxFailures \in Nat /\ MaxModes \in Nat
BY SniperConstants

LEMMA SniperInit == Init => IInv
<1> SUFFICES ASSUME Init PROVE IInv
  OBVIOUS
<1>1. \A S : <<>> \in Seq(S) /\ Len(<<>>) = 0 /\ DOMAIN <<>> = {}
  BY EmptySeq
<1>2. ServiceOK /\ LimitsOK /\ MemoryOK
  BY DEF Init, ServiceOK, LimitsOK, MemoryOK, Modes
<1>7. ExchangeOK /\ JournalOK
  BY DEF Init, ExchangeOK, JournalOK, MapOK, JournalMap
<1>8. CycleOK
  BY DEF Init, CycleOK
<1>3. Idle \in PlacerStates /\ Idle.pc = "idle" /\ Resting \in MonitorStates
      /\ Resting.pc = "idle"
  BY DEF Idle, Resting, PlacerStates, MonitorStates, None
<1>4. PlacersOK /\ HandOK /\ RoomOK
  BY <1>3 DEF Init, PlacersOK, HandOK, RoomOK, Entered, Executed, Placers, Traders
<1>5. MonitorOK
  BY <1>3 DEF Init, MonitorOK
<1>6. StoreOK /\ CountedOK
  BY <1>1 DEF Init, StoreOK, CountedOK, Ids, None
<1> QED
  BY <1>2, <1>4, <1>5, <1>6, <1>7, <1>8 DEF IInv

-----------------------------------------------------------------------------
(* What the shared pieces of the actions do. *)

LEMMA MovesFact ==
  ASSUME PlacersOK, NEW p \in Placers, NEW pc \in {"idle", "ask", "scan"} \cup Entered,
         Moves(p, pc)
  PROVE  /\ PlacersOK' /\ placer'[p].pc = pc /\ placer'[p].order = placer[p].order
         /\ \A q \in Placers : q # p => placer'[q] = placer[q]
<1>1. placer[p] \in PlacerStates
  BY DEF PlacersOK
<1>2. [placer[p] EXCEPT !.pc = pc] \in PlacerStates
  BY <1>1 DEF PlacerStates
<1>3. placer' = [placer EXCEPT ![p] = [placer[p] EXCEPT !.pc = pc]]
  BY DEF Moves
<1> QED
  BY <1>1, <1>2, <1>3 DEF PlacersOK, PlacerStates

LEMMA IdleFact ==
  ASSUME PlacersOK, NEW p \in Placers, NEW pc \in {"idle", "scan"},
         placer' = [placer EXCEPT ![p] = [Idle EXCEPT !.pc = pc]]
  PROVE  /\ PlacersOK' /\ placer'[p].pc = pc
         /\ \A q \in Placers : q # p => placer'[q] = placer[q]
<1>1. [Idle EXCEPT !.pc = pc] \in PlacerStates /\ [Idle EXCEPT !.pc = pc].pc = pc
  BY DEF Idle, PlacerStates, None
<1> QED
  BY <1>1 DEF PlacersOK

LEMMA ReturnsFact ==
  ASSUME PlacersOK, NEW p \in Placers, Returns(p)
  PROVE  /\ PlacersOK' /\ placer'[p].pc \in {"idle", "scan"}
         /\ p \in Traders => placer'[p].pc = "scan"
         /\ \A q \in Placers : q # p => placer'[q] = placer[q]
<1> DEFINE pc == IF p \in Traders THEN "scan" ELSE "idle"
<1>1. pc \in {"idle", "scan"} /\ (p \in Traders => pc = "scan")
  OBVIOUS
<1>2. placer' = [placer EXCEPT ![p] = [Idle EXCEPT !.pc = pc]]
  BY DEF Returns
<1> HIDE DEF pc
<1> QED
  BY <1>1, <1>2, IdleFact

LEMMA CampaignNat ==
  ASSUME IInv, NEW k \in Keys
  PROVE  Campaign(k) \subseteq Nat
<1>1. Cardinality(Keys) \in Nat
  BY SniperConstants, FS_CardinalityType
<1> QED
  BY <1>1, BoundsNat DEF IInv, StoreOK, Campaign, Unused

LEMMA DecideFact ==
  ASSUME IInv, NEW p \in Placers, NEW o \in Orders, o.by = p, Decide(p, o)
  PROVE  /\ PlacersOK' /\ placer'[p].pc = "decide" /\ placer'[p].order = o
         /\ \A q \in Placers : q # p => placer'[q] = placer[q]
<1>1. Campaign(o.key) \subseteq Nat
  BY CampaignNat DEF Orders
<1>2. PICK c \in Campaign(o.key) : placer' = [placer EXCEPT ![p] =
        [pc |-> "decide", campaign |-> c, order |-> o]]
  BY DEF Decide
<1>3. [pc |-> "decide", campaign |-> c, order |-> o] \in PlacerStates
  BY <1>1 DEF PlacerStates, Entered
<1> QED
  BY <1>2, <1>3 DEF IInv, PlacersOK

\* A map with more executed orders behind it is one still; an entry goes in.
LEMMA MapGrows ==
  ASSUME NEW xs, NEW ys, xs \subseteq ys, NEW m, MapOK(m, xs)
  PROVE  MapOK(m, ys)
BY DEF MapOK

LEMMA LoggedFact ==
  ASSUME JournalOK, NEW o \in Orders
  PROVE  MapOK(Logged(o), filled)
BY DEF JournalOK, MapOK, JournalMap, Logged

\* What an action that writes the journal has to show.
LEMMA JournalFact ==
  ASSUME JournalOK, filled \subseteq filled', oversized' \subseteq filled',
         NEW o \in Orders,
         entered' \in {entered, entered \cup {o}}, journaled' = journaled,
         unresolved' \subseteq unresolved \cup {o}, unresolved' \subseteq entered',
         file' \in {file, JournalMap', Logged(o)}
  PROVE  JournalOK'
<1>1. MapOK(JournalMap', filled')
  BY DEF JournalOK, MapOK, JournalMap
<1>2. MapOK(file, filled') /\ MapOK(Logged(o), filled')
  BY LoggedFact, MapGrows DEF JournalOK
<1> QED
  BY <1>1, <1>2 DEF JournalOK

LEMMA AppendFact ==
  ASSUME NEW S, NEW s \in Seq(S), NEW e \in S
  PROVE  /\ Append(s, e) \in Seq(S) /\ Len(Append(s, e)) = Len(s) + 1
         /\ DOMAIN s = 1 .. Len(s) /\ DOMAIN Append(s, e) = 1 .. Len(s) + 1
         /\ Len(s) \in Nat
         /\ \A i \in DOMAIN s : Append(s, e)[i] = s[i]
         /\ Append(s, e)[Len(s) + 1] = e
<1>1. /\ Append(s, e) \in Seq(S) /\ Len(Append(s, e)) = Len(s) + 1
      /\ \A i \in 1 .. Len(s) : Append(s, e)[i] = s[i]
      /\ Append(s, e)[Len(s) + 1] = e
  BY AppendProperties
<1> QED
  BY <1>1, LenProperties

LEMMA PersistFact ==
  ASSUME StoreOK, CountedOK, NEW o \in filled, filled \subseteq Orders, NEW c \in Nat,
         o.key \in Keys, UNCHANGED filled, Persist(o, c)
  PROVE  /\ StoreOK' /\ CountedOK' /\ Ids \subseteq Ids'
         /\ open' = open \/ \E t : t \notin open /\ open' = open \cup {t}
<1>1. CASE \E t \in open : trades[t].order = o
  BY <1>1 DEF Persist, StoreOK, CountedOK, Ids
<1>2. CASE ~ \E t \in open : trades[t].order = o
  <2> DEFINE e == [order |-> o, campaign |-> c, late |-> o \in recorded]
  <2>1. e \in Trades /\ e.order = o
    BY DEF Trades
  <2> HIDE DEF e
  <2>2. /\ trades' = Append(trades, e) /\ open' = open \cup {Len(trades) + 1}
        /\ active' = [active EXCEPT ![o.key] = c] /\ counted' = Append(counted, 0)
    BY <1>2 DEF Persist, e
  <2>3. /\ trades' \in Seq(Trades) /\ Len(trades') = Len(trades) + 1
        /\ DOMAIN trades = 1 .. Len(trades) /\ DOMAIN trades' = 1 .. Len(trades) + 1
        /\ Len(trades) \in Nat
        /\ \A i \in DOMAIN trades : trades'[i] = trades[i]
        /\ trades'[Len(trades) + 1] = e
    BY <2>1, <2>2, AppendFact DEF StoreOK
  <2>4. CountedOK'
    BY <2>2, <2>3, AppendFact DEF CountedOK
  <2>5. StoreOK'
    BY <2>1, <2>2, <2>3 DEF StoreOK, Ids
  <2> QED
    BY <2>2, <2>3, <2>4, <2>5 DEF StoreOK, Ids
<1> QED
  BY <1>1, <1>2

LEMMA GoesOnFact ==
  ASSUME CountedOK, StoreOK, UNCHANGED <<trades, filled>>, tracked' \subseteq filled,
         filled \subseteq Orders,
         NEW f \in SUBSET Keys, NEW v \in SUBSET filled, NEW w \in SUBSET filled,
         NEW done \in SUBSET Nat, GoesOn(f, v, w, done)
  PROVE  /\ MonitorOK' /\ CountedOK' /\ monitor'.pc \in {"idle", "pricing"}
         /\ monitor'.pc = "pricing" =>
              flat' = f /\ watched' = w /\ monitor'.order.key \in f
<1> DEFINE left == {o \in tracked' \ v : o.key \in f}
<1>1. CASE \E o \in left :
             /\ monitor' = [Resting EXCEPT !.pc = "pricing", !.order = o]
             /\ flat' = f /\ visited' = v \cup {o} /\ watched' = w /\ finished' = done
             /\ UNCHANGED counted
  <2>1. PICK o \in left :
          /\ monitor' = [Resting EXCEPT !.pc = "pricing", !.order = o]
          /\ flat' = f /\ visited' = v \cup {o} /\ watched' = w /\ finished' = done
          /\ UNCHANGED counted
    BY <1>1
  <2>2. o \in filled /\ o \in Orders /\ o.key \in f
    OBVIOUS
  <2>3. monitor' = [pc |-> "pricing", order |-> o, trade |-> None]
    BY <2>1 DEF Resting
  <2>4. monitor' \in MonitorStates /\ monitor'.pc = "pricing" /\ monitor'.order = o
    BY <2>2, <2>3 DEF MonitorStates, None
  <2> QED
    BY <2>1, <2>2, <2>4 DEF MonitorOK, CountedOK
<1>2. CASE /\ monitor' = Resting
           /\ flat' = {} /\ visited' = {} /\ watched' = {} /\ finished' = {}
           /\ counted' = Reported(done)
  <2>1. Resting \in MonitorStates /\ Resting.pc = "idle"
    BY DEF Resting, MonitorStates, None
  <2>2. Ids = 1 .. Len(trades) /\ Len(trades) \in Nat
    BY LenProperties DEF StoreOK, Ids
  <2>3. \A t \in Ids : counted[t] \in Nat
    BY <2>2, ElementOfSeq DEF CountedOK
  <2>4. counted' \in [1 .. Len(trades) -> Nat]
    BY <1>2, <2>2, <2>3 DEF Reported
  <2>5. counted' \in Seq(Nat) /\ Len(counted') = Len(trades)
    BY <2>2, <2>4, SeqDef, LenProperties
  <2> QED
    BY <1>2, <2>1, <2>5 DEF MonitorOK, CountedOK
<1> QED
  BY <1>1, <1>2 DEF GoesOn

-----------------------------------------------------------------------------
(* Every action preserves the invariant.  The first step under an action is  *)
(* about the parts it leaves alone.                                          *)

Untouched == <<exchange, placer, cycle, tracked, recorded, store, pass, counted>>

\* Operator, service and market actions, and TriggerEnds, TriggerFires.
LEMMA ServiceStep ==
  ASSUME IInv, UNCHANGED Untouched, ServiceOK', LimitsOK'
  PROVE  IInv'
<1>1. ExchangeOK' /\ JournalOK' /\ PlacersOK' /\ HandOK' /\ CycleOK' /\ RoomOK' /\ MemoryOK'
  BY DEF IInv, Untouched, exchange, journal, cycle, JournalOK, JournalMap, ExchangeOK,
     PlacersOK, HandOK, CycleOK, RoomOK, MemoryOK
<1>2. StoreOK' /\ CountedOK' /\ MonitorOK'
  BY DEF IInv, Untouched, store, pass, exchange, journal, StoreOK, CountedOK, MonitorOK, Ids
<1> QED
  BY <1>1, <1>2 DEF IInv

LEMMA EnvironmentStep ==
  ASSUME IInv, Start \/ Stop \/ Connect \/ Disconnect \/ CandleCloses
               \/ \E m \in Modes : ServiceMoves(m)
  PROVE  IInv'
<1>1. CASE Start
  BY <1>1, ServiceStep DEF IInv, Start, Untouched, ServiceOK, LimitsOK, limits
<1>2. CASE Stop
  <2>1. ServiceOK' /\ UNCHANGED Untouched
    BY <1>2 DEF IInv, Stop, Untouched, ServiceOK
  <2>2. LimitsOK'
    BY <1>2 DEF IInv, Stop, LimitsOK
  <2> QED
    BY <2>1, <2>2, ServiceStep
<1>3. CASE Connect
  BY <1>3, ServiceStep DEF IInv, Connect, Untouched, ServiceOK, LimitsOK, limits
<1>4. CASE Disconnect
  <2>1. ServiceOK' /\ UNCHANGED Untouched
    BY <1>4 DEF IInv, Disconnect, Untouched, ServiceOK
  <2>2. LimitsOK'
    BY <1>4 DEF IInv, Disconnect, LimitsOK
  <2> QED
    BY <2>1, <2>2, ServiceStep
<1>5. CASE CandleCloses
  BY <1>5, ServiceStep DEF IInv, CandleCloses, Untouched, ServiceOK, LimitsOK, limits
<1>6. ASSUME NEW m \in Modes, ServiceMoves(m)
      PROVE  IInv'
  <2>1. excused' \subseteq Orders
    BY <1>6 DEF IInv, ServiceMoves, HandOK, Entered, Executed
  <2> QED
    BY <1>6, <2>1, ServiceStep DEF IInv, ServiceMoves, Untouched, ServiceOK, LimitsOK
<1> QED
  BY <1>1, <1>2, <1>3, <1>4, <1>5, <1>6

LEMMA ExchangeStep ==
  ASSUME IInv, \/ \E o \in unresolved : Reconcile(o)
               \/ \E k \in Keys : \E o \in position[k] : ExchangeCloses(o)
  PROVE  IInv'
<1>1. UNCHANGED <<running, armed, mode, event, serial, filled, oversized, placer, cycle,
                  tracked, recorded, store, pass, excused, counted, crashes, changes>>
  BY DEF Reconcile, ExchangeCloses, limits
<1>7. UNCHANGED entered
  BY DEF Reconcile, ExchangeCloses, journal
<1>2. ExchangeOK'
  BY DEF IInv, ExchangeOK, Reconcile, ExchangeCloses
<1>3. ServiceOK' /\ PlacersOK' /\ HandOK' /\ CycleOK' /\ RoomOK' /\ MemoryOK'
  BY <1>1, <1>7 DEF IInv, cycle, ServiceOK, PlacersOK, HandOK, CycleOK, RoomOK, MemoryOK
<1>4. StoreOK' /\ CountedOK' /\ MonitorOK'
  BY <1>1 DEF IInv, store, pass, StoreOK, CountedOK, MonitorOK, Ids
<1>5. CASE \E k \in Keys : \E o \in position[k] : ExchangeCloses(o)
  <2>1. JournalOK' /\ LimitsOK'
    BY <1>5 DEF ExchangeCloses, IInv, journal, limits, JournalOK, JournalMap, LimitsOK
  <2> QED
    BY <1>2, <1>3, <1>4, <2>1 DEF IInv
<1>6. ASSUME NEW o \in unresolved, Reconcile(o)
      PROVE  IInv'
  <2>1. MapOK(JournalMap', filled)
    BY <1>6 DEF Reconcile, IInv, JournalOK, MapOK, JournalMap
  <2>2. file' \in {file, JournalMap'}
    BY <1>6 DEF Reconcile, Writes
  <2>3. JournalOK'
    BY <1>1, <2>1, <2>2 DEF IInv, JournalOK
  <2>4. LimitsOK'
    BY <1>1, <1>6 DEF Reconcile, Writes, Fails, IInv, LimitsOK
  <2> QED
    BY <1>2, <1>3, <1>4, <2>3, <2>4 DEF IInv
<1> QED
  BY <1>5, <1>6

LEMMA WindowStep ==
  ASSUME IInv, NEW k \in Keys, WindowPasses(k)
  PROVE  IInv'
<1>1. ServiceOK' /\ ExchangeOK' /\ JournalOK' /\ PlacersOK' /\ HandOK' /\ CycleOK'
      /\ RoomOK' /\ MemoryOK' /\ LimitsOK'
  BY DEF IInv, WindowPasses, exchange, journal, JournalOK, JournalMap, cycle, ServiceOK,
     ExchangeOK, PlacersOK, HandOK, CycleOK, RoomOK, MemoryOK, LimitsOK
<1>2. StoreOK' /\ CountedOK' /\ MonitorOK'
  BY DEF IInv, WindowPasses, exchange, journal, pass, StoreOK, CountedOK, MonitorOK, Ids,
     None
<1> QED
  BY <1>1, <1>2 DEF IInv

\* The steps of a cycle that reach neither the exchange nor the store.
LEMMA CycleStep ==
  ASSUME IInv, PlacersOK', HandOK', CycleOK', RoomOK', serial' \in Nat,
         UNCHANGED <<running, armed, mode, event, exchange, tracked, recorded, store, pass,
                     excused, counted, limits>>
  PROVE  IInv'
<1>1. ServiceOK' /\ ExchangeOK' /\ JournalOK' /\ MemoryOK' /\ LimitsOK'
  BY DEF IInv, exchange, journal, limits, JournalOK, JournalMap, ServiceOK, ExchangeOK,
     MemoryOK, LimitsOK
<1>2. StoreOK' /\ CountedOK' /\ MonitorOK'
  BY DEF IInv, store, pass, exchange, journal, StoreOK, CountedOK, MonitorOK, Ids
<1> QED
  BY <1>1, <1>2 DEF IInv

LEMMA EntriesFinite ==
  ASSUME IInv
  PROVE  /\ IsFiniteSet(open) /\ Cardinality(open) \in Nat
         /\ \A k \in Keys : Cardinality(Entries(k)) \in Nat
<1>1. Ids = 1 .. Len(trades) /\ Len(trades) \in Nat
  BY LenProperties DEF IInv, StoreOK, Ids
<1>2. IsFiniteSet(Ids)
  BY <1>1, FS_Interval, 1 \in Int, Len(trades) \in Int
<1>3. IsFiniteSet(open) /\ \A k \in Keys : IsFiniteSet(Entries(k))
  BY <1>2, FS_Subset DEF IInv, StoreOK, Entries
<1> QED
  BY <1>3, FS_CardinalityType

LEMMA SniperCycleStep ==
  ASSUME IInv, Sniper
  PROVE  IInv'
<1> USE DEF IInv, Placers, Traders, cycle
<1>1. CASE SniperAsks
  <2>1. /\ PlacersOK' /\ placer'["sniper"].pc = "ask"
        /\ \A q \in Placers : q # "sniper" => placer'[q] = placer[q]
    BY <1>1, MovesFact DEF SniperAsks
  <2>2. HandOK' /\ CycleOK' /\ RoomOK'
    BY <1>1, <2>1 DEF SniperAsks, HandOK, CycleOK, RoomOK, Entered, Executed, exchange,
       journal
  <2> QED
    BY <1>1, <2>1, <2>2, CycleStep DEF SniperAsks, ServiceOK
<1>2. ASSUME NEW seen \in SUBSET Keys, NEW h \in 1 .. GlobalMax, SniperScans(seen, h)
      PROVE  IInv'
  <2>1. /\ PlacersOK' /\ placer'["sniper"].pc = "scan"
        /\ \A q \in Placers : q # "sniper" => placer'[q] = placer[q]
    BY <1>2, MovesFact DEF SniperScans
  <2>2. HandOK' /\ CycleOK' /\ RoomOK'
    BY <1>2, <2>1 DEF SniperScans, HandOK, CycleOK, RoomOK, Entered, Executed, exchange,
       journal, ServiceOK
  <2> QED
    BY <1>2, <2>1, <2>2, CycleStep DEF SniperScans, ServiceOK
<1>3. ASSUME NEW k \in Keys, SniperPicks(k)
      PROVE  IInv'
  <2>1. /\ PlacersOK' /\ placer'["sniper"].pc = "decide"
        /\ placer'["sniper"].order \in Orders /\ placer'["sniper"].order.by = "sniper"
        /\ \A q \in Placers : q # "sniper" => placer'[q] = placer[q]
    <3>1. Cardinality(Entries(k)) + 1 \in Nat
      BY EntriesFinite
    <3> DEFINE o == [by |-> "sniper", key |-> k, event |-> candle,
                     depth |-> Cardinality(Entries(k)) + 1]
    <3>2. Decide("sniper", o) /\ candle \in Nat
      BY <1>3 DEF SniperPicks, CycleOK
    <3>3. o \in Orders /\ o.by = "sniper"
      BY <3>1, <3>2 DEF Orders
    <3> HIDE DEF o
    <3> QED
      BY <3>2, <3>3, DecideFact
  <2>2. HandOK' /\ CycleOK' /\ RoomOK'
    BY <1>3, <2>1 DEF SniperPicks, HandOK, CycleOK, RoomOK, Entered, Executed, exchange,
       journal
  <2> QED
    BY <1>3, <2>1, <2>2, CycleStep DEF SniperPicks, ServiceOK, store
<1>4. CASE SniperEnds
  <2>1. /\ PlacersOK' /\ placer'["sniper"].pc = "idle"
        /\ \A q \in Placers : q # "sniper" => placer'[q] = placer[q]
    <3>1. Idle = [Idle EXCEPT !.pc = "idle"]
      BY DEF Idle
    <3> QED
      BY <1>4, <3>1, IdleFact DEF SniperEnds
  <2>2. HandOK' /\ CycleOK' /\ RoomOK'
    BY <1>4, <2>1 DEF SniperEnds, HandOK, CycleOK, RoomOK, Entered, Executed, exchange,
       journal
  <2> QED
    BY <1>4, <2>1, <2>2, CycleStep DEF SniperEnds, ServiceOK
<1> QED
  BY <1>1, <1>2, <1>3, <1>4 DEF Sniper

LEMMA TriggerCycleStep ==
  ASSUME IInv, Trigger
  PROVE  IInv'
<1> USE DEF IInv, Placers, Traders, cycle
<1>1. CASE TriggerFires
  <2>1. /\ PlacersOK' /\ placer'["trigger"].pc = "scan"
        /\ \A q \in Placers : q # "trigger" => placer'[q] = placer[q]
    BY <1>1, MovesFact DEF TriggerFires
  <2>2. HandOK' /\ CycleOK' /\ RoomOK'
    BY <1>1, <2>1 DEF TriggerFires, HandOK, CycleOK, RoomOK, Entered, Executed, exchange,
       journal
  <2> QED
    BY <1>1, <2>1, <2>2, CycleStep DEF TriggerFires, ServiceOK
<1>2. ASSUME NEW k \in Keys, TriggerGates(k)
      PROVE  IInv'
  <2> DEFINE o == [by |-> "trigger", key |-> k, event |-> serial + 1, depth |-> 0]
  <2>1. o \in Orders /\ o.by = "trigger"
    BY DEF Orders, ServiceOK
  <2>2. placer' = [placer EXCEPT !["trigger"] =
          [pc |-> "gated", campaign |-> None, order |-> o]]
    BY <1>2 DEF TriggerGates
  <2> HIDE DEF o
  <2>3. [pc |-> "gated", campaign |-> None, order |-> o] \in PlacerStates
    BY <2>1 DEF PlacerStates, Entered, None
  <2>4. PlacersOK'
    BY <2>2, <2>3 DEF PlacersOK
  <2>5. /\ placer'["trigger"].pc = "gated" /\ placer'["trigger"].order = o
        /\ \A q \in Placers : q # "trigger" => placer'[q] = placer[q]
    BY <2>2 DEF PlacersOK
  <2>6. UNCHANGED <<filled, entered, room, held, candle, todo>>
    BY <1>2 DEF TriggerGates, exchange, journal
  <2>7. HandOK' /\ CycleOK' /\ RoomOK'
    BY <2>1, <2>5, <2>6 DEF HandOK, CycleOK, RoomOK, Entered, Executed
  <2> QED
    BY <1>2, <2>4, <2>7, CycleStep DEF TriggerGates, ServiceOK
<1>4. CASE TriggerPicks
  <2>1. /\ PlacersOK' /\ placer'["trigger"].pc = "decide"
        /\ placer'["trigger"].order = placer["trigger"].order
        /\ \A q \in Placers : q # "trigger" => placer'[q] = placer[q]
    BY <1>4, DecideFact DEF TriggerPicks, HandOK, Entered, Executed
  <2>2. /\ UNCHANGED <<filled, entered, room, held, candle, todo>>
        /\ placer["trigger"].pc = "gated"
    BY <1>4 DEF TriggerPicks, exchange, journal
  <2>3. HandOK' /\ CycleOK' /\ RoomOK'
    BY <2>1, <2>2 DEF HandOK, CycleOK, RoomOK, Entered, Executed
  <2> QED
    BY <1>4, <2>1, <2>3, CycleStep DEF TriggerPicks, ServiceOK
<1>3. CASE TriggerEnds
  <2>1. /\ PlacersOK' /\ placer'["trigger"].pc = "idle"
        /\ \A q \in Placers : q # "trigger" => placer'[q] = placer[q]
    BY <1>3, MovesFact DEF TriggerEnds
  <2>2. HandOK' /\ CycleOK' /\ RoomOK'
    BY <1>3, <2>1 DEF TriggerEnds, HandOK, CycleOK, RoomOK, Entered, Executed, exchange,
       journal
  <2> QED
    BY <1>3, <2>1, <2>2, CycleStep DEF TriggerEnds, ServiceOK
<1> QED
  BY <1>1, <1>2, <1>3, <1>4 DEF Trigger

\* A placer is done with its order, or goes on with an executed one.
LEMMA ReturnsStep ==
  ASSUME IInv, NEW p \in Placers, placer[p].pc \in Entered, Returns(p),
         JournalOK', LimitsOK', entered \subseteq entered',
         UNCHANGED <<running, armed, mode, event, serial, position, filled, cycle, tracked,
                     recorded, store, pass, excused, counted>>
  PROVE  IInv'
<1> USE DEF IInv
<1>1. /\ PlacersOK' /\ placer'[p].pc \in {"idle", "scan"}
      /\ p \in Traders => placer'[p].pc = "scan"
      /\ \A q \in Placers : q # p => placer'[q] = placer[q]
  BY ReturnsFact
<1>2. HandOK'
  BY <1>1 DEF HandOK, Entered, Executed
<1>3. RoomOK' /\ CycleOK'
  BY <1>1 DEF RoomOK, CycleOK, Entered, cycle, Placers, Traders
<1>4. ServiceOK' /\ ExchangeOK' /\ MemoryOK'
  BY DEF ServiceOK, ExchangeOK, MemoryOK
<1>5. StoreOK' /\ CountedOK' /\ MonitorOK'
  BY DEF store, pass, StoreOK, CountedOK, MonitorOK, Ids
<1> QED
  BY <1>1, <1>2, <1>3, <1>4, <1>5

LEMMA GoesOnWith ==
  ASSUME IInv, NEW p \in Placers, placer[p].pc \in Entered, placer[p].order \in filled,
         placer[p].order \in entered', entered \subseteq entered',
         NEW pc \in Executed, Moves(p, pc), tracked' \subseteq filled,
         JournalOK', LimitsOK',
         UNCHANGED <<running, armed, mode, event, serial, position, filled, cycle, recorded,
                     store, pass, excused, counted>>
  PROVE  IInv'
<1> USE DEF IInv
<1>1. /\ PlacersOK' /\ placer'[p].pc = pc /\ placer'[p].order = placer[p].order
      /\ \A q \in Placers : q # p => placer'[q] = placer[q]
  BY MovesFact DEF Entered, Executed
<1>2. HandOK'
  BY <1>1 DEF HandOK, Entered, Executed
<1>3. RoomOK' /\ CycleOK'
  BY <1>1 DEF RoomOK, CycleOK, Entered, Executed, cycle, Placers, Traders
<1>4. ServiceOK' /\ ExchangeOK' /\ MemoryOK'
  BY DEF ServiceOK, ExchangeOK, MemoryOK
<1>5. StoreOK' /\ CountedOK' /\ MonitorOK'
  BY DEF store, pass, StoreOK, CountedOK, MonitorOK, Ids
<1> QED
  BY <1>1, <1>2, <1>3, <1>4, <1>5

\* The manual routes reach the journal and the exchange through Placing.
LEMMA ManualStep ==
  ASSUME IInv, Manual
  PROVE  IInv'
<1> USE DEF IInv, Placers, Traders
<1>1. CASE ManualAnswers
  <2>1. /\ Returns("manual")
        /\ UNCHANGED <<running, armed, mode, event, serial, position, filled, entered,
                       journaled, unresolved, oversized, cycle, tracked, recorded, store,
                       pass, excused, counted, limits>>
        /\ file' \in {file, JournalMap}
    BY <1>1 DEF ManualAnswers
  <2>2. placer["manual"].pc \in Entered
    BY <1>1 DEF ManualAnswers, Entered
  <2>3. JournalOK' /\ LimitsOK'
    BY <2>1 DEF JournalOK, JournalMap, LimitsOK, limits
  <2> QED
    BY <2>1, <2>2, <2>3, ReturnsStep
<1>2. ASSUME NEW k \in Keys, NEW n \in 1 .. MaxModes, ManualPicks(k, n)
      PROVE  IInv'
  <2> DEFINE o == [by |-> "manual", key |-> k, event |-> n, depth |-> 0]
  <2>1. o \in Orders /\ o.by = "manual"
    BY BoundsNat DEF Orders
  <2> HIDE DEF o
  <2>2. PICK c \in Campaign(k) :
          /\ active' = [active EXCEPT ![k] = c]
          /\ placer' = [placer EXCEPT !["manual"] =
               [pc |-> "decide", campaign |-> c, order |-> o]]
    BY <1>2 DEF ManualPicks, o
  <2>3. c \in Nat
    BY CampaignNat
  <2>4. [pc |-> "decide", campaign |-> c, order |-> o] \in PlacerStates
    BY <2>1, <2>3 DEF PlacerStates, Entered
  <2>5. PlacersOK' /\ active' \in [Keys -> Nat]
    BY <2>2, <2>3, <2>4 DEF PlacersOK, StoreOK
  <2>6. /\ placer'["manual"].pc = "decide" /\ placer'["manual"].order = o
        /\ \A q \in Placers : q # "manual" => placer'[q] = placer[q]
    BY <2>2 DEF PlacersOK
  <2>7. UNCHANGED <<running, armed, mode, event, serial, exchange, cycle, tracked, recorded,
                    trades, open, pass, excused, counted, crashes, failures>>
    BY <1>2 DEF ManualPicks
  <2>8. HandOK' /\ CycleOK' /\ RoomOK'
    BY <2>1, <2>6, <2>7 DEF HandOK, CycleOK, RoomOK, Entered, Executed, exchange, journal,
       cycle
  <2>9. ServiceOK' /\ ExchangeOK' /\ JournalOK' /\ MemoryOK'
    BY <2>7 DEF ServiceOK, ExchangeOK, JournalOK, JournalMap, MemoryOK, exchange, journal
  <2>10. LimitsOK'
    BY <1>2, <2>7 DEF ManualPicks, LimitsOK
  <2>11. StoreOK' /\ CountedOK' /\ MonitorOK'
    BY <2>5, <2>7 DEF StoreOK, CountedOK, MonitorOK, Ids, exchange, journal, pass
  <2> QED
    BY <2>5, <2>8, <2>9, <2>10, <2>11
<1>3. ASSUME NEW k \in Keys, ManualCloses(k)
      PROVE  IInv'
  <2>1. PICK os \in SUBSET position[k] : position' = [position EXCEPT ![k] = @ \ os]
    BY <1>3 DEF ManualCloses
  <2>2. UNCHANGED <<running, armed, mode, event, serial, filled, journal, oversized,
                    placer, cycle, tracked, recorded, store, pass, excused, counted,
                    crashes, failures>>
    BY <1>3 DEF ManualCloses
  <2>3. ExchangeOK' /\ JournalOK'
    BY <2>1, <2>2 DEF ExchangeOK, JournalOK, JournalMap, journal
  <2>4. LimitsOK'
    BY <1>3, <2>2 DEF ManualCloses, LimitsOK
  <2>5. ServiceOK' /\ PlacersOK' /\ HandOK' /\ CycleOK' /\ RoomOK' /\ MemoryOK'
    BY <2>2 DEF cycle, journal, ServiceOK, PlacersOK, HandOK, CycleOK, RoomOK, MemoryOK
  <2>6. StoreOK' /\ CountedOK' /\ MonitorOK'
    BY <2>2 DEF store, pass, StoreOK, CountedOK, MonitorOK, Ids
  <2> QED
    BY <2>3, <2>4, <2>5, <2>6
<1> QED
  BY <1>1, <1>2, <1>3 DEF Manual

LEMMA PlacingStep ==
  ASSUME IInv, NEW p \in Placers, Placing(p)
  PROVE  IInv'
<1> USE DEF IInv, exchange, journal
<1>1. CASE GiveUp(p)
  <2>1. JournalOK' /\ LimitsOK' /\ placer[p].pc \in Entered
    BY <1>1 DEF GiveUp, JournalOK, JournalMap, LimitsOK, limits, Entered
  <2> QED
    BY <1>1, <2>1, ReturnsStep DEF GiveUp
<1>2. ASSUME NEW over \in BOOLEAN, Send(p, over)
      PROVE  IInv'
  <2> DEFINE pc == IF over THEN "over" ELSE "filled"
  <2>0. pc \in Entered /\ pc \in Executed /\ Moves(p, pc)
    BY <1>2 DEF Send, Entered, Executed
  <2> HIDE DEF pc
  <2>1. /\ PlacersOK' /\ placer'[p].pc = pc /\ placer'[p].order = placer[p].order
        /\ \A q \in Placers : q # p => placer'[q] = placer[q]
    BY <2>0, MovesFact
  <2>2. /\ placer[p].order \in Orders /\ placer[p].order.by = p
        /\ filled' = filled \cup {placer[p].order} /\ placer[p].pc = "decide"
    BY <1>2 DEF Send, HandOK, Entered
  <2>3. HandOK' /\ RoomOK' /\ UNCHANGED cycle
    <3>1. UNCHANGED cycle /\ entered' = entered \cup {placer[p].order}
      BY <1>2 DEF Send, Requests
    <3>2. HandOK'
      BY <2>0, <2>1, <2>2, <3>1 DEF HandOK, Entered, Executed
    <3>3. RoomOK'
      BY <2>0, <2>1, <2>2, <3>1 DEF RoomOK, Entered, Executed, cycle, Placers, Traders
    <3> QED
      BY <3>1, <3>2, <3>3
  <2>4. ExchangeOK' /\ CycleOK'
    <3>1. placer[p].order.key \in Keys
      BY <2>2 DEF Orders
    <3> QED
      BY <1>2, <2>2, <2>3, <3>1 DEF Send, ExchangeOK, CycleOK, cycle
  <2>5. ServiceOK' /\ MemoryOK' /\ LimitsOK'
    BY <1>2, <2>2 DEF Send, ServiceOK, MemoryOK, LimitsOK, limits
  <2>6. StoreOK' /\ CountedOK' /\ MonitorOK'
    BY <1>2, <2>2 DEF Send, store, pass, StoreOK, CountedOK, MonitorOK, Ids
  <2>7. JournalOK'
    BY <1>2, <2>2, JournalFact DEF Send, Requests, JournalOK, MapOK, JournalMap
  <2> QED
    BY <2>1, <2>3, <2>4, <2>5, <2>6, <2>7
<1>3. placer[p].pc \in Entered => placer[p].order \in Orders
  BY DEF HandOK
<1>4. CASE RequestFails(p) \/ Declined(p) \/ Unheard(p)
  <2>1. placer[p].pc \in Entered /\ placer[p].order \in Orders
    BY <1>3, <1>4 DEF RequestFails, Declined, Unheard, Entered
  <2>2. LimitsOK'
    BY <1>4 DEF RequestFails, Declined, Unheard, Fails, LimitsOK
  <2>3. CASE RequestFails(p)
    <3>1. JournalOK'
      BY <2>1, <2>3, JournalFact DEF RequestFails, Requests, JournalOK, MapOK, JournalMap
    <3> QED
      BY <2>1, <2>2, <2>3, <3>1, ReturnsStep DEF RequestFails, Requests
  <2>4. CASE Declined(p)
    <3>1. JournalOK'
      BY <2>1, <2>4, JournalFact DEF Declined, JournalOK, MapOK, JournalMap
    <3> QED
      BY <2>1, <2>2, <2>4, <3>1, ReturnsStep DEF Declined
  <2>5. CASE Unheard(p)
    <3>1. JournalOK'
      BY <2>1, <2>5, JournalFact DEF Unheard, JournalOK, MapOK, JournalMap
    <3> QED
      BY <2>1, <2>2, <2>5, <3>1, ReturnsStep DEF Unheard
  <2> QED
    BY <1>4, <2>3, <2>4, <2>5
<1>5. ASSUME NEW over \in BOOLEAN, Resent(p, over)
      PROVE  IInv'
  <2> DEFINE pc == IF over THEN "over" ELSE "filled"
  <2>1. pc \in Executed /\ Moves(p, pc)
    BY <1>5 DEF Resent, Executed
  <2>2. /\ placer[p].pc \in Entered /\ placer[p].order \in Orders
        /\ placer[p].order \in filled
    BY <1>3, <1>5 DEF Resent, Entered
  <2>3. JournalOK'
    BY <1>5, <2>2, JournalFact DEF Resent, Requests, JournalOK, MapOK, JournalMap
  <2>4. LimitsOK' /\ tracked' \subseteq filled
    BY <1>5 DEF Resent, Fails, LimitsOK, MemoryOK
  <2> HIDE DEF pc
  <2> QED
    BY <1>5, <2>1, <2>2, <2>3, <2>4, GoesOnWith DEF Resent, Requests
<1>6. CASE Replayed(p)
  <2>1. placer[p].pc \in Entered /\ placer[p].order \in filled \cap entered
    BY <1>6 DEF Replayed, Entered, JournalOK, MapOK, JournalMap
  <2>2. JournalOK' /\ LimitsOK' /\ tracked' \subseteq filled
    BY <1>6, <2>1 DEF Replayed, JournalOK, JournalMap, LimitsOK, limits, MemoryOK
  <2> QED
    BY <1>6, <2>1, <2>2, GoesOnWith DEF Replayed, Executed
<1>7. CASE Answered(p)
  <2>1. placer[p].pc \in Entered /\ placer[p].order \in filled \cap entered
    BY <1>7 DEF Answered, Entered, Executed, HandOK
  <2>2. MapOK(JournalMap', filled)
    BY <1>7, <2>1 DEF Answered, JournalOK, MapOK, JournalMap, Requests
  <2>3. JournalOK' /\ LimitsOK' /\ tracked' \subseteq filled
    BY <1>7, <2>2 DEF Answered, JournalOK, LimitsOK, limits, MemoryOK
  <2> QED
    BY <1>7, <2>1, <2>3, GoesOnWith DEF Answered, Executed
<1>8. CASE Lost(p)
  <2>1. placer[p].pc \in Entered /\ placer[p].order \in Orders \cap entered
    BY <1>3, <1>8 DEF Lost, Entered, Executed, HandOK
  <2>2. JournalOK'
    BY <1>8, <2>1, JournalFact DEF Lost, JournalOK, MapOK, JournalMap
  <2>3. LimitsOK'
    BY <1>8 DEF Lost, Fails, LimitsOK
  <2> QED
    BY <1>8, <2>1, <2>2, <2>3, ReturnsStep DEF Lost
<1>9. CASE Tracks(p)
  <2>1. placer[p].pc \in Entered /\ placer[p].order \in filled \cap entered
    BY <1>9 DEF Tracks, Entered, Executed, HandOK
  <2>2. JournalOK' /\ LimitsOK' /\ tracked' \subseteq filled
    BY <1>9, <2>1 DEF Tracks, JournalOK, JournalMap, LimitsOK, limits, MemoryOK
  <2> QED
    BY <1>9, <2>1, <2>2, GoesOnWith DEF Tracks, Executed
<1>10. CASE JournalFails(p) \/ QuantityThrows(p)
  <2>1. placer[p].pc \in Entered /\ placer[p].order \in filled
    BY <1>10 DEF JournalFails, QuantityThrows, Entered, Executed, HandOK
  <2>2. JournalOK' /\ LimitsOK'
    BY <1>10, <2>1 DEF JournalFails, QuantityThrows, Fails, JournalOK, JournalMap, LimitsOK,
       limits
  <2> QED
    BY <1>10, <2>1, <2>2, ReturnsStep DEF JournalFails, QuantityThrows
<1>11. ASSUME placer[p].pc = "saving", Persist(placer[p].order, placer[p].campaign),
              Returns(p), CycleOK', room' <= room,
              room' < room => p = "sniper", p = "sniper" => room - 1 <= room',
              LimitsOK',
              UNCHANGED <<running, armed, mode, event, serial, exchange, tracked, recorded,
                          pass, excused>>
       PROVE  IInv'
  <2>1. /\ placer[p].order \in filled /\ placer[p].campaign \in Nat
        /\ placer[p].order \in Orders /\ placer[p].order.key \in Keys
    BY <1>11 DEF HandOK, PlacersOK, PlacerStates, Entered, Executed, Orders
  <2>2. StoreOK' /\ CountedOK' /\ Ids \subseteq Ids'
    BY <1>11, <2>1, PersistFact DEF ExchangeOK
  <2>3. MonitorOK'
    BY <1>11, <2>2 DEF MonitorOK, pass
  <2>4. PlacersOK' /\ HandOK' /\ RoomOK'
    BY <1>11, ReturnsFact DEF HandOK, RoomOK, CycleOK, Entered, Executed, Placers, Traders
  <2>5. ServiceOK' /\ ExchangeOK' /\ JournalOK' /\ MemoryOK'
    BY <1>11 DEF ServiceOK, ExchangeOK, JournalOK, JournalMap, MemoryOK
  <2> QED
    BY <1>11, <2>2, <2>3, <2>4, <2>5
<1>12. CASE Saved(p)
  <2>1. CycleOK' /\ LimitsOK' /\ room' <= room /\ (room' < room => p = "sniper")
        /\ (p = "sniper" => room - 1 <= room')
    BY <1>12 DEF Saved, CycleOK, LimitsOK, limits, RoomOK, Entered, Placers
  <2> QED
    BY <1>11, <1>12, <2>1 DEF Saved
<1>13. CASE SaveFails(p)
  <2>1. CycleOK' /\ LimitsOK' /\ room' <= room /\ (room' < room => p = "sniper")
        /\ (p = "sniper" => room - 1 <= room')
    BY <1>13 DEF SaveFails, CycleOK, LimitsOK, cycle, Fails
  <2> QED
    BY <1>11, <1>13, <2>1 DEF SaveFails, Fails
<1> QED
  BY <1>1, <1>2, <1>4, <1>5, <1>6, <1>7, <1>8, <1>9, <1>10, <1>12, <1>13 DEF Placing

LEMMA MonitorStep ==
  ASSUME IInv, Monitor \/ MonitorFails
  PROVE  IInv'
<1> USE DEF IInv, exchange, journal
<1>1. ASSUME MonitorOK', CountedOK', tracked' \subseteq filled, recorded' \subseteq filled,
             open' \subseteq open, LimitsOK',
             UNCHANGED <<running, armed, mode, event, serial, exchange, placer, cycle,
                         trades, active, excused>>
      PROVE  IInv'
  <2>1. /\ ServiceOK' /\ ExchangeOK' /\ JournalOK' /\ PlacersOK' /\ HandOK' /\ CycleOK'
        /\ RoomOK' /\ MemoryOK'
    BY <1>1 DEF JournalOK, JournalMap, ServiceOK, ExchangeOK, PlacersOK, HandOK, CycleOK,
       RoomOK, MemoryOK, cycle
  <2>2. StoreOK'
    BY <1>1 DEF StoreOK, Ids
  <2> QED
    BY <1>1, <2>1, <2>2
<1>2. CASE MonitorStart
  <2>1. [Resting EXCEPT !.pc = "ask"] \in MonitorStates
        /\ [Resting EXCEPT !.pc = "ask"].pc = "ask"
    BY DEF Resting, MonitorStates, None
  <2>3. tracked' \subseteq filled /\ recorded' \subseteq filled
    BY <1>2 DEF MonitorStart, MemoryOK, StoreOK
  <2>2. MonitorOK' /\ CountedOK' /\ LimitsOK'
    BY <1>2, <2>1, <2>3 DEF MonitorStart, MonitorOK, CountedOK, LimitsOK, limits, store
  <2> QED
    BY <1>1, <1>2, <2>2, <2>3 DEF MonitorStart, store
<1>9. CASE PositionsAnswered
  <2>1. [Resting EXCEPT !.pc = "answered"] \in MonitorStates
        /\ [Resting EXCEPT !.pc = "answered"].pc = "answered"
    BY DEF Resting, MonitorStates, None
  <2>2. MonitorOK' /\ CountedOK' /\ LimitsOK'
    BY <1>9, <2>1 DEF PositionsAnswered, MonitorOK, CountedOK, LimitsOK, limits, store
  <2> QED
    BY <1>1, <1>9, <2>2 DEF PositionsAnswered, MemoryOK, store
<1>3. CASE MonitorSees
  <2>1. /\ tracked' \subseteq filled /\ recorded' \subseteq filled
        /\ UNCHANGED <<trades, active, open, filled>>
    BY <1>3 DEF MonitorSees, MemoryOK, store
  <2>2. MonitorOK' /\ CountedOK'
    <3>1. flat \in SUBSET Keys /\ watched \in SUBSET filled /\ GoesOn(flat, {}, watched, {})
      BY <1>3 DEF MonitorSees, MonitorOK
    <3>2. {} \in SUBSET filled /\ {} \in SUBSET Nat /\ filled \subseteq Orders
      BY DEF ExchangeOK
    <3> QED
      BY <2>1, <3>1, <3>2, GoesOnFact
  <2> QED
    BY <1>1, <1>3, <2>1, <2>2 DEF MonitorSees, LimitsOK, limits
<1>4. CASE MonitorRecords
  <2>1. /\ tracked' \subseteq filled /\ recorded' \subseteq filled
        /\ UNCHANGED <<trades, active, open, filled>>
    BY <1>4 DEF MonitorRecords, MemoryOK, MonitorOK
  <2>2. MonitorOK' /\ CountedOK'
    <3>1. CASE GoesOn(flat, visited, watched, finished)
      BY <2>1, <3>1, GoesOnFact DEF MonitorOK, ExchangeOK
    <3>2. ASSUME NEW t \in open,
                 monitor' = [monitor EXCEPT !.pc = "closing", !.trade = t],
                 UNCHANGED <<flat, visited, finished, watched, counted>>
          PROVE  MonitorOK' /\ CountedOK'
      <4>1. t \in Ids /\ t \in Nat
        BY LenProperties DEF StoreOK, Ids
      <4>2. monitor' \in MonitorStates /\ monitor'.pc = "closing" /\ monitor'.trade = t
            /\ monitor'.order = monitor.order
        BY <3>2, <4>1 DEF MonitorOK, MonitorStates
      <4> QED
        BY <1>4, <2>1, <3>2, <4>1, <4>2 DEF MonitorRecords, MonitorOK, CountedOK, Ids
    <3> QED
      BY <1>4, <3>1, <3>2 DEF MonitorRecords
  <2> QED
    BY <1>1, <1>4, <2>1, <2>2 DEF MonitorRecords, LimitsOK, limits
<1>5. CASE MonitorCloses
  <2>1. /\ tracked' \subseteq filled /\ recorded' \subseteq filled /\ open' \subseteq open
        /\ UNCHANGED <<trades, active, filled>>
    BY <1>5 DEF MonitorCloses, MemoryOK
  <2>2. trades[monitor.trade].campaign \in Nat
    <3>1. trades[monitor.trade] \in Trades
      BY <1>5, ElementOfSeq, LenProperties DEF MonitorCloses, MonitorOK, StoreOK, Ids
    <3> QED
      BY <3>1 DEF Trades
  <2>3. MonitorOK' /\ CountedOK'
    <3> DEFINE c    == trades[monitor.trade].campaign
               done == IF \E t \in open' : trades[t].campaign = c THEN finished
                       ELSE finished \cup {c}
    <3>1. done \subseteq Nat
      BY <2>2 DEF MonitorOK
    <3>2. GoesOn(flat, visited, watched, done)
      BY <1>5 DEF MonitorCloses
    <3> HIDE DEF done
    <3> QED
      BY <2>1, <3>1, <3>2, GoesOnFact DEF MonitorOK, ExchangeOK
  <2> QED
    BY <1>1, <1>5, <2>1, <2>3 DEF MonitorCloses, LimitsOK, limits
<1>6. CASE MonitorBlind
  <2>1. Resting \in MonitorStates /\ Resting.pc = "idle"
    BY DEF Resting, MonitorStates, None
  <2>2. MonitorOK' /\ CountedOK' /\ LimitsOK'
    BY <1>6, <2>1 DEF MonitorBlind, MonitorOK, CountedOK, LimitsOK, store, Fails
  <2> QED
    BY <1>1, <1>6, <2>2 DEF MonitorBlind, MemoryOK, store, Fails
<1>7. CASE MonitorSkips
  <2>1. /\ tracked' \subseteq filled /\ recorded' \subseteq filled
        /\ UNCHANGED <<trades, active, open, filled>>
    BY <1>7 DEF MonitorSkips, MemoryOK, Fails
  <2>2. MonitorOK' /\ CountedOK'
    BY <1>7, <2>1, GoesOnFact DEF MonitorSkips, MonitorOK, ExchangeOK, Fails
  <2>3. LimitsOK'
    BY <1>7 DEF MonitorSkips, LimitsOK, Fails
  <2> QED
    BY <1>1, <1>7, <2>1, <2>2, <2>3 DEF MonitorSkips, Fails
<1>8. CASE MonitorCloseFails
  <2>1. /\ tracked' \subseteq filled /\ recorded' \subseteq filled /\ open' \subseteq open
        /\ UNCHANGED <<trades, active, filled>>
    BY <1>8 DEF MonitorCloseFails, MemoryOK, Fails
  <2>2. MonitorOK' /\ CountedOK'
    BY <1>8, <2>1, GoesOnFact DEF MonitorCloseFails, MonitorOK, ExchangeOK, Fails
  <2>3. LimitsOK'
    BY <1>8 DEF MonitorCloseFails, LimitsOK, Fails
  <2> QED
    BY <1>1, <1>8, <2>1, <2>2, <2>3 DEF MonitorCloseFails, Fails
<1> QED
  BY <1>2, <1>3, <1>4, <1>5, <1>6, <1>7, <1>8, <1>9 DEF Monitor, MonitorFails

LEMMA RestartStep ==
  ASSUME IInv, Restart
  PROVE  IInv'
<1> USE DEF IInv
<1>1. ServiceOK' /\ LimitsOK' /\ CycleOK'
  <2>1. ServiceOK'
    BY DEF Restart, ServiceOK, Modes
  <2>2. LimitsOK' /\ CycleOK'
    BY DEF Restart, LimitsOK, CycleOK
  <2> QED
    BY <2>1, <2>2
<1>2. PlacersOK' /\ HandOK' /\ RoomOK'
  <2>1. Idle \in PlacerStates /\ Idle.pc = "idle"
    BY DEF Idle, PlacerStates, None
  <2> QED
    BY <2>1 DEF Restart, PlacersOK, HandOK, RoomOK, Entered, Executed, Placers, Traders
<1>3. ExchangeOK' /\ JournalOK'
  <2>1. ExchangeOK' /\ UNCHANGED <<filled, oversized>> /\ file' \in {file, JournalMap}
    BY DEF Restart, ExchangeOK
  <2>2. MapOK(file', filled)
    BY <2>1 DEF JournalOK
  <2>3. JournalMap' = file'
    BY <2>2 DEF Restart, JournalMap, MapOK
  <2> QED
    BY <2>1, <2>2, <2>3 DEF JournalOK
<1>4. MemoryOK'
  BY DEF Restart, MemoryOK, StoreOK
<1>5. MonitorOK'
  <2>1. Resting \in MonitorStates /\ Resting.pc = "idle"
    BY DEF Resting, MonitorStates, None
  <2> QED
    BY <2>1 DEF Restart, MonitorOK
<1>6. StoreOK' /\ CountedOK'
  <2>1. \A t \in open : trades[t].campaign \in Nat
    <3> SUFFICES ASSUME NEW t \in open PROVE trades[t].campaign \in Nat
      OBVIOUS
    <3>1. trades[t] \in Trades
      BY ElementOfSeq, LenProperties DEF StoreOK, Ids
    <3> QED
      BY <3>1 DEF Trades
  <2>2. active' \in [Keys -> Nat]
    BY <2>1 DEF Restart, None
  <2> QED
    BY <2>2 DEF Restart, StoreOK, CountedOK, Ids
<1> QED
  BY <1>1, <1>2, <1>3, <1>4, <1>5, <1>6

LEMMA SniperStep ==
  ASSUME IInv, [Next]_vars
  PROVE  IInv'
<1>1. CASE Start \/ Stop \/ Connect \/ Disconnect \/ CandleCloses
           \/ \E m \in Modes : ServiceMoves(m)
  BY <1>1, EnvironmentStep
<1>2. CASE \/ \E o \in unresolved : Reconcile(o)
           \/ \E k \in Keys : \E o \in position[k] : ExchangeCloses(o)
  BY <1>2, ExchangeStep
<1>3. CASE \E k \in Keys : WindowPasses(k)
  BY <1>3, WindowStep
<1>4. CASE Sniper \/ Trigger \/ Manual \/ \E p \in Placers : Placing(p)
  BY <1>4, SniperCycleStep, TriggerCycleStep, ManualStep, PlacingStep
<1>5. CASE Monitor \/ MonitorFails
  BY <1>5, MonitorStep
<1>6. CASE Restart
  BY <1>6, RestartStep
<1>7. CASE UNCHANGED vars
  <2>1. UNCHANGED Untouched /\ ServiceOK' /\ LimitsOK'
    BY <1>7 DEF vars, Untouched, IInv, ServiceOK, LimitsOK, limits
  <2> QED
    BY <2>1, ServiceStep
<1> QED
  BY <1>1, <1>2, <1>3, <1>4, <1>5, <1>6, <1>7 DEF Next

\* What the later theorems rest on.
THEOREM SniperInvariant == Spec => []IInv
<1>1. Init => IInv
  BY SniperInit
<1>2. IInv /\ [Next]_vars => IInv'
  BY SniperStep
<1> QED
  BY <1>1, <1>2, PTL DEF Spec

\* Every variable keeps its type.
THEOREM SniperTypeCorrect == Spec => []TypeOK
BY SniperInvariant, IInvTypeOK, PTL

-----------------------------------------------------------------------------
(* What the later invariants need of a placer's step: it ends the work on an  *)
(* order that was not executed, sends one, or goes on with the one in hand.   *)

Ends(p)    == GiveUp(p) \/ RequestFails(p) \/ Declined(p) \/ Unheard(p)
Sends(p)   == \E over \in BOOLEAN : Send(p, over)
Resends(p) == \E over \in BOOLEAN : Resent(p, over)
Drops(p)   == Lost(p) \/ JournalFails(p) \/ QuantityThrows(p)
Stores(p)  == Saved(p) \/ SaveFails(p)

LEMMA PlacingCases ==
  ASSUME NEW p \in Placers, Placing(p)
  PROVE  \/ Ends(p) \/ Sends(p) \/ Resends(p) \/ Replayed(p) \/ Answered(p) \/ Tracks(p)
         \/ Drops(p) \/ Stores(p)
BY DEF Placing, Ends, Sends, Resends, Drops, Stores

\* Nobody else's order is touched, nor the store and the monitor but by Stores.
Elsewhere == <<running, armed, mode, event, serial, cycle, recorded, store, pass, excused,
               counted, crashes, changes>>

LEMMA EndsFact ==
  ASSUME IInv, NEW p \in Placers, Ends(p)
  PROVE  /\ Returns(p) /\ placer[p].pc \in {"gated", "decide"}
         /\ UNCHANGED Elsewhere /\ UNCHANGED <<filled, position, tracked, oversized>>
         /\ failures' \in Nat /\ failures <= failures'
<1>1. failures \in Nat
  BY DEF IInv, LimitsOK
<1>2. CASE GiveUp(p)
  BY <1>1, <1>2 DEF GiveUp, Elsewhere, exchange, limits
<1>3. CASE RequestFails(p)
  BY <1>1, <1>3 DEF RequestFails, Fails, Elsewhere
<1>4. CASE Declined(p)
  BY <1>1, <1>4 DEF Declined, Fails, Elsewhere
<1>5. CASE Unheard(p)
  BY <1>1, <1>5 DEF Unheard, Fails, Elsewhere
<1> QED
  BY <1>2, <1>3, <1>4, <1>5 DEF Ends

LEMMA SendsFact ==
  ASSUME IInv, NEW p \in Placers, Sends(p)
  PROVE  /\ placer[p].pc = "decide" /\ placer[p].order \notin filled
         /\ filled' = filled \cup {placer[p].order}
         /\ position' = [position EXCEPT ![placer[p].order.key] = @ \cup {placer[p].order}]
         /\ placer'[p].pc \in {"filled", "over"} /\ placer'[p].order = placer[p].order
         /\ \A q \in Placers : q # p => placer'[q] = placer[q]
         /\ UNCHANGED Elsewhere /\ UNCHANGED <<tracked, oversized, failures>>
<1>1. PICK over \in BOOLEAN : Send(p, over)
  BY DEF Sends
<1> DEFINE pc == IF over THEN "over" ELSE "filled"
<1>2. pc \in {"filled", "over"} /\ Moves(p, pc)
  BY <1>1 DEF Send
<1> HIDE DEF pc
<1>3. /\ placer'[p].pc = pc /\ placer'[p].order = placer[p].order
      /\ \A q \in Placers : q # p => placer'[q] = placer[q]
  BY <1>2, MovesFact DEF IInv, Entered
<1> QED
  BY <1>1, <1>2, <1>3 DEF Send, Elsewhere, limits

\* The four steps with an executed order.
LEMMA GoesOnWithFact ==
  ASSUME IInv, NEW p \in Placers,
         Resends(p) \/ Replayed(p) \/ Answered(p) \/ Tracks(p)
  PROVE  /\ placer[p].pc \in Entered
         /\ placer'[p].pc \in Executed /\ placer'[p].order = placer[p].order
         /\ placer'[p].pc = "saving" => placer[p].order \in tracked'
         /\ \A q \in Placers : q # p => placer'[q] = placer[q]
         /\ UNCHANGED Elsewhere /\ UNCHANGED <<filled, position, oversized>>
         /\ tracked \subseteq tracked' /\ failures' \in Nat /\ failures <= failures'
<1>1. failures \in Nat
  BY DEF IInv, LimitsOK
<1>2. ASSUME NEW pc \in Executed, Moves(p, pc)
      PROVE  /\ placer'[p].pc = pc /\ placer'[p].order = placer[p].order
             /\ \A q \in Placers : q # p => placer'[q] = placer[q]
  BY <1>2, MovesFact DEF IInv, Entered, Executed
<1>3. CASE Resends(p)
  <2>1. PICK over \in BOOLEAN : Resent(p, over)
    BY <1>3 DEF Resends
  <2> DEFINE pc == IF over THEN "over" ELSE "filled"
  <2>2. pc \in {"filled", "over"} /\ Moves(p, pc)
    BY <2>1 DEF Resent
  <2> HIDE DEF pc
  <2>3. /\ placer'[p].pc = pc /\ placer'[p].order = placer[p].order
        /\ \A q \in Placers : q # p => placer'[q] = placer[q]
    BY <1>2, <2>2 DEF Executed
  <2> QED
    BY <1>1, <2>1, <2>2, <2>3 DEF Resent, Fails, Elsewhere, Entered, Executed
<1>4. CASE Replayed(p)
  BY <1>1, <1>2, <1>4 DEF Replayed, Elsewhere, exchange, limits, Entered, Executed
<1>5. CASE Answered(p)
  BY <1>1, <1>2, <1>5 DEF Answered, Elsewhere, limits, Entered, Executed
<1>6. CASE Tracks(p)
  BY <1>1, <1>2, <1>6 DEF Tracks, Elsewhere, limits, Entered, Executed
<1> QED
  BY <1>3, <1>4, <1>5, <1>6

LEMMA DropsFact ==
  ASSUME IInv, NEW p \in Placers, Drops(p)
  PROVE  /\ Returns(p) /\ placer[p].pc \in Executed
         /\ UNCHANGED Elsewhere /\ UNCHANGED <<filled, position, tracked>>
         /\ \/ failures' = failures + 1 /\ UNCHANGED oversized
            \/ UNCHANGED failures /\ oversized' = oversized \cup {placer[p].order}
<1>1. CASE Lost(p)
  BY <1>1 DEF Lost, Fails, Elsewhere, Executed
<1>2. CASE JournalFails(p)
  BY <1>2 DEF JournalFails, Fails, Elsewhere, exchange, Executed
<1>3. CASE QuantityThrows(p)
  BY <1>3 DEF QuantityThrows, Elsewhere, limits, Executed
<1> QED
  BY <1>1, <1>2, <1>3 DEF Drops

-----------------------------------------------------------------------------
(* The cap.  Headroom that the sniper still holds, and the entry the trigger *)
(* has under way, count as open already.                                     *)

Underway == IF placer["trigger"].pc \in Entered THEN 1 ELSE 0
CapInv   == Cardinality(open) + room + Underway <= 2 * GlobalMax + failures

LEMMA CapInit == Init => CapInv
BY FS_EmptySet, SniperConstants DEF Init, CapInv, Underway, Idle, Entered, Placers

\* Most actions change nothing the cap is about, or only lower it.
LEMMA CapFrame ==
  ASSUME IInv, IInv', CapInv, open' \subseteq open, room' <= room,
         Underway' <= Underway, failures <= failures'
  PROVE  CapInv'
<1>1. IsFiniteSet(open) /\ Cardinality(open) \in Nat
  BY EntriesFinite
<1>2. Cardinality(open') <= Cardinality(open) /\ Cardinality(open') \in Nat
  BY <1>1, FS_Subset, FS_CardinalityType
<1> QED
  BY <1>1, <1>2 DEF CapInv, Underway, IInv, CycleOK, LimitsOK

LEMMA CapStep ==
  ASSUME IInv, IInv', CapInv, [Next]_vars
  PROVE  CapInv'
<1> USE DEF Underway
<1>1. IsFiniteSet(open) /\ Cardinality(open) \in Nat
  BY EntriesFinite
<1>2. room \in Int /\ room' \in Int /\ failures \in Nat /\ failures' \in Nat
      /\ GlobalMax \in Nat \ {0}
  BY SniperConstants DEF IInv, CycleOK, LimitsOK
<1>3. CASE Start \/ Stop \/ Connect \/ Disconnect \/ CandleCloses
  BY <1>2, <1>3, CapFrame DEF Start, Stop, Connect, Disconnect, CandleCloses, store,
     cycle, limits
<1>4. CASE \/ \E m \in Modes : ServiceMoves(m)
           \/ \E o \in unresolved : Reconcile(o)
           \/ \E k \in Keys : WindowPasses(k) \/ \E o \in position[k] : ExchangeCloses(o)
  BY <1>2, <1>4, CapFrame DEF ServiceMoves, Reconcile, WindowPasses, ExchangeCloses,
     store, cycle, limits, Fails, Writes
<1>5. CASE SniperAsks \/ SniperEnds \/ \E k \in Keys : SniperPicks(k)
  <2>1. room' <= room
    <3>1. room' = room \/ room' = 0
      BY <1>5 DEF SniperAsks, SniperEnds, SniperPicks, cycle
    <3> QED
      BY <1>2, <3>1 DEF IInv, CycleOK
  <2>2. placer'["trigger"] = placer["trigger"]
    BY <1>5 DEF SniperAsks, SniperEnds, SniperPicks, Moves, Decide, IInv, PlacersOK,
       Placers, Traders
  <2>3. UNCHANGED <<open, failures>>
    BY <1>5 DEF SniperAsks, SniperEnds, SniperPicks, store, limits
  <2> QED
    BY <1>2, <2>1, <2>2, <2>3, CapFrame
<1>6. ASSUME NEW seen \in SUBSET Keys, NEW h \in 1 .. GlobalMax, SniperScans(seen, h)
      PROVE  CapInv'
  <2>1. IsFiniteSet(seen) /\ Cardinality(seen) \in Nat
    BY SniperConstants, FS_Subset, FS_CardinalityType
  <2>2. room' <= GlobalMax - Cardinality(open)
    BY <1>1, <1>2, <1>6, <2>1 DEF SniperScans, GlobalOpen
  <2>3. Underway' <= 1 /\ UNCHANGED <<open, failures>>
    BY <1>6 DEF SniperScans, store, limits
  <2> QED
    BY <1>1, <1>2, <2>2, <2>3 DEF CapInv
<1>7. CASE TriggerFires \/ TriggerEnds
  <2>1. placer'["trigger"].pc \notin Entered
    BY <1>7, MovesFact DEF TriggerFires, TriggerEnds, IInv, Placers, Entered, Traders
  <2> QED
    BY <1>2, <1>7, <2>1, CapFrame DEF TriggerFires, TriggerEnds, store, cycle, limits
<1>8. ASSUME NEW k \in Keys, TriggerGates(k)
      PROVE  CapInv'
  <2>1. Cardinality(open) < GlobalMax /\ UNCHANGED <<open, room, failures>>
    BY <1>8 DEF TriggerGates, store, cycle, limits
  <2>2. room <= GlobalMax
    BY SniperConstants DEF IInv, CycleOK
  <2> QED
    BY <1>1, <1>2, <2>1, <2>2 DEF CapInv
<1>17. CASE TriggerPicks
  <2>1. placer["trigger"].pc \in Entered /\ UNCHANGED <<open, room, failures>>
    BY <1>17 DEF TriggerPicks, store, cycle, limits, Entered
  <2> QED
    BY <1>2, <2>1, CapFrame
<1>9. ASSUME NEW p \in Placers,
             \/ Ends(p) \/ Sends(p) \/ Resends(p) \/ Replayed(p) \/ Answered(p) \/ Tracks(p)
             \/ Drops(p)
      PROVE  CapInv'
  <2>1. UNCHANGED Elsewhere /\ failures <= failures'
    BY <1>2, <1>9, EndsFact, SendsFact, GoesOnWithFact, DropsFact
  <2>2. placer'[p].pc \in Entered => placer[p].pc \in Entered
    BY <1>9, EndsFact, SendsFact, GoesOnWithFact, DropsFact, ReturnsFact
       DEF IInv, Entered, Executed
  <2>3. \A q \in Placers : q # p => placer'[q] = placer[q]
    BY <1>9, EndsFact, SendsFact, GoesOnWithFact, DropsFact, ReturnsFact DEF IInv
  <2>4. placer'["trigger"].pc \in Entered => placer["trigger"].pc \in Entered
    BY <2>2, <2>3 DEF Placers, Traders
  <2> QED
    BY <1>2, <2>1, <2>4, CapFrame DEF Elsewhere, store, cycle
<1>10. ASSUME NEW p \in Placers, placer[p].pc = "saving",
              Persist(placer[p].order, placer[p].campaign), Returns(p)
       PROVE  /\ Cardinality(open') \in Nat /\ Cardinality(open') <= Cardinality(open) + 1
              /\ p = "trigger" => Underway = 1 /\ Underway' = 0
              /\ p = "sniper" => Underway' = Underway
  <2>1. open' = open \/ \E t : open' = open \cup {t}
    BY <1>10 DEF Persist
  <2>2. Cardinality(open') \in Nat /\ Cardinality(open') <= Cardinality(open) + 1
    <3>1. CASE open' = open
      BY <1>1, <3>1
    <3>2. ASSUME NEW t, open' = open \cup {t}
          PROVE  Cardinality(open') \in Nat /\ Cardinality(open') <= Cardinality(open) + 1
      <4>1. Cardinality(open \cup {t}) = IF t \in open THEN Cardinality(open)
                                         ELSE Cardinality(open) + 1
        BY <1>1, FS_AddElement
      <4> QED
        BY <1>1, <3>2, <4>1
    <3> QED
      BY <2>1, <3>1, <3>2
  <2> QED
    BY <1>10, <2>2, ReturnsFact DEF IInv, Placers, Entered, Traders
<1>11. ASSUME NEW p \in Placers, Saved(p)
       PROVE  CapInv'
  BY <1>1, <1>2, <1>10, <1>11 DEF Saved, CapInv, limits, Placers, Traders
<1>12. ASSUME NEW p \in Placers, SaveFails(p)
       PROVE  CapInv'
  BY <1>1, <1>2, <1>10, <1>12 DEF SaveFails, CapInv, cycle, Placers, Traders, Fails
<1>13. CASE Monitor \/ MonitorFails
  <2>1. open' \subseteq open /\ UNCHANGED <<room, placer>> /\ failures <= failures'
    <3>1. CASE MonitorStart \/ PositionsAnswered \/ MonitorSees \/ MonitorRecords
      <4>1. UNCHANGED <<open, placer, cycle, limits>>
        BY <3>1 DEF MonitorStart, PositionsAnswered, MonitorSees, MonitorRecords, store
      <4> QED
        BY <1>2, <4>1 DEF cycle, limits
    <3>3. CASE MonitorCloses
      <4>1. open' = open \ {monitor.trade} /\ UNCHANGED <<placer, cycle, limits>>
        BY <3>3 DEF MonitorCloses
      <4> QED
        BY <1>2, <4>1 DEF cycle, limits
    <3>2. CASE MonitorFails
      BY <1>2, <3>2 DEF MonitorFails, MonitorBlind, MonitorSkips, MonitorCloseFails,
           store, cycle, Fails
    <3> QED
      BY <1>13, <3>1, <3>2, <3>3 DEF Monitor
  <2> QED
    BY <1>2, <2>1, CapFrame
<1>14. CASE Restart
  <2>1. Underway' = 0
    BY <1>14 DEF Restart, Idle, Entered, Placers, Traders
  <2> QED
    BY <1>1, <1>2, <1>14, <2>1 DEF Restart, CapInv, IInv, CycleOK
<1>15. CASE UNCHANGED vars
  BY <1>15 DEF vars, store, cycle, limits, CapInv
<1>16. CASE Manual
  <2>1. placer'["trigger"] = placer["trigger"]
    BY <1>16 DEF Manual, ManualAnswers, ManualPicks, ManualCloses, Returns, IInv, PlacersOK,
                 Placers, Traders
  <2>2. UNCHANGED <<open, room, failures>>
    BY <1>16 DEF Manual, ManualAnswers, ManualPicks, ManualCloses, store, cycle, limits
  <2> QED
    BY <1>2, <2>1, <2>2, CapFrame
<1> QED
  BY <1>3, <1>4, <1>5, <1>6, <1>7, <1>8, <1>9, <1>11, <1>12, <1>13, <1>14, <1>15, <1>16,
     <1>17, PlacingCases DEF Next, Sniper, Trigger, Stores

\* The two cycles together overrun the cap by at most its own size.
THEOREM CapHoldsAlways == Spec => []CapHolds
<1>1. Init => IInv /\ CapInv
  BY SniperInit, CapInit
<1>2. IInv /\ CapInv /\ [Next]_vars => IInv' /\ CapInv'
  BY SniperStep, CapStep
<1>3. IInv /\ CapInv => CapHolds
  BY EntriesFinite, SniperConstants
     DEF CapInv, CapHolds, Underway, IInv, CycleOK, LimitsOK
<1> QED
  BY <1>1, <1>2, <1>3, PTL DEF Spec

-----------------------------------------------------------------------------
(* A pause.  An order past its gate is excused, and only these are sent. *)

PauseInv == mode = "PAUSED" =>
  \A p \in Traders : placer[p].pc \in {"gated", "decide"} => placer[p].order \in excused

LEMMA PauseStep ==
  ASSUME IInv, PauseInv, [Next]_vars
  PROVE  PauseInv'
<1> USE DEF PauseInv, Placers, Traders
<1>1. CASE \E m \in Modes : ServiceMoves(m)
  BY <1>1 DEF ServiceMoves
<1>2. ASSUME UNCHANGED <<mode, excused>>,
             \A p \in Traders : placer'[p].pc \in {"gated", "decide"} => placer'[p] = placer[p]
      PROVE  PauseInv'
  BY <1>2
<1>3. CASE Start \/ Stop \/ Connect \/ Disconnect \/ CandleCloses \/ UNCHANGED vars
  BY <1>2, <1>3 DEF Start, Stop, Connect, Disconnect, CandleCloses, vars
<1>4. CASE \/ \E o \in unresolved : Reconcile(o)
           \/ \E k \in Keys : WindowPasses(k) \/ \E o \in position[k] : ExchangeCloses(o)
  BY <1>2, <1>4 DEF Reconcile, WindowPasses, ExchangeCloses, Fails, Writes
<1>5. CASE SniperAsks \/ SniperEnds
           \/ \E seen \in SUBSET Keys, h \in 1 .. GlobalMax : SniperScans(seen, h)
  <2>1. \A p \in Placers : placer'[p].pc \in {"gated", "decide"} => placer'[p] = placer[p]
    BY <1>5 DEF SniperAsks, SniperEnds, SniperScans, Moves, Idle, IInv, PlacersOK,
       PlacerStates, Placers
  <2> QED
    BY <1>2, <1>5, <2>1 DEF SniperAsks, SniperEnds, SniperScans
<1>6. ASSUME NEW k \in Keys, SniperPicks(k)
      PROVE  PauseInv'
  <2>1. mode # "PAUSED"
    BY <1>6 DEF SniperPicks, EntryAllowed
  <2> QED
    BY <1>6, <2>1 DEF SniperPicks
<1>7. CASE TriggerFires \/ TriggerEnds
  <2>1. \A p \in Placers : placer'[p].pc \in {"gated", "decide"} => placer'[p] = placer[p]
    BY <1>7, MovesFact DEF TriggerFires, TriggerEnds, IInv, Placers
  <2> QED
    BY <1>2, <1>7, <2>1 DEF TriggerFires, TriggerEnds
<1>8. ASSUME NEW k \in Keys, TriggerGates(k)
      PROVE  PauseInv'
  BY <1>8 DEF TriggerGates
<1>13. CASE TriggerPicks
  <2>1. /\ placer["trigger"].pc = "gated"
        /\ placer'["trigger"].order = placer["trigger"].order
        /\ \A q \in Placers : q # "trigger" => placer'[q] = placer[q]
    BY <1>13, DecideFact DEF TriggerPicks, IInv, HandOK, Entered
  <2> QED
    BY <1>13, <2>1 DEF TriggerPicks
<1>9. ASSUME NEW p \in Placers, Placing(p)
      PROVE  PauseInv'
  <2>1. CASE Stores(p)
    <3>1. Returns(p) /\ UNCHANGED <<mode, excused>>
      BY <2>1 DEF Stores, Saved, SaveFails
    <3> QED
      BY <1>2, <3>1, ReturnsFact DEF IInv
  <2>2. CASE Ends(p) \/ Drops(p)
    <3>1. Returns(p) /\ UNCHANGED Elsewhere
      BY <2>2, EndsFact, DropsFact
    <3> QED
      BY <1>2, <3>1, ReturnsFact DEF IInv, Elsewhere
  <2>3. CASE Sends(p) \/ Resends(p) \/ Replayed(p) \/ Answered(p) \/ Tracks(p)
    <3>1. /\ UNCHANGED Elsewhere /\ placer'[p].pc \notin {"gated", "decide"}
          /\ \A q \in Placers : q # p => placer'[q] = placer[q]
      BY <2>3, SendsFact, GoesOnWithFact DEF Executed
    <3> QED
      BY <1>2, <3>1 DEF Elsewhere
  <2> QED
    BY <1>9, <2>1, <2>2, <2>3, PlacingCases
<1>10. CASE Monitor \/ MonitorFails
  BY <1>2, <1>10 DEF Monitor, MonitorFails, MonitorStart, PositionsAnswered, MonitorSees,
     MonitorRecords, MonitorCloses, MonitorBlind, MonitorSkips, MonitorCloseFails, Fails
<1>11. CASE Restart
  BY <1>11 DEF Restart
<1>12. CASE Manual
  <2>1. \A p \in Traders : placer'[p] = placer[p]
    BY <1>12 DEF Manual, ManualAnswers, ManualPicks, ManualCloses, Returns, IInv, PlacersOK
  <2> QED
    BY <1>2, <1>12, <2>1 DEF Manual, ManualAnswers, ManualPicks, ManualCloses
<1> QED
  BY <1>1, <1>3, <1>4, <1>5, <1>6, <1>7, <1>8, <1>9, <1>10, <1>11, <1>12, <1>13
     DEF Next, Sniper, Trigger

\* Only Send lets the exchange execute an order.
LEMMA OnlySendFills ==
  ASSUME IInv, [Next]_vars
  PROVE  \/ UNCHANGED filled
         \/ \E p \in Placers : Sends(p)
<1>1. ASSUME NEW p \in Placers, Placing(p)
      PROVE  UNCHANGED filled \/ Sends(p)
  <2>1. CASE Stores(p)
    BY <2>1 DEF Stores, Saved, SaveFails, exchange
  <2> QED
    BY <1>1, <2>1, PlacingCases, EndsFact, GoesOnWithFact, DropsFact
<1>2. CASE Start \/ Stop \/ Connect \/ Disconnect \/ CandleCloses \/ Restart
           \/ (\E o \in unresolved : Reconcile(o)) \/ (\E m \in Modes : ServiceMoves(m))
           \/ (\E k \in Keys : WindowPasses(k) \/ \E o \in position[k] : ExchangeCloses(o))
           \/ UNCHANGED vars
  BY <1>2 DEF Start, Stop, Connect, Disconnect, CandleCloses, Restart, Reconcile,
     ServiceMoves, WindowPasses, ExchangeCloses, exchange, vars
<1>3. CASE Sniper \/ Trigger \/ Manual
  BY <1>3 DEF Sniper, SniperAsks, SniperScans, SniperPicks, SniperEnds, Trigger,
     TriggerFires, TriggerGates, TriggerPicks, TriggerEnds, Manual, ManualAnswers,
     ManualPicks, ManualCloses, exchange
<1>4. CASE Monitor \/ MonitorFails
  BY <1>4 DEF Monitor, MonitorStart, PositionsAnswered, MonitorSees, MonitorRecords,
     MonitorCloses, MonitorFails, MonitorBlind, MonitorSkips, MonitorCloseFails, exchange
<1> QED
  BY <1>1, <1>2, <1>3, <1>4 DEF Next

\* While PAUSED the exchange receives only orders that were past their gate.
THEOREM PauseStopsEntriesAlways == Spec => PauseStopsEntries
<1>1. Init => IInv /\ PauseInv
  BY SniperInit DEF Init, PauseInv
<1>2. IInv /\ PauseInv /\ [Next]_vars => IInv' /\ PauseInv'
  BY SniperStep, PauseStep
<1>3. IInv /\ PauseInv /\ [Next]_vars =>
        [\A o \in filled' \ filled :
           mode = "PAUSED" /\ o.by \in Traders => o \in excused]_vars
  <2> SUFFICES ASSUME IInv, PauseInv, Next, NEW o \in filled' \ filled,
                      mode = "PAUSED", o.by \in Traders
               PROVE  o \in excused
    BY OnlySendFills DEF vars, exchange
  <2>1. PICK p \in Placers : Sends(p)
    BY OnlySendFills
  <2>2. placer[p].pc = "decide" /\ o = placer[p].order
    BY <2>1, SendsFact
  <2> QED
    BY <2>2 DEF PauseInv, IInv, HandOK, Entered
<1> QED
  BY <1>1, <1>2, <1>3, PTL DEF Spec, PauseStopsEntries

-----------------------------------------------------------------------------
(* The monitor.  A position of an entry it knew can only shrink. *)

WatchInv ==
  /\ monitor.pc \in {"answered", "pricing", "closing"} =>
       \A o \in watched : o.key \in flat => o \notin position[o.key]
  /\ monitor.pc = "pricing" => monitor.order.key \in flat

LEMMA WatchFrame ==
  ASSUME IInv, WatchInv, monitor' = monitor, flat' = flat, watched' = watched,
         \A o \in watched : o.key \in Keys => position'[o.key] \cap watched \subseteq position[o.key]
  PROVE  WatchInv'
BY DEF IInv, MonitorOK, ExchangeOK, Orders, WatchInv

LEMMA WatchGoesOn ==
  ASSUME IInv, UNCHANGED <<trades, filled, position>>, tracked' \subseteq filled,
         NEW f \in SUBSET Keys, NEW v \in SUBSET filled, NEW w \in SUBSET filled,
         NEW done \in SUBSET Nat, GoesOn(f, v, w, done),
         \A o \in w : o.key \in f => o \notin position[o.key]
  PROVE  WatchInv'
<1>1. /\ monitor'.pc \in {"idle", "pricing"}
      /\ monitor'.pc = "pricing" => flat' = f /\ watched' = w /\ monitor'.order.key \in f
  BY GoesOnFact DEF IInv, ExchangeOK
<1> QED
  BY <1>1 DEF WatchInv

LEMMA WatchStep ==
  ASSUME IInv, WatchInv, [Next]_vars
  PROVE  WatchInv'
<1>1. ASSUME UNCHANGED <<position, pass>>
      PROVE  WatchInv'
  BY <1>1 DEF pass, WatchInv
<1>2. CASE Start \/ Stop \/ Connect \/ Disconnect \/ CandleCloses \/ UNCHANGED vars
  BY <1>1, <1>2 DEF Start, Stop, Connect, Disconnect, CandleCloses, exchange, journal, vars
<1>3. CASE \/ \E m \in Modes : ServiceMoves(m)
           \/ \E o \in unresolved : Reconcile(o)
           \/ \E k \in Keys : WindowPasses(k)
  BY <1>1, <1>3 DEF ServiceMoves, Reconcile, WindowPasses, exchange, journal, Fails, Writes
<1>4. ASSUME NEW k \in Keys, NEW c \in position[k], ExchangeCloses(c)
      PROVE  WatchInv'
  BY <1>4, WatchFrame DEF ExchangeCloses, pass, IInv, ExchangeOK
<1>15. ASSUME NEW k \in Keys, ManualCloses(k)
       PROVE  WatchInv'
  BY <1>15, WatchFrame DEF ManualCloses, pass, IInv, ExchangeOK
<1>16. CASE ManualAnswers \/ \E k \in Keys, n \in 1 .. MaxModes : ManualPicks(k, n)
  BY <1>1, <1>16 DEF ManualAnswers, ManualPicks, exchange, journal
<1>5. CASE Sniper \/ Trigger
  BY <1>1, <1>5 DEF Sniper, SniperAsks, SniperScans, SniperPicks, SniperEnds, Trigger,
       TriggerFires, TriggerGates, TriggerPicks, TriggerEnds, exchange, journal
<1>6. ASSUME NEW p \in Placers, Sends(p)
      PROVE  WatchInv'
  <2>1. watched \subseteq filled /\ placer[p].order \notin filled
    BY <1>6, SendsFact DEF IInv, MonitorOK
  <2> QED
    BY <1>6, <2>1, SendsFact, WatchFrame DEF Elsewhere, pass, IInv, ExchangeOK
<1>7. ASSUME NEW p \in Placers,
             \/ Ends(p) \/ Resends(p) \/ Replayed(p) \/ Answered(p) \/ Tracks(p)
             \/ Drops(p) \/ Stores(p)
      PROVE  WatchInv'
  <2>1. CASE Stores(p)
    BY <1>1, <2>1 DEF Stores, Saved, SaveFails, exchange
  <2> QED
    BY <1>1, <1>7, <2>1, EndsFact, GoesOnWithFact, DropsFact DEF Elsewhere
<1>8. CASE MonitorStart \/ MonitorBlind
  BY <1>8 DEF MonitorStart, MonitorBlind, Resting, WatchInv
<1>17. CASE PositionsAnswered
  <2>1. /\ monitor'.pc = "answered" /\ flat' = {k \in Keys : position[k] = {}}
        /\ UNCHANGED position
    BY <1>17 DEF PositionsAnswered, Resting, exchange
  <2> QED
    BY <2>1 DEF WatchInv
<1>9. CASE MonitorSees
  <2>1. /\ UNCHANGED <<trades, filled, position>> /\ tracked' \subseteq filled
        /\ flat \subseteq Keys /\ watched \subseteq filled
    BY <1>9 DEF MonitorSees, exchange, store, IInv, MemoryOK, MonitorOK
  <2>2. \A o \in watched : o.key \in flat => o \notin position[o.key]
    BY <1>9 DEF MonitorSees, WatchInv
  <2> QED
    BY <1>9, <2>1, <2>2, WatchGoesOn DEF MonitorSees
<1>10. ASSUME monitor.pc \in {"pricing", "closing"}, tracked' \subseteq filled,
              UNCHANGED <<trades, filled, position>>, NEW done \in SUBSET Nat,
              GoesOn(flat, visited, watched, done)
       PROVE  WatchInv'
  BY <1>10, WatchGoesOn DEF WatchInv, IInv, MonitorOK
<1>11. CASE MonitorRecords
  <2>1. tracked' \subseteq filled /\ UNCHANGED <<trades, filled, position>>
        /\ finished \subseteq Nat
    BY <1>11 DEF MonitorRecords, exchange, journal, IInv, MemoryOK, MonitorOK
  <2>2. CASE GoesOn(flat, visited, watched, finished)
    BY <1>10, <1>11, <2>1, <2>2 DEF MonitorRecords
  <2>3. ASSUME NEW t \in open, monitor' = [monitor EXCEPT !.pc = "closing", !.trade = t],
               UNCHANGED <<flat, visited, finished, watched, counted>>
        PROVE  WatchInv'
    BY <1>11, <2>1, <2>3 DEF MonitorRecords, WatchInv, IInv, MonitorOK, MonitorStates
  <2> QED
    BY <1>11, <2>2, <2>3 DEF MonitorRecords
<1>12. CASE MonitorCloses
  <2> DEFINE c    == trades[monitor.trade].campaign
             done == IF \E t \in open' : trades[t].campaign = c THEN finished
                     ELSE finished \cup {c}
  <2>1. trades[monitor.trade] \in Trades
    BY <1>12, ElementOfSeq, LenProperties DEF MonitorCloses, IInv, MonitorOK, StoreOK, Ids
  <2>2. done \subseteq Nat
    BY <2>1 DEF IInv, MonitorOK, Trades
  <2>3. GoesOn(flat, visited, watched, done)
    BY <1>12 DEF MonitorCloses
  <2> HIDE DEF done
  <2>4. tracked' \subseteq filled /\ UNCHANGED <<trades, filled, position>>
    BY <1>12 DEF MonitorCloses, exchange, journal, IInv, MemoryOK
  <2> QED
    BY <1>10, <1>12, <2>2, <2>3, <2>4 DEF MonitorCloses
<1>13. CASE MonitorSkips \/ MonitorCloseFails
  <2>1. tracked' \subseteq filled /\ UNCHANGED <<trades, filled, position>>
        /\ finished \subseteq Nat
    BY <1>13 DEF MonitorSkips, MonitorCloseFails, exchange, journal, IInv, MemoryOK,
       MonitorOK, Fails
  <2> QED
    BY <1>10, <1>13, <2>1 DEF MonitorSkips, MonitorCloseFails, Fails
<1>14. CASE Restart
  BY <1>14 DEF Restart, Resting, WatchInv
<1> QED
  BY <1>2, <1>3, <1>4, <1>5, <1>6, <1>7, <1>8, <1>9, <1>11, <1>12, <1>13, <1>14,
     <1>15, <1>16, <1>17, PlacingCases DEF Next, Manual, Monitor, MonitorFails

\* Only the monitor records, and it records the entry it has priced.
LEMMA OnlyMonitorRecords ==
  ASSUME IInv, [Next]_vars
  PROVE  \/ recorded' \subseteq recorded
         \/ monitor.pc = "pricing" /\ recorded' = recorded \cup {monitor.order}
<1>1. ASSUME NEW p \in Placers, Placing(p)
      PROVE  UNCHANGED recorded
  <2>1. CASE Stores(p)
    BY <2>1 DEF Stores, Saved, SaveFails
  <2> QED
    BY <1>1, <2>1, PlacingCases, EndsFact, SendsFact, GoesOnWithFact, DropsFact DEF
       Elsewhere
<1>2. CASE Start \/ Stop \/ Connect \/ Disconnect \/ CandleCloses \/ Restart
           \/ (\E o \in unresolved : Reconcile(o)) \/ (\E m \in Modes : ServiceMoves(m))
           \/ (\E k \in Keys : WindowPasses(k) \/ \E o \in position[k] : ExchangeCloses(o))
           \/ UNCHANGED vars
  BY <1>2 DEF Start, Stop, Connect, Disconnect, CandleCloses, Restart, Reconcile,
     ServiceMoves, WindowPasses, ExchangeCloses, vars
<1>3. CASE Sniper \/ Trigger \/ Manual
  BY <1>3 DEF Sniper, SniperAsks, SniperScans, SniperPicks, SniperEnds, Trigger,
     TriggerFires, TriggerGates, TriggerPicks, TriggerEnds, Manual, ManualAnswers,
     ManualPicks, ManualCloses
<1>4. CASE Monitor \/ MonitorFails
  BY <1>4 DEF Monitor, MonitorStart, PositionsAnswered, MonitorSees, MonitorRecords,
     MonitorCloses, MonitorFails, MonitorBlind, MonitorSkips, MonitorCloseFails
<1> QED
  BY <1>1, <1>2, <1>3, <1>4 DEF Next

\* An entry the monitor knew when it asked for the positions is recorded as
\* closed only if its quantity is closed.
THEOREM WatchedClosedAlways == Spec => WatchedClosedOnlyWhenFlat
<1>1. Init => IInv /\ WatchInv
  BY SniperInit DEF Init, WatchInv, Resting
<1>2. IInv /\ WatchInv /\ [Next]_vars => IInv' /\ WatchInv'
  BY SniperStep, WatchStep
<1>3. IInv /\ WatchInv /\ [Next]_vars =>
        [\A o \in recorded' \ recorded : o \in watched => o \notin position[o.key]]_vars
  BY OnlyMonitorRecords DEF WatchInv
<1> QED
  BY <1>1, <1>2, <1>3, PTL DEF Spec, WatchedClosedOnlyWhenFlat

-----------------------------------------------------------------------------
(* No entry is forgotten.  An executed order is in the hand of a placer, in  *)
(* sniperOpenTrades or in sniperRecordedIds, or more than its entry asked    *)
(* for; those that are not, and are not of the manual route, cost a failure  *)
(* each.                                                                     *)

InHand(o) == \E p \in Placers :
               placer[p].pc \in {"filled", "over", "noted"} /\ placer[p].order = o
Missing   == {o \in filled : /\ o.by \in Traders
                             /\ o \notin tracked \cup recorded \cup oversized /\ ~InHand(o)}
\* Positions are of executed orders.
PosInv    == \A k \in Keys : position[k] \subseteq filled
MissInv   == crashes = 0 => IsFiniteSet(Missing) /\ Cardinality(Missing) <= failures

LEMMA MissInit == Init => MissInv /\ PosInv
<1> SUFFICES ASSUME Init PROVE MissInv /\ PosInv
  OBVIOUS
<1>1. Missing = {} /\ PosInv /\ failures = 0
  BY DEF Init, Missing, PosInv
<1> QED
  BY <1>1, FS_EmptySet DEF MissInv

LEMMA PosStep ==
  ASSUME IInv, PosInv, [Next]_vars
  PROVE  PosInv'
<1>1. CASE UNCHANGED <<position, filled>>
  BY <1>1 DEF PosInv
<1>2. ASSUME NEW p \in Placers, Sends(p)
      PROVE  PosInv'
  BY <1>2, SendsFact DEF PosInv, IInv, ExchangeOK
<1>3. ASSUME NEW k \in Keys, NEW o \in position[k], ExchangeCloses(o)
      PROVE  PosInv'
  BY <1>3 DEF ExchangeCloses, PosInv, IInv, ExchangeOK
<1>4. ASSUME NEW k \in Keys, ManualCloses(k)
      PROVE  PosInv'
  BY <1>4 DEF ManualCloses, PosInv, IInv, ExchangeOK
<1>5. ASSUME NEW p \in Placers,
             \/ Ends(p) \/ Resends(p) \/ Replayed(p) \/ Answered(p) \/ Tracks(p)
             \/ Drops(p) \/ Stores(p)
      PROVE  PosInv'
  <2>1. CASE Stores(p)
    BY <1>1, <2>1 DEF Stores, Saved, SaveFails, exchange
  <2> QED
    BY <1>1, <1>5, <2>1, EndsFact, GoesOnWithFact, DropsFact
<1>6. CASE Start \/ Stop \/ Connect \/ Disconnect \/ CandleCloses \/ Restart
           \/ (\E o \in unresolved : Reconcile(o)) \/ (\E m \in Modes : ServiceMoves(m))
           \/ (\E k \in Keys : WindowPasses(k)) \/ UNCHANGED vars
  BY <1>1, <1>6 DEF Start, Stop, Connect, Disconnect, CandleCloses, Restart, Reconcile,
     ServiceMoves, WindowPasses, exchange, vars
<1>7. CASE Sniper \/ Trigger \/ ManualAnswers
           \/ \E k \in Keys, n \in 1 .. MaxModes : ManualPicks(k, n)
  BY <1>1, <1>7 DEF Sniper, SniperAsks, SniperScans, SniperPicks, SniperEnds, Trigger,
     TriggerFires, TriggerGates, TriggerPicks, TriggerEnds, ManualAnswers, ManualPicks,
     exchange
<1>8. CASE Monitor \/ MonitorFails
  BY <1>1, <1>8 DEF Monitor, MonitorStart, PositionsAnswered, MonitorSees, MonitorRecords,
     MonitorCloses, MonitorFails, MonitorBlind, MonitorSkips, MonitorCloseFails, exchange
<1> QED
  BY <1>2, <1>3, <1>4, <1>5, <1>6, <1>7, <1>8, PlacingCases DEF Next, Manual

\* A step that loses nothing.
LEMMA MissFrame ==
  ASSUME IInv, MissInv, Missing' \subseteq Missing, crashes' = crashes,
         failures' \in Nat, failures <= failures'
  PROVE  MissInv'
<1> SUFFICES ASSUME crashes = 0
             PROVE  IsFiniteSet(Missing') /\ Cardinality(Missing') <= failures'
  BY DEF MissInv
<1>1. IsFiniteSet(Missing) /\ Cardinality(Missing) <= failures /\ failures \in Nat
  BY DEF MissInv, IInv, LimitsOK
<1>2. /\ IsFiniteSet(Missing') /\ Cardinality(Missing') <= Cardinality(Missing)
      /\ Cardinality(Missing) \in Nat /\ Cardinality(Missing') \in Nat
  BY <1>1, FS_Subset, FS_CardinalityType
<1> QED
  BY <1>1, <1>2

\* A step that loses the order in hand is a failure, or the order joins oversized.
LEMMA MissLoses ==
  ASSUME IInv, MissInv, NEW p \in Placers, Drops(p)
  PROVE  MissInv'
<1> DEFINE o == placer[p].order
<1>0. /\ UNCHANGED <<filled, tracked, recorded, crashes>> /\ failures \in Nat
      /\ \/ failures' = failures + 1 /\ UNCHANGED oversized
         \/ UNCHANGED failures /\ oversized' = oversized \cup {o}
      /\ \A q \in Placers : q # p => placer'[q] = placer[q]
  BY DropsFact, ReturnsFact DEF Elsewhere, IInv, LimitsOK
<1>6. CASE UNCHANGED failures /\ oversized' = oversized \cup {o}
  <2>1. Missing' \subseteq Missing
    BY <1>0, <1>6 DEF Missing, InHand
  <2> QED
    BY <1>0, <1>6, <2>1, MissFrame
<1>1. CASE failures' = failures + 1 /\ UNCHANGED oversized
  <2>2. Missing' \subseteq Missing \cup {o}
    BY <1>0, <1>1 DEF Missing, InHand
  <2> SUFFICES ASSUME crashes = 0
               PROVE  IsFiniteSet(Missing') /\ Cardinality(Missing') <= failures'
    BY <1>0 DEF MissInv
  <2>3. IsFiniteSet(Missing) /\ Cardinality(Missing) <= failures
    BY DEF MissInv
  <2>4. /\ IsFiniteSet(Missing \cup {o})
        /\ Cardinality(Missing \cup {o}) = IF o \in Missing THEN Cardinality(Missing)
                                           ELSE Cardinality(Missing) + 1
        /\ Cardinality(Missing) \in Nat
    BY <2>3, FS_AddElement, FS_CardinalityType
  <2>5. /\ IsFiniteSet(Missing') /\ Cardinality(Missing') <= Cardinality(Missing \cup {o})
        /\ Cardinality(Missing') \in Nat
    BY <2>2, <2>4, FS_Subset, FS_CardinalityType
  <2> QED
    BY <1>0, <1>1, <2>3, <2>4, <2>5
<1> QED
  BY <1>0, <1>1, <1>6

LEMMA MissStep ==
  ASSUME IInv, IInv', MissInv, [Next]_vars
  PROVE  MissInv'
<1>1. failures \in Nat /\ failures' \in Nat
  BY DEF IInv, LimitsOK
<1>2. ASSUME filled' = filled, oversized' = oversized,
             tracked \cup recorded \subseteq tracked' \cup recorded',
             crashes' = crashes, failures <= failures',
             \A p \in Placers : placer[p].pc \in {"filled", "over", "noted"} =>
               \/ placer'[p].pc \in {"filled", "over", "noted"} /\ placer'[p].order = placer[p].order
               \/ placer[p].order \in tracked' \/ placer[p].order.by \notin Traders
      PROVE  MissInv'
  <2>1. Missing' \subseteq Missing
    BY <1>2 DEF Missing, InHand
  <2> QED
    BY <1>1, <1>2, <2>1, MissFrame
<1>3. CASE Start \/ Stop \/ Connect \/ Disconnect \/ CandleCloses \/ UNCHANGED vars
  BY <1>1, <1>2, <1>3 DEF Start, Stop, Connect, Disconnect, CandleCloses, vars, exchange,
     journal, limits
<1>4. CASE \/ \E m \in Modes : ServiceMoves(m)
           \/ \E o \in unresolved : Reconcile(o)
           \/ \E k \in Keys : WindowPasses(k) \/ \E o \in position[k] : ExchangeCloses(o)
  BY <1>1, <1>2, <1>4 DEF ServiceMoves, Reconcile, WindowPasses, ExchangeCloses, exchange,
     journal, limits, Fails, Writes
<1>5. CASE Sniper
  <2>1. /\ placer["sniper"].pc \notin {"filled", "over", "noted"}
        /\ placer'["trigger"] = placer["trigger"]
    BY <1>5 DEF Sniper, SniperAsks, SniperScans, SniperPicks, SniperEnds, Moves, Decide,
                IInv, PlacersOK, Placers, Traders
  <2>2. UNCHANGED <<filled, oversized, tracked, recorded, crashes, failures>>
    BY <1>5 DEF Sniper, SniperAsks, SniperScans, SniperPicks, SniperEnds, exchange,
       journal, limits
  <2> QED
    BY <1>1, <1>2, <2>1, <2>2 DEF Placers, Traders, IInv, HandOK, Entered, Executed
<1>6. CASE Trigger
  <2>1. /\ placer["trigger"].pc \notin {"filled", "over", "noted"}
        /\ placer'["sniper"] = placer["sniper"]
    BY <1>6 DEF Trigger, TriggerFires, TriggerGates, TriggerPicks, TriggerEnds, Moves,
       Decide, IInv, PlacersOK, Placers, Traders
  <2>2. UNCHANGED <<filled, oversized, tracked, recorded, crashes, failures>>
    BY <1>6 DEF Trigger, TriggerFires, TriggerGates, TriggerPicks, TriggerEnds, exchange,
       journal, limits
  <2> QED
    BY <1>1, <1>2, <2>1, <2>2 DEF Placers, Traders, IInv, HandOK, Entered, Executed
<1>7. ASSUME NEW p \in Placers, Sends(p)
      PROVE  MissInv'
  <2>1. /\ placer'[p].pc \in {"filled", "over"} /\ placer'[p].order = placer[p].order
        /\ \A q \in Placers : q # p => placer'[q] = placer[q]
        /\ filled' = filled \cup {placer[p].order} /\ placer[p].pc = "decide"
        /\ UNCHANGED <<tracked, recorded, oversized, failures, crashes>>
    BY <1>7, SendsFact DEF Elsewhere
  <2>2. Missing' \subseteq Missing
    BY <2>1 DEF Missing, InHand
  <2> QED
    BY <1>1, <2>1, <2>2, MissFrame
<1>8. ASSUME NEW p \in Placers, Resends(p) \/ Replayed(p) \/ Answered(p) \/ Tracks(p)
      PROVE  MissInv'
  <2>1. /\ placer'[p].pc \in Executed /\ placer'[p].order = placer[p].order
        /\ placer'[p].pc = "saving" => placer[p].order \in tracked'
        /\ \A q \in Placers : q # p => placer'[q] = placer[q]
        /\ UNCHANGED Elsewhere /\ UNCHANGED <<filled, position, oversized>>
        /\ tracked \subseteq tracked' /\ failures <= failures'
    BY <1>8, GoesOnWithFact
  <2>2. UNCHANGED <<recorded, crashes>>
    BY <2>1 DEF Elsewhere
  <2> QED
    BY <1>2, <2>1, <2>2 DEF Executed
<1>9. ASSUME NEW p \in Placers, Ends(p) \/ Stores(p)
      PROVE  MissInv'
  <2>1. /\ placer[p].pc \notin {"filled", "over", "noted"} /\ Returns(p)
        /\ UNCHANGED <<filled, oversized, tracked, recorded, crashes>> /\ failures <= failures'
    <3>1. CASE Ends(p)
      BY <3>1, EndsFact DEF Elsewhere
    <3>2. CASE Stores(p)
      BY <1>1, <3>2 DEF Stores, Saved, SaveFails, Fails, exchange, limits
    <3> QED
      BY <1>9, <3>1, <3>2
  <2>2. \A q \in Placers : q # p => placer'[q] = placer[q]
    BY <2>1, ReturnsFact DEF IInv
  <2> QED
    BY <1>2, <2>1, <2>2
<1>10. ASSUME NEW p \in Placers, Drops(p)
       PROVE  MissInv'
  BY <1>10, MissLoses
<1>11. CASE Monitor \/ MonitorFails
  <2>1. UNCHANGED <<filled, oversized, placer, crashes>> /\ failures <= failures'
    <3>1. CASE Monitor
      <4>1. UNCHANGED <<exchange, placer, limits>>
        BY <3>1 DEF Monitor, MonitorStart, PositionsAnswered, MonitorSees, MonitorRecords,
           MonitorCloses
      <4> QED
        BY <1>1, <4>1 DEF exchange, journal, limits
    <3>2. CASE MonitorFails
      BY <1>1, <3>2 DEF MonitorFails, MonitorBlind, MonitorSkips, MonitorCloseFails,
         exchange, journal, Fails
    <3> QED
      BY <1>11, <3>1, <3>2
  <2>2. tracked \cup recorded \subseteq tracked' \cup recorded'
    BY <1>11 DEF Monitor, MonitorStart, PositionsAnswered, MonitorSees, MonitorRecords,
       MonitorCloses, MonitorFails, MonitorBlind, MonitorSkips, MonitorCloseFails, Fails
  <2> QED
    BY <1>2, <2>1, <2>2
<1>12. CASE Restart
  BY <1>12 DEF Restart, MissInv, IInv, LimitsOK
<1>13. CASE Manual
  <2>1. /\ \A p \in Traders : placer'[p] = placer[p]
        /\ UNCHANGED <<filled, oversized, tracked, recorded, crashes, failures>>
    BY <1>13 DEF Manual, ManualAnswers, ManualPicks, ManualCloses, Returns, IInv, PlacersOK,
                 Placers, Traders, exchange, journal, limits
  <2>2. placer["manual"].pc \in {"filled", "over", "noted"} =>
          placer["manual"].order.by \notin Traders
    BY DEF IInv, HandOK, Entered, Executed, Placers, Traders
  <2>3. \A p \in Placers : p \in Traders \/ p = "manual"
    BY DEF Placers
  <2> QED
    BY <1>1, <1>2, <2>1, <2>2, <2>3
<1> QED
  BY <1>3, <1>4, <1>5, <1>6, <1>7, <1>8, <1>9, <1>10, <1>11, <1>12, <1>13,
     PlacingCases DEF Next

\* Until a crash, every forgotten position has cost a failed request or write, or is
\* more than the journal's entry of an earlier attempt asked for.
THEOREM LiveEntriesTrackedAlways == Spec => []LiveEntriesTracked
<1>1. Init => IInv /\ PosInv /\ MissInv
  BY SniperInit, MissInit
<1>2. IInv /\ PosInv /\ MissInv /\ [Next]_vars => IInv' /\ PosInv' /\ MissInv'
  BY SniperStep, PosStep, MissStep
<1>3. IInv /\ PosInv /\ MissInv => LiveEntriesTracked
  <2> SUFFICES ASSUME IInv, PosInv, MissInv, crashes = 0
               PROVE  Cardinality(Forgotten \ oversized) <= failures
    BY DEF LiveEntriesTracked
  <2>1. Forgotten \ oversized \subseteq Missing
    BY DEF Forgotten, Missing, InHand, PosInv
  <2>2. IsFiniteSet(Missing) /\ Cardinality(Missing) <= failures /\ failures \in Nat
    BY DEF MissInv, IInv, LimitsOK
  <2>3. /\ Cardinality(Forgotten \ oversized) <= Cardinality(Missing)
        /\ Cardinality(Forgotten \ oversized) \in Nat /\ Cardinality(Missing) \in Nat
    BY <2>1, <2>2, FS_Subset, FS_CardinalityType
  <2> QED
    BY <2>2, <2>3
<1> QED
  BY <1>1, <1>2, <1>3, PTL DEF Spec

-----------------------------------------------------------------------------
(* The store and the monitor's memory.  An open entry is known to the monitor, *)
(* as an order it tracks or has recorded, and it has recorded the order of an  *)
(* entry that stays open only if that was stored late.                         *)

OneEach     == \A t, u \in open : trades[t].order = trades[u].order => t = u
SavingKnown == \A p \in Placers :
                 placer[p].pc = "saving" => placer[p].order \in tracked \cup recorded
OpenKnown   == \A t \in open : trades[t].order \in tracked \cup recorded
DoneIsLate  == \A t \in open : trades[t].order \in recorded => trades[t].late \/ Closing(t)
KeptInv     == OneEach /\ SavingKnown /\ OpenKnown /\ DoneIsLate

LEMMA KeptInit == Init => KeptInv
BY DEF Init, KeptInv, OneEach, SavingKnown, OpenKnown, DoneIsLate, Idle

\* A step outside the store and the monitor, which may track more orders.
LEMMA KeptFrame ==
  ASSUME KeptInv, UNCHANGED <<trades, open, recorded, monitor>>, tracked \subseteq tracked',
         \A p \in Placers : placer'[p].pc = "saving" =>
           \/ placer[p].pc = "saving" /\ placer'[p].order = placer[p].order
           \/ placer'[p].order \in tracked'
  PROVE  KeptInv'
<1>1. OneEach' /\ OpenKnown'
  BY DEF KeptInv, OneEach, OpenKnown
<1>2. DoneIsLate'
  BY DEF KeptInv, DoneIsLate, Closing
<1>3. SavingKnown'
  BY DEF KeptInv, SavingKnown
<1> QED
  BY <1>1, <1>2, <1>3 DEF KeptInv

LEMMA KeptPersist ==
  ASSUME IInv, KeptInv, NEW p \in Placers, placer[p].pc = "saving",
         Persist(placer[p].order, placer[p].campaign), Returns(p),
         UNCHANGED <<tracked, recorded, monitor>>
  PROVE  KeptInv'
<1> DEFINE o == placer[p].order
           n == Len(trades) + 1
<1>0. \A q \in Placers : placer'[q].pc = "saving" =>
        placer[q].pc = "saving" /\ placer'[q].order = placer[q].order
  BY ReturnsFact DEF IInv
<1>1. CASE \E t \in open : trades[t].order = o
  BY <1>0, <1>1, KeptFrame DEF Persist
<1>2. CASE ~ \E t \in open : trades[t].order = o
  <2> DEFINE e == [order |-> o, campaign |-> placer[p].campaign, late |-> o \in recorded]
  <2>1. o \in filled /\ o \in Orders /\ placer[p].campaign \in Nat
    BY DEF IInv, HandOK, PlacersOK, PlacerStates, Entered, Executed
  <2>2. e \in Trades /\ e.order = o /\ e.late = (o \in recorded)
    BY <2>1 DEF Trades
  <2>3. trades' = Append(trades, e) /\ open' = open \cup {n}
    BY <1>2 DEF Persist
  <2> HIDE DEF e
  <2>4. DOMAIN trades = 1 .. Len(trades) /\ Len(trades) \in Nat
        /\ (\A i \in DOMAIN trades : trades'[i] = trades[i]) /\ trades'[n] = e
    BY <2>2, <2>3, AppendFact DEF IInv, StoreOK
  <2>5. open \subseteq DOMAIN trades /\ n \notin open
    BY <2>4 DEF IInv, StoreOK, Ids
  <2>6. \A t \in open' : \/ t = n /\ trades'[t] = e
                         \/ t \in open /\ t # n /\ trades'[t] = trades[t]
    <3>1. trades'[n] = e
      BY <2>4
    <3>2. open \subseteq DOMAIN trades /\ n \notin open /\ open' = open \cup {n}
      BY <2>3, <2>5
    <3>3. \A t \in DOMAIN trades : trades'[t] = trades[t]
      BY <2>4
    <3> HIDE DEF n
    <3> QED
      BY <3>1, <3>2, <3>3
  <2>7. o \in tracked \cup recorded
    BY DEF KeptInv, SavingKnown
  <2>8. OneEach'
    BY <1>2, <2>2, <2>6 DEF KeptInv, OneEach
  <2>9. OpenKnown'
    BY <2>2, <2>6, <2>7 DEF KeptInv, OpenKnown
  <2>10. DoneIsLate'
    BY <2>2, <2>6 DEF KeptInv, DoneIsLate, Closing
  <2>11. SavingKnown'
    BY <1>0 DEF KeptInv, SavingKnown
  <2> QED
    BY <2>8, <2>9, <2>10, <2>11 DEF KeptInv
<1> QED
  BY <1>1, <1>2

\* The monitor goes on: what it was closing is closed.
LEMMA KeptGoesOn ==
  ASSUME IInv, KeptInv, UNCHANGED <<trades, recorded, placer>>,
         tracked' = tracked \ recorded, open' \subseteq open,
         \A t \in open' : ~Closing(t), monitor'.pc # "closing"
  PROVE  KeptInv'
<1>1. OneEach' /\ OpenKnown' /\ SavingKnown'
  BY DEF KeptInv, OneEach, OpenKnown, SavingKnown
<1>2. DoneIsLate'
  BY DEF KeptInv, DoneIsLate
<1> QED
  BY <1>1, <1>2 DEF KeptInv

LEMMA GoesOnRests ==
  ASSUME NEW f, NEW v, NEW w, NEW done, GoesOn(f, v, w, done)
  PROVE  monitor'.pc # "closing"
<1>1. CASE \E o \in tracked' \ v : monitor' = [Resting EXCEPT !.pc = "pricing", !.order = o]
  <2>1. PICK o : monitor' = [Resting EXCEPT !.pc = "pricing", !.order = o]
    BY <1>1
  <2>2. monitor' = [pc |-> "pricing", order |-> o, trade |-> None]
    BY <2>1 DEF Resting
  <2> QED
    BY <2>2
<1>2. CASE monitor' = Resting
  BY <1>2 DEF Resting
<1> QED
  BY <1>1, <1>2 DEF GoesOn

LEMMA KeptMonitor ==
  ASSUME IInv, IInv', KeptInv, Monitor \/ MonitorFails
  PROVE  KeptInv'
<1>0. UNCHANGED <<trades, placer>>
  BY DEF Monitor, MonitorStart, PositionsAnswered, MonitorSees, MonitorRecords,
     MonitorCloses, MonitorFails, MonitorBlind, MonitorSkips, MonitorCloseFails, store,
     Fails
<1>1. CASE MonitorStart \/ PositionsAnswered \/ MonitorBlind
  <2>1. /\ UNCHANGED <<open, recorded>> /\ tracked \subseteq tracked'
        /\ monitor.pc # "closing" /\ monitor'.pc # "closing"
    BY <1>1 DEF MonitorStart, PositionsAnswered, MonitorBlind, store, Resting, Fails
  <2> QED
    BY <1>0, <2>1 DEF KeptInv, OneEach, OpenKnown, SavingKnown, DoneIsLate, Closing
<1>2. ASSUME NEW f, NEW v, NEW w, NEW done, GoesOn(f, v, w, done)
      PROVE  monitor'.pc # "closing"
  BY <1>2, GoesOnRests
<1>3. CASE MonitorSees \/ MonitorSkips
  <2>1. /\ UNCHANGED <<open, recorded>> /\ tracked' = tracked \ recorded
        /\ monitor.pc # "closing" /\ monitor'.pc # "closing"
    BY <1>2, <1>3 DEF PositionsAnswered, MonitorSees, MonitorSkips, store, Fails
  <2> QED
    BY <1>0, <2>1, KeptGoesOn DEF Closing
<1>4. CASE MonitorCloses \/ MonitorCloseFails
  <2>1. /\ UNCHANGED recorded /\ tracked' = tracked \ recorded
        /\ open' = open \ {monitor.trade} /\ monitor'.pc # "closing"
    BY <1>2, <1>4 DEF MonitorCloses, MonitorCloseFails, Fails
  <2> QED
    BY <1>0, <2>1, KeptGoesOn DEF Closing
<1>5. CASE MonitorRecords
  <2> DEFINE o  == monitor.order
             ts == {t \in open : trades[t].order = o}
  <2>1. /\ monitor.pc = "pricing" /\ recorded' = recorded \cup {o}
        /\ tracked' = tracked \ recorded' /\ open' = open
    BY <1>5 DEF MonitorRecords
  <2>2. OneEach' /\ OpenKnown' /\ SavingKnown'
    BY <1>0, <2>1 DEF KeptInv, OneEach, OpenKnown, SavingKnown
  <2>3. \A t \in open : trades[t].order \in recorded => trades[t].late
    BY <2>1 DEF KeptInv, DoneIsLate, Closing
  <2>4. CASE ts = {}
    BY <1>0, <2>1, <2>2, <2>3, <2>4 DEF KeptInv, DoneIsLate
  <2>5. ASSUME NEW t \in ts, monitor' = [monitor EXCEPT !.pc = "closing", !.trade = t]
        PROVE  KeptInv'
    <3>1. monitor'.pc = "closing" /\ monitor'.trade = t
      BY <2>5 DEF IInv, MonitorOK, MonitorStates
    <3>2. ASSUME NEW u \in open', trades'[u].order \in recorded'
          PROVE  trades'[u].late \/ Closing(u)'
      <4>1. CASE trades[u].order = o
        BY <1>0, <2>1, <3>1, <4>1 DEF KeptInv, OneEach, Closing
      <4>2. CASE trades[u].order # o
        BY <1>0, <2>1, <2>3, <3>2, <4>2
      <4> QED
        BY <4>1, <4>2
    <3> QED
      BY <2>2, <3>2 DEF KeptInv, DoneIsLate
  <2> QED
    BY <1>5, <2>4, <2>5 DEF MonitorRecords
<1> QED
  BY <1>1, <1>3, <1>4, <1>5 DEF Monitor, MonitorFails

LEMMA KeptStep ==
  ASSUME IInv, IInv', KeptInv, [Next]_vars
  PROVE  KeptInv'
<1>1. ASSUME UNCHANGED <<trades, open, recorded, monitor, tracked, placer>>
      PROVE  KeptInv'
  BY <1>1, KeptFrame
<1>2. CASE Start \/ Stop \/ Connect \/ Disconnect \/ CandleCloses \/ UNCHANGED vars
  BY <1>1, <1>2 DEF Start, Stop, Connect, Disconnect, CandleCloses, vars, store, pass
<1>3. CASE \/ \E m \in Modes : ServiceMoves(m)
           \/ \E o \in unresolved : Reconcile(o)
           \/ \E k \in Keys : WindowPasses(k) \/ \E o \in position[k] : ExchangeCloses(o)
  BY <1>1, <1>3 DEF ServiceMoves, Reconcile, WindowPasses, ExchangeCloses, store, pass,
     Fails, Writes
<1>4. CASE Sniper \/ Trigger \/ Manual
  <2>1. UNCHANGED <<trades, open, recorded, monitor, tracked>>
    <3>1. CASE Sniper
      BY <3>1 DEF Sniper, SniperAsks, SniperScans, SniperPicks, SniperEnds, store, pass
    <3>2. CASE Trigger
      BY <3>2 DEF Trigger, TriggerFires, TriggerGates, TriggerPicks, TriggerEnds, store,
         pass
    <3>3. CASE Manual
      BY <3>3 DEF Manual, ManualAnswers, ManualPicks, ManualCloses, store, pass
    <3> QED
      BY <1>4, <3>1, <3>2, <3>3
  <2>2. \A p \in Placers : placer'[p].pc = "saving" =>
          placer[p].pc = "saving" /\ placer'[p].order = placer[p].order
    <3> DEFINE Fewer == \A p \in Placers : placer'[p].pc = "saving" =>
                          placer[p].pc = "saving" /\ placer'[p].order = placer[p].order
    <3>1. ASSUME NEW p \in Placers, NEW pc \in {"idle", "ask", "scan"}, Moves(p, pc)
          PROVE  Fewer
      BY <3>1, MovesFact DEF IInv
    <3>2. ASSUME NEW p \in Placers, NEW o, Decide(p, o)
          PROVE  Fewer
      <4>1. PICK c : placer' = [placer EXCEPT ![p] =
              [pc |-> "decide", campaign |-> c, order |-> o]]
        BY <3>2 DEF Decide
      <4> QED
        BY <4>1 DEF IInv, PlacersOK
    <3>3. CASE Sniper
      <4>1. CASE SniperEnds
        BY <4>1 DEF SniperEnds, Idle, IInv, PlacersOK
      <4> QED
        BY <3>1, <3>2, <3>3, <4>1 DEF Sniper, SniperAsks, SniperScans, SniperPicks,
           Placers, Traders
    <3>4. CASE Trigger
      <4>1. ASSUME NEW k \in Keys, TriggerGates(k)
            PROVE  Fewer
        <5>1. PICK o : placer' = [placer EXCEPT !["trigger"] =
                [pc |-> "gated", campaign |-> None, order |-> o]]
          BY <4>1 DEF TriggerGates
        <5> QED
          BY <5>1 DEF IInv, PlacersOK
      <4> QED
        BY <3>1, <3>2, <3>4, <4>1 DEF Trigger, TriggerFires, TriggerPicks, TriggerEnds,
           Placers, Traders
    <3>5. CASE Manual
      <4>1. CASE ManualAnswers
        BY <4>1, ReturnsFact DEF ManualAnswers, IInv, Placers
      <4>2. ASSUME NEW k \in Keys, NEW n \in 1 .. MaxModes, ManualPicks(k, n)
            PROVE  Fewer
        <5>1. PICK c : placer' = [placer EXCEPT !["manual"] =
                [pc |-> "decide", campaign |-> c,
                 order |-> [by |-> "manual", key |-> k, event |-> n, depth |-> 0]]]
          BY <4>2 DEF ManualPicks
        <5> QED
          BY <5>1 DEF IInv, PlacersOK
      <4>3. ASSUME NEW k \in Keys, ManualCloses(k)
            PROVE  Fewer
        BY <4>3 DEF ManualCloses
      <4> QED
        BY <3>5, <4>1, <4>2, <4>3 DEF Manual
    <3> QED
      BY <1>4, <3>3, <3>4, <3>5
  <2> QED
    BY <2>1, <2>2, KeptFrame
<1>5. ASSUME NEW p \in Placers, Ends(p) \/ Drops(p)
      PROVE  KeptInv'
  <2>1. Returns(p) /\ UNCHANGED <<trades, open, recorded, monitor, tracked>>
    BY <1>5, EndsFact, DropsFact DEF Elsewhere, store, pass
  <2> QED
    BY <2>1, ReturnsFact, KeptFrame DEF IInv
<1>6. ASSUME NEW p \in Placers,
             Sends(p) \/ Resends(p) \/ Replayed(p) \/ Answered(p) \/ Tracks(p)
      PROVE  KeptInv'
  <2>1. UNCHANGED <<trades, open, recorded, monitor>> /\ tracked \subseteq tracked'
    BY <1>6, SendsFact, GoesOnWithFact DEF Elsewhere, store, pass
  <2>2. /\ placer'[p].order = placer[p].order
        /\ placer'[p].pc = "saving" => placer[p].order \in tracked'
        /\ \A q \in Placers : q # p => placer'[q] = placer[q]
    BY <1>6, SendsFact, GoesOnWithFact
  <2> QED
    BY <2>1, <2>2, KeptFrame
<1>7. ASSUME NEW p \in Placers, Stores(p)
      PROVE  KeptInv'
  BY <1>7, KeptPersist DEF Stores, Saved, SaveFails, pass
<1>8. CASE Monitor \/ MonitorFails
  BY <1>8, KeptMonitor
<1>9. CASE Restart
  <2>1. /\ UNCHANGED <<trades, open>> /\ recorded' = {}
        /\ tracked' = {trades[t].order : t \in open}
        /\ \A p \in Placers : placer'[p].pc = "idle"
    BY <1>9 DEF Restart, Idle
  <2> QED
    BY <2>1 DEF KeptInv, OneEach, OpenKnown, SavingKnown, DoneIsLate
<1> QED
  BY <1>2, <1>3, <1>4, <1>5, <1>6, <1>7, <1>8, <1>9, PlacingCases DEF Next

\* No open entry of the store is out of the monitor's sight, whatever the cycles, the
\* monitor, failures and restarts do in between, but one that was stored late.
THEOREM OpenTradesWatchedAlways == Spec => []OpenTradesWatched
<1>1. IInv /\ KeptInv /\ [Next]_vars => IInv' /\ KeptInv'
  BY SniperStep, KeptStep
<1>2. KeptInv => OpenTradesWatched
  BY DEF KeptInv, OpenKnown, DoneIsLate, OpenTradesWatched
<1> QED
  BY <1>1, <1>2, SniperInit, KeptInit, PTL DEF Spec
-----------------------------------------------------------------------------
(* The finding.  demo_sniper_double_count shows an entry that joins a campaign *)
(* whose entries had all been closed; nothing else counts a trade twice.       *)

Rejoins ==
  \E t \in Ids' \ Ids :
    /\ \E u \in Ids : trades[u].campaign = trades'[t].campaign
    /\ \A u \in open : trades[u].campaign # trades'[t].campaign

\* No entry of a campaign is open, and none of it was counted: what a pass that
\* is about to report `done' may rely on.
Reportable(done, left) ==
  /\ \A t \in Ids : counted[t] <= 1
  /\ \A t, u \in Ids :
       /\ trades[t].campaign = trades[u].campaign
       /\ counted[t] # 0 \/ trades[t].campaign \in done
       => u \notin left
  /\ \A t \in Ids : trades[t].campaign \in done => counted[t] = 0
  /\ \A c \in done : \E t \in Ids : trades[t].campaign = c

SumInv == Reportable(finished, open) /\ (monitor.pc = "closing" => monitor.trade \in open)

LEMMA SumGoesOn ==
  ASSUME IInv, UNCHANGED trades, NEW f, NEW v, NEW w, NEW done, GoesOn(f, v, w, done),
         Reportable(done, open')
  PROVE  SumInv'
<1>1. monitor'.pc # "closing"
  BY GoesOnRests
<1>2. CASE finished' = done /\ UNCHANGED counted
  BY <1>1, <1>2 DEF SumInv, Reportable, Ids
<1>3. CASE finished' = {} /\ counted' = Reported(done)
  <2>1. \A t \in Ids : trades[t].campaign \in done => t \notin open'
    BY DEF Reportable
  <2>2. \A t \in Ids : counted'[t] = IF trades[t].campaign \in done THEN counted[t] + 1
                                     ELSE counted[t]
    BY <1>3, <2>1 DEF Reported
  <2>3. \A t \in Ids : counted'[t] <= 1
    BY <2>2 DEF Reportable
  <2>4. ASSUME NEW t \in Ids, NEW u \in Ids, trades[t].campaign = trades[u].campaign,
               counted'[t] # 0
        PROVE  u \notin open'
    BY <2>2, <2>4 DEF Reportable
  <2> QED
    BY <1>1, <1>3, <2>3, <2>4 DEF SumInv, Reportable, Ids
<1> QED
  BY <1>2, <1>3 DEF GoesOn

LEMMA SumPersist ==
  ASSUME IInv, SumInv, ~Rejoins, NEW p \in Placers, placer[p].pc = "saving",
         Persist(placer[p].order, placer[p].campaign), UNCHANGED <<finished, monitor>>
  PROVE  SumInv'
<1> DEFINE o == placer[p].order
           c == placer[p].campaign
           n == Len(trades) + 1
           e == [order |-> o, campaign |-> c, late |-> o \in recorded]
<1>1. CASE UNCHANGED <<trades, open, counted>>
  BY <1>1 DEF SumInv, Reportable, Ids
<1>2. CASE /\ trades' = Append(trades, e) /\ open' = open \cup {n}
           /\ counted' = Append(counted, 0)
  <2>1. e \in Trades /\ e.campaign = c
    BY DEF Trades, IInv, HandOK, PlacersOK, PlacerStates, Entered, Executed
  <2> HIDE DEF e
  <2>2. /\ Ids = 1 .. Len(trades) /\ Ids' = 1 .. n /\ Len(trades) \in Nat
        /\ trades'[n].campaign = c /\ \A i \in Ids : trades'[i] = trades[i]
    BY <1>2, <2>1, AppendFact DEF IInv, StoreOK, Ids
  <2>3. counted'[n] = 0 /\ \A i \in Ids : counted'[i] = counted[i]
    BY <1>2, <2>2, AppendFact DEF IInv, CountedOK
  <2>4. n \notin Ids /\ Ids' = Ids \cup {n} /\ open \subseteq Ids
    BY <2>2 DEF IInv, StoreOK, Ids
  <2>5. (\E u \in Ids : trades[u].campaign = c) => \E u \in open : trades[u].campaign = c
    BY <2>2, <2>4 DEF Rejoins
  <2> HIDE DEF n
  <2>6. \A t \in Ids : trades[t].campaign = c => counted[t] = 0
    BY <2>4, <2>5 DEF SumInv, Reportable
  <2>7. c \notin finished
    BY <2>4, <2>5 DEF SumInv, Reportable
  <2>8. \A t \in Ids' : counted'[t] <= 1
    BY <2>3, <2>4 DEF SumInv, Reportable
  <2>9. ASSUME NEW t \in Ids', NEW u \in Ids', trades'[t].campaign = trades'[u].campaign,
               counted'[t] # 0 \/ trades'[t].campaign \in finished
        PROVE  u \notin open'
    <3>1. t \in Ids /\ trades[t].campaign # c
      BY <2>2, <2>3, <2>4, <2>6, <2>7, <2>9
    <3>2. u \in Ids /\ u # n
      BY <2>2, <2>4, <2>9, <3>1
    <3>3. u \notin open
      BY <2>2, <2>3, <2>9, <3>1, <3>2 DEF SumInv, Reportable
    <3> QED
      BY <1>2, <3>2, <3>3
  <2>10. \A t \in Ids' : trades'[t].campaign \in finished => counted'[t] = 0
    BY <2>2, <2>3, <2>4 DEF SumInv, Reportable
  <2>11. \A d \in finished : \E t \in Ids' : trades'[t].campaign = d
    BY <2>2, <2>4 DEF SumInv, Reportable
  <2>12. Reportable(finished, open)'
    BY <2>8, <2>9, <2>10, <2>11 DEF Reportable
  <2> QED
    BY <1>2, <2>12 DEF SumInv
<1> QED
  BY <1>1, <1>2 DEF Persist

LEMMA SumMonitor ==
  ASSUME IInv, SumInv, Monitor \/ MonitorFails
  PROVE  SumInv'
<1>0. UNCHANGED trades
  BY DEF Monitor, MonitorStart, PositionsAnswered, MonitorSees, MonitorRecords,
     MonitorCloses, MonitorFails, MonitorBlind, MonitorSkips, MonitorCloseFails, store,
     Fails
<1>1. CASE MonitorStart \/ PositionsAnswered \/ MonitorBlind
  <2>1. UNCHANGED <<open, counted, finished>> /\ monitor'.pc # "closing"
    BY <1>1 DEF MonitorStart, PositionsAnswered, MonitorBlind, store, Resting, Fails
  <2> QED
    BY <1>0, <2>1 DEF SumInv, Reportable, Ids
<1>2. CASE MonitorSees
  <2>1. UNCHANGED open
    BY <1>2 DEF PositionsAnswered, MonitorSees, store
  <2>2. Reportable({}, open')
    BY <2>1 DEF SumInv, Reportable
  <2> QED
    BY <1>0, <1>2, <2>2, SumGoesOn DEF PositionsAnswered, MonitorSees
<1>3. CASE MonitorSkips
  BY <1>0, <1>3, SumGoesOn DEF MonitorSkips, SumInv, Fails
<1>4. CASE MonitorRecords
  <2>1. UNCHANGED open
    BY <1>4 DEF MonitorRecords
  <2>2. CASE GoesOn(flat, visited, watched, finished)
    BY <1>0, <2>1, <2>2, SumGoesOn DEF SumInv
  <2>3. ASSUME NEW t \in open, monitor' = [monitor EXCEPT !.pc = "closing", !.trade = t],
               UNCHANGED <<finished, counted>>
        PROVE  SumInv'
    <3>1. monitor'.trade = t
      BY <2>3 DEF IInv, MonitorOK, MonitorStates
    <3> QED
      BY <1>0, <2>1, <2>3, <3>1 DEF SumInv, Reportable, Ids
  <2> QED
    BY <1>4, <2>2, <2>3 DEF MonitorRecords
<1>5. CASE MonitorCloses \/ MonitorCloseFails
  <2> DEFINE m == monitor.trade
             c == trades[m].campaign
  <2>1. m \in open /\ m \in Ids /\ open' = open \ {m}
    BY <1>5 DEF MonitorCloses, MonitorCloseFails, SumInv, IInv, StoreOK, Fails
  <2>2. Reportable(finished, open')
    BY <2>1 DEF SumInv, Reportable
  <2>3. ASSUME \A t \in open' : trades[t].campaign # c
        PROVE  Reportable(finished \cup {c}, open')
    <3>1. \A t \in Ids : trades[t].campaign = c => counted[t] = 0
      BY <2>1 DEF SumInv, Reportable
    <3>2. ASSUME NEW t \in Ids, NEW u \in Ids, trades[t].campaign = trades[u].campaign,
                 counted[t] # 0 \/ trades[t].campaign \in finished \cup {c}
          PROVE  u \notin open'
      BY <2>2, <2>3, <3>2 DEF Reportable
    <3> QED
      BY <2>1, <2>2, <3>1, <3>2 DEF Reportable
  <2>4. CASE MonitorCloses
    <3> DEFINE done == IF \E t \in open' : trades[t].campaign = c THEN finished
                       ELSE finished \cup {c}
    <3>1. GoesOn(flat, visited, watched, done)
      BY <2>4 DEF MonitorCloses
    <3>2. Reportable(done, open')
      BY <2>2, <2>3
    <3> HIDE DEF done
    <3> QED
      BY <1>0, <3>1, <3>2, SumGoesOn
  <2>5. CASE MonitorCloseFails
    BY <1>0, <2>2, <2>5, SumGoesOn DEF MonitorCloseFails, Fails
  <2> QED
    BY <1>5, <2>4, <2>5
<1> QED
  BY <1>1, <1>2, <1>3, <1>4, <1>5 DEF Monitor, MonitorFails

LEMMA SumStep ==
  ASSUME IInv, SumInv, [Next]_vars, [~Rejoins]_vars
  PROVE  SumInv'
<1>1. ASSUME UNCHANGED <<trades, open, counted, finished, monitor>>
      PROVE  SumInv'
  BY <1>1 DEF SumInv, Reportable, Ids
<1>2. CASE Start \/ Stop \/ Connect \/ Disconnect \/ CandleCloses \/ UNCHANGED vars
  BY <1>1, <1>2 DEF Start, Stop, Connect, Disconnect, CandleCloses, vars, store, pass
<1>3. CASE \/ \E m \in Modes : ServiceMoves(m)
           \/ \E o \in unresolved : Reconcile(o)
           \/ \E k \in Keys : WindowPasses(k) \/ \E o \in position[k] : ExchangeCloses(o)
  BY <1>1, <1>3 DEF ServiceMoves, Reconcile, WindowPasses, ExchangeCloses, store, pass,
     Fails, Writes
<1>4. CASE Sniper
  BY <1>1, <1>4 DEF Sniper, SniperAsks, SniperScans, SniperPicks, SniperEnds, store, pass
<1>5. CASE Trigger
  BY <1>1, <1>5 DEF Trigger, TriggerFires, TriggerGates, TriggerPicks, TriggerEnds, store,
     pass
<1>6. CASE Manual
  BY <1>1, <1>6 DEF Manual, ManualAnswers, ManualPicks, ManualCloses, store, pass
<1>7. ASSUME NEW p \in Placers,
             \/ Ends(p) \/ Sends(p) \/ Resends(p) \/ Replayed(p) \/ Answered(p) \/ Tracks(p)
             \/ Drops(p)
      PROVE  SumInv'
  BY <1>1, <1>7, EndsFact, SendsFact, GoesOnWithFact, DropsFact DEF Elsewhere, store, pass
<1>8. ASSUME NEW p \in Placers, Stores(p)
      PROVE  SumInv'
  <2>1. /\ placer[p].pc = "saving" /\ Persist(placer[p].order, placer[p].campaign)
        /\ UNCHANGED <<finished, monitor>>
    BY <1>8 DEF Stores, Saved, SaveFails, pass
  <2>2. CASE UNCHANGED vars
    BY <1>2, <2>2
  <2> QED
    BY <2>1, <2>2, SumPersist
<1>9. CASE Monitor \/ MonitorFails
  BY <1>9, SumMonitor
<1>10. CASE Restart
  <2>1. UNCHANGED <<trades, open, counted>> /\ finished' = {} /\ monitor'.pc = "idle"
    BY <1>10 DEF Restart, Resting
  <2> QED
    BY <2>1 DEF SumInv, Reportable, Ids
<1> QED
  BY <1>2, <1>3, <1>4, <1>5, <1>6, <1>7, <1>8, <1>9, <1>10,
     PlacingCases DEF Next

\* A trade's result goes to the circuit breaker twice only after an entry has
\* joined a campaign whose entries were all closed: neither failures, restarts,
\* manual orders nor the order in which entries close count anything twice.
THEOREM RejoiningIsTheOnlyDoubleCount == Spec /\ [][~Rejoins]_vars => []CountedOnce
<1>1. Init => SumInv
  BY DEF Init, SumInv, Reportable, Ids, Resting
<1>2. IInv /\ SumInv /\ [Next]_vars /\ [~Rejoins]_vars => IInv' /\ SumInv'
  BY SniperStep, SumStep
<1>3. SumInv => CountedOnce
  BY DEF SumInv, Reportable, CountedOnce
<1> QED
  BY <1>1, <1>2, <1>3, SniperInit, PTL DEF Spec
=============================================================================
