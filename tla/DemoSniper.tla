----------------------------- MODULE DemoSniper -----------------------------
(***************************************************************************)
(* The autonomous demo trader of the API server                            *)
(* (artifacts/api-server/src/routes/demo.ts): the sniper cycle and the     *)
(* trigger cycle, which place orders, and the monitor, which finds closed  *)
(* positions, records them and reports finished campaigns; and the manual  *)
(* order and close routes, which share exchange, journal and campaigns     *)
(* with them.  All are callbacks of one process; each runs from one await  *)
(* to the next without interruption, so an action is what happens between  *)
(* two awaits.                                                             *)
(*                                                                         *)
(* The trade store is used through what DemoTradeStore shows of it: its    *)
(* persists and closes take effect one at a time.  Scores, prices and      *)
(* sizes only decide whether an entry is skipped, which may always happen. *)
(***************************************************************************)
EXTENDS Integers, Sequences, FiniteSets

CONSTANTS
  Keys,        \* symbol:positionSide pairs
  GlobalMax,   \* DEMO_SNIPER_GLOBAL_MAX
  NoOrder,
  \* bounds of the model
  MaxSerial, MaxTrades, MaxCrashes, MaxFailures, MaxModes,
  MaxRefused

ASSUME SniperConstants ==
  /\ IsFiniteSet(Keys) /\ GlobalMax \in Nat \ {0}
  /\ {MaxSerial, MaxTrades, MaxCrashes, MaxFailures, MaxModes, MaxRefused} \subseteq Nat

\* The cycles, and the route of manual orders.
Traders == {"sniper", "trigger"}
Placers == Traders \cup {"manual"}
Modes   == {"HEALTHY", "SHADOW_ONLY", "PAUSED"}  \* DEGRADED allows what HEALTHY does
None    == 0

\* An exchange order is named by its clientOrderId: a digest of the key, the
\* candle and the stacking depth for the sniper; of the key and the instant, a
\* number nobody else draws, for the trigger; of the key and the idempotency key
\* of the request, which a client may repeat, for a manual order.
Orders == [by : Placers, key : Keys, event : Nat, depth : Nat]

VARIABLES
  running,    \* demoSniper.running, and with it the cycle and monitor intervals
  armed,      \* triggerExecutionCreds is set: the trigger loop has credentials
  mode,       \* state of the service, see ServiceState
  event,      \* the candle that closed last
  serial,     \* instants the trigger used
  \* exchange and order journal
  position,   \* key -> orders whose quantity is still open
  filled,     \* clientOrderIds the exchange has executed
  entered,    \* clientOrderIds with an entry in the journal's map
  journaled,  \* of them, those with an exchangeOrderId
  unresolved, \* of them, those in state REQUESTED or UNKNOWN
  file,       \* the map as the journal's file has it
  \* placers
  placer,     \* what each placer is doing
  room,       \* DEMO_SNIPER_GLOBAL_MAX - globalOpen, later globalHeadroom
  held,       \* keys of currentPositions
  candle,     \* marketEventId of the candidates
  todo,       \* candidates not yet looked at
  \* memory and store
  tracked,    \* keys of sniperOpenTrades
  recorded,   \* sniperRecordedIds
  trades,     \* entries of the trade store, by trade id
  open,       \* the open ones
  active,     \* key -> active campaign or None
  \* monitor
  monitor,    \* [pc, order being priced, trade being closed]
  flat,       \* keys without a position in its snapshot
  visited,    \* entries this pass has taken up
  finished,   \* campaignsToClose
  \* history and bounds
  watched,    \* tracked when the monitor asked for the positions
  oversized,  \* executed orders whose entry was made for a smaller quantity
  excused,    \* orders past their gate when the service was paused
  counted,    \* how often a trade's PnL went to the circuit breaker
  crashes, failures, changes

journal  == <<entered, journaled, unresolved, file>>
exchange == <<position, filled, journal, oversized>>
cycle    == <<room, held, candle, todo>>
store    == <<trades, open, active>>
pass     == <<monitor, flat, visited, finished, watched>>
limits   == <<crashes, failures, changes>>
vars == <<running, armed, mode, event, serial, exchange, placer, cycle, tracked,
          recorded, store, pass, excused, counted, limits>>

Idle    == [pc |-> "idle", order |-> NoOrder, campaign |-> None]
Resting == [pc |-> "idle", order |-> NoOrder, trade |-> None]

Ids == DOMAIN trades
JournalMap == [entered |-> entered, journaled |-> journaled, unresolved |-> unresolved]

TypeOK ==
  /\ running \in BOOLEAN /\ armed \in BOOLEAN /\ mode \in Modes
  /\ event \in Nat /\ serial \in Nat
  /\ position \in [Keys -> SUBSET Orders]
  /\ filled \subseteq Orders /\ journaled \subseteq filled
  /\ entered \subseteq Orders /\ journaled \cup unresolved \subseteq entered
  /\ file \in [entered : SUBSET Orders, journaled : SUBSET filled,
               unresolved : SUBSET Orders]
  /\ file.journaled \cup file.unresolved \subseteq file.entered
  /\ placer \in [Placers ->
       [pc : {"idle", "ask", "scan", "gated", "decide", "filled", "over", "noted",
              "saving"},
        order : Orders \cup {NoOrder}, campaign : Nat]]
  /\ room \in 0 .. GlobalMax /\ held \subseteq Keys /\ candle \in Nat /\ todo \subseteq Keys
  /\ tracked \subseteq filled /\ recorded \subseteq filled
  /\ trades \in Seq([order : Orders, campaign : Nat, late : BOOLEAN])
  /\ \A t \in Ids : trades[t].order \in filled
  /\ open \subseteq Ids
  /\ active \in [Keys -> Nat]
  /\ monitor \in [pc : {"idle", "ask", "answered", "pricing", "closing"},
                  order : Orders \cup {NoOrder}, trade : Nat]
  /\ flat \subseteq Keys /\ visited \subseteq filled /\ finished \subseteq Nat
  /\ watched \cup oversized \subseteq filled
  /\ excused \subseteq Orders
  /\ counted \in Seq(Nat) /\ Len(counted) = Len(trades)
  /\ crashes \in Nat /\ failures \in Nat /\ changes \in Nat

Init ==
  /\ running = FALSE /\ armed = FALSE /\ mode = "HEALTHY" /\ event = 0 /\ serial = 0
  /\ position = [k \in Keys |-> {}] /\ filled = {}
  /\ entered = {} /\ journaled = {} /\ unresolved = {} /\ file = JournalMap
  /\ placer = [p \in Placers |-> Idle]
  /\ room = 0 /\ held = {} /\ candle = 0 /\ todo = {}
  /\ tracked = {} /\ recorded = {}
  /\ trades = <<>> /\ open = {} /\ active = [k \in Keys |-> None]
  /\ monitor = Resting /\ flat = {} /\ visited = {} /\ finished = {} /\ watched = {}
  /\ excused = {} /\ counted = <<>> /\ oversized = {}
  /\ crashes = 0 /\ failures = 0 /\ changes = 0

-----------------------------------------------------------------------------
(* Operator, service, market. *)

\* A request or a write fails.
Fails == failures < MaxFailures /\ failures' = failures + 1
\* The journal's write of its map, which may throw.
Writes == \/ file' = JournalMap' /\ UNCHANGED failures
          \/ UNCHANGED file /\ Fails

\* POST /demo/connect gives the trigger loop credentials, and asks the exchange for the
\* orders whose end the journal does not know (Reconcile).
Connect ==
  /\ ~armed /\ armed' = TRUE
  /\ UNCHANGED <<running, mode, event, serial, exchange, placer, cycle, tracked,
                 recorded, store, pass, excused, counted, limits>>

\* One such order, also one whose answer is still under way: the quantity is capped by
\* that of its entry.
Reconcile(o) ==
  /\ o \in unresolved \cap filled
  /\ unresolved' = unresolved \ {o} /\ journaled' = journaled \cup {o}
  /\ UNCHANGED entered /\ Writes
  /\ UNCHANGED <<running, armed, mode, event, serial, position, filled, oversized, placer,
                 cycle, tracked, recorded, store, pass, excused, counted, crashes, changes>>

\* POST /demo/disconnect
Disconnect ==
  /\ armed /\ armed' = FALSE
  /\ changes < MaxModes /\ changes' = changes + 1
  /\ UNCHANGED <<running, mode, event, serial, exchange, placer, cycle, tracked,
                 recorded, store, pass, excused, counted, crashes, failures>>

\* POST /demo/sniper/start
Start ==
  /\ ~running /\ running' = TRUE /\ armed' = TRUE
  /\ UNCHANGED <<mode, event, serial, exchange, placer, cycle, tracked, recorded,
                 store, pass, excused, counted, limits>>

\* POST /demo/sniper/stop clears the two intervals.  A cycle or a monitor pass
\* in flight goes on, and so does the trigger loop.
Stop ==
  /\ running /\ running' = FALSE
  /\ changes < MaxModes /\ changes' = changes + 1
  /\ UNCHANGED <<armed, mode, event, serial, exchange, placer, cycle, tracked,
                 recorded, store, pass, excused, counted, crashes, failures>>

\* Any caller of the service state machine.
ServiceMoves(m) ==
  /\ m # mode /\ mode' = m
  /\ changes < MaxModes /\ changes' = changes + 1
  /\ excused' = IF m = "PAUSED"
                  THEN {placer[p].order :
                          p \in {q \in Placers : placer[q].pc \in {"gated", "decide"}}}
                  ELSE {}
  /\ UNCHANGED <<running, armed, event, serial, exchange, placer, cycle, tracked,
                 recorded, store, pass, counted, crashes, failures>>

CandleCloses ==
  /\ event' = event + 1
  /\ changes < MaxModes /\ changes' = changes + 1
  /\ UNCHANGED <<running, armed, mode, serial, exchange, placer, cycle, tracked,
                 recorded, store, pass, excused, counted, crashes, failures>>

\* A take profit or a stop loss of one order fills.
ExchangeCloses(o) ==
  /\ o \in position[o.key]
  /\ position' = [position EXCEPT ![o.key] = @ \ {o}]
  /\ UNCHANGED <<running, armed, mode, event, serial, filled, journal, oversized,
                 placer, cycle, tracked, recorded, store, pass, excused, counted, limits>>

\* CAMPAIGN_WINDOW_MS after the last entry of the key.
WindowPasses(k) ==
  /\ active[k] # None /\ active' = [active EXCEPT ![k] = None]
  /\ changes < MaxModes /\ changes' = changes + 1
  /\ UNCHANGED <<running, armed, mode, event, serial, exchange, placer, cycle,
                 tracked, recorded, trades, open, pass, excused,
                 counted, crashes, failures>>

-----------------------------------------------------------------------------
(* Placing: what the two cycles and the manual route share. *)

Moves(p, pc) == placer' = [placer EXCEPT ![p].pc = pc]
\* After an entry or a skip a cycle goes on with its next candidate; the manual
\* route answers its request.
Returns(p) == placer' = [placer EXCEPT ![p] =
                [Idle EXCEPT !.pc = IF p \in Traders THEN "scan" ELSE "idle"]]

\* The campaign an entry of the key joins: the active one, or a new id.  Ids are
\* random: one nothing refers to any more is as good as new.
Unused == {c \in 1 .. MaxTrades + Cardinality(Keys) + 2 :
             /\ \A t \in Ids : trades[t].campaign # c
             /\ \A k \in Keys : active[k] # c
             /\ \A p \in Placers : placer[p].campaign # c}
Campaign(k) == IF active[k] # None THEN {active[k]}
               ELSE {c \in Unused : \A d \in Unused : c <= d}
\* openCampaignEntries
Entries(k) == {t \in open : active[k] # None /\ trades[t].campaign = active[k]
                                             /\ trades[t].order.key = k}

\* Bound: entries stored or under way, and manual orders, which count for two.  A
\* cycle that could enter nothing more is not started.
InFlight(p)  == placer[p].pc \in {"gated", "decide", "filled", "over", "noted", "saving"}
ManualOrders == {o \in filled : o.by = "manual"} \cup
                {placer[p].order : p \in {q \in {"manual"} : InFlight(q)}}
HasRoom(n)   == Len(trades) + Cardinality({p \in Traders : InFlight(p)})
                  + 2 * Cardinality(ManualOrders) + n <= MaxTrades

\* The entry o is decided: campaign, depth and clientOrderId are fixed here, from
\* a snapshot of the store, before the quant brain and the price are awaited.
Decide(p, o) ==
  \E c \in Campaign(o.key) : placer' = [placer EXCEPT ![p] =
    [pc |-> "decide", campaign |-> c, order |-> o]]

\* A gate rejects, or the price is missing.
GiveUp(p) ==
  /\ placer[p].pc \in {"gated", "decide"}
  /\ Returns(p)
  /\ UNCHANGED <<running, armed, mode, event, serial, exchange, cycle, tracked,
                 recorded, store, pass, excused, counted, limits>>

\* recordOrderRequested, in placeVstOrderIdempotently: an entry that the journal
\* has already is left as it is, with the quantity of the attempt that made it.
Requests(o) ==
  /\ entered' = entered \cup {o}
  /\ unresolved' = IF o \in entered THEN unresolved ELSE unresolved \cup {o}
Logged(o) == IF o \in entered THEN file
             ELSE [entered |-> entered \cup {o}, journaled |-> journaled,
                   unresolved |-> unresolved \cup {o}]

\* Its write throws, and nothing is sent.
RequestFails(p) ==
  LET o == placer[p].order
  IN  /\ placer[p].pc = "decide" /\ o \notin entered /\ Requests(o)
      /\ Fails /\ Returns(p)
      /\ UNCHANGED <<running, armed, mode, event, serial, position, filled, journaled,
                     file, oversized, cycle, tracked, recorded, store, pass, excused,
                     counted, crashes, changes>>

\* The exchange refuses the order, as it does a clientOrderId it has executed, and
\* the entry becomes REJECTED: first the write of the journal may throw.
Declined(p) ==
  LET o == placer[p].order
  IN  /\ placer[p].pc = "decide"
      /\ o \in entered \/ Cardinality(entered \ filled) < MaxRefused
      /\ entered' = entered \cup {o} /\ unresolved' = unresolved \ {o}
      /\ UNCHANGED journaled
      /\ \/ file' = JournalMap' /\ UNCHANGED failures
         \/ file' = Logged(o) /\ Fails
      /\ Returns(p)
      /\ UNCHANGED <<running, armed, mode, event, serial, position, filled, oversized,
                     cycle, tracked, recorded, store, pass, excused, counted, crashes,
                     changes>>

\* The exchange never hears of the order and the query finds nothing: UNKNOWN.
Unheard(p) ==
  LET o == placer[p].order
  IN  /\ placer[p].pc = "decide" /\ Fails
      /\ entered' = entered \cup {o} /\ unresolved' = unresolved \cup {o}
      /\ UNCHANGED journaled /\ file' \in {Logged(o), JournalMap'}
      /\ Returns(p)
      /\ UNCHANGED <<running, armed, mode, event, serial, position, filled, oversized,
                     cycle, tracked, recorded, store, pass, excused, counted, crashes,
                     changes>>

\* The order is sent, the exchange executes it and the answer is under way.  The
\* quantity may exceed that of an entry an earlier attempt left.
Send(p, over) ==
  LET o == placer[p].order
  IN  /\ placer[p].pc = "decide" /\ o \notin filled /\ (over => o \in entered)
      /\ Requests(o) /\ file' = Logged(o)
      /\ filled' = filled \cup {o}
      /\ position' = [position EXCEPT ![o.key] = @ \cup {o}]
      /\ Moves(p, IF over THEN "over" ELSE "filled")
      /\ UNCHANGED <<running, armed, mode, event, serial, journaled, oversized, cycle,
                     tracked, recorded, store, pass, excused, counted, limits>>

\* The request fails: the query that follows will find the order of before.
Resent(p, over) ==
  LET o == placer[p].order
  IN  /\ placer[p].pc = "decide" /\ o \in filled /\ (over => o \in entered)
      /\ Fails
      /\ Requests(o) /\ file' = Logged(o)
      /\ Moves(p, IF over THEN "over" ELSE "filled")
      /\ UNCHANGED <<running, armed, mode, event, serial, position, filled, journaled,
                     oversized, cycle, tracked, recorded, store, pass, excused, counted,
                     crashes, changes>>

\* A clientOrderId that has an exchangeOrderId is not sent again: the existing
\* order, open or long closed, is treated as the one just placed.
Replayed(p) ==
  /\ p \in Traders /\ placer[p].pc = "decide" /\ placer[p].order \in journaled
  /\ tracked' = tracked \cup {placer[p].order}
  /\ Moves(p, "saving")
  /\ UNCHANGED <<running, armed, mode, event, serial, exchange, cycle, recorded,
                 store, pass, excused, counted, limits>>

\* The answer, or the query after an error, names the order: updateOrderState
\* sets it in the journal's map and starts to write the file.
Answered(p) ==
  LET o == placer[p].order
  IN  /\ placer[p].pc = "filled"
      /\ journaled' = journaled \cup {o} /\ unresolved' = unresolved \ {o}
      /\ Moves(p, "noted")
      /\ UNCHANGED <<running, armed, mode, event, serial, position, filled, entered, file,
                     oversized, cycle, tracked, recorded, store, pass, excused, counted,
                     limits>>

\* It fills more than the entry asked for: updateOrderState throws, the journal
\* stays as it is and the entry counts as skipped.
QuantityThrows(p) ==
  /\ placer[p].pc = "over"
  /\ oversized' = oversized \cup {placer[p].order}
  /\ Returns(p)
  /\ UNCHANGED <<running, armed, mode, event, serial, position, filled, journal, cycle,
                 tracked, recorded, store, pass, excused, counted, limits>>

\* No answer and the query finds nothing: the journal says UNKNOWN.
Lost(p) ==
  LET o == placer[p].order
  IN  /\ placer[p].pc \in {"filled", "over"} /\ Fails
      /\ UNCHANGED <<entered, journaled>>
      /\ unresolved' = unresolved \cup {o} /\ file' \in {file, JournalMap'}
      /\ Returns(p)
      /\ UNCHANGED <<running, armed, mode, event, serial, position, filled, oversized,
                     cycle, tracked, recorded, store, pass, excused, counted, crashes,
                     changes>>

\* Mutant: sniperOpenTrades is set once the store has written the entry.
TracksLate(p) ==
  /\ p \in Traders /\ placer[p].pc = "noted"
  /\ file' = JournalMap
  /\ Moves(p, "saving")
  /\ UNCHANGED <<running, armed, mode, event, serial, position, filled, entered, journaled,
                 unresolved, oversized, cycle, tracked, recorded, store, pass, excused,
                 counted, limits>>

\* The journal is written: the order goes to sniperOpenTrades.
Tracks(p) ==
  /\ p \in Traders /\ placer[p].pc = "noted"
  /\ tracked' = tracked \cup {placer[p].order}
  /\ file' = JournalMap
  /\ Moves(p, "saving")
  /\ UNCHANGED <<running, armed, mode, event, serial, position, filled, entered, journaled,
                 unresolved, oversized, cycle, recorded, store, pass, excused, counted,
                 limits>>

\* The write of the journal throws: the entry counts as skipped, and the file
\* stays behind the map.
JournalFails(p) ==
  /\ placer[p].pc = "noted" /\ Fails
  /\ Returns(p)
  /\ UNCHANGED <<running, armed, mode, event, serial, exchange, cycle, tracked,
                 recorded, store, pass, excused, counted, crashes, changes>>

\* persistOpenTrade: an order that is open already is left alone.  `late' is
\* history: the order was in sniperRecordedIds when it was stored.
Persist(o, c) ==
  IF \E t \in open : trades[t].order = o
    THEN UNCHANGED <<trades, open, active, counted>>
    ELSE /\ trades' = Append(trades, [order |-> o, campaign |-> c, late |-> o \in recorded])
         /\ open' = open \cup {Len(trades) + 1}
         /\ active' = [active EXCEPT ![o.key] = c]
         /\ counted' = Append(counted, 0)

\* Mutant: globalHeadroom is not decremented.
SavedKeepsRoom(p) ==
  /\ p \in Traders /\ placer[p].pc = "saving"
  /\ Persist(placer[p].order, placer[p].campaign)
  /\ Returns(p)
  /\ UNCHANGED <<running, armed, mode, event, serial, exchange, cycle, tracked,
                 recorded, pass, excused, limits>>

Saved(p) ==
  /\ p \in Traders /\ placer[p].pc = "saving"
  /\ Persist(placer[p].order, placer[p].campaign)
  /\ room' = IF p = "sniper" THEN room - 1 ELSE room
  /\ Returns(p)
  /\ UNCHANGED <<running, armed, mode, event, serial, exchange, held, candle, todo,
                 tracked, recorded, pass, excused, limits>>

\* The write of the store throws after its maps changed: the cycle counts the
\* entry as skipped and keeps its headroom.
SaveFails(p) ==
  /\ p \in Traders /\ placer[p].pc = "saving"
  /\ Fails
  /\ Persist(placer[p].order, placer[p].campaign)
  /\ Returns(p)
  /\ UNCHANGED <<running, armed, mode, event, serial, exchange, cycle, tracked,
                 recorded, pass, excused, crashes, changes>>

-----------------------------------------------------------------------------
(* runDemoSniperCycle, at most one in flight. *)

\* globalOpen: positions of the exchange, none if it did not answer, or the
\* entries of the store, whichever are more.
GlobalOpen(seen) == IF Cardinality(seen) > Cardinality(open) THEN Cardinality(seen)
                    ELSE Cardinality(open)

\* The gate; the positions are asked for.
SniperAsks ==
  /\ running /\ placer["sniper"].pc = "idle" /\ HasRoom(1)
  /\ mode # "PAUSED"
  /\ Moves("sniper", "ask")
  /\ UNCHANGED <<running, armed, mode, event, serial, exchange, cycle, tracked,
                 recorded, store, pass, excused, counted, limits>>

\* Mutant: the cycle goes on at the cap.
SniperScansUncapped(seen, h) ==
  /\ placer["sniper"].pc = "ask"
  /\ seen \in {{}, {k \in Keys : position[k] # {}}}
  /\ room' = GlobalMax - GlobalOpen(seen) /\ h = 1
  /\ held' = seen /\ candle' = event /\ todo' = Keys
  /\ Moves("sniper", "scan")
  /\ UNCHANGED <<running, armed, mode, event, serial, exchange, tracked, recorded,
                 store, pass, excused, counted, limits>>

\* The answer, and the cycle up to its loop over the candidates: the headroom
\* that the aggression level leaves, and the candle edges, which are awaited but
\* do not depend on anything the cycle read.
SniperScans(seen, h) ==
  /\ placer["sniper"].pc = "ask"
  /\ seen \in {{}, {k \in Keys : position[k] # {}}}
  /\ h <= GlobalMax - GlobalOpen(seen) /\ room' = h
  /\ held' = seen /\ candle' = event /\ todo' = Keys
  /\ Moves("sniper", "scan")
  /\ UNCHANGED <<running, armed, mode, event, serial, exchange, tracked, recorded,
                 store, pass, excused, counted, limits>>

\* Mutant: PAUSED is only looked at when the cycle starts.
EntryAllowedPaused(k) == mode # "SHADOW_ONLY" \/ (Entries(k) = {} /\ k \notin held)

\* isEntryAllowed(campaignAlreadyHasEntry)
EntryAllowed(k) ==
  \/ mode = "HEALTHY"
  \/ mode = "SHADOW_ONLY" /\ Entries(k) = {} /\ k \notin held

\* DUPLICATE_EVENT_REJECT: the last entry of the campaign is of this candle.
SameEvent(k) ==
  \E t \in Entries(k) : /\ \A u \in Entries(k) : u <= t
                        /\ trades[t].order.by = "sniper"
                        /\ trades[t].order.event = candle

SniperPicks(k) ==
  /\ placer["sniper"].pc = "scan" /\ room > 0 /\ k \in todo
  /\ todo' = todo \ {k}
  /\ EntryAllowed(k) /\ ~SameEvent(k) /\ HasRoom(1)
  /\ Decide("sniper", [by |-> "sniper", key |-> k, event |-> candle,
                       depth |-> Cardinality(Entries(k)) + 1])
  /\ UNCHANGED <<running, armed, mode, event, serial, exchange, room, held, candle,
                 tracked, recorded, trades, open, active, pass, excused, counted,
                 limits>>

\* No headroom, no candidates, or an early return.
SniperEnds ==
  /\ placer["sniper"].pc \in {"ask", "scan"}
  /\ placer' = [placer EXCEPT !["sniper"] = Idle]
  /\ room' = 0 /\ held' = {} /\ todo' = {} /\ candle' = 0
  /\ UNCHANGED <<running, armed, mode, event, serial, exchange, tracked, recorded,
                 store, pass, excused, counted, limits>>

-----------------------------------------------------------------------------
(* runTriggerCycle, one in flight, and executeTriggerSignal for each signal. *)

\* The cycle takes the sniper's credentials or its own, and finds signals.
TriggerFires ==
  /\ running \/ armed
  /\ placer["trigger"].pc = "idle" /\ serial < MaxSerial /\ HasRoom(1)
  /\ Moves("trigger", "scan")
  /\ UNCHANGED <<running, armed, mode, event, serial, exchange, cycle, tracked,
                 recorded, store, pass, excused, counted, limits>>

\* The gates of a signal; the candle edge is awaited.
TriggerGates(k) ==
  /\ placer["trigger"].pc = "scan"
  /\ mode # "PAUSED"
  /\ Cardinality(open) < GlobalMax
  /\ HasRoom(1) /\ serial < MaxSerial /\ serial' = serial + 1
  /\ placer' = [placer EXCEPT !["trigger"] =
       [pc |-> "gated", campaign |-> None,
        order |-> [by |-> "trigger", key |-> k, event |-> serial + 1, depth |-> 0]]]
  /\ UNCHANGED <<running, armed, mode, event, exchange, cycle, tracked, recorded,
                 store, pass, excused, counted, limits>>

\* Its campaign, as the store has it by then.
TriggerPicks ==
  /\ placer["trigger"].pc = "gated"
  /\ Decide("trigger", placer["trigger"].order)
  /\ UNCHANGED <<running, armed, mode, event, serial, exchange, cycle, tracked, recorded,
                 store, pass, excused, counted, limits>>

TriggerEnds ==
  /\ placer["trigger"].pc = "scan" /\ Moves("trigger", "idle")
  /\ UNCHANGED <<running, armed, mode, event, serial, exchange, cycle, tracked,
                 recorded, store, pass, excused, counted, limits>>

-----------------------------------------------------------------------------
(* The manual routes.  They keep their entries in the client's session: the   *)
(* store and the monitor never hear of them.                                  *)

\* POST /demo/order past its gates, which ask for neither the service state nor
\* the store: resolveCampaignId moves the window of the key or opens a campaign,
\* and the order is placed.
ManualPicks(k, n) ==
  LET o == [by |-> "manual", key |-> k, event |-> n, depth |-> 0]
  IN  /\ placer["manual"].pc = "idle"
      /\ \/ o \in filled /\ UNCHANGED changes
         \/ HasRoom(2) /\ changes < MaxModes /\ changes' = changes + 1
      /\ \E c \in Campaign(k) :
           /\ active' = [active EXCEPT ![k] = c]
           /\ placer' = [placer EXCEPT !["manual"] =
                [pc |-> "decide", campaign |-> c, order |-> o]]
      /\ UNCHANGED <<running, armed, mode, event, serial, exchange, cycle, tracked,
                     recorded, trades, open, pass, excused, counted, crashes, failures>>

\* The request is answered: the order is journaled, now or since an earlier one.
ManualAnswers ==
  /\ \/ placer["manual"].pc = "noted" /\ file' = JournalMap
     \/ /\ placer["manual"].pc = "decide" /\ placer["manual"].order \in journaled
        /\ UNCHANGED file
  /\ Returns("manual")
  /\ UNCHANGED <<running, armed, mode, event, serial, position, filled, entered, journaled,
                 unresolved, oversized, cycle, tracked, recorded, store, pass, excused,
                 counted, limits>>

\* POST /demo/close sells a quantity of the key, whichever orders it is of.
ManualCloses(k) ==
  /\ \E os \in SUBSET position[k] \ {{}} :
       position' = [position EXCEPT ![k] = @ \ os]
  /\ changes < MaxModes /\ changes' = changes + 1
  /\ UNCHANGED <<running, armed, mode, event, serial, filled, journal, oversized,
                 placer, cycle, tracked, recorded, store, pass, excused, counted,
                 crashes, failures>>

-----------------------------------------------------------------------------
(* runDemoSniperMonitor, at most one in flight. *)

\* The closed trades of each campaign in done are summed for the quant brain and
\* for the circuit breaker.
Reported(done) ==
  [t \in Ids |-> IF trades[t].campaign \in done /\ t \notin open' THEN counted[t] + 1
                 ELSE counted[t]]

\* What the pass does when it resumes, up to its next await.  The iterator of
\* sniperOpenTrades is live: it also reaches entries that were added after the
\* snapshot f.  It stops at an entry whose key has no position, to price it; when
\* none is left it reports the finished campaigns.
GoesOn(f, v, w, done) ==
  LET left == {o \in tracked' \ v : o.key \in f}
  IN  \/ \E o \in left :
           /\ monitor' = [Resting EXCEPT !.pc = "pricing", !.order = o]
           /\ flat' = f /\ visited' = v \cup {o} /\ watched' = w /\ finished' = done
           /\ UNCHANGED counted
      \/ /\ left = {}
         /\ monitor' = Resting
         /\ flat' = {} /\ visited' = {} /\ watched' = {} /\ finished' = {}
         /\ counted' = Reported(done)

\* The store's open entries are added to sniperOpenTrades first, then positions
\* are asked for.
MonitorStart ==
  /\ running /\ monitor.pc = "idle"
  /\ tracked' = tracked \cup {trades[t].order : t \in open}
  /\ tracked' # {} /\ watched' = tracked'
  /\ monitor' = [Resting EXCEPT !.pc = "ask"]
  /\ UNCHANGED <<running, armed, mode, event, serial, exchange, placer, cycle,
                 recorded, store, flat, visited, finished, excused, counted, limits>>

\* Mutant: an unsuccessful answer is taken for "no positions".
PositionsAnsweredBlindly ==
  /\ monitor.pc = "ask"
  /\ monitor' = [Resting EXCEPT !.pc = "answered"]
  /\ flat' \in {{k \in Keys : position[k] = {}}, Keys}
  /\ UNCHANGED <<running, armed, mode, event, serial, exchange, placer, cycle, tracked,
                 recorded, store, visited, finished, watched, excused, counted, limits>>

\* The exchange looks its positions up, some time before the monitor resumes.
PositionsAnswered ==
  /\ monitor.pc = "ask"
  /\ monitor' = [Resting EXCEPT !.pc = "answered"]
  /\ flat' = {k \in Keys : position[k] = {}}
  /\ UNCHANGED <<running, armed, mode, event, serial, exchange, placer, cycle, tracked,
                 recorded, store, visited, finished, watched, excused, counted, limits>>

\* The answer arrives.  Entries recorded before are dropped from sniperOpenTrades
\* as the iterator passes them; here they all go when the pass resumes.
MonitorSees ==
  /\ monitor.pc = "answered"
  /\ tracked' = tracked \ recorded
  /\ GoesOn(flat, {}, watched, {})
  /\ UNCHANGED <<running, armed, mode, event, serial, exchange, placer, cycle,
                 recorded, store, excused, limits>>

\* Mutant: demoMonitorInFlight is not reset in a `finally'.
MonitorBlindStuck ==
  /\ monitor.pc \in {"ask", "answered"} /\ Fails
  /\ monitor' = [Resting EXCEPT !.pc = "stuck"]
  /\ UNCHANGED <<running, armed, mode, event, serial, exchange, placer, cycle,
                 tracked, recorded, store, flat, visited, finished, watched,
                 excused, counted, crashes, changes>>

\* The exchange does not answer, or its answer is lost.
MonitorBlind ==
  /\ monitor.pc \in {"ask", "answered"} /\ Fails
  /\ monitor' = Resting /\ flat' = {} /\ watched' = {}
  /\ UNCHANGED <<running, armed, mode, event, serial, exchange, placer, cycle,
                 tracked, recorded, store, visited, finished, excused, counted,
                 crashes, changes>>

\* Mutant: an entry without a price is dropped.
MonitorSkipsForGood ==
  /\ monitor.pc = "pricing"
  /\ Fails
  /\ tracked' = tracked \ (recorded \cup {monitor.order}) /\ UNCHANGED open
  /\ GoesOn(flat, visited, watched, finished)
  /\ UNCHANGED <<running, armed, mode, event, serial, exchange, placer, cycle,
                 recorded, trades, active, excused, crashes, changes>>

\* No price: the entry waits for the next pass.
MonitorSkips ==
  /\ monitor.pc = "pricing"
  /\ Fails
  /\ tracked' = tracked \ recorded /\ UNCHANGED open
  /\ GoesOn(flat, visited, watched, finished)
  /\ UNCHANGED <<running, armed, mode, event, serial, exchange, placer, cycle,
                 recorded, trades, active, excused, crashes, changes>>

\* The outcome is recorded, then the entry of the store, if there is one, is
\* closed.
MonitorRecords ==
  LET o  == monitor.order
      ts == {t \in open : trades[t].order = o}
  IN  /\ monitor.pc = "pricing"
      /\ recorded' = recorded \cup {o}
      /\ tracked' = tracked \ recorded'
      /\ UNCHANGED open
      /\ \/ ts = {} /\ GoesOn(flat, visited, watched, finished)
         \/ \E t \in ts :
              /\ monitor' = [monitor EXCEPT !.pc = "closing", !.trade = t]
              /\ UNCHANGED <<flat, visited, finished, watched, counted>>
      /\ UNCHANGED <<running, armed, mode, event, serial, exchange, placer, cycle,
                     trades, active, excused, limits>>

\* closeOpenTrade has run; getCampaignOpenCount is read right after.
MonitorCloses ==
  LET c == trades[monitor.trade].campaign
  IN  /\ monitor.pc = "closing"
      /\ open' = open \ {monitor.trade}
      /\ tracked' = tracked \ recorded
      /\ GoesOn(flat, visited, watched,
                IF \E t \in open' : trades[t].campaign = c THEN finished
                ELSE finished \cup {c})
      /\ UNCHANGED <<running, armed, mode, event, serial, exchange, placer, cycle,
                     recorded, trades, active, excused, limits>>

\* Its write throws after the maps changed, and `.catch(() => null)' hides it.
MonitorCloseFails ==
  /\ monitor.pc = "closing"
  /\ Fails
  /\ open' = open \ {monitor.trade}
  /\ tracked' = tracked \ recorded
  /\ GoesOn(flat, visited, watched, finished)
  /\ UNCHANGED <<running, armed, mode, event, serial, exchange, placer, cycle,
                 recorded, trades, active, excused, crashes, changes>>

-----------------------------------------------------------------------------
\* A crash and the restart: the store and the journal's file, which may hold what
\* was being written, are read back, the campaign of a key is that of an open entry,
\* and nothing runs before the operator starts the sniper or connects.
Restart ==
  /\ crashes < MaxCrashes /\ crashes' = crashes + 1
  /\ running' = FALSE /\ armed' = FALSE /\ mode' = "HEALTHY"
  /\ placer' = [p \in Placers |-> Idle]
  /\ room' = 0 /\ held' = {} /\ candle' = 0 /\ todo' = {}
  /\ tracked' = {trades[t].order : t \in open} /\ recorded' = {}
  /\ \E f \in [Keys -> {None} \cup {trades[t].campaign : t \in open}] :
       /\ \A k \in Keys :
            LET ts == {t \in open : trades[t].order.key = k}
            IN  IF ts = {} THEN f[k] = None ELSE \E t \in ts : f[k] = trades[t].campaign
       /\ active' = f
  /\ monitor' = Resting /\ flat' = {} /\ visited' = {} /\ finished' = {}
  /\ watched' = {}
  /\ \/ UNCHANGED file
     \/ (\E p \in Placers : placer[p].pc = "noted") /\ file' = JournalMap
  /\ entered' = file'.entered /\ journaled' = file'.journaled
  /\ unresolved' = file'.unresolved
  /\ excused' = {}
  /\ UNCHANGED <<event, serial, position, filled, oversized, trades, open, counted,
                 failures, changes>>

Sniper  == \/ SniperAsks
           \/ \E seen \in SUBSET Keys, h \in 1 .. GlobalMax : SniperScans(seen, h)
           \/ \E k \in Keys : SniperPicks(k)
           \/ SniperEnds
Trigger == TriggerFires \/ TriggerEnds \/ TriggerPicks \/ \E k \in Keys : TriggerGates(k)
Placing(p) == \/ GiveUp(p) \/ RequestFails(p) \/ Declined(p) \/ Unheard(p) \/ Replayed(p)
              \/ \E over \in BOOLEAN : Send(p, over) \/ Resent(p, over)
              \/ Answered(p) \/ QuantityThrows(p) \/ Lost(p)
              \/ Tracks(p) \/ JournalFails(p) \/ Saved(p) \/ SaveFails(p)
Manual == ManualAnswers \/ \E k \in Keys :
            ManualCloses(k) \/ \E n \in 1 .. MaxModes : ManualPicks(k, n)
Monitor == \/ MonitorStart \/ PositionsAnswered \/ MonitorSees \/ MonitorRecords
           \/ MonitorCloses
MonitorFails == MonitorBlind \/ MonitorSkips \/ MonitorCloseFails

Next ==
  \/ Start \/ Stop \/ Connect \/ Disconnect \/ CandleCloses \/ Restart
  \/ \E o \in unresolved : Reconcile(o)
  \/ \E m \in Modes : ServiceMoves(m)
  \/ \E k \in Keys : WindowPasses(k) \/ \E o \in position[k] : ExchangeCloses(o)
  \/ Sniper \/ Trigger \/ Manual \/ \E p \in Placers : Placing(p)
  \/ Monitor \/ MonitorFails

\* setInterval starts a monitor pass again and again, and its requests return.
Spec == Init /\ [][Next]_vars /\ WF_vars(Monitor)
-----------------------------------------------------------------------------
(* Properties. *)

\* The cap on open entries is read once per cycle by the sniper and once per
\* signal by the trigger, before several awaits: together they overrun it by
\* at most its own size, plus one entry for every write of the store that
\* failed after its maps had changed.
CapHolds == Cardinality(open) <= 2 * GlobalMax + failures

\* README, state machine: PAUSED blocks new entries.  While the service is
\* PAUSED the exchange receives only orders that were past their last gate when
\* it was paused, however long their requests to the quant brain took.  (The
\* manual route does not ask for the state.)
PauseStopsEntries ==
  [][\A o \in filled' \ filled :
       mode = "PAUSED" /\ o.by \in Traders => o \in excused]_vars

\* Open positions of the cycles that neither a cycle nor the monitor will look at.
Forgotten ==
  {o \in UNION {position[k] : k \in Keys} :
     /\ o.by \in Traders /\ o \notin tracked \cup recorded
     /\ \A p \in Placers :
          placer[p].pc \in {"filled", "over", "noted"} => placer[p].order # o}

\* Until a crash, an entry is forgotten only by a failed request or write, and
\* each failure forgets at most one, or because the journal's entry of an earlier
\* attempt is too small for it: no interleaving of the two cycles and the monitor
\* drops an entry.
LiveEntriesTracked == crashes = 0 => Cardinality(Forgotten \ oversized) <= failures

\* An entry the monitor knew when it asked for the positions is recorded as
\* closed only if its quantity is closed.
WatchedClosedOnlyWhenFlat ==
  [][\A o \in recorded' \ recorded : o \in watched => o \notin position[o.key]]_vars

\* The store and the monitor's memory are kept apart, by three tasks and across
\* restarts, yet no open entry of the store falls between them: its order is in
\* sniperOpenTrades, or the monitor is closing it right now, or it was stored late,
\* after the monitor had recorded its order.
Closing(t) == monitor.pc = "closing" /\ monitor.trade = t
OpenTradesWatched ==
  \A t \in open : \/ trades[t].order \in tracked
                  \/ Closing(t)
                  \/ trades[t].late /\ trades[t].order \in recorded

\* An entry of the store whose position is gone is closed by the monitor, as
\* long as the sniper runs and nothing new opens on its key.  The one entry no
\* pass will close is an order that was stored after it had been recorded: the
\* monitor overtook its persistOpenTrade, or its clientOrderId was replayed
\* after its position had closed.
Gone(t)  == t \in open /\ position[trades[t].order.key] = {}
                      /\ ~(trades[t].late /\ trades[t].order \in recorded)
Excused(t) == ~running \/ (t \in Ids /\ position[trades[t].order.key] # {})
FlatTradesClose ==
  \A t \in 1 .. MaxTrades : (running /\ Gone(t)) ~> (t \notin open \/ Excused(t))

\* demo.ts:2858: all entries of a campaign become "ONE ML sample"; demo.ts:2916:
\* "Single QB sync per campaign"; demo.ts:2919: "Circuit breaker at campaign
\* level": no trade's result is summed into two reports.
CountedOnce == \A t \in Ids : counted[t] <= 1
=============================================================================
