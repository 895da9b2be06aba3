---------------------------- MODULE LiveExchange ----------------------------
(***************************************************************************)
(* The live BingX account as the API server uses it (routes/bot.ts,        *)
(* lib/gridTriggerManager.ts, lib/livePositionWatcher.ts).  An order is    *)
(* one attempt to enter; what it will be for is unknown beforehand, so     *)
(* Init picks it.  A market order executes at once, a limit order rests    *)
(* and may fill in part; quantity on the book, open quantity and past      *)
(* exits are independent, so each is a set of orders.                      *)
(***************************************************************************)
EXTENDS Integers, FiniteSets

CONSTANTS
  Orders,
  Keys,     \* symbol:positionSide pairs of different symbols
  Events,   \* closed candles
  Sectors,  \* clusters of symbols that move together
  NoSector

Kinds == {"market", "limit", "grid"}   \* grid: one level of a trigger grid

\* The cluster comes from a table, or from what the brain says of the request;
\* a market order has no use for it.
Items == {i \in [key : Keys, kind : Kinds, event : Events, sector : Sectors \cup {NoSector}] :
            i.kind = "market" => i.sector = NoSector}

VARIABLES
  item,     \* order -> what it asks for
  taken,    \* orders the exchange accepted
  rests,    \* with quantity on the book
  holds,    \* with open quantity
  exited    \* with a filled closing order

exchangeVars == <<item, taken, rests, holds, exited>>

Key(o)    == item[o].key
Kind(o)   == item[o].kind
Sector(o) == item[o].sector
Held(k) == \E o \in holds : Key(o) = k

ExchangeTypes ==
  /\ item \in [Orders -> Items]
  /\ taken \subseteq Orders /\ rests \subseteq taken
  /\ holds \subseteq taken /\ exited \subseteq taken

ExchangeInit ==
  /\ item \in [Orders -> Items]
  /\ taken = {} /\ rests = {} /\ holds = {} /\ exited = {}

\* The exchange accepts the orders S.
Accepts(S) ==
  /\ taken' = taken \cup S
  /\ holds' = holds \cup {o \in S : Kind(o) = "market"}
  /\ rests' = rests \cup {o \in S : Kind(o) # "market"}
  /\ UNCHANGED <<item, exited>>

Fills(o, whole) ==
  /\ o \in rests
  /\ holds' = holds \cup {o}
  /\ rests' = IF whole THEN rests \ {o} ELSE rests
  /\ UNCHANGED <<item, taken, exited>>

\* Take profit, stop loss or a manual close.
Closes(o) ==
  /\ o \in holds
  /\ holds' = holds \ {o} /\ exited' = exited \cup {o}
  /\ UNCHANGED <<item, taken, rests>>

Unbooks(o) ==
  /\ rests' = rests \ {o}
  /\ UNCHANGED <<item, taken, holds, exited>>
=============================================================================
