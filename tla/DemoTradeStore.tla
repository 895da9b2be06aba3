--------------------------- MODULE DemoTradeStore ---------------------------
(***************************************************************************)
(* The demo trade ledger of the API server                                 *)
(* (artifacts/api-server/src/lib/demoTradeStore.ts): two JSONL files, the  *)
(* in-memory maps that mirror them, and the FIFO promise lock that         *)
(* serialises the asynchronous writers.                                    *)
(*                                                                         *)
(* A trade is named by its tradeId.  crypto.randomUUID() never repeats, so *)
(* the ids are 1, 2, ... in the order they are drawn; a Map and a file     *)
(* both list trades in insertion order, which is the order of the ids.     *)
(* What an entry holds is fixed when it is created (mfe and mae apart,     *)
(* which no property tells apart), so a file of open trades is the set of  *)
(* its trade ids and `info' keeps their contents.                          *)
(***************************************************************************)
EXTENDS Integers, Sequences, FiniteSets

CONSTANTS
  Orders,         \* exchange order ids
  Keys,           \* symbol:positionSide pairs
  Window,         \* CAMPAIGN_WINDOW_MS
  MaxClosedCache, \* MAX_CLOSED_CACHE
  MaxClosedLines, \* MAX_CLOSED_LINES
  TornWrites,     \* may a crash or an I/O error leave part of a write behind?
  \* bounds of the model
  MaxTrades, MaxCampaigns, MaxTime, MaxQueue, MaxPlans, MaxCrashes, MaxFailures

ASSUME StoreConstants ==
  /\ Window \in Nat /\ MaxClosedCache \in Nat \ {0} /\ MaxClosedLines \in Nat \ {0}
  /\ TornWrites \in BOOLEAN
  /\ MaxTrades \in Nat /\ MaxCampaigns \in Nat /\ MaxTime \in Nat
  /\ MaxQueue \in Nat /\ MaxPlans \in Nat /\ MaxCrashes \in Nat /\ MaxFailures \in Nat
  /\ 0 \notin Orders

None == 0                    \* null or undefined
Torn == 0                    \* a line that does not parse
Ids  == Nat \ {0}

\* What a DemoTradeEntry keeps that the properties tell apart.
Entry == [order : Orders, key : Keys, campaign : Ids, at : Nat]

\* The calls that queue up behind _writeLock.
PersistOp == [op : {"persist"}, order : Orders, key : Keys,
              campaign : Nat, at : Nat]
CloseOp   == [op : {"close"}, trade : Ids]
MfeOp     == [op : {"mfe"}]
Call      == PersistOp \cup CloseOp \cup MfeOp

VARIABLES
  \* memory of the process
  up,             \* initDemoTradeStore has run in this process
  openTrades,     \* keys of _openTrades
  openByOrder,    \* _openByOrderId: order -> trade or None
  campaigns,      \* _campaigns: key -> [id, last]
  closedIds,      \* _closedTradeIds
  closedCache,    \* keys of _closedCache
  queue,          \* calls that asked for _writeLock, the head holds it
  stage,          \* how far the holder of the lock is
  archiver,       \* how far archiveClosedIfNeeded is
  planned,        \* entries being placed: campaign chosen, not yet persisted
  \* files
  dir,            \* which of demo-open.jsonl and its .tmp exist
  openFile,       \* demo-open.jsonl
  tmpFile,        \* demo-open.jsonl.tmp
  missing,        \* trades a half-written .tmp was to hold and does not
  cut,            \* trades lost when such a .tmp became demo-open.jsonl
  closedFile,     \* demo-closed.jsonl, line by line
  tornTail,       \* its last line is incomplete
  archived,       \* the lines moved to archive/
  \* entries by trade id, next new campaign, clock, bounds
  info, nextCampaign, now, crashes, failures,
  \* history
  acked,          \* trades whose persistOpenTrade rewrote the open file
  closing,        \* trades closeOpenTrade was called for
  ackedClosed     \* trades whose closeOpenTrade ran to its end

index   == <<openTrades, openByOrder, campaigns, closedIds, closedCache>>
lock    == <<queue, stage>>
openFiles   == <<dir, openFile, tmpFile, missing, cut>>
closedFiles == <<closedFile, tornTail, archived>>
fresh   == <<info, nextCampaign>>
bounds  == <<now, crashes, failures>>
history == <<acked, closing, ackedClosed>>
vars    == <<up, index, lock, archiver, planned, openFiles, closedFiles,
             fresh, bounds, history>>

NoCampaign == [id |-> None, last |-> 0]

Trades == DOMAIN info

TypeOK ==
  /\ up \in BOOLEAN
  /\ openTrades \subseteq Trades
  /\ openByOrder \in [Orders -> Nat]
  /\ campaigns \in [Keys -> [id : Nat, last : Nat]]
  /\ closedIds \subseteq Trades
  /\ closedCache \subseteq Trades
  /\ queue \in Seq(Call)
  /\ stage \in {"ready", "write", "rename", "append"}
  /\ archiver \in {"idle", "rename", "truncate"}
  /\ planned \subseteq PersistOp
  /\ dir \subseteq {"open", "tmp"}
  /\ openFile \subseteq Trades
  /\ tmpFile \subseteq Trades
  /\ missing \subseteq Trades /\ cut \subseteq Trades
  /\ closedFile \in Seq(Nat)
  /\ tornTail \in BOOLEAN
  /\ archived \in Seq(Nat)
  /\ info \in Seq(Entry)
  /\ nextCampaign \in Ids
  /\ now \in Nat /\ crashes \in Nat /\ failures \in Nat
  /\ acked \subseteq Trades /\ closing \subseteq Trades
  /\ ackedClosed \subseteq Trades

Init ==
  /\ up = TRUE /\ openTrades = {} /\ closedIds = {} /\ closedCache = {}
  /\ openByOrder = [o \in Orders |-> None]
  /\ campaigns = [k \in Keys |-> NoCampaign]
  /\ queue = <<>> /\ stage = "ready" /\ archiver = "idle" /\ planned = {}
  /\ dir = {} /\ openFile = {} /\ tmpFile = {} /\ missing = {} /\ cut = {}
  /\ closedFile = <<>> /\ tornTail = FALSE /\ archived = <<>>
  /\ info = <<>> /\ nextCampaign = 1
  /\ now = 0 /\ crashes = 0 /\ failures = 0
  /\ acked = {} /\ closing = {} /\ ackedClosed = {}

-----------------------------------------------------------------------------
(* Campaigns. *)

\* The campaign of a key that an entry at time `at' joins: the active one, or
\* a new id.
CampaignAt(k, at) ==
  IF campaigns[k].id # None /\ at - campaigns[k].last <= Window
    THEN campaigns[k].id ELSE nextCampaign

\* Drawing the id `c' uses up a new id only if `c' is new.
Draw(c) == nextCampaign' = IF c = nextCampaign THEN c + 1 ELSE nextCampaign

\* resolveCampaignId, as the manual order route calls it: it moves the window
\* although that route persists no entry.
ResolveCampaign(k) ==
  /\ up /\ CampaignAt(k, now) <= MaxCampaigns
  /\ Draw(CampaignAt(k, now))
  /\ campaigns' = [campaigns EXCEPT ![k] = [id |-> CampaignAt(k, now), last |-> now]]
  /\ UNCHANGED <<up, openTrades, openByOrder, closedIds, closedCache, lock,
                 archiver, planned, openFiles, closedFiles, info, bounds,
                 history>>

\* A trading cycle reads getActiveCampaignId, which changes nothing, before it
\* awaits the price, the edge and the order.
PlanEntry(o, k) ==
  /\ up /\ CampaignAt(k, now) <= MaxCampaigns /\ Cardinality(planned) < MaxPlans
  /\ Draw(CampaignAt(k, now))
  /\ planned' = planned \cup
       {[op |-> "persist", order |-> o, key |-> k,
         campaign |-> CampaignAt(k, now), at |-> now]}
  /\ UNCHANGED <<up, index, lock, archiver, openFiles, closedFiles, info,
                 bounds, history>>

-----------------------------------------------------------------------------
(* Calls: what runs before the lock is asked for. *)

Enqueue(op) == /\ Len(queue) < MaxQueue
               /\ queue' = Append(queue, op)

Persisting == {i \in DOMAIN queue : queue[i].op = "persist"}

\* persistOpenTrade.  An order that is already open returns at once.
PersistCall(p) ==
  /\ up
  /\ openByOrder[p.order] = None
  /\ Len(info) + Cardinality(Persisting) < MaxTrades
  /\ Enqueue(p)
  /\ planned' = planned \ {p}
  /\ UNCHANGED <<up, index, stage, archiver, openFiles, closedFiles, fresh,
                 bounds, history>>

\* closeOpenTrade.
CloseCall(t) ==
  /\ up
  /\ t \in openTrades \ closedIds
  /\ Enqueue([op |-> "close", trade |-> t])
  /\ closing' = closing \cup {t}
  /\ UNCHANGED <<up, index, stage, archiver, planned, openFiles, closedFiles,
                 fresh, bounds, acked, ackedClosed>>

\* updateOpenTradeMfe, when the mark price moved mfe or mae.
MfeCall(t) ==
  /\ up
  /\ t \in openTrades
  /\ Enqueue([op |-> "mfe"])
  /\ UNCHANGED <<up, index, stage, archiver, planned, openFiles, closedFiles,
                 fresh, bounds, history>>

-----------------------------------------------------------------------------
(* The holder of the lock. *)

Holds(op) == queue # <<>> /\ stage = "ready" /\ Head(queue).op = op
Release   == queue' = Tail(queue) /\ stage' = "ready"

\* The order became open while this call waited: the entry is dropped, but a
\* call without a campaign has already moved the campaign window.
PersistDuplicate ==
  /\ Holds("persist")
  /\ LET p == Head(queue)
     IN  /\ openByOrder[p.order] # None
         /\ IF p.campaign # None THEN UNCHANGED <<campaigns, nextCampaign>>
            ELSE /\ Draw(CampaignAt(p.key, p.at))
                 /\ campaigns' = [campaigns EXCEPT ![p.key] =
                      [id |-> CampaignAt(p.key, p.at), last |-> p.at]]
  /\ Release
  /\ UNCHANGED <<up, openTrades, openByOrder, closedIds, closedCache, archiver,
                 planned, openFiles, closedFiles, info, bounds, history>>

\* Mutant: no second look at _openByOrderId once the lock is held.
PersistNewUnchecked ==
  /\ Holds("persist")
  /\ LET p == Head(queue)
         c == IF p.campaign # None THEN p.campaign ELSE CampaignAt(p.key, p.at)
         t == Len(info) + 1
     IN  /\ Draw(c)
         /\ info' = Append(info, [order |-> p.order, key |-> p.key,
                                  campaign |-> c, at |-> p.at])
         /\ openTrades' = openTrades \cup {t}
         /\ openByOrder' = [openByOrder EXCEPT ![p.order] = t]
         /\ campaigns' = [campaigns EXCEPT ![p.key] = [id |-> c, last |-> p.at]]
  /\ stage' = "write"
  /\ UNCHANGED <<up, closedIds, closedCache, queue, archiver, planned,
                 openFiles, closedFiles, bounds, history>>

PersistNew ==
  /\ Holds("persist")
  /\ LET p == Head(queue)
         c == IF p.campaign # None THEN p.campaign ELSE CampaignAt(p.key, p.at)
         t == Len(info) + 1
     IN  /\ openByOrder[p.order] = None
         /\ Draw(c)
         /\ info' = Append(info, [order |-> p.order, key |-> p.key,
                                  campaign |-> c, at |-> p.at])
         /\ openTrades' = openTrades \cup {t}
         /\ openByOrder' = [openByOrder EXCEPT ![p.order] = t]
         /\ campaigns' = [campaigns EXCEPT ![p.key] = [id |-> c, last |-> p.at]]
  /\ stage' = "write"
  /\ UNCHANGED <<up, closedIds, closedCache, queue, archiver, planned,
                 openFiles, closedFiles, bounds, history>>

CloseDuplicate ==
  /\ Holds("close")
  /\ Head(queue).trade \in closedIds
  /\ Release
  /\ UNCHANGED <<up, index, archiver, planned, openFiles, closedFiles, fresh,
                 bounds, history>>

\* evictClosedCache drops the quarter with the oldest exit times; those are
\* data of the callers, so any quarter may be the oldest.
Evicted(cache) ==
  IF Cardinality(cache) <= MaxClosedCache THEN {cache}
  ELSE {c \in SUBSET cache :
          Cardinality(cache) - Cardinality(c) = (Cardinality(cache) + 3) \div 4}

\* Mutants of CloseNew, in this order: no second look at
\* _closedTradeIds under the lock; the order recorded as the closed id; the
\* entry left in _openTrades; the ledger written without rewriting the open
\* file.
Closing(check, out, order, id, next) ==
  /\ Holds("close")
  /\ check => Head(queue).trade \notin closedIds
  /\ openTrades' = openTrades \ out
  /\ openByOrder' = [o \in Orders |-> IF o \in order THEN None ELSE openByOrder[o]]
  /\ closedIds' = closedIds \cup {id}
  /\ closedCache' \in Evicted(closedCache \cup {Head(queue).trade})
  /\ stage' = next
  /\ UNCHANGED <<up, campaigns, queue, archiver, planned, openFiles,
                 closedFiles, fresh, bounds, history>>
Closed == Head(queue).trade
CloseNewUnchecked   == Closing(FALSE, {Closed}, {info[Closed].order}, Closed, "write")
CloseNewByOrder     == Closing(TRUE, {Closed}, {info[Closed].order}, info[Closed].order, "write")
CloseNewKeepsEntry  == Closing(TRUE, {}, {info[Closed].order}, Closed, "write")
CloseNewNoRewrite   == Closing(TRUE, {Closed}, {info[Closed].order}, Closed, "append")

CloseNew ==
  /\ Holds("close")
  /\ LET t == Head(queue).trade
     IN  /\ t \notin closedIds
         /\ openTrades' = openTrades \ {t}
         /\ openByOrder' = [openByOrder EXCEPT ![info[t].order] = None]
         /\ closedIds' = closedIds \cup {t}
         /\ closedCache' \in Evicted(closedCache \cup {t})
  /\ stage' = "write"
  /\ UNCHANGED <<up, campaigns, queue, archiver, planned, openFiles,
                 closedFiles, fresh, bounds, history>>

RunMfe ==
  /\ Holds("mfe")
  /\ stage' = "write"
  /\ UNCHANGED <<up, index, queue, archiver, planned, openFiles, closedFiles,
                 fresh, bounds, history>>

\* Mutant: the lines were collected before the caller changed the map.
WriteTmpStale ==
  /\ stage = "write"
  /\ tmpFile' = openFile /\ missing' = {} /\ dir' = dir \cup {"tmp"}
  /\ stage' = "rename"
  /\ UNCHANGED <<up, index, queue, archiver, planned, openFile, cut, closedFiles,
                 fresh, bounds, history>>

\* rewriteOpenFile: the whole map goes to the .tmp file ...
WriteTmp ==
  /\ stage = "write"
  /\ tmpFile' = openTrades /\ missing' = {} /\ dir' = dir \cup {"tmp"}
  /\ stage' = "rename"
  /\ UNCHANGED <<up, index, queue, archiver, planned, openFile, cut, closedFiles,
                 fresh, bounds, history>>

\* ... which then replaces demo-open.jsonl.
RenameTmp ==
  /\ stage = "rename"
  /\ openFile' = tmpFile /\ tmpFile' = {} /\ dir' = {"open"}
  /\ IF Head(queue).op = "close" THEN stage' = "append" /\ UNCHANGED queue
                                 ELSE Release
  /\ acked' = IF Head(queue).op = "persist"
                THEN acked \cup {openByOrder[Head(queue).order]} ELSE acked
  /\ UNCHANGED <<up, index, archiver, planned, missing, cut, closedFiles, fresh,
                 bounds, closing, ackedClosed>>

\* appendLine(CLOSED_FILE()).  After an incomplete line the new one is glued
\* to it, and neither parses.
AppendClosed ==
  /\ stage = "append"
  /\ closedFile' = IF tornTail THEN closedFile
                   ELSE Append(closedFile, Head(queue).trade)
  /\ tornTail' = FALSE
  /\ ackedClosed' = ackedClosed \cup {Head(queue).trade}
  /\ Release
  /\ UNCHANGED <<up, index, archiver, planned, openFiles, archived, fresh,
                 bounds, acked, closing>>

-----------------------------------------------------------------------------
(* Interrupted writes. *)

\* What a write that did not complete leaves behind: nothing, or, with torn
\* writes, a prefix of the .tmp file or half a line of the ledger.
Interrupted ==
  \/ UNCHANGED <<openFiles, closedFiles>>
  \/ /\ TornWrites /\ stage = "write"
     /\ \E n \in 0 .. Len(info) : tmpFile' = {t \in openTrades : t <= n}
     /\ missing' = openTrades \ tmpFile'
     /\ dir' = dir \cup {"tmp"}
     /\ UNCHANGED <<openFile, cut, closedFiles>>
  \/ /\ TornWrites /\ stage = "append" /\ ~tornTail
     /\ closedFile' = Append(closedFile, Torn) /\ tornTail' = TRUE
     /\ UNCHANGED <<openFiles, archived>>

\* Mutant: release() is not in a `finally'.
IOFailsKeepsLock ==
  /\ stage # "ready"
  /\ failures < MaxFailures /\ failures' = failures + 1
  /\ Interrupted
  /\ stage' = "lost"
  /\ UNCHANGED <<up, index, queue, archiver, planned, fresh, now, crashes, history>>

\* writeFile, rename or appendFile throws: `finally' releases the lock, the
\* maps keep what they already hold, the caller sees a rejected promise.
IOFails ==
  /\ stage # "ready"
  /\ failures < MaxFailures /\ failures' = failures + 1
  /\ Interrupted
  /\ Release
  /\ UNCHANGED <<up, index, archiver, planned, fresh, now, crashes, history>>

Crash ==
  /\ up /\ crashes < MaxCrashes /\ crashes' = crashes + 1
  /\ Interrupted
  /\ up' = FALSE /\ openTrades' = {} /\ closedIds' = {} /\ closedCache' = {}
  /\ openByOrder' = [o \in Orders |-> None]
  /\ campaigns' = [k \in Keys |-> NoCampaign]
  /\ queue' = <<>> /\ stage' = "ready" /\ archiver' = "idle" /\ planned' = {}
  /\ UNCHANGED <<fresh, now, failures, history>>

-----------------------------------------------------------------------------
(* initDemoTradeStore. *)

\* A stranded .tmp file that is newer than demo-open.jsonl replaces it, one of
\* the same millisecond is removed; an error leaves both.
SettleTmp ==
  \/ /\ "tmp" \notin dir /\ UNCHANGED <<openFiles, failures>>
  \/ /\ "tmp" \in dir
     /\ openFile' = tmpFile /\ tmpFile' = {} /\ dir' = {"open"}
     /\ cut' = cut \cup missing /\ missing' = {}
     /\ UNCHANGED failures
  \/ /\ {"open", "tmp"} \subseteq dir
     /\ tmpFile' = {} /\ missing' = {} /\ dir' = {"open"}
     /\ UNCHANGED <<openFile, cut, failures>>
  \/ /\ "tmp" \in dir
     /\ failures < MaxFailures /\ failures' = failures + 1
     /\ UNCHANGED openFiles

\* Mutant: the index is rebuilt from the latest entry of any key.
LatestOfAll(k, S) ==
  {t \in S : \A u \in S : info[u].at < info[t].at \/ (info[u].at = info[t].at /\ t <= u)}

\* The latest open entry of a key; of equally late ones the first in the file.
Latest(k, S) ==
  {t \in S : /\ info[t].key = k
             /\ \A u \in S : info[u].key = k =>
                  info[u].at < info[t].at \/ (info[u].at = info[t].at /\ t <= u)}

ParsedIds == {t \in Trades : \E i \in DOMAIN closedFile : closedFile[i] = t}
RecentIds ==
  {t \in Trades : \E i \in DOMAIN closedFile :
     /\ closedFile[i] = t
     /\ Cardinality({j \in DOMAIN closedFile : j > i /\ closedFile[j] # Torn})
          < MaxClosedCache}

Recover ==
  /\ ~up /\ up' = TRUE
  /\ SettleTmp
  /\ openTrades' = openFile'
  /\ openByOrder' = [o \in Orders |->
       IF \E t \in openFile' : info[t].order = o
         THEN CHOOSE t \in openFile' : info[t].order = o ELSE None]
  /\ campaigns' = [k \in Keys |->
       IF Latest(k, openFile') = {} THEN NoCampaign
       ELSE LET t == CHOOSE t \in Latest(k, openFile') : TRUE
            IN  [id |-> info[t].campaign, last |-> info[t].at]]
  /\ closedIds' = ParsedIds
  /\ closedCache' = RecentIds
  /\ UNCHANGED <<lock, archiver, planned, closedFiles, fresh, now, crashes,
                 history>>

-----------------------------------------------------------------------------
(* archiveClosedIfNeeded, which does not take the lock. *)

ArchiveRead ==
  /\ up /\ archiver = "idle"
  /\ Len(closedFile) >= MaxClosedLines
  /\ archiver' = "rename"
  /\ UNCHANGED <<up, index, lock, planned, openFiles, closedFiles, fresh,
                 bounds, history>>

ArchiveRename ==
  /\ archiver = "rename"
  /\ archived' = archived \o closedFile
  /\ closedFile' = <<>> /\ tornTail' = FALSE
  /\ archiver' = "truncate"
  /\ UNCHANGED <<up, index, lock, planned, openFiles, fresh, bounds, history>>

ArchiveTruncate ==
  /\ archiver = "truncate"
  /\ closedFile' = <<>> /\ tornTail' = FALSE
  /\ archiver' = "idle"
  /\ UNCHANGED <<up, index, lock, planned, openFiles, archived, fresh, bounds,
                 history>>

ArchiveFails ==
  /\ archiver # "idle"
  /\ failures < MaxFailures /\ failures' = failures + 1
  /\ archiver' = "idle"
  /\ UNCHANGED <<up, index, lock, planned, openFiles, closedFiles, fresh, now,
                 crashes, history>>

-----------------------------------------------------------------------------
Tick ==
  /\ now < MaxTime /\ now' = now + 1
  /\ UNCHANGED <<up, index, lock, archiver, planned, openFiles, closedFiles,
                 fresh, crashes, failures, history>>

LockStep == \/ PersistDuplicate \/ PersistNew \/ CloseDuplicate \/ CloseNew
            \/ RunMfe \/ WriteTmp \/ RenameTmp \/ AppendClosed

Callers ==
  \/ \E o \in Orders, k \in Keys : PlanEntry(o, k)
  \/ \E k \in Keys : ResolveCampaign(k)
  \/ \E p \in planned : PersistCall(p) \/ PersistCall([p EXCEPT !.at = now])
  \/ \E o \in Orders, k \in Keys :
       PersistCall([op |-> "persist", order |-> o, key |-> k,
                    campaign |-> None, at |-> now])
  \/ \E t \in Trades : CloseCall(t) \/ MfeCall(t)

Next ==
  \/ Callers \/ LockStep \/ IOFails
  \/ Crash \/ Recover
  \/ ArchiveRead \/ ArchiveRename \/ ArchiveTruncate \/ ArchiveFails
  \/ Tick

\* The event loop runs the holder of the lock until its write returns, and
\* node runs initDemoTradeStore at every start.
Spec == Init /\ [][Next]_vars /\ WF_vars(LockStep) /\ WF_vars(Recover)

-----------------------------------------------------------------------------
(* Properties. *)

\* The closed ledger, its archive included, has at most one line per trade,
\* whatever calls race, fail, crash or are archived in between: a realised PnL
\* is never counted twice (closeOpenTrade's second check under the lock, and
\* the order rewrite-then-append).
Occurs(s, t) == \E i \in DOMAIN s : s[i] = t
Distinct(s)  == \A i, j \in DOMAIN s : s[i] = s[j] /\ s[i] # Torn => i = j
Ledger       == archived \o closedFile
LedgerOnce   == Distinct(Ledger)

\* A trade whose close ran to its end is open nowhere, neither in memory nor in
\* a file a restart would load, so no restart resurrects it, even after the
\* archive made initDemoTradeStore forget its id.
NeverReopens ==
  \A t \in ackedClosed : t \notin openTrades \cup openFile \cup tmpFile

\* _openByOrderId is exactly the index of _openTrades: one open trade per
\* exchange order, found by its order, after any race of persists and any
\* restart.
OneOpenTradePerOrder ==
  \A o \in Orders :
    {t \in openTrades : info[t].order = o} =
      IF openByOrder[o] = None THEN {} ELSE {openByOrder[o]}

\* A trade whose persistOpenTrade wrote the open file, and that nobody asked to
\* close, is in demo-open.jsonl at every instant: it "survives API server
\* restarts".  The one exception: a crash or an error in the middle of writeFile
\* leaves a .tmp file that is newer and shorter, and initDemoTradeStore puts it
\* in place of the complete file.
OpenTradesSurvive == acked \ closing \subseteq openFile \cup cut

\* The store implements TradeLedger: what a restart finds in demo-open.jsonl is
\* what its answers have promised, at every instant of a rewrite, a failure, a
\* crash or a recovery; it drops a trade nobody asked to close only when it
\* promotes a half-written .tmp, and then only what that .tmp lacks.
Promise == INSTANCE TradeLedger
             WITH open <- openFile, saved <- acked,
                  asked <- closing, done <- ackedClosed, half <- missing
KeepsPromise == Promise!Spec

\* With nobody holding the lock and no failed write, demo-open.jsonl holds
\* exactly the open trades of memory.
FileMirrorsMemory ==
  up /\ stage = "ready" /\ failures = 0 => openFile = openTrades

\* A campaign never spans two symbol:side keys, also when its id was chosen
\* before other entries moved the index or the process restarted.
CampaignOneKey ==
  \A t, u \in Trades : info[t].campaign = info[u].campaign => info[t].key = info[u].key

\* A close that waits for the lock runs or dies with the process: a failed
\* write never keeps the lock.
Waiting(t)      == \E i \in DOMAIN queue : queue[i] = [op |-> "close", trade |-> t]
QueuedCloseRuns == \A t \in 1 .. MaxTrades : Waiting(t) ~> ~Waiting(t)

\* demoTradeStore.ts:686: archiving is "safe to call at start of each sniper
\* cycle": a close that ran to its end is in the ledger or its archive.
CompletedCloseLedgered == \A t \in ackedClosed : Occurs(Ledger, t)

\* demoTradeStore.ts:5: "crash-safe atomic renames": when nobody writes, every
\* persisted trade is open or closed on disk.
PersistedTradeAccounted ==
  up /\ stage = "ready" => \A t \in acked : t \in openFile \/ Occurs(Ledger, t)
=============================================================================
