----------------------------- MODULE LiveWatcher ----------------------------
(***************************************************************************)
(* The watcher of live positions                                           *)
(* (artifacts/api-server/src/lib/livePositionWatcher.ts): it keeps the     *)
(* orders that were acknowledged, in memory and in a journal file, polls   *)
(* the positions, and records an entry once its key is flat and an exit is *)
(* listed.  A poll has two kinds of await: the positions, then the order   *)
(* history of one flat key after the other.                                *)
(*                                                                         *)
(* Which exits the history shows depends on times and on its own delays,   *)
(* and which entries are the oldest on times: any entries of the key are   *)
(* recorded, at most as many as it has exits.  An outcome gets the id of    *)
(* the entry order that the history pairs the entry with, which may be     *)
(* another one's.  MAX_TRACKED_ENTRIES is not reached.                     *)
(***************************************************************************)
EXTENDS LiveExchange

VARIABLES
  tracked,    \* tracked
  recorded,   \* recordedIds
  dead,       \* entries in the dead-letter file
  journal,    \* the journal file: [tracked, recorded]
  creds,      \* activeCreds is set
  entries,    \* activeEntries of the poll under way
  flat,       \* its keys without a position, still to be looked at
  pollpc,     \* "idle", "positions" asked, or "orders" asked
  misled,     \* history: entries of a poll whose positions answer was an error
  named       \* history: entry -> ids its outcome has been recorded under

pollVars  == <<entries, flat, pollpc>>
watchVars == <<tracked, recorded, dead, journal, creds, pollVars, misled, named>>

WatchTypes ==
  /\ {tracked, recorded, dead, entries, misled} \subseteq SUBSET taken
  /\ journal \in [tracked : SUBSET taken, recorded : SUBSET taken]
  /\ creds \in BOOLEAN /\ flat \subseteq Keys
  /\ pollpc \in {"idle", "positions", "orders"}
  /\ named \in [Orders -> SUBSET Orders]

WatchInit ==
  /\ tracked = {} /\ recorded = {} /\ dead = {}
  /\ journal = [tracked |-> {}, recorded |-> {}]
  /\ creds = FALSE /\ entries = {} /\ flat = {} /\ pollpc = "idle" /\ misled = {}
  /\ named = [o \in Orders |-> {}]

\* persistWatcherJournal, which swallows a failure.
Journals(ok) ==
  journal' = IF ok THEN [tracked |-> tracked', recorded |-> recorded'] ELSE journal

\* Mutant: the file is written before the maps change.
RegistersLate(S, ok) ==
  /\ tracked' = tracked \cup (S \ recorded)
  /\ journal' = IF ok THEN [tracked |-> tracked, recorded |-> recorded] ELSE journal
  /\ creds' = TRUE
  /\ UNCHANGED <<recorded, dead, pollVars, misled, named>>

\* updateWatcherCreds and registerLiveEntry for each of S.
Registers(S, ok) ==
  /\ tracked' = tracked \cup (S \ recorded) /\ creds' = TRUE
  /\ UNCHANGED <<recorded, dead, pollVars, misled, named>>
  /\ IF S \subseteq recorded THEN UNCHANGED journal ELSE Journals(ok)

RemembersCreds ==
  /\ creds' = TRUE
  /\ UNCHANGED <<tracked, recorded, dead, journal, pollVars, misled, named>>

PollEnds == entries' = {} /\ flat' = {} /\ pollpc' = "idle"

\* A poll begins: entries older than STALE_ENTRY_TTL_MS are given up, and
\* positions are asked for if any other is left.
PollStarts(stale, written, ok) ==
  /\ pollpc = "idle" /\ creds /\ tracked # {} /\ stale \subseteq tracked
  /\ tracked' = tracked \ stale
  /\ dead' = IF written THEN dead \cup stale ELSE dead
  /\ UNCHANGED <<recorded, creds, misled, named>>
  /\ IF stale = {} THEN UNCHANGED journal ELSE Journals(ok)
  /\ IF tracked' = {} THEN UNCHANGED pollVars
     ELSE entries' = tracked' /\ pollpc' = "positions" /\ UNCHANGED flat

PositionsFail ==
  /\ pollpc = "positions" /\ PollEnds
  /\ UNCHANGED <<tracked, recorded, dead, journal, creds, misled, named>>

\* The answer; one with an error code counts as no positions at all.
PositionsAnswered(error) ==
  /\ pollpc = "positions"
  /\ LET gone == {k \in {Key(o) : o \in entries} : error \/ ~Held(k)}
     IN  IF gone = {} THEN PollEnds
         ELSE flat' = gone /\ pollpc' = "orders" /\ UNCHANGED entries
  /\ misled' = IF error THEN misled \cup entries ELSE misled
  /\ UNCHANGED <<tracked, recorded, dead, journal, creds, named>>

\* The ids of the outcomes of R, when the history lists these entry orders: an
\* entry's own, or that of an entry order in the same place of the list, or its
\* own again where the list is too short.
Identified(R, id, listed) ==
  /\ \A o \in R : IF o \in listed THEN id[o] = o ELSE id[o] \in listed \cup {o}
  /\ \A o, p \in R \ listed : id[o] = id[p] => o = p

\* The history of key k, with some of its filled entry orders: the entries R are
\* recorded.  None are if the request fails, no exit is listed, or their outcome
\* is refused as invalid.
\* Mutant: whatever is tracked for the key is paired, not what the poll began with.
RecordsTracked(k, R, id, ok) ==
  /\ pollpc = "orders" /\ k \in flat
  /\ R \subseteq {o \in tracked : Key(o) = k}
  /\ Cardinality(R) <= Cardinality({o \in exited : Key(o) = k})
  /\ \A o \in R : id[o] = o
  /\ recorded' = recorded \cup R /\ tracked' = tracked \ R
  /\ named' = [o \in Orders |-> IF o \in R THEN named[o] \cup {id[o]} ELSE named[o]]
  /\ IF R = {} THEN UNCHANGED journal ELSE Journals(ok)
  /\ IF flat = {k} THEN PollEnds ELSE flat' = flat \ {k} /\ UNCHANGED <<entries, pollpc>>
  /\ UNCHANGED <<dead, creds, misled>>

Records(k, R, id, ok) ==
  /\ pollpc = "orders" /\ k \in flat
  /\ R \subseteq {o \in entries \ recorded : Key(o) = k}
  /\ Cardinality(R) <= Cardinality({o \in exited : Key(o) = k})
  /\ \E listed \in SUBSET {o \in (holds \cup exited) \ rests : Key(o) = k} :
       Identified(R, id, listed)
  /\ recorded' = recorded \cup R /\ tracked' = tracked \ R
  /\ named' = [o \in Orders |-> IF o \in R THEN named[o] \cup {id[o]} ELSE named[o]]
  /\ IF R = {} THEN UNCHANGED journal ELSE Journals(ok)
  /\ IF flat = {k} THEN PollEnds ELSE flat' = flat \ {k} /\ UNCHANGED <<entries, pollpc>>
  /\ UNCHANGED <<dead, creds, misled>>

\* loadWatcherJournal; without credentials until the next order.
WatcherReloads ==
  /\ recorded' = journal.recorded
  /\ tracked' = journal.tracked \ journal.recorded
  /\ creds' = FALSE /\ PollEnds
  /\ UNCHANGED <<dead, journal, misled, named>>
=============================================================================
