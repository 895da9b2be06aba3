---------------------------- MODULE OutcomeOutbox ---------------------------
(***************************************************************************)
(* How the outcome of a trade is kept and reaches the quant brain          *)
(* (artifacts/api-server/src/lib/telemetryStore.ts, quantBrainClient.ts):  *)
(* the telemetry file, written from a buffer every few seconds, the        *)
(* default store; and the outbox, a map with a file, whose users take      *)
(* turns behind a promise lock that is held during the request.  Both keep  *)
(* one outcome per id, and an id is that of an entry order.                 *)
(*                                                                         *)
(* The telemetry file is moved to the backups when it is large; it holds   *)
(* the outcomes of other accounts too, so that may be at any time.         *)
(* A flush whose turn comes later is one whose timer fires later, so only  *)
(* syncs wait.  The brain is configured, all outcomes are eligible, and    *)
(* neither MAX_PENDING_OUTCOMES nor OUTCOME_SYNC_BATCH_SIZE is exceeded.   *)
(***************************************************************************)
CONSTANT Outcomes   \* their ids

VARIABLES
  buffer,      \* writeBuffer
  known,       \* recordedOutcomeIds
  stored,      \* the telemetry file
  pending,     \* pendingOutcomes
  outbox,      \* the outbox file
  waiting,     \* syncs that wait for the lock: their outcome is nowhere else
  posted,      \* outcomes in the request of the holder of the lock, if any
  delivered,   \* what the brain has
  archived     \* history: what has been moved to the backups

outboxVars == <<buffer, known, stored, pending, outbox, waiting, posted, delivered, archived>>

OutboxTypes ==
  {buffer, known, stored, pending, outbox, waiting, posted, delivered, archived}
    \subseteq SUBSET Outcomes

OutboxInit ==
  /\ buffer = {} /\ known = {} /\ stored = {} /\ pending = {} /\ outbox = {}
  /\ waiting = {} /\ posted = {} /\ delivered = {} /\ archived = {}

\* recordTradeOutcome, which drops an outcome whose id is known, then
\* syncQuantBrainOutcome, which does not, for outcomes with the ids S.
Enqueues(S) ==
  /\ buffer' = buffer \cup (S \ known) /\ known' = known \cup S
  /\ waiting' = waiting \cup S
  /\ UNCHANGED <<stored, pending, outbox, posted, delivered, archived>>

\* flushWriteBuffer empties the buffer before it writes.
BufferFlushes(ok) ==
  /\ buffer # {} /\ buffer' = {}
  /\ stored' = IF ok THEN stored \cup buffer ELSE stored
  /\ UNCHANGED <<known, pending, outbox, waiting, posted, delivered, archived>>

\* rotateTelemetryFile, after it has flushed what the buffer held by then.
Rotates ==
  /\ stored # {} /\ stored' = {} /\ archived' = archived \cup stored
  /\ UNCHANGED <<buffer, known, pending, outbox, waiting, posted, delivered>>

\* persistOutcomeOutbox, which swallows a failure.
Persists(ok) == outbox' = IF ok THEN pending' ELSE outbox

SyncBegins(o, ok) ==
  /\ posted = {} /\ o \in waiting
  /\ waiting' = waiting \ {o}
  /\ pending' = pending \cup {o} /\ Persists(ok)
  /\ posted' = {o}
  /\ UNCHANGED <<buffer, known, stored, delivered, archived>>

\* flushPendingQuantBrainOutcomes
FlushBegins ==
  /\ posted = {} /\ pending # {} /\ posted' = pending
  /\ UNCHANGED <<buffer, known, stored, pending, outbox, waiting, delivered, archived>>

\* Mutant: what was posted has been delivered.
PostAnsweredAll(acked, ok) ==
  /\ posted # {} /\ acked \subseteq posted
  /\ delivered' = delivered \cup acked
  /\ pending' = pending \ posted
  /\ Persists(ok) \/ (acked = {} /\ UNCHANGED outbox)
  /\ posted' = {}
  /\ UNCHANGED <<buffer, known, stored, waiting, archived>>

\* The brain has recorded `acked', or had them already; the others it blocks,
\* or its answer does not name them, which alone writes no file.
PostAnswered(acked, ok) ==
  /\ posted # {} /\ acked \subseteq posted
  /\ delivered' = delivered \cup acked
  /\ pending' = pending \ acked
  /\ Persists(ok) \/ (acked = {} /\ UNCHANGED outbox)
  /\ posted' = {}
  /\ UNCHANGED <<buffer, known, stored, waiting, archived>>

\* No valid answer, though the brain may have recorded some.
\* Mutant: they are not tried again.
PostFailsForGood(arrived) ==
  /\ posted # {} /\ arrived \subseteq posted
  /\ delivered' = delivered \cup arrived
  /\ pending' = pending \ posted /\ Persists(TRUE)
  /\ posted' = {}
  /\ UNCHANGED <<buffer, known, stored, waiting, archived>>
PostFails(arrived) ==
  /\ posted # {} /\ arrived \subseteq posted
  /\ delivered' = delivered \cup arrived
  /\ posted' = {}
  /\ UNCHANGED <<buffer, known, stored, pending, outbox, waiting, archived>>

\* initTelemetryStore and startQuantBrainOutcomeSync: everything the two files
\* hold is pending again.  The backups are not read.
OutboxReloads ==
  /\ buffer' = {} /\ waiting' = {} /\ posted' = {} /\ known' = stored
  /\ pending' = outbox \cup stored /\ Persists(TRUE)
  /\ UNCHANGED <<stored, delivered, archived>>
=============================================================================
