------------------------------ MODULE VstOrders -----------------------------
(***************************************************************************)
(* The order journal of the demo account                                   *)
(* (artifacts/api-server/src/lib/vstOrderJournal.ts) and its users in      *)
(* routes/demo.ts: placeVstOrderIdempotently, called by the sniper, the    *)
(* trigger loop and the manual route, which may name one clientOrderId     *)
(* twice, and reconcileUnresolvedVstOrders of POST /demo/connect.  The     *)
(* journal is a map, a file that is replaced by a rename, and a promise    *)
(* lock whose holder changes the one and writes the other.                 *)
(*                                                                         *)
(* Of an entry only its state and whether its exchangeOrderId is set       *)
(* matter.  Of the quantities only this: a placement that finds an entry   *)
(* made by another call, for a smaller quantity, may report more filled    *)
(* than the entry asked for, and updateOrderState then throws.             *)
(***************************************************************************)
EXTENDS Naturals, Sequences

CONSTANTS
  Ids,       \* clientOrderIds
  Callers,   \* placements that may be under way at once
  Connect,   \* the reconciliation
  Budgets    \* bounds of the model: pairs <<calls, faults>>, one for each behaviour

ASSUME OrderConstants ==
  /\ Ids # {} /\ Connect \notin Callers
  /\ Budgets \subseteq Nat \X Nat

Clients    == Callers \cup {Connect}
Unresolved == {"REQUESTED", "UNKNOWN", "ACCEPTED"}      \* getUnresolvedOrders
\* "FILLED": whatever else normalizeBingXOrderState makes of an order that exists.
States     == Unresolved \cup {"FILLED", "REJECTED", "none"}
Entry      == [known : BOOLEAN, state : States]
Absent     == [known |-> FALSE, state |-> "none"]
Nothing    == [i \in Ids |-> Absent]
Listed(map) == {i \in Ids : map[i].state # "none"}

VARIABLES
  orders,      \* the map
  file,        \* vst-orders.json, without an entry if it does not exist
  tmp,         \* what is written to its .tmp
  phase,       \* how far initVstOrderJournal is
  image,       \* what it has read
  found,       \* clients whose entry is not of their own making
  queue,       \* who asked for writeLock and what to write, the head holds it
  stage,       \* how far the holder is
  pc, id,      \* client -> where it is, its clientOrderId
  todo,        \* orders still to be reconciled
  \* the exchange
  executed,    \* ids of its orders
  late,        \* requests given up that may still arrive
  \* bounds
  calls, faults,
  \* history
  refused,     \* ids a request of which the exchange refused
  overlooked,  \* ids in the file, or recorded, while the map lacked the file's
  unsaved      \* ids in the map that a failed write left out of the file

journal  == <<orders, file, tmp>>
start    == <<phase, image, found>>
lock     == <<queue, stage>>
clients  == <<pc, id, todo>>
exchange == <<executed, late, refused>>
bounds   == <<calls, faults>>
lacking  == <<overlooked, unsaved>>
vars     == <<journal, start, lock, clients, exchange, bounds, lacking>>

Places == {"idle", "recording", "checking", "posting", "accepted", "refused",
           "asking", "updating"}

TypeOK ==
  /\ {orders, file, tmp, image} \subseteq [Ids -> Entry]
  /\ phase \in {"reading", "read", "loaded"}
  /\ queue \in Seq([client : Clients, entry : Entry]) /\ stage \in {"ready", "write", "rename"}
  /\ pc \in [Clients -> Places] /\ id \in [Clients -> Ids]
  /\ todo \subseteq Ids /\ found \subseteq Clients
  /\ executed \subseteq Ids /\ late \subseteq Ids /\ refused \subseteq Ids
  /\ overlooked \subseteq Ids /\ unsaved \subseteq Ids
  /\ calls \in Nat /\ faults \in Nat

Init ==
  /\ orders = Nothing /\ file = Nothing /\ tmp = Nothing
  /\ phase = "reading" /\ image = Nothing /\ found = {}
  /\ queue = <<>> /\ stage = "ready"
  /\ pc = [c \in Clients |-> "idle"] /\ id = [c \in Clients |-> CHOOSE i \in Ids : TRUE]
  /\ todo = {}
  /\ executed = {} /\ late = {} /\ refused = {}
  /\ \E b \in Budgets : calls = b[1] /\ faults = b[2]
  /\ overlooked = {} /\ unsaved = {}

Fails == faults > 0 /\ faults' = faults - 1 /\ UNCHANGED calls
Calls == calls > 0 /\ calls' = calls - 1 /\ UNCHANGED faults

-----------------------------------------------------------------------------
(* initVstOrderJournal, started without await when the module is loaded. *)

InitReads ==
  /\ phase = "reading" /\ phase' = "read" /\ image' = file
  /\ UNCHANGED <<found, journal, lock, clients, exchange, bounds, lacking>>

\* A file that does not exist leaves the map alone; another replaces it, and the
\* entries of whoever is under way.
InitLoads ==
  /\ phase = "read" /\ phase' = "loaded" /\ image' = Nothing
  /\ orders' = IF image = Nothing THEN orders ELSE image
  /\ found' = IF image = Nothing THEN found
              ELSE found \cup {c \in Clients : pc[c] # "idle"}
  /\ UNCHANGED <<file, tmp, lock, clients, exchange, bounds, lacking>>

\* A file that cannot be read: the journal goes on without it.
InitFails ==
  /\ phase = "reading" /\ file # Nothing /\ Fails /\ phase' = "loaded"
  /\ overlooked' = overlooked \cup Listed(file)
  /\ UNCHANGED <<journal, image, found, lock, clients, exchange, unsaved>>

-----------------------------------------------------------------------------
(* Steps of a client outside of the lock. *)

Moves(c, place) == pc' = [pc EXCEPT ![c] = place]

\* recordOrderRequested and updateOrderState wait for the lock.
Queues(c, place, r) ==
  /\ Moves(c, place) /\ queue' = Append(queue, [client |-> c, entry |-> r])
  /\ UNCHANGED stage

Request   == [known |-> FALSE, state |-> "REQUESTED"]
Rejection == [known |-> FALSE, state |-> "REJECTED"]
Doubt     == [known |-> FALSE, state |-> "UNKNOWN"]

\* Mutant: the exchange's own name of the state is written.
FoundRaw == {[known |-> TRUE, state |-> "NEW"]}

\* What is written of an order the exchange knows (normalizeBingXOrderState).
Found == {[known |-> TRUE, state |-> s] : s \in {"ACCEPTED", "FILLED"}}

\* Where a placement goes on after its entry is in the journal: if the entry
\* names an order, it is asked for; else the order is sent.
Recorded(r) == IF r.known THEN "checking" ELSE "posting"

\* The next order of the reconciliation's list (in any order).
Turns ==
  IF todo = {}
  THEN Moves(Connect, "idle") /\ UNCHANGED <<id, todo>>
  ELSE \E i \in todo : /\ id' = [id EXCEPT ![Connect] = i] /\ todo' = todo \ {i}
                       /\ Moves(Connect, "asking")

\* placeVstOrderIdempotently is called.
Place(c, i) ==
  /\ pc[c] = "idle" /\ Calls /\ id' = [id EXCEPT ![c] = i] /\ Queues(c, "recording", Request)
  /\ UNCHANGED <<journal, start, todo, exchange, lacking>>

\* reconcileUnresolvedVstOrders lists what getUnresolvedOrders returns.
Reconcile ==
  /\ pc[Connect] = "idle" /\ Calls
  /\ \E i \in Ids : /\ orders[i].state \in Unresolved /\ id' = [id EXCEPT ![Connect] = i]
                    /\ todo' = {j \in Ids \ {i} : orders[j].state \in Unresolved}
  /\ Moves(Connect, "asking") /\ found' = found \ {Connect}
  /\ UNCHANGED <<journal, phase, image, lock, exchange, lacking>>

\* The order an entry names is found and returned; or the query throws; or the
\* exchange answers without an order, and it is sent again.
Check(c) ==
  /\ pc[c] = "checking" /\ \E place \in {"idle", "posting"} : Moves(c, place)
  /\ UNCHANGED <<journal, start, lock, id, todo, exchange, bounds, lacking>>

Update(c, r) == Queues(c, "updating", r)

\* The exchange's answer to the order arrives.
Answered(c) ==
  /\ \/ pc[c] = "accepted" /\ \E r \in Found : Update(c, r)
     \/ pc[c] = "refused" /\ Update(c, Rejection)
  /\ UNCHANGED <<journal, start, id, todo, exchange, bounds, lacking>>

\* It does not, or names no orderId.
AnswerLost(c) ==
  /\ pc[c] \in {"accepted", "refused"} /\ Fails /\ Moves(c, "asking")
  /\ UNCHANGED <<journal, start, lock, id, todo, exchange, lacking>>

\* Mutant: an order whose answer is lost is taken for refused.
UnansweredRejected == Rejection

\* What a placement writes of an order its query did not find.
Unanswered == Doubt

\* The order is asked for by its clientOrderId.
AskFinds(c) ==
  /\ pc[c] = "asking" /\ id[c] \in executed /\ \E r \in Found : Update(c, r)
  /\ UNCHANGED <<journal, start, id, todo, exchange, bounds, lacking>>

\* It is not found, or the query fails: a placement leaves it in doubt, the
\* reconciliation goes on to the next.
AskFails(c) ==
  /\ pc[c] = "asking"
  /\ \/ /\ c \in Callers /\ Update(c, Unanswered) /\ UNCHANGED <<id, todo>>
     \/ c = Connect /\ Turns /\ UNCHANGED lock
  /\ UNCHANGED <<journal, start, exchange, bounds, lacking>>

-----------------------------------------------------------------------------
(* serialized, and what runs under the lock. *)

\* updateOrderState replaces the state; it adds an exchangeOrderId, and never
\* takes one away.
Merged(r, p) == [known |-> r.known \/ p.known, state |-> p.state]

Holder == Head(queue).client

\* The holder's promise settles; the next one's turn.
Released == queue' = Tail(queue) /\ stage' = "ready"

\* Where the holder goes on when its operation returned (recordOrderRequested
\* returns r) ...
Returns(r) ==
  /\ Released
  /\ \/ /\ pc[Holder] = "recording" /\ Moves(Holder, Recorded(r))
        /\ UNCHANGED <<id, todo>>
     \/ /\ pc[Holder] = "updating" /\ Holder # Connect /\ Moves(Holder, "idle")
        /\ UNCHANGED <<id, todo>>
     \/ pc[Holder] = "updating" /\ Holder = Connect /\ Turns

\* ... and when it threw: the placement fails, and so does the reconciliation.
Throws ==
  /\ Released /\ Moves(Holder, "idle") /\ UNCHANGED id
  /\ todo' = IF Holder = Connect THEN {} ELSE todo

\* recordOrderRequested of an order the map holds returns it as it is; of
\* another it adds an entry. Before the map is loaded, that one is lost, or all
\* that the file holds.
ApplyRecord ==
  /\ queue # <<>> /\ stage = "ready" /\ pc[Holder] = "recording"
  /\ LET i == id[Holder] IN
     \/ /\ orders[i].state # "none" /\ Returns(orders[i]) /\ found' = found \cup {Holder}
        /\ UNCHANGED <<orders, overlooked>>
     \/ /\ orders[i].state = "none" /\ stage' = "write"
        /\ orders' = [orders EXCEPT ![i] = Head(queue).entry]
        /\ overlooked' = IF phase = "loaded" THEN overlooked
                         ELSE overlooked \cup {i} \cup Listed(file)
        /\ found' = found \ {Holder} /\ UNCHANGED <<queue, pc, id, todo>>
  /\ UNCHANGED <<file, tmp, phase, image, exchange, bounds, unsaved>>

\* updateOrderState of an order the map does not hold throws; so it does when
\* more is filled than the entry of another call requested.
ApplyUpdate ==
  /\ queue # <<>> /\ stage = "ready" /\ pc[Holder] = "updating"
  /\ LET i == id[Holder] IN
     \/ orders[i].state = "none" /\ Throws /\ UNCHANGED orders
     \/ /\ orders[i].state # "none" /\ Head(queue).entry.known /\ Holder \in found
        /\ Throws /\ UNCHANGED orders
     \/ /\ orders[i].state # "none" /\ stage' = "write"
        /\ orders' = [orders EXCEPT ![i] = Merged(orders[i], Head(queue).entry)]
        /\ UNCHANGED <<queue, pc, id, todo>>
  /\ UNCHANGED <<file, tmp, start, exchange, bounds, lacking>>

\* persist: the map goes to the .tmp, which replaces the file.
WriteTmp ==
  /\ queue # <<>> /\ stage = "write" /\ stage' = "rename" /\ tmp' = orders
  /\ UNCHANGED <<orders, file, start, queue, clients, exchange, bounds, lacking>>

RenameTmp ==
  /\ queue # <<>> /\ stage = "rename" /\ file' = tmp /\ tmp' = Nothing
  /\ Returns(Request)
  /\ unsaved' = unsaved \ Listed(tmp)
  /\ UNCHANGED <<orders, start, exchange, bounds, overlooked>>

\* Mutant: a write that fails does not release the lock.
AfterFailureHolds == Moves(Holder, "idle") /\ stage' = "held" /\ UNCHANGED <<queue, id, todo>>

\* Mutant: a write that fails is logged, and the placement sends its order.
AfterFailureLogs == Returns(Request)

\* The map keeps what was not written; the lock is released all the same.
AfterFailure == Throws

WriteFails ==
  /\ queue # <<>> /\ stage \in {"write", "rename"} /\ Fails /\ AfterFailure
  /\ unsaved' = unsaved \cup (Listed(orders) \ Listed(file))
  /\ UNCHANGED <<journal, start, exchange, overlooked>>

LockStep == ApplyRecord \/ ApplyUpdate \/ WriteTmp \/ RenameTmp \/ WriteFails

-----------------------------------------------------------------------------
(* The exchange executes a clientOrderId once; the process may end.         *)

Accept(c) ==
  /\ pc[c] = "posting" /\ id[c] \notin executed /\ executed' = executed \cup {id[c]}
  /\ Moves(c, "accepted")
  /\ UNCHANGED <<journal, start, lock, id, todo, late, refused, bounds, lacking>>

\* For want of margin, say, or because it has an order of this clientOrderId.
Refuse(c) ==
  /\ pc[c] = "posting" /\ refused' = refused \cup {id[c]} /\ Moves(c, "refused")
  /\ UNCHANGED <<journal, start, lock, id, todo, executed, late, bounds, lacking>>

\* The placement gives up a request that is still under way.
TimeOut(c) ==
  /\ pc[c] = "posting" /\ Fails /\ late' = late \cup {id[c]} /\ Moves(c, "asking")
  /\ UNCHANGED <<journal, start, lock, id, todo, executed, refused, lacking>>

Arrive(i) ==
  /\ i \in late /\ late' = late \ {i} /\ executed' \in {executed, executed \cup {i}}
  /\ UNCHANGED <<journal, start, lock, clients, refused, bounds, lacking>>

\* Whose requests are on their way to the exchange.
Posting == {id[c] : c \in {d \in Callers : pc[d] = "posting"}}

\* They may arrive after the process has ended.
Crash ==
  /\ Fails /\ orders' = Nothing /\ phase' = "reading" /\ image' = Nothing /\ found' = {}
  /\ queue' = <<>> /\ stage' = "ready"
  /\ pc' = [c \in Clients |-> "idle"] /\ todo' = {}
  /\ late' = late \cup Posting
  /\ UNCHANGED <<file, tmp, id, executed, refused, lacking>>

-----------------------------------------------------------------------------
PlacementStep(c) ==
  \/ Check(c) \/ Answered(c) \/ AnswerLost(c) \/ Accept(c) \/ Refuse(c) \/ TimeOut(c)
  \/ \E i \in Ids : Place(c, i)

Next ==
  \/ InitReads \/ InitLoads \/ InitFails \/ Reconcile \/ LockStep \/ Crash
  \/ \E c \in Callers : PlacementStep(c)
  \/ \E c \in Clients : AskFinds(c) \/ AskFails(c)
  \/ \E i \in Ids : Arrive(i)

\* File operations end: the holder of the lock gets on.
Spec == Init /\ [][Next]_vars /\ WF_vars(LockStep)

-----------------------------------------------------------------------------
(* Properties *)

Overseen == overlooked \cup unsaved

\* What a connect can still find out about, or the journal names.
Good(r) == r.known \/ r.state \in Unresolved

\* An order the exchange executed, whatever answer was lost and whenever the
\* process ended, is in the journal under its exchangeOrderId, or unresolved so
\* that the next connect asks for it (placeVstOrderIdempotently,
\* reconcileUnresolvedVstOrders). Not so if it was recorded before the journal
\* was loaded, after a failed write, or if an order of its clientOrderId was
\* refused as well.
ExecutedAccounted ==
  \A i \in executed \ (Overseen \cup refused) :
    Good(file[i]) /\ (phase = "loaded" => Good(orders[i]))

\* The file never loses an exchangeOrderId it named, not to a later rejection or
\* doubt, to a failed write or a restart, unless the process took orders before
\* it had loaded the file (updateOrderState, initVstOrderJournal).
KnownStays ==
  [][\A i \in Ids : file[i].known => file'[i].known \/ i \in overlooked']_vars

\* The journal implements WriteAhead: whatever fails, nothing is sent that the
\* file does not list, and neither a name nor an exchangeOrderId is lost, unless
\* the process took orders before it had loaded the file or a write has failed
\* (recordOrderRequested before the POST in placeVstOrderIdempotently).
Named == {i \in Ids : file[i].known}
Log == INSTANCE WriteAhead WITH
         written <- Listed(file), named <- Named, out <- late \cup Posting, done <- executed
WritesAhead == Log!Spec

\* Who waits for writeLock gets his turn, also behind an operation that throws
\* or whose write fails (the finally of serialized).
TurnsCome ==
  \A c \in Clients : pc[c] \in {"recording", "updating"} ~> pc[c] \notin {"recording", "updating"}
=============================================================================
