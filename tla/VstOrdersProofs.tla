--------------------------- MODULE VstOrdersProofs ---------------------------
(***************************************************************************)
(* Proofs about VstOrders: the type invariant, ExecutedAccounted, that the *)
(* journal is a write-ahead log, and what its exemptions stand for; for    *)
(* all orders, callers and budgets.                                        *)
(***************************************************************************)
EXTENDS VstOrders, TLAPS

-----------------------------------------------------------------------------
(* Types *)

\* Constants are in the set the type invariant names.
LEMMA EntryFacts ==
  /\ Absent \in Entry /\ Nothing \in [Ids -> Entry]
  /\ Request \in Entry /\ Rejection \in Entry /\ Doubt \in Entry /\ Found \subseteq Entry
  /\ Unanswered \in Entry
  /\ \A r, p \in Entry : Merged(r, p) \in Entry
  <1> USE DEF Entry, States, Unresolved
  <1>1. Absent \in Entry /\ Nothing \in [Ids -> Entry]
    BY DEF Absent, Nothing
  <1>2. Request \in Entry /\ Rejection \in Entry /\ Doubt \in Entry /\ Unanswered \in Entry
    BY DEF Request, Rejection, Doubt, Unanswered
  <1>3. Found \subseteq Entry
    <2> SUFFICES ASSUME NEW r \in Found PROVE r \in Entry
      OBVIOUS
    <2>1. PICK t \in {"ACCEPTED", "FILLED"} : r = [known |-> TRUE, state |-> t]
      BY DEF Found
    <2> QED
      BY <2>1
  <1>4. \A r, p \in Entry : Merged(r, p) \in Entry
    <2> SUFFICES ASSUME NEW r \in Entry, NEW p \in Entry PROVE Merged(r, p) \in Entry
      OBVIOUS
    <2>1. (r.known \/ p.known) \in BOOLEAN /\ p.state \in States
      BY DEF Entry
    <2> QED
      BY <2>1 DEF Merged
  <1> QED
    BY <1>1, <1>2, <1>3, <1>4

\* What Moves does to pc.
LEMMA MovesType ==
  ASSUME TypeOK, NEW c \in Clients, NEW place \in Places, Moves(c, place)
  PROVE  pc' \in [Clients -> Places]
  BY DEF Moves, TypeOK

\* A client that joins the queue.
LEMMA QueuesType ==
  ASSUME TypeOK, NEW c \in Clients, NEW place \in Places, NEW r \in Entry, Queues(c, place, r)
  PROVE  pc' \in [Clients -> Places] /\ queue' \in Seq([client : Clients, entry : Entry])
  BY DEF Queues, Moves, TypeOK

\* The holder is a client, and what remains of the queue without him is one.
LEMMA HolderType ==
  ASSUME TypeOK, queue # <<>>
  PROVE  /\ Holder \in Clients /\ Head(queue).entry \in Entry
         /\ Tail(queue) \in Seq([client : Clients, entry : Entry])
  <1> DEFINE Q == [client : Clients, entry : Entry]
  <1> HIDE DEF Q
  <1>0. queue \in Seq(Q)
    BY DEF TypeOK, Q
  <1>a. Head(queue) \in Q
    BY <1>0
  <1>1. Head(queue) \in [client : Clients, entry : Entry]
    BY <1>a DEF Q
  <1>2. Tail(queue) \in Seq([client : Clients, entry : Entry])
    BY DEF TypeOK
  <1> QED
    BY <1>1, <1>2 DEF Holder

\* The reconciliation's next order.
LEMMA TurnsType ==
  ASSUME TypeOK, Turns
  PROVE  pc' \in [Clients -> Places] /\ id' \in [Clients -> Ids] /\ todo' \subseteq Ids
  BY OrderConstants DEF TypeOK, Turns, Moves, Clients, Places

LEMMA ReturnsType ==
  ASSUME TypeOK, queue # <<>>, NEW r, Returns(r)
  PROVE  /\ pc' \in [Clients -> Places] /\ id' \in [Clients -> Ids] /\ todo' \subseteq Ids
         /\ queue' \in Seq([client : Clients, entry : Entry])
         /\ stage' \in {"ready", "write", "rename"}
  BY HolderType, TurnsType DEF TypeOK, Returns, Released, Moves, Places, Recorded

LEMMA ThrowsType ==
  ASSUME TypeOK, queue # <<>>, Throws
  PROVE  /\ pc' \in [Clients -> Places] /\ id' \in [Clients -> Ids] /\ todo' \subseteq Ids
         /\ queue' \in Seq([client : Clients, entry : Entry])
         /\ stage' \in {"ready", "write", "rename"}
  BY HolderType DEF TypeOK, Throws, Released, Moves, Places

LEMMA TypeStep ==
  ASSUME TypeOK, [Next]_vars
  PROVE  TypeOK'
  <1> USE OrderConstants, EntryFacts
  <1>1. CASE InitReads
    BY <1>1 DEF InitReads, TypeOK, journal, lock, clients, exchange, bounds, lacking
  <1>2. CASE InitLoads
    BY <1>2 DEF InitLoads, TypeOK, lock, clients, exchange, bounds, lacking
  <1>3. CASE InitFails
    BY <1>3 DEF InitFails, TypeOK, journal, lock, clients, exchange, Fails, Listed
  <1>4. CASE Reconcile
    BY <1>4 DEF Reconcile, TypeOK, journal, start, lock, exchange, lacking, Calls, Moves,
                Places, Clients
  <1>5. CASE Crash
    BY <1>5 DEF Crash, Posting, TypeOK, Fails, lacking, Places, Clients
  <1>6. CASE \E c \in Callers : Check(c)
    BY <1>6 DEF Check, TypeOK, journal, start, lock, exchange, bounds, lacking, Moves, Places,
                Clients
  <1>7. CASE \E c \in Callers : Answered(c)
    <2> PICK c \in Callers : Answered(c)
      BY <1>7
    <2>1. PICK r \in Entry : Update(c, r)
      BY DEF Answered
    <2>2. pc' \in [Clients -> Places] /\ queue' \in Seq([client : Clients, entry : Entry])
      BY <2>1, QueuesType DEF Update, Places, Clients
    <2> QED
      BY <2>1, <2>2 DEF Answered, TypeOK, journal, start, exchange, bounds, lacking, Update, Queues
  <1>8. CASE \E c \in Callers : AnswerLost(c)
    BY <1>8 DEF AnswerLost, TypeOK, journal, start, lock, exchange, lacking, Fails, Moves,
                Places, Clients
  <1>9. CASE \E c \in Callers : Accept(c)
    BY <1>9 DEF Accept, TypeOK, journal, start, lock, bounds, lacking, Moves, Places, Clients
  <1>10. CASE \E c \in Callers : Refuse(c)
    BY <1>10 DEF Refuse, TypeOK, journal, start, lock, bounds, lacking, Moves, Places, Clients
  <1>11. CASE \E c \in Callers : TimeOut(c)
    BY <1>11 DEF TimeOut, TypeOK, journal, start, lock, lacking, Moves, Places, Clients, Fails
  <1>12. CASE \E c \in Callers, i \in Ids : Place(c, i)
    <2> PICK c \in Callers, i \in Ids : Place(c, i)
      BY <1>12
    <2>1. pc' \in [Clients -> Places] /\ queue' \in Seq([client : Clients, entry : Entry])
      BY QueuesType DEF Place, Places, Clients
    <2> QED
      BY <2>1 DEF Place, TypeOK, journal, start, exchange, lacking, Calls, Queues, Clients
  <1>13. CASE \E c \in Clients : AskFinds(c)
    <2> PICK c \in Clients : AskFinds(c)
      BY <1>13
    <2>1. PICK r \in Entry : Update(c, r)
      BY DEF AskFinds
    <2>2. pc' \in [Clients -> Places] /\ queue' \in Seq([client : Clients, entry : Entry])
      BY <2>1, QueuesType DEF Update, Places
    <2> QED
      BY <2>1, <2>2 DEF AskFinds, TypeOK, journal, start, exchange, bounds, lacking, Update, Queues
  <1>14. CASE \E c \in Clients : AskFails(c)
    <2> PICK c \in Clients : AskFails(c)
      BY <1>14
    <2>1. CASE Update(c, Unanswered) /\ UNCHANGED <<id, todo>>
      <3>1. pc' \in [Clients -> Places] /\ queue' \in Seq([client : Clients, entry : Entry])
        BY <2>1, QueuesType DEF Update, Places
      <3> QED
        BY <2>1, <3>1 DEF AskFails, TypeOK, journal, start, exchange, bounds, lacking, Update, Queues
    <2>2. CASE Turns /\ UNCHANGED lock
      BY <2>2, TurnsType DEF AskFails, TypeOK, journal, start, exchange, bounds, lacking, lock
    <2> QED
      BY <2>1, <2>2 DEF AskFails
  <1>15. CASE \E i \in Ids : Arrive(i)
    BY <1>15 DEF Arrive, TypeOK, journal, start, lock, clients, bounds, lacking
  <1>16. CASE ApplyRecord
    <2> DEFINE i == id[Holder]
    <2>1. Holder \in Clients /\ i \in Ids /\ Head(queue).entry \in Entry
      BY <1>16, HolderType DEF ApplyRecord, TypeOK
    <2>2. CASE Returns(orders[i]) /\ UNCHANGED <<orders, overlooked>>
      BY <1>16, <2>1, <2>2, ReturnsType
         DEF ApplyRecord, TypeOK, start, exchange, bounds
    <2>3. CASE stage' = "write" /\ ~(UNCHANGED <<orders, overlooked>> /\ Returns(orders[i]))
      BY <1>16, <2>1, <2>3 DEF ApplyRecord, TypeOK, start, exchange, bounds, Listed
    <2> QED
      BY <1>16, <2>2, <2>3 DEF ApplyRecord
  <1>17. CASE ApplyUpdate
    <2> DEFINE i == id[Holder]
    <2>1. Holder \in Clients /\ i \in Ids /\ Head(queue).entry \in Entry
      BY <1>17, HolderType DEF ApplyUpdate, TypeOK
    <2>2. CASE Throws /\ UNCHANGED orders
      BY <1>17, <2>1, <2>2, ThrowsType
         DEF ApplyUpdate, TypeOK, start, exchange, bounds, lacking
    <2>3. CASE /\ orders' = [orders EXCEPT ![i] = Merged(orders[i], Head(queue).entry)]
               /\ stage' = "write" /\ UNCHANGED <<queue, pc, id, todo>>
      <3>1. Merged(orders[i], Head(queue).entry) \in Entry
        BY <2>1 DEF TypeOK
      <3> QED
        BY <1>17, <2>1, <2>3, <3>1
           DEF ApplyUpdate, TypeOK, start, exchange, bounds, lacking
    <2> QED
      BY <1>17, <2>2, <2>3 DEF ApplyUpdate
  <1>18. CASE WriteTmp
    BY <1>18 DEF WriteTmp, TypeOK, start, clients, exchange, bounds, lacking
  <1>19. CASE RenameTmp
    BY <1>19, ReturnsType DEF RenameTmp, TypeOK, start, exchange, bounds
  <1>20. CASE WriteFails
    BY <1>20, ThrowsType
       DEF WriteFails, AfterFailure, TypeOK, journal, start, exchange, Fails, Listed
  <1>21. CASE UNCHANGED vars
    BY <1>21 DEF TypeOK, vars, journal, start, lock, clients, exchange, bounds, lacking
  <1> QED
    BY <1>1, <1>2, <1>3, <1>4, <1>5, <1>6, <1>7, <1>8, <1>9, <1>10, <1>11, <1>12, <1>13,
       <1>14, <1>15, <1>16, <1>17, <1>18, <1>19, <1>20, <1>21
       DEF Next, PlacementStep, LockStep

LEMMA InitialTypes == Init => TypeOK
  <1> SUFFICES ASSUME Init PROVE TypeOK
    OBVIOUS
  <1>1. id \in [Clients -> Ids]
    BY OrderConstants DEF Init
  <1>2. calls \in Nat /\ faults \in Nat
    BY OrderConstants DEF Init
  <1>3. pc \in [Clients -> Places] /\ queue \in Seq([client : Clients, entry : Entry])
    BY DEF Init, Places
  <1>4. {orders, file, tmp, image} \subseteq [Ids -> Entry] /\ found = {}
    BY EntryFacts DEF Init
  <1> QED
    BY <1>1, <1>2, <1>3, <1>4 DEF Init, TypeOK

\* The variables of the journal (vstOrderJournal.ts) and of its users keep
\* their types.
THEOREM TypeCorrect == Spec => []TypeOK
  BY InitialTypes, TypeStep, PTL DEF Spec

-----------------------------------------------------------------------------
(* The inductive invariant *)

\* What may be written of an order: it is unresolved or named, unless the exchange
\* refused one; and only an executed one is named.
Fits(r, i) == (Good(r) \/ i \in refused) /\ (r.known => i \in executed)

\* Who waits for the lock records or updates, once, an entry that may be written.
Waits(q) ==
  /\ pc[q.client] \in {"recording", "updating"} /\ q.entry.state # "none"
  /\ Fits(q.entry, id[q.client])

QueueInv ==
  /\ \A k \in DOMAIN queue : Waits(queue[k])
  /\ \A k, l \in DOMAIN queue : queue[k].client = queue[l].client => k = l

Sound(map) ==
  \A i \in Ids : /\ map[i].known => map[i].state # "none"
                 /\ map[i].state # "none" => Fits(map[i], i)

SoundInv ==
  /\ Sound(orders) /\ Sound(file) /\ Sound(tmp) /\ Sound(image)
  /\ \A c \in Callers : /\ pc[c] = "refused" => id[c] \in refused
                        /\ pc[c] = "accepted" => id[c] \in executed

\* Before the journal is loaded, the first entry overlooks what the file holds.
EarlyInv ==
  phase # "loaded" =>
    /\ Listed(orders) \subseteq overlooked
    /\ Listed(orders) # {} \/ stage # "ready" =>
         Listed(file) \subseteq overlooked /\ Listed(image) \subseteq overlooked
    /\ phase = "read" => Listed(image) \subseteq Listed(file) \cup overlooked
    /\ phase = "reading" => image = Nothing

\* What the map holds is in the file, or being written.
MapInv ==
  \A i \in Listed(orders) \ Overseen :
    /\ phase = "loaded"
    /\ stage = "ready" => i \in Listed(file)
    /\ stage = "rename" => i \in Listed(tmp)

\* The .tmp is what the map holds.
TmpInv ==
  stage = "rename" =>
    \A i \in Listed(tmp) \ overlooked : phase = "loaded" /\ tmp[i] = orders[i]

\* The holder has recorded his order before he writes.
HeldInv ==
  stage # "ready" =>
    /\ queue # <<>>
    /\ pc[Holder] = "recording" =>
         /\ id[Holder] \in overlooked \/ (stage = "write" /\ id[Holder] \in Listed(orders))
                                      \/ (stage = "rename" /\ id[Holder] \in Listed(tmp))

\* An order that is sent, or may be executed, is in the journal and stays there.
Sending == {id[c] : c \in {d \in Callers : pc[d] \in {"checking", "posting"}}}

Kept(i) ==
  /\ i \in Listed(file)
  /\ phase = "read" => i \in Listed(image)
  /\ phase = "loaded" => i \in Listed(orders)
  /\ stage = "rename" => i \in Listed(tmp)

AccountInv == \A i \in executed \cup late \cup Sending : i \in Overseen \/ Kept(i)

\* So does whatever else the file lists, and that is not unsaved.
ListedInv ==
  /\ \A i \in Listed(file) \ overlooked : Kept(i)
  /\ unsaved \cap Listed(file) = {}

\* So does an exchangeOrderId the file names.
KnownInv ==
  \A i \in Ids \ overlooked :
    file[i].known => /\ phase = "read" => image[i].known
                     /\ phase = "loaded" => orders[i].known
                     /\ stage = "rename" => tmp[i].known

OrderInv == /\ QueueInv /\ SoundInv /\ EarlyInv /\ MapInv /\ TmpInv /\ HeldInv
            /\ AccountInv /\ ListedInv /\ KnownInv

-----------------------------------------------------------------------------
(* The queue *)

LEMMA QueueElements ==
  ASSUME TypeOK, NEW k \in DOMAIN queue
  PROVE  queue[k].client \in Clients /\ queue[k].entry \in Entry
  <1> DEFINE Q == [client : Clients, entry : Entry]
  <1> HIDE DEF Q
  <1>1. queue \in Seq(Q)
    BY DEF TypeOK, Q
  <1>2. queue[k] \in Q
    BY <1>1
  <1> QED
    BY <1>2 DEF Q

\* Nothing happens to it, nor to who is in it.
LEMMA QueueSame ==
  ASSUME TypeOK, QueueInv, queue' = queue, refused \subseteq refused', executed \subseteq executed',
         \A c \in Clients : pc[c] \in {"recording", "updating"} => pc'[c] = pc[c] /\ id'[c] = id[c]
  PROVE  QueueInv'
  BY QueueElements DEF QueueInv, Waits, Fits

\* A client that was not in it joins.
LEMMA QueueJoins ==
  ASSUME TypeOK, QueueInv, NEW c \in Clients, NEW place \in {"recording", "updating"},
         NEW r \in Entry, Queues(c, place, r), pc[c] \notin {"recording", "updating"},
         \A d \in Clients \ {c} : id'[d] = id[d], UNCHANGED <<refused, executed>>,
         r.state # "none", Fits(r, id'[c])
  PROVE  QueueInv'
  <1> DEFINE q == [client |-> c, entry |-> r]
  <1>1. /\ queue' = Append(queue, q) /\ DOMAIN queue' = 1 .. Len(queue) + 1
        /\ \A k \in DOMAIN queue : k \in DOMAIN queue' /\ queue'[k] = queue[k]
        /\ queue'[Len(queue) + 1] = q
        /\ \A k \in DOMAIN queue' : k \in DOMAIN queue \/ k = Len(queue) + 1
    BY DEF Queues, TypeOK
  <1>2. pc'[c] = place /\ \A d \in Clients \ {c} : pc'[d] = pc[d]
    BY DEF Queues, Moves, TypeOK
  <1>3. \A k \in DOMAIN queue : queue[k].client \in Clients \ {c}
    BY QueueElements DEF QueueInv, Waits
  <1>4. (\A k \in DOMAIN queue : Waits(queue[k]))'
    <2> SUFFICES ASSUME NEW k \in DOMAIN queue' PROVE Waits(queue[k])'
      OBVIOUS
    <2>1. CASE k \in DOMAIN queue
      BY <2>1, <1>1, <1>2, <1>3 DEF QueueInv, Waits, Fits, Good
    <2>2. CASE k = Len(queue) + 1
      BY <2>2, <1>1, <1>2 DEF Waits, Fits, Good
    <2> QED
      BY <2>1, <2>2, <1>1
  <1>5. \A k, l \in DOMAIN queue' : queue'[k].client = queue'[l].client => k = l
    BY <1>1, <1>3 DEF QueueInv
  <1> QED
    BY <1>4, <1>5 DEF QueueInv

\* The holder leaves.
LEMMA QueueLeaves ==
  ASSUME TypeOK, QueueInv, queue # <<>>, queue' = Tail(queue), UNCHANGED <<refused, executed>>,
         \A c \in Clients \ {Holder} : pc'[c] = pc[c] /\ id'[c] = id[c]
  PROVE  QueueInv'
  <1>1. /\ DOMAIN queue' = 1 .. Len(queue) - 1 /\ Len(queue) \in Nat /\ DOMAIN queue = 1 .. Len(queue)
        /\ \A k \in DOMAIN queue' : k \in Nat /\ k + 1 \in DOMAIN queue /\ queue'[k] = queue[k + 1]
    BY DEF TypeOK
  <1>2. 1 \in DOMAIN queue /\ Holder = queue[1].client
    BY DEF TypeOK, Holder
  <1>3. \A k \in DOMAIN queue' : queue'[k].client \in Clients \ {Holder} /\ Waits(queue'[k])
    <2> TAKE k \in DOMAIN queue'
    <2>1. k \in Nat /\ k >= 1 /\ k + 1 \in DOMAIN queue /\ k + 1 # 1
      BY <1>1
    <2> QED
      BY <2>1, <1>1, <1>2, QueueElements DEF QueueInv
  <1>4. (\A k \in DOMAIN queue : Waits(queue[k]))'
    <2> SUFFICES ASSUME NEW k \in DOMAIN queue' PROVE Waits(queue[k])'
      OBVIOUS
    <2>1. queue'[k].client \in Clients \ {Holder} /\ Waits(queue'[k])
      BY <1>3
    <2> QED
      BY <2>1 DEF Waits, Fits
  <1>5. \A k, l \in DOMAIN queue' : queue'[k].client = queue'[l].client => k = l
    <2> SUFFICES ASSUME NEW k \in DOMAIN queue', NEW l \in DOMAIN queue',
                        queue'[k].client = queue'[l].client
                 PROVE  k = l
      OBVIOUS
    <2>1. k + 1 = l + 1
      BY <1>1 DEF QueueInv
    <2>2. k \in Nat /\ l \in Nat
      BY <1>1
    <2> QED
      BY <2>1, <2>2
  <1> QED
    BY <1>4, <1>5 DEF QueueInv

\* What the holder does.
LEMMA HolderFacts ==
  ASSUME TypeOK, QueueInv, queue # <<>>
  PROVE  /\ Holder \in Clients /\ pc[Holder] \in {"recording", "updating"} /\ id[Holder] \in Ids
         /\ Head(queue).entry \in Entry /\ Head(queue).entry.state # "none"
         /\ Fits(Head(queue).entry, id[Holder])
  <1>1. 1 \in DOMAIN queue /\ Head(queue) = queue[1]
    BY DEF TypeOK
  <1>2. Waits(Head(queue))
    BY <1>1 DEF QueueInv
  <1> QED
    BY <1>2, HolderType DEF Waits, Holder, TypeOK

LEMMA ReturnsQueue ==
  ASSUME TypeOK, QueueInv, queue # <<>>, NEW r, Returns(r), UNCHANGED <<refused, executed>>
  PROVE  QueueInv' /\ \A c \in Clients \ {Holder} : pc'[c] = pc[c] /\ id'[c] = id[c]
  <1>1. \A c \in Clients \ {Holder} : pc'[c] = pc[c] /\ id'[c] = id[c]
    BY HolderFacts DEF Returns, Turns, Moves, TypeOK
  <1> QED
    BY <1>1, QueueLeaves DEF Returns, Released

LEMMA ThrowsQueue ==
  ASSUME TypeOK, QueueInv, queue # <<>>, Throws, UNCHANGED <<refused, executed>>
  PROVE  QueueInv' /\ \A c \in Clients \ {Holder} : pc'[c] = pc[c] /\ id'[c] = id[c]
  <1>1. \A c \in Clients \ {Holder} : pc'[c] = pc[c] /\ id'[c] = id[c]
    BY HolderFacts DEF Throws, Moves, TypeOK
  <1> QED
    BY <1>1, QueueLeaves DEF Throws, Released

\* QueueInv holds in every step.
LEMMA QueueStep ==
  ASSUME TypeOK, OrderInv, [Next]_vars
  PROVE  QueueInv'
  <1> USE DEF OrderInv
  <1>1. CASE InitReads \/ InitLoads \/ InitFails \/ (\E i \in Ids : Arrive(i)) \/ UNCHANGED vars
    <2>1. UNCHANGED <<pc, id, queue, refused>> /\ executed \subseteq executed'
      BY <1>1 DEF InitReads, InitLoads, InitFails, Arrive, vars, lock, clients, exchange
    <2> QED
      BY <2>1, QueueSame
  <1>2. CASE Reconcile
    <2>1. UNCHANGED <<queue, refused, executed>> /\ pc[Connect] = "idle"
      BY <1>2 DEF Reconcile, lock, exchange
    <2>2. \A c \in Clients \ {Connect} : pc'[c] = pc[c] /\ id'[c] = id[c]
      BY <1>2 DEF Reconcile, Moves, TypeOK
    <2> QED
      BY <2>1, <2>2, QueueSame
  <1>3. CASE Crash
    BY <1>3 DEF Crash, QueueInv
  <1>4. CASE \E c \in Callers : Check(c) \/ AnswerLost(c) \/ Accept(c) \/ Refuse(c) \/ TimeOut(c)
    <2> PICK c \in Callers : Check(c) \/ AnswerLost(c) \/ Accept(c) \/ Refuse(c) \/ TimeOut(c)
      BY <1>4
    <2>1. pc[c] \notin {"recording", "updating"} /\ UNCHANGED <<queue, id>>
          /\ refused \subseteq refused' /\ executed \subseteq executed'
      BY DEF Check, AnswerLost, Accept, Refuse, TimeOut, lock, exchange
    <2>2. \A d \in Clients \ {c} : pc'[d] = pc[d]
      BY DEF Check, AnswerLost, Accept, Refuse, TimeOut, Moves, TypeOK
    <2> QED
      BY <2>1, <2>2, QueueSame
  <1>5. CASE \E c \in Callers : Answered(c)
    <2> PICK c \in Callers : Answered(c)
      BY <1>5
    <2>1. PICK r \in Entry : Update(c, r) /\ r.state # "none" /\ Fits(r, id[c])
      <3>1. CASE pc[c] = "accepted" /\ \E r \in Found : Update(c, r)
        BY <3>1, EntryFacts DEF Found, Fits, Good, SoundInv
      <3>2. CASE pc[c] = "refused" /\ Update(c, Rejection)
        BY <3>2, EntryFacts DEF Rejection, Fits, SoundInv
      <3> QED
        BY <3>1, <3>2 DEF Answered
    <2>2. UNCHANGED <<id, refused, executed>> /\ pc[c] \notin {"recording", "updating"}
      BY DEF Answered, exchange
    <2> QED
      BY <2>1, <2>2, QueueJoins DEF Update, Clients
  <1>6. CASE \E c \in Callers, i \in Ids : Place(c, i)
    <2> PICK c \in Callers, i \in Ids : Place(c, i)
      BY <1>6
    <2>1. \A d \in Clients \ {c} : id'[d] = id[d]
      BY DEF Place, TypeOK
    <2>2. UNCHANGED <<refused, executed>> /\ pc[c] = "idle" /\ Queues(c, "recording", Request)
      BY DEF Place, exchange
    <2>3. Request.state # "none" /\ Good(Request) /\ ~Request.known
      BY DEF Request, Good, Unresolved
    <2> QED
      BY <2>1, <2>2, <2>3, QueueJoins, EntryFacts DEF Clients, Fits
  <1>7. CASE \E c \in Clients : AskFinds(c)
    <2> PICK c \in Clients : AskFinds(c)
      BY <1>7
    <2>1. PICK r \in Found : Update(c, r)
      BY DEF AskFinds
    <2>2. r \in Entry /\ r.state # "none" /\ Fits(r, id[c])
      BY EntryFacts DEF Found, Fits, Good, AskFinds
    <2>3. UNCHANGED <<id, refused, executed>> /\ pc[c] \notin {"recording", "updating"}
      BY DEF AskFinds, exchange
    <2> QED
      BY <2>1, <2>2, <2>3, QueueJoins DEF Update
  <1>8. CASE \E c \in Clients : AskFails(c)
    <2> PICK c \in Clients : AskFails(c)
      BY <1>8
    <2>1. pc[c] = "asking" /\ UNCHANGED <<refused, executed>>
      BY DEF AskFails, exchange
    <2>2. CASE Update(c, Unanswered) /\ UNCHANGED <<id, todo>>
      <3>1. Unanswered.state # "none" /\ Fits(Unanswered, id[c])
        BY DEF Unanswered, Doubt, Fits, Good, Unresolved
      <3> QED
        BY <2>1, <2>2, <3>1, QueueJoins, EntryFacts DEF Update
    <2>3. CASE c = Connect /\ Turns /\ UNCHANGED lock
      <3>1. \A d \in Clients \ {Connect} : pc'[d] = pc[d] /\ id'[d] = id[d]
        BY <2>3 DEF Turns, Moves, TypeOK
      <3> QED
        BY <2>1, <2>3, <3>1, QueueSame DEF lock
    <2> QED
      BY <2>2, <2>3 DEF AskFails
  <1>9. CASE ApplyRecord \/ ApplyUpdate
    <2>1. queue # <<>> /\ UNCHANGED <<refused, executed>>
      BY <1>9 DEF ApplyRecord, ApplyUpdate, exchange
    <2>2. CASE \E r \in Entry : Returns(r)
      BY <2>1, <2>2, ReturnsQueue
    <2>3. CASE Throws
      BY <2>1, <2>3, ThrowsQueue
    <2>4. CASE UNCHANGED <<queue, pc, id, todo>>
      BY <2>1, <2>4, QueueSame
    <2> QED
      BY <1>9, <2>2, <2>3, <2>4, HolderFacts DEF ApplyRecord, ApplyUpdate, TypeOK
  <1>10. CASE WriteTmp
    BY <1>10, QueueSame DEF WriteTmp, clients, exchange
  <1>11. CASE RenameTmp
    BY <1>11, ReturnsQueue DEF RenameTmp, exchange
  <1>12. CASE WriteFails
    BY <1>12, ThrowsQueue DEF WriteFails, AfterFailure, exchange
  <1> QED
    BY <1>1, <1>2, <1>3, <1>4, <1>5, <1>6, <1>7, <1>8, <1>9, <1>10, <1>11, <1>12
       DEF Next, PlacementStep, LockStep

-----------------------------------------------------------------------------
(* The journal *)

JournalInv == /\ SoundInv /\ EarlyInv /\ MapInv /\ TmpInv /\ HeldInv
              /\ AccountInv /\ ListedInv /\ KnownInv

\* A step of a client, or of the exchange, that leaves the journal alone.
LEMMA Quiet ==
  ASSUME TypeOK, OrderInv, UNCHANGED <<journal, phase, image, stage, lacking>>,
         refused \subseteq refused', executed \subseteq executed',
         \A c \in Callers :
           /\ pc'[c] = "refused" => id'[c] \in refused'
           /\ pc'[c] = "accepted" => id'[c] \in executed'
           /\ pc'[c] \in {"checking", "posting"} =>
                pc[c] \in {"checking", "posting"} /\ id'[c] = id[c],
         executed' \cup late' \subseteq executed \cup late \cup Sending,
         stage # "ready" => /\ queue' # <<>> /\ Holder' = Holder
                            /\ pc'[Holder] = pc[Holder] /\ id'[Holder] = id[Holder]
  PROVE  JournalInv'
  <1> USE DEF OrderInv, journal, start, lacking
  <1>1. SoundInv'
    BY DEF SoundInv, Sound, Fits, Good
  <1>2. EarlyInv' /\ MapInv' /\ TmpInv' /\ KnownInv'
    BY DEF EarlyInv, MapInv, TmpInv, KnownInv, Listed, Overseen
  <1>3. HeldInv'
    BY DEF HeldInv, Listed
  <1>4. Sending' \subseteq Sending
    BY DEF Sending
  <1>5. \A i \in Ids : Kept(i)' <=> Kept(i)
    BY DEF Kept, Listed
  <1>6. \A i \in executed' \cup late' \cup Sending' : i \in Overseen \/ Kept(i)
    BY <1>4 DEF AccountInv
  <1>7. AccountInv'
    BY <1>6 DEF AccountInv, Overseen, Kept, Listed
  <1>8. ListedInv'
    BY DEF ListedInv, Kept, Listed
  <1> QED
    BY <1>1, <1>2, <1>3, <1>7, <1>8 DEF JournalInv

\* A client that joins the queue leaves its holder where he is.
LEMMA QueuesHolder ==
  ASSUME TypeOK, OrderInv, NEW c \in Clients, NEW place, NEW r \in Entry, Queues(c, place, r),
         pc[c] \notin {"recording", "updating"}, \A d \in Clients \ {c} : id'[d] = id[d]
  PROVE  /\ stage # "ready" => /\ queue' # <<>> /\ Holder' = Holder
                               /\ pc'[Holder] = pc[Holder] /\ id'[Holder] = id[Holder]
         /\ \A d \in Clients \ {c} : pc'[d] = pc[d]
         /\ pc'[c] = place /\ UNCHANGED stage
  <1>1. /\ \A d \in Clients \ {c} : pc'[d] = pc[d]
        /\ pc'[c] = place /\ UNCHANGED stage
    BY DEF Queues, Moves, TypeOK
  <1>2. CASE queue # <<>>
    <2>1. Head(queue') = Head(queue) /\ queue' # <<>>
      BY <1>2 DEF Queues, TypeOK
    <2>2. Holder \in Clients \ {c}
      BY <1>2, HolderFacts DEF OrderInv
    <2> QED
      BY <1>1, <2>1, <2>2 DEF Holder
  <1>3. CASE queue = <<>>
    BY <1>1, <1>3 DEF OrderInv, HeldInv
  <1> QED
    BY <1>1, <1>2, <1>3

LEMMA QuietSteps ==
  ASSUME TypeOK, OrderInv,
         \/ Reconcile \/ UNCHANGED vars
         \/ \E c \in Callers : PlacementStep(c)
         \/ \E c \in Clients : AskFinds(c) \/ AskFails(c)
         \/ \E i \in Ids : Arrive(i)
  PROVE  JournalInv'
  <1> USE DEF OrderInv
  <1>0. /\ \A c \in Callers : /\ pc[c] = "refused" => id[c] \in refused
                              /\ pc[c] = "accepted" => id[c] \in executed
        /\ stage # "ready" => /\ queue # <<>> /\ Holder \in Clients
                              /\ pc[Holder] \in {"recording", "updating"}
    BY HolderFacts DEF SoundInv, HeldInv
  <1>1. CASE UNCHANGED vars \/ \E i \in Ids : Arrive(i)
    <2>1. UNCHANGED <<journal, phase, image, stage, lacking, refused, pc, id, queue>>
      BY <1>1 DEF start, vars, lock, clients, exchange, Arrive
    <2>2. executed' \cup late' \subseteq executed \cup late /\ executed \subseteq executed'
      BY <1>1 DEF vars, exchange, Arrive
    <2>3. Holder' = Holder
      BY <2>1 DEF Holder
    <2> QED
      BY <1>0, <2>1, <2>2, <2>3, Quiet
  <1>2. CASE Reconcile
    <2>1. UNCHANGED <<journal, phase, image, stage, lacking, refused, queue, executed, late>> /\ pc[Connect] = "idle"
      BY <1>2 DEF Reconcile, lock, exchange
    <2>2. \A d \in Clients \ {Connect} : pc'[d] = pc[d] /\ id'[d] = id[d]
      BY <1>2 DEF Reconcile, Moves, TypeOK
    <2>3. Holder' = Holder /\ Callers \subseteq Clients \ {Connect}
      BY <2>1, OrderConstants DEF Holder, Clients
    <2> QED
      BY <1>0, <2>1, <2>2, <2>3, Quiet
  <1>3. CASE \E c \in Callers : Check(c) \/ AnswerLost(c) \/ Accept(c) \/ Refuse(c) \/ TimeOut(c)
    <2> PICK c \in Callers : Check(c) \/ AnswerLost(c) \/ Accept(c) \/ Refuse(c) \/ TimeOut(c)
      BY <1>3
    <2>1. /\ pc[c] \notin {"recording", "updating"} /\ UNCHANGED <<queue, stage, id>>
          /\ refused \subseteq refused' /\ executed \subseteq executed'
          /\ UNCHANGED <<journal, phase, image, lacking>>
      BY DEF start, Check, AnswerLost, Accept, Refuse, TimeOut, lock, exchange
    <2>2. \A d \in Clients \ {c} : pc'[d] = pc[d]
      BY DEF Check, AnswerLost, Accept, Refuse, TimeOut, Moves, TypeOK
    <2>3. /\ pc'[c] = "refused" => id[c] \in refused'
          /\ pc'[c] = "accepted" => id[c] \in executed'
          /\ pc'[c] \in {"checking", "posting"} => pc[c] \in {"checking", "posting"}
      BY DEF Check, AnswerLost, Accept, Refuse, TimeOut, Moves, TypeOK, Clients
    <2>4. executed' \cup late' \subseteq executed \cup late \cup Sending
      BY DEF Check, AnswerLost, Accept, Refuse, TimeOut, exchange, Sending
    <2>5. Holder' = Holder /\ Callers \subseteq Clients
      BY <2>1 DEF Holder, Clients
    <2> QED
      BY <1>0, <2>1, <2>2, <2>3, <2>4, <2>5, Quiet
  <1>4. CASE \E c \in Callers : Answered(c)
    <2> PICK c \in Callers : Answered(c)
      BY <1>4
    <2>1. PICK r \in Entry : Update(c, r)
      BY EntryFacts DEF Answered
    <2>2. /\ pc[c] \notin {"recording", "updating"} /\ c \in Clients
          /\ UNCHANGED <<journal, phase, image, id, executed, late, refused, lacking>>
      BY DEF start, Answered, exchange, Clients
    <2> QED
      BY <1>0, <2>1, <2>2, QueuesHolder, Quiet DEF Update, Clients
  <1>5. CASE \E c \in Callers, i \in Ids : Place(c, i)
    <2> PICK c \in Callers, i \in Ids : Place(c, i)
      BY <1>5
    <2>1. /\ pc[c] = "idle" /\ c \in Clients /\ Queues(c, "recording", Request)
          /\ UNCHANGED <<journal, phase, image, executed, late, refused, lacking>>
      BY DEF start, Place, exchange, Clients
    <2>2. \A d \in Clients \ {c} : id'[d] = id[d]
      BY DEF Place, TypeOK
    <2> QED
      BY <1>0, <2>1, <2>2, EntryFacts, QueuesHolder, Quiet DEF Clients
  <1>6. CASE \E c \in Clients : AskFinds(c)
    <2> PICK c \in Clients : AskFinds(c)
      BY <1>6
    <2>1. PICK r \in Entry : Update(c, r)
      BY EntryFacts DEF AskFinds
    <2>2. /\ pc[c] \notin {"recording", "updating"}
          /\ UNCHANGED <<journal, phase, image, id, executed, late, refused, lacking>>
      BY DEF start, AskFinds, exchange
    <2> QED
      BY <1>0, <2>1, <2>2, QueuesHolder, Quiet DEF Update, Clients
  <1>7. CASE \E c \in Clients : AskFails(c)
    <2> PICK c \in Clients : AskFails(c)
      BY <1>7
    <2>1. pc[c] = "asking" /\ UNCHANGED <<journal, phase, image, executed, late, refused, lacking>>
      BY DEF start, AskFails, exchange
    <2>2. CASE Update(c, Unanswered) /\ UNCHANGED <<id, todo>>
      BY <1>0, <2>1, <2>2, EntryFacts, QueuesHolder, Quiet DEF Update, Clients
    <2>3. CASE c = Connect /\ Turns /\ UNCHANGED lock
      <3>1. \A d \in Clients \ {Connect} : pc'[d] = pc[d] /\ id'[d] = id[d]
        BY <2>3 DEF Turns, Moves, TypeOK
      <3>2. Holder' = Holder /\ Callers \subseteq Clients \ {Connect} /\ UNCHANGED <<queue, stage>>
        BY <2>3, OrderConstants DEF Holder, Clients, lock
      <3> QED
        BY <1>0, <2>1, <2>3, <3>1, <3>2, Quiet
    <2> QED
      BY <2>2, <2>3 DEF AskFails
  <1> QED
    BY <1>1, <1>2, <1>3, <1>4, <1>5, <1>6, <1>7 DEF PlacementStep

\* The start of the journal, before which the map is empty or overlooks the file.
LEMMA InitSteps ==
  ASSUME TypeOK, OrderInv, InitReads \/ InitLoads \/ InitFails
  PROVE  JournalInv'
  <1> USE DEF OrderInv, journal, lock, clients, exchange, lacking
  <1>0. UNCHANGED <<file, tmp, stage, queue, pc, id, refused, unsaved, executed, late, Sending>>
    BY DEF InitReads, InitLoads, InitFails, Sending
  <1>1. CASE InitReads
    <2>1. /\ phase = "reading" /\ phase' = "read" /\ image' = file /\ UNCHANGED <<orders, overlooked>>
      BY <1>1 DEF InitReads
    <2>2. SoundInv' /\ HeldInv'
      BY <1>0, <2>1 DEF SoundInv, Sound, Fits, HeldInv, Holder, Listed
    <2>3. EarlyInv' /\ MapInv' /\ TmpInv' /\ KnownInv'
      BY <1>0, <2>1 DEF EarlyInv, MapInv, TmpInv, KnownInv, Listed, Overseen
    <2>4. AccountInv' /\ ListedInv'
      BY <1>0, <2>1 DEF AccountInv, ListedInv, Kept, Overseen, Listed
    <2> QED
      BY <2>2, <2>3, <2>4 DEF JournalInv
  <1>2. CASE InitFails
    <2>1. /\ phase = "reading" /\ phase' = "loaded" /\ UNCHANGED <<orders, image>>
          /\ overlooked' = overlooked \cup Listed(file)
      BY <1>2 DEF InitFails
    <2>2. SoundInv' /\ HeldInv' /\ EarlyInv'
      BY <1>0, <2>1 DEF SoundInv, Sound, Fits, HeldInv, EarlyInv, Holder, Listed
    <2>3. Listed(orders) \subseteq overlooked /\ stage = "rename" => Listed(tmp) \subseteq overlooked
      BY <2>1 DEF EarlyInv, TmpInv
    <2>4. MapInv'
      BY <1>0, <2>1 DEF EarlyInv, MapInv, Listed, Overseen
    <2>5. TmpInv'
      BY <1>0, <2>1 DEF TmpInv, Listed
    <2>6. KnownInv'
      BY <1>0, <2>1 DEF KnownInv, SoundInv, Sound, Listed
    <2>7. AccountInv' /\ ListedInv'
      BY <1>0, <2>1 DEF AccountInv, ListedInv, Kept, Overseen, Listed
    <2> QED
      BY <2>2, <2>4, <2>5, <2>6, <2>7 DEF JournalInv
  <1>3. CASE InitLoads
    <2>1. /\ phase = "read" /\ phase' = "loaded" /\ UNCHANGED overlooked /\ image' = Nothing
          /\ orders' = IF image = Nothing THEN orders ELSE image
      BY <1>3 DEF InitLoads
    <2>2. SoundInv'
      BY <1>0, <2>1 DEF SoundInv, Sound, Fits, Nothing, Absent
    <2>3. EarlyInv'
      BY <2>1 DEF EarlyInv
    <2>4. /\ Listed(orders) \subseteq overlooked
          /\ Listed(image) \subseteq Listed(file) \cup overlooked
          /\ stage # "ready" => Listed(image) \subseteq overlooked
      BY <2>1 DEF EarlyInv
    <2>5. \A i \in Listed(orders') : i \in overlooked \/ (stage = "ready" /\ i \in Listed(file))
      BY <2>1, <2>4
    <2>6. MapInv'
      BY <1>0, <2>1, <2>5 DEF MapInv, Overseen, Listed
    <2>7. stage = "rename" => Listed(tmp) \subseteq overlooked
      BY <2>1 DEF TmpInv
    <2>8. TmpInv'
      BY <1>0, <2>1, <2>7 DEF TmpInv, Listed
    <2>9. HeldInv'
      BY <1>0, <2>1, <2>4 DEF HeldInv, Holder, Listed
    <2>10. KnownInv'
      BY <1>0, <2>1 DEF KnownInv, Nothing, Absent
    <2>11. \A i \in Ids : i \in Listed(image) => image # Nothing
      BY DEF Listed, Nothing, Absent
    <2>12. AccountInv' /\ ListedInv'
      BY <1>0, <2>1, <2>11 DEF AccountInv, ListedInv, Kept, Overseen, Listed
    <2> QED
      BY <2>2, <2>3, <2>6, <2>8, <2>9, <2>10, <2>12 DEF JournalInv
  <1> QED
    BY <1>1, <1>2, <1>3

LEMMA CrashStep ==
  ASSUME TypeOK, OrderInv, Crash
  PROVE  JournalInv'
  <1> USE DEF OrderInv
  <1>1. /\ orders' = Nothing /\ phase' = "reading" /\ image' = Nothing /\ stage' = "ready"
        /\ pc' = [c \in Clients |-> "idle"] /\ Callers \subseteq Clients
        /\ UNCHANGED <<file, tmp, id, executed, refused, overlooked, unsaved>>
    BY DEF Crash, lacking, Clients
  <1>2. Listed(orders)' = {} /\ Listed(image)' = {}
    BY <1>1 DEF Listed, Nothing, Absent
  <1>3. SoundInv'
    BY <1>1 DEF SoundInv, Sound, Fits, Nothing, Absent, Good
  <1>4. EarlyInv' /\ MapInv' /\ TmpInv' /\ HeldInv'
    BY <1>1, <1>2 DEF EarlyInv, MapInv, TmpInv, HeldInv
  <1>5. KnownInv' /\ ListedInv'
    BY <1>1 DEF KnownInv, ListedInv, Kept, Listed
  <1>6. Sending' = {} /\ executed' \cup late' \subseteq executed \cup late \cup Sending
    BY <1>1 DEF Sending, Posting, Crash
  <1>7. AccountInv'
    BY <1>1, <1>6 DEF AccountInv, Kept, Overseen, Listed
  <1> QED
    BY <1>3, <1>4, <1>5, <1>7 DEF JournalInv

-----------------------------------------------------------------------------
(* The lock *)

\* Who may send after the holder's operation: he, if he recorded.
LEMMA ReturnsPlaces ==
  ASSUME TypeOK, OrderInv, queue # <<>>, NEW r, Returns(r) \/ Throws
  PROVE  \A c \in Callers :
           /\ pc'[c] \in {"accepted", "refused"} => pc'[c] = pc[c] /\ id'[c] = id[c]
           /\ pc'[c] \in {"checking", "posting"} =>
                /\ id'[c] = id[c]
                /\ pc[c] \in {"checking", "posting"} \/ (c = Holder /\ pc[c] = "recording")
  <1> SUFFICES ASSUME NEW c \in Callers
               PROVE  /\ pc'[c] \in {"accepted", "refused"} => pc'[c] = pc[c] /\ id'[c] = id[c]
                      /\ pc'[c] \in {"checking", "posting"} =>
                           /\ id'[c] = id[c]
                           /\ pc[c] \in {"checking", "posting"} \/ (c = Holder /\ pc[c] = "recording")
    OBVIOUS
  <1>1. c # Connect /\ c \in Clients /\ Holder \in Clients /\ Connect \in Clients
    BY OrderConstants, HolderFacts DEF Clients, OrderInv
  <1>2. CASE Throws
    BY <1>1, <1>2 DEF Throws, Moves, TypeOK
  <1>3. CASE Returns(r) /\ pc[Holder] = "recording"
    BY <1>1, <1>3 DEF Returns, Moves, TypeOK, Recorded
  <1>4. CASE Returns(r) /\ pc[Holder] = "updating"
    BY <1>1, <1>4 DEF Returns, Moves, TypeOK, Turns
  <1> QED
    BY <1>2, <1>3, <1>4, HolderFacts DEF OrderInv

\* An operation that leaves the journal as it is, and releases the lock.
LEMMA ReleaseStep ==
  ASSUME TypeOK, OrderInv, queue # <<>>, NEW r, Returns(r) \/ Throws,
         UNCHANGED <<journal, phase, image, exchange, overlooked>>,
         \/ unsaved' = unsaved /\ stage = "ready"
         \/ unsaved' = unsaved \cup (Listed(orders) \ Listed(file)) /\ Throws,
         Returns(r) /\ pc[Holder] = "recording" => stage = "ready" /\ id[Holder] \in Listed(orders)
  PROVE  JournalInv'
  <1> USE DEF OrderInv, journal, start, exchange
  <1>1. stage' = "ready" /\ unsaved \subseteq unsaved'
    BY DEF Returns, Throws, Released
  <1>2. SoundInv'
    BY ReturnsPlaces DEF SoundInv, Sound, Fits, Good
  <1>3. EarlyInv' /\ TmpInv' /\ HeldInv' /\ KnownInv'
    BY <1>1 DEF EarlyInv, TmpInv, HeldInv, KnownInv, Listed
  <1>4. MapInv'
    BY <1>1 DEF MapInv, Listed, Overseen
  <1>5. \A i \in Ids : Kept(i) => Kept(i)'
    BY <1>1 DEF Kept, Listed
  <1>6. ASSUME NEW i \in Sending', i \notin Sending PROVE i \in (Overseen)' \/ Kept(i)'
    <2>1. PICK c \in Callers : pc'[c] \in {"checking", "posting"} /\ i = id'[c]
      BY <1>6 DEF Sending
    <2>2. c = Holder /\ pc[Holder] = "recording" /\ i = id[Holder] /\ i \in Ids
      BY <1>6, <2>1, ReturnsPlaces, HolderFacts DEF Sending
    <2>3. ~Throws
      BY <2>1, <2>2, HolderFacts DEF Throws, Moves, TypeOK
    <2>4. stage = "ready" /\ i \in Listed(orders) /\ unsaved' = unsaved
      BY <2>2, <2>3
    <2>5. i \in Overseen \/ (phase = "loaded" /\ i \in Listed(file))
      BY <2>4 DEF MapInv
    <2> QED
      BY <1>1, <2>4, <2>5 DEF Kept, Overseen, Listed
  <1>7. executed \cup late \cup Sending \subseteq Ids
    BY DEF Sending, TypeOK, Clients
  <1>8. AccountInv'
    BY <1>1, <1>5, <1>6, <1>7 DEF AccountInv, Overseen
  <1>9. ListedInv'
    BY <1>5 DEF ListedInv, Listed
  <1> QED
    BY <1>2, <1>3, <1>4, <1>8, <1>9 DEF JournalInv

\* The holder changes the map and goes on to write it.
LEMMA ChangeStep ==
  ASSUME TypeOK, OrderInv, queue # <<>>, stage = "ready", stage' = "write",
         NEW i \in Ids, i = id[Holder], NEW r \in Entry, orders' = [orders EXCEPT ![i] = r],
         r.state # "none", Fits(r, i), orders[i].known => r.known,
         UNCHANGED <<file, tmp, phase, image, queue, pc, id, exchange, unsaved>>,
         \/ orders[i].state # "none" /\ UNCHANGED overlooked
         \/ phase = "loaded" /\ UNCHANGED overlooked
         \/ phase # "loaded" /\ overlooked' = overlooked \cup {i} \cup Listed(file)
  PROVE  JournalInv'
  <1> USE DEF OrderInv, start, exchange
  <1>1. Listed(orders)' = Listed(orders) \cup {i} /\ overlooked \subseteq overlooked'
    BY DEF Listed, TypeOK
  <1>2. SoundInv'
    BY DEF SoundInv, Sound, Fits, Good, TypeOK
  <1>3. EarlyInv'
    <2> SUFFICES ASSUME phase # "loaded" PROVE EarlyInv'
      BY DEF EarlyInv
    <2>1. CASE orders[i].state # "none" /\ UNCHANGED overlooked
      <3>1. i \in Listed(orders)
        BY <2>1 DEF Listed
      <3> QED
        BY <1>1, <2>1, <3>1 DEF EarlyInv, Listed
    <2>2. CASE overlooked' = overlooked \cup {i} \cup Listed(file)
      <3>1. phase = "reading" => Listed(image) = {}
        BY DEF EarlyInv, Listed, Nothing, Absent
      <3>2. phase \in {"reading", "read"}
        BY DEF TypeOK
      <3>3. Listed(image) \subseteq overlooked'
        BY <2>2, <3>1, <3>2 DEF EarlyInv
      <3> QED
        BY <1>1, <2>2, <3>3 DEF EarlyInv, Listed
    <2> QED
      BY <2>1, <2>2
  <1>4. MapInv'
    <2> SUFFICES ASSUME NEW j \in Listed(orders)', j \notin (Overseen)' PROVE phase = "loaded"
      BY DEF MapInv
    <2> QED
      BY <1>1 DEF MapInv, Overseen, Listed
  <1>5. TmpInv'
    BY DEF TmpInv
  <1>6. HeldInv'
    BY <1>1 DEF HeldInv, Holder
  <1>7. KnownInv'
    BY <1>1 DEF KnownInv, TypeOK
  <1>8. Sending' = Sending
    BY DEF Sending
  <1>9. AccountInv' /\ ListedInv'
    BY <1>1, <1>8 DEF AccountInv, ListedInv, Kept, Overseen, Listed
  <1> QED
    BY <1>2, <1>3, <1>4, <1>5, <1>6, <1>7, <1>9 DEF JournalInv

LEMMA ApplySteps ==
  ASSUME TypeOK, OrderInv, ApplyRecord \/ ApplyUpdate
  PROVE  JournalInv'
  <1> USE DEF OrderInv
  <1> DEFINE i == id[Holder]  entry == Head(queue).entry
  <1>1. queue # <<>> /\ stage = "ready" /\ UNCHANGED <<file, tmp, phase, image, exchange, unsaved>>
    BY DEF ApplyRecord, ApplyUpdate, lacking, start
  <1>2. i \in Ids /\ entry \in Entry
    BY <1>1, HolderFacts
  <1>3. CASE ApplyRecord
    <2>1. CASE orders[i].state # "none" /\ Returns(orders[i]) /\ UNCHANGED <<orders, overlooked>>
      <3>1. i \in Listed(orders)
        BY <1>2, <2>1 DEF Listed
      <3> QED
        BY <1>1, <2>1, <3>1, ReleaseStep DEF journal
    <2>2. CASE /\ orders[i].state = "none" /\ stage' = "write"
               /\ orders' = [orders EXCEPT ![i] = entry]
               /\ overlooked' = IF phase = "loaded" THEN overlooked
                                ELSE overlooked \cup {i} \cup Listed(file)
               /\ UNCHANGED <<queue, pc, id, todo>>
      <3>1. ~orders[i].known
        BY <1>2, <2>2 DEF SoundInv, Sound
      <3>2. entry.state # "none" /\ Fits(entry, i)
        BY <1>1, HolderFacts
      <3> HIDE DEF i, entry
      <3>3. i = id[Holder]
        BY DEF i
      <3> QED
        BY <1>1, <1>2, <2>2, <3>1, <3>2, <3>3, ChangeStep
    <2> QED
      BY <1>3, <2>1, <2>2 DEF ApplyRecord
  <1>4. CASE ApplyUpdate
    <2>0. UNCHANGED overlooked
      BY <1>4 DEF ApplyUpdate, lacking
    <2>1. CASE Throws /\ UNCHANGED orders
      <3>1. ~Returns(Absent) \/ pc[Holder] # "recording"
        BY <1>4 DEF ApplyUpdate
      <3> QED
        BY <1>1, <2>0, <2>1, <3>1, ReleaseStep DEF journal
    <2>2. CASE /\ orders[i].state # "none" /\ stage' = "write"
               /\ orders' = [orders EXCEPT ![i] = Merged(orders[i], entry)]
               /\ UNCHANGED <<queue, pc, id, todo>>
      <3>1. orders[i] \in Entry
        BY <1>2 DEF TypeOK
      <3> DEFINE r == Merged(orders[i], entry)
      <3>2. r \in Entry
        BY <1>2, <3>1, EntryFacts
      <3>3. /\ r.state = entry.state
            /\ r.known <=> orders[i].known \/ entry.known
        BY DEF Merged
      <3>4. entry.state # "none" /\ Fits(entry, i) /\ (orders[i].known => i \in executed)
        BY <1>1, <1>2, HolderFacts DEF SoundInv, Sound, Fits
      <3>5. r.state # "none" /\ Fits(r, i) /\ (orders[i].known => r.known)
        BY <3>3, <3>4 DEF Fits, Good
      <3> HIDE DEF i, entry, r
      <3>6. i = id[Holder] /\ orders' = [orders EXCEPT ![i] = r]
        BY <2>2 DEF i, r
      <3> QED
        BY <1>1, <1>2, <2>0, <2>2, <3>2, <3>5, <3>6, ChangeStep
    <2> QED
      BY <1>4, <2>1, <2>2 DEF ApplyUpdate
  <1> QED
    BY <1>3, <1>4

LEMMA WriteStep ==
  ASSUME TypeOK, OrderInv, WriteTmp
  PROVE  JournalInv'
  <1> USE DEF OrderInv, start, clients, exchange, lacking
  <1>1. /\ queue # <<>> /\ stage = "write" /\ stage' = "rename" /\ tmp' = orders
        /\ UNCHANGED <<orders, file, start, queue, clients, exchange, lacking>>
    BY DEF WriteTmp
  <1>2. SoundInv' /\ EarlyInv' /\ MapInv'
    BY <1>1 DEF SoundInv, Sound, Fits, EarlyInv, MapInv, Listed, Overseen
  <1>3. TmpInv'
    BY <1>1 DEF TmpInv, EarlyInv, Listed
  <1>4. HeldInv'
    BY <1>1 DEF HeldInv, Holder, Listed
  <1>5. phase # "loaded" => Listed(file) \subseteq overlooked
    BY <1>1 DEF EarlyInv
  <1>6. KnownInv'
    BY <1>1, <1>5 DEF KnownInv, SoundInv, Sound, Listed
  <1>7. Sending' = Sending
    BY <1>1 DEF Sending
  <1>8. AccountInv' /\ ListedInv'
    BY <1>1, <1>5, <1>7 DEF AccountInv, ListedInv, Kept, Overseen, Listed
  <1> QED
    BY <1>2, <1>3, <1>4, <1>6, <1>8 DEF JournalInv

\* The file is replaced: it lists what it listed, unless that was overlooked.
LEMMA RenameStep ==
  ASSUME TypeOK, OrderInv, RenameTmp
  PROVE  JournalInv' /\ \A i \in Ids : file[i].known => file'[i].known \/ i \in overlooked'
  <1> USE DEF OrderInv, start, exchange
  <1>1. /\ queue # <<>> /\ stage = "rename" /\ Returns(Request) /\ file' = tmp /\ tmp' = Nothing
        /\ unsaved' = unsaved \ Listed(tmp)
        /\ UNCHANGED <<orders, phase, image, executed, late, refused, overlooked>>
    BY DEF RenameTmp
  <1>2. stage' = "ready"
    BY <1>1 DEF Returns, Released
  <1>3. \A i \in Listed(tmp) \ overlooked : phase = "loaded" /\ tmp[i] = orders[i] /\ i \in Listed(orders)
    BY <1>1 DEF TmpInv, Listed
  <1>4. SoundInv'
    BY <1>1, ReturnsPlaces DEF SoundInv, Sound, Fits, Nothing, Absent, Good
  <1>5. EarlyInv'
    BY <1>1, <1>2, <1>3 DEF EarlyInv, Listed
  <1>6. MapInv'
    <2> SUFFICES ASSUME NEW i \in Listed(orders), i \notin (Overseen)'
                 PROVE  phase = "loaded" /\ i \in Listed(tmp)
      BY <1>1, <1>2 DEF MapInv, Listed
    <2>1. i \notin overlooked /\ i \notin unsaved \ Listed(tmp)
      BY <1>1 DEF Overseen
    <2>2. i \in Listed(tmp)
      BY <1>1, <2>1 DEF MapInv, Overseen
    <2> QED
      BY <1>3, <2>1, <2>2
  <1>7. TmpInv' /\ HeldInv'
    BY <1>2 DEF TmpInv, HeldInv
  <1>8. KnownInv'
    <2> SUFFICES ASSUME NEW i \in Ids \ overlooked, tmp[i].known
                 PROVE  phase = "loaded" /\ orders[i].known
      BY <1>1, <1>2 DEF KnownInv
    <2>1. i \in Listed(tmp)
      BY DEF SoundInv, Sound, Listed
    <2> QED
      BY <1>3, <2>1
  <1>9. \A i \in Ids : Kept(i) => Kept(i)'
    BY <1>1, <1>2 DEF Kept, Listed
  <1>10. \A i \in Listed(tmp) \ overlooked : Kept(i)'
    BY <1>1, <1>2, <1>3 DEF Kept, Listed
  <1>11. ASSUME NEW i \in Sending', i \notin Sending PROVE i \in overlooked \cup Listed(tmp)
    <2>1. PICK c \in Callers : pc'[c] \in {"checking", "posting"} /\ i = id'[c]
      BY <1>11 DEF Sending
    <2>2. c = Holder /\ pc[Holder] = "recording" /\ i = id[Holder]
      BY <1>1, <1>11, <2>1, ReturnsPlaces DEF Sending
    <2> QED
      BY <1>1, <2>2 DEF HeldInv
  <1>12. executed \cup late \cup Sending \subseteq Ids
    BY DEF Sending, TypeOK, Clients
  <1>13. AccountInv'
    <2> SUFFICES ASSUME NEW i \in (executed \cup late \cup Sending)'
                 PROVE  i \in (Overseen)' \/ Kept(i)'
      BY DEF AccountInv
    <2>1. CASE i \in overlooked
      BY <1>1, <2>1 DEF Overseen
    <2>2. CASE i \in Listed(tmp) \ overlooked
      BY <1>10, <2>2
    <2>3. CASE i \notin overlooked \cup Listed(tmp)
      <3>1. i \in executed \cup late \cup Sending
        BY <1>1, <1>11, <2>3
      <3> QED
        BY <1>1, <1>9, <1>12, <2>3, <3>1 DEF AccountInv, Overseen
    <2> QED
      BY <2>1, <2>2, <2>3
  <1>14. \A i \in Ids : file[i].known => file'[i].known \/ i \in overlooked'
    BY <1>1 DEF KnownInv
  <1>15. ListedInv'
    BY <1>1, <1>10 DEF ListedInv, Listed
  <1> QED
    BY <1>4, <1>5, <1>6, <1>7, <1>8, <1>13, <1>14, <1>15 DEF JournalInv

LEMMA FailStep ==
  ASSUME TypeOK, OrderInv, WriteFails
  PROVE  JournalInv'
  <1>1. /\ queue # <<>> /\ Throws /\ UNCHANGED <<journal, phase, image, exchange, overlooked>>
        /\ unsaved' = unsaved \cup (Listed(orders) \ Listed(file))
        /\ stage # "ready"
    BY DEF WriteFails, AfterFailure, start
  <1>2. ~(Returns(Absent) /\ pc[Holder] = "recording")
    <2>1. Holder \in Clients
      BY <1>1, HolderFacts DEF OrderInv
    <2> QED
      BY <1>1, <2>1 DEF Returns, Throws, Moves, Recorded, TypeOK
  <1> QED
    BY <1>1, <1>2, ReleaseStep

-----------------------------------------------------------------------------
(* The theorems *)

LEMMA Step ==
  ASSUME TypeOK, OrderInv, [Next]_vars
  PROVE  TypeOK' /\ OrderInv' /\ \A i \in Ids : file[i].known => file'[i].known \/ i \in overlooked'
  <1>1. JournalInv'
    BY QuietSteps, InitSteps, CrashStep, ApplySteps, WriteStep, RenameStep, FailStep
       DEF Next, LockStep
  <1>2. ~RenameTmp => UNCHANGED file
    BY DEF Next, LockStep, PlacementStep, vars, journal, InitReads, InitLoads, InitFails, Reconcile,
           Crash, Check, Answered, AnswerLost, Accept, Refuse, TimeOut, Place, AskFinds, AskFails,
           Arrive, ApplyRecord, ApplyUpdate, WriteTmp, WriteFails
  <1>3. \A i \in Ids : file[i].known => file'[i].known \/ i \in overlooked'
    BY <1>2, RenameStep
  <1> QED
    BY <1>1, <1>3, TypeStep, QueueStep DEF JournalInv, OrderInv

LEMMA Start == Init => TypeOK /\ OrderInv
  <1> SUFFICES ASSUME Init PROVE OrderInv
    BY InitialTypes
  <1>1. Listed(orders) = {} /\ Listed(file) = {} /\ Listed(tmp) = {} /\ Listed(image) = {}
    BY DEF Init, Listed, Nothing, Absent
  <1>2. QueueInv
    BY DEF Init, QueueInv
  <1>3. SoundInv
    BY DEF Init, SoundInv, Sound, Fits, Nothing, Absent, Clients
  <1>4. EarlyInv /\ MapInv /\ TmpInv /\ HeldInv /\ KnownInv
    BY <1>1 DEF Init, EarlyInv, MapInv, TmpInv, HeldInv, KnownInv, Nothing, Absent
  <1>5. Sending = {}
    BY DEF Init, Sending, Clients
  <1>6. AccountInv /\ ListedInv
    BY <1>1, <1>5 DEF Init, AccountInv, ListedInv
  <1> QED
    BY <1>2, <1>3, <1>4, <1>6 DEF OrderInv

\* An order the exchange executed is in the journal, named or unresolved, for
\* any number of placements, lost answers, failed writes and restarts
\* (recordOrderRequested before the POST in placeVstOrderIdempotently).
THEOREM ExecutedAccountedHolds == Spec => []ExecutedAccounted
  <1>1. TypeOK /\ OrderInv => ExecutedAccounted
    BY DEF OrderInv, AccountInv, Kept, SoundInv, Sound, Fits, Listed, ExecutedAccounted, TypeOK
  <1> QED
    BY <1>1, Start, Step, PTL DEF Spec

\* The file keeps every exchangeOrderId it named (updateOrderState spreads the
\* patch over the entry; persist replaces the file by a rename).
THEOREM KnownStaysHolds == Spec => KnownStays
  <1>1. TypeOK /\ OrderInv /\ [Next]_vars
          => [\A i \in Ids : file[i].known => file'[i].known \/ i \in overlooked']_vars
    BY Step
  <1> QED
    BY <1>1, Start, Step, PTL DEF Spec, KnownStays
-----------------------------------------------------------------------------
(* The journal is a write-ahead log.                                         *)

Out    == late \cup Posting
Logged == <<Listed(file), Named, Out, executed, overlooked, unsaved>>

\* The requests under way when one client moves.
LEMMA PostingMoves ==
  ASSUME NEW c, \A d \in Callers \ {c} : pc'[d] = pc[d] /\ id'[d] = id[d]
  PROVE  /\ Posting' \subseteq Posting \cup {id'[c]}
         /\ Posting \subseteq Posting' \cup {id[c]}
         /\ pc'[c] # "posting" => Posting' \subseteq Posting
         /\ pc[c] # "posting" => Posting \subseteq Posting'
  BY DEF Posting

\* What a step of the exchange, or the answer of the holder, does to the log.
LEMMA LogSends ==
  ASSUME UNCHANGED <<file, executed, overlooked, unsaved>>,
         \/ Out' = Out
         \/ \E i \in Listed(file) \cup Overseen : Out' = Out \cup {i}
         \/ \E i \in Out : Out' = Out \ {i}
  PROVE  [Log!Next]_Logged
  <1>1. UNCHANGED <<Listed(file), Named>>
    BY DEF Listed, Named
  <1> QED
    BY <1>1 DEF Log!Next, Log!Send, Log!Sends, Log!End, Logged, Out, Overseen

\* A client that is not sending stays so, or goes on to send what is listed.
LEMMA LogClient ==
  ASSUME TypeOK, AccountInv', NEW c \in Clients,
         \A d \in Clients \ {c} : pc'[d] = pc[d] /\ id'[d] = id[d],
         pc[c] # "posting",
         UNCHANGED <<file, late, executed, overlooked, unsaved>>
  PROVE  [Log!Next]_Logged
  <1>1. \A d \in Callers \ {c} : pc'[d] = pc[d] /\ id'[d] = id[d]
    BY DEF Clients
  <1>2. CASE pc'[c] # "posting" \/ c \notin Callers
    <2>1. Posting' = Posting
      BY <1>1, <1>2 DEF Posting
    <2> QED
      BY <2>1, LogSends DEF Out
  <1>3. CASE pc'[c] = "posting" /\ c \in Callers
    <2>1. id'[c] \in Sending'
      BY <1>3 DEF Sending
    <2>2. id'[c] \in Listed(file) \cup Overseen
      BY <2>1 DEF AccountInv, Kept, Listed, Overseen
    <2>3. id'[c] \in Posting'
      BY <1>3 DEF Posting
    <2>4. Posting' = Posting \cup {id'[c]}
      BY <1>1, <2>3, PostingMoves
    <2> QED
      BY <2>2, <2>4, LogSends DEF Out
  <1> QED
    BY <1>2, <1>3

\* Requests are sent, answered, given up and forgotten.
LEMMA LogExchange ==
  ASSUME TypeOK, OrderInv,
         \/ Crash
         \/ \E i \in Ids : Arrive(i)
         \/ \E c \in Callers : Accept(c) \/ Refuse(c) \/ TimeOut(c)
  PROVE  [Log!Next]_Logged
  <1>0. UNCHANGED <<Listed(file), Named, overlooked, unsaved>> /\ UNCHANGED file
    BY DEF Crash, Arrive, Accept, Refuse, TimeOut, journal, lacking, Listed, Named
  <1>1. CASE Crash
    <2>1. Posting' = {} /\ late' = late \cup Posting /\ UNCHANGED executed
      BY <1>1 DEF Crash, Posting, Clients
    <2> QED
      BY <1>0, <2>1, LogSends DEF Out
  <1>2. CASE \E i \in Ids : Arrive(i)
    <2> PICK i \in Ids : Arrive(i)
      BY <1>2
    <2>1. /\ i \in Out /\ Out' \in {Out, Out \ {i}}
          /\ executed' \in {executed, executed \cup {i}}
      BY DEF Arrive, clients, Posting, Out
    <2>2. CASE executed' = executed
      BY <1>0, <2>1, <2>2, LogSends
    <2>3. CASE executed' = executed \cup {i}
      BY <1>0, <2>1, <2>3 DEF Log!Next, Log!Execute, Out
    <2> QED
      BY <2>1, <2>2, <2>3
  <1>3. ASSUME NEW c \in Callers, Accept(c) \/ Refuse(c) \/ TimeOut(c)
        PROVE  [Log!Next]_Logged
    <2>1. /\ pc[c] = "posting" /\ pc'[c] # "posting" /\ id' = id
          /\ \A d \in Callers \ {c} : pc'[d] = pc[d]
      BY <1>3 DEF Accept, Refuse, TimeOut, Moves, TypeOK, Clients
    <2>2. id[c] \in Posting /\ Posting' \subseteq Posting /\ Posting \subseteq Posting' \cup {id[c]}
      BY <2>1, PostingMoves DEF Posting
    <2>3. CASE TimeOut(c)
      <3>1. late' = late \cup {id[c]} /\ UNCHANGED executed
        BY <2>3 DEF TimeOut
      <3> QED
        BY <1>0, <2>2, <3>1, LogSends DEF Out
    <2>4. CASE Refuse(c) \/ Accept(c)
      <3>1. UNCHANGED late /\ id[c] \in Out /\ Out' \in {Out, Out \ {id[c]}}
        BY <2>2, <2>4 DEF Refuse, Accept, Out
      <3>2. CASE Refuse(c)
        BY <1>0, <3>1, <3>2, LogSends DEF Refuse
      <3>3. CASE Accept(c)
        BY <1>0, <3>1, <3>3 DEF Accept, Log!Next, Log!Execute, Out
      <3> QED
        BY <2>4, <3>2, <3>3
    <2> QED
      BY <1>3, <2>3, <2>4
  <1> QED
    BY <1>1, <1>2, <1>3

\* Everything else a client does outside of the lock, and the start.
LEMMA LogQuiet ==
  ASSUME TypeOK, OrderInv, AccountInv',
         \/ InitReads \/ InitLoads \/ InitFails \/ Reconcile \/ UNCHANGED vars
         \/ \E c \in Callers : Check(c) \/ Answered(c) \/ AnswerLost(c) \/ \E i \in Ids : Place(c, i)
         \/ \E c \in Clients : AskFinds(c) \/ AskFails(c)
  PROVE  [Log!Next]_Logged
  <1>1. CASE InitReads \/ InitLoads \/ UNCHANGED vars
    <2>1. UNCHANGED <<file, executed, late, overlooked, unsaved, Posting>>
      BY <1>1 DEF InitReads, InitLoads, vars, journal, clients, exchange, lacking, Posting
    <2> QED
      BY <2>1, LogSends DEF Out
  <1>2. CASE InitFails
    <2>1. UNCHANGED <<Listed(file), Named, executed, Out, unsaved>> /\ overlooked \subseteq overlooked'
      BY <1>2 DEF InitFails, journal, clients, exchange, Posting, Listed, Named, Out
    <2> QED
      BY <2>1 DEF Log!Next, Log!Overlook, Out
  <1>3. CASE Reconcile
    <2>1. pc[Connect] = "idle" /\ UNCHANGED <<file, late, executed, overlooked, unsaved>>
      BY <1>3 DEF Reconcile, journal, exchange, lacking
    <2>2. /\ \A d \in Clients \ {Connect} : pc'[d] = pc[d] /\ id'[d] = id[d]
          /\ Connect \in Clients /\ pc'[Connect] # "posting"
      BY <1>3 DEF Reconcile, Moves, TypeOK, Clients
    <2> QED
      BY <2>1, <2>2, LogClient
  <1>4. ASSUME NEW c \in Callers,
               Check(c) \/ Answered(c) \/ AnswerLost(c) \/ \E i \in Ids : Place(c, i)
        PROVE  [Log!Next]_Logged
    <2>1. pc[c] # "posting" /\ UNCHANGED <<file, late, executed, overlooked, unsaved>> /\ c \in Clients
      BY <1>4 DEF Check, Answered, AnswerLost, Place, journal, exchange, lacking, Clients
    <2>2. \A d \in Clients \ {c} : pc'[d] = pc[d] /\ id'[d] = id[d]
      BY <1>4 DEF Check, Answered, AnswerLost, Place, Update, Queues, Moves, TypeOK
    <2> QED
      BY <1>4, <2>1, <2>2, LogClient
  <1>5. ASSUME NEW c \in Clients, AskFinds(c) \/ AskFails(c)
        PROVE  [Log!Next]_Logged
    <2>1. pc[c] # "posting" /\ UNCHANGED <<file, late, executed, overlooked, unsaved>>
      BY <1>5 DEF AskFinds, AskFails, journal, exchange, lacking
    <2>2. pc'[c] # "posting" /\ \A d \in Clients \ {c} : pc'[d] = pc[d] /\ id'[d] = id[d]
      BY <1>5 DEF AskFinds, AskFails, Update, Queues, Turns, Moves, TypeOK
    <2> QED
      BY <2>1, <2>2, LogClient
  <1> QED
    BY <1>1, <1>2, <1>3, <1>4, <1>5

\* The holder moves on.
LEMMA LogHolder ==
  ASSUME TypeOK, OrderInv, queue # <<>>, NEW r, Returns(r) \/ Throws, UNCHANGED <<refused, executed>>
  PROVE  /\ Holder \in Clients /\ pc[Holder] # "posting"
         /\ \A d \in Clients \ {Holder} : pc'[d] = pc[d] /\ id'[d] = id[d]
  BY HolderFacts, ReturnsQueue, ThrowsQueue DEF OrderInv

\* A step under the lock that leaves the file alone.
LEMMA LogLocked ==
  ASSUME TypeOK, OrderInv, AccountInv', ApplyRecord \/ ApplyUpdate \/ WriteTmp \/ WriteFails
  PROVE  [Log!Next]_Logged
  <1>1. queue # <<>> /\ UNCHANGED <<file, late, executed, refused>>
    BY DEF ApplyRecord, ApplyUpdate, WriteTmp, WriteFails, journal, exchange
  <1>2. CASE UNCHANGED <<overlooked, unsaved>> /\ (Throws \/ \E r : Returns(r))
    BY <1>1, <1>2, LogHolder, LogClient
  <1>3. CASE UNCHANGED <<pc, id>>
    <2>1. UNCHANGED <<Posting, Listed(file), Named, Out>>
      BY <1>1, <1>3 DEF Posting, Out, Listed, Named
    <2>2. (UNCHANGED unsaved /\ overlooked \subseteq overlooked') \/ WriteFails
      BY DEF ApplyRecord, ApplyUpdate, WriteTmp, lacking
    <2>3. ~WriteFails
      <3> SUFFICES ASSUME WriteFails PROVE FALSE
        OBVIOUS
      <3>1. Throws
        BY DEF WriteFails, AfterFailure
      <3> QED
        BY <1>1, <1>3, <3>1, HolderFacts DEF Throws, Moves, TypeOK, OrderInv
    <2> QED
      BY <1>1, <2>1, <2>2, <2>3 DEF Log!Next, Log!Overlook, Out
  <1>4. CASE WriteFails
    <2>1. /\ Throws /\ UNCHANGED overlooked
          /\ unsaved' = unsaved \cup (Listed(orders) \ Listed(file))
      BY <1>4 DEF WriteFails, AfterFailure
    <2>2. pc'[Holder] = "idle"
      BY <1>1, <2>1, LogHolder DEF Throws, Moves, TypeOK
    <2>3. Posting' = Posting
      BY <1>1, <2>1, <2>2, LogHolder, PostingMoves DEF Clients
    <2>4. UNCHANGED <<Listed(file), Named, Out>>
      BY <1>1, <2>3 DEF Listed, Named, Out
    <2> QED
      BY <1>1, <2>1, <2>4 DEF Log!Next, Log!FailWrite, Out
  <1> QED
    BY <1>2, <1>3, <1>4 DEF ApplyRecord, ApplyUpdate, WriteTmp, clients, lacking

\* The file is replaced.
LEMMA LogRename ==
  ASSUME TypeOK, OrderInv, AccountInv', RenameTmp
  PROVE  [Log!Next]_Logged
  <1>1. /\ queue # <<>> /\ stage = "rename" /\ Returns(Request) /\ file' = tmp
        /\ unsaved' = unsaved \ Listed(tmp)
        /\ UNCHANGED <<late, executed, refused, overlooked>>
    BY DEF RenameTmp, exchange
  <1>2. Listed(file)' = Listed(tmp) /\ Named' = {i \in Ids : tmp[i].known}
    BY <1>1 DEF Listed, Named
  <1>3. Listed(file) \subseteq Listed(file)' \cup overlooked
    BY <1>1, <1>2 DEF OrderInv, ListedInv, Kept
  <1>4. Named \subseteq Named' \cup overlooked
    BY <1>1, <1>2 DEF OrderInv, KnownInv, Named
  <1>5. Named' \subseteq Listed(file)' \cap executed
    BY <1>2 DEF OrderInv, SoundInv, Sound, Fits, Listed
  <1>6. Out' = Out \/ \E i \in Listed(file)' \cup overlooked \cup unsaved : Out' = Out \cup {i}
    <2>1. \A d \in Callers \ {Holder} : pc'[d] = pc[d] /\ id'[d] = id[d]
      BY <1>1, LogHolder DEF Clients
    <2>2. Posting \subseteq Posting'
      BY <1>1, <2>1, LogHolder, PostingMoves
    <2>3. CASE pc'[Holder] # "posting" \/ Holder \notin Callers
      BY <1>1, <2>1, <2>2, <2>3 DEF Out, Posting
    <2>4. CASE pc'[Holder] = "posting" /\ Holder \in Callers
      <3>1. id'[Holder] \in Posting' /\ id'[Holder] \in Sending'
        BY <2>4 DEF Posting, Sending
      <3>2. Posting' = Posting \cup {id'[Holder]}
        BY <2>1, <2>2, <3>1, PostingMoves
      <3>3. id'[Holder] \in Listed(file)' \cup overlooked \cup unsaved
        BY <1>1, <3>1 DEF AccountInv, Kept, Overseen
      <3> QED
        BY <1>1, <3>2, <3>3 DEF Out
    <2> QED
      BY <2>3, <2>4
  <1> QED
    BY <1>1, <1>2, <1>3, <1>4, <1>5, <1>6 DEF Log!Next, Log!Replace, Log!Sends, Out

\* What the journal shows its callers and a restart is that of a write-ahead log,
\* for any number of placements, lost answers, failed writes and restarts.
THEOREM WritesAheadHolds == Spec => WritesAhead
  <1>1. Init => Log!Init
    BY DEF Init, Log!Init, Listed, Named, Posting, Nothing, Absent, Clients
  <1>2. TypeOK /\ OrderInv /\ [Next]_vars => [Log!Next]_Logged
    <2> SUFFICES ASSUME TypeOK, OrderInv, [Next]_vars PROVE [Log!Next]_Logged
      OBVIOUS
    <2>1. AccountInv'
      BY Step DEF OrderInv
    <2> QED
      BY <2>1, LogQuiet, LogExchange, LogLocked, LogRename DEF Next, PlacementStep, LockStep
  <1> QED
    BY <1>1, <1>2, Start, Step, PTL DEF Spec, WritesAhead, Log!Spec, Logged, Out

-----------------------------------------------------------------------------
(* What the exemptions stand for: a journal that the routes await, and whose *)
(* file can be read and written, needs none.                                 *)

Awaited == queue # <<>> => phase = "loaded"
Intact  == ~InitFails /\ ~WriteFails

AllAccounted ==
  \A i \in executed \ refused : Good(file[i]) /\ (phase = "loaded" => Good(orders[i]))
KnownForGood == [][\A i \in Ids : file[i].known => file'[i].known]_vars

NoneOverseen == overlooked = {} /\ unsaved = {}

LEMMA NothingOverseen ==
  ASSUME NoneOverseen, Awaited, [Next]_vars, [Intact]_vars
  PROVE  NoneOverseen'
  <1> USE DEF NoneOverseen
  <1>1. CASE ApplyRecord
    BY <1>1 DEF ApplyRecord, Awaited
  <1>2. CASE RenameTmp
    BY <1>2 DEF RenameTmp
  <1>3. ~ApplyRecord /\ ~RenameTmp => UNCHANGED lacking
    BY DEF Next, LockStep, PlacementStep, vars, Intact, InitReads, InitLoads, InitFails, Reconcile,
           Crash, Check, Answered, AnswerLost, Accept, Refuse, TimeOut, Place, AskFinds, AskFails,
           Arrive, ApplyUpdate, WriteTmp, WriteFails
  <1> QED
    BY <1>1, <1>2, <1>3 DEF lacking

\* If recordOrderRequested and updateOrderState waited for initVstOrderJournal,
\* lost answers, requests given up and crashes alone would lose no executed
\* order and no exchangeOrderId, unless an order of its name was refused as well.
THEOREM AwaitedJournalKeepsAll ==
  Spec /\ []Awaited /\ [][Intact]_vars => []AllAccounted /\ KnownForGood
  <1>1. Init => NoneOverseen
    BY DEF Init, NoneOverseen
  <1>2. NoneOverseen /\ Awaited /\ [Next]_vars /\ [Intact]_vars => NoneOverseen'
    BY NothingOverseen
  <1>3. TypeOK /\ OrderInv /\ NoneOverseen => AllAccounted
    BY DEF NoneOverseen, OrderInv, AccountInv, Overseen, Kept, SoundInv, Sound, Fits, Listed, AllAccounted, TypeOK
  <1>4. /\ TypeOK /\ OrderInv /\ NoneOverseen
        /\ Awaited /\ [Next]_vars /\ [Intact]_vars
        => [\A i \in Ids : file[i].known => file'[i].known]_vars
    BY NothingOverseen, Step DEF NoneOverseen
  <1> QED
    BY <1>1, <1>2, <1>3, <1>4, Start, Step, PTL DEF Spec, KnownForGood
=============================================================================
