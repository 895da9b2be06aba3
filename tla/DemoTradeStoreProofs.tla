------------------------ MODULE DemoTradeStoreProofs ------------------------
(***************************************************************************)
(* Theorems about the demo trade ledger, for every value of its constants. *)
(***************************************************************************)
EXTENDS DemoTradeStore, SequenceTheorems, TLAPS

-----------------------------------------------------------------------------
(* What the lock guarantees. *)

\* Only the head of the queue is under way; a process that is down holds
\* nothing; a queued close names a trade that was open when it was asked for;
\* the holder has already changed the maps.
LockInv ==
  /\ stage # "ready" => up /\ queue # <<>>
  /\ ~up => queue = <<>> /\ openTrades = {} /\ archiver = "idle"
  /\ stage = "append" => Head(queue).op = "close"
  /\ \A i \in DOMAIN queue : queue[i].op = "close" =>
       queue[i].trade \in closing /\ queue[i].trade \in openTrades \cup closedIds
  /\ stage # "ready" /\ Head(queue).op = "persist" =>
       openByOrder[Head(queue).order] \in openTrades
  /\ stage # "ready" /\ Head(queue).op = "close" =>
       Head(queue).trade \in closedIds /\ Head(queue).trade \notin openTrades

\* Facts about a sequence, in the form the steps below use.
SeqFacts(q, S) ==
  /\ DOMAIN q = 1 .. Len(q) /\ Len(q) \in Nat
  /\ \A i \in DOMAIN q : q[i] \in S
  /\ q # <<>> => /\ 1 \in DOMAIN q /\ Head(q) = q[1] /\ Head(q) \in S
                 /\ Tail(q) \in Seq(S)
                 /\ \A i \in DOMAIN Tail(q) :
                      i + 1 \in DOMAIN q /\ Tail(q)[i] = q[i + 1]
  /\ \A e \in S :
       /\ Append(q, e) \in Seq(S) /\ Append(q, e) # <<>>
       /\ DOMAIN Append(q, e) = 1 .. Len(q) + 1
       /\ Append(q, e)[Len(q) + 1] = e
       /\ \A i \in DOMAIN q : Append(q, e)[i] = q[i]
       /\ q # <<>> => Head(Append(q, e)) = Head(q)

LEMMA QueueFacts == ASSUME NEW S, NEW q \in Seq(S) PROVE SeqFacts(q, S)
<1>1. DOMAIN q = 1 .. Len(q) /\ Len(q) \in Nat
  BY LenProperties
<1>2. \A i \in DOMAIN q : q[i] \in S
  BY <1>1, ElementOfSeq
<1>3. ASSUME q # <<>>
      PROVE  /\ 1 \in DOMAIN q /\ Head(q) = q[1] /\ Head(q) \in S
             /\ Tail(q) \in Seq(S)
             /\ \A i \in DOMAIN Tail(q) : i + 1 \in DOMAIN q /\ Tail(q)[i] = q[i + 1]
  <2>1. Len(q) \in Nat \ {0}
    BY <1>3, EmptySeq
  <2>2. Head(q) \in S /\ Tail(q) \in Seq(S) /\ Len(Tail(q)) = Len(q) - 1
        /\ \A i \in 1 .. Len(Tail(q)) : Tail(q)[i] = q[i + 1]
    BY <1>3, HeadTailProperties
  <2>3. DOMAIN Tail(q) = 1 .. Len(q) - 1
    BY <2>2, LenProperties
  <2> QED
    BY <1>1, <2>1, <2>2, <2>3
<1>4. ASSUME NEW e \in S
      PROVE  /\ Append(q, e) \in Seq(S) /\ Append(q, e) # <<>>
             /\ DOMAIN Append(q, e) = 1 .. Len(q) + 1
             /\ Append(q, e)[Len(q) + 1] = e
             /\ \A i \in DOMAIN q : Append(q, e)[i] = q[i]
             /\ q # <<>> => Head(Append(q, e)) = Head(q)
  <2>1. /\ Append(q, e) \in Seq(S) /\ Append(q, e) # <<>>
        /\ Len(Append(q, e)) = Len(q) + 1
        /\ \A i \in 1 .. Len(q) : Append(q, e)[i] = q[i]
        /\ Append(q, e)[Len(q) + 1] = e
    BY AppendProperties
  <2>2. DOMAIN Append(q, e) = 1 .. Len(q) + 1
    BY <2>1, LenProperties
  <2>3. q # <<>> => Head(Append(q, e)) = Head(q)
    BY HeadTailAppend
  <2> QED
    BY <1>1, <2>1, <2>2, <2>3
<1> QED
  BY <1>1, <1>2, <1>3, <1>4 DEF SeqFacts

-----------------------------------------------------------------------------
(* Types.  TypeOK is inductive together with what the lock guarantees: the  *)
(* holder pops the queue, which is typed only if it is not empty.            *)

TypeInv == TypeOK /\ LockInv

LEMMA TypeInvInit == Init => TypeInv
<1> SUFFICES ASSUME Init PROVE TypeInv
  OBVIOUS
<1>1. <<>> \in Seq(Call) /\ <<>> \in Seq(Nat) /\ <<>> \in Seq(Entry)
  BY EmptySeq
<1>2. DOMAIN queue = {}
  BY <1>1, EmptySeq, LenProperties DEF Init
<1>3. TypeOK
  <2>1. info \in Seq(Entry) /\ closedFile \in Seq(Nat) /\ archived \in Seq(Nat)
        /\ queue \in Seq(Call)
    BY <1>1 DEF Init
  <2>2. openByOrder \in [Orders -> Nat]
    BY DEF Init, None
  <2>3. campaigns \in [Keys -> [id : Nat, last : Nat]]
    BY DEF Init, NoCampaign, None
  <2>4. openTrades \subseteq Trades /\ closedIds \subseteq Trades
        /\ closedCache \subseteq Trades /\ planned \subseteq PersistOp
        /\ openFile \subseteq Trades /\ tmpFile \subseteq Trades
        /\ missing \subseteq Trades /\ cut \subseteq Trades
        /\ acked \subseteq Trades /\ closing \subseteq Trades /\ ackedClosed \subseteq Trades
    BY DEF Init
  <2>5. nextCampaign \in Ids /\ now \in Nat /\ crashes \in Nat /\ failures \in Nat
    BY DEF Init, Ids
  <2>6. up \in BOOLEAN /\ tornTail \in BOOLEAN /\ dir \subseteq {"open", "tmp"}
        /\ stage \in {"ready", "write", "rename", "append"}
        /\ archiver \in {"idle", "rename", "truncate"}
    BY DEF Init
  <2> QED
    BY <2>1, <2>2, <2>3, <2>4, <2>5, <2>6 DEF TypeOK
<1>4. LockInv
  BY <1>2 DEF Init, LockInv
<1> QED
  BY <1>3, <1>4 DEF TypeInv

LEMMA TypeInvStep == TypeInv /\ [Next]_vars => TypeInv'
<1> SUFFICES ASSUME TypeOK, LockInv, [Next]_vars PROVE TypeOK' /\ LockInv'
  BY DEF TypeInv
<1> USE DEF None, index, lock, openFiles, closedFiles, fresh, bounds, history
<1>q. SeqFacts(queue, Call) /\ SeqFacts(info, Entry) /\ SeqFacts(closedFile, Nat)
  BY QueueFacts DEF TypeOK
<1>e. <<>> \in Seq(Call) /\ <<>> \in Seq(Nat) /\ DOMAIN << >> = {}
  BY EmptySeq, LenProperties
<1>t. DOMAIN info = 1 .. Len(info) /\ Len(info) \in Nat /\ 0 \notin DOMAIN info
      /\ DOMAIN info \subseteq Nat
  BY <1>q DEF SeqFacts
<1>h. ASSUME queue # <<>>
      PROVE  /\ Head(queue) \in Call
             /\ Head(queue).op = "close" => /\ Head(queue).trade \in closing
                                            /\ Head(queue).trade \in DOMAIN info
  <2>1. 1 \in DOMAIN queue /\ Head(queue) = queue[1] /\ Head(queue) \in Call
    BY <1>q, <1>h DEF SeqFacts
  <2>2. Head(queue).op = "close" => Head(queue).trade \in closing
    BY <2>1 DEF LockInv
  <2>3. closing \subseteq DOMAIN info
    BY DEF TypeOK, Trades
  <2> QED
    BY <2>1, <2>2, <2>3
<1>r. ASSUME Release, queue # <<>>
      PROVE  /\ queue' \in Seq(Call) /\ stage' = "ready"
             /\ \A i \in DOMAIN queue' : i + 1 \in DOMAIN queue /\ queue'[i] = queue[i + 1]
  BY <1>q, <1>r DEF SeqFacts, Release
<1>a. \A n \in Nat : Append(closedFile, n) \in Seq(Nat)
  BY <1>q DEF SeqFacts
<1>c. ASSUME NEW k \in Keys, NEW at \in Nat
      PROVE  /\ CampaignAt(k, at) \in Nat \ {0}
             /\ Draw(CampaignAt(k, at)) => nextCampaign' \in Nat \ {0}
  BY DEF CampaignAt, Draw, TypeOK, Ids
<1>1. CASE UNCHANGED vars
  BY <1>1 DEF vars, TypeOK, LockInv, Trades
<1>2. ASSUME NEW o \in Orders, NEW k \in Keys, PlanEntry(o, k)
      PROVE  TypeOK' /\ LockInv'
  <2>1. [op |-> "persist", order |-> o, key |-> k, campaign |-> CampaignAt(k, now),
         at |-> now] \in PersistOp
    BY <1>c DEF PersistOp, TypeOK
  <2>2. nextCampaign' \in Ids
    BY <1>2, <1>c DEF PlanEntry, Ids, TypeOK
  <2> QED
    BY <1>2, <2>1, <2>2 DEF PlanEntry, TypeOK, LockInv, Trades
<1>3. ASSUME NEW k \in Keys, ResolveCampaign(k) PROVE TypeOK' /\ LockInv'
  <2>1. nextCampaign' \in Ids /\ campaigns' \in [Keys -> [id : Nat, last : Nat]]
    BY <1>3, <1>c DEF ResolveCampaign, Ids, TypeOK
  <2> QED
    BY <1>3, <2>1 DEF ResolveCampaign, TypeOK, LockInv, Trades
<1>n. ASSUME NEW c \in Call, Enqueue(c), stage' = stage, up,
             openByOrder' = openByOrder, openTrades' = openTrades,
             closedIds' = closedIds, closing \subseteq closing',
             up' = up, archiver' = archiver,
             c.op = "close" => c.trade \in closing' /\ c.trade \in openTrades
      PROVE  queue' \in Seq(Call) /\ LockInv'
  <2>1. /\ queue' \in Seq(Call) /\ queue' # <<>>
        /\ DOMAIN queue' = 1 .. Len(queue) + 1 /\ queue'[Len(queue) + 1] = c
        /\ \A i \in DOMAIN queue : queue'[i] = queue[i]
        /\ queue # <<>> => Head(queue') = Head(queue)
    BY <1>q, <1>n DEF SeqFacts, Enqueue
  <2>2. \A i \in DOMAIN queue' : i \in DOMAIN queue \/ i = Len(queue) + 1
    BY <2>1, <1>q DEF SeqFacts
  <2> QED
    BY <1>n, <2>1, <2>2 DEF LockInv
<1>4. ASSUME NEW p \in PersistOp, PersistCall(p) PROVE TypeOK' /\ LockInv'
  <2>1. p \in Call /\ p.op # "close"
    BY DEF Call, PersistOp
  <2>2. queue' \in Seq(Call) /\ LockInv'
    BY <1>4, <1>n, <2>1 DEF PersistCall
  <2> QED
    BY <1>4, <2>2 DEF PersistCall, TypeOK, Trades
<1>5. ASSUME NEW t \in Trades, CloseCall(t) PROVE TypeOK' /\ LockInv'
  <2>1. t \in Ids
    BY <1>t DEF Trades, Ids
  <2>2. [op |-> "close", trade |-> t] \in Call
    BY <2>1 DEF Call, CloseOp
  <2>3. queue' \in Seq(Call) /\ LockInv'
    BY <1>5, <1>n, <2>2 DEF CloseCall
  <2> QED
    BY <1>5, <2>3 DEF CloseCall, TypeOK, Trades
<1>6. ASSUME NEW t \in Trades, MfeCall(t) PROVE TypeOK' /\ LockInv'
  <2>1. [op |-> "mfe"] \in Call
    BY DEF Call, MfeOp
  <2>2. queue' \in Seq(Call) /\ LockInv'
    BY <1>6, <1>n, <2>1 DEF MfeCall
  <2> QED
    BY <1>6, <2>2 DEF MfeCall, TypeOK, Trades
<1>7. CASE PersistDuplicate
  <2>1. Head(queue) \in PersistOp
    BY <1>7, <1>h DEF PersistDuplicate, Holds, Call, CloseOp, MfeOp
  <2>2. Head(queue).key \in Keys /\ Head(queue).at \in Nat
    BY <2>1 DEF PersistOp
  <2>3. nextCampaign' \in Ids /\ campaigns' \in [Keys -> [id : Nat, last : Nat]]
    <3>1. CASE Head(queue).campaign # None
      BY <1>7, <3>1 DEF PersistDuplicate, TypeOK
    <3>2. CASE Head(queue).campaign = None
      <4>1. CampaignAt(Head(queue).key, Head(queue).at) \in Nat
            /\ nextCampaign' \in Nat \ {0}
        BY <1>7, <1>c, <2>2, <3>2 DEF PersistDuplicate
      <4>2. campaigns' = [campaigns EXCEPT ![Head(queue).key] =
               [id |-> CampaignAt(Head(queue).key, Head(queue).at),
                last |-> Head(queue).at]]
        BY <1>7, <3>2 DEF PersistDuplicate
      <4> QED
        BY <4>1, <4>2, <2>2 DEF TypeOK, Ids
    <3> QED
      BY <3>1, <3>2
  <2>4. TypeOK'
    BY <1>7, <1>r, <2>3 DEF PersistDuplicate, Holds, TypeOK, Trades
  <2>5. LockInv'
    BY <1>7, <1>r DEF PersistDuplicate, Holds, LockInv
  <2> QED
    BY <2>4, <2>5
<1>8. CASE PersistNew
  <2> DEFINE p == Head(queue)
             c == IF p.campaign # None THEN p.campaign ELSE CampaignAt(p.key, p.at)
             e == [order |-> p.order, key |-> p.key, campaign |-> c, at |-> p.at]
             t == Len(info) + 1
  <2>1. p \in PersistOp
    BY <1>8, <1>h DEF PersistNew, Holds, Call, CloseOp, MfeOp
  <2>2. p.key \in Keys /\ p.at \in Nat /\ p.order \in Orders /\ p.campaign \in Nat
    BY <2>1 DEF PersistOp
  <2>3. c \in Nat \ {0} /\ e \in Entry
    BY <2>2, <1>c DEF Entry, Ids
  <2>4. nextCampaign' \in Ids
    BY <1>8, <2>3 DEF PersistNew, Draw, TypeOK, Ids
  <2>5. info' = Append(info, e) /\ t \in Nat
    BY <1>8, <1>t DEF PersistNew
  <2>6. info' \in Seq(Entry) /\ DOMAIN info' = 1 .. t
    BY <2>3, <2>5, <1>q DEF SeqFacts
  <2>7. DOMAIN info \subseteq DOMAIN info' /\ t \in DOMAIN info' /\ t \notin DOMAIN info
    BY <2>6, <1>t
  <2>8. campaigns' \in [Keys -> [id : Nat, last : Nat]]
    BY <1>8, <2>2, <2>3 DEF PersistNew, TypeOK
  <2>9. openByOrder' = [openByOrder EXCEPT ![p.order] = t]
        /\ openTrades' = openTrades \cup {t}
    BY <1>8 DEF PersistNew
  <2>10. openByOrder' \in [Orders -> Nat] /\ openByOrder'[p.order] = t
    BY <2>2, <2>5, <2>9 DEF TypeOK
  <2>11. TypeOK'
    BY <1>8, <2>4, <2>6, <2>7, <2>8, <2>9, <2>10 DEF PersistNew, TypeOK, Trades
  <2>12. LockInv'
    BY <1>8, <2>1, <2>9, <2>10 DEF PersistNew, Holds, LockInv, PersistOp
  <2> QED
    BY <2>11, <2>12
<1>9. CASE CloseDuplicate
  <2>1. TypeOK'
    BY <1>9, <1>r DEF CloseDuplicate, Holds, TypeOK, Trades
  <2>2. LockInv'
    BY <1>9, <1>r DEF CloseDuplicate, Holds, LockInv
  <2> QED
    BY <2>1, <2>2
<1>10. CASE CloseNew
  <2> DEFINE t == Head(queue).trade
  <2>1. t \in DOMAIN info
    BY <1>10, <1>h DEF CloseNew, Holds
  <2>2. info[t].order \in Orders
    BY <2>1, <1>q DEF SeqFacts, Entry
  <2>3. openByOrder' \in [Orders -> Nat]
    BY <1>10, <2>2 DEF CloseNew, TypeOK
  <2>4. closedCache' \subseteq closedCache \cup {t}
    BY <1>10 DEF CloseNew, Evicted
  <2>5. TypeOK'
    BY <1>10, <2>1, <2>3, <2>4 DEF CloseNew, TypeOK, Trades
  <2>6. LockInv'
    BY <1>10 DEF CloseNew, Holds, LockInv
  <2> QED
    BY <2>5, <2>6
<1>11. CASE RunMfe
  BY <1>11, <1>h DEF RunMfe, Holds, TypeOK, LockInv, Trades
<1>12. CASE WriteTmp
  BY <1>12 DEF WriteTmp, TypeOK, LockInv, Trades
<1>13. CASE RenameTmp
  <2>1. queue # <<>> /\ up
    BY <1>13 DEF RenameTmp, LockInv
  <2>2. Head(queue).op = "persist" => openByOrder[Head(queue).order] \in openTrades
    BY <1>13 DEF RenameTmp, LockInv
  <2>3. acked' \subseteq Trades
    BY <1>13, <2>2 DEF RenameTmp, TypeOK
  <2>4. CASE Head(queue).op = "close"
    <3>1. TypeOK'
      BY <1>13, <2>3, <2>4 DEF RenameTmp, TypeOK, Trades
    <3>2. LockInv'
      BY <1>13, <2>4 DEF RenameTmp, LockInv
    <3> QED
      BY <3>1, <3>2
  <2>5. CASE Head(queue).op # "close"
    <3>1. TypeOK'
      BY <1>13, <1>r, <2>1, <2>3, <2>5 DEF RenameTmp, TypeOK, Trades
    <3>2. LockInv'
      BY <1>13, <1>r, <2>1, <2>5 DEF RenameTmp, LockInv
    <3> QED
      BY <3>1, <3>2
  <2> QED
    BY <2>4, <2>5
<1>14. CASE AppendClosed
  <2>1. queue # <<>> /\ up /\ Head(queue).trade \in DOMAIN info
    BY <1>14, <1>h DEF AppendClosed, LockInv
  <2>2. closedFile' \in Seq(Nat) /\ ackedClosed' \subseteq Trades
    BY <1>14, <1>a, <1>t, <2>1 DEF AppendClosed, TypeOK, Trades
  <2>3. TypeOK'
    BY <1>14, <1>r, <2>1, <2>2 DEF AppendClosed, TypeOK, Trades
  <2>4. LockInv'
    BY <1>14, <1>r, <2>1 DEF AppendClosed, LockInv
  <2> QED
    BY <2>3, <2>4
<1>f. ASSUME Interrupted
      PROVE  /\ dir' \subseteq {"open", "tmp"} /\ openFile' \subseteq Trades
             /\ tmpFile' \subseteq Trades /\ missing' \subseteq Trades
             /\ cut' \subseteq Trades /\ closedFile' \in Seq(Nat)
             /\ tornTail' \in BOOLEAN /\ archived' \in Seq(Nat)
  BY <1>f, <1>a DEF Interrupted, TypeOK, Torn
<1>15. CASE IOFails
  <2>1. queue # <<>> /\ up
    BY <1>15 DEF IOFails, LockInv
  <2>2. TypeOK'
    BY <1>15, <1>r, <1>f, <2>1 DEF IOFails, TypeOK, Trades
  <2>3. LockInv'
    BY <1>15, <1>r, <2>1 DEF IOFails, LockInv
  <2> QED
    BY <2>2, <2>3
<1>16. CASE Crash
  <2>1. openByOrder' \in [Orders -> Nat] /\ campaigns' \in [Keys -> [id : Nat, last : Nat]]
    BY <1>16 DEF Crash, NoCampaign
  <2>2. TypeOK'
    <3>1. queue' \in Seq(Call) /\ crashes' \in Nat
      BY <1>16, <1>e DEF Crash, TypeOK
    <3>2. Trades' = Trades
      BY <1>16 DEF Crash, Trades
    <3>3. Interrupted
      BY <1>16 DEF Crash
    <3>4. openTrades' = {} /\ closedIds' = {} /\ closedCache' = {} /\ planned' = {}
          /\ up' \in BOOLEAN /\ stage' = "ready" /\ archiver' = "idle"
      BY <1>16 DEF Crash
    <3>5. UNCHANGED <<info, nextCampaign, now, failures, acked, closing, ackedClosed>>
      BY <1>16 DEF Crash
    <3> QED
      BY <1>f, <2>1, <3>1, <3>2, <3>3, <3>4, <3>5 DEF TypeOK
  <2>3. LockInv'
    BY <1>16, <1>e DEF Crash, LockInv
  <2> QED
    BY <2>2, <2>3
<1>17. CASE Recover
  <2>1. /\ dir' \subseteq {"open", "tmp"} /\ openFile' \subseteq Trades
        /\ tmpFile' \subseteq Trades /\ failures' \in Nat
        /\ missing' \subseteq Trades /\ cut' \subseteq Trades
    <3>1. /\ dir' = dir \/ dir' = {"open"}
          /\ openFile' = openFile \/ openFile' = tmpFile
          /\ tmpFile' = tmpFile \/ tmpFile' = {}
          /\ missing' = missing \/ missing' = {}
          /\ cut' = cut \/ cut' = cut \cup missing
          /\ failures' = failures \/ failures' = failures + 1
      BY <1>17 DEF Recover, SettleTmp
    <3>2. dir' \subseteq {"open", "tmp"}
      BY <3>1 DEF TypeOK
    <3> QED
      BY <3>1, <3>2 DEF TypeOK
  <2>2. openByOrder' \in [Orders -> Nat]
    <3> SUFFICES ASSUME NEW o \in Orders
                 PROVE  (IF \E t \in openFile' : info[t].order = o
                           THEN CHOOSE t \in openFile' : info[t].order = o
                           ELSE None) \in Nat
      BY <1>17 DEF Recover
    <3> QED
      BY <2>1, <1>t DEF Trades
  <2>3. campaigns' \in [Keys -> [id : Nat, last : Nat]]
    <3> DEFINE L(k) == Latest(k, openFile')
               T(k) == CHOOSE t \in L(k) : TRUE
               C(k) == IF L(k) = {} THEN NoCampaign
                       ELSE [id |-> info[T(k)].campaign, last |-> info[T(k)].at]
    <3>1. campaigns' = [k \in Keys |-> C(k)]
      BY <1>17 DEF Recover
    <3>2. ASSUME NEW k \in Keys PROVE C(k) \in [id : Nat, last : Nat]
      <4>1. CASE L(k) = {}
        BY <4>1 DEF NoCampaign
      <4>2. CASE L(k) # {}
        <5>1. T(k) \in L(k)
          BY <4>2
        <5>2. T(k) \in DOMAIN info
          BY <5>1, <2>1 DEF Latest, Trades
        <5>3. info[T(k)] \in Entry
          BY <5>2, <1>q DEF SeqFacts
        <5> HIDE DEF T, L
        <5> QED
          BY <4>2, <5>3 DEF Entry, Ids
      <4> QED
        BY <4>1, <4>2
    <3> HIDE DEF C
    <3> QED
      BY <3>1, <3>2
  <2>4. closedIds' \subseteq Trades /\ closedCache' \subseteq Trades
    BY <1>17 DEF Recover, ParsedIds, RecentIds
  <2>5. TypeOK'
    BY <1>17, <2>1, <2>2, <2>3, <2>4 DEF Recover, TypeOK, Trades
  <2>6. LockInv'
    BY <1>17, <1>e DEF Recover, LockInv
  <2> QED
    BY <2>5, <2>6
<1>18. CASE ArchiveRead
  BY <1>18 DEF ArchiveRead, TypeOK, LockInv, Trades
<1>19. CASE ArchiveRename
  <2>1. archived' \in Seq(Nat) /\ closedFile' \in Seq(Nat)
    BY <1>19, <1>e, ConcatProperties DEF ArchiveRename, TypeOK
  <2> QED
    BY <1>19, <2>1 DEF ArchiveRename, TypeOK, LockInv, Trades
<1>20. CASE ArchiveTruncate
  BY <1>20, <1>e DEF ArchiveTruncate, TypeOK, LockInv, Trades
<1>21. CASE ArchiveFails
  BY <1>21 DEF ArchiveFails, TypeOK, LockInv, Trades
<1>22. CASE Tick
  BY <1>22 DEF Tick, TypeOK, LockInv, Trades
<1>23. CASE Callers
  <2>1. \A p \in planned : p \in PersistOp /\ [p EXCEPT !.at = now] \in PersistOp
    BY DEF TypeOK, PersistOp
  <2>2. \A o \in Orders, k \in Keys :
          [op |-> "persist", order |-> o, key |-> k, campaign |-> None, at |-> now]
            \in PersistOp
    BY DEF TypeOK, PersistOp
  <2> QED
    BY <1>23, <1>2, <1>3, <1>4, <1>5, <1>6, <2>1, <2>2 DEF Callers
<1> QED
  BY <1>1, <1>7, <1>8, <1>9, <1>10, <1>11, <1>12, <1>13, <1>14, <1>15, <1>16,
     <1>17, <1>18, <1>19, <1>20, <1>21, <1>22, <1>23 DEF Next, LockStep

\* Every variable is of its type in every reachable state: in particular no
\* map, file or queue ever names a trade that was not created.
THEOREM TypeCorrect == Spec => []TypeOK
<1>1. TypeInv => TypeOK
  BY DEF TypeInv
<1> QED
  BY <1>1, TypeInvInit, TypeInvStep, PTL DEF Spec

\* The trade a persist creates: a new id, with the order of the call, and no
\* entry but its own changes.
LEMMA NewTrade ==
  ASSUME TypeOK, LockInv, PersistNew
  PROVE  LET p == Head(queue)
             t == Len(info) + 1
         IN  /\ p \in PersistOp /\ p.order \in Orders
             /\ t \in Nat \ {0} /\ t \notin Trades /\ Trades' = Trades \cup {t}
             /\ info'[t].order = p.order /\ info'[t].key = p.key
             /\ \A u \in Trades : info'[u] = info[u]
<1> DEFINE p == Head(queue)
           c == IF p.campaign # None THEN p.campaign ELSE CampaignAt(p.key, p.at)
           e == [order |-> p.order, key |-> p.key, campaign |-> c, at |-> p.at]
           t == Len(info) + 1
<1>1. SeqFacts(queue, Call) /\ SeqFacts(info, Entry)
  BY QueueFacts DEF TypeOK
<1>2. p \in Call /\ p.op = "persist"
  BY <1>1 DEF PersistNew, Holds, SeqFacts
<1>3. p \in PersistOp
  BY <1>2 DEF Call, PersistOp, CloseOp, MfeOp
<1>4. p.order \in Orders /\ p.key \in Keys /\ p.campaign \in Nat /\ p.at \in Nat
  BY <1>3 DEF PersistOp
<1>5. c \in Ids
  BY <1>4 DEF CampaignAt, TypeOK, Ids, None
<1>6. e \in Entry
  BY <1>4, <1>5 DEF Entry
<1>7. info' = Append(info, e)
  BY DEF PersistNew
<1>8. /\ Trades = 1 .. Len(info) /\ Len(info) \in Nat /\ Trades' = 1 .. t
      /\ info'[t] = e /\ \A u \in Trades : info'[u] = info[u]
  <2> HIDE DEF e
  <2> QED
    BY <1>1, <1>6, <1>7 DEF SeqFacts, Trades
<1>9. t \in Nat \ {0} /\ t \notin Trades /\ Trades' = Trades \cup {t}
  BY <1>8
<1> QED
  BY <1>3, <1>4, <1>8, <1>9

-----------------------------------------------------------------------------
(* The ledger.  A line is appended for a trade that has none: the holder    *)
(* that closes it took it out of the maps and of the open file first, and   *)
(* whatever a restart loads has no line.                                    *)

LedgerInv ==
  /\ stage = "rename" => tmpFile = openTrades /\ missing = {}
  /\ stage = "append" => openFile = openTrades /\ tmpFile = {}
  /\ stage # "ready" /\ Head(queue).op = "close" =>
       ~Occurs(Ledger, Head(queue).trade) /\ Head(queue).trade \notin ackedClosed
  /\ \A t \in openTrades : ~Occurs(Ledger, t) /\ t \notin ackedClosed
                           /\ t \notin closedIds
  /\ \A t \in openFile : ~Occurs(Ledger, t) /\ t \notin ackedClosed
  /\ \A t \in tmpFile : ~Occurs(Ledger, t) /\ t \notin ackedClosed
  /\ \A i \in DOMAIN Ledger : Ledger[i] \in Trades \cup {Torn}
  /\ LedgerOnce

\* Appending a line to a ledger without repetition.
LEMMA AppendLine ==
  ASSUME NEW s \in Seq(Nat), NEW n \in Nat
  PROVE  /\ \A t : Occurs(Append(s, n), t) <=> Occurs(s, t) \/ t = n
         /\ Distinct(s) /\ (n = Torn \/ ~Occurs(s, n)) => Distinct(Append(s, n))
         /\ \A i \in DOMAIN Append(s, n) :
              Append(s, n)[i] = n \/ (i \in DOMAIN s /\ Append(s, n)[i] = s[i])
<1>1. SeqFacts(s, Nat)
  BY QueueFacts
<1>2. /\ DOMAIN s = 1 .. Len(s) /\ Len(s) \in Nat
      /\ DOMAIN Append(s, n) = 1 .. Len(s) + 1
      /\ Append(s, n)[Len(s) + 1] = n
      /\ \A i \in DOMAIN s : Append(s, n)[i] = s[i]
  BY <1>1 DEF SeqFacts
<1>3. /\ \A i \in DOMAIN Append(s, n) : i = Len(s) + 1 \/ i \in DOMAIN s
      /\ Len(s) + 1 \in DOMAIN Append(s, n) /\ Len(s) + 1 \notin DOMAIN s
      /\ DOMAIN s \subseteq DOMAIN Append(s, n)
  BY <1>2
<1>4. ASSUME NEW t PROVE Occurs(Append(s, n), t) <=> Occurs(s, t) \/ t = n
  BY <1>2, <1>3 DEF Occurs
<1>5. Distinct(s) /\ (n = Torn \/ ~Occurs(s, n)) => Distinct(Append(s, n))
  BY <1>2, <1>3 DEF Occurs, Distinct
<1> QED
  BY <1>2, <1>3, <1>4, <1>5

\* How a step may change the ledger: not at all, by one line, or by losing the
\* lines of demo-closed.jsonl.
LEMMA LedgerAppend ==
  ASSUME TypeOK, NEW n \in Nat
  PROVE  archived \o Append(closedFile, n) = Append(Ledger, n) /\ Ledger \in Seq(Nat)
<1>1. archived \in Seq(Nat) /\ closedFile \in Seq(Nat) /\ <<n>> \in Seq(Nat)
  BY DEF TypeOK
<1>2. Append(closedFile, n) = closedFile \o <<n>>
  BY <1>1, AppendIsConcat
<1>3. archived \o closedFile \in Seq(Nat)
  BY <1>1, ConcatProperties
<1>4. Append(archived \o closedFile, n) = (archived \o closedFile) \o <<n>>
  BY <1>3, AppendIsConcat
<1>5. (archived \o closedFile) \o <<n>> = archived \o (closedFile \o <<n>>)
  BY <1>1, ConcatAssociative
<1> QED
  BY <1>2, <1>3, <1>4, <1>5 DEF Ledger

LEMMA LedgerPrefix ==
  ASSUME TypeOK
  PROVE  /\ archived \o <<>> = archived /\ Ledger \o <<>> = Ledger
         /\ \A i \in DOMAIN archived : i \in DOMAIN Ledger /\ Ledger[i] = archived[i]
         /\ \A t : Occurs(closedFile, t) => Occurs(Ledger, t)
<1>1. archived \in Seq(Nat) /\ closedFile \in Seq(Nat)
  BY DEF TypeOK
<1>2. /\ Ledger \in Seq(Nat) /\ Len(Ledger) = Len(archived) + Len(closedFile)
      /\ \A i \in 1 .. Len(archived) + Len(closedFile) : Ledger[i] =
           IF i <= Len(archived) THEN archived[i] ELSE closedFile[i - Len(archived)]
  BY <1>1, ConcatProperties DEF Ledger
<1>3. /\ DOMAIN archived = 1 .. Len(archived) /\ DOMAIN closedFile = 1 .. Len(closedFile)
      /\ DOMAIN Ledger = 1 .. Len(archived) + Len(closedFile)
      /\ Len(archived) \in Nat /\ Len(closedFile) \in Nat
  BY <1>1, <1>2, LenProperties
<1>4. archived \o <<>> = archived /\ Ledger \o <<>> = Ledger
  BY <1>1, <1>2, ConcatEmptySeq
<1>5. \A i \in DOMAIN archived : i \in DOMAIN Ledger /\ Ledger[i] = archived[i]
  BY <1>2, <1>3
<1>6. ASSUME NEW t, Occurs(closedFile, t) PROVE Occurs(Ledger, t)
  <2>1. PICK i \in DOMAIN closedFile : closedFile[i] = t
    BY <1>6 DEF Occurs
  <2>2. i + Len(archived) \in DOMAIN Ledger /\ Ledger[i + Len(archived)] = t
    BY <1>2, <1>3, <2>1
  <2> QED
    BY <2>2 DEF Occurs
<1> QED
  BY <1>4, <1>5, <1>6

LEMMA LedgerLine ==
  ASSUME TypeOK, LedgerInv, NEW n \in Nat, n \in Trades \cup {Torn},
         n = Torn \/ ~Occurs(Ledger, n),
         Ledger' = Ledger \/ Ledger' = Append(Ledger, n)
  PROVE  /\ \A u : Occurs(Ledger', u) => Occurs(Ledger, u) \/ u = n
         /\ Distinct(Ledger')
         /\ \A i \in DOMAIN Ledger' : Ledger'[i] \in Trades \cup {Torn}
<1>1. Ledger \in Seq(Nat)
  BY LedgerAppend
<1>2. Distinct(Ledger) /\ \A i \in DOMAIN Ledger : Ledger[i] \in Trades \cup {Torn}
  BY DEF LedgerInv, LedgerOnce
<1>3. CASE Ledger' = Ledger
  BY <1>2, <1>3 DEF Occurs, Distinct
<1>4. CASE Ledger' = Append(Ledger, n)
  <2> DEFINE s == Ledger
             a == Append(s, n)
  <2>1. /\ \A u : Occurs(a, u) <=> Occurs(s, u) \/ u = n
        /\ Distinct(a)
        /\ \A i \in DOMAIN a : a[i] = n \/ (i \in DOMAIN s /\ a[i] = s[i])
    BY <1>1, <1>2, AppendLine
  <2>2. \A i \in DOMAIN a : a[i] \in Trades \cup {Torn}
    <3> HIDE DEF a
    <3> QED
      BY <1>2, <2>1
  <2>3. Ledger' = a
    BY <1>4
  <2> HIDE DEF a
  <2> QED
    BY <2>1, <2>2, <2>3
<1> QED
  BY <1>3, <1>4

LEMMA LedgerInvInit == Init => LedgerInv
<1> SUFFICES ASSUME Init PROVE LedgerInv
  OBVIOUS
<1>1. <<>> \in Seq(Nat) /\ DOMAIN << >> = {}
  BY EmptySeq, LenProperties
<1>2. Ledger = <<>>
  BY <1>1, ConcatEmptySeq DEF Init, Ledger
<1> QED
  BY <1>1, <1>2 DEF Init, LedgerInv, LedgerOnce, Distinct, Occurs

LEMMA LedgerInvStep == TypeInv /\ LedgerInv /\ [Next]_vars => LedgerInv'
<1> SUFFICES ASSUME TypeOK, LockInv, LedgerInv, [Next]_vars PROVE LedgerInv'
  BY DEF TypeInv
<1> USE DEF index, lock, openFiles, closedFiles, fresh, bounds, history
<1>q. SeqFacts(queue, Call) /\ SeqFacts(info, Entry)
  BY QueueFacts DEF TypeOK
\* The steps that touch neither the files nor the maps of trades.
<1>f. ASSUME UNCHANGED <<openTrades, closedIds, openFile, tmpFile, missing, closedFile,
                         archived, info, ackedClosed>>,
             stage' = "ready" \/ (stage' = stage /\ Head(queue') = Head(queue))
      PROVE  LedgerInv'
  <2>1. Ledger' = Ledger /\ Trades' = Trades
    BY <1>f DEF Ledger, Trades
  <2> QED
    BY <1>f, <2>1 DEF LedgerInv, LedgerOnce, Occurs, Distinct
<1>n. ASSUME NEW c \in Call, Enqueue(c), stage' = stage
      PROVE  stage' = "ready" \/ (stage' = stage /\ Head(queue') = Head(queue))
  BY <1>n, <1>q DEF Enqueue, SeqFacts, LockInv
<1>1. CASE UNCHANGED vars
  BY <1>1, <1>f DEF vars
<1>2. ASSUME NEW o \in Orders, NEW k \in Keys, PlanEntry(o, k) PROVE LedgerInv'
  BY <1>2, <1>f DEF PlanEntry
<1>3. ASSUME NEW k \in Keys, ResolveCampaign(k) PROVE LedgerInv'
  BY <1>3, <1>f DEF ResolveCampaign
<1>4. ASSUME NEW p \in PersistOp, PersistCall(p) PROVE LedgerInv'
  <2>1. p \in Call
    BY DEF Call
  <2> QED
    BY <1>4, <1>f, <1>n, <2>1 DEF PersistCall
<1>5. ASSUME NEW t \in Trades, CloseCall(t) PROVE LedgerInv'
  <2>1. [op |-> "close", trade |-> t] \in Call
    BY <1>q DEF Call, CloseOp, Trades, Ids, SeqFacts
  <2> QED
    BY <1>5, <1>f, <1>n, <2>1 DEF CloseCall
<1>6. ASSUME NEW t \in Trades, MfeCall(t) PROVE LedgerInv'
  <2>1. [op |-> "mfe"] \in Call
    BY DEF Call, MfeOp
  <2> QED
    BY <1>6, <1>f, <1>n, <2>1 DEF MfeCall
<1>7. CASE PersistDuplicate
  BY <1>7, <1>f DEF PersistDuplicate, Release
<1>8. CASE PersistNew
  <2> DEFINE t == Len(info) + 1
  <2>1. openTrades' = openTrades \cup {t} /\ t \in Nat /\ t \notin Trades /\ t # Torn
    BY <1>8, NewTrade DEF PersistNew, Torn
  <2>2. UNCHANGED <<closedIds, openFile, tmpFile, closedFile, archived, ackedClosed, queue>>
        /\ stage' = "write" /\ Head(queue).op = "persist"
    BY <1>8 DEF PersistNew, Holds
  <2>3. Ledger' = Ledger
    BY <2>2 DEF Ledger
  <2>4. ~Occurs(Ledger, t) /\ t \notin ackedClosed /\ t \notin closedIds
    BY <2>1 DEF Occurs, LedgerInv, TypeOK
  <2>5. Trades \subseteq Trades'
    BY <1>8, NewTrade
  <2> QED
    BY <2>1, <2>2, <2>3, <2>4, <2>5 DEF LedgerInv, LedgerOnce
<1>9. CASE CloseDuplicate
  BY <1>9, <1>f DEF CloseDuplicate, Release
<1>10. CASE CloseNew
  <2> DEFINE t == Head(queue).trade
  <2>1. t \in openTrades
    BY <1>10, <1>q DEF CloseNew, Holds, LockInv, SeqFacts
  <2>2. openTrades' = openTrades \ {t} /\ closedIds' = closedIds \cup {t} /\ stage' = "write"
        /\ UNCHANGED <<openFile, tmpFile, closedFile, archived, ackedClosed, queue, info>>
    BY <1>10 DEF CloseNew
  <2>3. Ledger' = Ledger /\ Trades' = Trades
    BY <2>2 DEF Ledger, Trades
  <2> QED
    BY <2>1, <2>2, <2>3 DEF LedgerInv, LedgerOnce
<1>11. CASE RunMfe
  <2>1. Ledger' = Ledger /\ Trades' = Trades
    BY <1>11 DEF RunMfe, Ledger, Trades
  <2> QED
    BY <1>11, <2>1 DEF RunMfe, Holds, LedgerInv, LedgerOnce
<1>12. CASE WriteTmp
  <2>1. Ledger' = Ledger /\ Trades' = Trades
    BY <1>12 DEF WriteTmp, Ledger, Trades
  <2> QED
    BY <1>12, <2>1 DEF WriteTmp, LedgerInv, LedgerOnce
<1>13. CASE RenameTmp
  <2>1. Ledger' = Ledger /\ Trades' = Trades /\ openFile' = tmpFile /\ tmpFile' = {}
        /\ UNCHANGED <<openTrades, closedIds, ackedClosed>>
    BY <1>13 DEF RenameTmp, Ledger, Trades
  <2>2. tmpFile = openTrades
    BY <1>13 DEF RenameTmp, LedgerInv
  <2>3. \/ stage' = "append" /\ queue' = queue /\ Head(queue).op = "close"
        \/ stage' = "ready"
    BY <1>13 DEF RenameTmp, Release
  <2>4. Head(queue).op = "close" =>
          ~Occurs(Ledger, Head(queue).trade) /\ Head(queue).trade \notin ackedClosed
    BY <1>13 DEF RenameTmp, LedgerInv
  <2> QED
    BY <2>1, <2>2, <2>3, <2>4 DEF LedgerInv, LedgerOnce
<1>14. CASE AppendClosed
  <2> DEFINE t == Head(queue).trade
  <2>1. t \in Trades /\ t \in Nat
    BY <1>14, <1>q DEF AppendClosed, LockInv, SeqFacts, TypeOK, Trades
  <2>2. t \notin openTrades /\ ~Occurs(Ledger, t) /\ openFile = openTrades /\ tmpFile = {}
    BY <1>14 DEF AppendClosed, LockInv, LedgerInv
  <2>3. Ledger' = Ledger \/ Ledger' = Append(Ledger, t)
    BY <1>14, <2>1, LedgerAppend DEF AppendClosed, Ledger
  <2>4. /\ \A u : Occurs(Ledger', u) => Occurs(Ledger, u) \/ u = t
        /\ Distinct(Ledger')
        /\ \A i \in DOMAIN Ledger' : Ledger'[i] \in Trades \cup {Torn}
    BY <2>1, <2>2, <2>3, LedgerLine
  <2>5. stage' = "ready" /\ ackedClosed' = ackedClosed \cup {t} /\ Trades' = Trades
        /\ UNCHANGED <<openTrades, closedIds, openFile, tmpFile>>
    BY <1>14 DEF AppendClosed, Release, Trades
  <2>6. ASSUME NEW u, u \in openTrades
        PROVE  ~Occurs(Ledger', u) /\ u \notin ackedClosed' /\ u \notin closedIds'
    BY <2>2, <2>4, <2>5, <2>6 DEF LedgerInv
  <2>7. \A u : Occurs(Ledger, u)' = Occurs(Ledger', u)
    BY DEF Occurs
  <2> QED
    BY <2>2, <2>4, <2>5, <2>6, <2>7 DEF LedgerInv, LedgerOnce, Occurs, Distinct
<1>i. ASSUME Interrupted
      PROVE  /\ \A u \in Trades : Occurs(Ledger', u) => Occurs(Ledger, u)
             /\ Distinct(Ledger')
             /\ \A i \in DOMAIN Ledger' : Ledger'[i] \in Trades \cup {Torn}
             /\ openFile' = openFile
             /\ tmpFile' \subseteq tmpFile \cup openTrades
  <2>1. Ledger' = Ledger \/ Ledger' = Append(Ledger, Torn)
    BY <1>i, LedgerAppend DEF Interrupted, Ledger, Torn
  <2>2. \A u \in Trades : u # Torn
    BY <1>q DEF SeqFacts, Trades, Torn
  <2>3. /\ \A u \in Trades : Occurs(Ledger', u) => Occurs(Ledger, u)
        /\ Distinct(Ledger')
        /\ \A i \in DOMAIN Ledger' : Ledger'[i] \in Trades \cup {Torn}
    BY <2>1, <2>2, LedgerLine DEF Torn
  <2> QED
    BY <1>i, <2>3 DEF Interrupted
<1>15. CASE IOFails
  <2>1. Interrupted /\ stage' = "ready" /\ Trades' = Trades
        /\ UNCHANGED <<openTrades, closedIds, ackedClosed>>
    BY <1>15 DEF IOFails, Release, Trades
  <2> QED
    BY <1>i, <2>1 DEF LedgerInv, LedgerOnce, TypeOK, Occurs, Distinct
<1>16. CASE Crash
  <2>1. Interrupted /\ stage' = "ready" /\ Trades' = Trades /\ openTrades' = {}
        /\ UNCHANGED ackedClosed
    BY <1>16 DEF Crash, Trades
  <2> QED
    BY <1>i, <2>1 DEF LedgerInv, LedgerOnce, TypeOK, Occurs, Distinct
<1>17. CASE Recover
  <2>1. /\ openFile' = openFile \/ openFile' = tmpFile
        /\ tmpFile' = tmpFile \/ tmpFile' = {}
        /\ openTrades' = openFile' /\ closedIds' = ParsedIds
        /\ UNCHANGED <<stage, ackedClosed>>
    BY <1>17 DEF Recover, SettleTmp
  <2>2. stage = "ready" /\ Ledger' = Ledger /\ Trades' = Trades
    BY <1>17 DEF Recover, LockInv, Ledger, Trades
  <2>3. \A t \in ParsedIds : Occurs(Ledger, t)
    BY LedgerPrefix DEF ParsedIds, Occurs
  <2> QED
    BY <2>1, <2>2, <2>3 DEF LedgerInv, LedgerOnce
<1>18. CASE ArchiveRead
  BY <1>18, <1>f DEF ArchiveRead
<1>19. CASE ArchiveRename
  <2>1. Ledger' = Ledger /\ Trades' = Trades
    BY <1>19, LedgerPrefix DEF ArchiveRename, Ledger, Trades
  <2> QED
    BY <1>19, <2>1 DEF ArchiveRename, LedgerInv, LedgerOnce
<1>20. CASE ArchiveTruncate
  <2>1. Ledger' = archived /\ Trades' = Trades
    BY <1>20, LedgerPrefix DEF ArchiveTruncate, Ledger, Trades
  <2>2. \A i \in DOMAIN archived : i \in DOMAIN Ledger /\ Ledger[i] = archived[i]
    BY LedgerPrefix
  <2>3. /\ \A u : Occurs(archived, u) => Occurs(Ledger, u)
        /\ Distinct(archived)
        /\ \A i \in DOMAIN archived : archived[i] \in Trades \cup {Torn}
    BY <2>2 DEF Occurs, Distinct, LedgerInv, LedgerOnce
  <2> QED
    BY <1>20, <2>1, <2>3 DEF ArchiveTruncate, LedgerInv, LedgerOnce
<1>21. CASE ArchiveFails
  BY <1>21, <1>f DEF ArchiveFails
<1>22. CASE Tick
  BY <1>22, <1>f DEF Tick
<1>23. CASE Callers
  <2>1. \A p \in planned : p \in PersistOp /\ [p EXCEPT !.at = now] \in PersistOp
    BY DEF TypeOK, PersistOp
  <2>2. \A o \in Orders, k \in Keys :
          [op |-> "persist", order |-> o, key |-> k, campaign |-> None, at |-> now]
            \in PersistOp
    BY DEF TypeOK, PersistOp, None
  <2> QED
    BY <1>23, <1>2, <1>3, <1>4, <1>5, <1>6, <2>1, <2>2 DEF Callers
<1> QED
  BY <1>1, <1>7, <1>8, <1>9, <1>10, <1>11, <1>12, <1>13, <1>14, <1>15, <1>16,
     <1>17, <1>18, <1>19, <1>20, <1>21, <1>22, <1>23 DEF Next, LockStep

LEMMA LedgerInvariant == Spec => [](TypeInv /\ LedgerInv)
  BY TypeInvInit, TypeInvStep, LedgerInvInit, LedgerInvStep, PTL DEF Spec

\* No trade is ever written twice to the closed ledger and its archive, in
\* particular not after a crash between the two writes of closeOpenTrade, a
\* restart, or an archive that forgets the ids it moved.
THEOREM LedgerOnceHolds == Spec => []LedgerOnce
<1>1. TypeInv /\ LedgerInv => LedgerOnce
  BY DEF LedgerInv
<1> QED
  BY <1>1, LedgerInvariant, PTL

\* A trade whose close completed is never open again, in memory or in a file.
THEOREM NeverReopensHolds == Spec => []NeverReopens
<1>1. TypeInv /\ LedgerInv => NeverReopens
  BY DEF LedgerInv, NeverReopens
<1> QED
  BY <1>1, LedgerInvariant, PTL

-----------------------------------------------------------------------------
(* The index by exchange order.  It is exact because no two trades of the   *)
(* map, and of any file a restart may load, have the same order.            *)

DistinctOrders(S) == \A t, u \in S : info[t].order = info[u].order => t = u

IndexInv == /\ OneOpenTradePerOrder
            /\ DistinctOrders(openFile) /\ DistinctOrders(tmpFile)

LEMMA IndexInvStep == TypeInv /\ IndexInv /\ [Next]_vars => IndexInv'
<1> SUFFICES ASSUME TypeOK, LockInv, IndexInv, [Next]_vars PROVE IndexInv'
  BY DEF TypeInv
<1> USE DEF index, lock, openFiles, closedFiles, fresh, bounds, history
<1>q. SeqFacts(queue, Call) /\ SeqFacts(info, Entry)
  BY QueueFacts DEF TypeOK
<1>t. None \notin Trades /\ \A t \in Trades : info[t].order \in Orders
  BY <1>q DEF SeqFacts, Trades, None, Entry
<1>o. DistinctOrders(openTrades)
  BY <1>t DEF IndexInv, OneOpenTradePerOrder, DistinctOrders, TypeOK
\* The steps that leave the map, its index and the entries alone.
<1>f. ASSUME UNCHANGED <<openTrades, openByOrder, info>>,
             openFile' = openFile \/ openFile' = tmpFile,
             tmpFile' \subseteq tmpFile \/ tmpFile' \subseteq openTrades
      PROVE  IndexInv'
  <2>1. DistinctOrders(openFile') /\ DistinctOrders(tmpFile')
    BY <1>f, <1>o DEF IndexInv, DistinctOrders
  <2> QED
    BY <1>f, <2>1 DEF IndexInv, OneOpenTradePerOrder, DistinctOrders
<1>1. CASE UNCHANGED vars
  BY <1>1, <1>f DEF vars
<1>2. CASE Callers
  BY <1>2, <1>f DEF Callers, PlanEntry, ResolveCampaign, PersistCall, CloseCall, MfeCall
<1>3. CASE PersistDuplicate \/ CloseDuplicate \/ RunMfe
  BY <1>3, <1>f DEF PersistDuplicate, CloseDuplicate, RunMfe
<1>4. CASE PersistNew
  <2> DEFINE p == Head(queue)
             t == Len(info) + 1
  <2>1. /\ p.order \in Orders /\ t \in Nat \ {0} /\ t \notin Trades
        /\ info'[t].order = p.order /\ \A u \in Trades : info'[u] = info[u]
    BY <1>4, NewTrade
  <2>2. /\ openByOrder[p.order] = None
        /\ openTrades' = openTrades \cup {t}
        /\ openByOrder' = [openByOrder EXCEPT ![p.order] = t]
        /\ UNCHANGED <<openFile, tmpFile>>
    BY <1>4 DEF PersistNew
  <2> HIDE DEF p, t
  <2>3. ASSUME NEW o \in Orders
        PROVE  {u \in openTrades' : info'[u].order = o} =
                 IF openByOrder'[o] = None THEN {} ELSE {openByOrder'[o]}
    <3>1. {u \in openTrades : info[u].order = o} =
            IF openByOrder[o] = None THEN {} ELSE {openByOrder[o]}
      BY DEF IndexInv, OneOpenTradePerOrder
    <3>2. \A u \in openTrades : info'[u] = info[u]
      BY <2>1 DEF TypeOK
    <3>3. openByOrder'[o] = IF o = p.order THEN t ELSE openByOrder[o]
      BY <2>1, <2>2 DEF TypeOK
    <3>4. CASE o = p.order
      BY <2>1, <2>2, <3>1, <3>2, <3>3, <3>4 DEF None
    <3>5. CASE o # p.order
      BY <2>1, <2>2, <3>1, <3>2, <3>3, <3>5
    <3> QED
      BY <3>4, <3>5
  <2>4. DistinctOrders(openFile)' /\ DistinctOrders(tmpFile)'
    <3>1. \A u \in openFile \cup tmpFile : info'[u] = info[u]
      BY <2>1 DEF TypeOK
    <3> QED
      BY <2>2, <3>1 DEF IndexInv, DistinctOrders
  <2> QED
    BY <2>3, <2>4 DEF IndexInv, OneOpenTradePerOrder
<1>5. CASE CloseNew
  <2> DEFINE t == Head(queue).trade
  <2>1. t \in openTrades
    BY <1>5, <1>q DEF CloseNew, Holds, LockInv, SeqFacts
  <2>2. /\ openTrades' = openTrades \ {t}
        /\ openByOrder' = [openByOrder EXCEPT ![info[t].order] = None]
        /\ UNCHANGED <<openFile, tmpFile, info>>
    BY <1>5 DEF CloseNew
  <2> HIDE DEF t
  <2>3. ASSUME NEW o \in Orders
        PROVE  {u \in openTrades' : info[u].order = o} =
                 IF openByOrder'[o] = None THEN {} ELSE {openByOrder'[o]}
    <3>1. {u \in openTrades : info[u].order = o} =
            IF openByOrder[o] = None THEN {} ELSE {openByOrder[o]}
      BY DEF IndexInv, OneOpenTradePerOrder
    <3>2. openByOrder'[o] = IF o = info[t].order THEN None ELSE openByOrder[o]
      BY <2>2 DEF TypeOK
    <3>3. CASE o = info[t].order
      BY <1>o, <2>1, <2>2, <3>2, <3>3 DEF DistinctOrders
    <3>4. CASE o # info[t].order
      BY <2>2, <3>1, <3>2, <3>4
    <3> QED
      BY <3>3, <3>4
  <2> QED
    BY <2>2, <2>3 DEF IndexInv, OneOpenTradePerOrder, DistinctOrders
<1>6. CASE WriteTmp \/ RenameTmp \/ AppendClosed
  BY <1>6, <1>f DEF WriteTmp, RenameTmp, AppendClosed
<1>7. CASE IOFails
  BY <1>7, <1>f DEF IOFails, Interrupted
<1>8. CASE Crash
  <2>1. /\ openTrades' = {} /\ openByOrder' = [o \in Orders |-> None] /\ info' = info
        /\ openFile' = openFile
        /\ tmpFile' \subseteq tmpFile \/ tmpFile' \subseteq openTrades
    BY <1>8 DEF Crash, Interrupted
  <2> QED
    BY <1>o, <2>1 DEF IndexInv, OneOpenTradePerOrder, DistinctOrders
<1>9. CASE Recover
  <2>1. /\ openFile' = openFile \/ openFile' = tmpFile
        /\ tmpFile' = tmpFile \/ tmpFile' = {}
        /\ openTrades' = openFile' /\ info' = info
        /\ openByOrder' = [o \in Orders |->
             IF \E t \in openFile' : info[t].order = o
               THEN CHOOSE t \in openFile' : info[t].order = o ELSE None]
    BY <1>9 DEF Recover, SettleTmp
  <2>2. DistinctOrders(openFile') /\ DistinctOrders(tmpFile') /\ None \notin openFile'
    BY <1>t, <2>1 DEF IndexInv, DistinctOrders, TypeOK
  <2>3. ASSUME NEW o \in Orders
        PROVE  {u \in openTrades' : info[u].order = o} =
                 IF openByOrder'[o] = None THEN {} ELSE {openByOrder'[o]}
    <3>1. CASE \E t \in openFile' : info[t].order = o
      <4>1. PICK t \in openFile' : info[t].order = o
        BY <3>1
      <4>2. openByOrder'[o] = t
        BY <2>1, <2>2, <4>1 DEF DistinctOrders
      <4> QED
        BY <2>1, <2>2, <4>1, <4>2 DEF DistinctOrders
    <3>2. CASE ~\E t \in openFile' : info[t].order = o
      BY <2>1, <3>2
    <3> QED
      BY <3>1, <3>2
  <2> QED
    BY <2>1, <2>2, <2>3 DEF IndexInv, OneOpenTradePerOrder, DistinctOrders
<1>10. CASE ArchiveRead \/ ArchiveRename \/ ArchiveTruncate \/ ArchiveFails \/ Tick
  BY <1>10, <1>f DEF ArchiveRead, ArchiveRename, ArchiveTruncate, ArchiveFails, Tick
<1> QED
  BY <1>1, <1>2, <1>3, <1>4, <1>5, <1>6, <1>7, <1>8, <1>9, <1>10 DEF Next, LockStep

\* The map of orders is the exact index of the open trades: two racing persists
\* of one exchange order leave one trade, and every restart rebuilds the index.
THEOREM OneOpenTradePerOrderHolds == Spec => []OneOpenTradePerOrder
<1>1. Init => IndexInv
  BY DEF Init, IndexInv, OneOpenTradePerOrder, DistinctOrders
<1>2. TypeInv /\ IndexInv => OneOpenTradePerOrder
  BY DEF IndexInv
<1> QED
  BY <1>1, <1>2, TypeInvInit, TypeInvStep, IndexInvStep, PTL DEF Spec

-----------------------------------------------------------------------------
(* The open file.  What the next restart loads, be it demo-open.jsonl or a   *)
(* stranded .tmp file, has every trade that was acknowledged and that nobody *)
(* asked to close, or the .tmp is a half-written one that lacks it, or such   *)
(* a .tmp has already cut it.                                                 *)

Kept == acked \ closing

SurviveInv ==
  /\ OpenTradesSurvive
  /\ up => Kept \subseteq openTrades \cup cut
  /\ "tmp" \in dir => Kept \subseteq tmpFile \cup missing \cup cut

LEMMA SurviveInvStep == TypeInv /\ LedgerInv /\ SurviveInv /\ [Next]_vars => SurviveInv'
<1> SUFFICES ASSUME TypeOK, LockInv, LedgerInv, SurviveInv, [Next]_vars
             PROVE  SurviveInv'
  BY DEF TypeInv, SurviveInv
<1> USE DEF index, lock, openFiles, closedFiles, fresh, bounds, history, Kept,
            OpenTradesSurvive, SurviveInv
<1>q. SeqFacts(queue, Call)
  BY QueueFacts DEF TypeOK
\* The steps that leave the files and the acknowledgements alone.
<1>f. ASSUME UNCHANGED <<up, openFiles, acked>>,
             openTrades \subseteq openTrades', closing \subseteq closing'
      PROVE  SurviveInv'
  BY <1>f
<1>1. CASE UNCHANGED vars
  BY <1>1, <1>f DEF vars
<1>2. CASE Callers
  BY <1>2, <1>f DEF Callers, PlanEntry, ResolveCampaign, PersistCall, CloseCall, MfeCall
<1>3. CASE PersistDuplicate \/ PersistNew \/ CloseDuplicate \/ RunMfe
  BY <1>3, <1>f DEF PersistDuplicate, PersistNew, CloseDuplicate, RunMfe
<1>4. CASE CloseNew
  <2>1. Head(queue).trade \in closing
    BY <1>4, <1>q DEF CloseNew, Holds, LockInv, SeqFacts
  <2> QED
    BY <1>4, <2>1 DEF CloseNew
<1>5. CASE WriteTmp
  BY <1>5 DEF WriteTmp, LockInv
<1>6. CASE RenameTmp
  <2>1. up /\ tmpFile = openTrades
    BY <1>6 DEF RenameTmp, LockInv, LedgerInv
  <2>2. acked' \subseteq acked \cup openTrades
    BY <1>6 DEF RenameTmp, LockInv
  <2>3. openFile' = openTrades /\ dir' = {"open"}
        /\ UNCHANGED <<up, openTrades, closing, cut>>
    BY <1>6, <2>1 DEF RenameTmp
  <2> QED
    BY <2>1, <2>2, <2>3
<1>7. CASE AppendClosed
  BY <1>7, <1>f DEF AppendClosed
\* A write that stopped half-way: what the .tmp lacks of the map is missing.
<1>t. ASSUME Interrupted, up PROVE /\ UNCHANGED <<openFile, cut>>
                                   /\ "tmp" \in dir' => Kept \subseteq tmpFile' \cup missing' \cup cut
  BY <1>t DEF Interrupted
<1>8. CASE IOFails
  <2>1. up /\ Interrupted /\ UNCHANGED <<up, openTrades, acked, closing>>
    BY <1>8 DEF IOFails, LockInv
  <2> QED
    BY <2>1, <1>t
<1>9. CASE Crash
  <2>1. up /\ Interrupted /\ ~up' /\ UNCHANGED <<acked, closing>>
    BY <1>9 DEF Crash
  <2> QED
    BY <2>1, <1>t
<1>10. CASE Recover
  <2>1. /\ UNCHANGED <<acked, closing>> /\ openTrades' = openFile'
        /\ \/ UNCHANGED openFiles
           \/ /\ "tmp" \in dir /\ openFile' = tmpFile /\ cut' = cut \cup missing
              /\ "tmp" \notin dir'
           \/ UNCHANGED <<openFile, cut>> /\ "tmp" \notin dir'
    BY <1>10 DEF Recover, SettleTmp
  <2> QED
    BY <2>1
<1>11. CASE ArchiveRead \/ ArchiveRename \/ ArchiveTruncate \/ ArchiveFails \/ Tick
  BY <1>11, <1>f DEF ArchiveRead, ArchiveRename, ArchiveTruncate, ArchiveFails, Tick
<1> QED
  BY <1>1, <1>2, <1>3, <1>4, <1>5, <1>6, <1>7, <1>8, <1>9, <1>10, <1>11
  DEF Next, LockStep

\* A trade whose persistOpenTrade returned and that nobody asked to close is in
\* demo-open.jsonl at every instant, through crashes between the two steps of a
\* rewrite, failed writes, writes that stop half-way and restarts that find a
\* .tmp file, unless a restart promoted a half-written .tmp that lacks it.
THEOREM OpenTradesSurviveHolds == Spec => []OpenTradesSurvive
<1>1. Init => SurviveInv
  BY DEF Init, SurviveInv, OpenTradesSurvive, Kept
<1>2. SurviveInv => OpenTradesSurvive
  BY DEF SurviveInv
<1> QED
  BY <1>1, <1>2, TypeInvInit, TypeInvStep, LedgerInvInit, LedgerInvStep,
     SurviveInvStep, PTL DEF Spec

\* The one hole is the half-written .tmp: on a disk where a write leaves all or
\* nothing no trade is ever cut, so that every open trade survives.
THEOREM WholeWritesCutNothing ==
  ~TornWrites => (Spec => [](cut = {} /\ acked \ closing \subseteq openFile))
<1> SUFFICES ASSUME ~TornWrites
             PROVE  Spec => [](cut = {} /\ acked \ closing \subseteq openFile)
  OBVIOUS
<1> DEFINE Whole == missing = {} /\ cut = {}
<1>1. Init => Whole
  BY DEF Init
<1>2. Whole /\ [Next]_vars => Whole'
  <2> SUFFICES ASSUME Whole, [Next]_vars PROVE Whole'
    OBVIOUS
  <2> USE DEF openFiles
  <2>1. CASE UNCHANGED vars
    BY <2>1 DEF vars
  <2>2. CASE Callers
    BY <2>2 DEF Callers, PlanEntry, ResolveCampaign, PersistCall, CloseCall, MfeCall
  <2>3. CASE LockStep
    BY <2>3 DEF LockStep, PersistDuplicate, PersistNew, CloseDuplicate, CloseNew, RunMfe,
       WriteTmp, RenameTmp, AppendClosed
  <2>4. CASE IOFails \/ Crash
    BY <2>4 DEF IOFails, Crash, Interrupted
  <2>5. CASE Recover
    BY <2>5 DEF Recover, SettleTmp
  <2>6. CASE ArchiveRead \/ ArchiveRename \/ ArchiveTruncate \/ ArchiveFails \/ Tick
    BY <2>6 DEF ArchiveRead, ArchiveRename, ArchiveTruncate, ArchiveFails, Tick
  <2> QED
    BY <2>1, <2>2, <2>3, <2>4, <2>5, <2>6 DEF Next
<1>3. Whole /\ OpenTradesSurvive => cut = {} /\ acked \ closing \subseteq openFile
  BY DEF OpenTradesSurvive
<1> QED
  BY <1>1, <1>2, <1>3, OpenTradesSurviveHolds, PTL DEF Spec

\* As long as no write failed, the file holds exactly the open trades of memory
\* whenever nobody holds the lock: no caller forgets the rewrite.
THEOREM FileMirrorsMemoryHolds == Spec => []FileMirrorsMemory
<1>1. Init => FileMirrorsMemory
  BY DEF Init, FileMirrorsMemory
<1>2. ASSUME TypeInv, LedgerInv, FileMirrorsMemory, [Next]_vars
      PROVE  FileMirrorsMemory'
  <2> USE DEF index, lock, openFiles, closedFiles, fresh, bounds, history,
              FileMirrorsMemory
  <2>1. TypeOK /\ LockInv /\ LedgerInv
    BY <1>2 DEF TypeInv
  <2>2. CASE UNCHANGED vars
    BY <1>2, <2>2 DEF vars
  <2>3. CASE Callers
    BY <1>2, <2>3 DEF Callers, PlanEntry, ResolveCampaign, PersistCall, CloseCall,
                      MfeCall, Enqueue
  <2>4. CASE PersistDuplicate \/ PersistNew \/ CloseDuplicate \/ CloseNew \/ RunMfe
    BY <1>2, <2>4 DEF PersistDuplicate, PersistNew, CloseDuplicate, CloseNew, RunMfe,
                      Holds
  <2>5. CASE WriteTmp
    BY <2>5 DEF WriteTmp
  <2>6. CASE RenameTmp
    BY <2>1, <2>6 DEF RenameTmp, LedgerInv
  <2>7. CASE AppendClosed
    BY <2>1, <2>7 DEF AppendClosed, LedgerInv
  <2>8. CASE IOFails
    BY <2>1, <2>8 DEF IOFails, TypeOK
  <2>9. CASE Crash
    BY <2>9 DEF Crash
  <2>10. CASE Recover
    BY <2>10 DEF Recover
  <2>11. CASE ArchiveRead \/ ArchiveRename \/ ArchiveTruncate \/ Tick
    BY <1>2, <2>11 DEF ArchiveRead, ArchiveRename, ArchiveTruncate, Tick
  <2>12. CASE ArchiveFails
    BY <2>1, <2>12 DEF ArchiveFails, TypeOK
  <2> QED
    BY <1>2, <2>2, <2>3, <2>4, <2>5, <2>6, <2>7, <2>8, <2>9, <2>10, <2>11, <2>12
    DEF Next, LockStep
<1> QED
  BY <1>1, <1>2, TypeInvInit, TypeInvStep, LedgerInvInit, LedgerInvStep, PTL DEF Spec

-----------------------------------------------------------------------------
(* The refinement.  Whatever is open on disk and not asked to close is also  *)
(* in the map that the next rewrite writes, and in a stranded .tmp file or    *)
(* among what that file lacks.                                                *)

Unasked == openFile \ closing

DurableInv == /\ up => Unasked \subseteq openTrades
              /\ "tmp" \in dir => Unasked \subseteq tmpFile \cup missing

LEMMA DurableInvStep ==
  ASSUME TypeInv, LedgerInv, DurableInv, [Next]_vars
  PROVE  DurableInv'
<1> USE DEF index, lock, openFiles, closedFiles, fresh, bounds, history, Unasked,
            DurableInv
<1>t. TypeOK /\ LockInv /\ SeqFacts(queue, Call)
  BY QueueFacts DEF TypeInv, TypeOK
\* The steps that leave the files alone.
<1>f. ASSUME UNCHANGED <<up, openFiles>>,
             openTrades \subseteq openTrades', closing \subseteq closing'
      PROVE  DurableInv'
  BY <1>f
<1>1. CASE UNCHANGED vars
  BY <1>1, <1>f DEF vars
<1>2. CASE Callers
  BY <1>2, <1>f DEF Callers, PlanEntry, ResolveCampaign, PersistCall, CloseCall, MfeCall
<1>3. CASE PersistDuplicate \/ PersistNew \/ CloseDuplicate \/ RunMfe
  BY <1>3, <1>f DEF PersistDuplicate, PersistNew, CloseDuplicate, RunMfe
<1>4. CASE CloseNew
  <2>1. Head(queue).trade \in closing
    BY <1>4, <1>t DEF CloseNew, Holds, LockInv, SeqFacts
  <2> QED
    BY <1>4, <2>1 DEF CloseNew
<1>5. CASE WriteTmp
  BY <1>5, <1>t DEF WriteTmp, LockInv
<1>6. CASE RenameTmp
  BY <1>6, <1>t DEF RenameTmp, LockInv, LedgerInv
<1>7. CASE AppendClosed
  BY <1>7, <1>f DEF AppendClosed
\* A write that stopped half-way: what the .tmp lacks of the map is missing.
<1>h. ASSUME Interrupted, up
      PROVE  UNCHANGED openFile /\ ("tmp" \in dir' => Unasked \subseteq tmpFile' \cup missing')
  BY <1>h DEF Interrupted
<1>8. CASE IOFails
  <2>1. up /\ Interrupted /\ UNCHANGED <<up, openTrades, closing>>
    BY <1>8, <1>t DEF IOFails, LockInv
  <2> QED
    BY <2>1, <1>h
<1>9. CASE Crash
  <2>1. up /\ Interrupted /\ ~up' /\ UNCHANGED closing
    BY <1>9 DEF Crash
  <2> QED
    BY <2>1, <1>h
<1>10. CASE Recover
  BY <1>10 DEF Recover, SettleTmp
<1>11. CASE ArchiveRead \/ ArchiveRename \/ ArchiveTruncate \/ ArchiveFails \/ Tick
  BY <1>11, <1>f DEF ArchiveRead, ArchiveRename, ArchiveTruncate, ArchiveFails, Tick
<1> QED
  BY <1>1, <1>2, <1>3, <1>4, <1>5, <1>6, <1>7, <1>8, <1>9, <1>10, <1>11
  DEF Next, LockStep

\* Every step of the store is a step of TradeLedger or changes nothing of it.
LEMMA PromiseStep ==
  ASSUME TypeInv, LedgerInv, DurableInv, [Next]_vars
  PROVE  [Promise!Next]_<<openFile, acked, closing, ackedClosed, missing>>
<1> USE DEF index, lock, openFiles, closedFiles, fresh, bounds, history, Unasked,
            DurableInv
<1>t. TypeOK /\ LockInv /\ SeqFacts(queue, Call)
  BY QueueFacts DEF TypeInv, TypeOK
<1> DEFINE Still == UNCHANGED <<openFile, acked, closing, ackedClosed, missing>>
<1>1. CASE UNCHANGED vars
  BY <1>1 DEF vars
<1>2. CASE Callers
  <2>1. closing \subseteq closing' /\ UNCHANGED <<openFile, acked, ackedClosed, missing>>
    BY <1>2 DEF Callers, PlanEntry, ResolveCampaign, PersistCall, CloseCall, MfeCall
  <2> QED
    BY <2>1 DEF Promise!Next, Promise!Asks
<1>3. CASE PersistDuplicate \/ PersistNew \/ CloseDuplicate \/ CloseNew \/ RunMfe
  BY <1>3 DEF PersistDuplicate, PersistNew, CloseDuplicate, CloseNew, RunMfe
<1>w. CASE WriteTmp
  BY <1>w DEF WriteTmp, Promise!Next, Promise!Breaks
<1>4. CASE RenameTmp
  <2>1. up /\ tmpFile = openTrades
    BY <1>4, <1>t DEF RenameTmp, LockInv, LedgerInv
  <2>2. acked' \subseteq acked \cup openTrades /\ acked \subseteq acked'
    BY <1>4, <1>t DEF RenameTmp, LockInv
  <2>3. openFile' = openTrades /\ UNCHANGED <<closing, ackedClosed, missing>>
    BY <1>4, <2>1 DEF RenameTmp
  <2>5. missing = {}
    BY <1>4 DEF RenameTmp, LedgerInv
  <2>4. openTrades \cap ackedClosed = {}
    BY DEF LedgerInv
  <2> QED
    BY <2>1, <2>2, <2>3, <2>4, <2>5 DEF Promise!Next, Promise!Rewrites
<1>5. CASE AppendClosed
  <2>1. stage = "append" /\ Head(queue).op = "close" /\ queue # <<>>
    BY <1>5, <1>t DEF AppendClosed, LockInv
  <2>2. /\ Head(queue).trade \in closing /\ Head(queue).trade \notin openTrades
        /\ openFile = openTrades
    BY <1>t, <2>1 DEF LockInv, SeqFacts, LedgerInv
  <2>3. /\ ackedClosed' = ackedClosed \cup {Head(queue).trade}
        /\ UNCHANGED <<openFile, acked, closing, missing>>
    BY <1>5 DEF AppendClosed
  <2> QED
    BY <2>2, <2>3 DEF Promise!Next, Promise!Answers
<1>6. CASE IOFails
  BY <1>6 DEF IOFails, Interrupted, Promise!Next, Promise!Breaks
<1>7. CASE Crash
  BY <1>7 DEF Crash, Interrupted, Promise!Next, Promise!Breaks
<1>8. CASE Recover
  <2>1. /\ \/ UNCHANGED openFile
           \/ "tmp" \in dir /\ openFile' = tmpFile /\ missing' = {}
        /\ UNCHANGED <<acked, closing, ackedClosed>>
    BY <1>8 DEF Recover, SettleTmp
  <2>2. tmpFile \cap ackedClosed = {}
    BY DEF LedgerInv
  <2>3. CASE UNCHANGED openFile
    BY <2>1, <2>3 DEF Promise!Next, Promise!Breaks
  <2>4. CASE "tmp" \in dir /\ openFile' = tmpFile /\ missing' = {}
    BY <2>1, <2>2, <2>4 DEF Promise!Next, Promise!Rewrites, Promise!Salvages
  <2> QED
    BY <2>1, <2>3, <2>4
<1>9. CASE ArchiveRead \/ ArchiveRename \/ ArchiveTruncate \/ ArchiveFails \/ Tick
  BY <1>9 DEF ArchiveRead, ArchiveRename, ArchiveTruncate, ArchiveFails, Tick
<1> QED
  BY <1>1, <1>2, <1>3, <1>w, <1>4, <1>5, <1>6, <1>7, <1>8, <1>9 DEF Next, LockStep

\* The store implements TradeLedger, also when writes stop half-way: a restart
\* finds what the answers have promised, less what a half-written .tmp that it
\* promotes lacks.
THEOREM KeepsPromiseHolds == Spec => KeepsPromise
<1>1. Init => Promise!Init /\ DurableInv
  BY DEF Init, Promise!Init, DurableInv, Unasked
<1>2. TypeInv /\ LedgerInv /\ DurableInv /\ [Next]_vars => DurableInv'
  BY DurableInvStep
<1>3. TypeInv /\ LedgerInv /\ DurableInv /\ [Next]_vars
        => [Promise!Next]_<<openFile, acked, closing, ackedClosed, missing>>
  BY PromiseStep
<1>4. KeepsPromise <=> Promise!Init
                       /\ [][Promise!Next]_<<openFile, acked, closing, ackedClosed, missing>>
  BY DEF KeepsPromise, Promise!Spec
<1> QED
  BY <1>1, <1>2, <1>3, <1>4, LedgerInvariant, PTL DEF Spec

-----------------------------------------------------------------------------
(* Campaigns.  An id is taken by one key for good: by the index, by an entry *)
(* of the ledger, or by a call that chose it and has not persisted yet.      *)

Takes(k, c) ==
  \/ campaigns[k].id = c
  \/ \E t \in Trades : info[t].key = k /\ info[t].campaign = c
  \/ \E p \in planned : p.key = k /\ p.campaign = c
  \/ \E i \in DOMAIN queue :
       queue[i].op = "persist" /\ queue[i].key = k /\ queue[i].campaign = c

TakenInv ==
  /\ \A c \in Ids : \A k, l \in Keys : Takes(k, c) /\ Takes(l, c) => k = l
  /\ \A c \in Ids : \A k \in Keys : Takes(k, c) => c < nextCampaign

\* A step that lets one key take one id, either its own already or a new one.
LEMMA TakeOne ==
  ASSUME TypeOK, TakenInv, nextCampaign' \in Ids, nextCampaign <= nextCampaign',
         NEW k0 \in Keys, NEW c0 \in Ids,
         Takes(k0, c0) \/ (c0 = nextCampaign /\ nextCampaign < nextCampaign'),
         \A c \in Ids : \A k \in Keys :
           Takes(k, c)' => Takes(k, c) \/ (k = k0 /\ c = c0)
  PROVE  TakenInv'
<1> USE DEF TypeOK, Ids
<1>1. ASSUME NEW c \in Ids, NEW k \in Keys, Takes(k, c)' PROVE c < nextCampaign'
  BY <1>1 DEF TakenInv
<1>2. ASSUME NEW c \in Ids, NEW k \in Keys, NEW l \in Keys, Takes(k, c)', Takes(l, c)'
      PROVE  k = l
  BY <1>2 DEF TakenInv
<1> QED
  BY <1>1, <1>2 DEF TakenInv

\* A step that takes nothing.
LEMMA TakeNone ==
  ASSUME TypeOK, TakenInv, nextCampaign' = nextCampaign,
         \A c \in Ids : \A k \in Keys : Takes(k, c)' => Takes(k, c)
  PROVE  TakenInv'
BY DEF TakenInv

\* What CampaignAt chooses may be taken.
LEMMA ChosenCampaign ==
  ASSUME TypeOK, TakenInv, NEW k \in Keys, NEW at \in Nat, Draw(CampaignAt(k, at))
  PROVE  /\ CampaignAt(k, at) \in Ids
         /\ nextCampaign' \in Ids /\ nextCampaign <= nextCampaign'
         /\ \/ Takes(k, CampaignAt(k, at))
            \/ CampaignAt(k, at) = nextCampaign /\ nextCampaign < nextCampaign'
BY DEF CampaignAt, Draw, Takes, TypeOK, Ids, None

LEMMA TakenInvStep == TypeInv /\ TakenInv /\ [Next]_vars => TakenInv'
<1> SUFFICES ASSUME TypeOK, LockInv, TakenInv, [Next]_vars PROVE TakenInv'
  BY DEF TypeInv
<1> USE DEF index, lock, openFiles, closedFiles, fresh, bounds, history
<1>q. SeqFacts(queue, Call) /\ SeqFacts(info, Entry)
  BY QueueFacts DEF TypeOK
<1>h. ASSUME Holds("persist")
      PROVE  /\ 1 \in DOMAIN queue /\ Head(queue) = queue[1]
             /\ Head(queue) \in PersistOp /\ Head(queue).op = "persist"
             /\ Head(queue).key \in Keys /\ Head(queue).at \in Nat
             /\ Head(queue).campaign \in Nat
  BY <1>h, <1>q DEF Holds, SeqFacts, Call, PersistOp, CloseOp, MfeOp
\* The steps that leave campaigns, entries and plans alone and at most take a
\* call out of the queue.
<1>f. ASSUME UNCHANGED <<campaigns, nextCampaign, info, planned>>,
             queue' = queue \/ (queue # <<>> /\ Release)
      PROVE  TakenInv'
  <2>1. \A i \in DOMAIN queue' : \E j \in DOMAIN queue : queue'[i] = queue[j]
    BY <1>f, <1>q DEF Release, SeqFacts
  <2>2. ASSUME NEW c \in Ids, NEW k \in Keys, Takes(k, c)' PROVE Takes(k, c)
    BY <1>f, <2>1, <2>2 DEF Takes, Trades
  <2> QED
    BY <1>f, <2>2, TakeNone
<1>n. ASSUME NEW op \in Call, Enqueue(op),
             UNCHANGED <<campaigns, nextCampaign, info>>, planned' \subseteq planned,
             op.op = "persist" => op.campaign = None \/ Takes(op.key, op.campaign)
      PROVE  TakenInv'
  <2>1. \A i \in DOMAIN queue' : queue'[i] = op \/ \E j \in DOMAIN queue : queue'[i] = queue[j]
    BY <1>n, <1>q DEF Enqueue, SeqFacts
  <2>2. ASSUME NEW c \in Ids, NEW k \in Keys, Takes(k, c)' PROVE Takes(k, c)
    <3>1. CASE \E i \in DOMAIN queue' : queue'[i].op = "persist" /\ queue'[i].key = k
                                       /\ queue'[i].campaign = c
      BY <1>n, <2>1, <3>1 DEF Takes, None, Ids
    <3>2. CASE ~\E i \in DOMAIN queue' : queue'[i].op = "persist" /\ queue'[i].key = k
                                        /\ queue'[i].campaign = c
      BY <1>n, <2>2, <3>2 DEF Takes, Trades
    <3> QED
      BY <3>1, <3>2
  <2> QED
    BY <1>n, <2>2, TakeNone
<1>1. CASE UNCHANGED vars
  BY <1>1, <1>f DEF vars
<1>2. ASSUME NEW o \in Orders, NEW k \in Keys, PlanEntry(o, k) PROVE TakenInv'
  <2> DEFINE c0 == CampaignAt(k, now)
             p0 == [op |-> "persist", order |-> o, key |-> k, campaign |-> c0, at |-> now]
  <2>1. now \in Nat /\ Draw(c0) /\ planned' = planned \cup {p0}
        /\ UNCHANGED <<campaigns, info, queue>>
    BY <1>2 DEF PlanEntry, TypeOK
  <2>2. ASSUME NEW c \in Ids, NEW l \in Keys, Takes(l, c)'
        PROVE  Takes(l, c) \/ (l = k /\ c = c0)
    <3>1. p0.key = k /\ p0.campaign = c0
      OBVIOUS
    <3> HIDE DEF p0, c0
    <3> QED
      BY <2>1, <2>2, <3>1 DEF Takes, Trades
  <2> QED
    BY <2>1, <2>2, ChosenCampaign, TakeOne
<1>3. ASSUME NEW k \in Keys, ResolveCampaign(k) PROVE TakenInv'
  <2> DEFINE c0 == CampaignAt(k, now)
  <2>1. now \in Nat /\ Draw(c0) /\ UNCHANGED <<planned, info, queue>>
        /\ campaigns' = [campaigns EXCEPT ![k] = [id |-> c0, last |-> now]]
    BY <1>3 DEF ResolveCampaign, TypeOK
  <2>2. ASSUME NEW c \in Ids, NEW l \in Keys, Takes(l, c)'
        PROVE  Takes(l, c) \/ (l = k /\ c = c0)
    <3> HIDE DEF c0
    <3> QED
      BY <2>1, <2>2 DEF Takes, Trades, TypeOK
  <2> QED
    BY <2>1, <2>2, ChosenCampaign, TakeOne
<1>4. ASSUME NEW p \in PersistOp, PersistCall(p),
             p.campaign = None \/ Takes(p.key, p.campaign)
      PROVE  TakenInv'
  <2>1. p \in Call
    BY DEF Call
  <2> QED
    BY <1>4, <1>n, <2>1 DEF PersistCall
<1>5. ASSUME NEW t \in Trades, CloseCall(t) PROVE TakenInv'
  <2>1. [op |-> "close", trade |-> t] \in Call
    BY <1>q DEF Call, CloseOp, Trades, Ids, SeqFacts
  <2> QED
    BY <1>5, <1>n, <2>1 DEF CloseCall
<1>6. ASSUME NEW t \in Trades, MfeCall(t) PROVE TakenInv'
  <2>1. [op |-> "mfe"] \in Call
    BY DEF Call, MfeOp
  <2> QED
    BY <1>6, <1>n, <2>1 DEF MfeCall
<1>7. CASE PersistDuplicate
  <2> DEFINE p == Head(queue)
             c0 == CampaignAt(p.key, p.at)
  <2>1. CASE p.campaign # None
    BY <1>7, <1>f, <2>1 DEF PersistDuplicate, Holds
  <2>2. CASE p.campaign = None
    <3>1. /\ p.key \in Keys /\ p.at \in Nat /\ Draw(c0)
          /\ campaigns' = [campaigns EXCEPT ![p.key] = [id |-> c0, last |-> p.at]]
          /\ UNCHANGED <<planned, info>>
      BY <1>7, <1>h, <2>2 DEF PersistDuplicate
    <3>2. \A i \in DOMAIN queue' : \E j \in DOMAIN queue : queue'[i] = queue[j]
      BY <1>7, <1>q DEF PersistDuplicate, Holds, Release, SeqFacts
    <3>3. ASSUME NEW c \in Ids, NEW l \in Keys, Takes(l, c)'
          PROVE  Takes(l, c) \/ (l = p.key /\ c = c0)
      <4> HIDE DEF c0, p
      <4> QED
        BY <3>1, <3>2, <3>3 DEF Takes, Trades, TypeOK
    <3> QED
      BY <3>1, <3>3, ChosenCampaign, TakeOne
  <2> QED
    BY <2>1, <2>2
<1>8. CASE PersistNew
  <2> DEFINE p == Head(queue)
             c0 == IF p.campaign # None THEN p.campaign ELSE CampaignAt(p.key, p.at)
             t == Len(info) + 1
  <2>1. /\ p.key \in Keys /\ p.at \in Nat /\ p.campaign \in Nat
        /\ 1 \in DOMAIN queue /\ queue[1] = p /\ p.op = "persist"
    BY <1>8, <1>h DEF PersistNew
  <2>2. /\ Draw(c0) /\ UNCHANGED <<planned, queue>>
        /\ campaigns' = [campaigns EXCEPT ![p.key] = [id |-> c0, last |-> p.at]]
    BY <1>8 DEF PersistNew
  <2>3. /\ Trades' = Trades \cup {t} /\ \A u \in Trades : info'[u] = info[u]
        /\ info'[t].key = p.key
    BY <1>8, NewTrade
  <2>4. info'[t].campaign = c0
    <3> DEFINE e == [order |-> p.order, key |-> p.key, campaign |-> c0, at |-> p.at]
    <3>1. info' = Append(info, e)
      BY <1>8 DEF PersistNew
    <3>2. info \in Seq(Entry)
      BY DEF TypeOK
    <3>3. Append(info, e)[Len(info) + 1] = e
      BY <3>2, <1>q DEF SeqFacts
    <3> QED
      BY <3>1, <3>3
  <2>5. /\ c0 \in Ids
        /\ nextCampaign' \in Ids /\ nextCampaign <= nextCampaign'
        /\ Takes(p.key, c0) \/ (c0 = nextCampaign /\ nextCampaign < nextCampaign')
    <3>1. CASE p.campaign # None
      <4>1. c0 \in Ids /\ Takes(p.key, c0)
        BY <2>1, <3>1 DEF Takes, Ids, None
      <4>2. nextCampaign' \in Ids /\ nextCampaign <= nextCampaign'
        BY <2>2, <4>1 DEF Draw, TypeOK, Ids
      <4> QED
        BY <4>1, <4>2
    <3>2. CASE p.campaign = None
      BY <2>1, <2>2, <3>2, ChosenCampaign
    <3> QED
      BY <3>1, <3>2
  <2>6. ASSUME NEW c \in Ids, NEW l \in Keys, Takes(l, c)'
        PROVE  Takes(l, c) \/ (l = p.key /\ c = c0)
    <3> HIDE DEF c0, p, t
    <3> QED
      BY <2>1, <2>2, <2>3, <2>4, <2>6 DEF Takes, TypeOK
  <2> QED
    BY <2>1, <2>5, <2>6, TakeOne
<1>9. CASE CloseDuplicate
  BY <1>9, <1>f DEF CloseDuplicate, Holds
<1>10. CASE CloseNew \/ RunMfe \/ WriteTmp
  BY <1>10, <1>f DEF CloseNew, RunMfe, WriteTmp
<1>11. CASE RenameTmp
  BY <1>11, <1>f DEF RenameTmp, LockInv
<1>12. CASE AppendClosed
  BY <1>12, <1>f DEF AppendClosed, LockInv
<1>13. CASE IOFails
  BY <1>13, <1>f DEF IOFails, LockInv
<1>14. CASE Crash
  <2>1. /\ campaigns' = [k \in Keys |-> NoCampaign] /\ queue' = <<>> /\ planned' = {}
        /\ UNCHANGED <<info, nextCampaign>>
    BY <1>14 DEF Crash
  <2>2. DOMAIN queue' = {}
    BY <2>1
  <2>3. ASSUME NEW c \in Ids, NEW k \in Keys, Takes(k, c)' PROVE Takes(k, c)
    BY <2>1, <2>2, <2>3 DEF Takes, Trades, NoCampaign, None, Ids
  <2> QED
    BY <2>1, <2>3, TakeNone
<1>15. CASE Recover
  <2>1. /\ UNCHANGED <<info, nextCampaign, queue, planned>>
        /\ openFile' \subseteq Trades
    BY <1>15 DEF Recover, SettleTmp, TypeOK
  <2>2. ASSUME NEW c \in Ids, NEW k \in Keys, campaigns'[k].id = c PROVE Takes(k, c)
    <3> DEFINE L == Latest(k, openFile')
               T == CHOOSE t \in L : TRUE
    <3>1. campaigns'[k] = IF L = {} THEN NoCampaign
                          ELSE [id |-> info[T].campaign, last |-> info[T].at]
      BY <1>15 DEF Recover
    <3>2. L # {} => T \in Trades /\ info[T].key = k
      BY <2>1 DEF Latest
    <3> HIDE DEF T, L
    <3> QED
      BY <2>2, <3>1, <3>2 DEF Takes, NoCampaign, None, Ids
  <2>3. ASSUME NEW c \in Ids, NEW k \in Keys, Takes(k, c)' PROVE Takes(k, c)
    BY <2>1, <2>2, <2>3 DEF Takes, Trades
  <2> QED
    BY <2>1, <2>3, TakeNone
<1>16. CASE ArchiveRead \/ ArchiveRename \/ ArchiveTruncate \/ ArchiveFails \/ Tick
  BY <1>16, <1>f DEF ArchiveRead, ArchiveRename, ArchiveTruncate, ArchiveFails, Tick
<1>17. CASE Callers
  <2>1. \A p \in planned :
          LET q == [p EXCEPT !.at = now]
          IN  /\ p \in PersistOp /\ q \in PersistOp
              /\ Takes(p.key, p.campaign) /\ Takes(q.key, q.campaign)
    BY DEF TypeOK, PersistOp, Takes
  <2>2. \A o \in Orders, k \in Keys :
          LET q == [op |-> "persist", order |-> o, key |-> k, campaign |-> None, at |-> now]
          IN  q \in PersistOp /\ q.campaign = None
    BY DEF TypeOK, PersistOp, None
  <2> QED
    BY <1>17, <1>2, <1>3, <1>4, <1>5, <1>6, <2>1, <2>2 DEF Callers
<1> QED
  BY <1>1, <1>7, <1>8, <1>9, <1>10, <1>11, <1>12, <1>13, <1>14, <1>15, <1>16, <1>17
  DEF Next, LockStep

\* All trades of a campaign have one symbol and side, whatever time passes
\* between choosing the id and persisting the entry, and whatever a restart
\* rebuilds the index from.
THEOREM CampaignOneKeyHolds == Spec => []CampaignOneKey
<1>1. Init => TakenInv
  <2>1. ASSUME Init PROVE DOMAIN queue = {} /\ DOMAIN info = {}
    BY <2>1 DEF Init
  <2> QED
    BY <2>1 DEF Init, TakenInv, Takes, Trades, NoCampaign, None, Ids
<1>2. ASSUME TypeInv, TakenInv PROVE CampaignOneKey
  <2>1. \A t \in Trades : info[t].campaign \in Ids /\ info[t].key \in Keys
    <3>1. SeqFacts(info, Entry)
      BY <1>2, QueueFacts DEF TypeInv, TypeOK
    <3> QED
      BY <3>1 DEF SeqFacts, Trades, Entry
  <2> QED
    BY <1>2, <2>1 DEF TakenInv, Takes, CampaignOneKey
<1> QED
  BY <1>1, <1>2, TypeInvInit, TypeInvStep, TakenInvStep, PTL DEF Spec
-----------------------------------------------------------------------------
(* The findings.  demo_archive_race and demo_crash_close each show one way to *)
(* lose a closed trade, a line glued to a half-written one is a third, and a   *)
(* promoted half-written .tmp loses an open one: there is no other.            *)

\* A close whose maps have changed is cut short before its line is in the ledger.
CloseCut ==
  /\ Crash \/ IOFails
  /\ stage # "ready" /\ Head(queue).op = "close"

\* A line of a close is glued to half a line that an interrupted append left.
LineGlued == AppendClosed /\ tornTail

\* What taking the lock would give the archive: no line is appended between its
\* rename and its truncation.
ArchiveApart == archiver = "truncate" => stage # "append"

\* With the archive apart it truncates an empty file.
LinesInv == archiver = "truncate" => closedFile = <<>>

LEMMA LinesStay ==
  ASSUME TypeInv, LinesInv, ArchiveApart, [Next /\ ~LineGlued]_vars
  PROVE  /\ LinesInv' /\ \A t : Occurs(Ledger, t) => Occurs(Ledger', t)
         /\ \/ UNCHANGED ackedClosed
            \/ /\ AppendClosed /\ ackedClosed' = ackedClosed \cup {Head(queue).trade}
               /\ Occurs(Ledger', Head(queue).trade)
<1> USE DEF index, lock, openFiles, closedFiles, fresh, bounds, history, LinesInv
<1>t. TypeOK /\ LockInv /\ SeqFacts(queue, Call)
  BY QueueFacts DEF TypeInv, TypeOK
\* The steps that leave the ledger alone.
<1>f. ASSUME UNCHANGED <<closedFile, archived, ackedClosed>>,
             archiver' = "truncate" => archiver = "truncate"
      PROVE  LinesInv' /\ Ledger' = Ledger /\ UNCHANGED ackedClosed
  BY <1>f DEF Ledger
<1>1. CASE UNCHANGED vars
  BY <1>1, <1>f DEF vars
<1>2. CASE Callers
  BY <1>2, <1>f DEF Callers, PlanEntry, ResolveCampaign, PersistCall, CloseCall, MfeCall
<1>3. CASE \/ PersistDuplicate \/ PersistNew \/ CloseDuplicate \/ CloseNew \/ RunMfe
           \/ WriteTmp \/ RenameTmp
  BY <1>3, <1>f DEF PersistDuplicate, PersistNew, CloseDuplicate, CloseNew, RunMfe, WriteTmp,
     RenameTmp
<1>4. CASE AppendClosed
  <2> DEFINE n == Head(queue).trade
  <2>g. ~tornTail
    BY <1>4 DEF LineGlued, AppendClosed, vars
  <2>1. stage = "append" /\ queue # <<>> /\ Head(queue) \in Call /\ Head(queue).op = "close"
    BY <1>4, <1>t DEF AppendClosed, LockInv, SeqFacts
  <2>2. n \in Nat
    BY <2>1 DEF Call, PersistOp, CloseOp, MfeOp, Ids
  <2>3. Ledger' = Append(Ledger, n) /\ Ledger \in Seq(Nat)
    BY <1>4, <1>t, <2>g, <2>2, LedgerAppend DEF AppendClosed, Ledger
  <2>4. \A t : Occurs(Append(Ledger, n), t) <=> Occurs(Ledger, t) \/ t = n
    BY <2>2, <2>3, AppendLine
  <2>5. ackedClosed' = ackedClosed \cup {n} /\ archiver' = archiver
    BY <1>4 DEF AppendClosed
  <2>6. archiver # "truncate"
    BY <2>1 DEF ArchiveApart
  <2>7. \A t : Occurs(Ledger', t) <=> Occurs(Ledger, t) \/ t = n
    BY <2>3, <2>4
  <2> QED
    BY <1>4, <2>5, <2>6, <2>7
<1>5. CASE IOFails \/ Crash
  <2>1. /\ Interrupted /\ UNCHANGED ackedClosed
        /\ archiver' = "truncate" => archiver = "truncate"
    BY <1>5 DEF IOFails, Crash
  <2>2. CASE UNCHANGED closedFiles
    BY <2>1, <2>2, <1>f
  <2>3. CASE stage = "append" /\ closedFile' = Append(closedFile, Torn) /\ UNCHANGED archived
    <3>1. Ledger' = Append(Ledger, Torn) /\ Ledger \in Seq(Nat)
      BY <1>t, <2>3, LedgerAppend DEF Ledger, Torn, TypeOK
    <3>2. \A t : Occurs(Ledger, t) => Occurs(Ledger', t)
      BY <3>1, AppendLine DEF Torn
    <3> QED
      BY <2>1, <2>3, <3>2 DEF ArchiveApart
  <2> QED
    BY <2>1, <2>2, <2>3 DEF Interrupted
<1>6. CASE Recover
  BY <1>6, <1>f DEF Recover
<1>7. CASE ArchiveRead \/ ArchiveFails \/ Tick
  BY <1>7, <1>f DEF ArchiveRead, ArchiveFails, Tick
<1>8. CASE ArchiveRename
  <2>1. Ledger' = Ledger \o <<>> /\ Ledger \o <<>> = Ledger
    BY <1>8, <1>t, LedgerPrefix DEF ArchiveRename, Ledger
  <2>2. LinesInv' /\ UNCHANGED ackedClosed
    BY <1>8 DEF ArchiveRename
  <2> QED
    BY <2>1, <2>2
<1>9. CASE ArchiveTruncate
  BY <1>9 DEF ArchiveTruncate, Ledger
<1> QED
  BY <1>1, <1>2, <1>3, <1>4, <1>5, <1>6, <1>7, <1>8, <1>9 DEF Next, LockStep

\* A close that ran to its end is in the ledger for good, unless its line came
\* between the two steps of the archive, or after half a line of an append that
\* was interrupted: the lock is all that archiveClosedIfNeeded lacks, and a
\* newline in front all that appendLine does.
THEOREM ArchiveRaceIsTheOnlyLoss ==
  Spec /\ []ArchiveApart /\ [][~LineGlued]_vars => []CompletedCloseLedgered
<1>1. Init => LinesInv /\ CompletedCloseLedgered
  BY DEF Init, LinesInv, CompletedCloseLedgered
<1>2. TypeInv /\ LinesInv /\ CompletedCloseLedgered /\ ArchiveApart
        /\ [Next]_vars /\ [~LineGlued]_vars
        => LinesInv' /\ CompletedCloseLedgered'
  BY LinesStay DEF CompletedCloseLedgered
<1> QED
  BY <1>1, <1>2, TypeInvInit, TypeInvStep, PTL DEF Spec

\* A persisted trade is in the ledger, being closed, lost to a half-written .tmp,
\* or wherever a restart and the next rewrite look for the open ones.
BeingClosed(t) == stage # "ready" /\ Head(queue).op = "close" /\ Head(queue).trade = t
OpenForGood(t) == t \in openFile /\ (up => t \in openTrades) /\ ("tmp" \in dir => t \in tmpFile \cup missing)
Accounted(t)   == Occurs(Ledger, t) \/ BeingClosed(t) \/ OpenForGood(t) \/ t \in cut
AccountedInv   == ~tornTail /\ \A t \in acked : Accounted(t)

LEMMA HeadOfAppend ==
  ASSUME NEW S, NEW q \in Seq(S), NEW e, q # <<>>
  PROVE  Head(Append(q, e)) = Head(q)
<1>1. q \in Seq(S \cup {e}) /\ e \in S \cup {e}
  BY SeqDef
<1> QED
  BY <1>1, HeadTailAppend

LEMMA AccountedStep ==
  ASSUME TypeInv, LedgerInv, LinesInv, AccountedInv, ArchiveApart,
         [Next /\ ~CloseCut]_vars
  PROVE  AccountedInv'
<1> USE DEF index, lock, openFiles, closedFiles, fresh, bounds, history, Accounted
<1>t. TypeOK /\ LockInv /\ SeqFacts(queue, Call)
  BY QueueFacts DEF TypeInv, TypeOK
<1>l. \A t : Occurs(Ledger, t) => Occurs(Ledger', t)
  BY LinesStay DEF AccountedInv, LineGlued
\* Half a line is left by a close that is cut short, and by nothing else.
<1>g. ~tornTail'
  <2> USE DEF AccountedInv
  <2>1. CASE IOFails \/ Crash
    <3>1. Interrupted /\ (stage = "append" => CloseCut)
      BY <2>1, <1>t DEF IOFails, Crash, CloseCut, LockInv
    <3>2. ~CloseCut
      BY <2>1, <1>t DEF vars, IOFails, Crash, TypeOK, LockInv
    <3> QED
      BY <3>1, <3>2 DEF Interrupted
  <2>2. CASE UNCHANGED tornTail \/ ~tornTail'
    BY <2>2
  <2>3. CASE Callers \/ Recover \/ Tick \/ UNCHANGED vars
    BY <2>3 DEF Callers, PlanEntry, ResolveCampaign, PersistCall, CloseCall, MfeCall, Recover,
       Tick, vars
  <2>4. CASE LockStep
    BY <2>4 DEF LockStep, PersistDuplicate, PersistNew, CloseDuplicate, CloseNew, RunMfe,
       WriteTmp, RenameTmp, AppendClosed
  <2>5. CASE ArchiveRead \/ ArchiveRename \/ ArchiveTruncate \/ ArchiveFails
    BY <2>5 DEF ArchiveRead, ArchiveRename, ArchiveTruncate, ArchiveFails
  <2> QED
    BY <2>1, <2>2, <2>3, <2>4, <2>5 DEF Next
\* The steps that leave the open trades, the files and the holder alone.
<1>f. ASSUME UNCHANGED <<up, openFiles, acked, stage>>, openTrades \subseteq openTrades',
             stage # "ready" => queue # <<>> /\ Head(queue') = Head(queue)
      PROVE  AccountedInv'
  BY <1>f, <1>g, <1>l DEF AccountedInv, BeingClosed, OpenForGood
<1>1. CASE UNCHANGED vars
  BY <1>1, <1>f, <1>t DEF vars, LockInv
<1>2. CASE Callers
  <2>1. /\ UNCHANGED <<up, openFiles, acked, stage, openTrades>>
        /\ queue' = queue \/ \E e : queue' = Append(queue, e)
    BY <1>2 DEF Callers, PlanEntry, ResolveCampaign, PersistCall, CloseCall, MfeCall, Enqueue
  <2>2. ASSUME stage # "ready" PROVE queue # <<>> /\ Head(queue') = Head(queue)
    BY <2>1, <2>2, <1>t, HeadOfAppend DEF LockInv, TypeOK
  <2> QED
    BY <2>1, <2>2, <1>f
<1>3. CASE PersistDuplicate \/ CloseDuplicate \/ PersistNew \/ RunMfe
  BY <1>3, <1>g, <1>l DEF PersistDuplicate, CloseDuplicate, PersistNew, RunMfe, Holds, Release,
     AccountedInv, BeingClosed, OpenForGood
<1>4. CASE CloseNew
  <2>1. /\ stage' = "write" /\ queue' = queue /\ Head(queue).op = "close" /\ stage = "ready"
        /\ openTrades' = openTrades \ {Head(queue).trade}
        /\ UNCHANGED <<up, openFiles, acked>>
    BY <1>4 DEF CloseNew, Holds
  <2> QED
    BY <2>1, <1>g, <1>l DEF AccountedInv, BeingClosed, OpenForGood
<1>5. CASE WriteTmp
  <2>1. /\ stage = "write" /\ stage' = "rename" /\ tmpFile' = openTrades
        /\ UNCHANGED <<up, openTrades, queue, openFile, acked, cut>>
    BY <1>5 DEF WriteTmp
  <2>2. up
    BY <2>1, <1>t DEF LockInv
  <2> QED
    BY <2>1, <2>2, <1>g, <1>l DEF AccountedInv, BeingClosed, OpenForGood
<1>6. CASE RenameTmp
  <2>1. /\ stage = "rename" /\ openFile' = tmpFile /\ dir' = {"open"}
        /\ UNCHANGED <<up, openTrades, cut>>
        /\ acked' \subseteq acked \cup IF Head(queue).op = "persist"
                                         THEN {openByOrder[Head(queue).order]} ELSE {}
        /\ Head(queue).op = "close" => stage' = "append" /\ queue' = queue
    BY <1>6 DEF RenameTmp
  <2>2. up /\ tmpFile = openTrades
    BY <2>1, <1>t DEF LockInv, LedgerInv
  <2>3. Head(queue).op = "persist" => openByOrder[Head(queue).order] \in openTrades
    BY <2>1, <1>t DEF LockInv
  <2>4. ASSUME NEW t \in acked' PROVE Accounted(t)'
    <3>1. CASE t \in openTrades
      BY <2>1, <2>2, <3>1 DEF OpenForGood
    <3>2. CASE t \in acked /\ t \notin openTrades
      BY <2>1, <2>2, <3>2, <1>l DEF AccountedInv, BeingClosed, OpenForGood
    <3> QED
      BY <2>1, <2>3, <2>4, <3>1, <3>2
  <2> QED
    BY <2>4, <1>g DEF AccountedInv
<1>7. CASE AppendClosed
  <2>1. Occurs(Ledger', Head(queue).trade)
    <3>1. Head(queue).trade \notin ackedClosed /\ ackedClosed' = ackedClosed \cup {Head(queue).trade}
      BY <1>7, <1>t DEF AppendClosed, LockInv, LedgerInv
    <3> QED
      BY <3>1, LinesStay DEF AccountedInv, LineGlued
  <2>2. UNCHANGED <<up, openTrades, openFiles, acked>>
    BY <1>7 DEF AppendClosed
  <2> QED
    BY <2>1, <2>2, <1>g, <1>l DEF AccountedInv, BeingClosed, OpenForGood
<1>8. CASE (IOFails \/ Crash) /\ ~CloseCut
  <2>1. /\ stage # "ready" => Head(queue).op # "close"
        /\ Interrupted /\ UNCHANGED acked
        /\ up /\ (up' => UNCHANGED openTrades)
    BY <1>8, <1>t DEF CloseCut, IOFails, Crash, LockInv
  <2>2. ASSUME NEW t \in acked PROVE Accounted(t)'
    <3>1. Occurs(Ledger, t) \/ t \in cut \/ OpenForGood(t)
      BY <2>1 DEF AccountedInv, BeingClosed
    <3>2. CASE Occurs(Ledger, t) \/ t \in cut
      BY <2>1, <3>2, <1>l DEF Interrupted
    <3>3. CASE OpenForGood(t)
      BY <2>1, <3>3 DEF Interrupted, OpenForGood
    <3> QED
      BY <3>1, <3>2, <3>3
  <2> QED
    BY <2>1, <2>2, <1>g DEF AccountedInv
<1>9. CASE Recover
  <2>1. /\ stage = "ready" /\ stage' = stage /\ openTrades' = openFile' /\ UNCHANGED acked
        /\ \/ UNCHANGED openFiles
           \/ UNCHANGED <<openFile, cut>> /\ "tmp" \notin dir'
           \/ /\ "tmp" \in dir /\ openFile' = tmpFile /\ "tmp" \notin dir'
              /\ cut' = cut \cup missing
    BY <1>9, <1>t DEF Recover, SettleTmp, LockInv
  <2> QED
    BY <2>1, <1>g, <1>l DEF AccountedInv, BeingClosed, OpenForGood
<1>10. CASE ArchiveRead \/ ArchiveRename \/ ArchiveTruncate \/ ArchiveFails \/ Tick
  BY <1>10, <1>f, <1>t DEF ArchiveRead, ArchiveRename, ArchiveTruncate, ArchiveFails, Tick, LockInv
<1> QED
  BY <1>1, <1>2, <1>3, <1>4, <1>5, <1>6, <1>7, <1>8, <1>9, <1>10 DEF Next, LockStep

\* When nobody writes, every persisted trade is open or closed on disk, or was
\* cut by a restart that promoted a half-written .tmp, provided that no close
\* was cut short between its maps and its line and that the archive dropped no
\* line: no other crash, failed write, restart or race loses a trade.  (Only a
\* close that is cut short leaves half a line for the next one to be glued to.)
THEOREM LossesAreNamed ==
  Spec /\ []ArchiveApart /\ [][~CloseCut]_vars
    => [](up /\ stage = "ready" =>
            \A t \in acked : t \in openFile \cup cut \/ Occurs(Ledger, t))
<1> DEFINE Named == up /\ stage = "ready" =>
                      \A t \in acked : t \in openFile \cup cut \/ Occurs(Ledger, t)
<1>1. Init => LinesInv /\ AccountedInv
  BY DEF Init, LinesInv, AccountedInv
<1>2. TypeInv /\ LedgerInv /\ LinesInv /\ AccountedInv /\ ArchiveApart
        /\ [Next]_vars /\ [~CloseCut]_vars
      => LinesInv' /\ AccountedInv'
  <2> SUFFICES ASSUME TypeInv, LedgerInv, LinesInv, AccountedInv, ArchiveApart,
                      [Next]_vars, [~CloseCut]_vars
               PROVE  LinesInv' /\ AccountedInv'
    OBVIOUS
  <2>1. [Next /\ ~LineGlued]_vars
    BY DEF AccountedInv, LineGlued
  <2> QED
    BY <2>1, LinesStay, AccountedStep
<1>3. AccountedInv => Named
  BY DEF AccountedInv, Accounted, BeingClosed, OpenForGood
<1> QED
  BY <1>1, <1>2, <1>3, TypeInvInit, TypeInvStep, LedgerInvInit, LedgerInvStep, PTL DEF Spec
=============================================================================
