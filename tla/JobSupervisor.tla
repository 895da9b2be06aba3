---------------------------- MODULE JobSupervisor ----------------------------
(***************************************************************************)
(* The job supervisor of the quant brain                                   *)
(* (artifacts/quant-brain/core/job_supervisor.py): calls of execute() and  *)
(* the interval jobs share one asyncio semaphore.  All run on one event    *)
(* loop, so an action is what a coroutine does from one await to the next. *)
(* Durations only decide whether a wait ends by itself or by its timeout,  *)
(* and the counters of status() are left out: nothing reads them back.     *)
(***************************************************************************)
EXTENDS Integers, FiniteSets

CONSTANTS
  Calls,          \* callers of execute(), one call at a time each
  Jobs, LowJobs,  \* registered and enabled jobs; those of priority "low"
  Keys, NoKey,    \* values of lock_key; none given
  MaxConcurrent,  \* max_concurrent_jobs
  MaxQueue,       \* max_queue_size
  \* bounds of the model
  MaxCredits

ASSUME SupervisorConstants ==
  /\ IsFiniteSet(Calls) /\ IsFiniteSet(Jobs) /\ Calls \cap Jobs = {}
  /\ LowJobs \subseteq Jobs /\ NoKey \notin Keys
  /\ MaxConcurrent \in Nat \ {0}
  /\ MaxQueue \in Nat /\ MaxCredits \in Nat

Procs == Calls \cup Jobs

\* "protection" has rank 100, the only rank that bypasses the queue;
\* "analytics" and "low" are low, all others are alike.
Classes == {"protection", "normal", "low"}

VARIABLES
  pc,        \* what a call or the task of a job is doing
  args,      \* priority and lock_key of a call
  sem,       \* _semaphore: value, place of each waiter, waiters handed a permit
  queued,    \* _queued
  locks,     \* _locks
  credits,   \* _preempt_low_priority_count
  stopping,  \* _stopping
  cancelled  \* tasks that stop() has cancelled and awaits

vars == <<pc, args, sem, queued, locks, credits, stopping, cancelled>>

NoArgs   == [class |-> "normal", key |-> NoKey]
Active   == {c \in Calls : pc[c] # "idle"}
Bypasses == {c \in Active : args[c].class = "protection"}
Holders  == {p \in Procs : pc[p] = "run"} \ Bypasses

TypeOK ==
  /\ pc \in [Procs -> {"idle", "sleep", "wait", "run", "done"}]
  /\ args \in [Calls -> [class : Classes, key : Keys \cup {NoKey}]]
  /\ sem \in [value : 0 .. MaxConcurrent, place : [Procs -> Nat], granted : SUBSET Procs]
  /\ queued \in Nat
  /\ locks \subseteq Keys
  /\ credits \in Nat
  /\ stopping \in BOOLEAN
  /\ cancelled \subseteq Jobs

Init ==
  /\ pc = [p \in Procs |-> "idle"]
  /\ args = [c \in Calls |-> NoArgs]
  /\ sem = [value |-> MaxConcurrent, place |-> [p \in Procs |-> 0], granted |-> {}]
  /\ queued = 0 /\ locks = {} /\ credits = 0
  /\ stopping = FALSE /\ cancelled = {}

-----------------------------------------------------------------------------
(* asyncio.Semaphore of Python 3.11 and later: a release hands its permit to *)
(* the first waiter whose future is not done, and the waiter takes it when   *)
(* it resumes.                                                               *)

Waiters(s) == {p \in Procs : s.place[p] # 0}
Locked     == sem.value = 0 \/ Waiters(sem) # {}

\* _wake_up_next
Wake(s) ==
  LET undone == Waiters(s) \ s.granted
  IN  IF undone = {} THEN s
      ELSE [s EXCEPT !.value = @ - 1,
                     !.granted = @ \cup {p \in undone :
                                           \A q \in undone : s.place[p] <= s.place[q]}]

Release(s) == Wake([s EXCEPT !.value = @ + 1])

Taken(s) == [s EXCEPT !.value = @ - 1]
Joined(s, p) == [s EXCEPT !.place[p] = Cardinality(Waiters(s)) + 1]
Left(s, p) ==
  [s EXCEPT !.place = [q \in Procs |-> IF q = p THEN 0
                         ELSE IF s.place[q] > s.place[p] THEN s.place[q] - 1
                         ELSE s.place[q]],
            !.granted = @ \ {p}]

\* Mutant: the waiter that resumes does not pass on what else is free.
ResumedAlone(s, p) == Left(s, p)

\* A waiter that was handed a permit resumes, and passes on what is free.
Resumed(s, p) == IF s.value > 0 THEN Wake(Left(s, p)) ELSE Left(s, p)

\* A waiter is cancelled; a permit it was handed goes to the next.
Withdrawn(s, p) == IF p \in s.granted THEN Release(Left(s, p)) ELSE Left(s, p)

-----------------------------------------------------------------------------
(* execute().  A call that finds its lock held or the queue full raises and  *)
(* changes nothing but the counters.                                         *)

Admissible(class, key) ==
  /\ key \notin locks
  /\ queued < MaxQueue \/ class = "protection"

Begins(c, class, key, next) ==
  /\ pc[c] = "idle" /\ Admissible(class, key)
  /\ pc' = [pc EXCEPT ![c] = next]
  /\ args' = [args EXCEPT ![c] = [class |-> class, key |-> key]]
  /\ queued' = queued + 1
  /\ locks' = locks \cup ({key} \cap Keys)
  /\ UNCHANGED <<stopping, cancelled>>

\* The `finally' of execute().
Finishes(c) ==
  /\ pc' = [pc EXCEPT ![c] = "idle"]
  /\ args' = [args EXCEPT ![c] = NoArgs]
  /\ queued' = IF queued > 0 THEN queued - 1 ELSE 0
  /\ locks' = locks \ {args[c].key}
  /\ UNCHANGED <<stopping, cancelled>>

\* Protection work does not take a permit.  If the queue is full it leaves a
\* credit to reject one call of low priority.
CallBypasses(c, key) ==
  /\ Begins(c, "protection", key, "run")
  /\ credits' = IF queued >= MaxQueue THEN credits + 1 ELSE credits
  /\ credits' <= MaxCredits
  /\ UNCHANGED sem

CallTakes(c, class, key) ==
  /\ class # "protection" /\ ~Locked
  /\ class = "low" => credits = 0
  /\ Begins(c, class, key, "run")
  /\ sem' = Taken(sem)
  /\ UNCHANGED credits

\* It would have got a permit at once, and is rejected: only the credit is gone.
CallPreemptedAtOnce(c, key) ==
  /\ pc[c] = "idle" /\ Admissible("low", key)
  /\ ~Locked /\ credits > 0
  /\ credits' = credits - 1
  /\ UNCHANGED <<pc, args, sem, queued, locks, stopping, cancelled>>

CallWaits(c, class, key) ==
  /\ class # "protection" /\ Locked
  /\ Begins(c, class, key, "wait")
  /\ sem' = Joined(sem, c)
  /\ UNCHANGED credits

CallResumes(c) ==
  /\ pc[c] = "wait" /\ c \in sem.granted
  /\ args[c].class = "low" => credits = 0
  /\ pc' = [pc EXCEPT ![c] = "run"]
  /\ sem' = Resumed(sem, c)
  /\ UNCHANGED <<args, queued, locks, credits, stopping, cancelled>>

\* Mutant: the credit is looked at before the `try' that releases the permit.
CallPreemptedKeeps(c) ==
  /\ pc[c] = "wait" /\ c \in sem.granted
  /\ args[c].class = "low" /\ credits > 0
  /\ credits' = credits - 1
  /\ Finishes(c)
  /\ sem' = Resumed(sem, c)

\* "preempted by critical work"
CallPreempted(c) ==
  /\ pc[c] = "wait" /\ c \in sem.granted
  /\ args[c].class = "low" /\ credits > 0
  /\ credits' = credits - 1
  /\ Finishes(c)
  /\ sem' = Release(Resumed(sem, c))

\* Mutant: the lock is not given back when the wait ends early.
CallGivesUpLocked(c) ==
  /\ pc[c] = "wait"
  /\ pc' = [pc EXCEPT ![c] = "idle"]
  /\ args' = [args EXCEPT ![c] = NoArgs]
  /\ queued' = queued - 1
  /\ sem' = Withdrawn(sem, c)
  /\ UNCHANGED <<locks, credits, stopping, cancelled>>

\* queue_timeout_seconds passes, or the caller is cancelled.
CallGivesUp(c) ==
  /\ pc[c] = "wait"
  /\ Finishes(c)
  /\ sem' = Withdrawn(sem, c)
  /\ UNCHANGED credits

\* Mutants: protection work releases a permit it never took; _queued is not
\* reduced.
CallEndsAlwaysReleases(c) ==
  /\ pc[c] = "run" /\ Finishes(c)
  /\ sem' = Release(sem)
  /\ UNCHANGED credits
CallEndsStaysQueued(c) ==
  /\ pc[c] = "run"
  /\ pc' = [pc EXCEPT ![c] = "idle"]
  /\ args' = [args EXCEPT ![c] = NoArgs]
  /\ locks' = locks \ {args[c].key}
  /\ sem' = IF c \in Bypasses THEN sem ELSE Release(sem)
  /\ UNCHANGED <<queued, credits, stopping, cancelled>>

\* The work returns, fails or times out for the last time, or is cancelled.  It
\* keeps its permit while it is tried again.
CallEnds(c) ==
  /\ pc[c] = "run"
  /\ Finishes(c)
  /\ sem' = IF c \in Bypasses THEN sem ELSE Release(sem)
  /\ UNCHANGED credits

-----------------------------------------------------------------------------
(* Interval jobs. *)

JobMoves(j, next) == pc' = [pc EXCEPT ![j] = next]
CallsKept == UNCHANGED <<args, queued, locks, credits>>

\* start() creates the tasks that do not exist.
Start ==
  /\ \E j \in Jobs : pc[j] = "idle"
  /\ pc' = [p \in Procs |-> IF p \in Jobs /\ pc[p] = "idle" THEN "sleep" ELSE pc[p]]
  /\ CallsKept /\ UNCHANGED <<sem, stopping, cancelled>>

\* The interval is over.  After stop() the loop ends, a job of low priority
\* skips its turn at a locked semaphore.
JobExits(j) ==
  /\ pc[j] = "sleep" /\ stopping /\ j \notin cancelled
  /\ JobMoves(j, "done")
  /\ CallsKept /\ UNCHANGED <<sem, stopping, cancelled>>

JobTakes(j) ==
  /\ pc[j] = "sleep" /\ ~stopping /\ ~Locked
  /\ JobMoves(j, "run") /\ sem' = Taken(sem)
  /\ CallsKept /\ UNCHANGED <<stopping, cancelled>>

JobWaits(j) ==
  /\ pc[j] = "sleep" /\ ~stopping /\ Locked /\ j \notin LowJobs
  /\ JobMoves(j, "wait") /\ sem' = Joined(sem, j)
  /\ CallsKept /\ UNCHANGED <<stopping, cancelled>>

JobResumes(j) ==
  /\ pc[j] = "wait" /\ j \in sem.granted /\ j \notin cancelled
  /\ JobMoves(j, "run") /\ sem' = Resumed(sem, j)
  /\ CallsKept /\ UNCHANGED <<stopping, cancelled>>

\* Mutant: the permit is kept when the work times out.
JobEndsKeeps(j) ==
  /\ pc[j] = "run" /\ j \notin cancelled
  /\ JobMoves(j, "sleep")
  /\ CallsKept /\ UNCHANGED <<sem, stopping, cancelled>>

\* The work returns, fails or times out.
JobEnds(j) ==
  /\ pc[j] = "run" /\ j \notin cancelled
  /\ JobMoves(j, "sleep") /\ sem' = Release(sem)
  /\ CallsKept /\ UNCHANGED <<stopping, cancelled>>

\* stop() cancels every task and awaits them all.
Stop ==
  /\ cancelled = {}
  /\ stopping' = TRUE
  /\ cancelled' = {j \in Jobs : pc[j] \notin {"idle", "done"}}
  /\ pc' = [p \in Procs |-> IF p \in Jobs /\ cancelled' = {} THEN "idle" ELSE pc[p]]
  /\ CallsKept /\ UNCHANGED sem

\* Mutant: work that runs does not let itself be cancelled.
JobCancelledAsleep(j) ==
  /\ j \in cancelled /\ pc[j] # "run"
  /\ cancelled' = cancelled \ {j}
  /\ pc' = [p \in Procs |->
              IF p \in Jobs /\ cancelled' = {} THEN "idle"
              ELSE IF p = j THEN "done" ELSE pc[p]]
  /\ sem' = IF pc[j] = "wait" THEN Withdrawn(sem, j) ELSE sem
  /\ CallsKept /\ UNCHANGED stopping

\* A cancelled task ends; the last one lets stop() clear the list of tasks.
JobCancelled(j) ==
  /\ j \in cancelled
  /\ cancelled' = cancelled \ {j}
  /\ pc' = [p \in Procs |->
              IF p \in Jobs /\ cancelled' = {} THEN "idle"
              ELSE IF p = j THEN "done" ELSE pc[p]]
  /\ sem' = IF pc[j] = "run" THEN Release(sem)
            ELSE IF pc[j] = "wait" THEN Withdrawn(sem, j) ELSE sem
  /\ CallsKept /\ UNCHANGED stopping

Execute(c) ==
  \E key \in Keys \cup {NoKey} :
    \/ CallBypasses(c, key)
    \/ CallPreemptedAtOnce(c, key)
    \/ \E class \in Classes : CallTakes(c, class, key) \/ CallWaits(c, class, key)
CallHeeds(c)  == CallResumes(c) \/ CallPreempted(c)
JobAsks(j)    == JobExits(j) \/ JobTakes(j) \/ JobWaits(j)
CallGoesOn(c) == CallHeeds(c) \/ CallEnds(c)
JobGoesOn(j)  == JobResumes(j) \/ JobEnds(j) \/ JobCancelled(j)

Next ==
  \/ \E c \in Calls : Execute(c) \/ CallGoesOn(c) \/ CallGivesUp(c)
  \/ \E j \in Jobs : JobAsks(j) \/ JobGoesOn(j)
  \/ Start \/ Stop

\* The event loop resumes what can resume, and work ends at its timeout.
Fairness == /\ \A c \in Calls : WF_vars(CallGoesOn(c))
            /\ \A j \in Jobs : WF_vars(JobGoesOn(j))

Spec == Init /\ [][Next]_vars /\ Fairness
-----------------------------------------------------------------------------
(* Properties. *)

\* quant-brain/README.md:458, bounded concurrency: a permit is free, handed to a waiter or
\* held by running work, and none is lost or made up by preemption, timeouts,
\* retries or cancellation.
PermitsConserved ==
  sem.value + Cardinality(sem.granted) + Cardinality(Holders) = MaxConcurrent

\* A lock_key is held by exactly one call under way, and by none when that call
\* has ended in whatever way.
Locking    == {c \in Active : args[c].key # NoKey}
LocksExact ==
  /\ locks = {args[c].key : c \in Locking}
  /\ \A c, d \in Locking : args[c].key = args[d].key => c = d

\* queueDepth counts the calls under way, and without protection work they never
\* exceed max_queue_size.
QueueExact ==
  /\ queued = Cardinality(Active)
  /\ Cardinality(Active \ Bypasses) <= MaxQueue

\* Limited concurrency is fair: a permit given back in whatever way, by work that
\* ends, a waiter that is preempted, times out or is cancelled, goes to the one who
\* has waited longest; a newcomer does not overtake the line, and no wake-up is
\* lost between a release and the waiter it is for.
Line  == Waiters(sem) \ sem.granted
Ahead == {pq \in Line \X Line : sem.place[pq[1]] < sem.place[pq[2]]}
Fair  == INSTANCE FairSlots WITH
  Slots <- MaxConcurrent, line <- Line, ahead <- Ahead, handed <- sem.granted, working <- Holders
SlotsFair == Fair!Spec

\* Nobody waits for ever behind the others: every wake-up is passed on.
WaitersMove == \A p \in Procs : pc[p] = "wait" ~> pc[p] # "wait"

\* stop() returns, whatever the cancelled jobs were doing.
StopReturns == cancelled # {} ~> cancelled = {}
=============================================================================
