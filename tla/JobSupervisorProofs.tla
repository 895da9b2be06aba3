------------------------- MODULE JobSupervisorProofs -------------------------
(***************************************************************************)
(* Theorems about the job supervisor, for every set of callers, jobs and   *)
(* locks and every limit.                                                  *)
(***************************************************************************)
EXTENDS JobSupervisor, FiniteSetTheorems, WellFoundedInduction, TLAPS

USE SupervisorConstants

-----------------------------------------------------------------------------
(* The parts of the inductive invariant.                                   *)

\* The places of the waiters number them without gaps, and only waiters have
\* been handed a permit.
Semaphores == [value : Nat, place : [Procs -> Nat], granted : SUBSET Procs]
SemOK(s) ==
  /\ s \in Semaphores
  /\ s.granted \subseteq Waiters(s)
  /\ \A p \in Waiters(s) : s.place[p] <= Cardinality(Waiters(s))
  /\ \A p, q \in Waiters(s) : s.place[p] = s.place[q] => p = q

\* Permits that no work holds.
Free(s) == s.value + Cardinality(s.granted)

Waiting == {p \in Procs : pc[p] = "wait"}
SemInv  == SemOK(sem) /\ Waiters(sem) = Waiting /\ PermitsConserved

StatesOK ==
  /\ pc \in [Procs -> {"idle", "sleep", "wait", "run", "done"}]
  /\ args \in [Calls -> [class : Classes, key : Keys \cup {NoKey}]]
  /\ queued \in Nat /\ locks \subseteq Keys
  /\ stopping \in BOOLEAN /\ cancelled \subseteq Jobs
CreditsOK == credits \in Nat
\* Only protection work passes the semaphore by.
CallsOK ==
  \A c \in Calls : /\ pc[c] \in {"idle", "wait", "run"}
                   /\ pc[c] = "idle" => args[c] = NoArgs
                   /\ pc[c] = "wait" => args[c].class # "protection"
\* The jobs are started and stopped together: while stop() awaits some, the others
\* are over.
JobsOK ==
  /\ \A j \in cancelled : pc[j] \in {"sleep", "wait", "run"}
  /\ \A j, k \in Jobs : pc[j] = "idle" => pc[k] = "idle"
  /\ cancelled # {} => stopping /\ \A j \in Jobs \ cancelled : pc[j] = "done"

IInv == StatesOK /\ CreditsOK /\ CallsOK /\ JobsOK /\ SemInv /\ LocksExact /\ QueueExact

LEMMA ProcsFinite == \A S : S \subseteq Procs => IsFiniteSet(S) /\ Cardinality(S) \in Nat
BY FS_Union, FS_Subset, FS_CardinalityType DEF Procs

LEMMA IInvTypeOK == IInv => TypeOK
<1> SUFFICES ASSUME IInv PROVE TypeOK
  OBVIOUS
<1>1. Cardinality(sem.granted) \in Nat /\ Cardinality(Holders) \in Nat
  BY ProcsFinite DEF IInv, SemInv, SemOK, Semaphores, Holders
<1>2. sem.value \in 0 .. MaxConcurrent
  BY <1>1 DEF IInv, SemInv, SemOK, Semaphores, PermitsConserved
<1> QED
  BY <1>2 DEF IInv, StatesOK, CreditsOK, SemInv, SemOK, Semaphores, TypeOK

-----------------------------------------------------------------------------
(* The semaphore.                                                          *)

\* A set of naturals that is not empty has a least element.
LEMMA Least ==
  ASSUME NEW T, T \subseteq Nat, T # {}
  PROVE  \E x \in T : \A y \in T : x <= y
<1>1. PICK x \in T : \A y \in T : ~ (<<y, x>> \in OpToRel(<, Nat))
  BY NatLessThanWellFounded, WFMin
<1>2. ASSUME NEW y \in T PROVE x <= y
  <2>1. x \in Nat /\ y \in Nat
    OBVIOUS
  <2>2. ~ (y < x)
    BY <1>1, <2>1 DEF OpToRel
  <2> QED
    BY <2>1, <2>2
<1> QED
  BY <1>2

\* A wake-up only hands a free permit to a waiter, to one of them.
LEMMA WakeKeeps ==
  ASSUME NEW s, SemOK(s), s.value > 0
  PROVE  SemOK(Wake(s)) /\ Waiters(Wake(s)) = Waiters(s) /\ Free(Wake(s)) = Free(s)
<1> DEFINE undone == Waiters(s) \ s.granted
<1>1. CASE undone = {}
  BY <1>1 DEF Wake
<1>2. CASE undone # {}
  <2> DEFINE T == {s.place[p] : p \in undone}
             first == {p \in undone : \A q \in undone : s.place[p] <= s.place[q]}
  <2>1. T \subseteq Nat /\ T # {}
    BY <1>2 DEF SemOK, Semaphores, Waiters
  <2>2. PICK x \in T : \A y \in T : x <= y
    BY <2>1, Least
  <2>3. PICK p \in undone : s.place[p] = x
    BY <2>2
  <2>4. p \in first
    BY <2>2, <2>3
  <2>5. ASSUME NEW q \in first PROVE q = p
    <3>1. s.place[q] \in Nat /\ s.place[p] \in Nat
      BY DEF SemOK, Semaphores, Waiters
    <3> QED
      BY <2>4, <2>5, <3>1 DEF SemOK
  <2>6. first = {p}
    BY <2>4, <2>5
  <2>7. Wake(s) = [s EXCEPT !.value = @ - 1, !.granted = @ \cup {p}]
    BY <1>2, <2>6 DEF Wake
  <2> HIDE DEF first, T
  <2>a. s \in Semaphores /\ p \in Procs
    BY DEF SemOK, Waiters
  <2>b. Wake(s) = [value |-> s.value - 1, place |-> s.place, granted |-> s.granted \cup {p}]
    BY <2>7, <2>a DEF Semaphores
  <2>8. /\ Wake(s).value = s.value - 1 /\ Wake(s).place = s.place
        /\ Wake(s).granted = s.granted \cup {p}
        /\ Wake(s) \in Semaphores
    BY <2>a, <2>b DEF Semaphores
  <2>9. Waiters(Wake(s)) = Waiters(s)
    BY <2>8 DEF Waiters
  <2>10. Cardinality(s.granted \cup {p}) = Cardinality(s.granted) + 1
    BY ProcsFinite, FS_AddElement DEF SemOK, Semaphores
  <2>11. Cardinality(s.granted) \in Nat /\ s.value \in Nat
    BY ProcsFinite DEF SemOK, Semaphores
  <2>12. Free(Wake(s)) = Free(s)
    BY <2>8, <2>10, <2>11 DEF Free
  <2>13. SemOK(Wake(s))
    BY <2>8, <2>9 DEF SemOK
  <2> QED
    BY <2>9, <2>12, <2>13
<1> QED
  BY <1>1, <1>2

\* A release adds one free permit.
LEMMA ReleaseAdds ==
  ASSUME NEW s, SemOK(s)
  PROVE  SemOK(Release(s)) /\ Waiters(Release(s)) = Waiters(s) /\ Free(Release(s)) = Free(s) + 1
<1> DEFINE t == [s EXCEPT !.value = @ + 1]
<1>1. t \in Semaphores /\ t.value = s.value + 1 /\ t.place = s.place /\ t.granted = s.granted
  BY DEF SemOK, Semaphores
<1>2. Waiters(t) = Waiters(s)
  BY <1>1 DEF Waiters
<1>3. SemOK(t) /\ t.value > 0
  BY <1>1, <1>2 DEF SemOK, Semaphores
<1>4. Cardinality(s.granted) \in Nat /\ s.value \in Nat
  BY ProcsFinite DEF SemOK, Semaphores
<1>5. Free(t) = Free(s) + 1
  BY <1>1, <1>4 DEF Free
<1> HIDE DEF t
<1>6. SemOK(Wake(t)) /\ Waiters(Wake(t)) = Waiters(t) /\ Free(Wake(t)) = Free(t)
  BY <1>3, WakeKeeps
<1>7. Release(s) = Wake(t)
  BY DEF Release, t
<1> QED
  BY <1>2, <1>5, <1>6, <1>7

\* A waiter leaves, and the permit it was handed with it.
LEMMA LeftRemoves ==
  ASSUME NEW s, SemOK(s), NEW p \in Waiters(s)
  PROVE  /\ SemOK(Left(s, p)) /\ Waiters(Left(s, p)) = Waiters(s) \ {p}
         /\ Free(Left(s, p)) = IF p \in s.granted THEN Free(s) - 1 ELSE Free(s)
<1> DEFINE t == Left(s, p)
           f == [q \in Procs |-> IF q = p THEN 0
                                 ELSE IF s.place[q] > s.place[p] THEN s.place[q] - 1
                                 ELSE s.place[q]]
<1>1. \A q \in Procs : s.place[q] \in Nat
  BY DEF SemOK, Semaphores
<1>2. p \in Procs /\ s.place[p] # 0
  BY DEF Waiters
<1>3. f \in [Procs -> Nat]
  BY <1>1, <1>2
<1>4. t \in Semaphores /\ t.value = s.value /\ t.place = f /\ t.granted = s.granted \ {p}
  BY <1>3 DEF SemOK, Semaphores, Left
<1>5. Waiters(t) = Waiters(s) \ {p}
  BY <1>1, <1>2, <1>4 DEF Waiters
<1>6. Cardinality(Waiters(t)) = Cardinality(Waiters(s)) - 1 /\ Cardinality(Waiters(s)) \in Nat
  BY <1>5, ProcsFinite, FS_RemoveElement DEF Waiters
<1>7. ASSUME NEW q \in Waiters(t) PROVE t.place[q] <= Cardinality(Waiters(t))
  <2>1. q # p /\ q \in Waiters(s) /\ q \in Procs
    BY <1>5 DEF Waiters
  <2>2. s.place[q] # s.place[p] /\ s.place[q] <= Cardinality(Waiters(s))
                                /\ s.place[p] <= Cardinality(Waiters(s))
    BY <2>1 DEF SemOK
  <2>3. t.place[q] = IF s.place[q] > s.place[p] THEN s.place[q] - 1 ELSE s.place[q]
    BY <1>4, <2>1
  <2> QED
    BY <1>1, <1>2, <1>6, <2>1, <2>2, <2>3
<1>8. ASSUME NEW q \in Waiters(t), NEW r \in Waiters(t), t.place[q] = t.place[r] PROVE q = r
  <2>1. q # p /\ q \in Waiters(s) /\ q \in Procs /\ r # p /\ r \in Waiters(s) /\ r \in Procs
    BY <1>5 DEF Waiters
  <2>2. s.place[q] # s.place[p] /\ s.place[r] # s.place[p]
    BY <2>1 DEF SemOK
  <2>3. /\ t.place[q] = IF s.place[q] > s.place[p] THEN s.place[q] - 1 ELSE s.place[q]
        /\ t.place[r] = IF s.place[r] > s.place[p] THEN s.place[r] - 1 ELSE s.place[r]
    BY <1>4, <2>1
  <2>4. s.place[p] \in Nat /\ s.place[q] \in Nat /\ s.place[r] \in Nat
    BY <1>1, <1>2, <2>1
  <2>5. s.place[q] = s.place[r]
    <3> DEFINE a == s.place[p]
               b == s.place[q]
               c == s.place[r]
    <3>1. (IF b > a THEN b - 1 ELSE b) = (IF c > a THEN c - 1 ELSE c)
      BY <1>8, <2>3
    <3>2. a \in Nat /\ b \in Nat /\ c \in Nat /\ b # a /\ c # a
      BY <2>2, <2>4
    <3> HIDE DEF a, b, c
    <3>3. b = c
      BY <3>1, <3>2
    <3> QED
      BY <3>3 DEF b, c
  <2> QED
    BY <2>1, <2>5 DEF SemOK
<1>9. t.granted \subseteq Waiters(t)
  BY <1>4, <1>5 DEF SemOK
<1>10. Cardinality(s.granted \ {p}) =
         IF p \in s.granted THEN Cardinality(s.granted) - 1 ELSE Cardinality(s.granted)
  BY ProcsFinite, FS_RemoveElement DEF SemOK, Semaphores
<1>11. Cardinality(s.granted) \in Nat /\ s.value \in Nat
  BY ProcsFinite DEF SemOK, Semaphores
<1>12. Free(t) = IF p \in s.granted THEN Free(s) - 1 ELSE Free(s)
  BY <1>4, <1>10, <1>11 DEF Free
<1> HIDE DEF t
<1>13. SemOK(t)
  BY <1>4, <1>7, <1>8, <1>9 DEF SemOK
<1> QED
  BY <1>5, <1>12, <1>13 DEF t

LEMMA ResumedTakes ==
  ASSUME NEW s, SemOK(s), NEW p \in s.granted
  PROVE  /\ SemOK(Resumed(s, p)) /\ Waiters(Resumed(s, p)) = Waiters(s) \ {p}
         /\ Free(Resumed(s, p)) = Free(s) - 1
<1>1. p \in Waiters(s)
  BY DEF SemOK
<1>2. /\ SemOK(Left(s, p)) /\ Waiters(Left(s, p)) = Waiters(s) \ {p}
      /\ Free(Left(s, p)) = Free(s) - 1
  BY <1>1, LeftRemoves
<1>3. Left(s, p).value = s.value
  BY DEF Left, SemOK, Semaphores
<1>4. s.value > 0 => /\ SemOK(Wake(Left(s, p))) /\ Waiters(Wake(Left(s, p))) = Waiters(Left(s, p))
                     /\ Free(Wake(Left(s, p))) = Free(Left(s, p))
  BY <1>2, <1>3, WakeKeeps
<1> QED
  BY <1>2, <1>4 DEF Resumed

LEMMA WithdrawnKeeps ==
  ASSUME NEW s, SemOK(s), NEW p \in Waiters(s)
  PROVE  /\ SemOK(Withdrawn(s, p)) /\ Waiters(Withdrawn(s, p)) = Waiters(s) \ {p}
         /\ Free(Withdrawn(s, p)) = Free(s)
<1>1. /\ SemOK(Left(s, p)) /\ Waiters(Left(s, p)) = Waiters(s) \ {p}
      /\ Free(Left(s, p)) = IF p \in s.granted THEN Free(s) - 1 ELSE Free(s)
  BY LeftRemoves
<1>2. /\ SemOK(Release(Left(s, p))) /\ Waiters(Release(Left(s, p))) = Waiters(Left(s, p))
      /\ Free(Release(Left(s, p))) = Free(Left(s, p)) + 1
  BY <1>1, ReleaseAdds
<1>3. Free(s) \in Nat
  BY ProcsFinite DEF Free, SemOK, Semaphores
<1> QED
  BY <1>1, <1>2, <1>3 DEF Withdrawn

LEMMA JoinedAdds ==
  ASSUME NEW s, SemOK(s), NEW p \in Procs \ Waiters(s)
  PROVE  /\ SemOK(Joined(s, p)) /\ Waiters(Joined(s, p)) = Waiters(s) \cup {p}
         /\ Free(Joined(s, p)) = Free(s)
<1> DEFINE t == Joined(s, p)
           n == Cardinality(Waiters(s))
<1>1. n \in Nat
  BY ProcsFinite DEF Waiters
<1>2. /\ t \in Semaphores /\ t.value = s.value /\ t.granted = s.granted
      /\ t.place = [s.place EXCEPT ![p] = n + 1]
  BY <1>1 DEF SemOK, Semaphores, Joined
<1>3. \A q \in Procs : t.place[q] = IF q = p THEN n + 1 ELSE s.place[q]
  BY <1>2 DEF SemOK, Semaphores
<1>4. Waiters(t) = Waiters(s) \cup {p}
  BY <1>1, <1>3 DEF Waiters
<1>5. Cardinality(Waiters(t)) = n + 1
  BY <1>4, ProcsFinite, FS_AddElement DEF Waiters
<1>6. \A q \in Waiters(s) : q \in Procs /\ q # p /\ s.place[q] \in Nat /\ s.place[q] <= n
  BY DEF SemOK, Semaphores, Waiters
<1>7. ASSUME NEW q \in Waiters(t) PROVE t.place[q] <= Cardinality(Waiters(t))
  <2>1. CASE q = p
    BY <1>1, <1>3, <1>5, <2>1
  <2>2. CASE q # p
    BY <1>1, <1>3, <1>4, <1>5, <1>6, <2>2
  <2> QED
    BY <2>1, <2>2
<1>8. ASSUME NEW q \in Waiters(t), NEW r \in Waiters(t), t.place[q] = t.place[r] PROVE q = r
  <2>1. CASE q = p \/ r = p
    BY <1>1, <1>3, <1>4, <1>6, <1>8, <2>1
  <2>2. CASE q # p /\ r # p
    BY <1>3, <1>4, <1>6, <1>8, <2>2 DEF SemOK
  <2> QED
    BY <2>1, <2>2
<1>9. SemOK(t)
  BY <1>2, <1>4, <1>7, <1>8 DEF SemOK
<1> QED
  BY <1>2, <1>4, <1>9 DEF Free

-----------------------------------------------------------------------------
(* What each use of the semaphore does to the count of permits, when the     *)
(* program counters move with it.                                            *)

LEMMA HoldersAre ==
  ASSUME IInv
  PROVE  /\ Holders = {p \in Procs : /\ pc[p] = "run"
                                     /\ p \in Calls => args[p].class # "protection"}
         /\ Holders \cap Waiting = {} /\ Waiting \subseteq Procs
         /\ Cardinality(Holders) \in Nat /\ IsFiniteSet(Holders) /\ Free(sem) \in Nat
<1>1. Holders = {p \in Procs : pc[p] = "run" /\ (p \in Calls => args[p].class # "protection")}
  BY DEF Holders, Bypasses, Active
<1>2. Cardinality(sem.granted) \in Nat /\ sem.value \in Nat
  BY ProcsFinite DEF IInv, SemInv, SemOK, Semaphores
<1>3. Cardinality(Holders) \in Nat /\ IsFiniteSet(Holders)
  BY ProcsFinite DEF Holders
<1>4. Holders \cap Waiting = {} /\ Waiting \subseteq Procs
  BY <1>1 DEF Waiting
<1> QED
  BY <1>1, <1>2, <1>3, <1>4 DEF Free

LEMMA Conserved == PermitsConserved <=> Free(sem) + Cardinality(Holders) = MaxConcurrent
BY DEF PermitsConserved, Free

LEMMA ConservedNext ==
  PermitsConserved' <=> Free(sem') + Cardinality(Holders') = MaxConcurrent
BY DEF PermitsConserved, Free

LEMMA SameSem ==
  ASSUME IInv, sem' = sem, Holders' = Holders, Waiting' = Waiting
  PROVE  SemInv'
BY Conserved, ConservedNext DEF IInv, SemInv, SemOK, Semaphores, Waiters

LEMMA Takes ==
  ASSUME IInv, NEW p \in Procs \ Holders, ~Locked, sem' = Taken(sem),
         Holders' = Holders \cup {p}, Waiting' = Waiting
  PROVE  SemInv'
<1>1. sem.value \in Nat /\ sem.value # 0 /\ sem \in Semaphores /\ Cardinality(sem.granted) \in Nat
  BY ProcsFinite DEF IInv, SemInv, SemOK, Semaphores, Locked
<1>2. /\ sem' \in Semaphores /\ sem'.value = sem.value - 1
      /\ sem'.place = sem.place /\ sem'.granted = sem.granted
  BY <1>1 DEF Semaphores, Taken
<1>3. Waiters(sem') = Waiters(sem)
  BY <1>2 DEF Waiters
<1>4. SemOK(sem')
  BY <1>2, <1>3 DEF IInv, SemInv, SemOK
<1>5. Cardinality(Holders') = Cardinality(Holders) + 1 /\ Cardinality(Holders) \in Nat
  BY HoldersAre, FS_AddElement
<1>6. PermitsConserved'
  BY <1>1, <1>2, <1>5, Conserved, ConservedNext DEF IInv, SemInv, Free
<1> QED
  BY <1>3, <1>4, <1>6 DEF IInv, SemInv, SemOK, Waiters

LEMMA Joins ==
  ASSUME IInv, NEW p \in Procs \ Waiting, sem' = Joined(sem, p),
         Holders' = Holders, Waiting' = Waiting \cup {p}
  PROVE  SemInv'
<1>1. SemOK(sem') /\ Waiters(sem') = Waiters(sem) \cup {p} /\ Free(sem') = Free(sem)
  BY JoinedAdds DEF IInv, SemInv
<1>2. PermitsConserved'
  BY <1>1, Conserved, ConservedNext DEF IInv, SemInv
<1> QED
  BY <1>1, <1>2 DEF IInv, SemInv, SemOK, Waiters

LEMMA Resumes ==
  ASSUME IInv, NEW p \in sem.granted, sem' = Resumed(sem, p),
         Holders' = Holders \cup {p}, Waiting' = Waiting \ {p}
  PROVE  SemInv'
<1>1. SemOK(sem') /\ Waiters(sem') = Waiters(sem) \ {p} /\ Free(sem') = Free(sem) - 1
  BY ResumedTakes DEF IInv, SemInv
<1>2. p \notin Holders
  BY HoldersAre DEF IInv, SemInv, SemOK
<1>3. Cardinality(Holders') = Cardinality(Holders) + 1 /\ Cardinality(Holders) \in Nat
      /\ Free(sem) \in Nat
  BY <1>2, HoldersAre, FS_AddElement
<1>4. PermitsConserved'
  BY <1>1, <1>3, Conserved, ConservedNext DEF IInv, SemInv
<1> QED
  BY <1>1, <1>4 DEF IInv, SemInv, SemOK, Waiters

LEMMA Preempts ==
  ASSUME IInv, NEW p \in sem.granted, sem' = Release(Resumed(sem, p)),
         Holders' = Holders, Waiting' = Waiting \ {p}
  PROVE  SemInv'
<1>1. /\ SemOK(Resumed(sem, p)) /\ Waiters(Resumed(sem, p)) = Waiters(sem) \ {p}
      /\ Free(Resumed(sem, p)) = Free(sem) - 1
  BY ResumedTakes DEF IInv, SemInv
<1>2. /\ SemOK(sem') /\ Waiters(sem') = Waiters(sem) \ {p}
      /\ Free(sem') = Free(sem) - 1 + 1
  BY <1>1, ReleaseAdds
<1>3. Free(sem) \in Nat
  BY HoldersAre
<1>4. PermitsConserved'
  BY <1>2, <1>3, Conserved, ConservedNext DEF IInv, SemInv
<1> QED
  BY <1>2, <1>4 DEF IInv, SemInv, SemOK, Waiters

LEMMA Releases ==
  ASSUME IInv, NEW p \in Holders, sem' = Release(sem),
         Holders' = Holders \ {p}, Waiting' = Waiting
  PROVE  SemInv'
<1>1. SemOK(sem') /\ Waiters(sem') = Waiters(sem) /\ Free(sem') = Free(sem) + 1
  BY ReleaseAdds DEF IInv, SemInv
<1>2. Cardinality(Holders') = Cardinality(Holders) - 1 /\ Cardinality(Holders) \in Nat
      /\ Free(sem) \in Nat
  BY HoldersAre, FS_RemoveElement
<1>3. PermitsConserved'
  BY <1>1, <1>2, Conserved, ConservedNext DEF IInv, SemInv
<1> QED
  BY <1>1, <1>3 DEF IInv, SemInv, SemOK, Waiters

LEMMA Withdraws ==
  ASSUME IInv, NEW p \in Waiting, sem' = Withdrawn(sem, p),
         Holders' = Holders, Waiting' = Waiting \ {p}
  PROVE  SemInv'
<1>1. SemOK(sem') /\ Waiters(sem') = Waiters(sem) \ {p} /\ Free(sem') = Free(sem)
  BY WithdrawnKeeps DEF IInv, SemInv
<1>2. PermitsConserved'
  BY <1>1, Conserved, ConservedNext DEF IInv, SemInv
<1> QED
  BY <1>1, <1>2 DEF IInv, SemInv, SemOK, Waiters

\* How a step uses the semaphore: every operation does one of these.
SemKept == sem' = sem /\ Holders' = Holders /\ Waiting' = Waiting
SemTaken(p) ==
  /\ ~Locked /\ p \notin Holders
  /\ sem' = Taken(sem) /\ Holders' = Holders \cup {p} /\ Waiting' = Waiting
SemJoined(p) ==
  /\ Locked /\ p \notin Waiting /\ p \notin Holders
  /\ sem' = Joined(sem, p) /\ Holders' = Holders /\ Waiting' = Waiting \cup {p}
SemResumed(p) ==
  /\ p \in sem.granted
  /\ sem' = Resumed(sem, p) /\ Holders' = Holders \cup {p} /\ Waiting' = Waiting \ {p}
SemPreempted(p) ==
  /\ p \in sem.granted
  /\ sem' = Release(Resumed(sem, p)) /\ Holders' = Holders /\ Waiting' = Waiting \ {p}
SemReleased(p) ==
  /\ p \in Holders
  /\ sem' = Release(sem) /\ Holders' = Holders \ {p} /\ Waiting' = Waiting
SemWithdrawn(p) ==
  /\ p \in Waiting
  /\ sem' = Withdrawn(sem, p) /\ Holders' = Holders /\ Waiting' = Waiting \ {p}
SemUse ==
  \/ SemKept
  \/ \E p \in Procs : \/ SemTaken(p) \/ SemJoined(p) \/ SemResumed(p) \/ SemPreempted(p)
                      \/ SemReleased(p) \/ SemWithdrawn(p)

LEMMA UseKeeps ==
  ASSUME IInv, SemUse
  PROVE  SemInv'
<1>1. CASE SemKept
  BY <1>1, SameSem DEF SemKept
<1>2. CASE \E p \in Procs : \/ SemTaken(p) \/ SemJoined(p) \/ SemResumed(p) \/ SemPreempted(p)
                          \/ SemReleased(p) \/ SemWithdrawn(p)
  <2>1. PICK p \in Procs : \/ SemTaken(p) \/ SemJoined(p) \/ SemResumed(p) \/ SemPreempted(p)
                          \/ SemReleased(p) \/ SemWithdrawn(p)
    BY <1>2
  <2>2. CASE SemTaken(p)
    BY <2>2, Takes DEF SemTaken
  <2>3. CASE SemJoined(p)
    BY <2>3, Joins DEF SemJoined
  <2>4. CASE SemResumed(p)
    BY <2>4, Resumes DEF SemResumed
  <2>5. CASE SemPreempted(p)
    BY <2>5, Preempts DEF SemPreempted
  <2>6. CASE SemReleased(p)
    BY <2>6, Releases DEF SemReleased
  <2>7. CASE SemWithdrawn(p)
    BY <2>7, Withdraws DEF SemWithdrawn
  <2> QED
    BY <2>1, <2>2, <2>3, <2>4, <2>5, <2>6, <2>7
<1> QED
  BY <1>1, <1>2 DEF SemUse

-----------------------------------------------------------------------------
(* The calls under way.                                                      *)

CallsInv == CallsOK /\ LocksExact /\ QueueExact

\* A job moves: nothing changes for the calls.
LEMMA CallsUndisturbed ==
  ASSUME IInv, \A c \in Calls : pc'[c] = pc[c],
         args' = args, queued' = queued, locks' = locks
  PROVE  CallsInv'
<1>1. Active' = Active /\ Bypasses' = Bypasses /\ Locking' = Locking
  BY DEF Active, Bypasses, Locking
<1>2. CallsOK'
  BY DEF IInv, CallsOK
<1>3. LocksExact'
  BY <1>1 DEF IInv, LocksExact
<1>4. QueueExact'
  BY <1>1 DEF IInv, QueueExact
<1> QED
  BY <1>2, <1>3, <1>4 DEF CallsInv

LEMMA ActiveFinite ==
  IsFiniteSet(Active) /\ IsFiniteSet(Active \ Bypasses) /\ Cardinality(Active) \in Nat
    /\ Cardinality(Active \ Bypasses) \in Nat
    /\ Cardinality(Active \ Bypasses) <= Cardinality(Active)
BY FS_Subset, FS_CardinalityType DEF Active

\* A call begins: with a lock nobody held, and a place in the queue unless it is
\* protection work.
LEMMA BeginsKeeps ==
  ASSUME IInv, NEW c \in Calls, NEW class \in Classes, NEW key \in Keys \cup {NoKey},
         NEW next \in {"wait", "run"}, next = "wait" => class # "protection",
         Begins(c, class, key, next)
  PROVE  StatesOK' /\ JobsOK' /\ CallsInv'
<1> DEFINE new == [class |-> class, key |-> key]
<1>1. /\ pc[c] = "idle" /\ key \notin locks /\ (queued < MaxQueue \/ class = "protection")
      /\ pc' = [pc EXCEPT ![c] = next] /\ args' = [args EXCEPT ![c] = new]
      /\ queued' = queued + 1 /\ locks' = locks \cup ({key} \cap Keys)
      /\ stopping' = stopping /\ cancelled' = cancelled
  BY DEF Begins, Admissible
<1>2. c \in Procs /\ c \notin Jobs
  BY DEF Procs
<1>3. StatesOK /\ CallsOK /\ JobsOK /\ LocksExact /\ QueueExact
  BY DEF IInv
<1>4. StatesOK'
  BY <1>1, <1>2, <1>3 DEF StatesOK
<1>5. JobsOK'
  BY <1>1, <1>2, <1>3 DEF StatesOK, JobsOK
<1>6. pc'[c] = next /\ args'[c] = new
      /\ \A d \in Calls \ {c} : pc'[d] = pc[d] /\ args'[d] = args[d]
  BY <1>1, <1>2, <1>3 DEF StatesOK
<1>7. CallsOK'
  BY <1>3, <1>6 DEF CallsOK
<1>8. Active' = Active \cup {c} /\ c \notin Active
  BY <1>1, <1>6 DEF Active
<1>9. Locking' = IF key = NoKey THEN Locking ELSE Locking \cup {c}
  BY <1>6, <1>8 DEF Locking, Active
<1>10. c \notin Locking /\ \A d \in Locking : d \in Calls \ {c} /\ args[d].key \in Keys
  BY <1>3, <1>8 DEF Locking, Active, StatesOK
<1>11. locks' = {args'[d].key : d \in Locking'}
  <2>1. CASE key = NoKey
    BY <1>1, <1>3, <1>6, <1>9, <1>10, <2>1 DEF LocksExact
  <2>2. CASE key # NoKey
    BY <1>1, <1>3, <1>6, <1>9, <1>10, <2>2 DEF LocksExact
  <2> QED
    BY <2>1, <2>2
<1>12. ASSUME NEW d \in Locking', NEW e \in Locking', args'[d].key = args'[e].key PROVE d = e
  BY <1>1, <1>3, <1>6, <1>9, <1>10, <1>12 DEF LocksExact
<1>13. LocksExact'
  BY <1>11, <1>12 DEF LocksExact
<1>14. Cardinality(Active') = Cardinality(Active) + 1 /\ queued = Cardinality(Active)
  BY <1>3, <1>8, ActiveFinite, FS_AddElement DEF QueueExact
<1>15. Cardinality(Active' \ Bypasses') <= MaxQueue
  <2>1. CASE class = "protection"
    <3>1. Active' \ Bypasses' = Active \ Bypasses
      BY <1>6, <1>8, <2>1 DEF Bypasses, Active
    <3> QED
      BY <1>3, <3>1 DEF QueueExact
  <2>2. CASE class # "protection"
    <3>1. Active' \ Bypasses' = (Active \ Bypasses) \cup {c} /\ c \notin Active \ Bypasses
      BY <1>6, <1>8, <2>2 DEF Bypasses, Active
    <3>2. Cardinality(Active' \ Bypasses') = Cardinality(Active \ Bypasses) + 1
      BY <3>1, ActiveFinite, FS_AddElement
    <3> QED
      BY <1>1, <1>14, <2>2, <3>2, ActiveFinite, SupervisorConstants
  <2> QED
    BY <2>1, <2>2
<1>16. QueueExact'
  BY <1>1, <1>14, <1>15 DEF QueueExact
<1> QED
  BY <1>4, <1>5, <1>7, <1>13, <1>16 DEF CallsInv

\* A call ends: its lock and its place are free again, no other's are.
LEMMA FinishesKeeps ==
  ASSUME IInv, NEW c \in Calls, pc[c] # "idle", Finishes(c)
  PROVE  StatesOK' /\ JobsOK' /\ CallsInv'
<1>1. /\ pc' = [pc EXCEPT ![c] = "idle"] /\ args' = [args EXCEPT ![c] = NoArgs]
      /\ queued' = IF queued > 0 THEN queued - 1 ELSE 0
      /\ locks' = locks \ {args[c].key}
      /\ stopping' = stopping /\ cancelled' = cancelled
  BY DEF Finishes
<1>2. c \in Procs /\ c \notin Jobs
  BY DEF Procs
<1>3. StatesOK /\ CallsOK /\ JobsOK /\ LocksExact /\ QueueExact
  BY DEF IInv
<1>4. StatesOK'
  BY <1>1, <1>2, <1>3 DEF StatesOK, NoArgs, Classes
<1>5. JobsOK'
  BY <1>1, <1>2, <1>3 DEF StatesOK, JobsOK
<1>6. pc'[c] = "idle" /\ args'[c] = NoArgs
      /\ \A d \in Calls \ {c} : pc'[d] = pc[d] /\ args'[d] = args[d]
  BY <1>1, <1>2, <1>3 DEF StatesOK
<1>7. CallsOK'
  BY <1>3, <1>6 DEF CallsOK
<1>8. Active' = Active \ {c} /\ c \in Active
  BY <1>6 DEF Active
<1>9. Locking' = Locking \ {c} /\ \A d \in Locking : d \in Calls
  BY <1>6, <1>8 DEF Locking, Active
<1>10. locks' = {args'[d].key : d \in Locking'}
  <2>1. CASE c \in Locking
    BY <1>1, <1>3, <1>6, <1>9, <2>1 DEF LocksExact
  <2>2. CASE c \notin Locking
    <3>1. args[c].key = NoKey
      BY <1>8, <2>2 DEF Locking
    <3>2. NoKey \notin locks
      BY <1>3, SupervisorConstants DEF StatesOK
    <3>3. locks' = locks
      BY <1>1, <3>1, <3>2
    <3>4. Locking' = Locking /\ \A d \in Locking : args'[d] = args[d]
      BY <1>6, <1>9, <2>2
    <3> QED
      BY <1>3, <3>3, <3>4 DEF LocksExact
  <2> QED
    BY <2>1, <2>2
<1>11. LocksExact'
  BY <1>3, <1>6, <1>9, <1>10 DEF LocksExact
<1>12. Cardinality(Active') = Cardinality(Active) - 1 /\ Cardinality(Active) # 0
       /\ queued = Cardinality(Active)
  BY <1>3, <1>8, ActiveFinite, FS_RemoveElement, FS_EmptySet DEF QueueExact
<1>13. Cardinality(Active' \ Bypasses') <= MaxQueue
  <2>1. Active' \ Bypasses' = (Active \ Bypasses) \ {c}
    BY <1>6, <1>8 DEF Bypasses, Active
  <2>2. Cardinality(Active' \ Bypasses') <= Cardinality(Active \ Bypasses)
        /\ Cardinality(Active' \ Bypasses') \in Nat
    BY <2>1, ActiveFinite, FS_RemoveElement, FS_Subset, FS_CardinalityType
  <2> QED
    BY <1>3, <2>2, ActiveFinite, SupervisorConstants DEF QueueExact
<1>14. QueueExact'
  BY <1>1, <1>12, <1>13, ActiveFinite DEF QueueExact
<1> QED
  BY <1>4, <1>5, <1>7, <1>11, <1>14 DEF CallsInv

-----------------------------------------------------------------------------
(* The inductive invariant. *)

LEMMA HoldersNext ==
  Holders' = {p \in Procs : pc'[p] = "run" /\ (p \in Calls => args'[p].class # "protection")}
BY DEF Holders, Bypasses, Active

LEMMA IInvFrom ==
  ASSUME StatesOK', CreditsOK', JobsOK', CallsInv', SemInv'
  PROVE  IInv'
BY DEF IInv, CallsInv

LEMMA IInvInit == Init => IInv
<1> SUFFICES ASSUME Init PROVE IInv
  OBVIOUS
<1>1. StatesOK /\ CreditsOK /\ CallsOK /\ JobsOK
  BY SupervisorConstants DEF Init, StatesOK, CreditsOK, CallsOK, JobsOK, NoArgs, Classes, Procs
<1>2. Active = {} /\ Locking = {} /\ Holders = {} /\ Waiting = {} /\ Waiters(sem) = {}
  BY DEF Init, Active, Locking, Holders, Waiting, Waiters, Procs
<1>3. LocksExact /\ QueueExact
  BY <1>2, FS_EmptySet, SupervisorConstants DEF Init, LocksExact, QueueExact
<1>4. sem.value = MaxConcurrent /\ sem.granted = {} /\ sem \in Semaphores
  BY SupervisorConstants DEF Init, Semaphores
<1>5. SemOK(sem)
  BY <1>2, <1>4 DEF SemOK
<1>6. PermitsConserved
  BY <1>2, <1>4, FS_EmptySet, SupervisorConstants DEF PermitsConserved
<1> QED
  BY <1>1, <1>2, <1>3, <1>5, <1>6 DEF IInv, SemInv

\* What a step of a call leaves of the rest.
LEMMA CallSteps ==
  ASSUME IInv, NEW c \in Calls, NEW key \in Keys \cup {NoKey}, NEW class \in Classes,
         \/ CallBypasses(c, key)
         \/ CallPreemptedAtOnce(c, key)
         \/ CallTakes(c, class, key)
         \/ CallWaits(c, class, key)
         \/ CallResumes(c)
         \/ CallPreempted(c)
         \/ CallGivesUp(c)
         \/ CallEnds(c)
  PROVE  IInv' /\ SemUse
<1>1. StatesOK /\ CreditsOK /\ CallsOK /\ JobsOK /\ SemInv /\ LocksExact /\ QueueExact
  BY DEF IInv
<1>2. c \in Procs /\ c \notin Jobs
  BY DEF Procs
<1>3. "run" \in {"wait", "run"} /\ "wait" \in {"wait", "run"} /\ "protection" \in Classes
  BY DEF Classes
<1>4. CASE CallBypasses(c, key)
  <2>1. Begins(c, "protection", key, "run") /\ sem' = sem
    BY <1>4 DEF CallBypasses
  <2>2. StatesOK' /\ JobsOK' /\ CallsInv'
    BY <1>3, <2>1, BeginsKeeps
  <2>3. CreditsOK'
    BY <1>1, <1>4 DEF CallBypasses, CreditsOK
  <2>4. /\ pc[c] = "idle" /\ pc' = [pc EXCEPT ![c] = "run"]
        /\ args' = [args EXCEPT ![c] = [class |-> "protection", key |-> key]]
    BY <2>1 DEF Begins
  <2>5. Holders' = Holders /\ Waiting' = Waiting
    BY <1>1, <1>2, <2>4, HoldersAre, HoldersNext DEF StatesOK, Waiting
  <2>6. SemUse
    BY <2>1, <2>5 DEF SemUse, SemKept
  <2> QED
    BY <2>2, <2>3, <2>6, UseKeeps, IInvFrom
<1>5. CASE CallPreemptedAtOnce(c, key)
  <2>1. UNCHANGED <<pc, args, sem, queued, locks, stopping, cancelled>>
        /\ credits > 0 /\ credits' = credits - 1
    BY <1>5 DEF CallPreemptedAtOnce
  <2>2. CallsInv'
    BY <2>1, CallsUndisturbed
  <2>3. StatesOK' /\ JobsOK' /\ CreditsOK'
    BY <1>1, <2>1 DEF StatesOK, JobsOK, CreditsOK
  <2>4. Holders' = Holders /\ Waiting' = Waiting
    BY <2>1, HoldersAre, HoldersNext DEF Waiting
  <2>5. SemUse
    BY <2>1, <2>4 DEF SemUse, SemKept
  <2> QED
    BY <2>2, <2>3, <2>5, UseKeeps, IInvFrom
<1>6. CASE CallTakes(c, class, key)
  <2>1. Begins(c, class, key, "run") /\ sem' = Taken(sem) /\ ~Locked /\ credits' = credits
        /\ class # "protection"
    BY <1>6 DEF CallTakes
  <2>2. StatesOK' /\ JobsOK' /\ CallsInv'
    BY <1>3, <2>1, BeginsKeeps
  <2>3. CreditsOK'
    BY <1>1, <2>1 DEF CreditsOK
  <2>4. /\ pc[c] = "idle" /\ pc' = [pc EXCEPT ![c] = "run"]
        /\ args' = [args EXCEPT ![c] = [class |-> class, key |-> key]]
    BY <2>1 DEF Begins
  <2>5. Holders' = Holders \cup {c} /\ Waiting' = Waiting /\ c \notin Holders
    BY <1>1, <1>2, <2>1, <2>4, HoldersAre, HoldersNext DEF StatesOK, Waiting
  <2>6. SemUse
    BY <1>2, <2>1, <2>5 DEF SemUse, SemTaken
  <2> QED
    BY <2>2, <2>3, <2>6, UseKeeps, IInvFrom
<1>7. CASE CallWaits(c, class, key)
  <2>1. Begins(c, class, key, "wait") /\ sem' = Joined(sem, c) /\ credits' = credits
        /\ class # "protection" /\ Locked
    BY <1>7 DEF CallWaits
  <2>2. StatesOK' /\ JobsOK' /\ CallsInv'
    BY <1>3, <2>1, BeginsKeeps
  <2>3. CreditsOK'
    BY <1>1, <2>1 DEF CreditsOK
  <2>4. /\ pc[c] = "idle" /\ pc' = [pc EXCEPT ![c] = "wait"]
        /\ args' = [args EXCEPT ![c] = [class |-> class, key |-> key]]
    BY <2>1 DEF Begins
  <2>5. Holders' = Holders /\ Waiting' = Waiting \cup {c} /\ c \notin Waiting /\ c \notin Holders
    BY <1>1, <1>2, <2>4, HoldersAre, HoldersNext DEF StatesOK, Waiting
  <2>6. SemUse
    BY <1>2, <2>1, <2>5 DEF SemUse, SemJoined
  <2> QED
    BY <2>2, <2>3, <2>6, UseKeeps, IInvFrom
<1>8. CASE CallResumes(c)
  <2>1. /\ pc[c] = "wait" /\ c \in sem.granted /\ pc' = [pc EXCEPT ![c] = "run"]
        /\ sem' = Resumed(sem, c)
        /\ UNCHANGED <<args, queued, locks, credits, stopping, cancelled>>
    BY <1>8 DEF CallResumes
  <2>2. Holders' = Holders \cup {c} /\ Waiting' = Waiting \ {c}
    BY <1>1, <1>2, <2>1, HoldersAre, HoldersNext DEF StatesOK, CallsOK, Waiting
  <2>3. SemUse
    BY <1>2, <2>1, <2>2 DEF SemUse, SemResumed
  <2>4. StatesOK' /\ CreditsOK' /\ JobsOK'
    BY <1>1, <1>2, <2>1 DEF StatesOK, CreditsOK, JobsOK
  <2>5. CallsOK'
    BY <1>1, <1>2, <2>1 DEF StatesOK, CallsOK
  <2>6. Active' = Active /\ Locking' = Locking /\ Bypasses' = Bypasses
    BY <1>1, <1>2, <2>1 DEF StatesOK, Active, Locking, Bypasses
  <2>7. LocksExact' /\ QueueExact'
    BY <1>1, <2>1, <2>6 DEF LocksExact, QueueExact
  <2> QED
    BY <2>3, <2>4, <2>5, <2>7, UseKeeps, IInvFrom DEF CallsInv
<1>9. CASE CallPreempted(c)
  <2>1. /\ pc[c] = "wait" /\ c \in sem.granted /\ Finishes(c)
        /\ sem' = Release(Resumed(sem, c)) /\ credits > 0 /\ credits' = credits - 1
    BY <1>9 DEF CallPreempted
  <2>2. StatesOK' /\ JobsOK' /\ CallsInv' /\ CreditsOK'
    BY <1>1, <2>1, FinishesKeeps DEF CreditsOK
  <2>3. pc' = [pc EXCEPT ![c] = "idle"] /\ args' = [args EXCEPT ![c] = NoArgs]
    BY <2>1 DEF Finishes
  <2>4. Holders' = Holders /\ Waiting' = Waiting \ {c}
    BY <1>1, <1>2, <2>1, <2>3, HoldersAre, HoldersNext DEF StatesOK, Waiting
  <2>5. SemUse
    BY <1>2, <2>1, <2>4 DEF SemUse, SemPreempted
  <2> QED
    BY <2>2, <2>5, UseKeeps, IInvFrom
<1>10. CASE CallGivesUp(c)
  <2>1. pc[c] = "wait" /\ Finishes(c) /\ sem' = Withdrawn(sem, c) /\ credits' = credits
    BY <1>10 DEF CallGivesUp
  <2>2. StatesOK' /\ JobsOK' /\ CallsInv' /\ CreditsOK'
    BY <1>1, <2>1, FinishesKeeps DEF CreditsOK
  <2>3. pc' = [pc EXCEPT ![c] = "idle"] /\ args' = [args EXCEPT ![c] = NoArgs]
    BY <2>1 DEF Finishes
  <2>4. Holders' = Holders /\ Waiting' = Waiting \ {c} /\ c \in Waiting
    BY <1>1, <1>2, <2>1, <2>3, HoldersAre, HoldersNext DEF StatesOK, Waiting
  <2>5. SemUse
    BY <1>2, <2>1, <2>4 DEF SemUse, SemWithdrawn
  <2> QED
    BY <2>2, <2>5, UseKeeps, IInvFrom
<1>11. CASE CallEnds(c)
  <2>1. /\ pc[c] = "run" /\ Finishes(c) /\ credits' = credits
        /\ sem' = IF c \in Bypasses THEN sem ELSE Release(sem)
    BY <1>11 DEF CallEnds
  <2>2. StatesOK' /\ JobsOK' /\ CallsInv' /\ CreditsOK'
    BY <1>1, <2>1, FinishesKeeps DEF CreditsOK
  <2>3. pc' = [pc EXCEPT ![c] = "idle"] /\ args' = [args EXCEPT ![c] = NoArgs]
    BY <2>1 DEF Finishes
  <2>4. Holders' = Holders \ {c} /\ Waiting' = Waiting
    BY <1>1, <1>2, <2>1, <2>3, HoldersAre, HoldersNext DEF StatesOK, Waiting
  <2>5. c \in Holders <=> c \notin Bypasses
    BY <1>2, <2>1 DEF Holders
  <2>6. c \in Bypasses => SemUse
    BY <2>1, <2>4, <2>5 DEF SemUse, SemKept
  <2>7. c \notin Bypasses => SemUse
    BY <1>2, <2>1, <2>4, <2>5 DEF SemUse, SemReleased
  <2> QED
    BY <2>2, <2>6, <2>7, UseKeeps, IInvFrom
<1> QED
  BY <1>4, <1>5, <1>6, <1>7, <1>8, <1>9, <1>10, <1>11

\* A job moves from one state to another: what it leaves of the rest.
LEMMA JobSteps ==
  ASSUME IInv, NEW j \in Jobs,
         \/ JobExits(j)
         \/ JobTakes(j)
         \/ JobWaits(j)
         \/ JobResumes(j)
         \/ JobEnds(j)
         \/ JobCancelled(j)
  PROVE  IInv' /\ SemUse
<1>1. StatesOK /\ CreditsOK /\ JobsOK /\ SemInv
  BY DEF IInv
<1>2. j \in Procs /\ j \notin Calls
  BY SupervisorConstants DEF Procs
<1>3. args' = args /\ queued' = queued /\ locks' = locks /\ credits' = credits
      /\ stopping' = stopping
  BY DEF JobExits, JobTakes, JobWaits, JobResumes, JobEnds, JobCancelled, CallsKept
<1>4. CreditsOK'
  BY <1>1, <1>3 DEF CreditsOK
\* All but the end of a cancelled job change the state of one job, and none of
\* them happens while stop() awaits.
<1>5. ASSUME NEW next \in {"sleep", "wait", "run", "done"}, JobMoves(j, next),
             cancelled = {}, cancelled' = {}, pc[j] # "idle"
      PROVE  /\ StatesOK' /\ JobsOK' /\ CallsInv'
             /\ pc'[j] = next /\ \A p \in Procs \ {j} : pc'[p] = pc[p]
  <2>1. pc' = [pc EXCEPT ![j] = next]
    BY <1>5 DEF JobMoves
  <2>2. pc'[j] = next /\ \A p \in Procs \ {j} : pc'[p] = pc[p]
    BY <1>1, <1>2, <2>1 DEF StatesOK
  <2>3. StatesOK'
    BY <1>1, <1>3, <1>5, <2>1 DEF StatesOK
  <2>4. JobsOK'
    <3>1. \A k, l \in Jobs : pc'[k] = "idle" => pc'[l] = "idle"
      BY <1>1, <1>5, <2>2 DEF JobsOK, Procs
    <3> QED
      BY <1>5, <3>1 DEF JobsOK
  <2>5. CallsInv'
    BY <1>2, <1>3, <2>2, CallsUndisturbed DEF Procs
  <2> QED
    BY <2>2, <2>3, <2>4, <2>5
<1>6. CASE JobExits(j)
  <2>1. /\ pc[j] = "sleep" /\ JobMoves(j, "done")
        /\ cancelled = {} /\ cancelled' = {} /\ sem' = sem
    BY <1>1, <1>6 DEF JobExits, JobsOK
  <2>2. /\ StatesOK' /\ JobsOK' /\ CallsInv'
        /\ pc'[j] = "done" /\ \A p \in Procs \ {j} : pc'[p] = pc[p]
    BY <1>5, <2>1
  <2>3. Holders' = Holders /\ Waiting' = Waiting
    BY <1>3, <2>1, <2>2, HoldersAre, HoldersNext DEF Waiting
  <2>4. SemUse
    BY <2>1, <2>3 DEF SemUse, SemKept
  <2> QED
    BY <1>4, <2>2, <2>4, UseKeeps, IInvFrom
<1>7. CASE JobTakes(j)
  <2>1. /\ pc[j] = "sleep" /\ ~Locked /\ JobMoves(j, "run")
        /\ cancelled = {} /\ cancelled' = {} /\ sem' = Taken(sem)
    BY <1>1, <1>7 DEF JobTakes, JobsOK
  <2>2. /\ StatesOK' /\ JobsOK' /\ CallsInv'
        /\ pc'[j] = "run" /\ \A p \in Procs \ {j} : pc'[p] = pc[p]
    BY <1>5, <2>1
  <2>3. Holders' = Holders \cup {j} /\ Waiting' = Waiting /\ j \notin Holders
    BY <1>2, <1>3, <2>1, <2>2, HoldersAre, HoldersNext DEF Waiting
  <2>4. SemUse
    BY <1>2, <2>1, <2>3 DEF SemUse, SemTaken
  <2> QED
    BY <1>4, <2>2, <2>4, UseKeeps, IInvFrom
<1>8. CASE JobWaits(j)
  <2>1. /\ pc[j] = "sleep" /\ Locked /\ JobMoves(j, "wait")
        /\ cancelled = {} /\ cancelled' = {} /\ sem' = Joined(sem, j)
    BY <1>1, <1>8 DEF JobWaits, JobsOK
  <2>2. /\ StatesOK' /\ JobsOK' /\ CallsInv'
        /\ pc'[j] = "wait" /\ \A p \in Procs \ {j} : pc'[p] = pc[p]
    BY <1>5, <2>1
  <2>3. Holders' = Holders /\ Waiting' = Waiting \cup {j} /\ j \notin Waiting /\ j \notin Holders
    BY <1>2, <1>3, <2>1, <2>2, HoldersAre, HoldersNext DEF Waiting
  <2>4. SemUse
    BY <1>2, <2>1, <2>3 DEF SemUse, SemJoined
  <2> QED
    BY <1>4, <2>2, <2>4, UseKeeps, IInvFrom
<1>9. CASE JobResumes(j)
  <2>1. /\ pc[j] = "wait" /\ j \in sem.granted /\ JobMoves(j, "run")
        /\ cancelled = {} /\ cancelled' = {} /\ sem' = Resumed(sem, j)
    BY <1>1, <1>9 DEF JobResumes, JobsOK
  <2>2. /\ StatesOK' /\ JobsOK' /\ CallsInv'
        /\ pc'[j] = "run" /\ \A p \in Procs \ {j} : pc'[p] = pc[p]
    BY <1>5, <2>1
  <2>3. Holders' = Holders \cup {j} /\ Waiting' = Waiting \ {j}
    BY <1>2, <1>3, <2>1, <2>2, HoldersAre, HoldersNext DEF Waiting
  <2>4. SemUse
    BY <1>2, <2>1, <2>3 DEF SemUse, SemResumed
  <2> QED
    BY <1>4, <2>2, <2>4, UseKeeps, IInvFrom
<1>10. CASE JobEnds(j)
  <2>1. /\ pc[j] = "run" /\ JobMoves(j, "sleep")
        /\ cancelled = {} /\ cancelled' = {} /\ sem' = Release(sem)
    BY <1>1, <1>10 DEF JobEnds, JobsOK
  <2>2. /\ StatesOK' /\ JobsOK' /\ CallsInv'
        /\ pc'[j] = "sleep" /\ \A p \in Procs \ {j} : pc'[p] = pc[p]
    BY <1>5, <2>1
  <2>3. Holders' = Holders \ {j} /\ Waiting' = Waiting /\ j \in Holders
    BY <1>2, <1>3, <2>1, <2>2, HoldersAre, HoldersNext DEF Waiting
  <2>4. SemUse
    BY <1>2, <2>1, <2>3 DEF SemUse, SemReleased
  <2> QED
    BY <1>4, <2>2, <2>4, UseKeeps, IInvFrom
<1>11. CASE JobCancelled(j)
  <2>1. /\ j \in cancelled /\ cancelled' = cancelled \ {j}
        /\ pc' = [p \in Procs |-> IF p \in Jobs /\ cancelled' = {} THEN "idle"
                                  ELSE IF p = j THEN "done" ELSE pc[p]]
        /\ sem' = IF pc[j] = "run" THEN Release(sem)
                  ELSE IF pc[j] = "wait" THEN Withdrawn(sem, j) ELSE sem
    BY <1>11 DEF JobCancelled
  <2>2. StatesOK'
    BY <1>1, <1>3, <2>1 DEF StatesOK
  <2>3. \A c \in Calls : pc'[c] = pc[c]
    BY <1>2, <2>1, SupervisorConstants DEF Procs
  <2>4. CallsInv'
    BY <1>3, <2>3, CallsUndisturbed
  <2>5. JobsOK'
    BY <1>1, <1>3, <2>1 DEF StatesOK, JobsOK, Procs
  \* The other jobs are not disturbed: they are all over when this was the last.
  <2>6. ASSUME NEW p \in Procs \ {j}
        PROVE  pc'[p] \in {"wait", "run"} \/ pc[p] \in {"wait", "run"} => pc'[p] = pc[p]
    <3>1. CASE p \in Jobs /\ cancelled' = {}
      <4>1. p \notin cancelled
        BY <2>1, <3>1
      <4> QED
        BY <1>1, <2>1, <3>1, <4>1 DEF JobsOK
    <3>2. CASE ~ (p \in Jobs /\ cancelled' = {})
      BY <2>1, <3>2
    <3> QED
      BY <3>1, <3>2
  <2>7. pc'[j] \in {"idle", "done"}
    BY <1>2, <2>1
  <2>8. Holders' = Holders \ {j} /\ Waiting' = Waiting \ {j}
    BY <1>2, <1>3, <2>6, <2>7, HoldersAre, HoldersNext DEF Waiting
  <2>9. (j \in Holders <=> pc[j] = "run") /\ (j \in Waiting <=> pc[j] = "wait")
    BY <1>2, HoldersAre DEF Waiting
  <2>10. pc[j] = "run" => SemUse
    BY <1>2, <2>1, <2>8, <2>9 DEF SemUse, SemReleased
  <2>11. pc[j] = "wait" => SemUse
    BY <1>2, <2>1, <2>8, <2>9 DEF SemUse, SemWithdrawn
  <2>12. pc[j] # "run" /\ pc[j] # "wait" => SemUse
    BY <2>1, <2>8, <2>9 DEF SemUse, SemKept
  <2>13. SemUse
    BY <2>10, <2>11, <2>12
  <2> QED
    BY <1>4, <2>2, <2>4, <2>5, <2>13, UseKeeps, IInvFrom
<1> QED
  BY <1>6, <1>7, <1>8, <1>9, <1>10, <1>11

LEMMA StartKeeps == IInv /\ Start => IInv' /\ SemUse
<1> SUFFICES ASSUME IInv, Start PROVE IInv' /\ SemUse
  OBVIOUS
<1>1. StatesOK /\ CreditsOK /\ JobsOK
  BY DEF IInv
<1>2. /\ \A j \in Jobs : pc[j] = "idle"
      /\ pc' = [p \in Procs |-> IF p \in Jobs /\ pc[p] = "idle" THEN "sleep" ELSE pc[p]]
      /\ UNCHANGED <<args, queued, locks, credits, sem, stopping, cancelled>>
  BY <1>1 DEF Start, CallsKept, JobsOK
<1>3. /\ \A c \in Calls : pc'[c] = pc[c]
      /\ \A j \in Jobs : pc'[j] = "sleep"
  BY <1>2, SupervisorConstants DEF Procs
<1>4. cancelled = {}
  BY <1>1, <1>2 DEF StatesOK, JobsOK
<1>5. StatesOK' /\ CreditsOK' /\ JobsOK'
  BY <1>1, <1>2, <1>3, <1>4 DEF StatesOK, CreditsOK, JobsOK
<1>6. CallsInv'
  BY <1>2, <1>3, CallsUndisturbed
<1>7. Holders' = Holders /\ Waiting' = Waiting
  BY <1>2, <1>3, HoldersAre, HoldersNext DEF Waiting, Procs
<1>8. SemUse
  BY <1>2, <1>7 DEF SemUse, SemKept
<1> QED
  BY <1>5, <1>6, <1>8, UseKeeps, IInvFrom

LEMMA StopKeeps == IInv /\ Stop => IInv' /\ SemUse
<1> SUFFICES ASSUME IInv, Stop PROVE IInv' /\ SemUse
  OBVIOUS
<1>1. StatesOK /\ CreditsOK /\ JobsOK
  BY DEF IInv
<1>2. /\ stopping' = TRUE /\ cancelled' = {j \in Jobs : pc[j] \notin {"idle", "done"}}
      /\ pc' = [p \in Procs |-> IF p \in Jobs /\ cancelled' = {} THEN "idle" ELSE pc[p]]
      /\ UNCHANGED <<args, queued, locks, credits, sem>>
  BY DEF Stop, CallsKept
<1>3. \A c \in Calls : pc'[c] = pc[c]
  BY <1>2, SupervisorConstants DEF Procs
<1>4. StatesOK' /\ CreditsOK'
  BY <1>1, <1>2 DEF StatesOK, CreditsOK
<1>5. CallsInv'
  BY <1>2, <1>3, CallsUndisturbed
<1>6. CASE cancelled' = {}
  <2>1. \A j \in Jobs : pc[j] \in {"idle", "done"} /\ pc'[j] = "idle"
    BY <1>2, <1>6 DEF Procs
  <2>2. JobsOK'
    BY <1>6, <2>1 DEF JobsOK
  <2>3. Holders' = Holders /\ Waiting' = Waiting
    BY <1>2, <1>3, <2>1, HoldersAre, HoldersNext DEF Waiting, Procs
  <2>4. SemUse
    BY <1>2, <2>3 DEF SemUse, SemKept
  <2> QED
    BY <1>4, <1>5, <2>2, <2>4, UseKeeps, IInvFrom
<1>7. CASE cancelled' # {}
  <2>1. \A p \in Procs : pc'[p] = pc[p]
    BY <1>2, <1>7
  <2>2. \A j \in Jobs : pc[j] # "idle"
    BY <1>1, <1>2, <1>7 DEF JobsOK
  <2>3. JobsOK'
    BY <1>1, <1>2, <2>1, <2>2 DEF StatesOK, JobsOK, Procs
  <2>4. Holders' = Holders /\ Waiting' = Waiting
    BY <1>2, <2>1, HoldersAre, HoldersNext DEF Waiting
  <2>5. SemUse
    BY <1>2, <2>4 DEF SemUse, SemKept
  <2> QED
    BY <1>4, <1>5, <2>3, <2>5, UseKeeps, IInvFrom
<1> QED
  BY <1>6, <1>7

LEMMA IInvStutter == IInv /\ UNCHANGED vars => IInv' /\ SemUse
<1> SUFFICES ASSUME IInv, UNCHANGED vars PROVE IInv' /\ SemUse
  OBVIOUS
<1>1. UNCHANGED <<pc, args, sem, queued, locks, credits, stopping, cancelled>>
  BY DEF vars
<1>2. StatesOK' /\ CreditsOK' /\ JobsOK'
  BY <1>1 DEF IInv, StatesOK, CreditsOK, JobsOK
<1>3. CallsInv'
  BY <1>1, CallsUndisturbed
<1>4. Holders' = Holders /\ Waiting' = Waiting
  BY <1>1, HoldersAre, HoldersNext DEF Waiting
<1>5. SemUse
  BY <1>1, <1>4 DEF SemUse, SemKept
<1> QED
  BY <1>2, <1>3, <1>5, UseKeeps, IInvFrom

LEMMA IInvNext == IInv /\ [Next]_vars => IInv' /\ SemUse
<1> SUFFICES ASSUME IInv, Next PROVE IInv' /\ SemUse
  BY IInvStutter
<1>1. ASSUME NEW c \in Calls, Execute(c) \/ CallGoesOn(c) \/ CallGivesUp(c) PROVE IInv' /\ SemUse
  <2>1. CASE Execute(c)
    <3>1. PICK key \in Keys \cup {NoKey} :
            \/ CallBypasses(c, key)
            \/ CallPreemptedAtOnce(c, key)
            \/ \E class \in Classes : CallTakes(c, class, key) \/ CallWaits(c, class, key)
      BY <2>1 DEF Execute
    <3>2. CASE CallBypasses(c, key) \/ CallPreemptedAtOnce(c, key)
      BY <3>2, CallSteps DEF Classes
    <3>3. CASE \E class \in Classes : CallTakes(c, class, key) \/ CallWaits(c, class, key)
      BY <3>3, CallSteps
    <3> QED
      BY <3>1, <3>2, <3>3
  <2>2. CASE CallGoesOn(c) \/ CallGivesUp(c)
    <3>1. CallResumes(c) \/ CallPreempted(c) \/ CallEnds(c) \/ CallGivesUp(c)
      BY <2>2 DEF CallGoesOn, CallHeeds
    <3>2. NoKey \in Keys \cup {NoKey} /\ "low" \in Classes
      BY DEF Classes
    <3> QED
      BY <3>1, <3>2, CallSteps
  <2> QED
    BY <1>1, <2>1, <2>2
<1>2. ASSUME NEW j \in Jobs, JobAsks(j) \/ JobGoesOn(j) PROVE IInv' /\ SemUse
  BY <1>2, JobSteps DEF JobAsks, JobGoesOn
<1>3. CASE Start
  BY <1>3, StartKeeps
<1>4. CASE Stop
  BY <1>4, StopKeeps
<1> QED
  BY <1>1, <1>2, <1>3, <1>4 DEF Next

LEMMA IInvAlways == Spec => []IInv
BY IInvInit, IInvNext, PTL DEF Spec

-----------------------------------------------------------------------------
(* The permits are fair: the steps of the semaphore are steps of FairSlots.  *)

Undone(s) == Waiters(s) \ s.granted

\* From s to t permits are handed to the first of those who wait in s, and to
\* nobody else.
HandedOut(s, t) ==
  \E first \in SUBSET Undone(s) :
    /\ \A p \in first, q \in Undone(s) \ first : s.place[p] < s.place[q]
    /\ t.granted = s.granted \cup first
    /\ t.place = s.place

\* A permit is free while somebody waits only if a waiter that was handed one is
\* still to resume: it will pass on what is free.
NotIdle(s) == s.value > 0 /\ Undone(s) # {} => s.granted # {}

\* A wake-up hands one permit to the first in line.
LEMMA WakeHands ==
  ASSUME NEW s, SemOK(s), s.value > 0
  PROVE  HandedOut(s, Wake(s)) /\ NotIdle(Wake(s))
<1> DEFINE first == {p \in Undone(s) : \A q \in Undone(s) : s.place[p] <= s.place[q]}
<1>0. s \in Semaphores
  BY DEF SemOK
<1>1. CASE Undone(s) = {}
  <2>1. Wake(s) = s
    BY <1>1 DEF Wake, Undone
  <2> QED
    BY <1>1, <2>1 DEF HandedOut, NotIdle
<1>2. CASE Undone(s) # {}
  <2>1. Wake(s) = [s EXCEPT !.value = @ - 1, !.granted = @ \cup first]
    BY <1>2 DEF Wake, Undone
  <2>2. Wake(s).granted = s.granted \cup first /\ Wake(s).place = s.place
    BY <1>0, <2>1 DEF Semaphores
  <2>3. first \in SUBSET Undone(s)
    OBVIOUS
  <2>4. ASSUME NEW p \in first, NEW q \in Undone(s) \ first PROVE s.place[p] < s.place[q]
    <3>1. PICK r \in Undone(s) : ~ (s.place[q] <= s.place[r])
      OBVIOUS
    <3>2. s.place[p] <= s.place[r]
      OBVIOUS
    <3>3. s.place[p] \in Nat /\ s.place[q] \in Nat /\ s.place[r] \in Nat
      BY <1>0, <2>3 DEF Semaphores, Undone, Waiters
    <3> QED
      BY <3>1, <3>2, <3>3
  <2>5. HandedOut(s, Wake(s))
    BY <2>2, <2>3, <2>4 DEF HandedOut
  <2>6. Wake(s).granted # {}
    <3> DEFINE T == {s.place[p] : p \in Undone(s)}
    <3>1. T \subseteq Nat /\ T # {}
      BY <1>0, <1>2 DEF Semaphores, Undone, Waiters
    <3>2. PICK x \in T : \A y \in T : x <= y
      BY <3>1, Least
    <3>3. PICK p \in Undone(s) : s.place[p] = x
      BY <3>2
    <3>4. p \in first
      BY <3>2, <3>3
    <3> QED
      BY <2>2, <3>4
  <2> QED
    BY <2>5, <2>6 DEF NotIdle
<1> QED
  BY <1>1, <1>2

\* A permit that is given back goes to the first in line.
LEMMA ReleaseHands ==
  ASSUME NEW s, SemOK(s)
  PROVE  HandedOut(s, Release(s)) /\ NotIdle(Release(s))
<1> DEFINE t == [s EXCEPT !.value = @ + 1]
<1>1. t \in Semaphores /\ t.value = s.value + 1 /\ t.place = s.place /\ t.granted = s.granted
  BY DEF SemOK, Semaphores
<1>2. Waiters(t) = Waiters(s)
  BY <1>1 DEF Waiters
<1>3. SemOK(t) /\ t.value > 0
  BY <1>1, <1>2 DEF SemOK, Semaphores
<1> HIDE DEF t
<1>4. HandedOut(t, Wake(t)) /\ NotIdle(Wake(t))
  BY <1>3, WakeHands
<1>5. Release(s) = Wake(t)
  BY DEF Release, t
<1>6. Undone(t) = Undone(s)
  BY <1>1, <1>2 DEF Undone
<1> QED
  BY <1>1, <1>4, <1>5, <1>6 DEF HandedOut

\* Who leaves the line does not change the order of the others.
LEMMA LeftKeepsOrder ==
  ASSUME NEW s, SemOK(s), NEW p \in Waiters(s)
  PROVE  /\ Left(s, p).value = s.value /\ Left(s, p).granted = s.granted \ {p}
         /\ \A q, r \in Waiters(s) \ {p} :
              Left(s, p).place[q] < Left(s, p).place[r] <=> s.place[q] < s.place[r]
<1> DEFINE t == Left(s, p)
           f == [q \in Procs |-> IF q = p THEN 0
                                 ELSE IF s.place[q] > s.place[p] THEN s.place[q] - 1
                                 ELSE s.place[q]]
<1>1. \A q \in Procs : s.place[q] \in Nat
  BY DEF SemOK, Semaphores
<1>2. p \in Procs /\ s.place[p] # 0
  BY DEF Waiters
<1>3. t.value = s.value /\ t.place = f /\ t.granted = s.granted \ {p}
  BY <1>1, <1>2 DEF SemOK, Semaphores, Left
<1>4. ASSUME NEW q \in Waiters(s) \ {p}, NEW r \in Waiters(s) \ {p}
      PROVE  t.place[q] < t.place[r] <=> s.place[q] < s.place[r]
  <2> DEFINE a == s.place[p]
             b == s.place[q]
             c == s.place[r]
  <2>1. q \in Procs /\ r \in Procs
    BY DEF Waiters
  <2>2. a \in Nat /\ b \in Nat /\ c \in Nat
    BY <1>1, <1>2, <2>1
  <2>3. b # a /\ c # a
    BY DEF SemOK
  <2>4. t.place[q] = (IF b > a THEN b - 1 ELSE b) /\ t.place[r] = (IF c > a THEN c - 1 ELSE c)
    BY <1>3, <2>1
  <2> HIDE DEF a, b, c, t
  <2>5. t.place[q] < t.place[r] <=> b < c
    BY <2>2, <2>3, <2>4
  <2> QED
    BY <2>5 DEF b, c
<1> QED
  BY <1>3, <1>4

LEMMA SameCardinality == ASSUME NEW S PROVE Fair!Cardinality(S) = Cardinality(S)
BY DEF Fair!Cardinality, Cardinality

\* What FairSlots says of a state follows from the count of permits.
LEMMA SlotsRules ==
  ASSUME IInv', NotIdle(sem')
  PROVE  Fair!WithinSlots' /\ Fair!NoSlotIdle'
<1> DEFINE g == sem'.granted
           h == Holders'
           v == sem'.value
<1>1. /\ IsFiniteSet(g) /\ IsFiniteSet(h) /\ v \in Nat
      /\ Cardinality(g) \in Nat /\ Cardinality(h) \in Nat /\ Cardinality(g \cap h) \in Nat
  BY ProcsFinite DEF IInv, SemInv, SemOK, Semaphores, Holders
<1>2. v + Cardinality(g) + Cardinality(h) = MaxConcurrent
  BY DEF IInv, SemInv, PermitsConserved
<1>3. Cardinality(g \cup h) = Cardinality(g) + Cardinality(h) - Cardinality(g \cap h)
  BY <1>1, FS_Union
<1>4. Cardinality(g \cup h) <= MaxConcurrent
  BY <1>1, <1>2, <1>3
<1>5. Line' # {} => g # {} \/ Cardinality(h) = MaxConcurrent
  <2> SUFFICES ASSUME Line' # {}, g = {} PROVE Cardinality(h) = MaxConcurrent
    OBVIOUS
  <2>1. Undone(sem') # {}
    BY DEF Line, Undone, Waiters
  <2>2. v = 0
    BY <1>1, <2>1 DEF NotIdle
  <2> QED
    BY <1>1, <1>2, <2>2, FS_EmptySet
<1> QED
  BY <1>4, <1>5, SameCardinality DEF Fair!WithinSlots, Fair!NoSlotIdle

\* Permits that are handed out after somebody left, or after nobody did, make a
\* step of the abstract line.
LEMMA HandsOutAfter ==
  ASSUME IInv, NEW t, NEW S, t.granted = sem.granted \ S, Waiters(t) = Waiters(sem) \ S,
         \A q, r \in Waiters(t) : t.place[q] < t.place[r] <=> sem.place[q] < sem.place[r],
         HandedOut(t, sem')
  PROVE  Fair!HandsOut(Line \ S, sem.granted \ S)
<1>1. PICK first \in SUBSET Undone(t) :
        /\ \A p \in first, q \in Undone(t) \ first : t.place[p] < t.place[q]
        /\ sem'.granted = t.granted \cup first
        /\ sem'.place = t.place
  BY DEF HandedOut
<1>2. Undone(t) = Line \ S /\ Undone(t) \subseteq Waiters(t)
  BY DEF Undone, Line
<1>3. Waiters(sem') = Waiters(t)
  BY <1>1 DEF Waiters
<1>4. Line' = Undone(t) \ first
  BY <1>1, <1>3 DEF Line, Undone, Waiters
<1>5. \A p \in first, q \in Undone(t) \ first : <<p, q>> \in Ahead
  BY <1>1, <1>2 DEF Ahead
<1>6. Ahead' = {pq \in Line' \X Line' : sem'.place[pq[1]] < sem'.place[pq[2]]}
  BY DEF Ahead, Line
<1>7. Line' \subseteq Line /\ Line' \subseteq Waiters(t)
  BY <1>2, <1>4
<1>8. Ahead' = Ahead \cap (Line' \X Line')
  BY <1>1, <1>6, <1>7 DEF Ahead
<1> QED
  BY <1>1, <1>2, <1>4, <1>5, <1>8 DEF Fair!HandsOut

LEMMA StaysAsItIs == ASSUME NEW s PROVE HandedOut(s, s)
BY DEF HandedOut

LEMMA HandedOutTwice ==
  ASSUME NEW s, NEW t, NEW u, HandedOut(s, t), HandedOut(t, u), Waiters(s) = Waiters(t)
  PROVE  HandedOut(s, u)
<1>1. PICK A \in SUBSET Undone(s) :
        /\ \A p \in A, q \in Undone(s) \ A : s.place[p] < s.place[q]
        /\ t.granted = s.granted \cup A /\ t.place = s.place
  BY DEF HandedOut
<1>2. PICK B \in SUBSET Undone(t) :
        /\ \A p \in B, q \in Undone(t) \ B : t.place[p] < t.place[q]
        /\ u.granted = t.granted \cup B /\ u.place = t.place
  BY DEF HandedOut
<1>3. Undone(t) = Undone(s) \ A
  BY <1>1 DEF Undone
<1>4. A \cup B \in SUBSET Undone(s) /\ u.granted = s.granted \cup (A \cup B) /\ u.place = s.place
  BY <1>1, <1>2, <1>3
<1>5. \A p \in A \cup B, q \in Undone(s) \ (A \cup B) : s.place[p] < s.place[q]
  BY <1>1, <1>2, <1>3
<1> QED
  BY <1>4, <1>5 DEF HandedOut

Slotted == <<Line, Ahead, sem.granted, Holders>>

\* Every use of the semaphore is a step of the abstract line, or none.
LEMMA UseFair ==
  ASSUME IInv, NotIdle(sem), SemUse, IInv'
  PROVE  NotIdle(sem') /\ [Fair!Next]_Slotted
<1>1. SemOK(sem) /\ Waiters(sem) = Waiting /\ sem \in Semaphores /\ sem.granted \subseteq Waiters(sem)
  BY DEF IInv, SemInv, SemOK
<1>2. Holders \cap Waiting = {}
  BY HoldersAre
<1>3. ASSUME NEW p \in Procs, NotIdle(sem'),
             Fair!Walks(p) \/ Fair!Joins(p) \/ Fair!Starts(p) \/ Fair!GivesUp(p) \/ Fair!Ends(p)
      PROVE  NotIdle(sem') /\ [Fair!Next]_Slotted
  BY <1>3, SlotsRules DEF Fair!Next
<1>4. CASE SemKept
  <2>1. Line' = Line /\ Ahead' = Ahead
    BY <1>4 DEF SemKept, Line, Ahead, Waiters
  <2> QED
    BY <1>4, <2>1 DEF SemKept, Slotted
<1>5. ASSUME NEW p \in Procs, SemTaken(p) PROVE NotIdle(sem') /\ [Fair!Next]_Slotted
  <2>1. sem'.place = sem.place /\ sem'.granted = sem.granted
    BY <1>1, <1>5 DEF SemTaken, Taken, Semaphores
  <2>2. Waiters(sem') = Waiters(sem) /\ Waiters(sem) = {}
    BY <1>5, <2>1 DEF SemTaken, Locked, Waiters
  <2>3. NotIdle(sem')
    BY <2>2 DEF NotIdle, Undone
  <2>4. Line = {} /\ sem.granted = {} /\ Line' = {} /\ Ahead' = Ahead
    BY <1>1, <2>1, <2>2 DEF Line, Ahead, Waiters
  <2>5. Fair!Walks(p)
    BY <1>5, <2>1, <2>4 DEF Fair!Walks, SemTaken
  <2> QED
    BY <1>3, <2>3, <2>5
<1>6. ASSUME NEW p \in Procs, SemJoined(p) PROVE NotIdle(sem') /\ [Fair!Next]_Slotted
  <2> DEFINE n == Cardinality(Waiters(sem))
  <2>1. n \in Nat /\ p \notin Waiters(sem) /\ p \notin Holders
    BY <1>1, <1>6, ProcsFinite DEF SemJoined, Waiters
  <2>2. sem'.value = sem.value /\ sem'.granted = sem.granted
        /\ sem'.place = [sem.place EXCEPT ![p] = n + 1]
    BY <1>1, <1>6 DEF SemJoined, Joined, Semaphores
  <2>3. \A q \in Procs : sem'.place[q] = IF q = p THEN n + 1 ELSE sem.place[q]
    BY <1>1, <2>2 DEF Semaphores
  <2>4. Waiters(sem') = Waiters(sem) \cup {p}
    BY <2>1, <2>3 DEF Waiters
  <2>5. NotIdle(sem')
    BY <1>1, <1>6, <2>2 DEF NotIdle, Undone, SemJoined, Locked
  <2>6. Line' = Line \cup {p} /\ p \notin Line
    BY <1>1, <2>1, <2>2, <2>4 DEF Line, Waiters
  <2>7. \A q \in Line : q \in Procs /\ q # p /\ sem.place[q] \in Nat /\ sem.place[q] <= n
    BY <1>1, <2>1 DEF Line, SemOK, Semaphores, Waiters
  <2>8. ASSUME NEW q \in Line', NEW r \in Line'
        PROVE  sem'.place[q] < sem'.place[r] <=> (q \in Line /\ (r = p \/ sem.place[q] < sem.place[r]))
    <3>1. CASE q = p /\ r = p
      BY <2>1, <2>3, <2>6, <3>1
    <3>2. CASE q = p /\ r # p
      BY <2>1, <2>3, <2>6, <2>7, <3>2
    <3>3. CASE q # p /\ r = p
      BY <2>1, <2>3, <2>6, <2>7, <3>3
    <3>4. CASE q # p /\ r # p
      BY <2>3, <2>6, <2>7, <3>4
    <3> QED
      BY <3>1, <3>2, <3>3, <3>4
  <2>9. Ahead' = {pq \in Line' \X Line' : sem'.place[pq[1]] < sem'.place[pq[2]]}
    BY DEF Ahead
  <2>10. ASSUME NEW q \in Line', NEW r \in Line'
         PROVE  <<q, r>> \in Ahead' <=> <<q, r>> \in Ahead \cup (Line \X {p})
    BY <2>6, <2>8, <2>9 DEF Ahead
  <2>11. Ahead' \subseteq Line' \X Line' /\ Ahead \cup (Line \X {p}) \subseteq Line' \X Line'
    BY <2>6, <2>9 DEF Ahead
  <2>12. Ahead' = Ahead \cup (Line \X {p})
    BY <2>10, <2>11
  <2>13. Fair!Joins(p)
    BY <1>1, <1>6, <2>1, <2>2, <2>6, <2>12 DEF Fair!Joins, SemJoined
  <2> QED
    BY <1>3, <2>5, <2>13
\* The others hand permits out once p has left, or although nobody has.
<1>7. ASSUME NEW p \in Waiters(sem)
      PROVE  /\ SemOK(Left(sem, p)) /\ Left(sem, p).value = sem.value
             /\ Left(sem, p).granted = sem.granted \ {p}
             /\ Waiters(Left(sem, p)) = Waiters(sem) \ {p}
             /\ HandedOut(Left(sem, p), sem') => Fair!HandsOut(Line \ {p}, sem.granted \ {p})
  <2>1. SemOK(Left(sem, p)) /\ Waiters(Left(sem, p)) = Waiters(sem) \ {p}
    BY <1>1, LeftRemoves
  <2>2. /\ Left(sem, p).value = sem.value /\ Left(sem, p).granted = sem.granted \ {p}
        /\ \A q, r \in Waiters(sem) \ {p} :
             Left(sem, p).place[q] < Left(sem, p).place[r] <=> sem.place[q] < sem.place[r]
    BY <1>1, LeftKeepsOrder
  <2> QED
    BY <2>1, <2>2, HandsOutAfter
<1>8. ASSUME NEW p \in sem.granted
      PROVE  HandedOut(Left(sem, p), Resumed(sem, p)) /\ NotIdle(Resumed(sem, p))
  <2>1. CASE sem.value > 0
    BY <1>1, <1>7, <2>1, WakeHands DEF Resumed
  <2>2. CASE ~ (sem.value > 0)
    <3>1. Resumed(sem, p) = Left(sem, p)
      BY <2>2 DEF Resumed
    <3> QED
      BY <1>1, <1>7, <2>2, <3>1, StaysAsItIs DEF NotIdle
  <2> QED
    BY <2>1, <2>2
<1>9. ASSUME NEW p \in Procs, SemResumed(p) PROVE NotIdle(sem') /\ [Fair!Next]_Slotted
  <2>1. p \in sem.granted /\ p \in Waiters(sem) /\ p \notin Line
    BY <1>1, <1>9 DEF SemResumed, Line
  <2>2. Fair!HandsOut(Line \ {p}, sem.granted \ {p}) /\ NotIdle(sem')
    BY <1>7, <1>8, <1>9, <2>1 DEF SemResumed
  <2>3. Line \ {p} = Line
    BY <2>1
  <2>4. Fair!Starts(p)
    BY <1>9, <2>1, <2>2, <2>3 DEF Fair!Starts, SemResumed
  <2> QED
    BY <1>3, <2>2, <2>4
<1>10. ASSUME NEW p \in Procs, SemPreempted(p) PROVE NotIdle(sem') /\ [Fair!Next]_Slotted
  <2>1. p \in sem.granted /\ p \in Waiters(sem)
    BY <1>1, <1>10 DEF SemPreempted
  <2>2. HandedOut(Resumed(sem, p), sem') /\ NotIdle(sem')
    BY <1>1, <1>10, <2>1, ResumedTakes, ReleaseHands DEF SemPreempted
  <2>3. HandedOut(Left(sem, p), sem')
    <3>1. Waiters(Left(sem, p)) = Waiters(Resumed(sem, p))
      BY <1>1, <1>7, <2>1, ResumedTakes
    <3> QED
      BY <1>8, <2>1, <2>2, <3>1, HandedOutTwice
  <2>4. Fair!GivesUp(p)
    BY <1>7, <1>10, <2>1, <2>3 DEF Fair!GivesUp, SemPreempted
  <2> QED
    BY <1>3, <2>2, <2>4
<1>11. ASSUME NEW p \in Procs, SemReleased(p) PROVE NotIdle(sem') /\ [Fair!Next]_Slotted
  <2>1. HandedOut(sem, sem') /\ NotIdle(sem')
    BY <1>1, <1>11, ReleaseHands DEF SemReleased
  <2>2. Fair!HandsOut(Line, sem.granted)
    <3>1. sem.granted = sem.granted \ {} /\ Waiters(sem) = Waiters(sem) \ {} /\ Line \ {} = Line
      OBVIOUS
    <3> QED
      BY <2>1, <3>1, HandsOutAfter
  <2>3. Fair!Ends(p)
    BY <1>11, <2>2 DEF Fair!Ends, SemReleased
  <2> QED
    BY <1>3, <2>1, <2>3
<1>12. ASSUME NEW p \in Procs, SemWithdrawn(p) PROVE NotIdle(sem') /\ [Fair!Next]_Slotted
  <2>1. p \in Waiters(sem) /\ p \in Line \cup sem.granted
    BY <1>1, <1>12 DEF SemWithdrawn, Line
  <2>2. HandedOut(Left(sem, p), sem') /\ NotIdle(sem')
    <3>1. CASE p \in sem.granted
      BY <1>7, <1>12, <2>1, <3>1, ReleaseHands DEF SemWithdrawn, Withdrawn
    <3>2. CASE p \notin sem.granted
      <4>1. sem' = Left(sem, p) /\ sem.granted \ {p} = sem.granted
        BY <1>12, <3>2 DEF SemWithdrawn, Withdrawn
      <4>2. Undone(sem') \subseteq Undone(sem) /\ sem'.granted = sem.granted
        BY <1>7, <2>1, <4>1 DEF Undone
      <4> QED
        BY <1>7, <2>1, <4>1, <4>2, StaysAsItIs DEF NotIdle
    <3> QED
      BY <3>1, <3>2
  <2>3. Fair!GivesUp(p)
    BY <1>7, <1>12, <2>1, <2>2 DEF Fair!GivesUp, SemWithdrawn
  <2> QED
    BY <1>3, <2>2, <2>3
<1> QED
  BY <1>4, <1>5, <1>6, <1>9, <1>10, <1>11, <1>12 DEF SemUse

LEMMA FairInit == Init => Fair!Init /\ NotIdle(sem)
<1> SUFFICES ASSUME Init PROVE Fair!Init /\ NotIdle(sem)
  OBVIOUS
<1>1. Waiters(sem) = {} /\ sem.granted = {} /\ Holders = {}
  BY DEF Init, Waiters, Holders, Procs
<1>2. Line = {} /\ Ahead = {}
  BY <1>1 DEF Line, Ahead
<1> QED
  BY <1>1, <1>2 DEF Fair!Init, NotIdle, Undone

-----------------------------------------------------------------------------
(* The theorems. *)

\* The state has its types for every set of callers, jobs and locks; in
\* particular the semaphore never holds more than max_concurrent_jobs permits.
THEOREM SupervisorTypeCorrect == Spec => []TypeOK
BY IInvAlways, IInvTypeOK, PTL

\* However calls are preempted, time out, are retried or cancelled, and however
\* jobs are stopped, no permit of the semaphore is lost or made up.
THEOREM PermitsConservedAlways == Spec => []PermitsConserved
<1>1. IInv => PermitsConserved
  BY DEF IInv, SemInv
<1> QED
  BY <1>1, IInvAlways, PTL

\* A lock_key is held exactly while one call that asked for it is under way.
THEOREM LocksExactAlways == Spec => []LocksExact
<1>1. IInv => LocksExact
  BY DEF IInv
<1> QED
  BY <1>1, IInvAlways, PTL

\* queueDepth is the number of calls under way, and without protection work it
\* stays within max_queue_size.
THEOREM QueueExactAlways == Spec => []QueueExact
<1>1. IInv => QueueExact
  BY DEF IInv
<1> QED
  BY <1>1, IInvAlways, PTL

\* Permits are handed out first come, first served: the supervisor implements the
\* abstract line of FairSlots, where nobody overtakes and no slot stays idle while
\* somebody waits, whatever is preempted, times out, is cancelled or stopped.
THEOREM SlotsFairAlways == Spec => SlotsFair
<1>1. IInv /\ NotIdle(sem) /\ [Next]_vars => NotIdle(sem)' /\ [Fair!Next]_Slotted
  BY IInvNext, UseFair
<1>2. SlotsFair <=> Fair!Init /\ [][Fair!Next]_Slotted
  BY DEF SlotsFair, Fair!Spec, Slotted
<1> QED
  BY <1>1, <1>2, FairInit, IInvAlways, PTL DEF Spec
=============================================================================
