--------------------------- MODULE BackupsProofs ---------------------------
(***************************************************************************)
(* Theorems about Backups, for any number of job threads, files and        *)
(* commands and any limit.                                                 *)
(***************************************************************************)
EXTENDS Backups, FiniteSetTheorems, TLAPS

(* What lies between the lock and the unlock is for one thread at a time.  *)
MutexInv ==
  \A t \in Threads :
    /\ pc[t] \in {"check", "count", "wait", "unlock"} => mutex = t
    /\ pc[t] = "count" => active < MaxBackups
    /\ pc[t] = "wait" => active = MaxBackups

(* Children and threads about to fork one. *)
Total == running + zombies + Cardinality(LetThrough)

(* Below the limit the counter counts at least every child and every       *)
(* thread let through; from then on only a reaped child, or the absence of *)
(* any, lets a thread through.                                             *)
TotalInv == active < MaxBackups => Total <= active

IInv == TypeOK /\ MutexInv /\ TotalInv /\ OvershootBounded

(* The threads let through are finitely many, and at most all threads. *)
LEMMA LetThroughFacts ==
  /\ IsFiniteSet(LetThrough) /\ Cardinality(LetThrough) \in Nat
  /\ Cardinality(LetThrough) <= Cardinality(Threads)
  /\ Cardinality(Threads) \in Nat
  BY FS_Subset, FS_CardinalityType, BackupsAssumption DEF LetThrough

(* A thread is let through, goes on to fork, or stays where it is. *)
LEMMA LetThroughStep ==
  ASSUME TypeOK, NEW t \in Threads, NEW label, pc' = [pc EXCEPT ![t] = label]
  PROVE  /\ pc[t] \notin {"unlock", "fork"} /\ label = "unlock" =>
              Cardinality(LetThrough') = Cardinality(LetThrough) + 1
         /\ pc[t] \in {"unlock", "fork"} /\ label \notin {"unlock", "fork"} =>
              Cardinality(LetThrough') = Cardinality(LetThrough) - 1
         /\ (pc[t] \in {"unlock", "fork"} <=> label \in {"unlock", "fork"}) =>
              Cardinality(LetThrough') = Cardinality(LetThrough)
  <1>1. CASE pc[t] \notin {"unlock", "fork"} /\ label = "unlock"
    <2>1. LetThrough' = LetThrough \cup {t} /\ t \notin LetThrough
      BY <1>1 DEF LetThrough, TypeOK
    <2>2. QED
      BY <1>1, <2>1, LetThroughFacts, FS_AddElement
  <1>2. CASE pc[t] \in {"unlock", "fork"} /\ label \notin {"unlock", "fork"}
    <2>1. LetThrough' = LetThrough \ {t} /\ t \in LetThrough
      BY <1>2 DEF LetThrough, TypeOK
    <2>2. QED
      BY <1>2, <2>1, LetThroughFacts, FS_RemoveElement
  <1>3. CASE pc[t] \in {"unlock", "fork"} <=> label \in {"unlock", "fork"}
    <2>1. LetThrough' = LetThrough
      BY <1>3 DEF LetThrough, TypeOK
    <2>2. QED
      BY <1>3, <2>1
  <1>4. QED
    BY <1>1, <1>2, <1>3

(* No thread has been let through and no child forked. *)
LEMMA InitInv == Init => IInv
  <1> SUFFICES ASSUME Init PROVE IInv
    OBVIOUS
  <1> USE DEF Init
  <1>1. TypeOK /\ MutexInv
    BY BackupsAssumption DEF TypeOK, MutexInv
  <1>2. LetThrough = {}
    BY DEF LetThrough
  <1>3. Cardinality(LetThrough) = 0
    BY <1>2, FS_EmptySet
  <1>4. TotalInv /\ OvershootBounded
    BY <1>3, LetThroughFacts, BackupsAssumption DEF TotalInv, Total, OvershootBounded
  <1>5. QED
    BY <1>1, <1>4 DEF IInv

(* Types and the mutex: one thread at a time tests and raises the counter. *)
LEMMA MutexStep ==
  ASSUME IInv, NEW t \in Threads, Step(t)
  PROVE  TypeOK' /\ MutexInv'
  <1>0. TypeOK /\ MutexInv
    BY DEF IInv
  <1> USE <1>0, BackupsAssumption DEF TypeOK, MutexInv, Go
  <1>1. CASE NextFile(t)
    BY <1>1 DEF NextFile
  <1>2. CASE FileFails(t) \/ NoMoreFiles(t) \/ EndOfFile(t)
    BY <1>2 DEF FileFails, NoMoreFiles, EndOfFile
  <1>3. CASE Backup(t)
    BY <1>3 DEF Backup
  <1>4. CASE Check(t)
    BY <1>4 DEF Check
  <1>5. CASE Count(t)
    BY <1>5 DEF Count
  <1>6. CASE WaitForChild(t) \/ WaitFails(t)
    BY <1>6 DEF WaitForChild, WaitFails
  <1>7. CASE Unlock(t)
    BY <1>7 DEF Unlock
  <1>8. CASE Fork(t) \/ ForkFails(t)
    BY <1>8 DEF Fork, ForkFails
  <1>9. QED
    BY <1>1, <1>2, <1>3, <1>4, <1>5, <1>6, <1>7, <1>8 DEF Step

(* Every step keeps the account of children and threads let through. *)
LEMMA TotalStep ==
  ASSUME IInv, NEW t \in Threads, Step(t)
  PROVE  TotalInv' /\ OvershootBounded'
  <1> DEFINE N == Cardinality(LetThrough)
             Bound == IF MaxBackups > Cardinality(Threads)
                      THEN MaxBackups ELSE Cardinality(Threads)
  <1>0. TypeOK /\ MutexInv /\ TotalInv /\ OvershootBounded
    BY DEF IInv
  <1>1. /\ running \in Nat /\ zombies \in Nat /\ active \in 0..MaxBackups
        /\ N \in Nat /\ Cardinality(Threads) \in Nat /\ Bound \in Nat
        /\ MaxBackups <= Bound /\ Cardinality(Threads) <= Bound
        /\ MaxBackups \in Nat /\ running + zombies + N <= Bound
        /\ active < MaxBackups => running + zombies + N <= active
    BY <1>0, LetThroughFacts, BackupsAssumption
       DEF TypeOK, TotalInv, Total, OvershootBounded
  <1>2. N' \in Nat /\ N' <= Cardinality(Threads)
    BY FS_Subset, FS_CardinalityType, BackupsAssumption DEF LetThrough
  <1>3. /\ pc[t] = "count" => active < MaxBackups
        /\ pc[t] = "wait" => active = MaxBackups
    BY <1>0 DEF MutexInv
  <1>4. SUFFICES /\ running' + zombies' + N' <= Bound
                 /\ active' < MaxBackups => running' + zombies' + N' <= active'
    BY DEF TotalInv, Total, OvershootBounded
  <1>5. CASE \/ NextFile(t) \/ FileFails(t) \/ NoMoreFiles(t) \/ EndOfFile(t)
             \/ Backup(t) \/ Check(t)
    <2>1. /\ running' = running /\ zombies' = zombies /\ active' = active
          /\ \E label \in {"command", "end", "files", "check", "wait", "count"} :
               pc' = [pc EXCEPT ![t] = label]
          /\ pc[t] \notin {"unlock", "fork"}
      BY <1>5 DEF NextFile, FileFails, NoMoreFiles, EndOfFile, Backup, Check, Go
    <2>2. N' = N
      BY <1>0, <2>1, LetThroughStep
    <2>3. QED
      BY <1>1, <2>1, <2>2
  <1>6. CASE Count(t)
    <2>1. N' = N + 1
      BY <1>0, <1>6, LetThroughStep DEF Count, Go
    <2>2. QED
      BY <1>1, <1>3, <1>6, <2>1 DEF Count, Go
  <1>7. CASE WaitForChild(t)
    <2>1. N' = N + 1
      BY <1>0, <1>7, LetThroughStep DEF WaitForChild, Go
    <2>2. QED
      BY <1>1, <1>3, <1>7, <2>1 DEF WaitForChild, Go
  <1>8. CASE WaitFails(t)
    BY <1>1, <1>2, <1>3, <1>8 DEF WaitFails, Go
  <1>9. CASE Unlock(t)
    <2>1. N' = N
      BY <1>0, <1>9, LetThroughStep DEF Unlock, Go
    <2>2. QED
      BY <1>1, <1>9, <2>1 DEF Unlock
  <1>10. CASE Fork(t) \/ ForkFails(t)
    <2>1. N' = N - 1
      BY <1>0, <1>10, LetThroughStep DEF Fork, ForkFails, Go
    <2>2. QED
      BY <1>1, <1>2, <1>10, <2>1 DEF Fork, ForkFails
  <1>11. QED
    BY <1>5, <1>6, <1>7, <1>8, <1>9, <1>10 DEF Step

(* The invariant is inductive. *)
LEMMA NextStep == IInv /\ [Next]_vars => IInv'
  <1> SUFFICES ASSUME IInv, [Next]_vars PROVE IInv'
    OBVIOUS
  <1>1. CASE \E t \in Threads : Step(t)
    BY <1>1, MutexStep, TotalStep DEF IInv
  <1>2. CASE ChildExits
    <2>1. /\ TypeOK /\ running \in Nat /\ zombies \in Nat
          /\ Cardinality(LetThrough) \in Nat
      BY LetThroughFacts DEF IInv, TypeOK
    <2>2. UNCHANGED <<pc, mutex, files, todo, active>>
      BY <1>2 DEF ChildExits
    <2>3. LetThrough' = LetThrough
      BY <2>2 DEF LetThrough
    <2>4. running' \in Nat /\ zombies' \in Nat /\ running' + zombies' = running + zombies
      BY <1>2, <2>1 DEF ChildExits
    <2>5. TypeOK' /\ MutexInv'
      BY <2>2, <2>4 DEF IInv, TypeOK, MutexInv
    <2>6. TotalInv' /\ OvershootBounded'
      BY <2>2, <2>3, <2>4 DEF IInv, TotalInv, Total, OvershootBounded
    <2>7. QED
      BY <2>5, <2>6 DEF IInv
  <1>3. CASE UNCHANGED vars
    BY <1>3 DEF vars, IInv, TypeOK, MutexInv, TotalInv, Total, OvershootBounded, LetThrough
  <1>4. QED
    BY <1>1, <1>2, <1>3 DEF Next

(* The inductive invariant holds of every behaviour. *)
LEMMA Invariance == Spec => []IInv
  BY InitInv, NextStep, PTL DEF Spec

(* Types, and the counter active_backups never passes max_backups: the     *)
(* test and the increment are one critical section.                        *)
THEOREM TypeCorrect == Spec => []TypeOK
  <1>1. IInv => TypeOK
    BY DEF IInv
  <1>2. QED
    BY <1>1, Invariance, PTL

(* However the job threads interleave their locks, waits and forks, the    *)
(* children and those about to be forked are at most as many as the limit  *)
(* or the job threads, whichever is more.                                  *)
THEOREM Overshoot == Spec => []OvershootBounded
  <1>1. IInv => OvershootBounded
    BY DEF IInv
  <1>2. QED
    BY <1>1, Invariance, PTL

(* With no more job threads than the limit allows backups, the number of   *)
(* backups running at once keeps to the limit.                             *)
THEOREM LimitKeptByFewThreads ==
  Cardinality(Threads) <= MaxBackups => (Spec => []LimitKept)
  <1> SUFFICES ASSUME Cardinality(Threads) <= MaxBackups PROVE Spec => []LimitKept
    OBVIOUS
  <1>1. IInv => LimitKept
    BY LetThroughFacts, BackupsAssumption
       DEF IInv, TypeOK, OvershootBounded, LimitKept
  <1>2. QED
    BY <1>1, Invariance, PTL
=============================================================================
