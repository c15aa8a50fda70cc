--------------------------- MODULE PartOneProofs ---------------------------
(***************************************************************************)
(* Theorems about PartOne, for any number of threads, any directory, any   *)
(* jobs and any limit: every backup there is was counted, but for those    *)
(* that a wait() without children let through; the variables stay in their *)
(* types; a thread has no locks between two commands; nobody sees half of  *)
(* a batch; a job runs once; backups have files of their own.              *)
(***************************************************************************)
EXTENDS PartOne, FiniteSetTheorems, SequenceTheorems, TLAPS

(* Threads that are let through and about to fork. *)
Forking == {t \in Threads : pc[t] = "fork"}

(* Where a job thread can be. *)
Labels == {"dir", "entry", "command", "rdtable", "bracket", "lists", "pairs", "unlock",
           "show", "backup", "wait", "fork", "relock", "end"}

(* The part of the types that the account of the children rests on. *)
CountType ==
  /\ pc \in [Threads -> Labels]
  /\ active \in Nat /\ zombies \in Nat /\ overtaken \in Nat
  /\ IsFiniteSet(running)

(* main reaps only when no thread is left to fork. *)
JoinInv == main # "join" => \A t \in Threads : pc[t] = "end"

IInv == CountType /\ JoinInv /\ ChildrenAreCounted

(* What does not touch the account of the children. *)
SameCount ==
  /\ UNCHANGED <<main, active, running, zombies, overtaken>>
  /\ Forking' = Forking

(* Threads are finitely many, so those about to fork can be counted. *)
LEMMA ForkingFacts == IsFiniteSet(Forking) /\ Cardinality(Forking) \in Nat
  BY FS_Subset, FS_CardinalityType, PartOneAssumption DEF Forking

(* A thread is let through, forks, or does neither. *)
LEMMA ForkingStep ==
  ASSUME CountType, NEW t \in Threads, NEW label \in Labels, pc' = [pc EXCEPT ![t] = label]
  PROVE  /\ pc[t] # "fork" /\ label = "fork" =>
              Cardinality(Forking') = Cardinality(Forking) + 1
         /\ pc[t] = "fork" /\ label # "fork" =>
              Cardinality(Forking') = Cardinality(Forking) - 1
         /\ pc[t] # "fork" /\ label # "fork" => Forking' = Forking
  <1>1. CASE pc[t] # "fork" /\ label = "fork"
    <2>1. Forking' = Forking \cup {t} /\ t \notin Forking
      BY <1>1 DEF Forking, CountType
    <2>2. QED
      BY <1>1, <2>1, ForkingFacts, FS_AddElement
  <1>2. CASE pc[t] = "fork" /\ label # "fork"
    <2>1. Forking' = Forking \ {t} /\ t \in Forking
      BY <1>2 DEF Forking, CountType
    <2>2. QED
      BY <1>2, <2>1, ForkingFacts, FS_RemoveElement
  <1>3. CASE pc[t] # "fork" /\ label # "fork"
    <2>1. Forking' = Forking
      BY <1>3 DEF Forking, CountType
    <2>2. QED
      BY <1>3, <2>1
  <1>4. QED
    BY <1>1, <1>2, <1>3

(* No thread has run and there are no children. *)
LEMMA InitInv == Init => IInv
  <1> SUFFICES ASSUME Init PROVE IInv
    OBVIOUS
  <1> USE DEF Init
  <1>0. pc \in [Threads -> Labels] /\ IsFiniteSet({})
    <2>1. PICK created \in SUBSET Threads :
            pc = [t \in Threads |-> IF t \in created THEN "dir" ELSE "end"]
      OBVIOUS
    <2>2. QED
      BY <2>1, FS_EmptySet DEF Labels
  <1>1. CountType /\ JoinInv
    BY <1>0 DEF CountType, JoinInv
  <1>2. Forking = {}
    BY DEF Forking
  <1>3. Cardinality(Forking) = 0 /\ Cardinality(running) = 0
    BY <1>2, FS_EmptySet
  <1>4. ChildrenAreCounted
    BY <1>3 DEF ChildrenAreCounted, Forking
  <1>5. QED
    BY <1>1, <1>4 DEF IInv

(* A thread takes a step only before main has joined it. *)
LEMMA StepBeforeJoin ==
  ASSUME IInv, NEW t \in Threads, Step(t)
  PROVE  main = "join" /\ main' = main
  <1>1. pc[t] # "end"
    BY DEF Step, ReadDir, NoMoreEntries, NotAJob, OpenFiles, OpenFails, EndOfFile, Begin,
           RdLockTable, PrintBracket, BracketFails, LockList, Relock, ApplyPair, ReadFails,
           DeleteFails, Unlock, Show, CountBackup, StartWait, WaitForChild, Fork, Go
  <1>2. main' = main
    BY DEF Step, ReadDir, NoMoreEntries, NotAJob, OpenFiles, OpenFails, EndOfFile, Begin,
           RdLockTable, PrintBracket, BracketFails, LockList, Relock, ApplyPair, ReadFails,
           DeleteFails, Unlock, Show, CountBackup, StartWait, WaitForChild, Fork, NameRead,
           Return, elsewhere
  <1>3. QED
    BY <1>1, <1>2 DEF IInv, JoinInv

(* Everything outside of BACKUP. *)
OtherStep(t) ==
  \/ ReadDir(t) \/ NoMoreEntries(t) \/ NotAJob(t) \/ OpenFiles(t) \/ OpenFails(t)
  \/ EndOfFile(t) \/ Begin(t) \/ RdLockTable(t) \/ PrintBracket(t)
  \/ BracketFails(t) \/ LockList(t) \/ Relock(t) \/ ApplyPair(t) \/ ReadFails(t)
  \/ DeleteFails(t) \/ Unlock(t) \/ Show(t) \/ StartWait(t)

(* The other commands, and the directory, leave the account alone. *)
LEMMA OtherKeepsCount ==
  ASSUME IInv, NEW t \in Threads, OtherStep(t)
  PROVE  CountType' /\ SameCount
  <1>0. CountType
    BY DEF IInv
  <1>1. UNCHANGED <<main, active, running, zombies, overtaken>>
    BY DEF OtherStep, ReadDir, NoMoreEntries, NotAJob, OpenFiles, OpenFails, EndOfFile, Begin,
           RdLockTable, PrintBracket, BracketFails, LockList, Relock, ApplyPair, ReadFails,
           DeleteFails, Unlock, Show, StartWait, NameRead, Return, elsewhere, children
  <1>2. PICK label \in Labels : label # "fork" /\ pc' = [pc EXCEPT ![t] = label]
    <2>1. CASE Begin(t)
      <3>1. \/ pc' = [pc EXCEPT ![t] = "rdtable"]
            \/ pc' = [pc EXCEPT ![t] = "bracket"]
            \/ pc' = [pc EXCEPT ![t] = "show"]
            \/ pc' = [pc EXCEPT ![t] = "backup"]
        BY <2>1 DEF Begin
      <3>2. QED
        BY <3>1 DEF Labels
    <2>2. CASE OtherStep(t) /\ ~Begin(t)
      BY <2>2 DEF OtherStep, ReadDir, NoMoreEntries, NotAJob, OpenFiles, OpenFails, EndOfFile,
                  RdLockTable, PrintBracket, BracketFails, LockList, Relock, ApplyPair,
                  ReadFails, DeleteFails, Unlock, Show, StartWait, Return, Go, Labels
    <2>3. QED
      BY <2>1, <2>2
  <1>3. pc[t] # "fork"
    BY DEF OtherStep, ReadDir, NoMoreEntries, NotAJob, OpenFiles, OpenFails, EndOfFile, Begin,
           RdLockTable, PrintBracket, BracketFails, LockList, Relock, ApplyPair, ReadFails,
           DeleteFails, Unlock, Show, StartWait, Return, Go
  <1>4. QED
    BY <1>0, <1>1, <1>2, <1>3, ForkingStep DEF CountType, SameCount

(* The steps of a thread. *)
LEMMA ThreadStep ==
  ASSUME IInv, NEW t \in Threads, Step(t)
  PROVE  IInv'
  <1>0. /\ CountType /\ Cardinality(Forking) \in Nat /\ Cardinality(running) \in Nat
        /\ Cardinality(running) + zombies + Cardinality(Forking) <= active + overtaken
    BY ForkingFacts, FS_CardinalityType DEF IInv, CountType, ChildrenAreCounted, Forking
  <1>1. JoinInv'
    BY StepBeforeJoin DEF JoinInv
  <1>2. CountType' /\ Cardinality(running') + zombies' + Cardinality(Forking')
                        <= active' + overtaken'
    <2>1. CASE OtherStep(t)
      BY <1>0, <2>1, OtherKeepsCount DEF SameCount
    <2>2. CASE CountBackup(t)
      <3>1. Cardinality(Forking') = Cardinality(Forking) + 1
        BY <1>0, <2>2, ForkingStep DEF CountBackup, Go, Labels
      <3>2. QED
        BY <1>0, <2>2, <3>1 DEF CountBackup, Go, CountType, Labels
    <2>3. CASE WaitForChild(t)
      <3>1. Cardinality(Forking') = Cardinality(Forking) + 1
        BY <1>0, <2>3, ForkingStep DEF WaitForChild, Go, Labels
      <3>2. QED
        BY <1>0, <2>3, <3>1 DEF WaitForChild, Go, CountType, Labels
    <2>4. CASE Fork(t)
      <3>1. Cardinality(Forking') = Cardinality(Forking) - 1
        BY <1>0, <2>4, ForkingStep DEF Fork, Go, Labels
      <3>2. IsFiniteSet(running') /\ Cardinality(running') <= Cardinality(running) + 1
        <4>1. running' = running \/ running' = running \cup {Child(t)}
          BY <2>4 DEF Fork
        <4>2. IsFiniteSet(running)
          BY <1>0 DEF CountType
        <4>3. CASE running' = running \cup {Child(t)}
          <5> DEFINE child == Child(t)
          <5> HIDE DEF child
          <5>1. running' = running \cup {child}
            BY <4>3 DEF child
          <5>2. QED
            BY <1>0, <4>2, <5>1, FS_AddElement
        <4>4. QED
          BY <1>0, <4>1, <4>2, <4>3
      <3>3. Cardinality(running') \in Nat
        BY <3>2, FS_CardinalityType
      <3>4. QED
        BY <1>0, <2>4, <3>1, <3>2, <3>3 DEF Fork, Go, CountType, Labels
    <2>5. QED
      BY <2>1, <2>2, <2>3, <2>4 DEF Step, OtherStep
  <1>3. QED
    BY <1>1, <1>2 DEF IInv, ChildrenAreCounted, Forking

(* A child that exits becomes a zombie. *)
LEMMA ChildStep ==
  ASSUME IInv, ChildExits
  PROVE  IInv'
  <1>0. /\ CountType /\ JoinInv /\ Cardinality(Forking) \in Nat
        /\ Cardinality(running) \in Nat
        /\ Cardinality(running) + zombies + Cardinality(Forking) <= active + overtaken
    BY ForkingFacts, FS_CardinalityType
       DEF IInv, CountType, ChildrenAreCounted, Forking
  <1>1. IsFiniteSet(running') /\ Cardinality(running') = Cardinality(running) - 1
    BY <1>0, FS_RemoveElement DEF ChildExits, CountType
  <1>2. /\ zombies' = zombies + 1
        /\ UNCHANGED <<main, pc, active, overtaken>>
    BY DEF ChildExits
  <1>3. Forking' = Forking
    BY <1>2 DEF Forking
  <1>4. CountType' /\ JoinInv'
    BY <1>0, <1>1, <1>2 DEF CountType, JoinInv
  <1>5. Cardinality(running') + zombies' + Cardinality(Forking') <= active' + overtaken'
    BY <1>0, <1>1, <1>2, <1>3 DEF CountType
  <1>6. QED
    BY <1>4, <1>5 DEF IInv, ChildrenAreCounted, Forking

(* main: when wait() finds no child there is none left to account for. *)
LEMMA MainStep ==
  ASSUME IInv, JoinThreads \/ Reap \/ Exit
  PROVE  IInv'
  <1>0. /\ CountType /\ JoinInv /\ Cardinality(Forking) \in Nat
        /\ Cardinality(running) \in Nat
        /\ Cardinality(running) + zombies + Cardinality(Forking) <= active + overtaken
    BY ForkingFacts, FS_CardinalityType
       DEF IInv, CountType, ChildrenAreCounted, Forking
  <1>1. UNCHANGED <<pc, running, overtaken>> /\ Forking' = Forking
    BY DEF JoinThreads, Reap, Exit, children, Forking
  <1>2. JoinInv'
    BY <1>0, <1>1 DEF JoinThreads, Reap, Exit, JoinInv
  <1>3. CASE JoinThreads \/ Exit
    BY <1>0, <1>1, <1>2, <1>3
       DEF JoinThreads, Exit, children, IInv, CountType, ChildrenAreCounted, Forking
  <1>4. CASE Reap
    <2>1. Forking = {}
      BY <1>0, <1>4 DEF Reap, JoinInv, Forking
    <2>2. Cardinality(Forking) = 0 /\ (running = {} => Cardinality(running) = 0)
      BY <2>1, FS_EmptySet
    <2>3. CountType'
      BY <1>0, <1>1, <1>4 DEF Reap, CountType
    <2>4. Cardinality(running') + zombies' + Cardinality(Forking') <= active' + overtaken'
      BY <1>0, <1>1, <1>4, <2>2 DEF Reap, CountType
    <2>5. QED
      BY <1>2, <2>3, <2>4 DEF IInv, ChildrenAreCounted, Forking
  <1>5. QED
    BY <1>3, <1>4

(* The invariant is inductive. *)
LEMMA NextStep == IInv /\ [Next]_vars => IInv'
  <1> SUFFICES ASSUME IInv, [Next]_vars PROVE IInv'
    OBVIOUS
  <1>1. CASE \E t \in Threads : Step(t)
    BY <1>1, ThreadStep
  <1>2. CASE ChildExits
    BY <1>2, ChildStep
  <1>3. CASE JoinThreads \/ Reap \/ Exit
    BY <1>3, MainStep
  <1>4. CASE UNCHANGED vars
    BY <1>4 DEF vars, children, IInv, CountType, JoinInv, ChildrenAreCounted
  <1>5. QED
    BY <1>1, <1>2, <1>3, <1>4 DEF Next

(* Every child, running or not waited for, and every thread about to fork  *)
(* is counted in active_backups, or was let through by a wait() that found *)
(* no child: whatever the threads and the limit, only these exceed it, or  *)
(* outlive main.                                                           *)
THEOREM ChildrenCounted == Spec => []ChildrenAreCounted
  <1>1. IInv => ChildrenAreCounted
    BY DEF IInv
  <1>2. QED
    BY <1>1, InitInv, NextStep, PTL DEF Spec
-----------------------------------------------------------------------------
(* The commands and their batches. *)

(* The order of insertion_sort is total, so that exactly one pair has      *)
(* n - 1 before it: SortedIndexes lists the positions of a batch in order. *)
LEMMA SortedFacts ==
  ASSUME NEW c \in Commands
  PROVE  \A n \in DOMAIN c.pairs :
           /\ SortedIndexes(c.pairs)[n] \in DOMAIN c.pairs
           /\ \A m \in DOMAIN c.pairs : m < n =>
                Precedes(c.pairs, SortedIndexes(c.pairs)[m], SortedIndexes(c.pairs)[n])
  <1> DEFINE D == DOMAIN c.pairs
             N == Len(c.pairs)
             Before(i) == {j \in D : Precedes(c.pairs, j, i)}
             rank == [i \in D |-> Cardinality(Before(i))]
             S == SortedIndexes(c.pairs)
  <1>1. N \in Nat /\ D = 1..N /\ \A i \in D : Rank[c.pairs[i].key] \in Nat
    <2>1. c.pairs \in Seq([key : Keys, val : Values])
      BY DEF Commands
    <2>2. \A i \in D : c.pairs[i] \in [key : Keys, val : Values]
      <3> DEFINE Batch == [key : Keys, val : Values]
      <3>1. c.pairs \in Seq(Batch)
        BY <2>1
      <3> HIDE DEF Batch
      <3>2. \A i \in D : c.pairs[i] \in Batch
        BY <3>1
      <3>3. QED
        BY <3>2 DEF Batch
    <2>3. QED
      BY <2>1, <2>2, PartOneAssumption
  <1>2. \A i, j \in D : /\ i # j => Precedes(c.pairs, i, j) \/ Precedes(c.pairs, j, i)
                        /\ ~Precedes(c.pairs, i, i)
    BY <1>1 DEF Precedes
  <1>3. \A i, j, k \in D :
          Precedes(c.pairs, i, j) /\ Precedes(c.pairs, j, k) => Precedes(c.pairs, i, k)
    BY <1>1 DEF Precedes
  <1>4. IsFiniteSet(D) /\ Cardinality(D) = N
    BY <1>1, FS_Interval
  <1>5. ASSUME NEW i \in D
        PROVE  /\ IsFiniteSet(Before(i)) /\ Cardinality(Before(i)) \in Nat
               /\ Cardinality(Before(i)) <= N - 1
    <2>1. Before(i) \subseteq D \ {i}
      BY <1>2
    <2>2. IsFiniteSet(D \ {i}) /\ Cardinality(D \ {i}) = N - 1
      BY <1>4, FS_RemoveElement
    <2>3. QED
      BY <2>1, <2>2, FS_Subset, FS_CardinalityType
  <1>6. ASSUME NEW i \in D, NEW j \in D, Precedes(c.pairs, i, j)
        PROVE  Cardinality(Before(i)) < Cardinality(Before(j))
    <2>1. Before(i) \subseteq Before(j) \ {i} /\ i \in Before(j)
      BY <1>2, <1>3, <1>6
    <2>2. /\ IsFiniteSet(Before(j) \ {i})
          /\ Cardinality(Before(j) \ {i}) = Cardinality(Before(j)) - 1
      BY <1>5, <2>1, FS_RemoveElement
    <2>3. Cardinality(Before(i)) <= Cardinality(Before(j)) - 1
      BY <2>1, <2>2, FS_Subset
    <2>4. \A a, b \in Nat : a <= b - 1 => a < b
      OBVIOUS
    <2>5. Cardinality(Before(i)) \in Nat /\ Cardinality(Before(j)) \in Nat
      BY <1>5
    <2> HIDE DEF Before
    <2>6. QED
      BY <2>3, <2>4, <2>5
  <1> HIDE DEF Before
  <1>7. rank \in Injection(D, 0..(N - 1))
    <2>1. rank \in [D -> 0..(N - 1)]
      BY <1>1, <1>5
    <2>2. ASSUME NEW i \in D, NEW j \in D, i # j
          PROVE  rank[i] # rank[j]
      BY <1>2, <1>5, <1>6, <2>2
    <2>3. QED
      BY <2>1, <2>2 DEF Injection, IsInjective
  <1>8. rank \in Surjection(D, 0..(N - 1))
    <2>1. IsFiniteSet(0..(N - 1)) /\ Cardinality(0..(N - 1)) = N
      <3>1. N - 1 \in Int /\ (IF 0 > N - 1 THEN 0 ELSE (N - 1) - 0 + 1) = N
        BY <1>1
      <3> HIDE DEF N
      <3>2. QED
        BY <3>1, FS_Interval
    <2>2. QED
      BY <1>4, <1>7, <2>1, FS_Injection
  <1>9. ASSUME NEW n \in D
        PROVE  S[n] \in D /\ Cardinality(Before(S[n])) = n - 1
    <2>1. n - 1 \in 0..(N - 1)
      BY <1>1
    <2>2. PICK i \in D : Cardinality(Before(i)) = n - 1
      BY <1>8, <2>1 DEF Surjection
    <2>3. S[n] = CHOOSE k \in D : Cardinality(Before(k)) = n - 1
      BY DEF SortedIndexes, Before
    <2>4. QED
      BY <2>2, <2>3
  <1>10. ASSUME NEW m \in D, NEW n \in D, m < n
         PROVE  Precedes(c.pairs, S[m], S[n])
    <2>1. S[m] # S[n]
      BY <1>1, <1>9, <1>10
    <2>2. ~Precedes(c.pairs, S[n], S[m])
      BY <1>1, <1>6, <1>9, <1>10
    <2>3. QED
      BY <1>2, <1>9, <2>1, <2>2
  <1>11. QED
    BY <1>9, <1>10

(* What PartOneAssumption says of a command of a job. *)
LEMMA CommandFacts ==
  ASSUME NEW f \in JobFiles, NEW i \in DOMAIN Job[f]
  PROVE  /\ Job[f][i] \in Commands
         /\ DOMAIN Job[f][i].pairs = 1..Len(Job[f][i].pairs)
         /\ Len(Job[f][i].pairs) \in Nat
         /\ Job[f][i].op \in {"WRITE", "READ", "DELETE"} => Len(Job[f][i].pairs) > 0
         /\ \A k \in DOMAIN Job[f][i].pairs :
              Job[f][i].pairs[k].key \in Keys /\ Job[f][i].pairs[k].val \in Values
  <1>1. Job[f] \in Seq(Commands)
    BY PartOneAssumption
  <1>2. Job[f][i] \in Commands
    <2> HIDE DEF Commands
    <2>1. QED
      BY <1>1
  <1> DEFINE P == Job[f][i].pairs
             Batch == [key : Keys, val : Values]
  <1>3. P \in Seq(Batch)
    BY <1>2 DEF Commands
  <1>4. DOMAIN P = 1..Len(P) /\ Len(P) \in Nat /\ \A k \in DOMAIN P : P[k] \in Batch
    <2> HIDE DEF Batch, P
    <2>1. QED
      BY <1>3
  <1>5. Job[f][i].op \in {"WRITE", "READ", "DELETE"} => Len(P) > 0
    <2>1. Job[f][i].op \in {"WRITE", "READ", "DELETE"} => P # <<>>
      BY PartOneAssumption
    <2>2. P # <<>> => Len(P) > 0
      <3> HIDE DEF Batch, P
      <3>1. QED
        BY <1>3, <1>4, EmptySeq
    <2>3. QED
      BY <2>1, <2>2
  <1>6. QED
    BY <1>2, <1>4, <1>5
-----------------------------------------------------------------------------
(* The directory and the types. *)

(* From readdir() to the end of the file a thread has an entry. *)
HasEntry(t) == pc[t] \notin {"dir", "end"}
InJob(t) == pc[t] \notin {"dir", "entry", "end"}

(* Threads have different entries, of those that were returned. *)
EntryInv ==
  /\ \A t \in Threads : HasEntry(t) => entry[t] \in 1..read
  /\ \A t, u \in Threads : t # u /\ HasEntry(t) /\ HasEntry(u) => entry[t] # entry[u]
  /\ misread => read > BufferSize

(* A thread in a job has its file, and the place of its command in it. *)
CommandInv(t) ==
  /\ InJob(t) => file[t] \in JobFiles /\ at[t] > 0
  /\ InJob(t) /\ pc[t] # "command" => at[t] \in DOMAIN Job[file[t]]
  /\ pc[t] = "rdtable" => Cmd(t).op \in {"WRITE", "DELETE"} /\ ind[t] = 1
  /\ pc[t] = "bracket" => Cmd(t).op = "READ" /\ ind[t] = 1
  /\ pc[t] \in {"lists", "pairs", "unlock"} => Cmd(t).op \in {"WRITE", "DELETE", "READ"}
  /\ pc[t] \in {"lists", "pairs"} => ind[t] \in 1..Count(t)

DirInv == TypeOK /\ EntryInv /\ \A t \in Threads : CommandInv(t)

(* The labels from which a thread goes through the pairs of a command. *)
Batching == {"rdtable", "bracket", "lists", "pairs", "unlock"}

(* The pairs of the command a thread is at. *)
LEMMA CurrentFacts ==
  ASSUME NEW t \in Threads, CommandInv(t), pc[t] \in Batching
  PROVE  /\ Count(t) \in Nat \ {0}
         /\ \A i \in 1..Count(t) :
              /\ Pair(t, i).key \in Keys /\ Pair(t, i).val \in Values
              /\ ListOf[Pair(t, i).key] \in Lists
  <1>1. /\ file[t] \in JobFiles /\ at[t] \in DOMAIN Job[file[t]]
        /\ Cmd(t).op \in {"WRITE", "READ", "DELETE"}
    BY DEF CommandInv, Batching, InJob
  <1> DEFINE c == Cmd(t)
  <1>2. /\ c \in Commands /\ DOMAIN c.pairs = 1..Len(c.pairs) /\ Len(c.pairs) \in Nat
        /\ Len(c.pairs) > 0
        /\ \A k \in DOMAIN c.pairs : c.pairs[k].key \in Keys /\ c.pairs[k].val \in Values
    BY <1>1, CommandFacts DEF Cmd
  <1>3. \A i \in DOMAIN c.pairs : SortedIndexes(c.pairs)[i] \in DOMAIN c.pairs
    BY <1>2, SortedFacts
  <1>4. QED
    <2>1. Count(t) \in Nat \ {0}
      BY <1>2 DEF Count
    <2>2. ASSUME NEW i \in 1..Count(t)
          PROVE  Pair(t, i).key \in Keys /\ Pair(t, i).val \in Values
      <3>1. SortedIndexes(c.pairs)[i] \in DOMAIN c.pairs
        BY <1>2, <1>3, <2>2 DEF Count
      <3>2. QED
        BY <1>2, <3>1 DEF Pair
    <2>3. \A k \in Keys : ListOf[k] \in Lists
      BY PartOneAssumption
    <2>4. QED
      BY <2>1, <2>2, <2>3

(* The name a thread reads is of the directory; and its own, as long as    *)
(* the buffer was not refilled.                                            *)
LEMMA NameFacts ==
  ASSUME read \in 0..Len(Entries), NEW n \in 1..read
  PROVE  /\ BufferedName(n) \in Names
         /\ read <= BufferSize => BufferedName(n) = Entries[n]
  <1> DEFINE B == BufferSize
             L == Len(Entries)
             r == read
  <1>1. B \in Nat \ {0} /\ L \in Nat /\ DOMAIN Entries = 1..L /\ r \in Nat /\ r <= L
        /\ n \in 1..r
    BY PartOneAssumption, LenProperties
  <1>2. \A i \in 1..L : Entries[i] \in Names
    BY <1>1 DEF Names, ToSet
  <1> HIDE DEF B, L, r
  <1>4. \A x \in Nat : /\ (x \div B) \in Nat /\ (x \div B) * B <= x
                       /\ (x % B) \in Nat /\ x % B <= x /\ x % B < B
                       /\ (x < B => x \div B = 0 /\ x % B = x)
    BY <1>1
  <1>5. \A q \in Nat : q * B \in Nat /\ (q * B = 0 \/ q * B >= B) /\ (q = 0 => q * B = 0)
    BY <1>1
  <1>6. r - 1 \in Nat /\ n - 1 \in Nat
    BY <1>1
  <1> DEFINE filled == ((r - 1) \div B) * B
             rest == (n - 1) % B
  <1>7. /\ filled \in Nat /\ filled <= r - 1 /\ (filled = 0 \/ filled >= B)
        /\ rest \in Nat /\ rest <= n - 1 /\ rest < B
        /\ (r <= B => filled = 0 /\ rest = n - 1)
    <2>1. (r - 1) \div B \in Nat
      BY <1>4, <1>6
    <2>2. filled \in Nat /\ (filled = 0 \/ filled >= B) /\ filled <= r - 1
      BY <1>4, <1>5, <1>6, <2>1
    <2>3. rest \in Nat /\ rest <= n - 1 /\ rest < B
      BY <1>4, <1>6
    <2>4. ASSUME r <= B
          PROVE  filled = 0 /\ rest = n - 1
      <3>1. r - 1 < B /\ n - 1 < B
        BY <1>1, <2>4
      <3>2. (r - 1) \div B = 0 /\ (n - 1) % B = n - 1
        BY <1>4, <1>6, <3>1
      <3>3. QED
        BY <1>5, <2>1, <3>2
    <2>5. QED
      BY <2>2, <2>3, <2>4
  <1>8. Slot(n) = IF filled + rest + 1 <= L THEN filled + rest + 1
                  ELSE filled + rest + 1 - B
    BY <1>1, PartOneAssumption DEF Slot, B, L, r, filled, rest
  <1> HIDE DEF filled, rest
  <1>9. Slot(n) \in 1..L
    BY <1>1, <1>7, <1>8
  <1>10. r <= B => Slot(n) = n
    BY <1>1, <1>7, <1>8
  <1>11. BufferedName(n) \in Names
    BY <1>2, <1>9 DEF BufferedName
  <1>12. r <= B => BufferedName(n) = Entries[n]
    BY <1>10 DEF BufferedName
  <1>13. QED
    BY <1>11, <1>12 DEF r, B

(* A step of one thread leaves what the others have alone. *)
LEMMA OthersStay ==
  ASSUME TypeOK, NEW t \in Threads, Step(t), NEW u \in Threads, u # t
  PROVE  /\ pc'[u] = pc[u] /\ entry'[u] = entry[u] /\ file'[u] = file[u] /\ at'[u] = at[u]
         /\ ind'[u] = ind[u] /\ backups'[u] = backups[u] /\ leak'[u] = leak[u]
  <1> USE DEF TypeOK, Go, dir, job, table, elsewhere
  <1>1. CASE ReadDir(t) \/ NoMoreEntries(t) \/ NotAJob(t) \/ OpenFiles(t) \/ OpenFails(t)
             \/ EndOfFile(t)
    BY <1>1 DEF ReadDir, NoMoreEntries, NotAJob, OpenFiles, OpenFails, EndOfFile, NameRead
  <1>2. CASE Begin(t) \/ RdLockTable(t) \/ PrintBracket(t) \/ BracketFails(t) \/ Relock(t)
    BY <1>2 DEF Begin, RdLockTable, PrintBracket, BracketFails, Relock, Return
  <1>3. CASE LockList(t)
    BY <1>3 DEF LockList
  <1>4. CASE ApplyPair(t)
    BY <1>4 DEF ApplyPair
  <1>5. CASE ReadFails(t) \/ DeleteFails(t) \/ Unlock(t) \/ Show(t)
    BY <1>5 DEF ReadFails, DeleteFails, Unlock, Show, Return
  <1>6. CASE CountBackup(t) \/ StartWait(t) \/ WaitForChild(t) \/ Fork(t)
    BY <1>6 DEF CountBackup, StartWait, WaitForChild, Fork
  <1>7. QED
    BY <1>1, <1>2, <1>3, <1>4, <1>5, <1>6 DEF Step

(* Nobody has an entry, and nothing is stored. *)
LEMMA DirInit == Init => DirInv
  <1> SUFFICES ASSUME Init PROVE DirInv
    OBVIOUS
  <1> USE DEF Init
  <1>0. PICK created \in SUBSET Threads :
          pc = [t \in Threads |-> IF t \in created THEN "dir" ELSE "end"]
    OBVIOUS
  <1>1. Len(Entries) \in Nat \ {0} /\ Entries[1] \in Names
    BY PartOneAssumption, EmptySeq, LenProperties DEF Names, ToSet
  <1>2. TypeOK
    <2>1. /\ pc \in [Threads -> {"dir", "end"}]
          /\ entry \in [Threads -> 1..Len(Entries)] /\ file \in [Threads -> Names]
          /\ aux \in [Threads -> BOOLEAN]
      BY <1>0, <1>1
    <2>2. FreeLock \in RwLocks(Threads)
      BY DEF FreeLock, RwLocks
    <2>3. /\ store \in [Keys -> Values \cup {Absent}] /\ committed = store
          /\ tableLock \in RwLocks(Threads) /\ listLock \in [Lists -> RwLocks(Threads)]
          /\ leak \in [Threads -> SUBSET Lists]
      BY <2>2
    <2>4. 0 \in 0..Len(Entries) /\ 0 \in 0..MaxBackups
      BY <1>1, PartOneAssumption
    <2>5. QED
      BY <2>1, <2>3, <2>4 DEF TypeOK
  <1>3. EntryInv /\ \A t \in Threads : CommandInv(t)
    BY <1>0 DEF EntryInv, HasEntry, CommandInv, InJob
  <1>4. QED
    BY <1>2, <1>3 DEF DirInv

(* What the operations do to a lock. *)
LEMMA LockFacts ==
  ASSUME NEW lock \in RwLocks(Threads), NEW t \in Threads
  PROVE  /\ RdLocked(lock, t) \in RwLocks(Threads)
         /\ RdLocked(lock, t).writer = lock.writer
         /\ RdLocked(lock, t).readers = lock.readers \cup {t}
         /\ WrLocked(lock, t) \in RwLocks(Threads)
         /\ WrLocked(lock, t).writer = lock.writer \cup {t}
         /\ WrLocked(lock, t).readers = lock.readers
         /\ Unlocked(lock, t) \in RwLocks(Threads)
         /\ Unlocked(lock, t).writer = lock.writer \ {t}
         /\ Unlocked(lock, t).readers = lock.readers \ {t}
  BY DEF RwLocks, RdLocked, WrLocked, Unlocked

(* Each step of a thread keeps the types. *)
LEMMA TypeStep ==
  ASSUME DirInv, NEW t \in Threads, Step(t)
  PROVE  TypeOK'
  <1>0. TypeOK /\ EntryInv /\ CommandInv(t)
    BY DEF DirInv
  <1>1. CASE ReadDir(t) \/ NoMoreEntries(t) \/ EndOfFile(t)
    <2>1. /\ pc' \in [Threads -> Labels]
          /\ UNCHANGED <<main, mutex, job, table, children, opened>>
      BY <1>0, <1>1 DEF TypeOK, ReadDir, NoMoreEntries, EndOfFile, Go, dir, Labels
    <2>2. Len(Entries) \in Nat
      BY PartOneAssumption, LenProperties
    <2>3. read' \in 0..Len(Entries) /\ entry' \in [Threads -> 1..Len(Entries)]
      <3>1. CASE ReadDir(t)
        <4>1. read \in 0..Len(Entries) /\ entry \in [Threads -> 1..Len(Entries)]
          BY <1>0 DEF TypeOK
        <4>2. /\ read < Len(Entries) /\ read' = read + 1
              /\ entry' = [entry EXCEPT ![t] = read + 1]
          BY <3>1 DEF ReadDir
        <4>3. read + 1 \in 1..Len(Entries)
          BY <2>2, <4>1, <4>2
        <4>4. QED
          BY <2>2, <4>1, <4>2, <4>3
      <3>2. CASE NoMoreEntries(t) \/ EndOfFile(t)
        BY <1>0, <3>2 DEF TypeOK, NoMoreEntries, EndOfFile, dir
      <3>3. QED
        BY <1>1, <3>1, <3>2
    <2>4. QED
      BY <1>0, <2>1, <2>3 DEF TypeOK, Labels, job, table, children, opened
  <1>2. CASE NotAJob(t) \/ OpenFails(t)
    <2>1. pc' \in [Threads -> Labels] /\ unopened' \in Nat
      <3>1. pc \in [Threads -> Labels] /\ unopened \in Nat
        BY <1>0 DEF TypeOK, Labels
      <3>2. \E label \in {"dir", "end"} : pc' = [pc EXCEPT ![t] = label]
        BY <1>2 DEF NotAJob, OpenFails, Go
      <3>3. unopened' = unopened \/ unopened' = unopened + 1
        BY <1>2 DEF NotAJob, OpenFails
      <3>4. QED
        BY <3>1, <3>2, <3>3 DEF Labels
    <2>2. misread' \in BOOLEAN /\ UNCHANGED <<main, mutex, dir, job, table, children, runs>>
      BY <1>2 DEF NotAJob, OpenFails, NameRead
    <2>3. QED
      BY <1>0, <2>1, <2>2 DEF TypeOK, Labels, dir, job, table, children
  <1>3. CASE OpenFiles(t)
    <2>1. PICK name \in JobFiles :
            /\ file' = [file EXCEPT ![t] = name]
            /\ runs' = [runs EXCEPT ![name] = @ + 1]
      BY <1>3 DEF OpenFiles
    <2>2. name \in Names
      BY PartOneAssumption
    <2>3. /\ pc' \in [Threads -> Labels] /\ misread' \in BOOLEAN
          /\ at' \in [Threads -> Nat] /\ backups' \in [Threads -> Nat]
          /\ UNCHANGED <<main, mutex, dir, ind, aux, table, children, unopened>>
      BY <1>0, <1>3 DEF TypeOK, OpenFiles, NameRead, Go, Labels
    <2>4. file' \in [Threads -> Names] /\ runs' \in [JobFiles -> Nat]
      BY <1>0, <2>1, <2>2 DEF TypeOK
    <2>5. QED
      BY <1>0, <2>3, <2>4 DEF TypeOK, Labels, dir, table, children
  <1>4. CASE Begin(t)
    <2>1. pc' \in [Threads -> Labels]
      BY <1>0, <1>4 DEF TypeOK, Begin, Labels
    <2>2. QED
      BY <1>0, <1>4, <2>1 DEF TypeOK, Begin, Labels, elsewhere, dir, table, children, opened
  <1>5. CASE RdLockTable(t)
    BY <1>0, <1>5, LockFacts DEF TypeOK, RdLockTable, Go, elsewhere, dir, children, opened
  <1>6. CASE PrintBracket(t) \/ Relock(t)
    BY <1>0, <1>6 DEF TypeOK, PrintBracket, Relock, Go, elsewhere, dir, table, children, opened
  <1>7. CASE LockList(t)
    <2>1. /\ pc' \in [Threads -> Labels] /\ ind' \in [Threads -> Nat]
          /\ UNCHANGED <<elsewhere, at, aux, store, tableLock, committed, leak>>
      BY <1>0, <1>7 DEF TypeOK, LockList, Go, Labels
    <2>2. listLock' \in [Lists -> RwLocks(Threads)]
      <3>1. PICK l, new : /\ listLock' = [listLock EXCEPT ![l] = new]
                          /\ new \in {listLock[l], RdLocked(listLock[l], t),
                                      WrLocked(listLock[l], t)}
        BY <1>7 DEF LockList
      <3>2. CASE l \in Lists
        <4>1. new \in RwLocks(Threads)
          BY <1>0, <3>1, <3>2, LockFacts DEF TypeOK
        <4>2. QED
          BY <1>0, <3>1, <4>1 DEF TypeOK
      <3>3. CASE l \notin Lists
        BY <1>0, <3>1, <3>3 DEF TypeOK
      <3>4. QED
        BY <3>2, <3>3
    <2>3. QED
      BY <1>0, <2>1, <2>2 DEF TypeOK, Labels, elsewhere, dir, children, opened
  <1>8. CASE ApplyPair(t)
    <2>1. /\ pc' \in [Threads -> Labels] /\ ind' \in [Threads -> Nat]
          /\ aux' \in [Threads -> BOOLEAN]
          /\ UNCHANGED <<elsewhere, at, tableLock, listLock, leak>>
      BY <1>0, <1>8, SMTT(30) DEF TypeOK, ApplyPair, Go, Labels, Missing
    <2>2. Pair(t, ind[t]).val \in Values
      BY <1>0, <1>8, CurrentFacts DEF ApplyPair, Go, CommandInv, Batching
    <2>3. store' \in [Keys -> Values \cup {Absent}]
      BY <1>0, <1>8, <2>2 DEF TypeOK, ApplyPair
    <2>4. committed' \in [Keys -> Values \cup {Absent}]
      BY <1>0, <1>8, <2>3 DEF TypeOK, ApplyPair, Commits
    <2>5. QED
      BY <1>0, <2>1, <2>3, <2>4 DEF TypeOK, Labels, elsewhere, dir, children, opened
  <1>9. CASE BracketFails(t) \/ ReadFails(t) \/ DeleteFails(t) \/ Unlock(t) \/ Show(t)
    <2>1. PICK lists, locks : Return(t, lists, locks)
      BY <1>9 DEF BracketFails, ReadFails, DeleteFails, Unlock, Show
    <2>2. /\ pc' \in [Threads -> Labels] /\ at' \in [Threads -> Nat]
          /\ UNCHANGED <<elsewhere, ind, aux, store>>
      BY <1>0, <2>1, SMTT(30) DEF TypeOK, Return, Labels
    <2>3. /\ listLock' \in [Lists -> RwLocks(Threads)] /\ tableLock' \in RwLocks(Threads)
      BY <1>0, <2>1, LockFacts DEF TypeOK, Return
    <2>4. /\ committed' \in [Keys -> Values \cup {Absent}]
          /\ leak' \in [Threads -> SUBSET Lists]
      <3>1. /\ committed' = committed \/ Commits(t, store)
            /\ leak' = leak \/ leak' = [leak EXCEPT ![t] = HeldLists(t)]
        BY <1>9 DEF BracketFails, ReadFails, DeleteFails, Unlock, Show
      <3>2. HeldLists(t) \in SUBSET Lists
        BY DEF HeldLists
      <3>3. QED
        BY <1>0, <3>1, <3>2 DEF TypeOK, Commits
    <2>5. QED
      BY <1>0, <2>2, <2>3, <2>4 DEF TypeOK, Labels, elsewhere, dir, children, opened
  <1>10. CASE CountBackup(t) \/ StartWait(t) \/ WaitForChild(t)
    <2>0. pc' \in [Threads -> Labels] /\ backups' \in [Threads -> Nat]
      <3>1. pc \in [Threads -> Labels] /\ backups \in [Threads -> Nat]
        BY <1>0 DEF TypeOK, Labels
      <3>2. \E label \in {"fork", "wait"} : pc' = [pc EXCEPT ![t] = label]
        BY <1>10 DEF CountBackup, StartWait, WaitForChild, Go
      <3>3. backups' = backups \/ backups' = [backups EXCEPT ![t] = @ + 1]
        BY <1>10 DEF CountBackup, StartWait, WaitForChild, job
      <3>4. QED
        BY <3>1, <3>2, <3>3 DEF Labels
    <2>1. /\ mutex' \in Threads \cup {NoThread}
          /\ UNCHANGED <<main, dir, file, at, ind, aux, table, running, opened>>
      BY <1>0, <1>10 DEF TypeOK, CountBackup, StartWait, WaitForChild, job, children
    <2>2. active' \in 0..MaxBackups /\ zombies' \in Nat /\ overtaken' \in Nat
      BY <1>0, <1>10, PartOneAssumption, SMTT(30)
         DEF TypeOK, CountBackup, StartWait, WaitForChild, children
    <2>3. QED
      BY <1>0, <2>0, <2>1, <2>2 DEF TypeOK, Labels, dir, table, opened
  <1>11. CASE Fork(t)
    <2>1. Child(t).by \in Threads /\ Child(t).named \in Names
      <3>1. entry[t] \in 1..read
        BY <1>0, <1>11 DEF Fork, Go, EntryInv, HasEntry
      <3>2. BufferedName(entry[t]) \in Names
        BY <1>0, <3>1, NameFacts DEF TypeOK
      <3>3. QED
        BY <3>2 DEF Child
    <2>2. \A child \in running' : child.by \in Threads /\ child.named \in Names
      BY <1>0, <1>11, <2>1 DEF Fork, TypeOK
    <2>3. /\ pc' \in [Threads -> Labels] /\ at' \in [Threads -> Nat]
          /\ UNCHANGED <<main, mutex, dir, file, ind, aux, backups, table, active, zombies,
                         overtaken, opened>>
      BY <1>0, <1>11, SMTT(30) DEF TypeOK, Fork, Go, Labels
    <2>4. QED
      BY <1>0, <2>2, <2>3 DEF TypeOK, Labels, dir, table, opened
  <1>12. QED
    BY <1>1, <1>2, <1>3, <1>4, <1>5, <1>6, <1>7, <1>8, <1>9, <1>10, <1>11 DEF Step

(* A thread that goes on has the entry it was given, which no other has,   *)
(* and the name it reads is its own until the buffer is refilled.          *)
LEMMA EntryStep ==
  ASSUME DirInv, NEW t \in Threads, Step(t)
  PROVE  EntryInv'
  <1>0. TypeOK /\ EntryInv /\ CommandInv(t)
    BY DEF DirInv
  <1>1. read \in Nat /\ Len(Entries) \in Nat /\ BufferSize \in Nat
        /\ entry \in [Threads -> 1..Len(Entries)]
    BY <1>0, PartOneAssumption, LenProperties DEF TypeOK
  <1>2. pc \in [Threads -> Labels]
    BY <1>0 DEF TypeOK, Labels
  <1>3. CASE ReadDir(t)
    <2>1. /\ read' = read + 1 /\ entry' = [entry EXCEPT ![t] = read + 1]
          /\ pc[t] = "dir" /\ pc' = [pc EXCEPT ![t] = "entry"] /\ misread' = misread
      BY <1>3 DEF ReadDir, Go, opened
    <2>2. \A u \in Threads : u # t => pc'[u] = pc[u] /\ entry'[u] = entry[u]
      BY <1>1, <1>2, <2>1
    <2>3. entry'[t] = read + 1
      BY <1>1, <2>1
    <2>4. \A u \in Threads : u # t /\ HasEntry(u)' => entry'[u] \in 1..read
      BY <1>0, <2>2 DEF EntryInv, HasEntry
    <2>5. misread' => read' > BufferSize
      BY <1>0, <1>1, <2>1 DEF EntryInv
    <2>6. \A u \in Threads : HasEntry(u)' => entry'[u] \in 1..read'
      BY <1>1, <2>1, <2>3, <2>4
    <2>7. \A u, v \in Threads : u # v /\ HasEntry(u)' /\ HasEntry(v)' => entry'[u] # entry'[v]
      <3>1. ASSUME NEW u \in Threads, NEW v \in Threads, u # v, u # t, v # t,
                   HasEntry(u)', HasEntry(v)'
            PROVE  entry'[u] # entry'[v]
        BY <1>0, <2>2, <3>1 DEF EntryInv, HasEntry
      <3>2. ASSUME NEW u \in Threads, u # t, HasEntry(u)'
            PROVE  entry'[u] # entry'[t]
        BY <1>1, <2>3, <2>4, <3>2
      <3>3. QED
        BY <3>1, <3>2
    <2>8. QED
      BY <2>5, <2>6, <2>7 DEF EntryInv
  <1>4. CASE NotAJob(t) \/ OpenFiles(t) \/ OpenFails(t)
    <2>1. /\ UNCHANGED <<read, entry>> /\ pc[t] = "entry"
          /\ \E label : pc' = [pc EXCEPT ![t] = label]
          /\ misread' = (misread \/ BufferedName(entry[t]) # Entries[entry[t]])
      BY <1>4 DEF NotAJob, OpenFiles, OpenFails, NameRead, Go, dir
    <2>2. entry[t] \in 1..read
      BY <1>0, <2>1 DEF EntryInv, HasEntry
    <2>3. misread' => read > BufferSize
      <3>1. read <= BufferSize => BufferedName(entry[t]) = Entries[entry[t]]
        BY <1>0, <2>2, NameFacts DEF TypeOK
      <3>2. misread => read > BufferSize
        BY <1>0 DEF EntryInv
      <3>3. read <= BufferSize \/ read > BufferSize
        BY <1>1
      <3>4. QED
        BY <2>1, <3>1, <3>2, <3>3
    <2>4. \A u \in Threads : HasEntry(u)' => HasEntry(u)
      BY <1>2, <2>1 DEF HasEntry
    <2>5. QED
      BY <1>0, <2>1, <2>3, <2>4 DEF EntryInv
  <1>5. CASE ~ReadDir(t) /\ ~NotAJob(t) /\ ~OpenFiles(t) /\ ~OpenFails(t)
    <2>1. UNCHANGED <<read, entry, misread>> /\ (HasEntry(t)' => HasEntry(t))
      BY <1>2, <1>5 DEF Step, NoMoreEntries, EndOfFile, Begin, RdLockTable, PrintBracket,
         BracketFails, LockList, Relock, ApplyPair, ReadFails, DeleteFails, Unlock, Show,
         CountBackup, StartWait, WaitForChild, Fork, Return, Go, HasEntry, elsewhere, dir, opened
    <2>2. \A u \in Threads : HasEntry(u)' => HasEntry(u)
      BY <1>0, <2>1, OthersStay DEF HasEntry
    <2>3. QED
      BY <1>0, <2>1, <2>2 DEF EntryInv
  <1>6. QED
    BY <1>3, <1>4, <1>5

(* A thread stays within its job and within the pairs of its command.      *)
LEMMA CommandStep ==
  ASSUME DirInv, NEW t \in Threads, Step(t), NEW u \in Threads
  PROVE  CommandInv(u)'
  <1>0. TypeOK /\ CommandInv(t) /\ CommandInv(u)
    BY DEF DirInv
  <1>1. CASE u # t
    <2>1. pc'[u] = pc[u] /\ file'[u] = file[u] /\ at'[u] = at[u] /\ ind'[u] = ind[u]
      BY <1>0, <1>1, OthersStay
    <2>2. Cmd(u)' = Cmd(u) /\ Count(u)' = Count(u)
      BY <2>1 DEF Cmd, Count
    <2>3. QED
      BY <1>0, <2>1, <2>2 DEF CommandInv, InJob
  <1>2. CASE u = t
    <2>0. /\ pc \in [Threads -> Labels] /\ file \in [Threads -> Names]
          /\ at \in [Threads -> Nat] /\ ind \in [Threads -> Nat]
      BY <1>0 DEF TypeOK, Labels
    <2>1. SUFFICES CommandInv(t)'
      BY <1>2
    <2>2. CASE ReadDir(t) \/ NoMoreEntries(t) \/ NotAJob(t) \/ OpenFails(t) \/ EndOfFile(t)
      <3>1. pc'[t] \in {"dir", "entry", "end"}
        BY <2>0, <2>2 DEF ReadDir, NoMoreEntries, NotAJob, OpenFails, EndOfFile, Go
      <3>2. QED
        BY <3>1 DEF CommandInv, InJob
    <2>3. CASE OpenFiles(t)
      <3>1. pc'[t] = "command" /\ file'[t] \in JobFiles /\ at'[t] = 1
        BY <2>0, <2>3 DEF OpenFiles, Go
      <3>2. QED
        BY <3>1 DEF CommandInv, InJob
    <2>4. CASE Begin(t)
      <3>1. /\ pc[t] = "command" /\ at[t] <= Len(Job[file[t]])
            /\ file' = file /\ at' = at /\ ind'[t] = 1
        BY <2>0, <2>4 DEF Begin, elsewhere
      <3>2. /\ file[t] \in JobFiles /\ at[t] \in DOMAIN Job[file[t]]
        <4>1. file[t] \in JobFiles /\ at[t] > 0
          BY <1>0, <3>1 DEF CommandInv, InJob
        <4>2. Job[file[t]] \in Seq(Commands)
          BY <4>1, PartOneAssumption
        <4>3. DOMAIN Job[file[t]] = 1..Len(Job[file[t]]) /\ Len(Job[file[t]]) \in Nat
          <5> HIDE DEF Commands
          <5>1. QED
            BY <4>2, LenProperties
        <4>4. QED
          BY <2>0, <3>1, <4>1, <4>3
      <3>3. /\ pc'[t] \in {"rdtable", "bracket", "show", "backup"}
            /\ pc'[t] = "rdtable" => Cmd(t).op \in {"WRITE", "DELETE"}
            /\ pc'[t] = "bracket" => Cmd(t).op = "READ"
        BY <2>0, <2>4 DEF Begin
      <3>4. Cmd(t)' = Cmd(t)
        BY <3>1 DEF Cmd
      <3>5. QED
        BY <1>0, <2>0, <3>1, <3>2, <3>3, <3>4 DEF CommandInv, InJob
    <2>5. CASE RdLockTable(t) \/ PrintBracket(t)
      <3>1. /\ UNCHANGED <<file, at, ind>> /\ pc[t] \in {"rdtable", "bracket"}
            /\ pc'[t] = "lists"
        BY <2>0, <2>5 DEF RdLockTable, PrintBracket, Go, elsewhere
      <3>2. Cmd(t)' = Cmd(t) /\ Count(t)' = Count(t)
        BY <3>1 DEF Cmd, Count
      <3>3. 1 \in 1..Count(t)
        BY <1>0, <3>1, CurrentFacts DEF Batching
      <3>4. QED
        BY <1>0, <3>1, <3>2, <3>3 DEF CommandInv, InJob
    <2>6. CASE LockList(t) \/ ApplyPair(t)
      <3>1. /\ UNCHANGED <<file, at>> /\ pc[t] \in {"lists", "pairs"}
            /\ pc'[t] \in {"lists", "pairs", "unlock"}
            /\ pc'[t] \in {"lists", "pairs"} => ind'[t] = 1 \/ (ind[t] < Count(t) /\ ind'[t] = ind[t] + 1)
        BY <2>0, <2>6 DEF LockList, ApplyPair, Go, elsewhere
      <3>2. Cmd(t)' = Cmd(t) /\ Count(t)' = Count(t)
        BY <3>1 DEF Cmd, Count
      <3>3. Count(t) \in Nat \ {0}
        BY <1>0, <3>1, CurrentFacts DEF Batching
      <3>4. pc'[t] \in {"lists", "pairs"} => ind'[t] \in 1..Count(t)
        BY <2>0, <3>1, <3>3
      <3>5. QED
        BY <1>0, <3>1, <3>2, <3>4 DEF CommandInv, InJob
    <2>7. CASE Relock(t) \/ CountBackup(t) \/ StartWait(t) \/ WaitForChild(t)
      <3>1. /\ UNCHANGED <<file, at>> /\ InJob(t) /\ pc[t] # "command"
            /\ pc'[t] \in {"relock", "wait", "fork"}
        BY <2>0, <2>7 DEF Relock, CountBackup, StartWait, WaitForChild, Go, elsewhere, job, InJob
      <3>2. QED
        BY <1>0, <3>1 DEF CommandInv, InJob
    <2>8. CASE BracketFails(t) \/ ReadFails(t) \/ DeleteFails(t) \/ Unlock(t) \/ Show(t) \/ Fork(t)
      <3>1. /\ file' = file /\ InJob(t)
            /\ pc' = [pc EXCEPT ![t] = "command"] /\ at' = [at EXCEPT ![t] = @ + 1]
        BY <2>8 DEF BracketFails, ReadFails, DeleteFails, Unlock, Show, Fork, Return, Go, InJob,
                    elsewhere
      <3>2. pc'[t] = "command" /\ at'[t] > 0
        BY <2>0, <3>1
      <3>3. QED
        BY <1>0, <3>1, <3>2 DEF CommandInv, InJob
    <2>9. QED
      BY <2>2, <2>3, <2>4, <2>5, <2>6, <2>7, <2>8 DEF Step
  <1>3. QED
    BY <1>1, <1>2

(* Children that exit and main leave the threads and the directory alone.  *)
LEMMA OutsideStep ==
  ASSUME DirInv, ChildExits \/ JoinThreads \/ Reap \/ Exit
  PROVE  /\ DirInv'
         /\ UNCHANGED <<pc, mutex, dir, job, table, opened>>
         /\ running' \subseteq running
  <1>1. /\ UNCHANGED <<pc, mutex, dir, job, table, opened, overtaken>>
        /\ running' \subseteq running
    BY DEF ChildExits, JoinThreads, Reap, Exit, children
  <1>2. TypeOK'
    <2>1. main' \in {"join", "reap", "exit"}
      BY DEF DirInv, TypeOK, ChildExits, JoinThreads, Reap, Exit
    <2>2. active' \in 0..MaxBackups /\ zombies' \in Nat
      BY PartOneAssumption DEF DirInv, TypeOK, ChildExits, JoinThreads, Reap, Exit, children
    <2>3. QED
      BY <1>1, <2>1, <2>2 DEF DirInv, TypeOK, dir, job, table, opened
  <1>3. EntryInv' /\ \A t \in Threads : CommandInv(t)'
    BY <1>1 DEF DirInv, EntryInv, HasEntry, CommandInv, InJob, Cmd, Count, dir, job, opened
  <1>4. QED
    BY <1>1, <1>2, <1>3 DEF DirInv

(* The directory and the types: the invariant is inductive. *)
LEMMA DirNext == DirInv /\ [Next]_vars => DirInv'
  <1> SUFFICES ASSUME DirInv, [Next]_vars PROVE DirInv'
    OBVIOUS
  <1>1. ASSUME NEW t \in Threads, Step(t)
        PROVE  DirInv'
    BY <1>1, TypeStep, EntryStep, CommandStep DEF DirInv
  <1>2. CASE ChildExits \/ JoinThreads \/ Reap \/ Exit
    BY <1>2, OutsideStep
  <1>3. CASE UNCHANGED vars
    BY <1>3 DEF vars, dir, job, table, children, opened, DirInv, TypeOK, EntryInv, HasEntry,
                CommandInv, InJob, Cmd, Count
  <1>4. QED
    BY <1>1, <1>2, <1>3 DEF Next

(* Whatever the directory and the jobs: a thread has its own entry from    *)
(* readdir() to the end of the file, the job it runs is a file that was    *)
(* opened, its place in the job is a command of it, and the loops of       *)
(* WRITE, READ and DELETE stay within the pairs of that command.           *)
THEOREM DirectoryAndLoops == Spec => [](EntryInv /\ \A t \in Threads : CommandInv(t))
  <1>1. DirInv => EntryInv /\ \A t \in Threads : CommandInv(t)
    BY DEF DirInv
  <1>2. QED
    BY <1>1, DirInit, DirNext, PTL DEF Spec

(* Every variable stays in its type, for any directory and any jobs.       *)
THEOREM TypeCorrect == Spec => []TypeOK
  <1>1. DirInv => TypeOK
    BY DEF DirInv
  <1>2. QED
    BY <1>1, DirInit, DirNext, PTL DEF Spec

-----------------------------------------------------------------------------
(* The locks and the contents of the table. *)

(* The labels at which a thread has no lock of a command in progress. *)
Unlocking == {"dir", "entry", "command", "rdtable", "bracket", "show", "backup", "wait",
              "fork", "end"}
Locking == {"lists", "pairs", "unlock"}

(* What a thread has locked: what its failed DELETEs kept, and no more     *)
(* outside of a command.                                                   *)
LockInv(t) ==
  /\ \A l \in leak[t] : Holds(listLock[l], t)
  /\ pc[t] \in Unlocking =>
       /\ \A l \in Lists : Holds(listLock[l], t) => l \in leak[t]
       /\ Holds(tableLock, t) <=> leak[t] # {}
  /\ pc[t] \in Locking => (Holds(tableLock, t) <=> Cmd(t).op # "READ" \/ leak[t] # {})

(* A WRITE or DELETE writes the lists it has locked, those of the pairs it *)
(* has been through among them, and in the end of all its pairs.           *)
CoverInv(t) ==
  pc[t] \in Locking /\ Cmd(t).op # "READ" =>
    /\ \A l \in Lists : Holds(listLock[l], t) /\ l \notin leak[t] => t \in listLock[l].writer
    /\ \A i \in 1..Count(t) : pc[t] = "lists" /\ i < ind[t] =>
         t \in listLock[ListOf[Pair(t, i).key]].writer
    /\ \A i \in 1..Count(t) : pc[t] # "lists" =>
         t \in listLock[ListOf[Pair(t, i).key]].writer

(* One writer, or readers, never both. *)
LockOK(lock) ==
  /\ \A u, v \in lock.writer : u = v
  /\ lock.writer # {} => lock.readers = {}

ExclusionInv == \A l \in Lists : LockOK(listLock[l])

(* The table differs from what was committed only where a WRITE or DELETE  *)
(* is going through its pairs.                                             *)
Updating(u) == pc[u] = "pairs" /\ Cmd(u).op # "READ"

CommitInv ==
  \A k \in Keys : store[k] # committed[k] =>
    \E u \in Threads : Updating(u) /\ u \in listLock[ListOf[k]].writer

TableInv ==
  /\ \A t \in Threads : LockInv(t) /\ CoverInv(t)
  /\ ExclusionInv /\ CommitInv

(* Nothing is locked and nothing stored. *)
LEMMA TableInit == Init => TableInv
  <1> SUFFICES ASSUME Init PROVE TableInv
    OBVIOUS
  <1> USE DEF Init
  <1>0. PICK created \in SUBSET Threads :
          pc = [t \in Threads |-> IF t \in created THEN "dir" ELSE "end"]
    OBVIOUS
  <1>1. \A t \in Threads : LockInv(t)
    BY <1>0 DEF LockInv, Holds, FreeLock, Locking
  <1>2. \A t \in Threads : CoverInv(t)
    BY <1>0 DEF CoverInv, Locking
  <1>3. ExclusionInv /\ CommitInv
    BY DEF ExclusionInv, LockOK, FreeLock, CommitInv
  <1>4. QED
    BY <1>1, <1>2, <1>3 DEF TableInv

(* The thread holds as much of the lock after a step as before it. *)
SameFor(u, lock, after) ==
  (u \in after.writer <=> u \in lock.writer) /\ (u \in after.readers <=> u \in lock.readers)

(* A thread that is not in the step keeps its part of a lock. *)
LEMMA OthersInLock ==
  ASSUME NEW lock \in RwLocks(Threads), NEW t \in Threads, NEW u \in Threads, u # t
  PROVE  /\ SameFor(u, lock, lock)
         /\ SameFor(u, lock, RdLocked(lock, t))
         /\ SameFor(u, lock, WrLocked(lock, t))
         /\ SameFor(u, lock, Unlocked(lock, t))
  <1>1. /\ RdLocked(lock, t).writer = lock.writer
        /\ RdLocked(lock, t).readers = lock.readers \cup {t}
        /\ WrLocked(lock, t).writer = lock.writer \cup {t}
        /\ WrLocked(lock, t).readers = lock.readers
        /\ Unlocked(lock, t).writer = lock.writer \ {t}
        /\ Unlocked(lock, t).readers = lock.readers \ {t}
    BY LockFacts
  <1>2. QED
    BY <1>1 DEF SameFor

(* The thread itself has the lock, or not. *)
LEMMA OwnInLock ==
  ASSUME NEW lock \in RwLocks(Threads), NEW t \in Threads
  PROVE  /\ Holds(RdLocked(lock, t), t) /\ RdLocked(lock, t).writer = lock.writer
         /\ t \in WrLocked(lock, t).writer
         /\ ~Holds(Unlocked(lock, t), t)
         /\ Unlocked(lock, t).writer \subseteq lock.writer
         /\ Unlocked(lock, t).readers \subseteq lock.readers
  <1>1. /\ RdLocked(lock, t).readers = lock.readers \cup {t}
        /\ RdLocked(lock, t).writer = lock.writer
        /\ WrLocked(lock, t).writer = lock.writer \cup {t}
        /\ Unlocked(lock, t).writer = lock.writer \ {t}
        /\ Unlocked(lock, t).readers = lock.readers \ {t}
    BY LockFacts
  <1>2. QED
    BY <1>1 DEF Holds

(* What a command that returns does to the locks of its own thread. *)
LEMMA ReturnFacts ==
  ASSUME TypeOK, NEW t \in Threads, NEW lists, NEW locks, Return(t, lists, locks)
  PROVE  /\ pc'[t] = "command" /\ store' = store /\ file' = file
         /\ \A l \in Lists :
              /\ Holds(listLock[l], t)' <=> Holds(listLock[l], t) /\ l \notin lists
              /\ listLock'[l].writer \subseteq listLock[l].writer
              /\ listLock'[l].readers \subseteq listLock[l].readers
              /\ \A u \in Threads : u # t => SameFor(u, listLock[l], listLock'[l])
         /\ Holds(tableLock, t)' <=> Holds(tableLock, t) /\ "table" \notin locks
         /\ \A u \in Threads : u # t => SameFor(u, tableLock, tableLock')
  <1>1. pc'[t] = "command" /\ store' = store /\ file' = file
    BY DEF TypeOK, Return, elsewhere
  <1>2. ASSUME NEW l \in Lists
        PROVE  /\ Holds(listLock[l], t)' <=> Holds(listLock[l], t) /\ l \notin lists
               /\ listLock'[l].writer \subseteq listLock[l].writer
               /\ listLock'[l].readers \subseteq listLock[l].readers
               /\ \A u \in Threads : u # t => SameFor(u, listLock[l], listLock'[l])
    <2>1. listLock[l] \in RwLocks(Threads)
      BY DEF TypeOK
    <2>2. listLock'[l] = IF l \in lists THEN Unlocked(listLock[l], t) ELSE listLock[l]
      BY DEF Return
    <2>3. \A u \in Threads : u # t => SameFor(u, listLock[l], listLock'[l])
      BY <2>1, <2>2, OthersInLock
    <2>4. CASE l \in lists
      <3>1. listLock'[l] = Unlocked(listLock[l], t)
        BY <2>2, <2>4
      <3>2. ~Holds(listLock'[l], t)
        BY <2>1, <3>1, OwnInLock
      <3>3. QED
        BY <2>1, <2>3, <2>4, <3>1, <3>2, OwnInLock
    <2>5. CASE l \notin lists
      BY <2>2, <2>3, <2>5
    <2>6. QED
      BY <2>4, <2>5
  <1>3. /\ Holds(tableLock, t)' <=> Holds(tableLock, t) /\ "table" \notin locks
        /\ \A u \in Threads : u # t => SameFor(u, tableLock, tableLock')
    <2>1. tableLock \in RwLocks(Threads)
      BY DEF TypeOK
    <2>2. tableLock' = IF "table" \in locks THEN Unlocked(tableLock, t) ELSE tableLock
      BY DEF Return
    <2>3. \A u \in Threads : u # t => SameFor(u, tableLock, tableLock')
      BY <2>1, <2>2, OthersInLock
    <2>4. CASE "table" \in locks
      <3>1. tableLock' = Unlocked(tableLock, t)
        BY <2>2, <2>4
      <3>2. ~Holds(tableLock', t)
        BY <2>1, <3>1, OwnInLock
      <3>3. QED
        BY <2>3, <2>4, <3>2
    <2>5. CASE "table" \notin locks
      BY <2>2, <2>3, <2>5
    <2>6. QED
      BY <2>4, <2>5
  <1>4. QED
    BY <1>1, <1>2, <1>3

(* The steps that leave the table and its locks alone. *)
OffTable(t) ==
  \/ ReadDir(t) \/ NoMoreEntries(t) \/ NotAJob(t) \/ OpenFiles(t) \/ OpenFails(t)
  \/ EndOfFile(t) \/ Begin(t) \/ PrintBracket(t) \/ Relock(t)
  \/ CountBackup(t) \/ StartWait(t) \/ WaitForChild(t) \/ Fork(t)

(* They do not move a thread into a command that has locks, but for READ.  *)
LEMMA OffTableFacts ==
  ASSUME TypeOK, NEW t \in Threads, OffTable(t)
  PROVE  /\ UNCHANGED table
         /\ \/ pc[t] \in Unlocking /\ pc'[t] \in Unlocking
            \/ pc[t] = "bracket" /\ pc'[t] = "lists" /\ UNCHANGED <<file, at, ind>>
            \/ pc[t] = "lists" /\ pc'[t] = "relock"
  <1>0. pc \in [Threads -> Labels]
    BY DEF TypeOK, Labels
  <1> USE <1>0 DEF Unlocking, Go
  <1>1. CASE ReadDir(t) \/ NoMoreEntries(t) \/ NotAJob(t) \/ OpenFiles(t) \/ OpenFails(t)
             \/ EndOfFile(t)
    BY <1>1 DEF ReadDir, NoMoreEntries, NotAJob, OpenFiles, OpenFails, EndOfFile, NameRead
  <1>2. CASE Begin(t)
    BY <1>2 DEF Begin
  <1>3. CASE PrintBracket(t) \/ Relock(t)
    BY <1>3 DEF PrintBracket, Relock, elsewhere
  <1>4. CASE CountBackup(t) \/ StartWait(t) \/ WaitForChild(t) \/ Fork(t)
    BY <1>4 DEF CountBackup, StartWait, WaitForChild, Fork
  <1>5. QED
    BY <1>1, <1>2, <1>3, <1>4 DEF OffTable

(* What another thread has locked, and how, is not for a step to change.   *)
LEMMA LocksStay ==
  ASSUME TypeOK, NEW t \in Threads, Step(t), NEW u \in Threads, u # t
  PROVE  /\ \A l \in Lists : SameFor(u, listLock[l], listLock'[l])
         /\ SameFor(u, tableLock, tableLock')
  <1>1. CASE OffTable(t)
    <2>1. listLock' = listLock /\ tableLock' = tableLock
      BY <1>1, OffTableFacts DEF table
    <2>2. QED
      BY <2>1 DEF SameFor
  <1>2. CASE RdLockTable(t)
    <2>1. tableLock \in RwLocks(Threads)
      BY DEF TypeOK
    <2>2. listLock' = listLock /\ tableLock' = RdLocked(tableLock, t)
      BY <1>2 DEF RdLockTable
    <2>3. SameFor(u, tableLock, tableLock')
      BY <2>1, <2>2, OthersInLock
    <2>4. QED
      BY <2>2, <2>3 DEF SameFor
  <1>3. CASE LockList(t)
    <2>1. PICK l, new : /\ listLock' = [listLock EXCEPT ![l] = new]
                        /\ new \in {listLock[l], RdLocked(listLock[l], t),
                                    WrLocked(listLock[l], t)}
                        /\ tableLock' = tableLock
      BY <1>3 DEF LockList
    <2>2. ASSUME l \in Lists
          PROVE  SameFor(u, listLock[l], new)
      <3>1. listLock[l] \in RwLocks(Threads)
        BY <2>2 DEF TypeOK
      <3>2. /\ SameFor(u, listLock[l], RdLocked(listLock[l], t))
            /\ SameFor(u, listLock[l], WrLocked(listLock[l], t))
            /\ SameFor(u, listLock[l], listLock[l])
        BY <3>1, OthersInLock
      <3>3. QED
        BY <2>1, <3>2
    <2>3. QED
      BY <2>1, <2>2 DEF TypeOK, SameFor
  <1>4. CASE ApplyPair(t)
    BY <1>4 DEF ApplyPair, SameFor
  <1>5. CASE BracketFails(t) \/ ReadFails(t) \/ DeleteFails(t) \/ Unlock(t) \/ Show(t)
    BY <1>5, ReturnFacts DEF BracketFails, ReadFails, DeleteFails, Unlock, Show
  <1>6. QED
    BY <1>1, <1>2, <1>3, <1>4, <1>5 DEF Step, OffTable

(* So what is said of its locks stays true. *)
LEMMA OthersTable ==
  ASSUME DirInv, NEW t \in Threads, Step(t), NEW u \in Threads, u # t, LockInv(u), CoverInv(u)
  PROVE  LockInv(u)' /\ CoverInv(u)'
  <1>1. /\ pc'[u] = pc[u] /\ leak'[u] = leak[u] /\ ind'[u] = ind[u]
        /\ file'[u] = file[u] /\ at'[u] = at[u]
    BY OthersStay DEF DirInv
  <1>2. /\ Cmd(u)' = Cmd(u) /\ Count(u)' = Count(u) /\ \A i : Pair(u, i)' = Pair(u, i)
    BY <1>1 DEF Cmd, Count, Pair
  <1>3. /\ \A l \in Lists : /\ Holds(listLock'[l], u) <=> Holds(listLock[l], u)
                            /\ u \in listLock'[l].writer <=> u \in listLock[l].writer
        /\ Holds(tableLock', u) <=> Holds(tableLock, u)
    <2>1. /\ \A l \in Lists : SameFor(u, listLock[l], listLock'[l])
          /\ SameFor(u, tableLock, tableLock')
      BY LocksStay DEF DirInv
    <2>2. QED
      BY <2>1 DEF SameFor, Holds
  <1>4. leak[u] \subseteq Lists
    BY DEF DirInv, TypeOK
  <1>5. LockInv(u)'
    BY <1>1, <1>2, <1>3, <1>4 DEF LockInv
  <1>6. pc[u] \in Locking => \A i \in 1..Count(u) : ListOf[Pair(u, i).key] \in Lists
    BY CurrentFacts DEF DirInv, Batching, Locking
  <1>7. CoverInv(u)'
    BY <1>1, <1>2, <1>3, <1>6 DEF CoverInv
  <1>8. QED
    BY <1>5, <1>7

(* A thread locks the table, its lists in turn, and gives back what it     *)
(* locked, but for a DELETE that fails, which has some list locked.        *)
LEMMA OwnTable ==
  ASSUME DirInv, TableInv, NEW t \in Threads, Step(t)
  PROVE  LockInv(t)' /\ CoverInv(t)'
  <1>0. /\ TypeOK /\ CommandInv(t) /\ LockInv(t) /\ CoverInv(t)
        /\ pc \in [Threads -> Labels] /\ ind \in [Threads -> Nat]
        /\ leak \in [Threads -> SUBSET Lists]
        /\ listLock \in [Lists -> RwLocks(Threads)] /\ tableLock \in RwLocks(Threads)
    BY DEF DirInv, TableInv, TypeOK, Labels
  <1>1. CASE OffTable(t)
    <2>1. listLock' = listLock /\ tableLock' = tableLock /\ leak' = leak
      BY <1>0, <1>1, OffTableFacts DEF table
    <2>2. CASE pc[t] \in Unlocking /\ pc'[t] \in Unlocking
      BY <1>0, <2>1, <2>2 DEF LockInv, CoverInv, Unlocking, Locking
    <2>3. CASE pc[t] = "bracket" /\ pc'[t] = "lists" /\ UNCHANGED <<file, at, ind>>
      <3>1. Cmd(t)' = Cmd(t) /\ Cmd(t).op = "READ"
        BY <1>0, <2>3 DEF CommandInv, Cmd
      <3>2. QED
        BY <1>0, <2>1, <2>3, <3>1 DEF LockInv, CoverInv, Unlocking, Locking
    <2>4. CASE pc[t] = "lists" /\ pc'[t] = "relock"
      BY <1>0, <2>1, <2>4 DEF LockInv, CoverInv, Unlocking, Locking
    <2>5. QED
      BY <1>0, <1>1, <2>2, <2>3, <2>4, OffTableFacts
  <1>2. CASE RdLockTable(t)
    <2>1. /\ pc[t] = "rdtable" /\ pc'[t] = "lists" /\ UNCHANGED <<file, at, ind, listLock, leak>>
          /\ tableLock' = RdLocked(tableLock, t)
      BY <1>0, <1>2 DEF RdLockTable, Go, elsewhere
    <2>2. Cmd(t)' = Cmd(t) /\ Cmd(t).op # "READ" /\ ind[t] = 1 /\ Holds(tableLock', t)
      BY <1>0, <2>1, OwnInLock DEF CommandInv, Cmd
    <2>3. LockInv(t)'
      BY <1>0, <2>1, <2>2 DEF LockInv, Unlocking, Locking
    <2>4. CoverInv(t)'
      <3>1. \A l \in Lists : Holds(listLock[l], t) => l \in leak[t]
        BY <1>0, <2>1 DEF LockInv, Unlocking
      <3>2. \A i \in Nat : 1 <= i => ~(i < 1)
        OBVIOUS
      <3>3. \A i \in 1..Count(t)' : ~(i < ind'[t])
        BY <2>1, <2>2, <3>2
      <3>4. QED
        BY <2>1, <3>1, <3>3 DEF CoverInv
    <2>5. QED
      BY <2>3, <2>4
  <1>3. CASE LockList(t)
    <2> DEFINE l == ListOf[Pair(t, ind[t]).key]
    <2>1. /\ pc[t] = "lists" /\ pc'[t] = (IF ind[t] < Count(t) THEN "lists" ELSE "pairs")
          /\ UNCHANGED <<file, at, tableLock, leak>>
          /\ ind'[t] = IF ind[t] < Count(t) THEN ind[t] + 1 ELSE 1
          /\ l \notin leak[t]
          /\ listLock' = [listLock EXCEPT ![l] =
               IF Holds(listLock[l], t) /\ l \in Lists THEN @
               ELSE IF Cmd(t).op = "READ" THEN RdLocked(@, t) ELSE WrLocked(@, t)]
      BY <1>0, <1>3 DEF LockList, Go, elsewhere, HeldLists
    <2>2. /\ Cmd(t)' = Cmd(t) /\ Count(t)' = Count(t) /\ \A i : Pair(t, i)' = Pair(t, i)
      BY <2>1 DEF Cmd, Count, Pair
    <2>3. /\ l \in Lists /\ Count(t) \in Nat \ {0} /\ ind[t] \in 1..Count(t)
          /\ \A i \in 1..Count(t) : ListOf[Pair(t, i).key] \in Lists
      BY <1>0, <2>1, CurrentFacts DEF CommandInv, Batching
    <2>4. /\ \A m \in Lists : m # l => listLock'[m] = listLock[m]
          /\ Holds(listLock'[l], t)
          /\ Cmd(t).op # "READ" => t \in listLock'[l].writer
      <3>1. listLock[l] \in RwLocks(Threads)
        BY <1>0, <2>3
      <3>2. /\ Holds(RdLocked(listLock[l], t), t) /\ t \in WrLocked(listLock[l], t).writer
        BY <3>1, OwnInLock
      <3>3. Cmd(t).op # "READ" /\ Holds(listLock[l], t) => t \in listLock[l].writer
        BY <1>0, <2>1, <2>3 DEF CoverInv, Locking
      <3>4. listLock'[l] = IF Holds(listLock[l], t) THEN listLock[l]
                           ELSE IF Cmd(t).op = "READ" THEN RdLocked(listLock[l], t)
                           ELSE WrLocked(listLock[l], t)
        BY <1>0, <2>1, <2>3
      <3>5. \A m \in Lists : m # l => listLock'[m] = listLock[m]
        BY <1>0, <2>1
      <3>6. CASE Holds(listLock[l], t)
        BY <3>3, <3>4, <3>5, <3>6
      <3>7. CASE ~Holds(listLock[l], t) /\ Cmd(t).op = "READ"
        BY <3>2, <3>4, <3>5, <3>7
      <3>8. CASE ~Holds(listLock[l], t) /\ Cmd(t).op # "READ"
        BY <3>2, <3>4, <3>5, <3>8 DEF Holds
      <3>9. QED
        BY <3>6, <3>7, <3>8
    <2> HIDE DEF l
    <2>5. LockInv(t)'
      BY <1>0, <2>1, <2>2, <2>3, <2>4 DEF LockInv, Unlocking, Locking
    <2>6. ASSUME Cmd(t).op # "READ"
          PROVE  CoverInv(t)'
      <3>1. \A m \in Lists : Holds(listLock'[m], t) /\ m \notin leak[t] => t \in listLock'[m].writer
        BY <1>0, <2>1, <2>4, <2>6 DEF CoverInv, Locking
      <3>2. \A i \in 1..Count(t) : i < ind[t] => t \in listLock[ListOf[Pair(t, i).key]].writer
        BY <1>0, <2>1, <2>6 DEF CoverInv, Locking
      <3>3. \A i \in 1..Count(t) : i <= ind[t] =>
              t \in listLock'[ListOf[Pair(t, i).key]].writer
        <4>1. ASSUME NEW i \in 1..Count(t), i <= ind[t]
              PROVE  t \in listLock'[ListOf[Pair(t, i).key]].writer
          <5>1. CASE ListOf[Pair(t, i).key] = l
            BY <2>4, <2>6, <5>1
          <5>2. CASE ListOf[Pair(t, i).key] # l
            <6>1. i < ind[t]
              BY <2>3, <4>1, <5>2 DEF l
            <6>2. QED
              BY <2>3, <2>4, <3>2, <5>2, <6>1
          <5>3. QED
            BY <5>1, <5>2
        <4>2. QED
          BY <4>1
      <3>4. \A i \in 1..Count(t) : \/ pc'[t] = "lists" /\ i < ind'[t]
                                   \/ pc'[t] # "lists"
                                   => i <= ind[t]
        BY <2>1, <2>3
      <3>5. QED
        BY <2>1, <2>2, <3>1, <3>3, <3>4 DEF CoverInv
    <2>7. Cmd(t).op = "READ" => CoverInv(t)'
      BY <2>2 DEF CoverInv
    <2>8. QED
      BY <2>5, <2>6, <2>7
  <1>4. CASE ApplyPair(t)
    <2>1. /\ pc[t] = "pairs" /\ pc'[t] \in {"pairs", "unlock"}
          /\ UNCHANGED <<file, at, tableLock, listLock, leak>>
      BY <1>0, <1>4 DEF ApplyPair, Go, elsewhere
    <2>2. /\ Cmd(t)' = Cmd(t) /\ Count(t)' = Count(t) /\ \A i : Pair(t, i)' = Pair(t, i)
      BY <2>1 DEF Cmd, Count, Pair
    <2>3. LockInv(t)'
      BY <1>0, <2>1, <2>2 DEF LockInv, Unlocking, Locking
    <2>4. CoverInv(t)'
      BY <1>0, <2>1, <2>2 DEF CoverInv, Locking
    <2>5. QED
      BY <2>3, <2>4
  <1>5. CASE BracketFails(t) \/ ReadFails(t) \/ DeleteFails(t) \/ Unlock(t) \/ Show(t)
    <2>1. pc'[t] = "command"
      BY <1>0, <1>5, ReturnFacts DEF BracketFails, ReadFails, DeleteFails, Unlock, Show
    <2>2. CoverInv(t)'
      BY <2>1 DEF CoverInv, Locking
    <2>3. SUFFICES /\ leak'[t] \subseteq Lists
                   /\ \A l \in Lists : Holds(listLock'[l], t) <=> l \in leak'[t]
                   /\ Holds(tableLock', t) <=> leak'[t] # {}
      BY <2>1, <2>2 DEF LockInv, Locking
    <2>4. CASE BracketFails(t) \/ Show(t)
      <3>1. /\ pc[t] \in Unlocking /\ leak' = leak /\ Return(t, {}, {})
        BY <2>4 DEF BracketFails, Show, Unlocking
      <3>2. /\ \A l \in Lists : Holds(listLock'[l], t) <=> Holds(listLock[l], t)
            /\ Holds(tableLock', t) <=> Holds(tableLock, t)
        BY <1>0, <3>1, ReturnFacts
      <3>3. QED
        BY <1>0, <3>1, <3>2 DEF LockInv
    <2>5. CASE ReadFails(t)
      <3>1. /\ pc[t] \in Locking /\ leak' = leak /\ Return(t, HeldLists(t) \ leak[t], {})
            /\ Cmd(t).op = "READ"
        BY <2>5 DEF ReadFails, Locking
      <3>2. /\ \A l \in Lists : Holds(listLock'[l], t) <=>
                 Holds(listLock[l], t) /\ l \notin HeldLists(t) \ leak[t]
            /\ Holds(tableLock', t) <=> Holds(tableLock, t)
        BY <1>0, <3>1, ReturnFacts
      <3>3. QED
        BY <1>0, <3>1, <3>2 DEF LockInv, HeldLists
    <2>6. CASE Unlock(t)
      <3>1. /\ pc[t] \in Locking /\ leak' = leak
            /\ Return(t, HeldLists(t) \ leak[t],
                      IF leak[t] = {} /\ Cmd(t).op # "READ" THEN {"table"} ELSE {})
        BY <2>6 DEF Unlock, Locking
      <3>2. /\ \A l \in Lists : Holds(listLock'[l], t) <=>
                 Holds(listLock[l], t) /\ l \notin HeldLists(t) \ leak[t]
            /\ Holds(tableLock', t) <=>
                 Holds(tableLock, t) /\ ~(leak[t] = {} /\ Cmd(t).op # "READ")
        BY <1>0, <3>1, ReturnFacts
      <3>3. QED
        BY <1>0, <3>1, <3>2 DEF LockInv, HeldLists
    <2>7. CASE DeleteFails(t)
      <3>1. /\ pc[t] \in {"pairs", "unlock"} /\ leak'[t] = HeldLists(t) /\ Return(t, {}, {})
            /\ Cmd(t).op = "DELETE"
        BY <1>0, <2>7 DEF DeleteFails
      <3>2. /\ \A l \in Lists : Holds(listLock'[l], t) <=> Holds(listLock[l], t)
            /\ Holds(tableLock', t) <=> Holds(tableLock, t)
        BY <1>0, <3>1, ReturnFacts
      <3>3. HeldLists(t) # {}
        <4>1. Count(t) \in Nat \ {0} /\ ListOf[Pair(t, 1).key] \in Lists
          BY <1>0, <3>1, CurrentFacts DEF Batching
        <4>2. t \in listLock[ListOf[Pair(t, 1).key]].writer
          BY <1>0, <3>1, <4>1 DEF CoverInv, Locking
        <4>3. QED
          BY <4>1, <4>2 DEF HeldLists, Holds
      <3>4. Holds(tableLock, t)
        BY <1>0, <3>1 DEF LockInv, Locking
      <3>5. QED
        BY <3>1, <3>2, <3>3, <3>4 DEF HeldLists
    <2>8. QED
      BY <1>5, <2>4, <2>5, <2>6, <2>7
  <1>6. QED
    BY <1>1, <1>2, <1>3, <1>4, <1>5 DEF Step, OffTable

(* A list has one writer, or readers. *)
LEMMA ExclusionStep ==
  ASSUME DirInv, TableInv, NEW t \in Threads, Step(t)
  PROVE  ExclusionInv'
  <1>0. TypeOK /\ ExclusionInv /\ listLock \in [Lists -> RwLocks(Threads)]
    BY DEF DirInv, TableInv, TypeOK
  <1>1. CASE OffTable(t) \/ RdLockTable(t) \/ ApplyPair(t)
    <2>1. listLock' = listLock
      BY <1>0, <1>1, OffTableFacts DEF RdLockTable, ApplyPair, table
    <2>2. QED
      BY <1>0, <2>1 DEF ExclusionInv
  <1>2. CASE LockList(t)
    <2>1. PICK l, new :
            /\ listLock' = [listLock EXCEPT ![l] = new]
            /\ \/ new = listLock[l]
               \/ new = RdLocked(listLock[l], t) /\ CanRdLock(listLock[l])
               \/ new = WrLocked(listLock[l], t) /\ CanWrLock(listLock[l])
      BY <1>2 DEF LockList
    <2>2. ASSUME l \in Lists
          PROVE  LockOK(new)
      <3>1. listLock[l] \in RwLocks(Threads) /\ LockOK(listLock[l])
        BY <1>0, <2>2 DEF ExclusionInv
      <3>2. /\ RdLocked(listLock[l], t).writer = listLock[l].writer
            /\ WrLocked(listLock[l], t).writer = listLock[l].writer \cup {t}
            /\ WrLocked(listLock[l], t).readers = listLock[l].readers
        BY <3>1, LockFacts
      <3>3. QED
        BY <2>1, <3>1, <3>2 DEF LockOK, CanRdLock, CanWrLock
    <2>3. QED
      BY <1>0, <2>1, <2>2 DEF ExclusionInv
  <1>3. CASE BracketFails(t) \/ ReadFails(t) \/ DeleteFails(t) \/ Unlock(t) \/ Show(t)
    <2>1. \A l \in Lists : /\ listLock'[l].writer \subseteq listLock[l].writer
                           /\ listLock'[l].readers \subseteq listLock[l].readers
      BY <1>0, <1>3, ReturnFacts DEF BracketFails, ReadFails, DeleteFails, Unlock, Show
    <2>2. \A l \in Lists : LockOK(listLock'[l])
      BY <1>0, <2>1 DEF ExclusionInv, LockOK
    <2>3. QED
      BY <2>2 DEF ExclusionInv
  <1>4. QED
    BY <1>1, <1>2, <1>3 DEF Step, OffTable

(* Who is going through the pairs of an update goes on doing so, but for   *)
(* the thread that takes the step.                                         *)
LEMMA UpdatingStays ==
  ASSUME DirInv, NEW t \in Threads, Step(t), NEW k \in Keys, NEW u \in Threads, u # t,
         Updating(u), u \in listLock[ListOf[k]].writer
  PROVE  Updating(u)' /\ u \in listLock'[ListOf[k]].writer
  <1>1. /\ pc'[u] = pc[u] /\ file'[u] = file[u] /\ at'[u] = at[u]
    BY OthersStay DEF DirInv
  <1>2. ListOf[k] \in Lists
    BY PartOneAssumption
  <1>3. u \in listLock'[ListOf[k]].writer
    BY <1>2, LocksStay DEF DirInv, SameFor
  <1>4. QED
    BY <1>1, <1>3 DEF Updating, Cmd

(* What an update has written is committed before it is unlocked. *)
LEMMA CommitStep ==
  ASSUME DirInv, TableInv, NEW t \in Threads, Step(t)
  PROVE  CommitInv'
  <1>0. /\ TypeOK /\ CommandInv(t) /\ LockInv(t) /\ CoverInv(t) /\ CommitInv
        /\ pc \in [Threads -> Labels]
        /\ store \in [Keys -> Values \cup {Absent}]
        /\ committed \in [Keys -> Values \cup {Absent}]
    BY DEF DirInv, TableInv, TypeOK, Labels
  <1>1. SUFFICES ASSUME NEW k \in Keys, store'[k] # committed'[k]
                 PROVE  \E u \in Threads : Updating(u)' /\ u \in listLock'[ListOf[k]].writer
    BY DEF CommitInv
  <1>2. ASSUME store' = store, ~Updating(t),
               committed'[k] = committed[k] \/ committed'[k] = store[k]
        PROVE  \E u \in Threads : Updating(u)' /\ u \in listLock'[ListOf[k]].writer
    <2>1. PICK u \in Threads : Updating(u) /\ u \in listLock[ListOf[k]].writer
      BY <1>0, <1>1, <1>2 DEF CommitInv
    <2>2. u # t
      BY <1>2, <2>1
    <2>3. QED
      BY <2>1, <2>2, UpdatingStays
  <1>3. CASE OffTable(t) \/ RdLockTable(t) \/ LockList(t)
    <2>1. store' = store /\ committed' = committed /\ pc[t] # "pairs"
      BY <1>0, <1>3, OffTableFacts DEF RdLockTable, LockList, Go, table, Unlocking
    <2>2. QED
      BY <1>2, <2>1 DEF Updating
  <1>4. CASE BracketFails(t) \/ Unlock(t) \/ Show(t)
    <2>1. store' = store /\ committed' = committed /\ pc[t] # "pairs"
      BY <1>4 DEF BracketFails, Unlock, Show, Return
    <2>2. QED
      BY <1>2, <2>1 DEF Updating
  <1>5. CASE ReadFails(t)
    <2>1. store' = store /\ committed' = committed /\ Cmd(t).op = "READ"
      BY <1>5 DEF ReadFails, Return
    <2>2. QED
      BY <1>2, <2>1 DEF Updating
  <1>6. CASE DeleteFails(t)
    <2>1. /\ store' = store
          /\ committed'[k] = IF ListOf[k] \in HeldLists(t) THEN store[k] ELSE committed[k]
      BY <1>6 DEF DeleteFails, Return, Commits
    <2>2. ListOf[k] \notin HeldLists(t)
      BY <1>1, <2>1
    <2>3. PICK u \in Threads : Updating(u) /\ u \in listLock[ListOf[k]].writer
      BY <1>0, <1>1, <2>1, <2>2 DEF CommitInv
    <2>4. ListOf[k] \in Lists
      BY PartOneAssumption
    <2>5. u # t
      BY <2>2, <2>3, <2>4 DEF HeldLists, Holds
    <2>6. QED
      BY <2>3, <2>5, UpdatingStays
  <1>7. CASE ApplyPair(t)
    <2>0. /\ pc[t] = "pairs" /\ UNCHANGED <<file, at, listLock>>
          /\ pc'[t] = IF ind[t] < Count(t) THEN "pairs" ELSE "unlock"
          /\ Cmd(t)' = Cmd(t)
      BY <1>0, <1>7 DEF ApplyPair, Go, elsewhere, Cmd
    <2>1. /\ ListOf[k] \in Lists /\ Count(t) \in Nat \ {0} /\ ind[t] \in 1..Count(t)
      BY <1>0, <2>0, CurrentFacts, PartOneAssumption DEF CommandInv, Batching
    <2>2. CASE ind[t] < Count(t)
      <3>1. committed' = committed
        BY <1>7, <2>2 DEF ApplyPair
      <3>2. CASE store'[k] # store[k]
        <4>1. Cmd(t).op \in {"WRITE", "DELETE"} /\ k = Pair(t, ind[t]).key
          BY <1>0, <1>7, <3>2 DEF ApplyPair
        <4>2. t \in listLock[ListOf[k]].writer
          BY <1>0, <2>0, <2>1, <4>1 DEF CoverInv, Locking
        <4>3. Updating(t)'
          BY <2>0, <2>2, <4>1 DEF Updating
        <4>4. QED
          BY <2>0, <4>2, <4>3
      <3>3. CASE store'[k] = store[k]
        <4>1. PICK u \in Threads : Updating(u) /\ u \in listLock[ListOf[k]].writer
          BY <1>0, <1>1, <3>1, <3>3 DEF CommitInv
        <4>2. CASE u = t
          <5>1. Updating(t)'
            BY <2>0, <2>2, <4>1, <4>2 DEF Updating
          <5>2. QED
            BY <2>0, <4>1, <4>2, <5>1
        <4>3. CASE u # t
          BY <4>1, <4>3, UpdatingStays
        <4>4. QED
          BY <4>2, <4>3
      <3>4. QED
        BY <3>2, <3>3
    <2>3. CASE ~(ind[t] < Count(t))
      <3>1. committed'[k] = IF ListOf[k] \in HeldLists(t) THEN store'[k] ELSE committed[k]
        BY <1>7, <2>3 DEF ApplyPair, Commits
      <3>2. ListOf[k] \notin HeldLists(t) /\ store'[k] # committed[k]
        BY <1>1, <3>1
      <3>3. t \notin listLock[ListOf[k]].writer
        BY <2>1, <3>2 DEF HeldLists, Holds
      <3>4. store'[k] = store[k]
        <4>1. ASSUME store'[k] # store[k]
              PROVE  FALSE
          <5>1. Cmd(t).op \in {"WRITE", "DELETE"} /\ k = Pair(t, ind[t]).key
            BY <1>0, <1>7, <4>1 DEF ApplyPair
          <5>2. t \in listLock[ListOf[k]].writer
            BY <1>0, <2>0, <2>1, <5>1 DEF CoverInv, Locking
          <5>3. QED
            BY <3>3, <5>2
        <4>2. QED
          BY <4>1
      <3>5. PICK u \in Threads : Updating(u) /\ u \in listLock[ListOf[k]].writer
        BY <1>0, <3>2, <3>4 DEF CommitInv
      <3>6. QED
        BY <3>3, <3>5, UpdatingStays
    <2>4. QED
      BY <2>2, <2>3
  <1>8. QED
    BY <1>3, <1>4, <1>5, <1>6, <1>7 DEF Step, OffTable

(* Whoever could lock the table for writing finds nothing half done. *)
LEMMA WholeTable ==
  ASSUME DirInv, TableInv, CanWrLock(tableLock)
  PROVE  store = committed
  <1>1. \A t \in Threads : ~Updating(t)
    <2>1. ASSUME NEW t \in Threads, Updating(t)
          PROVE  FALSE
      <3>1. Holds(tableLock, t)
        BY <2>1 DEF TableInv, LockInv, Updating, Locking
      <3>2. QED
        BY <3>1 DEF CanWrLock, Holds
    <2>2. QED
      BY <2>1
  <1>2. \A k \in Keys : store[k] = committed[k]
    BY <1>1 DEF TableInv, CommitInv
  <1>3. QED
    BY <1>2 DEF DirInv, TypeOK

(* The copies that the backups write are whole. *)
WholeCopies == \A child \in running : ~child.torn

(* do_fork copies the table when it could lock it for writing.             *)
LEMMA CopiesStep ==
  ASSUME DirInv, TableInv, WholeCopies, [Next]_vars
  PROVE  WholeCopies'
  <1>1. ASSUME NEW t \in Threads, Fork(t)
        PROVE  WholeCopies'
    <2>1. store = committed
      BY <1>1, WholeTable DEF Fork
    <2>2. ~Child(t).torn
      BY <2>1 DEF Child
    <2>3. running' \subseteq running \cup {Child(t)}
      BY <1>1 DEF Fork
    <2> DEFINE child == Child(t)
    <2> HIDE DEF child
    <2>4. ~child.torn /\ running' \subseteq running \cup {child}
      BY <2>2, <2>3 DEF child
    <2>5. QED
      BY <2>4 DEF WholeCopies
  <1>2. ASSUME NEW t \in Threads, Step(t), ~Fork(t)
        PROVE  running' = running
    BY <1>2 DEF Step, ReadDir, NoMoreEntries, NotAJob, OpenFiles, OpenFails, EndOfFile, Begin,
       RdLockTable, PrintBracket, BracketFails, LockList, Relock, ApplyPair, ReadFails,
       DeleteFails, Unlock, Show, CountBackup, StartWait, WaitForChild, NameRead, Return,
       elsewhere, children
  <1>3. CASE ChildExits \/ JoinThreads \/ Reap \/ Exit
    BY <1>3, OutsideStep DEF WholeCopies
  <1>4. CASE UNCHANGED vars
    BY <1>4 DEF vars, children, WholeCopies
  <1>5. QED
    BY <1>1, <1>2, <1>3, <1>4 DEF Next, WholeCopies

(* The locks and the table: the invariant is inductive. *)
LEMMA TableNext == DirInv /\ TableInv /\ [Next]_vars => TableInv'
  <1> SUFFICES ASSUME DirInv, TableInv, [Next]_vars PROVE TableInv'
    OBVIOUS
  <1>1. ASSUME NEW t \in Threads, Step(t)
        PROVE  TableInv'
    <2>1. \A u \in Threads : LockInv(u)' /\ CoverInv(u)'
      BY <1>1, OwnTable, OthersTable DEF TableInv
    <2>2. QED
      BY <1>1, <2>1, ExclusionStep, CommitStep DEF TableInv
  <1>2. CASE (ChildExits \/ JoinThreads \/ Reap \/ Exit) \/ UNCHANGED vars
    <2>1. UNCHANGED <<pc, job, table>>
      BY <1>2, OutsideStep DEF vars
    <2>2. QED
      BY <2>1, ZenonT(60) DEF job, table, TableInv, LockInv, CoverInv, Cmd, Count, Pair, ExclusionInv,
                  CommitInv, Updating
  <1>3. QED
    BY <1>1, <1>2 DEF Next

(* The types, the directory and the table hold of every behaviour. *)
LEMMA TableInvariance == Spec => [](DirInv /\ TableInv /\ WholeCopies)
  <1>1. Init => DirInv /\ TableInv /\ WholeCopies
    BY DirInit, TableInit DEF Init, WholeCopies
  <1>2. DirInv /\ TableInv /\ WholeCopies /\ [Next]_vars => (DirInv /\ TableInv /\ WholeCopies)'
    BY DirNext, TableNext, CopiesStep
  <1>3. QED
    BY <1>1, <1>2, PTL DEF Spec

(* Between two commands a thread has no lock, whatever could not be        *)
(* printed, but for the table and the lists of a DELETE that could not     *)
(* print.                                                                  *)
THEOREM LocksAreGivenBack == Spec => []LocksComeBack
  <1>1. ASSUME DirInv, TableInv
        PROVE  LocksComeBack
    <2>1. ASSUME NEW t \in Threads,
                 pc[t] \in {"dir", "entry", "command", "backup", "wait", "fork", "end"}
          PROVE  HeldLists(t) = leak[t] /\ (Holds(tableLock, t) <=> leak[t] # {})
      <3>1. /\ \A l \in Lists : Holds(listLock[l], t) <=> l \in leak[t]
            /\ Holds(tableLock, t) <=> leak[t] # {}
        BY <1>1, <2>1 DEF TableInv, LockInv, Unlocking
      <3>2. leak[t] \subseteq Lists
        BY <1>1 DEF DirInv, TypeOK
      <3>3. QED
        BY <3>1, <3>2 DEF HeldLists
    <2>2. QED
      BY <2>1 DEF LocksComeBack
  <1>2. QED
    BY <1>1, TableInvariance, PTL

(* Neither SHOW, nor a READ in the lists it has locked, nor a backup sees  *)
(* half of a WRITE or DELETE, whatever the jobs and the failures.          *)
THEOREM NothingTorn == Spec => []NoTornBatch
  <1>1. ASSUME DirInv, TableInv, WholeCopies
        PROVE  NoTornBatch
    <2>1. ASSUME NEW t \in Threads, pc[t] = "pairs", Cmd(t).op = "READ",
                 NEW k \in Keys, ListOf[k] \in HeldLists(t)
          PROVE  store[k] = committed[k]
      <3>1. SUFFICES ASSUME store[k] # committed[k] PROVE FALSE
        OBVIOUS
      <3>2. PICK u \in Threads : Updating(u) /\ u \in listLock[ListOf[k]].writer
        BY <1>1, <3>1 DEF TableInv, CommitInv
      <3>3. u # t
        BY <2>1, <3>2 DEF Updating
      <3>4. LockOK(listLock[ListOf[k]]) /\ Holds(listLock[ListOf[k]], t)
        BY <1>1, <2>1 DEF TableInv, ExclusionInv, HeldLists
      <3>5. QED
        BY <3>2, <3>3, <3>4 DEF LockOK, Holds
    <2>2. CanWrLock(tableLock) => store = committed
      BY <1>1, WholeTable
    <2>3. QED
      BY <1>1, <2>1, <2>2 DEF NoTornBatch, WholeCopies
  <1>2. QED
    BY <1>1, TableInvariance, PTL

-----------------------------------------------------------------------------
(* Which jobs are run, and the names of the backups. *)

(* The entries of jobs that were returned, the jobs that were run, and the *)
(* threads that have yet to open theirs.                                   *)
Returned == {n \in 1..read : Entries[n] \in JobFiles}
Ran == {f \in JobFiles : runs[f] = 1}
Opening == {t \in Threads : pc[t] = "entry" /\ Entries[entry[t]] \in JobFiles}

(* Each job that was returned was run, could not be opened or is about to  *)
(* be opened; those not returned or not opened yet were not run.           *)
RunInv ==
  ~misread =>
    /\ \A n \in DOMAIN Entries : n > read /\ Entries[n] \in JobFiles => runs[Entries[n]] = 0
    /\ \A f \in JobFiles : runs[f] <= 1
    /\ \A t \in Opening : runs[Entries[entry[t]]] = 0
    /\ Cardinality(Returned) = Cardinality(Ran) + unopened + Cardinality(Opening)

(* The jobs are finitely many, as the directory is. *)
LEMMA JobFilesFacts ==
  /\ IsFiniteSet(JobFiles)
  /\ Cardinality({n \in 1..Len(Entries) : Entries[n] \in JobFiles}) = Cardinality(JobFiles)
  <1> DEFINE S == {n \in 1..Len(Entries) : Entries[n] \in JobFiles}
             f == [n \in S |-> Entries[n]]
  <1>1. DOMAIN Entries = 1..Len(Entries) /\ Len(Entries) \in Nat
    BY PartOneAssumption, LenProperties
  <1>2. IsFiniteSet(S)
    <2>1. IsFiniteSet(1..Len(Entries))
      BY <1>1, FS_Interval
    <2>2. QED
      BY <2>1, FS_Subset
  <1>3. f \in Surjection(S, JobFiles)
    <2>1. f \in [S -> JobFiles]
      OBVIOUS
    <2>2. ASSUME NEW x \in JobFiles
          PROVE  \E n \in S : f[n] = x
      <3>1. PICK n \in DOMAIN Entries : Entries[n] = x
        BY PartOneAssumption DEF Names, ToSet
      <3>2. n \in S
        BY <1>1, <3>1
      <3>3. QED
        BY <3>1, <3>2
    <2>3. QED
      BY <2>1, <2>2 DEF Surjection
  <1>4. f \in Injection(S, JobFiles)
    <2>1. f \in [S -> JobFiles]
      OBVIOUS
    <2>2. \A m, n \in S : f[m] = f[n] => m = n
      BY <1>1, PartOneAssumption
    <2>3. QED
      BY <2>1, <2>2 DEF Injection, IsInjective
  <1> HIDE DEF S, f
  <1>5. IsFiniteSet(JobFiles) /\ Cardinality(S) = Cardinality(JobFiles)
    BY <1>2, <1>3, <1>4, FS_Surjection
  <1>6. QED
    BY <1>5 DEF S

(* The sets that are counted are finite. *)
LEMMA RunSetsFacts ==
  ASSUME TypeOK
  PROVE  /\ IsFiniteSet(Returned) /\ Cardinality(Returned) \in Nat
         /\ IsFiniteSet(Ran) /\ Cardinality(Ran) \in Nat
         /\ IsFiniteSet(Opening) /\ Cardinality(Opening) \in Nat
  <1>1. IsFiniteSet(1..read)
    BY FS_Interval, PartOneAssumption, LenProperties DEF TypeOK
  <1>2. IsFiniteSet(Returned) /\ IsFiniteSet(Ran) /\ IsFiniteSet(Opening)
    BY <1>1, FS_Subset, JobFilesFacts, PartOneAssumption DEF Returned, Ran, Opening
  <1>3. QED
    BY <1>2, FS_CardinalityType

(* The steps that are not at the directory. *)
OffDirectory(t) ==
  \/ NoMoreEntries(t) \/ EndOfFile(t) \/ Begin(t) \/ RdLockTable(t) \/ PrintBracket(t)
  \/ BracketFails(t) \/ LockList(t) \/ Relock(t) \/ ApplyPair(t) \/ ReadFails(t)
  \/ DeleteFails(t) \/ Unlock(t) \/ Show(t) \/ CountBackup(t) \/ StartWait(t)
  \/ WaitForChild(t) \/ Fork(t)

(* They leave the directory and the account of the jobs alone. *)
LEMMA OffDirectoryFacts ==
  ASSUME TypeOK, NEW t \in Threads, OffDirectory(t)
  PROVE  /\ UNCHANGED <<read, entry, file, runs, unopened, misread>>
         /\ pc[t] # "entry" /\ pc'[t] # "entry"
         /\ InJob(t)' => InJob(t)
  <1>0. pc \in [Threads -> Labels]
    BY DEF TypeOK, Labels
  <1>1. UNCHANGED <<read, entry, file, runs, unopened, misread>>
    BY DEF OffDirectory, NoMoreEntries, EndOfFile, Begin, RdLockTable, PrintBracket,
       BracketFails, LockList, Relock, ApplyPair, ReadFails, DeleteFails, Unlock, Show,
       CountBackup, StartWait, WaitForChild, Fork, Return, elsewhere, dir, job, opened
  <1>2. CASE Begin(t)
    <2>1. pc[t] = "command" /\ pc'[t] \in {"rdtable", "bracket", "show", "backup"}
      BY <1>0, <1>2 DEF Begin
    <2>2. QED
      BY <1>1, <2>1 DEF InJob
  <1>3. CASE OffDirectory(t) /\ ~Begin(t)
    <2>1. /\ pc[t] # "entry" /\ pc'[t] # "entry"
          /\ InJob(t)' => InJob(t)
      BY <1>0, <1>3 DEF OffDirectory, NoMoreEntries, EndOfFile, RdLockTable, PrintBracket,
         BracketFails, LockList, Relock, ApplyPair, ReadFails, DeleteFails, Unlock, Show,
         CountBackup, StartWait, WaitForChild, Fork, Return, Go, InJob
    <2>2. QED
      BY <1>1, <2>1
  <1>4. QED
    BY <1>2, <1>3

(* What the threads that have left "entry", or not been there, do not      *)
(* change.                                                                 *)
LEMMA RunFrame ==
  ASSUME RunInv, UNCHANGED <<read, runs, unopened, misread>>, Opening' = Opening,
         \A t \in Opening : entry'[t] = entry[t]
  PROVE  RunInv'
  BY DEF RunInv, Returned, Ran

(* readdir() returns the next entry, and a thread runs it, or not.         *)
LEMMA RunStep ==
  ASSUME DirInv, RunInv, NEW t \in Threads, Step(t)
  PROVE  RunInv'
  <1>0. /\ TypeOK /\ EntryInv
        /\ pc \in [Threads -> Labels] /\ read \in 0..Len(Entries) /\ Len(Entries) \in Nat
        /\ DOMAIN Entries = 1..Len(Entries) /\ unopened \in Nat
        /\ entry \in [Threads -> 1..Len(Entries)] /\ runs \in [JobFiles -> Nat]
    BY PartOneAssumption, LenProperties DEF DirInv, TypeOK, Labels
  <1>1. CASE OffDirectory(t)
    <2>1. Opening' = Opening
      BY <1>0, <1>1, OffDirectoryFacts, OthersStay DEF Opening
    <2>2. QED
      BY <1>0, <1>1, <2>1, OffDirectoryFacts, RunFrame
  <1>2. CASE ReadDir(t)
    <2>1. /\ read' = read + 1 /\ entry' = [entry EXCEPT ![t] = read + 1]
          /\ pc[t] = "dir" /\ pc' = [pc EXCEPT ![t] = "entry"] /\ read < Len(Entries)
          /\ UNCHANGED <<runs, unopened, misread>>
      BY <1>2 DEF ReadDir, Go, opened
    <2>2. SUFFICES ASSUME ~misread
                   PROVE  /\ \A n \in DOMAIN Entries : n > read' /\ Entries[n] \in JobFiles =>
                                runs[Entries[n]] = 0
                          /\ \A f \in JobFiles : runs[f] <= 1
                          /\ \A u \in Opening' : runs[Entries[entry'[u]]] = 0
                          /\ Cardinality(Returned') =
                               Cardinality(Ran) + unopened + Cardinality(Opening')
      BY <2>1 DEF RunInv, Ran
    <2>3. /\ \A n \in DOMAIN Entries : n > read' /\ Entries[n] \in JobFiles =>
               runs[Entries[n]] = 0
          /\ \A f \in JobFiles : runs[f] <= 1
      BY <1>0, <2>1, <2>2 DEF RunInv
    <2>4. /\ t \notin Opening /\ read + 1 \notin Returned /\ read + 1 \in DOMAIN Entries
      BY <1>0, <2>1 DEF Opening, Returned
    <2>5. CASE Entries[read + 1] \in JobFiles
      <3>1. Opening' = Opening \cup {t}
        BY <1>0, <2>1, <2>5 DEF Opening
      <3>2. Returned' = Returned \cup {read + 1}
        BY <1>0, <2>1, <2>5 DEF Returned
      <3>3. /\ Cardinality(Opening') = Cardinality(Opening) + 1
            /\ Cardinality(Returned') = Cardinality(Returned) + 1
        BY <1>0, <2>4, <3>1, <3>2, FS_AddElement, RunSetsFacts
      <3>4. \A u \in Opening' : runs[Entries[entry'[u]]] = 0
        <4>1. runs[Entries[read + 1]] = 0
          BY <1>0, <2>2, <2>4, <2>5 DEF RunInv
        <4>2. \A u \in Opening : u # t /\ entry'[u] = entry[u] /\ runs[Entries[entry[u]]] = 0
          BY <1>0, <2>1, <2>2, <2>4 DEF RunInv, Opening
        <4>3. QED
          BY <1>0, <2>1, <3>1, <4>1, <4>2
      <3>5. Cardinality(Returned) = Cardinality(Ran) + unopened + Cardinality(Opening)
        BY <2>2 DEF RunInv
      <3>6. QED
        BY <1>0, <2>3, <3>3, <3>4, <3>5, RunSetsFacts
    <2>6. CASE Entries[read + 1] \notin JobFiles
      <3>1. Opening' = Opening
        BY <1>0, <2>1, <2>6 DEF Opening
      <3>2. Returned' = Returned
        BY <1>0, <2>1, <2>6 DEF Returned
      <3>3. \A u \in Opening : entry'[u] = entry[u]
        BY <1>0, <2>1, <2>4 DEF Opening
      <3>4. QED
        BY <2>2, <2>3, <3>1, <3>2, <3>3 DEF RunInv
    <2>7. QED
      BY <2>5, <2>6
  <1>3. CASE NotAJob(t) \/ OpenFiles(t) \/ OpenFails(t)
    <2>1. /\ UNCHANGED <<read, entry>> /\ pc[t] = "entry"
          /\ \E label : pc' = [pc EXCEPT ![t] = label] /\ label # "entry"
          /\ misread' = (misread \/ BufferedName(entry[t]) # Entries[entry[t]])
      BY <1>3 DEF NotAJob, OpenFiles, OpenFails, NameRead, Go, dir
    <2>2. SUFFICES ASSUME ~misread'
                   PROVE  /\ \A n \in DOMAIN Entries : n > read /\ Entries[n] \in JobFiles =>
                                runs'[Entries[n]] = 0
                          /\ \A f \in JobFiles : runs'[f] <= 1
                          /\ \A u \in Opening' : runs'[Entries[entry[u]]] = 0
                          /\ Cardinality(Returned) =
                               Cardinality(Ran') + unopened' + Cardinality(Opening')
      BY <2>1 DEF RunInv, Returned
    <2>3. ~misread /\ BufferedName(entry[t]) = Entries[entry[t]]
      BY <2>1, <2>2
    <2>4. /\ \A n \in DOMAIN Entries : n > read /\ Entries[n] \in JobFiles =>
               runs[Entries[n]] = 0
          /\ \A f \in JobFiles : runs[f] <= 1
          /\ \A u \in Opening : runs[Entries[entry[u]]] = 0
          /\ Cardinality(Returned) = Cardinality(Ran) + unopened + Cardinality(Opening)
      BY <2>3 DEF RunInv
    <2>5. Opening' = Opening \ {t}
      BY <1>0, <2>1 DEF Opening
    <2>6. CASE NotAJob(t)
      <3>1. t \notin Opening /\ UNCHANGED <<runs, unopened>>
        BY <2>3, <2>6 DEF NotAJob, Opening
      <3>2. Opening' = Opening /\ Ran' = Ran
        BY <2>5, <3>1 DEF Ran
      <3>3. QED
        BY <2>4, <3>1, <3>2
    <2>7. CASE OpenFails(t)
      <3>1. t \in Opening /\ runs' = runs /\ unopened' = unopened + 1
        BY <2>1, <2>3, <2>7 DEF OpenFails, Opening
      <3>2. Ran' = Ran
        BY <3>1 DEF Ran
      <3>3. Cardinality(Opening') = Cardinality(Opening) - 1
        BY <1>0, <2>5, <3>1, FS_RemoveElement, RunSetsFacts
      <3>4. QED
        BY <1>0, <2>4, <2>5, <3>1, <3>2, <3>3, RunSetsFacts
    <2>8. CASE OpenFiles(t)
      <3> DEFINE name == Entries[entry[t]]
      <3>1. /\ name \in JobFiles /\ runs' = [runs EXCEPT ![name] = @ + 1]
            /\ unopened' = unopened /\ t \in Opening
        BY <2>1, <2>3, <2>8 DEF OpenFiles, Opening
      <3>2. runs[name] = 0
        BY <2>4, <3>1
      <3>3. Ran' = Ran \cup {name} /\ name \notin Ran
        BY <1>0, <3>1, <3>2 DEF Ran
      <3>4. entry[t] \in 1..read
        BY <1>0, <2>1 DEF EntryInv, HasEntry
      <3>5. /\ \A n \in DOMAIN Entries : n > read => Entries[n] # name
            /\ \A u \in Opening : u # t => Entries[entry[u]] # name
        <4>1. \A m, n \in DOMAIN Entries : Entries[m] = Entries[n] => m = n
          BY PartOneAssumption
        <4>2. entry[t] \in DOMAIN Entries /\ entry[t] <= read
          BY <1>0, <3>4
        <4>3. ASSUME NEW n \in DOMAIN Entries, n > read
              PROVE  Entries[n] # name
          <5>1. n # entry[t]
            BY <1>0, <4>2, <4>3
          <5>2. QED
            BY <4>1, <4>2, <5>1
        <4>4. ASSUME NEW u \in Opening, u # t
              PROVE  Entries[entry[u]] # name
          <5>1. u \in Threads /\ HasEntry(u) /\ HasEntry(t)
            BY <2>1, <4>4 DEF Opening, HasEntry
          <5>2. entry[u] # entry[t] /\ entry[u] \in DOMAIN Entries
            BY <1>0, <4>4, <5>1 DEF EntryInv
          <5>3. QED
            BY <4>1, <4>2, <5>2
        <4>5. QED
          BY <4>3, <4>4
      <3>6. /\ \A n \in DOMAIN Entries : n > read /\ Entries[n] \in JobFiles =>
                 runs'[Entries[n]] = 0
            /\ \A u \in Opening' : runs'[Entries[entry[u]]] = 0
        BY <1>0, <2>4, <2>5, <3>1, <3>5 DEF Opening
      <3>7. \A f \in JobFiles : runs'[f] <= 1
        BY <1>0, <2>4, <3>1, <3>2
      <3>8. /\ Cardinality(Opening') = Cardinality(Opening) - 1
            /\ Cardinality(Ran') = Cardinality(Ran) + 1
        <4> HIDE DEF name
        <4>1. QED
          BY <1>0, <2>5, <3>1, <3>3, FS_RemoveElement, FS_AddElement, RunSetsFacts
      <3>9. QED
        BY <1>0, <2>4, <3>1, <3>6, <3>7, <3>8, RunSetsFacts
    <2>9. QED
      BY <1>3, <2>6, <2>7, <2>8
  <1>4. QED
    BY <1>1, <1>2, <1>3 DEF Step, OffDirectory

(* Nothing was returned. *)
LEMMA RunInit == Init => RunInv
  <1> SUFFICES ASSUME Init PROVE RunInv
    OBVIOUS
  <1>1. /\ read = 0 /\ unopened = 0 /\ \A f \in JobFiles : runs[f] = 0
        /\ \A t \in Threads : pc[t] # "entry"
    BY DEF Init
  <1>2. Returned = {} /\ Ran = {} /\ Opening = {}
    BY <1>1 DEF Returned, Ran, Opening
  <1>3. Cardinality(Returned) = 0 /\ Cardinality(Ran) = 0 /\ Cardinality(Opening) = 0
    BY <1>2, FS_EmptySet
  <1>4. QED
    BY <1>1, <1>2, <1>3 DEF RunInv

(* The account of the jobs is inductive. *)
LEMMA RunNext == DirInv /\ RunInv /\ [Next]_vars => RunInv'
  <1> SUFFICES ASSUME DirInv, RunInv, [Next]_vars PROVE RunInv'
    OBVIOUS
  <1>1. ASSUME NEW t \in Threads, Step(t)
        PROVE  RunInv'
    BY <1>1, RunStep
  <1>2. CASE (ChildExits \/ JoinThreads \/ Reap \/ Exit) \/ UNCHANGED vars
    <2>1. UNCHANGED <<pc, dir, opened>>
      BY <1>2, OutsideStep DEF vars
    <2>2. QED
      BY <2>1, RunFrame DEF dir, opened, Opening
  <1>3. QED
    BY <1>1, <1>2 DEF Next

(* No job is run twice, and when main exits with the directory read to its *)
(* end each was run or could not be opened: unless a thread read the name  *)
(* of another, which takes a directory larger than the buffer.             *)
THEOREM EachJobOnce == Spec => []JobsRunOnce
  <1>1. ASSUME DirInv, RunInv, IInv
        PROVE  JobsRunOnce
    <2>1. misread => read > BufferSize
      BY <1>1 DEF DirInv, EntryInv
    <2>2. ASSUME ~misread, main = "exit", read = Len(Entries)
          PROVE  Cardinality(Ran) + unopened = Cardinality(JobFiles)
      <3>1. Opening = {}
        BY <1>1, <2>2 DEF IInv, JoinInv, Opening
      <3>2. Cardinality(Returned) = Cardinality(JobFiles)
        BY <2>2, JobFilesFacts DEF Returned
      <3>3. Cardinality(Returned) = Cardinality(Ran) + unopened + 0
        BY <1>1, <2>2, <3>1, FS_EmptySet DEF RunInv
      <3>4. unopened \in Nat /\ Cardinality(Ran) \in Nat
        BY <1>1, RunSetsFacts DEF DirInv, TypeOK
      <3>5. QED
        BY <3>2, <3>3, <3>4
    <2>3. ~misread => \A f \in JobFiles : runs[f] <= 1
      BY <1>1 DEF RunInv
    <2>4. QED
      BY <2>1, <2>2, <2>3 DEF JobsRunOnce, Ran
  <1>2. Init => DirInv /\ RunInv /\ IInv
    BY DirInit, RunInit, InitInv
  <1>3. DirInv /\ RunInv /\ IInv /\ [Next]_vars => (DirInv /\ RunInv /\ IInv)'
    BY DirNext, RunNext, NextStep
  <1>4. QED
    BY <1>1, <1>2, <1>3, PTL DEF Spec

(* As long as the buffer was not refilled, a thread has the file of its    *)
(* entry, which was opened once, and so has each child; the children of a  *)
(* job have the numbers that its thread has used, the next being unused    *)
(* when it forks.                                                          *)
FileInv ==
  \A t \in Threads : InJob(t) => file[t] = Entries[entry[t]] /\ runs[file[t]] = 1

NumberInv ==
  \A c \in running : ~c.refilled =>
    /\ c.of \in JobFiles /\ runs[c.of] = 1
    /\ \A t \in Threads : InJob(t) /\ file[t] = c.of =>
         c.number <= backups[t] /\ (pc[t] = "fork" => c.number < backups[t])

NameInv ==
  /\ \A c \in running : c.number \in Nat
  /\ read <= BufferSize => FileInv /\ NumberInv
  /\ BackupFilesDiffer

(* What leaves the files of the threads, and their numbers, alone.         *)
LEMMA NameFrame ==
  ASSUME NameInv, read \in Nat, read' \in Nat, read <= read', runs' = runs,
         running' \subseteq running,
         \A t \in Threads : InJob(t)' =>
           /\ InJob(t)
           /\ entry'[t] = entry[t] /\ file'[t] = file[t] /\ backups'[t] = backups[t]
           /\ pc'[t] = "fork" => pc[t] = "fork"
  PROVE  NameInv'
  <1>1. BackupFilesDiffer'
    BY DEF NameInv, BackupFilesDiffer
  <1>2. \A c \in running' : c.number \in Nat
    BY DEF NameInv
  <1>3. ASSUME read' <= BufferSize
        PROVE  FileInv' /\ NumberInv'
    <2>1. FileInv /\ NumberInv
      BY <1>3, PartOneAssumption DEF NameInv
    <2>2. FileInv'
      BY <2>1 DEF FileInv
    <2>3. NumberInv'
      BY <2>1 DEF NumberInv
    <2>4. QED
      BY <2>2, <2>3
  <1>4. QED
    BY <1>1, <1>2, <1>3 DEF NameInv

(* A job is opened: no child and no other thread had it.                   *)
LEMMA NameOpen ==
  ASSUME DirInv, RunInv, NameInv, NEW t \in Threads, OpenFiles(t)
  PROVE  NameInv'
  <1>0. /\ TypeOK /\ EntryInv
        /\ pc \in [Threads -> Labels] /\ read \in 0..Len(Entries)
        /\ file \in [Threads -> Names] /\ runs \in [JobFiles -> Nat]
        /\ entry \in [Threads -> 1..Len(Entries)]
    BY DEF DirInv, TypeOK, Labels
  <1>1. /\ UNCHANGED <<read, entry, running>>
        /\ pc[t] = "entry" /\ pc' = [pc EXCEPT ![t] = "command"]
        /\ BufferedName(entry[t]) \in JobFiles
        /\ file' = [file EXCEPT ![t] = BufferedName(entry[t])]
        /\ runs' = [runs EXCEPT ![BufferedName(entry[t])] = @ + 1]
        /\ backups' = [backups EXCEPT ![t] = 0]
    BY DEF OpenFiles, NameRead, Go, dir, children
  <1>2. BackupFilesDiffer' /\ \A c \in running' : c.number \in Nat
    BY <1>1 DEF NameInv, BackupFilesDiffer
  <1>3. ASSUME read <= BufferSize
        PROVE  FileInv' /\ NumberInv'
    <2> DEFINE name == Entries[entry[t]]
    <2>1. FileInv /\ NumberInv
      BY <1>3 DEF NameInv
    <2>2. entry[t] \in 1..read
      BY <1>0, <1>1 DEF EntryInv, HasEntry
    <2>3. BufferedName(entry[t]) = name
      BY <1>0, <1>3, <2>2, NameFacts
    <2>4. t \in Opening
      BY <1>1, <2>3 DEF Opening
    <2>5. ~misread
      BY <1>0, <1>3, PartOneAssumption DEF EntryInv
    <2>6. runs[name] = 0
      BY <2>4, <2>5 DEF RunInv
    <2>7. /\ name \in JobFiles /\ file' = [file EXCEPT ![t] = name]
          /\ runs' = [runs EXCEPT ![name] = 1]
      BY <1>0, <1>1, <2>3, <2>6
    <2> HIDE DEF name
    <2>8. \A u \in Threads : u # t /\ InJob(u)' =>
            /\ InJob(u) /\ file'[u] = file[u] /\ file[u] # name /\ runs'[file[u]] = 1
            /\ backups'[u] = backups[u] /\ pc'[u] = pc[u]
      BY <1>0, <1>1, <2>1, <2>6, <2>7 DEF InJob, FileInv
    <2>9. FileInv'
      <3>1. file'[t] = Entries[entry'[t]] /\ runs'[file'[t]] = 1
        BY <1>0, <1>1, <2>7 DEF name
      <3>2. QED
        BY <1>1, <2>1, <2>8, <3>1 DEF FileInv
    <2>10. NumberInv'
      <3>1. \A c \in running : ~c.refilled =>
              c.of \in JobFiles /\ c.of # name /\ runs'[c.of] = 1
        BY <1>0, <2>1, <2>6, <2>7 DEF NumberInv
      <3>2. file'[t] = name
        BY <1>0, <2>7
      <3>3. ASSUME NEW c \in running, ~c.refilled, NEW u \in Threads, InJob(u)', file'[u] = c.of
            PROVE  c.number <= backups'[u] /\ (pc'[u] = "fork" => c.number < backups'[u])
        <4>1. u # t
          BY <3>1, <3>2, <3>3
        <4>2. QED
          BY <2>1, <2>8, <3>3, <4>1 DEF NumberInv
      <3>4. QED
        BY <1>1, <3>1, <3>3 DEF NumberInv
    <2>11. QED
      BY <2>9, <2>10
  <1>4. QED
    BY <1>1, <1>2, <1>3 DEF NameInv

(* The thread takes the next number, to fork.                              *)
LEMMA NameCount ==
  ASSUME DirInv, NameInv, NEW t \in Threads, CountBackup(t) \/ WaitForChild(t)
  PROVE  NameInv'
  <1>0. pc \in [Threads -> Labels] /\ backups \in [Threads -> Nat]
    BY DEF DirInv, TypeOK, Labels
  <1>1. /\ UNCHANGED <<read, entry, file, running, runs>>
        /\ pc[t] \in {"backup", "wait"} /\ pc' = [pc EXCEPT ![t] = "fork"]
        /\ backups' = [backups EXCEPT ![t] = @ + 1]
    BY DEF CountBackup, WaitForChild, Go, dir, opened
  <1>2. BackupFilesDiffer' /\ \A c \in running' : c.number \in Nat
    BY <1>1 DEF NameInv, BackupFilesDiffer
  <1>3. \A u \in Threads : InJob(u)' => InJob(u)
    BY <1>0, <1>1 DEF InJob
  <1>4. ASSUME read <= BufferSize
        PROVE  FileInv' /\ NumberInv'
    <2>1. FileInv /\ NumberInv
      BY <1>4 DEF NameInv
    <2>2. FileInv'
      BY <1>1, <1>3, <2>1 DEF FileInv
    <2>3. ASSUME NEW c \in running, ~c.refilled, NEW u \in Threads, InJob(u)', file[u] = c.of
          PROVE  c.number <= backups'[u] /\ (pc'[u] = "fork" => c.number < backups'[u])
      <3>1. /\ c.number \in Nat /\ c.number <= backups[u]
            /\ pc[u] = "fork" => c.number < backups[u]
        BY <1>3, <2>1, <2>3 DEF NumberInv, NameInv
      <3>2. CASE u = t
        <4>1. backups'[t] = backups[t] + 1 /\ backups[t] \in Nat
          BY <1>0, <1>1
        <4>2. QED
          BY <3>1, <3>2, <4>1
      <3>3. CASE u # t
        BY <1>0, <1>1, <3>1, <3>3
      <3>4. QED
        BY <3>2, <3>3
    <2>4. NumberInv'
      BY <1>1, <2>1, <2>3 DEF NumberInv
    <2>5. QED
      BY <2>2, <2>4
  <1>5. QED
    BY <1>1, <1>2, <1>4 DEF NameInv

(* The child has a number that no older child of the job has.              *)
LEMMA NameFork ==
  ASSUME DirInv, NameInv, NEW t \in Threads, Fork(t)
  PROVE  NameInv'
  <1> DEFINE child == Child(t)
  <1>0. /\ TypeOK /\ EntryInv
        /\ pc \in [Threads -> Labels] /\ read \in 0..Len(Entries) /\ Len(Entries) \in Nat
        /\ backups \in [Threads -> Nat] /\ BufferSize \in Nat
    BY PartOneAssumption, LenProperties DEF DirInv, TypeOK, Labels
  <1>1. /\ UNCHANGED <<read, entry, file, backups, runs>>
        /\ running' \subseteq running \cup {child}
        /\ pc[t] = "fork" /\ pc' = [pc EXCEPT ![t] = "command"]
    BY DEF Fork, Go, dir, opened
  <1>2. /\ InJob(t) /\ file[t] \in JobFiles /\ entry[t] \in 1..read
        /\ \A u \in Threads : InJob(u)' => InJob(u) /\ (pc'[u] = "fork" => pc[u] = "fork")
    BY <1>0, <1>1 DEF DirInv, CommandInv, EntryInv, HasEntry, InJob
  <1>3. /\ child.number = backups[t] /\ child.of = file[t]
        /\ child.refilled = (read > BufferSize)
        /\ child.named = BufferedName(entry[t])
    BY DEF Child
  <1> HIDE DEF child
  <1>4. \A c \in running' : c.number \in Nat
    <2>1. child.number \in Nat
      BY <1>0, <1>3
    <2>2. QED
      BY <1>1, <2>1 DEF NameInv
  <1>5. CASE read <= BufferSize
    <2>1. FileInv /\ NumberInv /\ BackupFilesDiffer
      BY <1>5 DEF NameInv
    <2>2. child.named = file[t] /\ runs[file[t]] = 1 /\ ~child.refilled
      <3>1. file[t] = Entries[entry[t]] /\ runs[file[t]] = 1
        BY <1>2, <2>1 DEF FileInv
      <3>2. BufferedName(entry[t]) = Entries[entry[t]]
        BY <1>0, <1>2, <1>5, NameFacts
      <3>3. ~(read > BufferSize)
        BY <1>0, <1>5
      <3>4. QED
        BY <1>3, <3>1, <3>2, <3>3
    <2>3. FileInv'
      BY <1>1, <1>2, <2>1 DEF FileInv
    <2>4. \A c \in running : ~c.refilled /\ c.of = file[t] =>
            c.number < backups[t] /\ c.number \in Nat
      BY <1>1, <1>2, <2>1 DEF NumberInv, NameInv
    <2>5. BackupFilesDiffer'
      <3>1. ASSUME NEW c \in running, ~c.refilled
            PROVE  c.named = c.of /\ <<c.named, c.number>> # <<child.named, child.number>>
        <4>1. c.named = c.of
          BY <2>1, <3>1 DEF BackupFilesDiffer
        <4>2. c.of = file[t] => c.number # backups[t]
          BY <1>0, <2>4, <3>1
        <4>3. QED
          BY <1>3, <2>2, <4>1, <4>2
      <3>2. child.named = child.of
        BY <1>3, <2>2
      <3>3. ASSUME NEW c \in running', NEW d \in running', ~c.refilled, ~d.refilled
            PROVE  /\ c.named = c.of
                   /\ c # d => <<c.named, c.number>> # <<d.named, d.number>>
        <4>1. CASE c \in running /\ d \in running
          BY <2>1, <3>3, <4>1 DEF BackupFilesDiffer
        <4>2. CASE c = child \/ d = child
          BY <1>1, <3>1, <3>2, <3>3, <4>2
        <4>3. QED
          BY <1>1, <3>3, <4>1, <4>2
      <3>4. QED
        BY <3>3 DEF BackupFilesDiffer
    <2>6. NumberInv'
      <3>1. \A u \in Threads : u # t /\ InJob(u) => file[u] # file[t]
        <4>1. ASSUME NEW u \in Threads, u # t, InJob(u), file[u] = file[t]
              PROVE  FALSE
          <5>1. Entries[entry[u]] = Entries[entry[t]]
            BY <1>2, <2>1, <4>1 DEF FileInv
          <5>2. /\ entry[u] \in 1..read /\ entry[t] \in 1..read
                /\ entry[u] # entry[t]
            BY <1>0, <1>2, <4>1 DEF EntryInv, HasEntry, InJob
          <5>3. entry[u] \in DOMAIN Entries /\ entry[t] \in DOMAIN Entries
            BY <1>0, <5>2, PartOneAssumption, LenProperties
          <5>4. QED
            BY <5>1, <5>2, <5>3, PartOneAssumption
        <4>2. QED
          BY <4>1
      <3>2. ASSUME NEW c \in running', ~c.refilled
            PROVE  /\ c.of \in JobFiles /\ runs[c.of] = 1
                   /\ \A u \in Threads : InJob(u)' /\ file[u] = c.of =>
                        c.number <= backups[u] /\ (pc'[u] = "fork" => c.number < backups[u])
        <4>1. CASE c \in running
          BY <1>2, <2>1, <3>2, <4>1 DEF NumberInv
        <4>2. CASE c = child
          <5>1. c.of = file[t] /\ c.number = backups[t] /\ backups[t] <= backups[t]
            BY <1>0, <1>3, <4>2
          <5>2. pc'[t] # "fork"
            BY <1>0, <1>1
          <5>3. QED
            BY <1>2, <2>2, <3>1, <5>1, <5>2
        <4>3. QED
          BY <1>1, <3>2, <4>1, <4>2
      <3>3. QED
        BY <1>1, <3>2 DEF NumberInv
    <2>7. QED
      BY <1>4, <2>3, <2>5, <2>6 DEF NameInv
  <1>6. CASE read > BufferSize
    <2>1. child.refilled /\ ~(read' <= BufferSize)
      <3>1. child.refilled
        BY <1>3, <1>6
      <3>2. ~(read <= BufferSize)
        BY <1>0, <1>6
      <3>3. QED
        BY <1>1, <3>1, <3>2
    <2>2. BackupFilesDiffer'
      BY <1>1, <2>1 DEF NameInv, BackupFilesDiffer
    <2>3. QED
      BY <1>4, <2>1, <2>2 DEF NameInv
  <1>7. QED
    BY <1>0, <1>5, <1>6

(* Elsewhere no file, number or child comes to be. *)
LEMMA NameStep ==
  ASSUME DirInv, RunInv, NameInv, NEW t \in Threads, Step(t)
  PROVE  NameInv'
  <1>0. /\ TypeOK /\ pc \in [Threads -> Labels] /\ read \in Nat
    BY PartOneAssumption, LenProperties, SMTT(30) DEF DirInv, TypeOK, Labels
  <1>1. CASE OpenFiles(t)
    BY <1>1, NameOpen
  <1>2. CASE CountBackup(t) \/ WaitForChild(t)
    BY <1>2, NameCount
  <1>3. CASE Fork(t)
    BY <1>3, NameFork
  <1>4. CASE ReadDir(t) \/ NotAJob(t) \/ OpenFails(t)
    <2>1. /\ read' \in {read, read + 1} /\ UNCHANGED <<runs, running>>
          /\ ~InJob(t)'
      BY <1>0, <1>4 DEF ReadDir, NotAJob, OpenFails, NameRead, Go, InJob, dir, children, opened
    <2>2. \A u \in Threads : InJob(u)' =>
            /\ InJob(u)
            /\ entry'[u] = entry[u] /\ file'[u] = file[u] /\ backups'[u] = backups[u]
            /\ pc'[u] = "fork" => pc[u] = "fork"
      BY <1>0, <2>1, OthersStay DEF InJob
    <2>3. read' \in Nat /\ read <= read'
      BY <1>0, <2>1
    <2>4. QED
      BY <1>0, <2>1, <2>2, <2>3, NameFrame
  <1>5. CASE OffDirectory(t) /\ ~CountBackup(t) /\ ~WaitForChild(t) /\ ~Fork(t)
    <2>1. UNCHANGED <<read, entry, file, runs>> /\ (InJob(t)' => InJob(t))
      BY <1>0, <1>5, OffDirectoryFacts
    <2>2. UNCHANGED <<running, backups>> /\ pc'[t] # "fork"
      <3>1. CASE Begin(t)
        <4>1. /\ UNCHANGED <<running, backups>>
              /\ pc'[t] \in {"rdtable", "bracket", "show", "backup"}
          BY <1>0, <3>1 DEF Begin, elsewhere, children
        <4>2. QED
          BY <4>1
      <3>2. CASE ~Begin(t)
        BY <1>0, <1>5, <3>2 DEF OffDirectory, NoMoreEntries, EndOfFile, RdLockTable,
           PrintBracket, BracketFails, LockList, Relock, ApplyPair, ReadFails, DeleteFails,
           Unlock, Show, StartWait, Return, Go, elsewhere, children, job
      <3>3. QED
        BY <3>1, <3>2
    <2>3. \A u \in Threads : InJob(u)' =>
            /\ InJob(u)
            /\ entry'[u] = entry[u] /\ file'[u] = file[u] /\ backups'[u] = backups[u]
            /\ pc'[u] = "fork" => pc[u] = "fork"
      BY <1>0, <2>1, <2>2, OthersStay DEF InJob
    <2>4. QED
      BY <1>0, <2>1, <2>2, <2>3, NameFrame
  <1>6. QED
    BY <1>1, <1>2, <1>3, <1>4, <1>5 DEF Step, OffDirectory

(* The names of the backups: the invariant is inductive. *)
LEMMA NameNext == DirInv /\ RunInv /\ NameInv /\ [Next]_vars => NameInv'
  <1> SUFFICES ASSUME DirInv, RunInv, NameInv, [Next]_vars PROVE NameInv'
    OBVIOUS
  <1>1. ASSUME NEW t \in Threads, Step(t)
        PROVE  NameInv'
    BY <1>1, NameStep
  <1>2. CASE (ChildExits \/ JoinThreads \/ Reap \/ Exit) \/ UNCHANGED vars
    <2>1. UNCHANGED <<pc, dir, job, opened>> /\ running' \subseteq running
      BY <1>2, OutsideStep DEF vars, children
    <2>2. read \in Nat /\ read' = read
      BY <2>1, PartOneAssumption, LenProperties DEF DirInv, TypeOK, dir
    <2>3. \A t \in Threads : InJob(t)' <=> InJob(t)
      BY <2>1 DEF InJob
    <2>4. QED
      BY <2>1, <2>2, <2>3, NameFrame DEF dir, job, opened
  <1>3. QED
    BY <1>1, <1>2 DEF Next

(* No two backups that run write one file, and each has the name of its    *)
(* job: unless the buffer of readdir() was refilled before they were       *)
(* forked.                                                                 *)
THEOREM BackupsUnderTheirNames == Spec => []BackupFilesDiffer
  <1>1. Init => DirInv /\ RunInv /\ NameInv
    <2>1. Init => NameInv
      BY DEF Init, NameInv, FileInv, NumberInv, BackupFilesDiffer, InJob
    <2>2. QED
      BY <2>1, DirInit, RunInit
  <1>2. DirInv /\ RunInv /\ NameInv /\ [Next]_vars => (DirInv /\ RunInv /\ NameInv)'
    BY DirNext, RunNext, NameNext
  <1>3. NameInv => BackupFilesDiffer
    BY DEF NameInv
  <1>4. QED
    BY <1>1, <1>2, <1>3, PTL DEF Spec

=============================================================================
