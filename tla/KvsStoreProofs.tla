--------------------------- MODULE KvsStoreProofs ---------------------------
(***************************************************************************)
(* Theorems about KvsStore, for any number of job threads, keys, lists and *)
(* commands.  IInv is the inductive invariant: it says which locks a       *)
(* thread holds at each label and that the array of a batch only names     *)
(* keys whose lists the thread holds (from "pairs" on) or will take.  The  *)
(* second part proves that KvsStore implements AtomicStore: RInv adds how  *)
(* far each thread has got with its command, what the table and its answer *)
(* hold after the pairs, or the lists, it has been through, compared with  *)
(* the contents of the last completed command.                             *)
(***************************************************************************)
EXTENDS KvsStore, TLAPS, WellFoundedInduction, FiniteSetTheorems

(* One writer, or readers, never both. *)
LockOK(lock) ==
  /\ \A u, v \in lock.writer : u = v
  /\ lock.writer # {} => lock.readers = {}

(* The loop over a batch stays within the sorted array of the batch, and   *)
(* that of kvs_show within the table.                                      *)
LoopInv ==
  \A t \in Threads :
    /\ pc[t] = "rdtable" => cmd[t] \in Commands /\ cmd[t].op \in UpdateOps
    /\ pc[t] = "sort" => cmd[t] \in Commands /\ cmd[t].op = "READ"
    /\ pc[t] \in {"lists", "pairs"} =>
         /\ cmd[t] \in Commands
         /\ cmd[t].op \in BatchOps
         /\ indexs[t] \in [1..Count(t) -> 0..Count(t)]
         /\ ind[t] \in 1..Count(t)
    /\ pc[t] = "show" => ind[t] \in Lists

(* In the locking loop: what lies ahead is in order and not struck out.    *)
AheadInv ==
  \A t \in Threads : pc[t] = "lists" =>
    \A i \in ind[t]..Count(t) :
      /\ indexs[t][i] # Skip
      /\ \A j \in i..Count(t) : Rank[KeyAt(t, i)] <= Rank[KeyAt(t, j)]

(* The lists of the entries left behind by the locking loop are held.      *)
CoverInv ==
  \A t \in Threads :
    /\ pc[t] = "lists" => \A i \in 1..(ind[t] - 1) :
         indexs[t][i] # Skip => ListOf[KeyAt(t, i)] \in HeldLists(t)
    /\ pc[t] = "pairs" => \A i \in 1..Count(t) :
         indexs[t][i] # Skip => ListOf[KeyAt(t, i)] \in HeldLists(t)
    /\ pc[t] \in {"lists", "pairs"} /\ cmd[t].op # "WRITE" =>
         \A i \in 1..Count(t) : indexs[t][i] # Skip

(* Who holds which list lock. *)
ListHoldInv ==
  \A l \in Lists :
    /\ LockOK(listLock[l])
    /\ \A t \in listLock[l].writer :
         pc[t] \in {"lists", "pairs", "unlock"} /\ cmd[t].op \in UpdateOps
    /\ \A t \in listLock[l].readers :
         pc[t] \in {"lists", "pairs", "unlock"} /\ cmd[t].op = "READ"

(* Who holds the table lock. *)
TableHoldInv ==
  /\ LockOK(tableLock)
  /\ \A t \in tableLock.writer : pc[t] \in {"show", "fork", "unlock"}
  /\ \A t \in tableLock.readers : pc[t] \in {"lists", "pairs", "unlock"}
  /\ \A t \in Threads :
       /\ pc[t] \in {"show", "fork"} => t \in tableLock.writer
       /\ pc[t] \in {"lists", "pairs"} /\ cmd[t].op \in UpdateOps =>
            t \in tableLock.readers

(* The contents differ from those of the last completed command only in    *)
(* the lists an update is writing.                                         *)
CommitInv ==
  \A k \in Keys : store[k] # committed[k] =>
    \E u \in Threads : pc[u] = "pairs" /\ u \in listLock[ListOf[k]].writer

IInv == /\ Types /\ LoopInv /\ AheadInv /\ CoverInv
        /\ ListHoldInv /\ TableHoldInv /\ CommitInv
-----------------------------------------------------------------------------
(* What StoreAssumption says of the batch of a command. *)
LEMMA CommandFacts ==
  ASSUME NEW c \in Commands
  PROVE  /\ c.op \in Ops
         /\ c.pairs \in Seq([key : Keys, val : Values])
         /\ Len(c.pairs) \in Nat
         /\ c.op \in BatchOps => Len(c.pairs) > 0
         /\ \A i \in 1..Len(c.pairs) :
              c.pairs[i].key \in Keys /\ c.pairs[i].val \in Values
  <1>1. /\ c \in [op : Ops, pairs : Seq([key : Keys, val : Values])]
        /\ c.op \in BatchOps => c.pairs # <<>>
    BY StoreAssumption
  <1>2. c.op \in Ops /\ c.pairs \in Seq([key : Keys, val : Values])
    BY <1>1
  <1>3. \A i \in 1..Len(c.pairs) : c.pairs[i] \in [key : Keys, val : Values]
    <2> DEFINE Batch == [key : Keys, val : Values]
    <2>1. c.pairs \in Seq(Batch)
      BY <1>2
    <2> HIDE DEF Batch
    <2>2. \A i \in 1..Len(c.pairs) : c.pairs[i] \in Batch
      BY <2>1
    <2>3. QED
      BY <2>2 DEF Batch
  <1>4. QED
    BY <1>1, <1>2, <1>3

(* Nobody has started, nothing is locked and nothing stored. *)
LEMMA InitInv == Init => IInv
  <1> SUFFICES ASSUME Init PROVE IInv
    OBVIOUS
  <1> USE DEF Init
  <1>1. Types
    BY StoreAssumption DEF Types, RwLocks, FreeLock, Labels
  <1>2. LoopInv /\ AheadInv /\ CoverInv
    BY DEF LoopInv, AheadInv, CoverInv
  <1>3. ListHoldInv /\ TableHoldInv
    BY DEF ListHoldInv, TableHoldInv, LockOK, FreeLock
  <1>4. CommitInv
    BY DEF CommitInv
  <1>5. QED
    BY <1>1, <1>2, <1>3, <1>4 DEF IInv

(* What insertion_sort returns: positions of the batch, in rank order. *)
LEMMA SortedFacts ==
  ASSUME NEW c \in Commands, c.op \in BatchOps, NEW s \in SortedIndexes(c.pairs)
  PROVE  /\ s \in [1..Len(c.pairs) -> 1..Len(c.pairs)]
         /\ s \in Seq(Nat)
         /\ \A i, j \in 1..Len(c.pairs) : i <= j =>
              Rank[c.pairs[s[i]].key] <= Rank[c.pairs[s[j]].key]
  <1>1. /\ s \in [1..Len(c.pairs) -> 1..Len(c.pairs)]
        /\ \A i, j \in 1..Len(c.pairs) : i < j =>
              \/ Rank[c.pairs[s[i]].key] < Rank[c.pairs[s[j]].key]
              \/ Rank[c.pairs[s[i]].key] = Rank[c.pairs[s[j]].key] /\ s[i] < s[j]
    BY DEF SortedIndexes
  <1>2. Len(c.pairs) \in Nat /\ \A i \in 1..Len(c.pairs) : c.pairs[i].key \in Keys
    BY CommandFacts
  <1>3. s \in Seq(Nat)
    BY <1>1, <1>2
  <1>4. \A k \in Keys : Rank[k] \in Nat
    BY StoreAssumption
  <1>5. ASSUME NEW i \in 1..Len(c.pairs), NEW j \in 1..Len(c.pairs), i <= j
        PROVE  Rank[c.pairs[s[i]].key] <= Rank[c.pairs[s[j]].key]
    <2>1. s[i] \in 1..Len(c.pairs) /\ s[j] \in 1..Len(c.pairs)
      BY <1>1
    <2>2. Rank[c.pairs[s[i]].key] \in Nat /\ Rank[c.pairs[s[j]].key] \in Nat
      BY <1>2, <1>4, <2>1
    <2>3. CASE i = j
      BY <2>2, <2>3
    <2>4. CASE i < j
      BY <1>1, <2>2, <2>4
    <2>5. QED
      BY <1>2, <1>5, <2>3, <2>4
  <1>6. QED
    BY <1>1, <1>3, <1>5

(* The pair a batch is at. *)
LEMMA CurrentFacts ==
  ASSUME IInv, NEW t \in Threads, pc[t] \in {"lists", "pairs"}
  PROVE  /\ Count(t) \in Nat /\ ind[t] \in 1..Count(t)
         /\ indexs[t] \in [1..Count(t) -> 0..Count(t)] /\ indexs[t] \in Seq(Nat)
         /\ \A i \in 1..Count(t) : indexs[t][i] # Skip =>
              /\ indexs[t][i] \in 1..Count(t)
              /\ KeyAt(t, i) \in Keys
              /\ cmd[t].pairs[indexs[t][i]].val \in Values
         /\ pc[t] = "lists" \/ cmd[t].op # "WRITE" => CurrentIndex(t) # Skip
  <1>1. /\ cmd[t] \in Commands
        /\ cmd[t].op \in BatchOps
        /\ indexs[t] \in [1..Count(t) -> 0..Count(t)]
        /\ ind[t] \in 1..Count(t)
    BY DEF IInv, LoopInv
  <1>2. /\ Count(t) \in Nat
        /\ \A i \in 1..Count(t) :
              cmd[t].pairs[i].key \in Keys /\ cmd[t].pairs[i].val \in Values
    BY <1>1, CommandFacts DEF Count
  <1>3. ASSUME NEW i \in 1..Count(t), indexs[t][i] # Skip
        PROVE  /\ indexs[t][i] \in 1..Count(t)
               /\ KeyAt(t, i) \in Keys
               /\ cmd[t].pairs[indexs[t][i]].val \in Values
    BY <1>1, <1>2, <1>3 DEF KeyAt, Skip
  <1>4. indexs[t] \in Seq(Nat)
    BY DEF IInv, Types
  <1>5. pc[t] = "lists" => CurrentIndex(t) # Skip
    BY <1>1, <1>2 DEF IInv, AheadInv, CurrentIndex
  <1>6. cmd[t].op # "WRITE" => CurrentIndex(t) # Skip
    BY <1>1 DEF IInv, CoverInv, CurrentIndex
  <1>7. QED
    BY <1>1, <1>2, <1>3, <1>4, <1>5, <1>6

(* A round of the locking loop keeps the array an array of positions, and  *)
(* what is not struck out at and after the counter keeps its key.          *)
LEMMA DedupFacts ==
  ASSUME IInv, NEW t \in Threads, pc[t] = "lists"
  PROVE  /\ Deduplicated(t) \in [1..Count(t) -> 0..Count(t)]
         /\ Deduplicated(t) \in Seq(Nat)
         /\ \A i \in 1..Count(t) :
              /\ i # ind[t] => Deduplicated(t)[i] = Skip <=> indexs[t][i] = Skip
              /\ Deduplicated(t)[i] # Skip =>
                   cmd[t].pairs[Deduplicated(t)[i]].key = KeyAt(t, i)
         /\ cmd[t].op # "WRITE" => Deduplicated(t) = indexs[t]
  <1> DEFINE i == ind[t]
             s == indexs[t]
             m == IF s[i] > s[i + 1] THEN s[i] ELSE s[i + 1]
  <1>1. /\ Count(t) \in Nat /\ i \in 1..Count(t)
        /\ s \in [1..Count(t) -> 0..Count(t)] /\ s \in Seq(Nat)
        /\ s[i] \in 1..Count(t)
    BY CurrentFacts DEF CurrentIndex
  <1>2. CASE /\ cmd[t].op = "WRITE" /\ i < Count(t)
             /\ cmd[t].pairs[s[i + 1]].key = CurrentKey(t)
    <2>1. Deduplicated(t) = [s EXCEPT ![i] = Skip, ![i + 1] = m]
      BY <1>2 DEF Deduplicated
    <2>2. i + 1 \in 1..Count(t) /\ i + 1 # i
      BY <1>1, <1>2
    <2>3. s[i + 1] # Skip /\ s[i + 1] \in 1..Count(t)
      <3>1. AheadInv
        BY DEF IInv
      <3>2. i + 1 \in ind[t]..Count(t)
        BY <1>1, <2>2
      <3>3. s[i + 1] # Skip
        BY <3>1, <3>2 DEF AheadInv
      <3>4. s[i + 1] \in 0..Count(t)
        BY <1>1, <2>2
      <3>5. QED
        BY <1>1, <3>3, <3>4 DEF Skip
    <2>4. m \in 1..Count(t) /\ cmd[t].pairs[m].key = KeyAt(t, i + 1)
      <3>1. cmd[t].pairs[s[i]].key = CurrentKey(t) /\ KeyAt(t, i + 1) = CurrentKey(t)
        BY <1>2 DEF CurrentKey, KeyAt
      <3>2. m = s[i] \/ m = s[i + 1]
        OBVIOUS
      <3> HIDE DEF m
      <3>3. QED
        BY <1>1, <1>2, <2>3, <3>1, <3>2
    <2>5. Deduplicated(t) \in [1..Count(t) -> 0..Count(t)]
      <3> HIDE DEF m
      <3>1. Skip \in 0..Count(t) /\ m \in 0..Count(t)
        BY <1>1, <2>4 DEF Skip
      <3>2. QED
        BY <1>1, <2>1, <3>1
    <2>6. Deduplicated(t) \in Seq(Nat)
      BY <1>1, <2>5
    <2>7. /\ Deduplicated(t)[i] = Skip /\ Deduplicated(t)[i + 1] = m
          /\ \A j \in 1..Count(t) : j # i /\ j # i + 1 => Deduplicated(t)[j] = s[j]
      BY <1>1, <2>1, <2>2
    <2>8. ASSUME NEW j \in 1..Count(t)
          PROVE  /\ j # i => (Deduplicated(t)[j] = Skip <=> s[j] = Skip)
                 /\ Deduplicated(t)[j] # Skip =>
                      cmd[t].pairs[Deduplicated(t)[j]].key = KeyAt(t, j)
      <3> HIDE DEF m
      <3>1. CASE j = i
        BY <2>7, <3>1
      <3>2. CASE j = i + 1
        <4>1. m # Skip
          BY <2>4, <1>1 DEF Skip
        <4>2. QED
          BY <2>3, <2>4, <2>7, <3>2, <4>1
      <3>3. CASE j # i /\ j # i + 1
        BY <2>7, <3>3 DEF KeyAt
      <3>4. QED
        BY <3>1, <3>2, <3>3
    <2>9. QED
      BY <1>2, <2>5, <2>6, <2>8
  <1>3. CASE ~ (/\ cmd[t].op = "WRITE" /\ i < Count(t)
                /\ cmd[t].pairs[s[i + 1]].key = CurrentKey(t))
    <2>1. Deduplicated(t) = s
      BY <1>3 DEF Deduplicated
    <2>2. QED
      BY <1>1, <2>1 DEF KeyAt
  <1>4. QED
    BY <1>2, <1>3

(* Every step keeps the types. *)
LEMMA TypeStep ==
  ASSUME IInv, NEW t \in Threads, Step(t)
  PROVE  Types'
  <1>0. Types
    BY DEF IInv
  <1> USE <1>0 DEF Types
  <1>1. CASE Begin(t)
    <2>1. left' \in [Threads -> 0..MaxCommands]
      <3>1. left[t] \in 0..MaxCommands /\ MaxCommands \in Nat
        BY StoreAssumption
      <3>2. left[t] - 1 \in 0..MaxCommands
        BY <1>1, <3>1 DEF Begin
      <3>3. QED
        BY <1>1, <3>2 DEF Begin
    <2>2. pc' \in [Threads -> Labels] /\ cmd' \in [Threads -> Commands \cup {NoCommand}]
      BY <1>1 DEF Begin, Labels
    <2>3. QED
      BY <1>1, <2>1, <2>2 DEF Begin, locks
  <1>2. CASE RdLockTable(t)
    <2>1. cmd[t] \in Commands /\ cmd[t].op \in BatchOps
      BY <1>2 DEF RdLockTable, IInv, LoopInv, UpdateOps, BatchOps
    <2>2. indexs' \in [Threads -> Seq(Nat)]
      BY <1>2, <2>1, SortedFacts DEF RdLockTable, Sort
    <2>3. QED
      BY <1>2, <2>2 DEF RdLockTable, Sort, RdLocked, RwLocks, Labels
  <1>3. CASE SortRead(t)
    <2>1. cmd[t] \in Commands /\ cmd[t].op \in BatchOps
      BY <1>3 DEF SortRead, IInv, LoopInv, BatchOps
    <2>2. indexs' \in [Threads -> Seq(Nat)]
      BY <1>3, <2>1, SortedFacts DEF SortRead, Sort
    <2>3. QED
      BY <1>3, <2>2 DEF SortRead, Sort, locks, Labels
  <1>4. CASE LockList(t)
    <2>1. /\ pc[t] = "lists"
          /\ indexs' = [indexs EXCEPT ![t] = Deduplicated(t)]
          /\ UNCHANGED <<store, tableLock, cmd, out, ok, left, committed>>
      BY <1>4 DEF LockList
    <2>2. indexs' \in [Threads -> Seq(Nat)]
      BY <2>1, DedupFacts
    <2>3. ind' \in [Threads -> Nat] /\ pc' \in [Threads -> Labels]
      BY <1>4 DEF LockList, Labels
    <2>4. listLock' \in [Lists -> RwLocks(Threads)]
      <3>1. ASSUME NEW l \in Lists PROVE ListLocked(t, l) \in RwLocks(Threads)
        BY DEF ListLocked, RdLocked, WrLocked, RwLocks
      <3>2. QED
        BY <1>4, <3>1 DEF LockList
    <2>5. QED
      BY <2>1, <2>2, <2>3, <2>4
  <1>5. CASE WritePair(t)
    <2>1. store' \in [Keys -> Values \cup {Absent}]
      BY <1>5, CurrentFacts DEF WritePair, CurrentIndex, CurrentKey
    <2>2. QED
      BY <1>5, <2>1 DEF WritePair, NextPair, Commit, locks, Labels
  <1>6. CASE ReadPair(t)
    <2>1. CurrentKey(t) \in Keys
      BY <1>6, CurrentFacts DEF ReadPair, CurrentIndex, CurrentKey
    <2>2. out' \in [Threads -> SUBSET (Keys \X (Values \cup {Absent}))]
      BY <1>6, <2>1 DEF ReadPair
    <2>3. ok' \in [Threads -> BOOLEAN]
      BY <1>6 DEF ReadPair, Close
    <2>4. QED
      BY <1>6, <2>2, <2>3 DEF ReadPair, NextPair, Commit, locks, Labels
  <1>7. CASE DeletePair(t)
    <2>1. CurrentKey(t) \in Keys
      BY <1>7, CurrentFacts DEF DeletePair, CurrentIndex, CurrentKey
    <2>2. /\ store' \in [Keys -> Values \cup {Absent}]
          /\ out' \in [Threads -> SUBSET (Keys \X (Values \cup {Absent}))]
      BY <1>7, <2>1 DEF DeletePair
    <2>3. ok' \in [Threads -> BOOLEAN]
      BY <1>7 DEF DeletePair, Close
    <2>4. QED
      BY <1>7, <2>2, <2>3 DEF DeletePair, NextPair, Commit, locks, Labels
  <1>8. CASE LineFails(t)
    BY <1>8 DEF LineFails, Commit, locks, Labels
  <1>9. CASE UnlockList(t)
    <2>1. listLock' \in [Lists -> RwLocks(Threads)]
      BY <1>9 DEF UnlockList, Unlocked, HeldLists, RwLocks
    <2>2. QED
      BY <1>9, <2>1 DEF UnlockList, local
  <1>10. CASE Return(t)
    <2>1. tableLock' \in RwLocks(Threads)
      BY <1>10 DEF Return, Unlocked, RwLocks
    <2>2. QED
      BY <1>10, <2>1 DEF Return, Labels
  <1>11. CASE WrLockTable(t)
    BY <1>11 DEF WrLockTable, WrLocked, RwLocks, Labels
  <1>12. CASE ShowList(t)
    <2>1. out' \in [Threads -> SUBSET (Keys \X (Values \cup {Absent}))]
      BY <1>12 DEF ShowList, Lines
    <2>2. ind[t] \in Nat
      OBVIOUS
    <2>3. QED
      BY <1>12, <2>1, <2>2 DEF ShowList, locks, Labels
  <1>13. CASE ShowFails(t) \/ OpenFails(t)
    BY <1>13 DEF ShowFails, OpenFails, locks, Labels
  <1>14. CASE Fork(t)
    BY <1>14 DEF Fork, Lines, locks, Labels
  <1>15. CASE ForkFails(t)
    BY <1>15 DEF ForkFails, locks, Labels
  <1>16. QED
    BY <1>1, <1>2, <1>3, <1>4, <1>5, <1>6, <1>7, <1>8, <1>9, <1>10, <1>11,
       <1>12, <1>13, <1>14, <1>15 DEF Step

(* A step of one thread leaves the local state and the locks of the others. *)
LEMMA OthersFacts ==
  ASSUME IInv, NEW t \in Threads, Step(t), NEW u \in Threads, u # t
  PROVE  /\ pc'[u] = pc[u] /\ cmd'[u] = cmd[u]
         /\ indexs'[u] = indexs[u] /\ ind'[u] = ind[u]
         /\ \A l \in Lists : /\ u \in listLock'[l].writer <=> u \in listLock[l].writer
                             /\ u \in listLock'[l].readers <=> u \in listLock[l].readers
         /\ u \in tableLock'.writer <=> u \in tableLock.writer
         /\ u \in tableLock'.readers <=> u \in tableLock.readers
  <1>0. Types
    BY DEF IInv
  <1>1. pc'[u] = pc[u] /\ cmd'[u] = cmd[u] /\ indexs'[u] = indexs[u] /\ ind'[u] = ind[u]
    BY <1>0 DEF Types, Step, Begin, RdLockTable, SortRead, Sort, LockList, WritePair,
       ReadPair, DeletePair, NextPair, LineFails, UnlockList, Return, WrLockTable,
       ShowList, ShowFails, OpenFails, Fork, ForkFails, local
  <1>2. /\ u \in tableLock'.writer <=> u \in tableLock.writer
        /\ u \in tableLock'.readers <=> u \in tableLock.readers
    <2>1. CASE RdLockTable(t)
      BY <1>0, <2>1 DEF Types, RwLocks, RdLockTable, RdLocked
    <2>2. CASE WrLockTable(t)
      BY <1>0, <2>2 DEF Types, RwLocks, WrLockTable, WrLocked
    <2>3. CASE Return(t)
      BY <1>0, <2>3 DEF Types, RwLocks, Return, Unlocked
    <2>4. CASE UNCHANGED tableLock
      BY <2>4
    <2>5. QED
      BY <2>1, <2>2, <2>3, <2>4 DEF Step, Begin, SortRead, LockList, WritePair,
         ReadPair, DeletePair, LineFails, UnlockList, ShowList, ShowFails, OpenFails, Fork,
         ForkFails, locks
  <1>3. ASSUME NEW l \in Lists
        PROVE  /\ u \in listLock'[l].writer <=> u \in listLock[l].writer
               /\ u \in listLock'[l].readers <=> u \in listLock[l].readers
    <2>1. CASE LockList(t)
      BY <1>0, <2>1 DEF Types, RwLocks, LockList, ListLocked, RdLocked, WrLocked
    <2>2. CASE UnlockList(t)
      BY <1>0, <2>2 DEF Types, RwLocks, UnlockList, Unlocked, HeldLists
    <2>3. CASE UNCHANGED listLock
      BY <2>3
    <2>4. QED
      BY <2>1, <2>2, <2>3 DEF Step, Begin, RdLockTable, SortRead, WritePair,
         ReadPair, DeletePair, LineFails, Return, WrLockTable, ShowList, ShowFails, OpenFails,
         Fork, ForkFails, locks
  <1>4. QED
    BY <1>1, <1>2, <1>3

(* Steps that leave the batch: afterwards the loop invariants say nothing. *)
LEMMA OutOfLoopFacts ==
  ASSUME IInv, NEW t \in Threads,
         \/ LineFails(t) \/ UnlockList(t) \/ Return(t) \/ WrLockTable(t)
         \/ ShowList(t) \/ ShowFails(t) \/ OpenFails(t) \/ Fork(t) \/ ForkFails(t)
  PROVE  pc'[t] \notin {"rdtable", "sort", "lists", "pairs"}
  BY DEF IInv, Types, LineFails, UnlockList, Return, WrLockTable, ShowList, ShowFails, OpenFails,
     Fork, ForkFails, local

(* kvs_show starts at the first list and goes on as long as there is one. *)
LEMMA ShowBound ==
  ASSUME Types, NEW t \in Threads,
         \/ LineFails(t) \/ UnlockList(t) \/ Return(t) \/ WrLockTable(t)
         \/ ShowList(t) \/ ShowFails(t) \/ OpenFails(t) \/ Fork(t) \/ ForkFails(t)
  PROVE  pc'[t] = "show" => ind'[t] \in Lists
  <1>1. 0 \in Lists
    BY StoreAssumption DEF Lists
  <1>2. CASE WrLockTable(t)
    BY <1>1, <1>2 DEF Types, WrLockTable
  <1>3. CASE ShowList(t)
    BY <1>3 DEF Types, ShowList
  <1>4. CASE \/ LineFails(t) \/ UnlockList(t) \/ Return(t)
             \/ ShowFails(t) \/ OpenFails(t) \/ Fork(t) \/ ForkFails(t)
    BY <1>4 DEF Types, LineFails, UnlockList, Return, ShowFails, OpenFails, Fork,
       ForkFails, local
  <1>5. QED
    BY <1>2, <1>3, <1>4

(* A round of the loop over the pairs. *)
LEMMA PairStepFacts ==
  ASSUME IInv, NEW t \in Threads, WritePair(t) \/ ReadPair(t) \/ DeletePair(t)
  PROVE  /\ pc[t] = "pairs" /\ pc'[t] \in {"pairs", "unlock"}
         /\ ind[t] < Count(t) <=> pc'[t] = "pairs"
         /\ ind'[t] = ind[t] + 1
         /\ UNCHANGED <<cmd, indexs, listLock, tableLock>>
  BY DEF IInv, Types, WritePair, ReadPair, DeletePair, NextPair, locks

(* The step that sorts the batch and enters the locking loop. *)
LEMMA SortStepFacts ==
  ASSUME IInv, NEW t \in Threads, RdLockTable(t) \/ SortRead(t)
  PROVE  /\ pc'[t] = "lists" /\ ind'[t] = 1
         /\ UNCHANGED <<cmd, listLock>>
         /\ cmd[t] \in Commands /\ cmd[t].op \in BatchOps
         /\ Count(t) \in Nat /\ Count(t) > 0
         /\ indexs'[t] \in [1..Count(t) -> 1..Count(t)]
         /\ \A i, j \in 1..Count(t) : i <= j =>
              Rank[cmd[t].pairs[indexs'[t][i]].key] <= Rank[cmd[t].pairs[indexs'[t][j]].key]
  <1>1. cmd[t] \in Commands /\ cmd[t].op \in BatchOps
    BY DEF IInv, LoopInv, RdLockTable, SortRead, UpdateOps, BatchOps
  <1>2. /\ pc'[t] = "lists" /\ ind'[t] = 1 /\ UNCHANGED <<cmd, listLock>>
        /\ indexs'[t] \in SortedIndexes(cmd[t].pairs)
    BY DEF IInv, Types, RdLockTable, SortRead, Sort, locks
  <1>3. Count(t) \in Nat /\ Count(t) > 0
    BY <1>1, CommandFacts DEF Count
  <1>4. QED
    BY <1>1, <1>2, <1>3, SortedFacts DEF Count

(* Every step keeps the counter of a loop within the batch. *)
LEMMA LoopStep ==
  ASSUME IInv, NEW t \in Threads, Step(t)
  PROVE  LoopInv'
  <1>0. Types /\ LoopInv
    BY DEF IInv
  <1> DEFINE L(u) ==
        /\ pc[u] = "rdtable" => cmd[u] \in Commands /\ cmd[u].op \in UpdateOps
        /\ pc[u] = "sort" => cmd[u] \in Commands /\ cmd[u].op = "READ"
        /\ pc[u] \in {"lists", "pairs"} =>
             /\ cmd[u] \in Commands
             /\ cmd[u].op \in BatchOps
             /\ indexs[u] \in [1..Count(u) -> 0..Count(u)]
             /\ ind[u] \in 1..Count(u)
        /\ pc[u] = "show" => ind[u] \in Lists
  <1>1. ASSUME NEW u \in Threads, u # t PROVE L(u)'
    BY <1>0, <1>1, OthersFacts DEF LoopInv, Count
  <1>2. L(t)'
    <2>1. CASE Begin(t)
      BY <1>0, <2>1 DEF Types, Begin
    <2>2. CASE RdLockTable(t) \/ SortRead(t)
      <3>1. Count(t)' = Count(t)
        BY <2>2, SortStepFacts DEF Count
      <3>2. QED
        BY <2>2, <3>1, SortStepFacts
    <2>3. CASE LockList(t)
      <3>1. /\ pc[t] = "lists" /\ cmd' = cmd /\ Count(t)' = Count(t)
            /\ indexs'[t] = Deduplicated(t)
            /\ ind'[t] = IF ind[t] < Count(t) THEN ind[t] + 1 ELSE 1
            /\ pc'[t] \in {"lists", "pairs"}
        BY <1>0, <2>3 DEF Types, LockList, Count
      <3>2. /\ cmd[t] \in Commands /\ cmd[t].op \in BatchOps
            /\ Count(t) \in Nat /\ ind[t] \in 1..Count(t)
        BY <1>0, <3>1, CurrentFacts DEF LoopInv
      <3>3. indexs'[t] \in [1..Count(t) -> 0..Count(t)]
        BY <3>1, DedupFacts
      <3>4. ind'[t] \in 1..Count(t)
        BY <3>1, <3>2
      <3>5. QED
        BY <3>1, <3>2, <3>3, <3>4
    <2>4. CASE WritePair(t) \/ ReadPair(t) \/ DeletePair(t)
      <3>1. Count(t)' = Count(t) /\ Count(t) \in Nat
        BY <2>4, PairStepFacts, CurrentFacts DEF Count
      <3>2. QED
        BY <1>0, <2>4, <3>1, PairStepFacts, CurrentFacts DEF LoopInv
    <2>5. CASE \/ LineFails(t) \/ UnlockList(t) \/ Return(t) \/ WrLockTable(t)
               \/ ShowList(t) \/ ShowFails(t) \/ OpenFails(t) \/ Fork(t) \/ ForkFails(t)
      <3>1. pc'[t] \notin {"rdtable", "sort", "lists", "pairs"}
        BY <2>5, OutOfLoopFacts
      <3>2. pc'[t] = "show" => ind'[t] \in Lists
        BY <1>0, <2>5, ShowBound
      <3>3. QED
        BY <3>1, <3>2
    <2>6. QED
      BY <2>1, <2>2, <2>3, <2>4, <2>5 DEF Step
  <1>3. QED
    BY <1>1, <1>2 DEF LoopInv

(* What a round of the locking loop does to the thread that runs it. *)
LEMMA LockStepFacts ==
  ASSUME IInv, NEW t \in Threads, LockList(t)
  PROVE  /\ pc[t] = "lists" /\ pc'[t] \in {"lists", "pairs"}
         /\ UNCHANGED <<cmd, tableLock>>
         /\ indexs'[t] = Deduplicated(t)
         /\ pc'[t] = "lists" <=> ind[t] < Count(t)
         /\ ind[t] < Count(t) => ind'[t] = ind[t] + 1
         /\ WantedList(t) \in Lists
         /\ \A l \in HeldLists(t) \cup {WantedList(t)} : l \in HeldLists(t)'
  <1>0. Types
    BY DEF IInv
  <1>1. /\ pc[t] = "lists" /\ pc'[t] \in {"lists", "pairs"}
        /\ UNCHANGED <<cmd, tableLock>>
        /\ indexs'[t] = Deduplicated(t)
        /\ pc'[t] = "lists" <=> ind[t] < Count(t)
        /\ ind[t] < Count(t) => ind'[t] = ind[t] + 1
    BY <1>0 DEF Types, LockList
  <1>2. WantedList(t) \in Lists
    BY <1>1, CurrentFacts, StoreAssumption DEF WantedList, CurrentKey, CurrentIndex
  <1>3. ASSUME NEW l \in HeldLists(t) \cup {WantedList(t)} PROVE l \in HeldLists(t)'
    <2>1. l \in Lists
      BY <1>2 DEF HeldLists
    <2>2. CASE WantedList(t) \in HeldLists(t)
      BY <2>2 DEF LockList, HeldLists
    <2>3. CASE WantedList(t) \notin HeldLists(t)
      <3>1. listLock' = [listLock EXCEPT ![WantedList(t)] = ListLocked(t, WantedList(t))]
        BY <2>3 DEF LockList
      <3>2. Holds(ListLocked(t, WantedList(t)), t)
        BY <1>0, <1>2 DEF Types, RwLocks, ListLocked, RdLocked, WrLocked, Holds
      <3>3. CASE l = WantedList(t)
        BY <1>0, <2>1, <3>1, <3>2, <3>3 DEF Types, HeldLists
      <3>4. CASE l # WantedList(t)
        BY <1>0, <2>1, <3>1, <3>4 DEF Types, HeldLists
      <3>5. QED
        BY <3>3, <3>4
    <2>4. QED
      BY <2>2, <2>3
  <1>4. QED
    BY <1>1, <1>2, <1>3

(* Every step keeps what lies ahead of a locking loop sorted. *)
LEMMA AheadStep ==
  ASSUME IInv, NEW t \in Threads, Step(t)
  PROVE  AheadInv'
  <1>0. Types /\ AheadInv
    BY DEF IInv
  <1> DEFINE A(u) == pc[u] = "lists" =>
        \A i \in ind[u]..Count(u) :
          /\ indexs[u][i] # Skip
          /\ \A j \in i..Count(u) : Rank[KeyAt(u, i)] <= Rank[KeyAt(u, j)]
  <1>1. ASSUME NEW u \in Threads, u # t PROVE A(u)'
    <2>1. /\ pc'[u] = pc[u] /\ indexs'[u] = indexs[u] /\ ind'[u] = ind[u]
          /\ cmd'[u] = cmd[u]
      BY <1>1, OthersFacts
    <2>2. Count(u)' = Count(u) /\ \A i : KeyAt(u, i)' = KeyAt(u, i)
      BY <2>1 DEF Count, KeyAt
    <2>3. A(u)
      BY <1>0 DEF AheadInv
    <2>4. QED
      BY <2>1, <2>2, <2>3
  <1>2. A(t)'
    <2>1. CASE RdLockTable(t) \/ SortRead(t)
      <3>1. Count(t)' = Count(t) /\ Count(t) \in Nat /\ ind'[t] = 1 /\ cmd' = cmd
        BY <2>1, SortStepFacts DEF Count
      <3>2. ASSUME NEW i \in 1..Count(t), NEW j \in i..Count(t)
            PROVE  /\ indexs'[t][i] # Skip
                   /\ Rank[KeyAt(t, i)'] <= Rank[KeyAt(t, j)']
        <4>1. i \in 1..Count(t) /\ j \in 1..Count(t) /\ i <= j
          BY <3>1
        <4>2. indexs'[t][i] \in 1..Count(t)
          BY <2>1, <4>1, SortStepFacts
        <4>3. Rank[cmd[t].pairs[indexs'[t][i]].key] <= Rank[cmd[t].pairs[indexs'[t][j]].key]
          BY <2>1, <4>1, SortStepFacts
        <4>4. /\ KeyAt(t, i)' = cmd[t].pairs[indexs'[t][i]].key
              /\ KeyAt(t, j)' = cmd[t].pairs[indexs'[t][j]].key
          BY <3>1 DEF KeyAt
        <4>5. indexs'[t][i] # Skip
          BY <3>1, <4>2 DEF Skip
        <4>6. QED
          BY <4>3, <4>4, <4>5
      <3>3. QED
        BY <3>1, <3>2
    <2>2. CASE LockList(t)
      <3> SUFFICES ASSUME pc'[t] = "lists", NEW i \in ind'[t]..Count(t),
                          NEW j \in i..Count(t)
                   PROVE  /\ indexs'[t][i] # Skip
                          /\ Rank[KeyAt(t, i)'] <= Rank[KeyAt(t, j)']
        <4>1. Count(t)' = Count(t) /\ pc'[t] = "lists" => Count(t) \in Nat /\ ind'[t] \in Nat
          BY <2>2, LockStepFacts, CurrentFacts DEF Count
        <4>2. QED
          BY <2>2, <4>1, LockStepFacts DEF Count
      <3>1. /\ i \in 1..Count(t) /\ j \in 1..Count(t)
            /\ i \in ind[t]..Count(t) /\ i # ind[t]
            /\ j \in ind[t]..Count(t) /\ j # ind[t]
            /\ pc[t] = "lists"
        BY <2>2, LockStepFacts, CurrentFacts
      <3>2. indexs[t][i] # Skip /\ indexs[t][j] # Skip
            /\ Rank[KeyAt(t, i)] <= Rank[KeyAt(t, j)]
        BY <1>0, <3>1 DEF AheadInv
      <3>3. /\ indexs'[t][i] # Skip /\ KeyAt(t, i)' = KeyAt(t, i)
            /\ indexs'[t][j] # Skip /\ KeyAt(t, j)' = KeyAt(t, j)
        <4>1. cmd' = cmd /\ indexs'[t] = Deduplicated(t)
          BY <2>2, LockStepFacts
        <4>2. ASSUME NEW k \in 1..Count(t), k # ind[t], indexs[t][k] # Skip
              PROVE  indexs'[t][k] # Skip /\ KeyAt(t, k)' = KeyAt(t, k)
          <5>1. Deduplicated(t)[k] # Skip
            BY <3>1, <4>2, DedupFacts
          <5>2. cmd[t].pairs[Deduplicated(t)[k]].key = KeyAt(t, k)
            BY <3>1, <5>1, DedupFacts
          <5>3. QED
            BY <4>1, <5>1, <5>2 DEF KeyAt
        <4>3. QED
          BY <3>1, <3>2, <4>2
      <3>4. QED
        BY <3>2, <3>3
    <2>3. CASE Begin(t)
      BY <1>0, <2>3 DEF Types, Begin
    <2>4. CASE WritePair(t) \/ ReadPair(t) \/ DeletePair(t)
      BY <2>4, PairStepFacts
    <2>5. CASE \/ LineFails(t) \/ UnlockList(t) \/ Return(t) \/ WrLockTable(t)
               \/ ShowList(t) \/ ShowFails(t) \/ OpenFails(t) \/ Fork(t) \/ ForkFails(t)
      <3>1. pc'[t] \notin {"rdtable", "sort", "lists", "pairs"}
        BY <2>5, OutOfLoopFacts
      <3>2. pc'[t] = "show" => ind'[t] \in Lists
        BY <1>0, <2>5, ShowBound
      <3>3. QED
        BY <3>1, <3>2
    <2>6. QED
      BY <2>1, <2>2, <2>3, <2>4, <2>5 DEF Step
  <1>3. QED
    BY <1>1, <1>2 DEF AheadInv

(* Every step keeps the lists of the entries left behind locked. *)
LEMMA CoverStep ==
  ASSUME IInv, NEW t \in Threads, Step(t)
  PROVE  CoverInv'
  <1>0. Types /\ CoverInv
    BY DEF IInv
  <1> DEFINE C(u) ==
        /\ pc[u] = "lists" => \A i \in 1..(ind[u] - 1) :
             indexs[u][i] # Skip => ListOf[KeyAt(u, i)] \in HeldLists(u)
        /\ pc[u] = "pairs" => \A i \in 1..Count(u) :
             indexs[u][i] # Skip => ListOf[KeyAt(u, i)] \in HeldLists(u)
        /\ pc[u] \in {"lists", "pairs"} /\ cmd[u].op # "WRITE" =>
             \A i \in 1..Count(u) : indexs[u][i] # Skip
  <1>1. ASSUME NEW u \in Threads, u # t PROVE C(u)'
    <2>1. HeldLists(u)' = HeldLists(u)
      BY <1>1, OthersFacts DEF HeldLists, Holds
    <2>2. /\ pc'[u] = pc[u] /\ indexs'[u] = indexs[u] /\ ind'[u] = ind[u]
          /\ cmd'[u] = cmd[u]
      BY <1>1, OthersFacts
    <2>3. Count(u)' = Count(u) /\ \A i : KeyAt(u, i)' = KeyAt(u, i)
      BY <2>2 DEF Count, KeyAt
    <2>4. C(u)
      BY <1>0 DEF CoverInv
    <2>5. QED
      BY <2>1, <2>2, <2>3, <2>4
  <1>2. C(t)'
    <2>1. CASE RdLockTable(t) \/ SortRead(t)
      <3>1. pc'[t] = "lists" /\ ind'[t] = 1 /\ Count(t)' = Count(t)
        BY <2>1, SortStepFacts DEF Count
      <3>2. ASSUME NEW i \in 1..Count(t) PROVE indexs'[t][i] # Skip
        BY <2>1, SortStepFacts DEF Skip
      <3>3. QED
        BY <3>1, <3>2
    <2>2. CASE LockList(t)
      <3>1. /\ Count(t)' = Count(t) /\ Count(t) \in Nat /\ ind[t] \in 1..Count(t)
            /\ pc[t] = "lists" /\ cmd' = cmd /\ indexs'[t] = Deduplicated(t)
        BY <2>2, LockStepFacts, CurrentFacts DEF Count
      <3>2. ASSUME NEW i \in 1..Count(t), i <= ind[t], indexs'[t][i] # Skip
            PROVE  ListOf[KeyAt(t, i)'] \in HeldLists(t)'
        <4>1. KeyAt(t, i)' = KeyAt(t, i)
          BY <3>1, <3>2, DedupFacts DEF KeyAt
        <4>2. CASE i = ind[t]
          BY <2>2, <4>1, <4>2, LockStepFacts DEF WantedList, CurrentKey
        <4>3. CASE i # ind[t]
          <5>1. i \in 1..(ind[t] - 1) /\ indexs[t][i] # Skip
            BY <3>1, <3>2, <4>3, DedupFacts
          <5>2. ListOf[KeyAt(t, i)] \in HeldLists(t)
            BY <1>0, <3>1, <5>1 DEF CoverInv
          <5>3. QED
            BY <2>2, <4>1, <5>2, LockStepFacts
        <4>4. QED
          BY <4>2, <4>3
      <3>3. cmd[t].op # "WRITE" => \A i \in 1..Count(t) : indexs'[t][i] # Skip
        BY <1>0, <3>1, DedupFacts DEF CoverInv
      <3>4. CASE pc'[t] = "lists"
        <4>1. ind'[t] = ind[t] + 1 /\ ind[t] < Count(t)
          BY <2>2, <3>4, LockStepFacts
        <4>2. \A i \in 1..(ind'[t] - 1) : i \in 1..Count(t) /\ i <= ind[t]
          BY <3>1, <4>1
        <4>3. QED
          BY <3>1, <3>2, <3>3, <3>4, <4>2
      <3>5. CASE pc'[t] = "pairs"
        <4>1. ind[t] = Count(t)
          BY <2>2, <3>1, <3>5, LockStepFacts
        <4>2. QED
          BY <3>1, <3>2, <3>3, <3>5, <4>1
      <3>6. QED
        BY <2>2, <3>4, <3>5, LockStepFacts
    <2>3. CASE Begin(t)
      BY <1>0, <2>3 DEF Types, Begin
    <2>4. CASE WritePair(t) \/ ReadPair(t) \/ DeletePair(t)
      <3>1. HeldLists(t)' = HeldLists(t) /\ Count(t)' = Count(t)
        BY <2>4, PairStepFacts DEF HeldLists, Count
      <3>2. QED
        BY <1>0, <2>4, <3>1, PairStepFacts DEF CoverInv, KeyAt
    <2>5. CASE \/ LineFails(t) \/ UnlockList(t) \/ Return(t) \/ WrLockTable(t)
               \/ ShowList(t) \/ ShowFails(t) \/ OpenFails(t) \/ Fork(t) \/ ForkFails(t)
      <3>1. pc'[t] \notin {"rdtable", "sort", "lists", "pairs"}
        BY <2>5, OutOfLoopFacts
      <3>2. pc'[t] = "show" => ind'[t] \in Lists
        BY <1>0, <2>5, ShowBound
      <3>3. QED
        BY <3>1, <3>2
    <2>6. QED
      BY <2>1, <2>2, <2>3, <2>4, <2>5 DEF Step
  <1>3. QED
    BY <1>1, <1>2 DEF CoverInv

(* Every step keeps who holds which list lock, and how. *)
LEMMA ListHoldStep ==
  ASSUME IInv, NEW t \in Threads, Step(t)
  PROVE  ListHoldInv'
  <1>0. Types /\ ListHoldInv
    BY DEF IInv
  <1> SUFFICES ASSUME NEW l \in Lists
               PROVE  /\ LockOK(listLock'[l])
                      /\ \A u \in listLock'[l].writer :
                           pc'[u] \in {"lists", "pairs", "unlock"} /\ cmd'[u].op \in UpdateOps
                      /\ \A u \in listLock'[l].readers :
                           pc'[u] \in {"lists", "pairs", "unlock"} /\ cmd'[u].op = "READ"
    BY DEF ListHoldInv, LockOK
  <1>1. /\ LockOK(listLock[l]) /\ listLock[l] \in RwLocks(Threads)
        /\ \A u \in listLock[l].writer :
             pc[u] \in {"lists", "pairs", "unlock"} /\ cmd[u].op \in UpdateOps
        /\ \A u \in listLock[l].readers :
             pc[u] \in {"lists", "pairs", "unlock"} /\ cmd[u].op = "READ"
        /\ listLock'[l].writer \subseteq Threads /\ listLock'[l].readers \subseteq Threads
    BY <1>0, TypeStep DEF ListHoldInv, Types, RwLocks
  <1>2. ASSUME NEW u \in Threads, u # t
        PROVE  /\ u \in listLock'[l].writer =>
                    pc'[u] \in {"lists", "pairs", "unlock"} /\ cmd'[u].op \in UpdateOps
               /\ u \in listLock'[l].readers =>
                    pc'[u] \in {"lists", "pairs", "unlock"} /\ cmd'[u].op = "READ"
    BY <1>1, <1>2, OthersFacts
  <1>3. /\ LockOK(listLock'[l])
        /\ t \in listLock'[l].writer =>
             pc'[t] \in {"lists", "pairs", "unlock"} /\ cmd'[t].op \in UpdateOps
        /\ t \in listLock'[l].readers =>
             pc'[t] \in {"lists", "pairs", "unlock"} /\ cmd'[t].op = "READ"
    <2>1. CASE LockList(t)
      <3>1. /\ pc'[t] \in {"lists", "pairs"} /\ cmd' = cmd
            /\ cmd[t].op \in BatchOps /\ WantedList(t) \in Lists
        BY <1>0, <2>1, LockStepFacts DEF IInv, LoopInv
      <3>2. CASE listLock'[l] = listLock[l]
        BY <1>1, <3>1, <3>2
      <3>3. CASE /\ l = WantedList(t) /\ l \notin HeldLists(t)
                 /\ listLock'[l] = ListLocked(t, l)
        <4>1. CanLockList(t, l)
          BY <2>1, <3>3 DEF LockList
        <4>2. CASE cmd[t].op = "READ"
          BY <1>1, <3>1, <3>3, <4>1, <4>2
             DEF CanLockList, ListLocked, CanRdLock, RdLocked, LockOK, RwLocks
        <4>3. CASE cmd[t].op # "READ"
          BY <1>1, <3>1, <3>3, <4>1, <4>3
             DEF CanLockList, ListLocked, CanWrLock, WrLocked, LockOK, RwLocks,
                 BatchOps, UpdateOps
        <4>4. QED
          BY <4>2, <4>3
      <3>4. QED
        BY <1>0, <2>1, <3>1, <3>2, <3>3 DEF LockList, Types
    <2>2. CASE UnlockList(t)
      <3>1. pc' = pc /\ cmd' = cmd
        BY <2>2 DEF UnlockList, local
      <3>2. listLock'[l] = listLock[l] \/ listLock'[l] = Unlocked(listLock[l], t)
        BY <1>0, <2>2 DEF UnlockList, HeldLists, Types
      <3>3. QED
        BY <1>1, <3>1, <3>2 DEF Unlocked, LockOK, RwLocks
    <2>3. CASE WritePair(t) \/ ReadPair(t) \/ DeletePair(t)
      BY <1>1, <2>3, PairStepFacts
    <2>4. CASE LineFails(t)
      BY <1>0, <1>1, <2>4 DEF LineFails, locks, Types
    <2>5. CASE Return(t)
      <3>1. t \notin listLock[l].writer /\ t \notin listLock[l].readers
        BY <2>5 DEF Return, HeldLists, Holds
      <3>2. QED
        BY <1>1, <2>5, <3>1 DEF Return
    <2>6. CASE Begin(t) \/ RdLockTable(t) \/ SortRead(t) \/ WrLockTable(t)
               \/ ShowList(t) \/ ShowFails(t) \/ OpenFails(t) \/ Fork(t) \/ ForkFails(t)
      <3>1. pc[t] \notin {"lists", "pairs", "unlock"} /\ listLock' = listLock
        BY <2>6 DEF Begin, RdLockTable, SortRead, WrLockTable, ShowList, ShowFails, OpenFails,
           Fork, ForkFails, locks
      <3>2. QED
        BY <1>1, <3>1
    <2>7. QED
      BY <2>1, <2>2, <2>3, <2>4, <2>5, <2>6 DEF Step
  <1>4. QED
    BY <1>1, <1>2, <1>3

(* Every step keeps who holds the table lock, and how. *)
LEMMA TableHoldStep ==
  ASSUME IInv, NEW t \in Threads, Step(t)
  PROVE  TableHoldInv'
  <1>0. Types /\ TableHoldInv /\ tableLock \in RwLocks(Threads)
    BY DEF IInv, Types
  <1> DEFINE H(u) ==
        /\ u \in tableLock.writer => pc[u] \in {"show", "fork", "unlock"}
        /\ u \in tableLock.readers => pc[u] \in {"lists", "pairs", "unlock"}
        /\ pc[u] \in {"show", "fork"} => u \in tableLock.writer
        /\ pc[u] \in {"lists", "pairs"} /\ cmd[u].op \in UpdateOps => u \in tableLock.readers
  <1>1. /\ H(t) /\ LockOK(tableLock)
    BY <1>0 DEF TableHoldInv
  <1>2. ASSUME NEW u \in Threads, u # t PROVE H(u)'
    BY <1>0, <1>2, OthersFacts DEF TableHoldInv
  <1>3. LockOK(tableLock)' /\ H(t)'
    <2>1. CASE RdLockTable(t)
      <3>1. pc'[t] = "lists" /\ pc[t] = "rdtable"
        BY <2>1, SortStepFacts DEF RdLockTable
      <3>2. QED
        BY <1>0, <1>1, <2>1, <3>1 DEF RdLockTable, CanRdLock, RdLocked, RwLocks, LockOK
    <2>2. CASE WrLockTable(t)
      <3>1. pc'[t] \in {"show", "fork"} /\ pc[t] = "wrtable"
        BY <1>0, <2>2 DEF WrLockTable, Types
      <3>2. QED
        BY <1>0, <1>1, <2>2, <3>1 DEF WrLockTable, CanWrLock, WrLocked, RwLocks, LockOK
    <2>3. CASE Return(t)
      <3>1. pc'[t] = "idle"
        BY <1>0, <2>3 DEF Return, Types
      <3>2. QED
        BY <1>0, <1>1, <2>3, <3>1 DEF Return, Unlocked, RwLocks, LockOK
    <2>4. CASE SortRead(t)
      <3>1. pc'[t] = "lists" /\ pc[t] = "sort" /\ cmd' = cmd /\ cmd[t].op = "READ"
        BY <2>4, SortStepFacts DEF SortRead, IInv, LoopInv
      <3>2. QED
        BY <1>1, <2>4, <3>1 DEF SortRead, locks, LockOK, UpdateOps
    <2>5. CASE LockList(t)
      BY <1>1, <2>5, LockStepFacts DEF LockOK
    <2>6. CASE WritePair(t) \/ ReadPair(t) \/ DeletePair(t)
      BY <1>1, <2>6, PairStepFacts DEF LockOK
    <2>7. CASE LineFails(t) \/ UnlockList(t) \/ ShowList(t) \/ ShowFails(t) \/ OpenFails(t)
               \/ Fork(t) \/ ForkFails(t)
      <3>1. /\ tableLock' = tableLock
            /\ pc'[t] # pc[t] => pc'[t] = "unlock" /\ pc[t] \in {"sort", "pairs", "show", "fork"}
            /\ cmd' = cmd
        BY <1>0, <2>7 DEF LineFails, UnlockList, ShowList, ShowFails, OpenFails, Fork, ForkFails,
           Types, locks, local
      <3>2. QED
        BY <1>1, <3>1 DEF LockOK
    <2>8. CASE Begin(t)
      <3>1. /\ pc[t] = "idle" /\ pc'[t] \in {"rdtable", "sort", "wrtable"}
            /\ tableLock' = tableLock
        BY <1>0, <2>8 DEF Begin, Types, locks
      <3>2. QED
        BY <1>1, <3>1 DEF LockOK
    <2>9. QED
      BY <2>1, <2>2, <2>3, <2>4, <2>5, <2>6, <2>7, <2>8 DEF Step
  <1>4. tableLock'.writer \subseteq Threads /\ tableLock'.readers \subseteq Threads
    BY TypeStep DEF Types, RwLocks
  <1>5. QED
    BY <1>2, <1>3, <1>4 DEF TableHoldInv

(* The contents differ from the committed ones only in lists that a batch
   that is applying its pairs has write-locked. *)
LEMMA CommitStep ==
  ASSUME IInv, NEW t \in Threads, Step(t)
  PROVE  CommitInv'
  <1>0. Types /\ CommitInv /\ ListHoldInv
    BY DEF IInv
  <1> SUFFICES ASSUME NEW k \in Keys, store'[k] # committed'[k]
               PROVE  \E u \in Threads : pc'[u] = "pairs" /\ u \in listLock'[ListOf[k]].writer
    BY DEF CommitInv
  <1>1. ListOf[k] \in Lists
    BY StoreAssumption
  <1>2. ASSUME NEW u \in Threads, u # t, pc[u] = "pairs", u \in listLock[ListOf[k]].writer
        PROVE  pc'[u] = "pairs" /\ u \in listLock'[ListOf[k]].writer
    BY <1>1, <1>2, OthersFacts
  <1>3. CASE pc[t] # "pairs"
    <2>1. store' = store /\ committed' = committed
      BY <1>3 DEF Step, Begin, RdLockTable, SortRead, LockList, WritePair, ReadPair,
         DeletePair, LineFails, UnlockList, Return, WrLockTable, ShowList, ShowFails, OpenFails,
         Fork, ForkFails
    <2>2. QED
      BY <1>0, <1>2, <1>3, <2>1 DEF CommitInv
  <1>4. CASE pc[t] = "pairs"
    <2>1. CASE ListOf[k] \in HeldLists(t)
      (* t goes on with the batch, and k is in a list it holds *)
      <3>1. committed' # Commit(t)
        BY <2>1 DEF Commit
      <3>2. /\ WritePair(t) \/ ReadPair(t) \/ DeletePair(t)
            /\ pc'[t] = "pairs" /\ committed' = committed /\ listLock' = listLock
        BY <1>0, <1>4, <3>1 DEF Step, Begin, RdLockTable, SortRead, LockList, WritePair,
           ReadPair, DeletePair, NextPair, LineFails, UnlockList, Return, WrLockTable,
           ShowList, ShowFails, OpenFails, Fork, ForkFails, Types, locks
      <3>3. CASE ReadPair(t)
        <4>1. store' = store
          BY <3>3 DEF ReadPair
        <4>2. QED
          BY <1>0, <1>2, <3>2, <4>1 DEF CommitInv
      <3>4. CASE WritePair(t) \/ DeletePair(t)
        <4>1. t \in listLock[ListOf[k]].writer
          BY <1>0, <2>1, <3>4 DEF HeldLists, Holds, ListHoldInv, WritePair, DeletePair
        <4>2. QED
          BY <3>2, <4>1
      <3>5. QED
        BY <3>2, <3>3, <3>4
    <2>2. CASE ListOf[k] \notin HeldLists(t)
      (* the step leaves k alone *)
      <3>1. /\ WritePair(t) \/ ReadPair(t) \/ DeletePair(t) \/ LineFails(t)
            /\ committed'[k] = committed[k] \/ committed'[k] = store'[k]
        BY <1>0, <1>4, <2>2 DEF Step, Begin, RdLockTable, SortRead, LockList, WritePair,
           ReadPair, DeletePair, NextPair, LineFails, UnlockList, Return, WrLockTable,
           ShowList, ShowFails, OpenFails, Fork, ForkFails, Types, Commit
      <3>2. CurrentIndex(t) # Skip => k # CurrentKey(t)
        <4>1. CurrentIndex(t) # Skip => ListOf[CurrentKey(t)] \in HeldLists(t)
          BY <1>4, CurrentFacts DEF IInv, CoverInv, CurrentIndex, CurrentKey
        <4>2. QED
          BY <2>2, <4>1
      <3>3. store'[k] = store[k]
        <4>1. CASE WritePair(t)
          BY <1>0, <3>2, <4>1 DEF WritePair, Types
        <4>2. CASE DeletePair(t)
          <5>1. CurrentIndex(t) # Skip
            BY <1>4, <4>2, CurrentFacts DEF DeletePair
          <5>2. QED
            BY <1>0, <3>2, <4>2, <5>1 DEF DeletePair, Types
        <4>3. CASE ReadPair(t) \/ LineFails(t)
          BY <4>3 DEF ReadPair, LineFails
        <4>4. QED
          BY <3>1, <4>1, <4>2, <4>3
      <3>4. PICK u \in Threads : pc[u] = "pairs" /\ u \in listLock[ListOf[k]].writer
        BY <1>0, <3>1, <3>3 DEF CommitInv
      <3>5. u # t
        BY <1>1, <2>2, <3>4 DEF HeldLists, Holds
      <3>6. QED
        BY <1>2, <3>4, <3>5
    <2>3. QED
      BY <2>1, <2>2
  <1>5. QED
    BY <1>3, <1>4

(* A step that changes nothing keeps the invariant. *)
LEMMA StutterStep == IInv /\ UNCHANGED vars => IInv'
  <1> SUFFICES ASSUME IInv, UNCHANGED vars PROVE IInv'
    OBVIOUS
  <1> USE DEF vars, locks, local
  <1>1. Types' /\ LoopInv'
    BY DEF IInv, Types, LoopInv, Count
  <1>2. AheadInv'
    BY DEF IInv, AheadInv, Count, KeyAt
  <1>3. CoverInv'
    BY DEF IInv, CoverInv, Count, KeyAt, HeldLists
  <1>4. ListHoldInv' /\ TableHoldInv' /\ CommitInv'
    BY DEF IInv, ListHoldInv, TableHoldInv, CommitInv, LockOK
  <1>5. QED
    BY <1>1, <1>2, <1>3, <1>4 DEF IInv

(* The invariant is inductive. *)
LEMMA NextStep == IInv /\ [Next]_vars => IInv'
  <1> SUFFICES ASSUME IInv, [Next]_vars PROVE IInv'
    OBVIOUS
  <1>1. CASE UNCHANGED vars
    BY <1>1, StutterStep
  <1>2. CASE Next
    <2>1. PICK t \in Threads : Step(t)
      BY <1>2 DEF Next
    <2>2. QED
      BY <2>1, TypeStep, LoopStep, AheadStep, CoverStep, ListHoldStep, TableHoldStep,
         CommitStep DEF IInv
  <1>3. QED
    BY <1>1, <1>2

(* The inductive invariant holds of the bodies of kvs_write, kvs_read,     *)
(* kvs_delete, kvs_show and do_fork under any interleaving of any number   *)
(* of job threads: which locks are held at each label, and which lists the *)
(* array of a batch covers.                                                *)
THEOREM Invariance == Spec => []IInv
  BY InitInv, NextStep, PTL DEF Spec

(* Every variable keeps its type, and no round of the loops of kvs_write,  *)
(* kvs_read, kvs_delete and kvs_show reads outside the batch or the table: *)
(* neither the counter nor, where the code does not test for it, an entry  *)
(* that was struck out leads there.                                        *)
THEOREM TypeCorrect == Spec => []TypeOK
  <1>1. ASSUME IInv, NEW t \in Threads, pc[t] \in {"lists", "pairs"}
        PROVE  CurrentIndex(t) = Skip => pc[t] = "pairs" /\ cmd[t].op = "WRITE"
    <2>1. Count(t) \in Nat /\ ind[t] \in 1..Count(t)
      BY <1>1, CurrentFacts DEF IInv, LoopInv
    <2>2. CASE pc[t] = "lists"
      <3>1. ind[t] \in ind[t]..Count(t)
        BY <2>1
      <3>2. QED
        BY <1>1, <2>2, <3>1 DEF IInv, AheadInv, CurrentIndex
    <2>3. CASE pc[t] = "pairs"
      BY <1>1, <2>1, <2>3 DEF IInv, CoverInv, CurrentIndex
    <2>4. QED
      BY <1>1, <2>2, <2>3
  <1>2. IInv => LoopsInBounds
    BY <1>1 DEF IInv, LoopInv, LoopsInBounds
  <1>3. IInv => TypeOK
    BY <1>2 DEF IInv, TypeOK
  <1>4. QED
    BY <1>3, Invariance, PTL

(* However a command ended, also by an error path of kvs_read, kvs_delete  *)
(* or kvs_show, its thread has released every lock it took.                *)
THEOREM NothingHeldWhenIdle == Spec => []IdleHoldsNothing
  <1>1. IInv => IdleHoldsNothing
    BY DEF IInv, IdleHoldsNothing, ListHoldInv, TableHoldInv, HeldLists, Holds
  <1>2. QED
    BY <1>1, Invariance, PTL

(* What a batch that reads, and whoever has the table, finds is committed. *)
LEMMA WholeBatches == IInv => NoTornBatch
  <1> SUFFICES ASSUME IInv, NEW t \in Threads
               PROVE  /\ pc[t] = "pairs" /\ cmd[t].op = "READ" =>
                           \A i \in 1..Count(t) :
                             store[KeyAt(t, i)] = committed[KeyAt(t, i)]
                      /\ pc[t] \in {"show", "fork"} => store = committed
    BY DEF NoTornBatch
  <1>1. ASSUME pc[t] = "pairs", cmd[t].op = "READ", NEW i \in 1..Count(t)
        PROVE  store[KeyAt(t, i)] = committed[KeyAt(t, i)]
    <2>1. /\ KeyAt(t, i) \in Keys /\ ListOf[KeyAt(t, i)] \in HeldLists(t)
      BY <1>1, CurrentFacts DEF IInv, CoverInv
    <2>2. t \in listLock[ListOf[KeyAt(t, i)]].readers
      BY <1>1, <2>1 DEF IInv, ListHoldInv, HeldLists, Holds, UpdateOps
    <2>3. listLock[ListOf[KeyAt(t, i)]].writer = {}
      BY <2>1, <2>2 DEF IInv, ListHoldInv, LockOK, HeldLists
    <2>4. QED
      BY <2>1, <2>3 DEF IInv, CommitInv
  <1>2. ASSUME pc[t] \in {"show", "fork"} PROVE store = committed
    <2>1. tableLock.readers = {}
      BY <1>2 DEF IInv, TableHoldInv, LockOK
    <2>2. ASSUME NEW k \in Keys, store[k] # committed[k] PROVE FALSE
      <3>1. PICK u \in Threads : pc[u] = "pairs" /\ u \in listLock[ListOf[k]].writer
        BY <2>2 DEF IInv, CommitInv
      <3>2. ListOf[k] \in Lists
        BY StoreAssumption
      <3>3. cmd[u].op \in UpdateOps
        BY <3>1, <3>2 DEF IInv, ListHoldInv
      <3>4. QED
        BY <2>1, <3>1, <3>3 DEF IInv, TableHoldInv
    <2>3. QED
      BY <2>2 DEF IInv, Types
  <1>3. QED
    BY <1>1, <1>2

(* A READ, under list locks alone, and a SHOW or backup, under the table   *)
(* lock alone, never see part of a WRITE or DELETE of several keys.        *)
THEOREM BatchesAreNotTorn == Spec => []NoTornBatch
  BY WholeBatches, Invariance, PTL
-----------------------------------------------------------------------------
(* Where the key order agrees with the list order, the locking loop climbs *)
(* through the lists, and no circle of waiting threads can close.          *)

ClimbInv ==
  \A t \in Threads : pc[t] = "lists" => \A l \in HeldLists(t) : l <= WantedList(t)

(* A batch locks its lists from the lowest to the highest. *)
LEMMA ClimbStep ==
  ASSUME OrderAgrees, IInv, ClimbInv, NEW t \in Threads, Step(t)
  PROVE  ClimbInv'
  <1>0. Types
    BY DEF IInv
  <1> SUFFICES ASSUME NEW u \in Threads, pc'[u] = "lists", NEW l \in HeldLists(u)'
               PROVE  l <= WantedList(u)'
    BY DEF ClimbInv
  <1>1. CASE u # t
    <2>1. HeldLists(u)' = HeldLists(u)
      BY <1>1, OthersFacts DEF HeldLists, Holds
    <2>2. pc[u] = "lists" /\ WantedList(u)' = WantedList(u)
      BY <1>1, OthersFacts DEF WantedList, CurrentKey, KeyAt
    <2>3. QED
      BY <2>1, <2>2 DEF ClimbInv
  <1>2. CASE u = t
    <2>1. CASE RdLockTable(t) \/ SortRead(t)
      <3>1. HeldLists(t)' = {}
        BY <2>1, SortStepFacts DEF RdLockTable, SortRead, IInv, ListHoldInv, HeldLists, Holds
      <3>2. QED
        BY <1>2, <3>1
    <2>2. CASE LockList(t)
      <3>1. /\ ind[t] \in 1..Count(t) /\ Count(t) \in Nat /\ ind[t] < Count(t)
            /\ ind'[t] = ind[t] + 1 /\ pc[t] = "lists" /\ cmd' = cmd
            /\ indexs'[t] = Deduplicated(t)
        BY <1>2, <2>2, LockStepFacts, CurrentFacts
      <3> DEFINE n == ind[t] + 1
      <3>2. n \in 1..Count(t) /\ n # ind[t] /\ ind[t] \in ind[t]..Count(t)
            /\ n \in ind[t]..Count(t)
        BY <3>1
      <3>3. /\ indexs[t][n] # Skip /\ indexs[t][ind[t]] # Skip
            /\ Rank[KeyAt(t, ind[t])] <= Rank[KeyAt(t, n)]
        BY <3>1, <3>2 DEF IInv, AheadInv
      <3>4. cmd'[t].pairs[indexs'[t][n]].key = KeyAt(t, n)
        <4>1. Deduplicated(t)[n] # Skip
          BY <3>1, <3>2, <3>3, DedupFacts
        <4>2. QED
          BY <3>1, <3>2, <4>1, DedupFacts
      <3>5. KeyAt(t, n) \in Keys /\ KeyAt(t, ind[t]) \in Keys
        BY <3>1, <3>2, <3>3, CurrentFacts
      <3>6. ListOf[KeyAt(t, ind[t])] <= ListOf[KeyAt(t, n)]
        BY <3>3, <3>5 DEF OrderAgrees
      <3>7. WantedList(t)' = ListOf[KeyAt(t, n)] /\ WantedList(t) = ListOf[KeyAt(t, ind[t])]
        <4>1. CurrentKey(t)' = cmd'[t].pairs[indexs'[t][n]].key
          BY <3>1 DEF CurrentKey, KeyAt
        <4>2. QED
          BY <3>4, <4>1 DEF WantedList, CurrentKey
      <3>8. l \in HeldLists(t) \/ l = WantedList(t)
        BY <1>0, <1>2, <2>2 DEF LockList, Types, HeldLists
      <3>9. l \in Nat /\ WantedList(t) \in Nat /\ WantedList(t)' \in Nat
        BY <3>5, <3>7, StoreAssumption DEF HeldLists, Lists
      <3>10. l <= WantedList(t)
        BY <3>1, <3>8, <3>9 DEF ClimbInv
      <3>11. QED
        BY <1>2, <3>6, <3>7, <3>9, <3>10
    <2>3. CASE ~RdLockTable(t) /\ ~SortRead(t) /\ ~LockList(t)
      <3>1. pc'[t] # "lists"
        BY <1>0, <2>3, PairStepFacts, OutOfLoopFacts DEF Step, Begin, Types
      <3>2. QED
        BY <1>2, <3>1
    <2>4. QED
      BY <2>1, <2>2, <2>3
  <1>3. QED
    BY <1>1, <1>2

(* A non-empty set of numbers up to n has a highest one. *)
LEMMA HighestNumber ==
  ASSUME NEW n \in Nat, NEW S \in SUBSET (0..n), S # {}
  PROVE  \E l \in S : \A m \in S : m <= l
  <1> DEFINE T == {n - l : l \in S}
             R == OpToRel(<, Nat)
  <1>0. \A l \in S : l \in Nat /\ n - l \in Nat
    OBVIOUS
  <1>1. T \subseteq Nat /\ T # {}
    BY <1>0
  <1>2. PICK x \in T : \A y \in T : <<y, x>> \notin R
    <2> HIDE DEF T, R
    <2>1. IsWellFoundedOn(R, Nat)
      BY NatLessThanWellFounded DEF R
    <2>2. QED
      BY <1>1, <2>1, WFMin
  <1>3. \A y \in T : ~(y < x)
    BY <1>1, <1>2 DEF OpToRel
  <1>4. PICK l \in S : x = n - l
    OBVIOUS
  <1>5. \A m \in S : m <= l
    <2>1. SUFFICES ASSUME NEW m \in S PROVE m <= l
      OBVIOUS
    <2>2. ~(n - m < n - l)
      BY <1>3, <1>4
    <2>3. m \in Nat /\ l \in Nat
      BY <1>0
    <2> HIDE DEF T, R
    <2>4. QED
      BY <2>2, <2>3
  <1>6. QED
    BY <1>5

(* A non-empty set of lists has a highest one. *)
LEMMA HighestList ==
  ASSUME NEW S \in SUBSET Lists, S # {}
  PROVE  \E l \in S : \A m \in S : m <= l
  <1>1. TableSize - 1 \in Nat /\ S \in SUBSET (0..(TableSize - 1))
    BY StoreAssumption DEF Lists
  <1>2. QED
    BY <1>1, HighestNumber

(* The locks held and wanted leave in every group of threads one that no
   other of the group holds up. *)
LEMMA NoCircle ==
  ASSUME IInv, ClimbInv
  PROVE  NoCircularWait
  <1> SUFFICES ASSUME NEW S \in SUBSET Threads, S # {}
               PROVE  \E t \in S : \A u \in S : ~WaitsFor(t, u)
    BY DEF NoCircularWait
  <1>1. CASE \E t \in S : pc[t] \notin {"rdtable", "wrtable", "lists"}
    BY <1>1 DEF WaitsFor
  <1>2. CASE \E t \in S : pc[t] = "lists" /\ WantedList(t) \in HeldLists(t)
    BY <1>2 DEF WaitsFor
  <1>3. CASE /\ \A t \in S : pc[t] \in {"rdtable", "wrtable"}
    BY <1>3 DEF WaitsFor, IInv, TableHoldInv, Holds
  <1>4. CASE /\ \A t \in S : pc[t] \in {"rdtable", "wrtable", "lists"}
             /\ \A t \in S : pc[t] = "lists" => WantedList(t) \notin HeldLists(t)
             /\ \E t \in S : pc[t] = "lists"
    <2> DEFINE Wanted == {WantedList(t) : t \in {u \in S : pc[u] = "lists"}}
    <2>1. \A t \in S : pc[t] = "lists" => WantedList(t) \in Lists
      BY CurrentFacts, StoreAssumption DEF WantedList, CurrentKey, CurrentIndex
    <2>2. Wanted \in SUBSET Lists /\ Wanted # {}
      BY <1>4, <2>1
    <2>3. PICK l \in Wanted : \A m \in Wanted : m <= l
      BY <2>2, HighestList
    <2>4. PICK t \in S : pc[t] = "lists" /\ l = WantedList(t)
      BY <2>3
    <2>5. ASSUME NEW u \in S, WaitsFor(t, u) PROVE FALSE
      <3>1. l \in Lists /\ (u \in listLock[l].writer \/ u \in listLock[l].readers)
        BY <2>1, <2>4, <2>5 DEF WaitsFor
      <3>2. pc[u] = "lists" /\ l \in HeldLists(u)
        BY <1>4, <3>1 DEF IInv, ListHoldInv, HeldLists, Holds
      <3>3. l <= WantedList(u) /\ WantedList(u) <= l
        BY <2>3, <3>2 DEF ClimbInv
      <3>4. l \in Nat /\ WantedList(u) \in Nat
        BY <2>1, <3>1, <3>2, StoreAssumption DEF Lists
      <3>5. WantedList(u) \in HeldLists(u)
        BY <3>2, <3>3, <3>4
      <3>6. QED
        BY <1>4, <3>2, <3>5
    <2>6. QED
      BY <2>5
  <1>5. QED
    BY <1>1, <1>2, <1>3, <1>4

(* When the order of strcasecmp on the keys agrees with the order of their *)
(* lists, no set of job threads wait for one another in a circle, whatever *)
(* their batches.  hash() and strcasecmp agree on letters, and on digits,  *)
(* but not on both together (run store_mixed).                             *)
THEOREM NoDeadlock == OrderAgrees => (Spec => []NoCircularWait)
  <1> SUFFICES ASSUME OrderAgrees PROVE Spec => []NoCircularWait
    OBVIOUS
  <1>1. Init => IInv /\ ClimbInv
    BY InitInv DEF Init, ClimbInv
  <1>2. IInv /\ ClimbInv /\ [Next]_vars => (IInv /\ ClimbInv)'
    <2> SUFFICES ASSUME IInv, ClimbInv, [Next]_vars PROVE ClimbInv'
      BY NextStep
    <2>1. CASE UNCHANGED vars
      BY <2>1 DEF vars, locks, local, ClimbInv, HeldLists, WantedList, CurrentKey, KeyAt
    <2>2. CASE Next
      BY <2>2, ClimbStep DEF Next
    <2>3. QED
      BY <2>1, <2>2
  <1>3. IInv /\ ClimbInv => NoCircularWait
    BY NoCircle
  <1>4. QED
    BY <1>1, <1>2, <1>3, PTL DEF Spec
-----------------------------------------------------------------------------
(* The refinement of AtomicStore *)

(* What is answered, and which command is served, at each label.           *)
LabelInv ==
  \A t \in Threads :
    /\ pc[t] # "unlock" => ok[t]
    /\ pc[t] \notin {"pairs", "show", "unlock"} => out[t] = {}
    /\ pc[t] = "wrtable" => cmd[t] \in Commands /\ cmd[t].op \in {"SHOW", "BACKUP"}
    /\ pc[t] = "show" => cmd[t].op = "SHOW" /\ ind[t] \in Lists
    /\ pc[t] = "fork" => cmd[t].op = "BACKUP"

(* The array of positions is the sorted one, b, but for the entries that    *)
(* were struck out because the next one has the same key.                   *)
Sorted(t, b) ==
  \A i \in 1..Count(t) :
    \/ indexs[t][i] = b[i]
    \/ /\ indexs[t][i] = Skip
       /\ cmd[t].op = "WRITE"
       /\ i < Count(t)
       /\ pc[t] = "lists" => i < ind[t]
       /\ cmd[t].pairs[b[i]].key = cmd[t].pairs[b[i + 1]].key

SortInv ==
  \A t \in Threads : pc[t] \in {"lists", "pairs"} =>
    \E b \in SortedIndexes(cmd[t].pairs) : Sorted(t, b)

(* What the loops over the pairs have made, after the rounds past, of the  *)
(* contents s and of the answer lines.                                     *)
Past(t) == 1..(ind[t] - 1)

Visited(t, i, k) == indexs[t][i] # Skip /\ KeyAt(t, i) = k

(* kvs_write: the last round for a key has left its value.                 *)
Written(t, past, s, k) ==
  /\ (\A i \in past : ~Visited(t, i, k)) => s[k] = committed[k]
  /\ \A i \in past :
       Visited(t, i, k) /\ (\A j \in past : Visited(t, j, k) => j <= i) =>
         s[k] = cmd[t].pairs[indexs[t][i]].val

(* kvs_delete: the keys so far are gone, and the answer names those that   *)
(* were missing or came twice.                                             *)
Deleted(t, past, s, k) ==
  IF \E i \in past : KeyAt(t, i) = k THEN s[k] = Absent ELSE s[k] = committed[k]

Missed(t, i) ==
  \/ committed[KeyAt(t, i)] = Absent
  \/ \E j \in 1..(i - 1) : KeyAt(t, j) = KeyAt(t, i)

DeleteLines(t, past, lines) ==
  \A line : line \in lines <=>
    \E i \in past : Missed(t, i) /\ line = <<KeyAt(t, i), Absent>>

(* kvs_read: the values are those of the last completed command.           *)
ReadLines(t, past, lines) ==
  \A line : line \in lines <=>
    \E i \in past : line = <<KeyAt(t, i), committed[KeyAt(t, i)]>>

(* kvs_show: the lists below n are printed.                                *)
ShowLines(n, lines) ==
  \A line : line \in lines <=>
    \E k \in Keys : ListOf[k] < n /\ committed[k] # Absent /\ line = <<k, committed[k]>>

(* How far thread t is with its command.                                   *)
Progress(t) ==
  /\ pc[t] = "pairs" /\ cmd[t].op = "WRITE" =>
       /\ out[t] = {}
       /\ \A k \in Keys : ListOf[k] \in HeldLists(t) => Written(t, Past(t), store, k)
  /\ pc[t] = "pairs" /\ cmd[t].op = "DELETE" =>
       /\ DeleteLines(t, Past(t), out[t])
       /\ \A k \in Keys : ListOf[k] \in HeldLists(t) => Deleted(t, Past(t), store, k)
  /\ pc[t] = "pairs" /\ cmd[t].op = "READ" => ReadLines(t, Past(t), out[t])
  /\ pc[t] = "show" => ShowLines(ind[t], out[t])

ProgressInv == \A t \in Threads : Progress(t)

RInv == IInv /\ LabelInv /\ SortInv /\ ProgressInv
-----------------------------------------------------------------------------
(* The sorted positions of a batch are a permutation of its positions, in  *)
(* which the pairs of one key keep their order.                            *)
LEMMA SortedPositions ==
  ASSUME NEW c \in Commands, c.op \in BatchOps, NEW b \in SortedIndexes(c.pairs)
  PROVE  /\ Len(c.pairs) \in Nat /\ b \in [1..Len(c.pairs) -> 1..Len(c.pairs)]
         /\ \A i, j \in 1..Len(c.pairs) :
              i < j /\ c.pairs[b[i]].key = c.pairs[b[j]].key => b[i] < b[j]
         /\ \A p \in 1..Len(c.pairs) : \E i \in 1..Len(c.pairs) : b[i] = p
  <1> DEFINE n == Len(c.pairs)
             used == {b[i] : i \in 1..n}
  <1>1. n \in Nat /\ b \in [1..n -> 1..n]
    BY CommandFacts, SortedFacts
  <1>2. \A i \in 1..n : Rank[c.pairs[b[i]].key] \in Nat
    <2>1. \A i \in 1..n : c.pairs[b[i]].key \in Keys
      BY <1>1, CommandFacts
    <2>2. QED
      BY <2>1, StoreAssumption
  <1>3. \A i, j \in 1..n : i < j =>
          \/ Rank[c.pairs[b[i]].key] < Rank[c.pairs[b[j]].key]
          \/ b[i] < b[j]
    BY DEF SortedIndexes
  <1>4. \A i, j \in 1..n : i < j /\ c.pairs[b[i]].key = c.pairs[b[j]].key => b[i] < b[j]
    BY <1>2, <1>3
  <1>5. \A i, j \in 1..n : i < j => b[i] # b[j]
    <2> SUFFICES ASSUME NEW i \in 1..n, NEW j \in 1..n, i < j, b[i] = b[j] PROVE FALSE
      OBVIOUS
    <2>1. b[i] \in Nat
      BY <1>1
    <2>2. Rank[c.pairs[b[i]].key] < Rank[c.pairs[b[i]].key] \/ b[i] < b[i]
      BY <1>3
    <2>3. Rank[c.pairs[b[i]].key] \in Nat
      BY <1>2
    <2>4. QED
      BY <2>1, <2>2, <2>3
  <1> HIDE DEF n
  <1>6. \A i, j \in 1..n : b[i] = b[j] => i = j
    BY <1>1, <1>5
  <1>7. b \in Bijection(1..n, used)
    <2>1. b \in [1..n -> used] /\ \A x \in used : \E i \in 1..n : b[i] = x
      BY <1>1
    <2>2. QED
      BY <1>6, <2>1 DEF Bijection, Injection, Surjection, IsInjective
  <1>8. IsFiniteSet(1..n)
    BY <1>1, FS_Interval
  <1>9. used = 1..n
    <2>1. used \in SUBSET (1..n)
      BY <1>1
    <2>2. Cardinality(used) = Cardinality(1..n)
      BY <1>7, <1>8, FS_Bijection DEF ExistsBijection
    <2>3. QED
      BY <1>8, <2>1, <2>2, FS_Subset
  <1>10. \A p \in 1..n : \E i \in 1..n : b[i] = p
    BY <1>9
  <1>11. QED
    BY <1>1, <1>4, <1>10 DEF n

(* The contents of a key change only while an update that has locked its   *)
(* list goes through its pairs, and are committed by its last round.       *)
LEMMA ContentsFrame ==
  ASSUME IInv, NEW t \in Threads, Step(t), NEW k \in Keys,
         store'[k] # store[k] \/ committed'[k] # committed[k]
  PROVE  pc[t] = "pairs" /\ cmd[t].op \in UpdateOps /\ t \in listLock[ListOf[k]].writer
  <1>0. Types /\ CommitInv /\ ListHoldInv /\ ListOf[k] \in Lists
    BY StoreAssumption DEF IInv
  <1>1. pc[t] = "pairs"
    BY DEF Step, Begin, RdLockTable, SortRead, LockList, WritePair, ReadPair,
       DeletePair, LineFails, UnlockList, Return, WrLockTable, ShowList, ShowFails, OpenFails,
       Fork, ForkFails
  <1>2. WritePair(t) \/ ReadPair(t) \/ DeletePair(t) \/ LineFails(t)
    BY <1>1 DEF Step, Begin, RdLockTable, SortRead, LockList,
       UnlockList, Return, WrLockTable, ShowList, ShowFails, OpenFails, Fork, ForkFails
  <1>3. ListOf[k] \in HeldLists(t)
    <2>1. CurrentIndex(t) # Skip => ListOf[CurrentKey(t)] \in HeldLists(t)
      BY <1>1, CurrentFacts DEF IInv, CoverInv, CurrentIndex, CurrentKey
    <2>2. CASE committed'[k] # committed[k]
      BY <1>0, <1>2, <2>2 DEF WritePair, ReadPair, DeletePair, LineFails, NextPair, Commit, Types
    <2>3. CASE store'[k] # store[k] /\ WritePair(t)
      BY <1>0, <2>1, <2>3 DEF WritePair, Types
    <2>4. CASE store'[k] # store[k] /\ DeletePair(t)
      <3>1. CurrentIndex(t) # Skip
        BY <1>1, <2>4, CurrentFacts DEF DeletePair
      <3>2. QED
        BY <1>0, <2>1, <2>4, <3>1 DEF DeletePair, Types
    <2>5. QED
      BY <1>2, <2>2, <2>3, <2>4 DEF ReadPair, LineFails
  <1>4. CASE cmd[t].op = "READ"
    <2>1. store' = store /\ (committed' = committed \/ committed' = Commit(t))
      BY <1>2, <1>4 DEF WritePair, ReadPair, DeletePair, LineFails, NextPair
    <2>2. committed'[k] = store[k] /\ store[k] # committed[k]
      BY <1>0, <1>3, <2>1 DEF Commit
    <2>3. PICK u \in Threads : u \in listLock[ListOf[k]].writer
      BY <1>0, <2>2 DEF CommitInv
    <2>4. t \in listLock[ListOf[k]].readers
      BY <1>0, <1>3, <1>4 DEF HeldLists, Holds, ListHoldInv, UpdateOps
    <2>5. QED
      BY <1>0, <2>3, <2>4 DEF ListHoldInv, LockOK
  <1>5. CASE cmd[t].op # "READ"
    <2>1. cmd[t].op \in UpdateOps
      BY <1>2, <1>5 DEF WritePair, ReadPair, DeletePair, LineFails, UpdateOps
    <2>2. t \in listLock[ListOf[k]].writer
      BY <1>0, <1>3, <1>5 DEF HeldLists, Holds, ListHoldInv, UpdateOps
    <2>3. QED
      BY <1>1, <2>1, <2>2
  <1>6. QED
    BY <1>4, <1>5

(* So nobody else changes a key whose list a thread holds, nor any key     *)
(* while a thread that prints the whole table holds its lock.              *)
LEMMA ContentsKept ==
  ASSUME IInv, NEW t \in Threads, Step(t), NEW u \in Threads, u # t, NEW k \in Keys,
         ListOf[k] \in HeldLists(u) \/ pc[u] \in {"show", "fork"}
  PROVE  store'[k] = store[k] /\ committed'[k] = committed[k]
  <1> SUFFICES ASSUME store'[k] # store[k] \/ committed'[k] # committed[k] PROVE FALSE
    OBVIOUS
  <1>1. pc[t] = "pairs" /\ cmd[t].op \in UpdateOps /\ t \in listLock[ListOf[k]].writer
    BY ContentsFrame
  <1>2. ListOf[k] \in Lists /\ ListHoldInv /\ TableHoldInv
    BY StoreAssumption DEF IInv
  <1>3. CASE ListOf[k] \in HeldLists(u)
    BY <1>1, <1>2, <1>3 DEF HeldLists, Holds, ListHoldInv, LockOK
  <1>4. CASE pc[u] \in {"show", "fork"}
    BY <1>1, <1>2, <1>4 DEF TableHoldInv, LockOK
  <1>5. QED
    BY <1>3, <1>4

(* What the other threads are at is not touched by a step of t. *)
LEMMA OthersKept ==
  ASSUME IInv, NEW t \in Threads, Step(t), NEW u \in Threads, u # t
  PROVE  /\ pc'[u] = pc[u] /\ cmd'[u] = cmd[u] /\ indexs'[u] = indexs[u] /\ ind'[u] = ind[u]
         /\ out'[u] = out[u] /\ ok'[u] = ok[u] /\ HeldLists(u)' = HeldLists(u)
  <1>1. out'[u] = out[u] /\ ok'[u] = ok[u]
    BY DEF IInv, Types, Step, Begin, RdLockTable, SortRead, LockList, WritePair, ReadPair,
       DeletePair, Close, LineFails, UnlockList, Return, WrLockTable, ShowList, ShowFails,
       OpenFails, Fork, ForkFails, local
  <1>2. HeldLists(u)' = HeldLists(u)
    BY OthersFacts DEF HeldLists, Holds
  <1>3. QED
    BY <1>1, <1>2, OthersFacts
(* Nothing is served and nothing answered when the server starts. *)
LEMMA RInit == Init => RInv
  <1> SUFFICES ASSUME Init PROVE RInv
    OBVIOUS
  <1>1. LabelInv /\ SortInv /\ ProgressInv
    BY DEF Init, LabelInv, SortInv, ProgressInv, Progress
  <1>2. QED
    BY <1>1, InitInv DEF RInv

(* Every way to a label answers nothing but what was printed there. *)
LEMMA LabelStep ==
  ASSUME IInv, LabelInv, NEW t \in Threads, Step(t)
  PROVE  LabelInv'
  <1> DEFINE L(u) ==
        /\ pc[u] # "unlock" => ok[u]
        /\ pc[u] \notin {"pairs", "show", "unlock"} => out[u] = {}
        /\ pc[u] = "wrtable" => cmd[u] \in Commands /\ cmd[u].op \in {"SHOW", "BACKUP"}
        /\ pc[u] = "show" => cmd[u].op = "SHOW" /\ ind[u] \in Lists
        /\ pc[u] = "fork" => cmd[u].op = "BACKUP"
  <1>1. Types /\ L(t)
    BY DEF IInv, LabelInv
  <1>2. ASSUME NEW u \in Threads, u # t
        PROVE  L(u)'
    BY <1>2, OthersKept DEF LabelInv
  <1>3. L(t)'
    <2>1. CASE Begin(t)
      <3>1. \A c \in Commands : c.op \in Ops
        BY CommandFacts
      <3>2. QED
        BY <1>1, <2>1, <3>1 DEF Begin, Types, Ops, UpdateOps
    <2>2. CASE RdLockTable(t) \/ SortRead(t) \/ LockList(t)
      <3>1. pc'[t] \in {"lists", "pairs"} /\ ok'[t] = ok[t] /\ out'[t] = out[t]
        BY <1>1, <2>2 DEF RdLockTable, SortRead, Sort, LockList, Types
      <3>2. ok[t] /\ out[t] = {}
        BY <1>1, <2>2 DEF RdLockTable, SortRead, LockList
      <3>3. QED
        BY <3>1, <3>2
    <2>3. CASE WritePair(t) \/ ReadPair(t) \/ DeletePair(t)
      <3>1. /\ pc[t] = "pairs" /\ pc'[t] \in {"pairs", "unlock"}
            /\ ind[t] < Count(t) <=> pc'[t] = "pairs"
        BY <2>3, PairStepFacts
      <3>2. ind[t] < Count(t) => ok'[t] = ok[t]
        BY <1>1, <2>3 DEF WritePair, ReadPair, DeletePair, Close
      <3>3. QED
        BY <1>1, <3>1, <3>2
    <2>4. CASE LineFails(t) \/ OpenFails(t) \/ ShowFails(t) \/ Fork(t) \/ ForkFails(t)
      BY <1>1, <2>4 DEF LineFails, OpenFails, ShowFails, Fork, ForkFails, Types
    <2>5. CASE UnlockList(t) \/ Return(t)
      BY <1>1, <2>5 DEF UnlockList, Return, local, Types
    <2>6. CASE WrLockTable(t)
      <3>1. 0 \in Lists
        BY StoreAssumption DEF Lists
      <3>2. QED
        BY <1>1, <2>6, <3>1 DEF WrLockTable, Types
    <2>7. CASE ShowList(t)
      BY <1>1, <2>7 DEF ShowList, Types
    <2>8. QED
      BY <2>1, <2>2, <2>3, <2>4, <2>5, <2>6, <2>7 DEF Step
  <1>4. QED
    BY <1>2, <1>3 DEF LabelInv

(* A round of the locking loop strikes out the entry of a key that comes   *)
(* again, and keeps the sorted position of the other.                      *)
LEMMA DedupSorted ==
  ASSUME IInv, NEW t \in Threads, LockList(t),
         NEW b \in SortedIndexes(cmd[t].pairs), Sorted(t, b)
  PROVE  Sorted(t, b)'
  <1> DEFINE i == ind[t]
             n == Count(t)
             c == cmd[t]
  <1>1. /\ pc[t] = "lists" /\ c \in Commands /\ c.op \in BatchOps
        /\ n \in Nat /\ i \in 1..n /\ indexs[t] \in [1..n -> 0..n]
    BY CurrentFacts DEF LockList, IInv, LoopInv
  <1>2. /\ b \in [1..n -> 1..n]
        /\ \A x, y \in 1..n : x < y /\ c.pairs[b[x]].key = c.pairs[b[y]].key => b[x] < b[y]
    BY <1>1, SortedPositions DEF Count
  <1>3. /\ indexs'[t] = Deduplicated(t) /\ cmd' = cmd
        /\ pc'[t] = "lists" <=> i < n
        /\ i < n => ind'[t] = i + 1
    BY LockStepFacts
  <1>4. \A x \in i..n : indexs[t][x] = b[x]
    BY <1>1 DEF Sorted
  <1>5. CASE c.op = "WRITE" /\ i < n /\ c.pairs[b[i + 1]].key = c.pairs[b[i]].key
    <2>1. indexs[t][i] = b[i] /\ indexs[t][i + 1] = b[i + 1] /\ i + 1 \in 1..n
      BY <1>1, <1>4, <1>5
    <2>2. b[i] < b[i + 1] /\ b[i] \in Nat /\ b[i + 1] \in Nat
      BY <1>1, <1>2, <1>5, <2>1, SMTT(30)
    <2>3. indexs'[t] = [indexs[t] EXCEPT ![i] = Skip, ![i + 1] = b[i + 1]]
      BY <1>3, <1>5, <2>1, <2>2 DEF Deduplicated, CurrentKey, KeyAt
    <2>4. /\ indexs'[t][i] = Skip
          /\ \A x \in 1..n : x # i => indexs'[t][x] = indexs[t][x]
      BY <1>1, <2>1, <2>3
    <2>5. ASSUME NEW x \in 1..n
          PROVE  \/ indexs'[t][x] = b[x]
                 \/ /\ indexs'[t][x] = Skip /\ c.op = "WRITE" /\ x < n
                    /\ x < i + 1
                    /\ c.pairs[b[x]].key = c.pairs[b[x + 1]].key
      BY <1>1, <1>5, <2>4 DEF Sorted
    <2>6. QED
      BY <1>3, <1>5, <2>5 DEF Sorted, Count
  <1>6. CASE ~(c.op = "WRITE" /\ i < n /\ c.pairs[b[i + 1]].key = c.pairs[b[i]].key)
    <2>1. indexs'[t] = indexs[t]
      <3>1. indexs[t][i] = b[i] /\ (i < n => indexs[t][i + 1] = b[i + 1])
        BY <1>1, <1>4
      <3>2. QED
        BY <1>3, <1>6, <3>1 DEF Deduplicated, CurrentKey, KeyAt
    <2>2. \A x \in 1..n : x < i => x < i + 1
      BY <1>1
    <2>3. QED
      BY <1>1, <1>3, <2>1, <2>2 DEF Sorted, Count
  <1>7. QED
    BY <1>5, <1>6

(* The arrays of all batches stay sorted. *)
LEMMA SortedStep ==
  ASSUME IInv, SortInv, NEW t \in Threads, Step(t)
  PROVE  SortInv'
  <1> SUFFICES ASSUME NEW u \in Threads, pc'[u] \in {"lists", "pairs"}
               PROVE  \E b \in SortedIndexes(cmd'[u].pairs) : Sorted(u, b)'
    BY DEF SortInv, SortedIndexes
  <1>1. CASE u # t
    <2>1. /\ pc'[u] = pc[u] /\ cmd'[u] = cmd[u] /\ indexs'[u] = indexs[u]
          /\ ind'[u] = ind[u]
      BY <1>1, OthersKept
    <2>2. PICK b \in SortedIndexes(cmd[u].pairs) : Sorted(u, b)
      BY <2>1 DEF SortInv
    <2>3. Sorted(u, b)'
      BY <2>1, <2>2 DEF Sorted, Count
    <2>4. QED
      BY <2>1, <2>3
  <1>2. CASE u = t /\ (RdLockTable(t) \/ SortRead(t))
    <2>1. PICK b \in SortedIndexes(cmd[t].pairs) : indexs' = [indexs EXCEPT ![t] = b]
      BY <1>2 DEF RdLockTable, SortRead, Sort
    <2>2. indexs'[t] = b /\ cmd' = cmd
      BY <1>2, <2>1 DEF IInv, Types, RdLockTable, SortRead
    <2>3. QED
      BY <1>2, <2>2 DEF Sorted
  <1>3. CASE u = t /\ LockList(t)
    <2>1. PICK b \in SortedIndexes(cmd[t].pairs) : Sorted(t, b)
      BY <1>3 DEF SortInv, LockList
    <2>2. Sorted(t, b)' /\ cmd' = cmd
      BY <1>3, <2>1, DedupSorted, LockStepFacts
    <2>3. QED
      BY <1>3, <2>2
  <1>4. CASE u = t /\ (WritePair(t) \/ ReadPair(t) \/ DeletePair(t))
    <2>1. pc[t] = "pairs" /\ pc'[t] \in {"pairs", "unlock"} /\ cmd' = cmd /\ indexs' = indexs
      BY <1>4, PairStepFacts
    <2>2. PICK b \in SortedIndexes(cmd[t].pairs) : Sorted(t, b)
      BY <2>1 DEF SortInv
    <2>3. Sorted(t, b)'
      BY <1>4, <2>1, <2>2 DEF Sorted, Count
    <2>4. QED
      BY <1>4, <2>1, <2>3
  <1>5. CASE u = t /\ Begin(t)
    BY <1>5 DEF Begin, IInv, Types
  <1>6. QED
    BY <1>1, <1>2, <1>3, <1>4, <1>5, OutOfLoopFacts DEF Step
-----------------------------------------------------------------------------
(* The round of a loop over the pairs: where it is, and whose lists are    *)
(* held.                                                                   *)
LEMMA RoundFacts ==
  ASSUME IInv, NEW t \in Threads, pc[t] = "pairs"
  PROVE  /\ Count(t) \in Nat /\ ind[t] \in 1..Count(t)
         /\ Past(t) \subseteq 1..Count(t) /\ 1..ind[t] = Past(t) \cup {ind[t]}
         /\ ind[t] \notin Past(t)
         /\ cmd[t] \in Commands /\ cmd[t].op \in BatchOps
         /\ \A i \in 1..Count(t) : indexs[t][i] # Skip =>
              /\ indexs[t][i] \in 1..Count(t)
              /\ KeyAt(t, i) \in Keys /\ ListOf[KeyAt(t, i)] \in HeldLists(t)
         /\ cmd[t].op # "WRITE" => \A i \in 1..Count(t) : indexs[t][i] # Skip
  <1>1. Count(t) \in Nat /\ ind[t] \in 1..Count(t)
    BY CurrentFacts
  <1>2. /\ Past(t) \subseteq 1..Count(t) /\ 1..ind[t] = Past(t) \cup {ind[t]}
        /\ ind[t] \notin Past(t)
    BY <1>1 DEF Past
  <1>3. QED
    BY <1>1, <1>2, CurrentFacts DEF IInv, LoopInv, CoverInv

(* One more round of kvs_write. *)
LEMMA WriteRound ==
  ASSUME IInv, ProgressInv, NEW t \in Threads, WritePair(t),
         NEW k \in Keys, ListOf[k] \in HeldLists(t)
  PROVE  Written(t, 1..ind[t], store', k)
  <1> DEFINE i == ind[t]
  <1>1. pc[t] = "pairs" /\ cmd[t].op = "WRITE" /\ Written(t, Past(t), store, k)
    BY DEF WritePair, ProgressInv, Progress
  <1>2. i \in Nat /\ 1..i = Past(t) \cup {i} /\ \A j \in Past(t) : j < i
    BY <1>1, RoundFacts DEF Past
  <1>3. CASE Visited(t, i, k)
    <2>1. store'[k] = cmd[t].pairs[indexs[t][i]].val
      BY <1>3 DEF WritePair, Visited, CurrentIndex, CurrentKey, IInv, Types
    <2>2. \A j \in Past(t) : ~(i <= j)
      BY <1>2 DEF Past
    <2>3. QED
      BY <1>2, <1>3, <2>1, <2>2 DEF Written
  <1>4. CASE ~Visited(t, i, k)
    <2>1. store'[k] = store[k]
      BY <1>4 DEF WritePair, Visited, CurrentIndex, CurrentKey, IInv, Types
    <2>2. QED
      BY <1>1, <1>2, <1>4, <2>1 DEF Written
  <1>5. QED
    BY <1>3, <1>4

(* One more round of kvs_delete. *)
LEMMA DeleteRound ==
  ASSUME IInv, ProgressInv, NEW t \in Threads, DeletePair(t)
  PROVE  /\ DeleteLines(t, 1..ind[t], out'[t])
         /\ \A k \in Keys : ListOf[k] \in HeldLists(t) => Deleted(t, 1..ind[t], store', k)
  <1> DEFINE i == ind[t]
             key == KeyAt(t, i)
  <1>1. /\ pc[t] = "pairs" /\ cmd[t].op = "DELETE"
        /\ DeleteLines(t, Past(t), out[t])
        /\ \A k \in Keys : ListOf[k] \in HeldLists(t) => Deleted(t, Past(t), store, k)
    BY DEF DeletePair, ProgressInv, Progress
  <1>2. 1..i = Past(t) \cup {i} /\ key \in Keys /\ ListOf[key] \in HeldLists(t)
    BY <1>1, RoundFacts
  <1>3. /\ store' = [store EXCEPT ![key] = Absent]
        /\ out'[t] = IF store[key] = Absent THEN out[t] \cup {<<key, Absent>>} ELSE out[t]
    BY DEF DeletePair, CurrentKey, IInv, Types
  <1>4. store[key] = Absent <=> Missed(t, i)
    BY <1>1, <1>2 DEF Deleted, Missed, Past
  <1> HIDE DEF key
  <1>5. DeleteLines(t, 1..i, out'[t])
    BY <1>1, <1>2, <1>3, <1>4 DEF DeleteLines, key
  <1>6. ASSUME NEW k \in Keys, ListOf[k] \in HeldLists(t)
        PROVE  Deleted(t, 1..i, store', k)
    <2>1. Deleted(t, Past(t), store, k) /\ store \in [Keys -> Values \cup {Absent}]
      BY <1>1, <1>6 DEF IInv, Types
    <2>2. CASE k = key
      BY <1>2, <1>3, <2>1, <2>2 DEF Deleted, key
    <2>3. CASE k # key
      BY <1>2, <1>3, <2>1, <2>3 DEF Deleted, key
    <2>4. QED
      BY <2>2, <2>3
  <1>7. QED
    BY <1>5, <1>6

(* One more round of kvs_read. *)
LEMMA ReadRound ==
  ASSUME IInv, ProgressInv, NEW t \in Threads, ReadPair(t)
  PROVE  ReadLines(t, 1..ind[t], out'[t])
  <1> DEFINE i == ind[t]
             key == KeyAt(t, i)
  <1>1. pc[t] = "pairs" /\ cmd[t].op = "READ" /\ ReadLines(t, Past(t), out[t])
    BY DEF ReadPair, ProgressInv, Progress
  <1>2. 1..i = Past(t) \cup {i} /\ i \in 1..Count(t)
    BY <1>1, RoundFacts
  <1>3. out'[t] = out[t] \cup {<<key, store[key]>>}
    BY DEF ReadPair, CurrentKey, IInv, Types
  <1>4. store[key] = committed[key]
    BY <1>1, <1>2, WholeBatches DEF NoTornBatch
  <1> HIDE DEF key
  <1>5. QED
    BY <1>1, <1>2, <1>3, <1>4 DEF ReadLines, key

(* One more list of kvs_show. *)
LEMMA ShowRound ==
  ASSUME IInv, ProgressInv, NEW t \in Threads, ShowList(t)
  PROVE  ShowLines(ind[t] + 1, out'[t])
  <1> DEFINE n == ind[t]
  <1>1. pc[t] = "show" /\ n \in Nat /\ ShowLines(n, out[t])
    BY DEF ShowList, ProgressInv, Progress, Lists
  <1>2. store = committed
    BY <1>1, WholeBatches DEF NoTornBatch
  <1>3. out'[t] = out[t] \cup
          {<<k, committed[k]>> : k \in {x \in Keys : ListOf[x] = n /\ committed[x] # Absent}}
    BY <1>2 DEF ShowList, Lines, IInv, Types
  <1>4. \A k \in Keys : ListOf[k] < n + 1 <=> ListOf[k] < n \/ ListOf[k] = n
    <2>1. \A k \in Keys : ListOf[k] \in Nat
      BY StoreAssumption DEF Lists
    <2>2. QED
      BY <1>1, <2>1
  <1>5. QED
    BY <1>1, <1>3, <1>4 DEF ShowLines
(* The steps of t do not touch the progress of another thread. *)
LEMMA OthersProgress ==
  ASSUME IInv, ProgressInv, NEW t \in Threads, Step(t), NEW u \in Threads, u # t
  PROVE  Progress(u)'
  <1>1. /\ pc'[u] = pc[u] /\ cmd'[u] = cmd[u] /\ indexs'[u] = indexs[u] /\ ind'[u] = ind[u]
        /\ out'[u] = out[u] /\ HeldLists(u)' = HeldLists(u)
    BY OthersKept
  <1>2. Progress(u)
    BY DEF ProgressInv
  <1>3. \A i : KeyAt(u, i)' = KeyAt(u, i)
    BY <1>1 DEF KeyAt
  <1>4. Past(u)' = Past(u)
    BY <1>1 DEF Past
  <1>5. \A k \in Keys : ListOf[k] \in HeldLists(u) \/ pc[u] = "show" =>
          store'[k] = store[k] /\ committed'[k] = committed[k]
    BY ContentsKept
  <1>6. ASSUME pc[u] = "pairs", cmd[u].op = "WRITE", NEW k \in Keys, ListOf[k] \in HeldLists(u)
        PROVE  Written(u, Past(u), store, k)'
    <2>1. Written(u, Past(u), store, k)
      BY <1>2, <1>6 DEF Progress
    <2>2. \A i : Visited(u, i, k)' <=> Visited(u, i, k)
      BY <1>1, <1>3 DEF Visited
    <2>3. QED
      BY <1>1, <1>4, <1>5, <1>6, <2>1, <2>2 DEF Written
  <1>7. ASSUME pc[u] = "pairs", cmd[u].op \in {"READ", "DELETE"}
        PROVE  \A i \in Past(u) : committed'[KeyAt(u, i)] = committed[KeyAt(u, i)]
    <2>1. \A i \in Past(u) : KeyAt(u, i) \in Keys /\ ListOf[KeyAt(u, i)] \in HeldLists(u)
      BY <1>7, RoundFacts
    <2>2. QED
      BY <1>5, <2>1
  <1>8. ASSUME pc[u] = "pairs", cmd[u].op = "DELETE"
        PROVE  /\ DeleteLines(u, Past(u), out[u])'
               /\ \A k \in Keys : ListOf[k] \in HeldLists(u) => Deleted(u, Past(u), store, k)'
    <2>1. /\ DeleteLines(u, Past(u), out[u])
          /\ \A k \in Keys : ListOf[k] \in HeldLists(u) => Deleted(u, Past(u), store, k)
      BY <1>2, <1>8 DEF Progress
    <2>2. \A i \in Past(u) : Missed(u, i)' <=> Missed(u, i)
      BY <1>3, <1>7, <1>8 DEF Missed
    <2>3. DeleteLines(u, Past(u), out[u])'
      BY <1>1, <1>3, <1>4, <2>1, <2>2 DEF DeleteLines
    <2>4. \A k \in Keys : ListOf[k] \in HeldLists(u) => Deleted(u, Past(u), store, k)'
      BY <1>3, <1>4, <1>5, <2>1 DEF Deleted
    <2>5. QED
      BY <2>3, <2>4
  <1>9. ASSUME pc[u] = "pairs", cmd[u].op = "READ"
        PROVE  ReadLines(u, Past(u), out[u])'
    <2>1. ReadLines(u, Past(u), out[u])
      BY <1>2, <1>9 DEF Progress
    <2>2. QED
      BY <1>1, <1>3, <1>4, <1>7, <1>9, <2>1 DEF ReadLines
  <1>10. ASSUME pc[u] = "show"
         PROVE  ShowLines(ind[u], out[u])'
    <2>1. ShowLines(ind[u], out[u]) /\ \A k \in Keys : committed'[k] = committed[k]
      BY <1>2, <1>5, <1>10 DEF Progress
    <2>2. QED
      BY <1>1, <2>1 DEF ShowLines
  <1>11. QED
    BY <1>1, <1>2, <1>6, <1>8, <1>9, <1>10 DEF Progress

(* When a batch has its locks, nobody has touched the keys of its lists    *)
(* since the last completed command.                                       *)
LEMMA LocksTaken ==
  ASSUME IInv, IInv', NEW t \in Threads, LockList(t), pc'[t] = "pairs",
         NEW k \in Keys, ListOf[k] \in HeldLists(t)'
  PROVE  store'[k] = committed'[k]
  <1> SUFFICES ASSUME store'[k] # committed'[k] PROVE FALSE
    OBVIOUS
  <1>1. pc[t] = "lists" /\ store' = store /\ committed' = committed /\ Step(t)
    BY DEF LockList, Step
  <1>2. PICK u \in Threads : pc[u] = "pairs" /\ u \in listLock[ListOf[k]].writer
    BY <1>1 DEF IInv, CommitInv
  <1>3. ListOf[k] \in Lists /\ u # t
    BY <1>1, <1>2, StoreAssumption
  <1>4. u \in listLock'[ListOf[k]].writer
    BY <1>1, <1>2, <1>3, OthersFacts
  <1>5. Holds(listLock'[ListOf[k]], t) /\ LockOK(listLock'[ListOf[k]])
    BY <1>3 DEF IInv, ListHoldInv, HeldLists
  <1>6. QED
    BY <1>3, <1>4, <1>5 DEF Holds, LockOK

(* Every step keeps the progress of its thread. *)
LEMMA ProgressStep ==
  ASSUME IInv, IInv', LabelInv, ProgressInv, NEW t \in Threads, Step(t)
  PROVE  ProgressInv'
  <1>1. ASSUME NEW u \in Threads, u # t PROVE Progress(u)'
    BY <1>1, OthersProgress
  <1>2. Progress(t)'
    <2>1. CASE pc'[t] \notin {"pairs", "show"}
      BY <2>1 DEF Progress
    <2>2. CASE pc'[t] = "pairs" /\ LockList(t)
      <3>1. out'[t] = {} /\ Past(t)' = {}
        <4>1. ind[t] \in Nat /\ Count(t) \in Nat /\ out[t] = {}
          BY <2>2, CurrentFacts DEF LockList, LabelInv
        <4>2. ~(ind[t] < Count(t))
          BY <2>2, LockStepFacts
        <4>3. ind'[t] = 1 /\ out'[t] = {}
          BY <2>2, <4>1, <4>2 DEF LockList, IInv, Types
        <4>4. QED
          BY <4>3 DEF Past
      <3>2. \A k \in Keys : ListOf[k] \in HeldLists(t)' => store'[k] = committed'[k]
        BY <2>2, LocksTaken
      <3>3. DeleteLines(t, Past(t), out[t])' /\ ReadLines(t, Past(t), out[t])'
        BY <3>1 DEF DeleteLines, ReadLines
      <3>4. \A k \in Keys : ListOf[k] \in HeldLists(t)' =>
              Written(t, Past(t), store, k)' /\ Deleted(t, Past(t), store, k)'
        BY <3>1, <3>2 DEF Written, Deleted
      <3>5. pc'[t] # "show"
        BY <2>2
      <3>6. QED
        BY <3>1, <3>3, <3>4, <3>5 DEF Progress
    <2>3. CASE pc'[t] = "pairs" /\ (WritePair(t) \/ ReadPair(t) \/ DeletePair(t))
      <3>1. /\ cmd' = cmd /\ indexs' = indexs /\ listLock' = listLock
            /\ ind'[t] = ind[t] + 1 /\ ind[t] < Count(t) /\ pc[t] = "pairs"
        BY <2>3, PairStepFacts
      <3>2. committed' = committed
        BY <2>3, <3>1 DEF WritePair, ReadPair, DeletePair, NextPair
      <3>3. Past(t)' = 1..ind[t] /\ HeldLists(t)' = HeldLists(t)
        <4>1. ind[t] \in Nat
          BY <3>1, CurrentFacts
        <4>2. QED
          BY <3>1, <4>1 DEF Past, HeldLists
      <3>4. CASE WritePair(t)
        <4>1. \A k \in Keys : ListOf[k] \in HeldLists(t) => Written(t, 1..ind[t], store', k)
          BY <3>4, WriteRound
        <4>2. cmd[t].op = "WRITE" /\ out' = out /\ out[t] = {}
          BY <3>4 DEF WritePair, ProgressInv, Progress
        <4>3. \A k \in Keys : ListOf[k] \in HeldLists(t)' => Written(t, Past(t), store, k)'
          BY <3>1, <3>2, <3>3, <4>1 DEF Written, Visited, KeyAt
        <4>4. QED
          BY <2>3, <3>1, <4>2, <4>3 DEF Progress
      <3>5. CASE DeletePair(t)
        <4>1. /\ DeleteLines(t, 1..ind[t], out'[t])
              /\ \A k \in Keys : ListOf[k] \in HeldLists(t) => Deleted(t, 1..ind[t], store', k)
          BY <3>5, DeleteRound
        <4>2. DeleteLines(t, Past(t), out[t])'
          BY <3>1, <3>2, <3>3, <4>1 DEF DeleteLines, Missed, KeyAt
        <4>3. \A k \in Keys : ListOf[k] \in HeldLists(t)' => Deleted(t, Past(t), store, k)'
          BY <3>1, <3>2, <3>3, <4>1 DEF Deleted, KeyAt
        <4>4. cmd[t].op = "DELETE"
          BY <3>5 DEF DeletePair
        <4>5. QED
          BY <2>3, <3>1, <4>2, <4>3, <4>4 DEF Progress
      <3>6. CASE ReadPair(t)
        <4>1. ReadLines(t, 1..ind[t], out'[t])
          BY <3>6, ReadRound
        <4>2. ReadLines(t, Past(t), out[t])'
          BY <3>1, <3>2, <3>3, <4>1 DEF ReadLines, KeyAt
        <4>3. cmd[t].op = "READ"
          BY <3>6 DEF ReadPair
        <4>4. QED
          BY <2>3, <3>1, <4>2, <4>3 DEF Progress
      <3>7. QED
        BY <2>3, <3>4, <3>5, <3>6
    <2>4. CASE pc'[t] = "show" /\ WrLockTable(t)
      <3>1. ind'[t] = 0 /\ out'[t] = {}
        BY <2>4 DEF WrLockTable, LabelInv, IInv, Types
      <3>2. \A k \in Keys : ~(ListOf[k] < 0)
        <4>1. \A k \in Keys : ListOf[k] \in Nat
          BY StoreAssumption DEF Lists
        <4>2. QED
          BY <4>1
      <3>3. ShowLines(ind[t], out[t])'
        BY <3>1, <3>2 DEF ShowLines
      <3>4. pc'[t] # "pairs"
        BY <2>4
      <3>5. QED
        BY <3>3, <3>4 DEF Progress
    <2>5. CASE pc'[t] = "show" /\ ShowList(t)
      <3>1. ind'[t] = ind[t] + 1 /\ committed' = committed
        BY <2>5 DEF ShowList, IInv, Types
      <3>2. ShowLines(ind[t] + 1, out'[t])
        BY <2>5, ShowRound
      <3>3. ShowLines(ind[t], out[t])'
        BY <3>1, <3>2 DEF ShowLines
      <3>4. pc'[t] # "pairs"
        BY <2>5
      <3>5. QED
        BY <3>3, <3>4 DEF Progress
    <2>6. QED
      <3>1. pc'[t] = "pairs" => LockList(t) \/ WritePair(t) \/ ReadPair(t) \/ DeletePair(t)
        BY SortStepFacts, OutOfLoopFacts DEF Step, Begin, IInv, Types
      <3>2. pc'[t] = "show" => WrLockTable(t) \/ ShowList(t)
        BY SortStepFacts, LockStepFacts, PairStepFacts DEF Step, Begin, LineFails, UnlockList,
           Return, ShowFails, OpenFails, Fork, ForkFails, IInv, Types, local
      <3>3. QED
        BY <2>1, <2>2, <2>3, <2>4, <2>5, <3>1, <3>2
  <1>3. QED
    BY <1>1, <1>2 DEF ProgressInv

(* The invariant of the refinement is inductive. *)
LEMMA RStep == RInv /\ [Next]_vars => RInv'
  <1> SUFFICES ASSUME RInv, [Next]_vars PROVE RInv'
    OBVIOUS
  <1>1. IInv /\ IInv' /\ LabelInv /\ SortInv /\ ProgressInv
    BY NextStep DEF RInv
  <1>2. CASE Next
    <2>1. PICK t \in Threads : Step(t)
      BY <1>2 DEF Next
    <2>2. QED
      BY <1>1, <2>1, LabelStep, SortedStep, ProgressStep DEF RInv
  <1>3. CASE UNCHANGED vars
    <2> USE <1>3 DEF vars, locks, local
    <2>1. LabelInv'
      BY <1>1 DEF LabelInv
    <2>2. SortInv'
      BY <1>1 DEF SortInv, Sorted, Count, SortedIndexes
    <2>3. ProgressInv'
      <3>1. ASSUME NEW t \in Threads
            PROVE  /\ Past(t)' = Past(t) /\ HeldLists(t)' = HeldLists(t)
                   /\ \A i : KeyAt(t, i)' = KeyAt(t, i)
                   /\ \A i, k : Visited(t, i, k)' <=> Visited(t, i, k)
                   /\ \A i : Missed(t, i)' <=> Missed(t, i)
        BY DEF Past, HeldLists, KeyAt, Visited, Missed
      <3>2. ASSUME NEW t \in Threads
            PROVE  /\ \A k : Written(t, Past(t), store, k)' <=> Written(t, Past(t), store, k)
                   /\ \A k : Deleted(t, Past(t), store, k)' <=> Deleted(t, Past(t), store, k)
        BY <3>1 DEF Written, Deleted
      <3>3. ASSUME NEW t \in Threads
            PROVE  /\ DeleteLines(t, Past(t), out[t])' <=> DeleteLines(t, Past(t), out[t])
                   /\ ReadLines(t, Past(t), out[t])' <=> ReadLines(t, Past(t), out[t])
                   /\ ShowLines(ind[t], out[t])' <=> ShowLines(ind[t], out[t])
        BY <3>1 DEF DeleteLines, ReadLines, ShowLines
      <3>4. ASSUME NEW t \in Threads
            PROVE  Progress(t)'
        BY <1>1, <3>1, <3>2, <3>3 DEF ProgressInv, Progress
      <3>5. QED
        BY <3>4 DEF ProgressInv
    <2>4. QED
      BY <1>1, <2>1, <2>2, <2>3 DEF RInv
  <1>4. QED
    BY <1>2, <1>3
-----------------------------------------------------------------------------
(* The refinement mapping of KvsStore. *)
Phase == [t \in Threads |-> CASE pc[t] = "idle" -> "idle"
                              [] pc[t] = "unlock" -> "done"
                              [] OTHER -> "pending"]

Reply == [t \in Threads |-> IF pc[t] = "unlock" THEN out[t] ELSE {}]

(* A step of t changes what the mapping tells of t alone. *)
LEMMA MappedStep ==
  ASSUME IInv, IInv', NEW t \in Threads, Step(t)
  PROVE  /\ Phase' = [Phase EXCEPT ![t] = Phase'[t]]
         /\ Reply' = [Reply EXCEPT ![t] = Reply'[t]]
         /\ cmd' = [cmd EXCEPT ![t] = cmd'[t]]
         /\ ok' = [ok EXCEPT ![t] = ok'[t]]
  <1>1. \A u \in Threads \ {t} : /\ pc'[u] = pc[u] /\ out'[u] = out[u]
                                 /\ cmd'[u] = cmd[u] /\ ok'[u] = ok[u]
    BY OthersKept
  <1>2. Phase' = [Phase EXCEPT ![t] = Phase'[t]]
    BY <1>1 DEF Phase
  <1>3. Reply' = [Reply EXCEPT ![t] = Reply'[t]]
    BY <1>1 DEF Reply
  <1>4. cmd' = [cmd EXCEPT ![t] = cmd'[t]]
    BY <1>1 DEF IInv, Types
  <1>5. ok' = [ok EXCEPT ![t] = ok'[t]]
    <2>1. ok \in [Threads -> BOOLEAN] /\ ok' \in [Threads -> BOOLEAN]
      BY DEF IInv, Types
    <2>2. ok' = [u \in Threads |-> IF u = t THEN ok'[t] ELSE ok[u]]
      BY <1>1, <2>1
    <2>3. [ok EXCEPT ![t] = ok'[t]] = [u \in Threads |-> IF u = t THEN ok'[t] ELSE ok[u]]
      BY <2>1
    <2>4. QED
      BY <2>2, <2>3
  <1>6. QED
    BY <1>2, <1>3, <1>4, <1>5

(* The steps that AtomicStore does not see. *)
LEMMA HiddenStep ==
  ASSUME IInv, IInv', NEW t \in Threads, Step(t), Phase'[t] = Phase[t], Reply'[t] = Reply[t],
         committed' = committed, cmd'[t] = cmd[t], ok'[t] = ok[t]
  PROVE  UNCHANGED Abstract!vars
  <1>1. Phase' = Phase /\ Reply' = Reply
    <2>1. Phase' = [Phase EXCEPT ![t] = Phase[t]] /\ Reply' = [Reply EXCEPT ![t] = Reply[t]]
      BY MappedStep
    <2>2. Phase = [Phase EXCEPT ![t] = Phase[t]]
      BY DEF Phase
    <2>3. Reply = [Reply EXCEPT ![t] = Reply[t]]
      BY DEF Reply
    <2>4. QED
      BY <2>1, <2>2, <2>3
  <1>2. cmd' = cmd /\ ok' = ok
    <2>1. cmd' = [cmd EXCEPT ![t] = cmd[t]] /\ ok' = [ok EXCEPT ![t] = ok[t]]
      BY MappedStep
    <2>2. cmd = [cmd EXCEPT ![t] = cmd[t]] /\ ok = [ok EXCEPT ![t] = ok[t]]
      BY Zenon DEF IInv, Types
    <2>3. QED
      BY <2>1, <2>2
  <1>3. QED
    BY <1>1, <1>2 DEF Abstract!vars, Phase, Reply

(* A command comes to its end. *)
LEMMA PerformStep ==
  ASSUME IInv, IInv', NEW t \in Threads, Step(t), pc[t] \notin {"idle", "unlock"},
         pc'[t] = "unlock", cmd' = cmd, ok' = ok,
         committed' = Abstract!Effect(cmd[t], committed),
         out'[t] = Abstract!Answer(cmd[t], committed)
  PROVE  Abstract!Perform(t)
  <1>1. Phase[t] = "pending" /\ Phase'[t] = "done" /\ Reply'[t] = out'[t]
    BY DEF Phase, Reply
  <1>2. Phase' = [Phase EXCEPT ![t] = "done"] /\ Reply' = [Reply EXCEPT ![t] = out'[t]]
    BY <1>1, MappedStep
  <1>3. QED
    BY <1>1, <1>2 DEF Abstract!Perform, Phase, Reply

(* A command stops short. *)
LEMMA StopStep ==
  ASSUME IInv, IInv', NEW t \in Threads, Step(t), pc[t] \notin {"idle", "unlock"},
         pc'[t] = "unlock", cmd' = cmd, ok'[t] = FALSE, cmd[t].op # "WRITE",
         NEW gone \in SUBSET Abstract!KeysOf(cmd[t]), cmd[t].op # "DELETE" => gone = {},
         committed' = [k \in Keys |-> IF k \in gone THEN Absent ELSE committed[k]],
         out'[t] \subseteq Abstract!Answer(cmd[t], committed)
  PROVE  Abstract!StopShort(t)
  <1>1. Phase[t] = "pending" /\ Phase'[t] = "done" /\ Reply'[t] = out'[t]
    BY DEF Phase, Reply
  <1>2. /\ Phase' = [Phase EXCEPT ![t] = "done"] /\ Reply' = [Reply EXCEPT ![t] = out'[t]]
        /\ ok' = [ok EXCEPT ![t] = FALSE]
    <2>1. ok' = [ok EXCEPT ![t] = ok'[t]]
      BY MappedStep
    <2>2. QED
      BY <1>1, <2>1, MappedStep
  <1>3. \E g \in SUBSET Abstract!KeysOf(cmd[t]) :
          /\ cmd[t].op # "DELETE" => g = {}
          /\ committed' = [k \in Keys |-> IF k \in g THEN Absent ELSE committed[k]]
    OBVIOUS
  <1>4. \E lines \in SUBSET Abstract!Answer(cmd[t], committed) :
          Reply' = [Reply EXCEPT ![t] = lines]
    BY <1>2
  <1>5. QED
    BY <1>1, <1>2, <1>3, <1>4 DEF Abstract!StopShort, Phase, Reply

(* The last pair of a key in a batch. *)
LEMMA LastFacts ==
  ASSUME NEW c \in Commands, NEW k \in Abstract!KeysOf(c)
  PROVE  /\ Abstract!LastPosition(c, k) \in 1..Len(c.pairs)
         /\ c.pairs[Abstract!LastPosition(c, k)].key = k
         /\ \A p \in 1..Len(c.pairs) :
              c.pairs[p].key = k => p <= Abstract!LastPosition(c, k)
  <1> DEFINE n == Len(c.pairs)
             S == {p \in 1..n : c.pairs[p].key = k}
  <1>1. n \in Nat
    BY CommandFacts
  <1>2. S \in SUBSET (0..n) /\ S # {}
    BY <1>1 DEF Abstract!KeysOf, Abstract!Positions
  <1> HIDE DEF n
  <1>3. \E p \in S : \A q \in S : q <= p
    BY <1>1, <1>2, HighestNumber
  <1>4. \E p \in 1..n : c.pairs[p].key = k /\ \A q \in 1..n : c.pairs[q].key = k => q <= p
    BY <1>3
  <1>5. QED
    BY <1>4 DEF Abstract!LastPosition, Abstract!Positions, n
(* The rounds of kvs_read and kvs_delete meet every pair of the batch, and *)
(* the pairs of one key in the order of the command.                       *)
LEMMA RoundsMeetAll ==
  ASSUME IInv, SortInv, NEW t \in Threads, pc[t] = "pairs", cmd[t].op # "WRITE"
  PROVE  /\ \A i \in 1..Count(t) : indexs[t][i] \in 1..Count(t)
         /\ \A p \in 1..Count(t) : \E i \in 1..Count(t) : indexs[t][i] = p
         /\ \A i, j \in 1..Count(t) :
              i < j /\ KeyAt(t, i) = KeyAt(t, j) => indexs[t][i] < indexs[t][j]
         /\ \A i \in 1..Count(t) : KeyAt(t, i) \in Abstract!KeysOf(cmd[t])
         /\ \A k \in Abstract!KeysOf(cmd[t]) : \E i \in 1..Count(t) : KeyAt(t, i) = k
  <1>1. PICK b \in SortedIndexes(cmd[t].pairs) : Sorted(t, b)
    BY DEF SortInv
  <1>2. \A i \in 1..Count(t) : indexs[t][i] = b[i]
    BY <1>1 DEF Sorted
  <1>3. /\ b \in [1..Count(t) -> 1..Count(t)]
        /\ \A i, j \in 1..Count(t) :
             i < j /\ cmd[t].pairs[b[i]].key = cmd[t].pairs[b[j]].key => b[i] < b[j]
        /\ \A p \in 1..Count(t) : \E i \in 1..Count(t) : b[i] = p
    BY RoundFacts, SortedPositions DEF Count
  <1>4. /\ \A i \in 1..Count(t) : indexs[t][i] \in 1..Count(t)
        /\ \A p \in 1..Count(t) : \E i \in 1..Count(t) : indexs[t][i] = p
        /\ \A i, j \in 1..Count(t) :
             i < j /\ KeyAt(t, i) = KeyAt(t, j) => indexs[t][i] < indexs[t][j]
    BY <1>2, <1>3 DEF KeyAt
  <1>5. /\ \A i \in 1..Count(t) : KeyAt(t, i) = cmd[t].pairs[indexs[t][i]].key
        /\ Abstract!KeysOf(cmd[t]) = {cmd[t].pairs[p].key : p \in 1..Count(t)}
    BY DEF KeyAt, Abstract!KeysOf, Abstract!Positions, Count
  <1>6. \A i \in 1..Count(t) : KeyAt(t, i) \in Abstract!KeysOf(cmd[t])
    BY <1>4, <1>5
  <1>7. \A k \in Abstract!KeysOf(cmd[t]) : \E i \in 1..Count(t) : KeyAt(t, i) = k
    <2> SUFFICES ASSUME NEW p \in 1..Count(t)
                 PROVE  \E i \in 1..Count(t) : KeyAt(t, i) = cmd[t].pairs[p].key
      BY <1>5
    <2>1. PICK i \in 1..Count(t) : indexs[t][i] = p
      BY <1>4
    <2>2. QED
      BY <1>5, <2>1
  <1>8. QED
    BY <1>4, <1>6, <1>7

(* The lines of kvs_delete are those of AtomicStore. *)
LEMMA DeleteAnswer ==
  ASSUME IInv, SortInv, NEW t \in Threads, pc[t] = "pairs", cmd[t].op = "DELETE", NEW line
  PROVE  line \in Abstract!Answer(cmd[t], committed) <=>
           \E i \in 1..Count(t) : Missed(t, i) /\ line = <<KeyAt(t, i), Absent>>
  <1> DEFINE c == cmd[t]
             n == Count(t)
             Last(k) == Abstract!LastPosition(c, k)
  <1>1. c \in Commands /\ n = Len(c.pairs) /\ n \in Nat
    BY RoundFacts DEF Count
  <1>2. line \in Abstract!Answer(c, committed) <=>
          \E p \in 1..n : /\ \/ committed[c.pairs[p].key] = Absent
                            \/ p # Last(c.pairs[p].key)
                         /\ line = <<c.pairs[p].key, Absent>>
    BY <1>1 DEF Abstract!Answer, Abstract!Positions
  <1>3. /\ \A i \in 1..n : indexs[t][i] \in 1..n
        /\ \A p \in 1..n : \E i \in 1..n : indexs[t][i] = p
        /\ \A i, j \in 1..n : i < j /\ KeyAt(t, i) = KeyAt(t, j) => indexs[t][i] < indexs[t][j]
        /\ \A i \in 1..n : KeyAt(t, i) = c.pairs[indexs[t][i]].key
    BY RoundsMeetAll DEF KeyAt
  <1>4. \A k \in Abstract!KeysOf(c) :
          /\ Last(k) \in 1..n /\ c.pairs[Last(k)].key = k
          /\ \A p \in 1..n : c.pairs[p].key = k => p <= Last(k)
    BY <1>1, LastFacts
  <1>5. \A p \in 1..n : c.pairs[p].key \in Abstract!KeysOf(c)
    BY <1>1 DEF Abstract!KeysOf, Abstract!Positions
  <1> HIDE DEF c, n, Last
  <1>6. ASSUME NEW i \in 1..n, Missed(t, i), line = <<KeyAt(t, i), Absent>>
        PROVE  \E p \in 1..n : /\ \/ committed[c.pairs[p].key] = Absent
                                 \/ p # Last(c.pairs[p].key)
                              /\ line = <<c.pairs[p].key, Absent>>
    <2>1. CASE committed[KeyAt(t, i)] = Absent
      BY <1>3, <1>6, <2>1
    <2>2. ASSUME NEW j \in 1..(i - 1), KeyAt(t, j) = KeyAt(t, i)
          PROVE  indexs[t][j] # Last(KeyAt(t, i))
      <3>1. j \in 1..n /\ j < i
        BY <1>1
      <3>2. /\ indexs[t][j] < indexs[t][i] /\ indexs[t][j] \in Nat /\ indexs[t][i] \in Nat
        BY <1>3, <2>2, <3>1
      <3>3. indexs[t][i] <= Last(KeyAt(t, i))
        BY <1>3, <1>4, <1>5
      <3>4. QED
        BY <3>2, <3>3
    <2>3. ASSUME NEW j \in 1..(i - 1), KeyAt(t, j) = KeyAt(t, i)
          PROVE  \E p \in 1..n : /\ p # Last(c.pairs[p].key)
                                /\ line = <<c.pairs[p].key, Absent>>
      <3>1. j \in 1..n
        BY <1>1
      <3>2. indexs[t][j] \in 1..n /\ c.pairs[indexs[t][j]].key = KeyAt(t, i)
        BY <1>3, <2>3, <3>1
      <3>3. QED
        BY <1>6, <2>2, <2>3, <3>2
    <2>4. QED
      BY <1>6, <2>1, <2>3 DEF Missed
  <1>7. ASSUME NEW p \in 1..n, committed[c.pairs[p].key] = Absent
        PROVE  \E i \in 1..n : Missed(t, i) /\ KeyAt(t, i) = c.pairs[p].key
    BY <1>3, <1>7 DEF Missed
  <1>8. ASSUME NEW p \in 1..n, p # Last(c.pairs[p].key)
        PROVE  \E i \in 1..n : Missed(t, i) /\ KeyAt(t, i) = c.pairs[p].key
    <2> DEFINE k == c.pairs[p].key
    <2>1. Last(k) \in 1..n /\ c.pairs[Last(k)].key = k /\ p < Last(k)
      BY <1>1, <1>4, <1>5, <1>8
    <2>2. PICK i \in 1..n, j \in 1..n : indexs[t][i] = p /\ indexs[t][j] = Last(k)
      BY <1>3, <2>1
    <2>3. KeyAt(t, i) = k /\ KeyAt(t, j) = k
      BY <1>3, <2>1, <2>2
    <2>4. ~(j < i) /\ i # j
      <3>1. j < i => Last(k) < p
        BY <1>3, <2>2, <2>3
      <3>2. QED
        BY <1>1, <2>1, <2>2, <3>1
    <2>5. i \in 1..(j - 1)
      BY <1>1, <2>4
    <2>6. QED
      BY <2>3, <2>5 DEF Missed
  <1>9. QED
    BY <1>2, <1>6, <1>7, <1>8 DEF c, n

(* The lines of kvs_read are those of AtomicStore. *)
LEMMA ReadAnswer ==
  ASSUME IInv, SortInv, NEW t \in Threads, pc[t] = "pairs", cmd[t].op = "READ", NEW line
  PROVE  line \in Abstract!Answer(cmd[t], committed) <=>
           \E i \in 1..Count(t) : line = <<KeyAt(t, i), committed[KeyAt(t, i)]>>
  <1>1. line \in Abstract!Answer(cmd[t], committed) <=>
          \E k \in Abstract!KeysOf(cmd[t]) : line = <<k, committed[k]>>
    BY DEF Abstract!Answer
  <1>2. QED
    BY <1>1, RoundsMeetAll

(* The table after kvs_write is that of AtomicStore. *)
LEMMA WriteEffect ==
  ASSUME IInv, SortInv, ProgressInv, NEW t \in Threads, WritePair(t), ~(ind[t] < Count(t))
  PROVE  committed' = Abstract!Effect(cmd[t], committed)
  <1> DEFINE c == cmd[t]
             n == Count(t)
  <1>1. pc[t] = "pairs" /\ c.op = "WRITE" /\ committed' = Commit(t)
    BY DEF WritePair, NextPair
  <1>2. /\ c \in Commands /\ c.op \in BatchOps /\ n = Len(c.pairs) /\ n \in Nat /\ ind[t] = n
        /\ \A i \in 1..n : indexs[t][i] # Skip => ListOf[KeyAt(t, i)] \in HeldLists(t)
    BY <1>1, RoundFacts DEF Count
  <1>3. PICK b \in SortedIndexes(c.pairs) : Sorted(t, b)
    BY <1>1 DEF SortInv
  <1>4. /\ b \in [1..n -> 1..n]
        /\ \A i, j \in 1..n : i < j /\ c.pairs[b[i]].key = c.pairs[b[j]].key => b[i] < b[j]
        /\ \A p \in 1..n : \E i \in 1..n : b[i] = p
    <2>1. /\ b \in [1..Len(c.pairs) -> 1..Len(c.pairs)]
          /\ \A i, j \in 1..Len(c.pairs) :
               i < j /\ c.pairs[b[i]].key = c.pairs[b[j]].key => b[i] < b[j]
          /\ \A p \in 1..Len(c.pairs) : \E i \in 1..Len(c.pairs) : b[i] = p
      BY <1>2, SortedPositions
    <2>2. QED
      BY <1>2, <2>1
  <1>5. \A i \in 1..n :
          \/ indexs[t][i] = b[i]
          \/ indexs[t][i] = Skip /\ i < n /\ c.pairs[b[i]].key = c.pairs[b[i + 1]].key
    BY <1>3 DEF Sorted
  <1>6. \A i \in 1..n : b[i] # Skip
    BY <1>4 DEF Skip
  <1>7. \A k \in Keys : ListOf[k] \in HeldLists(t) => Written(t, 1..n, store', k)
    BY <1>2, WriteRound
  <1>8. ASSUME NEW k \in Abstract!KeysOf(c), k \in Keys
        PROVE  Commit(t)[k] = c.pairs[Abstract!LastPosition(c, k)].val
    <2> DEFINE last == Abstract!LastPosition(c, k)
    <2>1. /\ last \in 1..n /\ c.pairs[last].key = k
          /\ \A p \in 1..n : c.pairs[p].key = k => p <= last
      BY <1>2, LastFacts
    <2> HIDE DEF last, c, n
    <2>2. PICK m \in 1..n : b[m] = last
      BY <1>4, <2>1
    <2>3. \A i \in 1..n : m < i => c.pairs[b[i]].key # k
      <3> SUFFICES ASSUME NEW i \in 1..n, m < i, c.pairs[b[i]].key = k PROVE FALSE
        OBVIOUS
      <3>1. b[m] < b[i]
        BY <1>4, <2>1, <2>2
      <3>2. b[i] \in 1..n /\ b[m] \in 1..n
        BY <1>4
      <3>3. b[i] <= last
        BY <2>1, <3>2
      <3>4. QED
        BY <2>2, <3>1, <3>2, <3>3
    <2>4. indexs[t][m] = b[m]
      <3>1. m < n => m + 1 \in 1..n /\ m < m + 1
        BY <1>2
      <3>2. QED
        BY <1>5, <2>1, <2>2, <2>3, <3>1
    <2>5. Visited(t, m, k) /\ ListOf[k] \in HeldLists(t)
      BY <1>2, <1>6, <2>1, <2>2, <2>4 DEF Visited, KeyAt, c
    <2>6. \A i \in 1..n : Visited(t, i, k) => i <= m
      <3>1. \A i \in 1..n : Visited(t, i, k) => c.pairs[b[i]].key = k
        BY <1>5 DEF Visited, KeyAt, c
      <3>2. QED
        BY <1>2, <2>3, <3>1
    <2>7. store'[k] = c.pairs[last].val
      BY <1>7, <1>8, <2>2, <2>4, <2>5, <2>6 DEF Written, c
    <2>8. QED
      BY <1>8, <2>5, <2>7 DEF Commit, last
  <1>9. ASSUME NEW k \in Keys, k \notin Abstract!KeysOf(c)
        PROVE  Commit(t)[k] = committed[k]
    <2>1. \A i \in 1..n : ~Visited(t, i, k)
      <3>1. \A i \in 1..n : Visited(t, i, k) => c.pairs[b[i]].key = k
        BY <1>5 DEF Visited, KeyAt
      <3>2. \A p \in 1..n : c.pairs[p].key # k
        BY <1>2, <1>9 DEF Abstract!KeysOf, Abstract!Positions
      <3>3. QED
        BY <1>4, <3>1, <3>2
    <2>2. ListOf[k] \in HeldLists(t) => store'[k] = committed[k]
      BY <1>7, <2>1 DEF Written
    <2>3. QED
      BY <2>2 DEF Commit
  <1>10. QED
    <2>1. Commit(t) = [k \in Keys |-> Commit(t)[k]]
      BY DEF Commit
    <2>2. Abstract!Effect(c, committed) =
            [k \in Keys |-> IF k \in Abstract!KeysOf(c)
                            THEN c.pairs[Abstract!LastPosition(c, k)].val ELSE committed[k]]
      BY <1>1 DEF Abstract!Effect
    <2>3. QED
      BY <1>1, <1>8, <1>9, <2>1, <2>2
(* The table after some rounds of kvs_delete, when the batch ends there. *)
LEMMA DeleteContents ==
  ASSUME IInv, NEW t \in Threads, pc[t] = "pairs", cmd[t].op = "DELETE",
         NEW past \in SUBSET (1..Count(t)),
         \A k \in Keys : ListOf[k] \in HeldLists(t) => Deleted(t, past, store', k)
  PROVE  Commit(t) = [k \in Keys |-> IF k \in {KeyAt(t, i) : i \in past}
                                     THEN Absent ELSE committed[k]]
  <1>1. \A i \in past : KeyAt(t, i) \in Keys /\ ListOf[KeyAt(t, i)] \in HeldLists(t)
    BY RoundFacts
  <1>2. ASSUME NEW k \in Keys
        PROVE  Commit(t)[k] = IF k \in {KeyAt(t, i) : i \in past} THEN Absent ELSE committed[k]
    <2>1. CASE ListOf[k] \in HeldLists(t)
      BY <2>1 DEF Commit, Deleted
    <2>2. CASE ListOf[k] \notin HeldLists(t)
      BY <1>1, <2>2 DEF Commit
    <2>3. QED
      BY <2>1, <2>2
  <1>3. Commit(t) = [k \in Keys |-> Commit(t)[k]]
    BY DEF Commit
  <1>4. QED
    BY <1>2, <1>3

(* A READ, whether it ends well or not, commits nothing new, nor does any  *)
(* thread that is not at a pair.                                           *)
LEMMA NothingCommitted ==
  ASSUME IInv, IInv', NEW t \in Threads, Step(t),
         pc[t] # "pairs" \/ cmd[t].op \notin UpdateOps
  PROVE  committed' = committed
  <1>1. \A k \in Keys : committed'[k] = committed[k]
    BY ContentsFrame
  <1>2. QED
    BY <1>1 DEF IInv, Types

(* Taking a command is invoking it. *)
LEMMA BeginSteps ==
  ASSUME IInv, IInv', NEW t \in Threads, Begin(t)
  PROVE  Abstract!Invoke(t)
  <1>1. Step(t)
    BY DEF Step
  <1>2. PICK c \in Commands :
          /\ cmd' = [cmd EXCEPT ![t] = c]
          /\ pc' = [pc EXCEPT ![t] = IF c.op \in UpdateOps THEN "rdtable"
                                     ELSE IF c.op = "READ" THEN "sort"
                                     ELSE "wrtable"]
    BY DEF Begin
  <1>3. pc[t] = "idle" /\ pc'[t] \notin {"idle", "unlock"}
    BY <1>2 DEF Begin, IInv, Types
  <1>4. Phase[t] = "idle" /\ Phase'[t] = "pending" /\ Reply'[t] = Reply[t]
    BY <1>3 DEF Phase, Reply
  <1>5. Phase' = [Phase EXCEPT ![t] = "pending"] /\ Reply' = Reply
    <2>1. Reply = [Reply EXCEPT ![t] = Reply[t]]
      BY DEF Reply
    <2>2. QED
      BY <1>1, <1>4, <2>1, MappedStep
  <1>6. committed' = committed /\ ok' = ok
    BY DEF Begin
  <1>7. QED
    BY <1>2, <1>4, <1>5, <1>6 DEF Abstract!Invoke, Phase, Reply

(* So is returning. *)
LEMMA ReturnSteps ==
  ASSUME IInv, IInv', NEW t \in Threads, Return(t)
  PROVE  Abstract!Return(t)
  <1>1. Step(t)
    BY DEF Step
  <1>2. /\ pc[t] = "unlock" /\ pc'[t] = "idle" /\ ok' = [ok EXCEPT ![t] = TRUE]
        /\ committed' = committed /\ cmd' = cmd
    BY DEF Return, IInv, Types
  <1>3. Phase[t] = "done" /\ Phase'[t] = "idle" /\ Reply'[t] = {}
    BY <1>2 DEF Phase, Reply
  <1>4. Phase' = [Phase EXCEPT ![t] = "idle"] /\ Reply' = [Reply EXCEPT ![t] = {}]
    BY <1>1, <1>3, MappedStep
  <1>5. QED
    BY <1>2, <1>3, <1>4 DEF Abstract!Return, Phase, Reply

(* The last pair of a batch ends its command, whether or not the closing   *)
(* bracket of the answer is written; the rounds before it are hidden.      *)
LEMMA PairSteps ==
  ASSUME RInv, IInv', NEW t \in Threads, WritePair(t) \/ ReadPair(t) \/ DeletePair(t)
  PROVE  Abstract!Perform(t) \/ Abstract!StopShort(t) \/ UNCHANGED Abstract!vars
  <1>1. IInv /\ LabelInv /\ SortInv /\ ProgressInv /\ Step(t)
    BY DEF RInv, Step
  <1>2. /\ pc[t] = "pairs" /\ pc'[t] \in {"pairs", "unlock"} /\ cmd' = cmd
        /\ ind[t] < Count(t) <=> pc'[t] = "pairs"
    BY <1>1, PairStepFacts
  <1>3. CASE ind[t] < Count(t)
    <2>1. committed' = committed /\ ok' = ok
      BY <1>3 DEF WritePair, ReadPair, DeletePair, NextPair, Close
    <2>2. Phase'[t] = Phase[t] /\ Reply'[t] = Reply[t]
      BY <1>2, <1>3 DEF Phase, Reply
    <2>3. QED
      BY <1>1, <1>2, <2>1, <2>2, HiddenStep
  <1>4. CASE ~(ind[t] < Count(t))
    <2>1. pc'[t] = "unlock" /\ ind[t] = Count(t)
      BY <1>1, <1>2, <1>4, RoundFacts
    <2>2. ok' = ok \/ ok'[t] = FALSE
      BY DEF WritePair, ReadPair, DeletePair, Close, IInv, Types
    <2>3. CASE WritePair(t)
      <3>1. cmd[t].op = "WRITE" /\ out'[t] = {} /\ ok' = ok
        BY <1>1, <1>2, <2>3 DEF WritePair, ProgressInv, Progress
      <3>2. committed' = Abstract!Effect(cmd[t], committed)
        BY <1>1, <1>4, <2>3, WriteEffect
      <3>3. out'[t] = Abstract!Answer(cmd[t], committed)
        BY <3>1 DEF Abstract!Answer
      <3>4. QED
        BY <1>1, <1>2, <2>1, <3>1, <3>2, <3>3, PerformStep
    <2>4. CASE ReadPair(t)
      <3>1. cmd[t].op = "READ" /\ cmd[t].op \notin UpdateOps
        BY <2>4 DEF ReadPair, UpdateOps
      <3>2. committed' = committed
        BY <1>1, <3>1, NothingCommitted
      <3>3. out'[t] = Abstract!Answer(cmd[t], committed)
        <4>1. \A line : line \in Abstract!Answer(cmd[t], committed) <=> line \in out'[t]
          BY <1>1, <1>2, <2>1, <2>4, <3>1, ReadAnswer, ReadRound DEF ReadLines
        <4>2. QED
          BY <4>1
      <3>4. committed = [k \in Keys |-> committed[k]]
        BY <1>1 DEF IInv, Types
      <3>5. CASE ok' = ok
        <4>1. Abstract!Effect(cmd[t], committed) = [k \in Keys |-> committed[k]]
          BY <3>1 DEF Abstract!Effect
        <4>2. QED
          BY <1>1, <1>2, <2>1, <3>2, <3>3, <3>4, <3>5, <4>1, PerformStep
      <3>6. CASE ok'[t] = FALSE
        <4>1. /\ {} \in SUBSET Abstract!KeysOf(cmd[t])
              /\ committed' = [k \in Keys |-> IF k \in {} THEN Absent ELSE committed[k]]
          BY <3>2, <3>4
        <4>2. QED
          BY <1>1, <1>2, <2>1, <3>1, <3>3, <3>6, <4>1, StopStep
      <3>7. QED
        BY <2>2, <3>5, <3>6
    <2>5. CASE DeletePair(t)
      <3> DEFINE all == {KeyAt(t, i) : i \in 1..Count(t)}
      <3>1. cmd[t].op = "DELETE" /\ committed' = Commit(t)
        BY <1>4, <2>5 DEF DeletePair, NextPair
      <3>2. /\ DeleteLines(t, 1..Count(t), out'[t])
            /\ \A k \in Keys : ListOf[k] \in HeldLists(t) => Deleted(t, 1..Count(t), store', k)
        BY <1>1, <2>1, <2>5, DeleteRound
      <3>3. committed' = [k \in Keys |-> IF k \in all THEN Absent ELSE committed[k]]
        BY <1>1, <1>2, <3>1, <3>2, DeleteContents
      <3>4. out'[t] = Abstract!Answer(cmd[t], committed)
        <4>1. \A line : line \in Abstract!Answer(cmd[t], committed) <=> line \in out'[t]
          BY <1>1, <1>2, <3>1, <3>2, DeleteAnswer DEF DeleteLines
        <4>2. QED
          BY <4>1
      <3>5. all = Abstract!KeysOf(cmd[t])
        BY <1>1, <1>2, <3>1, RoundsMeetAll
      <3>6. CASE ok' = ok
        <4>1. committed' = Abstract!Effect(cmd[t], committed)
          BY <3>1, <3>3, <3>5 DEF Abstract!Effect
        <4>2. QED
          BY <1>1, <1>2, <2>1, <3>4, <3>6, <4>1, PerformStep
      <3>7. CASE ok'[t] = FALSE
        <4>1. all \in SUBSET Abstract!KeysOf(cmd[t])
          BY <3>5
        <4>2. QED
          BY <1>1, <1>2, <2>1, <3>1, <3>3, <3>4, <3>7, <4>1, StopStep
      <3>8. QED
        BY <2>2, <3>6, <3>7
    <2>6. QED
      BY <2>3, <2>4, <2>5
  <1>5. QED
    BY <1>3, <1>4

(* A line that cannot be written ends the command short, with what the     *)
(* rounds before it have done.                                             *)
LEMMA LineFailsSteps ==
  ASSUME RInv, IInv', NEW t \in Threads, LineFails(t)
  PROVE  Abstract!StopShort(t)
  <1>1. IInv /\ LabelInv /\ SortInv /\ ProgressInv /\ Step(t)
    BY DEF RInv, Step
  <1>2. /\ pc[t] = "pairs" /\ pc'[t] = "unlock" /\ cmd' = cmd /\ ok'[t] = FALSE
        /\ out' = out /\ store' = store /\ committed' = Commit(t)
        /\ cmd[t].op \in {"READ", "DELETE"}
    BY <1>1 DEF LineFails, IInv, Types
  <1>3. Past(t) \in SUBSET (1..Count(t))
    BY <1>1, <1>2, RoundFacts
  <1>4. CASE cmd[t].op = "READ"
    <2>1. committed' = committed
      BY <1>1, <1>4, NothingCommitted DEF UpdateOps
    <2>2. /\ {} \in SUBSET Abstract!KeysOf(cmd[t])
          /\ committed' = [k \in Keys |-> IF k \in {} THEN Absent ELSE committed[k]]
      BY <1>1, <2>1 DEF IInv, Types
    <2>3. \A line : line \in out'[t] => line \in Abstract!Answer(cmd[t], committed)
      <3>1. ReadLines(t, Past(t), out'[t])
        BY <1>1, <1>2, <1>4 DEF ProgressInv, Progress
      <3>2. QED
        BY <1>1, <1>2, <1>3, <1>4, <3>1, ReadAnswer DEF ReadLines
    <2>4. out'[t] \subseteq Abstract!Answer(cmd[t], committed)
      BY <2>3
    <2>5. QED
      BY <1>1, <1>2, <1>4, <2>2, <2>4, StopStep
  <1>5. CASE cmd[t].op = "DELETE"
    <2> DEFINE gone == {KeyAt(t, i) : i \in Past(t)}
    <2>1. /\ DeleteLines(t, Past(t), out'[t])
          /\ \A k \in Keys : ListOf[k] \in HeldLists(t) => Deleted(t, Past(t), store', k)
      BY <1>1, <1>2, <1>5 DEF ProgressInv, Progress
    <2>2. committed' = [k \in Keys |-> IF k \in gone THEN Absent ELSE committed[k]]
      BY <1>1, <1>2, <1>3, <1>5, <2>1, DeleteContents
    <2>3. gone \in SUBSET Abstract!KeysOf(cmd[t])
      BY <1>1, <1>2, <1>3, <1>5, RoundsMeetAll
    <2>4. \A line : line \in out'[t] => line \in Abstract!Answer(cmd[t], committed)
      BY <1>1, <1>2, <1>3, <1>5, <2>1, DeleteAnswer DEF DeleteLines
    <2>5. out'[t] \subseteq Abstract!Answer(cmd[t], committed)
      BY <2>4
    <2>6. QED
      BY <1>1, <1>2, <1>5, <2>2, <2>3, <2>5, StopStep
  <1>6. QED
    BY <1>2, <1>4, <1>5
(* A READ, SHOW or BACKUP that stops short has changed nothing. *)
LEMMA StopQuietly ==
  ASSUME IInv, IInv', NEW t \in Threads, Step(t), pc[t] \notin {"idle", "unlock", "pairs"},
         pc'[t] = "unlock", cmd' = cmd, ok'[t] = FALSE,
         cmd[t].op \in {"READ", "SHOW", "BACKUP"},
         out'[t] \subseteq Abstract!Answer(cmd[t], committed)
  PROVE  Abstract!StopShort(t)
  <1>1. committed' = committed
    BY NothingCommitted
  <1>2. /\ {} \in SUBSET Abstract!KeysOf(cmd[t])
        /\ committed' = [k \in Keys |-> IF k \in {} THEN Absent ELSE committed[k]]
    BY <1>1 DEF IInv, Types
  <1>3. QED
    BY <1>2, StopStep

(* The lines of a whole table. *)
LEMMA TableAnswer ==
  ASSUME NEW t \in Threads, cmd[t].op \in {"SHOW", "BACKUP"}
  PROVE  Abstract!Answer(cmd[t], committed) =
           {<<k, committed[k]>> : k \in {x \in Keys : committed[x] # Absent}}
  BY DEF Abstract!Answer

(* A list that is not the last is printed unseen, the last one ends SHOW. *)
LEMMA ShowSteps ==
  ASSUME RInv, IInv', NEW t \in Threads, ShowList(t)
  PROVE  Abstract!Perform(t) \/ UNCHANGED Abstract!vars
  <1>1. IInv /\ LabelInv /\ ProgressInv /\ Step(t)
    BY DEF RInv, Step
  <1>2. /\ pc[t] = "show" /\ cmd[t].op = "SHOW" /\ ind[t] \in Lists
        /\ cmd' = cmd /\ ok' = ok /\ committed' = committed
        /\ pc'[t] = IF ind[t] + 1 \in Lists THEN "show" ELSE "unlock"
    BY <1>1 DEF ShowList, LabelInv, IInv, Types
  <1>3. CASE ind[t] + 1 \in Lists
    <2>1. Phase'[t] = Phase[t] /\ Reply'[t] = Reply[t]
      BY <1>2, <1>3 DEF Phase, Reply
    <2>2. QED
      BY <1>1, <1>2, <2>1, HiddenStep
  <1>4. CASE ind[t] + 1 \notin Lists
    <2>1. \A k \in Keys : ListOf[k] < ind[t] + 1
      <3>1. \A k \in Keys : ListOf[k] \in Lists
        BY StoreAssumption
      <3>2. \A l \in Lists : l < ind[t] + 1
        BY <1>2, <1>4, StoreAssumption DEF Lists
      <3>3. QED
        BY <3>1, <3>2
    <2>2. ShowLines(ind[t] + 1, out'[t])
      BY <1>1, ShowRound
    <2>3. out'[t] = Abstract!Answer(cmd[t], committed)
      <3>1. \A line : line \in out'[t] <=> line \in Abstract!Answer(cmd[t], committed)
        BY <1>2, <2>1, <2>2, TableAnswer DEF ShowLines
      <3>2. QED
        BY <3>1
    <2>4. committed' = Abstract!Effect(cmd[t], committed)
      <3>1. Abstract!Effect(cmd[t], committed) = [k \in Keys |-> committed[k]]
        BY <1>2 DEF Abstract!Effect
      <3>2. committed = [k \in Keys |-> committed[k]]
        BY <1>1 DEF IInv, Types
      <3>3. QED
        BY <1>2, <3>1, <3>2
    <2>5. QED
      BY <1>1, <1>2, <1>4, <2>3, <2>4, PerformStep
  <1>5. QED
    BY <1>3, <1>4

(* The child of a BACKUP has the table of one instant. *)
LEMMA ForkSteps ==
  ASSUME RInv, IInv', NEW t \in Threads, Fork(t)
  PROVE  Abstract!Perform(t)
  <1>1. IInv /\ LabelInv /\ Step(t)
    BY DEF RInv, Step
  <1>2. /\ pc[t] = "fork" /\ cmd[t].op = "BACKUP" /\ pc'[t] = "unlock"
        /\ cmd' = cmd /\ ok' = ok /\ committed' = committed /\ out'[t] = Lines(Keys)
    BY <1>1 DEF Fork, LabelInv, IInv, Types
  <1>3. store = committed
    BY <1>1, <1>2, WholeBatches DEF NoTornBatch
  <1>4. out'[t] = Abstract!Answer(cmd[t], committed)
    BY <1>2, <1>3, TableAnswer DEF Lines
  <1>5. committed' = Abstract!Effect(cmd[t], committed)
    <2>1. Abstract!Effect(cmd[t], committed) = [k \in Keys |-> committed[k]]
      BY <1>2 DEF Abstract!Effect
    <2>2. committed = [k \in Keys |-> committed[k]]
      BY <1>1 DEF IInv, Types
    <2>3. QED
      BY <1>2, <2>1, <2>2
  <1>6. QED
    BY <1>1, <1>2, <1>4, <1>5, PerformStep

(* The other error paths stop their command short. *)
LEMMA FailSteps ==
  ASSUME RInv, IInv', NEW t \in Threads, OpenFails(t) \/ ShowFails(t) \/ ForkFails(t)
  PROVE  Abstract!StopShort(t)
  <1>1. IInv /\ LabelInv /\ ProgressInv /\ Step(t)
    BY DEF RInv, Step
  <1>2. /\ pc[t] \in {"sort", "show", "fork"} /\ pc'[t] = "unlock" /\ cmd' = cmd
        /\ ok'[t] = FALSE /\ out' = out
    BY <1>1 DEF OpenFails, ShowFails, ForkFails, IInv, Types
  <1>3. cmd[t].op \in {"READ", "SHOW", "BACKUP"}
    BY <1>1, <1>2 DEF IInv, LoopInv, LabelInv
  <1>4. out'[t] \subseteq Abstract!Answer(cmd[t], committed)
    <2>1. CASE pc[t] = "show"
      <3>1. ShowLines(ind[t], out[t]) /\ cmd[t].op = "SHOW"
        BY <1>1, <2>1 DEF ProgressInv, Progress, LabelInv
      <3>2. \A line : line \in out[t] => line \in Abstract!Answer(cmd[t], committed)
        BY <3>1, TableAnswer DEF ShowLines
      <3>3. QED
        BY <1>2, <3>2
    <2>2. CASE pc[t] # "show"
      BY <1>1, <1>2, <2>2 DEF LabelInv
    <2>3. QED
      BY <2>1, <2>2
  <1>5. QED
    BY <1>1, <1>2, <1>3, <1>4, StopQuietly

(* Taking and releasing locks is hidden. *)
LEMMA LockSteps ==
  ASSUME RInv, IInv', NEW t \in Threads,
         \/ RdLockTable(t) \/ SortRead(t) \/ LockList(t) \/ UnlockList(t) \/ WrLockTable(t)
  PROVE  UNCHANGED Abstract!vars
  <1>1. IInv /\ Step(t)
    BY DEF RInv, Step
  <1>2. cmd' = cmd /\ ok' = ok /\ committed' = committed /\ out' = out
    BY DEF RdLockTable, SortRead, LockList, UnlockList, WrLockTable, local
  <1>3. \/ pc[t] = "unlock" /\ pc'[t] = "unlock"
        \/ pc[t] \notin {"idle", "unlock"} /\ pc'[t] \notin {"idle", "unlock"}
    BY <1>1 DEF RdLockTable, SortRead, Sort, LockList, UnlockList, WrLockTable, IInv, Types
  <1>4. Phase'[t] = Phase[t] /\ Reply'[t] = Reply[t]
    BY <1>2, <1>3 DEF Phase, Reply
  <1>5. QED
    BY <1>1, <1>2, <1>4, HiddenStep

(* A run of the program starts as AtomicStore does. *)
LEMMA MappedInit == Init => Abstract!Init
  BY DEF Init, Abstract!Init, NoCommand, Abstract!NoCommand

(* Every step is a step of AtomicStore, or is hidden from it. *)
LEMMA MappedNext == RInv /\ RInv' /\ [Next]_vars => [Abstract!Next]_(Abstract!vars)
  <1> SUFFICES ASSUME RInv, RInv', [Next]_vars PROVE [Abstract!Next]_(Abstract!vars)
    OBVIOUS
  <1>1. CASE Next
    <2>1. PICK t \in Threads : Step(t)
      BY <1>1 DEF Next
    <2>2. IInv /\ IInv'
      BY DEF RInv
    <2>3. \/ Abstract!Invoke(t) \/ Abstract!Perform(t) \/ Abstract!StopShort(t)
          \/ Abstract!Return(t) \/ UNCHANGED Abstract!vars
      BY <2>1, <2>2, BeginSteps, ReturnSteps, PairSteps, LineFailsSteps, ShowSteps, ForkSteps,
         FailSteps, LockSteps DEF Step
    <2>4. QED
      BY <2>3 DEF Abstract!Next
  <1>2. CASE UNCHANGED vars
    BY <1>2 DEF vars, local, Abstract!vars
  <1>3. QED
    BY <1>1, <1>2

(* Every WRITE, READ, DELETE, SHOW and BACKUP of a job file takes effect   *)
(* at one instant between its beginning and its end, and prints what the   *)
(* table holds at that instant: the sorted locking of kvs_write and        *)
(* kvs_delete, the list locks of kvs_read and the table lock of kvs_show   *)
(* and do_fork make the batches atomic, duplicates of a key included.      *)
THEOREM CommandsAreAtomic == Spec => ImplementsAtomicStore
  <1>1. Spec => []RInv
    BY RInit, RStep, PTL DEF Spec
  <1>2. QED
    BY <1>1, MappedInit, MappedNext, PTL DEF Spec, ImplementsAtomicStore, Abstract!Spec
=============================================================================
