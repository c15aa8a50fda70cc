------------------------------ MODULE KvsStore ------------------------------
(***************************************************************************)
(* The hash table under the job threads (server/operations.c, kvs.c): the  *)
(* bodies of kvs_write, kvs_read, kvs_delete, kvs_show and do_fork, one    *)
(* step per lock taken or released and per pair touched.                   *)
(*                                                                         *)
(* A job thread takes its next command (a bounded number of them, its job  *)
(* file being finite) and                                                  *)
(*   WRITE, DELETE  read-lock the table, sort, write-lock the lists of the *)
(*                  keys in the sorted order, apply pair by pair, unlock;  *)
(*   READ           the same with read locks and WITHOUT the table lock;   *)
(*   SHOW, BACKUP   write-lock the table alone, and walk it or fork.       *)
(*                                                                         *)
(* Keys are members of a set: ListOf is hash() (the list of the key) and   *)
(* Rank the place of the key in the case-insensitive order of strcasecmp,  *)
(* equal for keys that differ in case only.  committed is a history        *)
(* variable: the contents as of the last completed command.  Lists hold no *)
(* order of their nodes and subscriptions are left to module Subscriptions.*)
(***************************************************************************)
EXTENDS Naturals, Sequences, RwLock

CONSTANTS Threads,     \* the job threads
          Keys, Values,
          Absent,      \* no node for the key
          TableSize,   \* TABLE_SIZE, the number of lists of the hash table
          ListOf,      \* hash()
          Rank,        \* the order of strcasecmp
          Commands,    \* the commands the job files may hold
          MaxCommands  \* commands per job thread

Ops == {"WRITE", "READ", "DELETE", "SHOW", "BACKUP"}
BatchOps == {"WRITE", "READ", "DELETE"}
UpdateOps == {"WRITE", "DELETE"}

Lists == 0..(TableSize - 1)

ASSUME StoreAssumption ==
  /\ Absent \notin Values
  /\ TableSize \in Nat \ {0}
  /\ ListOf \in [Keys -> Lists]
  /\ Rank \in [Keys -> Nat]
  /\ MaxCommands \in Nat
  /\ \A c \in Commands :
       /\ c \in [op : Ops, pairs : Seq([key : Keys, val : Values])]
       /\ c.pairs = <<>> <=> c.op \notin BatchOps

(* Taking list locks in key order is taking them in list order: so for     *)
(* keys that all start with a letter, or all with a digit.                 *)
OrderAgrees ==
  \A j, k \in Keys : Rank[j] <= Rank[k] => ListOf[j] <= ListOf[k]

VARIABLES
  store,      \* the value of every key in the table, or Absent
  tableLock,  \* HashTable.rwl
  listLock,   \* IndexList.rwl, per list
  pc,         \* where each thread is
  cmd,        \* the command it serves
  indexs,     \* its sorted array of positions, duplicates struck out
  ind,        \* its loop counter
  out,        \* the lines it printed for this command
  ok,         \* no write to the output file has failed
  left,       \* commands left in its job file
  committed   \* history: the contents between commands

locks == <<tableLock, listLock>>
local == <<cmd, indexs, ind, out, ok, left>>
vars == <<store, locks, pc, local, committed>>

NoCommand == [op |-> "NONE", pairs |-> <<>>]
Skip == 0     \* the struck-out entry, num_pairs in the code

Count(t) == Len(cmd[t].pairs)

(* Mutant of SortedIndexes: the batch is left in the order of the command. *)
UnsortedIndexes(pairs) == {[i \in 1..Len(pairs) |-> i]}

(* The results insertion_sort can have on the positions of a batch: the    *)
(* stable order by rank, which is a single one.                            *)
SortedIndexes(pairs) ==
  {s \in [1..Len(pairs) -> 1..Len(pairs)] :
     \A i, j \in 1..Len(pairs) : i < j =>
       \/ Rank[pairs[s[i]].key] < Rank[pairs[s[j]].key]
       \/ Rank[pairs[s[i]].key] = Rank[pairs[s[j]].key] /\ s[i] < s[j]}

HeldLists(t) == {l \in Lists : Holds(listLock[l], t)}

KeyAt(t, i) == cmd[t].pairs[indexs[t][i]].key
CurrentIndex(t) == indexs[t][ind[t]]
CurrentKey(t) == KeyAt(t, ind[t])
WantedList(t) == ListOf[CurrentKey(t)]

CanLockList(t, l) ==
  IF cmd[t].op = "READ" THEN CanRdLock(listLock[l]) ELSE CanWrLock(listLock[l])

ListLocked(t, l) ==
  IF cmd[t].op = "READ" THEN RdLocked(listLock[l], t) ELSE WrLocked(listLock[l], t)
-----------------------------------------------------------------------------
Init ==
  /\ store = [k \in Keys |-> Absent]
  /\ tableLock = FreeLock
  /\ listLock = [l \in Lists |-> FreeLock]
  /\ pc = [t \in Threads |-> "idle"]
  /\ cmd = [t \in Threads |-> NoCommand]
  /\ indexs = [t \in Threads |-> <<>>]
  /\ ind = [t \in Threads |-> 0]
  /\ out = [t \in Threads |-> {}]
  /\ ok = [t \in Threads |-> TRUE]
  /\ left = [t \in Threads |-> MaxCommands]
  /\ committed = store

(* do_commands reads the next command and calls its kvs_ function; kvs_read *)
(* needs no lock to sort.                                                   *)
Begin(t) ==
  /\ pc[t] = "idle"
  /\ left[t] > 0
  /\ left' = [left EXCEPT ![t] = @ - 1]
  /\ \E c \in Commands :
       /\ cmd' = [cmd EXCEPT ![t] = c]
       /\ pc' = [pc EXCEPT ![t] = IF c.op \in UpdateOps THEN "rdtable"
                                  ELSE IF c.op = "READ" THEN "sort"
                                  ELSE "wrtable"]
  /\ UNCHANGED <<store, locks, indexs, ind, out, ok, committed>>

Sort(t) ==
  /\ \E s \in SortedIndexes(cmd[t].pairs) : indexs' = [indexs EXCEPT ![t] = s]
  /\ ind' = [ind EXCEPT ![t] = 1]
  /\ pc' = [pc EXCEPT ![t] = "lists"]

(* Mutant of RdLockTable: the updates skip the table lock, as kvs_read does. *)
SkipTableLock(t) ==
  /\ pc[t] = "rdtable"
  /\ Sort(t)
  /\ UNCHANGED <<store, locks, cmd, out, ok, left, committed>>

RdLockTable(t) ==
  /\ pc[t] = "rdtable"
  /\ CanRdLock(tableLock)
  /\ tableLock' = RdLocked(tableLock, t)
  /\ Sort(t)
  /\ UNCHANGED <<store, listLock, cmd, out, ok, left, committed>>

SortRead(t) ==
  /\ pc[t] = "sort"
  /\ Sort(t)
  /\ UNCHANGED <<store, locks, cmd, out, ok, left, committed>>

(* kvs_read cannot write its "[": it has taken nothing yet.                 *)
OpenFails(t) ==
  /\ pc[t] = "sort"
  /\ ok' = [ok EXCEPT ![t] = FALSE]
  /\ pc' = [pc EXCEPT ![t] = "unlock"]
  /\ UNCHANGED <<store, locks, cmd, indexs, ind, out, left, committed>>

(* Mutant of Deduplicated: the leftmost of the equal pairs stays.          *)
KeepLeftmost(t) ==
  LET i == ind[t]
      s == indexs[t]
      next == s[i + 1]
  IN  IF /\ cmd[t].op = "WRITE"
         /\ i < Count(t)
         /\ cmd[t].pairs[next].key = CurrentKey(t)
      THEN [s EXCEPT ![i] = Skip, ![i + 1] = IF s[i] < next THEN s[i] ELSE next]
      ELSE s

(* Mutant of Deduplicated: the next entry is struck out, not this one.     *)
StrikeNext(t) ==
  LET i == ind[t]
      s == indexs[t]
      next == s[i + 1]
  IN  IF /\ cmd[t].op = "WRITE"
         /\ i < Count(t)
         /\ cmd[t].pairs[next].key = CurrentKey(t)
      THEN [s EXCEPT ![i] = IF s[i] > next THEN s[i] ELSE next, ![i + 1] = Skip]
      ELSE s

(* kvs_write strikes an entry out when the next one has the same key.      *)
Deduplicated(t) ==
  LET i == ind[t]
      s == indexs[t]
      next == s[i + 1]
  IN  IF /\ cmd[t].op = "WRITE"
         /\ i < Count(t)
         /\ cmd[t].pairs[next].key = CurrentKey(t)
      THEN [s EXCEPT ![i] = Skip, ![i + 1] = IF s[i] > next THEN s[i] ELSE next]
      ELSE s

(* One round of the locking loop: lock the list of the key unless held.    *)
LockList(t) ==
  /\ pc[t] = "lists"
  /\ LET l == WantedList(t)
     IN  /\ l \in HeldLists(t) \/ CanLockList(t, l)
         /\ listLock' = IF l \in HeldLists(t) THEN listLock
                        ELSE [listLock EXCEPT ![l] = ListLocked(t, l)]
  /\ indexs' = [indexs EXCEPT ![t] = Deduplicated(t)]
  /\ ind' = [ind EXCEPT ![t] = IF @ < Count(t) THEN @ + 1 ELSE 1]
  /\ pc' = [pc EXCEPT ![t] = IF ind[t] < Count(t) THEN "lists" ELSE "pairs"]
  /\ UNCHANGED <<store, tableLock, cmd, out, ok, left, committed>>

(* History: what is committed when the batch of thread t is complete.      *)
Commit(t) ==
  [k \in Keys |-> IF ListOf[k] \in HeldLists(t) THEN store'[k] ELSE committed[k]]

(* The end of a round of the loop over the pairs.                          *)
NextPair(t) ==
  /\ ind' = [ind EXCEPT ![t] = @ + 1]
  /\ pc' = [pc EXCEPT ![t] = IF ind[t] < Count(t) THEN "pairs" ELSE "unlock"]
  /\ committed' = IF ind[t] < Count(t) THEN committed ELSE Commit(t)

(* After the last pair the "]" of the answer may fail to be written; what  *)
(* follows is the same.  kvs_delete writes one only if a key was missing.  *)
Close(t) ==
  ok' \in {ok} \cup (IF ind[t] < Count(t) \/ out'[t] = {} THEN {}
                      ELSE {[ok EXCEPT ![t] = FALSE]})

WritePair(t) ==
  /\ pc[t] = "pairs"
  /\ cmd[t].op = "WRITE"
  /\ store' = IF CurrentIndex(t) = Skip THEN store
              ELSE [store EXCEPT ![CurrentKey(t)] = cmd[t].pairs[CurrentIndex(t)].val]
  /\ UNCHANGED <<locks, cmd, indexs, out, ok, left>>
  /\ NextPair(t)

ReadPair(t) ==
  /\ pc[t] = "pairs"
  /\ cmd[t].op = "READ"
  /\ out' = [out EXCEPT ![t] = @ \cup {<<CurrentKey(t), store[CurrentKey(t)]>>}]
  /\ Close(t)
  /\ UNCHANGED <<store, locks, cmd, indexs, left>>
  /\ NextPair(t)

DeletePair(t) ==
  /\ pc[t] = "pairs"
  /\ cmd[t].op = "DELETE"
  /\ out' = [out EXCEPT ![t] = IF store[CurrentKey(t)] = Absent
                               THEN @ \cup {<<CurrentKey(t), Absent>>} ELSE @]
  /\ store' = [store EXCEPT ![CurrentKey(t)] = Absent]
  /\ Close(t)
  /\ UNCHANGED <<locks, cmd, indexs, left>>
  /\ NextPair(t)

(* Mutant of LineFails: the error path returns with the locks held, as     *)
(* kvs_delete of Project1 does.                                            *)
ReturnWithoutUnlock(t) ==
  /\ pc[t] = "pairs"
  /\ \/ cmd[t].op = "READ"
     \/ cmd[t].op = "DELETE" /\ store[CurrentKey(t)] = Absent
  /\ pc' = [pc EXCEPT ![t] = "idle"]
  /\ UNCHANGED <<store, locks, local>>
  /\ committed' = Commit(t)

(* A line cannot be written to the output file: the loop is left, with the *)
(* locks still to release.  kvs_delete writes only for a missing key.      *)
LineFails(t) ==
  /\ pc[t] = "pairs"
  /\ \/ cmd[t].op = "READ"
     \/ cmd[t].op = "DELETE" /\ store[CurrentKey(t)] = Absent
  /\ ok' = [ok EXCEPT ![t] = FALSE]
  /\ pc' = [pc EXCEPT ![t] = "unlock"]
  /\ UNCHANGED <<store, locks, cmd, indexs, ind, out, left>>
  /\ committed' = Commit(t)

UnlockList(t) ==
  /\ pc[t] = "unlock"
  /\ \E l \in HeldLists(t) :
       /\ \A m \in HeldLists(t) : l <= m
       /\ listLock' = [listLock EXCEPT ![l] = Unlocked(@, t)]
  /\ UNCHANGED <<store, tableLock, pc, local, committed>>

(* Mutant of Return: the table lock is forgotten.                          *)
ForgetTableLock(t) ==
  /\ pc[t] = "unlock"
  /\ HeldLists(t) = {}
  /\ pc' = [pc EXCEPT ![t] = "idle"]
  /\ out' = [out EXCEPT ![t] = {}]
  /\ ok' = [ok EXCEPT ![t] = TRUE]
  /\ UNCHANGED <<store, locks, cmd, indexs, ind, left, committed>>

(* All list locks are back; the table lock, if any, is released last.      *)
Return(t) ==
  /\ pc[t] = "unlock"
  /\ HeldLists(t) = {}
  /\ tableLock' = Unlocked(tableLock, t)
  /\ pc' = [pc EXCEPT ![t] = "idle"]
  /\ out' = [out EXCEPT ![t] = {}]
  /\ ok' = [ok EXCEPT ![t] = TRUE]
  /\ UNCHANGED <<store, listLock, cmd, indexs, ind, left, committed>>
-----------------------------------------------------------------------------
(* kvs_show and do_fork *)

WrLockTable(t) ==
  /\ pc[t] = "wrtable"
  /\ CanWrLock(tableLock)
  /\ tableLock' = WrLocked(tableLock, t)
  /\ ind' = [ind EXCEPT ![t] = 0]
  /\ pc' = [pc EXCEPT ![t] = IF cmd[t].op = "SHOW" THEN "show" ELSE "fork"]
  /\ UNCHANGED <<store, listLock, cmd, indexs, out, ok, left, committed>>

Lines(keys) == {<<k, store[k]>> : k \in {x \in keys : store[x] # Absent}}

(* kvs_show prints one list after the other.                               *)
ShowList(t) ==
  /\ pc[t] = "show"
  /\ ind[t] \in Lists
  /\ out' = [out EXCEPT ![t] = @ \cup Lines({k \in Keys : ListOf[k] = ind[t]})]
  /\ ind' = [ind EXCEPT ![t] = @ + 1]
  /\ pc' = [pc EXCEPT ![t] = IF ind[t] + 1 \in Lists THEN "show" ELSE "unlock"]
  /\ UNCHANGED <<store, locks, cmd, indexs, ok, left, committed>>

ShowFails(t) ==
  /\ pc[t] = "show"
  /\ ok' = [ok EXCEPT ![t] = FALSE]
  /\ pc' = [pc EXCEPT ![t] = "unlock"]
  /\ UNCHANGED <<store, locks, cmd, indexs, ind, out, left, committed>>

(* fork(): the child has a copy of the memory and prints it (kvs_backup).  *)
Fork(t) ==
  /\ pc[t] = "fork"
  /\ out' = [out EXCEPT ![t] = Lines(Keys)]
  /\ pc' = [pc EXCEPT ![t] = "unlock"]
  /\ UNCHANGED <<store, locks, cmd, indexs, ind, ok, left, committed>>

ForkFails(t) ==
  /\ pc[t] = "fork"
  /\ ok' = [ok EXCEPT ![t] = FALSE]
  /\ pc' = [pc EXCEPT ![t] = "unlock"]
  /\ UNCHANGED <<store, locks, cmd, indexs, ind, out, left, committed>>
-----------------------------------------------------------------------------
Step(t) ==
  \/ Begin(t) \/ RdLockTable(t) \/ OpenFails(t) \/ SortRead(t) \/ LockList(t)
  \/ WritePair(t) \/ ReadPair(t) \/ DeletePair(t) \/ LineFails(t)
  \/ UnlockList(t) \/ Return(t)
  \/ WrLockTable(t) \/ ShowList(t) \/ ShowFails(t) \/ Fork(t) \/ ForkFails(t)

Next == \E t \in Threads : Step(t)

(* The kernel runs every thread that is not blocked; job files are finite, *)
(* so nothing stronger than weak fairness is needed of the locks.          *)
Fairness == \A t \in Threads : WF_vars(Step(t))

Spec == Init /\ [][Next]_vars /\ Fairness
-----------------------------------------------------------------------------
(* Properties *)

Labels == {"idle", "rdtable", "sort", "lists", "pairs", "unlock", "wrtable",
           "show", "fork"}

Types ==
  /\ store \in [Keys -> Values \cup {Absent}]
  /\ tableLock \in RwLocks(Threads)
  /\ listLock \in [Lists -> RwLocks(Threads)]
  /\ pc \in [Threads -> Labels]
  /\ cmd \in [Threads -> Commands \cup {NoCommand}]
  /\ indexs \in [Threads -> Seq(Nat)]
  /\ ind \in [Threads -> Nat]
  /\ out \in [Threads -> SUBSET (Keys \X (Values \cup {Absent}))]
  /\ ok \in [Threads -> BOOLEAN]
  /\ left \in [Threads -> 0..MaxCommands]
  /\ committed \in [Keys -> Values \cup {Absent}]

(* No round of a loop over the batch reads outside its arrays: the counter *)
(* is within them, and so is the position it finds there, unless it was    *)
(* struck out, which only the second loop of kvs_write expects; kvs_show   *)
(* stays within the table.                                                 *)
LoopsInBounds ==
  \A t \in Threads :
    /\ pc[t] \in {"lists", "pairs"} =>
         /\ indexs[t] \in [1..Count(t) -> 0..Count(t)]
         /\ ind[t] \in 1..Count(t)
         /\ CurrentIndex(t) = Skip => pc[t] = "pairs" /\ cmd[t].op = "WRITE"
    /\ pc[t] = "show" => ind[t] \in Lists

(* Every variable has its type, and the loops of kvs_write, kvs_read,      *)
(* kvs_delete and kvs_show read nothing beyond their arrays.               *)
TypeOK == Types /\ LoopsInBounds

(* A thread that is between two commands holds no lock, whichever way the  *)
(* command ended: the error paths of kvs_read, kvs_delete and kvs_show     *)
(* release what they took.                                                 *)
IdleHoldsNothing ==
  \A t \in Threads : pc[t] \in {"idle", "sort"} =>
    HeldLists(t) = {} /\ ~Holds(tableLock, t)

(* What a READ, a SHOW or a backup looks at holds no half-done batch of    *)
(* another thread, at any of its steps.  kvs_read relies on the list locks *)
(* alone, kvs_show and do_fork on the table lock alone.                    *)
NoTornBatch ==
  \A t \in Threads :
    /\ pc[t] = "pairs" /\ cmd[t].op = "READ" =>
         \A i \in 1..Count(t) : store[KeyAt(t, i)] = committed[KeyAt(t, i)]
    /\ pc[t] \in {"show", "fork"} => store = committed

(* Thread t cannot take its next lock because of thread u.                 *)
WaitsFor(t, u) ==
  /\ t # u
  /\ \/ pc[t] = "rdtable" /\ u \in tableLock.writer
     \/ pc[t] = "wrtable" /\ Holds(tableLock, u)
     \/ /\ pc[t] = "lists"
        /\ WantedList(t) \notin HeldLists(t)
        /\ \/ u \in listLock[WantedList(t)].writer
           \/ cmd[t].op # "READ" /\ u \in listLock[WantedList(t)].readers

(* No set of threads wait for one another in a circle: the order in which  *)
(* the batches take the list locks, and the table lock before them, leaves *)
(* in every group a thread no other of the group holds up.                 *)
NoCircularWait ==
  \A S \in (SUBSET Threads) \ {{}} :
    \E t \in S : \A u \in S : ~WaitsFor(t, u)

(* Every job thread gets to the end of its job file.                       *)
AllJobsDone == <>(\A t \in Threads : pc[t] = "idle" /\ left[t] = 0)

(* Every command takes effect at one instant (module AtomicStore): for an  *)
(* update when its last pair is written, for the others when they end.     *)
Abstract ==
  INSTANCE AtomicStore WITH
    store <- committed,
    phase <- [t \in Threads |-> CASE pc[t] = "idle" -> "idle"
                                   [] pc[t] = "unlock" -> "done"
                                   [] OTHER -> "pending"],
    request <- cmd,
    reply <- [t \in Threads |-> IF pc[t] = "unlock" THEN out[t] ELSE {}]

ImplementsAtomicStore == Abstract!Spec
=============================================================================
