------------------------------ MODULE PartOne ------------------------------
(***************************************************************************)
(* Part 1 of the project (Project1/), the store without clients, from      *)
(* main() to its end: job threads take the files of a directory, run their *)
(* commands on the table and fork backups; main waits for the threads and  *)
(* then for the backups.                                                   *)
(*                                                                         *)
(* readdir() returns a pointer into the buffer of the stream, which a      *)
(* later call of any thread overwrites when it has to fill the buffer      *)
(* again; entries are taken to be of one size, and a thread reads its name *)
(* once for the paths of its two files and once for each backup.  The      *)
(* locks of a command are released in one step, and SHOW prints in one     *)
(* step under its lock.  Writes to an output file may fail, and so may     *)
(* fork() and open().  WAIT, HELP and lines that are not commands change   *)
(* nothing here.  Keys are all letters or all digits: KvsStore shows what  *)
(* the order of the locks is worth otherwise.                              *)
(*                                                                         *)
(* After a DELETE that could not print, which returns with its locks       *)
(* locked, a thread is followed until it asks for one of these list locks  *)
(* again: it gets EDEADLK, and what its error paths then unlock is left    *)
(* out ("relock").                                                         *)
(***************************************************************************)
EXTENDS Integers, SequencesExt, RwLock

CONSTANTS Threads, NoThread,
          Entries,      \* the names in the directory, in the order of readdir
          Job,          \* the commands of the .job files among them
          BufferSize,   \* entries the buffer of readdir takes
          MaxBackups,   \* max_backups
          Keys, Values, Absent,
          TableSize,    \* TABLE_SIZE
          ListOf,       \* hash()
          Rank          \* the order of strcasecmp

Lists == 0..(TableSize - 1)
Names == ToSet(Entries)
JobFiles == DOMAIN Job
Commands == [op : {"WRITE", "READ", "DELETE", "SHOW", "BACKUP"},
             pairs : Seq([key : Keys, val : Values])]

(* No two entries of a directory have one name, and there is always an     *)
(* entry: "." at least.                                                    *)
ASSUME PartOneAssumption ==
  /\ IsFiniteSet(Threads) /\ NoThread \notin Threads
  /\ Entries \in Seq(Names) /\ Entries # <<>>
  /\ \A m, n \in DOMAIN Entries : Entries[m] = Entries[n] => m = n
  /\ JobFiles \subseteq Names
  /\ BufferSize \in Nat \ {0} /\ MaxBackups \in Nat \ {0}
  /\ Absent \notin Values
  /\ ListOf \in [Keys -> Lists] /\ Rank \in [Keys -> Nat]
  /\ \A j, k \in Keys : Rank[j] <= Rank[k] => ListOf[j] <= ListOf[k]
  /\ Job \in [JobFiles -> Seq(Commands)]
  /\ \A f \in JobFiles : \A i \in DOMAIN Job[f] :
       Job[f][i].op \in {"WRITE", "READ", "DELETE"} <=> Job[f][i].pairs # <<>>

VARIABLES
  main,       \* where main() is
  pc,         \* where each job thread is
  mutex,      \* its holder
  read,       \* entries readdir has returned
  entry,      \* which of them each thread got
  file,       \* the file it has open
  at,         \* the command it is at
  ind,        \* the loop counter of that command
  aux,        \* whether its DELETE has printed something
  backups,    \* backups_made
  store, tableLock, listLock,
  active,     \* active_backups
  running,    \* children that write their backup
  zombies     \* children that have exited and were not waited for

(* History: what was committed, which files were opened and how often, who *)
(* holds locks of a DELETE that failed, wait() calls that found no child,  *)
(* open() calls that failed, and whether a thread read another's name.     *)
VARIABLES committed, runs, leak, overtaken, unopened, misread

dir == <<read, entry>>
job == <<file, at, ind, aux, backups>>
table == <<store, tableLock, listLock, committed, leak>>
children == <<active, running, zombies, overtaken>>
opened == <<runs, unopened, misread>>
vars == <<main, pc, mutex, dir, job, table, children, opened>>

(* What the commands on the table leave alone. *)
elsewhere == <<main, mutex, dir, file, backups, children, opened>>

Go(t, from, to) == pc[t] = from /\ pc' = [pc EXCEPT ![t] = to]

Cmd(t) == Job[file[t]][at[t]]

(* The order insertion_sort leaves the pairs in: the n-th has n - 1 of     *)
(* lesser rank, or of its rank and written earlier, before it.             *)
Precedes(pairs, i, j) ==
  \/ Rank[pairs[i].key] < Rank[pairs[j].key]
  \/ Rank[pairs[i].key] = Rank[pairs[j].key] /\ i < j

SortedIndexes(pairs) ==
  [n \in DOMAIN pairs |->
     CHOOSE i \in DOMAIN pairs :
       Cardinality({j \in DOMAIN pairs : Precedes(pairs, j, i)}) = n - 1]

Pair(t, i) == Cmd(t).pairs[SortedIndexes(Cmd(t).pairs)[i]]
Count(t) == Len(Cmd(t).pairs)
HeldLists(t) == {l \in Lists : Holds(listLock[l], t)}

(* pthread_create may fail for some of the threads. *)
Init ==
  /\ main = "join"
  /\ \E created \in SUBSET Threads :
       pc = [t \in Threads |-> IF t \in created THEN "dir" ELSE "end"]
  /\ mutex = NoThread
  /\ read = 0
  /\ entry = [t \in Threads |-> 1]
  /\ file = [t \in Threads |-> Entries[1]]
  /\ at = [t \in Threads |-> 1] /\ ind = [t \in Threads |-> 1]
  /\ aux = [t \in Threads |-> FALSE]
  /\ backups = [t \in Threads |-> 0]
  /\ store = [k \in Keys |-> Absent] /\ committed = store
  /\ tableLock = FreeLock
  /\ listLock = [l \in Lists |-> FreeLock]
  /\ leak = [t \in Threads |-> {}]
  /\ active = 0 /\ running = {} /\ zombies = 0 /\ overtaken = 0
  /\ runs = [f \in JobFiles |-> 0]
  /\ unopened = 0 /\ misread = FALSE
-----------------------------------------------------------------------------
(* The directory *)

(* The buffer is filled from its start each time all it held was returned, *)
(* so that the name entry n left there lasts until as many more were       *)
(* returned as it takes; past the last entry, what was there stays.        *)
Slot(n) ==
  LET filled == ((read - 1) \div BufferSize) * BufferSize
      last == filled + ((n - 1) % BufferSize) + 1
  IN  IF last <= Len(Entries) THEN last ELSE last - BufferSize

BufferedName(n) == Entries[Slot(n)]

(* Mutant of ReadDir: two threads may be given one entry. *)
ReadDirTwice(t) ==
  /\ Go(t, "dir", "entry")
  /\ mutex = NoThread
  /\ read < Len(Entries)
  /\ \/ read' = read + 1
     \/ pc[t] = "dir" /\ (\E u \in Threads : pc[u] = "entry") /\ UNCHANGED read
  /\ entry' = [entry EXCEPT ![t] = read']
  /\ UNCHANGED <<main, mutex, job, table, children, opened>>

ReadDir(t) ==
  /\ Go(t, "dir", "entry")
  /\ mutex = NoThread
  /\ read < Len(Entries)
  /\ read' = read + 1
  /\ entry' = [entry EXCEPT ![t] = read + 1]
  /\ UNCHANGED <<main, mutex, job, table, children, opened>>

NoMoreEntries(t) ==
  /\ Go(t, "dir", "end")
  /\ mutex = NoThread
  /\ read = Len(Entries)
  /\ UNCHANGED <<main, mutex, dir, job, table, children, opened>>

(* The name, read after the mutex was released.                            *)
NameRead(t) ==
  /\ misread' = (misread \/ BufferedName(entry[t]) # Entries[entry[t]])
  /\ UNCHANGED <<main, mutex, dir, table, children>>

NotAJob(t) ==
  /\ Go(t, "entry", "dir")
  /\ BufferedName(entry[t]) \notin JobFiles
  /\ NameRead(t)
  /\ UNCHANGED <<job, runs, unopened>>

OpenFiles(t) ==
  LET name == BufferedName(entry[t])
  IN  /\ Go(t, "entry", "command")
      /\ name \in JobFiles
      /\ file' = [file EXCEPT ![t] = name]
      /\ at' = [at EXCEPT ![t] = 1]
      /\ backups' = [backups EXCEPT ![t] = 0]
      /\ runs' = [runs EXCEPT ![name] = @ + 1]
      /\ NameRead(t)
      /\ UNCHANGED <<ind, aux, unopened>>

(* The thread returns; the rest of the directory is for the others.        *)
OpenFails(t) ==
  /\ Go(t, "entry", "end")
  /\ BufferedName(entry[t]) \in JobFiles
  /\ unopened' = unopened + 1
  /\ NameRead(t)
  /\ UNCHANGED <<job, runs>>

EndOfFile(t) ==
  /\ Go(t, "command", "dir")
  /\ at[t] > Len(Job[file[t]])
  /\ UNCHANGED <<main, mutex, dir, job, table, children, opened>>
-----------------------------------------------------------------------------
(* The commands on the table *)

Begin(t) ==
  /\ pc[t] = "command"
  /\ at[t] <= Len(Job[file[t]])
  /\ ind' = [ind EXCEPT ![t] = 1]
  /\ aux' = [aux EXCEPT ![t] = FALSE]
  /\ pc' = [pc EXCEPT ![t] =
              CASE Cmd(t).op \in {"WRITE", "DELETE"} -> "rdtable"
                [] Cmd(t).op = "READ" -> "bracket"
                [] Cmd(t).op = "SHOW" -> "show"
                [] OTHER -> "backup"]
  /\ UNCHANGED <<elsewhere, at, table>>

(* The command returns, having released these locks. *)
Return(t, lists, locks) ==
  /\ pc' = [pc EXCEPT ![t] = "command"]
  /\ at' = [at EXCEPT ![t] = @ + 1]
  /\ listLock' = [l \in Lists |-> IF l \in lists THEN Unlocked(listLock[l], t)
                                  ELSE listLock[l]]
  /\ tableLock' = IF "table" \in locks THEN Unlocked(tableLock, t) ELSE tableLock
  /\ UNCHANGED <<elsewhere, ind, aux, store>>

RdLockTable(t) ==
  /\ Go(t, "rdtable", "lists")
  /\ CanRdLock(tableLock)
  /\ tableLock' = RdLocked(tableLock, t)
  /\ UNCHANGED <<elsewhere, at, ind, aux, store, listLock, committed, leak>>

(* kvs_read, which does not lock the table, prints its "[" first. *)
PrintBracket(t) ==
  /\ Go(t, "bracket", "lists")
  /\ UNCHANGED <<elsewhere, at, ind, aux, table>>

BracketFails(t) ==
  /\ pc[t] = "bracket"
  /\ Return(t, {}, {})
  /\ UNCHANGED <<committed, leak>>

LockList(t) ==
  LET l == ListOf[Pair(t, ind[t]).key]
      rd == Cmd(t).op = "READ"
      isLocked == l \in HeldLists(t)
  IN  /\ Go(t, "lists", IF ind[t] < Count(t) THEN "lists" ELSE "pairs")
      /\ l \notin leak[t]
      /\ isLocked \/ (IF rd THEN CanRdLock(listLock[l]) ELSE CanWrLock(listLock[l]))
      /\ listLock' = [listLock EXCEPT ![l] = IF isLocked THEN @
                                             ELSE IF rd THEN RdLocked(@, t)
                                             ELSE WrLocked(@, t)]
      /\ ind' = [ind EXCEPT ![t] = IF @ < Count(t) THEN @ + 1 ELSE 1]
      /\ UNCHANGED <<elsewhere, at, aux, store, tableLock, committed, leak>>

(* EDEADLK from a lock the thread itself has kept. *)
Relock(t) ==
  /\ Go(t, "lists", "relock")
  /\ ListOf[Pair(t, ind[t]).key] \in leak[t]
  /\ UNCHANGED <<elsewhere, at, ind, aux, table>>

(* What a command that is over leaves under the locks it has. *)
Commits(t, contents) ==
  committed' = [k \in Keys |-> IF ListOf[k] \in HeldLists(t) THEN contents[k]
                               ELSE committed[k]]

Missing(t) == Cmd(t).op = "DELETE" /\ store[Pair(t, ind[t]).key] = Absent

ApplyPair(t) ==
  LET k == Pair(t, ind[t]).key
  IN  /\ Go(t, "pairs", IF ind[t] < Count(t) THEN "pairs" ELSE "unlock")
      /\ ind' = [ind EXCEPT ![t] = @ + 1]
      /\ aux' = [aux EXCEPT ![t] = @ \/ Missing(t)]
      /\ store' = CASE Cmd(t).op = "WRITE" -> [store EXCEPT ![k] = Pair(t, ind[t]).val]
                    [] Cmd(t).op = "DELETE" -> [store EXCEPT ![k] = Absent]
                    [] OTHER -> store
      /\ IF ind[t] < Count(t) THEN UNCHANGED committed ELSE Commits(t, store')
      /\ UNCHANGED <<elsewhere, at, tableLock, listLock, leak>>

(* A "(key,value)" or the "]" of kvs_read cannot be written. *)
ReadFails(t) ==
  /\ pc[t] \in {"pairs", "unlock"} /\ Cmd(t).op = "READ"
  /\ Return(t, HeldLists(t) \ leak[t], {})
  /\ UNCHANGED <<committed, leak>>

(* Mutant of DeleteFails: the error path frees the lists, not the table. *)
DeleteFailsLists(t) ==
  /\ pc[t] \in {"pairs", "unlock"} /\ Cmd(t).op = "DELETE"
  /\ IF pc[t] = "pairs" THEN Missing(t) ELSE aux[t]
  /\ Return(t, HeldLists(t) \ leak[t], {})
  /\ Commits(t, store)
  /\ UNCHANGED leak

(* A "(key,KVSMISSING)" or the "]" of kvs_delete cannot be written: it     *)
(* returns with the table and the lists locked.                            *)
DeleteFails(t) ==
  /\ pc[t] \in {"pairs", "unlock"} /\ Cmd(t).op = "DELETE"
  /\ IF pc[t] = "pairs" THEN Missing(t) ELSE aux[t]
  /\ Return(t, {}, {})
  /\ Commits(t, store)
  /\ leak' = [leak EXCEPT ![t] = HeldLists(t)]

(* Mutant of Unlock: the first list is the only one released. *)
UnlockOne(t) ==
  /\ pc[t] = "unlock"
  /\ Return(t, {ListOf[Pair(t, 1).key]},
            IF leak[t] = {} /\ Cmd(t).op # "READ" THEN {"table"} ELSE {})
  /\ UNCHANGED <<committed, leak>>

Unlock(t) ==
  /\ pc[t] = "unlock"
  /\ Return(t, HeldLists(t) \ leak[t],
            IF leak[t] = {} /\ Cmd(t).op # "READ" THEN {"table"} ELSE {})
  /\ UNCHANGED <<committed, leak>>

(* kvs_show, under the table lock, whether or not it can print. *)
Show(t) ==
  /\ pc[t] = "show"
  /\ CanWrLock(tableLock)
  /\ Return(t, {}, {})
  /\ UNCHANGED <<committed, leak>>
-----------------------------------------------------------------------------
(* BACKUP *)

(* Mutant of CountBackup: backups_made is left alone. *)
CountUnnumbered(t) ==
  /\ Go(t, "backup", "fork")
  /\ mutex = NoThread
  /\ active < MaxBackups
  /\ active' = active + 1
  /\ UNCHANGED <<main, mutex, dir, job, table, running, zombies, overtaken, opened>>

CountBackup(t) ==
  /\ Go(t, "backup", "fork")
  /\ mutex = NoThread
  /\ active < MaxBackups
  /\ active' = active + 1
  /\ backups' = [backups EXCEPT ![t] = @ + 1]
  /\ UNCHANGED <<main, mutex, dir, file, at, ind, aux, table, running, zombies,
                 overtaken, opened>>

(* The limit is reached: wait() with the mutex locked. *)
StartWait(t) ==
  /\ Go(t, "backup", "wait")
  /\ mutex = NoThread
  /\ active >= MaxBackups
  /\ mutex' = t
  /\ UNCHANGED <<main, dir, job, table, children, opened>>

(* Mutant of WaitForChild: the limit checked, nobody waited for. *)
WaitForNobody(t) ==
  /\ Go(t, "wait", "fork")
  /\ mutex' = NoThread
  /\ backups' = [backups EXCEPT ![t] = @ + 1]
  /\ UNCHANGED <<main, dir, file, at, ind, aux, table, children, opened>>

WaitForChild(t) ==
  /\ Go(t, "wait", "fork")
  /\ zombies > 0 \/ running = {}
  /\ IF zombies > 0 THEN zombies' = zombies - 1 /\ UNCHANGED overtaken
     ELSE overtaken' = overtaken + 1 /\ UNCHANGED zombies
  /\ mutex' = NoThread
  /\ backups' = [backups EXCEPT ![t] = @ + 1]
  /\ UNCHANGED <<main, dir, file, at, ind, aux, table, active, running, opened>>

(* do_fork, with the table locked, succeeding or not.  The child names its *)
(* file after the entry in its copy of the buffer.                         *)
Child(t) ==
  [by |-> t, of |-> file[t], run |-> runs[file[t]], at |-> at[t],
   number |-> backups[t], named |-> BufferedName(entry[t]), torn |-> store # committed,
   refilled |-> read > BufferSize]

(* Mutant of Fork: fork() without do_fork. *)
ForkUnlocked(t) ==
  /\ Go(t, "fork", "command")
  /\ \/ UNCHANGED running
     \/ running' = running \cup {Child(t)}
  /\ at' = [at EXCEPT ![t] = @ + 1]
  /\ UNCHANGED <<main, mutex, dir, file, ind, aux, backups, table, active, zombies,
                 overtaken, opened>>

Fork(t) ==
  /\ Go(t, "fork", "command")
  /\ CanWrLock(tableLock)
  /\ \/ UNCHANGED running
     \/ running' = running \cup {Child(t)}
  /\ at' = [at EXCEPT ![t] = @ + 1]
  /\ UNCHANGED <<main, mutex, dir, file, ind, aux, backups, table, active, zombies,
                 overtaken, opened>>

ChildExits ==
  /\ \E child \in running : running' = running \ {child}
  /\ zombies' = zombies + 1
  /\ UNCHANGED <<main, pc, mutex, dir, job, table, active, overtaken, opened>>
-----------------------------------------------------------------------------
(* main() *)

JoinThreads ==
  /\ main = "join"
  /\ \A t \in Threads : pc[t] = "end"
  /\ main' = "reap"
  /\ UNCHANGED <<pc, mutex, dir, job, table, children, opened>>

(* One wait() for every backup that is counted. *)
Reap ==
  /\ main = "reap"
  /\ active > 0
  /\ zombies > 0 \/ running = {}
  /\ active' = active - 1
  /\ zombies' = IF zombies > 0 THEN zombies - 1 ELSE 0
  /\ UNCHANGED <<main, pc, mutex, dir, job, table, running, overtaken, opened>>

Exit ==
  /\ main = "reap"
  /\ active = 0
  /\ main' = "exit"
  /\ UNCHANGED <<pc, mutex, dir, job, table, children, opened>>
-----------------------------------------------------------------------------
Step(t) ==
  \/ ReadDir(t) \/ NoMoreEntries(t) \/ NotAJob(t) \/ OpenFiles(t) \/ OpenFails(t)
  \/ EndOfFile(t) \/ Begin(t) \/ RdLockTable(t) \/ PrintBracket(t)
  \/ BracketFails(t) \/ LockList(t) \/ Relock(t) \/ ApplyPair(t) \/ ReadFails(t)
  \/ DeleteFails(t) \/ Unlock(t) \/ Show(t) \/ CountBackup(t) \/ StartWait(t)
  \/ WaitForChild(t) \/ Fork(t)

Next ==
  \/ \E t \in Threads : Step(t)
  \/ ChildExits \/ JoinThreads \/ Reap \/ Exit

(* Threads that can run do, and a backup, which takes no lock, ends. *)
Fairness ==
  /\ \A t \in Threads : WF_vars(Step(t))
  /\ WF_vars(ChildExits)
  /\ WF_vars(JoinThreads \/ Reap \/ Exit)

Spec == Init /\ [][Next]_vars /\ Fairness
-----------------------------------------------------------------------------
(* Properties *)

(* Every variable stays in its type. *)
TypeOK ==
  /\ main \in {"join", "reap", "exit"}
  /\ pc \in [Threads -> {"dir", "entry", "command", "rdtable", "bracket", "lists",
                         "pairs", "unlock", "show", "backup", "wait", "fork",
                         "relock", "end"}]
  /\ mutex \in Threads \cup {NoThread}
  /\ read \in 0..Len(Entries) /\ entry \in [Threads -> 1..Len(Entries)]
  /\ file \in [Threads -> Names]
  /\ at \in [Threads -> Nat] /\ ind \in [Threads -> Nat]
  /\ aux \in [Threads -> BOOLEAN] /\ backups \in [Threads -> Nat]
  /\ store \in [Keys -> Values \cup {Absent}]
  /\ committed \in [Keys -> Values \cup {Absent}]
  /\ tableLock \in RwLocks(Threads) /\ listLock \in [Lists -> RwLocks(Threads)]
  /\ leak \in [Threads -> SUBSET Lists]
  /\ active \in 0..MaxBackups /\ zombies \in Nat /\ overtaken \in Nat
  /\ \A child \in running : child.by \in Threads /\ child.named \in Names
  /\ runs \in [JobFiles -> Nat] /\ unopened \in Nat /\ misread \in BOOLEAN

(* A job runs once, however the threads take turns at the directory, and   *)
(* each is run, or could not be opened, once the directory was read to its *)
(* end: as long as no thread used the name of its entry after a readdir()  *)
(* of another had refilled the buffer, which only happens in a directory   *)
(* larger than the buffer.                                                 *)
JobsRunOnce ==
  /\ misread => read > BufferSize
  /\ ~misread =>
       /\ \A f \in JobFiles : runs[f] <= 1
       /\ main = "exit" /\ read = Len(Entries) =>
            Cardinality({f \in JobFiles : runs[f] = 1}) + unopened = Cardinality(JobFiles)

(* Two children never write the same .bck file, and a file is named after  *)
(* the job that asked for the backup: again unless the buffer was          *)
(* refilled, since the child takes the name from its copy of the buffer.   *)
BackupFilesDiffer ==
  \A c, d \in running :
    \/ c.refilled \/ d.refilled
    \/ /\ c.named = c.of
       /\ c # d => <<c.named, c.number>> # <<d.named, d.number>>

(* No one sees half of a WRITE or DELETE: not SHOW, nor a READ in the      *)
(* lists it has locked without the table, nor the copy of the table a      *)
(* backup is made from.  A DELETE that could not print counts as far as it *)
(* went.                                                                   *)
NoTornBatch ==
  /\ \A child \in running : ~child.torn
  /\ \A t \in Threads :
       /\ pc[t] = "show" /\ CanWrLock(tableLock) => store = committed
       /\ pc[t] = "pairs" /\ Cmd(t).op = "READ" =>
            \A k \in Keys : ListOf[k] \in HeldLists(t) => store[k] = committed[k]

(* Between two commands a thread has no lock, but for those of a DELETE    *)
(* that could not print, which keeps the table with its lists.             *)
LocksComeBack ==
  \A t \in Threads :
    pc[t] \in {"dir", "entry", "command", "backup", "wait", "fork", "end"} =>
      /\ HeldLists(t) = leak[t]
      /\ Holds(tableLock, t) <=> leak[t] # {}

(* Each backup that runs, was forgotten as a zombie, or is about to be     *)
(* forked is counted, but for those whose wait() was answered that there   *)
(* is no child because others that were counted were not forked yet, or    *)
(* never will be since their fork() failed: so only these exceed           *)
(* max_backups or outlive main.  overtaken counts every such wait() since  *)
(* the start, so that the bound only grows.                                *)
ChildrenAreCounted ==
  Cardinality(running) + zombies + Cardinality({t \in Threads : pc[t] = "fork"})
    <= active + overtaken

(* main comes to its end, unless a DELETE kept its locks: no thread waits  *)
(* for ever for a lock, for the mutex of the directory that another holds  *)
(* in wait(), or for a child.                                              *)
EndsUnlessDeleteFailed ==
  <>(main = "exit" \/ \E t \in Threads : leak[t] # {})
=============================================================================
