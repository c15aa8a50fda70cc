------------------------------ MODULE Backups ------------------------------
(***************************************************************************)
(* The BACKUP command of the job threads (do_commands in server/main.c):   *)
(* the counter active_backups, the mutex that protects it and the reading  *)
(* of the jobs directory, and the child processes.                         *)
(*                                                                         *)
(* A job thread takes a file from the directory, runs its BACKUP commands  *)
(* and comes back for another file.  A child is running until it exits and *)
(* a zombie until a wait() of the process reaps it; wait() blocks while    *)
(* there are children and none has exited, and fails (ECHILD) when there   *)
(* are none.  The table lock do_fork takes is in module KvsStore.          *)
(***************************************************************************)
EXTENDS Naturals, FiniteSets

CONSTANTS Threads,      \* the job threads, max_threads of them
          NoThread,
          MaxBackups,   \* max_backups
          Files,        \* .job files in the directory
          BackupsPerFile

ASSUME BackupsAssumption ==
  /\ IsFiniteSet(Threads) /\ Threads # {}
  /\ NoThread \notin Threads
  /\ MaxBackups \in Nat \ {0}
  /\ Files \in Nat /\ BackupsPerFile \in Nat

VARIABLES
  pc,       \* where each job thread is
  mutex,    \* its holder
  files,    \* files readdir has not returned yet
  todo,     \* BACKUP commands left in the file of each thread
  active,   \* active_backups
  running,  \* children still writing their backup
  zombies   \* children that have exited and were not waited for

vars == <<pc, mutex, files, todo, active, running, zombies>>

(* A job thread that main cannot create, or that cannot block SIGUSR1,     *)
(* does nothing.                                                           *)
Init ==
  /\ pc \in [Threads -> {"files", "end"}]
  /\ mutex = NoThread
  /\ files = Files
  /\ todo = [t \in Threads |-> 0]
  /\ active = 0
  /\ running = 0
  /\ zombies = 0

Go(t, from, to) == pc[t] = from /\ pc' = [pc EXCEPT ![t] = to]
-----------------------------------------------------------------------------
(* Mutant of NextFile: the mutex stays locked while the file is read. *)
NextFileLocked(t) ==
  /\ mutex = NoThread
  /\ files > 0
  /\ Go(t, "files", "command")
  /\ mutex' = t
  /\ files' = files - 1
  /\ todo' = [todo EXCEPT ![t] = BackupsPerFile]
  /\ UNCHANGED <<active, running, zombies>>

(* readdir under the mutex, which is released for the time of the file.    *)
NextFile(t) ==
  /\ mutex = NoThread
  /\ files > 0
  /\ Go(t, "files", "command")
  /\ files' = files - 1
  /\ todo' = [todo EXCEPT ![t] = BackupsPerFile]
  /\ UNCHANGED <<mutex, active, running, zombies>>

(* The file, or its output file, cannot be opened: the thread ends. *)
FileFails(t) ==
  /\ mutex = NoThread
  /\ files > 0
  /\ Go(t, "files", "end")
  /\ files' = files - 1
  /\ UNCHANGED <<mutex, todo, active, running, zombies>>

NoMoreFiles(t) ==
  /\ mutex = NoThread
  /\ files = 0
  /\ Go(t, "files", "end")
  /\ UNCHANGED <<mutex, files, todo, active, running, zombies>>

EndOfFile(t) ==
  /\ todo[t] = 0
  /\ Go(t, "command", "files")
  /\ UNCHANGED <<mutex, files, todo, active, running, zombies>>

(* Mutant of Backup: the counter is used without the mutex. *)
BackupUnlocked(t) ==
  /\ todo[t] > 0
  /\ todo' = [todo EXCEPT ![t] = @ - 1]
  /\ Go(t, "command", "check")
  /\ UNCHANGED <<mutex, files, active, running, zombies>>

Backup(t) ==
  /\ todo[t] > 0
  /\ todo' = [todo EXCEPT ![t] = @ - 1]
  /\ Go(t, "command", "check")
  /\ mutex = NoThread
  /\ mutex' = t
  /\ UNCHANGED <<files, active, running, zombies>>

Check(t) ==
  /\ pc[t] = "check"
  /\ pc' = [pc EXCEPT ![t] = IF active >= MaxBackups THEN "wait" ELSE "count"]
  /\ UNCHANGED <<mutex, files, todo, active, running, zombies>>

Count(t) ==
  /\ Go(t, "count", "unlock")
  /\ active' = active + 1
  /\ UNCHANGED <<mutex, files, todo, running, zombies>>

(* Mutant of WaitForChild: it goes on without waiting (WNOHANG). *)
DoNotWait(t) ==
  /\ Go(t, "wait", "unlock")
  /\ zombies' = IF zombies > 0 THEN zombies - 1 ELSE 0
  /\ UNCHANGED <<mutex, files, todo, active, running>>

(* wait(), with the mutex held: a child is reaped. *)
WaitForChild(t) ==
  /\ Go(t, "wait", "unlock")
  /\ zombies > 0
  /\ zombies' = zombies - 1
  /\ UNCHANGED <<mutex, files, todo, active, running>>

(* wait() fails, the counted children having not been forked yet, or not   *)
(* having been forked at all; the thread goes on.                          *)
WaitFails(t) ==
  /\ Go(t, "wait", "unlock")
  /\ running + zombies = 0
  /\ UNCHANGED <<mutex, files, todo, active, running, zombies>>

Unlock(t) ==
  /\ Go(t, "unlock", "fork")
  /\ mutex' = NoThread
  /\ UNCHANGED <<files, todo, active, running, zombies>>

Fork(t) ==
  /\ Go(t, "fork", "command")
  /\ running' = running + 1
  /\ UNCHANGED <<mutex, files, todo, active, zombies>>

(* do_fork fails; active_backups keeps counting the child. *)
ForkFails(t) ==
  /\ Go(t, "fork", "command")
  /\ UNCHANGED <<mutex, files, todo, active, running, zombies>>

(* A child has written its backup, and exits. *)
ChildExits ==
  /\ running > 0
  /\ running' = running - 1
  /\ zombies' = zombies + 1
  /\ UNCHANGED <<pc, mutex, files, todo, active>>
-----------------------------------------------------------------------------
Step(t) ==
  \/ NextFile(t) \/ FileFails(t) \/ NoMoreFiles(t) \/ EndOfFile(t)
  \/ Backup(t) \/ Check(t) \/ Count(t) \/ WaitForChild(t) \/ WaitFails(t)
  \/ Unlock(t) \/ Fork(t) \/ ForkFails(t)

Next == ChildExits \/ \E t \in Threads : Step(t)

(* Threads that can run do, and a backup, which takes no lock, ends.       *)
Fairness ==
  /\ \A t \in Threads : WF_vars(Step(t))
  /\ WF_vars(ChildExits)

Spec == Init /\ [][Next]_vars /\ Fairness
-----------------------------------------------------------------------------
(* Properties *)

TypeOK ==
  /\ pc \in [Threads -> {"files", "command", "check", "count", "wait",
                        "unlock", "fork", "end"}]
  /\ mutex \in Threads \cup {NoThread}
  /\ files \in 0..Files
  /\ todo \in [Threads -> 0..BackupsPerFile]
  /\ active \in 0..MaxBackups
  /\ running \in Nat
  /\ zombies \in Nat

(* The threads that were let through and have not called fork yet. *)
LetThrough == {t \in Threads : pc[t] \in {"unlock", "fork"}}

(* Between the unlock of the mutex and fork() a backup is counted but is   *)
(* no child, so that wait() may fail and let a thread through: the limit   *)
(* may be passed, but never by more than there are job threads for, nor    *)
(* when the threads are no more than the limit.                            *)
OvershootBounded ==
  running + zombies + Cardinality(LetThrough)
    <= IF MaxBackups > Cardinality(Threads) THEN MaxBackups ELSE Cardinality(Threads)

(* Every job thread gets to the end of its files, though it may wait for a *)
(* child with the mutex of the directory locked.                           *)
JobsEnd == <>(\A t \in Threads : pc[t] = "end")

(* "Max number of concurrent backups" (main.c:48).                         *)
LimitKept == running <= MaxBackups
=============================================================================
