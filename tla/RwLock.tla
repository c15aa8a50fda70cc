------------------------------- MODULE RwLock -------------------------------
(***************************************************************************)
(* The value of one pthread_rwlock_t, as the server's table lock, its      *)
(* list locks and its AVL locks use it: a set with the writing thread, if  *)
(* any, and the set of reading threads.  The locks are initialised with    *)
(* default attributes, so (glibc) a reader is admitted whenever nobody     *)
(* writes, even if a writer is waiting.  The error returns of the pthread  *)
(* calls are not modelled.                                                 *)
(***************************************************************************)

RwLocks(T) == [writer : SUBSET T, readers : SUBSET T]

FreeLock == [writer |-> {}, readers |-> {}]

CanRdLock(lock) == lock.writer = {}

CanWrLock(lock) == lock.writer = {} /\ lock.readers = {}

RdLocked(lock, t) == [lock EXCEPT !.readers = @ \cup {t}]

WrLocked(lock, t) == [lock EXCEPT !.writer = @ \cup {t}]

Unlocked(lock, t) == [writer  |-> lock.writer \ {t},
                      readers |-> lock.readers \ {t}]

Holds(lock, t) == t \in lock.writer \/ t \in lock.readers
=============================================================================
