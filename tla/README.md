# IST-KVS in TLA+

A verification project for the IST-KVS course project. The program is the final server and client,
`src/Project2/proj_SO24-25-p2/src/` (file names below are relative to it): a server reads
`.job` files with several *job threads*, which work on one hash table; *clients* connect over
named pipes, are handed to a fixed number of *session threads*, and subscribe to keys, whose
changes are sent to them. `BACKUP` forks the process and lets the child print the table. The first
delivery, `src/Project1/`, is the store and its job threads alone; it is modelled too, because its
main() ends and its DELETE fails differently.

## Inventory

| Part | State | Operations | Interacts with | What makes it correct |
|---|---|---|---|---|
| Store (`server/operations.c`, `kvs.c`) | hash table of 26 lists, a reader-writer lock for the table and one per list | `kvs_write`, `kvs_read`, `kvs_delete`, `kvs_show`, `do_fork` + `kvs_backup` | job threads call it; subscriptions hang on its nodes | a batch is atomic for every other command; every way out releases the locks; no deadlock; the child of a fork has whole batches |
| Client queue (`server/main.c`) | linked list, two semaphores, `queue_mutex` | start of the threads, `sem_init`, insertion by `main`, removal by `client_thread` | main and session threads | no node lost, freed twice or used after it is freed; a client gets one session; the queue is bounded |
| Backups (`server/main.c`) | directory stream, `mutex`, `active_backups`, child processes | `readdir` loop, `BACKUP` | job threads, the kernel | at most `max_backups` at once; job threads end |
| Subscriptions (`operations.c`, `kvs.c`, `avl.c`, `main.c`) | a tree of sessions per key, a tree of keys and a counter per session | `kvs_subscribe`, `kvs_unsubscribe`, `kvs_disconnect`, `clean_session_avl`, and the WRITE and DELETE of the job threads | sessions, jobs, pipes | the two trees and the counter agree; the limit holds; nobody is told of a key it did not ask for; nobody waits for ever |
| Session lifecycle (`server/main.c`, `operations.c`, `common/io.c`) | `ClientData` with three descriptors, `sig_flag` | connect, request loop, end of file, `avl_clean_sessions` on SIGUSR1 | pipes, signals | a descriptor or buffer is released once, and not while in use; the signal is acted upon |
| Client (`client/api.c`, `client/main.c`) | three named pipes, a notification thread, the flag `terminate` | connect, disconnect, subscribe, unsubscribe, `notif_function` | server | each request gets its own answer; both threads end |
| AVL trees (`server/avl.c`) | balanced trees with a lock | add, remove, has, walk, clean | used by the subscriptions | search order, balance and stored heights; each entry met once |
| Parsers (`server/parser.c`, `client/parser.c`) | the file offset, arrays of fixed size | `get_next`, `parse_write`, `parse_read_delete`, `parse_wait`, `parse_list`, `read_uint` | `do_commands`, the client's `main` | a bad line never runs in part and never takes a good one with it; arrays are not outgrown |
| `common/io.c`, string helpers | none | `read_all`, `write_all` | pipes | whole messages; interruption is told from end of file |
| Part 1 (`src/Project1`) | table, directory stream, `active_backups` | the threads, their commands, `main` to its end | | as the store and the backups; main waits for all backups |
| `proj_SO24-25-p2 copy`, `proj_SO24-25-p2 (1)` | earlier states of part 2 | | | not modelled, see below |

What is hard here: batches that take several locks in a computed order; a READ that takes other
locks than a SHOW; a `fork` in a process full of locks; a queue shared by threads of which only
some take its mutex; a semaphore wait that a signal cuts short, or that comes before `sem_init`;
counting before forking; a name in a buffer that others refill; two trees and a counter that four
code paths keep in step under three kinds of locks; recursion that calls back into the tree it
walks; a signal between a test and the call it should interrupt. `PROJECT.json` lists each under
`hazards` with its line.

## Modules

| Module | Models | Uses |
|---|---|---|
| `RwLock` | the value of one `pthread_rwlock_t` (writer, readers) | |
| `AtomicStore` | the promise of the store: each command at one instant | |
| `KvsStore` | the store under the job threads, lock by lock and pair by pair | `RwLock`; refines `AtomicStore` |
| `ClientQueue` | `main` and the session threads around the queue | |
| `Backups` | job threads, directory mutex, children | |
| `Subscriptions` | the books of the subscriptions under sessions and jobs | `RwLock` |
| `ClientSession` | clients, their pipes and session threads, SIGUSR1 on both sides | |
| `SubscriberMap` | the promise of a tree: a map from keys to descriptors | |
| `AvlTree` | one tree, node by node, with the heights it stores | refines `SubscriberMap` |
| `CommandReader` | a text becoming commands, in the server and in the client | |
| `PartOne` | the first delivery from the creation of the threads to the end of `main` | `RwLock` |
| `KvsStoreProofs`, `ClientQueueProofs`, `BackupsProofs`, `SubscriptionsProofs`, `ClientSessionProofs`, `AvlTreeProofs`, `CommandReaderProofs`, `PartOneProofs` | theorems | the module they are named after |
| `MCKvsStore`, `MCSubscriptions`, `MCClientSession`, `MCAvlTree`, `MCCommandReader`, `MCPartOne` | constants for TLC | |

How they fit together: a job thread is `CommandReader` feeding `KvsStore` and `Backups`
inside the directory loop; its WRITE and DELETE are what `Subscriptions` sees as jobs and
`ClientSession` as notifications. `ClientQueue` ends where `ClientSession` begins (there the queue
is a sequence); `Subscriptions` has the locks and counters of the requests whose messages
`ClientSession` carries; `AvlTree` justifies taking the trees of both as sets and sequences.
`PartOne` composes directory, store and backups in one module, over a table with the same locks.

### KvsStore

A thread is at one of nine labels. `Begin` is the call from `do_commands`; `RdLockTable` (WRITE,
DELETE) or `SortRead` (READ) sorts the batch; `LockList` is one round of the locking loop, with the
striking out of duplicates of `kvs_write`; `WritePair`, `ReadPair`, `DeletePair` are one round of
the loop over the pairs; `UnlockList` and `Return` release in the order of the code. SHOW and
BACKUP take the table lock in `WrLockTable`, then `ShowList` per list or `Fork`. `OpenFails`,
`LineFails`, `Close`, `ShowFails` and `ForkFails` are the error paths of the I/O and of `fork`.
Keys are abstract: `ListOf` is `hash()`, `Rank` the order of `strcasecmp`. `SortedIndexes` is what
`insertion_sort` computes, the stable order by rank. `committed` is a history variable, the
contents as of the last finished command. Left out: the order of nodes in a list and the printing
inside the child, which has its own copy.

The reader-writer locks are those of glibc with default attributes: a reader gets in whenever
nobody writes, also when a writer waits.

### ClientQueue

Each step of `main` and of a session touches one shared field (`queue.head = client->next` reads
a field only the session can see change, or `main` through `tail`, at one point of time).
Dereferencing NULL or a freed node sets `fault`, after which the process is over. `raced` records
that `main` and a session were in the queue together; `fifo` is the queue that was meant.
`StartThreads` starts any subset of the threads (`pthread_create` and `create_avl` failures are
only reported), `InitSemaphores` follows it as in the code, and `WaitEarly` is a session that has
called `sem_wait` on the zeroed semaphore before: what it does afterwards is undefined, so it may
take a client (`WakeEarly`) or sleep for ever. `MaxSignals` is at most one: `signal()` installs a
one-shot handler (System V semantics), so a second SIGUSR1 kills the process.

### Backups

`NextFile` is `readdir` and the unlock after it; a file stands for its number of BACKUP commands.
`Backup`, `Check`, `Count`, `WaitForChild`, `WaitFails`, `Unlock`, `Fork`, `ForkFails` are the lines of
the BACKUP case. `wait()` blocks while there are running children and no zombie, reaps a zombie, and
fails when there is no child at all. Threads that cannot be created are "end" from the start.

### Subscriptions

A session serves one request at a time, a job one WRITE or DELETE of one key at a time. Every lock
that is held over more than one step is a variable: the list locks, and the lock of the tree of a
session while a DISCONNECT walks it (`walking`). The tree of a key is the sequence of its sessions
in insertion order, which determines its shape while there are at most two (`MAX_SESSION_COUNT`):
`Visits` needs the shape. `inc_num_subs` is two steps (`IncLoad`, `IncStore`), being an unlocked
`++`, and so is the `--` of `dec_num_subs` (`DecLoad`, `DecStore`), which `session_mutex` keeps
apart from other `--` only. `wants` (what the client of a session may be told of) and `damaged` are
history variables; `damaged` is set by the steps that break the books: a DELETE of a key of two
sessions, a DELETE between the two `add_key_session_avl` of a SUBSCRIBE, a `++` and the `--` of a
DELETE that overwrite each other, whichever is second, and a cleaning before a DELETE has counted
down. They are named in `BooksAgreeUnlessDamaged`, which thereby says that nothing else breaks the
books. `Written` are the keys that are in the table before the first client asks. A DISCONNECT whose
walk fails (the key is gone from the table) clears `result`.

### ClientSession

`cpc` and `npc` are the labels of the two threads of a client, `pc` those of the session threads,
`mainPc` that of the server's `main`. An `open()` of a named pipe waits for the other side, so
`OpenPipe` is one step of both. The descriptors of the server are a table of which `open()` takes
the lowest free entry (`LowestFree`), and everybody writes to numbers (`Writes`): a number that is
kept in the tree of a key (`keySubs`) after its pipe was closed may come to mean another pipe. The
`ClientData` of a client is used until it is in `freed`; `UseFreed`, and `CleanData` of data freed
before, set `fault`, after which nothing is said. `clients_data` (`info`) keeps its pointer when a
session ends, as in the code. `kvs_subscribe` takes the descriptor as an argument (`EnterSubscribe`) before it
waits for the list of its key; the locks themselves are in `Subscriptions`, and here `KeepList` says that a
job thread has the list of a key for good (it waits for another WRITE, or for the tree of a session that hangs in its
DISCONNECT), so that `Subscribe` and `Unsubscribe` of that key never go on.

`main` reads a client from the server pipe (`ReadServerPipe`) and then waits for a place in the queue: `Admit` with
one, or `SignalCutsWait`, which puts the client in the queue without, as the result of `sem_wait` is not
looked at. `main` tests `sig_flag` before it enters `read()` (`TestFlag`, `EnterServerRead`); `Signal` in
between sets `late`, and the `read` it should have interrupted goes on. A `Signal` after that `read` and
before the wait for a place is pending for as long as the queue is full. `CleanTree` and `CleanData`
are `avl_clean_sessions`. On the client, `Kill` and `StoreTerminate` are the two steps with which the
notification thread stops the main thread, `Check` is the look at the flag, and `EndOfInput` the
`EOC` that `get_next` returns again and again at the end of a file; a terminal (`Terminals`) has no
end. The handler is installed by `signal()` under `-std=c17 -D_POSIX_C_SOURCE`, which does not
restart system calls. `RequestFails`: the client does not ignore SIGPIPE, so its EPIPE branches are
never reached.

### AvlTree

The tree is a nested record with the `height` field the code stores and trusts. `InsertNode`,
`RemoveNode`, `BalanceNode`, the rotations, `MinValueNode` and `Found` follow `avl.c` function by
function; `Walk` is the order in which `send_to_all_fds` and `apply_to_all_nodes` meet the nodes.
`Add`, `Remove` and `Clean` are one step each, since each holds the lock of its tree throughout.
What the code does by recursion is a recursive function here, defined over `Trees[Height(node)]`,
the trees of at most as many levels as the node has by its `height`: the subtrees a call descends
into are among them. `Rebalanced` is the end of `insert_node` and of `remove_node`, the new height
and `balance_node`.

### CommandReader

The text is a sequence of characters made of one to three lines. `GetNext` is `get_next`: the words
with the first letter are tried in turn, and how far a `read()` has gone when none fits (`Asked`)
decides where the rest of the line begins. `Open`, `ParsePair`, `ParseKey`, `Close`, `ParseNumber`
are the rounds of the `parse_` functions, `GiveUp` their error exits with the `cleanup` each has.
`ReadString` is what `read_string` returns and how far it reads, `StoredBy` how many characters it
stores: with a string of `MAX_STRING_SIZE` characters that none of the next ends it writes the 0
that ends strings one place behind its array (`server/parser.c:44`, `client/parser.c:46`). The array
is a local of variable length of `parse_write`, `parse_read_delete` or `parse_list`; C does not
define what lies behind it (gcc rounds 40 bytes up to 48, so that it is padding), and the model
records that the place is written and takes it to have no other effect. The caller gives the command
up in that case, and copies nothing. `Limit` is the number of places of the list: `MAX_WRITE_SIZE`
in a job file, one on the console. `who` says which program reads: the job reader stops at the end
of the text, the console asks again and again. `lines`, `from`, `run` and `stored` are history: what
the text was made of, where the command began, what became of it, and how much `read_string` stored.

`InOrder` says which lines are in order and what they mean, as a grammar that knows nothing of the
reader: a comment or an empty line, a bare keyword, a keyword with a number (after which a job file may have a
comment), a keyword with a list of strings or of pairs that fit. TLC finds (an `ASSUME` of
`MCCommandReader`) that the lines of the instance written down as good are those.

### PartOne

A thread reads an entry under the mutex (`ReadDir`) and its name afterwards, once for the paths
(`OpenFiles`, `NotAJob`, `OpenFails`) and once per backup (`Child`): `BufferedName` is what the
buffer of the stream holds by then. The table has the locks of `KvsStore`, released in one step.
`DeleteFails` is `kvs_delete` when it cannot print, which returns with its locks (`leak`); a thread
that asks for one of them again gets EDEADLK, and is followed no further (`"relock"`). `JoinThreads`,
`Reap` and `Exit` are the end of `main`.

## Runs

| Run | Instance | Result |
|---|---|---|
| `store_letters` | 2 job threads, 2 commands each out of 6, keys `a`, `b`, `B` on two lists | holds, 143 000 states |
| `store_mixed` | 2 threads, 1 command, keys `1`, `a`, `b` | `NoCircularWait` violated |
| `queue` | 3 clients, 2 sessions, 1 signal | holds, 116 094 states |
| `queue_fault` | 2 clients, 2 sessions, no signal | `NeverFaults` violated |
| `backups` | 3 job threads, limit 2, 4 files with 2 backups | holds, 16 055 states |
| `subs` | 2 sessions (3 and 1 requests), 3 keys on 2 lists, in the table from the start, a job of 1 command, limit 2 | holds, 672 887 states |
| `subs_delete` | 2 sessions, 1 key, a job of 2 commands | `DeletedKeysDoNotCount` violated |
| `subs_disconnect` | the same | `NoCircularWait` violated |
| `session` | 2 clients (3 and no requests), 1 session, 1 key, 1 WRITE or kept list, the first client may die, 1 signal | holds, 160 427 states |
| `avl` | 10 keys, one of them with two descriptors | holds, 12 080 states (every reachable tree) |
| `reader` | texts of up to 3 lines, of 20 job or 11 console lines | holds, 58 626 states |
| `part1` | 2 threads, 3 jobs and another entry, a buffer of 3 entries, limit 2 | holds, 35 875 states |

`CHECK_DEADLOCK FALSE` stands in every configuration but `avl`: job files, texts and clients
are finite, and a process that has faulted or deadlocked (which the properties talk about) makes no
step either.

What the passing runs show:

- **Store.** `IdleHoldsNothing`: every way out of a command releases every lock.
  `NoTornBatch`: READ under list locks alone, SHOW and BACKUP under the table lock alone, see whole
  batches. `NoCircularWait`: for keys of one kind the sorted locking order excludes deadlock.
  `AllJobsDone`: every job file is finished. `ImplementsAtomicStore`: the store refines
  `AtomicStore`; updates take effect with their last pair, the others when they end; a command cut
  short by I/O still acts at one instant. Two threads suffice for a torn batch or a circle of two,
  one list with two keys and one with one for both ways of sharing; `b` and `B` are
  equal for `strcasecmp` and different for `strcmp`, so that the second WRITE of the instance has
  duplicates that end up apart and are not struck out: both are written, in order. (That its subscribers
are then told twice is not in the model, which has no subscribers.) `TypeOK` has `LoopsInBounds`: no loop
reads a position outside of its batch or its array, nor the key of an entry that was struck out.
- **Queue.** `OneSessionPerClient`, `PlacesConserved` (a place per interrupted `sem_wait` is the
  only excess), `IntactUnlessRaced` (the missing mutex in `main` is all that is wrong),
  `ServedUnlessBusy` (a client waits only for sessions that are taken, were never started, or sleep
  in a wait that came before `sem_init`). Three clients are one more than there are places, so `main`
  blocks and can be interrupted.
- **Backups.** `OvershootBounded`: the limit may be passed, by no more than there are job
  threads. `JobsEnd`: waiting for a child with the directory mutex locked blocks nobody for ever.
  Three threads against a limit of two leave room for one thread more than may fork.
- **Subscriptions.** `ToldOnlyWhatItWants`, `BooksAgreeUnlessDamaged`, `DisconnectAnsweredOnce`,
  `OnlyDisconnectDeadlocks`, `JobsDoneUnlessDisconnectHangs`. Session 0 can take its two
  subscriptions and ask for a third key, which the limit must refuse, or leave one while a DELETE
  takes another; session 1 can share a key with it. The keys are written before the clients come
  (`Written`), so that the one command of the job thread can be the DELETE, at any point of the
  requests: between the read and the write of either counter, and while a DISCONNECT walks. A key
  that is deleted and then written again is in `subs_delete` (two commands) and in the proofs, not
  in this run.
- **Sessions.** `OrderlyClientsAreSafe`: only SIGUSR1, or a client that dies in its session, makes
  the server use what it has freed. `NoDescriptorLeak`: every way a session ends, SIGUSR1 included,
  closes its descriptors. `AnswersMatchRequests`: each request gets its own answer;
  `AnsweredUnlessHung`: and gets one, unless its session hangs in a DISCONNECT or waits for the list
  of a key that a job thread keeps. `NotesGoHome`: nobody is told of the key of the client that had
  the descriptor before. `BlankOnlyAfterSignal`: an end of file is taken for an answer only when
  SIGUSR1 closed the pipe. `LeavesWithServer`: a client whose pipes were closed ends; only one with
  a terminal can miss the signal and wait for its user. `CleanedUnlessLate`: SIGUSR1 is acted upon,
  unless it comes between the test of the flag and the `read` and nobody connects, or between that
  `read` and the wait for a place in a full queue and every session has a client.
  `ConnectedUnlessBusy`: nobody waits for a session that is free. Two clients in one session make
  the second one reuse descriptors, session number and stale pointer of the first; three requests
  are SUBSCRIBE, UNSUBSCRIBE, DISCONNECT, the only way to leave after a subscription. With two
  sessions the safety properties were tried on smaller inputs only (one request: 4.2 million
  states), which is why the run has one.
- **Trees.** After any insertions and removals, `BalancedEverywhere`: every node stores one more
  than the greater height of its subtrees, and these differ by one at most. `WalkMeetsEachOnce`: the
  walk of a notification is in the order of the keys, and meets exactly those `has_key` finds.
  `ImplementsSubscriberMap`: the tree is the map `avl.h` promises. Ten keys give trees of height
  four, in which each of the four rotations happens below the root, at insertion and at removal.
- **Parsers.** `LinesStandAlone`: whatever a line was, the next command starts at a line, and a good
  line (`InOrder`) read from its start runs as written, as a whole. `RunsWhatIsWritten`: no command
  is put together from parts of a line that was given up. `ReadsToTheEnd`. Three lines are one
  before, the one looked at, and one after; the last may lack its line end. The string limit is 4
  (40 in the code), the array 3 (256), the largest number 99, so that each is met and passed by a
  line of the instance. `TypeOK` has `ArraysHold`: a list never outgrows its own array, the
  console's one place included; what is kept fits its place; and `read_string` passes its array by
  the one place above, no further.
- **Part 1.** `JobsRunOnce` and `BackupFilesDiffer` hold until the buffer of `readdir` is refilled:
  the instance has one entry more than the buffer takes. `NoTornBatch`, `LocksComeBack` (a DELETE
  that could not print is the only command that keeps locks), `ChildrenAreCounted`,
  `EndsUnlessDeleteFailed` (main ends, with its threads and its children).

`TypeOK` is checked where the values could really leave their range (the loops of
`KvsStore` over their batch and its sorted array, the counter of `Backups`, the arrays of `CommandReader`); the `TypeOK` of the
other modules is documentation of their variables.

### Known defects

Four runs end in a violation. `findings` in `PROJECT.json` has each with its line and the comment
or test it contradicts: batches of letters and digits that lock lists in opposite orders
(`store_mixed`), the insertion without `queue_mutex` (`queue_fault`), a DELETE that visits the left
subtree twice (`subs_delete`), a DISCONNECT that waits for the lock it holds itself
(`subs_disconnect`).

One comment says the opposite of the code: `operations.c:321` has the leftmost of equal keys stay,
but the code below it keeps the rightmost, as `server/jobs/test1.job:58` wants it and
`ImplementsAtomicStore` says (its mutant `KeepLeftmost` is the comment).

Others are named by a property that holds, as its exception:

- a backup counted before it is forked lets `wait()` find no child, and the limit be passed
  (`OvershootBounded`, `ChildrenAreCounted`; `server/main.c:217`, `Project1/main.c:171`);
- a session thread that waits before `sem_init` may sleep for ever (`ServedUnlessBusy`,
  `server/main.c:659`);
- a subscription counted without a mutex, and added again after a DELETE (`BooksAgreeUnlessDamaged`;
  `server/operations.c:42`, where the comment at 47-48 says that a mutex is needed);
- a client that dies, or SIGUSR1, makes the server use freed data (`OrderlyClientsAreSafe`);
- an end of file is taken for an answer (`BlankOnlyAfterSignal`, `client/api.c:192`);
- SIGUSR1 before the `read` of `main` waits for the next client (`CleanedUnlessLate`,
  `server/main.c:683`), and before its wait for a place in a full queue, for the end of a session
  (`server/main.c:718`);
- a SUBSCRIBE or UNSUBSCRIBE waits for ever for a list that a DELETE has, which waits for a session
  that hangs in its DISCONNECT (`AnsweredUnlessHung`, `server/operations.c:655`, 704);
- `read_string` writes one place behind its array when a string has no end (`TypeOK` of `CommandReader`,
  `server/parser.c:44`, `client/parser.c:46`);
- `parse_write` skips a line after `parse_pair` has skipped one: the line after a bad pair is lost
  (the first half of `LinesStandAlone` allows it, the second speaks only of lines that are read);
- DELETE in Part 1 keeps its locks when it cannot print (`LocksComeBack`);
- an entry of `readdir` is read after the mutex is released (`JobsRunOnce`, `BackupFilesDiffer`).

### Fairness

Every thread that can take a step of its own takes one in the end (weak fairness per thread): the
kernel schedules all of them. In `ClientQueue` nothing is assumed of when a session
ends (a client may stay for ever), in `Subscriptions` nothing of when a client sends a request, in
`ClientSession` nothing of when a user connects or types, nor of when a signal is sent. A
backup, which takes no lock, ends. `CommandReader` is one thread that reads a file that is there. No
strong fairness is assumed of any lock: job files are finite, so nobody can be overtaken for ever.

## Proofs

**`KvsStoreProofs`** proves for any number of threads, keys, lists and commands, from
`StoreAssumption` alone:

- `TypeCorrect` (`TypeOK`, with `LoopsInBounds`), `NothingHeldWhenIdle`, `BatchesAreNotTorn`;
- `NoDeadlock`: `NoCircularWait` under the further hypothesis `OrderAgrees`, that the
  order of `strcasecmp` never contradicts the order of the lists. It is true of
  letters and of digits, not of both together, which `store_mixed` shows.

`NoTornBatch` is not inductive: that a batch is not seen half-done depends on which locks each
thread holds at each label, on the array of the batch covering every key by a held list even after
entries were struck out, and on the contents differing from `committed` only under a write lock.
These are the conjuncts of `IInv`: `LoopInv` (the counter is within the batch), `AheadInv` (what
the locking loop has ahead is sorted and not struck out, so that `Deduplicated` never reads a
struck-out entry), `CoverInv` (what it left behind is covered by held lists), `ListHoldInv` and
`TableHoldInv` (who holds what where), `CommitInv`. Each has a lemma saying that every step keeps
it. `NoDeadlock` adds `ClimbInv`: a thread in the locking loop holds no list above the one it wants.
Of a set of waiting threads, one in the locking loop that wants the highest list
is held up by no other of them; if none is in the loop, a thread that waits for the table waits for
one outside of the set.

Its second part, the refinement, proves `CommandsAreAtomic` (`ImplementsAtomicStore`): the initial
state of `KvsStore` maps to one of `AtomicStore`, and every step to a command of `AtomicStore`, or
to none. The mapping is the one the model states: the abstract contents are `committed`, the phase
of a thread follows from its label, its reply from what it has printed. An update acts with its last
pair, a READ, SHOW or BACKUP, and a command cut short, when it ends. That the act is the abstract
one is not seen from the step: `kvs_write` goes through the pairs in the order of an array of
positions it has sorted and struck duplicates out of, and the promise is about the pairs in the
order of the line. So `RInv` adds to `IInv`: `LabelInv` (which command, and which answer so far,
belong to a label), `SortInv` (the array is a stable sort but for entries that the next one makes
superfluous), and `ProgressInv` (after each round, the lists a thread holds are the old contents
with the pairs past applied, and its answer is that of the pairs, or lists, past). It rests on
lemmas about `SortedIndexes`: the positions are a permutation in which the pairs of one key keep
their order, hence the last pair of a key in the array is the last one of the line.

**`ClientQueueProofs`** proves `PlacesKept` (`PlacesConserved`), `OneSession`
(`OneSessionPerClient`) and `ListIntactUnlessRaced` (`IntactUnlessRaced`) for any clients and any
finite number of sessions, from `QueueAssumption`. The first follows from counting the sessions
between a wait and a post (`Placed`). The second must hold although `main` races with the sessions:
`LinkInv` says that, of the head and of the `next` fields of nodes nobody has taken, at most one
leads to each client, and none to a client that was taken or is not linked yet; `NodeInv` that a
session between load and pop has the head, and afterwards a client in `handed`. Both are kept only
while the process has not faulted: a `main` that uses a null tail stops, and a node freed under it
is one it may no longer write. Hence the conjunct `~fault => LinkInv /\ NodeInv` of `IInv`, while
`OneSessionPerClient` itself stands without condition, since the step that faults gives no session a
client.

`ListIntactUnlessRaced` says that the missing mutex is all that is wrong with the list. `SoundInv`, which
is kept until `raced`, follows `main` and the sessions through it field by field: nobody is in the
list while `main` inserts (`Exclusion`); `head`, and the `next` of each client, lead to the
following client of `fifo`, except where the thread inside has not stored a pointer yet (`ChainInv`);
a client is queued once (`OnceInv`) and not before it is linked (`FreshInv`); what `main` found, an
empty list or a last node, is still so when it acts on it (`FoundInv`); the tail is last, or about to be
cleared by the session that took the last client (`TailInv`). `PostedInv` counts: the clients in the list
are those posted, about to be posted, or about to be taken; without it a session could find an empty
list, and fault.

**`SubscriptionsProofs`** proves, for any sessions, jobs, lists, keys and limit, from
`SubscriptionsAssumption`, `TypeCorrect`, `ListsAreHeldByLabel` (`LockInv`: who has which list
locked, and how, follows from the labels), `ClientsAreToldWhatTheyWant` (`ToldOnlyWhatItWants`) and
`DeadlocksNeedDisconnect` (`OnlyDisconnectDeadlocks`). There are four layers: `TypeInv` (types, what
each label tells of the request, a session at most once in a tree); `LockInv` (whose each list lock
is, by the labels); `WalkInv` (a session that disconnects keeps the lock of its tree while it walks,
and all it has yet to visit is still in that tree); `ToldInv` (whoever is in the tree of a key wants
the key, the key is in the table, the session's own tree has it or is about to, and a session that
disconnects has it still before it). That a client is told only what it wants needs all of the last:
a DELETE takes the key out of the table before it takes it out of the trees of the sessions, and a
DISCONNECT forgets what its client wanted once it has visited all its keys, which must then have
been all the trees the session was in. The deadlock theorem needs no `ToldInv`: who waits for the
tree of a session waits for one that disconnects, and who waits for a list waits for a thread that
has it, and so is past its own wait for a list unless it disconnects.

It also proves `BooksAgree` (`BooksAgreeUnlessDamaged`) and `OneAnswerToDisconnect`
(`DisconnectAnsweredOnce`). Between two steps of a request the three books differ, and several
requests and DELETEs are under way at once. `BooksInv` gives the difference exactly, until
`damaged`: the tree of a session has the keys `Listed` (those of whose trees it is in, less the one
it is about to add, plus those that it or a DELETE is about to remove), and the counter is the
number of the keys `Counted`, likewise one step further on. At rest both are the keys in whose trees
the session is. `OneVisit` says that a DELETE under way had one session to visit, the shape of
undamaged trees; `Serving` keeps the counter, with the subscription under way, within the limit, and
the copy of it that the unlocked `++` holds up to date. `CountInv` does the same for the `--`: one
thread at a time is between its read and its write (the mutex), and what it has read is still the
counter, until a `++` has come between.

**`ClientSessionProofs`** proves, for any number of clients and sessions, any input of the clients,
and any number of notifications and kept lists, and any clients that may die, from
`SessionAssumption`: `TypeCorrect`, `DescriptorsAreGivenBack` (`NoDescriptorLeak`),
`OrderlyClientsNeverFault` (`OrderlyClientsAreSafe`), `AnswersAreWritten` (`BlankOnlyAfterSignal`),
`NotesReachTheirClient` (`NotesGoHome`) and `AnswersMatch` (`AnswersMatchRequests`). The five
properties hold for different lengths of time, and so do the layers of the invariant:

- `DataInv` holds always, after SIGUSR1 as well. `FdInv` says which client and pipe an open
  descriptor is of, and that two descriptors are never of one pipe; `PlaceInv` that a client is in
  one of the inbox, the queue and the sessions; `InfoInv` and `RequestInv` what `clients_data` and
  the message of a session may be at each label; `LockInv` that a session that waits for a list has
  a SUBSCRIBE and a descriptor for it. `NoDescriptorLeak` follows.
- `OrderInv` holds until SIGUSR1. `Served` and `Attends` relate the label of a client, those of its
  notification thread and of its session, and which of its pipes are open on which side: a session
  frees the data of its client only when that client is disconnected, ended or dead. So a fault has
  a client that died as its reason, and no response pipe is closed under a client that waits.
- `StrongInv` holds until SIGUSR1 or the first client that dies on its session (`Doomed`; the lemma
  `DoomedBefore` says that this is for good). `BooksInv` says that who is in the tree of a key is
  there with the descriptor its session has open now: this is where closing before, or
  without, cleaning the trees would show. `Exchanged` says that a client and its session have one message
  between them: in the request pipe, with the session, or in the response pipe.

**`BackupsProofs`** proves `TypeCorrect`, `Overshoot` and `LimitKeptByFewThreads` (no more threads than
the limit, and the limit is kept) for any number of threads and any limit. The invariant needs
`MutexInv` (one thread at a time between the test and the increment) and `TotalInv` (as long as the
counter is below the limit, children and threads let through are at most as many as it says; a
`wait()` that fails, or reaps, happens only at the limit).

**`PartOneProofs`** proves every safety property of the run, for any directory, jobs, threads, buffer
and limit, from `PartOneAssumption`:

- `ChildrenCounted` (`ChildrenAreCounted`). The invariant adds `JoinInv`: once `main` reaps, no thread is
  left to fork. Without it `Reap` could count down for a `wait()` that found no child while a
  thread was about to fork one.
- `DirectoryAndLoops`, with `DirInv`: the name in the buffer of `readdir` is always that of an
  entry, a thread is at an entry that was read (`EntryInv`), its command is one of the job of that
  entry, and the loops of the command stay within its pairs (`CommandInv`).
- `LocksAreGivenBack` (`LocksComeBack`) and `NothingTorn` (`NoTornBatch`), with `TableInv`:
  `LockInv` and `CoverInv` (what a thread has locked at each label, a DELETE that leaked included),
  `ExclusionInv` (a list is not written and read at once) and `CommitInv` (the contents differ from
  `committed` only under a write lock). For SHOW and for the children of `fork`, who lock no list,
  `WholeTable` says that a table nobody has locked is as it was committed.
- `EachJobOnce` (`JobsRunOnce`), with `RunInv`: an account of the entries read, the jobs run and the jobs
  that could not be opened or are being opened, as long as no name was misread.
- `BackupsUnderTheirNames` (`BackupFilesDiffer`), with `NameInv`: while the buffer is not refilled a
  thread's name is that of its own entry, and its backups have the numbers up to its counter.

**`AvlTreeProofs`** proves `TreeIsBalanced` (`BalancedEverywhere`), `WalkIsOfTheKeys`
(`WalkMeetsEachOnce`) and `TreeIsAMap` (`ImplementsSubscriberMap`) for any keys and descriptors,
from `AvlAssumption` (keys are integers, and `NoFd` is no descriptor). The prover has no induction
over trees, so the invariant brings its own. `Holds(t, S)` says that `t` is an AVL tree with the
entries `S`: it is in every set of such pairs that is closed under putting a node over two trees
that fit (`Over`, `Fits`: the order of the keys around it, heights that differ by one at most).
Hence `HoldsInduction`: what is inductive in that sense is true of every AVL tree. The invariant
`IInv` is that the root is one, with some entries. The argument has four parts:

- `TreesLevels` and `StepsExist`: the set `Trees[h]`, and each of the five recursive functions,
  exists and satisfies its equation. Both are shown by a least counterexample among the numbers of
  levels.
- `RotatesRight`, `RotatesLeft`, `LeftCases`, `RightCases`: the four cases of `balance_node`.
  Together they are `Rebalances`: a node whose subtrees are AVL trees and differ in height by two at
  most becomes an AVL tree with the same entries, as high as the higher subtree or one level higher,
  and exactly that where nothing had to be rotated. Without the last part the height of a subtree
  could shrink by two, or grow, under an insertion or a removal, and nothing would follow for the
  node above.
- `InsertNodeHolds` and `RemoveNodeHolds`: insertion adds the entry unless its key is there, and the
  height stays or grows by one; removal takes the entry away, and the height stays or shrinks by
  one. For a node with two subtrees this rests on `LeastHolds`, that `min_value_node` returns the
  one entry with the least key.
- `FoundHolds` and `WalkHolds`: `has_key` finds the entry of a key if there is one, and the walk
  meets the keys of the entries once and in order. The map of a tree is known by its entries
  (`MapsAgree`), so that each step is the one of `SubscriberMap` with the same name.

**`CommandReaderProofs`** proves, for any text of lines of characters, any limits of strings, pairs and
numbers, and for both programs, from `ReaderAssumption` (the lines have characters, the limits are
numbers) and from nothing about what the lines are:

- `TypeCorrect` (`TypeOK`, with `ArraysHold`) and `NextLine` (`StartsAtLine`, the first half of
  `LinesStandAlone`), with `ListInv`: what each label tells of how far a list has come, and of room
  left in its array. A reader that has skipped a line stands behind a line end or at the end of the
  text, wherever in the line it was when it gave up.
- `RunsWritten` (`RunsWhatIsWritten`), with `ReadInv`: while a list is being read, the text from the
  call of `get_next` to the place of the reader is the keyword followed by `SoFar`, the brackets,
  commas and strings of the keys and values collected. So what is closed and run has been read as a
  whole, and all of it is in the arrays.
- `GoodLinesRun` (`LinesStandAlone`), the converse: a line that is in order, wherever it stands and
  whatever stands before it, runs as what it means and is read to its end exactly. `LineInv` follows
  such a line: while its list is read, the arrays hold the first of its keys and values and the
  reader is where the next item begins (`ReadingList`, `ItemStart`). Its lemmas say what the text
  makes each step do: two letters tell the words of a reader apart (`TwoLetters`), so that
  `get_next` finds no other word (`TheWord`); `read_string` takes a string that fits and stops
  behind it (`StringAt`), `read_uint` the digits (`NumberAt`), `cleanup` the rest of a comment
  (`CleanupLine`); and a good line is shorter than the array, so that no round of the loop gives up
  for want of room. `LinePlace` finds line i of the text where `LineStart` says.

`StartsAtLine` needs little: each way back to `get_next` has just read a line end or skips to the next one, from
whichever place of the text it gave up at. `RunsWhatIsWritten` needs the whole of `ReadInv`, as a key read now is run
many steps later. The lists are
put together by `FlattenSeq`, a recursive function; the lemmas `Flatten...` derive its two equations from
its definition, with least counterexamples where an induction would be used otherwise.

### Only model-checked

The liveness properties, and what is said with ENABLED, are out of the prover's reach. Every safety
invariant the runs check is a theorem as well.

## Not modelled

- The two earlier copies of part 2. One is the skeleton that was handed out, with one lock for the
  whole table; the other is Part 1 with the pipe of the server added. Neither is part of the final
  delivery, and what they share with it or with Part 1 is modelled there.
- `malloc`, `strdup` and pthread calls that fail (but for the creation of threads), `open()` that
  fails on the server's side of a session (the names exist while the client does), `mkfifo` that
  fails.
- Named pipes that are full: the reader of each is a thread of the client that does nothing else.
- DELAY and WAIT beyond their parsing: nothing is ordered by them.
- `hash()` of a key that starts with neither a letter nor a digit: it reads outside of the table,
  which is undefined.
- The text of outputs and messages, the string helpers, and the shutdown after the endless loop of
  `main`.

## Plan

Done: the store, the queue, the backups, the subscriptions, the sessions, Part 1 and the parsers,
each with the proofs of its safety properties; the refinement of `AtomicStore`, checked and proved;
the trees and their refinement of `SubscriberMap`, likewise. Left: two sessions at once in
`ClientSession` with more requests than one under TLC, the effect of a DELETE on the trees in it
(what its locks do to a session is `KeepList`), and the notifications of a batch, one by one.
