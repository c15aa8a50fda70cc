---------------------------- MODULE ClientQueue ----------------------------
(***************************************************************************)
(* The queue through which the main thread hands connecting clients to the *)
(* session threads (server/main.c): a linked list with two semaphores, one *)
(* counting free places and one counting clients, and queue_mutex, which   *)
(* only the session threads take.                                          *)
(*                                                                         *)
(* A step reads or writes one shared field at most, but for `queue.head =  *)
(* client->next', whose read cannot be told from its write.  A NULL or     *)
(* freed node that is dereferenced sets fault and ends the process.        *)
(*                                                                         *)
(* main starts the session threads before it initialises the semaphores,   *)
(* which are static and zero until then.  What a sem_wait that came too    *)
(* early does afterwards is undefined: here it may take a client like any  *)
(* other, or sleep on, for ever if need be, sem_init having forgotten it.  *)
(*                                                                         *)
(* The clients, the named pipes and the session itself are not here: a     *)
(* session serves its client until it ends.  raced, fifo and handed are    *)
(* history variables.                                                      *)
(***************************************************************************)
EXTENDS Naturals, Sequences, FiniteSets

CONSTANTS Clients,     \* the clients that connect
          Sessions,    \* the session threads, MAX_SESSION_COUNT of them
          NULL,
          MaxSignals   \* SIGUSR1 sent: the second one kills the process

ASSUME QueueAssumption ==
  /\ IsFiniteSet(Sessions) /\ Sessions # {}
  /\ NULL \notin Clients \cup Sessions
  /\ MaxSignals \in {0, 1}

VARIABLES
  inbox,      \* clients whose request main has not read
  mainPc,     \* where main is
  client,     \* main: the node it adds
  last,       \* main: the tail it has loaded
  head, tail, \* queue.head, queue.tail
  next,       \* the next field of every node
  live,       \* the nodes that are allocated
  semAdd,     \* sem_add_to_queue
  semRemove,  \* sem_remove_from_queue
  mutex,      \* queue_mutex: its holder
  signals,    \* sem_wait calls a signal has cut short
  pc,         \* where each session thread is
  node,       \* session: the client it takes or serves
  fault,      \* the process has dereferenced NULL or freed memory
  raced,      \* history: main and a session were in the queue at once
  fifo,       \* history: the clients in the queue
  handed      \* history: the clients handed to a session

queue == <<head, tail, next, live>>
sems == <<semAdd, semRemove, signals>>
mainVars == <<inbox, mainPc, client, last>>
sessionVars == <<mutex, pc, node>>
history == <<fifo, handed>>
vars == <<queue, sems, mainVars, sessionVars, fault, raced, history>>

Init ==
  /\ inbox = Clients
  /\ mainPc = "start" /\ client = NULL /\ last = NULL
  /\ head = NULL /\ tail = NULL
  /\ next = [c \in Clients |-> NULL]
  /\ live = {}
  /\ semAdd = 0 /\ semRemove = 0 /\ signals = 0
  /\ mutex = NULL
  /\ pc = [s \in Sessions |-> "none"]
  /\ node = [s \in Sessions |-> NULL]
  /\ fault = FALSE /\ raced = FALSE
  /\ fifo = <<>> /\ handed = {}

(* main is between two accesses of one insertion. *)
Inserting == mainPc \in {"sethead", "loadtail", "next", "tail"}

(* Every access of main to the queue: a session may be in it too. *)
MainTouches == raced' = (raced \/ mutex # NULL)
-----------------------------------------------------------------------------
(* The main thread *)

(* A thread that cannot be created, or cannot make its tree, is only       *)
(* reported: the semaphores count its place all the same.                  *)
StartThreads ==
  /\ mainPc = "start"
  /\ \E started \in SUBSET Sessions :
       pc' = [s \in Sessions |-> IF s \in started THEN "wait" ELSE "none"]
  /\ mainPc' = "init"
  /\ UNCHANGED <<queue, sems, inbox, client, last, mutex, node, fault, raced, history>>

InitSemaphores ==
  /\ mainPc = "init"
  /\ semAdd' = Cardinality(Sessions) /\ semRemove' = 0
  /\ mainPc' = "read"
  /\ UNCHANGED <<queue, signals, inbox, client, last, sessionVars, fault, raced, history>>

ReadRequest ==
  /\ mainPc = "read"
  /\ \E c \in inbox :
       /\ inbox' = inbox \ {c}
       /\ client' = c
       /\ live' = live \cup {c}
  /\ mainPc' = "sem"
  /\ UNCHANGED <<last, head, tail, next, sems, sessionVars, fault, raced, history>>

(* Mutant of SemWaitAdd: the place is not taken. *)
KeepPlace ==
  /\ mainPc = "sem"
  /\ semAdd > 0
  /\ mainPc' = "head"
  /\ UNCHANGED <<queue, sems, inbox, client, last, sessionVars, fault, raced, history>>

SemWaitAdd ==
  /\ mainPc = "sem"
  /\ semAdd > 0
  /\ semAdd' = semAdd - 1
  /\ mainPc' = "head"
  /\ UNCHANGED <<queue, semRemove, signals, inbox, client, last, sessionVars,
                 fault, raced, history>>

(* SIGUSR1 arrives while main is blocked: sem_wait fails with EINTR, its   *)
(* result is not looked at, and main goes on as if it had a place.         *)
SemWaitInterrupted ==
  /\ mainPc = "sem"
  /\ semAdd = 0
  /\ signals < MaxSignals
  /\ signals' = signals + 1
  /\ mainPc' = "head"
  /\ UNCHANGED <<queue, semAdd, semRemove, inbox, client, last, sessionVars,
                 fault, raced, history>>

TestHead ==
  /\ mainPc = "head"
  /\ mainPc' = IF head = NULL THEN "sethead" ELSE "loadtail"
  /\ MainTouches
  /\ UNCHANGED <<queue, sems, inbox, client, last, sessionVars, fault, history>>

SetHead ==
  /\ mainPc = "sethead"
  /\ head' = client
  /\ mainPc' = "tail"
  /\ MainTouches
  /\ UNCHANGED <<tail, next, live, sems, inbox, client, last, sessionVars,
                 fault, history>>

(* queue.tail->next = client, in two accesses *)
LoadTail ==
  /\ mainPc = "loadtail"
  /\ last' = tail
  /\ mainPc' = "next"
  /\ MainTouches
  /\ UNCHANGED <<queue, sems, inbox, client, sessionVars, fault, history>>

SetNext ==
  /\ mainPc = "next"
  /\ fault' = (last \notin live)
  /\ next' = IF last \in live THEN [next EXCEPT ![last] = client] ELSE next
  /\ mainPc' = "tail"
  /\ MainTouches
  /\ UNCHANGED <<head, tail, live, sems, inbox, client, last, sessionVars, history>>

SetTail ==
  /\ mainPc = "tail"
  /\ tail' = client
  /\ fifo' = Append(fifo, client)
  /\ mainPc' = "post"
  /\ MainTouches
  /\ UNCHANGED <<head, next, live, sems, inbox, client, last, sessionVars,
                 fault, handed>>

(* Mutant of SemPostRemove: the session threads are not told. *)
PostNothing ==
  /\ mainPc = "post"
  /\ mainPc' = "read"
  /\ client' = NULL /\ last' = NULL
  /\ UNCHANGED <<queue, sems, inbox, sessionVars, fault, raced, history>>

SemPostRemove ==
  /\ mainPc = "post"
  /\ semRemove' = semRemove + 1
  /\ mainPc' = "read"
  /\ client' = NULL /\ last' = NULL
  /\ UNCHANGED <<queue, semAdd, signals, inbox, sessionVars, fault, raced, history>>
-----------------------------------------------------------------------------
(* A session thread *)

Go(s, from, to) == pc[s] = from /\ pc' = [pc EXCEPT ![s] = to]

SemWaitRemove(s) ==
  /\ Go(s, "wait", "lock")
  /\ semRemove > 0
  /\ semRemove' = semRemove - 1
  /\ UNCHANGED <<queue, semAdd, signals, mainVars, mutex, node, fault, raced, history>>

(* sem_wait of a semaphore that is not initialised yet. *)
WaitEarly(s) ==
  /\ mainPc = "init"
  /\ Go(s, "wait", "early")
  /\ UNCHANGED <<queue, sems, mainVars, mutex, node, fault, raced, history>>

WakeEarly(s) ==
  /\ Go(s, "early", "lock")
  /\ semRemove > 0
  /\ semRemove' = semRemove - 1
  /\ UNCHANGED <<queue, semAdd, signals, mainVars, mutex, node, fault, raced, history>>

(* Mutant of LockQueue: the session threads do without queue_mutex too.    *)
EnterUnlocked(s) ==
  /\ Go(s, "lock", "load")
  /\ raced' = (raced \/ Inserting)
  /\ UNCHANGED <<queue, sems, mainVars, mutex, node, fault, history>>

LockQueue(s) ==
  /\ Go(s, "lock", "load")
  /\ mutex = NULL
  /\ mutex' = s
  /\ raced' = (raced \/ Inserting)
  /\ UNCHANGED <<queue, sems, mainVars, node, fault, history>>

LoadHead(s) ==
  /\ Go(s, "load", "pop")
  /\ node' = [node EXCEPT ![s] = head]
  /\ UNCHANGED <<queue, sems, mainVars, mutex, fault, raced, history>>

PopHead(s) ==
  /\ Go(s, "pop", "test")
  /\ fault' = (node[s] \notin live)
  /\ head' = IF node[s] \in live THEN next[node[s]] ELSE head
  /\ fifo' = IF fifo # <<>> /\ node[s] = Head(fifo) THEN Tail(fifo) ELSE fifo
  /\ handed' = handed \cup ({node[s]} \ {NULL})
  /\ UNCHANGED <<tail, next, live, sems, mainVars, mutex, node, raced>>

(* Mutant of TestEmpty: the tail is left at the last node taken. *)
NeverClear(s) ==
  /\ Go(s, "test", "unlock")
  /\ UNCHANGED <<queue, sems, mainVars, mutex, node, fault, raced, history>>

TestEmpty(s) ==
  /\ pc[s] = "test"
  /\ pc' = [pc EXCEPT ![s] = IF head = NULL THEN "clear" ELSE "unlock"]
  /\ UNCHANGED <<queue, sems, mainVars, mutex, node, fault, raced, history>>

ClearTail(s) ==
  /\ Go(s, "clear", "unlock")
  /\ tail' = NULL
  /\ UNCHANGED <<head, next, live, sems, mainVars, mutex, node, fault, raced, history>>

UnlockQueue(s) ==
  /\ Go(s, "unlock", "post")
  /\ mutex' = NULL
  /\ UNCHANGED <<queue, sems, mainVars, node, fault, raced, history>>

SemPostAdd(s) ==
  /\ Go(s, "post", "free")
  /\ semAdd' = semAdd + 1
  /\ UNCHANGED <<queue, semRemove, signals, mainVars, mutex, node, fault, raced, history>>

FreeNode(s) ==
  /\ Go(s, "free", "serve")
  /\ live' = live \ {node[s]}
  /\ UNCHANGED <<head, tail, next, sems, mainVars, mutex, node, fault, raced, history>>

(* The client disconnects, or a pipe of it could not be opened. *)
EndSession(s) ==
  /\ Go(s, "serve", "wait")
  /\ node' = [node EXCEPT ![s] = NULL]
  /\ UNCHANGED <<queue, sems, mainVars, mutex, fault, raced, history>>
-----------------------------------------------------------------------------
MainStep ==
  \/ StartThreads \/ InitSemaphores \/ ReadRequest \/ SemWaitAdd \/ SemWaitInterrupted
  \/ TestHead \/ SetHead \/ LoadTail \/ SetNext \/ SetTail \/ SemPostRemove

TakeClient(s) ==
  \/ SemWaitRemove(s) \/ LockQueue(s) \/ LoadHead(s) \/ PopHead(s) \/ TestEmpty(s)
  \/ ClearTail(s) \/ UnlockQueue(s) \/ SemPostAdd(s) \/ FreeNode(s)

Next ==
  /\ ~fault
  /\ \/ MainStep
     \/ \E s \in Sessions : TakeClient(s) \/ EndSession(s) \/ WaitEarly(s) \/ WakeEarly(s)

(* Threads that can run do; nothing is assumed of when a session ends, nor *)
(* of the wait that came too early.                                        *)
Fairness ==
  /\ WF_vars(~fault /\ MainStep)
  /\ \A s \in Sessions : WF_vars(~fault /\ TakeClient(s))

Spec == Init /\ [][Next]_vars /\ Fairness
-----------------------------------------------------------------------------
(* Properties *)

Node == Clients \cup {NULL}

TypeOK ==
  /\ inbox \subseteq Clients
  /\ mainPc \in {"start", "init", "read", "sem", "head", "sethead", "loadtail", "next", "tail",
                "post"}
  /\ client \in Node /\ last \in Node
  /\ head \in Node /\ tail \in Node
  /\ next \in [Clients -> Node]
  /\ live \subseteq Clients
  /\ semAdd \in Nat /\ semRemove \in Nat /\ signals \in 0..MaxSignals
  /\ mutex \in Sessions \cup {NULL}
  /\ pc \in [Sessions -> {"none", "early", "wait", "lock", "load", "pop", "test", "clear", "unlock",
                          "post", "free", "serve"}]
  /\ node \in [Sessions -> Node]
  /\ fault \in BOOLEAN /\ raced \in BOOLEAN
  /\ fifo \in Seq(Clients)
  /\ handed \subseteq Clients

(* A client is never with two sessions at once, whatever main does to the  *)
(* queue meanwhile: the session threads exclude one another.               *)
OneSessionPerClient ==
  \A r, s \in Sessions : r # s /\ node[r] # NULL => node[r] # node[s]

(* The two semaphores and the threads between a wait and a post account    *)
(* for MAX_SESSION_COUNT places, plus one for every sem_wait that a signal *)
(* cut short: the queue never holds more clients than that.                *)
PlacesConserved ==
  mainPc \notin {"start", "init"} =>
    semAdd + semRemove
      + (IF mainPc \in {"read", "sem"} THEN 0 ELSE 1)
      + Cardinality({s \in Sessions : pc[s] \notin {"none", "early", "wait", "free", "serve"}})
    = Cardinality(Sessions) + signals

(* The linked list is the queue of the clients in the order main read them. *)
ListIsQueue ==
  /\ head = IF fifo = <<>> THEN NULL ELSE Head(fifo)
  /\ tail = IF fifo = <<>> THEN NULL ELSE fifo[Len(fifo)]
  /\ \A i \in 1..Len(fifo) :
       /\ fifo[i] \in live
       /\ next[fifo[i]] = IF i = Len(fifo) THEN NULL ELSE fifo[i + 1]

(* As long as main and a session have not been in the queue together, the  *)
(* queue is sound and nothing is dereferenced that should not be: the      *)
(* mutex main does not take is all that is missing.                        *)
IntactUnlessRaced ==
  ~raced => /\ ~fault
            /\ mutex = NULL /\ ~Inserting => ListIsQueue

(* A client whose request was read gets a session, unless the process dies *)
(* or every session is taken, sleeps in a wait that came before sem_init,  *)
(* or was never started.                                                   *)
ServedUnlessBusy ==
  \A c \in Clients :
    c \notin inbox ~> \/ c \in handed
                      \/ fault
                      \/ \A s \in Sessions : pc[s] \in {"serve", "early", "none"}

(* The queue is never walked off its end or into a freed node, as the      *)
(* "mutex to protect the changes on the queue" (main.c:54) is there for.   *)
NeverFaults == ~fault
=============================================================================
