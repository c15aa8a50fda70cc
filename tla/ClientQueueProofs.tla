------------------------- MODULE ClientQueueProofs -------------------------
(***************************************************************************)
(* Theorems about ClientQueue, for any number of clients and sessions: the *)
(* account of the places; that no client is with two sessions, which holds *)
(* although main takes no mutex; and that the list is what it was meant to *)
(* be as long as main was never in it together with a session.             *)
(***************************************************************************)
EXTENDS ClientQueue, FiniteSetTheorems, SequenceTheorems, TLAPS

Early == {"none", "early", "wait"}
Inside == {"load", "pop", "test", "clear", "unlock"}
Taken == {"test", "clear", "unlock", "post", "free", "serve"}
Adding == {"sem", "head", "sethead", "loadtail", "next"}

(* TypeOK but for fifo, which the proofs do not need. *)
QueueType ==
  /\ inbox \subseteq Clients
  /\ mainPc \in {"start", "init", "read", "tail", "post"} \cup Adding
  /\ client \in Node /\ last \in Node
  /\ head \in Node /\ tail \in Node
  /\ next \in [Clients -> Node]
  /\ live \subseteq Clients
  /\ semAdd \in Nat /\ semRemove \in Nat /\ signals \in Nat
  /\ mutex \in Sessions \cup {NULL}
  /\ pc \in [Sessions -> Early \cup {"lock"} \cup Inside \cup Taken]
  /\ node \in [Sessions -> Node]
  /\ handed \subseteq Clients

(* Until the semaphores are initialised nobody passes them. *)
StartInv ==
  mainPc \in {"start", "init"} =>
    /\ semRemove = 0 /\ signals = 0
    /\ \A s \in Sessions : pc[s] \in Early

MutexInv == \A s \in Sessions : pc[s] \in Inside => mutex = s

(* Nothing a session may still follow leads to the node of client c. *)
Unlinked(c) == head # c /\ \A x \in Clients \ handed : next[x] # c

(* Of what a session may still follow, one pointer at most leads to each   *)
(* client, and none to one that was taken or is not linked yet.            *)
LinkInv ==
  /\ \A c \in inbox : c \notin handed /\ Unlinked(c)
  /\ mainPc \in Adding => /\ client \in Clients \ (handed \cup inbox)
                          /\ Unlinked(client)
  /\ \A c \in handed : Unlinked(c)
  /\ head # NULL => \A x \in Clients \ handed : next[x] # head
  /\ \A x, y \in Clients \ handed : x # y /\ next[x] # NULL => next[x] # next[y]
  /\ mainPc = "sethead" => head = NULL

(* What each session has: nothing, the head, or what it has taken. *)
NodeInv ==
  \A s \in Sessions :
    /\ pc[s] \in Early \cup {"lock", "load"} => node[s] = NULL
    /\ pc[s] = "pop" => node[s] \in {NULL, head}
    /\ pc[s] \in Taken => node[s] \in handed

IInv ==
  /\ QueueType /\ StartInv /\ MutexInv
  /\ PlacesConserved /\ OneSessionPerClient
  /\ ~fault => LinkInv /\ NodeInv

(* The actions of session s. *)
SessionStep(s) == TakeClient(s) \/ EndSession(s) \/ WaitEarly(s) \/ WakeEarly(s)

(* The invariant holds before main has started anything. *)
LEMMA InitInv == Init => IInv
  <1> SUFFICES ASSUME Init PROVE IInv
    OBVIOUS
  <1> USE QueueAssumption DEF Init
  <1>1. QueueType /\ StartInv /\ MutexInv
    BY DEF QueueType, StartInv, MutexInv, Node, Early, Inside, Taken, Adding
  <1>2. PlacesConserved /\ OneSessionPerClient
    BY DEF PlacesConserved, OneSessionPerClient
  <1>3. LinkInv /\ NodeInv
    BY DEF LinkInv, NodeInv, Unlinked, Node, Early, Inside, Taken, Adding
  <1>4. QED
    BY <1>1, <1>2, <1>3 DEF IInv

(* Types, the start, and the mutex: the steps of main. *)
LEMMA MainTypeStep ==
  ASSUME IInv, MainStep
  PROVE  QueueType' /\ StartInv' /\ MutexInv'
  <1>0. QueueType /\ StartInv /\ MutexInv
    BY DEF IInv
  <1> USE <1>0, QueueAssumption
      DEF QueueType, StartInv, MutexInv, Node, Early, Inside, Taken, Adding,
          queue, sems, sessionVars, history
  <1>1. CASE StartThreads
    BY <1>1 DEF StartThreads
  <1>2. CASE InitSemaphores
    BY <1>2, FS_CardinalityType DEF InitSemaphores
  <1>3. CASE ReadRequest
    BY <1>3 DEF ReadRequest
  <1>4. CASE SemWaitAdd \/ SemWaitInterrupted
    BY <1>4 DEF SemWaitAdd, SemWaitInterrupted
  <1>5. CASE TestHead \/ SetHead \/ LoadTail
    BY <1>5 DEF TestHead, SetHead, LoadTail
  <1>6. CASE SetNext
    BY <1>6 DEF SetNext
  <1>7. CASE SetTail \/ SemPostRemove
    BY <1>7 DEF SetTail, SemPostRemove
  <1>8. QED
    BY <1>1, <1>2, <1>3, <1>4, <1>5, <1>6, <1>7 DEF MainStep

(* Types, the start, and the mutex: the steps of a session. *)
LEMMA SessionTypeStep ==
  ASSUME IInv, NEW s \in Sessions, SessionStep(s)
  PROVE  QueueType' /\ StartInv' /\ MutexInv'
  <1>0. QueueType /\ StartInv /\ MutexInv
    BY DEF IInv
  <1> USE <1>0, QueueAssumption
      DEF QueueType, StartInv, MutexInv, Node, Early, Inside, Taken, Adding,
          queue, sems, mainVars, sessionVars, history, Go
  <1>1. CASE SemWaitRemove(s) \/ WakeEarly(s)
    BY <1>1 DEF SemWaitRemove, WakeEarly
  <1>2. CASE LockQueue(s) \/ WaitEarly(s)
    BY <1>2 DEF LockQueue, WaitEarly
  <1>3. CASE LoadHead(s)
    BY <1>3 DEF LoadHead
  <1>4. CASE PopHead(s)
    BY <1>4 DEF PopHead
  <1>5. CASE TestEmpty(s) \/ ClearTail(s)
    BY <1>5 DEF TestEmpty, ClearTail
  <1>6. CASE UnlockQueue(s)
    BY <1>6 DEF UnlockQueue
  <1>7. CASE SemPostAdd(s)
    BY <1>7 DEF SemPostAdd
  <1>8. CASE FreeNode(s) \/ EndSession(s)
    BY <1>8 DEF FreeNode, EndSession
  <1>9. QED
    BY <1>1, <1>2, <1>3, <1>4, <1>5, <1>6, <1>7, <1>8 DEF SessionStep, TakeClient

(* The sessions between their wait and their post, each with a place. *)
Placed == {s \in Sessions : pc[s] \notin {"none", "early", "wait", "free", "serve"}}

(* They are finitely many, being sessions. *)
LEMMA PlacedFacts ==
  /\ IsFiniteSet(Placed) /\ Cardinality(Placed) \in Nat
  /\ Cardinality(Sessions) \in Nat
  BY FS_Subset, FS_CardinalityType, QueueAssumption DEF Placed

(* A session takes a place, gives it back, or goes on. *)
LEMMA PlacedStep ==
  ASSUME QueueType, NEW s \in Sessions, NEW label, pc' = [pc EXCEPT ![s] = label]
  PROVE  /\ s \notin Placed /\ label = "lock" =>
              Cardinality(Placed') = Cardinality(Placed) + 1
         /\ s \in Placed /\ label = "free" =>
              Cardinality(Placed') = Cardinality(Placed) - 1
         /\ (s \in Placed <=> label \notin {"none", "early", "wait", "free", "serve"}) =>
              Cardinality(Placed') = Cardinality(Placed)
  <1>1. CASE s \notin Placed /\ label = "lock"
    <2>1. Placed' = Placed \cup {s}
      BY <1>1 DEF Placed, QueueType
    <2>2. QED
      BY <1>1, <2>1, PlacedFacts, FS_AddElement
  <1>2. CASE s \in Placed /\ label = "free"
    <2>1. Placed' = Placed \ {s}
      BY <1>2 DEF Placed, QueueType
    <2>2. QED
      BY <1>2, <2>1, PlacedFacts, FS_RemoveElement
  <1>3. CASE s \in Placed <=> label \notin {"none", "early", "wait", "free", "serve"}
    <2>1. Placed' = Placed
      BY <1>3 DEF Placed, QueueType
    <2>2. QED
      BY <1>3, <2>1
  <1>4. QED
    BY <1>1, <1>2, <1>3

(* Main takes a place, or a signal stands in for one, and keeps it until   *)
(* it has posted a client.                                                 *)
LEMMA MainPlacesStep ==
  ASSUME IInv, MainStep
  PROVE  PlacesConserved'
  <1>0. /\ QueueType /\ StartInv /\ PlacesConserved
        /\ semAdd \in Nat /\ semRemove \in Nat /\ signals \in Nat
        /\ Cardinality(Placed) \in Nat /\ Cardinality(Sessions) \in Nat
    BY PlacedFacts DEF IInv, QueueType
  <1>1. CASE StartThreads
    BY <1>1 DEF StartThreads, PlacesConserved
  <1>2. CASE InitSemaphores
    <2>1. Placed = {}
      BY <1>0, <1>2 DEF InitSemaphores, StartInv, Early, Placed
    <2>2. Placed' = {}
      BY <1>2, <2>1 DEF InitSemaphores, sessionVars, Placed
    <2>3. Cardinality(Placed') = 0 /\ signals' = 0
      BY <1>0, <1>2, <2>2, FS_EmptySet DEF InitSemaphores, StartInv
    <2>4. QED
      BY <1>0, <1>2, <2>3 DEF InitSemaphores, PlacesConserved, Placed
  <1>3. CASE ~StartThreads /\ ~InitSemaphores
    <2>1. pc' = pc
      BY <1>3 DEF MainStep, ReadRequest, SemWaitAdd, SemWaitInterrupted, TestHead, SetHead,
                  LoadTail, SetNext, SetTail, SemPostRemove, sessionVars
    <2>2. Placed' = Placed
      BY <2>1 DEF Placed
    <2>3. mainPc \notin {"start", "init"}
      BY <1>3 DEF MainStep, ReadRequest, SemWaitAdd, SemWaitInterrupted, TestHead, SetHead,
                  LoadTail, SetNext, SetTail, SemPostRemove
    <2>4. semAdd + semRemove + (IF mainPc \in {"read", "sem"} THEN 0 ELSE 1)
            + Cardinality(Placed) = Cardinality(Sessions) + signals
      BY <1>0, <2>3 DEF PlacesConserved, Placed
    <2>5. semAdd' + semRemove' + (IF mainPc' \in {"read", "sem"} THEN 0 ELSE 1)
            + Cardinality(Placed) = Cardinality(Sessions) + signals'
      <3>1. CASE SemWaitAdd
        BY <3>1, <1>0, <2>4 DEF SemWaitAdd
      <3>2. CASE SemWaitInterrupted
        BY <3>2, <1>0, <2>4 DEF SemWaitInterrupted
      <3>3. CASE SemPostRemove
        BY <3>3, <1>0, <2>4 DEF SemPostRemove
      <3>4. CASE ReadRequest \/ TestHead \/ SetHead \/ LoadTail \/ SetNext \/ SetTail
        BY <3>4, <1>0, <2>4
           DEF ReadRequest, TestHead, SetHead, LoadTail, SetNext, SetTail, sems
      <3>5. QED
        BY <1>3, <3>1, <3>2, <3>3, <3>4 DEF MainStep
    <2>6. QED
      BY <2>2, <2>5 DEF PlacesConserved, Placed
  <1>4. QED
    BY <1>1, <1>2, <1>3

(* A session turns a posted client into a place. *)
LEMMA SessionPlacesStep ==
  ASSUME IInv, NEW s \in Sessions, SessionStep(s)
  PROVE  PlacesConserved'
  <1>0. /\ QueueType /\ PlacesConserved
        /\ semAdd \in Nat /\ semRemove \in Nat /\ signals \in Nat
        /\ Cardinality(Placed) \in Nat /\ Cardinality(Sessions) \in Nat
    BY PlacedFacts DEF IInv, QueueType
  <1>1. mainPc' = mainPc /\ signals' = signals
    BY DEF SessionStep, TakeClient, SemWaitRemove, WakeEarly, WaitEarly, LockQueue, LoadHead,
           PopHead, TestEmpty, ClearTail, UnlockQueue, SemPostAdd, FreeNode, EndSession,
           mainVars, sems
  <1>2. semAdd' + semRemove' + Cardinality(Placed') = semAdd + semRemove + Cardinality(Placed)
    <2>1. CASE SemWaitRemove(s) \/ WakeEarly(s)
      <3>1. Cardinality(Placed') = Cardinality(Placed) + 1
        BY <1>0, <2>1, PlacedStep DEF SemWaitRemove, WakeEarly, Go, Placed
      <3>2. QED
        BY <1>0, <2>1, <3>1 DEF SemWaitRemove, WakeEarly
    <2>2. CASE SemPostAdd(s)
      <3>1. Cardinality(Placed') = Cardinality(Placed) - 1
        BY <1>0, <2>2, PlacedStep DEF SemPostAdd, Go, Placed
      <3>2. QED
        BY <1>0, <2>2, <3>1 DEF SemPostAdd
    <2>3. CASE \/ WaitEarly(s) \/ LockQueue(s) \/ LoadHead(s) \/ PopHead(s) \/ TestEmpty(s)
               \/ ClearTail(s) \/ UnlockQueue(s) \/ FreeNode(s) \/ EndSession(s)
      <3>1. /\ semAdd' = semAdd /\ semRemove' = semRemove
            /\ \E label \in {"early", "load", "pop", "test", "clear", "unlock", "post",
                             "serve", "wait"} :
                 /\ pc' = [pc EXCEPT ![s] = label]
                 /\ s \in Placed <=> label \notin {"none", "early", "wait", "free", "serve"}
        BY <2>3 DEF WaitEarly, LockQueue, LoadHead, PopHead, TestEmpty, ClearTail, UnlockQueue,
                    FreeNode, EndSession, Go, sems, Placed
      <3>2. Cardinality(Placed') = Cardinality(Placed)
        BY <1>0, <3>1, PlacedStep
      <3>3. QED
        BY <3>1, <3>2
    <2>4. QED
      BY <2>1, <2>2, <2>3 DEF SessionStep, TakeClient
  <1>3. Cardinality(Placed') \in Nat /\ semAdd' \in Nat /\ semRemove' \in Nat
    BY SessionTypeStep, FS_Subset, FS_CardinalityType, QueueAssumption DEF Placed, QueueType
  <1>4. QED
    BY <1>0, <1>1, <1>2, <1>3 DEF PlacesConserved, Placed

(* The links and the nodes taken: the steps of main, which links a client  *)
(* once, from the head or from the node it has loaded.                     *)
LEMMA MainLinkStep ==
  ASSUME IInv, ~fault, MainStep
  PROVE  OneSessionPerClient' /\ (~fault' => LinkInv' /\ NodeInv')
  <1>0. /\ QueueType /\ StartInv /\ LinkInv /\ NodeInv /\ OneSessionPerClient
        /\ handed' = handed /\ node' = node
    BY DEF IInv, MainStep, StartThreads, InitSemaphores, ReadRequest, SemWaitAdd,
           SemWaitInterrupted, TestHead, SetHead, LoadTail, SetNext, SetTail, SemPostRemove,
           sessionVars, history
  <1>1. OneSessionPerClient'
    BY <1>0 DEF OneSessionPerClient
  <1>2. NodeInv'
    <2>1. CASE StartThreads
      BY <1>0, <2>1 DEF StartThreads, StartInv, NodeInv, Early, Inside, Taken, queue
    <2>2. CASE SetHead
      BY <1>0, <2>2 DEF SetHead, LinkInv, NodeInv, sessionVars
    <2>3. CASE ~StartThreads /\ ~SetHead
      <3>1. pc' = pc /\ head' = head
        BY <2>3 DEF MainStep, InitSemaphores, ReadRequest, SemWaitAdd, SemWaitInterrupted,
                    TestHead, LoadTail, SetNext, SetTail, SemPostRemove, sessionVars, queue
      <3>2. QED
        BY <1>0, <3>1 DEF NodeInv
    <2>4. QED
      BY <2>1, <2>2, <2>3
  <1>3. LinkInv'
    <2>1. CASE ReadRequest
      BY <1>0, <2>1 DEF ReadRequest, LinkInv, Unlinked, Adding, QueueType
    <2>2. CASE SetHead
      BY <1>0, <2>2, QueueAssumption DEF SetHead, LinkInv, Unlinked, Adding, QueueType, Node
    <2>3. CASE SetNext
      BY <1>0, <2>3, QueueAssumption DEF SetNext, LinkInv, Unlinked, Adding, QueueType, Node
    <2>4. CASE \/ StartThreads \/ InitSemaphores \/ SemWaitAdd \/ SemWaitInterrupted
               \/ TestHead \/ LoadTail \/ SetTail \/ SemPostRemove
      <3>1. /\ UNCHANGED <<inbox, head, next>>
            /\ mainPc' \in Adding => mainPc \in Adding /\ client' = client
            /\ mainPc' = "sethead" => head = NULL
        BY <2>4 DEF StartThreads, InitSemaphores, SemWaitAdd, SemWaitInterrupted, TestHead,
                    LoadTail, SetTail, SemPostRemove, queue, Adding
      <3>2. QED
        BY <1>0, <3>1 DEF LinkInv, Unlinked
    <2>5. QED
      BY <2>1, <2>2, <2>3, <2>4 DEF MainStep
  <1>4. QED
    BY <1>1, <1>2, <1>3

(* The steps of a session: the node it pops is the head, and the head      *)
(* moves to what nothing else leads to.                                    *)
LEMMA SessionLinkStep ==
  ASSUME IInv, ~fault, NEW s \in Sessions, SessionStep(s)
  PROVE  OneSessionPerClient' /\ (~fault' => LinkInv' /\ NodeInv')
  <1>0. QueueType /\ MutexInv /\ LinkInv /\ NodeInv /\ OneSessionPerClient
    BY DEF IInv
  <1>1. CASE LoadHead(s)
    <2>1. \A r \in Sessions : r # s => pc[r] \notin Inside
      BY <1>0, <1>1, QueueAssumption DEF LoadHead, Go, MutexInv, Inside
    <2>2. \A r \in Sessions : r # s => node[r] \in handed \cup {NULL}
      BY <1>0, <2>1 DEF NodeInv, QueueType, Early, Inside, Taken
    <2>3. head \notin handed
      BY <1>0 DEF LinkInv, Unlinked
    <2>4. OneSessionPerClient'
      BY <1>0, <1>1, <2>2, <2>3 DEF LoadHead, OneSessionPerClient, QueueType
    <2>5. LinkInv' /\ NodeInv'
      BY <1>0, <1>1 DEF LoadHead, Go, LinkInv, Unlinked, NodeInv, QueueType, Early, Taken,
                        queue, mainVars, history
    <2>6. QED
      BY <2>4, <2>5
  <1>2. CASE PopHead(s)
    <2>1. OneSessionPerClient'
      BY <1>0, <1>2 DEF PopHead, OneSessionPerClient
    <2>2. SUFFICES ASSUME ~fault' PROVE LinkInv' /\ NodeInv'
      BY <2>1
    <2>3. /\ head \in Clients \ handed /\ node[s] = head /\ head # NULL
          /\ head' = next[head] /\ handed' = handed \cup {head}
          /\ UNCHANGED <<inbox, next, client, mainPc, node>>
      <3>1. node[s] \in live
        BY <1>2, <2>2, Zenon DEF PopHead
      <3>2. node[s] = head /\ head # NULL
        BY <1>0, <1>2, <3>1, QueueAssumption DEF PopHead, Go, NodeInv, QueueType
      <3>3. head \in Clients \ handed
        BY <1>0, <3>1, <3>2 DEF LinkInv, Unlinked, QueueType
      <3>4. QED
        BY <1>2, <3>1, <3>2, <3>3 DEF PopHead, mainVars
    <2>4. \A r \in Sessions : r # s => pc[r] # "pop"
      BY <1>0, <1>2, QueueAssumption DEF PopHead, Go, MutexInv, Inside
    <2>5. NodeInv'
      BY <1>0, <1>2, <2>3, <2>4 DEF PopHead, Go, NodeInv, QueueType, Early, Taken
    <2>6. LinkInv'
      BY <1>0, <2>3, QueueAssumption DEF LinkInv, Unlinked, QueueType, Node, Adding
    <2>7. QED
      BY <2>5, <2>6
  <1>3. CASE EndSession(s)
    <2>1. OneSessionPerClient'
      BY <1>0, <1>3 DEF EndSession, OneSessionPerClient, QueueType
    <2>2. LinkInv' /\ NodeInv'
      BY <1>0, <1>3 DEF EndSession, Go, LinkInv, Unlinked, NodeInv, QueueType, Early, Taken,
                        queue, mainVars, history
    <2>3. QED
      BY <2>1, <2>2
  <1>4. CASE \/ SemWaitRemove(s) \/ LockQueue(s) \/ TestEmpty(s) \/ ClearTail(s)
             \/ UnlockQueue(s) \/ SemPostAdd(s) \/ FreeNode(s) \/ WaitEarly(s) \/ WakeEarly(s)
    <2>1. /\ UNCHANGED <<inbox, client, mainPc, head, next, handed, node>>
          /\ \E label : /\ pc' = [pc EXCEPT ![s] = label]
                        /\ \/ pc[s] \in Early \cup {"lock"}
                              /\ label \in Early \cup {"lock", "load"}
                           \/ pc[s] \in Taken /\ label \in Taken
      BY <1>4 DEF SemWaitRemove, LockQueue, TestEmpty, ClearTail, UnlockQueue, SemPostAdd,
                  FreeNode, WaitEarly, WakeEarly, Go, queue, mainVars, history, Early, Taken
    <2>2. OneSessionPerClient' /\ LinkInv'
      BY <1>0, <2>1 DEF OneSessionPerClient, LinkInv, Unlinked
    <2>3. NodeInv'
      BY <1>0, <2>1 DEF NodeInv, QueueType, Early, Taken
    <2>4. QED
      BY <2>2, <2>3
  <1>5. QED
    BY <1>1, <1>2, <1>3, <1>4 DEF SessionStep, TakeClient

(* The invariant is inductive. *)
LEMMA NextStep == IInv /\ [Next]_vars => IInv'
  <1> SUFFICES ASSUME IInv, [Next]_vars PROVE IInv'
    OBVIOUS
  <1>1. CASE ~fault /\ MainStep
    BY <1>1, MainTypeStep, MainPlacesStep, MainLinkStep DEF IInv
  <1>2. CASE ~fault /\ \E s \in Sessions : SessionStep(s)
    BY <1>2, SessionTypeStep, SessionPlacesStep, SessionLinkStep DEF IInv
  <1>3. CASE UNCHANGED vars
    BY <1>3 DEF vars, queue, sems, mainVars, sessionVars, history, IInv, QueueType, StartInv,
                MutexInv, PlacesConserved, OneSessionPerClient, LinkInv, Unlinked, NodeInv
  <1>4. QED
    BY <1>1, <1>2, <1>3 DEF Next, SessionStep

(* The inductive invariant holds of every behaviour. *)
LEMMA Invariance == Spec => []IInv
  BY InitInv, NextStep, PTL DEF Spec

(* The two semaphores account for the places, with one more for each       *)
(* sem_wait a signal cut short, whichever threads start late or never.     *)
THEOREM PlacesKept == Spec => []PlacesConserved
  <1>1. IInv => PlacesConserved
    BY DEF IInv
  <1>2. QED
    BY <1>1, Invariance, PTL

(* No client is with two sessions, although main links it without the      *)
(* mutex the sessions take.                                                *)
THEOREM OneSession == Spec => []OneSessionPerClient
  <1>1. IInv => OneSessionPerClient
    BY DEF IInv
  <1>2. QED
    BY <1>1, Invariance, PTL
-----------------------------------------------------------------------------
(* The list, as long as main and a session have not been in it together.   *)

(* What the history variable holds, raced or not. *)
FifoInv ==
  /\ fifo \in Seq(Clients)
  /\ mainPc \in Adding \cup {"tail"} => client \in Clients

(* While main inserts, no session is in the queue. *)
Exclusion == Inserting => mutex = NULL

(* What follows the i-th client of the queue. *)
After(i) ==
  IF i < Len(fifo) THEN fifo[i + 1] ELSE IF mainPc = "tail" THEN client ELSE NULL

ChainInv ==
  /\ head = After(0)
  /\ \A i \in 1..Len(fifo) :
       fifo[i] \in live \ handed /\ next[fifo[i]] = After(i)

OnceInv == \A i, j \in 1..Len(fifo) : fifo[i] = fifo[j] => i = j

Fresh(c) == c \notin handed /\ next[c] = NULL /\ \A i \in 1..Len(fifo) : fifo[i] # c

FreshInv ==
  /\ \A c \in inbox : Fresh(c)
  /\ mainPc \in Adding \cup {"tail"} => client \in live \ inbox /\ Fresh(client)

(* What main has found. *)
FoundInv ==
  /\ mainPc = "sethead" => fifo = <<>>
  /\ mainPc \in {"loadtail", "next"} => fifo # <<>>
  /\ mainPc = "next" => last = tail

(* The tail, which a session that took the last client has yet to clear.   *)
TailInv ==
  /\ fifo # <<>> => tail = fifo[Len(fifo)]
  /\ fifo = <<>> /\ (\A s \in Sessions : pc[s] \notin {"test", "clear"}) => tail = NULL
  /\ \A s \in Sessions : /\ pc[s] = "pop" => node[s] = head
                         /\ pc[s] = "clear" => fifo = <<>>

(* The sessions that have yet to take the client they were posted. *)
ToTake == {s \in Sessions : pc[s] \in {"lock", "load", "pop"}}

PostedInv ==
  semRemove + (IF mainPc = "post" THEN 1 ELSE 0) + Cardinality(ToTake) = Len(fifo)

SoundInv ==
  ~raced => /\ ~fault
            /\ Exclusion /\ ChainInv /\ OnceInv /\ FreshInv /\ FoundInv /\ TailInv
            /\ PostedInv

(* The queue begins empty. *)
LEMMA SoundInit == Init => FifoInv /\ SoundInv
  <1> SUFFICES ASSUME Init PROVE FifoInv /\ SoundInv
    OBVIOUS
  <1> USE DEF Init
  <1>1. FifoInv /\ Len(fifo) = 0
    BY DEF FifoInv, Adding
  <1>2. Exclusion /\ ChainInv /\ OnceInv /\ FreshInv /\ FoundInv /\ TailInv
    BY <1>1 DEF Exclusion, Inserting, ChainInv, After, OnceInv, FreshInv, Fresh, FoundInv, TailInv,
       Adding
  <1>3. PostedInv
    <2>1. ToTake = {}
      BY DEF ToTake
    <2>2. Cardinality(ToTake) = 0
      BY <2>1, FS_EmptySet
    <2>3. QED
      BY <1>1, <2>2 DEF PostedInv
  <1>4. QED
    BY <1>1, <1>2, <1>3 DEF SoundInv

(* The history of the queue keeps its type. *)
LEMMA FifoStep == IInv /\ FifoInv /\ [Next]_vars => FifoInv'
  <1> SUFFICES ASSUME IInv, FifoInv, [Next]_vars PROVE FifoInv'
    OBVIOUS
  <1> USE DEF FifoInv, Adding
  <1>1. CASE UNCHANGED vars
    BY <1>1 DEF vars, mainVars, history
  <1>2. CASE SetTail
    BY <1>2, AppendProperties DEF SetTail
  <1>3. CASE ReadRequest
    BY <1>3 DEF ReadRequest, IInv, QueueType, history
  <1>4. CASE MainStep /\ ~SetTail /\ ~ReadRequest
    BY <1>4 DEF MainStep, StartThreads, InitSemaphores, SemWaitAdd, SemWaitInterrupted,
       TestHead, SetHead, LoadTail, SetNext, SemPostRemove, history
  <1>5. ASSUME NEW s \in Sessions, SessionStep(s), ~PopHead(s)
        PROVE  FifoInv'
    BY <1>5 DEF SessionStep, TakeClient, SemWaitRemove, LockQueue, LoadHead, TestEmpty, ClearTail,
       UnlockQueue, SemPostAdd, FreeNode, EndSession, WaitEarly, WakeEarly, mainVars, history
  <1>6. ASSUME NEW s \in Sessions, PopHead(s)
        PROVE  FifoInv'
    BY <1>6, HeadTailProperties DEF PopHead, mainVars
  <1>7. QED
    BY <1>1, <1>2, <1>3, <1>4, <1>5, <1>6 DEF Next, SessionStep

(* What the invariants say of the sequence of the queue. *)
LEMMA FifoFacts ==
  ASSUME FifoInv
  PROVE  /\ Len(fifo) \in Nat /\ (fifo = <<>> <=> Len(fifo) = 0)
         /\ \A i \in 1..Len(fifo) : fifo[i] \in Clients
         /\ IsFiniteSet(ToTake) /\ Cardinality(ToTake) \in Nat
  <1>1. Len(fifo) \in Nat /\ (fifo = <<>> <=> Len(fifo) = 0)
    BY EmptySeq, LenProperties DEF FifoInv
  <1>2. \A i \in 1..Len(fifo) : fifo[i] \in Clients
    BY ElementOfSeq DEF FifoInv
  <1>3. IsFiniteSet(ToTake) /\ Cardinality(ToTake) \in Nat
    BY FS_Subset, FS_CardinalityType, QueueAssumption DEF ToTake
  <1>4. QED
    BY <1>1, <1>2, <1>3

(* A session is posted a client, takes it, or goes on. *)
LEMMA ToTakeStep ==
  ASSUME QueueType, FifoInv, NEW s \in Sessions, NEW label, pc' = [pc EXCEPT ![s] = label]
  PROVE  /\ s \notin ToTake /\ label = "lock" => Cardinality(ToTake') = Cardinality(ToTake) + 1
         /\ s \in ToTake /\ label = "test" => Cardinality(ToTake') = Cardinality(ToTake) - 1
         /\ (s \in ToTake <=> label \in {"lock", "load", "pop"}) =>
              Cardinality(ToTake') = Cardinality(ToTake)
  <1>1. CASE s \notin ToTake /\ label = "lock"
    <2>1. ToTake' = ToTake \cup {s}
      BY <1>1 DEF ToTake, QueueType
    <2>2. QED
      BY <1>1, <2>1, FifoFacts, FS_AddElement
  <1>2. CASE s \in ToTake /\ label = "test"
    <2>1. ToTake' = ToTake \ {s}
      BY <1>2 DEF ToTake, QueueType
    <2>2. QED
      BY <1>2, <2>1, FifoFacts, FS_RemoveElement
  <1>3. CASE s \in ToTake <=> label \in {"lock", "load", "pop"}
    <2>1. ToTake' = ToTake
      BY <1>3 DEF ToTake, QueueType
    <2>2. QED
      BY <1>3, <2>1
  <1>4. QED
    BY <1>1, <1>2, <1>3

(* A step of main that leaves the queue alone. *)
QuietForMain ==
  /\ UNCHANGED <<head, tail, next, fifo, handed, inbox, node, mutex, fault>>
  /\ mainPc # "tail" /\ mainPc' # "tail"

(* It keeps what is said of the list. *)
LEMMA QuietMainStep ==
  ASSUME FifoInv, QuietForMain, ChainInv, OnceInv, live \subseteq live'
  PROVE  ChainInv' /\ OnceInv'
  <1>1. \A i : After(i)' = After(i)
    BY DEF QuietForMain, After
  <1>2. Len(fifo') = Len(fifo)
    BY DEF QuietForMain
  <1>3. OnceInv'
    BY <1>2 DEF OnceInv, QuietForMain
  <1>4. ChainInv'
    BY <1>1, <1>2 DEF ChainInv, QuietForMain
  <1>5. QED
    BY <1>3, <1>4

(* The steps of main keep the list sound, as long as no session is in it. *)
LEMMA MainSoundStep ==
  ASSUME IInv, FifoInv, SoundInv, ~fault, MainStep
  PROVE  SoundInv'
  <1> SUFFICES ASSUME ~raced'
               PROVE  /\ ~fault' /\ Exclusion' /\ ChainInv' /\ OnceInv' /\ FreshInv'
                      /\ FoundInv' /\ TailInv' /\ PostedInv'
    BY DEF SoundInv
  <1>0. /\ QueueType /\ StartInv /\ MutexInv /\ LinkInv /\ NodeInv
        /\ Exclusion /\ ChainInv /\ OnceInv /\ FreshInv /\ FoundInv /\ TailInv /\ PostedInv
    BY DEF IInv, SoundInv, MainStep, StartThreads, InitSemaphores, ReadRequest, SemWaitAdd,
           SemWaitInterrupted, TestHead, SetHead, LoadTail, SetNext, SetTail, SemPostRemove,
           MainTouches
  <1>1. CASE StartThreads
    <2>1. QuietForMain /\ live' = live
      BY <1>1 DEF StartThreads, QuietForMain, queue, history
    <2>2. \A s \in Sessions : pc[s] \in Early /\ pc'[s] \in Early
      BY <1>0, <1>1 DEF StartThreads, StartInv, Early
    <2>3. ToTake = {} /\ ToTake' = {}
      BY <2>2 DEF ToTake, Early
    <2>4. ChainInv' /\ OnceInv'
      BY <1>0, <2>1, QuietMainStep
    <2>5. PostedInv'
      BY <1>0, <1>1, <2>3 DEF PostedInv, StartThreads, sems, history
    <2>6. TailInv'
      BY <1>0, <2>1, <2>2 DEF TailInv, QuietForMain, Early
    <2>7. QED
      BY <1>0, <1>1, <2>4, <2>5, <2>6
         DEF StartThreads, Exclusion, Inserting, FreshInv, Fresh, FoundInv, Adding, queue, history
  <1>2. CASE InitSemaphores
    <2>1. QuietForMain /\ live' = live /\ pc' = pc
      BY <1>2 DEF InitSemaphores, QuietForMain, queue, history, sessionVars
    <2>2. ChainInv' /\ OnceInv'
      BY <1>0, <2>1, QuietMainStep
    <2>3. PostedInv'
      BY <1>0, <1>2 DEF PostedInv, InitSemaphores, StartInv, ToTake, sessionVars, history
    <2>4. TailInv'
      BY <1>0, <2>1 DEF TailInv, QuietForMain
    <2>5. QED
      BY <1>0, <1>2, <2>2, <2>3, <2>4
         DEF InitSemaphores, Exclusion, Inserting, FreshInv, Fresh, FoundInv, Adding, queue,
             history
  <1>3. CASE ReadRequest
    <2>1. /\ UNCHANGED <<head, tail, next, fifo, handed, node, mutex, pc, fault>>
          /\ mainPc = "read" /\ mainPc' = "sem"
          /\ client' \in inbox /\ inbox' = inbox \ {client'} /\ live' = live \cup {client'}
          /\ semRemove' = semRemove
      BY <1>3 DEF ReadRequest, sems, sessionVars, history
    <2>2. \A i : After(i)' = After(i)
      BY <2>1 DEF After
    <2>3. ChainInv' /\ OnceInv'
      BY <1>0, <2>1, <2>2 DEF ChainInv, OnceInv
    <2>4. FreshInv'
      BY <1>0, <2>1 DEF FreshInv, Fresh, Adding
    <2>5. TailInv' /\ FoundInv' /\ Exclusion'
      BY <1>0, <2>1 DEF TailInv, FoundInv, Exclusion, Inserting
    <2>6. PostedInv'
      BY <1>0, <2>1 DEF PostedInv, ToTake
    <2>7. QED
      BY <1>0, <2>1, <2>3, <2>4, <2>5, <2>6 DEF SoundInv
  <1>4. CASE SemWaitAdd \/ SemWaitInterrupted
    <2>1. /\ QuietForMain /\ live' = live /\ pc' = pc /\ client' = client
          /\ semRemove' = semRemove /\ mainPc = "sem" /\ mainPc' = "head"
      BY <1>4 DEF SemWaitAdd, SemWaitInterrupted, QuietForMain, queue, history, sessionVars
    <2>2. ChainInv' /\ OnceInv'
      BY <1>0, <2>1, QuietMainStep
    <2>3. PostedInv'
      BY <1>0, <2>1 DEF PostedInv, QuietForMain, ToTake
    <2>4. TailInv' /\ FoundInv' /\ Exclusion' /\ FreshInv'
      BY <1>0, <2>1 DEF TailInv, FoundInv, Exclusion, Inserting, FreshInv, Fresh, Adding,
                        QuietForMain
    <2>5. QED
      BY <2>1, <2>2, <2>3, <2>4 DEF QuietForMain
  <1>5. CASE TestHead
    <2>1. /\ QuietForMain /\ live' = live /\ pc' = pc /\ client' = client
          /\ semRemove' = semRemove /\ mainPc = "head"
          /\ mainPc' = IF head = NULL THEN "sethead" ELSE "loadtail"
          /\ mutex = NULL
      BY <1>5 DEF TestHead, MainTouches, QuietForMain, queue, sems, history, sessionVars
    <2>2. ChainInv' /\ OnceInv'
      BY <1>0, <2>1, QuietMainStep
    <2>3. PostedInv'
      BY <1>0, <2>1 DEF PostedInv, QuietForMain, ToTake
    <2>4. head = NULL <=> fifo = <<>>
      <3>1. head = IF 0 < Len(fifo) THEN fifo[1] ELSE NULL
        BY <1>0, <2>1 DEF ChainInv, After
      <3>2. QED
        BY <3>1, FifoFacts, QueueAssumption
    <2>5. FoundInv'
      BY <2>1, <2>4 DEF FoundInv, QuietForMain
    <2>6. TailInv' /\ Exclusion' /\ FreshInv'
      BY <1>0, <2>1 DEF TailInv, Exclusion, Inserting, FreshInv, Fresh, Adding, QuietForMain
    <2>7. QED
      BY <2>1, <2>2, <2>3, <2>5, <2>6 DEF QuietForMain
  <1>6. CASE SetHead
    <2>1. /\ UNCHANGED <<tail, next, live, fifo, handed, inbox, client, node, mutex, pc, fault>>
          /\ semRemove' = semRemove /\ mainPc = "sethead" /\ mainPc' = "tail"
          /\ head' = client /\ mutex = NULL
      BY <1>6 DEF SetHead, MainTouches, sems, history, sessionVars
    <2>2. fifo = <<>> /\ Len(fifo) = 0
      BY <1>0, <2>1, FifoFacts DEF FoundInv
    <2>3. ChainInv' /\ OnceInv'
      BY <2>1, <2>2 DEF ChainInv, OnceInv, After
    <2>4. \A s \in Sessions : pc[s] \notin Inside
      BY <1>0, <2>1, QueueAssumption DEF MutexInv
    <2>5. TailInv'
      BY <1>0, <2>1, <2>4 DEF TailInv, Inside
    <2>6. PostedInv'
      BY <1>0, <2>1 DEF PostedInv, ToTake
    <2>7. FoundInv' /\ Exclusion' /\ FreshInv'
      BY <1>0, <2>1 DEF FoundInv, Exclusion, Inserting, FreshInv, Fresh, Adding
    <2>8. QED
      BY <2>1, <2>3, <2>5, <2>6, <2>7
  <1>7. CASE LoadTail
    <2>1. /\ QuietForMain /\ live' = live /\ pc' = pc /\ client' = client
          /\ semRemove' = semRemove /\ mainPc = "loadtail" /\ mainPc' = "next" /\ last' = tail
      BY <1>7 DEF LoadTail, QuietForMain, queue, sems, history, sessionVars
    <2>2. ChainInv' /\ OnceInv'
      BY <1>0, <2>1, QuietMainStep
    <2>3. PostedInv'
      BY <1>0, <2>1 DEF PostedInv, QuietForMain, ToTake
    <2>4. TailInv' /\ FoundInv' /\ Exclusion' /\ FreshInv'
      BY <1>0, <2>1 DEF TailInv, FoundInv, Exclusion, Inserting, FreshInv, Fresh, Adding,
                        QuietForMain
    <2>5. QED
      BY <2>1, <2>2, <2>3, <2>4 DEF QuietForMain
  <1>8. CASE SetNext
    <2>1. /\ UNCHANGED <<head, tail, live, fifo, handed, inbox, client, node, mutex, pc>>
          /\ semRemove' = semRemove /\ mainPc = "next" /\ mainPc' = "tail"
      BY <1>8 DEF SetNext, sems, history, sessionVars
    <2>2. Len(fifo) \in Nat \ {0} /\ last = fifo[Len(fifo)]
      BY <1>0, <2>1, FifoFacts DEF FoundInv, TailInv
    <2>3. last \in live \ handed /\ last # client /\ last \notin inbox
      BY <1>0, <2>1, <2>2 DEF ChainInv, FreshInv, Fresh, Adding
    <2>4. next' = [next EXCEPT ![last] = client] /\ ~fault'
      BY <1>8, <2>3 DEF SetNext
    <2>5. last \in Clients /\ next \in [Clients -> Node]
      BY <1>0, <2>3 DEF QueueType
    <2>6. ChainInv'
      <3>1. head' = After(0)'
        BY <1>0, <2>1, <2>2 DEF ChainInv, After
      <3>2. ASSUME NEW i \in 1..Len(fifo)
            PROVE  fifo[i] \in live \ handed /\ next'[fifo[i]] = After(i)'
        <4>1. CASE i = Len(fifo)
          BY <1>0, <2>1, <2>2, <2>4, <2>5, <4>1 DEF ChainInv, After
        <4>2. CASE i < Len(fifo)
          <5>1. fifo[i] # last
            BY <1>0, <2>2, <4>2 DEF OnceInv
          <5>2. fifo[i] \in live \ handed /\ next[fifo[i]] = fifo[i + 1]
            BY <1>0, <4>2 DEF ChainInv, After
          <5>3. next'[fifo[i]] = fifo[i + 1]
            BY <1>0, <2>4, <2>5, <5>1, <5>2 DEF QueueType
          <5>4. QED
            BY <2>1, <4>2, <5>2, <5>3 DEF After
        <4>3. QED
          BY <2>2, <4>1, <4>2
      <3>3. QED
        BY <2>1, <3>1, <3>2 DEF ChainInv
    <2>7. OnceInv' /\ TailInv' /\ FoundInv' /\ Exclusion'
      BY <1>0, <2>1 DEF OnceInv, TailInv, FoundInv, Exclusion, Inserting
    <2>8. FreshInv'
      <3>1. \A c \in Clients : c # last => next'[c] = next[c]
        BY <2>4, <2>5
      <3>2. QED
        BY <1>0, <2>1, <2>3, <3>1 DEF FreshInv, Fresh, Adding, QueueType
    <2>9. PostedInv'
      BY <1>0, <2>1 DEF PostedInv, ToTake
    <2>10. QED
      BY <2>4, <2>6, <2>7, <2>8, <2>9
  <1>9. CASE SetTail
    <2>1. /\ UNCHANGED <<head, next, live, handed, inbox, client, node, mutex, pc, fault>>
          /\ semRemove' = semRemove /\ mainPc = "tail" /\ mainPc' = "post"
          /\ tail' = client /\ fifo' = Append(fifo, client) /\ mutex = NULL
      BY <1>9 DEF SetTail, MainTouches, sems, history, sessionVars
    <2>2. /\ client \in live \ inbox /\ Fresh(client) /\ client \in Clients
      BY <1>0, <2>1 DEF FreshInv, FifoInv
    <2>3. /\ Len(fifo) \in Nat /\ Len(fifo') = Len(fifo) + 1
          /\ \A i \in 1..Len(fifo) : fifo'[i] = fifo[i]
          /\ fifo'[Len(fifo) + 1] = client /\ fifo' # <<>>
      BY <2>1, <2>2, AppendProperties, LenProperties DEF FifoInv
    <2>4. ChainInv'
      <3>1. head' = After(0)'
        <4>1. CASE Len(fifo) = 0
          BY <1>0, <2>1, <2>3, <4>1 DEF ChainInv, After
        <4>2. CASE Len(fifo) > 0
          <5>1. head = fifo[1]
            BY <1>0, <2>1, <4>2 DEF ChainInv, After
          <5>2. fifo'[1] = fifo[1]
            BY <2>3, <4>2
          <5>3. QED
            BY <2>1, <2>3, <5>1, <5>2 DEF After
        <4>3. QED
          BY <2>3, <4>1, <4>2
      <3>2. ASSUME NEW i \in 1..Len(fifo')
            PROVE  fifo'[i] \in live \ handed /\ next[fifo'[i]] = After(i)'
        <4>1. CASE i = Len(fifo) + 1
          BY <2>1, <2>2, <2>3, <4>1 DEF Fresh, After
        <4>2. CASE i = Len(fifo)
          BY <1>0, <2>1, <2>3, <4>2 DEF ChainInv, After
        <4>3. CASE i < Len(fifo)
          <5>1. fifo'[i] = fifo[i] /\ fifo'[i + 1] = fifo[i + 1]
            BY <2>3, <4>3
          <5>2. fifo[i] \in live \ handed /\ next[fifo[i]] = fifo[i + 1]
            BY <1>0, <2>3, <4>3 DEF ChainInv, After
          <5>3. QED
            BY <2>3, <4>3, <5>1, <5>2 DEF After
        <4>4. QED
          BY <2>3, <4>1, <4>2, <4>3
      <3>3. QED
        BY <2>1, <3>1, <3>2 DEF ChainInv
    <2>5. OnceInv'
      <3>1. \A i \in 1..Len(fifo') : i \in 1..Len(fifo) \/ i = Len(fifo) + 1
        BY <2>3
      <3>2. \A i \in 1..Len(fifo) : fifo'[i] # client
        BY <2>2, <2>3 DEF Fresh
      <3>3. QED
        BY <1>0, <2>3, <3>1, <3>2 DEF OnceInv
    <2>6. FreshInv'
      <3>1. ASSUME NEW c \in inbox
            PROVE  Fresh(c)'
        <4>1. Fresh(c) /\ c # client
          BY <1>0, <2>2 DEF FreshInv
        <4>2. \A i \in 1..Len(fifo') : fifo'[i] # c
          BY <2>3, <4>1 DEF Fresh
        <4>3. QED
          BY <2>1, <4>1, <4>2 DEF Fresh
      <3>2. QED
        BY <2>1, <3>1 DEF FreshInv, Adding
    <2>7. \A s \in Sessions : pc[s] \notin Inside
      BY <1>0, <2>1, QueueAssumption DEF MutexInv
    <2>8. TailInv' /\ FoundInv' /\ Exclusion'
      BY <2>1, <2>3, <2>7 DEF TailInv, FoundInv, Exclusion, Inserting, Inside
    <2>9. PostedInv'
      <3>1. ToTake' = ToTake
        BY <2>1 DEF ToTake
      <3>2. QED
        BY <1>0, <2>1, <2>3, <3>1, FifoFacts, SMTT(30) DEF PostedInv, QueueType
    <2>10. QED
      BY <1>0, <2>1, <2>4, <2>5, <2>6, <2>8, <2>9 DEF SoundInv
  <1>10. CASE SemPostRemove
    <2>1. /\ QuietForMain /\ live' = live /\ pc' = pc
          /\ semRemove' = semRemove + 1 /\ mainPc = "post" /\ mainPc' = "read"
      BY <1>10 DEF SemPostRemove, QuietForMain, queue, history, sessionVars
    <2>2. ChainInv' /\ OnceInv'
      BY <1>0, <2>1, QuietMainStep
    <2>3. PostedInv'
      <3>1. ToTake' = ToTake
        BY <2>1 DEF ToTake
      <3>2. QED
        BY <1>0, <2>1, <3>1, FifoFacts DEF PostedInv, QuietForMain, QueueType
    <2>4. TailInv' /\ FoundInv' /\ Exclusion' /\ FreshInv'
      BY <1>0, <2>1 DEF TailInv, FoundInv, Exclusion, Inserting, FreshInv, Fresh, Adding,
                        QuietForMain
    <2>5. QED
      BY <2>1, <2>2, <2>3, <2>4 DEF QuietForMain
  <1>11. QED
    BY <1>1, <1>2, <1>3, <1>4, <1>5, <1>6, <1>7, <1>8, <1>9, <1>10 DEF MainStep

(* A step of a session that leaves the queue alone. *)
QuietForSession ==
  UNCHANGED <<head, tail, next, fifo, handed, inbox, client, last, mainPc, fault>>

(* It keeps what is said of the list. *)
LEMMA QuietSessionStep ==
  ASSUME FifoInv, QuietForSession, live' = live, ChainInv, OnceInv, FreshInv, FoundInv
  PROVE  ChainInv' /\ OnceInv' /\ FreshInv' /\ FoundInv'
  <1>1. \A i : After(i)' = After(i)
    BY DEF QuietForSession, After
  <1>2. Len(fifo') = Len(fifo)
    BY DEF QuietForSession
  <1>3. OnceInv'
    BY <1>2 DEF OnceInv, QuietForSession
  <1>4. ChainInv'
    BY <1>1, <1>2 DEF ChainInv, QuietForSession
  <1>5. FreshInv' /\ FoundInv'
    BY DEF FreshInv, Fresh, FoundInv, QuietForSession
  <1>6. QED
    BY <1>3, <1>4, <1>5

(* The steps of a session keep the list sound: it takes the first client,  *)
(* which it was posted, and clears the tail after the last.                *)
LEMMA SessionSoundStep ==
  ASSUME IInv, FifoInv, SoundInv, ~fault, NEW s \in Sessions, SessionStep(s)
  PROVE  SoundInv'
  <1> SUFFICES ASSUME ~raced'
               PROVE  /\ ~fault' /\ Exclusion' /\ ChainInv' /\ OnceInv' /\ FreshInv'
                      /\ FoundInv' /\ TailInv' /\ PostedInv'
    BY DEF SoundInv
  <1>0. /\ QueueType /\ StartInv /\ MutexInv /\ LinkInv /\ NodeInv
        /\ Exclusion /\ ChainInv /\ OnceInv /\ FreshInv /\ FoundInv /\ TailInv /\ PostedInv
    BY DEF IInv, SoundInv, SessionStep, TakeClient, SemWaitRemove, LockQueue, LoadHead, PopHead,
           TestEmpty, ClearTail, UnlockQueue, SemPostAdd, FreeNode, EndSession, WaitEarly,
           WakeEarly
  <1>1. CASE SemWaitRemove(s) \/ WakeEarly(s)
    <2>1. /\ QuietForSession /\ live' = live /\ mutex' = mutex /\ node' = node
          /\ semRemove' = semRemove - 1
          /\ pc[s] \in {"wait", "early"} /\ pc' = [pc EXCEPT ![s] = "lock"]
      BY <1>1 DEF SemWaitRemove, WakeEarly, Go, QuietForSession, queue, mainVars, history
    <2>2. ChainInv' /\ OnceInv' /\ FreshInv' /\ FoundInv'
      BY <1>0, <2>1, QuietSessionStep
    <2>3. PostedInv'
      <3>1. Cardinality(ToTake') = Cardinality(ToTake) + 1
        BY <1>0, <2>1, ToTakeStep DEF ToTake
      <3>2. QED
        BY <1>0, <2>1, <3>1, FifoFacts DEF PostedInv, QuietForSession, QueueType
    <2>4. TailInv' /\ Exclusion'
      BY <1>0, <2>1 DEF TailInv, Exclusion, Inserting, QuietForSession, QueueType
    <2>5. QED
      BY <2>1, <2>2, <2>3, <2>4 DEF QuietForSession
  <1>2. CASE LockQueue(s)
    <2>1. /\ QuietForSession /\ live' = live /\ node' = node /\ semRemove' = semRemove
          /\ ~Inserting /\ pc[s] = "lock" /\ pc' = [pc EXCEPT ![s] = "load"]
      BY <1>2 DEF LockQueue, Go, QuietForSession, queue, sems, mainVars, history
    <2>2. ChainInv' /\ OnceInv' /\ FreshInv' /\ FoundInv'
      BY <1>0, <2>1, QuietSessionStep
    <2>3. PostedInv'
      <3>1. Cardinality(ToTake') = Cardinality(ToTake)
        BY <1>0, <2>1, ToTakeStep DEF ToTake
      <3>2. QED
        BY <1>0, <2>1, <3>1 DEF PostedInv, QuietForSession
    <2>4. TailInv' /\ Exclusion'
      BY <1>0, <2>1 DEF TailInv, Exclusion, Inserting, QuietForSession, QueueType
    <2>5. QED
      BY <2>1, <2>2, <2>3, <2>4 DEF QuietForSession
  <1>3. CASE LoadHead(s)
    <2>1. /\ QuietForSession /\ live' = live /\ mutex' = mutex /\ semRemove' = semRemove
          /\ node' = [node EXCEPT ![s] = head]
          /\ pc[s] = "load" /\ pc' = [pc EXCEPT ![s] = "pop"]
      BY <1>3 DEF LoadHead, Go, QuietForSession, queue, sems, mainVars, history
    <2>2. ChainInv' /\ OnceInv' /\ FreshInv' /\ FoundInv'
      BY <1>0, <2>1, QuietSessionStep
    <2>3. PostedInv'
      <3>1. Cardinality(ToTake') = Cardinality(ToTake)
        BY <1>0, <2>1, ToTakeStep DEF ToTake
      <3>2. QED
        BY <1>0, <2>1, <3>1 DEF PostedInv, QuietForSession
    <2>4. TailInv' /\ Exclusion'
      BY <1>0, <2>1 DEF TailInv, Exclusion, Inserting, QuietForSession, QueueType
    <2>5. QED
      BY <2>1, <2>2, <2>3, <2>4 DEF QuietForSession
  <1>4. CASE PopHead(s)
    <2>1. /\ mutex = s /\ mutex' = s /\ mainPc # "tail" /\ node[s] = head
          /\ pc[s] = "pop" /\ pc' = [pc EXCEPT ![s] = "test"]
          /\ UNCHANGED <<tail, next, live, inbox, client, last, mainPc, semRemove, node>>
      BY <1>0, <1>4, QueueAssumption
         DEF PopHead, Go, MutexInv, Inside, Exclusion, Inserting, TailInv, sems, mainVars
    <2>2. Len(fifo) \in Nat \ {0} /\ fifo # <<>>
      <3>1. s \in ToTake
        BY <2>1 DEF ToTake
      <3>2. Cardinality(ToTake) # 0
        BY <3>1, FifoFacts, FS_EmptySet
      <3>3. QED
        BY <1>0, <3>2, FifoFacts DEF PostedInv, QueueType
    <2>3. head = fifo[1] /\ head \in live \ handed /\ next[head] = After(1) /\ head # NULL
      BY <1>0, <2>1, <2>2, FifoFacts, QueueAssumption DEF ChainInv, After
    <2>4. /\ ~fault' /\ head' = After(1) /\ fifo' = Tail(fifo)
          /\ handed' = handed \cup {fifo[1]}
      <3>1. Head(fifo) = fifo[1]
        BY <1>0, <2>2, HeadTailProperties DEF FifoInv
      <3>2. node[s] = fifo[1] /\ node[s] \in live /\ node[s] # NULL
        BY <2>1, <2>3
      <3>3. {node[s]} \ {NULL} = {fifo[1]}
        BY <3>2
      <3>4. ~fault' /\ head' = next[head] /\ fifo' = Tail(fifo)
        BY <1>4, <2>1, <2>2, <3>1, <3>2 DEF PopHead
      <3>5. QED
        BY <1>4, <2>3, <3>3, <3>4 DEF PopHead
    <2>5. /\ Len(fifo') = Len(fifo) - 1
          /\ \A i \in 1..Len(fifo') : fifo'[i] = fifo[i + 1] /\ i + 1 \in 1..Len(fifo)
      BY <2>2, <2>4, HeadTailProperties DEF FifoInv
    <2>6. \A i \in 0..Len(fifo') : After(i)' = After(i + 1)
      <3>1. ASSUME NEW i \in 0..Len(fifo'), i < Len(fifo')
            PROVE  After(i)' = After(i + 1)
        BY <2>1, <2>2, <2>5, <3>1 DEF After
      <3>2. ASSUME NEW i \in 0..Len(fifo'), i = Len(fifo')
            PROVE  After(i)' = After(i + 1)
        BY <2>1, <2>2, <2>5, <3>2 DEF After
      <3>3. QED
        BY <2>2, <2>5, <3>1, <3>2
    <2>7. ChainInv'
      <3>1. head' = After(0)'
        BY <2>2, <2>4, <2>5, <2>6
      <3>2. ASSUME NEW i \in 1..Len(fifo')
            PROVE  fifo'[i] \in live \ handed' /\ next[fifo'[i]] = After(i)'
        <4>1. fifo[i + 1] \in live \ handed /\ next[fifo[i + 1]] = After(i + 1)
          BY <1>0, <2>5 DEF ChainInv
        <4>2. fifo[i + 1] # fifo[1]
          BY <1>0, <2>2, <2>5 DEF OnceInv
        <4>3. QED
          BY <2>2, <2>4, <2>5, <2>6, <4>1, <4>2
      <3>3. QED
        BY <2>1, <3>1, <3>2 DEF ChainInv
    <2>8. OnceInv'
      BY <1>0, <2>2, <2>5 DEF OnceInv
    <2>9. FreshInv'
      <3>1. ASSUME NEW c, Fresh(c)
            PROVE  Fresh(c)'
        BY <2>1, <2>2, <2>4, <2>5, <3>1 DEF Fresh
      <3>2. QED
        BY <1>0, <2>1, <3>1 DEF FreshInv
    <2>10. TailInv'
      <3>1. \A r \in Sessions : r # s => pc'[r] \notin {"pop", "clear"}
        BY <1>0, <2>1 DEF MutexInv, Inside, QueueType
      <3>2. pc'[s] = "test"
        BY <1>0, <2>1 DEF QueueType
      <3>3. fifo' # <<>> => tail = fifo'[Len(fifo')]
        <4>1. ASSUME fifo' # <<>>
              PROVE  Len(fifo') \in 1..Len(fifo') /\ Len(fifo') + 1 = Len(fifo)
          BY <2>2, <2>4, <2>5, <4>1, HeadTailProperties, EmptySeq DEF FifoInv
        <4>2. QED
          BY <1>0, <2>2, <2>5, <4>1 DEF TailInv
      <3>4. QED
        BY <2>1, <3>1, <3>2, <3>3 DEF TailInv
    <2>11. PostedInv'
      <3>1. Cardinality(ToTake') = Cardinality(ToTake) - 1
        BY <1>0, <2>1, ToTakeStep DEF ToTake
      <3>2. QED
        BY <1>0, <2>1, <2>2, <2>5, <3>1, FifoFacts, SMTT(30) DEF PostedInv, QueueType
    <2>12. FoundInv' /\ Exclusion'
      BY <1>0, <2>1, QueueAssumption DEF FoundInv, Exclusion, Inserting
    <2>13. QED
      BY <2>4, <2>7, <2>8, <2>9, <2>10, <2>11, <2>12
  <1>5. CASE TestEmpty(s)
    <2>1. /\ QuietForSession /\ live' = live /\ mutex' = mutex /\ node' = node
          /\ semRemove' = semRemove /\ pc[s] = "test"
          /\ pc' = [pc EXCEPT ![s] = IF head = NULL THEN "clear" ELSE "unlock"]
      BY <1>5 DEF TestEmpty, QuietForSession, queue, sems, mainVars, history
    <2>2. ChainInv' /\ OnceInv' /\ FreshInv' /\ FoundInv'
      BY <1>0, <2>1, QuietSessionStep
    <2>3. PostedInv'
      <3>1. Cardinality(ToTake') = Cardinality(ToTake)
        BY <1>0, <2>1, ToTakeStep DEF ToTake
      <3>2. QED
        BY <1>0, <2>1, <3>1 DEF PostedInv, QuietForSession
    <2>4. mutex = s /\ mainPc # "tail"
      BY <1>0, <2>1, QueueAssumption DEF MutexInv, Inside, Exclusion, Inserting
    <2>5. head = NULL <=> fifo = <<>>
      <3>1. head = IF 0 < Len(fifo) THEN fifo[1] ELSE NULL
        BY <1>0, <2>4 DEF ChainInv, After
      <3>2. QED
        BY <3>1, FifoFacts, QueueAssumption
    <2>6. TailInv'
      BY <1>0, <2>1, <2>5 DEF TailInv, QuietForSession, QueueType
    <2>7. Exclusion'
      BY <1>0, <2>1 DEF Exclusion, Inserting, QuietForSession
    <2>8. QED
      BY <2>1, <2>2, <2>3, <2>6, <2>7 DEF QuietForSession
  <1>6. CASE ClearTail(s)
    <2>1. /\ UNCHANGED <<head, next, live, fifo, handed, inbox, client, last, mainPc, node,
                        mutex, fault, semRemove>>
          /\ tail' = NULL /\ pc[s] = "clear" /\ pc' = [pc EXCEPT ![s] = "unlock"]
      BY <1>6 DEF ClearTail, Go, sems, mainVars, history
    <2>2. fifo = <<>> /\ mutex = s
      BY <1>0, <2>1 DEF TailInv, MutexInv, Inside
    <2>3. ChainInv' /\ OnceInv'
      BY <1>0, <2>1 DEF ChainInv, After, OnceInv
    <2>4. FreshInv' /\ FoundInv' /\ Exclusion'
      BY <1>0, <2>1, <2>2, QueueAssumption
         DEF FreshInv, Fresh, FoundInv, Exclusion, Inserting
    <2>5. TailInv'
      BY <1>0, <2>1, <2>2 DEF TailInv, QueueType
    <2>6. PostedInv'
      <3>1. Cardinality(ToTake') = Cardinality(ToTake)
        BY <1>0, <2>1, ToTakeStep DEF ToTake
      <3>2. QED
        BY <1>0, <2>1, <3>1 DEF PostedInv
    <2>7. QED
      BY <2>1, <2>3, <2>4, <2>5, <2>6
  <1>7. CASE FreeNode(s)
    <2>1. /\ UNCHANGED <<head, tail, next, fifo, handed, inbox, client, last, mainPc, node,
                        mutex, fault, semRemove>>
          /\ live' = live \ {node[s]} /\ pc[s] = "free" /\ pc' = [pc EXCEPT ![s] = "serve"]
      BY <1>7 DEF FreeNode, Go, sems, mainVars, history
    <2>2. node[s] \in handed
      BY <1>0, <2>1 DEF NodeInv, Taken
    <2>3. \A i : After(i)' = After(i)
      BY <2>1 DEF After
    <2>4. ChainInv' /\ OnceInv'
      BY <1>0, <2>1, <2>2, <2>3 DEF ChainInv, OnceInv
    <2>5. FreshInv' /\ FoundInv' /\ Exclusion'
      BY <1>0, <2>1, <2>2 DEF FreshInv, Fresh, FoundInv, Exclusion, Inserting
    <2>6. TailInv'
      BY <1>0, <2>1 DEF TailInv, QueueType
    <2>7. PostedInv'
      <3>1. Cardinality(ToTake') = Cardinality(ToTake)
        BY <1>0, <2>1, ToTakeStep DEF ToTake
      <3>2. QED
        BY <1>0, <2>1, <3>1 DEF PostedInv
    <2>8. QED
      BY <2>1, <2>4, <2>5, <2>6, <2>7
  <1>8. CASE UnlockQueue(s) \/ SemPostAdd(s) \/ EndSession(s) \/ WaitEarly(s)
    <2>1. /\ QuietForSession /\ live' = live /\ semRemove' = semRemove
          /\ mutex' \in {mutex, NULL}
          /\ \A r \in Sessions : r # s => node'[r] = node[r]
          /\ \E from \in {"unlock", "post", "serve", "wait"} :
             \E to \in {"post", "free", "wait", "early"} :
               pc[s] = from /\ pc' = [pc EXCEPT ![s] = to]
      BY <1>0, <1>8 DEF UnlockQueue, SemPostAdd, EndSession, WaitEarly, Go, QuietForSession,
                        queue, sems, mainVars, history, QueueType
    <2>2. ChainInv' /\ OnceInv' /\ FreshInv' /\ FoundInv'
      BY <1>0, <2>1, QuietSessionStep
    <2>3. PostedInv'
      <3>1. Cardinality(ToTake') = Cardinality(ToTake)
        BY <1>0, <2>1, ToTakeStep DEF ToTake
      <3>2. QED
        BY <1>0, <2>1, <3>1 DEF PostedInv, QuietForSession
    <2>4. TailInv' /\ Exclusion'
      BY <1>0, <2>1 DEF TailInv, Exclusion, Inserting, QuietForSession, QueueType
    <2>5. QED
      BY <2>1, <2>2, <2>3, <2>4 DEF QuietForSession
  <1>9. QED
    BY <1>1, <1>2, <1>3, <1>4, <1>5, <1>6, <1>7, <1>8 DEF SessionStep, TakeClient

(* The three invariants are inductive together. *)
LEMMA SoundNext == IInv /\ FifoInv /\ SoundInv /\ [Next]_vars => SoundInv'
  <1> SUFFICES ASSUME IInv, FifoInv, SoundInv, [Next]_vars PROVE SoundInv'
    OBVIOUS
  <1>1. CASE UNCHANGED vars
    BY <1>1 DEF vars, queue, sems, mainVars, sessionVars, history, SoundInv, Exclusion, Inserting,
       ChainInv, After, OnceInv, FreshInv, Fresh, FoundInv, TailInv, PostedInv, ToTake
  <1>2. CASE ~fault /\ MainStep
    BY <1>2, MainSoundStep
  <1>3. CASE ~fault /\ \E s \in Sessions : SessionStep(s)
    BY <1>3, SessionSoundStep
  <1>4. QED
    BY <1>1, <1>2, <1>3 DEF Next, SessionStep

(* As long as main and a session have not been in the queue together,      *)
(* nothing freed or NULL is dereferenced, and whenever nobody is in it the *)
(* linked list is the queue of the clients in the order main read them.    *)
THEOREM ListIntactUnlessRaced == Spec => []IntactUnlessRaced
  <1>1. Init => FifoInv /\ SoundInv
    BY SoundInit
  <1>2. IInv /\ FifoInv /\ SoundInv /\ [Next]_vars => FifoInv' /\ SoundInv'
    BY FifoStep, SoundNext
  <1>3. ASSUME IInv, FifoInv, SoundInv
        PROVE  IntactUnlessRaced
    <2>1. SUFFICES ASSUME ~raced, mutex = NULL, ~Inserting
                   PROVE  ListIsQueue
      BY <1>3 DEF IntactUnlessRaced, SoundInv
    <2>2. ChainInv /\ TailInv /\ MutexInv /\ mainPc # "tail"
      BY <1>3, <2>1 DEF SoundInv, IInv, Inserting
    <2>3. Len(fifo) \in Nat /\ (fifo = <<>> <=> Len(fifo) = 0)
      BY <1>3, FifoFacts
    <2>4. head = IF fifo = <<>> THEN NULL ELSE Head(fifo)
      BY <1>3, <2>2, <2>3, HeadTailProperties DEF ChainInv, After, FifoInv
    <2>5. tail = IF fifo = <<>> THEN NULL ELSE fifo[Len(fifo)]
      <3>1. \A s \in Sessions : pc[s] \notin {"test", "clear"}
        BY <2>1, <2>2, QueueAssumption DEF MutexInv, Inside
      <3>2. QED
        BY <2>2, <3>1 DEF TailInv
    <2>6. ASSUME NEW i \in 1..Len(fifo)
          PROVE  /\ fifo[i] \in live
                 /\ next[fifo[i]] = IF i = Len(fifo) THEN NULL ELSE fifo[i + 1]
      BY <2>2, <2>3 DEF ChainInv, After
    <2>7. QED
      BY <2>4, <2>5, <2>6 DEF ListIsQueue
  <1>4. QED
    BY <1>1, <1>2, <1>3, Invariance, PTL DEF Spec
=============================================================================
