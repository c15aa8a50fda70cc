--------------------------- MODULE Subscriptions ---------------------------
(***************************************************************************)
(* Subscriptions (server/operations.c, kvs.c, main.c): each key of the     *)
(* table has a tree of the sessions to notify, each session a tree of the  *)
(* keys it subscribed and a counter of them.  Session threads subscribe,   *)
(* unsubscribe and disconnect under the read lock of the list of the key,  *)
(* job threads write and delete under its write lock.                      *)
(*                                                                         *)
(* The tree of a key is the sequence of its sessions in insertion order,   *)
(* which with at most two sessions (MAX_SESSION_COUNT) determines its      *)
(* shape.  Of the locks, the table lock is left out (everybody here only   *)
(* read-locks it), and so is the lock of the tree of a key (it is only     *)
(* held within one step).  The lock of the tree of a session is held from  *)
(* step to step by a disconnecting session alone, as a reader: walking.    *)
(*                                                                         *)
(* Pipes never fill up, memory never runs out, and sessions are not        *)
(* cleaned by SIGUSR1 here.  wants and damaged are history variables.      *)
(***************************************************************************)
EXTENDS Integers, Sequences, FiniteSets, RwLock

CONSTANTS Sessions,     \* the session ids, from 0
          Jobs,         \* the job threads
          Keys,
          Written,      \* the keys job files have written before the first client
          Lists, ListOf,\* the lists of the table, hash()
          MaxSubs,      \* MAX_NUMBER_SUB
          MaxRequests,  \* requests served by each session thread
          MaxCommands   \* commands per job thread

Actors == Sessions \cup Jobs

ASSUME SubscriptionsAssumption ==
  /\ Sessions \subseteq {0, 1}
  /\ Jobs \cap {0, 1} = {}
  /\ Keys # {} /\ IsFiniteSet(Keys) /\ Written \subseteq Keys
  /\ ListOf \in [Keys -> Lists]
  /\ MaxSubs \in Nat \ {0} /\ MaxCommands \in Nat
  /\ MaxRequests \in [Sessions -> Nat]

VARIABLES
  present,   \* the keys in the table
  keySubs,   \* avl_notif_fds of every key
  sessKeys,  \* avl_clients_node: the keys in the tree of every session
  numSubs,   \* num_subs
  walking,   \* apply_to_all_nodes holds the lock of the tree of the session
  listLock,  \* IndexList.rwl
  pc,        \* where each session or job thread is
  req,       \* the request or command it serves
  result,    \* session: the request has not failed
  loaded,    \* num_subs as inc_num_subs or dec_num_subs has read it
  todo,      \* session: keys to walk; job: sessions to visit
  left,      \* requests or commands left
  wants,     \* history: the keys the client of a session may be told of
  damaged    \* history: a step has broken the books (see the actions)

books == <<keySubs, sessKeys, numSubs>>
local == <<pc, req, result, loaded, todo, left>>
history == <<wants, damaged>>
vars == <<present, books, walking, listLock, local, history>>

NoRequest == [op |-> "NONE", key |-> CHOOSE k \in Keys : TRUE]

Init ==
  /\ present = Written
  /\ keySubs = [k \in Keys |-> <<>>]
  /\ sessKeys = [s \in Sessions |-> {}]
  /\ numSubs = [s \in Sessions |-> 0]
  /\ walking = [s \in Sessions |-> FALSE]
  /\ listLock = [l \in Lists |-> FreeLock]
  /\ pc = [a \in Actors |-> "idle"]
  /\ req = [a \in Actors |-> NoRequest]
  /\ result = [s \in Sessions |-> FALSE]
  /\ loaded = [a \in Actors |-> 0]
  /\ todo = [a \in Actors |-> <<>>]
  /\ left = [a \in Actors |-> IF a \in Sessions THEN MaxRequests[a] ELSE MaxCommands]
  /\ wants = [s \in Sessions |-> {}]
  /\ damaged = FALSE

Key(a) == req[a].key
List(a) == ListOf[Key(a)]
Goto(a, label) == pc' = [pc EXCEPT ![a] = label]

(* The end of a request or command, whose local variables are forgotten.   *)
Finish(a) ==
  /\ Goto(a, "idle")
  /\ req' = [req EXCEPT ![a] = NoRequest]
  /\ result' = IF a \in Sessions THEN [result EXCEPT ![a] = FALSE] ELSE result
  /\ loaded' = [loaded EXCEPT ![a] = 0]
  /\ UNCHANGED <<todo, left>>

(* remove_node: the node of session s, which a tree has once at most.      *)
Without(seq, s) ==
  IF \A i \in DOMAIN seq : seq[i] # s THEN seq
  ELSE LET at == CHOOSE i \in DOMAIN seq : seq[i] = s
       IN  SubSeq(seq, 1, at - 1) \o SubSeq(seq, at + 1, Len(seq))
Subscribed(s, k) == \E i \in 1..Len(keySubs[k]) : keySubs[k][i] = s

(* The session whose tree and counter actor a is changing. *)
Target(a) == IF a \in Sessions THEN a ELSE Head(todo[a])

(* A DELETE of job j has still to visit session s. *)
IsVisiting(j, s) ==
  /\ pc[j] \in {"remkey", "dec", "decstore"}
  /\ \E i \in DOMAIN todo[j] : todo[j][i] = s

(* Actor a is between the read and the write of dec_num_subs, where it     *)
(* holds the session_mutex of its target.                                  *)
IsCountingDown(a, s) == pc[a] = "decstore" /\ Target(a) = s

(* Mutant of Visits: the trees of the sessions keep the deleted key.       *)
VisitNobody(tree) == <<>>

(* What remove_node_subscriptions_recursive visits: the left subtree, the  *)
(* root, and the left subtree again; the right subtree never.              *)
Visits(tree) ==
  IF Len(tree) < 2 THEN tree
  ELSE IF tree[2] < tree[1] THEN <<tree[2], tree[1], tree[2]>> ELSE <<tree[1]>>
-----------------------------------------------------------------------------
(* Requests of the clients (client_thread) *)

Request(s) ==
  /\ pc[s] = "idle"
  /\ left[s] > 0
  /\ left' = [left EXCEPT ![s] = @ - 1]
  /\ \E op \in {"SUBSCRIBE", "UNSUBSCRIBE"}, k \in Keys :
       /\ req' = [req EXCEPT ![s] = [op |-> op, key |-> k]]
       /\ wants' = IF op = "SUBSCRIBE" THEN [wants EXCEPT ![s] = @ \cup {k}] ELSE wants
  /\ Goto(s, "lock")
  /\ UNCHANGED <<present, books, walking, listLock, result, loaded, todo, damaged>>

LockList(s) ==
  /\ pc[s] = "lock"
  /\ CanRdLock(listLock[List(s)])
  /\ listLock' = [listLock EXCEPT ![List(s)] = RdLocked(@, s)]
  /\ Goto(s, "locked")
  /\ UNCHANGED <<present, books, walking, req, result, loaded, todo, left, history>>

(* Mutant of SubscribeEnds: has_key returns with its lock held when it     *)
(* finds the key.                                                          *)
KeepSessionLock(s) ==
  /\ pc[s] = "locked"
  /\ req[s].op = "SUBSCRIBE"
  /\ numSubs[s] = MaxSubs \/ Key(s) \in sessKeys[s] \/ Key(s) \notin present
  /\ result' = [result EXCEPT ![s] = numSubs[s] # MaxSubs /\ Key(s) \in sessKeys[s]]
  /\ walking' = [walking EXCEPT ![s] = result'[s]]
  /\ Goto(s, "unlock")
  /\ UNCHANGED <<present, books, listLock, req, loaded, todo, left, history>>

(* kvs_subscribe refuses a client at its limit and a key that is not in    *)
(* the table, and grants a key the session has already.                    *)
SubscribeEnds(s) ==
  /\ pc[s] = "locked"
  /\ req[s].op = "SUBSCRIBE"
  /\ numSubs[s] = MaxSubs \/ Key(s) \in sessKeys[s] \/ Key(s) \notin present
  /\ result' = [result EXCEPT ![s] = numSubs[s] # MaxSubs /\ Key(s) \in sessKeys[s]]
  /\ Goto(s, "unlock")
  /\ UNCHANGED <<present, books, walking, listLock, req, loaded, todo, left, history>>

SubscribePair(s) ==
  /\ pc[s] = "locked"
  /\ req[s].op = "SUBSCRIBE"
  /\ numSubs[s] # MaxSubs /\ Key(s) \notin sessKeys[s] /\ Key(s) \in present
  /\ keySubs' = IF Subscribed(s, Key(s)) THEN keySubs
                ELSE [keySubs EXCEPT ![Key(s)] = Append(@, s)]
  /\ result' = [result EXCEPT ![s] = TRUE]
  /\ Goto(s, "addkey")
  /\ UNCHANGED <<present, sessKeys, numSubs, walking, listLock, req, loaded, todo,
                 left, history>>

AddKey(s) ==
  /\ pc[s] = "addkey"
  /\ ~walking[s]
  /\ sessKeys' = [sessKeys EXCEPT ![s] = @ \cup {Key(s)}]
  /\ Goto(s, "inc")
  /\ UNCHANGED <<present, keySubs, numSubs, walking, listLock, req, result, loaded,
                 todo, left, history>>

(* inc_num_subs, unlike dec_num_subs, takes no mutex: a read and a write.  *)
IncLoad(s) ==
  /\ pc[s] = "inc"
  /\ loaded' = [loaded EXCEPT ![s] = numSubs[s]]
  /\ Goto(s, "incstore")
  /\ UNCHANGED <<present, books, walking, listLock, req, result, todo, left, history>>

IncStore(s) ==
  /\ pc[s] = "incstore"
  /\ numSubs' = [numSubs EXCEPT ![s] = loaded[s] + 1]
  /\ damaged' = (damaged \/ \E j \in Jobs : IsCountingDown(j, s))
  /\ Goto(s, "unlock")
  /\ UNCHANGED <<present, keySubs, sessKeys, walking, listLock, req, result, loaded,
                 todo, left, wants>>

(* kvs_unsubscribe refuses a key the session or the table does not have.   *)
UnsubscribeEnds(s) ==
  /\ pc[s] = "locked"
  /\ req[s].op = "UNSUBSCRIBE"
  /\ Key(s) \notin sessKeys[s] \/ Key(s) \notin present
  /\ result' = [result EXCEPT ![s] = FALSE]
  /\ Goto(s, "unlock")
  /\ UNCHANGED <<present, books, walking, listLock, req, loaded, todo, left, history>>

(* Mutant of UnsubscribePair: the session stays in the tree of the key. *)
StayInTree(s) ==
  /\ pc[s] = "locked"
  /\ req[s].op = "UNSUBSCRIBE"
  /\ Key(s) \in sessKeys[s] /\ Key(s) \in present
  /\ result' = [result EXCEPT ![s] = TRUE]
  /\ Goto(s, "remkey")
  /\ UNCHANGED <<present, books, walking, listLock, req, loaded, todo, left, history>>

UnsubscribePair(s) ==
  /\ pc[s] = "locked"
  /\ req[s].op = "UNSUBSCRIBE"
  /\ Key(s) \in sessKeys[s] /\ Key(s) \in present
  /\ keySubs' = [keySubs EXCEPT ![Key(s)] = Without(@, s)]
  /\ result' = [result EXCEPT ![s] = TRUE]
  /\ Goto(s, "remkey")
  /\ UNCHANGED <<present, sessKeys, numSubs, walking, listLock, req, loaded, todo,
                 left, history>>

(* Mutant of UnlockList: a request that was granted keeps its list locked. *)
KeepListLocked(s) ==
  /\ pc[s] = "unlock"
  /\ listLock' = IF result[s] THEN listLock
                 ELSE [listLock EXCEPT ![List(s)] = Unlocked(@, s)]
  /\ Goto(s, IF req[s].op = "DISCONNECT" THEN "walk"
             ELSE IF result[s] THEN "again" ELSE "reply")
  /\ UNCHANGED <<present, books, walking, req, result, loaded, todo, left, history>>

UnlockList(s) ==
  /\ pc[s] = "unlock"
  /\ listLock' = [listLock EXCEPT ![List(s)] = Unlocked(@, s)]
  /\ Goto(s, IF req[s].op = "DISCONNECT" THEN "walk"
             ELSE IF result[s] THEN "again" ELSE "reply")
  /\ UNCHANGED <<present, books, walking, req, result, loaded, todo, left, history>>

(* client_thread repeats the change of the tree of the session, the locks  *)
(* having been released.                                                   *)
Again(s) ==
  /\ pc[s] = "again"
  /\ ~walking[s]
  /\ sessKeys' = [sessKeys EXCEPT ![s] = IF req[s].op = "SUBSCRIBE" THEN @ \cup {Key(s)}
                                         ELSE @ \ {Key(s)}]
  /\ Goto(s, "reply")
  /\ UNCHANGED <<present, keySubs, numSubs, walking, listLock, req, result, loaded,
                 todo, left, history>>

Reply(s) ==
  /\ pc[s] = "reply"
  /\ wants' = IF req[s].op = "UNSUBSCRIBE" /\ result[s]
              THEN [wants EXCEPT ![s] = @ \ {Key(s)}] ELSE wants
  /\ Finish(s)
  /\ UNCHANGED <<present, books, walking, listLock, damaged>>
-----------------------------------------------------------------------------
(* DISCONNECT: kvs_disconnect, then clean_session_avl *)

Disconnect(s) ==
  /\ pc[s] = "idle"
  /\ left[s] > 0
  /\ left' = [left EXCEPT ![s] = @ - 1]
  /\ req' = [req EXCEPT ![s] = [NoRequest EXCEPT !.op = "DISCONNECT"]]
  /\ walking' = [walking EXCEPT ![s] = sessKeys[s] # {}]
  /\ \E order \in [1..Cardinality(sessKeys[s]) -> sessKeys[s]] :
       /\ \A k \in sessKeys[s] : \E i \in DOMAIN order : order[i] = k
       /\ todo' = [todo EXCEPT ![s] = order]
  /\ result' = [result EXCEPT ![s] = TRUE]
  /\ Goto(s, "walk")
  /\ UNCHANGED <<present, books, listLock, loaded, history>>

(* kvs_remove_subscription of the next key of the tree. *)
WalkLock(s) ==
  /\ pc[s] = "walk"
  /\ todo[s] # <<>>
  /\ CanRdLock(listLock[ListOf[Head(todo[s])]])
  /\ listLock' = [listLock EXCEPT ![ListOf[Head(todo[s])]] = RdLocked(@, s)]
  /\ req' = [req EXCEPT ![s].key = Head(todo[s])]
  /\ todo' = [todo EXCEPT ![s] = Tail(@)]
  /\ Goto(s, "visit")
  /\ UNCHANGED <<present, books, walking, result, loaded, left, history>>

(* A key that is not in the table is an error, of which                    *)
(* apply_to_all_nodes_recursive reports that of the root of the tree only. *)
WalkVisit(s) ==
  /\ pc[s] = "visit"
  /\ keySubs' = IF Key(s) \in present THEN [keySubs EXCEPT ![Key(s)] = Without(@, s)]
                ELSE keySubs
  /\ \E atRoot \in IF Cardinality(sessKeys[s]) = 1 THEN {TRUE} ELSE BOOLEAN :
       result' = [result EXCEPT ![s] = @ /\ (Key(s) \in present \/ ~atRoot)]
  /\ Goto(s, IF Key(s) \in present THEN "remkey" ELSE "unlock")
  /\ UNCHANGED <<present, sessKeys, numSubs, walking, listLock, req, loaded,
                 todo, left, history>>

(* The walk is over: the client is answered, the tree and the counter of   *)
(* the session are reset, and the session serves the next client.          *)
Clean(s) ==
  /\ pc[s] = "walk"
  /\ todo[s] = <<>>
  /\ walking' = [walking EXCEPT ![s] = FALSE]
  /\ sessKeys' = [sessKeys EXCEPT ![s] = {}]
  /\ numSubs' = [numSubs EXCEPT ![s] = 0]
  /\ wants' = [wants EXCEPT ![s] = {}]
  /\ damaged' = (damaged \/ \E j \in Jobs : IsVisiting(j, s))
  /\ Finish(s)
  /\ UNCHANGED <<present, keySubs, listLock>>
-----------------------------------------------------------------------------
(* remove_key_session_avl and dec_num_subs, called by kvs_unsubscribe and  *)
(* kvs_remove_subscription for the session itself, and by a DELETE for     *)
(* every session it visits.                                                *)

RemoveKey(a) ==
  /\ pc[a] = "remkey"
  /\ ~walking[Target(a)]
  /\ sessKeys' = [sessKeys EXCEPT ![Target(a)] = @ \ {Key(a)}]
  /\ damaged' = \/ damaged
                \/ /\ a \in Jobs
                   /\ pc[Target(a)] = "again"
                   /\ req[Target(a)] = [op |-> "SUBSCRIBE", key |-> Key(a)]
  /\ Goto(a, "dec")
  /\ UNCHANGED <<present, keySubs, numSubs, walking, listLock, req, result, loaded,
                 todo, left, wants>>

(* Mutant of DecLoad: dec_num_subs does not lock session_mutex. *)
DecLoadUnlocked(a) ==
  /\ pc[a] = "dec"
  /\ loaded' = [loaded EXCEPT ![a] = numSubs[Target(a)]]
  /\ Goto(a, "decstore")
  /\ UNCHANGED <<present, books, walking, listLock, req, result, todo, left, history>>

(* The -- of dec_num_subs is a read and a write under session_mutex, which *)
(* keeps the -- of a DELETE and of the session apart, but not the ++ of    *)
(* inc_num_subs.                                                           *)
DecLoad(a) ==
  /\ pc[a] = "dec"
  /\ \A b \in Actors : ~IsCountingDown(b, Target(a))
  /\ loaded' = [loaded EXCEPT ![a] = numSubs[Target(a)]]
  /\ Goto(a, "decstore")
  /\ UNCHANGED <<present, books, walking, listLock, req, result, todo, left, history>>

DecStore(a) ==
  /\ pc[a] = "decstore"
  /\ numSubs' = [numSubs EXCEPT ![Target(a)] = loaded[a] - 1]
  /\ damaged' = (damaged \/ (a \in Jobs /\ pc[Target(a)] = "incstore"))
  /\ todo' = IF a \in Jobs THEN [todo EXCEPT ![a] = Tail(@)] ELSE todo
  /\ Goto(a, IF a \in Jobs /\ Len(todo[a]) > 1 THEN "remkey" ELSE "unlock")
  /\ UNCHANGED <<present, keySubs, sessKeys, walking, listLock, req, result, loaded,
                 left, wants>>
-----------------------------------------------------------------------------
(* The job threads: one WRITE or DELETE of one key *)

Begin(j) ==
  /\ pc[j] = "idle"
  /\ left[j] > 0
  /\ left' = [left EXCEPT ![j] = @ - 1]
  /\ \E op \in {"WRITE", "DELETE"}, k \in Keys :
       req' = [req EXCEPT ![j] = [op |-> op, key |-> k]]
  /\ Goto(j, "lock")
  /\ UNCHANGED <<present, books, walking, listLock, result, loaded, todo, history>>

WrLockList(j) ==
  /\ pc[j] = "lock"
  /\ CanWrLock(listLock[List(j)])
  /\ listLock' = [listLock EXCEPT ![List(j)] = WrLocked(@, j)]
  /\ Goto(j, "locked")
  /\ UNCHANGED <<present, books, walking, req, result, loaded, todo, left, history>>

WritePair(j) ==
  /\ pc[j] = "locked"
  /\ req[j].op = "WRITE"
  /\ present' = present \cup {Key(j)}
  /\ Goto(j, "unlock")
  /\ UNCHANGED <<books, walking, listLock, req, result, loaded, todo, left, history>>

(* delete_pair; with two subscribers the visits miss one or repeat one.    *)
DeletePair(j) ==
  /\ pc[j] = "locked"
  /\ req[j].op = "DELETE"
  /\ present' = present \ {Key(j)}
  /\ keySubs' = [keySubs EXCEPT ![Key(j)] = <<>>]
  /\ todo' = [todo EXCEPT ![j] = Visits(keySubs[Key(j)])]
  /\ damaged' = (damaged \/ Len(keySubs[Key(j)]) > 1)
  /\ Goto(j, IF Visits(keySubs[Key(j)]) = <<>> THEN "unlock" ELSE "remkey")
  /\ UNCHANGED <<sessKeys, numSubs, walking, listLock, req, result, loaded, left, wants>>

WrUnlockList(j) ==
  /\ pc[j] = "unlock"
  /\ listLock' = [listLock EXCEPT ![List(j)] = Unlocked(@, j)]
  /\ Finish(j)
  /\ UNCHANGED <<present, books, walking, history>>
-----------------------------------------------------------------------------
SessionStep(s) ==
  \/ Request(s) \/ LockList(s) \/ SubscribeEnds(s) \/ SubscribePair(s) \/ AddKey(s)
  \/ IncLoad(s) \/ IncStore(s) \/ UnsubscribeEnds(s) \/ UnsubscribePair(s)
  \/ UnlockList(s) \/ Again(s) \/ Reply(s)
  \/ Disconnect(s) \/ WalkLock(s) \/ WalkVisit(s) \/ Clean(s)
  \/ RemoveKey(s) \/ DecLoad(s) \/ DecStore(s)

JobStep(j) ==
  \/ Begin(j) \/ WrLockList(j) \/ WritePair(j) \/ DeletePair(j)
  \/ RemoveKey(j) \/ DecLoad(j) \/ DecStore(j)
  \/ WrUnlockList(j)

Next == (\E s \in Sessions : SessionStep(s)) \/ (\E j \in Jobs : JobStep(j))

(* Threads that can run do; a client may send nothing for ever, but what a *)
(* session thread has begun it goes on with.                               *)
Fairness ==
  /\ \A j \in Jobs : WF_vars(JobStep(j))
  /\ \A s \in Sessions : WF_vars(pc[s] # "idle" /\ SessionStep(s))

Spec == Init /\ [][Next]_vars /\ Fairness
-----------------------------------------------------------------------------
(* Properties *)

Labels == {"idle", "lock", "locked", "addkey", "inc", "incstore", "remkey", "dec",
           "decstore", "unlock", "again", "reply", "walk", "visit"}

Ops == {"NONE", "SUBSCRIBE", "UNSUBSCRIBE", "DISCONNECT", "WRITE", "DELETE"}

TypeOK ==
  /\ present \subseteq Keys
  /\ keySubs \in [Keys -> Seq(Sessions)]
  /\ sessKeys \in [Sessions -> SUBSET Keys]
  /\ numSubs \in [Sessions -> Int]
  /\ walking \in [Sessions -> BOOLEAN]
  /\ listLock \in [Lists -> RwLocks(Actors)]
  /\ pc \in [Actors -> Labels]
  /\ req \in [Actors -> [op : Ops, key : Keys]]
  /\ result \in [Sessions -> BOOLEAN]
  /\ loaded \in [Actors -> Int]
  /\ todo = [a \in Actors |-> todo[a]]
  /\ \A a \in Actors : todo[a] \in IF a \in Sessions THEN Seq(Keys) ELSE Seq(Sessions)
  /\ left \in [Actors -> Nat]
  /\ wants \in [Sessions -> SUBSET Keys]
  /\ damaged \in BOOLEAN

(* A client is only told of keys it asked for and has not been granted to  *)
(* leave: neither UNSUBSCRIBE nor the next client of a session finds the   *)
(* session still in the tree of a key.                                     *)
ToldOnlyWhatItWants ==
  \A s \in Sessions, k \in Keys : Subscribed(s, k) => k \in wants[s]

(* No request of session s is being served, nor a DELETE visiting it.      *)
Settled(s) ==
  /\ pc[s] = "idle"
  /\ \A j \in Jobs : ~IsVisiting(j, s)

Subscriptions(s) == {k \in Keys : Subscribed(s, k)}

(* The two trees and the counter agree, and the limit is kept, until       *)
(*   - a DELETE hits a key of two sessions,                                *)
(*   - a DELETE runs between the unlock of kvs_subscribe and the second    *)
(*     add_key_session_avl of client_thread,                               *)
(*   - a DELETE counts the session down while inc_num_subs counts it up:   *)
(*     the write of either comes between the read and the write of the     *)
(*     other, which then overwrites it, or                                 *)
(*   - a session is cleaned while a DELETE has still to count it down;     *)
(* nothing else breaks the books.                                          *)
BooksAgreeUnlessDamaged ==
  ~damaged => \A s \in Sessions : Settled(s) =>
    /\ sessKeys[s] = Subscriptions(s)
    /\ numSubs[s] = Cardinality(Subscriptions(s))
    /\ numSubs[s] <= MaxSubs

(* client_thread answers a DISCONNECT that failed twice, and the client    *)
(* reads the first answer only.  It fails for a key that is not in the     *)
(* table, which a DELETE never leaves in the tree of a session behind the  *)
(* back of the walk, unless it has broken the books as above.              *)
DisconnectAnsweredOnce ==
  ~damaged => \A s \in Sessions : pc[s] = "walk" => result[s]

(* Actor a cannot go on because of actor b. *)
WaitsFor(a, b) ==
  \/ /\ a \in Sessions /\ pc[a] = "lock"
     /\ b \in listLock[List(a)].writer
  \/ /\ a \in Sessions /\ pc[a] = "walk" /\ todo[a] # <<>>
     /\ b \in listLock[ListOf[Head(todo[a])]].writer
  \/ /\ a \in Jobs /\ pc[a] = "lock"
     /\ Holds(listLock[List(a)], b)
  \/ /\ pc[a] \in {"addkey", "again", "remkey"}
     /\ b = Target(a) /\ walking[b]
  \/ pc[a] = "dec" /\ IsCountingDown(b, Target(a))

Circle(S) == \A a \in S : \E b \in S : WaitsFor(a, b)

(* Whoever waits in a circle, a disconnecting session is one of them.      *)
OnlyDisconnectDeadlocks ==
  \A S \in (SUBSET Actors) \ {{}} :
    Circle(S) => \E a \in S : req[a].op = "DISCONNECT"

(* The job threads get to the end of their files, unless a session hangs   *)
(* in its DISCONNECT.                                                      *)
JobsDoneUnlessDisconnectHangs ==
  (\A s \in Sessions : []<>~walking[s]) => <>(\A j \in Jobs : pc[j] = "idle" /\ left[j] = 0)

(* "mostrar que quando damos disconnect a um o que está à espera fica com  *)
(* a sessão iniciada" (test1.job): a DISCONNECT never hangs.               *)
NoCircularWait == \A S \in (SUBSET Actors) \ {{}} : ~Circle(S)

(* "Se acontecer um delete da chave [...] e se estava no limite [...] pode *)
(* subscrever a outra chave" (test1.job): a deleted key is not counted.    *)
DeletedKeysDoNotCount ==
  \A s \in Sessions : Settled(s) => numSubs[s] <= Cardinality(Subscriptions(s))
=============================================================================
