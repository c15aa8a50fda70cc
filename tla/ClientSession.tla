--------------------------- MODULE ClientSession ---------------------------
(***************************************************************************)
(* A client and the session thread that serves it, from the connection to  *)
(* the end of either (client/main.c, client/api.c; client_thread in        *)
(* server/main.c; clean_session_avl in server/operations.c), with SIGUSR1  *)
(* on the server, which cleans all sessions, and on the client, with which *)
(* its notification thread interrupts its main thread.                     *)
(*                                                                         *)
(* Pipes are sequences of messages without a capacity.  The descriptors    *)
(* of the server are a table of which open() takes the lowest free entry,  *)
(* so that a number that was kept too long may come to mean another pipe.  *)
(* The ClientData of a client is allocated once and freed once, or the     *)
(* process has used freed memory: that sets fault, and ends the behaviour. *)
(*                                                                         *)
(* The locks of the store, the counter of subscriptions and DELETE are in  *)
(* Subscriptions, the linked list and its semaphores in ClientQueue: here  *)
(* all keys stay in the table, a list that a job thread never gives up is  *)
(* in kept, and the queue is a sequence with a number of places.           *)
(* signalled, blank and the owner of a message are history.                *)
(***************************************************************************)
EXTENDS Naturals, Sequences, SequencesExt

CONSTANTS Clients,
          Terminals,    \* the clients whose input is a terminal, not a file
          NoClient,
          Keys,
          SessionCount, \* MAX_SESSION_COUNT
          MaxRequests,  \* commands in the input of each client
          Mortal,       \* the clients that may be killed
          MaxNotes      \* WRITEs and DELETEs of the job threads

ASSUME SessionAssumption ==
  /\ Terminals \subseteq Clients /\ Mortal \subseteq Clients /\ NoClient \notin Clients
  /\ Keys # {}
  /\ SessionCount \in Nat \ {0}
  /\ MaxRequests \in [Clients -> Nat] /\ MaxNotes \in Nat

Sessions == 0..(SessionCount - 1)
Kinds == {"resp", "req", "notif"}
Fds == 1..(3 * SessionCount)
NoPipe == <<NoClient, "none">>

NoKey == "none"
Message(op, key, owner) == [op |-> op, key |-> key, owner |-> owner]
NoMessage == Message("NONE", NoKey, NoClient)
Messages == [op : {"NONE", "CONNECT", "DISCONNECT", "SUBSCRIBE", "UNSUBSCRIBE", "NOTE"},
             key : Keys \cup {NoKey}, owner : Clients \cup {NoClient}]

VARIABLES
  \* the clients
  cpc,        \* where the main thread of every client is
  npc,        \* where its notification thread is
  terminate,  \* the flag they share
  sent,       \* the request it waits for an answer to
  left,       \* commands left in its input
  \* the kernel
  pipe,       \* what is in the three pipes of every client
  fds,        \* the descriptors of the server
  \* the server
  fdOf,       \* the descriptors in the ClientData of every client
  freed,      \* the ClientData that have been freed
  info,       \* clients_data of every session
  sessKeys,   \* avl_clients_node: the keys of every session
  keySubs,    \* avl_notif_fds of every key
  kept,       \* the keys on whose list a job thread waits for ever
  pc, at, msg,           \* session threads: label, client, request
  mainPc, mainAt,        \* main: label, session it cleans
  inbox, queue,          \* clients not in the queue yet, and in the queue
  newcomer,              \* the one of inbox whose message main has read
  places,                \* sem_add_to_queue
  notes,                 \* bounded by MaxNotes
  fault,      \* freed memory has been used
  sigFlag,    \* sig_flag
  signalled,  \* history: SIGUSR1 has been sent to the server
  late,       \* history: it is pending, and came between the test of the flag
              \* and the read()
  blank       \* history: clients that took an end of file for an answer

clientVars == <<cpc, npc, terminate, sent, left>>
data == <<fdOf, freed, info>>
books == <<sessKeys, keySubs, kept>>
sessionVars == <<pc, at, msg>>
mainVars == <<mainPc, mainAt, inbox, queue, newcomer, places>>
signals == <<sigFlag, late, signalled>>
server == <<fds, data, books, sessionVars, mainVars, notes, fault, signals>>
vars == <<clientVars, pipe, server, blank>>

Init ==
  /\ cpc = [c \in Clients |-> "start"]
  /\ npc = [c \in Clients |-> "none"]
  /\ terminate = [c \in Clients |-> FALSE]
  /\ sent = [c \in Clients |-> NoMessage]
  /\ left = MaxRequests
  /\ pipe = [p \in Clients \X Kinds |-> <<>>]
  /\ fds = [f \in Fds |-> NoPipe]
  /\ fdOf = [c \in Clients |-> [k \in Kinds |-> 0]]
  /\ freed = {}
  /\ info = [s \in Sessions |-> NoClient]
  /\ sessKeys = [s \in Sessions |-> {}]
  /\ keySubs = [k \in Keys |-> {}] /\ kept = {}
  /\ pc = [s \in Sessions |-> "take"]
  /\ at = [s \in Sessions |-> NoClient]
  /\ msg = [s \in Sessions |-> NoMessage]
  /\ mainPc = "enter" /\ mainAt = 0
  /\ sigFlag = FALSE /\ late = FALSE
  /\ inbox = {} /\ queue = <<>> /\ newcomer = NoClient
  /\ places = SessionCount
  /\ notes = 0
  /\ fault = FALSE /\ signalled = FALSE /\ blank = {}

Alive(c) == cpc[c] \notin {"ended", "dead"}
ServerHolds(p) == \E f \in Fds : fds[f] = p

(* A read that is blocked keeps its pipe open, also when another thread    *)
(* closes the descriptor.                                                  *)
HasReader(c) ==
  \/ ServerHolds(<<c, "req">>)
  \/ \E s \in Sessions : pc[s] = "reading" /\ at[s] = c

(* The descriptors of ClientData c, closed: whatever they mean by now.     *)
Closing(c) ==
  [f \in Fds |-> IF \E k \in Kinds : fdOf[c][k] = f THEN NoPipe ELSE fds[f]]

(* write_all to descriptor f, of which a closed descriptor, a pipe that is *)
(* open for reading and a reader that has gone make an error that is only  *)
(* printed.                                                                *)
Writes(f, m) ==
  IF fds[f] # NoPipe /\ fds[f][2] # "req" /\ Alive(fds[f][1])
  THEN [pipe EXCEPT ![fds[f]] = Append(@, m)] ELSE pipe

GotoC(c, label) == cpc' = [cpc EXCEPT ![c] = label]

(* The process of client c is over, and what its pipes held for it is lost. *)
Over(c, label) ==
  /\ GotoC(c, label)
  /\ npc' = [npc EXCEPT ![c] = "none"]
  /\ terminate' = [terminate EXCEPT ![c] = FALSE]
  /\ sent' = [sent EXCEPT ![c] = NoMessage]
  /\ left' = [left EXCEPT ![c] = 0]
  /\ pipe' = [pipe EXCEPT ![<<c, "resp">>] = <<>>, ![<<c, "notif">>] = <<>>]
Goto(s, label) == pc' = [pc EXCEPT ![s] = label]

LowestFree == CHOOSE f \in Fds : fds[f] = NoPipe /\ \A g \in Fds : fds[g] = NoPipe => f <= g
-----------------------------------------------------------------------------
(* The main thread of a client *)

(* kvs_connect makes the pipes and writes their names to the server pipe.  *)
Connect(c) ==
  /\ cpc[c] = "start"
  /\ GotoC(c, "resp")
  /\ inbox' = inbox \cup {c}
  /\ UNCHANGED <<npc, terminate, sent, left, pipe, fds, data, books, sessionVars, mainPc,
                 mainAt, queue, newcomer, places, notes, fault, signals, blank>>

(* The answer to the connection; the notification thread is started.       *)
Connected(c) ==
  /\ cpc[c] = "connect"
  /\ pipe[<<c, "resp">>] # <<>>
  /\ pipe' = [pipe EXCEPT ![<<c, "resp">>] = Tail(@)]
  /\ GotoC(c, "check")
  /\ npc' = [npc EXCEPT ![c] = "read"]
  /\ UNCHANGED <<terminate, sent, left, server, blank>>

Check(c) ==
  /\ cpc[c] = "check"
  /\ ~terminate[c]
  /\ GotoC(c, "idle")
  /\ UNCHANGED <<npc, terminate, sent, left, pipe, server, blank>>

Leave(c) ==
  /\ cpc[c] = "check"
  /\ terminate[c]
  /\ npc[c] = "done"
  /\ Over(c, "ended")
  /\ UNCHANGED <<server, blank>>

(* What the input of a client may have it send. *)
RequestsOf(c) ==
  {Message(op, k, c) : op \in {"SUBSCRIBE", "UNSUBSCRIBE"}, k \in Keys}
    \cup {Message("DISCONNECT", NoKey, c)}

Request(c) ==
  /\ cpc[c] = "idle"
  /\ left[c] > 0
  /\ HasReader(c)
  /\ left' = [left EXCEPT ![c] = @ - 1]
  /\ \E r \in RequestsOf(c) :
       /\ sent' = [sent EXCEPT ![c] = r]
       /\ pipe' = [pipe EXCEPT ![<<c, "req">>] = Append(@, r)]
  /\ GotoC(c, "await")
  /\ UNCHANGED <<npc, terminate, server, blank>>

(* The client does not ignore SIGPIPE, which kills it when nobody has its  *)
(* request pipe open for reading.                                          *)
RequestFails(c) ==
  /\ cpc[c] = "idle"
  /\ left[c] > 0
  /\ ~HasReader(c)
  /\ Over(c, "dead")
  /\ UNCHANGED <<server, blank>>

(* get_next returns EOC at once, again and again, at the end of a file.    *)
EndOfInput(c) ==
  /\ cpc[c] = "idle"
  /\ c \notin Terminals
  /\ left' = [left EXCEPT ![c] = 0]
  /\ GotoC(c, "check")
  /\ UNCHANGED <<npc, terminate, sent, pipe, server, blank>>

Answered(c) ==
  /\ cpc[c] = "await"
  /\ pipe[<<c, "resp">>] # <<>>
  /\ pipe' = [pipe EXCEPT ![<<c, "resp">>] = Tail(@)]
  /\ sent' = [sent EXCEPT ![c] = NoMessage]
  /\ GotoC(c, IF sent[c].op = "DISCONNECT" THEN "join" ELSE "check")
  /\ UNCHANGED <<npc, terminate, left, server, blank>>

(* read_all returns 0, which is not < 0: the buffer, never written, is     *)
(* taken for an answer, by a DISCONNECT for a good one or a bad one.       *)
AnsweredByEof(c) ==
  /\ cpc[c] = "await"
  /\ pipe[<<c, "resp">>] = <<>>
  /\ ~ServerHolds(<<c, "resp">>)
  /\ blank' = blank \cup {c}
  /\ \/ /\ GotoC(c, IF sent[c].op = "DISCONNECT" THEN "join" ELSE "check")
        /\ sent' = [sent EXCEPT ![c] = NoMessage]
        /\ UNCHANGED <<npc, terminate, left, pipe>>
     \/ sent[c].op = "DISCONNECT" /\ Over(c, "ended")
  /\ UNCHANGED server

Join(c) ==
  /\ cpc[c] = "join"
  /\ npc[c] = "done"
  /\ Over(c, "ended")
  /\ UNCHANGED <<server, blank>>

Die(c) ==
  /\ c \in Mortal
  /\ cpc[c] # "start" /\ Alive(c)
  /\ Over(c, "dead")
  /\ UNCHANGED <<server, blank>>
-----------------------------------------------------------------------------
(* The notification thread of a client *)

Notified(c) ==
  /\ npc[c] = "read" /\ Alive(c)
  /\ pipe[<<c, "notif">>] # <<>>
  /\ pipe' = [pipe EXCEPT ![<<c, "notif">>] = Tail(@)]
  /\ UNCHANGED <<clientVars, server, blank>>

NotifiedOfEof(c) ==
  /\ npc[c] = "read" /\ Alive(c)
  /\ pipe[<<c, "notif">>] = <<>>
  /\ ~ServerHolds(<<c, "notif">>)
  /\ npc' = [npc EXCEPT ![c] = "kill"]
  /\ UNCHANGED <<cpc, terminate, sent, left, pipe, server, blank>>

(* pthread_kill of the main thread: it ends a read that waits for input,   *)
(* or for an answer, of which a DISCONNECT makes an exit, and has no other *)
(* effect.                                                                 *)
Kill(c) ==
  /\ npc[c] = "kill" /\ Alive(c)
  /\ IF cpc[c] = "await" /\ pipe[<<c, "resp">>] = <<>> /\ sent[c].op = "DISCONNECT"
     THEN Over(c, "ended")
     ELSE /\ npc' = [npc EXCEPT ![c] = "store"]
          /\ IF cpc[c] = "idle" \/ (cpc[c] = "await" /\ pipe[<<c, "resp">>] = <<>>)
             THEN GotoC(c, "check") /\ sent' = [sent EXCEPT ![c] = NoMessage]
             ELSE UNCHANGED <<cpc, sent>>
          /\ UNCHANGED <<terminate, left, pipe>>
  /\ UNCHANGED <<server, blank>>

(* Mutant of StoreTerminate: the thread ends without telling. *)
StoreNothing(c) ==
  /\ npc[c] = "store" /\ Alive(c)
  /\ npc' = [npc EXCEPT ![c] = "done"]
  /\ UNCHANGED <<cpc, terminate, sent, left, pipe, server, blank>>

StoreTerminate(c) ==
  /\ npc[c] = "store" /\ Alive(c)
  /\ terminate' = [terminate EXCEPT ![c] = TRUE]
  /\ npc' = [npc EXCEPT ![c] = "done"]
  /\ UNCHANGED <<cpc, sent, left, pipe, server, blank>>
-----------------------------------------------------------------------------
(* client_thread: connection *)

TakeClient(s) ==
  /\ pc[s] = "take"
  /\ queue # <<>>
  /\ at' = [at EXCEPT ![s] = Head(queue)]
  /\ queue' = Tail(queue)
  /\ places' = places + 1
  /\ Goto(s, "resp")
  /\ UNCHANGED <<clientVars, pipe, fds, data, books, msg, mainPc, mainAt, inbox,
                 newcomer, notes, fault, signals, blank>>

(* open() of a named pipe returns, to both, when both have called it.      *)
OpenPipe(s) ==
  /\ pc[s] \in Kinds
  /\ cpc[at[s]] = pc[s]
  /\ fds' = [fds EXCEPT ![LowestFree] = <<at[s], pc[s]>>]
  /\ fdOf' = [fdOf EXCEPT ![at[s]][pc[s]] = LowestFree]
  /\ Goto(s, IF pc[s] = "resp" THEN "req" ELSE IF pc[s] = "req" THEN "notif" ELSE "greet")
  /\ GotoC(at[s], IF pc[s] = "resp" THEN "req" ELSE IF pc[s] = "req" THEN "notif"
                  ELSE "connect")
  /\ UNCHANGED <<npc, terminate, sent, left, pipe, freed, info, books, at, msg,
                 mainVars, notes, fault, signals, blank>>

Greet(s) ==
  /\ pc[s] = "greet"
  /\ Alive(at[s])
  /\ pipe' = Writes(fdOf[at[s]]["resp"], Message("CONNECT", NoKey, at[s]))
  /\ Goto(s, "setinfo")
  /\ UNCHANGED <<clientVars, fds, data, books, at, msg, mainVars, notes, fault,
                 signals, blank>>

(* Mutant of GreetFails: the pipes stay open. *)
GreetFailsOpen(s) ==
  /\ pc[s] = "greet"
  /\ ~Alive(at[s])
  /\ freed' = freed \cup {at[s]}
  /\ Goto(s, "take")
  /\ at' = [at EXCEPT ![s] = NoClient]
  /\ UNCHANGED <<clientVars, pipe, fds, fdOf, info, books, msg, mainVars, notes,
                 fault, signals, blank>>

(* The client is gone before it has its answer.                            *)
GreetFails(s) ==
  /\ pc[s] = "greet"
  /\ ~Alive(at[s])
  /\ fds' = Closing(at[s])
  /\ freed' = freed \cup {at[s]}
  /\ Goto(s, "take")
  /\ at' = [at EXCEPT ![s] = NoClient]
  /\ UNCHANGED <<clientVars, pipe, fdOf, info, books, msg, mainVars, notes,
                 fault, signals, blank>>

SetInfo(s) ==
  /\ pc[s] = "setinfo"
  /\ info' = [info EXCEPT ![s] = at[s]]
  /\ Goto(s, "loop")
  /\ UNCHANGED <<clientVars, pipe, fds, fdOf, freed, books, at, msg, mainVars, notes,
                 fault, signals, blank>>
-----------------------------------------------------------------------------
(* client_thread: requests *)

(* The session is about to use the ClientData of its client.               *)
UsesData(s) ==
  \/ pc[s] \in {"loop", "eof", "answer", "clean"}
  \/ pc[s] = "do" /\ msg[s].op = "SUBSCRIBE"

DataIsThere(s) == UsesData(s) => at[s] \notin freed

UseFreed(s) ==
  /\ ~DataIsThere(s)
  /\ fault' = TRUE
  /\ UNCHANGED <<clientVars, pipe, fds, data, books, sessionVars, mainVars, notes,
                 signals, blank>>

EnterRead(s) ==
  /\ pc[s] = "loop" /\ DataIsThere(s)
  /\ Goto(s, "reading")
  /\ UNCHANGED <<clientVars, pipe, fds, data, books, at, msg, mainVars, notes,
                 fault, signals, blank>>

ReadRequest(s) ==
  /\ pc[s] = "reading"
  /\ pipe[<<at[s], "req">>] # <<>>
  /\ msg' = [msg EXCEPT ![s] = Head(pipe[<<at[s], "req">>])]
  /\ pipe' = [pipe EXCEPT ![<<at[s], "req">>] = Tail(@)]
  /\ Goto(s, "do")
  /\ UNCHANGED <<clientVars, fds, data, books, at, mainVars, notes, fault,
                 signals, blank>>

ReadEof(s) ==
  /\ pc[s] = "reading"
  /\ pipe[<<at[s], "req">>] = <<>>
  /\ cpc[at[s]] \in {"join", "ended", "dead"}
  /\ Goto(s, "eof")
  /\ UNCHANGED <<clientVars, pipe, fds, data, books, at, msg, mainVars, notes,
                 fault, signals, blank>>

(* The pipes are closed, the data are freed, and the loop goes on.         *)
DropClient(s) ==
  /\ pc[s] = "eof" /\ DataIsThere(s)
  /\ fds' = Closing(at[s])
  /\ freed' = freed \cup {at[s]}
  /\ Goto(s, "loop")
  /\ UNCHANGED <<clientVars, pipe, fdOf, info, books, at, msg, mainVars, notes,
                 fault, signals, blank>>

(* kvs_subscribe is called with the descriptor in the data of the client,  *)
(* and then waits for the list of its key.                                 *)
EnterSubscribe(s) ==
  /\ pc[s] = "do" /\ DataIsThere(s)
  /\ msg[s].op = "SUBSCRIBE"
  /\ Goto(s, "lock")
  /\ UNCHANGED <<clientVars, pipe, fds, data, books, at, msg, mainVars, notes,
                 fault, signals, blank>>

(* A session that is in the tree of the key already (a cleaned one, whose  *)
(* own tree is empty) keeps the descriptor it had there.                   *)
Subscribe(s) ==
  /\ pc[s] = "lock"
  /\ msg[s].key \notin kept
  /\ LET k == msg[s].key IN
       /\ keySubs' = IF k \in sessKeys[s] \/ \E e \in keySubs[k] : e.session = s
                     THEN keySubs
                     ELSE [keySubs EXCEPT ![k] = @ \cup
                            {[session |-> s, fd |-> fdOf[at[s]]["notif"], owner |-> at[s]]}]
       /\ sessKeys' = [sessKeys EXCEPT ![s] = @ \cup {k}]
  /\ Goto(s, "answer")
  /\ UNCHANGED <<clientVars, pipe, fds, data, kept, at, msg, mainVars, notes,
                 fault, signals, blank>>

(* Mutant of Unsubscribe: the tree of the key keeps the session. *)
UnsubscribeHere(s) ==
  /\ pc[s] = "do"
  /\ msg[s].op = "UNSUBSCRIBE" /\ msg[s].key \notin kept
  /\ sessKeys' = [sessKeys EXCEPT ![s] = @ \ {msg[s].key}]
  /\ Goto(s, "answer")
  /\ UNCHANGED <<clientVars, pipe, fds, data, keySubs, kept, at, msg, mainVars, notes,
                 fault, signals, blank>>

(* Mutant of Unsubscribe: a refusal is not sent. *)
RefuseSilently(s) ==
  /\ pc[s] = "do"
  /\ msg[s].op = "UNSUBSCRIBE" /\ msg[s].key \notin kept
  /\ LET k == msg[s].key IN
       /\ keySubs' = IF k \in sessKeys[s]
                     THEN [keySubs EXCEPT ![k] = {e \in @ : e.session # s}] ELSE keySubs
       /\ sessKeys' = [sessKeys EXCEPT ![s] = @ \ {k}]
       /\ Goto(s, IF k \in sessKeys[s] THEN "answer" ELSE "loop")
  /\ UNCHANGED <<clientVars, pipe, fds, data, kept, at, msg, mainVars, notes,
                 fault, signals, blank>>

Unsubscribe(s) ==
  /\ pc[s] = "do"
  /\ msg[s].op = "UNSUBSCRIBE" /\ msg[s].key \notin kept
  /\ LET k == msg[s].key IN
       /\ keySubs' = IF k \in sessKeys[s]
                     THEN [keySubs EXCEPT ![k] = {e \in @ : e.session # s}] ELSE keySubs
       /\ sessKeys' = [sessKeys EXCEPT ![s] = @ \ {k}]
  /\ Goto(s, "answer")
  /\ UNCHANGED <<clientVars, pipe, fds, data, kept, at, msg, mainVars, notes,
                 fault, signals, blank>>

(* Mutant of Disconnect: the session is cleaned before the answer. *)
DisconnectSilently(s) ==
  /\ pc[s] = "do"
  /\ msg[s].op = "DISCONNECT"
  /\ Goto(s, IF sessKeys[s] = {} THEN "clean" ELSE "hung")
  /\ UNCHANGED <<clientVars, pipe, fds, data, books, at, msg, mainVars, notes,
                 fault, signals, blank>>

(* kvs_disconnect: with a subscription it waits for its own lock for ever  *)
(* (see Subscriptions), without one it has nothing to do.                  *)
Disconnect(s) ==
  /\ pc[s] = "do"
  /\ msg[s].op = "DISCONNECT"
  /\ Goto(s, IF sessKeys[s] = {} THEN "answer" ELSE "hung")
  /\ UNCHANGED <<clientVars, pipe, fds, data, books, at, msg, mainVars, notes,
                 fault, signals, blank>>

(* Mutant of Answer: it is sent twice. *)
AnswerTwice(s) ==
  /\ pc[s] = "answer" /\ DataIsThere(s)
  /\ pipe' = [pipe EXCEPT ![<<at[s], "resp">>] = @ \o <<msg[s], msg[s]>>]
  /\ msg' = [msg EXCEPT ![s] = NoMessage]
  /\ Goto(s, IF msg[s].op = "DISCONNECT" THEN "clean" ELSE "loop")
  /\ UNCHANGED <<clientVars, fds, data, books, at, mainVars, notes, fault,
                 signals, blank>>

Answer(s) ==
  /\ pc[s] = "answer" /\ DataIsThere(s)
  /\ pipe' = Writes(fdOf[at[s]]["resp"], msg[s])
  /\ msg' = [msg EXCEPT ![s] = NoMessage]
  /\ Goto(s, IF msg[s].op = "DISCONNECT" THEN "clean" ELSE "loop")
  /\ UNCHANGED <<clientVars, fds, data, books, at, mainVars, notes, fault,
                 signals, blank>>

(* Mutant of CleanSession: client_connected is not cleared. *)
ServeAfterClean(s) ==
  /\ pc[s] = "clean" /\ DataIsThere(s)
  /\ sessKeys' = [sessKeys EXCEPT ![s] = {}]
  /\ fds' = Closing(at[s])
  /\ freed' = freed \cup {at[s]}
  /\ Goto(s, "loop")
  /\ UNCHANGED <<clientVars, pipe, fdOf, info, keySubs, kept, at, msg, mainVars, notes,
                 fault, signals, blank>>

(* clean_session_avl at the end of a session; clients_data keeps the       *)
(* pointer to what it has freed.                                           *)
CleanSession(s) ==
  /\ pc[s] = "clean" /\ DataIsThere(s)
  /\ sessKeys' = [sessKeys EXCEPT ![s] = {}]
  /\ fds' = Closing(at[s])
  /\ freed' = freed \cup {at[s]}
  /\ Goto(s, "take")
  /\ at' = [at EXCEPT ![s] = NoClient]
  /\ UNCHANGED <<clientVars, pipe, fdOf, info, keySubs, kept, msg, mainVars, notes,
                 fault, signals, blank>>
-----------------------------------------------------------------------------
(* The main thread of the server *)

(* From the last look at sig_flag, whose value is passed to read_all(), to *)
(* the read() it calls when the flag is not set.                           *)
EnterServerRead ==
  /\ mainPc = "enter"
  /\ mainPc' = "read"
  /\ UNCHANGED <<clientVars, pipe, fds, data, books, sessionVars, mainAt, inbox, queue,
                 newcomer, places, notes, fault, signals, blank>>

ReadServerPipe ==
  /\ mainPc = "read"
  /\ newcomer' \in inbox
  /\ mainPc' = "add"
  /\ UNCHANGED <<clientVars, pipe, fds, data, books, sessionVars, mainAt, inbox, queue,
                 places, notes, fault, signals, blank>>

(* What main does when it is back at the head of its loop.                 *)
TestFlag == mainPc' = IF sigFlag' THEN "tree" ELSE "enter"

(* The client is put at the end of the list. *)
Enqueue ==
  /\ queue' = Append(queue, newcomer)
  /\ inbox' = inbox \ {newcomer}
  /\ newcomer' = NoClient

(* Mutant of Admit: the client is not put in the queue. *)
LoseClient ==
  /\ mainPc = "add" /\ places > 0
  /\ inbox' = inbox \ {newcomer}
  /\ newcomer' = NoClient
  /\ places' = places - 1
  /\ UNCHANGED <<clientVars, pipe, fds, data, books, sessionVars, mainAt, queue, notes,
                 fault, signals, blank>>
  /\ TestFlag

(* main waits for a place in the queue, with SIGUSR1 pending if that came  *)
(* after the read().                                                       *)
Admit ==
  /\ mainPc = "add" /\ places > 0
  /\ Enqueue
  /\ places' = places - 1
  /\ UNCHANGED <<clientVars, pipe, fds, data, books, sessionVars, mainAt, notes,
                 fault, signals, blank>>
  /\ TestFlag

(* SIGUSR1 is sent, once: a second one would kill the process. *)
SendSignal ==
  /\ ~signalled
  /\ signalled' = TRUE /\ sigFlag' = TRUE
  /\ late' = (mainPc = "enter")

(* Mutant of Signal: read_all() goes on after EINTR. *)
SignalRestarts ==
  /\ SendSignal
  /\ UNCHANGED <<clientVars, pipe, fds, data, books, sessionVars, mainVars, notes,
                 fault, blank>>

(* Only main takes it.  It interrupts the read() from the server pipe, of  *)
(* which no byte was read; elsewhere it only sets the flag, also when it   *)
(* comes just before the wait for a place.                                 *)
Signal ==
  /\ SendSignal
  /\ IF mainPc = "read" THEN TestFlag ELSE UNCHANGED mainPc
  /\ UNCHANGED <<clientVars, pipe, fds, data, books, sessionVars, mainAt, inbox, queue,
                 newcomer, places, notes, fault, blank>>

(* It interrupts the wait for a place, whose result main does not look at. *)
SignalCutsWait ==
  /\ SendSignal
  /\ mainPc = "add" /\ places = 0
  /\ Enqueue
  /\ TestFlag
  /\ UNCHANGED <<clientVars, pipe, fds, data, books, sessionVars, mainAt, places, notes,
                 fault, blank>>

(* clean_avl waits for the lock of the tree, which a session that hangs in *)
(* its DISCONNECT never gives up.                                          *)
CleanTree ==
  /\ mainPc = "tree"
  /\ pc[mainAt] # "hung"
  /\ sessKeys' = [sessKeys EXCEPT ![mainAt] = {}]
  /\ mainPc' = "data"
  /\ UNCHANGED <<clientVars, pipe, fds, data, keySubs, kept, sessionVars, mainAt, inbox,
                 queue, newcomer, places, notes, fault, signals, blank>>

(* The pipes of the session are closed and its data freed.  Between these  *)
(* the session could still use the data, with closed descriptors, and then *)
(* use it freed, which is a fault in any case.                             *)
CleanData ==
  /\ mainPc = "data"
  /\ LET c == info[mainAt] IN
       /\ fault' = (c \in freed)
       /\ fds' = IF c \in freed \cup {NoClient} THEN fds ELSE Closing(c)
       /\ freed' = freed \cup ({c} \ {NoClient})
  /\ mainPc' = IF mainAt = SessionCount - 1 THEN "enter" ELSE "tree"
  /\ mainAt' = IF mainAt = SessionCount - 1 THEN 0 ELSE mainAt + 1
  /\ sigFlag' = (sigFlag /\ mainAt < SessionCount - 1)
  /\ late' = (late /\ sigFlag')
  /\ UNCHANGED <<clientVars, pipe, fdOf, info, books, sessionVars, inbox, queue, newcomer,
                 places, notes, signalled, blank>>
-----------------------------------------------------------------------------
(* The job threads: a WRITE of a key, which tells the sessions in its tree; *)
(* and a WRITE or DELETE that has locked the list of a key for writing and *)
(* waits for ever, for another WRITE or for the tree of a session that     *)
(* hangs in its DISCONNECT (see KvsStore and Subscriptions).               *)

Notify(k) ==
  /\ notes < MaxNotes
  /\ keySubs[k] # {} /\ k \notin kept
  /\ notes' = notes + 1
  /\ pipe' = [p \in DOMAIN pipe |->
       IF p[2] = "req" \/ ~Alive(p[1]) THEN pipe[p]
       ELSE pipe[p] \o SetToSeq({Message("NOTE", k, e.owner) :
                                   e \in {x \in keySubs[k] : fds[x.fd] = p}})]
  /\ UNCHANGED <<clientVars, fds, data, books, sessionVars, mainVars, fault,
                 signals, blank>>

KeepList(k) ==
  /\ notes < MaxNotes
  /\ k \notin kept
  /\ notes' = notes + 1
  /\ kept' = kept \cup {k}
  /\ UNCHANGED <<clientVars, pipe, fds, data, sessKeys, keySubs, sessionVars, mainVars,
                 fault, signals, blank>>
-----------------------------------------------------------------------------
NotifThread(c) == NotifiedOfEof(c) \/ Notified(c) \/ Kill(c) \/ StoreTerminate(c)

ClientGoesOn(c) ==
  \/ Connected(c) \/ Check(c) \/ Leave(c) \/ EndOfInput(c)
  \/ Answered(c) \/ AnsweredByEof(c) \/ Join(c)

SessionThread(s) ==
  \/ TakeClient(s) \/ OpenPipe(s) \/ Greet(s) \/ GreetFails(s) \/ SetInfo(s)
  \/ EnterRead(s) \/ ReadRequest(s) \/ ReadEof(s) \/ DropClient(s)
  \/ EnterSubscribe(s) \/ Subscribe(s) \/ Unsubscribe(s) \/ Disconnect(s) \/ Answer(s)
  \/ CleanSession(s) \/ UseFreed(s)

MainThread == EnterServerRead \/ ReadServerPipe \/ Admit \/ CleanTree \/ CleanData

Next ==
  /\ ~fault
  /\ \/ \E c \in Clients :
          \/ Connect(c) \/ Request(c) \/ RequestFails(c) \/ Die(c)
          \/ ClientGoesOn(c) \/ NotifThread(c)
     \/ \E s \in Sessions : SessionThread(s)
     \/ MainThread
     \/ Signal \/ SignalCutsWait
     \/ \E k \in Keys : Notify(k) \/ KeepList(k)

(* Every thread that can go on does; nothing makes a user connect or type. *)
Fairness ==
  /\ \A c \in Clients :
       WF_vars(~fault /\ ClientGoesOn(c)) /\ WF_vars(~fault /\ NotifThread(c))
  /\ \A s \in Sessions : WF_vars(~fault /\ SessionThread(s))
  /\ WF_vars(~fault /\ MainThread)

Spec == Init /\ [][Next]_vars /\ Fairness
-----------------------------------------------------------------------------
(* Every variable has its type, and every session but an idle one has a    *)
(* client.                                                                 *)
TypeOK ==
  /\ cpc \in [Clients -> Kinds \cup {"start", "connect", "check", "idle", "await", "join",
                                     "ended", "dead"}]
  /\ npc \in [Clients -> {"none", "read", "kill", "store", "done"}]
  /\ terminate \in [Clients -> BOOLEAN]
  /\ sent \in [Clients -> Messages]
  /\ \A c \in Clients : left[c] \in 0..MaxRequests[c]
  /\ DOMAIN pipe = Clients \X Kinds
  /\ \A p \in DOMAIN pipe : \A i \in DOMAIN pipe[p] : pipe[p][i] \in Messages
  /\ fds \in [Fds -> (Clients \X Kinds) \cup {NoPipe}]
  /\ fdOf \in [Clients -> [Kinds -> Fds \cup {0}]]
  /\ freed \subseteq Clients
  /\ info \in [Sessions -> Clients \cup {NoClient}]
  /\ sessKeys \in [Sessions -> SUBSET Keys]
  /\ keySubs \in [Keys -> SUBSET [session : Sessions, fd : Fds, owner : Clients]]
  /\ kept \subseteq Keys
  /\ pc \in [Sessions -> Kinds \cup {"take", "greet", "setinfo", "loop", "reading", "eof",
                                     "do", "lock", "answer", "clean", "hung"}]
  /\ at \in [Sessions -> Clients \cup {NoClient}]
  /\ \A s \in Sessions : pc[s] = "take" <=> at[s] = NoClient
  /\ msg \in [Sessions -> Messages]
  /\ mainPc \in {"enter", "read", "add", "tree", "data"} /\ mainAt \in Sessions
  /\ inbox \subseteq Clients /\ places \in Nat
  /\ newcomer \in Clients \cup {NoClient} /\ (mainPc = "add" <=> newcomer # NoClient)
  /\ notes \in 0..MaxNotes
  /\ {fault, sigFlag, signalled, late} \subseteq BOOLEAN
  /\ blank \subseteq Clients

(* Clients that stay, leave with DISCONNECT, or die before they are let    *)
(* in, never bring the server to use freed data, in whatever order they    *)
(* connect, ask and leave: it takes SIGUSR1, or a client that dies while   *)
(* the session that then faults serves it.                                 *)
OrderlyClientsAreSafe ==
  fault => \/ signalled
           \/ \E s \in Sessions : pc[s] = "loop" /\ info[s] = at[s] /\ cpc[at[s]] = "dead"

(* No way a session can end, SIGUSR1 included, leaves a descriptor open.   *)
NoDescriptorLeak ==
  \A f \in Fds : fds[f] # NoPipe => \E s \in Sessions : at[s] = fds[f][1]

(* SIGUSR1 has been sent, or a session whose client died is about to fault. *)
Doomed == signalled \/ \E s \in Sessions : at[s] \in freed

(* Until then, what is in the response pipe of a client is the one answer  *)
(* to the request it waits with.                                           *)
AnswersMatchRequests ==
  ~Doomed => \A c \in Clients :
    LET p == pipe[<<c, "resp">>] IN
      p # <<>> /\ Alive(c) =>
        /\ Len(p) = 1
        /\ \/ cpc[c] = "connect" /\ p[1] = Message("CONNECT", NoKey, c)
           \/ cpc[c] = "await" /\ p[1] = sent[c]

(* Until then, no client is told of the key of another one through a       *)
(* descriptor that has changed its meaning.                                *)
NotesGoHome ==
  ~Doomed => \A c \in Clients :
    \A i \in DOMAIN pipe[<<c, "notif">>] : pipe[<<c, "notif">>][i].owner = c

(* A client takes the end of file for an answer, which it then reports     *)
(* from a buffer it never wrote, only when SIGUSR1 has closed its pipes:   *)
(* no end of a session, its own or another's, does that to it.             *)
BlankOnlyAfterSignal == blank # {} => signalled

(* When the server has closed its pipes, a client ends, though the signal  *)
(* comes before the flag; but one whose input is a terminal may have       *)
(* looked at the flag in between, and then waits for its user.             *)
LeavesWithServer ==
  \A c \in Clients :
    npc[c] = "read" /\ ~ServerHolds(<<c, "notif">>) ~>
      \/ fault \/ ~Alive(c)
      \/ c \in Terminals /\ cpc[c] = "idle" /\ terminate[c]

(* SIGUSR1 gets the sessions cleaned without anybody's help, unless main   *)
(* hangs on the tree of one: only when it comes between the test of the    *)
(* flag and the read() it has to interrupt does it wait for somebody to    *)
(* connect, and only when it finds main with a client for a full queue,    *)
(* before the wait for a place, does it wait for a session to be over.     *)
CleanedUnlessLate ==
  sigFlag ~>
    \/ ~sigFlag \/ fault
    \/ mainPc = "tree" /\ pc[mainAt] = "hung"
    \/ late /\ mainPc = "read" /\ inbox = {}
    \/ mainPc = "add" /\ places = 0 /\ \A s \in Sessions : at[s] # NoClient

(* A request is answered, or its client ends, unless the session hangs in  *)
(* its DISCONNECT, or needs the list of a key that a job thread keeps.     *)
AnsweredUnlessHung ==
  \A c \in {d \in Clients : MaxRequests[d] > 0} :
    cpc[c] = "await" ~>
      \/ cpc[c] # "await" \/ fault
      \/ \E s \in Sessions :
           at[s] = c /\ (pc[s] = "hung" \/ (pc[s] \in {"do", "lock"} /\ msg[s].key \in kept))

(* A client that connects is let in, unless main hangs or each session has *)
(* another client.                                                         *)
ConnectedUnlessBusy ==
  \A c \in Clients :
    cpc[c] \in Kinds ~>
      \/ cpc[c] \notin Kinds \/ fault
      \/ mainPc = "tree" /\ pc[mainAt] = "hung"
      \/ \A s \in Sessions : at[s] \in Clients \ {c}
=============================================================================
