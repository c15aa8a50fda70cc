------------------------ MODULE SubscriptionsProofs ------------------------
(***************************************************************************)
(* What Subscriptions promises for any number of sessions, jobs, keys and  *)
(* lists: its types, that a client is told only of keys it wants, that     *)
(* threads wait for each other in a circle only while one of them          *)
(* disconnects, and that trees and counters agree.  The argument has five  *)
(* layers, each inductive on top of the ones before it: types and labels   *)
(* (TypeInv), which thread holds which list (LockInv), the walk of a       *)
(* session that disconnects (WalkInv), who is in the tree of a key         *)
(* (ToldInv), and how the books differ under way (BooksInv).               *)
(***************************************************************************)
EXTENDS Subscriptions, FiniteSetTheorems, SequenceTheorems, TLAPS

JobHolds == {"locked", "remkey", "dec", "decstore", "unlock"}
JobLabels == {"idle", "lock"} \cup JobHolds
SessionHolds == {"locked", "addkey", "inc", "incstore", "remkey", "dec", "decstore",
                 "unlock", "visit"}

(* What each label tells of the thread that is there. *)
JobRoles(j) ==
  /\ pc[j] \in JobLabels
  /\ req[j].op \in {"NONE", "WRITE", "DELETE"}
  /\ pc[j] \in {"remkey", "dec", "decstore"} => todo[j] # <<>>

SessionRoles(s) ==
  /\ pc[s] = "idle" => req[s].op = "NONE"
  /\ pc[s] \in {"lock", "locked", "again", "reply"} =>
       req[s].op \in {"SUBSCRIBE", "UNSUBSCRIBE"}
  /\ pc[s] \in {"addkey", "inc", "incstore"} => req[s].op = "SUBSCRIBE"
  /\ pc[s] \in {"remkey", "dec", "decstore"} => req[s].op \in {"UNSUBSCRIBE", "DISCONNECT"}
  /\ pc[s] = "unlock" => req[s].op \in {"SUBSCRIBE", "UNSUBSCRIBE", "DISCONNECT"}
  /\ pc[s] \in {"walk", "visit"} => req[s].op = "DISCONNECT"
  /\ pc[s] = "again" => result[s]

(* A tree has a session once at most. *)
OneNode == \A k \in Keys : \A m, n \in DOMAIN keySubs[k] :
             keySubs[k][m] = keySubs[k][n] => m = n

(* The locks of the lists are held by whom their labels say. *)
LockInv ==
  \A l \in Lists, a \in Actors :
    /\ a \in listLock[l].writer <=> a \in Jobs /\ pc[a] \in JobHolds /\ List(a) = l
    /\ a \in listLock[l].readers <=> a \in Sessions /\ pc[a] \in SessionHolds /\ List(a) = l
    /\ a \in listLock[l].writer => \A b \in Actors : Holds(listLock[l], b) => b = a

(* A disconnecting session holds the lock of its tree until it has walked  *)
(* the whole of it, and meanwhile the tree stays as it was.                *)
Walks(s) ==
  /\ walking[s] => req[s].op = "DISCONNECT"
  /\ req[s].op = "DISCONNECT" =>
       /\ pc[s] \in {"walk", "visit", "remkey", "unlock"}
       /\ walking[s] \/ (pc[s] = "walk" /\ todo[s] = <<>>)
       /\ \A n \in DOMAIN todo[s] : todo[s][n] \in sessKeys[s]
       /\ pc[s] \in {"visit", "remkey"} => Key(s) \in sessKeys[s]

WalkInv == \A s \in Sessions : Walks(s)

InTodo(a, x) == \E n \in DOMAIN todo[a] : todo[a][n] = x

(* The session has left the tree of the key of its request. *)
HasLeft(s) ==
  \/ pc[s] \in {"remkey", "dec", "decstore"}
  \/ pc[s] \in {"unlock", "again", "reply"} /\ req[s].op = "UNSUBSCRIBE" /\ result[s]

(* What it takes for session s to be in the tree of a key: the client must *)
(* have asked, the key be there, the session know of it or be about to     *)
(* and, if it disconnects, have the key before it.                         *)
Member(s, k) ==
  /\ k \in wants[s]
  /\ k \in present
  /\ k \in sessKeys[s] \/ (pc[s] = "addkey" /\ Key(s) = k)
  /\ req[s].op = "DISCONNECT" => InTodo(s, k) \/ (pc[s] = "visit" /\ Key(s) = k)

Told(s) ==
  /\ req[s].op = "SUBSCRIBE" => Key(s) \in wants[s]
  /\ HasLeft(s) => ~Subscribed(s, Key(s))
  /\ \A j \in Jobs : pc[j] \in {"remkey", "dec", "decstore"} => ~Subscribed(s, Key(j))
  /\ \A k \in Keys : Subscribed(s, k) => Member(s, k)

ToldInv == \A s \in Sessions : Told(s)

TypeInv ==
  /\ TypeOK
  /\ OneNode
  /\ \A j \in Jobs : JobRoles(j)
  /\ \A s \in Sessions : SessionRoles(s)

(* Taking a session out of a duplicate-free tree removes that session and   *)
(* nothing else.                                                            *)
LEMMA WithoutFacts ==
  ASSUME NEW S, NEW seq \in Seq(S), NEW s,
         \A i, j \in DOMAIN seq : seq[i] = seq[j] => i = j
  PROVE  /\ Without(seq, s) \in Seq(S)
         /\ \A x : (\E i \in DOMAIN Without(seq, s) : Without(seq, s)[i] = x)
                     <=> x # s /\ (\E i \in DOMAIN seq : seq[i] = x)
         /\ \A i, j \in DOMAIN Without(seq, s) :
              Without(seq, s)[i] = Without(seq, s)[j] => i = j
  <1>1. CASE \A i \in DOMAIN seq : seq[i] # s
    BY <1>1 DEF Without
  <1>2. CASE ~ \A i \in DOMAIN seq : seq[i] # s
    <2> DEFINE at == CHOOSE i \in DOMAIN seq : seq[i] = s
               one == SubSeq(seq, 1, at - 1)
               two == SubSeq(seq, at + 1, Len(seq))
    <2>1. at \in 1..Len(seq) /\ seq[at] = s
      BY <1>2, LenProperties
    <2>2. Without(seq, s) = one \o two
      BY <1>2 DEF Without
    <2> HIDE DEF at
    <2>3. /\ one \in Seq(S) /\ Len(one) = at - 1
          /\ \A i \in 1..(at - 1) : one[i] = seq[i]
      <3>1. \A i \in 1..(at - 1) : seq[i] \in S
        BY <2>1, ElementOfSeq, LenProperties
      <3>2. QED
        BY <2>1, <3>1, SubSeqProperties, LenProperties
    <2>4. /\ two \in Seq(S) /\ Len(two) = Len(seq) - at
          /\ \A i \in 1..(Len(seq) - at) : two[i] = seq[i + at]
      <3>1. \A i \in (at + 1)..Len(seq) : seq[i] \in S
        BY <2>1, ElementOfSeq, LenProperties
      <3>2. QED
        BY <2>1, <3>1, SubSeqProperties, LenProperties
    <2> HIDE DEF one, two
    <2>5. /\ one \o two \in Seq(S)
          /\ Len(one \o two) = Len(seq) - 1
          /\ \A i \in 1..(Len(seq) - 1) :
               (one \o two)[i] = IF i < at THEN seq[i] ELSE seq[i + 1]
      <3>1. Len(seq) \in Nat
        BY LenProperties
      <3>2. /\ one \o two \in Seq(S)
            /\ Len(one \o two) = Len(one) + Len(two)
            /\ \A i \in 1..(Len(one) + Len(two)) :
                 (one \o two)[i] = IF i <= Len(one) THEN one[i] ELSE two[i - Len(one)]
        BY <2>3, <2>4, ConcatProperties
      <3>3. Len(one) + Len(two) = Len(seq) - 1
        BY <2>1, <2>3, <2>4, <3>1
      <3>4. ASSUME NEW i \in 1..(Len(seq) - 1)
            PROVE  (one \o two)[i] = IF i < at THEN seq[i] ELSE seq[i + 1]
        <4>1. CASE i < at
          BY <2>1, <2>3, <3>1, <3>2, <3>3, <4>1
        <4>2. CASE i >= at
          <5>1. i - (at - 1) \in 1..(Len(seq) - at) /\ (i - (at - 1)) + at = i + 1
            BY <2>1, <3>1, <4>2
          <5>2. (one \o two)[i] = two[i - (at - 1)]
            BY <2>1, <2>3, <3>1, <3>2, <3>3, <4>2
          <5>3. QED
            BY <2>1, <2>4, <3>1, <4>2, <5>1, <5>2
        <4>3. i < at \/ i >= at
          BY <2>1, <3>1
        <4>4. QED
          BY <4>1, <4>2, <4>3
      <3>5. QED
        BY <3>2, <3>3, <3>4
    <2> DEFINE wo == Without(seq, s)
    <2>6. /\ wo \in Seq(S) /\ DOMAIN wo = 1..(Len(seq) - 1)
          /\ \A i \in 1..(Len(seq) - 1) : wo[i] = IF i < at THEN seq[i] ELSE seq[i + 1]
      BY <2>2, <2>5, LenProperties
    <2> HIDE DEF wo
    <2>7. DOMAIN seq = 1..Len(seq) /\ Len(seq) \in Nat
      BY LenProperties
    <2>8. ASSUME NEW x, NEW i \in DOMAIN seq, x # s, seq[i] = x
          PROVE  \E j \in DOMAIN wo : wo[j] = x
      <3>1. CASE i < at
        BY <2>1, <2>6, <2>7, <2>8, <3>1
      <3>2. CASE i > at
        <4>1. i - 1 \in DOMAIN wo /\ wo[i - 1] = seq[i]
          BY <2>1, <2>6, <2>7, <3>2
        <4>2. QED
          BY <4>1, <2>8
      <3>3. QED
        BY <2>1, <2>7, <2>8, <3>1, <3>2
    <2>9. ASSUME NEW i \in DOMAIN wo
          PROVE  wo[i] # s /\ \E j \in DOMAIN seq : seq[j] = wo[i]
      <3>1. CASE i < at
        BY <2>1, <2>6, <2>7, <3>1
      <3>2. CASE i >= at
        <4>1. i + 1 \in DOMAIN seq /\ i + 1 # at /\ wo[i] = seq[i + 1]
          BY <2>1, <2>6, <2>7, <2>9, <3>2
        <4>2. seq[i + 1] # s
          BY <2>1, <2>7, <4>1
        <4>3. QED
          BY <4>1, <4>2
      <3>3. QED
        BY <2>1, <2>6, <2>7, <2>9, <3>1, <3>2
    <2>10. ASSUME NEW i \in DOMAIN wo, NEW j \in DOMAIN wo, wo[i] = wo[j]
           PROVE  i = j
      <3> DEFINE from(n) == IF n < at THEN n ELSE n + 1
      <3>1. from(i) \in DOMAIN seq /\ from(j) \in DOMAIN seq
        BY <2>1, <2>6, <2>7
      <3>2. seq[from(i)] = seq[from(j)]
        BY <2>6, <2>10
      <3>3. from(i) = from(j)
        BY <3>1, <3>2
      <3>4. QED
        BY <2>1, <2>6, <2>7, <3>3
    <2>11. QED
      BY <2>6, <2>8, <2>9, <2>10 DEF wo
  <1>3. QED
    BY <1>1, <1>2

-----------------------------------------------------------------------------
(* A thread is a session or a job, and its request is one of the requests   *)
(* of its kind.                                                             *)
LEMMA ActorFacts ==
  /\ \A j \in Jobs : j \in Actors /\ j \notin Sessions
  /\ \A s \in Sessions : s \in Actors /\ s \notin Jobs
  /\ NoRequest \in [op : Ops, key : Keys] /\ NoRequest.op = "NONE"
  BY SubscriptionsAssumption DEF Actors, NoRequest, Ops

(* The lock operations of RwLock keep the shape of the locks. *)
LEMMA LockTypes ==
  ASSUME NEW lock \in RwLocks(Actors), NEW t \in Actors
  PROVE  /\ RdLocked(lock, t) \in RwLocks(Actors)
         /\ WrLocked(lock, t) \in RwLocks(Actors)
         /\ Unlocked(lock, t) \in RwLocks(Actors)
  BY DEF RwLocks, RdLocked, WrLocked, Unlocked

(* The key that a thread works on is a key: of its request, or of its walk. *)
LEMMA KeyFacts ==
  ASSUME TypeOK, NEW a \in Actors
  PROVE  Key(a) \in Keys /\ List(a) \in Lists /\ listLock[List(a)] \in RwLocks(Actors)
  BY SubscriptionsAssumption DEF TypeOK, Key, List

(* What a thread has left to do is a sequence of keys or of sessions. *)
LEMMA TodoTypes ==
  ASSUME TypeOK, NEW a \in Actors, NEW q, todo' = [todo EXCEPT ![a] = q],
         q \in IF a \in Sessions THEN Seq(Keys) ELSE Seq(Sessions)
  PROVE  /\ todo' = [b \in Actors |-> todo'[b]]
         /\ \A b \in Actors : todo'[b] \in IF b \in Sessions THEN Seq(Keys) ELSE Seq(Sessions)
  <1>1. todo' = [b \in Actors |-> IF b = a THEN q ELSE todo[b]]
    BY Zenon DEF TypeOK
  <1>2. QED
    BY <1>1 DEF TypeOK

(* The server starts with well-typed books. *)
LEMMA TypeInit == Init => TypeInv
  <1> SUFFICES ASSUME Init PROVE TypeInv
    OBVIOUS
  <1> USE SubscriptionsAssumption, ActorFacts DEF Init
  <1>1. TypeOK
    <2>1. keySubs \in [Keys -> Seq(Sessions)] /\ listLock \in [Lists -> RwLocks(Actors)]
      BY DEF FreeLock, RwLocks
    <2>2. left \in [Actors -> Nat]
      BY DEF Actors
    <2>3. \A a \in Actors : todo[a] \in IF a \in Sessions THEN Seq(Keys) ELSE Seq(Sessions)
      OBVIOUS
    <2>4. todo = [a \in Actors |-> todo[a]]
      OBVIOUS
    <2>5. req \in [Actors -> [op : Ops, key : Keys]]
      OBVIOUS
    <2>6. pc \in [Actors -> Labels]
      BY DEF Labels
    <2>7. present \subseteq Keys /\ damaged \in BOOLEAN
      OBVIOUS
    <2>8. /\ sessKeys \in [Sessions -> SUBSET Keys] /\ wants \in [Sessions -> SUBSET Keys]
          /\ numSubs \in [Sessions -> Int] /\ loaded \in [Actors -> Int]
      OBVIOUS
    <2>9. walking \in [Sessions -> BOOLEAN] /\ result \in [Sessions -> BOOLEAN]
      BY Zenon
    <2>10. QED
      BY <2>1, <2>2, <2>3, <2>4, <2>5, <2>6, <2>7, <2>8, <2>9, Zenon DEF TypeOK
  <1>2. (\A j \in Jobs : JobRoles(j)) /\ (\A s \in Sessions : SessionRoles(s))
    BY DEF JobRoles, SessionRoles, JobLabels
  <1>3. OneNode
    BY DEF OneNode
  <1>4. QED
    BY <1>1, <1>2, <1>3 DEF TypeInv

(* A request stays one when the walk turns to another key. *)
LEMMA WithKey ==
  ASSUME NEW r \in [op : Ops, key : Keys], NEW k \in Keys
  PROVE  [r EXCEPT !.key = k] \in [op : Ops, key : Keys]
  OBVIOUS

(* A step of a session keeps the types of the books, except what the labels *)
(* tell (SessionRolesStep).                                                 *)
LEMMA SessionTypeStep ==
  ASSUME TypeInv, NEW s \in Sessions, SessionStep(s)
  PROVE  TypeOK'
  <1>1. TypeOK /\ s \in Actors
    BY ActorFacts DEF TypeInv
  <1>2. Key(s) \in Keys /\ List(s) \in Lists /\ listLock[List(s)] \in RwLocks(Actors)
    BY <1>1, KeyFacts
  <1> USE <1>1, <1>2 DEF TypeOK, books, local, history, Goto
  <1>3. CASE Request(s)
    BY <1>3 DEF Request, Labels, Ops
  <1>4. CASE LockList(s)
    BY <1>4, LockTypes DEF LockList, Labels
  <1>5. CASE SubscribeEnds(s)
    BY <1>5 DEF SubscribeEnds, Labels
  <1>6. CASE SubscribePair(s)
    BY <1>6 DEF SubscribePair, Labels
  <1>7. CASE AddKey(s)
    BY <1>7 DEF AddKey, Labels
  <1>8. CASE IncLoad(s)
    BY <1>8 DEF IncLoad, Labels
  <1>9. CASE IncStore(s)
    BY <1>9 DEF IncStore, Labels
  <1>10. CASE UnsubscribeEnds(s)
    BY <1>10 DEF UnsubscribeEnds, Labels
  <1>11. CASE UnlockList(s)
    BY <1>11, LockTypes DEF UnlockList, Labels
  <1>12. CASE Again(s)
    BY <1>12 DEF Again, Labels
  <1>13. CASE Reply(s)
    BY <1>13, ActorFacts DEF Reply, Finish, Labels
  <1>14. CASE Disconnect(s)
    <2>1. Cardinality(sessKeys[s]) \in Nat
      BY FS_Subset, FS_CardinalityType, SubscriptionsAssumption
    <2>2. PICK order \in [1..Cardinality(sessKeys[s]) -> sessKeys[s]] :
            todo' = [todo EXCEPT ![s] = order]
      BY <1>14 DEF Disconnect
    <2>3. order \in Seq(Keys)
      <3> DEFINE n == Cardinality(sessKeys[s])
      <3>1. n \in Nat /\ order \in [1..n -> Keys]
        BY <2>1, <2>2
      <3> HIDE DEF n
      <3>2. order \in UNION {[1..m -> Keys] : m \in Nat}
        BY <3>1
      <3>3. QED
        BY <3>2, SeqDef, Zenon
    <2>5. /\ todo' = [a \in Actors |-> todo'[a]]
          /\ \A a \in Actors : todo'[a] \in IF a \in Sessions THEN Seq(Keys) ELSE Seq(Sessions)
      BY <2>2, <2>3, TodoTypes
    <2>6. [NoRequest EXCEPT !.op = "DISCONNECT"] \in [op : Ops, key : Keys]
      BY ActorFacts DEF Ops
    <2>7. req' \in [Actors -> [op : Ops, key : Keys]]
      BY <1>14, <2>6, Zenon DEF Disconnect
    <2>8. pc' \in [Actors -> Labels]
      BY <1>14 DEF Disconnect, Labels
    <2>9. walking' \in [Sessions -> BOOLEAN] /\ result' \in [Sessions -> BOOLEAN]
      BY <1>14, Zenon DEF Disconnect
    <2>10. left' \in [Actors -> Nat]
      BY <1>14, SMTT(30) DEF Disconnect
    <2>11. UNCHANGED <<present, keySubs, sessKeys, numSubs, listLock, loaded, wants, damaged>>
      BY <1>14, Zenon DEF Disconnect
    <2>12. QED
      BY <2>5, <2>7, <2>8, <2>9, <2>10, <2>11, Zenon
  <1>15. CASE WalkLock(s)
    <2>1. todo[s] \in Seq(Keys) /\ todo[s] # <<>>
      BY <1>15 DEF WalkLock
    <2>2. Head(todo[s]) \in Keys /\ Tail(todo[s]) \in Seq(Keys)
      BY <2>1, HeadTailProperties
    <2>3. ListOf[Head(todo[s])] \in Lists
      BY <2>2, SubscriptionsAssumption
    <2>4. listLock' \in [Lists -> RwLocks(Actors)]
      BY <1>15, <2>3, LockTypes DEF WalkLock
    <2>5. req' \in [Actors -> [op : Ops, key : Keys]]
      <3>1. [req[s] EXCEPT !.key = Head(todo[s])] \in [op : Ops, key : Keys]
        BY <2>2, WithKey
      <3>2. req' = [req EXCEPT ![s] = [req[s] EXCEPT !.key = Head(todo[s])]]
        BY <1>15, Zenon DEF WalkLock
      <3>3. QED
        BY <3>1, <3>2, Zenon
    <2>6. /\ todo' = [a \in Actors |-> todo'[a]]
          /\ \A a \in Actors : todo'[a] \in IF a \in Sessions THEN Seq(Keys) ELSE Seq(Sessions)
      BY <1>15, <2>2 DEF WalkLock
    <2>7. QED
      BY <1>15, <2>4, <2>5, <2>6 DEF WalkLock, Labels
  <1>16. CASE Clean(s)
    BY <1>16, ActorFacts DEF Clean, Finish, Labels
  <1>17. CASE RemoveKey(s)
    BY <1>17, ActorFacts DEF RemoveKey, Target, Labels
  <1>18. CASE DecLoad(s)
    BY <1>18, ActorFacts DEF DecLoad, Target, Labels
  <1>21. CASE DecStore(s)
    BY <1>21, ActorFacts, SMTT(30) DEF DecStore, Target, Labels
  <1>19. CASE UnsubscribePair(s)
    <2>1. Without(keySubs[Key(s)], s) \in Seq(Sessions)
      BY WithoutFacts DEF TypeInv, OneNode
    <2>2. QED
      BY <1>19, <2>1 DEF UnsubscribePair, Labels
  <1>20. CASE WalkVisit(s)
    <2>1. Without(keySubs[Key(s)], s) \in Seq(Sessions)
      BY WithoutFacts DEF TypeInv, OneNode
    <2>2. keySubs' \in [Keys -> Seq(Sessions)]
      BY <1>20, <2>1 DEF WalkVisit
    <2>3. result' \in [Sessions -> BOOLEAN]
      <3>1. PICK atRoot \in BOOLEAN :
              result' = [result EXCEPT ![s] = @ /\ (Key(s) \in present \/ ~atRoot)]
        BY <1>20, Zenon DEF WalkVisit
      <3>2. QED
        BY <3>1, Zenon
    <2>4. QED
      BY <1>20, <2>2, <2>3 DEF WalkVisit, Labels
  <1>22. QED
    BY <1>3, <1>4, <1>5, <1>6, <1>7, <1>8, <1>9, <1>10, <1>11, <1>12, <1>13, <1>14,
       <1>15, <1>16, <1>17, <1>18, <1>19, <1>20, <1>21, Zenon DEF SessionStep

(* apply_to_all_nodes visits sessions of the tree: in a tree of one node,   *)
(* that one.                                                               *)
LEMMA VisitsFacts ==
  ASSUME NEW tree \in Seq(Sessions)
  PROVE  Visits(tree) \in Seq(Sessions) /\ (Len(tree) < 2 => Visits(tree) = tree)
  <1>1. CASE Len(tree) < 2
    BY <1>1 DEF Visits
  <1>2. CASE ~(Len(tree) < 2)
    <2>1. tree[1] \in Sessions /\ tree[2] \in Sessions
      BY <1>2, LenProperties
    <2>2. QED
      BY <1>2, <2>1 DEF Visits
  <1>3. QED
    BY <1>1, <1>2

(* A step of a job keeps the types of the books. *)
LEMMA JobTypeStep ==
  ASSUME TypeInv, NEW j \in Jobs, JobStep(j)
  PROVE  TypeOK'
  <1>1. TypeOK /\ j \in Actors /\ j \notin Sessions
    BY ActorFacts DEF TypeInv
  <1>2. Key(j) \in Keys /\ List(j) \in Lists /\ listLock[List(j)] \in RwLocks(Actors)
    BY <1>1, KeyFacts
  <1>3. todo[j] \in Seq(Sessions) /\ (pc[j] \in {"remkey", "dec", "decstore"} => todo[j] # <<>>)
    BY <1>1 DEF TypeOK, TypeInv, JobRoles
  <1> USE <1>1, <1>2 DEF TypeOK, books, local, history, Goto
  <1>4. CASE Begin(j)
    <2>1. PICK op \in {"WRITE", "DELETE"}, k \in Keys :
            req' = [req EXCEPT ![j] = [op |-> op, key |-> k]]
      BY <1>4, Zenon DEF Begin
    <2>2. [op |-> op, key |-> k] \in [op : Ops, key : Keys]
      BY DEF Ops
    <2>3. req' \in [Actors -> [op : Ops, key : Keys]]
      BY <2>1, <2>2, Zenon
    <2>4. pc' \in [Actors -> Labels] /\ left' \in [Actors -> Nat]
      BY <1>4 DEF Begin, Labels
    <2>5. UNCHANGED <<present, books, walking, listLock, result, loaded, todo, history>>
      BY <1>4, Zenon DEF Begin
    <2>6. QED
      BY <2>3, <2>4, <2>5, Zenon
  <1>5. CASE WrLockList(j)
    BY <1>5, LockTypes DEF WrLockList, Labels
  <1>6. CASE WritePair(j)
    BY <1>6 DEF WritePair, Labels
  <1>7. CASE DeletePair(j)
    <2>1. Visits(keySubs[Key(j)]) \in Seq(Sessions)
      BY VisitsFacts
    <2>2. /\ todo' = [a \in Actors |-> todo'[a]]
          /\ \A a \in Actors : todo'[a] \in IF a \in Sessions THEN Seq(Keys) ELSE Seq(Sessions)
      BY <1>7, <2>1, TodoTypes DEF DeletePair
    <2>3. keySubs' \in [Keys -> Seq(Sessions)]
      BY <1>7 DEF DeletePair
    <2>4. QED
      BY <1>7, <2>2, <2>3 DEF DeletePair, Labels
  <1>8. CASE RemoveKey(j)
    BY <1>8, <1>3 DEF RemoveKey, Target, Labels
  <1>12. CASE DecLoad(j)
    <2>1. Head(todo[j]) \in Sessions
      BY <1>3, <1>12, HeadTailProperties DEF DecLoad
    <2>2. loaded' \in [Actors -> Int]
      BY <1>12, <2>1 DEF DecLoad, Target
    <2>3. QED
      BY <1>12, <2>2 DEF DecLoad, Labels
  <1>9. CASE DecStore(j)
    <2>1. Head(todo[j]) \in Sessions /\ Tail(todo[j]) \in Seq(Sessions)
      BY <1>3, <1>9, HeadTailProperties DEF DecStore
    <2>2. /\ todo' = [a \in Actors |-> todo'[a]]
          /\ \A a \in Actors : todo'[a] \in IF a \in Sessions THEN Seq(Keys) ELSE Seq(Sessions)
      <3>1. todo' = [todo EXCEPT ![j] = Tail(todo[j])]
        BY <1>9 DEF DecStore
      <3>2. QED
        BY <2>1, <3>1, TodoTypes
    <2>3. numSubs' \in [Sessions -> Int]
      BY <1>9, <2>1 DEF DecStore, Target
    <2>4. QED
      BY <1>9, <2>2, <2>3 DEF DecStore, Labels
  <1>10. CASE WrUnlockList(j)
    BY <1>10, LockTypes, ActorFacts DEF WrUnlockList, Finish, Labels
  <1>11. QED
    BY <1>4, <1>5, <1>6, <1>7, <1>8, <1>9, <1>10, <1>12, Zenon DEF JobStep

(* No step puts a session twice in the tree of a key. *)
LEMMA NodeStep ==
  ASSUME TypeInv, Next
  PROVE  OneNode'
  <1>1. CASE keySubs' = keySubs
    BY <1>1 DEF OneNode, TypeInv
  <1>2. CASE \E k \in Keys, s \in Sessions : keySubs' = [keySubs EXCEPT ![k] = Without(@, s)]
    <2>1. PICK k \in Keys, s \in Sessions :
            keySubs' = [keySubs EXCEPT ![k] = Without(keySubs[k], s)]
      BY <1>2
    <2>2. keySubs \in [Keys -> Seq(Sessions)] /\ OneNode
      BY DEF TypeInv, TypeOK
    <2>3. \A m, n \in DOMAIN Without(keySubs[k], s) :
            Without(keySubs[k], s)[m] = Without(keySubs[k], s)[n] => m = n
      BY <2>2, WithoutFacts DEF OneNode
    <2>4. QED
      BY <2>1, <2>2, <2>3 DEF OneNode
  <1>3. CASE \E s \in Sessions : SubscribePair(s)
    <2>1. PICK s \in Sessions : SubscribePair(s)
      BY <1>3
    <2>2. keySubs \in [Keys -> Seq(Sessions)] /\ OneNode /\ Key(s) \in Keys
      BY KeyFacts, ActorFacts DEF TypeInv, TypeOK
    <2>3. CASE ~Subscribed(s, Key(s))
      <3> DEFINE tree == keySubs[Key(s)]
      <3>1. keySubs' = [keySubs EXCEPT ![Key(s)] = Append(tree, s)]
        BY <2>1, <2>3 DEF SubscribePair
      <3>2. tree \in Seq(Sessions) /\ \A m \in 1..Len(tree) : tree[m] # s
        BY <2>2, <2>3 DEF Subscribed
      <3>3. /\ Append(tree, s) \in Seq(Sessions) /\ Len(Append(tree, s)) = Len(tree) + 1
            /\ \A m \in 1..Len(tree) : Append(tree, s)[m] = tree[m]
            /\ Append(tree, s)[Len(tree) + 1] = s
        BY <3>2, AppendProperties
      <3>4. \A m, n \in 1..Len(tree) : tree[m] = tree[n] => m = n
        BY <2>2, <3>2, LenProperties DEF OneNode
      <3> HIDE DEF tree
      <3>5. \A m, n \in DOMAIN Append(tree, s) :
              Append(tree, s)[m] = Append(tree, s)[n] => m = n
        BY <3>2, <3>3, <3>4, LenProperties
      <3>6. QED
        BY <2>2, <3>1, <3>5 DEF OneNode
    <2>4. CASE Subscribed(s, Key(s))
      BY <1>1, <2>1, <2>4 DEF SubscribePair
    <2>5. QED
      BY <2>3, <2>4
  <1>4. CASE \E j \in Jobs : DeletePair(j)
    <2>1. PICK k \in Keys : keySubs' = [keySubs EXCEPT ![k] = <<>>]
      BY <1>4, KeyFacts, ActorFacts DEF DeletePair, TypeInv
    <2>2. QED
      BY <2>1 DEF OneNode, TypeInv, TypeOK
  <1>5. ASSUME NEW s \in Sessions, SessionStep(s)
        PROVE  \/ keySubs' = keySubs \/ SubscribePair(s)
               \/ keySubs' = [keySubs EXCEPT ![Key(s)] = Without(@, s)]
    BY <1>5 DEF SessionStep, Request, LockList, SubscribeEnds, AddKey, IncLoad, IncStore,
         UnsubscribeEnds, UnsubscribePair, UnlockList, Again, Reply, Disconnect, WalkLock,
         WalkVisit, Clean, RemoveKey, DecLoad, DecStore, books
  <1>6. ASSUME NEW j \in Jobs, JobStep(j)
        PROVE  keySubs' = keySubs \/ DeletePair(j)
    BY <1>6 DEF JobStep, Begin, WrLockList, WritePair, RemoveKey, DecLoad, DecStore,
       WrUnlockList, books
  <1>7. \A s \in Sessions : Key(s) \in Keys
    BY KeyFacts, ActorFacts DEF TypeInv
  <1>8. QED
    BY <1>1, <1>2, <1>3, <1>4, <1>5, <1>6, <1>7, Zenon DEF Next

(* A step of session s leaves the requests and labels of all other threads  *)
(* alone.                                                                   *)
LEMMA SessionFrame ==
  ASSUME TypeInv, NEW s \in Sessions, SessionStep(s)
  PROVE  /\ present' = present
         /\ \A a \in Actors \ {s} :
              /\ pc'[a] = pc[a] /\ req'[a] = req[a] /\ todo'[a] = todo[a]
              /\ loaded'[a] = loaded[a]
         /\ \A t \in Sessions \ {s} :
              /\ result'[t] = result[t]
              /\ sessKeys'[t] = sessKeys[t] /\ numSubs'[t] = numSubs[t]
              /\ walking'[t] = walking[t] /\ wants'[t] = wants[t]
  <1>1. TypeOK /\ s \in Actors /\ s \notin Jobs
    BY ActorFacts DEF TypeInv
  <1> USE <1>1 DEF TypeOK, Goto, Finish, Target, books, local, history
  <1>2. CASE Request(s) \/ LockList(s) \/ Reply(s)
    BY <1>2 DEF Request, LockList, Reply
  <1>3. CASE SubscribeEnds(s) \/ SubscribePair(s) \/ AddKey(s) \/ IncLoad(s) \/ IncStore(s)
    BY <1>3 DEF SubscribeEnds, SubscribePair, AddKey, IncLoad, IncStore
  <1>4. CASE UnsubscribeEnds(s) \/ UnsubscribePair(s) \/ UnlockList(s) \/ Again(s)
    BY <1>4 DEF UnsubscribeEnds, UnsubscribePair, UnlockList, Again
  <1>5. CASE Disconnect(s) \/ WalkLock(s) \/ WalkVisit(s) \/ Clean(s)
    BY <1>5, ZenonT(60) DEF Disconnect, WalkLock, WalkVisit, Clean
  <1>6. CASE RemoveKey(s) \/ DecLoad(s) \/ DecStore(s)
    BY <1>6 DEF RemoveKey, DecLoad, DecStore
  <1>7. QED
    BY <1>2, <1>3, <1>4, <1>5, <1>6 DEF SessionStep

(* A step of job j leaves the requests and labels of all other threads      *)
(* alone.                                                                   *)
LEMMA JobFrame ==
  ASSUME TypeInv, NEW j \in Jobs, JobStep(j)
  PROVE  /\ result' = result /\ walking' = walking /\ wants' = wants
         /\ \A a \in Actors \ {j} :
              /\ pc'[a] = pc[a] /\ req'[a] = req[a] /\ todo'[a] = todo[a]
              /\ loaded'[a] = loaded[a]
  <1>1. TypeOK /\ j \in Actors /\ j \notin Sessions
    BY ActorFacts DEF TypeInv
  <1>2. QED
    BY <1>1 DEF JobStep, Begin, WrLockList, WritePair, DeletePair, RemoveKey, DecLoad, DecStore,
       WrUnlockList, Finish, Goto, local, history, TypeOK

(* A session stays at labels that its request can reach. *)
LEMMA SessionRolesStep ==
  ASSUME TypeInv, NEW s \in Sessions, SessionStep(s)
  PROVE  (\A j \in Jobs : JobRoles(j)') /\ (\A t \in Sessions : SessionRoles(t)')
  <1>1. /\ pc \in [Actors -> Labels] /\ req \in [Actors -> [op : Ops, key : Keys]]
        /\ todo = [a \in Actors |-> todo[a]] /\ result \in [Sessions -> BOOLEAN]
        /\ s \in Actors /\ s \notin Jobs /\ NoRequest.op = "NONE"
    BY ActorFacts DEF TypeInv, TypeOK
  <1>2. \A a \in Actors \ {s} : pc'[a] = pc[a] /\ req'[a] = req[a] /\ todo'[a] = todo[a]
    BY SessionFrame
  <1>3. \A t \in Sessions \ {s} : result'[t] = result[t]
    BY SessionFrame
  <1>4. \A j \in Jobs : JobRoles(j)'
    BY <1>1, <1>2, ActorFacts DEF JobRoles, TypeInv
  <1>5. \A t \in Sessions \ {s} : SessionRoles(t)'
    BY <1>2, <1>3, ActorFacts DEF SessionRoles, TypeInv
  <1>6. SessionRoles(s)
    BY DEF TypeInv
  <1>7. SessionRoles(s)'
    <2> USE <1>1, <1>6 DEF SessionRoles, Goto, local
    <2>1. CASE Request(s) \/ LockList(s) \/ Reply(s)
      BY <2>1 DEF Request, LockList, Reply, Finish
    <2>2. CASE SubscribeEnds(s) \/ SubscribePair(s) \/ UnsubscribeEnds(s) \/ UnsubscribePair(s)
      BY <2>2 DEF SubscribeEnds, SubscribePair, UnsubscribeEnds, UnsubscribePair
    <2>3. CASE AddKey(s) \/ IncLoad(s) \/ IncStore(s)
      BY <2>3 DEF AddKey, IncLoad, IncStore
    <2>4. CASE UnlockList(s) \/ Again(s)
      BY <2>4 DEF UnlockList, Again
    <2>5. CASE Disconnect(s) \/ Clean(s)
      <3>1. CASE Disconnect(s)
        <4>1. pc'[s] = "walk" /\ req'[s] = [NoRequest EXCEPT !.op = "DISCONNECT"]
          BY <3>1 DEF Disconnect
        <4>2. req'[s].op = "DISCONNECT"
          BY <4>1 DEF NoRequest
        <4>3. QED
          BY <4>1, <4>2
      <3>2. CASE Clean(s)
        BY <3>2 DEF Clean, Finish
      <3>3. QED
        BY <2>5, <3>1, <3>2
    <2>6. CASE WalkLock(s) \/ WalkVisit(s)
      <3>1. pc'[s] \in {"visit", "remkey", "unlock"} /\ req[s].op = "DISCONNECT"
        BY <2>6 DEF WalkLock, WalkVisit
      <3>2. req'[s] = req[s] \/ req'[s] = [req[s] EXCEPT !.key = Head(todo[s])]
        BY <2>6 DEF WalkLock, WalkVisit
      <3>3. req'[s].op = req[s].op
        <4>1. req[s] \in [op : Ops, key : Keys]
          OBVIOUS
        <4>2. QED
          BY <3>2, <4>1
      <3>4. QED
        BY <3>1, <3>3
    <2>7. CASE RemoveKey(s) \/ DecLoad(s) \/ DecStore(s)
      BY <2>7 DEF RemoveKey, DecLoad, DecStore
    <2>8. QED
      BY <2>1, <2>2, <2>3, <2>4, <2>5, <2>6, <2>7 DEF SessionStep
  <1>8. QED
    BY <1>4, <1>5, <1>7

(* A job stays at labels that its command can reach. *)
LEMMA JobRolesStep ==
  ASSUME TypeInv, NEW j \in Jobs, JobStep(j)
  PROVE  (\A i \in Jobs : JobRoles(i)') /\ (\A s \in Sessions : SessionRoles(s)')
  <1>1. /\ pc \in [Actors -> Labels] /\ req \in [Actors -> [op : Ops, key : Keys]]
        /\ todo = [a \in Actors |-> todo[a]]
        /\ j \in Actors /\ j \notin Sessions /\ NoRequest.op = "NONE"
    BY ActorFacts DEF TypeInv, TypeOK
  <1>2. \A a \in Actors \ {j} : pc'[a] = pc[a] /\ req'[a] = req[a] /\ todo'[a] = todo[a]
    BY JobFrame
  <1>3. result' = result
    BY JobFrame
  <1>4. \A s \in Sessions : SessionRoles(s)'
    BY <1>2, <1>3, ActorFacts DEF SessionRoles, TypeInv
  <1>5. \A i \in Jobs \ {j} : JobRoles(i)'
    BY <1>2, ActorFacts DEF JobRoles, TypeInv
  <1>6. JobRoles(j) /\ todo[j] \in Seq(Sessions)
    BY <1>1 DEF TypeInv, TypeOK
  <1>7. JobRoles(j)'
    <2>1. CASE DecStore(j)
      <3>1. todo'[j] = Tail(todo[j]) /\ todo[j] # <<>>
        BY <1>1, <1>6, <2>1 DEF DecStore, JobRoles
      <3>2. Len(todo[j]) > 1 => todo'[j] # <<>>
        <4> DEFINE q == Tail(todo[j])
        <4>1. Len(q) = Len(todo[j]) - 1 /\ Len(todo[j]) \in Nat
          BY <1>6, <3>1, HeadTailProperties, LenProperties, Zenon
        <4> HIDE DEF q
        <4>2. \A p : p = <<>> => Len(p) = 0
          OBVIOUS
        <4>3. Len(todo[j]) > 1 => q # <<>>
          BY <4>1, <4>2
        <4>4. QED
          BY <3>1, <4>3 DEF q
      <3>3. QED
        BY <1>1, <1>6, <2>1, <3>2 DEF DecStore, JobRoles, JobLabels, JobHolds, Goto
    <2>2. CASE DeletePair(j)
      <3>1. todo'[j] = Visits(keySubs[Key(j)])
        BY <1>1, <2>2 DEF DeletePair
      <3>2. pc'[j] = IF todo'[j] = <<>> THEN "unlock" ELSE "remkey"
        BY <1>1, <2>2, <3>1 DEF DeletePair, Goto
      <3>3. req'[j] = req[j]
        BY <2>2 DEF DeletePair
      <3>4. QED
        BY <1>6, <3>2, <3>3 DEF JobRoles, JobLabels, JobHolds
    <2>3. CASE Begin(j)
      BY <1>1, <2>3 DEF JobRoles, JobLabels, Begin, Goto
    <2>4. CASE WrLockList(j) \/ WritePair(j) \/ RemoveKey(j) \/ DecLoad(j)
      BY <1>1, <1>6, <2>4 DEF JobRoles, JobLabels, JobHolds, WrLockList, WritePair,
           RemoveKey, DecLoad, Goto
    <2>5. CASE WrUnlockList(j)
      BY <1>1, <2>5 DEF JobRoles, JobLabels, WrUnlockList, Finish, Goto
    <2>6. QED
      BY <2>1, <2>2, <2>3, <2>4, <2>5 DEF JobStep
  <1>8. QED
    BY <1>4, <1>5, <1>7

(* Types and labels are inductive. *)
LEMMA TypeStep == TypeInv /\ [Next]_vars => TypeInv'
  <1> SUFFICES ASSUME TypeInv, [Next]_vars PROVE TypeInv'
    OBVIOUS
  <1>1. CASE Next
    <2>1. TypeOK'
      BY <1>1, SessionTypeStep, JobTypeStep DEF Next
    <2>2. (\A j \in Jobs : JobRoles(j)') /\ (\A s \in Sessions : SessionRoles(s)')
      BY <1>1, SessionRolesStep, JobRolesStep DEF Next
    <2>3. QED
      BY <1>1, <2>1, <2>2, NodeStep DEF TypeInv
  <1>2. CASE UNCHANGED vars
    BY <1>2 DEF vars, books, local, history, TypeInv, TypeOK, OneNode, JobRoles,
                SessionRoles
  <1>3. QED
    BY <1>1, <1>2
-----------------------------------------------------------------------------
(* Nobody holds a list when the server starts. *)
LEMMA LockInit == Init => LockInv
  BY ActorFacts, SubscriptionsAssumption DEF Init, LockInv, FreeLock, JobHolds, SessionHolds

(* A session holds exactly the list that its label says, after each of its  *)
(* steps.                                                                   *)
LEMMA SessionLockStep ==
  ASSUME TypeInv, LockInv, NEW s \in Sessions, SessionStep(s)
  PROVE  LockInv'
  <1>1. /\ pc \in [Actors -> Labels] /\ listLock \in [Lists -> RwLocks(Actors)]
        /\ s \in Actors /\ s \notin Jobs /\ req \in [Actors -> [op : Ops, key : Keys]]
        /\ Key(s) \in Keys /\ List(s) \in Lists /\ todo[s] \in Seq(Keys)
    BY ActorFacts, KeyFacts DEF TypeInv, TypeOK
  <1>2. \A a \in Actors \ {s} : pc'[a] = pc[a] /\ List(a)' = List(a)
    BY SessionFrame, <1>1 DEF List, Key
  <1>3. CASE LockList(s) \/ WalkLock(s)
    <2>1. PICK l \in Lists : /\ listLock' = [listLock EXCEPT ![l] = RdLocked(@, s)]
                             /\ CanRdLock(listLock[l])
                             /\ List(s)' = l /\ pc[s] \notin SessionHolds
                             /\ pc'[s] \in SessionHolds
      <3>1. CASE LockList(s)
        BY <1>1, <3>1 DEF LockList, List, Key, Goto, SessionHolds
      <3>2. CASE WalkLock(s)
        <4> DEFINE k == Head(todo[s])
        <4>1. k \in Keys
          BY <1>1, <3>2, HeadTailProperties DEF WalkLock
        <4>2. req' = [req EXCEPT ![s] = [req[s] EXCEPT !.key = k]]
          BY <3>2 DEF WalkLock
        <4>3. Key(s)' = k
          BY <1>1, <4>2 DEF Key
        <4>4. ListOf[k] \in Lists /\ List(s)' = ListOf[k]
          BY <4>1, <4>3, SubscriptionsAssumption DEF List
        <4>5. /\ listLock' = [listLock EXCEPT ![ListOf[k]] = RdLocked(@, s)]
              /\ CanRdLock(listLock[ListOf[k]])
              /\ pc[s] \notin SessionHolds /\ pc'[s] \in SessionHolds
          BY <1>1, <3>2 DEF WalkLock, Goto, SessionHolds
        <4>6. QED
          BY <4>4, <4>5
      <3>3. QED
        BY <1>3, <3>1, <3>2
    <2>2. QED
      BY <1>1, <1>2, <2>1, ActorFacts DEF LockInv, RdLocked, CanRdLock, Holds, RwLocks
  <1>4. CASE UnlockList(s)
    <2>1. /\ listLock' = [listLock EXCEPT ![List(s)] = Unlocked(@, s)]
          /\ pc[s] \in SessionHolds /\ pc'[s] \notin SessionHolds
      BY <1>1, <1>4 DEF UnlockList, Goto, SessionHolds
    <2>2. QED
      BY <1>1, <1>2, <2>1, ActorFacts DEF LockInv, Unlocked, Holds, RwLocks
  <1>5. CASE ~(LockList(s) \/ WalkLock(s) \/ UnlockList(s))
    <2>1. /\ listLock' = listLock /\ (pc[s] \in SessionHolds <=> pc'[s] \in SessionHolds)
          /\ pc'[s] \in SessionHolds => List(s)' = List(s)
      <3> USE <1>1, ActorFacts DEF SessionHolds, Goto, local, List, Key
      <3>1. CASE Request(s) \/ Reply(s)
        BY <3>1 DEF Request, Reply, Finish
      <3>2. CASE SubscribeEnds(s) \/ SubscribePair(s) \/ AddKey(s) \/ IncLoad(s) \/ IncStore(s)
        BY <3>2 DEF SubscribeEnds, SubscribePair, AddKey, IncLoad, IncStore
      <3>3. CASE UnsubscribeEnds(s) \/ UnsubscribePair(s) \/ Again(s)
        BY <3>3 DEF UnsubscribeEnds, UnsubscribePair, Again
      <3>4. CASE Disconnect(s) \/ WalkVisit(s) \/ Clean(s)
        <4>1. CASE Disconnect(s)
          BY <4>1 DEF Disconnect
        <4>2. CASE WalkVisit(s)
          BY <4>2 DEF WalkVisit
        <4>3. CASE Clean(s)
          BY <4>3 DEF Clean, Finish
        <4>4. QED
          BY <3>4, <4>1, <4>2, <4>3
      <3>5. CASE RemoveKey(s) \/ DecLoad(s) \/ DecStore(s)
        BY <3>5 DEF RemoveKey, DecLoad, DecStore
      <3>6. QED
        BY <1>5, <3>1, <3>2, <3>3, <3>4, <3>5 DEF SessionStep
    <2>2. QED
      BY <1>1, <1>2, <2>1, ActorFacts DEF LockInv
  <1>6. QED
    BY <1>3, <1>4, <1>5

(* A job holds exactly the list that its label says, after each of its      *)
(* steps.                                                                   *)
LEMMA JobLockStep ==
  ASSUME TypeInv, LockInv, NEW j \in Jobs, JobStep(j)
  PROVE  LockInv'
  <1>1. /\ pc \in [Actors -> Labels] /\ listLock \in [Lists -> RwLocks(Actors)]
        /\ j \in Actors /\ j \notin Sessions /\ req \in [Actors -> [op : Ops, key : Keys]]
        /\ Key(j) \in Keys /\ List(j) \in Lists
    BY ActorFacts, KeyFacts DEF TypeInv, TypeOK
  <1>2. \A a \in Actors \ {j} : pc'[a] = pc[a] /\ List(a)' = List(a)
    BY JobFrame, <1>1 DEF List, Key
  <1>3. CASE WrLockList(j)
    <2>1. /\ listLock' = [listLock EXCEPT ![List(j)] = WrLocked(@, j)]
          /\ CanWrLock(listLock[List(j)])
          /\ List(j)' = List(j) /\ pc[j] \notin JobHolds /\ pc'[j] \in JobHolds
      BY <1>1, <1>3 DEF WrLockList, List, Key, Goto, JobHolds
    <2>2. QED
      BY <1>1, <1>2, <2>1, ActorFacts DEF LockInv, WrLocked, CanWrLock, Holds, RwLocks
  <1>4. CASE WrUnlockList(j)
    <2>1. /\ listLock' = [listLock EXCEPT ![List(j)] = Unlocked(@, j)]
          /\ pc[j] \in JobHolds /\ pc'[j] \notin JobHolds
      BY <1>1, <1>4 DEF WrUnlockList, Finish, Goto, JobHolds
    <2>2. QED
      BY <1>1, <1>2, <2>1, ActorFacts DEF LockInv, Unlocked, Holds, RwLocks
  <1>5. CASE ~(WrLockList(j) \/ WrUnlockList(j))
    <2>1. /\ listLock' = listLock /\ (pc[j] \in JobHolds <=> pc'[j] \in JobHolds)
          /\ pc'[j] \in JobHolds => List(j)' = List(j)
      BY <1>1, <1>5 DEF JobStep, Begin, WritePair, DeletePair, RemoveKey, DecLoad, DecStore, JobHolds,
         Goto, List, Key
    <2>2. QED
      BY <1>1, <1>2, <2>1, ActorFacts DEF LockInv
  <1>6. QED
    BY <1>3, <1>4, <1>5

(* Who holds which list can be read from the labels, for ever. *)
LEMMA LockStep == TypeInv /\ LockInv /\ [Next]_vars => LockInv'
  <1>1. CASE UNCHANGED vars
    BY <1>1 DEF vars, local, LockInv, List, Key
  <1>2. QED
    BY <1>1, SessionLockStep, JobLockStep DEF Next
-----------------------------------------------------------------------------
(* Nobody walks a tree when the server starts. *)
LEMMA WalkInit == Init => WalkInv
  BY ActorFacts, SubscriptionsAssumption DEF Init, WalkInv, Walks

(* The sequence of the keys of a tree that has none. *)
LEMMA EmptyOrder ==
  ASSUME NEW order \in [1..0 -> Keys]
  PROVE  order = <<>>
  <1>1. order \in UNION {[1..m -> Keys] : m \in Nat}
    OBVIOUS
  <1>2. order \in Seq(Keys)
    BY <1>1, SeqDef, Zenon
  <1>3. Len(order) = 0
    BY <1>2, LenProperties
  <1>4. QED
    BY <1>2, <1>3, EmptySeq

(* Disconnecting walks the keys that are left of the tree of the session. *)
LEMMA SessionWalkStep ==
  ASSUME TypeInv, WalkInv, NEW s \in Sessions, SessionStep(s)
  PROVE  WalkInv'
  <1>1. /\ pc \in [Actors -> Labels] /\ req \in [Actors -> [op : Ops, key : Keys]]
        /\ sessKeys \in [Sessions -> SUBSET Keys] /\ walking \in [Sessions -> BOOLEAN]
        /\ todo = [a \in Actors |-> todo[a]] /\ todo[s] \in Seq(Keys)
        /\ s \in Actors /\ s \notin Jobs /\ NoRequest.op = "NONE"
    BY ActorFacts DEF TypeInv, TypeOK
  <1>2. \A t \in Sessions \ {s} : Walks(t)'
    BY SessionFrame, ActorFacts DEF WalkInv, Walks, Key
  <1>3. Walks(s) /\ SessionRoles(s)
    BY DEF WalkInv, TypeInv
  <1>4. Walks(s)'
    <2> USE <1>1, <1>3 DEF Walks, SessionRoles, Goto, local, Key
    <2>1. CASE Request(s) \/ LockList(s) \/ Reply(s)
      BY <2>1 DEF Request, LockList, Reply, Finish
    <2>2. CASE SubscribeEnds(s) \/ SubscribePair(s) \/ AddKey(s) \/ IncLoad(s) \/ IncStore(s)
      BY <2>2 DEF SubscribeEnds, SubscribePair, AddKey, IncLoad, IncStore, books
    <2>3. CASE UnsubscribeEnds(s) \/ UnsubscribePair(s) \/ Again(s)
      BY <2>3 DEF UnsubscribeEnds, UnsubscribePair, Again, books
    <2>4. CASE UnlockList(s)
      BY <2>4 DEF UnlockList, books
    <2>5. CASE Disconnect(s)
      <3>1. PICK order \in [1..Cardinality(sessKeys[s]) -> sessKeys[s]] :
              todo' = [todo EXCEPT ![s] = order]
        BY <2>5 DEF Disconnect
      <3>2. todo'[s] = order
        BY <3>1
      <3>3. sessKeys[s] = {} => order = <<>>
        <4>1. sessKeys[s] = {} => order \in [1..0 -> Keys]
          BY FS_EmptySet
        <4>2. QED
          BY <4>1, EmptyOrder
      <3>4. \A n \in DOMAIN order : order[n] \in sessKeys[s]
        OBVIOUS
      <3>5. /\ pc'[s] = "walk" /\ req'[s].op = "DISCONNECT" /\ sessKeys' = sessKeys
            /\ walking'[s] = (sessKeys[s] # {})
        BY <2>5 DEF Disconnect, books, NoRequest
      <3>6. QED
        BY <3>2, <3>3, <3>4, <3>5
    <2>6. CASE WalkLock(s)
      <3> DEFINE k == Head(todo[s])
      <3>1. /\ k = todo[s][1] /\ 1 \in DOMAIN todo[s] /\ Tail(todo[s]) \in Seq(Keys)
            /\ \A n \in DOMAIN Tail(todo[s]) :
                 n + 1 \in DOMAIN todo[s] /\ Tail(todo[s])[n] = todo[s][n + 1]
        BY <2>6, HeadTailProperties, LenProperties, EmptySeq DEF WalkLock
      <3>2. req'[s] = [req[s] EXCEPT !.key = k]
        BY <2>6 DEF WalkLock
      <3>3. req'[s].op = "DISCONNECT" /\ Key(s)' = k /\ req[s].op = "DISCONNECT"
        BY <2>6, <3>2 DEF WalkLock
      <3>4. /\ pc'[s] = "visit" /\ sessKeys' = sessKeys /\ walking' = walking
            /\ todo'[s] = Tail(todo[s]) /\ todo[s] # <<>>
        BY <2>6 DEF WalkLock, books
      <3> HIDE DEF k
      <3>5. QED
        BY <3>1, <3>3, <3>4
    <2>7. CASE WalkVisit(s)
      BY <2>7 DEF WalkVisit
    <2>8. CASE Clean(s)
      BY <2>8 DEF Clean, Finish
    <2>9. CASE RemoveKey(s)
      BY <2>9 DEF RemoveKey, Target
    <2>10. CASE DecLoad(s) \/ DecStore(s)
      BY <2>10 DEF DecLoad, DecStore, Target, books
    <2>11. QED
      BY <2>1, <2>2, <2>3, <2>4, <2>5, <2>6, <2>7, <2>8, <2>9, <2>10 DEF SessionStep
  <1>5. QED
    BY <1>2, <1>4 DEF WalkInv

(* A job does not disturb the walk of a session. *)
LEMMA JobWalkStep ==
  ASSUME TypeInv, WalkInv, NEW j \in Jobs, JobStep(j)
  PROVE  WalkInv'
  <1>1. /\ sessKeys \in [Sessions -> SUBSET Keys] /\ walking \in [Sessions -> BOOLEAN]
        /\ j \in Actors /\ j \notin Sessions
    BY ActorFacts DEF TypeInv, TypeOK
  <1>2. \A s \in Sessions : walking[s] => sessKeys'[s] = sessKeys[s]
    BY <1>1 DEF JobStep, Begin, WrLockList, WritePair, DeletePair, RemoveKey, DecLoad, DecStore,
       WrUnlockList, books
  <1>3. ASSUME NEW s \in Sessions PROVE Walks(s)'
    <2>1. /\ walking' = walking /\ pc'[s] = pc[s] /\ req'[s] = req[s] /\ todo'[s] = todo[s]
          /\ Walks(s)
      BY JobFrame, ActorFacts, <1>1 DEF WalkInv
    <2>2. DOMAIN <<>> = {}
      OBVIOUS
    <2>3. QED
      BY <1>2, <2>1, <2>2 DEF Walks, Key
  <1>4. QED
    BY <1>3 DEF WalkInv

(* The facts on walks are inductive. *)
LEMMA WalkStep == TypeInv /\ WalkInv /\ [Next]_vars => WalkInv'
  <1>1. CASE UNCHANGED vars
    BY <1>1 DEF vars, local, books, WalkInv, Walks, Key
  <1>2. QED
    BY <1>1, SessionWalkStep, JobWalkStep DEF Next

(* A job that holds a list can only be waiting for a session that walks.   *)
LEMMA DeadlockInv == TypeInv /\ LockInv /\ WalkInv => OnlyDisconnectDeadlocks
  <1> SUFFICES ASSUME TypeInv, LockInv, WalkInv,
                      NEW S \in (SUBSET Actors) \ {{}}, Circle(S),
                      \A a \in S : req[a].op # "DISCONNECT"
               PROVE  FALSE
    BY DEF OnlyDisconnectDeadlocks
  <1>1. \A a \in S : a \in Actors /\ (a \in Sessions \/ a \in Jobs)
    BY DEF Actors
  <1>2. \A a \in S \cap Sessions : ~walking[a]
    BY DEF WalkInv, Walks
  <1>3. ASSUME NEW a \in S, NEW b \in S,
               pc[a] \in {"addkey", "again", "remkey"} /\ b = Target(a) /\ walking[b]
        PROVE  FALSE
    <2>1. CASE a \in Sessions
      BY <1>2, <1>3, <2>1 DEF Target
    <2>2. CASE a \in Jobs
      <3>1. todo[a] \in Seq(Sessions) /\ todo[a] # <<>>
        BY <1>3, <2>2, ActorFacts DEF TypeInv, TypeOK, JobRoles, JobLabels, JobHolds
      <3>2. Target(a) \in Sessions
        BY <2>2, <3>1, HeadTailProperties, ActorFacts DEF Target
      <3>3. QED
        BY <1>2, <1>3, <3>2
    <2>3. QED
      BY <1>1, <2>1, <2>2
  <1>4. \A a \in S : pc[a] = "lock"
    <2>1. ASSUME NEW a \in S PROVE pc[a] = "lock"
      <3>1. PICK b \in S : WaitsFor(a, b)
        BY DEF Circle
      <3>2. pc[a] # "walk"
        <4>1. CASE a \in Sessions
          BY <4>1 DEF TypeInv, SessionRoles
        <4>2. CASE a \in Jobs
          BY <4>2 DEF TypeInv, JobRoles, JobLabels, JobHolds
        <4>3. QED
          BY <1>1, <4>1, <4>2
      <3>3. pc[b] # "decstore"
        BY DEF Circle, WaitsFor
      <3>4. QED
        BY <1>3, <3>1, <3>2, <3>3 DEF WaitsFor, IsCountingDown
    <2>2. QED
      BY <2>1
  <1>5. PICK a \in S, b \in S : WaitsFor(a, b)
    BY DEF Circle
  <1>6. List(a) \in Lists
    BY <1>1, KeyFacts DEF TypeInv
  <1>7. Holds(listLock[List(a)], b)
    BY <1>3, <1>4, <1>5 DEF WaitsFor, Holds
  <1>8. QED
    BY <1>1, <1>4, <1>6, <1>7 DEF LockInv, Holds, JobHolds, SessionHolds
-----------------------------------------------------------------------------
(* Two threads that hold the list of one key are one thread. *)
LEMMA Exclusion ==
  ASSUME TypeInv, LockInv, NEW j \in Jobs, pc[j] \in JobHolds,
         NEW a \in Actors, a # j,
         \/ a \in Jobs /\ pc[a] \in JobHolds
         \/ a \in Sessions /\ pc[a] \in SessionHolds
  PROVE  Key(a) # Key(j)
  <1>1. j \in Actors /\ List(j) \in Lists
    BY ActorFacts, KeyFacts DEF TypeInv
  <1>2. j \in listLock[List(j)].writer
    BY <1>1 DEF LockInv
  <1>3. ~Holds(listLock[List(j)], a)
    BY <1>1, <1>2 DEF LockInv
  <1>4. List(a) # List(j)
    BY <1>1, <1>3 DEF LockInv, Holds
  <1>5. QED
    BY <1>4 DEF List

(* Inserting the node of a session in the tree of a key: that session       *)
(* joins, the others stay.                                                  *)
LEMMA TreeJoined ==
  ASSUME TypeOK, NEW key \in Keys, NEW s \in Sessions,
         keySubs' = [keySubs EXCEPT ![key] = Append(@, s)]
  PROVE  \A t \in Sessions, k \in Keys :
           Subscribed(t, k)' <=> Subscribed(t, k) \/ (t = s /\ k = key)
  <1>1. keySubs \in [Keys -> Seq(Sessions)]
    BY DEF TypeOK
  <1> DEFINE tree == keySubs[key]
             new == Append(tree, s)
  <1>2. /\ Len(new) = Len(tree) + 1 /\ Len(tree) \in Nat
        /\ \A m \in 1..Len(tree) : new[m] = tree[m]
        /\ new[Len(tree) + 1] = s
    BY <1>1, AppendProperties, LenProperties
  <1>3. keySubs'[key] = new /\ \A k \in Keys \ {key} : keySubs'[k] = keySubs[k]
    BY <1>1
  <1> HIDE DEF new
  <1>4. ASSUME NEW t \in Sessions
        PROVE  (\E m \in 1..Len(new) : new[m] = t)
                 <=> (\E m \in 1..Len(tree) : tree[m] = t) \/ t = s
    <2>1. CASE \E m \in 1..Len(tree) : tree[m] = t
      BY <1>2, <2>1
    <2>2. CASE t = s
      <3>1. Len(tree) + 1 \in 1..Len(new)
        BY <1>2
      <3>2. QED
        BY <1>2, <2>2, <3>1
    <2>3. ASSUME NEW m \in 1..Len(new), new[m] = t, t # s
          PROVE  \E n \in 1..Len(tree) : tree[n] = t
      <3>1. m \in 1..Len(tree)
        BY <1>2, <2>3
      <3>2. QED
        BY <1>2, <2>3, <3>1
    <2>4. QED
      BY <2>1, <2>2, <2>3
  <1>5. QED
    BY <1>3, <1>4 DEF Subscribed

(* Removing the node of a session from the tree of a key: that session      *)
(* leaves, the others stay.                                                 *)
LEMMA TreeLeft ==
  ASSUME TypeInv, NEW key \in Keys, NEW s \in Sessions,
         keySubs' = [keySubs EXCEPT ![key] = Without(@, s)]
  PROVE  \A t \in Sessions, k \in Keys :
           Subscribed(t, k)' <=> Subscribed(t, k) /\ ~(t = s /\ k = key)
  <1>1. keySubs \in [Keys -> Seq(Sessions)] /\ OneNode
    BY DEF TypeInv, TypeOK
  <1> DEFINE tree == keySubs[key]
             new == Without(tree, s)
  <1>2. tree \in Seq(Sessions) /\ \A m, n \in DOMAIN tree : tree[m] = tree[n] => m = n
    BY <1>1 DEF OneNode
  <1>3. /\ new \in Seq(Sessions)
        /\ \A x : (\E m \in DOMAIN new : new[m] = x)
                     <=> x # s /\ (\E m \in DOMAIN tree : tree[m] = x)
    BY <1>2, WithoutFacts
  <1>4. DOMAIN new = 1..Len(new) /\ DOMAIN tree = 1..Len(tree)
    BY <1>2, <1>3, LenProperties
  <1>5. keySubs'[key] = new /\ \A k \in Keys \ {key} : keySubs'[k] = keySubs[k]
    BY <1>1
  <1> HIDE DEF new, tree
  <1>6. \A t \in Sessions : Subscribed(t, key)' <=> Subscribed(t, key) /\ t # s
    BY <1>3, <1>4, <1>5 DEF Subscribed, tree
  <1>7. \A t \in Sessions, k \in Keys \ {key} : Subscribed(t, k)' <=> Subscribed(t, k)
    BY <1>5 DEF Subscribed
  <1>8. QED
    BY <1>6, <1>7

(* Emptying the tree of a key: every session leaves that tree and no other. *)
LEMMA TreeCleared ==
  ASSUME TypeOK, NEW key \in Keys, keySubs' = [keySubs EXCEPT ![key] = <<>>]
  PROVE  \A t \in Sessions, k \in Keys :
           Subscribed(t, k)' <=> Subscribed(t, k) /\ k # key
  <1>1. keySubs'[key] = <<>> /\ \A k \in Keys \ {key} : keySubs'[k] = keySubs[k]
    BY DEF TypeOK
  <1>2. \A t \in Sessions : ~Subscribed(t, key)'
    BY <1>1 DEF Subscribed
  <1>3. \A t \in Sessions, k \in Keys \ {key} : Subscribed(t, k)' <=> Subscribed(t, k)
    BY <1>1 DEF Subscribed
  <1>4. QED
    BY <1>2, <1>3

(* A step that leaves the trees alone changes no subscription. *)
LEMMA TreeKept ==
  ASSUME keySubs' = keySubs
  PROVE  \A t \in Sessions, k \in Keys : Subscribed(t, k)' <=> Subscribed(t, k)
  BY DEF Subscribed

(* What each step of a session does to the subscriptions of everyone. *)
LEMMA SessionTrees ==
  ASSUME TypeInv, ToldInv, NEW s \in Sessions, SessionStep(s)
  PROVE  /\ SubscribePair(s) => \A t \in Sessions, k \in Keys :
              Subscribed(t, k)' <=> Subscribed(t, k) \/ (t = s /\ k = Key(s))
         /\ UnsubscribePair(s) \/ WalkVisit(s) => \A t \in Sessions, k \in Keys :
              Subscribed(t, k)' <=> Subscribed(t, k) /\ ~(t = s /\ k = Key(s))
         /\ ~(SubscribePair(s) \/ UnsubscribePair(s) \/ WalkVisit(s)) =>
              \A t \in Sessions, k \in Keys : Subscribed(t, k)' <=> Subscribed(t, k)
  <1>1. TypeOK /\ Key(s) \in Keys /\ s \in Actors
    BY ActorFacts, KeyFacts DEF TypeInv
  <1>2. CASE SubscribePair(s)
    <2>1. CASE Subscribed(s, Key(s))
      <3>1. keySubs' = keySubs
        BY <1>2, <2>1 DEF SubscribePair
      <3>2. QED
        BY <1>2, <2>1, <3>1, TreeKept DEF SubscribePair, UnsubscribePair, WalkVisit
    <2>2. CASE ~Subscribed(s, Key(s))
      <3>1. keySubs' = [keySubs EXCEPT ![Key(s)] = Append(@, s)]
        BY <1>2, <2>2 DEF SubscribePair
      <3>2. QED
        BY <1>1, <1>2, <3>1, TreeJoined DEF SubscribePair, UnsubscribePair, WalkVisit
    <2>3. QED
      BY <2>1, <2>2
  <1>3. CASE UnsubscribePair(s) \/ (WalkVisit(s) /\ Key(s) \in present)
    <2>1. keySubs' = [keySubs EXCEPT ![Key(s)] = Without(@, s)]
      BY <1>3 DEF UnsubscribePair, WalkVisit
    <2>2. QED
      BY <1>1, <1>3, <2>1, TreeLeft DEF SubscribePair, UnsubscribePair, WalkVisit
  <1>4. CASE WalkVisit(s) /\ Key(s) \notin present
    <2>1. keySubs' = keySubs /\ ~Subscribed(s, Key(s))
      BY <1>1, <1>4 DEF WalkVisit, ToldInv, Told, Member
    <2>2. QED
      BY <1>4, <2>1, TreeKept DEF SubscribePair, UnsubscribePair, WalkVisit
  <1>5. CASE ~(SubscribePair(s) \/ UnsubscribePair(s) \/ WalkVisit(s))
    <2>1. keySubs' = keySubs
      BY <1>5 DEF SessionStep, Request, LockList, SubscribeEnds, AddKey, IncLoad, IncStore,
         UnsubscribeEnds, UnlockList, Again, Reply, Disconnect, WalkLock, Clean, RemoveKey,
         DecLoad, DecStore, books
    <2>2. QED
      BY <1>5, <2>1, TreeKept
  <1>6. QED
    BY <1>2, <1>3, <1>4, <1>5

(* What each step of a job does to the subscriptions of everyone. *)
LEMMA JobTrees ==
  ASSUME TypeInv, NEW j \in Jobs, JobStep(j)
  PROVE  /\ DeletePair(j) => \A t \in Sessions, k \in Keys :
              Subscribed(t, k)' <=> Subscribed(t, k) /\ k # Key(j)
         /\ ~DeletePair(j) => \A t \in Sessions, k \in Keys :
              Subscribed(t, k)' <=> Subscribed(t, k)
  <1>1. TypeOK /\ Key(j) \in Keys
    BY ActorFacts, KeyFacts DEF TypeInv
  <1>2. CASE DeletePair(j)
    BY <1>1, <1>2, TreeCleared DEF DeletePair
  <1>3. CASE ~DeletePair(j)
    <2>1. keySubs' = keySubs
      BY <1>3 DEF JobStep, Begin, WrLockList, WritePair, RemoveKey, DecLoad, DecStore,
       WrUnlockList, books
    <2>2. QED
      BY <1>3, <2>1, TreeKept
  <1>4. QED
    BY <1>2, <1>3

(* Nobody has been told anything when the server starts. *)
LEMMA ToldInit == Init => ToldInv
  BY ActorFacts, SubscriptionsAssumption
     DEF Init, ToldInv, Told, HasLeft, Subscribed, Member

(* The steps of a session keep: who is being told of a key still wants it. *)
LEMMA SessionToldStep ==
  ASSUME TypeInv, LockInv, ToldInv, NEW s \in Sessions, SessionStep(s)
  PROVE  ToldInv'
  <1>1. /\ pc \in [Actors -> Labels] /\ req \in [Actors -> [op : Ops, key : Keys]]
        /\ sessKeys \in [Sessions -> SUBSET Keys] /\ wants \in [Sessions -> SUBSET Keys]
        /\ result \in [Sessions -> BOOLEAN]
        /\ todo = [a \in Actors |-> todo[a]] /\ todo[s] \in Seq(Keys)
        /\ s \in Actors /\ s \notin Jobs /\ NoRequest.op = "NONE"
        /\ Key(s) \in Keys /\ \A j \in Jobs : Key(j) \in Keys
    BY ActorFacts, KeyFacts DEF TypeInv, TypeOK
  <1>2. Told(s) /\ SessionRoles(s)
    BY DEF ToldInv, TypeInv
  <1>3. \A j \in Jobs : pc'[j] = pc[j] /\ Key(j)' = Key(j)
    BY SessionFrame, ActorFacts DEF Key
  <1>4. ASSUME NEW t \in Sessions \ {s} PROVE Told(t)'
    <2>1. /\ pc'[t] = pc[t] /\ req'[t] = req[t] /\ todo'[t] = todo[t]
          /\ result'[t] = result[t] /\ sessKeys'[t] = sessKeys[t] /\ wants'[t] = wants[t]
          /\ present' = present /\ Told(t) /\ Key(t) \in Keys
      BY SessionFrame, ActorFacts, KeyFacts DEF ToldInv, TypeInv
    <2>2. \A k \in Keys : Subscribed(t, k)' <=> Subscribed(t, k)
      BY SessionTrees
    <2>3. Key(t)' = Key(t) /\ (HasLeft(t)' <=> HasLeft(t))
      BY <2>1 DEF Key, HasLeft
    <2>4. \A k \in Keys : Member(t, k)' <=> Member(t, k)
      BY <2>1, <2>3 DEF Member, InTodo
    <2>5. \A k \in Keys : Subscribed(t, k) => Member(t, k)
      BY <2>1 DEF Told
    <2>6. \A k \in Keys : Subscribed(t, k)' => Member(t, k)'
      BY <2>2, <2>4, <2>5
    <2>7. HasLeft(t)' => ~Subscribed(t, Key(t))'
      BY <2>1, <2>2, <2>3 DEF Told
    <2>8. \A j \in Jobs : pc'[j] \in {"remkey", "dec", "decstore"} => ~Subscribed(t, Key(j))'
      BY <1>1, <1>3, <2>1, <2>2 DEF Told
    <2>9. req'[t].op = "SUBSCRIBE" => Key(t)' \in wants'[t]
      BY <2>1, <2>3 DEF Told
    <2>10. QED
      BY <2>6, <2>7, <2>8, <2>9 DEF Told
  <1>5. \A j \in Jobs : pc'[j] \in {"remkey", "dec", "decstore"} => ~Subscribed(s, Key(j))'
    <2>1. \A j \in Jobs : pc[j] \in {"remkey", "dec", "decstore"} => ~Subscribed(s, Key(j))
      BY <1>2 DEF Told
    <2>2. CASE SubscribePair(s)
      <3>1. \A j \in Jobs : pc[j] \in {"remkey", "dec", "decstore"} => Key(s) # Key(j)
        <4>1. pc[s] \in SessionHolds
          BY <2>2 DEF SubscribePair, SessionHolds
        <4>2. QED
          BY <1>1, <4>1, Exclusion DEF JobHolds
      <3>2. QED
        BY <1>1, <1>3, <2>1, <2>2, <3>1, SessionTrees
    <2>3. CASE ~SubscribePair(s)
      BY <1>1, <1>3, <2>1, <2>3, SessionTrees
    <2>4. QED
      BY <2>2, <2>3
  <1>6. /\ req'[s].op = "SUBSCRIBE" => Key(s)' \in wants'[s]
        /\ HasLeft(s)' => ~Subscribed(s, Key(s))'
        /\ \A k \in Keys : Subscribed(s, k)' => Member(s, k)'
    <2>1. /\ req[s].op = "SUBSCRIBE" => Key(s) \in wants[s]
          /\ HasLeft(s) => ~Subscribed(s, Key(s))
          /\ \A k \in Keys : Subscribed(s, k) => Member(s, k)
      BY <1>2 DEF Told
    <2>2. CASE ~(SubscribePair(s) \/ UnsubscribePair(s) \/ WalkVisit(s))
      <3>1. \A k \in Keys : Subscribed(s, k)' <=> Subscribed(s, k)
        BY <2>2, SessionTrees
      <3> USE <1>1, <1>2, <2>1, <3>1
          DEF Member, HasLeft, SessionRoles, Goto, InTodo, local, books, history, Key
      <3>2. CASE Request(s)
        BY <3>2 DEF Request
      <3>3. CASE LockList(s) \/ SubscribeEnds(s) \/ UnsubscribeEnds(s)
        BY <3>3 DEF LockList, SubscribeEnds, UnsubscribeEnds
      <3>4. CASE AddKey(s) \/ IncLoad(s) \/ IncStore(s)
        BY <3>4 DEF AddKey, IncLoad, IncStore
      <3>5. CASE UnlockList(s)
        BY <3>5 DEF UnlockList
      <3>6. CASE Again(s)
        BY <3>6 DEF Again
      <3>7. CASE Reply(s)
        BY <3>7 DEF Reply, Finish
      <3>8. CASE Disconnect(s)
        BY <3>8 DEF Disconnect
      <3>9. CASE WalkLock(s)
        <4> DEFINE key == Head(todo[s])
        <4>1. /\ todo[s] # <<>> /\ todo'[s] = Tail(todo[s]) /\ pc[s] = "walk" /\ pc'[s] = "visit"
              /\ req[s].op = "DISCONNECT" /\ req'[s] = [req[s] EXCEPT !.key = key]
              /\ present' = present /\ sessKeys' = sessKeys /\ wants' = wants
          BY <3>9 DEF WalkLock
        <4>2. req'[s].op = "DISCONNECT" /\ Key(s)' = key
          BY <4>1
        <4>3. /\ key = todo[s][1] /\ DOMAIN todo[s] = 1..Len(todo[s]) /\ Len(todo[s]) \in Nat
              /\ DOMAIN Tail(todo[s]) = 1..(Len(todo[s]) - 1)
              /\ \A n \in 1..(Len(todo[s]) - 1) : Tail(todo[s])[n] = todo[s][n + 1]
          BY <4>1, HeadTailProperties, LenProperties
        <4>4. ASSUME NEW k \in Keys, InTodo(s, k) PROVE InTodo(s, k)' \/ k = key
          <5>1. PICK n \in 1..Len(todo[s]) : todo[s][n] = k
            BY <4>3, <4>4
          <5>2. CASE n = 1
            BY <4>3, <5>1, <5>2
          <5>3. CASE n # 1
            <6>1. n - 1 \in 1..(Len(todo[s]) - 1) /\ (n - 1) + 1 = n
              BY <4>3, <5>1, <5>3
            <6>2. Tail(todo[s])[n - 1] = k
              BY <4>3, <5>1, <6>1
            <6>3. QED
              BY <4>1, <4>3, <6>1, <6>2
          <5>4. QED
            BY <5>2, <5>3
        <4> HIDE DEF key, InTodo
        <4>5. QED
          BY <4>1, <4>2, <4>4
      <3>10. CASE Clean(s)
        BY <3>10 DEF Clean, Finish
      <3>11. CASE RemoveKey(s)
        BY <3>11 DEF RemoveKey, Target
      <3>12. CASE DecLoad(s) \/ DecStore(s)
        BY <3>12 DEF DecLoad, DecStore, Target, books
      <3>13. QED
        BY <2>2, <3>2, <3>3, <3>4, <3>5, <3>6, <3>7, <3>8, <3>9, <3>10, <3>11, <3>12
           DEF SessionStep
    <2>3. CASE SubscribePair(s)
      <3>1. \A k \in Keys : Subscribed(s, k)' <=> Subscribed(s, k) \/ k = Key(s)
        BY <2>3, SessionTrees
      <3>2. QED
        BY <1>1, <1>2, <2>1, <2>3, <3>1
           DEF SubscribePair, Member, HasLeft, SessionRoles, Goto, InTodo, history, Key
    <2>4. CASE UnsubscribePair(s) \/ WalkVisit(s)
      <3>1. \A k \in Keys : Subscribed(s, k)' <=> Subscribed(s, k) /\ k # Key(s)
        BY <2>4, SessionTrees
      <3>2. CASE UnsubscribePair(s)
        BY <1>1, <1>2, <2>1, <3>1, <3>2
           DEF UnsubscribePair, Member, HasLeft, SessionRoles, Goto, InTodo, history, Key
      <3>3. CASE WalkVisit(s)
        <4>1. /\ pc[s] = "visit" /\ pc'[s] \in {"remkey", "unlock"}
              /\ req' = req /\ todo' = todo /\ wants' = wants /\ present' = present
              /\ sessKeys' = sessKeys /\ req[s].op = "DISCONNECT"
          BY <1>1, <1>2, <3>3 DEF WalkVisit, Goto, history, SessionRoles
        <4>2. Key(s)' = Key(s)
          BY <4>1 DEF Key
        <4>3. \A k \in Keys : InTodo(s, k)' <=> InTodo(s, k)
          BY <4>1 DEF InTodo
        <4>4. ~Subscribed(s, Key(s))'
          BY <1>1, <3>1, <4>2
        <4>5. \A k \in Keys : Subscribed(s, k)' => Member(s, k)'
          BY <2>1, <3>1, <4>1, <4>3 DEF Member
        <4>6. QED
          BY <4>1, <4>4, <4>5
      <3>4. QED
        BY <2>4, <3>2, <3>3
    <2>5. QED
      BY <2>2, <2>3, <2>4
  <1>7. Told(s)'
    BY <1>5, <1>6 DEF Told
  <1>8. QED
    BY <1>4, <1>7 DEF ToldInv

(* The steps of a job keep: who is being told of a key still wants it. *)
LEMMA JobToldStep ==
  ASSUME TypeInv, ToldInv, NEW j \in Jobs, JobStep(j)
  PROVE  ToldInv'
  <1>1. /\ pc \in [Actors -> Labels] /\ req \in [Actors -> [op : Ops, key : Keys]]
        /\ sessKeys \in [Sessions -> SUBSET Keys]
        /\ j \in Actors /\ j \notin Sessions /\ \A i \in Jobs : Key(i) \in Keys
    BY ActorFacts, KeyFacts DEF TypeInv, TypeOK
  <1>2. ASSUME NEW s \in Sessions PROVE Told(s)'
    <2>1. /\ pc'[s] = pc[s] /\ req'[s] = req[s] /\ todo'[s] = todo[s]
          /\ result'[s] = result[s] /\ wants'[s] = wants[s] /\ Key(s) \in Keys /\ Told(s)
      BY JobFrame, ActorFacts, KeyFacts DEF ToldInv, TypeInv
    <2>2. \A i \in Jobs \ {j} : pc'[i] = pc[i] /\ Key(i)' = Key(i)
      BY JobFrame, ActorFacts DEF Key
    <2>3. Key(s)' = Key(s) /\ (HasLeft(s)' <=> HasLeft(s))
      BY <2>1 DEF Key, HasLeft
    <2>4. \A k \in Keys : Subscribed(s, k)' => Subscribed(s, k)
      BY JobTrees
    <2>5. /\ req'[s].op = "SUBSCRIBE" => Key(s)' \in wants'[s]
          /\ HasLeft(s)' => ~Subscribed(s, Key(s))'
      BY <2>1, <2>3, <2>4 DEF Told
    <2>6. \A i \in Jobs : pc'[i] \in {"remkey", "dec", "decstore"} => ~Subscribed(s, Key(i))'
      <3>1. \A i \in Jobs \ {j} : pc'[i] \in {"remkey", "dec", "decstore"} => ~Subscribed(s, Key(i))'
        BY <1>1, <2>1, <2>2, <2>4 DEF Told
      <3>2. pc'[j] \in {"remkey", "dec", "decstore"} => ~Subscribed(s, Key(j))'
        <4>1. CASE DeletePair(j)
          <5>1. Key(j)' = Key(j)
            BY <4>1 DEF DeletePair, Key
          <5>2. QED
            BY <1>1, <4>1, <5>1, JobTrees
        <4>2. CASE ~DeletePair(j)
          <5>1. pc'[j] \in {"remkey", "dec", "decstore"} =>
                  pc[j] \in {"remkey", "dec", "decstore"} /\ Key(j)' = Key(j)
            BY <1>1, <4>2 DEF JobStep, Begin, WrLockList, WritePair, RemoveKey, DecLoad, DecStore,
               WrUnlockList, Finish, Goto, Key
          <5>2. QED
            BY <1>1, <2>1, <2>4, <5>1 DEF Told
        <4>3. QED
          BY <4>1, <4>2
      <3>3. QED
        BY <3>1, <3>2
    <2>7. ASSUME NEW k \in Keys, Subscribed(s, k)' PROVE Member(s, k)'
      <3>1. Member(s, k) /\ Subscribed(s, k)
        BY <2>1, <2>4, <2>7 DEF Told
      <3>2. k \in present'
        <4>1. CASE DeletePair(j)
          BY <1>1, <2>7, <3>1, <4>1, JobTrees DEF Member, DeletePair
        <4>2. CASE ~DeletePair(j)
          BY <3>1, <4>2 DEF Member, JobStep, Begin, WrLockList, WritePair, RemoveKey, DecLoad, DecStore,
             WrUnlockList
        <4>3. QED
          BY <4>1, <4>2
      <3>3. k \in sessKeys[s] => k \in sessKeys'[s]
        <4>1. CASE RemoveKey(j)
          <5>1. k # Key(j)
            BY <2>1, <3>1, <4>1 DEF Told, RemoveKey
          <5>2. QED
            BY <1>1, <4>1, <5>1 DEF RemoveKey
        <4>2. CASE ~RemoveKey(j)
          BY <4>2 DEF JobStep, Begin, WrLockList, WritePair, DeletePair, DecLoad, DecStore, WrUnlockList,
             books
        <4>3. QED
          BY <4>1, <4>2
      <3>4. QED
        BY <2>1, <2>3, <3>1, <3>2, <3>3 DEF Member, InTodo
    <2>8. QED
      BY <2>5, <2>6, <2>7 DEF Told
  <1>3. QED
    BY <1>2 DEF ToldInv

(* The facts on what clients are told are inductive. *)
LEMMA ToldStep == TypeInv /\ LockInv /\ ToldInv /\ [Next]_vars => ToldInv'
  <1>1. CASE UNCHANGED vars
    BY <1>1 DEF vars, local, books, history, ToldInv, Told, HasLeft, Member, InTodo,
       Subscribed, Key
  <1>2. QED
    BY <1>1, SessionToldStep, JobToldStep DEF Next
-----------------------------------------------------------------------------
IInv == TypeInv /\ LockInv /\ WalkInv /\ ToldInv

(* The inductive invariant holds in every state the server can reach. *)
LEMMA Invariance == Spec => []IInv
  <1>1. Init => IInv
    BY TypeInit, LockInit, WalkInit, ToldInit DEF IInv
  <1>2. IInv /\ [Next]_vars => IInv'
    BY TypeStep, LockStep, WalkStep, ToldStep DEF IInv
  <1>3. QED
    BY <1>1, <1>2, PTL DEF Spec

(* The books of the server have their types in every reachable state. *)
THEOREM TypeCorrect == Spec => []TypeOK
  <1>1. IInv => TypeOK
    BY DEF IInv, TypeInv
  <1>2. QED
    BY <1>1, Invariance, PTL

(* The list of a key is write-locked exactly by the job at work on it, and *)
(* read-locked exactly by the sessions between the lock and the unlock of  *)
(* kvs_subscribe, kvs_unsubscribe or kvs_remove_subscription: every return *)
(* of them gives the list back, and nobody gives back what another holds.  *)
THEOREM ListsAreHeldByLabel == Spec => []LockInv
  <1>1. IInv => LockInv
    BY DEF IInv
  <1>2. QED
    BY <1>1, Invariance, PTL

(* A session that is in the tree of a key, and so is written a line when    *)
(* the key changes, belongs to a client that asked for the key and has not *)
(* taken it back: kvs.c and avl.c never notify a client of anything else,  *)
(* however SUBSCRIBE, UNSUBSCRIBE, DELETE and DISCONNECT overlap.          *)
THEOREM ClientsAreToldWhatTheyWant == Spec => []ToldOnlyWhatItWants
  <1>1. IInv => ToldOnlyWhatItWants
    BY DEF IInv, ToldInv, Told, Member, ToldOnlyWhatItWants
  <1>2. QED
    BY <1>1, Invariance, PTL

(* Whatever threads wait for each other in a circle, one of them is a      *)
(* session that disconnects: its walk holds the lock of its tree while it  *)
(* asks for lists, the one place that takes the locks in that order.       *)
THEOREM DeadlocksNeedDisconnect == Spec => []OnlyDisconnectDeadlocks
  <1>1. IInv => OnlyDisconnectDeadlocks
    BY DeadlockInv DEF IInv
  <1>2. QED
    BY <1>1, Invariance, PTL
-----------------------------------------------------------------------------
(***************************************************************************)
(* The subscriptions are kept three times: in the tree of the key, in the  *)
(* tree of the session and in the counter of the session.  What follows    *)
(* proves that the three agree whenever nothing is under way, as long as   *)
(* none of the four damages of BooksAgreeUnlessDamaged has happened, and   *)
(* that until then a DISCONNECT is answered once.  dec_num_subs reads and  *)
(* writes the counter: CountInv says that nobody comes in between without  *)
(* damage, which BooksInv rests on.  Between the steps of a request the    *)
(* books differ by exactly what the labels of the session and of the jobs  *)
(* that delete account for: that is the inductive invariant.               *)
(***************************************************************************)
Pending == {"addkey", "inc", "incstore"}

(* A DELETE that is at one of labels has session s and key k before it. *)
Deleting(s, k, labels) ==
  \E j \in Jobs : pc[j] \in labels /\ Target(j) = s /\ Key(j) = k

(* The keys that are in the tree of session s, and those that its counter  *)
(* counts, seen from the trees of the keys.                                *)
Listed(s, k) ==
  \/ Subscribed(s, k) /\ ~(pc[s] = "addkey" /\ Key(s) = k)
  \/ pc[s] = "remkey" /\ Key(s) = k
  \/ Deleting(s, k, {"remkey"})

IsCounted(s, k) ==
  \/ Subscribed(s, k) /\ ~(pc[s] \in Pending /\ Key(s) = k)
  \/ pc[s] \in {"remkey", "dec", "decstore"} /\ Key(s) = k
  \/ Deleting(s, k, {"remkey", "dec", "decstore"})

Counted(s) == {k \in Keys : IsCounted(s, k)}

Trees(s) == \A k \in Keys : k \in sessKeys[s] <=> Listed(s, k)

Counter(s) == numSubs[s] = Cardinality(Counted(s))

(* What the request of session s has done so far. *)
Serving(s) ==
  /\ numSubs[s] + (IF pc[s] \in Pending THEN 1 ELSE 0) <= MaxSubs
  /\ pc[s] \in Pending => Subscribed(s, Key(s))
  /\ pc[s] = "incstore" => loaded[s] = numSubs[s]
  /\ pc[s] \in {"unlock", "again"} /\ result[s] =>
       /\ req[s].op = "SUBSCRIBE" => Key(s) \in sessKeys[s]
       /\ req[s].op = "UNSUBSCRIBE" => Key(s) \notin sessKeys[s]
  /\ pc[s] \in {"dec", "decstore"} => Key(s) \notin sessKeys[s]
  /\ req[s].op = "DISCONNECT" => result[s]

(* No two threads are inside dec_num_subs for one session, and what the one *)
(* there has read is what the counter holds, as inc_num_subs has not come  *)
(* in between.                                                             *)
CountAlone ==
  \A a, b \in Actors : \A s \in Sessions :
    IsCountingDown(a, s) /\ IsCountingDown(b, s) => a = b

CountFresh == \A a \in Actors, s \in Sessions : IsCountingDown(a, s) => loaded[a] = numSubs[s]

CountInv == CountAlone /\ (~damaged => CountFresh)

OneVisit == \A j \in Jobs : pc[j] \in {"remkey", "dec", "decstore"} => Len(todo[j]) = 1

BooksInv ==
  ~damaged => OneVisit /\ \A s \in Sessions : Trees(s) /\ Counter(s) /\ Serving(s)
-----------------------------------------------------------------------------
(* The keys that a counter counts are finitely many, so that adding one     *)
(* adds 1.                                                                  *)
LEMMA CountedFacts ==
  ASSUME NEW s
  PROVE  IsFiniteSet(Counted(s)) /\ Cardinality(Counted(s)) \in Nat
  BY FS_Subset, FS_CardinalityType, SubscriptionsAssumption DEF Counted

(* The books agree when the server starts: no key, no session, counters at  *)
(* 0.                                                                       *)
LEMMA BooksInit == Init => BooksInv
  <1> SUFFICES ASSUME Init PROVE BooksInv
    OBVIOUS
  <1> USE ActorFacts, SubscriptionsAssumption DEF Init
  <1>1. OneVisit
    BY DEF OneVisit
  <1>2. ASSUME NEW s \in Sessions PROVE Trees(s) /\ Counter(s) /\ Serving(s)
    <2>1. \A k \in Keys : ~Listed(s, k) /\ ~IsCounted(s, k)
      BY DEF Listed, IsCounted, Deleting, Subscribed
    <2>2. Counted(s) = {}
      BY <2>1 DEF Counted
    <2>3. QED
      BY <2>1, <2>2, FS_EmptySet DEF Trees, Counter, Serving, Pending
  <1>3. QED
    BY <1>1, <1>2 DEF BooksInv

(* Nothing repairs the books but a new beginning of the program. *)
LEMMA DamageStays == TypeInv /\ [Next]_vars /\ damaged => damaged'
  BY ZenonT(60) DEF TypeInv, TypeOK, Next, SessionStep, JobStep, Request, LockList, SubscribeEnds,
     SubscribePair, AddKey, IncLoad, IncStore, UnsubscribeEnds, UnsubscribePair,
     UnlockList, Again, Reply, Disconnect, WalkLock, WalkVisit, Clean, RemoveKey, DecLoad, DecStore,
     Begin, WrLockList, WritePair, DeletePair, WrUnlockList, vars, history

(* What a step of session s leaves alone. *)
LEMMA SessionBooksFrame ==
  ASSUME IInv, NEW s \in Sessions, SessionStep(s)
  PROVE  /\ OneVisit => OneVisit'
         /\ \A t \in Sessions, k \in Keys :
              /\ Deleting(t, k, {"remkey"})' <=> Deleting(t, k, {"remkey"})
              /\ Deleting(t, k, {"remkey", "dec", "decstore"})' <=> Deleting(t, k, {"remkey", "dec", "decstore"})
         /\ \A t \in Sessions \ {s} : Trees(t) /\ Counter(t) /\ Serving(t) =>
              Trees(t)' /\ Counter(t)' /\ Serving(t)'
  <1>1. TypeInv /\ ToldInv
    BY DEF IInv
  <1>2. \A j \in Jobs : pc'[j] = pc[j] /\ Key(j)' = Key(j) /\ todo'[j] = todo[j]
    BY <1>1, SessionFrame, ActorFacts DEF Key
  <1>3. \A j \in Jobs : Target(j)' = Target(j)
    BY <1>2, ActorFacts DEF Target
  <1>4. OneVisit => OneVisit'
    BY <1>2 DEF OneVisit
  <1>5. \A t \in Sessions, k \in Keys :
          /\ Deleting(t, k, {"remkey"})' <=> Deleting(t, k, {"remkey"})
          /\ Deleting(t, k, {"remkey", "dec", "decstore"})' <=> Deleting(t, k, {"remkey", "dec", "decstore"})
    BY <1>2, <1>3 DEF Deleting
  <1>6. ASSUME NEW t \in Sessions \ {s}, Trees(t), Counter(t), Serving(t)
        PROVE  Trees(t)' /\ Counter(t)' /\ Serving(t)'
    <2>1. /\ pc'[t] = pc[t] /\ req'[t] = req[t] /\ Key(t)' = Key(t) /\ Key(t) \in Keys
          /\ result'[t] = result[t] /\ loaded'[t] = loaded[t]
          /\ sessKeys'[t] = sessKeys[t] /\ numSubs'[t] = numSubs[t]
      BY <1>1, SessionFrame, ActorFacts, KeyFacts DEF Key, TypeInv
    <2>2. \A k \in Keys : Subscribed(t, k)' <=> Subscribed(t, k)
      BY <1>1, SessionTrees
    <2>3. \A k \in Keys : (Listed(t, k)' <=> Listed(t, k)) /\ (IsCounted(t, k)' <=> IsCounted(t, k))
      BY <1>5, <2>1, <2>2 DEF Listed, IsCounted
    <2>4. Counted(t)' = Counted(t)
      BY <2>3 DEF Counted
    <2>5. QED
      BY <1>6, <2>1, <2>2, <2>3, <2>4 DEF Trees, Counter, Serving
  <1>7. QED
    BY <1>4, <1>5, <1>6

(* While session s has a list, no DELETE is at work on a key of it. *)
LEMMA NotDeleting ==
  ASSUME IInv, NEW s \in Sessions, pc[s] \in SessionHolds
  PROVE  /\ ~Deleting(s, Key(s), {"remkey"}) /\ ~Deleting(s, Key(s), {"remkey", "dec", "decstore"})
  BY Exclusion, ActorFacts DEF IInv, Deleting, JobHolds

(* What the proofs of the steps of session s start from. *)
LEMMA SessionFacts ==
  ASSUME IInv, NEW s \in Sessions
  PROVE  /\ pc \in [Actors -> Labels] /\ req \in [Actors -> [op : Ops, key : Keys]]
         /\ sessKeys \in [Sessions -> SUBSET Keys] /\ numSubs \in [Sessions -> Int]
         /\ result \in [Sessions -> BOOLEAN] /\ loaded \in [Actors -> Int]
         /\ walking \in [Sessions -> BOOLEAN]
         /\ s \in Actors /\ s \notin Jobs /\ NoRequest.op = "NONE" /\ Key(s) \in Keys
         /\ MaxSubs \in Nat /\ SessionRoles(s) /\ Walks(s) /\ Told(s)
  BY ActorFacts, KeyFacts, SubscriptionsAssumption DEF IInv, TypeInv, TypeOK, WalkInv, ToldInv

(* The counter and the keys that are counted change together. *)
LEMMA CounterStep ==
  ASSUME NEW s \in Sessions, Counter(s), NEW key \in Keys,
         \/ /\ numSubs'[s] = numSubs[s]
            /\ \A k \in Keys : IsCounted(s, k)' <=> IsCounted(s, k)
         \/ /\ numSubs'[s] = numSubs[s] + 1 /\ ~IsCounted(s, key)
            /\ \A k \in Keys : IsCounted(s, k)' <=> IsCounted(s, k) \/ k = key
         \/ /\ numSubs'[s] = numSubs[s] - 1 /\ IsCounted(s, key)
            /\ \A k \in Keys : IsCounted(s, k)' <=> IsCounted(s, k) /\ k # key
  PROVE  Counter(s)'
  <1>1. IsFiniteSet(Counted(s)) /\ Cardinality(Counted(s)) \in Nat
    BY CountedFacts
  <1>2. CASE /\ numSubs'[s] = numSubs[s]
             /\ \A k \in Keys : IsCounted(s, k)' <=> IsCounted(s, k)
    <2>1. Counted(s)' = Counted(s)
      BY <1>2 DEF Counted
    <2>2. QED
      BY <1>2, <2>1 DEF Counter
  <1>3. CASE /\ numSubs'[s] = numSubs[s] + 1 /\ ~IsCounted(s, key)
             /\ \A k \in Keys : IsCounted(s, k)' <=> IsCounted(s, k) \/ k = key
    <2>1. Counted(s)' = Counted(s) \cup {key} /\ key \notin Counted(s)
      BY <1>3 DEF Counted
    <2>2. Cardinality(Counted(s)') = Cardinality(Counted(s)) + 1
      BY <1>1, <2>1, FS_AddElement
    <2>3. QED
      BY <1>3, <2>2 DEF Counter
  <1>4. CASE /\ numSubs'[s] = numSubs[s] - 1 /\ IsCounted(s, key)
             /\ \A k \in Keys : IsCounted(s, k)' <=> IsCounted(s, k) /\ k # key
    <2>1. Counted(s)' = Counted(s) \ {key} /\ key \in Counted(s)
      BY <1>4 DEF Counted
    <2>2. Cardinality(Counted(s)') = Cardinality(Counted(s)) - 1
      BY <1>1, <2>1, FS_RemoveElement
    <2>3. QED
      BY <1>4, <2>2 DEF Counter
  <1>5. QED
    BY <1>2, <1>3, <1>4

(* The steps that change neither tree nor counter. *)
LEMMA QuietStep ==
  ASSUME IInv, NEW s \in Sessions, SessionStep(s), Trees(s), Counter(s), Serving(s),
         \/ Request(s) \/ LockList(s) \/ SubscribeEnds(s) \/ IncLoad(s)
         \/ UnsubscribeEnds(s) \/ UnlockList(s) \/ Reply(s) \/ Disconnect(s) \/ WalkLock(s)
  PROVE  Trees(s)' /\ Counter(s)' /\ Serving(s)'
  <1> USE SessionFacts
  <1>1. /\ sessKeys' = sessKeys /\ numSubs' = numSubs
        /\ \A k \in Keys : Subscribed(s, k)' <=> Subscribed(s, k)
    <2>1. sessKeys' = sessKeys /\ numSubs' = numSubs /\ keySubs' = keySubs
      BY DEF Request, LockList, SubscribeEnds, IncLoad, UnsubscribeEnds, UnlockList, Reply,
         Disconnect, WalkLock, books
    <2>2. QED
      BY <2>1, TreeKept
  <1>2. /\ pc[s] \in Pending => pc'[s] \in Pending /\ Key(s)' = Key(s) /\ pc[s] # "addkey"
        /\ pc'[s] \in Pending => pc[s] \in Pending /\ pc'[s] # "addkey"
        /\ pc[s] \notin {"remkey", "dec", "decstore"} /\ pc'[s] \notin {"remkey", "dec", "decstore"}
    BY DEF Request, LockList, SubscribeEnds, IncLoad, UnsubscribeEnds, UnlockList, Reply,
       Disconnect, WalkLock, Finish, Goto, Key, Pending
  <1>3. \A k \in Keys : (Listed(s, k)' <=> Listed(s, k)) /\ (IsCounted(s, k)' <=> IsCounted(s, k))
    BY <1>1, <1>2, SessionBooksFrame DEF Listed, IsCounted, Pending
  <1>4. Trees(s)'
    BY <1>1, <1>3 DEF Trees
  <1>5. Counter(s)'
    BY <1>1, <1>3, CounterStep
  <1>6. Serving(s)'
    <2> USE <1>1, <1>2 DEF Serving, Pending, SessionRoles, Goto, Key, local
    <2>1. CASE Request(s)
      BY <2>1 DEF Request
    <2>2. CASE LockList(s)
      BY <2>2 DEF LockList
    <2>3. CASE SubscribeEnds(s)
      BY <2>3 DEF SubscribeEnds
    <2>4. CASE UnsubscribeEnds(s)
      BY <2>4 DEF UnsubscribeEnds
    <2>5. CASE IncLoad(s)
      BY <2>5 DEF IncLoad
    <2>6. CASE UnlockList(s)
      BY <2>6 DEF UnlockList
    <2>7. CASE Reply(s)
      BY <2>7 DEF Reply, Finish
    <2>8. CASE Disconnect(s)
      BY <2>8 DEF Disconnect
    <2>9. CASE WalkLock(s)
      BY <2>9 DEF WalkLock
    <2>10. QED
      BY <2>1, <2>2, <2>3, <2>4, <2>5, <2>6, <2>7, <2>8, <2>9
  <1>7. QED
    BY <1>4, <1>5, <1>6

(* The steps of a SUBSCRIBE that change a tree or the counter. *)
LEMMA SubscribeBooks ==
  ASSUME IInv, NEW s \in Sessions, SessionStep(s), Trees(s), Counter(s), Serving(s),
         SubscribePair(s) \/ AddKey(s) \/ IncStore(s)
  PROVE  Trees(s)' /\ Counter(s)' /\ Serving(s)'
  <1> USE SessionFacts
  <1>1. /\ pc[s] \in {"locked", "addkey", "incstore"}
        /\ Key(s)' = Key(s) /\ req' = req
        /\ ~Deleting(s, Key(s), {"remkey"}) /\ ~Deleting(s, Key(s), {"remkey", "dec", "decstore"})
    <2>1. pc[s] \in {"locked", "addkey", "incstore"} /\ req' = req
      BY DEF SubscribePair, AddKey, IncStore
    <2>2. QED
      BY <2>1, NotDeleting DEF SessionHolds, Key
  <1>2. CASE SubscribePair(s)
    <2>1. /\ pc[s] = "locked" /\ pc'[s] = "addkey" /\ sessKeys' = sessKeys
          /\ numSubs' = numSubs /\ loaded' = loaded /\ req[s].op = "SUBSCRIBE"
          /\ numSubs[s] # MaxSubs /\ Key(s) \notin sessKeys[s]
      BY <1>2 DEF SubscribePair, Goto
    <2>2. \A k \in Keys : Subscribed(s, k)' <=> Subscribed(s, k) \/ k = Key(s)
      BY <1>2, SessionTrees DEF IInv
    <2>3. ~Subscribed(s, Key(s))
      BY <2>1 DEF Told, Member
    <2>4. \A k \in Keys : /\ Listed(s, k)' <=> Listed(s, k)
                          /\ IsCounted(s, k)' <=> IsCounted(s, k)
      BY <1>1, <2>1, <2>2, <2>3, SessionBooksFrame DEF Listed, IsCounted, Pending
    <2>5. Trees(s)'
      BY <2>1, <2>4 DEF Trees
    <2>6. Counter(s)'
      BY <2>1, <2>4, CounterStep
    <2>7. Serving(s)'
      <3>1. numSubs[s] + 1 <= MaxSubs
        <4>1. pc[s] \notin Pending
          BY <2>1 DEF Pending
        <4>2. numSubs[s] <= MaxSubs
          BY <4>1 DEF Serving
        <4>3. numSubs[s] \in Int /\ MaxSubs \in Int
          OBVIOUS
        <4>4. numSubs[s] # MaxSubs
          BY <2>1
        <4>5. QED
          BY ONLY <4>2, <4>3, <4>4
      <3>2. Subscribed(s, Key(s))'
        BY <1>1, <2>2
      <3>3. QED
        BY <1>1, <2>1, <3>1, <3>2 DEF Serving, Pending
    <2>8. QED
      BY <2>5, <2>6, <2>7
  <1>3. CASE AddKey(s)
    <2>1. /\ pc[s] = "addkey" /\ pc'[s] = "inc" /\ req[s].op = "SUBSCRIBE"
          /\ \A k \in Keys : k \in sessKeys'[s] <=> k \in sessKeys[s] \/ k = Key(s)
          /\ numSubs' = numSubs
      BY <1>3 DEF AddKey, Goto, SessionRoles
    <2>2. \A k \in Keys : Subscribed(s, k)' <=> Subscribed(s, k)
      BY <1>3, TreeKept DEF AddKey
    <2>3. Subscribed(s, Key(s))
      BY <2>1 DEF Serving, Pending
    <2>4. \A k \in Keys : IsCounted(s, k)' <=> IsCounted(s, k)
      BY <1>1, <2>1, <2>2, SessionBooksFrame DEF IsCounted, Pending
    <2>5. \A k \in Keys : Listed(s, k)' <=> Listed(s, k) \/ k = Key(s)
      BY <1>1, <2>1, <2>2, <2>3, SessionBooksFrame DEF Listed
    <2>6. Trees(s)'
      BY <2>1, <2>5 DEF Trees
    <2>7. Counter(s)'
      BY <2>1, <2>4, CounterStep
    <2>8. Serving(s)'
      BY <1>1, <2>1, <2>2 DEF Serving, Pending
    <2>9. QED
      BY <2>6, <2>7, <2>8
  <1>4. CASE IncStore(s)
    <2>1. /\ pc[s] = "incstore" /\ pc'[s] = "unlock" /\ req[s].op = "SUBSCRIBE"
          /\ sessKeys' = sessKeys /\ numSubs'[s] = loaded[s] + 1
      BY <1>4 DEF IncStore, Goto, SessionRoles
    <2>2. \A k \in Keys : Subscribed(s, k)' <=> Subscribed(s, k)
      BY <1>4, TreeKept DEF IncStore
    <2>3. Subscribed(s, Key(s)) /\ loaded[s] = numSubs[s]
      BY <2>1 DEF Serving, Pending
    <2>4. /\ ~IsCounted(s, Key(s))
          /\ \A k \in Keys : IsCounted(s, k)' <=> IsCounted(s, k) \/ k = Key(s)
      BY <1>1, <2>1, <2>2, <2>3, SessionBooksFrame DEF IsCounted, Pending
    <2>5. \A k \in Keys : Listed(s, k)' <=> Listed(s, k)
      BY <1>1, <2>1, <2>2, SessionBooksFrame DEF Listed
    <2>6. Trees(s)'
      BY <2>1, <2>5 DEF Trees
    <2>7. Counter(s)'
      BY <2>1, <2>3, <2>4, CounterStep
    <2>8. Key(s) \in sessKeys[s]
      BY <2>1, <2>3 DEF Trees, Listed
    <2>9. Serving(s)'
      BY <1>1, <2>1, <2>3, <2>8 DEF Serving, Pending
    <2>10. QED
      BY <2>6, <2>7, <2>9
  <1>5. QED
    BY <1>2, <1>3, <1>4

(* The steps of an UNSUBSCRIBE, or of a visit of a DISCONNECT, that change *)
(* a tree or the counter.                                                  *)
LEMMA UnsubscribeBooks ==
  ASSUME IInv, CountFresh, NEW s \in Sessions, SessionStep(s), Trees(s), Counter(s), Serving(s),
         UnsubscribePair(s) \/ WalkVisit(s) \/ RemoveKey(s) \/ DecLoad(s)
         \/ DecStore(s)
  PROVE  Trees(s)' /\ Counter(s)' /\ Serving(s)'
  <1> USE SessionFacts
  <1>1. /\ pc[s] \in {"locked", "visit", "remkey", "dec", "decstore"}
        /\ Key(s)' = Key(s) /\ req' = req
        /\ ~Deleting(s, Key(s), {"remkey"}) /\ ~Deleting(s, Key(s), {"remkey", "dec", "decstore"})
    <2>1. pc[s] \in {"locked", "visit", "remkey", "dec", "decstore"} /\ req' = req
      BY DEF UnsubscribePair, WalkVisit, RemoveKey, DecLoad, DecStore
    <2>2. QED
      BY <2>1, NotDeleting DEF SessionHolds, Key
  <1>2. CASE UnsubscribePair(s) \/ WalkVisit(s)
    <2>1. /\ pc[s] \in {"locked", "visit"} /\ sessKeys' = sessKeys /\ numSubs' = numSubs
          /\ Key(s) \in sessKeys[s]
      BY <1>2 DEF UnsubscribePair, WalkVisit, Walks, SessionRoles
    <2>2. Subscribed(s, Key(s)) /\ Key(s) \in present
      BY <1>1, <2>1 DEF Trees, Listed, Told, Member
    <2>3. pc'[s] = "remkey"
      BY <1>2, <2>2 DEF UnsubscribePair, WalkVisit, Goto
    <2>4. \A k \in Keys : Subscribed(s, k)' <=> Subscribed(s, k) /\ k # Key(s)
      BY <1>2, SessionTrees DEF IInv
    <2>5. \A k \in Keys : /\ Listed(s, k)' <=> Listed(s, k)
                          /\ IsCounted(s, k)' <=> IsCounted(s, k)
      BY <1>1, <2>1, <2>2, <2>3, <2>4, SessionBooksFrame DEF Listed, IsCounted, Pending
    <2>6. Trees(s)'
      BY <2>1, <2>5 DEF Trees
    <2>7. Counter(s)'
      BY <2>1, <2>5, CounterStep
    <2>8. req[s].op = "DISCONNECT" => result'[s]
      <3>1. CASE UnsubscribePair(s)
        BY <3>1 DEF UnsubscribePair
      <3>2. CASE WalkVisit(s)
        <4>1. PICK atRoot \in BOOLEAN :
                result' = [result EXCEPT ![s] = @ /\ (Key(s) \in present \/ ~atRoot)]
          BY <3>2, Zenon DEF WalkVisit
        <4>2. QED
          BY <2>2, <4>1 DEF Serving
      <3>3. QED
        BY <1>2, <3>1, <3>2
    <2>9. Serving(s)'
      BY <1>1, <2>1, <2>3, <2>8 DEF Serving, Pending
    <2>10. QED
      BY <2>6, <2>7, <2>9
  <1>3. CASE RemoveKey(s)
    <2>1. /\ pc[s] = "remkey" /\ pc'[s] = "dec"
          /\ \A k \in Keys : k \in sessKeys'[s] <=> k \in sessKeys[s] /\ k # Key(s)
          /\ numSubs' = numSubs /\ result' = result
      BY <1>3 DEF RemoveKey, Target, Goto
    <2>2. \A k \in Keys : Subscribed(s, k)' <=> Subscribed(s, k)
      BY <1>3, TreeKept DEF RemoveKey
    <2>3. ~Subscribed(s, Key(s))
      BY <2>1 DEF Told, HasLeft
    <2>4. \A k \in Keys : IsCounted(s, k)' <=> IsCounted(s, k)
      BY <1>1, <2>1, <2>2, SessionBooksFrame DEF IsCounted, Pending
    <2>5. \A k \in Keys : Listed(s, k)' <=> Listed(s, k) /\ k # Key(s)
      BY <1>1, <2>1, <2>2, <2>3, SessionBooksFrame DEF Listed
    <2>6. Trees(s)'
      BY <2>1, <2>5 DEF Trees
    <2>7. Counter(s)'
      BY <2>1, <2>4, CounterStep
    <2>8. Serving(s)'
      BY <1>1, <2>1 DEF Serving, Pending
    <2>9. QED
      BY <2>6, <2>7, <2>8
  <1>4. CASE DecLoad(s)
    <2>1. /\ pc[s] = "dec" /\ pc'[s] = "decstore" /\ sessKeys' = sessKeys
          /\ numSubs' = numSubs /\ result' = result
      BY <1>4 DEF DecLoad, Goto, books
    <2>2. \A k \in Keys : Subscribed(s, k)' <=> Subscribed(s, k)
      BY <1>4, TreeKept DEF DecLoad, books
    <2>3. \A k \in Keys : /\ Listed(s, k)' <=> Listed(s, k)
                          /\ IsCounted(s, k)' <=> IsCounted(s, k)
      BY <1>1, <2>1, <2>2, SessionBooksFrame DEF Listed, IsCounted, Pending
    <2>4. Trees(s)'
      BY <2>1, <2>3 DEF Trees
    <2>5. Counter(s)'
      BY <2>1, <2>3, CounterStep
    <2>6. Serving(s)'
      BY <1>1, <2>1 DEF Serving, Pending
    <2>7. QED
      BY <2>4, <2>5, <2>6
  <1>5. CASE DecStore(s)
    <2>1. /\ pc[s] = "decstore" /\ pc'[s] = "unlock" /\ sessKeys' = sessKeys
          /\ numSubs'[s] = loaded[s] - 1 /\ result' = result /\ req[s].op = "UNSUBSCRIBE"
      BY <1>5 DEF DecStore, Target, Goto, SessionRoles, Walks
    <2>10. numSubs'[s] = numSubs[s] - 1
      BY <2>1 DEF CountFresh, IsCountingDown, Target
    <2>2. \A k \in Keys : Subscribed(s, k)' <=> Subscribed(s, k)
      BY <1>5, TreeKept DEF DecStore
    <2>3. ~Subscribed(s, Key(s))
      BY <2>1 DEF Told, HasLeft
    <2>4. /\ IsCounted(s, Key(s))
          /\ \A k \in Keys : IsCounted(s, k)' <=> IsCounted(s, k) /\ k # Key(s)
      BY <1>1, <2>1, <2>2, <2>3, SessionBooksFrame DEF IsCounted, Pending
    <2>5. \A k \in Keys : Listed(s, k)' <=> Listed(s, k)
      BY <1>1, <2>1, <2>2, SessionBooksFrame DEF Listed
    <2>6. Trees(s)'
      BY <2>1, <2>5 DEF Trees
    <2>7. Counter(s)'
      BY <2>1, <2>4, <2>10, CounterStep
    <2>8. Serving(s)'
      BY <1>1, <2>1, <2>10 DEF Serving, Pending
    <2>9. QED
      BY <2>6, <2>7, <2>8
  <1>6. QED
    BY <1>2, <1>3, <1>4, <1>5

(* The second change of the tree, and the end of the session. *)
LEMMA AgainCleanBooks ==
  ASSUME IInv, NEW s \in Sessions, SessionStep(s), Trees(s), Counter(s), Serving(s),
         ~damaged', Again(s) \/ Clean(s)
  PROVE  Trees(s)' /\ Counter(s)' /\ Serving(s)'
  <1> USE SessionFacts
  <1>1. CASE Again(s)
    <2>1. /\ pc[s] = "again" /\ pc'[s] = "reply" /\ numSubs' = numSubs /\ req' = req
          /\ Key(s)' = Key(s)
      BY <1>1 DEF Again, Goto, Key
    <2>2. sessKeys'[s] = sessKeys[s]
      BY <1>1, <2>1 DEF Again, Serving, SessionRoles
    <2>3. \A k \in Keys : Subscribed(s, k)' <=> Subscribed(s, k)
      BY <1>1, TreeKept DEF Again
    <2>4. \A k \in Keys : /\ Listed(s, k)' <=> Listed(s, k)
                          /\ IsCounted(s, k)' <=> IsCounted(s, k)
      BY <2>1, <2>3, SessionBooksFrame DEF Listed, IsCounted, Pending
    <2>5. Trees(s)'
      BY <2>2, <2>4 DEF Trees
    <2>6. Counter(s)'
      BY <2>1, <2>4, CounterStep
    <2>7. Serving(s)'
      BY <2>1 DEF Serving, Pending, SessionRoles
    <2>8. QED
      BY <2>5, <2>6, <2>7
  <1>2. CASE Clean(s)
    <2>1. /\ pc[s] = "walk" /\ pc'[s] = "idle" /\ todo[s] = <<>> /\ sessKeys'[s] = {}
          /\ numSubs'[s] = 0 /\ req'[s].op = "NONE" /\ req[s].op = "DISCONNECT"
      BY <1>2 DEF Clean, Finish, Goto, SessionRoles
    <2>2. \A k \in Keys : ~Subscribed(s, k)'
      <3>1. \A k \in Keys : Subscribed(s, k)' <=> Subscribed(s, k)
        BY <1>2, TreeKept DEF Clean
      <3>2. \A k \in Keys : ~InTodo(s, k)
        BY <2>1 DEF InTodo
      <3>3. QED
        BY <2>1, <3>1, <3>2 DEF Told, Member
    <2>3. \A k \in Keys : /\ ~Deleting(s, k, {"remkey"})'
                          /\ ~Deleting(s, k, {"remkey", "dec", "decstore"})'
      <3>1. \A j \in Jobs : ~IsVisiting(j, s)
        BY <1>2 DEF Clean
      <3>2. ASSUME NEW j \in Jobs, pc[j] \in {"remkey", "dec", "decstore"}
            PROVE  Target(j) # s
        <4>1. todo[j] \in Seq(Sessions) /\ todo[j] # <<>> /\ j \notin Sessions
          BY <3>2, ActorFacts DEF IInv, TypeInv, TypeOK, JobRoles
        <4>2. Target(j) = todo[j][1] /\ 1 \in DOMAIN todo[j]
          BY <4>1, LenProperties, EmptySeq DEF Target
        <4>3. QED
          BY <3>1, <3>2, <4>2 DEF IsVisiting
      <3>3. QED
        BY <3>2, SessionBooksFrame DEF Deleting
    <2>4. \A k \in Keys : ~Listed(s, k)' /\ ~IsCounted(s, k)'
      BY <2>1, <2>2, <2>3 DEF Listed, IsCounted
    <2>5. Counted(s)' = {}
      BY <2>4 DEF Counted
    <2>6. QED
      BY <2>1, <2>4, <2>5, FS_EmptySet DEF Trees, Counter, Serving, Pending
  <1>3. QED
    BY <1>1, <1>2

(* The steps of a session keep its own books right. *)
LEMMA SessionBooksStep ==
  ASSUME IInv, CountInv, BooksInv, NEW s \in Sessions, SessionStep(s)
  PROVE  BooksInv'
  <1> SUFFICES ASSUME ~damaged'
               PROVE  OneVisit' /\ \A t \in Sessions : Trees(t)' /\ Counter(t)' /\ Serving(t)'
    BY DEF BooksInv
  <1>1. ~damaged
    BY DamageStays DEF IInv, Next
  <1>2. OneVisit /\ \A t \in Sessions : Trees(t) /\ Counter(t) /\ Serving(t)
    BY <1>1 DEF BooksInv
  <1>3. Trees(s)' /\ Counter(s)' /\ Serving(s)'
    BY <1>1, <1>2, QuietStep, SubscribeBooks, UnsubscribeBooks, AgainCleanBooks
       DEF SessionStep, CountInv
  <1>4. QED
    BY <1>2, <1>3, SessionBooksFrame
-----------------------------------------------------------------------------
(* What a step of job j leaves alone. *)
LEMMA JobBooksFrame ==
  ASSUME IInv, NEW j \in Jobs, JobStep(j), NEW s \in Sessions
  PROVE  /\ pc'[s] = pc[s] /\ req'[s] = req[s] /\ Key(s)' = Key(s)
         /\ result'[s] = result[s] /\ loaded'[s] = loaded[s]
         /\ \A i \in Jobs \ {j} : /\ pc'[i] = pc[i] /\ Key(i)' = Key(i)
                                  /\ todo'[i] = todo[i] /\ Target(i)' = Target(i)
  <1>1. \A a \in Actors \ {j} : /\ pc'[a] = pc[a] /\ req'[a] = req[a]
                               /\ todo'[a] = todo[a] /\ loaded'[a] = loaded[a]
    BY JobFrame DEF IInv
  <1>2. result' = result
    BY JobFrame DEF IInv
  <1>3. QED
    BY <1>1, <1>2, ActorFacts DEF Key, Target

(* The other jobs that have session s and key k before them. *)
Others(j, s, k, labels) ==
  \E i \in Jobs \ {j} : pc[i] \in labels /\ Target(i) = s /\ Key(i) = k

(* What is being deleted, before and after a step of job j: what the other  *)
(* jobs delete, and what j does.                                           *)
LEMMA DeletingStep ==
  ASSUME IInv, NEW j \in Jobs, JobStep(j), NEW s \in Sessions, NEW k, NEW labels
  PROVE  /\ Deleting(s, k, labels) <=>
              Others(j, s, k, labels) \/ (pc[j] \in labels /\ Target(j) = s /\ Key(j) = k)
         /\ Deleting(s, k, labels)' <=>
              Others(j, s, k, labels) \/ (pc'[j] \in labels /\ Target(j)' = s /\ Key(j)' = k)
  BY JobBooksFrame DEF Deleting, Others

(* What the proofs of the steps of job j start from. *)
LEMMA JobFacts ==
  ASSUME IInv, NEW j \in Jobs
  PROVE  /\ pc \in [Actors -> Labels] /\ req \in [Actors -> [op : Ops, key : Keys]]
         /\ todo = [a \in Actors |-> todo[a]] /\ todo[j] \in Seq(Sessions)
         /\ sessKeys \in [Sessions -> SUBSET Keys] /\ numSubs \in [Sessions -> Int]
         /\ keySubs \in [Keys -> Seq(Sessions)]
         /\ j \in Actors /\ j \notin Sessions /\ Key(j) \in Keys /\ JobRoles(j)
         /\ MaxSubs \in Nat
  BY ActorFacts, KeyFacts, SubscriptionsAssumption DEF IInv, TypeInv, TypeOK

(* The steps of a job outside the visits of a DELETE. *)
LEMMA JobQuietStep ==
  ASSUME IInv, NEW j \in Jobs, JobStep(j), NEW s \in Sessions,
         Trees(s), Counter(s), Serving(s),
         Begin(j) \/ WrLockList(j) \/ WritePair(j) \/ WrUnlockList(j)
  PROVE  Trees(s)' /\ Counter(s)' /\ Serving(s)'
  <1> USE JobFacts, JobBooksFrame
  <1>1. /\ sessKeys' = sessKeys /\ numSubs' = numSubs
        /\ \A k \in Keys : Subscribed(s, k)' <=> Subscribed(s, k)
    <2>1. sessKeys' = sessKeys /\ numSubs' = numSubs /\ keySubs' = keySubs
      BY DEF Begin, WrLockList, WritePair, WrUnlockList, books
    <2>2. QED
      BY <2>1, TreeKept
  <1>2. pc[j] \notin {"remkey", "dec", "decstore"} /\ pc'[j] \notin {"remkey", "dec", "decstore"}
    BY DEF Begin, WrLockList, WritePair, WrUnlockList, Goto, Finish
  <1>3. \A k \in Keys :
          /\ Deleting(s, k, {"remkey"})' <=> Deleting(s, k, {"remkey"})
          /\ Deleting(s, k, {"remkey", "dec", "decstore"})' <=> Deleting(s, k, {"remkey", "dec", "decstore"})
    BY <1>2, DeletingStep
  <1>4. \A k \in Keys : (Listed(s, k)' <=> Listed(s, k)) /\ (IsCounted(s, k)' <=> IsCounted(s, k))
    BY <1>1, <1>3 DEF Listed, IsCounted
  <1>5. Key(s) \in Keys
    BY ActorFacts, KeyFacts DEF IInv, TypeInv
  <1>6. Trees(s)' /\ Counter(s)'
    BY <1>1, <1>4, <1>5, CounterStep DEF Trees
  <1>7. Serving(s)'
    BY <1>1, <1>5 DEF Serving
  <1>8. QED
    BY <1>6, <1>7

(* The tree of a key that one session at most has subscribed. *)
LEMMA ShortTree ==
  ASSUME NEW tree \in Seq(Sessions), ~(Len(tree) > 1)
  PROVE  /\ Visits(tree) = tree
         /\ tree # <<>> => Len(tree) = 1 /\ Head(tree) = tree[1]
  <1>1. Len(tree) \in Nat /\ (tree # <<>> => Len(tree) # 0)
    BY LenProperties, EmptySeq
  <1>2. \A n \in Nat : ~(n > 1) => n < 2 /\ (n # 0 => n = 1)
    OBVIOUS
  <1>3. Len(tree) < 2 /\ (tree # <<>> => Len(tree) = 1)
    BY <1>1, <1>2, Zenon
  <1>4. tree # <<>> => Head(tree) = tree[1]
    OBVIOUS
  <1>5. QED
    BY <1>3, <1>4, VisitsFacts

(* delete_pair moves the key of one session from the tree to the visit. *)
LEMMA DeleteBooks ==
  ASSUME IInv, NEW j \in Jobs, JobStep(j), DeletePair(j), ~damaged',
         NEW s \in Sessions, Trees(s), Counter(s), Serving(s)
  PROVE  Trees(s)' /\ Counter(s)' /\ Serving(s)'
  <1> USE JobFacts, JobBooksFrame
  <1>1. /\ pc[j] = "locked" /\ todo'[j] = keySubs[Key(j)] /\ ~(Len(keySubs[Key(j)]) > 1)
        /\ pc'[j] = (IF keySubs[Key(j)] = <<>> THEN "unlock" ELSE "remkey")
        /\ sessKeys' = sessKeys /\ numSubs' = numSubs /\ Key(j)' = Key(j)
    <2>1. ~(Len(keySubs[Key(j)]) > 1)
      BY DEF DeletePair
    <2>2. Visits(keySubs[Key(j)]) = keySubs[Key(j)]
      BY <2>1, ShortTree
    <2>3. QED
      BY <2>1, <2>2 DEF DeletePair, Goto, Key
  <1>2. \A k \in Keys : Subscribed(s, k)' <=> Subscribed(s, k) /\ k # Key(j)
    BY JobTrees DEF IInv
  <1>3. \A k \in Keys : /\ Deleting(s, k, {"remkey"})' <=>
                             Deleting(s, k, {"remkey"}) \/ (k = Key(j) /\ Subscribed(s, k))
                        /\ Deleting(s, k, {"remkey", "dec", "decstore"})' <=>
                             Deleting(s, k, {"remkey", "dec", "decstore"}) \/ (k = Key(j) /\ Subscribed(s, k))
    <2>1. Subscribed(s, Key(j)) <=> pc'[j] = "remkey" /\ Target(j)' = s
      <3> DEFINE tree == keySubs[Key(j)]
      <3>1. tree \in Seq(Sessions) /\ Len(tree) \in Nat
        BY LenProperties
      <3>2. CASE tree = <<>>
        BY <1>1, <3>2 DEF Subscribed
      <3>3. CASE tree # <<>>
        <4>1. Len(tree) = 1 /\ Head(tree) = tree[1]
          BY <1>1, <3>1, <3>3, ShortTree
        <4>2. Subscribed(s, Key(j)) <=> tree[1] = s
          BY <4>1 DEF Subscribed
        <4>3. Target(j)' = tree[1]
          BY <1>1, <4>1 DEF Target
        <4>4. QED
          BY <1>1, <3>3, <4>2, <4>3
      <3>4. QED
        BY <3>2, <3>3
    <2>2. Key(j)' = Key(j) /\ pc[j] = "locked" /\ pc'[j] \in {"unlock", "remkey"}
      BY <1>1
    <2>3. ASSUME NEW k \in Keys, NEW labels, labels \in {{"remkey"}, {"remkey", "dec", "decstore"}}
          PROVE  Deleting(s, k, labels)' <=>
                   Deleting(s, k, labels) \/ (k = Key(j) /\ Subscribed(s, k))
      <3>1. pc[j] \notin labels /\ (pc'[j] \in labels <=> pc'[j] = "remkey")
        BY <2>2, <2>3
      <3>2. QED
        BY <2>1, <2>2, <3>1, DeletingStep
    <2>4. QED
      BY <2>3
  <1>4. pc[s] \in SessionHolds => Key(s) # Key(j)
    BY <1>1, Exclusion, ActorFacts DEF IInv, JobHolds
  <1>5. Key(s) \in Keys
    BY ActorFacts, KeyFacts DEF IInv, TypeInv
  <1>6. \A k \in Keys : (Listed(s, k)' <=> Listed(s, k)) /\ (IsCounted(s, k)' <=> IsCounted(s, k))
    BY <1>2, <1>3, <1>4 DEF Listed, IsCounted, Pending, SessionHolds
  <1>7. Trees(s)' /\ Counter(s)'
    BY <1>1, <1>5, <1>6, CounterStep DEF Trees
  <1>8. Serving(s)'
    BY <1>1, <1>2, <1>4, <1>5 DEF Serving, Pending, SessionHolds
  <1>9. QED
    BY <1>7, <1>8

(* A DELETE that visits a session is alone with its key. *)
LEMMA VisitFacts ==
  ASSUME IInv, NEW j \in Jobs, pc[j] \in {"remkey", "dec", "decstore"}
  PROVE  /\ Target(j) \in Sessions
         /\ \A s \in Sessions : /\ ~Subscribed(s, Key(j))
                                /\ pc[s] \in SessionHolds => Key(s) # Key(j)
         /\ \A s : /\ ~Others(j, s, Key(j), {"remkey"})
                  /\ ~Others(j, s, Key(j), {"remkey", "dec", "decstore"})
  <1> USE JobFacts
  <1>1. Target(j) \in Sessions
    BY HeadTailProperties DEF Target, JobRoles
  <1>2. \A s \in Sessions : ~Subscribed(s, Key(j))
    BY DEF IInv, ToldInv, Told
  <1>3. \A s \in Sessions : pc[s] \in SessionHolds => Key(s) # Key(j)
    BY Exclusion, ActorFacts DEF IInv, JobHolds
  <1>4. \A i \in Jobs \ {j} : pc[i] \in {"remkey", "dec", "decstore"} => Key(i) # Key(j)
    BY Exclusion, ActorFacts DEF IInv, JobHolds
  <1>5. QED
    BY <1>1, <1>2, <1>3, <1>4 DEF Others

(* The visit takes the key out of the tree of the session. *)
LEMMA JobRemoveBooks ==
  ASSUME IInv, NEW j \in Jobs, JobStep(j), RemoveKey(j), ~damaged',
         NEW s \in Sessions, Trees(s), Counter(s), Serving(s)
  PROVE  Trees(s)' /\ Counter(s)' /\ Serving(s)'
  <1> USE JobFacts, JobBooksFrame
  <1>1. /\ pc[j] = "remkey" /\ pc'[j] = "dec" /\ Key(j)' = Key(j) /\ Target(j)' = Target(j)
        /\ numSubs' = numSubs /\ req' = req
    BY DEF RemoveKey, Goto, Key, Target
  <1>2. \A k \in Keys : Subscribed(s, k)' <=> Subscribed(s, k)
    BY TreeKept DEF RemoveKey
  <1>3. \A k \in Keys : k \in sessKeys'[s] <=> k \in sessKeys[s] /\ ~(s = Target(j) /\ k = Key(j))
    BY <1>1, VisitFacts DEF RemoveKey
  <1>4. \A k \in Keys : /\ Deleting(s, k, {"remkey"})' <=>
                             Deleting(s, k, {"remkey"}) /\ ~(s = Target(j) /\ k = Key(j))
                        /\ Deleting(s, k, {"remkey", "dec", "decstore"})' <=> Deleting(s, k, {"remkey", "dec", "decstore"})
    BY <1>1, VisitFacts, DeletingStep
  <1>5. ~Subscribed(s, Key(j)) /\ (pc[s] \in SessionHolds => Key(s) # Key(j)) /\ Key(s) \in Keys
    BY <1>1, VisitFacts, ActorFacts, KeyFacts DEF IInv, TypeInv
  <1>6. \A k \in Keys : /\ Listed(s, k)' <=> Listed(s, k) /\ ~(s = Target(j) /\ k = Key(j))
                        /\ IsCounted(s, k)' <=> IsCounted(s, k)
    BY <1>2, <1>4, <1>5 DEF Listed, IsCounted, SessionHolds
  <1>7. Trees(s)' /\ Counter(s)'
    BY <1>1, <1>3, <1>5, <1>6, CounterStep DEF Trees
  <1>8. ~(s = Target(j) /\ pc[s] = "again" /\ req[s].op = "SUBSCRIBE" /\ Key(s) = Key(j))
    <2>1. ASSUME s = Target(j), pc[s] = "again", req[s].op = "SUBSCRIBE", Key(s) = Key(j)
          PROVE  FALSE
      <3>1. req[s] = [op |-> "SUBSCRIBE", key |-> Key(j)]
        BY <2>1, ActorFacts DEF Key
      <3>2. QED
        BY <2>1, <3>1 DEF RemoveKey
    <2>2. QED
      BY <2>1
  <1>9. Serving(s)'
    BY <1>1, <1>2, <1>3, <1>5, <1>8 DEF Serving, SessionHolds
  <1>10. QED
    BY <1>7, <1>9

(* The visit reads the counter of the session. *)
LEMMA JobLoadBooks ==
  ASSUME IInv, NEW j \in Jobs, JobStep(j), DecLoad(j),
         NEW s \in Sessions, Trees(s), Counter(s), Serving(s)
  PROVE  Trees(s)' /\ Counter(s)' /\ Serving(s)'
  <1> USE JobFacts, JobBooksFrame
  <1>1. /\ pc[j] = "dec" /\ pc'[j] = "decstore" /\ Key(j)' = Key(j) /\ Target(j)' = Target(j)
        /\ sessKeys' = sessKeys /\ numSubs' = numSubs /\ keySubs' = keySubs
    BY DEF DecLoad, Goto, Key, Target, books
  <1>2. \A k \in Keys : Subscribed(s, k)' <=> Subscribed(s, k)
    BY <1>1, TreeKept
  <1>3. \A k \in Keys :
          /\ Deleting(s, k, {"remkey"})' <=> Deleting(s, k, {"remkey"})
          /\ Deleting(s, k, {"remkey", "dec", "decstore"})' <=>
               Deleting(s, k, {"remkey", "dec", "decstore"})
    BY <1>1, DeletingStep
  <1>4. \A k \in Keys : (Listed(s, k)' <=> Listed(s, k)) /\ (IsCounted(s, k)' <=> IsCounted(s, k))
    BY <1>2, <1>3 DEF Listed, IsCounted
  <1>5. Key(s) \in Keys
    BY ActorFacts, KeyFacts DEF IInv, TypeInv
  <1>6. Trees(s)' /\ Counter(s)'
    BY <1>1, <1>4, <1>5, CounterStep DEF Trees
  <1>7. Serving(s)'
    BY <1>1, <1>2, <1>5 DEF Serving
  <1>8. QED
    BY <1>6, <1>7

(* The visit counts the session down. *)
LEMMA JobDecBooks ==
  ASSUME IInv, OneVisit, CountFresh, NEW j \in Jobs, JobStep(j), DecStore(j), ~damaged',
         NEW s \in Sessions, Trees(s), Counter(s), Serving(s)
  PROVE  Trees(s)' /\ Counter(s)' /\ Serving(s)'
  <1> USE JobFacts, JobBooksFrame
  <1>1. pc[j] = "decstore" /\ pc'[j] = "unlock" /\ sessKeys' = sessKeys
    <2>1. pc[j] = "decstore" /\ sessKeys' = sessKeys
      BY DEF DecStore
    <2>2. Len(todo[j]) = 1
      BY <2>1 DEF OneVisit
    <2>3. pc'[j] = "unlock"
      BY <2>2 DEF DecStore, Goto
    <2>4. QED
      BY <2>1, <2>3
  <1>2. \A k \in Keys : Subscribed(s, k)' <=> Subscribed(s, k)
    BY TreeKept DEF DecStore
  <1>3. numSubs'[s] = IF s = Target(j) THEN numSubs[s] - 1 ELSE numSubs[s]
    <2>1. Target(j) \in Sessions
      BY <1>1, VisitFacts
    <2>2. loaded[j] = numSubs[Target(j)]
      BY <1>1, <2>1 DEF CountFresh, IsCountingDown
    <2>3. QED
      BY <2>1, <2>2 DEF DecStore
  <1>4. ASSUME NEW k \in Keys
        PROVE  /\ Deleting(s, k, {"remkey"})' <=> Deleting(s, k, {"remkey"})
               /\ Deleting(s, k, {"remkey", "dec", "decstore"})' <=>
                    Deleting(s, k, {"remkey", "dec", "decstore"}) /\ ~(s = Target(j) /\ k = Key(j))
    <2>1. Deleting(s, k, {"remkey"})' <=> Deleting(s, k, {"remkey"})
      BY <1>1, DeletingStep
    <2>2. Deleting(s, k, {"remkey", "dec", "decstore"})' <=> Others(j, s, k, {"remkey", "dec", "decstore"})
      BY <1>1, DeletingStep
    <2>3. Deleting(s, k, {"remkey", "dec", "decstore"}) <=>
            Others(j, s, k, {"remkey", "dec", "decstore"}) \/ (s = Target(j) /\ k = Key(j))
      BY <1>1, DeletingStep
    <2>4. ~Others(j, s, Key(j), {"remkey", "dec", "decstore"})
      BY <1>1, VisitFacts
    <2>5. QED
      BY <2>1, <2>2, <2>3, <2>4
  <1>5. ~Subscribed(s, Key(j)) /\ (pc[s] \in SessionHolds => Key(s) # Key(j)) /\ Key(s) \in Keys
    BY <1>1, VisitFacts, ActorFacts, KeyFacts DEF IInv, TypeInv
  <1>6. \A k \in Keys : /\ Listed(s, k)' <=> Listed(s, k)
                        /\ IsCounted(s, k)' <=> IsCounted(s, k) /\ ~(s = Target(j) /\ k = Key(j))
    BY <1>2, <1>4, <1>5 DEF Listed, IsCounted, SessionHolds
  <1>7. s = Target(j) => IsCounted(s, Key(j))
    BY <1>1 DEF IsCounted, Deleting
  <1>8. Trees(s)'
    BY <1>1, <1>6 DEF Trees
  <1>9. Counter(s)'
    BY <1>3, <1>5, <1>6, <1>7, CounterStep, ZenonT(60)
  <1>10. s = Target(j) => pc[s] # "incstore"
    BY DEF DecStore
  <1>11. Serving(s)'
    BY <1>1, <1>2, <1>3, <1>5, <1>10 DEF Serving, Pending
  <1>12. QED
    BY <1>8, <1>9, <1>11

(* The steps of a job keep the books of every session right. *)
LEMMA JobBooksStep ==
  ASSUME IInv, CountInv, BooksInv, NEW j \in Jobs, JobStep(j)
  PROVE  BooksInv'
  <1> SUFFICES ASSUME ~damaged'
               PROVE  OneVisit' /\ \A s \in Sessions : Trees(s)' /\ Counter(s)' /\ Serving(s)'
    BY DEF BooksInv
  <1>1. ~damaged
    BY DamageStays DEF IInv, Next
  <1>2. OneVisit /\ \A s \in Sessions : Trees(s) /\ Counter(s) /\ Serving(s)
    BY <1>1 DEF BooksInv
  <1>3. OneVisit'
    <2>1. \A i \in Jobs \ {j} : pc'[i] \in {"remkey", "dec", "decstore"} => Len(todo'[i]) = 1
      BY <1>2, JobFrame, ActorFacts DEF OneVisit, IInv
    <2>2. pc'[j] \in {"remkey", "dec", "decstore"} => Len(todo'[j]) = 1
      <3> USE JobFacts
      <3>1. CASE DeletePair(j)
        <4> DEFINE tree == keySubs[Key(j)]
        <4>1. tree \in Seq(Sessions) /\ ~(Len(tree) > 1)
          BY <3>1 DEF DeletePair
        <4>2. todo'[j] = tree /\ (tree = <<>> => pc'[j] = "unlock")
          BY <3>1, <4>1, ShortTree DEF DeletePair, Goto
        <4>3. QED
          BY <4>1, <4>2, ShortTree
      <3>2. CASE RemoveKey(j)
        BY <1>2, <3>2 DEF RemoveKey, OneVisit
      <3>5. CASE DecLoad(j)
        BY <1>2, <3>5 DEF DecLoad, OneVisit
      <3>3. CASE DecStore(j)
        <4>1. Len(todo[j]) = 1
          BY <1>2, <3>3 DEF DecStore, OneVisit
        <4>2. pc'[j] = "unlock"
          BY <3>3, <4>1 DEF DecStore, Goto
        <4>3. QED
          BY <4>2
      <3>4. CASE Begin(j) \/ WrLockList(j) \/ WritePair(j) \/ WrUnlockList(j)
        BY <3>4 DEF Begin, WrLockList, WritePair, WrUnlockList, Goto, Finish
      <3>6. QED
        BY <3>1, <3>2, <3>3, <3>4, <3>5 DEF JobStep
    <2>3. QED
      BY <2>1, <2>2 DEF OneVisit
  <1>4. \A s \in Sessions : Trees(s)' /\ Counter(s)' /\ Serving(s)'
    <2>1. CountFresh
      BY <1>1 DEF CountInv
    <2>2. QED
      BY <1>2, <2>1, JobQuietStep, DeleteBooks, JobRemoveBooks, JobLoadBooks, JobDecBooks
         DEF JobStep
  <1>5. QED
    BY <1>3, <1>4

-----------------------------------------------------------------------------
(* Nobody counts down when the server starts. *)
LEMMA CountInit == Init => CountInv
  BY ActorFacts DEF Init, CountInv, CountAlone, CountFresh, IsCountingDown

(* Whoever is inside dec_num_subs after a step was there before it, or has  *)
(* just locked the mutex and read the counter.                             *)
LEMMA CountFrame ==
  ASSUME IInv, [Next]_vars, NEW a \in Actors, NEW s \in Sessions, IsCountingDown(a, s)'
  PROVE  \/ IsCountingDown(a, s) /\ loaded'[a] = loaded[a]
         \/ /\ DecLoad(a) /\ Target(a) = s /\ loaded'[a] = numSubs[s]
            /\ numSubs' = numSubs /\ \A b \in Actors \ {a} : pc'[b] = pc[b] /\ todo'[b] = todo[b]
  <1>1. /\ pc \in [Actors -> Labels] /\ loaded \in [Actors -> Int]
        /\ Sessions \cap Jobs = {} /\ TypeInv /\ pc'[a] = "decstore"
    BY ActorFacts DEF IInv, TypeInv, TypeOK, IsCountingDown
  <1>2. CASE UNCHANGED vars
    BY <1>2 DEF vars, local, IsCountingDown, Target
  <1>3. ASSUME NEW b \in Actors, SessionStep(b) \/ JobStep(b), b # a,
               b \in Sessions => SessionStep(b), b \in Jobs => JobStep(b)
        PROVE  IsCountingDown(a, s) /\ loaded'[a] = loaded[a]
    <2>1. pc'[a] = pc[a] /\ todo'[a] = todo[a] /\ loaded'[a] = loaded[a]
      BY <1>1, <1>3, SessionFrame, JobFrame DEF Actors
    <2>2. QED
      BY <2>1 DEF IsCountingDown, Target
  <1>4. CASE a \in Sessions /\ SessionStep(a)
    <2>1. DecLoad(a)
      <3> USE <1>1, ActorFacts DEF Goto
      <3>1. ~(Request(a) \/ LockList(a) \/ SubscribeEnds(a) \/ SubscribePair(a) \/ AddKey(a))
        BY DEF Request, LockList, SubscribeEnds, SubscribePair, AddKey
      <3>2. ~(IncLoad(a) \/ IncStore(a) \/ UnsubscribeEnds(a) \/ UnsubscribePair(a))
        BY DEF IncLoad, IncStore, UnsubscribeEnds, UnsubscribePair
      <3>3. ~(UnlockList(a) \/ Again(a) \/ Reply(a) \/ Clean(a))
        BY DEF UnlockList, Again, Reply, Clean, Finish
      <3>4. ~(Disconnect(a) \/ WalkLock(a) \/ WalkVisit(a) \/ RemoveKey(a))
        BY DEF Disconnect, WalkLock, WalkVisit, RemoveKey
      <3>5. ~DecStore(a)
        BY DEF DecStore
      <3>6. QED
        BY <1>4, <3>1, <3>2, <3>3, <3>4, <3>5 DEF SessionStep
    <2>2. QED
      BY <1>1, <1>4, <2>1 DEF DecLoad, Goto, Target, IsCountingDown, books
  <1>5. CASE a \in Jobs /\ JobStep(a)
    <2>1. DecLoad(a)
      <3> USE <1>1, ActorFacts DEF Goto
      <3>1. ~(Begin(a) \/ WrLockList(a) \/ WritePair(a) \/ WrUnlockList(a))
        BY DEF Begin, WrLockList, WritePair, WrUnlockList, Finish
      <3>2. ~(DeletePair(a) \/ RemoveKey(a) \/ DecStore(a))
        BY DEF DeletePair, RemoveKey, DecStore
      <3>3. QED
        BY <1>5, <3>1, <3>2 DEF JobStep
    <2>2. QED
      BY <1>1, <1>5, <2>1 DEF DecLoad, Goto, Target, IsCountingDown, books
  <1>6. QED
    BY <1>1, <1>2, <1>3, <1>4, <1>5 DEF Next, Actors

(* The counter stands still while a thread is inside dec_num_subs for it. *)
LEMMA CounterKept ==
  ASSUME IInv, CountAlone, [Next]_vars, ~damaged', NEW a \in Actors, NEW s \in Sessions,
         IsCountingDown(a, s), IsCountingDown(a, s)'
  PROVE  numSubs'[s] = numSubs[s]
  <1> USE ActorFacts
  <1>1. /\ pc \in [Actors -> Labels] /\ numSubs \in [Sessions -> Int]
        /\ TypeInv /\ pc[a] = "decstore" /\ pc'[a] = "decstore" /\ Target(a) = s
    BY DEF IInv, TypeInv, TypeOK, IsCountingDown
  <1>2. a \in Jobs => pc[a] = "decstore" /\ \E i \in DOMAIN todo[a] : todo[a][i] = s
    <2>1. ASSUME a \in Jobs PROVE \E i \in DOMAIN todo[a] : todo[a][i] = s
      <3>1. todo[a] \in Seq(Sessions) /\ todo[a] # <<>> /\ a \notin Sessions
        BY <1>1, <2>1, JobFacts DEF JobRoles
      <3>2. s = todo[a][1] /\ 1 \in DOMAIN todo[a]
        BY <1>1, <3>1, LenProperties, EmptySeq DEF Target
      <3>3. QED
        BY <3>2
    <2>2. QED
      BY <1>1, <2>1
  <1>3. CASE \E t \in Sessions : SessionStep(t)
    <2>1. PICK t \in Sessions : SessionStep(t)
      BY <1>3
    <2>2. CASE t # s
      BY <1>1, <2>1, <2>2, SessionFrame
    <2>3. CASE t = s /\ DecStore(s)
      <3>1. pc[s] = "decstore" /\ pc'[s] # "decstore" /\ s \in Actors
        BY <1>1, <2>3 DEF DecStore, Goto
      <3>2. IsCountingDown(s, s)
        BY <3>1 DEF IsCountingDown, Target
      <3>3. QED
        BY <1>1, <3>1, <3>2 DEF CountAlone
    <2>4. CASE t = s /\ IncStore(s)
      BY <1>1, <1>2, <2>4 DEF IncStore, IsCountingDown, Actors, Target
    <2>5. CASE t = s /\ Clean(s)
      BY <1>1, <1>2, <2>5 DEF Clean, IsVisiting, Actors, Target
    <2>6. CASE t = s /\ ~DecStore(s) /\ ~IncStore(s) /\ ~Clean(s)
      BY <2>1, <2>6 DEF SessionStep, Request, LockList, SubscribeEnds,
         SubscribePair, AddKey, IncLoad, UnsubscribeEnds, UnsubscribePair,
         UnlockList, Again, Reply, Disconnect, WalkLock, WalkVisit, RemoveKey, DecLoad, books
    <2>7. QED
      BY <2>2, <2>3, <2>4, <2>5, <2>6
  <1>4. CASE \E j \in Jobs : JobStep(j)
    <2>1. PICK j \in Jobs : JobStep(j)
      BY <1>4
    <2>2. CASE DecStore(j)
      <3>1. pc[j] = "decstore" /\ pc'[j] # "decstore"
        BY <1>1, <2>2 DEF DecStore, Goto
      <3>2. ~IsCountingDown(j, s)
        BY <1>1, <3>1 DEF CountAlone
      <3>3. Target(j) # s
        BY <3>1, <3>2 DEF IsCountingDown
      <3>4. QED
        BY <1>1, <2>2, <3>3 DEF DecStore
    <2>3. CASE ~DecStore(j)
      BY <2>1, <2>3 DEF JobStep, Begin, WrLockList, WritePair, DeletePair, RemoveKey, DecLoad,
         WrUnlockList, books
    <2>4. QED
      BY <2>2, <2>3
  <1>5. CASE UNCHANGED vars
    BY <1>5 DEF vars, books
  <1>6. QED
    BY <1>3, <1>4, <1>5 DEF Next

(* dec_num_subs is alone with the counter, but for inc_num_subs and for the *)
(* cleaning of the session, which damage the books.                        *)
LEMMA CountStep == IInv /\ CountInv /\ [Next]_vars => CountInv'
  <1> SUFFICES ASSUME IInv, CountInv, [Next]_vars PROVE CountInv'
    OBVIOUS
  <1>1. CountAlone'
    <2>1. ASSUME NEW a \in Actors, NEW b \in Actors, NEW s \in Sessions,
                 IsCountingDown(a, s)', IsCountingDown(b, s)', a # b
          PROVE  FALSE
      <3>1. ~(IsCountingDown(a, s) /\ IsCountingDown(b, s))
        BY <2>1 DEF CountInv, CountAlone
      <3>2. ~(DecLoad(a) /\ Target(a) = s /\ IsCountingDown(b, s))
        BY DEF DecLoad
      <3>3. ~(DecLoad(b) /\ Target(b) = s /\ IsCountingDown(a, s))
        BY DEF DecLoad
      <3>4. ~(DecLoad(a) /\ DecLoad(b) /\ pc'[b] = pc[b])
        BY <2>1 DEF DecLoad, IsCountingDown
      <3>5. QED
        BY <2>1, <3>1, <3>2, <3>3, <3>4, CountFrame
    <2>2. QED
      BY <2>1 DEF CountAlone
  <1>2. ASSUME ~damaged', NEW a \in Actors, NEW s \in Sessions, IsCountingDown(a, s)',
               IsCountingDown(a, s), loaded'[a] = loaded[a]
        PROVE  loaded'[a] = numSubs'[s]
    <2>1. loaded[a] = numSubs[s]
      BY <1>2, DamageStays DEF CountInv, CountFresh, IInv
    <2>2. numSubs'[s] = numSubs[s]
      BY <1>1, <1>2, CounterKept DEF CountInv
    <2>3. QED
      BY <1>2, <2>1, <2>2
  <1>3. ASSUME ~damaged' PROVE CountFresh'
    BY <1>2, <1>3, CountFrame, SMTT(30) DEF CountFresh
  <1>4. QED
    BY <1>1, <1>3 DEF CountInv

(* The books are inductive, as long as DELETE has not damaged them. *)
LEMMA BooksStep == IInv /\ CountInv /\ BooksInv /\ [Next]_vars => BooksInv'
  <1>1. CASE UNCHANGED vars
    <2>1. /\ pc' = pc /\ req' = req /\ todo' = todo /\ result' = result /\ loaded' = loaded
          /\ keySubs' = keySubs /\ sessKeys' = sessKeys /\ numSubs' = numSubs
          /\ damaged' = damaged
      BY <1>1 DEF vars, books, local, history
    <2>2. \A a : Key(a)' = Key(a) /\ Target(a)' = Target(a)
      BY <2>1 DEF Key, Target
    <2>3. \A s, k : /\ Subscribed(s, k)' <=> Subscribed(s, k)
                    /\ Deleting(s, k, {"remkey"})' <=> Deleting(s, k, {"remkey"})
                    /\ Deleting(s, k, {"remkey", "dec", "decstore"})' <=> Deleting(s, k, {"remkey", "dec", "decstore"})
      BY <2>1, <2>2 DEF Subscribed, Deleting
    <2>4. \A s, k : (Listed(s, k)' <=> Listed(s, k)) /\ (IsCounted(s, k)' <=> IsCounted(s, k))
      BY <2>1, <2>2, <2>3 DEF Listed, IsCounted
    <2>5. \A s \in Sessions : /\ Counted(s)' = Counted(s) /\ (Trees(s)' <=> Trees(s))
                              /\ Serving(s)' <=> Serving(s)
      BY <2>1, <2>2, <2>3, <2>4 DEF Counted, Trees, Serving
    <2>6. OneVisit' <=> OneVisit
      BY <2>1 DEF OneVisit
    <2>7. QED
      BY <2>1, <2>5, <2>6 DEF BooksInv, Counter
  <1>2. QED
    BY <1>1, SessionBooksStep, JobBooksStep DEF Next

(* The books are right in every state the server can reach undamaged. *)
LEMMA BooksInvariance == Spec => [](IInv /\ BooksInv)
  <1>1. Init => CountInv /\ BooksInv
    BY CountInit, BooksInit
  <1>2. IInv /\ CountInv /\ BooksInv /\ [Next]_vars => CountInv' /\ BooksInv'
    BY CountStep, BooksStep
  <1>3. QED
    BY <1>1, <1>2, Invariance, PTL DEF Spec

(* In a settled session nothing is under way. *)
LEMMA SettledBooks == IInv /\ BooksInv => BooksAgreeUnlessDamaged
  <1> SUFFICES ASSUME IInv, BooksInv, ~damaged, NEW s \in Sessions, Settled(s)
               PROVE  /\ sessKeys[s] = Subscriptions(s)
                      /\ numSubs[s] = Cardinality(Subscriptions(s))
                      /\ numSubs[s] <= MaxSubs
    BY DEF BooksAgreeUnlessDamaged
  <1>1. Trees(s) /\ Counter(s) /\ Serving(s) /\ pc[s] = "idle"
    BY DEF BooksInv, Settled
  <1>2. \A j \in Jobs : pc[j] \in {"remkey", "dec", "decstore"} => Target(j) # s
    <2>1. ASSUME NEW j \in Jobs, pc[j] \in {"remkey", "dec", "decstore"} PROVE Target(j) # s
      <3>1. todo[j] \in Seq(Sessions) /\ todo[j] # <<>> /\ j \notin Sessions
        BY <2>1, JobFacts DEF JobRoles
      <3>2. Target(j) = todo[j][1] /\ 1 \in DOMAIN todo[j]
        BY <3>1, LenProperties, EmptySeq DEF Target
      <3>3. QED
        BY <2>1, <3>2 DEF Settled, IsVisiting
    <2>2. QED
      BY <2>1
  <1>3. \A k \in Keys : (Listed(s, k) <=> Subscribed(s, k)) /\ (IsCounted(s, k) <=> Subscribed(s, k))
    BY <1>1, <1>2 DEF Listed, IsCounted, Deleting, Pending
  <1>4. sessKeys[s] \subseteq Keys
    BY SessionFacts
  <1>5. Counted(s) = Subscriptions(s) /\ sessKeys[s] = Subscriptions(s)
    BY <1>1, <1>3, <1>4 DEF Counted, Subscriptions, Trees
  <1>6. numSubs[s] <= MaxSubs
    <2>1. pc[s] \notin Pending
      BY <1>1 DEF Pending
    <2>2. numSubs[s] + 0 <= MaxSubs
      BY <1>1, <2>1 DEF Serving
    <2>3. QED
      BY <2>2, SessionFacts
  <1>7. QED
    BY <1>1, <1>5, <1>6 DEF Counter

(* The tree of the key, the tree of the session and the counter agree in    *)
(* every quiet state: the three updates of kvs.c and operations.c, made    *)
(* under different locks, drift apart only when a DELETE meets a key with  *)
(* two subscribers, is undone by the second add_key_session_avl, or         *)
(* counts down across inc_num_subs or across the cleaning of a session.    *)
THEOREM BooksAgree == Spec => []BooksAgreeUnlessDamaged
  BY BooksInvariance, SettledBooks, PTL

(* The walk of a DISCONNECT never meets a key that is not in the table, so  *)
(* client_thread does not send the answer of the failure before the other. *)
THEOREM OneAnswerToDisconnect == Spec => []DisconnectAnsweredOnce
  <1>1. IInv /\ BooksInv => DisconnectAnsweredOnce
    BY DEF IInv, BooksInv, Serving, TypeInv, SessionRoles, DisconnectAnsweredOnce
  <1>2. QED
    BY <1>1, BooksInvariance, PTL
=============================================================================
