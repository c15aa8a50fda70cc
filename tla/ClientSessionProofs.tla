------------------------ MODULE ClientSessionProofs ------------------------
(***************************************************************************)
(* Theorems about ClientSession, for any number of clients and sessions    *)
(* and any input, in three layers, each inductive on top of the ones       *)
(* before it.  DataInv holds always, SIGUSR1 or not: types, whose the open *)
(* descriptors are, where a client is, and what is read and answered.      *)
(* OrderInv holds until SIGUSR1: who is served, and why a session has      *)
(* freed the data of its client.  StrongInv holds until SIGUSR1 or the     *)
(* death of a client on its session: whose descriptor a subscription       *)
(* keeps, and the one message between a client and its session.            *)
(***************************************************************************)
EXTENDS ClientSession, FiniteSetTheorems, SequenceTheorems, WellFoundedInduction, TLAPS

-----------------------------------------------------------------------------
(* Types *)

CLabels == Kinds \cup {"start", "connect", "check", "idle", "await", "join", "ended", "dead"}
SLabels == Kinds \cup {"take", "greet", "setinfo", "loop", "reading", "eof", "do", "lock",
                       "answer", "clean", "hung"}

(* TypeOK, with what the pipes and the queue are sequences of, and the     *)
(* trees of the keys finite.                                               *)
ClientType ==
  /\ cpc \in [Clients -> CLabels]
  /\ npc \in [Clients -> {"none", "read", "kill", "store", "done"}]
  /\ terminate \in [Clients -> BOOLEAN]
  /\ sent \in [Clients -> Messages]
  /\ left \in [Clients -> Nat] /\ \A c \in Clients : left[c] <= MaxRequests[c]
  /\ pipe \in [Clients \X Kinds -> Seq(Messages)]
  /\ blank \subseteq Clients

DataType ==
  /\ fds \in [Fds -> (Clients \X Kinds) \cup {NoPipe}]
  /\ fdOf \in [Clients -> [Kinds -> Fds \cup {0}]]
  /\ freed \subseteq Clients
  /\ info \in [Sessions -> Clients \cup {NoClient}]

BookType ==
  /\ sessKeys \in [Sessions -> SUBSET Keys]
  /\ keySubs \in [Keys -> SUBSET [session : Sessions, fd : Fds, owner : Clients]]
  /\ \A k \in Keys : IsFiniteSet(keySubs[k])
  /\ kept \subseteq Keys

SessionType ==
  /\ pc \in [Sessions -> SLabels]
  /\ at \in [Sessions -> Clients \cup {NoClient}]
  /\ \A s \in Sessions : pc[s] = "take" <=> at[s] = NoClient
  /\ msg \in [Sessions -> Messages]

MainType ==
  /\ mainPc \in {"enter", "read", "add", "tree", "data"} /\ mainAt \in Sessions
  /\ inbox \subseteq Clients /\ queue \in Seq(Clients) /\ places \in Nat
  /\ newcomer \in inbox \cup {NoClient} /\ (mainPc = "add" <=> newcomer # NoClient)
  /\ notes \in 0..MaxNotes
  /\ fault \in BOOLEAN /\ sigFlag \in BOOLEAN /\ signalled \in BOOLEAN /\ late \in BOOLEAN

Types == ClientType /\ DataType /\ BookType /\ SessionType /\ MainType

(* What the session threads have opened, and the labels at which the data  *)
(* of the client are in clients_data.                                      *)
Opened(s) ==
  IF pc[s] \in {"take", "resp"} THEN {}
  ELSE IF pc[s] = "req" THEN {"resp"}
  ELSE IF pc[s] = "notif" THEN {"resp", "req"}
  ELSE Kinds
Serving == {"loop", "reading", "eof", "do", "lock", "answer", "clean", "hung"}

(* The descriptors that are open are those the data of the clients of the  *)
(* sessions name.                                                          *)
FdInv ==
  /\ \A f \in Fds : fds[f] # NoPipe =>
       \E s \in Sessions :
         /\ at[s] = fds[f][1] /\ at[s] \notin freed
         /\ fds[f][2] \in Opened(s) /\ fdOf[at[s]][fds[f][2]] = f
  /\ \A s \in Sessions : at[s] \notin freed =>
       \A k \in Opened(s) :
         fdOf[at[s]][k] \in Fds /\ fds[fdOf[at[s]][k]] = <<at[s], k>>

(* A client is in the server pipe, in the queue, with one session, or its  *)
(* data were freed.                                                        *)
Queued(c) == \E i \in DOMAIN queue : queue[i] = c

PlaceInv ==
  /\ \A s, u \in Sessions : s # u /\ at[s] # NoClient => at[s] # at[u]
  /\ \A s \in Sessions : at[s] # NoClient =>
       cpc[at[s]] # "start" /\ at[s] \notin inbox /\ ~Queued(at[s])
  /\ \A c \in inbox : c \notin freed /\ cpc[c] # "start" /\ ~Queued(c)
  /\ \A i, j \in DOMAIN queue : queue[i] = queue[j] => i = j
  /\ \A i \in DOMAIN queue : queue[i] \notin freed /\ cpc[queue[i]] # "start"
  /\ \A c \in freed : cpc[c] # "start"
  /\ \A s \in Sessions : at[s] \in freed => pc[s] \in Serving

(* clients_data names the client of the session, or data that were freed.  *)
InfoInv ==
  \A s \in Sessions :
    /\ pc[s] \in Serving => info[s] = at[s]
    /\ info[s] # NoClient => cpc[info[s]] # "start"
    /\ info[s] # NoClient /\ info[s] \notin freed => at[s] = info[s] /\ pc[s] \in Serving

(* What a client sends is a request of its own. *)
IsRequest(m, c) ==
  /\ m.op \in {"SUBSCRIBE", "UNSUBSCRIBE", "DISCONNECT"} /\ m.owner = c
  /\ m.op # "DISCONNECT" => m.key \in Keys

RequestInv ==
  /\ \A c \in Clients : \A i \in DOMAIN pipe[<<c, "req">>] : IsRequest(pipe[<<c, "req">>][i], c)
  /\ \A s \in Sessions : pc[s] \in {"do", "lock", "answer"} => IsRequest(msg[s], at[s])

(* A session that waits for the list of a key has a descriptor to enter    *)
(* there.                                                                  *)
LockInv ==
  \A s \in Sessions : pc[s] = "lock" => msg[s].op = "SUBSCRIBE" /\ fdOf[at[s]]["notif"] \in Fds

(* main cleans the sessions because of SIGUSR1. *)
SigInv == sigFlag \/ mainPc \in {"tree", "data"} => signalled

DataInv == Types /\ FdInv /\ PlaceInv /\ InfoInv /\ RequestInv /\ LockInv /\ SigInv

-----------------------------------------------------------------------------
(* The operators of the model *)

(* A non-empty set of numbers has a least one. *)
LEMMA LeastNumber ==
  ASSUME NEW S \in SUBSET Nat, S # {}
  PROVE  \E m \in S : \A n \in S : m <= n
  <1> DEFINE R == OpToRel(<, Nat)
  <1>1. PICK m \in S : \A n \in S : <<n, m>> \notin R
    <2> HIDE DEF R
    <2>1. IsWellFoundedOn(R, Nat)
      BY NatLessThanWellFounded DEF R
    <2>2. QED
      BY <2>1, WFMin
  <1>2. ASSUME NEW n \in S
        PROVE  m <= n
    <2>1. n \in Nat /\ m \in Nat /\ ~(n < m)
      BY <1>1 DEF OpToRel
    <2>2. QED
      BY <2>1
  <1>3. QED
    BY <1>2

(* open() takes a free descriptor, if there is one. *)
LEMMA LowestFreeFacts ==
  ASSUME NEW g \in Fds, fds[g] = NoPipe
  PROVE  LowestFree \in Fds /\ fds[LowestFree] = NoPipe
  <1> DEFINE S == {f \in Fds : fds[f] = NoPipe}
  <1>1. S \in SUBSET Nat /\ S # {}
    BY DEF Fds
  <1>2. \E f \in S : \A h \in S : f <= h
    <2> HIDE DEF S
    <2>1. QED
      BY <1>1, LeastNumber
  <1>3. \E f \in Fds : fds[f] = NoPipe /\ \A h \in Fds : fds[h] = NoPipe => f <= h
    BY <1>2
  <1>4. QED
    BY <1>3 DEF LowestFree

(* There are as many descriptors as sessions have pipes. *)
LEMMA FdsFacts ==
  /\ IsFiniteSet(Fds) /\ IsFiniteSet(Sessions \X Kinds)
  /\ Cardinality(Fds) = Cardinality(Sessions \X Kinds)
  <1>0. SessionCount \in Nat \ {0}
    BY SessionAssumption
  <1>1. IsFiniteSet(Fds) /\ Cardinality(Fds) = 3 * SessionCount
    <2>1. 3 * SessionCount \in Nat /\ 3 * SessionCount >= 1
      BY <1>0
    <2>2. QED
      BY <2>1, FS_Interval DEF Fds
  <1>2. IsFiniteSet(Sessions) /\ Cardinality(Sessions) = SessionCount
    <2>1. SessionCount - 1 \in Int /\ 0 \in Int
      BY <1>0
    <2>2. QED
      BY <1>0, <2>1, FS_Interval DEF Sessions
  <1>3. IsFiniteSet(Kinds) /\ Cardinality(Kinds) = 3
    <2>1. IsFiniteSet({"resp"}) /\ Cardinality({"resp"}) = 1
      BY FS_Singleton
    <2>2. IsFiniteSet({"resp", "req"}) /\ Cardinality({"resp", "req"}) = 2
      <3>1. {"resp", "req"} = {"resp"} \cup {"req"} /\ "req" \notin {"resp"}
        OBVIOUS
      <3>2. QED
        BY <2>1, <3>1, FS_AddElement
    <2>3. Kinds = {"resp", "req"} \cup {"notif"} /\ "notif" \notin {"resp", "req"}
      BY DEF Kinds
    <2>4. QED
      BY <2>2, <2>3, FS_AddElement
  <1>4. IsFiniteSet(Sessions \X Kinds) /\ Cardinality(Sessions \X Kinds) = SessionCount * 3
    BY <1>2, <1>3, FS_Product
  <1>5. QED
    BY <1>0, <1>1, <1>4

(* So a session that has a pipe to open finds a free one. *)
LEMMA FreeFd ==
  ASSUME DataType, FdInv, NEW s \in Sessions, pc[s] \in Kinds
  PROVE  \E f \in Fds : fds[f] = NoPipe
  <1> SUFFICES ASSUME \A f \in Fds : fds[f] # NoPipe PROVE FALSE
    OBVIOUS
  <1> DEFINE Owner(f) == CHOOSE u \in Sessions :
               /\ at[u] = fds[f][1] /\ fds[f][2] \in Opened(u) /\ fdOf[at[u]][fds[f][2]] = f
             M == [f \in Fds |-> <<Owner(f), fds[f][2]>>]
  <1>1. ASSUME NEW f \in Fds
        PROVE  /\ Owner(f) \in Sessions /\ at[Owner(f)] = fds[f][1]
               /\ fds[f][2] \in Opened(Owner(f)) /\ fdOf[at[Owner(f)]][fds[f][2]] = f
    <2>1. \E u \in Sessions :
            at[u] = fds[f][1] /\ fds[f][2] \in Opened(u) /\ fdOf[at[u]][fds[f][2]] = f
      BY DEF FdInv
    <2>2. QED
      BY <2>1
  <1>2. \A u \in Sessions : Opened(u) \subseteq Kinds
    BY DEF Opened, Kinds
  <1> HIDE DEF Owner
  <1>3. M \in [Fds -> Sessions \X Kinds]
    BY <1>1, <1>2
  <1>4. ASSUME NEW f \in Fds, NEW g \in Fds, M[f] = M[g]
        PROVE  f = g
    <2>1. Owner(f) = Owner(g) /\ fds[f][2] = fds[g][2]
      BY <1>4
    <2>2. QED
      BY <1>1, <2>1
  <1>5. ~\E f \in Fds : M[f] = <<s, pc[s]>>
    <2>1. pc[s] \notin Opened(s)
      BY DEF Opened, Kinds
    <2>2. QED
      BY <1>1, <2>1
  <1> HIDE DEF M
  <1>6. M \in Injection(Fds, Sessions \X Kinds)
    BY <1>3, <1>4 DEF Injection, IsInjective
  <1>7. M \in Surjection(Fds, Sessions \X Kinds)
    BY <1>6, FdsFacts, FS_Injection
  <1>8. <<s, pc[s]>> \in Sessions \X Kinds
    OBVIOUS
  <1>9. QED
    BY <1>5, <1>7, <1>8 DEF Surjection

(* A message is written behind what a pipe holds, and read before it. *)
LEMMA AppendFacts ==
  ASSUME NEW q \in Seq(Messages), NEW m \in Messages
  PROVE  /\ Append(q, m) \in Seq(Messages) /\ Append(q, m) # <<>>
         /\ Append(q, m)[Len(Append(q, m))] = m
         /\ \A i \in DOMAIN Append(q, m) : (i \in DOMAIN q /\ Append(q, m)[i] = q[i]) \/ Append(q, m)[i] = m
         /\ q = <<>> => Append(q, m) = <<m>>
  <1>1. /\ Len(q) \in Nat /\ DOMAIN q = 1..Len(q) /\ Append(q, m) \in Seq(Messages)
        /\ Len(Append(q, m)) = Len(q) + 1 /\ DOMAIN Append(q, m) = 1..(Len(q) + 1)
        /\ \A i \in 1..Len(q) : Append(q, m)[i] = q[i]
        /\ Append(q, m)[Len(q) + 1] = m
    BY AppendProperties, LenProperties
  <1>2. Append(q, m) # <<>>
    BY <1>1, EmptySeq
  <1>3. Append(q, m)[Len(Append(q, m))] = m
    BY <1>1
  <1>4. \A i \in DOMAIN Append(q, m) : (i \in DOMAIN q /\ Append(q, m)[i] = q[i]) \/ Append(q, m)[i] = m
    BY <1>1
  <1>5. Append(<<>>, m) = <<m>>
    OBVIOUS
  <1>6. QED
    BY <1>1, <1>2, <1>3, <1>4, <1>5

(* The first message of a pipe is read, and the others stay behind it. *)
LEMMA TailFacts ==
  ASSUME NEW q \in Seq(Messages), q # <<>>
  PROVE  /\ Head(q) \in Messages /\ Tail(q) \in Seq(Messages)
         /\ 1 \in DOMAIN q /\ Head(q) = q[1]
         /\ \A i \in DOMAIN Tail(q) : i + 1 \in DOMAIN q /\ Tail(q)[i] = q[i + 1]
         /\ Tail(q) # <<>> => Tail(q)[Len(Tail(q))] = q[Len(q)]
         /\ Tail(q) = <<>> => q[Len(q)] = Head(q)
  <1>1. /\ Len(q) \in Nat \ {0} /\ DOMAIN q = 1..Len(q) /\ Tail(q) \in Seq(Messages)
        /\ Len(Tail(q)) = Len(q) - 1 /\ \A i \in 1..Len(Tail(q)) : Tail(q)[i] = q[i + 1]
        /\ DOMAIN Tail(q) = 1..Len(Tail(q)) /\ Head(q) \in Messages /\ Head(q) = q[1]
    BY EmptySeq, LenProperties, HeadTailProperties
  <1>2. Tail(q) = <<>> <=> Len(q) = 1
    BY <1>1, EmptySeq, SMTT(30)
  <1>3. Tail(q) # <<>> => Tail(q)[Len(Tail(q))] = q[Len(q)]
    BY <1>1, <1>2
  <1>4. \A i \in DOMAIN Tail(q) : i + 1 \in DOMAIN q /\ Tail(q)[i] = q[i + 1]
    BY <1>1
  <1>5. QED
    BY <1>1, <1>2, <1>3, <1>4

(* write_all adds to the pipe the descriptor means, or to none. *)
LEMMA WritesFacts ==
  ASSUME ClientType, DataType, NEW f \in Fds, NEW m \in Messages
  PROVE  /\ Writes(f, m) \in [Clients \X Kinds -> Seq(Messages)]
         /\ \A p \in Clients \X Kinds : Writes(f, m)[p] = pipe[p] \/ Writes(f, m)[p] = Append(pipe[p], m)
         /\ \A p \in Clients \X Kinds : p # fds[f] => Writes(f, m)[p] = pipe[p]
         /\ \A c \in Clients : Writes(f, m)[<<c, "req">>] = pipe[<<c, "req">>]
         /\ \A c \in Clients : Alive(c) /\ fds[f] = <<c, "resp">> =>
              Writes(f, m)[<<c, "resp">>] = Append(pipe[<<c, "resp">>], m)
  <1>0. /\ pipe \in [Clients \X Kinds -> Seq(Messages)]
        /\ fds[f] \in (Clients \X Kinds) \cup {NoPipe}
        /\ \A p \in Clients \X Kinds : Append(pipe[p], m) \in Seq(Messages)
    BY AppendProperties DEF ClientType, DataType
  <1>1. CASE fds[f] # NoPipe /\ fds[f][2] # "req" /\ Alive(fds[f][1])
    <2>1. Writes(f, m) = [pipe EXCEPT ![fds[f]] = Append(@, m)] /\ fds[f] \in Clients \X Kinds
      BY <1>0, <1>1 DEF Writes
    <2> DEFINE q == fds[f]
    <2>2. \A c \in Clients : q # <<c, "req">>
      BY <1>1
    <2>3. \A c \in Clients : <<c, "req">> \in Clients \X Kinds /\ <<c, "resp">> \in Clients \X Kinds
      BY DEF Kinds
    <2>4. Writes(f, m) = [pipe EXCEPT ![q] = Append(@, m)] /\ q \in Clients \X Kinds
      BY <2>1
    <2> HIDE DEF q
    <2>5. /\ Writes(f, m) \in [Clients \X Kinds -> Seq(Messages)]
          /\ Writes(f, m)[q] = Append(pipe[q], m)
          /\ \A p \in Clients \X Kinds : p # q => Writes(f, m)[p] = pipe[p]
      BY <1>0, <2>4
    <2>6. /\ \A c \in Clients : Writes(f, m)[<<c, "req">>] = pipe[<<c, "req">>]
          /\ \A c \in Clients : q = <<c, "resp">> =>
               Writes(f, m)[<<c, "resp">>] = Append(pipe[<<c, "resp">>], m)
      BY <2>2, <2>3, <2>5
    <2>7. QED
      BY <2>5, <2>6 DEF q
  <1>2. CASE ~(fds[f] # NoPipe /\ fds[f][2] # "req" /\ Alive(fds[f][1]))
    <2>1. Writes(f, m) = pipe
      BY <1>2 DEF Writes
    <2>2. \A c \in Clients : fds[f] = <<c, "resp">> => ~Alive(c)
      <3>1. \A c \in Clients : <<c, "resp">> # NoPipe /\ <<c, "resp">>[2] # "req" /\ <<c, "resp">>[1] = c
        BY SessionAssumption DEF NoPipe
      <3>2. QED
        BY <1>2, <3>1
    <2>3. QED
      BY <1>0, <2>1, <2>2
  <1>3. QED
    BY <1>1, <1>2

(* SetToSeq lists a finite set. *)
LEMMA SetToSeqFacts ==
  ASSUME NEW S, NEW T, S \subseteq T, IsFiniteSet(S)
  PROVE  /\ SetToSeq(S) \in Seq(T)
         /\ \A i \in DOMAIN SetToSeq(S) : SetToSeq(S)[i] \in S
  <1>1. Cardinality(S) \in Nat /\ ExistsBijection(1..Cardinality(S), S)
    BY FS_CardinalityType
  <1>2. \E f \in [1..Cardinality(S) -> S] : IsInjective(f)
    BY <1>1 DEF ExistsBijection, Bijection, Injection
  <1>3. SetToSeq(S) \in [1..Cardinality(S) -> S]
    BY <1>2 DEF SetToSeq
  <1> DEFINE q == SetToSeq(S)
  <1>4. q \in [1..Cardinality(S) -> S]
    BY <1>3
  <1> HIDE DEF q
  <1>5. q \in Seq(T)
    BY <1>1, <1>4, SeqDef
  <1>6. \A i \in DOMAIN q : q[i] \in S
    BY <1>4
  <1>7. QED
    BY <1>5, <1>6 DEF q

(* A WRITE adds notes to pipes that descriptors in the tree of its key     *)
(* mean.                                                                   *)
LEMMA NotifyFacts ==
  ASSUME Types, NEW k \in Keys, Notify(k)
  PROVE  /\ pipe' \in [Clients \X Kinds -> Seq(Messages)]
         /\ \A c \in Clients : pipe'[<<c, "req">>] = pipe[<<c, "req">>]
         /\ \A p \in Clients \X Kinds :
              /\ \A i \in DOMAIN pipe'[p] :
                   \/ i \in DOMAIN pipe[p] /\ pipe'[p][i] = pipe[p][i]
                   \/ \E e \in keySubs[k] : fds[e.fd] = p /\ pipe'[p][i].owner = e.owner
              /\ pipe[p] # <<>> => pipe'[p] # <<>>
              /\ pipe'[p] # pipe[p] => \E e \in keySubs[k] : fds[e.fd] = p
  <1>0. /\ pipe \in [Clients \X Kinds -> Seq(Messages)]
        /\ IsFiniteSet(keySubs[k]) /\ keySubs[k] \subseteq [session : Sessions, fd : Fds, owner : Clients]
    BY DEF Types, ClientType, BookType
  <1> DEFINE E(p) == {x \in keySubs[k] : fds[x.fd] = p}
             N(p) == {Message("NOTE", k, e.owner) : e \in E(p)}
             new(p) == IF p[2] = "req" \/ ~Alive(p[1]) THEN pipe[p] ELSE pipe[p] \o SetToSeq(N(p))
  <1>1. pipe' = [p \in Clients \X Kinds |-> new(p)]
    BY <1>0 DEF Notify
  <1>2. ASSUME NEW p
        PROVE  /\ IsFiniteSet(N(p)) /\ N(p) \subseteq Messages
               /\ \A m \in N(p) : \E e \in keySubs[k] : fds[e.fd] = p /\ m.owner = e.owner
    <2>1. IsFiniteSet(E(p))
      BY <1>0, FS_Subset
    <2>2. IsFiniteSet(N(p))
      <3> DEFINE g == [e \in E(p) |-> Message("NOTE", k, e.owner)]
      <3>1. g \in Surjection(E(p), N(p))
        BY DEF Surjection
      <3> HIDE DEF g, E, N
      <3>2. QED
        BY <2>1, <3>1, FS_Surjection
    <2>3. \A e \in keySubs[k] : e.owner \in Clients
      BY <1>0
    <2>4. N(p) \subseteq Messages
      BY <2>3 DEF Message, Messages
    <2>5. \A m \in N(p) : \E e \in keySubs[k] : fds[e.fd] = p /\ m.owner = e.owner
      BY DEF Message
    <2>6. QED
      BY <2>2, <2>4, <2>5
  <1> HIDE DEF E, N
  <1>3. ASSUME NEW p \in Clients \X Kinds
        PROVE  /\ new(p) \in Seq(Messages)
               /\ \A i \in DOMAIN new(p) :
                    \/ i \in DOMAIN pipe[p] /\ new(p)[i] = pipe[p][i]
                    \/ \E e \in keySubs[k] : fds[e.fd] = p /\ new(p)[i].owner = e.owner
               /\ pipe[p] # <<>> => new(p) # <<>>
               /\ new(p) # pipe[p] => \E e \in keySubs[k] : fds[e.fd] = p
    <2> DEFINE old == pipe[p]
               add == SetToSeq(N(p))
    <2>0. old \in Seq(Messages) /\ DOMAIN old = 1..Len(old) /\ Len(old) \in Nat
      BY <1>0, LenProperties
    <2>1. add \in Seq(Messages) /\ \A i \in DOMAIN add : add[i] \in N(p)
      BY <1>2, SetToSeqFacts
    <2>2. DOMAIN add = 1..Len(add) /\ Len(add) \in Nat
      BY <2>1, LenProperties
    <2>3. new(p) = old \/ new(p) = old \o add
      OBVIOUS
    <2>4. CASE new(p) = old
      BY <2>0, <2>4
    <2>5. CASE new(p) = old \o add
      <3> HIDE DEF old, add, new
      <3>1. /\ old \o add \in Seq(Messages) /\ Len(old \o add) = Len(old) + Len(add)
            /\ DOMAIN (old \o add) = 1..(Len(old) + Len(add))
            /\ \A i \in 1..(Len(old) + Len(add)) :
                 (old \o add)[i] = IF i <= Len(old) THEN old[i] ELSE add[i - Len(old)]
        BY <2>0, <2>1, <2>2, ConcatProperties, LenProperties
      <3>2. ASSUME NEW i \in DOMAIN (old \o add)
            PROVE  \/ i \in DOMAIN old /\ (old \o add)[i] = old[i]
                   \/ \E e \in keySubs[k] : fds[e.fd] = p /\ (old \o add)[i].owner = e.owner
        <4>1. CASE i <= Len(old)
          BY <2>0, <2>2, <3>1, <4>1
        <4>2. CASE i > Len(old)
          <5>1. i - Len(old) \in DOMAIN add /\ (old \o add)[i] = add[i - Len(old)]
            BY <2>0, <2>2, <3>1, <4>2
          <5>2. QED
            BY <1>2, <2>1, <5>1
        <4>3. QED
          BY <2>0, <2>2, <3>1, <4>1, <4>2
      <3>3. old # <<>> => old \o add # <<>>
        <4>1. old # <<>> => Len(old) > 0
          BY <2>0, EmptySeq, LenProperties
        <4>2. QED
          BY <2>0, <2>2, <3>1, <4>1, EmptySeq
      <3>4. old \o add # old => \E e \in keySubs[k] : fds[e.fd] = p
        <4>1. SUFFICES ASSUME add = <<>> PROVE old \o add = old
          <5>1. add # <<>> => \E i \in DOMAIN add : add[i] \in N(p)
            BY <2>1, <2>2, EmptySeq
          <5>2. QED
            BY <1>2, <5>1
        <4>2. QED
          BY <2>0, <4>1, ConcatEmptySeq
      <3>5. QED
        BY <2>5, <3>1, <3>2, <3>3, <3>4 DEF old
    <2>6. QED
      BY <2>3, <2>4, <2>5
  <1>4. \A c \in Clients : new(<<c, "req">>) = pipe[<<c, "req">>]
    OBVIOUS
  <1> HIDE DEF new
  <1>5. /\ pipe' \in [Clients \X Kinds -> Seq(Messages)]
        /\ \A p \in Clients \X Kinds : pipe'[p] = new(p)
    BY <1>1, <1>3
  <1>6. \A c \in Clients : <<c, "req">> \in Clients \X Kinds
    BY DEF Kinds
  <1>7. QED
    BY <1>3, <1>4, <1>5, <1>6

-----------------------------------------------------------------------------
(* The steps of a client *)

ClientStep(c) ==
  \/ Connect(c) \/ Request(c) \/ RequestFails(c) \/ Die(c)
  \/ ClientGoesOn(c) \/ NotifThread(c)

(* What a process leaves behind. *)
LEMMA OverFacts ==
  ASSUME ClientType, NEW c \in Clients, NEW label \in {"ended", "dead"}, Over(c, label)
  PROVE  /\ cpc' = [cpc EXCEPT ![c] = label] /\ npc' = [npc EXCEPT ![c] = "none"]
         /\ terminate' = [terminate EXCEPT ![c] = FALSE]
         /\ sent' \in [Clients -> Messages] /\ left' \in [Clients -> Nat]
         /\ \A d \in Clients : d # c => sent'[d] = sent[d]
         /\ \A d \in Clients : left'[d] <= MaxRequests[d]
         /\ pipe' \in [Clients \X Kinds -> Seq(Messages)]
         /\ \A p \in Clients \X Kinds : p[1] # c \/ p[2] = "req" => pipe'[p] = pipe[p]
  <1>0. /\ sent \in [Clients -> Messages] /\ left \in [Clients -> Nat]
        /\ \A d \in Clients : left[d] <= MaxRequests[d]
        /\ pipe \in [Clients \X Kinds -> Seq(Messages)] /\ <<>> \in Seq(Messages)
        /\ MaxRequests \in [Clients -> Nat]
    BY SessionAssumption, EmptySeq DEF ClientType
  <1>1. /\ cpc' = [cpc EXCEPT ![c] = label] /\ npc' = [npc EXCEPT ![c] = "none"]
        /\ terminate' = [terminate EXCEPT ![c] = FALSE]
        /\ sent' = [sent EXCEPT ![c] = NoMessage] /\ left' = [left EXCEPT ![c] = 0]
        /\ pipe' = [pipe EXCEPT ![<<c, "resp">>] = <<>>, ![<<c, "notif">>] = <<>>]
    BY DEF Over, GotoC
  <1>2. NoMessage \in Messages
    BY DEF NoMessage, Messages, Message
  <1>3. \A d \in Clients : left'[d] <= MaxRequests[d]
    BY <1>0, <1>1
  <1>4. \A p \in Clients \X Kinds : p[1] # c \/ p[2] = "req" => pipe'[p] = pipe[p]
    <2>1. ASSUME NEW p \in Clients \X Kinds, p[1] # c \/ p[2] = "req"
          PROVE  p # <<c, "resp">> /\ p # <<c, "notif">>
      BY <2>1
    <2>2. QED
      BY <1>0, <1>1, <2>1
  <1>5. pipe' \in [Clients \X Kinds -> Seq(Messages)]
    BY <1>0, <1>1
  <1>6. QED
    BY <1>0, <1>1, <1>2, <1>3, <1>4, <1>5

(* A client changes its own part, and only by a request what the server    *)
(* reads.                                                                  *)
LEMMA ClientSteps ==
  ASSUME ClientType, NEW c \in Clients, ClientStep(c)
  PROVE  /\ ClientType'
         /\ cpc[c] # "start" => cpc'[c] # "start"
         /\ \A d \in Clients : d # c => /\ cpc'[d] = cpc[d] /\ npc'[d] = npc[d]
                                        /\ terminate'[d] = terminate[d] /\ sent'[d] = sent[d]
         /\ \A p \in Clients \X Kinds : p[1] # c => pipe'[p] = pipe[p]
         /\ \/ pipe'[<<c, "req">>] = pipe[<<c, "req">>]
            \/ \E m \in Messages : IsRequest(m, c) /\ pipe'[<<c, "req">>] = Append(pipe[<<c, "req">>], m)
         /\ UNCHANGED <<fds, data, books, sessionVars, mainPc, mainAt, queue, newcomer, places, notes, fault, signals>>
         /\ inbox' = inbox \/ (cpc[c] = "start" /\ cpc'[c] = "resp" /\ inbox' = inbox \cup {c})
  <1>0. /\ cpc \in [Clients -> CLabels]
        /\ npc \in [Clients -> {"none", "read", "kill", "store", "done"}]
        /\ terminate \in [Clients -> BOOLEAN]
        /\ sent \in [Clients -> Messages]
        /\ left \in [Clients -> Nat] /\ \A d \in Clients : left[d] <= MaxRequests[d]
        /\ pipe \in [Clients \X Kinds -> Seq(Messages)]
        /\ blank \subseteq Clients
        /\ MaxRequests \in [Clients -> Nat]
    BY SessionAssumption DEF ClientType
  <1>1. UNCHANGED <<fds, data, books, sessionVars, mainPc, mainAt, queue, newcomer, places, notes, fault, signals>>
    BY DEF ClientStep, Connect, Request, RequestFails, Die, ClientGoesOn, Connected, Check, Leave,
       EndOfInput, Answered, AnsweredByEof, Join, NotifThread, NotifiedOfEof, Notified, Kill,
       StoreTerminate, server, mainVars
  <1>2. inbox' = inbox \/ (cpc[c] = "start" /\ cpc'[c] = "resp" /\ inbox' = inbox \cup {c})
    <2>1. CASE Connect(c)
      BY <1>0, <2>1 DEF Connect, GotoC
    <2>2. CASE ~Connect(c)
      BY <2>2 DEF ClientStep, Request, RequestFails, Die, ClientGoesOn, Connected, Check, Leave,
         EndOfInput, Answered, AnsweredByEof, Join, NotifThread, NotifiedOfEof, Notified, Kill,
         StoreTerminate, server, mainVars
    <2>3. QED
      BY <2>1, <2>2
  <1>3. NoMessage \in Messages
    BY DEF NoMessage, Messages, Message
  <1> DEFINE Frame ==
        /\ cpc[c] # "start" => cpc'[c] # "start"
        /\ \A d \in Clients : d # c => /\ cpc'[d] = cpc[d] /\ npc'[d] = npc[d]
                                       /\ terminate'[d] = terminate[d] /\ sent'[d] = sent[d]
        /\ \A p \in Clients \X Kinds : p[1] # c => pipe'[p] = pipe[p]
             Req ==
        \/ pipe'[<<c, "req">>] = pipe[<<c, "req">>]
        \/ \E m \in Messages : IsRequest(m, c) /\ pipe'[<<c, "req">>] = Append(pipe[<<c, "req">>], m)
  <1>4. ASSUME NEW label \in {"ended", "dead"}, Over(c, label),
               blank' \in SUBSET Clients
        PROVE  ClientType' /\ Frame /\ Req
    <2>0. /\ cpc' = [cpc EXCEPT ![c] = label] /\ npc' = [npc EXCEPT ![c] = "none"]
          /\ terminate' = [terminate EXCEPT ![c] = FALSE]
          /\ sent' \in [Clients -> Messages] /\ left' \in [Clients -> Nat]
          /\ \A d \in Clients : d # c => sent'[d] = sent[d]
          /\ \A d \in Clients : left'[d] <= MaxRequests[d]
          /\ pipe' \in [Clients \X Kinds -> Seq(Messages)]
          /\ \A p \in Clients \X Kinds : p[1] # c \/ p[2] = "req" => pipe'[p] = pipe[p]
      BY <1>4, OverFacts
    <2>1. ClientType'
      BY <1>0, <1>4, <2>0 DEF ClientType, CLabels
    <2>2. <<c, "req">> \in Clients \X Kinds /\ <<c, "req">>[2] = "req"
      BY DEF Kinds
    <2>3. Frame
      BY <1>0, <2>0
    <2>4. Req
      BY <2>0, <2>2
    <2>5. QED
      BY <2>1, <2>3, <2>4
  <1>5. ASSUME /\ cpc' = cpc \/ \E label \in CLabels \ {"start"} : cpc' = [cpc EXCEPT ![c] = label]
               /\ npc' = npc \/ \E label \in {"read", "kill", "store", "done"} :
                                  npc' = [npc EXCEPT ![c] = label]
               /\ terminate' = terminate \/ terminate' = [terminate EXCEPT ![c] = TRUE]
               /\ sent' = sent \/ \E m \in Messages : sent' = [sent EXCEPT ![c] = m]
               /\ \/ left' = left \/ left' = [left EXCEPT ![c] = 0]
                  \/ left[c] > 0 /\ left' = [left EXCEPT ![c] = @ - 1]
               /\ blank' \in SUBSET Clients,
               pipe' \in [Clients \X Kinds -> Seq(Messages)],
               \A p \in Clients \X Kinds : p[1] # c => pipe'[p] = pipe[p]
        PROVE  ClientType' /\ Frame
    <2>1. cpc' \in [Clients -> CLabels] /\ \A d \in Clients : d # c => cpc'[d] = cpc[d]
      BY <1>0, <1>5, ZenonT(60)
    <2>2. /\ npc' \in [Clients -> {"none", "read", "kill", "store", "done"}]
          /\ \A d \in Clients : d # c => npc'[d] = npc[d]
      <3>1. CASE npc' = npc
        BY <1>0, <3>1
      <3>2. ASSUME NEW label \in {"read", "kill", "store", "done"}, npc' = [npc EXCEPT ![c] = label]
            PROVE  /\ npc' \in [Clients -> {"none", "read", "kill", "store", "done"}]
                   /\ \A d \in Clients : d # c => npc'[d] = npc[d]
        BY <1>0, <3>2
      <3>3. QED
        BY <1>5, <3>1, <3>2
    <2>3. terminate' \in [Clients -> BOOLEAN] /\ \A d \in Clients : d # c => terminate'[d] = terminate[d]
      BY <1>0, <1>5
    <2>4. sent' \in [Clients -> Messages] /\ \A d \in Clients : d # c => sent'[d] = sent[d]
      <3>1. CASE sent' = sent
        BY <1>0, <3>1
      <3>2. ASSUME NEW m \in Messages, sent' = [sent EXCEPT ![c] = m]
            PROVE  sent' \in [Clients -> Messages] /\ \A d \in Clients : d # c => sent'[d] = sent[d]
        BY <1>0, <3>2
      <3>3. QED
        BY <1>5, <3>1, <3>2
    <2>5. left' \in [Clients -> Nat] /\ \A d \in Clients : left'[d] <= left[d]
      <3>1. CASE left' = left
        BY <1>0, <3>1
      <3>2. CASE left' = [left EXCEPT ![c] = 0]
        BY <1>0, <3>2
      <3>3. CASE left[c] > 0 /\ left' = [left EXCEPT ![c] = @ - 1]
        BY <1>0, <3>3
      <3>4. QED
        BY <1>5, <3>1, <3>2, <3>3
    <2>6. \A d \in Clients : left'[d] <= MaxRequests[d]
      BY <1>0, <2>5
    <2>7. QED
      BY <1>5, <2>1, <2>2, <2>3, <2>4, <2>5, <2>6 DEF ClientType
  <1> HIDE DEF Frame
  <1>6. ASSUME NEW k \in Kinds \ {"req"}, pipe[<<c, k>>] # <<>>,
               pipe' = [pipe EXCEPT ![<<c, k>>] = Tail(@)]
        PROVE  /\ pipe' \in [Clients \X Kinds -> Seq(Messages)]
               /\ \A p \in Clients \X Kinds : p[1] # c => pipe'[p] = pipe[p]
               /\ pipe'[<<c, "req">>] = pipe[<<c, "req">>]
    <2>1. <<c, k>> \in Clients \X Kinds /\ <<c, "req">> \in Clients \X Kinds /\ <<c, "req">> # <<c, k>>
      BY DEF Kinds
    <2>2. Tail(pipe[<<c, k>>]) \in Seq(Messages)
      BY <1>0, <1>6, <2>1, HeadTailProperties
    <2>3. QED
      BY <1>0, <1>6, <2>1, <2>2
  <1>7. {"check", "idle", "await", "join", "resp", "connect"} \subseteq CLabels \ {"start"}
    BY DEF CLabels, Kinds
  <1>8. ASSUME pipe' = pipe
        PROVE  /\ pipe' \in [Clients \X Kinds -> Seq(Messages)]
               /\ \A p \in Clients \X Kinds : p[1] # c => pipe'[p] = pipe[p]
               /\ Req
    BY <1>0, <1>8
  <1>9. ClientType' /\ Frame /\ Req
    <2>1. CASE Connect(c)
      <3>1. pipe' = pipe
        BY <2>1 DEF Connect
      <3>2. QED
        BY <1>0, <1>5, <1>7, <1>8, <2>1, <3>1 DEF Connect, GotoC
    <2>2. CASE Check(c)
      <3>1. pipe' = pipe
        BY <2>2 DEF Check
      <3>2. QED
        BY <1>0, <1>5, <1>7, <1>8, <2>2, <3>1 DEF Check, GotoC
    <2>3. CASE EndOfInput(c)
      <3>1. pipe' = pipe
        BY <2>3 DEF EndOfInput
      <3>2. QED
        BY <1>0, <1>5, <1>7, <1>8, <2>3, <3>1 DEF EndOfInput, GotoC
    <2>4. CASE Connected(c)
      <3>1. "resp" \in Kinds \ {"req"}
        BY DEF Kinds
      <3>2. /\ pipe' \in [Clients \X Kinds -> Seq(Messages)]
            /\ \A p \in Clients \X Kinds : p[1] # c => pipe'[p] = pipe[p]
            /\ pipe'[<<c, "req">>] = pipe[<<c, "req">>]
        BY <1>6, <2>4, <3>1 DEF Connected
      <3>3. QED
        BY <1>0, <1>5, <1>7, <2>4, <3>2 DEF Connected, GotoC
    <2>5. CASE Answered(c)
      <3>1. "resp" \in Kinds \ {"req"}
        BY DEF Kinds
      <3>2. /\ pipe' \in [Clients \X Kinds -> Seq(Messages)]
            /\ \A p \in Clients \X Kinds : p[1] # c => pipe'[p] = pipe[p]
            /\ pipe'[<<c, "req">>] = pipe[<<c, "req">>]
        BY <1>6, <2>5, <3>1 DEF Answered
      <3>3. /\ \E label \in {"join", "check"} : cpc' = [cpc EXCEPT ![c] = label]
            /\ sent' = [sent EXCEPT ![c] = NoMessage]
            /\ UNCHANGED <<npc, terminate, left, blank>>
        BY <2>5 DEF Answered, GotoC
      <3>4. QED
        BY <1>0, <1>3, <1>5, <1>7, <3>2, <3>3
    <2>6. CASE Notified(c)
      <3>1. "notif" \in Kinds \ {"req"}
        BY DEF Kinds
      <3>2. /\ pipe' \in [Clients \X Kinds -> Seq(Messages)]
            /\ \A p \in Clients \X Kinds : p[1] # c => pipe'[p] = pipe[p]
            /\ pipe'[<<c, "req">>] = pipe[<<c, "req">>]
        BY <1>6, <2>6, <3>1 DEF Notified
      <3>3. UNCHANGED <<cpc, npc, terminate, sent, left, blank>>
        BY <2>6 DEF Notified, clientVars
      <3>4. QED
        BY <1>0, <1>5, <1>7, <3>2, <3>3
    <2>7. CASE NotifiedOfEof(c)
      <3>1. pipe' = pipe
        BY <2>7 DEF NotifiedOfEof
      <3>2. QED
        BY <1>0, <1>5, <1>7, <1>8, <2>7, <3>1 DEF NotifiedOfEof
    <2>8. CASE StoreTerminate(c)
      <3>1. pipe' = pipe
        BY <2>8 DEF StoreTerminate
      <3>2. QED
        BY <1>0, <1>5, <1>7, <1>8, <2>8, <3>1 DEF StoreTerminate
    <2>9. CASE Request(c)
      <3>1. PICK r \in RequestsOf(c) :
              /\ sent' = [sent EXCEPT ![c] = r]
              /\ pipe' = [pipe EXCEPT ![<<c, "req">>] = Append(@, r)]
        BY <2>9 DEF Request
      <3>2. r \in Messages /\ IsRequest(r, c)
        BY DEF RequestsOf, Messages, Message, IsRequest
      <3>3. <<c, "req">> \in Clients \X Kinds
        BY DEF Kinds
      <3>4. Append(pipe[<<c, "req">>], r) \in Seq(Messages)
        BY <1>0, <3>2, <3>3, AppendProperties
      <3>5. /\ pipe' \in [Clients \X Kinds -> Seq(Messages)]
            /\ \A p \in Clients \X Kinds : p[1] # c => pipe'[p] = pipe[p]
            /\ pipe'[<<c, "req">>] = Append(pipe[<<c, "req">>], r)
        BY <1>0, <3>1, <3>3, <3>4
      <3>6. /\ left' = [left EXCEPT ![c] = @ - 1] /\ left[c] > 0
            /\ cpc' = [cpc EXCEPT ![c] = "await"]
            /\ UNCHANGED <<npc, terminate, blank>>
        BY <2>9 DEF Request, GotoC
      <3>7. ClientType' /\ Frame
        <4>1. \E label \in CLabels \ {"start"} : cpc' = [cpc EXCEPT ![c] = label]
          BY <1>7, <3>6
        <4>2. \E m \in Messages : sent' = [sent EXCEPT ![c] = m]
          BY <3>1, <3>2
        <4>3. blank' \in SUBSET Clients
          BY <1>0, <3>6
        <4>4. QED
          BY <1>5, <3>5, <3>6, <4>1, <4>2, <4>3
      <3>8. QED
        BY <3>2, <3>5, <3>7
    <2>10. CASE RequestFails(c) \/ Leave(c) \/ Join(c) \/ Die(c)
      <3>1. blank' \in SUBSET Clients
        BY <1>0, <2>10 DEF RequestFails, Leave, Join, Die
      <3>2. Over(c, "ended") \/ Over(c, "dead")
        BY <2>10 DEF RequestFails, Leave, Join, Die
      <3>3. QED
        BY <1>4, <3>1, <3>2
    <2>11. CASE AnsweredByEof(c)
      <3>1. blank' \in SUBSET Clients
        BY <1>0, <2>11 DEF AnsweredByEof
      <3>2. CASE Over(c, "ended")
        BY <1>4, <3>1, <3>2
      <3>3. CASE ~Over(c, "ended")
        <4>1. /\ \E label \in {"join", "check"} : cpc' = [cpc EXCEPT ![c] = label]
              /\ sent' = [sent EXCEPT ![c] = NoMessage] /\ UNCHANGED <<npc, terminate, left, pipe>>
          BY <2>11, <3>3 DEF AnsweredByEof, GotoC
        <4>2. QED
          BY <1>0, <1>3, <1>5, <1>7, <1>8, <3>1, <4>1
      <3>4. QED
        BY <3>2, <3>3
    <2>12. CASE Kill(c)
      <3>1. blank' \in SUBSET Clients
        BY <1>0, <2>12 DEF Kill
      <3>2. CASE Over(c, "ended")
        BY <1>4, <3>1, <3>2
      <3>3. CASE ~Over(c, "ended")
        <4>1. /\ npc' = [npc EXCEPT ![c] = "store"] /\ UNCHANGED <<terminate, left, pipe>>
              /\ \/ cpc' = [cpc EXCEPT ![c] = "check"] /\ sent' = [sent EXCEPT ![c] = NoMessage]
                 \/ UNCHANGED <<cpc, sent>>
          BY <2>12, <3>3 DEF Kill, GotoC
        <4>2. QED
          BY <1>0, <1>3, <1>5, <1>7, <1>8, <3>1, <4>1
      <3>4. QED
        BY <3>2, <3>3
    <2>13. QED
      BY <2>1, <2>2, <2>3, <2>4, <2>5, <2>6, <2>7, <2>8, <2>9, <2>10, <2>11, <2>12
         DEF ClientStep, ClientGoesOn, NotifThread
  <1>10. QED
    BY <1>1, <1>2, <1>9 DEF Frame, Req

-----------------------------------------------------------------------------
(* The steps of the server that move descriptors, data and clients *)

(* The data of a client that a session serves are closed: nothing of       *)
(* another client is, and nothing of this one is left.                     *)
LEMMA ClosingFacts ==
  ASSUME DataType, SessionType, FdInv, NEW u \in Sessions, Opened(u) = Kinds,
         at[u] \in Clients, at[u] \notin freed
  PROVE  /\ Closing(at[u]) \in [Fds -> (Clients \X Kinds) \cup {NoPipe}]
         /\ \A f \in Fds : Closing(at[u])[f] # NoPipe =>
              /\ Closing(at[u])[f] = fds[f]
              /\ \E s \in Sessions :
                   /\ at[s] = fds[f][1] /\ at[s] \notin freed \cup {at[u]}
                   /\ fds[f][2] \in Opened(s) /\ fdOf[at[s]][fds[f][2]] = f
         /\ \A s \in Sessions : at[s] \notin freed \cup {at[u]} =>
              \A k \in Opened(s) :
                fdOf[at[s]][k] \in Fds /\ Closing(at[u])[fdOf[at[s]][k]] = <<at[s], k>>
  <1> DEFINE c == at[u]
             new == Closing(c)
  <1>0. fds \in [Fds -> (Clients \X Kinds) \cup {NoPipe}]
    BY DEF DataType
  <1>1. new \in [Fds -> (Clients \X Kinds) \cup {NoPipe}]
    BY <1>0 DEF Closing
  <1>2. \A f \in Fds : new[f] = IF \E k \in Kinds : fdOf[c][k] = f THEN NoPipe ELSE fds[f]
    BY DEF Closing
  <1>3. ASSUME NEW f \in Fds, new[f] # NoPipe
        PROVE  /\ new[f] = fds[f]
               /\ \E s \in Sessions :
                    /\ at[s] = fds[f][1] /\ at[s] \notin freed \cup {c}
                    /\ fds[f][2] \in Opened(s) /\ fdOf[at[s]][fds[f][2]] = f
    <2>1. new[f] = fds[f] /\ \A k \in Kinds : fdOf[c][k] # f
      BY <1>2, <1>3
    <2>2. PICK s \in Sessions : /\ at[s] = fds[f][1] /\ at[s] \notin freed
                                /\ fds[f][2] \in Opened(s) /\ fdOf[at[s]][fds[f][2]] = f
      BY <1>3, <2>1 DEF FdInv
    <2>3. fds[f][2] \in Kinds
      BY <2>2 DEF Opened, Kinds
    <2>4. at[s] # c
      BY <2>1, <2>2, <2>3
    <2>5. QED
      BY <2>1, <2>2, <2>4
  <1>4. ASSUME NEW s \in Sessions, at[s] \notin freed \cup {c}, NEW k \in Opened(s)
        PROVE  fdOf[at[s]][k] \in Fds /\ new[fdOf[at[s]][k]] = <<at[s], k>>
    <2>1. fdOf[at[s]][k] \in Fds /\ fds[fdOf[at[s]][k]] = <<at[s], k>>
      BY <1>4 DEF FdInv
    <2>2. \A j \in Kinds : fds[fdOf[c][j]] = <<c, j>>
      BY DEF FdInv
    <2>3. \A j \in Kinds : fdOf[c][j] # fdOf[at[s]][k]
      BY <1>4, <2>1, <2>2
    <2>4. QED
      BY <1>2, <2>1, <2>3
  <1>5. QED
    BY <1>1, <1>3, <1>4

(* A session that goes on with the same client. *)
LEMMA GoesOn ==
  ASSUME SessionType, FdInv, PlaceInv, InfoInv, NEW s \in Sessions, NEW l \in SLabels,
         pc' = [pc EXCEPT ![s] = l], UNCHANGED <<fds, fdOf, freed, info, at, cpc, inbox, queue>>,
         {pc[s], l} \subseteq Serving \/ (pc[s] = "greet" /\ l = "setinfo")
  PROVE  FdInv' /\ PlaceInv' /\ InfoInv'
  <1>0. pc \in [Sessions -> SLabels]
    BY DEF SessionType
  <1>1. /\ \A u \in Sessions : pc'[u] \in Serving <=> pc[u] \in Serving
        /\ \A u \in Sessions : Opened(u)' = Opened(u)
    <2>1. ASSUME NEW u \in Sessions, u # s
          PROVE  (pc'[u] \in Serving <=> pc[u] \in Serving) /\ Opened(u)' = Opened(u)
      BY <1>0, <2>1 DEF Opened
    <2>2. pc'[s] \in Serving <=> pc[s] \in Serving
      BY <1>0 DEF Serving
    <2>3. Opened(s)' = Opened(s)
      BY <1>0 DEF Opened, Serving, Kinds
    <2>4. QED
      BY <2>1, <2>2, <2>3
  <1>2. FdInv'
    <2>1. ASSUME NEW f \in Fds', fds'[f] # NoPipe
          PROVE  \E u \in Sessions : /\ at'[u] = fds'[f][1] /\ at'[u] \notin freed'
                                     /\ fds'[f][2] \in Opened(u)' /\ fdOf'[at'[u]][fds'[f][2]] = f
      BY <1>1, <2>1 DEF FdInv
    <2>2. ASSUME NEW u \in Sessions, at'[u] \notin freed', NEW k \in Opened(u)'
          PROVE  fdOf'[at'[u]][k] \in Fds /\ fds'[fdOf'[at'[u]][k]] = <<at'[u], k>>
      BY <1>1, <2>2 DEF FdInv
    <2>3. QED
      BY <2>1, <2>2 DEF FdInv
  <1>3. PlaceInv'
    BY <1>1 DEF PlaceInv, Queued
  <1>4. InfoInv'
    BY <1>1 DEF InfoInv
  <1>5. QED
    BY <1>2, <1>3, <1>4

(* The data of the client of a session are freed: the session ends, or     *)
(* goes on with what it has freed.                                         *)
LEMMA DropsClient ==
  ASSUME DataType, SessionType, FdInv, PlaceInv, InfoInv, NEW u \in Sessions, Opened(u) = Kinds,
         at[u] \in Clients, at[u] \notin freed,
         fds' = Closing(at[u]), freed' = freed \cup {at[u]}, UNCHANGED <<fdOf, info, cpc, inbox, queue>>,
         \A s \in Sessions : s # u => pc'[s] = pc[s] /\ at'[s] = at[s],
         \/ at'[u] = at[u] /\ {pc[u], pc'[u]} \subseteq Serving
         \/ at'[u] = NoClient /\ pc'[u] = "take"
  PROVE  FdInv' /\ PlaceInv' /\ InfoInv'
  <1> DEFINE c == at[u]
  <1>0. /\ NoClient \notin Clients /\ freed \subseteq Clients /\ "take" \notin Serving
        /\ at \in [Sessions -> Clients \cup {NoClient}]
    BY SessionAssumption DEF DataType, SessionType, Serving
  <1>1. \A s \in Sessions : s # u => at[s] # c /\ at'[s] = at[s] /\ pc'[s] = pc[s]
                                     /\ Opened(s)' = Opened(s)
    BY <1>0 DEF PlaceInv, Opened
  <1>2. FdInv'
    <2>1. ASSUME NEW f \in Fds, fds'[f] # NoPipe
          PROVE  \E s \in Sessions : /\ at'[s] = fds'[f][1] /\ at'[s] \notin freed'
                                     /\ fds'[f][2] \in Opened(s)' /\ fdOf'[at'[s]][fds'[f][2]] = f
      <3>1. PICK s \in Sessions : /\ at[s] = fds[f][1] /\ at[s] \notin freed \cup {c}
                                  /\ fds[f][2] \in Opened(s) /\ fdOf[at[s]][fds[f][2]] = f
                                  /\ fds'[f] = fds[f]
        BY <2>1, ClosingFacts
      <3>2. s # u
        BY <3>1
      <3>3. QED
        BY <1>1, <3>1, <3>2
    <2>2. ASSUME NEW s \in Sessions, at'[s] \notin freed', NEW k \in Opened(s)'
          PROVE  fdOf'[at'[s]][k] \in Fds /\ fds'[fdOf'[at'[s]][k]] = <<at'[s], k>>
      <3>1. CASE s # u
        BY <1>1, <2>2, <3>1, ClosingFacts
      <3>2. CASE s = u
        <4>1. pc'[u] = "take"
          BY <2>2, <3>2
        <4>2. QED
          BY <2>2, <3>2, <4>1 DEF Opened
      <3>3. QED
        BY <3>1, <3>2
    <2>3. QED
      BY <2>1, <2>2 DEF FdInv
  <1>3. PlaceInv'
    <2>1. /\ cpc[c] # "start" /\ c \notin inbox /\ ~Queued(c)
      BY <1>0 DEF PlaceInv
    <2>2. \A s, v \in Sessions : s # v /\ at'[s] # NoClient => at'[s] # at'[v]
      BY <1>0, <1>1 DEF PlaceInv
    <2>3. \A s \in Sessions : at'[s] # NoClient => at'[s] = at[s]
      BY <1>1
    <2>4. ASSUME NEW s \in Sessions, at'[s] \in freed'
          PROVE  pc'[s] \in Serving
      <3>1. CASE s # u
        BY <1>1, <2>4, <3>1 DEF PlaceInv
      <3>2. CASE s = u
        BY <1>0, <2>4, <3>2
      <3>3. QED
        BY <3>1, <3>2
    <2>5. QED
      BY <2>1, <2>2, <2>3, <2>4 DEF PlaceInv, Queued
  <1>4. InfoInv'
    <2>1. ASSUME NEW s \in Sessions
          PROVE  /\ pc'[s] \in Serving => info[s] = at'[s]
                 /\ info[s] # NoClient /\ info[s] \notin freed' => at'[s] = info[s] /\ pc'[s] \in Serving
      <3>1. CASE s # u
        BY <1>1, <3>1 DEF InfoInv
      <3>2. CASE s = u
        BY <1>0, <3>2 DEF InfoInv
      <3>3. QED
        BY <3>1, <3>2
    <2>2. QED
      BY <2>1 DEF InfoInv
  <1>5. QED
    BY <1>2, <1>3, <1>4

(* A session takes the first client of the queue. *)
LEMMA TakesClient ==
  ASSUME Types, FdInv, PlaceInv, InfoInv, NEW s \in Sessions, TakeClient(s)
  PROVE  Types' /\ FdInv' /\ PlaceInv' /\ InfoInv'
  <1> DEFINE c == Head(queue)
  <1>0. /\ NoClient \notin Clients /\ queue \in Seq(Clients) /\ queue # <<>>
        /\ pc \in [Sessions -> SLabels] /\ at \in [Sessions -> Clients \cup {NoClient}]
        /\ pc[s] = "take" /\ at[s] = NoClient
        /\ pc' = [pc EXCEPT ![s] = "resp"] /\ at' = [at EXCEPT ![s] = c] /\ queue' = Tail(queue)
        /\ places' = places + 1 /\ places \in Nat
        /\ UNCHANGED <<clientVars, pipe, fds, data, books, msg, mainPc, mainAt, inbox, newcomer,
                       notes, fault, signals, blank>>
    BY SessionAssumption DEF Types, MainType, SessionType, TakeClient, Goto
  <1>1. /\ c \in Clients /\ c = queue[1] /\ Len(queue) \in Nat \ {0} /\ DOMAIN queue = 1..Len(queue)
        /\ queue' \in Seq(Clients) /\ DOMAIN queue' = 1..(Len(queue) - 1)
        /\ \A i \in DOMAIN queue' : queue'[i] = queue[i + 1]
    BY <1>0, HeadTailProperties, EmptySeq, LenProperties
  <1>2. 1 \in DOMAIN queue /\ \A i \in DOMAIN queue' : i + 1 \in DOMAIN queue /\ i + 1 # 1
    BY <1>1
  <1>3. \A u \in Sessions : u # s => pc'[u] = pc[u] /\ at'[u] = at[u] /\ Opened(u)' = Opened(u)
    BY <1>0 DEF Opened
  <1>4. pc'[s] = "resp" /\ at'[s] = c /\ Opened(s)' = {}
    BY <1>0 DEF Opened
  <1>5. Types'
    <2>1. SessionType'
      <3>1. \A u \in Sessions : pc'[u] = "take" <=> at'[u] = NoClient
        BY <1>0, <1>1, <1>3, <1>4 DEF Types, SessionType
      <3>2. "resp" \in SLabels
        BY DEF SLabels, Kinds
      <3>3. QED
        BY <1>0, <1>1, <3>1, <3>2 DEF Types, SessionType
    <2>2. QED
      BY <1>0, <1>1, <2>1 DEF Types, ClientType, DataType, BookType, MainType, clientVars, data,
         books, signals
  <1>6. FdInv'
    <2>1. fds \in [Fds -> (Clients \X Kinds) \cup {NoPipe}]
      BY DEF Types, DataType
    <2>2. \A f \in Fds : fds[f] # NoPipe => fds[f][1] # NoClient
      BY <1>0, <2>1
    <2>3. ASSUME NEW f \in Fds, fds'[f] # NoPipe
          PROVE  \E u \in Sessions : /\ at'[u] = fds'[f][1] /\ at'[u] \notin freed'
                                     /\ fds'[f][2] \in Opened(u)' /\ fdOf'[at'[u]][fds'[f][2]] = f
      <3>0. UNCHANGED <<fds, fdOf, freed>>
        BY <1>0 DEF data
      <3>1. PICK u \in Sessions : /\ at[u] = fds[f][1] /\ at[u] \notin freed
                                  /\ fds[f][2] \in Opened(u) /\ fdOf[at[u]][fds[f][2]] = f
        BY <2>3, <3>0 DEF FdInv
      <3>2. u # s
        BY <1>0, <2>2, <2>3, <3>0, <3>1
      <3>3. QED
        BY <1>3, <3>0, <3>1, <3>2
    <2>4. ASSUME NEW u \in Sessions, at'[u] \notin freed', NEW k \in Opened(u)'
          PROVE  fdOf'[at'[u]][k] \in Fds /\ fds'[fdOf'[at'[u]][k]] = <<at'[u], k>>
      <3>0. UNCHANGED <<fds, fdOf, freed>>
        BY <1>0 DEF data
      <3>1. u # s
        BY <1>4, <2>4
      <3>2. QED
        BY <1>3, <2>4, <3>0, <3>1 DEF FdInv
    <2>5. QED
      BY <2>3, <2>4 DEF FdInv
  <1>7. PlaceInv'
    <2>0. UNCHANGED <<freed, cpc, inbox>>
      BY <1>0 DEF data, clientVars
    <2>1. \A d : Queued(d)' => Queued(d)
      BY <1>1, <1>2 DEF Queued
    <2>2. Queued(c) /\ \A i \in DOMAIN queue' : queue'[i] # c
      <3>1. Queued(c)
        BY <1>1, <1>2 DEF Queued
      <3>2. \A i \in DOMAIN queue' : queue'[i] # c
        BY <1>1, <1>2 DEF PlaceInv
      <3>3. QED
        BY <3>1, <3>2
    <2>3. \A u \in Sessions : at[u] # c
      BY <1>0, <1>1, <2>2 DEF PlaceInv
    <2>4. c \notin inbox /\ c \notin freed /\ cpc[c] # "start"
      BY <1>1, <1>2, <2>2 DEF PlaceInv
    <2>5. \A u, v \in Sessions : u # v /\ at'[u] # NoClient => at'[u] # at'[v]
      BY <1>3, <1>4, <2>3 DEF PlaceInv
    <2>6. \A u \in Sessions : at'[u] # NoClient =>
            cpc'[at'[u]] # "start" /\ at'[u] \notin inbox' /\ \A i \in DOMAIN queue' : queue'[i] # at'[u]
      <3>1. ASSUME NEW u \in Sessions, at'[u] # NoClient
            PROVE  cpc[at'[u]] # "start" /\ at'[u] \notin inbox /\ \A i \in DOMAIN queue' : queue'[i] # at'[u]
        <4>1. CASE u = s
          BY <1>4, <2>2, <2>4, <4>1
        <4>2. CASE u # s
          <5>1. cpc[at[u]] # "start" /\ at[u] \notin inbox /\ ~Queued(at[u]) /\ at'[u] = at[u]
            BY <1>3, <3>1, <4>2 DEF PlaceInv
          <5>2. \A i \in DOMAIN queue' : queue'[i] # at[u]
            BY <1>1, <1>2, <5>1 DEF Queued
          <5>3. QED
            BY <5>1, <5>2
        <4>3. QED
          BY <4>1, <4>2
      <3>2. QED
        BY <2>0, <3>1
    <2>7. \A d \in inbox' : d \notin freed' /\ cpc'[d] # "start" /\ ~Queued(d)'
      BY <2>0, <2>1 DEF PlaceInv
    <2>8. \A i, j \in DOMAIN queue' : queue'[i] = queue'[j] => i = j
      <3>1. ASSUME NEW i \in DOMAIN queue', NEW j \in DOMAIN queue', queue'[i] = queue'[j]
            PROVE  i = j
        <4>1. i + 1 = j + 1
          BY <1>1, <1>2, <3>1 DEF PlaceInv
        <4>2. QED
          BY <1>1, <4>1
      <3>2. QED
        BY <3>1
    <2>9. \A i \in DOMAIN queue' : queue'[i] \notin freed' /\ cpc'[queue'[i]] # "start"
      BY <1>1, <1>2, <2>0 DEF PlaceInv
    <2>10. \A u \in Sessions : at'[u] \in freed' => pc'[u] \in Serving
      BY <1>3, <1>4, <2>0, <2>4 DEF PlaceInv
    <2>11. \A d \in freed' : cpc'[d] # "start"
      BY <2>0 DEF PlaceInv
    <2>12. QED
      BY <2>5, <2>6, <2>7, <2>8, <2>9, <2>10, <2>11 DEF PlaceInv, Queued
  <1>8. InfoInv'
    <2>0. UNCHANGED <<info, freed, cpc>>
      BY <1>0 DEF data, clientVars
    <2>1. "take" \notin Serving /\ "resp" \notin Serving
      BY DEF Serving
    <2>2. ASSUME NEW u \in Sessions
          PROVE  /\ pc'[u] \in Serving => info[u] = at'[u]
                 /\ info[u] # NoClient /\ info[u] \notin freed => at'[u] = info[u] /\ pc'[u] \in Serving
      <3>1. CASE u = s
        BY <1>0, <1>4, <2>1, <3>1 DEF InfoInv
      <3>2. CASE u # s
        BY <1>3, <3>2 DEF InfoInv
      <3>3. QED
        BY <3>1, <3>2
    <2>3. QED
      BY <2>0, <2>2 DEF InfoInv
  <1>9. QED
    BY <1>5, <1>6, <1>7, <1>8

(* open() of a pipe of the client gives the session a descriptor of its    *)
(* own.                                                                    *)
LEMMA OpensPipe ==
  ASSUME Types, FdInv, PlaceInv, InfoInv, NEW s \in Sessions, OpenPipe(s)
  PROVE  Types' /\ FdInv' /\ PlaceInv' /\ InfoInv'
  <1> DEFINE c == at[s]
             k == pc[s]
             f == LowestFree
             step == IF k = "resp" THEN "req" ELSE IF k = "req" THEN "notif" ELSE "greet"
             label == IF k = "resp" THEN "req" ELSE IF k = "req" THEN "notif" ELSE "connect"
  <1>0. /\ NoClient \notin Clients /\ freed \subseteq Clients
        /\ cpc \in [Clients -> CLabels] /\ pc \in [Sessions -> SLabels]
        /\ at \in [Sessions -> Clients \cup {NoClient}]
        /\ fds \in [Fds -> (Clients \X Kinds) \cup {NoPipe}]
        /\ fdOf \in [Clients -> [Kinds -> Fds \cup {0}]]
    BY SessionAssumption DEF Types, ClientType, DataType, SessionType
  <1>1. /\ k \in Kinds /\ c \in Clients /\ c \notin freed
    <2>1. k \in Kinds
      BY DEF OpenPipe
    <2>2. k # "take" /\ k \notin Serving
      BY <2>1 DEF Kinds, Serving
    <2>3. QED
      BY <1>0, <2>1, <2>2 DEF Types, SessionType, PlaceInv
  <1>2. f \in Fds /\ fds[f] = NoPipe
    <2>1. \E g \in Fds : fds[g] = NoPipe
      BY <1>1, FreeFd DEF Types
    <2>2. QED
      BY <2>1, LowestFreeFacts
  <1>3. /\ fds' = [fds EXCEPT ![f] = <<c, k>>] /\ fdOf' = [fdOf EXCEPT ![c][k] = f]
        /\ pc' = [pc EXCEPT ![s] = step] /\ cpc' = [cpc EXCEPT ![c] = label]
        /\ UNCHANGED <<npc, terminate, sent, left, pipe, freed, info, books, at, msg,
                       mainVars, notes, fault, signals, blank>>
    BY DEF OpenPipe, Goto, GotoC
  <1>4. step \in SLabels /\ step \notin Serving /\ step # "take" /\ label \in CLabels /\ label # "start"
    BY <1>1 DEF SLabels, CLabels, Kinds, Serving
  <1>5. k \notin Opened(s) /\ Opened(s)' = Opened(s) \cup {k} /\ Opened(s) \subseteq Kinds
    BY <1>0, <1>1, <1>3 DEF Opened, Kinds
  <1> HIDE DEF f, step, label
  <1>6. /\ \A u \in Sessions : u # s => pc'[u] = pc[u] /\ Opened(u)' = Opened(u) /\ at[u] # c
        /\ pc'[s] = step
        /\ \A u \in Sessions : Opened(u) \subseteq Kinds
    BY <1>0, <1>1, <1>3 DEF Opened, PlaceInv, Kinds
  <1>7. /\ fds'[f] = <<c, k>> /\ \A g \in Fds : g # f => fds'[g] = fds[g]
        /\ fdOf'[c][k] = f /\ \A j \in Kinds : j # k => fdOf'[c][j] = fdOf[c][j]
        /\ \A d \in Clients : d # c => fdOf'[d] = fdOf[d]
    BY <1>0, <1>1, <1>2, <1>3
  <1>8. Types'
    <2>1. ClientType'
      BY <1>0, <1>1, <1>3, <1>4 DEF Types, ClientType
    <2>2. DataType'
      <3>1. fds' \in [Fds -> (Clients \X Kinds) \cup {NoPipe}]
        BY <1>0, <1>1, <1>2, <1>3
      <3>2. fdOf' \in [Clients -> [Kinds -> Fds \cup {0}]]
        BY <1>0, <1>1, <1>2, <1>3
      <3>3. QED
        BY <1>3, <3>1, <3>2 DEF Types, DataType
    <2>3. SessionType'
      BY <1>0, <1>1, <1>3, <1>4 DEF Types, SessionType
    <2>4. BookType' /\ MainType'
      BY <1>3 DEF Types, BookType, MainType, books, mainVars, signals
    <2>5. QED
      BY <2>1, <2>2, <2>3, <2>4 DEF Types
  <1>9. FdInv'
    <2>1. ASSUME NEW g \in Fds, fds'[g] # NoPipe
          PROVE  \E u \in Sessions : /\ at'[u] = fds'[g][1] /\ at'[u] \notin freed'
                                     /\ fds'[g][2] \in Opened(u)' /\ fdOf'[at'[u]][fds'[g][2]] = g
      <3>1. CASE g = f
        <4>1. /\ at'[s] = fds'[g][1] /\ at'[s] \notin freed'
              /\ fds'[g][2] \in Opened(s)' /\ fdOf'[at'[s]][fds'[g][2]] = g
          BY <1>1, <1>3, <1>5, <1>7, <3>1
        <4>2. QED
          BY <4>1
      <3>2. CASE g # f
        <4>1. PICK u \in Sessions : /\ at[u] = fds[g][1] /\ at[u] \notin freed
                                    /\ fds[g][2] \in Opened(u) /\ fdOf[at[u]][fds[g][2]] = g
          BY <1>7, <2>1, <3>2 DEF FdInv
        <4>2. fds[g] \in Clients \X Kinds
          BY <1>0, <1>7, <2>1, <3>2
        <4>3. CASE u = s
          BY <1>3, <1>5, <1>7, <3>2, <4>1, <4>2, <4>3
        <4>4. CASE u # s
          BY <1>3, <1>6, <1>7, <3>2, <4>1, <4>2, <4>4
        <4>5. QED
          BY <4>3, <4>4
      <3>3. QED
        BY <3>1, <3>2
    <2>2. ASSUME NEW u \in Sessions, at'[u] \notin freed', NEW j \in Opened(u)'
          PROVE  fdOf'[at'[u]][j] \in Fds /\ fds'[fdOf'[at'[u]][j]] = <<at'[u], j>>
      <3>0. at'[u] = at[u] /\ freed' = freed
        BY <1>3
      <3>1. CASE u = s /\ j = k
        BY <1>2, <1>7, <3>0, <3>1
      <3>2. CASE ~(u = s /\ j = k)
        <4>1. j \in Opened(u) /\ j \in Kinds
          BY <1>5, <1>6, <2>2, <3>2
        <4>2. fdOf[at[u]][j] \in Fds /\ fds[fdOf[at[u]][j]] = <<at[u], j>>
          BY <2>2, <3>0, <4>1 DEF FdInv
        <4>3. at[u] \in Clients
          BY <1>0, <1>1, <1>3, <4>1 DEF Opened, Types, SessionType
        <4>4. fdOf'[at[u]][j] = fdOf[at[u]][j]
          BY <1>6, <1>7, <3>2, <4>1, <4>3
        <4>5. <<at[u], j>> # NoPipe
          BY <1>0, <4>3 DEF NoPipe
        <4>6. fdOf[at[u]][j] # f
          BY <1>2, <4>2, <4>5
        <4>7. QED
          BY <1>7, <3>0, <4>2, <4>4, <4>6
      <3>3. QED
        BY <3>1, <3>2
    <2>3. QED
      BY <2>1, <2>2 DEF FdInv
  <1>10. PlaceInv'
    <2>1. /\ \A d : cpc[d] # "start" /\ d \in Clients => cpc'[d] # "start"
          /\ UNCHANGED <<at, inbox, queue, freed>>
      BY <1>0, <1>1, <1>3, <1>4 DEF mainVars
    <2>2. \A u \in Sessions : at[u] \in freed => pc'[u] \in Serving
      BY <1>1, <1>6 DEF PlaceInv
    <2>3. /\ \A u \in Sessions : at[u] # NoClient => at[u] \in Clients
          /\ inbox \subseteq Clients /\ freed \subseteq Clients
          /\ \A i \in DOMAIN queue : queue[i] \in Clients
      <3>1. queue \in Seq(Clients) /\ DOMAIN queue = 1..Len(queue)
        BY LenProperties DEF Types, MainType
      <3>2. \A i \in DOMAIN queue : queue[i] \in Clients
        BY <3>1, ElementOfSeq
      <3>3. QED
        BY <1>0, <3>2 DEF Types, MainType
    <2>4. QED
      BY <2>1, <2>2, <2>3 DEF PlaceInv, Queued
  <1>11. InfoInv'
    <2>1. ASSUME NEW u \in Sessions
          PROVE  /\ pc'[u] \in Serving => info[u] = at[u]
                 /\ info[u] # NoClient => cpc'[info[u]] # "start"
                 /\ info[u] # NoClient /\ info[u] \notin freed => at[u] = info[u] /\ pc'[u] \in Serving
      <3>0. /\ info[u] # NoClient => cpc[info[u]] # "start" /\ info[u] \in Clients
            /\ k \notin Serving
        BY <1>1 DEF InfoInv, Types, DataType, Kinds, Serving
      <3>1. info[u] # NoClient => cpc'[info[u]] # "start"
        BY <1>0, <1>1, <1>3, <1>4, <3>0
      <3>2. CASE u = s
        BY <1>4, <1>6, <3>0, <3>1, <3>2 DEF InfoInv
      <3>3. CASE u # s
        BY <1>6, <3>1, <3>3 DEF InfoInv
      <3>4. QED
        BY <3>2, <3>3
    <2>2. QED
      BY <1>3, <2>1 DEF InfoInv
  <1>12. QED
    BY <1>8, <1>9, <1>10, <1>11

(* FdInv is about the descriptors, and where the sessions are.             *)
LEMMA FdSame ==
  ASSUME FdInv, UNCHANGED <<fds, fdOf, freed, at, pc>>
  PROVE  FdInv'
  <1>1. \A u \in Sessions : Opened(u)' = Opened(u)
    BY DEF Opened
  <1>2. ASSUME NEW f \in Fds, fds'[f] # NoPipe
        PROVE  \E u \in Sessions : /\ at'[u] = fds'[f][1] /\ at'[u] \notin freed'
                                   /\ fds'[f][2] \in Opened(u)' /\ fdOf'[at'[u]][fds'[f][2]] = f
    <2>1. PICK u \in Sessions : /\ at[u] = fds[f][1] /\ at[u] \notin freed
                                /\ fds[f][2] \in Opened(u) /\ fdOf[at[u]][fds[f][2]] = f
      BY <1>2 DEF FdInv
    <2>2. QED
      BY <1>1, <2>1
  <1>3. ASSUME NEW u \in Sessions, at'[u] \notin freed', NEW k \in Opened(u)'
        PROVE  fdOf'[at'[u]][k] \in Fds /\ fds'[fdOf'[at'[u]][k]] = <<at'[u], k>>
    <2>1. k \in Opened(u) /\ at[u] \notin freed
      BY <1>1, <1>3
    <2>2. fdOf[at[u]][k] \in Fds /\ fds[fdOf[at[u]][k]] = <<at[u], k>>
      BY <2>1 DEF FdInv
    <2>3. QED
      BY <2>2
  <1>4. QED
    BY <1>2, <1>3 DEF FdInv

(* The other steps of a session: those that go on with the client, and the *)
(* ends of a session.                                                      *)
LEMMA SessionSteps ==
  ASSUME DataInv, NEW s \in Sessions, SessionThread(s)
  PROVE  Types' /\ FdInv' /\ PlaceInv' /\ InfoInv'
  <1>0. /\ NoClient \notin Clients /\ freed \subseteq Clients
        /\ cpc \in [Clients -> CLabels] /\ pc \in [Sessions -> SLabels]
        /\ at \in [Sessions -> Clients \cup {NoClient}]
        /\ pipe \in [Clients \X Kinds -> Seq(Messages)]
        /\ fdOf \in [Clients -> [Kinds -> Fds \cup {0}]]
        /\ msg \in [Sessions -> Messages]
        /\ \A u \in Sessions : pc[u] = "take" <=> at[u] = NoClient
        /\ Types /\ ClientType /\ DataType /\ BookType /\ SessionType /\ MainType
        /\ FdInv /\ PlaceInv /\ InfoInv /\ RequestInv /\ LockInv
    BY SessionAssumption DEF DataInv, Types, ClientType, DataType, SessionType
  <1>1. Serving \subseteq SLabels /\ {"setinfo", "take"} \subseteq SLabels
    BY DEF Serving, SLabels, Kinds
  <1>2. pc[s] \notin Kinds \cup {"take"} => at[s] \in Clients /\ Opened(s) = Kinds
    BY <1>0, <1>1 DEF Opened, Kinds
  <1>3. ASSUME at[s] \in Clients, at[s] \notin freed, Opened(s) = Kinds
        PROVE  /\ fdOf[at[s]]["resp"] \in Fds /\ fdOf[at[s]]["notif"] \in Fds
               /\ fds[fdOf[at[s]]["resp"]] = <<at[s], "resp">>
               /\ fds[fdOf[at[s]]["notif"]] = <<at[s], "notif">>
    BY <1>0, <1>3 DEF FdInv, Kinds
  \* the types, when the session goes on
  <1>4. ASSUME NEW l \in Serving \cup {"setinfo"}, pc' = [pc EXCEPT ![s] = l], at' = at, pc[s] # "take",
               msg' \in [Sessions -> Messages], UNCHANGED <<clientVars, data, fds, mainVars, notes,
               fault, signals, blank>>,
               pipe' \in [Clients \X Kinds -> Seq(Messages)], BookType'
        PROVE  Types'
    <2>1. ClientType' /\ DataType' /\ MainType'
      BY <1>0, <1>4 DEF ClientType, DataType, MainType, clientVars, data, mainVars, signals
    <2>2. l # "take" /\ l \in SLabels
      BY <1>1 DEF Serving
    <2>3. SessionType'
      BY <1>0, <1>4, <2>2 DEF SessionType
    <2>4. QED
      BY <1>4, <2>1, <2>3 DEF Types
  <1>5. CASE TakeClient(s)
    BY <1>0, <1>5, TakesClient
  <1>6. CASE OpenPipe(s)
    BY <1>0, <1>6, OpensPipe
  <1>7. CASE EnterRead(s) \/ ReadEof(s) \/ EnterSubscribe(s) \/ Disconnect(s)
    <2>1. PICK l \in Serving : pc' = [pc EXCEPT ![s] = l] /\ pc[s] \in Serving
      BY <1>7 DEF EnterRead, ReadEof, EnterSubscribe, Disconnect, Goto, Serving
    <2>2. UNCHANGED <<clientVars, pipe, fds, data, books, at, msg, mainVars, notes, fault,
                      signals, blank>>
      BY <1>7 DEF EnterRead, ReadEof, EnterSubscribe, Disconnect, mainVars, signals
    <2>3. BookType'
      BY <1>0, <2>2 DEF BookType, books
    <2>4. pc[s] # "take"
      BY <2>1 DEF Serving
    <2>5. Types'
      BY <1>0, <1>4, <2>1, <2>2, <2>3, <2>4
    <2>6. QED
      BY <1>0, <1>1, <2>1, <2>2, <2>5, GoesOn DEF clientVars, data, mainVars
  <1>8. CASE ReadRequest(s)
    <2>1. "do" \in Serving /\ pc' = [pc EXCEPT ![s] = "do"] /\ pc[s] \in Serving /\ pc[s] # "take"
      BY <1>8 DEF ReadRequest, Goto, Serving
    <2>2. /\ UNCHANGED <<clientVars, fds, data, books, at, mainVars, notes, fault,
                         signals, blank>>
          /\ msg' = [msg EXCEPT ![s] = Head(pipe[<<at[s], "req">>])]
          /\ pipe' = [pipe EXCEPT ![<<at[s], "req">>] = Tail(@)]
          /\ pipe[<<at[s], "req">>] # <<>>
      BY <1>8 DEF ReadRequest, mainVars, signals
    <2>3. <<at[s], "req">> \in Clients \X Kinds
      BY <1>2, <1>8 DEF ReadRequest, Kinds
    <2>4. Head(pipe[<<at[s], "req">>]) \in Messages /\ Tail(pipe[<<at[s], "req">>]) \in Seq(Messages)
      BY <1>0, <2>2, <2>3, HeadTailProperties
    <2>5. BookType'
      BY <1>0, <2>2 DEF BookType, books
    <2>6. msg' \in [Sessions -> Messages] /\ pipe' \in [Clients \X Kinds -> Seq(Messages)]
      BY <1>0, <2>2, <2>4
    <2>7. Types'
      BY <1>0, <1>4, <2>1, <2>2, <2>5, <2>6
    <2>8. QED
      BY <1>0, <1>1, <2>1, <2>2, <2>7, GoesOn DEF clientVars, data, mainVars
  <1>9. CASE Subscribe(s) \/ Unsubscribe(s)
    <2>1. "answer" \in Serving /\ pc' = [pc EXCEPT ![s] = "answer"] /\ pc[s] \in Serving /\ pc[s] # "take"
      BY <1>9 DEF Subscribe, Unsubscribe, Goto, Serving
    <2>2. /\ UNCHANGED <<clientVars, pipe, fds, data, kept, at, msg, mainVars, notes, fault,
                         signals, blank>>
          /\ pc[s] \in {"do", "lock"} /\ msg[s].op \in {"SUBSCRIBE", "UNSUBSCRIBE"}
      BY <1>0, <1>9 DEF Subscribe, Unsubscribe, LockInv, mainVars, signals
    <2> DEFINE k == msg[s].key
    <2>3. k \in Keys
      BY <1>0, <2>2 DEF RequestInv, IsRequest
    <2>4. /\ sessKeys \in [Sessions -> SUBSET Keys]
          /\ keySubs \in [Keys -> SUBSET [session : Sessions, fd : Fds, owner : Clients]]
          /\ \A j \in Keys : IsFiniteSet(keySubs[j])
          /\ kept' \subseteq Keys
      BY <1>0, <2>2 DEF BookType
    <2>5. sessKeys' \in [Sessions -> SUBSET Keys]
      BY <1>9, <2>3, <2>4 DEF Subscribe, Unsubscribe
    <2>6. ASSUME Subscribe(s)
          PROVE  /\ keySubs' \in [Keys -> SUBSET [session : Sessions, fd : Fds, owner : Clients]]
                 /\ \A j \in Keys : IsFiniteSet(keySubs'[j])
      <3> DEFINE e == [session |-> s, fd |-> fdOf[at[s]]["notif"], owner |-> at[s]]
      <3>1. keySubs' = keySubs \/ keySubs' = [keySubs EXCEPT ![k] = @ \cup {e}]
        BY <2>6 DEF Subscribe
      <3>2. at[s] \in Clients /\ fdOf[at[s]]["notif"] \in Fds
        BY <1>0, <1>2, <2>2, <2>6 DEF Subscribe, LockInv, Kinds
      <3>3. e \in [session : Sessions, fd : Fds, owner : Clients]
        BY <3>2
      <3> HIDE DEF e
      <3>4. IsFiniteSet(keySubs[k] \cup {e})
        BY <2>3, <2>4, FS_AddElement
      <3> HIDE DEF k
      <3>5. QED
        BY <2>3, <2>4, <3>1, <3>3, <3>4, ZenonT(60)
    <2>7. ASSUME Unsubscribe(s)
          PROVE  /\ keySubs' \in [Keys -> SUBSET [session : Sessions, fd : Fds, owner : Clients]]
                 /\ \A j \in Keys : IsFiniteSet(keySubs'[j])
      <3> DEFINE rest == {e \in keySubs[k] : e.session # s}
      <3>1. keySubs' = keySubs \/ keySubs' = [keySubs EXCEPT ![k] = rest]
        BY <2>7 DEF Unsubscribe
      <3>2. rest \subseteq keySubs[k]
        OBVIOUS
      <3>3. IsFiniteSet(rest)
        BY <2>3, <2>4, <3>2, FS_Subset
      <3> HIDE DEF rest, k
      <3>4. QED
        BY <2>3, <2>4, <3>1, <3>2, <3>3
    <2>8. BookType'
      BY <1>9, <2>4, <2>5, <2>6, <2>7 DEF BookType
    <2>9. Types'
      BY <1>0, <1>4, <2>1, <2>2, <2>8
    <2>10. QED
      BY <1>0, <1>1, <2>1, <2>2, <2>9, GoesOn DEF clientVars, data, mainVars
  <1>10. CASE Greet(s)
    <2>1. /\ pc[s] = "greet" /\ pc' = [pc EXCEPT ![s] = "setinfo"]
          /\ pipe' = Writes(fdOf[at[s]]["resp"], Message("CONNECT", NoKey, at[s]))
          /\ UNCHANGED <<clientVars, fds, data, books, at, msg, mainVars, notes, fault,
                         signals, blank>>
      BY <1>10 DEF Greet, Goto, mainVars, signals
    <2>2. at[s] \in Clients /\ at[s] \notin freed /\ Opened(s) = Kinds
      BY <1>0, <1>2, <2>1 DEF PlaceInv, Kinds, Serving
    <2>3. Message("CONNECT", NoKey, at[s]) \in Messages
      BY <2>2 DEF Message, Messages
    <2>4. pipe' \in [Clients \X Kinds -> Seq(Messages)]
      BY <1>0, <1>3, <2>1, <2>2, <2>3, WritesFacts
    <2>5. BookType'
      BY <1>0, <2>1 DEF BookType, books
    <2>6. Types'
      BY <1>0, <1>4, <2>1, <2>4, <2>5
    <2>7. QED
      BY <1>0, <1>1, <2>1, <2>6, GoesOn DEF clientVars, data, mainVars
  <1>11. CASE Answer(s)
    <2>1. /\ pc[s] = "answer" /\ \E l \in {"clean", "loop"} : pc' = [pc EXCEPT ![s] = l]
          /\ pipe' = Writes(fdOf[at[s]]["resp"], msg[s])
          /\ msg' = [msg EXCEPT ![s] = NoMessage]
          /\ UNCHANGED <<clientVars, fds, data, books, at, mainVars, notes, fault,
                         signals, blank>>
      BY <1>11 DEF Answer, Goto, mainVars, signals
    <2>2. at[s] \in Clients /\ at[s] \notin freed /\ Opened(s) = Kinds
      BY <1>2, <1>11, <2>1 DEF Answer, DataIsThere, UsesData, Kinds
    <2>3. NoMessage \in Messages
      BY DEF NoMessage, Message, Messages
    <2>4. pipe' \in [Clients \X Kinds -> Seq(Messages)]
      BY <1>0, <1>3, <2>1, <2>2, WritesFacts
    <2>5. BookType'
      BY <1>0, <2>1 DEF BookType, books
    <2>6. PICK l \in {"clean", "loop"} : pc' = [pc EXCEPT ![s] = l]
      BY <2>1
    <2>7. l \in Serving /\ pc[s] \in Serving
      BY <2>1 DEF Serving
    <2>8. msg' \in [Sessions -> Messages]
      BY <1>0, <2>1, <2>3
    <2>9. Types'
      BY <1>0, <1>4, <2>1, <2>4, <2>5, <2>6, <2>7, <2>8
    <2>10. QED
      BY <1>0, <1>1, <2>1, <2>6, <2>7, <2>9, GoesOn DEF clientVars, data, mainVars
  <1>12. CASE SetInfo(s)
    <2>1. /\ pc[s] = "setinfo" /\ pc' = [pc EXCEPT ![s] = "loop"] /\ info' = [info EXCEPT ![s] = at[s]]
          /\ UNCHANGED <<clientVars, pipe, fds, fdOf, freed, books, at, msg, mainVars, notes,
                         fault, signals, blank>>
      BY <1>12 DEF SetInfo, Goto
    <2>2. at[s] \in Clients /\ at[s] \notin freed /\ "loop" \in Serving
      BY <1>0, <1>2, <2>1 DEF PlaceInv, Kinds, Serving
    <2>3. info \in [Sessions -> Clients \cup {NoClient}]
      BY <1>0 DEF DataType
    <2>4. /\ info' \in [Sessions -> Clients \cup {NoClient}] /\ info'[s] = at[s] /\ pc'[s] = "loop"
          /\ \A u \in Sessions : u # s => info'[u] = info[u] /\ pc'[u] = pc[u]
      BY <1>0, <2>1, <2>2, <2>3
    <2>5. \A u \in Sessions : Opened(u)' = Opened(u)
      <3>1. Opened(s)' = Opened(s)
        BY <2>1, <2>4 DEF Opened
      <3>2. \A u \in Sessions : u # s => Opened(u)' = Opened(u)
        BY <2>4 DEF Opened
      <3>3. QED
        BY <3>1, <3>2
    <2>6. Types'
      <3>1. ClientType' /\ BookType' /\ MainType'
        BY <1>0, <2>1 DEF ClientType, BookType, MainType, clientVars, books, mainVars, signals
      <3>2. DataType'
        BY <1>0, <2>1, <2>4 DEF DataType
      <3>3. SessionType'
        BY <1>0, <1>1, <2>1, <2>2 DEF SessionType
      <3>4. QED
        BY <3>1, <3>2, <3>3 DEF Types
    <2>7. FdInv'
      <3>1. ASSUME NEW f \in Fds, fds'[f] # NoPipe
            PROVE  \E u \in Sessions : /\ at'[u] = fds'[f][1] /\ at'[u] \notin freed'
                                       /\ fds'[f][2] \in Opened(u)' /\ fdOf'[at'[u]][fds'[f][2]] = f
        <4>1. PICK u \in Sessions : /\ at[u] = fds[f][1] /\ at[u] \notin freed
                                    /\ fds[f][2] \in Opened(u) /\ fdOf[at[u]][fds[f][2]] = f
          BY <1>0, <2>1, <3>1 DEF FdInv
        <4>2. QED
          BY <2>1, <2>5, <4>1
      <3>2. ASSUME NEW u \in Sessions, at'[u] \notin freed', NEW k \in Opened(u)'
            PROVE  fdOf'[at'[u]][k] \in Fds /\ fds'[fdOf'[at'[u]][k]] = <<at'[u], k>>
        <4>1. k \in Opened(u) /\ at[u] \notin freed
          BY <2>1, <2>5, <3>2
        <4>2. fdOf[at[u]][k] \in Fds /\ fds[fdOf[at[u]][k]] = <<at[u], k>>
          BY <1>0, <4>1 DEF FdInv
        <4>3. QED
          BY <2>1, <4>2
      <3>3. QED
        BY <3>1, <3>2 DEF FdInv
    <2>8. PlaceInv'
      <3>1. \A u \in Sessions : at[u] \in freed => pc'[u] \in Serving
        BY <1>0, <2>2, <2>4 DEF PlaceInv
      <3>2. QED
        BY <1>0, <2>1, <3>1 DEF PlaceInv, Queued, clientVars, mainVars
    <2>9. InfoInv'
      <3>1. cpc[at[s]] # "start"
        BY <1>0, <2>2 DEF PlaceInv
      <3>2. QED
        BY <1>0, <2>1, <2>2, <2>4, <3>1 DEF InfoInv, clientVars
    <2>10. QED
      BY <2>6, <2>7, <2>8, <2>9
  <1>13. CASE GreetFails(s) \/ DropClient(s) \/ CleanSession(s)
    <2>1. at[s] \in Clients /\ at[s] \notin freed /\ Opened(s) = Kinds
      BY <1>0, <1>2, <1>13 DEF GreetFails, DropClient, CleanSession, DataIsThere, UsesData, PlaceInv,
         Serving, Kinds
    <2>2. /\ fds' = Closing(at[s]) /\ freed' = freed \cup {at[s]}
          /\ UNCHANGED <<fdOf, info, clientVars, pipe, keySubs, kept, mainVars, notes, fault, signals,
                         blank>>
          /\ msg' = msg /\ (sessKeys' = sessKeys \/ sessKeys' = [sessKeys EXCEPT ![s] = {}])
          /\ \/ pc' = [pc EXCEPT ![s] = "take"] /\ at' = [at EXCEPT ![s] = NoClient]
             \/ pc[s] = "eof" /\ pc' = [pc EXCEPT ![s] = "loop"] /\ at' = at
      BY <1>13 DEF GreetFails, DropClient, CleanSession, Goto, books
    <2>3. /\ \A u \in Sessions : u # s => pc'[u] = pc[u] /\ at'[u] = at[u]
          /\ \/ at'[s] = at[s] /\ {pc[s], pc'[s]} \subseteq Serving
             \/ at'[s] = NoClient /\ pc'[s] = "take"
      BY <1>0, <2>2 DEF Serving
    <2>4. Types'
      <3>1. ClientType' /\ MainType'
        BY <1>0, <2>2 DEF ClientType, MainType, clientVars, mainVars, signals
      <3>2. DataType'
        BY <1>0, <2>1, <2>2, ClosingFacts DEF DataType
      <3>3. SessionType'
        BY <1>0, <1>1, <2>1, <2>2, <2>3, ZenonT(60) DEF SessionType, Serving
      <3>4. BookType'
        BY <1>0, <2>2 DEF BookType
      <3>5. QED
        BY <3>1, <3>2, <3>3, <3>4 DEF Types
    <2>5. QED
      BY <1>0, <2>1, <2>2, <2>3, <2>4, DropsClient DEF clientVars, mainVars
  <1>14. CASE UseFreed(s)
    <2>1. /\ fault' = TRUE
          /\ UNCHANGED <<clientVars, pipe, fds, data, books, sessionVars, mainVars, notes,
                         signals, blank>>
      BY <1>14 DEF UseFreed
    <2>2. Types'
      BY <1>0, <2>1 DEF Types, ClientType, DataType, BookType, SessionType, MainType, clientVars, data,
         books, sessionVars, mainVars, signals
    <2>3. FdInv'
      BY <1>0, <2>1, FdSame DEF data, sessionVars
    <2>4. PlaceInv' /\ InfoInv'
      BY <1>0, <2>1 DEF PlaceInv, InfoInv, Queued, clientVars, data, sessionVars, mainVars
    <2>5. QED
      BY <2>2, <2>3, <2>4
  <1>15. QED
    BY <1>5, <1>6, <1>7, <1>8, <1>9, <1>10, <1>11, <1>12, <1>13, <1>14 DEF SessionThread

(* The main thread of the server. *)
LEMMA MainSteps ==
  ASSUME DataInv, ~fault, MainThread \/ Signal \/ SignalCutsWait
  PROVE  Types' /\ FdInv' /\ PlaceInv' /\ InfoInv' /\ SigInv'
  <1>0. /\ NoClient \notin Clients /\ freed \subseteq Clients
        /\ inbox \subseteq Clients /\ queue \in Seq(Clients) /\ mainAt \in Sessions
        /\ mainPc \in {"enter", "read", "add", "tree", "data"} /\ places \in Nat
        /\ newcomer \in inbox \cup {NoClient} /\ (mainPc = "add" <=> newcomer # NoClient)
        /\ fault \in BOOLEAN /\ sigFlag \in BOOLEAN /\ signalled \in BOOLEAN /\ late \in BOOLEAN
        /\ Types /\ ClientType /\ DataType /\ BookType /\ SessionType /\ MainType
        /\ FdInv /\ PlaceInv /\ InfoInv /\ SigInv
    BY SessionAssumption DEF DataInv, Types, DataType, MainType
  <1>1. CASE EnterServerRead \/ ReadServerPipe \/ Signal \/ CleanTree
    <2>1. /\ UNCHANGED <<clientVars, pipe, fds, data, keySubs, kept, sessionVars, mainAt, inbox,
                         queue, places, notes, fault, blank>>
          /\ mainPc' \in {"enter", "read", "add", "tree", "data"}
          /\ newcomer' \in inbox \cup {NoClient} /\ (mainPc' = "add" <=> newcomer' # NoClient)
          /\ sigFlag' \in BOOLEAN /\ signalled' \in BOOLEAN /\ late' \in BOOLEAN
          /\ sessKeys' = sessKeys \/ sessKeys' = [sessKeys EXCEPT ![mainAt] = {}]
      <3>1. CASE EnterServerRead
        BY <1>0, <3>1 DEF EnterServerRead, books, signals
      <3>2. CASE ReadServerPipe
        BY <1>0, <3>2 DEF ReadServerPipe, books, signals
      <3>3. CASE Signal
        BY <1>0, <3>3 DEF Signal, SendSignal, TestFlag, books
      <3>4. CASE CleanTree
        BY <1>0, <3>4 DEF CleanTree, signals
      <3>5. QED
        BY <1>1, <3>1, <3>2, <3>3, <3>4
    <2>2. SigInv'
      BY <1>0, <1>1 DEF EnterServerRead, ReadServerPipe, Signal, SendSignal, CleanTree, TestFlag,
         signals, SigInv
    <2>3. ClientType' /\ DataType' /\ SessionType'
      BY <1>0, <2>1 DEF ClientType, DataType, SessionType, clientVars, data, sessionVars
    <2>4. BookType'
      BY <1>0, <2>1 DEF BookType
    <2>5. MainType'
      BY <1>0, <2>1 DEF MainType
    <2>6. FdInv'
      BY <1>0, <2>1, FdSame DEF data, sessionVars
    <2>7. PlaceInv' /\ InfoInv'
      BY <1>0, <2>1 DEF PlaceInv, InfoInv, Queued, clientVars, data, sessionVars
    <2>8. QED
      BY <2>2, <2>3, <2>4, <2>5, <2>6, <2>7 DEF Types
  <1>2. CASE Admit \/ SignalCutsWait
    <2>1. PICK c \in inbox : inbox' = inbox \ {c} /\ queue' = Append(queue, c)
      BY <1>0, <1>2 DEF Admit, SignalCutsWait, Enqueue
    <2>2. /\ UNCHANGED <<clientVars, pipe, fds, data, books, sessionVars, mainAt, notes,
                         fault, blank>>
          /\ mainPc' = IF sigFlag' THEN "tree" ELSE "enter"
          /\ newcomer' = NoClient
          /\ UNCHANGED signals \/ (signalled' = TRUE /\ sigFlag' = TRUE /\ late' \in BOOLEAN)
          /\ places' \in Nat
      <3>1. CASE Admit
        BY <1>0, <3>1 DEF Admit, Enqueue, TestFlag
      <3>2. CASE SignalCutsWait
        BY <1>0, <3>2 DEF SignalCutsWait, SendSignal, Enqueue, TestFlag
      <3>3. QED
        BY <1>2, <3>1, <3>2
    <2>3. c \in Clients
      BY <1>0, <2>1
    <2>4. /\ queue' \in Seq(Clients) /\ Len(queue) \in Nat /\ DOMAIN queue = 1..Len(queue)
          /\ DOMAIN queue' = 1..(Len(queue) + 1) /\ queue'[Len(queue) + 1] = c
          /\ \A i \in DOMAIN queue : queue'[i] = queue[i]
      BY <1>0, <2>1, <2>3, AppendProperties, LenProperties
    <2>5. DOMAIN queue' = DOMAIN queue \cup {Len(queue) + 1} /\ Len(queue) + 1 \notin DOMAIN queue
      BY <2>4
    <2>6. ClientType' /\ DataType' /\ BookType' /\ SessionType'
      BY <1>0, <2>2 DEF ClientType, DataType, BookType, SessionType, clientVars, data, books, sessionVars
    <2>7. MainType'
      BY <1>0, <2>1, <2>2, <2>4 DEF MainType, signals
    <2>8. FdInv'
      BY <1>0, <2>2, FdSame DEF data, sessionVars
    <2>9. PlaceInv'
      <3>0. UNCHANGED <<at, pc, cpc, freed>>
        BY <2>2 DEF data, sessionVars, clientVars
      <3>1. \A i \in DOMAIN queue : queue[i] # c
        BY <1>0 DEF PlaceInv, Queued
      <3>2. \A s \in Sessions : at[s] # NoClient => \A i \in DOMAIN queue' : queue'[i] # at[s]
        BY <1>0, <2>1, <2>4, <2>5 DEF PlaceInv, Queued
      <3>3. \A d \in inbox' : \A i \in DOMAIN queue' : queue'[i] # d
        BY <1>0, <2>1, <2>4, <2>5 DEF PlaceInv, Queued
      <3>4. \A i, j \in DOMAIN queue' : queue'[i] = queue'[j] => i = j
        BY <1>0, <2>4, <2>5, <3>1 DEF PlaceInv
      <3>5. \A i \in DOMAIN queue' : queue'[i] \notin freed /\ cpc[queue'[i]] # "start"
        BY <1>0, <2>4, <2>5 DEF PlaceInv
      <3>6. QED
        BY <1>0, <2>1, <3>0, <3>2, <3>3, <3>4, <3>5 DEF PlaceInv, Queued
    <2>10. InfoInv' /\ SigInv'
      BY <1>0, <1>2, <2>2 DEF InfoInv, SigInv, data, sessionVars, clientVars, signals
    <2>11. QED
      BY <2>6, <2>7, <2>8, <2>9, <2>10 DEF Types
  <1>3. CASE CleanData
    <2> DEFINE c == info[mainAt]
    <2>1. /\ UNCHANGED <<clientVars, pipe, fdOf, info, books, sessionVars, inbox, queue, newcomer,
                         places, notes, signalled, blank>>
          /\ fault' = (c \in freed)
          /\ fds' = IF c \in freed \cup {NoClient} THEN fds ELSE Closing(c)
          /\ freed' = freed \cup ({c} \ {NoClient})
          /\ mainPc = "data" /\ mainPc' \in {"enter", "tree"}
          /\ sigFlag' = (sigFlag /\ mainAt < SessionCount - 1) /\ late' = (late /\ sigFlag')
      BY <1>3 DEF CleanData
    <2>2. mainAt' \in Sessions
      BY <1>0, <1>3, SessionAssumption DEF CleanData, Sessions
    <2>3. ClientType' /\ BookType' /\ SessionType'
      BY <1>0, <2>1 DEF ClientType, BookType, SessionType, clientVars, books, sessionVars
    <2>4. SigInv'
      BY <1>0, <2>1 DEF SigInv
    <2>5. MainType'
      <3>1. fault' \in BOOLEAN
        BY <2>1
      <3>2. sigFlag' \in BOOLEAN /\ late' \in BOOLEAN
        BY <2>1
      <3>3. QED
        BY <1>0, <2>1, <2>2, <3>1, <3>2 DEF MainType
    <2>6. c \in Clients \cup {NoClient}
      BY <1>0 DEF DataType
    <2>7. CASE c \in freed \cup {NoClient}
      <3>1. fds' = fds /\ freed' = freed
        BY <2>1, <2>7
      <3>2. DataType'
        BY <1>0, <2>1, <3>1 DEF DataType
      <3>3. FdInv'
        BY <1>0, <2>1, <3>1, FdSame DEF sessionVars
      <3>4. PlaceInv' /\ InfoInv'
        BY <1>0, <2>1, <3>1 DEF PlaceInv, InfoInv, Queued, clientVars, sessionVars
      <3>5. QED
        BY <2>3, <2>4, <2>5, <3>2, <3>3, <3>4 DEF Types
    <2>8. CASE c \notin freed \cup {NoClient}
      <3>1. at[mainAt] = c /\ pc[mainAt] \in Serving /\ c \in Clients
        BY <1>0, <2>6, <2>8 DEF InfoInv
      <3>2. Opened(mainAt) = Kinds
        BY <3>1 DEF Opened, Serving
      <3>3. fds' = Closing(at[mainAt]) /\ freed' = freed \cup {at[mainAt]}
        BY <2>1, <2>8, <3>1
      <3>4. DataType'
        BY <1>0, <2>1, <2>8, <3>1, <3>2, <3>3, ClosingFacts DEF DataType
      <3>5. FdInv' /\ PlaceInv' /\ InfoInv'
        BY <1>0, <2>1, <2>8, <3>1, <3>2, <3>3, DropsClient DEF clientVars, sessionVars
      <3>6. QED
        BY <2>3, <2>4, <2>5, <3>4, <3>5 DEF Types
    <2>9. QED
      BY <2>7, <2>8
  <1>4. QED
    BY <1>1, <1>2, <1>3 DEF MainThread

(* The steps of the clients, and the notifications. *)
LEMMA OtherSteps ==
  ASSUME DataInv, (\E c \in Clients : ClientStep(c)) \/ (\E k \in Keys : Notify(k) \/ KeepList(k))
  PROVE  Types' /\ FdInv' /\ PlaceInv' /\ InfoInv' /\ SigInv'
  <1>0. /\ NoClient \notin Clients /\ freed \subseteq Clients /\ inbox \subseteq Clients
        /\ queue \in Seq(Clients)
        /\ Types /\ ClientType /\ DataType /\ BookType /\ SessionType /\ MainType
        /\ FdInv /\ PlaceInv /\ InfoInv /\ SigInv
    BY SessionAssumption DEF DataInv, Types, DataType, MainType
  <1>1. ASSUME NEW c \in Clients, ClientStep(c)
        PROVE  Types' /\ FdInv' /\ PlaceInv' /\ InfoInv' /\ SigInv'
    <2>1. /\ ClientType'
          /\ cpc[c] # "start" => cpc'[c] # "start"
          /\ \A d \in Clients : d # c => cpc'[d] = cpc[d]
          /\ UNCHANGED <<fds, data, books, sessionVars, mainPc, mainAt, queue, newcomer, places, notes, fault, signals>>
          /\ inbox' = inbox \/ (cpc[c] = "start" /\ cpc'[c] = "resp" /\ inbox' = inbox \cup {c})
      BY <1>0, <1>1, ClientSteps
    <2>2. DataType' /\ BookType' /\ SessionType' /\ MainType'
      BY <1>0, <2>1 DEF DataType, BookType, SessionType, MainType, data, books, sessionVars, signals
    <2>3. FdInv'
      BY <1>0, <2>1, FdSame DEF data, sessionVars
    <2>4. \A d \in Clients : cpc[d] # "start" => cpc'[d] # "start"
      BY <2>1
    <2>5. PlaceInv'
      <3>0. UNCHANGED <<at, pc, freed, queue>>
        BY <2>1 DEF data, sessionVars
      <3>1. \A i \in DOMAIN queue : queue[i] \in Clients
        BY <1>0, LenProperties, ElementOfSeq
      <3>2. /\ \A s \in Sessions : at[s] # NoClient =>
                 at[s] \in Clients /\ cpc'[at[s]] # "start" /\ at[s] \notin inbox'
        BY <1>0, <2>1, <2>4 DEF PlaceInv, SessionType
      <3>3. \A d \in inbox' : d \notin freed /\ cpc'[d] # "start" /\ ~Queued(d)
        <4>1. cpc[c] = "start" => c \notin freed /\ ~Queued(c)
          BY <1>0, <3>1 DEF PlaceInv, Queued
        <4>2. QED
          BY <1>0, <2>1, <2>4, <4>1 DEF PlaceInv
      <3>4. \A i \in DOMAIN queue : cpc'[queue[i]] # "start"
        BY <1>0, <2>4, <3>1 DEF PlaceInv
      <3>5. \A d \in freed : cpc'[d] # "start"
        BY <1>0, <2>4 DEF PlaceInv
      <3>6. QED
        BY <1>0, <3>0, <3>2, <3>3, <3>4, <3>5 DEF PlaceInv, Queued
    <2>6. InfoInv'
      <3>1. \A s \in Sessions : info[s] # NoClient => cpc'[info[s]] # "start"
        BY <1>0, <2>4 DEF InfoInv, DataType
      <3>2. QED
        BY <1>0, <2>1, <3>1 DEF InfoInv, data, sessionVars
    <2>7. SigInv'
      BY <1>0, <2>1 DEF SigInv, signals
    <2>8. QED
      BY <2>1, <2>2, <2>3, <2>5, <2>6, <2>7 DEF Types
  <1>2. ASSUME NEW k \in Keys, Notify(k)
        PROVE  Types' /\ FdInv' /\ PlaceInv' /\ InfoInv' /\ SigInv'
    <2>1. /\ UNCHANGED <<clientVars, fds, data, books, sessionVars, mainVars, fault,
                         signals, blank>>
          /\ notes < MaxNotes /\ notes' = notes + 1
      BY <1>2 DEF Notify
    <2>2. pipe' \in [Clients \X Kinds -> Seq(Messages)]
      BY <1>0, <1>2, NotifyFacts
    <2>3. ClientType' /\ DataType' /\ BookType' /\ SessionType'
      BY <1>0, <2>1, <2>2 DEF ClientType, DataType, BookType, SessionType, clientVars, data, books,
         sessionVars
    <2>4. notes' \in 0..MaxNotes
      BY <1>0, <2>1, SessionAssumption DEF MainType
    <2>5. MainType'
      BY <1>0, <2>1, <2>4 DEF MainType, mainVars, signals
    <2>6. FdInv'
      BY <1>0, <2>1, FdSame DEF data, sessionVars
    <2>7. PlaceInv' /\ InfoInv' /\ SigInv'
      BY <1>0, <2>1 DEF PlaceInv, InfoInv, SigInv, Queued, clientVars, data, sessionVars, mainVars, signals
    <2>8. QED
      BY <2>3, <2>5, <2>6, <2>7 DEF Types
  <1>3. ASSUME NEW k \in Keys, KeepList(k)
        PROVE  Types' /\ FdInv' /\ PlaceInv' /\ InfoInv' /\ SigInv'
    <2>1. /\ UNCHANGED <<clientVars, pipe, fds, data, sessKeys, keySubs, sessionVars, mainVars, fault,
                         signals, blank>>
          /\ notes < MaxNotes /\ notes' = notes + 1 /\ kept' = kept \cup {k}
      BY <1>3 DEF KeepList
    <2>2. ClientType' /\ DataType' /\ BookType' /\ SessionType'
      BY <1>0, <2>1 DEF ClientType, DataType, BookType, SessionType, clientVars, data, sessionVars
    <2>3. notes' \in 0..MaxNotes
      BY <1>0, <2>1, SessionAssumption DEF MainType
    <2>4. MainType'
      BY <1>0, <2>1, <2>3 DEF MainType, mainVars, signals
    <2>5. FdInv'
      BY <1>0, <2>1, FdSame DEF data, sessionVars
    <2>6. PlaceInv' /\ InfoInv' /\ SigInv'
      BY <1>0, <2>1 DEF PlaceInv, InfoInv, SigInv, Queued, clientVars, data, sessionVars, mainVars, signals
    <2>7. QED
      BY <2>2, <2>4, <2>5, <2>6 DEF Types
  <1>4. QED
    BY <1>1, <1>2, <1>3

(* What the sessions read and answer are requests of their clients. *)
LEMMA RequestSteps ==
  ASSUME DataInv, Next
  PROVE  RequestInv'
  <1>0. /\ pipe \in [Clients \X Kinds -> Seq(Messages)]
        /\ pc \in [Sessions -> SLabels] /\ at \in [Sessions -> Clients \cup {NoClient}]
        /\ \A u \in Sessions : pc[u] = "take" <=> at[u] = NoClient
        /\ msg \in [Sessions -> Messages]
        /\ Types /\ ClientType /\ DataType /\ SessionType /\ FdInv /\ PlaceInv /\ RequestInv
        /\ \A c \in Clients : <<c, "req">> \in Clients \X Kinds
    BY DEF DataInv, Types, ClientType, SessionType, Kinds
  <1>1. ASSUME \A c \in Clients : pipe'[<<c, "req">>] = pipe[<<c, "req">>],
               \A u \in Sessions : pc'[u] \in {"do", "lock", "answer"} =>
                 pc[u] \in {"do", "lock", "answer"} /\ msg'[u] = msg[u] /\ at'[u] = at[u]
        PROVE  RequestInv'
    BY <1>0, <1>1 DEF RequestInv
  <1>2. ASSUME NEW c \in Clients, ClientStep(c)
        PROVE  RequestInv'
    <2>1. /\ \A p \in Clients \X Kinds : p[1] # c => pipe'[p] = pipe[p]
          /\ \/ pipe'[<<c, "req">>] = pipe[<<c, "req">>]
             \/ \E m \in Messages : IsRequest(m, c) /\ pipe'[<<c, "req">>] = Append(pipe[<<c, "req">>], m)
          /\ UNCHANGED <<pc, at, msg>>
      BY <1>0, <1>2, ClientSteps DEF sessionVars
    <2>2. \A d \in Clients : d # c => pipe'[<<d, "req">>] = pipe[<<d, "req">>]
      BY <1>0, <2>1
    <2>3. CASE pipe'[<<c, "req">>] = pipe[<<c, "req">>]
      BY <1>1, <2>1, <2>2, <2>3
    <2>4. ASSUME NEW m \in Messages, IsRequest(m, c),
                 pipe'[<<c, "req">>] = Append(pipe[<<c, "req">>], m)
          PROVE  RequestInv'
      <3> DEFINE q == pipe[<<c, "req">>]
      <3>1. q \in Seq(Messages)
        BY <1>0
      <3>2. \A i \in DOMAIN Append(q, m) : (i \in DOMAIN q /\ Append(q, m)[i] = q[i]) \/ Append(q, m)[i] = m
        BY <3>1, AppendFacts
      <3>3. \A i \in DOMAIN pipe'[<<c, "req">>] : IsRequest(pipe'[<<c, "req">>][i], c)
        BY <1>0, <2>4, <3>2 DEF RequestInv
      <3>4. QED
        BY <1>0, <2>1, <2>2, <3>3 DEF RequestInv
    <2>5. QED
      BY <2>1, <2>3, <2>4
  <1>3. ASSUME NEW s \in Sessions, SessionThread(s)
        PROVE  RequestInv'
    <2>1. CASE ReadRequest(s)
      <3>1. /\ pc[s] = "reading" /\ pc' = [pc EXCEPT ![s] = "do"] /\ at' = at
            /\ msg' = [msg EXCEPT ![s] = Head(pipe[<<at[s], "req">>])]
            /\ pipe' = [pipe EXCEPT ![<<at[s], "req">>] = Tail(@)]
            /\ pipe[<<at[s], "req">>] # <<>>
        BY <2>1 DEF ReadRequest, Goto
      <3>2. at[s] \in Clients
        BY <1>0, <3>1
      <3> DEFINE q == pipe[<<at[s], "req">>]
      <3>3. q \in Seq(Messages) /\ q # <<>>
        BY <1>0, <3>1, <3>2
      <3>4. /\ 1 \in DOMAIN q /\ Head(q) = q[1]
            /\ \A i \in DOMAIN Tail(q) : i + 1 \in DOMAIN q /\ Tail(q)[i] = q[i + 1]
        BY <3>3, TailFacts
      <3>5. \A i \in DOMAIN q : IsRequest(q[i], at[s])
        BY <1>0, <3>2 DEF RequestInv
      <3>6. /\ msg'[s] = Head(q) /\ \A u \in Sessions : u # s => msg'[u] = msg[u] /\ pc'[u] = pc[u]
            /\ pipe'[<<at[s], "req">>] = Tail(q)
            /\ \A c \in Clients : c # at[s] => pipe'[<<c, "req">>] = pipe[<<c, "req">>]
        BY <1>0, <3>1, <3>2
      <3>7. IsRequest(Head(q), at[s]) /\ \A i \in DOMAIN Tail(q) : IsRequest(Tail(q)[i], at[s])
        BY <3>4, <3>5
      <3> HIDE DEF q
      <3>8. ASSUME NEW c \in Clients, NEW i \in DOMAIN pipe'[<<c, "req">>]
            PROVE  IsRequest(pipe'[<<c, "req">>][i], c)
        <4>1. CASE c = at[s]
          BY <3>6, <3>7, <3>8, <4>1
        <4>2. CASE c # at[s]
          BY <1>0, <3>6, <3>8, <4>2 DEF RequestInv
        <4>3. QED
          BY <4>1, <4>2
      <3>9. ASSUME NEW u \in Sessions, pc'[u] \in {"do", "lock", "answer"}
            PROVE  IsRequest(msg'[u], at'[u])
        <4>1. CASE u = s
          BY <3>1, <3>6, <3>7, <4>1
        <4>2. CASE u # s
          BY <1>0, <3>1, <3>6, <3>9, <4>2 DEF RequestInv
        <4>3. QED
          BY <4>1, <4>2
      <3>10. QED
        BY <3>8, <3>9 DEF RequestInv
    <2>2. CASE Greet(s) \/ Answer(s)
      <3>1. /\ pc[s] \in {"greet", "answer"} /\ at' = at
            /\ \E l \in {"setinfo", "clean", "loop"} : pc' = [pc EXCEPT ![s] = l]
            /\ msg' = msg \/ msg' = [msg EXCEPT ![s] = NoMessage]
        BY <2>2 DEF Greet, Answer, Goto
      <3>2. at[s] \in Clients /\ at[s] \notin freed /\ "resp" \in Opened(s)
        <4>1. at[s] \in Clients
          BY <1>0, <3>1
        <4>2. "resp" \in Opened(s)
          BY <3>1 DEF Opened, Kinds
        <4>3. CASE Greet(s)
          BY <1>0, <4>1, <4>2, <4>3 DEF Greet, PlaceInv, Serving
        <4>4. CASE Answer(s)
          BY <4>1, <4>2, <4>4 DEF Answer, DataIsThere, UsesData
        <4>5. QED
          BY <2>2, <4>3, <4>4
      <3>3. fdOf[at[s]]["resp"] \in Fds
        BY <1>0, <3>2 DEF FdInv
      <3>4. \E m \in Messages : pipe' = Writes(fdOf[at[s]]["resp"], m)
        <4>1. Message("CONNECT", NoKey, at[s]) \in Messages
          BY <3>2 DEF Message, Messages
        <4>2. QED
          BY <1>0, <2>2, <4>1 DEF Greet, Answer
      <3>5. \A c \in Clients : pipe'[<<c, "req">>] = pipe[<<c, "req">>]
        <4>1. PICK m \in Messages : pipe' = Writes(fdOf[at[s]]["resp"], m)
          BY <3>4
        <4>2. \A c \in Clients : Writes(fdOf[at[s]]["resp"], m)[<<c, "req">>] = pipe[<<c, "req">>]
          BY <1>0, <3>3, WritesFacts
        <4>3. QED
          BY <4>1, <4>2
      <3>6. \A u \in Sessions : pc'[u] \in {"do", "lock", "answer"} =>
              pc[u] \in {"do", "lock", "answer"} /\ msg'[u] = msg[u] /\ at'[u] = at[u]
        BY <1>0, <3>1
      <3>7. QED
        BY <1>1, <3>5, <3>6
    <2>3. CASE ~(ReadRequest(s) \/ Greet(s) \/ Answer(s))
      <3>1. /\ pipe' = pipe /\ msg' = msg
            /\ \/ UNCHANGED <<pc, at>>
               \/ /\ pc[s] \in {"do", "lock"} /\ at' = at
                  /\ \E l \in {"lock", "answer", "hung"} : pc' = [pc EXCEPT ![s] = l]
               \/ /\ \E l \in SLabels \ {"do", "lock", "answer"} : pc' = [pc EXCEPT ![s] = l]
                  /\ \A u \in Sessions : u # s => at'[u] = at[u]
        <4>1. {"resp", "req", "notif", "greet", "take", "loop", "reading", "eof"} \subseteq SLabels \ {"do", "lock", "answer"}
          BY DEF SLabels, Kinds
        <4>2. ASSUME NEW l \in {"resp", "req", "notif", "greet", "take", "loop", "reading", "eof"}, Goto(s, l)
              PROVE  \E m \in SLabels \ {"do", "lock", "answer"} : pc' = [pc EXCEPT ![s] = m]
          BY <4>1, <4>2 DEF Goto
        <4>3. CASE TakeClient(s)
          BY <1>0, <4>2, <4>3 DEF TakeClient
        <4>4. CASE OpenPipe(s)
          BY <4>2, <4>4 DEF OpenPipe, Kinds
        <4>5. CASE GreetFails(s) \/ SetInfo(s) \/ EnterRead(s) \/ ReadEof(s) \/ DropClient(s) \/ CleanSession(s)
          BY <1>0, <4>2, <4>5 DEF GreetFails, SetInfo, EnterRead, ReadEof, DropClient, CleanSession
        <4>6. CASE EnterSubscribe(s) \/ Subscribe(s) \/ Unsubscribe(s) \/ Disconnect(s)
          BY <4>6 DEF EnterSubscribe, Subscribe, Unsubscribe, Disconnect, Goto
        <4>7. CASE UseFreed(s)
          BY <4>7 DEF UseFreed, sessionVars
        <4>8. QED
          BY <1>3, <2>3, <4>3, <4>4, <4>5, <4>6, <4>7 DEF SessionThread
      <3>2. \A u \in Sessions : pc'[u] \in {"do", "lock", "answer"} =>
              pc[u] \in {"do", "lock", "answer"} /\ msg'[u] = msg[u] /\ at'[u] = at[u]
        BY <1>0, <3>1
      <3>3. QED
        BY <1>1, <3>1, <3>2
    <2>4. QED
      BY <2>1, <2>2, <2>3
  <1>4. CASE MainThread \/ Signal \/ SignalCutsWait
    <2>1. UNCHANGED <<pipe, pc, at, msg>>
      BY <1>4 DEF MainThread, EnterServerRead, ReadServerPipe, Admit, CleanTree, CleanData, Signal,
         SignalCutsWait, sessionVars
    <2>2. QED
      BY <1>1, <2>1
  <1>5. ASSUME NEW k \in Keys, Notify(k)
        PROVE  RequestInv'
    <2>1. UNCHANGED <<pc, at, msg>>
      BY <1>5 DEF Notify, sessionVars
    <2>2. \A c \in Clients : pipe'[<<c, "req">>] = pipe[<<c, "req">>]
      BY <1>0, <1>5, NotifyFacts
    <2>3. QED
      BY <1>1, <2>1, <2>2
  <1>6. ASSUME NEW k \in Keys, KeepList(k)
        PROVE  RequestInv'
    <2>1. UNCHANGED <<pipe, pc, at, msg>>
      BY <1>6 DEF KeepList, sessionVars
    <2>2. QED
      BY <1>1, <2>1
  <1>7. QED
    BY <1>2, <1>3, <1>4, <1>5, <1>6 DEF Next, ClientStep

(* A descriptor that a session will enter stays one. *)
LEMMA LockSteps ==
  ASSUME DataInv, Next
  PROVE  LockInv'
  <1>0. /\ pc \in [Sessions -> SLabels] /\ at \in [Sessions -> Clients \cup {NoClient}]
        /\ \A u \in Sessions : pc[u] = "take" <=> at[u] = NoClient
        /\ fdOf \in [Clients -> [Kinds -> Fds \cup {0}]] /\ msg \in [Sessions -> Messages]
        /\ Types /\ FdInv /\ PlaceInv /\ LockInv /\ ClientType
    BY DEF DataInv, Types, DataType, SessionType
  <1>1. ASSUME fdOf' = fdOf,
               \A u \in Sessions : pc'[u] = "lock" => pc[u] = "lock" /\ msg'[u] = msg[u] /\ at'[u] = at[u]
        PROVE  LockInv'
    BY <1>0, <1>1 DEF LockInv
  <1>2. ASSUME NEW s \in Sessions, SessionThread(s)
        PROVE  LockInv'
    <2>1. CASE OpenPipe(s)
      <3>1. /\ fdOf' = [fdOf EXCEPT ![at[s]][pc[s]] = LowestFree] /\ at' = at /\ msg' = msg
            /\ pc[s] \in Kinds /\ \E l \in {"req", "notif", "greet"} : pc' = [pc EXCEPT ![s] = l]
        BY <2>1 DEF OpenPipe, Goto
      <3>2. at[s] \in Clients
        BY <1>0, <3>1 DEF Kinds
      <3>3. \A c \in Clients : c # at[s] => fdOf'[c] = fdOf[c]
        BY <1>0, <3>1, <3>2
      <3>4. ASSUME NEW u \in Sessions, pc'[u] = "lock"
            PROVE  u # s /\ pc[u] = "lock" /\ at[u] \in Clients /\ at[u] # at[s]
        <4>1. u # s /\ pc[u] = "lock"
          BY <1>0, <3>1, <3>4
        <4>2. at[u] \in Clients
          BY <1>0, <4>1
        <4>3. QED
          BY <1>0, <3>2, <4>1, <4>2 DEF PlaceInv
      <3>5. QED
        BY <1>0, <3>1, <3>3, <3>4 DEF LockInv
    <2>2. CASE EnterSubscribe(s)
      <3>1. /\ fdOf' = fdOf /\ at' = at /\ msg' = msg /\ pc' = [pc EXCEPT ![s] = "lock"]
            /\ pc[s] = "do" /\ msg[s].op = "SUBSCRIBE" /\ at[s] \notin freed
        BY <2>2 DEF EnterSubscribe, DataIsThere, UsesData, Goto, data
      <3>2. "notif" \in Opened(s)
        BY <3>1 DEF Opened, Kinds
      <3>3. fdOf[at[s]]["notif"] \in Fds
        BY <1>0, <3>1, <3>2 DEF FdInv
      <3>4. QED
        BY <1>0, <3>1, <3>3 DEF LockInv
    <2>3. CASE TakeClient(s) \/ Greet(s) \/ GreetFails(s) \/ SetInfo(s) \/ EnterRead(s)
      <3>1. /\ fdOf' = fdOf /\ msg' = msg /\ \A u \in Sessions : u # s => at'[u] = at[u]
            /\ \E l \in {"resp", "setinfo", "take", "loop", "reading"} : pc' = [pc EXCEPT ![s] = l]
        BY <1>0, <2>3 DEF TakeClient, Greet, GreetFails, SetInfo, EnterRead, Goto, data
      <3>2. QED
        BY <1>0, <1>1, <3>1
    <2>4. CASE ReadRequest(s) \/ ReadEof(s) \/ DropClient(s)
      <3>1. /\ fdOf' = fdOf /\ at' = at /\ \A u \in Sessions : u # s => msg'[u] = msg[u]
            /\ \E l \in {"do", "eof", "loop"} : pc' = [pc EXCEPT ![s] = l]
        BY <1>0, <2>4 DEF ReadRequest, ReadEof, DropClient, Goto, data
      <3>2. QED
        BY <1>0, <1>1, <3>1
    <2>5. CASE Subscribe(s) \/ Unsubscribe(s) \/ Disconnect(s)
      <3>1. /\ fdOf' = fdOf /\ at' = at /\ msg' = msg
            /\ \E l \in {"answer", "hung"} : pc' = [pc EXCEPT ![s] = l]
        BY <2>5 DEF Subscribe, Unsubscribe, Disconnect, Goto, data
      <3>2. QED
        BY <1>0, <1>1, <3>1
    <2>6. CASE Answer(s) \/ CleanSession(s) \/ UseFreed(s)
      <3>1. /\ fdOf' = fdOf /\ \A u \in Sessions : u # s => at'[u] = at[u] /\ msg'[u] = msg[u]
            /\ \/ \E l \in {"clean", "loop", "take"} : pc' = [pc EXCEPT ![s] = l]
               \/ UNCHANGED <<pc, at, msg>>
        BY <1>0, <2>6 DEF Answer, CleanSession, UseFreed, Goto, data, sessionVars
      <3>2. QED
        BY <1>0, <1>1, <3>1
    <2>7. QED
      BY <1>2, <2>1, <2>2, <2>3, <2>4, <2>5, <2>6 DEF SessionThread
  <1>3. ASSUME NEW c \in Clients, ClientStep(c)
        PROVE  LockInv'
    <2>1. UNCHANGED <<fdOf, pc, at, msg>>
      BY <1>0, <1>3, ClientSteps DEF data, sessionVars
    <2>2. QED
      BY <1>1, <2>1
  <1>4. CASE MainThread \/ Signal \/ SignalCutsWait \/ \E k \in Keys : Notify(k) \/ KeepList(k)
    <2>1. UNCHANGED <<fdOf, pc, at, msg>>
      BY <1>4 DEF MainThread, EnterServerRead, ReadServerPipe, Admit, CleanTree, CleanData, Signal,
         SignalCutsWait, Notify, KeepList, data, sessionVars
    <2>2. QED
      BY <1>1, <2>1
  <1>5. QED
    BY <1>2, <1>3, <1>4 DEF Next, ClientStep

-----------------------------------------------------------------------------
(* The invariant *)

(* The server starts with nothing open, and no client has started. *)
LEMMA DataInit == Init => DataInv
  <1> SUFFICES ASSUME Init PROVE DataInv
    OBVIOUS
  <1>0. /\ NoClient \notin Clients /\ MaxRequests \in [Clients -> Nat] /\ MaxNotes \in Nat
        /\ <<>> \in Seq(Messages) /\ <<>> \in Seq(Clients) /\ 0 \in Sessions
        /\ NoMessage \in Messages /\ SessionCount \in Nat
    BY SessionAssumption, EmptySeq DEF Sessions, NoMessage, Message, Messages
  <1>1. ClientType
    BY <1>0 DEF Init, ClientType, CLabels
  <1>2. DataType
    BY <1>0 DEF Init, DataType
  <1>3. BookType
    <2>1. IsFiniteSet({})
      BY FS_EmptySet
    <2>2. QED
      BY <2>1 DEF Init, BookType
  <1>4. SessionType
    BY <1>0 DEF Init, SessionType, SLabels
  <1>5. MainType
    <2>1. notes \in 0..MaxNotes
      BY <1>0 DEF Init
    <2>2. fault \in BOOLEAN /\ sigFlag \in BOOLEAN /\ signalled \in BOOLEAN /\ late \in BOOLEAN
      BY DEF Init
    <2>3. QED
      BY <1>0, <2>1, <2>2 DEF Init, MainType
  <1>6. FdInv
    BY DEF Init, FdInv, Opened
  <1>7. PlaceInv /\ InfoInv
    BY <1>0 DEF Init, PlaceInv, InfoInv, Queued, Serving
  <1>8. RequestInv
    <2>1. \A c \in Clients : pipe[<<c, "req">>] = <<>>
      BY DEF Init, Kinds
    <2>2. QED
      BY <2>1 DEF Init, RequestInv
  <1>9. SigInv
    BY DEF Init, SigInv
  <1>10. LockInv
    BY DEF Init, LockInv
  <1>11. QED
    BY <1>1, <1>2, <1>3, <1>4, <1>5, <1>6, <1>7, <1>8, <1>9, <1>10 DEF DataInv, Types

(* Every step keeps the invariant. *)
LEMMA DataStep == DataInv /\ [Next]_vars => DataInv'
  <1> SUFFICES ASSUME DataInv, [Next]_vars PROVE DataInv'
    OBVIOUS
  <1>1. CASE Next
    <2>1. RequestInv' /\ LockInv'
      BY <1>1, RequestSteps, LockSteps
    <2>2. ASSUME NEW s \in Sessions, SessionThread(s)
          PROVE  Types' /\ FdInv' /\ PlaceInv' /\ InfoInv' /\ SigInv'
      <3>1. UNCHANGED <<mainPc, signals>>
        BY <2>2 DEF SessionThread, TakeClient, OpenPipe, Greet, GreetFails, SetInfo, EnterRead, ReadRequest,
           ReadEof, DropClient, EnterSubscribe, Subscribe, Unsubscribe, Disconnect, Answer, CleanSession,
           UseFreed, mainVars
      <3>2. SigInv'
        BY <3>1 DEF DataInv, SigInv, signals
      <3>3. QED
        BY <2>2, <3>2, SessionSteps
    <2>3. CASE MainThread \/ Signal \/ SignalCutsWait
      BY <1>1, <2>1, <2>3, MainSteps DEF DataInv, Next
    <2>4. CASE (\E c \in Clients : ClientStep(c)) \/ (\E k \in Keys : Notify(k) \/ KeepList(k))
      BY <2>1, <2>4, OtherSteps DEF DataInv
    <2>5. QED
      BY <1>1, <2>1, <2>2, <2>3, <2>4 DEF Next, DataInv, ClientStep
  <1>2. CASE UNCHANGED vars
    <2>1. UNCHANGED <<cpc, npc, terminate, sent, left, pipe, fds, fdOf, freed, info, sessKeys, keySubs,
                      kept, pc, at, msg, mainPc, mainAt, inbox, queue, newcomer, places, notes, fault, sigFlag, late,
                      signalled, blank>>
      BY <1>2 DEF vars, clientVars, server, data, books, sessionVars, mainVars, signals
    <2>2. Types'
      BY <2>1 DEF DataInv, Types, ClientType, DataType, BookType, SessionType, MainType
    <2>3. FdInv'
      BY <2>1, FdSame DEF DataInv
    <2>4. PlaceInv' /\ InfoInv' /\ SigInv'
      BY <2>1 DEF DataInv, PlaceInv, InfoInv, SigInv, Queued
    <2>5. RequestInv' /\ LockInv'
      BY <2>1 DEF DataInv, RequestInv, LockInv
    <2>6. QED
      BY <2>2, <2>3, <2>4, <2>5 DEF DataInv
  <1>3. QED
    BY <1>1, <1>2

(* What holds of the data of clients and sessions in all behaviours. *)
LEMMA DataAlways == Spec => []DataInv
  <1>1. QED
    BY DataInit, DataStep, PTL DEF Spec

(* Every variable of clients, sessions and pipes has its type in all       *)
(* behaviours, and a session has a client unless it is idle.               *)
THEOREM TypeCorrect == Spec => []TypeOK
  <1>1. DataInv => TypeOK
    <2> SUFFICES ASSUME DataInv PROVE TypeOK
      OBVIOUS
    <2>1. /\ cpc \in [Clients -> CLabels] /\ npc \in [Clients -> {"none", "read", "kill", "store", "done"}]
          /\ terminate \in [Clients -> BOOLEAN] /\ sent \in [Clients -> Messages]
          /\ left \in [Clients -> Nat] /\ \A c \in Clients : left[c] <= MaxRequests[c]
          /\ pipe \in [Clients \X Kinds -> Seq(Messages)] /\ blank \subseteq Clients
      BY DEF DataInv, Types, ClientType
    <2>2. \A c \in Clients : left[c] \in 0..MaxRequests[c]
      <3>1. \A c \in Clients : left[c] \in Nat /\ left[c] <= MaxRequests[c] /\ MaxRequests[c] \in Nat
        BY <2>1, SessionAssumption
      <3>2. QED
        BY <3>1
    <2>3. \A p \in DOMAIN pipe : \A i \in DOMAIN pipe[p] : pipe[p][i] \in Messages
      <3>1. \A p \in DOMAIN pipe : pipe[p] \in Seq(Messages)
        BY <2>1
      <3>2. ASSUME NEW q \in Seq(Messages), NEW i \in DOMAIN q
            PROVE  q[i] \in Messages
        BY LenProperties, ElementOfSeq
      <3>3. QED
        BY <3>1, <3>2
    <2>4. {fault, sigFlag, signalled, late} \subseteq BOOLEAN
      BY DEF DataInv, Types, MainType
    <2>5. QED
      BY <2>1, <2>2, <2>3, <2>4 DEF TypeOK, DataInv, Types, DataType, BookType, SessionType, MainType,
         CLabels, SLabels
  <1>2. QED
    BY <1>1, DataAlways, PTL

(* However a session ends - its client leaves or dies, or the server is    *)
(* told to drop all clients while requests are on their way - every        *)
(* descriptor of the server is one of a client that a session has.         *)
THEOREM DescriptorsAreGivenBack == Spec => []NoDescriptorLeak
  <1>1. DataInv => NoDescriptorLeak
    BY DEF DataInv, FdInv, NoDescriptorLeak
  <1>2. QED
    BY <1>1, DataAlways, PTL

-----------------------------------------------------------------------------
(* Until SIGUSR1: who is served, and who leaves *)

Req(c) == pipe[<<c, "req">>]
Resp(c) == pipe[<<c, "resp">>]
Asks(c) ==
  cpc[c] \in {"connect", "check", "idle"} \/ (cpc[c] = "await" /\ sent[c].op # "DISCONNECT")
Quits(c) == cpc[c] = "join" \/ (cpc[c] = "await" /\ sent[c].op = "DISCONNECT")
With(c, s) == at[s] = c /\ c \notin freed
Left(c) == c \in freed /\ \A s \in Sessions : at[s] # c

(* The session reads on, and no DISCONNECT is on its way; or one is, or    *)
(* the session acts on it.                                                 *)
Working == {"greet", "setinfo", "loop", "reading", "do", "lock", "answer"}
Stays(c, s) ==
  /\ pc[s] \in Working
  /\ \A i \in DOMAIN Req(c) : Req(c)[i].op # "DISCONNECT"
  /\ pc[s] \in {"do", "lock", "answer"} => msg[s].op # "DISCONNECT"
Leaves(c, s) ==
  \/ pc[s] \in Working /\ Req(c) # <<>> /\ Req(c)[Len(Req(c))].op = "DISCONNECT"
  \/ pc[s] \in {"do", "lock", "answer"} /\ msg[s].op = "DISCONNECT"
  \/ pc[s] \in {"hung", "clean"}

(* A client that may ask has a session that goes on reading; one that has  *)
(* sent DISCONNECT has one that will end, or has ended; data are freed for *)
(* clients that leave or died, and only these are told of it.              *)
Served(c) ==
  /\ Asks(c) => \E s \in Sessions : With(c, s) /\ Stays(c, s)
  /\ Quits(c) => Left(c) \/ \E s \in Sessions : With(c, s) /\ Leaves(c, s)
  /\ cpc[c] = "await" /\ sent[c].op = "DISCONNECT" /\ Resp(c) = <<>> =>
       \E s \in Sessions : With(c, s) /\ pc[s] # "clean"
  /\ cpc[c] = "ended" => Left(c)
  /\ c \in freed => Quits(c) \/ cpc[c] \in {"ended", "dead"}
  /\ npc[c] \in {"kill", "store", "done"} \/ terminate[c] => c \in freed
  /\ npc[c] # "none" => cpc[c] \in {"check", "idle", "await", "join"}
  /\ cpc[c] \in Kinds \cup {"start"} => Req(c) = <<>>

(* A session has freed its data, or saw the end of file, of a client that  *)
(* died; with a pipe to open it waits for its client to do the same.       *)
Attends(s) ==
  /\ pc[s] = "eof" => cpc[at[s]] = "dead"
  /\ at[s] \in freed => pc[s] = "loop" /\ cpc[at[s]] = "dead"
  /\ pc[s] \in Kinds => cpc[at[s]] \in {pc[s], "dead"}
  /\ pc[s] \notin Kinds \cup {"take"} => cpc[at[s]] \notin Kinds \cup {"start"}

(* A client that nobody serves yet waits for its first pipe. *)
QueuedInv ==
  /\ \A c \in inbox : cpc[c] \in {"resp", "dead"}
  /\ \A i \in DOMAIN queue : cpc[queue[i]] \in {"resp", "dead"}

(* What only SIGUSR1 breaks, with the reason of a fault and of an end of   *)
(* file that is taken for an answer.                                       *)
OrderInv ==
  /\ QueuedInv
  /\ ~signalled =>
       /\ \A c \in Clients : Served(c)
       /\ \A s \in Sessions : Attends(s)
       /\ fault => \E s \in Sessions : at[s] \in freed
       /\ blank = {}

(* A client whose part of the state is the same is served as before. *)
LEMMA ServedAsBefore ==
  ASSUME NEW c \in Clients, Served(c),
         cpc'[c] = cpc[c], npc'[c] = npc[c], terminate'[c] = terminate[c], sent'[c] = sent[c],
         Req(c)' = Req(c), Resp(c) # <<>> => Resp(c)' # <<>>, c \in freed' <=> c \in freed,
         \A s \in Sessions : at[s] = c => at'[s] = c /\ pc'[s] = pc[s] /\ msg'[s] = msg[s],
         \A s \in Sessions : at'[s] = c => at[s] = c
  PROVE  Served(c)'
  <1>1. /\ Asks(c)' <=> Asks(c)
        /\ Quits(c)' <=> Quits(c)
        /\ Left(c)' <=> Left(c)
    BY DEF Asks, Quits, Left
  <1>2. ASSUME NEW s \in Sessions, With(c, s)
        PROVE  With(c, s)' /\ pc'[s] = pc[s] /\ (Stays(c, s) => Stays(c, s)') /\ (Leaves(c, s) => Leaves(c, s)')
    <2>1. at'[s] = c /\ pc'[s] = pc[s] /\ msg'[s] = msg[s] /\ c \notin freed'
      BY <1>2 DEF With
    <2>2. QED
      BY <2>1 DEF With, Stays, Leaves
  <1>3. (\E s \in Sessions : With(c, s) /\ Stays(c, s)) => \E s \in Sessions : With(c, s)' /\ Stays(c, s)'
    BY <1>2
  <1>4. (\E s \in Sessions : With(c, s) /\ Leaves(c, s)) => \E s \in Sessions : With(c, s)' /\ Leaves(c, s)'
    BY <1>2
  <1>5. (\E s \in Sessions : With(c, s) /\ pc[s] # "clean") => \E s \in Sessions : With(c, s)' /\ pc'[s] # "clean"
    BY <1>2
  <1> HIDE DEF Asks, Quits, Left
  <1>6. /\ Asks(c)' => \E s \in Sessions : With(c, s)' /\ Stays(c, s)'
        /\ Quits(c)' => Left(c)' \/ \E s \in Sessions : With(c, s)' /\ Leaves(c, s)'
    BY <1>1, <1>3, <1>4 DEF Served
  <1>7. cpc'[c] = "await" /\ sent'[c].op = "DISCONNECT" /\ Resp(c)' = <<>> =>
          \E s \in Sessions : With(c, s)' /\ pc'[s] # "clean"
    BY <1>5 DEF Served
  <1>8. /\ cpc'[c] = "ended" => Left(c)'
        /\ c \in freed' => Quits(c)' \/ cpc'[c] \in {"ended", "dead"}
        /\ npc'[c] \in {"kill", "store", "done"} \/ terminate'[c] => c \in freed'
        /\ npc'[c] # "none" => cpc'[c] \in {"check", "idle", "await", "join"}
        /\ cpc'[c] \in Kinds \cup {"start"} => Req(c)' = <<>>
    BY <1>1 DEF Served
  <1>9. QED
    BY <1>6, <1>7, <1>8 DEF Served

(* The pipes of a client with a session are open. *)
LEMMA PipesAreHeld ==
  ASSUME DataInv, NEW c \in Clients, NEW s \in Sessions, With(c, s),
         pc[s] \in Working \cup {"hung", "clean"}
  PROVE  \A k \in Kinds : ServerHolds(<<c, k>>)
  <1>1. Opened(s) = Kinds
    BY DEF Opened, Working, Kinds
  <1>2. \A k \in Kinds : fdOf[c][k] \in Fds /\ fds[fdOf[c][k]] = <<c, k>>
    BY <1>1 DEF DataInv, FdInv, With
  <1>3. QED
    BY <1>2 DEF ServerHolds

(* Where the main thread of a client can go. *)
LEMMA ClientMoves ==
  ASSUME ClientType, NEW c \in Clients, ClientStep(c)
  PROVE  /\ cpc[c] = "dead" => cpc'[c] = "dead"
         /\ cpc[c] \in Kinds => cpc'[c] \in {cpc[c], "dead"}
         /\ cpc[c] \notin Kinds \cup {"start"} => cpc'[c] \notin Kinds \cup {"start"}
  <1> USE DEF Kinds
  <1>0. cpc \in [Clients -> CLabels]
    BY DEF ClientType
  <1>1. CASE Connect(c)
    BY <1>0, <1>1 DEF Connect, GotoC
  <1>2. CASE Request(c) \/ Connected(c) \/ Check(c) \/ EndOfInput(c) \/ Answered(c)
    BY <1>0, <1>2 DEF Request, Connected, Check, EndOfInput, Answered, GotoC
  <1>3. CASE RequestFails(c) \/ Die(c) \/ Leave(c) \/ Join(c)
    BY <1>0, <1>3 DEF RequestFails, Die, Leave, Join, Over, GotoC, Alive
  <1>4. CASE AnsweredByEof(c)
    BY <1>0, <1>4 DEF AnsweredByEof, Over, GotoC
  <1>5. CASE NotifiedOfEof(c) \/ Notified(c) \/ StoreTerminate(c)
    BY <1>5 DEF NotifiedOfEof, Notified, StoreTerminate, clientVars
  <1>6. CASE Kill(c)
    BY <1>0, <1>6 DEF Kill, Over, GotoC, Alive
  <1>7. QED
    BY <1>1, <1>2, <1>3, <1>4, <1>5, <1>6 DEF ClientStep, ClientGoesOn, NotifThread

(* A step of a client leaves it served. *)
LEMMA ServedSteps ==
  ASSUME DataInv, OrderInv, ~signalled, NEW c \in Clients, ClientStep(c)
  PROVE  Served(c)' /\ blank' = blank
  <1>0. /\ ClientType /\ Served(c)
        /\ cpc \in [Clients -> CLabels] /\ sent \in [Clients -> Messages]
        /\ npc \in [Clients -> {"none", "read", "kill", "store", "done"}]
        /\ terminate \in [Clients -> BOOLEAN]
        /\ pipe \in [Clients \X Kinds -> Seq(Messages)]
        /\ <<c, "req">> \in Clients \X Kinds /\ <<c, "resp">> \in Clients \X Kinds
    BY DEF DataInv, OrderInv, Types, ClientType, Kinds
  <1>1. UNCHANGED <<pc, at, msg, freed>>
    BY <1>0, ClientSteps DEF sessionVars, data
  <1>2. /\ \A s \in Sessions : With(c, s)' <=> With(c, s)
        /\ Left(c)' <=> Left(c)
    BY <1>1 DEF With, Left
  <1>3. ASSUME Req(c)' = Req(c), NEW s \in Sessions
        PROVE  (Stays(c, s)' <=> Stays(c, s)) /\ (Leaves(c, s)' <=> Leaves(c, s))
    BY <1>1, <1>3 DEF Stays, Leaves
  <1>4. \A s \in Sessions : Stays(c, s) => pc[s] \in Working
    BY DEF Stays
  <1>5. \A s \in Sessions : Leaves(c, s) => pc[s] \in Working \cup {"hung", "clean"}
    BY DEF Leaves, Working
  <1>6. Asks(c) => c \notin freed /\ \A k \in Kinds : ServerHolds(<<c, k>>)
    <2>1. SUFFICES ASSUME Asks(c) PROVE c \notin freed /\ \A k \in Kinds : ServerHolds(<<c, k>>)
      OBVIOUS
    <2>2. PICK s \in Sessions : With(c, s) /\ Stays(c, s)
      BY <1>0, <2>1 DEF Served
    <2>3. QED
      BY <1>4, <2>2, PipesAreHeld DEF With
  <1>7. Quits(c) /\ c \notin freed => \A k \in Kinds : ServerHolds(<<c, k>>)
    <2>1. SUFFICES ASSUME Quits(c), c \notin freed PROVE \A k \in Kinds : ServerHolds(<<c, k>>)
      OBVIOUS
    <2>2. PICK s \in Sessions : With(c, s) /\ Leaves(c, s)
      BY <1>0, <2>1 DEF Served, Left
    <2>3. QED
      BY <1>5, <2>2, PipesAreHeld
  <1>8. Quits(c) /\ c \in freed => Left(c)
    BY <1>0 DEF Served, With
  <1>9. ASSUME NEW label \in {"ended", "dead"}, Over(c, label), label = "ended" => Left(c)
        PROVE  Served(c)'
    <2>1. cpc'[c] = label /\ npc'[c] = "none" /\ terminate'[c] = FALSE
      BY <1>0, <1>9 DEF Over, GotoC
    <2>2. ~Asks(c)' /\ ~Quits(c)' /\ cpc'[c] \notin Kinds \cup {"start", "await"}
      BY <2>1 DEF Asks, Quits, Kinds
    <2>3. QED
      BY <1>2, <1>9, <2>1, <2>2 DEF Served
  \* a client that is still asking, or has become one
  <1>10. ASSUME Asks(c)', Asks(c), Req(c)' = Req(c), npc'[c] \in {"read", npc[c]}, terminate'[c] = terminate[c],
                cpc'[c] \in {"check", "idle"}
         PROVE  Served(c)'
    <2>1. \E s \in Sessions : With(c, s)' /\ Stays(c, s)'
      BY <1>0, <1>2, <1>3, <1>10 DEF Served
    <2>2. c \notin freed /\ ~Quits(c)' /\ cpc'[c] \notin Kinds \cup {"start", "ended", "dead"}
      BY <1>6, <1>10 DEF Asks, Quits, Kinds
    <2>3. npc[c] \notin {"kill", "store", "done"} /\ ~terminate[c]
      BY <1>0, <2>2 DEF Served
    <2>4. npc'[c] # "none" => cpc'[c] \in {"check", "idle", "await", "join"}
      BY <1>0, <1>10 DEF Served
    <2>5. ~(cpc'[c] = "await" /\ sent'[c].op = "DISCONNECT")
      BY <2>2 DEF Quits
    <2>6. QED
      BY <1>1, <1>10, <2>1, <2>2, <2>3, <2>4, <2>5 DEF Served
  \* one that has sent DISCONNECT
  <1>11. ASSUME Quits(c)', Quits(c), Req(c)' = Req(c), cpc'[c] \in {"await", "join"},
                cpc'[c] = "await" => cpc[c] = "await" /\ Resp(c)' = Resp(c),
                npc'[c] \in {"kill", "store", "done"} \/ terminate'[c] => c \in freed
         PROVE  Served(c)'
    <2>1. Left(c)' \/ \E s \in Sessions : With(c, s)' /\ Leaves(c, s)'
      BY <1>0, <1>2, <1>3, <1>11 DEF Served
    <2>2. ~Asks(c)'
      BY <1>11 DEF Asks, Quits
    <2>3. cpc'[c] = "await" /\ sent'[c].op = "DISCONNECT" /\ Resp(c)' = <<>> =>
            \E s \in Sessions : With(c, s)' /\ pc'[s] # "clean"
      <3>1. SUFFICES ASSUME cpc'[c] = "await", Resp(c)' = <<>>
                     PROVE  \E s \in Sessions : With(c, s)' /\ pc'[s] # "clean"
        OBVIOUS
      <3>2. cpc[c] = "await" /\ sent[c].op = "DISCONNECT" /\ Resp(c) = <<>>
        BY <1>11, <3>1 DEF Quits
      <3>3. QED
        BY <1>0, <1>1, <1>2, <3>2 DEF Served
    <2>4. cpc'[c] \notin Kinds \cup {"start", "ended"}
      BY <1>11 DEF Kinds
    <2>5. QED
      BY <1>1, <1>11, <2>1, <2>2, <2>3, <2>4 DEF Served
  <1>12. cpc[c] \in {"check", "idle", "await", "join"} => Asks(c) \/ Quits(c)
    BY DEF Asks, Quits
  <1>13. CASE Connect(c)
    <2>1. /\ cpc[c] = "start" /\ cpc'[c] = "resp" /\ UNCHANGED <<npc, terminate, sent, pipe, blank>>
      BY <1>0, <1>13 DEF Connect, GotoC
    <2>2. Req(c)' = <<>> /\ c \notin freed /\ npc[c] = "none"
      BY <1>0, <2>1 DEF Served, Req, Quits, Kinds
    <2>3. ~Asks(c)' /\ ~Quits(c)'
      BY <2>1 DEF Asks, Quits
    <2>4. QED
      BY <1>0, <1>1, <2>1, <2>2, <2>3 DEF Served
  <1>14. CASE Connected(c)
    <2>1. /\ cpc[c] = "connect" /\ cpc'[c] = "check" /\ npc'[c] = "read"
          /\ pipe' = [pipe EXCEPT ![<<c, "resp">>] = Tail(@)] /\ UNCHANGED <<terminate, blank>>
      BY <1>0, <1>14 DEF Connected, GotoC
    <2>2. Req(c)' = Req(c)
      BY <1>0, <2>1 DEF Req
    <2>3. QED
      <3>1. Asks(c) /\ Asks(c)' /\ terminate'[c] = terminate[c]
        BY <2>1 DEF Asks
      <3>2. QED
        BY <1>10, <2>1, <2>2, <3>1
  <1>15. CASE Check(c) \/ EndOfInput(c)
    <2>1. /\ cpc[c] \in {"check", "idle"} /\ cpc'[c] \in {"check", "idle"}
          /\ UNCHANGED <<npc, terminate, pipe, blank>>
      BY <1>0, <1>15 DEF Check, EndOfInput, GotoC
    <2>2. QED
      <3>1. Asks(c) /\ Asks(c)' /\ terminate'[c] = terminate[c] /\ npc'[c] = npc[c] /\ Req(c)' = Req(c)
        BY <2>1 DEF Asks, Req
      <3>2. QED
        BY <1>10, <2>1, <3>1
  <1>16. CASE Request(c)
    <2>1. PICK r \in RequestsOf(c) : sent' = [sent EXCEPT ![c] = r]
                                     /\ pipe' = [pipe EXCEPT ![<<c, "req">>] = Append(@, r)]
      BY <1>16 DEF Request
    <2>2. cpc[c] = "idle" /\ cpc'[c] = "await" /\ UNCHANGED <<npc, terminate, blank>>
      BY <1>0, <1>16 DEF Request, GotoC
    <2>3. r \in Messages
      BY DEF RequestsOf, Message, Messages
    <2>4. sent'[c] = r /\ Req(c)' = Append(Req(c), r) /\ Req(c) \in Seq(Messages)
      BY <1>0, <2>1 DEF Req
    <2>5. c \notin freed
      BY <1>6, <2>2 DEF Asks
    <2>6. PICK s \in Sessions : With(c, s) /\ Stays(c, s)
      BY <1>0, <2>2 DEF Served, Asks
    <2>7. pc[s] \in Working /\ pc'[s] = pc[s] /\ msg'[s] = msg[s] /\ With(c, s)'
      BY <1>1, <1>2, <2>6 DEF Stays
    <2>8. r.op # "DISCONNECT" => Stays(c, s)'
      <3>1. ASSUME r.op # "DISCONNECT", NEW i \in DOMAIN Req(c)'
            PROVE  Req(c)'[i].op # "DISCONNECT"
        BY <2>3, <2>4, <2>6, <3>1, AppendFacts DEF Stays
      <3>2. QED
        BY <2>6, <2>7, <3>1 DEF Stays
    <2>9. r.op = "DISCONNECT" => Leaves(c, s)'
      <3>1. Req(c)' # <<>> /\ Req(c)'[Len(Req(c)')] = r
        BY <2>3, <2>4, AppendFacts
      <3>2. QED
        BY <2>7, <3>1 DEF Leaves
    <2>10. (Asks(c)' <=> r.op # "DISCONNECT") /\ (Quits(c)' <=> r.op = "DISCONNECT")
      BY <2>2, <2>4 DEF Asks, Quits
    <2>11. pc'[s] # "clean" /\ cpc'[c] \notin Kinds \cup {"start"}
      BY <2>2, <2>7 DEF Working, Kinds
    <2>12. npc[c] \notin {"kill", "store", "done"} /\ ~terminate[c]
      BY <1>0, <2>5 DEF Served
    <2>13. QED
      BY <1>1, <2>2, <2>5, <2>7, <2>8, <2>9, <2>10, <2>11, <2>12 DEF Served
  <1>17. CASE Answered(c)
    <2>1. /\ cpc[c] = "await" /\ pipe' = [pipe EXCEPT ![<<c, "resp">>] = Tail(@)]
          /\ cpc'[c] = IF sent[c].op = "DISCONNECT" THEN "join" ELSE "check"
          /\ UNCHANGED <<npc, terminate, blank>>
      BY <1>0, <1>17 DEF Answered, GotoC
    <2>2. Req(c)' = Req(c)
      BY <1>0, <2>1 DEF Req
    <2>3. CASE sent[c].op = "DISCONNECT"
      <3>1. Quits(c) /\ Quits(c)' /\ cpc'[c] = "join"
        BY <2>1, <2>3 DEF Quits
      <3>2. npc[c] \in {"kill", "store", "done"} \/ terminate[c] => c \in freed
        BY <1>0 DEF Served
      <3>3. QED
        BY <1>11, <2>1, <2>2, <3>1, <3>2
    <2>4. CASE sent[c].op # "DISCONNECT"
      <3>1. Asks(c) /\ Asks(c)' /\ cpc'[c] = "check" /\ terminate'[c] = terminate[c] /\ npc'[c] = npc[c]
        BY <2>1, <2>4 DEF Asks
      <3>2. QED
        BY <1>10, <2>1, <2>2, <3>1
    <2>5. QED
      BY <2>3, <2>4
  <1>18. ~AnsweredByEof(c)
    <2>1. SUFFICES ASSUME cpc[c] = "await", Resp(c) = <<>>, ~ServerHolds(<<c, "resp">>) PROVE FALSE
      BY DEF AnsweredByEof, Resp
    <2>2. ~Asks(c)
      BY <1>6, <2>1 DEF Kinds
    <2>3. sent[c].op = "DISCONNECT" /\ Quits(c)
      BY <2>1, <2>2 DEF Asks, Quits
    <2>4. c \notin freed
      BY <1>0, <2>1, <2>3 DEF Served, With
    <2>5. QED
      BY <1>7, <2>1, <2>3, <2>4 DEF Kinds
  <1>19. ~Leave(c)
    <2>1. SUFFICES ASSUME cpc[c] = "check", terminate[c] PROVE FALSE
      BY DEF Leave
    <2>2. QED
      BY <1>0, <1>6, <2>1 DEF Asks, Served
  <1>20. CASE RequestFails(c) \/ Die(c)
    <2>1. Over(c, "dead") /\ blank' = blank
      BY <1>20 DEF RequestFails, Die
    <2>2. QED
      BY <1>9, <2>1
  <1>21. CASE Join(c)
    <2>1. cpc[c] = "join" /\ npc[c] = "done" /\ Over(c, "ended") /\ blank' = blank
      BY <1>21 DEF Join
    <2>2. Left(c)
      BY <1>0, <1>8, <2>1 DEF Served, Quits
    <2>3. QED
      BY <1>9, <2>1, <2>2
  <1>22. CASE Notified(c)
    <2>1. /\ UNCHANGED <<cpc, npc, terminate, sent, blank>>
          /\ pipe' = [pipe EXCEPT ![<<c, "notif">>] = Tail(@)]
      BY <1>22 DEF Notified, clientVars
    <2>2. Req(c)' = Req(c) /\ Resp(c)' = Resp(c)
      BY <1>0, <2>1 DEF Req, Resp
    <2>3. QED
      BY <1>0, <1>1, <2>1, <2>2, ServedAsBefore
  <1>23. npc[c] # "none" /\ c \in freed => Quits(c) /\ Left(c)
    BY <1>0, <1>6, <1>8, <1>12 DEF Served
  <1>24. CASE NotifiedOfEof(c)
    <2>1. /\ npc[c] = "read" /\ ~ServerHolds(<<c, "notif">>) /\ npc'[c] = "kill"
          /\ UNCHANGED <<cpc, terminate, sent, pipe, blank>>
      BY <1>0, <1>24 DEF NotifiedOfEof
    <2>2. cpc[c] \in {"check", "idle", "await", "join"}
      BY <1>0, <2>1 DEF Served
    <2>3. c \in freed /\ Quits(c)
      BY <1>6, <1>7, <1>12, <2>1, <2>2 DEF Kinds
    <2>4. cpc'[c] \in {"await", "join"} /\ Quits(c)' /\ Req(c)' = Req(c) /\ Resp(c)' = Resp(c)
      BY <2>1, <2>3 DEF Quits, Req, Resp
    <2>5. QED
      BY <1>11, <2>1, <2>3, <2>4
  <1>25. CASE Kill(c)
    <2>1. npc[c] = "kill" /\ blank' = blank
      BY <1>25 DEF Kill
    <2>2. c \in freed /\ Quits(c) /\ Left(c)
      BY <1>0, <1>23, <2>1 DEF Served
    <2>3. CASE Over(c, "ended")
      BY <1>9, <2>1, <2>2, <2>3
    <2>4. CASE ~Over(c, "ended")
      <3>1. /\ npc'[c] = "store" /\ UNCHANGED <<cpc, terminate, sent, pipe>>
        BY <1>0, <1>25, <2>2, <2>4 DEF Kill, Quits
      <3>2. cpc'[c] \in {"await", "join"} /\ Quits(c)' /\ Req(c)' = Req(c) /\ Resp(c)' = Resp(c)
        BY <2>2, <3>1 DEF Quits, Req, Resp
      <3>3. QED
        BY <1>11, <2>1, <2>2, <3>1, <3>2
    <2>5. QED
      BY <2>3, <2>4
  <1>26. CASE StoreTerminate(c)
    <2>1. /\ npc[c] = "store" /\ npc'[c] = "done" /\ UNCHANGED <<cpc, sent, pipe, blank>>
      BY <1>0, <1>26 DEF StoreTerminate
    <2>2. c \in freed /\ Quits(c)
      BY <1>0, <1>23, <2>1 DEF Served
    <2>3. cpc'[c] \in {"await", "join"} /\ Quits(c)' /\ Req(c)' = Req(c) /\ Resp(c)' = Resp(c)
      BY <2>1, <2>2 DEF Quits, Req, Resp
    <2>4. QED
      BY <1>11, <2>1, <2>2, <2>3
  <1>27. QED
    BY <1>13, <1>14, <1>15, <1>16, <1>17, <1>18, <1>19, <1>20, <1>21, <1>22, <1>24, <1>25, <1>26
       DEF ClientStep, ClientGoesOn, NotifThread

(* A step of a client keeps the order. *)
LEMMA OrderClient ==
  ASSUME DataInv, OrderInv, ~fault, NEW c \in Clients, ClientStep(c)
  PROVE  OrderInv'
  <1>0. /\ ClientType /\ SessionType /\ PlaceInv /\ queue \in Seq(Clients) /\ inbox \subseteq Clients
        /\ freed \subseteq Clients /\ NoClient \notin Clients
        /\ \A d \in Clients : <<d, "req">> \in Clients \X Kinds /\ <<d, "resp">> \in Clients \X Kinds
    BY SessionAssumption DEF DataInv, Types, DataType, MainType, Kinds
  <1>1. /\ \A d \in Clients : d # c => /\ cpc'[d] = cpc[d] /\ npc'[d] = npc[d]
                                       /\ terminate'[d] = terminate[d] /\ sent'[d] = sent[d]
        /\ \A p \in Clients \X Kinds : p[1] # c => pipe'[p] = pipe[p]
        /\ UNCHANGED <<fds, data, books, sessionVars, mainPc, mainAt, queue, newcomer, places, notes, fault, signals>>
        /\ inbox' = inbox \/ (cpc[c] = "start" /\ cpc'[c] = "resp" /\ inbox' = inbox \cup {c})
    BY <1>0, ClientSteps
  <1>2. /\ cpc[c] = "dead" => cpc'[c] = "dead"
        /\ cpc[c] \in Kinds => cpc'[c] \in {cpc[c], "dead"}
        /\ cpc[c] \notin Kinds \cup {"start"} => cpc'[c] \notin Kinds \cup {"start"}
    BY <1>0, ClientMoves
  <1>3. UNCHANGED <<pc, at, msg, freed, queue, fault, signalled>>
    BY <1>1 DEF sessionVars, data, signals
  <1>4. \A d \in Clients : cpc[d] \in {"resp", "dead"} => cpc'[d] \in {"resp", "dead"}
    BY <1>1, <1>2 DEF Kinds
  <1>5. QueuedInv'
    <2>1. \A i \in DOMAIN queue : queue[i] \in Clients
      BY <1>0, LenProperties, ElementOfSeq
    <2>2. \A i \in DOMAIN queue' : cpc'[queue'[i]] \in {"resp", "dead"}
      BY <1>3, <1>4, <2>1 DEF OrderInv, QueuedInv
    <2>3. \A d \in inbox' : cpc'[d] \in {"resp", "dead"}
      BY <1>0, <1>1, <1>4 DEF OrderInv, QueuedInv
    <2>4. QED
      BY <2>2, <2>3 DEF QueuedInv
  <1>6. ASSUME ~signalled
        PROVE  /\ \A d \in Clients : Served(d)'
               /\ \A s \in Sessions : Attends(s)'
               /\ blank' = {}
    <2>1. Served(c)' /\ blank' = {}
      BY <1>6, ServedSteps DEF OrderInv
    <2>2. ASSUME NEW d \in Clients, d # c
          PROVE  Served(d)'
      <3>1. Served(d)
        BY <1>6 DEF OrderInv
      <3>2. Req(d)' = Req(d) /\ Resp(d)' = Resp(d)
        BY <1>0, <1>1, <2>2 DEF Req, Resp
      <3>3. QED
        BY <1>1, <1>3, <2>2, <3>1, <3>2, ServedAsBefore
    <2>3. ASSUME NEW s \in Sessions
          PROVE  Attends(s)'
      <3>1. Attends(s)
        BY <1>6 DEF OrderInv
      <3>2. CASE at[s] = c
        BY <1>2, <1>3, <3>1, <3>2 DEF Attends
      <3>3. CASE at[s] \in Clients /\ at[s] # c
        BY <1>1, <1>3, <3>1, <3>3 DEF Attends
      <3>4. CASE at[s] = NoClient
        <4>1. pc[s] = "take" /\ at[s] \notin freed
          BY <1>0, <3>4 DEF SessionType
        <4>2. QED
          BY <1>3, <4>1 DEF Attends, Kinds
      <3>5. QED
        BY <1>0, <3>2, <3>3, <3>4 DEF SessionType
    <2>4. QED
      BY <2>1, <2>2, <2>3
  <1>7. QED
    BY <1>3, <1>5, <1>6 DEF OrderInv

(* A session changes its own part, and that of the client it serves. *)
LEMMA SessionFrame ==
  ASSUME DataInv, NEW s \in Sessions, SessionThread(s)
  PROVE  /\ UNCHANGED <<npc, terminate, sent, left, inbox, signalled, blank>>
         /\ fault' = fault \/ UseFreed(s)
         /\ \A u \in Sessions : u # s => pc'[u] = pc[u] /\ at'[u] = at[u] /\ msg'[u] = msg[u]
                                         /\ sessKeys'[u] = sessKeys[u]
         /\ \A d \in Clients : d # at[s] => /\ cpc'[d] = cpc[d] /\ fdOf'[d] = fdOf[d]
                                            /\ d \in freed' <=> d \in freed
         /\ \A p \in Clients \X Kinds : p[1] # at[s] => pipe'[p] = pipe[p]
         /\ cpc' = cpc \/ OpenPipe(s)
         /\ queue' = queue \/ TakeClient(s)
         /\ at'[s] = at[s] \/ at'[s] = NoClient \/ TakeClient(s)
  <1>0. /\ pc \in [Sessions -> SLabels] /\ at \in [Sessions -> Clients \cup {NoClient}]
        /\ msg \in [Sessions -> Messages] /\ sessKeys \in [Sessions -> SUBSET Keys]
        /\ cpc \in [Clients -> CLabels] /\ fdOf \in [Clients -> [Kinds -> Fds \cup {0}]]
        /\ pipe \in [Clients \X Kinds -> Seq(Messages)]
        /\ ClientType /\ DataType /\ SessionType /\ PlaceInv /\ FdInv
        /\ \A u \in Sessions : pc[u] = "take" <=> at[u] = NoClient
    BY DEF DataInv, Types, SessionType, BookType, ClientType, DataType
  <1>1. /\ UNCHANGED <<npc, terminate, sent, left, inbox, signalled, blank>>
        /\ fault' = fault \/ UseFreed(s)
        /\ cpc' = cpc \/ OpenPipe(s)
        /\ queue' = queue \/ TakeClient(s)
    <2>1. UNCHANGED <<npc, terminate, sent, left, inbox, signalled, blank>>
      BY DEF SessionThread, TakeClient, OpenPipe, Greet, GreetFails, SetInfo, EnterRead, ReadRequest,
         ReadEof, DropClient, EnterSubscribe, Subscribe, Unsubscribe, Disconnect, Answer, CleanSession, UseFreed,
         clientVars, mainVars, signals
    <2>2. fault' = fault \/ UseFreed(s)
      BY DEF SessionThread, TakeClient, OpenPipe, Greet, GreetFails, SetInfo, EnterRead, ReadRequest,
         ReadEof, DropClient, EnterSubscribe, Subscribe, Unsubscribe, Disconnect, Answer, CleanSession
    <2>3. cpc' = cpc \/ OpenPipe(s)
      BY DEF SessionThread, TakeClient, Greet, GreetFails, SetInfo, EnterRead, ReadRequest,
         ReadEof, DropClient, EnterSubscribe, Subscribe, Unsubscribe, Disconnect, Answer, CleanSession, UseFreed,
         clientVars
    <2>4. queue' = queue \/ TakeClient(s)
      BY DEF SessionThread, OpenPipe, Greet, GreetFails, SetInfo, EnterRead, ReadRequest,
         ReadEof, DropClient, EnterSubscribe, Subscribe, Unsubscribe, Disconnect, Answer, CleanSession, UseFreed,
         mainVars
    <2>5. QED
      BY <2>1, <2>2, <2>3, <2>4
  <1>2. /\ pc' = pc \/ \E l : pc' = [pc EXCEPT ![s] = l]
        /\ msg' = msg \/ \E m : msg' = [msg EXCEPT ![s] = m]
    BY DEF SessionThread, TakeClient, OpenPipe, Greet, GreetFails, SetInfo, EnterRead, ReadRequest,
       ReadEof, DropClient, EnterSubscribe, Subscribe, Unsubscribe, Disconnect, Answer, CleanSession, UseFreed,
       sessionVars, Goto
  <1>3. /\ at' = at \/ at' = [at EXCEPT ![s] = NoClient] \/ (TakeClient(s) /\ \E d : at' = [at EXCEPT ![s] = d])
        /\ sessKeys' = sessKeys \/ \E K : sessKeys' = [sessKeys EXCEPT ![s] = K]
    BY DEF SessionThread, TakeClient, OpenPipe, Greet, GreetFails, SetInfo, EnterRead, ReadRequest,
       ReadEof, DropClient, EnterSubscribe, Subscribe, Unsubscribe, Disconnect, Answer, CleanSession, UseFreed,
       sessionVars, books
  <1>4. \A u \in Sessions : u # s => pc'[u] = pc[u] /\ msg'[u] = msg[u]
    BY <1>0, <1>2
  <1>5. \A u \in Sessions : u # s => at'[u] = at[u] /\ sessKeys'[u] = sessKeys[u]
    BY <1>0, <1>3
  <1>6. at'[s] = at[s] \/ at'[s] = NoClient \/ TakeClient(s)
    BY <1>0, <1>3
  <1>7. /\ freed' = freed \/ freed' = freed \cup {at[s]}
        /\ \A d \in Clients : d # at[s] => cpc'[d] = cpc[d] /\ fdOf'[d] = fdOf[d]
    <2>1. CASE OpenPipe(s)
      <3>1. /\ freed' = freed /\ \E l : cpc' = [cpc EXCEPT ![at[s]] = l]
            /\ fdOf' = [fdOf EXCEPT ![at[s]][pc[s]] = LowestFree]
        BY <2>1 DEF OpenPipe, GotoC
      <3>2. QED
        BY <1>0, <3>1
    <2>2. CASE ~OpenPipe(s)
      <3>1. cpc' = cpc /\ fdOf' = fdOf
        BY <2>2 DEF SessionThread, TakeClient, Greet, GreetFails, SetInfo, EnterRead, ReadRequest,
           ReadEof, DropClient, EnterSubscribe, Subscribe, Unsubscribe, Disconnect, Answer, CleanSession, UseFreed,
           clientVars, data
      <3>2. freed' = freed \/ freed' = freed \cup {at[s]}
        BY <2>2 DEF SessionThread, TakeClient, Greet, GreetFails, SetInfo, EnterRead, ReadRequest,
           ReadEof, DropClient, EnterSubscribe, Subscribe, Unsubscribe, Disconnect, Answer, CleanSession, UseFreed,
           clientVars, data
      <3>3. QED
        BY <3>1, <3>2
    <2>3. QED
      BY <2>1, <2>2
  <1>8. \A d \in Clients : d # at[s] => /\ cpc'[d] = cpc[d] /\ fdOf'[d] = fdOf[d]
                                        /\ d \in freed' <=> d \in freed
    BY <1>0, <1>7
  <1>9. \A p \in Clients \X Kinds : p[1] # at[s] => pipe'[p] = pipe[p]
    <2>1. CASE Greet(s) \/ Answer(s)
      <3>1. pc[s] \in {"greet", "answer"}
        BY <2>1 DEF Greet, Answer
      <3>2. at[s] \in Clients /\ "resp" \in Opened(s)
        BY <1>0, <3>1 DEF Opened, Kinds
      <3>3. at[s] \notin freed
        BY <1>0, <2>1 DEF Greet, Answer, DataIsThere, UsesData, PlaceInv, Serving
      <3>4. /\ fdOf[at[s]]["resp"] \in Fds /\ fds[fdOf[at[s]]["resp"]] = <<at[s], "resp">>
        BY <1>0, <3>2, <3>3 DEF FdInv
      <3>5. PICK m \in Messages : pipe' = Writes(fdOf[at[s]]["resp"], m)
        <4>1. Message("CONNECT", NoKey, at[s]) \in Messages
          BY <3>2 DEF Message, Messages
        <4>2. QED
          BY <1>0, <2>1, <4>1 DEF Greet, Answer
      <3>6. \A p \in Clients \X Kinds : p # <<at[s], "resp">> => pipe'[p] = pipe[p]
        BY <1>0, <3>4, <3>5, WritesFacts
      <3>7. QED
        BY <3>6
    <2>2. CASE ReadRequest(s)
      <3>1. pipe' = [pipe EXCEPT ![<<at[s], "req">>] = Tail(@)]
        BY <2>2 DEF ReadRequest
      <3>2. QED
        BY <1>0, <3>1
    <2>3. CASE ~(Greet(s) \/ Answer(s) \/ ReadRequest(s))
      <3>1. pipe' = pipe
        BY <2>3 DEF SessionThread, TakeClient, OpenPipe, GreetFails, SetInfo, EnterRead,
           ReadEof, DropClient, EnterSubscribe, Subscribe, Unsubscribe, Disconnect, CleanSession, UseFreed
      <3>2. QED
        BY <3>1
    <2>4. QED
      BY <2>1, <2>2, <2>3
  <1>10. QED
    BY <1>1, <1>4, <1>5, <1>6, <1>8, <1>9

(* Served, for a client whose data a session has. *)
Serves(s, c) ==
  /\ Asks(c) => Stays(c, s)
  /\ Quits(c) => Leaves(c, s)
  /\ cpc[c] = "await" /\ sent[c].op = "DISCONNECT" /\ Resp(c) = <<>> => pc[s] # "clean"
  /\ cpc[c] # "ended"
  /\ npc[c] \notin {"kill", "store", "done"} /\ ~terminate[c]
  /\ npc[c] # "none" => cpc[c] \in {"check", "idle", "await", "join"}
  /\ cpc[c] \in Kinds \cup {"start"} => Req(c) = <<>>

(* The session that has a client is the one that serves it. *)
LEMMA ServedByOne ==
  ASSUME PlaceInv, NEW c \in Clients, NEW s \in Sessions, NoClient \notin Clients, With(c, s), Served(c)
  PROVE  Serves(s, c)
  <1>1. \A u \in Sessions : at[u] = c => u = s
    BY DEF PlaceInv, With
  <1>2. ~Left(c)
    BY DEF Left, With
  <1>3. Asks(c) => Stays(c, s)
    BY <1>1 DEF Served, With
  <1>4. Quits(c) => Leaves(c, s)
    BY <1>1, <1>2 DEF Served, With
  <1>5. cpc[c] = "await" /\ sent[c].op = "DISCONNECT" /\ Resp(c) = <<>> => pc[s] # "clean"
    BY <1>1 DEF Served, With
  <1>6. QED
    BY <1>2, <1>3, <1>4, <1>5 DEF Served, Serves, With

(* A client is served when one session has its data and serves it. *)
LEMMA ServedThen ==
  ASSUME NEW c \in Clients, NEW s \in Sessions, With(c, s)', Serves(s, c)'
  PROVE  Served(c)'
  <1>1. c \notin freed'
    BY DEF With
  <1>2. Asks(c)' => \E u \in Sessions : With(c, u)' /\ Stays(c, u)'
    BY DEF Serves
  <1>3. Quits(c)' => \E u \in Sessions : With(c, u)' /\ Leaves(c, u)'
    BY DEF Serves
  <1>4. cpc'[c] = "await" /\ sent'[c].op = "DISCONNECT" /\ Resp(c)' = <<>> =>
          \E u \in Sessions : With(c, u)' /\ pc'[u] # "clean"
    BY DEF Serves
  <1>5. QED
    BY <1>1, <1>2, <1>3, <1>4 DEF Served, Serves

(* A session that goes on with its client. *)
LEMMA StillServed ==
  ASSUME DataInv, NEW s \in Sessions, NEW c \in Clients, With(c, s), Served(c), Attends(s),
         EnterRead(s) \/ ReadRequest(s) \/ ReadEof(s) \/ Greet(s) \/ SetInfo(s)
         \/ EnterSubscribe(s) \/ Subscribe(s) \/ Unsubscribe(s) \/ Disconnect(s) \/ Answer(s)
  PROVE  Attends(s)' /\ Served(c)'
  <1>0. /\ pc \in [Sessions -> SLabels] /\ at \in [Sessions -> Clients \cup {NoClient}]
        /\ msg \in [Sessions -> Messages] /\ pipe \in [Clients \X Kinds -> Seq(Messages)]
        /\ ClientType /\ DataType /\ SessionType /\ PlaceInv /\ FdInv /\ LockInv /\ NoClient \notin Clients
        /\ <<c, "req">> \in Clients \X Kinds /\ <<c, "resp">> \in Clients \X Kinds
        /\ at[s] = c /\ c \notin freed
    BY SessionAssumption DEF DataInv, Types, SessionType, ClientType, Kinds, With
  <1>1. Serves(s, c)
    BY <1>0, ServedByOne
  <1>2. UNCHANGED <<cpc, npc, terminate, sent, at, freed>>
    BY DEF EnterRead, ReadRequest, ReadEof, Greet, SetInfo, EnterSubscribe, Subscribe, Unsubscribe,
       Disconnect, Answer, clientVars, data
  <1>3. Req(c) \in Seq(Messages)
    BY <1>0 DEF Req
  <1>4. ASSUME Asks(c) => Stays(c, s)', Quits(c) => Leaves(c, s)',
               Resp(c)' = <<>> => Resp(c) = <<>> /\ (pc'[s] = "clean" => ~Quits(c)),
               Req(c) = <<>> => Req(c)' = <<>>,
               pc'[s] \notin {"take"} \cup Kinds, pc[s] \notin {"take"} \cup Kinds,
               pc'[s] = "eof" => cpc[c] = "dead"
        PROVE  Attends(s)' /\ Served(c)'
    <2>1. (Asks(c)' <=> Asks(c)) /\ (Quits(c)' <=> Quits(c)) /\ With(c, s)'
      BY <1>0, <1>2 DEF Asks, Quits, With
    <2>2. Serves(s, c)'
      <3>1. cpc'[c] = "await" /\ sent'[c].op = "DISCONNECT" => Quits(c)
        BY <1>2 DEF Quits
      <3>2. cpc'[c] = "await" /\ sent'[c].op = "DISCONNECT" /\ Resp(c)' = <<>> => pc'[s] # "clean"
        BY <1>4, <3>1
      <3>3. (Asks(c)' => Stays(c, s)') /\ (Quits(c)' => Leaves(c, s)')
        BY <1>4, <2>1
      <3>4. /\ cpc'[c] # "ended"
            /\ npc'[c] \notin {"kill", "store", "done"} /\ ~terminate'[c]
            /\ npc'[c] # "none" => cpc'[c] \in {"check", "idle", "await", "join"}
            /\ cpc'[c] \in Kinds \cup {"start"} => Req(c)' = <<>>
        BY <1>1, <1>2, <1>4 DEF Serves
      <3>5. QED
        BY <3>2, <3>3, <3>4 DEF Serves
    <2>3. Served(c)'
      BY <2>1, <2>2, ServedThen
    <2>4. Attends(s)'
      BY <1>0, <1>2, <1>4 DEF Attends
    <2>5. QED
      BY <2>3, <2>4
  <1>5. (Asks(c) => Stays(c, s)) /\ (Quits(c) => Leaves(c, s))
    BY <1>1 DEF Serves
  <1>6. CASE EnterRead(s) \/ SetInfo(s)
    <2>1. /\ pc[s] \in {"loop", "setinfo"} /\ pc'[s] \in {"reading", "loop"} /\ UNCHANGED <<pipe, msg>>
      BY <1>0, <1>6 DEF EnterRead, SetInfo, Goto
    <2>2. Req(c)' = Req(c) /\ Resp(c)' = Resp(c)
      BY <2>1 DEF Req, Resp
    <2>3. Stays(c, s) => Stays(c, s)'
      BY <2>1, <2>2 DEF Stays, Working
    <2>4. Leaves(c, s) => Leaves(c, s)'
      BY <2>1, <2>2 DEF Leaves, Working
    <2>5. QED
      BY <1>4, <1>5, <2>1, <2>2, <2>3, <2>4 DEF Kinds
  <1>7. CASE ReadRequest(s)
    <2>1. /\ pc[s] = "reading" /\ pc'[s] = "do" /\ Req(c) # <<>>
          /\ pipe' = [pipe EXCEPT ![<<c, "req">>] = Tail(@)] /\ msg'[s] = Head(Req(c))
      BY <1>0, <1>7 DEF ReadRequest, Goto, Req
    <2>2. Req(c)' = Tail(Req(c)) /\ Resp(c)' = Resp(c)
      BY <1>0, <2>1 DEF Req, Resp
    <2> DEFINE q == Req(c)
    <2>3. /\ 1 \in DOMAIN q /\ Head(q) = q[1]
          /\ \A i \in DOMAIN Tail(q) : i + 1 \in DOMAIN q /\ Tail(q)[i] = q[i + 1]
          /\ Tail(q) # <<>> => Tail(q)[Len(Tail(q))] = q[Len(q)]
          /\ Tail(q) = <<>> => q[Len(q)] = Head(q)
      BY <1>3, <2>1, TailFacts
    <2>4. Stays(c, s) => Stays(c, s)'
      <3>1. SUFFICES ASSUME \A i \in DOMAIN q : q[i].op # "DISCONNECT" PROVE Stays(c, s)'
        BY DEF Stays
      <3>2. \A i \in DOMAIN Tail(q) : Tail(q)[i].op # "DISCONNECT"
        BY <2>3, <3>1
      <3>3. Head(q).op # "DISCONNECT"
        BY <2>3, <3>1
      <3>4. QED
        BY <2>1, <2>2, <3>2, <3>3 DEF Stays, Working
    <2>5. Leaves(c, s) => Leaves(c, s)'
      <3>1. SUFFICES ASSUME q[Len(q)].op = "DISCONNECT" PROVE Leaves(c, s)'
        BY <2>1 DEF Leaves
      <3>2. CASE Tail(q) = <<>>
        BY <2>1, <2>3, <3>1, <3>2 DEF Leaves
      <3>3. CASE Tail(q) # <<>>
        BY <2>1, <2>2, <2>3, <3>1, <3>3 DEF Leaves, Working
      <3>4. QED
        BY <3>2, <3>3
    <2>6. Req(c) = <<>> => Req(c)' = <<>>
      BY <2>1
    <2>7. QED
      BY <1>4, <1>5, <2>1, <2>2, <2>4, <2>5, <2>6 DEF Kinds
  <1>8. CASE ReadEof(s)
    <2>1. /\ pc[s] = "reading" /\ pc'[s] = "eof" /\ Req(c) = <<>> /\ UNCHANGED <<pipe, msg>>
          /\ cpc[c] \in {"join", "ended", "dead"}
      BY <1>0, <1>8 DEF ReadEof, Goto, Req
    <2>2. Req(c)' = Req(c) /\ Resp(c)' = Resp(c)
      BY <2>1 DEF Req, Resp
    <2>3. ~Leaves(c, s)
      BY <2>1 DEF Leaves
    <2>4. ~Asks(c) /\ ~Quits(c) /\ cpc[c] = "dead"
      BY <1>1, <1>5, <2>1, <2>3 DEF Asks, Quits, Serves
    <2>5. QED
      BY <1>4, <2>1, <2>2, <2>4 DEF Kinds
  <1>9. CASE EnterSubscribe(s) \/ Subscribe(s) \/ Unsubscribe(s)
    <2>1. /\ pc[s] \in {"do", "lock"} /\ pc'[s] \in {"lock", "answer"} /\ msg[s].op # "DISCONNECT"
          /\ UNCHANGED <<pipe, msg>>
      BY <1>0, <1>9 DEF EnterSubscribe, Subscribe, Unsubscribe, Goto, LockInv
    <2>2. Req(c)' = Req(c) /\ Resp(c)' = Resp(c)
      BY <2>1 DEF Req, Resp
    <2>3. Stays(c, s) => Stays(c, s)'
      BY <2>1, <2>2 DEF Stays, Working
    <2>4. Leaves(c, s) => Leaves(c, s)'
      BY <2>1, <2>2 DEF Leaves, Working
    <2>5. QED
      BY <1>4, <1>5, <2>1, <2>2, <2>3, <2>4 DEF Kinds
  <1>10. CASE Disconnect(s)
    <2>1. /\ pc[s] = "do" /\ pc'[s] \in {"answer", "hung"} /\ msg[s].op = "DISCONNECT"
          /\ UNCHANGED <<pipe, msg>>
      BY <1>0, <1>10 DEF Disconnect, Goto
    <2>2. Req(c)' = Req(c) /\ Resp(c)' = Resp(c)
      BY <2>1 DEF Req, Resp
    <2>3. ~Stays(c, s) /\ Leaves(c, s)'
      BY <2>1 DEF Stays, Leaves
    <2>4. QED
      BY <1>4, <1>5, <2>1, <2>2, <2>3 DEF Kinds
  <1>11. CASE Greet(s) \/ Answer(s)
    <2>1. /\ pc[s] = "greet" => pc'[s] = "setinfo" /\ msg' = msg
          /\ pc[s] = "answer" => pc'[s] = IF msg[s].op = "DISCONNECT" THEN "clean" ELSE "loop"
          /\ pc[s] \in {"greet", "answer"}
      BY <1>0, <1>11 DEF Greet, Answer, Goto
    <2>2. "resp" \in Opened(s)
      BY <2>1 DEF Opened, Kinds
    <2>3. fdOf[c]["resp"] \in Fds /\ fds[fdOf[c]["resp"]] = <<c, "resp">>
      BY <1>0, <2>2 DEF FdInv
    <2>4. PICK m \in Messages : pipe' = Writes(fdOf[c]["resp"], m)
      <3>1. Message("CONNECT", NoKey, c) \in Messages
        BY DEF Message, Messages
      <3>2. QED
        BY <1>0, <1>11, <3>1 DEF Greet, Answer
    <2>5. /\ Req(c)' = Req(c)
          /\ Resp(c)' = Resp(c) \/ Resp(c)' = Append(Resp(c), m)
          /\ Alive(c) => Resp(c)' = Append(Resp(c), m)
      <3> DEFINE W == Writes(fdOf[c]["resp"], m)
      <3>1. /\ W[<<c, "req">>] = pipe[<<c, "req">>]
            /\ W[<<c, "resp">>] = pipe[<<c, "resp">>] \/ W[<<c, "resp">>] = Append(pipe[<<c, "resp">>], m)
            /\ Alive(c) => W[<<c, "resp">>] = Append(pipe[<<c, "resp">>], m)
        <4> HIDE DEF W
        <4>1. /\ \A p \in Clients \X Kinds : W[p] = pipe[p] \/ W[p] = Append(pipe[p], m)
              /\ \A d \in Clients : W[<<d, "req">>] = pipe[<<d, "req">>]
              /\ \A d \in Clients : Alive(d) /\ fds[fdOf[c]["resp"]] = <<d, "resp">> =>
                   W[<<d, "resp">>] = Append(pipe[<<d, "resp">>], m)
          BY <1>0, <2>3, WritesFacts DEF W
        <4>2. QED
          BY <1>0, <2>3, <4>1
      <3>2. pipe' = W
        BY <2>4
      <3> HIDE DEF W
      <3>3. QED
        BY <3>1, <3>2 DEF Req, Resp
    <2>6. Append(Resp(c), m) # <<>>
      <3>1. Resp(c) \in Seq(Messages)
        BY <1>0 DEF Resp
      <3>2. QED
        BY <3>1, AppendFacts
    <2>7. Resp(c)' = <<>> => Resp(c) = <<>> /\ ~Alive(c)
      BY <2>5, <2>6
    <2>8. Quits(c) => Alive(c)
      BY DEF Quits, Alive
    <2>9. Stays(c, s) => Stays(c, s)'
      BY <2>1, <2>5 DEF Stays, Working
    <2>10. Leaves(c, s) => Leaves(c, s)'
      BY <2>1, <2>5 DEF Leaves, Working
    <2>11. QED
      BY <1>4, <1>5, <2>1, <2>5, <2>7, <2>8, <2>9, <2>10 DEF Kinds
  <1>12. QED
    BY <1>6, <1>7, <1>8, <1>9, <1>10, <1>11

(* A step of a session keeps the order. *)
LEMMA OrderSession ==
  ASSUME DataInv, OrderInv, ~fault, NEW s \in Sessions, SessionThread(s)
  PROVE  OrderInv'
  <1>0. /\ ClientType /\ DataType /\ SessionType /\ PlaceInv /\ queue \in Seq(Clients) /\ inbox \subseteq Clients
        /\ freed \subseteq Clients /\ NoClient \notin Clients
        /\ pc \in [Sessions -> SLabels] /\ at \in [Sessions -> Clients \cup {NoClient}]
        /\ \A u \in Sessions : pc[u] = "take" <=> at[u] = NoClient
        /\ cpc \in [Clients -> CLabels]
        /\ \A d \in Clients : <<d, "req">> \in Clients \X Kinds /\ <<d, "resp">> \in Clients \X Kinds
        /\ \A u, v \in Sessions : u # v /\ at[u] # NoClient => at[u] # at[v]
    BY SessionAssumption DEF DataInv, Types, ClientType, DataType, SessionType, MainType, Kinds, PlaceInv
  <1>1. /\ UNCHANGED <<npc, terminate, sent, left, inbox, signalled, blank>>
        /\ fault' = fault \/ UseFreed(s)
        /\ \A u \in Sessions : u # s => pc'[u] = pc[u] /\ at'[u] = at[u] /\ msg'[u] = msg[u]
        /\ \A d \in Clients : d # at[s] => cpc'[d] = cpc[d] /\ (d \in freed' <=> d \in freed)
        /\ \A p \in Clients \X Kinds : p[1] # at[s] => pipe'[p] = pipe[p]
        /\ cpc' = cpc \/ OpenPipe(s)
        /\ queue' = queue \/ TakeClient(s)
        /\ at'[s] = at[s] \/ at'[s] = NoClient \/ TakeClient(s)
    BY SessionFrame
  <1>2. /\ \A i \in DOMAIN queue : queue[i] \in Clients /\ queue[i] # at[s] /\ queue[i] \notin freed
        /\ \A c \in inbox : c # at[s]
    <2>1. \A i \in DOMAIN queue : queue[i] \in Clients
      BY <1>0, LenProperties, ElementOfSeq
    <2>2. QED
      BY <1>0, <2>1 DEF PlaceInv, Queued
  <1>3. TakeClient(s) => /\ at'[s] \in Clients /\ at[s] = NoClient /\ (\E i \in DOMAIN queue : at'[s] = queue[i])
                         /\ \A i \in DOMAIN queue' : \E j \in DOMAIN queue : queue'[i] = queue[j]
    <2> SUFFICES ASSUME TakeClient(s)
                 PROVE  /\ at'[s] \in Clients /\ at[s] = NoClient /\ (\E i \in DOMAIN queue : at'[s] = queue[i])
                        /\ \A i \in DOMAIN queue' : \E j \in DOMAIN queue : queue'[i] = queue[j]
      OBVIOUS
    <2>1. queue # <<>> /\ at[s] = NoClient /\ at'[s] = Head(queue) /\ queue' = Tail(queue)
      BY <1>0 DEF TakeClient
    <2>2. /\ Len(queue) \in Nat \ {0} /\ DOMAIN queue = 1..Len(queue) /\ Head(queue) = queue[1]
          /\ Len(Tail(queue)) = Len(queue) - 1 /\ \A i \in 1..Len(Tail(queue)) : Tail(queue)[i] = queue[i + 1]
          /\ DOMAIN Tail(queue) = 1..Len(Tail(queue))
      BY <1>0, <2>1, EmptySeq, LenProperties, HeadTailProperties
    <2>3. 1 \in DOMAIN queue /\ \A i \in DOMAIN Tail(queue) : i + 1 \in DOMAIN queue
      BY <2>2
    <2>4. QED
      BY <1>2, <2>1, <2>2, <2>3
  <1>4. QueuedInv'
    <2>1. \A i \in DOMAIN queue' : \E j \in DOMAIN queue : queue'[i] = queue[j]
      BY <1>1, <1>3
    <2>2. \A i \in DOMAIN queue' : cpc'[queue'[i]] \in {"resp", "dead"}
      BY <1>1, <1>2, <2>1 DEF OrderInv, QueuedInv
    <2>3. \A c \in inbox' : cpc'[c] \in {"resp", "dead"}
      BY <1>0, <1>1, <1>2 DEF OrderInv, QueuedInv
    <2>4. QED
      BY <2>2, <2>3 DEF QueuedInv
  <1>5. ASSUME ~signalled
        PROVE  /\ \A d \in Clients : Served(d)'
               /\ \A u \in Sessions : Attends(u)'
    <2>0. (\A d \in Clients : Served(d)) /\ (\A u \in Sessions : Attends(u))
      BY <1>5 DEF OrderInv
    <2>1. ASSUME NEW d \in Clients, d # at[s], d # at'[s]
          PROVE  Served(d)'
      <3>1. Req(d)' = Req(d) /\ Resp(d)' = Resp(d)
        BY <1>0, <1>1, <2>1 DEF Req, Resp
      <3>2. /\ \A u \in Sessions : at[u] = d => at'[u] = d /\ pc'[u] = pc[u] /\ msg'[u] = msg[u]
            /\ \A u \in Sessions : at'[u] = d => at[u] = d
        BY <1>1, <2>1
      <3>3. QED
        BY <1>1, <2>0, <2>1, <3>1, <3>2, ServedAsBefore
    <2>2. ASSUME NEW u \in Sessions, u # s
          PROVE  Attends(u)'
      <3>1. pc'[u] = pc[u] /\ at'[u] = at[u] /\ Attends(u)
        BY <1>1, <2>0, <2>2
      <3>2. CASE at[u] \in Clients
        <4>1. at[u] # at[s]
          BY <1>0, <2>2, <3>2
        <4>2. QED
          BY <1>1, <3>1, <3>2, <4>1 DEF Attends
      <3>3. CASE at[u] = NoClient
        <4>1. NoClient \notin freed'
          BY SessionSteps, <1>0 DEF Types, DataType
        <4>2. pc'[u] = "take"
          BY <1>0, <3>1, <3>3
        <4>3. QED
          BY <3>1, <3>3, <4>1, <4>2 DEF Attends, Kinds
      <3>4. QED
        BY <1>0, <3>2, <3>3
    <2>3. Attends(s)' /\ \A d \in Clients : d = at[s] \/ d = at'[s] => Served(d)'
      <3>1. CASE TakeClient(s)
        <4>1. PICK i \in DOMAIN queue : at'[s] = queue[i]
          BY <1>3, <3>1
        <4>2. /\ at'[s] \in Clients /\ at'[s] \notin freed' /\ cpc' = cpc /\ pc'[s] = "resp"
              /\ cpc[at'[s]] \in {"resp", "dead"} /\ pipe' = pipe
          BY <1>0, <1>2, <3>1, <4>1 DEF TakeClient, Goto, clientVars, data, OrderInv, QueuedInv
        <4>3. Attends(s)'
          BY <4>2 DEF Attends, Kinds
        <4>4. ASSUME NEW d \in Clients, d = at'[s]
              PROVE  Served(d)'
          <5>1. /\ ~Asks(d)' /\ ~Quits(d)' /\ cpc'[d] \notin {"ended", "await"} /\ d \notin freed /\ d \notin freed'
                /\ Req(d)' = Req(d)
            BY <1>2, <4>1, <4>2, <4>4 DEF Asks, Quits, Req
          <5>2. QED
            BY <1>1, <2>0, <4>2, <4>4, <5>1 DEF Served
        <4>5. QED
          BY <1>0, <1>3, <3>1, <4>3, <4>4
      <3>2. CASE UseFreed(s)
        <4>1. UNCHANGED <<cpc, npc, terminate, sent, pipe, freed, pc, at, msg>>
          BY <3>2 DEF UseFreed, clientVars, data, sessionVars
        <4>2. Attends(s)'
          BY <2>0, <4>1 DEF Attends
        <4>3. ASSUME NEW d \in Clients
              PROVE  Served(d)'
          <5>1. Req(d)' = Req(d) /\ Resp(d)' = Resp(d)
            BY <4>1 DEF Req, Resp
          <5>2. QED
            BY <2>0, <4>1, <5>1, ServedAsBefore
        <4>4. QED
          BY <4>2, <4>3
      <3>3. CASE ~TakeClient(s) /\ ~UseFreed(s)
        <4>0. at[s] \in Clients /\ pc[s] # "take"
          <5>1. pc[s] # "take"
            BY <3>3 DEF SessionThread, OpenPipe, Greet, GreetFails, SetInfo, EnterRead, ReadRequest,
               ReadEof, DropClient, EnterSubscribe, Subscribe, Unsubscribe, Disconnect, Answer, CleanSession, Kinds
          <5>2. QED
            BY <1>0, <5>1
        <4>1. PICK c \in Clients : c = at[s]
          BY <4>0
        <4>2. c \notin freed
          <5>1. c \in freed => pc[s] = "loop"
            BY <2>0, <4>1 DEF Attends
          <5>2. pc[s] = "loop" => DataIsThere(s)
            BY <3>3 DEF SessionThread, OpenPipe, Greet, GreetFails, SetInfo, EnterRead, ReadRequest,
               ReadEof, DropClient, EnterSubscribe, Subscribe, Unsubscribe, Disconnect, Answer, CleanSession, Kinds
          <5>3. pc[s] = "loop" => at[s] \notin freed
            BY <5>2 DEF DataIsThere, UsesData
          <5>4. QED
            BY <4>1, <5>1, <5>3
        <4>3. Served(c) /\ Attends(s) /\ With(c, s) /\ Serves(s, c)
          BY <1>0, <2>0, <4>1, <4>2, ServedByOne DEF With
        <4>4. at'[s] = c \/ at'[s] = NoClient
          BY <1>1, <3>3, <4>1
        <4>5. CASE EnterRead(s) \/ ReadRequest(s) \/ ReadEof(s) \/ Greet(s) \/ SetInfo(s)
                   \/ EnterSubscribe(s) \/ Subscribe(s) \/ Unsubscribe(s) \/ Disconnect(s) \/ Answer(s)
          <5>1. Attends(s)' /\ Served(c)'
            BY <4>3, <4>5, StillServed
          <5>2. QED
            BY <1>0, <4>1, <4>4, <5>1
        <4>6. CASE OpenPipe(s)
          <5>1. /\ pc[s] \in Kinds /\ cpc[c] = pc[s] /\ at' = at /\ pipe' = pipe /\ freed' = freed
                /\ pc'[s] = IF pc[s] = "resp" THEN "req" ELSE IF pc[s] = "req" THEN "notif" ELSE "greet"
                /\ cpc'[c] = IF pc[s] = "resp" THEN "req" ELSE IF pc[s] = "req" THEN "notif" ELSE "connect"
            BY <1>0, <4>1, <4>6 DEF OpenPipe, Goto, GotoC
          <5>2. Req(c) = <<>> /\ Req(c)' = <<>>
            BY <4>3, <5>1 DEF Serves, Req
          <5>3. Asks(c)' => Stays(c, s)'
            <6>1. Asks(c)' => pc'[s] = "greet"
              BY <5>1 DEF Asks, Kinds
            <6>2. \A i \in DOMAIN Req(c)' : FALSE
              BY <5>2
            <6>3. QED
              BY <6>1, <6>2 DEF Stays, Working
          <5>4. ~Quits(c)' /\ cpc'[c] \notin {"ended", "await"} /\ npc[c] = "none"
            <6>1. cpc[c] \notin {"check", "idle", "await", "join"}
              BY <5>1 DEF Kinds
            <6>2. QED
              BY <4>3, <5>1, <6>1 DEF Quits, Serves
          <5>5. Serves(s, c)'
            BY <1>1, <4>3, <5>2, <5>3, <5>4 DEF Serves
          <5>6. With(c, s)'
            BY <4>1, <4>2, <5>1 DEF With
          <5>7. Served(c)'
            BY <5>5, <5>6, ServedThen
          <5>8. Attends(s)'
            BY <4>1, <4>2, <5>1 DEF Attends, Kinds
          <5>9. QED
            BY <1>0, <4>1, <5>1, <5>7, <5>8
        <4>7. CASE GreetFails(s) \/ DropClient(s)
          <5>1. /\ cpc' = cpc /\ freed' = freed \cup {c} /\ pipe' = pipe
                /\ \/ pc[s] = "greet" /\ ~Alive(c) /\ pc'[s] = "take" /\ at'[s] = NoClient
                   \/ pc[s] = "eof" /\ pc'[s] = "loop" /\ at'[s] = c
            BY <1>0, <4>1, <4>7 DEF GreetFails, DropClient, Goto, clientVars
          <5>2. cpc[c] = "dead"
            BY <4>1, <4>3, <5>1 DEF Attends, Serves, Alive
          <5>3. Served(c)'
            <6>1. ~Asks(c)' /\ ~Quits(c)' /\ cpc'[c] \notin {"ended", "await", "start"} \cup Kinds
              BY <5>1, <5>2 DEF Asks, Quits, Kinds
            <6>2. npc'[c] = "none"
              BY <1>1, <4>3, <5>2 DEF Serves
            <6>3. QED
              BY <5>1, <5>2, <6>1, <6>2 DEF Served
          <5>4. Attends(s)'
            BY <1>0, <5>1, <5>2 DEF Attends, Kinds
          <5>5. QED
            BY <1>0, <4>1, <4>4, <5>3, <5>4
        <4>8. CASE CleanSession(s)
          <5>1. /\ cpc' = cpc /\ freed' = freed \cup {c} /\ pipe' = pipe
                /\ pc[s] = "clean" /\ pc'[s] = "take" /\ at'[s] = NoClient
            BY <1>0, <4>1, <4>8 DEF CleanSession, Goto, clientVars
          <5>2. Left(c)'
            BY <1>0, <1>1, <4>1, <5>1 DEF Left
          <5>3. ~Asks(c) /\ cpc[c] \notin {"ended", "start"} \cup Kinds
            BY <4>1, <4>3, <5>1 DEF Serves, Stays, Working, Attends, Kinds
          <5>4. cpc[c] = "dead" \/ Quits(c)
            BY <1>0, <5>3 DEF Asks, Quits, CLabels
          <5>5. ~(cpc[c] = "await" /\ sent[c].op = "DISCONNECT" /\ Resp(c) = <<>>)
            BY <4>3, <5>1 DEF Serves
          <5>6. Served(c)'
            <6>1. (Asks(c)' <=> Asks(c)) /\ (Quits(c)' <=> Quits(c)) /\ Resp(c)' = Resp(c)
              BY <1>1, <5>1 DEF Asks, Quits, Resp
            <6>2. c \in freed'
              BY <5>1
            <6>3. npc'[c] # "none" => cpc'[c] \in {"check", "idle", "await", "join"}
              BY <1>1, <4>3, <5>1 DEF Serves
            <6>4. QED
              BY <1>1, <5>1, <5>2, <5>3, <5>4, <5>5, <6>1, <6>2, <6>3 DEF Served
          <5>7. Attends(s)'
            BY <1>0, <5>1 DEF Attends, Kinds
          <5>8. QED
            BY <1>0, <4>1, <5>1, <5>6, <5>7
        <4>9. QED
          BY <3>3, <4>5, <4>6, <4>7, <4>8 DEF SessionThread
      <3>4. QED
        BY <3>1, <3>2, <3>3
    <2>4. QED
      BY <2>1, <2>2, <2>3
  <1>6. ASSUME ~signalled, fault'
        PROVE  \E u \in Sessions : at'[u] \in freed'
    <2>1. UseFreed(s)
      BY <1>1, <1>6
    <2>2. at[s] \in freed /\ UNCHANGED <<at, freed>>
      BY <2>1 DEF UseFreed, DataIsThere, data, sessionVars
    <2>3. QED
      BY <2>2
  <1>7. QED
    BY <1>1, <1>4, <1>5, <1>6 DEF OrderInv


(* A step of the main thread keeps the order. *)
LEMMA OrderMain ==
  ASSUME DataInv, OrderInv, ~fault, MainThread \/ Signal \/ SignalCutsWait
  PROVE  OrderInv'
  <1>0. /\ queue \in Seq(Clients) /\ inbox \subseteq Clients /\ SigInv
        /\ newcomer \in inbox \cup {NoClient} /\ (mainPc = "add" <=> newcomer # NoClient)
    BY DEF DataInv, Types, MainType
  <1>1. UNCHANGED <<clientVars, pipe, pc, at, msg, blank>>
    BY DEF MainThread, Signal, SignalCutsWait, EnterServerRead, ReadServerPipe, Admit, CleanTree,
       CleanData, sessionVars
  <1>2. UNCHANGED <<cpc, npc, terminate, sent>>
    BY <1>1 DEF clientVars
  <1>3. QueuedInv'
    <2>1. CASE Admit \/ SignalCutsWait
      <3>1. PICK c \in inbox : inbox' = inbox \ {c} /\ queue' = Append(queue, c)
        BY <1>0, <2>1 DEF Admit, SignalCutsWait, Enqueue
      <3>2. \A i \in DOMAIN Append(queue, c) :
              (i \in DOMAIN queue /\ Append(queue, c)[i] = queue[i]) \/ Append(queue, c)[i] = c
        <4>1. DOMAIN Append(queue, c) = 1..(Len(queue) + 1) /\ Len(queue) \in Nat /\ DOMAIN queue = 1..Len(queue)
          BY <1>0, <3>1, AppendProperties, LenProperties
        <4>2. /\ Append(queue, c)[Len(queue) + 1] = c
              /\ \A i \in 1..Len(queue) : Append(queue, c)[i] = queue[i]
          BY <1>0, <3>1, AppendProperties
        <4>3. \A i \in 1..(Len(queue) + 1) : i \in 1..Len(queue) \/ i = Len(queue) + 1
          BY <4>1
        <4>4. QED
          BY <4>1, <4>2, <4>3
      <3>3. cpc[c] \in {"resp", "dead"} /\ \A i \in DOMAIN queue : cpc[queue[i]] \in {"resp", "dead"}
        BY <3>1 DEF OrderInv, QueuedInv
      <3>4. \A i \in DOMAIN queue' : cpc'[queue'[i]] \in {"resp", "dead"}
        BY <1>2, <3>1, <3>2, <3>3
      <3>5. \A d \in inbox' : cpc'[d] \in {"resp", "dead"}
        BY <1>2, <3>1 DEF OrderInv, QueuedInv
      <3>6. QED
        BY <3>4, <3>5 DEF QueuedInv
    <2>2. CASE ~(Admit \/ SignalCutsWait)
      <3>1. UNCHANGED <<inbox, queue>>
        BY <2>2 DEF MainThread, Signal, EnterServerRead, ReadServerPipe, CleanTree, CleanData
      <3>2. QED
        BY <1>2, <3>1 DEF OrderInv, QueuedInv
    <2>3. QED
      BY <2>1, <2>2
  <1>4. ASSUME ~signalled'
        PROVE  /\ ~signalled /\ UNCHANGED <<freed, fault>>
               /\ \A d \in Clients : Served(d)'
               /\ \A s \in Sessions : Attends(s)'
    <2>1. ~Signal /\ ~SignalCutsWait
      BY <1>4 DEF Signal, SignalCutsWait, SendSignal
    <2>2. ~signalled /\ mainPc \notin {"tree", "data"}
      BY <1>0, <1>4, <2>1 DEF MainThread, EnterServerRead, ReadServerPipe, Admit, CleanTree, CleanData, signals, SigInv
    <2>3. UNCHANGED <<freed, fault>>
      BY <2>1, <2>2 DEF MainThread, EnterServerRead, ReadServerPipe, Admit, CleanTree, CleanData, data
    <2>4. ASSUME NEW d \in Clients
          PROVE  Served(d)'
      <3>1. Req(d)' = Req(d) /\ Resp(d)' = Resp(d)
        BY <1>1 DEF Req, Resp
      <3>2. Served(d)
        BY <2>2 DEF OrderInv
      <3>3. QED
        BY <1>1, <1>2, <2>3, <3>1, <3>2, ServedAsBefore
    <2>5. ASSUME NEW s \in Sessions
          PROVE  Attends(s)'
      BY <1>1, <1>2, <2>2, <2>3 DEF OrderInv, Attends
    <2>6. QED
      BY <2>2, <2>3, <2>4, <2>5
  <1>5. QED
    BY <1>1, <1>3, <1>4 DEF OrderInv

(* A notification keeps the order. *)
LEMMA OrderNotify ==
  ASSUME DataInv, OrderInv, ~fault, NEW k \in Keys, Notify(k)
  PROVE  OrderInv'
  <1>1. UNCHANGED <<clientVars, fds, data, books, sessionVars, mainVars, fault, signals, blank>>
    BY DEF Notify
  <1>2. UNCHANGED <<cpc, npc, terminate, sent, pc, at, msg, freed, inbox, queue, signalled, blank>>
    BY <1>1 DEF clientVars, data, sessionVars, mainVars, signals
  <1>3. \A d \in Clients : Req(d)' = Req(d) /\ (Resp(d) # <<>> => Resp(d)' # <<>>)
    <2>1. \A d \in Clients : <<d, "resp">> \in Clients \X Kinds
      BY DEF Kinds
    <2>2. /\ \A c \in Clients : pipe'[<<c, "req">>] = pipe[<<c, "req">>]
          /\ \A p \in Clients \X Kinds : pipe[p] # <<>> => pipe'[p] # <<>>
      BY NotifyFacts DEF DataInv
    <2>3. QED
      BY <2>1, <2>2 DEF Req, Resp
  <1>4. QueuedInv'
    BY <1>2 DEF OrderInv, QueuedInv
  <1>5. ASSUME NEW d \in Clients, Served(d)
        PROVE  Served(d)'
    BY <1>2, <1>3, <1>5, ServedAsBefore
  <1>6. ASSUME NEW s \in Sessions, Attends(s)
        PROVE  Attends(s)'
    BY <1>2, <1>6 DEF Attends
  <1>7. QED
    BY <1>1, <1>2, <1>4, <1>5, <1>6 DEF OrderInv

(* So does a job thread that waits for ever. *)
LEMMA OrderKeep ==
  ASSUME OrderInv, NEW k \in Keys, KeepList(k)
  PROVE  OrderInv'
  <1>1. UNCHANGED <<cpc, npc, terminate, sent, pipe, freed, pc, at, msg, inbox, queue, fault, signalled,
                    blank>>
    BY DEF KeepList, clientVars, data, sessionVars, mainVars, signals
  <1>2. ASSUME NEW d \in Clients, Served(d)
        PROVE  Served(d)'
    <2>1. Req(d)' = Req(d) /\ Resp(d)' = Resp(d)
      BY <1>1 DEF Req, Resp
    <2>2. QED
      BY <1>1, <1>2, <2>1, ServedAsBefore
  <1>3. ASSUME NEW s \in Sessions, Attends(s)
        PROVE  Attends(s)'
    BY <1>1, <1>3 DEF Attends
  <1>4. QueuedInv'
    BY <1>1 DEF OrderInv, QueuedInv
  <1>5. QED
    BY <1>1, <1>2, <1>3, <1>4 DEF OrderInv

(* The order holds at first, when no client has started. *)
LEMMA OrderInit == Init => OrderInv
  <1> SUFFICES ASSUME Init PROVE OrderInv
    OBVIOUS
  <1>0. NoClient \notin Clients
    BY SessionAssumption
  <1>1. QueuedInv
    BY DEF Init, QueuedInv
  <1>2. ASSUME NEW c \in Clients
        PROVE  Served(c)
    <2>1. cpc[c] = "start" /\ npc[c] = "none" /\ ~terminate[c] /\ c \notin freed /\ Req(c) = <<>>
      BY DEF Init, Req, Kinds
    <2>2. ~Asks(c) /\ ~Quits(c)
      BY <2>1 DEF Asks, Quits
    <2>3. QED
      BY <2>1, <2>2 DEF Served
  <1>3. ASSUME NEW s \in Sessions
        PROVE  Attends(s)
    BY DEF Init, Attends, Kinds
  <1>4. QED
    BY <1>1, <1>2, <1>3 DEF Init, OrderInv

(* Every step keeps the order. *)
LEMMA OrderStep == DataInv /\ OrderInv /\ [Next]_vars => OrderInv'
  <1> SUFFICES ASSUME DataInv, OrderInv, [Next]_vars PROVE OrderInv'
    OBVIOUS
  <1>1. CASE Next
    <2>1. ~fault
      BY <1>1 DEF Next
    <2>2. ASSUME NEW c \in Clients, ClientStep(c)
          PROVE  OrderInv'
      BY <2>1, <2>2, OrderClient
    <2>3. ASSUME NEW s \in Sessions, SessionThread(s)
          PROVE  OrderInv'
      BY <2>1, <2>3, OrderSession
    <2>4. CASE MainThread \/ Signal \/ SignalCutsWait
      BY <2>1, <2>4, OrderMain
    <2>5. ASSUME NEW k \in Keys, Notify(k) \/ KeepList(k)
          PROVE  OrderInv'
      BY <2>1, <2>5, OrderNotify, OrderKeep
    <2>6. QED
      BY <1>1, <2>2, <2>3, <2>4, <2>5 DEF Next, ClientStep
  <1>2. CASE UNCHANGED vars
    <2>1. UNCHANGED <<cpc, npc, terminate, sent, pipe, freed, pc, at, msg, inbox, queue, fault,
                      signalled, blank>>
      BY <1>2 DEF vars, clientVars, server, data, sessionVars, mainVars, signals
    <2>2. ASSUME NEW c \in Clients, Served(c)
          PROVE  Served(c)'
      <3>1. Req(c)' = Req(c) /\ Resp(c)' = Resp(c)
        BY <2>1 DEF Req, Resp
      <3>2. QED
        BY <2>1, <2>2, <3>1, ServedAsBefore
    <2>3. ASSUME NEW s \in Sessions, Attends(s)
          PROVE  Attends(s)'
      BY <2>1, <2>3 DEF Attends
    <2>4. QueuedInv'
      BY <2>1 DEF OrderInv, QueuedInv
    <2>5. QED
      BY <2>1, <2>2, <2>3, <2>4 DEF OrderInv
  <1>3. QED
    BY <1>1, <1>2

(* Data and order, in all behaviours. *)
LEMMA OrderAlways == Spec => [](DataInv /\ OrderInv)
  <1>1. DataInv /\ OrderInv /\ [Next]_vars => (DataInv /\ OrderInv)'
    BY DataStep, OrderStep
  <1>2. Init => DataInv /\ OrderInv
    BY DataInit, OrderInit
  <1>3. QED
    BY <1>1, <1>2, PTL DEF Spec

(* Freed ClientData are used only after SIGUSR1, or by the session of a    *)
(* client that died on it: however many clients connect, ask and leave     *)
(* with DISCONNECT, in whatever order, no pointer outlives its data.       *)
THEOREM OrderlyClientsNeverFault == Spec => []OrderlyClientsAreSafe
  <1>1. DataInv /\ OrderInv => OrderlyClientsAreSafe
    <2> SUFFICES ASSUME DataInv, OrderInv, fault, ~signalled
                 PROVE  \E s \in Sessions : pc[s] = "loop" /\ info[s] = at[s] /\ cpc[at[s]] = "dead"
      BY DEF OrderlyClientsAreSafe
    <2>1. PICK s \in Sessions : at[s] \in freed
      BY DEF OrderInv
    <2>2. pc[s] = "loop" /\ cpc[at[s]] = "dead"
      BY <2>1 DEF OrderInv, Attends
    <2>3. info[s] = at[s]
      BY <2>2 DEF DataInv, InfoInv, Serving
    <2>4. QED
      BY <2>2, <2>3
  <1>2. QED
    BY <1>1, OrderAlways, PTL

(* A client takes an end of file for an answer only after SIGUSR1: while   *)
(* it waits for one, no end of a session closes its response pipe.         *)
THEOREM AnswersAreWritten == Spec => []BlankOnlyAfterSignal
  <1>1. OrderInv => BlankOnlyAfterSignal
    BY DEF OrderInv, BlankOnlyAfterSignal
  <1>2. QED
    BY <1>1, OrderAlways, PTL

-----------------------------------------------------------------------------
(* Until a client dies on its session: notes and answers *)

(* The tree of a key names sessions that have the key, with the            *)
(* descriptor their client has now; a session that has keys serves.        *)
BooksInv ==
  /\ \A k \in Keys : \A e \in keySubs[k] :
       /\ at[e.session] = e.owner /\ k \in sessKeys[e.session]
       /\ e.fd = fdOf[e.owner]["notif"]
  /\ \A s \in Sessions : sessKeys[s] # {} =>
       /\ pc[s] \in Serving \ {"clean"}
       /\ pc[s] = "answer" => msg[s].op # "DISCONNECT"

Notif(c) == pipe[<<c, "notif">>]
NotesInv(c) == \A i \in DOMAIN Notif(c) : Notif(c)[i].owner = c

(* Between a client and its session there is at most one message: the      *)
(* request, the session that acts on it, or the answer.                    *)
Quiet(c) == Req(c) = <<>> /\ Resp(c) = <<>>
Reads == {"setinfo", "loop", "reading"}
Exchange(c, s) ==
  /\ cpc[c] = "connect" =>
       /\ Req(c) = <<>>
       /\ \/ pc[s] = "greet" /\ Resp(c) = <<>>
          \/ pc[s] \in Reads /\ Resp(c) = <<Message("CONNECT", NoKey, c)>>
  /\ cpc[c] \in {"check", "idle"} => Quiet(c) /\ pc[s] \in Reads
  /\ cpc[c] = "await" =>
       \/ pc[s] \in {"do", "lock", "answer"} /\ Quiet(c) /\ msg[s] = sent[c]
       \/ pc[s] = "hung" /\ Quiet(c)
       \/ pc[s] \in Reads /\ Req(c) = <<sent[c]>> /\ Resp(c) = <<>>
       \/ pc[s] \in Reads \cup {"clean"} /\ Req(c) = <<>> /\ Resp(c) = <<sent[c]>>
  /\ cpc[c] = "join" => Quiet(c) /\ pc[s] = "clean"

Exchanged(c) ==
  /\ cpc[c] \in Kinds \cup {"start"} => Resp(c) = <<>>
  /\ c \in freed /\ cpc[c] = "await" => Resp(c) = <<sent[c]>>
  /\ c \in freed /\ cpc[c] = "join" => Resp(c) = <<>>
  /\ \A s \in Sessions : at[s] = c /\ pc[s] \notin Kinds => Exchange(c, s)

StrongInv ==
  ~Doomed => /\ BooksInv
             /\ \A c \in Clients : NotesInv(c) /\ Exchanged(c)

(* What dooms the server is for good. *)
LEMMA DoomedBefore ==
  ASSUME DataInv, OrderInv, Next, ~Doomed'
  PROVE  ~Doomed
  <1>0. /\ freed \subseteq Clients /\ at \in [Sessions -> Clients \cup {NoClient}] /\ NoClient \notin Clients
        /\ pc \in [Sessions -> SLabels] /\ SigInv /\ ~fault
    BY SessionAssumption DEF DataInv, Types, DataType, SessionType, Next
  <1>1. ~signalled' /\ \A s \in Sessions : at'[s] \notin freed'
    BY DEF Doomed
  <1>2. ASSUME NEW c \in Clients, ClientStep(c)
        PROVE  ~Doomed
    <2>1. UNCHANGED <<at, freed, signalled>>
      BY <1>2, ClientSteps DEF DataInv, Types, data, sessionVars, signals
    <2>2. QED
      BY <1>1, <2>1 DEF Doomed
  <1>3. ASSUME NEW s \in Sessions, SessionThread(s)
        PROVE  ~Doomed
    <2>1. ~signalled
      BY <1>1, <1>3, SessionFrame
    <2>2. ASSUME NEW u \in Sessions, at[u] \in freed
          PROVE  FALSE
      <3>1. pc[u] = "loop"
        BY <2>1, <2>2 DEF OrderInv, Attends
      <3>2. CASE u = s
        <4>1. at' = at
          BY <1>3, <2>2, <3>1, <3>2 DEF SessionThread, TakeClient, OpenPipe, Greet, GreetFails, SetInfo,
             EnterRead, ReadRequest, ReadEof, DropClient, EnterSubscribe, Subscribe, Unsubscribe, Disconnect, Answer,
             CleanSession, UseFreed, sessionVars, Kinds
        <4>2. freed \subseteq freed'
          BY <1>3, <2>2, <3>1, <3>2 DEF SessionThread, TakeClient, OpenPipe, Greet, GreetFails, SetInfo,
             EnterRead, ReadRequest, ReadEof, DropClient, EnterSubscribe, Subscribe, Unsubscribe, Disconnect, Answer,
             CleanSession, UseFreed, data, Kinds
        <4>3. QED
          BY <1>1, <2>2, <4>1, <4>2
      <3>3. CASE u # s
        <4>1. at'[u] = at[u]
          BY <1>3, <3>3, SessionFrame
        <4>2. freed' = freed \/ freed' = freed \cup {at[s]}
          BY <1>3 DEF SessionThread, TakeClient, OpenPipe, Greet, GreetFails, SetInfo,
             EnterRead, ReadRequest, ReadEof, DropClient, EnterSubscribe, Subscribe, Unsubscribe, Disconnect, Answer,
             CleanSession, UseFreed, data
        <4>3. QED
          BY <1>1, <2>2, <4>1, <4>2
      <3>4. QED
        BY <3>2, <3>3
    <2>3. QED
      BY <2>1, <2>2 DEF Doomed
  <1>4. CASE MainThread \/ Signal \/ SignalCutsWait
    <2>1. ~Signal /\ ~SignalCutsWait
      BY <1>1 DEF Signal, SignalCutsWait, SendSignal
    <2>2. ~signalled
      BY <1>1, <1>4, <2>1 DEF MainThread, EnterServerRead, ReadServerPipe, Admit, CleanTree, CleanData,
         signals
    <2>3. mainPc \notin {"tree", "data"}
      BY <1>0, <2>2 DEF SigInv
    <2>4. UNCHANGED <<at, freed>>
      BY <1>4, <2>1, <2>3 DEF MainThread, EnterServerRead, ReadServerPipe, Admit, CleanTree, CleanData,
         data, sessionVars
    <2>5. QED
      BY <1>1, <2>2, <2>4 DEF Doomed
  <1>5. ASSUME NEW k \in Keys, Notify(k) \/ KeepList(k)
        PROVE  ~Doomed
    <2>1. UNCHANGED <<at, freed, signalled>>
      BY <1>5 DEF Notify, KeepList, data, sessionVars, signals
    <2>2. QED
      BY <1>1, <2>1 DEF Doomed
  <1>6. QED
    BY <1>2, <1>3, <1>4, <1>5 DEF Next, ClientStep

(* Until then main only lets clients in. *)
LEMMA MainBefore ==
  ASSUME DataInv, ~Doomed', MainThread \/ Signal \/ SignalCutsWait
  PROVE  UNCHANGED <<clientVars, pipe, fdOf, freed, books, sessionVars>>
  <1>0. SigInv
    BY DEF DataInv
  <1>1. ~signalled' /\ ~Signal /\ ~SignalCutsWait
    BY DEF Doomed, Signal, SignalCutsWait, SendSignal
  <1>2. ~signalled
    BY <1>1 DEF MainThread, EnterServerRead, ReadServerPipe, Admit, CleanTree, CleanData, signals
  <1>3. mainPc \notin {"tree", "data"}
    BY <1>0, <1>2 DEF SigInv
  <1>4. QED
    BY <1>1, <1>3 DEF MainThread, EnterServerRead, ReadServerPipe, Admit, CleanTree, CleanData, data

(* The descriptor in the tree of a key is the notification pipe of the     *)
(* client whose session put it there.                                      *)
LEMMA HomeOf ==
  ASSUME DataInv, BooksInv, ~Doomed, NEW k \in Keys, NEW e \in keySubs[k]
  PROVE  e.owner \in Clients /\ fds[e.fd] = <<e.owner, "notif">>
  <1>1. e.session \in Sessions /\ e.owner \in Clients
    BY DEF DataInv, Types, BookType
  <1>2. /\ at[e.session] = e.owner /\ sessKeys[e.session] # {} /\ e.fd = fdOf[e.owner]["notif"]
    BY DEF BooksInv
  <1>3. pc[e.session] \in Serving
    BY <1>1, <1>2 DEF BooksInv
  <1>4. at[e.session] \notin freed
    BY <1>1 DEF Doomed
  <1>5. "notif" \in Opened(e.session)
    BY <1>3 DEF Opened, Serving, Kinds
  <1>6. QED
    BY <1>1, <1>2, <1>4, <1>5 DEF DataInv, FdInv

(* A step of a session keeps the trees in agreement. *)
LEMMA BooksSession ==
  ASSUME DataInv, BooksInv, ~Doomed, ~Doomed', NEW s \in Sessions, SessionThread(s)
  PROVE  BooksInv'
  <1>0. /\ pc \in [Sessions -> SLabels] /\ at \in [Sessions -> Clients \cup {NoClient}]
        /\ msg \in [Sessions -> Messages] /\ sessKeys \in [Sessions -> SUBSET Keys]
        /\ keySubs \in [Keys -> SUBSET [session : Sessions, fd : Fds, owner : Clients]]
        /\ NoClient \notin Clients /\ PlaceInv /\ RequestInv /\ LockInv
        /\ \A u \in Sessions : pc[u] = "take" <=> at[u] = NoClient
    BY SessionAssumption DEF DataInv, Types, SessionType, BookType
  <1>1. /\ \A u \in Sessions : u # s => pc'[u] = pc[u] /\ at'[u] = at[u] /\ msg'[u] = msg[u]
                                        /\ sessKeys'[u] = sessKeys[u]
        /\ \A d \in Clients : d # at[s] => fdOf'[d] = fdOf[d]
    BY SessionFrame
  <1>2. \A k \in Keys : \A e \in keySubs[k] :
          /\ e.session \in Sessions /\ e.owner \in Clients
          /\ at[e.session] = e.owner /\ k \in sessKeys[e.session]
          /\ e.fd = fdOf[e.owner]["notif"]
    BY <1>0 DEF BooksInv
  <1>3. /\ sessKeys[s] # {} => pc[s] \in Serving \ {"clean"}
        /\ sessKeys[s] # {} /\ pc[s] = "answer" => msg[s].op # "DISCONNECT"
    BY DEF BooksInv
  <1>4. ASSUME \A k \in Keys : \A e \in keySubs'[k] :
                 /\ at'[e.session] = e.owner /\ k \in sessKeys'[e.session]
                 /\ e.fd = fdOf'[e.owner]["notif"],
               sessKeys'[s] # {} => pc'[s] \in Serving \ {"clean"},
               sessKeys'[s] # {} /\ pc'[s] = "answer" => msg'[s].op # "DISCONNECT"
        PROVE  BooksInv'
    <2>1. ASSUME NEW u \in Sessions, sessKeys'[u] # {}
          PROVE  pc'[u] \in Serving \ {"clean"} /\ (pc'[u] = "answer" => msg'[u].op # "DISCONNECT")
      <3>1. CASE u = s
        BY <1>4, <2>1, <3>1
      <3>2. CASE u # s
        BY <1>1, <2>1, <3>2 DEF BooksInv
      <3>3. QED
        BY <3>1, <3>2
    <2>2. QED
      BY <1>4, <2>1 DEF BooksInv
  <1>5. CASE TakeClient(s) \/ OpenPipe(s) \/ Greet(s) \/ GreetFails(s) \/ SetInfo(s) \/ CleanSession(s)
    <2>1. pc[s] \notin Serving \ {"clean"}
      BY <1>5 DEF TakeClient, OpenPipe, Greet, GreetFails, SetInfo, CleanSession, Serving, Kinds
    <2>2. sessKeys[s] = {}
      BY <1>3, <2>1
    <2>3. keySubs' = keySubs /\ sessKeys'[s] = {}
      BY <1>0, <1>5, <2>2 DEF TakeClient, OpenPipe, Greet, GreetFails, SetInfo, CleanSession, books
    <2>4. ASSUME NEW k \in Keys, NEW e \in keySubs[k]
          PROVE  /\ at'[e.session] = e.owner /\ k \in sessKeys'[e.session]
                 /\ e.fd = fdOf'[e.owner]["notif"]
      <3>1. e.session # s
        BY <1>2, <2>2
      <3>2. e.owner # at[s]
        BY <1>0, <1>2, <3>1 DEF PlaceInv
      <3>3. QED
        BY <1>1, <1>2, <3>1, <3>2
    <2>5. QED
      BY <1>4, <2>3, <2>4
  <1>6. CASE \/ EnterRead(s) \/ ReadRequest(s) \/ ReadEof(s) \/ EnterSubscribe(s)
             \/ Disconnect(s) \/ Answer(s) \/ UseFreed(s)
    <2>1. UNCHANGED <<at, fdOf, sessKeys, keySubs>>
      BY <1>6 DEF EnterRead, ReadRequest, ReadEof, EnterSubscribe, Disconnect, Answer, UseFreed,
         books, data, sessionVars
    <2>2. ASSUME sessKeys[s] # {}
          PROVE  pc'[s] \in Serving \ {"clean"} /\ (pc'[s] = "answer" => msg'[s].op # "DISCONNECT")
      <3>1. pc[s] \in Serving \ {"clean"} /\ (pc[s] = "answer" => msg[s].op # "DISCONNECT")
        BY <1>3, <2>2
      <3>2. CASE EnterRead(s) \/ ReadRequest(s) \/ ReadEof(s) \/ EnterSubscribe(s)
        BY <1>0, <3>2 DEF EnterRead, ReadRequest, ReadEof, EnterSubscribe, Goto, Serving
      <3>3. CASE Disconnect(s)
        BY <1>0, <2>2, <3>3 DEF Disconnect, Goto, Serving
      <3>4. CASE Answer(s)
        BY <1>0, <3>1, <3>4 DEF Answer, Goto, Serving
      <3>5. CASE UseFreed(s)
        BY <3>1, <3>5 DEF UseFreed, sessionVars
      <3>6. QED
        BY <1>6, <3>2, <3>3, <3>4, <3>5
    <2>3. QED
      BY <1>2, <1>4, <2>1, <2>2
  <1>7. CASE Subscribe(s)
    <2>1. PICK k \in Keys : k = msg[s].key
      <3>1. pc[s] = "lock" /\ msg[s].op = "SUBSCRIBE"
        BY <1>0, <1>7 DEF Subscribe, LockInv
      <3>2. QED
        BY <1>0, <3>1 DEF RequestInv, IsRequest
    <2>2. /\ at' = at /\ fdOf' = fdOf /\ msg' = msg /\ pc'[s] = "answer" /\ msg[s].op = "SUBSCRIBE"
          /\ sessKeys'[s] = sessKeys[s] \cup {k}
      BY <1>0, <1>7, <2>1 DEF Subscribe, Goto, data, LockInv
    <2>3. ASSUME NEW j \in Keys, NEW e \in keySubs'[j]
          PROVE  e \in keySubs[j] \/ (j = k /\ e = [session |-> s, fd |-> fdOf[at[s]]["notif"], owner |-> at[s]])
      <3>1. \/ keySubs' = keySubs
            \/ keySubs' = [keySubs EXCEPT ![k] = @ \cup
                             {[session |-> s, fd |-> fdOf[at[s]]["notif"], owner |-> at[s]]}]
        BY <1>7, <2>1 DEF Subscribe
      <3>2. QED
        BY <1>0, <2>3, <3>1
    <2>4. \A u \in Sessions : sessKeys[u] \subseteq sessKeys'[u]
      BY <1>1, <2>2
    <2>5. ASSUME NEW j \in Keys, NEW e \in keySubs'[j]
          PROVE  /\ at'[e.session] = e.owner /\ j \in sessKeys'[e.session]
                 /\ e.fd = fdOf'[e.owner]["notif"]
      <3>1. CASE e \in keySubs[j]
        BY <1>2, <2>2, <2>4, <3>1
      <3>2. CASE j = k /\ e = [session |-> s, fd |-> fdOf[at[s]]["notif"], owner |-> at[s]]
        BY <2>2, <3>2
      <3>3. QED
        BY <2>3, <3>1, <3>2
    <2>6. QED
      BY <1>4, <2>2, <2>5 DEF Serving
  <1>8. CASE Unsubscribe(s)
    <2>1. PICK k \in Keys : k = msg[s].key
      <3>1. pc[s] = "do" /\ msg[s].op = "UNSUBSCRIBE"
        BY <1>8 DEF Unsubscribe
      <3>2. QED
        BY <1>0, <3>1 DEF RequestInv, IsRequest
    <2>2. /\ at' = at /\ fdOf' = fdOf /\ msg' = msg /\ pc'[s] = "answer" /\ msg[s].op = "UNSUBSCRIBE"
          /\ sessKeys'[s] = sessKeys[s] \ {k}
      BY <1>0, <1>8, <2>1 DEF Unsubscribe, Goto, data
    <2>3. keySubs' = IF k \in sessKeys[s] THEN [keySubs EXCEPT ![k] = {e \in @ : e.session # s}] ELSE keySubs
      BY <1>8, <2>1 DEF Unsubscribe
    <2>4. ASSUME NEW j \in Keys, NEW e \in keySubs'[j]
          PROVE  e \in keySubs[j] /\ (j = k => e.session # s)
      <3>1. CASE k \in sessKeys[s]
        BY <1>0, <2>3, <2>4, <3>1
      <3>2. CASE k \notin sessKeys[s]
        BY <1>2, <2>3, <2>4, <3>2
      <3>3. QED
        BY <3>1, <3>2
    <2>5. ASSUME NEW j \in Keys, NEW e \in keySubs'[j]
          PROVE  /\ at'[e.session] = e.owner /\ j \in sessKeys'[e.session]
                 /\ e.fd = fdOf'[e.owner]["notif"]
      <3>1. e \in keySubs[j] /\ (j = k => e.session # s)
        BY <2>4
      <3>2. CASE e.session = s
        BY <1>2, <2>2, <3>1, <3>2
      <3>3. CASE e.session # s
        BY <1>1, <1>2, <2>2, <3>1, <3>3
      <3>4. QED
        BY <3>2, <3>3
    <2>6. QED
      BY <1>4, <2>2, <2>5 DEF Serving
  <1>9. ~DropClient(s)
    <2>1. SUFFICES ASSUME DropClient(s) PROVE FALSE
      OBVIOUS
    <2>2. at' = at /\ freed' = freed \cup {at[s]}
      BY <2>1 DEF DropClient
    <2>3. QED
      BY <2>2 DEF Doomed
  <1>10. QED
    BY <1>5, <1>6, <1>7, <1>8, <1>9 DEF SessionThread

(* Every step keeps the trees in agreement. *)
LEMMA BooksStep ==
  ASSUME DataInv, BooksInv, ~Doomed, ~Doomed', Next
  PROVE  BooksInv'
  <1>1. ASSUME UNCHANGED <<fdOf, sessKeys, keySubs, sessionVars>>
        PROVE  BooksInv'
    BY <1>1 DEF BooksInv, sessionVars
  <1>2. ASSUME NEW c \in Clients, ClientStep(c)
        PROVE  BooksInv'
    <2>1. UNCHANGED <<fdOf, sessKeys, keySubs, sessionVars>>
      BY <1>2, ClientSteps DEF DataInv, Types, data, books
    <2>2. QED
      BY <1>1, <2>1
  <1>3. ASSUME NEW s \in Sessions, SessionThread(s)
        PROVE  BooksInv'
    BY <1>3, BooksSession
  <1>4. CASE MainThread \/ Signal \/ SignalCutsWait
    <2>1. UNCHANGED <<fdOf, sessKeys, keySubs, sessionVars>>
      BY <1>4, MainBefore DEF books
    <2>2. QED
      BY <1>1, <2>1
  <1>5. ASSUME NEW k \in Keys, Notify(k) \/ KeepList(k)
        PROVE  BooksInv'
    <2>1. UNCHANGED <<fdOf, sessKeys, keySubs, sessionVars>>
      BY <1>5 DEF Notify, KeepList, data, books
    <2>2. QED
      BY <1>1, <2>1
  <1>6. QED
    BY <1>2, <1>3, <1>4, <1>5 DEF Next, ClientStep

(* What a session writes goes to the response pipe of its client. *)
LEMMA SpeaksTo ==
  ASSUME DataInv, NEW s \in Sessions, NEW c \in Clients, With(c, s), NEW m \in Messages,
         "resp" \in Opened(s), pipe' = Writes(fdOf[c]["resp"], m)
  PROVE  /\ Req(c)' = Req(c) /\ Notif(c)' = Notif(c)
         /\ Alive(c) => Resp(c)' = Append(Resp(c), m)
  <1>0. /\ ClientType /\ DataType
        /\ <<c, "req">> \in Clients \X Kinds /\ <<c, "resp">> \in Clients \X Kinds /\ <<c, "notif">> \in Clients \X Kinds
    BY DEF DataInv, Types, Kinds
  <1>1. fdOf[c]["resp"] \in Fds /\ fds[fdOf[c]["resp"]] = <<c, "resp">>
    BY DEF DataInv, FdInv, With
  <1> DEFINE W == Writes(fdOf[c]["resp"], m)
  <1>2. /\ \A p \in Clients \X Kinds : p # fds[fdOf[c]["resp"]] => W[p] = pipe[p]
        /\ Alive(c) => W[<<c, "resp">>] = Append(pipe[<<c, "resp">>], m)
    <2> HIDE DEF W
    <2>1. /\ \A p \in Clients \X Kinds : p # fds[fdOf[c]["resp"]] => W[p] = pipe[p]
          /\ \A d \in Clients : Alive(d) /\ fds[fdOf[c]["resp"]] = <<d, "resp">> =>
               W[<<d, "resp">>] = Append(pipe[<<d, "resp">>], m)
      BY <1>0, <1>1, WritesFacts DEF W
    <2>2. QED
      BY <1>1, <2>1
  <1>3. /\ W[<<c, "req">>] = pipe[<<c, "req">>] /\ W[<<c, "notif">>] = pipe[<<c, "notif">>]
    <2> HIDE DEF W
    <2>1. QED
      BY <1>0, <1>1, <1>2
  <1>4. pipe' = W
    OBVIOUS
  <1> HIDE DEF W
  <1>5. QED
    BY <1>2, <1>3, <1>4 DEF Req, Resp, Notif

(* Every step keeps the notes of a client its own. *)
LEMMA NotesStep ==
  ASSUME DataInv, BooksInv, ~Doomed, ~Doomed', Next, NEW d \in Clients, NotesInv(d)
  PROVE  NotesInv(d)'
  <1>0. /\ pipe \in [Clients \X Kinds -> Seq(Messages)] /\ ClientType /\ Types
        /\ <<d, "notif">> \in Clients \X Kinds /\ Notif(d) \in Seq(Messages)
        /\ at \in [Sessions -> Clients \cup {NoClient}] /\ NoClient \notin Clients
    BY SessionAssumption DEF DataInv, Types, ClientType, SessionType, Kinds, Notif
  <1>1. ASSUME Notif(d)' = Notif(d)
        PROVE  NotesInv(d)'
    BY <1>1 DEF NotesInv
  <1>2. ASSUME Notif(d)' = <<>>
        PROVE  NotesInv(d)'
    BY <1>2 DEF NotesInv
  <1>3. ASSUME NEW c \in Clients, ClientStep(c)
        PROVE  NotesInv(d)'
    <2>1. CASE d # c
      <3>1. pipe'[<<d, "notif">>] = pipe[<<d, "notif">>]
        BY <1>0, <1>3, <2>1, ClientSteps
      <3>2. QED
        BY <1>1, <3>1 DEF Notif
    <2>2. CASE d = c /\ Notified(c)
      <3>1. Notif(d) # <<>> /\ pipe' = [pipe EXCEPT ![<<d, "notif">>] = Tail(@)]
        BY <2>2 DEF Notified, Notif
      <3>2. Notif(d)' = Tail(Notif(d))
        BY <1>0, <3>1 DEF Notif
      <3>3. \A i \in DOMAIN Tail(Notif(d)) : i + 1 \in DOMAIN Notif(d) /\ Tail(Notif(d))[i] = Notif(d)[i + 1]
        BY <1>0, <3>1, TailFacts
      <3>4. QED
        BY <3>2, <3>3 DEF NotesInv
    <2>3. CASE d = c /\ ((\E label : Over(c, label)) \/ UNCHANGED pipe)
      <3>1. CASE UNCHANGED pipe
        BY <1>1, <3>1 DEF Notif
      <3>2. CASE \E label : Over(c, label)
        <4>1. pipe' = [pipe EXCEPT ![<<d, "resp">>] = <<>>, ![<<d, "notif">>] = <<>>]
          BY <2>3, <3>2 DEF Over
        <4>2. pipe'[<<d, "notif">>] = <<>>
          BY <1>0, <4>1
        <4>3. QED
          BY <1>2, <4>2 DEF Notif
      <3>3. QED
        BY <2>3, <3>1, <3>2
    <2>4. CASE d = c /\ (Connected(c) \/ Request(c) \/ Answered(c))
      <3>1. \/ pipe' = [pipe EXCEPT ![<<d, "resp">>] = Tail(@)]
            \/ \E r \in RequestsOf(c) : pipe' = [pipe EXCEPT ![<<d, "req">>] = Append(@, r)]
        BY <2>4 DEF Connected, Request, Answered
      <3>2. pipe'[<<d, "notif">>] = pipe[<<d, "notif">>]
        BY <1>0, <3>1
      <3>3. QED
        BY <1>1, <3>2 DEF Notif
    <2>5. ~Notified(c) /\ ~(Connected(c) \/ Request(c) \/ Answered(c)) =>
            (\E label : Over(c, label)) \/ UNCHANGED pipe
      BY <1>3 DEF ClientStep, Connect, RequestFails, Die, ClientGoesOn, Check, Leave,
         EndOfInput, AnsweredByEof, Join, NotifThread, NotifiedOfEof, Kill, StoreTerminate
    <2>6. QED
      BY <2>1, <2>2, <2>3, <2>4, <2>5
  <1>4. ASSUME NEW s \in Sessions, SessionThread(s)
        PROVE  NotesInv(d)'
    <2>1. CASE d # at[s]
      <3>1. pipe'[<<d, "notif">>] = pipe[<<d, "notif">>]
        BY <1>0, <1>4, <2>1, SessionFrame
      <3>2. QED
        BY <1>1, <3>1 DEF Notif
    <2>2. CASE d = at[s] /\ (Greet(s) \/ Answer(s))
      <3>1. d \notin freed /\ With(d, s) /\ "resp" \in Opened(s)
        BY <2>2 DEF Doomed, With, Greet, Answer, Opened, Kinds
      <3>2. PICK m \in Messages : pipe' = Writes(fdOf[d]["resp"], m)
        <4>1. Message("CONNECT", NoKey, d) \in Messages /\ msg[s] \in Messages
          BY DEF Message, Messages, DataInv, Types, SessionType
        <4>2. QED
          BY <2>2, <4>1 DEF Greet, Answer
      <3>3. Notif(d)' = Notif(d)
        BY <3>1, <3>2, SpeaksTo
      <3>4. QED
        BY <1>1, <3>3
    <2>3. CASE d = at[s] /\ ReadRequest(s)
      <3>1. pipe' = [pipe EXCEPT ![<<d, "req">>] = Tail(@)]
        BY <2>3 DEF ReadRequest
      <3>2. pipe'[<<d, "notif">>] = pipe[<<d, "notif">>]
        BY <1>0, <3>1
      <3>3. QED
        BY <1>1, <3>2 DEF Notif
    <2>4. CASE ~(Greet(s) \/ Answer(s) \/ ReadRequest(s))
      <3>1. pipe' = pipe
        BY <1>4, <2>4 DEF SessionThread, TakeClient, OpenPipe, GreetFails, SetInfo, EnterRead,
           ReadEof, DropClient, EnterSubscribe, Subscribe, Unsubscribe, Disconnect, CleanSession, UseFreed
      <3>2. QED
        BY <1>1, <3>1 DEF Notif
    <2>5. QED
      BY <2>1, <2>2, <2>3, <2>4
  <1>5. CASE MainThread \/ Signal \/ SignalCutsWait
    <2>1. pipe' = pipe
      BY <1>5, MainBefore
    <2>2. QED
      BY <1>1, <2>1 DEF Notif
  <1>6. ASSUME NEW k \in Keys, Notify(k)
        PROVE  NotesInv(d)'
    <2>1. \A i \in DOMAIN pipe'[<<d, "notif">>] :
            \/ i \in DOMAIN pipe[<<d, "notif">>] /\ pipe'[<<d, "notif">>][i] = pipe[<<d, "notif">>][i]
            \/ \E e \in keySubs[k] : fds[e.fd] = <<d, "notif">> /\ pipe'[<<d, "notif">>][i].owner = e.owner
      BY <1>0, <1>6, NotifyFacts
    <2>2. \A e \in keySubs[k] : fds[e.fd] = <<d, "notif">> => e.owner = d
      BY <1>6, HomeOf
    <2>3. QED
      BY <2>1, <2>2 DEF NotesInv, Notif
  <1>7. ASSUME NEW k \in Keys, KeepList(k)
        PROVE  NotesInv(d)'
    BY <1>1, <1>7 DEF KeepList, Notif
  <1>8. QED
    BY <1>3, <1>4, <1>5, <1>6, <1>7 DEF Next, ClientStep

(* A client whose part of the state is the same exchanges what it did. *)
LEMMA ExchangedAsBefore ==
  ASSUME NEW c \in Clients, Exchanged(c), cpc'[c] = cpc[c], sent'[c] = sent[c],
         Req(c)' = Req(c), Resp(c)' = Resp(c), c \in freed' <=> c \in freed,
         \A s \in Sessions : at'[s] = c => at[s] = c /\ pc'[s] = pc[s] /\ msg'[s] = msg[s]
  PROVE  Exchanged(c)'
  <1>1. ASSUME NEW s \in Sessions, at'[s] = c, pc'[s] \notin Kinds
        PROVE  Exchange(c, s)'
    <2>1. at[s] = c /\ pc'[s] = pc[s] /\ msg'[s] = msg[s]
      BY <1>1
    <2>2. Exchange(c, s)
      BY <1>1, <2>1 DEF Exchanged
    <2>3. QED
      BY <2>1, <2>2 DEF Exchange, Quiet
  <1>2. QED
    BY <1>1 DEF Exchanged

(* A step of a client: a request goes out on empty pipes, and an answer    *)
(* taken leaves them empty.                                                *)
LEMMA ExchangeClient ==
  ASSUME DataInv, OrderInv, ~Doomed, NEW c \in Clients, ClientStep(c), Exchanged(c)
  PROVE  Exchanged(c)'
  <1>0. /\ ClientType /\ Served(c) /\ PlaceInv
        /\ cpc \in [Clients -> CLabels] /\ sent \in [Clients -> Messages]
        /\ pipe \in [Clients \X Kinds -> Seq(Messages)]
        /\ <<c, "req">> \in Clients \X Kinds /\ <<c, "resp">> \in Clients \X Kinds
        /\ \A s \in Sessions : at[s] \notin freed
        /\ freed \subseteq Clients /\ NoClient \notin Clients
    BY SessionAssumption DEF DataInv, OrderInv, Doomed, Types, ClientType, DataType, Kinds
  <1>1. UNCHANGED <<pc, at, msg, freed>>
    BY <1>0, ClientSteps DEF data, sessionVars
  <1>2. /\ Asks(c) => c \notin freed /\ \E s \in Sessions : at[s] = c /\ pc[s] \in Working
        /\ c \in freed => Quits(c) \/ cpc[c] \in {"ended", "dead"}
    BY <1>0 DEF Served, With, Stays, Asks, Quits
  <1>3. \A s \in Sessions : at[s] = c /\ pc[s] \notin Kinds => Exchange(c, s)
    BY DEF Exchanged
  <1>4. ASSUME cpc'[c] \in {"ended", "dead"}
        PROVE  Exchanged(c)'
    BY <1>4 DEF Exchanged, Exchange, Kinds
  <1>5. ASSUME UNCHANGED <<cpc, sent>>, Req(c)' = Req(c), Resp(c)' = Resp(c)
        PROVE  Exchanged(c)'
    BY <1>1, <1>5, ExchangedAsBefore
  <1>6. CASE Connect(c)
    <2>1. cpc[c] = "start" /\ cpc'[c] = "resp" /\ UNCHANGED pipe
      BY <1>0, <1>6 DEF Connect, GotoC
    <2>2. Resp(c)' = <<>>
      BY <2>1 DEF Exchanged, Resp
    <2>3. QED
      BY <2>1, <2>2 DEF Exchanged, Exchange, Kinds
  <1>7. CASE Connected(c)
    <2>1. /\ cpc[c] = "connect" /\ cpc'[c] = "check" /\ Resp(c) # <<>>
          /\ pipe' = [pipe EXCEPT ![<<c, "resp">>] = Tail(@)] /\ c \notin freed
      BY <1>0, <1>2, <1>7 DEF Connected, GotoC, Resp, Asks
    <2>2. Req(c)' = Req(c) /\ Resp(c)' = Tail(Resp(c))
      BY <1>0, <2>1 DEF Req, Resp
    <2>3. ASSUME NEW s \in Sessions, at'[s] = c, pc'[s] \notin Kinds
          PROVE  Exchange(c, s)'
      <3>1. Exchange(c, s)
        BY <1>1, <1>3, <2>3
      <3>2. Req(c) = <<>> /\ pc[s] \in Reads /\ Resp(c) = <<Message("CONNECT", NoKey, c)>>
        BY <2>1, <3>1 DEF Exchange
      <3>3. Req(c)' = <<>> /\ Resp(c)' = <<>>
        BY <2>2, <3>2
      <3>4. QED
        BY <1>1, <2>1, <3>2, <3>3 DEF Exchange, Quiet
    <2>4. QED
      BY <1>1, <2>1, <2>3 DEF Exchanged, Kinds
  <1>8. CASE Check(c) \/ EndOfInput(c)
    <2>1. cpc[c] \in {"check", "idle"} /\ cpc'[c] \in {"check", "idle"} /\ UNCHANGED pipe /\ c \notin freed
      BY <1>0, <1>2, <1>8 DEF Check, EndOfInput, GotoC, Asks
    <2>2. Req(c)' = Req(c) /\ Resp(c)' = Resp(c)
      BY <2>1 DEF Req, Resp
    <2>3. ASSUME NEW s \in Sessions, at'[s] = c, pc'[s] \notin Kinds
          PROVE  Exchange(c, s)'
      <3>1. Exchange(c, s)
        BY <1>1, <1>3, <2>3
      <3>2. QED
        BY <1>1, <2>1, <2>2, <3>1 DEF Exchange, Quiet
    <2>4. QED
      BY <1>1, <2>1, <2>3 DEF Exchanged, Kinds
  <1>9. CASE Request(c)
    <2>1. PICK r \in RequestsOf(c) : sent' = [sent EXCEPT ![c] = r]
                                     /\ pipe' = [pipe EXCEPT ![<<c, "req">>] = Append(@, r)]
      BY <1>9 DEF Request
    <2>2. cpc[c] = "idle" /\ cpc'[c] = "await" /\ c \notin freed
      BY <1>0, <1>2, <1>9 DEF Request, GotoC, Asks
    <2>3. sent'[c] = r /\ Req(c)' = Append(Req(c), r) /\ Resp(c)' = Resp(c)
      BY <1>0, <2>1 DEF Req, Resp
    <2>4. ASSUME NEW s \in Sessions, at'[s] = c, pc'[s] \notin Kinds
          PROVE  Exchange(c, s)'
      <3>1. Exchange(c, s)
        BY <1>1, <1>3, <2>4
      <3>2. Req(c) = <<>> /\ Resp(c) = <<>> /\ pc[s] \in Reads
        BY <2>2, <3>1 DEF Exchange, Quiet
      <3>3. Req(c)' = <<r>> /\ Resp(c)' = <<>>
        BY <2>3, <3>2
      <3>4. QED
        BY <1>1, <2>2, <2>3, <3>2, <3>3 DEF Exchange
    <2>5. QED
      BY <1>1, <2>2, <2>4 DEF Exchanged, Kinds
  <1>10. CASE Answered(c)
    <2>1. /\ cpc[c] = "await" /\ Resp(c) # <<>> /\ pipe' = [pipe EXCEPT ![<<c, "resp">>] = Tail(@)]
          /\ cpc'[c] = IF sent[c].op = "DISCONNECT" THEN "join" ELSE "check"
      BY <1>0, <1>10 DEF Answered, GotoC, Resp
    <2>2. Req(c)' = Req(c) /\ Resp(c)' = Tail(Resp(c))
      BY <1>0, <2>1 DEF Req, Resp
    <2>3. c \in freed => Resp(c)' = <<>> /\ cpc'[c] = "join"
      <3>1. SUFFICES ASSUME c \in freed PROVE Resp(c)' = <<>> /\ cpc'[c] = "join"
        OBVIOUS
      <3>2. Resp(c) = <<sent[c]>> /\ Quits(c)
        BY <1>2, <2>1, <3>1 DEF Exchanged
      <3>3. QED
        BY <2>1, <2>2, <3>2 DEF Quits
    <2>4. ASSUME NEW s \in Sessions, at'[s] = c, pc'[s] \notin Kinds
          PROVE  Exchange(c, s)'
      <3>1. Exchange(c, s) /\ With(c, s)
        BY <1>0, <1>1, <1>3, <2>4 DEF With
      <3>2. pc[s] \in Reads \cup {"clean"} /\ Req(c) = <<>> /\ Resp(c) = <<sent[c]>>
        BY <2>1, <3>1 DEF Exchange, Quiet
      <3>3. Req(c)' = <<>> /\ Resp(c)' = <<>>
        BY <2>2, <3>2
      <3>4. Serves(s, c)
        BY <1>0, <3>1, ServedByOne
      <3>5. CASE sent[c].op = "DISCONNECT"
        <4>1. Leaves(c, s)
          BY <2>1, <3>4, <3>5 DEF Serves, Quits
        <4>2. pc[s] = "clean"
          BY <3>2, <4>1 DEF Leaves, Reads
        <4>3. QED
          BY <1>1, <2>1, <3>3, <3>5, <4>2 DEF Exchange, Quiet
      <3>6. CASE sent[c].op # "DISCONNECT"
        <4>1. Stays(c, s)
          BY <2>1, <3>4, <3>6 DEF Serves, Asks
        <4>2. pc[s] \in Reads
          BY <3>2, <4>1 DEF Stays, Working
        <4>3. QED
          BY <1>1, <2>1, <3>3, <3>6, <4>2 DEF Exchange, Quiet
      <3>7. QED
        BY <3>5, <3>6
    <2>5. QED
      BY <1>1, <2>1, <2>3, <2>4 DEF Exchanged, Kinds
  <1>11. CASE AnsweredByEof(c)
    <2>1. blank' = blank
      BY <1>11, ServedSteps DEF Doomed
    <2>2. blank = {} /\ c \in blank'
      BY <1>11 DEF AnsweredByEof, OrderInv, Doomed
    <2>3. QED
      BY <2>1, <2>2
  <1>12. CASE RequestFails(c) \/ Die(c) \/ Leave(c) \/ Join(c)
    <2>1. cpc'[c] \in {"ended", "dead"}
      BY <1>0, <1>12 DEF RequestFails, Die, Leave, Join, Over, GotoC
    <2>2. QED
      BY <1>4, <2>1
  <1>13. CASE NotifiedOfEof(c) \/ StoreTerminate(c)
    <2>1. UNCHANGED <<cpc, sent, pipe>>
      BY <1>13 DEF NotifiedOfEof, StoreTerminate
    <2>2. QED
      BY <1>5, <2>1 DEF Req, Resp
  <1>14. CASE Notified(c)
    <2>1. UNCHANGED <<cpc, sent>> /\ pipe' = [pipe EXCEPT ![<<c, "notif">>] = Tail(@)]
      BY <1>14 DEF Notified, clientVars
    <2>2. Req(c)' = Req(c) /\ Resp(c)' = Resp(c)
      BY <1>0, <2>1 DEF Req, Resp
    <2>3. QED
      BY <1>5, <2>1, <2>2
  <1>15. CASE Kill(c)
    <2>1. c \in freed
      BY <1>0, <1>15 DEF Kill, Served
    <2>2. Quits(c) \/ cpc[c] \in {"ended", "dead"}
      BY <1>2, <2>1
    <2>3. cpc[c] = "await" => Resp(c) = <<sent[c]>>
      BY <2>1 DEF Exchanged
    <2>4. cpc[c] = "await" => pipe[<<c, "resp">>] # <<>>
      BY <2>3, SMTT(30) DEF Resp
    <2>5. cpc[c] # "idle"
      BY <2>2 DEF Quits
    <2>6. UNCHANGED <<cpc, sent, pipe>>
      BY <1>15, <2>4, <2>5 DEF Kill
    <2>7. QED
      BY <1>5, <2>6 DEF Req, Resp
  <1>16. QED
    BY <1>6, <1>7, <1>8, <1>9, <1>10, <1>11, <1>12, <1>13, <1>14, <1>15
       DEF ClientStep, ClientGoesOn, NotifThread

(* A step of a session, for the client it serves. *)
LEMMA ExchangeServed ==
  ASSUME DataInv, OrderInv, ~Doomed, ~Doomed', NEW s \in Sessions, SessionThread(s),
         NEW c \in Clients, at[s] = c, Exchanged(c)
  PROVE  Exchanged(c)'
  <1>0. /\ pc \in [Sessions -> SLabels] /\ at \in [Sessions -> Clients \cup {NoClient}]
        /\ msg \in [Sessions -> Messages] /\ pipe \in [Clients \X Kinds -> Seq(Messages)]
        /\ cpc \in [Clients -> CLabels]
        /\ ClientType /\ PlaceInv /\ NoClient \notin Clients
        /\ <<c, "req">> \in Clients \X Kinds /\ <<c, "resp">> \in Clients \X Kinds
        /\ c \notin freed /\ With(c, s) /\ pc[s] # "take"
        /\ Served(c) /\ Attends(s)
    BY SessionAssumption DEF DataInv, OrderInv, Doomed, Types, SessionType, ClientType, Kinds, With
  <1>1. Serves(s, c)
    BY <1>0, ServedByOne
  <1>2. /\ UNCHANGED <<npc, terminate, sent>>
        /\ \A u \in Sessions : u # s => at'[u] # c
    <2>1. \A u \in Sessions : u # s => at[u] # c /\ at'[u] = at[u]
      BY <1>0, SessionFrame DEF PlaceInv
    <2>2. QED
      BY <2>1, SessionFrame
  <1>3. ~TakeClient(s) /\ ~DropClient(s) /\ ~UseFreed(s)
    <2>1. ~TakeClient(s)
      BY <1>0 DEF TakeClient
    <2>2. ~UseFreed(s)
      BY <1>0 DEF UseFreed, DataIsThere
    <2>3. SUFFICES ASSUME DropClient(s) PROVE FALSE
      BY <2>1, <2>2
    <2>4. at' = at /\ freed' = freed \cup {c}
      BY <2>3 DEF DropClient
    <2>5. QED
      BY <2>4 DEF Doomed
  <1>4. pc[s] \notin Kinds => Exchange(c, s)
    BY DEF Exchanged
  <1>5. ASSUME cpc' = cpc, freed' = freed, pc[s] \notin Kinds, pc'[s] \notin Kinds => Exchange(c, s)'
        PROVE  Exchanged(c)'
    <2>1. cpc[c] \notin Kinds \cup {"start"}
      BY <1>0, <1>5 DEF Attends
    <2>2. \A u \in Sessions : at'[u] = c => u = s
      BY <1>2
    <2>3. QED
      BY <1>0, <1>5, <2>1, <2>2 DEF Exchanged
  <1>6. ASSUME at'[s] = NoClient, cpc' = cpc, pc[s] \notin Kinds,
               cpc[c] = "await" => Resp(c)' = <<sent[c]>>, cpc[c] = "join" => Resp(c)' = <<>>
        PROVE  Exchanged(c)'
    <2>1. cpc[c] \notin Kinds \cup {"start"}
      BY <1>0, <1>6 DEF Attends
    <2>2. \A u \in Sessions : at'[u] # c
      BY <1>0, <1>2, <1>6
    <2>3. QED
      BY <1>2, <1>6, <2>1, <2>2 DEF Exchanged
  <1>7. CASE OpenPipe(s)
    <2>1. /\ pc[s] \in Kinds /\ cpc[c] = pc[s] /\ UNCHANGED <<pipe, freed>>
          /\ pc'[s] = (IF pc[s] = "resp" THEN "req" ELSE IF pc[s] = "req" THEN "notif" ELSE "greet")
          /\ cpc'[c] = (IF pc[s] = "resp" THEN "req" ELSE IF pc[s] = "req" THEN "notif" ELSE "connect")
      BY <1>0, <1>7 DEF OpenPipe, Goto, GotoC
    <2>2. Req(c)' = <<>> /\ Resp(c)' = <<>>
      BY <1>0, <2>1 DEF Served, Exchanged, Req, Resp
    <2>3. \A u \in Sessions : at'[u] = c => u = s
      BY <1>2
    <2>4. pc'[s] \notin Kinds => pc'[s] = "greet" /\ cpc'[c] = "connect"
      BY <2>1 DEF Kinds
    <2>5. pc'[s] \notin Kinds => Exchange(c, s)'
      BY <2>2, <2>4 DEF Exchange
    <2>6. cpc'[c] \notin {"await", "join"}
      BY <2>1
    <2>7. QED
      BY <2>2, <2>3, <2>5, <2>6 DEF Exchanged
  <1>8. CASE EnterRead(s) \/ SetInfo(s)
    <2>1. /\ pc[s] \in Reads /\ pc'[s] \in Reads /\ UNCHANGED <<cpc, pipe, msg, freed>>
      BY <1>0, <1>8 DEF EnterRead, SetInfo, Goto, Reads, clientVars, data
    <2>2. Req(c)' = Req(c) /\ Resp(c)' = Resp(c) /\ pc[s] \notin Kinds
      BY <2>1 DEF Req, Resp, Reads, Kinds
    <2>3. Exchange(c, s)'
      BY <1>2, <1>4, <2>1, <2>2 DEF Exchange, Quiet, Reads
    <2>4. QED
      BY <1>5, <2>1, <2>2, <2>3
  <1>9. CASE ReadRequest(s)
    <2>1. /\ pc[s] = "reading" /\ pc'[s] = "do" /\ Req(c) # <<>> /\ UNCHANGED <<cpc, freed>>
          /\ pipe' = [pipe EXCEPT ![<<c, "req">>] = Tail(@)] /\ msg'[s] = Head(Req(c))
      BY <1>0, <1>9 DEF ReadRequest, Goto, Req, clientVars, data
    <2>2. Req(c)' = Tail(Req(c)) /\ Resp(c)' = Resp(c) /\ pc[s] \notin Kinds
      BY <1>0, <2>1 DEF Req, Resp, Kinds
    <2>3. /\ cpc[c] \notin {"connect", "check", "idle", "join"}
          /\ cpc[c] = "await" => Req(c) = <<sent[c]>> /\ Resp(c) = <<>>
      BY <1>4, <2>1, <2>2 DEF Exchange, Quiet, Reads
    <2>4. cpc[c] = "await" => Req(c)' = <<>> /\ Resp(c)' = <<>> /\ msg'[s] = sent[c]
      <3>1. \A m : Tail(<<m>>) = <<>> /\ Head(<<m>>) = m
        OBVIOUS
      <3>2. QED
        BY <2>1, <2>2, <2>3, <3>1
    <2>5. Exchange(c, s)'
      BY <1>2, <2>1, <2>3, <2>4 DEF Exchange, Quiet
    <2>6. QED
      BY <1>5, <2>1, <2>2, <2>5
  <1>10. CASE ReadEof(s)
    <2>1. /\ pc[s] = "reading" /\ cpc[c] \in {"join", "ended", "dead"} /\ UNCHANGED <<cpc, freed>>
      BY <1>0, <1>10 DEF ReadEof, clientVars, data
    <2>2. cpc[c] # "join" /\ pc[s] \notin Kinds
      BY <1>4, <2>1 DEF Exchange, Kinds
    <2>3. Exchange(c, s)'
      BY <2>1, <2>2 DEF Exchange
    <2>4. QED
      BY <1>5, <2>1, <2>2, <2>3
  <1>11. CASE EnterSubscribe(s) \/ Subscribe(s) \/ Unsubscribe(s) \/ Disconnect(s)
    <2>1. /\ pc[s] \in {"do", "lock"} /\ pc'[s] \in {"lock", "answer", "hung"}
          /\ UNCHANGED <<cpc, pipe, msg, freed>>
      BY <1>0, <1>11 DEF EnterSubscribe, Subscribe, Unsubscribe, Disconnect, Goto, clientVars, data
    <2>2. Req(c)' = Req(c) /\ Resp(c)' = Resp(c) /\ pc[s] \notin Kinds
      BY <2>1 DEF Req, Resp, Kinds
    <2>3. /\ cpc[c] \notin {"connect", "check", "idle", "join"}
          /\ cpc[c] = "await" => Quiet(c) /\ msg[s] = sent[c]
      BY <1>4, <2>1, <2>2 DEF Exchange, Reads
    <2>4. Exchange(c, s)'
      BY <1>2, <2>1, <2>2, <2>3 DEF Exchange, Quiet
    <2>5. QED
      BY <1>5, <2>1, <2>2, <2>4
  <1>12. CASE Greet(s)
    <2>1. /\ pc[s] = "greet" /\ pc'[s] = "setinfo" /\ Alive(c) /\ UNCHANGED <<cpc, freed>>
          /\ pipe' = Writes(fdOf[c]["resp"], Message("CONNECT", NoKey, c))
      BY <1>0, <1>12 DEF Greet, Goto, clientVars, data
    <2>2. Message("CONNECT", NoKey, c) \in Messages /\ "resp" \in Opened(s) /\ pc[s] \notin Kinds
      BY <2>1 DEF Message, Messages, Opened, Kinds
    <2>3. Req(c)' = Req(c) /\ Resp(c)' = Append(Resp(c), Message("CONNECT", NoKey, c))
      BY <1>0, <2>1, <2>2, SpeaksTo
    <2>4. /\ cpc[c] \notin {"check", "idle", "await", "join"}
          /\ cpc[c] = "connect" => Req(c) = <<>> /\ Resp(c) = <<>>
      BY <1>4, <2>1, <2>2 DEF Exchange, Reads
    <2>5. cpc[c] = "connect" => Req(c)' = <<>> /\ Resp(c)' = <<Message("CONNECT", NoKey, c)>>
      BY <2>3, <2>4
    <2>6. Exchange(c, s)'
      BY <2>1, <2>4, <2>5 DEF Exchange, Reads
    <2>7. QED
      BY <1>5, <2>1, <2>2, <2>6
  <1>13. CASE Answer(s)
    <2>1. /\ pc[s] = "answer" /\ pc'[s] \in {"loop", "clean"} /\ UNCHANGED <<cpc, freed>>
          /\ pipe' = Writes(fdOf[c]["resp"], msg[s])
          /\ pc'[s] = (IF msg[s].op = "DISCONNECT" THEN "clean" ELSE "loop")
      BY <1>0, <1>13 DEF Answer, Goto, clientVars, data
    <2>2. msg[s] \in Messages /\ "resp" \in Opened(s) /\ pc[s] \notin Kinds
      BY <1>0, <2>1 DEF Opened, Kinds
    <2>3. Req(c)' = Req(c) /\ (Alive(c) => Resp(c)' = Append(Resp(c), msg[s]))
      BY <1>0, <2>1, <2>2, SpeaksTo
    <2>4. /\ cpc[c] \notin {"connect", "check", "idle", "join"}
          /\ cpc[c] = "await" => Req(c) = <<>> /\ Resp(c) = <<>> /\ msg[s] = sent[c]
      BY <1>4, <2>1, <2>2 DEF Exchange, Quiet, Reads
    <2>5. cpc[c] = "await" => Req(c)' = <<>> /\ Resp(c)' = <<sent[c]>>
      <3>1. cpc[c] = "await" => Alive(c)
        BY DEF Alive
      <3>2. QED
        BY <2>3, <2>4, <3>1
    <2>6. Exchange(c, s)'
      BY <1>2, <2>1, <2>4, <2>5 DEF Exchange, Reads
    <2>7. QED
      BY <1>5, <2>1, <2>2, <2>6
  <1>14. CASE GreetFails(s)
    <2>1. pc[s] = "greet" /\ at'[s] = NoClient /\ cpc' = cpc /\ ~Alive(c)
      BY <1>0, <1>14 DEF GreetFails, clientVars
    <2>2. cpc[c] \notin {"await", "join"} /\ pc[s] \notin Kinds
      BY <2>1 DEF Alive, Kinds
    <2>3. QED
      BY <1>6, <2>1, <2>2
  <1>15. CASE CleanSession(s)
    <2>1. pc[s] = "clean" /\ at'[s] = NoClient /\ cpc' = cpc /\ UNCHANGED pipe
      BY <1>0, <1>15 DEF CleanSession, clientVars
    <2>2. Resp(c)' = Resp(c) /\ pc[s] \notin Kinds
      BY <2>1 DEF Resp, Kinds
    <2>3. /\ cpc[c] = "await" => Resp(c) = <<sent[c]>>
          /\ cpc[c] = "join" => Resp(c) = <<>>
      BY <1>4, <2>1, <2>2 DEF Exchange, Quiet, Reads
    <2>4. QED
      BY <1>6, <2>1, <2>2, <2>3
  <1>16. QED
    BY <1>3, <1>7, <1>8, <1>9, <1>10, <1>11, <1>12, <1>13, <1>14, <1>15 DEF SessionThread

(* Every step keeps one message at most between a client and its session.  *)
LEMMA ExchangeStep ==
  ASSUME DataInv, OrderInv, BooksInv, ~Doomed, ~Doomed', Next, NEW d \in Clients, Exchanged(d)
  PROVE  Exchanged(d)'
  <1>0. /\ ClientType /\ SessionType /\ Types /\ freed \subseteq Clients /\ NoClient \notin Clients
        /\ at \in [Sessions -> Clients \cup {NoClient}] /\ queue \in Seq(Clients)
        /\ <<d, "req">> \in Clients \X Kinds /\ <<d, "resp">> \in Clients \X Kinds
    BY SessionAssumption DEF DataInv, Types, DataType, SessionType, MainType, Kinds
  <1>1. ASSUME UNCHANGED <<cpc, sent, freed, pc, at, msg>>, Req(d)' = Req(d), Resp(d)' = Resp(d)
        PROVE  Exchanged(d)'
    BY <1>1, ExchangedAsBefore
  <1>2. ASSUME NEW c \in Clients, ClientStep(c)
        PROVE  Exchanged(d)'
    <2>1. CASE d = c
      BY <1>2, <2>1, ExchangeClient
    <2>2. CASE d # c
      <3>1. /\ cpc'[d] = cpc[d] /\ sent'[d] = sent[d]
            /\ \A p \in Clients \X Kinds : p[1] # c => pipe'[p] = pipe[p]
            /\ UNCHANGED <<freed, pc, at, msg>>
        BY <1>0, <1>2, <2>2, ClientSteps, ZenonT(60) DEF data, sessionVars
      <3>2. Req(d)' = Req(d) /\ Resp(d)' = Resp(d)
        BY <1>0, <2>2, <3>1 DEF Req, Resp
      <3>3. QED
        BY <3>1, <3>2, ExchangedAsBefore
    <2>3. QED
      BY <2>1, <2>2
  <1>3. ASSUME NEW s \in Sessions, SessionThread(s)
        PROVE  Exchanged(d)'
    <2>1. CASE d = at[s]
      BY <1>3, <2>1, ExchangeServed
    <2>2. CASE d # at[s]
      <3>1. /\ sent' = sent /\ cpc'[d] = cpc[d] /\ (d \in freed' <=> d \in freed)
            /\ \A u \in Sessions : u # s => pc'[u] = pc[u] /\ at'[u] = at[u] /\ msg'[u] = msg[u]
            /\ \A p \in Clients \X Kinds : p[1] # at[s] => pipe'[p] = pipe[p]
            /\ at'[s] = at[s] \/ at'[s] = NoClient \/ TakeClient(s)
        BY <1>3, <2>2, SessionFrame
      <3>2. Req(d)' = Req(d) /\ Resp(d)' = Resp(d)
        BY <1>0, <2>2, <3>1 DEF Req, Resp
      <3>3. CASE at'[s] # d
        <4>1. \A u \in Sessions : at'[u] = d => at[u] = d /\ pc'[u] = pc[u] /\ msg'[u] = msg[u]
          BY <3>1, <3>3
        <4>2. QED
          BY <3>1, <3>2, <4>1, ExchangedAsBefore
      <3>4. CASE at'[s] = d
        <4>1. TakeClient(s)
          BY <1>0, <2>2, <3>1, <3>4
        <4>2. pc'[s] = "resp"
          BY <1>0, <4>1 DEF TakeClient, Goto, SessionType
        <4>3. \A u \in Sessions : at'[u] = d /\ pc'[u] \notin Kinds => at[u] = d /\ pc'[u] = pc[u] /\ msg'[u] = msg[u]
          BY <3>1, <4>2 DEF Kinds
        <4>4. ASSUME NEW u \in Sessions, at'[u] = d, pc'[u] \notin Kinds
              PROVE  Exchange(d, u)'
          <5>1. at[u] = d /\ pc'[u] = pc[u] /\ msg'[u] = msg[u]
            BY <4>3, <4>4
          <5>2. Exchange(d, u)
            BY <4>4, <5>1 DEF Exchanged
          <5>3. QED
            BY <3>1, <3>2, <5>1, <5>2 DEF Exchange, Quiet
        <4>5. QED
          BY <3>1, <3>2, <4>4 DEF Exchanged
      <3>5. QED
        BY <3>3, <3>4
    <2>3. QED
      BY <2>1, <2>2
  <1>4. CASE MainThread \/ Signal \/ SignalCutsWait
    <2>1. UNCHANGED <<clientVars, pipe, freed, sessionVars>>
      BY <1>4, MainBefore
    <2>2. QED
      BY <1>1, <2>1 DEF Req, Resp, clientVars, sessionVars
  <1>5. ASSUME NEW k \in Keys, Notify(k)
        PROVE  Exchanged(d)'
    <2>1. UNCHANGED <<cpc, sent, freed, pc, at, msg>>
      BY <1>5 DEF Notify, clientVars, data, sessionVars
    <2>2. /\ pipe'[<<d, "req">>] = pipe[<<d, "req">>]
          /\ pipe'[<<d, "resp">>] # pipe[<<d, "resp">>] =>
               \E e \in keySubs[k] : fds[e.fd] = <<d, "resp">>
      BY <1>0, <1>5, NotifyFacts
    <2>3. \A e \in keySubs[k] : fds[e.fd] # <<d, "resp">>
      BY <1>5, HomeOf
    <2>4. QED
      BY <1>1, <2>1, <2>2, <2>3 DEF Req, Resp
  <1>6. ASSUME NEW k \in Keys, KeepList(k)
        PROVE  Exchanged(d)'
    <2>1. UNCHANGED <<cpc, sent, freed, pc, at, msg, pipe>>
      BY <1>6 DEF KeepList, clientVars, data, sessionVars
    <2>2. QED
      BY <1>1, <2>1 DEF Req, Resp
  <1>7. QED
    BY <1>2, <1>3, <1>4, <1>5, <1>6 DEF Next, ClientStep

(* Notes and answers are in order at first. *)
LEMMA StrongInit == Init => StrongInv
  <1> SUFFICES ASSUME Init PROVE StrongInv
    OBVIOUS
  <1>1. BooksInv
    BY DEF Init, BooksInv
  <1>2. ASSUME NEW c \in Clients
        PROVE  NotesInv(c) /\ Exchanged(c)
    <2>1. Notif(c) = <<>> /\ Resp(c) = <<>> /\ cpc[c] = "start" /\ c \notin freed
      BY <1>2 DEF Init, Notif, Resp, Kinds
    <2>2. NotesInv(c)
      BY <2>1 DEF NotesInv
    <2>3. Exchanged(c)
      BY <2>1 DEF Exchanged, Exchange
    <2>4. QED
      BY <2>2, <2>3
  <1>3. QED
    BY <1>1, <1>2 DEF StrongInv

(* Every step keeps them so. *)
LEMMA StrongStep == DataInv /\ OrderInv /\ StrongInv /\ [Next]_vars => StrongInv'
  <1> SUFFICES ASSUME DataInv, OrderInv, StrongInv, [Next]_vars, ~Doomed'
               PROVE  BooksInv' /\ \A c \in Clients : NotesInv(c)' /\ Exchanged(c)'
    BY DEF StrongInv
  <1>1. CASE Next
    <2>1. ~Doomed
      BY <1>1, DoomedBefore
    <2>2. BooksInv /\ \A c \in Clients : NotesInv(c) /\ Exchanged(c)
      BY <2>1 DEF StrongInv
    <2>3. BooksInv'
      BY <1>1, <2>1, <2>2, BooksStep
    <2>4. ASSUME NEW c \in Clients
          PROVE  NotesInv(c)' /\ Exchanged(c)'
      BY <1>1, <2>1, <2>2, NotesStep, ExchangeStep
    <2>5. QED
      BY <2>3, <2>4
  <1>2. CASE UNCHANGED vars
    <2>1. UNCHANGED <<cpc, npc, terminate, sent, pipe, fdOf, freed, books, pc, at, msg, signalled>>
      BY <1>2 DEF vars, clientVars, server, data, sessionVars, signals
    <2>2. ~Doomed
      BY <2>1 DEF Doomed
    <2>3. BooksInv'
      BY <2>1, <2>2 DEF StrongInv, BooksInv, books
    <2>4. ASSUME NEW c \in Clients
          PROVE  NotesInv(c)' /\ Exchanged(c)'
      <3>1. NotesInv(c) /\ Exchanged(c)
        BY <2>2 DEF StrongInv
      <3>2. Req(c)' = Req(c) /\ Resp(c)' = Resp(c) /\ Notif(c)' = Notif(c)
        BY <2>1 DEF Req, Resp, Notif
      <3>3. NotesInv(c)'
        BY <3>1, <3>2 DEF NotesInv
      <3>4. QED
        BY <2>1, <3>1, <3>2, <3>3, ExchangedAsBefore
    <2>5. QED
      BY <2>3, <2>4
  <1>3. QED
    BY <1>1, <1>2

(* Data, order, notes and answers, in all behaviours. *)
LEMMA StrongAlways == Spec => [](DataInv /\ OrderInv /\ StrongInv)
  <1>1. DataInv /\ OrderInv /\ StrongInv /\ [Next]_vars => (DataInv /\ OrderInv /\ StrongInv)'
    BY DataStep, OrderStep, StrongStep
  <1>2. Init => DataInv /\ OrderInv /\ StrongInv
    BY DataInit, OrderInit, StrongInit
  <1>3. QED
    BY <1>1, <1>2, PTL DEF Spec

(* Until SIGUSR1 or the death of a client on its session, a client is told *)
(* only of keys it subscribed itself: no descriptor in the tree of a key   *)
(* outlives its pipe, so none comes to mean the pipe of another client.    *)
THEOREM NotesReachTheirClient == Spec => []NotesGoHome
  <1>1. StrongInv => NotesGoHome
    BY DEF StrongInv, NotesGoHome, NotesInv, Notif
  <1>2. QED
    BY <1>1, StrongAlways, PTL

(* Until then a response pipe holds at most one message, the answer to the *)
(* connection or to the request its client waits with: no answer is lost,  *)
(* repeated, or left for a later request to take.                          *)
THEOREM AnswersMatch == Spec => []AnswersMatchRequests
  <1>1. DataInv /\ OrderInv /\ StrongInv => AnswersMatchRequests
    <2> SUFFICES ASSUME DataInv, OrderInv, StrongInv, ~Doomed, NEW c \in Clients,
                        pipe[<<c, "resp">>] # <<>>, Alive(c)
                 PROVE  /\ Len(pipe[<<c, "resp">>]) = 1
                        /\ \/ cpc[c] = "connect" /\ pipe[<<c, "resp">>][1] = Message("CONNECT", NoKey, c)
                           \/ cpc[c] = "await" /\ pipe[<<c, "resp">>][1] = sent[c]
      BY DEF AnswersMatchRequests
    <2>1. /\ Exchanged(c) /\ Served(c) /\ Resp(c) # <<>> /\ cpc[c] \in CLabels
      BY DEF StrongInv, OrderInv, Doomed, Resp, DataInv, Types, ClientType
    <2>2. \A s \in Sessions : at[s] \notin freed
      BY DEF Doomed
    <2>3. CASE Resp(c) = <<sent[c]>> /\ cpc[c] = "await"
      BY <2>3 DEF Resp
    <2>4. CASE Resp(c) = <<Message("CONNECT", NoKey, c)>> /\ cpc[c] = "connect"
      BY <2>4 DEF Resp
    <2>5. cpc[c] \in {"connect", "check", "idle", "await", "join"}
      BY <2>1 DEF Exchanged, Alive, CLabels
    <2>6. CASE Asks(c)
      <3>1. PICK s \in Sessions : With(c, s) /\ pc[s] \in Working
        BY <2>1, <2>6 DEF Served, Stays
      <3>2. Exchange(c, s)
        BY <2>1, <3>1 DEF Exchanged, With, Working, Kinds
      <3>3. QED
        BY <2>1, <2>3, <2>4, <2>5, <3>2 DEF Exchange, Quiet
    <2>7. CASE ~Asks(c)
      <3>1. Quits(c) /\ cpc[c] \in {"await", "join"}
        BY <2>5, <2>7 DEF Asks, Quits
      <3>2. CASE c \in freed
        BY <2>1, <2>3, <3>1, <3>2 DEF Exchanged
      <3>3. CASE c \notin freed
        <4>1. PICK s \in Sessions : With(c, s) /\ Leaves(c, s)
          BY <2>1, <3>1, <3>3 DEF Served, Left
        <4>2. Exchange(c, s)
          BY <2>1, <4>1 DEF Exchanged, With, Leaves, Working, Kinds
        <4>3. QED
          BY <2>1, <2>3, <2>4, <3>1, <4>2 DEF Exchange, Quiet
      <3>4. QED
        BY <3>2, <3>3
    <2>8. QED
      BY <2>6, <2>7
  <1>2. QED
    BY <1>1, StrongAlways, PTL
=============================================================================
