---------------------------- MODULE AtomicStore ----------------------------
(***************************************************************************)
(* What the key-value store promises its job threads: every WRITE, READ,   *)
(* DELETE, SHOW and BACKUP takes effect at one instant between its call    *)
(* and its return, however many keys it names.  Only the I/O on the output *)
(* file may make a command stop short; a DELETE that stops short has       *)
(* removed some of its keys, still at one instant.                         *)
(***************************************************************************)
EXTENDS Naturals, Sequences

CONSTANTS Threads,   \* the job threads
          Keys, Values,
          Absent,    \* what the store holds for a key it does not have
          Commands   \* the commands of the job files

VARIABLES store,     \* the contents: a value or Absent for every key
          phase,     \* per thread: "idle", "pending" or "done"
          request,   \* per thread: the command being served
          reply,     \* per thread: the set of lines it answered
          ok         \* per thread: whether the command ran to its end

vars == <<store, phase, request, reply, ok>>

NoCommand == [op |-> "NONE", pairs |-> <<>>]

Positions(c) == 1..Len(c.pairs)

KeysOf(c) == {c.pairs[i].key : i \in Positions(c)}

LastPosition(c, k) ==
  CHOOSE i \in Positions(c) :
    /\ c.pairs[i].key = k
    /\ \A j \in Positions(c) : c.pairs[j].key = k => j <= i

(* The lines a command prints when the store holds s. *)
Answer(c, s) ==
  CASE c.op = "READ"   -> {<<k, s[k]>> : k \in KeysOf(c)}
    [] c.op = "DELETE" -> {<<k, Absent>> : k \in
                            {c.pairs[i].key : i \in
                              {j \in Positions(c) :
                                 \/ s[c.pairs[j].key] = Absent
                                 \/ j # LastPosition(c, c.pairs[j].key)}}}
    [] c.op \in {"SHOW", "BACKUP"} ->
                          {<<k, s[k]>> : k \in {x \in Keys : s[x] # Absent}}
    [] OTHER           -> {}

(* The contents after a command, when the store held s before it. *)
Effect(c, s) ==
  [k \in Keys |->
     CASE c.op = "WRITE" /\ k \in KeysOf(c) -> c.pairs[LastPosition(c, k)].val
       [] c.op = "DELETE" /\ k \in KeysOf(c) -> Absent
       [] OTHER -> s[k]]

Init ==
  /\ store = [k \in Keys |-> Absent]
  /\ phase = [t \in Threads |-> "idle"]
  /\ request = [t \in Threads |-> NoCommand]
  /\ reply = [t \in Threads |-> {}]
  /\ ok = [t \in Threads |-> TRUE]

Invoke(t) ==
  /\ phase[t] = "idle"
  /\ \E c \in Commands : request' = [request EXCEPT ![t] = c]
  /\ phase' = [phase EXCEPT ![t] = "pending"]
  /\ UNCHANGED <<store, reply, ok>>

Perform(t) ==
  /\ phase[t] = "pending"
  /\ store' = Effect(request[t], store)
  /\ reply' = [reply EXCEPT ![t] = Answer(request[t], store)]
  /\ phase' = [phase EXCEPT ![t] = "done"]
  /\ UNCHANGED <<request, ok>>

StopShort(t) ==
  /\ phase[t] = "pending"
  /\ request[t].op # "WRITE"
  /\ \E gone \in SUBSET KeysOf(request[t]) :
       /\ request[t].op # "DELETE" => gone = {}
       /\ store' = [k \in Keys |-> IF k \in gone THEN Absent ELSE store[k]]
  /\ \E lines \in SUBSET Answer(request[t], store) :
       reply' = [reply EXCEPT ![t] = lines]
  /\ ok' = [ok EXCEPT ![t] = FALSE]
  /\ phase' = [phase EXCEPT ![t] = "done"]
  /\ UNCHANGED request

Return(t) ==
  /\ phase[t] = "done"
  /\ phase' = [phase EXCEPT ![t] = "idle"]
  /\ reply' = [reply EXCEPT ![t] = {}]
  /\ ok' = [ok EXCEPT ![t] = TRUE]
  /\ UNCHANGED <<store, request>>

Next == \E t \in Threads : Invoke(t) \/ Perform(t) \/ StopShort(t) \/ Return(t)

Spec == Init /\ [][Next]_vars
=============================================================================
