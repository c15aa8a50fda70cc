----------------------------- MODULE MCKvsStore -----------------------------
(***************************************************************************)
(* Small instances of KvsStore for TLC.                                    *)
(***************************************************************************)
EXTENDS KvsStore, TLC

(* Keys that all start with a letter; strcasecmp takes b and B for equal,  *)
(* kvs_write does not.                                                     *)
LetterKeys == {"a", "b", "B"}
LetterList == [k \in LetterKeys |-> IF k = "a" THEN 0 ELSE 1]
LetterRank == [a |-> 0, b |-> 1, B |-> 1]

Pair(k, v) == [key |-> k, val |-> v]
Cmd(op, pairs) == [op |-> op, pairs |-> pairs]

(* READ and DELETE use no value; their pairs carry v1.                     *)
LetterCommands ==
  { Cmd("WRITE",  <<Pair("b", "v1"), Pair("a", "v1"), Pair("b", "v2")>>),
    Cmd("WRITE",  <<Pair("b", "v2"), Pair("B", "v2"), Pair("b", "v1")>>),
    Cmd("READ",   <<Pair("b", "v1"), Pair("a", "v1")>>),
    Cmd("DELETE", <<Pair("a", "v1"), Pair("b", "v1"), Pair("a", "v1")>>),
    Cmd("SHOW",   <<>>),
    Cmd("BACKUP", <<>>) }

ASSUME LettersAgree ==
  \A j, k \in LetterKeys :
    LetterRank[j] <= LetterRank[k] => LetterList[j] <= LetterList[k]

(* Digits and letters together: strcasecmp puts 1 before a, hash() puts it *)
(* in the list of b.                                                       *)
MixedKeys == {"1", "a", "b"}
MixedList == [k \in MixedKeys |-> IF k = "a" THEN 0 ELSE 1]
MixedRank == ("1" :> 0) @@ [a |-> 1, b |-> 2]

MixedCommands ==
  { Cmd("WRITE", <<Pair("a", "v1"), Pair("b", "v1")>>),
    Cmd("WRITE", <<Pair("1", "v1"), Pair("a", "v1")>>) }
=============================================================================
