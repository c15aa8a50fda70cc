----------------------------- MODULE MCPartOne -----------------------------
(***************************************************************************)
(* A small directory for PartOne: three jobs on two lists, and an entry    *)
(* that is not a job; the buffer of readdir takes all but the last.        *)
(***************************************************************************)
EXTENDS PartOne

Directory == <<"one", "dir", "two", "three">>

Cmd1(op, pairs) == [op |-> op, pairs |-> pairs]
P(k, v) == [key |-> k, val |-> v]

Jobs == [
  one   |-> <<Cmd1("WRITE", <<P("b", "v1"), P("a", "v1")>>), Cmd1("BACKUP", <<>>),
              Cmd1("BACKUP", <<>>)>>,
  two   |-> <<Cmd1("DELETE", <<P("b", "v1"), P("a", "v1")>>),
              Cmd1("READ", <<P("a", "v1"), P("b", "v1")>>)>>,
  three |-> <<Cmd1("SHOW", <<>>), Cmd1("WRITE", <<P("a", "v2"), P("b", "v2")>>),
              Cmd1("BACKUP", <<>>)>>]

ListOfKey == [a |-> 0, b |-> 1]
=============================================================================
