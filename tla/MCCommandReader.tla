-------------------------- MODULE MCCommandReader --------------------------
(***************************************************************************)
(* Lines that are in order and lines that are not, for TLC.  MaxString is  *)
(* 4 (the code: 40), MaxPairs 3 (256) and MaxUint 99.                      *)
(***************************************************************************)
EXTENDS CommandReader

Keyword(c) == (CHOOSE w \in JobWords \cup ConsoleWords : w.cmd = c).text

Good(c, rest, ks, vs) ==
  [text |-> Keyword(c) \o rest, means |-> [cmd |-> c, keys |-> ks, vals |-> vs]]
Bad(t) == [text |-> t, means |-> Invalid]
Empty(t) == [text |-> t, means |-> Nothing]

a == <<"a">>
bc == <<"b", "c">>

JobLines ==
  { Good("WRITE", <<"[", "(", "a", ",", "b", "c", ")", "(", "b", "c", ",", "a", ")",
                    "]", NL>>, <<a, bc>>, <<bc, a>>),
    Good("READ", <<"[", "a", ",", "b", "c", "]", NL>>, <<a, bc>>, <<>>),
    Good("DELETE", <<"[", "b", "c", "]", NL>>, <<bc>>, <<>>),
    Good("SHOW", <<NL>>, <<>>, <<>>),
    Good("SHOW", <<>>, <<>>, <<>>),
    Good("BACKUP", <<NL>>, <<>>, <<>>),
    Good("WAIT", <<"1", "2", " ", "7", NL>>, <<>>, <<>>),
    Empty(<<"#", " ", "a", NL>>),
    Bad(<<"W", NL>>),
    Bad(<<"S", "H", "O", "W", " ", NL>>),
    Bad(<<"a", NL>>),
    Bad(Keyword("WAIT") \o <<"1", "0", "0", NL>>),
    Bad(Keyword("WAIT") \o <<"1">>),
    Bad(Keyword("READ") \o <<"a", "]", NL>>),
    Bad(Keyword("READ") \o <<"[", "a", "b", NL>>),
    Bad(Keyword("READ") \o <<"[", "a", "]", " ", NL>>),
    Bad(Keyword("READ") \o <<"[", "a", "]">>),
    Bad(Keyword("DELETE") \o <<"[", "a", ",", "a", ",", "a", ",", "a", "]", NL>>),
    Bad(Keyword("WRITE") \o <<"[", "(", "a", " ", "a", ")", "]", NL>>),
    Bad(Keyword("WRITE") \o <<"[", "(", "a", ",", "a", "]", NL>>) }

ConsoleLines ==
  { Good("SUBSCRIBE", <<"[", "a", "]", NL>>, <<a>>, <<>>),
    Good("UNSUBSCRIBE", <<"[", "b", "c", "]", NL>>, <<bc>>, <<>>),
    Good("DELAY", <<"7", NL>>, <<>>, <<>>),
    Good("DISCONNECT", <<NL>>, <<>>, <<>>),
    Good("DISCONNECT", <<>>, <<>>, <<>>),
    Empty(<<"#", NL>>),
    Bad(<<"D", NL>>),
    Bad(Keyword("DISCONNECT") \o <<"a", NL>>),
    Bad(Keyword("DELAY") \o <<"7", " ", "1", NL>>),
    Bad(Keyword("DELAY") \o <<"1", "0", "0", NL>>),
    Bad(Keyword("SUBSCRIBE") \o <<"[", "a", ",", "a", "]", NL>>) }

LinesOf == [job |-> JobLines, console |-> ConsoleLines]

(* The lines written down as good are those that are in order. *)
ASSUME GoodLinesAreInOrder ==
  \A r \in Readers : \A l \in LinesOf[r] : l.means # Invalid <=> InOrder(r, l)
=============================================================================
