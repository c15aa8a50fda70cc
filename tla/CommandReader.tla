--------------------------- MODULE CommandReader ---------------------------
(***************************************************************************)
(* How a job file and the console of a client become commands: get_next    *)
(* and the parse_ functions of server/parser.c and client/parser.c, and    *)
(* the loops of do_commands and of the client's main() that call them.     *)
(*                                                                         *)
(* The text is a sequence of characters read from front to back, pos being *)
(* the file offset.  One step is get_next or one round of a parse_ loop.   *)
(* read() returns fewer characters than asked for at the end of the text   *)
(* only (a regular file, also for the console); numbers have fewer than 16 *)
(* digits, the size of the buffer of read_uint.                            *)
(***************************************************************************)
EXTENDS Integers, Sequences, SequencesExt, FiniteSetsExt

CONSTANTS Lines,      \* the lines texts are made of, by reader: records with
                      \* their text and what they mean
          MaxLines,   \* lines per text
          MaxString,  \* MAX_STRING_SIZE
          MaxPairs,   \* MAX_WRITE_SIZE
          MaxUint     \* UINT_MAX

Readers == {"job", "console"}

Blank == " "
Comma == ","
NL == "\n"

(* A keyword with the blank that follows it; bare ones end their line.     *)
Word(text, cmd, bare) == [text |-> text, cmd |-> cmd, bare |-> bare]

JobWords ==
  { Word(<<"W", "R", "I", "T", "E", Blank>>, "WRITE", FALSE),
    Word(<<"W", "A", "I", "T", Blank>>, "WAIT", FALSE),
    Word(<<"R", "E", "A", "D", Blank>>, "READ", FALSE),
    Word(<<"D", "E", "L", "E", "T", "E", Blank>>, "DELETE", FALSE),
    Word(<<"S", "H", "O", "W">>, "SHOW", TRUE),
    Word(<<"B", "A", "C", "K", "U", "P">>, "BACKUP", TRUE),
    Word(<<"H", "E", "L", "P">>, "HELP", TRUE) }

ConsoleWords ==
  { Word(<<"S", "U", "B", "S", "C", "R", "I", "B", "E", Blank>>, "SUBSCRIBE", FALSE),
    Word(<<"U", "N", "S", "U", "B", "S", "C", "R", "I", "B", "E", Blank>>,
         "UNSUBSCRIBE", FALSE),
    Word(<<"D", "E", "L", "A", "Y", Blank>>, "DELAY", FALSE),
    Word(<<"D", "I", "S", "C", "O", "N", "N", "E", "C", "T">>, "DISCONNECT", TRUE) }

WordsOf(r) == IF r = "job" THEN JobWords ELSE ConsoleWords

Closers == {NL, "NUL"}
Digits == <<"0", "1", "2", "3", "4", "5", "6", "7", "8", "9">>

(* The characters that occur in the lines. *)
Characters == UNION {UNION {ToSet(l.text) : l \in Lines[r]} : r \in Readers}

ASSUME ReaderAssumption ==
  /\ \A r \in Readers : \A l \in Lines[r] : l.text \in Seq(Characters) \ {<<>>}
  /\ MaxLines \in Nat /\ MaxString \in Nat \ {0}
  /\ MaxPairs \in Nat \ {0} /\ MaxUint \in Nat

VARIABLES
  who,    \* which of the two programs reads
  lines,  \* history: the lines the text was made of
  text,
  pos,    \* the place of the next character
  pc,     \* "next" is the call of get_next
  cmd,    \* the command get_next returned
  keys,   \* the keys, and with WRITE the values, parsed so far
  vals,
  from,   \* history: where get_next was called
  run,    \* history: what the loop made of that command
  stored  \* history: how many characters each call of read_string for the
          \* command has stored

vars == <<who, lines, text, pos, pc, cmd, keys, vals, from, run, stored>>

Nothing == [cmd |-> "NONE", keys |-> <<>>, vals |-> <<>>]
Invalid == [Nothing EXCEPT !.cmd = "INVALID"]
-----------------------------------------------------------------------------
(* Reading *)

Past(p) == IF p > Len(text) THEN Len(text) + 1 ELSE p

Is(p, chars) == p <= Len(text) /\ text[p] \in chars

(* Mutant of Cleanup: the line end is left for the next read.              *)
StopAtLineEnd(p) ==
  LET ends == {i \in p..Len(text) : text[i] = NL}
  IN  IF ends = {} THEN Past(p) ELSE Min(ends)

(* cleanup(): where the next line starts, seen from p.                     *)
Cleanup(p) ==
  LET ends == {i \in p..Len(text) : text[i] = NL}
  IN  IF ends = {} THEN Len(text) + 1 ELSE Min(ends) + 1

(* read_string(): up to MaxString characters, to the first that ends them; *)
(* a line end is a character like any other.                               *)
Stops(p) == {i \in p..Past(p + MaxString - 1) : Is(i, {Blank, Comma, ")", "]"})}

ReadString(p) ==
  LET stops == Stops(p)
      i == Min(stops)
  IN  IF stops = {} \/ Is(i, {Blank})
      THEN [value |-> -1, str |-> <<>>,
            pos |-> IF stops = {} THEN Past(p + MaxString) ELSE i + 1]
      ELSE [value |-> IF Is(i, {Comma}) THEN 0 ELSE IF Is(i, {")"}) THEN 1 ELSE 2,
            str |-> SubSeq(text, p, i - 1), pos |-> i + 1]

(* How many characters read_string() stores in its array of MaxString: what *)
(* it reads, and a 0 unless a blank or the end of the text makes it return  *)
(* at once.  When none of MaxString characters ends the string, the 0 goes  *)
(* into the place behind the array, which C does not define: it is taken    *)
(* to have no other effect, and the callers give the command up.            *)
StoredBy(p) ==
  IF Stops(p) # {} THEN Min(Stops(p)) - p + (IF Is(Min(Stops(p)), {Blank}) THEN 0 ELSE 1)
  ELSE IF p + MaxString - 1 <= Len(text) THEN MaxString + 1
  ELSE Len(text) + 1 - p

ValueOf(digits) ==
  FoldLeft(LAMBDA n, d : 10 * n + (CHOOSE k \in 0..9 : Digits[k + 1] = d), 0, digits)

(* read_uint(): the number and the place after the character that ends it. *)
ReadUint(p) ==
  LET stop == Min({i \in p..(Len(text) + 1) : ~Is(i, ToSet(Digits))})
  IN  [value |-> ValueOf(SubSeq(text, p, stop - 1)), last |-> stop,
       pos |-> Past(stop + 1)]
-----------------------------------------------------------------------------
(* Only the last line of a text may lack its line end. *)
Texts(w) ==
  {t \in UNION {[1..n -> Lines[w]] : n \in 1..MaxLines} :
     \A i \in 1..(Len(t) - 1) : Last(t[i].text) = NL}

Init ==
  /\ who \in Readers
  /\ lines \in Texts(who)
  /\ text = FlattenSeq([i \in DOMAIN lines |-> lines[i].text])
  /\ pos = 1
  /\ pc = "next"
  /\ cmd = "NONE"
  /\ keys = <<>> /\ vals = <<>>
  /\ from = 1
  /\ run = Nothing
  /\ stored = {}

Parsing(label, p) ==
  /\ pc' = label
  /\ pos' = p
  /\ UNCHANGED <<who, lines, text, cmd, from, run>>

(* What follows a parse_ function that was given a good command.           *)
Run(p, r) ==
  /\ pc' = "next"
  /\ pos' = p
  /\ run' = r
  /\ UNCHANGED <<who, lines, text, cmd, from>>

(* A parse_ function gives up: it skips to the next line, and the command  *)
(* is reported as invalid.                                                 *)
GiveUp(p) == Run(Cleanup(p), Invalid)

(* get_next(): the words with the first letter are tried in turn, each     *)
(* read() asking for what the word still needs.                            *)
Words == {w \in WordsOf(who) : Is(pos, {w.text[1]})}
Matching == {w \in Words : IsPrefix(w.text, SubSeq(text, pos, Len(text)))}
Asked == Max({Len(w.text) : w \in Words})

GetNext ==
  /\ pc = "next"
  /\ pos <= Len(text)
  /\ from' = pos
  /\ keys' = <<>> /\ vals' = <<>> /\ stored' = {}
  /\ UNCHANGED <<who, lines, text>>
  /\ \/ /\ Is(pos, {"#", NL})
        /\ pos' = Cleanup(pos)
        /\ cmd' = "EMPTY" /\ run' = Nothing
        /\ pc' = "next"
     \/ /\ ~Is(pos, {"#", NL})
        /\ Matching = {}
        /\ pos' = Cleanup(IF Words = {} THEN pos + 1 ELSE Past(pos + Asked))
        /\ cmd' = "INVALID" /\ run' = Invalid
        /\ pc' = "next"
     \/ \E w \in Matching :
          LET p == pos + Len(w.text)
          IN  \/ /\ ~w.bare
                 /\ pos' = p
                 /\ cmd' = w.cmd /\ run' = Nothing
                 /\ pc' = IF w.cmd \in {"WAIT", "DELAY"} THEN "number" ELSE "open"
              \/ /\ w.bare
                 /\ p > Len(text) \/ Is(p, {NL})
                 /\ pos' = Past(p + 1)
                 /\ cmd' = w.cmd /\ run' = [Nothing EXCEPT !.cmd = w.cmd]
                 /\ pc' = IF w.cmd = "DISCONNECT" THEN "end" ELSE "next"
              \/ /\ w.bare
                 /\ p <= Len(text) /\ ~Is(p, {NL})
                 /\ pos' = Cleanup(p + 1)
                 /\ cmd' = "INVALID" /\ run' = Invalid
                 /\ pc' = "next"

(* Mutant of EndOfCommands: EOC is taken for an empty line.                *)
EndIgnored ==
  /\ pc = "next"
  /\ pos > Len(text)
  /\ who = "job"
  /\ UNCHANGED vars

(* EOC: do_commands is done with the file.  The client asks again and      *)
(* again, until its notification thread tells it to stop.                  *)
EndOfCommands ==
  /\ pc = "next"
  /\ pos > Len(text)
  /\ who = "job"
  /\ pc' = "end"
  /\ UNCHANGED <<who, lines, text, pos, cmd, keys, vals, from, run, stored>>

(* The "[" of a list, and the "(" that follows it in a WRITE.              *)
Open ==
  /\ pc = "open"
  /\ UNCHANGED <<keys, vals, stored>>
  /\ IF ~Is(pos, {"["}) THEN GiveUp(Past(pos + 1))
     ELSE IF cmd # "WRITE" THEN Parsing("keys", pos + 1)
     ELSE IF ~Is(pos + 1, {"("}) THEN GiveUp(Past(pos + 2))
     ELSE Parsing("pairs", pos + 2)

(* The keys a list may have: the client passes 1 for max_keys.             *)
Limit == IF who = "job" THEN MaxPairs ELSE 1

(* Mutant of Full: one key more than the array has. *)
FullLate(n) == n = Limit + 1

(* The loop over the list stops: it never reads a key past its array.      *)
Full(n) == n = Limit

(* One round of parse_write.  parse_pair skips the rest of the line when   *)
(* it fails, and parse_write skips a line after that.                      *)
ParsePair ==
  LET key == ReadString(pos)
      val == ReadString(key.pos)
      n == Len(keys) + 1
  IN  /\ pc = "pairs"
      /\ stored' = stored \cup {StoredBy(pos)}
                          \cup (IF key.value = 0 THEN {StoredBy(key.pos)} ELSE {})
      /\ IF key.value # 0 THEN GiveUp(Cleanup(key.pos)) /\ UNCHANGED <<keys, vals>>
         ELSE IF val.value # 1 THEN GiveUp(Cleanup(val.pos)) /\ UNCHANGED <<keys, vals>>
         ELSE /\ keys' = Append(keys, key.str)
              /\ vals' = Append(vals, val.str)
              /\ IF ~Is(val.pos, {"(", "]"}) \/ Full(n)
                 THEN GiveUp(Past(val.pos + 1))
                 ELSE Parsing(IF Is(val.pos, {"]"}) THEN "close" ELSE "pairs",
                              val.pos + 1)

(* One round of parse_read_delete, or of the client's parse_list, which    *)
(* takes one key and does accept a full list.                              *)
ParseKey ==
  LET key == ReadString(pos)
      n == Len(keys) + 1
  IN  /\ pc = "keys"
      /\ stored' = stored \cup {StoredBy(pos)}
      /\ UNCHANGED vals
      /\ IF key.value \notin {0, 2} THEN GiveUp(key.pos) /\ UNCHANGED keys
         ELSE /\ keys' = Append(keys, key.str)
              /\ IF Full(n) /\ (who = "job" \/ key.value # 2) THEN GiveUp(key.pos)
                 ELSE Parsing(IF key.value = 2 THEN "close" ELSE "keys", key.pos)

(* Mutant of Close: whatever follows the "]" is taken for the line end.    *)
CloseAnyhow ==
  /\ pc = "close"
  /\ UNCHANGED <<keys, vals, stored>>
  /\ IF pos > Len(text) THEN GiveUp(pos)
     ELSE Run(pos + 1, [cmd |-> cmd, keys |-> keys, vals |-> vals])

(* The line end after the "]"; at the end of the text it must be there.    *)
Close ==
  /\ pc = "close"
  /\ UNCHANGED <<keys, vals, stored>>
  /\ IF ~Is(pos, Closers) THEN GiveUp(Past(pos + 1))
     ELSE Run(pos + 1, [cmd |-> cmd, keys |-> keys, vals |-> vals])

(* parse_wait and parse_delay.  A number that the end of the text ends is  *)
(* not terminated in the buffer: it may be followed by digits found there, *)
(* and be too large.  What follows a delay is left for the next get_next.  *)
ParseNumber ==
  LET n == ReadUint(pos)
      done == [Nothing EXCEPT !.cmd = cmd]
      closed == n.last > Len(text) \/ Is(n.last, Closers)
  IN  /\ pc = "number"
      /\ UNCHANGED <<keys, vals, stored>>
      /\ \/ /\ n.value > MaxUint \/ n.last > Len(text)
            /\ GiveUp(n.pos)
         \/ /\ n.value <= MaxUint
            /\ IF who = "console" \/ closed THEN Run(n.pos, done)
               ELSE IF Is(n.last, {Blank}) THEN Run(Cleanup(n.pos), done)
               ELSE GiveUp(n.pos)

Next ==
  \/ GetNext \/ EndOfCommands \/ Open \/ ParsePair \/ ParseKey \/ Close
  \/ ParseNumber

Spec == Init /\ [][Next]_vars /\ WF_vars(Next)
-----------------------------------------------------------------------------
(* Properties *)

Labels == {"next", "open", "pairs", "keys", "close", "number", "end"}
Commands == {w.cmd : w \in JobWords \cup ConsoleWords} \cup {"NONE", "EMPTY", "INVALID"}

Types ==
  /\ who \in Readers
  /\ lines \in Seq(Lines[who])
  /\ pos \in 1..(Len(text) + 1) /\ from \in 1..(Len(text) + 1)
  /\ pc \in Labels
  /\ cmd \in Commands /\ run.cmd \in Commands
  /\ stored \in SUBSET Nat

(* What the arrays take: a list no more entries than its array, whichever  *)
(* program reads; an entry no more than MaxString characters with its 0;   *)
(* and the array of read_string neither, but for the 0 of a string without *)
(* an end, which is stored one place behind it and of which the command is *)
(* always given up.                                                        *)
ArraysHold ==
  /\ Len(keys) <= Limit /\ Len(vals) <= Len(keys)
  /\ \A i \in DOMAIN keys : Len(keys[i]) < MaxString
  /\ \A i \in DOMAIN vals : Len(vals[i]) < MaxString
  /\ \A n \in stored :
       n <= MaxString \/ (n = MaxString + 1 /\ run = Invalid)

(* Types, and the bounds of the arrays of the parsers.                     *)
TypeOK == Types /\ ArraysHold

(* The reading of one command is over. *)
Between == pc \in {"next", "end"} /\ pos > from

(* After each command, good or bad, the reader is at the beginning of a    *)
(* line: whatever the line before was, it is not taken up in its middle.   *)
(* Only what follows the number of a DELAY is.                             *)
StartsAtLine ==
  pc = "next" =>
    \/ pos = 1 \/ pos > Len(text) \/ text[pos - 1] \in Closers
    \/ (who = "console" /\ cmd = "DELAY")

Listed(r) ==
  LET items == IF r.cmd = "WRITE"
               THEN [i \in DOMAIN r.keys |->
                       <<"(">> \o r.keys[i] \o <<Comma>> \o r.vals[i] \o <<")">>]
               ELSE [i \in DOMAIN r.keys |->
                       IF i = 1 THEN r.keys[i] ELSE <<Comma>> \o r.keys[i]]
  IN  <<"[">> \o FlattenSeq(items) \o <<"]">>

(* Lines that are in order, and what they mean.  A line that need not be   *)
(* read to its end has its line end in no other place.                     *)
NoLineEnd(t, i) == \A j \in i..(Len(t) - 1) : t[j] # NL

EmptyLine(l) ==
  l.means = Nothing /\ l.text[1] \in {"#", NL} /\ NoLineEnd(l.text, 1)

BareLine(w, l) ==
  /\ w.bare
  /\ l.means = [Nothing EXCEPT !.cmd = w.cmd]
  /\ l.text = w.text \/ l.text = w.text \o <<NL>>

(* What follows the number of a WAIT is a comment. *)
NumberLine(r, w, l) ==
  LET first == Len(w.text) + 1
  IN  /\ w.cmd \in {"WAIT", "DELAY"}
      /\ l.means = [Nothing EXCEPT !.cmd = w.cmd]
      /\ \E last \in first..Len(l.text) :
           /\ \A j \in 1..Len(w.text) : l.text[j] = w.text[j]
           /\ \A j \in first..(last - 1) : l.text[j] \in ToSet(Digits)
           /\ ValueOf(SubSeq(l.text, first, last - 1)) \in 0..MaxUint
           /\ \/ last = Len(l.text) /\ l.text[last] \in Closers
              \/ r = "job" /\ l.text[last] = Blank /\ NoLineEnd(l.text, last)

Strings ==
  {s \in Seq(Characters) : Len(s) < MaxString /\
     \A j \in DOMAIN s : s[j] \notin {Blank, Comma, ")", "]"}}

ListLine(r, w, l) ==
  LET ks == l.means.keys
      vs == l.means.vals
  IN  /\ ~w.bare /\ w.cmd \notin {"WAIT", "DELAY"}
      /\ l.means = [cmd |-> w.cmd, keys |-> ks, vals |-> vs]
      /\ ks \in Seq(Strings) /\ Len(ks) \in 1..(IF r = "job" THEN MaxPairs - 1 ELSE 1)
      /\ IF w.cmd = "WRITE" THEN vs \in Seq(Strings) /\ Len(vs) = Len(ks)
         ELSE vs = <<>>
      /\ \E c \in Closers : l.text = w.text \o Listed(l.means) \o <<c>>

InOrder(r, l) ==
  \/ EmptyLine(l)
  \/ \E w \in WordsOf(r) : BareLine(w, l) \/ NumberLine(r, w, l) \/ ListLine(r, w, l)

(* Where line i begins in the text. *)
LineStart(i) == 1 + Len(FlattenSeq([j \in 1..(i - 1) |-> lines[j].text]))

(* And a line that is in order and that get_next is called on is run as it *)
(* says, and as a whole: what is lost after a bad line is never lost       *)
(* because of a good one.                                                  *)
LinesStandAlone ==
  /\ StartsAtLine
  /\ Between => \A i \in DOMAIN lines :
       LineStart(i) = from /\ InOrder(who, lines[i])
       => run = lines[i].means /\ pos = from + Len(lines[i].text)

(* What is run with keys is what is written from the keyword to the end of *)
(* the line, character by character: no key, value or command is made up   *)
(* from parts of a line that was given up.                                 *)
RunsWhatIsWritten ==
  Between /\ run.keys # <<>> =>
    \E w \in JobWords \cup ConsoleWords :
      /\ w.cmd = run.cmd
      /\ SubSeq(text, from, pos - 2) = w.text \o Listed(run)
      /\ text[pos - 1] \in Closers

(* Every job file is read to its end, whatever it holds, and a console up  *)
(* to the end of its input or a DISCONNECT.                                *)
ReadsToTheEnd ==
  <>(pc = "end" \/ (who = "console" /\ pc = "next" /\ pos > Len(text)))
=============================================================================
